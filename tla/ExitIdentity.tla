---------------------------- MODULE ExitIdentity ----------------------------
(***************************************************************************)
(* The exit address of a proxy on the health page: the checks that learn   *)
(* it and its country through the proxy, the cache of their results, and   *)
(* the reputation dialog, one of whose services, Yandex, classifies        *)
(* whoever calls it and so has to be called through the proxy (main.py,    *)
(* reputation.py, health.js).                                              *)
(*                                                                         *)
(* The exit may change at any time, between two requests of one check too. *)
(* Each request through the proxy is a step.  An address stands for its    *)
(* own classification, so that an answer says which address it is about.   *)
(* Cache entries expire at any time: nothing here depends on how long they *)
(* live.                                                                   *)
(***************************************************************************)
EXTENDS FiniteSets

CONSTANTS
    Hosts,          \* the proxies checked, for one user
    Addresses,      \* their exits
    Requests,       \* requests of the page, named again once they are over
    NoHost, NoAddress, NoRequest

ASSUME NameAssumption == /\ NoAddress \notin Addresses /\ NoHost \notin Hosts
                         /\ NoRequest \notin Requests
                         /\ Requests \cap Addresses = {}
                         /\ "new" \notin Addresses

VARIABLES
    exit,       \* the address each proxy goes out from
    identity,   \* HEALTH_RESULT_CACHE, "proxy_request": no or one result
    reports,    \* CACHE of reputation.py for Yandex, per address
    check,      \* the checks under way: a request's own, or the shared load
                \* of an address's report, named by the address
    row,        \* the exit the page found of each proxy, or "new" before its check
    dialog,     \* the address the reputation dialog names
    counted,    \* the request that reputationRequest stands for
    results     \* the report the dialog shows, none while it waits or of an error

caches == <<identity, reports>>
page == <<row, dialog, counted, results>>
vars == <<exit, caches, check, page>>

Checks == Requests \cup Addresses
MaybeAddress == Addresses \cup {NoAddress}

\* A report: the address it is filed under and the one it is about.  moved,
\* here and below, is history: the exit changed between the answer that named
\* the address and the one, about another, that was filed under it.
Filed == [at : Addresses, of : Addresses, moved : BOOLEAN]
File(a, of, moved) == {[at |-> a, of |-> of, moved |-> moved /\ of # a]}
Idle == [step |-> "idle", kind |-> "head", host |-> NoHost, asked |-> NoAddress,
         ip |-> NoAddress, moved |-> FALSE, mine |-> FALSE]

\* What changes of a check that goes on.
Put(c, step, ip, moved, mine) ==
    [step |-> step, kind |-> c.kind, host |-> c.host, asked |-> c.asked,
     ip |-> ip, moved |-> moved, mine |-> mine]
Goes(c, step) == Put(c, step, c.ip, c.moved, c.mine)

TypeOK ==
    /\ exit \in [Hosts -> Addresses]
    /\ identity \in [Hosts -> SUBSET MaybeAddress]
    /\ reports \in [Addresses -> SUBSET Filed]
    /\ check \in [Checks ->
          [step : {"idle", "sent", "echo", "country", "waiting", "classify"},
           kind : {"head", "reputation", "load"}, host : Hosts \cup {NoHost},
           asked : MaybeAddress, ip : MaybeAddress, moved : BOOLEAN, mine : BOOLEAN]]
    /\ row \in [Hosts -> MaybeAddress \cup {"new"}]
    /\ dialog \in MaybeAddress
    /\ counted \in Requests \cup {NoRequest}
    /\ results \in SUBSET Filed

Init ==
    /\ exit \in [Hosts -> Addresses]
    /\ identity = [h \in Hosts |-> {}]
    /\ reports = [a \in Addresses |-> {}]
    /\ check = [p \in Checks |-> Idle]
    /\ row = [h \in Hosts |-> "new"]
    /\ dialog = NoAddress /\ counted = NoRequest /\ results = {}
-----------------------------------------------------------------------------
(***************************************************************************)
(* The page.                                                               *)
(***************************************************************************)
Sent(kind, h, a) ==
    [step |-> "sent", kind |-> kind, host |-> h, asked |-> a,
     ip |-> NoAddress, moved |-> FALSE, mine |-> kind = "head"]

\* A page checks each of its rows once, when it is loaded.
SendCheck(h) ==
    /\ row[h] = "new"
    /\ row' = [row EXCEPT ![h] = NoAddress]
    /\ \E r \in Requests : /\ check[r] = Idle
                           /\ check' = [check EXCEPT ![r] = Sent("head", h, NoAddress)]
    /\ UNCHANGED <<exit, caches, dialog, counted, results>>

\* The button of a row whose check has found an exit; the dialog is modal.
OpenReputation(h) ==
    /\ dialog = NoAddress /\ row[h] \in Addresses
    /\ dialog' = row[h] /\ results' = {}
    /\ \E r \in Requests :
          /\ check[r] = Idle
          /\ check' = [check EXCEPT ![r] = Sent("reputation", h, row[h])]
          /\ counted' = r
    /\ UNCHANGED <<exit, caches, row>>

CloseReputation ==
    /\ dialog # NoAddress
    /\ dialog' = NoAddress
    /\ UNCHANGED <<exit, caches, check, row, counted, results>>

\* The page is loaded anew.  The handlers of its requests go on.
Reload ==
    /\ row' = [h \in Hosts |-> "new"]
    /\ dialog' = NoAddress /\ counted' = NoRequest /\ results' = {}
    /\ check' = [p \in Checks |-> Put(check[p], check[p].step, check[p].ip,
                                       check[p].moved, FALSE)]
    /\ UNCHANGED <<exit, caches>>

\* The row takes the address found, if one was.
Show(r, ip) ==
    row' = IF check[r].mine THEN [row EXCEPT ![check[r].host] = ip] ELSE row

\* Mutant: a response counts whether or not its request is the latest.
AnswerLate(rs, answer) ==
    results' = IF \E r \in rs : check[r].kind = "reputation" THEN answer ELSE results

\* The responses to some requests; the dialog takes that of its latest one.
Answer(rs, answer) == results' = IF counted \in rs THEN answer ELSE results
-----------------------------------------------------------------------------
(***************************************************************************)
(* The reputation handler, once it knows the exit, and the shared load.    *)
(***************************************************************************)
Load(h) == [step |-> "echo", kind |-> "load", host |-> h, asked |-> NoAddress,
            ip |-> NoAddress, moved |-> FALSE, mine |-> FALSE]

\* Refused unless the exit is the address asked for; otherwise the report of
\* the cache, or that of the load under way, or that of a new one.
Compare(r, ip) ==
    LET a == check[r].asked
    IN  \/ /\ ip # a
           /\ check' = [check EXCEPT ![r] = Idle]
           /\ Answer({r}, {})
        \/ /\ ip = a /\ reports[a] # {}
           /\ check' = [check EXCEPT ![r] = Idle]
           /\ Answer({r}, reports[a])
        \/ /\ ip = a /\ reports[a] = {}
           /\ check' = [check EXCEPT ![r] = Goes(@, "waiting"),
                                     ![a] = IF @ = Idle THEN Load(check[r].host) ELSE @]
           /\ UNCHANGED results

Waiting(a) == {r \in Requests : check[r].step = "waiting" /\ check[r].asked = a}

\* A load ends and its callers answer.
EndLoad(a, answer) ==
    /\ check' = [p \in Checks |-> IF p = a \/ p \in Waiting(a) THEN Idle ELSE check[p]]
    /\ Answer(Waiting(a), answer)
    /\ UNCHANGED <<row, dialog, counted>>

\* Yandex answers about its caller: the proxy's exit by now.
Classify(a) ==
    /\ check[a].step = "classify"
    /\ LET report == File(a, exit[check[a].host], check[a].moved)
       IN  reports' = [reports EXCEPT ![a] = report] /\ EndLoad(a, report)
    /\ UNCHANGED <<exit, identity>>

\* An error or an unknown answer, which is not cached.
ClassifyFails(a) ==
    /\ check[a].step = "classify"
    /\ EndLoad(a, {})
    /\ UNCHANGED <<exit, caches>>
-----------------------------------------------------------------------------
(***************************************************************************)
(* run_https_proxy_request_check and what its three callers do with it.    *)
(***************************************************************************)
\* Mutant: the load does not look at the exit it has verified.
IdentifiedUnverified(p, ip) ==
    \/ /\ check[p].kind = "head"
       /\ identity' = [identity EXCEPT ![check[p].host] = {ip}]
       /\ check' = [check EXCEPT ![p] = Idle]
       /\ Show(p, ip)
       /\ UNCHANGED <<dialog, counted, results>>
    \/ /\ check[p].kind = "reputation"
       /\ Compare(p, ip)
       /\ UNCHANGED <<identity, row, dialog, counted>>
    \/ /\ check[p].kind = "load"
       /\ check' = [check EXCEPT ![p] = Goes(@, "classify")]
       /\ UNCHANGED <<identity, page>>

\* The page's check caches its result, even a failure; the reputation handler
\* compares it with the address asked for; the load asks Yandex only if it
\* found the address it is for.
Identified(p, ip) ==
    \/ /\ check[p].kind = "head"
       /\ identity' = [identity EXCEPT ![check[p].host] = {ip}]
       /\ check' = [check EXCEPT ![p] = Idle]
       /\ Show(p, ip)
       /\ UNCHANGED <<dialog, counted, results>>
    \/ /\ check[p].kind = "reputation"
       /\ Compare(p, ip)
       /\ UNCHANGED <<identity, row, dialog, counted>>
    \/ /\ check[p].kind = "load" /\ ip = p
       /\ check' = [check EXCEPT ![p] = Goes(@, "classify")]
       /\ UNCHANGED <<identity, page>>
    \/ /\ check[p].kind = "load" /\ ip # p
       /\ EndLoad(p, {})
       /\ UNCHANGED identity

\* A request of the page arrives: a cached result answers it, or a check starts.
Arrive(r) ==
    LET known == identity[check[r].host]
    IN  /\ check[r].step = "sent"
        /\ \/ /\ known = {}
              /\ check' = [check EXCEPT ![r] = Goes(@, "echo")]
              /\ UNCHANGED page
           \/ /\ check[r].kind = "head"
              /\ check' = [check EXCEPT ![r] = Idle]
              /\ \E ip \in known : Show(r, ip)
              /\ UNCHANGED <<dialog, counted, results>>
           \/ /\ check[r].kind = "reputation"
              /\ \E ip \in known : Compare(r, ip)
              /\ UNCHANGED <<row, dialog, counted>>
        /\ UNCHANGED <<exit, caches>>

\* One of the echo services names the exit.  The country of a known exit comes
\* from the cache, that of another one takes a request more.
Echo(p) ==
    LET a == exit[check[p].host]
    IN  /\ check[p].step = "echo"
        /\ \/ Identified(p, a)
           \/ /\ check' = [check EXCEPT ![p] = Put(@, "country", a, @.moved, @.mine)]
              /\ UNCHANGED <<identity, page>>
        /\ UNCHANGED <<exit, reports>>

\* None of them does.
EchoFails(p) ==
    /\ check[p].step = "echo"
    /\ Identified(p, NoAddress)
    /\ UNCHANGED <<exit, reports>>

\* The country services are asked in turn, again through the proxy; whatever
\* they answer, the check has found its exit.
Country(p) ==
    /\ check[p].step = "country"
    /\ Identified(p, check[p].ip)
    /\ UNCHANGED <<exit, reports>>
-----------------------------------------------------------------------------
(***************************************************************************)
(* The proxies and time.                                                   *)
(***************************************************************************)
Rotate(h) ==
    /\ \E a \in Addresses \ {exit[h]} : exit' = [exit EXCEPT ![h] = a]
    /\ check' = [p \in Checks |->
          IF p \in Addresses /\ check[p].host = h
             /\ check[p].step \in {"country", "classify"}
          THEN Put(check[p], check[p].step, check[p].ip, TRUE, check[p].mine)
          ELSE check[p]]
    /\ UNCHANGED <<caches, page>>

Expire ==
    /\ \/ /\ \E h \in Hosts : identity[h] # {} /\ identity' = [identity EXCEPT ![h] = {}]
          /\ UNCHANGED reports
       \/ /\ \E a \in Addresses : reports[a] # {} /\ reports' = [reports EXCEPT ![a] = {}]
          /\ UNCHANGED identity
    /\ UNCHANGED <<exit, check, page>>

Next ==
    \/ \E h \in Hosts : SendCheck(h) \/ OpenReputation(h) \/ Rotate(h)
    \/ CloseReputation \/ Reload \/ Expire
    \/ \E r \in Requests : Arrive(r)
    \/ \E p \in Checks : Echo(p) \/ EchoFails(p) \/ Country(p)
    \/ \E a \in Addresses : Classify(a) \/ ClassifyFails(a)

Spec == Init /\ [][Next]_vars
-----------------------------------------------------------------------------
(***************************************************************************)
(* Correctness.                                                            *)
(***************************************************************************)
\* The report that the open dialog shows was filed under the address it names,
\* never under that of an earlier dialog whose request was still under way, and
\* it is about that address, even if the proxy has another exit by now, unless
\* the exit changed after its load had verified it.
ResultsForNamedAddress ==
    dialog # NoAddress => \A f \in results : f.at = dialog /\ (f.of = dialog \/ f.moved)

\* Yandex's answer is filed under another address than the one it classified
\* only if the exit changed between the load's own verification and that
\* answer: neither a cached identity, nor another request's check, nor a
\* joined load, however old, makes it so.
ClassifiedUnlessRotated ==
    \A a \in Addresses : \A f \in reports[a] : f.of = a \/ f.moved

\* What the verification is for, in the words of the comment on it ("The
\* endpoint classifies its caller, so verify the current proxy exit"): a cached
\* answer is the answer about its address.
ClassifiedItsAddress ==
    \A a \in Addresses : \A f \in reports[a] : f.of = a
=============================================================================
