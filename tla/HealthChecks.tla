---------------------------- MODULE HealthChecks ----------------------------
(***************************************************************************)
(* The health checks that look at a host from the server (main.py): a      *)
(* ping, a connection or an HTTP version, cached by HEALTH_RESULT_CACHE    *)
(* whatever it says, and DNS; and the list that says what may be checked.  *)
(*                                                                         *)
(* Checks of one host are not shared: two may overlap, and the one that    *)
(* began first may store its result last.  The checks of a host are alike  *)
(* and independent: one of them stands for all.                            *)
(***************************************************************************)
EXTENDS Integers, SequencesExt

CONSTANTS
    Hosts, Configured, Messages, Torn, Unreadable, Nothing,
    Names,      \* domains with the resolver that is asked
    Checks,     \* requests under way at once
    HealthTTL, DnsTTL, DnsMax,
    CheckTime,  \* every check times out
    MaxTime     \* bound on the clock

ASSUME HealthAssumption ==
    /\ {HealthTTL, DnsTTL, DnsMax} \subseteq Nat \ {0}
    /\ {CheckTime, MaxTime} \subseteq Nat

VARIABLES
    message, proxies, saving, accepted, cut,
    now,
    health,     \* HEALTH_RESULT_CACHE
    dns,        \* DNS_RESULT_CACHE, least recently used first
    job         \* what each request is doing

List == INSTANCE ProxyList

ASSUME ListAssumption ==
    /\ \A list \in List!Lists : list # Unreadable
    /\ \A f \in [form : List!Forms, file : {"message", "list"}] : f # Nothing

files == <<message, proxies, saving, accepted, cut>>
vars == <<files, now, health, dns, job>>

Times == 0 .. MaxTime
Idle == [what |-> "idle"]

TypeOK ==
    /\ List!TypeOK
    /\ now \in Times
    /\ health \subseteq [host : Hosts, asked : Times, at : Times]
    /\ dns \in Seq([name : Names, asked : Times, until : Nat])
    /\ job \in [Checks ->
          {Idle}
          \cup [what : {"health"}, host : Hosts, asked : Times]
          \cup [what : {"dns"}, name : Names, asked : Times]]

Init ==
    /\ List!Init
    /\ now = 0 /\ health = {} /\ dns = <<>> /\ job = [c \in Checks |-> Idle]
-----------------------------------------------------------------------------
(***************************************************************************)
(* Ping, connection, HTTP version.                                         *)
(***************************************************************************)
\* Mutant: a result lives an instant longer.
FreshLonger(entry) == now - entry.at <= HealthTTL

Fresh(entry) == now - entry.at < HealthTTL

\* A check of a listed host that is not answered from the cache, where an old
\* result is dropped.
Check(c, host) ==
    /\ job[c] = Idle /\ List!Listed(host)
    /\ \A e \in health : e.host = host => ~ Fresh(e)
    /\ health' = {e \in health : e.host # host}
    /\ job' = [job EXCEPT ![c] = [what |-> "health", host |-> host, asked |-> now]]
    /\ UNCHANGED <<files, now, dns>>

\* Mutant: the end of a result's life is stored in place of its beginning.
StoreExpiry(c) ==
    /\ job[c].what = "health"
    /\ health' = {e \in health : e.host # job[c].host}
                 \cup {[host |-> job[c].host, asked |-> job[c].asked, at |-> now + HealthTTL]}
    /\ job' = [job EXCEPT ![c] = Idle]
    /\ UNCHANGED <<files, now, dns>>

\* The host is up or down, or the time is over: the result is cached and sent.
Store(c) ==
    /\ job[c].what = "health"
    /\ health' = {e \in health : e.host # job[c].host}
                 \cup {[host |-> job[c].host, asked |-> job[c].asked, at |-> now]}
    /\ job' = [job EXCEPT ![c] = Idle]
    /\ UNCHANGED <<files, now, dns>>
-----------------------------------------------------------------------------
(***************************************************************************)
(* DNS.                                                                    *)
(***************************************************************************)
\* DNS_RESULT_CACHE.pop(key, None)
Without(name) ==
    IF \E i \in DOMAIN dns : dns[i].name = name
    THEN RemoveAt(dns, CHOOSE i \in DOMAIN dns : dns[i].name = name)
    ELSE dns

Entries(name) == {e \in ToSet(dns) : e.name = name}

\* A hit makes its entry the most recently used; an entry that is over goes.
DnsHit(name) ==
    /\ \E e \in Entries(name) : now < e.until /\ dns' = Append(Without(name), e)
    /\ UNCHANGED <<files, now, health, job>>

DnsMiss(c, name) ==
    /\ job[c] = Idle
    /\ \A e \in Entries(name) : now >= e.until
    /\ dns' = Without(name)
    /\ job' = [job EXCEPT ![c] = [what |-> "dns", name |-> name, asked |-> now]]
    /\ UNCHANGED <<files, now, health>>

\* Mutant: the cache grows to one more than its bound.
KeptOneMore(entries) ==
    IF Len(entries) > DnsMax + 1 THEN SubSeq(entries, Len(entries) - DnsMax + 1, Len(entries))
    ELSE entries

Kept(entries) ==
    IF Len(entries) > DnsMax THEN SubSeq(entries, Len(entries) - DnsMax + 1, Len(entries))
    ELSE entries

\* The lookups of IPv4 and IPv6 addresses: what one of them finds is an answer,
\* though the other may have failed.
Good(a, aaaa) == "addresses" \in {a, aaaa}

Found(c) ==
    Append(Without(job[c].name), [name |-> job[c].name, asked |-> job[c].asked,
                                  until |-> now + DnsTTL])

\* Mutant: a failure takes away what another lookup found meanwhile.
ResolvedOrGone(c, a, aaaa) ==
    /\ job[c].what = "dns"
    /\ dns' = IF Good(a, aaaa) THEN Kept(Found(c)) ELSE Without(job[c].name)
    /\ job' = [job EXCEPT ![c] = Idle]
    /\ UNCHANGED <<files, now, health>>

\* Addresses are cached; an error, or nothing, leaves the cache as it is.
Resolved(c, a, aaaa) ==
    /\ job[c].what = "dns"
    /\ dns' = IF Good(a, aaaa) THEN Kept(Found(c)) ELSE dns
    /\ job' = [job EXCEPT ![c] = Idle]
    /\ UNCHANGED <<files, now, health>>
-----------------------------------------------------------------------------
\* Every check has its time limit, so the clock waits for those that reach it.
Tick ==
    /\ now < MaxTime /\ \A c \in Checks : job[c] # Idle => now < job[c].asked + CheckTime
    /\ now' = now + 1
    /\ UNCHANGED <<files, health, dns, job>>

\* The process ends and is started again: the caches are in memory only.
Emptied == health' = {} /\ dns' = <<>> /\ job' = [c \in Checks |-> Idle]

\* It may be in the middle of a save.
Restart ==
    /\ Emptied
    /\ List!CutShort \/ (saving = Nothing /\ UNCHANGED files)
    /\ UNCHANGED now

Post ==
    /\ \E m \in Messages, list \in List!Lists \cup {Unreadable} : List!Post(m, list)
    /\ UNCHANGED <<now, health, dns, job>>

\* A save that has begun goes on, or raises.
Saving ==
    /\ List!MessageWritten \/ List!ListWritten \/ List!CutShort
    /\ UNCHANGED <<now, health, dns, job>>

\* A save is made between two awaits: until it is over no other request goes on.
Next ==
    \/ /\ saving = Nothing
       /\ \/ \E c \in Checks :
                \/ \E host \in Hosts : Check(c, host)
                \/ Store(c)
                \/ \E name \in Names : DnsMiss(c, name)
                \/ \E a, aaaa \in {"addresses", "none", "error"} : Resolved(c, a, aaaa)
          \/ \E name \in Names : DnsHit(name)
          \/ Post
    \/ Saving \/ Tick \/ Restart

Spec == Init /\ [][Next]_vars
-----------------------------------------------------------------------------
(***************************************************************************)
(* Correctness.                                                            *)
(***************************************************************************)
\* Whatever checks overlap and in whatever order they end, nobody is answered
\* from a cache with what was asked longer ago than a result lives and a check
\* lasts.
AnswersRecent ==
    /\ \A e \in health : Fresh(e) => now < e.asked + HealthTTL + CheckTime
    /\ \A e \in ToSet(dns) : now < e.until => now < e.asked + DnsTTL + CheckTime

\* However lookups of one name overlap, it has one entry, and the cache keeps
\* its bound.
DnsCacheSound ==
    /\ Len(dns) <= DnsMax
    /\ \A i, j \in DOMAIN dns : dns[i].name = dns[j].name => i = j

\* Addresses that were found stay for their time: a lookup that fails beside them
\* does not take them away.  Only a full cache or a restart does.
AddressesStay ==
    [][\A e \in ToSet(dns) :
          now < e.until => \/ \E f \in ToSet(dns') : f.name = e.name
                           \/ Len(dns') = DnsMax
                           \/ Emptied]_vars

FilesAsAccepted == List!FilesAsAccepted
=============================================================================
