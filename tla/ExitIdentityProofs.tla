------------------------- MODULE ExitIdentityProofs -------------------------
(***************************************************************************)
(* What the reputation dialog shows and what is filed under an address,    *)
(* for any proxies, exits and requests.                                    *)
(***************************************************************************)
EXTENDS ExitIdentity, TLAPS

Steps == {"idle", "sent", "echo", "country", "waiting", "classify"}
Records == [step : Steps, kind : {"head", "reputation", "load"}, host : Hosts \cup {NoHost},
            asked : MaybeAddress, ip : MaybeAddress, moved : BOOLEAN, mine : BOOLEAN]

\* A load follows its own exit: what it has learnt is where the proxy still
\* goes out, unless that has changed since.
LoadOK(a, c) ==
    c # Idle =>
        /\ c.kind = "load" /\ c.host \in Hosts
        /\ c.step \in {"echo", "country", "classify"}
        /\ c.step = "country" => (c.moved \/ exit[c.host] = c.ip)
        /\ c.step = "classify" => (c.moved \/ exit[c.host] = a)

RequestOK(c) ==
    c # Idle =>
        /\ c.kind \in {"head", "reputation"} /\ c.host \in Hosts
        /\ c.step \in {"sent", "echo", "country", "waiting"}
        /\ c.step = "waiting" => c.kind = "reputation"
        /\ c.kind = "reputation" => c.asked \in Addresses

LoadInv == \A a \in Addresses : LoadOK(a, check[a])
RequestInv == \A r \in Requests : RequestOK(check[r])

\* The request that counts asks for the address of the open dialog, unless it
\* is over and its name used for a check.
DialogInv ==
    (/\ counted \in Requests /\ dialog # NoAddress
     /\ check[counted].kind = "reputation") => check[counted].asked = dialog

\* A report is where its address's callers look for it, and about that address
\* unless the exit changed after the load had verified it.
FiledRight ==
    \A a \in Addresses : \A f \in reports[a] : f.at = a /\ (f.of = a \/ f.moved)

IInv == /\ TypeOK /\ LoadInv /\ RequestInv /\ DialogInv
        /\ ResultsForNamedAddress /\ FiledRight

USE DEF Checks, MaybeAddress, Steps
-----------------------------------------------------------------------------
(***************************************************************************)
(* The record of a check.                                                  *)
(***************************************************************************)
LEMMA PutType ==
  ASSUME NEW c \in Records, NEW ip \in MaybeAddress, NEW m \in BOOLEAN, NEW mine \in BOOLEAN,
         NEW s \in Steps
  PROVE  /\ Put(c, s, ip, m, mine) \in Records
         /\ Put(c, s, ip, m, mine).step = s /\ Put(c, s, ip, m, mine).kind = c.kind
         /\ Put(c, s, ip, m, mine).host = c.host /\ Put(c, s, ip, m, mine).asked = c.asked
         /\ Put(c, s, ip, m, mine).ip = ip /\ Put(c, s, ip, m, mine).moved = m
         /\ Put(c, s, ip, m, mine).mine = mine
  BY DEF Put, Records

LEMMA GoesType ==
  ASSUME NEW c \in Records, NEW s \in Steps
  PROVE  /\ Goes(c, s) \in Records
         /\ Goes(c, s).step = s /\ Goes(c, s).kind = c.kind /\ Goes(c, s).host = c.host
         /\ Goes(c, s).asked = c.asked /\ Goes(c, s).ip = c.ip /\ Goes(c, s).moved = c.moved
  BY DEF Goes, Put, Records

LEMMA IdleType == Idle \in Records /\ Idle.kind = "head" /\ Idle.step = "idle"
  BY DEF Idle, Records

LEMMA LoadType ==
  ASSUME NEW h \in Hosts
  PROVE  /\ Load(h) \in Records /\ Load(h).step = "echo" /\ Load(h).kind = "load"
         /\ Load(h).host = h
  BY DEF Load, Records

LEMMA SentType ==
  ASSUME NEW h \in Hosts, NEW a \in MaybeAddress, NEW k \in {"head", "reputation"}
  PROVE  /\ Sent(k, h, a) \in Records /\ Sent(k, h, a).step = "sent"
         /\ Sent(k, h, a).kind = k /\ Sent(k, h, a).host = h /\ Sent(k, h, a).asked = a
  BY DEF Sent, Records

\* TypeOK, with the records of the checks by name.
LEMMA Types ==
  TypeOK <=> /\ exit \in [Hosts -> Addresses]
             /\ identity \in [Hosts -> SUBSET MaybeAddress]
             /\ reports \in [Addresses -> SUBSET Filed]
             /\ check \in [Checks -> Records]
             /\ row \in [Hosts -> MaybeAddress \cup {"new"}]
             /\ dialog \in MaybeAddress
             /\ counted \in Requests \cup {NoRequest}
             /\ results \in SUBSET Filed
  BY DEF TypeOK, Records

LEMMA Initial == Init => IInv
  <1> SUFFICES ASSUME Init PROVE IInv
    OBVIOUS
  <1>1. check \in [Checks -> Records]
    BY IdleType DEF Init
  <1>2. TypeOK
    BY <1>1, Types DEF Init
  <1>3. LoadInv /\ RequestInv
    BY DEF Init, LoadInv, RequestInv, LoadOK, RequestOK
  <1>4. DialogInv /\ ResultsForNamedAddress /\ FiledRight
    BY DEF Init, DialogInv, ResultsForNamedAddress, FiledRight
  <1>5. QED
    BY <1>2, <1>3, <1>4 DEF IInv
-----------------------------------------------------------------------------
(***************************************************************************)
(* What one check does to the others, and an answer to the dialog.         *)
(***************************************************************************)
LEMMA RequestStep ==
  ASSUME IInv, NEW r \in Requests, NEW c \in Records, RequestOK(c), exit' = exit,
         check' = [check EXCEPT ![r] = c]
  PROVE  check' \in [Checks -> Records] /\ LoadInv' /\ RequestInv'
  <1>1. check \in [Checks -> Records]
    BY Types DEF IInv
  <1>2. /\ check' \in [Checks -> Records] /\ check'[r] = c
        /\ \A p \in Checks \ {r} : check'[p] = check[p]
    BY <1>1
  <1>3. LoadInv'
    BY <1>2, NameAssumption DEF IInv, LoadInv, LoadOK
  <1>4. RequestInv'
    BY <1>2 DEF IInv, RequestInv, RequestOK
  <1>5. QED
    BY <1>2, <1>3, <1>4

LEMMA LoadStep ==
  ASSUME IInv, NEW a \in Addresses, NEW c \in Records, LoadOK(a, c), exit' = exit,
         check' = [check EXCEPT ![a] = c]
  PROVE  check' \in [Checks -> Records] /\ LoadInv' /\ RequestInv'
  <1>1. check \in [Checks -> Records]
    BY Types DEF IInv
  <1>2. /\ check' \in [Checks -> Records] /\ check'[a] = c
        /\ \A p \in Checks \ {a} : check'[p] = check[p]
    BY <1>1
  <1>3. LoadInv'
    BY <1>2 DEF IInv, LoadInv, LoadOK
  <1>4. RequestInv'
    BY <1>2, NameAssumption DEF IInv, RequestInv, RequestOK
  <1>5. QED
    BY <1>2, <1>3, <1>4

\* Checks that end or go on leave the dialog's request what it was.
LEMMA DialogKept ==
  ASSUME IInv, dialog' = dialog, counted' = counted,
         \A r \in Requests : \/ check'[r] = Idle
                             \/ /\ check'[r].kind = check[r].kind
                                /\ check'[r].asked = check[r].asked
  PROVE  DialogInv'
  <1>1. Idle.kind # "reputation"
    BY IdleType
  <1>2. CASE counted \in Requests
    <2>1. CASE check'[counted] = Idle
      BY <1>1, <2>1 DEF DialogInv
    <2>2. CASE /\ check'[counted].kind = check[counted].kind
               /\ check'[counted].asked = check[counted].asked
      BY <2>2 DEF IInv, DialogInv
    <2>3. QED
      BY <1>2, <2>1, <2>2
  <1>3. CASE counted \notin Requests
    BY <1>3 DEF DialogInv
  <1>4. QED
    BY <1>2, <1>3

\* An answer to requests for one address, with a report filed under it or none.
LEMMA Answered ==
  ASSUME IInv, NEW a \in Addresses, NEW rs \in SUBSET Requests, dialog' = dialog,
         \A r \in rs : check[r].kind = "reputation" /\ check[r].asked = a,
         NEW answer \in SUBSET Filed, Answer(rs, answer),
         \A f \in answer : f.at = a /\ (f.of = a \/ f.moved)
  PROVE  results' \in SUBSET Filed /\ ResultsForNamedAddress'
  <1>1. results' = results \/ (results' = answer /\ counted \in rs)
    BY DEF Answer
  <1>2. results' \in SUBSET Filed
    BY <1>1 DEF IInv, TypeOK
  <1>3. CASE results' = results
    BY <1>2, <1>3 DEF IInv, ResultsForNamedAddress
  <1>4. CASE results' = answer /\ counted \in rs
    BY <1>2, <1>4 DEF IInv, DialogInv, ResultsForNamedAddress
  <1>5. QED
    BY <1>1, <1>3, <1>4
-----------------------------------------------------------------------------
(***************************************************************************)
(* The reputation handler and the load.                                    *)
(***************************************************************************)
\* What the steps of the handlers leave alone, or change by their own guards.
Typed ==
    /\ identity' \in [Hosts -> SUBSET MaybeAddress]
    /\ row' \in [Hosts -> MaybeAddress \cup {"new"}]
    /\ exit' = exit /\ dialog' = dialog /\ counted' = counted

LEMMA CompareKeeps ==
  ASSUME IInv, NEW r \in Requests, NEW ip \in MaybeAddress, check[r] # Idle,
         check[r].kind = "reputation", Compare(r, ip), Typed, reports' = reports
  PROVE  IInv'
  <1>0. check[r].asked \in Addresses
    BY DEF IInv, RequestInv, RequestOK
  <1> PICK a \in Addresses : a = check[r].asked
    BY <1>0
  <1>1. check \in [Checks -> Records] /\ check[r].host \in Hosts
    BY Types DEF IInv, RequestInv, RequestOK
  <1>2. FiledRight'
    BY DEF IInv, FiledRight
  <1>3. CASE ip # a \/ reports[a] # {}
    <2>1. /\ check' = [check EXCEPT ![r] = Idle]
          /\ Answer({r}, {}) \/ Answer({r}, reports[a])
      BY <1>3 DEF Compare
    <2>2. check' \in [Checks -> Records] /\ LoadInv' /\ RequestInv'
      BY <2>1, IdleType, RequestStep DEF RequestOK, Typed
    <2>3. DialogInv'
      <3>1. \A q \in Requests : check'[q] = Idle \/ check'[q] = check[q]
        BY <1>1, <2>1
      <3>2. QED
        BY <3>1, DialogKept DEF Typed
    <2>4. results' \in SUBSET Filed /\ ResultsForNamedAddress'
      <3>1. /\ {} \in SUBSET Filed /\ reports[a] \in SUBSET Filed
            /\ \A f \in reports[a] : f.at = a /\ (f.of = a \/ f.moved)
        BY DEF IInv, TypeOK, FiledRight
      <3>2. \A q \in {r} : check[q].kind = "reputation" /\ check[q].asked = a
        OBVIOUS
      <3>3. QED
        BY <2>1, <3>1, <3>2, Answered DEF Typed
    <2>5. TypeOK'
      BY <2>2, <2>4, Types DEF IInv, Typed, TypeOK, Records
    <2>6. QED
      BY <1>2, <2>2, <2>3, <2>4, <2>5 DEF IInv
  <1>4. CASE ip = a /\ reports[a] = {}
    <2>1. /\ check' = [check EXCEPT ![r] = Goes(@, "waiting"),
                                    ![a] = IF @ = Idle THEN Load(check[r].host) ELSE @]
          /\ results' = results
      BY <1>4 DEF Compare
    <2>2. r # a /\ r \in Checks /\ a \in Checks
      BY <1>1, NameAssumption
    <2>3. /\ check'[r] = Goes(check[r], "waiting")
          /\ check'[a] = IF check[a] = Idle THEN Load(check[r].host) ELSE check[a]
          /\ \A p \in Checks \ {r, a} : check'[p] = check[p]
          /\ check' \in [Checks -> Records]
      <3>1. Goes(check[r], "waiting") \in Records /\ Load(check[r].host) \in Records
        BY <1>1, GoesType, LoadType
      <3>2. QED
        BY <1>1, <2>1, <2>2, <3>1
    <2>4. RequestInv'
      <3>1. check[r] \in Records /\ "waiting" \in Steps
        BY <1>1
      <3>2. RequestOK(check'[r])
        BY <1>1, <2>3, <3>1, GoesType DEF IInv, RequestInv, RequestOK
      <3>3. QED
        BY <2>3, <3>2, NameAssumption DEF IInv, RequestInv, RequestOK
    <2>5. LoadInv'
      <3>1. LoadOK(a, check[a])'
        BY <1>1, <2>3, LoadType DEF IInv, Typed, LoadInv, LoadOK
      <3>2. QED
        BY <2>3, <3>1, NameAssumption DEF IInv, Typed, LoadInv, LoadOK
    <2>6. DialogInv'
      <3>1. \A q \in Requests : check'[q].kind = check[q].kind /\ check'[q].asked = check[q].asked
        BY <1>1, <2>3, GoesType, NameAssumption
      <3>2. QED
        BY <3>1, DialogKept DEF Typed
    <2>7. TypeOK' /\ ResultsForNamedAddress'
      BY <2>1, <2>3, Types DEF IInv, Typed, TypeOK, Records, ResultsForNamedAddress
    <2>8. QED
      BY <1>2, <2>4, <2>5, <2>6, <2>7 DEF IInv
  <1>5. QED
    BY <1>3, <1>4

LEMMA EndLoadKeeps ==
  ASSUME IInv, NEW a \in Addresses, check[a] # Idle,
         NEW answer \in SUBSET Filed, EndLoad(a, answer),
         \A f \in answer : f.at = a /\ (f.of = a \/ f.moved),
         exit' = exit, identity' \in [Hosts -> SUBSET MaybeAddress],
         reports' \in [Addresses -> SUBSET Filed], FiledRight'
  PROVE  IInv'
  <1>1. check \in [Checks -> Records]
    BY Types DEF IInv
  <1>2. check' = [p \in Checks |-> IF p = a \/ p \in Waiting(a) THEN Idle ELSE check[p]]
    BY DEF EndLoad
  <1>3. /\ check' \in [Checks -> Records]
        /\ \A p \in Checks : check'[p] = Idle \/ check'[p] = check[p]
    BY <1>1, <1>2, IdleType
  <1>4. LoadInv' /\ RequestInv'
    BY <1>3 DEF IInv, LoadInv, RequestInv, LoadOK, RequestOK
  <1>5. dialog' = dialog /\ counted' = counted /\ row' = row
    BY DEF EndLoad
  <1>6. DialogInv'
    BY <1>3, <1>5, DialogKept
  <1>7. results' \in SUBSET Filed /\ ResultsForNamedAddress'
    <2>1. Waiting(a) \in SUBSET Requests
      BY DEF Waiting
    <2>2. \A r \in Waiting(a) : check[r].kind = "reputation" /\ check[r].asked = a
      BY IdleType DEF IInv, RequestInv, RequestOK, Waiting
    <2>3. QED
      BY <1>5, <2>1, <2>2, Answered DEF EndLoad
  <1>8. TypeOK'
    BY <1>3, <1>5, <1>7, Types DEF IInv, TypeOK, Records
  <1>9. QED
    BY <1>4, <1>6, <1>7, <1>8 DEF IInv

LEMMA ClassifyKeeps ==
  ASSUME IInv, NEW a \in Addresses, Classify(a)
  PROVE  IInv'
  <1>1. check[a].step = "classify" /\ check[a] # Idle /\ check[a] \in Records
    BY IdleType, Types DEF Classify, IInv
  <1>2. /\ check[a].moved \in BOOLEAN /\ exit[check[a].host] \in Addresses
        /\ check[a].moved \/ exit[check[a].host] = a
    BY <1>1 DEF IInv, TypeOK, LoadInv, LoadOK, Records
  <1> DEFINE report == File(a, exit[check[a].host], check[a].moved)
  <1>3. reports' = [reports EXCEPT ![a] = report] /\ EndLoad(a, report)
    BY DEF Classify
  <1> DEFINE new == [at |-> a, of |-> exit[check[a].host],
                     moved |-> check[a].moved /\ exit[check[a].host] # a]
  <1>4. new \in Filed /\ new.at = a /\ (new.of = a \/ new.moved) /\ report = {new}
    BY <1>2 DEF Filed, File
  <1>5. reports' \in [Addresses -> SUBSET Filed] /\ FiledRight'
    BY <1>3, <1>4 DEF IInv, TypeOK, FiledRight
  <1>6. exit' = exit /\ identity' \in [Hosts -> SUBSET MaybeAddress]
    BY DEF Classify, IInv, TypeOK
  <1>7. QED
    <2>1. report \in SUBSET Filed /\ \A f \in report : f.at = a /\ (f.of = a \/ f.moved)
      BY <1>4
    <2>2. QED
      BY <1>1, <1>3, <1>5, <1>6, <2>1, EndLoadKeeps

LEMMA ClassifyFailsKeeps ==
  ASSUME IInv, NEW a \in Addresses, ClassifyFails(a)
  PROVE  IInv'
  <1>1. check[a] # Idle
    BY IdleType DEF ClassifyFails
  <1>2. /\ EndLoad(a, {}) /\ exit' = exit
        /\ identity' \in [Hosts -> SUBSET MaybeAddress]
        /\ reports' \in [Addresses -> SUBSET Filed] /\ FiledRight'
    BY DEF ClassifyFails, caches, IInv, TypeOK, FiledRight
  <1>3. QED
    BY <1>1, <1>2, EndLoadKeeps
-----------------------------------------------------------------------------
(***************************************************************************)
(* The check through the proxy.                                            *)
(***************************************************************************)
\* A check of the page ends with or without a cached result.
LEMMA HeadKeeps ==
  ASSUME IInv, NEW r \in Requests, NEW ip \in MaybeAddress, Show(r, ip),
         check' = [check EXCEPT ![r] = Idle], exit' = exit, reports' = reports,
         identity' \in [Hosts -> SUBSET MaybeAddress],
         UNCHANGED <<dialog, counted, results>>
  PROVE  IInv'
  <1>1. check' \in [Checks -> Records] /\ LoadInv' /\ RequestInv'
    BY IdleType, RequestStep DEF RequestOK
  <1>2. row' \in [Hosts -> MaybeAddress \cup {"new"}]
    BY DEF Show, IInv, TypeOK
  <1>3. TypeOK'
    BY <1>1, <1>2, Types DEF IInv, TypeOK, Records
  <1>4. DialogInv'
    <2>1. \A q \in Requests : check'[q] = Idle \/ check'[q] = check[q]
      BY Types DEF IInv
    <2>2. QED
      BY <2>1, DialogKept
  <1>5. ResultsForNamedAddress' /\ FiledRight'
    BY DEF IInv, ResultsForNamedAddress, FiledRight
  <1>6. QED
    BY <1>1, <1>3, <1>4, <1>5 DEF IInv

\* A check that goes on to another request.
LEMMA GoesKeeps ==
  ASSUME IInv, NEW p \in Checks, NEW c \in Records, c.kind = check[p].kind,
         c.asked = check[p].asked,
         p \in Requests => RequestOK(c), p \in Addresses => LoadOK(p, c),
         check' = [check EXCEPT ![p] = c], UNCHANGED <<exit, caches, page>>
  PROVE  IInv'
  <1>1. check' \in [Checks -> Records] /\ LoadInv' /\ RequestInv'
    BY RequestStep, LoadStep
  <1>2. TypeOK'
    BY <1>1, Types DEF IInv, TypeOK, Records, caches, page
  <1>3. DialogInv'
    <2>1. \A q \in Requests : check'[q].kind = check[q].kind /\ check'[q].asked = check[q].asked
      BY Types DEF IInv
    <2>2. QED
      BY <2>1, DialogKept DEF page
  <1>4. ResultsForNamedAddress' /\ FiledRight'
    BY DEF IInv, ResultsForNamedAddress, FiledRight, caches, page
  <1>5. QED
    BY <1>1, <1>2, <1>3, <1>4 DEF IInv

LEMMA IdentifiedKeeps ==
  ASSUME IInv, NEW p \in Checks, NEW ip \in MaybeAddress, check[p] # Idle,
         check[p].step # "classify", Identified(p, ip), UNCHANGED <<exit, reports>>,
         p \in Addresses => (check[p].moved \/ ip # p \/ exit[check[p].host] = p)
  PROVE  IInv'
  <1>1. check \in [Checks -> Records] /\ check[p] \in Records
    BY Types DEF IInv
  <1>2. /\ p \in Requests => check[p].kind \in {"head", "reputation"}
        /\ p \in Addresses => check[p].kind = "load"
    BY DEF IInv, LoadInv, LoadOK, RequestInv, RequestOK
  <1>3. CASE check[p].kind = "head"
    <2>1. p \in Requests
      BY <1>2, <1>3
    <2>2. /\ identity' = [identity EXCEPT ![check[p].host] = {ip}] /\ Show(p, ip)
          /\ check' = [check EXCEPT ![p] = Idle] /\ UNCHANGED <<dialog, counted, results>>
      BY <1>3 DEF Identified
    <2>3. identity' \in [Hosts -> SUBSET MaybeAddress]
      BY <2>2 DEF IInv, TypeOK
    <2>4. QED
      BY <2>1, <2>2, <2>3, HeadKeeps
  <1>4. CASE check[p].kind = "reputation"
    <2>1. p \in Requests
      BY <1>2, <1>4
    <2>2. Compare(p, ip) /\ UNCHANGED <<identity, row, dialog, counted>>
      BY <1>4 DEF Identified
    <2>3. Typed
      BY <2>2 DEF Typed, IInv, TypeOK
    <2>4. QED
      BY <1>4, <2>1, <2>2, <2>3, CompareKeeps
  <1>5. CASE check[p].kind = "load" /\ ip = p
    <2>1. p \in Addresses /\ p \notin Requests
      BY <1>2, <1>5, NameAssumption
    <2>2. /\ check' = [check EXCEPT ![p] = Goes(check[p], "classify")]
          /\ UNCHANGED <<exit, caches, page>>
      BY <1>5 DEF Identified, caches
    <2>3. LoadOK(p, Goes(check[p], "classify"))
      BY <1>1, <1>5, <2>1, GoesType DEF IInv, LoadInv, LoadOK
    <2>4. QED
      BY <1>1, <2>1, <2>2, <2>3, GoesType, GoesKeeps
  <1>6. CASE check[p].kind = "load" /\ ip # p
    <2>1. p \in Addresses
      BY <1>2, <1>6
    <2>2. EndLoad(p, {}) /\ UNCHANGED <<identity, reports, exit>>
      BY <1>6 DEF Identified
    <2>3. /\ identity' \in [Hosts -> SUBSET MaybeAddress]
          /\ reports' \in [Addresses -> SUBSET Filed] /\ FiledRight'
      BY <2>2 DEF IInv, TypeOK, FiledRight
    <2>4. QED
      BY <2>1, <2>2, <2>3, EndLoadKeeps
  <1>7. QED
    BY <1>1, <1>3, <1>4, <1>5, <1>6 DEF Records

LEMMA ArriveKeeps ==
  ASSUME IInv, NEW r \in Requests, Arrive(r)
  PROVE  IInv'
  <1>1. /\ check[r] # Idle /\ check[r].step = "sent" /\ UNCHANGED <<exit, caches>>
        /\ check[r] \in Records /\ RequestOK(check[r])
    BY IdleType, Types DEF Arrive, IInv, RequestInv
  <1>2. /\ identity[check[r].host] \in SUBSET MaybeAddress
        /\ identity' \in [Hosts -> SUBSET MaybeAddress]
    BY <1>1 DEF RequestOK, IInv, TypeOK, caches
  <1>3. CASE check' = [check EXCEPT ![r] = Goes(check[r], "echo")] /\ UNCHANGED page
    <2>1. r \notin Addresses
      BY NameAssumption
    <2>2. RequestOK(Goes(check[r], "echo"))
      BY <1>1, GoesType DEF RequestOK
    <2>3. QED
      BY <1>1, <1>3, <2>1, <2>2, GoesType, GoesKeeps
  <1>4. ASSUME NEW ip \in identity[check[r].host], Show(r, ip),
               check' = [check EXCEPT ![r] = Idle], UNCHANGED <<dialog, counted, results>>
        PROVE  IInv'
    BY <1>1, <1>2, <1>4, HeadKeeps DEF caches
  <1>5. ASSUME NEW ip \in identity[check[r].host], Compare(r, ip),
               check[r].kind = "reputation", UNCHANGED <<row, dialog, counted>>
        PROVE  IInv'
    <2>1. Typed /\ reports' = reports
      BY <1>1, <1>2, <1>5 DEF Typed, caches, IInv, TypeOK
    <2>2. QED
      BY <1>1, <1>2, <1>5, <2>1, CompareKeeps
  <1>6. QED
    BY <1>3, <1>4, <1>5 DEF Arrive

LEMMA EchoKeeps ==
  ASSUME IInv, NEW p \in Checks, Echo(p)
  PROVE  IInv'
  <1> DEFINE a == exit[check[p].host]
  <1>1. /\ check[p] # Idle /\ check[p].step = "echo" /\ UNCHANGED <<exit, reports>>
        /\ check[p] \in Records
    BY IdleType, Types DEF Echo, IInv
  <1>2. check[p].host \in Hosts /\ a \in Addresses
    BY <1>1 DEF IInv, LoadInv, RequestInv, LoadOK, RequestOK, TypeOK
  <1>3. CASE Identified(p, a)
    <2>1. p \in Addresses => (check[p].moved \/ a # p \/ exit[check[p].host] = p)
      OBVIOUS
    <2>2. QED
      BY <1>1, <1>2, <1>3, <2>1, IdentifiedKeeps
  <1>4. CASE /\ check' = [check EXCEPT ![p] = Put(@, "country", a, @.moved, @.mine)]
             /\ UNCHANGED <<identity, page>>
    <2> DEFINE c == Put(check[p], "country", a, check[p].moved, check[p].mine)
    <2>1. /\ c \in Records /\ c.step = "country" /\ c.kind = check[p].kind
          /\ c.host = check[p].host /\ c.asked = check[p].asked /\ c.ip = a
          /\ c.moved = check[p].moved
      BY <1>1, <1>2 DEF Put, Records
    <2>2. p \in Requests => RequestOK(c)
      BY <1>1, <2>1 DEF IInv, RequestInv, RequestOK
    <2>3. p \in Addresses => LoadOK(p, c)
      BY <1>1, <2>1 DEF IInv, LoadInv, LoadOK
    <2>4. check' = [check EXCEPT ![p] = c] /\ UNCHANGED <<exit, caches, page>>
      BY <1>1, <1>4 DEF caches
    <2>5. QED
      BY <2>1, <2>2, <2>3, <2>4, GoesKeeps
  <1>5. QED
    BY <1>3, <1>4 DEF Echo

LEMMA CountryKeeps ==
  ASSUME IInv, NEW p \in Checks, EchoFails(p) \/ Country(p)
  PROVE  IInv'
  <1>1. /\ check[p] # Idle /\ UNCHANGED <<exit, reports>> /\ check[p] \in Records
        /\ check[p].step \in {"echo", "country"}
    BY IdleType, Types DEF EchoFails, Country, IInv
  <1>2. CASE Identified(p, NoAddress)
    <2>1. p \in Addresses => NoAddress # p
      BY NameAssumption
    <2>2. QED
      BY <1>1, <1>2, <2>1, IdentifiedKeeps
  <1>3. CASE check[p].step = "country" /\ Identified(p, check[p].ip)
    <2>1. check[p].ip \in MaybeAddress
      BY <1>1 DEF Records
    <2>2. p \in Addresses =>
             (check[p].moved \/ check[p].ip # p \/ exit[check[p].host] = p)
      BY <1>1, <1>3 DEF IInv, LoadInv, LoadOK
    <2>3. QED
      BY <1>1, <1>3, <2>1, <2>2, IdentifiedKeeps
  <1>4. QED
    BY <1>2, <1>3 DEF EchoFails, Country
-----------------------------------------------------------------------------
(***************************************************************************)
(* The page, the proxies and time.                                         *)
(***************************************************************************)
LEMMA SendCheckKeeps ==
  ASSUME IInv, NEW h \in Hosts, SendCheck(h)
  PROVE  IInv'
  <1>1. PICK r \in Requests : /\ check[r] = Idle
                              /\ check' = [check EXCEPT ![r] = Sent("head", h, NoAddress)]
    BY DEF SendCheck
  <1>2. /\ UNCHANGED <<exit, caches, dialog, counted, results>>
        /\ row' = [row EXCEPT ![h] = NoAddress]
    BY DEF SendCheck
  <1>3. /\ Sent("head", h, NoAddress) \in Records
        /\ Sent("head", h, NoAddress).kind = "head" /\ RequestOK(Sent("head", h, NoAddress))
    BY SentType DEF RequestOK
  <1>4. check' \in [Checks -> Records] /\ LoadInv' /\ RequestInv'
    BY <1>1, <1>2, <1>3, RequestStep
  <1>5. TypeOK' /\ ResultsForNamedAddress' /\ FiledRight'
    BY <1>2, <1>4, Types DEF IInv, TypeOK, Records, caches, ResultsForNamedAddress,
                             FiledRight
  <1>6. DialogInv'
    <2>1. \A q \in Requests : check'[q].kind = "head" \/ check'[q] = check[q]
      BY <1>1, <1>3, Types DEF IInv
    <2>2. QED
      BY <1>2, <2>1 DEF IInv, DialogInv
  <1>7. QED
    BY <1>4, <1>5, <1>6 DEF IInv

LEMMA OpenKeeps ==
  ASSUME IInv, NEW h \in Hosts, OpenReputation(h)
  PROVE  IInv'
  <1>1. row[h] \in Addresses
    BY DEF OpenReputation, IInv, TypeOK
  <1>2. PICK r \in Requests : /\ check[r] = Idle
                              /\ check' = [check EXCEPT ![r] = Sent("reputation", h, row[h])]
                              /\ counted' = r
    BY DEF OpenReputation
  <1>3. /\ dialog' = row[h] /\ results' = {} /\ UNCHANGED <<exit, caches, row>>
    BY DEF OpenReputation
  <1> DEFINE c == Sent("reputation", h, row[h])
  <1>4. c \in Records /\ RequestOK(c) /\ c.asked = row[h]
    BY <1>1, SentType DEF RequestOK
  <1>5. check' \in [Checks -> Records] /\ LoadInv' /\ RequestInv'
    BY <1>2, <1>3, <1>4, RequestStep
  <1>6. TypeOK'
    BY <1>1, <1>2, <1>3, <1>5, Types DEF IInv, TypeOK, Records, caches
  <1>7. DialogInv'
    <2>1. check'[r].asked = row[h]
      BY <1>2, <1>4, Types DEF IInv
    <2>2. QED
      BY <1>2, <1>3, <2>1 DEF DialogInv
  <1>8. ResultsForNamedAddress' /\ FiledRight'
    BY <1>3, NameAssumption DEF IInv, ResultsForNamedAddress, FiledRight, caches
  <1>9. QED
    BY <1>5, <1>6, <1>7, <1>8 DEF IInv

LEMMA PageKeeps ==
  ASSUME IInv, CloseReputation \/ Expire \/ UNCHANGED vars
  PROVE  IInv'
  <1>1. /\ exit' = exit /\ check' = check /\ row' = row /\ counted' = counted
        /\ results' = results /\ (dialog' = dialog \/ dialog' = NoAddress)
    BY DEF CloseReputation, Expire, vars, caches, page
  <1>2. /\ identity' \in [Hosts -> SUBSET MaybeAddress]
        /\ reports' \in [Addresses -> SUBSET Filed]
        /\ \A a \in Addresses : reports'[a] = reports[a] \/ reports'[a] = {}
    BY DEF CloseReputation, Expire, vars, caches, IInv, TypeOK
  <1>3. TypeOK' /\ LoadInv' /\ RequestInv' /\ DialogInv'
    BY <1>1, <1>2 DEF IInv, TypeOK, LoadInv, RequestInv, DialogInv, LoadOK, RequestOK
  <1>4. ResultsForNamedAddress' /\ FiledRight'
    BY <1>1, <1>2 DEF IInv, ResultsForNamedAddress, FiledRight
  <1>5. QED
    BY <1>3, <1>4 DEF IInv

LEMMA ReloadKeeps ==
  ASSUME IInv, Reload
  PROVE  IInv'
  <1>1. /\ row' = [h \in Hosts |-> "new"] /\ dialog' = NoAddress
        /\ counted' = NoRequest /\ results' = {} /\ UNCHANGED <<exit, caches>>
        /\ check' = [p \in Checks |-> Put(check[p], check[p].step, check[p].ip,
                                           check[p].moved, FALSE)]
    BY DEF Reload
  <1>2. ASSUME NEW p \in Checks
        PROVE  /\ check'[p] \in Records
               /\ check'[p].step = check[p].step /\ check'[p].kind = check[p].kind
               /\ check'[p].host = check[p].host /\ check'[p].asked = check[p].asked
               /\ check'[p].ip = check[p].ip /\ check'[p].moved = check[p].moved
               /\ check[p] = Idle => check'[p] = Idle
    <2>1. check[p] \in Records
      BY Types DEF IInv
    <2>2. check'[p] = Put(check[p], check[p].step, check[p].ip, check[p].moved, FALSE)
      BY <1>1
    <2>3. check[p] = Idle => check'[p] = Idle
      BY <2>2 DEF Put, Idle
    <2>4. check[p].ip \in MaybeAddress /\ check[p].moved \in BOOLEAN /\ check[p].step \in Steps
      BY <2>1 DEF Records
    <2>5. QED
      BY <2>1, <2>2, <2>3, <2>4 DEF Put, Records
  <1>3. check' \in [Checks -> Records]
    BY <1>1, <1>2
  <1>4. LoadInv' /\ RequestInv'
    <2>1. ASSUME NEW a \in Addresses PROVE LoadOK(a, check[a])'
      <3>1. LoadOK(a, check[a]) /\ exit' = exit
        BY <1>1 DEF IInv, LoadInv
      <3>2. QED
        BY <1>2, <3>1 DEF LoadOK
    <2>2. ASSUME NEW r \in Requests PROVE RequestOK(check[r])'
      <3>1. RequestOK(check[r])
        BY DEF IInv, RequestInv
      <3>2. QED
        BY <1>2, <3>1 DEF RequestOK
    <2>3. QED
      BY <2>1, <2>2 DEF LoadInv, RequestInv
  <1>5. TypeOK'
    BY <1>1, <1>3, Types DEF IInv, TypeOK, Records, caches
  <1>6. DialogInv' /\ ResultsForNamedAddress' /\ FiledRight'
    BY <1>1 DEF IInv, DialogInv, ResultsForNamedAddress, FiledRight, caches
  <1>7. QED
    BY <1>4, <1>5, <1>6 DEF IInv

LEMMA RotateKeeps ==
  ASSUME IInv, NEW h \in Hosts, Rotate(h)
  PROVE  IInv'
  <1>1. PICK a \in Addresses : exit' = [exit EXCEPT ![h] = a]
    BY DEF Rotate
  <1>2. /\ UNCHANGED <<caches, page>>
        /\ check' = [p \in Checks |->
              IF p \in Addresses /\ check[p].host = h
                 /\ check[p].step \in {"country", "classify"}
              THEN Put(check[p], check[p].step, check[p].ip, TRUE, check[p].mine)
              ELSE check[p]]
    BY DEF Rotate
  <1>3. exit' \in [Hosts -> Addresses] /\ \A g \in Hosts \ {h} : exit'[g] = exit[g]
    BY <1>1 DEF IInv, TypeOK
  <1>4. ASSUME NEW p \in Addresses
        PROVE  check'[p] \in Records /\ LoadOK(p, check[p])'
    <2>1. check[p] \in Records /\ LoadOK(p, check[p])
      BY Types DEF IInv, LoadInv
    <2>2. CASE check[p].host = h /\ check[p].step \in {"country", "classify"}
      <3>1. check'[p] = Put(check[p], check[p].step, check[p].ip, TRUE, check[p].mine)
        BY <1>2, <2>2
      <3>2. check[p] # Idle
        BY <2>2, IdleType
      <3>3. QED
        BY <2>1, <3>1, <3>2 DEF LoadOK, Put, Records
    <2>3. CASE ~ (check[p].host = h /\ check[p].step \in {"country", "classify"})
      <3>1. check'[p] = check[p]
        BY <1>2, <2>3
      <3>2. check[p].host # h => exit'[check[p].host] = exit[check[p].host] \/ check[p] = Idle
        BY <1>3, <2>1 DEF LoadOK
      <3>3. CASE check[p] = Idle
        BY <2>1, <3>1, <3>3 DEF LoadOK
      <3>4. CASE check[p] # Idle /\ check[p].host = h
        BY <2>1, <2>3, <3>1, <3>4 DEF LoadOK
      <3>5. CASE check[p] # Idle /\ check[p].host # h
        BY <2>1, <3>1, <3>2, <3>5 DEF LoadOK
      <3>6. QED
        BY <3>3, <3>4, <3>5
    <2>4. QED
      BY <2>2, <2>3
  <1>5. \A r \in Requests : check'[r] = check[r]
    BY <1>2, NameAssumption
  <1>6. check' \in [Checks -> Records]
    <2>1. \A p \in Checks : check'[p] \in Records
      BY <1>4, <1>5, Types DEF IInv
    <2>2. QED
      BY <1>2, <2>1
  <1>7. LoadInv' /\ RequestInv' /\ DialogInv'
    BY <1>2, <1>4, <1>5, DialogKept DEF IInv, LoadInv, RequestInv, RequestOK, page
  <1>8. TypeOK' /\ ResultsForNamedAddress' /\ FiledRight'
    BY <1>2, <1>3, <1>6, Types DEF IInv, TypeOK, Records, caches, page,
                                   ResultsForNamedAddress, FiledRight
  <1>9. QED
    BY <1>7, <1>8 DEF IInv
-----------------------------------------------------------------------------
LEMMA Invariance == Spec => []IInv
  <1>1. IInv /\ [Next]_vars => IInv'
    <2> SUFFICES ASSUME IInv, [Next]_vars PROVE IInv'
      OBVIOUS
    <2>1. CASE \E h \in Hosts : SendCheck(h) \/ OpenReputation(h) \/ Rotate(h)
      BY <2>1, SendCheckKeeps, OpenKeeps, RotateKeeps
    <2>2. CASE CloseReputation \/ Expire \/ UNCHANGED vars
      BY <2>2, PageKeeps
    <2>3. CASE Reload
      BY <2>3, ReloadKeeps
    <2>4. CASE \E r \in Requests : Arrive(r)
      BY <2>4, ArriveKeeps
    <2>5. CASE \E p \in Checks : Echo(p) \/ EchoFails(p) \/ Country(p)
      BY <2>5, EchoKeeps, CountryKeeps
    <2>6. CASE \E a \in Addresses : Classify(a) \/ ClassifyFails(a)
      BY <2>6, ClassifyKeeps, ClassifyFailsKeeps
    <2>7. QED
      BY <2>1, <2>2, <2>3, <2>4, <2>5, <2>6 DEF Next
  <1>2. QED
    BY Initial, <1>1, PTL DEF Spec

\* The report the open dialog shows was filed under the address it names, however
\* late answers come, and is about another one only if the exit changed between the
\* verification by its load and the classification.
THEOREM DialogCorrect == Spec => []ResultsForNamedAddress
  <1>1. IInv => ResultsForNamedAddress
    BY DEF IInv
  <1>2. QED
    BY Invariance, <1>1, PTL

\* A wrong classification can be cached only by a change of the exit between
\* the load's own verification and the answer to its request.
THEOREM ClassificationCorrect == Spec => []ClassifiedUnlessRotated
  <1>1. IInv => ClassifiedUnlessRotated
    BY DEF IInv, FiledRight, ClassifiedUnlessRotated
  <1>2. QED
    BY Invariance, <1>1, PTL

\* The types of the checks, caches and page.
THEOREM TypeCorrect == Spec => []TypeOK
  <1>1. IInv => TypeOK
    BY DEF IInv
  <1>2. QED
    BY Invariance, <1>1, PTL
=============================================================================
