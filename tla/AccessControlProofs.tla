------------------------ MODULE AccessControlProofs -------------------------
(***************************************************************************)
(* Exactly those logged in are let in, for any number of browsers,         *)
(* sessions and requests and any time to live.                             *)
(***************************************************************************)
EXTENDS AccessControl, TLAPS

\* An entry dates from the login granted under its identifier, and that login
\* is in the store as long as it is valid and has not expired.  LetInIffLoggedIn
\* alone speaks of arrivals only and says nothing of the store between them.
StoreInv ==
    \A s \in Sessions :
        /\ sessions[s] # NoEntry => /\ granted[s].valid
                                    /\ sessions[s].user = granted[s].user
                                    /\ sessions[s].expires = granted[s].at + SessionTTL
        /\ granted[s].valid /\ sessions[s] = NoEntry => granted[s].at + SessionTTL <= now

IInv == TypeOK /\ StoreInv
-----------------------------------------------------------------------------
LEMMA NoEntryFacts == NoEntry \in Entries /\ Ungranted \in [user : Users \cup {Nobody}, at : Nat, valid : BOOLEAN]
  BY DEF NoEntry, Ungranted, Entries

\* The store's judgement is the history's.
LEMMA LiveFacts == IInv => \A s : Live(s) <=> LoggedIn(s)
  <1> SUFFICES ASSUME IInv, NEW s \in Sessions PROVE Live(s) <=> LoggedIn(s)
    BY DEF Live, LoggedIn
  <1>1. /\ now \in Nat /\ granted[s].at \in Nat /\ sessions[s].expires \in Nat
        /\ granted[s].valid \in BOOLEAN
    BY DEF IInv, TypeOK, Entries
  <1>2. QED
    BY <1>1, TimeAssumption DEF IInv, StoreInv, Live, LoggedIn, Outlived

LEMMA InitInv == Init => IInv
  BY NoEntryFacts DEF Init, IInv, TypeOK, StoreInv, Ungranted, Policy!Init

\* What get and cleanup_expired leave of the store satisfies the invariant.
LEMMA Purge ==
  ASSUME IInv, \A s \in Sessions : sessions'[s] = sessions[s]
                                   \/ (Outlived(s) /\ sessions'[s] = NoEntry),
         sessions' \in [Sessions -> Entries], granted' = granted, now' = now
  PROVE  StoreInv'
  <1> SUFFICES ASSUME NEW s \in Sessions
               PROVE  /\ sessions'[s] # NoEntry =>
                            /\ granted[s].valid
                            /\ sessions'[s].user = granted[s].user
                            /\ sessions'[s].expires = granted[s].at + SessionTTL
                      /\ granted[s].valid /\ sessions'[s] = NoEntry =>
                            granted[s].at + SessionTTL <= now
    BY DEF StoreInv
  <1>1. CASE sessions'[s] = sessions[s]
    BY <1>1 DEF IInv, StoreInv
  <1>2. CASE Outlived(s) /\ sessions'[s] = NoEntry
    BY <1>2 DEF IInv, StoreInv, Outlived
  <1>3. QED
    BY <1>1, <1>2

LEMMA GetFacts ==
  ASSUME IInv, NEW s
  PROVE  /\ Get(s) \in [Sessions -> Entries] /\ Cleaned \in [Sessions -> Entries]
         /\ \A i \in Sessions : Get(s)[i] = sessions[i] \/ (Outlived(i) /\ Get(s)[i] = NoEntry)
         /\ \A i \in Sessions : Cleaned[i] = sessions[i] \/ (Outlived(i) /\ Cleaned[i] = NoEntry)
  BY NoEntryFacts DEF IInv, TypeOK, Get, Cleaned

LEMMA StepInv == IInv /\ [Next]_vars => IInv'
  <1> SUFFICES ASSUME IInv, [Next]_vars PROVE IInv'
    OBVIOUS
  <1>t. /\ sessions \in [Sessions -> Entries] /\ now \in Nat
        /\ cookie \in [Browsers -> Sessions \cup {NoSession}]
        /\ flight \in [Requests -> Flights \cup {NoRequest}]
        /\ answer \in {"none", "served", "redirect", "forbidden", "unauthorized"}
        /\ granted \in [Sessions -> [user : Users \cup {Nobody}, at : Nat, valid : BOOLEAN]]
    BY DEF IInv, TypeOK
  <1>e. \A s \in Sessions : /\ Ended(s) \in [user : Users \cup {Nobody}, at : Nat, valid : BOOLEAN]
                            /\ Ended(s).valid = FALSE
    BY <1>t DEF Ended
  <1>1. ASSUME NEW b \in Browsers, NEW ip \in IPs, LoginFails(b, ip) PROVE IInv'
    <2>1. now' = now /\ granted' = granted /\ sessions' = Get(cookie[b])
      BY <1>1 DEF LoginFails, Policy!Failure
    <2>2. StoreInv'
      BY <2>1, GetFacts, Purge
    <2>3. TypeOK'
      BY <1>1, <1>t, <2>1, GetFacts DEF LoginFails, TypeOK, Silent
    <2>4. QED
      BY <2>2, <2>3 DEF IInv
  <1>2. ASSUME NEW b \in Browsers, NEW ip \in IPs, NEW user \in Users,
               LoginSucceeds(b, ip, user)
        PROVE  IInv'
    <2>1. PICK s \in Sessions :
             /\ sessions' = [Cleaned EXCEPT ![s] =
                                [user |-> user, expires |-> now + SessionTTL]]
             /\ cookie' = [cookie EXCEPT ![b] = s]
             /\ granted' = [granted EXCEPT ![s] =
                               [user |-> user, at |-> now, valid |-> TRUE]]
      BY <1>2 DEF LoginSucceeds
    <2>2. now' = now /\ flight' = flight /\ answer' = "none"
      BY <1>2 DEF LoginSucceeds, Policy!Success, Silent
    <2>3. now + SessionTTL \in Nat
      BY <1>t, TimeAssumption
    <2>4. [user |-> user, expires |-> now + SessionTTL] \in Entries
      BY <2>3 DEF Entries
    <2>5. TypeOK'
      BY <1>t, <2>1, <2>2, <2>4, GetFacts DEF TypeOK
    <2>6. StoreInv'
      <3> SUFFICES ASSUME NEW i \in Sessions
                   PROVE  /\ sessions'[i] # NoEntry =>
                                /\ granted'[i].valid
                                /\ sessions'[i].user = granted'[i].user
                                /\ sessions'[i].expires = granted'[i].at + SessionTTL
                          /\ granted'[i].valid /\ sessions'[i] = NoEntry =>
                                granted'[i].at + SessionTTL <= now'
        BY DEF StoreInv
      <3>1. CASE i = s
        <4>1. /\ sessions'[i] = [user |-> user, expires |-> now + SessionTTL]
              /\ granted'[i] = [user |-> user, at |-> now, valid |-> TRUE]
          BY <1>t, <2>1, <3>1, GetFacts
        <4>2. sessions'[i] # NoEntry
          BY <4>1, NameAssumption DEF NoEntry
        <4>3. QED
          BY <4>1, <4>2
      <3>2. CASE i # s
        <4>1. sessions'[i] = Cleaned[i] /\ granted'[i] = granted[i]
          BY <1>t, <2>1, <3>2, GetFacts
        <4>2. Cleaned[i] = sessions[i] \/ (Outlived(i) /\ Cleaned[i] = NoEntry)
          BY GetFacts
        <4>3. QED
          BY <2>2, <4>1, <4>2 DEF IInv, StoreInv, Outlived
      <3>3. QED
        BY <3>1, <3>2
    <2>7. QED
      BY <2>5, <2>6 DEF IInv
  <1>3. ASSUME NEW r \in Requests, NEW b \in Browsers, NEW kind \in Kinds, NEW ip \in IPs,
               Send(r, b, kind, ip)
        PROVE  IInv'
    <2>1. [kind |-> kind, from |-> b, ip |-> ip, session |-> cookie[b]] \in Flights
      BY <1>t DEF Flights
    <2>2. TypeOK'
      BY <1>3, <1>t, <2>1 DEF Send, TypeOK, Silent
    <2>3. StoreInv'
      BY <1>3 DEF Send, IInv, StoreInv
    <2>4. QED
      BY <2>2, <2>3 DEF IInv
  <1>4. ASSUME NEW r \in Requests, NEW kinds, NEW reply \in {"served", "redirect", "forbidden", "unauthorized"},
               Arrive(r, kinds, reply), now' = now
        PROVE  IInv'
    <2>1. /\ sessions' = Get(flight[r].session) /\ granted' = granted
      BY <1>4 DEF Arrive
    <2>2. StoreInv'
      BY <1>4, <2>1, GetFacts, Purge
    <2>3. TypeOK'
      BY <1>4, <1>t, <2>1, GetFacts DEF Arrive, TypeOK
    <2>4. QED
      BY <2>2, <2>3 DEF IInv
  <1>5. ASSUME NEW r \in Requests,
               Serve(r) \/ ServeAdmin(r) \/ Redirect(r) \/ Unauthorized(r)
        PROVE  IInv'
    <2>1. CASE Serve(r)
      BY <1>4, <2>1 DEF Serve
    <2>2. CASE ServeAdmin(r)
      BY <1>4, <2>2 DEF ServeAdmin
    <2>3. CASE Redirect(r)
      BY <1>4, <2>3 DEF Redirect
    <2>4. CASE Unauthorized(r)
      BY <1>4, <2>4 DEF Unauthorized, Policy!Failure
    <2>5. QED
      BY <1>5, <2>1, <2>2, <2>3, <2>4
  <1>6. ASSUME NEW r \in Requests, Logout(r) PROVE IInv'
    <2>1. flight[r] \in Flights /\ flight[r].from \in Browsers
      BY <1>6, <1>t DEF Logout, Flights
    <2>2. \A s \in Sessions :
             granted'[s] = IF s = flight[r].session THEN Ended(s) ELSE granted[s]
      BY <1>6 DEF Logout
    <2>3. DOMAIN granted' = Sessions /\ granted' = [s \in Sessions |-> granted'[s]]
      BY <1>6 DEF Logout
    <2>4. granted' \in [Sessions -> [user : Users \cup {Nobody}, at : Nat, valid : BOOLEAN]]
      BY <1>e, <1>t, <2>2, <2>3
    <2>5. sessions' = Delete(flight[r].session) /\ sessions' \in [Sessions -> Entries]
      BY <1>6, <1>t, NoEntryFacts DEF Logout, Delete
    <2>6. TypeOK'
      BY <1>6, <1>t, <2>1, <2>4, <2>5 DEF Logout, TypeOK
    <2>7. \A s \in Sessions : s # flight[r].session =>
             sessions'[s] = sessions[s] /\ granted'[s] = granted[s]
      BY <2>2, <2>5 DEF Delete
    <2>8. \A s \in Sessions : s = flight[r].session =>
             sessions'[s] = NoEntry /\ ~granted'[s].valid
      <3>1. \A s \in Sessions : s = flight[r].session => granted'[s] = Ended(s)
        BY <2>2
      <3>2. QED
        BY <1>e, <2>5, <3>1 DEF Delete
    <2>9. now' = now
      BY <1>6 DEF Logout
    <2>10. StoreInv'
      BY <2>7, <2>8, <2>9 DEF IInv, StoreInv
    <2>11. QED
      BY <2>6, <2>10 DEF IInv
  <1>7. ASSUME NEW b \in Browsers, DropCookie(b) PROVE IInv'
    BY <1>7, <1>t DEF DropCookie, IInv, TypeOK, StoreInv, Silent
  <1>8. CASE Cleanup
    <2>1. sessions' = Cleaned /\ now' = now /\ granted' = granted
      BY <1>8 DEF Cleanup
    <2>2. StoreInv'
      BY <2>1, GetFacts, Purge
    <2>3. TypeOK'
      BY <1>8, <1>t, <2>1, GetFacts DEF Cleanup, TypeOK, Silent
    <2>4. QED
      BY <2>2, <2>3 DEF IInv
  <1>9. CASE SaveBans
    BY <1>9 DEF SaveBans, Policy!Persist, IInv, TypeOK, StoreInv, Silent
  <1>10. CASE Restart
    <2>1. /\ granted' \in [Sessions -> [user : Users \cup {Nobody}, at : Nat, valid : BOOLEAN]]
          /\ \A s \in Sessions : granted'[s].valid = FALSE
      BY <1>10, <1>e DEF Restart
    <2>2. cookie' = cookie /\ flight' = flight /\ answer' = "none"
      BY <1>10 DEF Restart, Silent
    <2>3. sessions' = [s \in Sessions |-> NoEntry] /\ now' = now
      BY <1>10 DEF Restart, Policy!Crash
    <2>4. TypeOK'
      BY <1>t, <2>1, <2>2, <2>3, NoEntryFacts DEF TypeOK
    <2>5. StoreInv'
      BY <2>1, <2>3 DEF StoreInv
    <2>6. QED
      BY <2>4, <2>5 DEF IInv
  <1>11. CASE Tick
    <2>1. now' = now + 1 /\ sessions' = sessions /\ granted' = granted
      BY <1>11 DEF Tick, Policy!Tick
    <2>2. TypeOK'
      BY <1>11, <1>t, <2>1 DEF Tick, TypeOK, Silent
    <2>3. StoreInv'
      BY <1>t, <2>1, TimeAssumption DEF IInv, StoreInv
    <2>4. QED
      BY <2>2, <2>3 DEF IInv
  <1>12. CASE UNCHANGED vars
    BY <1>12 DEF vars, IInv, TypeOK, StoreInv
  <1>13. QED
    BY <1>1, <1>2, <1>3, <1>5, <1>6, <1>7, <1>8, <1>9, <1>10, <1>11, <1>12 DEF Next
-----------------------------------------------------------------------------
THEOREM Invariance == Spec => []IInv
  BY InitInv, StepInv, PTL DEF Spec

\* The handlers let in exactly the requests of those logged in on arrival,
\* whatever was sent when and whatever ended meanwhile.
THEOREM LetIn == Spec => LetInIffLoggedIn
  <1> DEFINE Right(r) ==
        (flight[r] # NoRequest /\ flight'[r] = NoRequest /\ flight[r].kind # "logout")
           => (answer' \in {"served", "forbidden"} <=> LoggedIn(flight[r].session))
  <1>1. IInv /\ [Next]_vars => \A r \in Requests : Right(r)
    <2> SUFFICES ASSUME IInv, [Next]_vars, NEW r \in Requests, flight[r] # NoRequest,
                        flight'[r] = NoRequest, flight[r].kind # "logout"
                 PROVE  answer' \in {"served", "forbidden"} <=> LoggedIn(flight[r].session)
      OBVIOUS
    <2>1. flight \in [Requests -> Flights \cup {NoRequest}]
      BY DEF IInv, TypeOK
    <2>2. PICK q \in Requests :
             Serve(q) \/ ServeAdmin(q) \/ Redirect(q) \/ Unauthorized(q) \/ Logout(q)
      <3>1. flight' # flight
        OBVIOUS
      <3>2. ASSUME NEW i \in Requests, NEW b \in Browsers, NEW kind \in Kinds, NEW ip \in IPs,
                   Send(i, b, kind, ip)
            PROVE  FALSE
        BY <2>1, <3>2 DEF Send
      <3>3. QED
        BY <3>1, <3>2 DEF Next, vars, LoginFails, LoginSucceeds, DropCookie, Cleanup, SaveBans,
           Restart, Tick
    <2>3. q = r
      BY <2>1, <2>2 DEF Serve, ServeAdmin, Redirect, Unauthorized, Arrive, Logout
    <2>4. ~Logout(q)
      BY <2>3 DEF Logout
    <2>5. answer' \in {"served", "forbidden"} <=> Known(r)
      BY <2>2, <2>3, <2>4 DEF Serve, ServeAdmin, Redirect, Unauthorized, Arrive
    <2>6. Known(r) <=> LoggedIn(flight[r].session)
      BY LiveFacts DEF Known
    <2>7. QED
      BY <2>5, <2>6
  <1>2. QED
    BY <1>1, Invariance, PTL DEF Spec, LetInIffLoggedIn

\* Nobody but the administrator is served the administrator's pages.
THEOREM AdminOnly == Spec => AdminPagesToAdmin
  <1> DEFINE Right(r) ==
        (/\ flight[r] # NoRequest /\ flight'[r] = NoRequest
         /\ flight[r].kind = "admin" /\ answer' = "served")
           => granted[flight[r].session].user = Admin
  <1>1. IInv /\ [Next]_vars => \A r \in Requests : Right(r)
    <2> SUFFICES ASSUME IInv, [Next]_vars, NEW r \in Requests, flight[r] # NoRequest,
                        flight'[r] = NoRequest, flight[r].kind = "admin", answer' = "served"
                 PROVE  granted[flight[r].session].user = Admin
      OBVIOUS
    <2>1. flight \in [Requests -> Flights \cup {NoRequest}]
      BY DEF IInv, TypeOK
    <2>2. PICK q \in Requests : Serve(q) \/ ServeAdmin(q)
      BY DEF Next, vars, LoginFails, LoginSucceeds, Send, Silent, DropCookie, Cleanup,
         SaveBans, Restart, Tick, Redirect, Unauthorized, Arrive, Logout
    <2>3. q = r
      BY <2>1, <2>2 DEF Serve, ServeAdmin, Arrive
    <2>4. ServeAdmin(r)
      BY <2>2, <2>3 DEF Serve, Arrive
    <2>5. IsAdmin(r) /\ Known(r)
      BY <2>4 DEF ServeAdmin, Arrive
    <2>6. QED
      BY <2>5 DEF IsAdmin, Known, Live, IInv, StoreInv
  <1>2. QED
    BY <1>1, Invariance, PTL DEF Spec, AdminPagesToAdmin

\* The types of the sessions, cookies and requests in flight.
THEOREM TypeCorrect == Spec => []TypeOK
  <1>1. IInv => TypeOK
    BY DEF IInv
  <1>2. QED
    BY <1>1, Invariance, PTL
-----------------------------------------------------------------------------
(***************************************************************************)
(* The failures that count against an address.                             *)
(***************************************************************************)
\* The failures are kept per kind and address.  The policy's own module has no
\* type invariant, and what a step adds can be told only from tables of this form.
RecentInv == recent = [kind \in Policy!Kinds |-> [ip \in IPs |-> recent[kind][ip]]]

\* A step adds no failure, or only one of this kind to this address.
NoneAdded == \A k \in Policy!Kinds, i \in IPs : recent'[k][i] \subseteq recent[k][i]
AddedOnly(kind, ip) ==
    \A k \in Policy!Kinds, i \in IPs :
        k # kind \/ i # ip => recent'[k][i] \subseteq recent[k][i]

LEMMA TableFacts ==
  ASSUME RecentInv
  PROVE  /\ DOMAIN recent = Policy!Kinds
         /\ \A k \in Policy!Kinds : DOMAIN recent[k] = IPs
  BY DEF RecentInv

LEMMA FailureAdds ==
  ASSUME RecentInv, NEW kind \in Policy!Kinds, NEW ip \in IPs, Policy!Failure(kind, ip)
  PROVE  RecentInv' /\ AddedOnly(kind, ip)
  <1>1. PICK more : \/ recent' = [recent EXCEPT ![kind][ip] = more]
                    \/ recent' = [k \in Policy!Kinds |-> [recent[k] EXCEPT ![ip] = {}]]
    BY DEF Policy!Failure
  <1>2. CASE recent' = [recent EXCEPT ![kind][ip] = more]
    <2>1. RecentInv'
      BY <1>2 DEF RecentInv
    <2>2. \A k \in Policy!Kinds, i \in IPs :
             recent'[k][i] = IF k = kind /\ i = ip THEN more ELSE recent[k][i]
      BY <1>2 DEF RecentInv
    <2>3. QED
      BY <2>1, <2>2 DEF AddedOnly
  <1>3. CASE recent' = [k \in Policy!Kinds |-> [recent[k] EXCEPT ![ip] = {}]]
    <2>1. \A k \in Policy!Kinds, i \in IPs :
             recent'[k][i] = IF i = ip THEN {} ELSE recent[k][i]
      BY <1>3, TableFacts
    <2>2. \A k \in Policy!Kinds : recent'[k] = [i \in IPs |-> recent'[k][i]]
      BY <1>3, TableFacts
    <2>3. RecentInv'
      BY <1>3, <2>2 DEF RecentInv
    <2>4. QED
      BY <2>1, <2>3 DEF AddedOnly
  <1>4. QED
    BY <1>1, <1>2, <1>3

\* The steps that tell the ban list of no failure.
LEMMA OthersAddNone ==
  ASSUME RecentInv,
         \/ \E ip \in IPs : Policy!Success(ip)
         \/ Policy!Persist \/ Policy!Crash \/ Policy!Tick \/ UNCHANGED recent
  PROVE  RecentInv' /\ NoneAdded
  <1>1. ASSUME NEW ip \in IPs, Policy!Success(ip) PROVE RecentInv' /\ NoneAdded
    <2>1. recent' = [recent EXCEPT !["login"][ip] = {}] /\ "login" \in Policy!Kinds
      BY <1>1 DEF Policy!Success, Policy!Kinds
    <2>2. RecentInv'
      BY <2>1 DEF RecentInv
    <2>3. \A k \in Policy!Kinds, i \in IPs :
             recent'[k][i] = IF k = "login" /\ i = ip THEN {} ELSE recent[k][i]
      BY <2>1 DEF RecentInv
    <2>4. QED
      BY <2>2, <2>3 DEF NoneAdded
  <1>2. CASE Policy!Persist \/ UNCHANGED recent
    BY <1>2 DEF Policy!Persist, NoneAdded, RecentInv
  <1>3. CASE Policy!Crash
    BY <1>3 DEF Policy!Crash, NoneAdded, RecentInv
  <1>4. CASE Policy!Tick
    BY <1>4 DEF Policy!Tick, NoneAdded, RecentInv
  <1>5. QED
    BY <1>1, <1>2, <1>3, <1>4

\* The step that adds an authentication failure, and to whom.
LEMMA WhoCounts ==
  ASSUME IInv, RecentInv, [Next]_vars
  PROVE  /\ RecentInv'
         /\ \/ \A ip \in IPs : recent'["auth"][ip] \subseteq recent["auth"][ip]
            \/ \E r \in Requests : Unauthorized(r) /\ AddedOnly("auth", flight[r].ip)
  <1> DEFINE Quiet == \A ip \in IPs : recent'["auth"][ip] \subseteq recent["auth"][ip]
  <1>0. "login" \in Policy!Kinds /\ "auth" \in Policy!Kinds /\ "login" # "auth"
    BY DEF Policy!Kinds
  <1>1. NoneAdded => Quiet
    BY <1>0 DEF NoneAdded
  <1>2. ASSUME NEW b \in Browsers, NEW ip \in IPs, LoginFails(b, ip)
        PROVE  RecentInv' /\ Quiet
    <2>1. RecentInv' /\ AddedOnly("login", ip)
      BY <1>0, <1>2, FailureAdds DEF LoginFails
    <2>2. QED
      BY <1>0, <2>1 DEF AddedOnly
  <1>3. ASSUME NEW r \in Requests, Unauthorized(r)
        PROVE  RecentInv' /\ (Quiet \/ AddedOnly("auth", flight[r].ip))
    <2>1. CASE Policy!Failure("auth", flight[r].ip)
      <3>1. flight[r].ip \in IPs
        BY <1>3 DEF Unauthorized, Arrive, IInv, TypeOK, Flights
      <3>2. QED
        BY <1>0, <2>1, <3>1, FailureAdds
    <2>2. CASE UNCHANGED recent
      BY <1>1, <2>2, OthersAddNone
    <2>3. QED
      BY <1>3, <2>1, <2>2 DEF Unauthorized, policy
  <1>4. CASE \/ \E b \in Browsers, ip \in IPs, user \in Users : LoginSucceeds(b, ip, user)
             \/ SaveBans \/ Restart \/ Tick
    <2>1. \/ \E ip \in IPs : Policy!Success(ip)
          \/ Policy!Persist \/ Policy!Crash \/ Policy!Tick
      BY <1>4 DEF LoginSucceeds, SaveBans, Restart, Tick
    <2>2. QED
      BY <1>1, <2>1, OthersAddNone
  <1>5. CASE \/ \E b \in Browsers, ip \in IPs, r \in Requests, kind \in Kinds : Send(r, b, kind, ip)
             \/ \E r \in Requests : Serve(r) \/ ServeAdmin(r) \/ Redirect(r) \/ Logout(r)
             \/ \E b \in Browsers : DropCookie(b)
             \/ Cleanup \/ UNCHANGED vars
    <2>1. UNCHANGED recent
      BY <1>5 DEF Send, Serve, ServeAdmin, Redirect, Logout, DropCookie, Cleanup, vars, policy
    <2>2. QED
      BY <1>1, <2>1, OthersAddNone
  <1>6. QED
    BY <1>2, <1>3, <1>4, <1>5 DEF Next

LEMMA RecentInvariance == Spec => []RecentInv
  <1>1. Init => RecentInv
    BY DEF Init, Policy!Init, RecentInv
  <1>2. IInv /\ RecentInv /\ [Next]_vars => RecentInv'
    BY WhoCounts
  <1>3. QED
    BY <1>1, <1>2, Invariance, PTL DEF Spec

\* require_authenticated_credentials counts a failure only of an API request
\* whose session is neither live nor anybody's, and only against the address it
\* came from; nothing else makes the list of authentication failures longer.
THEOREM StrangersOnly == Spec => OnlyStrangersCount
  <1> DEFINE Right(ip) ==
        recent'["auth"][ip] \ recent["auth"][ip] # {} =>
          \E r \in Requests : /\ flight[r] # NoRequest /\ flight'[r] = NoRequest
                              /\ flight[r].kind = "api" /\ flight[r].ip = ip
                              /\ ~LoggedIn(flight[r].session)
  <1>1. IInv /\ RecentInv /\ [Next]_vars => \A ip \in IPs : Right(ip)
    <2> SUFFICES ASSUME IInv, RecentInv, [Next]_vars, NEW ip \in IPs,
                        recent'["auth"][ip] \ recent["auth"][ip] # {}
                 PROVE  \E r \in Requests :
                           /\ flight[r] # NoRequest /\ flight'[r] = NoRequest
                           /\ flight[r].kind = "api" /\ flight[r].ip = ip
                           /\ ~LoggedIn(flight[r].session)
      OBVIOUS
    <2>1. PICK r \in Requests : Unauthorized(r) /\ AddedOnly("auth", flight[r].ip)
      BY WhoCounts
    <2>2. flight[r].ip = ip
      BY <2>1 DEF AddedOnly, Policy!Kinds
    <2>3. /\ flight[r] # NoRequest /\ flight'[r] = NoRequest /\ flight[r].kind = "api"
          /\ ~Known(r)
      BY <2>1 DEF Unauthorized, Arrive, IInv, TypeOK
    <2>4. ~LoggedIn(flight[r].session)
      BY <2>3, LiveFacts DEF Known
    <2>5. QED
      BY <2>2, <2>3, <2>4
  <1>2. QED
    BY <1>1, Invariance, RecentInvariance, PTL DEF Spec, OnlyStrangersCount
=============================================================================
