--------------------------- MODULE AccessControl ----------------------------
(***************************************************************************)
(* Who is let in: SessionStore and the handlers of main.py that log a      *)
(* browser in and out and answer its requests, on top of the ban list,     *)
(* which stands here as the policy it implements (BanPolicy).              *)
(*                                                                         *)
(* A request carries the cookie its browser had when it was sent, and      *)
(* arrives when its session may have been ended by another tab's logout,   *)
(* by time or by a restart: the cookie outlives the store.  The handlers   *)
(* read the session before their first await, so an arrival is one step.   *)
(***************************************************************************)
EXTENDS Integers, FiniteSets

CONSTANTS
    Browsers, Users,
    Admin,          \* the content of admin.txt
    Nobody,
    Sessions,       \* session identifiers, given again once nothing holds them
    NoSession,
    Requests,       \* requests in flight
    NoRequest,
    SessionTTL,     \* SESSION_TTL_SECONDS
    IPs, LoginLimit, AuthLimit, Window, BanTTL,
    MaxTime         \* bound: the clock stops here

ASSUME NameAssumption == /\ Admin \in Users /\ Nobody \notin Users
                         /\ NoSession \notin Sessions
ASSUME TimeAssumption == SessionTTL \in Nat \ {0} /\ MaxTime \in Nat

Kinds == {"page", "admin", "api", "logout"}
Flights == [kind : Kinds, from : Browsers, ip : IPs, session : Sessions \cup {NoSession}]

ASSUME RequestAssumption == NoRequest \notin Flights

VARIABLES
    sessions,   \* SessionStore._sessions
    cookie,     \* the session cookie of each browser
    flight,     \* the requests sent and not yet arrived
    answer,     \* the answer the last step gave, if it gave one
    until, recent, durable, now,    \* the ban policy and the clock
    granted     \* history: the login behind each identifier, and whether it
                \* has been neither logged out nor lost with its process

policy == <<until, recent, durable>>
vars == <<sessions, cookie, flight, answer, policy, now, granted>>

Policy == INSTANCE BanPolicy

Entries == [user : Users \cup {Nobody}, expires : Nat]
NoEntry == [user |-> Nobody, expires |-> 0]
Ungranted == [user |-> Nobody, at |-> 0, valid |-> FALSE]

TypeOK ==
    /\ sessions \in [Sessions -> Entries]
    /\ cookie \in [Browsers -> Sessions \cup {NoSession}]
    /\ flight \in [Requests -> Flights \cup {NoRequest}]
    /\ answer \in {"none", "served", "redirect", "forbidden", "unauthorized"}
    /\ now \in Nat
    /\ granted \in [Sessions -> [user : Users \cup {Nobody}, at : Nat, valid : BOOLEAN]]

Init ==
    /\ sessions = [s \in Sessions |-> NoEntry]
    /\ cookie = [b \in Browsers |-> NoSession]
    /\ flight = [r \in Requests |-> NoRequest]
    /\ answer = "none"
    /\ granted = [s \in Sessions |-> Ungranted]
    /\ Policy!Init
Silent == answer' = "none"
-----------------------------------------------------------------------------
(***************************************************************************)
(* SessionStore.                                                           *)
(***************************************************************************)
\* Mutant: a session lives one instant longer.
OutlivedLate(s) == sessions[s] # NoEntry /\ sessions[s].expires < now

Outlived(s) == sessions[s] # NoEntry /\ sessions[s].expires <= now

\* What get returns for an identifier, and what it leaves of the store.
Live(s) == s \in Sessions /\ sessions[s] # NoEntry /\ ~Outlived(s)
Get(s) == [i \in Sessions |-> IF i = s /\ Outlived(i) THEN NoEntry ELSE sessions[i]]

Delete(s) == [i \in Sessions |-> IF i = s THEN NoEntry ELSE sessions[i]]
Cleaned == [i \in Sessions |-> IF Outlived(i) THEN NoEntry ELSE sessions[i]]

\* A new identifier is one that nothing has or will show: the code draws 256
\* random bits.
Unheld(s) == /\ Cleaned[s] = NoEntry
             /\ \A b \in Browsers : cookie[b] # s
             /\ \A r \in Requests : flight[r] # NoRequest => flight[r].session # s

\* The periodic callback.
Cleanup ==
    /\ \E s \in Sessions : Outlived(s)
    /\ sessions' = Cleaned
    /\ Silent /\ UNCHANGED <<cookie, flight, policy, now, granted>>
-----------------------------------------------------------------------------
(***************************************************************************)
(* The login form.  A barred address is turned away before its password is *)
(* looked at, and nothing changes.                                         *)
(***************************************************************************)
\* Writing the access log looks the session up as well.
LoginFails(b, ip) ==
    /\ Policy!Failure("login", ip)
    /\ sessions' = Get(cookie[b])
    /\ Silent /\ UNCHANGED <<cookie, flight, granted>>

LoginSucceeds(b, ip, user) ==
    /\ ip \notin Policy!Barred
    /\ Policy!Success(ip)
    /\ \E s \in Sessions :
          /\ Unheld(s)
          /\ sessions' = [Cleaned EXCEPT ![s] =
                             [user |-> user, expires |-> now + SessionTTL]]
          /\ cookie' = [cookie EXCEPT ![b] = s]
          /\ granted' = [granted EXCEPT ![s] =
                            [user |-> user, at |-> now, valid |-> TRUE]]
    /\ Silent /\ UNCHANGED <<flight>>
-----------------------------------------------------------------------------
(***************************************************************************)
(* The other requests.                                                     *)
(***************************************************************************)
Send(r, b, kind, ip) ==
    /\ flight[r] = NoRequest
    /\ flight' = [flight EXCEPT ![r] =
                     [kind |-> kind, from |-> b, ip |-> ip, session |-> cookie[b]]]
    /\ Silent /\ UNCHANGED <<sessions, cookie, policy, now, granted>>

\* A request of one of these kinds is answered so.
Arrive(r, kinds, reply) ==
    /\ flight[r] # NoRequest /\ flight[r].kind \in kinds
    /\ flight' = [flight EXCEPT ![r] = NoRequest]
    /\ sessions' = Get(flight[r].session)
    /\ answer' = reply
    /\ UNCHANGED <<cookie, granted>>

Known(r) == Live(flight[r].session)
\* Mutant: the administrator is looked for among all sessions.
AdminAround(r) == Known(r) /\ \E s \in Sessions : sessions[s].user = Admin

IsAdmin(r) == Known(r) /\ sessions[flight[r].session].user = Admin

\* DocHandler, HealthPageHandler, LookupPageHandler and the API.
Serve(r) ==
    /\ Arrive(r, {"page", "api"}, "served") /\ Known(r)
    /\ UNCHANGED <<policy, now>>

\* AdminBaseHandler.
ServeAdmin(r) ==
    /\ Arrive(r, {"admin"}, IF IsAdmin(r) THEN "served" ELSE "forbidden") /\ Known(r)
    /\ UNCHANGED <<policy, now>>

\* Mutant: a page without a session counts as a failure.
RedirectCounting(r) ==
    /\ Arrive(r, {"page", "admin"}, "redirect") /\ ~Known(r)
    /\ \/ Policy!Failure("auth", flight[r].ip)
       \/ flight[r].ip \in Policy!Barred /\ UNCHANGED <<policy, now>>

\* redirect_to_login: a page without a session counts as no failure.
Redirect(r) ==
    /\ Arrive(r, {"page", "admin"}, "redirect") /\ ~Known(r)
    /\ UNCHANGED <<policy, now>>

\* require_authenticated_credentials: the failure of a barred address is not
\* counted.
Unauthorized(r) ==
    /\ Arrive(r, {"api"}, "unauthorized") /\ ~Known(r)
    /\ \/ Policy!Failure("auth", flight[r].ip)
       \/ flight[r].ip \in Policy!Barred /\ UNCHANGED <<policy, now>>

Ended(s) == [user |-> granted[s].user, at |-> granted[s].at, valid |-> FALSE]

\* LogoutHandler.  The response clears whatever cookie the browser has by then.
Logout(r) ==
    /\ flight[r] # NoRequest /\ flight[r].kind = "logout"
    /\ flight' = [flight EXCEPT ![r] = NoRequest]
    /\ sessions' = Delete(flight[r].session)
    /\ cookie' = [cookie EXCEPT ![flight[r].from] = NoSession]
    /\ granted' = [s \in Sessions |-> IF s = flight[r].session
                                      THEN Ended(s)
                                      ELSE granted[s]]
    /\ answer' = "redirect"
    /\ UNCHANGED <<policy, now>>
-----------------------------------------------------------------------------
(***************************************************************************)
(* The browser, the process and the clock.                                 *)
(***************************************************************************)
\* The cookie has the time to live of the session.
DropCookie(b) ==
    /\ cookie[b] # NoSession /\ now >= granted[cookie[b]].at + SessionTTL
    /\ cookie' = [cookie EXCEPT ![b] = NoSession]
    /\ Silent /\ UNCHANGED <<sessions, flight, policy, now, granted>>

SaveBans ==
    /\ Policy!Persist
    /\ Silent /\ UNCHANGED <<sessions, cookie, flight, granted>>

\* The process dies and another one takes its place, with no session.
Restart ==
    /\ Policy!Crash
    /\ sessions' = [s \in Sessions |-> NoEntry]
    /\ granted' = [s \in Sessions |-> Ended(s)]
    /\ Silent /\ UNCHANGED <<cookie, flight>>

Tick ==
    /\ now < MaxTime
    /\ Policy!Tick
    /\ Silent /\ UNCHANGED <<sessions, cookie, flight, granted>>

Next ==
    \/ \E b \in Browsers, ip \in IPs :
          \/ LoginFails(b, ip)
          \/ \E user \in Users : LoginSucceeds(b, ip, user)
          \/ \E r \in Requests, kind \in Kinds : Send(r, b, kind, ip)
    \/ \E r \in Requests :
          Serve(r) \/ ServeAdmin(r) \/ Redirect(r) \/ Unauthorized(r) \/ Logout(r)
    \/ \E b \in Browsers : DropCookie(b)
    \/ Cleanup \/ SaveBans \/ Restart \/ Tick

Spec == Init /\ [][Next]_vars

-----------------------------------------------------------------------------
(***************************************************************************)
(* Correctness.                                                            *)
(***************************************************************************)
\* Logged in by a successful login less than SessionTTL ago, and since then
\* neither logged out nor left behind by a restart.
LoggedIn(s) ==
    s \in Sessions /\ granted[s].valid /\ now - granted[s].at < SessionTTL

\* Whatever was in flight when a session ended, exactly the requests of those
\* logged in on arrival are let in: no cleanup, logout, login or ban of another
\* browser ends a session, and neither a cookie nor a late request revives one.
LetInIffLoggedIn ==
    [][\A r \in Requests :
          (flight[r] # NoRequest /\ flight'[r] = NoRequest /\ flight[r].kind # "logout")
             => (answer' \in {"served", "forbidden"} <=> LoggedIn(flight[r].session))]_vars

\* The administrator's pages are served to nobody else, though identifiers,
\* cookies and requests outlive sessions.
AdminPagesToAdmin ==
    [][\A r \in Requests :
          (/\ flight[r] # NoRequest /\ flight'[r] = NoRequest
           /\ flight[r].kind = "admin" /\ answer' = "served")
             => granted[flight[r].session].user = Admin]_vars

\* Only API requests of nobody logged in count against the address they come
\* from: not the visits that are sent to the login form, and not the requests
\* of a live session, whatever else its browser has in flight.
OnlyStrangersCount ==
    [][\A ip \in IPs : recent'["auth"][ip] \ recent["auth"][ip] # {} =>
          \E r \in Requests : /\ flight[r] # NoRequest /\ flight'[r] = NoRequest
                              /\ flight[r].kind = "api" /\ flight[r].ip = ip
                              /\ ~LoggedIn(flight[r].session)]_vars
=============================================================================
