----------------------------- MODULE BanPolicy ------------------------------
(***************************************************************************)
(* What the ban list promises a client, with no store behind it: bans and  *)
(* failures vanish at the instant they go out of date, and a crash takes   *)
(* the failures and the bans that were not yet durable, nothing else.      *)
(***************************************************************************)
EXTENDS Integers, FiniteSets

CONSTANTS IPs, LoginLimit, AuthLimit, Window, BanTTL

VARIABLES
    until,      \* when each address is admitted again, 0 if it is now
    recent,     \* the failures inside the window
    durable,    \* the banned addresses a crash does not free
    now

vars == <<until, recent, durable, now>>

Kinds == {"login", "auth"}
Limit(kind) == IF kind = "login" THEN LoginLimit ELSE AuthLimit
Barred == {ip \in IPs : until[ip] # 0}

Init ==
    /\ until = [ip \in IPs |-> 0]
    /\ recent = [kind \in Kinds |-> [ip \in IPs |-> {}]]
    /\ durable = {} /\ now = 0

\* An address that is admitted fails: below the limit it stays admitted with
\* one failure more, at the limit it is barred and starts from nothing.
Failure(kind, ip) ==
    LET list == recent[kind][ip]
        more == list \cup {<<now, Cardinality({f \in list : f[1] = now}) + 1>>}
    IN  /\ ip \notin Barred
        /\ \/ /\ Cardinality(more) < Limit(kind)
              /\ recent' = [recent EXCEPT ![kind][ip] = more]
              /\ UNCHANGED until
           \/ /\ Cardinality(more) >= Limit(kind)
              /\ until' = [until EXCEPT ![ip] = now + BanTTL]
              /\ recent' = [k \in Kinds |-> [recent[k] EXCEPT ![ip] = {}]]
        /\ UNCHANGED <<durable, now>>

Success(ip) ==
    /\ recent' = [recent EXCEPT !["login"][ip] = {}]
    /\ UNCHANGED <<until, durable, now>>

Persist ==
    /\ durable' = Barred
    /\ UNCHANGED <<until, recent, now>>

Crash ==
    /\ until' = [ip \in IPs |-> IF ip \in durable THEN until[ip] ELSE 0]
    /\ recent' = [kind \in Kinds |-> [ip \in IPs |-> {}]]
    /\ UNCHANGED <<durable, now>>

\* Time passes, and what it puts out of date is gone.
Tick ==
    /\ now' = now + 1
    /\ until' = [ip \in IPs |-> IF until[ip] > now' THEN until[ip] ELSE 0]
    /\ recent' = [kind \in Kinds |-> [ip \in IPs |->
                     {f \in recent[kind][ip] : f[1] > now' - Window}]]
    /\ durable' = {ip \in durable : until[ip] > now'}

Next ==
    \/ \E ip \in IPs : Success(ip) \/ \E kind \in Kinds : Failure(kind, ip)
    \/ Persist \/ Crash \/ Tick

Spec == Init /\ [][Next]_vars
=============================================================================
