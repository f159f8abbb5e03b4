---------------------------- MODULE TelegramProbe ---------------------------
(***************************************************************************)
(* The request check of a Telegram proxy (main.py, mtg_health.py): MTProxy *)
(* with Fake TLS, tried with one data centre after another; MTProxy without*)
(* it, tried with every data centre and transport; SOCKS5, tried once.     *)
(*                                                                         *)
(* One task; each attempt opens a connection, shakes hands, makes one      *)
(* exchange and closes.  Everything it awaits has a time limit.  What the  *)
(* proxy sends is read piece by piece, and may be anything.                *)
(***************************************************************************)
EXTENDS Integers

CONSTANTS
    Centres,    \* TELEGRAM_TEST_DCS
    Transports, \* TELEGRAM_MTPROXY_CONNECTIONS
    Pieces      \* records in which the answer comes

ASSUME ProbeAssumption == {Centres, Transports, Pieces} \subseteq Nat \ {0}

VARIABLES
    kind,       \* what the proxy speaks
    step,       \* what the task awaits
    attempt,    \* number of the attempt, which its nonce stands for
    stage,      \* how far the attempt has come (MTGConnection.stage)
    socket,     \* the connection of the attempt
    read,       \* pieces read in this step
    heard,      \* nonce of the answer, 0 for none
    result,
    abandoned   \* history: connections of this check left without being closed

probe == <<kind, step, attempt, stage, socket, read, heard, result, abandoned>>

Kinds == {"fake_tls", "plain", "socks5"}
Stages == {"TCP", "Fake TLS", "Telegram"}
Awaiting == {"connect", "handshake", "exchange"}

ProbeTypeOK ==
    /\ kind \in Kinds /\ step \in Awaiting \cup {"idle", "closing"}
    /\ attempt \in 0 .. Centres * Transports
    /\ stage \in Stages
    /\ socket \in {"none", "open", "closed", "abandoned"}
    /\ abandoned \in 0 .. attempt
    /\ read \in 0 .. Pieces + 3 /\ heard \in 0 .. attempt
    /\ result \in {"none", "ok", "failed", "cancelled"}

Attempts ==
    CASE kind = "fake_tls" -> Centres
      [] kind = "plain" -> Centres * Transports
      [] kind = "socks5" -> 1

\* ServerHello, ChangeCipherSpec and data, or the greeting; then the answer, of
\* which SOCKS5 reads head, address and port.
Wanted ==
    CASE step = "handshake" -> IF kind = "fake_tls" THEN 3 ELSE 1
      [] step = "exchange" -> IF kind = "socks5" THEN 3 ELSE Pieces
      [] OTHER -> 0

ProbeInit ==
    /\ kind \in Kinds /\ step = "idle"
    /\ attempt = 0 /\ stage = "TCP" /\ socket = "none" /\ read = 0 /\ heard = 0
    /\ result = "none" /\ abandoned = 0

Attempt(n) ==
    /\ step' = "connect" /\ attempt' = n
    /\ stage' = "TCP" /\ socket' = "none" /\ read' = 0 /\ heard' = 0

Begin ==
    /\ step = "idle"
    /\ kind' \in Kinds /\ result' = "none" /\ abandoned' = 0
    /\ Attempt(1)

\* Telethon's connect() goes on once it has a connection: it sends its header and
\* waits whether the proxy closes.
Opened ==
    /\ step = "connect" /\ kind = "plain" /\ socket = "none"
    /\ socket' = "open"
    /\ UNCHANGED <<kind, step, attempt, stage, read, heard, result, abandoned>>

\* Telethon needs no answer to its header; Fake TLS and SOCKS5 await one first.
Connected ==
    /\ step = "connect" /\ (kind = "plain" => socket = "open")
    /\ socket' = "open" /\ stage' = "Fake TLS"
    /\ step' = IF kind = "plain" THEN "exchange" ELSE "handshake"
    /\ UNCHANGED <<kind, attempt, read, heard, result, abandoned>>

ReadPiece ==
    /\ read < Wanted
    /\ read' = read + 1
    /\ UNCHANGED <<kind, step, attempt, stage, socket, heard, result, abandoned>>

\* The signature is right, or the method accepted; the request is sent.
Handshaken ==
    /\ step = "handshake" /\ read = Wanted
    /\ step' = "exchange" /\ stage' = "Telegram" /\ read' = 0
    /\ UNCHANGED <<kind, attempt, socket, heard, result, abandoned>>

\* Leaving the attempt closes its connection, but for one that Telethon's
\* connect() has opened and not returned: its disconnect() does nothing before
\* that, and the connection is left to the garbage collector.
Leave(verdict) ==
    /\ step' = "closing" /\ result' = verdict
    /\ \/ /\ socket = "open" /\ step = "connect"
          /\ socket' = "abandoned" /\ abandoned' = abandoned + 1
       \/ /\ socket = "open" /\ step # "connect"
          /\ socket' = "closed" /\ UNCHANGED abandoned
       \/ /\ socket # "open"
          /\ UNCHANGED <<socket, abandoned>>
    /\ UNCHANGED <<kind, attempt, stage, read>>

\* Mutant: any answer of Telegram is good.
AnsweredAnyhow ==
    /\ step = "exchange" /\ read = Wanted
    /\ heard' \in 1 .. attempt
    /\ Leave("ok")

\* An answer to this request, or to another one.
Answered ==
    /\ step = "exchange" /\ read = Wanted
    /\ heard' \in 1 .. attempt
    /\ Leave(IF heard' = attempt \/ kind = "socks5" THEN "ok" ELSE "failed")

\* Mutant: only the exchange has a time limit.
FailsLate ==
    /\ step = "exchange"
    /\ Leave("failed")
    /\ UNCHANGED heard

\* An error, something malformed, the end of the connection or a timeout.
Fails ==
    /\ step \in Awaiting
    /\ Leave("failed")
    /\ UNCHANGED heard

\* Mutant: the connection is left to itself when the task is cancelled.
CancelUnclosed ==
    /\ step \in Awaiting
    /\ step' = "closing" /\ result' = "cancelled"
    /\ UNCHANGED <<kind, attempt, stage, socket, read, heard, abandoned>>

Cancel ==
    /\ step \in Awaiting
    /\ Leave("cancelled")
    /\ UNCHANGED heard

\* Another data centre is of no use to a proxy that did not get as far as Telegram.
Another == result = "failed" /\ attempt < Attempts /\ (kind = "fake_tls" => stage = "Telegram")

\* The connection has closed, or the time for it is over.
Closed ==
    /\ step = "closing"
    /\ \/ Another /\ Attempt(attempt + 1) /\ result' = "none"
          /\ UNCHANGED <<kind, abandoned>>
       \/ ~ Another /\ step' = "idle"
          /\ UNCHANGED <<kind, attempt, stage, socket, read, heard, result, abandoned>>

ProbeNext ==
    \/ Begin \/ Opened \/ Connected \/ ReadPiece \/ Handshaken \/ Answered
    \/ Fails \/ Cancel \/ Closed

\* Timers end what is awaited, the closing included.
ProbeSpec == ProbeInit /\ [][ProbeNext]_probe /\ WF_probe(Fails) /\ WF_probe(Closed)
-----------------------------------------------------------------------------
(***************************************************************************)
(* Correctness.                                                            *)
(***************************************************************************)
\* An attempt holds a connection only while it uses it: not in the next attempt,
\* and not after the check, though it fails or is cancelled at any await.  Only a
\* plain attempt given up within Telethon's connect() leaves one behind: never one
\* of Fake TLS or SOCKS5, and never the one that got the good answer.
ClosedUnlessConnecting ==
    /\ socket = "open" => \/ step \in {"handshake", "exchange"}
                          \/ step = "connect" /\ kind = "plain"
    /\ kind # "plain" => abandoned = 0
    /\ step \in Awaiting \/ result = "ok" => abandoned < attempt

\* A proxy is good if and only if the last attempt got through to Telegram and
\* heard the answer to its own request; it is given up only after every attempt,
\* or, with Fake TLS, when an attempt did not get as far as Telegram.
VerdictJustified ==
    /\ result = "ok" => /\ heard = attempt \/ (kind = "socks5" /\ heard > 0)
                        /\ kind = "plain" \/ stage = "Telegram"
    /\ step = "idle" /\ result = "failed" =>
          attempt = Attempts \/ (kind = "fake_tls" /\ stage # "Telegram")
    /\ step = "idle" /\ heard = attempt /\ attempt > 0 => result = "ok"

\* A check ends, though the proxy is silent from any moment on.
ProbeEnds == step # "idle" ~> step = "idle"
=============================================================================
