---------------------------- MODULE MasqueClient ----------------------------
(***************************************************************************)
(* The HTTP/3 speed test (proxy_speed.py): an HTTP/3 connection to the     *)
(* measuring server, the inner one, whose packets travel as datagrams in a *)
(* CONNECT-UDP tunnel of a connection to the proxy, the outer one.         *)
(*                                                                         *)
(* One task sets both up, publishes and requests by turns, and closes both *)
(* whatever happens; step names the await it is in.  Events of the         *)
(* connections are handled between: they resolve futures, for which the    *)
(* task resumes later.  Three timers and the user cancel the task.         *)
(***************************************************************************)
EXTENDS Integers

CONSTANTS
    Requests,   \* requests of a measurement, the last of which uploads
    Blocks,     \* blocks of 65536 bytes in an upload
    Limit       \* chunks a response may have

ASSUME MasqueAssumption == Requests \in Nat \ {0} /\ Blocks \in Nat \ {0} /\ Limit \in Nat

VARIABLES
    step,
    spent,      \* the cancellations that have hit the task
    outer,      \* connection to the proxy
    handshaken, failed, settings, accepted,     \* what MasqueClient has seen of it
    over,       \* the proxy has ended the CONNECT stream
    inner,      \* connection to the server
    handshake,  \* the inner client's event: connected or terminated
    turn,       \* requests yet to make
    left,       \* blocks of the request yet to queue
    response, ttfb, received,   \* the request's future; what its answer had so far
    missed      \* history: how an end came that nobody was told of

proxy == <<outer, handshaken, failed, settings, accepted, over>>
answer == <<response, ttfb, received>>
request == <<turn, left, answer>>
vars == <<step, spent, proxy, inner, handshake, request, missed>>

TypeOK ==
    /\ step \in {"idle", "dial", "settings", "accept", "handshake", "publish", "request",
                 "closing", "drain"}
    /\ spent \subseteq {"setup", "total", "user"}
    /\ outer \in {"none", "open", "closed"}
    /\ handshaken \in BOOLEAN /\ failed \in BOOLEAN /\ over \in BOOLEAN
    /\ handshake \in BOOLEAN /\ ttfb \in BOOLEAN
    /\ missed \subseteq {"unanswered", "unattached", "skipped", "between"}
    /\ settings \in {"none", "masque", "other"}
    /\ accepted \in {"none", "pending", "ok", "refused"}
    /\ inner \in {"none", "opening", "open", "closing", "dead"}
    /\ turn \in 0 .. Requests /\ left \in 0 .. Blocks - 1
    /\ response \in {"none", "pending", "ok", "failed"}
    /\ received \in 0 .. Limit

Init ==
    /\ step = "idle" /\ spent = {}
    /\ outer = "none" /\ handshaken = FALSE /\ failed = FALSE
    /\ settings = "none" /\ accepted = "none"
    /\ over = FALSE /\ inner = "none" /\ handshake = FALSE
    /\ turn = 0 /\ left = 0 /\ response = "none"
    /\ ttfb = FALSE /\ received = 0 /\ missed = {}

Begin ==
    /\ step = "idle"
    /\ step' = "dial" /\ spent' = {}
    /\ outer' = "none" /\ handshaken' = FALSE /\ failed' = FALSE
    /\ settings' = "none" /\ accepted' = "none"
    /\ over' = FALSE /\ inner' = "none" /\ handshake' = FALSE
    /\ turn' = Requests /\ left' = 0 /\ response' = "none"
    /\ ttfb' = FALSE /\ received' = 0 /\ missed' = {}
-----------------------------------------------------------------------------
(***************************************************************************)
(* Leaving.                                                                *)
(***************************************************************************)
\* inner.close(): nothing for a connection that is closing or over.
Closed(connection) == IF connection \in {"opening", "open"} THEN "closing" ELSE connection

\* Mutant: the inner client is not closed when it is left before it is connected.
LeaveUnclosed ==
    /\ \/ /\ step \in {"publish", "request"}
          /\ step' = "closing" /\ inner' = Closed(inner)
          /\ UNCHANGED outer
       \/ /\ \/ step \in {"settings", "accept", "handshake", "closing"}
             \/ (step = "dial" /\ outer = "open")
          /\ step' = "drain" /\ outer' = "closed"
          /\ UNCHANGED inner
       \/ /\ step = "drain" \/ (step = "dial" /\ outer = "none")
          /\ step' = "idle"
          /\ UNCHANGED <<outer, inner>>
    /\ response' = "none"
    /\ UNCHANGED <<handshaken, failed, settings, accepted, over, handshake, turn, left,
                   ttfb, received, missed>>

\* The await the task is in raises, or the context ends: what is open is closed,
\* the inner connection first, and a second interruption cuts the wait short.
Leave ==
    /\ \/ /\ step \in {"handshake", "publish", "request"}
          /\ step' = "closing" /\ inner' = Closed(inner)
          /\ UNCHANGED outer
       \/ /\ step \in {"settings", "accept", "closing"} \/ (step = "dial" /\ outer = "open")
          /\ step' = "drain" /\ outer' = "closed"
          /\ UNCHANGED inner
       \/ /\ step = "drain" \/ (step = "dial" /\ outer = "none")
          /\ step' = "idle"
          /\ UNCHANGED <<outer, inner>>
    /\ response' = "none"
    /\ UNCHANGED <<handshaken, failed, settings, accepted, over, handshake, turn, left,
                   ttfb, received, missed>>

\* Mutant: the total time does not cover the awaits of publish.
InterruptRequests(why) ==
    /\ why \notin spent /\ spent' = spent \cup {why}
    /\ step # "publish"
    /\ Leave

\* The timer of 15 s over the set-up and its closing, that of 300 s over the
\* test, or the end of the user's connection cancels the task.
Interrupt(why) ==
    /\ why \notin spent /\ spent' = spent \cup {why}
    /\ Leave

RequestTimeout == step = "request" /\ Leave /\ UNCHANGED spent

\* inner.wait_closed(), for 3 s at most.
InnerClosed ==
    /\ step = "closing"
    /\ step' = "drain" /\ outer' = "closed"
    /\ UNCHANGED <<spent, handshaken, failed, settings, accepted, over, inner, handshake,
                   request, missed>>

Drained ==
    /\ step = "drain"
    /\ step' = "idle"
    /\ UNCHANGED <<spent, proxy, inner, handshake, request, missed>>
-----------------------------------------------------------------------------
(***************************************************************************)
(* Setting up: what the task does when what it awaits is there.            *)
(***************************************************************************)
Dial ==
    /\ step = "dial" /\ outer = "none"
    /\ \/ /\ outer' = "open"
          /\ UNCHANGED <<step, spent, handshaken, failed, settings, accepted, over, inner,
                         handshake, request, missed>>
       \/ Leave /\ UNCHANGED spent

Dialled ==
    /\ step = "dial" /\ (handshaken \/ failed)
    /\ \/ /\ ~ failed
          /\ step' = "settings"
          /\ UNCHANGED <<spent, proxy, inner, handshake, request, missed>>
       \/ failed /\ Leave /\ UNCHANGED spent

\* The proxy's settings have come, or failed: CONNECT is sent, or tunnel raises.
AskTunnel ==
    /\ step = "settings" /\ (settings # "none" \/ failed)
    /\ \/ /\ ~ failed /\ settings = "masque"
          /\ step' = "accept" /\ accepted' = "pending"
          /\ UNCHANGED <<spent, outer, handshaken, failed, settings, over, inner, handshake,
                         request, missed>>
       \/ (failed \/ settings = "other") /\ Leave /\ UNCHANGED spent

\* The task resumes with the answer.  It does not look at what came since: a
\* proxy that was lost meanwhile is not noticed.
Attach ==
    /\ step = "accept" /\ accepted \in {"ok", "refused"}
    /\ \/ /\ accepted = "ok"
          /\ step' = "handshake" /\ inner' = "opening"
          /\ missed' = IF failed \/ over THEN missed \cup {"unattached"} ELSE missed
          /\ UNCHANGED <<spent, proxy, handshake, request>>
       \/ accepted = "refused" /\ Leave /\ UNCHANGED spent

Ready ==
    /\ step = "handshake" /\ handshake
    /\ \/ /\ inner # "dead"
          /\ step' = "publish" /\ spent' = spent \cup {"setup"}
          /\ UNCHANGED <<proxy, inner, handshake, request, missed>>
       \/ inner = "dead" /\ Leave /\ UNCHANGED spent
-----------------------------------------------------------------------------
(***************************************************************************)
(* Measuring.                                                              *)
(***************************************************************************)
\* The first block of an upload is queued at once.  Nobody looks whether the
\* inner connection still lives.
Request ==
    /\ step = "publish" /\ turn > 0
    /\ step' = "request" /\ turn' = turn - 1
    /\ left' = IF turn = 1 THEN Blocks - 1 ELSE 0
    /\ response' = "pending" /\ ttfb' = FALSE /\ received' = 0
    /\ missed' = IF inner = "dead" THEN missed \cup {"between"} ELSE missed
    /\ UNCHANGED <<spent, proxy, inner, handshake>>

\* All is published, or publishing raises, or what was received cannot be read.
Finish == step = "publish" /\ Leave /\ UNCHANGED spent

\* Mutant: the last block is queued twice.
QueueAgain ==
    /\ step = "request" /\ response = "pending"
    /\ left' = left - 1
    /\ UNCHANGED <<step, spent, proxy, inner, handshake, turn, answer, missed>>

\* The next block, unless the server has answered before the last one.
Queue ==
    /\ step = "request" /\ left > 0 /\ response = "pending"
    /\ left' = left - 1
    /\ UNCHANGED <<step, spent, proxy, inner, handshake, turn, answer, missed>>

Answered ==
    /\ step = "request" /\ left = 0 /\ response = "ok"
    /\ step' = "publish" /\ response' = "none"
    /\ UNCHANGED <<spent, proxy, inner, handshake, turn, left, ttfb, received, missed>>

\* The answer is an error, or too early.
RequestFails ==
    /\ step = "request" /\ (response = "failed" \/ (left > 0 /\ response = "ok"))
    /\ Leave /\ UNCHANGED spent
-----------------------------------------------------------------------------
(***************************************************************************)
(* Events of the outer connection.                                         *)
(***************************************************************************)
Listening == outer = "open" /\ ~ failed
Reachable == Listening /\ ~ over

ProxyConnected ==
    /\ Listening /\ ~ handshaken
    /\ handshaken' = TRUE
    /\ UNCHANGED <<step, spent, outer, failed, settings, accepted, over, inner, handshake,
                   request, missed>>

ProxySettings ==
    /\ Listening /\ handshaken /\ settings = "none"
    /\ settings' \in {"masque", "other"}
    /\ UNCHANGED <<step, spent, outer, handshaken, failed, accepted, over, inner, handshake,
                   request, missed>>

\* The answer to CONNECT, which may end the stream at once.  HEADERS without a
\* status of at least 200 are skipped: they are no answer.
ConnectAnswered ==
    /\ Reachable /\ accepted = "pending"
    /\ accepted' \in {"ok", "refused"} /\ over' \in BOOLEAN
    /\ UNCHANGED <<step, spent, outer, handshaken, failed, settings, inner, handshake,
                   request, missed>>

\* Mutant: the end of the stream is not passed on.
StreamEndsUnsaid ==
    /\ Reachable /\ accepted # "none"
    /\ over' = TRUE
    /\ missed' = IF accepted = "pending" THEN missed \cup {"unanswered"} ELSE missed
    /\ UNCHANGED <<step, spent, outer, handshaken, failed, settings, accepted, inner,
                   handshake, request>>

\* The proxy ends the CONNECT stream, with DATA or a final status, and with it the
\* inner connection; nobody is told when it has not answered CONNECT yet.
StreamEnds ==
    /\ Reachable /\ accepted # "none"
    /\ over' = TRUE /\ inner' = Closed(inner)
    /\ missed' = IF accepted = "pending" THEN missed \cup {"unanswered"} ELSE missed
    /\ UNCHANGED <<step, spent, outer, handshaken, failed, settings, accepted, handshake,
                   request>>

\* HEADERS without such a status, trailers or an interim answer, end the stream:
\* they are skipped, and their end with them.
SkippedHeadersEnd ==
    /\ Reachable /\ accepted # "none"
    /\ over' = TRUE /\ missed' = missed \cup {"skipped"}
    /\ UNCHANGED <<step, spent, outer, handshaken, failed, settings, accepted, inner,
                   handshake, request>>

\* The connection is terminated or the stream reset.
ProxyLost ==
    /\ Listening
    /\ failed' = TRUE /\ inner' = Closed(inner)
    /\ accepted' = IF accepted = "pending" THEN "refused" ELSE accepted
    /\ UNCHANGED <<step, spent, outer, handshaken, settings, over, handshake, request, missed>>
-----------------------------------------------------------------------------
(***************************************************************************)
(* Events of the inner connection.                                         *)
(***************************************************************************)
InnerConnected ==
    /\ inner = "opening" /\ Reachable
    /\ inner' = "open" /\ handshake' = TRUE
    /\ UNCHANGED <<step, spent, proxy, request, missed>>

Interrupted == IF response = "pending" THEN "failed" ELSE response

\* Closed by the server or after 30 s of silence; or the closing is over.
InnerTerminated ==
    /\ inner \in {"open", "closing"} \/ (inner = "opening" /\ Reachable)
    /\ inner' = "dead" /\ handshake' = TRUE /\ response' = Interrupted
    /\ UNCHANGED <<step, spent, proxy, turn, left, ttfb, received, missed>>

InnerReset ==
    /\ inner = "open" /\ Reachable
    /\ response' = Interrupted
    /\ UNCHANGED <<step, spent, proxy, inner, handshake, turn, left, ttfb, received, missed>>

\* Later messages of a request whose future is done are ignored.
Hears ==
    /\ inner = "open" /\ Reachable /\ response = "pending"
    /\ UNCHANGED <<step, spent, proxy, inner, handshake, turn, left, missed>>

\* Mutant: the end of a refused answer counts as its success.
HeadersRegardless ==
    /\ Hears
    /\ \E good, end \in BOOLEAN :
          /\ ttfb' = (ttfb \/ good)
          /\ response' = IF end THEN "ok" ELSE IF good THEN "pending" ELSE "failed"
    /\ UNCHANGED received

Headers ==
    /\ Hears
    /\ \E good, end \in BOOLEAN :
          /\ ttfb' = (ttfb \/ good)
          /\ response' = IF ~ good THEN "failed" ELSE IF end THEN "ok" ELSE "pending"
    /\ UNCHANGED received

\* A chunk, or nothing but the end of the stream.
Data ==
    /\ Hears
    /\ \E n \in 0 .. 1, end \in BOOLEAN :
          /\ received' = IF received + n > Limit THEN received ELSE received + n
          /\ response' = IF received + n > Limit \/ (end /\ ~ ttfb) THEN "failed"
                         ELSE IF end THEN "ok" ELSE "pending"
    /\ UNCHANGED ttfb

Next ==
    \/ Begin
    \/ \E why \in {"setup", "total", "user"} : Interrupt(why)
    \/ RequestTimeout \/ InnerClosed \/ Drained
    \/ Dial \/ Dialled \/ AskTunnel \/ Attach \/ Ready
    \/ Request \/ Finish \/ Queue \/ Answered \/ RequestFails
    \/ ProxyConnected \/ ProxySettings \/ ConnectAnswered
    \/ StreamEnds \/ SkippedHeadersEnd \/ ProxyLost
    \/ InnerConnected \/ InnerTerminated \/ InnerReset \/ Headers \/ Data

\* The timer of the test, the wait for the inner connection and aioquic's drain.
Spec == Init /\ [][Next]_vars
        /\ WF_vars(Interrupt("total")) /\ WF_vars(InnerClosed) /\ WF_vars(Drained)
-----------------------------------------------------------------------------
(***************************************************************************)
(* Correctness.                                                            *)
(***************************************************************************)
\* However a test ends, cancelled at whatever await of the set-up, of a request
\* or of the closing itself, neither connection stays open.
NothingLeftOpen ==
    /\ outer = "open" => step \notin {"idle", "drain"}
    /\ inner \in {"opening", "open"} => step \in {"handshake", "publish", "request"}

\* When the tunnel or the inner connection ends, the task hears of it and does
\* not wait for what can no longer come, but for an end that comes before the
\* answer to CONNECT, between that answer and the attaching of the inner client,
\* with HEADERS that are skipped, or, of the inner connection, between two
\* requests.  The loss of the whole proxy ends an attached inner connection always.
EndNoticed ==
    /\ step = "accept" /\ accepted = "pending" =>
          ~ failed /\ (over => missed \cap {"unanswered", "skipped"} # {})
    /\ step = "handshake" /\ ~ handshake /\ inner = "opening" =>
          /\ failed => "unattached" \in missed
          /\ over => missed \cap {"unattached", "skipped"} # {}
    /\ step = "request" /\ response = "pending" =>
          /\ inner = "dead" => "between" \in missed
          /\ inner = "open" => ~ failed /\ (over => "skipped" \in missed)

\* A request succeeds only with an answer that had good headers and was ended;
\* a refused or interrupted one is not turned into a success by what comes after.
AnswerChecked ==
    /\ response = "ok" => ttfb
    /\ step = "publish" /\ turn < Requests => ttfb /\ left = 0

\* A test ends, though proxy, server and user may be silent from any moment on.
TestEnds == step # "idle" ~> step = "idle"
=============================================================================
