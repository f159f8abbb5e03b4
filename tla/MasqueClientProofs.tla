------------------------- MODULE MasqueClientProofs -------------------------
(***************************************************************************)
(* The safety of the HTTP/3 speed test, for any number of requests, blocks *)
(* and chunks.                                                             *)
(***************************************************************************)
EXTENDS MasqueClient, TLAPS

\* What each await of the set-up has behind it and before it.
SetupInv ==
    /\ step = "dial" => outer # "closed"
    /\ handshaken \/ failed => outer # "none"
    /\ step \in {"settings", "accept", "handshake", "publish", "request"} => outer = "open"
    /\ step \in {"dial", "settings"} => accepted = "none"
    /\ step \in {"dial", "settings", "accept", "handshake"} => turn = Requests
    /\ accepted = "none" => ~ over

\* The inner connection exists behind an accepted CONNECT only, is open only
\* while its tunnel is, unless skipped HEADERS have ended that, and a future is awaited only in a request.
InnerInv ==
    /\ accepted \in {"none", "pending"} => inner = "none"
    /\ inner = "open" => ~ failed /\ (over => "skipped" \in missed)
    /\ response = "pending" => step = "request"

\* The three parts of TypeOK.
Flags ==
    /\ handshaken \in BOOLEAN /\ failed \in BOOLEAN /\ over \in BOOLEAN
    /\ handshake \in BOOLEAN /\ ttfb \in BOOLEAN
Numbers == turn \in 0 .. Requests /\ left \in 0 .. Blocks - 1 /\ received \in 0 .. Limit
Names ==
    /\ step \in {"idle", "dial", "settings", "accept", "handshake", "publish", "request",
                 "closing", "drain"}
    /\ spent \subseteq {"setup", "total", "user"}
    /\ outer \in {"none", "open", "closed"}
    /\ settings \in {"none", "masque", "other"}
    /\ accepted \in {"none", "pending", "ok", "refused"}
    /\ inner \in {"none", "opening", "open", "closing", "dead"}
    /\ response \in {"none", "pending", "ok", "failed"}
    /\ missed \subseteq {"unanswered", "unattached", "skipped", "between"}

Types == Names /\ Numbers /\ Flags

IInv == /\ Types /\ SetupInv /\ InnerInv
        /\ NothingLeftOpen /\ EndNoticed /\ AnswerChecked

USE MasqueAssumption
USE DEF Types, Flags, Numbers, Names, SetupInv, InnerInv, NothingLeftOpen, EndNoticed, AnswerChecked,
        Reachable, Listening, Closed, Interrupted, Hears,
        vars, proxy, answer, request
-----------------------------------------------------------------------------
\* Leaving, wherever the task is and whatever interrupts it.
LEMMA LeavingKeeps ==
  ASSUME IInv, Leave, spent' \subseteq {"setup", "total", "user"}
  PROVE  IInv'
  <1>1. CASE step \in {"handshake", "publish", "request"}
    BY <1>1 DEF IInv, Leave
  <1>2. CASE step \in {"settings", "accept", "closing"} \/ (step = "dial" /\ outer = "open")
    BY <1>2 DEF IInv, Leave
  <1>3. CASE step = "drain" \/ (step = "dial" /\ outer = "none")
    BY <1>3 DEF IInv, Leave
  <1>4. QED
    BY <1>1, <1>2, <1>3 DEF Leave

LEMMA InitInv == Init => IInv
  <1> SUFFICES ASSUME Init PROVE IInv
    OBVIOUS
  <1>1. Flags
    BY DEF Init
  <1>2. Numbers
    BY DEF Init
  <1>3. Names
    BY DEF Init
  <1>4. SetupInv /\ InnerInv /\ NothingLeftOpen /\ EndNoticed /\ AnswerChecked
    BY DEF Init
  <1>5. QED
    BY <1>1, <1>2, <1>3, <1>4 DEF IInv

\* The steps of the task.
LEMMA TaskKeeps ==
  ASSUME IInv,
         \/ Begin
         \/ \E why \in {"setup", "total", "user"} : Interrupt(why)
         \/ RequestTimeout \/ InnerClosed \/ Drained
         \/ Dial \/ Dialled \/ AskTunnel \/ Attach \/ Ready
         \/ Request \/ Finish \/ Queue \/ Answered \/ RequestFails
  PROVE  IInv'
  <1>s. spent \subseteq {"setup", "total", "user"}
    BY DEF IInv
  <1>l. ASSUME Leave, UNCHANGED spent PROVE IInv'
    BY <1>l, <1>s, LeavingKeeps
  <1>1. CASE Begin
    <2>1. Flags'
      BY <1>1 DEF IInv, Begin
    <2>2. Numbers'
      BY <1>1 DEF IInv, Begin
    <2>3. Names'
      BY <1>1 DEF IInv, Begin
    <2>4. SetupInv' /\ InnerInv'
      BY <1>1 DEF IInv, Begin
    <2>5. NothingLeftOpen' /\ EndNoticed' /\ AnswerChecked'
      BY <1>1 DEF IInv, Begin
    <2>6. QED
      BY <2>1, <2>2, <2>3, <2>4, <2>5 DEF IInv
  <1>2. ASSUME NEW why \in {"setup", "total", "user"}, Interrupt(why) PROVE IInv'
    BY <1>2, <1>s, LeavingKeeps DEF Interrupt
  <1>3. CASE RequestTimeout \/ Finish \/ RequestFails
    BY <1>3, <1>l DEF RequestTimeout, Finish, RequestFails
  <1>4. CASE InnerClosed
    BY <1>4 DEF IInv, InnerClosed
  <1>5. CASE Drained
    BY <1>5 DEF IInv, Drained
  <1>6. CASE Dial
    <2>1. CASE outer' = "open" /\ UNCHANGED step
      <3>1. Flags'
        BY <1>6, <2>1 DEF IInv, Dial, Leave
      <3>2. Numbers'
        BY <1>6, <2>1 DEF IInv, Dial, Leave
      <3>3. Names'
        BY <1>6, <2>1 DEF IInv, Dial, Leave
      <3>4. SetupInv' /\ InnerInv'
        BY <1>6, <2>1 DEF IInv, Dial, Leave
      <3>5. NothingLeftOpen' /\ EndNoticed' /\ AnswerChecked'
        BY <1>6, <2>1 DEF IInv, Dial, Leave
      <3>6. QED
        BY <3>1, <3>2, <3>3, <3>4, <3>5 DEF IInv
    <2>2. QED
      BY <1>6, <1>l, <2>1 DEF Dial
  <1>7. CASE Dialled
    <2>1. CASE ~ failed
      <3>1. Flags'
        BY <1>7, <2>1 DEF IInv, Dialled
      <3>2. Numbers'
        BY <1>7, <2>1 DEF IInv, Dialled
      <3>3. Names'
        BY <1>7, <2>1 DEF IInv, Dialled
      <3>4. SetupInv' /\ InnerInv'
        BY <1>7, <2>1 DEF IInv, Dialled
      <3>5. NothingLeftOpen' /\ EndNoticed' /\ AnswerChecked'
        BY <1>7, <2>1 DEF IInv, Dialled
      <3>6. QED
        BY <3>1, <3>2, <3>3, <3>4, <3>5 DEF IInv
    <2>2. QED
      BY <1>7, <1>l, <2>1 DEF Dialled
  <1>8. CASE AskTunnel
    <2>1. CASE ~ failed /\ settings = "masque"
      <3>1. Flags'
        BY <1>8, <2>1 DEF IInv, AskTunnel
      <3>2. Numbers'
        BY <1>8, <2>1 DEF IInv, AskTunnel
      <3>3. Names'
        BY <1>8, <2>1 DEF IInv, AskTunnel
      <3>4. SetupInv' /\ InnerInv'
        BY <1>8, <2>1 DEF IInv, AskTunnel
      <3>5. NothingLeftOpen' /\ EndNoticed' /\ AnswerChecked'
        BY <1>8, <2>1 DEF IInv, AskTunnel
      <3>6. QED
        BY <3>1, <3>2, <3>3, <3>4, <3>5 DEF IInv
    <2>2. QED
      BY <1>8, <1>l, <2>1 DEF AskTunnel
  <1>9. CASE Attach
    <2>1. CASE accepted = "ok"
      <3>1. Flags'
        BY <1>9, <2>1 DEF IInv, Attach
      <3>2. Numbers'
        BY <1>9, <2>1 DEF IInv, Attach
      <3>3. Names'
        BY <1>9, <2>1 DEF IInv, Attach
      <3>4. SetupInv' /\ InnerInv'
        BY <1>9, <2>1 DEF IInv, Attach
      <3>5. NothingLeftOpen' /\ EndNoticed' /\ AnswerChecked'
        BY <1>9, <2>1 DEF IInv, Attach
      <3>6. QED
        BY <3>1, <3>2, <3>3, <3>4, <3>5 DEF IInv
    <2>2. QED
      BY <1>9, <1>l, <2>1 DEF Attach
  <1>10. CASE Ready
    <2>1. CASE inner # "dead"
      <3>1. /\ step = "handshake" /\ step' = "publish" /\ spent' = spent \cup {"setup"}
            /\ UNCHANGED <<proxy, inner, handshake, request, missed>>
        BY <1>10, <2>1 DEF Ready
      <3>2. Names' /\ Numbers' /\ Flags'
        BY <3>1 DEF IInv
      <3>3. SetupInv' /\ InnerInv' /\ NothingLeftOpen'
        BY <3>1 DEF IInv
      <3>4. EndNoticed' /\ AnswerChecked'
        BY <3>1 DEF IInv
      <3>5. QED
        BY <3>2, <3>3, <3>4 DEF IInv
    <2>2. QED
      BY <1>10, <1>l, <2>1 DEF Ready
  <1>11. CASE Request
    <2>1. Flags'
      BY <1>11 DEF IInv, Request
    <2>2. Numbers'
      BY <1>11 DEF IInv, Request
    <2>3. Names'
      BY <1>11 DEF IInv, Request
    <2>4. SetupInv' /\ InnerInv'
      BY <1>11 DEF IInv, Request
    <2>5. NothingLeftOpen' /\ EndNoticed' /\ AnswerChecked'
      BY <1>11 DEF IInv, Request
    <2>6. QED
      BY <2>1, <2>2, <2>3, <2>4, <2>5 DEF IInv
  <1>12. CASE Queue
    BY <1>12 DEF IInv, Queue
  <1>13. CASE Answered
    BY <1>13 DEF IInv, Answered
  <1>14. QED
    BY <1>1, <1>2, <1>3, <1>4, <1>5, <1>6, <1>7, <1>8, <1>9, <1>10, <1>11, <1>12, <1>13

\* The events of the outer connection.  Its end closes the inner connection, or
\* comes in one of the ways that missed records.
LEMMA OuterKeeps ==
  ASSUME IInv, ProxyConnected \/ ProxySettings \/ ConnectAnswered
               \/ StreamEnds \/ SkippedHeadersEnd \/ ProxyLost
  PROVE  IInv'
  <1>1. CASE ProxyConnected
    BY <1>1 DEF IInv, ProxyConnected
  <1>2. CASE ProxySettings
    BY <1>2 DEF IInv, ProxySettings
  <1>3. CASE ConnectAnswered
    <2>1. Flags'
      BY <1>3 DEF IInv, ConnectAnswered
    <2>2. Numbers'
      BY <1>3 DEF IInv, ConnectAnswered
    <2>3. Names'
      BY <1>3 DEF IInv, ConnectAnswered
    <2>4. SetupInv' /\ InnerInv'
      BY <1>3 DEF IInv, ConnectAnswered
    <2>5. NothingLeftOpen' /\ EndNoticed' /\ AnswerChecked'
      BY <1>3 DEF IInv, ConnectAnswered
    <2>6. QED
      BY <2>1, <2>2, <2>3, <2>4, <2>5 DEF IInv
  <1>4. CASE StreamEnds
    <2>1. Flags'
      BY <1>4 DEF IInv, StreamEnds
    <2>2. Names' /\ Numbers'
      BY <1>4 DEF IInv, StreamEnds
    <2>3. SetupInv' /\ InnerInv' /\ NothingLeftOpen'
      BY <1>4 DEF IInv, StreamEnds
    <2>4. EndNoticed'
      BY <1>4 DEF IInv, StreamEnds
    <2>5. AnswerChecked'
      BY <1>4 DEF IInv, StreamEnds
    <2>6. QED
      BY <2>1, <2>2, <2>3, <2>4, <2>5 DEF IInv
  <1>5. CASE ProxyLost
    <2>1. Flags'
      BY <1>5 DEF IInv, ProxyLost
    <2>2. Names' /\ Numbers'
      BY <1>5 DEF IInv, ProxyLost
    <2>3. SetupInv' /\ InnerInv' /\ NothingLeftOpen'
      BY <1>5 DEF IInv, ProxyLost
    <2>4. EndNoticed'
      BY <1>5 DEF IInv, ProxyLost
    <2>5. AnswerChecked'
      BY <1>5 DEF IInv, ProxyLost
    <2>6. QED
      BY <2>1, <2>2, <2>3, <2>4, <2>5 DEF IInv
  <1>6. CASE SkippedHeadersEnd
    <2>1. Flags'
      BY <1>6 DEF IInv, SkippedHeadersEnd
    <2>2. Names' /\ Numbers'
      BY <1>6 DEF IInv, SkippedHeadersEnd
    <2>3. SetupInv' /\ InnerInv' /\ NothingLeftOpen'
      BY <1>6 DEF IInv, SkippedHeadersEnd
    <2>4. EndNoticed'
      BY <1>6 DEF IInv, SkippedHeadersEnd
    <2>5. AnswerChecked'
      BY <1>6 DEF IInv, SkippedHeadersEnd
    <2>6. QED
      BY <2>1, <2>2, <2>3, <2>4, <2>5 DEF IInv
  <1>7. QED
    BY <1>1, <1>2, <1>3, <1>4, <1>5, <1>6

\* The events of the inner connection.
LEMMA InnerKeeps ==
  ASSUME IInv, InnerConnected \/ InnerTerminated \/ InnerReset \/ Headers \/ Data
  PROVE  IInv'
  <1>1. CASE InnerConnected
    <2>1. Flags'
      BY <1>1 DEF IInv, InnerConnected
    <2>2. Names' /\ Numbers'
      BY <1>1 DEF IInv, InnerConnected
    <2>3. SetupInv' /\ InnerInv' /\ NothingLeftOpen'
      BY <1>1 DEF IInv, InnerConnected
    <2>4. EndNoticed'
      BY <1>1 DEF IInv, InnerConnected
    <2>5. AnswerChecked'
      BY <1>1 DEF IInv, InnerConnected
    <2>6. QED
      BY <2>1, <2>2, <2>3, <2>4, <2>5 DEF IInv
  <1>2. CASE InnerTerminated
    <2>1. Flags'
      BY <1>2 DEF IInv, InnerTerminated
    <2>2. Names' /\ Numbers'
      BY <1>2 DEF IInv, InnerTerminated
    <2>3. SetupInv' /\ InnerInv' /\ NothingLeftOpen'
      BY <1>2 DEF IInv, InnerTerminated
    <2>4. EndNoticed'
      BY <1>2 DEF IInv, InnerTerminated
    <2>5. AnswerChecked'
      BY <1>2 DEF IInv, InnerTerminated
    <2>6. QED
      BY <2>1, <2>2, <2>3, <2>4, <2>5 DEF IInv
  <1>3. CASE InnerReset
    <2>1. Flags'
      BY <1>3 DEF IInv, InnerReset
    <2>2. Names' /\ Numbers'
      BY <1>3 DEF IInv, InnerReset
    <2>3. SetupInv' /\ InnerInv' /\ NothingLeftOpen'
      BY <1>3 DEF IInv, InnerReset
    <2>4. EndNoticed'
      BY <1>3 DEF IInv, InnerReset
    <2>5. AnswerChecked'
      BY <1>3 DEF IInv, InnerReset
    <2>6. QED
      BY <2>1, <2>2, <2>3, <2>4, <2>5 DEF IInv
  <1>4. CASE Headers
    <2>1. Flags'
      BY <1>4 DEF IInv, Headers
    <2>2. Names' /\ Numbers'
      BY <1>4 DEF IInv, Headers
    <2>3. SetupInv' /\ InnerInv' /\ NothingLeftOpen'
      BY <1>4 DEF IInv, Headers
    <2>4. EndNoticed'
      BY <1>4 DEF IInv, Headers
    <2>5. AnswerChecked'
      BY <1>4 DEF IInv, Headers
    <2>6. QED
      BY <2>1, <2>2, <2>3, <2>4, <2>5 DEF IInv
  <1>5. CASE Data
    <2>1. Flags'
      BY <1>5 DEF IInv, Data
    <2>2. Names' /\ Numbers'
      BY <1>5 DEF IInv, Data
    <2>3. SetupInv' /\ InnerInv' /\ NothingLeftOpen'
      BY <1>5 DEF IInv, Data
    <2>4. EndNoticed'
      BY <1>5 DEF IInv, Data
    <2>5. AnswerChecked'
      BY <1>5 DEF IInv, Data
    <2>6. QED
      BY <2>1, <2>2, <2>3, <2>4, <2>5 DEF IInv
  <1>6. QED
    BY <1>1, <1>2, <1>3, <1>4, <1>5

THEOREM Invariance == Spec => []IInv
  <1>1. IInv /\ [Next]_vars => IInv'
    <2> SUFFICES ASSUME IInv, [Next]_vars PROVE IInv'
      OBVIOUS
    <2>1. CASE UNCHANGED vars
      BY <2>1 DEF IInv
    <2>2. QED
      BY <2>1, TaskKeeps, OuterKeeps, InnerKeeps DEF Next
  <1>2. QED
    BY <1>1, InitInv, PTL DEF Spec
-----------------------------------------------------------------------------
\* http3_client and the context managers around it close both connections,
\* whichever await of the set-up, of a request or of the closing is cut short.
THEOREM BothClosed == Spec => []NothingLeftOpen
  <1>1. IInv => NothingLeftOpen
    BY DEF IInv
  <1>2. QED
    BY <1>1, Invariance, PTL

\* MasqueClient and Http3Client pass every end of a connection or tunnel on to
\* whoever awaits something of it, but for those that come in one of the four
\* ways missed records: before the answer to CONNECT, before the inner client is
\* attached, with HEADERS that are skipped, and between two requests.
THEOREM EndsHeard == Spec => []EndNoticed
  <1>1. IInv => EndNoticed
    BY DEF IInv
  <1>2. QED
    BY <1>1, Invariance, PTL

\* Http3Client.request returns only after good headers and the end of their
\* stream, in whatever pieces and order the answer comes.
THEOREM AnswersChecked == Spec => []AnswerChecked
  <1>1. IInv => AnswerChecked
    BY DEF IInv
  <1>2. QED
    BY <1>1, Invariance, PTL

\* The types of the task, the connections and the request.
THEOREM TypeCorrect == Spec => []TypeOK
  <1>1. IInv => TypeOK
    BY DEF IInv, TypeOK
  <1>2. QED
    BY <1>1, Invariance, PTL
-----------------------------------------------------------------------------
\* How far a test has come; it goes on to its next request by publishing.
Way == [dial |-> 1, settings |-> 2, accept |-> 3, handshake |-> 4, request |-> 5,
        publish |-> 6, closing |-> 7, drain |-> 8, idle |-> 9]

\* The task stays in its await, with no more left to upload, or it goes on, to
\* the next request if to no later step.
Onward == \/ step' = step /\ turn' = turn /\ left' <= left
          \/ turn' = turn /\ Way[step] < Way[step']
          \/ step = "publish" /\ step' = "request" /\ turn' < turn

\* run_speed_test never goes back, whatever the connections do and whoever
\* cancels it: nothing is retried and no request made twice, so that a test can
\* only be endless by a wait without an end, which its timer of 300 s excludes.
THEOREM TestAdvances == Spec => [][step # "idle" => Onward]_vars
  <1>1. ASSUME IInv, Next, step # "idle" PROVE Onward
    <2>1. turn \in Nat /\ left \in Nat
      BY <1>1 DEF IInv
    <2>l. ASSUME Leave PROVE Onward
      <3>1. /\ turn' = turn
            /\ \/ step \in {"dial", "settings", "accept", "handshake", "publish", "request"}
                  /\ step' \in {"closing", "drain", "idle"}
               \/ step = "closing" /\ step' = "drain"
               \/ step = "drain" /\ step' = "idle"
        BY <2>l DEF Leave
      <3>2. QED
        BY <3>1 DEF Onward, Way
    <2>2. CASE \/ \E why \in {"setup", "total", "user"} : Interrupt(why)
               \/ RequestTimeout \/ Finish \/ RequestFails
      BY <2>l, <2>2 DEF Interrupt, RequestTimeout, Finish, RequestFails
    <2>3. CASE InnerClosed \/ Drained
      <3>1. /\ turn' = turn
            /\ \/ step = "closing" /\ step' = "drain"
               \/ step = "drain" /\ step' = "idle"
        BY <2>3 DEF InnerClosed, Drained
      <3>2. QED
        BY <3>1 DEF Onward, Way
    <2>4. CASE Dial \/ Dialled \/ AskTunnel \/ Attach \/ Ready
      <3>1. \/ Leave
            \/ UNCHANGED <<step, turn, left>>
            \/ /\ turn' = turn
               /\ \/ step = "dial" /\ step' = "settings"
                  \/ step = "settings" /\ step' = "accept"
                  \/ step = "accept" /\ step' = "handshake"
                  \/ step = "handshake" /\ step' = "publish"
        BY <2>4 DEF Dial, Dialled, AskTunnel, Attach, Ready
      <3>2. QED
        BY <2>1, <2>l, <3>1 DEF Onward, Way
    <2>5. CASE Request
      <3>1. step = "publish" /\ step' = "request" /\ turn' = turn - 1
        BY <2>5 DEF Request
      <3>2. QED
        BY <2>1, <3>1 DEF Onward
    <2>6. CASE Queue
      <3>1. step' = step /\ turn' = turn /\ left' = left - 1
        BY <2>6 DEF Queue
      <3>2. QED
        BY <2>1, <3>1 DEF Onward
    <2>7. CASE Answered
      <3>1. step = "request" /\ step' = "publish" /\ turn' = turn
        BY <2>7 DEF Answered
      <3>2. QED
        BY <3>1 DEF Onward, Way
    <2>8. CASE \/ ProxyConnected \/ ProxySettings \/ ConnectAnswered \/ StreamEnds
               \/ SkippedHeadersEnd \/ ProxyLost \/ InnerConnected \/ InnerTerminated \/ InnerReset
               \/ Headers \/ Data
      <3>1. UNCHANGED <<step, turn, left>>
        BY <2>8 DEF ProxyConnected, ProxySettings, ConnectAnswered, StreamEnds,
           SkippedHeadersEnd, ProxyLost, InnerConnected, InnerTerminated, InnerReset, Headers, Data
      <3>2. QED
        BY <2>1, <3>1 DEF Onward
    <2>9. QED
      BY <1>1, <2>2, <2>3, <2>4, <2>5, <2>6, <2>7, <2>8 DEF Next, Begin
  <1>2. IInv /\ [Next]_vars => [step # "idle" => Onward]_vars
    BY <1>1
  <1>3. QED
    BY <1>2, Invariance, PTL DEF Spec
=============================================================================
