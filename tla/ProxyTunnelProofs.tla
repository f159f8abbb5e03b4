------------------------- MODULE ProxyTunnelProofs -------------------------
(***************************************************************************)
(* The connections of a call, for any limits, windows and data.            *)
(***************************************************************************)
EXTENDS ProxyTunnel, TLAPS

\* Where the task is tells which connection it has, and which tunnel; and the
\* timer fires only while HTTP/3 is being opened.
StepInv ==
    /\ enabled \in BOOLEAN /\ fired \in BOOLEAN
    /\ step \in {"quic", "open"} => (kind = "none" /\ tcp = "none" /\ ~ fired)
    /\ step = "head" => (kind \in {"h1", "h2"} /\ tcp = "open")
    /\ step = "use" => \/ kind = "h3" /\ tcp = "none"
                       \/ kind \in {"h1", "h2"} /\ tcp = "open"
    /\ fired => kind # "h3"

IInv == StepInv /\ NothingLeftOpen /\ FallbackOnlyAfterTimeout

USE DEF StepInv, NothingLeftOpen, FallbackOnlyAfterTimeout, CloseQuic, CloseTcp

LEMMA OpeningKeeps ==
  ASSUME IInv,
         \/ Begin \/ QuicStart \/ QuicConnected \/ QuicOpened \/ QuicTimeout
         \/ Drained \/ TcpConnected \/ TcpFails \/ ConnectAnswered
  PROVE  IInv'
  <1>1. CASE Begin
    BY <1>1 DEF IInv, Begin, Fresh
  <1>2. CASE QuicStart \/ QuicConnected
    BY <1>2 DEF IInv, QuicStart, QuicConnected, call, opening, connections, tunnel
  <1>3. CASE QuicOpened
    BY <1>3 DEF IInv, QuicOpened, call, opening, connections
  <1>4. CASE QuicTimeout
    BY <1>4 DEF IInv, QuicTimeout, call, connections, tunnel
  <1>5. CASE Drained \/ TcpFails
    BY <1>5 DEF IInv, Drained, TcpFails, call, opening, connections, tunnel
  <1>6. CASE TcpConnected
    BY <1>6 DEF IInv, TcpConnected, call, opening, connections
  <1>7. CASE ConnectAnswered
    BY <1>7 DEF IInv, ConnectAnswered, call, opening, connections
  <1>8. QED
    BY <1>1, <1>2, <1>3, <1>4, <1>5, <1>6, <1>7

\* An operation of the tunnel goes on, or the tunnel is left.
LEMMA UsingKeeps ==
  ASSUME IInv,
         \/ UserLeaves \/ Send \/ Receive \/ Transmit \/ AwaitWindow \/ Take
         \/ AwaitData \/ OperationFails
  PROVE  IInv'
  <1>1. CASE UserLeaves \/ OperationFails
    BY <1>1 DEF IInv, UserLeaves, OperationFails, Leave, call, opening, tunnel
  <1>2. CASE Send \/ Receive \/ Transmit \/ Take
    <2>1. UNCHANGED <<step, call, opening, connections, kind>>
      BY <1>2 DEF Send, Receive, Transmit, Take, Goes
    <2>2. QED
      BY <2>1 DEF IInv, call, opening, connections
  <1>3. CASE AwaitWindow \/ AwaitData
    <2>1. /\ step = "use" /\ kind = "h2" /\ UNCHANGED <<call, opening, kind>>
          /\ CloseTcp \/ UNCHANGED <<step, connections>>
      BY <1>3 DEF AwaitWindow, AwaitData, Frames
    <2>2. QED
      BY <2>1 DEF IInv, call, opening, connections
  <1>4. QED
    BY <1>1, <1>2, <1>3

LEMMA NetworkKeeps ==
  ASSUME IInv,
         \/ QuicHeaders \/ Data \/ End \/ Lost \/ Outage \/ Cancel \/ Closed
         \/ UNCHANGED vars
  PROVE  IInv'
  <1>1. CASE Data
    <2>1. /\ UNCHANGED <<step, call, opening, tcp, kind>>
          /\ quic' = quic \/ quic' = "closed"
      BY <1>1 DEF Data
    <2>2. QED
      BY <2>1 DEF IInv, call, opening
  <1>2. CASE QuicHeaders \/ End \/ Lost \/ Outage \/ UNCHANGED vars
    <2>1. UNCHANGED <<step, asked, enabled, fired, quic, tcp, kind>>
      BY <1>2 DEF QuicHeaders, End, Lost, Outage, vars, call, opening, connections, tunnel
    <2>2. QED
      BY <2>1 DEF IInv
  <1>3. CASE Cancel
    BY <1>3 DEF IInv, Cancel, opening, connections, tunnel
  <1>4. CASE Closed
    BY <1>4 DEF IInv, Closed, call, opening, connections, tunnel
  <1>5. QED
    BY <1>1, <1>2, <1>3, <1>4

LEMMA Invariance == Spec => []IInv
  <1>1. Init => IInv
    BY DEF Init, IInv
  <1>2. IInv /\ [Next]_vars => IInv'
    BY OpeningKeeps, UsingKeeps, NetworkKeeps DEF Next
  <1>3. QED
    BY <1>1, <1>2, PTL DEF Spec

\* No call of proxy_tunnel leaves a connection open or has two at once,
\* wherever it is cancelled.
THEOREM ConnectionsClosed == Spec => []NothingLeftOpen
  <1>1. IInv => NothingLeftOpen
    BY DEF IInv
  <1>2. QED
    BY Invariance, <1>1, PTL

\* TCP follows HTTP/3 only after the timeout of its opening.
THEOREM FallbackCorrect == Spec => []FallbackOnlyAfterTimeout
  <1>1. IInv => FallbackOnlyAfterTimeout
    BY DEF IInv
  <1>2. QED
    BY Invariance, <1>1, PTL
-----------------------------------------------------------------------------
(***************************************************************************)
(* The bytes of a tunnel.                                                  *)
(***************************************************************************)
\* The n chunks after chunk g.
Run(g, n) == [i \in 1 .. n |-> g + i]

LEMMA RunIsSeq ==
  ASSUME NEW g \in Nat, NEW n \in Nat
  PROVE  Run(g, n) \in Seq(Int) /\ Len(Run(g, n)) = n
  BY DEF Run

LEMMA RunAppend ==
  ASSUME NEW g \in Nat, NEW n \in Nat
  PROVE  Append(Run(g, n), g + n + 1) = Run(g, n + 1)
  BY RunIsSeq DEF Run

LEMMA RunSubSeq ==
  ASSUME NEW g \in Nat, NEW n \in Nat, NEW k \in 0 .. n
  PROVE  SubSeq(Run(g, n), k + 1, n) = Run(g + k, n - k)
  BY RunIsSeq DEF Run

\* Nothing has been received before the tunnel is there, and nothing after an
\* opening that timed out.
BytesInv ==
    /\ fed \in Nat /\ got \in Nat /\ got <= fed
    /\ pending = Run(got, fed - got)
    /\ step = "use" => fed - got <= Limit
    /\ kind = "none" \/ step = "head" => fed = 0
    /\ step \in {"quic", "open", "tcp"} \/ (step = "drain" /\ fired) => kind = "none"

\* Steps that receive nothing and hand out nothing.
LEMMA InputKept ==
  ASSUME BytesInv, UNCHANGED input,
         step' = "use" => (step = "use" \/ fed = 0),
         kind' = kind \/ (kind' # "none" /\ (step' = "head" => fed = 0)),
         step' = "head" => fed = 0,
         step' \in {"quic", "open", "tcp"} \/ (step' = "drain" /\ fired') => kind' = "none"
  PROVE  BytesInv'
  BY TunnelAssumption DEF BytesInv, input

LEMMA FramesKeep ==
  ASSUME BytesInv, step = "use", kind = "h2", Frames
  PROVE  BytesInv'
  <1>1. PICK n \in 0 .. 1 :
           /\ fed' = fed + n
           /\ pending' = IF n = 1 THEN Append(pending, fed + 1) ELSE pending
           /\ Len(pending') > Limit => step' = "closing"
           /\ step' = "closing" \/ (step' = step /\ ~ (Len(pending') > Limit))
           /\ kind' = kind /\ got' = got
    BY DEF Frames, Speaks, CloseTcp
  <1>0. fed' \in Nat /\ got' \in Nat /\ got' <= fed' /\ fed' - got' \in Nat
    BY <1>1 DEF BytesInv
  <1>2. pending' = Run(got', fed' - got') /\ Len(pending') = fed' - got'
    <2>1. CASE n = 0
      BY <1>1, <2>1, RunIsSeq DEF BytesInv
    <2>2. CASE n = 1
      <3>1. fed - got \in Nat /\ got + (fed - got) + 1 = fed + 1
            /\ (fed - got) + 1 = fed + 1 - got
        BY DEF BytesInv
      <3>2. Append(Run(got, fed - got), fed + 1) = Run(got, fed + 1 - got)
        BY <3>1, RunAppend DEF BytesInv
      <3>3. pending' = Run(got, fed + 1 - got) /\ fed' = fed + 1 /\ got' = got
        BY <1>1, <2>2, <3>2 DEF BytesInv
      <3>4. fed + 1 - got \in Nat
        BY <1>0, <3>3 DEF BytesInv
      <3>5. Len(Run(got, fed + 1 - got)) = fed + 1 - got
        BY <3>4, RunIsSeq DEF BytesInv
      <3>6. QED
        BY <1>0, <3>3, <3>5 DEF BytesInv
    <2>3. QED
      BY <2>1, <2>2
  <1>3. step' = "use" => fed' - got' <= Limit
    BY <1>0, <1>1, <1>2, TunnelAssumption
  <1>4. kind' = "h2" /\ step' \in {"use", "closing"}
    BY <1>1
  <1>5. QED
    BY <1>0, <1>2, <1>3, <1>4 DEF BytesInv

LEMMA LessRemains ==
  ASSUME NEW a \in Nat, NEW b \in Nat, NEW c \in Nat, b <= c
  PROVE  a - c <= a - b
  OBVIOUS

LEMMA TakeKeeps ==
  ASSUME BytesInv, Take
  PROVE  BytesInv'
  <1>1. fed - got \in Nat /\ Len(pending) = fed - got
    BY RunIsSeq DEF BytesInv
  <1> DEFINE n == IF Len(pending) < MaxRead THEN Len(pending) ELSE MaxRead
  <1>2. /\ n \in 0 .. fed - got /\ got' = got + n
        /\ pending' = SubSeq(pending, n + 1, Len(pending))
    BY <1>1, TunnelAssumption DEF Take
  <1>3. pending' = Run(got', fed - got')
    <2>1. got' \in Nat /\ (fed - got) - n = fed - got'
      BY <1>2 DEF BytesInv
    <2>2. SubSeq(Run(got, fed - got), n + 1, fed - got) = Run(got + n, (fed - got) - n)
      <3> HIDE DEF n
      <3>1. QED
        BY <1>1, <1>2, RunSubSeq DEF BytesInv
    <2>3. pending = Run(got, fed - got)
      BY DEF BytesInv
    <2>4. QED
      BY <1>1, <1>2, <2>1, <2>2, <2>3
  <1>4. UNCHANGED <<step, kind, fired, fed>>
    BY DEF Take, Goes, opening
  <1> HIDE DEF n
  <1>5. got' \in Nat /\ got' <= fed /\ got <= got'
    BY <1>2 DEF BytesInv
  <1>6. Limit \in Nat
    BY TunnelAssumption
  <1>7. step = "use" => fed - got' <= Limit
    <2>1. fed \in Nat /\ got \in Nat
      BY DEF BytesInv
    <2>2. step = "use" => fed - got <= Limit
      BY DEF BytesInv
    <2>3. fed - got' <= fed - got
      BY <1>5, <2>1, LessRemains
    <2>4. fed - got' \in Int /\ fed - got \in Int
      BY <1>5, <2>1
    <2>5. QED
      BY <1>6, <2>2, <2>3, <2>4
  <1>8. /\ fed' \in Nat /\ got' \in Nat /\ got' <= fed'
        /\ pending' = Run(got', fed' - got')
        /\ step' = "use" => fed' - got' <= Limit
    <2>1. fed' = fed /\ step' = step
      BY <1>4
    <2>2. fed' \in Nat /\ got' \in Nat /\ got' <= fed'
      BY <1>5, <2>1 DEF BytesInv
    <2>3. pending' = Run(got', fed' - got')
      BY <1>3, <2>1
    <2>4. step' = "use" => fed' - got' <= Limit
      BY <1>7, <2>1
    <2>5. QED
      BY <2>2, <2>3, <2>4
  <1>9. /\ kind' = "none" \/ step' = "head" => fed' = 0
        /\ step' \in {"quic", "open", "tcp"} \/ (step' = "drain" /\ fired')
           => kind' = "none"
    <2>1. step = "use"
      BY DEF Take, Goes
    <2>2. kind = "none" => fed = 0
      BY DEF BytesInv
    <2>3. QED
      BY <1>4, <2>1, <2>2
  <1>10. QED
    BY <1>8, <1>9 DEF BytesInv

LEMMA DataKeeps ==
  ASSUME BytesInv, IInv, Data
  PROVE  BytesInv'
  <1>1. /\ step = "use" /\ UNCHANGED <<step, kind, fired, got>>
        /\ \/ fed' = fed + 1 /\ Len(pending) < Limit /\ pending' = Append(pending, fed + 1)
           \/ UNCHANGED <<pending, fed>>
    BY DEF Data, Speaks, opening
  <1>2. fed - got \in Nat /\ Len(pending) = fed - got
    BY RunIsSeq DEF BytesInv
  <1>3. CASE fed' = fed + 1 /\ Len(pending) < Limit /\ pending' = Append(pending, fed + 1)
    <2>1. got + (fed - got) + 1 = fed + 1 /\ (fed - got) + 1 = fed + 1 - got
      BY DEF BytesInv
    <2>2. Append(Run(got, fed - got), fed + 1) = Run(got, fed + 1 - got)
      BY <1>2, <2>1, RunAppend DEF BytesInv
    <2>3. fed + 1 - got <= Limit
      BY <1>2, <1>3, TunnelAssumption DEF BytesInv
    <2>4. pending' = Run(got, fed + 1 - got) /\ fed' = fed + 1 /\ got' = got
      BY <1>1, <1>3, <2>2 DEF BytesInv
    <2>5. fed' \in Nat /\ got' \in Nat /\ got' <= fed' /\ kind' = kind /\ step' = "use"
      BY <1>1, <2>4 DEF BytesInv
    <2>6. kind # "none"
      BY <1>1 DEF IInv
    <2>7. QED
      BY <1>1, <2>3, <2>4, <2>5, <2>6 DEF BytesInv
  <1>4. CASE UNCHANGED <<pending, fed>>
    BY <1>1, <1>4 DEF BytesInv
  <1>5. QED
    BY <1>1, <1>3, <1>4

LEMMA BytesStep == BytesInv /\ IInv /\ [Next]_vars => BytesInv'
  <1> SUFFICES ASSUME BytesInv, IInv, [Next]_vars PROVE BytesInv'
    OBVIOUS
  <1>1. CASE Begin
    <2>1. fed' = 0 /\ got' = 0 /\ pending' = <<>> /\ kind' = "none"
      BY <1>1 DEF Begin, Fresh
    <2>2. pending' = Run(got', fed' - got')
      BY <2>1 DEF Run
    <2>3. QED
      BY <2>1, <2>2, TunnelAssumption DEF BytesInv
  <1>2. CASE QuicStart \/ QuicConnected
    <2>1. UNCHANGED <<input, kind, fired>> /\ step = "quic"
          /\ step' \in {"quic", "idle", "open", "drain"}
      BY <1>2 DEF QuicStart, QuicConnected, opening, tunnel
    <2>2. QED
      BY <2>1, InputKept DEF BytesInv
  <1>3. CASE QuicOpened
    <2>1. UNCHANGED <<input, fired>> /\ step = "open" /\ ~ fired
          /\ ((step' = "use" /\ kind' = "h3") \/ (step' = "drain" /\ kind' = kind))
      BY <1>3 DEF QuicOpened, opening, IInv
    <2>2. QED
      BY <2>1, InputKept DEF BytesInv
  <1>4. CASE QuicTimeout
    <2>1. UNCHANGED <<input, kind>> /\ step \in {"quic", "open"} /\ step' = "drain"
      BY <1>4 DEF QuicTimeout, tunnel
    <2>2. QED
      BY <2>1, InputKept DEF BytesInv
  <1>5. CASE Drained \/ TcpFails \/ Closed
    <2>1. /\ UNCHANGED <<input, kind, fired>>
          /\ step' = "idle" \/ (step' = "tcp" /\ step = "drain" /\ fired)
      BY <1>5 DEF Drained, TcpFails, Closed, opening, tunnel
    <2>2. QED
      BY <2>1, InputKept DEF BytesInv
  <1>6. CASE TcpConnected
    <2>1. UNCHANGED <<input, fired>> /\ step = "tcp" /\ kind' # "none"
          /\ step' \in {"head", "closing"}
      BY <1>6 DEF TcpConnected, opening
    <2>2. QED
      BY <2>1, InputKept DEF BytesInv
  <1>7. CASE ConnectAnswered
    <2>1. UNCHANGED <<fed, got, pending, kind, fired>> /\ step = "head"
          /\ step' \in {"use", "closing"}
      BY <1>7 DEF ConnectAnswered, opening
    <2>2. QED
      BY <2>1, TunnelAssumption DEF BytesInv
  <1>8. CASE UserLeaves \/ OperationFails
    <2>1. UNCHANGED <<input, kind, fired>> /\ step = "use" /\ step' \in {"drain", "closing"}
      BY <1>8 DEF UserLeaves, OperationFails, Leave, opening, tunnel
    <2>2. fired => kind # "h3"
      BY DEF IInv
    <2>3. step' = "drain" => kind = "h3"
      BY <1>8 DEF UserLeaves, OperationFails, Leave
    <2>4. QED
      BY <2>1, <2>2, <2>3, InputKept DEF BytesInv
  <1>9. CASE Send \/ Receive \/ Transmit
    <2>1. UNCHANGED <<input, kind, fired, step>>
      BY <1>9 DEF Send, Receive, Transmit, Goes, opening
    <2>2. QED
      BY <2>1, InputKept DEF BytesInv
  <1>10. CASE AwaitWindow \/ AwaitData
    BY <1>10, FramesKeep DEF AwaitWindow, AwaitData
  <1>11. CASE Take \/ Data
    BY <1>11, TakeKeeps, DataKeeps
  <1>12. CASE QuicHeaders \/ End \/ Lost \/ Outage \/ UNCHANGED vars
    <2>1. UNCHANGED <<fed, got, pending, kind, fired, step>>
      BY <1>12 DEF QuicHeaders, End, Lost, Outage, opening, tunnel, input, vars
    <2>2. QED
      BY <2>1 DEF BytesInv
  <1>13. CASE Cancel
    <2>1. UNCHANGED <<input, kind, fired>> /\ step' \in {"idle", "drain", "closing"}
      BY <1>13 DEF Cancel, opening, tunnel
    <2>2. step' = "drain" => kind = "none" \/ kind = "h3"
      BY <1>13 DEF Cancel, BytesInv
    <2>3. fired => kind # "h3"
      BY DEF IInv
    <2>4. QED
      BY <2>1, <2>2, <2>3, InputKept DEF BytesInv
  <1>14. QED
    BY <1>1, <1>2, <1>3, <1>4, <1>5, <1>6, <1>7, <1>8, <1>9, <1>10, <1>11, <1>12,
       <1>13 DEF Next

LEMMA BytesInvariance == Spec => []BytesInv
  <1>1. Init => BytesInv
    <2> SUFFICES ASSUME Init PROVE BytesInv
      OBVIOUS
    <2>1. fed = 0 /\ got = 0 /\ pending = <<>> /\ step = "idle"
      BY DEF Init
    <2>2. pending = Run(got, fed - got)
      BY <2>1 DEF Run
    <2>3. QED
      BY <2>1, <2>2 DEF BytesInv
  <1>2. QED
    BY <1>1, BytesStep, Invariance, PTL DEF Spec

\* The tunnel loses, repeats and reorders nothing, and holds no more than its
\* limit while it is used.
THEOREM BytesCorrect == Spec => []BytesKept
  <1>1. BytesInv => BytesKept
    BY RunIsSeq DEF BytesInv, BytesKept, Run
  <1>2. QED
    BY <1>1, BytesInvariance, PTL
-----------------------------------------------------------------------------
(***************************************************************************)
(* Types.                                                                  *)
(***************************************************************************)
\* The types of everything but the bytes received, whose types BytesInv gives.
FlagTypes ==
    /\ enabled \in BOOLEAN /\ late \in BOOLEAN /\ gone \in BOOLEAN
    /\ fired \in BOOLEAN /\ ended \in BOOLEAN /\ failed \in BOOLEAN
CallTypes ==
    /\ step \in {"idle", "quic", "open", "tcp", "head", "use", "drain", "closing"}
    /\ asked \in {"auto", "h2", "h3"}
    /\ accepted \in {"none", "pending", "ok", "refused"}
    /\ quic \in {"none", "open", "closed"} /\ tcp \in {"none", "open", "closed"}
    /\ kind \in {"none", "h1", "h2", "h3"}
SendTypes ==
    /\ op \in {"none", "send", "receive"}
    /\ left \in Nat /\ window \in 0 .. Window /\ sent \in Nat

LEMMA FlagTypesStep == FlagTypes /\ [Next]_vars => FlagTypes'
  <1> SUFFICES ASSUME FlagTypes, [Next]_vars PROVE FlagTypes'
    OBVIOUS
  <1> USE DEF FlagTypes
  <1>1. CASE Begin
    BY <1>1 DEF Begin, Fresh
  <1>2. CASE QuicTimeout
    <2>1. fired' = TRUE /\ UNCHANGED <<enabled, late, gone, ended, failed>>
      BY <1>2 DEF QuicTimeout, call, tunnel, input
    <2>2. QED
      BY <2>1
  <1>3. CASE ConnectAnswered
    <2>1. UNCHANGED <<enabled, late, gone, fired, failed>>
      BY <1>3 DEF ConnectAnswered, call, opening
    <2>2. ended' \in BOOLEAN
      BY <1>3 DEF ConnectAnswered
    <2>3. QED
      BY <2>1, <2>2
  <1>4. CASE AwaitWindow \/ AwaitData
    <2>1. UNCHANGED <<enabled, late, gone, fired, failed>>
      BY <1>4 DEF AwaitWindow, AwaitData, Frames, call, opening
    <2>2. ended' \in BOOLEAN
      BY <1>4 DEF AwaitWindow, AwaitData, Frames
    <2>3. QED
      BY <2>1, <2>2
  <1>5. CASE QuicHeaders \/ End
    <2>1. UNCHANGED <<enabled, late, gone, fired, failed>>
      BY <1>5 DEF QuicHeaders, End, call, opening
    <2>2. ended' \in BOOLEAN
      BY <1>5 DEF QuicHeaders, End
    <2>3. QED
      BY <2>1, <2>2
  <1>6. CASE Data \/ Lost
    <2>1. UNCHANGED <<enabled, late, gone, fired, ended>>
      BY <1>6 DEF Data, Lost, call, opening
    <2>2. failed' \in BOOLEAN
      BY <1>6 DEF Data, Lost
    <2>3. QED
      BY <2>1, <2>2
  <1>7. CASE Outage
    <2>1. UNCHANGED <<enabled, late, fired, ended, failed>> /\ gone' = ~ gone
      BY <1>7 DEF Outage, opening, tunnel, input
    <2>2. QED
      BY <2>1
  <1>8. CASE Cancel
    <2>1. UNCHANGED <<enabled, gone, fired, ended, failed>> /\ late' = TRUE
      BY <1>8 DEF Cancel, opening, tunnel, input
    <2>2. QED
      BY <2>1
  <1>9. CASE \/ QuicStart \/ QuicConnected \/ QuicOpened \/ Drained \/ TcpConnected \/ TcpFails
             \/ UserLeaves \/ Send \/ Receive \/ Transmit \/ Take \/ OperationFails
             \/ Closed \/ UNCHANGED vars
    <2>1. UNCHANGED <<enabled, late, gone, fired, ended, failed>>
      BY <1>9 DEF QuicStart, QuicConnected, QuicOpened, Drained, TcpConnected, TcpFails,
         UserLeaves, Leave, Send, Receive, Transmit, Take, Goes, OperationFails, Closed, call,
         opening, tunnel, input, vars
    <2>2. QED
      BY <2>1
  <1>10. QED
    BY <1>1, <1>2, <1>3, <1>4, <1>5, <1>6, <1>7, <1>8, <1>9 DEF Next

LEMMA CallTypesStep == CallTypes /\ [Next]_vars => CallTypes'
  <1> SUFFICES ASSUME CallTypes, [Next]_vars PROVE CallTypes'
    OBVIOUS
  <1> USE DEF CallTypes
  <1>1. CASE Begin
    BY <1>1 DEF Begin, Fresh
  <1>2. CASE QuicStart \/ QuicConnected \/ QuicOpened
    BY <1>2 DEF QuicStart, QuicConnected, QuicOpened, call, opening, connections, tunnel
  <1>3. CASE QuicTimeout \/ Drained
    <2>1. step' \in {"drain", "tcp", "idle"} /\ quic' \in {quic, "closed"} /\ tcp' = tcp
      BY <1>3 DEF QuicTimeout, Drained, connections
    <2>2. UNCHANGED <<asked, accepted, kind>>
      BY <1>3 DEF QuicTimeout, Drained, call, opening, tunnel
    <2>3. QED
      BY <2>1, <2>2
  <1>4. CASE TcpConnected \/ TcpFails \/ ConnectAnswered
    BY <1>4 DEF TcpConnected, TcpFails, ConnectAnswered, call, opening, connections, tunnel
  <1>5. CASE UserLeaves \/ OperationFails
    BY <1>5 DEF UserLeaves, OperationFails, Leave, call, opening, tunnel
  <1>6. CASE Send \/ Receive \/ Transmit \/ Take
    BY <1>6 DEF Send, Receive, Transmit, Take, Goes, call, opening, connections
  <1>7. CASE AwaitWindow \/ AwaitData
    BY <1>7 DEF AwaitWindow, AwaitData, Frames, call, opening, connections
  <1>8. CASE QuicHeaders \/ Data \/ End \/ Lost \/ Outage
    BY <1>8 DEF QuicHeaders, Data, End, Lost, Outage, call, opening, connections, tunnel
  <1>9. CASE Cancel \/ Closed \/ UNCHANGED vars
    BY <1>9 DEF Cancel, Closed, vars, call, opening, connections, tunnel
  <1>10. QED
    BY <1>1, <1>2, <1>3, <1>4, <1>5, <1>6, <1>7, <1>8, <1>9 DEF Next

\* The window is neither overdrawn nor raised above its size.
LEMMA SendTypesStep == SendTypes /\ [Next]_vars => SendTypes'
  <1> SUFFICES ASSUME SendTypes, [Next]_vars PROVE SendTypes'
    OBVIOUS
  <1> USE TunnelAssumption DEF SendTypes
  <1>1. CASE Begin
    BY <1>1 DEF Begin, Fresh
  <1>2. CASE Send
    BY <1>2 DEF Send
  <1>3. CASE Receive
    BY <1>3 DEF Receive
  <1>4. CASE Transmit
    <2>1. op' \in {"none", "send"} /\ left' \in Nat
      BY <1>4 DEF Transmit, Done
    <2>2. window' \in 0 .. Window /\ sent' \in Nat
      BY <1>4 DEF Transmit
    <2>3. QED
      BY <2>1, <2>2
  <1>5. CASE AwaitWindow \/ AwaitData
    BY <1>5 DEF AwaitWindow, AwaitData, Frames
  <1>6. CASE Take
    BY <1>6 DEF Take, Done
  <1>7. CASE \/ QuicStart \/ QuicConnected \/ QuicOpened \/ QuicTimeout \/ Drained
             \/ TcpConnected \/ TcpFails \/ ConnectAnswered \/ UserLeaves \/ OperationFails
             \/ QuicHeaders \/ Data \/ End \/ Lost \/ Outage \/ Cancel \/ Closed
             \/ UNCHANGED vars
    <2>1. UNCHANGED <<op, left, window, sent>>
      BY <1>7 DEF QuicStart, QuicConnected, QuicOpened, QuicTimeout, Drained, TcpConnected,
         TcpFails, ConnectAnswered, UserLeaves, OperationFails, Leave, QuicHeaders, Data, End,
         Lost, Outage, Cancel, Closed, tunnel, vars
    <2>2. QED
      BY <2>1
  <1>8. QED
    BY <1>1, <1>2, <1>3, <1>4, <1>5, <1>6, <1>7 DEF Next

\* Every variable of a call keeps its type: the proxy's window is never
\* overdrawn, and what is unread or read was received.
THEOREM TypeCorrect == Spec => []TypeOK
  <1>1. Init => FlagTypes /\ CallTypes /\ SendTypes
    <2> SUFFICES ASSUME Init PROVE FlagTypes /\ CallTypes /\ SendTypes
      OBVIOUS
    <2>1. CallTypes
      BY DEF Init, CallTypes
    <2>2. SendTypes
      BY TunnelAssumption DEF Init, SendTypes
    <2>3. FlagTypes
      BY DEF Init, FlagTypes
    <2>4. QED
      BY <2>1, <2>2, <2>3
  <1>2. ASSUME FlagTypes, CallTypes, SendTypes, BytesInv PROVE TypeOK
    <2>1. fed - got \in Nat /\ fed \in Nat /\ got \in 0 .. fed
      BY <1>2 DEF BytesInv
    <2>2. pending \in Seq(1 .. fed)
      BY <1>2, <2>1 DEF BytesInv, Run
    <2>3. QED
      BY <1>2, <2>1, <2>2 DEF TypeOK, FlagTypes, CallTypes, SendTypes
  <1>3. QED
    BY <1>1, <1>2, FlagTypesStep, CallTypesStep, SendTypesStep, BytesInvariance, PTL DEF Spec
-----------------------------------------------------------------------------
\* How far a call has come: a tunnel is used after the opening over QUIC, or after
\* the one over TCP that may follow it.
Place ==
    IF step = "use" THEN IF kind = "h3" THEN 3 ELSE 7
    ELSE [quic |-> 1, open |-> 2, drain |-> 4, tcp |-> 5, head |-> 6, closing |-> 8,
          idle |-> 9][step]

\* A call never goes back: it opens each kind of connection once at most and
\* leaves a tunnel for good, so that only what its user does in the tunnel, or
\* an await, could last for ever; the timer of 10 s ends either.
THEOREM CallAdvances == Spec => [][step # "idle" => step' = step \/ Place < Place']_vars
  <1> DEFINE Onward == step' = step \/ Place < Place'
  <1>1. ASSUME IInv, CallTypes, Next, step # "idle" PROVE Onward
    <2>1. CASE QuicStart \/ QuicConnected \/ QuicTimeout
      <3>1. /\ step \in {"quic", "open"}
            /\ step' \in {step, "open", "drain", "idle"}
            /\ step = "open" => step' \in {"drain", "open"}
        BY <2>1 DEF QuicStart, QuicConnected, QuicTimeout
      <3>2. QED
        BY <3>1 DEF Place
    <2>2. CASE QuicOpened
      <3>1. step = "open" /\ (step' = "drain" \/ (step' = "use" /\ kind' = "h3"))
        BY <2>2 DEF QuicOpened
      <3>2. QED
        BY <3>1 DEF Place
    <2>3. CASE Drained \/ Closed
      <3>1. \/ step = "drain" /\ step' \in {"tcp", "idle"}
            \/ step = "closing" /\ step' = "idle"
        BY <2>3 DEF Drained, Closed
      <3>2. QED
        BY <3>1 DEF Place
    <2>4. CASE TcpConnected \/ TcpFails
      <3>1. step = "tcp" /\ step' \in {"head", "closing", "idle"}
        BY <2>4 DEF TcpConnected, TcpFails
      <3>2. QED
        BY <3>1 DEF Place
    <2>5. CASE ConnectAnswered
      <3>1. step = "head" /\ step' \in {"use", "closing"} /\ kind' = kind /\ kind # "h3"
        BY <1>1, <2>5 DEF ConnectAnswered, IInv
      <3>2. QED
        BY <3>1 DEF Place
    <2>6. CASE UserLeaves \/ OperationFails \/ AwaitWindow \/ AwaitData
      <3>1. /\ step = "use"
            /\ \/ step' = step
               \/ step' = IF kind = "h3" THEN "drain" ELSE "closing"
        BY <1>1, <2>6 DEF UserLeaves, OperationFails, Leave, AwaitWindow, AwaitData, Frames,
           IInv
      <3>2. QED
        BY <3>1 DEF Place
    <2>7. CASE Cancel
      <3>1. \/ step \in {"quic", "open"} /\ step' \in {"drain", "idle"}
            \/ step = "head" /\ step' = "closing"
            \/ step = "use" /\ step' = IF kind = "h3" THEN "drain" ELSE "closing"
            \/ step \in {"tcp", "drain", "closing"} /\ step' = "idle"
        BY <2>7 DEF Cancel
      <3>2. QED
        BY <3>1 DEF Place
    <2>8. CASE \/ Send \/ Receive \/ Transmit \/ Take
               \/ QuicHeaders \/ Data \/ End \/ Lost \/ Outage
      BY <2>8 DEF Send, Receive, Transmit, Take, Goes, QuicHeaders, Data, End, Lost, Outage
    <2>9. QED
      BY <1>1, <2>1, <2>2, <2>3, <2>4, <2>5, <2>6, <2>7, <2>8 DEF Next, Begin
  <1>2. IInv /\ CallTypes /\ [Next]_vars => [step # "idle" => Onward]_vars
    BY <1>1
  <1>3. Init => CallTypes
    BY DEF Init, CallTypes
  <1>4. QED
    BY <1>2, <1>3, CallTypesStep, Invariance, PTL DEF Spec
=============================================================================
