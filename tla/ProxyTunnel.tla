---------------------------- MODULE ProxyTunnel ----------------------------
(***************************************************************************)
(* proxy_tunnel (proxy_transport.py): the connection that a health check   *)
(* opens to a proxy, over QUIC or TCP, the tunnel in it, and its closing.  *)
(*                                                                         *)
(* One call at a time of one task, which awaits at each step; the network  *)
(* and two timers act between.  The timer of 3 s covers the opening over   *)
(* QUIC, that of 10 s the call: it cancels the task wherever it awaits.    *)
(* Data are chunks, numbered from 1 in the order the proxy sends them.     *)
(***************************************************************************)
EXTENDS Integers, Sequences

CONSTANTS
    Limit,      \* chunks a tunnel may hold unread (131072 bytes)
    MaxRead,    \* chunks returned by one receive (65536 bytes)
    Window,     \* HTTP/2 flow control window of the proxy
    MaxSent, MaxData    \* bounds: chunks sent and received in a call

ASSUME TunnelAssumption ==
    /\ {Limit, MaxRead, Window} \subseteq Nat \ {0} /\ {MaxSent, MaxData} \subseteq Nat

VARIABLES
    step,       \* what the task awaits
    asked, enabled,     \* protocol, and the host's http3_enabled
    quic, tcp,  \* the connections of this call
    fired,      \* the 3 s timer has ended the opening over QUIC
    late,       \* the 10 s timer has cancelled the call
    gone,       \* the proxy cannot be reached
    accepted,   \* the future of Http3Connect
    kind,       \* the tunnel: HTTP version
    op, left,   \* the tunnel's operation under way, chunks it has yet to send
    window, sent,       \* chunks the proxy will take, chunks sent
    fed, pending, got,  \* last chunk received, those not read, last one read
    ended, failed       \* the stream has ended; its reader raises

call == <<asked, enabled, late, gone>>
opening == <<fired, accepted>>
connections == <<quic, tcp>>
input == <<fed, pending, got, ended, failed>>
tunnel == <<kind, op, left, window, sent, input>>
vars == <<step, call, opening, connections, tunnel>>

TypeOK ==
    /\ step \in {"idle", "quic", "open", "tcp", "head", "use", "drain", "closing"}
    /\ asked \in {"auto", "h2", "h3"}
    /\ {enabled, fired, late, gone, ended, failed} \subseteq BOOLEAN
    /\ {quic, tcp} \subseteq {"none", "open", "closed"}
    /\ accepted \in {"none", "pending", "ok", "refused"}
    /\ kind \in {"none", "h1", "h2", "h3"}
    /\ op \in {"none", "send", "receive"}
    /\ left \in Nat /\ window \in 0 .. Window /\ sent \in Nat
    /\ fed \in Nat /\ got \in 0 .. fed /\ pending \in Seq(1 .. fed)

Fresh ==
    /\ quic' = "none" /\ tcp' = "none" /\ kind' = "none" /\ accepted' = "none"
    /\ op' = "none" /\ left' = 0 /\ window' = Window /\ sent' = 0
    /\ fed' = 0 /\ got' = 0 /\ pending' = <<>>
    /\ ended' = FALSE /\ failed' = FALSE /\ fired' = FALSE /\ late' = FALSE /\ gone' = FALSE

Init ==
    /\ step = "idle" /\ asked = "auto" /\ enabled = FALSE
    /\ quic = "none" /\ tcp = "none" /\ kind = "none" /\ accepted = "none"
    /\ op = "none" /\ left = 0 /\ window = Window /\ sent = 0
    /\ fed = 0 /\ got = 0 /\ pending = <<>>
    /\ ended = FALSE /\ failed = FALSE /\ fired = FALSE /\ late = FALSE /\ gone = FALSE
-----------------------------------------------------------------------------
(***************************************************************************)
(* Opening.                                                                *)
(***************************************************************************)
Begin ==
    /\ step = "idle"
    /\ asked' \in {"auto", "h2", "h3"} /\ enabled' \in BOOLEAN
    /\ step' = IF asked' = "h3" \/ (asked' = "auto" /\ enabled') THEN "quic" ELSE "tcp"
    /\ Fresh

\* The ways out of a connection: wait until it has drained, or closed.
CloseQuic == quic' = "closed" /\ step' = "drain" /\ UNCHANGED tcp
CloseTcp == tcp' = "closed" /\ step' = "closing" /\ UNCHANGED quic

\* The host's name is resolved, or not; the handshake is under way.
QuicStart ==
    /\ step = "quic" /\ quic = "none"
    /\ \/ quic' = "open" /\ UNCHANGED step
       \/ step' = "idle" /\ UNCHANGED quic
    /\ UNCHANGED <<call, opening, tcp, tunnel>>

\* The handshake ends: CONNECT is sent, or wait_connected raises.
QuicConnected ==
    /\ step = "quic" /\ quic = "open" /\ ~ gone
    /\ \/ /\ step' = "open" /\ accepted' = "pending"
          /\ UNCHANGED connections
       \/ CloseQuic /\ UNCHANGED accepted
    /\ UNCHANGED <<call, fired, tunnel>>

\* The task resumes with the answer to CONNECT.
QuicOpened ==
    /\ step = "open" /\ accepted \in {"ok", "refused"}
    /\ \/ /\ accepted = "ok"
          /\ step' = "use" /\ kind' = "h3"
          /\ UNCHANGED connections
       \/ accepted = "refused" /\ CloseQuic /\ UNCHANGED kind
    /\ UNCHANGED <<call, opening, op, left, window, sent, input>>

\* The timer may win over an answer for which the task has not resumed yet.
QuicTimeout ==
    /\ step \in {"quic", "open"}
    /\ fired' = TRUE
    /\ IF quic = "open" THEN CloseQuic ELSE step' = "drain" /\ UNCHANGED connections
    /\ UNCHANGED <<call, accepted, tunnel>>

\* Mutant: TCP is tried after an error of QUIC as well.
DrainedAfterError ==
    /\ step = "drain"
    /\ step' = IF asked = "auto" /\ kind = "none" THEN "tcp" ELSE "idle"
    /\ UNCHANGED <<call, opening, connections, tunnel>>

\* The QUIC connection has drained.  After a timeout it is TCP's turn, unless
\* HTTP/3 was asked for; an error or the end of the call goes on to the caller.
Drained ==
    /\ step = "drain"
    /\ step' = IF fired /\ asked = "auto" THEN "tcp" ELSE "idle"
    /\ UNCHANGED <<call, opening, connections, tunnel>>

\* The TLS handshake has chosen a version; HTTP/2 may have been required.
TcpConnected ==
    /\ step = "tcp" /\ ~ gone
    /\ kind' \in {"h1", "h2"}
    /\ IF asked = "h2" /\ kind' # "h2"
       THEN CloseTcp
       ELSE step' = "head" /\ tcp' = "open" /\ UNCHANGED quic
    /\ UNCHANGED <<call, opening, op, left, window, sent, input>>

TcpFails ==
    /\ step = "tcp"
    /\ step' = "idle"
    /\ UNCHANGED <<call, opening, connections, tunnel>>

\* The answer to CONNECT over TCP: 200, another status, or the end.  The frame
\* that ends the stream may come with it.
ConnectAnswered ==
    /\ step = "head" /\ ~ gone
    /\ \/ /\ step' = "use"
          /\ ended' \in (IF kind = "h2" THEN BOOLEAN ELSE {FALSE})
          /\ UNCHANGED connections
       \/ CloseTcp /\ UNCHANGED ended
    /\ UNCHANGED <<call, opening, kind, op, left, window, sent, fed, pending, got, failed>>
-----------------------------------------------------------------------------
(***************************************************************************)
(* Using the tunnel.                                                       *)
(***************************************************************************)
\* The body of the context ends or raises, or the tunnel does so to it.
Leave ==
    /\ IF kind = "h3" THEN CloseQuic ELSE CloseTcp
    /\ UNCHANGED <<call, opening, tunnel>>

Goes == step = "use" /\ UNCHANGED <<step, call, opening, connections, kind>>

UserLeaves == step = "use" /\ op = "none" /\ Leave

Send ==
    /\ Goes /\ op = "none" /\ sent < MaxSent
    /\ op' = "send" /\ left' \in 1 .. MaxSent - sent
    /\ UNCHANGED <<window, sent, input>>

Receive ==
    /\ Goes /\ op = "none"
    /\ op' = "receive"
    /\ UNCHANGED <<left, window, sent, input>>

Done == op' = "none" /\ UNCHANGED left

\* The proxy and who is behind it speak when spoken to: TLS is inside.
Speaks(n) == (n = 0 \/ (sent > 0 /\ fed < MaxData)) /\ fed' = fed + n

\* Mutant: what was read while sending is dropped.
FramesAnew ==
    /\ ~ gone
    /\ \E n \in 0 .. 1, credit \in 0 .. 1 :
          /\ Speaks(n)
          /\ pending' = IF n = 1 THEN <<fed + 1>> ELSE pending
          /\ window + credit <= Window /\ window' = window + credit
          /\ IF Len(pending') > Limit
             THEN /\ CloseTcp
                  /\ UNCHANGED ended
             ELSE /\ ended' \in {end \in BOOLEAN : end \/ n + credit > 0}
                  /\ UNCHANGED <<step, connections>>
    /\ UNCHANGED <<call, opening, kind, op, left, sent, got, failed>>

\* One read of the HTTP/2 connection, from within a send or a receive: data,
\* credit, the end of the stream.  Too much unread data raises.
Frames ==
    /\ ~ gone
    /\ \E n \in 0 .. 1, credit \in 0 .. 1 :
          /\ Speaks(n)
          /\ pending' = IF n = 1 THEN Append(pending, fed + 1) ELSE pending
          /\ window + credit <= Window /\ window' = window + credit
          /\ IF Len(pending') > Limit
             THEN /\ CloseTcp
                  /\ UNCHANGED ended
             ELSE /\ ended' \in {end \in BOOLEAN : end \/ n + credit > 0}
                  /\ UNCHANGED <<step, connections>>
    /\ UNCHANGED <<call, opening, kind, op, left, sent, got, failed>>

\* Mutant: a chunk is sent into a closed window.
TransmitRegardless ==
    /\ Goes /\ op = "send" /\ (failed => kind = "h3")
    /\ IF left = 0 THEN Done ELSE left' = left - 1 /\ UNCHANGED op
    /\ sent' = IF left = 0 THEN sent ELSE sent + 1
    /\ window' = IF left = 0 \/ kind # "h2" THEN window ELSE window - 1
    /\ UNCHANGED input

\* Over HTTP/2 a chunk is sent when the proxy will take it.
Transmit ==
    /\ Goes /\ op = "send" /\ (failed => kind = "h3")
    /\ left = 0 \/ kind # "h2" \/ window > 0
    /\ IF left = 0 THEN Done ELSE left' = left - 1 /\ UNCHANGED op
    /\ sent' = IF left = 0 THEN sent ELSE sent + 1
    /\ window' = IF left = 0 \/ kind # "h2" THEN window ELSE window - 1
    /\ UNCHANGED input

\* Until then the connection is read.
AwaitWindow ==
    /\ step = "use" /\ op = "send" /\ kind = "h2" /\ left > 0 /\ window = 0 /\ ~ ended
    /\ Frames

Take ==
    LET n == IF Len(pending) < MaxRead THEN Len(pending) ELSE MaxRead
    IN  /\ Goes /\ op = "receive" /\ ~ failed /\ pending # <<>>
        /\ got' = got + n
        /\ pending' = SubSeq(pending, n + 1, Len(pending))
        /\ Done
        /\ UNCHANGED <<window, sent, fed, ended, failed>>

AwaitData ==
    /\ step = "use" /\ op = "receive" /\ kind = "h2" /\ pending = <<>> /\ ~ ended
    /\ Frames

\* Nothing more can be read, or sent: the operation raises.
OperationFails ==
    /\ step = "use"
    /\ \/ op = "receive" /\ (failed \/ (pending = <<>> /\ ended))
       \/ op = "send" /\ (failed \/ ended)
       \/ op # "none" /\ kind = "h2" /\ ~ gone  \* the connection has ended
    /\ Leave
-----------------------------------------------------------------------------
(***************************************************************************)
(* What the proxy sends on its own, and the timer of the call.             *)
(***************************************************************************)
\* The events of the QUIC stream, and the bytes of an HTTP/1.1 tunnel, are
\* handled while the task does something else.
Listening == ~ gone /\ ~ failed /\ ~ ended
             /\ ((quic = "open" /\ step \in {"open", "use"}) \/ (step = "use" /\ kind = "h1"))

QuicHeaders ==
    /\ Listening /\ accepted = "pending"
    /\ accepted' \in {"ok", "refused"} /\ ended' \in BOOLEAN
    /\ UNCHANGED <<step, call, fired, connections, kind, op, left, window, sent,
                   fed, pending, got, failed>>

\* Over QUIC too much unread data fails the reader and closes the connection;
\* asyncio stops reading a TCP connection before that.
Data ==
    /\ Listening /\ step = "use"
    /\ \/ /\ Speaks(1) /\ Len(pending) < Limit
          /\ pending' = Append(pending, fed + 1)
          /\ UNCHANGED <<failed, quic>>
       \/ /\ kind = "h3" /\ Len(pending) = Limit /\ sent > 0
          /\ failed' = TRUE /\ quic' = "closed"
          /\ UNCHANGED <<pending, fed>>
    /\ UNCHANGED <<step, call, opening, tcp, kind, op, left, window, sent, got, ended>>

End ==
    /\ Listening
    /\ ended' = TRUE
    /\ UNCHANGED <<step, call, opening, connections, kind, op, left, window, sent,
                   fed, pending, got, failed>>

\* The stream is reset, or the connection terminated: after a while also
\* because the proxy is out of reach.
Lost ==
    /\ ~ failed
    /\ (quic = "open" /\ step \in {"open", "use"}) \/ (step = "use" /\ kind = "h1")
    /\ failed' = TRUE
    /\ accepted' = IF accepted = "pending" THEN "refused" ELSE accepted
    /\ UNCHANGED <<step, call, fired, connections, kind, op, left, window, sent,
                   fed, pending, got, ended>>

\* The proxy can no longer be reached, or can again.
Outage ==
    /\ step # "idle"
    /\ gone' = ~ gone
    /\ UNCHANGED <<step, asked, enabled, late, opening, connections, tunnel>>

\* Mutant: the tunnel is not closed when the task is cancelled while it waits
\* for the answer to CONNECT.
CancelUnclosed ==
    /\ step # "idle" /\ ~ late
    /\ late' = TRUE
    /\ \/ step \in {"quic", "open"} /\ quic = "open" /\ CloseQuic
       \/ /\ step \in {"quic", "tcp", "head", "drain", "closing"}
          /\ ~ (step = "quic" /\ quic = "open")
          /\ step' = "idle" /\ UNCHANGED connections
       \/ step = "use" /\ (IF kind = "h3" THEN CloseQuic ELSE CloseTcp)
    /\ UNCHANGED <<asked, enabled, gone, opening, tunnel>>

\* The call is cancelled.  What is open is closed, but a second wait for the
\* closing is cut short.
Cancel ==
    /\ step # "idle" /\ ~ late
    /\ late' = TRUE
    /\ \/ step \in {"quic", "open"} /\ quic = "open" /\ CloseQuic
       \/ step = "head" /\ CloseTcp
       \/ step = "use" /\ (IF kind = "h3" THEN CloseQuic ELSE CloseTcp)
       \/ /\ step \in {"tcp", "drain", "closing"} \/ (step = "quic" /\ quic = "none")
          /\ step' = "idle" /\ UNCHANGED connections
    /\ UNCHANGED <<asked, enabled, gone, opening, tunnel>>

\* Mutant: the closing is awaited without a time limit.
ClosedByPeer ==
    /\ step = "closing" /\ ~ gone
    /\ step' = "idle"
    /\ UNCHANGED <<call, opening, connections, tunnel>>

\* The TCP connection has closed, or a second has passed.
Closed ==
    /\ step = "closing"
    /\ step' = "idle"
    /\ UNCHANGED <<call, opening, connections, tunnel>>

Next ==
    \/ Begin
    \/ QuicStart \/ QuicConnected \/ QuicOpened \/ QuicTimeout \/ Drained
    \/ TcpConnected \/ TcpFails \/ ConnectAnswered
    \/ UserLeaves \/ Send \/ Receive
    \/ Transmit \/ AwaitWindow \/ Take \/ AwaitData \/ OperationFails
    \/ QuicHeaders \/ Data \/ End \/ Lost \/ Outage
    \/ Cancel \/ Closed

\* A call has 10 s; a QUIC connection drains and a TCP one closes in bounded time.
Spec == Init /\ [][Next]_vars /\ WF_vars(Cancel) /\ WF_vars(Drained) /\ WF_vars(Closed)
-----------------------------------------------------------------------------
(***************************************************************************)
(* Correctness.                                                            *)
(***************************************************************************)
\* However a call ends, cancelled at whatever await, it leaves no connection
\* open; and it never holds two, the one over QUIC being closed before TCP.
NothingLeftOpen ==
    /\ quic = "open" => step \in {"quic", "open", "use"}
    /\ tcp = "open" => (step \in {"head", "use"} /\ quic # "open")

\* A host with HTTP/3 is tried over TCP only once the timer has ended its
\* opening over QUIC and the connection is closed: not after a refusal, an
\* error, a cancellation or a tunnel that was used.  HTTP/3 when asked for
\* never gives way.
FallbackOnlyAfterTimeout ==
    (step = "tcp" \/ tcp # "none") =>
        \/ asked = "h2"
        \/ asked = "auto" /\ (~ enabled \/ (fired /\ quic # "open" /\ kind # "h3"))

\* The tunnel hands out the bytes it received, each once and in order, also
\* those that came while it was sending, and never holds more than its limit
\* while it is in use.
BytesKept ==
    /\ pending = [i \in 1 .. fed - got |-> got + i]
    /\ step = "use" => Len(pending) <= Limit

\* A call ends, though the proxy may be out of reach from any moment on.
CallEnds == step # "idle" ~> step = "idle"
=============================================================================
