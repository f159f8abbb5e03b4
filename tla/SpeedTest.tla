----------------------------- MODULE SpeedTest ------------------------------
(***************************************************************************)
(* The speed test: the dialog of health.js, the streaming handler of       *)
(* main.py with its one-measurement-per-process flag, and the course of    *)
(* measure() in proxy_speed.py, reduced to the lines it publishes.         *)
(*                                                                         *)
(* The two ends are joined by an HTTP request.  The browser aborts it at   *)
(* once; the server learns of it later, in the middle of a measurement,    *)
(* while it closes its connections, or while it reports an error.          *)
(***************************************************************************)
EXTENDS Naturals, FiniteSets

CONSTANTS
    Tabs,           \* health pages
    Hosts,
    Requests,       \* POST requests, named again once both ends are through
    NoRequest, NoTab,
    Closed,         \* the dialog of a tab that shows none
    Stages          \* lines of a complete measurement: metadata, latency,
                    \* download, upload, complete

ASSUME NameAssumption == NoRequest \notin Requests /\ NoTab \notin Tabs /\ Closed \notin Hosts
ASSUME StagesAssumption == Stages \in Nat \ {0}

VARIABLES
    running,    \* settings["speed_test_running"]
    state,      \* where the handler of a request is
    why,        \* why it left run_speed_test, until it ends
    loop,       \* the submit handler of the page: "reading", "over"
    about,      \* the tab that sent the request, the host it measures, whether
                \* its controller is aborted, the stages published and read,
                \* and whether an error line follows them
    dialog,     \* the host whose dialog a tab shows
    active,     \* the dialog's controller, named by its request
    shown,      \* the host and the last stage of the values displayed
    status      \* the status line, as far as it reports an end

server == <<running, state, why>>
page == <<dialog, active, shown, status>>
vars == <<server, loop, about, page>>

Abouts == [owner : Tabs \cup {NoTab}, host : Hosts \cup {Closed}, aborted : BOOLEAN,
           lines : 0..Stages, read : 0..Stages, failed : BOOLEAN]
Unused == [owner |-> NoTab, host |-> Closed, aborted |-> FALSE, lines |-> 0, read |-> 0,
           failed |-> FALSE]
Measured == [host : Hosts, stage : 1..Stages]
Nothing == [host |-> Closed, stage |-> 0]

\* A request is forgotten once its handler and its reader are both through.
Settle(f) ==
    about' = [r \in Requests |-> IF state'[r] = "ended" /\ loop'[r] = "over"
                                 THEN Unused ELSE f[r]]

TypeOK ==
    /\ running \in BOOLEAN
    /\ state \in [Requests -> {"sent", "measuring", "closing", "publishing", "ended"}]
    /\ why \in [Requests -> {"none", "complete", "error", "gone"}]
    /\ loop \in [Requests -> {"reading", "over"}]
    /\ about \in [Requests -> Abouts]
    /\ dialog \in [Tabs -> Hosts \cup {Closed}]
    /\ active \in [Tabs -> Requests \cup {NoRequest}]
    /\ shown \in [Tabs -> Measured \cup {Nothing}]
    /\ status \in [Tabs -> {"ready", "progress", "failed", "stopped"}]

Init ==
    /\ running = FALSE
    /\ state = [r \in Requests |-> "ended"]
    /\ why = [r \in Requests |-> "none"]
    /\ loop = [r \in Requests |-> "over"]
    /\ about = [r \in Requests |-> Unused]
    /\ dialog = [d \in Tabs |-> Closed]
    /\ active = [d \in Tabs |-> NoRequest]
    /\ shown = [d \in Tabs |-> Nothing]
    /\ status = [d \in Tabs |-> "ready"]
-----------------------------------------------------------------------------
(***************************************************************************)
(* The dialog.                                                             *)
(***************************************************************************)
\* A click on a host's button: the dialog is modal, so none is open.
Open(d, h) ==
    /\ dialog[d] = Closed
    /\ dialog' = [dialog EXCEPT ![d] = h]
    /\ shown' = [shown EXCEPT ![d] = Nothing]
    /\ status' = [status EXCEPT ![d] = "ready"]
    /\ UNCHANGED <<server, loop, about, active>>

Submit(d) ==
    /\ dialog[d] # Closed /\ active[d] = NoRequest
    /\ \E r \in Requests :
          /\ state[r] = "ended" /\ loop[r] = "over"
          /\ state' = [state EXCEPT ![r] = "sent"]
          /\ loop' = [loop EXCEPT ![r] = "reading"]
          /\ about' = [about EXCEPT ![r] = [Unused EXCEPT !.owner = d, !.host = dialog[d]]]
          /\ active' = [active EXCEPT ![d] = r]
    /\ shown' = [shown EXCEPT ![d] = Nothing]
    /\ status' = [status EXCEPT ![d] = "progress"]
    /\ UNCHANGED <<running, why, dialog>>

AbortActive(d) ==
    about' = [r \in Requests |-> IF r = active[d] THEN [about[r] EXCEPT !.aborted = TRUE]
                                                  ELSE about[r]]

\* The stop button; what follows is in Rejected.
Stop(d) ==
    /\ active[d] # NoRequest
    /\ AbortActive(d)
    /\ UNCHANGED <<server, loop, page>>

\* Mutant: closing the dialog does not abort.
CloseDialogOnly(d) ==
    /\ dialog[d] # Closed
    /\ dialog' = [dialog EXCEPT ![d] = Closed]
    /\ active' = [active EXCEPT ![d] = NoRequest]
    /\ UNCHANGED <<server, loop, about, shown, status>>

CloseDialog(d) ==
    /\ dialog[d] # Closed
    /\ AbortActive(d)
    /\ dialog' = [dialog EXCEPT ![d] = Closed]
    /\ active' = [active EXCEPT ![d] = NoRequest]
    /\ UNCHANGED <<server, loop, shown, status>>

\* The page is left or reloaded: its scripts end and its connections close.
Leave(d) ==
    /\ loop' = [r \in Requests |-> IF about[r].owner = d THEN "over" ELSE loop[r]]
    /\ dialog' = [dialog EXCEPT ![d] = Closed]
    /\ active' = [active EXCEPT ![d] = NoRequest]
    /\ shown' = [shown EXCEPT ![d] = Nothing]
    /\ status' = [status EXCEPT ![d] = "ready"]
    /\ UNCHANGED server
    /\ Settle([r \in Requests |-> IF about[r].owner = d
                                  THEN [about[r] EXCEPT !.aborted = TRUE] ELSE about[r]])

\* Mutant: update() asks whether any controller is active.
SomeActive(r) == active[about[r].owner] # NoRequest

IsActive(r) == active[about[r].owner] = r

\* update() ignores a line unless its controller is the active one.  A loop
\* whose controller was aborted may still have a line to process.
ReadLine(r) ==
    /\ loop[r] = "reading" /\ about[r].read < about[r].lines
    /\ about' = [about EXCEPT ![r].read = @ + 1]
    /\ shown' = IF IsActive(r)
                THEN [shown EXCEPT ![about[r].owner] =
                                       [host |-> about[r].host, stage |-> about[r].read + 1]]
                ELSE shown
    /\ UNCHANGED <<server, loop, dialog, active, status>>

\* Mutants of LeaveLoop: only success frees the dialog; a failure resets the
\* values displayed.
LeaveLoopBusy(r, ending) ==
    /\ loop' = [loop EXCEPT ![r] = "over"]
    /\ IF IsActive(r)
       THEN /\ status' = [status EXCEPT ![about[r].owner] = ending]
            /\ active' = IF ending = "progress"
                         THEN [active EXCEPT ![about[r].owner] = NoRequest] ELSE active
       ELSE UNCHANGED <<status, active>>
    /\ UNCHANGED <<server, dialog, shown>>

LeaveLoopResetting(r, ending) ==
    /\ loop' = [loop EXCEPT ![r] = "over"]
    /\ IF IsActive(r)
       THEN /\ status' = [status EXCEPT ![about[r].owner] = ending]
            /\ active' = [active EXCEPT ![about[r].owner] = NoRequest]
            /\ shown' = [shown EXCEPT ![about[r].owner] = Nothing]
       ELSE UNCHANGED <<status, active, shown>>
    /\ UNCHANGED <<server, dialog>>

\* The handler leaves its loop: the catch and finally clauses.
LeaveLoop(r, ending) ==
    /\ loop' = [loop EXCEPT ![r] = "over"]
    /\ IF IsActive(r)
       THEN /\ status' = [status EXCEPT ![about[r].owner] = ending]
            /\ active' = [active EXCEPT ![about[r].owner] = NoRequest]
       ELSE UNCHANGED <<status, active>>
    /\ UNCHANGED <<server, dialog, shown>>

\* AbortError from fetch or from the reader.
Rejected(r) ==
    /\ loop[r] = "reading" /\ about[r].aborted
    /\ LeaveLoop(r, "stopped")
    /\ Settle(about)

\* The error line, which the page may read before the handler is through and
\* which may follow the last stage (its connections failed to close), or the end
\* of the response: after the last stage, or refused or cut short, which throws as
\* the error line does.  The catch clause aborts.
ReadEnd(r) ==
    /\ loop[r] = "reading" /\ state[r] \in {"publishing", "ended"}
    /\ about[r].read = about[r].lines
    /\ IF state[r] = "ended" /\ about[r].read = Stages /\ ~about[r].failed
       THEN LeaveLoop(r, "progress") /\ Settle(about)
       ELSE LeaveLoop(r, "failed") /\ Settle([about EXCEPT ![r].aborted = TRUE])
-----------------------------------------------------------------------------
(***************************************************************************)
(* The handler.  A step goes from one await to the next.                   *)
(***************************************************************************)
\* The finally clause; nothing is running in this process any more.  From
\* "publishing" it leaves an error line behind.
Finally(r) ==
    /\ state' = [state EXCEPT ![r] = "ended"]
    /\ why' = [why EXCEPT ![r] = "none"]
    /\ running' = FALSE
    /\ UNCHANGED <<loop, page>>
    /\ Settle([about EXCEPT ![r].failed = (state[r] = "publishing")])

\* Refused as unauthenticated or invalid.
Refuse(r) ==
    /\ state[r] = "sent"
    /\ state' = [state EXCEPT ![r] = "ended"]
    /\ UNCHANGED <<running, why, loop, page>>
    /\ Settle(about)

\* Refused because a measurement runs; otherwise the flag is set with no await
\* between.
Arrive(r) ==
    /\ state[r] = "sent"
    /\ IF running
       THEN Refuse(r)
       ELSE /\ state' = [state EXCEPT ![r] = "measuring"]
            /\ running' = TRUE
            /\ UNCHANGED <<why, loop, about, page>>

\* The requests of a stage succeed and its line is written.
Publish(r) ==
    /\ state[r] = "measuring" /\ about[r].lines < Stages
    /\ about' = [about EXCEPT ![r].lines = @ + 1]
    /\ UNCHANGED <<server, loop, page>>

\* run_speed_test is left, after its last stage or by an exception (a network
\* or protocol error, one of its timeouts, or publish on a closed stream).
\* Its context managers then close the connections.
LeaveTest(r, reason) ==
    /\ state[r] = "measuring"
    /\ state' = [state EXCEPT ![r] = "closing"]
    /\ why' = [why EXCEPT ![r] = reason]
    /\ UNCHANGED <<running, loop, about, page>>

Complete(r) == about[r].lines = Stages /\ LeaveTest(r, "complete")
Fail(r) == LeaveTest(r, "error")
StreamClosed(r) == about[r].aborted /\ LeaveTest(r, "gone")

\* Mutant: the flag is reset by the except clauses, and a cancellation passes
\* them by.
ConnectionsClosedFlagged(r) ==
    /\ state[r] = "closing"
    /\ CASE why[r] = "error" ->
              /\ state' = [state EXCEPT ![r] = "publishing"]
              /\ UNCHANGED <<running, why, loop, about, page>>
         [] why[r] = "gone" ->
              /\ state' = [state EXCEPT ![r] = "ended"]
              /\ why' = [why EXCEPT ![r] = "none"]
              /\ UNCHANGED <<running, loop, page>>
              /\ Settle(about)
         [] OTHER -> Finally(r)

ConnectionsClosed(r) ==
    /\ state[r] = "closing"
    /\ IF why[r] = "error"
       THEN /\ state' = [state EXCEPT ![r] = "publishing"]
            /\ UNCHANGED <<running, why, loop, about, page>>
       ELSE Finally(r)

\* publish({"stage": "error"}), whether or not the stream still takes it.
PublishError(r) == state[r] = "publishing" /\ Finally(r)

\* on_connection_close cancels the task wherever it waits: in the test or while
\* its connections close, or past both, in the error report.
Cancel(r) ==
    /\ about[r].aborted /\ state[r] \in {"measuring", "closing"} /\ why[r] # "gone"
    /\ state' = [state EXCEPT ![r] = "closing"]
    /\ why' = [why EXCEPT ![r] = "gone"]
    /\ UNCHANGED <<running, loop, about, page>>

\* Mutant: a cancellation of the error report skips the finally clause.
CancelReportFlagged(r) ==
    /\ about[r].aborted /\ state[r] = "publishing"
    /\ state' = [state EXCEPT ![r] = "ended"]
    /\ why' = [why EXCEPT ![r] = "none"]
    /\ UNCHANGED <<running, loop, page>>
    /\ Settle(about)

CancelReport(r) == about[r].aborted /\ state[r] = "publishing" /\ Finally(r)

Handler(r) ==
    \/ Refuse(r) \/ Arrive(r) \/ Publish(r) \/ Complete(r) \/ Fail(r) \/ StreamClosed(r)
    \/ ConnectionsClosed(r) \/ PublishError(r) \/ Cancel(r) \/ CancelReport(r)

Script(r) == ReadLine(r) \/ Rejected(r) \/ ReadEnd(r)

User(d) == (\E h \in Hosts : Open(d, h)) \/ Submit(d) \/ Stop(d)
           \/ CloseDialog(d) \/ Leave(d)

Next == \/ \E r \in Requests : Handler(r) \/ Script(r)
        \/ \E d \in Tabs : User(d)

Spec == Init /\ [][Next]_vars

\* Every await of the handler ends: a stage by its requests or by the timeouts
\* of 120 and 300 s, a QUIC close after 3 s.  Promises are settled in turn.
FairSpec == Spec /\ \A r \in Requests : WF_vars(Handler(r)) /\ WF_vars(Script(r))
-----------------------------------------------------------------------------
(***************************************************************************)
(* Correctness.                                                            *)
(***************************************************************************)
InTest == {r \in Requests : state[r] \in {"measuring", "closing", "publishing"}}

\* One measurement per process, and the flag says whether there is one: a
\* cancellation at any await, even in the error report, leaves it neither set
\* for ever nor cleared under a measurement that still runs.
OneMeasurement == Cardinality(InTest) <= 1
FlagTellsTruth == running <=> InTest # {}
FlagRight == OneMeasurement /\ FlagTellsTruth

\* A measurement that its browser has not aborted belongs to a dialog whose
\* stop button reaches it: closing, reopening and leaving orphan none.
EveryTestCanBeStopped ==
    \A r \in Requests : loop[r] = "reading" /\ ~about[r].aborted => IsActive(r)

\* The dialog is busy only while its request is read: it never waits for one
\* that is over, with its start button disabled.
BusyIsReading ==
    \A d \in Tabs : active[d] # NoRequest => loop[active[d]] = "reading"

\* The values displayed were measured for the host the dialog names, however
\* late the lines of an aborted request come.
ShownForItsHost ==
    \A d \in Tabs : (dialog[d] # Closed /\ shown[d] # Nothing) => shown[d].host = dialog[d]

\* Values once shown stay when a later stage fails or the test is stopped.
MetricsKept ==
    [][\A d \in Tabs : status'[d] # status[d] /\ status'[d] \in {"failed", "stopped"}
                          => shown'[d] = shown[d]]_vars

\* A running measurement ends, so that another may start, and a busy dialog
\* becomes usable again.
TestEnds == running ~> ~running
DialogFreed == \A d \in Tabs : active[d] # NoRequest ~> active[d] = NoRequest
=============================================================================
