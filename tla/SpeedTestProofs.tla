-------------------------- MODULE SpeedTestProofs ---------------------------
(***************************************************************************)
(* The flag of the speed test, for any number of tabs, hosts and requests. *)
(***************************************************************************)
EXTENDS SpeedTest, FiniteSetTheorems, TLAPS

States == {"sent", "measuring", "closing", "publishing", "ended"}

\* Two requests in a test are one, and the flag is set while there is one.
\* That alone is inductive: Arrive reads the flag, and only the request in the
\* test resets it.
IInv ==
    /\ state \in [Requests -> States] /\ running \in BOOLEAN
    /\ \A r, q \in InTest : r = q
    /\ FlagTellsTruth
-----------------------------------------------------------------------------
LEMMA InitInv == Init => IInv
  <1> SUFFICES ASSUME Init PROVE IInv
    OBVIOUS
  <1>1. state = [r \in Requests |-> "ended"] /\ running = FALSE
    BY DEF Init
  <1>2. InTest = {}
    BY <1>1 DEF InTest
  <1>3. QED
    BY <1>1, <1>2 DEF IInv, FlagTellsTruth, States

\* A step that leaves the flag and every request on its side of the test.
LEMMA Sides ==
  ASSUME IInv, running' = running, state' \in [Requests -> States],
         \A r \in Requests : state'[r] \in {"measuring", "closing", "publishing"}
                             <=> state[r] \in {"measuring", "closing", "publishing"}
  PROVE  IInv'
  BY DEF IInv, InTest, FlagTellsTruth

\* The end of a test, of which there is only one.
LEMMA Ending ==
  ASSUME IInv, NEW r \in Requests, r \in InTest, Finally(r)
  PROVE  IInv'
  <1>1. state' = [state EXCEPT ![r] = "ended"] /\ running' = FALSE
    BY DEF Finally
  <1>2. InTest' = {}
    BY <1>1 DEF IInv, InTest
  <1>3. QED
    BY <1>1, <1>2 DEF IInv, States, FlagTellsTruth

LEMMA StepInv == IInv /\ [Next]_vars => IInv'
  <1> SUFFICES ASSUME IInv, [Next]_vars PROVE IInv'
    OBVIOUS
  <1> USE DEF States
  <1>t. state \in [Requests -> States] /\ running \in BOOLEAN
    BY DEF IInv
  <1>1. ASSUME UNCHANGED server PROVE IInv'
    BY <1>1, <1>t, Sides DEF server
  <1>2. ASSUME NEW r \in Requests, Handler(r) PROVE IInv'
    <2>1. ASSUME Refuse(r) PROVE IInv'
      BY <1>t, <2>1, Sides DEF Refuse
    <2>2. CASE Arrive(r)
      <3>1. CASE running
        BY <2>1, <2>2, <3>1 DEF Arrive
      <3>2. CASE ~running
        <4>1. InTest = {} /\ state' = [state EXCEPT ![r] = "measuring"] /\ running' = TRUE
          BY <2>2, <3>2 DEF Arrive, IInv, FlagTellsTruth
        <4>2. InTest' = {r}
          BY <1>t, <4>1 DEF InTest
        <4>3. QED
          BY <1>t, <4>1, <4>2 DEF IInv, FlagTellsTruth
      <3>3. QED
        BY <1>t, <3>1, <3>2
    <2>3. CASE Publish(r)
      BY <1>1, <2>3 DEF Publish
    <2>4. ASSUME NEW reason, LeaveTest(r, reason) PROVE IInv'
      BY <1>t, <2>4, Sides DEF LeaveTest
    <2>5. CASE Complete(r) \/ Fail(r) \/ StreamClosed(r)
      BY <2>4, <2>5 DEF Complete, Fail, StreamClosed
    <2>6. CASE ConnectionsClosed(r)
      <3>1. CASE why[r] = "error"
        BY <1>t, <2>6, <3>1, Sides DEF ConnectionsClosed
      <3>2. CASE why[r] # "error"
        BY <2>6, <3>2, Ending DEF ConnectionsClosed, InTest
      <3>3. QED
        BY <3>1, <3>2
    <2>7. CASE PublishError(r)
      BY <2>7, Ending DEF PublishError, InTest
    <2>8. CASE Cancel(r)
      BY <1>t, <2>8, Sides DEF Cancel
    <2>9. CASE CancelReport(r)
      BY <2>9, Ending DEF CancelReport, InTest
    <2>10. QED
      BY <1>2, <2>1, <2>2, <2>3, <2>5, <2>6, <2>7, <2>8, <2>9 DEF Handler
  <1>3. ASSUME NEW r \in Requests, Script(r) PROVE IInv'
    BY <1>1, <1>3 DEF Script, ReadLine, Rejected, ReadEnd, LeaveLoop
  <1>4. ASSUME NEW d \in Tabs, Submit(d) PROVE IInv'
    <2>1. PICK r \in Requests : state[r] = "ended" /\ state' = [state EXCEPT ![r] = "sent"]
      BY <1>4 DEF Submit
    <2>2. running' = running
      BY <1>4 DEF Submit
    <2>3. QED
      BY <1>t, <2>1, <2>2, Sides
  <1>5. ASSUME NEW d \in Tabs, User(d), ~Submit(d) PROVE IInv'
    BY <1>1, <1>5 DEF User, Open, Stop, CloseDialog, Leave
  <1>6. CASE UNCHANGED vars
    BY <1>1, <1>6 DEF vars
  <1>7. QED
    BY <1>2, <1>3, <1>4, <1>5, <1>6 DEF Next
-----------------------------------------------------------------------------
THEOREM Invariance == Spec => []IInv
  BY InitInv, StepInv, PTL DEF Spec

\* At most one measurement runs in the process, and the flag says whether one
\* does, however many pages ask, stop, close and are cut off.
THEOREM FlagCorrect == Spec => []FlagRight
  <1>1. IInv => FlagRight
    <2> SUFFICES ASSUME IInv PROVE OneMeasurement
      BY DEF IInv, FlagRight
    <2>1. CASE InTest = {}
      BY <2>1, FS_EmptySet DEF OneMeasurement
    <2>2. CASE InTest # {}
      <3>1. PICK r \in InTest : TRUE
        BY <2>2
      <3>2. InTest = {r}
        <4>1. \A q \in InTest : q = r
          BY <3>1 DEF IInv
        <4>2. QED
          BY <3>1, <4>1
      <3>3. Cardinality({r}) = 1
        BY FS_Singleton
      <3>4. QED
        BY <3>2, <3>3 DEF OneMeasurement
    <2>3. QED
      BY <2>1, <2>2
  <1>2. QED
    BY <1>1, Invariance, PTL
-----------------------------------------------------------------------------
(***************************************************************************)
(* The dialog: what a tab calls active is a request it reads, sent for the *)
(* host it shows, and every request read is active or aborted.             *)
(***************************************************************************)
DialogInv ==
    /\ TypeOK
    /\ \A d \in Tabs : active[d] # NoRequest =>
          /\ loop[active[d]] = "reading" /\ about[active[d]].owner = d
          /\ dialog[d] # Closed /\ about[active[d]].host = dialog[d]
    /\ \A r \in Requests : loop[r] = "reading" =>
          about[r].owner \in Tabs /\ about[r].host \in Hosts
    /\ EveryTestCanBeStopped
    /\ ShownForItsHost

\* What a request carries keeps its type when it is aborted or read on.
LEMMA EditedAbout ==
  ASSUME NEW a \in Abouts
  PROVE  /\ [a EXCEPT !.aborted = TRUE] \in Abouts
         /\ \A b \in BOOLEAN : [a EXCEPT !.failed = b] \in Abouts
         /\ \A n \in 0 .. Stages : /\ [a EXCEPT !.lines = n] \in Abouts
                                   /\ [a EXCEPT !.read = n] \in Abouts
  BY DEF Abouts

LEMMA UnusedType ==
  /\ Unused \in Abouts /\ Unused.read = 0 /\ Unused.lines = 0
  /\ Nothing.host = Closed
  BY StagesAssumption DEF Unused, Abouts, Nothing

\* Settling forgets requests that nobody reads.
LEMMA SettleFacts ==
  ASSUME NEW f \in [Requests -> Abouts], Settle(f)
  PROVE  /\ about' \in [Requests -> Abouts]
         /\ \A r \in Requests : loop'[r] = "reading" => about'[r] = f[r]
  BY UnusedType DEF Settle

\* A step of the server: no tab sees it but by the lines published.
LEMMA ServerStep ==
  ASSUME DialogInv, UNCHANGED <<loop, page>>, running' \in BOOLEAN,
         state' \in [Requests -> States],
         why' \in [Requests -> {"none", "complete", "error", "gone"}],
         about' \in [Requests -> Abouts],
         \A r \in Requests : loop'[r] = "reading" =>
            /\ about'[r].owner = about[r].owner /\ about'[r].host = about[r].host
            /\ about'[r].aborted = about[r].aborted
  PROVE  DialogInv'
  BY DEF DialogInv, TypeOK, EveryTestCanBeStopped, ShownForItsHost, IsActive, page, States

LEMMA HandlerKeeps ==
  ASSUME DialogInv, NEW r \in Requests, Handler(r)
  PROVE  DialogInv'
  <1> USE DEF States
  <1>t. TypeOK
    BY DEF DialogInv
  <1>1. ASSUME Finally(r) PROVE DialogInv'
    <2> DEFINE told == [about EXCEPT ![r].failed = (state[r] = "publishing")]
    <2>1. told \in [Requests -> Abouts] /\ Settle(told)
      <3>1. about[r] \in Abouts /\ about \in [Requests -> Abouts]
        BY <1>t DEF TypeOK
      <3>2. [about[r] EXCEPT !.failed = (state[r] = "publishing")] \in Abouts
        BY <3>1, EditedAbout
      <3>3. told \in [Requests -> Abouts]
        BY <3>1, <3>2
      <3>4. Settle(told)
        BY <1>1 DEF Finally
      <3>5. QED
        BY <3>3, <3>4
    <2>2. \A q \in Requests : /\ told[q].owner = about[q].owner
                              /\ told[q].host = about[q].host
                              /\ told[q].aborted = about[q].aborted
      BY <1>t DEF TypeOK, Abouts
    <2> HIDE DEF told
    <2>3. /\ about' \in [Requests -> Abouts]
          /\ \A q \in Requests : loop'[q] = "reading" => about'[q] = told[q]
      BY <2>1, SettleFacts
    <2>4. QED
      BY <1>1, <1>t, <2>2, <2>3, ServerStep DEF Finally, TypeOK
  <1>2. ASSUME Refuse(r) PROVE DialogInv'
    <2>1. about \in [Requests -> Abouts] /\ Settle(about)
      BY <1>2, <1>t DEF Refuse, TypeOK
    <2>2. QED
      BY <1>2, <1>t, <2>1, SettleFacts, ServerStep DEF Refuse, TypeOK
  <1>3. CASE Arrive(r)
    <2>1. CASE running
      BY <1>2, <1>3, <2>1 DEF Arrive
    <2>2. CASE ~running
      BY <1>3, <1>t, <2>2, ServerStep DEF Arrive, TypeOK
    <2>3. QED
      BY <1>t, <2>1, <2>2 DEF TypeOK
  <1>4. CASE Publish(r)
    <2>1. about' = [about EXCEPT ![r].lines = @ + 1] /\ about[r].lines < Stages
      BY <1>4 DEF Publish
    <2>2. about[r] \in Abouts /\ about[r].lines + 1 \in 0..Stages
      BY <1>t, <2>1, StagesAssumption DEF TypeOK, Abouts
    <2>3. about' \in [Requests -> Abouts]
      <3>1. [about[r] EXCEPT !.lines = about[r].lines + 1] \in Abouts
        BY <2>2, EditedAbout
      <3>2. QED
        BY <1>t, <2>1, <3>1 DEF TypeOK
    <2>4. \A q \in Requests : /\ about'[q].owner = about[q].owner
                              /\ about'[q].host = about[q].host
                              /\ about'[q].aborted = about[q].aborted
      BY <1>t, <2>1 DEF TypeOK, Abouts
    <2>5. QED
      BY <1>4, <1>t, <2>3, <2>4, ServerStep DEF Publish, TypeOK, server
  <1>5. ASSUME NEW reason \in {"complete", "error", "gone"}, LeaveTest(r, reason)
        PROVE  DialogInv'
    BY <1>5, <1>t, ServerStep DEF LeaveTest, TypeOK
  <1>6. CASE Complete(r) \/ Fail(r) \/ StreamClosed(r)
    BY <1>5, <1>6 DEF Complete, Fail, StreamClosed
  <1>7. CASE ConnectionsClosed(r)
    <2>1. CASE why[r] = "error"
      BY <1>7, <1>t, <2>1, ServerStep DEF ConnectionsClosed, TypeOK
    <2>2. CASE why[r] # "error"
      BY <1>1, <1>7, <2>2 DEF ConnectionsClosed
    <2>3. QED
      BY <2>1, <2>2
  <1>8. CASE Cancel(r)
    BY <1>8, <1>t, ServerStep DEF Cancel, TypeOK
  <1>9. CASE PublishError(r) \/ CancelReport(r)
    BY <1>1, <1>9 DEF PublishError, CancelReport
  <1>10. QED
    BY <1>2, <1>3, <1>4, <1>6, <1>7, <1>8, <1>9 DEF Handler

LEMMA LeavingKeeps ==
  ASSUME DialogInv, NEW r \in Requests, loop[r] = "reading",
         NEW ending \in {"progress", "failed", "stopped"}, LeaveLoop(r, ending),
         NEW f \in [Requests -> Abouts], Settle(f),
         \A q \in Requests \ {r} : f[q] = about[q]
  PROVE  DialogInv'
  <1>t. TypeOK
    BY DEF DialogInv
  <1>1. /\ about' \in [Requests -> Abouts]
        /\ loop' = [loop EXCEPT ![r] = "over"]
        /\ \A q \in Requests : loop'[q] = "reading" =>
              q # r /\ loop[q] = "reading" /\ about'[q] = about[q]
    BY <1>t, SettleFacts DEF LeaveLoop, TypeOK
  <1>2. /\ UNCHANGED <<server, dialog, shown>> /\ about[r].owner \in Tabs
        /\ active' = [active EXCEPT ![about[r].owner] =
                         IF IsActive(r) THEN NoRequest ELSE @]
        /\ status' \in [Tabs -> {"ready", "progress", "failed", "stopped"}]
    BY <1>t DEF LeaveLoop, DialogInv, TypeOK, IsActive
  <1>3. \A d \in Tabs : active'[d] # NoRequest => active'[d] = active[d] /\ active[d] # r
    BY <1>t, <1>2 DEF DialogInv, IsActive, TypeOK
  <1>4. \A q \in Requests : loop'[q] = "reading" /\ ~about'[q].aborted => IsActive(q)'
    BY <1>t, <1>1, <1>2 DEF DialogInv, EveryTestCanBeStopped, IsActive, TypeOK
  <1>5. TypeOK'
    BY <1>t, <1>1, <1>2 DEF TypeOK, server
  <1>6. QED
    BY <1>t, <1>1, <1>2, <1>3, <1>4, <1>5
       DEF DialogInv, EveryTestCanBeStopped, ShownForItsHost, TypeOK

LEMMA ScriptKeeps ==
  ASSUME DialogInv, NEW r \in Requests, Script(r)
  PROVE  DialogInv'
  <1>t. TypeOK
    BY DEF DialogInv
  <1>1. CASE ReadLine(r)
    <2>1. about' = [about EXCEPT ![r].read = @ + 1] /\ about[r].read < about[r].lines
      BY <1>1 DEF ReadLine
    <2>2. about[r] \in Abouts /\ about[r].read + 1 \in 1..Stages
      BY <1>t, <2>1, StagesAssumption DEF TypeOK, Abouts
    <2>3. /\ about' \in [Requests -> Abouts]
          /\ \A q \in Requests : /\ about'[q].owner = about[q].owner
                                 /\ about'[q].host = about[q].host
                                 /\ about'[q].aborted = about[q].aborted
      <3>1. about' \in [Requests -> Abouts]
        <4>1. about[r].read + 1 \in 0 .. Stages
          BY <2>2, StagesAssumption
        <4>2. [about[r] EXCEPT !.read = about[r].read + 1] \in Abouts
          BY <2>2, <4>1, EditedAbout
        <4>3. QED
          BY <1>t, <2>1, <4>2 DEF TypeOK
      <3>2. \A q \in Requests : /\ about'[q].owner = about[q].owner
                                /\ about'[q].host = about[q].host
                                /\ about'[q].aborted = about[q].aborted
        BY <1>t, <2>1, <2>2 DEF TypeOK, Abouts
      <3>3. QED
        BY <3>1, <3>2
    <2>4. UNCHANGED <<server, loop, dialog, active, status>>
      BY <1>1 DEF ReadLine
    <2>5. about[r].owner \in Tabs /\ about[r].host \in Hosts
      BY <1>1 DEF ReadLine, DialogInv
    <2>6. \/ shown' = shown
          \/ /\ IsActive(r)
             /\ shown' = [shown EXCEPT ![about[r].owner] =
                             [host |-> about[r].host, stage |-> about[r].read + 1]]
      BY <1>1 DEF ReadLine
    <2>7. shown' \in [Tabs -> Measured \cup {Nothing}]
      BY <1>t, <2>2, <2>5, <2>6 DEF TypeOK, Measured
    <2>8. ShownForItsHost'
      <3>1. CASE shown' = shown
        BY <2>4, <3>1 DEF DialogInv, ShownForItsHost
      <3>2. CASE IsActive(r) /\ shown' # shown
        <4>1. about[r].host = dialog[about[r].owner]
          BY <2>5, <3>2, NameAssumption DEF DialogInv, IsActive
        <4>2. QED
          BY <1>t, <2>4, <2>5, <2>6, <3>2, <4>1 DEF DialogInv, ShownForItsHost, TypeOK
      <3>3. QED
        BY <2>6, <3>1, <3>2
    <2>9. QED
      BY <1>t, <2>3, <2>4, <2>7, <2>8
         DEF DialogInv, TypeOK, EveryTestCanBeStopped, IsActive, server
  <1>2. CASE Rejected(r)
    BY <1>2, <1>t, LeavingKeeps DEF Rejected, TypeOK
  <1>3. CASE ReadEnd(r)
    <2> DEFINE aborted == [about EXCEPT ![r].aborted = TRUE]
    <2>1. about \in [Requests -> Abouts] /\ aborted \in [Requests -> Abouts]
      <3>1. about \in [Requests -> Abouts] /\ about[r] \in Abouts
        BY <1>t DEF TypeOK
      <3>2. [about[r] EXCEPT !.aborted = TRUE] \in Abouts
        BY <3>1, EditedAbout
      <3>3. QED
        BY <3>1, <3>2
    <2>2. \A q \in Requests \ {r} : aborted[q] = about[q]
      BY <1>t DEF TypeOK
    <2>3. loop[r] = "reading"
      BY <1>3 DEF ReadEnd
    <2>4. \/ LeaveLoop(r, "progress") /\ Settle(about)
          \/ LeaveLoop(r, "failed") /\ Settle(aborted)
      BY <1>3 DEF ReadEnd
    <2> HIDE DEF aborted
    <2>5. QED
      BY <2>1, <2>2, <2>3, <2>4, LeavingKeeps
  <1>4. QED
    BY <1>1, <1>2, <1>3 DEF Script

LEMMA UserKeeps ==
  ASSUME DialogInv, NEW d \in Tabs, User(d)
  PROVE  DialogInv'
  <1> USE NameAssumption
  <1>t. TypeOK
    BY DEF DialogInv
  <1>a. ASSUME AbortActive(d)
        PROVE  /\ about' \in [Requests -> Abouts]
               /\ \A q \in Requests : /\ about'[q].owner = about[q].owner
                                      /\ about'[q].host = about[q].host
                                      /\ q # active[d] => about'[q] = about[q]
                                      /\ q = active[d] => about'[q].aborted
    <2> DEFINE cut(q) == [about[q] EXCEPT !.aborted = TRUE]
    <2>1. \A q \in Requests : about[q] \in Abouts
      BY <1>t DEF TypeOK
    <2>2. \A q \in Requests : /\ cut(q) \in Abouts /\ cut(q).owner = about[q].owner
                              /\ cut(q).host = about[q].host /\ cut(q).aborted
      BY <2>1 DEF Abouts
    <2> HIDE DEF cut
    <2>3. about' = [q \in Requests |-> IF q = active[d] THEN cut(q) ELSE about[q]]
      BY <1>a DEF AbortActive, cut
    <2>4. QED
      BY <2>1, <2>2, <2>3
  <1>1. ASSUME NEW h \in Hosts, Open(d, h) PROVE DialogInv'
    <2>1. active[d] = NoRequest
      BY <1>1 DEF Open, DialogInv
    <2>2. QED
      BY <1>1, <1>t, <2>1, UnusedType DEF Open, DialogInv, TypeOK, EveryTestCanBeStopped,
         ShownForItsHost, IsActive, server
  <1>2. CASE Submit(d)
    <2>1. PICK r \in Requests :
            /\ state[r] = "ended" /\ loop[r] = "over"
            /\ state' = [state EXCEPT ![r] = "sent"]
            /\ loop' = [loop EXCEPT ![r] = "reading"]
            /\ about' = [about EXCEPT ![r] = [Unused EXCEPT !.owner = d, !.host = dialog[d]]]
            /\ active' = [active EXCEPT ![d] = r]
      BY <1>2 DEF Submit
    <2>2. /\ dialog[d] \in Hosts /\ UNCHANGED <<running, why, dialog>>
          /\ shown' = [shown EXCEPT ![d] = Nothing]
          /\ status' = [status EXCEPT ![d] = "progress"]
          /\ active[d] = NoRequest
      BY <1>2, <1>t DEF Submit, TypeOK
    <2>3. /\ about' \in [Requests -> Abouts] /\ about'[r].owner = d
          /\ about'[r].host = dialog[d]
          /\ \A q \in Requests \ {r} : about'[q] = about[q] /\ loop'[q] = loop[q]
      BY <1>t, <2>1, <2>2, UnusedType DEF TypeOK, Abouts, Unused
    <2>4. TypeOK'
      BY <1>t, <2>1, <2>2, <2>3 DEF TypeOK
    <2>5. \A e \in Tabs : active'[e] # NoRequest =>
            \/ e = d /\ active'[e] = r
            \/ e # d /\ active'[e] = active[e] /\ active[e] # r
      BY <1>t, <2>1 DEF TypeOK, DialogInv
    <2>6. \A q \in Requests : loop'[q] = "reading" /\ ~about'[q].aborted => IsActive(q)'
      BY <1>t, <2>1, <2>2, <2>3 DEF TypeOK, DialogInv, EveryTestCanBeStopped, IsActive
    <2>7. ShownForItsHost'
      BY <1>t, <2>2 DEF TypeOK, DialogInv, ShownForItsHost
    <2>8. \A e \in Tabs : active'[e] # NoRequest =>
            /\ loop'[active'[e]] = "reading" /\ about'[active'[e]].owner = e
            /\ dialog'[e] # Closed /\ about'[active'[e]].host = dialog'[e]
      BY <1>t, <2>1, <2>2, <2>3, <2>5 DEF TypeOK, DialogInv
    <2>9. \A q \in Requests : loop'[q] = "reading" =>
            about'[q].owner \in Tabs /\ about'[q].host \in Hosts
      BY <1>t, <2>1, <2>2, <2>3 DEF TypeOK, DialogInv
    <2>10. QED
      BY <2>4, <2>6, <2>7, <2>8, <2>9 DEF DialogInv, EveryTestCanBeStopped
  <1>3. CASE Stop(d)
    BY <1>3, <1>a, <1>t DEF Stop, DialogInv, TypeOK, EveryTestCanBeStopped, ShownForItsHost,
       IsActive, server, page
  <1>4. CASE CloseDialog(d)
    BY <1>4, <1>a, <1>t DEF CloseDialog, DialogInv, TypeOK, EveryTestCanBeStopped,
       ShownForItsHost, IsActive, server
  <1>5. CASE Leave(d)
    <2> DEFINE left == [r \in Requests |-> IF about[r].owner = d
                           THEN [about[r] EXCEPT !.aborted = TRUE] ELSE about[r]]
    <2>1. left \in [Requests -> Abouts] /\ Settle(left)
      <3>1. \A q \in Requests : about[q] \in Abouts
        BY <1>t DEF TypeOK
      <3>2. \A q \in Requests : [about[q] EXCEPT !.aborted = TRUE] \in Abouts
        BY <3>1, EditedAbout
      <3>3. left \in [Requests -> Abouts]
        BY <3>1, <3>2
      <3>4. Settle(left)
        BY <1>5 DEF Leave
      <3>5. QED
        BY <3>3, <3>4
    <2>2. \A q \in Requests : about[q].owner # d => left[q] = about[q]
      OBVIOUS
    <2> HIDE DEF left
    <2>3. /\ loop' = [r \in Requests |-> IF about[r].owner = d THEN "over" ELSE loop[r]]
          /\ dialog' = [dialog EXCEPT ![d] = Closed]
          /\ active' = [active EXCEPT ![d] = NoRequest]
          /\ shown' = [shown EXCEPT ![d] = Nothing]
          /\ status' = [status EXCEPT ![d] = "ready"]
          /\ UNCHANGED server
      BY <1>5 DEF Leave
    <2>4. /\ about' \in [Requests -> Abouts]
          /\ \A q \in Requests : loop'[q] = "reading" =>
                loop[q] = "reading" /\ about[q].owner # d /\ about'[q] = about[q]
      BY <2>1, <2>2, <2>3, SettleFacts
    <2>5. TypeOK'
      BY <1>t, <2>3, <2>4 DEF TypeOK, server
    <2>6. \A e \in Tabs : active'[e] # NoRequest =>
            /\ e # d /\ active'[e] = active[e] /\ loop'[active[e]] = "reading"
            /\ dialog'[e] = dialog[e] /\ about'[active[e]] = about[active[e]]
      BY <1>t, <2>3, <2>4 DEF TypeOK, DialogInv
    <2>7. \A q \in Requests : loop'[q] = "reading" /\ ~about'[q].aborted => IsActive(q)'
      BY <1>t, <2>3, <2>4 DEF TypeOK, DialogInv, EveryTestCanBeStopped, IsActive
    <2>8. ShownForItsHost'
      BY <1>t, <2>3 DEF TypeOK, DialogInv, ShownForItsHost
    <2>9. QED
      BY <2>4, <2>5, <2>6, <2>7, <2>8 DEF DialogInv, EveryTestCanBeStopped
  <1>6. QED
    BY <1>1, <1>2, <1>3, <1>4, <1>5 DEF User

LEMMA DialogInvariance == Spec => []DialogInv
  <1>1. Init => DialogInv
    <2> SUFFICES ASSUME Init PROVE DialogInv
      OBVIOUS
    <2>1. TypeOK
      BY UnusedType DEF Init, TypeOK
    <2>2. EveryTestCanBeStopped /\ ShownForItsHost
      BY DEF Init, EveryTestCanBeStopped, ShownForItsHost
    <2>3. QED
      BY <2>1, <2>2 DEF Init, DialogInv
  <1>2. DialogInv /\ [Next]_vars => DialogInv'
    <2> SUFFICES ASSUME DialogInv, [Next]_vars PROVE DialogInv'
      OBVIOUS
    <2>1. CASE UNCHANGED vars
      BY <2>1 DEF vars, server, page, DialogInv, TypeOK, EveryTestCanBeStopped,
         ShownForItsHost, IsActive
    <2>2. QED
      BY <2>1, HandlerKeeps, ScriptKeeps, UserKeeps DEF Next
  <1>3. QED
    BY <1>1, <1>2, PTL DEF Spec

\* The submit handler, the stop button and the close handler of health.js leave
\* no measurement running that its dialog cannot stop, for any number of tabs.
THEOREM StopReaches == Spec => []EveryTestCanBeStopped
  <1>1. DialogInv => EveryTestCanBeStopped
    BY DEF DialogInv
  <1>2. QED
    BY <1>1, DialogInvariance, PTL

\* A dialog never waits for a request that is over: the start button is enabled
\* again by whatever ends the loop.
THEOREM BusyReads == Spec => []BusyIsReading
  <1>1. DialogInv => BusyIsReading
    BY DEF DialogInv, BusyIsReading
  <1>2. QED
    BY <1>1, DialogInvariance, PTL

\* update() shows a line in the dialog it was measured for, or not at all.
THEOREM ShowsItsHost == Spec => []ShownForItsHost
  <1>1. DialogInv => ShownForItsHost
    BY DEF DialogInv
  <1>2. QED
    BY <1>1, DialogInvariance, PTL

\* A failed or stopped test leaves the values of its earlier stages displayed.
THEOREM ValuesStay == Spec => MetricsKept
  <1> DEFINE Kept == \A d \in Tabs :
                        status'[d] # status[d] /\ status'[d] \in {"failed", "stopped"}
                           => shown'[d] = shown[d]
  <1>1. DialogInv /\ [Next]_vars => Kept
    <2> SUFFICES ASSUME DialogInv, [Next]_vars, NEW d \in Tabs, status'[d] # status[d],
                        status'[d] \in {"failed", "stopped"}
                 PROVE  shown'[d] = shown[d]
      OBVIOUS
    <2>1. ASSUME NEW r \in Requests, Handler(r) PROVE FALSE
      BY <2>1 DEF Handler, Refuse, Arrive, Publish, Complete, Fail, StreamClosed, LeaveTest,
         ConnectionsClosed, PublishError, Cancel, CancelReport, Finally, page
    <2>2. ASSUME NEW r \in Requests, Script(r) PROVE status' = status \/ shown' = shown
      <3>1. ASSUME NEW ending, LeaveLoop(r, ending) PROVE shown' = shown
        BY <3>1 DEF LeaveLoop
      <3>2. CASE ReadLine(r)
        BY <3>2 DEF ReadLine
      <3>3. CASE Rejected(r) \/ ReadEnd(r)
        BY <3>1, <3>3 DEF Rejected, ReadEnd
      <3>4. QED
        BY <2>2, <3>2, <3>3 DEF Script
    <2>3. ASSUME NEW e \in Tabs, User(e) PROVE FALSE
      BY <2>3 DEF User, Open, Submit, Stop, CloseDialog, Leave, DialogInv, TypeOK, page
    <2>4. QED
      BY <2>1, <2>2, <2>3 DEF Next, vars, page
  <1>2. QED
    BY <1>1, DialogInvariance, PTL DEF Spec, MetricsKept

\* The types of the handlers, the requests and the pages.
THEOREM TypeCorrect == Spec => []TypeOK
  <1>1. DialogInv => TypeOK
    BY DEF DialogInv
  <1>2. QED
    BY <1>1, DialogInvariance, PTL
-----------------------------------------------------------------------------
(***************************************************************************)
(* The course of a request.                                                *)
(***************************************************************************)
Way == [sent |-> 1, measuring |-> 2, closing |-> 3, publishing |-> 4, ended |-> 5]

\* The handler of r takes no step, or goes on: it publishes another line, is cut
\* off while it closes its connections, which happens once, or gets further.
Onward(r) ==
    \/ state'[r] = state[r] /\ why'[r] = why[r] /\ about'[r].lines = about[r].lines
    \/ state[r] = "measuring" /\ state'[r] = "measuring" /\ about[r].lines < about'[r].lines
    \/ state[r] = "closing" /\ state'[r] = "closing" /\ why[r] # "gone" /\ why'[r] = "gone"
    \/ Way[state[r]] < Way[state'[r]]

\* A test of HealthSpeedHandler never goes back and has a bounded number of lines
\* to publish, whatever the page does: only an await could hold the flag for ever.
THEOREM TestAdvances ==
  Spec => [][\A r \in Requests : state[r] # "ended" => Onward(r)]_vars
  <1> DEFINE Advances == \A r \in Requests : state[r] # "ended" => Onward(r)
  <1>1. ASSUME DialogInv, Next PROVE Advances
    <2>t. TypeOK
      BY <1>1 DEF DialogInv
    <2>s. ASSUME NEW q \in Requests, NEW f \in [Requests -> Abouts], Settle(f),
                 state'[q] # "ended"
          PROVE  about'[q] = f[q]
      BY <2>s DEF Settle
    <2>1. ASSUME NEW r \in Requests, NEW to \in {"sent", "measuring", "closing",
                                                 "publishing", "ended"},
                 state' = [state EXCEPT ![r] = to], Way[state[r]] < Way[to],
                 \A q \in Requests \ {r} : why'[q] = why[q],
                 \/ about' = about
                 \/ \E f \in [Requests -> Abouts] :
                       Settle(f) /\ \A q \in Requests \ {r} : f[q] = about[q]
          PROVE  Advances
      <3> SUFFICES ASSUME NEW q \in Requests, state[q] # "ended" PROVE Onward(q)
        OBVIOUS
      <3>1. CASE q = r
        BY <2>1, <2>t, <3>1 DEF Onward, TypeOK
      <3>2. CASE q # r
        <4>1. state'[q] = state[q] /\ why'[q] = why[q]
          BY <2>1, <2>t, <3>2 DEF TypeOK
        <4>2. about'[q] = about[q]
          <5>1. CASE about' = about
            BY <5>1
          <5>2. CASE about' # about
            <6>1. PICK f \in [Requests -> Abouts] :
                     Settle(f) /\ \A p \in Requests \ {r} : f[p] = about[p]
              BY <2>1, <5>2
            <6>2. state'[q] # "ended"
              BY <4>1
            <6>3. about'[q] = f[q]
              BY <2>s, <6>1, <6>2
            <6>4. QED
              BY <3>2, <6>1, <6>3
          <5>3. QED
            BY <5>1, <5>2
        <4>3. QED
          BY <4>1, <4>2 DEF Onward
      <3>3. QED
        BY <3>1, <3>2
    <2>2. ASSUME NEW r \in Requests, Finally(r), state[r] \in {"closing", "publishing"}
          PROVE  Advances
      <3> DEFINE told == [about EXCEPT ![r].failed = (state[r] = "publishing")]
      <3>1. /\ state' = [state EXCEPT ![r] = "ended"] /\ Settle(told)
            /\ \A q \in Requests \ {r} : why'[q] = why[q]
        BY <2>2, <2>t DEF Finally, TypeOK
      <3>2. Way[state[r]] < Way["ended"]
        BY <2>2 DEF Way
      <3>3. told \in [Requests -> Abouts] /\ \A q \in Requests \ {r} : told[q] = about[q]
        <4>1. about[r] \in Abouts /\ about \in [Requests -> Abouts]
          BY <2>t DEF TypeOK
        <4>2. [about[r] EXCEPT !.failed = (state[r] = "publishing")] \in Abouts
          BY <4>1, EditedAbout
        <4>3. QED
          BY <4>1, <4>2
      <3> HIDE DEF told
      <3>4. QED
        BY <2>1, <3>1, <3>2, <3>3
    <2>3. ASSUME NEW r \in Requests, Refuse(r) PROVE Advances
      <3>1. Way[state[r]] < Way["ended"]
        BY <2>3 DEF Refuse, Way
      <3>2. about \in [Requests -> Abouts] /\ Settle(about)
        BY <2>3, <2>t DEF Refuse, TypeOK
      <3>3. QED
        BY <2>1, <2>3, <3>1, <3>2 DEF Refuse
    <2>4. ASSUME NEW r \in Requests, Arrive(r) PROVE Advances
      <3>1. Way[state[r]] < Way["measuring"]
        BY <2>4 DEF Arrive, Way
      <3>2. QED
        BY <2>1, <2>3, <2>4, <3>1 DEF Arrive
    <2>5. ASSUME NEW r \in Requests, Publish(r) PROVE Advances
      <3>1. state' = state /\ why' = why /\ state[r] = "measuring"
        BY <2>5 DEF Publish, server
      <3>2. about'[r].lines = about[r].lines + 1 /\ about[r].lines \in 0 .. Stages
        BY <2>5, <2>t DEF Publish, TypeOK, Abouts
      <3>3. \A q \in Requests \ {r} : about'[q] = about[q]
        BY <2>5, <2>t DEF Publish, TypeOK
      <3>4. about[r].lines < about'[r].lines
        BY <3>2, StagesAssumption
      <3>5. QED
        BY <3>1, <3>3, <3>4 DEF Onward
    <2>6. ASSUME NEW r \in Requests, NEW reason, LeaveTest(r, reason) PROVE Advances
      <3>1. /\ state' = [state EXCEPT ![r] = "closing"] /\ about' = about
            /\ \A q \in Requests \ {r} : why'[q] = why[q]
        BY <2>6, <2>t DEF LeaveTest, TypeOK
      <3>2. Way[state[r]] < Way["closing"]
        BY <2>6 DEF LeaveTest, Way
      <3>3. QED
        BY <2>1, <3>1, <3>2
    <2>7. ASSUME NEW r \in Requests, ConnectionsClosed(r) PROVE Advances
      <3>1. CASE why[r] = "error"
        <4>1. Way[state[r]] < Way["publishing"]
          BY <2>7 DEF ConnectionsClosed, Way
        <4>2. QED
          BY <2>1, <2>7, <3>1, <4>1 DEF ConnectionsClosed
      <3>2. CASE why[r] # "error"
        BY <2>2, <2>7, <3>2 DEF ConnectionsClosed
      <3>3. QED
        BY <3>1, <3>2
    <2>8. ASSUME NEW r \in Requests, Cancel(r) PROVE Advances
      <3>1. /\ state' = [state EXCEPT ![r] = "closing"] /\ about' = about
            /\ why' = [why EXCEPT ![r] = "gone"] /\ why[r] # "gone"
            /\ state[r] \in {"measuring", "closing"}
        BY <2>8 DEF Cancel
      <3>2. \A q \in Requests \ {r} : state'[q] = state[q] /\ why'[q] = why[q]
        BY <2>t, <3>1 DEF TypeOK
      <3>3. state'[r] = "closing" /\ why'[r] = "gone"
        BY <2>t, <3>1 DEF TypeOK
      <3>4. Onward(r)
        BY <3>1, <3>3 DEF Onward, Way
      <3>5. QED
        BY <3>1, <3>2, <3>4 DEF Onward
    <2>9. ASSUME NEW r \in Requests, Handler(r) PROVE Advances
      <3>1. CASE PublishError(r) \/ CancelReport(r)
        BY <2>2, <3>1 DEF PublishError, CancelReport
      <3>2. CASE Complete(r) \/ Fail(r) \/ StreamClosed(r)
        BY <2>6, <3>2 DEF Complete, Fail, StreamClosed
      <3>3. QED
        BY <2>3, <2>4, <2>5, <2>7, <2>8, <2>9, <3>1, <3>2 DEF Handler
    <2>10. ASSUME UNCHANGED server,
                  \A q \in Requests : state[q] # "ended" => about'[q].lines = about[q].lines
           PROVE  Advances
      BY <2>10 DEF server, Onward
    <2>11. ASSUME NEW r \in Requests, Script(r) PROVE Advances
      <3>1. UNCHANGED server
        BY <2>11 DEF Script, ReadLine, Rejected, ReadEnd, LeaveLoop
      <3>2. CASE ReadLine(r)
        <4>1. about' = [about EXCEPT ![r].read = about[r].read + 1]
          BY <3>2 DEF ReadLine
        <4>2. \A q \in Requests : about'[q].lines = about[q].lines
          BY <2>t, <4>1 DEF TypeOK, Abouts
        <4>3. QED
          BY <2>10, <3>1, <4>2
      <3>3. CASE Rejected(r) \/ ReadEnd(r)
        <4>1. PICK f \in [Requests -> Abouts] :
                 /\ Settle(f)
                 /\ \A q \in Requests : f[q].lines = about[q].lines
          <5>1. Settle(about) \/ Settle([about EXCEPT ![r].aborted = TRUE])
            BY <3>3 DEF Rejected, ReadEnd
          <5>2. about \in [Requests -> Abouts]
            BY <2>t DEF TypeOK
          <5>3. /\ [about EXCEPT ![r].aborted = TRUE] \in [Requests -> Abouts]
                /\ \A q \in Requests :
                      [about EXCEPT ![r].aborted = TRUE][q].lines = about[q].lines
            BY <5>2 DEF Abouts
          <5>4. QED
            BY <5>1, <5>2, <5>3
        <4>2. state' = state
          BY <3>1 DEF server
        <4>3. QED
          BY <2>10, <2>s, <3>1, <4>1, <4>2
      <3>4. QED
        BY <2>11, <3>2, <3>3 DEF Script
    <2>12. ASSUME NEW d \in Tabs, User(d) PROVE Advances
      <3>1. CASE \E h \in Hosts : Open(d, h)
        BY <2>10, <3>1 DEF Open
      <3>2. CASE Submit(d)
        <4>1. PICK r \in Requests :
                 /\ state[r] = "ended" /\ state' = [state EXCEPT ![r] = "sent"]
                 /\ about' = [about EXCEPT ![r] = [Unused EXCEPT !.owner = d,
                                                                  !.host = dialog[d]]]
          BY <3>2 DEF Submit
        <4>2. why' = why
          BY <3>2 DEF Submit
        <4>3. \A q \in Requests : state[q] # "ended" => state'[q] = state[q]
                                                     /\ about'[q] = about[q]
          BY <2>t, <4>1 DEF TypeOK
        <4>4. QED
          BY <4>2, <4>3 DEF Onward
      <3>3. CASE Stop(d) \/ CloseDialog(d)
        <4>1. UNCHANGED server /\ AbortActive(d)
          BY <3>3 DEF Stop, CloseDialog
        <4>2. \A q \in Requests : about'[q].lines = about[q].lines
          BY <2>t, <4>1 DEF AbortActive, TypeOK, Abouts
        <4>3. QED
          BY <2>10, <4>1, <4>2
      <3>4. CASE Leave(d)
        <4> DEFINE f == [r \in Requests |-> IF about[r].owner = d
                                  THEN [about[r] EXCEPT !.aborted = TRUE] ELSE about[r]]
        <4>1. UNCHANGED server /\ Settle(f)
          BY <3>4 DEF Leave
        <4>2. /\ f \in [Requests -> Abouts]
              /\ \A q \in Requests : f[q].lines = about[q].lines
          <5>1. ASSUME NEW a \in Abouts
                PROVE  /\ [a EXCEPT !.aborted = TRUE] \in Abouts
                       /\ [a EXCEPT !.aborted = TRUE].lines = a.lines
            BY DEF Abouts
          <5>2. \A q \in Requests : about[q] \in Abouts
            BY <2>t DEF TypeOK
          <5>3. QED
            BY <5>1, <5>2
        <4> HIDE DEF f
        <4>3. state' = state
          BY <4>1 DEF server
        <4>4. QED
          BY <2>10, <2>s, <4>1, <4>2, <4>3
      <3>5. QED
        BY <2>12, <3>1, <3>2, <3>3, <3>4 DEF User
    <2>13. QED
      BY <1>1, <2>9, <2>11, <2>12 DEF Next
  <1>2. DialogInv /\ [Next]_vars => [Advances]_vars
    BY <1>1
  <1>3. QED
    BY <1>2, DialogInvariance, PTL DEF Spec
=============================================================================
