------------------------- MODULE RistReceiverProofs -------------------------
(***************************************************************************)
(* What holds of the RIST supervisor for any number of restarts.           *)
(***************************************************************************)
EXTENDS RistReceiver, TLAPS

(* Somebody is on the way to a restart. *)
RestartPending == \E p \in Processes : reaper[p] \in Pending

(* When Close has returned, all goroutines are gone, and no line of output *)
(* can start a receiver any more. *)
AfterClose ==
    closing = "done" =>
        /\ readers = {}
        /\ \A p \in Processes : reaper[p] \in {"none", "gone"}

(* GivingUpIsReported is not inductive: a receiver the supervisor no       *)
(* longer knows may be the last to live.  What is inductive says that as   *)
(* soon as s.cmd is nil, a restart is pending or has failed. *)
GivenUp ==
    starts > 0 /\ ~stopping /\ cmd = NoProcess /\ ~RestartPending => unhealthy

CloseOrder ==
    /\ cancelled => stopping
    /\ closing # "open" => starts > 0
    /\ closing = "open" <=> ~stopping

Unstarted == \A p \in Processes : p > starts => reaper[p] = "none"

IInv == TypeOK /\ AfterClose /\ GivenUp /\ CloseOrder /\ Unstarted

USE StartsAssumption DEF NoProcess, Processes, Stages, Pending

LEMMA InitIInv == Init => IInv
<1> SUFFICES ASSUME Init PROVE IInv
  OBVIOUS
<1>1. TypeOK
  <2>1. /\ beating \in BOOLEAN /\ active \in BOOLEAN /\ gap \in BOOLEAN
        /\ unhealthy \in BOOLEAN /\ stopping \in BOOLEAN
        /\ cancelled \in BOOLEAN
    BY Zenon DEF Init
  <2> QED BY <2>1 DEF Init, TypeOK
<1>2. AfterClose /\ GivenUp /\ Unstarted
  BY DEF Init, AfterClose, GivenUp, Unstarted
<1>3. CloseOrder
  BY Zenon DEF Init, CloseOrder
<1> QED BY <1>1, <1>2, <1>3 DEF IInv

(* A launch makes a new current process that has a reaper.                 *)
LEMMA LaunchFacts ==
    ASSUME TypeOK, NEW reapers \in [Processes -> Stages],
           \A p \in alive : reapers[p] = "wait",
           Launch(reapers)
    PROVE  /\ starts' \in Processes /\ starts' = starts + 1 /\ cmd' = starts'
           /\ alive' \in SUBSET Processes /\ readers' \in SUBSET Processes
           /\ reaper' \in [Processes -> Stages]
           /\ \A p \in alive' \cup {cmd'} : reaper'[p] = "wait"
           /\ \A p \in Processes : p # starts' => reaper'[p] = reapers[p]
<1>1. starts' \in Processes /\ starts' = starts + 1 /\ cmd' = starts'
  BY DEF Launch, TypeOK
<1>2. alive' \in SUBSET Processes /\ readers' \in SUBSET Processes
  BY <1>1 DEF Launch, TypeOK
<1>3. reaper' = [reapers EXCEPT ![starts'] = "wait"]
  BY <1>1 DEF Launch
<1>4. \A p \in alive' \cup {cmd'} : reaper'[p] = "wait"
  BY <1>1, <1>2, <1>3 DEF Launch, TypeOK
<1> QED BY <1>1, <1>2, <1>3, <1>4

(* The flags of the adapter, and who was sent a signal, are of the right   *)
(* type after every step.                                                  *)
Flags ==
    /\ beating \in BOOLEAN /\ active \in BOOLEAN /\ gap \in BOOLEAN
    /\ unhealthy \in BOOLEAN /\ stopping \in BOOLEAN /\ cancelled \in BOOLEAN
    /\ killed \in SUBSET Processes

LEMMA StepFlags == TypeOK /\ [Next]_vars => Flags'
<1> SUFFICES ASSUME TypeOK, [Next]_vars PROVE Flags'
  OBVIOUS
<1> USE DEF TypeOK, Flags, processVars, closeVars
<1>1. CASE Start
  BY <1>1, Zenon DEF Start, Launch
<1>2. CASE CloseBegins
  BY <1>2, Zenon DEF CloseBegins
<1>3. CASE CloseCancels
  <2>1. killed' \in SUBSET Processes
    BY <1>3 DEF CloseCancels
  <2> QED BY <1>3, <2>1, Zenon DEF CloseCancels
<1>4. CASE CloseStops
  <2>1. killed' \in SUBSET Processes
    BY <1>4 DEF CloseStops
  <2> QED BY <1>4, <2>1, Zenon DEF CloseStops
<1>5. CASE CloseReturns
  BY <1>5, Zenon DEF CloseReturns
<1>6. CASE HeartbeatStale \/ HeartbeatEnds \/ GapOver
  BY <1>6, Zenon DEF HeartbeatStale, HeartbeatEnds, GapOver
<1>7. ASSUME NEW p \in Processes, Activity(p) \/ Disconnect(p) PROVE Flags'
  BY <1>7, Zenon DEF Activity, Disconnect
<1>8. ASSUME NEW p \in Processes, Reject(p) PROVE Flags'
  <2>1. killed' \in SUBSET Processes
    BY <1>8 DEF Reject
  <2>2. unhealthy' \in BOOLEAN
    BY <1>8, Zenon DEF Reject, Launch, LaunchFails
  <2> QED BY <1>8, <2>1, <2>2, Zenon DEF Reject
<1>9. ASSUME NEW p \in Processes, ReadersEnd(p) \/ Exit(p) \/ Reap(p)
                                  \/ ReaperAsksContext(p) PROVE Flags'
  BY <1>9, Zenon DEF ReadersEnd, Exit, Reap, ReaperAsksContext
<1>10. ASSUME NEW p \in Processes, ReaperStopsStream(p) PROVE Flags'
  BY <1>10, Zenon DEF ReaperStopsStream
<1>11. ASSUME NEW p \in Processes, ReaperRestarts(p) PROVE Flags'
  BY <1>11, Zenon DEF ReaperRestarts, Launch, LaunchFails
<1>12. CASE UNCHANGED vars
  BY <1>12, Zenon DEF vars
<1> QED BY <1>1, <1>2, <1>3, <1>4, <1>5, <1>6, <1>7, <1>8, <1>9, <1>10, <1>11,
           <1>12 DEF Next, Close, Line, Reaper

(* A step that launches a receiver preserves the invariant, ...            *)
LEMMA LaunchIInv ==
    ASSUME IInv, Flags', NEW reapers \in [Processes -> Stages],
           \A p \in alive : reapers[p] = "wait",
           \A p \in Processes : p > starts => reapers[p] = "none",
           Launch(reapers), closing # "done", UNCHANGED closeVars
    PROVE  IInv'
<1> USE DEF IInv
<1>1. /\ starts' \in Processes /\ starts' = starts + 1 /\ cmd' = starts'
      /\ alive' \in SUBSET Processes /\ readers' \in SUBSET Processes
      /\ reaper' \in [Processes -> Stages]
      /\ \A p \in alive' \cup {cmd'} : reaper'[p] = "wait"
      /\ \A p \in Processes : p # starts' => reaper'[p] = reapers[p]
  BY LaunchFacts, Zenon
<1>2. TypeOK'
  BY <1>1 DEF TypeOK, Flags, closeVars
<1>3. AfterClose' /\ GivenUp' /\ Unstarted'
  BY <1>1 DEF AfterClose, GivenUp, Unstarted, TypeOK, closeVars
<1>4. starts' > 0
  BY <1>1
<1>5. CloseOrder'
  BY <1>4, Zenon DEF CloseOrder, closeVars
<1> QED BY <1>2, <1>3, <1>5

(* ... and so does one that starts none and leaves Close where it is.      *)
LEMMA QuietIInv ==
    ASSUME IInv, Flags', UNCHANGED <<starts, closeVars>>,
           alive' \in SUBSET alive, readers' \in SUBSET readers,
           cmd' \in {cmd, NoProcess},
           reaper' \in [Processes -> Stages],
           \A p \in alive' \cup ({cmd'} \ {NoProcess}) : reaper'[p] = "wait",
           \A p \in Processes : reaper[p] \in {"none", "gone"}
                                => reaper'[p] = reaper[p],
           GivenUp'
    PROVE  IInv'
<1> USE DEF IInv
<1>1. TypeOK'
  BY DEF TypeOK, Flags, closeVars
<1>2. AfterClose' /\ Unstarted'
  BY DEF AfterClose, Unstarted, TypeOK, closeVars
<1>3. CloseOrder'
  BY Zenon DEF CloseOrder, closeVars
<1> QED BY <1>1, <1>2, <1>3

LEMMA StepIInv == IInv /\ [Next]_vars => IInv'
<1> SUFFICES ASSUME IInv, [Next]_vars PROVE IInv'
  OBVIOUS
<1>0. Flags'
  BY StepFlags DEF IInv
<1> USE DEF IInv
<1>a. /\ reaper \in [Processes -> Stages]
      /\ \A p \in alive : reaper[p] = "wait"
      /\ \A p \in Processes : p > starts => reaper[p] = "none"
      /\ \A p \in alive \cup ({cmd} \ {NoProcess}) : reaper[p] = "wait"
  BY DEF TypeOK, Unstarted
<1>1. CASE Start
  BY <1>0, <1>1, <1>a, LaunchIInv DEF Start
<1>2. ASSUME UNCHANGED <<processVars, closeVars>> PROVE IInv'
  <2>1. UNCHANGED <<cmd, starts, alive, reaper, readers, closeVars>>
    BY <1>2 DEF processVars
  <2>2. GivenUp'
    BY <1>2, Zenon DEF GivenUp, RestartPending, processVars, closeVars
  <2> QED BY <1>0, <1>a, <2>1, <2>2, QuietIInv
<1>3. ASSUME NEW p \in Processes, Reject(p) PROVE IInv'
  <2>1. CASE gap
    BY <1>2, <1>3, <2>1 DEF Reject
  <2>2. UNCHANGED closeVars /\ closing # "done"
    BY <1>3 DEF Reject, AfterClose
  <2>3. CASE ~gap /\ ~cancelled /\ Launch(reaper)
    BY <1>0, <1>a, <2>2, <2>3, LaunchIInv
  <2>4. CASE ~gap /\ ~cancelled /\ LaunchFails(NoProcess, reaper)
    <3>1. GivenUp'
      BY <2>4, Zenon DEF LaunchFails, GivenUp
    <3> QED BY <1>0, <1>a, <2>2, <2>4, <3>1, QuietIInv DEF LaunchFails
  <2>5. CASE ~gap /\ cancelled
    <3>1. cmd' = NoProcess /\ UNCHANGED <<starts, alive, reaper, readers>>
      BY <1>3, <2>5, Zenon DEF Reject
    <3>2. GivenUp'
      BY <2>2, <2>5, Zenon DEF GivenUp, CloseOrder, closeVars
    <3> QED BY <1>0, <1>a, <2>2, <3>1, <3>2, QuietIInv
  <2> QED BY <1>3, <2>1, <2>3, <2>4, <2>5 DEF Reject
<1>4. ASSUME NEW p \in Processes, ReadersEnd(p) PROVE IInv'
  <2>1. GivenUp'
    BY <1>4, Zenon DEF ReadersEnd, GivenUp, RestartPending, closeVars
  <2> QED BY <1>0, <1>4, <1>a, <2>1, QuietIInv DEF ReadersEnd
<1>5. ASSUME NEW p \in Processes, Exit(p) PROVE IInv'
  <2>1. GivenUp'
    BY <1>5, Zenon DEF Exit, GivenUp, RestartPending, closeVars
  <2> QED BY <1>0, <1>5, <1>a, <2>1, QuietIInv DEF Exit
<1>6. ASSUME NEW p \in Processes, Reap(p) PROVE IInv'
  <2>1. /\ reaper' \in [Processes -> Stages]
        /\ \A q \in Processes : q # p => reaper'[q] = reaper[q]
        /\ reaper'[p] = IF cmd # p \/ stopping THEN "gone" ELSE "exited"
    BY <1>6, <1>a DEF Reap, ReaperMoves
  <2>2. /\ alive' \in SUBSET alive /\ readers' \in SUBSET readers
        /\ cmd' \in {cmd, NoProcess} /\ cmd' # p
        /\ p \notin alive /\ reaper[p] = "wait"
        /\ UNCHANGED <<starts, alive, closeVars>>
    BY <1>6 DEF Reap
  <2>3. \A q \in alive' \cup ({cmd'} \ {NoProcess}) : reaper'[q] = "wait"
    BY <1>a, <2>1, <2>2 DEF TypeOK
  <2>4. GivenUp'
    <3>1. CASE stopping
      BY <2>2, <3>1, Zenon DEF GivenUp, closeVars
    <3>2. CASE ~stopping /\ cmd = p
      <4>1. reaper'[p] \in Pending
        BY <2>1, <3>2
      <4>2. RestartPending'
        BY <4>1, Zenon DEF RestartPending
      <4> QED BY <4>2, Zenon DEF GivenUp
    <3>3. CASE ~stopping /\ cmd # p
      <4>1. cmd' = cmd /\ unhealthy' = unhealthy
        BY <1>6, <3>3 DEF Reap
      <4>2. RestartPending => RestartPending'
        BY <2>1, <2>2 DEF RestartPending
      <4> QED BY <2>2, <4>1, <4>2, Zenon DEF GivenUp, closeVars
    <3> QED BY <3>1, <3>2, <3>3
  <2> QED BY <1>0, <2>1, <2>2, <2>3, <2>4, QuietIInv
<1>7. ASSUME NEW p \in Processes, ReaperAsksContext(p) PROVE IInv'
  <2>1. /\ reaper' \in [Processes -> Stages]
        /\ \A q \in Processes : q # p => reaper'[q] = reaper[q]
        /\ ~cancelled => reaper'[p] \in Pending
    BY <1>7, <1>a DEF ReaperAsksContext, ReaperMoves
  <2>2. /\ UNCHANGED <<cmd, starts, alive, readers, closeVars, unhealthy>>
        /\ reaper[p] \in Pending
    BY <1>7 DEF ReaperAsksContext
  <2>3. \A q \in alive' \cup ({cmd'} \ {NoProcess}) : reaper'[q] = "wait"
    BY <1>a, <2>1, <2>2 DEF TypeOK
  <2>4. GivenUp'
    <3>1. CASE cancelled
      BY <2>2, <3>1, Zenon DEF GivenUp, CloseOrder, closeVars
    <3>2. CASE ~cancelled
      BY <2>1, <3>2, Zenon DEF GivenUp, RestartPending
    <3> QED BY <3>1, <3>2
  <2> QED BY <1>0, <1>a, <2>1, <2>2, <2>3, <2>4, QuietIInv
<1>8. ASSUME NEW p \in Processes, ReaperStopsStream(p) PROVE IInv'
  <2>1. /\ reaper' \in [Processes -> Stages]
        /\ \A q \in Processes : q # p => reaper'[q] = reaper[q]
        /\ reaper'[p] \in Pending
    BY <1>8, <1>a DEF ReaperStopsStream, ReaperMoves
  <2>2. /\ UNCHANGED <<cmd, starts, alive, readers, closeVars>>
        /\ reaper[p] \in Pending
    BY <1>8 DEF ReaperStopsStream
  <2>3. \A q \in alive' \cup ({cmd'} \ {NoProcess}) : reaper'[q] = "wait"
    BY <1>a, <2>1, <2>2 DEF TypeOK
  <2>4. GivenUp'
    BY <2>1, Zenon DEF GivenUp, RestartPending
  <2> QED BY <1>0, <1>a, <2>1, <2>2, <2>3, <2>4, QuietIInv
<1>9. ASSUME NEW p \in Processes, ReaperRestarts(p) PROVE IInv'
  <2> DEFINE ended == [reaper EXCEPT ![p] = "gone"]
  <2>1. /\ reaper[p] = "start" /\ UNCHANGED closeVars /\ closing # "done"
        /\ p \notin alive \cup ({cmd} \ {NoProcess})
    BY <1>9, <1>a DEF ReaperRestarts, AfterClose
  <2>2. /\ ended \in [Processes -> Stages]
        /\ \A q \in Processes : q # p => ended[q] = reaper[q]
        /\ \A q \in alive \cup ({cmd} \ {NoProcess}) : ended[q] = "wait"
        /\ \A q \in Processes : q > starts => ended[q] = "none"
    BY <1>a, <2>1 DEF TypeOK
  <2>3. CASE Launch(ended)
    BY <1>0, <2>1, <2>2, <2>3, LaunchIInv
  <2>4. ASSUME reaper' = ended, UNCHANGED <<cmd, starts, alive, readers>>,
               GivenUp'
        PROVE IInv'
    BY <1>0, <2>1, <2>2, <2>4, QuietIInv
  <2>5. CASE LaunchFails(cmd, ended)
    <3>1. GivenUp'
      BY <2>5, Zenon DEF LaunchFails, GivenUp
    <3> QED BY <2>4, <2>5, <3>1 DEF LaunchFails
  <2>6. CASE stopping /\ reaper' = ended
             /\ UNCHANGED <<cmd, starts, alive, readers, unhealthy>>
    <3>1. GivenUp'
      BY <2>1, <2>6, Zenon DEF GivenUp, closeVars
    <3> QED BY <2>4, <2>6, <3>1
  <2> QED BY <1>9, <2>3, <2>5, <2>6 DEF ReaperRestarts
<1>10. ASSUME Close PROVE IInv'
  <2> USE DEF CloseBegins, CloseCancels, CloseStops, CloseReturns
  <2>1. /\ UNCHANGED <<cmd, starts, alive, reaper, readers, unhealthy>>
        /\ closing' \in {"cancel", "stop", "wait", "done"}
    BY <1>10 DEF Close, processVars
  <2>2. stopping' /\ starts > 0
    BY <1>10, Zenon DEF Close, CloseOrder, processVars
  <2>3. TypeOK'
    BY <1>0, <1>a, <2>1 DEF TypeOK, Flags
  <2>4. AfterClose'
    BY <1>10 DEF Close, AfterClose, processVars
  <2>5. GivenUp' /\ Unstarted'
    BY <1>a, <2>1, <2>2 DEF GivenUp, Unstarted
  <2>6. CloseOrder'
    <3>1. closing' # "open" /\ starts' > 0
      BY <2>1, <2>2
    <3> QED BY <2>2, <3>1, Zenon DEF CloseOrder
  <2> QED BY <2>3, <2>4, <2>5, <2>6
<1>11. CASE HeartbeatEnds \/ HeartbeatStale \/ GapOver
  BY <1>2, <1>11, Zenon DEF HeartbeatEnds, HeartbeatStale, GapOver
<1>12. ASSUME NEW p \in Processes, Activity(p) \/ Disconnect(p) PROVE IInv'
  BY <1>2, <1>12, Zenon DEF Activity, Disconnect
<1>13. CASE UNCHANGED vars
  BY <1>2, <1>13 DEF vars, processVars, closeVars
<1> QED BY <1>1, <1>3, <1>4, <1>5, <1>6, <1>7, <1>8, <1>9, <1>10, <1>11,
           <1>12, <1>13 DEF Next, Line, Reaper

THEOREM Invariance == Spec => []IInv
BY InitIInv, StepIInv, PTL DEF Spec

(* TypeOK of RistReceiver: a living receiver has a reaper that waits for   *)
(* it.                                                                     *)
THEOREM ReceiverTyped == Spec => []TypeOK
<1>1. IInv => TypeOK
  BY DEF IInv
<1> QED BY <1>1, Invariance, PTL

(* No receiver outlives Close, whatever restarts were under way: every     *)
(* living process has a reaper in the wait group.                          *)
THEOREM NoReceiverOutlivesClose == Spec => []CloseLeavesNoReceiver
<1>1. IInv => CloseLeavesNoReceiver
  BY DEF IInv, TypeOK, AfterClose, CloseLeavesNoReceiver
<1> QED BY <1>1, Invariance, PTL

(* A supervisor that has given up is on record with the health tracker.    *)
THEOREM NobodyGivesUpInSilence == Spec => []GivingUpIsReported
<1>1. IInv => GivingUpIsReported
  <2> SUFFICES ASSUME IInv, starts > 0, ~stopping,
                      \A p \in Processes : reaper[p] \in {"none", "gone"}
               PROVE  unhealthy
    BY Zenon DEF GivingUpIsReported
  <2>1. cmd = NoProcess /\ ~RestartPending
    BY DEF IInv, TypeOK, RestartPending
  <2> QED BY <2>1, Zenon DEF IInv, GivenUp
<1> QED BY <1>1, Invariance, PTL
----------------------------------------------------------------------------
(* One receiver.  A reaper on its way to a restart does not look at s.cmd  *)
(* again; all is well if nobody else starts a receiver meanwhile.          *)

RestartsAlone ==
    [][RestartPending /\ starts' # starts => \E p \in Processes : ReaperRestarts(p)]_vars

(* A receiver that nobody killed is the one in s.cmd, and who is on the    *)
(* way to a restart is so alone, with no receiver to be kept.              *)
OneInv ==
    /\ alive \ killed \in SUBSET {cmd}
    /\ RestartPending => cmd = NoProcess
    /\ \A p, q \in Processes : reaper[p] \in Pending /\ reaper[q] \in Pending => p = q

(* Nobody gets on the way to a restart, and no receiver to keep appears.   *)
LEMMA QuietOneInv ==
  ASSUME OneInv, alive' \ killed' \in SUBSET {cmd'}, cmd' \in {cmd, NoProcess},
         \A p \in Processes : reaper'[p] \in Pending => reaper[p] \in Pending
  PROVE  OneInv'
BY DEF OneInv, RestartPending

(* A receiver is started, and there was none to keep. *)
LEMMA LaunchOneInv ==
  ASSUME IInv, NEW reapers \in [Processes -> Stages], Launch(reapers),
         alive \ killed' = {},
         \A p \in Processes : reapers[p] \notin Pending
  PROVE  OneInv'
<1>1. starts' \in Processes /\ cmd' = starts' /\ alive' = alive \cup {starts'}
      /\ reaper' = [reapers EXCEPT ![starts'] = "wait"]
  BY DEF Launch, IInv, TypeOK
<1>2. \A p \in Processes : reaper'[p] \notin Pending
  BY <1>1
<1> QED BY <1>1, <1>2 DEF OneInv, RestartPending

LEMMA StepOneInv ==
  ASSUME IInv, OneInv, [Next]_vars,
         RestartPending /\ starts' # starts => \E p \in Processes : ReaperRestarts(p)
  PROVE  OneInv'
<1> USE DEF IInv, TypeOK
<1>1. CASE Start
  <2>1. alive = {} /\ \A p \in Processes : reaper[p] = "none"
    BY <1>1 DEF Start, Unstarted
  <2> QED BY <1>1, <2>1, LaunchOneInv DEF Start
<1>2. ASSUME UNCHANGED <<cmd, reaper>>, alive' \in SUBSET alive, killed \in SUBSET killed'
      PROVE  OneInv'
  BY <1>2, QuietOneInv DEF OneInv
<1>3. ASSUME NEW p \in Processes, Reject(p) PROVE OneInv'
  <2>1. CASE gap
    BY <1>2, <1>3, <2>1 DEF Reject, processVars
  <2>2. ~gap => alive \ killed' = {}
    BY <1>3 DEF Reject, OneInv
  <2>3. CASE ~gap /\ Launch(reaper)
    <3>1. starts' # starts /\ reaper'[starts'] = "wait"
          /\ \A q \in Processes : q # starts' => reaper'[q] = reaper[q]
      BY <2>3 DEF Launch
    <3>2. ASSUME NEW q \in Processes, ReaperRestarts(q) PROVE FALSE
      <4>1. reaper[q] = "start" /\ q # starts'
        BY <2>3, <3>2 DEF ReaperRestarts, Unstarted, Launch
      <4>2. reaper'[q] = "gone"
        BY <3>2, <4>1 DEF ReaperRestarts, Launch, LaunchFails
      <4> QED BY <3>1, <4>1, <4>2
    <3>3. ~RestartPending
      BY <3>1, <3>2
    <3> QED BY <2>2, <2>3, <3>3, LaunchOneInv DEF RestartPending
  <2>4. CASE ~gap /\ cmd' = NoProcess /\ UNCHANGED <<alive, reaper>>
    BY <2>2, <2>4, QuietOneInv
  <2> QED BY <1>3, <2>1, <2>3, <2>4 DEF Reject, LaunchFails
<1>4. ASSUME NEW p \in Processes, Reap(p) PROVE OneInv'
  <2>1. CASE reaper' = [reaper EXCEPT ![p] = "gone"]
    <3>1. alive' \ killed' \in SUBSET {cmd'}
      BY <1>4 DEF Reap, OneInv
    <3> QED BY <1>4, <2>1, <3>1, QuietOneInv DEF Reap
  <2>2. CASE cmd = p /\ reaper' = [reaper EXCEPT ![p] = "exited"]
    <3>1. \A q \in Processes : reaper[q] \notin Pending
      BY <2>2 DEF OneInv, RestartPending
    <3>2. cmd' = NoProcess /\ alive' \ killed' = {}
      BY <1>4, <2>2 DEF Reap, OneInv
    <3> QED BY <2>2, <3>1, <3>2 DEF OneInv
  <2> QED BY <1>4, <2>1, <2>2 DEF Reap, ReaperMoves
<1>5. ASSUME NEW p \in Processes, ReaperAsksContext(p) \/ ReaperStopsStream(p)
      PROVE  OneInv'
  <2>1. UNCHANGED <<cmd, alive, killed>> /\ reaper[p] \in Pending
        /\ \A q \in Processes : q # p => reaper'[q] = reaper[q]
    BY <1>5 DEF ReaperAsksContext, ReaperStopsStream, ReaperMoves
  <2> QED BY <2>1, QuietOneInv DEF OneInv
<1>6. ASSUME NEW p \in Processes, ReaperRestarts(p) PROVE OneInv'
  <2> DEFINE ended == [reaper EXCEPT ![p] = "gone"]
  <2>1. cmd = NoProcess /\ killed' = killed /\ alive \ killed = {}
    BY <1>6 DEF ReaperRestarts, OneInv, RestartPending
  <2>2. ended \in [Processes -> Stages] /\ \A q \in Processes : ended[q] \notin Pending
    BY <1>6 DEF ReaperRestarts, OneInv
  <2>3. CASE Launch(ended)
    BY <2>1, <2>2, <2>3, LaunchOneInv
  <2>4. CASE reaper' = ended /\ UNCHANGED <<cmd, alive>>
    BY <2>1, <2>2, <2>4, QuietOneInv
  <2> QED BY <1>6, <2>3, <2>4 DEF ReaperRestarts, LaunchFails
<1>7. CASE Close
  BY <1>2, <1>7 DEF Close, CloseBegins, CloseCancels, CloseStops, CloseReturns, processVars
<1>8. CASE HeartbeatStale \/ HeartbeatEnds \/ GapOver \/ UNCHANGED vars
  BY <1>2, <1>8 DEF HeartbeatStale, HeartbeatEnds, GapOver, vars, processVars
<1>9. ASSUME NEW p \in Processes, Activity(p) \/ Disconnect(p) \/ ReadersEnd(p) \/ Exit(p)
      PROVE  OneInv'
  BY <1>2, <1>9 DEF Activity, Disconnect, ReadersEnd, Exit, processVars
<1> QED BY <1>1, <1>3, <1>4, <1>5, <1>6, <1>7, <1>8, <1>9 DEF Next, Line, Reaper

(* OneReceiver of RistReceiver, which the code breaks when a line of an    *)
(* unauthorised stream forces a restart while a reaper is on its way to    *)
(* one: it breaks it in no other way.                                      *)
THEOREM LoneRestartsKeepOneReceiver == Spec /\ RestartsAlone => []OneReceiver
<1>1. Init => OneInv
  BY DEF Init, OneInv, RestartPending
<1>2. IInv /\ OneInv /\ [Next]_vars
      /\ [RestartPending /\ starts' # starts => \E p \in Processes : ReaperRestarts(p)]_vars
      => OneInv'
  BY StepOneInv DEF vars
<1>3. OneInv => OneReceiver
  BY DEF OneInv, OneReceiver
<1> QED BY <1>1, <1>2, <1>3, Invariance, PTL DEF Spec, RestartsAlone

(* So it would be enough that a reaper went on to a restart only when no   *)
(* output of an earlier receiver is left to read.                          *)
THEOREM OneReceiverOncePipesAreDrained ==
  Spec /\ [](RestartPending => readers = {}) => []OneReceiver
<1>1. ASSUME RestartPending => readers = {}, IInv, [Next]_vars, RestartPending,
             starts' # starts
      PROVE  \E p \in Processes : ReaperRestarts(p)
  <2>1. ~Start
    BY <1>1 DEF Start, IInv, TypeOK, Unstarted, RestartPending
  <2> QED BY <1>1, <2>1
          DEF Next, Close, CloseBegins, CloseCancels, CloseStops, CloseReturns, HeartbeatStale,
              HeartbeatEnds, GapOver, Line, Activity, Disconnect, Reject, ReadersEnd, Exit,
              Reaper, Reap, ReaperAsksContext, ReaperStopsStream, processVars, vars
<1>2. (RestartPending => readers = {}) /\ IInv /\ [Next]_vars =>
        [RestartPending /\ starts' # starts => \E p \in Processes : ReaperRestarts(p)]_vars
  BY <1>1
<1>3. Spec /\ [](RestartPending => readers = {}) => RestartsAlone
  BY <1>2, Invariance, PTL DEF Spec, RestartsAlone
<1> QED BY <1>3, LoneRestartsKeepOneReceiver, PTL
=============================================================================
