---------------------------- MODULE RistReceiver ----------------------------
(***************************************************************************)
(* internal/ingest/rist/server.go: the Server as the supervisor of the     *)
(* ristreceiver process.  It restarts a receiver that exits, kills and     *)
(* replaces one that carries an unauthorised stream, and ends everything   *)
(* in Close.                                                               *)
(*                                                                         *)
(* Every process has a reaper (reapProcess) and readers of its output      *)
(* (monitorOutput, twice, here as one), which may still be at lines they   *)
(* have buffered after the process has exited.  All of them work under     *)
(* s.mu, but the reaper gives it up four times on its way to a restart.    *)
(* How long the reaper sleeps is left out, and of the stream only whether  *)
(* the adapter has one: what becomes of it is in module Ingest.            *)
(***************************************************************************)
EXTENDS Integers, FiniteSets

CONSTANT MaxStarts   \* bound: processes ever started

ASSUME StartsAssumption == MaxStarts \in Nat \ {0}

NoProcess == 0
Processes == 1..MaxStarts

(* The stages of a reaper; in a pending one it holds no lock and is on its *)
(* way to a restart.                                                       *)
Pending == {"exited", "stop", "sleep", "start"}
Stages == {"none", "wait", "gone"} \cup Pending

VARIABLES
    cmd,        \* s.cmd
    starts,     \* processes started so far
    alive,      \* processes that have not exited
    killed,     \* processes sent a SIGKILL
    reaper,     \* where the reaper of each process is
    readers,    \* processes whose output is still read
    beating,    \* heartbeatLoop runs
    active,     \* s.active
    gap,        \* less than minForcedRestartGap since lastForcedRestart
    unhealthy,  \* the health tracker has an entry for ristreceiver
    closing,    \* where Close is
    stopping,   \* s.stopping
    cancelled   \* s.ctx is done

processVars == <<cmd, starts, alive, killed, reaper, readers, unhealthy>>
closeVars == <<closing, stopping, cancelled>>
vars == <<cmd, starts, alive, killed, reaper, readers, beating, active, gap,
          unhealthy, closing, stopping, cancelled>>

(* NewServer. *)
Init ==
    /\ cmd = NoProcess /\ starts = 0 /\ alive = {} /\ killed = {}
    /\ reaper = [p \in Processes |-> "none"] /\ readers = {}
    /\ beating = FALSE /\ active = FALSE /\ gap = FALSE /\ unhealthy = FALSE
    /\ closing = "open" /\ stopping = FALSE /\ cancelled = FALSE

----------------------------------------------------------------------------
(* startProcessLocked: exec refuses to start a command whose context is    *)
(* done, and may fail in other ways.                                       *)

Launch(reapers) ==
    /\ ~cancelled /\ starts < MaxStarts
    /\ starts' = starts + 1 /\ cmd' = starts + 1
    /\ alive' = alive \cup {starts + 1}
    /\ reaper' = [reapers EXCEPT ![starts + 1] = "wait"]
    /\ readers' = readers \cup {starts + 1}
    /\ unhealthy' = FALSE

LaunchFails(cmdLeft, reapers) ==
    /\ cmd' = cmdLeft /\ reaper' = reapers
    /\ unhealthy' = TRUE
    /\ UNCHANGED <<starts, alive, readers>>

(* Start, if ristreceiver is installed.  When it fails, main exits. *)
Start ==
    /\ starts = 0 /\ closing = "open"
    /\ Launch(reaper)
    /\ beating' = TRUE
    /\ UNCHANGED <<killed, active, gap, closeVars>>

----------------------------------------------------------------------------
(* Lines of output *)

(* An authorised stream: the adapter has the slot afterwards, or has not. *)
Activity(p) ==
    /\ p \in readers
    /\ active' \in BOOLEAN
    /\ UNCHANGED <<processVars, beating, gap, closeVars>>

(* handleDisconnect *)
Disconnect(p) ==
    /\ p \in readers
    /\ active' = FALSE
    /\ UNCHANGED <<processVars, beating, gap, closeVars>>

(* An unauthorised stream: restartReceiverLocked kills the receiver and    *)
(* starts another, but not twice within the gap.                           *)
Reject(p) ==
    /\ p \in readers
    /\ active' = FALSE
    /\ gap' = TRUE
    /\ IF gap THEN UNCHANGED processVars
       ELSE /\ killed' = killed \cup (alive \cap {cmd})
            /\ IF cancelled
               THEN cmd' = NoProcess
                    /\ UNCHANGED <<starts, alive, reaper, readers, unhealthy>>
               ELSE Launch(reaper) \/ LaunchFails(NoProcess, reaper)
    /\ UNCHANGED <<beating, closeVars>>

GapOver ==
    /\ gap /\ gap' = FALSE
    /\ UNCHANGED <<processVars, beating, active, closeVars>>

(* The output of p is at its end, or cannot be scanned any further. *)
ReadersEnd(p) ==
    /\ p \in readers
    /\ readers' = readers \ {p}
    /\ UNCHANGED <<cmd, starts, alive, killed, reaper, unhealthy>>
    /\ UNCHANGED <<beating, active, gap, closeVars>>

----------------------------------------------------------------------------
(* The processes and their reapers *)

Exit(p) ==
    /\ p \in alive
    /\ alive' = alive \ {p}
    /\ UNCHANGED <<cmd, starts, killed, reaper, readers, unhealthy>>
    /\ UNCHANGED <<beating, active, gap, closeVars>>

ReaperMoves(p, stage) == reaper' = [reaper EXCEPT ![p] = stage]

(* Seeded faults: the process is compared with s.cmd after that is cleared; *)
(* s.cmd is not cleared.                                                   *)
ReapComparesLate(p) ==
    /\ reaper[p] = "wait" /\ p \notin alive
    /\ cmd' = IF cmd = p THEN NoProcess ELSE cmd
    /\ ReaperMoves(p, IF cmd' # p \/ stopping THEN "gone" ELSE "exited")
    /\ UNCHANGED <<starts, alive, killed, readers, unhealthy>>
    /\ UNCHANGED <<beating, active, gap, closeVars>>

ReapKeepsCommand(p) ==
    /\ reaper[p] = "wait" /\ p \notin alive
    /\ ReaperMoves(p, IF cmd # p \/ stopping THEN "gone" ELSE "exited")
    /\ UNCHANGED <<cmd, starts, alive, killed, readers, unhealthy>>
    /\ UNCHANGED <<beating, active, gap, closeVars>>

(* cmd.Wait returns: is p still the current process? *)
Reap(p) ==
    /\ reaper[p] = "wait" /\ p \notin alive
    /\ cmd' = IF cmd = p THEN NoProcess ELSE cmd
    /\ ReaperMoves(p, IF cmd # p \/ stopping THEN "gone" ELSE "exited")
    /\ UNCHANGED <<starts, alive, killed, readers, unhealthy>>
    /\ UNCHANGED <<beating, active, gap, closeVars>>

(* The context is looked at before the stream is stopped and, once more,   *)
(* after the sleep.                                                        *)
ReaperAsksContext(p) ==
    /\ reaper[p] \in {"exited", "sleep"}
    /\ ReaperMoves(p, IF cancelled THEN "gone"
                      ELSE IF reaper[p] = "exited" THEN "stop" ELSE "start")
    /\ UNCHANGED <<cmd, starts, alive, killed, readers, unhealthy>>
    /\ UNCHANGED <<beating, active, gap, closeVars>>

ReaperStopsStream(p) ==
    /\ reaper[p] = "stop"
    /\ active' = FALSE
    /\ ReaperMoves(p, "sleep")
    /\ UNCHANGED <<cmd, starts, alive, killed, readers, unhealthy>>
    /\ UNCHANGED <<beating, gap, closeVars>>

(* Seeded fault: a failed restart is only logged. *)
ReaperRestartsQuietly(p) ==
    LET ended == [reaper EXCEPT ![p] = "gone"] IN
    /\ reaper[p] = "start"
    /\ IF stopping
       THEN reaper' = ended /\ UNCHANGED <<cmd, starts, alive, readers, unhealthy>>
       ELSE \/ Launch(ended)
            \/ reaper' = ended
               /\ UNCHANGED <<cmd, starts, alive, readers, unhealthy>>
    /\ UNCHANGED <<killed, beating, active, gap, closeVars>>

(* The restart, whatever has become of s.cmd during the sleep.  One that   *)
(* fails is the last.                                                      *)
ReaperRestarts(p) ==
    LET ended == [reaper EXCEPT ![p] = "gone"] IN
    /\ reaper[p] = "start"
    /\ IF stopping
       THEN reaper' = ended /\ UNCHANGED <<cmd, starts, alive, readers, unhealthy>>
       ELSE Launch(ended) \/ LaunchFails(cmd, ended)
    /\ UNCHANGED <<killed, beating, active, gap, closeVars>>

Reaper(p) == Reap(p) \/ ReaperAsksContext(p) \/ ReaperStopsStream(p)
             \/ ReaperRestarts(p)

----------------------------------------------------------------------------
(* The heartbeat, which stops a stale stream, and Close *)

HeartbeatStale ==
    /\ beating /\ active
    /\ active' = FALSE
    /\ UNCHANGED <<processVars, beating, gap, closeVars>>

HeartbeatEnds ==
    /\ beating /\ cancelled
    /\ beating' = FALSE
    /\ UNCHANGED <<processVars, active, gap, closeVars>>

CloseBegins ==
    /\ closing = "open" /\ starts > 0
    /\ closing' = "cancel" /\ stopping' = TRUE
    /\ UNCHANGED <<processVars, beating, active, gap, cancelled>>

(* Seeded fault: the context is not cancelled. *)
CloseOnlyStops ==
    /\ closing = "cancel"
    /\ closing' = "stop"
    /\ UNCHANGED <<processVars, beating, active, gap, stopping, cancelled>>

(* The context of every receiver is done: exec kills them. *)
CloseCancels ==
    /\ closing = "cancel"
    /\ closing' = "stop" /\ cancelled' = TRUE
    /\ killed' = killed \cup alive
    /\ UNCHANGED <<cmd, starts, alive, reaper, readers, unhealthy>>
    /\ UNCHANGED <<beating, active, gap, stopping>>

CloseStops ==
    /\ closing = "stop"
    /\ closing' = "wait" /\ active' = FALSE
    /\ killed' = killed \cup (alive \cap {cmd})
    /\ UNCHANGED <<cmd, starts, alive, reaper, readers, unhealthy>>
    /\ UNCHANGED <<beating, gap, stopping, cancelled>>

(* Seeded fault: reapers are not in the wait group. *)
CloseForgetsReapers ==
    /\ closing = "wait" /\ ~beating /\ readers = {}
    /\ closing' = "done"
    /\ UNCHANGED <<processVars, beating, active, gap, stopping, cancelled>>

(* s.wg.Wait returns. *)
CloseReturns ==
    /\ closing = "wait" /\ ~beating /\ readers = {}
    /\ \A p \in Processes : reaper[p] \in {"none", "gone"}
    /\ closing' = "done"
    /\ UNCHANGED <<processVars, beating, active, gap, stopping, cancelled>>

Close == CloseBegins \/ CloseCancels \/ CloseStops \/ CloseReturns

Line(p) == Activity(p) \/ Disconnect(p) \/ Reject(p)

Next ==
    \/ Start \/ Close
    \/ HeartbeatStale \/ HeartbeatEnds \/ GapOver
    \/ \E p \in Processes : Line(p) \/ ReadersEnd(p) \/ Exit(p) \/ Reaper(p)

(* Goroutines run, Close goes on once it is called, a killed process dies, *)
(* and the output of a dead one comes to its end.  Nothing makes a         *)
(* receiver write a line or exit, or main call Close.                      *)
Fairness ==
    /\ WF_vars(CloseCancels \/ CloseStops \/ CloseReturns)
    /\ WF_vars(HeartbeatEnds)
    /\ \A p \in Processes :
          /\ WF_vars(p \in killed /\ Exit(p))
          /\ WF_vars(Reaper(p)) /\ WF_vars(p \notin alive /\ ReadersEnd(p))

Spec == Init /\ [][Next]_vars /\ Fairness

----------------------------------------------------------------------------
(* Properties *)

(* The types of the variables; a process that lives, and the one in s.cmd, *)
(* has a reaper that waits for it.                                         *)
TypeOK ==
    /\ cmd \in Processes \cup {NoProcess}
    /\ starts \in 0..MaxStarts
    /\ alive \in SUBSET Processes /\ killed \in SUBSET Processes
    /\ \A p \in alive \cup ({cmd} \ {NoProcess}) : reaper[p] = "wait"
    /\ reaper \in [Processes -> Stages]
    /\ readers \in SUBSET Processes
    /\ beating \in BOOLEAN /\ active \in BOOLEAN /\ gap \in BOOLEAN
    /\ unhealthy \in BOOLEAN /\ stopping \in BOOLEAN /\ cancelled \in BOOLEAN
    /\ closing \in {"open", "cancel", "stop", "wait", "done"}

(* No receiver outlives Close, though forced and delayed restarts may be   *)
(* under way while it runs.                                                *)
CloseLeavesNoReceiver == closing = "done" => alive = {}

(* When there is no receiver and nobody left to start one, the health      *)
(* tracker says so: both ways in which the supervisor gives up report it.  *)
GivingUpIsReported ==
    starts > 0 /\ ~stopping /\ alive = {}
        /\ (\A p \in Processes : reaper[p] \in {"none", "gone"})
    => unhealthy

(* Close returns. *)
CloseEnds == closing # "open" ~> closing = "done"

(* Without a receiver there will be one again, unless the server is        *)
(* closed, or an attempt to start one has failed.                          *)
ReceiverComesBack ==
    (starts > 0 /\ alive = {}) ~>
        (alive # {} \/ stopping \/ unhealthy \/ starts = MaxStarts)

(* server.go:36: the Server supervises the ristreceiver process, so there  *)
(* are not two that it wants to keep.                                      *)
OneReceiver == \A p, q \in alive \ killed : p = q
=============================================================================
