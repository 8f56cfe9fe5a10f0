---------------------------- MODULE RelayProofs ----------------------------
(***************************************************************************)
(* Theorems about the relay, for any set of inputs and any number of       *)
(* processes.                                                              *)
(*                                                                         *)
(* That at most one ffmpeg lives is not inductive by itself.  The          *)
(* invariant it needs says why r.mu and sessionID are enough: a process    *)
(* that lives has a watcher that still waits for it, it is the latest one  *)
(* started, and it is the one that either r.cmd or the call that holds     *)
(* r.mu knows of.                                                          *)
(***************************************************************************)
EXTENDS Relay, BackoffProofs, TLAPS

USE InputsAssumption, StartsAssumption

(* A process that lives is the latest, and its watcher waits for it. *)
ProcessInv ==
    /\ \A p \in alive : watcher[p] = "wait" /\ p = sessionID
    /\ cmd \in {NoProcess, sessionID}

(* Between calls. *)
FreeInv ==
    LockFree =>
        /\ victim = NoProcess
        /\ \A p \in alive : running /\ cmd = p
        /\ running => cmd # NoProcess
        /\ stopped => alive = {} /\ ~running /\ ~currentURL /\ cmd = NoProcess

(* While a call waits under r.mu. *)
CallInv ==
    ~LockFree =>
        /\ cmd = NoProcess /\ victim \in Processes
        /\ \A p \in alive : p = victim
        /\ stopped <=> call = "stop"
        /\ call = "start" => argument \in Inputs

IInv == TypeOK /\ ProcessInv /\ FreeInv /\ CallInv

(* A relay that has just been made satisfies the invariant. *)
LEMMA InitIInv == Init => IInv
<1> SUFFICES ASSUME Init PROVE IInv
  OBVIOUS
<1> USE DEF Init, LockFree, Processes, NoProcess
<1>1. TypeOK
  <2>1. running \in BOOLEAN /\ currentURL \in BOOLEAN /\ stopped \in BOOLEAN
        /\ failed \in BOOLEAN /\ startFailed \in BOOLEAN
    BY Zenon
  <2>2. watcher \in [Processes -> Stages]
    BY DEF Stages
  <2> QED BY <2>1, <2>2 DEF TypeOK
<1>2. ProcessInv /\ FreeInv /\ CallInv
  <2>1. ~running /\ ~stopped
    BY Zenon
  <2> QED BY <2>1 DEF ProcessInv, FreeInv, CallInv
<1> QED BY <1>1, <1>2 DEF IInv

(* What a start of a process needs to find and leaves behind: with nothing *)
(* alive, and no call waiting, the invariant holds when it is spawned.     *)
LEMMA SpawnIInv ==
  ASSUME TypeOK, alive = {},
         NEW input \in Inputs \cup {NoInput},
         NEW watchers \in [Processes -> Stages],
         Spawn(input, watchers),
         call' = "none", victim' = NoProcess, stopped' = FALSE,
         argument' \in Inputs \cup {NoInput},
         lastInput' \in Inputs \cup {NoInput},
         attempt' \in Nat, restarts' \in Nat, saved' = saved,
         startFailed' \in BOOLEAN
  PROVE  IInv'
<1> USE DEF LockFree, NoProcess
<1> DEFINE new == sessionID + 1
<1>1. new \in Processes /\ sessionID' = new /\ cmd' = new
      /\ alive' = {new}
  BY DEF Spawn, TypeOK, Processes
<1>2. running' = TRUE /\ currentURL' = TRUE /\ failed' = FALSE
  BY DEF Spawn
<1>3. watcher' \in [Processes -> Stages] /\ watcher'[new] = "wait"
  <2>1. watcher' = [watchers EXCEPT ![new] = "wait"]
    BY DEF Spawn
  <2> QED BY <1>1, <2>1 DEF Stages
<1>4. plays' \in [Processes -> Inputs \cup {NoInput}]
  <2>1. plays' = [plays EXCEPT ![new] = input]
    BY DEF Spawn
  <2> QED BY <1>1, <2>1 DEF TypeOK
<1>5. running' \in BOOLEAN /\ currentURL' \in BOOLEAN
      /\ failed' \in BOOLEAN /\ stopped' \in BOOLEAN /\ running' /\ ~stopped'
  BY <1>2, Zenon
<1>6. sessionID' \in 0..MaxStarts
  BY <1>1 DEF Processes
<1>7. TypeOK'
  BY <1>1, <1>3, <1>4, <1>5, <1>6 DEF TypeOK
<1>8. ProcessInv' /\ FreeInv' /\ CallInv'
  BY <1>1, <1>3, <1>5 DEF ProcessInv, FreeInv, CallInv, Processes
<1> QED BY <1>7, <1>8 DEF IInv

(* And when it could not be spawned. *)
LEMMA SpawnFailsIInv ==
  ASSUME TypeOK, alive = {}, cmd' = cmd, cmd \in {NoProcess, sessionID},
         NEW watchers \in [Processes -> Stages],
         SpawnFails(watchers),
         call' = "none", victim' = NoProcess, stopped' = FALSE,
         argument' \in Inputs \cup {NoInput},
         lastInput' \in Inputs \cup {NoInput},
         attempt' \in Nat, restarts' \in Nat, saved' = saved,
         startFailed' \in BOOLEAN
  PROVE  IInv'
<1> USE DEF LockFree, NoProcess
<1>1. running' = FALSE /\ currentURL' = TRUE /\ failed' = TRUE
      /\ watcher' = watchers /\ sessionID' = sessionID /\ alive' = {}
      /\ plays' = plays
  BY DEF SpawnFails
<1>2. running' \in BOOLEAN /\ currentURL' \in BOOLEAN
      /\ failed' \in BOOLEAN /\ stopped' \in BOOLEAN /\ ~running' /\ ~stopped'
  BY <1>1, Zenon
<1>3. TypeOK'
  BY <1>1, <1>2 DEF TypeOK
<1>4. ProcessInv' /\ FreeInv' /\ CallInv'
  BY <1>1, <1>2 DEF ProcessInv, FreeInv, CallInv
<1> QED BY <1>3, <1>4 DEF IInv

(* So a session begun with nothing alive leaves the invariant behind. *)
LEMMA BeginIInv ==
  ASSUME TypeOK, alive = {}, NEW i \in Inputs, cmd \in {NoProcess, sessionID},
         BeginSession(i, cmd), call' = "none", victim' = NoProcess,
         argument' \in Inputs \cup {NoInput}
  PROVE  IInv'
<1>1. stopped' = FALSE /\ lastInput' = i /\ attempt' = 0 /\ restarts' = 0
      /\ saved' = saved
  BY DEF BeginSession
<1>2. watcher \in [Processes -> Stages]
  BY DEF TypeOK
<1>5. startFailed' \in BOOLEAN
  BY Zenon DEF BeginSession
<1>3. CASE Spawn(i, watcher)
  BY <1>1, <1>2, <1>3, <1>5, SpawnIInv DEF TypeOK
<1>4. CASE SpawnFails(watcher) /\ cmd' = cmd
  BY <1>1, <1>2, <1>4, <1>5, SpawnFailsIInv
<1> QED BY <1>3, <1>4 DEF BeginSession

(* Every step preserves the invariant. *)
LEMMA StepIInv == IInv /\ [Next]_vars => IInv'
<1> SUFFICES ASSUME IInv, [Next]_vars PROVE IInv'
  OBVIOUS
<1> USE DEF IInv, TypeOK, ProcessInv, FreeInv, CallInv, LockFree, Processes,
            NoProcess, callVars, sessionVars, processVars, historyVars
<1>1. ASSUME NEW i \in Inputs, StartSession(i) PROVE IInv'
  <2>1. CASE running
    BY <1>1, <2>1 DEF StartSession
  <2>2. CASE ~running
    <3>1. BeginSession(i, cmd) /\ call' = call /\ victim' = victim
          /\ argument' = argument /\ alive = {} /\ call = "none"
      BY <1>1, <2>2 DEF StartSession
    <3>2. victim = NoProcess
      BY <3>1
    <3> QED BY <3>1, <3>2, BeginIInv
  <2> QED BY <2>1, <2>2
<1>2. CASE StopSession
  BY <1>2 DEF StopSession
<1>3. CASE KillVictim
  BY <1>3 DEF KillVictim
<1>4. CASE FinishCall
  <2>1. alive = {}
    BY <1>4 DEF FinishCall, Reaped
  <2>2. CASE call = "start"
    BY <1>4, <2>1, <2>2, BeginIInv DEF FinishCall
  <2>3. CASE call # "start"
    BY <1>4, <2>1, <2>3 DEF FinishCall
  <2> QED BY <2>2, <2>3
<1>5. ASSUME NEW p \in Processes, Exit(p) PROVE IInv'
  BY <1>5 DEF Exit
<1>6. ASSUME NEW p \in Processes, WatchReap(p) PROVE IInv'
  BY <1>6 DEF WatchReap, Stages
<1>7. ASSUME NEW p \in Processes, WatchCheck(p) PROVE IInv'
  BY <1>7 DEF WatchCheck, Stages
<1>8. ASSUME NEW p \in Processes, Schedule(p) PROVE IInv'
  BY <1>8 DEF Schedule, Stages
<1>9. ASSUME NEW p \in Processes, Restart(p) PROVE IInv'
  <2>1. CASE stopped \/ sessionID # p
    BY <1>9, <2>1 DEF Restart, Stages
  <2>2. CASE ~stopped /\ sessionID = p
    <3> DEFINE ended == [watcher EXCEPT ![p] = "gone"]
    <3>1. alive = {}
      BY <1>9, <2>2 DEF Restart
    <3>2. stopped' = FALSE
      <4>1. stopped' = stopped
        BY <1>9 DEF Restart
      <4> QED BY <4>1, <2>2
    <3>3. ended \in [Processes -> Stages]
          /\ saved[p] \in Inputs \cup {NoInput}
      BY DEF Stages
    <3>4. call' = "none" /\ victim' = NoProcess
          /\ argument' \in Inputs \cup {NoInput}
          /\ lastInput' \in Inputs \cup {NoInput}
          /\ attempt' \in Nat /\ saved' = saved
      BY <1>9 DEF Restart
    <3>8. startFailed' \in BOOLEAN
      <4>1. startFailed' = startFailed
        BY <1>9, <2>2 DEF Restart
      <4> QED BY <4>1
    <3>5. TypeOK /\ cmd \in {NoProcess, sessionID} /\ restarts \in Nat
      OBVIOUS
    <3> HIDE DEF ended, IInv, TypeOK, Processes, NoProcess
    <3>6. CASE Spawn(saved[p], ended) /\ restarts' = restarts + 1
      <4>1. restarts' \in Nat
        BY <3>5, <3>6
      <4> QED BY <3>1, <3>2, <3>3, <3>4, <3>5, <3>6, <3>8, <4>1, SpawnIInv
    <3>7. CASE SpawnFails(ended) /\ UNCHANGED <<cmd, restarts>>
      BY <3>1, <3>2, <3>3, <3>4, <3>5, <3>7, <3>8, SpawnFailsIInv
    <3> QED BY <1>9, <2>2, <3>6, <3>7 DEF Restart, ended
  <2> QED BY <2>1, <2>2
<1>10. CASE UNCHANGED vars
  BY <1>10 DEF vars
<1> QED
  BY <1>1, <1>2, <1>3, <1>4, <1>5, <1>6, <1>7, <1>8, <1>9, <1>10
     DEF Next, Watch

(* The types, and that two ffmpeg processes never run at the same time.    *)
THEOREM OneFfmpeg == Spec => [](TypeOK /\ AtMostOneFfmpeg)
<1>1. IInv => TypeOK /\ AtMostOneFfmpeg
  BY DEF IInv, ProcessInv, AtMostOneFfmpeg
<1> QED BY <1>1, InitIInv, StepIInv, PTL DEF Spec

(* Between calls the process that lives is the one the relay can stop, and *)
(* after a stop there is none.                                             *)
THEOREM ProcessesAreOwned == Spec => [](LiveProcessIsOwned /\ StoppedMeansSilent)
<1>1. IInv => LiveProcessIsOwned /\ StoppedMeansSilent
  BY DEF IInv, ProcessInv, FreeInv, LiveProcessIsOwned, StoppedMeansSilent
<1> QED BY <1>1, InitIInv, StepIInv, PTL DEF Spec

(* TypeOK of Relay: the types of the relay's variables.                    *)
THEOREM RelayTyped == Spec => []TypeOK
BY OneFfmpeg, PTL

(* StoppedMeansSilent of Relay: what StopSession left stays silent, also   *)
(* when watchers of earlier processes wake up.                             *)
THEOREM StopIsFinal == Spec => []StoppedMeansSilent
BY ProcessesAreOwned, PTL

----------------------------------------------------------------------------
(* The session that is played.  A start that works leaves a new sessionID  *)
(* behind, so that a watcher of an earlier session cannot mistake itself   *)
(* for the current one's.  After a start that failed it can; then it plays *)
(* some session asked for earlier.                                         *)

SessionInv ==
    ~startFailed =>
        /\ \A p \in alive : plays[p] = lastInput
        /\ \A p \in Processes :
              watcher[p] \in {"schedule", "sleep"} /\ p = sessionID /\ ~stopped
                => saved[p] = lastInput

(* What a watcher has saved was asked for. *)
InputInv ==
    \A p \in Processes :
        /\ watcher[p] # "none" => lastInput \in Inputs
        /\ watcher[p] \in {"schedule", "sleep"} => saved[p] \in Inputs

BackoffInv ==
    ~startFailed =>
        /\ restarts <= attempt
        /\ \A p \in Processes :
              watcher[p] = "sleep" /\ p = sessionID => restarts < attempt

HistoryInv == SessionInv /\ InputInv /\ BackoffInv

(* A spawn makes the new process the only one, and its watcher wait. *)
LEMMA SpawnResult ==
  ASSUME TypeOK, alive = {}, NEW input, NEW watchers \in [Processes -> Stages],
         Spawn(input, watchers)
  PROVE  /\ sessionID' \in Processes /\ sessionID' # sessionID
         /\ alive' = {sessionID'} /\ plays'[sessionID'] = input
         /\ watcher' = [watchers EXCEPT ![sessionID'] = "wait"]
         /\ watcher'[sessionID'] = "wait"
  BY DEF Spawn, TypeOK, Processes

(* Every step preserves the three. *)
LEMMA StepHistoryInv ==
  ASSUME IInv, HistoryInv, [Next]_vars
  PROVE  HistoryInv'
<1> USE DEF HistoryInv, SessionInv, InputInv, BackoffInv, callVars, sessionVars,
            processVars, historyVars
<1>0. TypeOK /\ watcher \in [Processes -> Stages] /\ attempt \in Nat
      /\ restarts \in Nat /\ saved \in [Processes -> Inputs \cup {NoInput}]
  BY DEF IInv, TypeOK
<1>1. ASSUME NEW i \in Inputs, alive = {}, BeginSession(i, cmd)
      PROVE HistoryInv'
  <2>1. lastInput' = i /\ attempt' = 0 /\ restarts' = 0 /\ saved' = saved
    BY <1>1 DEF BeginSession
  <2>2. CASE Spawn(i, watcher) /\ startFailed' = FALSE
    <3>1. alive' = {sessionID'} /\ plays'[sessionID'] = i
          /\ watcher' = [watcher EXCEPT ![sessionID'] = "wait"]
          /\ watcher'[sessionID'] = "wait"
      BY <1>0, <1>1, <2>2, SpawnResult
    <3> QED BY <1>0, <2>1, <3>1
  <2>3. CASE SpawnFails(watcher) /\ startFailed' = TRUE
    <3>1. watcher' = watcher
      BY <2>3 DEF SpawnFails
    <3>2. startFailed'
      BY <2>3, Zenon
    <3> QED BY <2>1, <3>1, <3>2
  <2> QED BY <1>1, <2>2, <2>3 DEF BeginSession
<1>2. ASSUME NEW i \in Inputs, StartSession(i) PROVE HistoryInv'
  <2>1. CASE running
    BY <1>2, <2>1 DEF StartSession
  <2>2. CASE ~running
    <3>1. alive = {}
      BY <1>2, <2>2 DEF StartSession, IInv, FreeInv
    <3> QED BY <1>1, <1>2, <2>2, <3>1 DEF StartSession
  <2> QED BY <2>1, <2>2
<1>3. CASE StopSession
  <2>1. UNCHANGED <<alive, plays, lastInput, watcher, saved, sessionID,
                    attempt, restarts, startFailed>> /\ stopped'
    BY <1>3, Zenon DEF StopSession
  <2> QED BY <2>1
<1>4. CASE KillVictim
  BY <1>4 DEF KillVictim
<1>5. CASE FinishCall
  <2>1. alive = {}
    BY <1>5 DEF FinishCall, Reaped, IInv, ProcessInv, CallInv
  <2>2. CASE call = "start"
    BY <1>1, <1>5, <2>1, <2>2 DEF FinishCall, IInv, CallInv
  <2>3. CASE call # "start"
    BY <1>5, <2>3 DEF FinishCall
  <2> QED BY <2>2, <2>3
<1>6. ASSUME NEW q \in Processes, Exit(q) PROVE HistoryInv'
  BY <1>6 DEF Exit
<1>7. ASSUME NEW q \in Processes, WatchReap(q) PROVE HistoryInv'
  BY <1>0, <1>7 DEF WatchReap
<1>8. ASSUME NEW q \in Processes, WatchCheck(q) PROVE HistoryInv'
  BY <1>0, <1>8 DEF WatchCheck
<1>9. ASSUME NEW q \in Processes, Schedule(q) PROVE HistoryInv'
  BY <1>0, <1>9 DEF Schedule
<1>10. ASSUME NEW q \in Processes, Restart(q) PROVE HistoryInv'
  <2> DEFINE ended == [watcher EXCEPT ![q] = "gone"]
  <2>1. ended \in [Processes -> Stages]
    BY <1>0 DEF Stages
  <2>2. UNCHANGED <<saved, stopped, lastInput, attempt, startFailed>>
    BY <1>10 DEF Restart
  <2>3. CASE stopped \/ sessionID # q
    BY <1>0, <1>10, <2>3 DEF Restart
  <2>4. CASE ~stopped /\ sessionID = q
    <3>1. alive = {} /\ lastInput \in Inputs
      BY <1>10, <2>4 DEF Restart, IInv, ProcessInv
    <3>2. ~startFailed => saved[q] = lastInput /\ restarts < attempt
      BY <1>10, <2>4 DEF Restart
    <3>5. \A p \in Processes :
             ended[p] \in {"schedule", "sleep"} => saved[p] \in Inputs
      BY <1>0
    <3> HIDE DEF ended
    <3>3. CASE Spawn(saved[q], ended) /\ restarts' = restarts + 1
      <4>1. alive' = {sessionID'} /\ plays'[sessionID'] = saved[q]
            /\ watcher' = [ended EXCEPT ![sessionID'] = "wait"]
            /\ watcher'[sessionID'] = "wait"
        BY <1>0, <2>1, <3>1, <3>3, SpawnResult
      <4>2. SessionInv' /\ BackoffInv'
        BY <1>0, <2>2, <3>2, <3>3, <4>1
      <4>3. InputInv'
        BY <2>1, <2>2, <3>1, <3>5, <4>1
      <4> QED BY <4>2, <4>3
    <3>4. CASE SpawnFails(ended) /\ UNCHANGED <<cmd, restarts>>
      BY <1>0, <2>2, <3>1, <3>4 DEF SpawnFails, ended
    <3> QED BY <1>10, <2>4, <3>3, <3>4 DEF Restart, ended
  <2> QED BY <2>3, <2>4
<1>11. CASE UNCHANGED vars
  BY <1>11 DEF vars
<1> QED
  BY <1>2, <1>3, <1>4, <1>5, <1>6, <1>7, <1>8, <1>9, <1>10, <1>11
     DEF Next, Watch

(* What plays is the latest process, if it lives. *)
LEMMA PlayingValue ==
  ASSUME ProcessInv
  PROVE  Playing = IF alive = {} THEN NoInput ELSE plays[sessionID]
  BY DEF ProcessInv, Playing

(* Every step is a step of the abstract relay, or changes nothing of it.   *)
LEMMA StepRelaySession ==
  ASSUME IInv, HistoryInv, IInv', [Next]_vars
  PROVE  [Session!RelayNext]_(Session!relayVars)
<1> USE DEF Session!RelayNext, Session!relayVars, Want, callVars, sessionVars,
            processVars, historyVars, LockFree
<1>0. Playing = (IF alive = {} THEN NoInput ELSE plays[sessionID])
      /\ Playing' = (IF alive' = {} THEN NoInput ELSE plays'[sessionID'])
  <2>1. Playing = IF alive = {} THEN NoInput ELSE plays[sessionID]
    BY PlayingValue DEF IInv
  <2>2. (Playing = IF alive = {} THEN NoInput ELSE plays[sessionID])'
    BY DEF IInv, ProcessInv, Playing
  <2> QED BY <2>1, <2>2
<1>1. ASSUME NEW i \in Inputs, alive = {}, BeginSession(i, cmd), call' = "none"
      PROVE Session!Start(i) \/ Session!StartFails
  <2>1. lastInput' = i /\ ~stopped'
    BY <1>1 DEF BeginSession
  <2>2. CASE Spawn(i, watcher) /\ startFailed' = FALSE
    <3>1. alive' # {} /\ plays'[sessionID'] = i
      BY <1>1, <2>2, SpawnResult DEF IInv, TypeOK
    <3>2. ~startFailed'
      BY <2>2, Zenon
    <3> QED BY <1>0, <2>1, <3>1, <3>2 DEF Session!Start
  <2>3. CASE SpawnFails(watcher) /\ startFailed' = TRUE
    <3>1. alive' = {} /\ startFailed'
      BY <1>1, <2>3, Zenon DEF SpawnFails
    <3> QED BY <1>0, <2>1, <3>1 DEF Session!StartFails
  <2> QED BY <1>1, <2>2, <2>3 DEF BeginSession
<1>2. ASSUME NEW i \in Inputs, StartSession(i)
      PROVE [Session!RelayNext]_(Session!relayVars)
  <2>1. CASE running
    <3>1. UNCHANGED <<alive, plays, sessionID, lastInput, stopped, startFailed>>
          /\ ~stopped
      BY <1>2, <2>1 DEF StartSession, IInv, FreeInv
    <3>2. call' = "start"
      BY <1>2, <2>1 DEF StartSession
    <3> QED BY <1>0, <3>1, <3>2
  <2>2. CASE ~running
    <3>1. alive = {} /\ call' = "none" /\ BeginSession(i, cmd)
      BY <1>2, <2>2 DEF StartSession, IInv, FreeInv
    <3> QED BY <1>1, <3>1
  <2> QED BY <2>1, <2>2
<1>3. CASE StopSession
  <2>1. UNCHANGED <<alive, plays, sessionID, lastInput, startFailed>> /\ stopped'
    BY <1>3, Zenon DEF StopSession
  <2>2. CASE cmd # NoProcess
    <3>1. ~stopped /\ call' = "stop"
      BY <1>3, <2>2 DEF StopSession, IInv, FreeInv
    <3> QED BY <1>0, <2>1, <3>1
  <2>3. CASE cmd = NoProcess
    <3>1. alive = {} /\ call' = "none"
      BY <1>3, <2>3 DEF StopSession, IInv, FreeInv, TypeOK, Processes, NoProcess
    <3> QED BY <1>0, <2>1, <3>1 DEF Session!Stop
  <2> QED BY <2>2, <2>3
<1>4. CASE KillVictim
  <2>1. alive' = {} /\ UNCHANGED <<lastInput, stopped, call, startFailed>>
    BY <1>4 DEF KillVictim, IInv, CallInv
  <2> QED BY <1>0, <2>1 DEF Session!Die
<1>5. CASE FinishCall
  <2>1. alive = {}
    BY <1>5 DEF FinishCall, Reaped, IInv, ProcessInv, CallInv
  <2>2. CASE call = "start"
    BY <1>1, <1>5, <2>1, <2>2 DEF FinishCall, IInv, CallInv
  <2>3. CASE call # "start"
    <3>1. UNCHANGED <<alive, plays, sessionID, lastInput, stopped>>
          /\ call' = "none" /\ stopped
      BY <1>5, <2>3 DEF FinishCall, IInv, CallInv, TypeOK
    <3> QED BY <1>0, <2>1, <3>1 DEF Session!Stop
  <2> QED BY <2>2, <2>3
<1>6. ASSUME NEW q \in Processes, Exit(q)
      PROVE [Session!RelayNext]_(Session!relayVars)
  <2>1. alive' = {} /\ UNCHANGED <<lastInput, stopped, call, startFailed>>
    BY <1>6 DEF Exit, IInv, ProcessInv
  <2> QED BY <1>0, <2>1 DEF Session!Die
<1>7. ASSUME NEW q \in Processes, WatchReap(q) \/ WatchCheck(q) \/ Schedule(q)
      PROVE [Session!RelayNext]_(Session!relayVars)
  <2>1. UNCHANGED <<alive, plays, sessionID, lastInput, stopped, call, startFailed>>
    BY <1>7 DEF WatchReap, WatchCheck, Schedule
  <2> QED BY <1>0, <2>1
<1>8. ASSUME NEW q \in Processes, Restart(q)
      PROVE [Session!RelayNext]_(Session!relayVars)
  <2> DEFINE ended == [watcher EXCEPT ![q] = "gone"]
  <2>1. UNCHANGED <<lastInput, stopped, call, startFailed>> /\ call = "none"
    BY <1>8 DEF Restart
  <2>2. CASE UNCHANGED <<alive, plays, sessionID>>
    BY <1>0, <2>1, <2>2
  <2>3. CASE ~stopped /\ sessionID = q /\ Spawn(saved[q], ended)
    <3>1. alive = {} /\ ended \in [Processes -> Stages]
          /\ saved[q] \in Inputs /\ (~startFailed => saved[q] = lastInput)
      BY <1>8, <2>3
         DEF Restart, IInv, ProcessInv, TypeOK, Stages, HistoryInv, SessionInv, InputInv
    <3>2. alive' # {} /\ plays'[sessionID'] = saved[q]
      BY <2>3, <3>1, SpawnResult DEF IInv
    <3>3. AnyInput \notin Inputs /\ lastInput \in Inputs \cup {NoInput}
          /\ AnyInput # NoInput
      BY DEF IInv, TypeOK
    <3>4. CASE startFailed
      BY <1>0, <2>1, <2>3, <3>1, <3>2, <3>4 DEF Session!Revive
    <3>5. CASE ~startFailed
      BY <1>0, <2>1, <2>3, <3>1, <3>2, <3>3, <3>5 DEF Session!Revive
    <3> QED BY <3>4, <3>5
  <2> QED
    BY <1>8, <2>2, <2>3 DEF Restart, SpawnFails
<1>9. CASE UNCHANGED vars
  BY <1>0, <1>9 DEF vars
<1> QED
  BY <1>2, <1>3, <1>4, <1>5, <1>6, <1>7, <1>8, <1>9 DEF Next, Watch

(* The relay plays the session last asked for or nothing, and nothing      *)
(* after a stop, through any overlap of calls, exits and restarts; after a *)
(* start that failed, some session, until the next that works or a stop.   *)
THEOREM RelayPlaysTheSession == Spec => ImplementsRelaySession
<1>1. Init => HistoryInv /\ Session!RelayInit
  BY DEF Init, HistoryInv, SessionInv, InputInv, BackoffInv, Session!RelayInit,
         Want, Playing
<1>2. IInv /\ HistoryInv /\ [Next]_vars => (IInv /\ HistoryInv)'
  BY StepIInv, StepHistoryInv
<1>3. IInv /\ HistoryInv /\ IInv' /\ [Next]_vars
        => [Session!RelayNext]_(Session!relayVars)
  BY StepRelaySession
<1> QED
  BY <1>1, <1>2, <1>3, InitIInv, PTL
     DEF Spec, ImplementsRelaySession, Session!RelaySafety

(* RestartsTheWantedSession of Relay, which the code breaks after a        *)
(* StartSession that failed: it breaks it in no other way.  Whatever       *)
(* watchers wake up, what is spawned otherwise is the session last asked   *)
(* for.                                                                    *)
THEOREM OnlyFailedStartsMislead ==
  Spec => [][~startFailed' => \A p \in alive' \ alive : plays'[p] = lastInput']_vars
<1>1. Init => HistoryInv
  BY DEF Init, HistoryInv, SessionInv, InputInv, BackoffInv
<1>2. IInv /\ HistoryInv /\ [Next]_vars => (IInv /\ HistoryInv)'
  BY StepIInv, StepHistoryInv
<1>3. HistoryInv' =>
        [~startFailed' => \A p \in alive' \ alive : plays'[p] = lastInput']_vars
  BY DEF HistoryInv, SessionInv
<1> QED BY <1>1, <1>2, <1>3, InitIInv, PTL DEF Spec

(* So a relay whose starts all work restarts what is wanted. *)
THEOREM RestartsAreWanted == Spec /\ []~startFailed => RestartsTheWantedSession
<1>1. ~startFailed' /\ [~startFailed' =>
                           \A p \in alive' \ alive : plays'[p] = lastInput']_vars
      => [\A p \in alive' \ alive : plays'[p] = lastInput']_vars
  OBVIOUS
<1> QED BY <1>1, OnlyFailedStartsMislead, PTL DEF RestartsTheWantedSession

(* And each automatic restart of a session is delayed as the n-th.         *)
THEOREM BackoffGrows == Spec => []RestartsAreBackedOff
<1>1. Init => HistoryInv
  BY DEF Init, HistoryInv, SessionInv, InputInv, BackoffInv
<1>2. IInv /\ HistoryInv /\ [Next]_vars => (IInv /\ HistoryInv)'
  BY StepIInv, StepHistoryInv
<1>3. HistoryInv => RestartsAreBackedOff
  BY DEF HistoryInv, BackoffInv, RestartsAreBackedOff
<1> QED
  BY <1>1, <1>2, <1>3, InitIInv, PTL DEF Spec

(* BackoffSaturates of Relay: no number of attempts gets past the maximum  *)
(* delay, or makes one that was long short again.                          *)
THEOREM BackoffNeverOverflows == Spec => []BackoffSaturates
<1>1. TypeOK => BackoffSaturates
  <2> SUFFICES ASSUME TypeOK, NEW b \in Backoffs, NEW n \in attempt..MaxAttempt
               PROVE  n \in Growing[b]
    BY DEF BackoffSaturates
  <2>1. n \in 0..MaxAttempt
    BY AttemptAssumption DEF TypeOK
  <2> QED BY <2>1, EveryAttemptGrows
<1> QED BY <1>1, RelayTyped, PTL
=============================================================================
