------------------------------- MODULE Relay -------------------------------
(***************************************************************************)
(* internal/relay/ffmpeg.go: the Relay that keeps one ffmpeg child process *)
(* running for the current session, and starts it again when it dies.      *)
(*                                                                         *)
(* StartSession and StopSession hold r.mu for the whole call, including    *)
(* the wait in stopUnlocked for the old process to be reaped: such a call  *)
(* is begun by one action, stays in "call" and is ended by FinishCall.     *)
(* While it waits only what needs no r.mu can move: processes, and the     *)
(* watchers up to close(done).  A watcher that goes on to restart ffmpeg   *)
(* takes r.mu three times, with nothing held in between.                   *)
(*                                                                         *)
(* A process is named by the sessionID it was started under.               *)
(***************************************************************************)
EXTENDS Integers, FiniteSets, Backoff

CONSTANTS
    Inputs,     \* what a session plays: "pipe:0" or a URL
    NoInput,
    AnyInput,   \* stands for any input after a start that failed
    MaxStarts   \* bound: processes ever started

ASSUME InputsAssumption ==
    NoInput \notin Inputs /\ AnyInput \notin Inputs \cup {NoInput}
ASSUME StartsAssumption == MaxStarts \in Nat

NoProcess == 0
Processes == 1..MaxStarts

(* The stages of a watch goroutine, between which it holds no lock. *)
Stages == {"none", "wait", "reaped", "schedule", "sleep", "gone"}

VARIABLES
    call,        \* who holds r.mu waiting: "none", "start" or "stop"
    victim,      \* the process that call waits for
    argument,    \* the input of the waiting StartSession
    cmd,         \* r.cmd (set and cleared together with r.done)
    running,     \* r.running
    currentURL,  \* r.currentURL: is an output URL reported?
    sessionID,   \* r.sessionID
    stopped,     \* r.stopped
    lastInput,   \* r.lastInput
    attempt,     \* r.attempt
    alive,       \* ffmpeg processes that have not exited
    plays,       \* the -i argument of each process
    watcher,     \* where the watch goroutine of each process is
    saved,       \* the input each watcher read in watch
    restarts,    \* history: automatic restarts since the last StartSession
    failed,      \* history: the last attempt to spawn ffmpeg failed
    startFailed  \* history: the last StartSession failed

callVars == <<call, victim, argument>>
sessionVars == <<stopped, lastInput, attempt>>
processVars == <<cmd, running, currentURL, sessionID, alive, plays>>
historyVars == <<restarts, failed, startFailed>>
vars == <<call, victim, argument, cmd, running, currentURL, sessionID, stopped,
          lastInput, attempt, alive, plays, watcher, saved, restarts, failed,
          startFailed>>

(* New. *)
Init ==
    /\ call = "none" /\ victim = NoProcess /\ argument = NoInput
    /\ cmd = NoProcess /\ running = FALSE /\ currentURL = FALSE
    /\ sessionID = 0 /\ stopped = FALSE /\ lastInput = NoInput /\ attempt = 0
    /\ alive = {} /\ plays = [p \in Processes |-> NoInput]
    /\ watcher = [p \in Processes |-> "none"]
    /\ saved = [p \in Processes |-> NoInput]
    /\ restarts = 0 /\ failed = FALSE /\ startFailed = FALSE

LockFree == call = "none"

(* close(done) has happened. *)
Reaped(p) == watcher[p] # "wait"

----------------------------------------------------------------------------
(* startLocked, which either spawns ffmpeg under a new sessionID or fails  *)
(* with r.cmd as the caller left it.                                       *)

Spawn(input, watchers) ==
    /\ sessionID < MaxStarts
    /\ sessionID' = sessionID + 1
    /\ cmd' = sessionID + 1
    /\ running' = TRUE
    /\ currentURL' = TRUE
    /\ alive' = alive \cup {sessionID + 1}
    /\ plays' = [plays EXCEPT ![sessionID + 1] = input]
    /\ watcher' = [watchers EXCEPT ![sessionID + 1] = "wait"]
    /\ failed' = FALSE

SpawnFails(watchers) ==
    /\ running' = FALSE
    /\ currentURL' = TRUE
    /\ watcher' = watchers
    /\ failed' = TRUE
    /\ UNCHANGED <<sessionID, alive, plays>>

(* StartSession from the point where no old process is in the way. *)
BeginSession(input, cmdLeft) ==
    /\ stopped' = FALSE
    /\ lastInput' = input
    /\ attempt' = 0
    /\ restarts' = 0
    /\ \/ Spawn(input, watcher) /\ startFailed' = FALSE
       \/ SpawnFails(watcher) /\ cmd' = cmdLeft /\ startFailed' = TRUE
    /\ UNCHANGED saved

(* StartSession: a session that is running is stopped first.  No call is   *)
(* begun that the bound on processes would leave waiting.                  *)
StartSession(input) ==
    /\ LockFree /\ sessionID < MaxStarts
    /\ IF running
       THEN /\ call' = "start" /\ victim' = cmd /\ argument' = input
            /\ cmd' = NoProcess
            /\ UNCHANGED <<running, currentURL, sessionID, alive, plays>>
            /\ UNCHANGED <<watcher, saved>>
            /\ UNCHANGED sessionVars /\ UNCHANGED historyVars
       ELSE BeginSession(input, cmd) /\ UNCHANGED callVars

(* StopSession; stopUnlocked waits if there is a process to wait for, even *)
(* one that has died already.                                              *)
StopSession ==
    /\ LockFree
    /\ stopped' = TRUE
    /\ IF cmd # NoProcess
       THEN /\ call' = "stop" /\ victim' = cmd /\ cmd' = NoProcess
            /\ UNCHANGED <<running, currentURL>>
       ELSE /\ running' = FALSE /\ currentURL' = FALSE
            /\ UNCHANGED <<call, victim, cmd>>
    /\ UNCHANGED <<argument, sessionID, lastInput, attempt, alive, plays>>
    /\ UNCHANGED <<watcher, saved>> /\ UNCHANGED historyVars

(* The 300 ms are over and the victim is still there. *)
KillVictim ==
    /\ ~LockFree /\ victim \in alive
    /\ alive' = alive \ {victim}
    /\ UNCHANGED <<cmd, running, currentURL, sessionID, plays>>
    /\ UNCHANGED callVars /\ UNCHANGED sessionVars /\ UNCHANGED historyVars
    /\ UNCHANGED <<watcher, saved>>

(* <-done: the rest of stopUnlocked, and of the call. *)
FinishCall ==
    /\ ~LockFree /\ Reaped(victim)
    /\ call' = "none" /\ victim' = NoProcess /\ argument' = NoInput
    /\ IF call = "start"
       THEN BeginSession(argument, cmd)
       ELSE /\ running' = FALSE /\ currentURL' = FALSE
            /\ UNCHANGED <<cmd, sessionID, alive, plays, watcher, saved>>
            /\ UNCHANGED sessionVars /\ UNCHANGED historyVars

----------------------------------------------------------------------------
(* The processes and their watchers *)

(* ffmpeg exits by itself: end of input, closed stdin, a crash. *)
Exit(p) ==
    /\ p \in alive
    /\ alive' = alive \ {p}
    /\ UNCHANGED <<cmd, running, currentURL, sessionID, plays>>
    /\ UNCHANGED callVars /\ UNCHANGED sessionVars /\ UNCHANGED historyVars
    /\ UNCHANGED <<watcher, saved>>

(* Seeded fault: done is closed under r.mu. *)
WatchReapLocked(p) ==
    /\ LockFree /\ watcher[p] = "wait" /\ p \notin alive
    /\ watcher' = [watcher EXCEPT ![p] = "reaped"]
    /\ UNCHANGED saved
    /\ UNCHANGED callVars /\ UNCHANGED sessionVars
    /\ UNCHANGED processVars /\ UNCHANGED historyVars

(* watch: cmd.Wait returns, close(done). *)
WatchReap(p) ==
    /\ watcher[p] = "wait" /\ p \notin alive
    /\ watcher' = [watcher EXCEPT ![p] = "reaped"]
    /\ UNCHANGED saved
    /\ UNCHANGED callVars /\ UNCHANGED sessionVars
    /\ UNCHANGED processVars /\ UNCHANGED historyVars

(* Seeded fault: a watcher clears r.running whoever runs. *)
WatchCheckClears(p) ==
    /\ LockFree /\ watcher[p] = "reaped"
    /\ running' = FALSE
    /\ saved' = [saved EXCEPT ![p] = lastInput]
    /\ watcher' = [watcher EXCEPT ![p] =
                      IF sessionID # p \/ stopped THEN "gone" ELSE "schedule"]
    /\ UNCHANGED <<cmd, currentURL, sessionID, alive, plays>>
    /\ UNCHANGED callVars /\ UNCHANGED sessionVars /\ UNCHANGED historyVars

(* watch: the part under r.mu. *)
WatchCheck(p) ==
    LET stale == sessionID # p IN
    /\ LockFree /\ watcher[p] = "reaped"
    /\ running' = (running /\ stale)
    /\ saved' = [saved EXCEPT ![p] = lastInput]
    /\ watcher' = [watcher EXCEPT ![p] =
                      IF stale \/ stopped THEN "gone" ELSE "schedule"]
    /\ UNCHANGED <<cmd, currentURL, sessionID, alive, plays>>
    /\ UNCHANGED callVars /\ UNCHANGED sessionVars /\ UNCHANGED historyVars

(* Seeded faults: a second attempt is given up; attempts count down. *)
ScheduleOnce(p) ==
    /\ LockFree /\ watcher[p] = "schedule"
    /\ attempt' = attempt + 1
    /\ watcher' = [watcher EXCEPT ![p] = IF attempt = 0 THEN "sleep" ELSE "gone"]
    /\ UNCHANGED <<stopped, lastInput, saved>>
    /\ UNCHANGED callVars /\ UNCHANGED processVars /\ UNCHANGED historyVars

ScheduleCountsDown(p) ==
    /\ LockFree /\ watcher[p] = "schedule"
    /\ attempt' = attempt - 1
    /\ watcher' = [watcher EXCEPT ![p] = "sleep"]
    /\ UNCHANGED <<stopped, lastInput, saved>>
    /\ UNCHANGED callVars /\ UNCHANGED processVars /\ UNCHANGED historyVars

(* scheduleRestart: count the attempt, then sleep. *)
Schedule(p) ==
    /\ LockFree /\ watcher[p] = "schedule"
    /\ attempt' = attempt + 1
    /\ watcher' = [watcher EXCEPT ![p] = "sleep"]
    /\ UNCHANGED <<stopped, lastInput, saved>>
    /\ UNCHANGED callVars /\ UNCHANGED processVars /\ UNCHANGED historyVars

(* Seeded faults: a restart that does not ask whether its session was      *)
(* superseded, or stopped; one that forgets the attempts so far.           *)
RestartSuperseded(p) ==
    LET ended == [watcher EXCEPT ![p] = "gone"] IN
    /\ LockFree /\ watcher[p] = "sleep"
    /\ IF stopped
       THEN watcher' = ended /\ UNCHANGED processVars /\ UNCHANGED historyVars
       ELSE Spawn(saved[p], ended) /\ UNCHANGED <<restarts, startFailed>>
    /\ UNCHANGED saved /\ UNCHANGED callVars /\ UNCHANGED sessionVars

RestartStopped(p) ==
    LET ended == [watcher EXCEPT ![p] = "gone"] IN
    /\ LockFree /\ watcher[p] = "sleep"
    /\ IF sessionID # p
       THEN watcher' = ended /\ UNCHANGED processVars /\ UNCHANGED historyVars
       ELSE Spawn(saved[p], ended) /\ UNCHANGED <<restarts, startFailed>>
    /\ UNCHANGED saved /\ UNCHANGED callVars /\ UNCHANGED sessionVars

RestartForgets(p) ==
    LET ended == [watcher EXCEPT ![p] = "gone"] IN
    /\ LockFree /\ watcher[p] = "sleep" /\ ~stopped /\ sessionID = p
    /\ Spawn(saved[p], ended)
    /\ restarts' = restarts + 1 /\ attempt' = 0
    /\ UNCHANGED <<saved, stopped, lastInput, startFailed>> /\ UNCHANGED callVars

(* scheduleRestart: after the sleep.  A restart that fails is the last.    *)
Restart(p) ==
    LET ended == [watcher EXCEPT ![p] = "gone"] IN
    /\ LockFree /\ watcher[p] = "sleep"
    /\ IF stopped \/ sessionID # p
       THEN /\ watcher' = ended
            /\ UNCHANGED processVars /\ UNCHANGED historyVars
       ELSE /\ \/ Spawn(saved[p], ended) /\ restarts' = restarts + 1
               \/ SpawnFails(ended) /\ UNCHANGED <<cmd, restarts>>
            /\ UNCHANGED startFailed
    /\ UNCHANGED saved /\ UNCHANGED callVars /\ UNCHANGED sessionVars

----------------------------------------------------------------------------
Watch(p) == WatchReap(p) \/ WatchCheck(p) \/ Schedule(p) \/ Restart(p)

Next ==
    \/ \E i \in Inputs : StartSession(i)
    \/ StopSession \/ KillVictim \/ FinishCall
    \/ \E p \in Processes : Exit(p) \/ Watch(p)

(* Goroutines run, and a call that holds r.mu goes on.  Neither calls nor  *)
(* exits of ffmpeg have to happen.                                         *)
Fairness ==
    /\ WF_vars(KillVictim) /\ WF_vars(FinishCall)
    /\ \A p \in Processes : WF_vars(Watch(p))

Spec == Init /\ [][Next]_vars /\ Fairness

----------------------------------------------------------------------------
(* Properties *)

(* The types of the variables. *)
TypeOK ==
    /\ call \in {"none", "start", "stop"}
    /\ victim \in Processes \cup {NoProcess}
    /\ cmd \in Processes \cup {NoProcess}
    /\ argument \in Inputs \cup {NoInput}
    /\ running \in BOOLEAN /\ currentURL \in BOOLEAN /\ stopped \in BOOLEAN
    /\ sessionID \in 0..MaxStarts
    /\ lastInput \in Inputs \cup {NoInput}
    /\ attempt \in Nat /\ restarts \in Nat
    /\ alive \in SUBSET Processes
    /\ plays \in [Processes -> Inputs \cup {NoInput}]
    /\ watcher \in [Processes -> Stages]
    /\ saved \in [Processes -> Inputs \cup {NoInput}]
    /\ failed \in BOOLEAN /\ startFailed \in BOOLEAN

(* Two ffmpeg processes never write to the output at the same time, though *)
(* sessions, stops and automatic restarts may overlap in any way.          *)
AtMostOneFfmpeg == \A p, q \in alive : p = q

(* When no call is at work, a process that lives is the one IsRunning and  *)
(* the next stop are about.  (One that StopSession could not find would    *)
(* play on forever.)                                                       *)
LiveProcessIsOwned ==
    LockFree => \A p \in alive : running /\ cmd = p /\ sessionID = p

(* Once StopSession has returned there is no process, and the relay        *)
(* reports none, until somebody asks for a session.                        *)
StoppedMeansSilent ==
    LockFree /\ stopped => alive = {} /\ ~running /\ ~currentURL

(* The n-th automatic restart of a session was delayed as the n-th: the    *)
(* backoff is not reset by the restarts themselves.  (When StartSession    *)
(* has failed, a restart of the session before may come on top.)           *)
RestartsAreBackedOff == ~startFailed => restarts <= attempt

(* However often ffmpeg dies from now on, the delays of a session grow up  *)
(* to the maximum, and no overflow makes a long one short again.  (Nothing *)
(* bounds r.attempt; ristreceiver and Accept are delayed the same way.)    *)
BackoffSaturates == \A b \in Backoffs : attempt..MaxAttempt \subseteq Growing[b]

(* A StartSession or StopSession that waits for the old process under r.mu *)
(* returns: the watcher it waits for must not need r.mu to get there.      *)
CallsReturn == call # "none" ~> call = "none"

(* A session whose ffmpeg died gets a new one, unless it was stopped, or   *)
(* the last attempt to spawn one failed.                                   *)
CrashIsRepaired ==
    (LockFree /\ sessionID > 0 /\ alive = {} /\ ~stopped /\ ~failed)
        ~> (alive # {} \/ stopped \/ failed \/ sessionID = MaxStarts)

(* ffmpeg.go:175: a restart does not happen if the session was stopped or  *)
(* superseded meanwhile, so what it starts is the session last asked for.  *)
RestartsTheWantedSession ==
    [][\A p \in alive' \ alive : plays'[p] = lastInput']_vars

(* The session wanted, and what is played for it. *)
Want == IF stopped /\ call # "stop" THEN NoInput
        ELSE IF startFailed THEN AnyInput ELSE lastInput
Playing == IF alive = {} THEN NoInput ELSE plays[CHOOSE p \in alive : TRUE]

Session == INSTANCE RelaySession WITH want <- Want, playing <- Playing

(* The relay plays the session last asked for or nothing, except between a *)
(* start that failed and the next that works, or the next stop.            *)
ImplementsRelaySession == Session!RelaySafety
=============================================================================
