---------------------------- MODULE Arbitration ----------------------------
(***************************************************************************)
(* internal/arbitration/manager.go: the Manager that gives one ingest      *)
(* session at a time the active slot and takes it back when the source     *)
(* stays silent.                                                           *)
(*                                                                         *)
(* Every exported method runs under m.mu, so each is one action.  What     *)
(* does not run in one piece with the methods is the time.AfterFunc        *)
(* callback: a goroutine that, once the timer has expired, still waits for *)
(* m.mu.  It is modelled as pending work, done by an action of its own.    *)
(*                                                                         *)
(* A session is the owner of one release closure: an RTMP connection, an   *)
(* SRT publisher, the RIST adapter.  A key is the pair of upper-case       *)
(* protocol and path that the code compares.  Time is counted in seconds.  *)
(* The bitrate the slot carries is in module SlotBitrate, and what         *)
(* onSlotRelease does, under m.mu, in module Ingest: both conjoin their    *)
(* part to the actions of this module.                                     *)
(***************************************************************************)
EXTENDS Integers

CONSTANTS
    Sessions,        \* clients of the manager
    Keys,            \* (protocol, path) pairs
    KeyOf,           \* the pair each session presents
    NoKey,           \* m.activeSlot == nil
    NoSession,       \* no owner
    SourceTimeout,   \* m.sourceTimeout in seconds, 0: no watchdog
    MaxCallbacks     \* bound: expired callbacks of one key waiting for m.mu

ASSUME SessionsAssumption == NoSession \notin Sessions
ASSUME KeysAssumption == NoKey \notin Keys /\ KeyOf \in [Sessions -> Keys]
ASSUME TimeoutAssumption == SourceTimeout \in Nat
ASSUME BoundAssumption == MaxCallbacks \in Nat \ {0}

VARIABLES
    slot,        \* m.activeSlot: its key, or NoKey
    owner,       \* history: the session whose TryAcquire created the slot
    silence,     \* seconds since activeSlot.LastSeen, capped at SourceTimeout
    timer,       \* m.timer: NoTimer (nil), Expired, or the seconds left
    callbacks,   \* per key, AfterFunc goroutines that have yet to get m.mu
    holding      \* sessions whose release closure has not run (sync.Once)

slotVars == <<slot, owner, silence, timer>>
vars == <<slot, owner, silence, timer, callbacks, holding>>

NoTimer == -1
Expired == 0

(* NewManager: no slot, no timer. *)
Init ==
    /\ slot = NoKey /\ owner = NoSession /\ holding = {}
    /\ silence = 0 /\ timer = NoTimer
    /\ callbacks = [k \in Keys |-> 0]

----------------------------------------------------------------------------
(* The methods *)

(* Seeded fault: the watchdog is not started for a later slot. *)
AcquireUnwatched(s) ==
    /\ slot = NoKey
    /\ slot' = KeyOf[s] /\ owner' = s
    /\ holding' = holding \cup {s}
    /\ silence' = 0
    /\ UNCHANGED <<timer, callbacks>>

(* TryAcquire by session s on an empty slot; a refused call (the slot is   *)
(* taken) changes nothing.  A session that asks again while it still has   *)
(* the closure of an earlier slot drops that closure.                      *)
TryAcquire(s) ==
    /\ slot = NoKey
    /\ slot' = KeyOf[s] /\ owner' = s
    /\ holding' = holding \cup {s}
    /\ silence' = 0
    /\ timer' = IF SourceTimeout > 0 THEN SourceTimeout ELSE timer
    /\ UNCHANGED callbacks

(* Touch, by anyone: the method takes no session.  time.Timer.Reset        *)
(* re-arms a timer that has expired as well.                               *)
Touch ==
    /\ slot # NoKey
    /\ silence' = 0
    /\ timer' = IF timer # NoTimer THEN SourceTimeout ELSE NoTimer
    /\ UNCHANGED <<slot, owner, callbacks, holding>>

(* Seeded faults: whatever slot is active is ended; activeSlot is not set  *)
(* to nil.                                                                 *)
ReleaseAnySlot(k) ==
    slot' = NoKey /\ owner' = NoSession /\ silence' = 0 /\ timer' = NoTimer

ReleaseKeepsSlot(k) ==
    IF slot = k
    THEN owner' = NoSession /\ silence' = 0 /\ timer' = NoTimer /\ UNCHANGED slot
    ELSE UNCHANGED slotVars

(* releaseSlot: end the slot if it has key k. *)
ReleaseSlot(k) ==
    IF slot = k
    THEN slot' = NoKey /\ owner' = NoSession /\ silence' = 0 /\ timer' = NoTimer
    ELSE UNCHANGED slotVars

(* The release closure of s, effective the first time it is called. *)
Release(s) ==
    /\ s \in holding
    /\ holding' = holding \ {s}
    /\ ReleaseSlot(KeyOf[s])
    /\ UNCHANGED callbacks

----------------------------------------------------------------------------
(* The watchdog *)

(* Seeded fault: only a silence longer than SourceTimeout counts. *)
HandleTimeoutLate(k) ==
    /\ callbacks[k] > 0
    /\ callbacks' = [callbacks EXCEPT ![k] = @ - 1]
    /\ IF silence > SourceTimeout THEN ReleaseSlot(k) ELSE UNCHANGED slotVars
    /\ UNCHANGED holding

(* An expired callback of key k gets m.mu.  It does not look at LastSeen.  *)
HandleTimeout(k) ==
    /\ callbacks[k] > 0
    /\ callbacks' = [callbacks EXCEPT ![k] = @ - 1]
    /\ ReleaseSlot(k)
    /\ UNCHANGED holding

(* A second of an occupied slot passes; the timer may expire and start its *)
(* callback.                                                               *)
Tick ==
    LET expires == timer = 1 IN
    /\ slot # NoKey
    /\ expires => callbacks[slot] < MaxCallbacks
    /\ timer' = IF timer > 0 THEN timer - 1 ELSE timer
    /\ callbacks' = IF expires THEN [callbacks EXCEPT ![slot] = @ + 1]
                               ELSE callbacks
    /\ silence' = IF silence < SourceTimeout THEN silence + 1 ELSE silence
    /\ UNCHANGED <<slot, owner, holding>>

----------------------------------------------------------------------------
Method == (\E s \in Sessions : TryAcquire(s) \/ Release(s)) \/ Touch

Timeout == \E k \in Keys : HandleTimeout(k)

Next == Method \/ Timeout \/ Tick

(* Time passes, and a callback that wants m.mu gets it.  No client has to  *)
(* call anything.                                                          *)
Fairness == WF_vars(Tick) /\ \A k \in Keys : WF_vars(HandleTimeout(k))

Spec == Init /\ [][Next]_vars /\ Fairness

(* The same manager where a started callback has no competitor for m.mu.   *)
NoCallback == \A k \in Keys : callbacks[k] = 0

PromptNext == (NoCallback /\ (Method \/ Tick)) \/ Timeout

PromptSpec == Init /\ [][PromptNext]_vars /\ Fairness

----------------------------------------------------------------------------
(* Properties *)

(* The types of the variables; a slot has a key exactly when it has an     *)
(* owner, and the key is the one its owner presented.                      *)
TypeOK ==
    /\ slot \in Keys \cup {NoKey}
    /\ owner \in Sessions \cup {NoSession}
    /\ holding \in SUBSET Sessions
    /\ silence \in 0..SourceTimeout
    /\ timer \in NoTimer..SourceTimeout
    /\ callbacks \in [Keys -> 0..MaxCallbacks]
    /\ slot = IF owner = NoSession THEN NoKey ELSE KeyOf[owner]

(* An occupied slot is always watched: its timer runs for exactly as long  *)
(* as is left of the allowed silence, or has expired and a callback with   *)
(* the slot's own key is waiting to end it; an empty slot has no timer.    *)
WatchdogCoversSlot ==
    /\ slot = NoKey => timer = NoTimer
    /\ slot # NoKey /\ SourceTimeout > 0 =>
          /\ timer = SourceTimeout - silence
          /\ timer = Expired => callbacks[slot] > 0

(* A source that stays silent loses the slot, whatever the order in which  *)
(* m.mu is granted, unless somebody touches the slot first.                *)
SilentSlotIsFreed ==
    SourceTimeout > 0 =>
        (slot # NoKey /\ silence = SourceTimeout)
            ~> (slot = NoKey \/ silence < SourceTimeout)

(* manager.go:217: a timeout clears an inactive slot, after the silence    *)
(* exceeds the source timeout.                                             *)
TimeoutClearsInactiveSlot ==
    [][slot # NoKey /\ slot' = NoKey /\ callbacks' # callbacks
          => silence = SourceTimeout]_vars
=============================================================================
