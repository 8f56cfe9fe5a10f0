------------------------- MODULE ArbitrationProofs -------------------------
(***************************************************************************)
(* Theorems about the arbitration manager, for any number of sessions and  *)
(* keys and any timeout.                                                   *)
(*                                                                         *)
(* TypeOK and WatchdogCoversSlot together are inductive: that an expired   *)
(* timer has a callback waiting needs the key of that callback to be the   *)
(* key of the slot, and the timer to have been counting the same seconds   *)
(* as the silence.                                                         *)
(***************************************************************************)
EXTENDS ArbitrationLease, TLAPS

IInv == TypeOK /\ WatchdogCoversSlot

USE SessionsAssumption, KeysAssumption, TimeoutAssumption, BoundAssumption

(* The empty manager satisfies the invariant. *)
LEMMA InitIInv == Init => IInv
  BY DEF Init, IInv, TypeOK, WatchdogCoversSlot, NoTimer, Expired

(* Every step of the manager preserves it. *)
LEMMA StepIInv == IInv /\ [Next]_vars => IInv'
<1> SUFFICES ASSUME IInv, [Next]_vars PROVE IInv'
  OBVIOUS
<1> USE DEF IInv, TypeOK, WatchdogCoversSlot, NoTimer, Expired, slotVars
<1>1. ASSUME NEW s \in Sessions, TryAcquire(s) PROVE IInv'
  BY <1>1 DEF TryAcquire
<1>2. ASSUME NEW s \in Sessions, Release(s) PROVE IInv'
  BY <1>2 DEF Release, ReleaseSlot
<1>3. CASE Touch
  BY <1>3 DEF Touch
<1>4. ASSUME NEW k \in Keys, HandleTimeout(k) PROVE IInv'
  <2>1. callbacks' \in [Keys -> 0..MaxCallbacks]
    BY <1>4 DEF HandleTimeout
  <2>2. CASE slot = k
    BY <1>4, <2>1, <2>2 DEF HandleTimeout, ReleaseSlot
  <2>3. CASE slot # k
    <3>1. UNCHANGED <<slot, owner, silence, timer, holding>>
      BY <1>4, <2>3 DEF HandleTimeout, ReleaseSlot
    <3>2. slot # NoKey => callbacks'[slot] = callbacks[slot]
      BY <1>4, <2>3 DEF HandleTimeout
    <3> QED BY <2>1, <3>1, <3>2
  <2> QED BY <2>2, <2>3
<1>5. CASE Tick
  <2>1. slot \in Keys /\ slot' = slot /\ owner' = owner /\ holding' = holding
    BY <1>5 DEF Tick
  <2>2. CASE timer = 1
    <3>1. callbacks' = [callbacks EXCEPT ![slot] = @ + 1]
      BY <1>5, <2>2 DEF Tick
    <3>2. callbacks[slot] < MaxCallbacks
      BY <1>5, <2>2 DEF Tick
    <3>3. callbacks' \in [Keys -> 0..MaxCallbacks] /\ callbacks'[slot] > 0
      BY <2>1, <3>1, <3>2
    <3>4. timer' = 0 /\ silence' \in 0..SourceTimeout
          /\ (SourceTimeout > 0 => timer' = SourceTimeout - silence')
      BY <1>5, <2>1, <2>2 DEF Tick
    <3>5. TypeOK'
      BY <2>1, <3>3, <3>4
    <3>6. WatchdogCoversSlot'
      BY <2>1, <3>3, <3>4
    <3> QED BY <3>5, <3>6
  <2>3. CASE timer # 1
    BY <1>5, <2>1, <2>3 DEF Tick
  <2> QED BY <2>2, <2>3
<1>6. CASE UNCHANGED vars
  BY <1>6 DEF vars
<1> QED
  BY <1>1, <1>2, <1>3, <1>4, <1>5, <1>6 DEF Next, Method, Timeout

(* An occupied slot is watched in every reachable state: its timer is      *)
(* running for what is left of the silence, or its own callback waits.     *)
THEOREM SlotIsWatched == Spec => [](TypeOK /\ WatchdogCoversSlot)
<1>1. IInv => TypeOK /\ WatchdogCoversSlot
  BY DEF IInv
<1> QED
  BY <1>1, InitIInv, StepIInv, PTL DEF Spec

(* TypeOK of Arbitration: a slot has the key its owner presented.          *)
THEOREM ManagerTyped == Spec => []TypeOK
BY SlotIsWatched, PTL

----------------------------------------------------------------------------
(* The lease.  Where callbacks have no competitor, a waiting callback is   *)
(* the only one, and belongs to a slot that has been silent long enough.   *)

PromptInv ==
    \A k \in Keys : callbacks[k] > 0 =>
        callbacks[k] = 1 /\ slot = k /\ timer = Expired /\ SourceTimeout > 0

(* A prompt step is a step. *)
LEMMA PromptIsNext == [PromptNext]_vars => [Next]_vars
  BY DEF PromptNext, Next

(* Prompt steps keep callbacks of other slots away. *)
LEMMA StepPromptInv ==
  IInv /\ PromptInv /\ [PromptNext]_vars => PromptInv'
<1> SUFFICES ASSUME IInv, PromptInv, [PromptNext]_vars PROVE PromptInv'
  OBVIOUS
<1> USE DEF IInv, TypeOK, PromptInv
<1>1. CASE NoCallback /\ Method
  <2>1. callbacks' = callbacks
    BY <1>1 DEF Method, TryAcquire, Release, Touch
  <2> QED BY <1>1, <2>1 DEF NoCallback
<1>2. CASE NoCallback /\ Tick
  <2>1. slot' = slot /\ slot \in Keys
    BY <1>2 DEF Tick
  <2>2. CASE timer = 1
    <3>1. callbacks' = [callbacks EXCEPT ![slot] = @ + 1] /\ timer' = 0
      BY <1>2, <2>2 DEF Tick
    <3>2. \A k \in Keys : callbacks[k] = 0
      BY <1>2 DEF NoCallback
    <3>3. \A k \in Keys : callbacks'[k] > 0 => k = slot /\ callbacks'[k] = 1
      BY <2>1, <3>1, <3>2
    <3>4. SourceTimeout > 0
      BY <2>2
    <3> QED BY <2>1, <3>1, <3>3, <3>4 DEF Expired
  <2>3. CASE timer # 1
    BY <1>2, <2>3 DEF Tick, NoCallback
  <2> QED BY <2>2, <2>3
<1>3. ASSUME NEW k \in Keys, HandleTimeout(k) PROVE PromptInv'
  <2>1. callbacks[k] = 1 /\ slot = k
    BY <1>3 DEF HandleTimeout
  <2>2. \A j \in Keys : j # k => callbacks[j] = 0
    BY <2>1
  <2>3. \A j \in Keys : callbacks'[j] = 0
    BY <1>3, <2>1, <2>2 DEF HandleTimeout
  <2> QED BY <2>3
<1>4. CASE UNCHANGED vars
  BY <1>4 DEF vars
<1> QED
  BY <1>1, <1>2, <1>3, <1>4 DEF PromptNext, Timeout

(* Every prompt step is a step of the lease, or changes nothing of it.     *)
LEMMA StepLease ==
  ASSUME NoStaleClosure, IInv, PromptInv, [PromptNext]_vars
  PROVE  [Lease!LeaseNext]_(Lease!leaseVars)
<1> USE DEF Lease!LeaseNext, Lease!leaseVars, IInv, TypeOK
<1>1. ASSUME NEW s \in Sessions, TryAcquire(s) PROVE Lease!Acquire(s)
  BY <1>1 DEF TryAcquire, Lease!Acquire
<1>2. ASSUME NEW s \in Sessions, Release(s) PROVE Lease!Disconnect(s)
  <2>1. slot = KeyOf[s] <=> owner = s
    BY <1>2 DEF NoStaleClosure, Release
  <2> QED BY <1>2, <2>1 DEF Release, ReleaseSlot, Lease!Disconnect, slotVars
<1>3. CASE Touch
  BY <1>3 DEF Touch, Lease!Renew
<1>4. CASE Tick
  BY <1>4 DEF Tick, Lease!Pass
<1>5. ASSUME NEW k \in Keys, HandleTimeout(k) PROVE Lease!Expire
  <2>1. slot = k /\ timer = Expired /\ SourceTimeout > 0
    BY <1>5 DEF HandleTimeout, PromptInv
  <2>2. silence = SourceTimeout /\ owner # NoSession
    BY <2>1 DEF WatchdogCoversSlot, Expired
  <2> QED BY <1>5, <2>1, <2>2 DEF HandleTimeout, ReleaseSlot, Lease!Expire
<1>6. CASE UNCHANGED vars
  BY <1>6 DEF vars
<1> QED
  BY <1>1, <1>2, <1>3, <1>4, <1>5, <1>6 DEF PromptNext, Method, Timeout

(* With a key for every session, no other closure fits the slot. *)
LEMMA DistinctKeys == ASSUME KeysAreDistinct, TypeOK PROVE NoStaleClosure
  BY DEF KeysAreDistinct, TypeOK, NoStaleClosure

LEMMA PromptInvariant == PromptSpec => [](IInv /\ PromptInv)
<1>1. Init => IInv /\ PromptInv
  BY InitIInv DEF Init, PromptInv
<1>2. IInv /\ PromptInv /\ [PromptNext]_vars => (IInv /\ PromptInv)'
  BY StepIInv, PromptIsNext, StepPromptInv
<1> QED BY <1>1, <1>2, PTL DEF PromptSpec

(* With callbacks that run at once, and as long as a source that lost its  *)
(* slot disconnects before another one comes with the same protocol and    *)
(* path, the manager gives, keeps and takes the slot exactly as the lease  *)
(* says: first come, first served, until disconnect or silence.            *)
THEOREM LeaseWithoutStaleClosures ==
  PromptSpec /\ []NoStaleClosure => ImplementsLease
<1>1. Init => Lease!LeaseInit
  BY DEF Init, Lease!LeaseInit
<1>2. NoStaleClosure /\ IInv /\ PromptInv /\ [PromptNext]_vars
        => [Lease!LeaseNext]_(Lease!leaseVars)
  BY StepLease
<1> QED
  BY <1>1, <1>2, PromptInvariant, PTL
     DEF PromptSpec, ImplementsLease, Lease!LeaseSpec

(* TimeoutClearsInactiveSlot of Arbitration: what manager.go:217 says is   *)
(* true whenever the callback of an expired timer gets m.mu before anybody *)
(* else does.                                                              *)
THEOREM PromptTimeoutIsInactive == PromptSpec => TimeoutClearsInactiveSlot
<1>1. ASSUME IInv, PromptInv, PromptNext, slot # NoKey, slot' = NoKey,
             callbacks' # callbacks
      PROVE  silence = SourceTimeout
  <2> USE DEF IInv, TypeOK
  <2>1. ~Method /\ ~Tick
    BY <1>1 DEF Method, TryAcquire, Release, Touch, Tick
  <2>2. PICK k \in Keys : HandleTimeout(k)
    BY <1>1, <2>1 DEF PromptNext, Timeout
  <2>3. slot = k /\ timer = Expired /\ SourceTimeout > 0
    BY <1>1, <2>2 DEF HandleTimeout, PromptInv
  <2> QED BY <1>1, <2>3 DEF WatchdogCoversSlot, Expired
<1>2. IInv /\ PromptInv /\ [PromptNext]_vars =>
        [slot # NoKey /\ slot' = NoKey /\ callbacks' # callbacks
           => silence = SourceTimeout]_vars
  BY <1>1
<1> QED
  BY <1>2, PromptInvariant, PTL DEF PromptSpec, TimeoutClearsInactiveSlot
=============================================================================
