-------------------------- MODULE ArbitrationLease --------------------------
(***************************************************************************)
(* The manager implements SlotLease, under two conditions the code does    *)
(* not establish itself: no release closure but the owner's has the key of *)
(* the slot, and an expired timer's callback has no competitor for m.mu    *)
(* (PromptSpec).  What happens without either is shown by the runs that    *)
(* check RelayedFeedIsActive and TimeoutClearsInactiveSlot.                *)
(***************************************************************************)
EXTENDS Arbitration

Lease == INSTANCE SlotLease WITH
    Sources <- Sessions, Nobody <- NoSession, Timeout <- SourceTimeout,
    holder <- owner, live <- holding, quiet <- silence

(* No two sessions present the same (protocol, path) pair. *)
KeysAreDistinct == \A s, t \in Sessions : KeyOf[s] = KeyOf[t] => s = t

(* It is enough that a session which lost its slot has disconnected before *)
(* another one gets a slot with the same pair: no closure but the owner's  *)
(* fits the slot.                                                          *)
NoStaleClosure == \A s \in holding : KeyOf[s] = slot => s = owner

(* The manager gives and takes the slot as the abstract lease does.  A     *)
(* source that was silenced out keeps its release closure, and calling it  *)
(* later must not touch the slot of the next holder.  (That a silent       *)
(* holder does lose the slot is SilentSlotIsFreed.)                        *)
ImplementsLease == Lease!LeaseSpec
=============================================================================
