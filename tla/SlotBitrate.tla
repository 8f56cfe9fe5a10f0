---------------------------- MODULE SlotBitrate ----------------------------
(***************************************************************************)
(* internal/arbitration/manager.go: the bitrate reading the active slot    *)
(* carries, and the goroutine, one per slot, that zeroes it when it has    *)
(* not been refreshed.  The rest of the manager is module Arbitration.     *)
(*                                                                         *)
(* The ticker of that goroutine is what the seconds are counted by.  An    *)
(* event falls between two ticks, so n seconds counted since an event are, *)
(* at a tick, more than n - 1 and at most n.                               *)
(***************************************************************************)
EXTENDS Arbitration

CONSTANT DecayThreshold   \* bitrateDecayThreshold in seconds

ASSUME DecayAssumption == DecayThreshold \in Nat

VARIABLES
    bitrate,     \* activeSlot.BitrateKbps: is the reading non-zero?
    sinceCheck,  \* seconds since m.lastBytesCheck, capped at 2
    sinceUpdate, \* seconds since m.lastBitrateUpdate, capped
    decayDue     \* ticks of the decay ticker that a goroutine has to handle

bitrateVars == <<bitrate, sinceCheck, sinceUpdate, decayDue>>
allVars == <<vars, bitrateVars>>

Since(n, cap) == IF n < cap THEN n + 1 ELSE cap

(* No slot, no reading. *)
BitrateInit ==
    /\ Init
    /\ bitrate = FALSE /\ sinceCheck = 0 /\ sinceUpdate = 0
    /\ decayDue = FALSE

(* TryAcquire: a new slot starts with a reading of zero, a new counting    *)
(* period and a decay goroutine.                                           *)
AcquireSlot(s) ==
    /\ TryAcquire(s)
    /\ bitrate' = FALSE /\ sinceCheck' = 0 /\ sinceUpdate' = 0
    /\ UNCHANGED decayDue

(* What the end of a slot does to its reading.  The decay goroutine may    *)
(* have a tick and the closed decayStop to choose from, so the tick may    *)
(* still be handled, when another slot is active perhaps.                  *)
EndReading ==
    /\ bitrate' = (bitrate /\ slot' # NoKey)
    /\ IF slot' = slot THEN UNCHANGED decayDue
                       ELSE decayDue' \in {decayDue, FALSE}
    /\ UNCHANGED <<sinceCheck, sinceUpdate>>

(* AddBytes: once a second has passed since the last check the rate is     *)
(* computed.  It is in whole kbit/s, and may be 0.                         *)
AddBytes ==
    /\ slot # NoKey
    /\ sinceCheck > 0
    /\ bitrate' \in BOOLEAN
    /\ sinceCheck' = 0 /\ sinceUpdate' = 0
    /\ UNCHANGED <<vars, decayDue>>

(* SetBitrate, with a reading that may be 0. *)
SetBitrate ==
    /\ slot # NoKey
    /\ bitrate' \in BOOLEAN
    /\ sinceUpdate' = 0
    /\ UNCHANGED <<vars, sinceCheck, decayDue>>

(* Seeded fault: a slot that is touched is not taken for stalled. *)
DecayTickIfSilent ==
    /\ decayDue
    /\ decayDue' = FALSE
    /\ bitrate' = (bitrate /\ silence < DecayThreshold)
    /\ UNCHANGED <<vars, sinceCheck, sinceUpdate>>

(* One round of decayLoop. *)
DecayTick ==
    /\ decayDue
    /\ decayDue' = FALSE
    /\ \/ slot # NoKey /\ sinceUpdate >= DecayThreshold /\ bitrate' = FALSE
       \/ (slot = NoKey \/ sinceUpdate <= DecayThreshold) /\ UNCHANGED bitrate
    /\ UNCHANGED <<vars, sinceCheck, sinceUpdate>>

(* A second passes: the decay ticker ticks as well. *)
Second ==
    /\ Tick
    /\ sinceCheck' = Since(sinceCheck, 2)
    /\ sinceUpdate' = Since(sinceUpdate, DecayThreshold + 1)
    /\ decayDue' = TRUE
    /\ UNCHANGED bitrate

BitrateNext ==
    \/ \E s \in Sessions : AcquireSlot(s) \/ (Release(s) /\ EndReading)
    \/ Touch /\ UNCHANGED bitrateVars
    \/ AddBytes \/ SetBitrate
    \/ Timeout /\ EndReading
    \/ DecayTick
    \/ ~decayDue /\ Second    \* decayLoop gets m.mu within the second

(* Time passes, and whoever wants m.mu gets it. *)
BitrateFairness ==
    /\ WF_allVars(~decayDue /\ Second) /\ WF_allVars(DecayTick)
    /\ \A k \in Keys : WF_allVars(HandleTimeout(k) /\ EndReading)

BitrateSpec == BitrateInit /\ [][BitrateNext]_allVars /\ BitrateFairness

----------------------------------------------------------------------------
(* Properties *)

(* The types of the bitrate's variables. *)
BitrateTypeOK ==
    /\ bitrate \in BOOLEAN /\ decayDue \in BOOLEAN
    /\ sinceCheck \in 0..2
    /\ sinceUpdate \in 0..(DecayThreshold + 1)

(* manager.go:36: a stalled stream reports its last healthy rate for at    *)
(* most the threshold and one period of the ticker, also when its slot is  *)
(* kept alive by touches, or when the goroutine of the slot before is      *)
(* still at work.                                                          *)
StalledBitrateDecays ==
    bitrate /\ ~decayDue => sinceUpdate <= DecayThreshold
=============================================================================
