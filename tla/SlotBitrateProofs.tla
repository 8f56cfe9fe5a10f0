------------------------- MODULE SlotBitrateProofs -------------------------
(***************************************************************************)
(* That the decay of a stalled bitrate reading is on time, for any number  *)
(* of sessions, any timeout and any threshold.                             *)
(***************************************************************************)
EXTENDS SlotBitrate, TLAPS

BitrateInv ==
    /\ BitrateTypeOK
    /\ StalledBitrateDecays
    /\ bitrate => slot # NoKey

USE DecayAssumption

(* No step of the manager lets a stalled reading outlive its ticker period.*)
LEMMA StepBitrateInv == BitrateInv /\ [BitrateNext]_allVars => BitrateInv'
<1> SUFFICES ASSUME BitrateInv, [BitrateNext]_allVars PROVE BitrateInv'
  OBVIOUS
<1>1. ASSUME bitrate' = FALSE, decayDue' \in BOOLEAN,
             sinceCheck' \in 0..2, sinceUpdate' \in 0..(DecayThreshold + 1)
      PROVE BitrateInv'
  <2>1. bitrate' \in BOOLEAN /\ ~bitrate'
    BY <1>1, Zenon
  <2>2. decayDue' \in BOOLEAN /\ sinceCheck' \in 0..2
        /\ sinceUpdate' \in 0..(DecayThreshold + 1)
    BY <1>1
  <2>3. BitrateTypeOK'
    BY <2>1, <2>2, Zenon DEF BitrateTypeOK
  <2>4. StalledBitrateDecays' /\ (bitrate => slot # NoKey)'
    BY <2>1, Zenon DEF StalledBitrateDecays
  <2> QED BY <2>3, <2>4, Zenon DEF BitrateInv
<1> USE DEF BitrateInv, BitrateTypeOK, StalledBitrateDecays, bitrateVars, vars
<1>2. ASSUME NEW s \in Sessions, AcquireSlot(s) PROVE BitrateInv'
  <2>1. bitrate' = FALSE /\ decayDue' \in BOOLEAN
    BY <1>2, Zenon DEF AcquireSlot
  <2>2. sinceCheck' \in 0..2 /\ sinceUpdate' \in 0..(DecayThreshold + 1)
    BY <1>2 DEF AcquireSlot
  <2> QED BY <1>1, <2>1, <2>2, Zenon
<1>3. ASSUME EndReading, slot' = slot \/ slot' = NoKey PROVE BitrateInv'
  <2>1. CASE slot' = slot
    <3>1. bitrate' = bitrate
      BY <1>3, <2>1 DEF EndReading
    <3> QED BY <1>3, <2>1, <3>1 DEF EndReading
  <2>2. CASE slot' = NoKey
    <3>1. bitrate' = FALSE
      BY <1>3, <2>2 DEF EndReading
    <3> QED BY <1>1, <1>3, <3>1 DEF EndReading
  <2> QED BY <1>3, <2>1, <2>2
<1>4. ASSUME NEW k, ReleaseSlot(k) PROVE slot' = slot \/ slot' = NoKey
  BY <1>4 DEF ReleaseSlot, slotVars
<1>5. ASSUME NEW s \in Sessions, Release(s), EndReading PROVE BitrateInv'
  BY <1>3, <1>4, <1>5 DEF Release
<1>6. CASE Timeout /\ EndReading
  BY <1>3, <1>4, <1>6 DEF Timeout, HandleTimeout
<1>7. CASE AddBytes
  BY <1>7 DEF AddBytes
<1>8. CASE SetBitrate
  BY <1>8 DEF SetBitrate
<1>9. CASE DecayTick
  <2>1. CASE bitrate' = FALSE
    BY <1>1, <1>9, <2>1 DEF DecayTick
  <2>2. CASE (slot = NoKey \/ sinceUpdate <= DecayThreshold) /\ bitrate' = bitrate
    BY <1>9, <2>2 DEF DecayTick
  <2> QED BY <1>9, <2>1, <2>2 DEF DecayTick
<1>10. CASE Second
  <2>1. decayDue' = TRUE /\ bitrate' = bitrate /\ slot' # NoKey
    BY <1>10 DEF Second, Tick
  <2>2. sinceCheck' \in 0..2 /\ sinceUpdate' \in 0..(DecayThreshold + 1)
    BY <1>10 DEF Second, Since
  <2> QED BY <2>1, <2>2
<1>11. CASE Touch /\ UNCHANGED bitrateVars
  BY <1>11 DEF Touch
<1>12. CASE UNCHANGED allVars
  BY <1>12 DEF allVars
<1> QED
  BY <1>2, <1>5, <1>6, <1>7, <1>8, <1>9, <1>10, <1>11, <1>12 DEF BitrateNext

(* manager.go:36: a stalled stream's last healthy bitrate is reported for  *)
(* the threshold and one ticker period at most.                            *)
THEOREM DecayIsOnTime == BitrateSpec => []StalledBitrateDecays
<1>1. BitrateInit => BitrateInv
  <2> SUFFICES ASSUME BitrateInit PROVE BitrateInv
    OBVIOUS
  <2>1. bitrate = FALSE /\ decayDue = FALSE /\ sinceCheck = 0 /\ sinceUpdate = 0
    BY DEF BitrateInit
  <2>2. BitrateTypeOK
    <3>1. bitrate \in BOOLEAN /\ decayDue \in BOOLEAN
      BY <2>1, Zenon
    <3>2. sinceCheck \in 0..2 /\ sinceUpdate \in 0..(DecayThreshold + 1)
      BY <2>1
    <3> QED BY <3>1, <3>2 DEF BitrateTypeOK
  <2>3. ~bitrate
    BY <2>1
  <2> QED BY <2>2, <2>3 DEF BitrateInv, StalledBitrateDecays
<1>2. BitrateInv => StalledBitrateDecays
  BY DEF BitrateInv
<1> QED
  BY <1>1, <1>2, StepBitrateInv, PTL DEF BitrateSpec
=============================================================================
