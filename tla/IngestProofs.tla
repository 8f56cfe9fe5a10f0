---------------------------- MODULE IngestProofs ----------------------------
(***************************************************************************)
(* What holds of the adapters for any connections, publishers and ages.    *)
(*                                                                         *)
(* That the relay serves the holder of the slot is not inductive.  It      *)
(* needs that a handler which is about to start the relay still has the    *)
(* slot it acquired: nobody else's closure fits it (NoStaleClosure), and   *)
(* no callback waits while a handler is at work.                           *)
(***************************************************************************)
EXTENDS Ingest, ArbitrationProofs

----------------------------------------------------------------------------
(* What the calls of the adapters do *)

LEMMA AcquireEffect ==
  ASSUME TypeOK, NEW s \in Sessions, Acquire(s)
  PROVE  /\ owner = NoSession /\ slot = NoKey
         /\ owner' = s /\ slot' = KeyOf[s] /\ silence' = 0
         /\ UNCHANGED callbacks /\ UNCHANGED relayVars
<1>1. slot = NoKey /\ owner' = s /\ slot' = KeyOf[s] /\ silence' = 0
  BY DEF Acquire, TryAcquire
<1>2. owner = NoSession
  BY <1>1, KeysAssumption DEF TypeOK
<1> QED BY <1>1, <1>2 DEF Acquire, TryAcquire

(* Unless it is a stale one, a closure ends its own slot only. *)
LEMMA ReleaseEffect ==
  ASSUME NoStaleClosure, TypeOK, NEW s \in Sessions, ReleaseAndStop(s)
  PROVE  /\ UNCHANGED callbacks
         /\ owner = s => /\ owner' = NoSession /\ slot' = NoKey
                         /\ want' = NoSession /\ playing' = NoSession
                         /\ fed' = NoSession
         /\ owner # s => UNCHANGED <<slot, owner, silence, timer, relayVars>>
<1>1. Release(s) /\ OnSlotRelease
  BY DEF ReleaseAndStop
<1>2. CASE owner = s
  <2>1. slot = KeyOf[s] /\ slot # NoKey
    BY <1>2, SessionsAssumption, KeysAssumption DEF TypeOK
  <2> QED BY <1>1, <1>2, <2>1
          DEF Release, ReleaseSlot, OnSlotRelease, StopSession, Relay!Stop
<1>3. CASE owner # s
  <2>1. slot # KeyOf[s]
    BY <1>1, <1>3 DEF Release, NoStaleClosure
  <2>2. UNCHANGED slotVars
    BY <1>1, <2>1 DEF Release, ReleaseSlot
  <2> QED BY <1>1, <1>3, <2>2 DEF Release, OnSlotRelease, slotVars
<1> QED BY <1>2, <1>3

LEMMA ReportEffect ==
  ASSUME TypeOK, Report
  PROVE  /\ UNCHANGED <<slot, owner, callbacks, relayVars>>
         /\ silence' \in {silence, 0} /\ (slot # NoKey => silence' = 0)
BY DEF Report, Touch, vars

LEMMA StartEffect ==
  ASSUME NEW s \in Sessions, StartOk(s)
  PROVE  want' = s /\ playing' = s /\ fed' \in {s, NoSession} /\ UNCHANGED vars
BY DEF StartOk, Relay!Start

LEMMA StartFailsEffect ==
  ASSUME StartFails
  PROVE  /\ want' = AnySession /\ playing' = NoSession /\ fed' = NoSession
         /\ UNCHANGED vars
BY DEF StartFails, Relay!StartFails

LEMMA StopEffect ==
  ASSUME StopRelay
  PROVE  /\ want' = NoSession /\ playing' = NoSession /\ fed' = NoSession
         /\ UNCHANGED vars
BY DEF StopRelay, StopSession, Relay!Stop

----------------------------------------------------------------------------
(* The types *)

RelayTyped ==
    /\ want \in Sessions \cup {NoSession, AnySession}
    /\ playing \in Sessions \cup {NoSession}
    /\ (fed # NoSession => fed = playing /\ fed = want)

Calls == (\E s \in Sessions : Acquire(s) \/ ReleaseAndStop(s) \/ StartOk(s))
         \/ StartFails \/ StopRelay \/ Report

LEMMA CallsTyped == RelayTyped /\ Calls => RelayTyped'
<1> SUFFICES ASSUME RelayTyped, Calls PROVE RelayTyped'
  OBVIOUS
<1> USE DEF RelayTyped
<1>1. CASE UNCHANGED relayVars
  BY <1>1 DEF relayVars
<1>2. CASE StopSession
  BY <1>2 DEF StopSession, Relay!Stop
<1>3. CASE StartFails
  BY <1>3, StartFailsEffect
<1>4. ASSUME NEW s \in Sessions, StartOk(s) PROVE RelayTyped'
  BY <1>4, StartEffect
<1> QED BY <1>1, <1>2, <1>3, <1>4
        DEF Calls, Acquire, ReleaseAndStop, OnSlotRelease, StopRelay, Report

ConnTyped == conn \in [Conns -> {"idle", "acquired", "gated", "streaming", "closing"}]

HookTyped ==
    /\ hook \in {"free", "start", "abort", "stop", "push"}
    /\ hookPub \in Pubs \cup {NoSession} /\ (hookPub = NoSession <=> hook = "free")
    /\ hookSlot \in Pubs \cup {NoSession}
    /\ online \in SUBSET Pubs /\ closes \in SUBSET Pubs

RistTyped ==
    /\ ristStep \in {"free", "acquire", "start", "abort", "touch", "stop"}
    /\ ristActive \in BOOLEAN /\ ristAge \in 0..(StaleAge + 1)
    /\ beatDue \in BOOLEAN /\ beat \in {"idle", "ask", "touch"}

LEMMA TypesByPart ==
  /\ IngestTypeOK <=> RelayTyped /\ ConnTyped /\ HookTyped /\ RistTyped
  /\ IngestTypeOK' <=> RelayTyped' /\ ConnTyped' /\ HookTyped' /\ RistTyped'
BY DEF IngestTypeOK, RelayTyped, ConnTyped, HookTyped, RistTyped

LEMMA InitIngestTypeOK == IngestInit => IngestTypeOK
<1> SUFFICES ASSUME IngestInit PROVE IngestTypeOK
  OBVIOUS
<1>1. RelayTyped
  BY DEF IngestInit, Relay!RelayInit, RelayTyped
<1>2. ConnTyped
  BY DEF IngestInit, ConnTyped
<1>3. HookTyped
  BY DEF IngestInit, HookTyped
<1>4. RistTyped
  <2>1. ristActive \in BOOLEAN /\ beatDue \in BOOLEAN
    BY Zenon DEF IngestInit
  <2> QED BY <2>1, AgesAssumption DEF IngestInit, RistTyped
<1> QED BY <1>1, <1>2, <1>3, <1>4, TypesByPart

LEMMA RtmpTyped ==
  ASSUME IngestTypeOK, NEW c \in Conns, RtmpStep(c) PROVE IngestTypeOK'
<1> USE TypesByPart, AdaptersAssumption DEF RelayTyped
<1> DEFINE Phases == {"idle", "acquired", "gated", "streaming", "closing"}
<1>1. RelayTyped'
  BY CallsTyped DEF RtmpStep, RtmpSession, RtmpAcquire, RtmpStart, RtmpFlush, RtmpMessage,
                    RtmpEnd, RtmpRelease, Calls, relayVars
<1>2. \E phase \in Phases : Becomes(c, phase)
  <2>1. conn[c] \in Phases
    BY DEF ConnTyped
  <2> QED BY <2>1 DEF RtmpStep, RtmpSession, RtmpAcquire, RtmpStart, RtmpFlush,
                      RtmpMessage, RtmpEnd, RtmpRelease
<1>3. ConnTyped' /\ HookTyped' /\ RistTyped'
  BY <1>2 DEF Becomes, ConnTyped, HookTyped, RistTyped, hookVars, ristVars
<1> QED BY <1>1, <1>3

LEMMA HookTypedStep ==
  ASSUME IngestTypeOK, HookStep \/ (\E x \in Pubs : HookEvent(x)) PROVE IngestTypeOK'
<1> USE TypesByPart, AdaptersAssumption, SessionsAssumption DEF RelayTyped
<1>1. PICK x \in Pubs \cup {NoSession} :
         \/ HookStop
         \/ x \in Pubs /\ \/ HookStart(x) \/ HookAbort(x) \/ HookTouch(x)
                           \/ HookConnect(x) \/ HookClose(x) \/ StatsPush(x)
                           \/ PubLeaves(x)
  BY DEF HookStep, HookEvent
<1>2. RelayTyped'
  <2>1. hookSlot \in Pubs \cup {NoSession}
    BY DEF HookTyped
  <2>2. Calls \/ UNCHANGED relayVars
    BY <1>1, <2>1 DEF HookStart, HookAbort, HookTouch, HookConnect, HookClose, StatsPush,
              PubLeaves, HookStop, Calls, relayVars
  <2> QED BY <2>2, CallsTyped DEF relayVars
<1>3. UNCHANGED <<conn, ristVars>>
  BY <1>1 DEF HookStart, HookAbort, HookTouch, HookConnect, HookClose, StatsPush,
              PubLeaves, HookStop, HookDone, Hook
<1>4. HookTyped'
  BY <1>1 DEF HookTyped, HookStart, HookAbort, HookTouch, HookConnect, HookClose,
              StatsPush, PubLeaves, HookStop, HookDone, Hook
<1>5. ConnTyped' /\ RistTyped'
  BY <1>3 DEF ConnTyped, RistTyped, ristVars
<1> QED BY <1>2, <1>4, <1>5

LEMMA RistTypedStep ==
  ASSUME IngestTypeOK,
         RistHandler \/ RistLine \/ RistEnd \/ Heartbeat \/ HeartbeatAsk \/ HeartbeatTouch
  PROVE  IngestTypeOK'
<1> USE TypesByPart, AdaptersAssumption, AgesAssumption
<1>1. RelayTyped'
  <2>1. Calls \/ UNCHANGED relayVars
    BY DEF RistHandler, RistAcquire, RistStart, RistAbort, RistTouch, RistStop, RistLine,
           RistEnd, Heartbeat, HeartbeatAsk, HeartbeatTouch, StopActiveStream, Calls
  <2> QED BY <2>1, CallsTyped DEF RelayTyped, relayVars
<1>2. UNCHANGED <<conn, hookVars>>
  BY DEF RistHandler, RistAcquire, RistStart, RistAbort, RistTouch, RistStop, RistLine,
         RistEnd, Heartbeat, HeartbeatAsk, HeartbeatTouch, StopActiveStream, Rist
<1>3. RistTyped'
  <2>1. CASE RistHandler
    BY <2>1 DEF RistTyped, RistHandler, RistAcquire, RistStart, RistAbort, RistTouch,
                RistStop, Rist
  <2>2. CASE RistLine
    BY <2>2 DEF RistTyped, RistLine, Rist
  <2>3. CASE RistEnd
    BY <2>3 DEF RistTyped, RistEnd, StopActiveStream, Rist
  <2>4. CASE Heartbeat
    BY <2>4 DEF RistTyped, Heartbeat, StopActiveStream, Rist
  <2>5. CASE HeartbeatAsk \/ HeartbeatTouch
    BY <2>5 DEF RistTyped, HeartbeatAsk, HeartbeatTouch
  <2> QED BY <2>1, <2>2, <2>3, <2>4, <2>5
<1>4. ConnTyped' /\ HookTyped'
  BY <1>2 DEF ConnTyped, HookTyped, hookVars
<1> QED BY <1>1, <1>3, <1>4

LEMMA RestTyped ==
  ASSUME IngestTypeOK,
         \/ RelayDies \/ RelayRevives \/ Second
         \/ \E k \in Keys : WatchdogRelease(k)
         \/ UNCHANGED ingestVars
  PROVE  IngestTypeOK'
<1> USE TypesByPart, AdaptersAssumption, AgesAssumption DEF RelayTyped
<1>1. RelayTyped'
  <2>1. CASE UNCHANGED relayVars
    BY <2>1 DEF relayVars
  <2>2. CASE StopSession
    BY <2>2 DEF StopSession, Relay!Stop
  <2>3. CASE RelayDies
    BY <2>3 DEF RelayDies, Relay!Die
  <2>4. CASE RelayRevives
    BY <2>4 DEF RelayRevives, Relay!Revive
  <2> QED BY <2>1, <2>2, <2>3, <2>4
          DEF WatchdogRelease, OnSlotRelease, Second, SecondPasses, ingestVars
<1>2. UNCHANGED <<conn, hookVars>>
  BY DEF RelayDies, RelayRevives, WatchdogRelease, Second, SecondPasses, ingestVars
<1>3. RistTyped'
  <2>1. CASE UNCHANGED ristVars
    BY <2>1 DEF RistTyped, ristVars
  <2>2. CASE Second
    BY <2>2 DEF RistTyped, Second, SecondPasses
  <2> QED BY <2>1, <2>2 DEF RelayDies, RelayRevives, WatchdogRelease, ingestVars
<1>4. ConnTyped' /\ HookTyped'
  BY <1>2 DEF ConnTyped, HookTyped, hookVars
<1> QED BY <1>1, <1>3, <1>4

LEMMA StepIngestTypeOK == IngestTypeOK /\ [IngestNext]_ingestVars => IngestTypeOK'
BY RtmpTyped, HookTypedStep, RistTypedStep, RestTyped DEF IngestNext, AdapterNext

(* IngestTypeOK of Ingest: the types of the adapters' variables.           *)
THEOREM IngestTyped == IngestSpec => []IngestTypeOK
BY InitIngestTypeOK, StepIngestTypeOK, PTL DEF IngestSpec

----------------------------------------------------------------------------
(* The manager under the adapters *)

(* To the manager, what the adapters do is a prompt step or nothing.       *)
LEMMA StepIsPrompt ==
  ASSUME IngestTypeOK, [IngestNext]_ingestVars PROVE [PromptNext]_vars
<1> USE AdaptersAssumption DEF PromptNext, Method
<1>1. ASSUME NEW s \in Sessions, NoCallback, Acquire(s) \/ ReleaseAndStop(s)
      PROVE  [PromptNext]_vars
  BY <1>1 DEF Acquire, ReleaseAndStop
<1>2. ASSUME NoCallback, Report PROVE [PromptNext]_vars
  BY <1>2 DEF Report
<1>3. ASSUME NEW c \in Conns, NoCallback, RtmpStep(c) PROVE [PromptNext]_vars
  BY <1>1, <1>2, <1>3
     DEF RtmpStep, RtmpSession, RtmpAcquire, RtmpStart, RtmpFlush, RtmpMessage, RtmpEnd,
         RtmpRelease, StartOk, StartFails
<1>4. CASE NoCallback /\ HookStep
  BY <1>1, <1>2, <1>4 DEF HookStep, HookStart, HookAbort, HookTouch, HookStop, StopRelay,
                          StartOk, StartFails
<1>5. ASSUME NEW x \in Pubs, NoCallback, HookEvent(x) PROVE [PromptNext]_vars
  <2>1. hookSlot # NoSession => hookSlot \in Sessions
    BY DEF IngestTypeOK
  <2> QED BY <1>1, <1>5, <2>1 DEF HookEvent, HookConnect, HookClose, StatsPush, PubLeaves
<1>6. CASE NoCallback /\ RistHandler
  BY <1>1, <1>2, <1>6 DEF RistHandler, RistAcquire, RistStart, RistAbort, RistTouch,
                          RistStop, StopRelay, StartOk, StartFails
<1>7. CASE NoCallback /\ (RistLine \/ RistEnd \/ Heartbeat \/ HeartbeatAsk \/ HeartbeatTouch)
  BY <1>1, <1>7 DEF RistLine, RistEnd, Heartbeat, StopActiveStream, HeartbeatAsk,
                    HeartbeatTouch
<1>8. CASE NoCallback /\ (RelayDies \/ RelayRevives \/ Second)
  BY <1>8 DEF RelayDies, RelayRevives, Second, SecondPasses
<1>9. ASSUME NEW k \in Keys, WatchdogRelease(k) PROVE [PromptNext]_vars
  BY <1>9 DEF WatchdogRelease, Timeout
<1>10. CASE UNCHANGED ingestVars
  BY <1>10 DEF ingestVars
<1> QED BY <1>3, <1>4, <1>5, <1>6, <1>7, <1>8, <1>9, <1>10 DEF IngestNext, AdapterNext

(* A callback of the watchdog finds no handler at work. *)
CallbacksAlone ==
    ~NoCallback => /\ hook = "free" /\ ristStep = "free"
                   /\ \A c \in Conns : conn[c] = "idle" \/ Reading(c)

(* What the manager promises to the adapters. *)
ManagerInv == IngestTypeOK /\ IInv /\ PromptInv /\ CallbacksAlone

LEMMA InitManagerInv == IngestInit => ManagerInv
<1> SUFFICES ASSUME IngestInit PROVE ManagerInv
  OBVIOUS
<1>1. IInv /\ PromptInv
  BY InitIInv DEF IngestInit, Init, PromptInv
<1>2. CallbacksAlone
  BY DEF IngestInit, CallbacksAlone
<1> QED BY <1>1, <1>2, InitIngestTypeOK DEF ManagerInv

(* Callbacks start when a second passes, and only then. *)
LEMMA CallbacksStart ==
  ASSUME ManagerInv, NoCallback, AdapterNext PROVE NoCallback' \/ Second
<1> USE AdaptersAssumption DEF ManagerInv, IInv, NoCallback
<1>1. ASSUME NEW s \in Sessions, Acquire(s) \/ ReleaseAndStop(s) PROVE UNCHANGED callbacks
  BY <1>1 DEF Acquire, ReleaseAndStop, TryAcquire, Release
<1>2. ASSUME Report PROVE UNCHANGED callbacks
  BY <1>2 DEF Report, Touch, vars
<1>3. ASSUME NEW c \in Conns, RtmpStep(c) PROVE UNCHANGED callbacks
  BY <1>1, <1>2, <1>3
     DEF RtmpStep, RtmpSession, RtmpAcquire, RtmpStart, RtmpFlush, RtmpMessage, RtmpEnd,
         RtmpRelease, StartOk, StartFails, vars
<1>4. CASE HookStep
  BY <1>1, <1>2, <1>4 DEF HookStep, HookStart, HookAbort, HookTouch, HookStop, StopRelay,
                          StartOk, StartFails, vars
<1>5. ASSUME NEW x \in Pubs, HookEvent(x) PROVE UNCHANGED callbacks
  <2>1. hookSlot # NoSession => hookSlot \in Sessions
    BY DEF IngestTypeOK
  <2> QED BY <1>1, <1>5, <2>1 DEF HookEvent, HookConnect, HookClose, StatsPush, PubLeaves,
                                  vars
<1>6. CASE RistHandler
  BY <1>1, <1>2, <1>6 DEF RistHandler, RistAcquire, RistStart, RistAbort, RistTouch,
                          RistStop, StopRelay, StartOk, StartFails, vars
<1>7. CASE RistLine \/ RistEnd \/ Heartbeat \/ HeartbeatAsk \/ HeartbeatTouch
  BY <1>1, <1>7 DEF RistLine, RistEnd, Heartbeat, StopActiveStream, HeartbeatAsk,
                    HeartbeatTouch, Touch, vars
<1>8. CASE RelayDies \/ RelayRevives
  BY <1>8 DEF RelayDies, RelayRevives, vars
<1> QED BY <1>3, <1>4, <1>5, <1>6, <1>7, <1>8 DEF AdapterNext

LEMMA StepManagerInv == ManagerInv /\ [IngestNext]_ingestVars => ManagerInv'
<1> SUFFICES ASSUME ManagerInv, [IngestNext]_ingestVars PROVE ManagerInv'
  OBVIOUS
<1>1. IngestTypeOK'
  BY StepIngestTypeOK DEF ManagerInv
<1>2. IInv' /\ PromptInv'
  BY StepIsPrompt, PromptIsNext, StepIInv, StepPromptInv DEF ManagerInv
<1>3. CallbacksAlone'
  <2>1. CASE NoCallback'
    BY <2>1 DEF CallbacksAlone
  <2>2. CASE NoCallback /\ Second
    BY <2>2 DEF Second, SecondPasses, HandlersIdle, hookVars, CallbacksAlone, Reading
  <2>3. ASSUME NEW k \in Keys, WatchdogRelease(k) PROVE CallbacksAlone'
    <3>1. ~NoCallback
      BY <2>3 DEF WatchdogRelease, HandleTimeout, NoCallback
    <3> QED BY <2>3, <3>1
            DEF ManagerInv, CallbacksAlone, WatchdogRelease, hookVars, ristVars, Reading
  <2>4. CASE UNCHANGED ingestVars
    BY <2>4 DEF ManagerInv, CallbacksAlone, NoCallback, ingestVars, vars, hookVars,
                ristVars, Reading
  <2> QED BY <2>1, <2>2, <2>3, <2>4, CallbacksStart DEF IngestNext
<1> QED BY <1>1, <1>2, <1>3 DEF ManagerInv

----------------------------------------------------------------------------
(* The relay and the holder of the slot *)

(* Who is about to start the relay still has the slot. *)
StartersHold ==
    /\ \A c \in Conns : conn[c] = "acquired" => owner = c
    /\ hook = "start" => owner = hookPub
    /\ ristStep = "start" => owner = rist

HolderInv == StartersHold /\ RelayServesHolder

(* Step by step, by adapter. *)
LEMMA RtmpHolder ==
  ASSUME NoStaleClosure, ManagerInv, HolderInv, NEW c \in Conns, NoCallback, RtmpStep(c)
  PROVE  HolderInv'
<1> USE AdaptersAssumption, SessionsAssumption DEF ManagerInv, IInv, HolderInv
<1>1. c \in Sessions
      /\ conn \in [Conns -> {"idle", "acquired", "gated", "streaming", "closing"}]
  BY DEF IngestTypeOK
<1>2. hook' = hook /\ hookPub' = hookPub /\ ristStep' = ristStep
      /\ \A d \in Conns : d # c => conn'[d] = conn[d]
  BY <1>1 DEF RtmpStep, RtmpSession, RtmpAcquire, RtmpStart, RtmpFlush, RtmpMessage,
              RtmpEnd, RtmpRelease, Becomes, hookVars, ristVars
<1>3. hookPub # NoSession => hookPub \in Sessions \ {c}
  BY DEF IngestTypeOK
<1>4. CASE RtmpAcquire(c)
  <2>1. Acquire(c) /\ conn'[c] = "acquired"
    BY <1>1, <1>4 DEF RtmpAcquire, Becomes
  <2>2. owner = NoSession /\ owner' = c /\ UNCHANGED relayVars
    BY <1>1, <2>1, AcquireEffect
  <2>3. want = NoSession /\ playing = NoSession
    BY <2>2 DEF RelayServesHolder, IngestTypeOK
  <2>4. RelayServesHolder'
    BY <2>2, <2>3 DEF RelayServesHolder, relayVars
  <2> QED BY <1>1, <1>2, <1>3, <2>1, <2>2, <2>4 DEF StartersHold, IngestTypeOK
<1>5. CASE RtmpStart(c)
  <2>1. owner = c /\ owner' = owner
    BY <1>5, StartEffect, StartFailsEffect DEF RtmpStart, InPhase, StartersHold, StartOk,
                                               StartFails, vars
  <2>2. \/ want' = c /\ playing' = c
        \/ want' = AnySession /\ playing' = NoSession /\ conn'[c] = "closing"
    BY <1>1, <1>5, StartEffect, StartFailsEffect DEF RtmpStart, Becomes
  <2>3. conn'[c] # "acquired"
    BY <1>1, <1>5 DEF RtmpStart, Becomes
  <2> QED BY <1>1, <1>2, <2>1, <2>2, <2>3 DEF StartersHold, RelayServesHolder, Aborting
<1>6. CASE RtmpFlush(c) \/ RtmpEnd(c) \/ \E m \in Messages : RtmpMessage(c, m)
  <2>1. owner' = owner /\ UNCHANGED relayVars
    BY <1>6, ReportEffect DEF RtmpFlush, RtmpEnd, RtmpMessage, vars
  <2>2. conn[c] # "closing" /\ conn'[c] # "acquired"
    BY <1>1, <1>6 DEF RtmpFlush, RtmpEnd, RtmpMessage, Reading, Becomes
  <2> QED BY <1>1, <1>2, <2>1, <2>2 DEF StartersHold, RelayServesHolder, Aborting, relayVars
<1>7. CASE RtmpRelease(c)
  <2>1. conn[c] = "closing" /\ conn'[c] = "idle"
    BY <1>1, <1>7 DEF RtmpRelease, InPhase, Becomes
  <2>2. ReleaseAndStop(c)
    BY <1>7 DEF RtmpRelease
  <2>3. CASE owner = c
    BY <1>1, <1>2, <2>1, <2>2, <2>3, <1>3, ReleaseEffect
       DEF StartersHold, RelayServesHolder
  <2>4. CASE owner # c
    BY <1>1, <1>2, <2>1, <2>2, <2>4, ReleaseEffect
       DEF StartersHold, RelayServesHolder, Aborting, relayVars
  <2> QED BY <2>3, <2>4
<1> QED BY <1>4, <1>5, <1>6, <1>7 DEF RtmpStep, RtmpSession

LEMMA HookHolder ==
  ASSUME NoStaleClosure, ManagerInv, HolderInv, NoCallback,
         HookStep \/ (\E x \in Pubs : HookEvent(x))
  PROVE  HolderInv'
<1> USE AdaptersAssumption, SessionsAssumption DEF ManagerInv, IInv, HolderInv
<1>1. conn' = conn /\ ristStep' = ristStep
  BY DEF HookStep, HookEvent, HookStart, HookAbort, HookTouch, HookConnect, HookClose,
         StatsPush, PubLeaves, HookStop, HookDone, Hook, ristVars
<1>2. ASSUME NEW x \in Pubs, HookConnect(x) PROVE HolderInv'
  <2>1. x \in Sessions /\ Acquire(x) /\ hook' = "start" /\ hookPub' = x
    BY <1>2 DEF HookConnect, Hook
  <2>2. owner = NoSession /\ owner' = x /\ UNCHANGED relayVars
    BY <2>1, AcquireEffect
  <2>3. want = NoSession /\ playing = NoSession
    BY <2>2 DEF RelayServesHolder, IngestTypeOK
  <2> QED BY <1>1, <2>1, <2>2, <2>3, SessionsAssumption
          DEF StartersHold, RelayServesHolder, relayVars
<1>3. ASSUME NEW x \in Pubs, HookStart(x) PROVE HolderInv'
  <2>1. owner = x /\ owner' = owner
    BY <1>3 DEF HookStart, StartersHold, StartOk, StartFails, vars
  <2>2. \/ want' = x /\ playing' = x /\ hook' = "free"
        \/ want' = AnySession /\ playing' = NoSession /\ hook' = "abort" /\ hookPub' = x
    BY <1>3, StartEffect, StartFailsEffect DEF HookStart, HookDone, Hook
  <2> QED BY <1>1, <2>1, <2>2, SessionsAssumption
          DEF StartersHold, RelayServesHolder, Aborting
<1>5. ASSUME NEW x \in Pubs, HookAbort(x) PROVE HolderInv'
  <2>1. ReleaseAndStop(x) /\ hook = "abort" /\ hookPub = x /\ hook' = "free"
    BY <1>5 DEF HookAbort, HookDone, Hook
  <2>2. CASE owner = x
    BY <1>1, <2>1, <2>2, ReleaseEffect DEF StartersHold, RelayServesHolder
  <2>3. CASE owner # x
    BY <1>1, <2>1, <2>3, ReleaseEffect
       DEF StartersHold, RelayServesHolder, Aborting, relayVars
  <2> QED BY <2>2, <2>3
<1>6. ASSUME UNCHANGED <<owner, relayVars>>, hook # "abort", hook' # "start"
      PROVE  HolderInv'
  BY <1>1, <1>6 DEF StartersHold, RelayServesHolder, Aborting, relayVars
<1>7. ASSUME NEW x \in Pubs, HookClose(x) PROVE HolderInv'
  <2>1. hook = "free" /\ hook' \in {"stop", "free"}
    BY <1>7 DEF HookClose, HookDone, Hook
  <2>2. CASE UNCHANGED <<vars, relayVars>>
    BY <2>1, <2>2, <1>6 DEF vars
  <2>3. CASE hookSlot # NoSession /\ ReleaseAndStop(hookSlot)
    <3>1. PICK y \in Pubs : y = hookSlot
      BY <2>3 DEF IngestTypeOK
    <3>2. ReleaseAndStop(y)
      BY <2>3, <3>1 DEF ReleaseAndStop, Release, ReleaseSlot
    <3>3. CASE owner = y
      BY <1>1, <2>1, <3>2, <3>3, ReleaseEffect DEF StartersHold, RelayServesHolder
    <3>4. CASE owner # y
      BY <1>1, <2>1, <3>2, <3>4, ReleaseEffect
         DEF StartersHold, RelayServesHolder, Aborting, relayVars
    <3> QED BY <3>3, <3>4
  <2> QED BY <1>7, <2>2, <2>3 DEF HookClose
<1>8. ASSUME NEW x \in Pubs, HookTouch(x) \/ StatsPush(x) PROVE HolderInv'
  BY <1>6, <1>8, ReportEffect DEF HookTouch, StatsPush, HookDone, Hook, vars
<1>9. ASSUME NEW x \in Pubs, PubLeaves(x) PROVE HolderInv'
  BY <1>1, <1>9 DEF PubLeaves, vars, relayVars, StartersHold, RelayServesHolder, Aborting
<1>10. CASE HookStop
  <2>1. hook' = "free" /\ owner' = owner /\ want' = NoSession /\ playing' = NoSession
    BY <1>10, StopEffect DEF HookStop, HookDone, Hook, vars
  <2> QED BY <1>1, <2>1 DEF StartersHold, RelayServesHolder
<1> QED BY <1>2, <1>3, <1>5, <1>7, <1>8, <1>9, <1>10 DEF HookStep, HookEvent

LEMMA RistHolder ==
  ASSUME NoStaleClosure, ManagerInv, HolderInv, NoCallback,
         RistHandler \/ RistLine \/ RistEnd \/ Heartbeat \/ HeartbeatAsk \/ HeartbeatTouch
  PROVE  HolderInv'
<1> USE AdaptersAssumption, SessionsAssumption DEF ManagerInv, IInv, HolderInv
<1>1. conn' = conn /\ hook' = hook /\ hookPub' = hookPub /\ rist \in Sessions
      /\ hookPub # rist
  BY DEF RistHandler, RistAcquire, RistStart, RistAbort, RistTouch, RistStop, RistLine,
         RistEnd, Heartbeat, HeartbeatAsk, HeartbeatTouch, StopActiveStream, Rist,
         hookVars, IngestTypeOK
<1>2. ASSUME UNCHANGED <<owner, relayVars>>, ristStep # "abort",
             ristStep' = "start" => ristStep = "start"
      PROVE  HolderInv'
  BY <1>1, <1>2 DEF StartersHold, RelayServesHolder, Aborting, relayVars
<1>3. ASSUME ReleaseAndStop(rist), ristStep' # "start" PROVE HolderInv'
  <2>1. CASE owner = rist
    BY <1>1, <1>3, <2>1, ReleaseEffect DEF StartersHold, RelayServesHolder
  <2>2. CASE owner # rist
    BY <1>1, <1>3, <2>2, ReleaseEffect
       DEF StartersHold, RelayServesHolder, Aborting, relayVars
  <2> QED BY <2>1, <2>2
<1>4. CASE RistAcquire
  <2>1. CASE Acquire(rist)
    <3>1. owner = NoSession /\ owner' = rist /\ UNCHANGED relayVars
      BY <1>1, <2>1, AcquireEffect
    <3>2. want = NoSession /\ playing = NoSession
      BY <3>1 DEF RelayServesHolder, IngestTypeOK
    <3> QED BY <1>1, <3>1, <3>2 DEF StartersHold, RelayServesHolder, IngestTypeOK, relayVars
  <2>2. CASE ~Acquire(rist)
    BY <1>2, <1>4, <2>2 DEF RistAcquire, Rist, vars
  <2> QED BY <2>1, <2>2
<1>5. CASE RistStart
  <2>1. owner = rist /\ owner' = owner
    BY <1>5 DEF RistStart, StartersHold, StartOk, StartFails, vars
  <2>2. \/ want' = rist /\ playing' = rist /\ ristStep' = "touch"
        \/ want' = AnySession /\ playing' = NoSession /\ ristStep' = "abort"
    BY <1>1, <1>5, StartEffect, StartFailsEffect DEF RistStart, Rist
  <2> QED BY <1>1, <2>1, <2>2 DEF StartersHold, RelayServesHolder, Aborting
<1>6. CASE RistAbort \/ StopActiveStream
  BY <1>3, <1>6 DEF RistAbort, StopActiveStream, Rist
<1>7. CASE RistTouch
  BY <1>2, <1>7, ReportEffect DEF RistTouch, Rist
<1>8. CASE RistStop
  <2>1. owner' = owner /\ want' = NoSession /\ playing' = NoSession /\ ristStep' = "free"
    BY <1>8, StopEffect DEF RistStop, Rist, vars
  <2> QED BY <1>1, <2>1 DEF StartersHold, RelayServesHolder
<1>9. CASE RistLine
  BY <1>2, <1>9 DEF RistLine, Rist, vars
<1>10. CASE Heartbeat /\ ~StopActiveStream
  BY <1>2, <1>10 DEF Heartbeat, Rist, vars
<1>11. CASE HeartbeatAsk \/ HeartbeatTouch
  BY <1>1, <1>11 DEF HeartbeatAsk, HeartbeatTouch, Touch, vars, relayVars, StartersHold,
                     RelayServesHolder, Aborting
<1> QED BY <1>4, <1>5, <1>6, <1>7, <1>8, <1>9, <1>10, <1>11
        DEF RistHandler, RistEnd, Heartbeat

LEMMA RestHolder ==
  ASSUME ManagerInv, HolderInv,
         \/ RelayDies \/ RelayRevives \/ Second
         \/ \E k \in Keys : WatchdogRelease(k)
         \/ UNCHANGED ingestVars
  PROVE  HolderInv'
<1> USE AdaptersAssumption, SessionsAssumption DEF ManagerInv, IInv, HolderInv
<1>1. conn' = conn /\ hook' = hook /\ hookPub' = hookPub /\ ristStep' = ristStep
  BY DEF RelayDies, RelayRevives, Second, SecondPasses, WatchdogRelease, ingestVars,
         hookVars, ristVars
<1>2. CASE UNCHANGED <<owner, relayVars>>
  BY <1>1, <1>2 DEF StartersHold, RelayServesHolder, Aborting, relayVars
<1>3. CASE RelayDies \/ RelayRevives
  BY <1>1, <1>3 DEF RelayDies, RelayRevives, Relay!Die, Relay!Revive, vars, StartersHold,
                    RelayServesHolder, Aborting, IngestTypeOK
<1>4. ASSUME NEW k \in Keys, WatchdogRelease(k) PROVE HolderInv'
  <2>1. StartersHold'
    <3>1. ~NoCallback
      BY <1>4 DEF WatchdogRelease, HandleTimeout, NoCallback
    <3> QED BY <1>1, <3>1 DEF CallbacksAlone, StartersHold, Reading
  <2>2. CASE slot = k
    BY <1>4, <2>1, <2>2, KeysAssumption
       DEF WatchdogRelease, HandleTimeout, ReleaseSlot, OnSlotRelease, StopSession,
           Relay!Stop, RelayServesHolder
  <2>3. CASE slot # k
    BY <1>2, <1>4, <2>3
       DEF WatchdogRelease, HandleTimeout, ReleaseSlot, OnSlotRelease, slotVars
  <2> QED BY <2>2, <2>3
<1>5. CASE Second \/ UNCHANGED ingestVars
  BY <1>2, <1>5 DEF Second, SecondPasses, Tick, ingestVars, vars
<1> QED BY <1>3, <1>4, <1>5

LEMMA StepHolderInv ==
  ASSUME NoStaleClosure, ManagerInv, HolderInv, [IngestNext]_ingestVars
  PROVE  HolderInv'
BY RtmpHolder, HookHolder, RistHolder, RestHolder DEF IngestNext, AdapterNext

LEMMA ManagerInvariant == IngestSpec => []ManagerInv
BY InitManagerInv, StepManagerInv, PTL DEF IngestSpec

LEMMA InitHolderInv == IngestInit => HolderInv
  BY AdaptersAssumption, SessionsAssumption
     DEF IngestInit, Relay!RelayInit, HolderInv, StartersHold, RelayServesHolder

LEMMA HolderInvariant == IngestSpec /\ []NoStaleClosure => [](ManagerInv /\ HolderInv)
<1>1. ManagerInv /\ HolderInv /\ NoStaleClosure /\ [IngestNext]_ingestVars => HolderInv'
  BY StepHolderInv
<1> QED BY <1>1, InitHolderInv, ManagerInvariant, PTL DEF IngestSpec

(* RelayServesHolder of Ingest: the relay plays nobody but the holder of   *)
(* the slot, as long as a source that lost its slot has disconnected when  *)
(* another one gets a slot with the same protocol and path.                *)
THEOREM RelayIsTheHolders ==
  IngestSpec /\ []NoStaleClosure => []RelayServesHolder
<1>1. HolderInv => RelayServesHolder
  BY DEF HolderInv
<1> QED BY <1>1, HolderInvariant, PTL

(* RelayedFeedIsActive of Ingest: what README.md:3 says is true under the  *)
(* same condition.                                                         *)
THEOREM RelayedFeedHasTheSlot ==
  IngestSpec /\ []NoStaleClosure => []RelayedFeedIsActive
<1>1. ManagerInv /\ HolderInv => RelayedFeedIsActive
  BY DEF ManagerInv, HolderInv, IngestTypeOK, RelayServesHolder, RelayedFeedIsActive
<1> QED BY <1>1, HolderInvariant, PTL

(* In particular when no two sources present the same protocol and path.   *)
THEOREM DistinctKeysAreEnough ==
  ASSUME KeysAreDistinct
  PROVE  IngestSpec => []NoStaleClosure /\ []RelayServesHolder
<1>1. ManagerInv => NoStaleClosure
  BY DistinctKeys DEF ManagerInv, IInv
<1> QED BY <1>1, ManagerInvariant, RelayIsTheHolders, PTL

(* The adapters together use the manager as the lease it promises to be.   *)
THEOREM IngestIsALease ==
  IngestSpec /\ []NoStaleClosure => ImplementsLease
<1>1. IngestInit => Lease!LeaseInit
  BY DEF IngestInit, Init, Lease!LeaseInit
<1>2. ManagerInv /\ NoStaleClosure /\ [IngestNext]_ingestVars
        => [Lease!LeaseNext]_(Lease!leaseVars)
  BY StepIsPrompt, StepLease DEF ManagerInv
<1> QED
  BY <1>1, <1>2, ManagerInvariant, PTL
     DEF IngestSpec, ImplementsLease, Lease!LeaseSpec

----------------------------------------------------------------------------
(* Why a slot ends, for any keys *)

LEMMA EndsOfSlot ==
  ASSUME ManagerInv, [IngestNext]_ingestVars, slot # NoKey, slot' = NoKey
  PROVE  EndIsDue \/ CloseOfItsPath \/ StaleRelease
<1> USE AdaptersAssumption, SessionsAssumption, KeysAssumption DEF ManagerInv, IInv
<1>1. ASSUME NEW s \in Sessions, ReleaseAndStop(s), owner # s PROVE StaleRelease
  BY <1>1 DEF ReleaseAndStop, Release, ReleaseSlot, slotVars, StaleRelease
<1>2. /\ \A s \in Sessions : ~Acquire(s) /\ ~StartOk(s)
      /\ ~StartFails /\ ~StopRelay /\ ~Report /\ ~UNCHANGED vars
  BY DEF Acquire, TryAcquire, StartOk, StartFails, StopRelay, Report, Touch, vars
<1>3. ASSUME NEW c \in Conns, RtmpStep(c) PROVE EndIsDue \/ StaleRelease
  <2>1. RtmpRelease(c)
    BY <1>2, <1>3 DEF RtmpStep, RtmpSession, RtmpAcquire, RtmpStart, RtmpFlush,
                      RtmpMessage, RtmpEnd
  <2> QED BY <1>1, <2>1 DEF RtmpRelease, EndIsDue, Gone
<1>4. CASE HookStep
  <2>1. PICK x \in Pubs : HookAbort(x)
    BY <1>2, <1>4 DEF HookStep, HookStart, HookTouch, HookStop
  <2> QED BY <1>1, <2>1 DEF HookAbort, EndIsDue, Aborting
<1>5. ASSUME NEW x \in Pubs, HookEvent(x) PROVE CloseOfItsPath \/ StaleRelease
  <2>1. HookClose(x)
    BY <1>2, <1>5 DEF HookEvent, HookConnect, StatsPush, PubLeaves
  <2>2. /\ hookSlot # NoSession /\ PathOf[hookSlot] = PathOf[x]
        /\ ReleaseAndStop(hookSlot) /\ x \in closes \ closes'
    BY <1>2, <2>1 DEF HookClose
  <2>3. hookSlot \in Pubs
    BY <2>2 DEF IngestTypeOK
  <2> QED BY <1>1, <2>2, <2>3 DEF CloseOfItsPath
<1>6. CASE RistHandler
  <2>1. RistAbort
    BY <1>2, <1>6 DEF RistHandler, RistAcquire, RistStart, RistTouch, RistStop
  <2> QED BY <1>1, <2>1 DEF RistAbort, EndIsDue, Aborting
<1>7. CASE RistEnd
  BY <1>1, <1>7 DEF RistEnd, StopActiveStream, EndIsDue, Gone
<1>8. CASE Heartbeat
  BY <1>1, <1>2, <1>8 DEF Heartbeat, StopActiveStream, EndIsDue, Gone
<1>9. ~RistLine /\ ~HeartbeatAsk /\ ~HeartbeatTouch /\ ~RelayDies /\ ~RelayRevives
      /\ ~Second /\ ~UNCHANGED ingestVars
  BY <1>2 DEF RistLine, HeartbeatAsk, HeartbeatTouch, Touch, RelayDies, RelayRevives,
              Second, SecondPasses, Tick, ingestVars
<1>10. ASSUME NEW k \in Keys, WatchdogRelease(k) PROVE EndIsDue
  BY <1>10, TimeoutAssumption
     DEF WatchdogRelease, HandleTimeout, PromptInv, WatchdogCoversSlot, Expired, TypeOK,
         EndIsDue
<1> QED BY <1>3, <1>4, <1>5, <1>6, <1>7, <1>8, <1>9, <1>10 DEF IngestNext, AdapterNext

(* OnlyLateCallsEvict of Ingest, without any condition on the keys: a      *)
(* source that is neither gone nor silent, and that is relayed, loses the  *)
(* slot to a late on_close of its path or to a stale closure of its        *)
(* protocol and path, and to nothing else.                                 *)
THEOREM OnlyLateCalls == IngestSpec => OnlyLateCallsEvict
<1>1. ManagerInv /\ [IngestNext]_ingestVars =>
        [slot # NoKey /\ slot' = NoKey
           => EndIsDue \/ CloseOfItsPath \/ StaleRelease]_ingestVars
  BY EndsOfSlot
<1> QED BY <1>1, ManagerInvariant, PTL DEF IngestSpec, OnlyLateCallsEvict

(* No on_close is under way for the path of a publisher that has the slot  *)
(* and is still there.                                                     *)
NoLateClose ==
    owner \in Pubs /\ owner \in online => \A x \in closes : PathOf[x] # PathOf[owner]

(* LiveSourceKeepsSlot of Ingest: what README.md:10 says is true of the    *)
(* adapters as long as neither of the two calls comes late.                *)
THEOREM LiveSourcesKeepTheSlot ==
  IngestSpec /\ []NoStaleClosure /\ []NoLateClose => LiveSourceKeepsSlot
<1>1. ASSUME ManagerInv, NoStaleClosure, NoLateClose, [IngestNext]_ingestVars,
             slot # NoKey, slot' = NoKey
      PROVE  EndIsDue
  <2>1. CASE CloseOfItsPath
    BY <1>1, <2>1 DEF CloseOfItsPath, NoLateClose, EndIsDue, Gone
  <2>2. ~StaleRelease
    BY <1>1 DEF StaleRelease, NoStaleClosure
  <2> QED BY <1>1, <2>1, <2>2, EndsOfSlot
<1>2. ManagerInv /\ NoStaleClosure /\ NoLateClose /\ [IngestNext]_ingestVars =>
        [slot # NoKey /\ slot' = NoKey => EndIsDue]_ingestVars
  BY <1>1
<1> QED BY <1>2, ManagerInvariant, PTL DEF IngestSpec, LiveSourceKeepsSlot

----------------------------------------------------------------------------
(* Who silences the holder.  The relay plays nothing until the one handler *)
(* that has acquired the slot starts it, so that a start never takes the   *)
(* place of a session; a slot that ends takes its own session with it.     *)

StartPending ==
    (\E c \in Conns : conn[c] = "acquired") \/ hook = "start" \/ ristStep = "start"

FreshInv == StartPending => want = NoSession

Acquires == owner = NoSession /\ want' = want
Starts == StartPending /\ ~StartPending'
Silences == want' = NoSession /\ (owner' # owner \/ HookStop \/ RistStop)
Leaves == want' = want /\ (StartPending' => StartPending)

(* What a handler's release does, if the step begins no start.             *)
LEMMA ReleaseSilences ==
  ASSUME NoStaleClosure, TypeOK, NEW s \in Sessions, ReleaseAndStop(s),
         StartPending' => StartPending
  PROVE  Silences \/ Leaves
BY ReleaseEffect, SessionsAssumption DEF Silences, Leaves, relayVars

LEMMA RtmpKinds ==
  ASSUME NoStaleClosure, ManagerInv, HolderInv, HolderInv', NEW c \in Conns, RtmpStep(c)
  PROVE  Acquires \/ Starts \/ Silences \/ Leaves
<1> USE AdaptersAssumption, SessionsAssumption DEF ManagerInv, IInv
<1>1. UNCHANGED <<hookVars, ristVars>>
      /\ conn \in [Conns -> {"idle", "acquired", "gated", "streaming", "closing"}]
  BY DEF RtmpStep, RtmpSession, RtmpAcquire, RtmpStart, RtmpFlush, RtmpMessage, RtmpEnd,
         RtmpRelease, Becomes, IngestTypeOK
<1>2. ASSUME NEW phase \in {"idle", "gated", "streaming", "closing"}, Becomes(c, phase)
      PROVE  StartPending' => StartPending
  BY <1>1, <1>2 DEF Becomes, StartPending, hookVars, ristVars
<1>3. CASE RtmpAcquire(c)
  BY <1>3, AcquireEffect DEF RtmpAcquire, Acquires, relayVars
<1>4. CASE RtmpStart(c)
  <2>1. conn[c] = "acquired" /\ owner = c /\ owner' = c
    BY <1>4, StartEffect, StartFailsEffect
       DEF RtmpStart, InPhase, HolderInv, StartersHold, vars
  <2>2. conn'[c] # "acquired" /\ c \notin Pubs /\ c # rist /\ hookPub' \in Pubs \cup {NoSession}
    BY <1>1, <1>4 DEF RtmpStart, Becomes, IngestTypeOK, hookVars
  <2>3. ~StartPending'
    BY <2>1, <2>2 DEF StartPending, HolderInv, StartersHold
  <2> QED BY <2>1, <2>3 DEF Starts, StartPending
<1>5. CASE RtmpRelease(c)
  BY <1>2, <1>5, ReleaseSilences DEF RtmpRelease
<1>6. CASE RtmpFlush(c) \/ RtmpEnd(c) \/ \E m \in Messages : RtmpMessage(c, m)
  <2>1. want' = want
    BY <1>6, ReportEffect DEF RtmpFlush, RtmpEnd, RtmpMessage, relayVars
  <2>2. \E phase \in {"gated", "streaming", "closing"} : Becomes(c, phase)
    BY <1>6 DEF RtmpFlush, RtmpEnd, RtmpMessage, Reading
  <2> QED BY <1>2, <2>1, <2>2 DEF Leaves
<1> QED BY <1>3, <1>4, <1>5, <1>6 DEF RtmpStep, RtmpSession

LEMMA HookKinds ==
  ASSUME NoStaleClosure, ManagerInv, HolderInv, HolderInv',
         HookStep \/ \E x \in Pubs : HookEvent(x)
  PROVE  Acquires \/ Starts \/ Silences \/ Leaves
<1> USE AdaptersAssumption, SessionsAssumption DEF ManagerInv, IInv
<1>1. UNCHANGED <<conn, ristVars>>
  BY DEF HookStep, HookEvent, HookStart, HookAbort, HookTouch, HookStop, HookConnect,
         HookClose, StatsPush, PubLeaves, HookDone, Hook
<1>2. ASSUME hook' # "start" \/ hook = "start" PROVE StartPending' => StartPending
  BY <1>1, <1>2 DEF StartPending, ristVars
<1>3. ASSUME NEW x \in Pubs, HookConnect(x) PROVE Acquires
  BY <1>3, AcquireEffect DEF HookConnect, Acquires, relayVars
<1>4. ASSUME NEW x \in Pubs, HookStart(x) PROVE Starts
  <2>1. hook = "start" /\ hook' # "start" /\ owner = x /\ owner' = x
    BY <1>4, StartEffect, StartFailsEffect
       DEF HookStart, HookDone, Hook, HolderInv, StartersHold, vars
  <2>2. ~StartPending'
    BY <2>1 DEF StartPending, HolderInv, StartersHold
  <2> QED BY <2>1, <2>2 DEF Starts, StartPending
<1>5. ASSUME NEW x \in Pubs, HookAbort(x) PROVE Silences \/ Leaves
  BY <1>2, <1>5, ReleaseSilences DEF HookAbort, HookDone, Hook
<1>6. ASSUME NEW x \in Pubs, HookClose(x) PROVE Silences \/ Leaves
  <2>1. StartPending' => StartPending
    BY <1>2, <1>6 DEF HookClose, HookDone, Hook
  <2>2. CASE UNCHANGED <<vars, relayVars>>
    BY <2>1, <2>2 DEF Leaves, relayVars
  <2>3. CASE hookSlot # NoSession /\ ReleaseAndStop(hookSlot)
    <3>1. PICK y \in Pubs : y = hookSlot
      BY <2>3 DEF IngestTypeOK
    <3>2. ReleaseAndStop(y)
      BY <2>3, <3>1 DEF ReleaseAndStop, Release, ReleaseSlot
    <3> QED BY <2>1, <3>2, ReleaseSilences
  <2> QED BY <1>6, <2>2, <2>3 DEF HookClose
<1>7. ASSUME NEW x \in Pubs, HookTouch(x) \/ StatsPush(x) \/ PubLeaves(x) PROVE Leaves
  <2>1. StartPending' => StartPending
    BY <1>2, <1>7 DEF HookTouch, StatsPush, PubLeaves, HookDone, Hook
  <2> QED BY <1>7, <2>1, ReportEffect DEF HookTouch, StatsPush, PubLeaves, Leaves, relayVars
<1>8. CASE HookStop
  BY <1>8, StopEffect DEF HookStop, Silences
<1> QED BY <1>3, <1>4, <1>5, <1>6, <1>7, <1>8 DEF HookStep, HookEvent

LEMMA RistKinds ==
  ASSUME NoStaleClosure, ManagerInv, HolderInv, HolderInv',
         RistHandler \/ RistLine \/ RistEnd \/ Heartbeat \/ HeartbeatAsk \/ HeartbeatTouch
  PROVE  Acquires \/ Starts \/ Silences \/ Leaves
<1> USE AdaptersAssumption, SessionsAssumption DEF ManagerInv, IInv
<1>1. UNCHANGED <<conn, hookVars>>
  BY DEF RistHandler, RistAcquire, RistStart, RistAbort, RistTouch, RistStop, RistLine,
         RistEnd, Heartbeat, HeartbeatAsk, HeartbeatTouch, StopActiveStream, Rist
<1>2. ASSUME ristStep' # "start" \/ ristStep = "start" PROVE StartPending' => StartPending
  BY <1>1, <1>2 DEF StartPending, hookVars
<1>3. CASE RistAcquire
  <2>1. CASE Acquire(rist)
    BY <2>1, AcquireEffect DEF Acquires, relayVars
  <2>2. CASE Rist("free") /\ UNCHANGED <<vars, relayVars>>
    BY <1>2, <2>2 DEF Rist, Leaves, relayVars
  <2> QED BY <1>3, <2>1, <2>2 DEF RistAcquire
<1>4. CASE RistStart
  <2>1. ristStep = "start" /\ ristStep' # "start" /\ owner = rist /\ owner' = rist
    BY <1>4, StartEffect, StartFailsEffect DEF RistStart, Rist, HolderInv, StartersHold, vars
  <2>2. hookPub' \in Pubs \cup {NoSession}
    BY <1>1 DEF IngestTypeOK, hookVars
  <2>3. ~StartPending'
    BY <2>1, <2>2 DEF StartPending, HolderInv, StartersHold
  <2> QED BY <2>1, <2>3 DEF Starts, StartPending
<1>5. CASE RistAbort \/ StopActiveStream
  BY <1>2, <1>5, ReleaseSilences DEF RistAbort, StopActiveStream, Rist
<1>6. CASE RistTouch
  BY <1>2, <1>6, ReportEffect DEF RistTouch, Rist, Leaves, relayVars
<1>7. CASE RistStop
  BY <1>7, StopEffect DEF RistStop, Silences
<1>8. CASE RistLine
  BY <1>2, <1>8 DEF RistLine, Rist, Leaves, relayVars
<1>9. CASE Heartbeat /\ ~StopActiveStream
  BY <1>2, <1>9 DEF Heartbeat, Rist, Leaves, relayVars
<1>10. CASE HeartbeatAsk \/ HeartbeatTouch
  BY <1>2, <1>10 DEF HeartbeatAsk, HeartbeatTouch, Leaves, relayVars
<1> QED BY <1>3, <1>4, <1>5, <1>6, <1>7, <1>8, <1>9, <1>10
        DEF RistHandler, RistEnd, Heartbeat

LEMMA RestKinds ==
  ASSUME ManagerInv,
         \/ RelayDies \/ RelayRevives \/ Second
         \/ \E k \in Keys : WatchdogRelease(k)
         \/ UNCHANGED ingestVars
  PROVE  Silences \/ Leaves
<1>1. StartPending' => StartPending
  BY DEF RelayDies, RelayRevives, Second, SecondPasses, WatchdogRelease, ingestVars,
         hookVars, ristVars, StartPending
<1>2. CASE want' = want
  BY <1>1, <1>2 DEF Leaves
<1>3. ASSUME NEW k \in Keys, WatchdogRelease(k), want' # want PROVE Silences
  <2>1. slot # NoKey /\ slot' = NoKey /\ want' = NoSession
    BY <1>3 DEF WatchdogRelease, OnSlotRelease, StopSession, Relay!Stop, relayVars
  <2>2. owner' = NoSession /\ owner # NoSession
    BY <1>3, <2>1, KeysAssumption
       DEF WatchdogRelease, HandleTimeout, ReleaseSlot, slotVars, ManagerInv, IInv, TypeOK
  <2> QED BY <2>1, <2>2 DEF Silences
<1> QED BY <1>2, <1>3
        DEF RelayDies, RelayRevives, Relay!Die, Relay!Revive, Second, SecondPasses,
            ingestVars, relayVars

LEMMA StepKinds ==
  ASSUME NoStaleClosure, ManagerInv, HolderInv, HolderInv', [IngestNext]_ingestVars
  PROVE  Acquires \/ Starts \/ Silences \/ Leaves
BY RtmpKinds, HookKinds, RistKinds, RestKinds DEF IngestNext, AdapterNext

(* OnlyLateStopsSilence of Ingest: while a source keeps the slot and its   *)
(* session, nothing takes the session away but the second StopSession of a *)
(* handler that has ended another session.  ActiveFeedIsRelayed is broken  *)
(* in no other way.                                                        *)
THEOREM OnlyLateStops == IngestSpec /\ []NoStaleClosure => OnlyLateStopsSilence
<1>1. IngestInit => FreshInv
  BY DEF IngestInit, Relay!RelayInit, FreshInv
<1>2. ASSUME NoStaleClosure, ManagerInv, HolderInv, HolderInv', FreshInv,
             [IngestNext]_ingestVars
      PROVE  FreshInv'
  <2>1. owner = NoSession => want = NoSession
    BY <1>2, SessionsAssumption DEF HolderInv, RelayServesHolder, ManagerInv, IngestTypeOK
  <2> QED BY <1>2, <2>1, StepKinds DEF FreshInv, Acquires, Starts, Silences, Leaves
<1>3. ASSUME NoStaleClosure, ManagerInv, HolderInv, HolderInv', FreshInv, IngestNext,
             want # NoSession, want = owner, owner' = owner
      PROVE  want' = want \/ HookStop \/ RistStop
  BY <1>3, StepKinds DEF FreshInv, Acquires, Starts, Silences, Leaves
<1>4. NoStaleClosure /\ ManagerInv /\ HolderInv /\ HolderInv' /\ FreshInv
      /\ [IngestNext]_ingestVars =>
        [want # NoSession /\ want = owner /\ owner' = owner
           => want' = want \/ HookStop \/ RistStop]_ingestVars
  BY <1>3
<1> QED
  BY <1>1, <1>2, <1>4, HolderInvariant, PTL DEF IngestSpec, OnlyLateStopsSilence

----------------------------------------------------------------------------
(* The release closures.  That of the RIST adapter needs that the adapter  *)
(* has dropped an old one before its handler acquires the slot.            *)

ClosureInv ==
    /\ ClosuresAreUnused
    /\ ristStep \in {"acquire", "start", "abort"} => ~ristActive

LEMMA HoldingAfter ==
  ASSUME NEW s \in Sessions
  PROVE  /\ Acquire(s) => holding' = holding \cup {s}
         /\ ReleaseAndStop(s) => holding' = holding \ {s}
         /\ Report \/ StartOk(s) \/ StartFails \/ StopRelay => holding' = holding
BY DEF Acquire, TryAcquire, ReleaseAndStop, Release, Report, Touch, StartOk, StartFails,
       StopRelay, vars

LEMMA RtmpClosures ==
  ASSUME IngestTypeOK, ClosureInv, NEW c \in Conns, RtmpStep(c) PROVE ClosureInv'
<1> USE AdaptersAssumption, SessionsAssumption DEF ClosureInv, ClosuresAreUnused
<1>1. UNCHANGED <<hookVars, ristVars>> /\ \E phase : conn' = [conn EXCEPT ![c] = phase]
  BY DEF RtmpStep, RtmpSession, RtmpAcquire, RtmpStart, RtmpFlush, RtmpMessage, RtmpEnd,
         RtmpRelease, Becomes
<1>2. hookSlot # c /\ rist # c /\ \A d \in Conns : d # c => conn'[d] = conn[d]
  BY <1>1 DEF IngestTypeOK
<1>3. CASE RtmpAcquire(c)
  BY <1>1, <1>2, <1>3, HoldingAfter DEF RtmpAcquire, hookVars, ristVars
<1>4. CASE RtmpRelease(c)
  <2>1. conn'[c] = "idle" /\ holding' = holding \ {c}
    BY <1>4, HoldingAfter DEF RtmpRelease, Becomes, IngestTypeOK
  <2> QED BY <1>1, <1>2, <2>1 DEF hookVars, ristVars
<1>5. CASE RtmpStart(c) \/ RtmpFlush(c) \/ RtmpEnd(c) \/ \E m \in Messages : RtmpMessage(c, m)
  <2>1. conn[c] # "idle" /\ holding' = holding
    BY <1>5, HoldingAfter DEF RtmpStart, RtmpFlush, RtmpEnd, RtmpMessage, InPhase, Reading,
                              vars
  <2> QED BY <1>1, <1>2, <2>1 DEF hookVars, ristVars
<1> QED BY <1>3, <1>4, <1>5 DEF RtmpStep, RtmpSession

LEMMA HookClosures ==
  ASSUME IngestTypeOK, ClosureInv, HookStep \/ \E x \in Pubs : HookEvent(x)
  PROVE  ClosureInv'
<1> USE AdaptersAssumption, SessionsAssumption DEF ClosureInv, ClosuresAreUnused
<1>1. UNCHANGED <<conn, ristVars>>
  BY DEF HookStep, HookEvent, HookStart, HookAbort, HookTouch, HookStop, HookConnect,
         HookClose, StatsPush, PubLeaves, HookDone, Hook
<1>2. rist \notin Pubs /\ \A c \in Conns : c \notin Pubs
  OBVIOUS
<1>3. ASSUME NEW x \in Pubs, HookConnect(x) PROVE ClosureInv'
  BY <1>1, <1>3, HoldingAfter DEF HookConnect, Hook, ristVars
<1>4. ASSUME NEW x \in Pubs, holding' = holding \ {x}, hookSlot' = NoSession,
             hook' \in {"free", "stop"}
      PROVE  ClosureInv'
  BY <1>1, <1>2, <1>4 DEF ristVars
<1>5. ASSUME NEW x \in Pubs, HookAbort(x) PROVE ClosureInv'
  BY <1>4, <1>5, HoldingAfter DEF HookAbort, HookDone, Hook
<1>6. ASSUME holding' = holding, hookSlot' = hookSlot,
             hook' \in {"start", "abort"} =>
                hook \in {"start", "abort"} /\ hookPub' = hookPub
      PROVE  ClosureInv'
  BY <1>1, <1>6 DEF ristVars
<1>7. ASSUME NEW x \in Pubs, HookClose(x) PROVE ClosureInv'
  <2>1. CASE UNCHANGED <<vars, relayVars>> /\ UNCHANGED hookSlot /\ HookDone
    BY <1>6, <2>1 DEF vars, HookDone, Hook
  <2>2. CASE hookSlot # NoSession /\ ReleaseAndStop(hookSlot) /\ hookSlot' = NoSession
             /\ Hook("stop", x)
    <3>1. PICK y \in Pubs : y = hookSlot
      BY <2>2 DEF IngestTypeOK
    <3>2. holding' = holding \ {y}
      BY <2>2, <3>1 DEF ReleaseAndStop, Release
    <3> QED BY <1>4, <2>2, <3>2 DEF Hook
  <2> QED BY <1>7, <2>1, <2>2 DEF HookClose
<1>8. ASSUME NEW x \in Pubs, HookStart(x) \/ HookTouch(x) \/ StatsPush(x) \/ PubLeaves(x)
      PROVE  ClosureInv'
  <2>1. holding' = holding /\ hookSlot' = hookSlot
    BY <1>8, HoldingAfter
       DEF HookStart, HookTouch, StatsPush, PubLeaves, StartOk, StartFails, vars
  <2> QED BY <1>6, <1>8, <2>1 DEF HookStart, HookTouch, StatsPush, PubLeaves, HookDone, Hook
<1>9. CASE HookStop
  BY <1>6, <1>9 DEF HookStop, StopRelay, HookDone, Hook, vars
<1> QED BY <1>3, <1>5, <1>7, <1>8, <1>9 DEF HookStep, HookEvent

LEMMA RistClosures ==
  ASSUME IngestTypeOK, ClosureInv,
         RistHandler \/ RistLine \/ RistEnd \/ Heartbeat \/ HeartbeatAsk \/ HeartbeatTouch
  PROVE  ClosureInv'
<1> USE AdaptersAssumption, SessionsAssumption DEF ClosureInv, ClosuresAreUnused
<1>1. UNCHANGED <<conn, hookVars>> /\ rist \notin Conns \cup Pubs
  BY DEF RistHandler, RistAcquire, RistStart, RistAbort, RistTouch, RistStop, RistLine,
         RistEnd, Heartbeat, HeartbeatAsk, HeartbeatTouch, StopActiveStream, Rist
<1>2. hookSlot # rist
  BY <1>1 DEF IngestTypeOK
<1>3. CASE RistAcquire
  BY <1>1, <1>3, HoldingAfter DEF RistAcquire, Rist, hookVars, vars
<1>4. CASE RistStart
  BY <1>1, <1>4, HoldingAfter DEF RistStart, Rist, hookVars
<1>5. CASE RistAbort \/ StopActiveStream
  <2>1. holding' = holding \ {rist} /\ (ristActive' => ristStep' = "stop")
        /\ ristStep' \in {"free", "stop"}
    BY <1>5, HoldingAfter DEF RistAbort, StopActiveStream, Rist
  <2> QED BY <1>1, <1>2, <2>1 DEF hookVars
<1>6. CASE RistTouch
  BY <1>1, <1>6, HoldingAfter DEF RistTouch, Rist, hookVars
<1>7. CASE RistStop
  BY <1>1, <1>7, HoldingAfter DEF RistStop, Rist, hookVars
<1>8. CASE RistLine
  BY <1>1, <1>8 DEF RistLine, Rist, hookVars, vars
<1>9. CASE Heartbeat /\ ~StopActiveStream
  BY <1>1, <1>9 DEF Heartbeat, Rist, hookVars, vars
<1>10. CASE HeartbeatAsk \/ HeartbeatTouch
  BY <1>1, <1>10 DEF HeartbeatAsk, HeartbeatTouch, Touch, hookVars, vars
<1> QED BY <1>3, <1>4, <1>5, <1>6, <1>7, <1>8, <1>9, <1>10
        DEF RistHandler, RistEnd, Heartbeat

LEMMA RestClosures ==
  ASSUME ClosureInv,
         \/ RelayDies \/ RelayRevives
         \/ \E beats \in BOOLEAN : SecondPasses(beats)
         \/ \E k \in Keys : WatchdogRelease(k)
         \/ UNCHANGED ingestVars
  PROVE  ClosureInv'
<1>1. UNCHANGED <<conn, hook, hookPub, hookSlot, ristStep, ristActive, holding>>
  BY DEF RelayDies, RelayRevives, SecondPasses, Tick, WatchdogRelease, HandleTimeout,
         ingestVars, hookVars, ristVars, vars
<1> QED BY <1>1 DEF ClosureInv, ClosuresAreUnused

LEMMA InitClosureInv == IngestInit => ClosureInv
  BY DEF IngestInit, ClosureInv, ClosuresAreUnused

LEMMA StepClosureInv ==
  IngestTypeOK /\ ClosureInv /\ [IngestNext]_ingestVars => ClosureInv'
BY RtmpClosures, HookClosures, RistClosures, RestClosures
   DEF IngestNext, AdapterNext, Second

(* ClosuresAreUnused of Ingest: no adapter calls a release closure twice,  *)
(* whatever keys the sources present.                                      *)
THEOREM ClosuresAreCalledOnce == IngestSpec => []ClosuresAreUnused
<1>1. ClosureInv => ClosuresAreUnused
  BY DEF ClosureInv
<1> QED
  BY <1>1, InitClosureInv, StepClosureInv, InitIngestTypeOK, StepIngestTypeOK, PTL
     DEF IngestSpec

----------------------------------------------------------------------------
(* The RIST adapter and its slot.  It asks only whether there is an active *)
(* slot, so that all depends on nobody ending its slot behind its back:    *)
(* the silence the watchdog counts is never ahead of the age that the      *)
(* heartbeat sees.                                                         *)

(* The heartbeat finds a stream stale in time, or there is no watchdog. *)
HeartbeatIsFirst == SourceTimeout = 0 \/ SourceTimeout > StaleAge + 1

OwnInv ==
    /\ ristStep \in {"acquire", "start", "abort"} => ~ristActive
    /\ ristStep \in {"acquire", "start", "touch"} => ristAge = 0
    /\ ristActive /\ ristStep \in {"free", "touch"} => owner = rist
    /\ ristActive /\ ristStep = "free" =>
          silence <= ristAge /\ (ristAge > StaleAge => beatDue)

(* The other adapters leave the slot of the RIST adapter alone, or touch it.*)
LEMMA OthersStep ==
  ASSUME NoStaleClosure, ManagerInv,
         \/ \E c \in Conns : RtmpStep(c)
         \/ HookStep \/ \E x \in Pubs : HookEvent(x)
  PROVE  UNCHANGED ristVars /\ (owner = rist => owner' = rist /\ silence' \in {silence, 0})
<1> USE AdaptersAssumption, SessionsAssumption DEF ManagerInv, IInv
<1>1. ASSUME NEW s \in Conns \cup Pubs, owner = rist, Acquire(s) \/ ReleaseAndStop(s)
      PROVE  owner' = rist /\ silence' \in {silence, 0}
  BY <1>1, AcquireEffect, ReleaseEffect
<1>2. ASSUME owner = rist, Report PROVE owner' = rist /\ silence' \in {silence, 0}
  BY <1>2, ReportEffect
<1>3. ASSUME NEW c \in Conns, RtmpStep(c)
      PROVE  UNCHANGED ristVars /\ (owner = rist => owner' = rist /\ silence' \in {silence, 0})
  BY <1>1, <1>2, <1>3
     DEF RtmpStep, RtmpSession, RtmpAcquire, RtmpStart, RtmpFlush, RtmpMessage, RtmpEnd,
         RtmpRelease, StartOk, StartFails, Becomes, vars
<1>4. ASSUME HookStep
      PROVE  UNCHANGED ristVars /\ (owner = rist => owner' = rist /\ silence' \in {silence, 0})
  BY <1>1, <1>2, <1>4 DEF HookStep, HookStart, HookAbort, HookTouch, HookStop, StopRelay,
                          StartOk, StartFails, HookDone, Hook, vars
<1>5. ASSUME NEW x \in Pubs, HookEvent(x)
      PROVE  UNCHANGED ristVars /\ (owner = rist => owner' = rist /\ silence' \in {silence, 0})
  <2>1. CASE HookConnect(x) \/ StatsPush(x) \/ PubLeaves(x)
    BY <1>1, <2>1 DEF HookConnect, StatsPush, PubLeaves, Hook, vars
  <2>2. CASE HookClose(x)
    <3>1. UNCHANGED ristVars
      BY <2>2 DEF HookClose, HookDone, Hook
    <3>2. CASE UNCHANGED <<vars, relayVars>>
      BY <3>1, <3>2 DEF vars
    <3>3. CASE hookSlot # NoSession /\ ReleaseAndStop(hookSlot)
      <4>1. PICK y \in Pubs : y = hookSlot
        BY <3>3 DEF IngestTypeOK
      <4>2. ReleaseAndStop(y)
        BY <3>3, <4>1 DEF ReleaseAndStop, Release, ReleaseSlot
      <4> QED BY <3>1, <4>2, ReleaseEffect
    <3> QED BY <2>2, <3>2, <3>3 DEF HookClose
  <2> QED BY <1>5, <2>1, <2>2 DEF HookEvent
<1> QED BY <1>3, <1>4, <1>5

LEMMA RistOwn ==
  ASSUME NoStaleClosure, ManagerInv, HolderInv, OwnInv, NoCallback,
         RistHandler \/ RistLine \/ RistEnd \/ Heartbeat \/ HeartbeatAsk \/ HeartbeatTouch
  PROVE  OwnInv'
<1> USE AdaptersAssumption, SessionsAssumption, KeysAssumption, AgesAssumption
<1> USE DEF ManagerInv, IInv, OwnInv
<1>1. CASE RistAcquire
  BY <1>1 DEF RistAcquire, Rist
<1>2. CASE RistStart
  BY <1>2 DEF RistStart, Rist, StartOk, StartFails, vars, HolderInv, StartersHold
<1>3. CASE RistAbort
  BY <1>3 DEF RistAbort, Rist
<1>4. CASE RistTouch
  <2>1. owner' = owner /\ (slot # NoKey => silence' = 0)
    BY <1>4, ReportEffect DEF RistTouch
  <2>2. ristActive => slot # NoKey
    BY <1>4 DEF RistTouch, TypeOK
  <2> QED BY <1>4, <2>1, <2>2 DEF RistTouch, Rist, IngestTypeOK
<1>5. CASE StopActiveStream
  BY <1>5 DEF StopActiveStream, Rist
<1>6. CASE RistStop
  BY <1>6 DEF RistStop, Rist
<1>7. CASE RistLine
  BY <1>7 DEF RistLine, Rist, vars, IngestTypeOK
<1>8. CASE Heartbeat /\ ~StopActiveStream
  BY <1>8 DEF Heartbeat, Rist, vars, IngestTypeOK
<1>9. CASE HeartbeatAsk
  BY <1>9 DEF HeartbeatAsk, vars
<1>10. CASE HeartbeatTouch
  <2>1. owner' = owner /\ silence' \in {silence, 0}
    BY <1>10 DEF HeartbeatTouch, Touch, vars
  <2> QED BY <1>10, <2>1 DEF HeartbeatTouch, IngestTypeOK, TypeOK
<1> QED BY <1>1, <1>2, <1>3, <1>4, <1>5, <1>6, <1>7, <1>8, <1>9, <1>10
        DEF RistHandler, RistEnd, Heartbeat

LEMMA StepOwnInv ==
  ASSUME NoStaleClosure, HeartbeatIsFirst, ManagerInv, HolderInv, OwnInv,
         [IngestNext]_ingestVars
  PROVE  OwnInv'
<1> USE AdaptersAssumption, SessionsAssumption, KeysAssumption, AgesAssumption,
        TimeoutAssumption
<1> USE DEF ManagerInv, IInv
<1>1. ASSUME UNCHANGED ristVars, owner = rist => owner' = rist /\ silence' \in {silence, 0}
      PROVE  OwnInv'
  BY <1>1 DEF OwnInv, ristVars, IngestTypeOK, TypeOK
<1>2. CASE (\E c \in Conns : RtmpStep(c)) \/ HookStep \/ \E x \in Pubs : HookEvent(x)
  BY <1>1, <1>2, OthersStep
<1>3. CASE RelayDies \/ RelayRevives \/ UNCHANGED ingestVars
  BY <1>1, <1>3 DEF RelayDies, RelayRevives, vars, ingestVars
<1>4. CASE Second
  BY <1>4 DEF Second, SecondPasses, HandlersIdle, OwnInv, Tick, vars, IngestTypeOK, TypeOK
<1>5. ASSUME NEW k \in Keys, WatchdogRelease(k) PROVE OwnInv'
  <2>1. UNCHANGED ristVars /\ callbacks[k] > 0
    BY <1>5 DEF WatchdogRelease, HandleTimeout
  <2>2. slot = k /\ timer = 0 /\ SourceTimeout > 0
    BY <2>1 DEF PromptInv, Expired
  <2>3. silence = SourceTimeout
    BY <2>2 DEF WatchdogCoversSlot, TypeOK
  <2>4. ristStep = "free"
    BY <2>1 DEF CallbacksAlone, NoCallback
  <2>5. ~ristActive
    BY <2>2, <2>3, <2>4 DEF OwnInv, HeartbeatIsFirst, IngestTypeOK
  <2> QED BY <2>1, <2>4, <2>5 DEF OwnInv, ristVars
<1> QED BY <1>2, <1>3, <1>4, <1>5, RistOwn DEF IngestNext, AdapterNext

(* RistSlotIsItsOwn of Ingest: as long as the heartbeat finds a silent     *)
(* stream stale before the watchdog does, the RIST adapter never takes the *)
(* slot of another source for its own.                                     *)
THEOREM RistKeepsToItsSlot ==
  ASSUME HeartbeatIsFirst
  PROVE  IngestSpec /\ []NoStaleClosure => []RistSlotIsItsOwn
<1>1. IngestInit => OwnInv
  BY AdaptersAssumption, SessionsAssumption DEF IngestInit, OwnInv
<1>2. ManagerInv /\ HolderInv /\ NoStaleClosure /\ OwnInv /\ [IngestNext]_ingestVars
      => OwnInv'
  BY StepOwnInv
<1>3. OwnInv => RistSlotIsItsOwn
  BY DEF OwnInv, RistSlotIsItsOwn
<1> QED BY <1>1, <1>2, <1>3, HolderInvariant, PTL DEF IngestSpec
=============================================================================
