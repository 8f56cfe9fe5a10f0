---------------------------- MODULE ServerProofs ----------------------------
(***************************************************************************)
(* What holds of the server from start to exit, for any connections,       *)
(* publishers and timeouts.                                                *)
(*                                                                         *)
(* Each property is about a late stage of main and rests on what every     *)
(* earlier stage leaves behind: connections and handshakes are gone from   *)
(* CloseSrt on, the webhook is closed, RIST is silent from RistClosed on,  *)
(* the relay from FinalStop on, and no handler is left to start anything.  *)
(***************************************************************************)
EXTENDS Server, IngestProofs

(* What main and the daemons do to the adapters' variables that is no step *)
(* of an adapter, and a second in which the heartbeat has ended.           *)
MainSteps == CloseSrt \/ RistReadersEnd \/ FinalStop
             \/ (\E d \in Daemons : DaemonDies(d))
             \/ (~ristReads /\ SecondPasses(FALSE))

LEMMA ServerStepIs ==
  ASSUME ServerTypeOK, [ServerNext]_allVars
  PROVE  [IngestNext]_ingestVars \/ (NoCallback /\ MainSteps)
<1> USE DEF MainSteps, IngestNext, AdapterNext
<1>1. CASE UNCHANGED allVars
  BY <1>1 DEF allVars
<1>2. ASSUME NEW k \in Keys, WatchdogRelease(k) PROVE IngestNext
  BY <1>2
<1>3. CASE NoCallback /\ AdaptersGoOn
  <2>1. SecondPasses(ristReads) => Second \/ (~ristReads /\ SecondPasses(FALSE))
    <3>1. CASE ristReads = TRUE
      BY <3>1 DEF Second
    <3>2. CASE ristReads = FALSE
      BY <3>2
    <3> QED BY <3>1, <3>2 DEF ServerTypeOK
  <2>2. ASSUME NEW c \in Conns, RtmpSession(c) PROVE RtmpStep(c)
    BY <2>2 DEF RtmpStep
  <2>3. ASSUME NEW x \in Pubs, PubLeaves(x) PROVE HookEvent(x)
    BY <2>3 DEF HookEvent
  <2> QED BY <1>3, <2>1, <2>2, <2>3, Zenon DEF AdaptersGoOn
<1>4. CASE NoCallback /\ (MainStarts \/ Abort \/ Signal \/ MainCloses)
  BY <1>4 DEF MainStarts, StartRtmp, StartSrt, AwaitReady, StartSrtla, StartRist, StartStats,
              Abort, Signal, MainCloses, CloseRist, RistEnd, RistClosed, Exit, Goes
<1>5. ASSUME NEW c \in Conns, NoCallback, RtmpConnect(c) \/ RtmpRefused(c) \/ RtmpAccepted(c)
      PROVE  [IngestNext]_ingestVars
  BY <1>5 DEF RtmpConnect, RtmpRefused, RtmpAccepted, RtmpStep
<1>6. ASSUME NEW x \in Pubs, NoCallback, WebhookRequest(x) PROVE IngestNext
  BY <1>6 DEF WebhookRequest, Request, HookEvent
<1> QED BY <1>1, <1>2, <1>3, <1>4, <1>5, <1>6 DEF ServerNext

LEMMA MainStepsTyped == ASSUME IngestTypeOK, MainSteps PROVE IngestTypeOK'
<1> USE TypesByPart, AdaptersAssumption, AgesAssumption DEF RelayTyped
<1>1. RelayTyped'
  BY CallsTyped DEF MainSteps, CloseSrt, RistReadersEnd, FinalStop, DaemonDies,
                    SecondPasses, Calls, relayVars
<1>2. conn' = conn /\ hook' = hook /\ hookPub' = hookPub /\ hookSlot' = hookSlot
      /\ closes' = closes /\ (online' = online \/ online' = {})
  BY DEF MainSteps, CloseSrt, RistReadersEnd, FinalStop, DaemonDies, SecondPasses, hookVars
<1>3. RistTyped'
  <2>1. CASE UNCHANGED ristVars
    BY <2>1 DEF RistTyped, ristVars
  <2>2. CASE SecondPasses(FALSE)
    <3>1. beatDue' \in BOOLEAN
      BY <2>2, Zenon DEF SecondPasses
    <3> QED BY <2>2, <3>1 DEF RistTyped, SecondPasses
  <2>3. CASE RistReadersEnd
    BY <2>3 DEF RistTyped, RistReadersEnd
  <2> QED BY <2>1, <2>2, <2>3 DEF MainSteps, CloseSrt, FinalStop, DaemonDies
<1>4. ConnTyped' /\ HookTyped'
  BY <1>2 DEF ConnTyped, HookTyped
<1> QED BY <1>1, <1>3, <1>4

(* The manager takes no step of another kind either. *)
LEMMA MainStepsArePrompt == ASSUME NoCallback, MainSteps PROVE [PromptNext]_vars
BY DEF MainSteps, CloseSrt, RistReadersEnd, FinalStop, StopRelay, DaemonDies, SecondPasses,
       PromptNext

LEMMA MainStepsManager == ASSUME ManagerInv, NoCallback, MainSteps PROVE ManagerInv'
<1>1. IngestTypeOK'
  BY MainStepsTyped DEF ManagerInv
<1>2. IInv' /\ PromptInv'
  BY MainStepsArePrompt, PromptIsNext, StepIInv, StepPromptInv DEF ManagerInv
<1>3. CallbacksAlone'
  <2>1. CASE SecondPasses(FALSE)
    BY <2>1 DEF SecondPasses, HandlersIdle, CallbacksAlone, Reading, hookVars
  <2>2. CASE UNCHANGED callbacks
    BY <2>2 DEF CallbacksAlone, NoCallback
  <2> QED BY <2>1, <2>2 DEF MainSteps, CloseSrt, RistReadersEnd, FinalStop, StopRelay,
                            DaemonDies, vars
<1> QED BY <1>1, <1>2, <1>3 DEF ManagerInv

----------------------------------------------------------------------------
(* The stages of main *)

BeforeSrtla == main \in {"rtmp", "srt", "ready", "srtla"}
BeforeRist == BeforeSrtla \/ main = "rist"
RtmpIsClosed == main \in (Closing \ {"closeRtmp"}) \cup {"exited"}
RistIsClosed == main \in {"stop", "leaving", "exited"}
RelayIsStopped == main \in {"leaving", "exited"}

StageInv ==
    /\ BeforeSrtla => srtlaRec \notin started
    /\ BeforeRist => ~ristReads /\ ristStep = "free" /\ ~ristActive
    /\ RtmpIsClosed => /\ handshakes = {} /\ \A c \in Conns : conn[c] = "idle"
                       /\ webhook = "closed" /\ (late # "handled" => hook = "free")
    /\ RistIsClosed => ~ristReads /\ ristStep = "free"

ServerInv == ManagerInv /\ ServerTypeOK /\ StageInv

LEMMA StepServerTyped ==
  ASSUME StageInv, ServerTypeOK, [ServerNext]_allVars PROVE ServerTypeOK'
<1> USE DEF ServerTypeOK, Starting, Closing, Daemons, srtServer, srtlaRec
<1>1. CASE UNCHANGED serverVars
  BY <1>1 DEF serverVars, srtVars
<1>2. CASE MainStarts
  <2>1. CASE StartSrtla
    BY <2>1 DEF StartSrtla, Goes, LaunchFails, Launch, SetUnhealthy, ClearUnhealthy,
                StageInv, BeforeSrtla
  <2>2. CASE StartRist
    <3>1. ristReads' \in BOOLEAN
      BY <2>2, Zenon DEF StartRist
    <3> QED BY <2>2, <3>1 DEF StartRist, Goes, srtVars
  <2> QED BY <1>2, <2>1, <2>2
          DEF MainStarts, StartRtmp, StartSrt, AwaitReady, StartStats, Goes, LaunchFails,
              Launch, SetUnhealthy, ClearUnhealthy, srtVars
<1>3. CASE Abort \/ Signal \/ MainCloses \/ RistReadersEnd
  BY <1>3 DEF Abort, Signal, MainCloses, CloseSrt, CloseRist, RistClosed,
              FinalStop, Exit, RistReadersEnd, Goes, srtVars
<1>4. ASSUME NEW c \in Conns, RtmpConnect(c) \/ RtmpRefused(c) \/ RtmpAccepted(c)
      PROVE  ServerTypeOK'
  BY <1>4 DEF RtmpConnect, RtmpRefused, RtmpAccepted, srtVars
<1>5. ASSUME NEW x \in Pubs, WebhookRequest(x) PROVE ServerTypeOK'
  BY <1>5 DEF WebhookRequest
<1>6. ASSUME NEW d \in Daemons, DaemonDies(d) PROVE ServerTypeOK'
  BY <1>6 DEF DaemonDies
<1> QED BY <1>1, <1>2, <1>3, <1>4, <1>5, <1>6 DEF ServerNext, AdaptersGoOn, allVars

LEMMA StepStageInv ==
  ASSUME IngestTypeOK, ServerTypeOK, StageInv, [ServerNext]_allVars PROVE StageInv'
<1> USE DEF ServerTypeOK, StageInv, BeforeSrtla, BeforeRist, RtmpIsClosed, RistIsClosed,
            Starting, Closing, Daemons, srtServer, srtlaRec
<1>1. CASE MainStarts \/ Abort \/ Signal
  BY <1>1 DEF MainStarts, StartRtmp, StartSrt, AwaitReady, StartSrtla, StartRist,
              StartStats, Abort, Signal, Goes, LaunchFails, Launch, srtVars, ingestVars,
              ristVars
<1>2. CASE CloseSrt
  BY <1>2 DEF CloseSrt, RtmpEnded
<1>3. CASE MainCloses /\ ~CloseSrt
  BY <1>3 DEF MainCloses, CloseRist, StopActiveStream, Rist, RistClosed,
              FinalStop, Exit, Goes, srtVars, ingestVars, hookVars, ristVars
<1>4. CASE RistReadersEnd
  BY <1>4 DEF RistReadersEnd, srtVars, hookVars
<1>5. CASE AdaptersGoOn
  <2> USE DEF serverVars, srtVars
  <2>1. ASSUME NEW c \in Conns, RtmpSession(c) PROVE StageInv'
    <3>1. conn[c] # "idle" /\ UNCHANGED <<hookVars, ristVars>>
      BY <2>1 DEF RtmpSession, RtmpStart, RtmpFlush, RtmpMessage, RtmpEnd, RtmpRelease,
                  InPhase, Reading, Becomes
    <3> QED BY <1>5, <3>1 DEF AdaptersGoOn, hookVars, ristVars
  <2>2. CASE HookStep
    <3>1. hook # "free" /\ UNCHANGED <<conn, ristVars>>
      BY <2>2 DEF HookStep, HookStart, HookAbort, HookTouch, HookStop, HookDone, Hook
    <3> QED BY <1>5, <3>1 DEF AdaptersGoOn, ristVars
  <2>3. CASE RistHandler \/ (ristReads /\ (RistLine \/ RistEnd \/ Heartbeat))
    <3>1. (ristReads \/ ristStep # "free") /\ UNCHANGED <<conn, hookVars>>
      BY <2>3 DEF RistHandler, RistAcquire, RistStart, RistAbort, RistTouch, RistStop,
                  RistLine, RistEnd, Heartbeat, StopActiveStream, Rist
    <3> QED BY <1>5, <3>1 DEF AdaptersGoOn, hookVars
  <2>4. CASE HeartbeatAsk \/ HeartbeatTouch \/ RelayDies \/ RelayRevives
             \/ SecondPasses(ristReads) \/ (\E x \in Pubs : PubLeaves(x))
    BY <1>5, <2>4 DEF AdaptersGoOn, HeartbeatAsk, HeartbeatTouch, RelayDies, RelayRevives,
                      SecondPasses, PubLeaves, hookVars, ristVars
  <2> QED BY <1>5, <2>1, <2>2, <2>3, <2>4 DEF AdaptersGoOn
<1>6. ASSUME NEW c \in Conns, RtmpConnect(c) \/ RtmpRefused(c) \/ RtmpAccepted(c), Running
      PROVE  StageInv'
  <2>1. ~RtmpIsClosed
    BY <1>6 DEF RtmpConnect, RtmpRefused, RtmpAccepted, Running
  <2> QED BY <1>6, <2>1 DEF RtmpConnect, RtmpRefused, RtmpAccepted, RtmpAcquire, Becomes,
                            srtVars, ingestVars, hookVars, ristVars
<1>7. ASSUME NEW x \in Pubs, WebhookRequest(x) PROVE StageInv'
  <2>1. UNCHANGED <<conn, ristVars>>
    BY <1>7 DEF WebhookRequest, Request, HookConnect, HookClose, StatsPush, HookDone, Hook
  <2> QED BY <1>7, <2>1 DEF WebhookRequest, ristVars
<1>8. ASSUME NEW d \in Daemons, DaemonDies(d) PROVE StageInv'
  BY <1>8 DEF DaemonDies, ristVars
<1>9. CASE UNCHANGED allVars \/ (\E k \in Keys : WatchdogRelease(k) /\ UNCHANGED serverVars)
  BY <1>9 DEF allVars, serverVars, srtVars, ingestVars, WatchdogRelease, hookVars, ristVars
<1> QED BY <1>1, <1>2, <1>3, <1>4, <1>5, <1>6, <1>7, <1>8, <1>9 DEF ServerNext

LEMMA InitServerInv == ServerInit => ServerInv
<1> SUFFICES ASSUME ServerInit PROVE ServerInv
  OBVIOUS
<1>1. ManagerInv
  BY InitManagerInv DEF ServerInit
<1>2. ServerTypeOK /\ StageInv
  <2>1. ristReads \in BOOLEAN
    BY Zenon DEF ServerInit
  <2> QED BY <2>1 DEF ServerInit, ServerTypeOK, StageInv, BeforeSrtla, BeforeRist,
                      RtmpIsClosed, RistIsClosed, Starting, Closing, IngestInit
<1> QED BY <1>1, <1>2 DEF ServerInv

LEMMA StepServerInv == ServerInv /\ [ServerNext]_allVars => ServerInv'
<1> SUFFICES ASSUME ServerInv, [ServerNext]_allVars PROVE ServerInv'
  OBVIOUS
<1>1. ManagerInv'
  BY ServerStepIs, StepManagerInv, MainStepsManager DEF ServerInv
<1> QED BY <1>1, StepServerTyped, StepStageInv DEF ServerInv, ManagerInv

(* ServerTypeOK of Server: the stages of main and the daemons' states.     *)
THEOREM ServerTyped == ServerSpec => []ServerTypeOK
<1>1. ServerInv => ServerTypeOK
  BY DEF ServerInv
<1> QED BY <1>1, InitServerInv, StepServerInv, PTL DEF ServerSpec

----------------------------------------------------------------------------
(* Nobody has the slot when its listener is closed *)

OwnerIsConnected == owner \in Conns => conn[owner] # "idle"

LEMMA StepOwnerIsConnected ==
  ASSUME IngestTypeOK, TypeOK, OwnerIsConnected, [IngestNext]_ingestVars \/ MainSteps
  PROVE  OwnerIsConnected'
<1> USE AdaptersAssumption, SessionsAssumption, KeysAssumption DEF OwnerIsConnected
<1>1. ASSUME NEW s \in Sessions, ReleaseAndStop(s)
      PROVE  owner' \in {owner, NoSession} \ {s}
  BY <1>1 DEF ReleaseAndStop, Release, ReleaseSlot, slotVars, TypeOK
<1>2. ASSUME NEW s \in Pubs \cup {rist}, conn' = conn, Acquire(s) \/ ReleaseAndStop(s)
      PROVE  OwnerIsConnected'
  BY <1>1, <1>2 DEF Acquire, TryAcquire
<1>3. ASSUME conn' = conn, UNCHANGED vars \/ Report \/ (slot # NoKey /\ Touch) \/ Tick
      PROVE  OwnerIsConnected'
  BY <1>3 DEF vars, Report, Touch, Tick
<1>4. ASSUME NEW c \in Conns, RtmpStep(c) PROVE OwnerIsConnected'
  <2>1. conn \in [Conns -> {"idle", "acquired", "gated", "streaming", "closing"}]
    BY DEF IngestTypeOK
  <2>2. CASE RtmpAcquire(c)
    BY <2>1, <2>2 DEF RtmpAcquire, Acquire, TryAcquire, Becomes
  <2>3. CASE RtmpRelease(c)
    BY <1>1, <2>1, <2>3 DEF RtmpRelease, Becomes
  <2>4. CASE RtmpStart(c) \/ RtmpFlush(c) \/ RtmpEnd(c) \/ \E m \in Messages : RtmpMessage(c, m)
    <3>1. owner' = owner
      BY <2>4 DEF RtmpStart, RtmpFlush, RtmpEnd, RtmpMessage, StartOk, StartFails, Report,
                  Touch, vars
    <3>2. \A d \in Conns : conn[d] # "idle" => conn'[d] # "idle"
      BY <2>1, <2>4 DEF RtmpStart, RtmpFlush, RtmpEnd, RtmpMessage, Reading, Becomes
    <3> QED BY <3>1, <3>2
  <2> QED BY <1>4, <2>2, <2>3, <2>4 DEF RtmpStep, RtmpSession
<1>5. CASE HookStep
  <2>1. conn' = conn
    BY <1>5 DEF HookStep, HookStart, HookAbort, HookTouch, HookStop, HookDone, Hook
  <2> QED BY <1>2, <1>3, <1>5, <2>1
          DEF HookStep, HookStart, HookAbort, HookTouch, HookStop, StopRelay, StartOk,
              StartFails
<1>6. ASSUME NEW x \in Pubs, HookEvent(x) PROVE OwnerIsConnected'
  <2>1. conn' = conn
    BY <1>6 DEF HookEvent, HookConnect, HookClose, StatsPush, PubLeaves, HookDone, Hook
  <2>2. CASE HookConnect(x) \/ StatsPush(x) \/ PubLeaves(x)
    BY <1>2, <1>3, <2>1, <2>2 DEF HookConnect, StatsPush, PubLeaves
  <2>3. CASE HookClose(x)
    <3>1. CASE UNCHANGED <<vars, relayVars>>
      BY <1>3, <2>1, <3>1
    <3>2. CASE hookSlot # NoSession /\ ReleaseAndStop(hookSlot)
      <4>1. PICK y \in Pubs : y = hookSlot
        BY <3>2 DEF IngestTypeOK
      <4>2. ReleaseAndStop(y)
        BY <3>2, <4>1 DEF ReleaseAndStop, Release, ReleaseSlot
      <4> QED BY <1>1, <2>1, <4>2
    <3> QED BY <2>3, <3>1, <3>2 DEF HookClose
  <2> QED BY <1>6, <2>2, <2>3 DEF HookEvent
<1>7. CASE RistHandler \/ RistLine \/ RistEnd \/ Heartbeat \/ HeartbeatAsk \/ HeartbeatTouch
  <2>1. conn' = conn
    BY <1>7 DEF RistHandler, RistAcquire, RistStart, RistAbort, RistTouch, RistStop,
                RistLine, RistEnd, Heartbeat, HeartbeatAsk, HeartbeatTouch,
                StopActiveStream, Rist
  <2> QED BY <1>2, <1>3, <1>7, <2>1
          DEF RistHandler, RistAcquire, RistStart, RistAbort, RistTouch, RistStop, RistLine,
              RistEnd, Heartbeat, HeartbeatAsk, HeartbeatTouch, StopActiveStream, StopRelay,
              StartOk, StartFails
<1>8. CASE RelayDies \/ RelayRevives \/ Second \/ UNCHANGED ingestVars
  BY <1>3, <1>8 DEF RelayDies, RelayRevives, Second, SecondPasses, ingestVars
<1>9. ASSUME NEW k \in Keys, WatchdogRelease(k) PROVE OwnerIsConnected'
  BY <1>9 DEF WatchdogRelease, HandleTimeout, ReleaseSlot, slotVars
<1>10. CASE MainSteps
  BY <1>3, <1>10 DEF MainSteps, CloseSrt, RistReadersEnd, FinalStop, StopRelay, DaemonDies,
                     SecondPasses
<1> QED BY <1>4, <1>5, <1>6, <1>7, <1>8, <1>9, <1>10 DEF IngestNext, AdapterNext

(* ClosedRtmpHasNoSlot of Server: after rtmp.Server.Close no connection    *)
(* has the slot, however many there were and however late they came.       *)
THEOREM RtmpCloseIsComplete == ServerSpec => []ClosedRtmpHasNoSlot
<1>1. ServerInit => ServerInv /\ OwnerIsConnected
  BY InitServerInv, SessionsAssumption, AdaptersAssumption
     DEF ServerInit, IngestInit, Init, OwnerIsConnected
<1>2. ServerInv /\ OwnerIsConnected /\ [ServerNext]_allVars
      => (ServerInv /\ OwnerIsConnected)'
  BY StepServerInv, StepOwnerIsConnected, ServerStepIs DEF ServerInv, ManagerInv, IInv
<1>3. ServerInv /\ OwnerIsConnected => ClosedRtmpHasNoSlot
  BY DEF ServerInv, StageInv, RtmpIsClosed, OwnerIsConnected, ClosedRtmpHasNoSlot
<1> QED BY <1>1, <1>2, <1>3, PTL DEF ServerSpec

----------------------------------------------------------------------------
(* The exit *)

SilentInv ==
    RelayIsStopped /\ late # "handled" => playing = NoSession /\ want = NoSession

LEMMA StepSilentInv ==
  ASSUME IngestTypeOK, ServerTypeOK, StageInv, SilentInv, [ServerNext]_allVars
  PROVE  SilentInv'
<1> USE DEF SilentInv, RelayIsStopped
<1>1. CASE ~RelayIsStopped'
  BY <1>1
<1>2. CASE FinalStop
  BY <1>2, StopEffect DEF FinalStop
<1> SUFFICES ASSUME RelayIsStopped', ~FinalStop, late' # "handled" PROVE SilentInv'
  BY <1>1, <1>2
<1>3. CASE UNCHANGED <<want, playing, main>> /\ late # "handled"
  BY <1>3
<1>4. CASE UNCHANGED allVars
  BY <1>3, <1>4 DEF allVars, serverVars, srtVars, ingestVars, relayVars
<1>5. CASE MainStarts \/ Abort \/ Signal \/ MainCloses
  BY <1>5 DEF MainStarts, StartRtmp, StartSrt, AwaitReady, StartSrtla, StartRist, StartStats,
              Abort, Signal, MainCloses, CloseSrt, CloseRist, RistClosed,
              Exit, Goes, srtVars, ingestVars, relayVars
<1> SUFFICES ASSUME ~(MainStarts \/ Abort \/ Signal \/ MainCloses), ~UNCHANGED allVars
             PROVE  SilentInv'
  BY <1>4, <1>5
<1>6. main' = main /\ RtmpIsClosed /\ RistIsClosed
  BY DEF ServerNext, RistReadersEnd, AdaptersGoOn, RtmpConnect, RtmpRefused, RtmpAccepted,
         WebhookRequest, DaemonDies, serverVars, RtmpIsClosed, RistIsClosed, Closing
<1>7. (\A c \in Conns : conn[c] = "idle") /\ handshakes = {} /\ webhook = "closed"
      /\ ~ristReads /\ ristStep = "free" /\ (late # "handled" => hook = "free")
  BY <1>6 DEF StageInv
<1>8. CASE AdaptersGoOn
  <2>1. late' = late
    BY <1>8 DEF AdaptersGoOn, serverVars, srtVars
  <2>2. ~HookStep /\ ~RistHandler /\ \A c \in Conns : ~RtmpSession(c)
    BY <1>7, <2>1 DEF HookStep, HookStart, HookAbort, HookTouch, HookStop, RistHandler,
                RistAcquire, RistStart, RistAbort, RistTouch, RistStop, RtmpSession,
                RtmpStart, RtmpFlush, RtmpMessage, RtmpEnd, RtmpRelease, InPhase, Reading
  <2>3. CASE RelayDies \/ RelayRevives
    BY <1>6, <2>1, <2>3 DEF RelayDies, RelayRevives, Relay!Die, Relay!Revive
  <2> QED BY <1>3, <1>6, <1>7, <1>8, <2>1, <2>2, <2>3
          DEF AdaptersGoOn, HeartbeatAsk, HeartbeatTouch, PubLeaves, SecondPasses, relayVars
<1>9. ASSUME NEW c \in Conns, RtmpConnect(c) \/ RtmpRefused(c) \/ RtmpAccepted(c)
      PROVE  SilentInv'
  BY <1>3, <1>6, <1>7, <1>9 DEF RtmpConnect, RtmpRefused, RtmpAccepted, RtmpIsClosed,
                                srtVars, ingestVars, relayVars
<1>10. ASSUME NEW x \in Pubs, WebhookRequest(x) PROVE SilentInv'
  BY <1>7, <1>10 DEF WebhookRequest
<1>11. ASSUME NEW d \in Daemons, DaemonDies(d) PROVE SilentInv'
  BY <1>3, <1>11 DEF DaemonDies, relayVars
<1>12. CASE RistReadersEnd
  BY <1>7, <1>12 DEF RistReadersEnd
<1>13. ASSUME NEW k \in Keys, WatchdogRelease(k), UNCHANGED serverVars PROVE SilentInv'
  BY <1>13 DEF WatchdogRelease, OnSlotRelease, StopSession, Relay!Stop, serverVars, srtVars,
               relayVars
<1> QED BY <1>8, <1>9, <1>10, <1>11, <1>12, <1>13 DEF ServerNext

(* ExitIsSilent of Server: whatever the adapters did meanwhile, main does  *)
(* not return with a session that is played or waits to be restarted.      *)
THEOREM NothingPlaysAtExit == ServerSpec => []ExitIsSilent
<1>1. ServerInit => ServerInv /\ SilentInv
  BY InitServerInv DEF ServerInit, SilentInv, RelayIsStopped
<1>2. ServerInv /\ SilentInv /\ [ServerNext]_allVars => (ServerInv /\ SilentInv)'
  BY StepServerInv, StepSilentInv DEF ServerInv, ManagerInv
<1>3. SilentInv => ExitIsSilent
  BY DEF SilentInv, RelayIsStopped, ExitIsSilent
<1> QED BY <1>1, <1>2, <1>3, PTL DEF ServerSpec

----------------------------------------------------------------------------
(* What holds of the adapters holds of them in the server too: main starts *)
(* and closes them without ending a slot behind the relay's back.          *)

LEMMA ServerInvariant == ServerSpec => []ServerInv
BY InitServerInv, StepServerInv, PTL DEF ServerSpec

LEMMA MainStepsHolder ==
  ASSUME ManagerInv, HolderInv, NoCallback, MainSteps PROVE HolderInv'
<1>1. UNCHANGED <<conn, hook, hookPub, ristStep, owner>>
  BY DEF MainSteps, CloseSrt, RistReadersEnd, FinalStop, StopRelay, DaemonDies,
         SecondPasses, Tick, vars, hookVars, ristVars
<1>2. CASE UNCHANGED relayVars
  BY <1>1, <1>2 DEF HolderInv, StartersHold, RelayServesHolder, Aborting, relayVars
<1>3. CASE FinalStop
  <2>1. want' = NoSession /\ playing' = NoSession
    BY <1>3, StopEffect DEF FinalStop
  <2> QED BY <1>1, <2>1, AdaptersAssumption, SessionsAssumption
          DEF HolderInv, StartersHold, RelayServesHolder
<1> QED BY <1>2, <1>3 DEF MainSteps, CloseSrt, RistReadersEnd, DaemonDies, SecondPasses

LEMMA ServerHolder == ServerSpec /\ []NoStaleClosure => [](ServerInv /\ HolderInv)
<1>1. ServerInit => HolderInv
  BY InitHolderInv DEF ServerInit
<1>2. NoStaleClosure /\ ServerInv /\ HolderInv /\ [ServerNext]_allVars => HolderInv'
  BY ServerStepIs, StepHolderInv, MainStepsHolder DEF ServerInv
<1> QED BY <1>1, <1>2, ServerInvariant, PTL DEF ServerSpec

(* RelayServesHolder from the start of the process to its exit: neither    *)
(* the order in which main closes the adapters nor what a killed daemon    *)
(* leaves behind makes the relay play a source that has no slot.           *)
THEOREM ServerServesHolder ==
  ServerSpec /\ []NoStaleClosure => []RelayServesHolder
<1>1. HolderInv => RelayServesHolder
  BY DEF HolderInv
<1> QED BY <1>1, ServerHolder, PTL

(* The server uses the manager as a lease until it exits. *)
THEOREM ServerIsALease ==
  ServerSpec /\ []NoStaleClosure => ImplementsLease
<1>1. ServerInit => Lease!LeaseInit
  BY DEF ServerInit, IngestInit, Init, Lease!LeaseInit
<1>2. ServerInv /\ NoStaleClosure /\ [ServerNext]_allVars
        => [Lease!LeaseNext]_(Lease!leaseVars)
  BY ServerStepIs, StepIsPrompt, MainStepsArePrompt, StepLease DEF ServerInv, ManagerInv
<1> QED
  BY <1>1, <1>2, ServerInvariant, PTL DEF ServerSpec, ImplementsLease, Lease!LeaseSpec

(* OnlyLateCallsEvict of Ingest from the start to the exit: main takes the *)
(* slot from nobody whose connection it has not ended first, or whose      *)
(* receiver it does not stop, although it closes the adapters one by one.  *)
THEOREM ServerEndsNoOther == ServerSpec => OnlyLateCallsEvict
<1>1. ASSUME ServerInv, [ServerNext]_allVars, slot # NoKey, slot' = NoKey
      PROVE  EndIsDue \/ CloseOfItsPath \/ StaleRelease
  <2>1. ~MainSteps
    BY <1>1 DEF MainSteps, CloseSrt, RistReadersEnd, FinalStop, StopRelay, DaemonDies,
                SecondPasses, Tick, vars
  <2> QED BY <1>1, <2>1, ServerStepIs, EndsOfSlot DEF ServerInv
<1>2. ServerInv /\ [ServerNext]_allVars =>
        [slot # NoKey /\ slot' = NoKey
           => EndIsDue \/ CloseOfItsPath \/ StaleRelease]_ingestVars
  BY <1>1
<1> QED BY <1>2, ServerInvariant, PTL DEF ServerSpec, OnlyLateCallsEvict

LEMMA MainStepsClosures == ASSUME ClosureInv, MainSteps PROVE ClosureInv'
<1>1. CASE SecondPasses(FALSE)
  BY <1>1, RestClosures
<1>2. CASE ~SecondPasses(FALSE)
  <2>1. UNCHANGED <<conn, hook, hookPub, hookSlot, ristStep, ristActive, holding>>
    BY <1>2 DEF MainSteps, CloseSrt, RistReadersEnd, FinalStop, StopRelay, DaemonDies,
                vars, hookVars, ristVars
  <2> QED BY <2>1 DEF ClosureInv, ClosuresAreUnused
<1> QED BY <1>1, <1>2

(* ClosuresAreUnused to the exit: closing the adapters calls no release    *)
(* closure a second time either.                                           *)
THEOREM ServerCallsClosuresOnce == ServerSpec => []ClosuresAreUnused
<1>1. ServerInit => ClosureInv
  BY InitClosureInv DEF ServerInit
<1>2. ServerInv /\ ClosureInv /\ [ServerNext]_allVars => ClosureInv'
  BY ServerStepIs, StepClosureInv, MainStepsClosures DEF ServerInv, ManagerInv
<1>3. ClosureInv => ClosuresAreUnused
  BY DEF ClosureInv
<1> QED BY <1>1, <1>2, <1>3, ServerInvariant, PTL DEF ServerSpec

(* RIST keeps to its slot from the moment its lines are read until the     *)
(* last reader has ended.  After that it may believe it has the slot of    *)
(* another source, but there is nobody left to use it.                     *)
LEMMA StepReadsOwn ==
  ASSUME NoStaleClosure, HeartbeatIsFirst, ServerInv, HolderInv, ristReads => OwnInv,
         [ServerNext]_allVars
  PROVE  ristReads' => OwnInv'
<1> USE DEF ServerInv, ManagerInv
<1> SUFFICES ASSUME ristReads' PROVE OwnInv'
  OBVIOUS
<1>1. CASE ~ristReads
  <2>1. StartRist
    BY <1>1 DEF ServerNext, MainStarts, StartRtmp, StartSrt, AwaitReady, StartSrtla,
                StartStats, Abort, Signal, MainCloses, CloseSrt, CloseRist, RistClosed,
                FinalStop, Exit, RistReadersEnd, AdaptersGoOn, RtmpConnect, RtmpRefused,
                RtmpAccepted, WebhookRequest, DaemonDies, allVars, serverVars
  <2>2. ristStep' = "free" /\ ~ristActive'
    BY <2>1 DEF StartRist, Goes, StageInv, BeforeRist, ingestVars, ristVars
  <2> QED BY <2>2 DEF OwnInv
<1>2. CASE ristReads /\ [IngestNext]_ingestVars
  BY <1>2, StepOwnInv
<1>3. CASE ristReads /\ MainSteps
  <2>1. ~RistReadersEnd
    BY DEF RistReadersEnd
  <2>2. UNCHANGED <<ristStep, ristActive, ristAge, beatDue, owner, silence>>
    BY <1>3, <2>1 DEF MainSteps, CloseSrt, FinalStop, StopRelay, DaemonDies, vars, ristVars
  <2> QED BY <1>3, <2>2 DEF OwnInv
<1> QED BY <1>1, <1>2, <1>3, ServerStepIs

(* RistSlotIsItsOwn of Ingest, for as long as RIST is read. *)
THEOREM ServerRistKeepsToItsSlot ==
  ASSUME HeartbeatIsFirst
  PROVE  ServerSpec /\ []NoStaleClosure => [](ristReads => RistSlotIsItsOwn)
<1>1. ServerInit => (ristReads => OwnInv)
  BY DEF ServerInit
<1>2. NoStaleClosure /\ ServerInv /\ HolderInv /\ (ristReads => OwnInv)
      /\ [ServerNext]_allVars => (ristReads => OwnInv)'
  BY StepReadsOwn
<1>3. (ristReads => OwnInv) => (ristReads => RistSlotIsItsOwn)
  BY DEF OwnInv, RistSlotIsItsOwn
<1> QED BY <1>1, <1>2, <1>3, ServerHolder, PTL DEF ServerSpec
=============================================================================
