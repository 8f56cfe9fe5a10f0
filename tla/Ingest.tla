------------------------------- MODULE Ingest -------------------------------
(***************************************************************************)
(* The ingest adapters around the one Manager and the one Relay: RTMP      *)
(* connections (rtmp/server.go), the webhook through which irl-srt-server  *)
(* reports its publishers (srt/webhook.go) and the supervisor of           *)
(* ristreceiver (rist/server.go).                                          *)
(*                                                                         *)
(* A handler makes several calls to the manager and to the relay, each     *)
(* atomic by itself, and nothing but the adapter's own mutex is held in    *)
(* between: every call is a step of its own, so that the handlers of the   *)
(* adapters interleave.  onSlotRelease runs under m.mu and is part of the  *)
(* step that ends the slot.                                                *)
(*                                                                         *)
(* The manager is Arbitration, with callbacks that run at once; the relay  *)
(* is the abstract RelaySession, which module Relay implements.  A session *)
(* is what the relay plays when its adapter starts it.  A handler is taken *)
(* to need less than a second: time passes only when none is at work.      *)
(***************************************************************************)
EXTENDS Arbitration

CONSTANTS
    Conns,      \* RTMP connections
    Pubs,       \* SRT and SRTLA publishers
    rist,       \* the RIST adapter
    PathOf,     \* the stream path of each publisher
    AnySession, \* what the relay may play after a start that failed
    FreshAge,   \* activityFreshness in seconds
    StaleAge    \* staleDisconnectThreshold in seconds

ASSUME AdaptersAssumption ==
    /\ Sessions = Conns \cup Pubs \cup {rist}
    /\ Conns \cap Pubs = {} /\ rist \notin Conns \cup Pubs
    /\ AnySession \notin Sessions \cup {NoSession}
ASSUME AgesAssumption == FreshAge \in Nat /\ StaleAge \in Nat

VARIABLES
    want,       \* the session the relay was asked to play
    playing,    \* the session it plays
    fed,        \* the connection whose pipe the ffmpeg that runs reads
    conn,       \* the phase of each RTMP connection
    hook,       \* what the webhook handler that holds h.mu does next
    hookPub,    \* the publisher it does it for
    hookSlot,   \* h.activeSlot and h.activePath: whose closure is stored
    online,     \* external: publishers irl-srt-server has accepted
    closes,     \* external: on_close events under way
    ristStep,   \* what the RIST handler that holds s.mu does next
    ristActive, \* s.active (and s.activeSlot != nil)
    ristAge,    \* seconds since s.lastActivity, capped
    beatDue,    \* the heartbeat ticker has ticked
    beat        \* what heartbeatTick does next, s.mu released

relayVars == <<want, playing, fed>>
hookVars == <<hook, hookPub, hookSlot, online, closes>>
ristVars == <<ristStep, ristActive, ristAge, beatDue, beat>>
ingestVars == <<vars, relayVars, conn, hookVars, ristVars>>

Relay == INSTANCE RelaySession
            WITH Inputs <- Sessions, NoInput <- NoSession, AnyInput <- AnySession

IngestInit ==
    /\ Init /\ Relay!RelayInit /\ fed = NoSession
    /\ conn = [c \in Conns |-> "idle"]
    /\ hook = "free" /\ hookPub = NoSession /\ hookSlot = NoSession
    /\ online = {} /\ closes = {}
    /\ ristStep = "free" /\ ristActive = FALSE /\ ristAge = 0
    /\ beatDue = FALSE /\ beat = "idle"

----------------------------------------------------------------------------
(* Calls the adapters make *)

(* Seeded fault: the manager has no onSlotRelease callback. *)
NoCallbackOnRelease == UNCHANGED relayVars

(* Seeded fault: a stop that does not forget the pipe. *)
StopSessionKeepsPipe == Relay!Stop /\ UNCHANGED fed

(* relay.StopSession. *)
StopSession == Relay!Stop /\ fed' = NoSession

(* main.go: the onSlotRelease callback stops the relay, if a slot ended. *)
OnSlotRelease ==
    IF slot # NoKey /\ slot' = NoKey
    THEN StopSession
    ELSE UNCHANGED relayVars

Acquire(s) == TryAcquire(s) /\ UNCHANGED relayVars

ReleaseAndStop(s) == Release(s) /\ OnSlotRelease

(* relay.StartSession, which gives an RTMP connection the pipe to write to. *)
StartOk(s) ==
    /\ Relay!Start(s) /\ fed' = IF s \in Conns THEN s ELSE NoSession
    /\ UNCHANGED vars
StartFails == Relay!StartFails /\ fed' = NoSession /\ UNCHANGED vars

(* relay.StopSession called by an adapter. *)
StopRelay == StopSession /\ UNCHANGED vars

(* Touch, and the metrics that come with it.  Whose slot it is nobody asks.*)
Report ==
    /\ IF slot # NoKey THEN Touch ELSE UNCHANGED vars
    /\ UNCHANGED relayVars

----------------------------------------------------------------------------
(* RTMP: one goroutine per connection, no lock. *)

InPhase(c, phase) == conn[c] = phase
Becomes(c, phase) ==
    conn' = [conn EXCEPT ![c] = phase] /\ UNCHANGED <<hookVars, ristVars>>

(* handleConn up to TryAcquire; a connection that is refused is closed. *)
RtmpAcquire(c) == InPhase(c, "idle") /\ Acquire(c) /\ Becomes(c, "acquired")

RtmpStart(c) ==
    /\ InPhase(c, "acquired")
    /\ \/ StartOk(c) /\ Becomes(c, "gated")
       \/ StartFails /\ Becomes(c, "closing")

(* In streamToRelay, until the first keyframe and after it. *)
Reading(c) == conn[c] \in {"gated", "streaming"}

(* A message is read, and a second has passed since the manager was last   *)
(* called.                                                                 *)
RtmpFlush(c) == Reading(c) /\ Report /\ Becomes(c, conn[c])

(* What is read: codec configurations and sequence starts, metadata, video *)
(* frames, coded frames of enhanced RTMP (of which nobody asks whether     *)
(* they are keyframes), audio, and messages that are not media.            *)
Messages == {"config", "metadata", "key", "inter", "exFrames", "audio", "other"}

OpensGate(m) == m \in {"key", "exFrames"}
IsWritten(m, open) ==
    m \in IF open THEN Messages \ {"other"}
          ELSE {"config", "metadata", "key", "exFrames"}

(* Seeded fault: a failed write is logged, and the next message is read. *)
RtmpMessageLogs(c, m) ==
    /\ Reading(c)
    /\ Becomes(c, IF OpensGate(m) THEN "streaming" ELSE conn[c])
    /\ UNCHANGED <<vars, relayVars>>

(* Video frames can always be encoded; of the rest what cannot be encoded  *)
(* is skipped, but coded frames have opened the gate by then.              *)
Encodes(m) == IF m \in {"key", "inter"} THEN {TRUE} ELSE BOOLEAN

(* The message is written into the connection's pipe, unless it is not to  *)
(* be; the write fails when its ffmpeg has gone, even if another one runs. *)
RtmpMessage(c, m) ==
    /\ Reading(c)
    /\ \E encoded \in Encodes(m) :
          Becomes(c, IF encoded /\ IsWritten(m, conn[c] = "streaming") /\ fed # c
                     THEN "closing"
                     ELSE IF OpensGate(m) THEN "streaming" ELSE conn[c])
    /\ UNCHANGED <<vars, relayVars>>

(* End of stream, 60 idle seconds, a shutdown: streamToRelay returns.  (It *)
(* adds the bytes still pending to the counters of whatever slot it is.)   *)
RtmpEnd(c) ==
    /\ Reading(c)
    /\ Becomes(c, "closing")
    /\ UNCHANGED <<vars, relayVars>>

(* Seeded fault: an explicit stop, whoever has the slot by now. *)
RtmpReleaseStops(c) ==
    InPhase(c, "closing") /\ Release(c) /\ StopSession /\ Becomes(c, "idle")

(* The deferred release, which is the teardown: there is no explicit stop. *)
RtmpRelease(c) ==
    InPhase(c, "closing") /\ ReleaseAndStop(c) /\ Becomes(c, "idle")

----------------------------------------------------------------------------
(* SRT and SRTLA: handlers run one at a time, under h.mu. *)

Hook(step, pub) == hook' = step /\ hookPub' = pub /\ UNCHANGED <<conn, ristVars>>
HookDone == Hook("free", NoSession)

(* on_connect of a publisher on an authorised path, the slot being free.   *)
(* With the slot taken the answer is 409 and the publisher is dropped.     *)
HookConnect(x) ==
    /\ hook = "free" /\ x \notin online
    /\ Acquire(x)
    /\ hookSlot' = x /\ online' = online \cup {x}
    /\ Hook("start", x)
    /\ UNCHANGED closes

HookStart(x) ==
    /\ hook = "start" /\ hookPub = x
    /\ \/ StartOk(x) /\ HookDone
       \/ StartFails /\ Hook("abort", x)
    /\ UNCHANGED <<hookSlot, online, closes>>

(* Seeded fault: the closure that was called stays in h.activeSlot. *)
HookAbortKeepsClosure(x) ==
    /\ hook = "abort" /\ hookPub = x
    /\ ReleaseAndStop(x)
    /\ online' = online \ {x}
    /\ HookDone
    /\ UNCHANGED <<hookSlot, closes>>

(* The relay did not start: release(), answer 500. *)
HookAbort(x) ==
    /\ hook = "abort" /\ hookPub = x
    /\ ReleaseAndStop(x)
    /\ hookSlot' = NoSession /\ online' = online \ {x}
    /\ HookDone
    /\ UNCHANGED closes

(* Seeded fault: the path of the event is not looked at. *)
HookCloseAnyPath(x) ==
    /\ hook = "free" /\ x \in closes /\ closes' = closes \ {x}
    /\ hookSlot # NoSession /\ ReleaseAndStop(hookSlot)
    /\ hookSlot' = NoSession /\ Hook("stop", x)
    /\ UNCHANGED online

(* on_close: releases the stored closure if the path is the stored one.    *)
HookClose(x) ==
    /\ hook = "free" /\ x \in closes
    /\ closes' = closes \ {x}
    /\ IF hookSlot # NoSession /\ PathOf[hookSlot] = PathOf[x]
       THEN /\ ReleaseAndStop(hookSlot)
            /\ hookSlot' = NoSession /\ Hook("stop", x)
       ELSE /\ UNCHANGED <<vars, relayVars>>
            /\ UNCHANGED hookSlot /\ HookDone
    /\ UNCHANGED online

(* ... and then stops the relay once more. *)
HookStop ==
    /\ hook = "stop" /\ StopRelay /\ HookDone
    /\ UNCHANGED <<hookSlot, online, closes>>

(* Seeded fault: any statistics push counts as a sign of life. *)
StatsPushOfAnyone(x) ==
    /\ hook = "free"
    /\ \E p \in Pubs : KeyOf[p] = slot /\ PathOf[p] = PathOf[x]
    /\ Hook("push", x)
    /\ UNCHANGED <<vars, relayVars, hookSlot, online, closes>>

(* A statistics push that lists publisher x, while the slot is one of an   *)
(* SRT protocol and has the path of x.                                     *)
StatsPush(x) ==
    /\ hook = "free" /\ x \in online
    /\ \E p \in Pubs : KeyOf[p] = slot /\ PathOf[p] = PathOf[x]
    /\ Hook("push", x)
    /\ UNCHANGED <<vars, relayVars, hookSlot, online, closes>>

(* ... and then touches whatever slot is active. *)
HookTouch(x) ==
    /\ hook = "push" /\ hookPub = x
    /\ Report /\ HookDone
    /\ UNCHANGED <<hookSlot, online, closes>>

(* External: a publisher leaves, and the event that tells may get lost. *)
PubLeaves(x) ==
    /\ x \in online
    /\ online' = online \ {x} /\ closes' \in {closes, closes \cup {x}}
    /\ UNCHANGED <<vars, relayVars, conn, ristVars>>
    /\ UNCHANGED <<hook, hookPub, hookSlot>>

----------------------------------------------------------------------------
(* RIST: log lines and heartbeats are handled under s.mu. *)

Rist(step) == ristStep' = step /\ UNCHANGED <<conn, hookVars>>

(* handleActivity: a line of an authorised stream.  The adapter believes   *)
(* it has the slot as long as anyone has.                                  *)
RistLine ==
    LET stillActive == ristActive /\ slot # NoKey IN
    /\ ristStep = "free"
    /\ ristAge' = 0 /\ ristActive' = stillActive
    /\ Rist(IF stillActive THEN "touch" ELSE "acquire")
    /\ UNCHANGED <<vars, relayVars, beatDue, beat>>

RistAcquire ==
    /\ ristStep = "acquire"
    /\ \/ Acquire(rist) /\ Rist("start")
       \/ slot # NoKey /\ Rist("free") /\ UNCHANGED <<vars, relayVars>>
    /\ UNCHANGED <<ristActive, ristAge, beatDue, beat>>

RistStart ==
    /\ ristStep = "start"
    /\ \/ StartOk(rist) /\ ristActive' = TRUE /\ Rist("touch")
       \/ StartFails /\ UNCHANGED ristActive /\ Rist("abort")
    /\ UNCHANGED <<ristAge, beatDue, beat>>

RistAbort ==
    /\ ristStep = "abort" /\ ReleaseAndStop(rist) /\ Rist("free")
    /\ UNCHANGED <<ristActive, ristAge, beatDue, beat>>

RistTouch ==
    /\ ristStep = "touch" /\ Report /\ Rist("free")
    /\ UNCHANGED <<ristActive, ristAge, beatDue, beat>>

(* stopActiveStreamLocked, its release; RistStop is what follows. *)
StopActiveStream == ristActive /\ ReleaseAndStop(rist) /\ Rist("stop")

(* A disconnect line, a line of an unauthorised stream (which counts as    *)
(* activity), the exit of ristreceiver.                                    *)
RistEnd ==
    /\ ristStep = "free" /\ StopActiveStream
    /\ ristAge' \in {ristAge, 0}
    /\ UNCHANGED <<ristActive, beatDue, beat>>

RistStop ==
    /\ ristStep = "stop" /\ StopRelay /\ Rist("free")
    /\ ristActive' = FALSE
    /\ UNCHANGED <<ristAge, beatDue, beat>>

(* Seeded fault: a stale stream is left to the watchdog. *)
HeartbeatFreshOnly ==
    /\ ristStep = "free" /\ beatDue
    /\ beatDue' = FALSE
    /\ beat' = IF ristActive /\ ristAge <= FreshAge THEN "ask" ELSE beat
    /\ Rist("free") /\ UNCHANGED <<vars, relayVars>>
    /\ UNCHANGED <<ristActive, ristAge>>

(* heartbeatTick *)
Heartbeat ==
    /\ ristStep = "free" /\ beatDue
    /\ beatDue' = FALSE
    /\ IF ristActive /\ ristAge > StaleAge
       THEN StopActiveStream /\ UNCHANGED beat
       ELSE /\ beat' = IF ristActive /\ ristAge <= FreshAge THEN "ask" ELSE beat
            /\ Rist("free") /\ UNCHANGED <<vars, relayVars>>
    /\ UNCHANGED <<ristActive, ristAge>>

(* ... which goes on without s.mu: is the relay running?  Then touch. *)
HeartbeatAsk ==
    /\ beat = "ask"
    /\ beat' = IF playing # NoSession THEN "touch" ELSE "idle"
    /\ UNCHANGED <<vars, relayVars, conn, hookVars>>
    /\ UNCHANGED <<ristStep, ristActive, ristAge, beatDue>>

HeartbeatTouch ==
    /\ beat = "touch" /\ beat' = "idle"
    /\ IF slot # NoKey THEN Touch ELSE UNCHANGED vars
    /\ UNCHANGED <<relayVars, conn, hookVars>>
    /\ UNCHANGED <<ristStep, ristActive, ristAge, beatDue>>

----------------------------------------------------------------------------
(* Time, and what happens without an adapter *)

WatchdogRelease(k) ==
    HandleTimeout(k) /\ OnSlotRelease /\ UNCHANGED <<conn, hookVars, ristVars>>

RelayDies ==
    /\ Relay!Die /\ playing # NoSession /\ fed' = NoSession
    /\ UNCHANGED <<vars, conn, hookVars, ristVars>>

RelayRevives ==
    /\ Relay!Revive /\ want # NoSession /\ UNCHANGED fed
    /\ UNCHANGED <<vars, conn, hookVars, ristVars>>

HandlersIdle ==
    /\ hook = "free" /\ ristStep = "free" /\ ~beatDue /\ beat = "idle"
    /\ \A c \in Conns : conn[c] = "idle" \/ Reading(c)

(* A second passes, with a tick of the heartbeat if there is one. *)
SecondPasses(beats) ==
    /\ HandlersIdle
    /\ Tick \/ (slot = NoKey /\ UNCHANGED vars)
    /\ ristAge' = IF ristAge <= StaleAge THEN ristAge + 1 ELSE ristAge
    /\ beatDue' = beats
    /\ UNCHANGED <<relayVars, conn, hookVars>>
    /\ UNCHANGED <<ristStep, ristActive, beat>>

Second == SecondPasses(TRUE)

----------------------------------------------------------------------------
(* What follows when a connection has the slot. *)
RtmpSession(c) == RtmpStart(c) \/ RtmpFlush(c)
                  \/ (\E m \in Messages : RtmpMessage(c, m))
                  \/ RtmpEnd(c) \/ RtmpRelease(c)
RtmpStep(c) == RtmpAcquire(c) \/ RtmpSession(c)

(* What a webhook handler goes on to do, and what makes one start. *)
HookStep == HookStop \/ \E x \in Pubs : HookStart(x) \/ HookAbort(x) \/ HookTouch(x)
HookEvent(x) == HookConnect(x) \/ HookClose(x) \/ StatsPush(x) \/ PubLeaves(x)

(* What a RIST handler goes on to do under s.mu. *)
RistHandler == RistAcquire \/ RistStart \/ RistAbort \/ RistTouch \/ RistStop

AdapterNext ==
    \/ \E c \in Conns : RtmpStep(c)
    \/ HookStep \/ \E x \in Pubs : HookEvent(x)
    \/ RistHandler \/ RistLine \/ RistEnd
    \/ Heartbeat \/ HeartbeatAsk \/ HeartbeatTouch
    \/ RelayDies \/ RelayRevives
    \/ Second

IngestNext ==
    \/ NoCallback /\ AdapterNext
    \/ \E k \in Keys : WatchdogRelease(k)

(* Handlers that have begun go on, ended connections release, callbacks    *)
(* run.  The heartbeat competes for s.mu with log lines, and seconds pass  *)
(* between events however many there are: strong fairness for both.  A     *)
(* source that has sent its keyframe sends more frames, or is closed when  *)
(* it has sent nothing for 60 s.  Other events need not happen.            *)
IngestFairness ==
    /\ WF_ingestVars(HookStep) /\ WF_ingestVars(RistHandler)
    /\ WF_ingestVars(HeartbeatAsk \/ HeartbeatTouch) /\ SF_ingestVars(Heartbeat)
    /\ \A c \in Conns :
          /\ WF_ingestVars(RtmpStart(c) \/ RtmpRelease(c))
          /\ WF_ingestVars(InPhase(c, "streaming") /\ RtmpMessage(c, "inter"))
    /\ \A k \in Keys : WF_ingestVars(WatchdogRelease(k))
    /\ SF_ingestVars(Second)

IngestSpec == IngestInit /\ [][IngestNext]_ingestVars /\ IngestFairness

----------------------------------------------------------------------------
(* Properties *)

(* The types of the adapters' variables. *)
IngestTypeOK ==
    /\ want \in Sessions \cup {NoSession, AnySession}
    /\ playing \in Sessions \cup {NoSession}
    /\ (fed # NoSession => fed = playing /\ fed = want)
    /\ conn \in [Conns -> {"idle", "acquired", "gated", "streaming", "closing"}]
    /\ hook \in {"free", "start", "abort", "stop", "push"}
    /\ hookPub \in Pubs \cup {NoSession} /\ (hookPub = NoSession <=> hook = "free")
    /\ hookSlot \in Pubs \cup {NoSession}
    /\ online \in SUBSET Pubs /\ closes \in SUBSET Pubs
    /\ ristStep \in {"free", "acquire", "start", "abort", "touch", "stop"}
    /\ ristActive \in BOOLEAN /\ ristAge \in 0..(StaleAge + 1)
    /\ beatDue \in BOOLEAN /\ beat \in {"idle", "ask", "touch"}

(* A handler whose start failed, and that is about to release the slot. *)
Aborting(s) ==
    \/ s \in Conns /\ conn[s] = "closing"
    \/ hook = "abort" /\ hookPub = s
    \/ s = rist /\ ristStep = "abort"

(* The relay never plays, and will never revive, a source that does not    *)
(* have the slot: manager.go:187, the teardown of a slot is complete       *)
(* before the next source can acquire it, and a source that starts the     *)
(* relay still has the slot it acquired.  After a start that failed any    *)
(* source may come back, but only until its handler releases the slot.     *)
RelayServesHolder ==
    /\ want \in Sessions => want = owner
    /\ playing # NoSession => playing = want \/ want = AnySession
    /\ want = AnySession => owner # NoSession /\ Aborting(owner)

(* The RIST adapter does not take another source's slot for its own: the   *)
(* heartbeat finds a silent stream stale before the watchdog does.  (It    *)
(* checks only that there is an active slot, not whose.)                   *)
RistSlotIsItsOwn == ristActive /\ ristStep = "free" => owner = rist

(* A release closure that an adapter stores, or that a handler at work is  *)
(* going to call, has not been called: nobody relies on the sync.Once that *)
(* makes a second call harmless (manager.go:83).  The handler of RIST that *)
(* finds its slot gone drops the closure before it acquires another.       *)
ClosuresAreUnused ==
    /\ \A c \in Conns : conn[c] # "idle" => c \in holding
    /\ hookSlot # NoSession => hookSlot \in holding
    /\ hook \in {"start", "abort"} => hookSlot = hookPub
    /\ ristActive /\ ristStep # "stop" => rist \in holding
    /\ ristStep \in {"start", "abort"} => rist \in holding

(* An RTMP connection that lost its slot before it sent a keyframe: what   *)
(* it sends is not written, so that it is not told, and touches the slot   *)
(* of another.                                                             *)
Ghost(c) == InPhase(c, "gated") /\ owner # c

(* README.md:10: a publisher that is gone does not keep the slot, even if  *)
(* its on_close never arrives, as long as no ghost is about.  A connection *)
(* past its keyframe that lost the slot finds out, since it writes.        *)
GonePublisherLosesSlot ==
    \A x \in Pubs : (owner = x /\ x \notin online)
        ~> (owner # x \/ x \in online \/ \E c \in Conns : Ghost(c))

(* When the ffmpeg of an RTMP session dies, the one restarted for it reads *)
(* a pipe into which nobody writes (ffmpeg.go:197 drops its other end).    *)
(* The connection ends and takes the session with it, unless it waits for  *)
(* its keyframe.                                                           *)
UnfedSessionEnds ==
    \A c \in Conns :
        (want = c /\ fed # c) ~> (want # c \/ InPhase(c, "gated"))

(* README.md:3: what is relayed is the active feed, that is the feed of    *)
(* the session that has the slot.                                          *)
RelayedFeedIsActive == playing # NoSession /\ want # AnySession => playing = owner

(* A source that is gone: its connection has ended, irl-srt-server has     *)
(* lost the publisher, ristreceiver logged nothing for longer than         *)
(* staleDisconnectThreshold or tells of an end.                            *)
Gone(s) ==
    \/ s \in Conns /\ InPhase(s, "closing")
    \/ s \in Pubs /\ s \notin online
    \/ s = rist /\ (ristAge > StaleAge \/ RistEnd)

(* Why a slot may end: silence for the whole timeout, a source that is     *)
(* gone, or one that could not be relayed.                                 *)
EndIsDue ==
    \/ SourceTimeout > 0 /\ silence = SourceTimeout
    \/ Gone(owner) \/ Aborting(owner)

(* README.md:10: the session has the slot locked until its stream          *)
(* disconnects or goes silent (or could not be relayed to begin with).     *)
LiveSourceKeepsSlot ==
    [][slot # NoKey /\ slot' = NoKey => EndIsDue]_ingestVars

(* An on_close with the path of the holder is handled, be it about an      *)
(* earlier session of that publisher or about one of the other protocol.   *)
CloseOfItsPath ==
    owner \in Pubs /\ \E x \in closes \ closes' : PathOf[x] = PathOf[owner]

(* The closure of another session with the holder's protocol and path.     *)
StaleRelease == \E s \in holding \ holding' : s # owner /\ KeyOf[s] = slot

(* Two calls that come late end the slot of a source which is neither gone *)
(* nor silent, and nothing else does, whatever keys the sources present:   *)
(* an on_close matched by its path (webhook.go:173) and a stale closure    *)
(* matched by protocol and path (manager.go:176).                          *)
OnlyLateCallsEvict ==
    [][slot # NoKey /\ slot' = NoKey
          => EndIsDue \/ CloseOfItsPath \/ StaleRelease]_ingestVars

(* README.md:3: sessions are managed first come, first served, and the     *)
(* active feed is relayed: once the holder's adapter has started the       *)
(* relay, nobody stops it as long as the holder keeps the slot.            *)
ActiveFeedIsRelayed ==
    [][want # NoSession /\ want = owner /\ owner' = owner => want' = want]_ingestVars

(* The second StopSession of handleClose and of stopActiveStreamLocked is  *)
(* the only one that silences a source which keeps the slot: connections   *)
(* that end late, starts that fail, the watchdog and the heartbeat do not. *)
OnlyLateStopsSilence ==
    [][want # NoSession /\ want = owner /\ owner' = owner
          => want' = want \/ HookStop \/ RistStop]_ingestVars
=============================================================================
