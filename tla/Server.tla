------------------------------- MODULE Server -------------------------------
(***************************************************************************)
(* The whole server from start to exit: main (cmd/server/main.go) starts   *)
(* the RTMP listener, the supervisor of irl-srt-server and srtla_rec       *)
(* (srt/server.go), that of ristreceiver and the statistics server, waits  *)
(* for a signal, closes them one after the other and stops the relay.      *)
(*                                                                         *)
(* The adapters are those of module Ingest.  What they can begin depends   *)
(* on how far main is; what they have begun goes on meanwhile.  The        *)
(* supervision of ristreceiver, with its restarts, is module RistReceiver; *)
(* here its lines come from the start until all its readers have ended.    *)
(* SIGKILL takes effect at once.                                           *)
(***************************************************************************)
EXTENDS Ingest

srtServer == "srt_server"
srtlaRec == "srtla_rec"
Daemons == {srtServer, srtlaRec}

Starting == {"rtmp", "srt", "ready", "srtla", "rist", "stats"}
Closing == {"closeRtmp", "closeSrt", "closeRist", "stop", "leaving"}

VARIABLES
    main,       \* what main does next: a stage, or "exited" or "fatal"
    handshakes, \* RTMP connections accepted that have no slot yet
    up,         \* daemons that run
    started,    \* daemons that were started
    problems,   \* the daemons the health tracker lists
    webhook,    \* the internal HTTP server: "none", "open" or "closed"
    late,       \* a request that outlives it: "none", "waiting", "handled"
    ristReads   \* heartbeat and output readers of RIST run

srtVars == <<up, started, problems, webhook, late>>
serverVars == <<main, handshakes, srtVars, ristReads>>
allVars == <<ingestVars, serverVars>>

ServerInit ==
    /\ IngestInit
    /\ main = "rtmp" /\ handshakes = {}
    /\ up = {} /\ started = {} /\ problems = {}
    /\ webhook = "none" /\ late = "none" /\ ristReads = FALSE

Running == main \notin {"exited", "fatal"}

----------------------------------------------------------------------------
(* The health tracker *)

SetUnhealthy(d) == problems' = problems \cup {d}
ClearUnhealthy(d) == problems' = problems \ {d}

----------------------------------------------------------------------------
(* main starts the adapters *)

Goes(stage) == main' = stage /\ UNCHANGED <<ingestVars, handshakes>>

(* log.Fatalf when one of them cannot be started, or a signal before main  *)
(* listens for it: the process ends as it is, and its children go on.      *)
Abort ==
    /\ main \in Starting
    /\ Goes("fatal")
    /\ UNCHANGED <<srtVars, ristReads>>

StartRtmp ==
    /\ main = "rtmp" /\ Goes("srt")
    /\ UNCHANGED <<srtVars, ristReads>>

(* Seeded fault: the command that was started is not remembered. *)
LaunchForgotten(d) == up' = up \cup {d} /\ UNCHANGED started

(* exec.Cmd.Start of a daemon that is installed: it fails, or it works. *)
LaunchFails(d) == SetUnhealthy(d) /\ UNCHANGED <<up, started>>
Launch(d) == up' = up \cup {d} /\ started' = started \cup {d}

(* srt.Server.Start: the webhook server, then srt_server, if it is found. *)
StartSrt ==
    /\ main = "srt"
    /\ webhook' = "open"
    /\ \/ UNCHANGED <<up, started, problems>> /\ Goes("srtla")
       \/ LaunchFails(srtServer) /\ Goes("srtla")
       \/ Launch(srtServer) /\ UNCHANGED problems /\ Goes("ready")
    /\ UNCHANGED <<late, ristReads>>

(* waitForServerReady: it answers, or 5 s pass. *)
AwaitReady ==
    /\ main = "ready"
    /\ \/ srtServer \in up /\ ClearUnhealthy(srtServer)
       \/ SetUnhealthy(srtServer)
    /\ Goes("srtla")
    /\ UNCHANGED <<up, started, webhook, late, ristReads>>

(* srtla_rec, if it is found and has a port. *)
StartSrtla ==
    /\ main = "srtla" /\ Goes("rist")
    /\ \/ UNCHANGED <<up, started, problems>>
       \/ LaunchFails(srtlaRec)
       \/ Launch(srtlaRec) /\ ClearUnhealthy(srtlaRec)
    /\ UNCHANGED <<webhook, late, ristReads>>

(* rist.Server.Start: without ristreceiver there is nothing to read. *)
StartRist ==
    /\ main = "rist" /\ Goes("stats")
    /\ ristReads' \in BOOLEAN
    /\ UNCHANGED srtVars

StartStats ==
    /\ main = "stats" /\ Goes("serving")
    /\ UNCHANGED <<srtVars, ristReads>>

----------------------------------------------------------------------------
(* ... and closes them *)

(* SIGINT or SIGTERM; rtmp.Server.Close cancels and closes the listener ... *)
Signal ==
    /\ main = "serving" /\ Goes("closeRtmp")
    /\ UNCHANGED <<srtVars, ristReads>>

(* Seeded faults: connections are waited for only once they have the slot; *)
(* whoever has the slot is waited for.                                     *)
RtmpSessionsEnded == \A c \in Conns : conn[c] = "idle"
SlotIsFree == slot = NoKey /\ handshakes = {} /\ \A c \in Conns : conn[c] = "idle"

(* ... and waits until acceptLoop and all its connections have ended. *)
RtmpEnded == handshakes = {} /\ \A c \in Conns : conn[c] = "idle"

(* srt.Server.Close: the context kills the daemons, the webhook server     *)
(* takes no more requests and does not wait for those it has.  (Then it    *)
(* waits 500 ms for srt_server, removes a directory, and waits for Serve.) *)
CloseSrt ==
    /\ main = "closeRtmp" /\ RtmpEnded
    /\ main' = "closeSrt"
    /\ up' = {} /\ online' = {} /\ webhook' = "closed"
    /\ late' \in IF hook # "free" THEN {"handled"}
                 ELSE IF srtServer \in started THEN {"none", "waiting"}
                 ELSE {"none"}
    /\ UNCHANGED <<handshakes, started, problems, ristReads>>
    /\ UNCHANGED <<vars, relayVars, conn, hook, hookPub, hookSlot, closes, ristVars>>

(* rist.Server.Close, when it has s.mu: the receiver is killed and the     *)
(* stream stopped ...                                                      *)
CloseRist ==
    /\ main = "closeSrt" /\ ristStep = "free"
    /\ main' = "closeRist"
    /\ IF ristActive
       THEN StopActiveStream
            /\ UNCHANGED <<ristActive, ristAge, beatDue, beat>>
       ELSE UNCHANGED ingestVars
    /\ UNCHANGED <<handshakes, srtVars, ristReads>>

(* ... and the readers, which may have lines left, the heartbeat and the   *)
(* reapers are waited for.                                                 *)
RistReadersEnd ==
    /\ main = "closeRist" /\ ristReads /\ ristStep = "free" /\ beat = "idle"
    /\ ristReads' = FALSE /\ beatDue' = FALSE
    /\ UNCHANGED <<main, handshakes, srtVars>>
    /\ UNCHANGED <<vars, relayVars, conn, hookVars>>
    /\ UNCHANGED <<ristStep, ristActive, ristAge, beat>>

(* stats.Server.Shutdown, which follows, waits for requests that only read.*)
RistClosed ==
    /\ main = "closeRist" /\ ~ristReads /\ ristStep = "free"
    /\ Goes("stop")
    /\ UNCHANGED <<srtVars, ristReads>>

(* Seeded fault: every adapter has ended its session, there is none left. *)
FinalStopForgotten ==
    /\ main = "stop" /\ main' = "leaving"
    /\ UNCHANGED <<ingestVars, handshakes, srtVars, ristReads>>

(* streamRelay.StopSession() *)
FinalStop ==
    /\ main = "stop" /\ main' = "leaving"
    /\ StopRelay
    /\ UNCHANGED <<conn, hookVars, ristVars>>
    /\ UNCHANGED <<handshakes, srtVars, ristReads>>

Exit ==
    /\ main = "leaving" /\ Goes("exited")
    /\ UNCHANGED <<srtVars, ristReads>>

----------------------------------------------------------------------------
(* The adapters meanwhile *)

(* acceptLoop takes connections until Close. *)
RtmpConnect(c) ==
    /\ main \notin {"rtmp"} \cup Closing
    /\ conn[c] = "idle" /\ c \notin handshakes
    /\ handshakes' = handshakes \cup {c}
    /\ UNCHANGED <<ingestVars, main, srtVars, ristReads>>

(* handleConn: the handshake fails, the path is not allowed, or the slot   *)
(* is taken.  There is no deadline for the handshake.                      *)
RtmpRefused(c) ==
    /\ c \in handshakes
    /\ handshakes' = handshakes \ {c}
    /\ UNCHANGED <<ingestVars, main, srtVars, ristReads>>

RtmpAccepted(c) ==
    /\ c \in handshakes /\ RtmpAcquire(c)
    /\ handshakes' = handshakes \ {c}
    /\ UNCHANGED <<main, srtVars, ristReads>>

(* A request reaches the webhook handler: from srt_server, or late.        *)
Request(x) == HookConnect(x) \/ HookClose(x) \/ StatsPush(x)
WebhookRequest(x) ==
    /\ Request(x)
    /\ \/ webhook = "open" /\ srtServer \in started /\ UNCHANGED late
       \/ late = "waiting" /\ late' = "handled"
    /\ UNCHANGED <<main, handshakes, up, started, problems, webhook, ristReads>>

(* External: a daemon crashes.  Nobody waits for it. *)
DaemonDies(d) ==
    /\ d \in up
    /\ up' = up \ {d}
    /\ online' = IF d = srtServer THEN {} ELSE online
    /\ UNCHANGED <<vars, relayVars, conn, hook, hookPub, hookSlot, closes, ristVars>>
    /\ UNCHANGED <<main, handshakes, started, problems, webhook, late, ristReads>>

(* What does not ask how far main is. *)
AdaptersGoOn ==
    /\ \/ \E c \in Conns : RtmpSession(c)
       \/ HookStep \/ RistHandler \/ HeartbeatAsk \/ HeartbeatTouch
       \/ ristReads /\ (RistLine \/ RistEnd \/ Heartbeat)
       \/ RelayDies \/ RelayRevives
       \/ \E x \in Pubs : srtServer \in up /\ PubLeaves(x)
       \/ SecondPasses(ristReads)
    /\ UNCHANGED serverVars

----------------------------------------------------------------------------
MainStarts == StartRtmp \/ StartSrt \/ AwaitReady \/ StartSrtla \/ StartRist
              \/ StartStats
MainCloses == CloseSrt \/ CloseRist \/ RistClosed \/ FinalStop \/ Exit

ServerNext ==
    /\ Running
    /\ \/ NoCallback /\ ( \/ MainStarts \/ Abort \/ Signal \/ MainCloses
                          \/ RistReadersEnd \/ AdaptersGoOn
                          \/ \E c \in Conns : \/ RtmpConnect(c) \/ RtmpRefused(c)
                                              \/ RtmpAccepted(c)
                          \/ \E x \in Pubs : WebhookRequest(x)
                          \/ \E d \in Daemons : DaemonDies(d) )
       \/ \E k \in Keys : WatchdogRelease(k) /\ UNCHANGED serverVars

(* main goes on; handlers go on (no property needs those of the webhook    *)
(* to); once cancelled, a connection ends with its next message or its     *)
(* read deadline.  The lines of a dead receiver come to an end, however    *)
(* often its readers wait for s.mu: strong fairness.  A handshake need not *)
(* end.                                                                    *)
ServerFairness ==
    /\ WF_allVars(Running /\ (MainStarts \/ MainCloses))
    /\ WF_allVars(Running /\ RistHandler /\ UNCHANGED serverVars)
    /\ WF_allVars(Running /\ (HeartbeatAsk \/ HeartbeatTouch) /\ UNCHANGED serverVars)
    /\ SF_allVars(RistReadersEnd) /\ SF_allVars(CloseRist) /\ SF_allVars(RistClosed)
    /\ \A c \in Conns :
          /\ WF_allVars(main = "closeRtmp" /\ RtmpEnd(c) /\ UNCHANGED serverVars)
          /\ WF_allVars((RtmpStart(c) \/ RtmpRelease(c)) /\ UNCHANGED serverVars)
    /\ WF_allVars(Running /\ (\E k \in Keys : WatchdogRelease(k))
                  /\ UNCHANGED serverVars)

ServerSpec == ServerInit /\ [][ServerNext]_allVars /\ ServerFairness

----------------------------------------------------------------------------
(* Properties *)

(* The types of the variables of main and the supervisor; only daemons     *)
(* that were started run, and srtla_rec is no problem when it was started. *)
ServerTypeOK ==
    /\ main \in Starting \cup Closing \cup {"serving", "exited", "fatal"}
    /\ handshakes \in SUBSET Conns
    /\ up \in SUBSET started /\ started \in SUBSET Daemons
    /\ problems \in SUBSET Daemons /\ (srtlaRec \in problems => srtlaRec \notin started)
    /\ webhook \in {"none", "open", "closed"}
    /\ late \in {"none", "waiting", "handled"}
    /\ ristReads \in BOOLEAN

(* rtmp/server.go:309: Close waits for active connections to finish.  So   *)
(* when the next adapter is closed no connection has the slot, or will     *)
(* get it, not even one whose handshake was under way.                     *)
ClosedRtmpHasNoSlot ==
    main \in (Closing \ {"closeRtmp"}) \cup {"exited"} => owner \notin Conns

(* main.go:116: when main has returned nothing is played, and nothing is   *)
(* waiting to be revived, though a webhook closure was never used and a    *)
(* line of RIST may have started a session after its Close had stopped the *)
(* stream.  The exception is a webhook request that outlived its server.   *)
ExitIsSilent ==
    main = "exited" /\ late # "handled" => playing = NoSession /\ want = NoSession

(* After a signal main returns, unless an RTMP peer keeps it waiting in a  *)
(* handshake.                                                              *)
ShutdownEnds ==
    main = "closeRtmp" ~> (main = "exited" \/ handshakes # {})
=============================================================================
