# A TLA+ model of IRL Universal Ingest

The server under `src/` takes live streams over RTMP, SRT, SRTLA and RIST, lets one
of them at a time have the *slot*, and relays that one to a single UDP destination
through an ffmpeg child process. This directory holds TLA+ specifications of it,
the TLC configurations that check them on small instances, and TLAPS proofs for
every value of their constants. `PROJECT.json` lists the runs, the seeded faults
that show that each property can fail, the source lines every definition stands
for, and the hazards the properties are aimed at.

    tlc -workers 2 -config Ingest.cfg MCIngest.tla      # check a model
    tlapm RelayProofs.tla                               # check proofs

## 1. The system

| part | source | state | operations | concurrency |
|---|---|---|---|---|
| arbitration manager | `internal/arbitration/manager.go` | active slot, watchdog timer, byte counters, decay channel | `TryAcquire` and its release closure, `Touch`, `AddBytes`, `SetBitrate`, `SetRTT`, `ActiveInfo`, timer callback, decay loop | one mutex `m.mu`; a timer goroutine, one decay goroutine per slot |
| relay | `internal/relay/ffmpeg.go` | child process, running, sessionID, stopped, last input, attempt | `StartSession`, `StopSession`, `watch`, `scheduleRestart` | one mutex `r.mu`, held while a stop waits for the child; one watcher per child |
| RTMP adapter | `internal/ingest/rtmp/server.go` | a handler goroutine per connection | accept, acquire, start relay, stream, release | no lock of its own |
| FLV encoder | `internal/ingest/rtmp/flv.go` | none | pure functions | - |
| SRT webhook | `internal/ingest/srt/webhook.go` | stored release closure and path | `on_connect`, `on_close`, statistics push | `h.mu` per handler |
| SRT supervisor | `internal/ingest/srt/server.go`, `config.go` | two child processes, webhook server, temp directory | `Start`, `Close`, port choice | waits for readiness; nobody waits for the children |
| RIST adapter | `internal/ingest/rist/server.go`, `stats.go` | active, closure, path, last activity | log lines, heartbeat, disconnect | `s.mu`; two readers per child, a heartbeat |
| RIST supervisor | `internal/ingest/rist/server.go` | current child, stopping, last forced restart | start, reap and restart, forced restart, `Close` | a reaper per child, under `s.mu` in pieces |
| statistics, health | `internal/stats`, `internal/health` | problems map | `/stats`, `/healthz` | read manager and relay in separate calls |
| authorisation, configuration, safego, main | `internal/auth`, `config`, `safego`, `cmd/server` | - | pure functions, loading, wiring, shutdown order | - |

How they interact: each adapter calls `TryAcquire`, then `relay.StartSession`, and
from then on `Touch`. Whoever ends the slot (closure or watchdog) runs
`onSlotRelease`, that is `relay.StopSession`, under `m.mu`. The webhook and the
RIST adapter call `StopSession` once more after their release. Apart from that
every call is atomic by itself and nothing is held between two of them.

What is hard: the timer callback that already waits for `m.mu`; closures that
outlive their slot; the calls of one handler interleaved with those of other
adapters; an ffmpeg restart that is delayed while sessions come and go; waiting
for the child under `r.mu`; lost or late `on_close` events; forced and delayed
receiver restarts that meet; `Close` while all that goes on.

What makes each part correct: see section 3, property by property.

## 2. The modules

| module | models | checked by | proofs |
|---|---|---|---|
| `Arbitration` | manager: slot, watchdog, closures | `MCArbitration`, `MCSlotBitrate` | `ArbitrationProofs` |
| `SlotLease` | abstract: who has the slot | refined by `Arbitration` | |
| `ArbitrationLease` | the refinement | `MCIngest` | `ArbitrationProofs` |
| `SlotBitrate` (extends `Arbitration`) | the reading and its decay goroutine | `MCSlotBitrate` | `SlotBitrateProofs` |
| `Relay` (extends `Backoff`) | ffmpeg sessions, watchers, restarts | `MCRelay` | `RelayProofs` |
| `Backoff` | the shifted, clamped delays of relay, RIST and accept loop | `MCRelay` | `BackoffProofs` |
| `RelaySession` | abstract: what is played | refined by `Relay`, used by `Ingest` | |
| `Ingest` (extends `Arbitration`, instantiates `RelaySession`) | the adapters around manager and relay | `MCIngest` | `IngestProofs` |
| `Server` (extends `Ingest`) | start, SRT daemons, signal, shutdown in order, exit | `MCServer` | `ServerProofs` |
| `RistReceiver` | supervision of ristreceiver, `Close` | itself | `RistReceiverProofs` |
| `RistLog` | log lines, stream paths, authorisation | `MCRistLog` | `RistLogProofs` |

**Arbitration.** Every method is one action, as it runs under `m.mu`. `slot` is the
(protocol, path) pair of `activeSlot`, the only thing `releaseSlot` compares;
`owner`, which the code does not have, remembers whose `TryAcquire` made it.
`holding` are the release closures not used yet. The timer counts seconds down;
at zero it becomes a pending callback (`callbacks`), and `HandleTimeout` is that
callback when it gets `m.mu`. In between anything may happen. `PromptSpec` is the
same manager when nothing happens in between; the proofs use it, and the adapters
of `Ingest` take its steps only.

**SlotBitrate** conjoins the reading to these actions: `AddBytes`, `SetBitrate`, and
one round of `decayLoop`. After a slot has ended its goroutine may still handle
one tick, perhaps in the next slot. The reading is only zero or not.

**Relay.** `StartSession` and `StopSession` hold `r.mu` while `stopUnlocked` waits, so
they are two actions (`call` says who is waiting) between which only processes
and the watchers' `close(done)` move. A watcher is at one of the stages between
which it holds no lock. Spawning may fail at any time. In the abstract session a
start that fails leaves *any* input wanted (`AnyInput`): until the next start that
works, or the next stop, a restart of an earlier session may come.

**Backoff.** `base << attempt` on 64 bits with its sign, and the clamp, for the two pairs
of base and maximum the code has. A duration is a factor times a power of two, so
that TLC can count.

**Ingest.** The handlers of the adapters are cut at each call of manager or relay.
`hook` and `ristStep` say what the handler that holds `h.mu` or `s.mu` does next;
RTMP connections have a phase each, `gated` before and `streaming` after the frame
that opens the keyframe gate. `fed` is the connection whose pipe the running
ffmpeg reads: a restart has none, and only a message that is really written finds
out: one that cannot be encoded is not, although it may have opened the gate
(`Encodes`). `MCIngest` has two instances: a key per source, and one in which two
RTMP connections share a path, as do an SRT and an SRTLA publisher. `irl-srt-server` is external: publishers come and go, and the event that tells
may be lost. The relay is the abstract one; a refused acquisition and unauthorised
publishers change nothing and are left out, an unauthorised RIST line ends the
stream like a disconnect. Times keep the order that matters: fresh < stale <
`source_timeout`.

**Server** puts `main` around it. A stage of `main` decides what may *begin* (connections,
webhook requests, RIST lines); what has begun goes on. RTMP connections have a
handshake, which has no deadline. The daemons of SRT start, are ready or not, and
may crash; the health tracker is the set `problems`. A webhook request may outlive
its server, since `http.Server.Close` does not wait (`late`, at most one). RIST has
lines from its start until all its readers have ended.

**RistReceiver.** A reaper goes through the lock sections of `reapProcess`, output
readers handle lines (also after the process is dead), `Reject` is the forced
restart, `Close` is four steps. `unhealthy` is the tracker's entry.

**RistLog.** A line is the set of words `ParseLogLine` looks for, in its order; a path is
a directory and a number of slashes at its end, of which `NormalizePath` takes one.
What ristreceiver logs for a sender that comes, lives and leaves is external, a
CNAME alone in its line or together with a sign of life. Teardown lines show no
CNAME, nor do blobs, in which the code looks for none.

## 3. What the runs show

Passing runs:

- `arbitration` (`SlotBitrate.cfg`): `WatchdogCoversSlot`, the timer has exactly what is
  left of the allowed silence, or a callback with the slot's key is waiting.
  `SilentSlotIsFreed`, a silent source loses the slot. `StalledBitrateDecays`, a
  reading not refreshed is zero after 2 s and one tick, even in a slot kept alive
  by touches and with an old goroutine at work.
- `relay`: never two ffmpeg processes (`AtMostOneFfmpeg`), none that a stop could not
  find (`LiveProcessIsOwned`), silence after a stop (`StoppedMeansSilent`), no call
  that waits for ever under `r.mu` (`CallsReturn`), a crash is repaired unless a
  spawn failed (`CrashIsRepaired`), restarts do not reset their own backoff
  (`RestartsAreBackedOff`, unless the last start failed), and no number of attempts
  overflows into a short delay (`BackoffSaturates`). `ImplementsRelaySession`: what is
  played is the session last asked for, or nothing.
- `ingest`: `ImplementsLease`, the manager gives and takes the slot as `SlotLease`
  does when the adapters call it. `RelayServesHolder`, the relay plays, and would
  revive, only the source that has the slot. `RistSlotIsItsOwn`: the adapter only asks
  whether *any* slot is active, and this is enough because its heartbeat ends a stale
  stream (5 s) before the watchdog does (10 s by default). A `source_timeout` below
  the stale threshold would break it. `GonePublisherLosesSlot`, without its `on_close`
  too. `ClosuresAreUnused`: no closure that is stored or about to be called was called
  before, so that nothing depends on the `sync.Once` (`manager.go:83`).
  `OnlyLateCallsEvict`: a source that is neither gone nor silent, and that could be
  relayed, loses the slot to an `on_close` with its path (`webhook.go:173`) or to a
  stale closure with its protocol and path, and to nothing else. What *gone* means is
  a matter of the source, not of the call that ends the slot: a connection at its end,
  a publisher that `irl-srt-server` has lost, a ristreceiver that is silent or tells
  of an end (`Gone`). Every source has a key of its own here, so that of the two calls
  only the first happens in this run; with shared keys the second does (the finding
  `ingest_lost_slot`), and that there is no third is proved for any keys. The same
  condition is what `ImplementsLease` and `RelayServesHolder` need: section 4 says how
  much of it. `OnlyLateStopsSilence`: who keeps the slot is silenced by the second
  `StopSession` of the webhook and of the RIST adapter (the finding `ingest_stop`
  below) and by nothing else. `UnfedSessionEnds`: after ffmpeg died, the one restarted
  for an RTMP session reads a pipe nobody writes to; the session ends because its
  connection's write fails. Both liveness properties except a *ghost*: a connection
  that waits for its first keyframe writes nothing, so that it never learns it has
  lost its pipe or slot, while its flushes touch whatever slot is active.
- `server`: `ClosedRtmpHasNoSlot`, once `rtmp.Server.Close` has returned no connection has
  or gets the slot. `ExitIsSilent`: `main` returns with nothing played and nothing to
  be restarted, although RIST lines may start a session after its adapter was
  closed (`rist/server.go:350`) and the webhook's closure is never used; the last
  `StopSession` of `main` is what makes it so. It excepts a webhook request that was
  handled after its server was closed, because such a one may start the relay after
  that `StopSession`. `ShutdownEnds`: a signal leads to the exit unless an RTMP peer
  stays in its handshake.
- `rist_log`: `TeardownIsNotActivity`, no line of a teardown makes a stream active
  again. `NamedSenderIsJudgedByItsName` and `NamedIntruderIsCut`, where paths are told
  apart: once the log has shown the sender's CNAME it is judged by that, not by the
  one before it (`lastCNAME` is never cleared), and one not allowed is cut at its next
  sign of life. Neither says anything of the window before its CNAME is logged.
  `SinglePathRejectsOnlySlashes`: with one allowed path, or none, the CNAME does not
  matter, and nobody is rejected, with one exception: a path listed as
  `/live/stream//` is normalised as the path of the stream and again as it is looked
  up (`rist/server.go:373` and 376), is not found in its own list, and every sender is
  rejected. Nothing refuses such a list when it is loaded.
- `rist_receiver`: no receiver outlives `Close`, `Close` returns, an exited receiver comes
  back, and when the supervisor has given up `/healthz` has been told.

Runs that show a disagreement between code and documentation (findings):

- `arbitration_race`: a callback that was waiting for `m.mu` ends a slot that has just
  been touched (`manager.go:219` against its comment at 217).
- `relay_stale_restart`: `StartSession` clears `stopped` and then fails to spawn; the
  pending restart of the session before plays the old input (`ffmpeg.go:193` against
  175).
- `ingest_stop`: the second `StopSession` of the webhook or the RIST adapter hits the
  session of a source that acquired the slot in between; it keeps the slot and is
  not relayed (`webhook.go:177`, `rist/server.go:437` against `README.md:3`).
- `ingest_late_close`: a publisher is refused because the relay does not start, connects
  again and is relayed; the `on_close` of its first attempt, handled only now, ends its
  slot (`webhook.go:173` against `README.md:10`).
- `ingest_lost_slot`: two connections on one path, the first silenced out; its late release
  ends the slot of the second (`manager.go:176`), between its `TryAcquire` and its
  `StartSession` (`rtmp/server.go:152`), which starts the relay all the same: a feed is
  played and nobody has the slot (against `README.md:3`).
- `rist_two_receivers`: a line left in the buffer of a dead receiver forces a restart
  while the reaper sleeps; the reaper starts a second one (`rist/server.go:320`).

### Bounds

| bound | value | why it is enough |
|---|---|---|
| sessions | 4 (5 where paths are shared; 3 in `Server`, one of each protocol) | two with one key, two with others: every relation between holder, earlier holder and next holder |
| `SourceTimeout` | 3 s, 2 in `Server` | longer than decay threshold and stale threshold plus a tick, so that each comes first |
| `FreshAge`, `StaleAge` | 0 and 1 s, 0 and 0 in `Server` | the order of the thresholds is what the code depends on |
| `MaxCallbacks` | 2 (1 in `Ingest`, whose callbacks run at once) | an expired callback may wait while the timer, re-armed, expires again |
| `MaxStarts` (relay) | 4 | a session, two restarts, and a session that supersedes them |
| `MaxAttempt` | 64 | beyond 64 shifts no bit is left |
| `MaxStarts` (RIST) | 3 | the dead receiver, the forced one, the delayed one |
| slashes at the end of a path | 0 to 2 | `NormalizePath` takes one off, a path is normalised twice at most |
| late webhook requests | 1 | one is enough to break what it breaks |
| counters of seconds | capped just above the threshold they are compared with | no comparison sees more |

In `Ingest` a handler needs less than a second: time passes only when none is at
work. A handler that takes longer than `source_timeout` is not covered. In `RistLog`
one sender is connected at a time. The run `server` is the longest, two to three
minutes.

### Fairness

Goroutines that can run do run (weak fairness of timer callbacks, watchers,
reapers, readers and handlers that have begun), time passes, a killed process
dies. Clients, ffmpeg and ristreceiver never *have* to do anything, except that an
RTMP source past its keyframe sends another frame or is closed after 60 idle
seconds (`RtmpMessage(c, "inter")`). `Ingest` uses strong fairness for `Second` and
`Heartbeat`, which are disabled while some handler is at work: seconds pass however
many events there are, and a Go mutex does not starve a waiter. In `Server` `main`
goes on, a cancelled connection ends with its next message or read deadline, and
the three steps of shutdown that wait for `s.mu` are strongly fair for the same
reason; a handshake need not end, which is why `ShutdownEnds` excepts it.
`CHECK_DEADLOCK FALSE` in the runs of `RistReceiver` and `Server`: a closed server stops.

## 4. What is proved

For every value of the constants, from the named assumptions in the modules. Every
invariant and action property of the passing runs is proved, the types included, and
both refinements. Most theorems hold without further conditions;
what the others need is in their statement, as a formula over the states:

- `NoStaleClosure` (`ArbitrationLease`): no live closure but the owner's has the key of the
  slot. That is, a source that lost the slot has disconnected before another one gets
  a slot with the same protocol and path. The code does not see to that
  (`ingest_lost_slot`). It is weaker than distinct keys, and holds whenever a source
  that comes back does so after the old connection's end.
- `PromptSpec`: an expired callback gets `m.mu` before anybody else.
- `HeartbeatIsFirst`, about the constants: `SourceTimeout > StaleAge + 1`, or no watchdog.

The theorems, by component:

- `ArbitrationProofs`: `TypeOK /\ WatchdogCoversSlot` is inductive as it stands
  (`SlotIsWatched`). `LeaseWithoutStaleClosures` is the refinement; it uses an
  invariant of `PromptSpec`: a waiting callback is the only one, has the key of the
  slot, and the slot's timer has expired.
- `SlotBitrateProofs`: `DecayIsOnTime`.
- `BackoffProofs`: `DelaysSaturate`, for every number of attempts. A delay below the maximum
  has lost no bit, hence is the base doubled each time; what is left after bits are
  lost is zero, negative or too long. `BackoffNeverOverflows` carries it to the relay.
- `RelayProofs`: the invariant relates `cmd`, `sessionID`, the living process and the
  stage of each watcher: a living process is the newest, is `cmd` or the victim of a
  call, and its watcher waits. From it `OneFfmpeg`, `ProcessesAreOwned`, `StopIsFinal`.
  Unless the last start failed, a watcher that may restart has saved the input wanted
  now: `RelayPlaysTheSession` (the refinement) and `BackoffGrows`.
- `IngestProofs`: every step of the adapters is a prompt step of the manager
  (`StepIsPrompt`), so the invariants of `ArbitrationProofs` carry over, and a
  callback of the watchdog finds no handler at work (`CallbacksAlone`).
  `OnlyLateCalls` goes through the handlers that release, for any keys: each of them
  releases a source that is gone or aborting, or makes one of the two late calls. All
  but `OnlyLateCalls`, `IngestTyped` and `ClosuresAreCalledOnce` rest on
  `NoStaleClosure`: `RelayIsTheHolders`, with `StartersHold`: who is between acquire
  and start still has the slot, because no other closure fits it and no callback comes
  in between; `RelayedFeedHasTheSlot` follows. `OnlyLateStops`, with `FreshInv`: while
  some handler is about to start the relay nothing is wanted of it, so that no start
  takes the place of a session. `RistKeepsToItsSlot`, with `HeartbeatIsFirst`: the
  silence the watchdog counts is never ahead of the age the heartbeat sees, and that
  age passes `StaleAge` only with a tick due. `IngestIsALease` says that the adapters
  use the manager as the lease it is meant to be; `DistinctKeysAreEnough` that the
  condition can be met. `LiveSourcesKeepTheSlot` needs a second one, `NoLateClose`: no
  `on_close` is under way for the path of a publisher that has the slot and is there.
  `ClosuresAreCalledOnce` holds for any keys; its invariant (`ClosureInv`) needs in
  addition that the RIST adapter has dropped an old closure before it acquires again.
- `ServerProofs`: `RtmpCloseIsComplete` and `NothingPlaysAtExit`, for any keys. `StageInv` says
  what each stage of the shutdown leaves behind, and the owner of the slot, if it is a
  connection, is not idle (`OwnerIsConnected`). The steps of `main` that no adapter takes
  (`MainSteps`) leave alone what the invariants of `IngestProofs` are about, or are prompt
  steps of the manager; so `ServerServesHolder`, `ServerIsALease`, `ServerEndsNoOther`,
  `ServerCallsClosuresOnce` and `ServerRistKeepsToItsSlot` hold from the start to the exit,
  the last while lines of ristreceiver are read: afterwards there is no heartbeat.
- `RistReceiverProofs`: `NoReceiverOutlivesClose` and `NobodyGivesUpInSilence`. Neither property
  is inductive. For the second the invariant says that as soon as `s.cmd` is nil a
  restart is pending or its failure is on record, which holds although there may be
  a receiver the supervisor has lost sight of.
- `RistLogProofs`: `IntruderIsCut`, `SinglePathRejects`, `TeardownNeverActivates`,
  `JudgedByName`. The invariant says that a named sender's CNAME is the last one heard,
  and that a line that ends a stream has ended it.

For each finding a theorem says under what condition the violated statement is true
after all, so that every counterexample must break that condition, as that of the run
does:

| run | its property holds | theorem |
|---|---|---|
| `arbitration_race` | with prompt callbacks, whatever the keys | `PromptTimeoutIsInactive` |
| `relay_stale_restart` | while no start fails; step by step, when the last one did not | `RestartsAreWanted`, `OnlyFailedStartsMislead` |
| `rist_two_receivers` | if nobody but the reaper restarts while its restart is pending, as when no output of dead receivers is left to read | `LoneRestartsKeepOneReceiver`, `OneReceiverOncePipesAreDrained` |
| `ingest_late_close` | with `NoStaleClosure` and `NoLateClose`; without them, but for the two late calls | `LiveSourcesKeepTheSlot`, `OnlyLateCalls`, `ServerEndsNoOther` |
| `ingest_lost_slot` | with `NoStaleClosure` | `RelayedFeedHasTheSlot` |
| `ingest_stop` | but for the two late calls of `StopSession` no step silences a holder (with `NoStaleClosure`); that it is played in the end is liveness | `OnlyLateStops` |

Only model-checked: the liveness properties, since
fairness and `ENABLED` are out of the prover's reach. No module has a recursive operator.

## 5. What is not modelled

- The FLV encoder: layout of bytes, without state.
- Configuration: read and checked once, before any modelled state exists.
- The statistics endpoint: it reads manager, relay and tracker in calls of their own and
  writes nothing. A request that reads between the steps of another part sees the
  state in between (`stats/collector.go:40`); nothing in the program acts on it.
- In the SRT webhook, how parameters, stream ids and statistics entries are spelled: a
  publisher is taken to be found by its path (`srt/stats.go:48`).
- In the SRT supervisor, the choice of the internal port (`srt/server.go:186`) and the text
  of `sls.conf`, functions of the configuration. That a crash of `srt_server` or
  `srtla_rec` is reported nowhere is in the model (`DaemonDies`), but nothing in the
  repository promises a report.
- `log.Fatalf` after daemons were started leaves them running (`main.go:85`): the step is
  there (`Abort`), no property is about it.
- `safego` recovers panics; no panic is modelled. RTT and the value of the bitrate are data
  nothing depends on.

## 6. Plan

1. The statistics endpoint as a reader of `Server`: `Healthy` and `Collect` as two reads each.
2. Stream ids: `extractStreamPath` against `normalizePublisherKey`, over short sequences.
3. `Ingest` with handlers that take longer than `source_timeout`, which needs callbacks that
   wait while a handler is at work.
4. An abstract specification of the whole, a broadcast that is on air for one source at
   a time, which `Ingest` implements but for the late calls of `StopSession`.
