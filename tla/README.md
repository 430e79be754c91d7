# Formal models of tilinx-agent

TLA+ models of the part of tilinx-agent that has to be right under concurrency
and failure: the stream a conversation is watched through, the execution of
turns in the agent runtime, the transcripts and their remote copy, the control
plane's relay of turns over several replicas, its launcher of runtimes, its
scheduler of routines, the credentials it refreshes, and the sync of a pod with
its store. TLC checks them on small instances; TLAPS proves the central safety
properties of all eight for every value of the constants. Paths below are
relative to `packages/` unless they say otherwise.

## 1. Inventory

tilinx-agent is a desktop, self-hosted and cloud application in which users talk
to agents. A *host* (control plane, `host/`) serves the API, schedules routines,
holds credentials and launches or dispatches to *runtimes* (`runtime/`), Node
processes that run an agent's conversations in one work directory. Web, desktop
and mobile clients follow a conversation over server-sent events through the
library `runtime-client/`.

| Component | State | Operations | What is hard | What makes it correct |
|---|---|---|---|---|
| Sequencing and replay window (`runtime-client/src/{ring-buffer,replay,snapshot,stream-channel}.ts`, `runtime/src/session/bus.ts`) | per conversation: counter, ring of frames, snapshot; subscribers | publish, subscribe, snapshot, replayAfter, evict | wrap of the ring, the edges of the window, a counter that starts again | the window is a gapless suffix of what was published; the snapshot is the fold of it |
| Connect, resume, reconnect (`runtime-client/src/{stitch,resume}.ts`, `runtime/src/transport/events-route.ts`) | per connection: held-back frames, watermark; per client: cursor | connect, replay or sync, flush, live delivery, drop, retry | frames published while a read is awaited; drops anywhere; cursors of an earlier channel | no gap, no duplicate, resync only when needed, convergence |
| Acceptance and commands (`runtime/src/transport/conversation-start-turn.ts`, `runtime/src/session/conversation-command-{gate,run}.ts`) | held turns, commands in flight | accept a message, accept and run `/clear`, `/compact`, refuse | acceptance is several awaits ahead of the queue | turns and commands of a conversation never overlap |
| Turn execution (`runtime/src/session/{turn-start,turn-start-failure,exec-turn,workdir-lock,stall-watchdog,conversation-control}.ts`) | `conv.queue`, `conv.turnId`, `conv.stoppedTurnId`, the lock chain, the transcript | runTurn, recordUserTurn, execTurn, cancelTurn | queueing on two chains, Stop in any phase, stall, throw | one writer of the directory, one honest verdict per turn, every turn ends |
| Crash recovery (`runtime/src/session/{turn-inflight-marker,settle-interrupted-turns}.ts`, `runtime/src/transport/server.ts`) | markers and transcripts on disk | write, clear, settle at boot | a crash between two writes, a marker shipped again | a recorded turn is answered, interrupted once at most |
| Drain (`runtime/src/session/{drain,graceful-shutdown}.ts`) | a latch | begin, poll, exit | the poll reads a flag others clear | a working turn is not cut before the deadline |
| Turn relay (`host/src/turn/{relay,relay-channel,bus}.ts`) | lease and snapshot on the shared bus; per replica: pump, channels, heals | start, publish, reapIfDead, heal, cancel | replicas interleave at every bus call; crashes; expiry | one pump per agent, a dead turn is terminated and a live one is not |
| Transcript store and shadow (`runtime/src/store/`) | the files; per conversation a lane of pending operations, a repair flag, the dirty set | append, truncate, rename, delete, compact; send, retry, collapse, drain at shutdown | writes nobody tells the shadow of; sends refused, lost, answered too late; limits of queue and dirty set; exits | the remote copy is a document the shadow was told of, never an older one again, and catches up |
| Runtime launcher (`host/src/launcher/`, `host/src/channel/proxy.ts`) | live set, boot under way, hold count, drains | ensureAwake, boot, sleep, hold, stop | awaits between a check and its use; children die at any time | no orphan, no runtime in a directory that is moved or synced for the last time |
| Routine scheduler (`host/src/schedule/`, `domain/src/schedule/`) | lastTick, fire locks, the runs file | tick, burn, fire, reconcile, cancel | overlapping sweeps, restarts, a post whose answer is lost, whole-file edits from stale loads, locks that run out | an instant fires once and none is skipped; no run is lost from the file; a run ends once, with its own reply, and always ends |
| Credentials: refresh and serving (`host/src/credentials/`, the credential routes) | the stored row, the refresh under way, the last result | serve, refresh, capture, reject, forget | one-time refresh tokens; joins, lost answers, a login captured meanwhile | one exchange at a time; only what is dead is signed out |
| Pod store sync (`host/src/store-sync/`, `runtime-client/src/object-sync/`) | manifest, pass, rerun and stop flags | pass, flush, stop with its final sync | edits under the pass, a second writer, lost answers, a newer lease holder | a flush that lands has stored what it was called for; documents merge; edits reach the store |
| Pooled turn workers, dispatch, backends, tools, integrations, routes, SDK, UIs, desktop shell, local model bridge, agent store, sandbox | — | — | — | not modelled; `PROJECT.json` says why for each |

**How they interact.** A client posts a message to the runtime (directly or
through the host's relay) and follows the conversation's events. The runtime
accepts it (gate), pins a session and queues the turn on its conversation,
records the message and the in-flight marker when its turn comes, takes the
directory's lock, prompts the model and publishes every event on the bus. The
bus sequences frames, keeps the window and the snapshot, and fans out to
connections. In the cloud a replica of the host claims the agent's lease, pumps
the frames of one upstream turn through the same `StreamChannel` and broadcasts
them. The *snapshot* is the shared state all of this meets in: the sync of a new
client, the gate, the drain and the reaper all read its `running`.

On a desktop or self-hosted host the launcher starts one runtime per agent when
a request needs it and puts it to sleep when its directory must be quiet; the
runtime asks the host for its model credential, which the host refreshes for all
of them. The scheduler fires routines into the same conversations users write
to and reads their outcome back from the transcript. In a cloud pod the store
sync ships what the runtime wrote, and the transcript shadow ships the
transcripts one operation at a time.

`PROJECT.json` lists the hazards of this code line by line, those no property
covers yet included.

## 2. Modules

```
Wire <- RingBuffer <- ReplayLog <-+
Wire <- Snapshot <----------------+- StreamChannel <- ResumableStream -> ReliableStream (refined)
        ResumableStream <- ResumableStreamProofs
        Snapshot <- TurnRelay     <- TurnRelayProofs
        TurnExecution <- TurnExecutionMC   (symmetry for TLC)
        TurnExecution <- TurnExecutionProofs
        TranscriptShadow -> TranscriptMirror (refined)
        TranscriptShadow <- TranscriptShadowProofs
        RuntimeLauncher <- RuntimeLauncherProofs
        RoutineClock, RoutineRuns <- RoutineProofs
        CredentialRefresh <- CredentialRefreshProofs
        StoreSync <- StoreSyncProofs
```

### The stream

`RingBuffer`, `ReplayLog`, `Snapshot` and `StreamChannel` translate one class or
function each, as operators on records that have the class's fields: `Push`,
`At`, `SliceFrom`, `AppendEvent`, `ReplayAfter`, `ReduceSnapshot`, `Sequenced`,
`SettledChannel`. The binary search is there twice: as the loop computes it
(`BinarySearch`) and as what it must return (`FirstIndexAfter`).

`ResumableStream` is one conversation, one server process and one client. The
server is a single JavaScript thread, so an action is what runs between two
awaits. `Connect` is the start of `serveResumableStream` up to its first await,
`ReadSnapshot` the step to the second, `FinishReplay` and `FinishSync` the rest,
flush included; `Publish` may fall between any two of them. `Drop` is any end of
a connection, with what was on the wire lost; `Unsubscribe` the caller's abort or
a fatal status. `Evict` and `Restart` discard the channel. `generation` and
`history` are auxiliary: which channel it is, and every frame of it with the
snapshot it led to. A payload is known by its generation and seq only; `partial`
is the sequence of the deltas' payloads.

`ReliableStream` is what the stream promises, without buffers or cursors: the
reader's picture is the server's state at one point of its history, and moves on
frame by frame, or by a resync when a frame behind it is lost to the window.
The refinement mapping takes the reader's position to the client's cursor.

### Turn execution

`TurnExecution` follows each message or command through the phases `accepted`
(gate passed, `runTurn` in its provider checks and `getConversation`), `queued`,
`recorded` (message and marker written, lock requested), `preparing` (lock held;
model resolved, backend switched, context compacted), `prompting`, `ended`; `lost` when
the process died. `queue[c]` is the promise chain `conv.queue` (its length is
`conv.pending`), `lock` the chain of the directory, `current[c]` the pair
`conv.turnId`, `conv.stoppedTurnId`, `running[c]` the flag of the bus snapshot,
`disk` the transcript and the markers. Accepted messages that are refused before
their turn are `RefuseUnrecorded` and `RefuseRecorded`. `Settle` is everything
after `prompt()` resolves, with the `finally` and the release of lock and queue;
`Throw` the catch with the same `finally`. `Stall` may happen in any prompt,
`CancelTurn` in any phase.

A crash can fall between any two awaits (`Crash`) and between the two disk writes
of one stretch (`CrashAfterMessage`, `CrashAfterReply`,
`RestartBeforeMarkerIsGone`). The boot settles one marker at a time.
`Redeliver` is the store sync of a replaced pod that ships a cleared marker again.
`sent` is auxiliary: the terminal frames published under each turn's own id.

### Turn relay

`TurnRelay` is one agent, its replicas and the shared bus. An action is what a
replica does between two awaits and carries out, at its end, the bus operation it
goes on to await, whose result may be stale when it is used. `fanOut` is two
operations in either order (`todo`). `pump[r]` is the `start()` under way on
replica r, `reap[r]` its `reapIfDead()` (one per replica, as `healing` dedupes
them), `local[r]` its map of channels, `cancel` the scoped cancels that have
passed their check. `cast` and `settled` are auxiliary.

### Transcripts

`TranscriptShadow` has one lane per conversation. A mutation of the file is one
synchronous block: `Mutate` writes the file, enqueues the delta, collapses the
lane at `MAX_PENDING_OPERATIONS` and takes the first step of an idle loop
(`Drain`). Three writes are not told to the shadow, or not in full.
`SaveCompaction` appends the checkpoint of a compaction
(`conversation-compaction.ts:31-49`). The reply of a turn that compacted stamps
that checkpoint in place (`conversation-append-assistant.ts:14-27`) and is sent
alone, or, when it is empty, the stamped checkpoint is sent in its stead
(`AppendAssistantMessage`). The interrupted replies of a boot
(`settle-interrupted-turns.ts:102`) are written when the process starts (`Gone`).
An operation enqueued over such a gap is `torn`: applied to the copy, it does not
give the file. The end of a send and the start of the next are one block as well
(`Continue`). A send is taken (`SendSucceeds`), refused for good
(`SendRefused`), lost on the way (`SendLost`), carried out without an answer
(`AnswerLost`), or given up after its timeout while still under way
(`SendTimesOut`, then `LateSendLands`). A document is its messages, as turn and
role, and its title. `/compact` is an `AppendUserMessage` and an
`AppendAssistantMessage` with no text. `log`, `shown` and `lost` are history
variables: the documents of the file that the shadow was told of or has read for a
repair (`Known`), the one the copy shows, and the conversations with a gap the
process does not know of - a delta that was torn when it was taken is such a gap.

`TranscriptMirror` is what the shadow promises: the copy moves along the documents
the shadow knows of, forwards only. The refinement mapping is the identity on the four
variables: what is shown is that every step of queue, repair and dirty set
implements one of its steps or a stutter.

### Runtime launcher

`RuntimeLauncher` is the launcher of one directory. A step is what the host does
between two awaits (`EnsureAwake`, `Spawn`, `Healthy`, `BootTimesOut`,
`StartDrain`, `Drained`, `Hold`, `Quiesce`, `Stop`, `Stopped`), a timer
(`TermExpires`, `KillExpires`, `StopExpires`) or what a child does by itself
(`Serve`, `Die`, noticed by `ExitSeen`). Callers that wait call again when the
boot or the drain they waited for is over, so they have no state of their own.
`stray` records the children a failed boot has let go of.

### Routines

`RoutineClock` decides when a routine fires: `Tick` moves the window on,
`ScanDue` burns the first due instant of it, `Deliver` is the control plane's
route, which burns the same locks, `Fire` records the run or finds the routine
busy. A lock is a time in `expiry`: `setNx` gives it to nobody else until that
time (`Held`), and to anybody after it. `firer` has one entry per sweep under way
and one for the route; locks and sweeps die with the process (`Reboot`). Its
`ClockInit`, `ClockNext` and `ClockSpec` have names of their own because
`RoutineProofs` extends both modules.

`RoutineRuns` is what becomes of a fire. Every writer of `routine_runs.json` loads
all of it and saves all of it later, so each is two actions and an entry of `edits`
holds the rows to be saved: `LoadFire` and `Record` (the busy gate, the new row, the
pruning), `LoadFailure` and `MarkErrored`, `LoadSettled` and `Settle`, `LoadCancel`
and `CancelRow`; `SaveFails` is the end of one that cannot be saved. `QueueFree` is
`withRunsFile`. `Accept`, `Refuse` and `LoseAnswer` are the outcomes of the post.
`Judge` is a sweep that reads routines, runs and conversation: it settles a run by
*any* assistant message since the run started, as `replyAfter` does. `turns` are the
unfinished turns of the conversation: those of runs and, as 0, those the user posts
(`UserPosts`); `Compacts` is the checkpoint a turn at work writes into it. `last` and
`replied` say whose message the last one is and which runs it would settle.
`RewriteRoutines` deletes the routine, or leaves `routines.json` unreadable and
readable again. `mistaken` (a run was settled by a message that was no reply to it)
and `derailed` (a run ended with its turn unfinished) are history.

### Credentials

`CredentialRefresh` names a token by the login it descends from and its
generation. `Refresh` is a serve that finds its row about to expire and starts
or joins the refresh under way; `Load` is the re-read inside it; `Persist`,
`PersistFails`, `FailSoftly` and `Reject` are its ends, each of which frees the
slot and releases the callers (`Settle`). `Export`, `Capture` and `Scrub` are the
three awaits of the capture of a login. The OAuth server is external: `Grant`,
`Refuse`, `LoseAnswer`, `Unreachable`, `Revoke`. `spoilt` records the logins
whose stored token may be dead for a reason outside the host's refreshing.

### Store sync

`StoreSync` drives one pass at a time over the files: `Hash`, then the guarded
upload (`PutAccepted`, `PutUnanswered`, `PutConflicts`, `PutTooLarge`,
`PutVanishes`), on a conflict the merge of a document (`MergeRead`,
`MergeWrite`) or the retry (`Reput`), then the deletes of what the pod owned
(`DropPass`, `Drop`, `Redrop`), and `EndPass`, which keeps the new manifest and
settles the callers. The daemon is `RequestSync`, `Tick`, `Flush`, `Stop` and
`FinalSync`; the environment `Write`, `Unlink`, `ForeignWrite`, `ForeignDelete`
and `Takeover`. A body is the set of the edits it holds; an edit of `BadEdits` leaves
a text that is no document of its kind, and a merge that meets one on either side
fails the pass (`Mergeables`), as `mergeDocumentBodies` throws.

## 3. Runs

| Run | Instance | Asks |
|---|---|---|
| `ResumableStream` | ring of 2, 5 frames of user/text/done, 2 drops | window, view, refinement of `ReliableStream`, convergence |
| `StreamResets` | ring of 3, 4 frames of text/done, 1 eviction or restart | types, window, binary search, no starvation after a reset |
| `Turns` | 3 messages or commands, 2 conversations, 1 Stop, 2 crashes; symmetric | types, one writer, exclusion, verdicts, Stop, interruption |
| `TurnsEnd` | 2 messages or clears, 2 conversations, 1 Stop, 1 crash; fair | every turn ends, every recorded turn is answered |
| `Relay` | 2 replicas, 1 conversation, 2 turns, 1 crash; fair | one pump, only dead turns are healed, no turn runs for ever |
| `Transcripts` | 2 conversations, queue of 1, dirty set of 1, 3 mutations told or untold, 2 failures, 1 exit; fair | quiet means the last document told, no replay, refinement of `TranscriptMirror`, convergence |
| `Launcher` | 2 movers, 2 children; fair | no orphan, quiet moves, no second runtime, quiet final sync, nobody waits for ever |
| `Routines` | 2 sweeps, 2 runs, history of 1, 2 events (restart, user's turn, checkpoint); fair | no run in flight is lost from the file, ends are final, a run gets its own reply, every run ends |
| `RoutineClock` | 2 sweeps, 3 instants, grace of 1, TTL of 2, clock to 4, 1 restart, 2 fires | an instant fires once while its lock lasts, none is skipped |
| `Credentials` | 2 serves, 2 logins, 3 refreshes; fair | one exchange, refreshing spoils nothing, only the dead are signed out, every serve is answered |
| `StoreSync` | a document and a plain file, 2 edits, the second of which spoils a document, 1 foreign edit, 1 fault; fair | a landed flush has stored, foreign entries survive, every edit is stored |
| `DocumentGone` | one document | expected violation: the periodic pass does not guarantee the sync (section 5) |

**Why the bounds are enough.** The ring must be smaller than a turn, so that the
window overflows, and wrap its backing array: 2 slots and 5 frames, 3 slots and
4 frames. Two drops make a reconnect out of a reconnect. One reset gives a cursor
of an earlier channel. Three turns give one that works, one that waits for the
lock and one in the same queue; the second conversation makes lock and queue
disagree. Two crashes let a boot die in its own settling, or a marker be
delivered again after a crash; redelivery and drains count against the same
bound. One Stop can fall into every phase. Two replicas and two turns give each
race of a heal with a pump and of two heals; `ScopedCancel` needs the second
conversation. A queue of one and a dirty set of one make both limits bite with
two conversations; the second failure falls on the repair of the first. Two
children are the one a drain or a failed boot leaves and its successor, two
movers make the hold count a count. Two sweeps overlap; a grace of one and a
clock of four let a restart fall before, inside and after the shifted window, and a
TTL of two lets a lock run out before a repeated delivery does. A history of one
prunes the first run when the second is recorded, and two runs and two events give
a run a reply of another run's turn, of the user's, of a checkpoint and of a
restart. Every conflict can meet a document spoilt by the pod: one of the two edits
does it.
Two logins let one be captured while the other is refreshed; the third refresh
sends what the second returned. The plain file and the document take the two
conflict paths; one fault can fall on every request. A mutant of the code for every property of a passing run shows that
the property is reached by the instance.

Deadlock checking is off in every run: with the bounds spent, all turns ended
and the client current, these systems are at rest. That nothing waits for ever
before that is what `EventuallyCurrent`, `EveryTurnEnds`, `EveryTurnIsAnswered`,
`NoTurnRunsForEver`, `EventuallyMirrored`, `NobodyWaitsForEver`, `EveryRunEnds`,
`EveryServeIsAnswered` and `EveryEditIsStored` check.

## 4. Fairness

- *Stream*: weak fairness of `Connect`, `ReadSnapshot`, `FinishReplay`,
  `FinishSync` and `Receive`. The reads are synchronous map lookups behind an
  `await`, and `resume.ts` loops with a bounded backoff until the caller aborts.
  Publishing, drops, resets and unsubscribing are not fair.
- *Turns*: what is awaited before the prompt comes back; a prompt ends, or falls
  silent and the watchdog stalls it (`EndsOrStalls`); an aborted or failed prompt
  unwinds (`Unwinds`), as `exec-turn.ts:242-244` relies on. This assumes that a
  running tool ends: tools are exempt from the watchdog. A user's Stop, a crash
  and a provider error are not fair.
- *Relay*: each promise chain goes on (`PumpStep`, `ReapStep`), an abandoned
  lease expires (its TTL), and a client of a turn that is shown as running
  connects again (`ReapStart`), as the resuming client does for ever.
- *Transcripts*: the loop of a lane goes on (`LoopStep`): every send has a 5 s
  timeout. Mutations, failures and exits are not fair.
- *Launcher*: a boot is healthy or times out, a drain's timers expire, `stop()`
  has its own, and a mover that waits is resumed. Children need do nothing, not
  even die of SIGTERM.
- *Routines*: the timer starts a sweep whenever one would settle a run (`WF` of
  `Judge`), and of those that wait for the queue some get in again and again (`SF`
  of `LoadSettled`: the queue is in order of arrival); an edit is saved or fails;
  a save of a sweep may fail, but not for ever (`SF` of `Settle`); runs get old.
  Posts, turns, users, rewrites of `routines.json` and restarts are not fair.
  `RoutineClock` checks safety only.
- *Credentials*: the store answers, an exchange is answered or times out, and a
  rejected serve goes on. Logins, revocations and ageing are not fair.
- *Store sync*: a pass goes on (`PassStep`) and the periodic timer ticks (`Tick`).
  Edits, faults and the take-over are not fair.

## 5. What the runs showed

The run `DocumentGone` finds the promise of `host/src/store-sync/daemon-policy.ts`
broken, that the periodic pass guarantees the sync: when the object of a document
has gone from the store and the document is changed locally, the conflict's merge
reads the object, does not find it and fails the pass, and every later pass does
the same. A document that is malformed has the same end: `mergeDocumentBodies`
throws on one that does not parse, has the wrong shape or an unknown version, on
either side (`sync-back-doc-merge.ts:46-48, 69-70, 77-79, 84-86`), and
`sync-back-conflicts.ts:117` rethrows that as well. `EveryEditIsStored` holds with
both cases excepted (`Stuck`).

These promises of the code's own comments do not hold either. Each has a
configuration beside the runs (`tlc -config StaleCursor.cfg ResumableStream` and
so on) whose counterexample is a few steps long.

| Configuration, module | Property | What happens |
|---|---|---|
| `StaleCursor`, `ResumableStream` | `StaleCursorResyncs` | A cursor of an evicted channel is served from the new channel once that has counted as far; it does not resync (`replay.ts:70`). |
| `StuckRunning`, `TurnExecution` | `IdleIsNotRunning` | Frames a stopped turn publishes after its terminal frame leave the snapshot running with nothing in flight (`exec-turn.ts:727`). |
| `StoppedTurnRuns`, `TurnExecution` | `StoppedTurnIsNotPrompted` | A Stop before the prompt has begun aborts nothing: the model runs the turn that is shown as stopped (`exec-turn.ts:588`). |
| `DrainCutsTurn`, `TurnExecution` | `DrainSeesTurns` | The error frame of a refused second message hides a working turn from the drain (`graceful-shutdown.ts:55`). |
| `RelaySeq`, `TurnRelay` | `SeqIsStrictlyMonotonic` | Heals on two replicas, or a heal and an open, stamp one seq twice (`relay-channel.ts:158`). |
| `ScopedCancel`, `TurnRelay` | `ScopedCancelHitsItsConversation` | A scoped cancel may reach another conversation's turn (`relay.ts:182`). |
| `LostVerdict`, `TurnRelay` | `PumpTerminatesItsTurn` | The cleanup of a heal deletes the channel of a pump that began meanwhile, and the pump ends without its terminal frame (`relay-channel.ts:176`). |
| `LateReplay`, `TranscriptShadow` | `NoOpReplayedOverSnapshot` | A send that was given up after 5 s lands after the repair that stood for it, on a copy that includes it. |
| `ShutdownDropsReply`, `TranscriptShadow` | `ShutdownLeavesNothingBehind` | A conversation that is dirty with an idle lane has nothing for the shutdown's drain to wait for, and its gap is forgotten. |
| `StrayRuntime`, `RuntimeLauncher` | `OneRuntimePerDirectory` | A boot that times out lets its child go without waiting for its end; the next boot starts a second runtime over the directory. |
| `ForeignReply`, `RoutineRuns` | `SettledByItsReply` | The reply to a turn of the user, or the checkpoint of a compaction, settles the run of a routine whose own turn still works; the next fire posts a second turn beside it (`reconcile.ts:45`; the comment at `:31` calls it "the agent's reply for this run"). |
| `UnreadableRoutines`, `RoutineRuns` | `SettlesAnyway` | While `routines.json` cannot be read no run ends: `reconcileAgentRuns` loads it too and throws (`reconcile.ts:99`). `agent-scan.ts:101-102` and `scheduler.test.ts:303-305` say runs settle even then. |
| `RowRecreated`, `CredentialRefresh` | `NoRowRecreated` | A refresh under way when the user disconnects stores its result: the row comes back (`refresh-coalescer.ts:53-57` says it does not). |

`NoTurnRunsForEver` holds in spite of `LostVerdict`: the next client to connect
has the turn terminated. `InterruptedOnce` holds although the comment at
`settle-interrupted-turns.ts:98-99` still expects a second interrupted reply
after a crash between reply and marker: `alreadySettled` prevents it.
`EveryRunEnds` excepts a routine that was deleted while it ran, whose record stays
running, as nobody reconciles it (`reconcile.ts:104`), and a `routines.json` that
is unreadable again and again. `OneTurnAtATime` speaks of a routine that has its
conversation to itself, for the reason `ForeignReply` shows.

`FiresOnce` is as strong as the fire lock, which lasts `dedupTtlSec`, an hour by
default: a delivery made again later than that, or after a restart of a host whose
locks are in its memory, fires its instant a second time (`turn/bus.ts:48-55`).
Two scans never repeat one another, whatever the TTL.

The transcript's copy is exact only up to what the shadow is told. After a
compaction, a stamped checkpoint or a boot that answered an interrupted turn the
copy lacks that write until the next repair, which may be never: nothing marks the
conversation dirty. Until then each delta lands on a document it was not made for,
and the copy is one the file never was. The properties of `TranscriptShadow` say
what is left: an idle clean lane has the last document *told* (`QuietMeansCurrent`),
the copy follows the documents known but for such gaps, and a repair closes
them (`ImplementsTranscriptMirror`, `EventuallyMirrored`).

`ForeignEntriesSurvive` is about entries, not about changes to one: of an entry that
both sides have, the local one wins (`sync-back-doc-merge.ts:49-58`), and the edits
of the model only add entries.

## 6. Proofs

For every value of the constants, from the assumptions named in the modules
(`CapacityAssumption`, `EventTypesAssumption`, `BoundsAssumption`,
`KindsAssumption`, `NullAssumption`, `RelayAssumption`,
`LauncherAssumption`, `RoutineAssumption`, `ClockAssumption`,
`CredentialAssumption`, `ShadowAssumption`, `StoreSyncAssumption`) only; the three theorems marked * are for streams whose
channel is not lost (`MaxResets = 0`). In each module `TypeCorrect` (in
`ResumableStreamProofs` `StreamTypes`*) proves `Spec => []TypeOK`; in
`RoutineProofs`, which is about two modules, `TypeCorrect` is `RoutineRuns`'s and
`ClockTypeCorrect` is `RoutineClock`'s. The other theorems are:

| Theorem | Property it proves of `Spec` |
|---|---|
| `ResumableStreamProofs!WindowIsSuffixAlways`, `!ViewIsServerStateAlways`*, `!StreamIsReliable`* | `WindowIsSuffix`, `ViewIsServerState`, `ImplementsReliableStream` (refinement) |
| `ResumableStreamProofs!SearchIsExactAlways` | `SearchIsExact` |
| `TurnExecutionProofs!OneWriterAlways`, `!GateIsExclusive` | `OneWriter`, `TurnsAndCommandsExclude` |
| `TurnExecutionProofs!OneVerdictAlways`, `!StopStaysDurable`, `!InterruptedOnceAlways` | `EndsWithOneVerdict`, `StopIsDurable`, `InterruptedOnce` |
| `TurnRelayProofs!RelayMutualExclusion`, `!HealsOnlyTheDead` | `OneTurnPerAgent`, `OnlyDeadTurnsAreHealed` |
| `TranscriptShadowProofs!QuietIsCurrent`, `!NothingIsSentTwice`, `!ShadowImplementsMirror` | `QuietMeansCurrent`, `NothingIsReplayed`, `ImplementsTranscriptMirror` (refinement) |
| `RuntimeLauncherProofs!NoOrphanEver`, `!QuietMoves`, `!OneRuntime`, `!QuietSync` | `NoOrphan`, `QuietWhileMoved`, `OneRuntimeButStrays`, `QuietAtFinalSync` |
| `RoutineProofs!NoneForgotten`, `!EndsAreFinal`, `!RepliesAreOwn` | `NoRunIsForgotten`, `EndsOnce`, `OneTurnAtATime` |
| `RoutineProofs!NeverTwice`, `!NothingSkipped` | `FiresOnce`, `NoInstantSkipped` |
| `StoreSyncProofs!LandedAlways`, `!ForeignSurvives`, `!KnowledgeIsTrue` | `LandedMeansStored`, `ForeignEntriesSurvive`; the third is the invariant both rest on |
| `CredentialRefreshProofs!OneExchangeAlways`, `!NoServeIsStranded`, `!RefreshingSpoilsNothing`, `!OnlyTheDeadAreSignedOut` | `OneExchange`, `WaitsForLive`, `RefreshingNeverSpoils`, `SignsOutOnlyTheDead` |

*The stream.* The ring needs no more than that an index wraps at most once
(`Wraps`): a push with room adds one behind the others (`PushGrows`), a push
into a full ring moves them down by one (`PushRolls`). `WindowInv` says that the
buffered frames are the last of the history and what precedes them is lost, by
the capacity or by the end of a turn; it holds through evictions and restarts.
From it `ReplayIsExact`: `replayAfter` returns every frame behind the cursor, or
`Null`, and that only when the abstract `Lost` holds; and `FlushIsSuffix`: the flush
lets through what lies behind the watermark (the increasing list of an interval
is unique, `IncreasingCounts`). `PhaseInv` puts the pipe together: what is held
back begins at the subscription (`Start`), a replay closes the gap between
cursor and subscription, a snapshot is not older than it, and what is in flight
on a live connection ends at the watermark with no hole. The reader then moves
by one frame or over lost ones, which is what `ReliableStream` allows
(`ReceivePipe`, `StreamIsReliable`). With a reset the two promises to the
reader fail: a cursor of a discarded channel may be served from the next one
(`StaleCursor`, section 5).

*The search.* `BinarySearch` is a recursive function on the ranges of a window,
and nothing proves by induction what such a function computes. Two least
elements do instead: were there a length up to which no function satisfies the
recursion, take the least and extend a function for the length before it
(`SearchGrows`, `SearchReaches`); were there a range on which the search is
wrong, take a shortest one, and its half is shorter (`SearchFinds`). Both need that the half of a range is shorter and contains what
is looked for (`Halved`, `SameHalves`).

*Turn execution.* `OneWriter` is not inductive: that two turns never execute at
once follows from both being the head of the lock's chain, and that the head
leaves only with its own turn. `Core` adds this: a turn that has begun is the
first of its conversation's queue, an executing turn is the first of the lock,
and `conv.turnId` names a turn that has begun. Every action moves turns in one of
five ways (`CoreStays`, `CoreEnters`, `CoreBegins`, `CoreGoesOn`, `CoreLeaves`)
or is a death (`CoreDies`), so `CoreStep` is a case split that cites one lemma
per action. `OneBegun` is what a queue gives: one begun turn per conversation.
`Rest` is the types of the other variables. A stop mark that names the turn in
flight is part of `Core`, because `CancelTurn` reads `conv.turnId`.

*The gate.* Once a conversation holds a command it holds nothing else. Every
action but an acceptance only shrinks the sets of held turns (`Shrinks`,
`StepShrinks`); the two acceptances are where the guards decide
(`ExclusionStep`). So the exclusion rests on the gate alone and not on the queue,
as the comment in `conversation-command-gate.ts` claims.

*The verdicts.* What an ended turn has told follows from what an open one has not
(`Untold`): no reply, no `done`, a `stop` frame exactly when the mark names the
turn, a `provider_error` exactly when the failure is noted. `MarkedIsBegun` makes
the mark and the turn in flight the same thing, so that `Settle` decides on what
the user saw. Nothing is added to an ended turn later because a marker names a
turn that has begun or died (`Markers`) and a booting process holds none of its
own (`Quiet`). `InterruptedOnce` is inductive with the types alone: the one step
that writes `interrupted` looks for it first.

*The relay.* `OneTurnPerAgent` follows from `LeaseGuards`: while a replica pumps,
the lease is held, and no other replica pumps. The lease is deleted by its owner
or when no replica pumps any more. The latter is an assumption of the model
(`Lapsed`): a pumping replica sends its heartbeats in time. The code has no
owner token, so a pause of more than 90 s voids the theorem.

*The heals.* A reaper decides on three reads that may all be stale when it writes:
the snapshot, the lease, the snapshot again. `HealInv` says why this is enough.
Turn ids are never used again, so a turn that no pump owned when the lease was
seen free is never owned later (`ReapInv`); a turn that has told its end is
shown as running by no persisted snapshot once that end is persisted, and until
then only by its own conversation's, whose pump still holds the lease
(`PumpInv`). What the second read shows as running has therefore not told its
end, and nobody is left who could.

*The transcripts.* `ShadowInv` is one formula for each conversation, so a step on
one lane leaves the others' alone. It reads the lane as a path through the
documents the shadow knows: each pending operation that is not torn leads from one
to the next, and the last one leads to the last document told (`LaneOK`, `OpOK`),
and what is being sent lies before them (`SendOK`). The copy is one of them up to
there (`CopyOK`); unless the conversation is dirty or lost it is the very version
the next operation starts from (`ExactOK`). A send that was given up is in the copy
already, or its conversation is dirty (`LateOK`). A send therefore takes the copy
to a later version, or, being torn, makes the conversation lost; every other step
leaves the copy, which is all that `ShadowImplementsMirror` has to show. The file
itself is in the invariant only as a well-formed document: what was written behind
the shadow's back is not on the path.

*The launcher.* Every living child is accounted for by somebody: the live set,
the boot under way, its own drain, the shutdown, or it is a stray (`Accounted`).
`HeldInv` makes the hold count the number of movers that hold, so that one
mover's release cannot open the latch under another; `BootInv`, `StopInv` and
`MoveInv` say what a boot, the shutdown and a mover may still find alive.

*Routine runs.* An edit saves a file it loaded earlier, so everything rests on what
it holds (`EditsInv`): there is one edit at a time, and its rows are the file as it
is, but for the row it is about (`EditOK`). With it, only the newest run can be in
flight (`OneRunning`), and the cap keeps the newest. `NoRunIsForgotten` and
`EndsOnce` follow by looking at what a save changes (`SavedIs`, `RecordedIs`).
`OneTurnAtATime` rests on a chain from the record to the conversation (`TurnInv`):
as long as no run ended early and nobody else writes there (`Calm`), the turn of
the run in flight is not yet there, is the only one, or was just answered; a sweep
that concludes `done` has seen the last of these. Calm does not come back
(`CalmBefore`).

*Routine clock.* Within one process `FiresOnce` has two halves. The lock keeps two
burns of an instant a TTL apart: whoever fires, and whatever was fired, burned it
so that the lock lasts a TTL from there (`FireInv`). That one of the two is a
delivery follows from the windows alone: no two sweeps ever claim the same instant,
and none claims what another has fired (`ClaimInv`). Across processes it follows
from the window's left edge: what an earlier process fired was due before this one
started, and a sweep looks only at what came due after (`Bounds`). The least element of a set of times comes from the
well-foundedness of `<` on the naturals, not from induction over data.
`NoInstantSkipped` is the step from one window to the next: `EvalSinceIs` bounds
its left edge by the right edge of the last.

*Credentials.* `FlightInv` says that the slot is the one refresh that lives. On
top of it, every token the host holds was handed out by the server (`IssuedInv`),
and unless its login is spoilt, the stored token is good or about to be replaced
and the one that was sent is good (`SpoilInv`); the step that matters is `Grant`,
which spends the stored token while its successor is not stored yet. A token
once dead stays dead (`IssuedStays`), which carries a refusal to the moment the
serve acts on it (`DeadInv`).

*Store sync.* What the pod believes of the store is a manifest of hashes and
generations, and it may be out of date in both. `SyncInv` says in which way only:
an entry, and a hash of the pass under way, stands for a body that the store has
accepted (or refused for its size), or the file has moved on from it and will not
be taken for it (`EntryOK`, `Moved`); for a document, the generation an entry
carries is one whose foreign edits the pod has read (`Read`). `SendOK` carries
both over the awaits between the hash, the merge and the upload, where an edit or
a foreign write may come in. There is one lemma per step of the pass. That a
fresh generation always exists is counted, not assumed: a file has at most four
generations in anybody's hands.

`ForeignEntriesSurvive` follows: the only steps that store a pod's body are the
two uploads (`OnlyUploadsStore`), and the guard they pass was read
(`GuardWasRead`). For `LandedMeansStored` what a flush is owed must be followed
through the passes (`LandInv`): it is there, not yet clean, and either `Left` to
the pass that runs or a rerun is to follow. The step that needs `SyncInv` is the
hash, which drops a file from the pass when its hash is the manifest's: because
the entry is true, that file is in the store already.

*Not proved.* Liveness and `ENABLED` are out of the prover's reach:
`LiveSubscriberOutlivesReset` and every property section 4 lists fairness for
stay with TLC, and so do the types of a stream with resets (`StreamResets`). No
module uses a RECURSIVE operator.

## 7. Abstractions

- Frames that act alike on the snapshot are one type (`Wire`); the snapshot's
  tools and reasoning, carried like `partial`, are left out.
- One client per stream. Connections share only the channel, which they read.
- Sessions are never evicted from the cache in `TurnExecution`: eviction spares
  pinned conversations and only makes a Stop on an idle conversation a no-op, so
  the model has more behaviours than the code.
- Disk writes succeed or the process dies. Bus calls of the relay succeed.
- The stall is possible in every prompt; tool depth is not tracked.
- A drain that reaches its deadline is a `Crash`.
- Not in `TurnExecution`: DELETE of a conversation, edit-and-resend
  (`truncate-turn.ts`, which uses the commands' gate), live mode switches, pooled
  workers.
- Not in `TurnRelay`: its replay buffers (the same class as in the stream
  modules), the `healed` record, nonces, unscoped cancel, failing bus calls.
- `TranscriptShadow`: archive segments and the switch-off of the shadow on a 404
  are left out; a title and a turn are named by the mutation that made them. Fields
  of a conversation that no delta carries and no message shows (`claudeCompaction`
  and its `consume` and `clear`, the stamps of session replay) are left out; so is
  what a message says, and with it that a provider error or a stop is dropped when
  an empty reply stamps a checkpoint (`conversation-append-assistant.ts:22-26`). A
  compaction falls into a turn, as it does in `exec-turn.ts`.
- `RuntimeLauncher`: one directory; ports, tokens and environment left out.
- `RoutineRuns`: the activities document next to a run is left out. A sweep reads
  runs, routines and replies in one step (`Judge`), and what it concludes may be
  stale when it loads the file again and when it saves. Its lock is left out: it
  runs out after 120 s whether the sweep is over or not, so it keeps sweeps apart
  only in the good case, and the model has more behaviours. A run starts when the
  edit that records it loads the file. `started_at` is taken when the edit joins the
  queue (`run.ts:68-69`); the queue serves in order of arrival, so a sweep that frees
  the routine for this run was queued earlier still, and had read the reply it
  settled by before that. A foreign message in the moment between is one more
  `ForeignReply`. A conversation whose file does not parse (`reconcile.ts:125`) has
  the effect of an unreadable `routines.json`, for every run of the agent, and is
  left out.
- `RoutineClock`: one routine on one host; the schedule is a set of times, cron is not
  parsed; the catch-up of agents that sleep is left out.
- `CredentialRefresh`: one credential on a host that keeps it itself; API keys,
  team scopes, tombstones and the remote store are left out.
- `StoreSync`: the debounce (`dirty`, `dirtyVersion`) is abstracted into a request
  at any time; the state starts after hydration; a generation may be used
  again when nobody holds it any more; every edit is new, so a file never
  returns to an earlier text; the snapshot of a refresh is taken with the 412
  that calls for it; the store answers with explicit generations; only files
  that are not documents meet the size cap; excludes are left out, and so are
  `holdDeletesOnFailure` and `include`, which the daemon does not use.

### Hazards outside the models

`PROJECT.json` lists the hazards the models reach. Those read in the code and
left out, each for the abstraction it would need:

- runtime: the error reply of a stopped turn whose prompt throws
  (`exec-turn.ts:762`); an `interrupted` reply after an answered one when the
  process dies before the marker is gone (`exec-turn.ts:877`, the step is
  `CrashAfterReply`); a settle that throws (`transport/server.ts:84`); Stop on a
  command (`conversation-control.ts:60`); DELETE under a running turn
  (`conversation-routes.ts:158`); a message accepted after the drain's poll
  (`conversation-start-turn.ts:45`); a tool that never ends
  (`stall-watchdog.ts:78`); a command without a marker
  (`conversation-command-run.ts:69`); the shadow off for the whole process after
  one 404 (`store/http-shadow.ts:73`), and a truncate that expects revision 0
  after the gateway restarted.
- relay: a cancel between claim and subscription (`relay.ts:83`), an `open()` that
  fails outside the try (`:94`), a heartbeat after a pause longer than the lease
  (`:132`), snapshot and broadcast in parallel (`relay-channel.ts:105`).
- scheduler: the activities document saved without a lock (`reconcile.ts:198`); an
  instant burned and not fired (`agent-scan.ts:82`, the step is `Fire` without a
  record); the window that is lost with a failed listing (`scheduler.ts:113`, the
  step is `ScanFails`).
- store sync: an upload that was answered in a pass that failed later, whose file
  is then deleted locally, leaves an object the pod never owned
  (`object-sync/sync-back.ts:167`); a body that changes and changes back between
  two hashes (`:134`); a delete's retry that destroys a foreign update it has not
  seen (`sync-back-conflicts.ts:161`); `flush()` resolving with nothing landed
  when the daemon is stopping or fenced (`daemon.ts:149`); a fence that adopts a
  newer lease's token (`http-store.ts:184`); an entry that loses its generation
  on a 413.

## 8. Not modelled, and what is left

The parts `PROJECT.json` lists as not modelled are adapters of other people's
services (model backends, integrations), views (web, desktop, mobile, design
system), parsers and validators (domain documents, agent store), processes that
keep no state between calls (sandbox), or one side of a protocol whose other side
is not in this repository (pooled workers, the remote credential store). They
are most of the repository's lines and hold little of its coordination.

Candidates for further work, in order:

1. DELETE and edit-and-resend in `TurnExecution`; disk errors at boot.
2. Failing bus calls and the answer of `cancel` in `TurnRelay`.
3. The SDK's settlement of a turn from frames and history, on top of
   `ReliableStream`.
4. The quota counters of the host's dispatch; credit windows of the local model
   bridge.
5. Tombstones and the runtime's own cache in `CredentialRefresh`; several
   routines on one conversation in `RoutineRuns`.
6. Proofs: the types of a stream with resets, and what its reader may still
   rely on after one.

## 9. Checking it

```
tlc -config Turns.cfg TurnExecutionMC      # likewise for every run of PROJECT.json
tlapm TurnExecutionProofs.tla              # likewise for every *Proofs module
```

A `violation` run ends with TLC's counterexample; every other run with no error.
Definitions marked `Mutant of` are plausible bugs: put in the place of the
definition they name, they break the property that `PROJECT.json` pairs them with.
