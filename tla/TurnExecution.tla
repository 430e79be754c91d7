----------------------------- MODULE TurnExecution ----------------------------
(***************************************************************************)
(* How the runtime executes what users send to its conversations           *)
(* (packages/runtime/src/session): the acceptance gate between turns and   *)
(* commands, the queue of each conversation, the lock of the one work      *)
(* directory all of them share, the prompt with its stall watchdog, the    *)
(* user's Stop, the durable transcript with the in-flight marker beside    *)
(* it, and the boot that settles what a dead process left behind.          *)
(*                                                                         *)
(* One JavaScript thread: an action is what runs between two awaits.  A    *)
(* crash can also fall between the two disk writes of one such stretch,    *)
(* which is what the Torn disjuncts of Crash are.  `sent` is auxiliary:    *)
(* the terminal frames each turn has published under its own id.           *)
(***************************************************************************)
EXTENDS Naturals, Sequences, FiniteSets

CONSTANTS
  Null,
  Turns,        \* ids of turns and commands, minted one per accepted message
  Convs,        \* conversations
  Kinds,        \* what a message can be: "message", "compact", "clear"
  MaxStops,     \* bound: presses of Stop
  MaxCrashes    \* bound: deaths of the process

ASSUME BoundsAssumption == MaxStops \in Nat /\ MaxCrashes \in Nat
ASSUME KindsAssumption == Kinds \subseteq {"message", "compact", "clear"}
ASSUME NullAssumption == Null \notin Turns /\ Null \notin Convs

VARIABLES
  turn,     \* per turn: phase, kind, conversation, and what its prompt met
  queue,    \* per conversation: the promise chain conv.queue, oldest first
  lock,     \* the promise chain of the work directory, holder first
  current,  \* per conversation: conv.turnId and conv.stoppedTurnId
  cached,   \* the conversations with a live session
  running,  \* per conversation: `running` of the bus snapshot
  disk,     \* transcripts and in-flight markers: all that a crash spares
  proc,     \* "up", "draining" after SIGTERM, or "booting" until the survivors
            \* are settled
  sent,
  stops, crashes

vars == <<turn, queue, lock, current, cached, running, disk, proc, sent,
          stops, crashes>>

Fresh == [phase |-> "new", kind |-> Null, conv |-> Null,
          aborting |-> FALSE, stalled |-> FALSE, failed |-> FALSE]

Idle == [turnId |-> Null, stopped |-> Null]

Holding   == {"accepted", "queued", "recorded", "preparing", "prompting"}
Executing == {"preparing", "prompting"}   \* inside withWorkdirLock
Begun     == {"recorded"} \cup Executing  \* past its link of the queue

IsCommand(t) == turn[t].kind \in {"compact", "clear"}
Held(c, phases) == {t \in Turns : turn[t].conv = c /\ turn[t].phase \in phases}

Init ==
  /\ turn = [t \in Turns |-> Fresh]
  /\ queue = [c \in Convs |-> <<>>]
  /\ lock = <<>>
  /\ current = [c \in Convs |-> Idle]
  /\ cached = {}
  /\ running = [c \in Convs |-> FALSE]
  /\ disk = [asked |-> {}, replies |-> [t \in Turns |-> <<>>],
             marker |-> [c \in Convs |-> Null]]
  /\ proc = "up"
  /\ sent = [t \in Turns |-> {}]
  /\ stops = 0
  /\ crashes = 0

-----------------------------------------------------------------------------
(* Frames.                                                                 *)

\* Publish a terminal frame of turn t on its conversation.
Terminate(t, type) ==
  /\ running' = [running EXCEPT ![turn[t].conv] = FALSE]
  /\ sent' = [sent EXCEPT ![t] = @ \cup {type}]

\* The bus snapshot of a conversation says a turn is in flight.
IsTurnRunning(c) == running[c]
AnyTurnRunning == \E c \in Convs : running[c]

Move(t, phase) == turn' = [turn EXCEPT ![t].phase = phase]

Reply(d, t, kind) == [d EXCEPT !.replies[t] = Append(@, kind)]
Ask(d, t) == [d EXCEPT !.asked = @ \cup {t}]

-----------------------------------------------------------------------------
(* The gate.                                                               *)

\* Mutant of ConversationCommandBusy: a turn between its acceptance and its
\* place in the queue goes unseen.
BusyWithoutHeldTurns(c) ==
  \/ \E t \in Held(c, Holding) : IsCommand(t)
  \/ IsTurnRunning(c)
  \/ queue[c] # <<>>

\* conversationCommandBusy: a command in flight, a turn held since its
\* acceptance, a running snapshot, or work pending on the live session.
ConversationCommandBusy(c) ==
  \/ \E t \in Held(c, Holding) : IsCommand(t)
  \/ Held(c, Holding) # {}
  \/ IsTurnRunning(c)
  \/ queue[c] # <<>>

\* The drain latch is read before the request's body and its provider are
\* awaited: a request that came in before SIGTERM may pass the gate after it.
Serving == proc \in {"up", "draining"}

\* handleStartTurn says yes to an ordinary message, and holds the
\* conversation from that tick on; runTurn goes on to its provider checks.
AcceptMessage(t, c) ==
  /\ Serving
  /\ "message" \in Kinds
  /\ turn[t].phase = "new"
  /\ ~ \E u \in Held(c, Holding) : IsCommand(u)
  /\ turn' = [turn EXCEPT ![t] = [Fresh EXCEPT !.phase = "accepted",
                                               !.kind = "message", !.conv = c]]
  /\ UNCHANGED <<queue, lock, current, cached, running, disk, proc, sent,
                 stops, crashes>>

\* handleStartTurn takes a command: it is in flight at once and joins the
\* queue in the same tick.
AcceptCommand(t, c, kind) ==
  /\ Serving
  /\ turn[t].phase = "new"
  /\ ~ ConversationCommandBusy(c)
  /\ turn' = [turn EXCEPT ![t] = [Fresh EXCEPT !.phase = "queued",
                                               !.kind = kind, !.conv = c]]
  /\ queue' = [queue EXCEPT ![c] = Append(@, t)]
  /\ UNCHANGED <<lock, current, cached, running, disk, proc, sent, stops,
                 crashes>>

-----------------------------------------------------------------------------
(* runTurn.                                                                *)

\* No provider is connected any more: an error frame, and nothing durable.
RefuseUnrecorded(t) ==
  /\ turn[t].phase = "accepted"
  /\ Terminate(t, "error")
  /\ Move(t, "ended")
  /\ UNCHANGED <<queue, lock, current, cached, disk, proc, stops, crashes>>

\* The pinned provider is missing or no session can be built: the message and
\* an empty reply with the reason are written, then the two frames go out.
RefuseRecorded(t) ==
  /\ turn[t].phase = "accepted"
  /\ disk' = Reply(Ask(disk, t), t, "error")
  /\ Terminate(t, "error")
  /\ Move(t, "ended")
  /\ UNCHANGED <<queue, lock, current, cached, proc, stops, crashes>>

\* getConversation succeeded: the session is pinned and the turn queued.
Join(t) ==
  /\ turn[t].phase = "accepted"
  /\ LET c == turn[t].conv IN
     /\ cached' = cached \cup {c}
     /\ queue' = [queue EXCEPT ![c] = Append(@, t)]
  /\ Move(t, "queued")
  /\ UNCHANGED <<lock, current, running, disk, proc, sent, stops, crashes>>

FirstInQueue(t) ==
  queue[turn[t].conv] # <<>> /\ Head(queue[turn[t].conv]) = t

\* Mutant of RecordOnDisk: no marker until the turn executes.
RecordWithoutMarker(d, t) == Ask(d, t)

\* The user message, then the in-flight marker.
RecordOnDisk(d, t) == [Ask(d, t) EXCEPT !.marker[turn[t].conv] = t]

\* recordUserTurn, when the turn's link of the queue is reached; the workdir
\* lock is requested in the same tick.
RecordUserTurn(t) ==
  /\ turn[t].phase = "queued"
  /\ turn[t].kind = "message"
  /\ FirstInQueue(t)
  /\ LET c == turn[t].conv IN
     /\ current' = [current EXCEPT ![c].turnId = t]
     /\ running' = [running EXCEPT ![c] = TRUE]
  /\ disk' = RecordOnDisk(disk, t)
  /\ lock' = Append(lock, t)
  /\ Move(t, "recorded")
  /\ UNCHANGED <<queue, cached, proc, sent, stops, crashes>>

\* The same stretch for a command: no turnId, no marker.
RecordCommand(t) ==
  /\ turn[t].phase = "queued"
  /\ IsCommand(t)
  /\ FirstInQueue(t)
  /\ running' = [running EXCEPT ![turn[t].conv] = TRUE]
  /\ disk' = Ask(disk, t)
  /\ lock' = Append(lock, t)
  /\ Move(t, "recorded")
  /\ UNCHANGED <<queue, current, cached, proc, sent, stops, crashes>>

\* Mutant of HoldsLock: one lock per conversation.
HoldsLockOfConversation(t) ==
  \E i \in 1 .. Len(lock) :
    /\ lock[i] = t
    /\ \A j \in 1 .. i - 1 : turn[lock[j]].conv # turn[t].conv

\* withWorkdirLock: everything requested earlier has settled.
HoldsLock(t) == lock # <<>> /\ Head(lock) = t

\* The body starts; a turn's next awaits resolve the model, switch the
\* backend or compact the context.
AcquireLock(t) ==
  /\ turn[t].phase = "recorded"
  /\ HoldsLock(t)
  /\ Move(t, "preparing")
  /\ UNCHANGED <<queue, lock, current, cached, running, disk, proc, sent,
                 stops, crashes>>

-----------------------------------------------------------------------------
(* execTurn.                                                               *)

\* session.prompt starts and the watchdog is armed.
BeginPrompt(t) ==
  /\ turn[t].phase = "preparing"
  /\ turn[t].kind = "message"
  /\ Move(t, "prompting")
  /\ UNCHANGED <<queue, lock, current, cached, running, disk, proc, sent,
                 stops, crashes>>

\* A text, thinking, tool or usage frame arrives and is published - also when
\* the turn has been stopped: only an echo of the abort is dropped.
Stream(t) ==
  /\ turn[t].phase = "prompting"
  /\ ~ turn[t].failed
  /\ running' = [running EXCEPT ![turn[t].conv] = TRUE]
  /\ UNCHANGED <<turn, queue, lock, current, cached, disk, proc, sent, stops,
                 crashes>>

\* A provider_error frame that is no echo of this turn's own abort.
ProviderError(t) ==
  /\ turn[t].phase = "prompting"
  /\ ~ turn[t].failed
  /\ turn' = [turn EXCEPT ![t].failed = TRUE]
  /\ Terminate(t, "provider_error")
  /\ UNCHANGED <<queue, lock, current, cached, disk, proc, stops, crashes>>

\* Mutant of Stalled: the watchdog notes the stall and aborts nothing.
StalledWithoutAbort(x) == [x EXCEPT !.stalled = TRUE]

Stalled(x) == [x EXCEPT !.stalled = TRUE, !.aborting = TRUE]

\* The watchdog: no sign of life and no tool running for the whole window.
Stall(t) ==
  /\ turn[t].phase = "prompting"
  /\ ~ turn[t].stalled
  /\ turn' = [turn EXCEPT ![t] = Stalled(@)]
  /\ UNCHANGED <<queue, lock, current, cached, running, disk, proc, sent,
                 stops, crashes>>

WasStopped(t) == current[turn[t].conv].stopped = t

\* A stalled turn gets a typed error, unless one arrived or the user stopped it.
SynthesizesError(t) ==
  turn[t].stalled /\ ~ turn[t].failed /\ ~ WasStopped(t)

\* Mutant of CleanEnd: the Stop does not keep `done` back.
CleanEndAfterStop(t) == ~ turn[t].failed /\ ~ SynthesizesError(t)

\* The turn ends with `done`.
CleanEnd(t) ==
  ~ turn[t].failed /\ ~ SynthesizesError(t) /\ ~ WasStopped(t)

ReplyKind(t) ==
  IF WasStopped(t) THEN "stopped"
  ELSE IF turn[t].failed \/ SynthesizesError(t) THEN "error"
  ELSE "answer"

\* Mutant of Cleared: the stop mark bleeds into the next turn.
ClearedButMarked(c) == [current[c] EXCEPT !.turnId = Null]

Cleared(c) == [current[c] EXCEPT !.turnId = Null, !.stopped = Null]

\* execTurn's finally, the release of the lock and the next link of the queue.
Leave(t, d) ==
  LET c == turn[t].conv IN
  /\ current' = [current EXCEPT ![c] = Cleared(c)]
  /\ disk' = [d EXCEPT !.marker[c] = Null]
  /\ lock' = Tail(lock)
  /\ queue' = [queue EXCEPT ![c] = Tail(@)]
  /\ Move(t, "ended")

\* prompt() resolves: the stall becomes an error frame, the reply is written,
\* the files the turn changed are announced - stopped or not - and a clean
\* end says `done`.
Settle(t) ==
  /\ turn[t].phase = "prompting"
  /\ Leave(t, Reply(disk, t, ReplyKind(t)))
  /\ IF CleanEnd(t) THEN Terminate(t, "done")
     ELSE IF SynthesizesError(t) THEN Terminate(t, "provider_error")
     ELSE \E changed \in IF turn[t].failed THEN {FALSE} ELSE BOOLEAN :
            /\ running' = [running EXCEPT ![turn[t].conv] = @ \/ changed]
            /\ UNCHANGED sent
  /\ UNCHANGED <<cached, proc, stops, crashes>>

\* Anything between the lock and the reply throws: the catch writes the error
\* and publishes it - unless its frame has gone out already and says what
\* failed ("error" stands for the typed frame as well).
Throw(t) ==
  /\ turn[t].phase \in Executing
  /\ turn[t].kind = "message"
  /\ Leave(t, Reply(disk, t, "error"))
  /\ \/ turn[t].failed /\ UNCHANGED <<running, sent>>
     \/ Terminate(t, "error")
  /\ UNCHANGED <<cached, proc, stops, crashes>>

\* A command did its work: /clear disposes the session, /compact leaves one.
FinishCommand(t) ==
  /\ turn[t].phase = "preparing"
  /\ IsCommand(t)
  /\ LET c == turn[t].conv IN
     /\ cached' = IF turn[t].kind = "clear" THEN cached \ {c} ELSE cached \cup {c}
     /\ queue' = [queue EXCEPT ![c] = Tail(@)]
  /\ disk' = Reply(disk, t, "boundary")
  /\ lock' = Tail(lock)
  /\ Terminate(t, "done")
  /\ Move(t, "ended")
  /\ UNCHANGED <<current, proc, stops, crashes>>

FailCommand(t) ==
  /\ turn[t].phase = "preparing"
  /\ IsCommand(t)
  /\ queue' = [queue EXCEPT ![turn[t].conv] = Tail(@)]
  /\ lock' = Tail(lock)
  /\ Terminate(t, "error")
  /\ Move(t, "ended")
  /\ UNCHANGED <<current, cached, disk, proc, stops, crashes>>

-----------------------------------------------------------------------------
(* The user's Stop.                                                        *)

\* Mutant of MarkStopped: the mark is kept for a turn that is prompting.
MarkStoppedIfPrompting(c) ==
  [current EXCEPT ![c].stopped =
     IF @ # Null \/ current[c].turnId = Null THEN @
     ELSE IF turn[current[c].turnId].phase = "prompting" THEN current[c].turnId
     ELSE @]

MarkStopped(c) ==
  [current EXCEPT ![c].stopped =
     IF current[c].turnId # Null THEN current[c].turnId ELSE @]

\* cancelTurn: mark the executing turn, publish "Stopped by user" under its id
\* - under none when no turn executes - and abort the session.  An abort with
\* no prompt in flight is lost.
CancelTurn(c) ==
  LET t == current[c].turnId IN
  /\ c \in cached
  /\ stops < MaxStops
  /\ stops' = stops + 1
  /\ current' = MarkStopped(c)
  /\ running' = [running EXCEPT ![c] = FALSE]
  /\ sent' = IF t = Null THEN sent ELSE [sent EXCEPT ![t] = @ \cup {"stop"}]
  /\ turn' = IF t # Null /\ turn[t].phase = "prompting"
               THEN [turn EXCEPT ![t].aborting = TRUE] ELSE turn
  /\ UNCHANGED <<queue, lock, cached, disk, proc, crashes>>

-----------------------------------------------------------------------------
(* Death and boot.                                                         *)

\* The process dies with d on disk: everything in memory goes.
DieWith(d) ==
  /\ crashes < MaxCrashes
  /\ crashes' = crashes + 1
  /\ disk' = d
  /\ proc' = "booting"
  /\ turn' = [t \in Turns |-> IF turn[t].phase \in Holding
                                THEN [turn[t] EXCEPT !.phase = "lost"]
                                ELSE turn[t]]
  /\ queue' = [c \in Convs |-> <<>>]
  /\ lock' = <<>>
  /\ current' = [c \in Convs |-> Idle]
  /\ cached' = {}
  /\ running' = [c \in Convs |-> FALSE]
  /\ UNCHANGED <<sent, stops>>

\* Between two awaits, or at the deadline of a drain.
Crash == DieWith(disk)

\* SIGTERM: the latch is set and new messages are refused.
BeginDrain ==
  /\ proc = "up"
  /\ crashes < MaxCrashes
  /\ proc' = "draining"
  /\ UNCHANGED <<turn, queue, lock, current, cached, running, disk, sent,
                 stops, crashes>>

\* drainTurnsThenExit: a poll finds no turn running, and the process exits.
ExitDrained ==
  /\ proc = "draining"
  /\ ~ AnyTurnRunning
  /\ DieWith(disk)

\* Between the user message and the marker, or the message and its refusal.
CrashAfterMessage(t) ==
  /\ \/ turn[t].phase = "queued" /\ FirstInQueue(t)
     \/ turn[t].phase = "accepted"
  /\ DieWith(Ask(disk, t))

\* Between the reply and the removal of the marker, or the command's `done`.
CrashAfterReply(t) ==
  /\ turn[t].phase \in Executing
  /\ \E kind \in IF IsCommand(t) THEN {"boundary"}
                 ELSE IF turn[t].phase = "prompting" THEN {"error", ReplyKind(t)}
                 ELSE {"error"} :
       DieWith(Reply(disk, t, kind))

\* Mutant of AlreadySettled: every marker is a death.
NeverSettled(t) == FALSE

\* alreadySettled: the transcript holds an interrupted reply for this turn.
AlreadySettled(t) ==
  \E i \in 1 .. Len(disk.replies[t]) : disk.replies[t][i] = "interrupted"

\* settleInterruptedTurns, one marker: write the reply the dead process never
\* wrote, then drop the marker.
SettleInterrupted(c) ==
  LET t == disk.marker[c] IN
  /\ proc = "booting"
  /\ t # Null
  /\ disk' = [IF AlreadySettled(t) THEN disk ELSE Reply(disk, t, "interrupted")
                EXCEPT !.marker[c] = Null]
  /\ UNCHANGED <<turn, queue, lock, current, cached, running, proc, sent,
                 stops, crashes>>

\* The booting process dies between those two writes.
RestartBeforeMarkerIsGone(c) ==
  LET t == disk.marker[c] IN
  /\ proc = "booting"
  /\ t # Null
  /\ ~ AlreadySettled(t)
  /\ crashes < MaxCrashes
  /\ crashes' = crashes + 1
  /\ disk' = Reply(disk, t, "interrupted")
  /\ UNCHANGED <<turn, queue, lock, current, cached, running, proc, sent, stops>>

\* The store sync of the pod this one replaces ships a cleared marker again.
Redeliver(t) ==
  LET c == turn[t].conv IN
  /\ proc = "booting"
  /\ turn[t].phase = "lost"
  /\ AlreadySettled(t)
  /\ disk.marker[c] = Null
  /\ crashes < MaxCrashes
  /\ crashes' = crashes + 1
  /\ disk' = [disk EXCEPT !.marker[c] = t]
  /\ UNCHANGED <<turn, queue, lock, current, cached, running, proc, sent, stops>>

\* No marker is left: the server listens.
Listen ==
  /\ proc = "booting"
  /\ \A c \in Convs : disk.marker[c] = Null
  /\ proc' = "up"
  /\ UNCHANGED <<turn, queue, lock, current, cached, running, disk, sent,
                 stops, crashes>>

-----------------------------------------------------------------------------
Next ==
  \/ \E t \in Turns, c \in Convs : AcceptMessage(t, c)
  \/ \E t \in Turns, c \in Convs, kind \in Kinds \ {"message"} :
       AcceptCommand(t, c, kind)
  \/ \E t \in Turns : RefuseUnrecorded(t)
  \/ \E t \in Turns : RefuseRecorded(t)
  \/ \E t \in Turns : Join(t)
  \/ \E t \in Turns : RecordUserTurn(t)
  \/ \E t \in Turns : RecordCommand(t)
  \/ \E t \in Turns : AcquireLock(t)
  \/ \E t \in Turns : BeginPrompt(t)
  \/ \E t \in Turns : Stream(t)
  \/ \E t \in Turns : ProviderError(t)
  \/ \E t \in Turns : Stall(t)
  \/ \E t \in Turns : Settle(t)
  \/ \E t \in Turns : Throw(t)
  \/ \E t \in Turns : FinishCommand(t)
  \/ \E t \in Turns : FailCommand(t)
  \/ \E c \in Convs : CancelTurn(c)
  \/ Crash
  \/ BeginDrain
  \/ ExitDrained
  \/ \E t \in Turns : CrashAfterMessage(t)
  \/ \E t \in Turns : CrashAfterReply(t)
  \/ \E c \in Convs : SettleInterrupted(c)
  \/ \E c \in Convs : RestartBeforeMarkerIsGone(c)
  \/ \E t \in Turns : Redeliver(t)
  \/ Listen

Spec == Init /\ [][Next]_vars

\* A prompt either ends or falls silent until the watchdog stalls it; an
\* aborted or failed prompt unwinds; everything else awaited comes back.
Starts(t) == Join(t) \/ RefuseUnrecorded(t) \/ RefuseRecorded(t)
EndsOrStalls(t) == Stall(t) \/ (~ turn[t].stalled /\ (Settle(t) \/ Throw(t)))
Unwinds(t) ==
  (turn[t].aborting \/ turn[t].failed) /\ (Settle(t) \/ Throw(t))

Fairness ==
  /\ \A t \in Turns :
       /\ WF_vars(Starts(t))
       /\ WF_vars(RecordUserTurn(t))
       /\ WF_vars(RecordCommand(t))
       /\ WF_vars(AcquireLock(t))
       /\ WF_vars(BeginPrompt(t))
       /\ WF_vars(EndsOrStalls(t))
       /\ WF_vars(Unwinds(t))
       /\ WF_vars(FinishCommand(t) \/ FailCommand(t))
  /\ \A c \in Convs : WF_vars(SettleInterrupted(c))
  /\ WF_vars(Listen)

FairSpec == Spec /\ Fairness

-----------------------------------------------------------------------------
(* Properties.                                                             *)

Phases == Holding \cup {"new", "ended", "lost"}
ReplyKinds == {"answer", "stopped", "error", "boundary", "interrupted"}
TerminalKinds == {"done", "error", "provider_error", "stop"}

\* Every variable holds what its code counterpart can hold, and a stop mark
\* names the turn in flight (exec-turn.ts:881-883, "never bleeds into the next").
TypeOK ==
  /\ turn \in [Turns -> [phase : Phases, kind : Kinds \cup {Null},
                         conv : Convs \cup {Null}, aborting : BOOLEAN,
                         stalled : BOOLEAN, failed : BOOLEAN]]
  /\ queue \in [Convs -> Seq(Turns)]
  /\ lock \in Seq(Turns)
  /\ current \in [Convs -> [turnId : Turns \cup {Null},
                            stopped : Turns \cup {Null}]]
  /\ \A c \in Convs : current[c].stopped \in {Null, current[c].turnId}
  /\ cached \subseteq Convs
  /\ running \in [Convs -> BOOLEAN]
  /\ disk \in [asked : SUBSET Turns, replies : [Turns -> Seq(ReplyKinds)],
               marker : [Convs -> Turns \cup {Null}]]
  /\ proc \in {"up", "draining", "booting"}
  /\ sent \in [Turns -> SUBSET TerminalKinds]
  /\ stops \in 0 .. MaxStops
  /\ crashes \in 0 .. MaxCrashes

\* turn-start.ts:119-128: however many conversations run turns and commands,
\* one of them at a time works on the files of the shared directory.
OneWriter ==
  \A t, u \in Turns :
    turn[t].phase \in Executing /\ turn[u].phase \in Executing => t = u

\* conversation-command-gate.ts:4-12, "the two can never overlap": from the
\* acceptance of the one to its end, a conversation has either turns or a
\* single command.
TurnsAndCommandsExclude ==
  \A c \in Convs : \A t, u \in Held(c, Holding) : IsCommand(t) => t = u

\* exec-turn.ts:736-741 and stall-watchdog.ts: every ended turn has told its
\* reader so under its own id, and `done` never stands on top of a Stop or an
\* error - whether the prompt resolved, threw, stalled, failed or was stopped.
EndsWithOneVerdict ==
  \A t \in Turns :
    turn[t].phase = "ended" =>
      /\ sent[t] # {}
      /\ "done" \in sent[t] => sent[t] = {"done"} /\ ~ turn[t].stalled

\* exec-turn.ts:609-616: a reply is stamped `stopped` exactly when the user saw
\* the turn stopped, wherever the turn was when Stop was pressed, unless the
\* turn threw.
StopIsDurable ==
  \A t \in Turns :
    turn[t].phase = "ended" /\ disk.replies[t] # <<>> =>
      LET reply == disk.replies[t][1] IN
      /\ reply = "stopped" => "stop" \in sent[t]
      /\ "stop" \in sent[t] => reply \in {"stopped", "error"}

\* settle-interrupted-turns.ts:85-90: however the boots were cut short and the
\* markers shipped, a turn is answered by `interrupted` once at most.
InterruptedOnce ==
  \A t \in Turns :
    Cardinality({i \in 1 .. Len(disk.replies[t]) :
                   disk.replies[t][i] = "interrupted"}) <= 1

\* turn-start.ts:56-60 and stall-watchdog.ts:25-35: a message that was accepted
\* ends, or dies with the process and is answered at the next boot; silence of
\* a provider holds nobody's work directory for ever.
EveryTurnEnds ==
  \A t \in Turns :
    turn[t].phase = "accepted" ~>
      \/ turn[t].phase = "ended"
      \/ turn[t].phase = "lost" /\ proc = "up"

\* turn-inflight-marker.ts:12-22: once the message of a turn is on disk with its
\* marker, the turn gets a reply, from the process that runs it or, if that one
\* dies, from the boot of the next.
EveryTurnIsAnswered ==
  \A t \in Turns :
    turn[t].phase = "recorded" /\ ~ IsCommand(t) ~> disk.replies[t] # <<>>

\* snapshot.ts:144-147, "otherwise a late subscriber's `sync` would report the
\* turn as still running forever": with nothing in flight on a conversation its
\* snapshot says so.
IdleIsNotRunning ==
  \A c \in Convs : Held(c, Holding) = {} => ~ running[c]

\* graceful-shutdown.ts:2-4 and drain.ts:2-6, "never by cutting it mid
\* tool-call": as long as the drain has a turn to wait for - it works, nobody
\* stopped it, its provider has not failed - the poll sees it.
DrainSeesTurns ==
  proc = "draining" =>
    \A t \in Turns :
      turn[t].phase \in Executing /\ "stop" \notin sent[t] /\ ~ turn[t].failed
        => AnyTurnRunning

\* conversation-control.ts:35-42: Stop aborts the turn in flight; a turn that
\* was stopped is not handed to the model afterwards.
StoppedTurnIsNotPrompted ==
  [][\A t \in Turns :
       turn[t].phase = "preparing" /\ turn'[t].phase = "prompting" =>
         "stop" \notin sent[t]]_vars
=============================================================================
