--------------------------- MODULE TranscriptShadow ---------------------------
(***************************************************************************)
(* The shadow of the transcripts, packages/runtime/src/store: a mutation   *)
(* of a conversation's file enqueues its delta on the lane of that         *)
(* conversation, a detached loop sends the lane's operations one at a      *)
(* time, and failures, pressure and deletions collapse a lane into one     *)
(* repair that snapshots the file when it is sent.                         *)
(*                                                                         *)
(* Not every write is told to the shadow.  The checkpoint of a compaction  *)
(* and the reply of a turn that a boot found interrupted are written to    *)
(* the file alone; a reply that stamps a checkpoint sends itself and not   *)
(* the change of the checkpoint.  The next delta is then torn: applied to  *)
(* the copy it does not give the file.                                     *)
(*                                                                         *)
(* A mutation is one synchronous block: file write, enqueue and, on an     *)
(* idle lane, the first step of the loop up to its send.  The end of a     *)
(* send and the start of the next one are one block as well.  `log`,       *)
(* `shown` and `lost` are history: the documents of each file the shadow   *)
(* was told of or has read, the one the remote copy shows, and the         *)
(* conversations with a gap the process does not know of: forgotten (a     *)
(* crash, the cap of the dirty set), or torn, by a delta over a change it  *)
(* was not told of or by a send that was given up and landed late.         *)
(***************************************************************************)
EXTENDS Naturals, Sequences

CONSTANTS
  Conversations,
  MAX_PENDING_OPERATIONS,
  MAX_DIRTY_CONVERSATIONS,
  MaxMutations,   \* bound: mutations of files
  MaxFailures,    \* bound: sends that fail on the way
  MaxExits        \* bound: crashes and shutdowns

ASSUME ShadowAssumption ==
  /\ MAX_PENDING_OPERATIONS \in Nat \ {0}
  /\ MAX_DIRTY_CONVERSATIONS \in Nat \ {0}
  /\ MaxMutations \in Nat /\ MaxFailures \in Nat /\ MaxExits \in Nat

VARIABLES
  log, shown, lost,
  file,      \* per conversation: its document
  remote,    \* per conversation: the document the gateway keeps
  lane,      \* per conversation: its Lane
  sending,   \* per conversation: the operation on the wire, or NoOp
  dirty,     \* the dirty set, oldest first
  late,      \* operations given up that are still on their way
  process,   \* "up" | "stopping" | "flushed" | "cut": see Shutdown
  mutations, failures, exits

vars == <<log, shown, lost, file, remote, lane, sending, dirty, late, process,
          mutations, failures, exits>>

-----------------------------------------------------------------------------
(* Documents: the messages, as turn and role, and the title.  A title and  *)
(* a turn are named by the mutation that made them.                        *)

NoDoc == [exists |-> FALSE, msgs |-> <<>>, title |-> 0]

\* The last document the shadow knows of, and whether the file is another by now.
Told(c) == log[c][Len(log[c])]
Unheard(c) == file[c] # Told(c)

Message(t, role) == [turn |-> t, role |-> role]
Has(doc, m) == \E i \in 1..Len(doc.msgs) : doc.msgs[i] = m
WithMessage(doc, m) == [doc EXCEPT !.msgs = Append(@, m)]

UserAdded(doc, t, title) ==
  WithMessage([exists |-> TRUE, msgs |-> doc.msgs,
               title |-> IF doc.exists THEN doc.title ELSE title],
              Message(t, "user"))

\* The newest checkpoint no turn has claimed becomes a message of turn t.
Newest(doc, k) == /\ doc.msgs[k].role = "summary"
                  /\ \A j \in k + 1..Len(doc.msgs) : doc.msgs[j].role # "summary"
Stamped(doc, k, t) ==
  [doc EXCEPT !.msgs = [@ EXCEPT ![k] = Message(t, "assistant")]]

\* Everything before the first message of turn t.
CutAt(doc, t) ==
  LET before == {i \in 0..Len(doc.msgs) :
                   \A j \in 1..i : doc.msgs[j].turn # t}
  IN  [doc EXCEPT !.msgs = SubSeq(@, 1, CHOOSE i \in before :
                                          \A k \in before : k <= i)]

-----------------------------------------------------------------------------
(* Operations.  `at` is the version of the file the operation leads to; a  *)
(* torn one does so from a document the shadow was not told of.            *)

NoOp == [kind |-> "none", turn |-> 0, title |-> 0, count |-> 0,
         doc |-> NoDoc, at |-> 0, torn |-> FALSE]
Whole == {"repair", "delete"}      \* these replace the remote document

Tears(op) == op.torn /\ op.kind \notin Whole

\* Would the gateway take the operation, given the document it has?
Accepts(doc, op) ==
  CASE op.kind = "user" ->
         Has(doc, Message(op.turn, "user")) \/ Len(doc.msgs) = op.count
    [] op.kind = "assistant" -> doc.exists
    [] op.kind = "truncate" ->
         \E i \in 1..Len(doc.msgs) : doc.msgs[i].turn = op.turn
    [] op.kind = "rename" -> doc.exists
    [] OTHER -> TRUE

\* The document it has afterwards; a PUT of a message it has is a rewrite.
Applied(doc, op) ==
  CASE op.kind = "user" ->
         IF Has(doc, Message(op.turn, "user")) THEN doc
         ELSE UserAdded(doc, op.turn, op.title)
    [] op.kind = "assistant" ->
         IF Has(doc, Message(op.turn, "assistant")) THEN doc
         ELSE WithMessage(doc, Message(op.turn, "assistant"))
    [] op.kind = "truncate" -> CutAt(doc, op.turn)
    [] op.kind = "rename" -> [doc EXCEPT !.title = op.title]
    [] OTHER -> op.doc

-----------------------------------------------------------------------------
(* Lanes.                                                                  *)

IdleLane == [pending |-> <<>>, repair |-> FALSE, draining |-> FALSE]
Waiting(l) == l.repair \/ l.pending # <<>>

\* Mutant of Collapsed: the operations the repair stands for stay queued.
CollapsedKeeping(l) == [l EXCEPT !.repair = TRUE]

Collapsed(l) == [l EXCEPT !.pending = <<>>, !.repair = TRUE]

IsDirty(d, c) == \E i \in 1..Len(d) : d[i] = c

\* The one mark c has in the set goes, and the order of the others stays.
Cleaned(d, c) ==
  IF IsDirty(d, c)
    THEN LET i == CHOOSE i \in 1..Len(d) : d[i] = c
         IN  [k \in 1..Len(d) - 1 |-> IF k < i THEN d[k] ELSE d[k + 1]]
    ELSE d

\* Mutant of MarkDirty: a failure leaves no mark.
Unmarked(d, c) == d

\* At the cap the oldest mark makes room.
MarkDirty(d, c) ==
  IF IsDirty(d, c) THEN d
  ELSE Append(IF Len(d) >= MAX_DIRTY_CONVERSATIONS THEN Tail(d) ELSE d, c)

\* enqueue, up to its call of drain.
Enqueued(l, op, isDirty) ==
  IF op.kind = "delete" THEN [l EXCEPT !.pending = <<op>>, !.repair = FALSE]
  ELSE IF l.repair THEN l
  ELSE IF op.kind = "repair" \/ isDirty
            \/ Len(l.pending) >= MAX_PENDING_OPERATIONS THEN Collapsed(l)
  ELSE [l EXCEPT !.pending = Append(@, op)]

\* Mutant of Settled: operations queued over a gap are sent as they are.
SettledAnyway(l, isDirty) == l

\* A dirty lane never sends a delta, only a repair or a delete.
Settled(l, isDirty) ==
  IF isDirty /\ ~ l.repair /\ (l.pending = <<>> \/ l.pending[1].kind # "delete")
    THEN Collapsed(l) ELSE l

\* resolveRepairSend: the file as it is now, or its absence.
RepairSend(doc, at) ==
  [NoOp EXCEPT !.kind = IF doc.exists THEN "repair" ELSE "delete",
               !.doc = doc, !.at = at]

\* One turn of the loop of run(): take the next operation and send it, or
\* leave the loop with nothing on the wire.
Advance(c, l, isDirty, doc, at) ==
  IF ~ Waiting(l)
    THEN /\ lane' = [lane EXCEPT ![c] = l]
         /\ sending' = [sending EXCEPT ![c] = NoOp]
    ELSE LET s == Settled(l, isDirty) IN
         /\ lane' = [lane EXCEPT ![c] =
                       IF s.repair THEN [s EXCEPT !.repair = FALSE]
                                   ELSE [s EXCEPT !.pending = Tail(@)]]
         /\ sending' = [sending EXCEPT ![c] =
                       IF s.repair THEN RepairSend(doc, at) ELSE s.pending[1]]

\* drain
Drain(c, l, doc, at) ==
  IF l.draining
    THEN lane' = [lane EXCEPT ![c] = l] /\ UNCHANGED sending
    ELSE Advance(c, [l EXCEPT !.draining = TRUE], IsDirty(dirty, c), doc, at)

Init ==
  /\ log = [c \in Conversations |-> <<NoDoc>>]
  /\ shown = [c \in Conversations |-> 1]
  /\ lost = {}
  /\ file = [c \in Conversations |-> NoDoc]
  /\ remote = [c \in Conversations |-> NoDoc]
  /\ lane = [c \in Conversations |-> IdleLane]
  /\ sending = [c \in Conversations |-> NoOp]
  /\ dirty = <<>>
  /\ late = {}
  /\ process = "up"
  /\ mutations = 0
  /\ failures = 0
  /\ exits = 0

-----------------------------------------------------------------------------
(* Mutations of the file.                                                  *)

Fresh == mutations + 1

\* `more`: the write changes more than its operation carries.
Mutate(c, doc, op, more) ==
  /\ mutations < MaxMutations
  /\ mutations' = Fresh
  /\ file' = [file EXCEPT ![c] = doc]
  /\ log' = [log EXCEPT ![c] = Append(@, doc)]
  /\ LET at == Len(log[c]) + 1
         o  == [op EXCEPT !.doc = doc, !.at = at, !.torn = more \/ Unheard(c)]
     IN  Drain(c, Enqueued(lane[c], o, IsDirty(dirty, c)), doc, at)
  /\ UNCHANGED <<shown, lost, remote, dirty, late, process, failures, exits>>

AppendUserMessage(c) ==
  LET doc == UserAdded(file[c], Fresh, Fresh) IN
  Mutate(c, doc, [NoOp EXCEPT !.kind = "user", !.turn = Fresh,
                              !.title = doc.title,
                              !.count = Len(file[c].msgs)], FALSE)

\* Message i records the turn at work: the last one, which no reply followed.
\* A turn is answered once.
Records(c, i) ==
  /\ file[c].msgs[i].role = "user"
  /\ \A j \in i + 1..Len(file[c].msgs) : file[c].msgs[j].role = "summary"
  /\ \A v \in 1..Len(log[c]) :
       ~ Has(log[c][v], Message(file[c].msgs[i].turn, "assistant"))
AtWork(c) == \E i \in 1..Len(file[c].msgs) : Records(c, i)
TurnAtWork(c) ==
  file[c].msgs[CHOOSE i \in 1..Len(file[c].msgs) : Records(c, i)].turn
Reply(c) == Message(TurnAtWork(c), "assistant")

\* The reply of a turn that compacted stamps the newest checkpoint and is sent
\* alone; an empty one is not written at all, and the stamped checkpoint is
\* sent in its stead.
AppendAssistantMessage(c) ==
  LET put == [NoOp EXCEPT !.kind = "assistant", !.turn = TurnAtWork(c)] IN
  /\ AtWork(c)
  /\ \/ Mutate(c, WithMessage(file[c], Reply(c)), put, FALSE)
     \/ \E k \in 1..Len(file[c].msgs) :
          /\ Newest(file[c], k)
          /\ LET stamped == Stamped(file[c], k, TurnAtWork(c)) IN
             \E doc \in {stamped, WithMessage(stamped, Reply(c))} :
               Mutate(c, doc, put, TRUE)

\* A turn compacts: the checkpoint goes into the file, and nobody is told.
SaveCompaction(c) ==
  /\ AtWork(c)
  /\ mutations < MaxMutations
  /\ mutations' = Fresh
  /\ file' = [file EXCEPT ![c] = WithMessage(@, Message(0, "summary"))]
  /\ UNCHANGED <<log, shown, lost, remote, lane, sending, dirty, late, process,
                 failures, exits>>

\* A message of no turn, such as the mark of a Stop, is mirrored by a repair.
MarkConversationStopped(c) ==
  /\ file[c].exists
  /\ Mutate(c, WithMessage(file[c], Message(0, "assistant")),
            [NoOp EXCEPT !.kind = "repair"], FALSE)

RenameConversation(c) ==
  /\ file[c].exists
  /\ Mutate(c, [file[c] EXCEPT !.title = Fresh],
            [NoOp EXCEPT !.kind = "rename", !.title = Fresh], FALSE)

TruncateConversation(c) ==
  \E i \in 1..Len(file[c].msgs) :
    /\ file[c].msgs[i].role = "user"
    /\ Mutate(c, CutAt(file[c], file[c].msgs[i].turn),
              [NoOp EXCEPT !.kind = "truncate", !.turn = file[c].msgs[i].turn],
              FALSE)

DeleteConversation(c) ==
  /\ file[c].exists
  /\ Mutate(c, NoDoc, [NoOp EXCEPT !.kind = "delete"], FALSE)

-----------------------------------------------------------------------------
(* The end of a send: the rest of the loop's body, and the next one.       *)

\* Does the loop send a repair next?  Its snapshot makes the file known.
Reads(l, isDirty) == Waiting(l) /\ Settled(l, isDirty).repair
Known(c, reads) == IF reads /\ Unheard(c) THEN Append(log[c], file[c]) ELSE log[c]

\* What the loop does next, with `d` the dirty set now.
Proceed(c, d) ==
  LET known == Known(c, Reads(lane[c], IsDirty(d, c))) IN
  /\ log' = [log EXCEPT ![c] = known]
  /\ Advance(c, lane[c], IsDirty(d, c), file[c], Len(known))

Continue(c, d) ==
  /\ dirty' = d
  /\ Proceed(c, d)
  /\ UNCHANGED <<file, process, mutations, exits>>

\* Is the copy that takes op a version of the file afterwards?
Vouched(c, op) == op.kind \in Whole \/ (c \notin lost /\ ~ Tears(op))

\* The remote takes op, and its history with it.
Takes(c, op) ==
  /\ remote' = [remote EXCEPT ![c] = Applied(@, op)]
  /\ shown' = IF Vouched(c, op) THEN [shown EXCEPT ![c] = op.at] ELSE shown

\* The lost conversations when c's copy has taken op.
Torn(c, op) == IF Tears(op) THEN lost \cup {c} ELSE lost

SendSucceeds(c) ==
  /\ sending[c].kind # "none"
  /\ Accepts(remote[c], sending[c])
  /\ Takes(c, sending[c])
  /\ lost' = IF sending[c].kind \in Whole THEN lost \ {c} ELSE Torn(c, sending[c])
  /\ Continue(c, IF sending[c].kind \in Whole THEN Cleaned(dirty, c) ELSE dirty)
  /\ UNCHANGED <<late, failures>>

\* The conversations whose mark the cap evicts when c is marked.
Evicted(c) == {x \in Conversations : /\ IsDirty(dirty, x)
                                     /\ ~ IsDirty(MarkDirty(dirty, c), x)}
Fails(c, gaps) ==
  /\ sending[c].kind # "none"
  /\ lost' = gaps \cup Evicted(c)
  /\ Continue(c, MarkDirty(dirty, c))

SendRefused(c) ==
  /\ ~ Accepts(remote[c], sending[c])
  /\ Fails(c, lost)
  /\ UNCHANGED <<shown, remote, late, failures>>

Failure == failures < MaxFailures /\ failures' = failures + 1

SendLost(c) ==
  /\ Failure
  /\ Fails(c, lost)
  /\ UNCHANGED <<shown, remote, late>>

\* Taken, but the answer never came: the loop sees a failure.
AnswerLost(c) ==
  /\ Failure
  /\ Accepts(remote[c], sending[c])
  /\ Takes(c, sending[c])
  /\ Fails(c, Torn(c, sending[c]))
  /\ UNCHANGED late

\* The 5 s are over, and the host goes on with the request all the same.
SendTimesOut(c) ==
  /\ Failure
  /\ Fails(c, lost)
  /\ late' = late \cup {<<c, sending[c]>>}
  /\ UNCHANGED <<shown, remote>>

\* One that is torn, or lands behind newer ones, spoils the copy, and nobody
\* knows.
LateSendLands ==
  \E given \in late :
    LET c == given[1]  op == given[2] IN
    /\ late' = late \ {given}
    /\ remote' = [remote EXCEPT ![c] = IF Accepts(@, op) THEN Applied(@, op) ELSE @]
    /\ IF c \notin lost /\ op.at > shown[c] /\ ~ Tears(op)
         THEN shown' = [shown EXCEPT ![c] = op.at] /\ UNCHANGED lost
         ELSE /\ lost' = IF remote' = remote THEN lost ELSE lost \cup {c}
              /\ UNCHANGED shown
    /\ UNCHANGED <<log, file, lane, sending, dirty, process, mutations, failures,
                   exits>>

\* Mutant of LoopEnds: the lane is dropped with what it still holds.
LoopEndsForGood(c) ==
  /\ lane[c].draining
  /\ sending[c].kind = "none"
  /\ lane' = [lane EXCEPT ![c].draining = FALSE]
  /\ UNCHANGED <<log, shown, lost, file, remote, sending, dirty, late, process,
                 mutations, failures, exits>>

\* The finally of drain: what was enqueued since the loop ended starts it anew.
LoopEnds(c) ==
  /\ lane[c].draining
  /\ sending[c].kind = "none"
  /\ IF Waiting(lane[c])
       THEN Proceed(c, dirty)
       ELSE lane' = [lane EXCEPT ![c] = IdleLane] /\ UNCHANGED <<log, sending>>
  /\ UNCHANGED <<shown, lost, file, remote, dirty, late, process, mutations,
                 failures, exits>>

-----------------------------------------------------------------------------
(* The end of the process.                                                 *)

\* drainForShutdown, called when the signal arrives: idle dirty lanes repair.
Shutdown ==
  /\ process = "up"
  /\ exits < MaxExits
  /\ process' = "stopping"
  /\ LET again == {c \in Conversations : /\ IsDirty(dirty, c)
                                         /\ ~ Waiting(lane[c])
                                         /\ ~ lane[c].draining}
     IN  /\ log' = [c \in Conversations |-> Known(c, c \in again)]
         /\ lane' = [c \in Conversations |->
                       IF c \in again THEN [lane[c] EXCEPT !.draining = TRUE]
                       ELSE lane[c]]
         /\ sending' = [c \in Conversations |->
                       IF c \in again THEN RepairSend(file[c], Len(log'[c]))
                       ELSE sending[c]]
  /\ UNCHANGED <<shown, lost, file, remote, dirty, late, mutations, failures,
                 exits>>

\* Its wait is over: no lane is left draining, or two seconds have passed.
DrainedForShutdown ==
  /\ process = "stopping"
  /\ process' \in IF \A c \in Conversations : ~ lane[c].draining
                    THEN {"flushed", "cut"} ELSE {"cut"}
  /\ UNCHANGED <<log, shown, lost, file, remote, lane, sending, dirty, late,
                 mutations, failures, exits>>

\* The process is gone and another one starts.  A send cut off may have been
\* taken; what the remote does not show is forgotten.  The boot answers the
\* turns it finds interrupted, and the shadow is not told.
Gone(taken, settled) ==
  /\ exits' = exits + 1
  /\ remote' = [c \in Conversations |->
                  IF c \in taken THEN Applied(remote[c], sending[c]) ELSE remote[c]]
  /\ shown' = [c \in Conversations |->
                  IF c \in taken /\ Vouched(c, sending[c])
                    THEN sending[c].at ELSE shown[c]]
  /\ lost' = {c \in Conversations :
                \/ shown'[c] # Len(log[c])
                \/ c \in lost /\ ~ (c \in taken /\ sending[c].kind \in Whole)
                \/ c \in taken /\ Tears(sending[c])}
  /\ file' = [c \in Conversations |->
                IF c \in settled THEN WithMessage(file[c], Reply(c)) ELSE file[c]]
  /\ lane' = [c \in Conversations |-> IdleLane]
  /\ sending' = [c \in Conversations |-> NoOp]
  /\ dirty' = <<>>
  /\ process' = "up"
  /\ UNCHANGED <<log, late, mutations, failures>>

\* The sends on the wire that reach the remote, when the process is gone.
Reaching == {c \in Conversations : /\ sending[c].kind # "none"
                                   /\ Accepts(remote[c], sending[c])}

\* The conversations whose turn at work the boot may find interrupted.
Interrupted == {c \in Conversations : AtWork(c)}

\* exitNow, when the turns have been drained too.
Exit ==
  /\ process \in {"flushed", "cut"}
  /\ \E taken \in SUBSET Reaching, settled \in SUBSET Interrupted :
       Gone(taken, settled)

Crash ==
  /\ exits < MaxExits
  /\ \E taken \in SUBSET Reaching, settled \in SUBSET Interrupted :
       Gone(taken, settled)

-----------------------------------------------------------------------------
Write(c) ==
  \/ AppendUserMessage(c)
  \/ AppendAssistantMessage(c)
  \/ SaveCompaction(c)
  \/ MarkConversationStopped(c)
  \/ RenameConversation(c)
  \/ TruncateConversation(c)
  \/ DeleteConversation(c)

LoopStep(c) == SendSucceeds(c) \/ SendRefused(c) \/ LoopEnds(c)

Next ==
  \/ \E c \in Conversations : Write(c) \/ LoopStep(c)
  \/ \E c \in Conversations : SendLost(c) \/ AnswerLost(c) \/ SendTimesOut(c)
  \/ LateSendLands
  \/ Shutdown
  \/ DrainedForShutdown
  \/ Exit
  \/ Crash

Spec == Init /\ [][Next]_vars

\* A send ends within 5 s, and the loop goes on by itself.
FairSpec == Spec /\ \A c \in Conversations : WF_vars(LoopStep(c))

-----------------------------------------------------------------------------
(* Properties.                                                             *)

Kinds == {"none", "user", "assistant", "truncate", "rename", "delete", "repair"}

TypeOK ==
  /\ \A c \in Conversations :
       /\ shown[c] \in 1..Len(log[c])
       /\ Len(lane[c].pending) <= MAX_PENDING_OPERATIONS
       /\ lane[c].repair \in BOOLEAN /\ lane[c].draining \in BOOLEAN
       /\ sending[c].kind \in Kinds
       /\ sending[c].kind # "none" => lane[c].draining
  /\ lost \subseteq Conversations
  /\ Len(dirty) <= MAX_DIRTY_CONVERSATIONS
  /\ process \in {"up", "stopping", "flushed", "cut"}

\* A conversation with nothing queued, nothing on the wire and no dirty mark
\* has the remote copy the shadow owes it, whatever was lost, refused or
\* collapsed on the way: the last document it was told of, which is the file
\* but for what has since been written behind its back, unless there is a gap
\* the process forgot or cannot know of.
QuietMeansCurrent ==
  \A c \in Conversations :
    (~ lane[c].draining /\ ~ IsDirty(dirty, c) /\ c \notin lost)
      => remote[c] = Told(c)

\* No message is sent to a remote document that holds it already: an
\* operation of unknown outcome is never retried as it was, and one that a
\* repair stands for is never sent after it (transcript-shadow-repair.ts).
NothingIsReplayed ==
  \A c \in Conversations :
    sending[c].kind \in {"user", "assistant"} =>
      ~ Has(remote[c], Message(sending[c].turn, sending[c].kind))

\* The remote copy is always a document of the file that the shadow was told
\* of or has read and never an older one again, except while the gap of the
\* conversation is unknown to the process.
Mirror == INSTANCE TranscriptMirror
ImplementsTranscriptMirror == Mirror!Spec

\* When the mutations and the failures are over, each remote copy becomes
\* exact, but for one whose last send failed, one with a gap nobody knows of,
\* and one whose file was written to behind the shadow's back at the last.
EventuallyMirrored ==
  <>[](\A c \in Conversations :
         remote[c] = file[c] \/ Unheard(c) \/ IsDirty(dirty, c) \/ c \in lost)

\* A send that was given up after its 5 s has no effect any more on a remote
\* document that includes it: no operation is replayed on top of a snapshot
\* taken after it (transcript-shadow-repair.ts).
NoOpReplayedOverSnapshot ==
  [][\A given \in late \ late' :
       given[2].at <= shown[given[1]] => remote'[given[1]] = remote[given[1]]]_vars

\* A process that ends by its own drain, before the two seconds are over and
\* with a gateway that failed no send, leaves no remote copy behind its file.
ShutdownLeavesNothingBehind ==
  [][(process = "flushed" /\ exits' # exits /\ failures = 0)
       => lost' \subseteq lost]_vars
=============================================================================
