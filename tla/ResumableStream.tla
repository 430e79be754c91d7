---------------------------- MODULE ResumableStream ---------------------------
(***************************************************************************)
(* One conversation stream of the runtime, end to end: the per-process bus *)
(* that sequences and buffers frames (packages/runtime/src/session/bus.ts),*)
(* the connection that stitches replay, sync and live frames together      *)
(* (packages/runtime-client/src/stitch.ts) and the client that reconnects  *)
(* with its last seq (packages/runtime-client/src/resume.ts).              *)
(*                                                                         *)
(* The server runs on one JavaScript thread: what happens between two      *)
(* awaits is one action, and frames may be published at every await.       *)
(* `generation` and `history` are auxiliary: the first counts the channels *)
(* the conversation has had, the second records every frame of the current *)
(* one and the snapshot it led to; so are the generations a connection and *)
(* a client carry.  A payload is identified by generation and seq.         *)
(***************************************************************************)
EXTENDS StreamChannel, FiniteSets

CONSTANTS
  Turns,       \* turn ids
  EventTypes,  \* the frame types published
  MaxFrames,   \* bound: frames per generation
  MaxDrops,    \* bound: connections that break
  MaxResets    \* bound: channels lost to an eviction or a restart

ASSUME EventTypesAssumption == EventTypes \subseteq FrameTypes
ASSUME BoundsAssumption ==
  MaxFrames \in Nat /\ MaxDrops \in Nat /\ MaxResets \in Nat

VARIABLES
  channel,     \* the conversation's StreamChannel, Null until a frame needs it
  generation,
  history,
  conn,        \* the server side of the connection (serveResumableStream)
  wire,        \* what the server sent and the client has not read
  client,      \* the client's cursor and its picture of the conversation
  drops

vars == <<channel, generation, history, conn, wire, client, drops>>

-----------------------------------------------------------------------------
(* What travels on a connection.                                           *)

FrameItem(frame) == [sync |-> FALSE, frame |-> frame]
SyncItem(snap, resync, gen) ==
  [sync |-> TRUE, snap |-> snap, resync |-> resync, gen |-> gen]

FrameItems(frames) == [k \in 1 .. Len(frames) |-> FrameItem(frames[k])]

Closed ==
  [phase |-> "closed", cursor |-> Null, replay |-> Null, snap |-> Null,
   buffered |-> <<>>, cursorGen |-> 0, readGen |-> 0, liveGen |-> 0]

Reading == {"replayed", "snapped"}   \* phases in which live frames are held back

-----------------------------------------------------------------------------
(* The bus.                                                                *)

BusSnapshot == IF channel = Null THEN EmptySnapshot ELSE channel.snap

BusReplayAfter(after) ==
  IF channel # Null THEN ReplayAfter(channel.log, after)
  ELSE IF after = 0 THEN <<>> ELSE Null

Init ==
  /\ channel = Null
  /\ generation = 0
  /\ history = <<>>
  /\ conn = Closed
  /\ wire = <<>>
  /\ client = [watching |-> TRUE, after |-> Null, view |-> Null, gen |-> 0]
  /\ drops = 0

\* Mutants of Fanout: the connection subscribes only after its reads; the seq
\* gate of the flush goes on gating live frames.
FanoutToLateSubscriber(frame) ==
  /\ conn' = conn
  /\ wire' = IF conn.phase = "live" THEN Append(wire, FrameItem(frame)) ELSE wire

FanoutGatedBySeq(frame) ==
  /\ conn' = IF conn.phase \in Reading
               THEN [conn EXCEPT !.buffered = Append(@, frame)]
               ELSE conn
  /\ wire' = IF conn.phase = "live" /\ client.after # Null /\ frame.seq > client.after
               THEN Append(wire, FrameItem(frame)) ELSE wire

\* Deliver a frame to the subscriber: hold it back while the connection is
\* still reading, send it once the connection is live.
Fanout(frame) ==
  /\ conn' = IF conn.phase \in Reading
               THEN [conn EXCEPT !.buffered = Append(@, frame)]
               ELSE conn
  /\ wire' = IF conn.phase = "live" THEN Append(wire, FrameItem(frame)) ELSE wire

\* publish: the channel is created by the first frame; append, reduce, fan
\* out, and drop the window if the frame was terminal.
Publish(type, turn) ==
  LET before == IF channel = Null THEN NewChannel(EmptySnapshot) ELSE channel
      event  == [type |-> type, turn |-> turn,
                 data |-> <<generation, before.log.watermark + 1>>]
      frame  == Stamped(before.log, event)
      after  == Sequenced(before, event)
  IN  /\ Len(history) < MaxFrames
      /\ channel' = SettledChannel(after, frame)
      /\ history' = Append(history, [terminal |-> IsTerminal(frame),
                                     snap     |-> after.snap])
      /\ Fanout(frame)
      /\ UNCHANGED <<generation, client, drops>>

\* evict: a deleted or rewound conversation loses its whole channel, counter
\* included; subscribers stay.
Evict ==
  /\ channel # Null
  /\ generation < MaxResets
  /\ channel' = Null
  /\ generation' = generation + 1
  /\ history' = <<>>
  /\ UNCHANGED <<conn, wire, client, drops>>

\* The process dies and is started again: channels and connections are gone.
Restart ==
  /\ generation < MaxResets
  /\ channel' = Null
  /\ generation' = generation + 1
  /\ history' = <<>>
  /\ conn' = Closed
  /\ wire' = <<>>
  /\ UNCHANGED <<client, drops>>

-----------------------------------------------------------------------------
(* The connection.                                                         *)

\* A request arrives: subscribe, then read - a cursor is judged at once, and
\* with no cursor the snapshot is read at once; both results are awaited.
Connect ==
  /\ client.watching
  /\ conn.phase = "closed"
  /\ conn' =
       IF client.after = Null
         THEN [Closed EXCEPT !.phase = "snapped", !.snap = BusSnapshot,
                             !.readGen = generation]
         ELSE [Closed EXCEPT !.phase = "replayed", !.cursor = client.after,
                             !.replay = BusReplayAfter(client.after),
                             !.cursorGen = client.gen, !.readGen = generation]
  /\ UNCHANGED <<channel, generation, history, wire, client, drops>>

\* A cursor that cannot be served: read the snapshot instead, and await it.
ReadSnapshot ==
  /\ conn.phase = "replayed"
  /\ conn.replay = Null
  /\ conn' = [conn EXCEPT !.phase = "snapped", !.snap = BusSnapshot,
                          !.readGen = generation]
  /\ UNCHANGED <<channel, generation, history, wire, client, drops>>

\* The elements of s at the indices in K, in order.
InOrder(s, K) ==
  LET index == CHOOSE f \in [1 .. Cardinality(K) -> K] :
                 \A i, j \in 1 .. Cardinality(K) : i < j => f[i] < f[j]
  IN  [i \in 1 .. Cardinality(K) |-> s[index[i]]]

\* Mutant of Unseen: off by one at the watermark.
UnseenOffByOne(buffered, watermark) ==
  InOrder(buffered, {k \in 1 .. Len(buffered) : buffered[k].seq > watermark + 1})

\* The flush of the frames held back: a frame goes out if its seq is above the
\* watermark, which then moves to that seq.
Unseen(buffered, watermark) ==
  InOrder(buffered,
          {k \in 1 .. Len(buffered) :
             /\ buffered[k].seq > watermark
             /\ \A j \in 1 .. k - 1 : buffered[j].seq < buffered[k].seq})

WatermarkOf(replay, cursor) ==
  IF replay = <<>> THEN cursor ELSE replay[Len(replay)].seq

\* The replay was awaited: send it, flush, and go live, without a pause.
FinishReplay ==
  /\ conn.phase = "replayed"
  /\ conn.replay # Null
  /\ wire' = wire \o FrameItems(conn.replay)
                  \o FrameItems(Unseen(conn.buffered,
                                       WatermarkOf(conn.replay, conn.cursor)))
  /\ conn' = [conn EXCEPT !.phase = "live", !.replay = Null, !.buffered = <<>>,
                          !.liveGen = generation]
  /\ UNCHANGED <<channel, generation, history, client, drops>>

\* The snapshot was awaited: send it as a sync, flush, and go live.
FinishSync ==
  /\ conn.phase = "snapped"
  /\ wire' = Append(wire, SyncItem(conn.snap, conn.cursor # Null, conn.readGen))
               \o FrameItems(Unseen(conn.buffered, conn.snap.seq))
  /\ conn' = [conn EXCEPT !.phase = "live", !.snap = Null, !.buffered = <<>>,
                          !.liveGen = generation]
  /\ UNCHANGED <<channel, generation, history, client, drops>>

\* The connection ends - network error, server close, idle watchdog - and
\* what was in flight is lost.
Drop ==
  /\ conn.phase # "closed"
  /\ drops < MaxDrops
  /\ drops' = drops + 1
  /\ conn' = Closed
  /\ wire' = <<>>
  /\ UNCHANGED <<channel, generation, history, client>>

-----------------------------------------------------------------------------
(* The client.                                                             *)

\* onEvent: remember the seq, hand the frame on.  The reader's picture is the
\* snapshot a sync carries, and after that the fold of the frames.
Receive ==
  /\ wire # <<>>
  /\ wire' = Tail(wire)
  /\ LET item == Head(wire) IN
     client' =
       IF item.sync
         THEN [client EXCEPT !.after = item.snap.seq, !.view = item.snap,
                             !.gen = item.gen]
         ELSE [client EXCEPT !.after = item.frame.seq,
                             !.view = ReduceSnapshot(@, item.frame),
                             !.gen = item.frame.data[1]]
  /\ UNCHANGED <<channel, generation, history, conn, drops>>

\* The caller aborts, or the server answers with a status that no retry can
\* change (401, 403, 404, 410): the subscription ends for good.
Unsubscribe ==
  /\ client.watching
  /\ client' = [client EXCEPT !.watching = FALSE]
  /\ conn' = Closed
  /\ wire' = <<>>
  /\ UNCHANGED <<channel, generation, history, drops>>

-----------------------------------------------------------------------------
Next ==
  \/ \E type \in EventTypes, turn \in Turns : Publish(type, turn)
  \/ Evict
  \/ Restart
  \/ Connect
  \/ ReadSnapshot
  \/ FinishReplay
  \/ FinishSync
  \/ Drop
  \/ Receive
  \/ Unsubscribe

Spec == Init /\ [][Next]_vars

\* Awaited reads settle, a client that is still watching reconnects after its
\* backoff, and what arrives is handled.  Nothing else is promised.
Fairness ==
  /\ WF_vars(Connect)
  /\ WF_vars(ReadSnapshot)
  /\ WF_vars(FinishReplay)
  /\ WF_vars(FinishSync)
  /\ WF_vars(Receive)

FairSpec == Spec /\ Fairness

-----------------------------------------------------------------------------
(* Properties.                                                             *)

FrameData == (0 .. MaxResets) \X Nat
Frame == [seq : Nat, type : FrameTypes, turn : Turns, data : FrameData]
SnapshotType ==
  [running : BOOLEAN, partial : Seq(FrameData), seq : Nat,
   turn : Turns \cup {Null}]
ChannelType ==
  [log : [watermark : Nat, buffer : RingType(Frame)], snap : SnapshotType]
ItemType ==
  [sync : {FALSE}, frame : Frame]
    \cup [sync : {TRUE}, snap : SnapshotType, resync : BOOLEAN,
          gen : 0 .. MaxResets]

\* undefined is no value of the program's types.
ASSUME NullAssumption ==
  /\ Null \notin Nat
  /\ Null \notin Frame
  /\ Null \notin Seq(Frame)
  /\ Null \notin ChannelType

\* Every variable of the stream holds what its code counterpart can hold.
TypeOK ==
  /\ channel \in ChannelType \cup {Null}
  /\ generation \in 0 .. MaxResets
  /\ history \in Seq([terminal : BOOLEAN, snap : SnapshotType])
  /\ conn \in [phase : {"closed", "replayed", "snapped", "live"},
               cursor : Nat \cup {Null}, replay : Seq(Frame) \cup {Null},
               snap : SnapshotType \cup {Null}, buffered : Seq(Frame),
               cursorGen : 0 .. MaxResets, readGen : 0 .. MaxResets,
               liveGen : 0 .. MaxResets]
  /\ wire \in Seq(ItemType)
  /\ client \in [watching : BOOLEAN, after : Nat \cup {Null},
                 view : SnapshotType \cup {Null}, gen : 0 .. MaxResets]
  /\ drops \in 0 .. MaxDrops

\* The replay log of a stream (replay.ts): the frames buffered are the last
\* ones published, with no hole among them, and the snapshot carries the
\* watermark a cursor is judged by.
WindowIsSuffix ==
  channel # Null =>
    LET log == channel.log IN
    /\ channel.snap.seq = log.watermark
    /\ \A i \in 0 .. log.buffer.length - 1 :
         At(log.buffer, i).seq = log.watermark - log.buffer.length + 1 + i

\* The binary search of replay.ts:81-91 finds, in every window a stream can
\* have and for every cursor inside it, the first frame behind the cursor.
SearchIsExact ==
  channel # Null =>
    \A after \in 0 .. channel.log.watermark :
      BinarySearch(channel.log, after) = FirstIndexAfter(channel.log, after)

\* What resume.ts:18-20 and stitch.ts:13-15 promise, "no gap, no duplicate":
\* whatever was dropped, replayed, held back and flushed, a client that stands
\* at seq n of the channel holds exactly the state the server had when it
\* published n - no delta missing, none twice, none in another order.
ServerStateAt(n) == IF n = 0 THEN EmptySnapshot ELSE history[n].snap

ViewIsServerState ==
  client.after # Null /\ client.gen = generation =>
    /\ client.after <= Len(history)
    /\ client.view = ServerStateAt(client.after)

\* The whole contract of wire.ts:252-258 as a refinement: frames inside the
\* window arrive one by one, and a resync happens only when the turn ended or
\* the window overflowed behind the cursor.
Abstract == INSTANCE ReliableStream WITH
  Window <- Capacity, Idle <- EmptySnapshot,
  position <- client.after, view <- client.view

ImplementsReliableStream == Abstract!Spec

\* resume.ts:17-20: the stream is kept alive until the caller aborts.  A client
\* that goes on watching ends up at the watermark, however often its
\* connections broke.
EventuallyCurrent ==
  <>[](client.watching =>
         /\ client.after = BusSnapshot.seq
         /\ client.view = BusSnapshot)

\* stitch.ts:19-24 and bus.ts:120: a connection that was live when the counter
\* was reset is not starved by it - it gets the frames of the next channel, and
\* if it stays up its client ends at that channel's watermark.
LiveSubscriberOutlivesReset ==
  <>[](conn.phase = "live" /\ conn.liveGen < generation /\ channel # Null =>
         client.after = channel.snap.seq)

\* bus.ts:116-120, truncate-turn.ts:47-49, replay.ts:66: a cursor handed out
\* by a channel that an eviction or a restart has discarded "resyncs", if the
\* client has seen any frame of it.
StaleCursorResyncs ==
  conn.phase = "replayed" /\ conn.cursorGen # conn.readGen /\ conn.cursor > 0
    => conn.replay = Null
=============================================================================
