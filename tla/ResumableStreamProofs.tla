------------------------ MODULE ResumableStreamProofs -------------------------
(***************************************************************************)
(* Proofs about the conversation stream, for every capacity of the ring    *)
(* and any number of frames, turns and broken connections: the window is   *)
(* the suffix of what was published, and a reader sees neither gap nor     *)
(* duplicate - the stream implements ReliableStream.                       *)
(***************************************************************************)
EXTENDS ResumableStream, FiniteSetTheorems, SequenceTheorems,
        WellFoundedInduction, TLAPS

-----------------------------------------------------------------------------
(* The ring.                                                               *)

\* The slot i places behind the head, without the modulus.
SlotAt(head, i) == IF head + i < Capacity THEN head + i ELSE head + i - Capacity

\* An index of the backing array wraps once at most.
LEMMA Wraps ==
  ASSUME NEW head \in Slots, NEW i \in 0 .. Capacity
  PROVE  (head + i) % Capacity = SlotAt(head, i)
<1>1. \A q \in Int, r \in Slots, x \in Int : x = Capacity * q + r => x % Capacity = r
  BY CapacityAssumption DEF Slots
<1> QED BY <1>1, CapacityAssumption DEF Slots, SlotAt

\* The slots of a ring's elements differ.
LEMMA SlotsDiffer ==
  ASSUME NEW head \in Slots, NEW i \in 0 .. Capacity - 1
  PROVE  /\ SlotAt(head, i) \in Slots
         /\ \A j \in 0 .. Capacity - 1 : SlotAt(head, j) = SlotAt(head, i) => j = i
BY CapacityAssumption DEF Slots, SlotAt

\* What at() and push() compute, in these terms.
LEMMA AtSlot ==
  ASSUME NEW Values, NEW ring \in RingType(Values), NEW i \in 0 .. ring.length - 1
  PROVE  At(ring, i) = ring.store[SlotAt(ring.head, i)]
<1>1. ring.head \in Slots /\ i \in 0 .. Capacity
  BY CapacityAssumption DEF RingType
<1>2. (ring.head + i) % Capacity = SlotAt(ring.head, i)
  BY <1>1, Wraps
<1> QED BY <1>2 DEF At

\* A new ring is well typed and empty.
LEMMA EmptyRingType ==
  ASSUME NEW Values
  PROVE  EmptyRing \in RingType(Values) /\ EmptyRing.length = 0
BY CapacityAssumption DEF EmptyRing, RingType, Slots

\* With room, a push keeps every element where it is and adds one behind them.
LEMMA PushGrows ==
  ASSUME NEW Values, NEW ring \in RingType(Values), NEW value \in Values,
         ring.length < Capacity
  PROVE  /\ Push(ring, value) \in RingType(Values)
         /\ Push(ring, value).length = ring.length + 1
         /\ \A i \in 0 .. ring.length - 1 : At(Push(ring, value), i) = At(ring, i)
         /\ At(Push(ring, value), ring.length) = value
<1> DEFINE slot == SlotAt(ring.head, ring.length)
           next == [store |-> [ring.store EXCEPT ![slot] = value],
                    head |-> ring.head, length |-> ring.length + 1]
<1>1. /\ ring.head \in Slots /\ ring.length \in 0 .. Capacity - 1
      /\ ring.store \in [Slots -> Values \cup {Null}]
      /\ Capacity \in Nat
  BY CapacityAssumption DEF RingType
<1>2. slot \in Slots
  BY <1>1, SlotsDiffer
<1>3. (ring.head + ring.length) % Capacity = slot
  <2>1. ring.length \in 0 .. Capacity
    BY <1>1
  <2> QED BY <1>1, <2>1, Wraps
<1>4. Push(ring, value) = next
  BY <1>3 DEF Push, RingType
<1>5. next \in RingType(Values)
  BY <1>1, <1>2 DEF RingType
<1>6. \A i \in 0 .. ring.length - 1 :
        SlotAt(ring.head, i) \in Slots \ {slot}
  BY <1>1, SlotsDiffer
<1>7. ASSUME NEW i \in 0 .. ring.length
      PROVE  At(next, i) = next.store[SlotAt(ring.head, i)]
  <2>1. i \in 0 .. next.length - 1
    BY <1>1
  <2> HIDE DEF next
  <2>2. next.head = ring.head
    BY DEF next
  <2> QED BY <1>5, <2>1, <2>2, AtSlot
<1>8. \A i \in 0 .. ring.length - 1 : At(next, i) = At(ring, i)
  <2>1. \A i \in 0 .. ring.length - 1 :
          At(next, i) = ring.store[SlotAt(ring.head, i)]
    BY <1>1, <1>6, <1>7
  <2> QED BY <2>1, AtSlot
<1>9. At(next, ring.length) = value
  BY <1>1, <1>2, <1>7
<1> HIDE DEF next
<1>10. next.length = ring.length + 1
  BY DEF next
<1> QED BY <1>4, <1>5, <1>8, <1>9, <1>10

\* A full ring loses its oldest element and the others move down by one.
LEMMA PushRolls ==
  ASSUME NEW Values, NEW ring \in RingType(Values), NEW value \in Values,
         ring.length = Capacity
  PROVE  /\ Push(ring, value) \in RingType(Values)
         /\ Push(ring, value).length = Capacity
         /\ \A i \in 0 .. Capacity - 2 : At(Push(ring, value), i) = At(ring, i + 1)
         /\ At(Push(ring, value), Capacity - 1) = value
<1> DEFINE head == SlotAt(ring.head, 1)
           next == [store |-> [ring.store EXCEPT ![ring.head] = value],
                    head |-> head, length |-> Capacity]
<1>1. /\ ring.head \in Slots /\ ring.store \in [Slots -> Values \cup {Null}]
      /\ Capacity \in Nat \ {0}
  BY CapacityAssumption DEF RingType
<1>2. head \in Slots /\ (ring.head + 1) % Capacity = head
  <2>1. 1 \in 0 .. Capacity
    BY <1>1
  <2>2. head \in Slots
    BY <1>1 DEF Slots, SlotAt
  <2> QED BY <1>1, <2>1, <2>2, Wraps
<1>3. Push(ring, value) = next
  <2>1. ~ ring.length < Capacity
    BY <1>1
  <2>2. Push(ring, value) =
          [[ring EXCEPT !.store[ring.head] = value] EXCEPT !.head = head]
    BY <1>2, <2>1 DEF Push
  <2> QED BY <2>2 DEF RingType
<1>4. next \in RingType(Values)
  BY <1>1, <1>2 DEF RingType
<1>5. \A i \in 0 .. Capacity - 2 :
        /\ SlotAt(head, i) = SlotAt(ring.head, i + 1)
        /\ SlotAt(head, i) \in Slots \ {ring.head}
  <2> SUFFICES ASSUME NEW i \in 0 .. Capacity - 2
               PROVE  /\ SlotAt(head, i) = SlotAt(ring.head, i + 1)
                      /\ SlotAt(head, i) \in Slots \ {ring.head}
    OBVIOUS
  <2>1. SlotAt(head, i) = SlotAt(ring.head, i + 1)
    <3>1. CASE ring.head + 1 < Capacity
      <4>1. head = ring.head + 1
        BY <3>1 DEF SlotAt
      <4> HIDE DEF head
      <4> QED BY <1>1, <4>1 DEF Slots, SlotAt
    <3>2. CASE ~ ring.head + 1 < Capacity
      <4>1. ring.head = Capacity - 1 /\ head = 0
        BY <1>1, <3>2 DEF Slots, SlotAt
      <4> HIDE DEF head
      <4> QED BY <1>1, <4>1 DEF Slots, SlotAt
    <3> QED BY <3>1, <3>2
  <2>2. i + 1 \in 0 .. Capacity - 1 /\ 0 \in 0 .. Capacity - 1 /\ i + 1 # 0
    BY <1>1
  <2>3. SlotAt(ring.head, 0) = ring.head
    BY <1>1 DEF Slots, SlotAt
  <2> HIDE DEF head
  <2> QED BY <1>1, <2>1, <2>2, <2>3, SlotsDiffer
<1>6. SlotAt(head, Capacity - 1) = ring.head
  BY <1>1 DEF Slots, SlotAt
<1> HIDE DEF head
<1>7. ASSUME NEW i \in 0 .. Capacity - 1
      PROVE  At(next, i) = next.store[SlotAt(head, i)]
  <2>1. next.length = Capacity /\ next.head = head
    OBVIOUS
  <2> HIDE DEF next
  <2> QED BY <1>4, <2>1, AtSlot
<1>8. \A i \in 0 .. Capacity - 2 : At(next, i) = At(ring, i + 1)
  <2>1. \A i \in 0 .. Capacity - 2 :
          At(next, i) = ring.store[SlotAt(ring.head, i + 1)]
    BY <1>1, <1>5, <1>7
  <2>2. \A i \in 0 .. Capacity - 2 : i + 1 \in 0 .. ring.length - 1
    BY <1>1
  <2> QED BY <2>1, <2>2, AtSlot
<1>9. At(next, Capacity - 1) = value
  BY <1>1, <1>6, <1>7
<1> HIDE DEF next
<1>10. next.length = Capacity
  BY DEF next
<1> QED BY <1>3, <1>4, <1>8, <1>9, <1>10

-----------------------------------------------------------------------------
(* The channel.                                                            *)

Entry == [terminal : BOOLEAN, snap : SnapshotType]

\* The frame is the one its seq stands for: the history has what it led to.
Published(frame) ==
  /\ frame.seq \in 1 .. Len(history)
  /\ history[frame.seq].terminal = IsTerminal(frame)
  /\ history[frame.seq].snap = ReduceSnapshot(ServerStateAt(frame.seq - 1), frame)

\* The snapshot after frame n carries n.
HistoryInv ==
  /\ history \in Seq(Entry)
  /\ \A n \in 1 .. Len(history) : history[n].snap.seq = n

\* The buffered frames are the last ones of the history, and what precedes
\* them is too old for the ring or belongs to a turn that has ended.
WindowInv(ch) ==
  LET ring == ch.log.buffer
      size == ring.length
  IN  /\ ch.log.watermark = Len(history)
      /\ ch.snap = ServerStateAt(Len(history))
      /\ size <= Len(history)
      /\ \A i \in 0 .. size - 1 :
           /\ At(ring, i) \in Frame /\ Published(At(ring, i))
           /\ At(ring, i).seq = Len(history) - size + 1 + i
      /\ \/ size = Capacity
         \/ size = Len(history)
         \/ history[Len(history) - size].terminal

ChannelInv ==
  /\ generation \in 0 .. MaxResets
  /\ HistoryInv
  /\ channel \in ChannelType \cup {Null}
  /\ channel = Null => history = <<>>
  /\ channel # Null => WindowInv(channel)

\* The state before the first frame.
LEMMA EmptySnapshotType == EmptySnapshot \in SnapshotType /\ EmptySnapshot.seq = 0
BY DEF EmptySnapshot, SnapshotType

\* The reducer keeps the types and carries the seq of the frame.
LEMMA ReduceType ==
  ASSUME NEW prev \in SnapshotType, NEW frame \in Frame
  PROVE  /\ ReduceSnapshot(prev, frame) \in SnapshotType
         /\ ReduceSnapshot(prev, frame).seq = frame.seq
<1>1. /\ frame.type \in FrameTypes /\ frame.seq \in Nat
      /\ frame.turn \in Turns /\ frame.data \in FrameData
  BY DEF Frame
<1>2. /\ prev.partial \in Seq(FrameData) /\ prev.running \in BOOLEAN
      /\ TurnAfter(prev, frame) \in Turns \cup {Null}
  BY <1>1 DEF SnapshotType, TurnAfter
<1>3. CASE frame.type = "user"
  BY <1>1, <1>3 DEF ReduceSnapshot, SnapshotType
<1>4. CASE frame.type = "text"
  <2>1. Append(prev.partial, frame.data) \in Seq(FrameData)
    BY <1>1, <1>2
  <2> QED BY <1>1, <1>2, <1>4, <2>1 DEF ReduceSnapshot, SnapshotType
<1>5. CASE frame.type = "activity"
  BY <1>1, <1>2, <1>5 DEF ReduceSnapshot, SnapshotType
<1>6. CASE frame.type = "marker"
  BY <1>1, <1>2, <1>6 DEF ReduceSnapshot, SnapshotType
<1>7. CASE IsTerminal(frame)
  BY <1>1, <1>7 DEF ReduceSnapshot, SnapshotType, IsTerminal, TerminalTypes
<1> QED BY <1>1, <1>3, <1>4, <1>5, <1>6, <1>7 DEF FrameTypes, IsTerminal

\* The states of the history are snapshots.
LEMMA ServerStateType ==
  ASSUME HistoryInv, NEW n \in 0 .. Len(history)
  PROVE  ServerStateAt(n) \in SnapshotType /\ ServerStateAt(n).seq = n
<1>1. CASE n = 0
  BY <1>1, EmptySnapshotType DEF ServerStateAt
<1>2. CASE n # 0
  <2>1. n \in 1 .. Len(history)
    BY <1>2 DEF HistoryInv
  <2>2. history[n] \in Entry /\ history[n].snap.seq = n
    BY <2>1 DEF HistoryInv
  <2>3. ServerStateAt(n) = history[n].snap
    BY <1>2 DEF ServerStateAt
  <2> QED BY <2>2, <2>3 DEF Entry
<1> QED BY <1>1, <1>2

\* One more frame, and nothing of the past changes.
Grows ==
  /\ history' \in Seq(Entry)
  /\ Len(history') = Len(history) + 1
  /\ \A n \in 1 .. Len(history) : history'[n] = history[n]

\* What was published remains so.
LEMMA PastStays ==
  ASSUME HistoryInv, Grows
  PROVE  /\ \A n \in 0 .. Len(history) : ServerStateAt(n)' = ServerStateAt(n)
         /\ \A frame \in Frame : Published(frame) => Published(frame)'
<1>1. Len(history) \in Nat
  BY DEF HistoryInv
<1>2. ASSUME NEW n \in 0 .. Len(history) PROVE ServerStateAt(n)' = ServerStateAt(n)
  BY <1>1, <1>2 DEF ServerStateAt, Grows
<1>3. ASSUME NEW frame \in Frame, Published(frame) PROVE Published(frame)'
  <2>1. frame.seq \in 1 .. Len(history) /\ frame.seq - 1 \in 0 .. Len(history)
    BY <1>1, <1>3 DEF Published
  <2>2. ServerStateAt(frame.seq - 1)' = ServerStateAt(frame.seq - 1)
    BY <1>2, <2>1
  <2> QED BY <1>1, <1>3, <2>1, <2>2 DEF Published, Grows
<1> QED BY <1>2, <1>3

\* A new channel has an empty window.
LEMMA NewChannelWindow ==
  ASSUME history = <<>>
  PROVE  /\ NewChannel(EmptySnapshot) \in ChannelType
         /\ WindowInv(NewChannel(EmptySnapshot))
<1> DEFINE ch == NewChannel(EmptySnapshot)
<1>1. /\ ch.log.watermark = 0 /\ ch.log.buffer = EmptyRing
      /\ ch.snap = EmptySnapshot
      /\ ch = [log |-> [watermark |-> 0, buffer |-> EmptyRing], snap |-> EmptySnapshot]
  BY EmptySnapshotType DEF NewChannel, NewLog
<1>2. ch \in ChannelType
  BY <1>1, EmptySnapshotType, EmptyRingType DEF ChannelType
<1>3. Len(history) = 0 /\ ServerStateAt(0) = EmptySnapshot
  BY DEF ServerStateAt
<1> HIDE DEF ch
<1>4. EmptyRing.length = 0
  BY DEF EmptyRing
<1>5. WindowInv(ch)
  BY <1>1, <1>3, <1>4 DEF WindowInv
<1> QED BY <1>2, <1>5 DEF ch

\* A frame goes behind the window of a channel, and the oldest one out of it
\* when the ring is full.
LEMMA WindowGrows ==
  ASSUME HistoryInv, Grows, NEW ch \in ChannelType, WindowInv(ch),
         NEW frame \in Frame, frame.seq = Len(history) + 1, Published(frame)',
         NEW after, after.log.watermark = ch.log.watermark + 1,
         after.log.buffer = Push(ch.log.buffer, frame),
         after.snap = ServerStateAt(Len(history))'
  PROVE  WindowInv(after)'
<1> DEFINE old == ch.log.buffer
           ring == after.log.buffer
           L == Len(history)
<1>1. /\ old \in RingType(Frame) /\ old.length \in 0 .. Capacity
      /\ L \in Nat /\ Len(history') = L + 1 /\ Capacity \in Nat \ {0}
  BY CapacityAssumption DEF ChannelType, RingType, HistoryInv, Grows
<1>2. /\ ch.log.watermark = L /\ old.length <= L
      /\ \A i \in 0 .. old.length - 1 :
           /\ At(old, i) \in Frame /\ Published(At(old, i))
           /\ At(old, i).seq = L - old.length + 1 + i
  BY DEF WindowInv
<1>3. old.length = Capacity \/ old.length = L \/ history[L - old.length].terminal
  BY DEF WindowInv
<1>4. \A i \in 0 .. old.length - 1 : Published(At(old, i))'
  BY <1>2, PastStays
<1>5. after.log.watermark = Len(history') /\ after.snap = ServerStateAt(Len(history))'
  BY <1>1, <1>2
<1> DEFINE N == Len(history')
<1> DEFINE Rest == /\ ring.length <= N
                   /\ \A i \in 0 .. ring.length - 1 :
                        /\ At(ring, i) \in Frame /\ Published(At(ring, i))'
                        /\ At(ring, i).seq = N - ring.length + 1 + i
                   /\ \/ ring.length = Capacity
                      \/ ring.length = N
                      \/ history'[N - ring.length].terminal
<1>0. N = L + 1 /\ N = Len(history') /\ L = Len(history)
  BY <1>1
<1>9. frame.seq = N /\ Published(frame)'
  BY <1>1
<1> HIDE DEF L, N
<1>6. ASSUME old.length < Capacity PROVE Rest
  <2>1. /\ ring.length = old.length + 1
        /\ \A i \in 0 .. old.length - 1 : At(ring, i) = At(old, i)
        /\ At(ring, old.length) = frame
    BY <1>0, <1>1, <1>6, PushGrows
  <2> HIDE DEF old, ring
  <2>2. old.length \in Nat /\ L \in Nat /\ ring.length = old.length + 1
    BY <1>1, <2>1
  <2>3. N - ring.length = L - old.length
    BY <1>0, <2>2
  <2>4. ASSUME NEW i \in 0 .. ring.length - 1
        PROVE  /\ At(ring, i) \in Frame /\ Published(At(ring, i))'
               /\ At(ring, i).seq = N - ring.length + 1 + i
    <3>1. CASE i = old.length
      <4>1. At(ring, i) = frame /\ N - ring.length + 1 + i = N
        BY <1>0, <1>1, <2>1, <3>1
      <4>2. At(ring, i) \in Frame /\ At(ring, i).seq = N - ring.length + 1 + i
        BY <1>9, <4>1
      <4>3. Published(At(ring, i))'
        BY <1>9, <4>1
      <4> QED BY <4>2, <4>3
    <3>2. CASE i # old.length
      <4>1. i \in 0 .. old.length - 1
        BY <1>0, <1>1, <2>1, <3>2
      <4>2. At(ring, i) = At(old, i)
        BY <2>1, <4>1
      <4>3. /\ At(old, i) \in Frame /\ Published(At(old, i))'
            /\ At(old, i).seq = L - old.length + 1 + i
        BY <1>2, <1>4, <4>1
      <4>4. Published(At(ring, i))'
        BY <4>2, <4>3
      <4> QED BY <2>3, <4>2, <4>3, <4>4
    <3> QED BY <3>1, <3>2
  <2>5. \/ ring.length = N \/ history'[N - ring.length].terminal
    <3>1. CASE old.length # L
      <4>1. L - old.length \in 1 .. L
        BY <1>1, <1>2, <3>1
      <4>2. history[L - old.length].terminal
        BY <1>1, <1>3, <1>6, <3>1
      <4>3. history'[L - old.length] = history[L - old.length]
        BY <1>0, <4>1 DEF Grows
      <4> QED BY <2>3, <4>2, <4>3
    <3>2. CASE old.length = L
      BY <1>0, <2>2, <3>2
    <3> QED BY <3>1, <3>2
  <2> QED BY <1>0, <1>1, <1>2, <2>1, <2>4, <2>5
<1>7. ASSUME old.length = Capacity PROVE Rest
  <2>1. /\ ring.length = Capacity
        /\ \A i \in 0 .. Capacity - 2 : At(ring, i) = At(old, i + 1)
        /\ At(ring, Capacity - 1) = frame
    BY <1>0, <1>1, <1>7, PushRolls
  <2> HIDE DEF old, ring
  <2>2. ASSUME NEW i \in 0 .. ring.length - 1
        PROVE  /\ At(ring, i) \in Frame /\ Published(At(ring, i))'
               /\ At(ring, i).seq = N - ring.length + 1 + i
    <3>1. CASE i = Capacity - 1
      BY <1>0, <1>1, <2>1, <3>1 DEF L
    <3>2. CASE i # Capacity - 1
      <4>1. i \in 0 .. Capacity - 2 /\ i + 1 \in 0 .. old.length - 1
        BY <1>0, <1>1, <1>7, <2>1, <3>2
      <4>2. At(ring, i) = At(old, i + 1)
        BY <2>1, <4>1
      <4>3. /\ At(old, i + 1) \in Frame /\ Published(At(old, i + 1))'
            /\ At(old, i + 1).seq = L - old.length + 1 + (i + 1)
        BY <1>2, <1>4, <4>1
      <4> QED BY <1>0, <1>1, <1>7, <2>1, <4>1, <4>2, <4>3
    <3> QED BY <3>1, <3>2
  <2> QED BY <1>0, <1>1, <1>2, <1>7, <2>1, <2>2
<1>8. Rest
  BY <1>0, <1>1, <1>6, <1>7
<1> QED BY <1>5, <1>8 DEF WindowInv, N

\* The end of a turn empties the window, the counter goes on.
LEMMA WindowEnds ==
  ASSUME HistoryInv', NEW ch \in ChannelType, WindowInv(ch)',
         Len(history') # 0, history'[Len(history')].terminal,
         NEW settled, settled = [ch EXCEPT !.log = ClearLog(@)]
  PROVE  settled \in ChannelType /\ WindowInv(settled)'
<1>1. /\ settled.log.watermark = ch.log.watermark
      /\ settled.log.buffer = EmptyRing /\ settled.snap = ch.snap
      /\ settled = [log |-> [watermark |-> ch.log.watermark, buffer |-> EmptyRing],
                    snap |-> ch.snap]
  BY DEF ChannelType, ClearLog
<1>2. settled \in ChannelType
  BY <1>1, EmptyRingType DEF ChannelType
<1>3. EmptyRing.length = 0 /\ Len(history') \in Nat
  BY DEF EmptyRing, HistoryInv
<1>4. WindowInv(settled)'
  BY <1>1, <1>3 DEF WindowInv
<1> QED BY <1>2, <1>4

\* What publish does to the bus, and which frame it hands to the subscriber.
LEMMA PublishEffect ==
  ASSUME ChannelInv, NEW type \in EventTypes, NEW turn \in Turns,
         Publish(type, turn)
  PROVE  \E frame \in Frame :
           /\ frame.seq = Len(history) + 1
           /\ Grows
           /\ Published(frame)'
           /\ ChannelInv'
           /\ channel' # Null
           /\ Fanout(frame)
<1>1. PICK before :
        before = IF channel = Null THEN NewChannel(EmptySnapshot) ELSE channel
  OBVIOUS
<1>2. PICK L : L = Len(history)
  OBVIOUS
<1>3. PICK event : event = [type |-> type, turn |-> turn,
                            data |-> <<generation, before.log.watermark + 1>>]
  OBVIOUS
<1>4. PICK frame : frame = Stamped(before.log, event)
  OBVIOUS
<1>5. PICK after : after = Sequenced(before, event)
  OBVIOUS
<1> DEFINE entry == [terminal |-> IsTerminal(frame), snap |-> after.snap]
<1>6. /\ channel' = SettledChannel(after, frame)
      /\ history' = Append(history, entry)
      /\ Fanout(frame)
      /\ generation' = generation
  BY <1>1, <1>3, <1>4, <1>5 DEF Publish
<1>7. before \in ChannelType /\ WindowInv(before)
  BY <1>1, NewChannelWindow DEF ChannelInv
<1>8. HistoryInv /\ L \in Nat
  BY <1>2 DEF ChannelInv, HistoryInv
<1>9. before.log.watermark = L /\ before.snap = ServerStateAt(L)
  BY <1>2, <1>7 DEF WindowInv
<1>10. frame \in Frame /\ frame.seq = L + 1
  <2>1. <<generation, before.log.watermark + 1>> \in FrameData
    BY <1>8, <1>9 DEF ChannelInv, FrameData
  <2>2. type \in FrameTypes
    BY EventTypesAssumption
  <2> QED BY <1>3, <1>4, <1>8, <1>9, <2>1, <2>2 DEF Stamped, Frame
<1>11. /\ after.log.watermark = before.log.watermark + 1
       /\ after.log.buffer = Push(before.log.buffer, frame)
       /\ after.snap = ReduceSnapshot(ServerStateAt(L), frame)
       /\ after = [log |-> [watermark |-> after.log.watermark,
                            buffer |-> after.log.buffer], snap |-> after.snap]
  BY <1>4, <1>5, <1>9 DEF Sequenced, AppendEvent
<1>12. ServerStateAt(L) \in SnapshotType /\ ServerStateAt(L).seq = L
  BY <1>2, <1>8, ServerStateType
<1>13. after.snap \in SnapshotType /\ after.snap.seq = L + 1
  BY <1>10, <1>11, <1>12, ReduceType
<1>14. entry \in Entry /\ entry.terminal = IsTerminal(frame) /\ entry.snap = after.snap
  BY <1>13 DEF Entry, IsTerminal
<1> HIDE DEF entry
<1>15. Grows /\ history'[L + 1] = entry /\ Len(history') = L + 1
  BY <1>2, <1>6, <1>8, <1>14 DEF Grows, HistoryInv
<1>16. ServerStateAt(L)' = ServerStateAt(L)
  BY <1>2, <1>8, <1>15, PastStays
<1>17. Published(frame)'
  <2>1. frame.seq - 1 = L /\ frame.seq \in 1 .. Len(history')
    BY <1>8, <1>10, <1>15
  <2> QED BY <1>10, <1>11, <1>14, <1>15, <1>16, <2>1 DEF Published
<1>18. after.snap = ServerStateAt(Len(history))'
  BY <1>8, <1>14, <1>15 DEF ServerStateAt
<1>19. HistoryInv'
  <2>1. ASSUME NEW n \in 1 .. L + 1 PROVE history'[n].snap.seq = n
    <3>1. CASE n = L + 1
      BY <1>13, <1>14, <1>15, <3>1
    <3>2. CASE n # L + 1
      BY <1>2, <1>8, <1>15, <3>2 DEF Grows, HistoryInv
    <3> QED BY <3>1, <3>2
  <2> QED BY <1>15, <2>1 DEF HistoryInv, Grows
<1>20. after \in ChannelType
  <2>1. before.log.buffer \in RingType(Frame)
    BY <1>7 DEF ChannelType
  <2>2. CASE before.log.buffer.length < Capacity
    <3>1. Push(before.log.buffer, frame) \in RingType(Frame)
      BY <1>10, <2>1, <2>2, PushGrows
    <3> QED BY <1>8, <1>9, <1>11, <1>13, <3>1 DEF ChannelType
  <2>3. CASE before.log.buffer.length = Capacity
    <3>1. Push(before.log.buffer, frame) \in RingType(Frame)
      BY <1>10, <2>1, <2>3, PushRolls
    <3> QED BY <1>8, <1>9, <1>11, <1>13, <3>1 DEF ChannelType
  <2>4. before.log.buffer.length < Capacity \/ before.log.buffer.length = Capacity
    BY <2>1, CapacityAssumption DEF RingType
  <2> QED BY <2>2, <2>3, <2>4
<1>21. WindowInv(after)'
  BY <1>2, <1>7, <1>8, <1>10, <1>11, <1>15, <1>17, <1>18, WindowGrows
<1>22. channel' \in ChannelType /\ WindowInv(channel)'
  <2>1. CASE IsTerminal(frame)
    <3>1. PICK settled : settled = [after EXCEPT !.log = ClearLog(@)]
      OBVIOUS
    <3>2. channel' = settled
      BY <1>6, <2>1, <3>1 DEF SettledChannel
    <3>3. Len(history') # 0 /\ history'[Len(history')].terminal
      <4>1. history'[L + 1].terminal = IsTerminal(frame) /\ L + 1 # 0
        BY <1>8, <1>14, <1>15
      <4>2. history'[L + 1].terminal
        BY <2>1, <4>1
      <4> QED BY <1>15, <4>1, <4>2
    <3>4. settled \in ChannelType /\ WindowInv(settled)'
      BY <1>19, <1>20, <1>21, <3>1, <3>3, WindowEnds
    <3> QED BY <3>2, <3>4
  <2>2. CASE ~ IsTerminal(frame)
    BY <1>6, <1>20, <1>21, <2>2 DEF SettledChannel
  <2> QED BY <2>1, <2>2
<1>23. channel' # Null /\ ChannelInv'
  BY <1>6, <1>19, <1>22, NullAssumption DEF ChannelInv
<1> QED BY <1>2, <1>6, <1>10, <1>15, <1>17, <1>23

LEMMA ChannelInit == Init => ChannelInv
BY BoundsAssumption DEF Init, ChannelInv, HistoryInv, Entry

\* A reset leaves neither channel nor history.
LEMMA ChannelReset ==
  ASSUME ChannelInv, generation < MaxResets, channel' = Null, history' = <<>>,
         generation' = generation + 1
  PROVE  ChannelInv'
BY BoundsAssumption DEF ChannelInv, HistoryInv

LEMMA ChannelFramed ==
  ASSUME ChannelInv, UNCHANGED <<channel, generation, history>>
  PROVE  ChannelInv'
BY DEF ChannelInv, HistoryInv, WindowInv, Published, ServerStateAt

LEMMA ChannelStep == ChannelInv /\ [Next]_vars => ChannelInv'
<1> SUFFICES ASSUME ChannelInv, [Next]_vars PROVE ChannelInv'
  OBVIOUS
<1>1. CASE \E type \in EventTypes, turn \in Turns : Publish(type, turn)
  BY <1>1, PublishEffect
<1>2. CASE Evict
  BY <1>2, ChannelReset DEF Evict
<1>3. CASE Restart
  BY <1>3, ChannelReset DEF Restart
<1>4. CASE UNCHANGED <<channel, generation, history>>
  BY <1>4, ChannelFramed
<1> QED BY <1>1, <1>2, <1>3, <1>4
        DEF Next, Connect, ReadSnapshot, FinishReplay, FinishSync, Drop,
            Receive, Unsubscribe, vars

LEMMA ChannelInvariant == Spec => []ChannelInv
BY ChannelInit, ChannelStep, PTL DEF Spec

\* replay.ts: at every capacity of the ring, whatever was published, cleared,
\* evicted and restarted, the frames buffered are the last ones published.
THEOREM WindowIsSuffixAlways == Spec => []WindowIsSuffix
<1>1. ASSUME ChannelInv, channel # Null
      PROVE  /\ channel.snap.seq = channel.log.watermark
             /\ \A i \in 0 .. channel.log.buffer.length - 1 :
                  At(channel.log.buffer, i).seq
                    = channel.log.watermark - channel.log.buffer.length + 1 + i
  <2>1. WindowInv(channel) /\ HistoryInv
    BY <1>1 DEF ChannelInv
  <2>2. Len(history) \in 0 .. Len(history)
    BY <2>1 DEF HistoryInv
  <2>3. ServerStateAt(Len(history)).seq = Len(history)
    BY <2>1, <2>2, ServerStateType
  <2> QED BY <2>1, <2>3 DEF WindowInv
<1>2. ChannelInv => WindowIsSuffix
  BY <1>1 DEF WindowIsSuffix
<1> QED BY <1>2, ChannelInvariant, PTL

-----------------------------------------------------------------------------
(* Replaying and flushing.                                                 *)

\* The frames from + 1, from + 2, ... as they were published.
Consecutive(s, from) ==
  /\ s \in Seq(Frame)
  /\ \A i \in 1 .. Len(s) : s[i].seq = from + i /\ Published(s[i])

LEMMA NothingIsConsecutive ==
  ASSUME NEW from
  PROVE  Consecutive(<<>>, from) /\ <<>> # Null /\ Len(<<>>) = 0
<1>1. <<>> \in Seq(Frame) /\ Len(<<>>) = 0
  OBVIOUS
<1>2. \A i \in 1 .. Len(<<>>) : FALSE
  BY <1>1
<1>3. Consecutive(<<>>, from)
  BY <1>1, <1>2 DEF Consecutive
<1> QED BY <1>1, <1>3, NullAssumption

\* A set of numbers that is not empty has a least one.
LEMMA LeastOf ==
  ASSUME NEW S \in SUBSET Nat, S # {}
  PROVE  \E x \in S : \A y \in S : x <= y
<1> DEFINE Less == OpToRel(<, Nat)
<1>1. \A x, y \in Nat : y < x => <<y, x>> \in Less
  BY DEF OpToRel
<1>2. PICK x \in S : \A y \in S : <<y, x>> \notin Less
  <2> HIDE DEF Less
  <2>1. IsWellFoundedOn(Less, Nat)
    BY NatLessThanWellFounded DEF Less
  <2> QED BY <2>1, WFMin
<1> HIDE DEF Less
<1>3. ASSUME NEW y \in S PROVE x <= y
  <2>1. x \in Nat /\ y \in Nat /\ ~ (y < x)
    BY <1>1, <1>2
  <2> QED BY <2>1
<1> QED BY <1>3

LEMMA EqualFromBothSides ==
  ASSUME NEW v \in Int, NEW w \in Int, v >= w, v <= w
  PROVE  v = w
OBVIOUS

\* An increasing list of all the numbers of an interval counts it.
LEMMA IncreasingCounts ==
  ASSUME NEW d \in Nat, NEW m \in Nat, NEW f \in [1 .. m -> d + 1 .. d + m],
         \A i, j \in 1 .. m : i < j => f[i] < f[j]
  PROVE  \A i \in 1 .. m : f[i] = d + i
<1>1. \A i \in 1 .. m : f[i] \in Int /\ f[i] >= d + 1 /\ f[i] <= d + m
  OBVIOUS
<1>2. \A i \in 1 .. m : f[i] >= d + i
  <2> DEFINE S == {i \in 1 .. m : f[i] < d + i}
  <2>1. ASSUME S # {} PROVE FALSE
    <3>1. S \in SUBSET Nat
      OBVIOUS
    <3>2. PICK x \in S : \A y \in S : x <= y
      <4> HIDE DEF S
      <4> QED BY <2>1, <3>1, LeastOf
    <3>3. x \in 1 .. m /\ f[x] < d + x
      OBVIOUS
    <3>4. x # 1
      BY <1>1, <3>3
    <3>5. x - 1 \in 1 .. m /\ x - 1 \notin S
      BY <3>2, <3>3, <3>4
    <3>6. f[x - 1] >= d + (x - 1) /\ f[x - 1] < f[x]
      BY <1>1, <3>3, <3>5
    <3> QED BY <1>1, <3>3, <3>5, <3>6
  <2> QED BY <1>1, <2>1
<1>3. \A i \in 1 .. m : f[i] <= d + i
  <2> DEFINE S == {k \in 1 .. m : f[m + 1 - k] > d + (m + 1 - k)}
  <2>1. ASSUME S # {} PROVE FALSE
    <3>1. S \in SUBSET Nat
      OBVIOUS
    <3>2. PICK x \in S : \A y \in S : x <= y
      <4> HIDE DEF S
      <4> QED BY <2>1, <3>1, LeastOf
    <3>3. PICK i \in 1 .. m : i = m + 1 - x /\ f[i] > d + i
      OBVIOUS
    <3>4. i # m
      BY <1>1, <3>3
    <3>5. i + 1 \in 1 .. m /\ f[i] < f[i + 1]
      BY <3>3, <3>4
    <3>6. x - 1 \in 1 .. m /\ m + 1 - (x - 1) = i + 1 /\ x - 1 \notin S
      <4>1. x \in 1 .. m
        OBVIOUS
      <4>2. x - 1 \in 1 .. m /\ m + 1 - (x - 1) = i + 1
        BY <3>3, <3>4, <4>1
      <4>3. ~ (x <= x - 1)
        BY <4>1
      <4> HIDE DEF S
      <4> QED BY <3>2, <4>2, <4>3
    <3>7. f[i + 1] <= d + (i + 1)
      BY <1>1, <3>5, <3>6
    <3> QED BY <1>1, <3>3, <3>5, <3>7
  <2>2. ASSUME NEW i \in 1 .. m PROVE f[i] <= d + i
    <3>1. m + 1 - i \in 1 .. m /\ m + 1 - (m + 1 - i) = i
      OBVIOUS
    <3>2. ~ (f[i] > d + i)
      BY <2>1, <3>1
    <3> QED BY <1>1, <3>2
  <2> QED BY <2>2
<1>4. ASSUME NEW i \in 1 .. m PROVE f[i] = d + i
  <2>1. PICK v \in Int, w \in Int : v = f[i] /\ w = d + i
    BY <1>1
  <2>2. v >= w /\ v <= w
    BY <1>2, <1>3, <2>1
  <2>3. v = w
    BY <2>2, EqualFromBothSides, Zenon
  <2> QED BY <2>1, <2>3, Zenon
<1> QED BY <1>4

\* The elements at the indices d + 1 .. d + m are the tail of the sequence.
LEMMA InOrderOfInterval ==
  ASSUME NEW s, NEW d \in Nat, NEW m \in Nat
  PROVE  InOrder(s, d + 1 .. d + m) = [i \in 1 .. m |-> s[d + i]]
<1> DEFINE K == d + 1 .. d + m
           Increasing(f) == \A i, j \in 1 .. m : i < j => f[i] < f[j]
<1>1. Cardinality(K) = m
  <2>1. Cardinality(K) = IF d + 1 > d + m THEN 0 ELSE d + m - (d + 1) + 1
    BY FS_Interval
  <2> QED BY <2>1
<1>2. \E f \in [1 .. m -> K] : Increasing(f)
  <2> DEFINE g == [i \in 1 .. m |-> d + i]
  <2>1. g \in [1 .. m -> K] /\ Increasing(g)
    OBVIOUS
  <2> QED BY <2>1
<1>3. PICK index : index = CHOOSE f \in [1 .. m -> K] : Increasing(f)
  OBVIOUS
<1>4. index \in [1 .. m -> K] /\ Increasing(index)
  BY <1>2, <1>3
<1>5. \A i \in 1 .. m : index[i] = d + i
  BY <1>4, IncreasingCounts
<1>6. InOrder(s, K) = [i \in 1 .. m |-> s[index[i]]]
  <2> HIDE DEF K
  <2>1. InOrder(s, K) =
          [i \in 1 .. Cardinality(K) |->
             s[(CHOOSE f \in [1 .. Cardinality(K) -> K] :
                  \A j, k \in 1 .. Cardinality(K) : j < k => f[j] < f[k])[i]]]
    BY DEF InOrder
  <2> QED BY <1>1, <1>3, <2>1
<1> QED BY <1>5, <1>6

\* What a flush lets through: of the frames behind `from`, those behind the
\* watermark.
LEMMA FlushIsSuffix ==
  ASSUME NEW from \in Nat, NEW held, Consecutive(held, from),
         NEW seen \in from .. from + Len(held)
  PROVE  /\ Consecutive(Unseen(held, seen), seen)
         /\ seen + Len(Unseen(held, seen)) = from + Len(held)
<1> DEFINE n == Len(held)
           d == seen - from
           m == n - d
           K == {k \in 1 .. n : /\ held[k].seq > seen
                                /\ \A j \in 1 .. k - 1 : held[j].seq < held[k].seq}
<1>1. /\ n \in Nat /\ d \in Nat /\ m \in Nat /\ d + m = n /\ seen \in Nat
      /\ \A k \in 1 .. n :
           held[k].seq = from + k /\ held[k] \in Frame /\ Published(held[k])
  BY DEF Consecutive
<1>2. K = d + 1 .. d + m
  <2>1. ASSUME NEW k \in 1 .. n
        PROVE  k \in K <=> k > d
    <3>1. held[k].seq > seen <=> k > d
      <4>1. held[k].seq = from + k /\ seen = from + d
        BY <1>1
      <4> HIDE DEF d
      <4> QED BY <1>1, <4>1
    <3>2. \A j \in 1 .. k - 1 : held[j].seq < held[k].seq
      BY <1>1
    <3> QED BY <3>1, <3>2
  <2>2. K \subseteq 1 .. n
    OBVIOUS
  <2> HIDE DEF d, m, n, K
  <2>3. \A k \in Int : k \in d + 1 .. d + m <=> k \in 1 .. n /\ k > d
    BY <1>1
  <2>4. ASSUME NEW k \in K PROVE k \in d + 1 .. d + m
    <3>1. k \in 1 .. n /\ k \in Int
      BY <1>1, <2>2
    <3> QED BY <2>1, <2>3, <3>1
  <2>5. ASSUME NEW k \in d + 1 .. d + m PROVE k \in K
    <3>1. k \in 1 .. n /\ k > d
      BY <1>1
    <3> QED BY <2>1, <3>1
  <2> QED BY <2>4, <2>5
<1>3. Unseen(held, seen) = [i \in 1 .. m |-> held[d + i]]
  <2> HIDE DEF d, m
  <2>1. InOrder(held, d + 1 .. d + m) = [i \in 1 .. m |-> held[d + i]]
    BY <1>1, InOrderOfInterval
  <2> QED BY <1>2, <2>1 DEF Unseen
<1>4. ASSUME NEW i \in 1 .. m
      PROVE  /\ held[d + i] \in Frame /\ Published(held[d + i])
             /\ held[d + i].seq = seen + i
  <2>1. d + i \in 1 .. n /\ from + (d + i) = seen + i
    BY <1>1
  <2> HIDE DEF d
  <2> QED BY <1>1, <2>1
<1> HIDE DEF d, m
<1>5. /\ [i \in 1 .. m |-> held[d + i]] \in Seq(Frame)
      /\ Len([i \in 1 .. m |-> held[d + i]]) = m
  BY <1>1, <1>4
<1>6. seen + m = from + n
  BY <1>1 DEF d
<1> QED BY <1>1, <1>3, <1>4, <1>5, <1>6 DEF Consecutive

-----------------------------------------------------------------------------
(* The binary search of replayAfter is a recursive function: that there is *)
(* one is shown by the least length of a range it would not be defined on, *)
(* and what it returns by the shortest range it would be wrong on.         *)

Ranges == (0 .. Capacity) \X (0 .. Capacity)

\* The body of the search, over the set `behind` of the indices whose frames
\* lie behind the cursor.
Halved(search, behind, lo, hi) ==
  IF lo >= hi THEN lo
  ELSE IF (lo + hi) \div 2 \in behind THEN search[<<lo, (lo + hi) \div 2>>]
  ELSE search[<<(lo + hi) \div 2 + 1, hi>>]

\* The function `search` follows its body on the ranges of length n and less.
Follows(search, behind, n) ==
  \A lo, hi \in 0 .. Capacity :
    hi - lo <= n => search[<<lo, hi>>] = Halved(search, behind, lo, hi)

\* `search` is the recursive function.
IsSearch(search, behind) ==
  search = [range \in Ranges |-> Halved(search, behind, range[1], range[2])]

LEMMA Middle ==
  ASSUME NEW lo \in 0 .. Capacity, NEW hi \in 0 .. Capacity, lo < hi
  PROVE  \E mid \in lo .. hi - 1 :
           /\ mid = (lo + hi) \div 2
           /\ mid \in 0 .. Capacity /\ mid + 1 \in 0 .. Capacity
<1>1. PICK mid : mid = (lo + hi) \div 2
  OBVIOUS
<1>2. lo \in Nat /\ hi \in Nat /\ Capacity \in Nat
  BY CapacityAssumption
<1>3. mid \in Nat /\ lo <= mid /\ mid < hi
  BY <1>1, <1>2
<1> QED BY <1>1, <1>2, <1>3

\* The bodies of two functions that agree on the halves of a range.
LEMMA SameHalves ==
  ASSUME NEW behind, NEW f, NEW g, NEW lo \in 0 .. Capacity, NEW hi \in 0 .. Capacity,
         \A mid \in lo .. hi - 1 :
           mid \in 0 .. Capacity /\ mid + 1 \in 0 .. Capacity =>
             f[<<lo, mid>>] = g[<<lo, mid>>] /\ f[<<mid + 1, hi>>] = g[<<mid + 1, hi>>]
  PROVE  Halved(f, behind, lo, hi) = Halved(g, behind, lo, hi)
<1>1. CASE lo >= hi
  BY <1>1 DEF Halved
<1>2. CASE lo < hi
  <2>1. PICK mid \in lo .. hi - 1 :
          /\ mid = (lo + hi) \div 2
          /\ mid \in 0 .. Capacity /\ mid + 1 \in 0 .. Capacity
    BY <1>2, Middle
  <2> QED BY <1>2, <2>1 DEF Halved
<1> QED BY <1>1, <1>2

\* One step further.
LEMMA SearchGrows ==
  ASSUME NEW behind, NEW n \in Nat, NEW f, Follows(f, behind, n)
  PROVE  \E g : Follows(g, behind, n + 1)
<1> DEFINE g == [range \in Ranges |->
                   IF range[2] - range[1] <= n THEN f[range]
                   ELSE Halved(f, behind, range[1], range[2])]
<1>1. ASSUME NEW lo \in 0 .. Capacity, NEW hi \in 0 .. Capacity
      PROVE  g[<<lo, hi>>] = IF hi - lo <= n THEN f[<<lo, hi>>]
                             ELSE Halved(f, behind, lo, hi)
  <2>1. <<lo, hi>> \in Ranges
    BY DEF Ranges
  <2> QED BY <2>1
<1> HIDE DEF g
<1>2. ASSUME NEW lo \in 0 .. Capacity, NEW hi \in 0 .. Capacity, hi - lo <= n + 1
      PROVE  g[<<lo, hi>>] = Halved(g, behind, lo, hi)
  <2>1. g[<<lo, hi>>] = Halved(f, behind, lo, hi)
    BY <1>1 DEF Follows
  <2>2. ASSUME NEW mid \in lo .. hi - 1, mid \in 0 .. Capacity, mid + 1 \in 0 .. Capacity
        PROVE  f[<<lo, mid>>] = g[<<lo, mid>>] /\ f[<<mid + 1, hi>>] = g[<<mid + 1, hi>>]
    <3>1. mid - lo <= n /\ hi - (mid + 1) <= n
      BY <1>2, CapacityAssumption
    <3> QED BY <1>1, <2>2, <3>1
  <2>3. Halved(f, behind, lo, hi) = Halved(g, behind, lo, hi)
    BY <2>2, SameHalves
  <2> QED BY <2>1, <2>3
<1>3. Follows(g, behind, n + 1)
  BY <1>2 DEF Follows
<1> QED BY <1>3

LEMMA SearchReaches ==
  ASSUME NEW behind, NEW n \in Nat
  PROVE  \E g : Follows(g, behind, n)
<1> DEFINE Missing == {k \in Nat : \A g : ~ Follows(g, behind, k)}
<1> SUFFICES ASSUME Missing # {} PROVE FALSE
  OBVIOUS
<1>1. PICK k \in Missing : \A j \in Missing : k <= j
  <2>1. Missing \in SUBSET Nat
    OBVIOUS
  <2> HIDE DEF Missing
  <2> QED BY <2>1, LeastOf
<1>2. k # 0
  <2> DEFINE g == [range \in Ranges |-> range[1]]
  <2>1. ASSUME NEW lo \in 0 .. Capacity, NEW hi \in 0 .. Capacity, hi - lo <= 0
        PROVE  g[<<lo, hi>>] = Halved(g, behind, lo, hi)
    <3>1. <<lo, hi>> \in Ranges
      BY DEF Ranges
    <3>2. lo >= hi
      BY <2>1, CapacityAssumption
    <3> QED BY <3>1, <3>2 DEF Halved
  <2> HIDE DEF g
  <2>2. Follows(g, behind, 0)
    BY <2>1 DEF Follows
  <2> QED BY <2>2
<1>3. k - 1 \in Nat /\ k - 1 \notin Missing /\ k = (k - 1) + 1
  <2>1. k \in Nat
    OBVIOUS
  <2> HIDE DEF Missing
  <2>2. k - 1 \in Nat /\ k = (k - 1) + 1 /\ ~ (k <= k - 1)
    BY <1>2, <2>1
  <2> QED BY <1>1, <2>2
<1>4. PICK f : Follows(f, behind, k - 1)
  BY <1>3
<1>5. \E g : Follows(g, behind, (k - 1) + 1)
  BY <1>3, <1>4, SearchGrows
<1> QED BY <1>3, <1>5

\* The recursive function exists, for any set of indices.
LEMMA SearchExists ==
  ASSUME NEW behind
  PROVE  \E g : IsSearch(g, behind)
<1>1. PICK f : Follows(f, behind, Capacity)
  BY SearchReaches, CapacityAssumption
<1> DEFINE g == [range \in Ranges |-> f[range]]
<1>2. \A lo, hi \in 0 .. Capacity : g[<<lo, hi>>] = f[<<lo, hi>>]
  <2>1. \A lo, hi \in 0 .. Capacity : <<lo, hi>> \in Ranges
    BY DEF Ranges
  <2> QED BY <2>1
<1> HIDE DEF g
<1>3. ASSUME NEW lo \in 0 .. Capacity, NEW hi \in 0 .. Capacity
      PROVE  f[<<lo, hi>>] = Halved(g, behind, lo, hi)
  <2>1. hi - lo <= Capacity
    BY CapacityAssumption
  <2>2. f[<<lo, hi>>] = Halved(f, behind, lo, hi)
    BY <1>1, <2>1 DEF Follows
  <2>3. Halved(f, behind, lo, hi) = Halved(g, behind, lo, hi)
    BY <1>2, SameHalves
  <2> QED BY <2>2, <2>3
<1>4. \A range \in Ranges : f[range] = Halved(g, behind, range[1], range[2])
  <2> SUFFICES ASSUME NEW range \in Ranges
               PROVE  f[range] = Halved(g, behind, range[1], range[2])
    OBVIOUS
  <2>1. range = <<range[1], range[2]>> /\ range[1] \in 0 .. Capacity
        /\ range[2] \in 0 .. Capacity
    BY DEF Ranges
  <2> QED BY <1>3, <2>1
<1>5. g = [range \in Ranges |-> Halved(g, behind, range[1], range[2])]
  <2>1. PICK h : h = [range \in Ranges |-> Halved(g, behind, range[1], range[2])]
    OBVIOUS
  <2>2. h = [range \in Ranges |-> f[range]]
    BY <1>4, <2>1
  <2> QED BY <2>1, <2>2 DEF g
<1> QED BY <1>5 DEF IsSearch

\* It returns the least index in the set, when the set goes on from there.
LEMMA SearchFinds ==
  ASSUME NEW behind, NEW g, IsSearch(g, behind),
         NEW size \in 0 .. Capacity, NEW first \in 0 .. size,
         \A i \in 0 .. size - 1 : i \in behind <=> i >= first
  PROVE  g[<<0, size>>] = first
<1>1. \A lo, hi \in 0 .. Capacity : g[<<lo, hi>>] = Halved(g, behind, lo, hi)
  <2>1. \A lo, hi \in 0 .. Capacity : <<lo, hi>> \in Ranges
    BY DEF Ranges
  <2> QED BY <2>1 DEF IsSearch
<1>2. Capacity \in Nat /\ size \in Nat /\ first \in Nat /\ size <= Capacity
      /\ first <= size
  BY CapacityAssumption
<1> DEFINE Wrong == {n \in Nat : \E lo \in 0 .. first, hi \in first .. size :
                                   hi - lo = n /\ g[<<lo, hi>>] # first}
<1> SUFFICES ASSUME Wrong # {} PROVE FALSE
  <2>1. 0 \in 0 .. first /\ size \in first .. size /\ size - 0 \in Nat
    BY <1>2
  <2> QED BY <2>1
<1>3. PICK n \in Wrong : \A k \in Wrong : n <= k
  <2>1. Wrong \in SUBSET Nat
    OBVIOUS
  <2> HIDE DEF Wrong
  <2> QED BY <2>1, LeastOf
<1>4. PICK lo \in 0 .. first, hi \in first .. size : hi - lo = n /\ g[<<lo, hi>>] # first
  OBVIOUS
<1>5. ASSUME NEW a \in 0 .. first, NEW b \in first .. size, b - a < hi - lo
      PROVE  g[<<a, b>>] = first
  <2>1. b - a \in Nat /\ ~ (n <= b - a)
    BY <1>2, <1>4, <1>5
  <2>2. b - a \notin Wrong
    BY <1>3, <2>1
  <2> QED BY <2>1, <2>2
<1> HIDE DEF Wrong
<1>6. lo \in 0 .. Capacity /\ hi \in 0 .. Capacity
  BY <1>2
<1>7. lo < hi
  <2>1. ASSUME lo >= hi PROVE FALSE
    <3>1. g[<<lo, hi>>] = lo
      BY <1>1, <1>6, <2>1 DEF Halved
    <3>2. lo = first
      BY <1>2, <2>1
    <3> QED BY <1>4, <3>1, <3>2
  <2> QED BY <1>2, <1>6, <2>1
<1>8. PICK mid \in lo .. hi - 1 :
        /\ mid = (lo + hi) \div 2
        /\ mid \in 0 .. Capacity /\ mid + 1 \in 0 .. Capacity
  BY <1>6, <1>7, Middle
<1>9. mid \in 0 .. size - 1
  BY <1>2, <1>8
<1>10. CASE mid \in behind
  <2>1. g[<<lo, hi>>] = g[<<lo, mid>>]
    <3>1. ~ (lo >= hi)
      BY <1>2, <1>7
    <3>2. g[<<lo, hi>>] = Halved(g, behind, lo, hi)
      BY <1>1, <1>6
    <3> QED BY <1>8, <1>10, <3>1, <3>2 DEF Halved
  <2>2. mid \in first .. size /\ mid - lo < hi - lo
    BY <1>2, <1>8, <1>9, <1>10
  <2>3. g[<<lo, mid>>] = first
    BY <1>5, <2>2
  <2> QED BY <1>4, <2>1, <2>3
<1>11. CASE mid \notin behind
  <2>1. g[<<lo, hi>>] = g[<<mid + 1, hi>>]
    <3>1. ~ (lo >= hi)
      BY <1>2, <1>7
    <3>2. g[<<lo, hi>>] = Halved(g, behind, lo, hi)
      BY <1>1, <1>6
    <3> QED BY <1>8, <1>11, <3>1, <3>2 DEF Halved
  <2>2. mid + 1 \in 0 .. first /\ hi - (mid + 1) < hi - lo
    BY <1>2, <1>8, <1>9, <1>11
  <2>3. g[<<mid + 1, hi>>] = first
    BY <1>5, <2>2
  <2> QED BY <1>4, <2>1, <2>3
<1> QED BY <1>10, <1>11

\* So the loop returns it for a log whose frames are in order.
LEMMA BinarySearchFinds ==
  ASSUME NEW log, NEW after, log.buffer.length \in 0 .. Capacity,
         NEW first \in 0 .. log.buffer.length,
         \A i \in 0 .. log.buffer.length - 1 :
           At(log.buffer, i).seq > after <=> i >= first
  PROVE  BinarySearch(log, after) = first
<1> DEFINE behind == {i \in 0 .. Capacity : At(log.buffer, i).seq > after}
<1> DEFINE Body(g) == [range \in (0 .. Capacity) \X (0 .. Capacity) |->
             IF range[1] >= range[2] THEN range[1]
             ELSE IF At(log.buffer, (range[1] + range[2]) \div 2).seq > after
                    THEN g[<<range[1], (range[1] + range[2]) \div 2>>]
             ELSE g[<<(range[1] + range[2]) \div 2 + 1, range[2]>>]]
<1>1. BinarySearch(log, after) = (CHOOSE g : g = Body(g))[<<0, log.buffer.length>>]
  BY DEF BinarySearch
<1>2. \A g : Body(g) = [range \in Ranges |-> Halved(g, behind, range[1], range[2])]
  <2> SUFFICES ASSUME NEW g, NEW range \in Ranges
               PROVE  (IF range[1] >= range[2] THEN range[1]
                       ELSE IF At(log.buffer, (range[1] + range[2]) \div 2).seq > after
                              THEN g[<<range[1], (range[1] + range[2]) \div 2>>]
                       ELSE g[<<(range[1] + range[2]) \div 2 + 1, range[2]>>])
                      = Halved(g, behind, range[1], range[2])
    BY DEF Ranges
  <2>1. PICK lo, hi : lo = range[1] /\ hi = range[2]
    OBVIOUS
  <2>2. lo \in 0 .. Capacity /\ hi \in 0 .. Capacity
    BY <2>1 DEF Ranges
  <2>3. CASE lo >= hi
    BY <2>1, <2>3 DEF Halved
  <2>4. CASE lo < hi
    <3>1. PICK mid \in lo .. hi - 1 :
            /\ mid = (lo + hi) \div 2
            /\ mid \in 0 .. Capacity /\ mid + 1 \in 0 .. Capacity
      BY <2>2, <2>4, Middle
    <3>2. mid \in behind <=> At(log.buffer, mid).seq > after
      BY <3>1
    <3> HIDE DEF behind
    <3>3. ~ (lo >= hi)
      BY <2>2, <2>4, CapacityAssumption
    <3> QED BY <2>1, <3>1, <3>2, <3>3 DEF Halved
  <2> QED BY <2>2, <2>3, <2>4, CapacityAssumption
<1> HIDE DEF Body
<1>3. \E g : g = Body(g)
  <2> HIDE DEF behind
  <2> QED BY <1>2, SearchExists DEF IsSearch
<1>4. PICK g : g = Body(g) /\ BinarySearch(log, after) = g[<<0, log.buffer.length>>]
  BY <1>1, <1>3
<1>5. IsSearch(g, behind)
  <2> HIDE DEF behind
  <2> QED BY <1>2, <1>4 DEF IsSearch
<1>6. \A i \in 0 .. log.buffer.length - 1 : i \in behind <=> i >= first
  BY CapacityAssumption
<1>7. g[<<0, log.buffer.length>>] = first
  <2> HIDE DEF behind
  <2> QED BY <1>5, <1>6, SearchFinds
<1> QED BY <1>4, <1>7

\* What it is specified to return, of such a log.
LEMMA FirstIndexIs ==
  ASSUME NEW log, NEW after \in Int, log.buffer.length \in Nat,
         NEW first \in 0 .. log.buffer.length,
         \A i \in 0 .. log.buffer.length - 1 :
           /\ At(log.buffer, i).seq \in Int
           /\ At(log.buffer, i).seq > after <=> i >= first
  PROVE  FirstIndexAfter(log, after) = first
<1> DEFINE size == log.buffer.length
           Fits(i) == /\ \A j \in 0 .. i - 1 : At(log.buffer, j).seq <= after
                      /\ i < size => At(log.buffer, i).seq > after
<1>1. size \in Nat /\ first \in Nat /\ first <= size
  OBVIOUS
<1>2. \A i \in 0 .. size - 1 : At(log.buffer, i).seq <= after <=> i < first
  OBVIOUS
<1>3. \A i \in 0 .. size - 1 : At(log.buffer, i).seq > after <=> i >= first
  OBVIOUS
<1>4. FirstIndexAfter(log, after) = CHOOSE i \in 0 .. size : Fits(i)
  BY DEF FirstIndexAfter
<1> HIDE DEF size
<1>5. Fits(first)
  BY <1>1, <1>2, <1>3
<1>6. ASSUME NEW i \in 0 .. size, Fits(i) PROVE i = first
  <2>1. CASE i < first
    <3>1. i \in 0 .. size - 1 /\ i < size
      BY <1>1, <2>1
    <3> QED BY <1>1, <1>3, <1>6, <2>1, <3>1
  <2>2. CASE i > first
    <3>1. first \in 0 .. i - 1 /\ first \in 0 .. size - 1
      BY <1>1, <2>2
    <3> QED BY <1>1, <1>2, <1>6, <3>1
  <2> QED BY <1>1, <2>1, <2>2
<1> HIDE DEF Fits
<1>7. first \in 0 .. size
  BY <1>1
<1> QED BY <1>4, <1>5, <1>6, <1>7

\* replay.ts:81-91: in every window a stream can have, through any number of
\* evictions and restarts, and for every cursor up to the watermark, the binary
\* search ends and finds the first frame behind the cursor.
THEOREM SearchIsExactAlways == Spec => []SearchIsExact
<1>1. ChannelInv => SearchIsExact
  <2> SUFFICES ASSUME ChannelInv, channel # Null,
                      NEW after \in 0 .. channel.log.watermark
               PROVE  BinarySearch(channel.log, after) = FirstIndexAfter(channel.log, after)
    BY DEF SearchIsExact
  <2>1. PICK log, L, size : /\ log = channel.log /\ L = Len(history)
                            /\ size = log.buffer.length
    OBVIOUS
  <2>2. HistoryInv /\ channel \in ChannelType /\ WindowInv(channel)
    BY DEF ChannelInv
  <2>3. /\ L \in Nat /\ size \in 0 .. Capacity /\ size <= L
        /\ after \in Nat /\ after <= L
    BY <2>1, <2>2, CapacityAssumption DEF WindowInv, HistoryInv, ChannelType, RingType
  <2>4. \A i \in 0 .. size - 1 : At(log.buffer, i).seq = L - size + 1 + i
    BY <2>1, <2>2 DEF WindowInv
  <2>5. PICK first \in 0 .. size :
          first = IF after <= L - size THEN 0 ELSE after - (L - size)
    BY <2>3, CapacityAssumption
  <2>6. \A i \in 0 .. size - 1 :
          /\ At(log.buffer, i).seq \in Int
          /\ At(log.buffer, i).seq > after <=> i >= first
    BY <2>3, <2>4, <2>5, CapacityAssumption
  <2>7. BinarySearch(log, after) = first
    BY <2>1, <2>3, <2>6, BinarySearchFinds
  <2>8. size \in Nat /\ after \in Int
    BY <2>3, CapacityAssumption
  <2>9. FirstIndexAfter(log, after) = first
    BY <2>1, <2>6, <2>8, FirstIndexIs
  <2> QED BY <2>1, <2>7, <2>9
<1> QED BY <1>1, ChannelInvariant, PTL

-----------------------------------------------------------------------------
(* Replaying.                                                              *)

\* replayAfter answers with every frame behind the cursor, or with Null when
\* they are not all kept.
LEMMA ReplayIsExact ==
  ASSUME HistoryInv, NEW ch \in ChannelType, WindowInv(ch),
         NEW after \in 0 .. Len(history)
  PROVE  LET replay == ReplayAfter(ch.log, after)
         IN  \/ replay = Null /\ Abstract!Lost(after, Len(history))
             \/ /\ Consecutive(replay, after) /\ replay # Null
                /\ after + Len(replay) = Len(history)
<1> DEFINE ring == ch.log.buffer
           size == ring.length
           L == Len(history)
           first == after - (L - size)
<1>1. /\ L \in Nat /\ size \in 0 .. Capacity /\ after \in Nat
      /\ ch.log.watermark = L /\ size <= L /\ after <= L
  BY CapacityAssumption DEF WindowInv, HistoryInv, ChannelType, RingType
<1>2. \A i \in 0 .. size - 1 :
        /\ At(ring, i) \in Frame /\ Published(At(ring, i))
        /\ At(ring, i).seq = L - size + 1 + i
  BY DEF WindowInv
<1>3. size = Capacity \/ size = L \/ history[L - size].terminal
  BY DEF WindowInv
<1> HIDE DEF ring, size, L
<1>4. FirstBuffered(ch.log) = L - size + 1
  <2>1. CASE size = 0
    <3>1. At(ring, 0) = Null
      BY <2>1 DEF At, size
    <3> QED BY <1>1, <2>1, <3>1 DEF FirstBuffered, ring
  <2>2. CASE size # 0
    <3>1. 0 \in 0 .. size - 1
      BY <1>1, <2>2
    <3>2. At(ring, 0) # Null /\ At(ring, 0).seq = L - size + 1 + 0
      BY <1>2, <3>1, NullAssumption
    <3> QED BY <1>1, <3>2 DEF FirstBuffered, ring
  <2> QED BY <2>1, <2>2
<1>5. CASE after = L
  <2>1. ReplayAfter(ch.log, after) = <<>>
    BY <1>1, <1>5 DEF ReplayAfter
  <2>2. Consecutive(<<>>, after) /\ <<>> # Null /\ after + Len(<<>>) = L
    BY <1>1, <1>5, NothingIsConsecutive
  <2> QED BY <2>1, <2>2 DEF L
<1>6. CASE after < L - size
  <2>1. ReplayAfter(ch.log, after) = Null
    BY <1>1, <1>4, <1>6 DEF ReplayAfter
  <2>2. Abstract!Lost(after, L)
    <3>1. CASE size = Capacity
      BY <1>1, <1>6, <3>1, CapacityAssumption DEF Abstract!Lost
    <3>2. CASE history[L - size].terminal
      <4>1. L - size \in after + 1 .. L
        BY <1>1, <1>6
      <4> QED BY <1>1, <1>6, <3>2, <4>1 DEF Abstract!Lost
    <3> QED BY <1>1, <1>3, <1>6, <3>1, <3>2
  <2> QED BY <2>1, <2>2 DEF L
<1>7. CASE L - size <= after /\ after < L
  <2> DEFINE Fits(i) == /\ \A j \in 0 .. i - 1 : At(ring, j).seq <= after
                        /\ i < size => At(ring, i).seq > after
             rest == [k \in 1 .. size - first |-> At(ring, first + k - 1)]
  <2>1. /\ first \in 0 .. size - 1 /\ size - first \in Nat
        /\ after + (size - first) = L /\ L - size + 1 + first = after + 1
    BY <1>1, <1>7
  <2> HIDE DEF first
  <2>2. Fits(first)
    BY <1>1, <1>2, <2>1
  <2>3. ASSUME NEW i \in 0 .. size, Fits(i) PROVE i = first
    <3>1. CASE i < first
      <4>1. At(ring, i).seq = L - size + 1 + i /\ At(ring, i).seq > after
        BY <1>1, <1>2, <2>1, <2>3, <3>1
      <4> QED BY <1>1, <2>1, <3>1, <4>1
    <3>2. CASE i > first
      <4>1. At(ring, first).seq = L - size + 1 + first /\ At(ring, first).seq <= after
        BY <1>1, <1>2, <2>1, <2>3, <3>2
      <4> QED BY <1>1, <2>1, <4>1
    <3> QED BY <1>1, <2>1, <3>1, <3>2
  <2>4. FirstIndexAfter(ch.log, after) = first
    <3>1. FirstIndexAfter(ch.log, after) = CHOOSE i \in 0 .. size : Fits(i)
      BY DEF FirstIndexAfter, ring, size
    <3>2. first \in 0 .. size
      BY <1>1, <2>1
    <3> HIDE DEF Fits
    <3> QED BY <2>2, <2>3, <3>1, <3>2
  <2>5. SliceFrom(ring, first) = rest
    BY <2>1 DEF SliceFrom, size
  <2>6. ReplayAfter(ch.log, after) = rest
    BY <1>1, <1>4, <1>7, <2>4, <2>5 DEF ReplayAfter, ring
  <2>7. ASSUME NEW k \in 1 .. size - first
        PROVE  /\ rest[k] \in Frame /\ Published(rest[k])
               /\ rest[k].seq = after + k
    <3>1. /\ first + k - 1 \in 0 .. size - 1
          /\ L - size + 1 + (first + k - 1) = after + k
      BY <1>1, <2>1
    <3>2. rest[k] = At(ring, first + k - 1)
      OBVIOUS
    <3> QED BY <1>2, <3>1, <3>2
  <2>8. rest \in Seq(Frame) /\ Len(rest) = size - first
    BY <2>1, <2>7
  <2> HIDE DEF rest
  <2>9. Consecutive(rest, after) /\ rest # Null
    BY <2>7, <2>8, NullAssumption DEF Consecutive
  <2> QED BY <2>1, <2>6, <2>8, <2>9 DEF L
<1> QED BY <1>1, <1>5, <1>6, <1>7

-----------------------------------------------------------------------------
(* The pipe: the connection, what is in flight, and the reader.  The parts *)
(* take them as parameters, so that they can be stated of the next ones.   *)

ConnType ==
  [phase : {"closed", "replayed", "snapped", "live"},
   cursor : Nat \cup {Null}, replay : Seq(Frame) \cup {Null},
   snap : SnapshotType \cup {Null}, buffered : Seq(Frame),
   cursorGen : 0 .. MaxResets, readGen : 0 .. MaxResets,
   liveGen : 0 .. MaxResets]

ClientType ==
  [watching : BOOLEAN, after : Nat \cup {Null},
   view : SnapshotType \cup {Null}, gen : 0 .. MaxResets]

\* Where an item takes the reader.
ItemSeq(item) == IF item.sync THEN item.snap.seq ELSE item.frame.seq

\* The point at which the connection subscribed.
Start(c) == Len(history) - Len(c.buffered)

\* A point of the history the reader may be taken to at once.
Jump(r, n) == r.after = Null \/ Abstract!Lost(r.after, n)

\* The reader stands at a point of the history and holds its state.
ReaderInv(r) ==
  r.after # Null => r.after \in 0 .. Len(history) /\ r.view = ServerStateAt(r.after)

\* The frames held back are those published since the connection subscribed.
HeldInv(c) == Start(c) \in Nat /\ Consecutive(c.buffered, Start(c))

\* A replay and the frames held back are all the reader lacks, or it is behind.
ReplayedInv(c, r) ==
  /\ HeldInv(c)
  /\ c.cursor = r.after /\ r.after # Null
  /\ c.replay = Null => Abstract!Lost(r.after, Start(c))
  /\ c.replay # Null => /\ Consecutive(c.replay, r.after)
                        /\ r.after + Len(c.replay) = Start(c)

\* A snapshot is not older than the subscription.
SnappedInv(c, r) ==
  /\ HeldInv(c)
  /\ c.snap \in SnapshotType
  /\ c.snap.seq \in Start(c) .. Len(history)
  /\ c.snap = ServerStateAt(c.snap.seq)
  /\ Jump(r, c.snap.seq)

\* What is in flight ends at the watermark and has no hole; a sync comes first.
LiveInv(w, r) ==
  /\ \A k \in 1 .. Len(w) :
       /\ ItemSeq(w[k]) = Len(history) - (Len(w) - k)
       /\ w[k].sync => k = 1 /\ w[k].snap = ServerStateAt(w[k].snap.seq)
                             /\ Jump(r, w[k].snap.seq)
       /\ ~ w[k].sync => Published(w[k].frame)
  /\ (w = <<>> \/ ~ w[1].sync) =>
       r.after # Null /\ r.after = Len(history) - Len(w)

PhaseInv(c, w, r) ==
  /\ c \in ConnType /\ w \in Seq(ItemType) /\ r \in ClientType
  /\ ReaderInv(r)
  /\ c.phase # "live" => w = <<>>
  /\ c.phase = "replayed" => ReplayedInv(c, r)
  /\ c.phase = "snapped" => SnappedInv(c, r)
  /\ c.phase = "live" => LiveInv(w, r)

PipeInv == PhaseInv(conn, wire, client) /\ drops \in 0 .. MaxDrops

\* The two kinds of item.
LEMMA ItemKinds ==
  ASSUME NEW item \in ItemType
  PROVE  /\ item.sync \in BOOLEAN
         /\ item.sync => item.snap \in SnapshotType /\ item.gen \in 0 .. MaxResets
         /\ ~ item.sync => item.frame \in Frame
         /\ ItemSeq(item) \in Nat
BY DEF ItemType, ItemSeq, Frame, SnapshotType

\* Behind a history that has grown by a frame nothing is restored.
LEMMA LostStays ==
  ASSUME HistoryInv, Grows, NEW p \in Nat, NEW n \in 0 .. Len(history),
         Abstract!Lost(p, n)
  PROVE  Abstract!Lost(p, n)'
<1>1. Len(history) \in Nat
  BY DEF HistoryInv
<1>2. \A k \in p + 1 .. n : history'[k] = history[k]
  BY <1>1 DEF Grows
<1> QED BY <1>1, <1>2 DEF Abstract!Lost

LEMMA ConsecutiveStays ==
  ASSUME HistoryInv, Grows, NEW s, NEW from, Consecutive(s, from)
  PROVE  Consecutive(s, from)'
<1>1. \A i \in 1 .. Len(s) : s[i] \in Frame /\ Published(s[i])'
  BY PastStays DEF Consecutive
<1> QED BY <1>1 DEF Consecutive

LEMMA ConsecutiveAppend ==
  ASSUME NEW s, NEW from \in Nat, Consecutive(s, from)', NEW frame \in Frame,
         frame.seq = from + Len(s) + 1, Published(frame)'
  PROVE  /\ Consecutive(Append(s, frame), from)'
         /\ Len(Append(s, frame)) = Len(s) + 1
<1>1. s \in Seq(Frame) /\ Len(s) \in Nat
  BY DEF Consecutive
<1>2. /\ Append(s, frame) \in Seq(Frame) /\ Len(Append(s, frame)) = Len(s) + 1
      /\ Append(s, frame)[Len(s) + 1] = frame
      /\ \A i \in 1 .. Len(s) : Append(s, frame)[i] = s[i]
  BY <1>1
<1>3. ASSUME NEW i \in 1 .. Len(s) + 1
      PROVE  /\ Append(s, frame)[i].seq = from + i
             /\ Published(Append(s, frame)[i])'
  <2>1. CASE i = Len(s) + 1
    BY <1>1, <1>2, <2>1
  <2>2. CASE i # Len(s) + 1
    <3>1. i \in 1 .. Len(s)
      BY <1>1, <2>2
    <3>2. s[i].seq = from + i /\ Published(s[i])'
      BY <3>1 DEF Consecutive
    <3>3. Append(s, frame)[i] = s[i]
      BY <1>2, <3>1
    <3> QED BY <3>2, <3>3
  <2> QED BY <2>1, <2>2
<1> QED BY <1>2, <1>3 DEF Consecutive

\* The invariant of the pipe speaks of the history only.
LEMMA PhaseFramed ==
  ASSUME history' = history, NEW c, NEW w, NEW r, PhaseInv(c, w, r)
  PROVE  PhaseInv(c, w, r)'
BY DEF PhaseInv, ReaderInv, ReplayedInv, SnappedInv, LiveInv, HeldInv, Jump,
       Start, Consecutive, Published, ServerStateAt, Abstract!Lost

\* A frame published meanwhile is held back.
LEMMA HeldGrows ==
  ASSUME HistoryInv, Grows, NEW frame \in Frame,
         frame.seq = Len(history) + 1, Published(frame)',
         NEW c \in ConnType, HeldInv(c),
         NEW held, held = [c EXCEPT !.buffered = Append(@, frame)]
  PROVE  /\ held \in ConnType /\ HeldInv(held)' /\ Start(held)' = Start(c)
         /\ Start(c) \in 0 .. Len(history)
         /\ held.phase = c.phase /\ held.cursor = c.cursor
         /\ held.replay = c.replay /\ held.snap = c.snap
<1>1. PICK L \in Nat : L = Len(history)
  BY DEF HistoryInv
<1>2. PICK n \in Nat : n = Len(c.buffered)
  BY DEF ConnType
<1>3. PICK from \in Nat : from = Start(c)
  BY DEF HeldInv
<1>4. from = L - n /\ Consecutive(c.buffered, from)
  BY <1>1, <1>2, <1>3 DEF Start, HeldInv
<1>5. /\ Consecutive(Append(c.buffered, frame), from)'
      /\ Len(Append(c.buffered, frame)) = n + 1
  <2>1. Consecutive(c.buffered, from)'
    BY <1>4, ConsecutiveStays
  <2>2. frame.seq = from + n + 1
    BY <1>1, <1>4
  <2> QED BY <1>2, <2>1, <2>2, ConsecutiveAppend
<1>6. held.buffered = Append(c.buffered, frame)
  BY DEF ConnType
<1>7. Len(history') = L + 1
  BY <1>1 DEF Grows
<1>8. Start(held)' = from
  <2>1. Start(held)' = Len(history') - Len(held.buffered)
    BY DEF Start
  <2> QED BY <1>4, <1>5, <1>6, <1>7, <2>1
<1>9. HeldInv(held)'
  <2>1. Consecutive(held.buffered, from)'
    BY <1>5, <1>6
  <2> QED BY <1>8, <2>1 DEF HeldInv
<1>10. held \in ConnType
  <2>1. Append(c.buffered, frame) \in Seq(Frame)
    BY DEF ConnType
  <2> QED BY <2>1 DEF ConnType
<1> QED BY <1>1, <1>3, <1>4, <1>8, <1>9, <1>10 DEF ConnType

\* A frame published to a live connection is sent behind what is in flight.
LEMMA LiveGrows ==
  ASSUME HistoryInv, Grows, NEW frame \in Frame,
         frame.seq = Len(history) + 1, Published(frame)',
         NEW w \in Seq(ItemType), NEW r \in ClientType, LiveInv(w, r),
         NEW sent, sent = Append(w, FrameItem(frame))
  PROVE  sent \in Seq(ItemType) /\ LiveInv(sent, r)'
<1>1. PICK L \in Nat : L = Len(history)
  BY DEF HistoryInv
<1>2. PICK n \in Nat : n = Len(w)
  OBVIOUS
<1>3. PICK item : item = FrameItem(frame)
  OBVIOUS
<1>4. /\ item \in ItemType /\ item.sync = FALSE /\ item.frame = frame
      /\ ItemSeq(item) = L + 1
  BY <1>1, <1>3 DEF FrameItem, ItemType, ItemSeq
<1>5. /\ sent \in Seq(ItemType) /\ Len(sent) = n + 1 /\ sent[n + 1] = item
      /\ \A k \in 1 .. n : sent[k] = w[k] /\ w[k] \in ItemType
  BY <1>2, <1>3, <1>4
<1>6. Len(history') = L + 1
  BY <1>1 DEF Grows
<1>7. ASSUME NEW k \in 1 .. n
      PROVE  /\ ItemSeq(sent[k]) = L + 1 - (n + 1 - k)
             /\ sent[k].sync => k = 1 /\ sent[k].snap = ServerStateAt(sent[k].snap.seq)'
                                      /\ Jump(r, sent[k].snap.seq)'
             /\ ~ sent[k].sync => Published(sent[k].frame)'
  <2>1. /\ ItemSeq(w[k]) = L - (n - k)
        /\ w[k].sync => k = 1 /\ w[k].snap = ServerStateAt(w[k].snap.seq)
                              /\ Jump(r, w[k].snap.seq)
        /\ ~ w[k].sync => Published(w[k].frame)
    BY <1>1, <1>2 DEF LiveInv
  <2>2. sent[k] = w[k] /\ w[k] \in ItemType
    BY <1>5
  <2>3. CASE w[k].sync
    <3>1. PICK seq : seq = w[k].snap.seq
      OBVIOUS
    <3>2. seq \in 0 .. Len(history)
      <4>1. ItemSeq(w[k]) = seq /\ seq \in Nat
        BY <2>2, <2>3, <3>1, ItemKinds DEF ItemSeq
      <4> QED BY <1>1, <2>1, <4>1
    <3>3. ServerStateAt(seq)' = ServerStateAt(seq)
      BY <3>2, PastStays
    <3>4. Jump(r, seq)'
      <4>1. r.after \in Nat \cup {Null}
        BY DEF ClientType
      <4>2. CASE r.after = Null
        BY <4>2 DEF Jump
      <4>3. CASE r.after # Null
        BY <2>1, <2>3, <3>1, <3>2, <4>1, <4>3, LostStays DEF Jump
      <4> QED BY <4>2, <4>3
    <3> QED BY <2>1, <2>2, <2>3, <3>1, <3>3, <3>4
  <2>4. CASE ~ w[k].sync
    <3>1. Published(w[k].frame) /\ w[k].frame \in Frame
      BY <2>1, <2>2, <2>4, ItemKinds
    <3>2. Published(w[k].frame)'
      BY <3>1, PastStays
    <3> QED BY <2>1, <2>2, <2>4, <3>2
  <2> QED BY <2>3, <2>4
<1>8. ASSUME NEW k \in 1 .. n + 1
      PROVE  /\ ItemSeq(sent[k]) = L + 1 - (n + 1 - k)
             /\ sent[k].sync => k = 1 /\ sent[k].snap = ServerStateAt(sent[k].snap.seq)'
                                      /\ Jump(r, sent[k].snap.seq)'
             /\ ~ sent[k].sync => Published(sent[k].frame)'
  <2>1. CASE k = n + 1
    BY <1>4, <1>5, <2>1
  <2>2. CASE k # n + 1
    <3>1. k \in 1 .. n
      BY <2>2
    <3> QED BY <1>7, <3>1
  <2> QED BY <2>1, <2>2
<1>9. ASSUME sent = <<>> \/ ~ sent[1].sync
      PROVE  r.after # Null /\ r.after = L + 1 - (n + 1)
  <2>1. w = <<>> \/ ~ w[1].sync
    BY <1>2, <1>5, <1>9
  <2>2. r.after # Null /\ r.after = L - n
    BY <1>1, <1>2, <2>1 DEF LiveInv
  <2> QED BY <2>2
<1> QED BY <1>5, <1>6, <1>8, <1>9 DEF LiveInv

LEMMA PublishPipe ==
  ASSUME HistoryInv, Grows, NEW frame \in Frame,
         frame.seq = Len(history) + 1, Published(frame)',
         PhaseInv(conn, wire, client), Fanout(frame), client' = client
  PROVE  PhaseInv(conn, wire, client)'
<1>1. PICK c, w, r : c = conn /\ w = wire /\ r = client
  OBVIOUS
<1>2. PICK next, sent : next = conn' /\ sent = wire'
  OBVIOUS
<1>3. PICK L \in Nat : L = Len(history)
  BY DEF HistoryInv
<1>4. /\ c \in ConnType /\ w \in Seq(ItemType) /\ r \in ClientType
      /\ PhaseInv(c, w, r)
  BY <1>1 DEF PhaseInv
<1>5. /\ next = IF c.phase \in Reading
                  THEN [c EXCEPT !.buffered = Append(@, frame)] ELSE c
      /\ sent = IF c.phase = "live" THEN Append(w, FrameItem(frame)) ELSE w
  BY <1>1, <1>2 DEF Fanout
<1>6. ReaderInv(r)'
  <2>1. CASE r.after # Null
    <3>1. r.after \in 0 .. L /\ r.view = ServerStateAt(r.after)
      BY <1>3, <1>4, <2>1 DEF PhaseInv, ReaderInv
    <3>2. ServerStateAt(r.after)' = ServerStateAt(r.after)
      BY <1>3, <3>1, PastStays
    <3>3. r.after \in 0 .. Len(history')
      BY <1>3, <3>1 DEF Grows
    <3> QED BY <3>1, <3>2, <3>3 DEF ReaderInv
  <2> QED BY <2>1 DEF ReaderInv
<1>7. CASE c.phase = "closed"
  <2>1. next = c /\ sent = w
    BY <1>5, <1>7 DEF Reading
  <2> QED BY <1>1, <1>2, <1>4, <1>6, <1>7, <2>1 DEF PhaseInv
<1>8. CASE c.phase = "live"
  <2>1. next = c /\ sent = Append(w, FrameItem(frame)) /\ LiveInv(w, r)
    BY <1>4, <1>5, <1>8 DEF Reading, PhaseInv
  <2>2. sent \in Seq(ItemType) /\ LiveInv(sent, r)'
    BY <1>4, <2>1, LiveGrows
  <2> QED BY <1>1, <1>2, <1>4, <1>6, <1>8, <2>1, <2>2 DEF PhaseInv
<1>9. CASE c.phase = "replayed"
  <2>1. /\ next = [c EXCEPT !.buffered = Append(@, frame)] /\ sent = w
        /\ ReplayedInv(c, r) /\ HeldInv(c)
    BY <1>4, <1>5, <1>9 DEF Reading, PhaseInv, ReplayedInv
  <2>2. PICK from : from = Start(c)
    OBVIOUS
  <2>3. /\ next \in ConnType /\ HeldInv(next)' /\ Start(next)' = from
        /\ from \in 0 .. Len(history) /\ next.phase = c.phase
        /\ next.cursor = c.cursor /\ next.replay = c.replay
    BY <1>4, <2>1, <2>2, HeldGrows
  <2>4. next.cursor = r.after /\ r.after # Null /\ r.after \in Nat
    BY <1>4, <2>1, <2>3 DEF ReplayedInv, ClientType
  <2>5. ASSUME next.replay = Null PROVE Abstract!Lost(r.after, from)'
    <3>1. Abstract!Lost(r.after, from)
      BY <2>1, <2>2, <2>3, <2>5 DEF ReplayedInv
    <3> QED BY <2>3, <2>4, <3>1, LostStays
  <2>6. ASSUME next.replay # Null
        PROVE  Consecutive(next.replay, r.after)' /\ r.after + Len(next.replay) = from
    <3>1. Consecutive(next.replay, r.after) /\ r.after + Len(next.replay) = from
      BY <2>1, <2>2, <2>3, <2>6 DEF ReplayedInv
    <3> QED BY <3>1, ConsecutiveStays
  <2>7. ReplayedInv(next, r)'
    BY <2>3, <2>4, <2>5, <2>6 DEF ReplayedInv
  <2> QED BY <1>1, <1>2, <1>4, <1>6, <1>9, <2>1, <2>3, <2>7 DEF PhaseInv
<1>10. CASE c.phase = "snapped"
  <2>1. /\ next = [c EXCEPT !.buffered = Append(@, frame)] /\ sent = w
        /\ SnappedInv(c, r) /\ HeldInv(c)
    BY <1>4, <1>5, <1>10 DEF Reading, PhaseInv, SnappedInv
  <2>2. PICK from, seq : from = Start(c) /\ seq = c.snap.seq
    OBVIOUS
  <2>3. /\ next \in ConnType /\ HeldInv(next)' /\ Start(next)' = from
        /\ from \in 0 .. L /\ next.phase = c.phase /\ next.snap = c.snap
    BY <1>3, <1>4, <2>1, <2>2, HeldGrows
  <2>4. /\ next.snap \in SnapshotType /\ next.snap.seq = seq
        /\ seq \in from .. L /\ next.snap = ServerStateAt(seq) /\ Jump(r, seq)
    BY <1>3, <2>1, <2>2, <2>3 DEF SnappedInv
  <2>5. seq \in 0 .. L
    BY <2>3, <2>4
  <2>6. ServerStateAt(seq)' = ServerStateAt(seq)
    BY <1>3, <2>5, PastStays
  <2>7. Jump(r, seq)'
    <3>1. CASE r.after = Null
      BY <3>1 DEF Jump
    <3>2. CASE r.after # Null
      <4>1. r.after \in Nat /\ Abstract!Lost(r.after, seq)
        BY <1>4, <2>4, <3>2 DEF ClientType, Jump
      <4>2. Abstract!Lost(r.after, seq)'
        BY <1>3, <2>5, <4>1, LostStays
      <4> QED BY <4>2 DEF Jump
    <3> QED BY <3>1, <3>2
  <2>8. seq \in from .. Len(history')
    BY <1>3, <2>3, <2>4 DEF Grows
  <2>9. SnappedInv(next, r)'
    BY <2>3, <2>4, <2>6, <2>7, <2>8 DEF SnappedInv
  <2> QED BY <1>1, <1>2, <1>4, <1>6, <1>10, <2>1, <2>3, <2>9 DEF PhaseInv
<1> QED BY <1>4, <1>7, <1>8, <1>9, <1>10 DEF ConnType

\* What the reads of the bus return.
LEMMA BusSnapshotIsCurrent ==
  ASSUME ChannelInv
  PROVE  /\ BusSnapshot = ServerStateAt(Len(history))
         /\ BusSnapshot \in SnapshotType /\ BusSnapshot.seq = Len(history)
<1>1. HistoryInv /\ Len(history) \in 0 .. Len(history)
  BY DEF ChannelInv, HistoryInv
<1>2. BusSnapshot = ServerStateAt(Len(history))
  BY DEF BusSnapshot, ChannelInv, WindowInv, ServerStateAt
<1> QED BY <1>1, <1>2, ServerStateType

LEMMA BusReplayIsExact ==
  ASSUME ChannelInv, NEW after \in 0 .. Len(history)
  PROVE  LET replay == BusReplayAfter(after)
         IN  \/ replay = Null /\ Abstract!Lost(after, Len(history))
             \/ /\ Consecutive(replay, after) /\ replay # Null
                /\ after + Len(replay) = Len(history)
<1>1. CASE channel = Null
  <2>1. history = <<>> /\ after = 0
    BY <1>1 DEF ChannelInv
  <2>2. BusReplayAfter(after) = <<>>
    BY <1>1, <2>1 DEF BusReplayAfter
  <2> QED BY <2>1, <2>2, NothingIsConsecutive
<1>2. CASE channel # Null
  <2>1. HistoryInv /\ channel \in ChannelType /\ WindowInv(channel)
    BY <1>2 DEF ChannelInv
  <2>2. BusReplayAfter(after) = ReplayAfter(channel.log, after)
    BY <1>2 DEF BusReplayAfter
  <2> QED BY <2>1, <2>2, ReplayIsExact
<1> QED BY <1>1, <1>2

\* A point further on is out of reach too.
LEMMA LostFurther ==
  ASSUME NEW p \in Nat, NEW n \in Nat, NEW m \in Nat, n <= m, Abstract!Lost(p, n)
  PROVE  Abstract!Lost(p, m)
BY CapacityAssumption DEF Abstract!Lost

LEMMA ConsecutiveConcat ==
  ASSUME NEW a, NEW b, NEW from \in Nat, Consecutive(a, from),
         Consecutive(b, from + Len(a))
  PROVE  Consecutive(a \o b, from) /\ Len(a \o b) = Len(a) + Len(b)
<1>1. /\ a \in Seq(Frame) /\ b \in Seq(Frame) /\ a \o b \in Seq(Frame)
      /\ Len(a) \in Nat /\ Len(b) \in Nat /\ Len(a \o b) = Len(a) + Len(b)
  BY DEF Consecutive
<1>2. ASSUME NEW i \in 1 .. Len(a) + Len(b)
      PROVE  (a \o b)[i].seq = from + i /\ Published((a \o b)[i])
  <2>1. CASE i <= Len(a)
    <3>1. (a \o b)[i] = a[i] /\ i \in 1 .. Len(a)
      BY <1>1, <2>1
    <3> QED BY <3>1 DEF Consecutive
  <2>2. CASE i > Len(a)
    <3>1. (a \o b)[i] = b[i - Len(a)] /\ i - Len(a) \in 1 .. Len(b)
      BY <1>1, <2>2
    <3>2. b[i - Len(a)].seq = from + Len(a) + (i - Len(a)) /\ Published(b[i - Len(a)])
      BY <3>1 DEF Consecutive
    <3> QED BY <1>1, <3>1, <3>2
  <2> QED BY <1>1, <2>1, <2>2
<1> QED BY <1>1, <1>2 DEF Consecutive

\* Frames on the wire.
LEMMA FrameItemType ==
  ASSUME NEW frame \in Frame
  PROVE  /\ FrameItem(frame) \in ItemType /\ FrameItem(frame).sync = FALSE
         /\ FrameItem(frame).frame = frame
BY DEF FrameItem, ItemType

LEMMA FrameItemsType ==
  ASSUME NEW s \in Seq(Frame)
  PROVE  /\ FrameItems(s) \in Seq(ItemType) /\ Len(FrameItems(s)) = Len(s)
         /\ \A k \in 1 .. Len(s) :
              /\ FrameItems(s)[k] = FrameItem(s[k])
              /\ FrameItems(s)[k].sync = FALSE /\ FrameItems(s)[k].frame = s[k]
<1>1. ASSUME NEW k \in 1 .. Len(s)
      PROVE  /\ FrameItem(s[k]) \in ItemType /\ FrameItem(s[k]).sync = FALSE
             /\ FrameItem(s[k]).frame = s[k]
  <2>1. s[k] \in Frame
    OBVIOUS
  <2> QED BY <2>1, FrameItemType
<1>2. Len(s) \in Nat
  OBVIOUS
<1>3. FrameItems(s) = [k \in 1 .. Len(s) |-> FrameItem(s[k])]
  BY DEF FrameItems
<1>4. FrameItems(s) \in Seq(ItemType) /\ Len(FrameItems(s)) = Len(s)
  <2>1. FrameItems(s) \in [1 .. Len(s) -> ItemType]
    BY <1>1, <1>3
  <2> QED BY <1>2, <2>1
<1> QED BY <1>1, <1>3, <1>4

LEMMA FrameItemsConcat ==
  ASSUME NEW a \in Seq(Frame), NEW b \in Seq(Frame)
  PROVE  <<>> \o FrameItems(a) \o FrameItems(b) = FrameItems(a \o b)
<1>1. PICK u, v, t : u = FrameItems(a) /\ v = FrameItems(b) /\ t = FrameItems(a \o b)
  OBVIOUS
<1>2. a \o b \in Seq(Frame) /\ Len(a \o b) = Len(a) + Len(b)
  OBVIOUS
<1>3. /\ u \in Seq(ItemType) /\ v \in Seq(ItemType) /\ t \in Seq(ItemType)
      /\ Len(u) = Len(a) /\ Len(v) = Len(b) /\ Len(t) = Len(a) + Len(b)
  BY <1>1, <1>2, FrameItemsType
<1>4. ASSUME NEW k \in 1 .. Len(a) + Len(b) PROVE (u \o v)[k] = t[k]
  <2>1. t[k] = FrameItem((a \o b)[k])
    BY <1>1, <1>2, FrameItemsType
  <2>2. CASE k <= Len(a)
    <3>1. k \in 1 .. Len(a)
      BY <2>2
    <3>2. (u \o v)[k] = u[k] /\ (a \o b)[k] = a[k]
      BY <1>3, <3>1
    <3> QED BY <1>1, <2>1, <3>1, <3>2, FrameItemsType
  <2>3. CASE k > Len(a)
    <3>1. k - Len(a) \in 1 .. Len(b)
      BY <2>3
    <3>2. (u \o v)[k] = v[k - Len(a)] /\ (a \o b)[k] = b[k - Len(a)]
      BY <1>3, <2>3, <3>1
    <3>3. v[k - Len(a)] = FrameItem(b[k - Len(a)])
      BY <1>1, <3>1, FrameItemsType
    <3> QED BY <2>1, <3>2, <3>3
  <2>4. k <= Len(a) \/ k > Len(a)
    OBVIOUS
  <2> QED BY <2>2, <2>3, <2>4
<1>5. u \o v = t
  <2>1. u \o v \in Seq(ItemType) /\ Len(u \o v) = Len(t)
    BY <1>3
  <2> QED BY <1>3, <1>4, <2>1, SeqEqual
<1>6. <<>> \o u = u
  BY <1>3
<1> QED BY <1>1, <1>5, <1>6

-----------------------------------------------------------------------------
(* The invariant of the pipe, action by action.                            *)

LEMMA PipeNext ==
  ASSUME history' = history, drops' \in 0 .. MaxDrops,
         NEW c, NEW w, NEW r, PhaseInv(c, w, r),
         conn' = c, wire' = w, client' = r
  PROVE  PipeInv'
<1>1. PhaseInv(c, w, r)'
  BY PhaseFramed
<1> QED BY <1>1 DEF PipeInv

LEMMA ClosedPhase ==
  ASSUME NEW c, NEW w, NEW r, PhaseInv(c, w, r),
         NEW reader \in ClientType, reader.after = r.after, reader.view = r.view
  PROVE  PhaseInv(Closed, <<>>, reader)
<1>1. Closed \in ConnType /\ Closed.phase = "closed"
  BY BoundsAssumption DEF Closed, ConnType
<1>2. ReaderInv(reader)
  BY DEF PhaseInv, ReaderInv
<1> QED BY <1>1, <1>2 DEF PhaseInv

\* A connection that has just subscribed holds nothing back.
LEMMA NothingHeld ==
  ASSUME HistoryInv, NEW c, c.buffered = <<>>
  PROVE  HeldInv(c) /\ Start(c) = Len(history)
<1>1. Len(history) \in Nat /\ Len(<<>>) = 0
  BY DEF HistoryInv
<1>2. Start(c) = Len(history)
  BY <1>1 DEF Start
<1> QED BY <1>1, <1>2, NothingIsConsecutive DEF HeldInv

LEMMA ConnectPipe ==
  ASSUME ChannelInv, PipeInv, Connect
  PROVE  PipeInv'
<1>1. PICK r : r = client
  OBVIOUS
<1>2. /\ PhaseInv(conn, wire, r) /\ r \in ClientType /\ ReaderInv(r)
      /\ wire = <<>> /\ HistoryInv /\ generation \in 0 .. MaxResets
      /\ drops \in 0 .. MaxDrops
  BY <1>1 DEF PipeInv, PhaseInv, Connect, ChannelInv
<1>3. PICK L \in Nat : L = Len(history)
  BY <1>2 DEF HistoryInv
<1>4. CASE r.after = Null
  <2>1. PICK c : c = [Closed EXCEPT !.phase = "snapped", !.snap = BusSnapshot,
                                    !.readGen = generation]
    OBVIOUS
  <2>2. conn' = c
    BY <1>1, <1>4, <2>1 DEF Connect
  <2>3. /\ c.phase = "snapped" /\ c.snap = ServerStateAt(L) /\ c.snap.seq = L
        /\ c.snap \in SnapshotType /\ c.buffered = <<>>
    BY <1>3, <2>1, BusSnapshotIsCurrent DEF Closed
  <2>4. c \in ConnType
    <3>1. c = [phase |-> "snapped", cursor |-> Null, replay |-> Null,
               snap |-> BusSnapshot, buffered |-> <<>>, cursorGen |-> 0,
               readGen |-> generation, liveGen |-> 0]
      BY <2>1 DEF Closed
    <3>2. 0 \in 0 .. MaxResets /\ <<>> \in Seq(Frame) /\ BusSnapshot \in SnapshotType
      BY BusSnapshotIsCurrent, BoundsAssumption
    <3> QED BY <1>2, <3>1, <3>2 DEF ConnType
  <2>5. HeldInv(c) /\ Start(c) = L
    BY <1>2, <1>3, <2>3, NothingHeld
  <2>6. SnappedInv(c, r)
    BY <1>3, <1>4, <2>3, <2>5 DEF SnappedInv, Jump
  <2>7. PhaseInv(c, <<>>, r)
    BY <1>2, <2>3, <2>4, <2>6 DEF PhaseInv
  <2> QED BY <1>1, <1>2, <2>2, <2>7, PipeNext DEF Connect
<1>5. CASE r.after # Null
  <2>1. PICK replay : replay = BusReplayAfter(r.after)
    OBVIOUS
  <2>2. PICK c : c = [Closed EXCEPT !.phase = "replayed", !.cursor = r.after,
                                    !.replay = replay,
                                    !.cursorGen = r.gen, !.readGen = generation]
    OBVIOUS
  <2>3. conn' = c
    BY <1>1, <1>5, <2>1, <2>2 DEF Connect
  <2>4. /\ c.phase = "replayed" /\ c.cursor = r.after /\ c.replay = replay
        /\ c.buffered = <<>>
    BY <2>2 DEF Closed
  <2>5. r.after \in 0 .. L /\ r.after \in Nat
    BY <1>2, <1>3, <1>5 DEF ReaderInv
  <2>6. \/ replay = Null /\ Abstract!Lost(r.after, L)
        \/ /\ Consecutive(replay, r.after) /\ replay # Null
           /\ r.after + Len(replay) = L
    BY <1>3, <2>1, <2>5, BusReplayIsExact
  <2>7. replay \in Seq(Frame) \cup {Null}
    BY <2>6 DEF Consecutive
  <2>8. c \in ConnType
    <3>1. c = [phase |-> "replayed", cursor |-> r.after, replay |-> replay,
               snap |-> Null, buffered |-> <<>>, cursorGen |-> r.gen,
               readGen |-> generation, liveGen |-> 0]
      BY <2>2 DEF Closed
    <3>2. 0 \in 0 .. MaxResets /\ <<>> \in Seq(Frame) /\ r.gen \in 0 .. MaxResets
      BY <1>2, BoundsAssumption DEF ClientType
    <3> QED BY <1>2, <2>5, <2>7, <3>1, <3>2 DEF ConnType
  <2>9. HeldInv(c) /\ Start(c) = L
    BY <1>2, <1>3, <2>4, NothingHeld
  <2>10. ReplayedInv(c, r)
    BY <1>5, <2>4, <2>6, <2>9 DEF ReplayedInv
  <2>11. PhaseInv(c, <<>>, r)
    BY <1>2, <2>4, <2>8, <2>10 DEF PhaseInv
  <2> QED BY <1>1, <1>2, <2>3, <2>11, PipeNext DEF Connect
<1> QED BY <1>4, <1>5

LEMMA ReadSnapshotPipe ==
  ASSUME ChannelInv, PipeInv, ReadSnapshot
  PROVE  PipeInv'
<1>1. PICK c, r : c = conn /\ r = client
  OBVIOUS
<1>2. /\ c \in ConnType /\ r \in ClientType /\ ReaderInv(r) /\ wire = <<>>
      /\ ReplayedInv(c, r) /\ generation \in 0 .. MaxResets
      /\ drops \in 0 .. MaxDrops
  BY <1>1 DEF PipeInv, PhaseInv, ReadSnapshot, ChannelInv
<1>3. PICK L \in Nat : L = Len(history)
  BY DEF ChannelInv, HistoryInv
<1>4. PICK next : next = [c EXCEPT !.phase = "snapped", !.snap = BusSnapshot,
                                   !.readGen = generation]
  OBVIOUS
<1>5. conn' = next /\ c.replay = Null
  BY <1>1, <1>4 DEF ReadSnapshot
<1>6. /\ next.phase = "snapped" /\ next.snap = ServerStateAt(L)
      /\ next.snap.seq = L /\ next.snap \in SnapshotType
      /\ next.buffered = c.buffered
  BY <1>2, <1>3, <1>4, BusSnapshotIsCurrent DEF ConnType
<1>7. next \in ConnType
  BY <1>2, <1>4, BusSnapshotIsCurrent DEF ConnType
<1>8. HeldInv(next) /\ Start(next) = Start(c) /\ Start(c) \in Nat
  BY <1>2, <1>6 DEF ReplayedInv, HeldInv, Start
<1>9. Start(c) <= L
  <2>1. Len(c.buffered) \in Nat
    BY <1>2 DEF ConnType
  <2> QED BY <1>3, <2>1 DEF Start
<1>10. Abstract!Lost(r.after, L)
  <2>1. r.after \in Nat /\ Abstract!Lost(r.after, Start(c))
    BY <1>2, <1>5 DEF ReplayedInv, ClientType
  <2> QED BY <1>3, <1>8, <1>9, <2>1, LostFurther
<1>11. SnappedInv(next, r)
  BY <1>3, <1>6, <1>8, <1>9, <1>10 DEF SnappedInv, Jump
<1>12. PhaseInv(next, <<>>, r)
  BY <1>2, <1>6, <1>7, <1>11 DEF PhaseInv
<1> QED BY <1>1, <1>2, <1>5, <1>12, PipeNext DEF ReadSnapshot

LEMMA CountBack ==
  ASSUME NEW p \in Nat, NEW n \in Nat, NEW k \in 1 .. n
  PROVE  p + k = (p + n) - (n - k)
OBVIOUS

\* Frames sent to a reader who lacks exactly these.
LEMMA FramesAreLive ==
  ASSUME HistoryInv, NEW r \in ClientType, r.after # Null, NEW s,
         Consecutive(s, r.after), r.after + Len(s) = Len(history)
  PROVE  FrameItems(s) \in Seq(ItemType) /\ LiveInv(FrameItems(s), r)
<1>1. PICK w : w = FrameItems(s)
  OBVIOUS
<1>2. PICK L \in Nat : L = Len(history)
  BY DEF HistoryInv
<1>3. /\ s \in Seq(Frame) /\ Len(s) \in Nat /\ r.after \in Nat
      /\ r.after + Len(s) = L
  BY <1>2 DEF Consecutive, ClientType
<1>4. /\ w \in Seq(ItemType) /\ Len(w) = Len(s)
      /\ \A k \in 1 .. Len(s) : w[k].sync = FALSE /\ w[k].frame = s[k]
  BY <1>1, <1>3, FrameItemsType
<1>5. ASSUME NEW k \in 1 .. Len(w)
      PROVE  /\ ItemSeq(w[k]) = L - (Len(w) - k)
             /\ w[k].sync = FALSE /\ Published(w[k].frame)
  <2>1. s[k].seq = r.after + k /\ Published(s[k])
    BY <1>4 DEF Consecutive
  <2>2. w[k].sync = FALSE /\ w[k].frame = s[k] /\ ItemSeq(w[k]) = r.after + k
    BY <1>4, <2>1 DEF ItemSeq
  <2>3. r.after + k = L - (Len(w) - k)
    <3>1. PICK p \in Nat, n \in Nat : p = r.after /\ n = Len(w) /\ p + n = L
      BY <1>3, <1>4
    <3>2. p + k = (p + n) - (n - k)
      <4>1. k \in 1 .. n
        BY <3>1
      <4> QED BY <4>1, CountBack
    <3>3. p + k = L - (n - k)
      BY <3>1, <3>2
    <3>4. r.after + k = p + k /\ Len(w) - k = n - k
      BY <3>1
    <3> QED BY <3>3, <3>4
  <2> QED BY <2>1, <2>2, <2>3
<1>6. r.after = L - Len(w)
  BY <1>3, <1>4
<1> QED BY <1>1, <1>2, <1>4, <1>5, <1>6 DEF LiveInv

LEMMA FinishReplayPipe ==
  ASSUME ChannelInv, PipeInv, FinishReplay
  PROVE  PipeInv'
<1>1. PICK c, r : c = conn /\ r = client
  OBVIOUS
<1>2. /\ c \in ConnType /\ r \in ClientType /\ ReaderInv(r) /\ wire = <<>>
      /\ ReplayedInv(c, r) /\ generation \in 0 .. MaxResets
      /\ drops \in 0 .. MaxDrops /\ c.replay # Null /\ HistoryInv
  BY <1>1 DEF PipeInv, PhaseInv, FinishReplay, ChannelInv
<1>3. PICK L \in Nat : L = Len(history)
  BY <1>2 DEF HistoryInv
<1>4. PICK replay, held, from :
        replay = c.replay /\ held = c.buffered /\ from = Start(c)
  OBVIOUS
<1>5. /\ r.after # Null /\ r.after \in Nat /\ c.cursor = r.after
      /\ Consecutive(replay, r.after) /\ r.after + Len(replay) = from
      /\ from \in Nat /\ Consecutive(held, from)
  BY <1>2, <1>4 DEF ReplayedInv, HeldInv, ClientType
<1>6. Len(held) \in Nat /\ from + Len(held) = L /\ Len(replay) \in Nat
  <2>1. Len(held) \in Nat /\ Len(replay) \in Nat
    BY <1>5 DEF Consecutive
  <2>2. from = L - Len(held)
    BY <1>3, <1>4 DEF Start
  <2> QED BY <1>3, <2>1, <2>2
<1>7. WatermarkOf(replay, c.cursor) = from
  <2>1. CASE replay = <<>>
    BY <1>5, <2>1 DEF WatermarkOf
  <2>2. CASE replay # <<>>
    <3>1. Len(replay) \in 1 .. Len(replay)
      BY <1>5, <2>2 DEF Consecutive
    <3>2. replay[Len(replay)].seq = from
      BY <1>5, <3>1 DEF Consecutive
    <3> QED BY <2>2, <3>2 DEF WatermarkOf
  <2> QED BY <2>1, <2>2
<1>8. PICK flushed : flushed = Unseen(held, from)
  OBVIOUS
<1>9. Consecutive(flushed, from) /\ from + Len(flushed) = L
  <2>1. from \in from .. from + Len(held)
    BY <1>5, <1>6
  <2> QED BY <1>5, <1>6, <1>8, <2>1, FlushIsSuffix
<1>10. PICK all : all = replay \o flushed
  OBVIOUS
<1>11. Consecutive(all, r.after) /\ r.after + Len(all) = L
  <2>1. Consecutive(flushed, r.after + Len(replay))
    BY <1>5, <1>9
  <2>2. Consecutive(all, r.after) /\ Len(all) = Len(replay) + Len(flushed)
    BY <1>5, <1>10, <2>1, ConsecutiveConcat
  <2>3. Len(flushed) \in Nat
    BY <1>9 DEF Consecutive
  <2> QED BY <1>5, <1>6, <1>9, <2>2, <2>3
<1>12. wire' = FrameItems(all)
  <2>1. wire' = <<>> \o FrameItems(replay) \o FrameItems(flushed)
    BY <1>1, <1>2, <1>4, <1>7, <1>8 DEF FinishReplay
  <2>2. replay \in Seq(Frame) /\ flushed \in Seq(Frame)
    BY <1>5, <1>9 DEF Consecutive
  <2> QED BY <1>10, <2>1, <2>2, FrameItemsConcat
<1>13. FrameItems(all) \in Seq(ItemType) /\ LiveInv(FrameItems(all), r)
  BY <1>2, <1>3, <1>5, <1>11, FramesAreLive
<1>14. PICK next : next = [c EXCEPT !.phase = "live", !.replay = Null,
                                    !.buffered = <<>>, !.liveGen = generation]
  OBVIOUS
<1>15. conn' = next
  BY <1>1, <1>14 DEF FinishReplay
<1>16. next.phase = "live" /\ next \in ConnType
  <2>1. <<>> \in Seq(Frame)
    OBVIOUS
  <2> QED BY <1>2, <1>14, <2>1 DEF ConnType
<1>17. PhaseInv(next, FrameItems(all), r)
  BY <1>2, <1>13, <1>16 DEF PhaseInv
<1> QED BY <1>1, <1>2, <1>12, <1>15, <1>17, PipeNext DEF FinishReplay

LEMMA FinishSyncPipe ==
  ASSUME ChannelInv, PipeInv, FinishSync
  PROVE  PipeInv'
<1>1. PICK c, r : c = conn /\ r = client
  OBVIOUS
<1>2. /\ c \in ConnType /\ r \in ClientType /\ ReaderInv(r) /\ wire = <<>>
      /\ SnappedInv(c, r) /\ generation \in 0 .. MaxResets
      /\ drops \in 0 .. MaxDrops /\ HistoryInv
  BY <1>1 DEF PipeInv, PhaseInv, FinishSync, ChannelInv
<1>3. PICK L \in Nat : L = Len(history)
  BY <1>2 DEF HistoryInv
<1>4. PICK held, from, seq :
        held = c.buffered /\ from = Start(c) /\ seq = c.snap.seq
  OBVIOUS
<1>5. /\ from \in Nat /\ Consecutive(held, from) /\ seq \in from .. L
      /\ c.snap = ServerStateAt(seq) /\ Jump(r, seq) /\ c.snap \in SnapshotType
  BY <1>2, <1>3, <1>4 DEF SnappedInv, HeldInv
<1>6. Len(held) \in Nat /\ from + Len(held) = L
  <2>1. Len(held) \in Nat
    BY <1>5 DEF Consecutive
  <2>2. from = L - Len(held)
    BY <1>3, <1>4 DEF Start
  <2> QED BY <1>3, <2>1, <2>2
<1>7. PICK flushed : flushed = Unseen(held, seq)
  OBVIOUS
<1>8. /\ Consecutive(flushed, seq) /\ flushed \in Seq(Frame)
      /\ Len(flushed) \in Nat /\ seq + Len(flushed) = L
  <2>1. Consecutive(flushed, seq) /\ seq + Len(flushed) = L
    BY <1>5, <1>6, <1>7, FlushIsSuffix
  <2> QED BY <2>1 DEF Consecutive
<1>9. PICK item : item = SyncItem(c.snap, c.cursor # Null, conn.readGen)
  OBVIOUS
<1>10. item \in ItemType /\ item.sync = TRUE /\ item.snap = c.snap
  <2>1. /\ item = [sync |-> TRUE, snap |-> c.snap, resync |-> c.cursor # Null,
                   gen |-> c.readGen]
        /\ c.readGen \in 0 .. MaxResets
    BY <1>1, <1>2, <1>9 DEF SyncItem, ConnType
  <2>2. (c.cursor # Null) \in BOOLEAN
    OBVIOUS
  <2> QED BY <1>5, <2>1, <2>2 DEF ItemType
<1>11. PICK frames, sent :
         frames = FrameItems(flushed) /\ sent = Append(<<>>, item) \o frames
  OBVIOUS
<1>12. wire' = sent
  BY <1>1, <1>2, <1>4, <1>7, <1>9, <1>11 DEF FinishSync
<1>13. /\ frames \in Seq(ItemType) /\ Len(frames) = Len(flushed)
       /\ \A k \in 1 .. Len(flushed) :
            frames[k].sync = FALSE /\ frames[k].frame = flushed[k]
  BY <1>8, <1>11, FrameItemsType
<1>14. /\ sent \in Seq(ItemType) /\ Len(sent) = Len(flushed) + 1 /\ sent[1] = item
       /\ \A k \in 2 .. Len(flushed) + 1 : sent[k] = frames[k - 1]
  <2>1. Append(<<>>, item) = <<item>> /\ <<item>> \in Seq(ItemType)
    BY <1>10
  <2> QED BY <1>8, <1>11, <1>13, <2>1
<1>15. ASSUME NEW k \in 1 .. Len(sent)
       PROVE  /\ ItemSeq(sent[k]) = L - (Len(sent) - k)
              /\ sent[k].sync => k = 1 /\ sent[k].snap = ServerStateAt(sent[k].snap.seq)
                                       /\ Jump(r, sent[k].snap.seq)
              /\ ~ sent[k].sync => Published(sent[k].frame)
  <2>1. CASE k = 1
    <3>1. ItemSeq(item) = seq
      BY <1>4, <1>10 DEF ItemSeq
    <3>2. seq = L - (Len(sent) - 1)
      BY <1>5, <1>8, <1>14
    <3> QED BY <1>4, <1>5, <1>10, <1>14, <2>1, <3>1, <3>2
  <2>2. CASE k # 1
    <3>1. k \in 2 .. Len(flushed) + 1 /\ k - 1 \in 1 .. Len(flushed)
      BY <1>8, <1>14, <2>2
    <3>2. sent[k].sync = FALSE /\ sent[k].frame = flushed[k - 1]
      BY <1>13, <1>14, <3>1
    <3>3. flushed[k - 1].seq = seq + (k - 1) /\ Published(flushed[k - 1])
      BY <1>8, <3>1 DEF Consecutive
    <3>4. seq + (k - 1) = L - (Len(sent) - k)
      <4>1. seq \in Nat /\ Len(flushed) \in Nat /\ seq + Len(flushed) = L
        BY <1>5, <1>8
      <4>2. Len(sent) = Len(flushed) + 1
        BY <1>14
      <4> QED BY <4>1, <4>2
    <3> QED BY <3>2, <3>3, <3>4 DEF ItemSeq
  <2> QED BY <2>1, <2>2
<1>16. LiveInv(sent, r)
  <2>1. sent # <<>> /\ sent[1].sync
    BY <1>8, <1>10, <1>14
  <2> QED BY <1>3, <1>15, <2>1 DEF LiveInv
<1>17. PICK next : next = [c EXCEPT !.phase = "live", !.snap = Null,
                                    !.buffered = <<>>, !.liveGen = generation]
  OBVIOUS
<1>18. conn' = next
  BY <1>1, <1>17 DEF FinishSync
<1>19. next.phase = "live" /\ next \in ConnType
  <2>1. <<>> \in Seq(Frame)
    OBVIOUS
  <2> QED BY <1>2, <1>17, <2>1 DEF ConnType
<1>20. PhaseInv(next, sent, r)
  BY <1>2, <1>14, <1>16, <1>19 DEF PhaseInv
<1> QED BY <1>1, <1>2, <1>12, <1>18, <1>20, PipeNext DEF FinishSync

LEMMA ReceivePipe ==
  ASSUME ChannelInv, PipeInv, Receive
  PROVE  /\ PipeInv'
         /\ \/ /\ client.after # Null /\ client.after < Len(history)
               /\ client'.after = client.after + 1
               /\ client'.view = ServerStateAt(client.after + 1)
            \/ /\ client'.after \in 0 .. Len(history)
               /\ client'.view = ServerStateAt(client'.after)
               /\ Jump(client, client'.after)
<1>1. PICK c, w, r : c = conn /\ w = wire /\ r = client
  OBVIOUS
<1>2. /\ c \in ConnType /\ w \in Seq(ItemType) /\ w # <<>> /\ r \in ClientType
      /\ ReaderInv(r) /\ c.phase = "live" /\ LiveInv(w, r)
      /\ drops \in 0 .. MaxDrops /\ HistoryInv
  BY <1>1 DEF PipeInv, PhaseInv, Receive, ChannelInv, ConnType
<1>3. PICK L \in Nat : L = Len(history)
  BY <1>2 DEF HistoryInv
<1>4. PICK n, item, rest : n = Len(w) /\ item = w[1] /\ rest = Tail(w)
  OBVIOUS
<1>5. /\ n \in Nat \ {0} /\ item \in ItemType /\ item = Head(w)
      /\ rest \in Seq(ItemType) /\ Len(rest) = n - 1
      /\ \A k \in 1 .. n - 1 : rest[k] = w[k + 1]
  BY <1>2, <1>4
<1>6. /\ ItemSeq(item) = L - (n - 1)
      /\ item.sync => item.snap = ServerStateAt(item.snap.seq) /\ Jump(r, item.snap.seq)
      /\ ~ item.sync => Published(item.frame) /\ r.after # Null /\ r.after = L - n
  BY <1>2, <1>3, <1>4, <1>5 DEF LiveInv
<1>7. ASSUME NEW k \in 1 .. n - 1
      PROVE  /\ ItemSeq(rest[k]) = L - (n - 1 - k)
             /\ rest[k].sync = FALSE /\ Published(rest[k].frame)
  <2>1. k + 1 \in 1 .. n /\ k + 1 # 1 /\ rest[k] = w[k + 1]
    BY <1>5
  <2>2. w[k + 1] \in ItemType
    BY <1>2, <1>4, <2>1
  <2>3. ~ w[k + 1].sync
    BY <1>2, <1>4, <2>1 DEF LiveInv
  <2>4. w[k + 1].sync = FALSE /\ Published(w[k + 1].frame)
    BY <1>2, <1>4, <2>1, <2>2, <2>3, ItemKinds DEF LiveInv
  <2>5. ItemSeq(w[k + 1]) = L - (n - (k + 1))
    BY <1>2, <1>3, <1>4, <2>1 DEF LiveInv
  <2>6. n - (k + 1) = n - 1 - k
    BY <1>5
  <2> QED BY <2>1, <2>4, <2>5, <2>6
<1>8. wire' = rest /\ conn' = c
  BY <1>1, <1>4 DEF Receive
<1>9. ASSUME NEW reader \in ClientType, reader.after = ItemSeq(item)
      PROVE  LiveInv(rest, reader)
  <2>1. reader.after # Null
    BY <1>5, <1>9, ItemKinds, NullAssumption
  <2> QED BY <1>3, <1>5, <1>6, <1>7, <1>9, <2>1 DEF LiveInv
<1>10. ItemSeq(item) \in 0 .. L
  <2>1. ItemSeq(item) \in Nat
    BY <1>5, ItemKinds
  <2> QED BY <1>5, <1>6, <2>1
<1>11. CASE item.sync
  <2>1. PICK reader : reader = [r EXCEPT !.after = item.snap.seq, !.view = item.snap,
                                         !.gen = item.gen]
    OBVIOUS
  <2>2. client' = reader
    BY <1>1, <1>5, <1>11, <2>1 DEF Receive
  <2>3. /\ item.snap \in SnapshotType /\ item.gen \in 0 .. MaxResets
        /\ ItemSeq(item) = item.snap.seq /\ item.snap.seq \in Nat
    BY <1>5, <1>11, ItemKinds DEF ItemSeq
  <2>4. reader \in ClientType /\ reader.after = ItemSeq(item) /\ reader.view = item.snap
    BY <1>2, <2>1, <2>3 DEF ClientType
  <2>5. /\ reader.after \in 0 .. L /\ reader.view = ServerStateAt(reader.after)
        /\ Jump(r, reader.after)
    BY <1>6, <1>10, <1>11, <2>3, <2>4
  <2>6. PhaseInv(c, rest, reader)
    BY <1>2, <1>3, <1>5, <1>9, <2>4, <2>5 DEF PhaseInv, ReaderInv
  <2>7. PipeInv'
    BY <1>2, <1>8, <2>2, <2>6, PipeNext DEF Receive
  <2> QED BY <1>1, <1>3, <2>2, <2>5, <2>7
<1>12. CASE ~ item.sync
  <2>1. PICK frame : frame = item.frame
    OBVIOUS
  <2>2. PICK reader : reader = [r EXCEPT !.after = frame.seq,
                                         !.view = ReduceSnapshot(@, frame),
                                         !.gen = frame.data[1]]
    OBVIOUS
  <2>3. client' = reader
    BY <1>1, <1>5, <1>12, <2>1, <2>2 DEF Receive
  <2>4. /\ frame \in Frame /\ Published(frame) /\ ItemSeq(item) = frame.seq
        /\ frame.seq \in Nat /\ frame.data[1] \in 0 .. MaxResets
    <3>1. frame \in Frame /\ Published(frame) /\ ItemSeq(item) = frame.seq
      BY <1>5, <1>6, <1>12, <2>1, ItemKinds DEF ItemSeq
    <3> QED BY <3>1 DEF Frame, FrameData
  <2>5. /\ r.after # Null /\ r.after \in Nat /\ r.after = L - n
        /\ frame.seq = r.after + 1 /\ r.after < L
    <3>1. r.after # Null /\ r.after \in Nat /\ r.after = L - n
      BY <1>2, <1>6, <1>12 DEF ClientType
    <3>2. frame.seq = L - (n - 1)
      BY <1>6, <2>4
    <3> QED BY <1>5, <3>1, <3>2
  <2>6. r.view = ServerStateAt(r.after)
    BY <1>2, <2>5 DEF ReaderInv
  <2>7. ReduceSnapshot(r.view, frame) = ServerStateAt(frame.seq)
    <3>1. frame.seq - 1 = r.after /\ frame.seq # 0
      BY <2>5
    <3>2. history[frame.seq].snap = ReduceSnapshot(ServerStateAt(r.after), frame)
      BY <2>4, <3>1 DEF Published
    <3> QED BY <2>6, <3>1, <3>2 DEF ServerStateAt
  <2>8. ServerStateAt(frame.seq) \in SnapshotType
    <3>1. frame.seq \in 0 .. Len(history)
      BY <1>3, <1>10, <2>4
    <3> QED BY <1>2, <3>1, ServerStateType
  <2>9. /\ reader \in ClientType /\ reader.after = ItemSeq(item)
        /\ reader.view = ServerStateAt(reader.after)
    BY <1>2, <2>2, <2>4, <2>7, <2>8 DEF ClientType
  <2>10. PhaseInv(c, rest, reader)
    BY <1>2, <1>3, <1>5, <1>9, <1>10, <2>9 DEF PhaseInv, ReaderInv
  <2>11. PipeInv'
    BY <1>2, <1>8, <2>3, <2>10, PipeNext DEF Receive
  <2> QED BY <1>1, <1>3, <2>3, <2>4, <2>5, <2>9, <2>11
<1> QED BY <1>11, <1>12

LEMMA ClosePipe ==
  ASSUME PipeInv, Drop \/ Unsubscribe
  PROVE  PipeInv'
<1>1. PICK r : r = client'
  OBVIOUS
<1>2. /\ r \in ClientType /\ r.after = client.after /\ r.view = client.view
      /\ PhaseInv(conn, wire, client)
  BY <1>1 DEF PipeInv, PhaseInv, Drop, Unsubscribe, ClientType
<1>3. PhaseInv(Closed, <<>>, r)
  BY <1>2, ClosedPhase
<1>4. drops' \in 0 .. MaxDrops
  BY BoundsAssumption DEF PipeInv, Drop, Unsubscribe
<1>5. conn' = Closed /\ wire' = <<>> /\ history' = history
  BY DEF Drop, Unsubscribe
<1> QED BY <1>1, <1>3, <1>4, <1>5, PipeNext

LEMMA PipeInit == Init => PipeInv
<1> SUFFICES ASSUME Init PROVE PipeInv
  OBVIOUS
<1>1. /\ conn = Closed /\ wire = <<>> /\ drops = 0
      /\ client = [watching |-> TRUE, after |-> Null, view |-> Null, gen |-> 0]
  BY DEF Init
<1>2. Closed \in ConnType /\ Closed.phase = "closed"
  BY BoundsAssumption DEF Closed, ConnType
<1>3. client \in ClientType /\ client.after = Null
  BY <1>1, BoundsAssumption DEF ClientType
<1>4. PhaseInv(Closed, <<>>, client)
  BY <1>2, <1>3 DEF PhaseInv, ReaderInv
<1> QED BY <1>1, <1>4, BoundsAssumption DEF PipeInv

LEMMA PipeStep ==
  ASSUME MaxResets = 0, ChannelInv, PipeInv, [Next]_vars
  PROVE  PipeInv'
<1>1. CASE \E type \in EventTypes, turn \in Turns : Publish(type, turn)
  <2>1. PICK type \in EventTypes, turn \in Turns : Publish(type, turn)
    BY <1>1
  <2>2. client' = client /\ drops' = drops
    BY <2>1 DEF Publish
  <2>3. PICK frame \in Frame :
          /\ frame.seq = Len(history) + 1 /\ Grows /\ Published(frame)'
          /\ Fanout(frame)
    BY <2>1, PublishEffect
  <2>4. PhaseInv(conn, wire, client)'
    BY <2>2, <2>3, PublishPipe DEF ChannelInv, PipeInv
  <2> QED BY <2>2, <2>4 DEF PipeInv
<1>2. ~ Evict /\ ~ Restart
  BY DEF ChannelInv, Evict, Restart
<1>3. CASE Connect
  BY <1>3, ConnectPipe
<1>4. CASE ReadSnapshot
  BY <1>4, ReadSnapshotPipe
<1>5. CASE FinishReplay
  BY <1>5, FinishReplayPipe
<1>6. CASE FinishSync
  BY <1>6, FinishSyncPipe
<1>7. CASE Receive
  BY <1>7, ReceivePipe
<1>8. CASE Drop \/ Unsubscribe
  BY <1>8, ClosePipe
<1>9. CASE UNCHANGED vars
  <2>1. PICK c, w, r : c = conn /\ w = wire /\ r = client
    OBVIOUS
  <2>2. PhaseInv(c, w, r) /\ drops \in 0 .. MaxDrops
    BY <2>1 DEF PipeInv
  <2>3. conn' = c /\ wire' = w /\ client' = r /\ history' = history /\ drops' = drops
    BY <1>9, <2>1 DEF vars
  <2> QED BY <2>2, <2>3, PipeNext
<1> QED BY <1>1, <1>2, <1>3, <1>4, <1>5, <1>6, <1>7, <1>8, <1>9 DEF Next

LEMMA PipeInvariant ==
  ASSUME MaxResets = 0
  PROVE  Spec => [](ChannelInv /\ PipeInv)
<1>1. Init => ChannelInv /\ PipeInv
  BY ChannelInit, PipeInit
<1>2. ChannelInv /\ PipeInv /\ [Next]_vars => (ChannelInv /\ PipeInv)'
  BY ChannelStep, PipeStep
<1> QED BY <1>1, <1>2, PTL DEF Spec

\* Every variable of a stream without resets keeps its type.
THEOREM StreamTypes ==
  ASSUME MaxResets = 0
  PROVE  Spec => []TypeOK
<1>1. ChannelInv /\ PipeInv => TypeOK
  BY DEF ChannelInv, HistoryInv, PipeInv, PhaseInv, TypeOK, Entry, ConnType, ClientType
<1> QED BY <1>1, PipeInvariant, PTL

\* resume.ts and stitch.ts, "no gap, no duplicate": in a stream whose channel is
\* not lost, whatever was dropped, replayed, held back and flushed, the reader
\* at seq n holds the state the server had when it published n.
THEOREM ViewIsServerStateAlways ==
  ASSUME MaxResets = 0
  PROVE  Spec => []ViewIsServerState
<1>1. ChannelInv /\ PipeInv => ViewIsServerState
  <2> SUFFICES ASSUME ChannelInv, PipeInv, client.after # Null
               PROVE  /\ client.after <= Len(history)
                      /\ client.view = ServerStateAt(client.after)
    BY DEF ViewIsServerState
  <2>1. /\ client.after \in 0 .. Len(history)
        /\ client.view = ServerStateAt(client.after)
    BY DEF PipeInv, PhaseInv, ReaderInv
  <2> QED BY <2>1
<1> QED BY <1>1, PipeInvariant, PTL

\* wire.ts: the connection, its reconnects and its buffers implement the stream
\* its readers are promised: one frame after the other, and a jump only over
\* frames that the window has lost.
THEOREM StreamIsReliable ==
  ASSUME MaxResets = 0
  PROVE  Spec => ImplementsReliableStream
<1>1. Init => Abstract!Init
  BY DEF Init, Abstract!Init
<1>2. ASSUME ChannelInv, PipeInv, [Next]_vars
      PROVE  [Abstract!Next]_(Abstract!vars)
  <2>1. CASE \E type \in EventTypes, turn \in Turns : Publish(type, turn)
    <3>1. PICK type \in EventTypes, turn \in Turns : Publish(type, turn)
      BY <2>1
    <3>2. client' = client
      BY <3>1 DEF Publish
    <3>3. Grows
      BY <1>2, <3>1, PublishEffect
    <3> QED BY <3>2, <3>3 DEF Grows, Abstract!Next, Abstract!Publish
  <2>2. ~ Evict /\ ~ Restart
    BY <1>2 DEF ChannelInv, Evict, Restart
  <2>3. CASE Receive
    <3>1. CASE /\ client.after # Null /\ client.after < Len(history)
               /\ client'.after = client.after + 1
               /\ client'.view = ServerStateAt(client.after + 1)
      <4>1. ServerStateAt(client.after + 1) = Abstract!StateAt(client.after + 1)
        BY DEF ServerStateAt, Abstract!StateAt
      <4>2. Abstract!Follow
        BY <2>3, <3>1, <4>1 DEF Receive, Abstract!Follow
      <4> QED BY <4>2 DEF Abstract!Next
    <3>2. CASE /\ client'.after \in 0 .. Len(history)
               /\ client'.view = ServerStateAt(client'.after)
               /\ Jump(client, client'.after)
      <4>1. PICK n : n = client'.after
        OBVIOUS
      <4>2. ServerStateAt(n) = Abstract!StateAt(n)
        BY DEF ServerStateAt, Abstract!StateAt
      <4>3. Abstract!Synchronise
        BY <2>3, <3>2, <4>1, <4>2 DEF Receive, Jump, Abstract!Synchronise
      <4> QED BY <4>3 DEF Abstract!Next
    <3> QED BY <1>2, <2>3, <3>1, <3>2, ReceivePipe
  <2>4. CASE UNCHANGED <<history, client>>
    BY <2>4 DEF Abstract!vars
  <2>5. CASE Unsubscribe
    <3>1. client'.after = client.after /\ client'.view = client.view
      BY <1>2, <2>5 DEF Unsubscribe, PipeInv, PhaseInv, ClientType
    <3> QED BY <2>5, <3>1 DEF Unsubscribe, Abstract!vars
  <2> QED BY <1>2, <2>1, <2>2, <2>3, <2>4, <2>5
          DEF Next, vars, Connect, ReadSnapshot, FinishReplay, FinishSync, Drop
<1>3. ChannelInv /\ PipeInv /\ [Next]_vars => [Abstract!Next]_(Abstract!vars)
  BY <1>2
<1> QED BY <1>1, <1>3, PipeInvariant, PTL
        DEF Spec, ImplementsReliableStream, Abstract!Spec
=============================================================================
