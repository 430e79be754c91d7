------------------------------ MODULE ReplayLog -------------------------------
(***************************************************************************)
(* The sequencing authority of one conversation stream,                    *)
(* packages/runtime-client/src/replay.ts: a counter (`watermark`) and the  *)
(* ring of the frames of the turn in flight.                               *)
(***************************************************************************)
EXTENDS RingBuffer

NewLog(watermark) == [watermark |-> watermark, buffer |-> EmptyRing]

\* The frame append() returns: the event stamped watermark + 1.
Stamped(log, event) ==
  [seq |-> log.watermark + 1, type |-> event.type, turn |-> event.turn,
   data |-> event.data]

AppendEvent(log, event) ==
  [watermark |-> log.watermark + 1,
   buffer    |-> Push(log.buffer, Stamped(log, event))]

\* The seq of the oldest buffered frame, or the next seq when none is buffered.
FirstBuffered(log) ==
  IF At(log.buffer, 0) # Null THEN At(log.buffer, 0).seq ELSE log.watermark + 1

\* Mutant of BinarySearch: looks for the cursor's own frame.
BinarySearchForCursor(log, after) ==
  LET search[range \in (0 .. Capacity) \X (0 .. Capacity)] ==
        LET lo == range[1]  hi == range[2]  mid == (lo + hi) \div 2 IN
        IF lo >= hi THEN lo
        ELSE IF At(log.buffer, mid).seq >= after THEN search[<<lo, mid>>]
        ELSE search[<<mid + 1, hi>>]
  IN  search[<<0, log.buffer.length>>]

\* #firstIndexAfter as the code computes it.
BinarySearch(log, after) ==
  LET search[range \in (0 .. Capacity) \X (0 .. Capacity)] ==
        LET lo == range[1]  hi == range[2]  mid == (lo + hi) \div 2 IN
        IF lo >= hi THEN lo
        ELSE IF At(log.buffer, mid).seq > after THEN search[<<lo, mid>>]
        ELSE search[<<mid + 1, hi>>]
  IN  search[<<0, log.buffer.length>>]

\* What #firstIndexAfter returns: the least index whose frame lies behind the
\* cursor.  SearchIsExact compares the two in every state the runs reach.
FirstIndexAfter(log, after) ==
  CHOOSE i \in 0 .. log.buffer.length :
    /\ \A j \in 0 .. i - 1 : At(log.buffer, j).seq <= after
    /\ i < log.buffer.length => At(log.buffer, i).seq > after

\* Mutant of ReplayAfter: the cursor just before the window counts as too old.
ReplayAfterOffByOne(log, after) ==
  IF after > log.watermark THEN Null
  ELSE IF after = log.watermark THEN <<>>
  ELSE IF after < FirstBuffered(log) THEN Null
  ELSE SliceFrom(log.buffer, FirstIndexAfter(log, after))

\* replayAfter: the frames behind the cursor, or Null when the cursor is ahead
\* of the watermark or older than the buffered window.
ReplayAfter(log, after) ==
  IF after > log.watermark THEN Null
  ELSE IF after = log.watermark THEN <<>>
  ELSE IF after < FirstBuffered(log) - 1 THEN Null
  ELSE SliceFrom(log.buffer, FirstIndexAfter(log, after))

\* Mutant of ClearLog: the end of a turn starts the count again.
ClearLogAndCounter(log) == NewLog(0)

\* clear: the window goes, the counter stays.
ClearLog(log) == [log EXCEPT !.buffer = EmptyRing]
=============================================================================
