------------------------------ MODULE RingBuffer ------------------------------
(***************************************************************************)
(* The fixed-capacity ring of packages/runtime-client/src/ring-buffer.ts:  *)
(* a backing array, the backing index `head` of the oldest element and the *)
(* number `length` of elements.  Logical index 0 is the oldest element.    *)
(***************************************************************************)
EXTENDS Integers, Sequences, Wire

CONSTANT Capacity   \* REPLAY_BUFFER_CAP in the code (1024)

\* The constructor throws a RangeError on anything else.
ASSUME CapacityAssumption == Capacity \in Nat \ {0}

Slots == 0 .. Capacity - 1

\* A new ring, and what clear() leaves: no element and no stale reference.
EmptyRing == [store |-> [slot \in Slots |-> Null], head |-> 0, length |-> 0]

\* Mutants of Push: a full ring goes on growing; a full ring overwrites its
\* oldest element but goes on calling that slot the oldest.
PushWithoutLimit(ring, value) ==
  [ring EXCEPT !.store[(ring.head + ring.length) % Capacity] = value,
               !.length = @ + 1]

PushKeepingHead(ring, value) ==
  IF ring.length < Capacity
    THEN [ring EXCEPT !.store[(ring.head + ring.length) % Capacity] = value,
                      !.length = @ + 1]
    ELSE [ring EXCEPT !.store[ring.head] = value]

\* push: while there is room the element goes behind the newest one; a full
\* ring overwrites its oldest element and moves the head one slot on.
Push(ring, value) ==
  IF ring.length < Capacity
    THEN [ring EXCEPT !.store[(ring.head + ring.length) % Capacity] = value,
                      !.length = @ + 1]
    ELSE [ring EXCEPT !.store[ring.head] = value,
                      !.head = (@ + 1) % Capacity]

\* at: the element at a logical index, undefined outside 0 .. length - 1.
At(ring, index) ==
  IF index \in 0 .. ring.length - 1
    THEN ring.store[(ring.head + index) % Capacity]
    ELSE Null

\* sliceFrom: a fresh array of the elements from a logical index onward.
SliceFrom(ring, from) ==
  LET start == IF from < 0 THEN 0 ELSE from
  IN  [k \in 1 .. ring.length - start |-> At(ring, start + k - 1)]

RingType(Values) ==
  [store : [Slots -> Values \cup {Null}], head : Slots, length : 0 .. Capacity]
=============================================================================
