------------------------------- MODULE Snapshot -------------------------------
(***************************************************************************)
(* The in-flight snapshot of a conversation and its reducer,               *)
(* packages/runtime-client/src/snapshot.ts.  `partial` is the sequence of  *)
(* text deltas of the running turn; a delta is represented by the `data`   *)
(* of its frame.                                                           *)
(***************************************************************************)
EXTENDS Naturals, Sequences, Wire

EmptySnapshot == [running |-> FALSE, partial |-> <<>>, seq |-> 0, turn |-> Null]

\* The turn a non-terminal frame leaves in the snapshot: its own, else the
\* one already running.
TurnAfter(prev, frame) == IF frame.turn # Null THEN frame.turn ELSE prev.turn

ReduceSnapshot(prev, frame) ==
  CASE frame.type = "user" ->
         [running |-> TRUE, partial |-> <<>>, seq |-> frame.seq,
          turn |-> frame.turn]
    [] frame.type = "text" ->
         [running |-> TRUE, partial |-> Append(prev.partial, frame.data),
          seq |-> frame.seq, turn |-> TurnAfter(prev, frame)]
    [] frame.type = "activity" ->
         [running |-> TRUE, partial |-> prev.partial,
          seq |-> frame.seq, turn |-> TurnAfter(prev, frame)]
    [] frame.type = "marker" ->
         [running |-> prev.running, partial |-> prev.partial,
          seq |-> frame.seq, turn |-> TurnAfter(prev, frame)]
    [] IsTerminal(frame) ->
         [running |-> FALSE, partial |-> <<>>, seq |-> frame.seq, turn |-> Null]
=============================================================================
