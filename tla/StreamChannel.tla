----------------------------- MODULE StreamChannel ----------------------------
(***************************************************************************)
(* One conversation's publish side,                                        *)
(* packages/runtime-client/src/stream-channel.ts: append, reduce, fan out, *)
(* and drop the replay window after a terminal frame.  The fan-out is the  *)
(* caller's; Sequenced and SettledChannel are the states on either side of *)
(* it, so that an asynchronous fan-out can sit between the two.            *)
(***************************************************************************)
EXTENDS ReplayLog, Snapshot

\* The constructor: an existing stream goes on from its persisted snapshot.
NewChannel(seed) == [log |-> NewLog(seed.seq), snap |-> seed]

\* #sequence: append and reduce.
Sequenced(channel, event) ==
  [log  |-> AppendEvent(channel.log, event),
   snap |-> ReduceSnapshot(channel.snap, Stamped(channel.log, event))]

\* #settle: a terminal frame closes the replay window.
SettledChannel(channel, frame) ==
  IF IsTerminal(frame) THEN [channel EXCEPT !.log = ClearLog(@)] ELSE channel
=============================================================================
