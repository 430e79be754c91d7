---------------------------- MODULE ReliableStream ----------------------------
(***************************************************************************)
(* What a resumable conversation stream promises its reader, with no       *)
(* buffers, connections or cursors: the server's state moves through a     *)
(* history, the reader's picture is always the server's state at one point *)
(* of that history, and the point only moves forward - one frame at a      *)
(* time, or by a resync when frames behind it cannot be replayed any more. *)
(***************************************************************************)
EXTENDS Naturals, Sequences

CONSTANTS
  Null,
  Window,   \* how many frames the server keeps for replay
  Idle      \* the state before the first frame

VARIABLES
  history,    \* <<[terminal, snap], ...>>: each frame and the state it led to
  position,   \* the point the reader has reached, Null before its first sync
  view        \* what the reader holds

vars == <<history, position, view>>

StateAt(n) == IF n = 0 THEN Idle ELSE history[n].snap

\* Frames p+1 .. n are no longer all kept: a turn ended among them, or there
\* are more of them than the window holds.
Lost(p, n) ==
  /\ p < n
  /\ \/ n - p > Window
     \/ \E k \in p + 1 .. n : history[k].terminal

Init == history = <<>> /\ position = Null /\ view = Null

Publish ==
  /\ Len(history') = Len(history) + 1
  /\ \A k \in 1 .. Len(history) : history'[k] = history[k]
  /\ UNCHANGED <<position, view>>

Follow ==
  /\ position # Null
  /\ position < Len(history)
  /\ position' = position + 1
  /\ view' = StateAt(position + 1)
  /\ UNCHANGED history

Synchronise ==
  /\ \E n \in 0 .. Len(history) :
       /\ position = Null \/ Lost(position, n)
       /\ position' = n
       /\ view' = StateAt(n)
  /\ UNCHANGED history

Next == Publish \/ Follow \/ Synchronise

Spec == Init /\ [][Next]_vars
=============================================================================
