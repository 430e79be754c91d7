--------------------------- MODULE TranscriptMirror ---------------------------
(***************************************************************************)
(* What the transcript shadow promises: a remote copy of each conversation *)
(* that lags behind the documents the shadow knows of but never goes back, *)
(* and never shows another document.  A conversation is `lost` while the   *)
(* process does not know, or no longer remembers, that its copy may be     *)
(* wrong; until then the promise has no exception.                         *)
(***************************************************************************)
EXTENDS Naturals, Sequences

CONSTANTS Conversations, NoDoc

VARIABLES
  log,     \* per conversation: the documents of its file the shadow
           \* was told of or has read
  shown,   \* per conversation: the index in log that the remote copy shows
  remote,  \* per conversation: the remote copy
  lost     \* conversations whose copy is no longer vouched for

vars == <<log, shown, remote, lost>>

Init ==
  /\ log = [c \in Conversations |-> <<NoDoc>>]
  /\ shown = [c \in Conversations |-> 1]
  /\ remote = [c \in Conversations |-> NoDoc]
  /\ lost = {}

\* The documents are never rewritten, a further one is only added.
FileAdvances(c) ==
  \/ log'[c] = log[c]
  \/ /\ Len(log'[c]) = Len(log[c]) + 1
     /\ \A i \in 1..Len(log[c]) : log'[c][i] = log[c][i]

\* Once vouched for, the copy is one of them, and not an older one.
CopyFollows(c) ==
  c \notin lost' =>
    /\ shown'[c] \in shown[c]..Len(log'[c])
    /\ remote'[c] = log'[c][shown'[c]]

Next == \A c \in Conversations : FileAdvances(c) /\ CopyFollows(c)

Spec == Init /\ [][Next]_vars
=============================================================================
