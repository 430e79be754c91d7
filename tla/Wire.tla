--------------------------------- MODULE Wire ---------------------------------
(***************************************************************************)
(* The vocabulary of a conversation stream, packages/protocol/src/wire.ts. *)
(* A frame is [seq, type, turn, data]: its place in the stream, its kind,  *)
(* the turn it belongs to and its payload.  A payload only has an          *)
(* identity here.  thinking, tool_start, tool_end, usage and file_changes  *)
(* are one type ("activity"): each marks the conversation running and      *)
(* leaves its text alone; provider_switched, context_compacted and         *)
(* context_cleared are another ("marker").                                 *)
(***************************************************************************)

CONSTANT Null   \* JavaScript's undefined / null

TerminalTypes == {"done", "error", "provider_error"}
FrameTypes == {"user", "text", "activity", "marker"} \cup TerminalTypes

\* isTerminalFrame: the frames that end a turn.
IsTerminal(frame) == frame.type \in TerminalTypes
=============================================================================
