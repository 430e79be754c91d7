--------------------------- MODULE TurnExecutionMC ----------------------------
(***************************************************************************)
(* TurnExecution for the safety run of TLC.  Turn ids and conversations    *)
(* are interchangeable: nothing orders them and no CHOOSE picks one, so    *)
(* both sets are symmetric.  (The liveness run uses no symmetry.)          *)
(***************************************************************************)
EXTENDS TurnExecution, TLC

Symmetry == Permutations(Turns) \cup Permutations(Convs)
=============================================================================
