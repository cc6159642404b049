----------------------------- MODULE MCFatSteps -----------------------------
(***************************************************************************)
(* Instances of FatSteps for TLC.                                          *)
(***************************************************************************)
EXTENDS FatSteps, TLC

CONSTANTS a, b

TwoNames == {a, b}
ProcessSymmetry == Permutations(Processes) \cup Permutations(Handles)

(* The timer between two calls, and once a block has been marked.          *)
MarkedPoints == {"call", "link"}
(* ... between the check of the locks and the recording of the handle.     *)
LockPoints == {"call", "track"}
(* ... between finding a block and marking it.                             *)
BlockPoints == {"call", "mark"}
=============================================================================
