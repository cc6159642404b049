----------------------------- MODULE MCFatBytes -----------------------------
(***************************************************************************)
(* The instance of FatBytes for TLC.                                       *)
(***************************************************************************)
EXTENDS FatBytes, TLC

CONSTANTS a, b, h1, h2

TwoNames == {a, b}
HandleSymmetry == Permutations(Handles)
OntoB == {<<a, b>>}

(* One block and a half, so that a write at 0 and one at 1 divide it in    *)
(* different ways; seeking to 1 in an empty file makes a hole.             *)
ABlockAndAHalf == {<<1, 2, 3>>}
ToSecond == {<<1, "F_SEEK_SET">>}

(* answer says what the step before did; no step depends on it.            *)
WithoutAnswer == <<fat, dir, file, open_files, fault, data>>

(* Bounds on the state space.                                              *)
OthersWritable == \A e \in DOMAIN dir : e = 1 \/ dir[e].writable
SizesTo4 == \A e \in DOMAIN dir : dir[e].size <= 4
OffsetsTo3 == \A h \in Handles : file[h].offset <= 3
=============================================================================
