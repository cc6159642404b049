------------------------------- MODULE MCFat -------------------------------
(***************************************************************************)
(* Instances of Fat for TLC.                                               *)
(***************************************************************************)
EXTENDS FatProperties, TLC

CONSTANTS a, b, h1, h2, h3

TwoNames == {a, b}
HandleSymmetry == Permutations(Handles)

(* Renaming a closed file to the name it has frees its blocks and nothing  *)
(* else (run DocRenameSelf).  The other instances leave that out.          *)
Swaps == {pair \in TwoNames \X TwoNames : pair[1] # pair[2]}
ToItself == {<<a, a>>}
NoRenames == {}

NoSeeks == {}
Rewind == {<<0, "F_SEEK_SET">>}
SeekPastEnd == {<<2, "F_SEEK_END">>}

(* Bounds on the state space.                                              *)
AllWritable == \A e \in DOMAIN dir : dir[e].writable
SizesTo1 == \A e \in DOMAIN dir : dir[e].size <= 1
=============================================================================
