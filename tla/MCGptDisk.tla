----------------------------- MODULE MCGptDisk -----------------------------
(* Values for the runs of GptDisk.                                         *)
EXTENDS GptDisk, TLC
CONSTANTS h1, h2, p1, p2

TwoHandles == {h1, h2}
TwoParts == {p1, p2}
Symmetric == Permutations(TwoHandles) \cup Permutations(TwoParts)
=============================================================================
