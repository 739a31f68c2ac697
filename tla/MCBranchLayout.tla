--------------------------- MODULE MCBranchLayout --------------------------
(* BranchLayout for TLC: the branches are interchangeable, one of them takes a *)
(* commit, and a behaviour is not followed past a build over a mixed root or   *)
(* one that HEAD moved under: two of the three properties say nothing of what  *)
(* comes after.                                                                *)
EXTENDS BranchLayout, TLC

BranchSymmetry == Permutations(Branches)
Followed == ~blessed /\ ~moved /\ Cardinality({b \in Branches : commit[b] > 0}) <= 1

=============================================================================
