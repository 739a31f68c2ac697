----------------------------- MODULE MCRegistry -----------------------------
(* The properties name no project: the paths are interchangeable.          *)
EXTENDS Registry, TLC

PathSymmetry == Permutations(Paths)

=============================================================================
