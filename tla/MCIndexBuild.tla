---------------------------- MODULE MCIndexBuild ----------------------------
(* Small instances of IndexBuild. *)
EXTENDS IndexBuild, TLC

CONSTANTS f1, f2, t1, t2, e1, e2

SameBackend == [e \in Embedders |-> "colbert-plaid"]

Anywhere == Phases
IdleOrRead == {"idle", "read"}

Interchangeable == Permutations(Files) \cup Permutations(Texts) \cup Permutations(Embedders)
=============================================================================
