----------------------------- MODULE DenseStore -----------------------------
(***************************************************************************)
(* What both formats of a dense store (HnswStore, PlaidStore) have in      *)
(* common: a versioned directory that ACTIVE may name, with a sentinel     *)
(* file that says it was written to its end (search/dense_backend.rs); the *)
(* chunk ids SQLite hands out; one build under the project lock, and the   *)
(* processes that load the store to search it.                             *)
(***************************************************************************)
EXTENDS Naturals, Sequences

CONSTANTS
    MaxId,      \* bound on the chunk ids SQLite hands out
    Readers     \* processes that open the store to search it

ASSUME MaxIdAssumption == MaxId \in Nat

VARIABLES
    present,    \* the sentinel of the directory exists
    live,       \* ACTIVE names this directory
    nextId,     \* next AUTOINCREMENT chunk id
    builder,    \* the build in progress
    reader      \* the loads in progress or done

\* same_embedder_live: the ACTIVE directory is this one and holds the sentinel
SameEmbedderLive == live /\ present

\* The chunk ids of a full build, as get_all_chunk_ids lists them: in ascending order
Corpora(S) == {s \in UNION {[1 .. n -> S] : n \in 1 .. MaxId} :
                  \A i, j \in DOMAIN s : i < j => s[i] < s[j]}

=============================================================================
