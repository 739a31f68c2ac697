----------------------------- MODULE Semaphore -----------------------------
(***************************************************************************)
(* What index/gate.rs promises: a counting semaphore.  At most Limit       *)
(* builds hold it at once, and one that ends or dies gives it back.        *)
(***************************************************************************)
EXTENDS Naturals, FiniteSets

CONSTANTS
    Builders,   \* processes that may run a full build
    Limit       \* max_concurrent_builds()

VARIABLE holders

Init == holders = {}

Acquire(b) ==
    /\ b \notin holders
    /\ Cardinality(holders) < Limit
    /\ holders' = holders \cup {b}

Release(b) ==
    /\ b \in holders
    /\ holders' = holders \ {b}

Next == \E b \in Builders : Acquire(b) \/ Release(b)

Spec == Init /\ [][Next]_holders

=============================================================================
