---------------------------- MODULE SearchIndex ----------------------------
(***************************************************************************)
(* What index/builder.rs promises the search: the committed chunks, and    *)
(* what a query can find of them in each index.  An index that is not      *)
(* behind finds them all.  One falls behind when chunks are committed,     *)
(* and what it found and is still committed it goes on finding, at every   *)
(* moment of a build, unless the whole index is out of date and is about   *)
(* to be removed.                                                          *)
(***************************************************************************)

CONSTANTS
    Indexes,    \* BM25, and the dense store of each backend
    Chunks

VARIABLES
    chunks,     \* the committed chunks
    found,      \* what a query can find in each index
    behind      \* the indexes that may miss some of them

Init ==
    /\ chunks = {}
    /\ found = [i \in Indexes |-> {}]
    /\ behind \in SUBSET Indexes

\* A transaction: what it deletes is found no more, what it adds is not found yet
Commit ==
    /\ behind' = Indexes
    /\ chunks' \in SUBSET Chunks
    /\ found' = [i \in Indexes |-> found[i] \cap chunks']

CatchUp(i) ==
    /\ found' = [found EXCEPT ![i] = chunks]
    /\ behind' = behind \ {i}
    /\ UNCHANGED chunks

\* An index that missed an earlier change gets the last one
Update(i) ==
    /\ UNCHANGED <<chunks, behind>>
    /\ \E more \in SUBSET chunks : found' = [found EXCEPT ![i] = @ \cup more]

\* meta.json is of another schema, or torn: nothing is promised until the index is removed
Expire ==
    /\ behind' = Indexes
    /\ UNCHANGED <<chunks, found>>

Remove ==
    /\ behind = Indexes
    /\ \E I \in SUBSET Indexes : found' = [i \in Indexes |-> IF i \in I THEN {} ELSE found[i]]
    /\ UNCHANGED <<chunks, behind>>

Next == (\E i \in behind : Update(i) \/ CatchUp(i)) \/ Commit \/ Expire \/ Remove

vars == <<chunks, found, behind>>
Spec == Init /\ [][Next]_vars

-----------------------------------------------------------------------------
(* An index that is not behind finds what is committed, and nothing else.  *)
Complete == \A i \in Indexes \ behind : found[i] = chunks

(* What an index finds it goes on finding as long as it is committed.      *)
StaysFound ==
    [][behind # Indexes => \A i \in Indexes : found[i] \cap chunks' \subseteq found'[i]]_vars

=============================================================================
