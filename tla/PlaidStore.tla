---------------------------- MODULE PlaidStore -----------------------------
(***************************************************************************)
(* The colbert-plaid dense store on disk                                   *)
(* (search/colbert_plaid_backend.rs): a next-plaid index, which numbers    *)
(* its documents by position, beside plaid_mapping.bin, which names the    *)
(* chunk of every position.  The builder changes the index batch by batch  *)
(* and replaces the mapping once, at the end; a search process loads the   *)
(* index, then the mapping, without a lock (search/plaid_search.rs).       *)
(*                                                                         *)
(* next-plaid is kept to its numbering: new documents take the next        *)
(* positions, a deletion drops documents and renumbers the survivors.  One *)
(* call of it is one step.  A document is written as the id of the chunk   *)
(* it was encoded from.                                                    *)
(***************************************************************************)
EXTENDS DenseStore, FiniteSets

CONSTANTS
    BatchSize,  \* PLAID_BATCH, PLAID_APPEND_BATCH: chunks encoded per call
    Tombstone   \* DENSE_TOMBSTONE

ASSUME BatchAssumption == BatchSize \in Nat \ {0}
ASSUME TombstoneAssumption == Tombstone \notin Nat

VARIABLES
    docs,       \* the next-plaid index: the chunk of every document
    mapping,    \* plaid_mapping.bin, the sentinel of the directory
    chunks,     \* the chunk ids SQLite holds; search drops any other id
    shifted,    \* history: a deletion renumbered documents since the full build
    owed        \* history: an update was interrupted since the full build

vars == <<docs, mapping, present, live, chunks, nextId, shifted, owed, builder, reader>>

Slot == Nat \cup {Tombstone}

Idle == [pc |-> "idle", rows |-> <<>>, done |-> 0, map |-> <<>>, cut |-> {}]
NotOpen == [pc |-> "closed", docs |-> <<>>, map |-> <<>>, stale |-> FALSE]

TypeOK ==
    /\ docs \in Seq(Nat)
    /\ mapping \in Seq(Slot)
    /\ present \in BOOLEAN
    /\ live \in BOOLEAN
    /\ chunks \subseteq 1 .. nextId - 1
    /\ nextId \in Nat \ {0}
    /\ shifted \in BOOLEAN
    /\ owed \in BOOLEAN
    /\ builder \in [pc : {"idle", "saving", "built", "inserting", "deleting", "deleted"},
                    rows : Seq(Nat), done : Nat, map : Seq(Slot), cut : SUBSET Nat]
    /\ builder.done <= Len(builder.rows)
    /\ reader \in [Readers -> [pc : {"closed", "loaded", "open"}, docs : Seq(Nat),
                               map : Seq(Slot), stale : BOOLEAN]]

Init ==
    /\ docs = <<>>
    /\ mapping = <<>>
    /\ present = FALSE
    /\ live = FALSE
    /\ chunks = {}
    /\ nextId = 1
    /\ shifted = FALSE
    /\ owed = FALSE
    /\ builder = Idle
    /\ reader = [r \in Readers |-> NotOpen]

-----------------------------------------------------------------------------
(* A full build, and the documents of any build.                           *)

\* A full build is of what SQLite kept and what it added
BeginBuild ==
    /\ builder.pc = "idle"
    /\ ~SameEmbedderLive
    /\ \E corpus \in Corpora(chunks \cup (nextId .. MaxId)) :
          /\ builder' = [Idle EXCEPT !.pc = "saving", !.rows = corpus]
          /\ chunks' = {corpus[i] : i \in DOMAIN corpus}
          /\ nextId' = IF corpus[Len(corpus)] >= nextId THEN corpus[Len(corpus)] + 1
                                                       ELSE nextId
    /\ docs' = <<>>
    /\ mapping' = <<>>
    /\ present' = FALSE
    /\ shifted' = FALSE
    /\ owed' = FALSE
    /\ UNCHANGED <<live, reader>>

\* The new chunks of this build get the next ids; the mapping is read
BeginInsert ==
    /\ builder.pc = "idle"
    /\ SameEmbedderLive
    /\ \E n \in 1 .. MaxId + 1 - nextId :
          /\ builder' = [Idle EXCEPT !.pc = "inserting", !.map = mapping,
                                     !.rows = [i \in 1 .. n |-> nextId + i - 1]]
          /\ chunks' = chunks \cup (nextId .. nextId + n - 1)
          /\ nextId' = nextId + n
    /\ UNCHANGED <<docs, mapping, present, live, shifted, owed, reader>>

\* Mutated form of Mapped: the ids are pushed at the end of the mapping
MappedPushed(map, n) == map \o SubSeq(builder.rows, builder.done + 1, builder.done + n)

\* The ids of the documents a batch of n becomes, put at their positions in
\* the mapping, whose gaps are filled with tombstones
Mapped(map, n) ==
    [i \in 1 .. IF Len(map) > Len(docs) + n THEN Len(map) ELSE Len(docs) + n |->
        IF i \in Len(docs) + 1 .. Len(docs) + n
        THEN builder.rows[builder.done + i - Len(docs)]
        ELSE IF i <= Len(map) THEN map[i] ELSE Tombstone]

Remaining == Len(builder.rows) - builder.done

\* update_or_create and update_append of one batch
AddBatch ==
    /\ builder.pc \in {"saving", "inserting"}
    /\ Remaining > 0
    /\ LET n == IF Remaining < BatchSize THEN Remaining ELSE BatchSize
       IN  /\ docs' = docs \o SubSeq(builder.rows, builder.done + 1, builder.done + n)
           /\ builder' = [builder EXCEPT !.done = @ + n, !.map = Mapped(@, n)]
    /\ UNCHANGED <<mapping, present, live, chunks, nextId, shifted, owed, reader>>

\* Mutated form of WriteMapping: an insert writes back the mapping it read
WriteMappingStale ==
    /\ builder.pc \in {"saving", "inserting", "deleted"}
    /\ Remaining = 0
    /\ mapping' = IF builder.pc = "inserting" THEN mapping ELSE builder.map
    /\ present' = TRUE
    /\ builder' = IF builder.pc = "saving" THEN [builder EXCEPT !.pc = "built"] ELSE Idle
    /\ UNCHANGED <<docs, live, chunks, nextId, shifted, owed, reader>>

\* write_mapping_atomic, the last step of every operation
WriteMapping ==
    /\ builder.pc \in {"saving", "inserting", "deleted"}
    /\ Remaining = 0
    /\ mapping' = builder.map
    /\ present' = TRUE
    /\ builder' = IF builder.pc = "saving" THEN [builder EXCEPT !.pc = "built"] ELSE Idle
    /\ UNCHANGED <<docs, live, chunks, nextId, shifted, owed, reader>>

\* write_active_pointer, owed only after a full build
FlipActive ==
    /\ builder.pc = "built"
    /\ live' = TRUE
    /\ builder' = Idle
    /\ UNCHANGED <<docs, mapping, present, chunks, nextId, shifted, owed, reader>>

-----------------------------------------------------------------------------
(* A deletion: the positions of the removed chunks, the index, the mapping. *)

BeginDelete ==
    /\ builder.pc = "idle"
    /\ SameEmbedderLive
    /\ \E removed \in SUBSET chunks \ {{}} :
          LET cut == {i \in DOMAIN mapping : mapping[i] \in removed}
          IN  /\ chunks' = chunks \ removed
              /\ builder' =
                    IF cut = {} THEN Idle
                    ELSE [Idle EXCEPT
                            !.pc = "deleting", !.cut = cut,
                            !.map = [i \in DOMAIN mapping |->
                                        IF i \in cut THEN Tombstone ELSE mapping[i]]]
    /\ UNCHANGED <<docs, mapping, present, live, nextId, shifted, owed, reader>>

\* The documents at the positions that stay, renumbered: the n-th one comes to position n
Compacted(cut) ==
    LET keep == DOMAIN docs \ cut
        Nth(n) == CHOOSE i \in keep : Cardinality({j \in keep : j <= i}) = n
    IN  [n \in 1 .. Cardinality(keep) |-> docs[Nth(n)]]

\* MmapIndex::delete renumbers the survivors; its failure is only a warning
DeleteDocs ==
    /\ builder.pc = "deleting"
    /\ \/ /\ docs' = Compacted(builder.cut)
          /\ shifted' = (shifted \/ \E i \in builder.cut, j \in DOMAIN docs \ builder.cut : i < j)
          /\ reader' = [r \in Readers |-> IF reader[r].pc = "loaded"
                                          THEN [reader[r] EXCEPT !.stale = TRUE]
                                          ELSE reader[r]]
       \/ UNCHANGED <<docs, shifted, reader>>
    /\ builder' = [builder EXCEPT !.pc = "deleted"]
    /\ UNCHANGED <<mapping, present, live, chunks, nextId, owed>>

-----------------------------------------------------------------------------
(* What happens to the store from outside, and the readers.                *)

\* A crash or an I/O error ends the build; the files stay as they are
Interrupt ==
    /\ builder.pc # "idle"
    /\ owed' = TRUE
    /\ builder' = Idle
    /\ UNCHANGED <<docs, mapping, present, live, chunks, nextId, shifted, reader>>

\* A build under another fingerprint flips ACTIVE away; no load spans it
SwitchAway ==
    /\ builder.pc = "idle"
    /\ live
    /\ \A r \in Readers : reader[r].pc # "loaded"
    /\ live' = FALSE
    /\ UNCHANGED <<docs, mapping, present, chunks, nextId, shifted, owed, builder, reader>>

LoadIndex(r) ==
    /\ reader[r].pc = "closed"
    /\ SameEmbedderLive
    /\ reader' = [reader EXCEPT ![r] = [NotOpen EXCEPT !.pc = "loaded", !.docs = docs]]
    /\ UNCHANGED <<docs, mapping, present, live, chunks, nextId, shifted, owed, builder>>

LoadMapping(r) ==
    /\ reader[r].pc = "loaded"
    /\ reader' = [reader EXCEPT ![r] = [@ EXCEPT !.pc = "open", !.map = mapping,
                                                 !.stale = reader[r].stale \/ shifted]]
    /\ UNCHANGED <<docs, mapping, present, live, chunks, nextId, shifted, owed, builder>>

Close(r) ==
    /\ reader[r].pc = "open"
    /\ reader' = [reader EXCEPT ![r] = NotOpen]
    /\ UNCHANGED <<docs, mapping, present, live, chunks, nextId, shifted, owed, builder>>

Next ==
    \/ BeginBuild \/ BeginInsert \/ AddBatch \/ WriteMapping \/ FlipActive
    \/ BeginDelete \/ DeleteDocs
    \/ Interrupt \/ SwitchAway
    \/ \E r \in Readers : LoadIndex(r) \/ LoadMapping(r) \/ Close(r)

Spec == Init /\ [][Next]_vars

-----------------------------------------------------------------------------
\* A search answers with the chunk the mapping names at a document's position,
\* when SQLite holds that chunk; right is the chunk the document came from
Answers(map, ds) == {i \in DOMAIN map : i \in DOMAIN ds /\ map[i] \in chunks}
Right(map, ds) == \A i \in Answers(map, ds) : map[i] = ds[i]

(* Interrupted inserts and deletes never make a live store answer with a   *)
(* wrong chunk: orphan documents stay unnamed, and later batches are named *)
(* at the positions next-plaid gave them.  Only a deletion that renumbers  *)
(* documents breaks this.  The same holds of a reader that loaded the      *)
(* index and the mapping at different moments of a build, as long as no    *)
(* deletion renumbered the index between its two loads.                    *)
AnswersRight ==
    /\ live /\ ~shifted => Right(mapping, docs)
    /\ \A r \in Readers :
           reader[r].pc = "open" /\ ~reader[r].stale => Right(reader[r].map, reader[r].docs)

(* Between builds every chunk SQLite holds is found, unless an update was  *)
(* interrupted or documents were renumbered.                               *)
NoChunkLost ==
    builder.pc = "idle" /\ live /\ ~shifted /\ ~owed =>
        chunks \subseteq {mapping[i] : i \in Answers(mapping, docs)}

(* What the comments on DENSE_TOMBSTONE say: a deleted slot is marked      *)
(* rather than shifted, so later positions stay positionally correct.      *)
PositionsStayCorrect == live /\ builder.pc = "idle" /\ ~owed => Right(mapping, docs)

=============================================================================
