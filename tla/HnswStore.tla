----------------------------- MODULE HnswStore -----------------------------
(***************************************************************************)
(* The coderank-hnsw dense store on disk (index/hnsw_index.rs): the thin   *)
(* sidecar index.bin (chunk ids and tombstone flags, replaced by an atomic *)
(* rename) beside the append-only payload store.vecs (one int8 row per     *)
(* chunk).  One builder process writes it, under the project lock, in the  *)
(* steps the code writes it in; search processes load it, without a lock,  *)
(* in two reads.  The builder may be interrupted - killed, or sent back by *)
(* an I/O error - between any two of its steps and inside a row.           *)
(*                                                                         *)
(* The payload is a sequence of row-sized slots.  A slot holds the vector  *)
(* of a chunk, written here as the chunk's id, or the bytes of two         *)
(* different rows, written Garbage.  `ragged' says that the file does not  *)
(* end at a multiple of the row size.                                      *)
(***************************************************************************)
EXTENDS DenseStore

CONSTANT Garbage    \* content of a slot that straddles two rows

ASSUME GarbageAssumption == Garbage \notin Nat

VARIABLES
    slots,      \* store.vecs, in whole rows
    ragged,     \* store.vecs ends inside a row
    ids,        \* index.bin: chunk_ids, in row order
    tombs,      \* index.bin: the ids whose tombstone flag is set
    torn        \* history: an append started behind an orphan tail

\* index.bin is the sentinel
store == <<slots, ragged, ids, tombs, present, live>>
hnswVars == <<slots, ragged, ids, tombs, present, live, nextId, torn, builder, reader>>

Ids == 1 .. MaxId
RowSlot == Nat \cup {Garbage}

IndexedIds == {ids[i] : i \in 1 .. Len(ids)}

NoBuild == [pc |-> "idle", rows |-> <<>>, done |-> 0]
NotLoaded == [pc |-> "closed", ids |-> <<>>, tombs |-> {}, rows |-> <<>>, torn |-> FALSE]

StoreTypeOK ==
    /\ slots \in Seq(RowSlot)
    /\ ragged \in BOOLEAN
    /\ ids \in Seq(Nat)
    /\ tombs \subseteq IndexedIds
    /\ present \in BOOLEAN
    /\ live \in BOOLEAN

Phase == {"idle", "saving", "built", "appending"}

BuilderTypeOK ==
    /\ nextId \in Nat \ {0}
    /\ torn \in BOOLEAN
    /\ builder \in [pc : Phase, rows : Seq(Nat), done : Nat]

ReaderTypeOK ==
    reader \in [Readers -> [pc : {"closed", "indexed", "open", "failed"},
                            ids : Seq(Nat), tombs : SUBSET Nat,
                            rows : Seq(RowSlot), torn : BOOLEAN]]

HnswTypeOK == StoreTypeOK /\ BuilderTypeOK /\ ReaderTypeOK

HnswInit ==
    /\ slots = <<>>
    /\ ragged = FALSE
    /\ ids = <<>>
    /\ tombs = {}
    /\ present = FALSE
    /\ live = FALSE
    /\ nextId = 1
    /\ torn = FALSE
    /\ builder = NoBuild
    /\ reader = [r \in Readers |-> NotLoaded]

-----------------------------------------------------------------------------
(* The builder's decision and its two ways of writing.                     *)

\* Mutated form of BeginSave: the old payload is opened without truncating it
BeginSaveOverOld ==
    /\ builder.pc = "idle"
    /\ ~SameEmbedderLive
    /\ \E corpus \in Corpora(Ids) :
          /\ builder' = [pc |-> "saving", rows |-> corpus, done |-> 0]
          /\ nextId' = IF corpus[Len(corpus)] >= nextId THEN corpus[Len(corpus)] + 1
                                                       ELSE nextId
    /\ torn' = FALSE
    /\ UNCHANGED <<slots, ragged, ids, tombs, present, live, reader>>

\* save_split opens store.vecs with fs::write, which truncates it
BeginSave ==
    /\ builder.pc = "idle"
    /\ ~SameEmbedderLive
    /\ \E corpus \in Corpora(Ids) :
          /\ builder' = [pc |-> "saving", rows |-> corpus, done |-> 0]
          /\ nextId' = IF corpus[Len(corpus)] >= nextId THEN corpus[Len(corpus)] + 1
                                                       ELSE nextId
    /\ slots' = <<>>
    /\ ragged' = FALSE
    /\ torn' = FALSE
    /\ UNCHANGED <<ids, tombs, present, live, reader>>

\* The new chunks of this build get the next ids; index.bin is re-read
BeginAppend ==
    /\ builder.pc = "idle"
    /\ SameEmbedderLive
    /\ \E n \in 1 .. MaxId + 1 - nextId :
          /\ builder' = [pc |-> "appending",
                         rows |-> [i \in 1 .. n |-> nextId + i - 1], done |-> 0]
          /\ nextId' = nextId + n
    /\ torn' = (torn \/ ragged \/ Len(slots) # Len(ids))
    /\ UNCHANGED <<store, reader>>

\* write_all of one row at the end of the file: it lands in one slot only if
\* the file ended at a row boundary
WriteRow ==
    /\ builder.pc \in {"saving", "appending"}
    /\ builder.done < Len(builder.rows)
    /\ slots' = Append(slots, IF ragged THEN Garbage ELSE builder.rows[builder.done + 1])
    /\ builder' = [builder EXCEPT !.done = @ + 1]
    /\ UNCHANGED <<ragged, ids, tombs, present, live, nextId, torn, reader>>

AllRowsWritten == builder.done = Len(builder.rows)

\* Mutated form of CommitIndex: the rewritten index starts with no tombstone
CommitIndexForgetsTombs ==
    /\ builder.pc \in {"saving", "appending"}
    /\ AllRowsWritten
    /\ ids' = IF builder.pc = "saving" THEN builder.rows ELSE ids \o builder.rows
    /\ tombs' = {}
    /\ present' = TRUE
    /\ builder' = IF builder.pc = "saving" THEN [builder EXCEPT !.pc = "built"] ELSE NoBuild
    /\ UNCHANGED <<slots, ragged, live, nextId, torn, reader>>

\* write_index_atomic: the rename that publishes the rows
CommitIndex ==
    /\ builder.pc \in {"saving", "appending"}
    /\ AllRowsWritten
    /\ ids' = IF builder.pc = "saving" THEN builder.rows ELSE ids \o builder.rows
    /\ tombs' = IF builder.pc = "saving" THEN {} ELSE tombs
    /\ present' = TRUE
    /\ builder' = IF builder.pc = "saving" THEN [builder EXCEPT !.pc = "built"] ELSE NoBuild
    /\ UNCHANGED <<slots, ragged, live, nextId, torn, reader>>

\* write_active_pointer, owed only after a full build
HnswFlipActive ==
    /\ builder.pc = "built"
    /\ live' = TRUE
    /\ builder' = NoBuild
    /\ UNCHANGED <<slots, ragged, ids, tombs, present, nextId, torn, reader>>

\* tombstone_split: only the flags change, in one rename
Delete ==
    /\ builder.pc = "idle"
    /\ SameEmbedderLive
    /\ \E remove \in SUBSET IndexedIds :
          /\ remove # {}
          /\ tombs' = tombs \cup remove
    /\ UNCHANGED <<slots, ragged, ids, present, live, nextId, torn, builder, reader>>

-----------------------------------------------------------------------------
(* What happens to the store from outside.                                 *)

\* Part of a row reaches the file: the file now ends inside a row, or, when it
\* already did, the two parts may fill the slot exactly or overflow it
PartialRow ==
    \/ /\ slots' = slots
       /\ ragged' = TRUE
    \/ /\ ragged
       /\ slots' = Append(slots, Garbage)
       /\ ragged' \in BOOLEAN

\* A crash or an I/O error ends the build; the files stay as they are
HnswInterrupt ==
    /\ builder.pc # "idle"
    /\ \/ UNCHANGED <<slots, ragged>>
       \/ /\ builder.pc \in {"saving", "appending"}
          /\ ~AllRowsWritten
          /\ PartialRow
    /\ builder' = NoBuild
    /\ UNCHANGED <<ids, tombs, present, live, nextId, torn, reader>>

\* A build under another fingerprint of this backend flips ACTIVE away.  It lasts
\* longer than the two file reads of a load, so no load spans it.
HnswSwitchAway ==
    /\ builder.pc = "idle"
    /\ live
    /\ \A r \in Readers : reader[r].pc # "indexed"
    /\ live' = FALSE
    /\ UNCHANGED <<slots, ragged, ids, tombs, present, nextId, torn, builder, reader>>

\* load_index_only in the directory resolve_active_dense_dir returned
ReadIndex(r) ==
    /\ reader[r].pc = "closed"
    /\ SameEmbedderLive
    /\ reader' = [reader EXCEPT ![r] = [pc |-> "indexed", ids |-> ids, tombs |-> tombs,
                                       rows |-> <<>>, torn |-> FALSE]]
    /\ UNCHANGED <<store, nextId, torn, builder>>

\* The rest of load_split: refuse a payload shorter than the index counts,
\* ignore what is beyond it
ReadPayload(r) ==
    /\ reader[r].pc = "indexed"
    /\ LET count == Len(reader[r].ids)
       IN  reader' = [reader EXCEPT ![r] =
               IF Len(slots) < count
               THEN [@ EXCEPT !.pc = "failed"]
               ELSE [@ EXCEPT !.pc = "open", !.rows = SubSeq(slots, 1, count), !.torn = torn]]
    /\ UNCHANGED <<store, nextId, torn, builder>>

HnswClose(r) ==
    /\ reader[r].pc \in {"open", "failed"}
    /\ reader' = [reader EXCEPT ![r] = NotLoaded]
    /\ UNCHANGED <<store, nextId, torn, builder>>

HnswNext ==
    \/ BeginSave
    \/ BeginAppend
    \/ WriteRow
    \/ CommitIndex
    \/ HnswFlipActive
    \/ Delete
    \/ HnswInterrupt
    \/ HnswSwitchAway
    \/ \E r \in Readers : ReadIndex(r) \/ ReadPayload(r) \/ HnswClose(r)

HnswSpec == HnswInit /\ [][HnswNext]_hnswVars

-----------------------------------------------------------------------------
(* A load of the live store never meets a payload shorter than its index   *)
(* counts, whatever the builder is doing or failed to finish: append_split *)
(* writes rows before the index that counts them, and save_split truncates *)
(* only a directory that ACTIVE does not name.                             *)
LoadNeverFails == \A r \in Readers : reader[r].pc # "failed"

(* As long as no append started behind the leftover bytes of an earlier    *)
(* one, every row of a live store is the vector of the chunk the index     *)
(* names at that row.                                                      *)
CleanRowsAligned ==
    live /\ ~torn => \A i \in 1 .. Len(ids) : slots[i] = ids[i]

(* A load that raced an append or a delete still pairs every chunk id it   *)
(* read with that chunk's own vector.                                      *)
LoadedRowsAligned ==
    \A r \in Readers :
        reader[r].pc = "open" /\ ~reader[r].torn => reader[r].rows = reader[r].ids

(* Whatever a search may read, in the store or in memory: two files with   *)
(* no common commit never pair an id with another chunk's vector, but for  *)
(* the orphan tail of an append that died.                                 *)
RowsAligned == CleanRowsAligned /\ LoadedRowsAligned

(* While a store stays live no step moves or drops a row the index counts, *)
(* and no step lifts a tombstone: a reader's index never goes wrong under  *)
(* it, and a deleted chunk never comes back.                               *)
LiveStoreOnlyGrows ==
    [][live /\ live' =>
           /\ Len(ids) <= Len(ids')
           /\ \A i \in 1 .. Len(ids) : ids'[i] = ids[i] /\ slots'[i] = slots[i]
           /\ tombs \subseteq tombs']_hnswVars

-----------------------------------------------------------------------------
(* The inductive invariant: what each phase of a build has put on disk.    *)

SavingInv ==
    builder.pc = "saving" =>
        /\ ~live
        /\ ~ragged
        /\ Len(slots) = builder.done
        /\ \A i \in 1 .. builder.done : slots[i] = builder.rows[i]

BuiltInv ==
    builder.pc = "built" =>
        /\ present
        /\ Len(slots) = Len(ids)
        /\ \A i \in 1 .. Len(ids) : slots[i] = ids[i]

AppendingInv ==
    builder.pc = "appending" =>
        /\ live
        /\ Len(slots) >= Len(ids) + builder.done
        /\ ~torn =>
              /\ ~ragged
              /\ Len(slots) = Len(ids) + builder.done
              /\ \A i \in 1 .. builder.done : slots[Len(ids) + i] = builder.rows[i]

LiveInv ==
    live => present /\ Len(slots) >= Len(ids)

HnswReaderInv ==
    \A r \in Readers :
        reader[r].pc = "indexed" =>
            /\ live
            /\ Len(reader[r].ids) <= Len(ids)
            /\ \A i \in 1 .. Len(reader[r].ids) : reader[r].ids[i] = ids[i]

IInv ==
    /\ HnswTypeOK
    /\ builder.done <= Len(builder.rows)
    /\ SavingInv
    /\ BuiltInv
    /\ AppendingInv
    /\ LiveInv
    /\ HnswReaderInv
    /\ CleanRowsAligned
    /\ LoadedRowsAligned
    /\ LoadNeverFails

=============================================================================
