--------------------------- MODULE DenseStoreProofs --------------------------
(***************************************************************************)
(* The two formats of a dense store, for any number of chunks and readers  *)
(* and any batch size.  PLAID: types, no answer with a wrong chunk, and no *)
(* chunk lost, until a deletion renumbers documents.  HNSW: loads of the   *)
(* live store succeed, its rows stay aligned as long as no append starts   *)
(* behind an orphan tail, and a live store only grows.                     *)
(***************************************************************************)
EXTENDS PlaidStore, HnswStore, FiniteSetTheorems, SequenceTheorems, WellFoundedInduction, TLAPS

\* The chunks a mapping names sit at the documents made of them: what it names outside of
\* the index is no longer in SQLite
Fits(map) == \A i \in DOMAIN map : map[i] \in chunks => i \in DOMAIN docs /\ docs[i] = map[i]

Older(map) == \A i \in DOMAIN map : map[i] = Tombstone \/ map[i] < nextId

Named(map, c) == \E i \in DOMAIN map : map[i] = c

AtWork == {"saving", "inserting", "deleting", "deleted"}

Ordered ==
    /\ live => present
    /\ builder.pc = "built" => present
    /\ Older(mapping) /\ Older(builder.map)
    /\ \A k \in 1 .. Len(builder.rows) : builder.rows[k] < nextId

FitInv ==
    /\ ~shifted => Fits(mapping) /\ (builder.pc \in AtWork => Fits(builder.map))
    /\ builder.pc = "deleting" =>
          \A i \in builder.cut : /\ i \in DOMAIN mapping /\ mapping[i] \notin chunks
                                 /\ i \in DOMAIN builder.map /\ builder.map[i] = Tombstone

\* Every chunk is named, or has its document still to come
CoverInv ==
    ~shifted /\ ~owed => \A c \in chunks :
        /\ builder.pc \in {"idle", "built"} => Named(mapping, c)
        /\ builder.pc \in AtWork =>
              \/ Named(builder.map, c)
              \/ \E k \in builder.done + 1 .. Len(builder.rows) : builder.rows[k] = c

Prefix(ds) == Len(ds) <= Len(docs) /\ \A i \in 1 .. Len(ds) : docs[i] = ds[i]

ReaderInv == \A r \in Readers :
    /\ reader[r].pc = "loaded" => live /\ present
    /\ reader[r].pc = "loaded" /\ ~reader[r].stale /\ ~shifted => Prefix(reader[r].docs)
    /\ Older(reader[r].map)
    /\ reader[r].pc = "open" /\ ~reader[r].stale => Right(reader[r].map, reader[r].docs)

Inv == Ordered /\ FitInv /\ CoverInv /\ ReaderInv

-----------------------------------------------------------------------------
(* What a deletion leaves.                                                 *)

LEMMA NatMin == ASSUME NEW S, S \subseteq Nat, S # {} PROVE \E x \in S : \A y \in S : x <= y
<1>1. PICK x \in S : \A y \in S : ~(<<y, x>> \in OpToRel(<, Nat))
  BY NatLessThanWellFounded, WFMin
<1>2. \A y \in S : <<y, x>> \in OpToRel(<, Nat) <=> y < x
  BY DEF OpToRel
<1>3. ASSUME NEW y \in S PROVE x <= y
  <2>1. x \in Nat /\ y \in Nat /\ ~(y < x)
    BY <1>1, <1>2
  <2>. QED
    BY <2>1
<1>. QED
  BY <1>3

LEMMA UptoFinite == ASSUME NEW L \in Nat PROVE IsFiniteSet(1 .. L) /\ Cardinality(1 .. L) = L
<1>1. 1 \in Int /\ L \in Int
  OBVIOUS
<1>2. IsFiniteSet(1 .. L) /\ Cardinality(1 .. L) = IF 1 > L THEN 0 ELSE L - 1 + 1
  BY <1>1, FS_Interval
<1>. QED
  BY <1>2

\* The n-th element of a finite set of positions exists
LEMMA NthExists == ASSUME NEW L \in Nat, NEW S \in SUBSET (1 .. L), NEW n \in 1 .. Cardinality(S)
                   PROVE  \E i \in S : Cardinality({j \in S : j <= i}) = n
<1> DEFINE Upto(i) == {j \in S : j <= i}
           Reached == {i \in Nat : Cardinality(Upto(i)) >= n}
<1>0. S \subseteq Nat /\ \A j \in S : 1 <= j /\ j <= L
  OBVIOUS
<1>1. IsFiniteSet(S) /\ Cardinality(S) \in Nat
  BY UptoFinite, FS_Subset, FS_CardinalityType
<1>2. \A i \in Nat : IsFiniteSet(Upto(i)) /\ Cardinality(Upto(i)) \in Nat
  BY <1>1, FS_Subset, FS_CardinalityType
<1>3. L \in Reached
  <2>1. Upto(L) = S
    BY <1>0
  <2>. QED
    BY <1>1, <2>1
<1>4. PICK i \in Reached : \A k \in Reached : i <= k
  <2>1. Reached \subseteq Nat /\ Reached # {}
    BY <1>3
  <2> HIDE DEF Reached
  <2>. QED
    BY <2>1, NatMin
<1>5. i # 0
  <2>1. Upto(0) = {}
    <3>1. \A j \in S : ~(j <= 0)
      BY <1>0
    <3>. QED
      BY <3>1
  <2>2. Cardinality(Upto(0)) = 0
    BY <2>1, FS_EmptySet
  <2>. QED
    BY <1>1, <1>4, <2>2
<1>6. i - 1 \in Nat /\ Cardinality(Upto(i - 1)) < n
  <2>1. i \in Nat /\ i - 1 \in Nat /\ ~(i <= i - 1)
    BY <1>4, <1>5
  <2>3. i - 1 \notin Reached
    BY <1>4, <2>1
  <2>2. Cardinality(Upto(i - 1)) \in Nat
    BY <1>2, <2>1
  <2>. QED
    BY <1>1, <2>1, <2>2, <2>3
<1>7. i \in S
  <2>1. ASSUME i \notin S PROVE Upto(i) = Upto(i - 1)
    <3>1. i \in Nat /\ \A j \in S : j <= i <=> j <= i - 1
      BY <1>0, <1>4, <2>1
    <3>. QED
      BY <3>1
  <2> HIDE DEF Upto
  <2>. QED
    BY <1>2, <1>4, <1>6, <2>1
<1>8. Cardinality(Upto(i)) = Cardinality(Upto(i - 1)) + 1
  <2>1. Upto(i) = Upto(i - 1) \cup {i} /\ i \notin Upto(i - 1)
    <3>1. i \in Nat /\ \A j \in S : j <= i <=> j <= i - 1 \/ j = i
      BY <1>0, <1>4
    <3>2. ~(i <= i - 1)
      BY <3>1
    <3>. QED
      BY <1>7, <3>1, <3>2
  <2> HIDE DEF Upto
  <2>. QED
    BY <1>2, <1>6, <2>1, FS_AddElement
<1>9. Cardinality(Upto(i)) = n
  <2> HIDE DEF Upto
  <2>. QED
    BY <1>1, <1>2, <1>4, <1>6, <1>8
<1>. QED
  BY <1>7, <1>9

LEMMA CompactedType == ASSUME docs \in Seq(Nat), NEW cut PROVE Compacted(cut) \in Seq(Nat)
<1> DEFINE keep == DOMAIN docs \ cut
           Nth(n) == CHOOSE i \in keep : Cardinality({j \in keep : j <= i}) = n
<1>1. Len(docs) \in Nat /\ DOMAIN docs = 1 .. Len(docs) /\ keep \in SUBSET (1 .. Len(docs))
  BY LenProperties
<1>2. Cardinality(keep) \in Nat
  BY <1>1, UptoFinite, FS_Subset, FS_CardinalityType
<1>3. ASSUME NEW n \in 1 .. Cardinality(keep) PROVE docs[Nth(n)] \in Nat
  <2>1. \E i \in keep : Cardinality({j \in keep : j <= i}) = n
    BY <1>1, NthExists
  <2>2. Nth(n) \in keep
    BY <2>1
  <2>. QED
    BY <1>1, <2>2, ElementOfSeq
<1>4. Compacted(cut) = [n \in 1 .. Cardinality(keep) |-> docs[Nth(n)]]
  BY DEF Compacted
<1> HIDE DEF keep, Nth
<1>. QED
  BY <1>2, <1>3, <1>4

\* Unless a document that stays comes after one that goes, the others keep their positions
LEMMA CompactedTail == ASSUME docs \in Seq(Nat), NEW cut,
                              ~ \E i \in cut, j \in DOMAIN docs \ cut : i < j,
                              cut \subseteq Nat
                       PROVE  /\ DOMAIN Compacted(cut) = DOMAIN docs \ cut
                              /\ \A i \in DOMAIN docs \ cut : Compacted(cut)[i] = docs[i]
<1> DEFINE keep == DOMAIN docs \ cut
           Nth(n) == CHOOSE i \in keep : Cardinality({j \in keep : j <= i}) = n
<1>1. Len(docs) \in Nat /\ DOMAIN docs = 1 .. Len(docs)
  BY LenProperties
<1>2. \E m \in Nat : keep = 1 .. m
  <2>1. CASE cut \cap DOMAIN docs = {}
    BY <1>1, <2>1
  <2>2. CASE cut \cap DOMAIN docs # {}
    <3>1. cut \cap DOMAIN docs \subseteq Nat
      BY <1>1
    <3>2. PICK x \in cut \cap DOMAIN docs : \A y \in cut \cap DOMAIN docs : x <= y
      BY <2>2, <3>1, NatMin
    <3>3. x - 1 \in Nat /\ keep = 1 .. x - 1
      BY <1>1, <3>2
    <3>. QED
      BY <3>3
  <2>. QED
    BY <2>1, <2>2
<1>3. PICK m \in Nat : keep = 1 .. m
  BY <1>2
<1>4. Cardinality(keep) = m
  BY <1>3, UptoFinite
<1>5. ASSUME NEW n \in 1 .. m PROVE Nth(n) = n
  <2>1. ASSUME NEW i \in keep PROVE Cardinality({j \in keep : j <= i}) = i
    <3>1. {j \in keep : j <= i} = 1 .. i /\ i \in Nat \ {0}
      BY <1>3
    <3>. QED
      BY <3>1, UptoFinite
  <2>2. n \in keep
    BY <1>3
  <2> HIDE DEF keep
  <2>. QED
    BY <2>1, <2>2
<1>6. Compacted(cut) = [n \in 1 .. Cardinality(keep) |-> docs[Nth(n)]]
  BY DEF Compacted
<1> HIDE DEF Nth, keep
<1>7. Compacted(cut) = [n \in 1 .. m |-> docs[n]]
  BY <1>4, <1>5, <1>6
<1>8. DOMAIN Compacted(cut) = keep /\ \A i \in keep : Compacted(cut)[i] = docs[i]
  BY <1>3, <1>7
<1>. QED
  BY <1>8 DEF keep

-----------------------------------------------------------------------------
(* The parts of the state a step reads.                                    *)

LEMMA Parts == ASSUME TypeOK
               PROVE  /\ Len(docs) \in Nat /\ DOMAIN docs = 1 .. Len(docs)
                      /\ \A i \in 1 .. Len(docs) : docs[i] \in Nat
                      /\ Len(mapping) \in Nat /\ DOMAIN mapping = 1 .. Len(mapping)
                      /\ nextId \in Nat \ {0} /\ chunks \subseteq Nat
                      /\ \A c \in chunks : c < nextId
                      /\ Tombstone \notin chunks
<1>1. docs \in Seq(Nat) /\ mapping \in Seq(Slot)
  BY DEF TypeOK
<1>2. nextId \in Nat \ {0} /\ chunks \subseteq 1 .. nextId - 1
  BY DEF TypeOK
<1>3. chunks \subseteq Nat /\ \A c \in chunks : c < nextId
  BY <1>2
<1>. QED
  BY <1>1, <1>2, <1>3, TombstoneAssumption, LenProperties, ElementOfSeq

LEMMA BuilderParts == ASSUME TypeOK
                      PROVE  /\ builder.rows \in Seq(Nat) /\ Len(builder.rows) \in Nat
                             /\ \A k \in 1 .. Len(builder.rows) : builder.rows[k] \in Nat
                             /\ builder.map \in Seq(Slot) /\ Len(builder.map) \in Nat
                             /\ DOMAIN builder.map = 1 .. Len(builder.map)
                             /\ builder.done \in Nat /\ builder.done <= Len(builder.rows)
                             /\ builder.cut \in SUBSET Nat
<1>1. /\ builder.rows \in Seq(Nat) /\ builder.map \in Seq(Slot) /\ builder.done \in Nat
      /\ builder.done <= Len(builder.rows) /\ builder.cut \in SUBSET Nat
  BY DEF TypeOK
<1>. QED
  BY <1>1, LenProperties, ElementOfSeq

\* SQLite gets no chunk back: what is new gets an id that nothing names yet
NewIds == \A c \in chunks' : c \in chunks \/ (c \in Nat /\ c >= nextId)

LEMMA NamedBefore == ASSUME TypeOK, NewIds, NEW map, Older(map), NEW i \in DOMAIN map, map[i] \in chunks'
                     PROVE  map[i] \in chunks
  BY Parts, TombstoneAssumption DEF NewIds, Older

\* A mapping outlives documents and new chunks, as long as no position changes its document
LEMMA FitsGrow == ASSUME TypeOK, NewIds, NEW map, Fits(map), Older(map),
                         \A i \in DOMAIN docs : i \in DOMAIN docs' /\ docs'[i] = docs[i]
                  PROVE  \A i \in DOMAIN map : map[i] \in chunks' => i \in DOMAIN docs' /\ docs'[i] = map[i]
  BY NamedBefore DEF Fits

LEMMA EmptyFits == Fits(<<>>) /\ Older(<<>>)
  BY DEF Fits, Older

-----------------------------------------------------------------------------
(* Types.                                                                  *)

BuilderType == [pc : {"idle", "saving", "built", "inserting", "deleting", "deleted"},
                rows : Seq(Nat), done : Nat, map : Seq(Slot), cut : SUBSET Nat]
ReaderType == [pc : {"closed", "loaded", "open"}, docs : Seq(Nat), map : Seq(Slot), stale : BOOLEAN]

LEMMA IdleType == /\ Idle \in BuilderType
                  /\ Idle.pc = "idle" /\ Idle.done = 0 /\ Idle.map = <<>> /\ Idle.rows = <<>>
                  /\ Idle.done <= Len(Idle.rows)
<1>1. <<>> \in Seq(Nat) /\ <<>> \in Seq(Slot) /\ Len(<<>>) = 0
  BY EmptySeq
<1>. QED
  BY <1>1 DEF Idle, BuilderType

LEMMA MappedFacts == ASSUME TypeOK, NEW n \in Nat, builder.done + n <= Len(builder.rows)
                     PROVE  LET map == Mapped(builder.map, n)
                            IN  /\ map \in Seq(Slot)
                                /\ DOMAIN map = 1 .. (IF Len(builder.map) > Len(docs) + n
                                                      THEN Len(builder.map) ELSE Len(docs) + n)
                                /\ \A i \in DOMAIN map : map[i] =
                                      IF i \in Len(docs) + 1 .. Len(docs) + n
                                      THEN builder.rows[builder.done + i - Len(docs)]
                                      ELSE IF i <= Len(builder.map) THEN builder.map[i] ELSE Tombstone
<1> DEFINE L == IF Len(builder.map) > Len(docs) + n THEN Len(builder.map) ELSE Len(docs) + n
           e(i) == IF i \in Len(docs) + 1 .. Len(docs) + n
                   THEN builder.rows[builder.done + i - Len(docs)]
                   ELSE IF i <= Len(builder.map) THEN builder.map[i] ELSE Tombstone
<1>1. L \in Nat /\ Len(docs) \in Nat
  BY Parts, BuilderParts
<1>2. ASSUME NEW i \in 1 .. L PROVE e(i) \in Slot
  <2>1. CASE i \in Len(docs) + 1 .. Len(docs) + n
    <3>1. builder.done + i - Len(docs) \in 1 .. Len(builder.rows)
      BY <1>1, <2>1, BuilderParts
    <3>. QED
      BY <2>1, <3>1, BuilderParts DEF Slot
  <2>2. CASE i \notin Len(docs) + 1 .. Len(docs) + n /\ i <= Len(builder.map)
    <3>1. i \in 1 .. Len(builder.map)
      BY <1>1, <2>2
    <3>2. builder.map[i] \in Slot
      BY <3>1, BuilderParts, ElementOfSeq
    <3>. QED
      BY <2>2, <3>2
  <2>3. CASE i \notin Len(docs) + 1 .. Len(docs) + n /\ ~(i <= Len(builder.map))
    BY <2>3 DEF Slot
  <2>. QED
    BY <2>1, <2>2, <2>3
<1>3. Mapped(builder.map, n) = [i \in 1 .. L |-> e(i)]
  BY DEF Mapped
<1> HIDE DEF L, e
<1>4. [i \in 1 .. L |-> e(i)] \in Seq(Slot)
  BY <1>1, <1>2
<1>. QED
  BY <1>3, <1>4 DEF L, e

LEMMA Slice == ASSUME NEW s, NEW a \in Nat, NEW n \in Nat, \A i \in a + 1 .. a + n : s[i] \in Nat
               PROVE  /\ SubSeq(s, a + 1, a + n) \in Seq(Nat)
                      /\ Len(SubSeq(s, a + 1, a + n)) = n
                      /\ \A i \in 1 .. n : SubSeq(s, a + 1, a + n)[i] = s[a + i]
<1>1. SubSeq(s, a + 1, a + n) = [i \in 1 .. n |-> s[a + i]]
  OBVIOUS
<1>2. \A i \in 1 .. n : s[a + i] \in Nat
  OBVIOUS
<1>. QED
  BY <1>1, <1>2

\* The batch that AddBatch encodes
Batch == IF Remaining < BatchSize THEN Remaining ELSE BatchSize

LEMMA AddFacts == ASSUME TypeOK, AddBatch
                  PROVE  /\ Batch \in Nat /\ builder.done + Batch <= Len(builder.rows)
                         /\ docs' \in Seq(Nat) /\ Len(docs') = Len(docs) + Batch
                         /\ \A i \in 1 .. Len(docs) + Batch : docs'[i] =
                               IF i <= Len(docs) THEN docs[i]
                               ELSE builder.rows[builder.done + i - Len(docs)]
                         /\ builder' = [builder EXCEPT !.done = @ + Batch,
                                                       !.map = Mapped(builder.map, Batch)]
<1>1. Batch \in Nat /\ builder.done + Batch <= Len(builder.rows)
  BY BuilderParts, BatchAssumption DEF AddBatch, Remaining, Batch
<1> DEFINE new == SubSeq(builder.rows, builder.done + 1, builder.done + Batch)
<1>2. \A i \in builder.done + 1 .. builder.done + Batch : builder.rows[i] \in Nat
  BY <1>1, BuilderParts
<1>3. /\ new \in Seq(Nat) /\ Len(new) = Batch
      /\ \A i \in 1 .. Batch : new[i] = builder.rows[builder.done + i]
  BY <1>1, <1>2, Slice, BuilderParts
<1>4. docs \in Seq(Nat) /\ docs' = docs \o new
  BY DEF TypeOK, AddBatch, Batch
<1> HIDE DEF new
<1>6. /\ docs' \in Seq(Nat) /\ Len(docs') = Len(docs) + Batch
      /\ \A i \in 1 .. Len(docs) + Batch :
            docs'[i] = IF i <= Len(docs) THEN docs[i] ELSE new[i - Len(docs)]
  BY <1>3, <1>4, ConcatProperties
<1>7. ASSUME NEW i \in 1 .. Len(docs) + Batch, ~(i <= Len(docs))
      PROVE  new[i - Len(docs)] = builder.rows[builder.done + i - Len(docs)]
  <2>1. i - Len(docs) \in 1 .. Batch
    BY <1>1, <1>7, Parts
  <2>2. builder.done + (i - Len(docs)) = builder.done + i - Len(docs)
    BY <1>7, Parts, BuilderParts
  <2>. QED
    BY <1>3, <2>1, <2>2
<1>8. builder' = [builder EXCEPT !.done = @ + Batch, !.map = Mapped(builder.map, Batch)]
  BY DEF AddBatch, Batch, TypeOK
<1>. QED
  BY <1>1, <1>6, <1>7, <1>8

LEMMA CorpusFacts == ASSUME TypeOK, NEW corpus \in Corpora(chunks \cup (nextId .. MaxId))
                     PROVE  /\ corpus \in Seq(Nat) /\ Len(corpus) \in Nat \ {0}
                            /\ DOMAIN corpus = 1 .. Len(corpus)
                            /\ \A i \in 1 .. Len(corpus) :
                                  /\ corpus[i] \in Nat /\ corpus[i] > 0
                                  /\ corpus[i] \in chunks \/ corpus[i] >= nextId
                                  /\ corpus[i] <= corpus[Len(corpus)]
<1>1. PICK n \in 1 .. MaxId : corpus \in [1 .. n -> chunks \cup (nextId .. MaxId)]
  BY DEF Corpora
<1>2. n \in Nat \ {0} /\ Len(corpus) = n /\ DOMAIN corpus = 1 .. n
  BY <1>1, MaxIdAssumption
<1>3. nextId \in Nat \ {0} /\ chunks \subseteq 1 .. nextId - 1
  BY DEF TypeOK
<1>4. ASSUME NEW i \in 1 .. n
      PROVE  corpus[i] \in Nat /\ corpus[i] > 0 /\ (corpus[i] \in chunks \/ corpus[i] >= nextId)
  <2>1. corpus[i] \in chunks \/ corpus[i] \in nextId .. MaxId
    BY <1>1
  <2>2. \A c \in 1 .. nextId - 1 : c \in Nat /\ c > 0
    BY <1>3
  <2>3. \A c \in nextId .. MaxId : c \in Nat /\ c > 0 /\ c >= nextId
    BY <1>3, MaxIdAssumption
  <2>. QED
    BY <1>3, <2>1, <2>2, <2>3
<1>5. corpus \in Seq(Nat)
  BY <1>1, <1>2, <1>4
<1>6. ASSUME NEW i \in 1 .. n PROVE corpus[i] <= corpus[n]
  <2>1. \A j, k \in DOMAIN corpus : j < k => corpus[j] < corpus[k]
    BY DEF Corpora
  <2>2. i = n \/ i < n
    BY <1>2
  <2>3. n \in 1 .. n
    BY <1>2
  <2>. QED
    BY <1>2, <1>4, <2>1, <2>2, <2>3
<1>. QED
  BY <1>2, <1>4, <1>5, <1>6

\* BeginBuild gives SQLite the chunks of the corpus, all of them below the next id
LEMMA BuildFacts == ASSUME TypeOK, BeginBuild
                    PROVE  /\ nextId' \in Nat \ {0} /\ chunks' \subseteq 1 .. nextId' - 1
                           /\ nextId <= nextId'
                           /\ \A c \in chunks' : c \in chunks \/ (c \in Nat /\ c >= nextId)
                           /\ \E corpus \in Seq(Nat) :
                                 /\ builder' = [Idle EXCEPT !.pc = "saving", !.rows = corpus]
                                 /\ \A k \in 1 .. Len(corpus) : corpus[k] < nextId'
                                 /\ \A c \in chunks' : \E k \in 1 .. Len(corpus) : corpus[k] = c
<1>1. PICK corpus \in Corpora(chunks \cup (nextId .. MaxId)) :
        /\ builder' = [Idle EXCEPT !.pc = "saving", !.rows = corpus]
        /\ chunks' = {corpus[i] : i \in DOMAIN corpus}
        /\ nextId' = IF corpus[Len(corpus)] >= nextId THEN corpus[Len(corpus)] + 1 ELSE nextId
  BY DEF BeginBuild
<1> DEFINE last == corpus[Len(corpus)]
<1>2. last \in Nat /\ last > 0 /\ nextId \in Nat \ {0}
  <2>1. Len(corpus) \in Nat \ {0} /\ \A i \in 1 .. Len(corpus) : corpus[i] \in Nat /\ corpus[i] > 0
    BY CorpusFacts
  <2>. QED
    BY <2>1, Parts
<1>3. ASSUME NEW k \in 1 .. Len(corpus)
      PROVE  corpus[k] \in Nat /\ 1 <= corpus[k] /\ corpus[k] <= nextId' - 1 /\ corpus[k] < nextId'
  <2>1. corpus[k] \in Nat /\ corpus[k] > 0 /\ corpus[k] <= last
    BY CorpusFacts
  <2>. QED
    BY <1>1, <1>2, <2>1
<1>4. \A c \in chunks' : \E k \in 1 .. Len(corpus) : corpus[k] = c
  BY <1>1, CorpusFacts
<1>5. nextId' \in Nat \ {0} /\ nextId <= nextId'
  BY <1>1, <1>2
<1>6. chunks' \subseteq 1 .. nextId' - 1
  BY <1>3, <1>4, <1>5
<1>7. \A c \in chunks' : c \in chunks \/ (c \in Nat /\ c >= nextId)
  BY <1>4, CorpusFacts
<1>8. corpus \in Seq(Nat)
  BY CorpusFacts
<1>. QED
  BY <1>1, <1>3, <1>4, <1>5, <1>6, <1>7, <1>8

\* BeginInsert hands out the next n ids
LEMMA InsertFacts == ASSUME TypeOK, BeginInsert
                     PROVE  /\ nextId' \in Nat \ {0} /\ chunks' \subseteq 1 .. nextId' - 1
                            /\ nextId <= nextId'
                            /\ \A c \in chunks' : c \in chunks \/ (c \in Nat /\ c >= nextId)
                            /\ \E rows \in Seq(Nat) :
                                  /\ builder' = [Idle EXCEPT !.pc = "inserting", !.map = mapping,
                                                             !.rows = rows]
                                  /\ \A k \in 1 .. Len(rows) : rows[k] < nextId'
                                  /\ \A c \in chunks' \ chunks : \E k \in 1 .. Len(rows) : rows[k] = c
<1>1. PICK n \in 1 .. MaxId + 1 - nextId :
        /\ builder' = [Idle EXCEPT !.pc = "inserting", !.map = mapping,
                                   !.rows = [i \in 1 .. n |-> nextId + i - 1]]
        /\ chunks' = chunks \cup (nextId .. nextId + n - 1)
        /\ nextId' = nextId + n
  BY DEF BeginInsert
<1> DEFINE rows == [i \in 1 .. n |-> nextId + i - 1]
<1>2. nextId \in Nat \ {0} /\ chunks \subseteq 1 .. nextId - 1 /\ n \in Nat /\ n > 0
  BY MaxIdAssumption DEF TypeOK
<1>3. \A i \in 1 .. n : nextId + i - 1 \in Nat /\ nextId + i - 1 < nextId'
  BY <1>1, <1>2
<1>4. rows \in Seq(Nat) /\ Len(rows) = n /\ \A i \in 1 .. n : rows[i] = nextId + i - 1
  BY <1>2, <1>3
<1>5. ASSUME NEW c \in nextId .. nextId + n - 1 PROVE \E k \in 1 .. n : rows[k] = c
  <2>1. c - nextId + 1 \in 1 .. n /\ nextId + (c - nextId + 1) - 1 = c
    BY <1>2
  <2>. QED
    BY <1>4, <2>1
<1>6. /\ nextId' \in Nat \ {0} /\ nextId <= nextId'
      /\ \A c \in nextId .. nextId + n - 1 : c \in 1 .. nextId' - 1 /\ c \in Nat /\ c >= nextId
      /\ \A c \in 1 .. nextId - 1 : c \in 1 .. nextId' - 1
  BY <1>1, <1>2
<1>7. chunks' \subseteq 1 .. nextId' - 1
  BY <1>1, <1>2, <1>6
<1>8. builder' = [Idle EXCEPT !.pc = "inserting", !.map = mapping, !.rows = rows]
  BY <1>1
<1> HIDE DEF rows
<1>9. \A k \in 1 .. Len(rows) : rows[k] < nextId'
  BY <1>3, <1>4
<1>10. \A c \in chunks' \ chunks : \E k \in 1 .. Len(rows) : rows[k] = c
  BY <1>1, <1>4, <1>5
<1>11. \A c \in chunks' : c \in chunks \/ (c \in Nat /\ c >= nextId)
  BY <1>1, <1>6
<1>. QED
  BY <1>4, <1>6, <1>7, <1>8, <1>9, <1>10, <1>11

LEMMA TypeInit == Init => TypeOK
<1> SUFFICES ASSUME Init PROVE TypeOK OBVIOUS
<1>1. <<>> \in Seq(Nat) /\ <<>> \in Seq(Slot)
  BY EmptySeq
<1>2. NotOpen \in ReaderType
  BY <1>1 DEF NotOpen, ReaderType
<1>3. 1 \in Nat \ {0} /\ {} \subseteq 1 .. nextId - 1
  OBVIOUS
<1>. QED
  BY <1>1, <1>2, <1>3, IdleType DEF Init, TypeOK, BuilderType, ReaderType

LEMMA TypeNext == ASSUME TypeOK, [Next]_vars PROVE TypeOK'
<1>0. builder \in BuilderType /\ reader \in [Readers -> ReaderType]
  BY DEF TypeOK, BuilderType, ReaderType
<1>1. ASSUME BeginBuild PROVE TypeOK'
  <2>1. PICK corpus \in Seq(Nat) : builder' = [Idle EXCEPT !.pc = "saving", !.rows = corpus]
    BY <1>1, BuildFacts
  <2>2. builder'.done <= Len(builder'.rows) /\ builder' \in BuilderType
    <3>1. builder' \in BuilderType /\ builder'.done = 0 /\ builder'.rows = corpus
      BY <2>1, IdleType DEF BuilderType
    <3>. QED
      BY <3>1, LenProperties
  <2>3. <<>> \in Seq(Nat) /\ <<>> \in Seq(Slot)
    BY EmptySeq
  <2>. QED
    BY <1>1, <2>2, <2>3, BuildFacts DEF BeginBuild, TypeOK, BuilderType
<1>2. ASSUME BeginInsert PROVE TypeOK'
  <2>1. PICK rows \in Seq(Nat) : builder' = [Idle EXCEPT !.pc = "inserting", !.map = mapping, !.rows = rows]
    BY <1>2, InsertFacts
  <2>2. mapping \in Seq(Slot)
    BY DEF TypeOK
  <2>3. builder'.done <= Len(builder'.rows) /\ builder' \in BuilderType
    <3>1. builder' \in BuilderType /\ builder'.done = 0 /\ builder'.rows = rows
      BY <2>1, <2>2, IdleType DEF BuilderType
    <3>. QED
      BY <3>1, LenProperties
  <2>. QED
    BY <1>2, <2>3, InsertFacts DEF BeginInsert, TypeOK, BuilderType
<1>3. ASSUME AddBatch PROVE TypeOK'
  <2> DEFINE m == Mapped(builder.map, Batch)
  <2>1. m \in Seq(Slot)
    BY <1>3, AddFacts, MappedFacts
  <2>2. builder' = [builder EXCEPT !.done = @ + Batch, !.map = m] /\ docs' \in Seq(Nat)
    BY <1>3, AddFacts
  <2>3. builder.done + Batch \in Nat /\ builder.done + Batch <= Len(builder.rows)
    BY <1>3, AddFacts, BuilderParts
  <2> HIDE DEF m
  <2>4. builder' \in BuilderType /\ builder'.done <= Len(builder'.rows)
    BY <1>0, <2>1, <2>2, <2>3 DEF BuilderType
  <2>. QED
    BY <1>3, <2>2, <2>4 DEF AddBatch, TypeOK, BuilderType
<1>4. ASSUME WriteMapping PROVE TypeOK'
  <2>1. builder' \in BuilderType /\ builder'.done <= Len(builder'.rows)
    BY <1>0, <1>4, IdleType DEF WriteMapping, BuilderType, TypeOK
  <2>2. mapping' \in Seq(Slot)
    BY <1>0, <1>4 DEF WriteMapping, BuilderType
  <2>. QED
    BY <1>4, <2>1, <2>2 DEF WriteMapping, TypeOK, BuilderType
<1>5. ASSUME FlipActive \/ Interrupt PROVE TypeOK'
  BY <1>5, IdleType DEF FlipActive, Interrupt, TypeOK, BuilderType
<1>6. ASSUME BeginDelete PROVE TypeOK'
  <2>1. PICK removed \in SUBSET chunks :
          LET cut == {i \in DOMAIN mapping : mapping[i] \in removed}
          IN  /\ chunks' = chunks \ removed
              /\ builder' = IF cut = {} THEN Idle
                            ELSE [Idle EXCEPT !.pc = "deleting", !.cut = cut,
                                    !.map = [i \in DOMAIN mapping |->
                                                IF i \in cut THEN Tombstone ELSE mapping[i]]]
    BY <1>6 DEF BeginDelete
  <2> DEFINE cut == {i \in DOMAIN mapping : mapping[i] \in removed}
             map == [i \in DOMAIN mapping |-> IF i \in cut THEN Tombstone ELSE mapping[i]]
  <2>2. cut \in SUBSET Nat
    BY Parts
  <2>3. mapping \in Seq(Slot) /\ \A i \in DOMAIN mapping : mapping[i] \in Slot
    BY LenProperties DEF TypeOK
  <2>4. map \in Seq(Slot)
    <3>1. Len(mapping) \in Nat /\ DOMAIN mapping = 1 .. Len(mapping)
      BY Parts
    <3>2. \A i \in 1 .. Len(mapping) : (IF i \in cut THEN Tombstone ELSE mapping[i]) \in Slot
      BY <2>3, <3>1 DEF Slot
    <3> HIDE DEF cut
    <3>. QED
      BY <3>1, <3>2
  <2> HIDE DEF cut, map
  <2>5. builder' = IF cut = {} THEN Idle ELSE [Idle EXCEPT !.pc = "deleting", !.cut = cut, !.map = map]
    BY <2>1 DEF cut, map
  <2>6. builder' \in BuilderType /\ builder'.done <= Len(builder'.rows)
    BY <2>2, <2>4, <2>5, IdleType DEF BuilderType
  <2>. QED
    BY <1>6, <2>1, <2>6 DEF BeginDelete, TypeOK, BuilderType
<1>7. ASSUME DeleteDocs PROVE TypeOK'
  <2>1. docs' \in Seq(Nat)
    BY <1>7, CompactedType DEF DeleteDocs, TypeOK
  <2>2. shifted' \in BOOLEAN
    BY <1>7 DEF DeleteDocs, TypeOK
  <2>3. reader' \in [Readers -> ReaderType]
    <3>1. \A r \in Readers : [reader[r] EXCEPT !.stale = TRUE] \in ReaderType
      BY <1>0 DEF ReaderType
    <3>. QED
      BY <1>0, <1>7, <3>1 DEF DeleteDocs
  <2>4. builder' \in BuilderType /\ builder'.done <= Len(builder'.rows)
    BY <1>0, <1>7 DEF DeleteDocs, BuilderType, TypeOK
  <2>. QED
    BY <1>7, <2>1, <2>2, <2>3, <2>4 DEF DeleteDocs, TypeOK, BuilderType, ReaderType
<1>8. ASSUME SwitchAway PROVE TypeOK'
  BY <1>8 DEF SwitchAway, TypeOK
<1>9. ASSUME NEW r \in Readers, LoadIndex(r) \/ LoadMapping(r) \/ Close(r) PROVE TypeOK'
  <2>1. <<>> \in Seq(Nat) /\ <<>> \in Seq(Slot) /\ docs \in Seq(Nat) /\ mapping \in Seq(Slot)
    BY EmptySeq DEF TypeOK
  <2>2. shifted \in BOOLEAN /\ reader[r] \in ReaderType
    BY <1>0 DEF TypeOK
  <2>3. ASSUME NEW x \in ReaderType, reader' = [reader EXCEPT ![r] = x] PROVE reader' \in [Readers -> ReaderType]
    BY <1>0, <2>3
  <2>4. NotOpen \in ReaderType /\ [NotOpen EXCEPT !.pc = "loaded", !.docs = docs] \in ReaderType
    BY <2>1 DEF NotOpen, ReaderType
  <2>5. [reader[r] EXCEPT !.pc = "open", !.map = mapping, !.stale = reader[r].stale \/ shifted] \in ReaderType
    BY <2>1, <2>2 DEF ReaderType
  <2>6. \E x \in ReaderType : reader' = [reader EXCEPT ![r] = x]
    <3>1. CASE LoadIndex(r)
      BY <2>4, <3>1 DEF LoadIndex
    <3>2. CASE LoadMapping(r)
      BY <1>0, <2>5, <3>2 DEF LoadMapping
    <3>3. CASE Close(r)
      BY <2>4, <3>3 DEF Close
    <3>. QED
      BY <1>9, <3>1, <3>2, <3>3
  <2>7. reader' \in [Readers -> ReaderType]
    BY <2>3, <2>6
  <2>. QED
    BY <1>9, <2>7 DEF LoadIndex, LoadMapping, Close, TypeOK, ReaderType
<1>10. ASSUME UNCHANGED vars PROVE TypeOK'
  BY <1>10 DEF vars, TypeOK
<1>. QED
  BY <1>1, <1>2, <1>3, <1>4, <1>5, <1>6, <1>7, <1>8, <1>9, <1>10 DEF Next

-----------------------------------------------------------------------------
(* Steps of the builder.                                                   *)

LEMMA InvInit == Init => Inv
<1> SUFFICES ASSUME Init PROVE Inv OBVIOUS
<1>1. Ordered /\ FitInv /\ CoverInv
  BY IdleType, EmptyFits DEF Init, Ordered, FitInv, CoverInv, AtWork, Older, Idle
<1>2. ReaderInv
  BY EmptyFits DEF Init, ReaderInv, NotOpen
<1>. QED
  BY <1>1, <1>2 DEF Inv

\* The readers do not notice a step that only adds chunks and documents
LEMMA ReadersKept == ASSUME TypeOK, ReaderInv, NewIds, nextId \in Nat, nextId' \in Nat, nextId <= nextId',
                            UNCHANGED reader,
                            \A r \in Readers : reader[r].pc = "loaded" =>
                               /\ live' /\ present'
                               /\ ~reader[r].stale /\ ~shifted' =>
                                     ~shifted /\ (Prefix(reader[r].docs) => Prefix(reader[r].docs)')
                     PROVE  ReaderInv'
<1> SUFFICES ASSUME NEW r \in Readers
             PROVE  /\ reader[r].pc = "loaded" => live' /\ present'
                    /\ reader[r].pc = "loaded" /\ ~reader[r].stale /\ ~shifted' => Prefix(reader[r].docs)'
                    /\ \A i \in DOMAIN reader[r].map :
                          reader[r].map[i] = Tombstone \/ reader[r].map[i] < nextId'
                    /\ reader[r].pc = "open" /\ ~reader[r].stale =>
                          \A i \in DOMAIN reader[r].map : i \in DOMAIN reader[r].docs /\ reader[r].map[i] \in chunks'
                             => reader[r].map[i] = reader[r].docs[i]
  BY DEF ReaderInv, Older, Right, Answers
<1>1. reader[r].map \in Seq(Slot) /\ Older(reader[r].map)
  BY DEF TypeOK, ReaderInv
<1>2. ASSUME NEW i \in DOMAIN reader[r].map
      PROVE  reader[r].map[i] = Tombstone \/ reader[r].map[i] < nextId'
  <2>1. reader[r].map[i] \in Slot
    BY <1>1
  <2>2. reader[r].map[i] = Tombstone \/ (reader[r].map[i] \in Nat /\ reader[r].map[i] < nextId)
    BY <1>1, <2>1 DEF Older, Slot
  <2>. QED
    BY <2>2
<1>3. \A i \in DOMAIN reader[r].map : reader[r].map[i] \in chunks' => reader[r].map[i] \in chunks
  BY <1>1, NamedBefore
<1>. QED
  BY <1>2, <1>3 DEF ReaderInv, Right, Answers

LEMMA SlotOlder == ASSUME TypeOK, NEW map \in Seq(Slot), Older(map), nextId' \in Nat, nextId <= nextId'
                   PROVE  \A i \in DOMAIN map : map[i] = Tombstone \/ map[i] < nextId'
<1> SUFFICES ASSUME NEW i \in DOMAIN map PROVE map[i] = Tombstone \/ map[i] < nextId' OBVIOUS
<1>1. map[i] = Tombstone \/ (map[i] \in Nat /\ map[i] < nextId)
  BY DEF Older, Slot
<1>. QED
  BY <1>1, Parts

LEMMA InvBuild == ASSUME TypeOK, Inv, BeginBuild PROVE Inv'
<1> USE DEF Inv
<1>1. PICK corpus \in Seq(Nat) :
        /\ builder' = [Idle EXCEPT !.pc = "saving", !.rows = corpus]
        /\ \A k \in 1 .. Len(corpus) : corpus[k] < nextId'
        /\ \A c \in chunks' : \E k \in 1 .. Len(corpus) : corpus[k] = c
  BY BuildFacts
<1>2. /\ nextId \in Nat /\ nextId' \in Nat /\ nextId <= nextId' /\ NewIds
  BY BuildFacts, Parts DEF NewIds
<1>3. /\ builder'.pc = "saving" /\ builder'.rows = corpus /\ builder'.done = 0 /\ builder'.map = <<>>
  BY <1>1, IdleType DEF BuilderType
<1>4. /\ docs' = <<>> /\ mapping' = <<>> /\ ~present' /\ ~shifted' /\ ~owed' /\ UNCHANGED <<live, reader>>
  BY DEF BeginBuild
<1>5. ~live
  BY DEF BeginBuild, SameEmbedderLive, Ordered
<1>6. Ordered'
  BY <1>1, <1>3, <1>4, <1>5 DEF Ordered, Older
<1>7. FitInv'
  BY <1>3, <1>4 DEF FitInv, Fits
<1>8. CoverInv'
  <2>1. 0 + 1 = 1
    OBVIOUS
  <2>. QED
    BY <1>1, <1>3, <2>1 DEF CoverInv, AtWork
<1>9. ReaderInv'
  BY <1>2, <1>4, <1>5, ReadersKept DEF ReaderInv
<1>. QED
  BY <1>6, <1>7, <1>8, <1>9

LEMMA InvInsert == ASSUME TypeOK, Inv, BeginInsert PROVE Inv'
<1> USE DEF Inv
<1>1. PICK rows \in Seq(Nat) :
        /\ builder' = [Idle EXCEPT !.pc = "inserting", !.map = mapping, !.rows = rows]
        /\ \A k \in 1 .. Len(rows) : rows[k] < nextId'
        /\ \A c \in chunks' \ chunks : \E k \in 1 .. Len(rows) : rows[k] = c
  BY InsertFacts
<1>2. /\ nextId \in Nat /\ nextId' \in Nat /\ nextId <= nextId' /\ NewIds
  BY InsertFacts, Parts DEF NewIds
<1>3. /\ builder'.pc = "inserting" /\ builder'.rows = rows /\ builder'.done = 0 /\ builder'.map = mapping
  BY <1>1, IdleType DEF BuilderType
<1>4. /\ UNCHANGED <<docs, mapping, present, live, shifted, owed, reader>> /\ builder.pc = "idle"
  BY DEF BeginInsert
<1>5. mapping \in Seq(Slot) /\ Older(mapping)
  BY DEF TypeOK, Ordered
<1>6. Ordered'
  BY <1>1, <1>2, <1>3, <1>4, <1>5, SlotOlder DEF Ordered, Older
<1>7. FitInv'
  <2>1. ~shifted => \A i \in DOMAIN mapping : mapping[i] \in chunks' => i \in DOMAIN docs /\ docs[i] = mapping[i]
    BY <1>2, <1>5, NamedBefore DEF FitInv, Fits
  <2>. QED
    BY <1>3, <1>4, <2>1 DEF FitInv, Fits
<1>8. CoverInv'
  <2>1. 0 + 1 = 1
    OBVIOUS
  <2>. QED
    BY <1>1, <1>3, <1>4, <2>1 DEF CoverInv, AtWork, Named
<1>9. ReaderInv'
  BY <1>2, <1>4, ReadersKept DEF ReaderInv, Prefix
<1>. QED
  BY <1>6, <1>7, <1>8, <1>9

\* Positions of a batch of b rows, of which d of R are done, after L documents
LEMMA Between == ASSUME NEW L \in Nat, NEW b \in Nat, NEW d \in Nat, NEW R \in Nat, d + b <= R
                 PROVE  \A i \in L + 1 .. L + b : /\ d + i - L \in 1 .. R
                                                  /\ i \in 1 .. L + b /\ ~(i <= L)
<1>1. ASSUME NEW i \in L + 1 .. L + b PROVE d + i - L \in 1 .. R /\ i \in 1 .. L + b /\ ~(i <= L)
  <2>1. i \in Int /\ L + 1 <= i /\ i <= L + b
    OBVIOUS
  <2>2. d + i - L \in Int /\ 1 <= d + i - L /\ d + i - L <= d + b
    BY <2>1
  <2>. QED
    BY <2>1, <2>2
<1>. QED
  BY <1>1

LEMMA Placed == ASSUME NEW L \in Nat, NEW b \in Nat, NEW d \in Nat, NEW R \in Nat,
                       NEW k \in d + 1 .. R, k <= d + b
                PROVE  \E i \in L + 1 .. L + b : d + i - L = k
<1>1. k \in Int /\ d + 1 <= k
  OBVIOUS
<1>2. k - d + L \in L + 1 .. L + b /\ d + (k - d + L) - L = k
  BY <1>1
<1>. QED
  BY <1>2

LEMMA InvAdd == ASSUME TypeOK, Inv, AddBatch PROVE Inv'
<1> USE DEF Inv
<1> DEFINE m == Mapped(builder.map, Batch)
<1>1. /\ Batch \in Nat /\ builder.done + Batch <= Len(builder.rows)
      /\ docs' \in Seq(Nat) /\ Len(docs') = Len(docs) + Batch
      /\ \A i \in 1 .. Len(docs) + Batch : docs'[i] =
            IF i <= Len(docs) THEN docs[i] ELSE builder.rows[builder.done + i - Len(docs)]
      /\ builder' = [builder EXCEPT !.done = @ + Batch, !.map = m]
  BY AddFacts
<1>2. /\ DOMAIN m = 1 .. (IF Len(builder.map) > Len(docs) + Batch
                          THEN Len(builder.map) ELSE Len(docs) + Batch)
      /\ \A i \in DOMAIN m : m[i] =
            IF i \in Len(docs) + 1 .. Len(docs) + Batch
            THEN builder.rows[builder.done + i - Len(docs)]
            ELSE IF i <= Len(builder.map) THEN builder.map[i] ELSE Tombstone
  BY <1>1, MappedFacts
<1> HIDE DEF m
<1>3. /\ builder'.pc = builder.pc /\ builder'.rows = builder.rows /\ builder'.map = m
      /\ builder'.done = builder.done + Batch
  BY <1>1 DEF TypeOK
<1>4. /\ UNCHANGED <<mapping, present, live, chunks, nextId, shifted, owed, reader>>
      /\ builder.pc \in {"saving", "inserting"}
  BY DEF AddBatch
<1>5. /\ Len(docs) \in Nat /\ DOMAIN docs = 1 .. Len(docs) /\ DOMAIN docs' = 1 .. Len(docs) + Batch
      /\ Len(builder.map) \in Nat /\ DOMAIN builder.map = 1 .. Len(builder.map)
      /\ builder.done \in Nat /\ Len(builder.rows) \in Nat
  BY <1>1, Parts, BuilderParts, LenProperties
<1>6. \A i \in DOMAIN docs : i \in DOMAIN docs' /\ docs'[i] = docs[i]
  BY <1>1, <1>5
<1>7. \A i \in Len(docs) + 1 .. Len(docs) + Batch :
         /\ builder.done + i - Len(docs) \in 1 .. Len(builder.rows)
         /\ i \in 1 .. Len(docs) + Batch /\ ~(i <= Len(docs))
  BY <1>1, <1>5, Between
<1>13. \A k \in builder.done + 1 .. Len(builder.rows) : k <= builder.done + Batch =>
          \E i \in Len(docs) + 1 .. Len(docs) + Batch : builder.done + i - Len(docs) = k
  <2> SUFFICES ASSUME NEW k \in builder.done + 1 .. Len(builder.rows), k <= builder.done + Batch
               PROVE  \E i \in Len(docs) + 1 .. Len(docs) + Batch : builder.done + i - Len(docs) = k
    OBVIOUS
  <2> DEFINE L == Len(docs)
             b == Batch
             d == builder.done
             R == Len(builder.rows)
  <2>1. L \in Nat /\ b \in Nat /\ d \in Nat /\ R \in Nat /\ k \in d + 1 .. R /\ k <= d + b
    BY <1>1, <1>5
  <2> HIDE DEF L, b, d, R
  <2>2. \E i \in L + 1 .. L + b : d + i - L = k
    BY <2>1, Placed
  <2>. QED
    BY <2>2 DEF L, b, d, R
<1>12. \A i \in 1 .. Len(docs) + Batch : i \in DOMAIN m
  BY <1>1, <1>2, <1>5
<1>8. Ordered'
  <2>1. ASSUME NEW i \in DOMAIN m PROVE m[i] = Tombstone \/ m[i] < nextId
    <3>1. CASE i \in Len(docs) + 1 .. Len(docs) + Batch
      BY <1>2, <1>7, <3>1 DEF Ordered
    <3>2. CASE i \notin Len(docs) + 1 .. Len(docs) + Batch /\ i <= Len(builder.map)
      <4>1. i \in DOMAIN builder.map
        BY <1>2, <1>5, <3>2
      <4>. QED
        BY <1>2, <3>2, <4>1 DEF Ordered, Older
    <3>3. CASE i \notin Len(docs) + 1 .. Len(docs) + Batch /\ ~(i <= Len(builder.map))
      BY <1>2, <3>3
    <3>. QED
      BY <3>1, <3>2, <3>3
  <2>. QED
    BY <1>3, <1>4, <2>1 DEF Ordered, Older
<1>9. FitInv'
  <2>1. ASSUME ~shifted, NEW i \in DOMAIN m, m[i] \in chunks PROVE i \in DOMAIN docs' /\ docs'[i] = m[i]
    <3>1. CASE i \in Len(docs) + 1 .. Len(docs) + Batch
      BY <1>1, <1>2, <1>5, <1>7, <3>1
    <3>2. CASE i \notin Len(docs) + 1 .. Len(docs) + Batch
      <4>1. i <= Len(builder.map) /\ m[i] = builder.map[i]
        BY <1>2, <2>1, <3>2, Parts
      <4>2. i \in DOMAIN builder.map
        BY <1>2, <1>5, <4>1
      <4>3. i \in DOMAIN docs /\ docs[i] = m[i]
        BY <1>4, <2>1, <4>1, <4>2 DEF FitInv, Fits, AtWork
      <4>. QED
        BY <1>6, <4>3
    <3>. QED
      BY <3>1, <3>2
  <2>2. ~shifted => \A i \in DOMAIN mapping : mapping[i] \in chunks => i \in DOMAIN docs' /\ docs'[i] = mapping[i]
    BY <1>6 DEF FitInv, Fits
  <2>. QED
    BY <1>3, <1>4, <2>1, <2>2 DEF FitInv, Fits
<1>10. CoverInv'
  <2>1. ASSUME ~shifted, ~owed, NEW c \in chunks
        PROVE  \/ \E i \in DOMAIN m : m[i] = c
               \/ \E k \in builder.done + Batch + 1 .. Len(builder.rows) : builder.rows[k] = c
    <3>1. CASE Named(builder.map, c)
      <4>1. PICK i \in DOMAIN builder.map : builder.map[i] = c
        BY <3>1 DEF Named
      <4>2. i \in DOMAIN docs
        BY <1>4, <2>1, <4>1 DEF FitInv, Fits, AtWork
      <4>3. i \in DOMAIN m /\ i \notin Len(docs) + 1 .. Len(docs) + Batch /\ i <= Len(builder.map)
        BY <1>1, <1>2, <1>5, <4>1, <4>2
      <4>. QED
        BY <1>2, <4>1, <4>3
    <3>2. CASE \E k \in builder.done + 1 .. Len(builder.rows) : builder.rows[k] = c
      <4>1. PICK k \in builder.done + 1 .. Len(builder.rows) : builder.rows[k] = c
        BY <3>2
      <4>2. CASE k <= builder.done + Batch
        <5>1. PICK i \in Len(docs) + 1 .. Len(docs) + Batch : builder.done + i - Len(docs) = k
          BY <1>13, <4>2
        <5>2. i \in DOMAIN m
          BY <1>7, <1>12
        <5>. QED
          BY <1>2, <4>1, <5>1, <5>2
      <4>3. CASE ~(k <= builder.done + Batch)
        <5>1. k \in builder.done + Batch + 1 .. Len(builder.rows)
          BY <1>1, <1>5, <4>3
        <5>. QED
          BY <4>1, <5>1
      <4>. QED
        BY <4>2, <4>3
    <3>. QED
      BY <1>4, <2>1, <3>1, <3>2 DEF CoverInv, AtWork
  <2>. QED
    BY <1>3, <1>4, <2>1 DEF CoverInv, AtWork, Named
<1>11. ReaderInv'
  <2>1. ASSUME NEW r \in Readers, Prefix(reader[r].docs)
        PROVE  Len(reader[r].docs) <= Len(docs') /\ \A i \in 1 .. Len(reader[r].docs) : docs'[i] = reader[r].docs[i]
    <3>1. Len(reader[r].docs) \in Nat
      BY LenProperties DEF TypeOK
    <3>. QED
      BY <1>1, <1>5, <1>6, <2>1, <3>1 DEF Prefix
  <2>2. NewIds /\ nextId \in Nat /\ nextId' \in Nat /\ nextId <= nextId'
    BY <1>4, Parts DEF NewIds
  <2>. QED
    BY <1>4, <2>1, <2>2, ReadersKept DEF ReaderInv, Prefix
<1>. QED
  BY <1>8, <1>9, <1>10, <1>11

LEMMA InvWrite == ASSUME TypeOK, Inv, WriteMapping PROVE Inv'
<1> USE DEF Inv
<1>1. /\ mapping' = builder.map /\ present' = TRUE
      /\ UNCHANGED <<docs, live, chunks, nextId, shifted, owed, reader>>
      /\ builder.pc \in {"saving", "inserting", "deleted"}
  BY DEF WriteMapping
<1>2. /\ builder'.pc \in {"idle", "built"}
      /\ builder'.map = builder.map \/ builder'.map = <<>>
      /\ builder'.rows = builder.rows \/ builder'.rows = <<>>
  BY IdleType DEF WriteMapping, TypeOK
<1>3. ~ \E k \in builder.done + 1 .. Len(builder.rows) : TRUE
  BY BuilderParts DEF WriteMapping, Remaining
<1>4. Ordered'
  <2>1. \A k \in 1 .. Len(builder'.rows) : builder'.rows[k] < nextId
    BY <1>2 DEF Ordered
  <2>. QED
    BY <1>1, <1>2, <2>1 DEF Ordered, Older
<1>5. FitInv'
  BY <1>1, <1>2 DEF FitInv, Fits, AtWork
<1>6. CoverInv'
  BY <1>1, <1>2, <1>3 DEF CoverInv, Named, AtWork
<1>7. ReaderInv'
  <2>1. NewIds /\ nextId \in Nat /\ nextId' \in Nat /\ nextId <= nextId'
    BY <1>1, Parts DEF NewIds
  <2>. QED
    BY <1>1, <2>1, ReadersKept DEF ReaderInv, Prefix
<1>. QED
  BY <1>4, <1>5, <1>6, <1>7

\* The builder stops, with every file as it is
LEMMA InvStop == ASSUME TypeOK, Inv, UNCHANGED <<docs, mapping, present, chunks, nextId, shifted, reader>>,
                        builder' = Idle, live' = live \/ (live' /\ present),
                        owed' \/ (owed' = owed /\ builder.pc = "built")
                 PROVE  Inv'
<1> USE DEF Inv
<1>1. builder'.pc = "idle" /\ builder'.map = <<>> /\ builder'.rows = <<>>
  BY IdleType
<1>2. Ordered'
  BY <1>1 DEF Ordered, Older
<1>3. FitInv'
  BY <1>1 DEF FitInv, Fits, AtWork
<1>4. CoverInv'
  BY <1>1 DEF CoverInv, Named, AtWork
<1>5. ReaderInv'
  <2>1. NewIds /\ nextId \in Nat /\ nextId' \in Nat /\ nextId <= nextId'
    BY Parts DEF NewIds
  <2>. QED
    BY <2>1, ReadersKept DEF ReaderInv, Prefix
<1>. QED
  BY <1>2, <1>3, <1>4, <1>5

LEMMA InvDelete == ASSUME TypeOK, Inv, BeginDelete PROVE Inv'
<1> USE DEF Inv
<1>1. PICK removed \in SUBSET chunks :
        LET cut == {i \in DOMAIN mapping : mapping[i] \in removed}
        IN  /\ chunks' = chunks \ removed
            /\ builder' = IF cut = {} THEN Idle
                          ELSE [Idle EXCEPT !.pc = "deleting", !.cut = cut,
                                  !.map = [i \in DOMAIN mapping |->
                                              IF i \in cut THEN Tombstone ELSE mapping[i]]]
  BY DEF BeginDelete
<1> DEFINE cut == {i \in DOMAIN mapping : mapping[i] \in removed}
           map == [i \in DOMAIN mapping |-> IF i \in cut THEN Tombstone ELSE mapping[i]]
<1>2. /\ DOMAIN map = DOMAIN mapping
      /\ \A i \in DOMAIN map : map[i] = IF i \in cut THEN Tombstone ELSE mapping[i]
      /\ \A i \in cut : i \in DOMAIN mapping /\ mapping[i] \in removed
      /\ \A i \in DOMAIN mapping : mapping[i] \in removed => i \in cut
  OBVIOUS
<1>3. /\ chunks' = chunks \ removed
      /\ builder' = IF cut = {} THEN Idle ELSE [Idle EXCEPT !.pc = "deleting", !.cut = cut, !.map = map]
  BY <1>1
<1> HIDE DEF cut, map
<1>4. /\ UNCHANGED <<docs, mapping, present, live, nextId, shifted, owed, reader>>
      /\ builder.pc = "idle" /\ Tombstone \notin chunks
  BY Parts DEF BeginDelete
<1>5. /\ builder'.pc = "idle" \/ (builder'.pc = "deleting" /\ builder'.cut = cut /\ builder'.map = map)
      /\ builder'.map = <<>> \/ builder'.map = map
      /\ builder'.rows = <<>>
  BY <1>3, IdleType DEF BuilderType
<1>6. Ordered'
  <2>1. \A i \in DOMAIN map : map[i] = Tombstone \/ map[i] < nextId
    BY <1>2 DEF Ordered, Older
  <2>. QED
    BY <1>4, <1>5, <2>1 DEF Ordered, Older
<1>7. FitInv'
  <2>1. ASSUME ~shifted PROVE \A i \in DOMAIN mapping : mapping[i] \in chunks' => i \in DOMAIN docs /\ docs[i] = mapping[i]
    BY <1>3, <2>1 DEF FitInv, Fits
  <2>2. ASSUME ~shifted PROVE \A i \in DOMAIN map : map[i] \in chunks' => i \in DOMAIN docs /\ docs[i] = map[i]
    BY <1>2, <1>3, <1>4, <2>1, <2>2
  <2>3. \A i \in cut : i \in DOMAIN mapping /\ mapping[i] \notin chunks' /\ i \in DOMAIN map /\ map[i] = Tombstone
    BY <1>2, <1>3
  <2>. QED
    BY <1>4, <1>5, <2>1, <2>2, <2>3 DEF FitInv, Fits, AtWork
<1>8. CoverInv'
  <2>1. ASSUME ~shifted, ~owed, NEW c \in chunks' PROVE Named(mapping, c) /\ \E i \in DOMAIN map : map[i] = c
    <3>1. c \in chunks /\ c \notin removed
      BY <1>3
    <3>2. PICK i \in DOMAIN mapping : mapping[i] = c
      BY <1>4, <2>1, <3>1 DEF CoverInv, Named
    <3>. QED
      BY <1>2, <3>1, <3>2 DEF Named
  <2>. QED
    BY <1>4, <1>5, <2>1 DEF CoverInv, Named, AtWork
<1>9. ReaderInv'
  <2>1. NewIds /\ nextId \in Nat /\ nextId' \in Nat /\ nextId <= nextId'
    BY <1>3, <1>4, Parts DEF NewIds
  <2>. QED
    BY <1>4, <2>1, ReadersKept DEF ReaderInv, Prefix
<1>. QED
  BY <1>6, <1>7, <1>8, <1>9

LEMMA InvDeleteDocs == ASSUME TypeOK, Inv, DeleteDocs PROVE Inv'
<1> USE DEF Inv
<1>1. /\ UNCHANGED <<mapping, present, live, chunks, nextId, owed>> /\ builder.pc = "deleting"
      /\ builder' = [builder EXCEPT !.pc = "deleted"] /\ (~shifted' => ~shifted)
  <2>1. \/ shifted' = (shifted \/ \E i \in builder.cut, j \in DOMAIN docs \ builder.cut : i < j)
        \/ shifted' = shifted
    BY DEF DeleteDocs
  <2>2. ~shifted' => ~shifted
    BY <2>1, Zenon
  <2>. QED
    BY <2>2 DEF DeleteDocs
<1>2. /\ builder'.pc = "deleted" /\ builder'.map = builder.map /\ builder'.rows = builder.rows
      /\ builder'.done = builder.done
  BY <1>1 DEF TypeOK
<1>3. Ordered'
  BY <1>1, <1>2 DEF Ordered, Older
<1>4. CoverInv'
  BY <1>1, <1>2 DEF CoverInv, Named, AtWork
<1>5. ASSUME ~shifted', NEW i \in DOMAIN docs, i \notin builder.cut
      PROVE  i \in DOMAIN docs' /\ docs'[i] = docs[i]
  <2>1. CASE docs' = Compacted(builder.cut) /\ ~ \E j \in builder.cut, k \in DOMAIN docs \ builder.cut : j < k
    <3>1. docs \in Seq(Nat) /\ builder.cut \subseteq Nat
      BY BuilderParts DEF TypeOK
    <3>. QED
      BY <1>5, <2>1, <3>1, CompactedTail
  <2>2. CASE docs' = docs
    BY <2>2
  <2>. QED
    BY <1>5, <2>1, <2>2 DEF DeleteDocs
<1>6. FitInv'
  <2>1. ASSUME ~shifted', NEW i \in DOMAIN mapping, mapping[i] \in chunks
        PROVE  i \in DOMAIN docs' /\ docs'[i] = mapping[i]
    BY <1>1, <1>5, <2>1 DEF FitInv, Fits
  <2>2. ASSUME ~shifted', NEW i \in DOMAIN builder.map, builder.map[i] \in chunks
        PROVE  i \in DOMAIN docs' /\ docs'[i] = builder.map[i]
    <3>1. i \notin builder.cut
      BY <1>1, <2>2, Parts DEF FitInv
    <3>2. i \in DOMAIN docs /\ docs[i] = builder.map[i]
      BY <1>1, <2>2 DEF FitInv, Fits, AtWork
    <3>. QED
      BY <1>5, <2>2, <3>1, <3>2
  <2>. QED
    BY <1>1, <1>2, <2>1, <2>2 DEF FitInv, Fits
<1>7. ReaderInv'
  <2>1. CASE UNCHANGED <<docs, shifted, reader>>
    <3>1. NewIds /\ nextId \in Nat /\ nextId' \in Nat /\ nextId <= nextId'
      BY <1>1, Parts DEF NewIds
    <3>. QED
      BY <1>1, <2>1, <3>1, ReadersKept DEF ReaderInv, Prefix
  <2>2. CASE reader' = [r \in Readers |-> IF reader[r].pc = "loaded"
                                          THEN [reader[r] EXCEPT !.stale = TRUE]
                                          ELSE reader[r]]
    <3>1. ASSUME NEW r \in Readers
          PROVE  /\ reader'[r].pc = reader[r].pc /\ reader'[r].map = reader[r].map
                 /\ reader'[r].docs = reader[r].docs /\ (reader[r].pc = "loaded" => reader'[r].stale)
                 /\ reader[r].pc # "loaded" => reader'[r].stale = reader[r].stale
      BY <2>2 DEF TypeOK
    <3>. QED
      BY <1>1, <3>1 DEF ReaderInv, Older, Right, Answers
  <2>. QED
    BY <2>1, <2>2 DEF DeleteDocs
<1>. QED
  BY <1>3, <1>4, <1>6, <1>7

-----------------------------------------------------------------------------
(* Steps of the readers, and the theorems.                                 *)

LEMMA InvRead == ASSUME TypeOK, Inv, NEW r \in Readers, LoadIndex(r) \/ LoadMapping(r) \/ Close(r)
                 PROVE  Inv'
<1> USE DEF Inv
<1>1. UNCHANGED <<docs, mapping, present, live, chunks, nextId, shifted, owed, builder>>
  BY DEF LoadIndex, LoadMapping, Close
<1>2. Ordered' /\ FitInv' /\ CoverInv'
  BY <1>1 DEF Ordered, FitInv, CoverInv, Older, Fits, Named
<1>3. \A q \in Readers \ {r} : reader'[q] = reader[q]
  BY DEF LoadIndex, LoadMapping, Close, TypeOK
<1>4. docs \in Seq(Nat) /\ Len(docs) \in Nat /\ r \in DOMAIN reader /\ reader[r] \in ReaderType
  BY LenProperties DEF TypeOK, ReaderType
<1>5. NotOpen.pc = "closed" /\ NotOpen.map = <<>>
  BY DEF NotOpen
<1>6. CASE LoadIndex(r)
  <2>1. reader'[r].pc = "loaded" /\ reader'[r].docs = docs /\ reader'[r].map = <<>> /\ live /\ present
    BY <1>4, <1>6 DEF LoadIndex, NotOpen, SameEmbedderLive
  <2>. QED
    BY <1>1, <1>2, <1>3, <1>4, <2>1 DEF ReaderInv, Older, Right, Answers, Prefix
<1>7. CASE LoadMapping(r)
  <2>1. /\ reader'[r].pc = "open" /\ reader'[r].docs = reader[r].docs /\ reader'[r].map = mapping
        /\ reader[r].pc = "loaded" /\ (~reader'[r].stale => ~reader[r].stale /\ ~shifted)
    BY <1>4, <1>7 DEF LoadMapping, ReaderType
  <2>2. ASSUME ~reader'[r].stale, NEW i \in DOMAIN mapping, i \in DOMAIN reader[r].docs, mapping[i] \in chunks
        PROVE  mapping[i] = reader[r].docs[i]
    <3>1. Prefix(reader[r].docs) /\ docs[i] = mapping[i]
      BY <2>1, <2>2 DEF ReaderInv, FitInv, Fits
    <3>2. i \in 1 .. Len(reader[r].docs)
      BY <1>4, <2>2, LenProperties DEF ReaderType
    <3>. QED
      BY <3>1, <3>2 DEF Prefix
  <2>. QED
    BY <1>1, <1>2, <1>3, <2>1, <2>2 DEF ReaderInv, Ordered, Older, Right, Answers, Prefix
<1>8. CASE Close(r)
  <2>1. reader'[r].pc = "closed" /\ reader'[r].map = <<>>
    BY <1>4, <1>5, <1>8 DEF Close
  <2>. QED
    BY <1>1, <1>2, <1>3, <2>1 DEF ReaderInv, Older, Right, Answers, Prefix
<1>. QED
  BY <1>6, <1>7, <1>8

LEMMA InvNext == ASSUME TypeOK, Inv, [Next]_vars PROVE Inv'
<1>1. ASSUME FlipActive \/ Interrupt PROVE Inv'
  <2>1. /\ UNCHANGED <<docs, mapping, present, chunks, nextId, shifted, reader>> /\ builder' = Idle
        /\ live' = live \/ (live' /\ present)
        /\ owed' \/ (owed' = owed /\ builder.pc = "built")
    BY <1>1 DEF FlipActive, Interrupt, Inv, Ordered
  <2>. QED
    BY <2>1, InvStop
<1>2. ASSUME SwitchAway PROVE Inv'
  <2>1. /\ UNCHANGED <<docs, mapping, present, chunks, nextId, shifted, owed, builder, reader>>
        /\ ~live' /\ \A r \in Readers : reader[r].pc # "loaded"
    BY <1>2 DEF SwitchAway
  <2>. QED
    BY <2>1 DEF Inv, Ordered, FitInv, CoverInv, ReaderInv, Older, Fits, Named, Right, Answers
<1>3. ASSUME UNCHANGED vars PROVE Inv'
  BY <1>3 DEF vars, Inv, Ordered, FitInv, CoverInv, ReaderInv, Older, Fits, Named, Right, Answers, Prefix
<1>. QED
  BY <1>1, <1>2, <1>3, InvBuild, InvInsert, InvAdd, InvWrite, InvDelete, InvDeleteDocs, InvRead DEF Next

\* The variables of the model keep their types (PlaidStore, colbert_plaid_backend.rs).
THEOREM TypeCorrect == Spec => []TypeOK
<1>1. TypeOK /\ [Next]_vars => TypeOK'
  BY TypeNext
<1>. QED
  BY TypeInit, <1>1, PTL DEF Spec

LEMMA InvHolds == Spec => []Inv
<1>1. TypeOK /\ Inv /\ [Next]_vars => Inv'
  BY InvNext
<1>. QED
  BY TypeCorrect, InvInit, <1>1, PTL DEF Spec

\* No batch, interrupted update or racing load makes the store answer with the wrong chunk
\* of a document, until a deletion renumbers documents (update_append, delete, load).
THEOREM AnswersNeverWrong == Spec => []AnswersRight
<1>1. Inv => AnswersRight
  BY DEF Inv, FitInv, ReaderInv, Fits, AnswersRight, Right, Answers
<1>. QED
  BY InvHolds, <1>1, PTL

\* Between builds every chunk SQLite holds is found, unless an update was interrupted or
\* documents were renumbered: the mapping written last covers all that was appended.
THEOREM EveryChunkFound == Spec => []NoChunkLost
<1>1. Inv => NoChunkLost
  <2> SUFFICES ASSUME Inv, builder.pc = "idle", ~shifted, ~owed, NEW c \in chunks
               PROVE  c \in {mapping[i] : i \in Answers(mapping, docs)}
    BY DEF NoChunkLost
  <2>1. PICK i \in DOMAIN mapping : mapping[i] = c
    BY DEF Inv, CoverInv, Named
  <2>2. i \in Answers(mapping, docs)
    BY <2>1 DEF Inv, FitInv, Fits, Answers
  <2>. QED
    BY <2>1, <2>2
<1>. QED
  BY InvHolds, <1>1, PTL

-----------------------------------------------------------------------------
(***************************************************************************)
(* The HNSW store, the other format.                                       *)
(***************************************************************************)

(* The empty sequence and every sequence of ids are sequences of slots. *)
LEMMA SlotSeqs == <<>> \in Seq(Nat) /\ <<>> \in Seq(RowSlot) /\ Seq(Nat) \subseteq Seq(RowSlot)
<1>1. <<>> \in Seq(Nat) /\ <<>> \in Seq(RowSlot)
  OBVIOUS
<1>2. ASSUME NEW s \in Seq(Nat) PROVE s \in Seq(RowSlot)
  <2>1. Len(s) \in Nat /\ s \in [1 .. Len(s) -> Nat]
    OBVIOUS
  <2>2. s \in [1 .. Len(s) -> RowSlot]
    BY <2>1 DEF RowSlot
  <2> QED
    BY <2>1, <2>2, SeqDef
<1> QED
  BY <1>1, <1>2

LEMMA BuilderStates ==
  ASSUME NEW p \in Phase, NEW s \in Seq(Nat), NEW n \in Nat
  PROVE  [pc |-> p, rows |-> s, done |-> n] \in [pc : Phase, rows : Seq(Nat), done : Nat]
OBVIOUS

LEMMA IdleState == NoBuild.pc = "idle" /\ NoBuild.done <= Len(NoBuild.rows)
                   /\ NoBuild \in [pc : Phase, rows : Seq(Nat), done : Nat]
BY SlotSeqs, BuilderStates DEF NoBuild, Phase

LEMMA HnswInitInv == HnswInit => IInv
<1> SUFFICES ASSUME HnswInit PROVE IInv
  OBVIOUS
<1> USE DEF HnswInit, NoBuild, NotLoaded
<1>1. HnswTypeOK
  <2>1. StoreTypeOK
    BY SlotSeqs DEF StoreTypeOK
  <2>2. BuilderTypeOK
    <3>1. nextId \in Nat \ {0}
      OBVIOUS
    <3>2. torn \in BOOLEAN
      BY Zenon
    <3>3. builder = NoBuild
      OBVIOUS
    <3> HIDE DEF NoBuild, HnswInit
    <3> QED
      BY <3>1, <3>2, <3>3, IdleState DEF BuilderTypeOK
  <2>3. ReaderTypeOK
    BY SlotSeqs DEF ReaderTypeOK
  <2> QED
    BY <2>1, <2>2, <2>3 DEF HnswTypeOK
<1>2. QED
  BY <1>1 DEF IInv, SavingInv, BuiltInv, AppendingInv, LiveInv, HnswReaderInv,
              CleanRowsAligned, LoadedRowsAligned, LoadNeverFails

(* A corpus is a sequence of ids. *)
LEMMA CorpusIsSeq == \A s \in Corpora(Ids) : s \in Seq(Nat) /\ Len(s) \in Nat \ {0}
BY MaxIdAssumption DEF Corpora, Ids

(* Truncating the payload disturbs no live row: the store is not live. *)
LEMMA BeginSaveInv == IInv /\ BeginSave => IInv'
<1> SUFFICES ASSUME IInv, BeginSave PROVE IInv'
  OBVIOUS
<1> USE DEF IInv, BeginSave, SameEmbedderLive
<1>0. PICK corpus \in Corpora(Ids) :
         /\ builder' = [pc |-> "saving", rows |-> corpus, done |-> 0]
         /\ nextId' = IF corpus[Len(corpus)] >= nextId THEN corpus[Len(corpus)] + 1
                                                      ELSE nextId
  OBVIOUS
<1>1. corpus \in Seq(Nat) /\ Len(corpus) \in Nat \ {0}
  BY CorpusIsSeq
<1>2. ~live
  BY DEF LiveInv
<1>3. HnswTypeOK'
  <2>1. StoreTypeOK'
    BY SlotSeqs DEF HnswTypeOK, StoreTypeOK, IndexedIds
  <2>2. corpus[Len(corpus)] \in Nat
    BY <1>1
  <2>3. BuilderTypeOK'
    <3>1. builder' \in [pc : Phase, rows : Seq(Nat), done : Nat]
      BY <1>0, <1>1, BuilderStates DEF Phase
    <3>2. nextId \in Nat \ {0}
      BY DEF HnswTypeOK, BuilderTypeOK
    <3>3. nextId' \in Nat \ {0}
      BY <1>0, <2>2, <3>2
    <3> QED
      BY <3>1, <3>3 DEF BuilderTypeOK
  <2>4. ReaderTypeOK'
    BY DEF HnswTypeOK, ReaderTypeOK
  <2> QED
    BY <2>1, <2>3, <2>4 DEF HnswTypeOK
<1>4. (builder.done <= Len(builder.rows))'
  BY <1>0, <1>1
<1>5. SavingInv' /\ BuiltInv' /\ AppendingInv'
  BY <1>0, <1>2 DEF SavingInv, BuiltInv, AppendingInv
<1>6. LiveInv' /\ CleanRowsAligned'
  BY <1>2 DEF LiveInv, CleanRowsAligned
<1>7. HnswReaderInv' /\ LoadedRowsAligned' /\ LoadNeverFails'
  BY DEF HnswReaderInv, LoadedRowsAligned, LoadNeverFails
<1> QED
  BY <1>3, <1>4, <1>5, <1>6, <1>7

LEMMA BeginAppendInv == IInv /\ BeginAppend => IInv'
<1> SUFFICES ASSUME IInv, BeginAppend PROVE IInv'
  OBVIOUS
<1> USE DEF IInv, BeginAppend, SameEmbedderLive, store
<1>0. PICK n \in 1 .. MaxId + 1 - nextId :
         /\ builder' = [pc |-> "appending",
                        rows |-> [i \in 1 .. n |-> nextId + i - 1], done |-> 0]
         /\ nextId' = nextId + n
  OBVIOUS
<1>1. /\ n \in Nat
      /\ nextId \in Nat \ {0}
      /\ [i \in 1 .. n |-> nextId + i - 1] \in Seq(Nat)
  BY MaxIdAssumption DEF HnswTypeOK, StoreTypeOK, BuilderTypeOK, ReaderTypeOK
<1>2. HnswTypeOK'
  <2>1. builder' \in [pc : Phase, rows : Seq(Nat), done : Nat]
    BY <1>0, <1>1, BuilderStates DEF Phase
  <2>2. nextId' \in Nat \ {0}
    BY <1>0, <1>1
  <2>3. BuilderTypeOK'
    BY <2>1, <2>2 DEF HnswTypeOK, BuilderTypeOK
  <2>4. StoreTypeOK' /\ ReaderTypeOK'
    BY DEF HnswTypeOK, StoreTypeOK, ReaderTypeOK, IndexedIds
  <2> QED
    BY <2>3, <2>4 DEF HnswTypeOK
<1>3. (builder.done <= Len(builder.rows))'
  BY <1>0, <1>1
<1>4. AppendingInv'
  <2>1. /\ live /\ present /\ Len(slots) >= Len(ids)
        /\ Len(slots) \in Nat /\ Len(ids) \in Nat
        /\ ragged \in BOOLEAN /\ torn \in BOOLEAN
    BY DEF LiveInv, HnswTypeOK, StoreTypeOK, BuilderTypeOK
  <2>2. ~torn' => ~ragged /\ Len(slots) = Len(ids)
    BY <2>1
  <2> QED
    BY <1>0, <2>1, <2>2 DEF AppendingInv
<1>5. SavingInv' /\ BuiltInv' /\ LiveInv' /\ CleanRowsAligned'
  BY <1>0 DEF SavingInv, BuiltInv, LiveInv, CleanRowsAligned
<1>6. HnswReaderInv' /\ LoadedRowsAligned' /\ LoadNeverFails'
  BY DEF HnswReaderInv, LoadedRowsAligned, LoadNeverFails
<1> QED
  BY <1>2, <1>3, <1>4, <1>5, <1>6

LEMMA WriteRowInv == IInv /\ WriteRow => IInv'
<1> SUFFICES ASSUME IInv, WriteRow PROVE IInv'
  OBVIOUS
<1> USE DEF IInv, WriteRow
<1> DEFINE cell == IF ragged THEN Garbage ELSE builder.rows[builder.done + 1]
<1>1. /\ slots \in Seq(RowSlot) /\ cell \in RowSlot
      /\ builder.done \in Nat /\ Len(builder.rows) \in Nat
  BY DEF HnswTypeOK, StoreTypeOK, BuilderTypeOK, ReaderTypeOK, RowSlot
<1>2. /\ slots' \in Seq(RowSlot)
      /\ Len(slots') = Len(slots) + 1
      /\ \A i \in 1 .. Len(slots) : slots'[i] = slots[i]
      /\ slots'[Len(slots) + 1] = cell
  BY <1>1
<1>3. builder' = [pc |-> builder.pc, rows |-> builder.rows, done |-> builder.done + 1]
  BY DEF HnswTypeOK, StoreTypeOK, BuilderTypeOK, ReaderTypeOK
<1>4. HnswTypeOK'
  <2>1. StoreTypeOK'
    BY <1>2 DEF HnswTypeOK, StoreTypeOK, IndexedIds
  <2>2. BuilderTypeOK'
    <3>1. builder.pc \in Phase /\ builder.rows \in Seq(Nat) /\ builder.done + 1 \in Nat
      BY DEF HnswTypeOK, BuilderTypeOK
    <3>2. builder' \in [pc : Phase, rows : Seq(Nat), done : Nat]
      BY <1>3, <3>1, BuilderStates
    <3> QED
      BY <3>2 DEF HnswTypeOK, BuilderTypeOK
  <2>3. ReaderTypeOK'
    BY DEF HnswTypeOK, ReaderTypeOK
  <2> QED
    BY <2>1, <2>2, <2>3 DEF HnswTypeOK
<1>5. (builder.done <= Len(builder.rows))'
  BY <1>1, <1>3
<1>6. SavingInv'
  BY <1>1, <1>2, <1>3 DEF SavingInv
<1>7. AppendingInv'
  <2> SUFFICES ASSUME builder.pc = "appending" PROVE AppendingInv'
    BY <1>3 DEF AppendingInv
  <2>1. /\ live /\ Len(ids) \in Nat /\ Len(slots) \in Nat
        /\ Len(slots) >= Len(ids) + builder.done
    BY DEF AppendingInv, HnswTypeOK, StoreTypeOK
  <2>2. ASSUME ~torn
        PROVE  /\ ~ragged
               /\ Len(slots') = Len(ids) + (builder.done + 1)
               /\ \A i \in 1 .. builder.done + 1 : slots'[Len(ids) + i] = builder.rows[i]
    <3>1. /\ ~ragged /\ Len(slots) = Len(ids) + builder.done
          /\ \A i \in 1 .. builder.done : slots[Len(ids) + i] = builder.rows[i]
      BY <2>2 DEF AppendingInv
    <3>2. slots'[Len(ids) + (builder.done + 1)] = builder.rows[builder.done + 1]
      BY <3>1, <2>1, <1>1, <1>2
    <3>3. ASSUME NEW i \in 1 .. builder.done PROVE slots'[Len(ids) + i] = builder.rows[i]
      BY <3>1, <3>3, <2>1, <1>1, <1>2
    <3>4. \A i \in 1 .. builder.done + 1 : i \in 1 .. builder.done \/ i = builder.done + 1
      BY <1>1
    <3> QED
      BY <3>1, <3>2, <3>3, <3>4, <2>1, <1>1, <1>2
  <2> QED
    BY <1>1, <1>2, <1>3, <2>1, <2>2 DEF AppendingInv
<1>8. BuiltInv' /\ LiveInv' /\ CleanRowsAligned'
  BY <1>1, <1>2, <1>3 DEF BuiltInv, LiveInv, CleanRowsAligned, HnswTypeOK, StoreTypeOK,
                          BuilderTypeOK, ReaderTypeOK
<1>9. HnswReaderInv' /\ LoadedRowsAligned' /\ LoadNeverFails'
  BY DEF HnswReaderInv, LoadedRowsAligned, LoadNeverFails
<1> QED
  BY <1>4, <1>5, <1>6, <1>7, <1>8, <1>9

(* The index is published when its rows are on disk. *)
LEMMA CommitIndexInv == IInv /\ CommitIndex => IInv'
<1> SUFFICES ASSUME IInv, CommitIndex PROVE IInv'
  OBVIOUS
<1> USE DEF IInv, CommitIndex, AllRowsWritten
<1>0. ids \in Seq(Nat) /\ builder.rows \in Seq(Nat) /\ slots \in Seq(RowSlot)
  BY DEF HnswTypeOK, StoreTypeOK, BuilderTypeOK, ReaderTypeOK
<1>1. CASE builder.pc = "saving"
  <2>1. /\ ids' = builder.rows
        /\ tombs' = {}
        /\ builder' = [pc |-> "built", rows |-> builder.rows, done |-> builder.done]
    BY <1>1 DEF HnswTypeOK, StoreTypeOK, BuilderTypeOK, ReaderTypeOK
  <2>2. HnswTypeOK'
    <3>1. StoreTypeOK'
      BY <2>1, <1>0 DEF HnswTypeOK, StoreTypeOK
    <3>2. BuilderTypeOK'
      <4>1. builder.done \in Nat /\ "built" \in Phase
        BY DEF HnswTypeOK, BuilderTypeOK, Phase
      <4>2. builder' \in [pc : Phase, rows : Seq(Nat), done : Nat]
        BY <2>1, <1>0, <4>1, BuilderStates
      <4> QED
        BY <4>2 DEF HnswTypeOK, BuilderTypeOK
    <3>3. ReaderTypeOK'
      BY DEF HnswTypeOK, ReaderTypeOK
    <3> QED
      BY <3>1, <3>2, <3>3 DEF HnswTypeOK
  <2>3. SavingInv' /\ BuiltInv' /\ AppendingInv' /\ (builder.done <= Len(builder.rows))'
    BY <2>1, <1>1 DEF SavingInv, BuiltInv, AppendingInv
  <2>4. LiveInv' /\ CleanRowsAligned' /\ HnswReaderInv'
    BY <1>1 DEF SavingInv, LiveInv, CleanRowsAligned, HnswReaderInv
  <2>5. LoadedRowsAligned' /\ LoadNeverFails'
    BY DEF LoadedRowsAligned, LoadNeverFails
  <2> QED
    BY <2>2, <2>3, <2>4, <2>5
<1>2. CASE builder.pc = "appending"
  <2>1. /\ ids' = ids \o builder.rows
        /\ tombs' = tombs
        /\ builder' = [pc |-> "idle", rows |-> <<>>, done |-> 0]
    BY <1>2 DEF NoBuild
  <2>2. /\ ids' \in Seq(Nat)
        /\ Len(ids') = Len(ids) + Len(builder.rows)
        /\ \A i \in 1 .. Len(ids) : ids'[i] = ids[i]
        /\ \A i \in 1 .. Len(builder.rows) : ids'[Len(ids) + i] = builder.rows[i]
        /\ Len(ids) \in Nat /\ Len(builder.rows) \in Nat /\ Len(slots) \in Nat
    BY <2>1, <1>0
  <2>3. HnswTypeOK'
    <3>1. tombs' \subseteq IndexedIds'
      BY <2>1, <2>2 DEF HnswTypeOK, StoreTypeOK, BuilderTypeOK, ReaderTypeOK, IndexedIds
    <3>2. StoreTypeOK'
      BY <2>2, <3>1 DEF HnswTypeOK, StoreTypeOK
    <3>3. BuilderTypeOK'
      <4>1. builder' \in [pc : Phase, rows : Seq(Nat), done : Nat]
        BY <2>1, SlotSeqs, BuilderStates DEF Phase
      <4> QED
        BY <4>1 DEF HnswTypeOK, BuilderTypeOK
    <3>4. ReaderTypeOK'
      BY DEF HnswTypeOK, ReaderTypeOK
    <3> QED
      BY <3>2, <3>3, <3>4 DEF HnswTypeOK
  <2>4. SavingInv' /\ BuiltInv' /\ AppendingInv' /\ (builder.done <= Len(builder.rows))'
    BY <2>1 DEF SavingInv, BuiltInv, AppendingInv
  <2>5. LiveInv'
    BY <2>2, <1>2 DEF LiveInv, AppendingInv
  <2>6. CleanRowsAligned'
    <3> SUFFICES ASSUME live, ~torn, NEW i \in 1 .. Len(ids') PROVE slots[i] = ids'[i]
      BY DEF CleanRowsAligned
    <3>1. CASE i <= Len(ids)
      BY <3>1, <2>2 DEF CleanRowsAligned
    <3>2. CASE i > Len(ids)
      <4>1. i - Len(ids) \in 1 .. Len(builder.rows) /\ i = Len(ids) + (i - Len(ids))
        BY <3>2, <2>2
      <4>2. slots[Len(ids) + (i - Len(ids))] = builder.rows[i - Len(ids)]
        BY <4>1, <1>2 DEF AppendingInv
      <4> QED
        BY <4>1, <4>2, <2>2
    <3> QED
      BY <3>1, <3>2, <2>2
  <2>7. HnswReaderInv'
    BY <2>2 DEF HnswReaderInv, HnswTypeOK, StoreTypeOK, BuilderTypeOK, ReaderTypeOK
  <2>8. LoadedRowsAligned' /\ LoadNeverFails'
    BY DEF LoadedRowsAligned, LoadNeverFails
  <2> QED
    BY <2>3, <2>4, <2>5, <2>6, <2>7, <2>8
<1> QED
  BY <1>1, <1>2

LEMMA FlipActiveInv == IInv /\ HnswFlipActive => IInv'
<1> SUFFICES ASSUME IInv, HnswFlipActive PROVE IInv'
  OBVIOUS
<1> USE DEF IInv, HnswFlipActive
<1>1. HnswTypeOK' /\ (builder.done <= Len(builder.rows))'
  BY IdleState DEF HnswTypeOK, StoreTypeOK, BuilderTypeOK, ReaderTypeOK, IndexedIds
<1>2. SavingInv' /\ BuiltInv' /\ AppendingInv'
  BY IdleState DEF SavingInv, BuiltInv, AppendingInv
<1>3. LiveInv' /\ CleanRowsAligned'
  BY DEF BuiltInv, LiveInv, CleanRowsAligned, HnswTypeOK, StoreTypeOK, BuilderTypeOK,
         ReaderTypeOK
<1>4. HnswReaderInv' /\ LoadedRowsAligned' /\ LoadNeverFails'
  BY DEF HnswReaderInv, LoadedRowsAligned, LoadNeverFails
<1> QED
  BY <1>1, <1>2, <1>3, <1>4

LEMMA DeleteInv == IInv /\ Delete => IInv'
<1> SUFFICES ASSUME IInv, Delete PROVE IInv'
  OBVIOUS
<1> USE DEF IInv, Delete
<1>1. HnswTypeOK' /\ (builder.done <= Len(builder.rows))'
  BY DEF HnswTypeOK, StoreTypeOK, BuilderTypeOK, ReaderTypeOK, IndexedIds
<1>2. SavingInv' /\ BuiltInv' /\ AppendingInv' /\ LiveInv' /\ CleanRowsAligned'
  BY DEF SavingInv, BuiltInv, AppendingInv, LiveInv, CleanRowsAligned
<1>3. HnswReaderInv' /\ LoadedRowsAligned' /\ LoadNeverFails'
  BY DEF HnswReaderInv, LoadedRowsAligned, LoadNeverFails
<1> QED
  BY <1>1, <1>2, <1>3

(* Whatever an interrupted build leaves behind, the indexed rows stand. *)
LEMMA InterruptInv == IInv /\ HnswInterrupt => IInv'
<1> SUFFICES ASSUME IInv, HnswInterrupt PROVE IInv'
  OBVIOUS
<1> USE DEF IInv, HnswInterrupt
<1>1. /\ slots' \in Seq(RowSlot) /\ ragged' \in BOOLEAN
      /\ Len(slots') \in Nat /\ Len(slots) \in Nat
      /\ Len(slots') >= Len(slots)
      /\ \A i \in 1 .. Len(slots) : slots'[i] = slots[i]
  <2>1. slots \in Seq(RowSlot) /\ Garbage \in RowSlot /\ ragged \in BOOLEAN
    BY DEF HnswTypeOK, StoreTypeOK, RowSlot
  <2>2. CASE UNCHANGED <<slots, ragged>>
    BY <2>1, <2>2
  <2>3. CASE PartialRow
    <3>1. slots' = slots \/ slots' = Append(slots, Garbage)
      BY <2>3 DEF PartialRow
    <3>2. ragged' \in BOOLEAN
      BY <2>3 DEF PartialRow
    <3> QED
      BY <2>1, <3>1, <3>2
  <2> QED
    BY <2>2, <2>3
<1>2. HnswTypeOK' /\ (builder.done <= Len(builder.rows))'
  BY <1>1, IdleState DEF HnswTypeOK, StoreTypeOK, BuilderTypeOK, ReaderTypeOK, IndexedIds
<1>3. SavingInv' /\ BuiltInv' /\ AppendingInv'
  BY IdleState DEF SavingInv, BuiltInv, AppendingInv
<1>4. LiveInv' /\ CleanRowsAligned'
  <2>1. LiveInv' /\ Len(ids) \in Nat /\ (live => Len(slots) >= Len(ids))
    BY <1>1 DEF LiveInv, HnswTypeOK, StoreTypeOK
  <2>2. ASSUME live, ~torn, NEW i \in 1 .. Len(ids) PROVE slots'[i] = ids[i]
    <3>1. i \in 1 .. Len(slots) /\ slots[i] = ids[i]
      BY <1>1, <2>1, <2>2 DEF CleanRowsAligned
    <3> QED
      BY <1>1, <3>1
  <2> QED
    BY <2>1, <2>2 DEF CleanRowsAligned
<1>5. HnswReaderInv' /\ LoadedRowsAligned' /\ LoadNeverFails'
  BY DEF HnswReaderInv, LoadedRowsAligned, LoadNeverFails
<1> QED
  BY <1>2, <1>3, <1>4, <1>5

LEMMA SwitchAwayInv == IInv /\ HnswSwitchAway => IInv'
<1> SUFFICES ASSUME IInv, HnswSwitchAway PROVE IInv'
  OBVIOUS
<1> USE DEF IInv, HnswSwitchAway
<1>1. HnswTypeOK' /\ (builder.done <= Len(builder.rows))'
  BY DEF HnswTypeOK, StoreTypeOK, BuilderTypeOK, ReaderTypeOK, IndexedIds
<1>2. SavingInv' /\ BuiltInv' /\ AppendingInv' /\ LiveInv' /\ CleanRowsAligned'
  BY DEF SavingInv, BuiltInv, AppendingInv, LiveInv, CleanRowsAligned
<1>3. HnswReaderInv' /\ LoadedRowsAligned' /\ LoadNeverFails'
  BY DEF HnswReaderInv, LoadedRowsAligned, LoadNeverFails
<1> QED
  BY <1>1, <1>2, <1>3

(* A load pairs the index it read with rows that cannot have moved since. *)
LEMMA ReaderStepInv ==
  ASSUME NEW r \in Readers, IInv, ReadIndex(r) \/ ReadPayload(r) \/ HnswClose(r)
  PROVE  IInv'
<1> USE DEF IInv, store
<1>1. /\ SavingInv' /\ BuiltInv' /\ AppendingInv' /\ LiveInv' /\ CleanRowsAligned'
      /\ (builder.done <= Len(builder.rows))'
  BY DEF ReadIndex, ReadPayload, HnswClose, SavingInv, BuiltInv, AppendingInv, LiveInv,
         CleanRowsAligned
<1>2. CASE ReadIndex(r)
  <2>1. HnswTypeOK'
    <3>1. StoreTypeOK' /\ BuilderTypeOK'
      BY <1>2 DEF ReadIndex, HnswTypeOK, StoreTypeOK, BuilderTypeOK, IndexedIds
    <3>2. ids \in Seq(Nat) /\ tombs \in SUBSET Nat
      BY DEF HnswTypeOK, StoreTypeOK, IndexedIds
    <3>3. ReaderTypeOK'
      BY <1>2, <3>2, SlotSeqs DEF ReadIndex, HnswTypeOK, ReaderTypeOK
    <3> QED
      BY <3>1, <3>3 DEF HnswTypeOK
  <2>2. HnswReaderInv' /\ LoadedRowsAligned' /\ LoadNeverFails'
    BY <1>2 DEF ReadIndex, SameEmbedderLive, HnswReaderInv, LoadedRowsAligned,
                LoadNeverFails, HnswTypeOK, StoreTypeOK, BuilderTypeOK, ReaderTypeOK
  <2> QED
    BY <1>1, <2>1, <2>2
<1>3. CASE ReadPayload(r)
  <2> DEFINE count == Len(reader[r].ids)
             loaded == SubSeq(slots, 1, count)
  <2>1. /\ reader[r].ids \in Seq(Nat) /\ count \in Nat /\ slots \in Seq(RowSlot)
        /\ Len(slots) \in Nat /\ Len(ids) \in Nat /\ ids \in Seq(Nat)
    BY DEF HnswTypeOK, StoreTypeOK, BuilderTypeOK, ReaderTypeOK
  <2>2. /\ live /\ count <= Len(ids) /\ Len(ids) <= Len(slots)
        /\ \A i \in 1 .. count : reader[r].ids[i] = ids[i]
    BY <1>3, <2>1 DEF ReadPayload, HnswReaderInv, LiveInv
  <2>3. /\ loaded \in Seq(RowSlot) /\ Len(loaded) = count
        /\ \A i \in 1 .. count : loaded[i] = slots[i]
    BY <2>1, <2>2
  <2>4. reader' = [reader EXCEPT ![r] =
                     [@ EXCEPT !.pc = "open", !.rows = loaded, !.torn = torn]]
    <3>1. ~(Len(slots) < count)
      BY <2>1, <2>2
    <3> QED
      BY <1>3, <3>1 DEF ReadPayload
  <2> HIDE DEF count, loaded
  <2>5. ~torn => loaded = reader[r].ids
    <3> SUFFICES ASSUME ~torn PROVE loaded = reader[r].ids
      OBVIOUS
    <3>1. \A i \in 1 .. count : loaded[i] = reader[r].ids[i]
      <4> SUFFICES ASSUME NEW i \in 1 .. count PROVE loaded[i] = reader[r].ids[i]
        OBVIOUS
      <4>1. i \in 1 .. Len(ids)
        BY <2>1, <2>2 DEF count
      <4>2. slots[i] = ids[i]
        BY <2>2, <4>1 DEF CleanRowsAligned
      <4> QED
        BY <2>2, <2>3, <4>2
    <3>2. reader[r].ids \in Seq(RowSlot)
      BY <2>1, SlotSeqs
    <3> QED
      BY <2>1, <2>3, <3>1, <3>2, SeqEqual DEF count
  <2>6. HnswTypeOK'
    <3>1. StoreTypeOK' /\ BuilderTypeOK'
      BY <1>3 DEF ReadPayload, HnswTypeOK, StoreTypeOK, BuilderTypeOK, IndexedIds
    <3>2. ReaderTypeOK'
      BY <2>3, <2>4 DEF HnswTypeOK, BuilderTypeOK, ReaderTypeOK
    <3> QED
      BY <3>1, <3>2 DEF HnswTypeOK
  <2>7. LoadedRowsAligned'
    BY <2>4, <2>5 DEF LoadedRowsAligned, HnswTypeOK, ReaderTypeOK
  <2>8. HnswReaderInv' /\ LoadNeverFails'
    <3>1. live' = live /\ ids' = ids
      BY <1>3 DEF ReadPayload
    <3>2. reader'[r].pc = "open" /\ \A q \in Readers \ {r} : reader'[q] = reader[q]
      BY <2>4 DEF HnswTypeOK, ReaderTypeOK
    <3> QED
      BY <3>1, <3>2 DEF HnswReaderInv, LoadNeverFails
  <2> QED
    BY <1>1, <2>6, <2>7, <2>8
<1>4. CASE HnswClose(r)
  <2>1. HnswTypeOK'
    BY <1>4 DEF HnswClose, NotLoaded, HnswTypeOK, StoreTypeOK, BuilderTypeOK, ReaderTypeOK,
                IndexedIds
  <2>2. HnswReaderInv' /\ LoadedRowsAligned' /\ LoadNeverFails'
    BY <1>4 DEF HnswClose, NotLoaded, HnswReaderInv, LoadedRowsAligned, LoadNeverFails, HnswTypeOK,
                StoreTypeOK, BuilderTypeOK, ReaderTypeOK
  <2> QED
    BY <1>1, <2>1, <2>2
<1> QED
  BY <1>2, <1>3, <1>4

LEMMA HnswStepInv == IInv /\ [HnswNext]_hnswVars => IInv'
<1> SUFFICES ASSUME IInv, [HnswNext]_hnswVars PROVE IInv'
  OBVIOUS
<1>1. CASE UNCHANGED hnswVars
  BY <1>1 DEF hnswVars, IInv, HnswTypeOK, StoreTypeOK, BuilderTypeOK, ReaderTypeOK,
              IndexedIds, SavingInv, BuiltInv, AppendingInv, LiveInv,
              HnswReaderInv, CleanRowsAligned, LoadedRowsAligned, LoadNeverFails
<1>2. CASE HnswNext
  BY <1>2, BeginSaveInv, BeginAppendInv, WriteRowInv, CommitIndexInv, FlipActiveInv,
     DeleteInv, InterruptInv, SwitchAwayInv, ReaderStepInv DEF HnswNext
<1> QED
  BY <1>1, <1>2

THEOREM HnswInvariance == HnswSpec => []IInv
BY HnswInitInv, HnswStepInv, PTL DEF HnswSpec

(* Every variable keeps its type; a tombstone flag belongs to a row.       *)
THEOREM HnswTypeCorrect == HnswSpec => []HnswTypeOK
<1>1. IInv => HnswTypeOK
  BY DEF IInv
<1> QED
  BY <1>1, HnswInvariance, PTL

(* No load of the live store meets a payload shorter than its index counts. *)
THEOREM LoadsSucceed == HnswSpec => []LoadNeverFails
<1>1. IInv => LoadNeverFails
  BY DEF IInv
<1> QED
  BY <1>1, HnswInvariance, PTL

(* Every row a search may read, in the live store or in a load that raced  *)
(* the builds, is its id's vector unless an append started behind an       *)
(* orphan tail.                                                            *)
THEOREM RowsBelong == HnswSpec => []RowsAligned
<1>1. IInv => RowsAligned
  BY DEF IInv, RowsAligned
<1> QED
  BY <1>1, HnswInvariance, PTL

(* A live store only grows: no indexed row moves, no tombstone is lifted.  *)
THEOREM Grows == HnswSpec => LiveStoreOnlyGrows
<1> DEFINE Grow == live /\ live' =>
           /\ Len(ids) <= Len(ids')
           /\ \A i \in 1 .. Len(ids) : ids'[i] = ids[i] /\ slots'[i] = slots[i]
           /\ tombs \subseteq tombs'
<1>1. ASSUME IInv, [HnswNext]_hnswVars PROVE [Grow]_hnswVars
  <2> SUFFICES ASSUME HnswNext, live, live' PROVE Grow
    BY <1>1
  <2> USE <1>1 DEF IInv
  <2>0. /\ ids \in Seq(Nat) /\ slots \in Seq(RowSlot) /\ Len(ids) \in Nat
        /\ Len(slots) \in Nat /\ Len(slots) >= Len(ids)
    BY DEF HnswTypeOK, StoreTypeOK, BuilderTypeOK, ReaderTypeOK, LiveInv
  <2>1. CASE BeginSave
    BY <2>1 DEF BeginSave, SameEmbedderLive, LiveInv
  <2>2. CASE BeginAppend
    BY <2>0, <2>2 DEF BeginAppend, store
  <2>3. CASE WriteRow
    BY <2>0, <2>3 DEF WriteRow
  <2>4. CASE CommitIndex
    <3>1. builder.pc = "appending" /\ builder.rows \in Seq(Nat)
      BY <2>4 DEF CommitIndex, SavingInv, HnswTypeOK, StoreTypeOK, BuilderTypeOK,
                  ReaderTypeOK
    <3> QED
      BY <2>0, <2>4, <3>1 DEF CommitIndex
  <2>5. CASE HnswFlipActive
    BY <2>0, <2>5 DEF HnswFlipActive
  <2>6. CASE Delete
    BY <2>0, <2>6 DEF Delete
  <2>7. CASE HnswInterrupt
    BY <2>0, <2>7 DEF HnswInterrupt, PartialRow
  <2>8. CASE HnswSwitchAway
    BY <2>8 DEF HnswSwitchAway
  <2>9. ASSUME NEW r \in Readers, ReadIndex(r) \/ ReadPayload(r) \/ HnswClose(r) PROVE Grow
    BY <2>0, <2>9 DEF ReadIndex, ReadPayload, HnswClose, store
  <2> QED
    BY <2>1, <2>2, <2>3, <2>4, <2>5, <2>6, <2>7, <2>8, <2>9 DEF HnswNext
<1> QED
  BY <1>1, HnswInvariance, PTL DEF HnswSpec, LiveStoreOnlyGrows


=============================================================================
