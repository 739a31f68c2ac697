-------------------------- MODULE IndexBuildProofs --------------------------
(***************************************************************************)
(* For any files, texts, embedders and backends, wherever a build dies and *)
(* whenever the user edits: no id stands for two chunks, ACTIVE names a    *)
(* complete store, the indexes hold the committed chunks, a build in a     *)
(* quiet tree leaves the chunks of the tree, and a stored hash comes apart *)
(* from its chunks for two reasons only.  The builder implements           *)
(* SearchIndex: a query keeps finding what stays committed.                *)
(***************************************************************************)
EXTENDS IndexBuild, TLAPS

Wiping == {"wipeSparse", "wipeDense", "wipeChunks", "wipeMeta"}
Filling == {"files", "read"}
Committed == {"commitSparse", "decide", "full", "flip", "delete", "insert", "meta"}

\* Which phases run under an old meta.json, and what the later phases rely on
PhaseInv ==
    /\ builder.pc # "idle" => Emb \in Embedders
    /\ builder.pc \in Wiping => meta = Old
    /\ builder.pc \in {"scan"} \cup Filling \cup Committed => meta # Old
    /\ builder.pc = "read" => /\ builder.file \in Files \ builder.todo
                              /\ builder.hash \in Texts \cup {Blank}
    /\ builder.pc \in {"delete", "insert"} => active[BackendOf[Emb]] = Emb
    /\ builder.pc = "full" => active[BackendOf[Emb]] # Emb

\* A wipe has removed what it has passed, and has reset the ids last
WipeInv ==
    /\ builder.pc \in Wiping \ {"wipeSparse"} => sparse = {}
    /\ builder.pc \in {"wipeChunks", "wipeMeta"} =>
          /\ \A e \in Embedders : dense[e] = NoStore
          /\ Live = {}
    /\ builder.pc = "wipeMeta" => db = EmptyDb

StoreInv ==
    /\ \A b \in Live : BackendOf[active[b]] = b
    /\ ActiveStoreIsWhole
    /\ builder.pc = "flip" =>
          dense[Emb] = [sentinel |-> TRUE, whole |-> TRUE, docs |-> db.chunks]

OneChunkPerId(S) == \A c, d \in S : c.id = d.id => c = d

\* The transaction hands out ids above every id an index may hold
IdInv ==
    /\ IdsNameOneChunk
    /\ \A c \in Indexed : c.id < db.next
    /\ builder.pc \in Filling =>
          /\ db.next <= builder.tx.next
          /\ \A c \in builder.tx.chunks :
                c \in db.chunks \/ (db.next <= c.id /\ c.id < builder.tx.next)
          /\ OneChunkPerId(builder.tx.chunks)
          /\ \A c \in builder.tx.chunks : builder.tx.rows[c.file] # None
    /\ builder.pc \in Committed => builder.fresh \subseteq db.chunks

\* What the update of an index makes of it
Updated(docs) == Without(docs, builder.removed) \cup builder.fresh

SparseInv ==
    meta # Old /\ "sparse" \notin lost =>
        IF builder.pc = "commitSparse" THEN Updated(sparse) = db.chunks ELSE sparse = db.chunks

\* A live store holds the committed chunks, or still owes this build's change, which
\* makes it hold them when it is the store of the build's embedder
DenseOk(b) ==
    LET docs == dense[active[b]].docs
    IN  /\ builder.pc \notin Committed \/ b \notin builder.owes => docs = db.chunks
        /\ builder.pc \in {"commitSparse", "decide", "delete"} /\ active[b] = Emb =>
              Updated(docs) = db.chunks
        /\ builder.pc = "insert" /\ active[b] = Emb => docs \cup builder.fresh = db.chunks

DenseInv == meta # Old => \A b \in Live \ lost : DenseOk(b)

OweInv ==
    /\ builder.pc \notin Committed => builder.owes = {}
    /\ builder.pc \in Committed /\ NoChanges => builder.owes = {}
    /\ builder.pc = "commitSparse" /\ ~NoChanges => "sparse" \in builder.owes
    /\ builder.pc \in Committed \ {"meta"} /\ ~NoChanges => Live \subseteq builder.owes

TextsIn(f, d) == {c.text : c \in ChunksOf(f, d.chunks)}
Apart(f, d) == d.rows[f] # None /\ TextsIn(f, d) # {d.rows[f]}
Current(f, d) ==
    tree[f] # Unreadable => \/ TextsIn(f, d) = Wanted(f)
                            \/ Apart(f, d) /\ d.rows[f] = tree[f]

\* In a quiet tree the transaction leaves the files to come as they were and has brought
\* the others up to date, the one it is reading excepted
QuietFile(f) ==
    LET tx == builder.tx
    IN  IF f \in builder.todo
        THEN /\ tree[f] # Absent
             /\ tx.rows[f] = db.rows[f]
             /\ ChunksOf(f, tx.chunks) = ChunksOf(f, db.chunks)
        ELSE IF builder.pc = "read" /\ f = builder.file
        THEN ChunksOf(f, tx.chunks) = {} /\ builder.hash = tree[f]
        ELSE Current(f, tx) /\ (Apart(f, tx) => Apart(f, db) \/ tree[f] = Blank)

FreshInv ==
    builder.quiet =>
        /\ builder.pc \in Filling => \A f \in Files : QuietFile(f)
        /\ builder.pc \in Committed \/ (builder.pc = "idle" /\ builder.ok) =>
              \A f \in Files : Current(f, db)

IInv == /\ TypeOK /\ PhaseInv /\ WipeInv /\ StoreInv /\ IdInv
        /\ SparseInv /\ DenseInv /\ OweInv /\ FreshInv

-----------------------------------------------------------------------------
BuilderType ==
    [pc : Phases, emb : Embedders \cup {None}, todo : SUBSET Files,
     file : Files \cup {None}, hash : Contents \cup {None}, tx : Db,
     removed : SUBSET Chunk, fresh : SUBSET Chunk,
     owes : SUBSET Indexes, ok : BOOLEAN, quiet : BOOLEAN]

StoreType == [sentinel : BOOLEAN, whole : BOOLEAN, docs : SUBSET Chunk]

(* The empty values have their types. *)
LEMMA EmptyDbType == EmptyDb \in Db
BY DEF EmptyDb, Db

LEMMA NoStoreType == NoStore \in StoreType
BY DEF NoStore, StoreType

LEMMA IdleType == ASSUME NEW ok \in BOOLEAN, NEW quiet \in BOOLEAN
                  PROVE  Idle(ok, quiet) \in BuilderType
BY EmptyDbType DEF Idle, BuilderType, Phases

LEMMA DbParts == ASSUME NEW d \in Db
                 PROVE  /\ d.rows \in [Files -> Contents \cup {None}]
                        /\ d.chunks \subseteq Chunk
                        /\ d.next \in Nat \ {0}
BY DEF Db

LEMMA DbMade == ASSUME NEW r \in [Files -> Contents \cup {None}], NEW c \in SUBSET Chunk,
                       NEW n \in Nat \ {0}
                PROVE  [rows |-> r, chunks |-> c, next |-> n] \in Db
BY DEF Db

(* A step that moves the builder to another phase, whatever else it sets. *)
LEMMA GoType == ASSUME TypeOK, NEW p \in Phases PROVE Go(p) \in BuilderType
BY DEF TypeOK, BuilderType, Go

LEMMA TypeInit == Init => TypeOK
<1> SUFFICES ASSUME Init PROVE TypeOK
  OBVIOUS
<1>1. builder \in BuilderType
  BY IdleType DEF Init
<1>2. dense \in [Embedders -> StoreType]
  BY NoStoreType DEF Init
<1>3. \A c \in db.chunks : db.rows[c.file] # None
  BY DEF Init, EmptyDb
<1> QED
  BY <1>1, <1>2, <1>3, EmptyDbType DEF Init, TypeOK, BuilderType, StoreType

-----------------------------------------------------------------------------
(* The types.                                                              *)

TypeParts ==
    /\ tree \in [Files -> Contents]
    /\ db \in Db
    /\ sparse \subseteq Chunk
    /\ dense \in [Embedders -> StoreType]
    /\ active \in [Backends -> Embedders \cup {None}]
    /\ meta \in Embedders \cup {Old, None}
    /\ builder \in BuilderType
    /\ lost \subseteq Indexes

RowInv == \A c \in db.chunks : db.rows[c.file] # None

LEMMA TypeSplit == TypeOK <=> TypeParts /\ RowInv
BY DEF TypeOK, TypeParts, RowInv, BuilderType, StoreType

LEMMA LiveType == Live \subseteq Indexes
BY DEF Live, Indexes

LEMMA EmbParts == ASSUME TypeOK, PhaseInv, builder.pc # "idle"
                  PROVE  /\ Emb \in Embedders /\ Emb # None /\ Emb # Old
                         /\ BackendOf[Emb] \in Backends
BY BackendAssumption, NameAssumption DEF PhaseInv, Emb

(* Whatever a step makes of the builder is a builder.                      *)
LEMMA BuilderStepType == ASSUME IInv, Next PROVE builder' \in BuilderType
<1> USE DEF IInv, TypeOK, BuilderType
<1>0. /\ \A p \in Phases : Go(p) \in BuilderType
      /\ \A p \in Phases, o \in SUBSET Indexes : [Go(p) EXCEPT !.owes = o] \in BuilderType
      /\ \A ok, quiet \in BOOLEAN : Idle(ok, quiet) \in BuilderType
  BY IdleType DEF Go
<1>1. CASE Start
  <2>1. Idle(FALSE, TRUE) \in BuilderType
    BY IdleType
  <2>2. PICK p \in Phases, e \in Embedders :
           builder' = [Idle(FALSE, TRUE) EXCEPT !.pc = p, !.emb = e]
    BY <1>1 DEF Start, Phases
  <2> QED
    BY <2>1, <2>2
<1>2. CASE WipeSparse \/ WipeDense \/ WipeChunks \/ WipeMeta
  BY <1>2, <1>0 DEF WipeSparse, WipeDense, WipeChunks, WipeMeta, Phases
<1>3. CASE Scan
  <2> DEFINE gone == {f \in Files : tree[f] = Absent}
             tx == [rows |-> [f \in Files |-> IF f \in gone THEN None ELSE db.rows[f]],
                    chunks |-> {c \in db.chunks : c.file \notin gone},
                    next |-> db.next]
  <2>1. tx \in Db
    BY DbParts, DbMade
  <2>2. builder' = [builder EXCEPT !.pc = "files", !.todo = Files \ gone, !.tx = tx]
    BY <1>3 DEF Scan
  <2> HIDE DEF tx
  <2> QED
    BY <2>1, <2>2 DEF Phases
<1>4. CASE ReadFile
  <2> DEFINE f == builder.file
             tx == builder.tx
             text == [id |-> tx.next, file |-> f, text |-> tree[f]]
             new == [rows |-> [tx.rows EXCEPT ![f] = builder.hash],
                     chunks |-> tx.chunks \cup {text},
                     next |-> tx.next + 1]
  <2>1. tx \in Db /\ f \in Files /\ builder.hash \in Contents \cup {None}
    BY <1>4 DEF ReadFile, PhaseInv
  <2>2. ASSUME tree[f] \in Texts PROVE new \in Db
    <3>1. text \in Chunk
      BY <2>1, <2>2, DbParts DEF Chunk
    <3>2. [tx.rows EXCEPT ![f] = builder.hash] \in [Files -> Contents \cup {None}]
      BY <2>1, DbParts
    <3>3. tx.next + 1 \in Nat \ {0} /\ tx.chunks \cup {text} \subseteq Chunk
      BY <2>1, <3>1, DbParts
    <3> QED
      BY <3>2, <3>3, DbMade
  <2>3. \/ /\ tree[f] \in Texts
           /\ builder' = [builder EXCEPT !.pc = "files", !.file = None, !.hash = None, !.tx = new]
        \/ builder' = [builder EXCEPT !.pc = "files", !.file = None, !.hash = None]
    BY <1>4 DEF ReadFile
  <2> HIDE DEF new, f, tx, text
  <2>4. CASE new \in Db /\ builder' = [builder EXCEPT !.pc = "files", !.file = None,
                                                    !.hash = None, !.tx = new]
    BY <2>4 DEF Phases
  <2>5. CASE builder' = [builder EXCEPT !.pc = "files", !.file = None, !.hash = None]
    BY <2>5 DEF Phases
  <2> QED
    BY <2>2, <2>3, <2>4, <2>5
<1>5. CASE CommitDb
  BY <1>5, EmptyDbType, DbParts, LiveType DEF CommitDb, Phases, Indexes
<1>6. CASE CommitSparse \/ FlipActive \/ InsertDense
  <2>1. PICK p \in Phases, b \in Indexes :
           builder' = [Go(p) EXCEPT !.owes = @ \ {b}]
    <3>1. CASE CommitSparse
      BY <3>1 DEF CommitSparse, Phases, Indexes
    <3>2. CASE FlipActive \/ InsertDense
      <4>1. BackendOf[Emb] \in Indexes
        BY <3>2, EmbParts DEF FlipActive, InsertDense, Indexes
      <4> QED
        BY <3>2, <4>1 DEF FlipActive, InsertDense, Phases
    <3> QED
      BY <1>6, <3>1, <3>2
  <2> QED
    BY <2>1 DEF Go
<1>7. CASE SkipDense \/ WriteMeta \/ Interrupt
  <2>1. builder' = Idle(TRUE, builder.quiet) \/ builder' = Idle(FALSE, FALSE)
    BY <1>7 DEF SkipDense, WriteMeta, Interrupt
  <2>2. builder.quiet \in BOOLEAN
    OBVIOUS
  <2> QED
    BY <2>1, <2>2, IdleType
<1>8. CASE DecideDense \/ FinishFull \/ DeleteDense \/ DenseFails
  BY <1>8, <1>0 DEF DecideDense, FinishFull, DeleteDense, DenseFails, Phases
<1>9. CASE Upgrade
  BY <1>9 DEF Upgrade
<1>10. ASSUME NEW f \in Files, SkipFile(f) \/ HashFile(f) \/ Edit(f)
       PROVE  builder' \in BuilderType
  <2>1. CASE SkipFile(f) \/ Edit(f)
    BY <2>1 DEF SkipFile, Edit
  <2>2. CASE HashFile(f)
    <3>1. [builder.tx EXCEPT !.chunks = @ \ ChunksOf(f, @)] \in Db
      BY DEF Db
    <3>2. builder' = [builder EXCEPT !.pc = "read", !.todo = @ \ {f}, !.file = f,
                                     !.hash = tree[f],
                                     !.tx = [builder.tx EXCEPT !.chunks = @ \ ChunksOf(f, @)]]
      BY <2>2 DEF HashFile, Db
    <3>3. tree[f] \in Contents
      OBVIOUS
    <3> QED
      BY <3>1, <3>2, <3>3 DEF Phases
  <2> QED
    BY <1>10, <2>1, <2>2
<1> QED
  BY <1>1, <1>2, <1>3, <1>4, <1>5, <1>6, <1>7, <1>8, <1>9, <1>10 DEF Next

(* Which actions change which variable. *)
LEMMA Changes == ASSUME Next
                 PROVE  /\ UNCHANGED tree \/ \E f \in Files : Edit(f)
                        /\ UNCHANGED db \/ WipeChunks \/ CommitDb
                        /\ UNCHANGED sparse \/ WipeSparse \/ CommitSparse
                        /\ \/ UNCHANGED dense \/ WipeDense \/ DecideDense \/ FinishFull
                           \/ DeleteDense \/ InsertDense \/ Interrupt
                        /\ UNCHANGED active \/ WipeDense \/ FlipActive \/ Interrupt
                        /\ UNCHANGED meta \/ WipeMeta \/ WriteMeta \/ Interrupt \/ Upgrade
                        /\ UNCHANGED lost \/ WipeMeta \/ FlipActive \/ WriteMeta \/ Interrupt
BY DEF Next, Start, WipeSparse, WipeDense, WipeChunks, WipeMeta, Scan, ReadFile, CommitDb,
   CommitSparse, SkipDense, DecideDense, FinishFull, FlipActive, DeleteDense, InsertDense,
   DenseFails, WriteMeta, Interrupt, Upgrade, SkipFile, HashFile, Edit

(* Every step keeps the types of the stores.                               *)
LEMMA StoreStepType == ASSUME IInv, Next
                       PROVE  /\ db' \in Db /\ sparse' \subseteq Chunk
                              /\ dense' \in [Embedders -> StoreType]
                              /\ active' \in [Backends -> Embedders \cup {None}]
<1> USE DEF IInv, TypeOK
<1>0. builder.removed \subseteq Chunk /\ builder.fresh \subseteq Chunk /\ builder.tx \in Db
  OBVIOUS
<1>1. db' \in Db
  BY <1>0, Changes, EmptyDbType DEF WipeChunks, CommitDb
<1>2. sparse' \subseteq Chunk
  BY <1>0, Changes DEF WipeSparse, CommitSparse, Without
<1>3. dense' \in [Embedders -> StoreType]
  <2> USE DEF StoreType
  <2>1. CASE WipeDense
    BY <2>1, NoStoreType DEF WipeDense
  <2>2. CASE DecideDense
    BY <2>2 DEF DecideDense, Emptied
  <2>3. CASE FinishFull
    BY <2>3, DbParts DEF FinishFull
  <2>4. CASE DeleteDense
    BY <1>0, <2>4 DEF DeleteDense, Without
  <2>5. CASE InsertDense
    BY <1>0, <2>5 DEF InsertDense
  <2>6. CASE Interrupt
    BY <2>6, NoStoreType DEF Interrupt, Leftovers
  <2> QED
    BY <2>1, <2>2, <2>3, <2>4, <2>5, <2>6, Changes
<1>4. active' \in [Backends -> Embedders \cup {None}]
  BY Changes, EmbParts DEF WipeDense, FlipActive, Interrupt, Leftovers
<1> QED
  BY <1>1, <1>2, <1>3, <1>4

LEMMA TypeStep == ASSUME IInv, Next PROVE TypeOK'
<1> USE DEF IInv
<1>1. tree' \in [Files -> Contents]
  BY Changes DEF TypeOK, Edit
<1>2. meta' \in Embedders \cup {Old, None}
  BY Changes, EmbParts DEF TypeOK, WipeMeta, WriteMeta, Interrupt, Leftovers, Upgrade
<1>3. lost' \subseteq Indexes
  BY Changes DEF TypeOK, WipeMeta, FlipActive, WriteMeta, Interrupt
<1>4. \A c \in db'.chunks : db'.rows[c.file] # None
  BY Changes DEF TypeOK, WipeChunks, EmptyDb, CommitDb, IdInv, Filling
<1> QED
  BY <1>1, <1>2, <1>3, <1>4, BuilderStepType, StoreStepType DEF TypeOK, BuilderType, StoreType

-----------------------------------------------------------------------------
(* What each action makes of the builder, field by field.                  *)

SameRun == /\ builder'.emb = builder.emb
           /\ builder'.ok = builder.ok
           /\ builder'.quiet = builder.quiet

SameChange == /\ builder'.removed = builder.removed
              /\ builder'.fresh = builder.fresh

MoveTo(p) == builder'.pc = p /\ SameRun /\ SameChange

Ended(ok, quiet) == /\ builder'.pc = "idle" /\ builder'.ok = ok /\ builder'.quiet = quiet
                    /\ builder'.owes = {}

LEMMA EarlyMoves ==
  ASSUME TypeOK
  PROVE  /\ Start => /\ builder'.pc = IF meta = Old THEN "wipeSparse" ELSE "scan"
                     /\ builder'.emb \in Embedders /\ builder'.owes = {} /\ builder'.quiet = TRUE
         /\ WipeSparse => MoveTo("wipeDense") /\ builder'.owes = builder.owes
         /\ WipeDense => MoveTo("wipeChunks") /\ builder'.owes = builder.owes
         /\ WipeChunks => MoveTo("wipeMeta") /\ builder'.owes = builder.owes
         /\ WipeMeta => MoveTo("scan") /\ builder'.owes = builder.owes
         /\ Scan => MoveTo("files") /\ builder'.owes = builder.owes
         /\ ReadFile => MoveTo("files") /\ builder'.owes = builder.owes
         /\ \A f \in Files :
               /\ SkipFile(f) => MoveTo("files") /\ builder'.owes = builder.owes
               /\ HashFile(f) => MoveTo("read") /\ builder'.owes = builder.owes
               /\ Edit(f) => /\ builder'.pc = builder.pc /\ builder'.emb = builder.emb
                             /\ builder'.ok = builder.ok /\ builder'.owes = builder.owes
                             /\ SameChange /\ builder'.quiet = FALSE
<1> USE DEF TypeOK, MoveTo, SameRun, SameChange, Go, Idle
<1>1. ASSUME Start
      PROVE  /\ builder'.pc = IF meta = Old THEN "wipeSparse" ELSE "scan"
             /\ builder'.emb \in Embedders /\ builder'.owes = {} /\ builder'.quiet = TRUE
  BY <1>1 DEF Start
<1>2. ASSUME WipeSparse PROVE MoveTo("wipeDense") /\ builder'.owes = builder.owes
  BY <1>2 DEF WipeSparse
<1>3. ASSUME WipeDense PROVE MoveTo("wipeChunks") /\ builder'.owes = builder.owes
  BY <1>3 DEF WipeDense
<1>4. ASSUME WipeChunks PROVE MoveTo("wipeMeta") /\ builder'.owes = builder.owes
  BY <1>4 DEF WipeChunks
<1>5. ASSUME WipeMeta PROVE MoveTo("scan") /\ builder'.owes = builder.owes
  BY <1>5 DEF WipeMeta
<1>6. ASSUME Scan PROVE MoveTo("files") /\ builder'.owes = builder.owes
  BY <1>6 DEF Scan
<1>7. ASSUME ReadFile PROVE MoveTo("files") /\ builder'.owes = builder.owes
  BY <1>7 DEF ReadFile
<1>8. ASSUME NEW f \in Files, SkipFile(f)
      PROVE  MoveTo("files") /\ builder'.owes = builder.owes
  BY <1>8 DEF SkipFile
<1>9. ASSUME NEW f \in Files, HashFile(f)
      PROVE  MoveTo("read") /\ builder'.owes = builder.owes
  BY <1>9 DEF HashFile
<1>10. ASSUME NEW f \in Files, Edit(f)
       PROVE  /\ builder'.pc = builder.pc /\ builder'.emb = builder.emb
              /\ builder'.ok = builder.ok /\ builder'.owes = builder.owes
              /\ SameChange /\ builder'.quiet = FALSE
  BY <1>10 DEF Edit
<1> HIDE DEF MoveTo, SameChange
<1> QED
  BY <1>1, <1>2, <1>3, <1>4, <1>5, <1>6, <1>7, <1>8, <1>9, <1>10

LEMMA LateMoves ==
  ASSUME TypeOK
  PROVE  /\ CommitDb => /\ builder'.pc = "commitSparse" /\ SameRun
                        /\ builder'.removed = db.chunks \ builder.tx.chunks
                        /\ builder'.fresh = builder.tx.chunks \ db.chunks
                        /\ builder'.owes = IF db.chunks = builder.tx.chunks
                                           THEN {} ELSE {"sparse"} \cup Live
         /\ CommitSparse => MoveTo("decide") /\ builder'.owes = builder.owes \ {"sparse"}
         /\ SkipDense => Ended(TRUE, builder.quiet)
         /\ DecideDense => MoveTo(builder'.pc) /\ builder'.owes = builder.owes
         /\ DecideDense => builder'.pc = IF SameEmbedderLive THEN "delete"
                                         ELSE IF db.chunks = {} THEN "meta" ELSE "full"
         /\ FinishFull => MoveTo("flip") /\ builder'.owes = builder.owes
         /\ FlipActive => MoveTo("meta") /\ builder'.owes = builder.owes \ {BackendOf[Emb]}
         /\ DeleteDense => MoveTo("insert") /\ builder'.owes = builder.owes
         /\ InsertDense => MoveTo("meta") /\ builder'.owes = builder.owes \ {BackendOf[Emb]}
         /\ DenseFails => MoveTo("meta") /\ builder'.owes = builder.owes
         /\ WriteMeta => Ended(TRUE, builder.quiet)
         /\ Interrupt => Ended(FALSE, FALSE)
         /\ Upgrade => UNCHANGED builder
<1> USE DEF TypeOK, MoveTo, SameRun, SameChange, Ended, Go, Idle
<1>1. ASSUME CommitDb
      PROVE  /\ builder'.pc = "commitSparse" /\ SameRun
             /\ builder'.removed = db.chunks \ builder.tx.chunks
             /\ builder'.fresh = builder.tx.chunks \ db.chunks
             /\ builder'.owes = IF db.chunks = builder.tx.chunks
                                THEN {} ELSE {"sparse"} \cup Live
  BY <1>1 DEF CommitDb
<1>2. ASSUME CommitSparse
      PROVE  MoveTo("decide") /\ builder'.owes = builder.owes \ {"sparse"}
  BY <1>2 DEF CommitSparse
<1>3. ASSUME SkipDense \/ WriteMeta PROVE Ended(TRUE, builder.quiet)
  BY <1>3 DEF SkipDense, WriteMeta
<1>4. ASSUME DecideDense
      PROVE  /\ MoveTo(builder'.pc) /\ builder'.owes = builder.owes
             /\ builder'.pc = IF SameEmbedderLive THEN "delete"
                              ELSE IF db.chunks = {} THEN "meta" ELSE "full"
  BY <1>4 DEF DecideDense
<1>5. ASSUME FinishFull PROVE MoveTo("flip") /\ builder'.owes = builder.owes
  BY <1>5 DEF FinishFull
<1>6. ASSUME FlipActive \/ InsertDense
      PROVE  MoveTo("meta") /\ builder'.owes = builder.owes \ {BackendOf[Emb]}
  BY <1>6 DEF FlipActive, InsertDense
<1>7. ASSUME DeleteDense PROVE MoveTo("insert") /\ builder'.owes = builder.owes
  BY <1>7 DEF DeleteDense
<1>8. ASSUME DenseFails PROVE MoveTo("meta") /\ builder'.owes = builder.owes
  BY <1>8 DEF DenseFails
<1>9. ASSUME Interrupt PROVE Ended(FALSE, FALSE)
  BY <1>9 DEF Interrupt
<1>10. ASSUME Upgrade PROVE UNCHANGED builder
  BY <1>10 DEF Upgrade
<1> HIDE DEF MoveTo, SameRun, Ended
<1> QED
  BY <1>1, <1>2, <1>3, <1>4, <1>5, <1>6, <1>7, <1>8, <1>9, <1>10

-----------------------------------------------------------------------------
(* The phases.                                                             *)

LEMMA PhaseStep == ASSUME IInv, Next PROVE PhaseInv'
<1> USE DEF IInv, TypeOK, BuilderType, PhaseInv, Emb, Go, Idle, Wiping, Filling, Committed
<1>0. None \notin Embedders /\ Old \notin Embedders /\ Old # None
  BY NameAssumption DEF Contents
<1>1. CASE Start
  BY <1>1, <1>0 DEF Start
<1>2. CASE WipeSparse \/ WipeDense \/ WipeChunks \/ WipeMeta
  BY <1>2, <1>0 DEF WipeSparse, WipeDense, WipeChunks, WipeMeta
<1>3. CASE Scan \/ ReadFile \/ CommitDb \/ CommitSparse
  <2>1. CASE Scan
    BY <2>1 DEF Scan
  <2>2. CASE ReadFile
    <3>1. builder'.pc = "files" /\ builder'.emb = builder.emb
      BY <2>2 DEF ReadFile
    <3> QED
      BY <2>2, <3>1 DEF ReadFile
  <2>3. CASE CommitDb
    BY <2>3 DEF CommitDb
  <2>4. CASE CommitSparse
    BY <2>4 DEF CommitSparse
  <2> QED
    BY <1>3, <2>1, <2>2, <2>3, <2>4
<1>4. CASE SkipDense \/ WriteMeta \/ Interrupt
  BY <1>4 DEF SkipDense, WriteMeta, Interrupt
<1>5. CASE DecideDense
  <2>1. active[BackendOf[Emb]] = Emb => dense[Emb].sentinel
    BY <1>5, <1>0, EmbParts DEF DecideDense, StoreInv, ActiveStoreIsWhole
  <2> QED
    BY <1>5, <2>1 DEF DecideDense, SameEmbedderLive
<1>6. CASE FinishFull \/ FlipActive \/ DeleteDense \/ InsertDense \/ DenseFails
  BY <1>6, EmbParts DEF FinishFull, FlipActive, DeleteDense, InsertDense, DenseFails, DensePhases
<1>7. CASE Upgrade
  BY <1>7 DEF Upgrade
<1>8. ASSUME NEW f \in Files, SkipFile(f) \/ HashFile(f) \/ Edit(f) PROVE PhaseInv'
  <2>1. CASE SkipFile(f)
    <3>1. builder'.pc = "files" /\ builder'.emb = builder.emb
      BY <2>1 DEF SkipFile
    <3> QED
      BY <2>1, <3>1 DEF SkipFile
  <2>2. CASE HashFile(f)
    <3>1. tree[f] \in Texts \cup {Blank}
      BY <2>2 DEF HashFile, Contents
    <3>2. /\ builder'.pc = "read" /\ builder'.emb = builder.emb /\ builder'.file = f
          /\ builder'.hash = tree[f] /\ builder'.todo = builder.todo \ {f}
      BY <2>2 DEF HashFile
    <3> QED
      BY <2>2, <3>1, <3>2 DEF HashFile
  <2>3. CASE Edit(f)
    BY <2>3 DEF Edit
  <2> QED
    BY <1>8, <2>1, <2>2, <2>3
<1> QED
  BY <1>1, <1>2, <1>3, <1>4, <1>5, <1>6, <1>7, <1>8 DEF Next

-----------------------------------------------------------------------------
(* What a wipe has removed, and the stores ACTIVE names.                    *)

LEMMA WipeStep == ASSUME IInv, Next PROVE WipeInv'
<1> USE DEF IInv, WipeInv, Wiping
<1> USE EarlyMoves, LateMoves DEF MoveTo, Ended
<1>1. CASE WipeSparse
  BY <1>1 DEF WipeSparse
<1>2. CASE WipeDense
  BY <1>2 DEF WipeDense, Live
<1>3. CASE WipeChunks
  BY <1>3 DEF WipeChunks, Live
<1>4. CASE Start \/ WipeMeta \/ Scan \/ ReadFile \/ CommitDb \/ CommitSparse \/ SkipDense
           \/ DecideDense \/ FinishFull \/ FlipActive \/ DeleteDense \/ InsertDense \/ DenseFails
           \/ WriteMeta \/ Interrupt
  <2>1. builder'.pc \notin Wiping \ {"wipeSparse"}
    BY <1>4
  <2> QED
    BY <2>1
<1>5. CASE Upgrade
  BY <1>5 DEF Upgrade, Live
<1>6. ASSUME NEW f \in Files, SkipFile(f) \/ HashFile(f) \/ Edit(f) PROVE WipeInv'
  <2>1. CASE SkipFile(f) \/ HashFile(f)
    BY <2>1
  <2>2. CASE Edit(f)
    BY <2>2 DEF Edit, Live
  <2> QED
    BY <1>6, <2>1, <2>2
<1> QED
  BY <1>1, <1>2, <1>3, <1>4, <1>5, <1>6 DEF Next

(* The store a full build empties is not one that ACTIVE names. *)
LEMMA EmptiedIsNotLive ==
  ASSUME IInv, DecideDense, ~SameEmbedderLive, NEW b \in Live
  PROVE  active[b] # Emb
<1>1. builder.pc = "decide" /\ meta # Old
  BY DEF DecideDense, IInv, PhaseInv, Committed
<1>2. SUFFICES ASSUME active[b] = Emb PROVE FALSE
  OBVIOUS
<1>3. b = BackendOf[Emb]
  BY <1>2 DEF IInv, StoreInv
<1>4. dense[Emb].sentinel
  BY <1>1, <1>2 DEF IInv, StoreInv, ActiveStoreIsWhole, Live
<1> QED
  BY <1>2, <1>3, <1>4 DEF SameEmbedderLive

LEMMA StoreStep == ASSUME IInv, Next PROVE StoreInv'
<1> USE DEF IInv, StoreInv, Live
<1> USE EarlyMoves, LateMoves DEF MoveTo, Ended
<1>0. TypeOK /\ TypeOK'
  BY TypeStep
<1>1. \A b \in Live' : BackendOf[active'[b]] = b
  <2>1. CASE WipeDense
    BY <2>1 DEF WipeDense
  <2>2. CASE FlipActive
    <3>1. Emb \in Embedders /\ BackendOf[Emb] \in Backends
      BY <2>2, EmbParts DEF FlipActive
    <3> QED
      BY <1>0, <2>2, <3>1 DEF FlipActive, TypeOK
  <2>3. CASE Interrupt
    BY <1>0, <2>3 DEF Interrupt, Leftovers, TypeOK
  <2>4. CASE UNCHANGED active
    BY <2>4
  <2> QED
    BY <2>1, <2>2, <2>3, <2>4, Changes
<1>2. ActiveStoreIsWhole'
  <2> SUFFICES ASSUME meta' # Old, NEW b \in Backends, active'[b] # None
               PROVE  dense'[active'[b]].whole /\ dense'[active'[b]].sentinel
    BY DEF ActiveStoreIsWhole
  <2> USE DEF ActiveStoreIsWhole
  <2>1. CASE WipeDense
    BY <2>1 DEF WipeDense
  <2>2. CASE DecideDense
    <3>1. active' = active /\ meta' = meta
      BY <2>2 DEF DecideDense
    <3>2. active[b] \in Embedders /\ Emb \in Embedders
      BY <1>0, <3>1, <2>2, EmbParts DEF TypeOK, DecideDense
    <3>3. dense' = dense \/ (~SameEmbedderLive /\ dense' = [dense EXCEPT ![Emb] = Emptied])
      BY <2>2 DEF DecideDense
    <3>4. ~SameEmbedderLive => active[b] # Emb
      BY <2>2, <3>1, EmptiedIsNotLive
    <3> QED
      BY <1>0, <3>1, <3>2, <3>3, <3>4 DEF TypeOK
  <2>3. CASE FinishFull
    BY <1>0, <2>3, EmbParts DEF FinishFull, TypeOK
  <2>4. CASE DeleteDense \/ InsertDense
    <3>1. active[b] \in Embedders /\ Emb \in Embedders /\ active' = active /\ meta' = meta
      BY <1>0, <2>4, EmbParts DEF TypeOK, DeleteDense, InsertDense
    <3>2. PICK d : dense' = [dense EXCEPT ![Emb].docs = d]
      BY <2>4 DEF DeleteDense, InsertDense
    <3>3. dense[active[b]].whole /\ dense[active[b]].sentinel
      BY <3>1
    <3> QED
      BY <1>0, <3>1, <3>2, <3>3 DEF TypeOK
  <2>5. CASE FlipActive
    BY <1>0, <2>5, EmbParts DEF FlipActive, TypeOK, PhaseInv, Committed
  <2>6. CASE Interrupt
    <3>1. CASE UNCHANGED <<dense, active, meta>>
      BY <3>1
    <3>2. CASE builder.pc = "wipeDense" /\ UNCHANGED meta
      BY <3>2 DEF PhaseInv, Wiping
    <3>3. CASE meta' = Old
      BY <3>3
    <3> QED
      BY <2>6, <3>1, <3>2, <3>3 DEF Interrupt, Leftovers
  <2>7. CASE WipeMeta
    BY <1>0, <2>7 DEF WipeMeta, WipeInv
  <2>8. CASE WriteMeta
    BY <2>8 DEF WriteMeta, PhaseInv, Committed
  <2>9. CASE UNCHANGED <<dense, active, meta>>
    BY <2>9
  <2> QED
    BY <2>1, <2>2, <2>3, <2>4, <2>5, <2>6, <2>7, <2>8, <2>9, Changes DEF Upgrade
<1>3. builder'.pc = "flip" =>
         dense'[builder'.emb] = [sentinel |-> TRUE, whole |-> TRUE, docs |-> db'.chunks]
  <2> SUFFICES ASSUME builder'.pc = "flip"
               PROVE  dense'[builder'.emb] = [sentinel |-> TRUE, whole |-> TRUE,
                                              docs |-> db'.chunks]
    OBVIOUS
  <2>1. CASE FinishFull
    BY <1>0, <2>1, EmbParts DEF FinishFull, TypeOK, SameRun, Emb
  <2>2. CASE Upgrade
    BY <2>2 DEF Upgrade, Emb
  <2>3. ASSUME NEW f \in Files, Edit(f)
        PROVE  dense'[builder'.emb] = [sentinel |-> TRUE, whole |-> TRUE, docs |-> db'.chunks]
    BY <2>3 DEF Edit, Emb
  <2>4. ASSUME NEW f \in Files, SkipFile(f) \/ HashFile(f) PROVE FALSE
    BY <2>4
  <2> QED
    BY <2>1, <2>2, <2>3, <2>4 DEF Next
<1> QED
  BY <1>1, <1>2, <1>3 DEF Emb

-----------------------------------------------------------------------------
(* The ids.                                                                *)

LEMMA InIndexed == ASSUME NEW c
                   PROVE  c \in Indexed <=> \/ c \in db.chunks \/ c \in sparse
                                            \/ \E e \in Embedders : c \in dense[e].docs
BY DEF Indexed

(* Only the commit of the transaction brings chunks no index has held. *)
LEMMA IndexedShrinks == ASSUME IInv, Next, ~CommitDb PROVE Indexed' \subseteq Indexed
<1> USE DEF IInv
<1>0. TypeOK
  OBVIOUS
<1>1. db'.chunks \subseteq db.chunks
  BY Changes DEF WipeChunks, EmptyDb
<1>2. sparse' \subseteq sparse \cup db.chunks
  BY Changes DEF WipeSparse, CommitSparse, Without, IdInv, Committed
<1>3. ASSUME NEW e \in Embedders PROVE dense'[e].docs \subseteq dense[e].docs \cup db.chunks
  <2> USE <1>0 DEF TypeOK
  <2>1. CASE WipeDense
    BY <2>1 DEF WipeDense, NoStore
  <2>2. CASE DecideDense
    BY <2>2 DEF DecideDense, Emptied
  <2>3. CASE FinishFull
    BY <2>3 DEF FinishFull
  <2>4. CASE DeleteDense
    BY <2>4 DEF DeleteDense, Without
  <2>5. CASE InsertDense
    BY <2>5 DEF InsertDense, IdInv, Committed
  <2>6. CASE Interrupt
    BY <2>6 DEF Interrupt, Leftovers, NoStore
  <2> QED
    BY <2>1, <2>2, <2>3, <2>4, <2>5, <2>6, Changes
<1> QED
  BY <1>1, <1>2, <1>3, InIndexed DEF Indexed

LEMMA ChunkIds == ASSUME TypeOK, NEW c \in Indexed PROVE c \in Chunk /\ c.id \in Nat
<1>1. c \in Chunk
  BY InIndexed, DbParts DEF TypeOK
<1> QED
  BY <1>1 DEF Chunk

(* The ids of the transaction are above those of every index. *)
LEMMA CommitIds ==
  ASSUME IInv, CommitDb
  PROVE  /\ IdsNameOneChunk'
         /\ \A c \in Indexed' : c.id < db'.next
<1> USE DEF IInv, IdInv, Filling
<1>0. TypeOK /\ db' = builder.tx /\ sparse' = sparse /\ dense' = dense /\ builder.pc = "files"
  BY DEF CommitDb
<1>1. db.next \in Nat /\ builder.tx.next \in Nat /\ db.next <= builder.tx.next
      /\ builder.tx.chunks \subseteq Chunk
  BY <1>0, DbParts DEF TypeOK
<1>2. ASSUME NEW c \in Indexed'
      PROVE  c \in Indexed \/ (c \in builder.tx.chunks /\ db.next <= c.id /\ c.id < builder.tx.next)
  BY <1>0 DEF Indexed
<1>3. ASSUME NEW c \in builder.tx.chunks PROVE c.id \in Nat
  BY <1>1 DEF Chunk
<1>4. ASSUME NEW c \in Indexed' PROVE c.id < db'.next /\ c.id \in Nat
  BY <1>0, <1>1, <1>2, <1>3, ChunkIds
<1>5. ASSUME NEW c \in Indexed', NEW d \in Indexed', c.id = d.id PROVE c = d
  <2>1. CASE c \in Indexed /\ d \in Indexed
    BY <1>5, <2>1 DEF IdsNameOneChunk
  <2>0. \A x \in Indexed : x.id < db.next
    OBVIOUS
  <2>2. CASE c \in Indexed /\ d \notin Indexed
    <3>1. c.id < db.next /\ db.next <= d.id /\ d.id \in Nat
      BY <1>2, <1>4, <2>0, <2>2
    <3> QED
      BY <1>1, <1>5, <3>1
  <2>3. CASE c \notin Indexed /\ d \in Indexed
    <3>1. d.id < db.next /\ db.next <= c.id /\ c.id \in Nat
      BY <1>2, <1>4, <2>0, <2>3
    <3> QED
      BY <1>1, <1>5, <3>1
  <2>4. CASE c \notin Indexed /\ d \notin Indexed
    <3>1. c \in builder.tx.chunks /\ d \in builder.tx.chunks
      BY <1>2, <2>4
    <3>2. OneChunkPerId(builder.tx.chunks)
      BY <1>0
    <3> QED
      BY <1>5, <3>1, <3>2 DEF OneChunkPerId
  <2> QED
    BY <2>1, <2>2, <2>3, <2>4
<1> QED
  BY <1>4, <1>5 DEF IdsNameOneChunk

LEMMA OneChunkInDb == ASSUME IInv PROVE OneChunkPerId(db.chunks)
BY InIndexed DEF IInv, IdInv, IdsNameOneChunk, OneChunkPerId

\* What IdInv says of the transaction
TxIds ==
    /\ db.next <= builder.tx.next
    /\ \A c \in builder.tx.chunks : c \in db.chunks \/ (db.next <= c.id /\ c.id < builder.tx.next)
    /\ OneChunkPerId(builder.tx.chunks)
    /\ \A c \in builder.tx.chunks : builder.tx.rows[c.file] # None

LEMMA ScanIds == ASSUME IInv, Scan PROVE TxIds'
<1> USE DEF IInv
<1> DEFINE gone == {f \in Files : tree[f] = Absent}
<1>0. /\ db' = db /\ db \in Db
      /\ builder'.tx = [rows |-> [f \in Files |-> IF f \in gone THEN None ELSE db.rows[f]],
                        chunks |-> {c \in db.chunks : c.file \notin gone},
                        next |-> db.next]
  BY DEF Scan, TypeOK
<1>1. ASSUME NEW c \in db.chunks PROVE c.file \in Files /\ db.rows[c.file] # None
  BY <1>0, DbParts DEF TypeOK, Chunk
<1> QED
  BY <1>0, <1>1, DbParts, OneChunkInDb DEF TxIds, OneChunkPerId

LEMMA HashIds == ASSUME IInv, NEW f \in Files, HashFile(f) PROVE TxIds'
<1> USE DEF IInv
<1>0. /\ db' = db /\ builder.tx \in Db /\ TxIds
      /\ builder'.tx = [builder.tx EXCEPT !.chunks = @ \ ChunksOf(f, @)]
  BY DEF HashFile, TypeOK, IdInv, TxIds, Filling
<1>1. /\ builder'.tx.chunks \subseteq builder.tx.chunks
      /\ builder'.tx.rows = builder.tx.rows /\ builder'.tx.next = builder.tx.next
  BY <1>0 DEF Db
<1> QED
  BY <1>0, <1>1 DEF TxIds, OneChunkPerId

LEMMA ReadIds == ASSUME IInv, ReadFile PROVE TxIds'
<1> USE DEF IInv
<1> DEFINE f == builder.file
           tx == builder.tx
           text == [id |-> tx.next, file |-> f, text |-> tree[f]]
<1>0. /\ db' = db /\ tx \in Db /\ db \in Db /\ TxIds /\ f \in Files
      /\ builder.hash \in Texts \cup {Blank} /\ builder.hash # None
  BY NameAssumption DEF ReadFile, TypeOK, IdInv, TxIds, Filling, PhaseInv, Contents
<1>1. CASE tree[f] \in Texts
  <2>1. builder'.tx = [rows |-> [tx.rows EXCEPT ![f] = builder.hash],
                       chunks |-> tx.chunks \cup {text},
                       next |-> tx.next + 1]
    BY <1>1 DEF ReadFile, TypeOK
  <2>2. /\ tx.next \in Nat /\ db.next \in Nat /\ tx.chunks \subseteq Chunk /\ db.chunks \subseteq Chunk
        /\ tx.rows \in [Files -> Contents \cup {None}]
    BY <1>0, DbParts
  <2>3. \A c \in Chunk : c.id \in Nat /\ c.file \in Files
    BY DEF Chunk
  <2>4. \A c \in db.chunks : c.id < db.next
    BY InIndexed DEF IdInv
  <2>5. ASSUME NEW c \in tx.chunks PROVE c.id < tx.next
    BY <1>0, <2>2, <2>3, <2>4 DEF TxIds
  <2>6. builder'.tx.next = tx.next + 1 /\ builder'.tx.chunks = tx.chunks \cup {text}
        /\ builder'.tx.rows = [tx.rows EXCEPT ![f] = builder.hash]
    BY <2>1
  <2>7. OneChunkPerId(tx.chunks \cup {text})
    BY <1>0, <2>2, <2>3, <2>5 DEF TxIds, OneChunkPerId
  <2>8. ASSUME NEW c \in tx.chunks \cup {text}
        PROVE  /\ c \in db.chunks \/ (db.next <= c.id /\ c.id < tx.next + 1)
               /\ builder'.tx.rows[c.file] # None
    BY <1>0, <2>2, <2>3, <2>5, <2>6 DEF TxIds
  <2> QED
    BY <1>0, <2>2, <2>6, <2>7, <2>8 DEF TxIds
<1>2. CASE tree[f] \notin Texts
  <2>1. builder'.tx = tx
    BY <1>2 DEF ReadFile, TypeOK
  <2> QED
    BY <1>0, <2>1 DEF TxIds
<1> QED
  BY <1>1, <1>2

LEMMA IdStep == ASSUME IInv, Next PROVE IdInv'
<1> USE DEF IInv
<1> USE EarlyMoves, LateMoves DEF MoveTo, Ended
<1>0. TypeOK /\ TypeOK'
  BY TypeStep
<1>1. IdsNameOneChunk' /\ \A c \in Indexed' : c.id < db'.next
  <2>1. CASE WipeChunks
    <3>1. Indexed' = {}
      BY <2>1 DEF WipeChunks, WipeInv, Wiping, EmptyDb, NoStore, Indexed
    <3> QED
      BY <3>1 DEF IdsNameOneChunk
  <2>2. CASE CommitDb
    BY <2>2, CommitIds
  <2>3. CASE db' = db /\ ~CommitDb
    BY <2>3, IndexedShrinks DEF IdInv, IdsNameOneChunk
  <2> QED
    BY <2>1, <2>2, <2>3, Changes
<1>2. builder'.pc \in Filling => TxIds'
  <2> USE DEF Filling
  <2>1. CASE Scan
    BY <2>1, ScanIds
  <2>2. CASE ReadFile
    BY <2>2, ReadIds
  <2>3. ASSUME NEW f \in Files, HashFile(f) PROVE TxIds'
    BY <2>3, HashIds
  <2>4. ASSUME NEW f \in Files, SkipFile(f) PROVE TxIds'
    <3>1. builder'.tx = builder.tx /\ db' = db /\ builder.pc = "files"
      BY <2>4 DEF SkipFile, TypeOK
    <3> QED
      BY <3>1 DEF TxIds, IdInv
  <2>5. ASSUME NEW f \in Files, Edit(f) PROVE builder'.pc \in Filling => TxIds'
    <3>1. builder'.tx = builder.tx /\ db' = db
      BY <2>5 DEF Edit, TypeOK
    <3> QED
      BY <2>5, <3>1 DEF TxIds, IdInv
  <2>6. CASE Upgrade
    BY <2>6 DEF Upgrade
  <2>7. CASE Start \/ WipeSparse \/ WipeDense \/ WipeChunks \/ WipeMeta \/ CommitDb \/ CommitSparse
             \/ SkipDense \/ DecideDense \/ FinishFull \/ FlipActive \/ DeleteDense \/ InsertDense
             \/ DenseFails \/ WriteMeta \/ Interrupt
    <3>1. builder'.pc \notin Filling
      BY <2>7
    <3> QED
      BY <3>1
  <2> QED
    BY <2>1, <2>2, <2>3, <2>4, <2>5, <2>6, <2>7 DEF Next
<1>3. builder'.pc \in Committed => builder'.fresh \subseteq db'.chunks
  <2> USE DEF Committed
  <2>1. CASE CommitDb
    BY <2>1 DEF CommitDb
  <2>2. CASE CommitSparse \/ DecideDense \/ FinishFull \/ FlipActive \/ DeleteDense \/ InsertDense
             \/ DenseFails
    <3>1. builder'.fresh = builder.fresh /\ builder.pc \in Committed
      BY <2>2 DEF SameChange, CommitSparse, DecideDense, FinishFull, FlipActive, DeleteDense,
                  InsertDense, DenseFails, DensePhases
    <3>2. db' = db
      BY <2>2 DEF CommitSparse, DecideDense, FinishFull, FlipActive, DeleteDense,
                  InsertDense, DenseFails
    <3> QED
      BY <3>1, <3>2 DEF IdInv
  <2>3. CASE Start \/ WipeSparse \/ WipeDense \/ WipeChunks \/ WipeMeta \/ Scan \/ ReadFile
             \/ SkipDense \/ WriteMeta \/ Interrupt
    BY <2>3
  <2>4. CASE Upgrade
    BY <2>4 DEF Upgrade
  <2>5. ASSUME NEW f \in Files, SkipFile(f) \/ HashFile(f) PROVE builder'.pc \notin Committed
    BY <2>5
  <2>6. ASSUME NEW f \in Files, Edit(f)
        PROVE  builder'.pc \in Committed => builder'.fresh \subseteq db'.chunks
    BY <2>6 DEF Edit, SameChange, IdInv
  <2> QED
    BY <2>1, <2>2, <2>3, <2>4, <2>5, <2>6 DEF Next
<1> QED
  BY <1>1, <1>2, <1>3 DEF IdInv, TxIds

-----------------------------------------------------------------------------
(* What the indexes hold.                                                  *)

(* Dropping the removed ids from the old chunks leaves the ones that stay, *)
(* because no id stands for two chunks.                                    *)
LEMMA UpdatedOld ==
  ASSUME NEW old, NEW new, OneChunkPerId(old)
  PROVE  Without(old, old \ new) \cup (new \ old) = new
<1>1. ASSUME NEW c \in old PROVE c \in Without(old, old \ new) <=> c \in new
  BY DEF Without, OneChunkPerId
<1>2. Without(old, old \ new) \subseteq old
  BY DEF Without
<1> QED
  BY <1>1, <1>2

LEMMA UpdatedByNothing ==
  ASSUME NoChanges, NEW docs
  PROVE  Updated(docs) = docs /\ Without(docs, builder.removed) = docs
         /\ docs \cup builder.fresh = docs
BY DEF NoChanges, Updated, Without

LEMMA OweStep == ASSUME IInv, Next PROVE OweInv'
<1> USE DEF IInv, OweInv, Committed
<1> USE EarlyMoves, LateMoves DEF MoveTo, Ended
<1>1. CASE CommitDb
  <2>1. db.chunks \subseteq Chunk /\ builder.tx.chunks \subseteq Chunk
    BY DbParts DEF TypeOK
  <2>2. NoChanges' <=> db.chunks = builder.tx.chunks
    BY <1>1 DEF NoChanges
  <2>3. Live' = Live
    BY <1>1 DEF CommitDb, Live
  <2> QED
    BY <1>1, <2>2, <2>3
<1>2. CASE CommitSparse \/ DecideDense \/ FinishFull \/ FlipActive \/ DeleteDense \/ InsertDense
           \/ DenseFails
  <2>1. builder'.removed = builder.removed /\ builder'.fresh = builder.fresh
    BY <1>2 DEF SameChange
  <2>2. builder.pc \in Committed /\ builder'.pc \in Committed \ {"commitSparse"}
    BY <1>2 DEF CommitSparse, DecideDense, FinishFull, FlipActive, DeleteDense,
                  InsertDense, DenseFails, DensePhases
  <2>3. builder'.owes \subseteq builder.owes
    BY <1>2
  <2>4. NoChanges' <=> NoChanges
    BY <2>1 DEF NoChanges
  <2>5. builder'.pc # "meta" => Live' = Live /\ builder.pc # "meta"
    BY <1>2 DEF Live, CommitSparse, DecideDense, FinishFull, DeleteDense, InsertDense
  <2>6. builder'.pc # "meta" => builder.owes \ {"sparse"} \subseteq builder'.owes
    BY <1>2
  <2>7. "sparse" \notin Live
    BY DEF Live, Backends
  <2> QED
    BY <2>2, <2>3, <2>4, <2>5, <2>6, <2>7
<1>3. CASE Start \/ SkipDense \/ WriteMeta \/ Interrupt
  BY <1>3
<1>4. CASE WipeSparse \/ WipeDense \/ WipeChunks \/ WipeMeta \/ Scan \/ ReadFile
  <2>1. builder.pc \notin Committed
    BY <1>4 DEF WipeSparse, WipeDense, WipeChunks, WipeMeta, Scan, ReadFile
  <2> QED
    BY <1>4, <2>1
<1>5. CASE Upgrade
  BY <1>5 DEF Upgrade, NoChanges, Live
<1>6. ASSUME NEW f \in Files, SkipFile(f) \/ HashFile(f) PROVE OweInv'
  BY <1>6 DEF SkipFile, HashFile
<1>7. ASSUME NEW f \in Files, Edit(f) PROVE OweInv'
  <2>1. /\ builder'.pc = builder.pc /\ builder'.owes = builder.owes
        /\ builder'.removed = builder.removed /\ builder'.fresh = builder.fresh
    BY <1>7 DEF SameChange
  <2>2. Live' = Live
    BY <1>7 DEF Edit, Live
  <2> QED
    BY <2>1, <2>2 DEF NoChanges
<1> QED
  BY <1>1, <1>2, <1>3, <1>4, <1>5, <1>6, <1>7 DEF Next

LEMMA SparseStep == ASSUME IInv, Next PROVE SparseInv'
<1> USE DEF IInv
<1> USE EarlyMoves, LateMoves DEF MoveTo, Ended
<1> SUFFICES ASSUME meta' # Old, "sparse" \notin lost'
             PROVE  IF builder'.pc = "commitSparse" THEN Updated(sparse)' = db'.chunks
                                                    ELSE sparse' = db'.chunks
  BY DEF SparseInv
<1>0. "sparse" \notin lost \/ WipeMeta
  <2>1. "sparse" # BackendOf[Emb] \/ ~FlipActive
    BY EmbParts DEF FlipActive, Backends
  <2> QED
    BY <2>1, Changes DEF FlipActive, WriteMeta, Interrupt
<1>1. CASE CommitDb
  <2>1. meta # Old /\ builder.pc = "files" /\ sparse' = sparse /\ db' = builder.tx
    BY <1>1 DEF CommitDb
  <2>2. sparse = db.chunks
    BY <1>0, <1>1, <2>1 DEF SparseInv, CommitDb, WipeMeta
  <2> QED
    BY <1>1, <2>1, <2>2, UpdatedOld, OneChunkInDb DEF Updated
<1>2. CASE CommitSparse
  <2>1. meta # Old /\ builder.pc = "commitSparse" /\ db' = db /\ sparse' = Updated(sparse)
    BY <1>2 DEF CommitSparse, Updated
  <2> QED
    BY <1>0, <1>2, <2>1 DEF SparseInv, WipeMeta
<1>3. CASE WipeMeta
  BY <1>3 DEF WipeMeta, WipeInv, Wiping, EmptyDb
<1>4. CASE WipeSparse \/ WipeDense \/ WipeChunks
  <2>1. meta' = Old
    BY <1>4 DEF WipeSparse, WipeDense, WipeChunks, PhaseInv, Wiping
  <2> QED
    BY <2>1
<1>5. CASE Interrupt
  <2>1. sparse' = sparse /\ db' = db /\ builder'.pc = "idle" /\ "sparse" \notin builder.owes
    BY <1>5 DEF Interrupt
  <2>2. CASE meta = Old
    BY <1>5, <2>2 DEF Interrupt, Leftovers
  <2>3. CASE meta # Old /\ builder.pc = "commitSparse"
    <3>1. NoChanges
      BY <2>1, <2>3 DEF OweInv
    <3>2. "sparse" \notin lost
      BY <1>5 DEF Interrupt
    <3>3. Updated(sparse) = db.chunks /\ Updated(sparse) = sparse
      BY <2>3, <3>1, <3>2, UpdatedByNothing DEF SparseInv
    <3> QED
      BY <2>1, <3>3
  <2>4. CASE meta # Old /\ builder.pc # "commitSparse"
    BY <1>5, <2>1, <2>4 DEF SparseInv, Interrupt
  <2> QED
    BY <2>2, <2>3, <2>4
<1>6. CASE Start \/ Scan \/ ReadFile \/ SkipDense \/ DecideDense \/ FinishFull \/ FlipActive
           \/ DeleteDense \/ InsertDense \/ DenseFails \/ WriteMeta
  <2>1. sparse' = sparse /\ db' = db /\ builder.pc # "commitSparse"
    <3>1. CASE Start \/ Scan \/ ReadFile
      BY <3>1 DEF Start, Scan, ReadFile
    <3>2. CASE SkipDense \/ DecideDense \/ WriteMeta
      BY <3>2 DEF SkipDense, DecideDense, WriteMeta
    <3>3. CASE FinishFull \/ FlipActive \/ DeleteDense \/ InsertDense \/ DenseFails
      BY <3>3 DEF FinishFull, FlipActive, DeleteDense, InsertDense, DenseFails, DensePhases
    <3> QED
      BY <1>6, <3>1, <3>2, <3>3
  <2>4. builder'.pc # "commitSparse"
    BY <1>6
  <2>2. meta # Old
    BY <1>6 DEF PhaseInv, Start, Scan, ReadFile, SkipDense, DecideDense, FinishFull, FlipActive,
                DeleteDense, InsertDense, DenseFails, DensePhases, WriteMeta, Filling, Committed
  <2>3. "sparse" \notin lost
    BY <1>0, <1>6, <2>2 DEF WipeMeta, PhaseInv, Wiping
  <2> QED
    BY <2>1, <2>2, <2>3, <2>4 DEF SparseInv
<1>7. CASE Upgrade
  BY <1>7 DEF Upgrade, SparseInv, Updated
<1>8. ASSUME NEW f \in Files, SkipFile(f) \/ HashFile(f)
      PROVE  IF builder'.pc = "commitSparse" THEN Updated(sparse)' = db'.chunks
                                             ELSE sparse' = db'.chunks
  BY <1>8 DEF SkipFile, HashFile, SparseInv
<1>9. ASSUME NEW f \in Files, Edit(f)
      PROVE  IF builder'.pc = "commitSparse" THEN Updated(sparse)' = db'.chunks
                                             ELSE sparse' = db'.chunks
  BY <1>9 DEF Edit, SameChange, SparseInv, Updated
<1> QED
  BY <1>1, <1>2, <1>3, <1>4, <1>5, <1>6, <1>7, <1>8, <1>9 DEF Next

(* The builder may write a live store only if it is its embedder's. *)
LEMMA LiveParts ==
  ASSUME IInv, NEW b \in Live
  PROVE  /\ b \in Backends /\ b # "sparse" /\ active[b] \in Embedders
         /\ active[b] = Emb => b = BackendOf[Emb]
         /\ builder.pc = "full" => active[b] # Emb
BY DEF IInv, TypeOK, StoreInv, PhaseInv, Live, Backends

LEMMA DenseStep == ASSUME IInv, Next PROVE DenseInv'
<1> USE DEF IInv
<1> USE EarlyMoves, LateMoves DEF MoveTo, Ended
<1> SUFFICES ASSUME meta' # Old, NEW b \in Live', b \notin lost' PROVE DenseOk(b)'
  BY DEF DenseInv
<1> USE DEF Committed
<1>0. TypeOK /\ TypeOK'
  BY TypeStep
<1>1. CASE CommitDb
  <2>1. /\ meta # Old /\ builder.pc = "files" /\ db' = builder.tx /\ dense' = dense
        /\ active' = active /\ lost' = lost
    BY <1>1 DEF CommitDb, PhaseInv, Filling
  <2>2. b \in Live /\ dense[active[b]].docs = db.chunks
    BY <2>1 DEF Live, DenseInv, DenseOk
  <2>3. Without(db.chunks, builder'.removed) \cup builder'.fresh = db'.chunks
    BY <1>1, <2>1, UpdatedOld, OneChunkInDb
  <2>4. b \notin builder'.owes => db.chunks = db'.chunks
    BY <1>1, <2>1, <2>2
  <2> QED
    BY <1>1, <2>1, <2>2, <2>3, <2>4 DEF DenseOk, Updated
<1>2. CASE CommitSparse
  <2>1. /\ meta # Old /\ db' = db /\ dense' = dense /\ active' = active /\ lost' = lost
        /\ builder.pc = "commitSparse"
    BY <1>2 DEF CommitSparse
  <2>2. b \in Live /\ DenseOk(b)
    BY <2>1 DEF Live, DenseInv, CommitSparse
  <2>3. b # "sparse"
    BY <2>2, LiveParts
  <2> QED
    BY <1>2, <2>1, <2>2, <2>3 DEF DenseOk, Updated, Emb, SameRun, SameChange
<1>3. CASE SkipDense \/ WriteMeta
  <2>1. /\ meta # Old /\ db' = db /\ dense' = dense /\ active' = active
        /\ builder.pc \in Committed /\ b \notin lost /\ b \notin builder.owes
    BY <1>3 DEF SkipDense, WriteMeta, PhaseInv, OweInv
  <2>2. b \in Live /\ DenseOk(b)
    BY <2>1 DEF Live, DenseInv
  <2> QED
    BY <1>3, <2>1, <2>2 DEF DenseOk
<1>4. CASE DecideDense
  <2>1. /\ meta # Old /\ db' = db /\ active' = active /\ lost' = lost
        /\ builder.pc = "decide"
    BY <1>4 DEF DecideDense, PhaseInv
  <2>2. b \in Live /\ DenseOk(b)
    BY <2>1 DEF Live, DenseInv
  <2>3. dense'[active[b]] = dense[active[b]]
    BY <1>0, <1>4, <2>2, LiveParts, EmptiedIsNotLive DEF DecideDense, TypeOK
  <2>4. /\ builder'.pc \in {"delete", "full", "meta"} /\ builder'.owes = builder.owes
        /\ builder'.emb = builder.emb
        /\ builder'.removed = builder.removed /\ builder'.fresh = builder.fresh
    BY <1>4 DEF SameRun, SameChange
  <2> QED
    BY <2>1, <2>2, <2>3, <2>4 DEF DenseOk, Updated, Emb
<1>5. CASE FinishFull
  <2>1. meta # Old /\ db' = db /\ active' = active /\ lost' = lost /\ builder.pc = "full"
    BY <1>5 DEF FinishFull, PhaseInv
  <2>2. b \in Live /\ DenseOk(b)
    BY <2>1 DEF Live, DenseInv
  <2>3. dense'[active[b]] = dense[active[b]]
    BY <1>0, <1>5, <2>1, <2>2, LiveParts DEF FinishFull, TypeOK
  <2> QED
    BY <1>5, <2>1, <2>2, <2>3 DEF DenseOk
<1>6. CASE FlipActive
  <2>1. /\ meta # Old /\ db' = db /\ dense' = dense /\ builder.pc = "flip"
        /\ active' = [active EXCEPT ![BackendOf[Emb]] = Emb]
        /\ lost' = lost \ {BackendOf[Emb]}
    BY <1>6 DEF FlipActive, PhaseInv
  <2>2. CASE b = BackendOf[Emb]
    <3>1. active'[b] = Emb
      BY <1>0, <2>1, <2>2 DEF TypeOK, Live
    <3>2. dense[Emb].docs = db.chunks
      BY <2>1 DEF StoreInv
    <3> QED
      BY <1>6, <2>1, <3>1, <3>2 DEF DenseOk
  <2>3. CASE b # BackendOf[Emb]
    <3>1. b \in Live /\ active'[b] = active[b] /\ b \notin lost
      BY <1>0, <2>1, <2>3 DEF TypeOK, Live
    <3>2. DenseOk(b)
      BY <2>1, <3>1 DEF DenseInv
    <3> QED
      BY <1>6, <2>1, <2>3, <3>1, <3>2 DEF DenseOk
  <2> QED
    BY <2>2, <2>3
<1>7. CASE DeleteDense
  <2>1. /\ meta # Old /\ db' = db /\ active' = active /\ lost' = lost /\ builder.pc = "delete"
        /\ dense' = [dense EXCEPT ![Emb].docs = Without(@, builder.removed)]
    BY <1>7 DEF DeleteDense, PhaseInv
  <2>2. b \in Live /\ DenseOk(b) /\ active[b] \in Embedders /\ Emb \in Embedders
    BY <2>1, LiveParts, EmbParts DEF Live, DenseInv
  <2>3. CASE active[b] = Emb
    <3>1. dense'[active[b]].docs = Without(dense[active[b]].docs, builder.removed)
      BY <1>0, <2>1, <2>2, <2>3 DEF TypeOK
    <3>2. b \in builder.owes \/ Without(dense[active[b]].docs, builder.removed) = dense[active[b]].docs
      BY <2>1, <2>2, UpdatedByNothing DEF OweInv
    <3> QED
      BY <1>7, <2>1, <2>2, <2>3, <3>1, <3>2 DEF DenseOk, Updated, SameChange
  <2>4. CASE active[b] # Emb
    <3>1. dense'[active[b]] = dense[active[b]]
      BY <1>0, <2>1, <2>2, <2>4 DEF TypeOK
    <3> QED
      BY <1>7, <2>1, <2>2, <2>4, <3>1 DEF DenseOk, SameRun, Emb
  <2> QED
    BY <2>3, <2>4
<1>8. CASE InsertDense
  <2>1. /\ meta # Old /\ db' = db /\ active' = active /\ lost' = lost /\ builder.pc = "insert"
        /\ dense' = [dense EXCEPT ![Emb].docs = @ \cup builder.fresh]
    BY <1>8 DEF InsertDense, PhaseInv
  <2>2. b \in Live /\ DenseOk(b) /\ active[b] \in Embedders /\ Emb \in Embedders
    BY <2>1, LiveParts, EmbParts DEF Live, DenseInv
  <2>3. CASE active[b] = Emb
    <3>1. dense'[active[b]].docs = dense[active[b]].docs \cup builder.fresh
      BY <1>0, <2>1, <2>2, <2>3 DEF TypeOK
    <3> QED
      BY <1>8, <2>1, <2>2, <2>3, <3>1 DEF DenseOk
  <2>4. CASE active[b] # Emb
    <3>1. dense'[active[b]] = dense[active[b]]
      BY <1>0, <2>1, <2>2, <2>4 DEF TypeOK
    <3>2. b # BackendOf[Emb]
      BY <2>1, <2>4 DEF PhaseInv
    <3> QED
      BY <1>8, <2>1, <2>2, <3>1, <3>2 DEF DenseOk
  <2> QED
    BY <2>3, <2>4
<1>9. CASE DenseFails
  <2>1. /\ meta # Old /\ db' = db /\ dense' = dense /\ active' = active /\ lost' = lost
        /\ builder.pc \in Committed
    BY <1>9 DEF DenseFails, DensePhases
  <2>2. b \in Live /\ DenseOk(b)
    BY <2>1 DEF Live, DenseInv, DenseFails
  <2> QED
    BY <1>9, <2>1, <2>2 DEF DenseOk
<1>10. CASE Interrupt
  <2>1. db' = db /\ lost' = lost \cup builder.owes
    BY <1>10 DEF Interrupt
  <2>2. UNCHANGED <<dense, active, meta>>
    BY <1>10 DEF Interrupt, Leftovers, PhaseInv, Wiping
  <2>3. b \in Live /\ DenseOk(b)
    BY <2>1, <2>2 DEF Live, DenseInv
  <2> QED
    BY <1>10, <2>1, <2>2, <2>3 DEF DenseOk
<1>11. CASE Start \/ Scan \/ ReadFile
  <2>1. /\ meta # Old /\ db' = db /\ dense' = dense /\ active' = active /\ lost' = lost
        /\ builder.pc \notin Committed
    BY <1>11 DEF Start, Scan, ReadFile
  <2>2. builder'.pc \notin Committed
    BY <1>11, <2>1
  <2>3. b \in Live /\ DenseOk(b)
    BY <2>1 DEF Live, DenseInv
  <2> QED
    BY <2>1, <2>2, <2>3 DEF DenseOk
<1>12. CASE WipeSparse \/ WipeDense \/ WipeChunks \/ Upgrade
  BY <1>12 DEF WipeSparse, WipeDense, WipeChunks, Upgrade, PhaseInv, Wiping
<1>13. CASE WipeMeta
  BY <1>13 DEF WipeMeta, WipeInv, Live
<1>14. ASSUME NEW f \in Files, SkipFile(f) \/ HashFile(f) PROVE DenseOk(b)'
  <2>1. /\ meta # Old /\ db' = db /\ dense' = dense /\ active' = active /\ lost' = lost
        /\ builder.pc \notin Committed /\ builder'.pc \notin Committed
    BY <1>14 DEF SkipFile, HashFile
  <2>2. b \in Live /\ DenseOk(b)
    BY <2>1 DEF Live, DenseInv
  <2> QED
    BY <2>1, <2>2 DEF DenseOk
<1>15. ASSUME NEW f \in Files, Edit(f) PROVE DenseOk(b)'
  <2>1. meta # Old /\ db' = db /\ dense' = dense /\ active' = active /\ lost' = lost
    BY <1>15 DEF Edit
  <2>2. b \in Live /\ DenseOk(b)
    BY <2>1 DEF Live, DenseInv
  <2> QED
    BY <1>15, <2>1, <2>2 DEF DenseOk, Updated, SameChange, Emb
<1> QED
  BY <1>1, <1>2, <1>3, <1>4, <1>5, <1>6, <1>7, <1>8, <1>9, <1>10, <1>11, <1>12, <1>13, <1>14, <1>15
     DEF Next

-----------------------------------------------------------------------------
(* What a build in a quiet tree leaves.                                    *)

(* Chunks, rows and texts of a file that a step of the transaction passes by. *)
LEMMA SameFile ==
  ASSUME NEW f, NEW d, NEW e, d.rows[f] = e.rows[f],
         ChunksOf(f, d.chunks) = ChunksOf(f, e.chunks)
  PROVE  /\ TextsIn(f, d) = TextsIn(f, e)
         /\ Apart(f, d) <=> Apart(f, e)
         /\ Current(f, d) <=> Current(f, e)
BY DEF TextsIn, Apart, Current

LEMMA Committing == ASSUME IInv, CommitDb, builder.quiet, NEW f \in Files
                    PROVE  /\ Current(f, db)'
                           /\ Apart(f, db)' => Apart(f, db) \/ tree[f] = Blank
<1>1. builder.pc = "files" /\ builder.todo = {} /\ db' = builder.tx /\ tree' = tree
  BY DEF CommitDb
<1>2. QuietFile(f)
  BY <1>1 DEF IInv, FreshInv, Filling
<1>3. Current(f, builder.tx) /\ (Apart(f, builder.tx) => Apart(f, db) \/ tree[f] = Blank)
  BY <1>1, <1>2 DEF QuietFile
<1> QED
  BY <1>1, <1>3 DEF Current, Apart, TextsIn, Wanted

LEMMA ScanFresh == ASSUME IInv, Scan, NEW f \in Files PROVE QuietFile(f)'
<1> USE DEF IInv
<1> DEFINE gone == {g \in Files : tree[g] = Absent}
<1>1. /\ db' = db /\ db \in Db /\ tree' = tree
      /\ builder'.tx = [rows |-> [g \in Files |-> IF g \in gone THEN None ELSE db.rows[g]],
                        chunks |-> {c \in db.chunks : c.file \notin gone},
                        next |-> db.next]
      /\ builder'.todo = Files \ gone /\ builder'.pc = "files"
  BY DEF Scan, TypeOK
<1>2. CASE f \in gone
  <2>1. builder'.tx.rows[f] = None /\ ChunksOf(f, builder'.tx.chunks) = {}
    BY <1>1, <1>2 DEF ChunksOf
  <2>2. tree[f] \notin Texts
    BY <1>2, NameAssumption
  <2> QED
    BY <1>1, <1>2, <2>1, <2>2 DEF QuietFile, Current, Apart, TextsIn, Wanted
<1>3. CASE f \notin gone
  <2>1. builder'.tx.rows[f] = db.rows[f] /\ ChunksOf(f, builder'.tx.chunks) = ChunksOf(f, db.chunks)
    BY <1>1, <1>3 DEF ChunksOf
  <2> QED
    BY <1>1, <1>3, <2>1 DEF QuietFile
<1> QED
  BY <1>2, <1>3

LEMMA SkipFresh ==
  ASSUME IInv, NEW g \in Files, SkipFile(g), builder.quiet, NEW f \in Files
  PROVE  QuietFile(f)'
<1> USE DEF IInv
<1>1. /\ db' = db /\ tree' = tree /\ builder'.tx = builder.tx /\ builder.pc = "files"
      /\ builder'.todo = builder.todo \ {g} /\ builder'.pc = "files" /\ g \in builder.todo
  BY DEF SkipFile, TypeOK
<1>2. QuietFile(f) /\ QuietFile(g)
  BY <1>1 DEF FreshInv, Filling
<1>3. CASE f # g
  BY <1>1, <1>2, <1>3 DEF QuietFile, Current, Apart, TextsIn, Wanted
<1>4. CASE f = g
  <2> DEFINE tx == builder.tx
  <2>1. /\ tree[f] # Absent /\ tx.rows[f] = db.rows[f]
        /\ ChunksOf(f, tx.chunks) = ChunksOf(f, db.chunks)
    BY <1>1, <1>2, <1>4 DEF QuietFile
  <2>2. Apart(f, tx) <=> Apart(f, db)
    BY <2>1, SameFile
  <2>3. tree[f] # Unreadable => tree[f] = tx.rows[f] /\ tree[f] # None
    BY <1>4, <2>1, NameAssumption DEF SkipFile, TypeOK
  <2>4. Current(f, tx)
    <3> SUFFICES ASSUME tree[f] # Unreadable, TextsIn(f, tx) = {tx.rows[f]}
                 PROVE  TextsIn(f, tx) = Wanted(f)
      BY <2>3 DEF Current, Apart
    <3>1. TextsIn(f, tx) \subseteq Texts
      BY DbParts DEF TypeOK, TextsIn, ChunksOf, Chunk
    <3> QED
      BY <2>3, <3>1 DEF Wanted
  <2>5. Current(f, tx)' /\ (Apart(f, tx)' <=> Apart(f, tx)) /\ (Apart(f, db)' <=> Apart(f, db))
    BY <1>1, <2>4 DEF Current, Apart, TextsIn, Wanted
  <2> QED
    BY <1>1, <1>4, <2>2, <2>5 DEF QuietFile
<1> QED
  BY <1>3, <1>4

LEMMA HashFresh ==
  ASSUME IInv, NEW g \in Files, HashFile(g), builder.quiet, NEW f \in Files
  PROVE  QuietFile(f)'
<1> USE DEF IInv
<1>1. /\ db' = db /\ tree' = tree /\ builder.pc = "files" /\ g \in builder.todo
      /\ builder'.tx = [builder.tx EXCEPT !.chunks = @ \ ChunksOf(g, @)]
      /\ builder'.todo = builder.todo \ {g} /\ builder'.pc = "read"
      /\ builder'.file = g /\ builder'.hash = tree[g]
  BY DEF HashFile, TypeOK
<1>2. /\ builder'.tx.rows = builder.tx.rows
      /\ builder'.tx.chunks = builder.tx.chunks \ ChunksOf(g, builder.tx.chunks)
  BY <1>1 DEF TypeOK, Db
<1>3. CASE f = g
  BY <1>1, <1>2, <1>3 DEF QuietFile, ChunksOf
<1>4. CASE f # g
  <2>1. QuietFile(f)
    BY <1>1 DEF FreshInv, Filling
  <2>2. ChunksOf(f, builder'.tx.chunks) = ChunksOf(f, builder.tx.chunks)
    BY <1>2, <1>4 DEF ChunksOf
  <2> QED
    BY <1>1, <1>2, <1>4, <2>1, <2>2 DEF QuietFile, Current, Apart, TextsIn, Wanted
<1> QED
  BY <1>3, <1>4

LEMMA ReadFresh == ASSUME IInv, ReadFile, builder.quiet, NEW f \in Files PROVE QuietFile(f)'
<1> USE DEF IInv
<1> DEFINE g == builder.file
           tx == builder.tx
           text == [id |-> tx.next, file |-> g, text |-> tree[g]]
<1>1. /\ db' = db /\ tree' = tree /\ builder.pc = "read" /\ builder'.pc = "files"
      /\ builder'.todo = builder.todo /\ g \in Files /\ g \notin builder.todo
      /\ builder.hash \in Texts \cup {Blank} /\ builder.hash # None /\ tx \in Db
  BY NameAssumption DEF ReadFile, TypeOK, PhaseInv, Contents
<1>2. IF tree[g] \in Texts
      THEN /\ builder'.tx.rows = [tx.rows EXCEPT ![g] = builder.hash]
           /\ builder'.tx.chunks = tx.chunks \cup {text}
      ELSE builder'.tx = tx
  BY DEF ReadFile, TypeOK
<1>3. QuietFile(f) /\ QuietFile(g) /\ tx.rows \in [Files -> Contents \cup {None}]
  BY <1>1, DbParts DEF FreshInv, Filling
<1>4. CASE f = g
  <2>1. ChunksOf(f, tx.chunks) = {} /\ builder.hash = tree[f]
    BY <1>1, <1>3, <1>4 DEF QuietFile
  <2>2. CASE tree[f] \in Texts
    <3>1. builder'.tx.rows[f] = tree[f] /\ ChunksOf(f, builder'.tx.chunks) = {text}
      BY <1>2, <1>3, <1>4, <2>1, <2>2 DEF ChunksOf
    <3>2. {c.text : c \in {text}} = {tree[f]}
      BY <1>4
    <3>3. TextsIn(f, builder'.tx) = {tree[f]} /\ Wanted(f) = {tree[f]}
      BY <2>2, <3>1, <3>2 DEF TextsIn, Wanted
    <3> QED
      BY <1>1, <1>4, <3>1, <3>3 DEF QuietFile, Current, Apart, TextsIn, Wanted
  <2>3. CASE tree[f] \notin Texts
    <3>1. builder'.tx = tx /\ tree[f] = Blank
      BY <1>1, <1>2, <1>4, <2>1, <2>3
    <3> QED
      BY <1>1, <1>4, <2>1, <2>3, <3>1 DEF QuietFile, Current, Apart, TextsIn, Wanted
  <2> QED
    BY <2>2, <2>3
<1>5. CASE f # g
  <2>1. builder'.tx.rows[f] = tx.rows[f] /\ ChunksOf(f, builder'.tx.chunks) = ChunksOf(f, tx.chunks)
    BY <1>2, <1>3, <1>5 DEF ChunksOf
  <2> QED
    BY <1>1, <1>3, <1>5, <2>1 DEF QuietFile, Current, Apart, TextsIn, Wanted
<1> QED
  BY <1>4, <1>5

LEMMA FreshStep == ASSUME IInv, Next PROVE FreshInv'
<1> USE DEF IInv
<1> USE EarlyMoves, LateMoves DEF MoveTo, Ended, SameRun
<1> SUFFICES ASSUME builder'.quiet, NEW f \in Files
             PROVE  /\ builder'.pc \in Filling => QuietFile(f)'
                    /\ builder'.pc \in Committed \/ (builder'.pc = "idle" /\ builder'.ok) =>
                          Current(f, db)'
  BY DEF FreshInv
<1> USE DEF Filling, Committed
<1>1. CASE Scan
  BY <1>1, ScanFresh
<1>2. CASE ReadFile
  BY <1>2, ReadFresh
<1>3. ASSUME NEW g \in Files, SkipFile(g) \/ HashFile(g) \/ Edit(g)
      PROVE  /\ builder'.pc \in Filling /\ QuietFile(f)'
  <2>1. CASE SkipFile(g)
    BY <2>1, SkipFresh
  <2>2. CASE HashFile(g)
    BY <2>2, HashFresh
  <2>3. CASE Edit(g)
    BY <2>3
  <2> QED
    BY <1>3, <2>1, <2>2, <2>3
<1>4. CASE CommitDb
  BY <1>4, Committing
<1>5. CASE CommitSparse \/ SkipDense \/ DecideDense \/ FinishFull \/ FlipActive \/ DeleteDense
           \/ InsertDense \/ DenseFails \/ WriteMeta
  <2>1. db' = db /\ tree' = tree
    BY <1>5 DEF CommitSparse, SkipDense, DecideDense, FinishFull, FlipActive, DeleteDense,
                InsertDense, DenseFails, WriteMeta
  <2>2. builder.pc \in Committed
    BY <1>5 DEF CommitSparse, SkipDense, DecideDense, FinishFull, FlipActive, DeleteDense,
                InsertDense, DenseFails, DensePhases, WriteMeta
  <2>3. builder.quiet
    BY <1>5
  <2>4. Current(f, db)
    BY <2>2, <2>3 DEF FreshInv
  <2>5. builder'.pc \notin Filling
    BY <1>5
  <2> QED
    BY <2>1, <2>4, <2>5 DEF Current, Apart, TextsIn, Wanted
<1>6. CASE Start \/ WipeSparse \/ WipeDense \/ WipeChunks \/ WipeMeta \/ Interrupt
  BY <1>6
<1>7. CASE Upgrade
  <2>1. UNCHANGED <<tree, db, builder>> /\ builder.pc = "idle"
    BY <1>7 DEF Upgrade
  <2> QED
    BY <2>1 DEF FreshInv, Current, Apart, TextsIn, Wanted
<1> QED
  BY <1>1, <1>2, <1>3, <1>4, <1>5, <1>6, <1>7 DEF Next

-----------------------------------------------------------------------------
LEMMA InitInv == Init => IInv
<1> SUFFICES ASSUME Init PROVE IInv
  OBVIOUS
<1> USE DEF Init, Idle
<1>1. TypeOK
  BY TypeInit
<1>2. Live = {} /\ db.chunks = {} /\ builder.pc = "idle" /\ ~builder.quiet
  BY DEF Live, EmptyDb
<1>3. Indexed = {}
  BY <1>2 DEF Indexed, NoStore
<1>4. PhaseInv /\ WipeInv /\ StoreInv
  BY <1>2 DEF PhaseInv, WipeInv, StoreInv, ActiveStoreIsWhole, Wiping, Filling, Committed, Live
<1>5. IdInv
  BY <1>2, <1>3 DEF IdInv, IdsNameOneChunk, Filling, Committed
<1>6. SparseInv /\ DenseInv /\ OweInv /\ FreshInv
  BY <1>2 DEF SparseInv, DenseInv, OweInv, FreshInv, Filling, Committed
<1> QED
  BY <1>1, <1>4, <1>5, <1>6 DEF IInv

LEMMA StutterInv == IInv /\ UNCHANGED vars => IInv'
<1> SUFFICES ASSUME IInv, UNCHANGED vars PROVE IInv'
  OBVIOUS
<1> USE DEF vars, IInv
<1>1. TypeOK' /\ PhaseInv' /\ WipeInv'
  BY DEF TypeOK, PhaseInv, WipeInv, Live, Emb
<1>2. StoreInv'
  BY DEF StoreInv, ActiveStoreIsWhole, Live, Emb
<1>3. IdInv'
  BY DEF IdInv, IdsNameOneChunk, Indexed, OneChunkPerId
<1>4. SparseInv' /\ DenseInv' /\ OweInv'
  BY DEF SparseInv, DenseInv, DenseOk, OweInv, NoChanges, Live, Updated, Emb
<1>5. FreshInv'
  BY DEF FreshInv, QuietFile, Current, Apart, TextsIn, Wanted
<1> QED
  BY <1>1, <1>2, <1>3, <1>4, <1>5

LEMMA StepInv == IInv /\ [Next]_vars => IInv'
<1>1. ASSUME IInv, Next PROVE IInv'
  BY <1>1, TypeStep, PhaseStep, WipeStep, StoreStep, IdStep, SparseStep, DenseStep, OweStep,
     FreshStep DEF IInv
<1> QED
  BY <1>1, StutterInv

THEOREM Invariance == Spec => []IInv
BY InitInv, StepInv, PTL DEF Spec

(* Every variable keeps its type, and every stored chunk is of a file that *)
(* has a row.                                                              *)
THEOREM TypeCorrect == Spec => []TypeOK
<1>1. IInv => TypeOK
  BY DEF IInv
<1> QED
  BY <1>1, Invariance, PTL

(* Whatever an index still holds, of any embedder and from any build since *)
(* the last wipe, names the chunk it was made from or none: a query can    *)
(* fuse the hits of two indexes by id.                                     *)
THEOREM IdsAreSafe == Spec => []IdsNameOneChunk
<1>1. IInv => IdsNameOneChunk
  BY DEF IInv, IdInv
<1> QED
  BY <1>1, Invariance, PTL

(* The store an ACTIVE pointer names is complete, wherever builds die.     *)
THEOREM ActiveIsWhole == Spec => []ActiveStoreIsWhole
<1>1. IInv => ActiveStoreIsWhole
  BY DEF IInv, StoreInv
<1> QED
  BY <1>1, Invariance, PTL

(* The BM25 index and every live dense store hold the committed chunks,    *)
(* unless a build ended owing them a change.                               *)
THEOREM InSync == Spec => []IndexesInSync
<1>1. ASSUME IInv PROVE IndexesInSync
  <2>1. ASSUME meta # Old, builder.pc # "commitSparse", "sparse" \notin lost
        PROVE  sparse = db.chunks
    BY <1>1, <2>1 DEF IInv, SparseInv
  <2>2. ASSUME meta # Old, builder.pc = "idle", NEW b \in Live \ lost
        PROVE  dense[active[b]].docs = db.chunks
    BY <1>1, <2>2 DEF IInv, DenseInv, DenseOk, Committed
  <2> QED
    BY <2>1, <2>2 DEF IndexesInSync
<1> QED
  BY <1>1, Invariance, PTL

(* A build that succeeds in a quiet tree leaves the chunks of the tree,    *)
(* except for files whose stored hash had come apart from their chunks.    *)
THEOREM BuildsFreshen == Spec => []FreshUnlessDrifted
<1>1. ASSUME IInv, Settled, NEW f \in Files, tree[f] # Unreadable
      PROVE  TextsOf(f) = Wanted(f) \/ (Drifted(f) /\ db.rows[f] = tree[f])
  <2>1. Current(f, db)
    BY <1>1 DEF IInv, FreshInv, Settled
  <2> QED
    BY <1>1, <2>1 DEF Current, Apart, TextsIn, TextsOf, Drifted
<1>2. IInv => FreshUnlessDrifted
  BY <1>1 DEF FreshUnlessDrifted
<1> QED
  BY <1>2, Invariance, PTL

(* A stored hash comes apart from its chunks only when the file stopped    *)
(* yielding chunks, or was edited while the build ran.                     *)
THEOREM DriftHasCause == Spec => DriftNeedsCause
<1> DEFINE Cause == \A f \in Files : ~Drifted(f) /\ Drifted(f)' => tree[f] = Blank \/ ~builder.quiet
<1>1. ASSUME IInv, [Next]_vars PROVE [Cause]_vars
  <2> SUFFICES ASSUME Next, NEW f \in Files, ~Drifted(f), Drifted(f)', builder.quiet
               PROVE  tree[f] = Blank
    BY <1>1
  <2>0. (Drifted(f) <=> Apart(f, db)) /\ (Drifted(f)' <=> Apart(f, db)')
    BY DEF Drifted, TextsOf, Apart, TextsIn
  <2>1. CASE CommitDb
    BY <1>1, <2>0, <2>1, Committing
  <2>2. CASE WipeChunks
    BY <2>2 DEF WipeChunks, EmptyDb, Drifted
  <2>3. CASE UNCHANGED db
    BY <2>3 DEF Drifted, TextsOf
  <2> QED
    BY <2>1, <2>2, <2>3, Changes
<1> QED
  BY <1>1, Invariance, PTL DEF Spec, DriftNeedsCause

-----------------------------------------------------------------------------
(* The builder implements SearchIndex.                                     *)

(* What a build deleted has no id of what is committed. *)
GoneInv ==
    builder.pc \in Committed => \A r \in builder.removed, c \in db.chunks : r.id # c.id

LEMMA GoneStep == ASSUME IInv, GoneInv, Next PROVE GoneInv'
<1> USE DEF IInv
<1> USE EarlyMoves, LateMoves DEF MoveTo, Ended, SameChange
<1> SUFFICES ASSUME builder'.pc \in Committed,
                    NEW r \in builder'.removed, NEW c \in db'.chunks, r.id = c.id
             PROVE  FALSE
  BY DEF GoneInv
<1>1. CASE CommitDb
  <2>1. /\ r \in db.chunks /\ r \notin builder.tx.chunks /\ c \in builder.tx.chunks
        /\ builder.pc = "files"
    BY <1>1 DEF CommitDb
  <2>2. r.id < db.next /\ r.id \in Nat /\ db.next \in Nat
    BY <2>1, InIndexed, DbParts DEF IdInv, TypeOK, Chunk
  <2>3. c \in db.chunks
    BY <2>1, <2>2 DEF IdInv, Filling
  <2>. QED
    BY <2>1, <2>3, OneChunkInDb DEF OneChunkPerId
<1>2. CASE db' = db /\ builder'.removed = builder.removed /\ builder.pc \in Committed
  BY <1>2 DEF GoneInv
<1>3. CASE CommitSparse \/ DecideDense \/ FinishFull \/ FlipActive \/ DeleteDense \/ InsertDense
           \/ DenseFails
  <2>1. builder.pc \in Committed /\ db' = db
    BY <1>3 DEF CommitSparse, DecideDense, FinishFull, FlipActive, DeleteDense, InsertDense,
                DenseFails, DensePhases, Committed
  <2>. QED
    BY <1>2, <1>3, <2>1
<1>4. CASE Upgrade \/ \E f \in Files : Edit(f)
  <2>1. db' = db /\ builder'.removed = builder.removed /\ builder'.pc = builder.pc
    BY <1>4 DEF Upgrade, Edit
  <2>. QED
    BY <1>2, <2>1
<1>5. CASE \/ Start \/ WipeSparse \/ WipeDense \/ WipeChunks \/ WipeMeta \/ Scan \/ ReadFile
           \/ SkipDense \/ WriteMeta \/ Interrupt
           \/ \E f \in Files : SkipFile(f) \/ HashFile(f)
  <2>1. builder'.pc \notin Committed
    BY <1>5 DEF Committed
  <2>. QED
    BY <2>1
<1>. QED
  BY <1>1, <1>3, <1>4, <1>5 DEF Next

LEMMA GoneInvariant == Spec => []GoneInv
<1>1. Init => GoneInv
  BY DEF Init, Idle, GoneInv, Committed
<1>2. IInv /\ GoneInv /\ [Next]_vars => GoneInv'
  BY GoneStep DEF vars, GoneInv
<1>. QED
  BY <1>1, <1>2, Invariance, PTL DEF Spec

(* The shapes a step has under the mapping. *)
Hits(i) == Resolved(Docs(i))

LEMMA FoundIs == Found = [i \in Indexes |-> Hits(i)]
BY DEF Found, Hits

LEMMA AsStutter == ASSUME UNCHANGED db.chunks, Behind' = Behind,
                          \A i \in Indexes : Hits(i)' = Hits(i)
                   PROVE  UNCHANGED Promise!vars
BY DEF Promise!vars, Found, Hits

LEMMA AsExpire == ASSUME UNCHANGED db.chunks, Behind' = Indexes,
                         \A i \in Indexes : Hits(i)' = Hits(i)
                  PROVE  Promise!Next
BY DEF Promise!Next, Promise!Expire, Found, Hits

LEMMA AsRemove == ASSUME UNCHANGED db.chunks, Behind = Indexes, Behind' = Indexes,
                         \A i \in Indexes : Hits(i)' \in {Hits(i), {}}
                  PROVE  Promise!Next
<1> DEFINE I == {i \in Indexes : Hits(i)' = {}}
<1>1. Found' = [i \in Indexes |-> IF i \in I THEN {} ELSE Found[i]]
  BY DEF Found, Hits
<1>2. Promise!Remove
  BY <1>1 DEF Promise!Remove
<1>. QED
  BY <1>2 DEF Promise!Next

LEMMA AsCommit == ASSUME db' \in Db, Behind' = Indexes,
                         \A i \in Indexes : Hits(i)' = Hits(i) \cap db'.chunks
                  PROVE  Promise!Next
<1>1. db'.chunks \in SUBSET Chunk
  BY DEF Db
<1>2. Found' = [i \in Indexes |-> Found[i] \cap db'.chunks]
  BY DEF Found, Hits
<1>. QED
  BY <1>1, <1>2 DEF Promise!Next, Promise!Commit

LEMMA AsCatchUp == ASSUME UNCHANGED db.chunks, NEW i \in Behind, i \in Indexes,
                          Behind' = Behind \ {i}, Hits(i)' = db.chunks,
                          \A j \in Indexes \ {i} : Hits(j)' = Hits(j)
                   PROVE  Promise!Next
<1>1. Found' = [Found EXCEPT ![i] = db.chunks]
  BY DEF Found, Hits
<1>2. Promise!CatchUp(i)
  BY <1>1 DEF Promise!CatchUp
<1>. QED
  BY <1>2 DEF Promise!Next

LEMMA AsUpdate == ASSUME UNCHANGED db.chunks, NEW i \in Behind, i \in Indexes,
                         Behind' = Behind, Hits(i) \subseteq Hits(i)',
                         \A j \in Indexes \ {i} : Hits(j)' = Hits(j)
                  PROVE  Promise!Next
<1>0. Hits(i)' \in SUBSET db.chunks
  BY DEF Hits, Resolved
<1>1. Found' = [Found EXCEPT ![i] = @ \cup Hits(i)']
  BY DEF Found, Hits
<1>2. Promise!Update(i)
  BY <1>0, <1>1 DEF Promise!Update
<1>. QED
  BY <1>2 DEF Promise!Next

LEMMA HitsSame == ASSUME NEW i, UNCHANGED db.chunks, Docs(i)' = Docs(i) PROVE Hits(i)' = Hits(i)
BY DEF Hits, Resolved

LEMMA BehindType == ASSUME TypeOK PROVE Behind \subseteq Indexes
BY DEF TypeOK, Behind, Indexes

(* What a wipe removes is found no more; the wipe is due until meta.json is gone. *)
LEMMA WipeRefines == ASSUME IInv, WipeSparse \/ WipeDense \/ WipeChunks \/ WipeMeta
                     PROVE  Promise!Next
<1> USE DEF IInv
<1> USE EarlyMoves DEF MoveTo
<1>0. /\ meta = Old /\ builder.owes = {} /\ Behind = Indexes /\ "sparse" \in Indexes /\ "sparse" \notin Backends
      /\ db \in Db
  BY DEF WipeSparse, WipeDense, WipeChunks, WipeMeta, PhaseInv, Wiping, OweInv, Committed, Behind,
         Indexes, Backends, TypeOK
<1>1. CASE WipeSparse
  <2>1. UNCHANGED db.chunks /\ Behind' = Indexes
    BY <1>0, <1>1 DEF WipeSparse, Behind
  <2>2. ASSUME NEW i \in Indexes PROVE Hits(i)' \in {Hits(i), {}}
    <3>1. CASE i = "sparse"
      BY <1>1, <3>1 DEF WipeSparse, Hits, Resolved, Docs
    <3>2. CASE i # "sparse"
      BY <1>1, <3>2 DEF WipeSparse, Hits, Resolved, Docs, Live
    <3>. QED
      BY <3>1, <3>2
  <2>. QED
    BY <1>0, <2>1, <2>2, AsRemove
<1>2. CASE WipeDense
  <2>1. UNCHANGED db.chunks /\ Behind' = Indexes /\ Live' = {}
    BY <1>0, <1>2 DEF WipeDense, Behind, Live
  <2>2. ASSUME NEW i \in Indexes PROVE Hits(i)' \in {Hits(i), {}}
    <3>1. CASE i = "sparse"
      BY <1>2, <3>1 DEF WipeDense, Hits, Resolved, Docs
    <3>2. CASE i # "sparse"
      BY <2>1, <3>2 DEF Hits, Resolved, Docs
    <3>. QED
      BY <3>1, <3>2
  <2>. QED
    BY <1>0, <2>1, <2>2, AsRemove
<1>3. CASE WipeChunks
  <2>1. db' = EmptyDb /\ db' \in Db /\ Behind' = Indexes
    BY <1>0, <1>3, TypeStep DEF WipeChunks, Behind, TypeOK, Next
  <2>2. db'.chunks = {}
    BY <2>1 DEF EmptyDb
  <2>3. \A i \in Indexes : Hits(i)' = {}
    BY <2>2 DEF Hits, Resolved
  <2>. QED
    BY <2>1, <2>2, <2>3, AsCommit
<1>4. CASE WipeMeta
  <2>1. /\ UNCHANGED db.chunks /\ db.chunks = {} /\ meta' = None /\ lost' = {}
        /\ UNCHANGED <<sparse, dense, active>> /\ Live = {} /\ Live' = {}
    BY <1>4 DEF WipeMeta, WipeInv, EmptyDb, Live
  <2>2. Behind' = Indexes \ {"sparse"}
    BY <1>0, <1>4, <2>1, NameAssumption DEF WipeMeta, Behind, Indexes
  <2>3. \A i \in Indexes : Hits(i)' = {} /\ Hits(i) = {}
    BY <2>1 DEF Hits, Resolved
  <2>. QED
    BY <1>0, <2>1, <2>2, <2>3, AsCatchUp
<1>. QED
  BY <1>1, <1>2, <1>3, <1>4

(* The transaction.  No id it hands out is one that an index still has. *)
LEMMA CommitRefines == ASSUME IInv, CommitDb PROVE [Promise!Next]_(Promise!vars)
<1> USE DEF IInv
<1>0. /\ db' = builder.tx /\ db' \in Db /\ UNCHANGED <<sparse, dense, active, meta, lost>>
      /\ builder.owes = {} /\ meta # Old
      /\ builder'.owes = IF db.chunks = builder.tx.chunks THEN {} ELSE {"sparse"} \cup Live
  BY LateMoves DEF CommitDb, OweInv, Committed, PhaseInv, Filling, TypeOK
<1>1. \A i : Docs(i)' = Docs(i)
  BY <1>0 DEF Docs, Live
<1>2. CASE db.chunks = builder.tx.chunks
  <2>1. UNCHANGED db.chunks /\ Behind' = Behind
    BY <1>0, <1>2 DEF Behind, Live
  <2>. QED
    BY <1>1, <2>1, HitsSame, AsStutter
<1>3. CASE db.chunks # builder.tx.chunks
  <2>1. Behind' = Indexes
    BY <1>0, <1>3 DEF Behind, Live, Indexes, TypeOK
  <2>2. ASSUME NEW i \in Indexes, NEW c \in db'.chunks, NEW d \in Docs(i), d.id = c.id
        PROVE  c \in db.chunks
    <3>1. d \in Indexed
      BY DEF Docs, Indexed, Live, TypeOK
    <3>2. d.id \in Nat /\ d.id < db.next /\ db.next \in Nat
      BY <3>1, ChunkIds, DbParts DEF IdInv, TypeOK
    <3>. QED
      BY <1>0, <2>2, <3>2 DEF IdInv, Filling, CommitDb
  <2>3. \A i \in Indexes : Hits(i)' = Hits(i) \cap db'.chunks
    BY <1>1, <2>2 DEF Hits, Resolved
  <2>. QED
    BY <1>0, <2>1, <2>3, AsCommit
<1>. QED
  BY <1>2, <1>3

(* What an update deletes is not committed, so it takes nothing from what is found. *)
LEMMA WithoutKeeps ==
  ASSUME GoneInv, builder.pc \in Committed, NEW docs
  PROVE  Resolved(Without(docs, builder.removed)) = Resolved(docs)
<1>1. ASSUME NEW c \in db.chunks, NEW d \in docs, d.id = c.id
      PROVE  d \in Without(docs, builder.removed)
  BY <1>1 DEF GoneInv, Without
<1>2. Without(docs, builder.removed) \subseteq docs
  BY DEF Without
<1>. QED
  BY <1>1, <1>2 DEF Resolved

LEMMA SparseRefines == ASSUME IInv, GoneInv, CommitSparse PROVE [Promise!Next]_(Promise!vars)
<1> USE DEF IInv
<1>0. /\ builder.pc = "commitSparse" /\ builder.pc \in Committed /\ meta # Old
      /\ UNCHANGED <<db, dense, active, meta, lost>>
      /\ builder'.owes = builder.owes \ {"sparse"}
      /\ sparse' = Without(sparse, builder.removed) \cup builder.fresh
      /\ "sparse" \in Indexes /\ "sparse" \notin Backends
  BY LateMoves DEF CommitSparse, Committed, PhaseInv, Indexes, Backends
<1>1. ASSUME NEW j \in Indexes \ {"sparse"} PROVE Hits(j)' = Hits(j)
  BY <1>0, HitsSame DEF Docs, Live
<1>2. CASE NoChanges
  <2>1. sparse' = sparse /\ builder'.owes = {} /\ builder.owes = {}
    BY <1>0, <1>2 DEF NoChanges, Without, OweInv
  <2>2. \A i : Docs(i)' = Docs(i)
    BY <1>0, <2>1 DEF Docs, Live
  <2>3. Behind' = Behind
    BY <1>0, <2>1 DEF Behind, Live
  <2>. QED
    BY <1>0, <2>2, <2>3, HitsSame, AsStutter
<1>3. CASE ~NoChanges
  <2>1. "sparse" \in builder.owes /\ "sparse" \in Behind
    BY <1>0, <1>3 DEF OweInv, Behind
  <2>2. CASE "sparse" \in lost
    <3>1. Behind' = Behind
      BY <1>0, <2>2 DEF Behind, Live
    <3>2. Hits("sparse") \subseteq Hits("sparse")'
      <4>1. Resolved(Without(sparse, builder.removed)) = Resolved(sparse)
        BY <1>0, WithoutKeeps
      <4>. QED
        BY <1>0, <4>1 DEF Hits, Docs, Resolved
    <3>. QED
      BY <1>0, <1>1, <2>1, <3>1, <3>2, AsUpdate
  <2>3. CASE "sparse" \notin lost
    <3>1. sparse' = db.chunks
      BY <1>0, <2>3 DEF SparseInv, Updated
    <3>2. Hits("sparse")' = db.chunks
      BY <1>0, <3>1 DEF Hits, Docs, Resolved
    <3>3. Behind' = Behind \ {"sparse"}
      BY <1>0, <2>3 DEF Behind, Live
    <3>. QED
      BY <1>0, <1>1, <2>1, <3>2, <3>3, AsCatchUp
  <2>. QED
    BY <2>2, <2>3
<1>. QED
  BY <1>2, <1>3

(* The steps that touch no live store, or nothing at all. *)
LEMMA QuietRefines ==
  ASSUME IInv, SkipDense \/ DecideDense \/ FinishFull \/ DenseFails \/ WriteMeta
  PROVE  UNCHANGED Promise!vars
<1> USE DEF IInv
<1> USE LateMoves DEF MoveTo, Ended
<1>0. /\ meta # Old /\ meta' # Old /\ UNCHANGED <<db, sparse, active>>
      /\ Emb \in Embedders /\ builder.pc \in Committed
  BY EmbParts DEF SkipDense, DecideDense, FinishFull, DenseFails, DensePhases, WriteMeta, PhaseInv, Committed
<1>1. lost' \cup builder'.owes = lost \cup builder.owes
  <2>1. CASE SkipDense
    BY <2>1 DEF SkipDense, OweInv, Committed
  <2>2. CASE WriteMeta
    BY <2>2 DEF WriteMeta
  <2>3. CASE DecideDense \/ FinishFull \/ DenseFails
    BY <2>3 DEF DecideDense, FinishFull, DenseFails
  <2>. QED
    BY <2>1, <2>2, <2>3
<1>2. ASSUME NEW b \in Live PROVE dense'[active[b]].docs = dense[active[b]].docs
  <2>0. active[b] \in Embedders /\ BackendOf[active[b]] = b /\ dense[active[b]].sentinel
    BY <1>0, <1>2 DEF StoreInv, ActiveStoreIsWhole, Live, TypeOK
  <2>1. CASE DecideDense
    <3>1. active[b] = Emb => SameEmbedderLive
      BY <2>0 DEF SameEmbedderLive
    <3>. QED
      BY <1>0, <2>0, <2>1, <3>1 DEF DecideDense, TypeOK
  <2>2. CASE FinishFull
    <3>1. active[b] # Emb
      BY <2>0, <2>2 DEF FinishFull, PhaseInv
    <3>. QED
      BY <1>0, <2>0, <2>2, <3>1 DEF FinishFull, TypeOK
  <2>3. CASE SkipDense \/ DenseFails \/ WriteMeta
    BY <2>3 DEF SkipDense, DenseFails, WriteMeta
  <2>. QED
    BY <2>1, <2>2, <2>3
<1>3. \A i : Docs(i)' = Docs(i)
  BY <1>0, <1>2 DEF Docs, Live
<1>4. Behind' = Behind
  BY <1>0, <1>1 DEF Behind, Live
<1>. QED
  BY <1>0, <1>3, <1>4, HitsSame, AsStutter

(* The backend a build writes to. *)
LEMMA Target == ASSUME IInv, builder.pc # "idle"
                PROVE  \E b \in Backends : b = BackendOf[Emb] /\ b \in Indexes /\ b # "sparse"
BY EmbParts DEF IInv, Indexes, Backends

(* A rebuilt store takes over when it holds what is committed. *)
LEMMA FlipRefines == ASSUME IInv, FlipActive PROVE [Promise!Next]_(Promise!vars)
<1> USE DEF IInv
<1>0. /\ builder.pc = "flip" /\ builder.pc # "idle" /\ builder.pc \in Committed /\ meta # Old
      /\ UNCHANGED <<db, sparse, dense, meta>> /\ dense[Emb].docs = db.chunks
      /\ Emb \in Embedders /\ Emb # None
  BY EmbParts DEF FlipActive, Committed, PhaseInv, StoreInv
<1>1. PICK b \in Backends : b = BackendOf[Emb] /\ b \in Indexes /\ b # "sparse"
  BY <1>0, Target
<1>2. /\ active' = [active EXCEPT ![b] = Emb] /\ active \in [Backends -> Embedders \cup {None}]
      /\ builder'.owes = builder.owes \ {b} /\ lost' = lost \ {b}
  BY <1>0, <1>1, LateMoves DEF FlipActive, TypeOK
<1>3. Live' = Live \cup {b} /\ active'[b] = Emb
  BY <1>0, <1>1, <1>2 DEF Live
<1>4. ASSUME NEW j \in Indexes \ {b} PROVE Hits(j)' = Hits(j)
  <2>1. active'[j] = active[j] \/ j = "sparse"
    BY <1>2, <1>4 DEF Indexes
  <2>. QED
    BY <1>0, <1>3, <2>1, HitsSame DEF Docs
<1>5. Hits(b)' = db.chunks
  <2>1. Docs(b)' = db.chunks
    BY <1>0, <1>1, <1>3 DEF Docs
  <2>. QED
    BY <1>0, <2>1 DEF Hits, Resolved
<1>6. Behind' = Behind \ {b}
  BY <1>0, <1>1, <1>2, <1>3 DEF Behind
<1>7. CASE b \in Behind
  BY <1>0, <1>1, <1>4, <1>5, <1>6, <1>7, AsCatchUp
<1>8. CASE b \notin Behind
  <2>1. b \in Live \ lost /\ b \notin builder.owes
    BY <1>0, <1>1, <1>8 DEF Behind
  <2>2. Docs(b) = db.chunks
    BY <1>0, <1>1, <2>1 DEF DenseInv, DenseOk, Docs
  <2>3. Hits(b)' = Hits(b)
    BY <1>5, <2>2 DEF Hits, Resolved
  <2>. QED
    BY <1>0, <1>4, <1>6, <1>8, <2>3, AsStutter
<1>. QED
  BY <1>7, <1>8

(* The update of the live store: the deletions take nothing, the insertions complete it. *)
LEMMA OthersKeep ==
  ASSUME IInv, DeleteDense \/ InsertDense, NEW j \in Indexes, j # BackendOf[Emb]
  PROVE  Hits(j)' = Hits(j)
<1> USE DEF IInv
<1>1. /\ UNCHANGED <<db, sparse, active>>
      /\ \A e \in Embedders \ {Emb} : dense'[e] = dense[e]
  BY DEF DeleteDense, InsertDense, TypeOK
<1>2. j \in Live => active[j] \in Embedders \ {Emb}
  BY LiveParts
<1>. QED
  BY <1>1, <1>2, HitsSame DEF Docs, Live

Updating ==
    /\ builder.pc # "idle" /\ builder.pc \in Committed /\ meta # Old
    /\ UNCHANGED <<db, sparse, active, meta, lost>>
    /\ Emb \in Embedders /\ dense \in [Embedders -> StoreType]
    /\ active[BackendOf[Emb]] = Emb /\ BackendOf[Emb] \in Live /\ BackendOf[Emb] # "sparse"

LEMMA UpdateParts == ASSUME IInv, DeleteDense \/ InsertDense PROVE Updating
<1> USE DEF IInv
<1>1. /\ builder.pc \in {"delete", "insert"} /\ builder.pc # "idle"
      /\ UNCHANGED <<db, sparse, active, meta, lost>>
  BY DEF DeleteDense, InsertDense
<1>2. Emb \in Embedders /\ Emb # None /\ BackendOf[Emb] \in Backends
  BY <1>1, EmbParts
<1>3. active[BackendOf[Emb]] = Emb /\ builder.pc \in Committed /\ meta # Old
  BY <1>1 DEF PhaseInv, Committed
<1>. QED
  BY <1>1, <1>2, <1>3 DEF Updating, Live, Backends, TypeOK, StoreType

LEMMA DeleteRefines == ASSUME IInv, GoneInv, DeleteDense PROVE UNCHANGED Promise!vars
<1> USE DEF IInv
<1> USE DEF Updating
<1>0. Updating
  BY UpdateParts
<1>1. PICK b \in Backends : b = BackendOf[Emb] /\ b \in Indexes /\ b # "sparse"
  BY <1>0, Target
<1>2. builder'.owes = builder.owes
  BY LateMoves
<1>3. Hits(b)' = Hits(b)
  <2>1. /\ dense'[Emb].docs = Without(dense[Emb].docs, builder.removed)
        /\ Docs(b) = dense[Emb].docs /\ Docs(b)' = dense'[Emb].docs
    BY <1>0, <1>1 DEF DeleteDense, StoreType, Docs, Live
  <2>2. Resolved(dense'[Emb].docs) = Resolved(dense[Emb].docs)
    BY <1>0, <2>1, WithoutKeeps
  <2>. QED
    BY <1>0, <2>1, <2>2 DEF Hits, Resolved
<1>4. Behind' = Behind
  BY <1>0, <1>2 DEF Behind, Live
<1>. QED
  BY <1>0, <1>1, <1>3, <1>4, OthersKeep, AsStutter

LEMMA InsertRefines == ASSUME IInv, InsertDense PROVE [Promise!Next]_(Promise!vars)
<1> USE DEF IInv
<1> USE DEF Updating
<1>0. Updating /\ builder.pc = "insert"
  BY UpdateParts DEF InsertDense
<1>1. PICK b \in Backends : b = BackendOf[Emb] /\ b \in Indexes /\ b # "sparse"
  BY <1>0, Target
<1>2. /\ builder'.owes = builder.owes \ {b}
      /\ Docs(b) = dense[Emb].docs /\ Docs(b)' = dense[Emb].docs \cup builder.fresh
  BY <1>0, <1>1, LateMoves DEF InsertDense, StoreType, Docs, Live
<1>3. \A j \in Indexes \ {b} : Hits(j)' = Hits(j)
  BY <1>1, OthersKeep
<1>4. CASE NoChanges
  <2>1. Docs(b)' = Docs(b) /\ builder.owes = {} /\ builder'.owes = {}
    BY <1>0, <1>2, <1>4 DEF NoChanges, OweInv
  <2>2. Behind' = Behind
    BY <1>0, <2>1 DEF Behind, Live
  <2>3. Hits(b)' = Hits(b)
    BY <1>0, <2>1, HitsSame
  <2>. QED
    BY <1>0, <1>3, <2>2, <2>3, AsStutter
<1>5. CASE ~NoChanges
  <2>1. b \in builder.owes /\ b \in Behind
    BY <1>0, <1>1, <1>5 DEF OweInv, Behind
  <2>2. CASE b \in lost
    <3>1. Behind' = Behind
      BY <1>0, <1>2, <2>2 DEF Behind, Live
    <3>2. Hits(b) \subseteq Hits(b)'
      BY <1>0, <1>2 DEF Hits, Resolved
    <3>. QED
      BY <1>0, <1>1, <1>3, <2>1, <3>1, <3>2, AsUpdate
  <2>3. CASE b \notin lost
    <3>1. Docs(b)' = db.chunks
      BY <1>0, <1>1, <1>2, <2>3 DEF DenseInv, DenseOk
    <3>2. Hits(b)' = db.chunks
      BY <1>0, <3>1 DEF Hits, Resolved
    <3>3. Behind' = Behind \ {b}
      BY <1>0, <1>1, <1>2, <2>3 DEF Behind, Live
    <3>. QED
      BY <1>0, <1>1, <1>3, <2>1, <3>2, <3>3, AsCatchUp
  <2>. QED
    BY <2>2, <2>3
<1>. QED
  BY <1>4, <1>5

(* A death leaves what was owed to a later build; a wipe it cut short is still due. *)
LEMMA InterruptRefines == ASSUME IInv, Interrupt PROVE [Promise!Next]_(Promise!vars)
<1> USE DEF IInv
<1>0. /\ UNCHANGED <<db, sparse>> /\ builder'.owes = {} /\ lost' = lost \cup builder.owes
      /\ builder.pc # "idle"
  BY EarlyMoves, LateMoves DEF Interrupt, Idle, Ended
<1>1. CASE UNCHANGED <<dense, active, meta>>
  <2>1. Behind' = Behind
    BY <1>0, <1>1 DEF Behind, Live
  <2>2. \A i : Docs(i)' = Docs(i)
    BY <1>0, <1>1 DEF Docs, Live
  <2>. QED
    BY <1>0, <2>1, <2>2, HitsSame, AsStutter
<1>2. ASSUME NEW E \in SUBSET Embedders, NEW B \in SUBSET Live,
             dense' = [e \in Embedders |-> IF e \in E THEN NoStore ELSE dense[e]],
             active' = [b \in Backends |-> IF b \in B THEN None ELSE active[b]],
             builder.pc = "wipeDense", UNCHANGED meta
      PROVE  Promise!Next
  <2>1. meta = Old /\ Behind = Indexes /\ Behind' = Indexes
    BY <1>2 DEF PhaseInv, Wiping, Behind
  <2>2. ASSUME NEW i \in Indexes PROVE Docs(i)' \in {Docs(i), {}}
    <3>1. CASE i = "sparse" \/ i \notin Live'
      BY <1>0, <3>1 DEF Docs
    <3>2. CASE i # "sparse" /\ i \in Live'
      <4>1. i \in Live /\ active'[i] = active[i] /\ active[i] \in Embedders
        BY <1>2, <3>2 DEF Live, TypeOK
      <4>2. dense'[active[i]].docs \in {dense[active[i]].docs, {}}
        BY <1>2, <4>1 DEF NoStore
      <4>. QED
        BY <3>2, <4>1, <4>2 DEF Docs
    <3>. QED
      BY <3>1, <3>2
  <2>3. \A i \in Indexes : Hits(i)' \in {Hits(i), {}}
    BY <1>0, <2>2 DEF Hits, Resolved
  <2>. QED
    BY <1>0, <2>1, <2>3, AsRemove
<1>3. CASE meta' = Old /\ UNCHANGED <<dense, active>>
  <2>1. Behind' = Indexes
    BY <1>3 DEF Behind
  <2>2. \A i : Docs(i)' = Docs(i)
    BY <1>0, <1>3 DEF Docs, Live
  <2>. QED
    BY <1>0, <2>1, <2>2, HitsSame, AsExpire
<1>. QED
  BY <1>1, <1>2, <1>3 DEF Interrupt, Leftovers

(* Start, the reading of the tree, the user and the upgrade. *)
LEMMA RestRefines ==
  ASSUME IInv, \/ Start \/ Scan \/ ReadFile \/ Upgrade
               \/ \E f \in Files : SkipFile(f) \/ HashFile(f) \/ Edit(f)
  PROVE  [Promise!Next]_(Promise!vars)
<1> USE DEF IInv
<1>0. UNCHANGED <<db, sparse, dense, active, lost>> /\ builder'.owes = builder.owes
  BY EarlyMoves, LateMoves
     DEF Start, Scan, ReadFile, Upgrade, SkipFile, HashFile, Edit, OweInv, Committed, Filling,
         MoveTo, SameChange, Idle
<1>1. \A i : Docs(i)' = Docs(i)
  BY <1>0 DEF Docs, Live
<1>2. CASE Upgrade
  <2>1. Behind' = Indexes
    BY <1>2 DEF Upgrade, Behind
  <2>. QED
    BY <1>0, <1>1, <2>1, HitsSame, AsExpire
<1>3. CASE ~Upgrade
  <2>1. meta' = meta
    BY <1>3 DEF Start, Scan, ReadFile, SkipFile, HashFile, Edit
  <2>2. Behind' = Behind
    BY <1>0, <2>1 DEF Behind, Live
  <2>. QED
    BY <1>0, <1>1, <2>2, HitsSame, AsStutter
<1>. QED
  BY <1>2, <1>3

LEMMA InitRefines == Init => Promise!Init
<1> SUFFICES ASSUME Init PROVE Promise!Init
  OBVIOUS
<1>1. db.chunks = {} /\ \A i \in Indexes : Hits(i) = {}
  BY DEF Init, EmptyDb, Hits, Resolved
<1>2. Found = [i \in Indexes |-> {}]
  BY <1>1 DEF Found, Hits
<1>3. Behind \subseteq Indexes
  BY TypeInit, BehindType
<1>. QED
  BY <1>1, <1>2, <1>3 DEF Promise!Init

(* Every step of the builder is a step SearchIndex allows, or none of its. *)
THEOREM Refines == Spec => IsSearchIndex
<1>1. IInv /\ GoneInv /\ [Next]_vars => [Promise!Next]_(Promise!vars)
  <2> SUFFICES ASSUME IInv, GoneInv, [Next]_vars PROVE [Promise!Next]_(Promise!vars)
    OBVIOUS
  <2>1. CASE UNCHANGED vars
    <3>1. UNCHANGED db.chunks /\ Behind' = Behind /\ \A i : Docs(i)' = Docs(i)
      BY <2>1 DEF vars, Behind, Live, Docs
    <3>. QED
      BY <3>1, HitsSame, AsStutter
  <2>. QED
    BY <2>1, WipeRefines, CommitRefines, SparseRefines, QuietRefines, FlipRefines,
       DeleteRefines, InsertRefines, InterruptRefines, RestRefines DEF Next
<1>. QED
  BY <1>1, InitRefines, Invariance, GoneInvariant, PTL DEF Spec, IsSearchIndex, Promise!Spec

(* What SearchIndex gives a reader of the index. *)
PromiseInv ==
    /\ Promise!Complete
    /\ DOMAIN Found = Indexes
    /\ \A i \in Indexes : Found[i] \subseteq db.chunks

LEMMA PromiseInvariant == Spec => []PromiseInv
<1>1. Promise!Init => PromiseInv
  BY DEF Promise!Init, PromiseInv, Promise!Complete
<1>2. PromiseInv /\ [Promise!Next]_(Promise!vars) => PromiseInv'
  <2> SUFFICES ASSUME PromiseInv, [Promise!Next]_(Promise!vars) PROVE PromiseInv'
    OBVIOUS
  <2> USE DEF PromiseInv, Promise!Complete
  <2>1. CASE Promise!Commit
    BY <2>1 DEF Promise!Commit
  <2>2. ASSUME NEW i \in Behind, Promise!Update(i) PROVE PromiseInv'
    BY <2>2 DEF Promise!Update
  <2>3. ASSUME NEW i \in Behind, Promise!CatchUp(i) PROVE PromiseInv'
    BY <2>3 DEF Promise!CatchUp
  <2>4. CASE Promise!Expire
    BY <2>4 DEF Promise!Expire
  <2>5. CASE Promise!Remove
    BY <2>5 DEF Promise!Remove
  <2>6. CASE UNCHANGED Promise!vars
    BY <2>6 DEF Promise!vars
  <2>. QED
    BY <2>1, <2>2, <2>3, <2>4, <2>5, <2>6 DEF Promise!Next
<1>. QED
  BY <1>1, <1>2, Refines, PTL DEF IsSearchIndex, Promise!Spec

(* An index that is not behind finds what is committed, and nothing else:  *)
(* IndexesInSync in the terms of the queries that read the index.          *)
THEOREM SearchIsComplete == Spec => []Promise!Complete
BY PromiseInvariant, PTL DEF PromiseInv

(* While no wipe is due, and in particular while a store is rebuilt beside *)
(* the live one and whenever the build dies, a query goes on finding what  *)
(* it found of what stays committed.                                       *)
THEOREM SearchKeepsFinding == Spec => Promise!StaysFound
<1>1. PromiseInv /\ [Promise!Next]_(Promise!vars)
      => [Behind # Indexes =>
             \A i \in Indexes : Found[i] \cap (db.chunks)' \subseteq Found'[i]]_(Promise!vars)
  <2> SUFFICES ASSUME PromiseInv, [Promise!Next]_(Promise!vars), Behind # Indexes, NEW i \in Indexes
               PROVE  Found[i] \cap db'.chunks \subseteq Found'[i]
    OBVIOUS
  <2> USE DEF PromiseInv
  <2>1. CASE Promise!Commit
    BY <2>1 DEF Promise!Commit
  <2>2. ASSUME NEW j \in Behind, Promise!Update(j)
        PROVE  Found[i] \cap db'.chunks \subseteq Found'[i]
    BY <2>2 DEF Promise!Update
  <2>3. ASSUME NEW j \in Behind, Promise!CatchUp(j)
        PROVE  Found[i] \cap db'.chunks \subseteq Found'[i]
    BY <2>3 DEF Promise!CatchUp
  <2>4. CASE Promise!Expire \/ UNCHANGED Promise!vars
    BY <2>4 DEF Promise!Expire, Promise!vars
  <2>5. CASE Promise!Remove
    BY <2>5 DEF Promise!Remove
  <2>. QED
    BY <2>1, <2>2, <2>3, <2>4, <2>5 DEF Promise!Next
<1>. QED
  BY <1>1, PromiseInvariant, Refines, PTL DEF IsSearchIndex, Promise!Spec, Promise!StaysFound

=============================================================================
