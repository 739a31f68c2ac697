----------------------------- MODULE IndexBuild -----------------------------
(***************************************************************************)
(* One project's index and the builder that keeps it up to date            *)
(* (index/builder.rs, IndexBuilder::build).  A build runs under the        *)
(* project lock, so there is at most one; it changes five stores that no   *)
(* transaction spans: chunks.db, the BM25 index, the dense store of an     *)
(* embedder, the ACTIVE pointer of the embedder's backend and meta.json.   *)
(* Meanwhile the user edits the tree or upgrades the program, and the      *)
(* build may die, or give up on an error, at any step.  Each build is for  *)
(* the embedder that the configuration selects by then.                    *)
(*                                                                         *)
(* A file holds one text, and a text makes one chunk.  Hashes are ideal:   *)
(* the hash of a file is its content.                                      *)
(***************************************************************************)
EXTENDS Naturals, FiniteSets

CONSTANTS
    Files,          \* paths below the project root
    Texts,          \* contents from which the chunkers make a chunk
    Embedders,      \* embedder fingerprints the configuration can select
    BackendOf,      \* the backend of each embedder
    MaxId,          \* bound on the chunk ids handed out between two wipes
    FailPoints,     \* the phases in which a build may die
    EditPoints,     \* the phases in which the user may edit the tree
    Blank,          \* content that yields no chunk: empty, binary, or it panics
    Unreadable,     \* the file is listed but cannot be hashed
    Absent,         \* the file does not exist
    Old,            \* a meta.json of another schema, or one that does not parse
    None

Backends == {"coderank-hnsw", "colbert-plaid"}
Contents == Texts \cup {Blank, Unreadable, Absent}

ASSUME BackendAssumption == BackendOf \in [Embedders -> Backends]
ASSUME NameAssumption ==
    /\ None \notin Contents \cup Embedders
    /\ Old \notin Embedders \cup {None}
    /\ {Blank, Unreadable, Absent} \cap Texts = {}
    /\ Blank \notin {Unreadable, Absent} /\ Unreadable # Absent
ASSUME BoundAssumption == MaxId \in Nat

VARIABLES
    tree,       \* the content of every file
    db,         \* chunks.db: files table, chunks table, AUTOINCREMENT counter
    sparse,     \* the committed documents of the BM25 index
    dense,      \* the versioned dense store of every embedder
    active,     \* the ACTIVE pointer of every backend
    meta,       \* meta.json: the embedder it names, Old or None
    builder,    \* the build that holds the project lock
    lost        \* history: the indexes that miss a change of a build that ended

vars == <<tree, db, sparse, dense, active, meta, builder, lost>>

Chunk == [id : Nat, file : Files, text : Texts]
NoStore == [sentinel |-> FALSE, whole |-> FALSE, docs |-> {}]
EmptyDb == [rows |-> [f \in Files |-> None], chunks |-> {}, next |-> 1]

\* What an update of the chunks is owed to: the BM25 index, and the store each ACTIVE names
Indexes == {"sparse"} \cup Backends
Live == {b \in Backends : active[b] # None}

ChunksOf(f, chunks) == {c \in chunks : c.file = f}

Idle(ok, quiet) ==
    [pc |-> "idle", emb |-> None, todo |-> {}, file |-> None, hash |-> None,
     tx |-> EmptyDb, removed |-> {}, fresh |-> {}, owes |-> {},
     ok |-> ok, quiet |-> quiet]

Phases == {"idle", "wipeSparse", "wipeDense", "wipeChunks", "wipeMeta", "scan", "files",
           "read", "commitSparse", "decide", "full", "flip", "delete",
           "insert", "meta"}

Db == [rows : [Files -> Contents \cup {None}], chunks : SUBSET Chunk, next : Nat \ {0}]

TypeOK ==
    /\ tree \in [Files -> Contents]
    /\ db \in Db
    /\ \A c \in db.chunks : db.rows[c.file] # None
    /\ sparse \subseteq Chunk
    /\ dense \in [Embedders -> [sentinel : BOOLEAN, whole : BOOLEAN, docs : SUBSET Chunk]]
    /\ active \in [Backends -> Embedders \cup {None}]
    /\ meta \in Embedders \cup {Old, None}
    /\ builder \in [pc : Phases, emb : Embedders \cup {None}, todo : SUBSET Files,
                    file : Files \cup {None}, hash : Contents \cup {None}, tx : Db,
                    removed : SUBSET Chunk, fresh : SUBSET Chunk,
                    owes : SUBSET Indexes, ok : BOOLEAN, quiet : BOOLEAN]
    /\ lost \subseteq Indexes

Init ==
    /\ tree \in [Files -> Contents]
    /\ db = EmptyDb
    /\ sparse = {}
    /\ dense = [e \in Embedders |-> NoStore]
    /\ active = [b \in Backends |-> None]
    /\ meta = None
    /\ builder = Idle(FALSE, FALSE)
    /\ lost = {}

Emb == builder.emb
Go(pc) == [builder EXCEPT !.pc = pc]

-----------------------------------------------------------------------------
(* Start: take the lock; an index of another schema is wiped first, its    *)
(* meta.json last.                                                         *)

Start ==
    /\ builder.pc = "idle"
    /\ (IF meta = Old THEN 1 ELSE db.next) + Cardinality(Files) <= MaxId + 1
    /\ \E e \in Embedders :
          builder' = [Idle(FALSE, TRUE) EXCEPT !.pc = IF meta = Old THEN "wipeSparse" ELSE "scan",
                                               !.emb = e]
    /\ UNCHANGED <<tree, db, sparse, dense, active, meta, lost>>

WipeSparse ==
    /\ builder.pc = "wipeSparse"
    /\ sparse' = {}
    /\ builder' = Go("wipeDense")
    /\ UNCHANGED <<tree, db, dense, active, meta, lost>>

\* Mutated form of WipeDense: remove_dir_all fails and its error is dropped
WipeDenseFails ==
    /\ builder.pc = "wipeDense"
    /\ builder' = Go("wipeChunks")
    /\ UNCHANGED <<tree, db, sparse, dense, active, meta, lost>>

WipeDense ==
    /\ builder.pc = "wipeDense"
    /\ dense' = [e \in Embedders |-> NoStore]
    /\ active' = [b \in Backends |-> None]
    /\ builder' = Go("wipeChunks")
    /\ UNCHANGED <<tree, db, sparse, meta, lost>>

WipeChunks ==
    /\ builder.pc = "wipeChunks"
    /\ db' = EmptyDb
    /\ builder' = Go("wipeMeta")
    /\ UNCHANGED <<tree, sparse, dense, active, meta, lost>>

WipeMeta ==
    /\ builder.pc = "wipeMeta"
    /\ meta' = None
    /\ lost' = {}
    /\ builder' = Go("scan")
    /\ UNCHANGED <<tree, db, sparse, dense, active>>

-----------------------------------------------------------------------------
(* The transaction: files that are gone, then every listed file in turn.   *)

Scan ==
    /\ builder.pc = "scan"
    /\ LET gone == {f \in Files : tree[f] = Absent}
       IN  builder' = [builder EXCEPT
               !.pc = "files",
               !.todo = Files \ gone,
               !.tx = [rows |-> [f \in Files |-> IF f \in gone THEN None ELSE db.rows[f]],
                       chunks |-> {c \in db.chunks : c.file \notin gone},
                       next |-> db.next]]
    /\ UNCHANGED <<tree, db, sparse, dense, active, meta, lost>>

\* Mutated form of SkipFile: a file with a row is taken for unchanged
SkipFileOnceSeen(f) ==
    /\ builder.pc = "files"
    /\ f \in builder.todo
    /\ tree[f] \in {Unreadable, Absent} \/ builder.tx.rows[f] # None
    /\ builder' = [builder EXCEPT !.todo = @ \ {f}]
    /\ UNCHANGED <<tree, db, sparse, dense, active, meta, lost>>

\* hash_file and the comparison with the stored hash: unchanged or unreadable
SkipFile(f) ==
    /\ builder.pc = "files"
    /\ f \in builder.todo
    /\ tree[f] \in {Unreadable, Absent, builder.tx.rows[f]}
    /\ builder' = [builder EXCEPT !.todo = @ \ {f}]
    /\ UNCHANGED <<tree, db, sparse, dense, active, meta, lost>>

\* Mutated form of HashFile: the chunks of the old content stay
HashFileKeepsChunks(f) ==
    /\ builder.pc = "files"
    /\ f \in builder.todo
    /\ tree[f] \notin {Unreadable, Absent, builder.tx.rows[f]}
    /\ builder' = [builder EXCEPT !.pc = "read",
                                  !.todo = @ \ {f},
                                  !.file = f,
                                  !.hash = tree[f]]
    /\ UNCHANGED <<tree, db, sparse, dense, active, meta, lost>>

\* The hash differs: the chunks of the old content go at once
HashFile(f) ==
    /\ builder.pc = "files"
    /\ f \in builder.todo
    /\ tree[f] \notin {Unreadable, Absent, builder.tx.rows[f]}
    /\ builder' = [builder EXCEPT !.pc = "read",
                                  !.todo = @ \ {f},
                                  !.file = f,
                                  !.hash = tree[f],
                                  !.tx.chunks = @ \ ChunksOf(f, @)]
    /\ UNCHANGED <<tree, db, sparse, dense, active, meta, lost>>

\* read_to_string, the chunker and the inserts.  A file that yields no chunk is
\* passed over, its row left as it was.
ReadFile ==
    /\ builder.pc = "read"
    /\ LET f == builder.file
           next == builder.tx.next
       IN  builder' =
             IF tree[f] \in Texts
             THEN [builder EXCEPT
                     !.pc = "files", !.file = None, !.hash = None,
                     !.tx = [rows |-> [@.rows EXCEPT ![f] = builder.hash],
                             chunks |-> @.chunks \cup {[id |-> next, file |-> f, text |-> tree[f]]},
                             next |-> next + 1]]
             ELSE [builder EXCEPT !.pc = "files", !.file = None, !.hash = None]
    /\ UNCHANGED <<tree, db, sparse, dense, active, meta, lost>>

-----------------------------------------------------------------------------
(* The two commits.                                                        *)

CommitDb ==
    /\ builder.pc = "files"
    /\ builder.todo = {}
    /\ db' = builder.tx
    /\ builder' = [builder EXCEPT !.pc = "commitSparse",
                                  !.removed = db.chunks \ builder.tx.chunks,
                                  !.fresh = builder.tx.chunks \ db.chunks,
                                  !.owes = IF db.chunks = builder.tx.chunks THEN {}
                                                                          ELSE {"sparse"} \cup Live,
                                  !.tx = EmptyDb]
    /\ UNCHANGED <<tree, sparse, dense, active, meta, lost>>

Without(docs, removed) == {c \in docs : c.id \notin {r.id : r \in removed}}

CommitSparse ==
    /\ builder.pc = "commitSparse"
    /\ sparse' = Without(sparse, builder.removed) \cup builder.fresh
    /\ builder' = [Go("decide") EXCEPT !.owes = @ \ {"sparse"}]
    /\ UNCHANGED <<tree, db, dense, active, meta, lost>>

-----------------------------------------------------------------------------
(* The dense store: skipped, rebuilt in full, or updated in place.         *)

NoChanges == builder.removed = {} /\ builder.fresh = {}
\* Mutated form of SameEmbedderLive: the ACTIVE pointer is not consulted
SentinelPresent == dense[Emb].sentinel

SameEmbedderLive == active[BackendOf[Emb]] = Emb /\ dense[Emb].sentinel

SkipDense ==
    /\ builder.pc = "decide"
    /\ NoChanges /\ SameEmbedderLive /\ meta = Emb
    /\ builder' = Idle(TRUE, builder.quiet)
    /\ UNCHANGED <<tree, db, sparse, dense, active, meta, lost>>

\* A full build starts over in the versioned directory.  PLAID removes the
\* directory with the sentinel, HNSW truncates the payload only.
Emptied == [sentinel |-> dense[Emb].sentinel /\ BackendOf[Emb] # "colbert-plaid",
            whole |-> FALSE, docs |-> {}]

\* Mutated form of DecideDense: ACTIVE is flipped when the rebuild begins
DecideDenseFlipsFirst ==
    /\ builder.pc = "decide"
    /\ ~(NoChanges /\ SameEmbedderLive /\ meta = Emb)
    /\ builder' = Go(IF SameEmbedderLive THEN "delete"
                     ELSE IF db.chunks = {} THEN "meta" ELSE "full")
    /\ dense' = IF SameEmbedderLive \/ db.chunks = {}
                THEN dense
                ELSE [dense EXCEPT ![Emb] = Emptied]
    /\ active' = IF db.chunks = {} THEN active
                                   ELSE [active EXCEPT ![BackendOf[Emb]] = Emb]
    /\ UNCHANGED <<tree, db, sparse, meta, lost>>

DecideDense ==
    /\ builder.pc = "decide"
    /\ ~(NoChanges /\ SameEmbedderLive /\ meta = Emb)
    /\ builder' = Go(IF SameEmbedderLive THEN "delete"
                     ELSE IF db.chunks = {} THEN "meta" ELSE "full")
    /\ dense' = IF SameEmbedderLive \/ db.chunks = {}
                THEN dense
                ELSE [dense EXCEPT ![Emb] = Emptied]
    /\ UNCHANGED <<tree, db, sparse, active, meta, lost>>

\* Mutated form of FinishFull: the full build is fed the chunks of this run
FinishFullOfFresh ==
    /\ builder.pc = "full"
    /\ dense' = [dense EXCEPT ![Emb] = [sentinel |-> TRUE, whole |-> TRUE, docs |-> builder.fresh]]
    /\ builder' = Go("flip")
    /\ UNCHANGED <<tree, db, sparse, active, meta, lost>>

\* The whole corpus is in the versioned directory, its sentinel written last
FinishFull ==
    /\ builder.pc = "full"
    /\ dense' = [dense EXCEPT ![Emb] = [sentinel |-> TRUE, whole |-> TRUE, docs |-> db.chunks]]
    /\ builder' = Go("flip")
    /\ UNCHANGED <<tree, db, sparse, active, meta, lost>>

FlipActive ==
    /\ builder.pc = "flip"
    /\ active' = [active EXCEPT ![BackendOf[Emb]] = Emb]
    /\ builder' = [Go("meta") EXCEPT !.owes = @ \ {BackendOf[Emb]}]
    /\ lost' = lost \ {BackendOf[Emb]}
    /\ UNCHANGED <<tree, db, sparse, dense, meta>>

DeleteDense ==
    /\ builder.pc = "delete"
    /\ dense' = [dense EXCEPT ![Emb].docs = Without(@, builder.removed)]
    /\ builder' = Go("insert")
    /\ UNCHANGED <<tree, db, sparse, active, meta, lost>>

InsertDense ==
    /\ builder.pc = "insert"
    /\ dense' = [dense EXCEPT ![Emb].docs = @ \cup builder.fresh]
    /\ builder' = [Go("meta") EXCEPT !.owes = @ \ {BackendOf[Emb]}]
    /\ UNCHANGED <<tree, db, sparse, active, meta, lost>>

DensePhases == {"full", "flip", "delete", "insert"}

\* A dense error is logged and the build goes on to stamp meta.json
DenseFails ==
    /\ builder.pc \in DensePhases \cap FailPoints
    /\ builder' = Go("meta")
    /\ UNCHANGED <<tree, db, sparse, dense, active, meta, lost>>

WriteMeta ==
    /\ builder.pc = "meta"
    /\ meta' = Emb
    /\ lost' = lost \cup builder.owes
    /\ builder' = Idle(TRUE, builder.quiet)
    /\ UNCHANGED <<tree, db, sparse, dense, active>>

-----------------------------------------------------------------------------
(* Failures, the user, and upgrades.                                       *)

\* What a death in this phase leaves: part of the dense directory, a torn meta.json
Leftovers ==
    \/ UNCHANGED <<dense, active, meta>>
    \/ /\ builder.pc = "wipeDense"
       /\ \E E \in SUBSET Embedders, B \in SUBSET Live :
             /\ dense' = [e \in Embedders |-> IF e \in E THEN NoStore ELSE dense[e]]
             /\ active' = [b \in Backends |-> IF b \in B THEN None ELSE active[b]]
       /\ UNCHANGED meta
    \/ /\ builder.pc = "meta"
       /\ meta' = Old
       /\ UNCHANGED <<dense, active>>

Interrupt ==
    /\ builder.pc \in FailPoints \ {"idle"}
    /\ Leftovers
    /\ lost' = lost \cup builder.owes
    /\ builder' = Idle(FALSE, FALSE)
    /\ UNCHANGED <<tree, db, sparse>>

Edit(f) ==
    /\ builder.pc \in EditPoints
    /\ \E c \in Contents \ {tree[f]} : tree' = [tree EXCEPT ![f] = c]
    /\ builder' = [builder EXCEPT !.quiet = FALSE]
    /\ UNCHANGED <<db, sparse, dense, active, meta, lost>>

\* The new program expects another schema
Upgrade ==
    /\ builder.pc = "idle"
    /\ meta \in Embedders
    /\ meta' = Old
    /\ UNCHANGED <<tree, db, sparse, dense, active, builder, lost>>

Next ==
    \/ Start \/ WipeSparse \/ WipeDense \/ WipeChunks \/ WipeMeta
    \/ Scan \/ ReadFile \/ CommitDb \/ CommitSparse
    \/ SkipDense \/ DecideDense \/ FinishFull \/ FlipActive
    \/ DeleteDense \/ InsertDense \/ DenseFails \/ WriteMeta
    \/ Interrupt \/ Upgrade
    \/ \E f \in Files : SkipFile(f) \/ HashFile(f) \/ Edit(f)

Spec == Init /\ [][Next]_vars

-----------------------------------------------------------------------------
Indexed == db.chunks \cup sparse \cup UNION {dense[e].docs : e \in Embedders}

(* No id ever stands for two chunks: whatever an index still holds, of any *)
(* embedder and from any earlier build, names the chunk it was made from   *)
(* or none.  The ids come from AUTOINCREMENT inside the transaction, the   *)
(* indexes are written after its commit, and a wipe resets the counter     *)
(* only when the indexes are gone.                                         *)
IdsNameOneChunk == \A c, d \in Indexed : c.id = d.id => c = d

(* The store an ACTIVE pointer names is complete, at every moment and      *)
(* after every crash, unless a wipe is owed.                               *)
ActiveStoreIsWhole ==
    meta # Old => \A b \in Backends :
        active[b] # None => dense[active[b]].whole /\ dense[active[b]].sentinel

(* Outside the two commits, and unless a build died between them, the BM25 *)
(* index holds the committed chunks and nothing else.  So does, between    *)
(* builds, the store every ACTIVE pointer names, unless the chunks changed *)
(* in a build that failed to update it, or that ran while an embedder of   *)
(* another backend was selected and so never opened it.                    *)
IndexesInSync ==
    meta # Old =>
        /\ builder.pc # "commitSparse" /\ "sparse" \notin lost => sparse = db.chunks
        /\ builder.pc = "idle" =>
              \A b \in Live \ lost : dense[active[b]].docs = db.chunks

\* What a query finds in an index: it resolves the ids through chunks.db
Docs(i) == IF i = "sparse" THEN sparse ELSE IF i \in Live THEN dense[active[i]].docs ELSE {}
Resolved(docs) == {c \in db.chunks : \E d \in docs : d.id = c.id}
Found == [i \in Indexes |-> Resolved(Docs(i))]

\* What may miss a committed chunk: everything while a wipe is due
Behind == IF meta = Old THEN Indexes ELSE lost \cup builder.owes \cup (Backends \ Live)

Promise == INSTANCE SearchIndex WITH Chunks <- Chunk, chunks <- db.chunks,
                                     found <- Found, behind <- Behind

(* The builder keeps what SearchIndex promises: an index falls behind only *)
(* when chunks are committed, comes back with all of them at once, and a   *)
(* query finds a chunk that stays committed at every moment of a build and *)
(* after every crash, as long as no wipe is due.                           *)
IsSearchIndex == Promise!Spec

TextsOf(f) == {c.text : c \in ChunksOf(f, db.chunks)}
Wanted(f) == {tree[f]} \cap Texts

\* The stored hash is not that of the content the stored chunks were made from
Drifted(f) == db.rows[f] # None /\ TextsOf(f) # {db.rows[f]}

\* A build succeeded and nobody edited the tree since it started
Settled == builder.pc = "idle" /\ builder.ok /\ builder.quiet

(* A build that succeeds in a quiet tree leaves the chunks of the tree,    *)
(* except for a file whose stored hash had come apart from its chunks and  *)
(* matches its content again.                                              *)
FreshUnlessDrifted ==
    Settled => \A f \in Files :
        tree[f] # Unreadable => \/ TextsOf(f) = Wanted(f)
                                \/ Drifted(f) /\ db.rows[f] = tree[f]

(* A hash comes apart from its chunks in two ways only: the file stopped   *)
(* yielding chunks, or it was edited while the build ran.                  *)
DriftNeedsCause ==
    [][\A f \in Files : ~Drifted(f) /\ Drifted(f)' => tree[f] = Blank \/ ~builder.quiet]_vars

=============================================================================
