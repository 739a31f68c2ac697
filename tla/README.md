# TLA+ models of semantex

semantex is a local semantic code search: it walks a project, cuts its files into
chunks, indexes them three ways (SQLite, BM25, dense vectors) under
`<project>/.semantex/`, and answers queries from a CLI, a per-project daemon
(`semantex serve`) and an MCP server. Nothing on disk is covered by one
transaction: an index is five stores that several processes write and read
without a common lock, and that survive crashes, upgrades, changes of the
embedding model and `git checkout`. The processes themselves find, start and
stop one another through small files that nothing locks. Both are modelled here.

- The modules translate the code, not its documentation. `PROJECT.json` maps
  every definition to the lines it stands for. Paths below are relative to
  `src/crates/semantex-core/src/` unless they say otherwise.
- TLC checks small instances (the `.cfg` files); TLAPS proves the safety properties
  of all eleven components for every value of their constants (`*Proofs.tla`).
- One run is expected to end in a violation: it states what a comment of the code
  says and shows a behaviour of the code that does not do it. Section 6 lists
  this one and the other disagreements met while modelling.

Contents: 1 inventory, 2 modules and plan, 3 the models, 4 runs and bounds,
5 fairness, 6 disagreements with the code's documentation, 7 proofs,
8 only model-checked, 9 not modelled, 10 what comes next.

## 1. Inventory

### How the parts interact

    files ──walker, detector──> index builder ──> chunks.db   (SQLite)
                                   │  ▲           sparse/     (tantivy, BM25)
              build gate (locks) ──┘  │           dense/<backend>/<fingerprint>/ + ACTIVE
    CLI, watch, MCP, daemon ──calls───┘           meta.json   (schema, fingerprint)
                                                  branch.json (whose the root is)
    branch layout: indexes/<branch>/ <──mirror / restore──> the live root
    searcher cache (daemon), MCP searcher map ──open, no lock──> the live root
    hybrid search: dense + BM25 + exact, fused; chunks looked up in SQLite by id

    semantex.port, semantex.pid, warm_state.lock: CLI, MCP <──find, start, stop──> daemon
    ~/.semantex/projects.json: index, watch, serve, MCP, session hook (no lock)
    git ──log──> history.db: build (under the lock), MCP tool (without)
    HTTP client ──> http transport ──stdin/stdout──> `semantex mcp`

All of them are processes on one machine that share a directory. Writers of an
index take `.semantex.lock` (an advisory file lock, given back by the kernel when
its holder dies). Readers take no lock. Messages are one request and one reply on
a loopback socket, and the lines of JSON between the HTTP transport and its child.

### Components modelled

**Index builder** (`index/builder.rs`, `updater.rs`, `file/hasher.rs`,
`index/storage.rs`).
- State: the files and chunks tables, the AUTOINCREMENT counter, the committed
  BM25 documents, a dense store per embedder fingerprint, an ACTIVE pointer per
  backend, meta.json.
- Operations: build (incremental, or full after a wipe of an old schema).
- Hard: five commits in a row with a crash, an error or an edit of the tree
  between any two; errors that are logged and passed over; ids that restart at one
  after a wipe; an embedder that changes and changes back.
- Right when: an id never stands for two chunks; the store ACTIVE names is whole;
  the indexes hold the committed chunks; what a build leaves is what the tree holds.

**HNSW dense store** (`index/hnsw_index.rs`, `search/dense_backend.rs`).
- State: `index.bin` (ids and tombstones, replaced by rename) and `store.vecs`
  (rows, appended).
- Operations: full save, append, delete, load.
- Hard: two files with no common commit, a death inside a write, loads that race.
- Right when: a load never fails, and every id is paired with its own row.

**PLAID dense store** (`search/colbert_plaid_backend.rs`,
`search/plaid_search.rs`; numbering of `src/vendor/next-plaid`).
- State: an index that numbers documents by position, and `plaid_mapping.bin`.
- Operations: full build and insert in batches, delete, load.
- Hard: the mapping is written once, behind all batches; next-plaid renumbers when
  it deletes.
- Right when: the mapping names the chunk of every position a search may return.

**Build gate** (`index/gate.rs`).
- State: the lock of every project and the numbered slot files.
- Operations: lock the project, sweep the slots, sleep, give up waiting, release.
- Hard: processes that count different numbers of slots, holders that hang or die,
  the deadline.
- Right when: no more full builds than slots, one build per project, no waiting
  for ever.

**Branch layout** (`index/layout.rs`, `index/branches.rs`).
- State: the live root part by part, its branch.json, a snapshot per branch.
- Operations: detect and reconcile a switch (restore or save), build and mirror,
  retention.
- Hard: HEAD moves at any moment and is read at several; a restore swaps files one
  by one and may stop; retention takes no lock.
- Right when: no snapshot mixes two builds; branch.json vouches for no mixed root;
  a snapshot is of the branch it is filed under.

**Searcher cache of the daemon** (`server/cache.rs`).
- State: the entries by key with their marker, the reconcile gate, the tombstone,
  the cooldown, the flight locks.
- Operations: `get`, `invalidate_project`, seen from several request threads.
- Hard: four reads at four moments (HEAD, meta.json, the parts of the index) while
  another process switches branches and builds.
- Right when: a searcher served as current is the live index; opens are shared and
  capped; a pending switch is handled and not passed over.

**Daemon lifecycle** (`server/mod.rs`, `server/listener.rs`; the commands serve,
watch, search and stop).
- State: the port, pid and sentinel files; the accept loop, its slots and the
  connections of every daemon; shutdown flags.
- Operations: health and start probes, spawning, binding, accepting, idle exit,
  memory guard, shutdown, drain, two clean-ups.
- Hard: every probe is several reads and removals of files that another process
  writes; a daemon that leaves cleans up while its successor starts.
- Right when: stale files never lock the project out, a second daemon has an
  excuse, nobody removes a live sentinel unread, a shutdown ends.

**MCP server** (`src/crates/semantex-mcp/src/server.rs`), with the index state
probe (`index/state.rs`) and the semantic cache (`search/semantic_cache.rs`).
- State: per project the searcher and the state of its background build; the
  answers kept with a searcher.
- Operations: the request loop, background threads that reconcile, build and drop
  the searcher, status and structural tools, evictions.
- Hard: HEAD, the state, the searcher and the index are read at different moments
  of one request, while threads of the server and other processes change them.
- Right when: one build at a time; the searcher does not outlive the server's own
  builds; an answer is of a branch HEAD was on; a switch is served in the end.

**MCP HTTP transport** (`src/crates/semantex-mcp/src/http_transport.rs`).
- State: the child process, its pipes, the map of waiters, the respawn limit.
- Operations: start, send, read, write, drain, clear, respawn.
- Hard: five tasks and a child that may die at any moment, ids chosen by clients.
- Right when: an answer goes to its own caller, one child runs, a request ends.

**Git history index** (`index/history.rs`).
- State: the commits, their files, the watermark.
- Operations: `populate_history`, git command by git command.
- Hard: several processes without a lock, HEAD that moves between two commands,
  rewritten history, pruned commits.
- Right when: no gap below the watermark, commits have their files, a run is
  bounded, the history catches up.

**Project registry** (`index/registry.rs`).
- State: projects.json and a temporary file per process.
- Operations: register, upsert_branch, retain: load, change, write, rename.
- Hard: a read-modify-write by many processes and by two threads of one.
- Right when: the file is never torn, and a project leaves it only for a reason.

### Components not modelled

`PROJECT.json` lists them all, with the reason: the daemon's protocol and handler,
memory notes and the tools over them, the walker and detector, chunking, embedding
and model clients, fusion and ranking, agent, deep search, planner and federation,
the code graph and documentation scaffolds, the installers. Section 9 says why.
Modelled in part: the numbering of documents of next-plaid, what a build commits
to the BM25 index (`search/sparse_search.rs`), and `watch` and `serve` as callers.

### Hazards

`PROJECT.json` lists 40, each at its line, with the properties that would fail if
it went wrong. One has none: the choice of the repositories a session hook
refreshes (section 6).

## 2. Modules and plan

| module | models | uses |
|---|---|---|
| `DenseStore` | what the two formats share: ACTIVE, the sentinel, the ids | |
| `HnswStore` | the HNSW store and its readers | `DenseStore` |
| `PlaidStore` | the PLAID store and its readers | `DenseStore` |
| `SearchIndex` | what a build promises a query: indexes that find the committed chunks or are behind | |
| `IndexBuild`, `MCIndexBuild` | one project's five stores and the builds, refining `SearchIndex` | `SearchIndex` |
| `Semaphore` | what the gate promises: at most `Limit` holders | |
| `BuildGate`, `MCBuildGate` | the gate over lock files, refining `Semaphore` | `Semaphore` |
| `BranchLayout`, `MCBranchLayout` | live root, snapshots, HEAD | |
| `SearcherCache` | the daemon's cache over a root that other processes change | |
| `DaemonLifecycle`, `MCDaemonLifecycle` | port, pid and sentinel; the accept loop | |
| `McpServer`, `MCMcpServer` | request loop, background builds, searcher and its answers | |
| `HttpBackend` | HTTP requests over one child process | |
| `GitHistory`, `MCGitHistory` | history.db and the processes that fill it | |
| `Registry`, `MCRegistry` | projects.json and its writers | |
| `DenseStoreProofs` | theorems on the two dense stores | `HnswStore`, `PlaidStore` |
| `MachineProofs` | theorems on what the processes of a machine share | `BuildGate`, `Registry` |
| `DaemonProofs` | theorems on the daemon | `SearcherCache`, `DaemonLifecycle` |
| `IndexBuildProofs`, `BranchLayoutProofs`, `McpServerProofs`, `HttpBackendProofs`, `GitHistoryProofs` | theorems | the module of that name |

The order was: the stores, where a wrong answer is born (`HnswStore`,
`PlaidStore`); the builder that ties them together (`IndexBuild`); the gate that
keeps builders apart; the two layers above an index that is already right
(`BranchLayout`, `SearcherCache`); the processes around it (`DaemonLifecycle`,
`McpServer`, `HttpBackend`); the two stores beside the index (`GitHistory`,
`Registry`). Each module takes the one below at the grain its
own properties need: `IndexBuild` writes a dense update as a delete and an insert,
whose inside is `HnswStore` or `PlaidStore`; `BranchLayout` writes a build as one
step over four parts, whose inside is `IndexBuild`; `SearcherCache` writes a
snapshot's save as one step, whose inside is `BranchLayout`. `McpServer` takes
the same view of a root and its snapshots for the other cache; `HttpBackend` has the
MCP server as a child that answers a line or dies; `DaemonLifecycle` has the
daemon's cache as an open that takes time and may fail.

Conventions. A variable commented as history is not in the code: it records that
something happened, so that a property can make the exception for it and no other.
An operator commented as a mutated form is not used by `Next`: it is the action with
a plausible bug, and the property it breaks is named in `PROJECT.json`. Names of
actions follow the functions and the steps of the code. Where one module of proofs is
about two components, the names both would use carry the component's (`DaemonInit`,
`RegistrySpec`, `hnswVars`). No module that a proof
reaches declares a `RECURSIVE` operator.

## 3. The models

### HnswStore

`DenseStore` has the variables of any dense store: `live` says that ACTIVE names the
directory, `present` that its sentinel exists, `nextId` is the next chunk id, `builder`
and `reader` the build and the loads in progress. `slots` is store.vecs in whole rows, each slot the id of the chunk whose vector it
holds, or `Garbage` when it straddles two rows; `ragged` says that the file ends
inside a row. `ids` and `tombs` are index.bin, which is the sentinel.

| action | code |
|---|---|
| `BeginSave`, `BeginAppend` | `save_split`: truncate and rewrite; `append_split`: O_APPEND behind whatever is there |
| `WriteRow`, `PartialRow` | one row; a death inside a row |
| `CommitIndex`, `HnswFlipActive` | the rename of index.bin; the ACTIVE pointer |
| `Delete` | tombstones in a new index.bin |
| `HnswInterrupt`, `HnswSwitchAway` | death or I/O error; the builder moves to another embedder |
| `ReadIndex`, `ReadPayload`, `HnswClose` | `load_split` in its two reads |

The graph and the quantiser read rows only and are left out. `torn` records that an
append started behind leftover bytes: `RowsAligned`, which is `CleanRowsAligned` of
the store and `LoadedRowsAligned` of a racing load, holds without it (section 6 on
what happens with it).

### PlaidStore

`docs` is the next-plaid index (the chunk of every document, by position),
`mapping` the file beside it, `chunks` the ids SQLite holds, since search drops any
other id. `AddBatch` is one call of next-plaid, `WriteMapping` the one write at the
end, `BeginDelete` and `DeleteDocs` the tombstones and the compaction. `shifted`
and `owed` record a deletion that renumbered and an update that was interrupted.

### IndexBuild and SearchIndex

A file holds one text and a text makes one chunk; a hash is the content itself.
The builder's `pc` follows `IndexBuilder::build`: the four removals of a wipe, the
scan, the hash and the read of every file (two steps: the file may change in
between), the SQLite commit, the BM25 commit, the dense decision and its steps, and
meta.json. Ids come from the counter inside the transaction. `FailPoints` and
`EditPoints` name the phases where a build may die and where the user may edit, so
that an instance can be about one question. A build is for the embedder the
configuration selects when it starts, which may be another one each time.

`owes` are the indexes (BM25, and the store of each backend) that the build in
progress has a committed change for, `lost` those an ended build still owed one:
`IndexesInSync` says that only a build that ended early, a dense error, or a build for
another backend can leave an index behind.
That nothing ever makes it up is a finding of section 6. `FreshUnlessDrifted` and
`DriftNeedsCause` are about skipping: a file that stops yielding chunks keeps its
old hash (`builder.rs:322`), and when its old content returns it is skipped as
unchanged; an edit between the hash and the read does the same. These are the only
two ways. The history tables, the graph tables and the file classes of the same
transaction are left out: no other store refers to them.

`SearchIndex` is the promise to whoever reads the index: the committed chunks, what a
query can find of them in each index, and the indexes that are `behind`. One falls
behind only by a commit, catches up in one step with all of it (the flip of ACTIVE, or
the insert that ends an update), and until then keeps what it has that is still
committed: a chunk that stays committed never goes missing half way through a
build. The mapping is `chunks <- db.chunks`; `found` is what SQLite resolves of the ids
an index holds (`Found`), which is why deleting from an index the ids of chunks already
gone changes nothing. An index that missed an earlier change gets the last one only
(`Update`) and stays behind. `behind` (`Behind`) is what `lost` and `owes` name, and a backend
without an ACTIVE pointer. While meta.json is old or torn everything is behind and may be
removed: the promise starts again after the wipe.

### BuildGate and Semaphore

`project` and `slot` are the holders of the locks. A process goes `queued`,
`locked`, `sweep` (the files it has not tried yet), `sleep`, and ends up `gated`
or `ungated`, then in the `tail` of the build, still under the project lock. `Die`
frees every lock with no step of the dead process: the kernel does it. `GetLate` is
the passing of MAX_WAIT. `LimitOf` gives each process the limit it computed:
`BuildGate.cfg` lets one believe in two slots and the others in one.

`Semaphore` is the promise: a set of holders, acquire when it has room, release.
The mapping is `holders <- Gated, Limit <- MaxLimit`.

### BranchLayout

A part of an index (`db`, `meta`, `dense`, `sparse`) is written as the build it is
of, or `Broken` when an update was applied to a part it did not belong to. `worker`
is the process under the project lock: `Detect` reads HEAD before the lock, and
`Reconcile` uses what it read; `RestorePart` swaps one part at a time in the code's
order; `FinishBuild` indexes, or finds nothing to do; `RemoveMirror`, `SwapMirror`,
`StampMirror` are the replacement of the snapshot and the root's branch.json. `gc`
is the retention pass that runs without the lock and works from a list it read
earlier. `Checkout` and `Commit` happen at any moment.

Four history variables name the exceptions of the properties: `moved` (HEAD changed
while a build ran), `blessed` (a build ran over a root of two builds), `dropped` (a
branch lost its snapshot to retention or to a mirror that died, and has not been
mirrored since) and `failed` (a build died before its last write). A snapshot of a
branch that is not dropped is whole unless `blessed`, and of its branch unless
`moved`; `SidecarVouches` needs all four, and an idle worker.

### SearcherCache

One project. A searcher is opened in two parts: chunks.db, which stays open and is
known by its inode, and the rest, which is read. `root` has the inode, the build of
each part, and `mark`, the version of meta.json that the cache uses as its marker.

| action | code |
|---|---|
| `Check`, `TakeGate` | the probe, and the probe again under `reconcile_gate`; drops the project's entries |
| `Reconcile`, `RestoreDb/Meta/Rest/Side`, `ReconcileFails` | `detect_and_handle_branch_switch` under the index lock |
| `Settle`, `CoolDown` | tombstone or failed attempt; `RECONCILE_RETRY_COOLDOWN` |
| `ReadKey`, `ReadMarker`, `Lookup` | the key from HEAD, the marker, the entry |
| `TakeFlight`, `OpenDb`, `OpenRest`, `OpenFails`, `Insert` | single flight, eviction before and after the open |
| `Invalidate` | `invalidate_project` |
| `CliStart`, `CliBuild`, `BuildDb` … `BuildSync`, `BuildDies` | `semantex index` in another process |

Abstractions: the probe's reads are taken at one moment; which entry is the least
recently used is left open (any may be evicted); the save of a snapshot and its
branch.json is one step; retention, and HEAD moving under a running build, are
left to `BranchLayout`.

Two properties have exceptions, and the first two of them were found by TLC:

- `overlapped`. A request that has passed the probe is not stopped by a restore
  that another thread then starts. meta.json is swapped before dense/ and sparse/,
  so the request may read the new marker, open the old dense and sparse parts, and
  cache the mix under a marker that stays current. Without the exception
  `FreshEntriesAreLive` is violated within the bounds of the run; with it, it holds there.
- `contradicted`. A tombstone compares names only. When another process builds on
  HEAD's branch, and the user switches away and back, both names match again and
  the branch has a snapshot by now. Without the exception `TombstonesAreHonest` is
  violated at two runs and three checkouts: outside the bounds of the run, and the
  reason for the exception.
- `reverted`. With three branches and three failures, a restore that dies right behind
  chunks.db leaves the chunks.db of one build under the meta.json of another; a searcher
  opened then is dropped from favour by nothing when a second restore dies at the same
  place and brings the chunks.db of meta.json's build back as another file: the marker
  has not changed. `root.reverted` records it until a build or a restore writes
  meta.json. It is outside the bounds of the run, and was met when the proof without it
  did not go through.

With these `FreshEntriesAreLive` holds at every moment, under the index lock as well,
and is proved for any number of failures.

### DaemonLifecycle

A port belongs to one daemon for ever, so a file names a process, is absent, or is
`Torn` between the truncation and the write. `Born` gives a process its role; the
probes are written read by read and removal by removal, as `daemon_healthy`,
`daemon_starting`, `stop_daemon` and `warm_state_ready` do them.

| action | code |
|---|---|
| `Start`, `Spawn`, `Ask`, `Reset`, `Timeout` | a command starts; it connects, is answered, refused or late |
| `RemovePort`, `RemovePid`, `CheckStarting`, `RemoveDead`, `CheckWarm`, `RemoveWarm` | what a failed probe removes |
| `TruncatePid`, `WritePid`, `LoadFails`, `Bind`, `WritePort`, `WriteSentinel` | `run_server` up to its loop |
| `Accept`, `Admit`, `Dispatch`, `Answer`, `FoundNone`, `LoopEnds`, `MemoryExceeded` | the accept loop with its slots, its idle timeout and its memory guard |
| `Drained`, `DrainDeadline`, `AfterClean`, `CleanUp`, `RemoveSentinel`, `ExitPid` | the drain and the two clean-ups |
| `Kill` | a process is killed anywhere |

`excused` records the servers that at some moment of their two probes saw no
registered daemon: `StartsAreExcused` says that no other second daemon starts.

### McpServer

What an index is of is a version: the work tree after so many edits, on a branch.
`root` and `snap` are as in `SearcherCache`; `job` is the phase of every background
thread and of another process that indexes; `main` the request loop. `causes` records
why a searcher may differ from the live index (another process wrote, an open raced,
a failure, an unfinished index), `builds` numbers the stamps. Of an answer, `raced`
records that a write came between the search and the store of it. Of the request,
`main.at` has the branches HEAD was on since it found no switch pending, and
`main.during` that a thread of the server was at work when it took its searcher.

| action | code |
|---|---|
| `Switch`, `Restore`, `BuildStarts`, `BuildsNothing`, `BuildsChunks`, `BuildsRest` | a thread: `detect_and_handle_branch_switch`, then `IndexBuilder::build` |
| `RemoveSearcher`, `SetReady`, `Panic` | the end of the thread; its panic leaves the project Building |
| `Initialize`, `ToolIndex`, `ToolStatus`, `ToolStructural`, `ProbeFederated` | what else spawns a build or writes `index_states` |
| `ProbeState`, `ProbeNoSwitch`, `ProbeSwitch`, `Refresh`, `Lookup`, `OpenDb`, `OpenRest`, `Insert` | a search, step by step |
| `SemanticLookup`, `Compute`, `SemanticStore`, `Reply` | the semantic cache of the searcher |
| `Evict`, `OtherStarts`, `Checkout`, `Edit` | memory pressure, another process, the user |

Left out: refusals of temporary roots and multi-repo containers, the lock `is_locked`
takes for a moment, grep's own sparse-only searcher, the cosine threshold and the
capacity of the semantic cache. Refusals for want of memory are `Failed`. Two builds
never stamp the same second, and paths are canonical (but see section 6).

### HttpBackend

Every request is a task that takes the state's lock three times: `EnsureStarted`,
`Register`, `Snapshot`. `Serve` is the child's loop, `WriterEnds`, `ReadAnswer`,
`Eof`, `ReadError`, `Drain` and `ClearState` are the child's two tasks; `Cancel` is
a client that hangs up, `WindowPasses` the respawn window. All clients send the same
id, the hardest case. `late` marks the requests that registered between the drain
and the clearing of the state. A body with an id that is no request (`malformed`)
is never answered, because the child drops it: `CallsEnd` leaves it out.

### GitHistory

Commits are numbered by committer time and `Ancestors` is any history over them.
A run reads the watermark, asks whether it still exists, counts, walks twice (the
commits, then their files), stores, and writes the watermark; `MoveHead` and `Prune`
happen between any two. `skipped`, `missed` and `bare` record the three ways in which
something may be absent. Builds of a branch and MCP tools run it at once. chunk_blame,
churn, the FTS mirror and clock skew are left out.

### Registry

An entry is a project and whether a branch was recorded. Each writer loads the whole
file (`Load`: what does not parse is empty), changes it, creates and fills the
temporary file (`Open`, `Write`) and renames it (`Rename`); a failure removes what
has the name (`SaveFails`). A file that another thread has renamed keeps being
written where it is now (`Renamed`, `Write`). `crossed` records that two threads of
one process were saving at once. `stale` marks a writer whose load another writer has
overtaken, `gone` the directories a hook found missing: `LossNeedsCause` says nothing
else takes a project, or its branch, out.

## 4. Runs and bounds

A run takes between a second and three minutes with two workers.

| run | states | bounds | what it shows |
|---|---|---|---|
| `hnsw_store` | 33 076 | 3 ids, 1 reader | rows are their ids' own, in the store and in racing loads; a live store only grows |
| `plaid_store` | 1 452 322 | 4 ids, batches of 2, 1 reader | no wrong answers unless a deletion renumbered; no chunk is lost |
| `index_build` | 3 318 813 | 2 files, 2 texts, 2 embedders of one backend, 3 ids; death anywhere, edits between builds and inside a read | ids, ACTIVE, BM25 and dense stay consistent; what a build leaves; when hashes come apart; refinement of `SearchIndex` |
| `build_gate` | 79 360 | 3 processes (limits 1, 1, 2), 3 projects | progress, refinement of `Semaphore` |
| `branch_layout` | 3 051 566 | 3 branches, 1 commit, 2 builds, cap 1; all faults | snapshots whole and labelled; branch.json honest |
| `searcher_cache` | 521 528 | 2 threads, 2 branches, cap 1, 1 CLI run, 2 checkouts, 1 failure | freshness, cap, sharing, tombstones, progress |
| `daemon_lifecycle` | 408 098 | 2 daemons, 1 client, 1 slot, 1 idle poll, 1 fault | second daemons, sentinels, leftovers, progress, shutdown |
| `mcp_server` | 1 601 784 | 2 threads, another process once, 2 branches (HEAD starts on the first), 1 edit, 1 checkout, 1 failure | one build, searchers and answers that are current but for a cause, switches served |
| `http_backend` | 1 033 900 | 2 requests of one id, 2 children, 1 respawn per window | answers to their callers, one child, requests end |
| `git_history` | 1.26 million | 2 processes, 4 commits with a merge, limit 2, 2 moves, 1 failure | no gap, files, bounded, catches up |
| `registry` | 2 399 028 | 2 projects, a hook, an indexer, an MCP server with a build thread, 1 fault | never torn, no loss without a cause |
| `plaid_store_shift` | – | 3 ids, no reader | section 6 |

Why they are enough.
- Ids: three ids in `HnswStore` are a full build, an append behind it and a second
  append behind a crash; four in `PlaidStore` are two batches and a deletion in the
  first one. A third id in `IndexBuild` is the one handed out after a change.
- Readers do not affect one another: one is enough.
- Two embedders of one backend share an ACTIVE pointer, which is where switching
  there and back can go wrong. Two backends have a pointer each; what goes wrong when
  the configuration leaves one of them and comes back is in section 6, and the theorems
  of `IndexBuildProofs` hold for any backends.
- Three builders with limits 1, 1, 2 are the smallest instance where a process with
  a larger limit and one with a smaller compete for the slot both know, and a third
  waits.
- Three branches and a cap of one: two snapshots always compete, and one of them may
  be evicted while the third is being restored. Two builds are enough for two
  parts to disagree. The branches are interchangeable (symmetry); only one of them
  takes the commit; and a behaviour is not followed past a build over a mixed root
  or one HEAD moved under (`Followed`): the properties except for what comes after.
- Two threads race on one key and, after a checkout, on two, over a cap of one. One
  CLI run changes the index beneath an open; two checkouts go there and back. The
  failure is a restore or a build. No symmetry: the run checks a liveness property.
  The three invariants were also checked with three branches, one thread, two CLI
  runs, four checkouts and no failures (2.3 million states).
- Two daemons are a predecessor and a successor; a name is used again when nothing
  refers to it any more, so there is always a third. One slot is a full accept loop,
  one client both searches and stops.
- Two background threads are the one that works and the one that would be a second;
  one edit and one checkout make three indexes that differ; the other process comes
  before, between and after the server's own builds. The project starts without an
  index, with an old one, or with snapshots of one or both branches, so that one
  checkout may restore. The branches are interchangeable: HEAD starts on one.
- Two requests of one id collide in the map of waiters; two children are the one that
  dies and its successor, again and again, because names are used again.
- A commit with two children that are merged is the smallest history with a branch
  that an incremental range must follow; a limit of two cuts it off.
- A hook, an indexer and the two threads of an MCP server are one writer of each kind.
  The projects are interchangeable (symmetry; the run checks no liveness).

Deadlock is checked except in the two `PlaidStore` runs, where the ids run out and
the project rests.

Every property of a passing run has a mutant of the code that violates it, in
`PROJECT.json`. The mutants are bugs someone could write: an error of the wipe
dropped, ACTIVE flipped before the store is whole, the second eviction forgotten,
the marker read after the open, the outgoing branch labelled with HEAD, the client's
own id on the wire, a drain that wakes nobody, the state cleared without the child,
one temporary file for all processes. The type invariants are proved and in no run.

## 5. Fairness

- `BuildGate`: weak fairness for a process that waits (it polls) and for its clock.
  Nothing is asked of a process that builds: it may hang with its slot for ever, and
  the property holds because the wait has a deadline.
- `SearcherCache`: weak fairness for each request thread (threads run, and clients
  keep asking), for a reconcile and a build under way, and for the cooldown's clock.
  Nothing makes the user move HEAD or run the CLI, and nothing has to fail or to
  stop failing: the bound on failures is what says that a restore succeeds some day.
- `DaemonLifecycle`: weak fairness for every process that runs and for a daemon's
  own steps, none for the threads that handle requests: a search may hang for ever.
  Strong fairness for a search of the project: `SearchesGetADaemon` is about a
  project that is searched again and again. Nobody has to run `serve`, `watch` or
  `stop`.
- `McpServer`: weak fairness for background threads, the other process and a request
  under way, strong fairness for a new search. Nothing has to fail or stop failing:
  the bound says that it does.
- `HttpBackend`: weak fairness for every task and for a child that has a line to
  answer. Nobody has to hang up, and a child may die at any moment.
- `GitHistory`: weak fairness for a process that populates: builds and calls keep
  coming.
- The other modules check safety only. The code retries nothing there by itself:
  the next build is the user's.

## 6. Where the code and its documentation disagree

The run:

| run | what the documentation says | what the code does |
|---|---|---|
| `plaid_store_shift` | `types.rs:8-12`: a deleted slot is marked rather than shifted, later positions stay correct | `MmapIndex::delete` compacts and renumbers (`colbert_plaid_backend.rs:952`, `src/vendor/next-plaid/src/delete.rs:61-262`), the mapping does not follow |

Met while modelling, and visible in a model: without the exception that a property
makes for it, TLC finds the behaviour.

- `HnswStore`, `torn`. `index/hnsw_index.rs:387-393`: a crash leaves a half-written
  tail, and the next load ignores those bytes. The next append (`:404`) writes behind
  the tail, and every row of it is another chunk's.
- `IndexBuild`, `lost`. `src/README.md:187`: incremental crash-safe index updates. A
  build that dies between the SQLite commit (`builder.rs:503`) and the dense update is
  not made up for: every hash is equal next time.
- `IndexBuild`, `lost`. `builder.rs:582-583`: a fingerprint change rebuilds instead of
  silently mixing vector spaces. A failed dense build is a warning (`:823`); meta.json
  gets the new fingerprint and ACTIVE keeps the old store.
- `IndexBuild`, `lost`. `builder.rs:578-583`: a dense store is reusable when ACTIVE and
  the sentinel say that the same embedder produced the live store. Each backend has a
  pointer of its own (`:985-996`), and a build for one backend does not touch the store
  of another: when the configuration leaves a backend, chunks change, and it comes back,
  the old store is taken as live and gets the next change only. What changed in between
  it misses for good.
- `BranchLayout`, `blessed`. `src/crates/semantex-mcp/src/server.rs:691-694`: after a
  failed restore the build is still safe to attempt. The build finds nothing to do in
  a mixed root and mirrors it over the branch's clean snapshot (`layout.rs:592-593`).
- `SearcherCache`, `overlapped`, `reverted` and `contradicted`: section 3.
- `HttpBackend`, `late`. `http_transport.rs:465-467` and `:529-530`: the reader wakes
  each awaiter when it ends. A request that passes `ensure_started` and registers
  after the drain and before the state is cleared (`:561`) waits for ever: there is
  no timeout, and its own handle on the map keeps the sender alive. Without the
  exception `CallsEnd` is violated. A body with an id that is no request is
  never answered either.
- `McpServer`, `during` and `causes`. `server.rs:786-787`: while a switch is pending the
  caller falls back to ripgrep instead of answering from the wrong branch's index. A
  search that looks while the thread of an earlier one works does answer from it. A panic of the
  thread leaves the project Building for the life of the server. An answer that
  straddles a reindex is stored under the stamp of after it (`hybrid.rs:1341-1344`).
- `GitHistory`, `bare`. `history.rs:15-16` says the history heals itself. A second walk
  that fails is an empty list (`:1071`), the watermark moves on, and the files of those
  commits are never listed. A run that finds nothing records the HEAD it resolved
  although HEAD has moved since (`missed`). That concurrent writers are safe
  (`src/crates/semantex-mcp/src/server.rs:3729-3731`) is confirmed.
- `Registry`, `crossed`. `registry.rs:16-20` and `:150-153`: concurrent writers drop an
  upsert at most and never corrupt the file. The temporary file has the name of the
  process (`:168-177`), and the request loop of an MCP server registers one project
  (`server.rs:682`) while a thread of it records another (`:707`): one renames what the
  other has just truncated, and projects.json is empty or torn, which loads as no
  project at all.
- `DaemonLifecycle`. A pid file that is read between truncation and write is removed;
  `semantex.port` is removed by two clean-ups that do not look whose it is, the
  successor's as well; `warm_state_ready` reads the sentinel and removes it a step
  later. Each costs a second daemon or a failed search, and none locks the
  project out: `SearchesGetADaemon` holds.

Met while reading, outside the models:

- `hooks.rs:272-274`: a session hook refreshes at most a few stale repositories, and
  "the rest get picked up on a later session-hook run". Repositories are taken
  shortest path first every time, and a build that finds nothing to do does not renew
  the age of an index (`builder.rs:594-653`, `server.rs:801`): the first ones are old
  again at the next session, and the later ones are never reached.
- `server.rs:136-140` and `:708-714` key searchers by the canonical path, `tool_search`
  (`:2310-2324`, `:2441`) by the path as given, so an alias keeps a searcher that the
  end of a build does not drop.
- The daemon's memory limit is 2048 MB in its documentation and 1024 in the code.

## 7. Proofs

Checked by TLAPS (SMT, Zenon, and LS4 for the temporal steps), with no assumption
but the `ASSUME`s of the modules: bounds are naturals, model values differ from what
they stand beside, limits lie between one and `MaxLimit`, sets of branches, calls and
commits are finite, ancestry is reflexive, transitive and goes back in time.
Each module below proves its `TypeCorrect`.

**DenseStoreProofs.** The PLAID store: `AnswersNeverWrong` (`AnswersRight`),
`EveryChunkFound` (`NoChunkLost`), for any number of ids and readers and any batch
size. `Inv` says that a position that names a chunk SQLite holds is that chunk's
document (`FitInv`), that every chunk is named or has its document still to come
(`CoverInv`), that what a reader loaded is still a prefix of the documents until a
deletion renumbers them (`ReaderInv`), and that no id is named before it is handed out
(`Ordered`), which keeps an old mapping from naming a new chunk.

The HNSW store: `LoadsSucceed` (`LoadNeverFails`), `RowsBelong` (`RowsAligned`),
`Grows` (`LiveStoreOnlyGrows`). The properties are not inductive: whether a row is
right depends on what the build in progress has already put on disk. `IInv` adds one
conjunct per phase: `SavingInv` (a full build fills a directory that is not live, row
by row), `BuiltInv` (it is whole before ACTIVE flips), `AppendingInv` (the payload is
never shorter than the committed rows and those written since), `LiveInv`, and
`HnswReaderInv` (what a reader read of index.bin is still a prefix of it). One lemma per
action shows that it preserves each conjunct.

**IndexBuildProofs.** `IdsAreSafe` (`IdsNameOneChunk`), `ActiveIsWhole`
(`ActiveStoreIsWhole`), `InSync` (`IndexesInSync`), `BuildsFreshen`
(`FreshUnlessDrifted`), `DriftHasCause` (`DriftNeedsCause`), `Refines`
(`IsSearchIndex`), for any files, texts, embedders and backends, wherever a build dies
and whenever the user edits. `IInv` has a part per question:
- `PhaseInv`, `WipeInv`: which phases run under an old meta.json, and what a wipe has
  removed by then. The ids start over only when nothing holds one.
- `StoreInv`: ACTIVE names a complete store, and the store about to be flipped to is
  the whole corpus.
- `IdInv`: the transaction hands out ids above every id any index may still hold, which
  is what makes `IdsNameOneChunk` survive an index that was left behind.
- `SparseInv`, `DenseInv`, `OweInv`: an index holds the committed chunks, or still owes
  this build's change, and applying that change gives the committed chunks.
- `FreshInv`: in a tree that nobody edits during the build, the files still to come are
  as they were and the others are up to date, or their hash has come apart.

The refinement has one lemma per shape of a step of `SearchIndex` (`AsCommit`,
`AsCatchUp`, `AsUpdate`, `AsExpire`, `AsRemove`, `AsStutter`), which say what a step of
the builder must do to be one, and one lemma per group of actions that shows it does.
It needs `IInv`, and `GoneInv`: no chunk a build deleted has the id of a committed one,
so the deletions in the indexes take nothing from a query. From `Refines` follow, through
the invariant of the abstract index alone, `SearchIsComplete` (an index that is not behind
finds exactly the committed chunks) and `SearchKeepsFinding` (what a query found and is
still committed it goes on finding).

**MachineProofs.** The gate: `GateBounds` (`GateHolds`), `UngatedIsExcused`
(`UngatedNeedsCause`), `BuildsAreExclusive` (`OneBuildPerProject`), `GateRefines` (the
initial states and every step of the gate map to the initial states, a step or a
stutter of `Semaphore`). `IInv` says which locks a process holds in each phase. The
bound is a counting argument: the map from a gated process to a slot it holds is
injective, its values are among the first `n` slots for processes that believe in `n`
or fewer, so there are at most `n` of them.

The registry: `NeverTorn` (`RegistryIsWhole`), `LossesAreCaused` (`LossNeedsCause`), for
any projects, hooks, indexers and threads of the server. Unless two threads of one
process have crossed, `RegistryInv` says that one of them at most is saving (`Alone`),
that the file under a process's temporary name is its own and holds what it has written
so far (`Own`), and that a list about to be saved that no other writer has overtaken
still agrees with the file (`Fresh`): what the rename takes out, the writer took out.

**BranchLayoutProofs.** `WholeSnapshots`, `LabelledSnapshots`, `SidecarTrusted`, for
any number of branches, commits and builds. `Inv` says
that the branch that branch.json names still has the snapshot of that commit, unless
it lost it (`SideCurrent`); that a build leaves the root whole, and that only a branch
that lost its snapshot is saved without one (`SavingInv`); that the parts a restore has
swapped are the snapshot's (`RestoreInv`); and that a mixed root has the chunks.db of a
branch that branch.json does not name (`MixedInv`).

**DaemonProofs.** The searcher cache: `CapKept` (`CapHolds`), `TombstonesHonest`
(`TombstonesAreHonest`), `OpensShared` (`OpensAreShared`), `FreshIsLive`
(`FreshEntriesAreLive`), for any number of threads, branches, runs, checkouts and
failures and any cap from one. `IInv` adds `TombOK` (a tombstone that nothing
contradicted is of the pending switch) and, for every process, `JobOK`: what it may
rely on at its next step. The proof is rely and guarantee: each action is shown to keep
the `JobOK` of the process that takes it, and lemma `OthersOK` shows from what all
actions guarantee that it keeps the `JobOK` of the others. The cap is cardinality: an
eviction leaves at most `MaxCached - 1` entries, an insert adds one. Freshness takes a
second invariant, `FreshInv`: what a run writes to chunks.db is of no build there was
before (`NewInv`), and a request, from its marker to its insert, and an entry afterwards
(`RequestOK`, `EntryOK`), has a marker older than meta.json's, or is of the live index
while chunks.db is what meta.json says it is, or is known to have overlapped a restore.

The lifecycle: `LeavesNothing` (`NothingLeftBehind`), `ExcusedStarts`
(`StartsAreExcused`), `SentinelIsSafe` (`SentinelSurvives`), for any number of daemons,
clients, slots and faults. `DaemonInv` says that without a fault every file has a
process that has still to remove it (`FilesInv`, with the phases in which a daemon owns
its files: `PortOwners`, `PidOwners`, `SentinelOwners`), that what a probe has read in
the sentinel and is about to remove is a dead process or its own (`ProcInv`), and that a
server which is probing while nobody is registered is excused already (`ExcuseInv`).
What one process does to all others is stated once (`Good`) and shown of every action.

**McpServerProofs.** `OneThread` (`OneBuild`), `NoStaleSearcher` (`StaleNeedsCause`),
`AnswersAreNamed` (`AnswersNameTheirCause`), `CachedAnswersAreCurrent`
(`HitsAreCurrent`), for any number of threads, branches, edits and moves. The
invariants are proved one on another: who works and what the state says (`JobInv`),
what the index is in each phase of its writer (`IndexInv`), what the request loop holds
(`SessionInv`); then `ExcuseInv`, which excuses every searcher that differs: its causes
name one, or a thread that has still to remove it is at work. For the branch of an
answer: a root that nobody is changing has the branch of its branch.json (`SideInv`),
a searcher without a cause has the branch of the root (`FitInv`), and the branch of the
root is one HEAD was on since the request found no switch pending (`Named`). For the
semantic cache: every build that changes chunks takes a stamp no answer has (`StampInv`), and
what is kept under the stamp of now is of the chunks of now, unless the search and the
store of the answer lie on two sides of a write (`AnswerInv`).

**HttpBackendProofs.** `OneChildAtATime` (`StateNamesTheChild`), `AnswersGoHome`
(`AnswersAreOwn`), `WaitersKept` (`WaitersAreHeld`), for any number of requests and
children. `IInv` adds that the waiters in a map and the answers in a pipe carry
the id the transport gave to their own call.

**GitHistoryProofs.** `WatermarkCovers` (`NoGapBelowMark`), `CommitsHaveFiles`
(`FilesFollowCommits`), `FetchBound` (`FetchesAreBounded`), for every history, limit
and number of processes. `IInv` says of every run what it has in hand: what lies below
its base is stored or accounted for, and the two walks agree unless HEAD moved.

## 8. Only model-checked

Every safety property of the passing runs is a theorem. What stays with TLC:

- Liveness (`NobodyWaitsForever`, `SwitchesAreHandled`, `SearchesGetADaemon`,
  `ShutdownEnds`, `SwitchesAreServed`, `CallsEnd`, `CatchesUp`): liveness under
  fairness is out of this prover's reach. `GateRefines` and `Refines` are of safety:
  `Semaphore` and `SearchIndex` state no fairness.
- The cardinalities and recursive definitions of the instances (`MCGitHistory`).

## 9. Not modelled, and why

The map covers a small share of the repository's lines, and most of the rest cannot
usefully be a model: it is parsing, numerics, formatting and I/O whose state ends
with the call.

- *Floating point and text*: embeddings, quantisation, HNSW and PLAID scoring, BM25
  scoring, fusion weights, PageRank, chunk boundaries. TLA+ has nothing to say of the
  numbers.
- *Pure I/O and orchestration*: the walker, the detector, model downloads, LLM
  clients, agent and deep search, federation, the installers and benchmarks. They
  keep no state that the parts above depend on.
- *Protocols of one request and one reply*: parsing and dispatch of the daemon and
  of MCP, whose handlers are calls into the parts above; the read-only tools of the
  MCP server, which are most of its lines.
- *Of the modelled components*: what section 3 says of each; in `Registry` the choice
  of repositories to refresh; in `GitHistory` blame and churn.
- *Assumed of the environment*: a rename replaces a file at once; an advisory lock is
  given back when its holder dies; SQLite and tantivy commits are atomic; two
  different contents have different hashes.

## 10. What comes next

1. **Ranking**: rank fusion, caps and MMR selection as operators over small inputs,
   against reference definitions.
2. **HistoryBlame** (`index/history.rs`): chunk_blame beside the watermark.
3. `BranchLayout`, `SearcherCache` and `McpServer` on `SearchIndex`: a part of a root that
   is whole there is an index that is not behind here.
4. An abstract searcher cache: a map from branches to indexes, of which
   `FreshEntriesAreLive` is the promise.
5. The session hook's choice of repositories, with the ages of their indexes.
