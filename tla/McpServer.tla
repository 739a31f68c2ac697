------------------------------ MODULE McpServer ------------------------------
(***************************************************************************)
(* The MCP server (semantex-mcp/server.rs) on one project: the stdin loop  *)
(* handles one request at a time and keeps the project's searcher between  *)
(* requests, a thread it spawns reconciles a branch switch, builds, and    *)
(* drops the searcher.  Another process (`semantex index`) does the same   *)
(* to the index and knows nothing of the searcher.  With the searcher goes *)
(* its semantic cache (search/semantic_cache.rs), for one query.           *)
(*                                                                         *)
(* A searcher holds chunks.db open, known by its inode, and has read the   *)
(* sparse and dense parts, known by what they are of.                      *)
(***************************************************************************)
EXTENDS Naturals, FiniteSets

CONSTANTS
    Workers,    \* names of the background threads
    Other,      \* the process that runs `semantex index`
    Branches,   \* branch keys
    MaxOther,   \* bound on the runs of Other
    MaxEdits,   \* bound on the edits of the work tree
    MaxMoves,   \* bound on the checkouts
    MaxFails,   \* bound on the failures, panics and refusals for want of memory
    None

ASSUME BoundsAssumption == {MaxOther, MaxEdits, MaxMoves, MaxFails} \subseteq Nat
ASSUME NameAssumption == Other \notin Workers /\ None \notin Workers \cup Branches \cup {Other, "building"}

VARIABLES
    head,    \* the branch HEAD is on
    root,    \* the live index
    snap,    \* the snapshot of every branch
    lock,    \* holder of .semantex.lock
    job,     \* what every background thread, and Other, is doing
    status,  \* index_states: the entry of the project
    entry,   \* cache: the searcher of the project
    main,    \* what the stdin loop is doing
    edits,   \* edits of the work tree so far
    others, moves, fails \* for the bounds

index == <<root, snap, lock>>
user == <<head, edits, moves>>
vars == <<index, user, job, status, entry, main, others, fails>>

Procs == Workers \cup {Other}
\* What an index is of: the work tree after so many edits, on a branch
Versions == [n : 0 .. MaxEdits, branch : Branches]
Tree == [n |-> edits, branch |-> head]
Snapshots == [db : Versions, rest : Versions, stamp : Nat]
Causes == {"foreign", "raced", "failed", "unfinished"}

\* One answer of the semantic cache: the chunks.db it was computed from and the stamp it
\* is kept under.  raced: the index was written before it was stored, or a build that
\* wrote other chunks ended before it stamped them
Answers == [db : Versions \cup {None}, stamp : Nat, raced : BOOLEAN]
\* causes: history, why this searcher may differ from the live index
Searchers == [ino : Nat, rest : Versions \cup {None}, causes : SUBSET Causes,
              answer : Answers \cup {None}]

ASSUME NoneAssumption == None \notin Versions \cup Snapshots \cup Answers \cup Searchers

Metas == {"none", "schema", "embedder", "ok"}
States == {"notIndexed", "stale", "building", "ready"}
Statuses == {"building", "ready", "failed", None}

\* at: the branches HEAD was on since the request found no switch pending; during: a build of
\* this server was under way when it looked for the searcher; held: s is the entry
AtRest == [pc |-> "idle", at |-> {}, during |-> FALSE, s |-> None, held |-> FALSE, got |-> None]

Opening == {"openDb", "openRest", "insert"}
Mains == [pc : {"idle", "switch", "refresh", "lookup", "search", "reply", "compute", "store"} \cup Opening,
          at : SUBSET Branches, during : BOOLEAN, s : Searchers \cup {None},
          held : BOOLEAN, got : Answers \cup {None}]

Writing == {"restore", "build", "stamp"}
Phases == Writing \cup {"idle", "switch", "index", "removed", "done", "dead"}

TypeOK ==
    /\ head \in Branches
    /\ root \in [meta : Metas, side : Branches \cup {None}, ino : Nat, stamp : Nat, builds : Nat,
                 db : Versions \cup {None}, rest : Versions \cup {None}]
    /\ root.meta = "ok" => root.db # None /\ root.rest # None
    /\ snap \in [Branches -> Snapshots \cup {None}]
    /\ lock \in Procs \cup {None}
    /\ \A p \in Procs : lock = p <=> job[p] \in Writing
    /\ job \in [Procs -> Phases]
    /\ status \in Statuses
    /\ entry \in Searchers \cup {None}
    /\ main \in Mains
    /\ main.pc \in {"openRest", "insert", "search", "reply", "compute", "store"} => main.s # None
    /\ \A s \in {entry} \cup (IF main.pc = "openRest" THEN {} ELSE {main.s}) :
          s # None => s.rest # None
    /\ main.held => main.s = entry

\* Snapshots of before the server started, of which that of HEAD's branch is the last
FirstSnapshot(b) ==
    LET first == [n |-> 0, branch |-> b]
    IN  [db |-> first, rest |-> first, stamp |-> IF b = head THEN 1 ELSE 0]

\* The server starts in a project with no index, an index of an older schema or
\* of another embedder, or one of HEAD's branch, possibly with snapshots of others
Init ==
    /\ head \in Branches
    /\ edits = 0
    /\ \/ /\ root = [meta |-> "none", side |-> None, ino |-> 0, stamp |-> 0, builds |-> 0, db |-> None,
                    rest |-> None]
          /\ snap = [b \in Branches |-> None]
       \/ /\ root \in [meta : Metas \ {"none"}, side : {head}, ino : {0}, stamp : {1},
                       builds : {1}, db : {Tree}, rest : {Tree}]
          /\ \E kept \in SUBSET Branches :
                /\ head \in kept /\ (root.meta # "ok" => kept = {head})
                /\ snap = [b \in Branches |-> IF b \in kept THEN FirstSnapshot(b) ELSE None]
    /\ lock = None
    /\ job = [p \in Procs |-> "idle"]
    /\ status = None
    /\ entry = None
    /\ main = AtRest
    /\ others = 0 /\ moves = 0 /\ fails = 0

-----------------------------------------------------------------------------
(* index/state.rs and branch_switch_pending, each read at one moment.      *)

Locked == lock # None

\* detect; every build writes meta.json in place, which may be read half written
Detected ==
    LET unlocked == IF Locked THEN "building" ELSE "ready"
    IN  IF root.meta = "none" THEN {IF Locked THEN "building" ELSE "notIndexed"}
        ELSE IF root.meta = "schema" THEN {"stale"}
        ELSE {unlocked} \cup (IF \E p \in Procs : job[p] \in {"build", "stamp"} THEN {"stale"} ELSE {})

\* detect_for_config, which also compares the embedder
DetectedForConfig ==
    {IF s = "ready" /\ root.meta = "embedder" THEN "stale" ELSE s : s \in Detected}

\* With the sentinel of a live daemon the lock is asked first
Warm == IF Locked THEN "building" ELSE IF root.meta \in {"none", "schema"} THEN "stale" ELSE "ready"
DetectedFast == Detected \cup {Warm}

Pending == root.side # None /\ root.side # head

-----------------------------------------------------------------------------
(* The background index.                                                   *)

NoSpawn == UNCHANGED <<status, job, fails>>

\* A thread has no name; which free one it gets here makes no difference
FreeName == CHOOSE w \in Workers : job[w] = "idle"

\* Mutated form of Spawn: a refusal for want of memory leaves the project Building
SpawnLeavesBuilding ==
    IF status = "building" THEN NoSpawn
    ELSE \/ /\ fails < MaxFails
            /\ fails' = fails + 1
            /\ status' = "building"
            /\ UNCHANGED job
         \/ /\ \E w \in Workers : job[w] = "idle"
            /\ job' = [job EXCEPT ![FreeName] = "switch"]
            /\ status' = "building"
            /\ UNCHANGED fails

\* spawn_background_index: nothing while Building; over half the memory limit, Failed;
\* else a thread
Spawn ==
    IF status = "building" THEN NoSpawn
    ELSE \/ /\ fails < MaxFails
            /\ fails' = fails + 1
            /\ status' = "failed"
            /\ UNCHANGED job
         \/ /\ \E w \in Workers : job[w] = "idle"
            /\ job' = [job EXCEPT ![FreeName] = "switch"]
            /\ status' = "building"
            /\ UNCHANGED fails

\* detect_and_handle_branch_switch, by the thread or by Other: nothing to do, a
\* restore, or the outgoing branch saved (unless its snapshot is current)
Switch(p) ==
    /\ job[p] = "switch"
    /\ \/ /\ ~Pending
          /\ job' = [job EXCEPT ![p] = "index"]
          /\ UNCHANGED index
       \/ /\ Pending /\ ~Locked /\ snap[head] # None
          /\ lock' = p
          /\ root' = [root EXCEPT !.db = snap[head].db, !.ino = @ + 1]
          /\ job' = [job EXCEPT ![p] = "restore"]
          /\ UNCHANGED snap
       \/ /\ Pending /\ ~Locked /\ snap[head] = None
          /\ \/ UNCHANGED snap
             \/ root.rest # None /\ snap' = [snap EXCEPT ![root.side] =
                                    [db |-> root.db, rest |-> root.rest, stamp |-> root.stamp]]
          /\ job' = [job EXCEPT ![p] = "index"]
          /\ UNCHANGED <<root, lock>>
    /\ UNCHANGED <<user, status, entry, main, others, fails>>

Told(s, causes) == IF s = None THEN None ELSE [s EXCEPT !.causes = @ \cup causes]
Doubt(answer) == IF answer = None THEN None ELSE [answer EXCEPT !.raced = TRUE]

\* What Other writes, the server's searcher does not learn; and an answer that is
\* being computed straddles any write
Wrote(p) ==
    LET cause == IF p = Other THEN {"foreign"} ELSE {}
    IN  /\ entry' = Told(entry, cause)
        /\ main' = [main EXCEPT !.s = Told(@, cause), !.got = Doubt(@)]

\* meta.json, the sparse and dense parts and branch.json follow chunks.db
Restore(p) ==
    /\ job[p] = "restore"
    /\ root' = [root EXCEPT !.meta = "ok", !.rest = snap[head].rest, !.stamp = snap[head].stamp,
                            !.side = head]
    /\ lock' = None
    /\ job' = [job EXCEPT ![p] = "index"]
    /\ Wrote(p)
    /\ UNCHANGED <<user, snap, status, others, fails>>

\* IndexBuilder::build takes the lock, which readers see, and clears an index of
\* another schema; a thread that waits for the lock is not seen
BuildStarts(p) ==
    /\ job[p] = "index" /\ ~Locked
    /\ lock' = p
    /\ root' = IF root.meta = "schema"
               THEN [root EXCEPT !.meta = "none", !.db = None, !.rest = None, !.ino = @ + 1]
               ELSE root
    /\ job' = [job EXCEPT ![p] = "build"]
    /\ UNCHANGED <<user, snap, status, entry, main, others, fails>>

Built(p) == IF p = Other THEN "idle" ELSE "removed"

Mirrored(r) == [snap EXCEPT ![head] = [db |-> r.db, rest |-> r.rest, stamp |-> r.stamp]]

\* No file differs from its row in chunks.db: only the mirror and branch.json
BuildsNothing(p) ==
    /\ job[p] = "build"
    /\ root.meta = "ok" /\ root.db = Tree
    /\ root' = [root EXCEPT !.side = head]
    /\ snap' = Mirrored(root)
    /\ lock' = None
    /\ job' = [job EXCEPT ![p] = Built(p)]
    /\ UNCHANGED <<user, status, entry, main, others, fails>>

BuildsChunks(p) ==
    /\ job[p] = "build"
    /\ root.meta # "ok" \/ root.db # Tree
    /\ root' = [root EXCEPT !.db = Tree]
    /\ job' = [job EXCEPT ![p] = "stamp"]
    /\ UNCHANGED <<user, snap, lock, status, entry, main, others, fails>>

\* The sparse and dense parts, meta.json, the mirror and branch.json
BuildsRest(p) ==
    /\ job[p] = "stamp"
    /\ LET r == [root EXCEPT !.meta = "ok", !.rest = root.db, !.side = head,
                         !.stamp = root.builds + 1, !.builds = @ + 1]
       IN  root' = r /\ snap' = Mirrored(r)
    /\ lock' = None
    /\ job' = [job EXCEPT ![p] = Built(p)]
    /\ Wrote(p)
    /\ UNCHANGED <<user, status, others, fails>>

\* The writes of p end half-way: the searchers learn nothing, and new chunks that go
\* unstamped leave the answers of before them under the stamp that is still there
Cut(p, answer) == IF job[p] = "stamp" THEN Doubt(answer) ELSE answer
Failed(p, s) ==
    IF s = None THEN None ELSE [Told(s, {"failed"}) EXCEPT !.answer = Cut(p, @)]

Blame(p) ==
    /\ entry' = Failed(p, entry)
    /\ main' = [main EXCEPT !.s = Failed(p, @), !.got = Cut(p, @)]

\* The reconcile or the build of a thread fails; a reconcile's error is only logged
SwitchFails(p) ==
    /\ job[p] \in {"switch", "restore"} /\ Pending /\ fails < MaxFails
    /\ fails' = fails + 1
    /\ lock' = IF lock = p THEN None ELSE lock
    /\ job' = [job EXCEPT ![p] = "index"]
    /\ Blame(p)
    /\ UNCHANGED <<user, root, snap, status, others>>

\* Mutated form of BuildFails: the index lock is not given back
BuildFailsKeepsLock(p) ==
    /\ job[p] \in {"index", "build", "stamp"} /\ fails < MaxFails
    /\ fails' = fails + 1
    /\ UNCHANGED lock
    /\ job' = [job EXCEPT ![p] = "idle"]
    /\ status' = IF p = Other THEN status ELSE "failed"
    /\ Blame(p)
    /\ UNCHANGED <<user, root, snap, others>>

BuildFails(p) ==
    /\ job[p] \in {"index", "build", "stamp"} /\ fails < MaxFails
    /\ fails' = fails + 1
    /\ lock' = IF lock = p THEN None ELSE lock
    /\ job' = [job EXCEPT ![p] = "idle"]
    /\ status' = IF p = Other THEN status ELSE "failed"
    /\ Blame(p)
    /\ UNCHANGED <<user, root, snap, others>>

\* A panic ends the thread and releases the lock; nobody writes its outcome
Panic(w) ==
    /\ job[w] \in {"switch", "restore", "index", "build", "stamp"} /\ fails < MaxFails
    /\ fails' = fails + 1
    /\ lock' = IF lock = w THEN None ELSE lock
    /\ job' = [job EXCEPT ![w] = "dead"]
    /\ Blame(w)
    /\ UNCHANGED <<user, root, snap, status, others>>

\* Mutated form of RemoveSearcher: the finished build leaves the searcher cached
RemoveNothing(w) ==
    /\ job[w] = "removed"
    /\ job' = [job EXCEPT ![w] = "done"]
    /\ UNCHANGED <<index, user, status, entry, main, others, fails>>

\* cache.lock().remove: a searcher that is being opened is not in the map yet
RemoveSearcher(w) ==
    /\ job[w] = "removed"
    /\ entry' = None
    /\ main' = [main EXCEPT !.held = FALSE,
                            !.s = IF main.pc \in Opening THEN Told(@, {"raced"}) ELSE @]
    /\ job' = [job EXCEPT ![w] = "done"]
    /\ UNCHANGED <<index, user, status, others, fails>>

SetReady(w) ==
    /\ job[w] = "done"
    /\ status' = "ready"
    /\ job' = [job EXCEPT ![w] = "idle"]
    /\ UNCHANGED <<index, user, entry, main, others, fails>>

OtherStarts ==
    /\ job[Other] = "idle" /\ others < MaxOther
    /\ others' = others + 1
    /\ job' = [job EXCEPT ![Other] = "switch"]
    /\ UNCHANGED <<index, user, status, entry, main, fails>>

-----------------------------------------------------------------------------
(* The stdin loop: one request at a time.                                  *)

\* Mutated form of Evict: the map of statuses is cleared whole
EvictForgetsBuilds ==
    /\ main.pc = "idle"
    /\ entry' = None
    /\ status' = None
    /\ UNCHANGED <<index, user, job, main, others, fails>>

\* Between two uses of the searcher: unused for two minutes, displaced by another
\* project's, or, after a tool call over 75 % of the memory limit, dropped with every
\* status but Building
Evict ==
    /\ main.pc = "idle"
    /\ entry' = None
    /\ \/ UNCHANGED status
       \/ status' = IF status = "building" THEN status ELSE None
    /\ UNCHANGED <<index, user, job, main, others, fails>>

\* initialize, once per session: not a tool call
Initialize ==
    /\ main.pc = "idle"
    /\ \E s \in DetectedForConfig :
          IF s \in {"notIndexed", "stale"} \/ Pending THEN Spawn ELSE NoSpawn
    /\ UNCHANGED <<index, user, entry, main, others>>

\* semantex_index: drops the searcher, then spawns
ToolIndex ==
    /\ main.pc = "idle"
    /\ Spawn
    /\ entry' = None
    /\ UNCHANGED <<index, user, main, others>>

\* semantex_status of a project: spawns when it is not indexed, or is old
ToolStatus ==
    /\ main.pc = "idle"
    /\ \E s \in DetectedForConfig, old \in BOOLEAN :
          IF s = "notIndexed" \/ (s = "ready" /\ old) THEN Spawn ELSE NoSpawn
    /\ UNCHANGED <<index, user, entry, main, others>>

\* The structural tools (require_index_ready): spawn unless the index is ready and of
\* HEAD's branch, and read it without the searcher
ToolStructural ==
    /\ main.pc = "idle"
    /\ \E s \in DetectedFast : IF s = "ready" /\ ~Pending THEN NoSpawn ELSE Spawn
    /\ UNCHANGED <<index, user, entry, main, others>>

\* The search tools (semantex_agent, _search, _deep): search_path_state
ProbeState ==
    /\ main.pc = "idle"
    /\ \E s \in DetectedFast :
          \/ /\ s = "ready"
             /\ main' = [main EXCEPT !.pc = "switch"]
             /\ NoSpawn
          \/ /\ s \in {"notIndexed", "stale"}
             /\ Spawn
             /\ UNCHANGED main
    /\ UNCHANGED <<index, user, entry, others>>

\* Mutated form of ProbeSwitch: the searcher is served whatever HEAD says
ProbeNoSwitch ==
    /\ main.pc = "switch"
    /\ main' = [main EXCEPT !.pc = "refresh", !.at = {head}]
    /\ NoSpawn
    /\ UNCHANGED <<index, user, entry, others>>

\* A pending switch: the searcher goes, a thread reconciles, ripgrep answers
ProbeSwitch ==
    /\ main.pc = "switch"
    /\ \/ /\ Pending
          /\ entry' = None
          /\ Spawn
          /\ main' = AtRest
       \/ /\ ~Pending
          /\ main' = [main EXCEPT !.pc = "refresh", !.at = {head}]
          /\ NoSpawn
          /\ UNCHANGED entry
    /\ UNCHANGED <<index, user, others>>

\* maybe_trigger_refresh: the request goes on over the index it found
Refresh ==
    /\ main.pc = "refresh"
    /\ main' = [main EXCEPT !.pc = "lookup"]
    /\ Spawn \/ NoSpawn
    /\ UNCHANGED <<index, user, entry, others>>

\* target_readiness of a federated search, which asks nothing of HEAD
ProbeFederated ==
    /\ main.pc = "idle"
    /\ "ready" \in Detected
    /\ main' = [main EXCEPT !.pc = "lookup"]
    /\ UNCHANGED <<index, user, job, status, entry, others, fails>>

\* get_searcher: the entry, or an open outside the map's lock
Lookup ==
    /\ main.pc = "lookup"
    /\ main' = IF entry = None THEN [main EXCEPT !.pc = "openDb"]
               ELSE [main EXCEPT !.pc = "search", !.s = entry, !.held = TRUE,
                                 !.during = (status = "building")]
    /\ UNCHANGED <<index, user, job, status, entry, others, fails>>

OpenDb ==
    /\ main.pc = "openDb" /\ root.db # None
    /\ main' = [main EXCEPT !.pc = "openRest", !.during = (status = "building"),
                            !.s = [ino |-> root.ino, rest |-> None, causes |-> {}, answer |-> None]]
    /\ UNCHANGED <<index, user, job, status, entry, others, fails>>

\* An earlier write left the index unfinished, or one is under way, when its parts or
\* branch.json do not fit together
Finished == root.rest = root.db /\ root.rest.branch = root.side

OpenRest ==
    /\ main.pc = "openRest" /\ root.rest # None
    /\ main' = [main EXCEPT !.pc = "insert", !.s.rest = root.rest,
                            !.s.causes = IF Finished THEN @ ELSE @ \cup {"unfinished"}]
    /\ UNCHANGED <<index, user, job, status, entry, others, fails>>

OpenFails ==
    /\ main.pc \in {"openDb", "openRest"}
    /\ Locked \/ root.rest = None \/ fails > 0
    /\ main' = AtRest
    /\ UNCHANGED <<index, user, job, status, entry, others, fails>>

Insert ==
    /\ main.pc = "insert"
    /\ entry' = main.s
    /\ main' = [main EXCEPT !.pc = "search", !.held = TRUE]
    /\ UNCHANGED <<index, user, job, status, others, fails>>

-----------------------------------------------------------------------------
(* HybridSearcher::search: the semantic cache of the searcher, for a query *)
(* that is asked again.                                                    *)

\* The searcher in use is the entry, unless a build has removed it meanwhile
Keep(s) == entry' = IF main.held THEN s ELSE entry

\* enforce_stamp: another stamp than the entries' flushes them
Valid(answer) == IF answer # None /\ answer.stamp = root.stamp THEN answer ELSE None

Hit(s) == main' = [main EXCEPT !.pc = "reply", !.s = s, !.got = s.answer]
Miss(s) == main' = [main EXCEPT !.pc = "compute", !.s = s]

\* Mutated form of SemanticLookup: an answer is looked for without its stamp
SemanticLookupUnstamped ==
    /\ main.pc = "search"
    /\ IF main.s.answer # None THEN Hit(main.s) ELSE Miss(main.s)
    /\ UNCHANGED <<index, user, job, status, entry, others, fails>>

SemanticLookup ==
    /\ main.pc = "search"
    /\ LET s == [main.s EXCEPT !.answer = Valid(@)]
       IN  /\ Keep(s)
           /\ IF s.answer # None THEN Hit(s) ELSE Miss(s)
    /\ UNCHANGED <<index, user, job, status, others, fails>>

Reply ==
    /\ main.pc = "reply"
    /\ main' = AtRest
    /\ UNCHANGED <<index, user, job, status, entry, others, fails>>

Compute ==
    /\ main.pc = "compute"
    /\ main' = [main EXCEPT !.pc = "store",
                            !.got = [db |-> root.db, stamp |-> 0, raced |-> FALSE]]
    /\ UNCHANGED <<index, user, job, status, entry, others, fails>>

\* The stamp is read again, so an answer that straddles a reindex has the new one
SemanticStore ==
    /\ main.pc = "store"
    /\ Keep([main.s EXCEPT !.answer = [main.got EXCEPT !.stamp = root.stamp]])
    /\ main' = AtRest
    /\ UNCHANGED <<index, user, job, status, others, fails>>

-----------------------------------------------------------------------------
(* The user.                                                               *)

\* HEAD that moves under a running build is BranchLayout's subject
Checkout ==
    /\ moves < MaxMoves /\ ~Locked
    /\ moves' = moves + 1
    /\ head' \in Branches \ {head}
    /\ main' = [main EXCEPT !.at = IF @ = {} THEN {} ELSE @ \cup {head'}]
    /\ UNCHANGED <<index, edits, job, status, entry, others, fails>>

Edit ==
    /\ edits < MaxEdits
    /\ edits' = edits + 1
    /\ UNCHANGED <<index, head, moves, job, status, entry, main, others, fails>>

Index(p) ==
    \/ Switch(p) \/ Restore(p) \/ BuildStarts(p) \/ BuildsNothing(p) \/ BuildsChunks(p)
    \/ BuildsRest(p)

Search ==
    \/ ProbeSwitch \/ Refresh \/ Lookup \/ OpenDb \/ OpenRest \/ OpenFails \/ Insert
    \/ SemanticLookup \/ Reply \/ Compute \/ SemanticStore

Next ==
    \/ \E p \in Procs : Index(p) \/ SwitchFails(p) \/ BuildFails(p)
    \/ \E w \in Workers : Panic(w) \/ RemoveSearcher(w) \/ SetReady(w)
    \/ OtherStarts
    \/ Initialize \/ ToolIndex \/ ToolStatus \/ ToolStructural \/ ProbeFederated \/ ProbeState
    \/ Search \/ Evict \/ Checkout \/ Edit

\* Threads and the other process run, a request that is being handled goes on, and
\* clients go on searching.  Nothing makes the user move HEAD or edit, and nothing
\* has to fail.
Fairness ==
    /\ \A p \in Procs : WF_vars(Index(p))
    /\ \A w \in Workers : WF_vars(RemoveSearcher(w) \/ SetReady(w))
    /\ WF_vars(Search)
    /\ SF_vars(ProbeState)

Spec == Init /\ [][Next]_vars /\ Fairness

-----------------------------------------------------------------------------
(* Properties.                                                             *)

Active == {w \in Workers : job[w] # "idle"}

\* At most one thread of a server works on a project, and the project is Building
\* exactly while one does, or after it panicked: no refusal, failure, memory
\* pressure or request in between leaves it Building or lets a second thread in.
OneBuild == Cardinality(Active) <= 1 /\ (status = "building" <=> Active # {})

Live(s) == s.ino = root.ino /\ s.rest = root.rest
Quiet == ~Locked /\ Active \subseteq {w \in Workers : job[w] = "dead"}

\* Once no thread works and nobody writes, a cached searcher is of the live index,
\* unless another process wrote to it, a failure cut a thread short, the open began
\* before the thread removed the searcher, or it was opened over an unfinished index:
\* whatever this server's own finished builds change, the searcher does not outlive.
StaleNeedsCause == entry # None /\ Quiet => Live(entry) \/ entry.causes # {}

\* A search answers from an index of a branch HEAD was on since it found no switch
\* pending, but for the same causes, and but for a search that comes while a thread
\* of this server works on the project.
AnswersNameTheirCause ==
    main.pc \in {"reply", "compute"} /\ main.at # {} =>
        main.s.rest.branch \in main.at \/ main.during \/ main.s.causes # {}

\* The semantic cache gives an answer again only if its chunks are those of the live
\* chunks.db, unless the answer straddled a write (it is stored under the stamp of after
\* the write) or a build failed between its chunks and its stamp: every other reindex,
\* by whatever process, flushes the answers of before it.
HitsAreCurrent ==
    main.pc = "reply" /\ main.s.ino = root.ino /\ Quiet =>
        main.got.db = root.db \/ main.got.raced

\* A switch is reconciled and built in the end, whatever fails, is refused or is
\* evicted on the way, as long as clients search and no thread panics.
SwitchesAreServed ==
    Pending ~> ~Pending \/ \E w \in Workers : job[w] = "dead"

=============================================================================
