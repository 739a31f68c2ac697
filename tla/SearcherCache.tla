---------------------------- MODULE SearcherCache ----------------------------
(***************************************************************************)
(* The searcher cache of `semantex serve` (server/cache.rs), one project.  *)
(* The threads of the daemon ask for the searcher of HEAD's branch; each   *)
(* first looks for a branch switch nobody has handled, then at the cache,  *)
(* and opens the live index on a miss.  Another process (`semantex index`) *)
(* switches branches and builds under the index lock, which the readers do *)
(* not take: a request reads HEAD, meta.json and the parts of the index at *)
(* four different moments.                                                 *)
(*                                                                         *)
(* A searcher is opened in two parts.  chunks.db is held open, so it is    *)
(* known by its inode; a restore renames another inode over it.  The BM25  *)
(* and dense parts are read, and known by the build they are of.           *)
(***************************************************************************)
EXTENDS Naturals, FiniteSets

CONSTANTS
    Threads,    \* request threads of the daemon
    Branches,   \* branch keys
    Cli,        \* the process that runs `semantex index`
    MaxCached,  \* the LRU cap
    MaxRuns,    \* bound on the runs of Cli
    MaxMoves,   \* bound on the checkouts
    MaxFails,   \* bound on the restores that fail and the builds that die
    None

Versions == [n : 0 .. MaxRuns, branch : Branches]
Snapshots == [db : Versions, rest : Versions, meta : Versions]
Roots == [ino : Nat, mark : Nat, db : Versions, rest : Versions, meta : Versions,
          reverted : BOOLEAN]
Searchers == [mark : Nat, ino : Nat, rest : Versions, overlapped : BOOLEAN]

ASSUME CapAssumption == MaxCached \in Nat \ {0}
ASSUME RunsAssumption == MaxRuns \in Nat
ASSUME BranchAssumption == IsFiniteSet(Branches)
ASSUME NameAssumption ==
    /\ Cli \notin Threads
    /\ None \notin Branches \cup Threads \cup {Cli}
    /\ None \notin Snapshots

VARIABLES
    head,       \* the branch HEAD is on
    root,       \* the live index: inode of chunks.db, builds of its parts, meta.json;
                \* reverted is history: a restore brought back, as another file, the
                \* chunks.db that meta.json is of, and has not written meta.json since
    side,       \* the branch the root's branch.json names
    snap,       \* the snapshot of every branch
    lock,       \* holder of .semantex.lock
    entries,    \* the cached searcher of every key
    gate,       \* holder of reconcile_gate
    tomb,       \* reconciled_outgoing: the switch already handled
    cooling,    \* failed_reconciles: the last reconcile failed a moment ago
    flight,     \* holder of every key's flight lock
    job,        \* what every thread, and Cli, is doing
    runs, moves, fails, \* for the bounds
    contradicted \* history: branch.json was rewritten since the tombstone's reconcile

project == <<head, root, side, snap, lock>>
cache == <<entries, gate, tomb, cooling, flight>>
bounds == <<runs, moves, fails>>
vars == <<project, cache, job, bounds, contradicted>>

Procs == Threads \cup {Cli}

\* ino: the chunks.db a thread holds open; rest: the build of the other parts it read;
\* overlapped: a restore swapped meta.json in while the request was past its check;
\* undone: branch.json was rewritten since the reconcile of this request
Idle == [pc |-> "idle", key |-> None, from |-> None, out |-> None, mark |-> 0, ino |-> 0,
         rest |-> None, overlapped |-> FALSE, undone |-> FALSE]

Restoring == {"restoreDb", "restoreMeta", "restoreRest", "restoreSide"}
Building == {"buildDb", "buildRest", "buildMeta", "mirror", "sync"}
PastCheck == {"key", "marker", "lookup", "flight", "openDb", "openRest", "insert"}
Opening == {"openDb", "openRest", "insert"}

Phases == {"idle", "gate", "lock", "done", "build"} \cup PastCheck \cup Restoring \cup Building

Jobs == [pc : Phases, key : Branches \cup {None}, from : Branches \cup {None},
         out : {"ok", "outgoing", "err", None}, mark : Nat, ino : Nat,
         rest : Versions \cup {None}, overlapped : BOOLEAN, undone : BOOLEAN]

ProjectTypeOK ==
    /\ head \in Branches
    /\ root \in Roots
    /\ side \in Branches
    /\ snap \in [Branches -> Snapshots \cup {None}]
    /\ lock \in Procs \cup {None}

CacheTypeOK ==
    /\ entries \in [Branches -> Searchers \cup {None}]
    /\ gate \in Threads \cup {None}
    /\ tomb \in [from : Branches, to : Branches] \cup {None}
    /\ cooling \in BOOLEAN
    /\ flight \in [Branches -> Threads \cup {None}]

TypeOK ==
    /\ ProjectTypeOK
    /\ CacheTypeOK
    /\ job \in [Procs -> Jobs]
    /\ runs \in 0 .. MaxRuns
    /\ contradicted \in BOOLEAN
    /\ lock # None => job[lock].pc \in Restoring \cup Building
    /\ snap[side] # None

\* The daemon starts over the index of HEAD's branch, its searcher already open
Init ==
    /\ head \in Branches
    /\ LET first == [n |-> 0, branch |-> head]
       IN  /\ root = [ino |-> 0, mark |-> 0, db |-> first, rest |-> first, meta |-> first,
                     reverted |-> FALSE]
           /\ snap = [b \in Branches |->
                        IF b = head THEN [db |-> first, rest |-> first, meta |-> first] ELSE None]
           /\ entries = [b \in Branches |->
                            IF b = head
                            THEN [mark |-> 0, ino |-> 0, rest |-> first, overlapped |-> FALSE]
                            ELSE None]
    /\ side = head
    /\ lock = None
    /\ gate = None
    /\ tomb = None
    /\ cooling = FALSE
    /\ flight = [b \in Branches |-> None]
    /\ job = [p \in Procs |-> Idle]
    /\ runs = 0 /\ moves = 0 /\ fails = 0
    /\ contradicted = FALSE

Go(p, pc) == job' = [job EXCEPT ![p].pc = pc]

-----------------------------------------------------------------------------
(* reconcile_pending_branch_switch.                                        *)

Pending == side # head

\* outgoing_switch_already_reconciled
Tombstoned == tomb # None /\ side = tomb.from /\ head = tomb.to

NothingToDo == ~Pending \/ Tombstoned \/ cooling

\* A restore is between meta.json and the parts it swaps in after it
HalfRestored == \E p \in Procs : job[p].pc = "restoreRest"

\* The probe, its reads taken at one moment
Check(t) ==
    /\ job[t].pc = "idle"
    /\ job' = [job EXCEPT ![t] = [Idle EXCEPT !.pc = IF NothingToDo THEN "key" ELSE "gate",
                                              !.overlapped = NothingToDo /\ HalfRestored]]
    /\ UNCHANGED <<project, cache, bounds, contradicted>>

\* Under the gate the probe is repeated; a switch to handle drops the project's
\* searchers first.  HEAD is read once more, before the index lock.
TakeGate(t) ==
    /\ job[t].pc = "gate" /\ gate = None
    /\ IF NothingToDo
       THEN /\ job' = [job EXCEPT ![t].pc = "key", ![t].overlapped = HalfRestored]
            /\ UNCHANGED <<entries, gate>>
       ELSE /\ job' = [job EXCEPT ![t].pc = "lock", ![t].key = head]
            /\ entries' = [b \in Branches |-> None]
            /\ gate' = t
    /\ UNCHANGED <<project, tomb, cooling, flight, bounds, contradicted>>

\* Mutated form of Reconcile: the snapshot of HEAD's branch is not looked for
ReconcileSavesOnly(p) ==
    /\ job[p].pc = "lock" /\ lock = None
    /\ IF side = job[p].key
       THEN /\ job' = [job EXCEPT ![p].pc = "done", ![p].out = "ok"]
            /\ UNCHANGED snap
       ELSE /\ snap' = [snap EXCEPT ![side] = [db |-> root.db, rest |-> root.rest,
                                              meta |-> root.meta]]
            /\ job' = [job EXCEPT ![p].pc = "done", ![p].out = "outgoing", ![p].from = side]
    /\ UNCHANGED <<head, root, side, lock, cache, bounds, contradicted>>

\* detect_and_handle_branch_switch under the index lock: nothing left to do, a
\* restore, or the outgoing root saved, unless its snapshot is of the same commit
Reconcile(p) ==
    /\ job[p].pc = "lock" /\ lock = None
    /\ LET key == job[p].key
       IN  \/ /\ side = key
              /\ job' = [job EXCEPT ![p].pc = "done", ![p].out = "ok"]
              /\ UNCHANGED <<snap, lock>>
           \/ /\ side # key /\ snap[key] # None
              /\ lock' = p
              /\ job' = [job EXCEPT ![p].pc = "restoreDb", ![p].out = "ok"]
              /\ UNCHANGED snap
           \/ /\ side # key /\ snap[key] = None
              /\ \/ UNCHANGED snap
                 \/ snap' = [snap EXCEPT ![side] = [db |-> root.db, rest |-> root.rest,
                                                    meta |-> root.meta]]
              /\ job' = [job EXCEPT ![p].pc = "done", ![p].out = "outgoing", ![p].from = side]
              /\ UNCHANGED lock
    /\ UNCHANGED <<head, root, side, cache, bounds, contradicted>>

RestoreDb(p) ==
    /\ job[p].pc = "restoreDb"
    /\ LET db == snap[job[p].key].db
       IN  root' = [root EXCEPT !.db = db, !.ino = @ + 1,
                                !.reverted = @ \/ db = root.meta]
    /\ Go(p, "restoreMeta")
    /\ UNCHANGED <<head, side, snap, lock, cache, bounds, contradicted>>

\* A copy renamed over meta.json: a marker no file had before
RestoreMeta(p) ==
    /\ job[p].pc = "restoreMeta"
    /\ root' = [root EXCEPT !.meta = snap[job[p].key].meta, !.mark = @ + 1,
                            !.reverted = FALSE]
    /\ job' = [q \in Procs |->
                 IF q = p THEN [job[q] EXCEPT !.pc = "restoreRest"]
                 ELSE [job[q] EXCEPT !.overlapped = @ \/ job[q].pc \in PastCheck]]
    /\ UNCHANGED <<head, side, snap, lock, cache, bounds, contradicted>>

RestoreRest(p) ==
    /\ job[p].pc = "restoreRest"
    /\ root' = [root EXCEPT !.rest = snap[job[p].key].rest]
    /\ Go(p, "restoreSide")
    /\ UNCHANGED <<head, side, snap, lock, cache, bounds, contradicted>>

\* branch.json names `key`; the history notes it when that is another branch
StampSide(p, key, pc) ==
    /\ side' = key
    /\ contradicted' = (contradicted \/ side # key)
    /\ job' = [q \in Procs |->
                 IF q = p THEN [job[q] EXCEPT !.pc = pc]
                 ELSE [job[q] EXCEPT !.undone = @ \/ (job[q].pc = "done" /\ side # key)]]

\* branch.json is the last to follow
RestoreSide(p) ==
    /\ job[p].pc = "restoreSide"
    /\ lock' = None
    /\ StampSide(p, job[p].key, "done")
    /\ UNCHANGED <<head, root, snap, cache, bounds>>

\* Reading, copying or renaming fails; on Windows an open handle is enough
ReconcileFails(p) ==
    /\ job[p].pc \in Restoring \cup {"lock"} /\ fails < MaxFails
    /\ fails' = fails + 1
    /\ lock' = IF lock = p THEN None ELSE lock
    /\ job' = [job EXCEPT ![p].pc = "done", ![p].out = "err"]
    /\ UNCHANGED <<head, root, side, snap, cache, runs, moves, contradicted>>

\* What the daemon remembers of the outcome
Settle(t) ==
    /\ job[t].pc = "done"
    /\ LET out == job[t].out
       IN  /\ tomb' = CASE out = "ok" -> None
                        [] out = "outgoing" -> [from |-> job[t].from, to |-> job[t].key]
                        [] out = "err" -> tomb
           /\ cooling' = (out = "err")
           /\ contradicted' = IF out = "outgoing" THEN job[t].undone ELSE contradicted
    /\ gate' = None
    /\ job' = [job EXCEPT ![t] = [Idle EXCEPT !.pc = "key", !.overlapped = HalfRestored]]
    /\ UNCHANGED <<project, entries, flight, bounds>>

\* Mutated form of CoolDown: the failed attempt is never forgotten
CoolDownNever ==
    /\ cooling
    /\ UNCHANGED vars

\* RECONCILE_RETRY_COOLDOWN has passed
CoolDown ==
    /\ cooling
    /\ cooling' = FALSE
    /\ UNCHANGED <<project, entries, gate, tomb, flight, job, bounds, contradicted>>

-----------------------------------------------------------------------------
(* get, after the reconcile: key, marker, lookup, flight, open, insert.    *)

ReadKey(t) ==
    /\ job[t].pc = "key"
    /\ job' = [job EXCEPT ![t].pc = "marker", ![t].key = head]
    /\ UNCHANGED <<project, cache, bounds, contradicted>>

ReadMarker(t) ==
    /\ job[t].pc = "marker"
    /\ job' = [job EXCEPT ![t].pc = "lookup", ![t].mark = root.mark]
    /\ UNCHANGED <<project, cache, bounds, contradicted>>

\* A hit has the marker the request read; an entry with another one is removed
Hit(t) == entries[job[t].key] # None /\ entries[job[t].key].mark = job[t].mark
Without(t) == [entries EXCEPT ![job[t].key] = None]

Lookup(t) ==
    /\ job[t].pc = "lookup"
    /\ IF Hit(t)
       THEN job' = [job EXCEPT ![t] = Idle] /\ UNCHANGED entries
       ELSE Go(t, "flight") /\ entries' = Without(t)
    /\ UNCHANGED <<project, gate, tomb, cooling, flight, bounds, contradicted>>

Resident(es) == {b \in Branches : es[b] # None}

\* evict_lru_locked: down to one below the cap.  Which entry is the least recently
\* used is left open.
Evicted(es) ==
    LET over == Cardinality(Resident(es)) - (MaxCached - 1)
    IN  IF Cardinality(Resident(es)) < MaxCached THEN {es}
        ELSE {[b \in Branches |-> IF b \in out THEN None ELSE es[b]] :
                out \in {s \in SUBSET Resident(es) : Cardinality(s) = over}}

\* Mutated form of TakeFlight: the winner's entry is not looked for
TakeFlightBlindly(t) ==
    /\ job[t].pc = "flight" /\ flight[job[t].key] = None
    /\ entries' \in Evicted(entries)
    /\ flight' = [flight EXCEPT ![job[t].key] = t]
    /\ Go(t, "openDb")
    /\ UNCHANGED <<project, gate, tomb, cooling, bounds, contradicted>>

\* One thread per key opens; the others find its entry when their turn comes
TakeFlight(t) ==
    /\ job[t].pc = "flight" /\ flight[job[t].key] = None
    /\ IF Hit(t)
       THEN job' = [job EXCEPT ![t] = Idle] /\ UNCHANGED <<entries, flight>>
       ELSE /\ entries' \in Evicted(Without(t))
            /\ flight' = [flight EXCEPT ![job[t].key] = t]
            /\ Go(t, "openDb")
    /\ UNCHANGED <<project, gate, tomb, cooling, bounds, contradicted>>

OpenDb(t) ==
    /\ job[t].pc = "openDb"
    /\ job' = [job EXCEPT ![t].pc = "openRest", ![t].ino = root.ino]
    /\ UNCHANGED <<project, cache, bounds, contradicted>>

OpenRest(t) ==
    /\ job[t].pc = "openRest"
    /\ job' = [job EXCEPT ![t].pc = "insert", ![t].rest = root.rest]
    /\ UNCHANGED <<project, cache, bounds, contradicted>>

Landed(t) == flight' = [flight EXCEPT ![job[t].key] = None]

\* The index cannot be opened at this moment: the request gets the error
OpenFails(t) ==
    /\ job[t].pc \in {"openDb", "openRest"}
    /\ lock # None \/ fails > 0
    /\ Landed(t)
    /\ job' = [job EXCEPT ![t] = Idle]
    /\ UNCHANGED <<project, entries, gate, tomb, cooling, bounds, contradicted>>

\* Mutated form of Insert: no second eviction after the open
InsertOnly(t) ==
    /\ job[t].pc = "insert"
    /\ entries' = [entries EXCEPT ![job[t].key] =
                     [mark |-> job[t].mark, ino |-> job[t].ino, rest |-> job[t].rest,
                      overlapped |-> job[t].overlapped]]
    /\ Landed(t)
    /\ job' = [job EXCEPT ![t] = Idle]
    /\ UNCHANGED <<project, gate, tomb, cooling, bounds, contradicted>>

\* Mutated form of Insert: the marker is taken once the searcher is open
InsertThenMark(t) ==
    /\ job[t].pc = "insert"
    /\ \E es \in Evicted(entries) :
          entries' = [es EXCEPT ![job[t].key] =
                        [mark |-> root.mark, ino |-> job[t].ino, rest |-> job[t].rest,
                         overlapped |-> job[t].overlapped]]
    /\ Landed(t)
    /\ job' = [job EXCEPT ![t] = Idle]
    /\ UNCHANGED <<project, gate, tomb, cooling, bounds, contradicted>>

\* Racers on other keys may have filled the map: evict once more, then insert
Insert(t) ==
    /\ job[t].pc = "insert"
    /\ \E es \in Evicted(entries) :
          entries' = [es EXCEPT ![job[t].key] =
                        [mark |-> job[t].mark, ino |-> job[t].ino, rest |-> job[t].rest,
                         overlapped |-> job[t].overlapped]]
    /\ Landed(t)
    /\ job' = [job EXCEPT ![t] = Idle]
    /\ UNCHANGED <<project, gate, tomb, cooling, bounds, contradicted>>

\* invalidate_project: `semantex watch` after a build of its own
Invalidate ==
    /\ runs > 0 /\ entries # [b \in Branches |-> None]
    /\ entries' = [b \in Branches |-> None]
    /\ UNCHANGED <<project, gate, tomb, cooling, flight, job, bounds, contradicted>>

-----------------------------------------------------------------------------
(* The other process, and the user.                                        *)

\* A run handles a pending switch, then builds, whatever came of it
CliStart ==
    /\ job[Cli].pc = "idle" /\ runs < MaxRuns
    /\ runs' = runs + 1
    /\ job' = [job EXCEPT ![Cli] = [Idle EXCEPT !.pc = IF Pending THEN "lock" ELSE "build",
                                                !.key = head]]
    /\ UNCHANGED <<project, cache, moves, fails, contradicted>>

CliBuild ==
    /\ job[Cli].pc = "build" \/ job[Cli].pc = "done"
    /\ lock = None
    /\ lock' = Cli
    /\ \/ job' = [job EXCEPT ![Cli] = [Idle EXCEPT !.pc = "buildDb"]]
       \/ /\ root.db.branch = head
          /\ job' = [job EXCEPT ![Cli] = [Idle EXCEPT !.pc = "mirror"]]
    /\ UNCHANGED <<head, root, side, snap, cache, bounds, contradicted>>

BuildDb ==
    /\ job[Cli].pc = "buildDb"
    /\ root' = [root EXCEPT !.db = [n |-> runs, branch |-> head]]
    /\ Go(Cli, "buildRest")
    /\ UNCHANGED <<head, side, snap, lock, cache, bounds, contradicted>>

BuildRest ==
    /\ job[Cli].pc = "buildRest"
    /\ root' = [root EXCEPT !.rest = root.db]
    /\ Go(Cli, "buildMeta")
    /\ UNCHANGED <<head, side, snap, lock, cache, bounds, contradicted>>

BuildMeta ==
    /\ job[Cli].pc = "buildMeta"
    /\ root' = [root EXCEPT !.meta = root.db, !.mark = @ + 1, !.reverted = FALSE]
    /\ Go(Cli, "mirror")
    /\ UNCHANGED <<head, side, snap, lock, cache, bounds, contradicted>>

\* mirror_into_branch_dir, with its branch.json
BuildMirror ==
    /\ job[Cli].pc = "mirror"
    /\ snap' = [snap EXCEPT ![head] = [db |-> root.db, rest |-> root.rest, meta |-> root.meta]]
    /\ StampSide(Cli, head, "sync")
    /\ UNCHANGED <<head, root, lock, cache, bounds>>

\* sync_v13_layout writes meta.json once more
BuildSync ==
    /\ job[Cli].pc = "sync"
    /\ root' = [root EXCEPT !.mark = @ + 1, !.reverted = FALSE]
    /\ lock' = None
    /\ job' = [job EXCEPT ![Cli] = Idle]
    /\ UNCHANGED <<head, side, snap, cache, bounds, contradicted>>

BuildDies ==
    /\ job[Cli].pc \in Building /\ fails < MaxFails
    /\ fails' = fails + 1
    /\ lock' = None
    /\ job' = [job EXCEPT ![Cli] = Idle]
    /\ UNCHANGED <<head, root, side, snap, cache, runs, moves, contradicted>>

\* HEAD that moves under a running build is BranchLayout's subject
Checkout ==
    /\ moves < MaxMoves
    /\ job[Cli].pc \notin Building
    /\ head' \in Branches \ {head}
    /\ moves' = moves + 1
    /\ UNCHANGED <<root, side, snap, lock, cache, job, runs, fails, contradicted>>

Request(t) ==
    \/ Check(t) \/ TakeGate(t) \/ Settle(t) \/ ReadKey(t) \/ ReadMarker(t) \/ Lookup(t)
    \/ TakeFlight(t) \/ OpenDb(t) \/ OpenRest(t) \/ OpenFails(t) \/ Insert(t)

Switch(p) ==
    \/ Reconcile(p) \/ RestoreDb(p) \/ RestoreMeta(p) \/ RestoreRest(p) \/ RestoreSide(p)

Build == CliBuild \/ BuildDb \/ BuildRest \/ BuildMeta \/ BuildMirror \/ BuildSync

Next ==
    \/ \E t \in Threads : Request(t)
    \/ \E p \in Procs : Switch(p) \/ ReconcileFails(p)
    \/ CoolDown \/ Invalidate
    \/ CliStart \/ Build \/ BuildDies \/ Checkout

\* Threads run, the other process finishes the build it is in, time passes, and
\* clients keep asking (an idle thread takes the next request).  Nothing makes the
\* user move HEAD or run the other process, and nothing has to fail.
Fairness ==
    /\ \A t \in Threads : WF_vars(Request(t))
    /\ \A p \in Procs : WF_vars(Switch(p))
    /\ WF_vars(Build)
    /\ WF_vars(CoolDown)

Spec == Init /\ [][Next]_vars /\ Fairness

-----------------------------------------------------------------------------
(* Properties.                                                             *)

Coherent == root.db = root.rest /\ root.rest = root.meta

Fresh(b) == entries[b] # None /\ entries[b].mark = root.mark

\* A cached searcher whose marker is that of meta.json has the live index open, all
\* of it, whenever the parts of the live index are of one build: a build beneath the
\* open, at any moment of it, changes the marker after everything else.  There are two
\* exceptions.  A restore that swapped meta.json in while the request was under way
\* may leave an entry that mixes two branches (restore_branch_dir_into_root swaps
\* dense/ and sparse/ after it).  And a searcher opened over a restore that died behind
\* chunks.db comes back into favour when another one that dies there brings back the
\* chunks.db of before.
FreshEntriesAreLive ==
    Coherent /\ ~root.reverted =>
        \A b \in Branches : Fresh(b) /\ ~entries[b].overlapped =>
            entries[b].ino = root.ino /\ entries[b].rest = root.rest

\* Racing requests on any keys never leave more searchers resident than the cap.
CapHolds == Cardinality(Resident(entries)) <= MaxCached

\* A request never starts, or goes on with, the open of a searcher that the cache
\* holds under its key and marker: the racers reuse what the first one opened.
OpensAreShared == [][\A t \in Threads : job'[t].pc \in Opening => ~Hit(t)]_vars

\* While branch.json has named no other branch since the daemon recorded that it
\* saved the outgoing branch, HEAD's branch has no snapshot: a switch is passed
\* over only when there is nothing to restore.
TombstonesAreHonest == Tombstoned /\ ~contradicted => snap[head] = None

\* A switch to a branch that has a snapshot is handled in the end, whatever failed
\* on the way: the cooldown that follows a failed restore only delays the next
\* attempt.
SwitchesAreHandled ==
    Pending /\ snap[head] # None ~> ~Pending \/ snap[head] = None \/ Tombstoned

-----------------------------------------------------------------------------
(* What makes CapHolds, OpensAreShared and TombstonesAreHonest inductive.  *)

Keyed == Phases \ ({"idle", "gate", "key", "build"} \cup Building)

\* What process p may rely on at its next step: the lock it holds, the snapshot
\* it restores, the outgoing branch it is about to record, the key it opens
JobOK(p) ==
    /\ job[p].pc \in Restoring => lock = p /\ snap[job[p].key] # None /\ job[p].out = "ok"
    /\ job[p].pc \in Building => p = Cli /\ lock = p
    /\ job[p].pc \in Keyed => job[p].key \in Branches
    /\ job[p].pc = "insert" => job[p].rest \in Versions
    /\ job[p].pc = "done" => job[p].out \in {"ok", "outgoing", "err"}
    /\ job[p].pc = "done" /\ job[p].out = "outgoing" =>
          /\ job[p].from \in Branches \ {job[p].key}
          /\ ~job[p].undone => side = job[p].from /\ snap[job[p].key] = None
    /\ p \in Threads /\ job[p].pc \in Opening =>
          flight[job[p].key] = p /\ entries[job[p].key] = None

\* A tombstone that no build or restore has overtaken is of the pending switch
TombOK ==
    tomb # None /\ ~contradicted =>
        side = tomb.from /\ tomb.from # tomb.to /\ snap[tomb.to] = None

IInv == TypeOK /\ CapHolds /\ TombOK /\ \A p \in Procs : JobOK(p)

=============================================================================
