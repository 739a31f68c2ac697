---------------------------- MODULE BranchLayout ---------------------------
(***************************************************************************)
(* One project's live index and its per-branch snapshots                   *)
(* (index/layout.rs, index/branches.rs).  The root of .semantex/ holds the *)
(* live index; branch.json beside it says whose it is; indexes/<key>/      *)
(* holds a snapshot of every branch visited.  A process that finds HEAD on *)
(* another branch restores that branch's snapshot into the root, file by   *)
(* file, or saves the outgoing one; then it runs an incremental build,     *)
(* which ends by mirroring the root.  All of it happens under the project  *)
(* lock; the retention pass that follows a build does not.                 *)
(*                                                                         *)
(* A part of an index is written as the build it is of: its number, and    *)
(* the branch and commit it indexed.  Parts of two builds do not go        *)
(* together: their chunk ids differ.  The inside of a build is IndexBuild; *)
(* here it may only die between two parts.  A commit stands for the edits  *)
(* that it commits.                                                        *)
(***************************************************************************)
EXTENDS Naturals, Sequences, FiniteSets

CONSTANTS
    Branches,   \* branch keys
    MaxCommit,  \* bound on the commits made on a branch
    MaxBuild,   \* bound on the builds that index something new
    Cap,        \* max_branch_indexes()
    Faults,     \* what may die or fail midway: "restore", "build", "mirror"
    None, Broken

ASSUME CapAssumption == Cap \in Nat \ {0}
ASSUME FaultsAssumption == Faults \subseteq {"restore", "build", "mirror"}
ASSUME BoundsAssumption == {MaxCommit, MaxBuild} \subseteq Nat

VARIABLES
    head,       \* the branch HEAD is on
    commit,     \* the last commit of every branch
    root,       \* the parts of the live index
    side,       \* the root's branch.json
    snap,       \* the snapshots, each with its branch.json
    builds,     \* number of builds that indexed something new
    worker,     \* the process under, or waiting for, the project lock
    gc,         \* the retention pass of the build before
    moved,      \* history: HEAD changed while a build ran
    blessed,    \* history: a build ran over a root of two builds
    dropped,    \* history: branches whose snapshot was evicted, or whose mirror died
                \* once the old one was removed, until it is mirrored as it should be
    failed      \* history: a build died or failed before its last write

tree == <<head, commit>>
disk == <<root, side, snap, builds>>
history == <<moved, blessed, dropped, failed>>
vars == <<tree, disk, worker, gc, history>>

\* The order in which restore_branch_dir_into_root swaps the parts in
Parts == <<"db", "meta", "dense", "sparse">>
PartNames == {"db", "meta", "dense", "sparse"}

Builds == [n : 1 .. MaxBuild, branch : Branches, commit : 0 .. MaxCommit]
Label(b) == [key |-> b, commit |-> commit[b]]
Labels == [key : Branches, commit : 0 .. MaxCommit]
Indexes == [PartNames -> Builds \cup {None, Broken}]

\* A snapshot with its branch.json
Snapshots == [parts : Indexes, label : Labels]

ASSUME NoneAssumption == None \notin Branches \cup Builds \cup Labels \cup Snapshots \cup {Broken}
ASSUME BrokenAssumption == Broken \notin Builds

Nothing == [p \in PartNames |-> None]
Free == [pc |-> "idle", key |-> None, at |-> 0, label |-> None, tree |-> None, build |-> FALSE]

Coherent(index) == \A p \in PartNames : index[p] = index["db"]

TypeOK ==
    /\ head \in Branches
    /\ commit \in [Branches -> 0 .. MaxCommit]
    /\ root \in Indexes
    /\ root["db"] # Broken
    /\ side \in Labels \cup {None}
    /\ snap \in [Branches -> Snapshots \cup {None}]
    /\ \A b \in Branches : snap[b] # None => snap[b].label.key = b /\ snap[b].parts["db"] # None
    /\ builds \in 0 .. MaxBuild
    /\ worker \in [pc : {"idle", "waiting", "restoring", "indexing", "mirroring", "swapping",
                         "stamping"},
                   key : Branches \cup {None}, at : 0 .. 4, label : Labels \cup {None},
                   tree : Labels \cup {None}, build : BOOLEAN]
    /\ gc \in [pc : {"idle", "due", "evicting"}, keep : SUBSET Branches]
    /\ {moved, blessed, failed} \subseteq BOOLEAN
    /\ dropped \in SUBSET Branches

Init ==
    /\ head \in Branches
    /\ commit = [b \in Branches |-> 0]
    /\ root = Nothing
    /\ side = None
    /\ snap = [b \in Branches |-> None]
    /\ builds = 0
    /\ worker = Free
    /\ gc = [pc |-> "idle", keep |-> {}]
    /\ moved = FALSE
    /\ blessed = FALSE
    /\ dropped = {}
    /\ failed = FALSE

-----------------------------------------------------------------------------
(* detect_and_handle_branch_switch.                                        *)

\* The lock-free check: HEAD is read here, and not again under the lock
Detect ==
    /\ worker.pc = "idle"
    /\ side # None
    /\ side.key # head
    /\ worker' = [Free EXCEPT !.pc = "waiting", !.key = head]
    /\ UNCHANGED <<tree, disk, gc, history>>

\* The outgoing branch's snapshot is of the commit the root is of
OutgoingCurrent == snap[side.key] # None /\ snap[side.key].label.commit = side.commit

\* Mutated form of Reconcile: the outgoing root is always mirrored
ReconcileAlwaysMirrors ==
    /\ worker.pc = "waiting"
    /\ worker' = IF side.key = worker.key THEN Free
                 ELSE IF snap[worker.key] # None
                      THEN [worker EXCEPT !.pc = "restoring", !.at = 1]
                 ELSE [worker EXCEPT !.pc = "mirroring", !.label = side]
    /\ UNCHANGED <<tree, disk, gc, history>>

\* Mutated form of Reconcile: the outgoing root is labelled from HEAD
ReconcileLabelsHead ==
    /\ worker.pc = "waiting"
    /\ worker' = IF side.key = worker.key THEN Free
                 ELSE IF snap[worker.key] # None
                      THEN [worker EXCEPT !.pc = "restoring", !.at = 1]
                 ELSE IF OutgoingCurrent THEN Free
                 ELSE [worker EXCEPT !.pc = "mirroring", !.label = Label(head)]
    /\ UNCHANGED <<tree, disk, gc, history>>

\* Under the lock: the switch is looked at again, then handled
Reconcile ==
    /\ worker.pc = "waiting"
    /\ worker' = IF side.key = worker.key THEN Free
                 ELSE IF snap[worker.key] # None
                      THEN [worker EXCEPT !.pc = "restoring", !.at = 1]
                 ELSE IF OutgoingCurrent THEN Free
                 ELSE [worker EXCEPT !.pc = "mirroring", !.label = side]
    /\ UNCHANGED <<tree, disk, gc, history>>

\* Mutated form of RestorePart: branch.json is stamped before the parts
StampRestoredFirst ==
    /\ worker.pc = "restoring" /\ worker.at \in 1 .. 4
    /\ root' = [root EXCEPT ![Parts[worker.at]] =
                    IF snap[worker.key] = None THEN @ ELSE snap[worker.key].parts[Parts[worker.at]]]
    /\ side' = IF snap[worker.key] = None THEN side ELSE snap[worker.key].label
    /\ worker' = [worker EXCEPT !.at = IF worker.at = 4 THEN 0 ELSE @ + 1]
    /\ UNCHANGED <<tree, snap, builds, gc, history>>

\* One part of the snapshot takes the place of the root's.  A part the snapshot
\* lacks is removed from the root, except chunks.db, without which it gives up.
RestorePart ==
    /\ worker.pc = "restoring" /\ worker.at \in 1 .. 4
    /\ LET part == Parts[worker.at]
           gone == snap[worker.key] = None
       IN  /\ root' = IF gone
                      THEN [root EXCEPT ![part] = IF part = "db" THEN @ ELSE None]
                      ELSE [root EXCEPT ![part] = snap[worker.key].parts[part]]
           /\ worker' = IF gone /\ part = "db" THEN Free
                        ELSE [worker EXCEPT !.at = IF worker.at = 4 THEN 0 ELSE @ + 1]
    /\ UNCHANGED <<tree, side, snap, builds, gc, history>>

\* The root's branch.json follows the parts
StampRestored ==
    /\ worker.pc = "restoring" /\ worker.at = 0
    /\ side' = IF snap[worker.key] = None THEN side ELSE snap[worker.key].label
    /\ worker' = Free
    /\ UNCHANGED <<tree, root, snap, builds, gc, history>>

-----------------------------------------------------------------------------
(* The incremental build and the mirror that ends it.                      *)

StartBuild ==
    /\ worker.pc = "idle"
    /\ worker' = [Free EXCEPT !.pc = "indexing", !.tree = Label(head), !.build = TRUE]
    /\ blessed' = (blessed \/ ~Coherent(root))
    /\ UNCHANGED <<tree, disk, gc, moved, dropped, failed>>

NoChanges ==
    root["db"] # None /\ [key |-> root["db"].branch, commit |-> root["db"].commit] = worker.tree

New == IF NoChanges THEN root["db"]
       ELSE [n |-> builds + 1, branch |-> worker.tree.key, commit |-> worker.tree.commit]

\* The root once the build has written some of its parts.  With nothing to do
\* and a dense store in place it returns early; a missing dense store is built
\* in full, and meta.json is written anew; the others are given the changes,
\* which only a part that goes with chunks.db can take.
Written(parts) ==
    LET after(p) == IF p = "db" \/ p = "meta" \/ (p = "dense" /\ root[p] = None) THEN New
                    ELSE IF NoChanges THEN root[p]
                    ELSE IF root[p] = root["db"] THEN New
                    ELSE Broken
    IN  IF NoChanges /\ root["dense"] # None THEN root
        ELSE [p \in PartNames |-> IF p \in parts THEN after(p) ELSE root[p]]

MayIndex == worker.pc = "indexing" /\ (NoChanges \/ builds < MaxBuild)

FinishBuild ==
    /\ MayIndex
    /\ root' = Written(PartNames)
    /\ builds' = IF NoChanges THEN builds ELSE builds + 1
    /\ worker' = [worker EXCEPT !.pc = "mirroring", !.label = Label(head)]
    /\ UNCHANGED <<tree, side, snap, gc, history>>

\* mirror_root_as: the copy is made in a directory of its own, the old
\* snapshot is removed
RemoveMirror ==
    /\ worker.pc = "mirroring"
    /\ snap' = [snap EXCEPT ![worker.label.key] = None]
    /\ worker' = [worker EXCEPT !.pc = "swapping"]
    /\ UNCHANGED <<tree, root, side, builds, gc, history>>

\* The copy is renamed into place
SwapMirror ==
    /\ worker.pc = "swapping"
    /\ snap' = [snap EXCEPT ![worker.label.key] = [parts |-> root, label |-> worker.label]]
    /\ worker' = [worker EXCEPT !.pc = "stamping"]
    /\ UNCHANGED <<tree, root, side, builds, gc, history>>

AfterBuild == IF worker.build /\ gc.pc = "idle" THEN [gc EXCEPT !.pc = "due"] ELSE gc

\* The root's branch.json; a build then owes a retention pass
StampMirror ==
    /\ worker.pc = "stamping"
    /\ side' = worker.label
    /\ gc' = AfterBuild
    /\ worker' = Free
    /\ dropped' = IF snap[side'.key] # None /\ Coherent(root) /\ root["db"].branch = side'.key
                  THEN dropped \ {worker.label.key} ELSE dropped
    /\ UNCHANGED <<tree, root, snap, builds, moved, blessed, failed>>

-----------------------------------------------------------------------------
(* The retention pass, which takes no lock.                                *)

Saved == {b \in Branches : snap[b] # None}

\* Keep HEAD's branch and the newest of the others up to the cap; which ones
\* are newest is left open
ScanRetention ==
    /\ gc.pc = "due"
    /\ IF Cardinality(Saved) <= Cap
       THEN gc' = [gc EXCEPT !.pc = "idle"]
       ELSE \E keep \in SUBSET (Saved \cup {head}) :
               /\ head \in keep /\ Cardinality(keep) = Cap
               /\ gc' = [pc |-> "evicting", keep |-> keep \cup (Branches \ Saved)]
    /\ UNCHANGED <<tree, disk, worker, history>>

\* remove_dir_all of one directory after the other; it gives up at one that is
\* no longer there
Evict ==
    /\ gc.pc = "evicting"
    /\ IF gc.keep = Branches
       THEN gc' = [pc |-> "idle", keep |-> {}] /\ UNCHANGED <<snap, dropped>>
       ELSE \E b \in Branches \ gc.keep :
               /\ snap' = [snap EXCEPT ![b] = None]
               /\ dropped' = IF snap[b] = None THEN dropped ELSE dropped \cup {b}
               /\ gc' = IF snap[b] = None THEN [pc |-> "idle", keep |-> {}]
                        ELSE [gc EXCEPT !.keep = @ \cup {b}]
    /\ UNCHANGED <<tree, root, side, builds, worker, moved, blessed, failed>>

-----------------------------------------------------------------------------
(* The user, and processes that die.                                       *)

NoteMove == moved' = (moved \/ worker.build)

Checkout ==
    /\ head' \in Branches \ {head}
    /\ NoteMove
    /\ UNCHANGED <<commit, disk, worker, gc, blessed, dropped, failed>>

Commit ==
    /\ commit[head] < MaxCommit
    /\ commit' = [commit EXCEPT ![head] = @ + 1]
    /\ NoteMove
    /\ UNCHANGED <<head, disk, worker, gc, blessed, dropped, failed>>

\* The process dies, or an error ends what it does and it goes on to what
\* follows.  dense/ and sparse/ are removed before they are replaced.
InterruptRestore ==
    /\ "restore" \in Faults
    /\ worker.pc = "restoring"
    /\ root' \in {root} \cup
          (IF worker.at \in {3, 4} THEN {[root EXCEPT ![Parts[worker.at]] = None]} ELSE {})
    /\ worker' = Free
    /\ UNCHANGED <<tree, side, snap, builds, gc, history>>

InterruptBuild ==
    /\ "build" \in Faults
    /\ MayIndex
    /\ \E parts \in {{}, {"db"}, {"db", "sparse"}, {"db", "sparse", "dense"}} :
          /\ root' = Written(parts)
          /\ builds' = IF NoChanges \/ parts = {} THEN builds ELSE builds + 1
    /\ worker' = Free
    /\ failed' = TRUE
    /\ UNCHANGED <<tree, side, snap, gc, moved, blessed, dropped>>

InterruptMirror ==
    /\ "mirror" \in Faults
    /\ worker.pc \in {"mirroring", "swapping", "stamping"}
    /\ gc' \in {gc, AfterBuild}
    /\ dropped' = IF worker.pc = "mirroring" THEN dropped ELSE dropped \cup {worker.label.key}
    /\ failed' = (failed \/ worker.build)
    /\ worker' = Free
    /\ UNCHANGED <<tree, disk, moved, blessed>>

Next ==
    \/ Detect \/ Reconcile \/ RestorePart \/ StampRestored
    \/ StartBuild \/ FinishBuild \/ RemoveMirror \/ SwapMirror \/ StampMirror
    \/ ScanRetention \/ Evict
    \/ Checkout \/ Commit
    \/ InterruptRestore \/ InterruptBuild \/ InterruptMirror

Spec == Init /\ [][Next]_vars

-----------------------------------------------------------------------------
(* Properties.                                                             *)

\* No snapshot is ever a mix of two builds, whatever dies and whenever, as
\* long as no build ran over a mixed root and its snapshot was not lost before: a
\* root left mixed by a restore or a build that died is not saved over the clean
\* snapshot of its branch (branches.rs, outgoing_snapshot_current).
SnapshotsWhole ==
    ~blessed => \A b \in Branches \ dropped : snap[b] # None => Coherent(snap[b].parts)

\* When the root's branch.json names the branch and commit of its chunks.db,
\* the other parts go with that chunks.db: a restore writes it last, so it never
\* vouches for a root that a restore left mixed (a build that died may: HEAD can
\* come back to the branch it had left).
SidecarVouches ==
    ~blessed /\ ~moved /\ ~failed /\ dropped = {} /\ worker.pc = "idle" /\ side # None
       /\ side = [key |-> root["db"].branch, commit |-> root["db"].commit]
    => Coherent(root)

\* A snapshot is of the branch it is filed under, though by the time the outgoing
\* branch is saved HEAD is on another: the label comes from branch.json.
SnapshotsLabelled ==
    ~moved => \A b \in Branches \ dropped : snap[b] # None => snap[b].parts["db"].branch = b

=============================================================================
