-------------------------- MODULE BranchLayoutProofs -------------------------
(***************************************************************************)
(* For any number of branches, commits and builds and any retention cap:   *)
(* types, no snapshot that mixes two builds or is filed under another      *)
(* branch, and no branch.json that vouches for a mixed root.               *)
(***************************************************************************)
EXTENDS BranchLayout, TLAPS

Saving == {"mirroring", "swapping", "stamping"}
WorkerType == [pc : {"idle", "waiting", "restoring", "indexing"} \cup Saving,
               key : Branches \cup {None}, at : 0 .. 4, label : Labels \cup {None},
               tree : Labels \cup {None}, build : BOOLEAN]

\* What a step of the worker finds in place
Placed ==
    /\ side # None => root["db"] # None
    /\ worker.pc \in {"waiting", "restoring"} => worker.key \in Branches /\ side # None /\ ~worker.build
    /\ worker.pc = "indexing" => worker.tree \in Labels /\ worker.build
    /\ worker.pc \in Saving => worker.label \in Labels /\ root["db"] # None
    /\ \A b \in Branches : snap[b] # None => snap[b].parts["db"] # Broken

TypeInv == TypeOK /\ Placed

-----------------------------------------------------------------------------
(* The pieces.                                                             *)

LEMMA PartsAre == /\ Parts[1] = "db" /\ Parts[2] = "meta" /\ Parts[3] = "dense" /\ Parts[4] = "sparse"
                  /\ \A i \in 1 .. 4 : Parts[i] \in PartNames
<1>1. Parts[1] = "db" /\ Parts[2] = "meta" /\ Parts[3] = "dense" /\ Parts[4] = "sparse"
  BY DEF Parts
<1>2. \A i \in 1 .. 4 : i = 1 \/ i = 2 \/ i = 3 \/ i = 4
  OBVIOUS
<1>. QED
  BY <1>1, <1>2 DEF PartNames

LEMMA LabelType == ASSUME TypeOK, NEW b \in Branches
                   PROVE  Label(b) \in Labels /\ Label(b).key = b /\ Label(b) # None
<1>1. commit[b] \in 0 .. MaxCommit
  BY DEF TypeOK
<1>2. Label(b) \in Labels
  BY <1>1 DEF Label, Labels
<1>. QED
  BY <1>2, NoneAssumption DEF Label

LEMMA FreeType == /\ Free \in WorkerType /\ Free.pc = "idle" /\ Free.build = FALSE
  BY DEF Free, WorkerType

LEMMA SnapType == ASSUME TypeOK, NEW b \in Branches, snap[b] # None
                  PROVE  /\ snap[b] \in Snapshots /\ snap[b].parts \in Indexes /\ snap[b].label \in Labels
                         /\ snap[b].label.key = b /\ snap[b].parts["db"] # None /\ snap[b].label # None
<1>1. snap[b] \in Snapshots
  BY DEF TypeOK
<1>. QED
  BY <1>1, NoneAssumption DEF TypeOK, Snapshots

LEMMA NewType == ASSUME TypeInv, MayIndex PROVE New \in Builds /\ New # None /\ New # Broken
<1>1. CASE NoChanges
  <2>1. root["db"] \in Builds \cup {None, Broken} /\ root["db"] # None /\ root["db"] # Broken
    BY <1>1 DEF TypeInv, TypeOK, Indexes, PartNames, NoChanges
  <2>. QED
    BY <1>1, <2>1 DEF New
<1>2. CASE ~NoChanges
  <2>1. builds \in 0 .. MaxBuild /\ builds < MaxBuild /\ MaxBuild \in Nat
    BY <1>2, BoundsAssumption DEF TypeInv, TypeOK, MayIndex
  <2>2. builds + 1 \in 1 .. MaxBuild
    BY <2>1
  <2>3. worker.tree \in Labels
    BY DEF TypeInv, Placed, MayIndex
  <2>4. New \in Builds
    BY <1>2, <2>2, <2>3 DEF New, Labels, Builds
  <2>. QED
    BY <2>4, NoneAssumption, BrokenAssumption
<1>. QED
  BY <1>1, <1>2

LEMMA WrittenType == ASSUME TypeInv, MayIndex, NEW parts \in SUBSET PartNames
                     PROVE  /\ Written(parts) \in Indexes
                            /\ Written(parts)["db"] \in {root["db"], New}
                            /\ parts = PartNames => Written(parts)["db"] = New
                            /\ Written(parts)["db"] # Broken
<1>1. root \in Indexes /\ root["db"] # Broken
  BY DEF TypeInv, TypeOK
<1>2. New \in Builds /\ New # None /\ New # Broken
  BY NewType
<1>3. "db" \in PartNames
  BY DEF PartNames
<1>4. CASE NoChanges /\ root["dense"] # None
  BY <1>1, <1>2, <1>4 DEF Written, New
<1>5. CASE ~(NoChanges /\ root["dense"] # None)
  <2>1. Written(parts) \in Indexes
    BY <1>1, <1>2, <1>5 DEF Written, Indexes
  <2>2. Written(parts)["db"] = IF "db" \in parts THEN New ELSE root["db"]
    BY <1>1, <1>3, <1>5 DEF Written
  <2>. QED
    BY <1>1, <1>2, <1>3, <2>1, <2>2
<1>. QED
  BY <1>4, <1>5

-----------------------------------------------------------------------------
(* Types.                                                                  *)

LEMMA TypeInit == Init => TypeInv
<1> SUFFICES ASSUME Init PROVE TypeInv OBVIOUS
<1>1. Nothing \in Indexes /\ \A p \in PartNames : Nothing[p] = None
  BY DEF Nothing, Indexes
<1>2. root = Nothing /\ root["db"] = None
  BY <1>1 DEF Init, PartNames
<1>3. commit \in [Branches -> 0 .. MaxCommit] /\ builds \in 0 .. MaxBuild
  BY BoundsAssumption DEF Init
<1>4. None # Broken
  BY NoneAssumption
<1>. QED
  BY <1>1, <1>2, <1>3, <1>4, FreeType
     DEF Init, TypeInv, TypeOK, Placed, WorkerType, Saving

\* A step of the worker over the same disk
LEMMA TypeWorker == ASSUME TypeInv, UNCHANGED <<tree, disk>>, gc' = gc \/ gc' = AfterBuild,
                           UNCHANGED <<moved, dropped>>, {blessed', failed'} \subseteq BOOLEAN,
                           worker' \in WorkerType, Placed'
                    PROVE  TypeInv'
<1>1. gc' \in [pc : {"idle", "due", "evicting"}, keep : SUBSET Branches]
  BY DEF TypeInv, TypeOK, AfterBuild
<1>. QED
  BY <1>1 DEF TypeInv, TypeOK, tree, disk, WorkerType, Saving, PartNames

LEMMA TypeSwitch == ASSUME TypeInv, Detect \/ Reconcile \/ StartBuild PROVE TypeInv'
<1>0. worker \in WorkerType /\ moved \in BOOLEAN /\ failed \in BOOLEAN /\ blessed \in BOOLEAN
      /\ head \in Branches /\ side \in Labels \cup {None}
  BY DEF TypeInv, TypeOK, WorkerType, Saving
<1>1. CASE Detect
  <2>1. worker' \in WorkerType /\ worker'.pc = "waiting" /\ worker'.key \in Branches /\ worker'.build = FALSE
    BY <1>0, <1>1, FreeType DEF Detect, Free, WorkerType
  <2>. QED
    BY <1>0, <1>1, <2>1, TypeWorker
       DEF Detect, TypeInv, Placed, disk, history, Saving
<1>2. CASE Reconcile
  <2>1. worker.pc = "waiting" /\ worker.key \in Branches /\ side # None /\ side \in Labels /\ ~worker.build
        /\ root["db"] # None
    BY <1>0, <1>2 DEF Reconcile, TypeInv, Placed
  <2>2. \/ worker' = Free
        \/ worker' = [worker EXCEPT !.pc = "restoring", !.at = 1]
        \/ worker' = [worker EXCEPT !.pc = "mirroring", !.label = side]
    BY <1>2 DEF Reconcile
  <2>3. 1 \in 0 .. 4
    OBVIOUS
  <2>4. /\ worker' \in WorkerType /\ worker'.pc \in {"idle", "restoring", "mirroring"}
        /\ worker'.pc = "restoring" => worker'.key = worker.key /\ worker'.build = worker.build
        /\ worker'.pc = "mirroring" => worker'.label = side
    BY <1>0, <2>1, <2>2, <2>3, FreeType DEF WorkerType, Saving
  <2>. QED
    BY <1>0, <1>2, <2>1, <2>4, TypeWorker
       DEF Reconcile, TypeInv, Placed, disk, history, Saving
<1>3. CASE StartBuild
  <2>1. worker' \in WorkerType /\ worker'.pc = "indexing" /\ worker'.tree \in Labels /\ worker'.build = TRUE
    BY <1>0, <1>3, FreeType, LabelType DEF StartBuild, Free, WorkerType, TypeInv
  <2>2. blessed' \in BOOLEAN
    BY <1>3 DEF StartBuild
  <2>. QED
    BY <1>0, <1>3, <2>1, <2>2, TypeWorker
       DEF StartBuild, TypeInv, Placed, disk, Saving
<1>. QED
  BY <1>1, <1>2, <1>3

LEMMA TypeRestore == ASSUME TypeInv, RestorePart \/ StampRestored \/ InterruptRestore PROVE TypeInv'
<1>0. /\ worker \in WorkerType /\ worker.pc = "restoring" /\ worker.key \in Branches /\ ~worker.build
      /\ side # None /\ side \in Labels \cup {None} /\ root["db"] # None /\ root \in Indexes
      /\ root["db"] # Broken
  BY DEF TypeInv, TypeOK, Placed, WorkerType, Saving, RestorePart, StampRestored, InterruptRestore
<1>1. CASE RestorePart
  <2> DEFINE part == Parts[worker.at]
  <2>1. part \in PartNames /\ (worker.at = 1 <=> part = "db") /\ worker.at \in 1 .. 4
    <3>1. worker.at = 1 \/ worker.at = 2 \/ worker.at = 3 \/ worker.at = 4
      BY <1>1 DEF RestorePart
    <3>. QED
      BY <1>1, <3>1, PartsAre DEF RestorePart
  <2>2. snap[worker.key] # None => /\ snap[worker.key].parts \in Indexes
                                   /\ snap[worker.key].parts["db"] # None
                                   /\ snap[worker.key].parts["db"] # Broken
    BY <1>0, SnapType DEF TypeInv, Placed
  <2>3. \/ root' = root
        \/ part # "db" /\ root' = [root EXCEPT ![part] = None]
        \/ snap[worker.key] # None /\ root' = [root EXCEPT ![part] = snap[worker.key].parts[part]]
    <3>1. CASE snap[worker.key] = None /\ part = "db"
      <4>1. root' = [root EXCEPT ![part] = root[part]]
        BY <1>1, <3>1 DEF RestorePart
      <4>. QED
        BY <1>0, <2>1, <4>1 DEF Indexes
    <3>2. CASE snap[worker.key] = None /\ part # "db"
      BY <1>1, <3>2 DEF RestorePart
    <3>3. CASE snap[worker.key] # None
      BY <1>1, <3>3 DEF RestorePart
    <3>. QED
      BY <3>1, <3>2, <3>3
  <2>4. worker' = Free \/ \E i \in 0 .. 4 : worker' = [worker EXCEPT !.at = i]
    BY <1>1, <2>1 DEF RestorePart
  <2> HIDE DEF part
  <2>5. root' \in Indexes /\ root'["db"] # None /\ root'["db"] # Broken
    BY <1>0, <2>1, <2>2, <2>3 DEF Indexes, PartNames
  <2>6. /\ worker' \in WorkerType /\ worker'.pc \in {"idle", "restoring"}
        /\ worker'.pc = "restoring" => worker'.key = worker.key /\ worker'.build = worker.build
    BY <1>0, <2>4, FreeType DEF WorkerType, Saving
  <2>. QED
    BY <1>0, <1>1, <2>5, <2>6
       DEF RestorePart, TypeInv, TypeOK, Placed, tree, history, WorkerType, Saving
<1>2. CASE StampRestored
  <2>1. side' \in Labels \cup {None}
    BY <1>0, <1>2, SnapType DEF StampRestored, TypeInv
  <2>. QED
    BY <1>0, <1>2, <2>1, FreeType
       DEF StampRestored, TypeInv, TypeOK, Placed, tree, history, WorkerType, Saving
<1>3. CASE InterruptRestore
  <2>1. root' = root \/ \E p \in {"dense", "sparse"} : root' = [root EXCEPT ![p] = None]
    BY <1>3, PartsAre DEF InterruptRestore
  <2>2. root' \in Indexes /\ root'["db"] = root["db"]
    BY <1>0, <2>1 DEF Indexes, PartNames
  <2>. QED
    BY <1>0, <1>3, <2>2, FreeType
       DEF InterruptRestore, TypeInv, TypeOK, Placed, tree, history, WorkerType, Saving
<1>. QED
  BY <1>1, <1>2, <1>3

LEMMA TypeBuild == ASSUME TypeInv, FinishBuild \/ InterruptBuild PROVE TypeInv'
<1>0. /\ worker \in WorkerType /\ worker.pc = "indexing" /\ head \in Branches
      /\ builds \in 0 .. MaxBuild /\ side \in Labels \cup {None}
  BY DEF TypeInv, TypeOK, WorkerType, Saving, FinishBuild, InterruptBuild, MayIndex
<1>1. MayIndex /\ New # None
  BY NewType DEF FinishBuild, InterruptBuild
<1>2. NoChanges \/ builds + 1 \in 0 .. MaxBuild
  <2>1. NoChanges \/ builds < MaxBuild
    BY <1>1 DEF MayIndex
  <2>. QED
    BY <1>0, <2>1, BoundsAssumption
<1>3. builds' \in 0 .. MaxBuild
  BY <1>0, <1>2 DEF FinishBuild, InterruptBuild
<1>4. CASE FinishBuild
  <2>1. root' = Written(PartNames) /\ worker' = [worker EXCEPT !.pc = "mirroring", !.label = Label(head)]
    BY <1>4 DEF FinishBuild
  <2>2. root' \in Indexes /\ root'["db"] # Broken /\ root'["db"] # None
    BY <1>1, <2>1, WrittenType
  <2>3. worker' \in WorkerType /\ worker'.pc = "mirroring" /\ worker'.label \in Labels
    BY <1>0, <2>1, LabelType DEF WorkerType, Saving, TypeInv
  <2>. QED
    BY <1>3, <1>4, <2>2, <2>3
       DEF FinishBuild, TypeInv, TypeOK, Placed, tree, history, WorkerType, Saving
<1>5. CASE InterruptBuild
  <2>1. PICK parts \in {{}, {"db"}, {"db", "sparse"}, {"db", "sparse", "dense"}} : root' = Written(parts)
    BY <1>5 DEF InterruptBuild
  <2>2. parts \in SUBSET PartNames
    BY DEF PartNames
  <2>3. root' \in Indexes /\ root'["db"] # Broken /\ root'["db"] \in {root["db"], New}
    BY <1>1, <2>1, <2>2, WrittenType
  <2>. QED
    BY <1>1, <1>3, <1>5, <2>3, FreeType
       DEF InterruptBuild, TypeInv, TypeOK, Placed, tree, WorkerType, Saving
<1>. QED
  BY <1>4, <1>5

LEMMA TypeMirror == ASSUME TypeInv, RemoveMirror \/ SwapMirror \/ StampMirror \/ InterruptMirror
                    PROVE  TypeInv'
<1>0. /\ worker \in WorkerType /\ worker.pc \in Saving /\ worker.label \in Labels
      /\ root["db"] # None /\ root["db"] # Broken /\ root \in Indexes /\ worker.label.key \in Branches
  BY DEF TypeInv, TypeOK, Placed, WorkerType, Saving, RemoveMirror, SwapMirror, StampMirror,
         InterruptMirror, Labels
<1>1. AfterBuild \in [pc : {"idle", "due", "evicting"}, keep : SUBSET Branches]
  BY DEF AfterBuild, TypeInv, TypeOK
<1>2. CASE RemoveMirror
  <2>1. worker' \in WorkerType /\ worker'.pc = "swapping" /\ worker'.label = worker.label
    BY <1>0, <1>2 DEF RemoveMirror, WorkerType, Saving
  <2>2. /\ snap' \in [Branches -> Snapshots \cup {None}]
        /\ \A b \in Branches : snap'[b] # None => snap'[b] = snap[b]
    BY <1>0, <1>2 DEF RemoveMirror, TypeInv, TypeOK
  <2>. QED
    BY <1>0, <1>2, <2>1, <2>2
       DEF RemoveMirror, TypeInv, TypeOK, Placed, tree, history, WorkerType, Saving
<1>3. CASE SwapMirror
  <2>1. worker' \in WorkerType /\ worker'.pc = "stamping" /\ worker'.label = worker.label
    BY <1>0, <1>3 DEF SwapMirror, WorkerType, Saving
  <2> DEFINE s == [parts |-> root, label |-> worker.label]
  <2>2. s \in Snapshots /\ s.label.key = worker.label.key /\ s.parts["db"] # None /\ s.parts["db"] # Broken
    BY <1>0 DEF Snapshots
  <2> HIDE DEF s
  <2>3. snap' = [snap EXCEPT ![worker.label.key] = s]
    BY <1>3 DEF SwapMirror, s
  <2>4. /\ snap' \in [Branches -> Snapshots \cup {None}]
        /\ \A b \in Branches : IF b = worker.label.key THEN snap'[b] = s ELSE snap'[b] = snap[b]
    BY <1>0, <2>2, <2>3 DEF TypeInv, TypeOK
  <2>. QED
    BY <1>0, <1>3, <2>1, <2>2, <2>4
       DEF SwapMirror, TypeInv, TypeOK, Placed, tree, history, WorkerType, Saving
<1>4. CASE StampMirror
  <2>1. dropped' \in SUBSET Branches
    BY <1>4 DEF StampMirror, TypeInv, TypeOK
  <2>. QED
    BY <1>0, <1>1, <1>4, <2>1, FreeType
       DEF StampMirror, TypeInv, TypeOK, Placed, tree, WorkerType, Saving
<1>5. CASE InterruptMirror
  <2>1. dropped' \in SUBSET Branches /\ failed' \in BOOLEAN /\ moved \in BOOLEAN /\ blessed \in BOOLEAN
    BY <1>0, <1>5 DEF InterruptMirror, TypeInv, TypeOK
  <2>2. gc' \in [pc : {"idle", "due", "evicting"}, keep : SUBSET Branches]
    BY <1>1, <1>5 DEF InterruptMirror, TypeInv, TypeOK
  <2>. QED
    BY <1>0, <1>5, <2>1, <2>2, FreeType
       DEF InterruptMirror, TypeInv, TypeOK, Placed, tree, disk, WorkerType, Saving
<1>. QED
  BY <1>2, <1>3, <1>4, <1>5

LEMMA TypeRest == ASSUME TypeInv, ScanRetention \/ Evict \/ Checkout \/ Commit \/ UNCHANGED vars
                  PROVE  TypeInv'
<1>1. CASE ScanRetention
  <2>1. gc' \in [pc : {"idle", "due", "evicting"}, keep : SUBSET Branches]
    BY <1>1 DEF ScanRetention, TypeInv, TypeOK, Saved
  <2>. QED
    BY <1>1, <2>1 DEF ScanRetention, TypeInv, TypeOK, Placed, tree, disk, history
<1>2. CASE Evict
  <2>1. \/ gc' = [pc |-> "idle", keep |-> {}] /\ UNCHANGED <<snap, dropped>>
        \/ \E b \in Branches : /\ snap' = [snap EXCEPT ![b] = None]
                               /\ dropped' = IF snap[b] = None THEN dropped ELSE dropped \cup {b}
                               /\ gc' = IF snap[b] = None THEN [pc |-> "idle", keep |-> {}]
                                        ELSE [gc EXCEPT !.keep = @ \cup {b}]
    BY <1>2 DEF Evict
  <2>2. gc' \in [pc : {"idle", "due", "evicting"}, keep : SUBSET Branches] /\ dropped' \in SUBSET Branches
    BY <2>1 DEF TypeInv, TypeOK
  <2>3. /\ snap' \in [Branches -> Snapshots \cup {None}]
        /\ \A b \in Branches : snap'[b] # None => snap'[b] = snap[b]
    BY <2>1 DEF TypeInv, TypeOK
  <2>. QED
    BY <1>2, <2>2, <2>3 DEF Evict, TypeInv, TypeOK, Placed, tree
<1>3. CASE Checkout \/ Commit
  <2>1. moved' \in BOOLEAN
    BY <1>3 DEF Checkout, Commit, NoteMove
  <2>2. head' \in Branches
    BY <1>3 DEF Checkout, Commit, TypeInv, TypeOK
  <2>3. commit' \in [Branches -> 0 .. MaxCommit]
    <3>1. CASE commit' = commit
      BY <3>1 DEF TypeInv, TypeOK
    <3>2. CASE commit[head] < MaxCommit /\ commit' = [commit EXCEPT ![head] = @ + 1]
      <4>1. commit[head] + 1 \in 0 .. MaxCommit
        BY <3>2, BoundsAssumption DEF TypeInv, TypeOK
      <4>. QED
        BY <3>2, <4>1 DEF TypeInv, TypeOK
    <3>. QED
      BY <1>3, <3>1, <3>2 DEF Checkout, Commit
  <2>. QED
    BY <1>3, <2>1, <2>2, <2>3 DEF Checkout, Commit, TypeInv, TypeOK, Placed, disk
<1>4. CASE UNCHANGED vars
  BY <1>4 DEF vars, tree, disk, history, TypeInv, TypeOK, Placed
<1>. QED
  BY <1>1, <1>2, <1>3, <1>4

LEMMA TypesHold == Spec => []TypeInv
<1>1. TypeInv /\ [Next]_vars => TypeInv'
  BY TypeSwitch, TypeRestore, TypeBuild, TypeMirror, TypeRest DEF Next
<1>. QED
  BY TypeInit, <1>1, PTL DEF Spec

\* The variables of the model keep their types; every snapshot has a chunks.db and the label of
\* the branch it is filed under (layout.rs).
THEOREM TypeCorrect == Spec => []TypeOK
<1>1. TypeInv => TypeOK
  BY DEF TypeInv
<1>. QED
  BY TypesHold, <1>1, PTL

-----------------------------------------------------------------------------
(* The inductive invariant.                                                *)

\* The snapshot of the branch that branch.json names is of the commit it names, or was lost
SideCurrent ==
    side # None /\ ~(worker.pc \in {"swapping", "stamping"} /\ side.key = worker.label.key) =>
        side.key \in dropped \/ (snap[side.key] # None /\ snap[side.key].label.commit = side.commit)

\* A build keeps the root whole; what is saved without a build is a branch whose snapshot
\* was lost; and a mirror is what was copied, unless it was evicted since
SavingInv ==
    /\ ~blessed /\ worker.build => Coherent(root)
    /\ ~worker.build /\ worker.pc \in Saving => worker.label.key \in dropped
    /\ worker.pc = "stamping" =>
          IF snap[worker.label.key] = None THEN worker.label.key \in dropped
          ELSE snap[worker.label.key] = [parts |-> root, label |-> worker.label]

\* Without a checkout under it, a build is of the branch it is saved for
LabelInv ==
    ~moved /\ worker.build =>
        /\ worker.pc = "indexing" => worker.tree.key = head
        /\ worker.pc \in Saving => root["db"].branch = worker.label.key

\* The parts a restore has swapped in are those of a snapshot that is still there or was lost
RestoreInv ==
    worker.pc = "restoring" =>
        /\ side.key # worker.key
        /\ snap[worker.key] = None => worker.key \in dropped
        /\ snap[worker.key] # None /\ worker.key \notin dropped =>
              LET parts == snap[worker.key].parts
              IN  /\ worker.at # 1 => root["db"] = parts["db"]
                  /\ worker.at \in {0, 3, 4} => root["meta"] = parts["meta"]
                  /\ worker.at \in {0, 4} => root["dense"] = parts["dense"]
                  /\ worker.at = 0 => root["sparse"] = parts["sparse"]

\* Only the snapshot of another branch can have left the root mixed
MixedInv ==
    ~blessed /\ ~moved /\ ~failed /\ dropped = {} /\ side # None =>
        Coherent(root) \/ root["db"].branch # side.key

Inv ==
    /\ SideCurrent /\ SavingInv /\ LabelInv /\ RestoreInv /\ MixedInv
    /\ SnapshotsWhole /\ SnapshotsLabelled

LEMMA InvInit == Init => Inv
<1> SUFFICES ASSUME Init PROVE Inv OBVIOUS
<1>1. Coherent(root)
  BY DEF Init, Nothing, Coherent, PartNames
<1>. QED
  BY <1>1, FreeType DEF Init, Inv, SideCurrent, SavingInv, LabelInv, RestoreInv, MixedInv,
                        SnapshotsWhole, SnapshotsLabelled, Saving

LEMMA InvSwitch == ASSUME TypeInv, Inv, Detect \/ Reconcile PROVE Inv'
<1> USE DEF Inv
<1>0. /\ UNCHANGED <<head, root, side, snap, moved, blessed, dropped, failed>>
      /\ worker.pc \in {"idle", "waiting"} /\ side # None
  BY DEF Detect, Reconcile, tree, disk, history, TypeInv, Placed
<1>1. SnapshotsWhole' /\ SnapshotsLabelled' /\ MixedInv'
  BY <1>0 DEF SnapshotsWhole, SnapshotsLabelled, MixedInv, Coherent
<1>2. CASE worker' = Free \/ Detect
  <2>1. worker'.pc \in {"idle", "waiting"} /\ worker'.build = FALSE
    BY <1>2, FreeType DEF Detect, Free
  <2>. QED
    BY <1>0, <1>1, <2>1 DEF SideCurrent, SavingInv, LabelInv, RestoreInv, Saving
<1>3. CASE Reconcile /\ worker' # Free
  <2>1. /\ worker \in WorkerType /\ worker.pc = "waiting" /\ ~worker.build /\ side.key # worker.key
        /\ \/ snap[worker.key] # None /\ worker' = [worker EXCEPT !.pc = "restoring", !.at = 1]
           \/ ~OutgoingCurrent /\ worker' = [worker EXCEPT !.pc = "mirroring", !.label = side]
    BY <1>3 DEF Reconcile, TypeInv, TypeOK, Placed, WorkerType, Saving
  <2>2. CASE snap[worker.key] # None /\ worker' = [worker EXCEPT !.pc = "restoring", !.at = 1]
    <3>1. worker'.pc = "restoring" /\ worker'.at = 1 /\ worker'.key = worker.key /\ worker'.build = worker.build
      BY <2>1, <2>2 DEF WorkerType
    <3>. QED
      BY <1>0, <1>1, <2>1, <2>2, <3>1 DEF SideCurrent, SavingInv, LabelInv, RestoreInv, Saving
  <2>3. CASE ~OutgoingCurrent /\ worker' = [worker EXCEPT !.pc = "mirroring", !.label = side]
    <3>1. worker'.pc = "mirroring" /\ worker'.label = side /\ worker'.build = worker.build
      BY <2>1, <2>3 DEF WorkerType
    <3>2. side.key \in dropped
      BY <1>0, <2>1, <2>3 DEF SideCurrent, OutgoingCurrent
    <3>. QED
      BY <1>0, <1>1, <2>1, <3>1, <3>2 DEF SideCurrent, SavingInv, LabelInv, RestoreInv, Saving
  <2>. QED
    BY <2>1, <2>2, <2>3
<1>. QED
  BY <1>2, <1>3

LEMMA InvRestore == ASSUME TypeInv, Inv, RestorePart \/ StampRestored \/ InterruptRestore PROVE Inv'
<1> USE DEF Inv
<1>0. /\ UNCHANGED <<head, snap, moved, blessed, dropped, failed>>
      /\ worker \in WorkerType /\ worker.pc = "restoring" /\ ~worker.build /\ worker.key \in Branches
      /\ side # None /\ root \in Indexes
  BY DEF RestorePart, StampRestored, InterruptRestore, tree, disk, history, TypeInv, TypeOK, Placed,
         WorkerType, Saving
<1>1. SnapshotsWhole' /\ SnapshotsLabelled'
  BY <1>0 DEF SnapshotsWhole, SnapshotsLabelled, Coherent
<1>2. snap[worker.key] # None => snap[worker.key].label \in Labels /\ snap[worker.key].label.key = worker.key
                                 /\ snap[worker.key].parts \in Indexes
  BY <1>0, SnapType DEF TypeInv
<1>3. CASE RestorePart
  <2> DEFINE part == Parts[worker.at]
  <2>1. /\ worker.at \in 1 .. 4 /\ part \in PartNames
        /\ worker.at = 1 => part = "db"
        /\ worker.at = 2 => part = "meta"
        /\ worker.at = 3 => part = "dense"
        /\ worker.at = 4 => part = "sparse"
        /\ worker.at = 1 \/ worker.at = 2 \/ worker.at = 3 \/ worker.at = 4
    BY <1>3, PartsAre DEF RestorePart
  <2>2. UNCHANGED side
    BY <1>3 DEF RestorePart
  <2>3. CASE snap[worker.key] = None
    <3>1. worker.key \in dropped
      BY <1>0, <2>3 DEF RestoreInv
    <3>2. worker' = Free \/ worker' = [worker EXCEPT !.at = IF worker.at = 4 THEN 0 ELSE @ + 1]
      BY <1>3, <2>3 DEF RestorePart
    <3>3. /\ worker'.pc \in {"idle", "restoring"} /\ worker'.build = FALSE
          /\ worker'.pc = "restoring" => worker'.key = worker.key
      BY <1>0, <3>2, FreeType DEF WorkerType
    <3>. QED
      BY <1>0, <1>1, <2>2, <2>3, <3>1, <3>3
         DEF SideCurrent, SavingInv, LabelInv, RestoreInv, MixedInv, Saving
  <2>4. CASE snap[worker.key] # None
    <3> DEFINE parts == snap[worker.key].parts
               next == IF worker.at = 4 THEN 0 ELSE worker.at + 1
    <3>1. root' = [root EXCEPT ![part] = parts[part]] /\ worker' = [worker EXCEPT !.at = next]
      BY <1>3, <2>4 DEF RestorePart
    <3>2. /\ next = (IF worker.at = 1 THEN 2 ELSE IF worker.at = 2 THEN 3 ELSE IF worker.at = 3 THEN 4 ELSE 0)
      BY <2>1
    <3> HIDE DEF part, next
    <3>3. /\ worker'.pc = "restoring" /\ worker'.build = worker.build /\ worker'.key = worker.key
          /\ worker'.at = next
      BY <1>0, <3>1 DEF WorkerType
    <3>4. /\ root'["db"] = IF part = "db" THEN parts["db"] ELSE root["db"]
          /\ root'["meta"] = IF part = "meta" THEN parts["meta"] ELSE root["meta"]
          /\ root'["dense"] = IF part = "dense" THEN parts["dense"] ELSE root["dense"]
          /\ root'["sparse"] = IF part = "sparse" THEN parts["sparse"] ELSE root["sparse"]
      BY <1>0, <2>1, <3>1 DEF Indexes, PartNames
    <3>5. RestoreInv'
      BY <1>0, <2>1, <2>2, <2>4, <3>2, <3>3, <3>4 DEF RestoreInv
    <3>6. MixedInv'
      <4>1. ASSUME ~moved, dropped = {} PROVE root'["db"].branch = worker.key /\ worker.key # side.key
        <5>1. root'["db"] = parts["db"]
          BY <1>0, <2>1, <2>4, <3>4, <4>1 DEF RestoreInv
        <5>2. parts["db"].branch = worker.key
          BY <1>0, <2>4, <4>1 DEF SnapshotsLabelled
        <5>. QED
          BY <1>0, <5>1, <5>2 DEF RestoreInv
      <4>. QED
        BY <1>0, <2>2, <4>1 DEF MixedInv
    <3>7. SideCurrent' /\ SavingInv' /\ LabelInv'
      BY <1>0, <2>2, <3>3 DEF SideCurrent, SavingInv, LabelInv, Saving
    <3>. QED
      BY <1>1, <3>5, <3>6, <3>7
  <2>. QED
    BY <2>3, <2>4
<1>4. CASE StampRestored
  <2>1. /\ worker.at = 0 /\ worker' = Free /\ UNCHANGED root
        /\ side' = IF snap[worker.key] = None THEN side ELSE snap[worker.key].label
    BY <1>4 DEF StampRestored
  <2>2. SavingInv' /\ LabelInv' /\ RestoreInv'
    BY <2>1, FreeType DEF SavingInv, LabelInv, RestoreInv, Saving
  <2>3. SideCurrent'
    BY <1>0, <1>2, <2>1, FreeType DEF SideCurrent
  <2>4. ASSUME ~blessed, dropped = {} PROVE Coherent(root)
    <3>1. snap[worker.key] # None /\ worker.key \in Branches \ dropped
      BY <1>0, <2>4 DEF RestoreInv
    <3>2. Coherent(snap[worker.key].parts)
      BY <2>4, <3>1 DEF SnapshotsWhole
    <3>3. \A p \in PartNames : root[p] = snap[worker.key].parts[p]
      BY <1>0, <2>1, <3>1 DEF RestoreInv, PartNames
    <3>. QED
      BY <3>2, <3>3 DEF Coherent, PartNames
  <2>5. MixedInv'
    BY <1>0, <2>1, <2>4 DEF MixedInv, Coherent
  <2>. QED
    BY <1>1, <2>2, <2>3, <2>5
<1>5. CASE InterruptRestore
  <2>1. worker' = Free /\ UNCHANGED side
        /\ (root' = root \/ (worker.at \in {3, 4} /\ \E p \in {"dense", "sparse"} : root' = [root EXCEPT ![p] = None]))
    BY <1>5, PartsAre DEF InterruptRestore
  <2>2. SideCurrent' /\ SavingInv' /\ LabelInv' /\ RestoreInv'
    BY <1>0, <2>1, FreeType DEF SideCurrent, SavingInv, LabelInv, RestoreInv, Saving
  <2>3. CASE root' = root
    BY <1>0, <1>1, <2>1, <2>2, <2>3 DEF MixedInv, Coherent
  <2>4. CASE worker.at \in {3, 4} /\ \E p \in {"dense", "sparse"} : root' = [root EXCEPT ![p] = None]
    <3>1. root'["db"] = root["db"]
      BY <1>0, <2>4 DEF Indexes, PartNames
    <3>2. ASSUME ~moved, dropped = {} PROVE root["db"].branch = worker.key /\ worker.key # side.key
      BY <1>0, <2>4, <3>2 DEF RestoreInv, SnapshotsLabelled
    <3>3. MixedInv'
      BY <1>0, <2>1, <3>1, <3>2 DEF MixedInv
    <3>. QED
      BY <1>1, <2>2, <3>3
  <2>. QED
    BY <2>1, <2>3, <2>4
<1>. QED
  BY <1>3, <1>4, <1>5

\* A build over a whole root leaves it whole, and of the tree it read
LEMMA WrittenWhole == ASSUME TypeInv, MayIndex, Coherent(root)
                      PROVE  /\ Coherent(Written(PartNames))
                             /\ Written(PartNames)["db"] = New /\ New.branch = worker.tree.key
<1>1. \A p \in PartNames : root[p] = root["db"]
  BY DEF Coherent
<1>2. "db" \in PartNames /\ "dense" \in PartNames /\ root \in Indexes
  BY DEF PartNames, TypeInv, TypeOK
<1>3. New.branch = worker.tree.key
  BY DEF New, NoChanges
<1>4. CASE NoChanges /\ root["dense"] # None
  BY <1>1, <1>2, <1>3, <1>4 DEF Written, New, Coherent
<1>5. CASE ~NoChanges
  <2>1. Written(PartNames) = [p \in PartNames |-> New]
    BY <1>1, <1>2, <1>5 DEF Written
  <2>. QED
    BY <1>2, <1>3, <2>1 DEF Coherent
<1>6. CASE NoChanges /\ root["dense"] = None
  BY <1>1, <1>2, <1>6 DEF NoChanges
<1>. QED
  BY <1>4, <1>5, <1>6

LEMMA InvBuild == ASSUME TypeInv, Inv, StartBuild \/ FinishBuild \/ InterruptBuild PROVE Inv'
<1> USE DEF Inv
<1>0. /\ UNCHANGED <<head, side, snap, moved, dropped>> /\ head \in Branches /\ worker \in WorkerType
  BY DEF StartBuild, FinishBuild, InterruptBuild, tree, disk, history, TypeInv, TypeOK, WorkerType, Saving
<1>1. ~blessed' => ~blessed
  BY Zenon DEF StartBuild, FinishBuild, InterruptBuild, history
<1>2. SnapshotsWhole' /\ SnapshotsLabelled'
  BY <1>0, <1>1 DEF SnapshotsWhole, SnapshotsLabelled, Coherent
<1>3. CASE StartBuild
  <2>1. ~blessed' => Coherent(root)
    BY <1>3, Zenon DEF StartBuild
  <2>2. /\ worker'.pc = "indexing" /\ worker'.build = TRUE /\ worker'.tree.key = head
        /\ worker.pc = "idle" /\ UNCHANGED <<root, failed>>
    BY <1>0, <1>3, FreeType, LabelType DEF StartBuild, Free, disk, TypeInv
  <2>3. Coherent(root)' <=> Coherent(root)
    BY <2>2 DEF Coherent
  <2>. QED
    BY <1>0, <1>1, <1>2, <2>1, <2>2, <2>3
       DEF SideCurrent, SavingInv, LabelInv, RestoreInv, MixedInv, Saving
<1>4. CASE FinishBuild
  <2>1. /\ MayIndex /\ root' = Written(PartNames) /\ worker.pc = "indexing" /\ worker.build
        /\ worker' = [worker EXCEPT !.pc = "mirroring", !.label = Label(head)] /\ UNCHANGED blessed
    BY <1>4 DEF FinishBuild, MayIndex, TypeInv, Placed, history
  <2>2. /\ worker'.pc = "mirroring" /\ worker'.build = worker.build /\ worker'.label = Label(head)
        /\ Label(head).key = head
    BY <1>0, <2>1, LabelType DEF WorkerType, TypeInv
  <2>3. ~blessed => Coherent(root)' /\ root'["db"] = New
    BY <2>1, WrittenWhole DEF SavingInv, Coherent
  <2>4. New.branch = worker.tree.key /\ root'["db"] = New
    BY <2>1, WrittenType DEF New, NoChanges
  <2>5. SideCurrent' /\ SavingInv' /\ RestoreInv' /\ MixedInv'
    BY <1>0, <1>1, <2>1, <2>2, <2>3 DEF SideCurrent, SavingInv, RestoreInv, MixedInv, Saving
  <2>6. LabelInv'
    BY <1>0, <2>1, <2>2, <2>4 DEF LabelInv, Saving
  <2>. QED
    BY <1>2, <2>5, <2>6
<1>5. CASE InterruptBuild
  <2>1. worker' = Free /\ failed' = TRUE /\ worker.pc = "indexing"
    BY <1>5 DEF InterruptBuild, MayIndex
  <2>. QED
    BY <1>0, <1>2, <2>1, FreeType
       DEF SideCurrent, SavingInv, LabelInv, RestoreInv, MixedInv, Saving
<1>. QED
  BY <1>3, <1>4, <1>5

LEMMA InvMirror == ASSUME TypeInv, Inv, RemoveMirror \/ SwapMirror PROVE Inv'
<1> USE DEF Inv
<1>0. /\ UNCHANGED <<head, root, side, moved, blessed, dropped, failed>>
      /\ worker \in WorkerType /\ worker.pc \in {"mirroring", "swapping"}
      /\ worker.label \in Labels /\ worker.label.key \in Branches /\ snap \in [Branches -> Snapshots \cup {None}]
  BY DEF RemoveMirror, SwapMirror, tree, history, TypeInv, TypeOK, Placed, WorkerType, Saving, Labels
<1>1. MixedInv'
  BY <1>0 DEF MixedInv, Coherent
<1>2. Coherent(root)' <=> Coherent(root)
  BY <1>0 DEF Coherent
<1>3. CASE RemoveMirror
  <2>1. /\ worker'.pc = "swapping" /\ worker'.label = worker.label /\ worker'.build = worker.build
        /\ worker.pc = "mirroring"
    BY <1>0, <1>3 DEF RemoveMirror, WorkerType
  <2>2. \A b \in Branches : snap'[b] = IF b = worker.label.key THEN None ELSE snap[b]
    BY <1>0, <1>3 DEF RemoveMirror
  <2>3. SnapshotsWhole' /\ SnapshotsLabelled'
    BY <1>0, <2>2 DEF SnapshotsWhole, SnapshotsLabelled, Coherent
  <2>4. SideCurrent'
    <3>1. side # None => side.key \in Branches
      BY DEF TypeInv, TypeOK, Labels
    <3>. QED
      BY <1>0, <2>1, <2>2, <3>1 DEF SideCurrent
  <2>. QED
    BY <1>0, <1>1, <1>2, <2>1, <2>3, <2>4 DEF SavingInv, LabelInv, RestoreInv, Saving
<1>4. CASE SwapMirror
  <2> DEFINE s == [parts |-> root, label |-> worker.label]
  <2>1. /\ worker'.pc = "stamping" /\ worker'.label = worker.label /\ worker'.build = worker.build
        /\ worker.pc = "swapping" /\ s.parts = root
    BY <1>0, <1>4 DEF SwapMirror, WorkerType
  <2>0. s # None
    <3>1. s \in Snapshots
      BY <1>0 DEF Snapshots, TypeInv, TypeOK
    <3>. QED
      BY <3>1, NoneAssumption
  <2>2. \A b \in Branches : snap'[b] = IF b = worker.label.key THEN s ELSE snap[b]
    BY <1>0, <1>4 DEF SwapMirror
  <2>3. worker.label.key \in dropped \/ (worker.build /\ worker.pc \in Saving)
    BY <2>1 DEF SavingInv, Saving
  <2>7. s' = s
    BY <1>0, <2>1
  <2> HIDE DEF s
  <2>4. SnapshotsWhole'
    BY <1>0, <2>1, <2>2, <2>3 DEF SnapshotsWhole, SavingInv, Coherent
  <2>5. SnapshotsLabelled'
    BY <1>0, <2>1, <2>2, <2>3 DEF SnapshotsLabelled, LabelInv
  <2>6. SideCurrent'
    <3>1. side # None => side.key \in Branches
      BY DEF TypeInv, TypeOK, Labels
    <3>. QED
      BY <1>0, <2>1, <2>2, <3>1 DEF SideCurrent
  <2>8. SavingInv'
    <3>1. snap'[worker'.label.key] = [parts |-> root, label |-> worker.label]'
      BY <1>0, <2>1, <2>2 DEF s
    <3>. QED
      BY <1>0, <1>2, <2>0, <2>1, <2>2, <3>1 DEF SavingInv, Saving
  <2>. QED
    BY <1>0, <1>1, <2>1, <2>4, <2>5, <2>6, <2>8 DEF LabelInv, RestoreInv, Saving
<1>. QED
  BY <1>3, <1>4

LEMMA InvStamp == ASSUME TypeInv, Inv, StampMirror PROVE Inv'
<1> USE DEF Inv
<1> DEFINE key == worker.label.key
           sound == snap[key] # None /\ Coherent(root) /\ root["db"].branch = key
<1>0. /\ UNCHANGED <<head, root, snap, moved, blessed, failed>> /\ worker.pc = "stamping"
      /\ worker' = Free /\ side' = worker.label /\ key \in Branches
      /\ dropped' = IF sound THEN dropped \ {key} ELSE dropped
  BY DEF StampMirror, tree, history, TypeInv, TypeOK, Placed, Saving, Labels
<1>1. snap[key] # None => snap[key].parts = root /\ snap[key].label = worker.label
  BY <1>0 DEF SavingInv
<1>2. Coherent(root)' <=> Coherent(root)
  BY <1>0 DEF Coherent
<1>3. SavingInv' /\ LabelInv' /\ RestoreInv'
  BY <1>0, FreeType DEF SavingInv, LabelInv, RestoreInv, Saving
<1>4. SideCurrent'
  BY <1>0, <1>1, FreeType DEF SideCurrent, SavingInv
<1>5. SnapshotsWhole'
  BY <1>0, <1>1 DEF SnapshotsWhole, Coherent
<1>6. SnapshotsLabelled'
  BY <1>0, <1>1 DEF SnapshotsLabelled
<1>7. MixedInv'
  <2>1. CASE sound
    BY <1>2, <2>1 DEF MixedInv
  <2>2. CASE ~sound
    <3>1. ~blessed /\ dropped = {} => Coherent(root)
      BY <1>0 DEF SavingInv, Saving
    <3>. QED
      BY <1>0, <1>2, <2>2, <3>1 DEF MixedInv
  <2>. QED
    BY <2>1, <2>2
<1>. QED
  BY <1>3, <1>4, <1>5, <1>6, <1>7

LEMMA InvMirrorDies == ASSUME TypeInv, Inv, InterruptMirror PROVE Inv'
<1> USE DEF Inv
<1>0. /\ UNCHANGED <<head, root, side, snap, moved, blessed>> /\ worker.pc \in Saving /\ worker' = Free
      /\ dropped' = IF worker.pc = "mirroring" THEN dropped ELSE dropped \cup {worker.label.key}
  BY DEF InterruptMirror, tree, disk, Saving
<1>1. ~failed' => ~failed
  BY Zenon DEF InterruptMirror
<1>2. SideCurrent'
  BY <1>0, FreeType DEF SideCurrent, Saving
<1>3. SnapshotsWhole' /\ SnapshotsLabelled' /\ MixedInv'
  BY <1>0, <1>1 DEF SnapshotsWhole, SnapshotsLabelled, MixedInv, Coherent
<1>. QED
  BY <1>0, <1>2, <1>3, FreeType DEF SavingInv, LabelInv, RestoreInv, Saving

LEMMA InvEvict == ASSUME TypeInv, Inv, Evict PROVE Inv'
<1> USE DEF Inv
<1>0. UNCHANGED <<head, root, side, worker, moved, blessed, failed>>
  BY DEF Evict, tree
<1>1. CASE UNCHANGED <<snap, dropped>>
  BY <1>0, <1>1 DEF SideCurrent, SavingInv, LabelInv, RestoreInv, MixedInv, SnapshotsWhole,
                    SnapshotsLabelled, Coherent
<1>2. CASE \E b \in Branches : /\ snap' = [snap EXCEPT ![b] = None]
                               /\ dropped' = IF snap[b] = None THEN dropped ELSE dropped \cup {b}
  <2>1. PICK b \in Branches : /\ snap' = [snap EXCEPT ![b] = None]
                              /\ dropped' = IF snap[b] = None THEN dropped ELSE dropped \cup {b}
    BY <1>2
  <2>2. \A c \in Branches : /\ snap'[c] = IF c = b THEN None ELSE snap[c]
                            /\ snap'[c] # None => snap'[c] = snap[c]
                            /\ snap[c] # None /\ snap'[c] = None => c \in dropped'
    BY <2>1 DEF TypeInv, TypeOK
  <2>3. dropped \subseteq dropped'
    BY <2>1
  <2>4. /\ side # None => side.key \in Branches
        /\ worker.pc \in Saving => worker.label.key \in Branches
        /\ worker.pc = "restoring" => worker.key \in Branches
    BY DEF TypeInv, TypeOK, Placed, Labels
  <2>5. SideCurrent'
    BY <1>0, <2>2, <2>3, <2>4 DEF SideCurrent
  <2>6. SavingInv'
    BY <1>0, <2>2, <2>3, <2>4 DEF SavingInv, Saving, Coherent
  <2>7. RestoreInv'
    BY <1>0, <2>2, <2>3, <2>4 DEF RestoreInv
  <2>8. LabelInv' /\ SnapshotsWhole' /\ SnapshotsLabelled'
    BY <1>0, <2>2, <2>3 DEF LabelInv, SnapshotsWhole, SnapshotsLabelled, Coherent
  <2>9. MixedInv'
    BY <1>0, <2>3 DEF MixedInv, Coherent
  <2>. QED
    BY <2>5, <2>6, <2>7, <2>8, <2>9
<1>. QED
  BY <1>1, <1>2 DEF Evict

LEMMA InvUser == ASSUME TypeInv, Inv, ScanRetention \/ Checkout \/ Commit \/ UNCHANGED vars PROVE Inv'
<1> USE DEF Inv
<1>0. UNCHANGED <<root, side, snap, worker, blessed, dropped, failed>>
  BY DEF ScanRetention, Checkout, Commit, vars, tree, disk, history
<1>1. (~moved' => ~moved) /\ (~moved' /\ worker.build => head' = head)
  <2>1. CASE ScanRetention \/ UNCHANGED vars
    BY <2>1 DEF ScanRetention, vars, tree, history
  <2>2. CASE Checkout \/ Commit
    <3>1. moved' = (moved \/ worker.build)
      BY <2>2 DEF Checkout, Commit, NoteMove
    <3>2. ~moved' => ~moved /\ ~worker.build
      BY <3>1, Zenon
    <3>. QED
      BY <3>2
  <2>. QED
    BY <2>1, <2>2
<1>2. SideCurrent' /\ SavingInv' /\ RestoreInv' /\ SnapshotsWhole'
  BY <1>0 DEF SideCurrent, SavingInv, RestoreInv, SnapshotsWhole, Coherent
<1>3. LabelInv' /\ MixedInv' /\ SnapshotsLabelled'
  BY <1>0, <1>1 DEF LabelInv, MixedInv, SnapshotsLabelled, Coherent
<1>. QED
  BY <1>2, <1>3

LEMMA InvHolds == Spec => []Inv
<1>1. TypeInv /\ Inv /\ [Next]_vars => Inv'
  BY InvSwitch, InvRestore, InvBuild, InvMirror, InvStamp, InvMirrorDies, InvEvict, InvUser DEF Next
<1>. QED
  BY TypesHold, InvInit, <1>1, PTL DEF Spec

\* No snapshot mixes two builds, whatever dies, unless a build ran over a mixed root or the
\* branch lost its snapshot before (outgoing_snapshot_current, mirror_root_as).
THEOREM WholeSnapshots == Spec => []SnapshotsWhole
<1>1. Inv => SnapshotsWhole
  BY DEF Inv
<1>. QED
  BY InvHolds, <1>1, PTL

\* A snapshot is of the branch it is filed under, wherever HEAD was when it was saved.
THEOREM LabelledSnapshots == Spec => []SnapshotsLabelled
<1>1. Inv => SnapshotsLabelled
  BY DEF Inv
<1>. QED
  BY InvHolds, <1>1, PTL

\* branch.json, which a restore writes last, vouches for no root that a restore left mixed.
THEOREM SidecarTrusted == Spec => []SidecarVouches
<1>1. Inv => SidecarVouches
  BY DEF Inv, MixedInv, SidecarVouches
<1>. QED
  BY InvHolds, <1>1, PTL

=============================================================================
