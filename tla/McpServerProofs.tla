--------------------------- MODULE McpServerProofs ---------------------------
(***************************************************************************)
(* For any number of threads, branches, edits and failures: types, one     *)
(* thread at a time, no searcher outlives what its server's own builds     *)
(* change, answers are of a branch HEAD was on, and a cached answer is of  *)
(* the live chunks, but for the named causes.                              *)
(***************************************************************************)
EXTENDS McpServer, FiniteSetTheorems, TLAPS

\* One thread at most, and Building while there is one, without cardinalities
OnlyOne == \A v, w \in Workers : job[v] # "idle" /\ job[w] # "idle" => v = w
BuildingMeansOne == status = "building" <=> \E w \in Workers : job[w] # "idle"
JobInv == job \in [Procs -> Phases] /\ status \in Statuses /\ OnlyOne /\ BuildingMeansOne

-----------------------------------------------------------------------------
(* The threads.                                                            *)

LEMMA JobInit == Init => JobInv
<1> SUFFICES ASSUME Init PROVE JobInv OBVIOUS
<1>1. job \in [Procs -> Phases] /\ status \in Statuses
  BY DEF Init, Phases, Statuses
<1>2. \A w \in Workers : job[w] = "idle"
  BY DEF Init, Procs
<1>3. status # "building"
  BY NameAssumption DEF Init
<1>. QED
  BY <1>1, <1>2, <1>3 DEF JobInv, OnlyOne, BuildingMeansOne

\* A process that is not idle goes on, idle only if its thread gives Building up
LEMMA JobMoves == ASSUME JobInv, NEW p \in Procs, job[p] # "idle", NEW j \in Phases,
                         job' = [job EXCEPT ![p] = j],
                         p = Other \/ j # "idle" => status' = status,
                         p # Other /\ j = "idle" => status' \in {"ready", "failed"}
                  PROVE  JobInv'
<1>1. job' \in [Procs -> Phases] /\ status' \in Statuses
  BY DEF JobInv, Statuses
<1>2. job'[p] = j /\ \A q \in Procs \ {p} : job'[q] = job[q]
  BY DEF JobInv
<1>3. Workers \subseteq Procs /\ Other \notin Workers
  BY NameAssumption DEF Procs
<1>4. OnlyOne'
  BY <1>2, <1>3 DEF JobInv, OnlyOne
<1>5. CASE p = Other
  BY <1>1, <1>2, <1>3, <1>4, <1>5 DEF JobInv, BuildingMeansOne
<1>6. CASE p # Other /\ j # "idle"
  <2>1. p \in Workers
    BY <1>6 DEF Procs
  <2>2. status' = "building"
    BY <1>6, <2>1 DEF JobInv, BuildingMeansOne
  <2>. QED
    BY <1>1, <1>2, <1>4, <1>6, <2>1, <2>2 DEF JobInv, BuildingMeansOne
<1>7. CASE p # Other /\ j = "idle"
  <2>1. p \in Workers
    BY <1>7 DEF Procs
  <2>2. \A w \in Workers : job'[w] = "idle"
    BY <1>2, <1>3, <1>7, <2>1 DEF JobInv, OnlyOne
  <2>. QED
    BY <1>1, <1>4, <1>7, <2>2 DEF JobInv, BuildingMeansOne
<1>. QED
  BY <1>5, <1>6, <1>7

LEMMA JobSpawn == ASSUME JobInv, Spawn PROVE JobInv'
<1>1. CASE status = "building"
  BY <1>1 DEF Spawn, NoSpawn, JobInv, OnlyOne, BuildingMeansOne
<1>2. CASE status # "building" /\ status' = "failed" /\ job' = job
  BY <1>2 DEF JobInv, OnlyOne, BuildingMeansOne, Statuses
<1>3. CASE /\ status # "building" /\ status' = "building"
           /\ \E w \in Workers : job[w] = "idle"
           /\ job' = [job EXCEPT ![FreeName] = "switch"]
  <2>1. FreeName \in Workers
    BY <1>3 DEF FreeName
  <2>2. \A w \in Workers : job[w] = "idle"
    BY <1>3 DEF JobInv, BuildingMeansOne
  <2>3. Workers \subseteq Procs
    BY DEF Procs
  <2>4. /\ job' \in [Procs -> Phases] /\ job'[FreeName] = "switch"
        /\ \A w \in Workers \ {FreeName} : job'[w] = "idle"
    BY <1>3, <2>1, <2>2, <2>3 DEF JobInv, Phases
  <2>. QED
    BY <1>3, <2>1, <2>4 DEF JobInv, OnlyOne, BuildingMeansOne, Statuses
<1>. QED
  BY <1>1, <1>2, <1>3 DEF Spawn

LEMMA JobStutter == ASSUME JobInv, UNCHANGED <<job, status>> PROVE JobInv'
  BY DEF JobInv, OnlyOne, BuildingMeansOne

LEMMA JobNext == ASSUME JobInv, [Next]_vars PROVE JobInv'
<1> USE DEF Phases, Writing
<1>1. ASSUME NEW p \in Procs, Switch(p) PROVE JobInv'
  <2>1. PICK j \in {"index", "restore"} : job' = [job EXCEPT ![p] = j]
    BY <1>1 DEF Switch
  <2>. QED
    BY <1>1, <2>1, JobMoves DEF Switch
<1>2. ASSUME NEW p \in Procs, Restore(p) PROVE JobInv'
  BY <1>2, JobMoves DEF Restore
<1>3. ASSUME NEW p \in Procs, BuildStarts(p) PROVE JobInv'
  BY <1>3, JobMoves DEF BuildStarts
<1>4. ASSUME NEW p \in Procs, BuildsNothing(p) PROVE JobInv'
  BY <1>4, JobMoves DEF BuildsNothing, Built
<1>5. ASSUME NEW p \in Procs, BuildsChunks(p) PROVE JobInv'
  BY <1>5, JobMoves DEF BuildsChunks
<1>6. ASSUME NEW p \in Procs, BuildsRest(p) PROVE JobInv'
  BY <1>6, JobMoves DEF BuildsRest, Built
<1>7. ASSUME NEW p \in Procs, SwitchFails(p) PROVE JobInv'
  BY <1>7, JobMoves DEF SwitchFails
<1>8. ASSUME NEW p \in Procs, BuildFails(p) PROVE JobInv'
  BY <1>8, JobMoves DEF BuildFails
<1>9. ASSUME NEW w \in Workers, Panic(w) \/ RemoveSearcher(w) \/ SetReady(w) PROVE JobInv'
  <2>1. w \in Procs /\ w # Other
    BY NameAssumption DEF Procs
  <2>. QED
    BY <1>9, <2>1, JobMoves DEF Panic, RemoveSearcher, SetReady
<1>10. ASSUME OtherStarts PROVE JobInv'
  <2>1. Workers \subseteq Procs /\ Other \notin Workers /\ Other \in Procs
    BY NameAssumption DEF Procs
  <2>2. job' \in [Procs -> Phases] /\ \A w \in Workers : job'[w] = job[w]
    BY <1>10, <2>1 DEF OtherStarts, JobInv
  <2>. QED
    BY <1>10, <2>2 DEF OtherStarts, JobInv, OnlyOne, BuildingMeansOne
<1>11. ASSUME Initialize \/ ToolIndex \/ ToolStatus \/ ToolStructural \/ ProbeFederated \/ ProbeState
       PROVE JobInv'
  BY <1>11, JobSpawn, JobStutter
     DEF Initialize, ToolIndex, ToolStatus, ToolStructural, ProbeFederated, ProbeState, NoSpawn
<1>12. ASSUME Search PROVE JobInv'
  BY <1>12, JobSpawn, JobStutter
     DEF Search, ProbeSwitch, Refresh, Lookup, OpenDb, OpenRest, OpenFails, Insert, SemanticLookup,
         Reply, Compute, SemanticStore, NoSpawn
<1>13. ASSUME Evict PROVE JobInv'
  BY <1>13, NameAssumption DEF Evict, JobInv, OnlyOne, BuildingMeansOne, Statuses
<1>14. ASSUME Checkout \/ Edit \/ UNCHANGED vars PROVE JobInv'
  BY <1>14, JobStutter DEF Checkout, Edit, vars
<1>. QED
  BY <1>1, <1>2, <1>3, <1>4, <1>5, <1>6, <1>7, <1>8, <1>9, <1>10, <1>11, <1>12, <1>13, <1>14
     DEF Next, Index

LEMMA JobsHold == Spec => []JobInv
<1>1. JobInv /\ [Next]_vars => JobInv'
  BY JobNext
<1>. QED
  BY JobInit, <1>1, PTL DEF Spec

\* At most one thread of a server works on a project, and the project is Building exactly
\* while one does or has died of a panic (spawn_background_index, index_states).
THEOREM OneThread == Spec => []OneBuild
<1>1. JobInv => OneBuild
  <2> SUFFICES ASSUME JobInv PROVE OneBuild OBVIOUS
  <2>1. status = "building" <=> Active # {}
    BY DEF JobInv, BuildingMeansOne, Active
  <2>2. CASE Active = {}
    BY <2>1, <2>2, FS_EmptySet DEF OneBuild
  <2>3. CASE Active # {}
    <3>1. PICK w \in Workers : Active = {w}
      BY <2>3 DEF Active, JobInv, OnlyOne
    <3>2. Cardinality(Active) = 1
      BY <3>1, FS_Singleton
    <3>. QED
      BY <2>1, <3>2 DEF OneBuild
  <2>. QED
    BY <2>2, <2>3
<1>. QED
  BY JobsHold, <1>1, PTL

-----------------------------------------------------------------------------
(* The index.                                                              *)

RootType == root \in [meta : Metas, side : Branches \cup {None}, ino : Nat, stamp : Nat, builds : Nat,
                      db : Versions \cup {None}, rest : Versions \cup {None}]
LockInv == lock \in Procs \cup {None} /\ \A p \in Procs : lock = p <=> job[p] \in Writing

LEMMA Counters == ASSUME RootType PROVE root.ino + 1 \in Nat /\ root.builds + 1 \in Nat
<1>1. root.ino \in Nat /\ root.builds \in Nat
  BY DEF RootType
<1>. QED
  BY <1>1

\* Who stamps has written chunks.db, and who restores has a snapshot
RootWhole ==
    /\ root.meta = "ok" => root.db # None /\ root.rest # None
    /\ root.rest # None => root.db # None
    /\ \A p \in Procs : job[p] = "stamp" => root.db # None
    /\ \A p \in Procs : job[p] = "restore" => snap[head] # None /\ root.db # None

IndexInv ==
    /\ head \in Branches /\ edits \in 0 .. MaxEdits
    /\ RootType
    /\ snap \in [Branches -> Snapshots \cup {None}]
    /\ LockInv
    /\ RootWhole

LEMMA TreeType == ASSUME IndexInv PROVE Tree \in Versions /\ Tree # None
  BY NoneAssumption DEF IndexInv, Tree, Versions

LEMMA IndexInit == Init => IndexInv
<1> SUFFICES ASSUME Init PROVE IndexInv OBVIOUS
<1>1. head \in Branches /\ edits = 0 /\ edits \in 0 .. MaxEdits
  BY BoundsAssumption DEF Init
<1>2. Tree \in Versions /\ Tree # None
  BY <1>1, NoneAssumption DEF Tree, Versions
<1>3. LockInv
  BY NameAssumption DEF Init, LockInv, Writing, Procs
<1>4. \A p \in Procs : job[p] = "idle"
  BY DEF Init
<1>5. RootType /\ RootWhole
  BY <1>1, <1>2, <1>4 DEF Init, RootType, RootWhole, Metas
<1>6. \A b \in Branches : FirstSnapshot(b) \in Snapshots
  BY BoundsAssumption DEF FirstSnapshot, Snapshots, Versions
<1>7. snap \in [Branches -> Snapshots \cup {None}]
  BY <1>6 DEF Init
<1>. QED
  BY <1>1, <1>3, <1>5, <1>7 DEF IndexInv

\* A step of p from one phase to another that takes the lock, keeps it or gives it back
LEMMA LockMoves == ASSUME JobInv, LockInv, NEW p \in Procs, NEW j \in Phases,
                          job' = [job EXCEPT ![p] = j],
                          \/ j \in Writing /\ lock' = p /\ lock \in {p, None}
                          \/ j \notin Writing /\ lock' = IF lock = p THEN None ELSE lock
                   PROVE  LockInv'
  BY NameAssumption DEF JobInv, LockInv, Procs

\* Whoever does not write leaves the lock and the index alone
LEMMA IndexKept == ASSUME JobInv, IndexInv, UNCHANGED <<index, head, edits>>, job' \in [Procs -> Phases],
                          \A p \in Procs : \/ job'[p] = job[p]
                                           \/ job[p] \notin Writing /\ job'[p] \notin Writing
                   PROVE  IndexInv'
<1>1. UNCHANGED <<root, snap, lock>>
  BY DEF index
<1>2. LockInv'
  BY <1>1 DEF IndexInv, LockInv, JobInv
<1>3. RootWhole'
  BY <1>1 DEF IndexInv, RootWhole, Writing
<1>. QED
  BY <1>1, <1>2, <1>3 DEF IndexInv, RootType

LEMMA IndexSpawn == ASSUME JobInv, IndexInv, Spawn, UNCHANGED <<index, user>> PROVE IndexInv'
<1>1. CASE job' = job
  BY <1>1, IndexKept DEF user, JobInv
<1>2. CASE /\ \E w \in Workers : job[w] = "idle"
           /\ job' = [job EXCEPT ![FreeName] = "switch"]
  <2>1. FreeName \in Workers /\ job[FreeName] = "idle" /\ Workers \subseteq Procs
    BY <1>2 DEF FreeName, Procs
  <2>2. job' \in [Procs -> Phases]
    BY <1>2, <2>1 DEF JobInv, Phases
  <2>3. \A p \in Procs : \/ job'[p] = job[p]
                         \/ job[p] \notin Writing /\ job'[p] \notin Writing
    BY <1>2, <2>1 DEF JobInv, Writing
  <2>. QED
    BY <2>2, <2>3, IndexKept DEF user
<1>. QED
  BY <1>1, <1>2 DEF Spawn, NoSpawn

\* The steps of the threads that leave the index alone
LEMMA IndexQuiet == ASSUME JobInv, IndexInv, NEW p \in Procs, NEW j \in Phases,
                           job[p] \notin Writing, j \notin Writing, job' = [job EXCEPT ![p] = j],
                           UNCHANGED <<index, user>>
                    PROVE  IndexInv'
<1>1. job' \in [Procs -> Phases]
  BY DEF JobInv
<1>2. \A q \in Procs : \/ job'[q] = job[q]
                       \/ job[q] \notin Writing /\ job'[q] \notin Writing
  BY DEF JobInv
<1>. QED
  BY <1>1, <1>2, IndexKept DEF user

\* Only the holder of the lock is in the middle of a write
LEMMA OneWriter == ASSUME JobInv, LockInv, NEW p \in Procs, lock = p \/ lock = None, NEW q \in Procs, q # p
                   PROVE  job[q] \notin Writing
  BY NameAssumption DEF LockInv, Procs

LEMMA IndexStep == ASSUME JobInv, IndexInv, NEW p \in Procs, Index(p) PROVE IndexInv'
<1> USE DEF Phases, Writing
<1>0. RootType /\ LockInv /\ RootWhole /\ head \in Branches /\ edits \in 0 .. MaxEdits
      /\ snap \in [Branches -> Snapshots \cup {None}]
  BY DEF IndexInv
<1>1. ASSUME Switch(p) PROVE IndexInv'
  <2>1. CASE ~Pending
    BY <1>1, <2>1, IndexQuiet DEF Switch
  <2>2. CASE Pending /\ snap[head] # None
    <3>1. /\ lock' = p /\ lock = None /\ job' = [job EXCEPT ![p] = "restore"]
          /\ root' = [root EXCEPT !.db = snap[head].db, !.ino = @ + 1]
          /\ UNCHANGED <<snap, head, edits>>
      BY <1>1, <2>2 DEF Switch, Locked, user
    <3>2. LockInv'
      BY <1>0, <3>1, LockMoves
    <3>3. snap[head] \in Snapshots
      BY <1>0, <2>2
    <3>4. snap[head].db \in Versions /\ snap[head].db # None
      BY <3>3, NoneAssumption DEF Snapshots
    <3>5. RootType'
      BY <1>0, <3>1, <3>4, Counters DEF RootType
    <3>6. \A q \in Procs \ {p} : job'[q] \notin Writing
      BY <1>0, <3>1, OneWriter DEF JobInv
    <3>7. root'.db # None /\ snap'[head'] # None /\ root'.meta = root.meta /\ root'.rest = root.rest
      BY <1>0, <2>2, <3>1, <3>4 DEF RootType
    <3>8. RootWhole'
      BY <1>0, <3>6, <3>7 DEF RootWhole
    <3>. QED
      BY <1>0, <3>1, <3>2, <3>5, <3>8 DEF IndexInv
  <2>3. CASE Pending /\ snap[head] = None
    <3>1. /\ UNCHANGED <<root, lock, head, edits>> /\ lock = None /\ job' = [job EXCEPT ![p] = "index"]
          /\ \/ UNCHANGED snap
             \/ root.rest # None /\ snap' = [snap EXCEPT ![root.side] =
                                    [db |-> root.db, rest |-> root.rest, stamp |-> root.stamp]]
      BY <1>1, <2>3 DEF Switch, Locked, user
    <3>2. root.side \in Branches
      BY <1>0, <2>3 DEF RootType, Pending
    <3>3. root.rest # None => [db |-> root.db, rest |-> root.rest, stamp |-> root.stamp] \in Snapshots
      BY <1>0 DEF RootType, RootWhole, Snapshots
    <3>4. snap' \in [Branches -> Snapshots \cup {None}]
      BY <1>0, <3>1, <3>2, <3>3
    <3>5. LockInv'
      BY <1>0, <3>1, LockMoves
    <3>6. \A q \in Procs : job'[q] \notin Writing
      BY <1>0, <3>1, OneWriter DEF JobInv
    <3>7. RootWhole'
      BY <1>0, <3>1, <3>6 DEF RootWhole
    <3>. QED
      BY <1>0, <3>1, <3>4, <3>5, <3>7 DEF IndexInv, RootType
  <2>. QED
    BY <1>1, <2>1, <2>2, <2>3 DEF Switch
<1>2. ASSUME Restore(p) PROVE IndexInv'
  <2>1. /\ job[p] = "restore" /\ lock = p /\ lock' = None /\ job' = [job EXCEPT ![p] = "index"]
        /\ root' = [root EXCEPT !.meta = "ok", !.rest = snap[head].rest, !.stamp = snap[head].stamp,
                                !.side = head]
        /\ UNCHANGED <<snap, head, edits>>
    BY <1>0, <1>2 DEF Restore, LockInv, user
  <2>2. snap[head] \in Snapshots /\ root.db # None
    BY <1>0, <2>1 DEF RootWhole
  <2>3. snap[head].rest \in Versions /\ snap[head].rest # None /\ snap[head].stamp \in Nat
    BY <2>2, NoneAssumption DEF Snapshots
  <2>4. RootType' /\ root'.db # None /\ root'.rest # None
    BY <1>0, <2>1, <2>2, <2>3 DEF RootType, Metas
  <2>5. LockInv'
    BY <1>0, <2>1, LockMoves
  <2>6. \A q \in Procs : job'[q] \notin Writing
    BY <1>0, <2>1, OneWriter DEF JobInv
  <2>7. RootWhole'
    BY <2>4, <2>6 DEF RootWhole
  <2>. QED
    BY <1>0, <2>1, <2>4, <2>5, <2>7 DEF IndexInv
<1>3. ASSUME BuildStarts(p) PROVE IndexInv'
  <2>1. /\ lock = None /\ lock' = p /\ job' = [job EXCEPT ![p] = "build"]
        /\ root' = IF root.meta = "schema"
                   THEN [root EXCEPT !.meta = "none", !.db = None, !.rest = None, !.ino = @ + 1]
                   ELSE root
        /\ UNCHANGED <<snap, head, edits>>
    BY <1>3 DEF BuildStarts, Locked, user
  <2>2. RootType'
    BY <1>0, <2>1, Counters DEF RootType, Metas
  <2>3. LockInv'
    BY <1>0, <2>1, LockMoves
  <2>4. \A q \in Procs : job'[q] \notin {"stamp", "restore"}
    BY <1>0, <2>1, OneWriter DEF JobInv
  <2>5. RootWhole'
    BY <1>0, <2>1, <2>4 DEF RootWhole, RootType
  <2>. QED
    BY <1>0, <2>1, <2>2, <2>3, <2>5 DEF IndexInv
<1>4. ASSUME BuildsNothing(p) PROVE IndexInv'
  <2>1. /\ job[p] = "build" /\ lock = p /\ lock' = None /\ job' = [job EXCEPT ![p] = Built(p)]
        /\ root' = [root EXCEPT !.side = head] /\ snap' = Mirrored(root) /\ root.meta = "ok"
        /\ UNCHANGED <<head, edits>>
    BY <1>0, <1>4 DEF BuildsNothing, LockInv, user
  <2>2. RootType' /\ root'.meta = root.meta /\ root'.db = root.db /\ root'.rest = root.rest
    BY <1>0, <2>1 DEF RootType
  <2>3. [db |-> root.db, rest |-> root.rest, stamp |-> root.stamp] \in Snapshots
    BY <1>0, <2>1 DEF RootType, RootWhole, Snapshots
  <2>4. snap' \in [Branches -> Snapshots \cup {None}]
    BY <1>0, <2>1, <2>3 DEF Mirrored
  <2>5. Built(p) \in {"idle", "removed"}
    BY DEF Built
  <2>6. LockInv'
    BY <1>0, <2>1, <2>5, LockMoves
  <2>7. \A q \in Procs : job'[q] \notin Writing
    BY <1>0, <2>1, <2>5, OneWriter DEF JobInv
  <2>8. RootWhole'
    BY <1>0, <2>2, <2>7 DEF RootWhole
  <2>. QED
    BY <1>0, <2>1, <2>2, <2>4, <2>6, <2>8 DEF IndexInv
<1>5. ASSUME BuildsChunks(p) PROVE IndexInv'
  <2>1. /\ job[p] = "build" /\ lock = p /\ lock' = p /\ job' = [job EXCEPT ![p] = "stamp"]
        /\ root' = [root EXCEPT !.db = Tree]
        /\ UNCHANGED <<snap, head, edits>>
    BY <1>0, <1>5 DEF BuildsChunks, LockInv, user
  <2>2. Tree \in Versions /\ Tree # None
    BY TreeType
  <2>3. RootType' /\ root'.db # None /\ root'.rest = root.rest /\ root'.meta = root.meta
    BY <1>0, <2>1, <2>2 DEF RootType
  <2>4. LockInv'
    BY <1>0, <2>1, LockMoves
  <2>5. \A q \in Procs : job'[q] # "restore"
    BY <1>0, <2>1, OneWriter DEF JobInv
  <2>6. RootWhole'
    BY <1>0, <2>3, <2>5 DEF RootWhole
  <2>. QED
    BY <1>0, <2>1, <2>3, <2>4, <2>6 DEF IndexInv
<1>6. ASSUME BuildsRest(p) PROVE IndexInv'
  <2> DEFINE r == [root EXCEPT !.meta = "ok", !.rest = root.db, !.side = head,
                              !.stamp = root.builds + 1, !.builds = @ + 1]
  <2>1. /\ job[p] = "stamp" /\ lock = p /\ lock' = None /\ job' = [job EXCEPT ![p] = Built(p)]
        /\ root' = r /\ snap' = Mirrored(r)
        /\ UNCHANGED <<head, edits>>
    BY <1>0, <1>6 DEF BuildsRest, LockInv, user
  <2>2. root.db \in Versions /\ root.db # None
    BY <1>0, <2>1 DEF RootType, RootWhole
  <2>3. RootType' /\ r.db = root.db /\ r.rest = root.db /\ r.stamp \in Nat
    BY <1>0, <2>1, <2>2, Counters DEF RootType, Metas
  <2>4. [db |-> r.db, rest |-> r.rest, stamp |-> r.stamp] \in Snapshots
    BY <2>2, <2>3 DEF Snapshots
  <2>5. snap' \in [Branches -> Snapshots \cup {None}]
    BY <1>0, <2>1, <2>4 DEF Mirrored
  <2>6. Built(p) \in {"idle", "removed"}
    BY DEF Built
  <2>7. LockInv'
    BY <1>0, <2>1, <2>6, LockMoves
  <2>8. \A q \in Procs : job'[q] \notin Writing
    BY <1>0, <2>1, <2>6, OneWriter DEF JobInv
  <2>9. RootWhole'
    BY <2>1, <2>2, <2>3, <2>8 DEF RootWhole
  <2>. QED
    BY <1>0, <2>1, <2>3, <2>5, <2>7, <2>9 DEF IndexInv
<1>. QED
  BY <1>1, <1>2, <1>3, <1>4, <1>5, <1>6 DEF Index

\* A write cut short leaves the index as it is and gives the lock back
LEMMA IndexCut == ASSUME JobInv, IndexInv, NEW p \in Procs, NEW j \in Phases, j \notin Writing,
                         job' = [job EXCEPT ![p] = j], lock' = IF lock = p THEN None ELSE lock,
                         UNCHANGED <<root, snap, head, edits>>
                  PROVE  IndexInv'
<1>1. LockInv'
  BY LockMoves DEF IndexInv
<1>2. \A q \in Procs : job'[q] = job[q] \/ job'[q] \notin Writing
  BY DEF JobInv
<1>3. RootWhole'
  BY <1>2 DEF IndexInv, RootWhole, Writing
<1>. QED
  BY <1>1, <1>3 DEF IndexInv, RootType

LEMMA IndexNext == ASSUME JobInv, IndexInv, [Next]_vars PROVE IndexInv'
<1> USE DEF Phases, Writing
<1>1. ASSUME NEW p \in Procs, SwitchFails(p) \/ BuildFails(p) PROVE IndexInv'
  <2>1. PICK j \in {"index", "idle"} : job' = [job EXCEPT ![p] = j]
    BY <1>1 DEF SwitchFails, BuildFails
  <2>. QED
    BY <1>1, <2>1, IndexCut DEF SwitchFails, BuildFails, user
<1>2. ASSUME NEW w \in Workers, Panic(w) PROVE IndexInv'
  BY <1>2, IndexCut DEF Panic, user, Procs
<1>3. ASSUME NEW w \in Workers, RemoveSearcher(w) \/ SetReady(w) PROVE IndexInv'
  <2>1. w \in Procs
    BY DEF Procs
  <2>2. CASE RemoveSearcher(w)
    BY <2>1, <2>2, IndexQuiet DEF RemoveSearcher
  <2>3. CASE SetReady(w)
    BY <2>1, <2>3, IndexQuiet DEF SetReady, user
  <2>. QED
    BY <1>3, <2>2, <2>3
<1>4. ASSUME OtherStarts PROVE IndexInv'
  BY <1>4, IndexQuiet DEF OtherStarts, Procs
<1>5. ASSUME \/ Initialize \/ ToolIndex \/ ToolStatus \/ ToolStructural \/ ProbeFederated \/ ProbeState
             \/ Search \/ Evict \/ UNCHANGED vars
      PROVE IndexInv'
  <2>1. UNCHANGED <<index, user>>
    BY <1>5 DEF Initialize, ToolIndex, ToolStatus, ToolStructural, ProbeFederated, ProbeState, Evict,
         Search, ProbeSwitch, Refresh, Lookup, OpenDb, OpenRest, OpenFails, Insert, SemanticLookup,
         Reply, Compute, SemanticStore, vars
  <2>2. Spawn \/ job' = job
    BY <1>5 DEF Initialize, ToolIndex, ToolStatus, ToolStructural, ProbeFederated, ProbeState, Evict,
         Search, ProbeSwitch, Refresh, Lookup, OpenDb, OpenRest, OpenFails, Insert, SemanticLookup,
         Reply, Compute, SemanticStore, vars, NoSpawn
  <2>. QED
    BY <2>1, <2>2, IndexSpawn, IndexKept DEF user, JobInv
<1>6. ASSUME Checkout PROVE IndexInv'
  <2>1. UNCHANGED <<root, snap, lock, job, edits>> /\ head' \in Branches /\ lock = None
    BY <1>6 DEF Checkout, Locked, index
  <2>2. \A p \in Procs : job[p] \notin Writing
    BY <2>1, NameAssumption DEF IndexInv, LockInv, Procs
  <2>. QED
    BY <2>1, <2>2 DEF IndexInv, RootType, LockInv, RootWhole
<1>7. ASSUME Edit PROVE IndexInv'
  <2>1. UNCHANGED <<root, snap, lock, job, head>> /\ edits' = edits + 1 /\ edits < MaxEdits
    BY <1>7 DEF Edit, index
  <2>. QED
    BY <2>1, BoundsAssumption DEF IndexInv, RootType, LockInv, RootWhole
<1>. QED
  BY <1>1, <1>2, <1>3, <1>4, <1>5, <1>6, <1>7, IndexStep DEF Next

LEMMA IndexHolds == Spec => []IndexInv
<1>1. JobInv /\ IndexInv /\ [Next]_vars => IndexInv'
  BY IndexNext
<1>. QED
  BY IndexInit, JobsHold, <1>1, PTL DEF Spec

-----------------------------------------------------------------------------
(* The searchers.                                                          *)

Using == {"search", "reply", "compute", "store"}

MainType ==
    /\ main \in Mains
    /\ main.pc \in {"openRest", "insert"} \cup Using => main.s # None
    /\ main.pc \in {"reply", "store"} => main.got # None
    /\ main.held => main.pc \in Using /\ main.s = entry

Whole(s) == s # None => s.rest # None

SessionInv ==
    /\ entry \in Searchers \cup {None}
    /\ MainType
    /\ Whole(entry)
    /\ main.pc # "openRest" => Whole(main.s)

LEMMA ToldType == ASSUME NEW s \in Searchers \cup {None}, NEW C \in SUBSET Causes
                  PROVE  /\ Told(s, C) \in Searchers \cup {None}
                         /\ s = None => Told(s, C) = None
                         /\ s # None => /\ Told(s, C) # None
                                        /\ Told(s, C).ino = s.ino /\ Told(s, C).rest = s.rest
                                        /\ Told(s, C).causes = s.causes \cup C
<1>1. CASE s = None
  BY <1>1 DEF Told
<1>2. CASE s # None
  <2>1. s \in Searchers /\ Told(s, C) = [s EXCEPT !.causes = @ \cup C]
    BY <1>2 DEF Told
  <2>2. Told(s, C) \in Searchers
    BY <2>1 DEF Searchers
  <2>3. /\ Told(s, C).ino = s.ino /\ Told(s, C).rest = s.rest
        /\ Told(s, C).causes = s.causes \cup C
    BY <2>1 DEF Searchers
  <2>. QED
    BY <1>2, <2>2, <2>3, NoneAssumption
<1>. QED
  BY <1>1, <1>2

LEMMA MainFields == ASSUME main \in Mains
                    PROVE  /\ main.s \in Searchers \cup {None} /\ main.got \in Answers \cup {None}
                           /\ main.at \in SUBSET Branches /\ main.during \in BOOLEAN
                           /\ main.held \in BOOLEAN
  BY DEF Mains

\* A searcher and what it is after its history was added to
Marked(s, t) ==
    /\ t \in Searchers \cup {None}
    /\ s = None <=> t = None
    /\ s # None => t.ino = s.ino /\ t.rest = s.rest /\ s.causes \subseteq t.causes

LEMMA ToldMarks == ASSUME NEW s \in Searchers \cup {None}, NEW C \in SUBSET Causes
                   PROVE  Marked(s, Told(s, C)) /\ (s # None => Told(s, C).answer = s.answer)
<1>1. s # None => Told(s, C).answer = s.answer
  BY DEF Told, Searchers
<1>. QED
  BY <1>1, ToldType DEF Marked

LEMMA DoubtType == ASSUME NEW a \in Answers \cup {None}
                   PROVE  /\ Doubt(a) \in Answers \cup {None}
                          /\ a = None <=> Doubt(a) = None
                          /\ a # None => /\ Doubt(a).raced
                                         /\ Doubt(a).db = a.db /\ Doubt(a).stamp = a.stamp
<1>1. CASE a = None
  BY <1>1 DEF Doubt
<1>2. CASE a # None
  <2>1. a \in Answers /\ Doubt(a) = [a EXCEPT !.raced = TRUE]
    BY <1>2 DEF Doubt
  <2>2. Doubt(a) \in Answers /\ Doubt(a).raced /\ Doubt(a).db = a.db /\ Doubt(a).stamp = a.stamp
    BY <2>1 DEF Answers
  <2>. QED
    BY <1>2, <2>2, NoneAssumption
<1>. QED
  BY <1>1, <1>2

LEMMA CutType == ASSUME NEW p, NEW a \in Answers \cup {None}
                 PROVE  Cut(p, a) \in Answers \cup {None} /\ (a = None <=> Cut(p, a) = None)
  BY DoubtType DEF Cut

LEMMA FailedMarks == ASSUME NEW p, NEW s \in Searchers \cup {None}
                     PROVE  /\ Marked(s, Failed(p, s))
                            /\ s # None => /\ Failed(p, s).causes = s.causes \cup {"failed"}
                                           /\ Failed(p, s).answer = Cut(p, s.answer)
<1>1. CASE s = None
  BY <1>1 DEF Failed, Marked
<1>2. CASE s # None
  <2> DEFINE t == Told(s, {"failed"})
  <2>1. {"failed"} \in SUBSET Causes
    BY DEF Causes
  <2>2. t \in Searchers /\ t.ino = s.ino /\ t.rest = s.rest /\ t.causes = s.causes \cup {"failed"}
        /\ t.answer = s.answer
    BY <1>2, <2>1, ToldType, ToldMarks
  <2>3. Failed(p, s) = [t EXCEPT !.answer = Cut(p, t.answer)]
    BY <1>2 DEF Failed
  <2> HIDE DEF t
  <2>4. t.answer \in Answers \cup {None}
    BY <2>2 DEF Searchers
  <2>5. Cut(p, t.answer) \in Answers \cup {None}
    BY <2>4, CutType
  <2>6. Failed(p, s) \in Searchers
    BY <2>2, <2>3, <2>5 DEF Searchers
  <2>7. /\ Failed(p, s).ino = t.ino /\ Failed(p, s).rest = t.rest
        /\ Failed(p, s).causes = t.causes /\ Failed(p, s).answer = Cut(p, t.answer)
    BY <2>2, <2>3 DEF Searchers
  <2>. QED
    BY <1>2, <2>2, <2>6, <2>7, NoneAssumption DEF Marked
<1>. QED
  BY <1>1, <1>2

\* The history of the searchers and of the answer in hand grows
LEMMA SessionMarked == ASSUME SessionInv, NEW e, NEW t, NEW g \in Answers \cup {None},
                              Marked(entry, e), Marked(main.s, t), main.s = entry => t = e,
                              main.got = None <=> g = None,
                              entry' = e, main' = [main EXCEPT !.s = t, !.got = g]
                       PROVE  SessionInv'
<1>1. main \in Mains /\ main.s \in Searchers \cup {None}
  BY MainFields DEF SessionInv, MainType
<1>2. /\ main' \in Mains /\ main'.pc = main.pc /\ main'.s = t /\ main'.got = g
      /\ main'.held = main.held
  BY <1>1 DEF Mains, Marked
<1>3. Whole(entry) => Whole(e)
  BY DEF Whole, Marked, SessionInv
<1>4. Whole(main.s) => Whole(t)
  BY DEF Whole, Marked
<1>. QED
  BY <1>1, <1>2, <1>3, <1>4 DEF SessionInv, MainType, Marked

\* What a write, and a write cut short, leave of the searchers and the answer in hand
LEMMA WroteLeaves == ASSUME SessionInv, NEW p, Wrote(p)
                     PROVE  \E C \in SUBSET Causes :
                               /\ C = IF p = Other THEN {"foreign"} ELSE {}
                               /\ entry' = Told(entry, C)
                               /\ main' = [main EXCEPT !.s = Told(main.s, C), !.got = Doubt(main.got)]
<1>1. (IF p = Other THEN {"foreign"} ELSE {}) \in SUBSET Causes
  BY DEF Causes
<1>. QED
  BY <1>1 DEF Wrote

LEMMA SessionWrote == ASSUME SessionInv, NEW p, Wrote(p) PROVE SessionInv'
<1>1. PICK C \in SUBSET Causes :
        /\ entry' = Told(entry, C)
        /\ main' = [main EXCEPT !.s = Told(main.s, C), !.got = Doubt(main.got)]
  BY WroteLeaves
<1>2. /\ main.s \in Searchers \cup {None} /\ main.got \in Answers \cup {None}
      /\ entry \in Searchers \cup {None}
  BY MainFields DEF SessionInv, MainType
<1>3. Marked(entry, Told(entry, C)) /\ Marked(main.s, Told(main.s, C))
  BY <1>2, ToldMarks
<1>4. Doubt(main.got) \in Answers \cup {None} /\ (main.got = None <=> Doubt(main.got) = None)
  BY <1>2, DoubtType
<1>. QED
  BY <1>1, <1>3, <1>4, SessionMarked

LEMMA SessionBlame == ASSUME SessionInv, NEW p, Blame(p) PROVE SessionInv'
<1>1. entry' = Failed(p, entry) /\ main' = [main EXCEPT !.s = Failed(p, main.s), !.got = Cut(p, main.got)]
  BY DEF Blame
<1>2. /\ main.s \in Searchers \cup {None} /\ main.got \in Answers \cup {None}
      /\ entry \in Searchers \cup {None}
  BY MainFields DEF SessionInv, MainType
<1>3. Marked(entry, Failed(p, entry)) /\ Marked(main.s, Failed(p, main.s))
  BY <1>2, FailedMarks
<1>4. Cut(p, main.got) \in Answers \cup {None} /\ (main.got = None <=> Cut(p, main.got) = None)
  BY <1>2, CutType
<1>. QED
  BY <1>1, <1>3, <1>4, SessionMarked

LEMMA AtRestType == AtRest \in Mains /\ AtRest.pc = "idle" /\ AtRest.held = FALSE /\ AtRest.s = None
  BY DEF AtRest, Mains

LEMMA SessionRest == ASSUME SessionInv, main' = AtRest, entry' = entry \/ entry' = None PROVE SessionInv'
  BY AtRestType DEF SessionInv, MainType, Whole, Using

LEMMA SessionKept == ASSUME SessionInv, UNCHANGED <<entry, main>> PROVE SessionInv'
  BY DEF SessionInv, MainType, Whole

\* Away from a search the searcher may go at any time
LEMMA SessionDropped == ASSUME SessionInv, main.pc = "idle", entry' = None, UNCHANGED main PROVE SessionInv'
  BY DEF SessionInv, MainType, Whole, Using

LEMMA SessionInit == Init => SessionInv
  BY AtRestType DEF Init, SessionInv, MainType, Whole, Using

LEMMA SessionSearch == ASSUME IndexInv, SessionInv, Search PROVE SessionInv'
<1>0. /\ main \in Mains /\ main.s \in Searchers \cup {None} /\ main.got \in Answers \cup {None}
      /\ main.at \in SUBSET Branches /\ entry \in Searchers \cup {None} /\ head \in Branches
  BY MainFields DEF SessionInv, MainType, IndexInv
<1>1. ASSUME ProbeSwitch PROVE SessionInv'
  <2>1. CASE main' = AtRest /\ entry' = None
    BY <2>1, SessionRest
  <2>2. CASE main' = [main EXCEPT !.pc = "refresh", !.at = {head}] /\ entry' = entry
    <3>1. /\ main' \in Mains /\ main'.pc = "refresh" /\ main'.held = main.held /\ main'.s = main.s
      BY <1>0, <2>2 DEF Mains
    <3>. QED
      BY <1>1, <2>2, <3>1 DEF ProbeSwitch, SessionInv, MainType, Whole, Using
  <2>. QED
    BY <1>1, <2>1, <2>2 DEF ProbeSwitch
<1>2. ASSUME Refresh PROVE SessionInv'
  <2>1. main' \in Mains /\ main'.pc = "lookup" /\ main'.held = main.held /\ main'.s = main.s
    BY <1>0, <1>2 DEF Refresh, Mains
  <2>. QED
    BY <1>2, <2>1 DEF Refresh, SessionInv, MainType, Whole, Using
<1>3. ASSUME Lookup PROVE SessionInv'
  <2>1. CASE main' = [main EXCEPT !.pc = "openDb"]
    <3>1. main' \in Mains /\ main'.pc = "openDb" /\ main'.held = main.held /\ main'.s = main.s
      BY <1>0, <2>1 DEF Opening, Mains
    <3>. QED
      BY <1>3, <3>1 DEF Lookup, SessionInv, MainType, Whole, Using
  <2>2. CASE /\ entry # None
             /\ main' = [main EXCEPT !.pc = "search", !.s = entry, !.held = TRUE,
                                     !.during = (status = "building")]
    <3>1. main' \in Mains /\ main'.pc = "search" /\ main'.held = TRUE /\ main'.s = entry
      BY <1>0, <2>2 DEF Mains
    <3>. QED
      BY <1>3, <2>2, <3>1 DEF Lookup, SessionInv, MainType, Whole, Using
  <2>. QED
    BY <1>3, <2>1, <2>2 DEF Lookup
<1>4. ASSUME OpenDb PROVE SessionInv'
  <2> DEFINE s == [ino |-> root.ino, rest |-> None, causes |-> {}, answer |-> None]
  <2>1. s \in Searchers /\ s # None
    BY NoneAssumption DEF IndexInv, RootType, Searchers, Causes
  <2>2. main' = [main EXCEPT !.pc = "openRest", !.during = (status = "building"), !.s = s]
    BY <1>4 DEF OpenDb
  <2> HIDE DEF s
  <2>3. main' \in Mains /\ main'.pc = "openRest" /\ main'.held = main.held /\ main'.s = s
    BY <1>0, <2>1, <2>2 DEF Opening, Mains
  <2>. QED
    BY <1>4, <2>1, <2>3 DEF OpenDb, SessionInv, MainType, Whole, Using
<1>5. ASSUME OpenRest PROVE SessionInv'
  <2> DEFINE s == [main.s EXCEPT !.rest = root.rest,
                                 !.causes = IF Finished THEN @ ELSE @ \cup {"unfinished"}]
  <2>1. main.s \in Searchers /\ root.rest \in Versions /\ root.rest # None
    BY <1>0, <1>5 DEF OpenRest, SessionInv, MainType, IndexInv, RootType
  <2>2. s \in Searchers /\ s.rest = root.rest
    BY <2>1 DEF Searchers, Causes
  <2>3. s # None
    BY <2>2, NoneAssumption
  <2>4. main' = [main EXCEPT !.pc = "insert", !.s = s]
    BY <1>0, <1>5, <2>1 DEF OpenRest, Searchers, Mains
  <2> HIDE DEF s
  <2>5. main' \in Mains /\ main'.pc = "insert" /\ main'.held = main.held /\ main'.s = s
    BY <1>0, <2>2, <2>4 DEF Opening, Mains
  <2>. QED
    BY <1>5, <2>1, <2>2, <2>3, <2>5 DEF OpenRest, SessionInv, MainType, Whole, Using
<1>6. ASSUME OpenFails PROVE SessionInv'
  BY <1>6, SessionRest DEF OpenFails
<1>7. ASSUME Insert PROVE SessionInv'
  <2>1. main' \in Mains /\ main'.pc = "search" /\ main'.held = TRUE /\ main'.s = main.s
    BY <1>0, <1>7 DEF Insert, Mains
  <2>. QED
    BY <1>0, <1>7, <2>1 DEF Insert, SessionInv, MainType, Whole, Using
<1>8. ASSUME SemanticLookup PROVE SessionInv'
  <2> DEFINE s == [main.s EXCEPT !.answer = Valid(@)]
  <2>1. main.s \in Searchers
    BY <1>0, <1>8 DEF SemanticLookup, SessionInv, MainType, Using
  <2>2. Valid(main.s.answer) \in Answers \cup {None}
    BY <2>1 DEF Valid, Searchers
  <2>3. s \in Searchers /\ s.rest = main.s.rest /\ s.answer \in Answers \cup {None}
    BY <2>1, <2>2 DEF Searchers
  <2>4. s # None
    BY <2>3, NoneAssumption
  <2>5. \/ main' = [main EXCEPT !.pc = "reply", !.s = s, !.got = s.answer] /\ s.answer # None
        \/ main' = [main EXCEPT !.pc = "compute", !.s = s]
    BY <1>8 DEF SemanticLookup, Hit, Miss
  <2>6. entry' = IF main.held THEN s ELSE entry
    BY <1>8 DEF SemanticLookup, Keep
  <2> HIDE DEF s
  <2>7. /\ main' \in Mains /\ main'.pc \in {"reply", "compute"} /\ main'.held = main.held /\ main'.s = s
        /\ main'.pc = "reply" => main'.got # None
    BY <1>0, <2>3, <2>5 DEF Mains
  <2>8. s.rest # None
    BY <1>8, <2>1, <2>3, NoneAssumption DEF SemanticLookup, SessionInv, MainType, Whole, Using
  <2>. QED
    BY <1>0, <2>3, <2>4, <2>6, <2>7, <2>8 DEF SessionInv, MainType, Whole, Using
<1>9. ASSUME Reply PROVE SessionInv'
  BY <1>9, SessionRest DEF Reply
<1>10. ASSUME Compute PROVE SessionInv'
  <2> DEFINE g == [db |-> root.db, stamp |-> 0, raced |-> FALSE]
  <2>1. g \in Answers
    <3>1. root.db \in Versions \cup {None}
      BY DEF IndexInv, RootType
    <3>. QED
      BY <3>1 DEF Answers
  <2>0. g # None
    BY <2>1, NoneAssumption
  <2>2. main' = [main EXCEPT !.pc = "store", !.got = g]
    BY <1>10 DEF Compute
  <2> HIDE DEF g
  <2>3. /\ main' \in Mains /\ main'.pc = "store" /\ main'.held = main.held /\ main'.s = main.s
        /\ main'.got = g
    BY <1>0, <2>1, <2>2 DEF Mains
  <2>. QED
    BY <1>10, <2>0, <2>3 DEF Compute, SessionInv, MainType, Whole, Using
<1>11. ASSUME SemanticStore PROVE SessionInv'
  <2> DEFINE a == [main.got EXCEPT !.stamp = root.stamp]
             s == [main.s EXCEPT !.answer = a]
  <2>1. main.s \in Searchers /\ main.got \in Answers /\ main.s # None
    BY <1>0, <1>11 DEF SemanticStore, SessionInv, MainType, Using
  <2>2. a \in Answers
    BY <2>1 DEF IndexInv, RootType, Answers
  <2>3. s \in Searchers /\ s.rest = main.s.rest
    BY <2>1, <2>2 DEF Searchers
  <2>4. entry' = (IF main.held THEN s ELSE entry) /\ main' = AtRest
    BY <1>11 DEF SemanticStore, Keep
  <2> HIDE DEF s
  <2>5. main.s.rest # None
    BY <1>11, <2>1 DEF SemanticStore, SessionInv, Whole
  <2>. QED
    BY <1>0, <2>3, <2>4, <2>5, AtRestType DEF SessionInv, MainType, Whole, Using
<1>. QED
  BY <1>1, <1>2, <1>3, <1>4, <1>5, <1>6, <1>7, <1>8, <1>9, <1>10, <1>11 DEF Search

LEMMA SessionRemoved == ASSUME SessionInv, NEW w \in Workers, RemoveSearcher(w) PROVE SessionInv'
<1> DEFINE s == IF main.pc \in Opening THEN Told(main.s, {"raced"}) ELSE main.s
<1>1. main \in Mains /\ main.s \in Searchers \cup {None}
  BY MainFields DEF SessionInv, MainType
<1>2. entry' = None /\ main' = [main EXCEPT !.held = FALSE, !.s = s]
  BY DEF RemoveSearcher
<1>3. {"raced"} \in SUBSET Causes
  BY DEF Causes
<1>4. s \in Searchers \cup {None} /\ (main.s # None => s # None) /\ (Whole(main.s) => Whole(s))
  BY <1>1, <1>3, ToldType DEF Whole
<1> HIDE DEF s
<1>5. /\ main' \in Mains /\ main'.pc = main.pc /\ main'.held = FALSE /\ main'.s = s
      /\ main'.got = main.got
  BY <1>1, <1>2, <1>4 DEF Mains
<1>. QED
  BY <1>2, <1>4, <1>5 DEF SessionInv, MainType, Whole

LEMMA SessionNext == ASSUME IndexInv, SessionInv, [Next]_vars PROVE SessionInv'
<1>1. ASSUME NEW p \in Procs, Index(p) PROVE SessionInv'
  BY <1>1, SessionWrote, SessionKept
     DEF Index, Switch, Restore, BuildStarts, BuildsNothing, BuildsChunks, BuildsRest
<1>2. ASSUME NEW p \in Procs, SwitchFails(p) \/ BuildFails(p) PROVE SessionInv'
  BY <1>2, SessionBlame DEF SwitchFails, BuildFails
<1>3. ASSUME NEW w \in Workers, Panic(w) \/ SetReady(w) PROVE SessionInv'
  BY <1>3, SessionBlame, SessionKept DEF Panic, SetReady
<1>4. ASSUME OtherStarts \/ Initialize \/ ToolStatus \/ ToolStructural \/ Edit \/ UNCHANGED vars
      PROVE SessionInv'
  BY <1>4, SessionKept DEF OtherStarts, Initialize, ToolStatus, ToolStructural, Edit, vars
<1>5. ASSUME ToolIndex \/ Evict PROVE SessionInv'
  BY <1>5, SessionDropped DEF ToolIndex, Evict
<1>6. ASSUME ProbeFederated \/ ProbeState PROVE SessionInv'
  <2>1. CASE main' = main /\ entry' = entry
    BY <2>1, SessionKept
  <2>2. CASE \E pc \in {"lookup", "switch"} : main' = [main EXCEPT !.pc = pc] /\ entry' = entry
    <3>1. PICK pc \in {"lookup", "switch"} : main' = [main EXCEPT !.pc = pc] /\ entry' = entry
      BY <2>2
    <3>2. /\ main' \in Mains /\ main'.pc = pc /\ main'.s = main.s /\ main'.held = main.held
      BY <3>1 DEF SessionInv, MainType, Mains
    <3>3. main.pc = "idle"
      BY <1>6 DEF ProbeFederated, ProbeState
    <3>. QED
      BY <3>1, <3>2, <3>3 DEF SessionInv, MainType, Whole, Using
  <2>. QED
    BY <1>6, <2>1, <2>2 DEF ProbeFederated, ProbeState
<1>7. ASSUME Checkout PROVE SessionInv'
  <2>1. main \in Mains /\ main.at \in SUBSET Branches /\ head' \in Branches /\ entry' = entry
    BY <1>7, MainFields DEF SessionInv, MainType, Checkout
  <2>2. /\ main' \in Mains /\ main'.pc = main.pc /\ main'.s = main.s /\ main'.held = main.held
        /\ main'.got = main.got
    BY <1>7, <2>1 DEF Checkout, Mains
  <2>. QED
    BY <2>1, <2>2 DEF SessionInv, MainType, Whole
<1>. QED
  BY <1>1, <1>2, <1>3, <1>4, <1>5, <1>6, <1>7, SessionSearch, SessionRemoved DEF Next

LEMMA SessionsHold == Spec => []SessionInv
<1>1. IndexInv /\ SessionInv /\ [Next]_vars => SessionInv'
  BY SessionNext
<1>. QED
  BY SessionInit, IndexHolds, <1>1, PTL DEF Spec

\* The variables of the model keep their types: who holds the index lock is who writes, an
\* index with a readable meta.json has all its parts, and the searcher in use is the
\* cached one unless a thread has removed that (server.rs).
THEOREM TypeCorrect == Spec => []TypeOK
<1>1. JobInv /\ IndexInv /\ SessionInv => TypeOK
  BY DEF JobInv, IndexInv, RootType, LockInv, RootWhole, SessionInv, MainType, Whole, Using, TypeOK
<1>. QED
  BY JobsHold, IndexHolds, SessionsHold, <1>1, PTL

-----------------------------------------------------------------------------
(* The searcher against the live index.                                    *)

\* A thread of this server that will still drop the searcher, and the other process in the
\* middle of writing what it will then be blamed for
Working == \E w \in Workers : job[w] \in Writing \cup {"index", "removed"}
OtherWrites == job[Other] \in {"restore", "stamp"} \/ (job[Other] = "build" /\ root.meta # "ok")
Busy == Working \/ OtherWrites

Excused(s) == Live(s) \/ s.causes # {} \/ Busy

\* Of a searcher that is being opened only chunks.db is known
ExcuseInv ==
    /\ entry # None => Excused(entry)
    /\ main.pc = "openRest" => main.s.ino = root.ino \/ main.s.causes # {} \/ Busy
    /\ main.pc = "insert" => Excused(main.s)

\* Nothing is left to excuse once all searchers have a cause
LEMMA ExcuseBlamed == ASSUME SessionInv, NEW e, NEW t, Marked(entry, e), Marked(main.s, t),
                             e # None => e.causes # {}, t # None => t.causes # {},
                             entry' = e, main'.s = t, main'.pc = main.pc
                      PROVE  ExcuseInv'
<1>1. main'.pc \in {"openRest", "insert"} => main'.s.causes # {}
  BY DEF SessionInv, MainType, Marked
<1>. QED
  BY <1>1 DEF ExcuseInv, Excused

LEMMA ExcuseBusy == ASSUME Busy' PROVE ExcuseInv'
  BY DEF ExcuseInv, Excused

\* The index stays what it is, and who was busy still is
LEMMA ExcuseKept == ASSUME ExcuseInv, root'.ino = root.ino, root'.rest = root.rest, Busy => Busy',
                           \/ entry' = None
                           \/ entry' = entry
                           \/ /\ entry # None /\ entry'.ino = entry.ino /\ entry'.rest = entry.rest
                              /\ entry'.causes = entry.causes,
                           main'.pc \notin {"openRest", "insert"} \/ UNCHANGED <<main.pc, main.s>>
                    PROVE  ExcuseInv'
  BY DEF ExcuseInv, Excused, Live

LEMMA BusySpawn == ASSUME JobInv, Spawn, UNCHANGED root PROVE Busy => Busy'
<1>1. CASE job' = job
  BY <1>1 DEF Busy, Working, OtherWrites
<1>2. CASE /\ \E w \in Workers : job[w] = "idle"
           /\ job' = [job EXCEPT ![FreeName] = "switch"]
  <2>1. FreeName \in Workers /\ job[FreeName] = "idle" /\ Workers \subseteq Procs /\ Other \in Procs
    BY <1>2 DEF FreeName, Procs
  <2>2. /\ job'[Other] = job[Other]
        /\ \A w \in Workers : w # FreeName => job'[w] = job[w]
    BY <1>2, <2>1, NameAssumption DEF JobInv
  <2>3. job[FreeName] \notin Writing \cup {"index", "removed"}
    BY <2>1 DEF Writing
  <2>. QED
    BY <2>1, <2>2, <2>3 DEF Busy, Working, OtherWrites
<1>. QED
  BY <1>1, <1>2 DEF Spawn, NoSpawn

\* Where a step of the other process, or of a thread, leaves the others
LEMMA BusyStep == ASSUME JobInv, NEW p \in Procs, NEW j \in Phases, job' = [job EXCEPT ![p] = j]
                  PROVE  /\ p \in Workers /\ j \in Writing \cup {"index", "removed"} => Busy'
                         /\ p = Other => (Working => Working')
                         /\ p = Other => job'[Other] = j
                         /\ p # Other => job'[Other] = job[Other] /\ p \in Workers
<1>1. job'[p] = j /\ \A q \in Procs \ {p} : job'[q] = job[q]
  BY DEF JobInv
<1>. QED
  BY <1>1, NameAssumption DEF Busy, Working, Procs

LEMMA ExcuseIndex == ASSUME JobInv, IndexInv, SessionInv, ExcuseInv, NEW p \in Procs, Index(p)
                     PROVE  ExcuseInv'
<1> USE DEF Phases, Writing
<1>1. ASSUME Switch(p) PROVE ExcuseInv'
  <2>1. CASE job' = [job EXCEPT ![p] = "restore"]
    <3>1. Busy'
      BY <2>1, BusyStep DEF Busy, OtherWrites
    <3>. QED
      BY <3>1, ExcuseBusy
  <2>2. CASE job' = [job EXCEPT ![p] = "index"] /\ UNCHANGED root
    <3>1. CASE p = Other
      <4>1. ~OtherWrites
        BY <1>1, <3>1 DEF Switch, OtherWrites
      <4>2. Busy => Busy'
        BY <2>2, <3>1, <4>1, BusyStep DEF Busy
      <4>. QED
        BY <1>1, <2>2, <4>2, ExcuseKept DEF Switch
    <3>2. CASE p # Other
      BY <2>2, <3>2, BusyStep, ExcuseBusy
    <3>. QED
      BY <3>1, <3>2
  <2>. QED
    BY <1>1, <2>1, <2>2 DEF Switch, index
<1>2. ASSUME NEW j \in {"index", "removed", "idle"}, job' = [job EXCEPT ![p] = j], Wrote(p),
             j = "idle" => p = Other
      PROVE  ExcuseInv'
  <2>1. CASE p = Other
    <3>1. /\ main.s \in Searchers \cup {None} /\ main \in Mains
          /\ entry \in Searchers \cup {None}
      BY MainFields DEF SessionInv, MainType
    <3>2. entry' = Told(entry, {"foreign"}) /\ main'.s = Told(main.s, {"foreign"}) /\ main'.pc = main.pc
      BY <1>2, <2>1, <3>1 DEF Wrote, Mains
    <3>3. {"foreign"} \in SUBSET Causes
      BY DEF Causes
    <3>4. Marked(entry, entry') /\ (entry' # None => entry'.causes # {})
      BY <3>1, <3>2, <3>3, ToldType, ToldMarks
    <3>5. Marked(main.s, main'.s) /\ (main'.s # None => main'.s.causes # {})
      BY <3>1, <3>2, <3>3, ToldType, ToldMarks
    <3>. QED
      BY <3>2, <3>4, <3>5, ExcuseBlamed
  <2>2. CASE p # Other
    BY <1>2, <2>2, BusyStep, ExcuseBusy
  <2>. QED
    BY <2>1, <2>2
<1>3. ASSUME Restore(p) PROVE ExcuseInv'
  BY <1>2, <1>3 DEF Restore
<1>4. ASSUME BuildStarts(p) PROVE ExcuseInv'
  <2>1. job' = [job EXCEPT ![p] = "build"] /\ job[p] = "index"
    BY <1>4 DEF BuildStarts
  <2>2. CASE p # Other
    BY <2>1, <2>2, BusyStep, ExcuseBusy
  <2>3. CASE p = Other /\ root.meta = "schema"
    <3>1. root'.meta = "none"
      BY <1>4, <2>3 DEF BuildStarts, IndexInv, RootType
    <3>2. Busy'
      BY <2>1, <2>3, <3>1, BusyStep DEF Busy, OtherWrites
    <3>. QED
      BY <3>2, ExcuseBusy
  <2>4. CASE p = Other /\ root.meta # "schema"
    <3>1. root' = root /\ UNCHANGED <<entry, main>>
      BY <1>4, <2>4 DEF BuildStarts
    <3>2. Busy => Busy'
      BY <2>1, <2>4, BusyStep DEF Busy, OtherWrites
    <3>. QED
      BY <3>1, <3>2, ExcuseKept
  <2>. QED
    BY <2>2, <2>3, <2>4
<1>5. ASSUME BuildsNothing(p) PROVE ExcuseInv'
  <2>1. CASE p # Other
    <3>1. job' = [job EXCEPT ![p] = "removed"]
      BY <1>5, <2>1 DEF BuildsNothing, Built
    <3>. QED
      BY <2>1, <3>1, BusyStep, ExcuseBusy
  <2>2. CASE p = Other
    <3>1. /\ job' = [job EXCEPT ![p] = "idle"] /\ job[p] = "build" /\ root.meta = "ok"
          /\ root'.ino = root.ino /\ root'.rest = root.rest /\ UNCHANGED <<entry, main>>
      BY <1>5, <2>2 DEF BuildsNothing, Built, IndexInv, RootType
    <3>2. Busy => Busy'
      BY <2>2, <3>1, BusyStep DEF Busy, OtherWrites
    <3>. QED
      BY <3>1, <3>2, ExcuseKept
  <2>. QED
    BY <2>1, <2>2
<1>6. ASSUME BuildsChunks(p) PROVE ExcuseInv'
  <2>1. job' = [job EXCEPT ![p] = "stamp"]
    BY <1>6 DEF BuildsChunks
  <2>2. Busy'
    BY <2>1, BusyStep DEF Busy, OtherWrites
  <2>. QED
    BY <2>2, ExcuseBusy
<1>7. ASSUME BuildsRest(p) PROVE ExcuseInv'
  BY <1>2, <1>7 DEF BuildsRest, Built
<1>. QED
  BY <1>1, <1>3, <1>4, <1>5, <1>6, <1>7 DEF Index

LEMMA ExcuseFails == ASSUME SessionInv, NEW p, Blame(p) PROVE ExcuseInv'
<1>1. main \in Mains /\ main.s \in Searchers \cup {None} /\ entry \in Searchers \cup {None}
  BY MainFields DEF SessionInv, MainType
<1>2. entry' = Failed(p, entry) /\ main'.s = Failed(p, main.s) /\ main'.pc = main.pc
  BY <1>1 DEF Blame, Mains
<1>3. Marked(entry, entry') /\ (entry' # None => entry'.causes # {})
  BY <1>1, <1>2, FailedMarks DEF Marked
<1>4. Marked(main.s, main'.s) /\ (main'.s # None => main'.s.causes # {})
  BY <1>1, <1>2, FailedMarks DEF Marked
<1>. QED
  BY <1>2, <1>3, <1>4, ExcuseBlamed

LEMMA ExcuseRemoved == ASSUME SessionInv, NEW w \in Workers, RemoveSearcher(w) PROVE ExcuseInv'
<1>1. main \in Mains /\ main.s \in Searchers \cup {None}
  BY MainFields DEF SessionInv, MainType
<1>2. entry' = None /\ main'.pc = main.pc
  BY <1>1 DEF RemoveSearcher, Mains
<1>3. ASSUME main.pc \in {"openRest", "insert"} PROVE main'.s.causes # {}
  <2>1. main'.s = Told(main.s, {"raced"})
    BY <1>1, <1>3 DEF RemoveSearcher, Mains, Opening
  <2>2. main.s # None
    BY <1>3 DEF SessionInv, MainType
  <2>. QED
    BY <1>1, <2>1, <2>2, ToldType DEF Causes
<1>. QED
  BY <1>2, <1>3 DEF ExcuseInv, Excused

LEMMA ExcuseSearch == ASSUME JobInv, IndexInv, SessionInv, ExcuseInv, Search PROVE ExcuseInv'
<1>0. /\ main \in Mains /\ main.s \in Searchers \cup {None} /\ root' = root
      /\ Busy => Busy'
  <2>1. root' = root /\ (Spawn \/ job' = job)
    BY DEF index, Search, ProbeSwitch, Refresh, Lookup, OpenDb, OpenRest, OpenFails, Insert,
           SemanticLookup, Reply, Compute, SemanticStore, NoSpawn
  <2>. QED
    BY <2>1, BusySpawn, MainFields DEF SessionInv, MainType, Busy, Working, OtherWrites
<1>1. ASSUME ProbeSwitch \/ Refresh \/ Lookup \/ OpenFails \/ Reply \/ Compute PROVE ExcuseInv'
  <2>1. main'.pc \notin {"openRest", "insert"}
    BY <1>0, <1>1, AtRestType
       DEF ProbeSwitch, Refresh, Lookup, OpenFails, Reply, Compute, Mains
  <2>2. entry' = None \/ entry' = entry
    BY <1>1 DEF ProbeSwitch, Refresh, Lookup, OpenFails, Reply, Compute
  <2>. QED
    BY <1>0, <2>1, <2>2, ExcuseKept
<1>2. ASSUME OpenDb PROVE ExcuseInv'
  <2>1. main'.pc = "openRest" /\ main'.s.ino = root.ino /\ entry' = entry
    BY <1>0, <1>2 DEF OpenDb, Mains
  <2>. QED
    BY <1>0, <2>1 DEF ExcuseInv, Excused, Live
<1>3. ASSUME OpenRest PROVE ExcuseInv'
  <2>1. main.s \in Searchers
    BY <1>0, <1>3 DEF OpenRest, SessionInv, MainType
  <2>2. /\ main'.pc = "insert" /\ main'.s.ino = main.s.ino /\ main'.s.rest = root.rest
        /\ main.s.causes # {} => main'.s.causes # {} /\ entry' = entry
    BY <1>0, <1>3, <2>1 DEF OpenRest, Mains, Searchers
  <2>3. entry' = entry /\ main.pc = "openRest"
    BY <1>3 DEF OpenRest
  <2>. QED
    BY <1>0, <2>2, <2>3 DEF ExcuseInv, Excused, Live
<1>4. ASSUME Insert PROVE ExcuseInv'
  <2>1. main'.pc = "search" /\ entry' = main.s /\ main.pc = "insert"
    BY <1>0, <1>4 DEF Insert, Mains
  <2>. QED
    BY <1>0, <2>1 DEF ExcuseInv, Excused, Live
<1>5. ASSUME NEW a, SemanticLookup \/ SemanticStore, main.s # None, main.held => main.s = entry,
             entry' = IF main.held THEN [main.s EXCEPT !.answer = a] ELSE entry
      PROVE  ExcuseInv'
  <2>1. main'.pc \notin {"openRest", "insert"}
    BY <1>0, <1>5, AtRestType DEF SemanticLookup, SemanticStore, Hit, Miss, Mains
  <2>2. \/ entry' = entry
        \/ /\ entry # None /\ entry'.ino = entry.ino /\ entry'.rest = entry.rest
           /\ entry'.causes = entry.causes
    BY <1>0, <1>5 DEF Searchers
  <2>. QED
    BY <1>0, <2>1, <2>2, ExcuseKept
<1>6. ASSUME SemanticLookup \/ SemanticStore PROVE ExcuseInv'
  <2>1. main.s # None /\ (main.held => main.s = entry)
    BY <1>6 DEF SemanticLookup, SemanticStore, SessionInv, MainType, Using
  <2>2. \E a : entry' = IF main.held THEN [main.s EXCEPT !.answer = a] ELSE entry
    BY <1>6 DEF SemanticLookup, SemanticStore, Keep
  <2>. QED
    BY <1>5, <1>6, <2>1, <2>2
<1>. QED
  BY <1>1, <1>2, <1>3, <1>4, <1>6 DEF Search

LEMMA ExcuseNext == ASSUME JobInv, IndexInv, SessionInv, ExcuseInv, [Next]_vars PROVE ExcuseInv'
<1>1. ASSUME NEW p \in Procs, SwitchFails(p) \/ BuildFails(p) PROVE ExcuseInv'
  BY <1>1, ExcuseFails DEF SwitchFails, BuildFails
<1>2. ASSUME NEW w \in Workers, Panic(w) PROVE ExcuseInv'
  BY <1>2, ExcuseFails DEF Panic
<1>3. ASSUME NEW w \in Workers, SetReady(w) PROVE ExcuseInv'
  <2>1. job' = [job EXCEPT ![w] = "idle"] /\ job[w] = "done" /\ UNCHANGED <<root, entry, main>>
    BY <1>3 DEF SetReady, index
  <2>2. Workers \subseteq Procs /\ Other \in Procs /\ Other \notin Workers
    BY NameAssumption DEF Procs
  <2>3. \A q \in Procs \ {w} : job'[q] = job[q]
    BY <2>1 DEF JobInv
  <2>4. Busy => Busy'
    BY <2>1, <2>2, <2>3 DEF Busy, Working, OtherWrites, Writing
  <2>. QED
    BY <2>1, <2>4, ExcuseKept
<1>4. ASSUME OtherStarts PROVE ExcuseInv'
  <2>1. job' = [job EXCEPT ![Other] = "switch"] /\ job[Other] = "idle" /\ UNCHANGED <<root, entry, main>>
    BY <1>4 DEF OtherStarts, index
  <2>2. "switch" \in Phases /\ Other \in Procs
    BY DEF Phases, Procs
  <2>3. Busy => Busy'
    BY <2>1, <2>2, BusyStep DEF Busy, OtherWrites
  <2>. QED
    BY <2>1, <2>3, ExcuseKept
<1>5. ASSUME Initialize \/ ToolIndex \/ ToolStatus \/ ToolStructural PROVE ExcuseInv'
  <2>1. (Spawn \/ job' = job) /\ UNCHANGED <<root, main>> /\ (entry' = None \/ entry' = entry)
    BY <1>5 DEF Initialize, ToolIndex, ToolStatus, ToolStructural, NoSpawn, index
  <2>2. Busy => Busy'
    BY <2>1, BusySpawn DEF Busy, Working, OtherWrites
  <2>. QED
    BY <2>1, <2>2, ExcuseKept
<1>6. ASSUME ProbeFederated \/ ProbeState PROVE ExcuseInv'
  <2>1. (Spawn \/ job' = job) /\ UNCHANGED <<root, entry>>
    BY <1>6 DEF ProbeFederated, ProbeState, NoSpawn, index
  <2>2. Busy => Busy'
    BY <2>1, BusySpawn DEF Busy, Working, OtherWrites
  <2>3. main' = main \/ main'.pc \in {"lookup", "switch"}
    BY <1>6 DEF ProbeFederated, ProbeState, SessionInv, MainType, Mains
  <2>. QED
    BY <2>1, <2>2, <2>3, ExcuseKept
<1>7. ASSUME Evict \/ Checkout \/ Edit \/ UNCHANGED vars PROVE ExcuseInv'
  <2>1. UNCHANGED <<root, job>> /\ (entry' = None \/ entry' = entry)
    BY <1>7 DEF Evict, Checkout, Edit, index, vars
  <2>2. Busy => Busy'
    BY <2>1 DEF Busy, Working, OtherWrites
  <2>3. main'.pc = main.pc /\ main'.s = main.s
    BY <1>7 DEF Evict, Checkout, Edit, vars, SessionInv, MainType, Mains
  <2>. QED
    BY <2>1, <2>2, <2>3, ExcuseKept
<1>. QED
  BY <1>1, <1>2, <1>3, <1>4, <1>5, <1>6, <1>7, ExcuseIndex, ExcuseSearch, ExcuseRemoved DEF Next

LEMMA ExcusesHold == Spec => []ExcuseInv
<1>1. Init => ExcuseInv
  BY AtRestType DEF Init, ExcuseInv
<1>2. JobInv /\ IndexInv /\ SessionInv /\ ExcuseInv /\ [Next]_vars => ExcuseInv'
  BY ExcuseNext
<1>. QED
  BY JobsHold, IndexHolds, SessionsHold, <1>1, <1>2, PTL DEF Spec

\* Whatever the server's own finished builds change, its searcher does not outlive: once no
\* thread works and nobody writes, a cached searcher is of the live index, but for another
\* process, a failure, a raced open, or an unfinished index (cache.lock().remove after a build).
THEOREM NoStaleSearcher == Spec => []StaleNeedsCause
<1>1. JobInv /\ IndexInv /\ ExcuseInv => StaleNeedsCause
  <2> SUFFICES ASSUME JobInv, IndexInv, ExcuseInv, entry # None, Quiet
               PROVE  Live(entry) \/ entry.causes # {}
    BY DEF StaleNeedsCause
  <2>1. \A p \in Procs : job[p] \notin Writing
    BY NameAssumption DEF Quiet, Locked, IndexInv, LockInv, Procs
  <2>2. ~Working
    BY <2>1 DEF Quiet, Active, Working, Procs
  <2>3. ~OtherWrites
    BY <2>1 DEF OtherWrites, Writing, Procs
  <2>. QED
    BY <2>2, <2>3 DEF ExcuseInv, Excused, Busy
<1>. QED
  BY JobsHold, IndexHolds, ExcusesHold, <1>1, PTL

-----------------------------------------------------------------------------
(* The searcher against the branches HEAD was on.                          *)

\* branch.json names a branch HEAD was on since the request looked at it: it is only ever
\* written with the branch HEAD is on, which stays while a build writes
SideInv ==
    /\ main.at # {} => head \in main.at /\ root.side \in main.at \cup {None}
    /\ \A p \in Procs : job[p] = "stamp" => root.db.branch = head

LEMMA SideKept == ASSUME SideInv, main'.at = main.at \/ main'.at = {},
                         UNCHANGED <<head, root.db>>, root'.side \in {root.side, head},
                         \A p \in Procs : job'[p] = job[p] \/ job'[p] # "stamp"
                  PROVE  SideInv'
  BY DEF SideInv

LEMMA SideIndex == ASSUME JobInv, IndexInv, SessionInv, SideInv, NEW p \in Procs, Index(p)
                   PROVE  SideInv'
<1> USE DEF Phases, Writing
<1>0. /\ RootType /\ LockInv /\ main \in Mains /\ head' = head
      /\ main.at # {} => head \in main.at
  BY DEF Index, Switch, Restore, BuildStarts, BuildsNothing, BuildsChunks, BuildsRest, user,
         IndexInv, SessionInv, MainType, SideInv
<1>1. main'.at = main.at
  BY <1>0 DEF Index, Switch, Restore, BuildStarts, BuildsNothing, BuildsChunks, BuildsRest, Wrote, Mains
<1>2. ASSUME root'.side \in {root.side, head}, NEW j \in Phases, job' = [job EXCEPT ![p] = j],
             lock = p \/ lock = None, j = "stamp" => root'.db.branch = head
      PROVE  SideInv'
  <2>1. \A q \in Procs \ {p} : job'[q] \notin Writing
    BY <1>0, <1>2, OneWriter DEF JobInv
  <2>2. job'[p] = j
    BY <1>2 DEF JobInv
  <2>3. \A q \in Procs : job'[q] = "stamp" => root'.db.branch = head'
    BY <1>0, <1>2, <2>1, <2>2
  <2>. QED
    BY <1>0, <1>1, <1>2, <2>3 DEF SideInv
<1>3. ASSUME Switch(p), UNCHANGED root PROVE SideInv'
  <2>1. PICK j \in {"index", "restore"} : job' = [job EXCEPT ![p] = j]
    BY <1>3 DEF Switch
  <2>2. \A q \in Procs : job'[q] = job[q] \/ job'[q] # "stamp"
    BY <2>1 DEF JobInv
  <2>. QED
    BY <1>0, <1>1, <1>3, <2>2, SideKept
<1>4. ASSUME Switch(p), root' = [root EXCEPT !.db = snap[head].db, !.ino = @ + 1], ~Locked,
             job' = [job EXCEPT ![p] = "restore"]
      PROVE  SideInv'
  BY <1>0, <1>2, <1>4 DEF RootType, Locked
<1>5. ASSUME Restore(p) \/ BuildsNothing(p) \/ BuildsRest(p) PROVE SideInv'
  <2>1. root'.side = head /\ lock = p
    BY <1>0, <1>5 DEF Restore, BuildsNothing, BuildsRest, RootType, LockInv
  <2>2. PICK j \in {"index", "idle", "removed"} : job' = [job EXCEPT ![p] = j]
    BY <1>5 DEF Restore, BuildsNothing, BuildsRest, Built
  <2>. QED
    BY <1>2, <2>1, <2>2
<1>6. ASSUME BuildStarts(p) PROVE SideInv'
  <2>1. root'.side = root.side /\ lock = None /\ job' = [job EXCEPT ![p] = "build"]
    BY <1>0, <1>6 DEF BuildStarts, RootType, Locked
  <2>. QED
    BY <1>2, <2>1
<1>7. ASSUME BuildsChunks(p) PROVE SideInv'
  <2>1. root'.side = root.side /\ lock = p /\ job' = [job EXCEPT ![p] = "stamp"] /\ root'.db = Tree
    BY <1>0, <1>7 DEF BuildsChunks, RootType, LockInv
  <2>. QED
    BY <1>2, <2>1 DEF Tree
<1>. QED
  BY <1>3, <1>4, <1>5, <1>6, <1>7 DEF Index, Switch, index

LEMMA SideNext == ASSUME JobInv, IndexInv, SessionInv, SideInv, [Next]_vars PROVE SideInv'
<1>0. main \in Mains /\ head \in Branches
  BY DEF SessionInv, MainType, IndexInv
<1>1. ASSUME NEW p \in Procs, SwitchFails(p) \/ BuildFails(p) PROVE SideInv'
  <2>1. PICK j \in {"index", "idle"} : job' = [job EXCEPT ![p] = j]
    BY <1>1 DEF SwitchFails, BuildFails
  <2>2. main'.at = main.at /\ UNCHANGED <<root, head>>
    BY <1>0, <1>1 DEF SwitchFails, BuildFails, Blame, Mains, user
  <2>. QED
    BY <2>1, <2>2, SideKept DEF JobInv
<1>2. ASSUME NEW w \in Workers, Panic(w) \/ RemoveSearcher(w) \/ SetReady(w) PROVE SideInv'
  <2>1. PICK j \in {"dead", "done", "idle"} : job' = [job EXCEPT ![w] = j]
    BY <1>2 DEF Panic, RemoveSearcher, SetReady
  <2>2. main'.at = main.at /\ UNCHANGED <<root, head>>
    BY <1>0, <1>2 DEF Panic, RemoveSearcher, SetReady, Blame, Mains, user, index
  <2>. QED
    BY <2>1, <2>2, SideKept DEF JobInv
<1>3. ASSUME OtherStarts PROVE SideInv'
  <2>1. job' = [job EXCEPT ![Other] = "switch"] /\ UNCHANGED <<root, head, main>>
    BY <1>3 DEF OtherStarts, index, user
  <2>. QED
    BY <2>1, SideKept DEF JobInv
<1>4. ASSUME \/ Initialize \/ ToolIndex \/ ToolStatus \/ ToolStructural \/ ProbeFederated \/ ProbeState
             \/ Search \/ Evict \/ Edit \/ UNCHANGED vars
      PROVE SideInv'
  <2>1. UNCHANGED <<root, head>>
    BY <1>4 DEF Initialize, ToolIndex, ToolStatus, ToolStructural, ProbeFederated, ProbeState, Evict,
         Search, ProbeSwitch, Refresh, Lookup, OpenDb, OpenRest, OpenFails, Insert, SemanticLookup,
         Reply, Compute, SemanticStore, vars, Edit, index, user
  <2>2. \/ job' = job
        \/ job' = [job EXCEPT ![FreeName] = "switch"]
    BY <1>4 DEF Initialize, ToolIndex, ToolStatus, ToolStructural, ProbeFederated, ProbeState, Evict,
         Search, ProbeSwitch, Refresh, Lookup, OpenDb, OpenRest, OpenFails, Insert, SemanticLookup,
         Reply, Compute, SemanticStore, vars, Edit, NoSpawn, Spawn
  <2>3. \A p \in Procs : job'[p] = job[p] \/ job'[p] # "stamp"
    BY <2>2 DEF JobInv
  <2>4. CASE main'.at = main.at \/ main'.at = {}
    BY <2>1, <2>3, <2>4, SideKept
  <2>5. CASE ProbeSwitch /\ ~Pending /\ main'.at = {head}
    BY <2>1, <2>3, <2>5 DEF SideInv, Pending
  <2>6. main'.at \in {main.at, {}} \/ (ProbeSwitch /\ ~Pending /\ main'.at = {head})
    <3>1. CASE Initialize \/ ToolIndex \/ ToolStatus \/ ToolStructural \/ Evict \/ Edit \/ UNCHANGED vars
      BY <3>1 DEF Initialize, ToolIndex, ToolStatus, ToolStructural, Evict, Edit, vars
    <3>2. CASE ProbeFederated \/ ProbeState \/ Refresh \/ Lookup \/ Insert \/ Compute
      BY <1>0, <3>2 DEF ProbeFederated, ProbeState, Refresh, Lookup, Insert, Compute, Mains
    <3>3. CASE OpenDb \/ OpenRest \/ SemanticLookup
      BY <1>0, <3>3 DEF OpenDb, OpenRest, SemanticLookup, Hit, Miss, Mains
    <3>4. CASE OpenFails \/ Reply \/ SemanticStore
      BY <3>4 DEF OpenFails, Reply, SemanticStore, AtRest
    <3>5. CASE ProbeSwitch
      <4>1. CASE main' = AtRest
        BY <4>1 DEF AtRest
      <4>2. CASE ~Pending /\ main' = [main EXCEPT !.pc = "refresh", !.at = {head}]
        BY <1>0, <3>5, <4>2 DEF Mains
      <4>. QED
        BY <3>5, <4>1, <4>2 DEF ProbeSwitch
    <3>. QED
      BY <1>4, <3>1, <3>2, <3>3, <3>4, <3>5 DEF Search
  <2>. QED
    BY <2>4, <2>5, <2>6
<1>5. ASSUME Checkout PROVE SideInv'
  <2>1. UNCHANGED <<root, lock, job>> /\ head' \in Branches /\ lock = None
    BY <1>5 DEF Checkout, Locked, index
  <2>2. \A p \in Procs : job[p] # "stamp"
    BY <2>1, NameAssumption DEF IndexInv, LockInv, Procs, Writing
  <2>3. main'.at = IF main.at = {} THEN {} ELSE main.at \cup {head'}
    BY <1>0, <1>5 DEF Checkout, Mains
  <2>. QED
    BY <2>1, <2>2, <2>3 DEF SideInv
<1>. QED
  BY <1>1, <1>2, <1>3, <1>4, <1>5, SideIndex DEF Next

LEMMA SidesHold == Spec => []SideInv
<1>1. Init => SideInv
  BY DEF Init, SideInv, AtRest
<1>2. JobInv /\ IndexInv /\ SessionInv /\ SideInv /\ [Next]_vars => SideInv'
  BY SideNext
<1>. QED
  BY JobsHold, IndexHolds, SessionsHold, <1>1, <1>2, PTL DEF Spec

\* Of a searcher without a cause, while no thread will drop it: it is of the branch that
\* branch.json names, and chunks.db is what the other parts are of
Fits(s) == s.rest.branch = root.side /\ (root.rest = root.db \/ OtherWrites)

FitInv ==
    /\ entry # None /\ entry.causes = {} => Working \/ Fits(entry)
    /\ main.pc = "insert" /\ main.s.causes = {} => Working \/ Fits(main.s)

\* The searcher a request uses is of a branch HEAD was on, or excused
Named ==
    main.pc \in {"insert"} \cup Using /\ main.at # {} =>
        main.s.rest.branch \in main.at \/ main.during \/ main.s.causes # {}

LEMMA FitWorking == ASSUME Working' PROVE FitInv'
  BY DEF FitInv

LEMMA FitBlamed == ASSUME NEW e, NEW t, Marked(entry, e), Marked(main.s, t),
                          e # None => e.causes # {}, t # None => t.causes # {},
                          SessionInv, entry' = e, main'.s = t, main'.pc = main.pc
                   PROVE  FitInv'
<1>1. main'.pc = "insert" => main'.s.causes # {}
  BY DEF SessionInv, MainType, Marked
<1>. QED
  BY <1>1 DEF FitInv

LEMMA FitKept == ASSUME FitInv, root'.side = root.side, root'.rest = root.rest,
                        Working => Working',
                        (root'.db = root.db /\ (OtherWrites => OtherWrites')) \/ OtherWrites',
                        \/ entry' = None
                        \/ entry' = entry
                        \/ /\ entry # None /\ entry'.rest = entry.rest /\ entry'.causes = entry.causes,
                        main'.pc # "insert" \/ UNCHANGED <<main.pc, main.s>>
                 PROVE  FitInv'
  BY DEF FitInv, Fits

LEMMA SpawnKeeps == ASSUME JobInv, Spawn \/ job' = job, UNCHANGED root
                    PROVE  (Working => Working') /\ (OtherWrites => OtherWrites')
<1>1. CASE job' = job
  BY <1>1 DEF Working, OtherWrites
<1>2. CASE /\ \E w \in Workers : job[w] = "idle"
           /\ job' = [job EXCEPT ![FreeName] = "switch"]
  <2>1. FreeName \in Workers /\ job[FreeName] = "idle" /\ Workers \subseteq Procs /\ Other \in Procs
    BY <1>2 DEF FreeName, Procs
  <2>2. /\ job'[Other] = job[Other]
        /\ \A w \in Workers : w # FreeName => job'[w] = job[w]
    BY <1>2, <2>1, NameAssumption DEF JobInv
  <2>3. job[FreeName] \notin Writing \cup {"index", "removed"}
    BY <2>1 DEF Writing
  <2>. QED
    BY <2>1, <2>2, <2>3 DEF Working, OtherWrites
<1>. QED
  BY <1>1, <1>2 DEF Spawn, NoSpawn

\* What a write of the other process leaves
LEMMA ForeignMarks == ASSUME SessionInv, Wrote(Other)
                      PROVE  /\ Marked(entry, entry') /\ (entry' # None => entry'.causes # {})
                             /\ Marked(main.s, main'.s) /\ (main'.s # None => main'.s.causes # {})
                             /\ main'.pc = main.pc
<1>1. /\ main.s \in Searchers \cup {None} /\ main \in Mains
      /\ entry \in Searchers \cup {None}
  BY MainFields DEF SessionInv, MainType
<1>2. entry' = Told(entry, {"foreign"}) /\ main'.s = Told(main.s, {"foreign"}) /\ main'.pc = main.pc
  BY <1>1 DEF Wrote, Mains
<1>3. {"foreign"} \in SUBSET Causes
  BY DEF Causes
<1>. QED
  BY <1>1, <1>2, <1>3, ToldType, ToldMarks

LEMMA BlameMarks == ASSUME SessionInv, NEW p, Blame(p)
                    PROVE  /\ Marked(entry, entry') /\ (entry' # None => entry'.causes # {})
                           /\ Marked(main.s, main'.s) /\ (main'.s # None => main'.s.causes # {})
                           /\ main'.pc = main.pc /\ main'.at = main.at /\ main'.during = main.during
<1>1. main \in Mains /\ main.s \in Searchers \cup {None} /\ entry \in Searchers \cup {None}
  BY MainFields DEF SessionInv, MainType
<1>2. /\ entry' = Failed(p, entry) /\ main'.s = Failed(p, main.s) /\ main'.pc = main.pc
      /\ main'.at = main.at /\ main'.during = main.during
  BY <1>1 DEF Blame, Mains
<1>. QED
  BY <1>1, <1>2, FailedMarks DEF Marked

LEMMA FitIndex == ASSUME JobInv, IndexInv, SessionInv, ExcuseInv, SideInv, FitInv, NEW p \in Procs, Index(p)
                  PROVE  FitInv'
<1> USE DEF Phases, Writing
<1>0. RootType /\ LockInv /\ RootWhole
  BY DEF IndexInv
<1>1. CASE p # Other
  <2>1. PICK j \in {"index", "restore", "build", "removed", "stamp"} : job' = [job EXCEPT ![p] = j]
    BY <1>1 DEF Index, Switch, Restore, BuildStarts, BuildsNothing, BuildsChunks, BuildsRest, Built
  <2>2. p \in Workers /\ job'[p] = j
    BY <1>1, <2>1 DEF JobInv, Procs
  <2>. QED
    BY <2>2, FitWorking DEF Working
<1>2. CASE p = Other
  <2>1. ASSUME NEW j \in Phases, job' = [job EXCEPT ![Other] = j]
        PROVE  (Working => Working') /\ job'[Other] = j
    BY <1>2, <2>1, BusyStep
  <2>2. CASE Switch(Other)
    <3>1. entry' = entry /\ main' = main /\ job[Other] = "switch"
      BY <2>2 DEF Switch
    <3>2. CASE job' = [job EXCEPT ![Other] = "restore"] /\ root' = [root EXCEPT !.db = snap[head].db, !.ino = @ + 1]
      <4>1. root'.side = root.side /\ root'.rest = root.rest
        BY <1>0, <3>2 DEF RootType
      <4>. QED
        BY <2>1, <3>1, <3>2, <4>1, FitKept DEF OtherWrites
    <3>3. CASE job' = [job EXCEPT ![Other] = "index"] /\ root' = root
      BY <2>1, <3>1, <3>3, FitKept DEF OtherWrites
    <3>. QED
      BY <2>2, <3>2, <3>3 DEF Switch, index
  <2>3. CASE Restore(Other) \/ BuildsRest(Other)
    <3>1. Wrote(Other)
      BY <2>3 DEF Restore, BuildsRest
    <3>. QED
      BY <3>1, ForeignMarks, FitBlamed
  <2>4. CASE BuildStarts(Other)
    <3>1. entry' = entry /\ main' = main /\ job[Other] = "index" /\ job' = [job EXCEPT ![Other] = "build"]
      BY <2>4 DEF BuildStarts
    <3>2. CASE root.meta = "schema"
      <4>1. root'.meta = "none" /\ root'.side = root.side /\ root'.rest = None /\ root'.db = None
        BY <1>0, <2>4, <3>2 DEF BuildStarts, RootType
      <4>. QED
        BY <2>1, <3>1, <4>1 DEF FitInv, Fits
    <3>3. CASE root.meta # "schema"
      <4>1. root' = root /\ ~OtherWrites
        BY <2>4, <3>1, <3>3 DEF BuildStarts, OtherWrites
      <4>. QED
        BY <2>1, <3>1, <4>1, FitKept
    <3>. QED
      BY <3>2, <3>3
  <2>5. CASE BuildsNothing(Other)
    <3>1. /\ entry' = entry /\ main' = main /\ job[Other] = "build" /\ job' = [job EXCEPT ![Other] = "idle"]
          /\ root.meta = "ok" /\ root.db = Tree /\ root' = [root EXCEPT !.side = head]
      BY <2>5 DEF BuildsNothing, Built
    <3>2. root'.side = head /\ root'.db = root.db /\ root'.rest = root.rest
      BY <1>0, <3>1 DEF RootType
    <3>3. ~OtherWrites /\ (Working => Working')
      BY <2>1, <3>1 DEF OtherWrites
    <3>4. ASSUME NEW s, s.causes = {}, Excused(s), Working \/ Fits(s) PROVE Working' \/ Fits(s)'
      <4>1. CASE Working
        BY <3>3, <4>1
      <4>2. CASE ~Working
        <5>1. s.rest = root.rest /\ root.rest = root.db
          BY <3>3, <3>4, <4>2 DEF Excused, Live, Busy, Fits
        <5>. QED
          BY <3>1, <3>2, <5>1 DEF Fits, Tree
      <4>. QED
        BY <4>1, <4>2
    <3>. QED
      BY <3>1, <3>4 DEF FitInv, ExcuseInv, Fits
  <2>6. CASE BuildsChunks(Other)
    <3>1. entry' = entry /\ main' = main /\ job' = [job EXCEPT ![Other] = "stamp"] /\ root' = [root EXCEPT !.db = Tree]
      BY <2>6 DEF BuildsChunks
    <3>2. root'.side = root.side /\ root'.rest = root.rest
      BY <1>0, <3>1 DEF RootType
    <3>. QED
      BY <2>1, <3>1, <3>2, FitKept DEF OtherWrites
  <2>. QED
    BY <1>2, <2>2, <2>3, <2>4, <2>5, <2>6 DEF Index
<1>. QED
  BY <1>1, <1>2

\* A searcher that is opened without a cause found an index whose parts belong together
LEMMA FitSearch == ASSUME JobInv, IndexInv, SessionInv, FitInv, Search PROVE FitInv'
<1>0. /\ main \in Mains /\ main.s \in Searchers \cup {None} /\ root' = root
      /\ Working => Working'
      /\ OtherWrites => OtherWrites'
  <2>1. root' = root /\ (Spawn \/ job' = job)
    BY DEF index, Search, ProbeSwitch, Refresh, Lookup, OpenDb, OpenRest, OpenFails, Insert,
           SemanticLookup, Reply, Compute, SemanticStore, NoSpawn
  <2>. QED
    BY <2>1, SpawnKeeps, MainFields DEF SessionInv, MainType
<1>1. ASSUME ProbeSwitch \/ Refresh \/ Lookup \/ OpenDb \/ OpenFails \/ Reply \/ Compute PROVE FitInv'
  <2>1. main'.pc # "insert"
    BY <1>0, <1>1, AtRestType
       DEF ProbeSwitch, Refresh, Lookup, OpenDb, OpenFails, Reply, Compute, Mains
  <2>2. entry' = None \/ entry' = entry
    BY <1>1 DEF ProbeSwitch, Refresh, Lookup, OpenDb, OpenFails, Reply, Compute
  <2>. QED
    BY <1>0, <2>1, <2>2, FitKept
<1>2. ASSUME OpenRest PROVE FitInv'
  <2>1. main.s \in Searchers /\ entry' = entry
    BY <1>0, <1>2 DEF OpenRest, SessionInv, MainType
  <2>2. /\ main'.s.rest = root.rest
        /\ main'.s.causes = IF Finished THEN main.s.causes ELSE main.s.causes \cup {"unfinished"}
    BY <1>0, <1>2, <2>1 DEF OpenRest, Mains, Searchers
  <2>3. main'.s.causes = {} => main'.s.rest.branch = root.side /\ root.rest = root.db
    BY <2>2 DEF Finished
  <2>. QED
    BY <1>0, <2>1, <2>3 DEF FitInv, Fits
<1>3. ASSUME Insert PROVE FitInv'
  <2>1. main'.pc = "search" /\ entry' = main.s /\ main.pc = "insert"
    BY <1>0, <1>3 DEF Insert, Mains
  <2>. QED
    BY <1>0, <2>1 DEF FitInv, Fits
<1>4. ASSUME NEW a, SemanticLookup \/ SemanticStore, main.s # None, main.held => main.s = entry,
             entry' = IF main.held THEN [main.s EXCEPT !.answer = a] ELSE entry
      PROVE  FitInv'
  <2>1. main'.pc # "insert"
    BY <1>0, <1>4, AtRestType DEF SemanticLookup, SemanticStore, Hit, Miss, Mains
  <2>2. \/ entry' = entry
        \/ /\ entry # None /\ entry'.rest = entry.rest /\ entry'.causes = entry.causes
    BY <1>0, <1>4 DEF Searchers
  <2>. QED
    BY <1>0, <2>1, <2>2, FitKept
<1>5. ASSUME SemanticLookup \/ SemanticStore PROVE FitInv'
  <2>1. main.s # None /\ (main.held => main.s = entry)
    BY <1>5 DEF SemanticLookup, SemanticStore, SessionInv, MainType, Using
  <2>2. \E a : entry' = IF main.held THEN [main.s EXCEPT !.answer = a] ELSE entry
    BY <1>5 DEF SemanticLookup, SemanticStore, Keep
  <2>. QED
    BY <1>4, <1>5, <2>1, <2>2
<1>. QED
  BY <1>1, <1>2, <1>3, <1>5 DEF Search

LEMMA FitNext == ASSUME JobInv, IndexInv, SessionInv, ExcuseInv, SideInv, FitInv, [Next]_vars
                 PROVE  FitInv'
<1>1. ASSUME NEW p \in Procs, SwitchFails(p) \/ BuildFails(p) PROVE FitInv'
  BY <1>1, BlameMarks, FitBlamed DEF SwitchFails, BuildFails
<1>2. ASSUME NEW w \in Workers, Panic(w) PROVE FitInv'
  BY <1>2, BlameMarks, FitBlamed DEF Panic
<1>3. ASSUME NEW w \in Workers, RemoveSearcher(w) PROVE FitInv'
  <2>1. main \in Mains /\ main.s \in Searchers \cup {None} /\ entry' = None
    BY <1>3, MainFields DEF SessionInv, MainType, RemoveSearcher
  <2>2. main'.pc = main.pc
    BY <1>3, <2>1 DEF RemoveSearcher, Mains
  <2>3. ASSUME main.pc = "insert" PROVE main'.s.causes # {}
    <3>1. main'.s = Told(main.s, {"raced"}) /\ main.s # None
      BY <1>3, <2>1, <2>3 DEF RemoveSearcher, Mains, Opening, SessionInv, MainType
    <3>. QED
      BY <2>1, <3>1, ToldType DEF Causes
  <2>. QED
    BY <2>1, <2>2, <2>3 DEF FitInv
<1>4. ASSUME NEW w \in Workers, SetReady(w) PROVE FitInv'
  <2>1. job' = [job EXCEPT ![w] = "idle"] /\ job[w] = "done" /\ UNCHANGED <<root, entry, main>>
    BY <1>4 DEF SetReady, index
  <2>2. Workers \subseteq Procs /\ Other \in Procs /\ Other \notin Workers
    BY NameAssumption DEF Procs
  <2>3. \A q \in Procs \ {w} : job'[q] = job[q]
    BY <2>1 DEF JobInv
  <2>4. (Working => Working') /\ (OtherWrites => OtherWrites')
    BY <2>1, <2>2, <2>3 DEF Working, OtherWrites, Writing
  <2>. QED
    BY <2>1, <2>4, FitKept
<1>5. ASSUME OtherStarts PROVE FitInv'
  <2>1. job' = [job EXCEPT ![Other] = "switch"] /\ job[Other] = "idle" /\ UNCHANGED <<root, entry, main>>
    BY <1>5 DEF OtherStarts, index
  <2>2. "switch" \in Phases /\ Other \in Procs
    BY DEF Phases, Procs
  <2>3. (Working => Working') /\ ~OtherWrites
    BY <2>1, <2>2, BusyStep DEF OtherWrites
  <2>. QED
    BY <2>1, <2>3, FitKept
<1>6. ASSUME Initialize \/ ToolIndex \/ ToolStatus \/ ToolStructural \/ ProbeFederated \/ ProbeState
      PROVE  FitInv'
  <2>1. (Spawn \/ job' = job) /\ UNCHANGED root /\ (entry' = None \/ entry' = entry)
    BY <1>6 DEF Initialize, ToolIndex, ToolStatus, ToolStructural, ProbeFederated, ProbeState, NoSpawn, index
  <2>2. (Working => Working') /\ (OtherWrites => OtherWrites')
    BY <2>1, SpawnKeeps
  <2>3. main' = main \/ main'.pc \in {"lookup", "switch"}
    BY <1>6 DEF Initialize, ToolIndex, ToolStatus, ToolStructural, ProbeFederated, ProbeState,
                SessionInv, MainType, Mains
  <2>. QED
    BY <2>1, <2>2, <2>3, FitKept
<1>7. ASSUME Evict \/ Checkout \/ Edit \/ UNCHANGED vars PROVE FitInv'
  <2>1. UNCHANGED <<root, job>> /\ (entry' = None \/ entry' = entry)
    BY <1>7 DEF Evict, Checkout, Edit, index, vars
  <2>2. (Working => Working') /\ (OtherWrites => OtherWrites')
    BY <2>1 DEF Working, OtherWrites
  <2>3. main'.pc = main.pc /\ main'.s = main.s
    BY <1>7 DEF Evict, Checkout, Edit, vars, SessionInv, MainType, Mains
  <2>. QED
    BY <2>1, <2>2, <2>3, FitKept
<1>. QED
  BY <1>1, <1>2, <1>3, <1>4, <1>5, <1>6, <1>7, FitIndex, FitSearch DEF Next

LEMMA FitsHold == Spec => []FitInv
<1>1. Init => FitInv
  BY AtRestType DEF Init, FitInv
<1>2. JobInv /\ IndexInv /\ SessionInv /\ ExcuseInv /\ SideInv /\ FitInv /\ [Next]_vars => FitInv'
  BY FitNext
<1>. QED
  BY JobsHold, IndexHolds, SessionsHold, ExcusesHold, SidesHold, <1>1, <1>2, PTL DEF Spec

\* The request keeps its searcher, which may only learn of more causes, and HEAD may move
LEMMA NamedKept == ASSUME Named, SessionInv, main'.pc = main.pc, main'.during = main.during,
                          main.at \subseteq main'.at, main.at = {} => main'.at = {},
                          Marked(main.s, main'.s)
                   PROVE  Named'
  BY DEF Named, Marked, SessionInv, MainType

LEMMA NamedSearch == ASSUME JobInv, IndexInv, SessionInv, SideInv, FitInv, Named, Search PROVE Named'
<1>0. main \in Mains /\ main.s \in Searchers \cup {None} /\ main.at \in SUBSET Branches
  BY MainFields DEF SessionInv, MainType
<1>1. ASSUME ProbeSwitch \/ Refresh \/ OpenDb \/ OpenFails \/ Reply \/ SemanticStore PROVE Named'
  <2>1. main'.pc \notin {"insert"} \cup Using
    BY <1>0, <1>1, AtRestType
       DEF ProbeSwitch, Refresh, OpenDb, OpenFails, Reply, SemanticStore, Mains, Using
  <2>. QED
    BY <2>1 DEF Named
<1>2. ASSUME Lookup PROVE Named'
  <2>1. CASE entry = None
    <3>1. main'.pc = "openDb"
      BY <1>0, <1>2, <2>1 DEF Lookup, Mains
    <3>. QED
      BY <3>1 DEF Named, Using
  <2>2. CASE entry # None
    <3>1. /\ main'.s = entry /\ main'.at = main.at
          /\ main'.during = (status = "building")
      BY <1>0, <1>2, <2>2 DEF Lookup, Mains
    <3>2. CASE status = "building"
      BY <3>1, <3>2 DEF Named
    <3>3. CASE status # "building"
      <4>1. ~Working
        BY <3>3 DEF JobInv, BuildingMeansOne, Working, Writing
      <4>2. entry.causes = {} => entry.rest.branch = root.side
        BY <2>2, <4>1 DEF FitInv, Fits
      <4>3. entry \in Searchers /\ entry.rest # None
        BY <2>2 DEF SessionInv, Whole
      <4>4. entry.rest.branch \in Branches
        BY <4>3 DEF Searchers, Versions
      <4>5. main.at # {} => root.side \in main.at \cup {None}
        BY DEF SideInv
      <4>. QED
        BY <3>1, <4>2, <4>4, <4>5, NameAssumption DEF Named
    <3>. QED
      BY <3>2, <3>3
  <2>. QED
    BY <2>1, <2>2
<1>3. ASSUME OpenRest PROVE Named'
  <2>1. main.s \in Searchers /\ root.rest \in Versions
    BY <1>0, <1>3 DEF OpenRest, SessionInv, MainType, IndexInv, RootType
  <2>2. /\ main'.s.rest = root.rest /\ main'.at = main.at
        /\ main'.s.causes = IF Finished THEN main.s.causes ELSE main.s.causes \cup {"unfinished"}
    BY <1>0, <1>3, <2>1 DEF OpenRest, Mains, Searchers
  <2>3. main'.s.causes = {} => root.rest.branch = root.side
    BY <2>2 DEF Finished
  <2>4. root.rest.branch \in Branches
    BY <2>1 DEF Versions
  <2>. QED
    BY <2>2, <2>3, <2>4, NameAssumption DEF Named, SideInv
<1>4. ASSUME Insert \/ Compute PROVE Named'
  <2>1. /\ main.pc \in {"insert", "compute"}
        /\ main'.s = main.s /\ main'.at = main.at /\ main'.during = main.during
    BY <1>0, <1>4 DEF Insert, Compute, Mains
  <2>. QED
    BY <2>1 DEF Named, Using
<1>5. ASSUME SemanticLookup PROVE Named'
  <2>1. main.s \in Searchers /\ main.pc = "search"
    BY <1>0, <1>5 DEF SemanticLookup, SessionInv, MainType, Using
  <2>2. LET s == [main.s EXCEPT !.answer = Valid(@)]
        IN  \/ main' = [main EXCEPT !.pc = "reply", !.s = s, !.got = s.answer]
            \/ main' = [main EXCEPT !.pc = "compute", !.s = s]
    BY <1>5 DEF SemanticLookup, Hit, Miss
  <2>3. /\ main'.s = [main.s EXCEPT !.answer = Valid(@)] /\ main'.at = main.at
        /\ main'.during = main.during
    BY <1>0, <2>2 DEF Mains
  <2>4. main'.s.rest = main.s.rest /\ main'.s.causes = main.s.causes
    BY <2>1, <2>3 DEF Searchers
  <2>. QED
    BY <2>1, <2>3, <2>4 DEF Named, Using
<1>. QED
  BY <1>1, <1>2, <1>3, <1>4, <1>5 DEF Search

LEMMA NamedNext == ASSUME JobInv, IndexInv, SessionInv, SideInv, FitInv, Named, [Next]_vars PROVE Named'
<1>0. main \in Mains /\ main.s \in Searchers \cup {None} /\ main.at \in SUBSET Branches
      /\ Marked(main.s, main.s)
  BY MainFields DEF SessionInv, MainType, Marked
<1>1. ASSUME NEW p \in Procs, Index(p) PROVE Named'
  <2>1. CASE UNCHANGED main
    BY <1>0, <2>1, NamedKept
  <2>2. CASE Wrote(p)
    <3>1. PICK C \in SUBSET Causes :
            main' = [main EXCEPT !.s = Told(main.s, C), !.got = Doubt(main.got)]
      BY <2>2, WroteLeaves
    <3>2. /\ main'.s = Told(main.s, C) /\ main'.at = main.at /\ main'.pc = main.pc
          /\ main'.during = main.during
      BY <1>0, <3>1 DEF Mains
    <3>. QED
      BY <1>0, <3>2, ToldMarks, NamedKept
  <2>. QED
    BY <1>1, <2>1, <2>2 DEF Index, Switch, Restore, BuildStarts, BuildsNothing, BuildsChunks, BuildsRest
<1>2. ASSUME NEW p, Blame(p) PROVE Named'
  BY <1>2, BlameMarks, NamedKept
<1>3. ASSUME NEW w \in Workers, RemoveSearcher(w) PROVE Named'
  <2>1. /\ main'.s = IF main.pc \in Opening THEN Told(main.s, {"raced"}) ELSE main.s
        /\ main'.at = main.at /\ main'.pc = main.pc /\ main'.during = main.during
    BY <1>0, <1>3 DEF RemoveSearcher, Mains
  <2>2. {"raced"} \in SUBSET Causes
    BY DEF Causes
  <2>3. Marked(main.s, main'.s)
    BY <1>0, <2>1, <2>2, ToldMarks
  <2>. QED
    BY <2>1, <2>3, NamedKept
<1>4. ASSUME ProbeFederated \/ ProbeState PROVE Named'
  <2>1. main' = main \/ main'.pc \in {"lookup", "switch"}
    BY <1>0, <1>4 DEF ProbeFederated, ProbeState, Mains
  <2>2. main'.pc \in {"lookup", "switch"} => Named'
    BY DEF Named, Using
  <2>. QED
    BY <1>0, <2>1, <2>2, NamedKept
<1>5. ASSUME Checkout PROVE Named'
  <2>1. /\ main'.s = main.s /\ main'.pc = main.pc /\ main'.during = main.during
        /\ main'.at = IF main.at = {} THEN {} ELSE main.at \cup {head'}
    BY <1>0, <1>5 DEF Checkout, Mains
  <2>. QED
    BY <1>0, <2>1, NamedKept
<1>6. ASSUME UNCHANGED main PROVE Named'
  BY <1>0, <1>6, NamedKept
<1>. QED
  BY <1>1, <1>2, <1>3, <1>4, <1>5, <1>6, NamedSearch
     DEF Next, SwitchFails, BuildFails, Panic, SetReady, OtherStarts, Initialize, ToolIndex, ToolStatus,
         ToolStructural, Evict, Edit, vars

\* A search answers from an index of a branch HEAD was on since it found no switch pending,
\* unless a thread of the server was at work when it looked for the searcher, or the
\* searcher has a cause: another process wrote, a write was cut short, the open raced
\* with the removal or found an unfinished index (search_path_state, get_searcher).
THEOREM AnswersAreNamed == Spec => []AnswersNameTheirCause
<1>1. Named => AnswersNameTheirCause
  BY DEF Named, AnswersNameTheirCause, Using
<1>2. Init => Named
  BY AtRestType DEF Init, Named, Using
<1>3. JobInv /\ IndexInv /\ SessionInv /\ SideInv /\ FitInv /\ Named /\ [Next]_vars => Named'
  BY NamedNext
<1>. QED
  BY JobsHold, IndexHolds, SessionsHold, SidesHold, FitsHold, <1>1, <1>2, <1>3, PTL DEF Spec

-----------------------------------------------------------------------------
(* The answers of the semantic cache.                                      *)

\* Every build that stamps takes a stamp no index or snapshot had before
StampInv ==
    /\ root.stamp <= root.builds
    /\ \A b \in Branches : snap[b] # None => snap[b].stamp <= root.builds

LEMMA StampNext == ASSUME IndexInv, StampInv, [Next]_vars PROVE StampInv'
<1>0. RootType /\ root.builds \in Nat /\ snap \in [Branches -> Snapshots \cup {None}] /\ RootWhole
      /\ head \in Branches
  BY DEF IndexInv, RootType
<1>1. ASSUME NEW p \in Procs, Switch(p) PROVE StampInv'
  <2>1. CASE root' = [root EXCEPT !.db = snap[head].db, !.ino = @ + 1] /\ snap' = snap
    BY <1>0, <2>1 DEF StampInv, RootType
  <2>2. CASE root' = root /\ snap' = snap
    BY <2>2 DEF StampInv
  <2>3. CASE /\ root' = root
             /\ snap' = [snap EXCEPT ![root.side] =
                           [db |-> root.db, rest |-> root.rest, stamp |-> root.stamp]]
    <3>1. \A b \in Branches : snap'[b] = snap[b] \/ snap'[b].stamp = root.stamp
      BY <1>0, <2>3
    <3>. QED
      BY <2>3, <3>1 DEF StampInv
  <2>. QED
    BY <1>1, <2>1, <2>2, <2>3 DEF Switch, index
<1>2. ASSUME NEW p \in Procs, Restore(p) PROVE StampInv'
  <2>1. snap[head] # None
    BY <1>0, <1>2 DEF Restore, RootWhole
  <2>2. root'.stamp = snap[head].stamp /\ root'.builds = root.builds /\ snap' = snap
    BY <1>0, <1>2 DEF Restore, RootType
  <2>. QED
    BY <1>0, <2>1, <2>2 DEF StampInv
<1>3. ASSUME NEW p \in Procs, BuildStarts(p) \/ BuildsChunks(p) PROVE StampInv'
  <2>1. root'.stamp = root.stamp /\ root'.builds = root.builds /\ snap' = snap
    BY <1>0, <1>3 DEF BuildStarts, BuildsChunks, RootType
  <2>. QED
    BY <2>1 DEF StampInv
<1>4. ASSUME NEW p \in Procs, BuildsNothing(p) PROVE StampInv'
  <2>1. root'.stamp = root.stamp /\ root'.builds = root.builds /\ snap' = Mirrored(root)
    BY <1>0, <1>4 DEF BuildsNothing, RootType
  <2>2. \A b \in Branches : snap'[b] = snap[b] \/ snap'[b].stamp = root.stamp
    BY <1>0, <2>1 DEF Mirrored
  <2>. QED
    BY <2>1, <2>2 DEF StampInv
<1>5. ASSUME NEW p \in Procs, BuildsRest(p) PROVE StampInv'
  <2>1. /\ root'.stamp = root.builds + 1 /\ root'.builds = root.builds + 1
        /\ snap' = Mirrored(root')
    BY <1>0, <1>5 DEF BuildsRest, RootType
  <2>2. \A b \in Branches : snap'[b] = snap[b] \/ snap'[b].stamp = root.builds + 1
    BY <1>0, <2>1 DEF Mirrored
  <2>3. \A b \in Branches : snap[b] # None => snap[b].stamp \in Nat
    BY <1>0 DEF Snapshots
  <2>. QED
    BY <1>0, <2>1, <2>2, <2>3 DEF StampInv
<1>6. ASSUME UNCHANGED <<root, snap>> PROVE StampInv'
  BY <1>6 DEF StampInv
<1>. QED
  BY <1>1, <1>2, <1>3, <1>4, <1>5, <1>6
     DEF Next, Index, SwitchFails, BuildFails, Panic, RemoveSearcher, SetReady, OtherStarts, Initialize,
         ToolIndex, ToolStatus, ToolStructural, ProbeFederated, ProbeState, Search, ProbeSwitch, Refresh,
         Lookup, OpenDb, OpenRest, OpenFails, Insert, SemanticLookup, Reply, Compute, SemanticStore,
         Evict, Checkout, Edit, vars, index

LEMMA StampsHold == Spec => []StampInv
<1>1. Init => StampInv
  BY DEF Init, StampInv, FirstSnapshot
<1>2. IndexInv /\ StampInv /\ [Next]_vars => StampInv'
  BY StampNext
<1>. QED
  BY IndexHolds, <1>1, <1>2, PTL DEF Spec

Stamping == \E p \in Procs : job[p] = "stamp"
Restoring == \E p \in Procs : job[p] = "restore"

\* An answer computed from the live chunks.db is of it; between the chunks of a build and
\* its stamp it may be of the chunks of before
IsCurrent(a, r, stamping) == a.raced \/ a.db = r.db \/ stamping
Current(a) == IsCurrent(a, root, Stamping)

\* No answer is ahead of the stamps, and one that would be given again is current; a restore
\* is about to change the stamp of chunks it brought before
IsFresh(s, r, stamping, restoring) ==
    s # None =>
        /\ s.ino <= r.ino
        /\ s.answer # None =>
              /\ s.answer.stamp <= r.builds
              /\ s.ino = r.ino /\ (s.answer.stamp = r.stamp \/ restoring) =>
                    IsCurrent(s.answer, r, stamping)
Fresh(s) == IsFresh(s, root, Stamping, Restoring)

GotCurrent ==
    main.pc \in {"reply", "store"} /\ main.got # None /\ main.s.ino = root.ino => Current(main.got)

AnswerInv == Fresh(entry) /\ Fresh(main.s) /\ GotCurrent

\* The index stays what it is
LEMMA FreshSame == ASSUME NEW s, NEW t, Fresh(s), s = None => t = None,
                          s # None => t.ino = s.ino /\ t.answer \in {s.answer, None},
                          root'.ino = root.ino, root'.builds = root.builds, root'.stamp = root.stamp,
                          root'.db = root.db, Stamping => Stamping', Restoring' => Restoring
                   PROVE  IsFresh(t, root', Stamping', Restoring')
  BY DEF Fresh, IsFresh, IsCurrent

\* What a step of a build or a reconcile does to the index, as far as answers go
Overtakes(r, stamping, restoring) ==
    \/ r.ino = root.ino + 1 /\ r.builds = root.builds
    \/ r.ino = root.ino /\ r.builds = root.builds + 1 /\ r.stamp = root.builds + 1 /\ ~restoring
    \/ r.ino = root.ino /\ r.builds = root.builds /\ stamping
    \/ r.ino = root.ino /\ r.builds = root.builds /\ r.db = root.db /\ Restoring /\ ~Stamping
    \/ /\ r.ino = root.ino /\ r.builds = root.builds /\ r.stamp = root.stamp /\ r.db = root.db
       /\ Stamping => stamping
       /\ restoring => Restoring

LEMMA JobKinds == ASSUME JobInv, LockInv, NEW p \in Procs, NEW j \in Phases, job' = [job EXCEPT ![p] = j]
                  PROVE  /\ j = "stamp" => Stamping'
                         /\ Stamping => Stamping' \/ job[p] = "stamp"
                         /\ Restoring' => Restoring \/ j = "restore"
                         /\ lock = p => /\ Restoring' => j = "restore"
                                        /\ Stamping => job[p] = "stamp"
                         /\ job[p] = "restore" => Restoring
<1>1. job'[p] = j /\ \A q \in Procs \ {p} : job'[q] = job[q]
  BY DEF JobInv
<1>2. lock = p => \A q \in Procs \ {p} : job[q] \notin {"stamp", "restore"}
  BY OneWriter DEF Writing
<1>. QED
  BY <1>1, <1>2 DEF Stamping, Restoring

LEMMA IndexOvertakes == ASSUME JobInv, IndexInv, NEW p \in Procs, Index(p)
                        PROVE  Overtakes(root', Stamping', Restoring')
<1> USE DEF Phases, Writing
<1>0. RootType /\ LockInv
  BY DEF IndexInv
<1>1. ASSUME Switch(p) PROVE Overtakes(root', Stamping', Restoring')
  <2>1. CASE root' = [root EXCEPT !.db = snap[head].db, !.ino = @ + 1]
    BY <1>0, <2>1 DEF RootType, Overtakes
  <2>2. CASE job' = [job EXCEPT ![p] = "index"] /\ root' = root
    BY <1>0, <1>1, <2>2, JobKinds DEF Overtakes, Switch
  <2>. QED
    BY <1>1, <2>1, <2>2 DEF Switch, index
<1>2. ASSUME Restore(p) PROVE Overtakes(root', Stamping', Restoring')
  <2>1. /\ job[p] = "restore" /\ lock = p /\ job' = [job EXCEPT ![p] = "index"]
        /\ root'.ino = root.ino /\ root'.builds = root.builds /\ root'.db = root.db
    BY <1>0, <1>2 DEF Restore, RootType, LockInv
  <2>. QED
    BY <1>0, <2>1, JobKinds DEF Overtakes
<1>3. ASSUME BuildStarts(p) PROVE Overtakes(root', Stamping', Restoring')
  <2>1. job' = [job EXCEPT ![p] = "build"] /\ job[p] = "index"
    BY <1>3 DEF BuildStarts
  <2>2. CASE root' = root
    <3>1. /\ Stamping => Stamping' \/ job[p] = "stamp"
          /\ Restoring' => Restoring \/ "build" = "restore"
      <4>1. "build" \in Phases
        OBVIOUS
      <4>. HIDE DEF Phases, Writing
      <4>. QED
        BY <1>0, <2>1, <4>1, JobKinds
    <3>. QED
      BY <2>1, <2>2, <3>1 DEF Overtakes
  <2>3. CASE root' = [root EXCEPT !.meta = "none", !.db = None, !.rest = None, !.ino = @ + 1]
    BY <1>0, <2>3 DEF RootType, Overtakes
  <2>. QED
    BY <1>3, <2>2, <2>3 DEF BuildStarts
<1>4. ASSUME BuildsNothing(p) PROVE Overtakes(root', Stamping', Restoring')
  <2>1. job' = [job EXCEPT ![p] = Built(p)] /\ job[p] = "build" /\ Built(p) \in {"idle", "removed"}
    BY <1>4 DEF BuildsNothing, Built
  <2>2. /\ root'.ino = root.ino /\ root'.builds = root.builds /\ root'.stamp = root.stamp
        /\ root'.db = root.db
    BY <1>0, <1>4 DEF BuildsNothing, RootType
  <2>. QED
    BY <1>0, <2>1, <2>2, JobKinds DEF Overtakes
<1>5. ASSUME BuildsChunks(p) PROVE Overtakes(root', Stamping', Restoring')
  <2>1. job' = [job EXCEPT ![p] = "stamp"] /\ root'.ino = root.ino /\ root'.builds = root.builds
    BY <1>0, <1>5 DEF BuildsChunks, RootType
  <2>. QED
    BY <1>0, <2>1, JobKinds DEF Overtakes
<1>6. ASSUME BuildsRest(p) PROVE Overtakes(root', Stamping', Restoring')
  <2>1. job' = [job EXCEPT ![p] = Built(p)] /\ lock = p /\ Built(p) \in {"idle", "removed"}
    BY <1>0, <1>6 DEF BuildsRest, Built, LockInv
  <2>2. root'.ino = root.ino /\ root'.builds = root.builds + 1 /\ root'.stamp = root.builds + 1
    BY <1>0, <1>6 DEF BuildsRest, RootType
  <2>. QED
    BY <1>0, <2>1, <2>2, JobKinds DEF Overtakes
<1>. QED
  BY <1>1, <1>2, <1>3, <1>4, <1>5, <1>6 DEF Index

\* A searcher that has learnt nothing but causes, over a step of the index
LEMMA FreshOvertaken == ASSUME IndexInv, NEW s \in Searchers \cup {None}, NEW t, Fresh(s), Marked(s, t),
                               s # None => t.answer = s.answer,
                               Overtakes(root', Stamping', Restoring')
                        PROVE  IsFresh(t, root', Stamping', Restoring')
<1>1. CASE s = None
  BY <1>1 DEF Marked, IsFresh
<1>2. CASE s # None
  <2>1. s \in Searchers /\ root.ino \in Nat /\ root.builds \in Nat
    BY <1>2 DEF IndexInv, RootType
  <2>2. s.ino \in Nat /\ (s.answer # None => s.answer.stamp \in Nat)
    BY <2>1 DEF Searchers, Answers
  <2>3. s.ino <= root.ino /\ t.ino = s.ino /\ t.answer = s.answer
    BY <1>2 DEF Fresh, IsFresh, Marked
  <2>4. CASE s.answer = None
    BY <2>1, <2>2, <2>3, <2>4 DEF Overtakes, IsFresh
  <2>5. CASE s.answer # None
    <3>1. /\ s.answer.stamp <= root.builds
          /\ s.ino = root.ino /\ (s.answer.stamp = root.stamp \/ Restoring) =>
                s.answer.raced \/ s.answer.db = root.db \/ Stamping
      BY <1>2, <2>5 DEF Fresh, IsFresh, IsCurrent
    <3>2. root'.ino = s.ino /\ (s.answer.stamp = root'.stamp \/ Restoring') =>
            s.answer.raced \/ s.answer.db = root'.db \/ Stamping'
      BY <2>1, <2>2, <2>3, <2>5, <3>1 DEF Overtakes
    <3>3. s.ino <= root'.ino /\ s.answer.stamp <= root'.builds
      BY <2>1, <2>2, <2>3, <2>5, <3>1 DEF Overtakes
    <3>. QED
      BY <2>3, <3>2, <3>3 DEF IsFresh, IsCurrent
  <2>. QED
    BY <2>4, <2>5
<1>. QED
  BY <1>1, <1>2

\* A searcher after a write was cut short
LEMMA FreshFailed == ASSUME JobInv, IndexInv, NEW p \in Procs, NEW s \in Searchers \cup {None}, Fresh(s),
                            NEW j \in Phases \ {"stamp", "restore"}, job' = [job EXCEPT ![p] = j],
                            root' = root
                     PROVE  IsFresh(Failed(p, s), root', Stamping', Restoring')
<1>0. /\ Stamping => Stamping' \/ job[p] = "stamp"
      /\ Restoring' => Restoring
  BY JobKinds DEF IndexInv
<1>1. Marked(s, Failed(p, s)) /\ (s # None => Failed(p, s).answer = Cut(p, s.answer))
  BY FailedMarks
<1>2. CASE s = None
  BY <1>1, <1>2 DEF Marked, IsFresh
<1>3. CASE s # None /\ s.answer = None
  BY <1>1, <1>3, <1>0 DEF Marked, IsFresh, Fresh, Cut, Doubt
<1>4. CASE s # None /\ s.answer # None
  <2>1. s.answer \in Answers \cup {None}
    BY <1>4 DEF Searchers
  <2>2. CASE job[p] = "stamp"
    <3>1. /\ Failed(p, s).answer.raced /\ Failed(p, s).answer.stamp = s.answer.stamp
          /\ Failed(p, s).ino = s.ino
      BY <1>1, <1>4, <2>1, <2>2, DoubtType DEF Cut, Marked
    <3>. QED
      BY <1>4, <3>1 DEF Fresh, IsFresh, IsCurrent
  <2>3. CASE job[p] # "stamp"
    <3>1. Failed(p, s).answer = s.answer /\ Failed(p, s).ino = s.ino
      BY <1>1, <1>4, <2>3 DEF Cut, Marked
    <3>2. Stamping => Stamping'
      BY <1>0, <2>3
    <3>. QED
      BY <1>0, <1>4, <3>1, <3>2 DEF Fresh, IsFresh, IsCurrent
  <2>. QED
    BY <2>2, <2>3
<1>. QED
  BY <1>2, <1>3, <1>4

\* The answer in hand over a step of the index, which marks it when it stamps
LEMMA GotOvertaken == ASSUME IndexInv, SessionInv, NEW p, Fresh(main.s), GotCurrent,
                             Overtakes(root', Stamping', Restoring'),
                             main'.pc = main.pc, Marked(main.s, main'.s),
                             \/ main'.got = Doubt(main.got)
                             \/ main'.got = main.got /\ root'.builds = root.builds
                      PROVE  GotCurrent'
<1>1. /\ main.s \in Searchers \cup {None} /\ main.got \in Answers \cup {None}
      /\ root.ino \in Nat /\ root.builds \in Nat
  BY MainFields DEF SessionInv, MainType, IndexInv, RootType
<1>2. SUFFICES ASSUME main.pc \in {"reply", "store"}, main'.got # None, main'.s.ino = root'.ino
               PROVE  main'.got.raced \/ main'.got.db = root'.db \/ Stamping'
  BY DEF GotCurrent, Current, IsCurrent
<1>3. main.s # None /\ main'.s.ino = main.s.ino
  BY <1>2 DEF SessionInv, MainType, Using, Marked
<1>4. main.s.ino \in Nat /\ main.s.ino <= root.ino
  BY <1>1, <1>3 DEF Fresh, IsFresh, Searchers
<1>5. CASE main'.got = Doubt(main.got)
  BY <1>1, <1>2, <1>5, DoubtType
<1>6. CASE main'.got = main.got /\ root'.builds = root.builds
  <2>1. main.s.ino = root.ino
    BY <1>1, <1>2, <1>3, <1>4, <1>6 DEF Overtakes
  <2>2. main.got.raced \/ main.got.db = root.db \/ Stamping
    BY <1>2, <1>6, <2>1 DEF GotCurrent, Current, IsCurrent
  <2>3. root'.ino = root.ino
    BY <1>2, <1>3, <2>1
  <2>4. \/ Stamping'
        \/ root'.db = root.db /\ Restoring /\ ~Stamping
        \/ root'.db = root.db /\ (Stamping => Stamping')
    BY <1>1, <1>6, <2>3 DEF Overtakes
  <2>. QED
    BY <1>6, <2>2, <2>4
<1>. QED
  BY <1>5, <1>6

LEMMA AnswerIndex == ASSUME JobInv, IndexInv, SessionInv, AnswerInv, NEW p \in Procs, Index(p)
                     PROVE  AnswerInv'
<1>0. /\ main \in Mains /\ main.s \in Searchers \cup {None} /\ main.got \in Answers \cup {None}
      /\ entry \in Searchers \cup {None} /\ Marked(entry, entry) /\ Marked(main.s, main.s)
      /\ Fresh(entry) /\ Fresh(main.s) /\ GotCurrent
  BY MainFields DEF SessionInv, MainType, Marked, AnswerInv
<1>1. Overtakes(root', Stamping', Restoring')
  BY IndexOvertakes
<1>2. \/ UNCHANGED <<entry, main>> /\ root'.builds = root.builds
      \/ Wrote(p)
  BY DEF Index, Switch, Restore, BuildStarts, BuildsNothing, BuildsChunks, BuildsRest, index, IndexInv, RootType
<1>3. CASE UNCHANGED <<entry, main>> /\ root'.builds = root.builds
  <2>1. IsFresh(entry', root', Stamping', Restoring')
    BY <1>0, <1>1, <1>3, FreshOvertaken
  <2>2. IsFresh(main'.s, root', Stamping', Restoring')
    BY <1>0, <1>1, <1>3, FreshOvertaken
  <2>3. GotCurrent'
    BY <1>0, <1>1, <1>3, GotOvertaken
  <2>. QED
    BY <2>1, <2>2, <2>3 DEF AnswerInv, Fresh
<1>4. CASE Wrote(p)
  <2>1. PICK C \in SUBSET Causes :
          /\ entry' = Told(entry, C)
          /\ main' = [main EXCEPT !.s = Told(main.s, C), !.got = Doubt(main.got)]
    BY <1>4, WroteLeaves
  <2>2. main'.s = Told(main.s, C) /\ main'.got = Doubt(main.got) /\ main'.pc = main.pc
    BY <1>0, <2>1 DEF Mains
  <2>3. /\ Marked(entry, Told(entry, C)) /\ (entry # None => Told(entry, C).answer = entry.answer)
        /\ Marked(main.s, Told(main.s, C)) /\ (main.s # None => Told(main.s, C).answer = main.s.answer)
    BY <1>0, ToldMarks
  <2>4. IsFresh(entry', root', Stamping', Restoring')
    BY <1>0, <1>1, <2>1, <2>3, FreshOvertaken
  <2>5. IsFresh(main'.s, root', Stamping', Restoring')
    BY <1>0, <1>1, <2>2, <2>3, FreshOvertaken
  <2>6. GotCurrent'
    BY <1>0, <1>1, <2>2, <2>3, GotOvertaken
  <2>. QED
    BY <2>4, <2>5, <2>6 DEF AnswerInv, Fresh
<1>. QED
  BY <1>2, <1>3, <1>4

LEMMA AnswerFails == ASSUME JobInv, IndexInv, SessionInv, AnswerInv, NEW p \in Procs, Blame(p), root' = root,
                            NEW j \in Phases \ {"stamp", "restore"}, job' = [job EXCEPT ![p] = j]
                     PROVE  AnswerInv'
<1>0. /\ main \in Mains /\ main.s \in Searchers \cup {None} /\ main.got \in Answers \cup {None}
      /\ entry \in Searchers \cup {None} /\ Fresh(entry) /\ Fresh(main.s) /\ GotCurrent
  BY MainFields DEF SessionInv, MainType, AnswerInv
<1>1. /\ entry' = Failed(p, entry) /\ main'.s = Failed(p, main.s) /\ main'.pc = main.pc
      /\ main'.got = Cut(p, main.got)
  BY <1>0 DEF Blame, Mains
<1>2. IsFresh(entry', root', Stamping', Restoring') /\ IsFresh(main'.s, root', Stamping', Restoring')
  BY <1>0, <1>1, FreshFailed
<1>3. GotCurrent'
  <2>1. SUFFICES ASSUME main.pc \in {"reply", "store"}, main'.got # None, main'.s.ino = root.ino
                 PROVE  main'.got.raced \/ main'.got.db = root.db \/ Stamping'
    BY <1>1 DEF GotCurrent, Current, IsCurrent
  <2>2. main.s # None /\ main'.s.ino = main.s.ino
    BY <1>0, <1>1, <2>1, FailedMarks DEF SessionInv, MainType, Using, Marked
  <2>3. Stamping => Stamping' \/ job[p] = "stamp"
    BY JobKinds DEF IndexInv
  <2>4. CASE job[p] = "stamp"
    BY <1>0, <1>1, <2>1, <2>4, DoubtType DEF Cut
  <2>5. CASE job[p] # "stamp"
    BY <1>0, <1>1, <2>1, <2>2, <2>3, <2>5 DEF Cut, GotCurrent, Current, IsCurrent
  <2>. QED
    BY <2>4, <2>5
<1>. QED
  BY <1>2, <1>3 DEF AnswerInv, Fresh

LEMMA SpawnIsIdle == ASSUME JobInv, Spawn \/ job' = job
                     PROVE  (Stamping => Stamping') /\ (Restoring' => Restoring)
<1>1. CASE job' = job
  BY <1>1 DEF Stamping, Restoring
<1>2. CASE /\ \E w \in Workers : job[w] = "idle"
           /\ job' = [job EXCEPT ![FreeName] = "switch"]
  <2>1. FreeName \in Workers /\ job[FreeName] = "idle" /\ Workers \subseteq Procs
    BY <1>2 DEF FreeName, Procs
  <2>2. job'[FreeName] = "switch" /\ \A p \in Procs \ {FreeName} : job'[p] = job[p]
    BY <1>2, <2>1 DEF JobInv
  <2>. QED
    BY <2>1, <2>2 DEF Stamping, Restoring
<1>. QED
  BY <1>1, <1>2 DEF Spawn, NoSpawn

\* What a step leaves alone of the index, as far as answers go
Still == root' = root /\ (Stamping => Stamping') /\ (Restoring' => Restoring)

LEMMA StillFresh == ASSUME Still, NEW s, NEW t, Fresh(s), s = None => t = None,
                           s # None => t.ino = s.ino /\ t.answer \in {s.answer, None}
                    PROVE  IsFresh(t, root', Stamping', Restoring')
  BY FreshSame DEF Still

LEMMA StillGot == ASSUME Still, GotCurrent, main'.pc = main.pc, main'.got = main.got,
                         main'.s = main.s \/ main'.s.ino = main.s.ino
                  PROVE  GotCurrent'
  BY DEF GotCurrent, Current, IsCurrent, Still

LEMMA AnswerSearch == ASSUME JobInv, IndexInv, SessionInv, StampInv, AnswerInv, Search PROVE AnswerInv'
<1>0. /\ main \in Mains /\ main.s \in Searchers \cup {None} /\ main.got \in Answers \cup {None}
      /\ entry \in Searchers \cup {None} /\ Fresh(entry) /\ Fresh(main.s) /\ GotCurrent
      /\ root.ino \in Nat /\ root.builds \in Nat /\ root.stamp \in Nat
  BY MainFields DEF SessionInv, MainType, AnswerInv, IndexInv, RootType
<1>1. Still
  <2>1. root' = root /\ (Spawn \/ job' = job)
    BY DEF index, Search, ProbeSwitch, Refresh, Lookup, OpenDb, OpenRest, OpenFails, Insert,
           SemanticLookup, Reply, Compute, SemanticStore, NoSpawn
  <2>. QED
    BY <2>1, SpawnIsIdle DEF Still
<1>2. IsFresh(None, root', Stamping', Restoring')
  BY DEF IsFresh
<1>3. IsFresh(entry, root', Stamping', Restoring') /\ IsFresh(main.s, root', Stamping', Restoring')
  BY <1>0, <1>1, StillFresh
<1>4. ASSUME main'.s \in {main.s, entry, None}, entry' \in {entry, main.s, None},
             main'.pc \notin {"reply", "store"}
      PROVE  AnswerInv'
  <2>1. IsFresh(entry', root', Stamping', Restoring')
    BY <1>2, <1>3, <1>4
  <2>2. IsFresh(main'.s, root', Stamping', Restoring')
    BY <1>2, <1>3, <1>4
  <2>. QED
    BY <1>4, <2>1, <2>2 DEF AnswerInv, Fresh, GotCurrent
<1>5. ASSUME ProbeSwitch PROVE AnswerInv'
  <2>1. entry' \in {entry, None} /\ (main' = AtRest \/ main' = [main EXCEPT !.pc = "refresh", !.at = {head}])
    BY <1>5 DEF ProbeSwitch
  <2>2. CASE main' = AtRest
    BY <1>4, <2>1, <2>2, AtRestType
  <2>3. CASE main' = [main EXCEPT !.pc = "refresh", !.at = {head}]
    <3>1. main'.s = main.s /\ main'.pc = "refresh"
      BY <1>0, <2>3 DEF Mains
    <3>. QED
      BY <1>4, <2>1, <3>1
  <2>. QED
    BY <2>1, <2>2, <2>3
<1>6. ASSUME Refresh \/ Lookup \/ Insert PROVE AnswerInv'
  BY <1>0, <1>4, <1>6 DEF Refresh, Lookup, Insert, Mains
<1>7. ASSUME OpenFails \/ Reply PROVE AnswerInv'
  BY <1>4, <1>7 DEF OpenFails, Reply, AtRest
<1>8. ASSUME OpenDb PROVE AnswerInv'
  <2>1. /\ main'.s = [ino |-> root.ino, rest |-> None, causes |-> {}, answer |-> None]
        /\ main'.pc = "openRest" /\ entry' = entry
    BY <1>0, <1>8 DEF OpenDb, Mains
  <2>2. IsFresh(main'.s, root', Stamping', Restoring')
    BY <1>0, <1>1, <2>1 DEF IsFresh, Still
  <2>. QED
    BY <1>3, <2>1, <2>2 DEF AnswerInv, Fresh, GotCurrent
<1>9. ASSUME OpenRest PROVE AnswerInv'
  <2>1. main.s \in Searchers /\ main.s # None
    BY <1>0, <1>9 DEF OpenRest, SessionInv, MainType
  <2>2. /\ main'.s.ino = main.s.ino /\ main'.s.answer = main.s.answer /\ main'.pc = "insert"
        /\ entry' = entry
    BY <1>0, <1>9, <2>1 DEF OpenRest, Mains, Searchers
  <2>3. IsFresh(main'.s, root', Stamping', Restoring')
    BY <1>0, <1>1, <2>1, <2>2, StillFresh
  <2>. QED
    BY <1>3, <2>2, <2>3 DEF AnswerInv, Fresh, GotCurrent
<1>10. ASSUME SemanticLookup PROVE AnswerInv'
  <2> DEFINE s == [main.s EXCEPT !.answer = Valid(@)]
  <2>1. main.s \in Searchers /\ main.s # None
    BY <1>0, <1>10 DEF SemanticLookup, SessionInv, MainType, Using
  <2>2. /\ s.ino = main.s.ino /\ s.answer = Valid(main.s.answer)
        /\ s.answer \in {main.s.answer, None}
    BY <2>1 DEF Searchers, Valid
  <2>3. \/ main' = [main EXCEPT !.pc = "reply", !.s = s, !.got = s.answer]
        \/ main' = [main EXCEPT !.pc = "compute", !.s = s]
    BY <1>10 DEF SemanticLookup, Hit, Miss
  <2>4. entry' = IF main.held THEN s ELSE entry
    BY <1>10 DEF SemanticLookup, Keep
  <2>5. s.answer # None => s.answer = main.s.answer /\ s.answer.stamp = root.stamp
    BY <2>2 DEF Valid
  <2> HIDE DEF s
  <2>6. IsFresh(s, root', Stamping', Restoring')
    BY <1>0, <1>1, <2>1, <2>2, StillFresh
  <2>7. main'.s = s /\ ((main'.pc = "reply" /\ main'.got = s.answer) \/ main'.pc = "compute")
    BY <1>0, <2>3 DEF Mains
  <2>8. GotCurrent'
    <3>1. s.answer # None /\ s.ino = root.ino => IsCurrent(s.answer, root, Stamping)
      BY <1>0, <2>1, <2>2, <2>5 DEF Fresh, IsFresh
    <3>. QED
      BY <1>1, <2>7, <3>1 DEF GotCurrent, Current, IsCurrent, Still
  <2>. QED
    BY <1>3, <2>4, <2>6, <2>7, <2>8 DEF AnswerInv, Fresh
<1>11. ASSUME Compute PROVE AnswerInv'
  <2>1. /\ main'.got = [db |-> root.db, stamp |-> 0, raced |-> FALSE] /\ main'.s = main.s
        /\ entry' = entry
    BY <1>0, <1>11 DEF Compute, Mains
  <2>2. main'.got.db = root'.db
    BY <1>1, <2>1 DEF Still
  <2>. QED
    BY <1>3, <2>1, <2>2 DEF AnswerInv, Fresh, GotCurrent, Current, IsCurrent
<1>12. ASSUME SemanticStore PROVE AnswerInv'
  <2> DEFINE a == [main.got EXCEPT !.stamp = root.stamp]
             s == [main.s EXCEPT !.answer = a]
  <2>1. main.s \in Searchers /\ main.got \in Answers /\ main.s # None /\ main.got # None
    BY <1>0, <1>12 DEF SemanticStore, SessionInv, MainType, Using
  <2>2. a.stamp = root.stamp /\ a.raced = main.got.raced /\ a.db = main.got.db
    BY <2>1 DEF Answers
  <2> HIDE DEF a
  <2>3. s.ino = main.s.ino /\ s.answer = a
    BY <2>1 DEF Searchers
  <2>4. entry' = (IF main.held THEN s ELSE entry) /\ main' = AtRest
    BY <1>12 DEF SemanticStore, Keep, a
  <2> HIDE DEF s
  <2>5. main.s.ino <= root.ino
    BY <1>0, <2>1 DEF Fresh, IsFresh
  <2>6. main.s.ino = root.ino => IsCurrent(main.got, root, Stamping)
    BY <1>0, <1>12, <2>1 DEF SemanticStore, GotCurrent, Current
  <2>7. IsFresh(s, root', Stamping', Restoring')
    BY <1>1, <2>2, <2>3, <2>5, <2>6 DEF IsFresh, IsCurrent, Still, StampInv
  <2>. QED
    BY <1>2, <1>3, <2>4, <2>7 DEF AnswerInv, Fresh, GotCurrent, AtRest
<1>. QED
  BY <1>5, <1>6, <1>7, <1>8, <1>9, <1>10, <1>11, <1>12 DEF Search

LEMMA AnswerNext == ASSUME JobInv, IndexInv, SessionInv, StampInv, AnswerInv, [Next]_vars PROVE AnswerInv'
<1> USE DEF Phases, Writing
<1>0. /\ main \in Mains /\ main.s \in Searchers \cup {None} /\ main.got \in Answers \cup {None}
      /\ entry \in Searchers \cup {None} /\ Fresh(entry) /\ Fresh(main.s) /\ GotCurrent
  BY MainFields DEF SessionInv, MainType, AnswerInv
<1>1. ASSUME NEW p \in Procs, SwitchFails(p) \/ BuildFails(p) PROVE AnswerInv'
  BY <1>1, AnswerFails DEF SwitchFails, BuildFails
<1>2. ASSUME NEW w \in Workers, Panic(w) PROVE AnswerInv'
  BY <1>2, AnswerFails DEF Panic, Procs
<1>3. ASSUME NEW p \in Procs, NEW j \in {"done", "idle", "switch"},
             job[p] \in {"removed", "done", "idle"}, job' = [job EXCEPT ![p] = j]
      PROVE  (Stamping => Stamping') /\ (Restoring' => Restoring)
  <2>1. job'[p] = j /\ \A q \in Procs \ {p} : job'[q] = job[q]
    BY <1>3 DEF JobInv
  <2>. QED
    BY <1>3, <2>1 DEF Stamping, Restoring
<1>4. ASSUME NEW w \in Workers, RemoveSearcher(w) PROVE AnswerInv'
  <2>1. Still
    BY <1>3, <1>4 DEF RemoveSearcher, Still, index, Procs
  <2>2. /\ main'.s = IF main.pc \in Opening THEN Told(main.s, {"raced"}) ELSE main.s
        /\ main'.pc = main.pc /\ main'.got = main.got /\ entry' = None
    BY <1>0, <1>4 DEF RemoveSearcher, Mains
  <2>3. {"raced"} \in SUBSET Causes
    BY DEF Causes
  <2>4. /\ main.s = None => main'.s = None
        /\ main.s # None => main'.s.ino = main.s.ino /\ main'.s.answer = main.s.answer
    BY <1>0, <2>2, <2>3, ToldType, ToldMarks
  <2>5. IsFresh(main'.s, root', Stamping', Restoring')
    BY <1>0, <2>1, <2>4, StillFresh
  <2>6. IsFresh(entry', root', Stamping', Restoring')
    BY <2>2 DEF IsFresh
  <2>7. GotCurrent'
    BY <1>0, <2>1, <2>2, <2>4, StillGot
  <2>. QED
    BY <2>5, <2>6, <2>7 DEF AnswerInv, Fresh
<1>5. ASSUME Still, entry' = entry \/ entry' = None, main'.s = main.s,
             \/ main'.pc = main.pc /\ main'.got = main.got
             \/ main'.pc \in {"lookup", "switch"}
      PROVE  AnswerInv'
  <2>1. IsFresh(entry, root', Stamping', Restoring') /\ IsFresh(main.s, root', Stamping', Restoring')
    BY <1>0, <1>5, StillFresh
  <2>2. IsFresh(None, root', Stamping', Restoring')
    BY DEF IsFresh
  <2>3. GotCurrent'
    BY <1>0, <1>5, StillGot DEF GotCurrent
  <2>. QED
    BY <1>5, <2>1, <2>2, <2>3 DEF AnswerInv, Fresh
<1>6. ASSUME NEW w \in Workers, SetReady(w) PROVE AnswerInv'
  BY <1>3, <1>5, <1>6 DEF SetReady, Still, index, Procs
<1>7. ASSUME OtherStarts PROVE AnswerInv'
  BY <1>3, <1>5, <1>7 DEF OtherStarts, Still, index, Procs
<1>8. ASSUME Initialize \/ ToolIndex \/ ToolStatus \/ ToolStructural \/ ProbeFederated \/ ProbeState
      PROVE  AnswerInv'
  <2>1. (Spawn \/ job' = job) /\ root' = root /\ (entry' = None \/ entry' = entry)
    BY <1>8 DEF Initialize, ToolIndex, ToolStatus, ToolStructural, ProbeFederated, ProbeState, NoSpawn, index
  <2>2. Still
    BY <2>1, SpawnIsIdle DEF Still
  <2>3. main' = main \/ \E pc \in {"lookup", "switch"} : main' = [main EXCEPT !.pc = pc]
    BY <1>8 DEF Initialize, ToolIndex, ToolStatus, ToolStructural, ProbeFederated, ProbeState
  <2>4. /\ main'.s = main.s
        /\ (main'.pc = main.pc /\ main'.got = main.got) \/ main'.pc \in {"lookup", "switch"}
    BY <1>0, <2>3 DEF Mains
  <2>. QED
    BY <1>5, <2>1, <2>2, <2>4
<1>9. ASSUME Evict \/ Checkout \/ Edit \/ UNCHANGED vars PROVE AnswerInv'
  <2>1. root' = root /\ job' = job /\ (entry' = None \/ entry' = entry)
    BY <1>9 DEF Evict, Checkout, Edit, index, vars
  <2>2. Still
    BY <2>1, SpawnIsIdle DEF Still
  <2>3. main'.pc = main.pc /\ main'.s = main.s /\ main'.got = main.got
    BY <1>0, <1>9 DEF Evict, Checkout, Edit, vars, Mains
  <2>. QED
    BY <1>5, <2>1, <2>2, <2>3
<1>. QED
  BY <1>1, <1>2, <1>4, <1>6, <1>7, <1>8, <1>9, AnswerIndex, AnswerSearch DEF Next

\* A hit of the semantic cache is of the live chunks.db whenever nobody writes, unless the
\* answer straddled a write or a build failed between its chunks and its stamp
\* (semantic_cache.rs, enforce_stamp).
THEOREM CachedAnswersAreCurrent == Spec => []HitsAreCurrent
<1>1. JobInv /\ IndexInv /\ SessionInv /\ AnswerInv => HitsAreCurrent
  <2> SUFFICES ASSUME JobInv, IndexInv, SessionInv, AnswerInv, main.pc = "reply",
                      main.s.ino = root.ino, Quiet
               PROVE  main.got.db = root.db \/ main.got.raced
    BY DEF HitsAreCurrent
  <2>1. ~Stamping
    BY NameAssumption DEF Quiet, Locked, IndexInv, LockInv, Procs, Writing, Stamping
  <2>2. main.got # None
    BY DEF SessionInv, MainType
  <2>. QED
    BY <2>1, <2>2 DEF AnswerInv, GotCurrent, Current, IsCurrent
<1>2. Init => AnswerInv
  BY AtRestType DEF Init, AnswerInv, Fresh, IsFresh, GotCurrent
<1>3. JobInv /\ IndexInv /\ SessionInv /\ StampInv /\ AnswerInv /\ [Next]_vars => AnswerInv'
  BY AnswerNext
<1>. QED
  BY JobsHold, IndexHolds, SessionsHold, StampsHold, <1>1, <1>2, <1>3, PTL DEF Spec

=============================================================================
