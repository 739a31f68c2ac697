---------------------------- MODULE DaemonProofs ----------------------------
(***************************************************************************)
(* The daemon.  For every number of threads, branches, runs and failures:  *)
(* the searcher cache keeps its cap, one thread opens a searcher for all,  *)
(* and a tombstone hides no snapshot.  For every number of daemons,        *)
(* clients, connections and faults: the lifecycle leaves no file behind,   *)
(* starts no second daemon without an excuse, and never removes the        *)
(* sentinel of another that lives.                                         *)
(***************************************************************************)
EXTENDS SearcherCache, DaemonLifecycle, FiniteSetTheorems, TLAPS

(* The next state of a process that is given new fields. *)
LEMMA Update ==
  ASSUME TypeOK, NEW p \in Procs, NEW j \in Jobs, job' = [job EXCEPT ![p] = j]
  PROVE  /\ job' \in [Procs -> Jobs]
         /\ job'[p] = j
         /\ \A q \in Procs \ {p} : job'[q] = job[q]
BY DEF TypeOK

(* The process that moves leaves every other process what it relies on: it *)
(* takes no lock, snapshot, flight or tombstone from under it.             *)
LEMMA OthersOK ==
  ASSUME IInv, NEW p \in Procs,
         \A q \in Procs \ {p} :
            /\ job'[q].pc = job[q].pc /\ job'[q].key = job[q].key
            /\ job'[q].out = job[q].out /\ job'[q].from = job[q].from
            /\ job'[q].rest = job[q].rest
            /\ job[q].undone => job'[q].undone
            /\ side' # side /\ job[q].pc = "done" => job'[q].undone,
         \A q \in Procs \ {p} : lock = q => lock' = q,
         \A b \in Branches : snap[b] # None => snap'[b] # None,
         \A b \in Branches : snap'[b] = snap[b] \/ b = side \/ side' # side,
         \A q \in Procs \ {p}, b \in Branches :
            flight[b] = q => flight'[b] = q /\ (entries[b] = None => entries'[b] = None)
  PROVE  \A q \in Procs \ {p} : JobOK(q)'
<1> SUFFICES ASSUME NEW q \in Procs, q # p PROVE JobOK(q)'
  OBVIOUS
<1> USE DEF IInv
<1>1. JobOK(q) /\ job[q] \in Jobs
  BY DEF TypeOK
<1>2. job[q].pc \in Restoring \cup Opening \cup {"done"} => job[q].key \in Branches
  BY <1>1 DEF JobOK, Keyed, Phases, Restoring, Opening, PastCheck, Building
<1>3. job'[q].pc \in Restoring =>
         lock' = q /\ snap'[job'[q].key] # None /\ job'[q].out = "ok"
  BY <1>1, <1>2 DEF JobOK
<1>4. job'[q].pc = "done" /\ job'[q].out = "outgoing" =>
          /\ job'[q].from \in Branches \ {job'[q].key}
          /\ ~job'[q].undone => side' = job'[q].from /\ snap'[job'[q].key] = None
  BY <1>1, <1>2 DEF JobOK
<1>5. q \in Threads /\ job'[q].pc \in Opening =>
          flight'[job'[q].key] = q /\ entries'[job'[q].key] = None
  BY <1>1, <1>2 DEF JobOK
<1> QED
  BY <1>1, <1>3, <1>4, <1>5 DEF JobOK

(* A subset of what is resident keeps the cap. *)
LEMMA FewerResident ==
  ASSUME CapHolds, Resident(entries') \subseteq Resident(entries)
  PROVE  CapHolds'
<1>1. IsFiniteSet(Resident(entries)) /\ IsFiniteSet(Resident(entries'))
  BY BranchAssumption, FS_Subset DEF Resident
<1>2. Cardinality(Resident(entries')) <= Cardinality(Resident(entries))
  BY <1>1, FS_Subset
<1>3. Cardinality(Resident(entries)) \in Nat /\ Cardinality(Resident(entries')) \in Nat
  BY <1>1, FS_CardinalityType
<1> QED
  BY <1>2, <1>3, CapAssumption DEF CapHolds

(* A request whose step changes the entries and the flights at most. *)
LEMMA CacheStep ==
  ASSUME IInv, NEW p \in Procs, NEW j \in Jobs, job' = [job EXCEPT ![p] = j],
         UNCHANGED <<project, tomb, contradicted>>, runs' \in 0 .. MaxRuns,
         CacheTypeOK', CapHolds',
         \A q \in Procs \ {p}, b \in Branches :
            flight[b] = q => flight'[b] = q /\ (entries[b] = None => entries'[b] = None),
         lock # p, j.pc \notin Restoring \cup Building \cup {"done"},
         j.pc \in Keyed => j.key \in Branches,
         j.pc = "insert" => j.rest \in Versions,
         p \in Threads /\ j.pc \in Opening => flight'[j.key] = p /\ entries'[j.key] = None
  PROVE  IInv'
<1>1. job' \in [Procs -> Jobs] /\ job'[p] = j /\ \A q \in Procs \ {p} : job'[q] = job[q]
  BY Update DEF IInv
<1>2. TypeOK'
  BY <1>1 DEF IInv, TypeOK, ProjectTypeOK, project
<1>3. TombOK'
  BY DEF IInv, TombOK, project
<1>4. JobOK(p)'
  BY <1>1 DEF JobOK
<1>5. \A q \in Procs \ {p} : JobOK(q)'
  BY <1>1, OthersOK DEF project
<1> QED
  BY <1>2, <1>3, <1>4, <1>5 DEF IInv

(* A process whose step touches nothing shared. *)
LEMMA LocalStep ==
  ASSUME IInv, NEW p \in Procs, NEW j \in Jobs, job' = [job EXCEPT ![p] = j],
         UNCHANGED <<project, cache, contradicted>>, runs' \in 0 .. MaxRuns,
         lock # p, j.pc \notin Restoring \cup Building \cup Opening \cup {"done"},
         j.pc \in Keyed => j.key \in Branches
  PROVE  IInv'
<1>1. CacheTypeOK' /\ CapHolds'
  BY DEF IInv, TypeOK, CacheTypeOK, CapHolds, Resident, cache
<1>2. \A b \in Branches : flight'[b] = flight[b] /\ entries'[b] = entries[b]
  BY DEF cache
<1> QED
  BY <1>1, <1>2, CacheStep DEF cache, Opening

(* The holder of the index lock is switching or building. *)
LEMMA NotHolder ==
  ASSUME IInv, NEW p \in Procs, job[p].pc \notin Restoring \cup Building
  PROVE  lock # p
BY NameAssumption DEF IInv, TypeOK, Procs

LEMMA IdleJob ==
  /\ Idle \in Jobs /\ Idle.pc = "idle" /\ Idle.undone = FALSE
  /\ "idle" \notin Keyed \cup Opening \cup Restoring \cup Building
BY DEF Idle, Jobs, Phases, Keyed, Opening, PastCheck, Restoring, Building

-----------------------------------------------------------------------------
(* The requests. *)

LEMMA RequestLocally ==
  ASSUME IInv, NEW t \in Threads,
         Check(t) \/ ReadKey(t) \/ ReadMarker(t)
  PROVE  IInv'
<1> USE DEF Phases, Keyed, Opening, PastCheck, Restoring, Building
<1>1. t \in Procs /\ job[t] \in Jobs
  BY DEF Procs, IInv, TypeOK
<1>2. runs' \in 0 .. MaxRuns /\ head \in Branches /\ root.mark \in Nat
  BY DEF IInv, TypeOK, ProjectTypeOK, Roots, Check, ReadKey, ReadMarker, bounds
<1>3. job[t].pc \in {"idle", "key", "marker"}
  BY DEF Check, ReadKey, ReadMarker
<1>4. lock # t
  BY <1>1, <1>3, NotHolder
<1>5. CASE Check(t)
  <2> DEFINE j == [Idle EXCEPT !.pc = IF NothingToDo THEN "key" ELSE "gate",
                               !.overlapped = NothingToDo /\ HalfRestored]
  <2>1. j \in Jobs /\ j.pc \in {"key", "gate"}
    BY DEF Jobs, Idle
  <2>2. job' = [job EXCEPT ![t] = j]
    BY <1>5 DEF Check
  <2> HIDE DEF j
  <2> QED
    BY <1>1, <1>2, <1>4, <1>5, <2>1, <2>2, LocalStep DEF Check
<1>6. CASE ReadKey(t)
  <2> DEFINE j == [job[t] EXCEPT !.pc = "marker", !.key = head]
  <2>1. j \in Jobs /\ j.pc = "marker" /\ j.key \in Branches
    BY <1>1, <1>2 DEF Jobs
  <2>2. job' = [job EXCEPT ![t] = j]
    BY <1>6 DEF ReadKey
  <2> HIDE DEF j
  <2> QED
    BY <1>1, <1>2, <1>4, <1>6, <2>1, <2>2, LocalStep DEF ReadKey
<1>7. CASE ReadMarker(t)
  <2> DEFINE j == [job[t] EXCEPT !.pc = "lookup", !.mark = root.mark]
  <2>1. j \in Jobs /\ j.pc = "lookup" /\ j.key \in Branches
    BY <1>1, <1>2, <1>7 DEF Jobs, IInv, JobOK, ReadMarker
  <2>2. job' = [job EXCEPT ![t] = j]
    BY <1>7 DEF ReadMarker
  <2> HIDE DEF j
  <2> QED
    BY <1>1, <1>2, <1>4, <1>7, <2>1, <2>2, LocalStep DEF ReadMarker
<1> QED
  BY <1>5, <1>6, <1>7

(* A switch to handle drops the searchers of the project. *)
LEMMA TakeGateStep ==
  ASSUME IInv, NEW t \in Threads, TakeGate(t)
  PROVE  IInv'
<1> USE DEF Phases, Keyed, Opening, PastCheck, Restoring, Building
<1>1. t \in Procs /\ job[t] \in Jobs /\ lock # t
  BY NotHolder DEF Procs, IInv, TypeOK, TakeGate
<1>2. runs' \in 0 .. MaxRuns /\ head \in Branches
  BY DEF IInv, TypeOK, ProjectTypeOK, TakeGate, bounds
<1>3. CASE NothingToDo
  <2> DEFINE j == [job[t] EXCEPT !.pc = "key", !.overlapped = HalfRestored]
  <2>1. j \in Jobs /\ j.pc = "key"
    BY <1>1 DEF Jobs, HalfRestored
  <2>2. job' = [job EXCEPT ![t] = j] /\ UNCHANGED <<project, cache, contradicted>>
    BY <1>3 DEF TakeGate, cache
  <2> HIDE DEF j
  <2> QED
    BY <1>1, <1>2, <2>1, <2>2, LocalStep
<1>4. CASE ~NothingToDo
  <2> DEFINE j == [job[t] EXCEPT !.pc = "lock", !.key = head]
  <2>1. j \in Jobs /\ j.pc = "lock" /\ j.key \in Branches
    BY <1>1, <1>2 DEF Jobs
  <2>2. job' = [job EXCEPT ![t] = j] /\ entries' = [b \in Branches |-> None] /\ gate' = t
        /\ UNCHANGED <<project, tomb, cooling, flight, runs, contradicted>>
    BY <1>4 DEF TakeGate, bounds
  <2> HIDE DEF j
  <2>3. CacheTypeOK'
    BY <2>2 DEF IInv, TypeOK, CacheTypeOK
  <2>4. CapHolds'
    BY <2>2, FewerResident DEF IInv, Resident
  <2> QED
    BY <1>1, <1>2, <2>1, <2>2, <2>3, <2>4, CacheStep
<1> QED
  BY <1>3, <1>4

(* The outcome of a reconcile; a tombstone is that of the switch recorded. *)
LEMMA SettleStep ==
  ASSUME IInv, NEW t \in Threads, Settle(t)
  PROVE  IInv'
<1> USE DEF Phases, Keyed, Opening, PastCheck, Restoring, Building
<1> DEFINE j == [Idle EXCEPT !.pc = "key", !.overlapped = HalfRestored]
<1>1. t \in Procs /\ job[t] \in Jobs /\ job[t].pc = "done" /\ lock # t /\ JobOK(t)
  BY NotHolder DEF Procs, IInv, TypeOK, Settle
<1>2. j \in Jobs /\ j.pc = "key"
  BY DEF Jobs, Idle, HalfRestored
<1>3. job' = [job EXCEPT ![t] = j]
  BY DEF Settle
<1> HIDE DEF j
<1>4. job' \in [Procs -> Jobs] /\ job'[t] = j /\ \A q \in Procs \ {t} : job'[q] = job[q]
  BY <1>1, <1>2, <1>3, Update DEF IInv
<1>5. job[t].key \in Branches /\ job[t].out \in {"ok", "outgoing", "err"}
  BY <1>1 DEF JobOK, Jobs
<1>6. ASSUME job[t].out = "outgoing" PROVE TypeOK' /\ TombOK'
  <2>1. /\ tomb' = [from |-> job[t].from, to |-> job[t].key]
        /\ contradicted' = job[t].undone /\ job[t].from \in Branches
    BY <1>1, <1>6 DEF Settle, JobOK
  <2>2. TypeOK'
    BY <1>1, <1>4, <1>5, <2>1 DEF IInv, TypeOK, ProjectTypeOK, CacheTypeOK, Settle, project,
                                  bounds, Jobs
  <2>3. TombOK'
    BY <1>1, <1>6, <2>1 DEF JobOK, TombOK, Settle, project
  <2> QED
    BY <2>2, <2>3
<1>7. ASSUME job[t].out # "outgoing" PROVE TypeOK' /\ TombOK'
  <2>1. contradicted' = contradicted /\ tomb' \in {None, tomb} /\ UNCHANGED <<side, snap>>
    BY <1>5, <1>7 DEF Settle, project
  <2>2. cooling' \in BOOLEAN
    BY DEF Settle
  <2>3. TypeOK'
    BY <1>1, <1>4, <2>1, <2>2 DEF IInv, TypeOK, ProjectTypeOK, CacheTypeOK, Settle, project, bounds
  <2>4. TombOK'
    BY <2>1 DEF IInv, TombOK
  <2> QED
    BY <2>3, <2>4
<1>8. CapHolds'
  BY DEF IInv, CapHolds, Resident, Settle
<1>9. JobOK(t)'
  BY <1>2, <1>4 DEF JobOK
<1>10. \A q \in Procs \ {t} : JobOK(q)'
  BY <1>1, <1>4, OthersOK DEF Settle, project
<1> QED
  BY <1>6, <1>7, <1>8, <1>9, <1>10 DEF IInv

-----------------------------------------------------------------------------
(* Lookup, the flight, the open and the insert. *)

LEMMA WithoutEntries ==
  ASSUME IInv, NEW t \in Threads, job[t].key \in Branches
  PROVE  /\ Without(t) \in [Branches -> Searchers \cup {None}]
         /\ Without(t)[job[t].key] = None
         /\ \A b \in Branches : entries[b] = None => Without(t)[b] = None
         /\ Resident(Without(t)) \subseteq Resident(entries)
BY DEF IInv, TypeOK, CacheTypeOK, Without, Resident

LEMMA LookupStep ==
  ASSUME IInv, NEW t \in Threads, Lookup(t)
  PROVE  IInv'
<1> USE DEF Phases, Keyed, Opening, PastCheck, Restoring, Building
<1>1. t \in Procs /\ job[t] \in Jobs /\ lock # t /\ job[t].key \in Branches
  BY NotHolder DEF Procs, IInv, TypeOK, Lookup, JobOK
<1>2. runs' \in 0 .. MaxRuns
  BY DEF IInv, TypeOK, Lookup, bounds
<1>3. CASE Hit(t)
  BY <1>1, <1>2, <1>3, IdleJob, LocalStep DEF Lookup, cache
<1>4. CASE ~Hit(t)
  <2> DEFINE j == [job[t] EXCEPT !.pc = "flight"]
  <2>1. j \in Jobs /\ j.pc = "flight" /\ j.key \in Branches
    BY <1>1 DEF Jobs
  <2>2. job' = [job EXCEPT ![t] = j] /\ entries' = Without(t)
        /\ UNCHANGED <<project, gate, tomb, cooling, flight, contradicted>>
    BY <1>4 DEF Lookup, Go
  <2> HIDE DEF j
  <2>3. CacheTypeOK' /\ CapHolds'
    BY <1>1, <2>2, WithoutEntries, FewerResident DEF IInv, TypeOK, CacheTypeOK
  <2> QED
    BY <1>1, <1>2, <2>1, <2>2, <2>3, WithoutEntries, CacheStep
<1> QED
  BY <1>3, <1>4

(* Eviction makes room for one more searcher. *)
LEMMA EvictedEntries ==
  ASSUME NEW es \in [Branches -> Searchers \cup {None}], NEW fs \in Evicted(es)
  PROVE  /\ fs \in [Branches -> Searchers \cup {None}]
         /\ \A b \in Branches : es[b] = None => fs[b] = None
         /\ Resident(fs) \subseteq Resident(es)
         /\ Cardinality(Resident(fs)) < MaxCached
<1>1. IsFiniteSet(Resident(es)) /\ Cardinality(Resident(es)) \in Nat
  BY BranchAssumption, FS_Subset, FS_CardinalityType DEF Resident
<1>2. CASE Cardinality(Resident(es)) < MaxCached
  BY <1>2 DEF Evicted
<1>3. CASE ~(Cardinality(Resident(es)) < MaxCached)
  <2>1. PICK out \in SUBSET Resident(es) :
           /\ Cardinality(out) = Cardinality(Resident(es)) - (MaxCached - 1)
           /\ fs = [b \in Branches |-> IF b \in out THEN None ELSE es[b]]
    BY <1>3 DEF Evicted
  <2>2. Resident(fs) = Resident(es) \ out /\ Resident(es) \cap out = out
    BY <2>1 DEF Resident
  <2>3. Cardinality(Resident(fs)) = Cardinality(Resident(es)) - Cardinality(out)
    BY <1>1, <2>1, <2>2, FS_Difference
  <2>4. Cardinality(Resident(fs)) < MaxCached
    BY <1>1, <2>1, <2>3, CapAssumption
  <2> QED
    BY <2>1, <2>2, <2>4
<1> QED
  BY <1>2, <1>3

LEMMA TakeFlightStep ==
  ASSUME IInv, NEW t \in Threads, TakeFlight(t)
  PROVE  IInv'
<1> USE DEF Phases, Keyed, Opening, PastCheck, Restoring, Building
<1>1. t \in Procs /\ job[t] \in Jobs /\ lock # t /\ job[t].key \in Branches
  BY NotHolder DEF Procs, IInv, TypeOK, TakeFlight, JobOK
<1>2. runs' \in 0 .. MaxRuns
  BY DEF IInv, TypeOK, TakeFlight, bounds
<1>3. CASE Hit(t)
  BY <1>1, <1>2, <1>3, IdleJob, LocalStep DEF TakeFlight, cache
<1>4. CASE ~Hit(t)
  <2> DEFINE j == [job[t] EXCEPT !.pc = "openDb"]
  <2>1. j \in Jobs /\ j.pc = "openDb" /\ j.key = job[t].key
    BY <1>1 DEF Jobs
  <2>2. job' = [job EXCEPT ![t] = j] /\ entries' \in Evicted(Without(t))
        /\ flight[j.key] = None /\ flight' = [flight EXCEPT ![j.key] = t]
        /\ UNCHANGED <<project, gate, tomb, cooling, contradicted>>
    BY <1>4 DEF TakeFlight, Go
  <2> HIDE DEF j
  <2>3. /\ entries' \in [Branches -> Searchers \cup {None}]
        /\ \A b \in Branches : entries[b] = None => entries'[b] = None
        /\ entries'[j.key] = None
        /\ Resident(entries') \subseteq Resident(entries)
    BY <1>1, <2>1, <2>2, WithoutEntries, EvictedEntries
  <2>4. CapHolds'
    BY <2>3, FewerResident DEF IInv
  <2>5. CacheTypeOK' /\ flight'[j.key] = t
    BY <1>1, <2>1, <2>2, <2>3 DEF IInv, TypeOK, CacheTypeOK
  <2>6. \A q \in Procs \ {t}, b \in Branches :
           flight[b] = q => flight'[b] = q /\ (entries[b] = None => entries'[b] = None)
    BY <1>1, <2>1, <2>2, <2>3, NameAssumption DEF Procs, IInv, TypeOK, CacheTypeOK
  <2>7. j.pc \notin Restoring \cup Building \cup {"done"}
    BY <2>1
  <2> HIDE DEF Phases, Keyed, Opening, PastCheck, Restoring, Building
  <2> QED
    BY <1>1, <1>2, <2>1, <2>2, <2>3, <2>4, <2>5, <2>6, <2>7, CacheStep
<1> QED
  BY <1>3, <1>4

LEMMA OpenStep ==
  ASSUME IInv, NEW t \in Threads, OpenDb(t) \/ OpenRest(t)
  PROVE  IInv'
<1> USE DEF Phases, Keyed, Opening, PastCheck, Restoring, Building
<1>1. /\ t \in Procs /\ job[t] \in Jobs /\ lock # t /\ job[t].key \in Branches
      /\ flight[job[t].key] = t /\ entries[job[t].key] = None
  BY NotHolder DEF Procs, IInv, TypeOK, OpenDb, OpenRest, JobOK
<1>2. /\ runs' \in 0 .. MaxRuns /\ UNCHANGED <<project, cache, contradicted>>
      /\ root.ino \in Nat /\ root.rest \in Versions
  BY DEF IInv, TypeOK, ProjectTypeOK, Roots, OpenDb, OpenRest, bounds
<1>3. CacheTypeOK' /\ CapHolds' /\ entries' = entries /\ flight' = flight /\ tomb' = tomb
  BY <1>2 DEF IInv, TypeOK, CacheTypeOK, CapHolds, Resident, cache
<1>4. PICK j \in Jobs :
         /\ job' = [job EXCEPT ![t] = j] /\ j.key = job[t].key
         /\ j.pc \in {"openRest", "insert"}
         /\ j.pc = "insert" => j.rest \in Versions
  <2>1. CASE OpenDb(t)
    <3> DEFINE j == [job[t] EXCEPT !.pc = "openRest", !.ino = root.ino]
    <3>1. j \in Jobs /\ j.pc = "openRest" /\ j.key = job[t].key
      BY <1>1, <1>2 DEF Jobs
    <3> QED
      BY <2>1, <3>1 DEF OpenDb
  <2>2. CASE OpenRest(t)
    <3> DEFINE j == [job[t] EXCEPT !.pc = "insert", !.rest = root.rest]
    <3>1. j \in Jobs /\ j.pc = "insert" /\ j.key = job[t].key /\ j.rest = root.rest
      BY <1>1, <1>2 DEF Jobs
    <3> QED
      BY <1>2, <2>2, <3>1 DEF OpenRest
  <2> QED
    BY <2>1, <2>2
<1>5. j.pc \notin Restoring \cup Building \cup {"done"}
  BY <1>4
<1>6. /\ UNCHANGED <<project, tomb, contradicted>>
      /\ \A q \in Procs \ {t}, b \in Branches :
            flight[b] = q => flight'[b] = q /\ (entries[b] = None => entries'[b] = None)
      /\ flight'[j.key] = t /\ entries'[j.key] = None /\ j.key \in Branches
  BY <1>1, <1>2, <1>3, <1>4
<1> HIDE DEF Phases, Keyed, Opening, PastCheck, Restoring, Building
<1> QED
  BY <1>1, <1>2, <1>3, <1>4, <1>5, <1>6, CacheStep

(* The thread that leaves the flight gives back its own. *)
LEMMA LandedFlights ==
  ASSUME IInv, NEW t \in Threads, job[t].pc \in Opening, Landed(t)
  PROVE  /\ job[t].key \in Branches
         /\ flight' \in [Branches -> Threads \cup {None}]
         /\ flight[job[t].key] = t
         /\ \A q \in Procs \ {t}, b \in Branches :
               flight[b] = q => b # job[t].key /\ flight'[b] = q
BY DEF IInv, TypeOK, CacheTypeOK, JobOK, Landed, Procs, Keyed, Phases, Opening, PastCheck,
       Restoring, Building

LEMMA LandStep ==
  ASSUME IInv, NEW t \in Threads, OpenFails(t) \/ Insert(t)
  PROVE  IInv'
<1>1. t \in Procs /\ job[t] \in Jobs /\ job[t].pc \in Opening /\ Landed(t) /\ lock # t
  BY NotHolder DEF Procs, IInv, TypeOK, OpenFails, Insert, Opening, Restoring, Building
<1>2. /\ runs' \in 0 .. MaxRuns /\ job' = [job EXCEPT ![t] = Idle]
      /\ UNCHANGED <<project, tomb, contradicted, gate, cooling>>
  BY DEF IInv, TypeOK, OpenFails, Insert, bounds
<1>3. /\ entries' \in [Branches -> Searchers \cup {None}]
      /\ \A b \in Branches \ {job[t].key} : entries[b] = None => entries'[b] = None
      /\ CapHolds'
  <2>1. CASE OpenFails(t)
    BY <2>1 DEF OpenFails, IInv, TypeOK, CacheTypeOK, CapHolds, Resident
  <2>2. CASE Insert(t)
    <3> DEFINE e == [mark |-> job[t].mark, ino |-> job[t].ino, rest |-> job[t].rest,
                     overlapped |-> job[t].overlapped]
    <3>1. e \in Searchers
      BY <1>1, <2>2 DEF Insert, IInv, JobOK, Jobs, Searchers
    <3>2. PICK es \in Evicted(entries) : entries' = [es EXCEPT ![job[t].key] = e]
      BY <2>2 DEF Insert
    <3> HIDE DEF e
    <3>3. /\ es \in [Branches -> Searchers \cup {None}]
          /\ \A b \in Branches : entries[b] = None => es[b] = None
          /\ Cardinality(Resident(es)) < MaxCached
      BY <3>2, EvictedEntries DEF IInv, TypeOK, CacheTypeOK
    <3>4. Resident(entries') \subseteq Resident(es) \cup {job[t].key}
      BY <3>2, <3>3 DEF Resident
    <3>5. IsFiniteSet(Resident(es)) /\ Cardinality(Resident(es)) \in Nat
      BY BranchAssumption, FS_Subset, FS_CardinalityType DEF Resident
    <3>6. /\ IsFiniteSet(Resident(es) \cup {job[t].key})
          /\ Cardinality(Resident(es) \cup {job[t].key}) <= Cardinality(Resident(es)) + 1
      BY <3>5, FS_AddElement
    <3>7. /\ Cardinality(Resident(entries')) <= Cardinality(Resident(es) \cup {job[t].key})
          /\ Cardinality(Resident(entries')) \in Nat
          /\ Cardinality(Resident(es) \cup {job[t].key}) \in Nat
      BY <3>4, <3>6, FS_Subset, FS_CardinalityType
    <3>8. CapHolds'
      BY <3>3, <3>5, <3>6, <3>7, CapAssumption DEF CapHolds
    <3> QED
      BY <3>1, <3>2, <3>3, <3>8
  <2> QED
    BY <2>1, <2>2
<1>4. CacheTypeOK'
  BY <1>1, <1>2, <1>3, LandedFlights DEF IInv, TypeOK, CacheTypeOK
<1>5. \A q \in Procs \ {t}, b \in Branches :
         flight[b] = q => flight'[b] = q /\ (entries[b] = None => entries'[b] = None)
  BY <1>1, <1>3, LandedFlights
<1> QED
  BY <1>1, <1>2, <1>3, <1>4, <1>5, IdleJob, CacheStep

-----------------------------------------------------------------------------
(* The steps under the index lock, of a request or of the other process. *)

LEMMA ProjectStep ==
  ASSUME IInv, NEW p \in Procs, job' \in [Procs -> Jobs],
         \A q \in Procs \ {p} :
            /\ job'[q].pc = job[q].pc /\ job'[q].key = job[q].key
            /\ job'[q].out = job[q].out /\ job'[q].from = job[q].from
            /\ job'[q].rest = job[q].rest
            /\ job[q].undone => job'[q].undone
            /\ side' # side /\ job[q].pc = "done" => job'[q].undone,
         \A q \in Procs \ {p} : lock = q => lock' = q,
         \A b \in Branches : snap[b] # None => snap'[b] # None,
         \A b \in Branches : snap'[b] = snap[b] \/ b = side \/ side' # side,
         UNCHANGED <<cache, runs>>,
         ProjectTypeOK', contradicted' \in BOOLEAN,
         side' # side => contradicted',
         contradicted => contradicted',
         snap'[side'] # None,
         lock' # None => job'[lock'].pc \in Restoring \cup Building,
         JobOK(p)'
  PROVE  IInv'
<1>1. \A q \in Procs \ {p}, b \in Branches :
         flight[b] = q => flight'[b] = q /\ (entries[b] = None => entries'[b] = None)
  BY DEF cache
<1>2. \A q \in Procs \ {p} : JobOK(q)'
  BY <1>1, OthersOK
<1>3. TypeOK'
  BY DEF IInv, TypeOK, CacheTypeOK, cache
<1>4. CapHolds'
  BY DEF IInv, CapHolds, Resident, cache
<1>5. tomb # None => tomb.to \in Branches
  BY DEF IInv, TypeOK, CacheTypeOK
<1>6. TombOK'
  BY <1>5 DEF IInv, TombOK, cache
<1> QED
  BY <1>2, <1>3, <1>4, <1>6 DEF IInv

LEMMA ReconcileStep ==
  ASSUME IInv, NEW p \in Procs, Reconcile(p)
  PROVE  IInv'
<1> USE DEF Phases, Keyed, Opening, PastCheck, Restoring, Building
<1> DEFINE key == job[p].key
<1>1. /\ job[p] \in Jobs /\ job[p].pc = "lock" /\ key \in Branches
      /\ lock = None /\ lock # p /\ side \in Branches
      /\ UNCHANGED <<head, root, side, cache, runs, contradicted>>
  BY NotHolder DEF Procs, IInv, TypeOK, ProjectTypeOK, Reconcile, JobOK, bounds
<1>2. CASE side = key
  <2> DEFINE j == [job[p] EXCEPT !.pc = "done", !.out = "ok"]
  <2>1. j \in Jobs /\ j.pc = "done" /\ j.out = "ok" /\ j.key \in Branches
    BY <1>1 DEF Jobs
  <2>2. job' = [job EXCEPT ![p] = j] /\ snap' = snap /\ lock' = lock
    BY <1>2 DEF Reconcile
  <2> HIDE DEF j
  <2>3. job' \in [Procs -> Jobs] /\ job'[p] = j /\ \A q \in Procs \ {p} : job'[q] = job[q]
    BY <2>1, <2>2, Update DEF IInv
  <2>4. JobOK(p)'
    BY <2>1, <2>3 DEF JobOK
  <2>5. ProjectTypeOK' /\ contradicted' \in BOOLEAN /\ snap'[side'] # None
    BY <1>1, <2>2 DEF IInv, TypeOK, ProjectTypeOK
  <2> HIDE DEF Phases, Keyed, Opening, PastCheck, Restoring, Building
  <2> QED
    BY <1>1, <2>2, <2>3, <2>4, <2>5, ProjectStep
<1>3. CASE side # key /\ snap[key] # None
  <2> DEFINE j == [job[p] EXCEPT !.pc = "restoreDb", !.out = "ok"]
  <2>1. j \in Jobs /\ j.pc = "restoreDb" /\ j.key = key /\ j.out = "ok"
    BY <1>1 DEF Jobs
  <2>2. job' = [job EXCEPT ![p] = j] /\ snap' = snap /\ lock' = p
    BY <1>3 DEF Reconcile
  <2> HIDE DEF j
  <2>3. job' \in [Procs -> Jobs] /\ job'[p] = j /\ \A q \in Procs \ {p} : job'[q] = job[q]
    BY <2>1, <2>2, Update DEF IInv
  <2>4. JobOK(p)'
    BY <1>1, <1>3, <2>1, <2>2, <2>3 DEF JobOK
  <2>5. ProjectTypeOK' /\ contradicted' \in BOOLEAN /\ snap'[side'] # None
    BY <1>1, <2>2 DEF IInv, TypeOK, ProjectTypeOK
  <2>6. /\ job'[lock'].pc \in Restoring \cup Building
        /\ \A q \in Procs \ {p} : lock = q => lock' = q
    BY <1>1, <2>1, <2>2, <2>3, NameAssumption DEF Procs
  <2> HIDE DEF Phases, Keyed, Opening, PastCheck, Restoring, Building
  <2> QED
    BY <1>1, <2>2, <2>3, <2>4, <2>5, <2>6, ProjectStep
<1>4. CASE side # key /\ snap[key] = None
  <2> DEFINE j == [job[p] EXCEPT !.pc = "done", !.out = "outgoing", !.from = side]
             copy == [db |-> root.db, rest |-> root.rest, meta |-> root.meta]
  <2>1. /\ j \in Jobs /\ j.pc = "done" /\ j.out = "outgoing" /\ j.key = key /\ j.from = side
        /\ j.undone = job[p].undone
    BY <1>1 DEF Jobs
  <2>2. /\ job' = [job EXCEPT ![p] = j] /\ lock' = lock
        /\ snap' = snap \/ snap' = [snap EXCEPT ![side] = copy]
    BY <1>4 DEF Reconcile
  <2> HIDE DEF j
  <2>3. job' \in [Procs -> Jobs] /\ job'[p] = j /\ \A q \in Procs \ {p} : job'[q] = job[q]
    BY <2>1, <2>2, Update DEF IInv
  <2>4. copy \in Snapshots /\ copy # None
    BY NameAssumption DEF IInv, TypeOK, ProjectTypeOK, Roots, Snapshots
  <2> HIDE DEF copy
  <2>5. /\ snap' \in [Branches -> Snapshots \cup {None}]
        /\ \A b \in Branches : snap'[b] = snap[b] \/ b = side
        /\ \A b \in Branches : snap[b] # None => snap'[b] # None
        /\ snap'[key] = None
    BY <1>1, <1>4, <2>2, <2>4 DEF IInv, TypeOK, ProjectTypeOK
  <2>6. JobOK(p)'
    BY <1>1, <1>4, <2>1, <2>2, <2>3, <2>5 DEF JobOK
  <2>7. ProjectTypeOK' /\ contradicted' \in BOOLEAN /\ snap'[side'] # None
    BY <1>1, <2>2, <2>5 DEF IInv, TypeOK, ProjectTypeOK
  <2> HIDE DEF Phases, Keyed, Opening, PastCheck, Restoring, Building
  <2> QED
    BY <1>1, <2>2, <2>3, <2>5, <2>6, <2>7, ProjectStep
<1> QED
  BY <1>2, <1>3, <1>4

(* Every write of a part of the root leaves a root. *)
LEMMA RootWrites ==
  ASSUME NEW r \in Roots, NEW v \in Versions
  PROVE  /\ [r EXCEPT !.db = v] \in Roots
         /\ [r EXCEPT !.rest = v] \in Roots
         /\ [r EXCEPT !.mark = @ + 1, !.reverted = FALSE] \in Roots
         /\ [r EXCEPT !.meta = v, !.mark = @ + 1, !.reverted = FALSE] \in Roots
<1>1. r.ino \in Nat /\ r.mark \in Nat /\ r.ino + 1 \in Nat /\ r.mark + 1 \in Nat
  BY DEF Roots
<1> QED
  BY <1>1 DEF Roots

LEMMA RootRestored ==
  ASSUME NEW r \in Roots, NEW v \in Versions, NEW x \in BOOLEAN
  PROVE  [r EXCEPT !.db = v, !.ino = @ + 1, !.reverted = x] \in Roots
<1>1. r.ino \in Nat /\ r.ino + 1 \in Nat
  BY DEF Roots
<1> QED
  BY <1>1 DEF Roots

LEMMA RootType ==
  ASSUME IInv
  PROVE  root \in Roots /\ root.db \in Versions /\ [n |-> runs, branch |-> head] \in Versions
BY DEF IInv, TypeOK, ProjectTypeOK, Roots, Versions

(* The holder of the lock writes a part of the root and goes on. *)
LEMMA RootStep ==
  ASSUME IInv, NEW p \in Procs, NEW pc \in Phases,
         \/ job[p].pc \in Restoring /\ pc \in Restoring
         \/ job[p].pc \in Building /\ pc \in Building,
         job' = [job EXCEPT ![p].pc = pc], root' \in Roots,
         UNCHANGED <<head, side, snap, lock, cache, runs, contradicted>>
  PROVE  IInv'
<1> DEFINE j == [job[p] EXCEPT !.pc = pc]
<1>1. job[p] \in Jobs /\ JobOK(p) /\ lock = p
  BY DEF IInv, TypeOK, JobOK
<1>2. j \in Jobs /\ j.pc = pc /\ j.key = job[p].key /\ j.out = job[p].out /\ job' = [job EXCEPT ![p] = j]
  BY <1>1 DEF Jobs
<1> HIDE DEF j
<1>3. job' \in [Procs -> Jobs] /\ job'[p] = j /\ \A q \in Procs \ {p} : job'[q] = job[q]
  BY <1>2, Update DEF IInv
<1>4. JobOK(p)'
  BY <1>1, <1>2, <1>3 DEF Jobs, JobOK, Phases, Keyed, Opening, PastCheck, Restoring, Building
<1>5. ProjectTypeOK' /\ contradicted' \in BOOLEAN /\ snap'[side'] # None
  BY DEF IInv, TypeOK, ProjectTypeOK, Roots
<1>6. job'[lock'].pc \in Restoring \cup Building
  BY <1>1, <1>2, <1>3
<1> QED
  BY <1>3, <1>4, <1>5, <1>6, ProjectStep

LEMMA RestorePartStep ==
  ASSUME IInv, NEW p \in Procs, RestoreDb(p) \/ RestoreRest(p)
  PROVE  IInv'
<1>1. job[p].pc \in Restoring
  BY DEF RestoreDb, RestoreRest, Restoring
<1>2. job[p].key \in Branches /\ snap[job[p].key] \in Snapshots
  BY <1>1 DEF IInv, TypeOK, ProjectTypeOK, JobOK, Keyed, Phases, Restoring, Building
<1>3. snap[job[p].key].db \in Versions /\ snap[job[p].key].rest \in Versions
  BY <1>2 DEF Snapshots
<1>4. root' \in Roots
  <2>1. CASE RestoreDb(p)
    <3> DEFINE x == root.reverted \/ snap[job[p].key].db = root.meta
    <3>1. x \in BOOLEAN
      BY RootType DEF Roots
    <3>2. root' = [root EXCEPT !.db = snap[job[p].key].db, !.ino = @ + 1, !.reverted = x]
      BY <2>1 DEF RestoreDb
    <3> HIDE DEF x
    <3> QED
      BY <1>3, <3>1, <3>2, RootType, RootRestored
  <2>2. CASE RestoreRest(p)
    BY <1>3, <2>2, RootType, RootWrites DEF RestoreRest
  <2> QED
    BY <2>1, <2>2
<1>5. UNCHANGED <<head, side, snap, lock, cache, runs, contradicted>>
  BY DEF RestoreDb, RestoreRest, bounds
<1>6. PICK pc \in Restoring : job' = [job EXCEPT ![p].pc = pc]
  BY DEF RestoreDb, RestoreRest, Go, Restoring
<1>7. pc \in Phases
  BY <1>6 DEF Phases
<1> QED
  BY <1>1, <1>4, <1>5, <1>6, <1>7, RootStep

LEMMA BuildPartStep ==
  ASSUME IInv, BuildDb \/ BuildRest \/ BuildMeta
  PROVE  IInv'
<1>1. Cli \in Procs /\ job[Cli].pc \in Building
  BY DEF Procs, BuildDb, BuildRest, BuildMeta, Building
<1>2. root' \in Roots
  <2>1. BuildDb => root' \in Roots
    BY RootType, RootWrites DEF BuildDb
  <2>2. BuildRest => root' \in Roots
    BY RootType, RootWrites DEF BuildRest
  <2>3. [root EXCEPT !.meta = root.db, !.mark = @ + 1, !.reverted = FALSE] \in Roots
    BY RootType, RootWrites
  <2>4. BuildMeta => root' \in Roots
    BY <2>3 DEF BuildMeta
  <2> QED
    BY <2>1, <2>2, <2>4
<1>3. /\ UNCHANGED <<head, side, snap, lock, cache, runs, contradicted>>
      /\ \E pc \in Building : job' = [job EXCEPT ![Cli].pc = pc]
  BY DEF BuildDb, BuildRest, BuildMeta, Go, Building, bounds
<1>4. Building \subseteq Phases
  BY DEF Phases
<1> QED
  BY <1>1, <1>2, <1>3, <1>4, RootStep

LEMMA RestoreMetaStep ==
  ASSUME IInv, NEW p \in Procs, RestoreMeta(p)
  PROVE  IInv'
<1>1. /\ job \in [Procs -> Jobs] /\ job[p].pc = "restoreMeta" /\ JobOK(p) /\ lock = p
      /\ job[p].key \in Branches /\ snap[job[p].key] \in Snapshots
  BY DEF IInv, TypeOK, ProjectTypeOK, JobOK, RestoreMeta, Keyed, Phases, Restoring, Building
<1>2. /\ root' \in Roots
      /\ UNCHANGED <<head, side, snap, lock, cache, runs, contradicted>>
  <2>1. snap[job[p].key].meta \in Versions
    BY <1>1 DEF Snapshots
  <2>2. root' \in Roots
    BY <2>1, RootType, RootWrites DEF RestoreMeta
  <2> QED
    BY <2>2 DEF RestoreMeta, bounds
<1>3. /\ job' = [q \in Procs |-> job'[q]]
      /\ job'[p] = [job[p] EXCEPT !.pc = "restoreRest"]
      /\ \A q \in Procs \ {p} :
           job'[q] = [job[q] EXCEPT !.overlapped = @ \/ job[q].pc \in PastCheck]
  BY DEF RestoreMeta
<1>4. /\ job'[p] \in Jobs /\ job'[p].pc = "restoreRest"
      /\ job'[p].key = job[p].key /\ job'[p].out = job[p].out
  BY <1>1, <1>3 DEF Jobs, Phases, Restoring
<1>5. \A q \in Procs \ {p} :
         /\ job'[q] \in Jobs
         /\ job'[q].pc = job[q].pc /\ job'[q].key = job[q].key
         /\ job'[q].out = job[q].out /\ job'[q].from = job[q].from
         /\ job'[q].rest = job[q].rest /\ job'[q].undone = job[q].undone
  <2> SUFFICES ASSUME NEW q \in Procs \ {p}
               PROVE  /\ job'[q] \in Jobs
                      /\ job'[q].pc = job[q].pc /\ job'[q].key = job[q].key
                      /\ job'[q].out = job[q].out /\ job'[q].from = job[q].from
                      /\ job'[q].rest = job[q].rest /\ job'[q].undone = job[q].undone
    OBVIOUS
  <2>1. job[q] \in Jobs /\ (job[q].overlapped \/ job[q].pc \in PastCheck) \in BOOLEAN
    BY <1>1
  <2> QED
    BY <1>3, <2>1 DEF Jobs
<1>6. job' \in [Procs -> Jobs]
  BY <1>3, <1>4, <1>5
<1>7. JobOK(p)'
  BY <1>1, <1>2, <1>4 DEF JobOK, Keyed, Phases, Opening, PastCheck, Restoring, Building
<1>8. ProjectTypeOK' /\ contradicted' \in BOOLEAN /\ snap'[side'] # None
  BY <1>2 DEF IInv, TypeOK, ProjectTypeOK, Roots
<1>9. job'[lock'].pc \in Restoring \cup Building
  BY <1>1, <1>2, <1>4 DEF Restoring
<1> QED
  BY <1>2, <1>5, <1>6, <1>7, <1>8, <1>9, ProjectStep

(* branch.json is written: whoever recorded a switch from its old name     *)
(* learns that it is another one.                                          *)
LEMMA StampStep ==
  ASSUME IInv, NEW p \in Procs, NEW key \in Branches, NEW pc \in Phases \ (Restoring \cup Opening),
         job[p].pc \in Restoring \cup Building, StampSide(p, key, pc),
         pc \in Keyed => job[p].key \in Branches,
         pc = "done" => job[p].out = "ok",
         pc \in Building => p = Cli,
         lock' = IF pc \in Building THEN lock ELSE None,
         \A b \in Branches : snap[b] # None => snap'[b] # None,
         \A b \in Branches : snap'[b] = snap[b] \/ b = side \/ side' # side,
         snap'[key] # None, snap' \in [Branches -> Snapshots \cup {None}],
         UNCHANGED <<head, root, cache, runs>>
  PROVE  IInv'
<1>1. /\ job \in [Procs -> Jobs] /\ JobOK(p) /\ lock = p
  BY DEF IInv, TypeOK, JobOK
<1>2. /\ side' = key /\ contradicted' = (contradicted \/ side # key)
      /\ job' = [q \in Procs |-> job'[q]]
      /\ job'[p] = [job[p] EXCEPT !.pc = pc]
      /\ \A q \in Procs \ {p} :
           job'[q] = [job[q] EXCEPT !.undone = @ \/ (job[q].pc = "done" /\ side # key)]
  BY DEF StampSide
<1>3. job'[p] \in Jobs /\ job'[p].pc = pc /\ job'[p].key = job[p].key /\ job'[p].out = job[p].out
  BY <1>1, <1>2 DEF Jobs
<1>4. \A q \in Procs \ {p} :
         /\ job'[q] \in Jobs
         /\ job'[q].pc = job[q].pc /\ job'[q].key = job[q].key
         /\ job'[q].out = job[q].out /\ job'[q].from = job[q].from
         /\ job'[q].rest = job[q].rest
         /\ job[q].undone => job'[q].undone
         /\ side' # side /\ job[q].pc = "done" => job'[q].undone
  <2> SUFFICES ASSUME NEW q \in Procs \ {p}
               PROVE  /\ job'[q] \in Jobs
                      /\ job'[q].pc = job[q].pc /\ job'[q].key = job[q].key
                      /\ job'[q].out = job[q].out /\ job'[q].from = job[q].from
                      /\ job'[q].rest = job[q].rest
                      /\ job[q].undone => job'[q].undone
                      /\ side' # side /\ job[q].pc = "done" => job'[q].undone
    OBVIOUS
  <2> DEFINE u == job[q].undone \/ (job[q].pc = "done" /\ side # key)
  <2>1. job[q] \in Jobs /\ u \in BOOLEAN
    BY <1>1
  <2>2. (job[q].undone => u) /\ (side' # side /\ job[q].pc = "done" => u)
    BY <1>2
  <2>3. job'[q] = [job[q] EXCEPT !.undone = u]
    BY <1>2
  <2> HIDE DEF u
  <2>4. job'[q].undone = u
    BY <2>1, <2>3 DEF Jobs
  <2>5. (job[q].undone => job'[q].undone) /\ (side' # side /\ job[q].pc = "done" => job'[q].undone)
    BY <2>2, <2>4
  <2> QED
    BY <2>1, <2>3, <2>5 DEF Jobs
<1>5. job' \in [Procs -> Jobs]
  BY <1>2, <1>3, <1>4
<1>6. JobOK(p)'
  BY <1>1, <1>3 DEF JobOK, Building, Opening
<1>7. ProjectTypeOK' /\ contradicted' \in BOOLEAN /\ snap'[side'] # None
  BY <1>1, <1>2 DEF IInv, TypeOK, ProjectTypeOK
<1>8. /\ lock' # None => job'[lock'].pc \in Restoring \cup Building
      /\ \A q \in Procs \ {p} : lock = q => lock' = q
  BY <1>1, <1>3
<1>9. (side' # side => contradicted') /\ (contradicted => contradicted')
  BY <1>2
<1> QED
  BY <1>4, <1>5, <1>6, <1>7, <1>8, <1>9, ProjectStep

LEMMA RestoreSideStep ==
  ASSUME IInv, NEW p \in Procs, RestoreSide(p)
  PROVE  IInv'
<1>1. /\ job[p].pc = "restoreSide" /\ job[p].out = "ok" /\ job[p].key \in Branches
      /\ snap[job[p].key] # None
  BY DEF IInv, JobOK, RestoreSide, Keyed, Phases, Restoring, Building
<1>2. /\ StampSide(p, job[p].key, "done") /\ lock' = None
      /\ UNCHANGED <<head, root, snap, cache, runs>>
  BY DEF RestoreSide, bounds
<1>3. /\ "done" \in Phases \ (Restoring \cup Opening) /\ "done" \notin Building
      /\ job[p].pc \in Restoring
  BY <1>1 DEF Phases, Restoring, Opening, Building
<1>4. snap \in [Branches -> Snapshots \cup {None}]
  BY DEF IInv, TypeOK, ProjectTypeOK
<1> QED
  BY <1>1, <1>2, <1>3, <1>4, StampStep

LEMMA BuildMirrorStep ==
  ASSUME IInv, BuildMirror
  PROVE  IInv'
<1> DEFINE copy == [db |-> root.db, rest |-> root.rest, meta |-> root.meta]
<1>1. /\ Cli \in Procs /\ job[Cli].pc = "mirror" /\ lock = Cli
      /\ snap \in [Branches -> Snapshots \cup {None}] /\ head \in Branches /\ side \in Branches
  BY DEF Procs, IInv, TypeOK, ProjectTypeOK, JobOK, BuildMirror, Building
<1>2. copy \in Snapshots /\ copy # None
  BY NameAssumption DEF IInv, TypeOK, ProjectTypeOK, Roots, Snapshots
<1>3. /\ StampSide(Cli, head, "sync") /\ snap' = [snap EXCEPT ![head] = copy]
      /\ UNCHANGED <<head, root, lock, cache, runs>>
  BY DEF BuildMirror, bounds
<1>4. side' = head
  BY <1>3 DEF StampSide
<1> HIDE DEF copy
<1>5. /\ \A b \in Branches : snap[b] # None => snap'[b] # None
      /\ \A b \in Branches : snap'[b] = snap[b] \/ b = side \/ side' # side
      /\ snap'[head] # None /\ snap' \in [Branches -> Snapshots \cup {None}]
  BY <1>1, <1>2, <1>3, <1>4
<1>6. /\ "sync" \in Phases \ (Restoring \cup Opening) /\ "sync" \in Building
      /\ "sync" \notin Keyed /\ job[Cli].pc \in Building
  BY <1>1 DEF Phases, Restoring, Opening, Building, Keyed
<1> QED
  BY <1>1, <1>3, <1>5, <1>6, StampStep

(* A process that gives the lock back, if it had it, and leaves the rest.  *)
LEMMA ReleaseStep ==
  ASSUME IInv, NEW p \in Procs, NEW j \in Jobs, job' = [job EXCEPT ![p] = j],
         lock' = IF lock = p THEN None ELSE lock, root' \in Roots,
         UNCHANGED <<head, side, snap, cache, runs, contradicted>>,
         \/ j.pc = "idle"
         \/ j.pc = "done" /\ j.out = "err" /\ j.key \in Branches
  PROVE  IInv'
<1>1. job' \in [Procs -> Jobs] /\ job'[p] = j /\ \A q \in Procs \ {p} : job'[q] = job[q]
  BY Update DEF IInv
<1>2. JobOK(p)'
  BY <1>1 DEF JobOK, Keyed, Opening, Restoring, Building
<1>3. ProjectTypeOK' /\ contradicted' \in BOOLEAN /\ snap'[side'] # None
  BY DEF IInv, TypeOK, ProjectTypeOK, Roots
<1>4. lock' # None => job'[lock'].pc \in Restoring \cup Building
  BY <1>1 DEF IInv, TypeOK, ProjectTypeOK
<1> QED
  BY <1>1, <1>2, <1>3, <1>4, ProjectStep

LEMMA FailStep ==
  ASSUME IInv, (\E p \in Procs : ReconcileFails(p)) \/ BuildDies \/ BuildSync
  PROVE  IInv'
<1>1. CASE \E p \in Procs : ReconcileFails(p)
  <2>1. PICK p \in Procs : ReconcileFails(p)
    BY <1>1
  <2> DEFINE j == [job[p] EXCEPT !.pc = "done", !.out = "err"]
  <2>2. job[p] \in Jobs /\ job[p].key \in Branches
    BY <2>1 DEF IInv, TypeOK, JobOK, ReconcileFails, Keyed, Phases, Restoring, Building
  <2>3. j \in Jobs /\ j.pc = "done" /\ j.out = "err" /\ j.key \in Branches
    BY <2>2 DEF Jobs, Phases
  <2>4. job' = [job EXCEPT ![p] = j]
    BY <2>1 DEF ReconcileFails
  <2> HIDE DEF j
  <2> QED
    BY <2>1, <2>3, <2>4, RootType, ReleaseStep DEF ReconcileFails
<1>2. CASE BuildDies \/ BuildSync
  <2>1. Cli \in Procs /\ job[Cli].pc \in Building
    BY <1>2 DEF Procs, BuildDies, BuildSync, Building
  <2>2. lock = Cli
    BY <2>1 DEF IInv, JobOK
  <2>3. root' \in Roots
    BY <1>2, RootType, RootWrites DEF BuildDies, BuildSync
  <2>4. /\ job' = [job EXCEPT ![Cli] = Idle] /\ lock' = None
        /\ UNCHANGED <<head, side, snap, cache, runs, contradicted>>
    BY <1>2 DEF BuildDies, BuildSync, bounds
  <2> QED
    BY <2>1, <2>2, <2>3, <2>4, IdleJob, ReleaseStep
<1> QED
  BY <1>1, <1>2

LEMMA CliStep ==
  ASSUME IInv, CliStart \/ CliBuild
  PROVE  IInv'
<1> USE DEF Phases, Keyed, Opening, PastCheck, Restoring, Building
<1>1. Cli \in Procs /\ head \in Branches /\ runs \in 0 .. MaxRuns
  BY DEF Procs, IInv, TypeOK, ProjectTypeOK
<1>2. CASE CliStart
  <2> DEFINE j == [Idle EXCEPT !.pc = IF Pending THEN "lock" ELSE "build", !.key = head]
  <2>1. j \in Jobs /\ j.pc \in {"lock", "build"} /\ j.key \in Branches
    BY <1>1 DEF Jobs, Idle
  <2>2. /\ job' = [job EXCEPT ![Cli] = j] /\ runs' \in 0 .. MaxRuns
        /\ UNCHANGED <<project, cache, contradicted>>
    BY <1>1, <1>2, RunsAssumption DEF CliStart
  <2>3. lock # Cli
    BY <1>1, <1>2, NotHolder DEF CliStart
  <2> HIDE DEF j
  <2> QED
    BY <1>1, <2>1, <2>2, <2>3, LocalStep
<1>3. CASE CliBuild
  <2>1. PICK pc \in {"buildDb", "mirror"} : job' = [job EXCEPT ![Cli] = [Idle EXCEPT !.pc = pc]]
    BY <1>3 DEF CliBuild
  <2> DEFINE j == [Idle EXCEPT !.pc = pc]
  <2>2. j \in Jobs /\ j.pc = pc
    BY DEF Jobs, Idle
  <2>3. job' = [job EXCEPT ![Cli] = j]
    BY <2>1
  <2> HIDE DEF j
  <2>4. job' \in [Procs -> Jobs] /\ job'[Cli] = j /\ \A q \in Procs \ {Cli} : job'[q] = job[q]
    BY <1>1, <2>2, <2>3, Update DEF IInv
  <2>5. /\ lock = None /\ lock' = Cli
        /\ UNCHANGED <<head, root, side, snap, cache, runs, contradicted>>
    BY <1>3 DEF CliBuild, bounds
  <2>6. JobOK(Cli)'
    BY <2>2, <2>4, <2>5 DEF JobOK
  <2>7. ProjectTypeOK' /\ contradicted' \in BOOLEAN /\ snap'[side'] # None
    BY <1>1, <2>5 DEF IInv, TypeOK, ProjectTypeOK
  <2>8. /\ job'[lock'].pc \in Restoring \cup Building
        /\ \A q \in Procs \ {Cli} : lock = q => lock' = q
    BY <2>2, <2>4, <2>5, NameAssumption DEF Procs
  <2> HIDE DEF Phases, Keyed, Opening, PastCheck, Restoring, Building
  <2> QED
    BY <1>1, <2>4, <2>5, <2>6, <2>7, <2>8, ProjectStep
<1> QED
  BY <1>2, <1>3

(* Time, the user, and the watcher's invalidation move no process. *)
LEMMA OutsideStep ==
  ASSUME IInv, CoolDown \/ Invalidate \/ Checkout \/ UNCHANGED vars
  PROVE  IInv'
<1>1. /\ UNCHANGED <<root, side, snap, lock, tomb, flight, job, runs, contradicted>>
      /\ head' \in Branches /\ gate' = gate /\ cooling' \in BOOLEAN
      /\ entries' = entries \/ entries' = [b \in Branches |-> None]
  BY DEF IInv, TypeOK, ProjectTypeOK, CacheTypeOK, CoolDown, Invalidate, Checkout, vars, project,
         cache, bounds
<1>2. TypeOK'
  BY <1>1 DEF IInv, TypeOK, ProjectTypeOK, CacheTypeOK
<1>3. CapHolds'
  BY <1>1, FewerResident DEF IInv, Resident
<1>4. TombOK'
  BY <1>1 DEF IInv, TombOK
<1>5. \A p \in Procs : JobOK(p)'
  <2> SUFFICES ASSUME NEW p \in Procs PROVE JobOK(p)'
    OBVIOUS
  <2>1. JobOK(p) /\ (job[p].pc \in Opening => job[p].key \in Branches)
    BY DEF IInv, JobOK, Keyed, Phases, Opening, PastCheck, Restoring, Building
  <2> QED
    BY <1>1, <2>1 DEF JobOK
<1> QED
  BY <1>2, <1>3, <1>4, <1>5 DEF IInv

-----------------------------------------------------------------------------
(* The theorems. *)

LEMMA InitInv == Init => IInv
<1> SUFFICES ASSUME Init PROVE IInv
  OBVIOUS
<1> DEFINE first == [n |-> 0, branch |-> head]
<1>1. first \in Versions
  BY RunsAssumption DEF Init, Versions
<1>2. [mark |-> 0, ino |-> 0, rest |-> first, overlapped |-> FALSE] \in Searchers
  BY <1>1 DEF Searchers
<1>3. /\ [db |-> first, rest |-> first, meta |-> first] \in Snapshots
      /\ [ino |-> 0, mark |-> 0, db |-> first, rest |-> first, meta |-> first,
          reverted |-> FALSE] \in Roots
  BY <1>1 DEF Snapshots, Roots
<1>4. \A p \in Procs : job[p] = Idle
  BY DEF Init
<1>5. TypeOK
  <2>1. ProjectTypeOK
    BY <1>3 DEF Init, ProjectTypeOK, Roots
  <2>2. CacheTypeOK
    BY <1>2 DEF Init, CacheTypeOK
  <2>3. snap[side] # None
    BY <1>3, NameAssumption DEF Init
  <2>4. job \in [Procs -> Jobs]
    BY IdleJob DEF Init
  <2>5. runs \in 0 .. MaxRuns
    BY RunsAssumption DEF Init
  <2>6. contradicted \in BOOLEAN /\ lock = None
    BY DEF Init
  <2> QED
    BY <2>1, <2>2, <2>3, <2>4, <2>5, <2>6 DEF TypeOK
<1>6. CapHolds
  <2>1. Resident(entries) \subseteq {head}
    BY DEF Init, Resident
  <2>2. Cardinality({head}) = 1 /\ IsFiniteSet({head})
    BY FS_Singleton
  <2>3. Cardinality(Resident(entries)) <= 1 /\ Cardinality(Resident(entries)) \in Nat
    BY <2>1, <2>2, FS_Subset, FS_CardinalityType
  <2> QED
    BY <2>3, CapAssumption DEF CapHolds
<1>7. TombOK /\ \A p \in Procs : JobOK(p)
  BY <1>4, IdleJob DEF Init, TombOK, JobOK
<1> QED
  BY <1>5, <1>6, <1>7 DEF IInv

LEMMA StepInv == IInv /\ [Next]_vars => IInv'
<1> SUFFICES ASSUME IInv, [Next]_vars PROVE IInv'
  OBVIOUS
<1>1. ASSUME NEW t \in Threads, Request(t) PROVE IInv'
  BY <1>1, RequestLocally, TakeGateStep, SettleStep, LookupStep, TakeFlightStep, OpenStep, LandStep
  DEF Request
<1>2. ASSUME NEW p \in Procs, Switch(p) PROVE IInv'
  BY <1>2, ReconcileStep, RestorePartStep, RestoreMetaStep, RestoreSideStep DEF Switch
<1>3. ASSUME NEW p \in Procs, ReconcileFails(p) PROVE IInv'
  BY <1>3, FailStep
<1>4. CASE Build
  BY <1>4, CliStep, BuildPartStep, BuildMirrorStep, FailStep DEF Build
<1>5. CASE CliStart \/ BuildDies
  BY <1>5, CliStep, FailStep
<1>6. CASE CoolDown \/ Invalidate \/ Checkout \/ UNCHANGED vars
  BY <1>6, OutsideStep
<1> QED
  BY <1>1, <1>2, <1>3, <1>4, <1>5, <1>6 DEF Next

LEMMA Invariant == Spec => []IInv
BY InitInv, StepInv, PTL DEF Spec

(* Every variable keeps its type; the index lock is held by a process that *)
(* is switching or building, and the branch branch.json names always has a *)
(* snapshot to come back to.                                               *)
THEOREM TypeCorrect == Spec => []TypeOK
<1>1. IInv => TypeOK
  BY DEF IInv
<1> QED
  BY <1>1, Invariant, PTL

(* However many requests on however many branches race, never more         *)
(* searchers are resident than SEMANTEX_DAEMON_MAX_SEARCHERS.              *)
THEOREM CapKept == Spec => []CapHolds
<1>1. IInv => CapHolds
  BY DEF IInv
<1> QED
  BY <1>1, Invariant, PTL

(* A switch is passed over because of a tombstone only when HEAD's branch  *)
(* has no snapshot, as long as no other process stamped branch.json since. *)
THEOREM TombstonesHonest == Spec => []TombstonesAreHonest
<1>1. IInv => TombstonesAreHonest
  BY DEF IInv, TombOK, TombstonesAreHonest, Tombstoned
<1> QED
  BY <1>1, Invariant, PTL

(* The only way into an open is to take the flight of one's key. *)
LEMMA OnlyTakeFlightOpens ==
  ASSUME IInv, [Next]_vars, NEW t \in Threads, job[t].pc \notin Opening, job'[t].pc \in Opening
  PROVE  TakeFlight(t)
<1> USE DEF Opening
<1>1. t \in Procs /\ t # Cli /\ Cli \in Procs /\ job \in [Procs -> Jobs]
  BY NameAssumption DEF Procs, IInv, TypeOK
<1>2. ASSUME NEW u \in Threads, Request(u) PROVE TakeFlight(t)
  <2>1. CASE u = t
    <3>1. Check(t) => job'[t].pc \in {"key", "gate"}
      BY <1>1 DEF Check, Idle
    <3>2. TakeGate(t) => job'[t].pc \in {"key", "lock"}
      BY <1>1 DEF TakeGate, Jobs
    <3>3. Settle(t) => job'[t].pc = "key"
      BY <1>1 DEF Settle, Idle
    <3>4. (ReadKey(t) => job'[t].pc = "marker") /\ (ReadMarker(t) => job'[t].pc = "lookup")
      BY <1>1 DEF ReadKey, ReadMarker, Jobs
    <3>5. Lookup(t) => job'[t].pc \in {"idle", "flight"}
      BY <1>1 DEF Lookup, Go, Idle, Jobs
    <3>6. ~OpenDb(t) /\ ~OpenRest(t) /\ ~OpenFails(t) /\ ~Insert(t)
      BY DEF OpenDb, OpenRest, OpenFails, Insert
    <3> QED
      BY <1>2, <2>1, <3>1, <3>2, <3>3, <3>4, <3>5, <3>6 DEF Request
  <2>2. CASE u # t
    <3>1. job'[t] = job[t]
      BY <1>1, <1>2, <2>2 DEF Request, Check, TakeGate, Settle, ReadKey, ReadMarker, Lookup,
                             TakeFlight, OpenDb, OpenRest, OpenFails, Insert, Go
    <3> QED
      BY <3>1
  <2> QED
    BY <2>1, <2>2
<1>3. ASSUME NEW p \in Procs, Switch(p) \/ ReconcileFails(p) PROVE FALSE
  <2>1. CASE Reconcile(p)
    <3>1. job'[t].pc \in {job[t].pc, "done", "restoreDb"}
      BY <1>1, <2>1 DEF Reconcile, Jobs
    <3> QED
      BY <3>1
  <2>2. CASE RestoreDb(p) \/ RestoreRest(p) \/ ReconcileFails(p)
    <3>1. job'[t].pc \in {job[t].pc, "done", "restoreMeta", "restoreSide"}
      BY <1>1, <2>2 DEF RestoreDb, RestoreRest, ReconcileFails, Go, Jobs
    <3> QED
      BY <3>1
  <2>3. CASE RestoreMeta(p) \/ RestoreSide(p)
    <3>1. job'[t].pc \in {job[t].pc, "done", "restoreRest"}
      BY <1>1, <2>3 DEF RestoreMeta, RestoreSide, StampSide, Jobs
    <3> QED
      BY <3>1
  <2> QED
    BY <1>3, <2>1, <2>2, <2>3 DEF Switch
<1>4. ASSUME CliStart \/ Build \/ BuildDies PROVE job'[t].pc = job[t].pc
  <2>1. CASE BuildMirror
    BY <1>1, <2>1 DEF BuildMirror, StampSide, Jobs
  <2>2. CASE ~BuildMirror
    BY <1>1, <1>4, <2>2 DEF CliStart, Build, CliBuild, BuildDb, BuildRest, BuildMeta, BuildSync,
                          BuildDies, Go
  <2> QED
    BY <2>1, <2>2
<1>5. CoolDown \/ Invalidate \/ Checkout \/ UNCHANGED vars => job' = job
  BY DEF CoolDown, Invalidate, Checkout, vars
<1> QED
  BY <1>2, <1>3, <1>4, <1>5 DEF Next

(* A request never starts, or goes on with, the open of a searcher that    *)
(* the cache already holds under its key and marker.                       *)
THEOREM OpensShared == Spec => OpensAreShared
<1>1. ASSUME IInv, [Next]_vars, NEW t \in Threads, job'[t].pc \in Opening
      PROVE  ~Hit(t)
  <2>1. CASE job[t].pc \in Opening
    <3>1. JobOK(t)
      BY <1>1 DEF IInv, Procs
    <3> QED
      BY <2>1, <3>1 DEF JobOK, Hit
  <2>2. CASE job[t].pc \notin Opening
    <3>1. TakeFlight(t) /\ job'[t].pc # "idle"
      BY <1>1, <2>2, OnlyTakeFlightOpens DEF Opening
    <3>2. t \in Procs /\ job \in [Procs -> Jobs]
      BY <1>1 DEF Procs, IInv, TypeOK
    <3>3. Hit(t) => job'[t] = Idle
      BY <3>1, <3>2 DEF TakeFlight
    <3> QED
      BY <3>1, <3>3, IdleJob
  <2> QED
    BY <2>1, <2>2
<1>2. IInv /\ [Next]_vars => [\A t \in Threads : job'[t].pc \in Opening => ~Hit(t)]_vars
  BY <1>1
<1> QED
  BY <1>2, Invariant, PTL DEF Spec, OpensAreShared

-----------------------------------------------------------------------------
(* FreshEntriesAreLive: what a searcher was opened from, against the live  *)
(* index of now.                                                           *)

\* A run of Cli that has still to write chunks.db
BeforeBuild == Restoring \cup {"lock", "done", "build", "buildDb"}

\* The version v is of this run at the latest, and of an earlier one until it writes
Older(v) == v.n <= runs /\ (job[Cli].pc \in BeforeBuild => v.n < runs)

OlderSnapshot(s) == Older(s.db) /\ Older(s.rest) /\ Older(s.meta)

\* What a run writes to chunks.db is of no build there was
NewInv ==
    /\ Older(root.db) /\ Older(root.rest) /\ Older(root.meta)
    /\ \A b \in Branches : snap[b] # None => OlderSnapshot(snap[b])
    /\ job[Cli].pc = "buildRest" => root.meta.n < root.db.n

\* chunks.db is what meta.json says, and was since meta.json was written
Steady == root.db = root.meta /\ ~root.reverted

\* What a request has read is current, or it has an older marker, or a restore that
\* was in progress is known to have overlapped it
RequestOK(t) ==
    /\ job[t].mark <= root.mark
    /\ HalfRestored /\ job[t].pc \in PastCheck => job[t].overlapped
    /\ Steady /\ job[t].mark = root.mark /\ ~job[t].overlapped =>
          /\ job[t].pc \in {"openRest", "insert"} => job[t].ino = root.ino
          /\ job[t].pc = "insert" => job[t].rest = root.rest

EntryOK(e) ==
    /\ e.mark <= root.mark
    /\ HalfRestored /\ e.mark = root.mark => e.overlapped
    /\ Steady /\ e.mark = root.mark /\ ~e.overlapped => e.ino = root.ino /\ e.rest = root.rest

RequestsOK == \A t \in Threads : RequestOK(t)

EntriesOK == \A b \in Branches : entries[b] # None => EntryOK(entries[b])

FreshInv == IInv /\ NewInv /\ RequestsOK /\ EntriesOK

(* Versions are compared by number; a job has its fields. *)
LEMMA FreshTypes ==
  ASSUME IInv
  PROVE  /\ runs \in Nat /\ root.mark \in Nat
         /\ root.db.n \in Nat /\ root.rest.n \in Nat /\ root.meta.n \in Nat
         /\ \A b \in Branches : snap[b] # None =>
               snap[b].db.n \in Nat /\ snap[b].rest.n \in Nat /\ snap[b].meta.n \in Nat
         /\ job \in [Procs -> Jobs] /\ Cli \in Procs /\ Threads \subseteq Procs /\ Cli \notin Threads
         /\ \A t \in Threads : job[t].mark \in Nat
         /\ \A b \in Branches : entries[b] # None => entries[b].mark \in Nat
<1>1. \A v \in Versions : v.n \in Nat
  BY RunsAssumption DEF Versions
<1>2. root \in Roots /\ snap \in [Branches -> Snapshots \cup {None}]
      /\ job \in [Procs -> Jobs] /\ entries \in [Branches -> Searchers \cup {None}]
      /\ runs \in 0 .. MaxRuns
  BY DEF IInv, TypeOK, ProjectTypeOK, CacheTypeOK
<1>3. Cli \in Procs /\ Threads \subseteq Procs /\ Cli \notin Threads
  BY NameAssumption DEF Procs
<1>4. root.mark \in Nat /\ root.db.n \in Nat /\ root.rest.n \in Nat /\ root.meta.n \in Nat
  BY <1>1, <1>2 DEF Roots
<1>5. \A b \in Branches : snap[b] # None =>
         snap[b].db.n \in Nat /\ snap[b].rest.n \in Nat /\ snap[b].meta.n \in Nat
  BY <1>1, <1>2 DEF Snapshots
<1>6. \A t \in Threads : job[t].mark \in Nat
  BY <1>2, <1>3 DEF Jobs
<1>7. \A b \in Branches : entries[b] # None => entries[b].mark \in Nat
  BY <1>2 DEF Searchers
<1> QED
  BY <1>2, <1>3, <1>4, <1>5, <1>6, <1>7, RunsAssumption

(* No part is of a newer build, and the run does not go back before it.    *)
LEMMA NewKept ==
  ASSUME FreshInv, runs' = runs,
         job'[Cli].pc \in BeforeBuild => job[Cli].pc \in BeforeBuild,
         job'[Cli].pc = "buildRest" => root'.meta.n < root'.db.n,
         Older(root'.db), Older(root'.rest), Older(root'.meta),
         \A b \in Branches : snap'[b] # None => OlderSnapshot(snap'[b])
  PROVE  NewInv'
BY DEF NewInv, Older, OlderSnapshot

(* Nothing was replaced under meta.json, or everybody who could mind knows. *)
LEMMA EntriesKept ==
  ASSUME FreshInv, root'.mark = root.mark, HalfRestored' => HalfRestored,
         HalfRestored \/ (Steady' => Steady /\ root'.ino = root.ino /\ root'.rest = root.rest),
         \A b \in Branches : entries'[b] # None => entries'[b] = entries[b]
  PROVE  EntriesOK'
<1> SUFFICES ASSUME NEW b \in Branches, entries'[b] # None PROVE EntryOK(entries[b])'
  BY DEF EntriesOK
<1>1. entries'[b] = entries[b] /\ EntryOK(entries[b])
  BY DEF FreshInv, EntriesOK
<1> QED
  BY <1>1 DEF EntryOK

LEMMA RequestsKept ==
  ASSUME FreshInv, root'.mark = root.mark, HalfRestored' => HalfRestored,
         HalfRestored \/ (Steady' => Steady /\ root'.ino = root.ino /\ root'.rest = root.rest),
         \A t \in Threads :
            /\ job'[t].mark = job[t].mark
            /\ job'[t].pc \in PastCheck =>
                  /\ job'[t].pc = job[t].pc /\ job'[t].ino = job[t].ino
                  /\ job'[t].rest = job[t].rest
                  /\ job[t].overlapped => job'[t].overlapped
  PROVE  RequestsOK'
<1> SUFFICES ASSUME NEW t \in Threads PROVE RequestOK(t)'
  BY DEF RequestsOK
<1>1. RequestOK(t)
  BY DEF FreshInv, RequestsOK
<1> QED
  BY <1>1 DEF RequestOK, PastCheck

(* A new marker: what was read under an old one is nobody's any more.      *)
LEMMA MarkerRenewed ==
  ASSUME FreshInv, root'.mark = root.mark + 1,
         \A t \in Threads :
            /\ job'[t].mark = job[t].mark
            /\ HalfRestored' /\ job'[t].pc \in PastCheck => job'[t].overlapped,
         entries' = entries
  PROVE  RequestsOK' /\ EntriesOK'
<1>1. IInv
  BY DEF FreshInv
<1>2. RequestsOK'
  <2> SUFFICES ASSUME NEW t \in Threads PROVE RequestOK(t)'
    BY DEF RequestsOK
  <2>1. job[t].mark <= root.mark /\ job[t].mark \in Nat /\ root.mark \in Nat
    BY <1>1, FreshTypes DEF FreshInv, RequestsOK, RequestOK
  <2>2. job'[t].mark <= root'.mark /\ job'[t].mark # root'.mark
    BY <2>1
  <2> QED
    BY <2>2 DEF RequestOK
<1>3. EntriesOK'
  <2> SUFFICES ASSUME NEW b \in Branches, entries'[b] # None PROVE EntryOK(entries[b])'
    BY DEF EntriesOK
  <2>1. entries[b].mark <= root.mark /\ entries[b].mark \in Nat /\ root.mark \in Nat
    BY <1>1, FreshTypes DEF FreshInv, EntriesOK, EntryOK
  <2>2. entries'[b].mark <= root'.mark /\ entries'[b].mark # root'.mark
    BY <2>1
  <2> QED
    BY <2>2 DEF EntryOK
<1> QED
  BY <1>2, <1>3

(* A step of one request that does not write the project. *)
LEMMA RequestKept ==
  ASSUME FreshInv, IInv', NEW t \in Threads, NEW j \in Jobs, job' = [job EXCEPT ![t] = j],
         UNCHANGED <<root, snap, runs>>, j.pc # "restoreRest",
         j.mark <= root.mark,
         HalfRestored /\ j.pc \in PastCheck => j.overlapped,
         Steady /\ j.mark = root.mark /\ ~j.overlapped =>
            /\ j.pc \in {"openRest", "insert"} => j.ino = root.ino
            /\ j.pc = "insert" => j.rest = root.rest,
         \A b \in Branches : entries'[b] # None => entries'[b] = entries[b] \/ EntryOK(entries'[b])
  PROVE  FreshInv'
<1>1. IInv
  BY DEF FreshInv
<1>2. /\ job \in [Procs -> Jobs] /\ Cli \in Procs /\ t \in Procs /\ Cli # t /\ Threads \subseteq Procs
  BY <1>1, FreshTypes
<1>3. job'[t] = j /\ \A q \in Procs \ {t} : job'[q] = job[q]
  BY <1>2
<1>4. HalfRestored' => HalfRestored
  BY <1>2, <1>3 DEF HalfRestored
<1>5. NewInv'
  BY <1>2, <1>3, NewKept DEF FreshInv, NewInv
<1>6. RequestsOK'
  <2> SUFFICES ASSUME NEW u \in Threads PROVE RequestOK(u)'
    BY DEF RequestsOK
  <2>1. CASE u = t
    BY <1>3, <1>4, <2>1 DEF RequestOK, Steady
  <2>2. CASE u # t
    <3>1. job'[u] = job[u] /\ RequestOK(u)
      BY <1>2, <1>3, <2>2 DEF FreshInv, RequestsOK
    <3> QED
      BY <1>4, <3>1 DEF RequestOK, Steady
  <2> QED
    BY <2>1, <2>2
<1>7. EntriesOK'
  <2> SUFFICES ASSUME NEW b \in Branches, entries'[b] # None PROVE EntryOK(entries[b])'
    BY DEF EntriesOK
  <2>1. EntryOK(entries'[b])
    BY DEF FreshInv, EntriesOK
  <2> QED
    BY <1>4, <2>1 DEF EntryOK, Steady
<1> QED
  BY <1>5, <1>6, <1>7 DEF FreshInv

LEMMA EvictedKept ==
  ASSUME NEW es \in [Branches -> Searchers \cup {None}], NEW fs \in Evicted(es), NEW b \in Branches,
         fs[b] # None
  PROVE  fs[b] = es[b]
BY DEF Evicted

LEMMA ProbedJob ==
  ASSUME NEW pc \in {"key", "gate"}, NEW o \in BOOLEAN,
         NEW j, j = [Idle EXCEPT !.pc = pc, !.overlapped = o]
  PROVE  j \in Jobs /\ j.pc = pc /\ j.mark = 0 /\ j.overlapped = o
<1>1. pc \in Phases
  BY DEF Phases, PastCheck
<1> QED
  BY <1>1 DEF Jobs, Idle

(* What a request does before its open. *)
LEMMA ProbeFresh ==
  ASSUME FreshInv, IInv', NEW t \in Threads,
         Check(t) \/ TakeGate(t) \/ Settle(t) \/ ReadKey(t) \/ ReadMarker(t)
  PROVE  FreshInv'
<1>1. /\ IInv /\ job[t] \in Jobs /\ root.mark \in Nat /\ job[t].mark \in Nat /\ RequestOK(t)
      /\ HalfRestored \in BOOLEAN /\ head \in Branches
  BY FreshTypes DEF FreshInv, RequestsOK, HalfRestored, IInv, TypeOK, ProjectTypeOK
<1>2. /\ UNCHANGED <<root, snap, runs>>
      /\ \A b \in Branches : entries'[b] # None => entries'[b] = entries[b]
  BY DEF Check, TakeGate, Settle, ReadKey, ReadMarker, project, cache, bounds
<1>3. Idle \in Jobs /\ Idle.mark = 0
  BY IdleJob DEF Idle
<1>4. PICK j \in Jobs :
         /\ job' = [job EXCEPT ![t] = j]
         /\ j.pc \in {"gate", "lock", "key", "marker", "lookup"}
         /\ j.mark <= root.mark
         /\ HalfRestored /\ j.pc \in PastCheck => j.overlapped
  <2>1. CASE Check(t)
    <3> DEFINE pc == IF NothingToDo THEN "key" ELSE "gate"
               o == NothingToDo /\ HalfRestored
               j == [Idle EXCEPT !.pc = pc, !.overlapped = o]
    <3>1. pc \in {"key", "gate"} /\ o \in BOOLEAN /\ (pc = "key" /\ HalfRestored => o)
      OBVIOUS
    <3>2. job' = [job EXCEPT ![t] = j]
      BY <2>1 DEF Check
    <3> HIDE DEF pc, o
    <3>3. j \in Jobs /\ j.pc = pc /\ j.mark = 0 /\ j.overlapped = o
      BY <3>1, ProbedJob
    <3> HIDE DEF j
    <3>4. HalfRestored /\ j.pc \in PastCheck => j.overlapped
      BY <3>1, <3>3 DEF PastCheck
    <3>5. j.mark <= root.mark /\ j.pc \in {"gate", "lock", "key", "marker", "lookup"}
      BY <1>1, <3>1, <3>3
    <3> QED
      BY <3>2, <3>3, <3>4, <3>5
  <2>2. CASE TakeGate(t) /\ NothingToDo
    <3> DEFINE j == [job[t] EXCEPT !.pc = "key", !.overlapped = HalfRestored]
    <3>1. j \in Jobs /\ j.pc = "key" /\ j.mark = job[t].mark /\ j.overlapped = HalfRestored
      BY <1>1 DEF Jobs, Phases, PastCheck
    <3>2. job' = [job EXCEPT ![t] = j]
      BY <2>2 DEF TakeGate
    <3> HIDE DEF j
    <3>3. j.mark <= root.mark
      BY <1>1, <3>1 DEF RequestOK
    <3> QED
      BY <3>1, <3>2, <3>3
  <2>3. CASE TakeGate(t) /\ ~NothingToDo
    <3> DEFINE j == [job[t] EXCEPT !.pc = "lock", !.key = head]
    <3>1. j \in Jobs /\ j.pc = "lock" /\ j.mark = job[t].mark
      BY <1>1 DEF Jobs, Phases
    <3>2. job' = [job EXCEPT ![t] = j]
      BY <2>3 DEF TakeGate
    <3> HIDE DEF j
    <3>3. j.mark <= root.mark /\ j.pc \notin PastCheck
      BY <1>1, <3>1 DEF RequestOK, PastCheck
    <3> QED
      BY <3>1, <3>2, <3>3
  <2>4. CASE Settle(t)
    <3> DEFINE j == [Idle EXCEPT !.pc = "key", !.overlapped = HalfRestored]
    <3>1. j \in Jobs /\ j.pc = "key" /\ j.mark = 0 /\ j.overlapped = HalfRestored
      BY <1>1, ProbedJob
    <3>2. job' = [job EXCEPT ![t] = j]
      BY <2>4 DEF Settle
    <3> HIDE DEF j
    <3>3. j.mark <= root.mark
      BY <1>1, <3>1
    <3> QED
      BY <3>1, <3>2, <3>3
  <2>5. CASE ReadKey(t)
    <3> DEFINE j == [job[t] EXCEPT !.pc = "marker", !.key = head]
    <3>1. j \in Jobs /\ j.pc = "marker" /\ j.mark = job[t].mark /\ j.overlapped = job[t].overlapped
      BY <1>1 DEF Jobs, Phases, PastCheck
    <3>2. job' = [job EXCEPT ![t] = j] /\ job[t].pc \in PastCheck
      BY <2>5 DEF ReadKey, PastCheck
    <3> HIDE DEF j
    <3>3. j.mark <= root.mark /\ (HalfRestored => j.overlapped)
      BY <1>1, <3>1, <3>2 DEF RequestOK
    <3> QED
      BY <3>1, <3>2, <3>3
  <2>6. CASE ReadMarker(t)
    <3> DEFINE j == [job[t] EXCEPT !.pc = "lookup", !.mark = root.mark]
    <3>1. j \in Jobs /\ j.pc = "lookup" /\ j.mark = root.mark /\ j.overlapped = job[t].overlapped
      BY <1>1 DEF Jobs, Phases, PastCheck
    <3>2. job' = [job EXCEPT ![t] = j] /\ job[t].pc \in PastCheck
      BY <2>6 DEF ReadMarker, PastCheck
    <3> HIDE DEF j
    <3>3. j.mark <= root.mark /\ (HalfRestored => j.overlapped)
      BY <1>1, <3>1, <3>2 DEF RequestOK
    <3> QED
      BY <3>1, <3>2, <3>3
  <2> QED
    BY <2>1, <2>2, <2>3, <2>4, <2>5, <2>6
<1>5. j.pc \notin {"openRest", "insert", "restoreRest"}
  BY <1>4
<1> QED
  BY <1>2, <1>4, <1>5, RequestKept

(* The open, and what it leaves in the cache. *)
LEMMA OpenFresh ==
  ASSUME FreshInv, IInv', NEW t \in Threads,
         Lookup(t) \/ TakeFlight(t) \/ OpenDb(t) \/ OpenRest(t) \/ OpenFails(t) \/ Insert(t)
  PROVE  FreshInv'
<1>1. /\ IInv /\ job[t] \in Jobs /\ root \in Roots /\ root.mark \in Nat /\ RequestOK(t)
      /\ job[t].pc \in PastCheck /\ entries \in [Branches -> Searchers \cup {None}]
      /\ job[t].key \in Branches /\ (job[t].pc = "insert" => job[t].rest \in Versions)
  <2>1. IInv /\ t \in Procs /\ job[t] \in Jobs
    BY FreshTypes DEF FreshInv
  <2>2. JobOK(t) /\ job[t].pc \in PastCheck \cap Keyed
    BY <2>1 DEF IInv, Lookup, TakeFlight, OpenDb, OpenRest, OpenFails, Insert, PastCheck, Keyed,
                Phases, Building
  <2>3. job[t].key \in Branches /\ (job[t].pc = "insert" => job[t].rest \in Versions)
    BY <2>2 DEF JobOK
  <2>4. root \in Roots /\ root.mark \in Nat /\ entries \in [Branches -> Searchers \cup {None}]
    BY <2>1, FreshTypes DEF IInv, TypeOK, ProjectTypeOK, CacheTypeOK
  <2> QED
    BY <2>1, <2>2, <2>3, <2>4 DEF FreshInv, RequestsOK
<1>2. UNCHANGED <<root, snap, runs>>
  BY DEF Lookup, TakeFlight, OpenDb, OpenRest, OpenFails, Insert, project, bounds
<1>3. Idle \in Jobs /\ Idle.mark = 0 /\ Idle.pc = "idle"
  BY IdleJob DEF Idle
<1>4. job[t].mark <= root.mark /\ (HalfRestored => job[t].overlapped)
  BY <1>1 DEF RequestOK
<1>5. \A b \in Branches : Without(t)[b] # None => Without(t)[b] = entries[b]
  BY <1>1 DEF Without
<1>6. ASSUME job' = [job EXCEPT ![t] = Idle],
             \A b \in Branches : entries'[b] # None =>
                entries'[b] = entries[b] \/ EntryOK(entries'[b])
      PROVE  FreshInv'
  <2>1. Idle.pc \notin PastCheck \cup {"restoreRest", "openRest", "insert"} /\ Idle.mark <= root.mark
    BY <1>1, <1>3 DEF PastCheck
  <2> QED
    BY <1>2, <1>3, <1>6, <2>1, RequestKept
<1>7. CASE (Lookup(t) \/ TakeFlight(t)) /\ ~Hit(t)
  <2>1. PICK pc \in {"flight", "openDb"} : job' = [job EXCEPT ![t].pc = pc]
    BY <1>7 DEF Lookup, TakeFlight, Go
  <2> DEFINE j == [job[t] EXCEPT !.pc = pc]
  <2>2. j \in Jobs /\ j.pc = pc /\ j.mark = job[t].mark /\ j.overlapped = job[t].overlapped
    BY <1>1 DEF Jobs, Phases, PastCheck
  <2>3. job' = [job EXCEPT ![t] = j]
    BY <2>1
  <2> HIDE DEF j
  <2>4. \A b \in Branches : entries'[b] # None => entries'[b] = entries[b]
    <3>1. CASE Lookup(t)
      BY <1>5, <1>7, <3>1 DEF Lookup
    <3>2. CASE TakeFlight(t)
      <4>1. entries' \in Evicted(Without(t)) /\ Without(t) \in [Branches -> Searchers \cup {None}]
        BY <1>1, <1>7, <3>2, WithoutEntries DEF TakeFlight, Lookup
      <4> QED
        BY <1>5, <4>1, EvictedKept
    <3> QED
      BY <1>7, <3>1, <3>2
  <2>5. j.pc \notin {"openRest", "insert", "restoreRest"}
    BY <2>2
  <2> QED
    BY <1>2, <1>4, <2>2, <2>3, <2>4, <2>5, RequestKept
<1>8. CASE OpenDb(t)
  <2> DEFINE j == [job[t] EXCEPT !.pc = "openRest", !.ino = root.ino]
  <2>1. /\ j \in Jobs /\ j.pc = "openRest" /\ j.mark = job[t].mark
        /\ j.overlapped = job[t].overlapped /\ j.ino = root.ino
    BY <1>1 DEF Jobs, Phases, PastCheck, Roots
  <2>2. job' = [job EXCEPT ![t] = j] /\ entries' = entries
    BY <1>8 DEF OpenDb, cache
  <2> HIDE DEF j
  <2> QED
    BY <1>2, <1>4, <2>1, <2>2, RequestKept
<1>9. CASE OpenRest(t)
  <2> DEFINE j == [job[t] EXCEPT !.pc = "insert", !.rest = root.rest]
  <2>1. /\ j \in Jobs /\ j.pc = "insert" /\ j.mark = job[t].mark
        /\ j.overlapped = job[t].overlapped /\ j.rest = root.rest /\ j.ino = job[t].ino
    BY <1>1 DEF Jobs, Phases, PastCheck, Roots
  <2>2. job' = [job EXCEPT ![t] = j] /\ entries' = entries /\ job[t].pc = "openRest"
    BY <1>9 DEF OpenRest, cache
  <2> HIDE DEF j
  <2>3. Steady /\ j.mark = root.mark /\ ~j.overlapped => j.ino = root.ino
    BY <1>1, <2>1, <2>2 DEF RequestOK
  <2> QED
    BY <1>2, <1>4, <2>1, <2>2, <2>3, RequestKept
<1>10. CASE OpenFails(t) \/ ((Lookup(t) \/ TakeFlight(t)) /\ Hit(t))
  <2>1. job' = [job EXCEPT ![t] = Idle] /\ entries' = entries
    BY <1>10 DEF OpenFails, Lookup, TakeFlight
  <2> QED
    BY <1>6, <2>1
<1>11. CASE Insert(t)
  <2> DEFINE e == [mark |-> job[t].mark, ino |-> job[t].ino, rest |-> job[t].rest,
                   overlapped |-> job[t].overlapped]
  <2>1. PICK es \in Evicted(entries) : entries' = [es EXCEPT ![job[t].key] = e]
    BY <1>11 DEF Insert
  <2>2. job' = [job EXCEPT ![t] = Idle] /\ job[t].pc = "insert"
    BY <1>11 DEF Insert
  <2>3. EntryOK(e)
    BY <1>1, <1>4, <2>2 DEF EntryOK, RequestOK
  <2> HIDE DEF e
  <2>4. es \in [Branches -> Searchers \cup {None}] /\ \A b \in Branches : es[b] # None => es[b] = entries[b]
    BY <1>1, <2>1, EvictedEntries, EvictedKept
  <2>5. \A b \in Branches : entries'[b] = e \/ entries'[b] = es[b]
    BY <2>1, <2>4
  <2>6. ASSUME NEW b \in Branches, entries'[b] # None
        PROVE  entries'[b] = entries[b] \/ EntryOK(entries'[b])
    <3>1. CASE entries'[b] = e
      BY <2>3, <3>1
    <3>2. CASE entries'[b] = es[b]
      BY <2>4, <2>6, <3>2
    <3> QED
      BY <2>5, <3>1, <3>2
  <2> QED
    BY <1>6, <2>2, <2>6
<1> QED
  BY <1>7, <1>8, <1>9, <1>10, <1>11

(* A step under the lock that does not write meta.json. *)
LEMMA LockedKept ==
  ASSUME FreshInv, IInv', NEW p \in Procs, runs' = runs, root'.mark = root.mark,
         UNCHANGED entries,
         \A q \in Procs \ {p} :
            /\ job'[q].pc = job[q].pc /\ job'[q].mark = job[q].mark /\ job'[q].ino = job[q].ino
            /\ job'[q].rest = job[q].rest /\ job'[q].overlapped = job[q].overlapped,
         job'[p].pc \notin PastCheck \cup {"restoreRest"},
         p # Cli => job'[p].mark = job[p].mark,
         HalfRestored \/ (Steady' => Steady /\ root'.ino = root.ino /\ root'.rest = root.rest),
         NewInv'
  PROVE  FreshInv'
<1>1. IInv /\ Threads \subseteq Procs /\ Cli \notin Threads
  BY FreshTypes DEF FreshInv
<1>2. HalfRestored' => HalfRestored
  BY DEF HalfRestored
<1>3. EntriesOK'
  BY <1>2, EntriesKept
<1>4. \A t \in Threads :
         /\ job'[t].mark = job[t].mark
         /\ job'[t].pc \in PastCheck =>
               /\ job'[t].pc = job[t].pc /\ job'[t].ino = job[t].ino
               /\ job'[t].rest = job[t].rest
               /\ job[t].overlapped => job'[t].overlapped
  BY <1>1
<1>5. RequestsOK'
  BY <1>2, <1>4, RequestsKept
<1> QED
  BY <1>3, <1>5 DEF FreshInv

(* A process that goes on under the lock. *)
LEMMA GoneOn ==
  ASSUME FreshInv, NEW p \in Procs, NEW j \in Jobs, job' = [job EXCEPT ![p] = j],
         p # Cli => j.mark = job[p].mark
  PROVE  /\ job'[p] = j /\ (p # Cli => job'[p].mark = job[p].mark)
         /\ \A q \in Procs \ {p} :
               /\ job'[q].pc = job[q].pc /\ job'[q].mark = job[q].mark /\ job'[q].ino = job[q].ino
               /\ job'[q].rest = job[q].rest /\ job'[q].overlapped = job[q].overlapped
<1>1. job \in [Procs -> Jobs]
  BY FreshTypes DEF FreshInv
<1> QED
  BY <1>1

(* Reconciling, and failing at it, leave the live index alone. *)
LEMMA ReconcileFresh ==
  ASSUME FreshInv, IInv', NEW p \in Procs, Reconcile(p) \/ ReconcileFails(p)
  PROVE  FreshInv'
<1>1. /\ IInv /\ job[p] \in Jobs /\ side \in Branches /\ snap \in [Branches -> Snapshots \cup {None}]
      /\ NewInv /\ Cli \in Procs
  BY FreshTypes DEF FreshInv, IInv, TypeOK, ProjectTypeOK
<1>2. UNCHANGED <<root, entries, runs>>
  BY DEF Reconcile, ReconcileFails, cache, bounds
<1>3. PICK j \in Jobs :
         /\ job' = [job EXCEPT ![p] = j] /\ j.mark = job[p].mark
         /\ j.pc \in {"done", "restoreDb"}
  <2>1. ASSUME NEW pc \in {"done", "restoreDb"}, NEW out \in {"ok", "outgoing", "err"},
               NEW from \in Branches \cup {None},
               job' = [job EXCEPT ![p] = [job[p] EXCEPT !.pc = pc, !.out = out, !.from = from]]
        PROVE  \E j \in Jobs : /\ job' = [job EXCEPT ![p] = j] /\ j.mark = job[p].mark
                               /\ j.pc \in {"done", "restoreDb"}
    <3> DEFINE j == [job[p] EXCEPT !.pc = pc, !.out = out, !.from = from]
    <3>1. j \in Jobs /\ j.mark = job[p].mark /\ j.pc = pc
      BY <1>1 DEF Jobs, Phases, Restoring
    <3> HIDE DEF j
    <3> QED
      BY <2>1, <3>1 DEF j
  <2>2. \A pc, out : [job[p] EXCEPT !.pc = pc, !.out = out] =
                    [job[p] EXCEPT !.pc = pc, !.out = out, !.from = job[p].from]
    BY <1>1 DEF Jobs
  <2>3. job[p].from \in Branches \cup {None}
    BY <1>1 DEF Jobs
  <2>4. CASE \E pc \in {"done", "restoreDb"}, out \in {"ok", "outgoing", "err"} :
               job' = [job EXCEPT ![p] = [job[p] EXCEPT !.pc = pc, !.out = out]]
    <3>1. PICK pc \in {"done", "restoreDb"}, out \in {"ok", "outgoing", "err"} :
             job' = [job EXCEPT ![p] = [job[p] EXCEPT !.pc = pc, !.out = out]]
      BY <2>4
    <3>2. job' = [job EXCEPT ![p] = [job[p] EXCEPT !.pc = pc, !.out = out, !.from = job[p].from]]
      BY <2>2, <3>1
    <3> QED
      BY <2>1, <2>3, <3>2
  <2>5. CASE job' = [job EXCEPT ![p] = [job[p] EXCEPT !.pc = "done", !.out = "outgoing",
                                                      !.from = side]]
    BY <1>1, <2>1, <2>5
  <2> QED
    BY <2>4, <2>5 DEF Reconcile, ReconcileFails
<1>4. job[p].pc \in BeforeBuild
  BY DEF Reconcile, ReconcileFails, BeforeBuild
<1>5. /\ job'[Cli].pc \in BeforeBuild => job[Cli].pc \in BeforeBuild
      /\ job'[Cli].pc = "buildRest" => job[Cli].pc = "buildRest"
  BY <1>1, <1>3, <1>4, GoneOn
<1>6. ASSUME NEW b \in Branches, snap'[b] # None PROVE OlderSnapshot(snap'[b])
  <2> DEFINE copy == [db |-> root.db, rest |-> root.rest, meta |-> root.meta]
  <2>1. snap' = snap \/ snap' = [snap EXCEPT ![side] = copy]
    BY DEF Reconcile, ReconcileFails
  <2>2. OlderSnapshot(copy)
    BY <1>1 DEF NewInv, OlderSnapshot
  <2> HIDE DEF copy
  <2>3. snap'[b] = snap[b] \/ snap'[b] = copy
    BY <1>1, <2>1
  <2> QED
    BY <1>1, <1>6, <2>2, <2>3 DEF NewInv
<1>7. NewInv'
  BY <1>1, <1>2, <1>5, <1>6, NewKept DEF NewInv
<1>8. job'[p].pc \notin PastCheck \cup {"restoreRest"}
  BY <1>3, GoneOn DEF PastCheck
<1>9. Steady' => Steady
  BY <1>2 DEF Steady
<1> QED
  BY <1>2, <1>3, <1>7, <1>8, <1>9, GoneOn, LockedKept

(* A restore replaces chunks.db, and the parts that come after meta.json. *)
LEMMA RestoreFresh ==
  ASSUME FreshInv, IInv', NEW p \in Procs, RestoreDb(p) \/ RestoreRest(p)
  PROVE  FreshInv'
<1>1. /\ IInv /\ job[p] \in Jobs /\ NewInv /\ Cli \in Procs /\ root \in Roots
  BY FreshTypes DEF FreshInv, IInv, TypeOK, ProjectTypeOK
<1>2. job[p].key \in Branches /\ snap[job[p].key] # None
  BY <1>1 DEF IInv, JobOK, RestoreDb, RestoreRest, Restoring, Keyed, Phases, Building
<1>3. UNCHANGED <<snap, entries, runs>>
  BY DEF RestoreDb, RestoreRest, cache, bounds
<1>4. PICK pc \in {"restoreMeta", "restoreSide"} : job' = [job EXCEPT ![p].pc = pc]
  BY DEF RestoreDb, RestoreRest, Go
<1> DEFINE j == [job[p] EXCEPT !.pc = pc]
<1>5. j \in Jobs /\ j.pc = pc /\ j.mark = job[p].mark /\ job' = [job EXCEPT ![p] = j]
  BY <1>1, <1>4 DEF Jobs, Phases, Restoring
<1> HIDE DEF j
<1>6. /\ job'[Cli].pc \in BeforeBuild => job[Cli].pc \in BeforeBuild
      /\ job'[Cli].pc = "buildRest" => job[Cli].pc = "buildRest" /\ p # Cli
      /\ job'[p].pc \notin PastCheck \cup {"restoreRest"}
  <2>1. job'[p].pc = pc /\ job[p].pc \in Restoring
    BY <1>5, GoneOn DEF RestoreDb, RestoreRest, Restoring
  <2>2. CASE p = Cli
    BY <1>4, <2>1, <2>2 DEF PastCheck, BeforeBuild
  <2>3. CASE p # Cli
    <3>1. job'[Cli].pc = job[Cli].pc
      BY <1>1, <1>5, <2>3, GoneOn
    <3> QED
      BY <1>4, <2>1, <2>3, <3>1 DEF PastCheck
  <2> QED
    BY <2>2, <2>3
<1>7. job[Cli].pc = "buildRest" => p = Cli
  BY <1>1 DEF IInv, JobOK, RestoreDb, RestoreRest, Restoring, Building
<1>8. Older(snap[job[p].key].db) /\ Older(snap[job[p].key].rest)
  BY <1>1, <1>2 DEF NewInv, OlderSnapshot
<1>9. CASE RestoreDb(p)
  <2>1. /\ root'.db = snap[job[p].key].db /\ root'.rest = root.rest /\ root'.meta = root.meta
        /\ root'.mark = root.mark /\ root'.ino = root.ino + 1
        /\ root'.reverted = (root.reverted \/ snap[job[p].key].db = root.meta)
    BY <1>1, <1>9 DEF RestoreDb, Roots
  <2>2. ~Steady'
    BY <2>1 DEF Steady
  <2>3. NewInv'
    BY <1>1, <1>3, <1>6, <1>7, <1>8, <2>1, NewKept DEF NewInv
  <2> QED
    BY <1>3, <1>5, <1>6, <2>1, <2>2, <2>3, GoneOn, LockedKept
<1>10. CASE RestoreRest(p)
  <2>1. /\ root'.db = root.db /\ root'.rest = snap[job[p].key].rest /\ root'.meta = root.meta
        /\ root'.mark = root.mark
    BY <1>1, <1>10 DEF RestoreRest, Roots
  <2>2. HalfRestored
    BY <1>10 DEF HalfRestored, RestoreRest
  <2>3. NewInv'
    BY <1>1, <1>3, <1>6, <1>7, <1>8, <2>1, NewKept DEF NewInv
  <2> QED
    BY <1>3, <1>5, <1>6, <2>1, <2>2, <2>3, GoneOn, LockedKept
<1> QED
  BY <1>9, <1>10

(* A restore replaces meta.json: the requests under way are marked. *)
LEMMA RestoreMetaFresh ==
  ASSUME FreshInv, IInv', NEW p \in Procs, RestoreMeta(p)
  PROVE  FreshInv'
<1>1. /\ IInv /\ job \in [Procs -> Jobs] /\ NewInv /\ Cli \in Procs /\ root \in Roots
      /\ Threads \subseteq Procs /\ job[p].pc = "restoreMeta"
  BY FreshTypes DEF FreshInv, IInv, TypeOK, ProjectTypeOK, RestoreMeta
<1>2. job[p].key \in Branches /\ snap[job[p].key] # None /\ lock = p
  BY <1>1 DEF IInv, JobOK, Restoring, Keyed, Phases, Building
<1>3. UNCHANGED <<snap, entries, runs>>
  BY DEF RestoreMeta, cache, bounds
<1>4. /\ root'.db = root.db /\ root'.rest = root.rest /\ root'.meta = snap[job[p].key].meta
      /\ root'.mark = root.mark + 1
  BY <1>1 DEF RestoreMeta, Roots
<1>5. job'[p].pc = "restoreRest" /\ job'[p].mark = job[p].mark
  BY <1>1 DEF RestoreMeta, Jobs
<1>6. ASSUME NEW q \in Procs \ {p}
      PROVE  /\ job'[q].pc = job[q].pc /\ job'[q].mark = job[q].mark
             /\ job[q].pc \in PastCheck => job'[q].overlapped
  <2> DEFINE o == job[q].overlapped \/ job[q].pc \in PastCheck
  <2>1. job'[q] = [job[q] EXCEPT !.overlapped = o]
    BY DEF RestoreMeta
  <2>2. job[q] \in Jobs /\ (job[q].pc \in PastCheck => o)
    BY <1>1
  <2> HIDE DEF o
  <2> QED
    BY <2>1, <2>2 DEF Jobs
<1>7. /\ job'[Cli].pc \in BeforeBuild => job[Cli].pc \in BeforeBuild
      /\ job'[Cli].pc # "buildRest"
  <2>1. CASE p = Cli
    BY <1>1, <1>5, <2>1 DEF BeforeBuild, Restoring
  <2>2. CASE p # Cli
    BY <1>1, <1>2, <1>6, <2>2 DEF IInv, JobOK, Building
  <2> QED
    BY <2>1, <2>2
<1>8. NewInv'
  BY <1>1, <1>2, <1>3, <1>4, <1>7, NewKept DEF NewInv, OlderSnapshot
<1>9. \A t \in Threads :
         /\ job'[t].mark = job[t].mark
         /\ HalfRestored' /\ job'[t].pc \in PastCheck => job'[t].overlapped
  BY <1>1, <1>5, <1>6 DEF PastCheck
<1> QED
  BY <1>3, <1>4, <1>8, <1>9, MarkerRenewed DEF FreshInv

(* branch.json is not read by a searcher; a mirror copies the live index. *)
LEMMA StampFresh ==
  ASSUME FreshInv, IInv', NEW p \in Procs, RestoreSide(p) \/ (p = Cli /\ BuildMirror)
  PROVE  FreshInv'
<1>1. /\ IInv /\ job \in [Procs -> Jobs] /\ NewInv /\ Cli \in Procs /\ head \in Branches
      /\ snap \in [Branches -> Snapshots \cup {None}]
  BY FreshTypes DEF FreshInv, IInv, TypeOK, ProjectTypeOK
<1>2. UNCHANGED <<root, entries, runs>>
  BY DEF RestoreSide, BuildMirror, cache, bounds
<1>3. PICK key \in Branches, pc \in {"done", "sync"} :
         StampSide(p, key, pc) /\ (pc = "done" => job[p].pc = "restoreSide")
  <2>1. CASE RestoreSide(p)
    <3>1. job[p].key \in Branches
      BY <1>1, <2>1 DEF IInv, JobOK, RestoreSide, Restoring, Keyed, Phases, Building
    <3> QED
      BY <2>1, <3>1 DEF RestoreSide
  <2>2. CASE p = Cli /\ BuildMirror
    BY <1>1, <2>2 DEF BuildMirror
  <2> QED
    BY <2>1, <2>2
<1>4. job'[p].pc = pc /\ job'[p].mark = job[p].mark
  BY <1>1, <1>3 DEF StampSide, Jobs
<1>5. ASSUME NEW q \in Procs \ {p}
      PROVE  /\ job'[q].pc = job[q].pc /\ job'[q].mark = job[q].mark /\ job'[q].ino = job[q].ino
             /\ job'[q].rest = job[q].rest /\ job'[q].overlapped = job[q].overlapped
  <2> DEFINE u == job[q].undone \/ (job[q].pc = "done" /\ side # key)
  <2>1. job'[q] = [job[q] EXCEPT !.undone = u] /\ job[q] \in Jobs
    BY <1>1, <1>3 DEF StampSide
  <2> HIDE DEF u
  <2> QED
    BY <2>1 DEF Jobs
<1>6. /\ job'[Cli].pc \in BeforeBuild => job[Cli].pc \in BeforeBuild
      /\ job'[Cli].pc = "buildRest" => job[Cli].pc = "buildRest"
  BY <1>1, <1>3, <1>4, <1>5 DEF BeforeBuild, Restoring
<1>7. ASSUME NEW b \in Branches, snap'[b] # None PROVE OlderSnapshot(snap'[b])
  <2> DEFINE copy == [db |-> root.db, rest |-> root.rest, meta |-> root.meta]
  <2>1. snap' = snap \/ snap' = [snap EXCEPT ![head] = copy]
    BY DEF RestoreSide, BuildMirror
  <2>2. OlderSnapshot(copy)
    BY <1>1 DEF NewInv, OlderSnapshot
  <2> HIDE DEF copy
  <2>3. snap'[b] = snap[b] \/ snap'[b] = copy
    BY <1>1, <2>1
  <2> QED
    BY <1>1, <1>7, <2>2, <2>3 DEF NewInv
<1>8. NewInv'
  BY <1>1, <1>2, <1>6, <1>7, NewKept DEF NewInv
<1>9. job'[p].pc \notin PastCheck \cup {"restoreRest"} /\ (Steady' => Steady)
  BY <1>2, <1>3, <1>4 DEF PastCheck, Steady
<1> QED
  BY <1>2, <1>4, <1>5, <1>8, <1>9, LockedKept

(* The other process moves, and writes no part of the live index. *)
LEMMA CliFresh ==
  ASSUME FreshInv, IInv', CliStart \/ CliBuild \/ BuildDies
  PROVE  FreshInv'
<1>1. /\ IInv /\ job \in [Procs -> Jobs] /\ NewInv /\ Cli \in Procs /\ runs \in Nat
  BY FreshTypes DEF FreshInv
<1>2. UNCHANGED <<root, entries, snap>>
  BY DEF CliStart, CliBuild, BuildDies, project, cache
<1>3. /\ Idle \in Jobs /\ Idle.pc = "idle" /\ head \in Branches
      /\ \A pc \in {"lock", "build"} :
            /\ [Idle EXCEPT !.pc = pc, !.key = head] \in Jobs
            /\ [Idle EXCEPT !.pc = pc, !.key = head].pc = pc
      /\ \A pc \in {"buildDb", "mirror"} :
            [Idle EXCEPT !.pc = pc] \in Jobs /\ [Idle EXCEPT !.pc = pc].pc = pc
  BY <1>1, IdleJob DEF IInv, TypeOK, ProjectTypeOK, Idle, Jobs, Phases, Building
<1>4. PICK j \in Jobs :
         /\ job' = [job EXCEPT ![Cli] = j]
         /\ j.pc \in {"idle", "mirror", "buildDb", "lock", "build"}
         /\ j.pc = "buildDb" => job[Cli].pc \in BeforeBuild
         /\ j.pc \in {"lock", "build"} => runs' = runs + 1
         /\ j.pc \notin {"lock", "build"} => runs' = runs
  <2>1. CASE CliStart
    <3> DEFINE pc == IF Pending THEN "lock" ELSE "build"
    <3>1. pc \in {"lock", "build"} /\ job' = [job EXCEPT ![Cli] = [Idle EXCEPT !.pc = pc, !.key = head]]
      BY <2>1 DEF CliStart
    <3> HIDE DEF pc
    <3> QED
      BY <1>3, <2>1, <3>1 DEF CliStart
  <2>2. CASE CliBuild
    <3>1. PICK pc \in {"buildDb", "mirror"} : job' = [job EXCEPT ![Cli] = [Idle EXCEPT !.pc = pc]]
      BY <2>2 DEF CliBuild
    <3>2. job[Cli].pc \in BeforeBuild /\ runs' = runs
      BY <2>2 DEF CliBuild, BeforeBuild, bounds
    <3> QED
      BY <1>3, <3>1, <3>2
  <2>3. CASE BuildDies
    BY <1>3, <2>3 DEF BuildDies
  <2> QED
    BY <2>1, <2>2, <2>3
<1>5. job'[Cli] = j /\ \A q \in Procs \ {Cli} : job'[q] = job[q]
  BY <1>1, <1>4
<1>6. NewInv'
  <2>1. CASE j.pc \in {"lock", "build"}
    <3>1. \A n \in Nat : n <= runs => n <= runs' /\ n < runs'
      BY <1>1, <1>4, <2>1
    <3> QED
      BY <1>1, <1>2, <1>5, <2>1, <3>1, FreshTypes DEF NewInv, OlderSnapshot, Older
  <2>2. CASE j.pc \notin {"lock", "build"}
    <3>1. job'[Cli].pc \in BeforeBuild => job[Cli].pc \in BeforeBuild
      BY <1>4, <1>5, <2>2 DEF BeforeBuild, Restoring
    <3>2. job'[Cli].pc # "buildRest" /\ runs' = runs
      BY <1>4, <1>5, <2>2
    <3> QED
      BY <1>1, <1>2, <3>1, <3>2, NewKept DEF NewInv
  <2> QED
    BY <2>1, <2>2
<1>7. HalfRestored' => HalfRestored
  BY <1>1, <1>4, <1>5 DEF HalfRestored
<1>8. Steady' => Steady
  BY <1>2 DEF Steady
<1>9. EntriesOK' /\ RequestsOK'
  <2>1. Threads \subseteq Procs \ {Cli}
    BY <1>1, FreshTypes
  <2> QED
    BY <1>2, <1>5, <1>7, <1>8, <2>1, EntriesKept, RequestsKept
<1> QED
  BY <1>6, <1>9 DEF FreshInv

(* A build writes chunks.db, the rest, and at last meta.json. *)
LEMMA BuildFresh ==
  ASSUME FreshInv, IInv', BuildDb \/ BuildRest \/ BuildMeta \/ BuildSync
  PROVE  FreshInv'
<1>1. /\ IInv /\ job \in [Procs -> Jobs] /\ NewInv /\ Cli \in Procs /\ runs \in Nat
      /\ root \in Roots /\ job[Cli] \in Jobs /\ head \in Branches
      /\ Threads \subseteq Procs \ {Cli} /\ runs \in 0 .. MaxRuns
      /\ root.db.n \in Nat /\ root.meta.n \in Nat
  BY FreshTypes DEF FreshInv, IInv, TypeOK, ProjectTypeOK
<1>2. UNCHANGED <<entries, snap, runs>>
  BY DEF BuildDb, BuildRest, BuildMeta, BuildSync, cache, bounds
<1>3. /\ Idle \in Jobs /\ Idle.pc = "idle"
      /\ \A pc \in {"buildRest", "buildMeta", "mirror"} :
            [job[Cli] EXCEPT !.pc = pc] \in Jobs /\ [job[Cli] EXCEPT !.pc = pc].pc = pc
  BY <1>1, IdleJob DEF Jobs, Phases, Building
<1>4. PICK j \in Jobs :
         /\ job' = [job EXCEPT ![Cli] = j]
         /\ j.pc = CASE BuildDb -> "buildRest" [] BuildRest -> "buildMeta"
                     [] BuildMeta -> "mirror" [] BuildSync -> "idle"
  BY <1>3 DEF BuildDb, BuildRest, BuildMeta, BuildSync, Go
<1>5. /\ job'[Cli] = j /\ \A q \in Procs \ {Cli} : job'[q] = job[q]
  BY <1>1, <1>4
<1>6. j.pc \notin PastCheck \cup BeforeBuild \cup {"restoreRest"}
  BY <1>4 DEF PastCheck, BeforeBuild, Restoring, BuildDb, BuildRest, BuildMeta, BuildSync
<1>7. \A b \in Branches : snap'[b] # None => OlderSnapshot(snap'[b])
  BY <1>1, <1>2 DEF NewInv
<1>8. CASE BuildDb
  <2> DEFINE v == [n |-> runs, branch |-> head]
  <2>1. /\ root'.db = v /\ root'.rest = root.rest /\ root'.meta = root.meta
        /\ root'.mark = root.mark /\ root'.ino = root.ino
    BY <1>1, <1>8 DEF BuildDb, Roots
  <2>2. root.meta.n < runs /\ v.n = runs /\ root.db.n < runs /\ root.rest.n < runs
    BY <1>1, <1>8 DEF NewInv, Older, BuildDb, BeforeBuild
  <2> HIDE DEF v
  <2>3. root'.meta.n < root'.db.n /\ root'.meta # root'.db
    BY <1>1, <2>1, <2>2
  <2>4. ~Steady'
    BY <2>3 DEF Steady
  <2>5. NewInv'
    BY <1>1, <1>2, <1>5, <1>6, <1>7, <2>1, <2>2, <2>3 DEF NewInv, Older, OlderSnapshot
  <2> QED
    BY <1>2, <1>5, <1>6, <2>1, <2>4, <2>5, <1>1, LockedKept
<1>9. CASE BuildRest
  <2>1. /\ root'.db = root.db /\ root'.rest = root.db /\ root'.meta = root.meta
        /\ root'.mark = root.mark /\ root'.ino = root.ino /\ job[Cli].pc = "buildRest"
    BY <1>1, <1>9 DEF BuildRest, Roots
  <2>2. root'.meta.n < root'.db.n
    BY <1>1, <2>1 DEF NewInv
  <2>3. ~Steady'
    BY <1>1, <2>1, <2>2 DEF Steady
  <2>4. NewInv'
    BY <1>1, <1>2, <1>5, <1>6, <1>7, <2>1, <2>2, NewKept DEF NewInv
  <2> QED
    BY <1>2, <1>5, <1>6, <2>1, <2>3, <2>4, <1>1, LockedKept
<1>10. CASE BuildMeta \/ BuildSync
  <2>1. /\ root'.db = root.db /\ root'.rest = root.rest /\ root'.meta \in {root.meta, root.db}
        /\ root'.mark = root.mark + 1
    BY <1>1, <1>10 DEF BuildMeta, BuildSync, Roots
  <2>2. j.pc # "buildRest"
    BY <1>4, <1>10 DEF BuildDb, BuildRest, BuildMeta, BuildSync
  <2>3. NewInv'
    BY <1>1, <1>2, <1>5, <1>6, <1>7, <2>1, <2>2, NewKept DEF NewInv
  <2>4. ~HalfRestored'
    <3>1. \A q \in Procs : job[q].pc # "restoreRest"
      BY <1>1, <1>10 DEF IInv, JobOK, BuildMeta, BuildSync, Restoring, Building
    <3> QED
      BY <1>5, <1>6, <3>1 DEF HalfRestored
  <2>5. RequestsOK' /\ EntriesOK'
    BY <1>1, <1>2, <1>5, <2>1, <2>4, MarkerRenewed
  <2> QED
    BY <2>3, <2>5 DEF FreshInv
<1> QED
  BY <1>8, <1>9, <1>10

(* Time, the user and the watcher write nothing a searcher is opened from. *)
LEMMA OutsideFresh ==
  ASSUME FreshInv, IInv', CoolDown \/ Invalidate \/ Checkout \/ UNCHANGED vars
  PROVE  FreshInv'
<1>1. /\ UNCHANGED <<root, snap, job, runs>>
      /\ entries' = entries \/ entries' = [b \in Branches |-> None]
  BY DEF CoolDown, Invalidate, Checkout, vars, project, cache, bounds
<1>2. NewInv'
  BY <1>1 DEF FreshInv, NewInv, Older, OlderSnapshot
<1>3. (HalfRestored' => HalfRestored) /\ (Steady' => Steady)
  BY <1>1 DEF HalfRestored, Steady
<1>4. \A b \in Branches : entries'[b] # None => entries'[b] = entries[b]
  BY <1>1
<1>5. EntriesOK' /\ RequestsOK'
  BY <1>1, <1>3, <1>4, EntriesKept, RequestsKept
<1> QED
  BY <1>2, <1>5 DEF FreshInv

LEMMA FreshInvariant == Spec => []FreshInv
<1>1. Init => FreshInv
  <2> SUFFICES ASSUME Init PROVE FreshInv
    OBVIOUS
  <2>1. IInv
    BY InitInv
  <2>2. /\ root.db.n = 0 /\ root.rest.n = 0 /\ root.meta.n = 0 /\ root.mark = 0 /\ root.ino = 0
        /\ runs = 0 /\ job = [p \in Procs |-> Idle] /\ root.rest = root.db
    BY DEF Init
  <2>3. Idle.pc = "idle" /\ Idle.mark = 0 /\ Cli \in Procs /\ Threads \subseteq Procs
    BY DEF Idle, Procs
  <2>4. ~HalfRestored
    BY <2>2, <2>3 DEF HalfRestored
  <2>5. ASSUME NEW b \in Branches, snap[b] # None
        PROVE  snap[b].db.n = 0 /\ snap[b].rest.n = 0 /\ snap[b].meta.n = 0
    BY <2>5 DEF Init
  <2>6. NewInv
    BY <2>2, <2>3, <2>5 DEF NewInv, Older, OlderSnapshot, BeforeBuild, Restoring
  <2>7. RequestsOK
    BY <2>2, <2>3, <2>4 DEF RequestsOK, RequestOK
  <2>8. EntriesOK
    BY <2>4 DEF Init, EntriesOK, EntryOK
  <2> QED
    BY <2>1, <2>6, <2>7, <2>8 DEF FreshInv
<1>2. FreshInv /\ [Next]_vars => FreshInv'
  <2> SUFFICES ASSUME FreshInv, [Next]_vars PROVE FreshInv'
    OBVIOUS
  <2>1. IInv' /\ Cli \in Procs
    BY StepInv DEF FreshInv, Procs
  <2>2. ASSUME NEW t \in Threads, Request(t) PROVE FreshInv'
    BY <2>1, <2>2, ProbeFresh, OpenFresh DEF Request
  <2>3. ASSUME NEW p \in Procs, Switch(p) \/ ReconcileFails(p) PROVE FreshInv'
    BY <2>1, <2>3, ReconcileFresh, RestoreFresh, RestoreMetaFresh, StampFresh DEF Switch
  <2>4. CASE CliStart \/ Build \/ BuildDies
    BY <2>1, <2>4, CliFresh, BuildFresh, StampFresh DEF Build
  <2>5. CASE CoolDown \/ Invalidate \/ Checkout \/ UNCHANGED vars
    BY <2>1, <2>5, OutsideFresh
  <2> QED
    BY <2>2, <2>3, <2>4, <2>5 DEF Next
<1> QED
  BY <1>1, <1>2, PTL DEF Spec

(* A searcher the cache serves as current has the live index open, all of  *)
(* it, whenever the live index is of one build: whatever was built,        *)
(* restored or interrupted beneath its open, unless a restore swapped      *)
(* meta.json in before the parts that follow it, or one that died brought  *)
(* an earlier chunks.db back.                                              *)
THEOREM FreshIsLive == Spec => []FreshEntriesAreLive
<1>1. FreshInv => FreshEntriesAreLive
  BY DEF FreshInv, FreshEntriesAreLive, EntriesOK, EntryOK, Steady, Coherent, Fresh
<1> QED
  BY <1>1, FreshInvariant, PTL

-----------------------------------------------------------------------------
(* The life of the daemon's process, and its three files.                  *)

\* What ProcAssumption and BoundAssumption say of the constants
Parameters == NamesDistinct /\ BoundsAreNumbers

ProcType == [pc : Pcs, role : Roles, job : Kinds, calm : 0 .. IdleTicks, seen : Name]

FileTypes ==
    /\ port \in Name /\ pid \in Name /\ sentinel \in Processes \cup {Nobody}
    /\ conns \subseteq Conn
    /\ shut \subseteq Daemons
    /\ faults \in 0 .. MaxFaults

\* What a process read in the sentinel before it removes it: a dead process, or itself; and
\* who gets where
ProcInv == \A p \in Processes :
    /\ proc[p].pc = "rmWarm" => proc[p].seen \in Processes /\ proc[proc[p].seen].pc = "off"
    /\ proc[p].pc \in {"cleanRemove", "dropRemove"} => proc[p].seen = p
    /\ proc[p].pc \in {"truncPid", "writePid"} => proc[p].role = "serve"
    /\ proc[p].pc \in ServingPcs \cup ExitPcs => p \in Daemons
    /\ proc[p].role = "serve" => p \in Daemons

\* A server that probes while no daemon is registered is excused, and so is one that found
\* the pid file of a dead process
ExcuseInv == \A d \in Daemons :
    /\ Probing(d) /\ ~Registered => d \in excused
    /\ proc[d].pc = "rmDead" /\ proc[d].role = "serve" => d \in excused

\* Without a fault, every file has a process that is still going to remove it
PortOwners == {"bind", "writeSentinel", "loop", "full", "drain", "clean", "cleanRemove", "exitPid", "drop"}
PidOwners == {"writePid", "open", "bind", "writeSentinel", "loop", "full", "drain", "clean",
              "cleanRemove", "exitPid"}
SentinelOwners == {"loop", "full", "drain", "clean", "cleanRemove"}
FilesInv == faults = 0 =>
    /\ port # Nobody => \E d \in Daemons : proc[d].pc \in PortOwners
    /\ pid # Nobody => \E d \in Daemons : proc[d].role = "serve" /\ proc[d].pc \in PidOwners
    /\ sentinel # Nobody => sentinel \in Daemons /\ proc[sentinel].pc \in SentinelOwners

Base == Parameters /\ FileTypes /\ proc \in [Processes -> ProcType] /\ ProcInv /\ FilesInv
DaemonInv == Base /\ ExcuseInv /\ excused \subseteq Daemons

-----------------------------------------------------------------------------
(* What a step may do to a process, and to the files.                      *)

Sound(r) ==
    /\ proc'[r].pc # "off" => proc[r].pc # "off" \/ Unused(r)
    /\ proc'[r].pc = "rmWarm" => proc'[r].seen \in Processes /\ proc'[proc'[r].seen].pc = "off"
    /\ proc'[r].pc \in {"cleanRemove", "dropRemove"} => proc'[r].seen = r
    /\ proc'[r].pc \in {"truncPid", "writePid"} => proc'[r].role = "serve"
    /\ proc'[r].pc \in ServingPcs \cup ExitPcs => r \in Daemons
    /\ proc'[r].role = "serve" => r \in Daemons

\* An owner stays one while the file is there
Held(r) == faults' = 0 =>
    /\ r \in Daemons /\ proc[r].pc \in PortOwners /\ port' # Nobody => proc'[r].pc \in PortOwners
    /\ r \in Daemons /\ proc[r].role = "serve" /\ proc[r].pc \in PidOwners /\ pid' # Nobody
          => proc'[r].role = "serve" /\ proc'[r].pc \in PidOwners
    /\ sentinel' = r => r \in Daemons /\ proc'[r].pc \in SentinelOwners

\* A dead process's pid file, or a missing one, is found only when no daemon is registered
Probed(r) ==
    /\ proc'[r].pc = "rmDead" /\ proc'[r].role = "serve" => ~Registered'
    /\ proc[r].pc \in {"starting", "rmDead"} /\ proc'[r].pc = "truncPid"
          => proc[r].role = "serve" /\ (proc[r].pc = "rmDead" \/ port # Nobody \/ pid = Nobody)

\* A file that was not there has an owner
Filed ==
    /\ port' # Nobody => port # Nobody \/ \E d \in Daemons : proc'[d].pc \in PortOwners
    /\ pid' # Nobody => pid # Nobody \/ \E d \in Daemons : proc'[d].role = "serve" /\ proc'[d].pc \in PidOwners
    /\ sentinel' \in {sentinel, Nobody} \/ \E d \in Daemons : sentinel' = d /\ proc'[d].pc \in SentinelOwners

Moved(r) == proc'[r] = proc[r] \/ (Sound(r) /\ Held(r) /\ Probed(r))

Good ==
    /\ proc' \in [Processes -> ProcType] /\ FileTypes'
    /\ faults' = 0 => faults = 0
    /\ Filed
    /\ \A r \in Processes : Moved(r)

LEMMA GoodInv == ASSUME Base, Good PROVE Base'
<1>1. Parameters'
  BY DEF Base, Parameters, NamesDistinct, BoundsAreNumbers
<1>2. ProcInv'
  <2>1. ASSUME NEW p \in Processes, proc'[p].pc = "rmWarm"
        PROVE  proc'[p].seen \in Processes /\ proc'[proc'[p].seen].pc = "off"
    <3>1. CASE proc'[p] = proc[p]
      <4>1. proc[p].seen \in Processes /\ proc[proc[p].seen].pc = "off" /\ ~Unused(proc[p].seen)
        BY <2>1, <3>1 DEF Base, ProcInv, Unused
      <4> QED
        BY <3>1, <4>1 DEF Good, Moved, Sound
    <3> QED
      BY <2>1, <3>1 DEF Good, Moved, Sound
  <2> QED
    BY <2>1 DEF Base, ProcInv, Good, Moved, Sound
<1>3. FilesInv'
  <2> SUFFICES ASSUME faults' = 0
               PROVE  /\ port' # Nobody => \E d \in Daemons : proc'[d].pc \in PortOwners
                      /\ pid' # Nobody => \E d \in Daemons : proc'[d].role = "serve" /\ proc'[d].pc \in PidOwners
                      /\ sentinel' # Nobody => sentinel' \in Daemons /\ proc'[sentinel'].pc \in SentinelOwners
    BY DEF FilesInv
  <2>1. faults = 0 /\ Daemons \subseteq Processes
    BY DEF Good, Processes
  <2>2. port' # Nobody => \E d \in Daemons : proc'[d].pc \in PortOwners
    BY <2>1 DEF Base, FilesInv, Good, Filed, Moved, Held
  <2>3. pid' # Nobody => \E d \in Daemons : proc'[d].role = "serve" /\ proc'[d].pc \in PidOwners
    BY <2>1 DEF Base, FilesInv, Good, Filed, Moved, Held
  <2>4. sentinel' # Nobody => sentinel' \in Daemons /\ proc'[sentinel'].pc \in SentinelOwners
    BY <2>1 DEF Base, FilesInv, Good, Filed, Moved, Held
  <2> QED
    BY <2>2, <2>3, <2>4
<1> QED
  BY <1>1, <1>2, <1>3 DEF Base, Good
-----------------------------------------------------------------------------
(* Shapes of steps.                                                        *)

\* A step of one process that writes no file
LEMMA OneMoves ==
    ASSUME Base, NEW p \in Processes, NEW q \in ProcType, proc' = [proc EXCEPT ![p] = q],
           conns' \subseteq Conn, shut' \subseteq Daemons,
           faults' = faults \/ (faults < MaxFaults /\ faults' = faults + 1),
           port' \in {port, Nobody}, pid' \in {pid, Nobody}, sentinel' \in {sentinel, Nobody},
           Sound(p), Held(p), Probed(p)
    PROVE  Good
<1>1. proc' \in [Processes -> ProcType] /\ \A r \in Processes \ {p} : proc'[r] = proc[r]
  BY DEF Base
<1>2. faults \in 0 .. MaxFaults /\ MaxFaults \in Nat
  BY DEF Base, FileTypes, Parameters, BoundsAreNumbers
<1>3. FileTypes'
  BY <1>2 DEF Base, FileTypes, Name
<1>4. faults' = 0 => faults = 0
  BY <1>2
<1>5. Filed
  BY DEF Filed
<1> QED
  BY <1>1, <1>3, <1>4, <1>5 DEF Good, Moved

ClientRest == (ClientPcs \cup {"off"}) \ {"rmWarm"}

\* A client goes on
LEMMA ClientMoves ==
    ASSUME Base, NEW p \in Processes, NEW q \in ProcType, proc' = [proc EXCEPT ![p] = q],
           conns' \subseteq Conn, shut' \subseteq Daemons,
           faults' = faults \/ (faults < MaxFaults /\ faults' = faults + 1),
           port' \in {port, Nobody}, pid' \in {pid, Nobody}, sentinel' \in {sentinel, Nobody},
           proc[p].pc \in ClientPcs, q.pc \in ClientRest, q.role \in {proc[p].role, "mcp"},
           q.pc = "rmDead" => ~Registered'
    PROVE  Good
<1>1. proc'[p] = q /\ proc[p].pc # "off"
  BY DEF Base, ClientPcs
<1>2. Sound(p)
  BY <1>1 DEF Sound, Base, ProcInv, ClientRest, ClientPcs, ServingPcs, ExitPcs
<1>3. Held(p)
  <2>1. p \in Processes /\ p # Nobody /\ faults \in Nat
    BY DEF Base, Parameters, NamesDistinct, FileTypes, BoundsAreNumbers
  <2>2. faults = 0 /\ sentinel = p => proc[p].pc \in SentinelOwners
    BY <2>1 DEF Base, FilesInv
  <2> QED
    BY <1>1, <2>1, <2>2 DEF Held, ClientPcs, PortOwners, PidOwners, SentinelOwners
<1>4. Probed(p)
  BY <1>1 DEF Probed, ClientRest, ClientPcs
<1> QED
  BY <1>2, <1>3, <1>4, OneMoves

\* A daemon goes on, and takes no file with it that it owns
LEMMA ServerMoves ==
    ASSUME Base, NEW d \in Daemons, NEW q \in ProcType, proc' = [proc EXCEPT ![d] = q],
           conns' \subseteq Conn, shut' \subseteq Daemons,
           faults' = faults \/ (faults < MaxFaults /\ faults' = faults + 1),
           port' \in {port, Nobody}, pid' \in {pid, Nobody}, sentinel' \in {sentinel, Nobody},
           proc[d].pc \in ServingPcs \cup ExitPcs,
           q.pc \in ServingPcs \cup ExitPcs \cup {"off"},
           q.pc # "off" => q.role = proc[d].role,
           q.role = proc[d].role \/ q.role = "mcp",
           q.pc \in {"cleanRemove", "dropRemove"} => q.seen = d,
           Held(d)
    PROVE  Good
<1>1. d \in Processes
  BY DEF Processes
<1>2. proc'[d] = q /\ proc[d].pc # "off"
  BY <1>1 DEF Base, ServingPcs, ExitPcs
<1>3. Sound(d)
  BY <1>1, <1>2 DEF Sound, ServingPcs, ExitPcs
<1>4. Probed(d)
  BY <1>1, <1>2 DEF Probed, ServingPcs, ExitPcs
<1> QED
  BY <1>1, <1>3, <1>4, OneMoves

-----------------------------------------------------------------------------
(* The clients.                                                            *)

LEMMA OffIs == ASSUME Parameters PROVE Off \in ProcType /\ Off.pc = "off" /\ Off.role = "mcp"
BY DEF Off, ProcType, Pcs, Roles, Kinds, Name, Parameters, BoundsAreNumbers

LEMMA OffType == ASSUME Base PROVE Off \in ProcType /\ Off.pc = "off" /\ Off.role = "mcp"
BY OffIs DEF Base

LEMMA FailedIs ==
    ASSUME NEW q \in ProcType
    PROVE  Failed(q) \in ProcType /\ Failed(q).pc \in {"ask", "rmPort"} /\ Failed(q).role = q.role
BY DEF Failed, ProcType, Pcs, ClientPcs, Kinds

LEMMA AskGood == ASSUME Base, NEW p \in Processes, Ask(p) PROVE Good
<1>1. proc[p] \in ProcType /\ proc[p].pc = "ask" /\ UNCHANGED <<files, shut, faults>>
  BY DEF Base, Ask
<1>2. proc[p].pc \in ClientPcs /\ shut \subseteq Daemons /\ conns \subseteq Conn
  BY <1>1 DEF ClientPcs, Base, FileTypes
<1>3. CASE Listening(port)
  <2> DEFINE q == [proc[p] EXCEPT !.pc = "wait"]
  <2>1. q \in ProcType /\ q.pc = "wait" /\ q.role = proc[p].role
    BY <1>1 DEF ProcType, Pcs, ClientPcs
  <2>2. proc' = [proc EXCEPT ![p] = q]
    BY <1>3 DEF Ask, Goto
  <2>3. conns' \subseteq Conn
    BY <1>1, <1>2, <1>3 DEF Ask, Listening, Conn, ProcType
  <2>4. "wait" \in ClientRest
    BY DEF ClientRest, ClientPcs
  <2> HIDE DEF q
  <2> QED
    BY <1>1, <1>2, <2>1, <2>2, <2>3, <2>4, ClientMoves DEF files
<1>4. CASE ~Listening(port)
  <2> DEFINE q == IF port \in Processes THEN Failed(proc[p]) ELSE NoPort(proc[p])
  <2>1. q \in ProcType /\ q.pc \in {"ask", "rmPort", "starting", "off"} /\ q.role \in {proc[p].role, "mcp"}
    BY <1>1, FailedIs, OffType DEF NoPort, ProcType, Pcs, ClientPcs, Kinds
  <2>2. proc' = [proc EXCEPT ![p] = q] /\ conns' = conns
    BY <1>4 DEF Ask
  <2>3. {"ask", "rmPort", "starting", "off"} \subseteq ClientRest
    BY DEF ClientRest, ClientPcs
  <2> HIDE DEF q
  <2> QED
    BY <1>1, <1>2, <2>1, <2>2, <2>3, ClientMoves DEF files
<1> QED
  BY <1>3, <1>4

LEMMA ResetGood == ASSUME Base, NEW p \in Processes, Reset(p) \/ Timeout(p) PROVE Good
<1>1. proc[p] \in ProcType /\ proc[p].pc = "wait" /\ UNCHANGED <<port, pid, sentinel, conns, shut>>
  BY DEF Base, Reset, Timeout, files
<1>2. /\ proc[p].pc \in ClientPcs /\ shut \subseteq Daemons /\ conns \subseteq Conn
      /\ faults' = faults \/ (faults < MaxFaults /\ faults' = faults + 1)
  BY <1>1 DEF ClientPcs, Base, FileTypes, Reset, Timeout
<1>3. PICK q \in {Failed(proc[p]), [proc[p] EXCEPT !.pc = "starting"]} : proc' = [proc EXCEPT ![p] = q]
  BY DEF Reset, Timeout, Goto
<1>4. q \in ProcType /\ q.pc \in {"ask", "rmPort", "starting"} /\ q.role = proc[p].role
  BY <1>1, FailedIs DEF ProcType, Pcs, ClientPcs
<1>5. {"ask", "rmPort", "starting"} \subseteq ClientRest
  BY DEF ClientRest, ClientPcs
<1> QED
  BY <1>1, <1>2, <1>3, <1>4, <1>5, ClientMoves

LEMMA RemoveGood ==
    ASSUME Base, NEW p \in Processes, RemovePort(p) \/ RemovePid(p) \/ RemoveWarm(p) PROVE Good
<1>1. /\ proc[p] \in ProcType /\ proc[p].pc \in {"rmPort", "rmPid", "rmWarm"}
      /\ UNCHANGED <<conns, shut, faults>>
      /\ port' \in {port, Nobody} /\ pid' \in {pid, Nobody} /\ sentinel' \in {sentinel, Nobody}
  BY DEF Base, RemovePort, RemovePid, RemoveWarm
<1>2. proc[p].pc \in ClientPcs /\ shut \subseteq Daemons /\ conns \subseteq Conn
  BY <1>1 DEF ClientPcs, Base, FileTypes
<1>3. PICK q \in {[proc[p] EXCEPT !.pc = "rmPid"], [proc[p] EXCEPT !.pc = "starting"], Off} :
         proc' = [proc EXCEPT ![p] = q]
  BY DEF RemovePort, RemovePid, RemoveWarm, Goto
<1>4. q \in ProcType /\ q.pc \in {"rmPid", "starting", "off"} /\ q.role \in {proc[p].role, "mcp"}
  BY <1>1, OffType DEF ProcType, Pcs, ClientPcs
<1>5. {"rmPid", "starting", "off"} \subseteq ClientRest
  BY DEF ClientRest, ClientPcs
<1> QED
  BY <1>1, <1>2, <1>3, <1>4, <1>5, ClientMoves
\* A server that found no daemon goes on to write the pid file
LEMMA TruncGood ==
    ASSUME Base, NEW p \in Processes, proc[p].pc \in {"starting", "rmDead"}, proc[p].role = "serve",
           proc' = [proc EXCEPT ![p] = [proc[p] EXCEPT !.pc = "truncPid"]],
           proc[p].pc = "rmDead" \/ port # Nobody \/ pid = Nobody,
           UNCHANGED <<port, sentinel, conns, shut, faults>>, pid' \in {pid, Nobody}
    PROVE  Good
<1> DEFINE q == [proc[p] EXCEPT !.pc = "truncPid"]
<1>1. q \in ProcType /\ q.pc = "truncPid" /\ q.role = "serve"
  BY DEF Base, ProcType, Pcs
<1>2. proc' = [proc EXCEPT ![p] = q]
  OBVIOUS
<1> HIDE DEF q
<1>3. proc'[p] = q /\ proc[p].pc # "off" /\ p \in Daemons
  BY <1>2 DEF Base, ProcInv
<1>4. Sound(p)
  BY <1>1, <1>3 DEF Sound, ServingPcs, ExitPcs
<1>5. Held(p)
  <2>1. faults = 0 /\ sentinel = p => proc[p].pc \in SentinelOwners
    BY <1>3 DEF Base, FilesInv, Parameters, NamesDistinct
  <2> QED
    BY <2>1 DEF Held, PortOwners, PidOwners, SentinelOwners
<1>6. Probed(p)
  BY <1>1, <1>3 DEF Probed
<1> QED
  BY <1>1, <1>2, <1>4, <1>5, <1>6, OneMoves DEF Base, FileTypes

LEMMA NotStartingIs ==
    ASSUME NEW q \in ProcType
    PROVE  /\ NotStarting(q) \in ProcType /\ NotStarting(q).role = q.role
           /\ IF q.role = "serve" THEN NotStarting(q) = [q EXCEPT !.pc = "truncPid"]
              ELSE NotStarting(q).pc = "spawn"
BY DEF NotStarting, ProcType, Pcs, ClientPcs

LEMMA StartingGood == ASSUME Base, NEW p \in Processes, CheckStarting(p) \/ RemoveDead(p) PROVE Good
<1>1. /\ proc[p] \in ProcType /\ proc[p].pc \in {"starting", "rmDead"} /\ proc[p].pc \in ClientPcs
      /\ UNCHANGED <<port, sentinel, conns, shut, faults>> /\ pid' \in {pid, Nobody}
      /\ shut \subseteq Daemons /\ conns \subseteq Conn
  BY DEF Base, FileTypes, CheckStarting, RemoveDead, ClientPcs, files
<1>2. {"spawn", "off", "rmDead"} \subseteq ClientRest
  BY DEF ClientRest, ClientPcs
<1>3. CASE /\ proc' = [proc EXCEPT ![p] = NotStarting(proc[p])]
           /\ proc[p].pc = "rmDead" \/ port # Nobody \/ pid = Nobody
  <2>1. CASE proc[p].role = "serve"
    BY <1>1, <1>3, <2>1, NotStartingIs, TruncGood
  <2>2. CASE proc[p].role # "serve"
    <3> DEFINE q == NotStarting(proc[p])
    <3>1. q \in ProcType /\ q.pc = "spawn" /\ q.role = proc[p].role
      BY <1>1, <2>2, NotStartingIs
    <3> HIDE DEF q
    <3>2. proc' = [proc EXCEPT ![p] = q]
      BY <1>3 DEF q
    <3> QED
      BY <1>1, <1>2, <3>1, <3>2, ClientMoves
  <2> QED
    BY <2>1, <2>2
<1>4. CASE proc' = [proc EXCEPT ![p] = Off]
  BY <1>1, <1>2, <1>4, OffType, ClientMoves
<1>5. CASE /\ proc' = [proc EXCEPT ![p] = [proc[p] EXCEPT !.pc = "rmDead"]]
           /\ port = Nobody /\ ~Alive(pid) /\ UNCHANGED files
  <2> DEFINE q == [proc[p] EXCEPT !.pc = "rmDead"]
  <2>1. q \in ProcType /\ q.pc = "rmDead" /\ q.role = proc[p].role
    BY <1>1 DEF ProcType, Pcs, ClientPcs
  <2>2. proc' = [proc EXCEPT ![p] = q]
    BY <1>5
  <2> HIDE DEF q
  <2>3. ~Registered'
    <3>1. \A d \in Daemons : d \in {port, pid} => proc[d].pc = "off" /\ d \in Processes
      BY <1>5 DEF Base, Parameters, NamesDistinct, Alive, Processes
    <3>2. \A d \in Daemons : d \in {port, pid} => proc'[d].pc = "off"
      BY <1>1, <2>2, <3>1 DEF Base
    <3> QED
      BY <1>5, <3>2 DEF Registered, Serving, ServingPcs, files
  <2> QED
    BY <1>1, <1>2, <2>1, <2>2, <2>3, ClientMoves
<1>6. \/ /\ proc' = [proc EXCEPT ![p] = NotStarting(proc[p])]
         /\ proc[p].pc = "rmDead" \/ port # Nobody \/ pid = Nobody
      \/ proc' = [proc EXCEPT ![p] = Off]
      \/ /\ proc' = [proc EXCEPT ![p] = [proc[p] EXCEPT !.pc = "rmDead"]]
         /\ port = Nobody /\ ~Alive(pid) /\ UNCHANGED files
  BY DEF CheckStarting, RemoveDead
<1> QED
  BY <1>3, <1>4, <1>5, <1>6

LEMMA WarmGood == ASSUME Base, NEW p \in Processes, CheckWarm(p) PROVE Good
<1>1. /\ proc[p] \in ProcType /\ proc[p].pc = "warm" /\ proc[p].pc \in ClientPcs
      /\ UNCHANGED <<port, pid, sentinel, conns, shut, faults>>
      /\ shut \subseteq Daemons /\ conns \subseteq Conn /\ sentinel \in Processes \cup {Nobody}
  BY DEF Base, FileTypes, CheckWarm, ClientPcs, files
<1>2. CASE proc' = [proc EXCEPT ![p] = Off]
  <2>1. "off" \in ClientRest
    BY DEF ClientRest
  <2> QED
    BY <1>1, <1>2, <2>1, OffType, ClientMoves
<1>3. CASE /\ sentinel # Nobody /\ ~Alive(sentinel)
           /\ proc' = [proc EXCEPT ![p] = [proc[p] EXCEPT !.pc = "rmWarm", !.seen = sentinel]]
  <2> DEFINE q == [proc[p] EXCEPT !.pc = "rmWarm", !.seen = sentinel]
  <2>1. q \in ProcType /\ q.pc = "rmWarm" /\ q.role = proc[p].role /\ q.seen = sentinel
    BY <1>1 DEF ProcType, Pcs, ClientPcs, Name
  <2>2. proc' = [proc EXCEPT ![p] = q]
    BY <1>3
  <2> HIDE DEF q
  <2>3. proc'[p] = q /\ sentinel \in Processes /\ sentinel # p /\ proc'[sentinel].pc = "off"
    BY <1>1, <1>3, <2>2 DEF Base, Alive
  <2>4. Sound(p)
    BY <1>1, <2>1, <2>3 DEF Sound, ServingPcs, ExitPcs, Base, ProcInv
  <2>5. Held(p)
    BY <1>1, <2>3 DEF Held, PortOwners, PidOwners
  <2>6. Probed(p)
    BY <2>1, <2>3 DEF Probed
  <2> QED
    BY <1>1, <2>1, <2>2, <2>4, <2>5, <2>6, OneMoves
<1> QED
  BY <1>2, <1>3 DEF CheckWarm

-----------------------------------------------------------------------------
(* Births.                                                                 *)

LEMMA BornIs ==
    ASSUME Base, NEW role \in Roles
    PROVE  /\ Born(role) \in ProcType /\ Born(role).role = role
           /\ Born(role).pc \in {"open", "warm", "ask"} /\ (Born(role).pc = "open" => role = "watch")
BY OffType DEF Born, ProcType, Pcs, ServingPcs, ClientPcs, Roles, Kinds

LEMMA StartGood == ASSUME Base, NEW p \in Processes, Start(p) PROVE Good
<1>1. PICK role \in Roles : /\ role \in {"serve", "watch"} => p \in Daemons
                            /\ Birth(p, role, proc)
  BY DEF Start, Roles
<1>2. /\ Unused(p) /\ proc' = [proc EXCEPT ![p] = Born(role)]
      /\ UNCHANGED <<port, pid, sentinel, conns, shut, faults>>
  BY <1>1 DEF Birth, files
<1> DEFINE q == Born(role)
<1>3. /\ q \in ProcType /\ q.role = role
      /\ q.pc \in {"open", "warm", "ask"} /\ (q.pc = "open" => role = "watch")
  BY BornIs
<1>4. proc' = [proc EXCEPT ![p] = q]
  BY <1>2
<1> HIDE DEF q
<1>5. proc'[p] = q /\ proc[p].pc = "off" /\ sentinel # p
  BY <1>2, <1>4 DEF Base, Unused
<1>6. Sound(p) /\ Held(p) /\ Probed(p)
  BY <1>1, <1>2, <1>3, <1>5 DEF Sound, Held, Probed, ServingPcs, ExitPcs, PortOwners, PidOwners
<1> QED
  BY <1>2, <1>3, <1>4, <1>6, OneMoves DEF Base, FileTypes

LEMMA SpawnGood == ASSUME Base, NEW p \in Processes, Spawn(p) PROVE Good
<1>1. /\ proc[p].pc = "spawn" /\ UNCHANGED <<port, pid, sentinel, conns, shut, faults>>
      /\ shut \subseteq Daemons /\ conns \subseteq Conn
  BY DEF Base, FileTypes, Spawn, Birth, files
<1>2. CASE proc' = [proc EXCEPT ![p] = Off]
  <2>1. "off" \in ClientRest /\ "spawn" \in ClientPcs
    BY DEF ClientRest, ClientPcs
  <2> QED
    BY <1>1, <1>2, <2>1, OffType, ClientMoves
<1>3. CASE \E d \in Daemons : Birth(d, "serve", [proc EXCEPT ![p] = Off])
  <2>1. PICK d \in Daemons : Unused(d) /\ proc' = [proc EXCEPT ![p] = Off, ![d] = Born("serve")]
    BY <1>3 DEF Birth
  <2> DEFINE q == Born("serve")
  <2>2. q \in ProcType /\ q.role = "serve" /\ q.pc \in {"warm", "ask"}
    BY BornIs DEF Roles
  <2>3. proc' = [proc EXCEPT ![p] = Off, ![d] = q]
    BY <2>1
  <2> HIDE DEF q
  <2>4. d \in Processes /\ proc[d].pc = "off" /\ d # p /\ sentinel # d
    BY <1>1, <2>1 DEF Unused, Processes
  <2>5. /\ proc'[p] = Off /\ proc'[d] = q /\ \A r \in Processes \ {p, d} : proc'[r] = proc[r]
        /\ proc' \in [Processes -> ProcType]
    BY <2>2, <2>3, <2>4, OffType DEF Base
  <2>6. Sound(p) /\ Held(p) /\ Probed(p)
    <3>1. faults = 0 /\ sentinel = p => proc[p].pc \in SentinelOwners
      BY DEF Base, FilesInv, Parameters, NamesDistinct
    <3> QED
      BY <1>1, <2>5, <3>1, OffType
         DEF Sound, Held, Probed, ServingPcs, ExitPcs, PortOwners, PidOwners, SentinelOwners
  <2>7. Sound(d) /\ Held(d) /\ Probed(d)
    BY <1>1, <2>1, <2>2, <2>4, <2>5 DEF Sound, Held, Probed, ServingPcs, ExitPcs, PortOwners,
                                        PidOwners
  <2>8. Filed /\ FileTypes'
    BY <1>1 DEF Filed, Base, FileTypes
  <2> QED
    BY <1>1, <2>5, <2>6, <2>7, <2>8 DEF Good, Moved
<1> QED
  BY <1>2, <1>3 DEF Spawn
-----------------------------------------------------------------------------
(* The files of a daemon.                                                  *)

\* A daemon writes one of the files
LEMMA WriterMoves ==
    ASSUME Base, NEW d \in Daemons, NEW q \in ProcType, proc' = [proc EXCEPT ![d] = q],
           UNCHANGED <<conns, shut, faults>>,
           port' \in Name, pid' \in Name, sentinel' \in Processes \cup {Nobody}, Filed,
           proc[d].pc \in {"truncPid", "writePid", "open", "bind", "writeSentinel"},
           q.pc \in {"writePid", "open", "bind", "writeSentinel", "loop"}, q.role = proc[d].role,
           q.pc = "writePid" => q.role = "serve", Held(d)
    PROVE  Good
<1>1. d \in Processes
  BY DEF Processes
<1>2. /\ proc' \in [Processes -> ProcType] /\ proc'[d] = q
      /\ \A r \in Processes \ {d} : proc'[r] = proc[r]
  BY <1>1 DEF Base
<1>3. Sound(d)
  BY <1>1, <1>2 DEF Sound, Base, ProcInv, ServingPcs, ExitPcs
<1>4. Probed(d)
  BY <1>1, <1>2 DEF Probed
<1>5. FileTypes'
  BY DEF Base, FileTypes
<1> QED
  BY <1>1, <1>2, <1>3, <1>4, <1>5 DEF Good, Moved

\* Without a fault the sentinel names a daemon only while that will remove it
LEMMA Owner ==
    ASSUME Base, NEW d \in Processes
    PROVE  faults = 0 /\ sentinel = d => d \in Daemons /\ proc[d].pc \in SentinelOwners
BY DEF Base, FilesInv, Parameters, NamesDistinct

LEMMA PidFileGood == ASSUME Base, NEW d \in Daemons, TruncatePid(d) \/ WritePid(d) PROVE Good
<1>1. /\ d \in Processes /\ proc[d] \in ProcType /\ proc[d].pc \in {"truncPid", "writePid"}
      /\ proc[d].role = "serve" /\ UNCHANGED <<port, sentinel, conns, shut, faults>>
      /\ pid' \in {Nobody, Torn, d}
  BY DEF Processes, Base, ProcInv, TruncatePid, WritePid
<1>2. PICK pc \in {"writePid", "open"} : proc' = [proc EXCEPT ![d].pc = pc]
  BY DEF TruncatePid, WritePid, Goto
<1> DEFINE q == [proc[d] EXCEPT !.pc = pc]
<1>3. q \in ProcType /\ q.pc = pc /\ q.role = "serve" /\ proc' = [proc EXCEPT ![d] = q]
  BY <1>1, <1>2 DEF ProcType, Pcs, ServingPcs
<1> HIDE DEF q
<1>4. proc'[d] = q
  BY <1>1, <1>3 DEF Base
<1>5. Held(d)
  BY <1>1, <1>3, <1>4, Owner DEF Held, PortOwners, PidOwners, SentinelOwners
<1>6. Filed
  BY <1>1, <1>3, <1>4 DEF Filed, PidOwners
<1>7. port' \in Name /\ pid' \in Name /\ sentinel' \in Processes \cup {Nobody}
  BY <1>1 DEF Base, FileTypes, Name
<1> QED
  BY <1>1, <1>3, <1>5, <1>6, <1>7, WriterMoves

LEMMA PortFileGood == ASSUME Base, NEW d \in Daemons, Bind(d) \/ WritePort(d) PROVE Good
<1>1. /\ d \in Processes /\ proc[d] \in ProcType /\ proc[d].pc \in {"open", "bind"}
      /\ UNCHANGED <<pid, sentinel, conns, shut, faults>> /\ port' \in {Nobody, Torn, d}
  BY DEF Processes, Base, Bind, WritePort
<1>2. PICK pc \in {"bind", "writeSentinel"} : proc' = [proc EXCEPT ![d].pc = pc]
  BY DEF Bind, WritePort, Goto
<1> DEFINE q == [proc[d] EXCEPT !.pc = pc]
<1>3. q \in ProcType /\ q.pc = pc /\ q.role = proc[d].role /\ proc' = [proc EXCEPT ![d] = q]
  BY <1>1, <1>2 DEF ProcType, Pcs, ServingPcs
<1> HIDE DEF q
<1>4. proc'[d] = q
  BY <1>1, <1>3 DEF Base
<1>5. Held(d)
  BY <1>1, <1>3, <1>4, Owner DEF Held, PortOwners, PidOwners, SentinelOwners
<1>6. Filed
  BY <1>1, <1>3, <1>4 DEF Filed, PortOwners
<1>7. port' \in Name /\ pid' \in Name /\ sentinel' \in Processes \cup {Nobody}
  BY <1>1 DEF Base, FileTypes, Name
<1> QED
  BY <1>1, <1>3, <1>5, <1>6, <1>7, WriterMoves

LEMMA SentinelGood == ASSUME Base, NEW d \in Daemons, WriteSentinel(d) PROVE Good
<1>1. /\ d \in Processes /\ proc[d] \in ProcType /\ proc[d].pc = "writeSentinel"
      /\ UNCHANGED <<port, pid, conns, shut, faults>> /\ sentinel' = d
  BY DEF Processes, Base, WriteSentinel
<1> DEFINE q == [proc[d] EXCEPT !.pc = "loop"]
<1>2. q \in ProcType /\ q.pc = "loop" /\ q.role = proc[d].role /\ proc' = [proc EXCEPT ![d] = q]
  BY <1>1 DEF ProcType, Pcs, ServingPcs, WriteSentinel, Goto
<1> HIDE DEF q
<1>3. proc'[d] = q
  BY <1>1, <1>2 DEF Base
<1>4. Held(d)
  BY <1>1, <1>2, <1>3 DEF Held, PortOwners, PidOwners, SentinelOwners
<1>5. Filed
  BY <1>1, <1>2, <1>3 DEF Filed, SentinelOwners
<1>6. port' \in Name /\ pid' \in Name /\ sentinel' \in Processes \cup {Nobody}
  BY <1>1 DEF Base, FileTypes
<1> QED
  BY <1>1, <1>2, <1>4, <1>5, <1>6, WriterMoves

-----------------------------------------------------------------------------
(* The loop, and the way out.                                              *)

LEMMA ConnsOfDaemon == ASSUME Base, NEW d \in Daemons
                       PROVE  /\ d \in Processes /\ proc[d] \in ProcType
                              /\ conns \subseteq Conn /\ shut \subseteq Daemons
                              /\ faults \in 0 .. MaxFaults /\ MaxFaults \in Nat
BY DEF Base, FileTypes, Processes, Parameters, BoundsAreNumbers

LEMMA AdvanceType ==
    ASSUME NEW c \in conns, conns \subseteq Conn,
           NEW stage \in {"queued", "held", "served", "dispatched"}, Advance(c, stage)
    PROVE  conns' \subseteq Conn
BY DEF Advance, Conn

LEMMA OpenFailsGood == ASSUME Base, NEW d \in Processes, LoadFails(d) \/ Kill(d) PROVE Good
<1>1. /\ proc[d].pc # "off" /\ proc' = [proc EXCEPT ![d] = Off]
      /\ UNCHANGED <<port, pid, sentinel>> /\ conns' \subseteq conns /\ shut' \subseteq shut
      /\ faults < MaxFaults /\ faults' = faults + 1
  BY DEF LoadFails, Kill, Alive, Leave, files
<1>2. proc'[d] = Off /\ Off \in ProcType /\ Off.pc = "off" /\ Off.role = "mcp"
  BY <1>1, OffType DEF Base
<1>3. faults' # 0 /\ conns \subseteq Conn /\ shut \subseteq Daemons
  BY <1>1 DEF Base, FileTypes, Parameters, BoundsAreNumbers
<1>4. Sound(d) /\ Held(d) /\ Probed(d)
  BY <1>1, <1>2, <1>3 DEF Sound, Held, Probed, ServingPcs, ExitPcs
<1> QED
  BY <1>1, <1>2, <1>3, <1>4, OneMoves

Up == {"loop", "full", "drain"}

\* In the loop a daemon owns its files as before
LEMMA UpMoves ==
    ASSUME Base, NEW d \in Daemons, NEW q \in ProcType, proc' = [proc EXCEPT ![d] = q],
           conns' \subseteq Conn, UNCHANGED <<files, shut>>,
           faults' = faults \/ (faults < MaxFaults /\ faults' = faults + 1),
           proc[d].pc \in Up, q.pc \in Up \cup {"clean"}, q.role = proc[d].role
    PROVE  Good
<1>1. d \in Processes /\ shut \subseteq Daemons /\ UNCHANGED <<port, pid, sentinel, shut>>
  BY ConnsOfDaemon DEF files
<1>2. proc'[d] = q
  BY <1>1 DEF Base
<1>3. Held(d)
  BY <1>1, <1>2 DEF Held, Up, PortOwners, PidOwners, SentinelOwners
<1>4. Up \cup {"clean"} \subseteq ServingPcs \cup ExitPcs
  BY DEF Up, ServingPcs, ExitPcs
<1> QED
  BY <1>1, <1>3, <1>4, ServerMoves DEF Up

LEMMA LoopGood ==
    ASSUME Base, NEW d \in Daemons,
           \/ LoopEnds(d) \/ MemoryExceeded(d) \/ FoundNone(d) \/ Drained(d) \/ DrainDeadline(d)
           \/ \E c \in conns : Accept(d, c) \/ Admit(d, c)
    PROVE  Good
<1>1. d \in Processes /\ proc[d] \in ProcType /\ conns \subseteq Conn
  BY ConnsOfDaemon
<1>2. /\ proc[d].pc \in Up /\ UNCHANGED <<files, shut>>
      /\ faults' = faults \/ (faults < MaxFaults /\ faults' = faults + 1)
  BY DEF Up, LoopEnds, MemoryExceeded, FoundNone, Drained, DrainDeadline, Accept,
         Admit, LeaveLoop
<1>3. conns' \subseteq Conn
  <2>1. ASSUME NEW c \in conns, Accept(d, c) PROVE conns' \subseteq Conn
    BY <1>1, <2>1, AdvanceType DEF Accept
  <2>2. ASSUME NEW c \in conns, Admit(d, c) PROVE conns' \subseteq Conn
    BY <1>1, <2>2, AdvanceType DEF Admit
  <2> QED
    BY <1>1, <2>1, <2>2 DEF LoopEnds, MemoryExceeded, FoundNone, Drained, DrainDeadline
<1>4. PICK pc \in Up \cup {"clean"}, calm \in 0 .. IdleTicks :
         proc' = [proc EXCEPT ![d].pc = pc, ![d].calm = calm]
  <2>1. proc[d].calm \in 0 .. IdleTicks /\ IdleTicks \in Nat
    BY <1>1 DEF ProcType, Base, Parameters, BoundsAreNumbers
  <2>2. \A pc : [proc EXCEPT ![d].pc = pc] = [proc EXCEPT ![d].pc = pc, ![d].calm = proc[d].calm]
    BY <1>1 DEF Base, ProcType
  <2>3. CASE LoopEnds(d) \/ MemoryExceeded(d)
    BY <2>1, <2>3 DEF LoopEnds, MemoryExceeded, LeaveLoop, Up
  <2>4. CASE FoundNone(d)
    <3>1. proc[d].calm = IdleTicks => InFlight(d) # {}
      BY <2>4 DEF FoundNone, Over
    <3> DEFINE calm == IF InFlight(d) = {} THEN proc[d].calm + 1 ELSE 0
    <3>2. calm \in 0 .. IdleTicks
      BY <2>1, <3>1
    <3>3. proc' = [proc EXCEPT ![d].calm = calm] /\ proc[d].pc = "loop"
      BY <2>4 DEF FoundNone
    <3> HIDE DEF calm
    <3>4. proc' = [proc EXCEPT ![d].pc = "loop", ![d].calm = calm]
      BY <1>1, <3>3 DEF Base, ProcType
    <3> QED
      BY <3>2, <3>4 DEF Up
  <2>5. CASE Drained(d) \/ DrainDeadline(d)
    BY <2>1, <2>2, <2>5 DEF Drained, DrainDeadline, Goto
  <2>6. ASSUME NEW c \in conns, Accept(d, c)
        PROVE  \E pc \in Up, calm \in 0 .. IdleTicks : proc' = [proc EXCEPT ![d].pc = pc, ![d].calm = calm]
    <3>1. CASE Room(d)
      <4>1. proc' = [proc EXCEPT ![d].pc = "loop", ![d].calm = 0]
        BY <2>6, <3>1 DEF Accept
      <4>2. 0 \in 0 .. IdleTicks
        BY <2>1
      <4> QED
        BY <4>1, <4>2, Zenon DEF Up
    <3>2. CASE ~Room(d)
      <4>1. proc' = [proc EXCEPT ![d].pc = "full", ![d].calm = 0]
        BY <2>6, <3>2 DEF Accept
      <4>2. 0 \in 0 .. IdleTicks
        BY <2>1
      <4> QED
        BY <4>1, <4>2, Zenon DEF Up
    <3> QED
      BY <3>1, <3>2
  <2>7. ASSUME NEW c \in conns, Admit(d, c)
        PROVE  \E pc \in Up, calm \in 0 .. IdleTicks : proc' = [proc EXCEPT ![d].pc = pc, ![d].calm = calm]
    BY <2>1, <2>2, <2>7 DEF Admit, Up, Goto
  <2> QED
    BY <2>3, <2>4, <2>5, <2>6, <2>7
<1> DEFINE q == [proc[d] EXCEPT !.pc = pc, !.calm = calm]
<1>5. q \in ProcType /\ q.pc = pc /\ q.role = proc[d].role /\ proc' = [proc EXCEPT ![d] = q]
  <2>1. Up \cup {"clean"} \subseteq Pcs
    BY DEF Up, Pcs, ServingPcs, ExitPcs
  <2>2. proc' = [proc EXCEPT ![d] = q]
    BY <1>1, <1>4 DEF Base, ProcType
  <2> QED
    BY <1>1, <1>4, <2>1, <2>2 DEF ProcType
<1> HIDE DEF q
<1> QED
  BY <1>2, <1>3, <1>4, <1>5, UpMoves
LEMMA LeaveIs ==
    ASSUME Base, NEW d \in Daemons, Leave(d)
    PROVE  proc' = [proc EXCEPT ![d] = Off] /\ conns' \subseteq Conn /\ shut' \subseteq Daemons
BY ConnsOfDaemon DEF Leave

LEMMA CleanUpGood == ASSUME Base, NEW d \in Daemons, CleanUp(d) PROVE Good
<1>1. /\ d \in Processes /\ proc[d] \in ProcType /\ conns \subseteq Conn /\ shut \subseteq Daemons
      /\ proc[d].pc \in {"clean", "drop"} /\ port' = Nobody /\ UNCHANGED <<pid, sentinel, faults>>
  BY ConnsOfDaemon DEF CleanUp
<1>2. proc[d].pc \in ServingPcs \cup ExitPcs
  BY <1>1 DEF ExitPcs
<1>3. faults = 0 /\ sentinel = d => proc[d].pc = "clean"
  BY <1>1, Owner DEF SentinelOwners
<1>4. CASE sentinel = d
  <2> DEFINE q == [proc[d] EXCEPT !.pc = IF @ = "clean" THEN "cleanRemove" ELSE "dropRemove", !.seen = d]
  <2>1. /\ q \in ProcType /\ q.role = proc[d].role /\ q.seen = d
        /\ q.pc = IF proc[d].pc = "clean" THEN "cleanRemove" ELSE "dropRemove"
    BY <1>1 DEF ProcType, Pcs, ExitPcs, Name
  <2>2. proc' = [proc EXCEPT ![d] = q] /\ UNCHANGED <<conns, shut>>
    BY <1>1, <1>4 DEF CleanUp, FoundOurs, Base, ProcType
  <2> HIDE DEF q
  <2>3. proc'[d] = q
    BY <1>1, <2>2 DEF Base
  <2>4. Held(d)
    BY <1>1, <1>3, <2>1, <2>3 DEF Held, PidOwners, SentinelOwners
  <2>5. q.pc \in ServingPcs \cup ExitPcs \cup {"off"}
    BY <2>1 DEF ExitPcs
  <2> QED
    BY <1>1, <1>2, <2>1, <2>2, <2>4, <2>5, ServerMoves
<1>5. CASE sentinel # d /\ proc[d].pc = "clean"
  <2> DEFINE q == [proc[d] EXCEPT !.pc = AfterClean(d)]
  <2>1. /\ q \in ProcType /\ q.role = proc[d].role
        /\ q.pc = IF proc[d].role = "serve" THEN "exitPid" ELSE "drop"
    BY <1>1 DEF ProcType, Pcs, ExitPcs, AfterClean
  <2>2. proc' = [proc EXCEPT ![d] = q] /\ UNCHANGED <<conns, shut>>
    BY <1>1, <1>5 DEF CleanUp, NotOurs, Goto, Base, ProcType
  <2> HIDE DEF q
  <2>3. proc'[d] = q
    BY <1>1, <2>2 DEF Base
  <2>4. Held(d)
    BY <1>1, <1>5, <2>1, <2>3 DEF Held, PidOwners
  <2>5. q.pc \in ServingPcs \cup ExitPcs \cup {"off"} /\ q.pc \notin {"off", "cleanRemove", "dropRemove"}
    BY <2>1 DEF ExitPcs
  <2> QED
    BY <1>1, <1>2, <2>1, <2>2, <2>4, <2>5, ServerMoves
<1>6. CASE sentinel # d /\ proc[d].pc = "drop"
  <2>1. Leave(d)
    BY <1>6 DEF CleanUp, NotOurs
  <2>2. proc' = [proc EXCEPT ![d] = Off] /\ conns' \subseteq Conn /\ shut' \subseteq Daemons
    BY <2>1, LeaveIs
  <2>3. Held(d)
    BY <1>1, <1>6 DEF Held, PidOwners
  <2> QED
    BY <1>1, <1>2, <2>2, <2>3, OffType, ServerMoves
<1> QED
  BY <1>1, <1>4, <1>5, <1>6

LEMMA RemoveSentinelGood == ASSUME Base, NEW d \in Daemons, RemoveSentinel(d) PROVE Good
<1>1. /\ d \in Processes /\ proc[d] \in ProcType /\ conns \subseteq Conn /\ shut \subseteq Daemons
      /\ proc[d].pc \in {"cleanRemove", "dropRemove"} /\ sentinel' = Nobody /\ Nobody # d
      /\ UNCHANGED <<port, pid, faults>>
  BY ConnsOfDaemon DEF RemoveSentinel, Base, Parameters, NamesDistinct
<1>2. proc[d].pc \in ServingPcs \cup ExitPcs
  BY <1>1 DEF ExitPcs
<1>3. CASE proc[d].pc = "cleanRemove"
  <2> DEFINE q == [proc[d] EXCEPT !.pc = AfterClean(d), !.seen = Nobody]
  <2>1. /\ q \in ProcType /\ q.role = proc[d].role
        /\ q.pc = IF proc[d].role = "serve" THEN "exitPid" ELSE "drop"
    BY <1>1 DEF ProcType, Pcs, ExitPcs, AfterClean, Name
  <2>2. proc' = [proc EXCEPT ![d] = q] /\ UNCHANGED <<conns, shut>>
    BY <1>1, <1>3 DEF RemoveSentinel, Base, ProcType
  <2> HIDE DEF q
  <2>3. proc'[d] = q
    BY <1>1, <2>2 DEF Base
  <2>4. Held(d)
    BY <1>1, <1>3, <2>1, <2>3 DEF Held, PortOwners, PidOwners
  <2>5. q.pc \in ServingPcs \cup ExitPcs \cup {"off"} /\ q.pc \notin {"off", "cleanRemove", "dropRemove"}
    BY <2>1 DEF ExitPcs
  <2> QED
    BY <1>1, <1>2, <2>1, <2>2, <2>4, <2>5, ServerMoves
<1>4. CASE proc[d].pc = "dropRemove"
  <2>1. Leave(d)
    BY <1>4 DEF RemoveSentinel
  <2>2. proc' = [proc EXCEPT ![d] = Off] /\ conns' \subseteq Conn /\ shut' \subseteq Daemons
    BY <2>1, LeaveIs
  <2>3. Held(d)
    BY <1>1, <1>4 DEF Held, PortOwners, PidOwners
  <2> QED
    BY <1>1, <1>2, <2>2, <2>3, OffType, ServerMoves
<1> QED
  BY <1>1, <1>3, <1>4

LEMMA ExitPidGood == ASSUME Base, NEW d \in Daemons, ExitPid(d) PROVE Good
<1>1. /\ d \in Processes /\ proc[d] \in ProcType /\ conns \subseteq Conn /\ shut \subseteq Daemons
      /\ proc[d].pc = "exitPid" /\ pid' = Nobody /\ UNCHANGED <<port, sentinel, conns, shut, faults>>
  BY ConnsOfDaemon DEF ExitPid
<1> DEFINE q == [proc[d] EXCEPT !.pc = "drop"]
<1>2. q \in ProcType /\ q.pc = "drop" /\ q.role = proc[d].role /\ proc' = [proc EXCEPT ![d] = q]
  BY <1>1 DEF ProcType, Pcs, ExitPcs, ExitPid, Goto
<1> HIDE DEF q
<1>3. proc'[d] = q
  BY <1>1, <1>2 DEF Base
<1>4. Held(d)
  BY <1>1, <1>2, <1>3, Owner DEF Held, PortOwners, SentinelOwners
<1>5. {"exitPid", "drop"} \subseteq ServingPcs \cup ExitPcs
  BY DEF ExitPcs
<1> QED
  BY <1>1, <1>2, <1>4, <1>5, ServerMoves

-----------------------------------------------------------------------------
(* The threads of a daemon.                                                *)

LEMMA NobodyMoves ==
    ASSUME Base, UNCHANGED <<files, proc, faults>>, conns' \subseteq Conn, shut' \subseteq Daemons
    PROVE  Good
BY DEF Base, Good, Moved, Filed, FileTypes, files

LEMMA HandlerGood == ASSUME Base, NEW c \in conns, Handler(c) PROVE Good
<1>1. c.to \in Daemons /\ c.by \in Processes /\ conns \subseteq Conn /\ shut \subseteq Daemons
  BY DEF Base, FileTypes, Conn
<1>2. CASE Dispatch(c.to, c)
  <2>1. conns' \subseteq Conn
    BY <1>1, <1>2, AdvanceType DEF Dispatch
  <2> QED
    BY <1>1, <1>2, <2>1, NobodyMoves DEF Dispatch
<1>3. CASE Answer(c.to, c)
  <2>1. UNCHANGED <<files, shut, faults>> /\ conns' \subseteq Conn
    BY <1>1, <1>3 DEF Answer
  <2>2. CASE Waiting(c.by, c)
    <3>1. proc[c.by] \in ProcType /\ proc[c.by].pc = "wait" /\ proc[c.by].pc \in ClientPcs
      BY <1>1, <2>2 DEF Waiting, Base, ClientPcs
    <3>2. PICK q \in {[proc[c.by] EXCEPT !.pc = "rmPort"], Off} : proc' = [proc EXCEPT ![c.by] = q]
      BY <1>3, <2>2 DEF Answer, Answered
    <3>3. q \in ProcType /\ q.pc \in {"rmPort", "off"} /\ q.role \in {proc[c.by].role, "mcp"}
      BY <3>1, <3>2, OffType DEF ProcType, Pcs, ClientPcs
    <3>4. {"rmPort", "off"} \subseteq ClientRest
      BY DEF ClientRest, ClientPcs
    <3> QED
      BY <1>1, <2>1, <3>1, <3>2, <3>3, <3>4, ClientMoves DEF files
  <2>3. CASE ~Waiting(c.by, c)
    BY <1>1, <1>3, <2>1, <2>3, NobodyMoves DEF Answer
  <2> QED
    BY <2>2, <2>3
<1> QED
  BY <1>2, <1>3 DEF Handler

-----------------------------------------------------------------------------
LEMMA StepGood == ASSUME Base, Step PROVE Good
<1>1. ASSUME NEW p \in Processes, Start(p) \/ Client(p) \/ Timeout(p) PROVE Good
  BY <1>1, StartGood, AskGood, ResetGood, RemoveGood, StartingGood, WarmGood, SpawnGood DEF Client
<1>2. ASSUME NEW d \in Daemons, Server(d) \/ LoadFails(d) \/ MemoryExceeded(d) \/ Kill(d) PROVE Good
  <2>1. d \in Processes
    BY DEF Processes
  <2>2. CASE TruncatePid(d) \/ WritePid(d) \/ Bind(d) \/ WritePort(d) \/ WriteSentinel(d)
    BY <2>2, PidFileGood, PortFileGood, SentinelGood
  <2>3. CASE \/ LoopEnds(d) \/ MemoryExceeded(d) \/ FoundNone(d) \/ Drained(d) \/ DrainDeadline(d)
             \/ \E c \in conns : Accept(d, c) \/ Admit(d, c)
    BY <2>3, LoopGood
  <2>4. CASE CleanUp(d) \/ RemoveSentinel(d) \/ ExitPid(d) \/ LoadFails(d) \/ Kill(d)
    BY <2>1, <2>4, CleanUpGood, RemoveSentinelGood, ExitPidGood, OpenFailsGood
  <2> QED
    BY <1>2, <2>2, <2>3, <2>4 DEF Server
<1>3. ASSUME NEW c \in conns, Handler(c) PROVE Good
  BY <1>3, HandlerGood
<1> QED
  BY <1>1, <1>2, <1>3 DEF Step

LEMMA ExcuseStep == ASSUME DaemonInv, Good, Excuses PROVE ExcuseInv' /\ excused' \subseteq Daemons
<1>1. excused' \subseteq Daemons
  BY DEF Excuses
<1>2. ASSUME NEW d \in Daemons, Probing(d)', ~Registered' PROVE d \in excused'
  BY <1>2 DEF Excuses
<1>3. ASSUME NEW d \in Daemons, proc'[d].pc = "rmDead", proc'[d].role = "serve" PROVE d \in excused'
  <2>1. Probing(d)' /\ d \in Processes
    BY <1>3 DEF Probing, Processes
  <2>2. CASE proc'[d] = proc[d]
    BY <1>3, <2>1, <2>2 DEF DaemonInv, ExcuseInv, Excuses
  <2>3. CASE Probed(d)
    BY <1>2, <1>3, <2>1, <2>3 DEF Probed
  <2> QED
    BY <2>1, <2>2, <2>3 DEF Good, Moved
<1> QED
  BY <1>1, <1>2, <1>3 DEF ExcuseInv

LEMMA DaemonInvInit == DaemonInit => DaemonInv
<1> SUFFICES ASSUME DaemonInit PROVE DaemonInv
  OBVIOUS
<1>0. Parameters
  BY ProcAssumption, BoundAssumption DEF Parameters
<1>1. \A p \in Processes : proc[p] = Off
  BY DEF DaemonInit
<1>2. FileTypes /\ proc \in [Processes -> ProcType]
  BY <1>0, OffIs DEF DaemonInit, FileTypes, Name, Parameters, BoundsAreNumbers
<1>3. ProcInv
  BY <1>0, <1>1, OffIs DEF ProcInv, ServingPcs, ExitPcs
<1>4. FilesInv
  BY DEF DaemonInit, FilesInv
<1>5. ExcuseInv /\ excused \subseteq Daemons
  <2>1. \A d \in Daemons : proc[d].pc = "off"
    BY <1>0, <1>1, OffIs DEF Processes
  <2> QED
    BY <2>1 DEF DaemonInit, ExcuseInv, Probing
<1> QED
  BY <1>0, <1>2, <1>3, <1>4, <1>5 DEF DaemonInv, Base

LEMMA DaemonInvNext == DaemonInv /\ [DaemonNext]_daemonVars => DaemonInv'
<1> SUFFICES ASSUME DaemonInv, [DaemonNext]_daemonVars PROVE DaemonInv'
  OBVIOUS
<1>1. CASE UNCHANGED daemonVars
  <2>1. UNCHANGED <<port, pid, sentinel, proc, conns, shut, faults, excused>>
    BY <1>1 DEF daemonVars, files
  <2>2. Good
    BY <2>1, NobodyMoves DEF DaemonInv, Base, FileTypes, files
  <2>3. Base'
    BY <2>2, GoodInv DEF DaemonInv
  <2>4. ExcuseInv' /\ excused' \subseteq Daemons
    BY <2>1 DEF DaemonInv, ExcuseInv, Probing, Registered, Serving
  <2> QED
    BY <2>3, <2>4 DEF DaemonInv
<1>2. CASE DaemonNext
  <2>1. Good /\ Excuses
    BY <1>2, StepGood DEF DaemonNext, DaemonInv
  <2> QED
    BY <2>1, GoodInv, ExcuseStep DEF DaemonInv
<1> QED
  BY <1>1, <1>2

LEMMA DaemonHolds == DaemonSpec => []DaemonInv
BY DaemonInvInit, DaemonInvNext, PTL DEF DaemonSpec

\* The three files name processes, are torn or absent, and everything the daemons and their
\* clients keep has its type (server/mod.rs, server/listener.rs).
THEOREM DaemonTypes == DaemonSpec => []DaemonTypeOK
<1>1. DaemonInv => DaemonTypeOK
  BY DEF DaemonInv, Base, FileTypes, ProcType, DaemonTypeOK
<1> QED
  BY DaemonHolds, <1>1, PTL

\* Unless something was killed, failed or was late, the processes of a project leave no file
\* behind: whoever wrote a file, some daemon that is still up removes it (cleanup, Drop).
THEOREM LeavesNothing == DaemonSpec => []NothingLeftBehind
<1>1. DaemonInv => NothingLeftBehind
  <2> SUFFICES ASSUME DaemonInv, faults = 0, \A p \in Processes : proc[p].pc = "off"
               PROVE  port = Nobody /\ pid = Nobody /\ sentinel = Nobody
    BY DEF NothingLeftBehind
  <2>1. \A d \in Daemons : proc[d].pc = "off"
    BY DEF Processes
  <2> QED
    BY <2>1 DEF DaemonInv, Base, FilesInv, PortOwners, PidOwners, SentinelOwners
<1> QED
  BY DaemonHolds, <1>1, PTL

\* A server starts next to another only when no daemon was registered at some moment of its
\* probes, its own health request went wrong, or a port file came between the two probes
\* (daemon_healthy, daemon_starting).
THEOREM ExcusedStarts == DaemonSpec => StartsAreExcused
<1> DEFINE Excused(d) == proc[d].pc \in {"starting", "rmDead"} /\ proc'[d].pc = "truncPid"
                            => d \in excused \/ port # Nobody
<1>1. ASSUME DaemonInv, [DaemonNext]_daemonVars, NEW d \in Daemons PROVE Excused(d)
  <2> SUFFICES ASSUME proc[d].pc \in {"starting", "rmDead"}, proc'[d].pc = "truncPid", port = Nobody
               PROVE  d \in excused
    OBVIOUS
  <2>1. DaemonNext /\ d \in Processes
    BY <1>1 DEF daemonVars, files, Processes
  <2>2. Probed(d)
    BY <1>1, <2>1, StepGood DEF DaemonNext, DaemonInv, Good, Moved
  <2>3. proc[d].role = "serve" /\ (proc[d].pc = "rmDead" \/ pid = Nobody)
    BY <2>2 DEF Probed
  <2>4. CASE proc[d].pc = "rmDead"
    BY <1>1, <2>3, <2>4 DEF DaemonInv, ExcuseInv
  <2>5. CASE pid = Nobody
    <3>1. Probing(d)
      BY <2>3 DEF Probing
    <3>2. ~Registered
      BY <1>1, <2>5 DEF Registered, Serving, DaemonInv, Base, Parameters, NamesDistinct,
                        Processes
    <3> QED
      BY <1>1, <3>1, <3>2 DEF DaemonInv, ExcuseInv
  <2> QED
    BY <2>3, <2>4, <2>5
<1>2. DaemonInv /\ [DaemonNext]_daemonVars => [\A d \in Daemons : Excused(d)]_daemonVars
  BY <1>1
<1> QED
  BY DaemonHolds, <1>2, PTL DEF DaemonSpec, StartsAreExcused

\* The sentinel of a daemon that serves is removed only in a race with the rename that put it
\* there, by a process that had read another name in it (warm_state_ready,
\* remove_sentinel_if_ours).
THEOREM SentinelIsSafe == DaemonSpec => SentinelSurvives
<1> DEFINE Survives(d) ==
        sentinel = d /\ Serving(d) /\ sentinel' = Nobody
           => \E p \in Processes : /\ proc[p].pc \in {"rmWarm", "cleanRemove", "dropRemove"}
                                   /\ proc[p].seen # d
<1>1. ASSUME DaemonInv, [DaemonNext]_daemonVars, NEW d \in Daemons PROVE Survives(d)
  <2> SUFFICES ASSUME sentinel = d, Serving(d), sentinel' = Nobody
               PROVE  \E p \in Processes : /\ proc[p].pc \in {"rmWarm", "cleanRemove", "dropRemove"}
                                           /\ proc[p].seen # d
    OBVIOUS
  <2>1. sentinel' # sentinel /\ Nobody \notin Processes /\ d \in Processes /\ Daemons \subseteq Processes
    BY <1>1 DEF DaemonInv, Base, Parameters, NamesDistinct, Processes
  <2>2. DaemonNext
    BY <1>1, <2>1 DEF daemonVars, files
  <2>3. PICK p \in Processes : RemoveWarm(p) \/ (p \in Daemons /\ RemoveSentinel(p))
    <3>1. ASSUME NEW p \in Processes, Start(p) \/ Client(p) \/ Timeout(p) PROVE RemoveWarm(p)
      BY <2>1, <3>1 DEF Start, Birth, Client, Ask, Reset, Timeout, RemovePort,
                        RemovePid, CheckStarting,
                        RemoveDead, CheckWarm, Spawn, files
    <3>2. ASSUME NEW e \in Daemons, Server(e) \/ LoadFails(e) \/ MemoryExceeded(e) \/ Kill(e)
          PROVE  RemoveSentinel(e)
      BY <2>1, <3>2 DEF Server, TruncatePid, WritePid, Bind, WritePort,
                        WriteSentinel, LoopEnds, FoundNone,
                        Drained, DrainDeadline, CleanUp, ExitPid, Accept, Admit, LoadFails,
                        MemoryExceeded, Kill, files
    <3>3. ASSUME NEW c \in conns, Handler(c) PROVE FALSE
      BY <2>1, <3>3 DEF Handler, Dispatch, Answer, files
    <3> QED
      BY <2>1, <2>2, <3>1, <3>2, <3>3 DEF DaemonNext, Step
  <2>4. CASE RemoveWarm(p)
    <3>1. proc[p].pc = "rmWarm" /\ proc[proc[p].seen].pc = "off"
      BY <1>1, <2>4 DEF RemoveWarm, DaemonInv, Base, ProcInv
    <3> QED
      BY <3>1 DEF Serving, ServingPcs
  <2>5. CASE RemoveSentinel(p)
    <3>1. proc[p].pc \in {"cleanRemove", "dropRemove"} /\ proc[p].seen = p
      BY <1>1, <2>5 DEF RemoveSentinel, DaemonInv, Base, ProcInv
    <3> QED
      BY <3>1 DEF Serving, ServingPcs
  <2> QED
    BY <2>3, <2>4, <2>5
<1>2. DaemonInv /\ [DaemonNext]_daemonVars => [\A d \in Daemons : Survives(d)]_daemonVars
  BY <1>1
<1> QED
  BY DaemonHolds, <1>2, PTL DEF DaemonSpec, SentinelSurvives

=============================================================================
