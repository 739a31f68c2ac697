--------------------------- MODULE MachineProofs ----------------------------
(***************************************************************************)
(* What the processes of one machine share.  For every number of           *)
(* processes, projects and slots: the build gate is a counting semaphore,  *)
(* and no project is built twice at once.  For every set of paths and of   *)
(* writers: the registry of projects is whole, and what is lost from it    *)
(* has one of the known causes.                                            *)
(***************************************************************************)
EXTENDS BuildGate, Registry, FiniteSetTheorems, TLAPS

(* The slots a process believes in are slots. *)
LEMMA SlotsOfAreSlots == \A b \in Builders : SlotsOf(b) \subseteq Slots
BY LimitAssumption DEF SlotsOf, Slots

(* Giving back the locks of a process frees its own and no other. *)
LEMMA FreedLocks ==
  ASSUME NEW K, NEW locks \in [K -> Builders \cup {None}], NEW b \in Builders
  PROVE  /\ Freed(locks, b) \in [K -> Builders \cup {None}]
         /\ \A x \in K, c \in Builders : c # b /\ locks[x] = c => Freed(locks, b)[x] = c
BY DEF Freed

LEMMA IdleState == Idle \in State /\ Idle.pc = "idle" /\ Idle.files = {} /\ Idle.todo = {}
BY DEF Idle, State, Phases

LEMMA InitInv == Init => IInv
<1> SUFFICES ASSUME Init PROVE IInv
  OBVIOUS
<1>1. TypeOK
  BY IdleState DEF Init, TypeOK
<1>2. HoldsProject /\ HoldsSlot /\ UngatedNeedsCause
  BY IdleState DEF Init, HoldsProject, HoldsSlot, UngatedNeedsCause, Gated, Building
<1> QED
  BY <1>1, <1>2 DEF IInv

-----------------------------------------------------------------------------
(* Every step of a process keeps the invariant. *)

(* A process that changes no lock keeps the invariant when its new state   *)
(* asks for no lock its old state did not hold.                            *)
LEMMA LocalStep ==
  ASSUME IInv, NEW b \in Builders, NEW s \in State,
         builder' = [builder EXCEPT ![b] = s],
         UNCHANGED <<project, slot>>,
         s.todo \subseteq s.files /\ s.files \subseteq SlotsOf(b),
         s.pc # "idle" => s.at \in Projects,
         s.pc \in Phases \ {"idle", "queued"} => project[s.at] = b,
         s.pc = "gated" => b \in Gated,
         s.pc = "ungated" => s.files = {} \/ s.late
  PROVE  IInv'
<1>1. builder' \in [Builders -> State]
      /\ builder'[b] = s /\ \A c \in Builders : c # b => builder'[c] = builder[c]
  BY DEF IInv, TypeOK
<1>2. TypeOK'
  BY <1>1 DEF IInv, TypeOK, SlotsOf
<1>3. HoldsProject'
  BY <1>1 DEF IInv, HoldsProject, Building
<1>4. HoldsSlot'
  BY <1>1 DEF IInv, HoldsSlot, Gated, SlotsOf
<1>5. UngatedNeedsCause'
  BY <1>1 DEF IInv, UngatedNeedsCause
<1> QED
  BY <1>2, <1>3, <1>4, <1>5 DEF IInv

(* What the invariant says of one process. *)
LEMMA StateOf ==
  ASSUME IInv, NEW b \in Builders
  PROVE  /\ builder[b] \in State
         /\ builder[b].todo \subseteq builder[b].files
         /\ builder[b].files \subseteq SlotsOf(b)
         /\ builder[b].pc # "idle" => builder[b].at \in Projects
         /\ Building(b) => project[builder[b].at] = b
BY DEF IInv, TypeOK, HoldsProject

LEMMA RequestInv == ASSUME IInv, NEW b \in Builders, Request(b) PROVE IInv'
<1> PICK p \in Projects : builder' = [builder EXCEPT ![b] = [Idle EXCEPT !.pc = "queued", !.at = p]]
  BY DEF Request
<1> DEFINE s == [Idle EXCEPT !.pc = "queued", !.at = p]
<1>1. s \in State /\ s.pc = "queued" /\ s.at = p /\ s.todo = {} /\ s.files = {}
  BY DEF Idle, State, Phases
<1>2. UNCHANGED <<project, slot>>
  BY DEF Request
<1>3. builder' = [builder EXCEPT ![b] = s]
  OBVIOUS
<1> HIDE DEF s
<1> QED
  BY <1>1, <1>2, <1>3, LocalStep

LEMMA UpdateInPlaceInv == ASSUME IInv, NEW b \in Builders, UpdateInPlace(b) PROVE IInv'
<1> DEFINE s == [builder[b] EXCEPT !.pc = "tail"]
<1>1. s \in State /\ s.pc = "tail" /\ s.at = builder[b].at
      /\ s.todo = builder[b].todo /\ s.files = builder[b].files
  BY StateOf DEF State, Phases
<1>2. UNCHANGED <<project, slot>> /\ builder[b].pc = "locked"
      /\ builder' = [builder EXCEPT ![b] = s]
  BY DEF UpdateInPlace
<1> HIDE DEF s
<1> QED
  BY <1>1, <1>2, StateOf, LocalStep DEF Building, Phases

LEMMA OpenSlotsInv == ASSUME IInv, NEW b \in Builders, OpenSlots(b) PROVE IInv'
<1> PICK files \in SUBSET SlotsOf(b) :
        builder' = [builder EXCEPT ![b].pc = IF files = {} THEN "ungated" ELSE "sweep",
                                   ![b].files = files, ![b].todo = files]
  BY DEF OpenSlots
<1> DEFINE s == [builder[b] EXCEPT !.pc = IF files = {} THEN "ungated" ELSE "sweep",
                                   !.files = files, !.todo = files]
<1>1. s \in State /\ s.pc = (IF files = {} THEN "ungated" ELSE "sweep") /\ s.at = builder[b].at
      /\ s.todo = files /\ s.files = files
  BY StateOf, SlotsOfAreSlots DEF State, Phases
<1>2. UNCHANGED <<project, slot>> /\ builder[b].pc = "locked"
  BY DEF OpenSlots
<1>3. builder' = [builder EXCEPT ![b] = s]
  BY DEF IInv, TypeOK
<1>4. Building(b)
  BY <1>2 DEF Building, Phases
<1> HIDE DEF s
<1>5. s.pc \notin {"idle", "queued", "gated"} /\ (s.pc = "ungated" => s.files = {})
  <2>1. CASE files = {}
    BY <2>1, <1>1
  <2>2. CASE files # {}
    <3>1. s.pc = "sweep"
      BY <2>2, <1>1
    <3> QED
      BY <3>1
  <2> QED
    BY <2>1, <2>2
<1>6. s.at \in Projects /\ project[s.at] = b
  BY <1>1, <1>2, <1>4, StateOf
<1>7. s.todo \subseteq s.files /\ s.files \subseteq SlotsOf(b)
  BY <1>1
<1>8. s \in State
  BY <1>1
<1> QED
  BY <1>2, <1>3, <1>5, <1>6, <1>7, <1>8, LocalStep

LEMMA PassSlotInv == ASSUME IInv, NEW b \in Builders, PassSlot(b) PROVE IInv'
<1> DEFINE s == [builder[b] EXCEPT !.todo = @ \ Lowest(@)]
<1>1. s \in State /\ s.pc = builder[b].pc /\ s.at = builder[b].at
      /\ s.todo \subseteq builder[b].todo /\ s.files = builder[b].files
  BY StateOf DEF State
<1>2. UNCHANGED <<project, slot>> /\ builder[b].pc = "sweep"
      /\ builder' = [builder EXCEPT ![b] = s]
  BY DEF PassSlot
<1>3. Building(b)
  BY <1>2 DEF Building, Phases
<1>4. s.todo \subseteq s.files /\ s.files \subseteq SlotsOf(b)
  BY <1>1, StateOf
<1> HIDE DEF s
<1> QED
  BY <1>1, <1>2, <1>3, <1>4, StateOf, LocalStep

LEMMA SweepFailsInv == ASSUME IInv, NEW b \in Builders, SweepFails(b) PROVE IInv'
<1> DEFINE s == [builder[b] EXCEPT !.pc = IF builder[b].late THEN "ungated" ELSE "sleep"]
<1>1. s \in State /\ s.pc = (IF builder[b].late THEN "ungated" ELSE "sleep")
      /\ s.at = builder[b].at /\ s.late = builder[b].late
      /\ s.todo = builder[b].todo /\ s.files = builder[b].files
  BY StateOf DEF State, Phases
<1>2. UNCHANGED <<project, slot>> /\ builder[b].pc = "sweep"
      /\ builder' = [builder EXCEPT ![b] = s]
  BY DEF SweepFails
<1> HIDE DEF s
<1> QED
  BY <1>1, <1>2, StateOf, LocalStep DEF Building, Phases

LEMMA WakeInv == ASSUME IInv, NEW b \in Builders, Wake(b) PROVE IInv'
<1> DEFINE s == [builder[b] EXCEPT !.pc = "sweep", !.todo = builder[b].files]
<1>1. s \in State /\ s.pc = "sweep" /\ s.at = builder[b].at
      /\ s.todo = builder[b].files /\ s.files = builder[b].files
  BY StateOf DEF State, Phases
<1>2. UNCHANGED <<project, slot>> /\ builder[b].pc = "sleep"
  BY DEF Wake
<1>3. builder' = [builder EXCEPT ![b] = s]
  BY DEF Wake, IInv, TypeOK
<1> HIDE DEF s
<1> QED
  BY <1>1, <1>2, <1>3, StateOf, LocalStep DEF Building, Phases

LEMMA GetLateInv == ASSUME IInv, NEW b \in Builders, GetLate(b) PROVE IInv'
<1> DEFINE s == [builder[b] EXCEPT !.late = TRUE]
<1>1. s \in State /\ s.pc = builder[b].pc /\ s.at = builder[b].at
      /\ s.todo = builder[b].todo /\ s.files = builder[b].files
  BY StateOf DEF State
<1>2. UNCHANGED <<project, slot>> /\ builder[b].pc \in {"sweep", "sleep"}
      /\ builder' = [builder EXCEPT ![b] = s]
  BY DEF GetLate
<1> HIDE DEF s
<1> QED
  BY <1>1, <1>2, StateOf, LocalStep DEF Building, Phases

LEMMA LockProjectInv == ASSUME IInv, NEW b \in Builders, LockProject(b) PROVE IInv'
<1> DEFINE p == builder[b].at
<1>1. /\ p \in Projects /\ project[p] = None /\ UNCHANGED slot
      /\ project' = [project EXCEPT ![p] = b]
      /\ builder' = [builder EXCEPT ![b].pc = "locked"]
  BY StateOf DEF LockProject
<1>2. /\ builder' \in [Builders -> State]
      /\ builder'[b] = [builder[b] EXCEPT !.pc = "locked"]
      /\ \A c \in Builders : c # b => builder'[c] = builder[c]
  BY <1>1, StateOf DEF IInv, TypeOK, State, Phases
<1>3. /\ builder'[b].pc = "locked" /\ builder'[b].at = p
      /\ builder'[b].todo = builder[b].todo /\ builder'[b].files = builder[b].files
  BY <1>2, StateOf DEF State
<1>4. TypeOK'
  BY <1>1, <1>2, <1>3 DEF IInv, TypeOK, SlotsOf
<1>5. HoldsProject'
  BY <1>1, <1>2, <1>3, NoneAssumption DEF IInv, TypeOK, HoldsProject, Building
<1>6. HoldsSlot' /\ UngatedNeedsCause'
  BY <1>1, <1>2, <1>3 DEF IInv, HoldsSlot, UngatedNeedsCause, Gated, SlotsOf
<1> QED
  BY <1>4, <1>5, <1>6 DEF IInv

(* The slot a process takes was free: nobody else loses one. *)
LEMMA TakeSlotInv == ASSUME IInv, NEW b \in Builders, TakeSlot(b) PROVE IInv'
<1> PICK k \in Lowest(builder[b].todo) : slot[k] = None /\ slot' = [slot EXCEPT ![k] = b]
  BY DEF TakeSlot
<1>1. k \in SlotsOf(b) /\ k \in Slots
  BY StateOf, SlotsOfAreSlots DEF Lowest
<1> DEFINE s == [builder[b] EXCEPT !.pc = "gated", !.todo = {}]
<1>0. s \in State
  BY StateOf DEF State, Phases
<1>2. /\ builder' \in [Builders -> State]
      /\ builder'[b] = s
      /\ \A c \in Builders : c # b => builder'[c] = builder[c]
  <2>1. builder' = [builder EXCEPT ![b] = s]
    BY DEF TakeSlot, IInv, TypeOK
  <2> HIDE DEF s
  <2> QED
    BY <1>0, <2>1 DEF IInv, TypeOK
<1>3. /\ builder'[b].pc = "gated" /\ builder'[b].at = builder[b].at
      /\ builder'[b].todo = {} /\ builder'[b].files = builder[b].files
  BY <1>2, StateOf DEF State
<1>4. UNCHANGED project /\ builder[b].pc = "sweep"
  BY DEF TakeSlot
<1>5. TypeOK'
  BY <1>1, <1>2, <1>3, <1>4 DEF IInv, TypeOK, SlotsOf
<1>6. HoldsProject'
  BY <1>2, <1>3, <1>4 DEF IInv, HoldsProject, Building, Phases
<1>7. HoldsSlot'
  <2> SUFFICES ASSUME NEW c \in Builders, builder'[c].pc = "gated"
               PROVE  \E i \in SlotsOf(c) : slot'[i] = c
    BY DEF HoldsSlot, SlotsOf, Gated
  <2>1. CASE c = b
    BY <2>1, <1>1 DEF IInv, TypeOK
  <2>2. CASE c # b
    <3>1. PICK i \in SlotsOf(c) : slot[i] = c
      BY <2>2, <1>2 DEF IInv, HoldsSlot, Gated
    <3>2. i # k /\ i \in Slots
      BY <3>1, NoneAssumption, SlotsOfAreSlots
    <3> QED
      BY <3>1, <3>2 DEF IInv, TypeOK
  <2> QED
    BY <2>1, <2>2
<1>8. UngatedNeedsCause'
  BY <1>2, <1>3 DEF IInv, UngatedNeedsCause
<1> QED
  BY <1>5, <1>6, <1>7, <1>8 DEF IInv

LEMMA FinishDenseInv == ASSUME IInv, NEW b \in Builders, FinishDense(b) PROVE IInv'
<1>1. /\ builder' \in [Builders -> State]
      /\ builder'[b] = [builder[b] EXCEPT !.pc = "tail"]
      /\ \A c \in Builders : c # b => builder'[c] = builder[c]
  BY StateOf DEF FinishDense, IInv, TypeOK, State, Phases
<1>2. /\ builder'[b].pc = "tail" /\ builder'[b].at = builder[b].at
      /\ builder'[b].todo = builder[b].todo /\ builder'[b].files = builder[b].files
  BY <1>1, StateOf DEF State
<1>3. UNCHANGED project /\ builder[b].pc \in {"gated", "ungated"} /\ slot' = Freed(slot, b)
  BY DEF FinishDense
<1>4. TypeOK'
  BY <1>1, <1>2, <1>3, FreedLocks DEF IInv, TypeOK, SlotsOf
<1>5. HoldsProject'
  <2>1. project[builder[b].at] = b /\ builder[b].at \in Projects
    BY <1>3, StateOf DEF Building, Phases
  <2> QED
    BY <1>1, <1>2, <1>3, <2>1 DEF IInv, HoldsProject, Building
<1>6. HoldsSlot'
  <2> SUFFICES ASSUME NEW c \in Builders, builder'[c].pc = "gated"
               PROVE  \E i \in SlotsOf(c) : slot'[i] = c
    BY DEF HoldsSlot, SlotsOf, Gated
  <2>1. c # b /\ c \in Gated
    BY <1>1, <1>2 DEF Gated
  <2>2. PICK i \in SlotsOf(c) : slot[i] = c
    BY <2>1 DEF IInv, HoldsSlot
  <2>3. i \in Slots /\ slot \in [Slots -> Builders \cup {None}]
    BY <2>2, SlotsOfAreSlots DEF IInv, TypeOK
  <2>4. slot'[i] = c
    BY <1>3, <2>1, <2>2, <2>3, FreedLocks
  <2> QED
    BY <2>4
<1>7. UngatedNeedsCause'
  BY <1>1, <1>2 DEF IInv, UngatedNeedsCause
<1> QED
  BY <1>4, <1>5, <1>6, <1>7 DEF IInv

(* The end of a build, and of a process at any point of one. *)
LEMMA LeaveInv ==
  ASSUME IInv, NEW b \in Builders, project' = Freed(project, b),
         builder' = [builder EXCEPT ![b] = Idle],
         slot' = Freed(slot, b) \/ slot' = slot
  PROVE  IInv'
<1>1. /\ builder' \in [Builders -> State]
      /\ builder'[b] = Idle
      /\ \A c \in Builders : c # b => builder'[c] = builder[c]
  BY IdleState DEF IInv, TypeOK
<1>2. TypeOK'
  BY <1>1, IdleState, FreedLocks DEF IInv, TypeOK, SlotsOf
<1>3. HoldsProject'
  BY <1>1, IdleState, FreedLocks DEF IInv, TypeOK, HoldsProject, Building
<1>4. HoldsSlot'
  <2> SUFFICES ASSUME NEW c \in Builders, builder'[c].pc = "gated"
               PROVE  \E i \in SlotsOf(c) : slot'[i] = c
    BY DEF HoldsSlot, SlotsOf, Gated
  <2>1. c # b /\ c \in Gated
    BY <1>1, IdleState DEF Gated
  <2>2. PICK i \in SlotsOf(c) : slot[i] = c
    BY <2>1 DEF IInv, HoldsSlot
  <2>3. slot'[i] = c
    BY <2>1, <2>2, FreedLocks, SlotsOfAreSlots DEF IInv, TypeOK
  <2> QED
    BY <2>3
<1>5. UngatedNeedsCause'
  BY <1>1, IdleState DEF IInv, UngatedNeedsCause
<1> QED
  BY <1>2, <1>3, <1>4, <1>5 DEF IInv

LEMMA FinishInv == ASSUME IInv, NEW b \in Builders, Finish(b) PROVE IInv'
BY LeaveInv DEF Finish

LEMMA DieInv == ASSUME IInv, NEW b \in Builders, Die(b) PROVE IInv'
BY LeaveInv DEF Die

LEMMA NextInv == IInv /\ [Next]_vars => IInv'
<1> SUFFICES ASSUME IInv, [Next]_vars PROVE IInv'
  OBVIOUS
<1>1. CASE UNCHANGED vars
  BY <1>1 DEF vars, IInv, TypeOK, HoldsProject, HoldsSlot, UngatedNeedsCause, Gated,
              Building, SlotsOf
<1>2. CASE Next
  BY <1>2, RequestInv, LockProjectInv, UpdateInPlaceInv, OpenSlotsInv, TakeSlotInv,
     PassSlotInv, SweepFailsInv, WakeInv, GetLateInv, FinishDenseInv, FinishInv, DieInv
     DEF Next
<1> QED
  BY <1>1, <1>2

-----------------------------------------------------------------------------
(* The number of builds the gate lets through. *)

(* Processes that hold slots of a finite set hold different ones, so they  *)
(* are no more than the slots.                                             *)
LEMMA HoldersAreCounted ==
  ASSUME NEW H \in SUBSET Builders, NEW S \in SUBSET Slots,
         \A b \in H : \E i \in S : slot[i] = b
  PROVE  IsFiniteSet(H) /\ IsFiniteSet(S) /\ Cardinality(H) <= Cardinality(S)
<1> DEFINE f == [b \in H |-> CHOOSE i \in S : slot[i] = b]
<1>1. \A b \in H : f[b] \in S /\ slot[f[b]] = b
  OBVIOUS
<1>2. f \in Injection(H, S)
  BY <1>1 DEF Injection, IsInjective
<1>3. IsFiniteSet(S)
  <2>1. IsFiniteSet(Slots)
    BY FS_Interval, LimitAssumption DEF Slots
  <2> QED
    BY <2>1, FS_Subset
<1> QED
  BY <1>2, <1>3, FS_Injection

LEMMA CountBelow ==
  ASSUME IInv, NEW n \in 1 .. MaxLimit
  PROVE  Cardinality({b \in Gated : LimitOf[b] <= n}) <= n
<1> DEFINE H == {b \in Gated : LimitOf[b] <= n}
           S == 0 .. n - 1
<1>1. H \in SUBSET Builders /\ S \in SUBSET Slots
  BY LimitAssumption DEF Gated, Slots
<1>2. \A b \in H : \E i \in S : slot[i] = b
  BY LimitAssumption DEF IInv, HoldsSlot, Gated, SlotsOf
<1>3. Cardinality(S) = n
  BY FS_Interval, LimitAssumption
<1> HIDE DEF H, S
<1>4. Cardinality(H) <= n
  BY <1>1, <1>2, <1>3, HoldersAreCounted
<1> QED
  BY <1>4 DEF H

(* A free slot is one the holders do not share. *)
LEMMA CountBelowFree ==
  ASSUME IInv, NEW k \in Slots, slot[k] = None
  PROVE  Cardinality(Gated) < MaxLimit
<1> DEFINE S == Slots \ {k}
<1>1. Gated \in SUBSET Builders /\ S \in SUBSET Slots
  BY DEF Gated
<1>2. \A b \in Gated : \E i \in S : slot[i] = b
  BY NoneAssumption, SlotsOfAreSlots DEF IInv, HoldsSlot, Gated
<1>3. Cardinality(S) = MaxLimit - 1
  <2>1. IsFiniteSet(Slots) /\ Cardinality(Slots) = MaxLimit
    BY FS_Interval, LimitAssumption DEF Slots
  <2> QED
    BY <2>1, FS_RemoveElement
<1>4. IsFiniteSet(Gated) /\ IsFiniteSet(S) /\ Cardinality(Gated) <= Cardinality(S)
  <2> HIDE DEF S
  <2> QED
    BY <1>1, <1>2, HoldersAreCounted
<1> QED
  BY <1>3, <1>4, FS_CardinalityType, LimitAssumption

-----------------------------------------------------------------------------
(* The locks a process holds in each phase, always. *)
THEOREM Invariance == Spec => []IInv
BY InitInv, NextInv, PTL DEF Spec

(* Every variable keeps its type, whatever processes there are. *)
THEOREM TypeCorrect == Spec => []TypeOK
<1>1. IInv => TypeOK
  BY DEF IInv
<1> QED
  BY <1>1, Invariance, PTL

(* No more full builds pass the gate than its slots. *)
THEOREM GateBounds == Spec => []GateHolds
<1>1. IInv => GateHolds
  BY CountBelow DEF GateHolds
<1> QED
  BY <1>1, Invariance, PTL

(* A build passes the gate without a slot only when it could open no slot  *)
(* file or has waited for MAX_WAIT.                                        *)
THEOREM UngatedIsExcused == Spec => []UngatedNeedsCause
<1>1. IInv => UngatedNeedsCause
  BY DEF IInv
<1> QED
  BY <1>1, Invariance, PTL

(* No project is ever built by two processes. *)
THEOREM BuildsAreExclusive == Spec => []OneBuildPerProject
<1>1. IInv => OneBuildPerProject
  BY DEF IInv, HoldsProject, OneBuildPerProject
<1> QED
  BY <1>1, Invariance, PTL

-----------------------------------------------------------------------------
(* The gate implements the semaphore: taking a slot acquires it, leaving   *)
(* the gated phase releases it, and nothing else touches it.               *)

LEMMA PhaseStep ==
  ASSUME IInv, NEW b \in Builders,
         \A c \in Builders : c # b => builder'[c] = builder[c],
         builder'[b].pc # "gated"
  PROVE  Gate!Release(b) \/ Gated' = Gated
<1>1. Gated' = Gated \ {b}
  BY DEF Gated
<1>2. CASE b \in Gated
  BY <1>1, <1>2 DEF Gate!Release
<1>3. CASE b \notin Gated
  BY <1>1, <1>3
<1> QED
  BY <1>2, <1>3

LEMMA TakeStep ==
  ASSUME IInv, NEW b \in Builders, TakeSlot(b)
  PROVE  Gate!Acquire(b)
<1>1. PICK k \in Lowest(builder[b].todo) : slot[k] = None
  BY DEF TakeSlot
<1>2. k \in Slots
  BY StateOf, SlotsOfAreSlots DEF Lowest
<1>3. Cardinality(Gated) < MaxLimit
  BY <1>1, <1>2, CountBelowFree
<1>4. b \notin Gated
  BY DEF TakeSlot, Gated
<1>5. /\ builder' = [builder EXCEPT ![b] = [builder[b] EXCEPT !.pc = "gated", !.todo = {}]]
      /\ builder \in [Builders -> State] /\ builder[b] \in State
  BY StateOf DEF TakeSlot, IInv, TypeOK
<1>6. builder'[b].pc = "gated" /\ \A c \in Builders : c # b => builder'[c] = builder[c]
  BY <1>5 DEF State
<1>7. Gated' = Gated \cup {b}
  BY <1>6 DEF Gated
<1>8. Gate!Cardinality(Gated) = Cardinality(Gated)
  BY DEF Gate!Cardinality, Cardinality
<1> QED
  BY <1>3, <1>4, <1>7, <1>8 DEF Gate!Acquire

LEMMA OtherStep ==
  ASSUME IInv, NEW b \in Builders,
         \/ Request(b) \/ LockProject(b) \/ UpdateInPlace(b) \/ OpenSlots(b)
         \/ PassSlot(b) \/ SweepFails(b) \/ Wake(b) \/ GetLate(b)
         \/ FinishDense(b) \/ Finish(b) \/ Die(b)
  PROVE  /\ \A c \in Builders : c # b => builder'[c] = builder[c]
         /\ builder'[b].pc # "gated"
<1>1. builder \in [Builders -> State] /\ builder[b] \in State
  BY StateOf DEF IInv, TypeOK
<1>2. CASE Request(b)
  <2>1. PICK p \in Projects : builder' = [builder EXCEPT ![b] = [Idle EXCEPT !.pc = "queued", !.at = p]]
    BY <1>2 DEF Request
  <2> QED
    BY <1>1, <2>1 DEF Idle
<1>6. CASE Finish(b) \/ Die(b)
  BY <1>1, <1>6, IdleState DEF Finish, Die
<1>3. CASE LockProject(b) \/ UpdateInPlace(b) \/ SweepFails(b) \/ FinishDense(b)
  BY <1>1, <1>3 DEF LockProject, UpdateInPlace, SweepFails, FinishDense, State
<1>4. CASE OpenSlots(b)
  <2>1. PICK files \in SUBSET SlotsOf(b) :
          builder' = [builder EXCEPT ![b].pc = IF files = {} THEN "ungated" ELSE "sweep",
                                     ![b].files = files, ![b].todo = files]
    BY <1>4 DEF OpenSlots
  <2>2. builder'[b].pc = IF files = {} THEN "ungated" ELSE "sweep"
    BY <1>1, <2>1 DEF State
  <2>3. \A c \in Builders : c # b => builder'[c] = builder[c]
    BY <1>1, <2>1
  <2> QED
    BY <2>2, <2>3
<1>5. CASE PassSlot(b) \/ Wake(b) \/ GetLate(b)
  BY <1>1, <1>5 DEF PassSlot, Wake, GetLate, State
<1> QED
  BY <1>2, <1>3, <1>4, <1>5, <1>6

(* The sweep over lock files implements the counting semaphore. *)
THEOREM GateRefines == Spec => IsSemaphore
<1>1. Init => Gate!Init
  BY IdleState DEF Init, Gate!Init, Gated
<1>2. IInv /\ [Next]_vars => [Gate!Next]_Gated
  <2> SUFFICES ASSUME IInv, [Next]_vars PROVE Gate!Next \/ Gated' = Gated
    OBVIOUS
  <2>1. CASE UNCHANGED vars
    BY <2>1 DEF vars, Gated
  <2>2. CASE Next
    <3> PICK b \in Builders :
          \/ TakeSlot(b)
          \/ Request(b) \/ LockProject(b) \/ UpdateInPlace(b) \/ OpenSlots(b)
          \/ PassSlot(b) \/ SweepFails(b) \/ Wake(b) \/ GetLate(b)
          \/ FinishDense(b) \/ Finish(b) \/ Die(b)
      BY <2>2 DEF Next
    <3>1. CASE TakeSlot(b)
      BY <3>1, TakeStep DEF Gate!Next
    <3>2. CASE ~TakeSlot(b)
      BY <3>2, OtherStep, PhaseStep DEF Gate!Next
    <3> QED
      BY <3>1, <3>2
  <2> QED
    BY <2>1, <2>2
<1> QED
  BY <1>1, <1>2, Invariance, PTL DEF Spec, IsSemaphore, Gate!Spec

-----------------------------------------------------------------------------
(* The registry of projects.                                               *)

\* What NameAssumption and FaultAssumption say of the constants
Parameters == NamesDistinct /\ MaxFaults \in Nat

JobType == [pc : Pcs, op : Ops, at : Paths \cup {Nothing}, list : Lists, in : Places,
            stale : BOOLEAN, gone : SUBSET Paths]

AtWork(t) == job[t].pc \in {"load", "open", "write", "rename"}

JobInv == /\ job \in [Threads -> JobType]
          /\ \A t \in Threads : AtWork(t) => /\ job[t].op \in {"register", "upsert", "retain"}
                                             /\ job[t].op # "retain" => job[t].at \in Paths

FileTypes == /\ dir \subseteq Paths
             /\ file \in Contents /\ tmp \in [Procs -> Contents]
             /\ faults \in 0 .. MaxFaults /\ crossed \in BOOLEAN

\* Unless threads crossed, one at most saves in every process, and what has the name of its
\* temporary file is its own, or nothing once another thread's failed save removed it
Alone == \A t, u \in Threads : Saving(t) /\ Saving(u) /\ ProcOf(t) = ProcOf(u) => t = u
Own == \A t \in Threads : Saving(t) =>
    \/ job[t].in = "tmp" /\ job[t].pc = "write" /\ tmp[ProcOf(t)] = Blank
    \/ job[t].in = "tmp" /\ job[t].pc = "rename" /\ tmp[ProcOf(t)] = job[t].list
    \/ job[t].in = "gone" /\ tmp[ProcOf(t)] = Nothing

\* A list that is about to be saved over the file it was made from keeps what the file has
Keeps(t) == \A p \in Paths : \/ Parsed(file)[p] \in {"absent", job[t].list[p]}
                             \/ job[t].list[p] = "indexed"
                             \/ p \in job[t].gone
Changing(t) == job[t].pc \in {"open", "write", "rename"}
Fresh == \A t \in Threads : Changing(t) /\ ~job[t].stale => Keeps(t)

Apart == file \in Lists \cup {Nothing} /\ Alone /\ Own /\ Fresh

RegistryInv == Parameters /\ FileTypes /\ JobInv /\ (~crossed => Apart)

-----------------------------------------------------------------------------
(* Threads and jobs.                                                       *)

LEMMA Records ==
    /\ NoJob \in JobType
    /\ \A op \in {"register", "upsert", "retain"}, p \in Paths \cup {Nothing} :
          /\ Loading(op, p) \in JobType
          /\ Loading(op, p).pc = "load" /\ Loading(op, p).op = op /\ Loading(op, p).at = p
    /\ \A p \in Paths \cup {Nothing} : [NoJob EXCEPT !.pc = "build", !.at = p] \in JobType
BY DEF NoJob, Loading, JobType, Pcs, Ops, Places, Lists, Empty, Entries

LEMMA ParsedIsList == ASSUME FileTypes PROVE Parsed(file) \in Lists
BY DEF FileTypes, Parsed, Contents, Empty, Lists, Entries

LEMMA ProcOfIsProc == \A t \in Threads : ProcOf(t) \in Procs
BY DEF Procs

\* A thread that starts something new, and the thread it may start
Starts(j) == j.pc \notin {"open", "write", "rename"}

LEMMA BehindIs ==
    ASSUME JobInv, NEW t \in Threads, AtWork(t), NEW jobs \in [Threads -> JobType],
           NEW next, next \in Behind(t, jobs)
    PROVE  /\ next \in [Threads -> JobType]
           /\ next[t].pc \in {"idle", "load"}
           /\ next[t].pc = "load" => next[t].op = "upsert" /\ next[t].at \in Paths
           /\ \A u \in Threads \ {t} : next[u] = jobs[u] \/ next[u].pc = "build"
<1>1. job[t].at \in Paths \cup {Nothing} /\ (job[t].op = "register" => job[t].at \in Paths)
  BY DEF JobInv, JobType, AtWork
<1>2. NoJob.pc = "idle"
  BY DEF NoJob
<1>3. CASE t \in Indexers /\ job[t].op = "register"
  <2>1. next = [jobs EXCEPT ![t] = Loading("upsert", job[t].at)]
    BY <1>3 DEF Behind
  <2>2. job[t].at \in Paths
    BY <1>1, <1>3
  <2> DEFINE j == Loading("upsert", job[t].at)
  <2>3. j \in JobType /\ j.pc = "load" /\ j.op = "upsert" /\ j.at = job[t].at
    BY <2>2, Records
  <2>4. next = [jobs EXCEPT ![t] = j]
    BY <2>1
  <2> HIDE DEF j
  <2> QED
    BY <2>2, <2>3, <2>4
<1>4. CASE ~(t \in Indexers /\ job[t].op = "register") /\ t = "main"
  <2>1. PICK b \in Backs :
           next = [jobs EXCEPT ![t] = NoJob, ![b] = [NoJob EXCEPT !.pc = "build", !.at = job[t].at]]
                  /\ job[b].pc = "idle"
    BY <1>4 DEF Behind
  <2>2. b \in Threads /\ b # t
    BY <2>1 DEF Threads, AtWork
  <2> DEFINE j == [NoJob EXCEPT !.pc = "build", !.at = job[t].at]
  <2>3. j \in JobType /\ j.pc = "build" /\ NoJob \in JobType
    BY <1>1, Records DEF NoJob
  <2>4. next = [jobs EXCEPT ![t] = NoJob, ![b] = j]
    BY <2>1
  <2> HIDE DEF j
  <2>5. next[t] = NoJob /\ next[b] = j /\ \A u \in Threads \ {t, b} : next[u] = jobs[u]
    BY <2>2, <2>4
  <2> QED
    BY <1>2, <2>2, <2>3, <2>4, <2>5
<1>5. CASE ~(t \in Indexers /\ job[t].op = "register") /\ t # "main"
  <2>1. next = [jobs EXCEPT ![t] = NoJob]
    BY <1>5 DEF Behind
  <2>2. NoJob \in JobType
    BY Records
  <2>3. next[t] = NoJob /\ \A u \in Threads \ {t} : next[u] = jobs[u]
    BY <2>1
  <2> QED
    BY <1>2, <2>1, <2>2, <2>3
<1> QED
  BY <1>3, <1>4, <1>5

-----------------------------------------------------------------------------
LEMMA RegistryInvInit == RegistryInit => RegistryInv
<1> SUFFICES ASSUME RegistryInit PROVE RegistryInv
  OBVIOUS
<1>0. Parameters
  BY NameAssumption, FaultAssumption DEF Parameters
<1>1. \A t \in Threads : job[t] = NoJob /\ ~AtWork(t) /\ ~Saving(t) /\ ~Changing(t)
  BY DEF RegistryInit, NoJob, AtWork, Saving, Changing
<1>2. FileTypes
  <2>1. 0 \in 0 .. MaxFaults
    BY <1>0 DEF Parameters
  <2> QED
    BY <2>1 DEF RegistryInit, FileTypes, Contents
<1>3. JobInv
  BY <1>1, Records DEF RegistryInit, JobInv
<1>4. Apart
  BY <1>1 DEF RegistryInit, Apart, Alone, Own, Fresh
<1> QED
  BY <1>0, <1>2, <1>3, <1>4 DEF RegistryInv

\* Threads that change and do not save get there only from the same state
LEMMA Quiet ==
    ASSUME RegistryInv, UNCHANGED <<file, tmp, crossed>>,
           \A u \in Threads : job'[u].pc \in {"open", "write", "rename"} => job'[u] = job[u]
    PROVE  ~crossed' => Apart'
<1>1. \A u \in Threads : /\ Saving(u)' => Saving(u) /\ job'[u] = job[u]
                         /\ Changing(u)' => Changing(u) /\ job'[u] = job[u]
  BY DEF Saving, Changing
<1>2. SUFFICES ASSUME ~crossed PROVE Apart'
  OBVIOUS
<1>3. Apart
  BY <1>2 DEF RegistryInv
<1> QED
  BY <1>1, <1>3 DEF Apart, Alone, Own, Fresh, Keeps

\* A step of a thread that loads or starts something, and leaves the files alone
LEMMA CalmInv ==
    ASSUME RegistryInv, FileTypes', JobInv', UNCHANGED <<file, tmp, crossed>>,
           \A u \in Threads : job'[u].pc \in {"open", "write", "rename"} => job'[u] = job[u]
    PROVE  RegistryInv'
<1>1. Parameters'
  BY DEF RegistryInv, Parameters, NamesDistinct, Lists
<1> QED
  BY <1>1, Quiet DEF RegistryInv

LEMMA StartInv ==
    ASSUME RegistryInv, NEW t \in Threads, NEW j \in JobType, j.pc \in {"idle", "load", "build"},
           j.pc = "load" => /\ j.op \in {"register", "upsert", "retain"}
                            /\ j.op # "retain" => j.at \in Paths,
           job' = [job EXCEPT ![t] = j], faults' \in 0 .. MaxFaults,
           UNCHANGED <<dir, file, tmp, crossed>>
    PROVE  RegistryInv'
<1>1. FileTypes'
  BY DEF RegistryInv, FileTypes
<1>2. job'[t] = j /\ (\A u \in Threads \ {t} : job'[u] = job[u]) /\ job' \in [Threads -> JobType]
  BY DEF RegistryInv, JobInv
<1>3. JobInv'
  BY <1>2 DEF RegistryInv, JobInv, AtWork
<1> QED
  BY <1>1, <1>2, <1>3, CalmInv

LEMMA RestInv ==
    ASSUME RegistryInv, NEW t \in Threads,
           Sweep(t) \/ Built(t) \/ BuildFails(t) \/ \E p \in Paths : Index(t, p)
    PROVE  RegistryInv'
<1>1. dir \subseteq Paths /\ faults \in 0 .. MaxFaults /\ MaxFaults \in Nat
  BY DEF RegistryInv, FileTypes, Parameters
<1>2. CASE Sweep(t)
  <2>1. Loading("retain", Nothing) \in JobType /\ Loading("retain", Nothing).pc = "load"
        /\ Loading("retain", Nothing).op = "retain"
    BY Records
  <2> QED
    BY <1>1, <1>2, <2>1, StartInv DEF Sweep
<1>3. CASE Built(t)
  <2>1. PICK op \in {"upsert", "register"} : job' = [job EXCEPT ![t] = Loading(op, job[t].at)]
    BY <1>3 DEF Built
  <2>2. job[t].at \in Paths
    BY <1>1, <1>3 DEF Built
  <2> DEFINE j == Loading(op, job[t].at)
  <2>3. j \in JobType /\ j.pc = "load" /\ j.op = op /\ j.at = job[t].at
    <3>1. CASE op = "upsert"
      BY <2>2, <3>1, Records
    <3>2. CASE op = "register"
      BY <2>2, <3>2, Records
    <3> QED
      BY <3>1, <3>2
  <2>4. job' = [job EXCEPT ![t] = j] /\ UNCHANGED <<dir, file, tmp, faults, crossed>>
    BY <1>3, <2>1 DEF Built
  <2> HIDE DEF j
  <2> QED
    BY <1>1, <2>2, <2>3, <2>4, StartInv
<1>4. CASE BuildFails(t)
  <2>1. NoJob \in JobType /\ NoJob.pc = "idle"
    BY Records DEF NoJob
  <2>2. faults' \in 0 .. MaxFaults
    BY <1>1, <1>4 DEF BuildFails
  <2> QED
    BY <1>4, <2>1, <2>2, StartInv DEF BuildFails
<1>5. ASSUME NEW p \in Paths, Index(t, p) PROVE RegistryInv'
  <2> DEFINE j == [NoJob EXCEPT !.pc = "build", !.at = p]
  <2>1. j \in JobType /\ j.pc = "build"
    BY Records DEF NoJob
  <2>2. job' = [job EXCEPT ![t] = j] /\ UNCHANGED <<dir, file, tmp, faults, crossed>>
    BY <1>5 DEF Index
  <2> HIDE DEF j
  <2> QED
    BY <1>1, <2>1, <2>2, StartInv
<1> QED
  BY <1>2, <1>3, <1>4, <1>5

LEMMA ToolCallInv == ASSUME RegistryInv, NEW p \in Paths, ToolCall(p) PROVE RegistryInv'
<1> DEFINE j == Loading("register", p)
<1>1. j \in JobType /\ j.pc = "load" /\ j.op = "register" /\ j.at = p
  BY Records
<1>2. job' = [job EXCEPT !["main"] = j] /\ UNCHANGED <<dir, file, tmp, faults, crossed>>
      /\ "main" \in Threads
  BY DEF ToolCall, Threads
<1>3. faults \in 0 .. MaxFaults
  BY DEF RegistryInv, FileTypes
<1> HIDE DEF j
<1> QED
  BY <1>1, <1>2, <1>3, StartInv

LEMMA AroundInv ==
    ASSUME RegistryInv, \/ \E p \in Paths : RemoveDir(p) \/ RestoreDir(p)
                        \/ \E proc \in Procs : ProcessDies(proc)
    PROVE  RegistryInv'
<1>1. FileTypes'
  BY DEF RegistryInv, FileTypes, Parameters, RemoveDir, RestoreDir, ProcessDies
<1>2. JobInv' /\ \A u \in Threads : job'[u].pc \in {"open", "write", "rename"} => job'[u] = job[u]
  <2>1. CASE \E p \in Paths : RemoveDir(p) \/ RestoreDir(p)
    BY <2>1 DEF RegistryInv, JobInv, AtWork, RemoveDir, RestoreDir
  <2>2. ASSUME NEW proc \in Procs, ProcessDies(proc) PROVE <1>2!1 /\ <1>2!2
    <3>1. \A u \in Threads : job'[u] = IF ProcOf(u) = proc THEN NoJob ELSE job[u]
      BY <2>2 DEF ProcessDies
    <3>2. job' = [u \in Threads |-> job'[u]]
      BY <2>2 DEF ProcessDies
    <3>3. NoJob \in JobType /\ NoJob.pc = "idle"
      BY Records DEF NoJob
    <3> QED
      BY <3>1, <3>2, <3>3 DEF RegistryInv, JobInv, AtWork
  <2> QED
    BY <2>1, <2>2
<1>3. UNCHANGED <<file, tmp, crossed>>
  BY DEF RemoveDir, RestoreDir, ProcessDies
<1> QED
  BY <1>1, <1>2, <1>3, CalmInv
\* What is saved: a list that keeps, and that says what a sweep found gone
LEMMA ChangedKeeps ==
    ASSUME RegistryInv, NEW t \in Threads, job[t].pc = "load"
    PROVE  /\ Changed(t, Parsed(file)) \in Lists
           /\ \A p \in Paths :
                 \/ Parsed(file)[p] \in {"absent", Changed(t, Parsed(file))[p]}
                 \/ Changed(t, Parsed(file))[p] = "indexed"
                 \/ job[t].op = "retain" /\ p \in Paths \ dir
<1> DEFINE list == Parsed(file)
           new == Changed(t, list)
<1>1. list \in Lists
  BY ParsedIsList DEF RegistryInv
<1>2. /\ job[t].op \in {"register", "upsert", "retain"}
      /\ job[t].op # "retain" => job[t].at \in Paths
  BY DEF RegistryInv, JobInv, AtWork
<1> HIDE DEF list
<1>3. CASE job[t].op = "register"
  <2>1. new = [list EXCEPT ![job[t].at] =
                        IF list[job[t].at] = "absent" THEN "listed" ELSE list[job[t].at]]
    BY <1>3 DEF Changed
  <2> QED
    BY <1>1, <1>2, <1>3, <2>1 DEF Lists, Entries, list
<1>4. CASE job[t].op = "upsert"
  <2>1. new = [list EXCEPT ![job[t].at] = "indexed"]
    BY <1>4 DEF Changed
  <2> QED
    BY <1>1, <1>2, <1>4, <2>1 DEF Lists, Entries, list
<1>5. CASE job[t].op = "retain"
  <2>1. new = [p \in Paths |-> IF p \in dir THEN list[p] ELSE "absent"]
    BY <1>5 DEF Changed
  <2> QED
    BY <1>1, <1>5, <2>1 DEF Lists, Entries, list
<1> QED
  BY <1>2, <1>3, <1>4, <1>5

LEMMA LoadInv == ASSUME RegistryInv, NEW t \in Threads, Load(t) PROVE RegistryInv'
<1>1. FileTypes'
  BY DEF RegistryInv, FileTypes, Load
<1>2. AtWork(t) /\ job[t].pc = "load" /\ job \in [Threads -> JobType]
      /\ UNCHANGED <<dir, file, tmp, faults, crossed>>
  BY DEF Load, AtWork, RegistryInv, JobInv
<1> DEFINE list == Changed(t, Parsed(file))
<1>3. CASE job' \in Behind(t, job)
  <2>1. /\ job' \in [Threads -> JobType]
        /\ job'[t].pc \in {"idle", "load"}
        /\ job'[t].pc = "load" => job'[t].op = "upsert" /\ job'[t].at \in Paths
        /\ \A u \in Threads \ {t} : job'[u] = job[u] \/ job'[u].pc = "build"
    BY <1>2, <1>3, BehindIs DEF RegistryInv
  <2>2. JobInv'
    BY <2>1 DEF RegistryInv, JobInv, AtWork
  <2> QED
    BY <1>1, <1>2, <2>1, <2>2, CalmInv
<1>4. CASE job' = [job EXCEPT ![t].pc = "open", ![t].list = list,
                              ![t].gone = IF job[t].op = "retain" THEN Paths \ dir ELSE {}]
  <2> DEFINE gone == IF job[t].op = "retain" THEN Paths \ dir ELSE {}
             j == [job[t] EXCEPT !.pc = "open", !.list = list, !.gone = gone]
  <2>0. list \in Lists /\ gone \in SUBSET Paths
    BY <1>2, ChangedKeeps
  <2>1. /\ j \in JobType /\ j.pc = "open" /\ j.list = list /\ j.gone = gone
        /\ j.op = job[t].op /\ j.at = job[t].at
    <3> HIDE DEF list, gone
    <3> QED
      BY <1>2, <2>0 DEF JobType, Pcs
  <2>2. job' = [job EXCEPT ![t] = j]
    BY <1>4
  <2>3. job'[t] = j /\ (\A u \in Threads \ {t} : job'[u] = job[u]) /\ job' \in [Threads -> JobType]
    <3> HIDE DEF j
    <3> QED
      BY <1>2, <2>1, <2>2
  <2>4. JobInv'
    <3> HIDE DEF j
    <3> QED
      BY <1>2, <2>1, <2>3 DEF RegistryInv, JobInv, AtWork
  <2>5. Parameters'
    BY DEF RegistryInv, Parameters, NamesDistinct, Lists
  <2>6. ASSUME ~crossed PROVE Apart'
    <3>1. Apart
      BY <2>6 DEF RegistryInv
    <3>2. \A u \in Threads : Saving(u)' <=> Saving(u) /\ u # t
      <4> HIDE DEF j
      <4> QED
        BY <1>2, <2>1, <2>3 DEF Saving
    <3>3. Keeps(t)'
      <4>1. job'[t].list = list /\ job'[t].gone = gone /\ file' = file
        <5> HIDE DEF list, gone, j
        <5> QED
          BY <1>2, <2>1, <2>3
      <4>2. \A p \in Paths : \/ Parsed(file)[p] \in {"absent", list[p]}
                             \/ list[p] = "indexed"
                             \/ p \in gone
        BY <1>2, ChangedKeeps
      <4> HIDE DEF list, gone
      <4> QED
        BY <4>1, <4>2 DEF Keeps, Parsed
    <3>4. \A u \in Threads \ {t} : Changing(u)' /\ ~job'[u].stale => Keeps(u)'
      BY <1>2, <2>3, <3>1 DEF Apart, Fresh, Changing, Keeps, Parsed
    <3>5. Alone' /\ Own'
      BY <1>2, <2>3, <3>1, <3>2 DEF Apart, Alone, Own
    <3> QED
      BY <1>2, <3>1, <3>3, <3>4, <3>5 DEF Apart, Fresh
  <2> QED
    BY <1>1, <1>2, <2>4, <2>5, <2>6 DEF RegistryInv
<1> QED
  BY <1>3, <1>4 DEF Load
LEMMA OpenInv == ASSUME RegistryInv, NEW t \in Threads, Open(t) PROVE RegistryInv'
<1> DEFINE j == [job[t] EXCEPT !.pc = "write", !.in = "tmp"]
<1>1. /\ job \in [Threads -> JobType] /\ job[t].pc = "open" /\ ProcOf(t) \in Procs
      /\ tmp' = [tmp EXCEPT ![ProcOf(t)] = Blank] /\ UNCHANGED <<dir, file, faults>>
      /\ crossed' = (crossed \/ \E u \in Threads \ {t} : ProcOf(u) = ProcOf(t) /\ Saving(u))
      /\ job' = [job EXCEPT ![t] = j]
  BY ProcOfIsProc DEF RegistryInv, JobInv, Open, TmpOf
<1>2. /\ j \in JobType /\ j.pc = "write" /\ j.in = "tmp" /\ j.op = job[t].op /\ j.at = job[t].at
      /\ j.list = job[t].list /\ j.stale = job[t].stale /\ j.gone = job[t].gone
  BY <1>1 DEF JobType, Pcs, Places
<1> HIDE DEF j
<1>3. job'[t] = j /\ (\A u \in Threads \ {t} : job'[u] = job[u]) /\ job' \in [Threads -> JobType]
  BY <1>1, <1>2
<1>4. JobInv'
  BY <1>1, <1>2, <1>3 DEF RegistryInv, JobInv, AtWork
<1>5. FileTypes'
  <2>1. Blank \in Contents /\ crossed' \in BOOLEAN
    BY <1>1 DEF Contents
  <2> QED
    BY <1>1, <2>1 DEF RegistryInv, FileTypes
<1>6. Parameters'
  BY DEF RegistryInv, Parameters, NamesDistinct, Lists
<1>7. ASSUME ~crossed' PROVE Apart'
  <2>1. Apart /\ ~crossed /\ \A u \in Threads \ {t} : ~(ProcOf(u) = ProcOf(t) /\ Saving(u))
    BY <1>1, <1>7 DEF RegistryInv
  <2>2. \A u \in Threads \ {t} : Saving(u)' <=> Saving(u)
    BY <1>3 DEF Saving
  <2>3. Alone'
    BY <2>1, <2>2 DEF Apart, Alone
  <2>4. tmp \in [Procs -> Contents]
    BY DEF RegistryInv, FileTypes
  <2>5. tmp'[ProcOf(t)] = Blank
        /\ \A u \in Threads : ProcOf(u) # ProcOf(t) => tmp'[ProcOf(u)] = tmp[ProcOf(u)]
    BY <1>1, <2>4
  <2>6. Own'
    BY <1>2, <1>3, <2>1, <2>2, <2>5 DEF Apart, Own
  <2>7. Fresh'
    BY <1>1, <1>2, <1>3, <2>1 DEF Apart, Fresh, Changing, Keeps, Parsed
  <2> QED
    BY <1>1, <2>1, <2>3, <2>6, <2>7 DEF Apart
<1> QED
  BY <1>4, <1>5, <1>6, <1>7 DEF RegistryInv

LEMMA WriteInv == ASSUME RegistryInv, NEW t \in Threads, Write(t) PROVE RegistryInv'
<1> DEFINE j == [job[t] EXCEPT !.pc = "rename"]
<1>1. /\ job \in [Threads -> JobType] /\ job[t].pc = "write" /\ ProcOf(t) \in Procs
      /\ UNCHANGED <<dir, faults, crossed>> /\ job' = [job EXCEPT ![t] = j]
  BY ProcOfIsProc DEF RegistryInv, JobInv, Write
<1>2. /\ j \in JobType /\ j.pc = "rename" /\ j.in = job[t].in /\ j.op = job[t].op /\ j.at = job[t].at
      /\ j.list = job[t].list /\ j.stale = job[t].stale /\ j.gone = job[t].gone
  BY <1>1 DEF JobType, Pcs
<1> HIDE DEF j
<1>3. job'[t] = j /\ (\A u \in Threads \ {t} : job'[u] = job[u]) /\ job' \in [Threads -> JobType]
  BY <1>1, <1>2
<1>4. JobInv'
  BY <1>1, <1>2, <1>3 DEF RegistryInv, JobInv, AtWork
<1>5. FileTypes'
  <2>1. job[t].list \in Lists
    BY <1>1 DEF JobType
  <2>2. \A c \in Contents : Over(c, job[t].list) \subseteq Contents
    BY <2>1 DEF Over, Contents
  <2>3. FileTypes
    BY DEF RegistryInv
  <2>4. CASE job[t].in = "tmp"
    BY <1>1, <2>2, <2>3, <2>4 DEF Write, FileTypes, TmpOf
  <2>5. CASE job[t].in = "file"
    BY <1>1, <2>2, <2>3, <2>5 DEF Write, FileTypes
  <2>6. CASE job[t].in = "gone"
    BY <1>1, <2>3, <2>6 DEF Write, FileTypes
  <2> QED
    BY <2>4, <2>5, <2>6 DEF Write
<1>6. Parameters'
  BY DEF RegistryInv, Parameters, NamesDistinct, Lists
<1>7. ASSUME ~crossed PROVE Apart'
  <2>1. Apart
    BY <1>7 DEF RegistryInv
  <2>2. \A u \in Threads : Saving(u)' <=> Saving(u)
    BY <1>1, <1>2, <1>3 DEF Saving
  <2>3. Alone'
    BY <2>1, <2>2 DEF Apart, Alone
  <2>4. /\ Saving(t)
        /\ \/ job[t].in = "tmp" /\ tmp[ProcOf(t)] = Blank
           \/ job[t].in = "gone" /\ tmp[ProcOf(t)] = Nothing
    BY <1>1, <2>1 DEF Apart, Own, Saving
  <2>5. /\ file' = file
        /\ \A u \in Threads : ProcOf(u) # ProcOf(t) => tmp'[ProcOf(u)] = tmp[ProcOf(u)]
        /\ job[t].in = "tmp" => tmp'[ProcOf(t)] = job[t].list
        /\ job[t].in = "gone" => tmp'[ProcOf(t)] = Nothing
    <3>1. tmp \in [Procs -> Contents]
      BY DEF RegistryInv, FileTypes
    <3>2. Over(Blank, job[t].list) = {job[t].list}
      BY DEF Over
    <3>3. CASE job[t].in = "tmp"
      <4>1. tmp' = [tmp EXCEPT ![ProcOf(t)] = job[t].list] /\ file' = file
        BY <2>4, <3>2, <3>3 DEF Write, TmpOf
      <4> QED
        BY <1>1, <3>1, <3>3, <4>1
    <3>4. CASE job[t].in = "gone"
      BY <1>1, <2>4, <3>1, <3>4 DEF Write
    <3> QED
      BY <2>4, <3>3, <3>4
  <2>6. Own'
    <3>1. \A u \in Threads \ {t} : Saving(u) => ProcOf(u) # ProcOf(t)
      BY <2>1, <2>4 DEF Apart, Alone
    <3> QED
      BY <1>2, <1>3, <2>1, <2>2, <2>4, <2>5, <3>1 DEF Apart, Own
  <2>7. Fresh'
    BY <1>1, <1>2, <1>3, <2>1, <2>5 DEF Apart, Fresh, Changing, Keeps, Parsed
  <2> QED
    BY <2>1, <2>3, <2>5, <2>6, <2>7 DEF Apart
<1> QED
  BY <1>1, <1>4, <1>5, <1>6, <1>7 DEF RegistryInv
\* A rename: the lists of the others stay, their loads are out of date
LEMMA RenamedIs ==
    ASSUME job \in [Threads -> JobType], NEW t \in Threads
    PROVE  /\ Renamed(t) \in [Threads -> JobType]
           /\ \A u \in Threads :
                 /\ Renamed(t)[u].pc = job[u].pc /\ Renamed(t)[u].op = job[u].op
                 /\ Renamed(t)[u].at = job[u].at /\ Renamed(t)[u].list = job[u].list
                 /\ Changing(u) => Renamed(t)[u].stale
                 /\ job[u].in = "gone" => Renamed(t)[u].in = "gone"
                 /\ job[u].in = "tmp" /\ ProcOf(u) # ProcOf(t) => Renamed(t)[u].in = "tmp"
<1> DEFINE next(u) == [job[u] EXCEPT
                           !.stale = @ \/ job[u].pc \in {"open", "write", "rename"},
                           !.in = CASE @ = "file" -> "gone"
                                    [] @ = "tmp" /\ TmpOf(u) = TmpOf(t) -> "file"
                                    [] OTHER -> @]
<1>1. Renamed(t) = [u \in Threads |-> next(u)]
  BY DEF Renamed
<1>2. ASSUME NEW u \in Threads
      PROVE  /\ next(u) \in JobType
             /\ next(u).pc = job[u].pc /\ next(u).op = job[u].op
             /\ next(u).at = job[u].at /\ next(u).list = job[u].list
             /\ Changing(u) => next(u).stale
             /\ job[u].in = "gone" => next(u).in = "gone"
             /\ job[u].in = "tmp" /\ ProcOf(u) # ProcOf(t) => next(u).in = "tmp"
  <2>1. job[u] \in JobType
    OBVIOUS
  <2> QED
    BY <2>1 DEF JobType, Places, Changing, TmpOf
<1> HIDE DEF next
<1> QED
  BY <1>1, <1>2

LEMMA RenameInv == ASSUME RegistryInv, NEW t \in Threads, Rename(t) PROVE RegistryInv'
<1>1. /\ job \in [Threads -> JobType] /\ job[t].pc = "rename" /\ AtWork(t) /\ ProcOf(t) \in Procs
      /\ UNCHANGED <<dir, faults, crossed>>
  BY ProcOfIsProc DEF RegistryInv, JobInv, Rename, AtWork
<1>2. CASE tmp[ProcOf(t)] = Nothing
  <2>1. job' \in Behind(t, job) /\ UNCHANGED <<file, tmp>>
    BY <1>2 DEF Rename, TmpOf
  <2>2. /\ job' \in [Threads -> JobType]
        /\ job'[t].pc \in {"idle", "load"}
        /\ job'[t].pc = "load" => job'[t].op = "upsert" /\ job'[t].at \in Paths
        /\ \A u \in Threads \ {t} : job'[u] = job[u] \/ job'[u].pc = "build"
    BY <1>1, <2>1, BehindIs DEF RegistryInv
  <2>3. JobInv'
    BY <2>2 DEF RegistryInv, JobInv, AtWork
  <2>4. FileTypes'
    BY <1>1, <2>1 DEF RegistryInv, FileTypes
  <2> QED
    BY <1>1, <2>1, <2>2, <2>3, <2>4, CalmInv
<1>3. CASE tmp[ProcOf(t)] # Nothing
  <2>1. /\ file' = tmp[ProcOf(t)] /\ tmp' = [tmp EXCEPT ![ProcOf(t)] = Nothing]
        /\ job' \in Behind(t, Renamed(t))
    BY <1>3 DEF Rename, TmpOf
  <2>2. /\ Renamed(t) \in [Threads -> JobType]
        /\ \A u \in Threads :
              /\ Renamed(t)[u].pc = job[u].pc /\ Renamed(t)[u].op = job[u].op
              /\ Renamed(t)[u].at = job[u].at /\ Renamed(t)[u].list = job[u].list
              /\ Changing(u) => Renamed(t)[u].stale
              /\ job[u].in = "gone" => Renamed(t)[u].in = "gone"
              /\ job[u].in = "tmp" /\ ProcOf(u) # ProcOf(t) => Renamed(t)[u].in = "tmp"
    BY <1>1, RenamedIs
  <2>3. /\ job' \in [Threads -> JobType]
        /\ job'[t].pc \in {"idle", "load"}
        /\ job'[t].pc = "load" => job'[t].op = "upsert" /\ job'[t].at \in Paths
        /\ \A u \in Threads \ {t} : job'[u] = Renamed(t)[u] \/ job'[u].pc = "build"
    BY <1>1, <2>1, <2>2, BehindIs DEF RegistryInv
  <2>4. JobInv'
    BY <2>2, <2>3 DEF RegistryInv, JobInv, AtWork
  <2>5. tmp \in [Procs -> Contents] /\ Nothing \in Contents
    BY DEF RegistryInv, FileTypes, Contents
  <2>6. FileTypes'
    BY <1>1, <2>1, <2>5 DEF RegistryInv, FileTypes
  <2>7. Parameters'
    BY DEF RegistryInv, Parameters, NamesDistinct, Lists
  <2>8. ASSUME ~crossed PROVE Apart'
    <3>1. Apart
      BY <2>8 DEF RegistryInv
    <3>2. Saving(t) /\ job[t].list \in Lists /\ file' = job[t].list
      BY <1>1, <1>3, <2>1, <3>1 DEF Apart, Own, Saving, JobType
    <3>3. \A u \in Threads : /\ Saving(u)' => u # t /\ job'[u] = Renamed(t)[u] /\ Saving(u)
                             /\ Changing(u)' => job'[u].stale
      BY <2>2, <2>3 DEF Saving, Changing
    <3>4. \A u \in Threads : Saving(u)' => ProcOf(u) # ProcOf(t) /\ tmp'[ProcOf(u)] = tmp[ProcOf(u)]
      BY <2>1, <2>5, <3>1, <3>2, <3>3 DEF Apart, Alone
    <3>5. Alone'
      BY <3>1, <3>3 DEF Apart, Alone
    <3>6. Own'
      <4> SUFFICES ASSUME NEW u \in Threads, Saving(u)'
                   PROVE  \/ job'[u].in = "tmp" /\ job'[u].pc = "write" /\ tmp'[ProcOf(u)] = Blank
                          \/ job'[u].in = "tmp" /\ job'[u].pc = "rename" /\ tmp'[ProcOf(u)] = job'[u].list
                          \/ job'[u].in = "gone" /\ tmp'[ProcOf(u)] = Nothing
        BY DEF Own
      <4>1. \/ job[u].in = "tmp" /\ job[u].pc = "write" /\ tmp[ProcOf(u)] = Blank
            \/ job[u].in = "tmp" /\ job[u].pc = "rename" /\ tmp[ProcOf(u)] = job[u].list
            \/ job[u].in = "gone" /\ tmp[ProcOf(u)] = Nothing
        BY <3>1, <3>3 DEF Apart, Own
      <4> QED
        BY <2>2, <3>3, <3>4, <4>1
    <3> QED
      BY <3>2, <3>3, <3>5, <3>6 DEF Apart, Fresh
  <2> QED
    BY <1>1, <2>4, <2>6, <2>7, <2>8 DEF RegistryInv
<1> QED
  BY <1>2, <1>3

LEMMA SaveFailsInv == ASSUME RegistryInv, NEW t \in Threads, SaveFails(t) PROVE RegistryInv'
<1> DEFINE jobs == [u \in Threads |-> IF TmpOf(u) = TmpOf(t) /\ job[u].in = "tmp"
                                      THEN [job[u] EXCEPT !.in = "gone"] ELSE job[u]]
<1>1. /\ job \in [Threads -> JobType] /\ Changing(t) /\ AtWork(t) /\ ProcOf(t) \in Procs
      /\ UNCHANGED <<dir, file, crossed>> /\ tmp' = [tmp EXCEPT ![ProcOf(t)] = Nothing]
      /\ job' \in Behind(t, jobs)
  BY ProcOfIsProc DEF RegistryInv, JobInv, SaveFails, AtWork, Changing, TmpOf
<1>2. /\ jobs \in [Threads -> JobType]
      /\ \A u \in Threads :
            /\ jobs[u].pc = job[u].pc /\ jobs[u].op = job[u].op /\ jobs[u].at = job[u].at
            /\ jobs[u].list = job[u].list /\ jobs[u].stale = job[u].stale /\ jobs[u].gone = job[u].gone
            /\ ProcOf(u) # ProcOf(t) => jobs[u] = job[u]
            /\ ProcOf(u) = ProcOf(t) /\ job[u].in \in {"tmp", "gone"} => jobs[u].in = "gone"
  <2>1. ASSUME NEW u \in Threads PROVE [job[u] EXCEPT !.in = "gone"] \in JobType
    BY <1>1 DEF JobType, Places
  <2> QED
    BY <1>1, <2>1 DEF JobType, TmpOf
<1> HIDE DEF jobs
<1>3. /\ job' \in [Threads -> JobType]
      /\ job'[t].pc \in {"idle", "load"}
      /\ job'[t].pc = "load" => job'[t].op = "upsert" /\ job'[t].at \in Paths
      /\ \A u \in Threads \ {t} : job'[u] = jobs[u] \/ job'[u].pc = "build"
  BY <1>1, <1>2, BehindIs DEF RegistryInv
<1>4. JobInv'
  BY <1>2, <1>3 DEF RegistryInv, JobInv, AtWork
<1>5. tmp \in [Procs -> Contents] /\ Nothing \in Contents
  BY DEF RegistryInv, FileTypes, Contents
<1>6. FileTypes'
  <2>1. tmp' \in [Procs -> Contents]
    BY <1>1, <1>5
  <2>2. faults' \in 0 .. MaxFaults
    BY DEF RegistryInv, FileTypes, Parameters, SaveFails
  <2> QED
    BY <1>1, <2>1, <2>2 DEF RegistryInv, FileTypes
<1>7. Parameters'
  BY DEF RegistryInv, Parameters, NamesDistinct, Lists
<1>8. ASSUME ~crossed PROVE Apart'
  <2>1. Apart
    BY <1>8 DEF RegistryInv
  <2>2. \A u \in Threads : /\ Changing(u)' => u # t /\ job'[u] = jobs[u] /\ Changing(u)
                           /\ Saving(u)' => u # t /\ job'[u] = jobs[u] /\ Saving(u)
    BY <1>2, <1>3 DEF Saving, Changing
  <2>3. Alone'
    BY <2>1, <2>2 DEF Apart, Alone
  <2>4. Own'
    <3> SUFFICES ASSUME NEW u \in Threads, Saving(u)'
                 PROVE  \/ job'[u].in = "tmp" /\ job'[u].pc = "write" /\ tmp'[ProcOf(u)] = Blank
                        \/ job'[u].in = "tmp" /\ job'[u].pc = "rename" /\ tmp'[ProcOf(u)] = job'[u].list
                        \/ job'[u].in = "gone" /\ tmp'[ProcOf(u)] = Nothing
      BY DEF Own
    <3>1. /\ job'[u] = jobs[u]
          /\ \/ job[u].in = "tmp" /\ job[u].pc = "write" /\ tmp[ProcOf(u)] = Blank
             \/ job[u].in = "tmp" /\ job[u].pc = "rename" /\ tmp[ProcOf(u)] = job[u].list
             \/ job[u].in = "gone" /\ tmp[ProcOf(u)] = Nothing
      BY <2>1, <2>2 DEF Apart, Own
    <3>2. CASE ProcOf(u) = ProcOf(t)
      <4>1. jobs[u].in = "gone" /\ tmp'[ProcOf(u)] = Nothing
        BY <1>1, <1>2, <1>5, <3>1, <3>2
      <4> QED
        BY <3>1, <4>1
    <3>3. CASE ProcOf(u) # ProcOf(t)
      <4>1. jobs[u] = job[u] /\ tmp'[ProcOf(u)] = tmp[ProcOf(u)]
        BY <1>1, <1>2, <1>5, <3>3
      <4> QED
        BY <3>1, <4>1
    <3> QED
      BY <3>2, <3>3
  <2>5. Fresh'
    BY <1>1, <1>2, <2>1, <2>2 DEF Apart, Fresh, Keeps, Parsed
  <2> QED
    BY <1>1, <2>1, <2>3, <2>4, <2>5 DEF Apart
<1> QED
  BY <1>1, <1>4, <1>6, <1>7, <1>8 DEF RegistryInv

-----------------------------------------------------------------------------
LEMMA RegistryInvNext == RegistryInv /\ [RegistryNext]_registryVars => RegistryInv'
<1> SUFFICES ASSUME RegistryInv, [RegistryNext]_registryVars PROVE RegistryInv'
  OBVIOUS
<1>1. CASE UNCHANGED registryVars
  <2>1. UNCHANGED <<dir, file, tmp, job, faults, crossed>>
    BY <1>1 DEF registryVars
  <2>2. FileTypes' /\ JobInv'
    BY <2>1 DEF RegistryInv, FileTypes, JobInv, AtWork
  <2> QED
    BY <2>1, <2>2, CalmInv
<1>2. ASSUME NEW t \in Threads,
             \/ Sweep(t) \/ Built(t) \/ BuildFails(t)
             \/ Load(t) \/ Open(t) \/ Write(t) \/ Rename(t) \/ SaveFails(t)
      PROVE  RegistryInv'
  BY <1>2, RestInv, LoadInv, OpenInv, WriteInv, RenameInv, SaveFailsInv
<1>3. ASSUME NEW t \in Threads, NEW p \in Paths, Index(t, p) PROVE RegistryInv'
  BY <1>3, RestInv
<1>4. ASSUME NEW p \in Paths, ToolCall(p) \/ RemoveDir(p) \/ RestoreDir(p) PROVE RegistryInv'
  BY <1>4, ToolCallInv, AroundInv
<1>5. ASSUME NEW proc \in Procs, ProcessDies(proc) PROVE RegistryInv'
  BY <1>5, AroundInv
<1> QED
  BY <1>1, <1>2, <1>3, <1>4, <1>5 DEF RegistryNext

(* Together: everything below follows from RegistryInv.                   *)
LEMMA RegistryHolds == RegistrySpec => []RegistryInv
<1> QED
  BY RegistryInvInit, RegistryInvNext, PTL DEF RegistrySpec

(* Entries, jobs and temporary files keep their types, for any hooks,      *)
(* indexing processes and background threads (registry.rs).                *)
THEOREM RegistryTypes == RegistrySpec => []RegistryTypeOK
<1>1. RegistryInv => RegistryTypeOK
  BY DEF RegistryInv, FileTypes, JobInv, JobType, RegistryTypeOK
<1> QED
  BY RegistryHolds, <1>1, PTL

(* projects.json parses, whoever dies or fails in the middle of a save:    *)
(* what is renamed over it is a list that was written to its end.  Two     *)
(* threads of one process, which share a temporary file, are the exception. *)
THEOREM NeverTorn == RegistrySpec => []RegistryIsWhole
<1>1. RegistryInv => RegistryIsWhole
  BY DEF RegistryInv, Apart, RegistryIsWhole, Parameters, NamesDistinct
<1> QED
  BY RegistryHolds, <1>1, PTL

\* The file changes only by the rename of a list
LEMMA WhoReplaces ==
    ASSUME RegistryInv, RegistryNext, ~crossed, file' # file
    PROVE  \E t \in Threads : Rename(t) /\ file' = job[t].list /\ job[t].list \in Lists
<1>1. Apart
  BY DEF RegistryInv
<1>2. ASSUME NEW t \in Threads, Write(t) PROVE FALSE
  BY <1>1, <1>2 DEF Write, Apart, Own, Saving
<1>3. PICK t \in Threads : Rename(t)
  BY <1>2 DEF RegistryNext, Sweep, Built, BuildFails, Load, Open, SaveFails, Index,
              ToolCall, RemoveDir, RestoreDir, ProcessDies
<1>4. file' = tmp[ProcOf(t)] /\ tmp[ProcOf(t)] # Nothing /\ Saving(t) /\ job[t].pc = "rename"
  BY <1>3 DEF Rename, TmpOf, Saving
<1>5. file' = job[t].list
  BY <1>1, <1>4 DEF Apart, Own
<1>6. job[t].list \in Lists
  BY DEF RegistryInv, JobInv, JobType
<1> QED
  BY <1>3, <1>5, <1>6

(* A save takes an entry, or its branch, out of projects.json only when it *)
(* was loaded before another save (last-write-wins), when a sweep had      *)
(* found the directory gone, or when threads of one process crossed.       *)
THEOREM LossesAreCaused == RegistrySpec => LossNeedsCause
<1> DEFINE Cause(p) == \E t \in Threads : /\ job[t].pc = "rename" /\ job'[t].pc # "rename"
                                          /\ job[t].stale \/ p \in job[t].gone
<1>1. ASSUME RegistryInv, [RegistryNext]_registryVars, NEW p \in Paths, Loses(p), ~crossed PROVE Cause(p)
  <2>1. file' # file
    BY <1>1 DEF Loses
  <2>2. RegistryNext
    BY <1>1, <2>1 DEF registryVars
  <2>3. PICK t \in Threads : Rename(t) /\ file' = job[t].list /\ job[t].list \in Lists
    BY <1>1, <2>1, <2>2, WhoReplaces
  <2>4. job[t].pc = "rename" /\ AtWork(t) /\ Changing(t)
    BY <2>3 DEF Rename, AtWork, Changing
  <2>5. job'[t].pc # "rename"
    <3>1. job' \in Behind(t, job) \/ job' \in Behind(t, Renamed(t))
      BY <2>3 DEF Rename
    <3>2. job \in [Threads -> JobType]
      BY <1>1 DEF RegistryInv, JobInv
    <3>3. Renamed(t) \in [Threads -> JobType]
      BY <3>2, RenamedIs
    <3>4. job'[t].pc \in {"idle", "load"}
      BY <1>1, <2>4, <3>1, <3>2, <3>3, BehindIs DEF RegistryInv
    <3> QED
      BY <3>4
  <2>6. ASSUME ~job[t].stale PROVE p \in job[t].gone
    <3>1. Keeps(t)
      BY <1>1, <2>4, <2>6 DEF RegistryInv, Apart, Fresh
    <3>2. Parsed(file') = job[t].list
      BY <1>1, <2>3 DEF Parsed, RegistryInv, Parameters, NamesDistinct
    <3> QED
      BY <1>1, <3>1, <3>2 DEF Keeps, Loses
  <2> QED
    BY <2>4, <2>5, <2>6
<1>2. RegistryInv /\ [RegistryNext]_registryVars =>
         [\A p \in Paths : Loses(p) =>
             \/ crossed
             \/ \E t \in Threads : /\ job[t].pc = "rename" /\ job'[t].pc # "rename"
                                   /\ job[t].stale \/ p \in job[t].gone]_registryVars
  BY <1>1
<1> QED
  BY RegistryHolds, <1>2, PTL DEF RegistrySpec, LossNeedsCause

=============================================================================
