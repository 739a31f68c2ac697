----------------------------- MODULE BuildGate -----------------------------
(***************************************************************************)
(* Builds of many projects on one machine (index/gate.rs, and the locking  *)
(* of index/builder.rs).  A build waits for its project's .semantex.lock;  *)
(* a full dense build then takes one of the machine's build slots, which   *)
(* are lock files, by trying each in turn and sleeping when all are held.  *)
(* Every process derives the number of slots from its own environment.     *)
(* The operating system frees the locks of a process that dies.            *)
(***************************************************************************)
EXTENDS Naturals, FiniteSets

CONSTANTS
    Builders,   \* processes that build
    Projects,   \* directories with an index
    LimitOf,    \* LimitOf[b]: max_concurrent_builds() as builder b computes it
    MaxLimit,   \* the largest of them
    None        \* no process, no project

ASSUME LimitAssumption ==
    /\ MaxLimit \in Nat \ {0}
    /\ LimitOf \in [Builders -> 1 .. MaxLimit]
ASSUME NoneAssumption == None \notin Builders /\ None \notin Projects

VARIABLES
    project,    \* .semantex.lock of every project: the process that holds it
    slot,       \* slot-i.lock for every i: the process that holds it
    builder     \* the state of every process

vars == <<project, slot, builder>>

Slots == 0 .. MaxLimit - 1
SlotsOf(b) == 0 .. LimitOf[b] - 1

Idle == [pc |-> "idle", at |-> None, files |-> {}, todo |-> {}, late |-> FALSE]

Phases == {"idle", "queued", "locked", "sweep", "sleep", "gated", "ungated", "tail"}

State == [pc : Phases, at : Projects \cup {None},
          files : SUBSET Slots, todo : SUBSET Slots, late : BOOLEAN]

TypeOK ==
    /\ project \in [Projects -> Builders \cup {None}]
    /\ slot \in [Slots -> Builders \cup {None}]
    /\ builder \in [Builders -> State]
    /\ \A b \in Builders : builder[b].todo \subseteq builder[b].files
                           /\ builder[b].files \subseteq SlotsOf(b)

Init ==
    /\ project = [p \in Projects |-> None]
    /\ slot = [i \in Slots |-> None]
    /\ builder = [b \in Builders |-> Idle]

-----------------------------------------------------------------------------
(* The project lock.                                                       *)

Request(b) ==
    /\ builder[b].pc = "idle"
    /\ \E p \in Projects :
          builder' = [builder EXCEPT ![b] = [Idle EXCEPT !.pc = "queued", !.at = p]]
    /\ UNCHANGED <<project, slot>>

\* lock_file.lock() blocks until the lock is free
LockProject(b) ==
    /\ builder[b].pc = "queued"
    /\ project[builder[b].at] = None
    /\ project' = [project EXCEPT ![builder[b].at] = b]
    /\ builder' = [builder EXCEPT ![b].pc = "locked"]
    /\ UNCHANGED slot

\* Nothing changed, or an incremental update: no slot is asked for
UpdateInPlace(b) ==
    /\ builder[b].pc = "locked"
    /\ builder' = [builder EXCEPT ![b].pc = "tail"]
    /\ UNCHANGED <<project, slot>>

-----------------------------------------------------------------------------
(* acquire_in: the slots are swept one file at a time.                     *)

\* The slot files that can be opened; with none the build goes on ungated
OpenSlots(b) ==
    /\ builder[b].pc = "locked"
    /\ \E files \in SUBSET SlotsOf(b) :
          builder' = [builder EXCEPT ![b].pc = IF files = {} THEN "ungated" ELSE "sweep",
                                     ![b].files = files, ![b].todo = files]
    /\ UNCHANGED <<project, slot>>

\* The next slot of the sweep, in a set of its own
Lowest(S) == {i \in S : \A j \in S : i <= j}

\* Mutated form of TakeSlot: the guard is dropped as soon as it is returned
TakeSlotAndDrop(b) ==
    /\ builder[b].pc = "sweep"
    /\ \E i \in Lowest(builder[b].todo) : slot[i] = None
    /\ builder' = [builder EXCEPT ![b] = [@ EXCEPT !.pc = "gated", !.todo = {}]]
    /\ UNCHANGED <<project, slot>>

\* try_lock succeeds on the next file
TakeSlot(b) ==
    /\ builder[b].pc = "sweep"
    /\ \E i \in Lowest(builder[b].todo) : slot[i] = None /\ slot' = [slot EXCEPT ![i] = b]
    /\ builder' = [builder EXCEPT ![b] = [@ EXCEPT !.pc = "gated", !.todo = {}]]
    /\ UNCHANGED project

\* try_lock fails: the slot is held, or the file system has no locks
PassSlot(b) ==
    /\ builder[b].pc = "sweep" /\ builder[b].todo # {}
    /\ builder' = [builder EXCEPT ![b].todo = @ \ Lowest(@)]
    /\ UNCHANGED <<project, slot>>

\* Mutated form of SweepFails: no safety valve
SweepFailsForever(b) ==
    /\ builder[b].pc = "sweep" /\ builder[b].todo = {}
    /\ builder' = [builder EXCEPT ![b].pc = "sleep"]
    /\ UNCHANGED <<project, slot>>

\* No slot could be locked when it was tried: sleep, or give up after MAX_WAIT
SweepFails(b) ==
    /\ builder[b].pc = "sweep" /\ builder[b].todo = {}
    /\ builder' = [builder EXCEPT ![b].pc = IF builder[b].late THEN "ungated" ELSE "sleep"]
    /\ UNCHANGED <<project, slot>>

Wake(b) ==
    /\ builder[b].pc = "sleep"
    /\ builder' = [builder EXCEPT ![b].pc = "sweep", ![b].todo = builder[b].files]
    /\ UNCHANGED <<project, slot>>

\* The clock passes MAX_WAIT
GetLate(b) ==
    /\ builder[b].pc \in {"sweep", "sleep"} /\ ~builder[b].late
    /\ builder' = [builder EXCEPT ![b].late = TRUE]
    /\ UNCHANGED <<project, slot>>

-----------------------------------------------------------------------------
(* The end of a build.                                                     *)

Freed(locks, b) == [x \in DOMAIN locks |-> IF locks[x] = b THEN None ELSE locks[x]]

\* The slot goes at the end of the dense block, the project lock with the build
FinishDense(b) ==
    /\ builder[b].pc \in {"gated", "ungated"}
    /\ slot' = Freed(slot, b)
    /\ builder' = [builder EXCEPT ![b].pc = "tail"]
    /\ UNCHANGED project

Finish(b) ==
    /\ builder[b].pc = "tail"
    /\ project' = Freed(project, b)
    /\ builder' = [builder EXCEPT ![b] = Idle]
    /\ UNCHANGED slot

\* The process dies, or an error takes it out of every scope at once
Die(b) ==
    /\ builder[b].pc # "idle"
    /\ project' = Freed(project, b)
    /\ slot' = Freed(slot, b)
    /\ builder' = [builder EXCEPT ![b] = Idle]

Waits(b) == PassSlot(b) \/ SweepFails(b) \/ Wake(b) \/ TakeSlot(b)

Next == \E b \in Builders :
    \/ Request(b) \/ LockProject(b) \/ UpdateInPlace(b) \/ OpenSlots(b)
    \/ TakeSlot(b) \/ PassSlot(b) \/ SweepFails(b) \/ Wake(b) \/ GetLate(b)
    \/ FinishDense(b) \/ Finish(b) \/ Die(b)

\* A process that waits keeps running and its clock keeps going; nothing is
\* asked of a process that builds: it may hang with its locks
Fairness == \A b \in Builders : WF_vars(Waits(b)) /\ WF_vars(GetLate(b))

Spec == Init /\ [][Next]_vars /\ Fairness

-----------------------------------------------------------------------------
Gated == {b \in Builders : builder[b].pc = "gated"}
Building(b) == builder[b].pc \in Phases \ {"idle", "queued"}

(* At most n of the processes that believe in n slots or fewer run a full  *)
(* build through the gate, whatever the others believe.                    *)
GateHolds ==
    \A n \in 1 .. MaxLimit : Cardinality({b \in Gated : LimitOf[b] <= n}) <= n

(* A build passes the gate without a slot only when it could not open any  *)
(* slot file or has waited for MAX_WAIT.                                   *)
UngatedNeedsCause ==
    \A b \in Builders :
        builder[b].pc = "ungated" => builder[b].files = {} \/ builder[b].late

(* No two processes build one project: waiting for a slot, with or without *)
(* one, and after giving it back, a build keeps the project lock.          *)
OneBuildPerProject ==
    \A b, c \in Builders : Building(b) /\ Building(c) /\ b # c => builder[b].at # builder[c].at

(* A build that waits for a slot goes on some day, even when the processes *)
(* that hold the slots never end.                                          *)
NobodyWaitsForever ==
    \A b \in Builders : builder[b].pc \in {"sweep", "sleep"} ~> builder[b].pc \notin {"sweep", "sleep"}

(* The sweep over lock files is a counting semaphore: the promise of the   *)
(* module's documentation, with the largest limit any process computed.    *)
Gate == INSTANCE Semaphore WITH Limit <- MaxLimit, holders <- Gated
IsSemaphore == Gate!Spec

-----------------------------------------------------------------------------
(* The inductive invariant: which locks a process holds in each phase.     *)

HoldsProject ==
    \A b \in Builders :
        /\ builder[b].pc # "idle" => builder[b].at \in Projects
        /\ Building(b) => project[builder[b].at] = b

HoldsSlot == \A b \in Gated : \E i \in SlotsOf(b) : slot[i] = b

IInv == TypeOK /\ HoldsProject /\ HoldsSlot /\ UngatedNeedsCause

=============================================================================
