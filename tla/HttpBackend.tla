---------------------------- MODULE HttpBackend ----------------------------
(***************************************************************************)
(* `semantex mcp --http`: HTTP requests carried to one child process       *)
(* `semantex mcp` over its stdin and stdout (http_transport.rs, the        *)
(* SubprocessBackend; the main loop of the child is server.rs, run).       *)
(*                                                                         *)
(* Every request is a task of its own.  It takes the lock of the backend's *)
(* state three times: to start a child if there is none, to put its waiter *)
(* in the child's map of pending requests, and to take the queue of the    *)
(* child's writer.  A writer and a reader task serve each child; the       *)
(* reader, once the child's output ends, first answers the waiters left in *)
(* the map and then, in a step of its own, clears the state.               *)
(*                                                                         *)
(* A call or a child whose name nothing refers to any more may be used     *)
(* again.  All clients send the same id, which is the hardest case.        *)
(***************************************************************************)
EXTENDS Naturals, Sequences, FiniteSets, SequencesExt

CONSTANTS
    Calls,          \* the HTTP requests in flight
    Children,       \* the child processes
    MaxRespawns,    \* MAX_RESPAWNS_PER_WINDOW
    SameId,         \* the id every client sends
    Error, None

ASSUME NameAssumption ==
    /\ Calls \cap Children = {} /\ IsFiniteSet(Calls \cup Children)
    /\ {SameId, Error, None} \cap (Calls \cup Children) = {}
    /\ SameId # Error /\ SameId # None /\ Error # None
ASSUME RespawnAssumption == MaxRespawns \in Nat \ {0}

VARIABLES
    state,      \* the child the backend holds, or None
    child,      \* for each child: the process, its two pipes, its tasks
    pending,    \* for each child: its map of waiters
    recent,     \* respawns recorded in the current window
    call        \* what every request is doing; late: it registered after the reader's drain

vars == <<state, child, pending, recent, call>>

\* A "malformed" body has an id but is no JsonRpcRequest (it has no method, say)
Shapes == {"request", "notification", "malformed"}
CallPcs == {"done", "start", "register", "snapshot", "write", "await"}
WireIds == Calls \cup {SameId}
Lines == [of : Calls, shape : Shapes]
Answers == [id : WireIds \cup {None}, of : Calls]

TypeOK ==
    /\ state \in Children \cup {None}
    /\ child \in [Children -> [alive : BOOLEAN, writing : BOOLEAN, in : Seq(Lines), out : Seq(Answers),
                               reader : {"gone", "reading", "ended", "drained"}]]
    /\ pending \in [Children -> SUBSET [id : WireIds, by : Calls]]
    /\ recent \in 0 .. MaxRespawns
    /\ call \in [Calls -> [pc : CallPcs, shape : Shapes, map : Children \cup {None},
                           writer : Children \cup {None}, slot : Calls \cup {Error, None}, late : BOOLEAN]]

NoChild == [alive |-> FALSE, writing |-> FALSE, in |-> <<>>, out |-> <<>>, reader |-> "gone"]
NewChild == [alive |-> TRUE, writing |-> TRUE, in |-> <<>>, out |-> <<>>, reader |-> "reading"]
NoCall == [pc |-> "done", shape |-> "request", map |-> None, writer |-> None, slot |-> None, late |-> FALSE]

Init ==
    /\ state = None /\ recent = 0
    /\ child = [k \in Children |-> NoChild]
    /\ pending = [k \in Children |-> {}]
    /\ call = [c \in Calls |-> NoCall]

\* Mutant: the client's id as it is
WireIdOfClient(c) == SameId
\* The id on the wire: the client's id behind a counter that no other request has
WireId(c) == c

ReaderAtWork(k) == child[k].reader \in {"reading", "ended"}
Waiting(c) == call[c].pc \in {"snapshot", "write", "await"}
Goto(c, pc) == call' = [call EXCEPT ![c].pc = pc]
End(c) == call' = [call EXCEPT ![c] = NoCall]

\* Nothing refers to the child: it is dead, both tasks are over and no task holds its map or queue
Unused(k) ==
    /\ ~child[k].alive /\ child[k].reader = "gone"
    /\ \A c \in Calls : k \notin {call[c].map, call[c].writer}
\* The counter never gives a number twice: a name is free when no map, queue or pipe holds it
Free(c) ==
    /\ call[c].pc = "done"
    /\ \A k \in {j \in Children : ~Unused(j)} :
           /\ \A p \in pending[k] : p.by # c
           /\ \A m \in Range(child[k].in) \cup Range(child[k].out) : m.of # c

-----------------------------------------------------------------------------
(* A request                                                               *)

\* mcp_dispatch hands the body over (a tool outside the toolset it refuses by itself)
Post(c) ==
    /\ Free(c)
    /\ \E shape \in Shapes : call' = [call EXCEPT ![c] = [NoCall EXCEPT !.pc = "start", !.shape = shape]]
    /\ UNCHANGED <<state, child, pending, recent>>

\* The window moves on and forgets its oldest respawn
WindowPasses ==
    /\ recent > 0
    /\ recent' = recent - 1
    /\ UNCHANGED <<state, child, pending, call>>

\* enforce_respawn_limit, before it records the respawn
LimitReached == recent >= MaxRespawns

\* ensure_started, under the lock of the state: a respawn is recorded before it succeeds
EnsureStarted(c) ==
    /\ call[c].pc = "start"
    /\ \/ /\ state # None
          /\ Goto(c, "register")
          /\ UNCHANGED <<state, child, pending, recent>>
       \/ /\ state = None /\ LimitReached
          /\ End(c)
          /\ UNCHANGED <<state, child, pending, recent>>
       \/ /\ state = None /\ ~LimitReached
          /\ recent' = recent + 1
          /\ \/ /\ End(c)
                /\ UNCHANGED <<state, child, pending>>
             \/ \E k \in Children :
                    /\ Unused(k)
                    /\ state' = k
                    /\ child' = [child EXCEPT ![k] = NewChild]
                    /\ pending' = [pending EXCEPT ![k] = {}]
                    /\ Goto(c, "register")

\* The waiter goes into the map of the child the state holds at this moment
Insert(k, c) == pending' = [pending EXCEPT ![k] = {p \in @ : p.id # WireId(c)} \cup {[id |-> WireId(c), by |-> c]}]

Register(c) ==
    /\ call[c].pc = "register" /\ call[c].shape # "notification"
    /\ IF state = None
       THEN End(c) /\ UNCHANGED pending
       ELSE /\ Insert(state, c)
            /\ call' = [call EXCEPT ![c].pc = "snapshot", ![c].map = state, ![c].late = ~ReaderAtWork(state)]
    /\ UNCHANGED <<state, child, recent>>

\* The writer may by now be that of another child; without one the waiter stays in the map
Snapshot(c) ==
    /\ \/ call[c].pc = "snapshot"
       \/ call[c].pc = "register" /\ call[c].shape = "notification"
    /\ IF state = None
       THEN End(c)
       ELSE call' = [call EXCEPT ![c].pc = "write", ![c].writer = state]
    /\ UNCHANGED <<state, child, pending, recent>>

\* Enqueue the line; the queue is closed when the writer task is over
Write(c) ==
    /\ call[c].pc = "write"
    /\ LET k == call[c].writer
           open == child[k].writing
       IN /\ child' = IF open THEN [child EXCEPT ![k].in = Append(@, [of |-> c, shape |-> call[c].shape])] ELSE child
          /\ IF open /\ call[c].shape # "notification"
             THEN call' = [call EXCEPT ![c].pc = "await", ![c].writer = None]
             ELSE End(c)
          /\ pending' = IF open \/ call[c].map = None THEN pending
                        ELSE [pending EXCEPT ![call[c].map] = {p \in @ : p.id # WireId(c)}]
    /\ UNCHANGED <<state, recent>>

\* The answer has come: its id is the client's again
Return(c) ==
    /\ call[c].pc = "await" /\ call[c].slot # None
    /\ End(c)
    /\ UNCHANGED <<state, child, pending, recent>>

\* The client hangs up: the task is dropped where it waits, its entry stays in the map
Cancel(c) ==
    /\ call[c].pc \in {"start", "register", "snapshot", "await"}
    /\ End(c)
    /\ UNCHANGED <<state, child, pending, recent>>

-----------------------------------------------------------------------------
(* The child and its two tasks                                             *)

\* The answer of the child's loop; a line it cannot parse is answered without an id
Reply(line) ==
    CASE line.shape = "notification" -> <<>>
      [] line.shape = "malformed" -> <<[id |-> None, of |-> line.of]>>
      [] OTHER -> <<[id |-> WireId(line.of), of |-> line.of]>>

Serve(k) ==
    /\ child[k].alive /\ child[k].in # <<>>
    /\ child' = [child EXCEPT ![k].in = Tail(@), ![k].out = @ \o Reply(Head(child[k].in))]
    /\ UNCHANGED <<state, pending, recent, call>>

\* The process ends: what its pipe held is lost, what the writer had not handed over is not
Die(k) ==
    /\ child[k].alive
    /\ \E n \in 0 .. Len(child[k].in) :
           child' = [child EXCEPT ![k].alive = FALSE, ![k].in = SubSeq(@, n + 1, Len(@))]
    /\ UNCHANGED <<state, pending, recent, call>>

\* A write to the broken pipe ends the writer task and closes its queue
WriterEnds(k) ==
    /\ child[k].writing /\ ~child[k].alive /\ child[k].in # <<>>
    /\ child' = [child EXCEPT ![k].writing = FALSE, ![k].in = <<>>]
    /\ UNCHANGED <<state, pending, recent, call>>

\* What the waiters ws of a map get; a waiter that was dropped gets nothing
Deliver(ws, result) ==
    call' = [c \in Calls |-> IF c \in ws /\ Waiting(c) /\ call[c].slot = None
                             THEN [call[c] EXCEPT !.slot = result] ELSE call[c]]

\* One line of output: an answer without an id finds no waiter
ReadAnswer(k) ==
    /\ child[k].reader = "reading" /\ child[k].out # <<>>
    /\ LET answer == Head(child[k].out)
           found == {p \in pending[k] : p.id = answer.id}
       IN /\ pending' = [pending EXCEPT ![k] = @ \ found]
          /\ Deliver({p.by : p \in found}, answer.of)
    /\ child' = [child EXCEPT ![k].out = Tail(@)]
    /\ UNCHANGED <<state, recent>>

\* End of the output, or an error of the read while the child still runs
ReadEnds(k) ==
    /\ child[k].reader = "reading"
    /\ child' = [child EXCEPT ![k].reader = "ended", ![k].out = <<>>]
    /\ UNCHANGED <<state, pending, recent, call>>
Eof(k) == ~child[k].alive /\ child[k].out = <<>> /\ ReadEnds(k)
\* Mutant: the error returns from the loop instead of breaking out of it
ReadErrorReturns(k) ==
    /\ child[k].reader = "reading"
    /\ child' = [child EXCEPT ![k].reader = "gone", ![k].out = <<>>]
    /\ UNCHANGED <<state, pending, recent, call>>
ReadError(k) == ReadEnds(k)

\* Mutant: without the drain
DrainNothing(k) ==
    /\ child[k].reader = "ended"
    /\ child' = [child EXCEPT ![k].reader = "drained"]
    /\ UNCHANGED <<state, pending, recent, call>>
\* Every waiter still in the map is woken with an error
Drain(k) ==
    /\ child[k].reader = "ended"
    /\ Deliver({p.by : p \in pending[k]}, Error)
    /\ pending' = [pending EXCEPT ![k] = {}]
    /\ child' = [child EXCEPT ![k].reader = "drained"]
    /\ UNCHANGED <<state, recent>>

\* Mutant: without kill_on_drop
ClearStateOnly(k) ==
    /\ child[k].reader = "drained"
    /\ state' = None
    /\ child' = [child EXCEPT ![k].reader = "gone"]
    /\ UNCHANGED <<pending, recent, call>>

\* The state is cleared, which kills the child (kill_on_drop).  Its map is read no more: only
\* the tasks that hold it could still take their own waiter out
ClearState(k) ==
    /\ child[k].reader = "drained"
    /\ state' = None
    /\ child' = [child EXCEPT ![k] = [NoChild EXCEPT !.writing = child[k].writing]]
    /\ pending' = [pending EXCEPT ![k] = {}]
    /\ UNCHANGED <<recent, call>>

Next ==
    \/ WindowPasses
    \/ \E c \in Calls :
           Post(c) \/ EnsureStarted(c) \/ Register(c) \/ Snapshot(c) \/ Write(c) \/ Return(c) \/ Cancel(c)
    \/ \E k \in Children :
           \/ Serve(k) \/ Die(k) \/ WriterEnds(k)
           \/ ReadAnswer(k) \/ Eof(k) \/ ReadError(k) \/ Drain(k) \/ ClearState(k)

-----------------------------------------------------------------------------
Step(c) == EnsureStarted(c) \/ Register(c) \/ Snapshot(c) \/ Write(c) \/ Return(c)

\* The runtime runs every task and the child answers what it reads; nobody has to hang up or to die
Spec ==
    /\ Init /\ [][Next]_vars
    /\ \A c \in Calls : WF_vars(Step(c))
    /\ \A k \in Children :
           WF_vars(Serve(k)) /\ WF_vars(ReadAnswer(k)) /\ WF_vars(Eof(k)) /\ WF_vars(Drain(k)) /\ WF_vars(ClearState(k))

\* Clients that send the same id at the same moment each get their own answer (the
\* comment of send_request, http_transport.rs:356-359), also past deaths of the child
AnswersAreOwn == \A c \in Calls : call[c].slot \in {c, Error, None}

\* A child that runs, or whose reader has not finished, is the one the state holds: a
\* reader never clears the state, and so kills the child, of a successor
StateNamesTheChild == \A k \in Children : child[k].alive \/ child[k].reader # "gone" => state = k

\* A request nobody has answered is in the map of a reader that has not drained it yet,
\* except for those that came between that reader's drain and its clearing of the state
WaitersAreHeld ==
    \A c \in Calls :
        Waiting(c) /\ ~call[c].late /\ call[c].shape # "notification" /\ call[c].slot = None =>
            \E k \in Children : ReaderAtWork(k) /\ [id |-> WireId(c), by |-> c] \in pending[k]

\* Whatever child or writer ends at whatever moment, a request that can be parsed comes
\* to an end, unless it registered between the drain and the clearing of the state
CallsEnd ==
    \A c \in Calls : call[c].pc = "start" /\ call[c].shape # "malformed" ~> call[c].pc = "done" \/ call[c].late
=============================================================================
