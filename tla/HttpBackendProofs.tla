------------------------- MODULE HttpBackendProofs -------------------------
(***************************************************************************)
(* For any number of requests and children: types, one child at a time,    *)
(* answers to their own callers and waiters that somebody will wake.       *)
(***************************************************************************)
EXTENDS HttpBackend, TLAPS

\* The counter in the wire id: a waiter is filed under the id of its own call
PendingOwn == \A k \in Children : \A p \in pending[k] : p.id = p.by
\* and a line of output carries the id of the call it answers, or none
OutOwn == \A k \in Children : \A i \in DOMAIN child[k].out : child[k].out[i].id \in {None, child[k].out[i].of}

IInv ==
    /\ TypeOK
    /\ StateNamesTheChild
    /\ PendingOwn
    /\ OutOwn
    /\ AnswersAreOwn
    /\ WaitersAreHeld

ChildType == [alive : BOOLEAN, writing : BOOLEAN, in : Seq(Lines), out : Seq(Answers),
              reader : {"gone", "reading", "ended", "drained"}]
CallType == [pc : CallPcs, shape : Shapes, map : Children \cup {None},
             writer : Children \cup {None}, slot : Calls \cup {Error, None}, late : BOOLEAN]

-----------------------------------------------------------------------------
LEMMA Names == /\ None \notin Calls /\ None \notin Children /\ Error \notin Calls
               /\ None \notin WireIds /\ \A c \in Calls : WireId(c) = c /\ c \in WireIds
BY NameAssumption DEF WireIds, WireId

LEMMA Blanks == NoChild \in ChildType /\ NewChild \in ChildType /\ NoCall \in CallType
BY DEF NoChild, NewChild, NoCall, ChildType, CallType, CallPcs, Shapes

LEMMA InitInv == Init => IInv
<1> SUFFICES ASSUME Init PROVE IInv
  OBVIOUS
<1>1. TypeOK
  BY Blanks, RespawnAssumption DEF Init, TypeOK, ChildType, CallType
<1>2. StateNamesTheChild /\ PendingOwn /\ OutOwn
  BY DEF Init, StateNamesTheChild, PendingOwn, OutOwn, NoChild
<1>3. AnswersAreOwn /\ WaitersAreHeld
  BY DEF Init, AnswersAreOwn, WaitersAreHeld, NoCall, Waiting
<1> QED
  BY <1>1, <1>2, <1>3 DEF IInv

-----------------------------------------------------------------------------
(* Every step keeps the types.                                             *)
LEMMA TypeInv == IInv /\ [Next]_vars => TypeOK'
<1> SUFFICES ASSUME IInv, [Next]_vars PROVE TypeOK'
  OBVIOUS
<1>0. /\ TypeOK
      /\ child \in [Children -> ChildType] /\ call \in [Calls -> CallType]
      /\ pending \in [Children -> SUBSET [id : WireIds, by : Calls]]
      /\ state \in Children \cup {None} /\ recent \in 0 .. MaxRespawns
  BY DEF IInv, TypeOK, ChildType, CallType
<1> DEFINE Typed == /\ child' \in [Children -> ChildType] /\ call' \in [Calls -> CallType]
                    /\ pending' \in [Children -> SUBSET [id : WireIds, by : Calls]]
                    /\ state' \in Children \cup {None} /\ recent' \in 0 .. MaxRespawns
<1>1. SUFFICES Typed
  BY <1>1 DEF TypeOK, ChildType, CallType
<1> USE <1>0, Blanks, Names
<1>2. CASE UNCHANGED vars
  BY <1>2 DEF vars
<1>3. CASE WindowPasses
  BY <1>3, RespawnAssumption DEF WindowPasses
<1>4. ASSUME NEW c \in Calls, Post(c) \/ Snapshot(c) \/ Return(c) \/ Cancel(c) PROVE Typed
  <2>1. CASE Post(c)
    <3>1. PICK shape \in Shapes : call' = [call EXCEPT ![c] = [NoCall EXCEPT !.pc = "start", !.shape = shape]]
      BY <2>1 DEF Post
    <3>2. [NoCall EXCEPT !.pc = "start", !.shape = shape] \in CallType
      BY DEF NoCall, CallType, CallPcs
    <3>3. call' \in [Calls -> CallType]
      BY <3>1, <3>2
    <3> QED
      BY <2>1, <3>3 DEF Post
  <2>2. CASE Snapshot(c)
    <3>1. call' \in [Calls -> CallType]
      BY <2>2 DEF Snapshot, End, CallType, CallPcs
    <3> QED
      BY <2>2, <3>1 DEF Snapshot
  <2>3. CASE Return(c) \/ Cancel(c)
    <3>1. call' \in [Calls -> CallType]
      BY <2>3 DEF Return, Cancel, End
    <3> QED
      BY <2>3, <3>1 DEF Return, Cancel
  <2> QED
    BY <1>4, <2>1, <2>2, <2>3
<1>5. ASSUME NEW c \in Calls, EnsureStarted(c) PROVE Typed
  <2>1. recent' \in 0 .. MaxRespawns
    BY <1>5, RespawnAssumption DEF EnsureStarted, LimitReached
  <2>2. call' \in [Calls -> CallType]
    BY <1>5 DEF EnsureStarted, Goto, End, CallType, CallPcs
  <2>3. state' \in Children \cup {None} /\ child' \in [Children -> ChildType]
        /\ pending' \in [Children -> SUBSET [id : WireIds, by : Calls]]
    BY <1>5 DEF EnsureStarted
  <2> QED
    BY <2>1, <2>2, <2>3
<1>6. ASSUME NEW c \in Calls, Register(c) PROVE Typed
  <2>1. pending' \in [Children -> SUBSET [id : WireIds, by : Calls]]
    BY <1>6 DEF Register, Insert
  <2>2. call' \in [Calls -> CallType]
    BY <1>6 DEF Register, End, CallType, CallPcs, ReaderAtWork
  <2> QED
    BY <1>6, <2>1, <2>2 DEF Register
<1>7. ASSUME NEW c \in Calls, Write(c) PROVE Typed
  <2> DEFINE k == call[c].writer
             line == [of |-> c, shape |-> call[c].shape]
  <2>1. line \in Lines
    BY DEF Lines, CallType
  <2>2. child' \in [Children -> ChildType]
    <3>1. CASE k \in Children
      <4>1. Append(child[k].in, line) \in Seq(Lines)
        BY <2>1, <3>1 DEF ChildType
      <4> QED
        BY <1>7, <4>1 DEF Write, ChildType
    <3>2. CASE k \notin Children
      BY <1>7, <3>2 DEF Write
    <3> QED
      BY <3>1, <3>2
  <2>3. call' \in [Calls -> CallType]
    BY <1>7 DEF Write, End, CallType, CallPcs
  <2>4. pending' \in [Children -> SUBSET [id : WireIds, by : Calls]] /\ UNCHANGED <<state, recent>>
    BY <1>7 DEF Write
  <2> QED
    BY <2>2, <2>3, <2>4
<1>8. ASSUME NEW k \in Children, Serve(k) PROVE Typed
  <2>1. /\ child[k].in \in Seq(Lines) /\ child[k].in # <<>> /\ child[k].out \in Seq(Answers)
    BY <1>8 DEF Serve, ChildType
  <2>2. Head(child[k].in) \in Lines /\ Tail(child[k].in) \in Seq(Lines)
    BY <2>1
  <2>3. Reply(Head(child[k].in)) \in Seq(Answers)
    <3> DEFINE head == Head(child[k].in)
    <3>1. head.of \in Calls
      BY <2>2 DEF Lines
    <3>2. [id |-> None, of |-> head.of] \in Answers /\ [id |-> WireId(head.of), of |-> head.of] \in Answers
      BY <3>1 DEF Answers
    <3> QED
      BY <3>2 DEF Reply
  <2>4. child[k].out \o Reply(Head(child[k].in)) \in Seq(Answers)
    BY <2>1, <2>3
  <2>5. child' \in [Children -> ChildType]
    BY <1>8, <2>2, <2>4 DEF Serve, ChildType
  <2> QED
    BY <1>8, <2>5 DEF Serve
<1>9. ASSUME NEW k \in Children, Die(k) PROVE Typed
  <2>1. PICK n \in 0 .. Len(child[k].in) :
            child' = [child EXCEPT ![k].alive = FALSE, ![k].in = SubSeq(@, n + 1, Len(@))]
    BY <1>9 DEF Die
  <2>2. SubSeq(child[k].in, n + 1, Len(child[k].in)) \in Seq(Lines)
    BY DEF ChildType
  <2>3. child' \in [Children -> ChildType]
    BY <2>1, <2>2 DEF ChildType
  <2> QED
    BY <1>9, <2>3 DEF Die
<1>10. ASSUME NEW k \in Children, WriterEnds(k) \/ ReadEnds(k) PROVE Typed
  <2>0. <<>> \in Seq(Lines) /\ <<>> \in Seq(Answers)
    OBVIOUS
  <2>1. child' \in [Children -> ChildType]
    <3>1. CASE WriterEnds(k)
      BY <2>0, <3>1 DEF WriterEnds, ChildType
    <3>2. CASE ReadEnds(k)
      BY <2>0, <3>2 DEF ReadEnds, ChildType
    <3> QED
      BY <1>10, <3>1, <3>2
  <2> QED
    BY <1>10, <2>1 DEF WriterEnds, ReadEnds
<1>11. ASSUME NEW k \in Children, ReadAnswer(k) PROVE Typed
  <2>1. child[k].out \in Seq(Answers) /\ child[k].out # <<>>
    BY <1>11 DEF ReadAnswer, ChildType
  <2>2. Head(child[k].out) \in Answers /\ Tail(child[k].out) \in Seq(Answers)
    BY <2>1
  <2>3. call' \in [Calls -> CallType]
    BY <1>11, <2>2 DEF ReadAnswer, Deliver, CallType, Answers
  <2>4. child' \in [Children -> ChildType]
    BY <1>11, <2>2 DEF ReadAnswer, ChildType
  <2> QED
    BY <1>11, <2>3, <2>4 DEF ReadAnswer
<1>12. ASSUME NEW k \in Children, Drain(k) PROVE Typed
  <2>1. call' \in [Calls -> CallType]
    BY <1>12 DEF Drain, Deliver, CallType
  <2>2. child' \in [Children -> ChildType]
    BY <1>12 DEF Drain, ChildType
  <2> QED
    BY <1>12, <2>1, <2>2 DEF Drain
<1>13. ASSUME NEW k \in Children, ClearState(k) PROVE Typed
  <2>1. [NoChild EXCEPT !.writing = child[k].writing] \in ChildType
    BY DEF NoChild, ChildType
  <2> QED
    BY <1>13, <2>1 DEF ClearState
<1> QED
  BY <1>2, <1>3, <1>4, <1>5, <1>6, <1>7, <1>8, <1>9, <1>10, <1>11, <1>12, <1>13 DEF Next, Eof, ReadError

-----------------------------------------------------------------------------
(* One child: only a dead child whose reader is gone is forgotten.         *)
LEMMA OneChildInv == IInv /\ [Next]_vars => StateNamesTheChild'
<1> SUFFICES ASSUME IInv, [Next]_vars PROVE StateNamesTheChild'
  OBVIOUS
<1>0. StateNamesTheChild /\ child \in [Children -> ChildType] /\ state \in Children \cup {None}
  BY DEF IInv, TypeOK, ChildType
<1> USE <1>0, Names DEF StateNamesTheChild
<1>1. CASE UNCHANGED vars \/ WindowPasses
  BY <1>1 DEF vars, WindowPasses
<1>2. ASSUME NEW c \in Calls, Post(c) \/ Register(c) \/ Snapshot(c) \/ Return(c) \/ Cancel(c)
      PROVE StateNamesTheChild'
  BY <1>2 DEF Post, Register, Snapshot, Return, Cancel
<1>3. ASSUME NEW c \in Calls, EnsureStarted(c) PROVE StateNamesTheChild'
  BY <1>3 DEF EnsureStarted
<1>4. ASSUME NEW c \in Calls, Write(c) PROVE StateNamesTheChild'
  BY <1>4 DEF Write, ChildType
<1>5. ASSUME NEW k \in Children, Serve(k) \/ WriterEnds(k) \/ ReadAnswer(k) PROVE StateNamesTheChild'
  <2>1. CASE Serve(k)
    BY <2>1 DEF Serve, ChildType
  <2>2. CASE WriterEnds(k)
    BY <2>2 DEF WriterEnds, ChildType
  <2>3. CASE ReadAnswer(k)
    BY <2>3 DEF ReadAnswer, ChildType
  <2> QED
    BY <1>5, <2>1, <2>2, <2>3
<1>7. ASSUME NEW k \in Children, Die(k) PROVE StateNamesTheChild'
  <2>1. \A j \in Children : (child'[j].alive => child[j].alive) /\ child'[j].reader = child[j].reader
    BY <1>7 DEF Die, ChildType
  <2> QED
    BY <1>7, <2>1 DEF Die
<1>8. ASSUME NEW k \in Children, ReadEnds(k) \/ Drain(k) PROVE StateNamesTheChild'
  <2>1. \A j \in Children :
            child'[j].alive = child[j].alive /\ (child'[j].reader # "gone" => child[j].reader # "gone")
    <3>1. CASE ReadEnds(k)
      BY <3>1 DEF ReadEnds, ChildType
    <3>2. CASE Drain(k)
      BY <3>2 DEF Drain, ChildType
    <3> QED
      BY <1>8, <3>1, <3>2
  <2> QED
    BY <1>8, <2>1 DEF ReadEnds, Drain
<1>6. ASSUME NEW k \in Children, ClearState(k) PROVE StateNamesTheChild'
  BY <1>6 DEF ClearState, NoChild, ChildType
<1> QED
  BY <1>1, <1>2, <1>3, <1>4, <1>5, <1>6, <1>7, <1>8 DEF Next, Eof, ReadError

-----------------------------------------------------------------------------
(* A waiter is filed under its own id, and a line answers the call whose id *)
(* it carries.                                                             *)
LEMMA OwnInv == IInv /\ [Next]_vars => PendingOwn' /\ OutOwn'
<1> SUFFICES ASSUME IInv, [Next]_vars PROVE PendingOwn' /\ OutOwn'
  OBVIOUS
<1>0. /\ child \in [Children -> ChildType] /\ call \in [Calls -> CallType]
      /\ pending \in [Children -> SUBSET [id : WireIds, by : Calls]]
      /\ state \in Children \cup {None} /\ PendingOwn /\ OutOwn
  BY DEF IInv, TypeOK, ChildType, CallType
<1>1. CASE UNCHANGED vars \/ WindowPasses
  BY <1>0, <1>1 DEF vars, WindowPasses, PendingOwn, OutOwn
<1>2. ASSUME NEW c \in Calls, Post(c) \/ Snapshot(c) \/ Return(c) \/ Cancel(c) PROVE PendingOwn' /\ OutOwn'
  BY <1>0, <1>2 DEF Post, Snapshot, Return, Cancel, PendingOwn, OutOwn
<1>3. ASSUME NEW c \in Calls, EnsureStarted(c) PROVE PendingOwn' /\ OutOwn'
  BY <1>0, <1>3 DEF EnsureStarted, NewChild, PendingOwn, OutOwn
<1>4. ASSUME NEW c \in Calls, Register(c) PROVE PendingOwn' /\ OutOwn'
  BY <1>0, <1>4, Names DEF Register, Insert, PendingOwn, OutOwn
<1>5. ASSUME NEW c \in Calls, Write(c) PROVE PendingOwn' /\ OutOwn'
  <2>1. OutOwn'
    <3>1. \A k \in Children : child'[k].out = child[k].out
      BY <1>0, <1>5 DEF Write, ChildType
    <3> QED
      BY <1>0, <3>1 DEF OutOwn
  <2>2. PendingOwn'
    <3>1. \A k \in Children : pending'[k] \subseteq pending[k]
      BY <1>0, <1>5 DEF Write
    <3> QED
      BY <1>0, <3>1 DEF PendingOwn
  <2> QED
    BY <2>1, <2>2
<1>6. ASSUME NEW k \in Children, Serve(k) PROVE PendingOwn' /\ OutOwn'
  <2> DEFINE more == Reply(Head(child[k].in))
  <2>1. /\ child[k].in \in Seq(Lines) /\ child[k].in # <<>> /\ child[k].out \in Seq(Answers)
    BY <1>0, <1>6 DEF Serve, ChildType
  <2>2. Head(child[k].in).of \in Calls
    <3>1. Head(child[k].in) \in Lines
      BY <2>1
    <3> QED
      BY <3>1 DEF Lines
  <2>3. more \in Seq(Answers) /\ \A i \in DOMAIN more : more[i].id \in {None, more[i].of}
    <3> DEFINE c == Head(child[k].in).of
    <3>1. [id |-> None, of |-> c] \in Answers /\ [id |-> WireId(c), of |-> c] \in Answers /\ WireId(c) = c
      BY <2>2, Names DEF Answers
    <3>2. more \in {<<>>, <<[id |-> None, of |-> c]>>, <<[id |-> WireId(c), of |-> c]>>}
      BY DEF Reply
    <3>3. \A a \in Answers : a.id \in {None, a.of} =>
              <<a>> \in Seq(Answers) /\ \A i \in DOMAIN <<a>> : <<a>>[i].id \in {None, <<a>>[i].of}
      OBVIOUS
    <3>4. <<>> \in Seq(Answers) /\ DOMAIN <<>> = {}
      OBVIOUS
    <3> QED
      BY <3>1, <3>2, <3>3, <3>4
  <2> HIDE DEF more
  <2>4. \A i \in DOMAIN (child[k].out \o more) :
            (child[k].out \o more)[i].id \in {None, (child[k].out \o more)[i].of}
    BY <1>0, <2>1, <2>3 DEF OutOwn
  <2>5. child'[k].out = child[k].out \o more /\ \A j \in Children \ {k} : child'[j] = child[j]
    BY <1>0, <1>6 DEF Serve, ChildType, more
  <2>6. OutOwn'
    BY <1>0, <2>4, <2>5 DEF OutOwn
  <2> QED
    BY <1>0, <1>6, <2>6 DEF Serve, PendingOwn
<1>7. ASSUME NEW k \in Children, ReadAnswer(k) PROVE PendingOwn' /\ OutOwn'
  <2>1. child[k].out \in Seq(Answers) /\ child[k].out # <<>>
    BY <1>0, <1>7 DEF ReadAnswer, ChildType
  <2>2. child'[k].out = Tail(child[k].out) /\ \A j \in Children \ {k} : child'[j] = child[j]
    BY <1>0, <1>7 DEF ReadAnswer, ChildType
  <2>3. OutOwn'
    <3>1. \A i \in DOMAIN Tail(child[k].out) :
              i + 1 \in DOMAIN child[k].out /\ Tail(child[k].out)[i] = child[k].out[i + 1]
      BY <2>1
    <3> SUFFICES ASSUME NEW j \in Children, NEW i \in DOMAIN child'[j].out
                 PROVE child'[j].out[i].id \in {None, child'[j].out[i].of}
      BY DEF OutOwn
    <3>2. CASE j # k
      BY <1>0, <2>2, <3>2 DEF OutOwn
    <3>3. CASE j = k
      <4>1. i + 1 \in DOMAIN child[k].out /\ child'[j].out[i] = child[k].out[i + 1]
        BY <2>2, <3>1, <3>3
      <4>2. child[k].out[i + 1].id \in {None, child[k].out[i + 1].of}
        BY <1>0, <4>1 DEF OutOwn
      <4> QED
        BY <4>1, <4>2
    <3> QED
      BY <3>2, <3>3
  <2>4. PendingOwn'
    BY <1>0, <1>7 DEF ReadAnswer, PendingOwn
  <2> QED
    BY <2>3, <2>4
<1>8. ASSUME NEW k \in Children, Die(k) \/ WriterEnds(k) \/ ReadEnds(k) PROVE PendingOwn' /\ OutOwn'
  <2>1. \A j \in Children : child'[j].out \in {child[j].out, <<>>}
    <3>1. CASE Die(k)
      BY <1>0, <3>1 DEF Die, ChildType
    <3>2. CASE WriterEnds(k)
      BY <1>0, <3>2 DEF WriterEnds, ChildType
    <3>3. CASE ReadEnds(k)
      BY <1>0, <3>3 DEF ReadEnds, ChildType
    <3> QED
      BY <1>8, <3>1, <3>2, <3>3
  <2>2. OutOwn'
    BY <1>0, <2>1 DEF OutOwn
  <2> QED
    BY <1>0, <1>8, <2>2 DEF Die, WriterEnds, ReadEnds, PendingOwn
<1>9. ASSUME NEW k \in Children, Drain(k) \/ ClearState(k) PROVE PendingOwn' /\ OutOwn'
  <2>1. \A j \in Children : child'[j].out \in {child[j].out, <<>>}
    <3>1. CASE Drain(k)
      BY <1>0, <3>1 DEF Drain, ChildType
    <3>2. CASE ClearState(k)
      BY <1>0, <3>2 DEF ClearState, NoChild, ChildType
    <3> QED
      BY <1>9, <3>1, <3>2
  <2>2. OutOwn'
    BY <1>0, <2>1 DEF OutOwn
  <2>3. \A j \in Children : pending'[j] \subseteq pending[j]
    BY <1>0, <1>9 DEF Drain, ClearState
  <2> QED
    BY <1>0, <2>2, <2>3 DEF PendingOwn
<1> QED
  BY <1>1, <1>2, <1>3, <1>4, <1>5, <1>6, <1>7, <1>8, <1>9 DEF Next, Eof, ReadError

-----------------------------------------------------------------------------
(* What a call holds in its slot is its own answer or an error.            *)
LEMMA AnswersInv == IInv /\ [Next]_vars => AnswersAreOwn'
<1> SUFFICES ASSUME IInv, [Next]_vars PROVE AnswersAreOwn'
  OBVIOUS
<1>0. /\ child \in [Children -> ChildType] /\ call \in [Calls -> CallType]
      /\ pending \in [Children -> SUBSET [id : WireIds, by : Calls]]
      /\ PendingOwn /\ OutOwn /\ AnswersAreOwn
  BY DEF IInv, TypeOK, ChildType, CallType
<1>1. CASE UNCHANGED call
  BY <1>0, <1>1 DEF AnswersAreOwn
<1>2. ASSUME NEW c \in Calls, Post(c) \/ EnsureStarted(c) \/ Register(c) \/ Snapshot(c) \/ Write(c) \/ Return(c) \/ Cancel(c)
      PROVE AnswersAreOwn'
  <2>1. \A d \in Calls : call'[d].slot \in {call[d].slot, None}
    <3>0. CASE Post(c)
      BY <1>0, <3>0 DEF Post, NoCall, CallType
    <3>1. CASE Return(c) \/ Cancel(c)
      BY <1>0, <3>1 DEF Return, Cancel, End, NoCall, CallType
    <3>2. CASE EnsureStarted(c)
      BY <1>0, <3>2 DEF EnsureStarted, Goto, End, NoCall, CallType
    <3>3. CASE Register(c)
      BY <1>0, <3>3 DEF Register, End, NoCall, CallType
    <3>4. CASE Snapshot(c) \/ Write(c)
      BY <1>0, <3>4 DEF Snapshot, Write, End, NoCall, CallType
    <3> QED
      BY <1>2, <3>0, <3>1, <3>2, <3>3, <3>4
  <2> QED
    BY <1>0, <2>1 DEF AnswersAreOwn
<1>3. ASSUME NEW k \in Children, ReadAnswer(k) PROVE AnswersAreOwn'
  <2> DEFINE answer == Head(child[k].out)
             found == {p \in pending[k] : p.id = answer.id}
  <2>1. answer.id \in {None, answer.of}
    BY <1>0, <1>3 DEF ReadAnswer, OutOwn, ChildType
  <2>2. \A p \in found : p.by = answer.of
    BY <1>0, <2>1, Names DEF PendingOwn
  <2>3. \A d \in Calls : call'[d].slot = call[d].slot \/ (call'[d].slot = answer.of /\ d \in {p.by : p \in found})
    BY <1>0, <1>3 DEF ReadAnswer, Deliver, CallType
  <2> QED
    BY <1>0, <2>2, <2>3 DEF AnswersAreOwn
<1>4. ASSUME NEW k \in Children, Drain(k) PROVE AnswersAreOwn'
  <2>1. \A d \in Calls : call'[d].slot \in {call[d].slot, Error}
    BY <1>0, <1>4 DEF Drain, Deliver, CallType
  <2> QED
    BY <1>0, <2>1 DEF AnswersAreOwn
<1> QED
  BY <1>1, <1>2, <1>3, <1>4 DEF Next, Eof, ReadError, WindowPasses, Serve, Die, WriterEnds, ReadEnds, ClearState, vars

-----------------------------------------------------------------------------
(* An unanswered waiter that came in time is in the map of a reader that   *)
(* will answer or drain it.                                                *)
Held(c) == Waiting(c) /\ ~call[c].late /\ call[c].shape # "notification" /\ call[c].slot = None
Filed(c, k) == ReaderAtWork(k) /\ [id |-> c, by |-> c] \in pending[k]

LEMMA HeldInv == IInv /\ [Next]_vars => WaitersAreHeld'
<1> SUFFICES ASSUME IInv, [Next]_vars, NEW c \in Calls, Held(c)' PROVE \E k \in Children : Filed(c, k)'
  BY Names DEF WaitersAreHeld, Held, Filed, WireId
<1>0. /\ child \in [Children -> ChildType] /\ call \in [Calls -> CallType]
      /\ pending \in [Children -> SUBSET [id : WireIds, by : Calls]]
      /\ state \in Children \cup {None} /\ PendingOwn /\ OutOwn /\ StateNamesTheChild
      /\ Held(c) => \E k \in Children : Filed(c, k)
  BY Names DEF IInv, TypeOK, ChildType, CallType, WaitersAreHeld, Held, Filed, WireId
<1>1. CASE UNCHANGED vars \/ WindowPasses
  BY <1>0, <1>1 DEF vars, WindowPasses, Held, Filed, Waiting, ReaderAtWork
<1>2. ASSUME NEW d \in Calls, Post(d) \/ Snapshot(d) \/ Return(d) \/ Cancel(d) PROVE \E k \in Children : Filed(c, k)'
  <2>1. Held(c)
    <3>1. CASE Post(d)
      BY <1>0, <3>1 DEF Post, Held, Waiting, CallType
    <3>2. CASE Snapshot(d)
      BY <1>0, <3>2 DEF Snapshot, End, NoCall, Held, Waiting, CallType
    <3>3. CASE Return(d) \/ Cancel(d)
      BY <1>0, <3>3 DEF Return, Cancel, End, NoCall, Held, Waiting, CallType
    <3> QED
      BY <1>2, <3>1, <3>2, <3>3
  <2> QED
    BY <1>0, <1>2, <2>1 DEF Post, Snapshot, Return, Cancel, Filed, ReaderAtWork
<1>3. ASSUME NEW d \in Calls, EnsureStarted(d) PROVE \E k \in Children : Filed(c, k)'
  <2>1. Held(c)
    BY <1>0, <1>3 DEF EnsureStarted, Goto, End, NoCall, Held, Waiting, CallType
  <2>2. PICK k \in Children : Filed(c, k)
    BY <1>0, <2>1
  <2>3. state # None
    BY <1>0, <2>2, Names DEF StateNamesTheChild, Filed, ReaderAtWork
  <2> QED
    BY <1>3, <2>2, <2>3 DEF EnsureStarted, Filed, ReaderAtWork
<1>4. ASSUME NEW d \in Calls, Register(d) PROVE \E k \in Children : Filed(c, k)'
  <2>1. CASE d # c
    <3>1. Held(c)
      BY <1>0, <1>4, <2>1 DEF Register, End, Held, Waiting, CallType
    <3>2. PICK k \in Children : Filed(c, k)
      BY <1>0, <3>1
    <3> QED
      BY <1>0, <1>4, <2>1, <3>2, Names DEF Register, Insert, Filed, ReaderAtWork, WireId
  <2>2. CASE d = c
    <3>1. state # None
      BY <1>0, <1>4, <2>2 DEF Register, End, NoCall, Held, Waiting
    <3>2. ReaderAtWork(state)
      BY <1>0, <1>4, <2>2, <3>1 DEF Register, Held, CallType
    <3> QED
      BY <1>0, <1>4, <2>2, <3>1, <3>2 DEF Register, Insert, Filed, ReaderAtWork, WireId
  <2> QED
    BY <2>1, <2>2
<1>5. ASSUME NEW d \in Calls, Write(d) PROVE \E k \in Children : Filed(c, k)'
  <2>1. Held(c) /\ (c = d => child[call[d].writer].writing)
    BY <1>0, <1>5 DEF Write, End, NoCall, Held, Waiting, CallType
  <2>2. PICK k \in Children : Filed(c, k)
    BY <1>0, <2>1
  <2>3. child'[k].reader = child[k].reader
    BY <1>0, <1>5 DEF Write, ChildType
  <2>4. [id |-> c, by |-> c] \in pending'[k]
    BY <1>0, <1>5, <2>1, <2>2 DEF Write, Filed, WireId
  <2> QED
    BY <2>2, <2>3, <2>4 DEF Filed, ReaderAtWork
<1>6. ASSUME NEW j \in Children, Serve(j) \/ Die(j) \/ WriterEnds(j) \/ ReadEnds(j) PROVE \E k \in Children : Filed(c, k)'
  <2>1. UNCHANGED <<call, pending>>
    BY <1>6 DEF Serve, Die, WriterEnds, ReadEnds
  <2>2. PICK k \in Children : Filed(c, k)
    BY <1>0, <2>1 DEF Held, Waiting
  <2>3. ReaderAtWork(k)'
    <3>1. CASE Serve(j)
      BY <1>0, <2>2, <3>1 DEF Serve, Filed, ReaderAtWork, ChildType
    <3>2. CASE Die(j)
      BY <1>0, <2>2, <3>2 DEF Die, Filed, ReaderAtWork, ChildType
    <3>3. CASE WriterEnds(j)
      BY <1>0, <2>2, <3>3 DEF WriterEnds, Filed, ReaderAtWork, ChildType
    <3>4. CASE ReadEnds(j)
      BY <1>0, <2>2, <3>4 DEF ReadEnds, Filed, ReaderAtWork, ChildType
    <3> QED
      BY <1>6, <3>1, <3>2, <3>3, <3>4
  <2> QED
    BY <2>1, <2>2, <2>3 DEF Filed
<1>7. ASSUME NEW j \in Children, ReadAnswer(j) PROVE \E k \in Children : Filed(c, k)'
  <2> DEFINE answer == Head(child[j].out)
             found == {p \in pending[j] : p.id = answer.id}
  <2>1. answer.id \in {None, answer.of} /\ answer.of # None
    <3>1. child[j].out \in Seq(Answers) /\ child[j].out # <<>>
      BY <1>0, <1>7 DEF ReadAnswer, ChildType
    <3>2. answer \in Answers /\ 1 \in DOMAIN child[j].out /\ answer = child[j].out[1]
      BY <3>1
    <3> QED
      BY <1>0, <3>2, Names DEF OutOwn, Answers
  <2>2. Held(c) /\ c \notin {p.by : p \in found}
    BY <1>0, <1>7, <2>1 DEF ReadAnswer, Deliver, Held, Waiting, CallType
  <2>3. PICK k \in Children : Filed(c, k)
    BY <1>0, <2>2
  <2>4. ReaderAtWork(k)'
    BY <1>0, <1>7, <2>3 DEF ReadAnswer, Filed, ReaderAtWork, ChildType
  <2>5. [id |-> c, by |-> c] \in pending'[k]
    BY <1>0, <1>7, <2>2, <2>3 DEF ReadAnswer, Filed
  <2> QED
    BY <2>4, <2>5 DEF Filed
<1>8. ASSUME NEW j \in Children, Drain(j) PROVE \E k \in Children : Filed(c, k)'
  <2>1. Held(c) /\ c \notin {p.by : p \in pending[j]}
    BY <1>0, <1>8, NameAssumption DEF Drain, Deliver, Held, Waiting, CallType
  <2>2. PICK k \in Children : Filed(c, k)
    BY <1>0, <2>1
  <2>3. k # j
    BY <2>1, <2>2 DEF Filed
  <2> QED
    BY <1>0, <1>8, <2>2, <2>3 DEF Drain, Filed, ReaderAtWork
<1>9. ASSUME NEW j \in Children, ClearState(j) PROVE \E k \in Children : Filed(c, k)'
  <2>1. PICK k \in Children : Filed(c, k)
    BY <1>0, <1>9 DEF ClearState, Held, Waiting
  <2>2. k # j
    BY <1>9, <2>1 DEF ClearState, Filed, ReaderAtWork
  <2> QED
    BY <1>0, <1>9, <2>1, <2>2 DEF ClearState, Filed, ReaderAtWork
<1> QED
  BY <1>1, <1>2, <1>3, <1>4, <1>5, <1>6, <1>7, <1>8, <1>9 DEF Next, Eof, ReadError

-----------------------------------------------------------------------------
LEMMA NextInv == IInv /\ [Next]_vars => IInv'
BY TypeInv, OneChildInv, OwnInv, AnswersInv, HeldInv DEF IInv

(* All of it, always. *)
THEOREM Invariance == Spec => []IInv
BY InitInv, NextInv, PTL DEF Spec

(* Every variable keeps its type, whatever dies at whatever moment. *)
THEOREM TypeCorrect == Spec => []TypeOK
<1>1. IInv => TypeOK
  BY DEF IInv
<1> QED
  BY <1>1, Invariance, PTL

(* A child that runs or whose reader is not done is the child the backend  *)
(* holds: no reader ever clears the state of a successor.                  *)
THEOREM OneChildAtATime == Spec => []StateNamesTheChild
<1>1. IInv => StateNamesTheChild
  BY DEF IInv
<1> QED
  BY <1>1, Invariance, PTL

(* However many clients send the same id at once, each gets the answer to  *)
(* its own request or an error.                                            *)
THEOREM AnswersGoHome == Spec => []AnswersAreOwn
<1>1. IInv => AnswersAreOwn
  BY DEF IInv
<1> QED
  BY <1>1, Invariance, PTL

(* Every unanswered request that registered in time has somebody to wake it. *)
THEOREM WaitersKept == Spec => []WaitersAreHeld
<1>1. IInv => WaitersAreHeld
  BY DEF IInv
<1> QED
  BY <1>1, Invariance, PTL
=============================================================================
