-------------------------- MODULE GitHistoryProofs --------------------------
(***************************************************************************)
(* For any history of commits, any limit and any number of processes:      *)
(* types, no gap below the watermark, no commit without its files and no   *)
(* fetch over the limit.                                                   *)
(***************************************************************************)
EXTENDS GitHistory, FiniteSetTheorems, WellFoundedInduction, TLAPS

Covered == stored \cup skipped \cup missed

\* Of one run: until git log has answered, HEAD is where rev-parse found it, unless it moved;
HeadKnown(p) == run[p].pc \in {"read", "exists", "count", "log"} /\ run[p].moved = {} =>
    run[p].head = head
\* what a range leaves out is covered;
BaseCovered(p) == run[p].base # None => Ancestors[run[p].base] \subseteq Covered
\* a run with nothing to fetch has all of its head covered;
ShortcutCovered(p) == run[p].pc = "shortcut" /\ run[p].moved = {} =>
    Ancestors[run[p].head] \subseteq Covered
\* what is below the newest commit of a batch is in it, left out by the limit, or covered;
BatchCovered(p) ==
    /\ run[p].pc \in {"names", "store"} =>
          Ancestors[Newest(run[p].batch)] \subseteq run[p].batch \cup run[p].left \cup Covered
    /\ run[p].pc = "mark" => Ancestors[Newest(run[p].batch)] \subseteq run[p].left \cup Covered
\* the two walks list the same commits;
SameWalk(p) == "names" \notin run[p].moved =>
    /\ run[p].pc = "names" => run[p].batch = Walk(run[p])
    /\ run[p].pc = "store" => run[p].batch \subseteq run[p].named
\* and a range that is walked whole was counted.
Counted(p) == run[p].pc = "log" /\ ~run[p].bounded /\ "log" \notin run[p].moved =>
    Cardinality(RevRange(run[p].base)) <= Limit

Below(p) == HeadKnown(p) /\ BaseCovered(p) /\ ShortcutCovered(p) /\ BatchCovered(p)
Fetch(p) == run[p].pc = "names" =>
    Cardinality(run[p].batch) <= Limit \/ "log" \in run[p].moved

IInv ==
    /\ TypeOK
    /\ \A p \in Procs : Below(p) /\ SameWalk(p) /\ Counted(p) /\ Fetch(p)
    /\ NoGapBelowMark
    /\ FilesFollowCommits

-----------------------------------------------------------------------------
(* Facts about the walks.                                                  *)

LEMMA Graph == ASSUME NEW c \in Commits
               PROVE /\ c \in Nat /\ c \in Ancestors[c] /\ c # None
                     /\ Ancestors[c] \subseteq Commits /\ Ancestors[c] \subseteq Nat
                     /\ \A d \in Ancestors[c] : d <= c /\ ~(d > c)
                     /\ \A d \in Ancestors[c] : Ancestors[d] \subseteq Ancestors[c]
<1>1. /\ c \in Nat /\ c \in Ancestors[c] /\ Ancestors[c] \subseteq Commits /\ c # None
  BY CommitsAssumption
<1>2. Ancestors[c] \subseteq Nat
  BY <1>1, CommitsAssumption
<1>3. \A d \in Ancestors[c] : d <= c /\ Ancestors[d] \subseteq Ancestors[c]
  BY CommitsAssumption
<1>4. ASSUME NEW d \in Ancestors[c] PROVE ~(d > c)
  BY <1>1, <1>2, <1>3
<1> QED
  BY <1>1, <1>2, <1>3, <1>4

LEMMA NatMin == ASSUME NEW S, S \subseteq Nat, S # {} PROVE \E x \in S : \A y \in S : x <= y
<1>1. \E x \in S : \A y \in S : ~(<<y, x>> \in OpToRel(<, Nat))
  BY NatLessThanWellFounded, WFMin
<1>2. PICK x \in S : \A y \in S : ~(<<y, x>> \in OpToRel(<, Nat))
  BY <1>1
<1>3. \A y \in S : <<y, x>> \in OpToRel(<, Nat) <=> y < x
  BY DEF OpToRel
<1>4. ASSUME NEW y \in S PROVE x <= y
  <2>1. x \in Nat /\ y \in Nat /\ ~(y < x)
    BY <1>2, <1>3
  <2> QED
    BY <2>1
<1> QED
  BY <1>4

\* -n keeps at most n commits
LEMMA CappedBound == ASSUME NEW S, S \subseteq Commits, NEW n \in Nat
                     PROVE Capped(S, n) \subseteq S /\ Cardinality(Capped(S, n)) <= n
<1> DEFINE T == Capped(S, n)
<1>1. T \subseteq S /\ S \subseteq Nat /\ IsFiniteSet(S) /\ IsFiniteSet(T)
  BY CommitsAssumption, FS_Subset DEF Capped
<1>2. CASE T = {}
  BY <1>1, <1>2, FS_EmptySet
<1>3. CASE T # {}
  <2>1. PICK m \in T : \A c \in T : m <= c
    BY <1>1, <1>3, NatMin
  <2> DEFINE above == {d \in S : d > m}
  <2>2. IsFiniteSet(above) /\ Cardinality(above) \in Nat /\ Cardinality(above) < n
    BY <1>1, <2>1, FS_Subset, FS_CardinalityType DEF Capped
  <2>3. ASSUME NEW c \in T PROVE c \in above \cup {m}
    <3>1. c \in Nat /\ m \in Nat /\ m <= c /\ c \in S
      BY <1>1, <2>1
    <3>2. c = m \/ c > m
      BY <3>1
    <3> QED
      BY <3>1, <3>2
  <2>4. IsFiniteSet(above \cup {m}) /\ Cardinality(above \cup {m}) <= Cardinality(above) + 1
    BY <2>2, FS_AddElement
  <2>5. Cardinality(T) <= Cardinality(above \cup {m})
    BY <2>3, <2>4, FS_Subset
  <2> QED
    BY <1>1, <2>2, <2>4, <2>5, FS_CardinalityType
<1> QED
  BY <1>1, <1>2, <1>3

\* HEAD is the newest commit of every walk that finds any
LEMMA WalkReachesHead ==
  ASSUME head \in Commits, NEW r, r.bounded \/ r.base \in Commits, Walk(r) # {}
  PROVE /\ Walk(r) \subseteq Reachable /\ Walk(r) \subseteq Commits
        /\ head \in Walk(r) /\ Newest(Walk(r)) = head
<1>1. Walk(r) \subseteq Reachable /\ Reachable \subseteq Commits /\ head \in Reachable
  BY Graph DEF Walk, Capped, RevRange, Reachable
<1>2. head \in Walk(r)
  <2>1. CASE r.bounded
    <3>1. {d \in Reachable : d > head} = {}
      BY Graph DEF Reachable
    <3> QED
      BY <1>1, <2>1, <3>1, FS_EmptySet, BoundsAssumption DEF Walk, Capped
  <2>2. CASE ~r.bounded
    <3>1. PICK c \in Reachable : c \notin Ancestors[r.base]
      BY <2>2 DEF Walk, RevRange
    <3>2. head \notin Ancestors[r.base]
      BY <2>2, <3>1, Graph DEF Reachable
    <3> QED
      BY <1>1, <2>2, <3>2 DEF Walk, RevRange
  <2> QED
    BY <2>1, <2>2
<1>3. \A d \in Walk(r) : d <= head
  BY <1>1, Graph DEF Reachable
<1>4. ASSUME NEW c \in Walk(r), \A d \in Walk(r) : d <= c PROVE c = head
  <2>1. c \in Nat /\ head \in Nat /\ c <= head /\ head <= c
    BY <1>1, <1>2, <1>3, <1>4, Graph
  <2> QED
    BY <2>1
<1>5. Newest(Walk(r)) = head
  BY <1>2, <1>3, <1>4 DEF Newest
<1> QED
  BY <1>1, <1>2, <1>5

\* and a bounded walk always finds some.
LEMMA BoundedWalkFinds == ASSUME head \in Commits, NEW r, r.bounded PROVE Walk(r) # {}
<1>1. head \in Reachable /\ {d \in Reachable : d > head} = {}
  BY Graph DEF Reachable
<1>2. head \in Capped(Reachable, Limit)
  BY <1>1, FS_EmptySet, BoundsAssumption DEF Capped
<1> QED
  BY <1>2 DEF Walk

LEMMA NewestType == ASSUME NEW S, S \subseteq Commits, S # {} PROVE Newest(S) \in S
<1>1. IsFiniteSet(S) /\ S \subseteq Nat
  BY CommitsAssumption, FS_Subset
<1>2. \E c \in S : \A d \in S : d <= c
  <2> DEFINE above[c \in S] == {d \in S : d > c}
             counts == {Cardinality(above[c]) : c \in S}
  <2>1. \A c \in S : above[c] \subseteq S /\ IsFiniteSet(above[c]) /\ Cardinality(above[c]) \in Nat
    BY <1>1, FS_Subset, FS_CardinalityType
  <2>2. counts \subseteq Nat /\ counts # {}
    BY <2>1
  <2>5. PICK n \in counts : \A k \in counts : n <= k
    BY <2>2, NatMin
  <2>3. PICK c \in S : n = Cardinality(above[c])
    BY <2>5
  <2>4. ASSUME NEW d \in S, ~(d <= c) PROVE FALSE
    <3>1. d \in Nat /\ c \in Nat /\ d > c
      BY <1>1, <2>4
    <3>2. above[d] \subseteq above[c] /\ d \in above[c] /\ d \notin above[d]
      <4>1. ASSUME NEW e \in S, e > d PROVE e > c
        <5>1. e \in Nat
          BY <1>1
        <5> QED
          BY <3>1, <4>1, <5>1
      <4>2. ~(d > d)
        BY <3>1
      <4> QED
        BY <3>1, <4>1, <4>2
    <3>3. Cardinality(above[d]) <= Cardinality(above[c])
          /\ Cardinality(above[d]) # Cardinality(above[c])
      BY <2>1, <3>2, FS_Subset
    <3>4. Cardinality(above[c]) <= Cardinality(above[d])
      BY <2>3, <2>5
    <3> QED
      BY <2>1, <3>3, <3>4
  <2> QED
    BY <2>4
<1> QED
  BY <1>2 DEF Newest

LEMMA EmptyRange == ASSUME head \in Commits, NEW b \in Commits, Cardinality(RevRange(b)) = 0
                    PROVE RevRange(b) = {}
<1>1. RevRange(b) \subseteq Commits /\ IsFiniteSet(Commits)
  BY Graph, CommitsAssumption DEF RevRange, Reachable
<1>2. IsFiniteSet(RevRange(b))
  BY <1>1, FS_Subset
<1> QED
  BY <1>2, FS_EmptySet

-----------------------------------------------------------------------------
(* Types.                                                                  *)

\* The part of TypeOK that is about one run
RunOK(r) ==
    /\ r \in Runs
    /\ r.pc # "idle" => r.head # None
    /\ r.pc \in {"exists", "count"} => r.base # None
    /\ r.pc \in {"log", "names"} => r.bounded \/ r.base # None
    /\ r.pc \in {"names", "store", "mark"} => r.batch # {}

\* A step of a run leaves every run well typed if it leaves its own so
LEMMA OneRun ==
  ASSUME run \in [Procs -> Runs], \A q \in Procs : RunOK(run[q]),
         NEW p \in Procs, NEW r, RunOK(r), run' = [run EXCEPT ![p] = r]
  PROVE run' \in [Procs -> Runs] /\ \A q \in Procs : RunOK(run'[q])
<1>1. run' \in [Procs -> Runs]
  BY DEF RunOK
<1>2. \A q \in Procs : run'[q] = IF q = p THEN r ELSE run[q]
  OBVIOUS
<1> QED
  BY <1>1, <1>2

LEMMA TypeInit == Init => TypeOK
<1> SUFFICES ASSUME Init PROVE TypeOK
  OBVIOUS
<1>1. NoRun \in Runs
  BY DEF NoRun, Runs
<1> QED
  BY <1>1 DEF Init, TypeOK, NoRun

LEMMA TypeStep == TypeOK /\ [Next]_vars => TypeOK'
<1> SUFFICES ASSUME TypeOK, [Next]_vars PROVE TypeOK'
  OBVIOUS
<1>0. /\ head \in Commits /\ Reachable \subseteq Commits /\ gone \subseteq Commits \ Reachable
      /\ stored \subseteq Commits /\ files \subseteq Commits
      /\ mark \in Commits \cup {None} /\ run \in [Procs -> Runs]
      /\ \A q \in Procs : RunOK(run[q])
      /\ skipped \subseteq Commits /\ missed \subseteq Commits /\ bare \subseteq Commits
  BY Graph DEF TypeOK, RunOK, Reachable
<1> DEFINE RunsOK == run' \in [Procs -> Runs] /\ \A q \in Procs : RunOK(run'[q])
<1> DEFINE Typed == /\ head' \in Commits /\ gone' \subseteq Commits \ Ancestors[head']
                    /\ stored' \subseteq Commits /\ files' \subseteq Commits
                    /\ mark' \in Commits \cup {None} /\ RunsOK
                    /\ skipped' \subseteq Commits /\ missed' \subseteq Commits
                    /\ bare' \subseteq Commits
<1>1. SUFFICES Typed
  BY <1>1 DEF TypeOK, RunOK
<1>2. CASE UNCHANGED vars
  BY <1>0, <1>2 DEF vars, db, log, git, Reachable
<1>3. ASSUME NEW p \in Procs, End(p) PROVE RunsOK
  <2>1. RunOK(NoRun)
    BY DEF RunOK, NoRun, Runs
  <2> QED
    BY <1>0, <1>3, <2>1, OneRun DEF End
<1>4. ASSUME NEW p \in Procs, Bounded(p), run[p].pc \in {"read", "exists", "count"} PROVE RunsOK
  <2> DEFINE r == [run[p] EXCEPT !.pc = "log", !.bounded = TRUE, !.base = None]
  <2>1. r \in Runs /\ r.pc = "log" /\ r.bounded /\ r.head = run[p].head
    BY <1>0 DEF Runs, Steps
  <2>3. RunOK(r)
    BY <1>0, <1>4, <2>1 DEF RunOK
  <2>2. run' = [run EXCEPT ![p] = r]
    BY <1>0, <1>4 DEF Bounded
  <2> QED
    BY <1>0, <2>2, <2>3, OneRun
<1>5. ASSUME NEW p \in Procs, NEW pc \in {"count", "shortcut", "log"}, Go(p, pc),
             run[p].pc \in {"exists", "count", "log"}, run[p].pc = "log" => pc = "shortcut"
      PROVE RunsOK
  <2> DEFINE r == [run[p] EXCEPT !.pc = pc]
  <2>1. RunOK(r)
    BY <1>0, <1>5 DEF RunOK, Runs, Steps
  <2>2. run' = [run EXCEPT ![p] = r]
    BY <1>0, <1>5 DEF Go
  <2> QED
    BY <1>0, <2>1, <2>2, OneRun
<1>6. ASSUME NEW p \in Procs, Start(p) PROVE RunsOK
  <2> DEFINE r == [NoRun EXCEPT !.pc = "read", !.head = head]
  <2>1. RunOK(r)
    BY <1>0, Graph DEF RunOK, NoRun, Runs, Steps
  <2> QED
    BY <1>0, <1>6, <2>1, OneRun DEF Start
<1>7. ASSUME NEW p \in Procs, ReadState(p) PROVE RunsOK
  <2> DEFINE r == [run[p] EXCEPT !.pc = "exists", !.base = mark]
  <2>1. ASSUME mark \notin {run[p].head, None}, run' = [run EXCEPT ![p].pc = "exists", ![p].base = mark]
        PROVE RunsOK
    <3>1. RunOK(r)
      BY <1>0, <1>7, <2>1 DEF ReadState, RunOK, Runs, Steps
    <3>2. run' = [run EXCEPT ![p] = r]
      BY <1>0, <2>1
    <3> QED
      BY <1>0, <3>1, <3>2, OneRun
  <2> QED
    BY <1>3, <1>4, <1>7, <2>1 DEF ReadState
<1>8. ASSUME NEW p \in Procs, Exists(p) \/ Count(p) PROVE RunsOK
  <2>1. CASE Exists(p)
    BY <1>4, <1>5, <2>1 DEF Exists
  <2>2. CASE Count(p)
    <3>1. Bounded(p) \/ Go(p, "shortcut") \/ Go(p, "log")
      BY <2>2 DEF Count
    <3> QED
      BY <1>4, <1>5, <2>2, <3>1 DEF Count
  <2> QED
    BY <1>8, <2>1, <2>2
<1>9. ASSUME NEW p \in Procs, FetchMetadata(p) PROVE RunsOK
  <2> DEFINE batch == Walk(run[p])
             r == [run[p] EXCEPT !.pc = "names", !.batch = batch, !.moved = @ \cap {"log"},
                                 !.left = IF run[p].bounded THEN Reachable \ batch ELSE {}]
  <2>1. CASE batch = {}
    BY <1>5, <1>9, <2>1 DEF FetchMetadata
  <2>2. CASE batch # {}
    <3>1. batch \subseteq Commits
      <4>1. run[p].bounded \/ run[p].base \in Commits
        BY <1>0, <1>9 DEF FetchMetadata, RunOK, Runs
      <4> QED
        BY <1>0, <2>2, <4>1, WalkReachesHead
    <3>2. r.pc = "names" /\ r.batch = batch /\ r.head = run[p].head /\ r.base = run[p].base
          /\ r.bounded = run[p].bounded /\ r \in Runs
      BY <1>0, <3>1 DEF Runs, Steps
    <3>3. RunOK(r)
      BY <1>0, <1>9, <2>2, <3>2 DEF RunOK, FetchMetadata
    <3>4. run' = [run EXCEPT ![p] = r]
      BY <1>0, <1>9, <2>2 DEF FetchMetadata
    <3> QED
      BY <1>0, <3>3, <3>4, OneRun
  <2> QED
    BY <2>1, <2>2
<1>10. ASSUME NEW p \in Procs, FetchFiles(p) PROVE RunsOK
  <2>1. PICK named \in SUBSET Commits, moved \in SUBSET {"start", "log", "names"} :
           Listed(p, named, moved)
    <3>1. Walk(run[p]) \subseteq Commits
      BY <1>0 DEF Walk, Capped, RevRange
    <3> QED
      BY <3>1, <1>10 DEF FetchFiles
  <2> DEFINE r == [run[p] EXCEPT !.pc = "store", !.named = named, !.moved = moved,
                                 !.base = None, !.bounded = FALSE]
  <2>4. r \in Runs /\ r.pc = "store" /\ r.head = run[p].head /\ r.batch = run[p].batch
    BY <1>0 DEF Runs, Steps
  <2>2. RunOK(r)
    BY <1>0, <1>10, <2>4 DEF RunOK, FetchFiles
  <2>3. run' = [run EXCEPT ![p] = r]
    BY <1>0, <2>1 DEF Listed
  <2> QED
    BY <1>0, <2>2, <2>3, OneRun
<1>11. ASSUME NEW p \in Procs, StoreBatch(p) PROVE RunsOK
  <2> DEFINE r == [run[p] EXCEPT !.pc = "mark", !.named = {}, !.moved = {}]
  <2>1. RunOK(r)
    BY <1>0, <1>11 DEF RunOK, Runs, Steps, StoreBatch
  <2>2. run' = [run EXCEPT ![p] = r]
    BY <1>0, <1>11 DEF StoreBatch
  <2> QED
    BY <1>0, <2>1, <2>2, OneRun
<1>12. ASSUME NEW p \in Procs, WriteMark(p) PROVE mark' \in Commits
  <2>1. run[p].batch \subseteq Commits /\ run[p].batch # {}
    BY <1>0, <1>12 DEF WriteMark, RunOK, Runs
  <2> QED
    BY <1>12, <2>1, NewestType DEF WriteMark
<1>13. ASSUME MoveHead PROVE RunsOK
  <2>1. ASSUME NEW q \in Procs PROVE RunOK(run'[q])
    <3>1. CASE run[q].pc = "idle"
      BY <1>13, <3>1 DEF MoveHead, RunOK, NoRun, Runs
    <3>2. CASE run[q].pc # "idle"
      <4>1. Since[run[q].pc] \subseteq {"start", "log", "names"}
        BY <1>0, <3>2 DEF RunOK, Runs, Since
      <4>2. run'[q] = [run[q] EXCEPT !.moved = @ \cup Since[run[q].pc]]
        BY <1>13, <3>2 DEF MoveHead
      <4> QED
        BY <1>0, <4>1, <4>2 DEF RunOK, Runs
    <3> QED
      BY <3>1, <3>2
  <2>2. run' \in [Procs -> Runs]
    <3>1. DOMAIN run' = Procs /\ run' = [q \in Procs |-> run'[q]]
      BY <1>13 DEF MoveHead
    <3> QED
      BY <2>1, <3>1 DEF RunOK
  <2> QED
    BY <2>1, <2>2
<1>14. ASSUME NEW p \in Procs, Populate(p) PROVE Typed
  <2>1. RunsOK
    BY <1>3, <1>6, <1>7, <1>8, <1>9, <1>10, <1>11, <1>14
       DEF Populate, WriteMark, WriteHead, Fails
  <2>2. /\ run[p].batch \subseteq Commits /\ run[p].named \subseteq Commits
        /\ run[p].left \subseteq Commits
    BY <1>0 DEF RunOK, Runs
  <2>3. /\ stored' \subseteq Commits /\ files' \subseteq Commits /\ bare' \subseteq Commits
        /\ skipped' \subseteq Commits /\ missed' \subseteq Commits
    <3>1. CASE StoreBatch(p)
      BY <1>0, <2>2, <3>1 DEF StoreBatch
    <3>2. CASE WriteMark(p)
      BY <1>0, <2>2, <3>2 DEF WriteMark
    <3>3. CASE WriteHead(p)
      <4>1. run[p].head \in Commits
        BY <1>0, <3>3 DEF WriteHead, RunOK, Runs
      <4> QED
        BY <1>0, <3>3, <4>1, Graph DEF WriteHead
    <3> QED
      BY <1>0, <1>14, <3>1, <3>2, <3>3 DEF Populate, Start, ReadState, Exists, Count,
         FetchMetadata, FetchFiles, Fails, db, log
  <2>4. mark' \in Commits \cup {None}
    BY <1>0, <1>12, <1>14 DEF Populate, Start, ReadState, Exists, Count, FetchMetadata,
       FetchFiles, StoreBatch, WriteHead, Fails, db, RunOK, Runs
  <2>5. UNCHANGED git
    BY <1>14 DEF Populate, Start, ReadState, Exists, Count, FetchMetadata, FetchFiles,
       StoreBatch, WriteMark, WriteHead, Fails
  <2>6. head' \in Commits /\ gone' \subseteq Commits \ Ancestors[head']
    BY <1>0, <2>5 DEF git, Reachable
  <2> QED
    BY <2>1, <2>3, <2>4, <2>6
<1>15. CASE MoveHead
  BY <1>0, <1>13, <1>15 DEF MoveHead, db, log
<1>16. CASE Prune
  <2>1. PICK c \in Commits \ (Reachable \cup gone) :
           gone' = gone \cup {d \in Commits : c \in Ancestors[d]}
    BY <1>16 DEF Prune
  <2>2. \A d \in Commits : c \in Ancestors[d] => d \notin Reachable
    BY <1>0, <2>1, Graph DEF Reachable
  <2>3. gone' \subseteq Commits \ Reachable
    BY <1>0, <2>1, <2>2
  <2> QED
    BY <1>0, <1>16, <2>3 DEF Prune, db, log, Reachable
<1> QED
  BY <1>2, <1>14, <1>15, <1>16 DEF Next

\* The types, however many processes populate a history of whatever shape.
THEOREM TypeCorrect == Spec => []TypeOK
<1> QED
  BY TypeInit, TypeStep, PTL DEF Spec

-----------------------------------------------------------------------------
(* No gap below the watermark.                                             *)

\* What is covered stays covered
LEMMA CoveredGrows == TypeOK /\ [Next]_vars => Covered \subseteq Covered'
<1> SUFFICES ASSUME TypeOK, [Next]_vars PROVE Covered \subseteq Covered'
  OBVIOUS
<1>1. CASE UNCHANGED vars \/ MoveHead \/ Prune
  BY <1>1 DEF vars, db, log, MoveHead, Prune, Covered
<1>2. ASSUME NEW p \in Procs, Populate(p) PROVE Covered \subseteq Covered'
  <2>1. CASE StoreBatch(p)
    BY <2>1 DEF StoreBatch, Covered
  <2>2. CASE WriteMark(p) \/ WriteHead(p)
    BY <2>2 DEF WriteMark, WriteHead, Covered
  <2> QED
    BY <1>2, <2>1, <2>2 DEF Populate, Start, ReadState, Exists, Count, FetchMetadata,
       FetchFiles, Fails, db, log, Covered
<1> QED
  BY <1>1, <1>2 DEF Next

\* A run that does not step, while HEAD rests
LEMMA Resting ==
  ASSUME NEW q \in Procs, run'[q] = run[q], head' = head, Covered \subseteq Covered',
         Below(q), SameWalk(q), Counted(q), Fetch(q)
  PROVE Below(q)' /\ SameWalk(q)' /\ Counted(q)' /\ Fetch(q)'
<1>1. Below(q)'
  BY DEF Below, HeadKnown, BaseCovered, ShortcutCovered, BatchCovered, Covered
<1>2. SameWalk(q)' /\ Counted(q)' /\ Fetch(q)'
  BY DEF SameWalk, Counted, Fetch, Walk, Capped, RevRange, Reachable
<1> QED
  BY <1>1, <1>2

\* A run that is over, has not yet counted, or goes for a bounded walk
LEMMA Early ==
  ASSUME NEW p \in Procs, head' = head,
         \/ run'[p] = NoRun
         \/ /\ \/ run'[p].pc \in {"read", "exists", "count"}
               \/ run'[p].pc = "log" /\ run'[p].bounded
            /\ run'[p].moved = {} => run'[p].head = head
            /\ run'[p].base # None => Ancestors[run'[p].base] \subseteq Covered'
  PROVE Below(p)' /\ SameWalk(p)' /\ Counted(p)' /\ Fetch(p)'
BY DEF Below, HeadKnown, BaseCovered, ShortcutCovered, BatchCovered, SameWalk, Counted, Fetch, NoRun

LEMMA FetchStep ==
  ASSUME IInv, NEW p \in Procs, FetchMetadata(p), Covered \subseteq Covered'
  PROVE Below(p)' /\ SameWalk(p)' /\ Counted(p)' /\ Fetch(p)'
<1> DEFINE batch == Walk(run[p])
<1>0. /\ head \in Commits /\ run \in [Procs -> Runs] /\ head' = head
      /\ Below(p) /\ Counted(p)
      /\ run[p].pc = "log" /\ (run[p].bounded \/ run[p].base \in Commits)
  BY DEF IInv, TypeOK, FetchMetadata, git, Runs
<1>1. CASE batch = {}
  <2>1. run' = [run EXCEPT ![p].pc = "shortcut"]
    BY <1>1 DEF FetchMetadata, Go
  <2>2. /\ run'[p].pc = "shortcut" /\ run'[p].moved = run[p].moved
        /\ run'[p].head = run[p].head /\ run'[p].base = run[p].base
    BY <1>0, <2>1 DEF Runs
  <2>3. ~run[p].bounded /\ run[p].base \in Commits
    BY <1>0, <1>1, BoundedWalkFinds
  <2>4. Ancestors[head] \subseteq Ancestors[run[p].base]
    BY <1>1, <2>3 DEF Walk, RevRange, Reachable
  <2>5. Ancestors[head] \subseteq Covered' /\ Ancestors[run[p].base] \subseteq Covered'
    BY <1>0, <2>3, <2>4, Graph DEF Below, BaseCovered
  <2>6. run[p].moved = {} => run[p].head = head
    BY <1>0 DEF Below, HeadKnown
  <2> QED
    BY <2>2, <2>5, <2>6 DEF Below, HeadKnown, BaseCovered, ShortcutCovered, BatchCovered,
       SameWalk, Counted, Fetch
<1>2. CASE batch # {}
  <2>1. run' = [run EXCEPT ![p].pc = "names", ![p].batch = batch, ![p].moved = @ \cap {"log"},
                          ![p].left = IF run[p].bounded THEN Reachable \ batch ELSE {}]
    BY <1>2 DEF FetchMetadata
  <2>2. /\ run'[p].pc = "names" /\ run'[p].batch = batch
        /\ run'[p].moved = run[p].moved \cap {"log"}
        /\ run'[p].base = run[p].base /\ run'[p].bounded = run[p].bounded
        /\ run'[p].left = IF run[p].bounded THEN Reachable \ batch ELSE {}
    BY <1>0, <2>1 DEF Runs
  <2>3. Newest(batch) = head /\ batch \subseteq Commits
    BY <1>0, <1>2, WalkReachesHead
  <2>4. run[p].base # None => Ancestors[run[p].base] \subseteq Covered'
    BY <1>0 DEF Below, BaseCovered
  <2>5. Reachable \subseteq batch \cup run'[p].left \cup Covered'
    <3>1. CASE run[p].bounded
      BY <2>2, <3>1
    <3>2. CASE ~run[p].bounded
      BY <1>0, <2>4, <3>2, Graph DEF Walk, RevRange
    <3> QED
      BY <3>1, <3>2
  <2>6. Below(p)'
    BY <2>2, <2>3, <2>4, <2>5 DEF Below, HeadKnown, BaseCovered, ShortcutCovered, BatchCovered,
       Reachable
  <2>7. SameWalk(p)' /\ Counted(p)'
    BY <1>0, <2>2 DEF SameWalk, Counted, Walk, Capped, RevRange, Reachable
  <2>8. Fetch(p)'
    <3>1. CASE run[p].bounded
      <4>1. Limit \in Nat /\ Reachable \subseteq Commits
        BY <1>0, BoundsAssumption, Graph DEF Reachable
      <4>2. Cardinality(batch) <= Limit
        BY <3>1, <4>1, CappedBound DEF Walk
      <4> QED
        BY <2>2, <4>2 DEF Fetch
    <3>2. CASE ~run[p].bounded
      BY <1>0, <2>2, <3>2 DEF Fetch, Counted, Walk
    <3> QED
      BY <3>1, <3>2
  <2> QED
    BY <2>6, <2>7, <2>8
<1> QED
  BY <1>1, <1>2

LEMMA RunStep ==
  ASSUME IInv, NEW p \in Procs, Populate(p), Covered \subseteq Covered'
  PROVE Below(p)' /\ SameWalk(p)' /\ Counted(p)' /\ Fetch(p)'
<1> DEFINE Good == Below(p)' /\ SameWalk(p)' /\ Counted(p)' /\ Fetch(p)'
<1>0. /\ head \in Commits /\ run \in [Procs -> Runs] /\ run[p] \in Runs
      /\ Below(p) /\ SameWalk(p) /\ mark \in Commits \cup {None}
  BY DEF IInv, TypeOK
<1>1. head' = head
  BY DEF Populate, Start, ReadState, Exists, Count, FetchMetadata, FetchFiles, StoreBatch,
     WriteMark, WriteHead, Fails, git
<1>2. ASSUME End(p) PROVE Good
  BY <1>0, <1>1, <1>2, Early DEF End
<1>3. ASSUME Bounded(p), run[p].pc \in {"read", "exists", "count"} PROVE Good
  <2>1. /\ run'[p].pc = "log" /\ run'[p].bounded /\ run'[p].base = None
        /\ run'[p].moved = run[p].moved /\ run'[p].head = run[p].head
    BY <1>0, <1>3 DEF Bounded, Runs
  <2> QED
    BY <1>0, <1>1, <1>3, <2>1, Early DEF Below, HeadKnown
<1>4. CASE Start(p)
  <2>1. run'[p].pc = "read" /\ run'[p].head = head /\ run'[p].base = None
    BY <1>0, <1>4 DEF Start, NoRun
  <2> QED
    BY <1>1, <2>1, Early
<1>5. CASE ReadState(p)
  <2>1. CASE mark \notin {run[p].head, None} /\ run' = [run EXCEPT ![p].pc = "exists", ![p].base = mark]
    <3>1. /\ run'[p].pc = "exists" /\ run'[p].base = mark
          /\ run'[p].moved = run[p].moved /\ run'[p].head = run[p].head
      BY <1>0, <2>1 DEF Runs
    <3>2. Ancestors[mark] \subseteq Covered'
      BY <2>1 DEF IInv, NoGapBelowMark, Covered
    <3>3. run[p].moved = {} => run[p].head = head
      BY <1>0, <1>5 DEF ReadState, Below, HeadKnown
    <3> QED
      BY <1>1, <3>1, <3>2, <3>3, Early
  <2> QED
    BY <1>2, <1>3, <1>5, <2>1 DEF ReadState
<1>6. CASE Exists(p)
  <2>1. CASE Go(p, "count")
    <3>1. /\ run'[p].pc = "count" /\ run'[p].base = run[p].base
          /\ run'[p].moved = run[p].moved /\ run'[p].head = run[p].head
      BY <1>0, <2>1 DEF Go, Runs
    <3> QED
      BY <1>0, <1>1, <1>6, <3>1, Early DEF Exists, Below, HeadKnown, BaseCovered
  <2> QED
    BY <1>3, <1>6, <2>1 DEF Exists
<1>7. CASE Count(p)
  <2>1. run[p].pc = "count" /\ run[p].base \in Commits
    BY <1>0, <1>7 DEF Count, IInv, TypeOK, Runs
  <2>2. Ancestors[run[p].base] \subseteq Covered' /\ (run[p].moved = {} => run[p].head = head)
    BY <1>0, <2>1, Graph DEF Below, BaseCovered, HeadKnown
  <2>3. CASE Cardinality(RevRange(run[p].base)) = 0 /\ Go(p, "shortcut")
    <3>1. /\ run'[p].pc = "shortcut" /\ run'[p].base = run[p].base
          /\ run'[p].moved = run[p].moved /\ run'[p].head = run[p].head
      BY <1>0, <2>3 DEF Go, Runs
    <3>2. Ancestors[head] \subseteq Ancestors[run[p].base]
      BY <1>0, <2>1, <2>3, EmptyRange DEF RevRange, Reachable
    <3> QED
      BY <2>2, <3>1, <3>2 DEF Below, HeadKnown, BaseCovered, ShortcutCovered, BatchCovered,
         SameWalk, Counted, Fetch
  <2>4. CASE ~(Cardinality(RevRange(run[p].base)) > Limit) /\ Go(p, "log")
    <3>1. /\ run'[p].pc = "log" /\ run'[p].base = run[p].base
          /\ run'[p].moved = run[p].moved /\ run'[p].head = run[p].head
      BY <1>0, <2>4 DEF Go, Runs
    <3>2. Cardinality(RevRange(run[p].base)) <= Limit
      <4>1. RevRange(run[p].base) \subseteq Commits /\ IsFiniteSet(Commits)
        BY <1>0, Graph, CommitsAssumption DEF RevRange, Reachable
      <4>2. Cardinality(RevRange(run[p].base)) \in Nat
        BY <4>1, FS_Subset, FS_CardinalityType
      <4> QED
        BY <2>4, <4>2, BoundsAssumption
    <3>3. Counted(p)'
      BY <1>1, <3>1, <3>2 DEF Counted, RevRange, Reachable
    <3> QED
      BY <1>1, <2>2, <3>1, <3>3 DEF Below, HeadKnown, BaseCovered, ShortcutCovered, BatchCovered,
         SameWalk, Fetch
  <2> QED
    BY <1>3, <1>7, <2>3, <2>4 DEF Count
<1>8. CASE FetchMetadata(p)
  BY <1>8, FetchStep
<1>9. CASE FetchFiles(p)
  <2>1. /\ run'[p].pc = "store" /\ run'[p].batch = run[p].batch /\ run'[p].left = run[p].left
        /\ run'[p].base = None
        /\ \/ run'[p].named = Walk(run[p]) /\ run'[p].moved = run[p].moved \cap {"names"}
           \/ run'[p].moved = {"names"}
    BY <1>0, <1>9 DEF FetchFiles, Listed, Runs
  <2>2. Below(p)'
    BY <1>0, <1>9, <2>1 DEF FetchFiles, Below, HeadKnown, BaseCovered, ShortcutCovered, BatchCovered
  <2>3. SameWalk(p)'
    BY <1>0, <1>9, <2>1 DEF FetchFiles, SameWalk
  <2> QED
    BY <2>1, <2>2, <2>3 DEF Counted, Fetch
<1>10. CASE StoreBatch(p)
  <2>1. /\ run'[p].pc = "mark" /\ run'[p].batch = run[p].batch /\ run'[p].left = run[p].left
        /\ run'[p].base = run[p].base
    BY <1>0, <1>10 DEF StoreBatch, Runs
  <2>2. run[p].batch \subseteq Covered'
    BY <1>10 DEF StoreBatch, Covered
  <2>3. Below(p)'
    BY <1>0, <1>10, <2>1, <2>2 DEF StoreBatch, Below, HeadKnown, BaseCovered, ShortcutCovered,
       BatchCovered
  <2> QED
    BY <2>1, <2>3 DEF SameWalk, Counted, Fetch
<1>11. CASE WriteMark(p) \/ WriteHead(p) \/ Fails(p)
  BY <1>2, <1>11 DEF WriteMark, WriteHead, Fails
<1> QED
  BY <1>4, <1>5, <1>6, <1>7, <1>8, <1>9, <1>10, <1>11 DEF Populate

LEMMA MarkStep == IInv /\ [Next]_vars /\ Covered \subseteq Covered' => NoGapBelowMark'
<1> SUFFICES ASSUME IInv, [Next]_vars, Covered \subseteq Covered', mark' # None
             PROVE Ancestors[mark'] \subseteq Covered'
  BY DEF NoGapBelowMark, Covered
<1>1. CASE mark' = mark
  BY <1>1 DEF IInv, NoGapBelowMark, Covered
<1>2. ASSUME NEW p \in Procs, WriteMark(p) PROVE Ancestors[mark'] \subseteq Covered'
  <2>1. Ancestors[mark'] \subseteq run[p].left \cup Covered
    BY <1>2 DEF IInv, Below, BatchCovered, WriteMark
  <2>2. run[p].left \subseteq Covered'
    BY <1>2 DEF WriteMark, Covered
  <2> QED
    BY <2>1, <2>2
<1>3. ASSUME NEW p \in Procs, WriteHead(p) PROVE Ancestors[mark'] \subseteq Covered'
  <2>1. CASE run[p].moved = {}
    BY <1>3, <2>1 DEF IInv, Below, ShortcutCovered, WriteHead
  <2>2. CASE run[p].moved # {}
    BY <1>3, <2>2 DEF WriteHead, Covered
  <2> QED
    BY <2>1, <2>2
<1> QED
  BY <1>1, <1>2, <1>3 DEF Next, Populate, Start, ReadState, Exists, Count, FetchMetadata,
     FetchFiles, StoreBatch, Fails, MoveHead, Prune, vars, db

LEMMA FilesStep == IInv /\ [Next]_vars => FilesFollowCommits'
<1> SUFFICES ASSUME IInv, [Next]_vars PROVE FilesFollowCommits'
  OBVIOUS
<1>1. CASE UNCHANGED <<stored, files, bare>>
  BY <1>1 DEF IInv, FilesFollowCommits
<1>2. ASSUME NEW p \in Procs, StoreBatch(p) PROVE FilesFollowCommits'
  <2>1. CASE "names" \in run[p].moved
    BY <1>2, <2>1 DEF StoreBatch, IInv, FilesFollowCommits
  <2>2. CASE "names" \notin run[p].moved
    <3>1. run[p].batch \subseteq run[p].named
      BY <1>2, <2>2 DEF StoreBatch, IInv, SameWalk
    <3> QED
      BY <1>2, <2>2, <3>1 DEF StoreBatch, IInv, FilesFollowCommits
  <2> QED
    BY <2>1, <2>2
<1> QED
  BY <1>1, <1>2 DEF Next, Populate, Start, ReadState, Exists, Count, FetchMetadata,
     FetchFiles, WriteMark, WriteHead, Fails, MoveHead, Prune, vars, db, log

\* HEAD moves under a run
LEMMA MoveStep ==
  ASSUME IInv, MoveHead, NEW q \in Procs
  PROVE Below(q)' /\ SameWalk(q)' /\ Counted(q)' /\ Fetch(q)'
<1>0. run \in [Procs -> Runs] /\ run[q] \in Runs /\ Covered' = Covered
      /\ Below(q) /\ SameWalk(q) /\ Counted(q) /\ Fetch(q)
  BY DEF IInv, TypeOK, MoveHead, db, log, Covered
<1>1. CASE run[q].pc = "idle"
  <2>1. run'[q] = NoRun
    BY <1>1 DEF MoveHead
  <2> QED
    BY <2>1 DEF NoRun, Below, HeadKnown, BaseCovered, ShortcutCovered, BatchCovered, SameWalk,
       Counted, Fetch
<1>2. CASE run[q].pc # "idle"
  <2>1. run'[q] = [run[q] EXCEPT !.moved = @ \cup Since[run[q].pc]]
    BY <1>2 DEF MoveHead
  <2>2. /\ run'[q].pc = run[q].pc /\ run'[q].head = run[q].head /\ run'[q].base = run[q].base
        /\ run'[q].bounded = run[q].bounded /\ run'[q].batch = run[q].batch
        /\ run'[q].named = run[q].named /\ run'[q].left = run[q].left
        /\ run'[q].moved = run[q].moved \cup Since[run[q].pc] /\ run[q].pc \in Steps
    BY <1>0, <1>2, <2>1 DEF Runs
  <2>3. /\ run[q].pc \in {"read", "exists", "count"} => Since[run[q].pc] = {"start"}
        /\ run[q].pc = "log" => Since[run[q].pc] = {"log"}
        /\ run[q].pc = "names" => Since[run[q].pc] = {"names"}
    BY <2>2 DEF Since, Steps
  <2>4. HeadKnown(q)' /\ BaseCovered(q)' /\ ShortcutCovered(q)' /\ BatchCovered(q)'
    BY <1>0, <2>2, <2>3 DEF Below, HeadKnown, BaseCovered, ShortcutCovered, BatchCovered
  <2>5. SameWalk(q)'
    BY <1>0, <2>2, <2>3 DEF SameWalk
  <2>6. Counted(q)' /\ Fetch(q)'
    BY <1>0, <2>2, <2>3 DEF Counted, Fetch
  <2> QED
    BY <2>4, <2>5, <2>6 DEF Below
<1> QED
  BY <1>1, <1>2

LEMMA InvInit == Init => IInv
<1> SUFFICES ASSUME Init PROVE IInv
  OBVIOUS
<1>1. TypeOK
  BY TypeInit
<1>2. ASSUME NEW p \in Procs PROVE Below(p) /\ SameWalk(p) /\ Counted(p) /\ Fetch(p)
  BY DEF Init, NoRun, Below, HeadKnown, BaseCovered, ShortcutCovered, BatchCovered, SameWalk,
     Counted, Fetch
<1>3. NoGapBelowMark /\ FilesFollowCommits
  BY DEF Init, NoGapBelowMark, FilesFollowCommits
<1> QED
  BY <1>1, <1>2, <1>3 DEF IInv

LEMMA InvStep == IInv /\ [Next]_vars => IInv'
<1> SUFFICES ASSUME IInv, [Next]_vars PROVE IInv'
  OBVIOUS
<1>1. TypeOK' /\ Covered \subseteq Covered'
  BY TypeStep, CoveredGrows DEF IInv
<1>2. NoGapBelowMark' /\ FilesFollowCommits'
  BY <1>1, MarkStep, FilesStep
<1>3. ASSUME NEW q \in Procs PROVE (Below(q) /\ SameWalk(q) /\ Counted(q) /\ Fetch(q))'
  <2>0. Below(q) /\ SameWalk(q) /\ Counted(q) /\ Fetch(q) /\ run \in [Procs -> Runs]
    BY DEF IInv, TypeOK
  <2>1. CASE UNCHANGED vars \/ Prune
    BY <1>1, <2>0, <2>1, Resting DEF vars, git, Prune
  <2>2. CASE MoveHead
    BY <2>2, MoveStep
  <2>3. ASSUME NEW p \in Procs, Populate(p)
        PROVE (Below(q) /\ SameWalk(q) /\ Counted(q) /\ Fetch(q))'
    <3>1. CASE q = p
      BY <1>1, <2>3, <3>1, RunStep
    <3>2. CASE q # p
      <4>1. run'[q] = run[q] /\ head' = head
        BY <2>0, <2>3, <3>2 DEF Populate, Start, ReadState, Exists, Count, FetchMetadata,
           FetchFiles, StoreBatch, WriteMark, WriteHead, Fails, git, Go, End, Bounded, Listed
      <4> QED
        BY <1>1, <2>0, <4>1, Resting
    <3> QED
      BY <3>1, <3>2
  <2> QED
    BY <2>1, <2>2, <2>3 DEF Next
<1> QED
  BY <1>1, <1>2, <1>3 DEF IInv

\* However many runs interleave, fail or die while HEAD moves and git prunes, every commit
\* below the watermark is stored, cut off by the limit, or of a head that HEAD had left.
THEOREM WatermarkCovers == Spec => []NoGapBelowMark
<1>1. IInv => NoGapBelowMark
  BY DEF IInv
<1> QED
  BY <1>1, InvInit, InvStep, PTL DEF Spec

\* A commit without its files is one whose second walk failed or was of another HEAD.
THEOREM CommitsHaveFiles == Spec => []FilesFollowCommits
<1>1. IInv => FilesFollowCommits
  BY DEF IInv
<1> QED
  BY <1>1, InvInit, InvStep, PTL DEF Spec

\* For any limit, a run whose HEAD stayed fetches at most that many commits.
THEOREM FetchBound == Spec => []FetchesAreBounded
<1>1. IInv => FetchesAreBounded
  BY DEF IInv, Fetch, FetchesAreBounded
<1> QED
  BY <1>1, InvInit, InvStep, PTL DEF Spec

=============================================================================
