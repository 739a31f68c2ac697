----------------------------- MODULE GitHistory -----------------------------
(***************************************************************************)
(* history.db (semantex-core/index/history.rs): the commits of the         *)
(* repository and the files they touch, fetched from git by populate_history *)
(* and kept behind one watermark, last_sha.  A build populates it under    *)
(* .semantex.lock, the semantex_history tool of any MCP server without,    *)
(* so several run at once, each a sequence of git commands and SQLite      *)
(* transactions, while the user commits, resets, switches and prunes.      *)
(***************************************************************************)
EXTENDS Naturals, FiniteSets

CONSTANTS
    Procs,      \* the processes that populate
    Commits,    \* every commit there will be, numbered by committer time
    Ancestors,  \* the commits reachable from a commit, itself included
    Limit,      \* SEMANTEX_HISTORY_COMMITS
    MaxMoves,   \* bound on the moves of HEAD and the prunings
    MaxFails,   \* bound on the failing git commands, errors and deaths
    None

ASSUME CommitsAssumption ==
    /\ Commits \subseteq Nat /\ IsFiniteSet(Commits) /\ None \notin Commits
    /\ Ancestors \in [Commits -> SUBSET Commits]
    /\ \A c \in Commits : c \in Ancestors[c]
    /\ \A c \in Commits : \A d \in Ancestors[c] : d <= c /\ Ancestors[d] \subseteq Ancestors[c]
ASSUME BoundsAssumption == Limit \in Nat \ {0} /\ MaxMoves \in Nat /\ MaxFails \in Nat

VARIABLES
    head,    \* the commit HEAD is on
    gone,    \* commits that git has pruned
    stored,  \* rows of commits
    files,   \* commits whose rows of file_commits are there
    mark,    \* history_state: last_sha
    run,     \* what every process is doing
    skipped, \* history: commits left out for the limit, and not stored since
    missed,  \* history: commits below a watermark that HEAD had left before they were
             \* fetched, and not stored since
    bare,    \* history: commits stored without a listing of their files, and not listed since
    moves, fails \* for the bounds

db == <<stored, files, mark>>
log == <<skipped, missed, bare>>
git == <<head, gone, moves>>
vars == <<db, log, git, run, fails>>

Steps == {"read", "exists", "count", "log", "names", "store", "mark", "shortcut"}

\* head: what rev-parse said; base: the last_sha of this run, the lower end of the range
\* unless bounded: the walk is from HEAD and limited; batch, named: what the two walks
\* found; left: commits below HEAD that the limit cut off; moved: history, whether HEAD
\* moved since rev-parse, since the count, and since the first walk
NoRun == [pc |-> "idle", head |-> None, base |-> None, bounded |-> FALSE, batch |-> {},
          named |-> {}, left |-> {}, moved |-> {}]

Runs == [pc : Steps \cup {"idle"}, head : Commits \cup {None}, base : Commits \cup {None},
         bounded : BOOLEAN, batch : SUBSET Commits, named : SUBSET Commits,
         left : SUBSET Commits, moved : SUBSET {"start", "log", "names"}]

TypeOK ==
    /\ head \in Commits
    /\ gone \subseteq Commits \ Ancestors[head]
    /\ stored \subseteq Commits /\ files \subseteq Commits
    /\ mark \in Commits \cup {None}
    /\ run \in [Procs -> Runs]
    /\ \A p \in Procs :
          /\ run[p].pc # "idle" => run[p].head # None
          /\ run[p].pc \in {"exists", "count"} => run[p].base # None
          /\ run[p].pc \in {"log", "names"} => run[p].bounded \/ run[p].base # None
          /\ run[p].pc \in {"names", "store", "mark"} => run[p].batch # {}
    /\ skipped \subseteq Commits /\ missed \subseteq Commits /\ bare \subseteq Commits

Init ==
    /\ head \in Commits
    /\ gone = {}
    /\ stored = {} /\ files = {} /\ mark = None
    /\ run = [p \in Procs |-> NoRun]
    /\ skipped = {} /\ missed = {} /\ bare = {}
    /\ moves = 0 /\ fails = 0

-----------------------------------------------------------------------------
(* git.                                                                    *)

Reachable == Ancestors[head]
Newest(S) == CHOOSE c \in S : \A d \in S : d <= c

\* -n: select the most recent, then reverse
Capped(S, n) == {c \in S : Cardinality({d \in S : d > c}) < n}

\* base..HEAD
RevRange(base) == Reachable \ Ancestors[base]

\* What `git log` lists for a run, now
Walk(r) == IF r.bounded THEN Capped(Reachable, Limit) ELSE RevRange(r.base)

\* A pruned lower end is no revision any more
WalkFails(r) == ~r.bounded /\ r.base \in gone

-----------------------------------------------------------------------------
(* populate_history, one git command or transaction at a time.             *)

Fault == fails < MaxFails /\ fails' = fails + 1
NoFault == UNCHANGED fails

Go(p, pc) == run' = [run EXCEPT ![p].pc = pc]
End(p) == run' = [run EXCEPT ![p] = NoRun]
Bounded(p) == run' = [run EXCEPT ![p].pc = "log", ![p].bounded = TRUE, ![p].base = None]

\* rev-parse HEAD
Start(p) ==
    /\ run[p].pc = "idle"
    /\ run' = [run EXCEPT ![p] = [NoRun EXCEPT !.pc = "read", !.head = head]]
    /\ UNCHANGED <<db, log, git, fails>>

\* No last_sha, or an unreadable one, is a cold start
ReadState(p) ==
    /\ run[p].pc = "read"
    /\ \/ mark = run[p].head /\ End(p) /\ NoFault
       \/ mark = None /\ Bounded(p) /\ NoFault
       \/ mark # None /\ Bounded(p) /\ Fault
       \/ /\ mark \notin {run[p].head, None}
          /\ run' = [run EXCEPT ![p].pc = "exists", ![p].base = mark]
          /\ NoFault
    /\ UNCHANGED <<db, log, git>>

\* cat-file -e
Exists(p) ==
    /\ run[p].pc = "exists"
    /\ \/ run[p].base \notin gone /\ Go(p, "count") /\ NoFault
       \/ run[p].base \in gone /\ Bounded(p) /\ NoFault
       \/ Bounded(p) /\ Fault
    /\ UNCHANGED <<db, log, git>>

\* Mutated form of Count: however far behind, the range is walked whole
CountUnbounded(p) ==
    /\ run[p].pc = "count"
    /\ \/ run[p].base \in gone /\ Bounded(p) /\ NoFault
       \/ Bounded(p) /\ Fault
       \/ /\ run[p].base \notin gone
          /\ Go(p, IF RevRange(run[p].base) = {} THEN "shortcut" ELSE "log")
          /\ NoFault
    /\ UNCHANGED <<db, log, git>>

\* rev-list --count; a failure counts as too many
Count(p) ==
    /\ run[p].pc = "count"
    /\ \/ run[p].base \in gone /\ Bounded(p) /\ NoFault
       \/ Bounded(p) /\ Fault
       \/ /\ run[p].base \notin gone
          /\ LET count == Cardinality(RevRange(run[p].base))
             IN  IF count > Limit THEN Bounded(p)
                 ELSE Go(p, IF count = 0 THEN "shortcut" ELSE "log")
          /\ NoFault
    /\ UNCHANGED <<db, log, git>>

\* git log: the commits
FetchMetadata(p) ==
    /\ run[p].pc = "log" /\ ~WalkFails(run[p])
    /\ LET batch == Walk(run[p])
       IN  IF batch = {} THEN Go(p, "shortcut")
           ELSE run' = [run EXCEPT ![p].pc = "names", ![p].batch = batch,
                                   ![p].moved = @ \cap {"log"},
                                   ![p].left = IF run[p].bounded THEN Reachable \ batch ELSE {}]
    /\ UNCHANGED <<db, log, git, fails>>

Listed(p, named, moved) ==
    run' = [run EXCEPT ![p].pc = "store", ![p].named = named, ![p].moved = moved,
                       ![p].base = None, ![p].bounded = FALSE]

\* Mutated form of FetchFiles: the limit of the second walk is one short
FetchFilesShort(p) ==
    /\ run[p].pc = "names"
    /\ \/ /\ ~WalkFails(run[p])
          /\ Listed(p, Capped(Walk(run[p]), Limit - 1), run[p].moved \cap {"names"})
          /\ NoFault
       \/ /\ Listed(p, {}, {"names"})
          /\ IF WalkFails(run[p]) THEN NoFault ELSE Fault
    /\ UNCHANGED <<db, log, git>>

\* git log --name-only, a second walk; a failure is an empty map
FetchFiles(p) ==
    /\ run[p].pc = "names"
    /\ \/ /\ ~WalkFails(run[p])
          /\ Listed(p, Walk(run[p]), run[p].moved \cap {"names"})
          /\ NoFault
       \/ /\ Listed(p, {}, {"names"})
          /\ IF WalkFails(run[p]) THEN NoFault ELSE Fault
    /\ UNCHANGED <<db, log, git>>

\* store_commit_batch, one transaction; INSERT OR IGNORE
StoreBatch(p) ==
    /\ run[p].pc = "store"
    /\ stored' = stored \cup run[p].batch
    /\ files' = files \cup (run[p].batch \cap run[p].named)
    /\ bare' = (IF "names" \in run[p].moved THEN bare \cup run[p].batch ELSE bare) \ files'
    /\ skipped' = skipped \ stored'
    /\ missed' = missed \ stored'
    /\ run' = [run EXCEPT ![p].pc = "mark", ![p].named = {}, ![p].moved = {}]
    /\ UNCHANGED <<mark, git, fails>>

\* Mutated form of WriteMark: the watermark is the head that was resolved at the start
WriteMarkResolved(p) ==
    /\ run[p].pc = "mark"
    /\ mark' = run[p].head
    /\ skipped' = (skipped \cup run[p].left) \ stored
    /\ End(p)
    /\ UNCHANGED <<stored, files, missed, bare, git, fails>>

\* The newest commit of the batch becomes the watermark
WriteMark(p) ==
    /\ run[p].pc = "mark"
    /\ mark' = Newest(run[p].batch)
    /\ skipped' = (skipped \cup run[p].left) \ stored
    /\ End(p)
    /\ UNCHANGED <<stored, files, missed, bare, git, fails>>

\* Mutated form of WriteHead: nothing to fetch leaves the watermark alone
WriteNothing(p) ==
    /\ run[p].pc = "shortcut"
    /\ End(p)
    /\ UNCHANGED <<db, log, git, fails>>

\* Nothing to fetch: the watermark is the head that was resolved at the start
WriteHead(p) ==
    /\ run[p].pc = "shortcut"
    /\ mark' = run[p].head
    /\ missed' = IF run[p].moved = {} THEN missed ELSE missed \cup (Ancestors[run[p].head] \ stored)
    /\ End(p)
    /\ UNCHANGED <<stored, files, skipped, bare, git, fails>>

\* An error of git or SQLite, or the death of the process: what is committed stays
Fails(p) ==
    /\ run[p].pc \in Steps
    /\ IF run[p].pc = "log" /\ WalkFails(run[p]) THEN NoFault ELSE Fault
    /\ End(p)
    /\ UNCHANGED <<db, log, git>>

-----------------------------------------------------------------------------
(* The user.                                                               *)

Moving == moves < MaxMoves /\ moves' = moves + 1

Since == [pc \in Steps |-> CASE pc \in {"log", "names"} -> {pc}
                             [] pc \in {"store", "mark", "shortcut"} -> {}
                             [] OTHER -> {"start"}]

\* A commit, a merge, a reset or a switch
MoveHead ==
    /\ Moving
    /\ head' \in Commits \ {head}
    /\ Ancestors[head'] \cap gone = {}
    /\ run' = [p \in Procs |-> IF run[p].pc = "idle" THEN NoRun
                               ELSE [run[p] EXCEPT !.moved = @ \cup Since[run[p].pc]]]
    /\ UNCHANGED <<db, log, gone, fails>>

\* git gc, of commits that no branch holds; a commit goes before its ancestors
Prune ==
    /\ Moving
    /\ \E c \in Commits \ (Reachable \cup gone) :
          gone' = gone \cup {d \in Commits : c \in Ancestors[d]}
    /\ UNCHANGED <<db, log, head, run, fails>>

Populate(p) ==
    \/ Start(p) \/ ReadState(p) \/ Exists(p) \/ Count(p) \/ FetchMetadata(p) \/ FetchFiles(p)
    \/ StoreBatch(p) \/ WriteMark(p) \/ WriteHead(p) \/ Fails(p)

Next ==
    \/ \E p \in Procs : Populate(p)
    \/ MoveHead
    \/ Prune

\* Builds and tool calls go on coming, and what runs goes on
Fairness == \A p \in Procs : WF_vars(Populate(p))

Spec == Init /\ [][Next]_vars /\ Fairness

-----------------------------------------------------------------------------
(* Properties.                                                             *)

\* No gap below the watermark: whatever runs at once, fails, moves or is pruned, every
\* commit reachable from last_sha is stored, but those the limit cut off, and those of a
\* head that HEAD had left when a run found nothing to fetch and recorded it all the same.
NoGapBelowMark == mark # None => Ancestors[mark] \subseteq stored \cup skipped \cup missed

\* A stored commit has its files, unless HEAD moved between the two walks of a run or the
\* second one failed: the two walks of one run list the same commits.
FilesFollowCommits == stored \subseteq files \cup bare

\* No run fetches more than the limit, unless HEAD moved after it counted.
FetchesAreBounded ==
    \A p \in Procs : run[p].pc = "names" =>
        Cardinality(run[p].batch) <= Limit \/ "log" \in run[p].moved

\* Once HEAD rests and nothing fails, the watermark reaches HEAD and stays, whichever
\* process, however late, wrote it last.
CatchesUp == <>[](mark = head)

=============================================================================
