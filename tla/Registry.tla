------------------------------ MODULE Registry ------------------------------
(***************************************************************************)
(* The registry of indexed projects, ~/.semantex/projects.json             *)
(* (index/registry.rs), and its writers: session hooks (retain), processes *)
(* that index a project (register, then upsert_branch), and an MCP server, *)
(* whose request loop registers a project before a background thread       *)
(* builds it and upserts its branch.                                       *)
(*                                                                         *)
(* Every writer reads the whole file, changes it in memory and replaces it *)
(* through a temporary file named after its process; nobody takes a lock.  *)
(* An entry is a project and whether a branch of it was recorded.          *)
(***************************************************************************)
EXTENDS Naturals, FiniteSets

CONSTANTS Paths,   \* canonical paths
          Hooks,      \* session hooks, one process each
          Indexers,   \* `semantex index', `watch' and `serve', one process each
          Backs,      \* background threads of the MCP server
          MaxFaults,  \* bound: deaths, failed saves and builds, removed directories
          Torn,       \* a file that does not parse
          Blank,      \* a file just truncated
          Nothing

VARIABLES
    dir,      \* the projects whose directory exists
    file,     \* projects.json
    tmp,      \* the temporary file of every process
    job,      \* what every thread is doing
    faults,
    crossed   \* history: two threads of one process saved at the same time

registryVars == <<dir, file, tmp, job, faults, crossed>>

\* "main" is the request loop of the MCP server
Threads == Hooks \cup Indexers \cup Backs \cup {"main"}
ProcOf(t) == IF t \in Backs \cup {"main"} THEN "mcp" ELSE t
Procs == {ProcOf(t) : t \in Threads}

\* The projects with no entry, with one, and with one that has a branch
Entries == {"absent", "listed", "indexed"}
Lists == [Paths -> Entries]
Empty == [p \in Paths |-> "absent"]
Contents == Lists \cup {Torn, Blank, Nothing}

\* What is no list is told from one
NamesDistinct == {Torn, Blank} \cap (Lists \cup {Nothing}) = {} /\ Nothing \notin Lists
ASSUME NameAssumption == NamesDistinct
ASSUME FaultAssumption == MaxFaults \in Nat

NoJob == [pc |-> "idle", op |-> Nothing, at |-> Nothing, list |-> Empty, in |-> Nothing,
         stale |-> FALSE, gone |-> {}]

Pcs == {"idle", "build", "load", "open", "write", "rename"}
Ops == {"register", "upsert", "retain", Nothing}
Places == {"tmp", "file", "gone", Nothing}

RegistryTypeOK ==
    /\ dir \subseteq Paths
    /\ file \in Contents /\ tmp \in [Procs -> Contents]
    /\ \A t \in Threads :
          /\ job[t].pc \in Pcs /\ job[t].op \in Ops /\ job[t].at \in Paths \cup {Nothing}
          /\ job[t].list \in Lists /\ job[t].in \in Places
          /\ job[t].stale \in BOOLEAN /\ job[t].gone \subseteq Paths
    /\ faults \in 0 .. MaxFaults /\ crossed \in BOOLEAN

RegistryInit ==
    /\ dir = Paths
    /\ file = Nothing
    /\ tmp = [p \in Procs |-> Nothing]
    /\ job = [t \in Threads |-> NoJob]
    /\ faults = 0 /\ crossed = FALSE

-----------------------------------------------------------------------------
(* The writers, and the order of their calls.                              *)

Loading(op, p) == [NoJob EXCEPT !.pc = "load", !.op = op, !.at = p]

\* refresh_stale_registry_repos begins with a sweep
Sweep(t) ==
    /\ t \in Hooks /\ job[t].pc = "idle"
    /\ job' = [job EXCEPT ![t] = Loading("retain", Nothing)]
    /\ UNCHANGED <<dir, file, tmp, faults, crossed>>

\* The build of `semantex index', `watch' or `serve'
Index(t, p) ==
    /\ t \in Indexers /\ job[t].pc = "idle" /\ p \in dir
    /\ job' = [job EXCEPT ![t] = [NoJob EXCEPT !.pc = "build", !.at = p]]
    /\ UNCHANGED <<dir, file, tmp, faults, crossed>>

\* A tool call on a project that is to be built (and is not: index_states)
ToolCall(p) ==
    /\ job["main"].pc = "idle" /\ p \in dir
    /\ \A t \in Backs : job[t].at # p
    /\ job' = [job EXCEPT !["main"] = Loading("register", p)]
    /\ UNCHANGED <<dir, file, tmp, faults, crossed>>

\* A build succeeds; only then is its branch recorded (`index' registers first)
Built(t) ==
    /\ job[t].pc = "build" /\ job[t].at \in dir
    /\ \E op \in {"upsert"} \cup (IF t \in Indexers THEN {"register"} ELSE {}) :
          job' = [job EXCEPT ![t] = Loading(op, job[t].at)]
    /\ UNCHANGED <<dir, file, tmp, faults, crossed>>

BuildFails(t) ==
    /\ job[t].pc = "build"
    /\ IF job[t].at \in dir THEN faults < MaxFaults /\ faults' = faults + 1 ELSE UNCHANGED faults
    /\ job' = [job EXCEPT ![t] = NoJob]
    /\ UNCHANGED <<dir, file, tmp, crossed>>

\* What a thread does behind a save, whether or not it succeeded: an indexer
\* upserts, the request loop starts a thread (bound: one of Backs that is idle)
Behind(t, jobs) ==
    IF t \in Indexers /\ job[t].op = "register"
    THEN {[jobs EXCEPT ![t] = Loading("upsert", job[t].at)]}
    ELSE IF t = "main"
    THEN {[jobs EXCEPT ![t] = NoJob, ![b] = [NoJob EXCEPT !.pc = "build", !.at = job[t].at]] :
             b \in {b \in Backs : job[b].pc = "idle"}}
    ELSE {[jobs EXCEPT ![t] = NoJob]}

-----------------------------------------------------------------------------
(* One save: load, change, write the temporary file, rename it.            *)

\* load_from: what is missing or does not parse is an empty registry
Parsed(content) == IF content \in {Torn, Blank, Nothing} THEN Empty ELSE content

\* Mutated form of Changed: register starts from a registry of its own
ChangedAnew(t, list) ==
    CASE job[t].op = "register" ->
            IF list[job[t].at] = "absent" THEN [Empty EXCEPT ![job[t].at] = "listed"] ELSE list
      [] job[t].op = "upsert" -> [list EXCEPT ![job[t].at] = "indexed"]
      [] OTHER -> [p \in Paths |-> IF p \in dir THEN list[p] ELSE "absent"]

Changed(t, list) ==
    CASE job[t].op = "register" -> [list EXCEPT ![job[t].at] = IF @ = "absent" THEN "listed" ELSE @]
      [] job[t].op = "upsert" -> [list EXCEPT ![job[t].at] = "indexed"]
      [] OTHER -> [p \in Paths |-> IF p \in dir THEN list[p] ELSE "absent"]

\* register and retain leave a file alone in which they change nothing
Load(t) ==
    /\ job[t].pc = "load"
    /\ LET list == Changed(t, Parsed(file))
       IN  IF list = Parsed(file) /\ job[t].op # "upsert" THEN job' \in Behind(t, job)
           ELSE job' = [job EXCEPT ![t].pc = "open", ![t].list = list,
                                   ![t].gone = IF job[t].op = "retain" THEN Paths \ dir ELSE {}]
    /\ UNCHANGED <<dir, file, tmp, faults, crossed>>

\* Mutated form of TmpOf: one name for all processes
TmpShared(t) == "mcp"

\* The temporary file has the pid in its name
TmpOf(t) == ProcOf(t)

Saving(t) == job[t].pc \in {"write", "rename"}

\* fs::write creates or truncates it
Open(t) ==
    /\ job[t].pc = "open"
    /\ tmp' = [tmp EXCEPT ![TmpOf(t)] = Blank]
    /\ job' = [job EXCEPT ![t].pc = "write", ![t].in = "tmp"]
    /\ crossed' = (crossed \/ \E u \in Threads \ {t} : ProcOf(u) = ProcOf(t) /\ Saving(u))
    /\ UNCHANGED <<dir, file, faults>>

\* Bytes written over those another thread wrote: the tail of a longer text stays
Over(content, list) == IF content \in {Blank, list} THEN {list} ELSE {list, Torn}

\* ... and writes it, wherever another thread has renamed it to
Write(t) ==
    /\ job[t].pc = "write"
    /\ job' = [job EXCEPT ![t].pc = "rename"]
    /\ \/ /\ job[t].in = "tmp"
          /\ \E c \in Over(tmp[TmpOf(t)], job[t].list) : tmp' = [tmp EXCEPT ![TmpOf(t)] = c]
          /\ UNCHANGED file
       \/ /\ job[t].in = "file"
          /\ file' \in Over(file, job[t].list)
          /\ UNCHANGED tmp
       \/ job[t].in = "gone" /\ UNCHANGED <<file, tmp>>
    /\ UNCHANGED <<dir, faults, crossed>>

\* The others' loads are out of date, and their open files are elsewhere
Renamed(t) ==
    [u \in Threads |->
        [job[u] EXCEPT
            !.stale = @ \/ job[u].pc \in {"open", "write", "rename"},
            !.in = CASE @ = "file" -> "gone"
                     [] @ = "tmp" /\ TmpOf(u) = TmpOf(t) -> "file"
                     [] OTHER -> @]]

\* The rename moves what has the name; without a file of that name it fails
Rename(t) ==
    /\ job[t].pc = "rename"
    /\ IF tmp[TmpOf(t)] = Nothing
       THEN job' \in Behind(t, job) /\ UNCHANGED <<file, tmp>>
       ELSE /\ file' = tmp[TmpOf(t)]
            /\ tmp' = [tmp EXCEPT ![TmpOf(t)] = Nothing]
            /\ job' \in Behind(t, Renamed(t))
    /\ UNCHANGED <<dir, faults, crossed>>

\* A full disk, a read-only directory: whatever has the name is removed
SaveFails(t) ==
    /\ job[t].pc \in {"open", "write", "rename"} /\ faults < MaxFaults
    /\ faults' = faults + 1
    /\ tmp' = [tmp EXCEPT ![TmpOf(t)] = Nothing]
    /\ job' \in Behind(t, [u \in Threads |->
                  IF TmpOf(u) = TmpOf(t) /\ job[u].in = "tmp"
                  THEN [job[u] EXCEPT !.in = "gone"] ELSE job[u]])
    /\ UNCHANGED <<dir, file, crossed>>

-----------------------------------------------------------------------------
(* What happens around them.                                               *)

RemoveDir(p) ==
    /\ p \in dir /\ faults < MaxFaults
    /\ dir' = dir \ {p} /\ faults' = faults + 1
    /\ UNCHANGED <<file, tmp, job, crossed>>

\* The same path is cloned again
RestoreDir(p) ==
    /\ p \notin dir /\ dir' = dir \cup {p}
    /\ UNCHANGED <<file, tmp, job, faults, crossed>>

\* A process dies: its temporary file stays, until a save truncates it
ProcessDies(proc) ==
    /\ faults < MaxFaults /\ faults' = faults + 1
    /\ LET dead == {t \in Threads : ProcOf(t) = proc}
       IN  /\ \E t \in dead : job[t].pc # "idle"
           /\ job' = [t \in Threads |-> IF t \in dead THEN NoJob ELSE job[t]]
    /\ UNCHANGED <<dir, file, tmp, crossed>>

-----------------------------------------------------------------------------
RegistryNext ==
    \/ \E t \in Threads :
          \/ Sweep(t) \/ Built(t) \/ BuildFails(t)
          \/ Load(t) \/ Open(t) \/ Write(t) \/ Rename(t) \/ SaveFails(t)
    \/ \E t \in Threads, p \in Paths : Index(t, p)
    \/ \E p \in Paths : ToolCall(p) \/ RemoveDir(p) \/ RestoreDir(p)
    \/ \E proc \in Procs : ProcessDies(proc)

RegistrySpec == RegistryInit /\ [][RegistryNext]_registryVars

-----------------------------------------------------------------------------
(* Properties.                                                             *)

\* projects.json always parses: no death, failure or racing process tears it (the
\* module's documentation), unless two threads of one process, which share the
\* name of their temporary file, saved at the same time
RegistryIsWhole == file \in {Torn, Blank} => crossed

\* A step takes an entry, or an entry's branch, out of the registry
Loses(p) ==
    LET before == Parsed(file)[p]  after == Parsed(file')[p]
    IN  before # "absent" /\ after # before /\ after # "indexed"

\* A project is lost only because its directory was gone when a session hook
\* looked, or because its writer had loaded the file before another writer
\* replaced it: last-write-wins, and nothing else, unless threads crossed
LossNeedsCause ==
    [][\A p \in Paths : Loses(p) =>
          \/ crossed
          \/ \E t \in Threads : /\ job[t].pc = "rename" /\ job'[t].pc # "rename"
                                /\ job[t].stale \/ p \in job[t].gone]_registryVars

=============================================================================
