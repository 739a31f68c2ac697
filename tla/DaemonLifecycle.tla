-------------------------- MODULE DaemonLifecycle --------------------------
(***************************************************************************)
(* How the processes of one project find, start and stop its search daemon *)
(* (server/mod.rs, server/listener.rs; the commands serve, watch, stop and *)
(* search of the CLI).  They share three small files: semantex.port names  *)
(* the port of a daemon, semantex.pid its process, and warm_state.lock,    *)
(* the sentinel, a process whose index is ready.  Nothing locks them.      *)
(*                                                                         *)
(* A port belongs to one daemon for ever, so a file names a process or is  *)
(* absent; a file written with O_TRUNC is Torn between the truncation and  *)
(* the write.  The name of a process is used again only when nothing       *)
(* refers to it any more.                                                  *)
(***************************************************************************)
EXTENDS Naturals, FiniteSets

CONSTANTS
    Daemons,        \* processes of `semantex serve` and `semantex watch`
    Clients,        \* processes of `semantex search`, `stop` and of the MCP server
    MaxConn,        \* SEMANTEX_DAEMON_MAX_CONNECTIONS
    IdleTicks,      \* the idle timeout, in polls of the accept loop that find nothing
    MaxFaults,      \* bound on kills, failed opens, exceeded memory limits and timeouts
    Torn, Nobody

Processes == Daemons \cup Clients

NamesDistinct ==
    /\ Daemons \cap Clients = {} /\ IsFiniteSet(Processes)
    /\ Torn \notin Processes \cup {Nobody} /\ Nobody \notin Processes
ASSUME ProcAssumption == NamesDistinct
BoundsAreNumbers == MaxConn \in Nat \ {0} /\ IdleTicks \in Nat \ {0} /\ MaxFaults \in Nat
ASSUME BoundAssumption == BoundsAreNumbers

VARIABLES
    port, pid, sentinel,    \* the three files
    proc,                   \* what every process is doing
    conns,                  \* the connections the kernel or a daemon holds
    shut,                   \* the daemons whose shutdown flag is set
    faults,
    excused                 \* history: servers that at some moment saw no registered daemon

files == <<port, pid, sentinel>>
daemonVars == <<files, proc, conns, shut, faults, excused>>

Roles == {"serve", "watch", "search", "stop", "mcp"}
Kinds == {"search", "health", "shutdown"}
ServingPcs == {"open", "bind", "writeSentinel", "loop", "full"}
ExitPcs == {"drain", "clean", "cleanRemove", "exitPid", "drop", "dropRemove"}
ClientPcs == {"ask", "wait", "rmPort", "rmPid", "starting", "rmDead", "spawn", "warm", "rmWarm"}
Pcs == {"off", "truncPid", "writePid"} \cup ServingPcs \cup ExitPcs \cup ClientPcs

Name == Processes \cup {Torn, Nobody}
\* calm: polls that found nothing; seen: the name it read in the sentinel
Off == [pc |-> "off", role |-> "mcp", job |-> "health", calm |-> 0, seen |-> Nobody]
Conn == [to : Daemons, by : Processes, job : Kinds, stage : {"queued", "held", "served", "dispatched"}]

DaemonTypeOK ==
    /\ port \in Name /\ pid \in Name /\ sentinel \in Processes \cup {Nobody}
    /\ proc \in [Processes -> [pc : Pcs, role : Roles, job : Kinds, calm : 0 .. IdleTicks, seen : Name]]
    /\ conns \subseteq Conn
    /\ shut \subseteq Daemons /\ excused \subseteq Daemons
    /\ faults \in 0 .. MaxFaults

Alive(p) == p \in Processes /\ proc[p].pc # "off"
Serving(d) == d \in Daemons /\ proc[d].pc \in ServingPcs
\* From bind() until the Listener is dropped the socket takes connections
Listening(d) == d \in Daemons /\ proc[d].pc \in (ServingPcs \ {"open"}) \cup ExitPcs
ConnsOf(d) == {c \in conns : c.to = d}
InFlight(d) == {c \in ConnsOf(d) : c.stage \in {"served", "dispatched"}}
Goto(p, pc) == proc' = [proc EXCEPT ![p].pc = pc]

DaemonInit ==
    /\ port = Nobody /\ pid = Nobody /\ sentinel = Nobody
    /\ proc = [p \in Processes |-> Off]
    /\ conns = {} /\ shut = {} /\ faults = 0 /\ excused = {}

-----------------------------------------------------------------------------
(* Births                                                                  *)

Unused(p) ==
    /\ proc[p].pc = "off"
    /\ p \notin {port, pid, sentinel}
    /\ \A q \in Processes : proc[q].seen # p
    /\ \A c \in conns : p \notin {c.to, c.by}

Born(role) ==
    [Off EXCEPT !.pc = IF role = "watch" THEN "open" ELSE IF role = "mcp" THEN "warm" ELSE "ask",
                !.role = role,
                !.job = CASE role = "stop" -> "shutdown" [] role = "search" -> "search" [] OTHER -> "health"]

Birth(p, role, others) ==
    /\ Unused(p)
    /\ proc' = [others EXCEPT ![p] = Born(role)]
    /\ UNCHANGED <<files, conns, shut, faults>>

Start(p) ==
    \E role \in IF p \in Daemons THEN {"serve", "watch"} ELSE {"search", "stop", "mcp"} :
        Birth(p, role, proc)

\* The last line of spawn_daemon_if_needed, whose errors are ignored.  It fails
\* when all of Daemons are in use: the bound on processes
Spawn(p) ==
    /\ proc[p].pc = "spawn"
    /\ \/ \E d \in Daemons : Birth(d, "serve", [proc EXCEPT ![p] = Off])
       \/ /\ ~\E d \in Daemons : Unused(d)
          /\ proc' = [proc EXCEPT ![p] = Off]
          /\ UNCHANGED <<files, conns, shut, faults>>

-----------------------------------------------------------------------------
(* One request: read the port file, connect, wait for the answer           *)

\* What a process does next when its request went wrong
Failed(q) ==
    IF q.job = "search" THEN [q EXCEPT !.pc = "ask", !.job = "health"]
    ELSE [q EXCEPT !.pc = "rmPort"]

\* There is no port file, or it does not parse
NoPort(q) ==
    CASE q.job = "search" -> Failed(q)
      [] q.job = "health" -> [q EXCEPT !.pc = "starting"]
      [] q.job = "shutdown" -> Off

Ask(p) ==
    /\ proc[p].pc = "ask"
    /\ IF Listening(port)
       THEN /\ Goto(p, "wait")
            /\ conns' = conns \cup {[to |-> port, by |-> p, job |-> proc[p].job, stage |-> "queued"]}
       ELSE /\ proc' = [proc EXCEPT ![p] = IF port \in Processes THEN Failed(@) ELSE NoPort(@)]
            /\ UNCHANGED conns
    /\ UNCHANGED <<files, shut, faults>>

Waiting(p, c) == proc[p].pc = "wait" /\ c.by = p /\ c.job = proc[p].job

\* The connection was reset.  One that a thread had read from ends as an empty
\* line instead: no error, but no health either
Reset(p) ==
    /\ proc[p].pc = "wait"
    /\ ~\E c \in conns : Waiting(p, c)
    /\ \/ proc' = [proc EXCEPT ![p] = Failed(@)]
       \/ proc[p].job = "health" /\ Goto(p, "starting")
    /\ UNCHANGED <<files, conns, shut, faults>>

\* The read timeout
Timeout(p) ==
    /\ proc[p].pc = "wait"
    /\ faults < MaxFaults
    /\ faults' = faults + 1
    /\ proc' = [proc EXCEPT ![p] = Failed(@)]
    /\ UNCHANGED <<files, conns, shut>>

\* daemon_healthy and stop_daemon: both files are removed, whoever wrote them
RemovePort(p) ==
    /\ proc[p].pc = "rmPort"
    /\ port' = Nobody
    /\ Goto(p, "rmPid")
    /\ UNCHANGED <<pid, sentinel, conns, shut, faults>>

RemovePid(p) ==
    /\ proc[p].pc = "rmPid"
    /\ pid' = Nobody
    /\ proc' = [proc EXCEPT ![p] = IF @.job = "shutdown" THEN Off ELSE [@ EXCEPT !.pc = "starting"]]
    /\ UNCHANGED <<port, sentinel, conns, shut, faults>>

NotStarting(q) == [q EXCEPT !.pc = IF q.role = "serve" THEN "truncPid" ELSE "spawn"]

\* Mutated form of CheckStarting: the process is not probed
CheckStartingTrusting(p) ==
    /\ proc[p].pc = "starting"
    /\ proc' = [proc EXCEPT ![p] =
                    IF port # Nobody \/ pid = Nobody THEN NotStarting(@)
                    ELSE IF pid = Torn THEN [@ EXCEPT !.pc = "rmDead"] ELSE Off]
    /\ UNCHANGED <<files, conns, shut, faults>>

\* Mutated form of CheckStarting: `serve` asks for the daemon's health only
CheckStartingNever(p) ==
    /\ proc[p].pc = "starting"
    /\ proc' = [proc EXCEPT ![p] = NotStarting(@)]
    /\ UNCHANGED <<files, conns, shut, faults>>

CheckStarting(p) ==
    /\ proc[p].pc = "starting"
    /\ proc' = [proc EXCEPT ![p] = IF port # Nobody \/ pid = Nobody THEN NotStarting(@)
                                   ELSE IF Alive(pid) THEN Off
                                   ELSE [@ EXCEPT !.pc = "rmDead"]]
    /\ UNCHANGED <<files, conns, shut, faults>>

\* The pid file of a dead process, or one that does not parse
RemoveDead(p) ==
    /\ proc[p].pc = "rmDead"
    /\ pid' = Nobody
    /\ proc' = [proc EXCEPT ![p] = NotStarting(@)]
    /\ UNCHANGED <<port, sentinel, conns, shut, faults>>

\* warm_state_ready
CheckWarm(p) ==
    /\ proc[p].pc = "warm"
    /\ proc' = [proc EXCEPT ![p] = IF sentinel = Nobody \/ Alive(sentinel) THEN Off
                                   ELSE [@ EXCEPT !.pc = "rmWarm", !.seen = sentinel]]
    /\ UNCHANGED <<files, conns, shut, faults>>

RemoveWarm(p) ==
    /\ proc[p].pc = "rmWarm"
    /\ sentinel' = Nobody
    /\ proc' = [proc EXCEPT ![p] = Off]
    /\ UNCHANGED <<port, pid, conns, shut, faults>>

-----------------------------------------------------------------------------
(* SemantexServer::run, up to the accept loop                              *)

TruncatePid(d) ==
    /\ proc[d].pc = "truncPid"
    /\ pid' = Torn
    /\ Goto(d, "writePid")
    /\ UNCHANGED <<port, sentinel, conns, shut, faults>>

\* The write reaches an unlinked file when somebody removed the torn one
WritePid(d) ==
    /\ proc[d].pc = "writePid"
    /\ pid' = IF pid = Nobody THEN Nobody ELSE d
    /\ Goto(d, "open")
    /\ UNCHANGED <<port, sentinel, conns, shut, faults>>

\* HybridSearcher::open fails: `?` leaves run() and the pid file behind
LoadFails(d) ==
    /\ proc[d].pc = "open"
    /\ faults < MaxFaults
    /\ faults' = faults + 1
    /\ proc' = [proc EXCEPT ![d] = Off]
    /\ UNCHANGED <<files, conns, shut>>

\* No client knows the port before its file is written
Bind(d) ==
    /\ proc[d].pc = "open"
    /\ port' = Torn
    /\ Goto(d, "bind")
    /\ UNCHANGED <<pid, sentinel, conns, shut, faults>>

WritePort(d) ==
    /\ proc[d].pc = "bind"
    /\ port' = IF port = Nobody THEN Nobody ELSE d
    /\ Goto(d, "writeSentinel")
    /\ UNCHANGED <<pid, sentinel, conns, shut, faults>>

\* A temporary file and a rename: never torn
WriteSentinel(d) ==
    /\ proc[d].pc = "writeSentinel"
    /\ sentinel' = d
    /\ Goto(d, "loop")
    /\ UNCHANGED <<port, pid, conns, shut, faults>>

-----------------------------------------------------------------------------
(* Listener::run, the accept loop                                          *)

\* The top of the loop looks at the flag and the time since the last activity
Over(d) == d \in shut \/ (proc[d].calm = IdleTicks /\ InFlight(d) = {})

LeaveLoop(d) == proc' = [proc EXCEPT ![d].pc = "drain", ![d].calm = 0]

LoopEnds(d) ==
    /\ proc[d].pc = "loop" /\ Over(d)
    /\ LeaveLoop(d)
    /\ UNCHANGED <<files, conns, shut, faults>>

MemoryExceeded(d) ==
    /\ proc[d].pc = "loop" /\ ~Over(d)
    /\ faults < MaxFaults
    /\ faults' = faults + 1
    /\ LeaveLoop(d)
    /\ UNCHANGED <<files, conns, shut>>

\* Requests in flight are activity
FoundNone(d) ==
    /\ proc[d].pc = "loop" /\ ~Over(d)
    /\ \A c \in ConnsOf(d) : c.stage # "queued"
    /\ proc' = [proc EXCEPT ![d].calm = IF InFlight(d) = {} THEN @ + 1 ELSE 0]
    /\ UNCHANGED <<files, conns, shut, faults>>

\* c goes from one stage to the next
Advance(c, stage) == conns' = (conns \ {c}) \cup {[c EXCEPT !.stage = stage]}

Room(d) == Cardinality(InFlight(d)) < MaxConn

Accept(d, c) ==
    /\ proc[d].pc = "loop" /\ ~Over(d)
    /\ c \in ConnsOf(d) /\ c.stage = "queued"
    /\ Advance(c, IF Room(d) THEN "served" ELSE "held")
    /\ proc' = [proc EXCEPT ![d].pc = IF Room(d) THEN "loop" ELSE "full", ![d].calm = 0]
    /\ UNCHANGED <<files, shut, faults>>

\* Mutated form of Admit: the wait for a slot does not look at the flag
AdmitOnly(d, c) ==
    /\ proc[d].pc = "full"
    /\ c \in ConnsOf(d) /\ c.stage = "held"
    /\ Room(d) /\ Advance(c, "served")
    /\ Goto(d, "loop")
    /\ UNCHANGED <<files, shut, faults>>

\* Backpressure: wait for a slot, or drop the connection on shutdown
Admit(d, c) ==
    /\ proc[d].pc = "full"
    /\ c \in ConnsOf(d) /\ c.stage = "held"
    /\ \/ Room(d) /\ Advance(c, "served")
       \/ ~Room(d) /\ d \in shut /\ conns' = conns \ {c}
    /\ Goto(d, "loop")
    /\ UNCHANGED <<files, shut, faults>>

-----------------------------------------------------------------------------
(* A connection thread                                                     *)

\* The flag is set before the answer is written
Dispatch(d, c) ==
    /\ c \in ConnsOf(d) /\ c.stage = "served" /\ c.job = "shutdown"
    /\ shut' = shut \cup {d}
    /\ Advance(c, "dispatched")
    /\ UNCHANGED <<files, proc, faults>>

\* What the client does with the answer; it may have left
Answered(p) ==
    IF proc[p].job = "shutdown" THEN [proc EXCEPT ![p].pc = "rmPort"] ELSE [proc EXCEPT ![p] = Off]

Answer(d, c) ==
    /\ c \in ConnsOf(d)
    /\ c.stage = IF c.job = "shutdown" THEN "dispatched" ELSE "served"
    /\ conns' = conns \ {c}
    /\ proc' = IF Waiting(c.by, c) THEN Answered(c.by) ELSE proc
    /\ UNCHANGED <<files, shut, faults>>

-----------------------------------------------------------------------------
(* The way out: drain, cleanup(), the pid file, Drop for Listener          *)

Drained(d) ==
    /\ proc[d].pc = "drain"
    /\ InFlight(d) = {}
    /\ Goto(d, "clean")
    /\ UNCHANGED <<files, conns, shut, faults>>

\* The grace period of 30 seconds is over
DrainDeadline(d) ==
    /\ proc[d].pc = "drain"
    /\ InFlight(d) # {}
    /\ Goto(d, "clean")
    /\ UNCHANGED <<files, conns, shut, faults>>

\* The socket is closed and the process ends: what it still held is reset
Leave(d) ==
    /\ proc' = [proc EXCEPT ![d] = Off]
    /\ conns' = conns \ ConnsOf(d)
    /\ shut' = shut \ {d}

\* Mutated form of AfterClean: an error of the listener leaves run() at once
AfterCleanAtOnce(d) == "drop"

AfterClean(d) == IF proc[d].role = "serve" THEN "exitPid" ELSE "drop"

FoundOurs(d) ==
    proc' = [proc EXCEPT ![d].pc = IF @ = "clean" THEN "cleanRemove" ELSE "dropRemove",
                         ![d].seen = sentinel]

\* What follows when the sentinel names another process
NotOurs(d) ==
    IF proc[d].pc = "clean" THEN Goto(d, AfterClean(d)) /\ UNCHANGED <<conns, shut>> ELSE Leave(d)

\* Mutated form of CleanUp: the sentinel is removed whoever wrote it
CleanUpBlindly(d) ==
    /\ proc[d].pc \in {"clean", "drop"}
    /\ port' = Nobody
    /\ FoundOurs(d)
    /\ UNCHANGED <<conns, shut, pid, sentinel, faults>>

\* cleanup() and Drop: the port file goes whoever wrote it, then
\* remove_sentinel_if_ours reads the sentinel before it removes it
CleanUp(d) ==
    /\ proc[d].pc \in {"clean", "drop"}
    /\ port' = Nobody
    /\ IF sentinel = d
       THEN FoundOurs(d) /\ UNCHANGED <<conns, shut>>
       ELSE NotOurs(d)
    /\ UNCHANGED <<pid, sentinel, faults>>

RemoveSentinel(d) ==
    /\ proc[d].pc \in {"cleanRemove", "dropRemove"}
    /\ sentinel' = Nobody
    /\ IF proc[d].pc = "cleanRemove"
       THEN proc' = [proc EXCEPT ![d].pc = AfterClean(d), ![d].seen = Nobody] /\ UNCHANGED <<conns, shut>>
       ELSE Leave(d)
    /\ UNCHANGED <<port, pid, faults>>

ExitPid(d) ==
    /\ proc[d].pc = "exitPid"
    /\ pid' = Nobody
    /\ Goto(d, "drop")
    /\ UNCHANGED <<port, sentinel, conns, shut, faults>>

\* SIGKILL, or out of memory
Kill(d) ==
    /\ Alive(d)
    /\ faults < MaxFaults
    /\ faults' = faults + 1
    /\ Leave(d)
    /\ UNCHANGED files

-----------------------------------------------------------------------------
\* A daemon that is loading or up and that one of the files names
Registered == \E d \in Daemons : Serving(d) /\ d \in {port, pid}

Probing(d) == proc[d].role = "serve" /\ proc[d].pc \in {"ask", "wait", "rmPort", "rmPid", "starting", "rmDead"}

\* A server is excused when no daemon is registered or its own probe went wrong
Excuses == excused' = {d \in Daemons : Probing(d)' /\ (d \in excused \/ ~Registered' \/ proc'[d].pc = "rmPort")}

Client(p) ==
    \/ Ask(p) \/ Reset(p) \/ RemovePort(p) \/ RemovePid(p) \/ CheckStarting(p)
    \/ RemoveDead(p) \/ CheckWarm(p) \/ RemoveWarm(p) \/ Spawn(p)

Server(d) ==
    \/ TruncatePid(d) \/ WritePid(d) \/ Bind(d) \/ WritePort(d) \/ WriteSentinel(d)
    \/ LoopEnds(d) \/ FoundNone(d) \/ Drained(d) \/ DrainDeadline(d) \/ CleanUp(d)
    \/ RemoveSentinel(d) \/ ExitPid(d)
    \/ \E c \in conns : Accept(d, c) \/ Admit(d, c)

Handler(c) == Dispatch(c.to, c) \/ Answer(c.to, c)

Step ==
    \/ \E p \in Processes : Start(p) \/ Client(p) \/ Timeout(p)
    \/ \E d \in Daemons : Server(d) \/ LoadFails(d) \/ MemoryExceeded(d) \/ Kill(d)
    \/ \E c \in conns : Handler(c)

DaemonNext == Step /\ Excuses

\* Processes run, and the project is searched again and again.  Nobody has to
\* run `serve`, `watch` or `stop`, nothing has to fail or to be late, and a
\* request that a thread handles need not end
Searched(p) == Birth(p, "search", proc) /\ Excuses

DaemonFairness ==
    /\ \A p \in Processes : WF_daemonVars(Client(p) /\ Excuses)
    /\ \A d \in Daemons : WF_daemonVars(Server(d) /\ Excuses)
    /\ \A p \in Clients : SF_daemonVars(Searched(p))

DaemonSpec == DaemonInit /\ [][DaemonNext]_daemonVars /\ DaemonFairness

-----------------------------------------------------------------------------
(* Properties                                                              *)

\* A server that goes past daemon_healthy and daemon_starting does so because
\* at some moment of its two probes no daemon was registered, because its own
\* health request went wrong, or because a port file appeared between the two
\* probes ("If the port file exists the daemon is already fully ready")
StartsAreExcused ==
    [][\A d \in Daemons :
          proc[d].pc \in {"starting", "rmDead"} /\ proc'[d].pc = "truncPid"
             => d \in excused \/ port # Nobody]_daemonVars

\* The sentinel of a daemon that serves is removed only by a process that read
\* another name in it, or the daemon's own, a step before: a race with the
\* rename, never a removal that did not look
SentinelSurvives ==
    [][\A d \in Daemons :
          sentinel = d /\ Serving(d) /\ sentinel' = Nobody
             => \E p \in Processes : /\ proc[p].pc \in {"rmWarm", "cleanRemove", "dropRemove"}
                                     /\ proc[p].seen # d]_daemonVars

\* Unless something was killed, failed or was late, the processes of a project
\* leave no file behind when all of them have ended
NothingLeftBehind ==
    faults = 0 /\ (\A p \in Processes : proc[p].pc = "off")
        => port = Nobody /\ pid = Nobody /\ sentinel = Nobody

\* Stale files never lock a project out: one that is searched again and again
\* has, again and again, a daemon that serves or loads
SearchesGetADaemon == []<>(\E d \in Daemons : Serving(d))

\* A daemon whose shutdown flag is set ends, whatever its requests do: the wait
\* for a slot and the drain are both left when a search never returns
ShutdownEnds == \A d \in Daemons : d \in shut ~> proc[d].pc = "off"
=============================================================================
