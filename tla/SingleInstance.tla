--------------------------- MODULE SingleInstance ---------------------------
(***************************************************************************)
(* One daemon per project (tldr-cli daemon/start.rs, stop.rs, pid.rs,      *)
(* ipc.rs and daemon_registry.rs).                                         *)
(*                                                                         *)
(* The project has a PID file, which its daemon locks for as long as it    *)
(* lives, a socket and a registry entry.  A start takes the lock, reaps a  *)
(* dead socket, binds its own and registers; a daemon that leaves, and a   *)
(* stop command, remove what is there.  A daemon killed leaves all three.  *)
(*                                                                         *)
(* A lock is on a file and not on its path: files are numbered as they are *)
(* created, and a daemon that has opened one can lock it after its path    *)
(* was removed.  A daemon stands for its process, its pid and, once bound, *)
(* its socket.                                                             *)
(***************************************************************************)
EXTENDS Naturals, FiniteSets, Sequences

CONSTANTS Daemons,     \* processes of daemon start --foreground; pids are not reused
          Stops,       \* daemon stop commands
          Clients,     \* commands that look a daemon up in the registry
          None,        \* no daemon, no file
          StopsOverlap,\* may a start overlap a stop command?
          EndsOverlap  \* may a start overlap the end of another daemon?

ASSUME InstanceAssumption ==
  /\ IsFiniteSet(Daemons)
  /\ None \notin Daemons \cup (1 .. Cardinality(Daemons))
  /\ Daemons \cap Stops = {} /\ Daemons \cap Clients = {} /\ Stops \cap Clients = {}
  /\ StopsOverlap \in BOOLEAN /\ EndsOverlap \in BOOLEAN

VARIABLES pidPath,            \* the file at the PID path
          written, holder,    \* by file: the pid it holds, and who has locked it
          socket,             \* the daemon that bound the socket file
          listening,          \* daemons that accept connections
          asked,              \* daemons that were sent Shutdown
          registry,           \* the pid of the project's entry
          pc,                 \* of daemons, stops and clients
          opened,             \* by daemon: the PID file it opened
          looked,             \* by process: the entry it last read
          target, plan,       \* by stop: the daemon it waits for; the clean-up it has left
          met                 \* daemons that were ever alive together with another one

files == <<pidPath, written, holder>>
stops == <<target, plan, asked>>
vars == <<files, socket, listening, registry, pc, opened, looked,
          stops, met>>

Processes == Daemons \cup Stops \cup Clients
PidFiles == 1 .. Cardinality(Daemons)  \* a daemon creates at most one

Over == {"idle", "refused", "gone"}
Alive == {d \in Daemons : pc[d] \notin Over}
At(p, label) == pc[p] = label
Goto(p, label) == pc' = [pc EXCEPT ![p] = label]

Serving == {d \in Daemons : At(d, "serve")}
Starting == {d \in Daemons :
  pc[d] \in {"check", "open", "lock", "write", "look", "probe", "reap", "bind", "register"}}
Ending == Alive \ (Starting \cup Serving)
Stopping == {s \in Stops : pc[s] \notin {"idle", "done"}}

Init ==
  /\ pidPath = None
  /\ written = [n \in PidFiles |-> None] /\ holder = [n \in PidFiles |-> None]
  /\ socket = None /\ listening = {} /\ registry = None
  /\ pc = [p \in Processes |-> "idle"]
  /\ opened = [d \in Daemons |-> None]
  /\ looked = [p \in Processes |-> None]
  /\ asked = {} /\ target = [s \in Stops |-> None] /\ plan = [s \in Stops |-> <<>>]
  /\ met = {}

-----------------------------------------------------------------------------
(* Reading the registry                                                    *)

\* read_registry, called without the registry's lock.  The file is every project's:
\* when an entry of any of them is dead, what was read is written back without it.
Look(p, next) ==
  /\ looked' = [looked EXCEPT ![p] = registry]
  /\ Goto(p, next)
  /\ UNCHANGED <<files, socket, listening, registry, opened, stops, met>>

Pruned(p) == IF looked[p] \in Daemons \ Alive THEN {None} ELSE {registry, looked[p]}

\* IpcStream::connect
Connects == socket \in listening

-----------------------------------------------------------------------------
(* daemon start: run_async, try_acquire_lock and run_foreground            *)

Start(d) ==
  /\ At(d, "idle")
  /\ StopsOverlap \/ Stopping = {}
  /\ EndsOverlap \/ Ending = {}
  /\ met' = IF Alive = {} THEN met ELSE met \cup Alive \cup {d}
  /\ Goto(d, "check")
  /\ UNCHANGED <<files, socket, listening, registry, opened, looked, stops>>

\* find_entry_unpruned and is_pid_alive
Check(d) ==
  /\ At(d, "check")
  /\ Goto(d, IF registry \in Alive THEN "refused" ELSE "open")
  /\ UNCHANGED <<files, socket, listening, registry, opened, looked, stops, met>>

NewFile == CHOOSE n \in PidFiles : \A e \in Daemons : opened[e] # n

Open(d) ==
  /\ At(d, "open")
  /\ LET n == IF pidPath = None THEN NewFile ELSE pidPath
     IN /\ pidPath' = n
        /\ opened' = [opened EXCEPT ![d] = n]
  /\ Goto(d, "lock")
  /\ UNCHANGED <<written, holder, socket, listening, registry, looked, stops, met>>

\* Mutation: the lock is tried, and its failure ignored when the pid is stale.
LockUnlessStale(d) ==
  /\ At(d, "lock")
  /\ LET n == opened[d]
         free == holder[n] = None \/ written[n] \notin Alive
     IN /\ holder' = IF free THEN [holder EXCEPT ![n] = d] ELSE holder
        /\ Goto(d, IF free THEN "write" ELSE "refused")
  /\ UNCHANGED <<pidPath, written, socket, listening, registry, opened, looked, stops, met>>

\* try_lock_file; AlreadyRunning and StalePidFile both end the start.
Lock(d) ==
  /\ At(d, "lock")
  /\ LET n == opened[d]
     IN /\ holder' = IF holder[n] = None THEN [holder EXCEPT ![n] = d] ELSE holder
        /\ Goto(d, IF holder[n] = None THEN "write" ELSE "refused")
  /\ UNCHANGED <<pidPath, written, socket, listening, registry, opened, looked, stops, met>>

\* set_len(0) and the pid, under the lock
Write(d) ==
  /\ At(d, "write")
  /\ written' = [written EXCEPT ![opened[d]] = d]
  /\ Goto(d, IF socket = None THEN "bind" ELSE "look")
  /\ UNCHANGED <<pidPath, holder, socket, listening, registry, opened, looked, stops, met>>

\* Mutation: a socket file that is there is taken for a living daemon's.
ProbeExists(d) ==
  /\ At(d, "probe")
  /\ registry' \in Pruned(d)
  /\ Goto(d, "bind")
  /\ UNCHANGED <<files, socket, listening, opened, looked, stops, met>>

\* check_socket_alive
Probe(d) ==
  /\ At(d, "probe")
  /\ registry' \in Pruned(d)
  /\ Goto(d, IF Connects THEN "bind" ELSE "reap")
  /\ UNCHANGED <<files, socket, listening, opened, looked, stops, met>>

\* cleanup_socket of start.rs
Reap(d) ==
  /\ At(d, "reap")
  /\ socket' = None
  /\ Goto(d, "bind")
  /\ UNCHANGED <<files, listening, registry, opened, looked, stops, met>>

\* IpcListener::bind; AddressInUse drops the guard.
Bind(d) ==
  /\ At(d, "bind")
  /\ \/ /\ socket = None
        /\ socket' = d
        /\ listening' = listening \cup {d}
        /\ Goto(d, "register")
     \/ /\ socket # None
        /\ Goto(d, "unlink")
        /\ UNCHANGED <<socket, listening>>
  /\ UNCHANGED <<files, registry, opened, looked, stops, met>>

\* add_entry, under the registry's lock
Register(d) ==
  /\ At(d, "register")
  /\ registry' = d
  /\ Goto(d, "serve")
  /\ UNCHANGED <<files, socket, listening, opened, looked, stops, met>>

-----------------------------------------------------------------------------
(* The end of a daemon                                                     *)

\* Shutdown, a signal or idleness ends run, which owned the listener.
Leave(d) ==
  /\ At(d, "serve")
  /\ EndsOverlap \/ Starting = {}
  /\ listening' = listening \ {d}
  /\ Goto(d, "clean")
  /\ UNCHANGED <<files, socket, registry, opened, looked, stops, met>>

\* TLDRDaemon::new or run returns an error: nothing but the guard is dropped.
Fail(d) ==
  /\ At(d, "serve")
  /\ EndsOverlap \/ Starting = {}
  /\ listening' = listening \ {d}
  /\ Goto(d, "unlink")
  /\ UNCHANGED <<files, socket, registry, opened, looked, stops, met>>

\* cleanup_socket
Clean(d) ==
  /\ At(d, "clean")
  /\ socket' = None
  /\ Goto(d, "unregister")
  /\ UNCHANGED <<files, listening, registry, opened, looked, stops, met>>

\* remove_entry
Unregister(d) ==
  /\ At(d, "unregister")
  /\ registry' = None
  /\ Goto(d, "unlink")
  /\ UNCHANGED <<files, socket, listening, opened, looked, stops, met>>

\* PidGuard::drop
Unlink(d) ==
  /\ At(d, "unlink")
  /\ pidPath' = None
  /\ Goto(d, "exit")
  /\ UNCHANGED <<written, holder, socket, listening, registry, opened, looked, stops, met>>

\* The process is over: its locks and its listener are gone.
End(d) ==
  /\ Goto(d, "gone")
  /\ holder' = [n \in PidFiles |-> IF holder[n] = d THEN None ELSE holder[n]]
  /\ listening' = listening \ {d}
  /\ UNCHANGED <<pidPath, written, socket, registry, opened, looked, stops, met>>

Exit(d) == At(d, "exit") /\ End(d)
Kill(d) == d \in Alive /\ ~At(d, "exit") /\ End(d)

Daemon(d) ==
  \/ Start(d) \/ Check(d) \/ Open(d) \/ Lock(d) \/ Write(d)
  \/ At(d, "look") /\ Look(d, "probe")
  \/ Probe(d) \/ Reap(d) \/ Bind(d) \/ Register(d)
  \/ Leave(d) \/ Fail(d) \/ Clean(d) \/ Unregister(d) \/ Unlink(d) \/ Exit(d) \/ Kill(d)

-----------------------------------------------------------------------------
(* daemon stop: run_async of stop.rs                                       *)

\* The entry is read as it is, before anything can prune it.
Snapshot(s) ==
  /\ At(s, "idle")
  /\ StopsOverlap \/ Starting = {}
  /\ target' = [target EXCEPT ![s] = registry]
  /\ Goto(s, "look")
  /\ UNCHANGED <<files, socket, listening, registry, opened, looked, plan, asked, met>>

\* check_socket_alive; each answer has its own order of cleaning up.
ProbeDaemon(s) ==
  /\ At(s, "probe")
  /\ registry' \in Pruned(s)
  /\ plan' = [plan EXCEPT ![s] =
       IF Connects THEN <<"socket", "pid", "entry">> ELSE <<"pid", "socket", "entry">>]
  /\ Goto(s, IF Connects THEN "call" ELSE "wait")
  /\ UNCHANGED <<files, socket, listening, opened, looked, target, asked, met>>

\* send_command(Shutdown); a daemon that does not answer makes no difference.
Send(s) ==
  /\ At(s, "send")
  /\ registry' \in Pruned(s)
  /\ asked' = IF Connects THEN asked \cup {socket} ELSE asked
  /\ Goto(s, "wait")
  /\ UNCHANGED <<files, socket, listening, opened, looked, target, plan, met>>

\* wait_for_process_exit, or its timeout
Wait(s) ==
  /\ At(s, "wait")
  /\ Goto(s, IF target[s] \in Alive THEN "done" ELSE "clean")
  /\ UNCHANGED <<files, socket, listening, registry, opened, looked, stops, met>>

\* check_stale_pid: an empty file counts as stale.
Stale == pidPath # None /\ written[pidPath] \notin Alive

Planned(s, rest) == plan' = [plan EXCEPT ![s] = rest]

CheckPid(s) ==
  /\ At(s, "clean") /\ plan[s] # <<>> /\ Head(plan[s]) = "pid"
  /\ Planned(s, IF Stale THEN <<"unlink">> \o Tail(plan[s]) ELSE Tail(plan[s]))
  /\ UNCHANGED <<files, socket, listening, registry, pc, opened, looked, target, asked, met>>

\* cleanup_stale_pid removes what is now at the path.
UnlinkStale(s) ==
  /\ At(s, "clean") /\ plan[s] # <<>> /\ Head(plan[s]) = "unlink"
  /\ pidPath' = None
  /\ Planned(s, Tail(plan[s]))
  /\ UNCHANGED <<written, holder, socket, listening, registry, pc, opened, looked, target, asked, met>>

\* cleanup_socket_at the path of the snapshot
CleanSocket(s) ==
  /\ At(s, "clean") /\ plan[s] # <<>> /\ Head(plan[s]) = "socket"
  /\ socket' = None
  /\ Planned(s, Tail(plan[s]))
  /\ UNCHANGED <<files, listening, registry, pc, opened, looked, target, asked, met>>

\* remove_entry
RemoveEntry(s) ==
  /\ At(s, "clean") /\ plan[s] # <<>> /\ Head(plan[s]) = "entry"
  /\ registry' = None
  /\ Planned(s, <<>>)
  /\ Goto(s, "done")
  /\ UNCHANGED <<files, socket, listening, opened, looked, target, asked, met>>

Stop(s) ==
  \/ Snapshot(s)
  \/ At(s, "look") /\ Look(s, "probe")
  \/ ProbeDaemon(s)
  \/ At(s, "call") /\ Look(s, "send")
  \/ Send(s) \/ Wait(s)
  \/ CheckPid(s) \/ UnlinkStale(s) \/ CleanSocket(s) \/ RemoveEntry(s)

-----------------------------------------------------------------------------
(* Any other command that looks a daemon up                                *)

Prune(c) ==
  /\ At(c, "prune")
  /\ registry' \in Pruned(c)
  /\ Goto(c, "done")
  /\ UNCHANGED <<files, socket, listening, opened, looked, stops, met>>

Client(c) == (At(c, "idle") /\ Look(c, "prune")) \/ Prune(c)

-----------------------------------------------------------------------------
Next ==
  \/ \E d \in Daemons : Daemon(d)
  \/ \E s \in Stops : Stop(s)
  \/ \E c \in Clients : Client(c)

Spec == Init /\ [][Next]_vars

-----------------------------------------------------------------------------
TypeOK ==
  /\ pidPath \in PidFiles \cup {None}
  /\ written \in [PidFiles -> Daemons \cup {None}]
  /\ holder \in [PidFiles -> Daemons \cup {None}]
  /\ \A n \in PidFiles : holder[n] # None => holder[n] \in Alive /\ opened[holder[n]] = n
  /\ socket \in Daemons \cup {None}
  /\ listening \subseteq Alive
  /\ registry \in Daemons \cup {None}
  /\ opened \in [Daemons -> PidFiles \cup {None}]
  /\ looked \in [Processes -> Daemons \cup {None}]
  /\ target \in [Stops -> Daemons \cup {None}]
  /\ met \subseteq Daemons /\ asked \subseteq Daemons

(* Two daemons never index one folder, the lock being "the authoritative   *)
(* single-instance backstop" (start.rs:127-133).                           *)
OneServing == Cardinality(Serving) <= 1

\* Whatever overlaps: of the daemons that serve, one at most has the PID file that is
\* at the path.  Two serve only after the file of one was removed under it.
OneAtThePath == Cardinality({d \in Serving : opened[d] = pidPath}) <= 1

Quiet == Stopping = {} /\ Starting = {} /\ Alive = Serving

(* When nothing is starting or ending, a daemon that serves, and was not   *)
(* asked to leave, is the one its socket leads to.                         *)
Reachable == Quiet => \A d \in Serving \ asked : socket = d

(* ... and the one the registry names, so that a start is refused and a    *)
(* stop waits for it.                                                      *)
Registered == Quiet => \A d \in Serving \ asked : registry = d

(* What dead daemons leave behind stops no later one: a start is only      *)
(* refused when another daemon was alive while it ran.                     *)
RefusedByTheLiving ==
  [][\A d \in Daemons :
       pc[d] \in {"check", "lock", "bind"} /\ pc'[d] \in {"refused", "unlink"} => d \in met]_vars
=============================================================================
