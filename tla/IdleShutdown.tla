---------------------------- MODULE IdleShutdown ----------------------------
(***************************************************************************)
(* Presence and the idle shutdown of the daemon (tldr-cli daemon/          *)
(* activity.rs, the run loop of daemon.rs, the taps of watcher.rs and      *)
(* poke.rs).                                                               *)
(*                                                                         *)
(* Every source of presence has a time of its own, work holds a token      *)
(* while it runs, and the loop leaves when no token is live and every      *)
(* presence is older than the timeout.  The loop reads the count of tokens *)
(* and then the ages; the end of work lowers the count and then touches    *)
(* its source.                                                             *)
(*                                                                         *)
(* A time stamp is its age in ticks, which stops one tick past the         *)
(* timeout.  quiet is what the rule is about and the code does not keep:   *)
(* the ticks since somebody was there or work was in flight.               *)
(***************************************************************************)
EXTENDS Naturals, FiniteSets

CONSTANTS Tasks,         \* the units of internal work that can be in flight
          Timeout,       \* idle_timeout, in ticks
          Delay,         \* the ticks from a presence to the work it asks for
          PreemptedDrops \* may others run between the two halves of a drop?

ASSUME IdleAssumption ==
  /\ IsFiniteSet(Tasks)
  /\ Timeout \in Nat /\ Delay \in Nat /\ Delay <= Timeout
  /\ PreemptedDrops \in BOOLEAN

VARIABLES age,       \* ActivityTracker.sources, as ages
          busyCount, \* ActivityTracker.busy_count
          task,      \* of each unit of work: idle, busy, or ending
          due,       \* the work that a presence asked for and that has not begun
          loop,      \* where the run loop stands
          stopping,  \* TLDRDaemon.stopping
          project,   \* does the project directory exist?
          quiet      \* ticks since somebody came, or since work was in flight

vars == <<age, busyCount, task, due, loop, stopping, project, quiet>>

Source == {"socket", "cli_poke", "watcher", "internal"}
Stale == Timeout + 1
Older(a) == IF a = Stale THEN a ELSE a + 1
InFlight(t) == task[t] # "idle"

Init ==
  /\ age = [s \in Source |-> 0]
  /\ task \in [Tasks -> {"idle", "busy"}]     \* run warms before it loops
  /\ busyCount = Cardinality({t \in Tasks : task[t] = "busy"})
  /\ due = {} /\ loop = "top" /\ stopping = FALSE /\ project = TRUE /\ quiet = 0

Running == loop # "left"

\* A drop is two adjacent instructions: unless it is preempted, neither the
\* clock nor the loop gets between them.
DropsDone == PreemptedDrops \/ \A t \in Tasks : task[t] # "ending"

-----------------------------------------------------------------------------
(* Time                                                                    *)

\* Work begins within Delay of what asked for it, which touched a source, or of
\* the end of the work it queues behind; the two reads of is_idle fall within
\* one tick.
Tick ==
  /\ Running /\ DropsDone /\ loop # "ages"
  /\ due = {} \/ (\E s \in Source : age[s] < Delay) \/ \E t \in Tasks : InFlight(t)
  /\ age' = [s \in Source |-> Older(age[s])]
  /\ quiet' = IF \E t \in Tasks : InFlight(t) THEN 0 ELSE Older(quiet)
  /\ UNCHANGED <<busyCount, task, due, loop, stopping, project>>

-----------------------------------------------------------------------------
(* Presence                                                                *)

Touched(s) == [age EXCEPT ![s] = 0]

\* The poke receiver
CliPoke ==
  /\ Running
  /\ age' = Touched("cli_poke") /\ quiet' = 0
  /\ UNCHANGED <<busyCount, task, due, loop, stopping, project>>

\* Mutation: what the daemon writes and what reads the project count too.
PresenceDecisionAll(kind) == TRUE

\* What the daemon writes is "own", as is what only reads; what is outside the
\* corpus is "other".
PresenceDecision(kind) == kind # "own"

WatchDecision(kind) == PresenceDecision(kind) /\ kind = "corpus"

\* Files of the ignore policy are changed ("policy"), or only read.  The daemon
\* reads them itself: in every scan, and whenever it reloads them.
EventKind == {"own", "other", "corpus", "policy", "policy_read"}
ReloadForPaths(kind) == kind \in {"policy", "policy_read"}
BySomebody(kind) == kind \in {"other", "corpus", "policy"}

\* WatchHandler::handle_event: a policy file is presence and asks for a full
\* rebuild whatever befell it; of other paths the decisions are asked.
WatchEvent(kind, t) ==
  /\ Running
  /\ age' = IF ReloadForPaths(kind) \/ PresenceDecision(kind) THEN Touched("watcher") ELSE age
  /\ due' = IF ReloadForPaths(kind) \/ WatchDecision(kind) THEN due \cup {t} ELSE due
  /\ quiet' = IF BySomebody(kind) THEN 0 ELSE quiet
  /\ UNCHANGED <<busyCount, task, loop, stopping, project>>

\* An accepted connection, whose command may ask for work.
Connect(asked) ==
  /\ loop = "accept" /\ DropsDone
  /\ loop' = "top" /\ age' = Touched("socket") /\ quiet' = 0
  /\ due' = due \cup asked
  /\ UNCHANGED <<busyCount, task, stopping, project>>

-----------------------------------------------------------------------------
(* Work and its token                                                      *)

Begin(t) ==
  /\ Running /\ t \in due /\ task[t] = "idle"
  /\ task' = [task EXCEPT ![t] = "busy"] /\ due' = due \ {t}
  /\ busyCount' = busyCount + 1 /\ quiet' = 0
  /\ UNCHANGED <<age, loop, stopping, project>>

\* BusyGuard::drop: fetch_sub
End(t) ==
  /\ Running /\ task[t] = "busy"
  /\ task' = [task EXCEPT ![t] = "ending"]
  /\ busyCount' = busyCount - 1 /\ quiet' = 0
  /\ UNCHANGED <<age, due, loop, stopping, project>>

\* Mutation: the end of work is no presence.
TouchNothing(t) ==
  /\ Running /\ task[t] = "ending"
  /\ task' = [task EXCEPT ![t] = "idle"]
  /\ UNCHANGED <<age, busyCount, due, loop, stopping, project, quiet>>

\* BusyGuard::drop: touch
Touch(t) ==
  /\ Running /\ task[t] = "ending"
  /\ task' = [task EXCEPT ![t] = "idle"] /\ age' = Touched("internal")
  /\ UNCHANGED <<busyCount, due, loop, stopping, project, quiet>>

-----------------------------------------------------------------------------
(* The run loop                                                            *)

Goes(from, to) ==
  /\ loop = from /\ DropsDone /\ loop' = to
  /\ UNCHANGED <<age, busyCount, task, due, stopping, project, quiet>>

Top == IF stopping \/ ~project THEN Goes("top", "left") ELSE Goes("top", "count")

\* Mutation: the ages are read first.
IsIdleAgesFirst ==
  \/ Goes("count", IF \A s \in Source : age[s] > Timeout THEN "ages" ELSE "accept")
  \/ Goes("ages", IF busyCount = 0 THEN "left" ELSE "accept")

\* ActivityTracker::is_idle
IsIdle ==
  \/ Goes("count", IF busyCount = 0 THEN "ages" ELSE "accept")
  \/ Goes("ages", IF \A s \in Source : age[s] > Timeout THEN "left" ELSE "accept")

AcceptTimesOut == Goes("accept", "top")

-----------------------------------------------------------------------------
(* The ways to be told                                                     *)

Shutdown ==
  /\ Running /\ ~stopping /\ stopping' = TRUE
  /\ UNCHANGED <<age, busyCount, task, due, loop, project, quiet>>

Removed ==
  /\ Running /\ project /\ project' = FALSE
  /\ UNCHANGED <<age, busyCount, task, due, loop, stopping, quiet>>

Left == ~Running /\ UNCHANGED vars

Work == \E t \in Tasks : Begin(t) \/ End(t) \/ Touch(t)
Loop == Top \/ IsIdle \/ AcceptTimesOut

Next ==
  \/ Tick
  \/ CliPoke
  \/ \E kind \in EventKind, t \in Tasks : WatchEvent(kind, t)
  \/ \E asked \in SUBSET Tasks : Connect(asked)
  \/ Work
  \/ Loop
  \/ Shutdown
  \/ Removed
  \/ Left

\* Time passes although the loop, too quick for it, disables the tick again
\* and again, and the loop goes on although drops hold it up, each for a moment;
\* work that is due is begun, and a drop is completed.
Fairness ==
  /\ SF_vars(Tick)
  /\ SF_vars(Loop)
  /\ \A t \in Tasks : WF_vars(Begin(t)) /\ WF_vars(Touch(t))

Spec == Init /\ [][Next]_vars /\ Fairness

-----------------------------------------------------------------------------
(* Properties                                                              *)

IdlesOut == Running /\ loop' = "left" /\ ~stopping /\ project

\* When nobody told the daemon to stop, it leaves no work that has begun and
\* none that a presence has asked for, though its two reads let work begin or
\* end between them (the run loop: "never abandon your own job").
NeverAbandonsWork == [][IdlesOut => due = {} /\ \A t \in Tasks : ~InFlight(t)]_vars

\* When nobody told the daemon to stop, it leaves only after a whole timeout
\* without a presence or work in flight: the end of work restarts the countdown
\* (Source::Internal: "so the idle countdown restarts when a 90-minute build
\* finishes instead of killing the freshly-warmed daemon immediately").
CountdownRestarts == [][IdlesOut => quiet > Timeout]_vars

Somebody ==
  \/ CliPoke
  \/ \E kind \in EventKind, t \in Tasks : BySomebody(kind) /\ WatchEvent(kind, t)
  \/ \E asked \in SUBSET Tasks : Connect(asked)

PolicyRead == \E t \in Tasks : WatchEvent("policy_read", t)

\* A daemon leaves unless somebody comes again and again or some work never
\* ends: what it writes, and what it or a scanner reads, keeps it alive no longer
\* than the work it asked for ("a daemon must never count its own activity as
\* presence").  Reads of policy files are the exception the code makes.
DormantLeaves ==
  \/ []<><<Somebody>>_vars
  \/ []<><<PolicyRead>>_vars
  \/ \E t \in Tasks : <>[]InFlight(t)
  \/ <>(loop = "left")

\* presence_decision as its comment explains it, without the exception: "the
\* daemon's own corpus READS ... would make an actively-building daemon immortal".
ReadsKeepNobodyAlive ==
  \/ []<><<Somebody>>_vars
  \/ \E t \in Tasks : <>[]InFlight(t)
  \/ <>(loop = "left")
=============================================================================
