------------------------- MODULE IdleShutdown_proofs -------------------------
(***************************************************************************)
(* For any units of work, any timeout and any delay up to it: as long as a *)
(* drop is not preempted, the loop leaves no work behind and leaves only   *)
(* after a whole timeout without a presence or work.                       *)
(*                                                                         *)
(* The two reads of is_idle are of two moments, so that none was busy when *)
(* the ages are found stale has to be shown: work that begins between the  *)
(* reads was asked for at most Delay ago, by an event whose age the second *)
(* read sees.                                                              *)
(***************************************************************************)
EXTENDS IdleShutdown, FiniteSetTheorems, TLAPS

Busy == {t \in Tasks : task[t] = "busy"}

TypeOK ==
  /\ age \in [Source -> 0 .. Stale]
  /\ task \in [Tasks -> {"idle", "busy", "ending"}]
  /\ busyCount \in Nat
  /\ due \subseteq Tasks
  /\ loop \in {"top", "count", "ages", "accept", "left"}
  /\ stopping \in BOOLEAN /\ project \in BOOLEAN
  /\ quiet \in 0 .. Stale

Counted == busyCount = Cardinality(Busy)

\* quiet counts nothing while work is in flight.
QuietIsQuiet == (\E t \in Tasks : InFlight(t)) => quiet = 0

\* The ages know of work that is due, unless it queues behind other work.
AgesExpect == due # {} => \/ \E t \in Tasks : InFlight(t)
                          \/ \E s \in Source : age[s] <= Delay

\* The ages know of everything but the work in flight.
AgesKnow == (\A t \in Tasks : ~InFlight(t)) => \E s \in Source : age[s] <= quiet

\* Between the two reads, work in flight is work that somebody just asked for.
AgesProtect == loop = "ages" /\ (\E t \in Tasks : InFlight(t)) => \E s \in Source : age[s] <= Timeout

IdleInv == TypeOK /\ Counted /\ QuietIsQuiet /\ AgesExpect /\ AgesKnow /\ AgesProtect

-----------------------------------------------------------------------------
LEMMA BusyFinite == IsFiniteSet(Busy) /\ Cardinality(Busy) \in Nat
  BY IdleAssumption, FS_Subset, FS_CardinalityType DEF Busy

(* A count of zero says that nothing is busy.                              *)
LEMMA NoneBusy == Counted /\ busyCount = 0 => \A t \in Tasks : task[t] # "busy"
  BY BusyFinite, FS_EmptySet DEF Counted, Busy

LEMMA InitInv == Init => IdleInv
<1> SUFFICES ASSUME Init PROVE IdleInv
  OBVIOUS
<1>1. busyCount \in Nat
  BY BusyFinite DEF Init, Busy
<1>2. task \in [Tasks -> {"idle", "busy", "ending"}]
  BY DEF Init
<1>3. TypeOK
  <2>1. 0 \in 0 .. Stale
    BY IdleAssumption DEF Stale
  <2> QED
    BY <1>1, <1>2, <2>1 DEF Init, TypeOK
<1>4. Counted
  BY DEF Init, Counted, Busy
<1>5. QuietIsQuiet /\ AgesExpect /\ AgesKnow /\ AgesProtect
  BY IdleAssumption DEF Init, QuietIsQuiet, AgesExpect, AgesKnow, AgesProtect, Source
<1> QED
  BY <1>3, <1>4, <1>5 DEF IdleInv

(* A source is touched: somebody came, or policy files were read.          *)
LEMMA PresenceKeeps ==
  ASSUME IdleInv, NEW s \in Source, age' = Touched(s), quiet' \in {0, quiet},
         due' \subseteq Tasks, loop' \in {"top", loop},
         UNCHANGED <<busyCount, task, stopping, project>>
  PROVE  IdleInv'
<1>1. TypeOK'
  BY IdleAssumption DEF IdleInv, TypeOK, Touched, Stale
<1>2. Counted'
  BY DEF IdleInv, Counted, Busy
<1>3. age'[s] = 0
  BY DEF IdleInv, TypeOK, Touched
<1>4. AgesExpect' /\ AgesProtect'
  BY <1>3, IdleAssumption DEF AgesExpect, AgesProtect
<1>5. QuietIsQuiet'
  BY DEF IdleInv, QuietIsQuiet, InFlight
<1>6. AgesKnow'
  BY <1>1, <1>3 DEF TypeOK, AgesKnow
<1> QED
  BY <1>1, <1>2, <1>4, <1>5, <1>6 DEF IdleInv

(* A step that disturbs neither work nor ages, nor enters the second read. *)
LEMMA LoopKeeps ==
  ASSUME IdleInv, loop' \in {"top", "count", "accept", "left", loop},
         stopping' \in BOOLEAN, project' \in BOOLEAN,
         UNCHANGED <<age, busyCount, task, due, quiet>>
  PROVE  IdleInv'
<1>1. TypeOK'
  BY DEF IdleInv, TypeOK
<1>2. Counted' /\ QuietIsQuiet' /\ AgesExpect' /\ AgesKnow' /\ AgesProtect'
  BY DEF IdleInv, Counted, Busy, QuietIsQuiet, AgesExpect, AgesKnow, AgesProtect, InFlight
<1> QED
  BY <1>1, <1>2 DEF IdleInv

LEMMA TickKeeps == IdleInv /\ Tick => IdleInv'
<1> SUFFICES ASSUME IdleInv, Tick PROVE IdleInv'
  OBVIOUS
<1>1. TypeOK'
  BY IdleAssumption DEF IdleInv, TypeOK, Tick, Older, Stale
<1>2. Counted'
  BY DEF IdleInv, Counted, Busy, Tick
<1>3. QuietIsQuiet'
  BY DEF QuietIsQuiet, Tick, InFlight
<1>4. AgesKnow'
  <2> SUFFICES ASSUME \A t \in Tasks : ~InFlight(t) PROVE \E s \in Source : age'[s] <= quiet'
    BY DEF Tick, AgesKnow, InFlight
  <2>1. PICK s \in Source : age[s] <= quiet
    BY DEF IdleInv, AgesKnow
  <2>2. age'[s] = Older(age[s]) /\ quiet' = Older(quiet)
    BY DEF Tick
  <2>3. Older(age[s]) <= Older(quiet)
    BY <2>1, IdleAssumption DEF IdleInv, TypeOK, Older, Stale
  <2> QED
    BY <2>2, <2>3
<1>5. AgesProtect'
  BY DEF Tick, AgesProtect
<1>6. AgesExpect'
  <2> SUFFICES ASSUME due # {}, \A t \in Tasks : ~InFlight(t) PROVE \E s \in Source : age'[s] <= Delay
    BY DEF Tick, AgesExpect, InFlight
  <2>1. PICK s \in Source : age[s] < Delay
    BY DEF Tick
  <2>2. age'[s] = Older(age[s])
    BY DEF Tick
  <2>3. Older(age[s]) <= Delay
    BY <2>1, IdleAssumption DEF IdleInv, TypeOK, Older, Stale
  <2> QED
    BY <2>2, <2>3
<1> QED
  BY <1>1, <1>2, <1>3, <1>4, <1>5, <1>6 DEF IdleInv

(* What a task becomes is counted.                                         *)
LEMMA BecomesBusy ==
  ASSUME TypeOK, Counted, NEW t \in Tasks, task[t] = "idle",
         task' = [task EXCEPT ![t] = "busy"], busyCount' = busyCount + 1
  PROVE  Counted'
<1>1. Busy' = Busy \cup {t} /\ t \notin Busy
  BY DEF TypeOK, Busy
<1> QED
  BY <1>1, BusyFinite, FS_AddElement DEF Counted

LEMMA BecomesEnding ==
  ASSUME TypeOK, Counted, NEW t \in Tasks, task[t] = "busy",
         task' = [task EXCEPT ![t] = "ending"], busyCount' = busyCount - 1
  PROVE  Counted' /\ busyCount' \in Nat
<1>1. Busy' = Busy \ {t} /\ t \in Busy
  BY DEF TypeOK, Busy
<1>2. Cardinality(Busy') = Cardinality(Busy) - 1
  BY <1>1, BusyFinite, FS_RemoveElement
<1>3. IsFiniteSet(Busy') /\ Cardinality(Busy') \in Nat
  BY <1>1, BusyFinite, FS_Subset, FS_CardinalityType
<1> QED
  BY <1>2, <1>3 DEF Counted

LEMMA BeginKeeps == ASSUME NEW t \in Tasks PROVE IdleInv /\ Begin(t) => IdleInv'
<1> SUFFICES ASSUME IdleInv, Begin(t) PROVE IdleInv'
  OBVIOUS
<1>1. TypeOK'
  BY IdleAssumption DEF IdleInv, TypeOK, Begin, Stale
<1>2. Counted'
  BY BecomesBusy DEF IdleInv, Begin
<1>3. task'[t] = "busy"
  BY DEF IdleInv, TypeOK, Begin
<1>4. QuietIsQuiet' /\ AgesExpect' /\ AgesKnow'
  BY <1>3 DEF Begin, QuietIsQuiet, AgesExpect, AgesKnow, InFlight
<1>5. AgesProtect'
  <2> SUFFICES ASSUME loop = "ages" PROVE \E s \in Source : age[s] <= Timeout
    BY DEF Begin, AgesProtect
  <2>1. CASE \E u \in Tasks : InFlight(u)
    BY <2>1 DEF IdleInv, AgesProtect
  <2>2. CASE \A u \in Tasks : ~InFlight(u)
    <3>1. PICK s \in Source : age[s] <= Delay
      BY <2>2 DEF IdleInv, AgesExpect, Begin
    <3> QED
      BY <3>1, IdleAssumption DEF IdleInv, TypeOK, Stale
  <2> QED
    BY <2>1, <2>2
<1> QED
  BY <1>1, <1>2, <1>4, <1>5 DEF IdleInv

LEMMA EndKeeps == ASSUME NEW t \in Tasks PROVE IdleInv /\ End(t) => IdleInv'
<1> SUFFICES ASSUME IdleInv, End(t) PROVE IdleInv'
  OBVIOUS
<1>1. Counted' /\ busyCount' \in Nat
  BY BecomesEnding DEF IdleInv, End
<1>2. TypeOK'
  BY <1>1, IdleAssumption DEF IdleInv, TypeOK, End, Stale
<1>3. task'[t] = "ending"
  BY DEF IdleInv, TypeOK, End
<1>4. QuietIsQuiet' /\ AgesExpect' /\ AgesKnow'
  BY <1>3 DEF End, QuietIsQuiet, AgesExpect, AgesKnow, InFlight
<1>5. InFlight(t)
  BY DEF End, InFlight
<1>6. AgesProtect'
  BY <1>5 DEF IdleInv, AgesProtect, End
<1> QED
  BY <1>1, <1>2, <1>4, <1>6 DEF IdleInv

LEMMA TouchKeeps == ASSUME NEW t \in Tasks PROVE IdleInv /\ Touch(t) => IdleInv'
<1> SUFFICES ASSUME IdleInv, Touch(t) PROVE IdleInv'
  OBVIOUS
<1>1. TypeOK'
  BY IdleAssumption DEF IdleInv, TypeOK, Touch, Touched, Stale, Source
<1>2. Busy' = Busy
  BY DEF IdleInv, TypeOK, Touch, Busy
<1>3. Counted'
  BY <1>2 DEF IdleInv, Counted, Touch
<1>4. quiet = 0 /\ quiet' = 0
  BY DEF IdleInv, QuietIsQuiet, Touch, InFlight
<1>5. age'["internal"] = 0
  BY DEF IdleInv, TypeOK, Touch, Touched, Source
<1>6. QuietIsQuiet' /\ AgesExpect' /\ AgesKnow' /\ AgesProtect'
  BY <1>4, <1>5, IdleAssumption DEF QuietIsQuiet, AgesExpect, AgesKnow, AgesProtect, Source
<1> QED
  BY <1>1, <1>3, <1>6 DEF IdleInv

LEMMA WatchEventKeeps ==
  ASSUME NEW kind, NEW t \in Tasks PROVE IdleInv /\ WatchEvent(kind, t) => IdleInv'
<1> SUFFICES ASSUME IdleInv, WatchEvent(kind, t) PROVE IdleInv'
  OBVIOUS
<1>1. CASE ReloadForPaths(kind) \/ PresenceDecision(kind)
  BY <1>1, PresenceKeeps DEF IdleInv, TypeOK, WatchEvent, Source
<1>2. CASE ~ReloadForPaths(kind) /\ ~PresenceDecision(kind)
  BY <1>2, LoopKeeps
     DEF IdleInv, TypeOK, WatchEvent, PresenceDecision, WatchDecision, ReloadForPaths, BySomebody
<1> QED
  BY <1>1, <1>2

(* The second read is entered when nothing is in flight.                   *)
LEMMA IsIdleKeeps ==
  ASSUME PreemptedDrops = FALSE PROVE IdleInv /\ IsIdle => IdleInv'
<1> SUFFICES ASSUME IdleInv, IsIdle PROVE IdleInv'
  OBVIOUS
<1>1. CASE loop = "count" /\ busyCount = 0
  <2>1. \A t \in Tasks : ~InFlight(t)
    BY <1>1, NoneBusy DEF IdleInv, TypeOK, IsIdle, Goes, DropsDone, InFlight
  <2>2. TypeOK' /\ Counted'
    BY <1>1 DEF IdleInv, TypeOK, Counted, Busy, IsIdle, Goes
  <2>3. QuietIsQuiet' /\ AgesExpect' /\ AgesKnow' /\ AgesProtect'
    BY <2>1 DEF IdleInv, QuietIsQuiet, AgesExpect, AgesKnow, AgesProtect, IsIdle, Goes, InFlight
  <2> QED
    BY <2>2, <2>3 DEF IdleInv
<1>2. CASE ~(loop = "count" /\ busyCount = 0)
  BY <1>2, LoopKeeps DEF IdleInv, TypeOK, IsIdle, Goes
<1> QED
  BY <1>1, <1>2

LEMMA StepInv ==
  ASSUME PreemptedDrops = FALSE PROVE IdleInv /\ [Next]_vars => IdleInv'
<1> SUFFICES ASSUME IdleInv, [Next]_vars PROVE IdleInv'
  OBVIOUS
<1>1. CASE Tick
  BY <1>1, TickKeeps
<1>2. CASE CliPoke
  BY <1>2, PresenceKeeps DEF IdleInv, TypeOK, CliPoke, Source
<1>3. CASE \E kind \in EventKind, t \in Tasks : WatchEvent(kind, t)
  BY <1>3, WatchEventKeeps
<1>4. CASE \E asked \in SUBSET Tasks : Connect(asked)
  BY <1>4, PresenceKeeps DEF IdleInv, TypeOK, Connect, Source
<1>5. CASE Work
  BY <1>5, BeginKeeps, EndKeeps, TouchKeeps DEF Work
<1>6. CASE IsIdle
  BY <1>6, IsIdleKeeps
<1>7. CASE Top \/ AcceptTimesOut \/ Shutdown \/ Removed \/ Left \/ UNCHANGED vars
  BY <1>7, LoopKeeps
     DEF IdleInv, TypeOK, Top, AcceptTimesOut, Goes, Shutdown, Removed, Left, vars
<1> QED
  BY <1>1, <1>2, <1>3, <1>4, <1>5, <1>6, <1>7 DEF Next, Loop

-----------------------------------------------------------------------------
(* The loop leaves by itself only from the second read, with stale ages.   *)
LEMMA LeavesStale ==
  ASSUME PreemptedDrops = FALSE, IdleInv, [Next]_vars, IdlesOut
  PROVE  /\ due = {} /\ \A t \in Tasks : ~InFlight(t)
         /\ quiet > Timeout
<1>1. loop # "left" /\ loop' = "left"
  BY DEF IdlesOut, Running
<1>2. loop = "ages" /\ \A s \in Source : age[s] > Timeout
  BY <1>1 DEF IdlesOut, Next, Tick, CliPoke, WatchEvent, Connect, Work, Begin, End, Touch, Loop,
     Top, IsIdle, AcceptTimesOut, Goes, Shutdown, Removed, Left, vars
<1>3. \A t \in Tasks : ~InFlight(t)
  BY <1>2, IdleAssumption DEF IdleInv, TypeOK, AgesProtect, Stale
<1>4. quiet > Timeout
  BY <1>2, <1>3, IdleAssumption DEF IdleInv, TypeOK, AgesKnow, Stale
<1>5. due = {}
  BY <1>2, <1>3, IdleAssumption DEF IdleInv, TypeOK, AgesExpect, Stale
<1> QED
  BY <1>3, <1>4, <1>5

LEMMA Invariance == ASSUME PreemptedDrops = FALSE PROVE Spec => []IdleInv
  BY InitInv, StepInv, PTL DEF Spec

(* For any work and any timeout, a daemon that nobody told to stop leaves  *)
(* none of its work: the two reads of is_idle are in the right order.      *)
THEOREM WorkIsNotAbandoned ==
  ASSUME PreemptedDrops = FALSE PROVE Spec => NeverAbandonsWork
<1>1. IdleInv /\ [Next]_vars => [IdlesOut => due = {} /\ \A t \in Tasks : ~InFlight(t)]_vars
  BY LeavesStale
<1> QED
  BY <1>1, Invariance, PTL DEF Spec, NeverAbandonsWork

(* For any work and any timeout, a daemon that nobody told to stop leaves  *)
(* after a whole timeout in which nobody came and nothing was in flight.   *)
THEOREM WholeTimeoutPasses ==
  ASSUME PreemptedDrops = FALSE PROVE Spec => CountdownRestarts
<1>1. IdleInv /\ [Next]_vars => [IdlesOut => quiet > Timeout]_vars
  BY LeavesStale
<1> QED
  BY <1>1, Invariance, PTL DEF Spec, CountdownRestarts
=============================================================================
