----------------------- MODULE GenerationRefresh_proofs -----------------------
(***************************************************************************)
(* What holds of the daemon's refresh tasks for any number of files,       *)
(* Notify handlers and warm build tasks, whatever overlaps, fails or       *)
(* panics: types, one warm build at a time, that no change of a file is    *)
(* lost between the watcher, the handlers and the warm builds, and that no *)
(* requested rebuild is forgotten.                                         *)
(*                                                                         *)
(* Accounted is the argument of the third: at any time a change that is    *)
(* not in the resident generation is with somebody who will still bring it *)
(* there, and a full rebuild may drop the watcher's events because a scan  *)
(* that starts later is due.                                               *)
(*                                                                         *)
(* Nothing of the kind is proved of the lexical index: refreshes that      *)
(* overlap can leave one of another generation's documents, and that they  *)
(* do not overlap is nothing the daemon sees to.                           *)
(***************************************************************************)
EXTENDS GenerationRefresh, FiniteSetTheorems, TLAPS

\* At most one build works, and the flag says whether one does.
OneBuild ==
  /\ \A b, d \in Builds : pc[b] # "idle" /\ pc[d] # "idle" => b = d
  /\ warm.running <=> \E b \in Builds : pc[b] # "idle"

\* A scan that starts later is due.
ScanDue ==
  \/ \E b \in Builds : pc[b] = "ingest"
  \/ /\ warm.pending
     /\ \/ pc[Executor] \in {"invalidate", "start"}
        \/ \E b \in Builds : pc[b] # "idle"

Accounted ==
  \A f \in Files \ stale :
    \/ Resident # 0 /\ FactsOf(Resident)[f] = disk[f]
    \/ f \in events
    \/ \E t \in Batchers : pc[t] = "delta" /\ f \in task[t].todo
    \/ ScanDue

Refreshing == TypeOK /\ OneBuild /\ Accounted

-----------------------------------------------------------------------------
\* The facts of a generation, and of none, are contents.
LEMMA ContentsOf ==
  ASSUME published \in Seq(Contents), NEW g \in 0..Len(published)
  PROVE  FactsOf(g) \in Contents
BY DEF FactsOf, Nothing, Contents

\* An empty generation, index and task have their types.
LEMMA NothingTypes == Nothing \in Contents /\ NoIndex \in Index /\ NoTask \in Locals
BY DEF Nothing, Contents, NoIndex, Index, NoTask, Locals

\* An index built whole is one of its generation.
LEMMA RefreshedType ==
  ASSUME published \in Seq(Contents), NEW g \in 0..Len(published)
  PROVE  Refreshed(g) \in Index /\ Refreshed(g).generation = g
BY ContentsOf DEF Refreshed, Index, Present

\* An index built from a base is one of the new generation.
LEMMA RefreshedPathsType ==
  ASSUME published \in Seq(Contents), NEW g \in 0..Len(published),
         NEW base \in Index, NEW changed
  PROVE  RefreshedPaths(base, g, changed) \in Index /\ RefreshedPaths(base, g, changed).generation = g
<1> DEFINE affected == {Language[f] : f \in changed \cap (base.files \cup Present(FactsOf(g)))}
           docs == [f \in Files |-> IF Language[f] \in affected THEN FactsOf(g)[f] ELSE base.docs[f]]
<1>1. docs \in Contents
  <2>1. FactsOf(g) \in Contents /\ base.docs \in Contents
    BY ContentsOf DEF Index
  <2>. QED BY <2>1 DEF Contents
<1>2. RefreshedPaths(base, g, changed) = [Refreshed(g) EXCEPT !.docs = docs]
  BY DEF RefreshedPaths
<1>. HIDE DEF docs
<1>. QED BY <1>1, <1>2, RefreshedType DEF Index

\* A generation after the resident one.
LEMMA Published ==
  ASSUME published \in Seq(Contents), NEW facts \in Contents
  PROVE  /\ Append(published, facts) \in Seq(Contents)
         /\ Len(Append(published, facts)) = Len(published) + 1
         /\ Append(published, facts)[Len(published) + 1] = facts
OBVIOUS

\* The startup warm is the one build, and no change was reported yet.
LEMMA InitRefreshing == Init => Refreshing
<1>. SUFFICES ASSUME Init PROVE Refreshing
  OBVIOUS
<1>1. PICK b \in Builds : pc = [t \in Tasks |-> IF t = b THEN "ingest" ELSE "idle"]
  BY DEF Init
<1>2. published \in Seq(Contents)
  <2>1. CASE published = <<>>
    BY <2>1
  <2>2. CASE \E facts \in Contents : published = <<facts>>
    BY <2>2
  <2>. QED BY <2>1, <2>2 DEF Init, Contents
<1>s. search \in Index /\ search.generation = Resident /\ Resident \in Nat
  BY <1>2, RefreshedType DEF Init, Resident
<1>3. TypeOK
  BY <1>1, <1>2, <1>s, NothingTypes, RefreshAssumption
  DEF Init, TypeOK, Contents, NoTask, Working
<1>4. OneBuild
  BY <1>1 DEF Init, OneBuild, Tasks
<1>5. ScanDue
  BY <1>1 DEF ScanDue, Tasks
<1>. QED BY <1>3, <1>4, <1>5 DEF Refreshing, Accounted

-----------------------------------------------------------------------------
(***************************************************************************)
(* Every action preserves Refreshing.                                      *)
(***************************************************************************)
LEMMA EditRefreshing ==
  ASSUME Refreshing, NEW f \in Files, NEW r \in Revs \cup {Absent}, Edit(f, r)
  PROVE  Refreshing'
<1>. USE DEF Edit
<1>1. TypeOK'
  BY RefreshAssumption DEF Refreshing, TypeOK, Contents, Resident, Working
<1>2. OneBuild'
  BY DEF Refreshing, OneBuild
<1>3. Accounted'
  BY DEF Refreshing, TypeOK, Contents, Accounted, ScanDue, Resident, FactsOf
<1>. QED BY <1>1, <1>2, <1>3 DEF Refreshing

\* A flush hands events over to a batch.
LEMMA FlushRefreshing ==
  ASSUME Refreshing, NEW S \in SUBSET Files, Flush(S)
  PROVE  Refreshing'
<1> DEFINE new == [NoTask EXCEPT !.todo = S, !.changed = S]
<1>1. new \in Locals /\ new.todo = S /\ new.snapshot = 0
  BY NothingTypes DEF Locals, NoTask
<1>2. /\ pc[Executor] = "idle" /\ Executor \in Batchers /\ Executor \in Tasks
      /\ pc' = [pc EXCEPT ![Executor] = "delta"]
      /\ task' = [task EXCEPT ![Executor] = new]
      /\ events' = events \ S
      /\ UNCHANGED <<disk, published, search, warm, stale, edits, calls, faults, panics>>
  BY DEF Flush, StartBatch, Goto, Batchers, Tasks
<1>. HIDE DEF new
<1>3. TypeOK'
  BY <1>1, <1>2 DEF Refreshing, TypeOK, Resident, Working
<1>4. OneBuild'
  BY <1>2, RefreshAssumption DEF Refreshing, TypeOK, OneBuild
<1>5. ScanDue => ScanDue'
  BY <1>2, RefreshAssumption DEF Refreshing, TypeOK, ScanDue, Tasks
<1>6. Accounted'
  BY <1>1, <1>2, <1>5 DEF Refreshing, TypeOK, Accounted, Resident, FactsOf, Tasks
<1>. QED BY <1>3, <1>4, <1>6 DEF Refreshing

\* A notification takes its file into a batch of its own.
LEMMA NotifyRefreshing ==
  ASSUME Refreshing, NEW t \in Notifiers, NEW f \in Files, Notify(t, f)
  PROVE  Refreshing'
<1> DEFINE new == [NoTask EXCEPT !.todo = {f}, !.changed = {f}]
<1>1. new \in Locals /\ new.todo = {f} /\ new.snapshot = 0
  BY NothingTypes DEF Locals, NoTask
<1>2. /\ pc[t] = "idle" /\ t \in Tasks /\ t # Executor /\ t \notin Builds
      /\ pc' = [pc EXCEPT ![t] = "delta"]
      /\ task' = [task EXCEPT ![t] = new]
      /\ calls' \in 0..MaxCalls
      /\ UNCHANGED <<disk, events, published, search, warm, stale, edits, faults, panics>>
  BY RefreshAssumption DEF Notify, StartBatch, Goto, Batchers, Tasks, Refreshing, TypeOK
<1>. HIDE DEF new
<1>3. TypeOK'
  BY <1>1, <1>2 DEF Refreshing, TypeOK, Resident, Working
<1>4. OneBuild'
  BY <1>2 DEF Refreshing, TypeOK, OneBuild
<1>5. ScanDue => ScanDue'
  BY <1>2 DEF Refreshing, TypeOK, ScanDue
<1>6. Accounted'
  BY <1>1, <1>2, <1>5 DEF Refreshing, TypeOK, Accounted, Resident, FactsOf, Tasks
<1>. QED BY <1>3, <1>4, <1>6 DEF Refreshing

\* A delta settles its own file and keeps every other one.
LEMMA DeltaRefreshing ==
  ASSUME Refreshing, NEW t \in Batchers, NEW f \in Files, Delta(t, f) \/ DeltaFails(t, f)
  PROVE  Refreshing'
<1> DEFINE facts == [FactsOf(Resident) EXCEPT ![f] = disk[f]]
           new   == [task[t] EXCEPT !.todo = @ \ {f}]
<1>1. /\ Resident \in 0..Len(published)
      /\ FactsOf(Resident) \in Contents
      /\ facts \in Contents
      /\ facts[f] = disk[f]
      /\ \A h \in Files : h # f => facts[h] = FactsOf(Resident)[h]
  <2>1. Resident \in 0..Len(published)
    BY DEF Refreshing, TypeOK, Resident
  <2>2. FactsOf(Resident) \in Contents
    BY <2>1, ContentsOf DEF Refreshing, TypeOK
  <2>. QED BY <2>1, <2>2 DEF Refreshing, TypeOK, Contents
<1>2. t \in Tasks /\ t \notin Builds
  BY RefreshAssumption DEF Batchers, Tasks
<1>3. /\ new \in Locals /\ new.todo = task[t].todo \ {f} /\ new.snapshot = task[t].snapshot
  BY <1>2 DEF Refreshing, TypeOK, Locals
<1>. HIDE DEF facts, new
<1>4. /\ pc[t] = "delta" /\ task' = [task EXCEPT ![t] = new]
      /\ UNCHANGED <<disk, events, search, warm, pc, edits, calls, panics>>
  BY DEF Delta, DeltaFails, new
<1>5. OneBuild' /\ (ScanDue => ScanDue')
  BY <1>4 DEF Refreshing, OneBuild, ScanDue
<1>6. CASE Delta(t, f)
  <2>1. published' = Append(published, facts) /\ stale' = stale \ {f} /\ UNCHANGED faults
    BY <1>6 DEF Delta, facts
  <2>2. /\ published' \in Seq(Contents)
        /\ Len(published') = Len(published) + 1
        /\ Resident' = Resident + 1 /\ Resident \in Nat
        /\ FactsOf(Resident)' = facts
    BY <1>1, <2>1, Published DEF Refreshing, TypeOK, Resident, FactsOf
  <2>3. TypeOK'
    BY <1>2, <1>3, <1>4, <2>1, <2>2 DEF Refreshing, TypeOK, Resident, Working, Index, Locals
  <2>4. Accounted'
    <3>. SUFFICES ASSUME NEW h \in Files \ stale'
                  PROVE  \/ facts[h] = disk[h]
                         \/ h \in events
                         \/ \E u \in Batchers : pc[u] = "delta" /\ h \in task'[u].todo
                         \/ ScanDue
      BY <1>4, <1>5, <2>2 DEF Accounted
    <3>1. CASE h = f
      BY <1>1, <3>1
    <3>2. CASE h # f
      BY <1>1, <1>2, <1>3, <1>4, <2>1, <3>2 DEF Refreshing, TypeOK, Accounted, Batchers, Tasks
    <3>. QED BY <3>1, <3>2
  <2>. QED BY <1>5, <2>3, <2>4 DEF Refreshing
<1>7. CASE DeltaFails(t, f)
  <2>1. published' = published /\ stale' = stale \cup {f} /\ faults' \in 0..MaxFaults
    BY <1>7, RefreshAssumption DEF DeltaFails, Refreshing, TypeOK
  <2>2. TypeOK'
    BY <1>2, <1>3, <1>4, <2>1 DEF Refreshing, TypeOK, Resident, Working
  <2>3. Accounted'
    BY <1>2, <1>3, <1>4, <1>5, <2>1 DEF Refreshing, TypeOK, Accounted, Resident, FactsOf, Batchers, Tasks
  <2>. QED BY <1>5, <2>2, <2>3 DEF Refreshing
<1>. QED BY <1>6, <1>7

\* What a batch does after its deltas: pin, read, write, invalidate.
LEMMA SearchStepRefreshing ==
  ASSUME Refreshing, NEW t \in Batchers,
         NEW label \in {"idle", "base", "paths", "none"}, NEW new \in Locals,
         pc[t] \in {"delta", "base", "paths", "none"},
         pc[t] = "delta" => task[t].todo = {},
         pc' = [pc EXCEPT ![t] = label], task' = [task EXCEPT ![t] = new],
         new.snapshot <= Resident, label = "idle" => new = NoTask,
         search' \in Index, search'.generation <= Resident,
         UNCHANGED <<disk, events, published, warm, stale, edits, calls, faults, panics>>
  PROVE  Refreshing'
<1>1. t \in Tasks /\ t \notin Builds
  BY RefreshAssumption DEF Batchers, Tasks
<1>2. TypeOK'
  BY <1>1 DEF Refreshing, TypeOK, Resident, Working
<1>3. OneBuild'
  BY <1>1 DEF Refreshing, TypeOK, OneBuild
<1>4. ScanDue => ScanDue'
  BY <1>1 DEF Refreshing, TypeOK, ScanDue
<1>5. Accounted'
  BY <1>1, <1>4 DEF Refreshing, TypeOK, Accounted, Resident, FactsOf, Batchers, Tasks
<1>. QED BY <1>2, <1>3, <1>5 DEF Refreshing

\* After its deltas a batch touches the index and its own locals only.
LEMMA BatchRefreshing ==
  ASSUME Refreshing, NEW t \in Batchers,
         Pin(t) \/ ReadBase(t) \/ WritePaths(t) \/ InvalidateBatch(t)
  PROVE  Refreshing'
<1>1. /\ t \in Tasks /\ task[t] \in Locals /\ task[t].snapshot <= Resident
      /\ Resident \in Nat /\ search \in Index /\ search.generation <= Resident
  BY DEF Refreshing, TypeOK, Batchers, Tasks, Resident
<1>2. NoTask \in Locals /\ NoTask.snapshot = 0 /\ NoIndex \in Index /\ NoIndex.generation = 0
  BY NothingTypes DEF NoTask, NoIndex
<1>3. CASE Pin(t)
  <2> DEFINE new == [task[t] EXCEPT !.snapshot = Resident]
             label == IF Resident = 0 THEN "none" ELSE "base"
  <2>1. new \in Locals /\ new.snapshot = Resident
    BY <1>1 DEF Locals
  <2>2. pc' = [pc EXCEPT ![t] = label] /\ task' = [task EXCEPT ![t] = new]
    BY <1>3 DEF Pin, Goto
  <2>3. label \in {"idle", "base", "paths", "none"} /\ label # "idle"
    OBVIOUS
  <2>4. /\ pc[t] = "delta" /\ task[t].todo = {} /\ search' = search
        /\ UNCHANGED <<disk, events, published, warm, stale, edits, calls, faults, panics>>
    BY <1>3 DEF Pin
  <2>5. new.snapshot <= Resident
    BY <1>1, <2>1
  <2>. HIDE DEF new, label
  <2>. QED BY <1>1, <2>1, <2>2, <2>3, <2>4, <2>5, SearchStepRefreshing
<1>4. CASE ReadBase(t)
  <2> DEFINE new == [task[t] EXCEPT !.base = search]
  <2>1. new \in Locals /\ new.snapshot = task[t].snapshot
    BY <1>1 DEF Locals
  <2>2. pc' = [pc EXCEPT ![t] = "paths"] /\ task' = [task EXCEPT ![t] = new]
    BY <1>4 DEF ReadBase, Goto
  <2>. HIDE DEF new
  <2>. QED BY <1>1, <1>4, <2>1, <2>2, SearchStepRefreshing DEF ReadBase
<1>5. CASE WritePaths(t)
  <2>1. task[t].base \in Index /\ task[t].snapshot \in 0..Len(published)
    BY <1>1 DEF Locals, Resident
  <2>2. search' \in Index /\ search'.generation = task[t].snapshot
    BY <1>5, <2>1, RefreshedPathsType DEF WritePaths, Refreshing, TypeOK
  <2>3. /\ pc[t] = "paths"
        /\ pc' = [pc EXCEPT ![t] = "idle"] /\ task' = [task EXCEPT ![t] = NoTask]
        /\ UNCHANGED <<disk, events, published, warm, stale, edits, calls, faults, panics>>
    BY <1>5 DEF WritePaths, Goto
  <2>4. NoTask.snapshot <= Resident
    BY <1>1, <1>2
  <2>. QED BY <1>1, <1>2, <2>2, <2>3, <2>4, SearchStepRefreshing
<1>6. CASE InvalidateBatch(t)
  <2>1. /\ pc[t] = "none" /\ search' = NoIndex
        /\ pc' = [pc EXCEPT ![t] = "idle"] /\ task' = [task EXCEPT ![t] = NoTask]
        /\ UNCHANGED <<disk, events, published, warm, stale, edits, calls, faults, panics>>
    BY <1>6 DEF InvalidateBatch, Goto
  <2>2. NoTask.snapshot <= Resident /\ search'.generation <= Resident
    BY <1>1, <1>2, <2>1
  <2>. QED BY <1>1, <1>2, <2>1, <2>2, SearchStepRefreshing
<1>. QED BY <1>3, <1>4, <1>5, <1>6

\* A build that starts, by a request or for a rebuild, starts with a scan.
LEMMA StartedRefreshing ==
  ASSUME Refreshing, NEW b \in Builds, ~ warm.running, pc[b] = "idle",
         warm' = [running |-> TRUE, pending |-> FALSE],
         \/ pc' = [pc EXCEPT ![b] = "ingest"]
         \/ pc' = [pc EXCEPT ![Executor] = "idle", ![b] = "ingest"]
            /\ pc[Executor] = "start" /\ task[Executor] = NoTask,
         calls' \in 0..MaxCalls,
         UNCHANGED <<disk, events, published, search, task, stale, edits, faults, panics>>
  PROVE  Refreshing'
<1>1. b \in Tasks /\ Executor \in Tasks /\ Executor \notin Builds /\ pc \in [Tasks -> {"idle",
        "delta", "base", "paths", "none", "invalidate", "start", "ingest", "pin", "write", "finish"}]
  BY RefreshAssumption DEF Batchers, Tasks, Refreshing, TypeOK
<1>2. /\ pc' \in [Tasks -> {"idle", "delta", "base", "paths", "none", "invalidate", "start",
                           "ingest", "pin", "write", "finish"}]
      /\ pc'[b] = "ingest"
      /\ \A t \in Tasks : t # b => pc'[t] = pc[t] \/ (t = Executor /\ pc'[t] = "idle"
                                                      /\ task[Executor] = NoTask)
  BY <1>1
<1>3. TypeOK'
  BY <1>1, <1>2 DEF Refreshing, TypeOK, Resident, Working
<1>4. OneBuild'
  BY <1>1, <1>2 DEF Refreshing, OneBuild, Tasks
<1>5. ScanDue'
  BY <1>2 DEF ScanDue
<1>. QED BY <1>3, <1>4, <1>5 DEF Refreshing, Accounted

\* A requested build starts when none is running.
LEMMA WarmRequestRefreshing ==
  ASSUME Refreshing, WarmRequest
  PROVE  Refreshing'
<1>1. /\ calls' \in 0..MaxCalls
      /\ UNCHANGED <<disk, events, published, search, task, stale, edits, faults, panics>>
  BY RefreshAssumption DEF WarmRequest, Refreshing, TypeOK
<1>2. CASE TryStart /\ \E b \in Builds : pc[b] = "idle" /\ Goto(b, "ingest")
  BY <1>1, <1>2, StartedRefreshing DEF TryStart, Goto
<1>3. CASE UNCHANGED <<warm, pc>>
  BY <1>1, <1>3 DEF Refreshing, TypeOK, OneBuild, Accounted, ScanDue, Resident, FactsOf, Working
<1>. QED BY <1>2, <1>3 DEF WarmRequest, StartWarm

\* A scan settles every file; a failed one is reported for every file.
LEMMA ScanRefreshing ==
  ASSUME Refreshing, NEW b \in Builds, Scan(b) \/ ScanFails(b)
  PROVE  Refreshing'
<1>1. b \in Tasks /\ pc[b] = "ingest" /\ pc' = [pc EXCEPT ![b] = "pin"]
  BY DEF Scan, ScanFails, Goto, Tasks
<1>2. OneBuild'
  BY <1>1 DEF Refreshing, TypeOK, OneBuild, Scan, ScanFails, Tasks
<1>3. CASE Scan(b)
  <2>1. /\ published' = Append(published, disk) /\ stale' = {}
        /\ UNCHANGED <<disk, events, search, warm, task, edits, calls, faults, panics>>
    BY <1>3 DEF Scan
  <2>2. /\ published' \in Seq(Contents)
        /\ Resident' = Resident + 1 /\ Resident \in Nat
        /\ FactsOf(Resident)' = disk
    BY <2>1, Published DEF Refreshing, TypeOK, Resident, FactsOf
  <2>3. TypeOK'
    BY <1>1, <2>1, <2>2 DEF Refreshing, TypeOK, Resident, Working, Index, Locals
  <2>4. Accounted'
    BY <2>1, <2>2 DEF Accounted
  <2>. QED BY <1>2, <2>3, <2>4 DEF Refreshing
<1>4. CASE ScanFails(b)
  <2>1. /\ stale' = Files /\ faults' \in 0..MaxFaults
        /\ UNCHANGED <<disk, events, published, search, warm, task, edits, calls, panics>>
    BY <1>4, RefreshAssumption DEF ScanFails, Refreshing, TypeOK
  <2>2. TypeOK'
    BY <1>1, <2>1 DEF Refreshing, TypeOK, Resident, Working
  <2>3. Accounted'
    BY <2>1 DEF Accounted
  <2>. QED BY <1>2, <2>2, <2>3 DEF Refreshing
<1>. QED BY <1>3, <1>4

\* A build goes on between its scans.
LEMMA BuildStepRefreshing ==
  ASSUME Refreshing, NEW b \in Builds, NEW label \in {"none", "write", "finish"},
         NEW new \in Locals,
         pc[b] \in {"pin", "write", "none"},
         pc' = [pc EXCEPT ![b] = label], task' = [task EXCEPT ![b] = new],
         new.snapshot <= Resident,
         search' \in Index, search'.generation <= Resident,
         UNCHANGED <<disk, events, published, warm, stale, edits, calls, faults, panics>>
  PROVE  Refreshing'
<1>1. b \in Tasks /\ b \notin Batchers /\ Executor # b
  BY RefreshAssumption DEF Batchers, Tasks
<1>2. TypeOK'
  BY <1>1 DEF Refreshing, TypeOK, Resident, Working
<1>3. OneBuild'
  BY <1>1 DEF Refreshing, TypeOK, OneBuild
<1>4. ScanDue => ScanDue'
  BY <1>1 DEF Refreshing, TypeOK, ScanDue
<1>5. Accounted'
  BY <1>1, <1>4 DEF Refreshing, TypeOK, Accounted, Resident, FactsOf, Batchers, Tasks
<1>. QED BY <1>2, <1>3, <1>5 DEF Refreshing

\* A build, its failures and its panic.
LEMMA WarmRefreshing ==
  ASSUME Refreshing, NEW b \in Builds, PinWarm(b) \/ WriteIndex(b)
  PROVE  Refreshing'
<1>1. /\ b \in Tasks /\ task[b] \in Locals /\ task[b].snapshot <= Resident
      /\ Resident \in Nat /\ search \in Index /\ search.generation <= Resident
  BY DEF Refreshing, TypeOK, Tasks, Resident
<1>2. CASE PinWarm(b)
  <2> DEFINE new == [task[b] EXCEPT !.snapshot = Resident]
             label == IF Resident = 0 THEN "none" ELSE "write"
  <2>1. new \in Locals /\ new.snapshot = Resident /\ new.snapshot <= Resident
    BY <1>1 DEF Locals
  <2>2. /\ pc' = [pc EXCEPT ![b] = label] /\ task' = [task EXCEPT ![b] = new]
        /\ pc[b] = "pin" /\ search' = search
        /\ UNCHANGED <<disk, events, published, warm, stale, edits, calls, faults, panics>>
    BY <1>2 DEF PinWarm, Goto
  <2>3. label \in {"none", "write", "finish"}
    OBVIOUS
  <2>. HIDE DEF new, label
  <2>. QED BY <1>1, <2>1, <2>2, <2>3, BuildStepRefreshing
<1>3. CASE WriteIndex(b)
  <2>1. task[b].snapshot \in 0..Len(published)
    BY <1>1 DEF Locals, Resident
  <2>2. search' \in Index /\ search'.generation <= Resident
    BY <1>1, <1>3, <2>1, RefreshedType, NothingTypes DEF WriteIndex, Refreshing, TypeOK, NoIndex
  <2>3. /\ pc' = [pc EXCEPT ![b] = "finish"] /\ pc[b] \in {"pin", "write", "none"}
        /\ UNCHANGED <<disk, events, published, warm, task, stale, edits, calls, faults, panics>>
    BY <1>3 DEF WriteIndex, Goto
  <2>4. task' = [task EXCEPT ![b] = task[b]]
    BY <2>3 DEF Refreshing, TypeOK
  <2>. QED BY <1>1, <2>2, <2>3, <2>4, BuildStepRefreshing
<1>. QED BY <1>2, <1>3

\* A build that ends starts over when a rebuild was requested; one that panics
\* then leaves every file stale.
LEMMA EndRefreshing ==
  ASSUME Refreshing, NEW b \in Builds, Finish(b) \/ Panic(b)
  PROVE  Refreshing'
<1>1. b \in Tasks /\ b \notin Batchers /\ Executor # b /\ Executor \in Tasks
  BY RefreshAssumption DEF Batchers, Tasks
<1>2. NoTask \in Locals /\ NoTask.snapshot = 0
  BY NothingTypes DEF NoTask
<1>3. CASE Finish(b)
  <2>1. /\ pc[b] = "finish"
        /\ pc' = [pc EXCEPT ![b] = IF warm.pending THEN "ingest" ELSE "idle"]
        /\ warm' = [running |-> warm.pending, pending |-> FALSE]
        /\ task' = [task EXCEPT ![b] = NoTask]
        /\ UNCHANGED <<disk, events, published, search, stale, edits, calls, faults, panics>>
    BY <1>3 DEF Finish, Goto
  <2>2. TypeOK'
    BY <1>1, <1>2, <2>1 DEF Refreshing, TypeOK, Resident, Working
  <2>3. OneBuild'
    BY <1>1, <2>1 DEF Refreshing, TypeOK, OneBuild, Tasks
  <2>4. ScanDue => ScanDue'
    BY <1>1, <2>1 DEF Refreshing, TypeOK, OneBuild, ScanDue, Tasks
  <2>5. Accounted'
    BY <1>1, <2>1, <2>4 DEF Refreshing, TypeOK, Accounted, Resident, FactsOf, Batchers, Tasks
  <2>. QED BY <2>2, <2>3, <2>5 DEF Refreshing
<1>4. CASE Panic(b)
  <2>1. /\ pc[b] # "idle"
        /\ pc' = [pc EXCEPT ![b] = "idle"]
        /\ warm' = [warm EXCEPT !.running = FALSE]
        /\ warm' \in [running : BOOLEAN, pending : BOOLEAN]
        /\ ~ warm'.running /\ warm'.pending = warm.pending
        /\ task' = [task EXCEPT ![b] = NoTask]
        /\ stale' = IF pc[b] = "ingest" \/ warm.pending THEN Files ELSE stale
        /\ panics' \in 0..MaxPanics
        /\ UNCHANGED <<disk, events, published, search, edits, calls, faults>>
    <3>1. warm \in [running : BOOLEAN, pending : BOOLEAN] /\ panics \in 0..MaxPanics
      BY DEF Refreshing, TypeOK
    <3>2. warm' = [warm EXCEPT !.running = FALSE] /\ pc[b] # "idle"
      BY <1>4 DEF Panic, Working
    <3>3. panics' \in 0..MaxPanics
      BY <1>4, <3>1, RefreshAssumption DEF Panic
    <3>. QED BY <1>4, <3>1, <3>2, <3>3 DEF Panic, Goto
  <2>2. TypeOK'
    BY <1>1, <1>2, <2>1 DEF Refreshing, TypeOK, Resident, Working
  <2>3. OneBuild'
    BY <1>1, <2>1 DEF Refreshing, TypeOK, OneBuild, Tasks
  <2>4. CASE pc[b] = "ingest" \/ warm.pending
    BY <2>1, <2>2, <2>3, <2>4 DEF Refreshing, Accounted
  <2>5. CASE ~ (pc[b] = "ingest" \/ warm.pending)
    <3>1. ~ ScanDue
      BY <2>1, <2>5 DEF Refreshing, OneBuild, ScanDue
    <3>2. Accounted'
      BY <1>1, <2>1, <2>5, <3>1 DEF Refreshing, TypeOK, Accounted, Resident, FactsOf, Batchers, Tasks
    <3>. QED BY <2>2, <2>3, <3>2 DEF Refreshing
  <2>. QED BY <2>4, <2>5
<1>. QED BY <1>3, <1>4

\* The watcher's events are dropped while a scan is due.
LEMMA RequestRefreshing ==
  ASSUME Refreshing, RequestRebuild
  PROVE  Refreshing'
<1>1. Executor \in Tasks /\ Executor \notin Builds
  BY RefreshAssumption DEF Batchers, Tasks
<1>2. /\ pc[Executor] = "idle" /\ pc' = [pc EXCEPT ![Executor] = "invalidate"]
      /\ warm' \in [running : BOOLEAN, pending : BOOLEAN]
      /\ warm'.running = warm.running /\ warm'.pending
      /\ events' = {} /\ calls' \in 0..MaxCalls
      /\ UNCHANGED <<disk, published, search, task, stale, edits, faults, panics>>
  <2>1. warm \in [running : BOOLEAN, pending : BOOLEAN] /\ calls \in 0..MaxCalls
    BY DEF Refreshing, TypeOK
  <2>2. warm' = [warm EXCEPT !.pending = TRUE]
    BY DEF RequestRebuild
  <2>3. calls' \in 0..MaxCalls
    BY <2>1, RefreshAssumption DEF RequestRebuild
  <2>. QED BY <2>1, <2>2, <2>3 DEF RequestRebuild, Goto
<1>3. TypeOK'
  BY <1>1, <1>2 DEF Refreshing, TypeOK, Resident, Working
<1>4. OneBuild'
  BY <1>1, <1>2 DEF Refreshing, TypeOK, OneBuild
<1>5. ScanDue'
  BY <1>1, <1>2 DEF Refreshing, TypeOK, ScanDue
<1>. QED BY <1>3, <1>4, <1>5 DEF Refreshing, Accounted

\* A full rebuild leaves the discarded changes to a scan that is yet to come.
LEMMA RebuildRefreshing ==
  ASSUME Refreshing, RebuildStep
  PROVE  Refreshing'
<1>1. Executor \in Tasks /\ Executor \notin Builds
  BY RefreshAssumption DEF Batchers, Tasks
<1>2. CASE InvalidateSearch
  <2>1. /\ pc[Executor] = "invalidate" /\ pc' = [pc EXCEPT ![Executor] = "start"]
        /\ search' = NoIndex
        /\ UNCHANGED <<disk, events, published, warm, task, stale, edits, calls, faults, panics>>
    BY <1>2 DEF InvalidateSearch, Goto
  <2>2. TypeOK'
    BY <1>1, <2>1, NothingTypes DEF Refreshing, TypeOK, Resident, Working, NoIndex
  <2>3. OneBuild'
    BY <1>1, <2>1 DEF Refreshing, TypeOK, OneBuild
  <2>4. ScanDue => ScanDue'
    BY <1>1, <2>1 DEF Refreshing, TypeOK, ScanDue
  <2>5. Accounted'
    BY <1>1, <2>1, <2>4 DEF Refreshing, TypeOK, Accounted, Resident, FactsOf, Batchers, Tasks
  <2>. QED BY <2>2, <2>3, <2>5 DEF Refreshing
<1>3. CASE StartRebuild
  <2>1. /\ pc[Executor] = "start"
        /\ UNCHANGED <<disk, events, published, search, task, stale, edits, calls, faults, panics>>
    BY <1>3 DEF StartRebuild
  <2>2. CASE warm.running
    <3>1. warm' = warm /\ pc' = [pc EXCEPT ![Executor] = "idle"]
      BY <1>3, <2>2 DEF StartRebuild, Goto
    <3>2. TypeOK'
      BY <1>1, <2>1, <3>1 DEF Refreshing, TypeOK, Resident, Working
    <3>3. OneBuild'
      BY <1>1, <3>1 DEF Refreshing, TypeOK, OneBuild
    <3>4. ScanDue => ScanDue'
      BY <1>1, <2>1, <2>2, <3>1 DEF Refreshing, TypeOK, OneBuild, ScanDue
    <3>5. Accounted'
      BY <1>1, <2>1, <3>1, <3>4 DEF Refreshing, TypeOK, Accounted, Resident, FactsOf, Batchers, Tasks
    <3>. QED BY <3>2, <3>3, <3>5 DEF Refreshing
  <2>3. CASE ~ warm.running
    <3>1. PICK b \in Builds : pc[b] = "idle" /\ pc' = [pc EXCEPT ![Executor] = "idle", ![b] = "ingest"]
      BY <1>3, <2>3 DEF StartRebuild
    <3>2. warm' = [running |-> TRUE, pending |-> FALSE]
      BY <1>3, <2>3 DEF StartRebuild, TryStart
    <3>3. task[Executor] = NoTask /\ calls' \in 0..MaxCalls
      BY <1>1, <2>1 DEF Refreshing, TypeOK
    <3>. QED BY <2>1, <2>3, <3>1, <3>2, <3>3, StartedRefreshing
  <2>. QED BY <2>2, <2>3
<1>. QED BY <1>2, <1>3 DEF RebuildStep

\* Refreshing is inductive: one step per action of the specification.
LEMMA NextRefreshing == Refreshing /\ [Next]_vars => Refreshing'
<1>. SUFFICES ASSUME Refreshing, [Next]_vars PROVE Refreshing'
  OBVIOUS
<1>1. ASSUME NEW f \in Files, NEW r \in Revs \cup {Absent}, Edit(f, r) PROVE Refreshing'
  BY <1>1, EditRefreshing
<1>2. ASSUME NEW S \in SUBSET Files, Flush(S) PROVE Refreshing'
  BY <1>2, FlushRefreshing
<1>3. ASSUME NEW t \in Notifiers, NEW f \in Files, Notify(t, f) PROVE Refreshing'
  BY <1>3, NotifyRefreshing
<1>4. ASSUME NEW t \in Batchers, BatchStep(t) PROVE Refreshing'
  BY <1>4, DeltaRefreshing, BatchRefreshing DEF BatchStep
<1>5. ASSUME NEW t \in Batchers, NEW f \in Files, DeltaFails(t, f) PROVE Refreshing'
  BY <1>5, DeltaRefreshing
<1>6. CASE WarmRequest
  BY <1>6, WarmRequestRefreshing
<1>7. CASE RequestRebuild
  BY <1>7, RequestRefreshing
<1>8. CASE RebuildStep
  BY <1>8, RebuildRefreshing
<1>9. ASSUME NEW b \in Builds, WarmStep(b) PROVE Refreshing'
  BY <1>9, ScanRefreshing, WarmRefreshing, EndRefreshing DEF WarmStep
<1>10. ASSUME NEW b \in Builds, ScanFails(b) \/ Panic(b) PROVE Refreshing'
  BY <1>10, ScanRefreshing, EndRefreshing
<1>11. CASE Finished \/ UNCHANGED vars
  BY <1>11 DEF Finished, vars, Refreshing, TypeOK, OneBuild, Accounted, ScanDue, Resident, FactsOf,
     Working
<1>. QED
  BY <1>1, <1>2, <1>3, <1>4, <1>5, <1>6, <1>7, <1>8, <1>9, <1>10, <1>11 DEF Next

\* Refreshing holds in every reachable state.
LEMMA AlwaysRefreshing == Spec => []Refreshing
BY InitRefreshing, NextRefreshing, PTL DEF Spec

-----------------------------------------------------------------------------
(***************************************************************************)
(* A pending rebuild has somebody who will see to it.                      *)
(***************************************************************************)
LEMMA NextKept == Refreshing /\ RequestKept /\ [Next]_vars => RequestKept'
<1>. SUFFICES ASSUME Refreshing, RequestKept, [Next]_vars PROVE RequestKept'
  OBVIOUS
<1>0. /\ Executor \in Tasks /\ Executor \notin Notifiers \cup Builds
      /\ pc \in [Tasks -> {"idle", "delta", "base", "paths", "none", "invalidate", "start",
                           "ingest", "pin", "write", "finish"}]
      /\ warm \in [running : BOOLEAN, pending : BOOLEAN]
      /\ panics \in Nat
  BY RefreshAssumption DEF Refreshing, TypeOK, Tasks, Batchers
<1>1. CASE UNCHANGED <<warm, panics>> /\ (pc[Executor] \in {"invalidate", "start"} =>
                                          pc'[Executor] \in {"invalidate", "start"})
  BY <1>1 DEF RequestKept
<1>2. ASSUME NEW f \in Files, NEW r \in Revs \cup {Absent}, Edit(f, r) PROVE RequestKept'
  BY <1>1, <1>2 DEF Edit
<1>3. ASSUME NEW t \in Tasks, UNCHANGED <<warm, panics>>, pc[t] \notin {"invalidate", "start"},
             NEW label, pc' = [pc EXCEPT ![t] = label]
      PROVE  RequestKept'
  BY <1>0, <1>1, <1>3
<1>4. ASSUME NEW t \in Batchers, NEW S \in SUBSET Files, StartBatch(t, S), UNCHANGED <<warm, panics>>
      PROVE  RequestKept'
  BY <1>3, <1>4 DEF StartBatch, Goto, Tasks
<1>5. ASSUME NEW S \in SUBSET Files, Flush(S) PROVE RequestKept'
  BY <1>4, <1>5 DEF Flush, Batchers
<1>6. ASSUME NEW t \in Notifiers, NEW f \in Files, Notify(t, f) PROVE RequestKept'
  BY <1>4, <1>6 DEF Notify, Batchers
<1>7. ASSUME NEW t \in Batchers, NEW f \in Files, Delta(t, f) \/ DeltaFails(t, f)
      PROVE  RequestKept'
  BY <1>1, <1>7 DEF Delta, DeltaFails
<1>8. ASSUME NEW t \in Batchers, Pin(t) \/ ReadBase(t) \/ WritePaths(t) \/ InvalidateBatch(t)
      PROVE  RequestKept'
  <2>1. pc[t] \in {"delta", "base", "paths", "none"} /\ UNCHANGED <<warm, panics>>
    BY <1>8 DEF Pin, ReadBase, WritePaths, InvalidateBatch
  <2>2. \E label : pc' = [pc EXCEPT ![t] = label]
    BY <1>8 DEF Pin, ReadBase, WritePaths, InvalidateBatch, Goto
  <2>. QED BY <1>3, <2>1, <2>2 DEF Tasks
<1>9. CASE WarmRequest
  <2>1. CASE UNCHANGED <<warm, pc>>
    BY <1>1, <1>9, <2>1 DEF WarmRequest
  <2>2. CASE TryStart
    BY <2>2 DEF TryStart, RequestKept
  <2>. QED BY <1>9, <2>1, <2>2 DEF WarmRequest, StartWarm
<1>10. CASE RequestRebuild
  BY <1>0, <1>10 DEF RequestRebuild, Goto, RequestKept
<1>11. CASE InvalidateSearch
  BY <1>0, <1>1, <1>11 DEF InvalidateSearch, Goto
<1>12. CASE StartRebuild
  BY <1>12 DEF StartRebuild, TryStart, RequestKept
<1>13. ASSUME NEW b \in Builds, Scan(b) \/ ScanFails(b) \/ PinWarm(b) \/ WriteIndex(b)
       PROVE  RequestKept'
  <2>1. pc[b] \in {"ingest", "pin", "write", "none"} /\ UNCHANGED <<warm, panics>>
    BY <1>13 DEF Scan, ScanFails, PinWarm, WriteIndex
  <2>2. \E label : pc' = [pc EXCEPT ![b] = label]
    BY <1>13 DEF Scan, ScanFails, PinWarm, WriteIndex, Goto
  <2>. QED BY <1>3, <2>1, <2>2 DEF Tasks
<1>14. ASSUME NEW b \in Builds, Finish(b) PROVE RequestKept'
  BY <1>14 DEF Finish, RequestKept
<1>15. ASSUME NEW b \in Builds, Panic(b) PROVE RequestKept'
  BY <1>0, <1>15 DEF Panic, RequestKept
<1>16. CASE Finished \/ UNCHANGED vars
  BY <1>1, <1>16 DEF Finished, vars
<1>. QED
  BY <1>2, <1>5, <1>6, <1>7, <1>8, <1>9, <1>10, <1>11, <1>12, <1>13, <1>14, <1>15, <1>16
     DEF Next, BatchStep, RebuildStep, WarmStep

-----------------------------------------------------------------------------
(***************************************************************************)
(* Type correctness of the resident state and of every task's locals.      *)
(***************************************************************************)
THEOREM TypeCorrect == Spec => []TypeOK
<1>1. Refreshing => TypeOK
  BY DEF Refreshing
<1>. QED BY <1>1, AlwaysRefreshing, PTL

(***************************************************************************)
(* WarmBuildState keeps the warm build to one at a time, and a build that  *)
(* ends or panics (ClearWarmStateOnDrop) lets the next one start.          *)
(***************************************************************************)
THEOREM OneWarmBuild == Spec => []WarmSingleFlight
<1>1. Refreshing => WarmSingleFlight
  <2>. SUFFICES ASSUME Refreshing PROVE WarmSingleFlight
    OBVIOUS
  <2> DEFINE building == Builds \cap Working
  <2>1. building = {b \in Builds : pc[b] # "idle"}
    BY DEF Working, Tasks
  <2>2. Cardinality(building) <= 1
    <3>1. CASE building = {}
      BY <3>1, FS_EmptySet
    <3>2. CASE building # {}
      <4>1. PICK b \in building : TRUE
        BY <3>2
      <4>2. building = {b}
        BY <2>1, <4>1 DEF Refreshing, OneBuild
      <4>. HIDE DEF building
      <4>3. Cardinality(building) = 1
        BY <4>2, FS_Singleton
      <4>. QED BY <4>3
    <3>. QED BY <3>1, <3>2
  <2>3. warm.running <=> building # {}
    BY <2>1 DEF Refreshing, OneBuild
  <2>. QED BY <2>2, <2>3 DEF WarmSingleFlight
<1>. QED BY <1>1, AlwaysRefreshing, PTL

(***************************************************************************)
(* No change is lost: when the watcher has no event left and no task is at *)
(* work, the resident generation is the project on the disk, but for files *)
(* whose ingestion failed or panicked.                                     *)
(***************************************************************************)
THEOREM NoChangeLost == Spec => []HotConverges
<1>1. Refreshing => HotConverges
  <2>. SUFFICES ASSUME Refreshing, Quiet, Resident # 0, NEW f \in Files \ stale
                PROVE  published[Resident][f] = disk[f]
    BY DEF HotConverges
  <2>1. \A t \in Tasks : pc[t] = "idle"
    BY DEF Quiet, Working
  <2>2. ~ ScanDue
    BY <2>1 DEF ScanDue, Tasks, Batchers
  <2>. QED BY <2>1, <2>2 DEF Refreshing, Accounted, Quiet, FactsOf, Tasks
<1>. QED BY <1>1, AlwaysRefreshing, PTL

(***************************************************************************)
(* A full rebuild that was requested (request_full_rebuild) is with the    *)
(* executor, which will start a build, or with the running build, whose    *)
(* finish_iteration will start over, as long as no build panicked:         *)
(* finish_iteration, try_start and request_full_rebuild leave no gap       *)
(* between them, whatever overlaps and fails.                              *)
(***************************************************************************)
THEOREM RequestIsKept == Spec => []RequestKept
<1>1. Init => RequestKept
  BY DEF Init, RequestKept
<1>. QED BY <1>1, NextKept, AlwaysRefreshing, PTL DEF Spec
=============================================================================
