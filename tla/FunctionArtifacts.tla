-------------------------- MODULE FunctionArtifacts --------------------------
(***************************************************************************)
(* Demand-driven CFG/DFG/PDG records: FunctionArtifactCoordinator          *)
(* (artifact_store/function_artifacts.rs) as the daemon's ArtifactManager  *)
(* calls it (artifact_manager.rs cfg, dfg).                                *)
(*                                                                         *)
(* Request threads pin a file's facts from the resident snapshot and       *)
(* materialize the function record of that revision.  A key is built under *)
(* a per-key mutex, its flight, found through a map: the Arc's strong      *)
(* count says whether the last user may take the flight out of the map.    *)
(* Meanwhile files are saved and newer generations are published.          *)
(*                                                                         *)
(* One function a file: the key of its record is the file and a revision.  *)
(***************************************************************************)
EXTENDS ArtifactStore

CONSTANTS Threads,        \* blocking tasks that answer requests
          MaxGeneration,  \* bound: generations published
          MaxEdits,       \* bound: saves
          NoKey, NoFlight, NoValue

ASSUME ThreadsAssumption ==
  /\ IsFiniteSet(Threads)
  /\ MaxGeneration \in Nat \ {0} /\ MaxEdits \in Nat

VARIABLES disk,     \* the files' contents
          built,    \* payloads: function key -> the contents it was built from
          flights,  \* the coordinator's map: key -> flight
          pc, key, flight, value, gen,   \* per thread: program counter and locals
          edits

threadVars == <<pc, key, flight, value, gen>>
vars == <<active, previous, generations, artifacts, graphs, links, jobs,
          disk, built, flights, pc, key, flight, value, gen, edits>>

Function(f, r) == [kind |-> "function", file |-> f, rev |-> r]

Holders(k, n) == {t \in Threads : key[t] = k /\ flight[t] = n}

\* A new Arc: a number that no thread and no map entry for the key uses.
FreshFlight(k) ==
  CHOOSE n \in 0..Cardinality(Threads) :
    Holders(k, n) = {} /\ (k \in DOMAIN flights => flights[k] # n)

\* Arc::strong_count: the threads that hold a clone, and the map.
StrongCount(k, n) ==
  Cardinality(Holders(k, n)) + (IF k \in DOMAIN flights /\ flights[k] = n THEN 1 ELSE 0)

InFlight == {"recheck", "build", "generation", "commit"}

Remove(table, k) == [x \in DOMAIN table \ {k} |-> table[x]]

Goto(t, label) == pc' = [pc EXCEPT ![t] = label]

-----------------------------------------------------------------------------
\* The project was warmed before the first request.
Init ==
  /\ disk \in [Files -> Revs]
  /\ active = 1
  /\ previous = 0
  /\ artifacts = {Facts(f, disk[f]) : f \in Files}
  /\ generations = <<[EmptyManifest EXCEPT !.keys = artifacts, !.facts = disk]>>
  /\ graphs = << >>
  /\ links = {1} \X artifacts
  /\ jobs = << >>
  /\ built = << >>
  /\ flights = << >>
  /\ pc = [t \in Threads |-> "idle"]
  /\ key = [t \in Threads |-> NoKey]
  /\ flight = [t \in Threads |-> NoFlight]
  /\ value = [t \in Threads |-> NoValue]
  /\ gen = [t \in Threads |-> 0]
  /\ edits = 0

\* file_facts, function_keys_for_facts: pin the file's facts, derive the key.
Pin(t, f) ==
  /\ pc[t] = "idle"
  /\ key' = [key EXCEPT ![t] = Function(f, generations[active].facts[f])]
  /\ Goto(t, "lookup")
  /\ UNCHANGED <<storeVars, disk, built, flights, flight, value, gen, edits>>

\* The record exists: its payload is the answer, without a flight.
Hit(t) ==
  /\ pc[t] = "lookup"
  /\ key[t] \in artifacts
  /\ key' = [key EXCEPT ![t] = NoKey]
  /\ Goto(t, "idle")
  /\ UNCHANGED <<storeVars, disk, built, flights, flight, value, gen, edits>>

\* Under the map's lock: take the key's flight, or start one, and clone it.
Join(t) ==
  LET k == key[t]
      n == IF k \in DOMAIN flights THEN flights[k] ELSE FreshFlight(k)
  IN  /\ pc[t] = "join"
      /\ flights' = Insert(flights, k, n)
      /\ flight' = [flight EXCEPT ![t] = n]
      /\ Goto(t, "wait")
      /\ UNCHANGED <<storeVars, disk, built, key, value, gen, edits>>

Miss(t) ==
  /\ pc[t] = "lookup"
  /\ key[t] \notin artifacts
  /\ Goto(t, "join")
  /\ UNCHANGED <<storeVars, disk, built, flights, key, flight, value, gen, edits>>

\* Lock the flight.
Enter(t) ==
  /\ pc[t] = "wait"
  /\ \A u \in Holders(key[t], flight[t]) : pc[u] \notin InFlight
  /\ Goto(t, "recheck")
  /\ UNCHANGED <<storeVars, disk, built, flights, key, flight, value, gen, edits>>

\* Mutation: no second look under the flight's lock.
RecheckSkipped(t) ==
  /\ pc[t] = "recheck"
  /\ Goto(t, "build")
  /\ UNCHANGED <<storeVars, disk, built, flights, key, flight, value, gen, edits>>

\* Another thread may have built the record while this one waited.
Recheck(t) ==
  /\ pc[t] = "recheck"
  /\ Goto(t, IF key[t] \in artifacts THEN "cleanup" ELSE "build")
  /\ UNCHANGED <<storeVars, disk, built, flights, key, flight, value, gen, edits>>

\* build(): analyse the source file as it is on the disk now.
Build(t) ==
  /\ pc[t] = "build"
  /\ value' = [value EXCEPT ![t] = disk[key[t].file]]
  /\ Goto(t, "generation")
  /\ UNCHANGED <<storeVars, disk, built, flights, key, flight, gen, edits>>

\* The analysis fails: the file cannot be read, or the function is not in it any more.
BuildFails(t) ==
  /\ pc[t] = "build"
  /\ Goto(t, "cleanup")
  /\ UNCHANGED <<storeVars, disk, built, flights, key, flight, value, gen, edits>>

\* Read the generation to attach the record to.
ReadGeneration(t) ==
  /\ pc[t] = "generation"
  /\ gen' = [gen EXCEPT ![t] = active]
  /\ Goto(t, "commit")
  /\ UNCHANGED <<storeVars, disk, built, flights, key, flight, value, edits>>

\* Mutation: a refused commit returns with the flight still locked.
CommitReturnsEarly(t) ==
  LET k == key[t]
  IN  /\ pc[t] = "commit"
      /\ OptionalAccepted(gen[t], {Facts(k.file, k.rev)})
      /\ CommitOptional(gen[t], k)
      /\ built' = Insert(built, k, value[t])
      /\ Goto(t, "cleanup")
      /\ UNCHANGED <<disk, flights, key, flight, value, gen, edits>>

\* commit_optional, refused when a newer generation was published in between.
Commit(t) ==
  LET k == key[t]
  IN  /\ pc[t] = "commit"
      /\ IF OptionalAccepted(gen[t], {Facts(k.file, k.rev)})
         THEN CommitOptional(gen[t], k) /\ built' = Insert(built, k, value[t])
         ELSE UNCHANGED <<storeVars, built>>
      /\ Goto(t, "cleanup")
      /\ UNCHANGED <<disk, flights, key, flight, value, gen, edits>>

\* Mutation: the flight is removed without a look at the strong count.
CleanupUncounted(t) ==
  LET k == key[t]
      current == k \in DOMAIN flights /\ flights[k] = flight[t]
  IN  /\ pc[t] = "cleanup"
      /\ flights' = IF current THEN Remove(flights, k) ELSE flights
      /\ Goto(t, "drop")
      /\ UNCHANGED <<storeVars, disk, built, key, flight, value, gen, edits>>

\* The flight is unlocked; under the map's lock, its last user removes it.
Cleanup(t) ==
  LET k == key[t]
      last == k \in DOMAIN flights /\ flights[k] = flight[t] /\ StrongCount(k, flight[t]) = 2
  IN  /\ pc[t] = "cleanup"
      /\ flights' = IF last THEN Remove(flights, k) ELSE flights
      /\ Goto(t, "drop")
      /\ UNCHANGED <<storeVars, disk, built, key, flight, value, gen, edits>>

\* The thread's clone is dropped after the map was unlocked.
Drop(t) ==
  /\ pc[t] = "drop"
  /\ flight' = [flight EXCEPT ![t] = NoFlight]
  /\ key' = [key EXCEPT ![t] = NoKey]
  /\ value' = [value EXCEPT ![t] = NoValue]
  /\ gen' = [gen EXCEPT ![t] = 0]
  /\ Goto(t, "idle")
  /\ UNCHANGED <<storeVars, disk, built, flights, edits>>

-----------------------------------------------------------------------------
\* An editor saves a file.
Save(f, r) ==
  /\ edits < MaxEdits
  /\ disk[f] # r
  /\ disk' = [disk EXCEPT ![f] = r]
  /\ edits' = edits + 1
  /\ UNCHANGED <<storeVars, built, flights, threadVars>>

\* The watcher's delta of a file: ArtifactIngestion, as its one visible step.
PublishDelta(f) ==
  LET prev == generations[active]
      kept == IF prev.facts[f] = disk[f] THEN prev.keys ELSE {k \in prev.keys : k.file # f}
  IN  /\ active < MaxGeneration
      /\ artifacts' = artifacts \cup {Facts(f, disk[f])}
      /\ Publish(active + 1, [prev EXCEPT !.keys = kept \cup {Facts(f, disk[f])},
                                          !.facts = [@ EXCEPT ![f] = disk[f]]])
      /\ UNCHANGED <<graphs, jobs, disk, built, flights, threadVars, edits>>

Step(t) == \/ Hit(t) \/ Miss(t) \/ Join(t) \/ Enter(t) \/ Recheck(t) \/ Build(t)
           \/ BuildFails(t) \/ ReadGeneration(t) \/ Commit(t) \/ Cleanup(t) \/ Drop(t)

Next ==
  \/ \E t \in Threads : Step(t) \/ \E f \in Files : Pin(t, f)
  \/ \E f \in Files, r \in Revs : Save(f, r)
  \/ \E f \in Files : PublishDelta(f)

Spec == Init /\ [][Next]_vars

\* A started request runs on: blocking threads are scheduled and mutexes are fair
\* enough to let a waiter in.
FairSpec == Spec /\ \A t \in Threads : WF_vars(Step(t)) /\ SF_vars(Enter(t))

-----------------------------------------------------------------------------
PCs == {"idle", "lookup", "join", "wait", "cleanup", "drop"} \cup InFlight

\* Every variable has its type.
TypeOK ==
  /\ active \in 1..MaxGeneration
  /\ disk \in [Files -> Revs]
  /\ artifacts \subseteq Key
  /\ DOMAIN built \subseteq Key
  /\ DOMAIN flights \subseteq Key
  /\ \A k \in DOMAIN flights : flights[k] \in Nat
  /\ pc \in [Threads -> PCs]
  /\ key \in [Threads -> Key \cup {NoKey}]
  /\ flight \in [Threads -> Nat \cup {NoFlight}]
  /\ value \in [Threads -> Revs \cup {NoValue}]
  /\ gen \in [Threads -> 0..MaxGeneration]
  /\ edits \in 0..MaxEdits

(***************************************************************************)
(* One builder a key: "Per-key single-flight coordinator".  Two threads    *)
(* never analyse the same revision of a function at the same time, though  *)
(* the flights they lock are created, cloned and removed by other threads  *)
(* in between.                                                             *)
(***************************************************************************)
SingleFlight ==
  \A t, u \in Threads :
    t # u /\ key[t] = key[u] => ~ (pc[t] \in InFlight /\ pc[u] \in InFlight)

(***************************************************************************)
(* A record that was committed is never built again, by no thread that     *)
(* looked before it was there.                                             *)
(***************************************************************************)
BuiltOnce == \A t \in Threads : pc[t] \in {"build", "generation", "commit"}
                                  => key[t] \notin artifacts

(***************************************************************************)
(* The record of a revision was computed from that revision: the key is    *)
(* the "Exact source revision" (types.rs) of "one pinned FileFacts         *)
(* revision" (artifact_manager.rs).                                        *)
(***************************************************************************)
BuiltFromItsRevision == \A k \in DOMAIN built : built[k] = k.rev

(***************************************************************************)
(* Every request gets an answer: no thread waits for ever for a flight     *)
(* whose owner is gone.                                                    *)
(***************************************************************************)
EveryRequestReturns == \A t \in Threads : pc[t] # "idle" ~> pc[t] = "idle"
=============================================================================
