----------------------- MODULE FunctionArtifacts_proofs -----------------------
(***************************************************************************)
(* The single flight of FunctionArtifacts and its types, for any number of *)
(* threads, files and revisions.                                           *)
(*                                                                         *)
(* Two threads of one key exclude each other only if they lock the same    *)
(* flight.  What makes them do so is that a flight stays in the map while  *)
(* a thread waits for it or owns it (Mapped): the last user test of the    *)
(* cleanup, a strong count of two, is true of a thread that is the only    *)
(* holder, so it takes no flight away from a waiting thread.               *)
(***************************************************************************)
EXTENDS FunctionArtifacts, FiniteSetTheorems, TLAPS

Shape ==
  /\ pc \in [Threads -> PCs]
  /\ DOMAIN key = Threads
  /\ DOMAIN flight = Threads
  /\ \A t \in Threads : pc[t] # "idle" => key[t].kind = "function"

\* A flight that is waited for, or owned, is in the map.
Mapped ==
  \A t \in Threads :
    pc[t] \in {"wait"} \cup InFlight => key[t] \in DOMAIN flights /\ flights[key[t]] = flight[t]

Coordinated == Shape /\ Mapped /\ SingleFlight /\ BuiltOnce

\* A strong count of two, one for the map: the thread is the only holder.
LEMMA LastHolder ==
  ASSUME NEW t \in Threads, NEW k, NEW n, key[t] = k, flight[t] = n,
         k \in DOMAIN flights, flights[k] = n, StrongCount(k, n) = 2
  PROVE  Holders(k, n) = {t}
<1>1. IsFiniteSet(Holders(k, n))
  BY FS_Subset, ThreadsAssumption DEF Holders
<1>2. Cardinality(Holders(k, n)) = 1
  BY <1>1, FS_CardinalityType DEF StrongCount
<1>3. PICK u : Holders(k, n) = {u}
  BY <1>1, <1>2, FS_Singleton
<1>. QED BY <1>3 DEF Holders

\* No flight is in use before the first request.
LEMMA InitCoordinated == Init => Coordinated
BY DEF Init, Coordinated, Shape, Mapped, SingleFlight, BuiltOnce, PCs, InFlight

\* A request pins a function key.
LEMMA PinCoordinated ==
  ASSUME Coordinated, NEW t \in Threads, NEW f \in Files, Pin(t, f)
  PROVE  Coordinated'
<1>1. Function(f, generations[active].facts[f]).kind = "function"
  BY DEF Function
<1>. QED
  BY <1>1 DEF Pin, Goto, storeVars, Coordinated, Shape, Mapped, SingleFlight, BuiltOnce,
     PCs, InFlight

\* Steps of one thread that leave the map, the flights and the records alone.
LEMMA LocalCoordinated ==
  ASSUME Coordinated, NEW t \in Threads,
         Hit(t) \/ Miss(t) \/ Build(t) \/ BuildFails(t) \/ ReadGeneration(t)
  PROVE  Coordinated'
<1>. USE DEF Goto, storeVars, Coordinated, Shape, Mapped, SingleFlight, BuiltOnce, PCs, InFlight
<1>1. CASE Hit(t)
  BY <1>1 DEF Hit
<1>2. CASE Miss(t)
  BY <1>2 DEF Miss
<1>3. CASE Build(t)
  BY <1>3 DEF Build
<1>4. CASE BuildFails(t)
  BY <1>4 DEF BuildFails
<1>5. CASE ReadGeneration(t)
  BY <1>5 DEF ReadGeneration
<1>. QED BY <1>1, <1>2, <1>3, <1>4, <1>5

\* Joining takes the flight of the map, or puts one there when nobody is at work.
LEMMA JoinCoordinated ==
  ASSUME Coordinated, NEW t \in Threads, Join(t)
  PROVE  Coordinated'
<1> DEFINE k == key[t]
           n == IF k \in DOMAIN flights THEN flights[k] ELSE FreshFlight(k)
<1>. HIDE DEF n
<1>1. /\ pc[t] = "join"
      /\ flights' = Insert(flights, k, n)
      /\ flight' = [flight EXCEPT ![t] = n]
      /\ pc' = [pc EXCEPT ![t] = "wait"]
      /\ UNCHANGED <<storeVars, disk, built, key, value, gen, edits>>
  BY DEF Join, Goto, n
<1>2. /\ DOMAIN flights' = DOMAIN flights \cup {k}
      /\ flights'[k] = n
      /\ \A x \in DOMAIN flights : flights'[x] = flights[x]
  BY <1>1 DEF Insert, n
<1>3. Shape'
  BY <1>1 DEF Coordinated, Shape, PCs
<1>4. Mapped'
  BY <1>1, <1>2 DEF Coordinated, Shape, Mapped, InFlight
<1>5. SingleFlight' /\ BuiltOnce'
  BY <1>1 DEF Coordinated, Shape, SingleFlight, BuiltOnce, InFlight, storeVars
<1>. QED BY <1>3, <1>4, <1>5 DEF Coordinated

\* Only one thread enters the flight that the map has for the key.
LEMMA EnterCoordinated ==
  ASSUME Coordinated, NEW t \in Threads, Enter(t)
  PROVE  Coordinated'
<1>. USE DEF Enter, Goto, storeVars
<1>1. Shape' /\ Mapped' /\ BuiltOnce'
  BY DEF Coordinated, Shape, Mapped, BuiltOnce, PCs, InFlight
<1>2. \A u \in Threads : key[u] = key[t] => pc[u] \notin InFlight
  <2>. SUFFICES ASSUME NEW u \in Threads, key[u] = key[t], pc[u] \in InFlight PROVE FALSE
    OBVIOUS
  <2>1. flight[u] = flights[key[t]] /\ flight[t] = flights[key[t]]
    BY DEF Coordinated, Mapped
  <2>2. u \in Holders(key[t], flight[t])
    BY <2>1 DEF Holders
  <2>. QED BY <2>2
<1>3. SingleFlight'
  BY <1>2 DEF Coordinated, Shape, SingleFlight
<1>. QED BY <1>1, <1>3 DEF Coordinated

\* The second look at the store decides between building and cleaning up.
LEMMA RecheckCoordinated ==
  ASSUME Coordinated, NEW t \in Threads, Recheck(t)
  PROVE  Coordinated'
BY DEF Recheck, Goto, storeVars, Coordinated, Shape, Mapped, SingleFlight, BuiltOnce, PCs, InFlight

\* A committed record is of the key that its thread alone is building.
LEMMA CommitCoordinated ==
  ASSUME Coordinated, NEW t \in Threads, Commit(t)
  PROVE  Coordinated'
<1>1. /\ pc[t] = "commit"
      /\ pc' = [pc EXCEPT ![t] = "cleanup"]
      /\ artifacts' \subseteq artifacts \cup {key[t]}
      /\ UNCHANGED <<flights, key, flight>>
  BY DEF Commit, Goto, CommitOptional, storeVars
<1>2. Shape' /\ Mapped' /\ SingleFlight'
  BY <1>1 DEF Coordinated, Shape, Mapped, SingleFlight, PCs, InFlight
<1>3. BuiltOnce'
  BY <1>1 DEF Coordinated, Shape, SingleFlight, BuiltOnce, InFlight
<1>. QED BY <1>2, <1>3 DEF Coordinated

\* The cleanup takes a flight out of the map only if its thread is the last holder.
LEMMA CleanupCoordinated ==
  ASSUME Coordinated, NEW t \in Threads, Cleanup(t)
  PROVE  Coordinated'
<1> DEFINE k    == key[t]
           last == k \in DOMAIN flights /\ flights[k] = flight[t] /\ StrongCount(k, flight[t]) = 2
<1>1. /\ pc[t] = "cleanup"
      /\ pc' = [pc EXCEPT ![t] = "drop"]
      /\ flights' = IF last THEN Remove(flights, k) ELSE flights
      /\ UNCHANGED <<artifacts, key, flight>>
  BY DEF Cleanup, Goto, storeVars
<1>2. Shape' /\ SingleFlight' /\ BuiltOnce'
  BY <1>1 DEF Coordinated, Shape, SingleFlight, BuiltOnce, PCs, InFlight
<1>3. Mapped'
  <2>1. CASE last
    <3>1. Holders(k, flight[t]) = {t}
      BY <2>1, LastHolder
    <3>2. \A u \in Threads : pc[u] \in {"wait"} \cup InFlight => key[u] # k
      <4>. SUFFICES ASSUME NEW u \in Threads, pc[u] \in {"wait"} \cup InFlight, key[u] = k
                    PROVE  FALSE
        OBVIOUS
      <4>1. flight[u] = flight[t]
        BY <2>1 DEF Coordinated, Mapped
      <4>2. u = t
        BY <3>1, <4>1 DEF Holders
      <4>. QED BY <1>1, <4>2 DEF InFlight
    <3>3. flights' = Remove(flights, k)
      BY <1>1, <2>1
    <3>. QED BY <1>1, <3>2, <3>3 DEF Coordinated, Shape, Mapped, Remove, InFlight
  <2>2. CASE ~ last
    <3>1. flights' = flights
      BY <1>1, <2>2
    <3>. QED BY <1>1, <3>1 DEF Coordinated, Shape, Mapped, InFlight
  <2>. QED BY <2>1, <2>2
<1>. QED BY <1>2, <1>3 DEF Coordinated

\* A dropped clone takes no flight away from others.
LEMMA DropCoordinated ==
  ASSUME Coordinated, NEW t \in Threads, Drop(t)
  PROVE  Coordinated'
BY DEF Drop, Goto, storeVars, Coordinated, Shape, Mapped, SingleFlight, BuiltOnce, PCs, InFlight

\* Saves and deltas touch no function record.
LEMMA EnvironmentCoordinated ==
  ASSUME Coordinated, NEW f \in Files, PublishDelta(f) \/ (\E r \in Revs : Save(f, r))
  PROVE  Coordinated'
<1>1. /\ UNCHANGED <<flights, threadVars>>
      /\ \A k \in artifacts' : k \in artifacts \/ k.kind = "facts"
  BY DEF PublishDelta, Save, storeVars, Facts
<1>2. Shape' /\ Mapped' /\ SingleFlight'
  BY <1>1 DEF Coordinated, Shape, Mapped, SingleFlight, threadVars
<1>3. BuiltOnce'
  BY <1>1 DEF Coordinated, Shape, BuiltOnce, threadVars
<1>. QED BY <1>2, <1>3 DEF Coordinated

\* Coordinated is inductive: one step per action of the specification.
LEMMA NextCoordinated == Coordinated /\ [Next]_vars => Coordinated'
<1>. SUFFICES ASSUME Coordinated, [Next]_vars PROVE Coordinated'
  OBVIOUS
<1>1. ASSUME NEW t \in Threads, Step(t) PROVE Coordinated'
  BY <1>1, LocalCoordinated, JoinCoordinated, EnterCoordinated, RecheckCoordinated,
     CommitCoordinated, CleanupCoordinated, DropCoordinated DEF Step
<1>2. ASSUME NEW t \in Threads, NEW f \in Files, Pin(t, f) PROVE Coordinated'
  BY <1>2, PinCoordinated
<1>3. ASSUME NEW f \in Files, PublishDelta(f) \/ (\E r \in Revs : Save(f, r)) PROVE Coordinated'
  BY <1>3, EnvironmentCoordinated
<1>4. CASE UNCHANGED vars
  BY <1>4 DEF vars, Coordinated, Shape, Mapped, SingleFlight, BuiltOnce
<1>. QED BY <1>1, <1>2, <1>3, <1>4 DEF Next

\* Coordinated holds in every reachable state.
LEMMA AlwaysCoordinated == Spec => []Coordinated
BY InitCoordinated, NextCoordinated, PTL DEF Spec

-----------------------------------------------------------------------------
(***************************************************************************)
(* At most one thread analyses a function of one revision at a time:       *)
(* FunctionArtifactCoordinator is a "per-key single-flight coordinator".   *)
(***************************************************************************)
THEOREM OneFlightAKey == Spec => []SingleFlight
<1>1. Coordinated => SingleFlight
  BY DEF Coordinated
<1>. QED BY <1>1, AlwaysCoordinated, PTL

(***************************************************************************)
(* No thread builds a record that another one has already committed: the   *)
(* second look under the flight's lock sees it.                            *)
(***************************************************************************)
THEOREM NothingBuiltTwice == Spec => []BuiltOnce
<1>1. Coordinated => BuiltOnce
  BY DEF Coordinated
<1>. QED BY <1>1, AlwaysCoordinated, PTL
-----------------------------------------------------------------------------
(***************************************************************************)
(* Types.  A thread that is at work has a key of the resident facts, and a *)
(* new flight is a number that is in use for nobody.                       *)
(***************************************************************************)
Manifest == [source_revision : {<<>>}, keys : SUBSET Key, facts : [Files -> Revs]]

Typed ==
  /\ TypeOK
  /\ active \in DOMAIN generations /\ generations[active] \in Manifest
  /\ \A t \in Threads : pc[t] # "idle" => key[t] \in Key

LEMMA KeyTypes ==
  ASSUME NEW f \in Files, NEW r \in Revs
  PROVE  Facts(f, r) \in Key /\ Function(f, r) \in Key
BY DEF Facts, Function, Key

\* There are more numbers than threads: a new Arc is none that a thread still holds.
LEMMA FreshFlightIsFresh ==
  ASSUME NEW k, k \notin DOMAIN flights
  PROVE  FreshFlight(k) \in Nat /\ Holders(k, FreshFlight(k)) = {}
<1>. DEFINE N == Cardinality(Threads)
            used == {flight[t] : t \in Threads}
<1>1. N \in Nat
  BY ThreadsAssumption, FS_CardinalityType
<1>2. IsFiniteSet(used) /\ Cardinality(used) <= N
  <2>1. [t \in Threads |-> flight[t]] \in Surjection(Threads, used)
    BY DEF Surjection
  <2>. QED BY <2>1, ThreadsAssumption, FS_Surjection
<1>3. IsFiniteSet(0..N) /\ Cardinality(0..N) = N + 1
  BY <1>1, FS_Interval
<1>4. ~ (0..N \subseteq used)
  <2>1. 0..N \subseteq used => Cardinality(0..N) <= Cardinality(used)
    BY <1>2, FS_Subset
  <2>2. Cardinality(used) \in Nat
    BY <1>2, FS_CardinalityType
  <2>. HIDE DEF N, used
  <2>. QED BY <1>1, <1>2, <1>3, <2>1, <2>2
<1>5. PICK n \in 0..N : n \notin used
  BY <1>4
<1>6. Holders(k, n) = {}
  BY <1>5 DEF Holders
<1>7. FreshFlight(k) \in 0..N /\ Holders(k, FreshFlight(k)) = {}
  BY <1>6 DEF FreshFlight
<1>. QED BY <1>1, <1>7

LEMMA InitTyped == Init => Typed
<1>. SUFFICES ASSUME Init PROVE Typed
  OBVIOUS
<1>1. artifacts \subseteq Key
  BY KeyTypes DEF Init
<1>2. /\ DOMAIN generations = {1}
      /\ generations[1] = [EmptyManifest EXCEPT !.keys = artifacts, !.facts = disk]
  <2>. DEFINE m == [EmptyManifest EXCEPT !.keys = artifacts, !.facts = disk]
  <2>. HIDE DEF m
  <2>1. generations = <<m>>
    BY DEF Init, m
  <2>. QED BY <2>1 DEF m
<1>3. active \in DOMAIN generations /\ generations[active] \in Manifest
  <2>1. generations[1] = [source_revision |-> <<>>, keys |-> artifacts, facts |-> disk]
    BY <1>2 DEF EmptyManifest
  <2>2. active = 1 /\ disk \in [Files -> Revs]
    BY DEF Init
  <2>. QED BY <1>1, <1>2, <2>1, <2>2 DEF Manifest
<1>4. TypeOK
  BY <1>1, ThreadsAssumption DEF Init, TypeOK, PCs
<1>. QED
  BY <1>3, <1>4 DEF Init, Typed

\* A step of one thread that leaves the store's tables alone.
LEMMA ThreadTyped ==
  ASSUME Typed, NEW t \in Threads,
         (\E f \in Files : Pin(t, f)) \/ Hit(t) \/ Miss(t) \/ Enter(t) \/ Recheck(t) \/ Build(t)
         \/ BuildFails(t) \/ ReadGeneration(t) \/ Cleanup(t) \/ Drop(t)
  PROVE  Typed'
<1>. USE DEF Typed, TypeOK, storeVars, Goto, PCs, InFlight
<1>1. ASSUME NEW f \in Files, Pin(t, f) PROVE Typed'
  <2>1. Function(f, generations[active].facts[f]) \in Key
    BY KeyTypes DEF Manifest
  <2>. QED BY <1>1, <2>1 DEF Pin
<1>2. CASE Hit(t)
  BY <1>2 DEF Hit
<1>3. CASE Miss(t) \/ Enter(t) \/ Recheck(t) \/ BuildFails(t)
  BY <1>3 DEF Miss, Enter, Recheck, BuildFails
<1>4. CASE Build(t)
  <2>1. disk[key[t].file] \in Revs
    BY <1>4 DEF Build, Key
  <2>. QED BY <1>4, <2>1 DEF Build
<1>5. CASE ReadGeneration(t)
  BY <1>5, ThreadsAssumption DEF ReadGeneration
<1>6. CASE Cleanup(t)
  BY <1>6 DEF Cleanup, Remove
<1>7. CASE Drop(t)
  BY <1>7, ThreadsAssumption DEF Drop
<1>. QED BY <1>1, <1>2, <1>3, <1>4, <1>5, <1>6, <1>7

LEMMA JoinTyped ==
  ASSUME Typed, NEW t \in Threads, Join(t)
  PROVE  Typed'
<1>. DEFINE k == key[t]
            n == IF k \in DOMAIN flights THEN flights[k] ELSE FreshFlight(k)
<1>1. n \in Nat
  BY FreshFlightIsFresh DEF Typed, TypeOK
<1>2. k \in Key
  BY DEF Join, Typed
<1>. HIDE DEF n
<1>3. /\ pc[t] = "join" /\ pc' = [pc EXCEPT ![t] = "wait"]
      /\ flights' = Insert(flights, k, n)
      /\ flight' = [flight EXCEPT ![t] = n]
      /\ UNCHANGED <<storeVars, disk, built, key, value, gen, edits>>
  BY DEF Join, Goto, n
<1>4. DOMAIN flights' \subseteq Key /\ \A x \in DOMAIN flights' : flights'[x] \in Nat
  BY <1>1, <1>2, <1>3 DEF Insert, Typed, TypeOK
<1>. QED BY <1>1, <1>2, <1>3, <1>4 DEF Typed, TypeOK, storeVars, PCs, InFlight

\* A record joins the manifest of the generation that is still active.
LEMMA CommitTyped ==
  ASSUME Typed, NEW t \in Threads, Commit(t)
  PROVE  Typed'
<1>. DEFINE k == key[t]
            accepted == OptionalAccepted(gen[t], {Facts(k.file, k.rev)})
<1>1. k \in Key /\ pc' = [pc EXCEPT ![t] = "cleanup"]
  BY DEF Commit, Goto, Typed
<1>2. CASE accepted
  <2>1. gen[t] = active
    BY <1>2 DEF OptionalAccepted
  <2>2. artifacts' \subseteq Key /\ DOMAIN built' \subseteq Key
    BY <1>1, <1>2 DEF Commit, CommitOptional, Insert, Typed, TypeOK
  <2>3. generations' = [generations EXCEPT ![active].keys = @ \cup {k}] /\ active' = active
    BY <1>2, <2>1 DEF Commit, CommitOptional
  <2>4. active' \in DOMAIN generations' /\ generations'[active'] \in Manifest
    BY <1>1, <2>3 DEF Manifest, Typed
  <2>. QED BY <1>1, <1>2, <2>2, <2>4 DEF Commit, CommitOptional, Typed, TypeOK, PCs, InFlight
<1>3. CASE ~ accepted
  BY <1>1, <1>3 DEF Commit, storeVars, Typed, TypeOK, PCs, InFlight
<1>. QED BY <1>2, <1>3

\* Saves, and deltas published by the watcher.
LEMMA EnvironmentTyped ==
  ASSUME Typed, NEW f \in Files, PublishDelta(f) \/ (\E r \in Revs : Save(f, r))
  PROVE  Typed'
<1>1. CASE \E r \in Revs : Save(f, r)
  BY <1>1, ThreadsAssumption DEF Save, storeVars, threadVars, Typed, TypeOK
<1>2. CASE PublishDelta(f)
  <2>. DEFINE prev == generations[active]
              kept == IF prev.facts[f] = disk[f] THEN prev.keys ELSE {k \in prev.keys : k.file # f}
              next == [prev EXCEPT !.keys = kept \cup {Facts(f, disk[f])},
                                   !.facts = [@ EXCEPT ![f] = disk[f]]]
  <2>1. disk[f] \in Revs /\ Facts(f, disk[f]) \in Key
    BY KeyTypes DEF Typed, TypeOK
  <2>2. kept \subseteq Key
    BY DEF Typed, Manifest
  <2>3. next \in Manifest
    <3>. HIDE DEF kept
    <3>. QED BY <2>1, <2>2 DEF Typed, Manifest
  <2>. HIDE DEF next
  <2>4. /\ active < MaxGeneration /\ active' = active + 1
        /\ generations' = Insert(generations, active + 1, next)
        /\ artifacts' = artifacts \cup {Facts(f, disk[f])}
        /\ UNCHANGED <<disk, built, flights, threadVars, edits>>
    BY <1>2 DEF PublishDelta, Publish, next
  <2>5. active' \in DOMAIN generations' /\ generations'[active'] = next
    BY <2>4 DEF Insert
  <2>6. active' \in 1..MaxGeneration
    BY <2>4, ThreadsAssumption DEF Typed, TypeOK
  <2>. QED BY <2>1, <2>3, <2>4, <2>5, <2>6 DEF threadVars, Typed, TypeOK
<1>. QED BY <1>1, <1>2

\* Typed is inductive.
LEMMA NextTyped == Typed /\ [Next]_vars => Typed'
<1>. SUFFICES ASSUME Typed, [Next]_vars PROVE Typed'
  OBVIOUS
<1>1. ASSUME NEW t \in Threads, Step(t) \/ (\E f \in Files : Pin(t, f)) PROVE Typed'
  BY <1>1, ThreadTyped, JoinTyped, CommitTyped DEF Step
<1>2. ASSUME NEW f \in Files, PublishDelta(f) \/ (\E r \in Revs : Save(f, r)) PROVE Typed'
  BY <1>2, EnvironmentTyped
<1>3. CASE UNCHANGED vars
  BY <1>3 DEF vars, Typed, TypeOK
<1>. QED BY <1>1, <1>2, <1>3 DEF Next

(***************************************************************************)
(* Type correctness of the store, of the flights map and of each thread's  *)
(* locals, for any number of threads: a coordinator never runs out of new  *)
(* flights, and every thread at work has the key of a function.            *)
(***************************************************************************)
THEOREM TypeCorrect == Spec => []TypeOK
<1>1. Typed => TypeOK
  BY DEF Typed
<1>. QED BY <1>1, InitTyped, NextTyped, PTL DEF Spec
=============================================================================
