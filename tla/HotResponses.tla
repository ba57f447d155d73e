---------------------------- MODULE HotResponses ----------------------------
(***************************************************************************)
(* The hot responses of the daemon over its watcher (tldr-cli daemon.rs,   *)
(* hot_cache.rs and watcher.rs).                                           *)
(*                                                                         *)
(* A query answers from the cache, or computes its answer from the disk    *)
(* and inserts it: it may evict an entry, it links the key to its inputs,  *)
(* one after another, and it puts the entry, with no lock from one to the  *)
(* next.  A delta takes the keys that depend on each changed file, and     *)
(* then on the project, and drops their entries.  A full rebuild drops     *)
(* none.                                                                   *)
(*                                                                         *)
(* The watcher is WatchPipeline; a save is reported when it is made.  An   *)
(* answer stands for the saves it is too old for: it is the set of the     *)
(* sources that were saved after it had been computed.                     *)
(***************************************************************************)
EXTENDS WatchPipeline, HotCache

CONSTANTS Project,     \* the input every project-level answer registers
          Keys,        \* HotQueryKey
          Reads,       \* by key, the files, or FullRebuild for the ignore policy, it is computed from
          Inputs,      \* by key, the inputs it registers
          Queries,     \* the queries in flight
          MaxEntries,  \* max_entries
          MaxQueries   \* bound: queries that miss

ASSUME ResponsesAssumption ==
  /\ IsFiniteSet(Keys)
  /\ Project \notin Signals
  /\ Reads \in [Keys -> SUBSET Signals]
  /\ Inputs \in [Keys -> (SUBSET (Files \cup {Project})) \ {{}}]
  /\ MaxEntries \in Nat \ {0}
  /\ MaxQueries \in Nat

\* A handler registers the project, or the one file its answer is computed from.
ASSUME InputsAssumption ==
  \A k \in Keys : Project \in Inputs[k] \/ Reads[k] \cap Files \subseteq Inputs[k]

VARIABLES cache,     \* HotResponseCache
          query,     \* per query: program counter and locals
          todo,      \* inputs the delta has yet to invalidate
          taken,     \* keys invalidate_by_input has taken and not yet dropped
          unlinking, \* the key whose entry it dropped last, with the inputs it is to be unlinked from
          asked,
          missed,    \* sources that changed and that only a full rebuild covered
          late       \* keys whose entry is older than an invalidation it came after

responseVars == <<cache, query, todo, taken, unlinking, asked, missed, late>>
vars == <<pipelineVars, responseVars>>

Idle == [pc |-> "idle"]
AllInputs == Files \cup {Project}

ResponsesInit ==
  /\ Init
  /\ cache = EmptyCache(AllInputs)
  /\ query = [q \in Queries |-> Idle]
  /\ todo = {} /\ taken = {} /\ unlinking = {}
  /\ asked = 0 /\ missed = {} /\ late = {}

-----------------------------------------------------------------------------
(* A save, and the watcher's own steps                                     *)

At(q, pc) == query[q].pc = pc
HasAnswer(q) == query[q].pc \notin {"idle", "compute"}

Save(s) ==
  /\ Report(s)
  /\ cache' = [cache EXCEPT !.entries =
       [k \in DOMAIN @ |-> @[k] \cup ({s} \cap Reads[k])]]
  /\ query' = [q \in Queries |->
       IF HasAnswer(q)
       THEN [query[q] EXCEPT !.value = @ \cup ({s} \cap Reads[query[q].key])]
       ELSE query[q]]
  /\ UNCHANGED <<todo, taken, unlinking, asked, missed, late>>

SaveFile == \E f \in Files : Save(f)
SavePolicy == Save(FullRebuild)

Watch == (MarkOverflow \/ Collect) /\ UNCHANGED responseVars

\* Mutation: a delta that invalidates its files only.
InvalidatedByFiles(flush) == flush \cap Files

\* What process_dirty_files invalidates; schedule_full_rebuild invalidates nothing.
InvalidatedBy(flush) ==
  IF FullRebuild \in flush THEN {} ELSE flush \cup {Project}

Dispatch ==
  /\ Execute
  /\ todo' = InvalidatedBy(Head(batches))
  /\ missed' = IF FullRebuild \in Head(batches)
               THEN missed \cup owed
               ELSE missed \ Head(batches)
  /\ UNCHANGED <<cache, query, taken, unlinking, asked, late>>

-----------------------------------------------------------------------------
(* invalidate_by_input, on the executor                                    *)

\* A query that has computed its answer will put it after this invalidation.
Passed(i) ==
  [q \in Queries |->
     IF HasAnswer(q) /\ i \in Inputs[query[q].key]
     THEN [query[q] EXCEPT !.passed = TRUE] ELSE query[q]]

TakeInput(i) ==
  /\ i \in todo /\ taken = {} /\ unlinking = {}
  /\ i = Project => todo = {Project}
  /\ taken' = cache.dependents[i]
  /\ cache' = TakeDependents(cache, i)
  /\ todo' = todo \ {i}
  /\ query' = Passed(i)
  /\ UNCHANGED <<unlinking, asked, missed, late, pipelineVars>>

DropTaken(k) ==
  /\ k \in taken /\ unlinking = {}
  /\ taken' = taken \ {k}
  /\ cache' = RemoveEntry(cache, k)
  /\ unlinking' = IF k \in Cached(cache) THEN {k} \X Inputs[k] ELSE {}
  /\ UNCHANGED <<query, todo, asked, missed, late, pipelineVars>>

UnlinkTaken ==
  \E link \in unlinking :
    /\ cache' = UnlinkKey(cache, link[1], link[2])
    /\ unlinking' = unlinking \ {link}
    /\ UNCHANGED <<query, todo, taken, asked, missed, late, pipelineVars>>

Invalidate ==
  (\E i \in AllInputs : TakeInput(i)) \/ (\E k \in Keys : DropTaken(k)) \/ UnlinkTaken

Finish ==
  /\ todo = {} /\ taken = {} /\ unlinking = {}
  /\ Executed
  /\ UNCHANGED responseVars

-----------------------------------------------------------------------------
(* A query that misses; one that hits changes nothing                      *)

QueryFrame == <<todo, taken, unlinking, missed, pipelineVars>>

Miss(q, k) ==
  /\ At(q, "idle") /\ asked < MaxQueries
  /\ k \notin Cached(cache)
  /\ query' = [query EXCEPT ![q] = [pc |-> "compute", key |-> k]]
  /\ asked' = asked + 1
  /\ UNCHANGED <<cache, late, QueryFrame>>

Compute(q) ==
  /\ At(q, "compute")
  /\ query' = [query EXCEPT ![q] =
       [pc |-> "room", key |-> @.key, value |-> {}, passed |-> FALSE, victim |-> @.key,
        rest |-> {}]]
  /\ UNCHANGED <<cache, asked, late, QueryFrame>>

\* The inputs of an entry are gone through one by one.
GoThrough(q, pc, inputs) == query' = [query EXCEPT ![q].pc = pc, ![q].rest = inputs]
ToLink(q) == GoThrough(q, "link", Inputs[query[q].key])

\* entries.len() and the key to evict, if the cache is full
MakeRoom(q) ==
  /\ At(q, "room")
  /\ \/ /\ Cardinality(Cached(cache)) < MaxEntries
        /\ ToLink(q)
     \/ /\ Cardinality(Cached(cache)) >= MaxEntries
        /\ \E k \in Cached(cache) :
             query' = [query EXCEPT ![q].pc = "drop", ![q].victim = k]
  /\ UNCHANGED <<cache, asked, late, QueryFrame>>

DropVictim(q) ==
  /\ At(q, "drop")
  /\ cache' = RemoveEntry(cache, query[q].victim)
  /\ IF query[q].victim \in Cached(cache)
     THEN GoThrough(q, "unlink", Inputs[query[q].victim])
     ELSE ToLink(q)
  /\ UNCHANGED <<asked, late, QueryFrame>>

UnlinkVictim(q) ==
  /\ At(q, "unlink")
  /\ \E i \in query[q].rest :
       /\ cache' = UnlinkKey(cache, query[q].victim, i)
       /\ IF query[q].rest = {i} THEN ToLink(q) ELSE GoThrough(q, "unlink", query[q].rest \ {i})
  /\ UNCHANGED <<asked, late, QueryFrame>>

Link(q) ==
  /\ At(q, "link")
  /\ \E i \in query[q].rest :
       /\ cache' = LinkKey(cache, query[q].key, i)
       /\ GoThrough(q, IF query[q].rest = {i} THEN "put" ELSE "link", query[q].rest \ {i})
  /\ UNCHANGED <<asked, late, QueryFrame>>

Put(q) ==
  /\ At(q, "put")
  /\ cache' = PutEntry(cache, query[q].key, query[q].value)
  /\ late' = IF query[q].passed THEN late \cup {query[q].key} ELSE late \ {query[q].key}
  /\ query' = [query EXCEPT ![q] = Idle]
  /\ UNCHANGED <<asked, QueryFrame>>

Insert(q) ==
  MakeRoom(q) \/ DropVictim(q) \/ UnlinkVictim(q) \/ Link(q) \/ Put(q)

Query == \E q \in Queries : (\E k \in Keys : Miss(q, k)) \/ Compute(q) \/ Insert(q)

-----------------------------------------------------------------------------
Finished ==
  /\ events = MaxEvents /\ asked = MaxQueries
  /\ collector = "wait" /\ executing = {}
  /\ UNCHANGED vars

Next ==
  SaveFile \/ SavePolicy \/ Watch \/ Dispatch \/ Invalidate \/ Finish \/ Query \/ Finished

Spec ==
  /\ ResponsesInit /\ [][Next]_vars
  /\ WF_vars(MarkOverflow /\ UNCHANGED responseVars)
  /\ WF_vars(Collect /\ UNCHANGED responseVars)
  /\ WF_vars(Dispatch \/ Invalidate \/ Finish)

-----------------------------------------------------------------------------
TypeOK ==
  /\ PipelineTypeOK
  /\ Cached(cache) \subseteq Keys
  /\ \A k \in Cached(cache) : cache.entries[k] \subseteq Reads[k]
  /\ cache.dependents \in [AllInputs -> SUBSET Keys]
  /\ \A q \in Queries :
       /\ ~At(q, "idle") => query[q].key \in Keys
       /\ HasAnswer(q) => /\ query[q].victim \in Keys /\ query[q].rest \subseteq AllInputs
                          /\ query[q].value \subseteq Reads[query[q].key]
  /\ todo \subseteq AllInputs
  /\ taken \subseteq Keys
  /\ unlinking = {} \/ \E k \in Keys : unlinking \subseteq {k} \X Inputs[k]
  /\ asked \in 0 .. MaxQueries
  /\ missed \subseteq Signals /\ late \subseteq Keys

\* Everything that was saved has been handled, and no query is under way.
Quiet ==
  /\ owed = {} /\ executing = {}
  /\ \A q \in Queries : At(q, "idle")

Linked(k) == \A i \in Inputs[k] : k \in cache.dependents[i]
Outdated(k) == cache.entries[k]

(* A response whose key is linked, and that was not put after an           *)
(* invalidation it had missed, is out of date only about what changed with *)
(* a full rebuild: a save that reaches the cache as a delta is never       *)
(* answered from before it, however queries, evictions and invalidations   *)
(* overlap (hot_cache.rs:90-135, daemon.rs:2509-2519).                     *)
ResponsesFresh ==
  Quiet => \A k \in Cached(cache) \ late : Linked(k) => Outdated(k) \subseteq missed

(* "any save invalidates them so the next query lazily recomposes": the    *)
(* same of every save, the ones a full rebuild covers included             *)
(* (daemon.rs:2514-2517).                                                  *)
AnySaveInvalidates ==
  Quiet => \A k \in Cached(cache) \ late : Linked(k) => Outdated(k) = {}

(* A response that is cached can still be reached by an invalidation: when *)
(* its link is lost no later save drops it either (hot_cache.rs:100-127).  *)
StaysLinked == Quiet => \A k \in Cached(cache) : Linked(k)

(* The cache is bounded: queries that insert at once go over max_entries   *)
(* by less than their number, and not again each time                      *)
(* (hot_cache.rs:94-98).                                                   *)
StaysBounded == Cardinality(Cached(cache)) < MaxEntries + Cardinality(Queries)
=============================================================================
