------------------------ MODULE HotResponses_proofs ------------------------
(***************************************************************************)
(* What holds of the watcher's pipeline and of the daemon's hot responses, *)
(* for any files, keys, queries and bounds.                                *)
(*                                                                         *)
(* The pipeline loses no change as long as the callback's store of the     *)
(* overflow flag is not overtaken by the end of a window.  NoChangeLost is *)
(* inductive with the types.  A change moves from place to place: channel, *)
(* window, flush in hand, queue.  The one that found the channel full has  *)
(* no place, and what stands for it changes hands too: while the callback  *)
(* is about to set the flag the channel or the window is not empty, so the *)
(* collector will wake, and when it does the flag is set and read before   *)
(* it sleeps again.                                                        *)
(*                                                                         *)
(* The responses leave the watcher as it is: each step of the composition  *)
(* is a step of the pipeline or none of it, so that what is proved of the  *)
(* pipeline holds with queries, evictions and invalidations in between.    *)
(*                                                                         *)
(* ResponsesFresh is about the states where everything has been handled;   *)
(* Fresh says what must hold before, of the entries and of the answers     *)
(* that are on their way to the cache: what one is too old for is either   *)
(* covered by a full rebuild alone, or owed by the watcher, or is due to   *)
(* an invalidation of the flush that is being applied.  An entry whose     *)
(* key is linked again while its put is still to come is no exception that *)
(* matters: the put replaces it.                                           *)
(***************************************************************************)
EXTENDS HotResponses, FiniteSetTheorems, SequenceTheorems, TLAPS

-----------------------------------------------------------------------------
(* The watcher's pipeline                                                  *)

\* The elements of a sequence that grows at its end and shrinks at its head.
LEMMA AppendElements ==
  ASSUME NEW S, NEW q \in Seq(S), NEW e \in S
  PROVE  /\ Append(q, e) \in Seq(S)
         /\ Len(Append(q, e)) = Len(q) + 1
         /\ Append(q, e) # <<>>
         /\ Elements(Append(q, e)) = Elements(q) \cup {e}
<1>1. /\ Append(q, e) \in Seq(S) /\ Len(Append(q, e)) = Len(q) + 1
      /\ \A i \in 1 .. Len(q) : Append(q, e)[i] = q[i]
      /\ Append(q, e)[Len(q) + 1] = e
  OBVIOUS
<1>2. DOMAIN q = 1 .. Len(q) /\ Len(q) \in Nat
  OBVIOUS
<1>3. DOMAIN Append(q, e) = 1 .. Len(q) + 1
  BY <1>1
<1>4. Elements(Append(q, e)) = Elements(q) \cup {e}
  <2>1. ASSUME NEW x \in Elements(Append(q, e))
        PROVE  x \in Elements(q) \cup {e}
    <3>1. PICK i \in 1 .. Len(q) + 1 : x = Append(q, e)[i]
      BY <2>1, <1>3 DEF Elements
    <3>2. CASE i = Len(q) + 1
      BY <3>1, <3>2, <1>1
    <3>3. CASE i \in 1 .. Len(q)
      BY <3>1, <3>3, <1>1, <1>2 DEF Elements
    <3>. QED BY <3>2, <3>3, <1>2
  <2>2. ASSUME NEW x \in Elements(q) \cup {e}
        PROVE  x \in Elements(Append(q, e))
    <3>1. CASE x = e
      BY <3>1, <1>1, <1>2, <1>3 DEF Elements
    <3>2. CASE x \in Elements(q)
      <4>1. PICK i \in 1 .. Len(q) : x = q[i]
        BY <3>2, <1>2 DEF Elements
      <4>2. i \in DOMAIN Append(q, e) /\ x = Append(q, e)[i]
        BY <4>1, <1>1, <1>2, <1>3
      <4>. QED BY <4>2 DEF Elements
    <3>. QED BY <2>2, <3>1, <3>2
  <2>. QED BY <2>1, <2>2
<1>5. Append(q, e) # <<>>
  BY <1>1, <1>2, EmptySeq
<1>. QED BY <1>1, <1>4, <1>5

LEMMA TailElements ==
  ASSUME NEW S, NEW q \in Seq(S), q # <<>>
  PROVE  /\ Head(q) \in S /\ Tail(q) \in Seq(S)
         /\ Len(Tail(q)) = Len(q) - 1
         /\ Elements(q) = {Head(q)} \cup Elements(Tail(q))
<1>1. /\ Head(q) \in S /\ Tail(q) \in Seq(S) /\ Len(Tail(q)) = Len(q) - 1
      /\ \A i \in 1 .. Len(Tail(q)) : Tail(q)[i] = q[i + 1]
  BY HeadTailProperties
<1>2. /\ DOMAIN q = 1 .. Len(q) /\ Len(q) \in Nat \ {0} /\ Head(q) = q[1]
  BY EmptySeq
<1>3. DOMAIN Tail(q) = 1 .. Len(q) - 1
  BY <1>1
<1>4. ASSUME NEW x \in Elements(q)
      PROVE  x \in {Head(q)} \cup Elements(Tail(q))
  <2>1. PICK i \in 1 .. Len(q) : x = q[i]
    BY <1>2, <1>4 DEF Elements
  <2>2. CASE i = 1
    BY <2>1, <2>2, <1>2
  <2>3. CASE i # 1
    <3>1. i - 1 \in 1 .. Len(q) - 1 /\ (i - 1) + 1 = i
      BY <2>3, <1>2
    <3>2. Tail(q)[i - 1] = x
      BY <3>1, <2>1, <1>1
    <3>. QED BY <3>1, <3>2, <1>3 DEF Elements
  <2>. QED BY <2>2, <2>3
<1>5. ASSUME NEW x \in {Head(q)} \cup Elements(Tail(q))
      PROVE  x \in Elements(q)
  <2>1. CASE x = Head(q)
    BY <2>1, <1>2 DEF Elements
  <2>2. CASE x \in Elements(Tail(q))
    <3>1. PICK i \in 1 .. Len(q) - 1 : x = Tail(q)[i]
      BY <2>2, <1>3 DEF Elements
    <3>2. i + 1 \in 1 .. Len(q) /\ x = q[i + 1]
      BY <3>1, <1>1, <1>2
    <3>. QED BY <3>2, <1>2 DEF Elements
  <2>. QED BY <1>5, <2>1, <2>2
<1>. QED BY <1>1, <1>4, <1>5

LEMMA EmptyElements == Elements(<<>>) = {}
BY DEF Elements

-----------------------------------------------------------------------------
(* Types                                                                   *)

LEMMA InitTypes == Init => PipelineTypeOK
<1>1. ChannelCap \in Nat /\ 0 <= ChannelCap
  BY PipelineAssumption DEF ChannelCap
<1>2. <<>> \in Seq(Signals) /\ <<>> \in Seq(Flushes) /\ Len(<<>>) = 0
  BY EmptySeq
<1>. SUFFICES ASSUME Init PROVE PipelineTypeOK
  OBVIOUS
<1>3. channel \in Seq(Signals) /\ Len(channel) <= ChannelCap
  BY <1>1, <1>2 DEF Init
<1>4. batches \in Seq(Flushes) /\ Len(batches) <= QueueCap
  BY <1>2, PipelineAssumption DEF Init
<1>5. /\ overflowed \in BOOLEAN /\ callback \in {"idle", "full"}
      /\ collector \in {"check", "wait", "drain", "send"}
  BY DEF Init
<1>6. /\ pending \in SUBSET Files /\ owed \in SUBSET Signals
      /\ sending \in Flushes \cup {{}} /\ executing \in Flushes \cup {{}}
  BY DEF Init
<1>7. accepted \in 0 .. EventCap /\ events \in 0 .. MaxEvents
  BY PipelineAssumption DEF Init
<1>. QED
  BY <1>3, <1>4, <1>5, <1>6, <1>7 DEF PipelineTypeOK

LEMMA ReportTypes ==
  ASSUME PipelineTypeOK, NEW s \in Signals, Report(s)
  PROVE  PipelineTypeOK'
<1>. USE PipelineAssumption DEF PipelineTypeOK
<1>1. channel' \in Seq(Signals) /\ Len(channel') <= ChannelCap /\ callback' \in {"idle", "full"}
  <2>1. CASE Len(channel) < ChannelCap
    <3>1. channel' = Append(channel, s) /\ callback' = callback
      BY <2>1 DEF Report, Enqueue
    <3>. QED BY <2>1, <3>1, AppendElements DEF ChannelCap
  <2>2. CASE ~(Len(channel) < ChannelCap)
    BY <2>2 DEF Report, Enqueue
  <2>. QED BY <2>1, <2>2
<1>2. owed' \in SUBSET Signals /\ events' \in 0 .. MaxEvents
  BY DEF Report
<1>. QED BY <1>1, <1>2 DEF Report

LEMMA ReceiveTypes ==
  ASSUME PipelineTypeOK, Receive
  PROVE  PipelineTypeOK'
<1>. USE PipelineAssumption DEF PipelineTypeOK
<1>1. channel' \in Seq(Signals) /\ Len(channel') <= ChannelCap /\ Head(channel) \in Signals
  BY TailElements DEF Receive, ChannelCap
<1>2. /\ pending' \in SUBSET Files /\ accepted' \in 0 .. EventCap
      /\ collector' \in {"check", "wait", "drain", "send"}
  <2>1. CASE Head(channel) = FullRebuild
    BY <2>1 DEF Receive
  <2>2. CASE Head(channel) # FullRebuild
    <3>1. Head(channel) \in Files /\ Accept(Head(channel))
      BY <2>2, <1>1 DEF Receive, Signals
    <3>. QED BY <3>1 DEF Accept
  <2>. QED BY <2>1, <2>2
<1>. QED BY <1>1, <1>2 DEF Receive

LEMMA SendTypes ==
  ASSUME PipelineTypeOK, Send, sending \in Flushes
  PROVE  PipelineTypeOK'
<1>1. batches' \in Seq(Flushes) /\ Len(batches') <= QueueCap
  BY AppendElements, PipelineAssumption DEF Send, PipelineTypeOK
<1>. QED BY <1>1 DEF Send, PipelineTypeOK

LEMMA ExecuteTypes ==
  ASSUME PipelineTypeOK, Execute
  PROVE  PipelineTypeOK'
<1>1. /\ batches' \in Seq(Flushes) /\ Len(batches') <= QueueCap
      /\ executing' \in Flushes
  BY TailElements, PipelineAssumption DEF Execute, PipelineTypeOK
<1>. QED BY <1>1 DEF Execute, PipelineTypeOK

\* The collector has something to send when it is about to.
HasFlush == collector = "send" => sending \in Flushes

LEMMA StepTypes ==
  ASSUME PipelineTypeOK, HasFlush, PipelineNext
  PROVE  PipelineTypeOK' /\ HasFlush'
<1>1. CASE FileEvent \/ PolicyEvent
  <2>1. PICK s \in Signals : Report(s)
    BY <1>1 DEF FileEvent, PolicyEvent, Signals
  <2>. QED BY <2>1, ReportTypes DEF Report, HasFlush
<1>2. CASE MarkOverflow
  BY <1>2 DEF MarkOverflow, PipelineTypeOK, HasFlush
<1>3. CASE CheckOverflow
  BY <1>3 DEF CheckOverflow, PipelineTypeOK, HasFlush
<1>4. CASE Drain
  <2>1. <<>> \in Seq(Signals) /\ Len(<<>>) <= ChannelCap
    BY EmptySeq, PipelineAssumption DEF ChannelCap
  <2>. QED
    BY <1>4, <2>1, PipelineAssumption DEF Drain, PipelineTypeOK, HasFlush, Flushes, Rebuild
<1>5. CASE Receive
  <2>1. collector' # "send"
    BY <1>5 DEF Receive, Accept
  <2>. QED BY <1>5, <2>1, ReceiveTypes DEF HasFlush
<1>6. CASE FlushDue
  BY <1>6 DEF FlushDue, PipelineTypeOK, HasFlush, Flushes
<1>7. CASE Send
  BY <1>7, SendTypes DEF Send, HasFlush
<1>8. CASE Execute
  BY <1>8, ExecuteTypes DEF Execute, HasFlush
<1>9. CASE Executed
  BY <1>9 DEF Executed, PipelineTypeOK, HasFlush
<1>. QED
  BY <1>1, <1>2, <1>3, <1>4, <1>5, <1>6, <1>7, <1>8, <1>9 DEF PipelineNext, Collect

\* Every state of the pipeline is of its types: the channel and the queue stay
\* within their capacities, and the window within the event cap.
THEOREM PipelineTypes == PipelineSpec => []PipelineTypeOK
<1>1. Init => PipelineTypeOK /\ HasFlush
  BY InitTypes DEF Init, HasFlush
<1>2. PipelineTypeOK /\ HasFlush /\ [PipelineNext]_pipelineVars
        => (PipelineTypeOK /\ HasFlush)'
  <2>1. CASE PipelineNext
    BY <2>1, StepTypes
  <2>2. CASE UNCHANGED pipelineVars
    BY <2>2 DEF pipelineVars, PipelineTypeOK, HasFlush
  <2>. QED BY <2>1, <2>2
<1>. QED BY <1>1, <1>2, PTL DEF PipelineSpec

-----------------------------------------------------------------------------
(* No change is lost                                                       *)

Typed == PipelineTypeOK /\ HasFlush

LEMMA ReportLosesNothing ==
  ASSUME Typed, NoChangeLost, NEW s \in Signals, Report(s)
  PROVE  NoChangeLost'
<1>. USE DEF Typed, PipelineTypeOK
<1>1. CASE Len(channel) < ChannelCap
  <2>1. channel' = Append(channel, s) /\ callback' = callback
    BY <1>1 DEF Report, Enqueue
  <2>2. channel' # <<>> /\ Elements(channel') = Elements(channel) \cup {s}
    BY <2>1, AppendElements
  <2>. QED
    BY <2>1, <2>2 DEF Report, NoChangeLost, InHand, Flagged, Covers
<1>2. CASE ~(Len(channel) < ChannelCap)
  <2>1. channel' = channel /\ callback' = "full"
    BY <1>2 DEF Report, Enqueue
  <2>2. channel # <<>>
    BY <1>2, PipelineAssumption DEF ChannelCap
  <2>3. Flagged'
    BY <2>1, <2>2 DEF Flagged
  <2>. QED BY <2>3 DEF NoChangeLost
<1>. QED BY <1>1, <1>2

LEMMA ReceiveLosesNothing ==
  ASSUME Typed, NoChangeLost, Receive
  PROVE  NoChangeLost'
<1>. USE DEF Typed, PipelineTypeOK
<1>1. CASE collector' = "drain"
  BY <1>1 DEF NoChangeLost, InHand
<1>2. CASE collector' # "drain"
  <2>1. /\ Head(channel) # FullRebuild
        /\ pending' = pending \cup {Head(channel)}
        /\ collector' = "check"
    BY <1>2 DEF Receive, Accept
  <2>2. Elements(channel) = {Head(channel)} \cup Elements(channel')
    BY TailElements DEF Receive
  <2>3. collector = "wait" /\ pending' # {}
    BY <2>1 DEF Receive
  <2>. QED
    BY <2>1, <2>2, <2>3 DEF Receive, NoChangeLost, InHand, Flagged, Covers
<1>. QED BY <1>1, <1>2

LEMMA SendLosesNothing ==
  ASSUME Typed, NoChangeLost, Send
  PROVE  NoChangeLost'
<1>1. Elements(batches') = Elements(batches) \cup {sending}
  BY AppendElements DEF Send, Typed, HasFlush, PipelineTypeOK
<1>. QED
  BY <1>1 DEF Send, NoChangeLost, InHand, Flagged, Covers

LEMMA ExecuteLosesNothing ==
  ASSUME Typed, NoChangeLost, Execute
  PROVE  NoChangeLost'
<1>1. Elements(batches) = {Head(batches)} \cup Elements(batches')
  BY TailElements DEF Execute, Typed, PipelineTypeOK
<1>2. ASSUME NEW s \in owed'
      PROVE  (InHand(s) \/ Flagged)'
  <2>1. s \in owed /\ ~Covers(Head(batches), s)
    BY <1>2 DEF Execute
  <2>2. InHand(s) \/ Flagged
    BY <2>1 DEF NoChangeLost
  <2>. QED
    BY <1>1, <2>1, <2>2 DEF Execute, InHand, Flagged, Covers
<1>. QED BY <1>2 DEF NoChangeLost

LEMMA StepLosesNothing ==
  ASSUME Typed, NoChangeLost, PipelineNext, SlowCallback = FALSE
  PROVE  NoChangeLost'
<1>1. CASE FileEvent \/ PolicyEvent
  <2>1. PICK s \in Signals : Report(s)
    BY <1>1 DEF FileEvent, PolicyEvent, Signals
  <2>. QED BY <2>1, ReportLosesNothing
<1>2. CASE MarkOverflow
  BY <1>2 DEF MarkOverflow, NoChangeLost, InHand, Flagged, Covers
<1>3. CASE CheckOverflow
  BY <1>3 DEF CheckOverflow, NoChangeLost, InHand, Flagged, Covers
<1>4. CASE Drain
  BY <1>4 DEF Drain, NoChangeLost, InHand, Flagged, Covers, Rebuild
<1>5. CASE Receive
  BY <1>5, ReceiveLosesNothing
<1>6. CASE FlushDue
  <2>1. callback = "idle" /\ collector' = "send" /\ sending' = pending
    BY <1>6 DEF FlushDue
  <2>. QED
    BY <1>6, <2>1 DEF FlushDue, NoChangeLost, InHand, Flagged, Covers
<1>7. CASE Send
  BY <1>7, SendLosesNothing
<1>8. CASE Execute
  BY <1>8, ExecuteLosesNothing
<1>9. CASE Executed
  BY <1>9 DEF Executed, NoChangeLost, InHand, Flagged, Covers
<1>. QED
  BY <1>1, <1>2, <1>3, <1>4, <1>5, <1>6, <1>7, <1>8, <1>9 DEF PipelineNext, Collect

LEMMA InitKeepsChanges == Init => Typed /\ NoChangeLost
BY InitTypes DEF Init, Typed, HasFlush, NoChangeLost

LEMMA StepKeepsChanges ==
  ASSUME SlowCallback = FALSE
  PROVE  Typed /\ NoChangeLost /\ [PipelineNext]_pipelineVars => (Typed /\ NoChangeLost)'
<1>1. CASE PipelineNext
  BY <1>1, StepTypes, StepLosesNothing DEF Typed
<1>2. CASE UNCHANGED pipelineVars
  BY <1>2 DEF pipelineVars, Typed, PipelineTypeOK, HasFlush, NoChangeLost, InHand,
     Flagged, Covers
<1>. QED BY <1>1, <1>2

\* Whatever the caps, no change the watcher reported is lost on its way to a
\* flush, when the callback is never overtaken by the end of a window.
THEOREM PipelineLosesNothing ==
  ASSUME SlowCallback = FALSE
  PROVE  PipelineSpec => []NoChangeLost
BY InitKeepsChanges, StepKeepsChanges, PTL DEF PipelineSpec

-----------------------------------------------------------------------------
(* The hot responses                                                       *)

LEMMA NextIsPipeline == [Next]_vars => [PipelineNext]_pipelineVars
<1>. SUFFICES ASSUME [Next]_vars
              PROVE  PipelineNext \/ UNCHANGED pipelineVars
  OBVIOUS
<1>1. CASE SaveFile
  BY <1>1 DEF SaveFile, Save, FileEvent, PipelineNext
<1>2. CASE SavePolicy
  BY <1>2 DEF SavePolicy, Save, PolicyEvent, PipelineNext
<1>3. CASE Watch
  BY <1>3 DEF Watch, PipelineNext
<1>4. CASE Dispatch
  BY <1>4 DEF Dispatch, PipelineNext
<1>5. CASE Invalidate
  BY <1>5 DEF Invalidate, TakeInput, DropTaken, UnlinkTaken
<1>6. CASE Finish
  BY <1>6 DEF Finish, PipelineNext
<1>7. CASE Query
  BY <1>7 DEF Query, Insert, Miss, Compute, MakeRoom, DropVictim, UnlinkVictim, Link, Put,
              QueryFrame
<1>8. CASE Finished \/ UNCHANGED vars
  BY <1>8 DEF Finished, vars
<1>. QED
  BY <1>1, <1>2, <1>3, <1>4, <1>5, <1>6, <1>7, <1>8 DEF Next

\* The composition behaves towards the watcher as the watcher's own safety
\* specification says: dispatching a flush through the cache adds nothing to it.
THEOREM ResponsesKeepPipeline == Spec => Init /\ [][PipelineNext]_pipelineVars
<1>1. ResponsesInit => Init
  BY DEF ResponsesInit
<1>. QED BY <1>1, NextIsPipeline, PTL DEF Spec

\* Whatever the caps, and whatever queries and invalidations do meanwhile, a
\* change the watcher reported is never lost on its way to the cache.
THEOREM ResponsesLoseNothing ==
  ASSUME SlowCallback = FALSE
  PROVE  Spec => []NoChangeLost
<1>1. Typed /\ NoChangeLost /\ [PipelineNext]_pipelineVars => (Typed /\ NoChangeLost)'
  BY StepKeepsChanges
<1>2. Init => Typed /\ NoChangeLost
  BY InitKeepsChanges
<1>. QED BY <1>1, <1>2, ResponsesKeepPipeline, PTL
-----------------------------------------------------------------------------
(* The responses that are stored, and answers on their way to the cache    *)

Steps == {"room", "drop", "unlink", "link", "put"}
Answers == [pc : Steps, key : Keys, value : SUBSET Signals, passed : BOOLEAN, victim : Keys,
            rest : SUBSET AllInputs]
Locals == {Idle} \cup [pc : {"compute"}, key : Keys] \cup Answers

Responses == UNION {[S -> SUBSET Signals] : S \in SUBSET Keys}
Links == [AllInputs -> SUBSET Keys]

Stored ==
  /\ cache \in [entries : Responses, dependents : Links]
  /\ query \in [Queries -> Locals]
  /\ \A k \in Cached(cache) : cache.entries[k] \subseteq Reads[k]
  /\ \A q \in Queries : HasAnswer(q) => query[q].value \subseteq Reads[query[q].key]
  /\ taken \subseteq Keys /\ unlinking \subseteq Keys \X AllInputs
  /\ executing = {} => todo = {}

\* What an answer for the key k is too old for and that is no reason for
\* concern: a full rebuild covered it, or it is still to be handled.
Due(k, s) == s \in missed \cup owed \/ todo \cap Inputs[k] # {}

Putting == {"link", "put"}
AboutToPut(k) == \E q \in Queries : query[q].pc \in Putting /\ query[q].key = k

AnswersDue ==
  \A q \in Queries : HasAnswer(q) /\ ~query[q].passed =>
    \A s \in query[q].value : Due(query[q].key, s)

ResponsesDue ==
  \A k \in Cached(cache) \ late : Linked(k) =>
    AboutToPut(k) \/ \A s \in Outdated(k) : Due(k, s)

Fresh == AnswersDue /\ ResponsesDue

LEMMA SignalsOfAKey ==
  ASSUME NEW k \in Keys
  PROVE  Inputs[k] \subseteq AllInputs /\ Reads[k] \subseteq Signals
BY ResponsesAssumption DEF AllInputs

\* What is cached, and what its entry stands for.
LEMMA StoredEntries ==
  ASSUME Stored
  PROVE  /\ Cached(cache) \subseteq Keys
         /\ \A k \in Cached(cache) : cache.entries[k] \in SUBSET Signals
         /\ cache.entries = [k \in Cached(cache) |-> cache.entries[k]]
         /\ cache.dependents \in Links
BY DEF Stored, Responses, Cached

LEMMA EntriesAreResponses ==
  ASSUME NEW S \in SUBSET Keys, NEW f \in [S -> SUBSET Signals]
  PROVE  f \in Responses
BY DEF Responses

\* A query that has an answer has one of the right types.
LEMMA AnswersOfQueries ==
  ASSUME Stored, NEW q \in Queries, HasAnswer(q)
  PROVE  query[q] \in Answers
<1>1. query[q] \in Locals
  BY DEF Stored
<1>2. query[q].pc \notin {"idle", "compute"}
  BY DEF HasAnswer
<1>. QED BY <1>1, <1>2 DEF Locals, Idle

\* A query that goes on keeps its answer.
LEMMA QueryGoesOn ==
  ASSUME Stored, NEW q \in Queries, HasAnswer(q), NEW pc \in Steps,
         NEW rest \in SUBSET AllInputs, GoThrough(q, pc, rest)
  PROVE  /\ query' \in [Queries -> Locals]
         /\ \A r \in Queries : r # q => query'[r] = query[r]
         /\ query'[q] = [query[q] EXCEPT !.pc = pc, !.rest = rest]
         /\ query'[q] \in Answers
<1>1. query[q] \in Answers /\ query \in [Queries -> Locals]
  BY AnswersOfQueries DEF Stored
<1>2. [query[q] EXCEPT !.pc = pc, !.rest = rest] \in Answers
  BY <1>1 DEF Answers
<1>. QED BY <1>1, <1>2 DEF GoThrough, Locals

\* The same, field by field.
LEMMA AnswerGoesOn ==
  ASSUME Stored, NEW q \in Queries, HasAnswer(q), NEW pc \in Steps,
         NEW rest \in SUBSET AllInputs, GoThrough(q, pc, rest)
  PROVE  /\ query' \in [Queries -> Locals]
         /\ \A r \in Queries : r # q => query'[r] = query[r]
         /\ query'[q].pc = pc /\ query'[q].key = query[q].key
         /\ query'[q].value = query[q].value /\ query'[q].passed = query[q].passed
<1>1. /\ query' \in [Queries -> Locals]
      /\ \A r \in Queries : r # q => query'[r] = query[r]
      /\ query'[q] = [query[q] EXCEPT !.pc = pc, !.rest = rest]
  BY QueryGoesOn
<1>2. query[q] \in Answers
  BY AnswersOfQueries
<1>. QED BY <1>1, <1>2 DEF Answers

\* What the steps of a query leave of the invariant, whatever they do to the cache:
\* no other query changes, and the answer of this one remains what it was.
LEMMA AnswersStayDue ==
  ASSUME AnswersDue, UNCHANGED <<missed, owed, todo>>,
         \A r \in Queries : HasAnswer(r)' /\ ~query'[r].passed =>
           /\ HasAnswer(r) /\ ~query[r].passed
           /\ query'[r].key = query[r].key /\ query'[r].value = query[r].value
  PROVE  AnswersDue'
<1>. SUFFICES ASSUME NEW r \in Queries, HasAnswer(r)', ~query'[r].passed,
                     NEW s \in query'[r].value
              PROVE  Due(query[r].key, s)'
  BY DEF AnswersDue
<1>1. Due(query[r].key, s) /\ query'[r].key = query[r].key
  BY DEF AnswersDue
<1>. QED BY <1>1 DEF Due

\* Entries that were there and links that were there: nothing new can be stale.
LEMMA ResponsesStayDue ==
  ASSUME ResponsesDue, UNCHANGED <<missed, owed, todo, late>>,
         \A k \in Keys : AboutToPut(k) => AboutToPut(k)',
         Cached(cache)' \subseteq Keys,
         \A k \in Cached(cache)' :
            k \in Cached(cache) /\ cache'.entries[k] = cache.entries[k],
         \A k \in Cached(cache)' : Linked(k)' => Linked(k) \/ AboutToPut(k)'
  PROVE  ResponsesDue'
<1>. SUFFICES ASSUME NEW k \in Cached(cache)' \ late', Linked(k)', ~AboutToPut(k)',
                     NEW s \in Outdated(k)'
              PROVE  Due(k, s)'
  BY DEF ResponsesDue
<1>1. k \in Cached(cache) \ late /\ Linked(k) /\ ~AboutToPut(k)
  OBVIOUS
<1>2. s \in Outdated(k)
  BY DEF Outdated
<1>. QED BY <1>1, <1>2 DEF ResponsesDue, Due

-----------------------------------------------------------------------------
(* A save, and a flush that begins                                         *)

LEMMA SaveStored ==
  ASSUME Stored, NEW f \in Signals, Save(f)
  PROVE  Stored'
<1>1. /\ cache' = [cache EXCEPT !.entries =
                     [k \in DOMAIN @ |-> @[k] \cup ({f} \cap Reads[k])]]
      /\ executing' = executing /\ todo' = todo
  BY DEF Save, Report
<1>2. /\ Cached(cache)' = Cached(cache) /\ cache'.dependents = cache.dependents
      /\ cache'.entries = [k \in Cached(cache) |->
                             cache.entries[k] \cup ({f} \cap Reads[k])]
      /\ cache' = [entries |-> cache'.entries, dependents |-> cache'.dependents]
  BY <1>1 DEF Stored, Cached
<1>3. cache' \in [entries : Responses, dependents : Links]
  <2>1. \A k \in Cached(cache) : cache.entries[k] \cup ({f} \cap Reads[k]) \in SUBSET Signals
    BY StoredEntries
  <2>2. cache'.entries \in [Cached(cache) -> SUBSET Signals]
    BY <2>1, <1>2
  <2>3. cache'.entries \in Responses
    BY <2>2, StoredEntries, EntriesAreResponses
  <2>. QED BY <2>3, <1>2, StoredEntries
<1>4. \A k \in Cached(cache)' : cache'.entries[k] \subseteq Reads[k]
  BY <1>2 DEF Stored
<1>5. ASSUME NEW q \in Queries
      PROVE  query'[q] \in Locals
             /\ (HasAnswer(q)' => query'[q].value \subseteq Reads[query'[q].key])
  <2>1. CASE HasAnswer(q)
    <3>1. query[q] \in Answers
      BY <2>1, AnswersOfQueries
    <3>2. query'[q] = [query[q] EXCEPT !.value = @ \cup ({f} \cap Reads[query[q].key])]
      BY <2>1 DEF Save
    <3>3. query[q].value \cup ({f} \cap Reads[query[q].key]) \in SUBSET Signals
      BY <3>1 DEF Answers
    <3>4. query'[q] \in Answers /\ query'[q].key = query[q].key
      BY <3>1, <3>2, <3>3 DEF Answers
    <3>5. query'[q].value = query[q].value \cup ({f} \cap Reads[query[q].key])
      BY <3>1, <3>2 DEF Answers
    <3>6. query[q].value \subseteq Reads[query[q].key]
      BY <2>1 DEF Stored
    <3>. QED BY <3>4, <3>5, <3>6 DEF Locals
  <2>2. CASE ~HasAnswer(q)
    <3>1. query'[q] = query[q]
      BY <2>2 DEF Save
    <3>. QED BY <2>2, <3>1 DEF Stored, HasAnswer
  <2>. QED BY <2>1, <2>2
<1>6. query' = [q \in Queries |-> query'[q]]
  BY DEF Save
<1>7. query' \in [Queries -> Locals]
  BY <1>5, <1>6
<1>8. (executing = {} => todo = {})' /\ taken' \subseteq Keys /\ unlinking' \subseteq Keys \X AllInputs
  BY <1>1 DEF Stored, Save
<1>. QED BY <1>3, <1>4, <1>5, <1>7, <1>8 DEF Stored

LEMMA SaveFresh ==
  ASSUME Stored, Fresh, NEW f \in Signals, Save(f)
  PROVE  Fresh'
<1>1. /\ owed' = owed \cup {f} /\ UNCHANGED <<missed, todo, late>>
      /\ cache' = [cache EXCEPT !.entries =
                     [k \in DOMAIN @ |-> @[k] \cup ({f} \cap Reads[k])]]
  BY DEF Save, Report
<1>2. /\ Cached(cache)' = Cached(cache) /\ cache'.dependents = cache.dependents
      /\ \A k \in Cached(cache) : cache'.entries[k] \subseteq cache.entries[k] \cup {f}
  BY <1>1 DEF Stored, Cached
<1>3. \A k : Due(k, f)' /\ \A s : Due(k, s) => Due(k, s)'
  BY <1>1 DEF Due
<1>4. ASSUME NEW q \in Queries, HasAnswer(q)' \/ HasAnswer(q)
      PROVE  /\ HasAnswer(q) /\ query'[q].pc = query[q].pc
             /\ query'[q].key = query[q].key
             /\ query'[q].passed = query[q].passed
             /\ query'[q].value \subseteq query[q].value \cup {f}
  <2>1. HasAnswer(q)
    BY <1>4 DEF Save, HasAnswer
  <2>2. query[q] \in Answers
    BY <2>1, AnswersOfQueries
  <2>3. query'[q] = [query[q] EXCEPT !.value = @ \cup ({f} \cap Reads[query[q].key])]
    BY <2>1 DEF Save
  <2>. QED BY <2>1, <2>2, <2>3 DEF Answers
<1>5. AnswersDue'
  <2>. SUFFICES ASSUME NEW q \in Queries, HasAnswer(q)', ~query'[q].passed,
                       NEW s \in query'[q].value
                PROVE  Due(query[q].key, s)'
    BY <1>4 DEF AnswersDue
  <2>1. HasAnswer(q) /\ ~query[q].passed /\ s \in query[q].value \cup {f}
    BY <1>4
  <2>. QED BY <2>1, <1>3, <1>4 DEF Fresh, AnswersDue
<1>6. \A k : AboutToPut(k) => AboutToPut(k)'
  BY <1>4 DEF AboutToPut, Putting, HasAnswer
<1>7. \A k \in Keys : Linked(k)' => Linked(k)
  BY <1>2 DEF Linked
<1>8. ResponsesDue'
  <2>. SUFFICES ASSUME NEW k \in Cached(cache)' \ late', Linked(k)', ~AboutToPut(k)',
                       NEW s \in Outdated(k)'
                PROVE  Due(k, s)'
    BY DEF ResponsesDue
  <2>1. k \in Cached(cache) \ late /\ Linked(k) /\ ~AboutToPut(k)
    BY <1>1, <1>2, <1>6, <1>7, StoredEntries
  <2>2. s \in Outdated(k) \cup {f}
    BY <2>1, <1>2 DEF Outdated
  <2>. QED BY <2>1, <2>2, <1>3 DEF Fresh, ResponsesDue
<1>. QED BY <1>5, <1>8 DEF Fresh

LEMMA DispatchStored ==
  ASSUME Stored, Typed, Dispatch
  PROVE  Stored' /\ todo = {}
<1>1. executing = {} /\ batches # <<>> /\ executing' = Head(batches)
      /\ UNCHANGED <<cache, query, taken, unlinking>>
  BY DEF Dispatch, Execute
<1>2. Head(batches) \in Flushes
  BY <1>1, TailElements DEF Typed, PipelineTypeOK
<1>3. executing' # {}
  BY <1>1, <1>2 DEF Flushes, Rebuild
<1>4. todo = {}
  BY <1>1 DEF Stored
<1>. QED BY <1>1, <1>3, <1>4 DEF Stored, Cached, HasAnswer

\* What was owed by nobody's reckoning but a flush's is due to its invalidations,
\* or, when it is a full rebuild, is what the rebuild alone covers.
LEMMA DispatchKeepsDue ==
  ASSUME Stored, Typed, Dispatch, NEW k \in Keys, NEW s \in Reads[k], Due(k, s)
  PROVE  Due(k, s)'
<1>1. /\ owed' = {x \in owed : ~Covers(Head(batches), x)}
      /\ todo' = InvalidatedBy(Head(batches))
      /\ missed' = IF FullRebuild \in Head(batches)
                   THEN missed \cup owed ELSE missed \ Head(batches)
      /\ batches # <<>>
  BY DEF Dispatch, Execute
<1>2. Head(batches) \in Flushes
  BY <1>1, TailElements DEF Typed, PipelineTypeOK
<1>3. s \in missed \cup owed
  BY DispatchStored DEF Due
<1>4. CASE FullRebuild \in Head(batches)
  BY <1>1, <1>3, <1>4 DEF Due
<1>5. CASE FullRebuild \notin Head(batches) /\ s \notin Head(batches)
  BY <1>1, <1>3, <1>5 DEF Due, Covers
<1>6. CASE FullRebuild \notin Head(batches) /\ s \in Head(batches)
  <2>1. s \in Files
    BY <1>2, <1>6 DEF Flushes, Rebuild
  <2>2. todo' = Head(batches) \cup {Project}
    BY <1>1, <1>6 DEF InvalidatedBy
  <2>3. Project \in Inputs[k] \/ s \in Inputs[k]
    BY <2>1, InputsAssumption
  <2>. QED BY <2>2, <2>3, <1>6 DEF Due
<1>. QED BY <1>4, <1>5, <1>6

LEMMA DispatchFresh ==
  ASSUME Stored, Typed, Fresh, Dispatch
  PROVE  Fresh'
<1>1. UNCHANGED <<cache, query, late>>
  BY DEF Dispatch
<1>2. AnswersDue'
  <2>. SUFFICES ASSUME NEW q \in Queries, HasAnswer(q), ~query[q].passed,
                       NEW s \in query[q].value
                PROVE  Due(query[q].key, s)'
    BY <1>1 DEF AnswersDue, HasAnswer
  <2>1. Due(query[q].key, s)
    BY DEF Fresh, AnswersDue
  <2>2. query[q].key \in Keys /\ s \in Reads[query[q].key]
    BY AnswersOfQueries DEF Stored, Answers
  <2>3. PICK k \in Keys : k = query[q].key
    BY <2>2
  <2>4. Due(k, s)'
    BY <2>1, <2>2, <2>3, DispatchKeepsDue
  <2>. QED BY <1>1, <2>3, <2>4
<1>3. ResponsesDue'
  <2>. SUFFICES ASSUME NEW k \in Cached(cache) \ late, Linked(k), ~AboutToPut(k),
                       NEW s \in Outdated(k)
                PROVE  Due(k, s)'
    BY <1>1 DEF ResponsesDue, Cached, Linked, AboutToPut, Outdated
  <2>1. Due(k, s)
    BY DEF Fresh, ResponsesDue
  <2>2. k \in Keys /\ s \in Reads[k]
    BY StoredEntries DEF Stored, Outdated
  <2>. QED BY <2>1, <2>2, DispatchKeepsDue
<1>. QED BY <1>2, <1>3 DEF Fresh

-----------------------------------------------------------------------------
(* The invalidations of a flush                                            *)

LEMMA PassedAnswers ==
  ASSUME Stored, NEW i, query' = Passed(i)
  PROVE  /\ query' \in [Queries -> Locals]
         /\ \A q \in Queries :
              /\ query'[q].pc = query[q].pc
              /\ HasAnswer(q) =>
                   /\ query'[q].key = query[q].key /\ query'[q].value = query[q].value
                   /\ query'[q].passed = (query[q].passed \/ i \in Inputs[query[q].key])
<1>1. ASSUME NEW q \in Queries
      PROVE  /\ query'[q] \in Locals
             /\ query'[q].pc = query[q].pc
             /\ HasAnswer(q) =>
                   /\ query'[q].key = query[q].key /\ query'[q].value = query[q].value
                   /\ query'[q].passed = (query[q].passed \/ i \in Inputs[query[q].key])
  <2>1. CASE HasAnswer(q) /\ i \in Inputs[query[q].key]
    <3>1. query[q] \in Answers
      BY <2>1, AnswersOfQueries
    <3>2. query'[q] = [query[q] EXCEPT !.passed = TRUE]
      BY <2>1 DEF Passed
    <3>3. query'[q] \in Answers
      BY <3>1, <3>2 DEF Answers
    <3>. QED BY <2>1, <3>1, <3>2, <3>3 DEF Locals, Answers
  <2>2. CASE ~(HasAnswer(q) /\ i \in Inputs[query[q].key])
    <3>1. query'[q] = query[q]
      BY <2>2 DEF Passed
    <3>2. HasAnswer(q) => query[q].passed \in BOOLEAN
      BY AnswersOfQueries DEF Answers
    <3>. QED BY <2>2, <3>1, <3>2 DEF Stored
  <2>. QED BY <2>1, <2>2
<1>2. query' = [q \in Queries |-> query'[q]]
  BY DEF Passed
<1>. QED BY <1>1, <1>2

LEMMA TakeInputKeeps ==
  ASSUME Stored, Fresh, NEW i \in AllInputs, TakeInput(i)
  PROVE  Stored' /\ Fresh'
<1>1. /\ i \in todo /\ todo' = todo \ {i}
      /\ cache' = TakeDependents(cache, i) /\ query' = Passed(i)
      /\ taken' = cache.dependents[i]
      /\ UNCHANGED <<missed, owed, late, executing, unlinking>>
  BY DEF TakeInput, pipelineVars
<1>2. /\ cache'.entries = cache.entries /\ cache' \in [entries : Responses, dependents : Links]
      /\ cache'.dependents = [cache.dependents EXCEPT ![i] = {}]
  BY <1>1 DEF Stored, TakeDependents, Links
<1>3. Cached(cache)' = Cached(cache)
  BY <1>2 DEF Cached
<1>4. /\ query' \in [Queries -> Locals]
      /\ \A q \in Queries :
           /\ query'[q].pc = query[q].pc
           /\ HasAnswer(q) =>
                /\ query'[q].key = query[q].key /\ query'[q].value = query[q].value
                /\ query'[q].passed = (query[q].passed \/ i \in Inputs[query[q].key])
  BY <1>1, PassedAnswers
<1>5. Stored'
  <2>1. taken' \subseteq Keys
    BY <1>1, StoredEntries DEF Links
  <2>. QED BY <2>1, <1>1, <1>2, <1>3, <1>4 DEF Stored, HasAnswer
<1>6. \A k \in Keys : \A s : i \notin Inputs[k] /\ Due(k, s) => Due(k, s)'
  BY <1>1 DEF Due
<1>7. AnswersDue'
  <2>. SUFFICES ASSUME NEW q \in Queries, HasAnswer(q)', ~query'[q].passed,
                       NEW s \in query'[q].value
                PROVE  Due(query[q].key, s)'
    BY DEF AnswersDue
  <2>1. HasAnswer(q) /\ ~query[q].passed /\ i \notin Inputs[query[q].key]
    BY <1>4 DEF HasAnswer
  <2>2. PICK k \in Keys : k = query[q].key
    BY <2>1, AnswersOfQueries DEF Answers
  <2>3. Due(query[q].key, s)
    BY <2>1, <1>4 DEF Fresh, AnswersDue
  <2>4. Due(k, s)'
    BY <2>1, <2>2, <2>3, <1>6
  <2>. QED BY <2>1, <2>2, <2>4, <1>4
<1>8. \A k : AboutToPut(k) => AboutToPut(k)'
  BY <1>4 DEF AboutToPut, Putting, HasAnswer
<1>9. ResponsesDue'
  <2>. SUFFICES ASSUME NEW k \in Cached(cache)' \ late', Linked(k)', ~AboutToPut(k)',
                       NEW s \in Outdated(k)'
                PROVE  Due(k, s)'
    BY DEF ResponsesDue
  <2>1. k \in Keys /\ k \in Cached(cache) \ late /\ ~AboutToPut(k)
    BY <1>1, <1>3, <1>8, StoredEntries
  <2>2. i \notin Inputs[k] /\ Linked(k)
    BY <1>2, StoredEntries DEF Linked, Links
  <2>3. s \in Outdated(k)
    BY <1>2 DEF Outdated
  <2>. QED BY <2>1, <2>2, <2>3, <1>6 DEF Fresh, ResponsesDue
<1>. QED BY <1>5, <1>7, <1>9 DEF Fresh

\* To drop an entry or to unlink its key makes no other response stale.
LEMMA EntryGone ==
  ASSUME Stored, NEW k \in Keys, cache' = RemoveEntry(cache, k)
  PROVE  /\ cache' \in [entries : Responses, dependents : Links]
         /\ cache'.dependents = cache.dependents
         /\ Cached(cache)' = Cached(cache) \ {k}
         /\ \A x \in Cached(cache)' : cache'.entries[x] = cache.entries[x]
<1>1. cache' = [cache EXCEPT !.entries = [x \in Cached(cache) \ {k} |-> cache.entries[x]]]
  BY DEF RemoveEntry, Restrict, Cached
<1>2. [x \in Cached(cache) \ {k} |-> cache.entries[x]] \in Responses
  BY StoredEntries, EntriesAreResponses
<1>. QED BY <1>1, <1>2 DEF Stored, Cached

LEMMA KeyUnlinked ==
  ASSUME Stored, NEW k \in Keys, NEW input \in AllInputs, cache' = UnlinkKey(cache, k, input)
  PROVE  /\ cache' \in [entries : Responses, dependents : Links]
         /\ cache'.entries = cache.entries
         /\ \A i \in AllInputs : cache'.dependents[i] \subseteq cache.dependents[i]
<1>1. cache' = [cache EXCEPT !.dependents =
                   [cache.dependents EXCEPT ![input] = cache.dependents[input] \ {k}]]
  BY DEF UnlinkKey
<1>2. [cache.dependents EXCEPT ![input] = cache.dependents[input] \ {k}] \in Links
  BY StoredEntries DEF Links
<1>3. \A i \in AllInputs :
        [cache.dependents EXCEPT ![input] = cache.dependents[input] \ {k}][i]
          \subseteq cache.dependents[i]
  BY StoredEntries DEF Links
<1>. QED BY <1>1, <1>2, <1>3 DEF Stored

LEMMA InvalidateKeeps ==
  ASSUME Stored, Fresh, Invalidate
  PROVE  Stored' /\ Fresh'
<1>1. CASE \E i \in AllInputs : TakeInput(i)
  BY <1>1, TakeInputKeeps
<1>2. CASE \E k \in Keys : DropTaken(k)
  <2>1. PICK k \in Keys : DropTaken(k)
    BY <1>2
  <2>2. cache' = RemoveEntry(cache, k)
        /\ UNCHANGED <<query, missed, owed, todo, late, executing>>
    BY <2>1 DEF DropTaken, pipelineVars
  <2>3. Stored'
    <3>1. taken' \subseteq Keys /\ unlinking' \subseteq Keys \X AllInputs
      BY <2>1, SignalsOfAKey DEF DropTaken, Stored
    <3>. QED BY <2>2, <3>1, EntryGone DEF Stored, HasAnswer
  <2>4. AnswersDue'
    BY <2>2, AnswersStayDue DEF Fresh, HasAnswer
  <2>5. ResponsesDue'
    <3>1. \A x \in Keys : AboutToPut(x) => AboutToPut(x)'
      BY <2>2 DEF AboutToPut
    <3>2. \A x \in Cached(cache)' : Linked(x)' => Linked(x)
      BY <2>2, EntryGone DEF Linked
    <3>. QED BY <2>2, <3>1, <3>2, EntryGone, StoredEntries, ResponsesStayDue DEF Fresh
  <2>. QED BY <2>3, <2>4, <2>5 DEF Fresh
<1>3. CASE UnlinkTaken
  <2>1. PICK k \in Keys, i \in AllInputs : cache' = UnlinkKey(cache, k, i)
    BY <1>3 DEF UnlinkTaken, Stored
  <2>2. /\ UNCHANGED <<query, missed, owed, todo, taken, late, executing>>
        /\ unlinking' \subseteq unlinking
    BY <1>3 DEF UnlinkTaken, pipelineVars
  <2>3. Cached(cache)' = Cached(cache)
    BY <2>1, KeyUnlinked DEF Cached
  <2>4. Stored'
    BY <2>1, <2>2, <2>3, KeyUnlinked DEF Stored, HasAnswer
  <2>5. AnswersDue'
    BY <2>2, AnswersStayDue DEF Fresh, HasAnswer
  <2>6. ResponsesDue'
    <3>1. \A x \in Keys : AboutToPut(x) => AboutToPut(x)'
      BY <2>2 DEF AboutToPut
    <3>2. \A x \in Cached(cache)' : Linked(x)' => Linked(x)
      BY <2>1, <2>3, KeyUnlinked, SignalsOfAKey, StoredEntries DEF Linked
    <3>3. \A x \in Cached(cache)' : x \in Cached(cache) /\ cache'.entries[x] = cache.entries[x]
      BY <2>1, <2>3, KeyUnlinked
    <3>. QED BY <2>2, <2>3, <3>1, <3>2, <3>3, StoredEntries, ResponsesStayDue DEF Fresh
  <2>. QED BY <2>4, <2>5, <2>6 DEF Fresh
<1>. QED BY <1>1, <1>2, <1>3 DEF Invalidate

-----------------------------------------------------------------------------
(* The queries                                                             *)

\* What a step of a query leaves alone.
QueryLeaves == UNCHANGED <<missed, owed, todo, taken, unlinking, executing>>

\* A step with which a query goes on in its insertion, up to its put.
LEMMA InsertionKeeps ==
  ASSUME Stored, Fresh, QueryLeaves, UNCHANGED late,
         NEW q \in Queries, HasAnswer(q), NEW pc \in Steps,
         query[q].pc \in Putting => pc \in Putting,
         query' \in [Queries -> Locals],
         \A r \in Queries : r # q => query'[r] = query[r],
         query'[q].pc = pc, query'[q].key = query[q].key,
         query'[q].value = query[q].value, query'[q].passed = query[q].passed,
         cache' \in [entries : Responses, dependents : Links],
         Cached(cache)' \subseteq Cached(cache),
         \A k \in Cached(cache)' : cache'.entries[k] = cache.entries[k],
         \A k \in Keys : Linked(k)' => Linked(k) \/ (k = query[q].key /\ pc \in Putting)
  PROVE  Stored' /\ Fresh'
<1>1. \A r \in Queries :
        /\ HasAnswer(r)' = HasAnswer(r)
        /\ HasAnswer(r) => /\ query'[r].key = query[r].key
                           /\ query'[r].value = query[r].value
                           /\ query'[r].passed = query[r].passed
  BY DEF HasAnswer, Steps
<1>2. Stored'
  BY <1>1 DEF Stored, QueryLeaves
<1>3. AnswersDue'
  BY <1>1, AnswersStayDue DEF Fresh, QueryLeaves
<1>4. ResponsesDue'
  <2>1. \A k \in Keys : AboutToPut(k) => AboutToPut(k)'
    BY DEF AboutToPut
  <2>2. \A k \in Cached(cache)' : k \in Keys /\ k \in Cached(cache)
    BY StoredEntries
  <2>3. ASSUME NEW k \in Cached(cache)', Linked(k)'
        PROVE  Linked(k) \/ AboutToPut(k)'
    BY <2>2, <2>3 DEF AboutToPut
  <2>. QED BY <2>1, <2>2, <2>3, ResponsesStayDue DEF Fresh, QueryLeaves
<1>. QED BY <1>2, <1>3, <1>4 DEF Fresh

LEMMA MissKeeps ==
  ASSUME Stored, Fresh, NEW q \in Queries,
         (\E k \in Keys : Miss(q, k)) \/ Compute(q)
  PROVE  Stored' /\ Fresh'
<1>1. /\ QueryLeaves /\ UNCHANGED <<cache, late>>
      /\ query[q].pc \in {"idle", "compute"}
  BY DEF Miss, Compute, QueryFrame, QueryLeaves, pipelineVars, At
<1>2. /\ query' \in [Queries -> Locals]
      /\ \A r \in Queries : r # q => query'[r] = query[r]
      /\ query'[q].pc \in {"compute", "room"}
      /\ HasAnswer(q)' => query'[q].value = {}
  <2>1. CASE \E k \in Keys : Miss(q, k)
    <3>1. PICK k \in Keys : query' = [query EXCEPT ![q] = [pc |-> "compute", key |-> k]]
      BY <2>1 DEF Miss
    <3>. QED BY <3>1 DEF Stored, Locals, HasAnswer
  <2>2. CASE Compute(q)
    <3>1. query[q] \in Locals /\ query[q].pc = "compute"
      BY <2>2 DEF Stored, Compute, At
    <3>2. query[q].key \in Keys
      BY <3>1 DEF Locals, Answers, Steps, Idle
    <3>3. PICK a \in Answers :
            /\ a.pc = "room" /\ a.value = {}
            /\ query' = [query EXCEPT ![q] = a]
      BY <2>2, <3>2 DEF Compute, Answers, Steps
    <3>. QED BY <3>3 DEF Stored, Locals
  <2>. QED BY <2>1, <2>2
<1>3. Stored'
  BY <1>1, <1>2 DEF Stored, QueryLeaves, HasAnswer, Cached
<1>4. AnswersDue'
  <2>. SUFFICES ASSUME NEW r \in Queries, HasAnswer(r)', ~query'[r].passed,
                       NEW s \in query'[r].value
                PROVE  Due(query[r].key, s)'
    BY DEF AnswersDue
  <2>1. r # q /\ query'[r] = query[r]
    BY <1>2
  <2>2. Due(query[r].key, s)
    BY <2>1 DEF Fresh, AnswersDue, HasAnswer
  <2>. QED BY <2>1, <2>2, <1>1 DEF Due, QueryLeaves
<1>5. ResponsesDue'
  <2>1. \A k : AboutToPut(k) => AboutToPut(k)'
    BY <1>1, <1>2 DEF AboutToPut, Putting
  <2>2. \A k \in Cached(cache)' : Linked(k)' => Linked(k)
    BY <1>1 DEF Linked
  <2>3. Cached(cache)' = Cached(cache)
    BY <1>1 DEF Cached
  <2>. QED BY <1>1, <2>1, <2>2, <2>3, StoredEntries, ResponsesStayDue DEF Fresh, QueryLeaves
<1>. QED BY <1>3, <1>4, <1>5 DEF Fresh

LEMMA RoomKeeps ==
  ASSUME Stored, Fresh, NEW q \in Queries,
         MakeRoom(q) \/ DropVictim(q) \/ UnlinkVictim(q)
  PROVE  Stored' /\ Fresh'
<1>1. QueryLeaves /\ UNCHANGED late
  BY DEF MakeRoom, DropVictim, UnlinkVictim, QueryFrame, QueryLeaves, pipelineVars
<1>2. HasAnswer(q) /\ query[q].pc \notin Putting
  BY DEF MakeRoom, DropVictim, UnlinkVictim, At, HasAnswer, Putting
<1>3. query[q] \in Answers /\ query[q].victim \in Keys /\ query[q].rest \subseteq AllInputs
  BY <1>2, AnswersOfQueries DEF Answers
<1>4. PICK pc \in Steps :
        /\ query' \in [Queries -> Locals]
        /\ \A r \in Queries : r # q => query'[r] = query[r]
        /\ query'[q].pc = pc /\ query'[q].key = query[q].key
        /\ query'[q].value = query[q].value /\ query'[q].passed = query[q].passed
  <2>1. ASSUME NEW p \in Steps, NEW rest \in SUBSET AllInputs, GoThrough(q, p, rest)
        PROVE  /\ query' \in [Queries -> Locals]
               /\ \A r \in Queries : r # q => query'[r] = query[r]
               /\ query'[q].pc = p /\ query'[q].key = query[q].key
               /\ query'[q].value = query[q].value /\ query'[q].passed = query[q].passed
    BY <2>1, <1>2, AnswerGoesOn
  <2>2. CASE \E p \in Steps : \E rest \in SUBSET AllInputs : GoThrough(q, p, rest)
    BY <2>1, <2>2
  <2>3. CASE \E k \in Cached(cache) : query' = [query EXCEPT ![q].pc = "drop", ![q].victim = k]
    <3>1. PICK k \in Keys : query' = [query EXCEPT ![q].pc = "drop", ![q].victim = k]
      BY <2>3, StoredEntries
    <3>2. PICK a \in Answers :
            /\ a.pc = "drop" /\ a.key = query[q].key
            /\ a.value = query[q].value /\ a.passed = query[q].passed
            /\ a = [query[q] EXCEPT !.pc = "drop", !.victim = k]
      BY <1>3 DEF Answers, Steps
    <3>3. query' = [query EXCEPT ![q] = a]
      BY <3>1, <3>2
    <3>4. "drop" \in Steps
      BY DEF Steps
    <3>. QED BY <3>2, <3>3, <3>4 DEF Stored, Locals
  <2>4. \/ \E p \in Steps : \E rest \in SUBSET AllInputs : GoThrough(q, p, rest)
        \/ \E k \in Cached(cache) : query' = [query EXCEPT ![q].pc = "drop", ![q].victim = k]
    <3>1. "link" \in Steps /\ "unlink" \in Steps
      BY DEF Steps
    <3>2. Inputs[query[q].key] \in SUBSET AllInputs /\ Inputs[query[q].victim] \in SUBSET AllInputs
      BY <1>3, SignalsOfAKey DEF Answers
    <3>3. \A i : query[q].rest \ {i} \in SUBSET AllInputs
      BY <1>3
    <3>. QED BY <3>1, <3>2, <3>3 DEF MakeRoom, DropVictim, UnlinkVictim, ToLink
  <2>. QED BY <2>2, <2>3, <2>4
<1>5. /\ cache' \in [entries : Responses, dependents : Links]
      /\ Cached(cache)' \subseteq Cached(cache)
      /\ \A k \in Cached(cache)' : cache'.entries[k] = cache.entries[k]
      /\ \A k \in Keys : Linked(k)' => Linked(k)
  <2>1. CASE MakeRoom(q)
    <3>1. cache' = cache
      BY <2>1 DEF MakeRoom
    <3>. QED BY <3>1 DEF Stored, Cached, Linked
  <2>2. CASE DropVictim(q)
    <3>1. cache' = RemoveEntry(cache, query[q].victim)
      BY <2>2 DEF DropVictim
    <3>. QED BY <3>1, <1>3, EntryGone DEF Linked
  <2>3. CASE UnlinkVictim(q)
    <3>1. PICK input \in AllInputs : cache' = UnlinkKey(cache, query[q].victim, input)
      BY <2>3, <1>3 DEF UnlinkVictim
    <3>2. /\ cache' \in [entries : Responses, dependents : Links]
          /\ cache'.entries = cache.entries
          /\ \A i \in AllInputs : cache'.dependents[i] \subseteq cache.dependents[i]
      BY <3>1, <1>3, KeyUnlinked
    <3>3. \A k \in Keys : Linked(k)' => Linked(k)
      BY <3>2, SignalsOfAKey DEF Linked
    <3>. QED BY <3>2, <3>3 DEF Cached
  <2>. QED BY <2>1, <2>2, <2>3
<1>6. \A k \in Keys : Linked(k)' => Linked(k) \/ (k = query[q].key /\ pc \in Putting)
  BY <1>5
<1>. QED BY <1>1, <1>2, <1>4, <1>5, <1>6, InsertionKeeps

LEMMA LinkKeeps ==
  ASSUME Stored, Fresh, NEW q \in Queries, Link(q)
  PROVE  Stored' /\ Fresh'
<1>1. /\ QueryLeaves /\ UNCHANGED late /\ HasAnswer(q) /\ query[q].pc = "link"
  BY DEF Link, QueryFrame, QueryLeaves, pipelineVars, At, HasAnswer
<1>2. /\ query[q] \in Answers /\ query[q].key \in Keys
      /\ query[q].rest \subseteq AllInputs
  BY <1>1, AnswersOfQueries DEF Answers
<1>3. PICK input \in AllInputs, pc \in Putting, rest \in SUBSET AllInputs :
        cache' = LinkKey(cache, query[q].key, input) /\ GoThrough(q, pc, rest)
  BY <1>2 DEF Link, Putting
<1>4. pc \in Steps
  BY DEF Putting, Steps
<1>5. /\ query' \in [Queries -> Locals]
      /\ \A r \in Queries : r # q => query'[r] = query[r]
      /\ query'[q].pc = pc /\ query'[q].key = query[q].key
      /\ query'[q].value = query[q].value /\ query'[q].passed = query[q].passed
  <2>1. HasAnswer(q) /\ GoThrough(q, pc, rest)
    BY <1>1, <1>3
  <2>. QED BY <1>4, <2>1, AnswerGoesOn
<1>. DEFINE links == [cache.dependents EXCEPT
                        ![input] = cache.dependents[input] \cup {query[q].key}]
<1>6. links \in Links
  BY <1>2, StoredEntries DEF Links
<1>7. cache' = [cache EXCEPT !.dependents = links]
  BY <1>3 DEF LinkKey
<1>8. \A i \in AllInputs : \A k : k \in links[i] => k \in cache.dependents[i] \/ k = query[q].key
  BY StoredEntries DEF Links
<1>. HIDE DEF links
<1>9. /\ cache' \in [entries : Responses, dependents : Links]
      /\ cache'.entries = cache.entries /\ cache'.dependents = links
  BY <1>6, <1>7 DEF Stored
<1>10. \A k \in Keys : Linked(k)' => Linked(k) \/ (k = query[q].key /\ pc \in Putting)
  BY <1>8, <1>9, SignalsOfAKey DEF Linked
<1>11. /\ Cached(cache)' \subseteq Cached(cache)
       /\ \A k \in Cached(cache)' : cache'.entries[k] = cache.entries[k]
  BY <1>9 DEF Cached
<1>. QED BY <1>1, <1>4, <1>5, <1>9, <1>10, <1>11, InsertionKeeps

LEMMA PutKeeps ==
  ASSUME Stored, Fresh, NEW q \in Queries, Put(q)
  PROVE  Stored' /\ Fresh'
<1>1. /\ QueryLeaves /\ HasAnswer(q) /\ query' = [query EXCEPT ![q] = Idle]
      /\ cache' = PutEntry(cache, query[q].key, query[q].value)
      /\ late' = IF query[q].passed THEN late \cup {query[q].key}
                 ELSE late \ {query[q].key}
  BY DEF Put, QueryFrame, QueryLeaves, pipelineVars, At, HasAnswer
<1>2. PICK key \in Keys, value \in SUBSET Signals :
        key = query[q].key /\ value = query[q].value /\ value \subseteq Reads[key]
  BY <1>1, AnswersOfQueries DEF Answers, Stored
<1>. DEFINE after == [x \in Cached(cache) \cup {key} |->
                        IF x = key THEN value ELSE cache.entries[x]]
<1>3. after \in Responses
  BY StoredEntries, EntriesAreResponses
<1>4. cache' = [cache EXCEPT !.entries = after]
  BY <1>1, <1>2 DEF PutEntry, Cached
<1>5. /\ DOMAIN after = Cached(cache) \cup {key} /\ after[key] = value
      /\ \A x \in Cached(cache) : x # key => after[x] = cache.entries[x]
  OBVIOUS
<1>. HIDE DEF after
<1>6. /\ cache' \in [entries : Responses, dependents : Links]
      /\ cache'.entries = after /\ cache'.dependents = cache.dependents
  BY <1>3, <1>4 DEF Stored
<1>7. Cached(cache)' = Cached(cache) \cup {key}
  BY <1>5, <1>6 DEF Cached
<1>8. /\ query' \in [Queries -> Locals] /\ ~HasAnswer(q)' /\ query'[q].pc \notin Putting
      /\ \A r \in Queries : r # q => query'[r] = query[r]
  BY <1>1 DEF Stored, Locals, HasAnswer, Putting, Idle
<1>9. Stored'
  <2>1. \A k \in Cached(cache)' : cache'.entries[k] \subseteq Reads[k]
    BY <1>2, <1>5, <1>6, <1>7 DEF Stored
  <2>. QED BY <1>1, <1>6, <1>8, <2>1 DEF Stored, QueryLeaves, HasAnswer
<1>10. \A k, s : Due(k, s) => Due(k, s)'
  BY <1>1 DEF Due, QueryLeaves
<1>11. AnswersDue'
  <2>. SUFFICES ASSUME NEW r \in Queries, HasAnswer(r)', ~query'[r].passed,
                       NEW s \in query'[r].value
                PROVE  Due(query[r].key, s)'
    BY DEF AnswersDue
  <2>1. r # q /\ query'[r] = query[r]
    BY <1>8
  <2>2. Due(query[r].key, s)
    BY <2>1 DEF Fresh, AnswersDue, HasAnswer
  <2>. QED BY <2>1, <2>2, <1>1 DEF Due, QueryLeaves
<1>12. ResponsesDue'
  <2>. SUFFICES ASSUME NEW k \in Cached(cache)' \ late', Linked(k)', ~AboutToPut(k)',
                       NEW s \in Outdated(k)'
                PROVE  Due(k, s)'
    BY DEF ResponsesDue
  <2>1. CASE k = key
    <3>1. ~query[q].passed
      BY <2>1, <1>1, <1>2
    <3>2. s \in value
      BY <2>1, <1>5, <1>6 DEF Outdated
    <3>3. Due(query[q].key, s)
      BY <3>1, <3>2, <1>1, <1>2 DEF Fresh, AnswersDue
    <3>. QED BY <3>3, <2>1, <1>2, <1>10
  <2>2. CASE k # key
    <3>1. k \in Cached(cache) \ late /\ s \in Outdated(k)
      BY <2>2, <1>1, <1>2, <1>5, <1>6, <1>7 DEF Outdated
    <3>2. Linked(k)
      BY <1>6 DEF Linked
    <3>3. ~AboutToPut(k)
      BY <2>2, <1>2, <1>8 DEF AboutToPut
    <3>. QED BY <3>1, <3>2, <3>3, <1>10 DEF Fresh, ResponsesDue
  <2>. QED BY <2>1, <2>2
<1>. QED BY <1>9, <1>11, <1>12 DEF Fresh

-----------------------------------------------------------------------------
(* The step, and the theorem                                               *)

LEMMA StepStaysFresh ==
  ASSUME Typed, Stored, Fresh, [Next]_vars
  PROVE  Stored' /\ Fresh'
<1>1. CASE SaveFile \/ SavePolicy
  <2>1. PICK f \in Signals : Save(f)
    BY <1>1 DEF SaveFile, SavePolicy, Signals
  <2>. QED BY <2>1, SaveStored, SaveFresh
<1>2. CASE Watch \/ Finished \/ UNCHANGED vars
  <2>1. UNCHANGED <<cache, query, todo, taken, unlinking, missed, late, owed, executing>>
    BY <1>2 DEF Watch, Finished, vars, responseVars, pipelineVars, MarkOverflow, Collect,
                CheckOverflow, Drain, Receive, FlushDue, Send
  <2>2. Stored'
    BY <2>1 DEF Stored, Cached, HasAnswer
  <2>3. AnswersDue'
    BY <2>1, AnswersStayDue DEF Fresh, HasAnswer
  <2>4. ResponsesDue'
    BY <2>1 DEF Fresh, ResponsesDue, Cached, Linked, AboutToPut, Outdated, Due
  <2>. QED BY <2>2, <2>3, <2>4 DEF Fresh
<1>3. CASE Dispatch
  BY <1>3, DispatchStored, DispatchFresh
<1>4. CASE Invalidate
  BY <1>4, InvalidateKeeps
<1>5. CASE Finish
  <2>1. UNCHANGED <<cache, query, todo, taken, unlinking, missed, late, owed>> /\ todo = {}
    BY <1>5 DEF Finish, Executed, responseVars
  <2>2. Stored'
    BY <2>1 DEF Stored, Cached, HasAnswer
  <2>3. AnswersDue'
    BY <2>1, AnswersStayDue DEF Fresh, HasAnswer
  <2>4. ResponsesDue'
    BY <2>1 DEF Fresh, ResponsesDue, Cached, Linked, AboutToPut, Outdated, Due
  <2>. QED BY <2>2, <2>3, <2>4 DEF Fresh
<1>6. CASE Query
  BY <1>6, MissKeeps, RoomKeeps, LinkKeeps, PutKeeps DEF Query, Insert
<1>. QED BY <1>1, <1>2, <1>3, <1>4, <1>5, <1>6 DEF Next

LEMMA InitIsFresh == ResponsesInit => Typed /\ Stored /\ Fresh
<1>. SUFFICES ASSUME ResponsesInit PROVE Typed /\ Stored /\ Fresh
  OBVIOUS
<1>1. Typed
  BY InitKeepsChanges DEF ResponsesInit
<1>2. /\ cache = EmptyCache(AllInputs) /\ query = [q \in Queries |-> Idle]
      /\ todo = {} /\ taken = {} /\ unlinking = {}
  BY DEF ResponsesInit
<1>3. /\ Cached(cache) = {} /\ cache.dependents = [i \in AllInputs |-> {}]
      /\ cache = [entries |-> cache.entries, dependents |-> cache.dependents]
      /\ cache.entries = [k \in {} |-> {}]
  BY <1>2 DEF EmptyCache, Cached
<1>4. cache.entries \in Responses
  <2>1. [k \in {} |-> {}] \in [{} -> SUBSET Signals]
    OBVIOUS
  <2>. QED BY <2>1, <1>3, EntriesAreResponses
<1>5. cache.dependents \in Links
  BY <1>3 DEF Links
<1>6. \A q \in Queries : ~HasAnswer(q) /\ query[q] \in Locals
  BY <1>2 DEF HasAnswer, Idle, Locals
<1>7. Stored
  BY <1>2, <1>3, <1>4, <1>5, <1>6 DEF Stored, Locals
<1>8. Fresh
  BY <1>3, <1>6 DEF Fresh, AnswersDue, ResponsesDue
<1>. QED BY <1>1, <1>7, <1>8

LEMMA FreshIsEnough ==
  ASSUME Stored, Fresh
  PROVE  ResponsesFresh
<1>. SUFFICES ASSUME Quiet, NEW k \in Cached(cache) \ late, Linked(k), NEW s \in Outdated(k)
              PROVE  s \in missed
  BY DEF ResponsesFresh
<1>1. owed = {} /\ todo = {} /\ ~AboutToPut(k)
  BY DEF Quiet, Stored, AboutToPut, Putting, At
<1>. QED BY <1>1 DEF Fresh, ResponsesDue, Due

LEMMA StepTyped == Typed /\ [PipelineNext]_pipelineVars => Typed'
<1>1. CASE PipelineNext
  BY <1>1, StepTypes DEF Typed
<1>2. CASE UNCHANGED pipelineVars
  BY <1>2 DEF pipelineVars, Typed, PipelineTypeOK, HasFlush
<1>. QED BY <1>1, <1>2

\* Whatever the files, keys, queries and bounds, and wherever the watcher, the
\* invalidations and the insertions interrupt each other: once every save has been
\* handled, a response that is linked and was not put late is out of date only
\* about what a full rebuild covered.
THEOREM LinkedResponsesAreFresh == Spec => []ResponsesFresh
<1>1. Typed /\ Stored /\ Fresh /\ [Next]_vars => (Typed /\ Stored /\ Fresh)'
  BY StepTyped, NextIsPipeline, StepStaysFresh
<1>. QED BY <1>1, InitIsFresh, FreshIsEnough, PTL DEF Spec
\* What the watcher's flushes and the queries put where they meet.
Bounded ==
  /\ todo \subseteq AllInputs
  /\ unlinking = {} \/ \E k \in Keys : unlinking \subseteq {k} \X Inputs[k]
  /\ asked \in 0 .. MaxQueries
  /\ missed \subseteq Signals /\ late \subseteq Keys

LEMMA StepStaysBounded ==
  ASSUME Typed, Stored, Bounded, [Next]_vars
  PROVE  Bounded'
<1>1. CASE UNCHANGED responseVars
  BY <1>1 DEF responseVars, Bounded
<1>2. ASSUME NEW s \in Signals, Save(s)
      PROVE  Bounded'
  BY <1>2 DEF Save, Bounded
<1>3. CASE Dispatch
  <2>1. Head(batches) \subseteq Signals /\ owed \subseteq Signals
    <3>1. batches # <<>> /\ batches \in Seq(Flushes) /\ owed \subseteq Signals
      BY <1>3 DEF Dispatch, Execute, Typed, PipelineTypeOK
    <3>2. Head(batches) \in Flushes
      BY <3>1
    <3>. QED BY <3>1, <3>2 DEF Flushes, Signals, Rebuild
  <2>2. InvalidatedBy(Head(batches)) \subseteq AllInputs
    BY <2>1 DEF InvalidatedBy, AllInputs, Signals
  <2>3. /\ todo' = InvalidatedBy(Head(batches))
        /\ missed' \subseteq missed \cup owed
        /\ UNCHANGED <<unlinking, asked, late>>
    BY <1>3 DEF Dispatch
  <2>. QED BY <2>1, <2>2, <2>3 DEF Bounded
<1>4. CASE Invalidate
  <2>1. /\ todo' \subseteq todo /\ UNCHANGED <<asked, missed, late>>
    BY <1>4 DEF Invalidate, TakeInput, DropTaken, UnlinkTaken
  <2>2. unlinking' = {} \/ \E k \in Keys : unlinking' \subseteq {k} \X Inputs[k]
    BY <1>4 DEF Invalidate, TakeInput, DropTaken, UnlinkTaken, Bounded
  <2>. QED BY <2>1, <2>2 DEF Bounded
<1>5. CASE Query
  <2>1. UNCHANGED <<todo, unlinking, missed>>
    BY <1>5 DEF Query, Insert, Miss, Compute, MakeRoom, DropVictim, UnlinkVictim, Link, Put,
                QueryFrame
  <2>2. asked' \in 0 .. MaxQueries
    <3>1. PICK q \in Queries : (\E k \in Keys : Miss(q, k)) \/ Compute(q) \/ Insert(q)
      BY <1>5 DEF Query
    <3>2. CASE \E k \in Keys : Miss(q, k)
      BY <3>2, ResponsesAssumption DEF Miss, Bounded
    <3>3. CASE Compute(q) \/ Insert(q)
      <4>1. asked' = asked
        BY <3>3 DEF Compute, Insert, MakeRoom, DropVictim, UnlinkVictim, Link, Put
      <4>. QED BY <4>1 DEF Bounded
    <3>. QED BY <3>1, <3>2, <3>3
  <2>3. late' \subseteq Keys
    <3>1. ASSUME NEW q \in Queries, Put(q)
          PROVE  late' \subseteq Keys
      <4>1. query[q].key \in Keys
        BY <3>1, AnswersOfQueries DEF Put, At, HasAnswer, Answers
      <4>. QED BY <3>1, <4>1 DEF Put, Bounded
    <3>2. CASE \A q \in Queries : ~Put(q)
      BY <1>5, <3>2 DEF Query, Insert, Miss, Compute, MakeRoom, DropVictim, UnlinkVictim,
                        Link, Bounded
    <3>. QED BY <3>1, <3>2
  <2>. QED BY <2>1, <2>2, <2>3 DEF Bounded
<1>6. CASE Finish \/ Finished \/ Watch
  BY <1>1, <1>6 DEF Finish, Finished, Watch, vars
<1>. QED
  BY <1>1, <1>2, <1>3, <1>4, <1>5, <1>6 DEF Next, SaveFile, SavePolicy, Signals, vars

LEMMA TypesOfResponses ==
  ASSUME Typed, Stored, Bounded
  PROVE  TypeOK
<1>1. \A q \in Queries : HasAnswer(q) => query[q] \in Answers
  BY AnswersOfQueries
<1>2. \A q \in Queries : ~At(q, "idle") => query[q].key \in Keys
  <2>1. \A q \in Queries : query[q] \in Locals
    BY DEF Stored
  <2>. QED BY <2>1 DEF Locals, Answers, Idle, At
<1>. QED
  BY <1>1, <1>2, StoredEntries DEF Stored, Bounded, Typed, TypeOK, Answers, Links

\* The responses' types, the watcher's included: an entry and an answer are out of
\* date only about what they were computed from, every link is a key's, and the
\* executor has dropped at most one entry that it has yet to unlink.
THEOREM ResponseTypes == Spec => []TypeOK
<1>1. Typed /\ Stored /\ Fresh /\ Bounded /\ [Next]_vars
        => (Typed /\ Stored /\ Fresh /\ Bounded)'
  BY StepTyped, StepStaysFresh, StepStaysBounded, NextIsPipeline
<1>2. ResponsesInit => Bounded
  BY ResponsesAssumption DEF ResponsesInit, Bounded
<1>. QED BY <1>1, <1>2, InitIsFresh, TypesOfResponses, PTL DEF Spec
=============================================================================
