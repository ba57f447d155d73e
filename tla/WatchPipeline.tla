--------------------------- MODULE WatchPipeline ---------------------------
(***************************************************************************)
(* The filesystem watcher's pipeline (tldr-cli, daemon/watcher.rs).        *)
(*                                                                         *)
(* notify's callback thread offers a signal per accepted path to a bounded *)
(* channel and never blocks: when the channel is full it sets a flag.  The *)
(* collector turns signals into flushes, a delta when the window of the    *)
(* first event is over or a full rebuild when a burst passes a cap, and    *)
(* sends them to a bounded queue.  The executor hands them to the daemon   *)
(* one at a time.                                                          *)
(*                                                                         *)
(* Signals are the files, and FullRebuild for an edited ignore policy.  A  *)
(* flush is the set of the files of a delta, or {FullRebuild}.  `owed' is  *)
(* no state of the code: it holds what was reported and that no flush      *)
(* whose execution began later has covered.                                *)
(***************************************************************************)
EXTENDS Naturals, FiniteSets, Sequences

CONSTANTS Files,        \* accepted paths
          FullRebuild,  \* WatchSignal::FullRebuild; alone, Flush::FullRebuild
          FileCap,      \* burst_file_cap
          EventCap,     \* burst_event_cap
          QueueCap,     \* COMPLETED_BATCH_QUEUE_CAP
          SlowCallback, \* may a window end while a full callback has yet to set the flag?
          MaxEvents     \* bound: events the watcher reports

ASSUME PipelineAssumption ==
  /\ IsFiniteSet(Files)
  /\ FullRebuild \notin Files
  /\ FileCap \in Nat /\ EventCap \in Nat
  /\ QueueCap \in Nat \ {0}
  /\ SlowCallback \in BOOLEAN
  /\ MaxEvents \in Nat

VARIABLES channel, overflowed, \* WatchSignal channel and its overflow flag
          callback,            \* "full" between a refused try_send and the store
          pending, accepted,   \* WatchPipeline: paths; events within burst_window
          collector, sending,  \* the collector's program counter; the flush it sends
          batches,             \* Flush channel
          executing,           \* the flush in dispatch_flush, {} if none
          owed, events

pipelineVars == <<channel, overflowed, callback, pending, accepted,
                  collector, sending, batches, executing, owed, events>>

Signals == Files \cup {FullRebuild}
Rebuild == {FullRebuild}
Flushes == ((SUBSET Files) \ {{}}) \cup {Rebuild}
ChannelCap == EventCap + 1

Elements(s) == {s[i] : i \in DOMAIN s}

Init ==
  /\ channel = <<>> /\ overflowed = FALSE /\ callback = "idle"
  /\ pending = {} /\ accepted = 0
  /\ collector = "check" /\ sending = {}
  /\ batches = <<>> /\ executing = {}
  /\ owed = {} /\ events = 0

-----------------------------------------------------------------------------
(* The callback of notify                                                  *)

\* Mutation: the event that finds the channel full is dropped.
EnqueueDrops(s) ==
  /\ IF Len(channel) < ChannelCap
     THEN channel' = Append(channel, s)
     ELSE UNCHANGED channel
  /\ UNCHANGED callback

\* WatchHandler::enqueue, up to the store of the flag.
Enqueue(s) ==
  IF Len(channel) < ChannelCap
  THEN channel' = Append(channel, s) /\ UNCHANGED callback
  ELSE callback' = "full" /\ UNCHANGED channel

Report(s) ==
  /\ callback = "idle" /\ events < MaxEvents
  /\ Enqueue(s)
  /\ owed' = owed \cup {s}
  /\ events' = events + 1
  /\ UNCHANGED <<overflowed, pending, accepted, collector, sending, batches, executing>>

\* WatchHandler::handle_event for one accepted path.
FileEvent == \E f \in Files : Report(f)

\* WatchHandler::handle_event for an ignore policy file, whatever else it names.
PolicyEvent == Report(FullRebuild)

MarkOverflow ==
  /\ callback = "full"
  /\ overflowed' = TRUE
  /\ callback' = "idle"
  /\ UNCHANGED <<channel, pending, accepted, collector, sending, batches,
                 executing, owed, events>>

-----------------------------------------------------------------------------
(* The collector: run_pipeline_worker                                      *)

CheckOverflow ==
  /\ collector = "check"
  /\ overflowed' = FALSE
  /\ collector' = IF overflowed THEN "drain" ELSE "wait"
  /\ UNCHANGED <<channel, callback, pending, accepted, sending, batches,
                 executing, owed, events>>

\* drain_receiver and reset_all; the full rebuild they make way for is next.
Drain ==
  /\ collector = "drain"
  /\ channel' = <<>> /\ pending' = {} /\ accepted' = 0
  /\ sending' = Rebuild
  /\ collector' = "send"
  /\ UNCHANGED <<overflowed, callback, batches, executing, owed, events>>

\* WatchPipeline::accept: some of the earlier events have left the window.
Accept(f) ==
  \E kept \in 0 .. accepted :
    LET burst == \/ Cardinality(pending \cup {f}) > FileCap
                 \/ kept + 1 > EventCap
    IN /\ pending' = IF burst THEN {} ELSE pending \cup {f}
       /\ accepted' = IF burst THEN 0 ELSE kept + 1
       /\ collector' = IF burst THEN "drain" ELSE "check"

\* rx.recv, then accept_signal up to its drain_receiver.
Receive ==
  /\ collector = "wait" /\ channel # <<>>
  /\ channel' = Tail(channel)
  /\ \/ /\ Head(channel) = FullRebuild
        /\ collector' = "drain"
        /\ UNCHANGED <<pending, accepted>>
     \/ /\ Head(channel) # FullRebuild
        /\ Accept(Head(channel))
  /\ UNCHANGED <<overflowed, callback, sending, batches, executing, owed, events>>

\* sleep_until the deadline of the first event, then WatchPipeline::flush_due.
FlushDue ==
  /\ collector = "wait" /\ pending # {}
  /\ callback = "idle" \/ SlowCallback
  /\ sending' = pending
  /\ pending' = {}
  /\ collector' = "send"
  /\ UNCHANGED <<channel, overflowed, callback, accepted, batches, executing,
                 owed, events>>

\* Mutation: a collector that does not wait for room in the queue.
SendTries ==
  /\ collector = "send"
  /\ batches' = IF Len(batches) < QueueCap THEN Append(batches, sending) ELSE batches
  /\ sending' = {}
  /\ collector' = "check"
  /\ UNCHANGED <<channel, overflowed, callback, pending, accepted, executing,
                 owed, events>>

Send ==
  /\ collector = "send" /\ Len(batches) < QueueCap
  /\ batches' = Append(batches, sending)
  /\ sending' = {}
  /\ collector' = "check"
  /\ UNCHANGED <<channel, overflowed, callback, pending, accepted, executing,
                 owed, events>>

-----------------------------------------------------------------------------
(* The executor: drain_batches_serially and dispatch_flush                 *)

Covers(flush, s) == s \in flush \/ FullRebuild \in flush

Execute ==
  /\ executing = {} /\ batches # <<>>
  /\ executing' = Head(batches)
  /\ batches' = Tail(batches)
  /\ owed' = {s \in owed : ~Covers(Head(batches), s)}
  /\ UNCHANGED <<channel, overflowed, callback, pending, accepted, collector,
                 sending, events>>

Executed ==
  /\ executing # {}
  /\ executing' = {}
  /\ UNCHANGED <<channel, overflowed, callback, pending, accepted, collector,
                 sending, batches, owed, events>>

Collect == CheckOverflow \/ Drain \/ Receive \/ FlushDue \/ Send

PipelineNext ==
  FileEvent \/ PolicyEvent \/ MarkOverflow \/ Collect \/ Execute \/ Executed

PipelineSpec ==
  /\ Init /\ [][PipelineNext]_pipelineVars
  /\ WF_pipelineVars(MarkOverflow) /\ WF_pipelineVars(Collect)
  /\ WF_pipelineVars(Execute \/ Executed)

-----------------------------------------------------------------------------
PipelineTypeOK ==
  /\ channel \in Seq(Signals) /\ Len(channel) <= ChannelCap
  /\ overflowed \in BOOLEAN
  /\ callback \in {"idle", "full"}
  /\ pending \in SUBSET Files /\ accepted \in 0 .. EventCap
  /\ collector \in {"check", "wait", "drain", "send"}
  /\ sending \in Flushes \cup {{}}
  /\ batches \in Seq(Flushes) /\ Len(batches) <= QueueCap
  /\ executing \in Flushes \cup {{}}
  /\ owed \in SUBSET Signals
  /\ events \in 0 .. MaxEvents

(* Where a reported change can be on its way to a flush.  A flag that is   *)
(* set, or about to be, helps only if something will make the collector    *)
(* look at it.                                                             *)
InHand(s) ==
  \/ s \in Elements(channel) \/ FullRebuild \in Elements(channel)
  \/ s \in pending
  \/ collector = "drain"
  \/ collector = "send" /\ Covers(sending, s)
  \/ \E flush \in Elements(batches) : Covers(flush, s)

Flagged ==
  \/ overflowed /\ collector # "wait"
  \/ (overflowed \/ callback = "full") /\ (channel # <<>> \/ pending # {})

(* No reported change is lost between the callback and a flush, whatever   *)
(* the channel refuses, whichever cap a burst passes and however long the  *)
(* queue is full; in particular the collector never sleeps beside an       *)
(* overflow flag that alone stands for a dropped event (watcher.rs:242-252 *)
(* against 433-470).                                                       *)
NoChangeLost == \A s \in owed : InHand(s) \/ Flagged

(* Once files are no longer saved, which MaxEvents makes true of every     *)
(* behaviour, each change has been in a flush the daemon began to apply    *)
(* after it, and none comes back (watcher.rs:433-520).                     *)
ChangesApplied == <>[](owed = {})
=============================================================================
