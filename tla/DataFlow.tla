------------------------------ MODULE DataFlow ------------------------------
(***************************************************************************)
(* The two data-flow analyses the SSA form and the def-use chains rest on: *)
(* live variables (crates/tldr-core/src/ssa/analysis.rs) and reaching      *)
(* definitions (crates/tldr-core/src/dfg/reaching.rs).  Both go round the  *)
(* blocks until nothing changes or a limit of rounds is reached.           *)
(*                                                                         *)
(* A program is a graph (see Dominators), the lines of each block, which   *)
(* may overlap, and the references to variables in order.  A definition is *)
(* known by its index in the references.                                   *)
(***************************************************************************)
EXTENDS Dominators

Names(prog) == {r.name : r \in Range(prog.refs)}
Lines(prog) == UNION {prog.lines[b][1] .. prog.lines[b][2] : b \in Blocks(prog)}
Covers(prog, b, line) == prog.lines[b][1] <= line /\ line <= prog.lines[b][2]
Defines(ref) == ref.kind \in {"Definition", "Update"}
Definitions(prog) == {i \in DOMAIN prog.refs : Defines(prog.refs[i])}

-----------------------------------------------------------------------------
(* Live variables.  A line belongs to the last block that covers it; a     *)
(* reference on no block's line is ignored.                                *)

LineToBlock(prog, line) == Max({b \in Blocks(prog) : Covers(prog, b, line)} \cup {NoBlock})

\* The references of a block by line; on one line they keep their order.
RefsOf(prog, b) ==
  FoldLeft(LAMBDA refs, line : refs \o SelectSeq(prog.refs, LAMBDA r : r.line = line),
           <<>>, SetToSortSeq({line \in Lines(prog) : LineToBlock(prog, line) = b}, <))

\* What the block uses before it defines it, and what it defines.
UseAndDef(prog, b) ==
  FoldLeft(LAMBDA s, r :
             [use |-> IF r.kind \in {"Use", "Update"} /\ r.name \notin s.def
                      THEN s.use \cup {r.name} ELSE s.use,
              def |-> IF Defines(r) THEN s.def \cup {r.name} ELSE s.def],
           [use |-> {}, def |-> {}], RefsOf(prog, b))

LiveBlock(prog, local, live, b) ==
  LET out == UNION {live[s].in : s \in Range(Succs(prog, b))}
  IN  [live EXCEPT ![b] = [in |-> local[b].use \cup (out \ local[b].def), out |-> out]]

\* The rounds take the blocks from the last to the first.
RECURSIVE LiveRounds(_, _, _, _)
LiveRounds(prog, local, live, rounds) ==
  LET next == FoldRight(LAMBDA b, l : LiveBlock(prog, local, l, b), [i \in Blocks(prog) |-> i], live)
  IN  IF rounds = 0 \/ next = live THEN live
      ELSE LiveRounds(prog, local, next, rounds - 1)

\* Mutation: one round, as if no edge led back.
ComputeLiveVariablesOnce(prog) ==
  LiveRounds(prog, PerBlock(prog, LAMBDA b : UseAndDef(prog, b)),
             Fill(prog, [in |-> {}, out |-> {}]), 1)

ComputeLiveVariables(prog) ==
  LiveRounds(prog, PerBlock(prog, LAMBDA b : UseAndDef(prog, b)),
             Fill(prog, [in |-> {}, out |-> {}]), 2 * prog.n + 10)

-----------------------------------------------------------------------------
(* Reaching definitions.  A definition belongs to the largest block that   *)
(* covers its line, of those to the last, and to the first block when none *)
(* does.                                                                   *)

Size(prog, b) == prog.lines[b][2] - prog.lines[b][1]

DefToBlock(prog, d) ==
  LET covering == {b \in Blocks(prog) : Covers(prog, b, prog.refs[d].line)}
      largest == {b \in covering : \A c \in covering : Size(prog, c) <= Size(prog, b)}
  IN  IF covering = {} THEN Entry ELSE Max(largest)

\* Mutation: a block kills only its own definitions.
GenAndKillOwn(prog, b) ==
  LET own == {d \in Definitions(prog) : DefToBlock(prog, d) = b}
      last == {d \in own : \A e \in own : prog.refs[e].name = prog.refs[d].name => e <= d}
  IN  [gen |-> last, kill |-> own \ last]

GenAndKill(prog, b) ==
  LET own == {d \in Definitions(prog) : DefToBlock(prog, d) = b}
      named(d) == prog.refs[d].name
      last == {d \in own : \A e \in own : named(e) = named(d) => e <= d}
  IN  [gen |-> last,
       kill |-> (own \ last) \cup
                {d \in Definitions(prog) \ own : \E e \in last : named(e) = named(d)}]

ReachBlock(prog, local, reach, b) ==
  LET in == UNION {reach[p].out : p \in Range(Preds(prog, b))}
  IN  [reach EXCEPT ![b] = [in |-> in, out |-> local[b].gen \cup (in \ local[b].kill)]]

MaxIterations == 100

\* The rounds take the blocks in order.
RECURSIVE ReachRounds(_, _, _, _)
ReachRounds(prog, local, reach, rounds) ==
  LET next == FoldLeft(LAMBDA r, b : ReachBlock(prog, local, r, b), reach, [i \in Blocks(prog) |-> i])
  IN  IF rounds = 0 \/ next = reach THEN reach
      ELSE ReachRounds(prog, local, next, rounds - 1)

ComputeReachingDefinitions(prog) ==
  LET local == PerBlock(prog, LAMBDA b : GenAndKill(prog, b))
  IN  ReachRounds(prog, local, PerBlock(prog, LAMBDA b : [in |-> {}, out |-> local[b].gen]), MaxIterations)
=============================================================================
