--------------------------- MODULE SsaConstruction ---------------------------
(***************************************************************************)
(* The static single assignment form of a function                         *)
(* (crates/tldr-core/src/ssa/construct.rs): where phi functions go, the    *)
(* renaming walk down the dominator tree with its stack of versions, and   *)
(* the sources of the phi functions.                                       *)
(*                                                                         *)
(* The form is a translation, so it is checked as one: once a program is   *)
(* analysed, its control flow is walked, edge by edge, with the source     *)
(* program and its SSA form executed side by side.  value holds, for each  *)
(* variable of the source, the definition that gave it its value; named    *)
(* holds the same for each SSA name.                                       *)
(***************************************************************************)
EXTENDS DataFlow

CONSTANTS
  Programs,   \* the programs to analyse
  Forms,      \* the SSA forms to build, of "Minimal", "SemiPruned" and "Pruned"
  None

VARIABLES
  program, form,
  analysis,   \* what the analyses found, None before they run
  block,      \* where the execution is, NoBlock before it starts
  value,      \* source variable -> the definition it holds
  named,      \* SSA name -> the definition it holds
  reads       \* per instruction of the block: what the source reads, what the SSA form reads

vars == <<program, form, analysis, block, value, named, reads>>

NoDef == 0

\* A name is a variable and its version, UndefinedName stands for SsaNameId(0).
UndefinedName == <<"undefined", 0>>

-----------------------------------------------------------------------------
(* Phi functions. *)

\* A definition on no block's line belongs to the entry.
DefBlock(prog, d) ==
  LET b == LineToBlock(prog, prog.refs[d].line) IN IF b = NoBlock THEN Entry ELSE b

DefinitionBlocks(prog, v) ==
  {DefBlock(prog, d) : d \in {e \in Definitions(prog) : prog.refs[e].name = v}}

\* The variables referred to in more than one block; lines of no block do not count.
NonLocalVariables(prog) ==
  {v \in Names(prog) :
     Cardinality({LineToBlock(prog, r.line) : r \in {s \in Range(prog.refs) : s.name = v}} \ {NoBlock}) > 1}

\* Where a variable's definitions meet, if the form wants a phi function there.
PlacePhiFunctions(prog, frontier, live, kind) ==
  LET wanted(v, b) ==
        CASE kind = "Minimal" -> TRUE
          [] kind = "SemiPruned" -> v \in NonLocalVariables(prog)
          [] kind = "Pruned" -> v \in live[b].in
      places == {<<b, v>> \in Blocks(prog) \X Names(prog) : wanted(v, b)}
      meets == UNION {ComputeIteratedDf(frontier, DefinitionBlocks(prog, v)) \X {v} : v \in Names(prog)}
  IN  PerBlock(prog, LAMBDA b : {v \in Names(prog) : <<b, v>> \in places \cap meets})

-----------------------------------------------------------------------------
(* Renaming.  stacks: variable -> the versions in scope, the current one   *)
(* last; counters: variable -> the versions made.                          *)

Current(s, v) == IF s.stacks[v] = <<>> THEN UndefinedName ELSE Last(s.stacks[v])

NewName(s, v) ==
  [s EXCEPT !.counters[v] = @ + 1, !.stacks[v] = Append(@, <<v, s.counters[v] + 1>>)]

\* The current names of the other variables used on the line.
ResolveUsesOnLine(prog, s, line, v, b) ==
  IF LineToBlock(prog, line) # b THEN {}
  ELSE {Current(s, r.name) : r \in {u \in Range(prog.refs) :
                                      u.line = line /\ u.name # v /\ u.kind = "Use"}}
       \ {UndefinedName}

Instruction(prog, b, s, d) ==
  LET ref == prog.refs[d]
      others == ResolveUsesOnLine(prog, s, ref.line, ref.name, b)
      own == IF ref.kind = "Update" THEN {Current(s, ref.name)} \ {UndefinedName} ELSE {}
      t == NewName(s, ref.name)
  IN  [t EXCEPT !.instructions[b] =
         Append(@, [target |-> Current(t, ref.name), uses |-> others \cup own, def |-> d])]

\* The definitions a block executes, by line, on one line in order.
DefinitionsOf(prog, b) ==
  SortSeq(SetToSortSeq({d \in Definitions(prog) : DefBlock(prog, d) = b}, <),
          LAMBDA d, e : prog.refs[d].line < prog.refs[e].line \/ (prog.refs[d].line = prog.refs[e].line /\ d < e))

\* The variables whose versions the block may push, and so pops.
Touched(prog, b, phis) ==
  phis[b] \cup {prog.refs[d].name : d \in Range(DefinitionsOf(prog, b))}

(* One block: names for its phi functions, then its instructions, then the *)
(* versions it leaves with are kept; the blocks it dominates follow; and   *)
(* its own versions are popped.                                            *)
RECURSIVE RenameVariables(_, _, _, _, _)
RenameVariables(prog, tree, phis, s, b) ==
  LET phied == FoldSet(LAMBDA v, t : NewName(t, v), s, phis[b])
      filled == FoldLeft(LAMBDA t, d : Instruction(prog, b, t, d), phied, DefinitionsOf(prog, b))
      left == [filled EXCEPT !.exits[b] = filled.stacks,
                             !.targets[b] = [v \in phis[b] |-> Current(phied, v)]]
      done == FoldLeft(LAMBDA t, c : RenameVariables(prog, tree, phis, t, c), left, tree.children[b])
  IN  FoldSet(LAMBDA v, t : [t EXCEPT !.stacks[v] = SubSeq(@, 1, Len(s.stacks[v]))],
              done, Touched(prog, b, phis))

NoVersions(prog) == [v \in Names(prog) |-> <<>>]

ConstructSsa(prog, tree, frontier, live, kind) ==
  LET phis == PlacePhiFunctions(prog, frontier, live, kind)
      start == [stacks |-> NoVersions(prog), counters |-> [v \in Names(prog) |-> 0],
                exits |-> Fill(prog, NoVersions(prog)), targets |-> Fill(prog, <<>>),
                instructions |-> Fill(prog, <<>>)]
      renamed == RenameVariables(prog, tree, phis, start, Entry)
  IN  [phis |-> phis, targets |-> renamed.targets, exits |-> renamed.exits,
       instructions |-> renamed.instructions]

\* The source of a phi function for an edge from p: the version p left with.
PhiSource(ssa, v, p) == Current([stacks |-> ssa.exits[p]], v)

-----------------------------------------------------------------------------
(* The two programs, side by side. *)

Holds(names, n) == IF n \in DOMAIN names THEN names[n] ELSE NoDef

\* Entering b from p: every phi function takes the name of that edge, all at once.
AfterPhis(ssa, names, p, b) ==
  LET taken == {<<ssa.targets[b][v], Holds(names, PhiSource(ssa, v, p))>> : v \in ssa.phis[b]}
      new == {t[1] : t \in taken}
  IN  [n \in DOMAIN names \cup new |->
         IF n \in new THEN (CHOOSE t \in taken : t[1] = n)[2] ELSE names[n]]

(* One instruction: the source reads the variables of its line, the SSA    *)
(* form the names recorded; both then define.                              *)
Execute(prog, b, s, instr) ==
  LET ref == prog.refs[instr.def]
      onLine == {r \in Range(prog.refs) : r.line = ref.line /\ LineToBlock(prog, ref.line) = b /\ r.kind = "Use"}
      read == {r.name : r \in onLine} \cup (IF ref.kind = "Update" THEN {ref.name} ELSE {})
  IN  [value |-> [s.value EXCEPT ![ref.name] = instr.def],
       named |-> [n \in DOMAIN s.named \cup {instr.target} |->
                    IF n = instr.target THEN instr.def ELSE s.named[n]],
       reads |-> Append(s.reads, [source |-> {s.value[v] : v \in read} \ {NoDef},
                                  ssa |-> {Holds(s.named, n) : n \in instr.uses} \ {NoDef}])]

Run(b, values, names) ==
  FoldLeft(LAMBDA s, instr : Execute(program, b, s, instr),
           [value |-> values, named |-> names, reads |-> <<>>], analysis.ssa.instructions[b])

-----------------------------------------------------------------------------
Init ==
  /\ program \in Programs
  /\ form \in Forms
  /\ analysis = None
  /\ block = NoBlock
  /\ value = [v \in Names(program) |-> NoDef]
  /\ named = <<>>
  /\ reads = <<>>

(* construct_ssa: the tree, the frontiers, live variables, which only the  *)
(* pruned form looks at, then the form; an error of the frontiers is an    *)
(* error of the whole.  Reaching definitions are asked for on their own,   *)
(* of the same program.                                                    *)
Analysed(prog, kind, tree, frontier, live) ==
  [tree |-> tree, frontier |-> frontier, live |-> live,
   reach |-> ComputeReachingDefinitions(prog),
   ssa |-> IF frontier.refused THEN None ELSE ConstructSsa(prog, tree, frontier.of, live, kind)]

Analyse ==
  /\ analysis = None
  /\ \E tree \in {BuildDominatorTree(program)} :
       analysis' = Analysed(program, form, tree, ComputeDominanceFrontier(program, tree),
                            ComputeLiveVariables(program))
  /\ UNCHANGED <<program, form, block, value, named, reads>>

Enter(b, names) ==
  LET s == Run(b, value, names)
  IN  /\ block' = b
      /\ value' = s.value
      /\ named' = s.named
      /\ reads' = s.reads
      /\ UNCHANGED <<program, form, analysis>>

Start ==
  /\ analysis # None
  /\ analysis.ssa # None
  /\ block = NoBlock
  /\ Enter(Entry, named)

Follow(b) ==
  /\ block # NoBlock
  /\ b \in Range(Succs(program, block))
  /\ Enter(b, AfterPhis(analysis.ssa, named, block, b))

Next == Analyse \/ Start \/ \E b \in 1 .. program.n : Follow(b)

Spec == Init /\ [][Next]_vars

-----------------------------------------------------------------------------
(* What the analyses must find, said of the paths of the graph. *)

Fresh == analysis # None /\ block = NoBlock

\* The blocks reachable from those of S along edges that stay in allowed.
RECURSIVE Reach(_, _)
Reach(S, allowed) ==
  LET more == S \cup {b \in allowed : \E a \in S : b \in Range(Succs(program, a))}
  IN  IF more = S THEN S ELSE Reach(more, allowed)

ReachableBlocks == Reach({Entry}, Blocks(program))

\* Every path from the entry to b goes through a.
Dominator(a, b) == a = b \/ b \notin Reach({Entry} \ {a}, Blocks(program) \ {a})
StrictDominator(a, b) == a # b /\ Dominator(a, b)

Position(s, x) == CHOOSE i \in DOMAIN s : s[i] = x

(* build_dominator_tree: the tree holds the blocks the entry reaches; its  *)
(* ancestors of a block are the blocks on all of its paths, its depth      *)
(* their number; and one block dominates another exactly when it comes     *)
(* before it in preorder and after it in postorder.                        *)
DominatorsExact ==
  Fresh =>
    LET tree == analysis.tree
    IN  /\ tree.nodes = ReachableBlocks
        /\ \A a, b \in tree.nodes : Dominates(tree, a, b) <=> Dominator(a, b)
        /\ \A b \in tree.nodes : tree.depth[b] = Cardinality({a \in tree.nodes : StrictDominator(a, b)})
        /\ \A a, b \in tree.nodes :
             Dominator(a, b) <=>
               /\ Position(tree.preorder, a) <= Position(tree.preorder, b)
               /\ Position(tree.postorder, b) <= Position(tree.postorder, a)

\* "DF(b) = {y | b dominates a predecessor of y, but b does not strictly dominate
\* y}": the header of a loop is in its own.
Frontier(b) ==
  {y \in ReachableBlocks : /\ ~StrictDominator(b, y)
                           /\ \E p \in Range(Preds(program, y)) \cap ReachableBlocks : Dominator(b, p)}

(* compute_dominance_frontier: on a tree that is right the walks are never *)
(* refused, and whether a block is in the frontier of another is what the  *)
(* definition says.  Of a block and itself, see FrontierAsDocumented.      *)
FrontierExact ==
  Fresh =>
    /\ ~analysis.frontier.refused
    /\ \A b, y \in ReachableBlocks :
         b # y => (y \in analysis.frontier.of[b] <=> y \in Frontier(b))

(* compute_dominance_frontier as its comment defines it, of every block    *)
(* and every block.  The walk up from a back edge stops at the header      *)
(* before it adds it, so that this fails on the smallest loop.             *)
FrontierAsDocumented ==
  Fresh => \A b \in ReachableBlocks : analysis.frontier.of[b] = Frontier(b)

(* compute_live_variables: a variable is live where some path leads to a   *)
(* use of it with no definition before the use.                            *)
LiveExact ==
  Fresh =>
    \A v \in Names(program), b \in Blocks(program) :
      LET on(c) == {r \in Range(program.refs) : r.name = v /\ LineToBlock(program, r.line) = c}
          uses(c) == {r.line : r \in {s \in on(c) : s.kind # "Definition"}}
          defs(c) == {r.line : r \in {s \in on(c) : Defines(s)}}
          exposed == {c \in Blocks(program) : \E u \in uses(c) : \A d \in defs(c) : u <= d}
          clear == {c \in Blocks(program) : defs(c) = {}}
          \* the blocks entered from b's entry with v as it was there
          kept == {b} \cup {c \in Blocks(program) :
                              \E a \in Reach({b} \cap clear, clear) : c \in Range(Succs(program, a))}
          live(c) == \E x \in exposed : x \in kept
      IN  v \in analysis.live[b].in <=> live(b)

(* compute_reaching_definitions: a definition reaches a block where some   *)
(* path leads from it to the block with no other definition of the         *)
(* variable.                                                               *)
ReachingExact ==
  Fresh =>
    \A d \in Definitions(program), b \in Blocks(program) :
      LET at(e) == DefToBlock(program, e)
          same == {e \in Definitions(program) : program.refs[e].name = program.refs[d].name}
          clear == {c \in Blocks(program) : \A e \in same : at(e) # c}
          survives == \A e \in same : at(e) = at(d) => e <= d
          after == Range(Succs(program, at(d)))
          entered == after \cup {c \in Blocks(program) :
                                   \E a \in Reach(after \cap clear, clear) : c \in Range(Succs(program, a))}
      IN  d \in analysis.reach[b].in <=> survives /\ b \in entered

(* On every path the function can take, each instruction of the SSA form   *)
(* reads the values the source reads: a phi function stands wherever two   *)
(* definitions meet and a use follows, and takes from each edge the        *)
(* version that edge left with.                                            *)
SsaFaithful == \A i \in DOMAIN reads : reads[i].ssa = reads[i].source
=============================================================================
