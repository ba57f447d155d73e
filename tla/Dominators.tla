----------------------------- MODULE Dominators -----------------------------
(***************************************************************************)
(* The dominator tree and the dominance frontiers of a control flow graph  *)
(* (crates/tldr-core/src/ssa/dominators.rs): the Lengauer-Tarjan algorithm *)
(* on a forest that it compresses as it goes, the tree that is read off    *)
(* its result, the frontiers, and their closure.                           *)
(*                                                                         *)
(* A graph is a record: its number of blocks, and its edges in order.  The *)
(* blocks are 1 .. n in the order of cfg.blocks, the entry is block 1: the *)
(* extractor numbers them so (cfg/extractor.rs:250).                       *)
(***************************************************************************)
EXTENDS Integers, Sequences, FiniteSets, SequencesExt, FiniteSetsExt, Functions

NoBlock == 0
Entry == 1
Blocks(cfg) == 1 .. cfg.n

\* A table with one entry per block, as a sequence.
PerBlock(cfg, Of(_)) == <<>> \o [b \in Blocks(cfg) |-> Of(b)]
Fill(cfg, x) == PerBlock(cfg, LAMBDA b : x)

Succs(cfg, b) == LET out == SelectSeq(cfg.edges, LAMBDA e : e[1] = b)
                 IN  [i \in DOMAIN out |-> out[i][2]]
Preds(cfg, b) == LET into == SelectSeq(cfg.edges, LAMBDA e : e[2] = b)
                 IN  [i \in DOMAIN into |-> into[i][1]]

-----------------------------------------------------------------------------
(* Lengauer and Tarjan.  semi holds positions of vertex; ancestor is the   *)
(* forest, whose paths compress shortens.                                  *)

EmptyForest(cfg) ==
  [vertex |-> <<>>,
   parent |-> Fill(cfg, NoBlock),
   semi |-> Fill(cfg, cfg.n + 1),
   ancestor |-> Fill(cfg, NoBlock),
   label |-> PerBlock(cfg, LAMBDA b : b),
   bucket |-> Fill(cfg, <<>>),
   idom |-> Fill(cfg, NoBlock)]

(* The stack holds blocks to visit, each with the block that pushed it: a  *)
(* block pushed twice is visited from the last that did.                   *)
RECURSIVE Dfs(_, _, _)
Dfs(cfg, stack, lt) ==
  IF stack = <<>> THEN lt
  ELSE
    LET v == Last(stack)[1]
        seen == Append(lt.vertex, v)
        fresh == SelectSeq(Reverse(Succs(cfg, v)), LAMBDA w : w \notin Range(seen))
    IN  IF v \in Range(lt.vertex) THEN Dfs(cfg, Front(stack), lt)
        ELSE Dfs(cfg,
                 Front(stack) \o [i \in DOMAIN fresh |-> <<fresh[i], v>>],
                 [lt EXCEPT !.vertex = seen, !.semi[v] = Len(seen), !.parent[v] = Last(stack)[2]])

\* The blocks from v up to, and without, the child of the root of its tree.
RECURSIVE BelowRoot(_, _)
BelowRoot(lt, v) ==
  LET up == lt.ancestor[v]
  IN  IF up = NoBlock \/ lt.ancestor[up] = NoBlock THEN <<>>
      ELSE <<v>> \o BelowRoot(lt, up)

\* Mutation: the path gets shorter and the labels stay.
ShortenKeepsLabel(lt, v) ==
  LET up == lt.ancestor[v]
  IN  [lt EXCEPT !.ancestor[v] = IF lt.ancestor[up] # NoBlock THEN lt.ancestor[up] ELSE @]

(* One block of the path: it takes the label of its ancestor if that one   *)
(* is better, then its ancestor's ancestor.                                *)
Shorten(lt, v) ==
  LET up == lt.ancestor[v]
  IN  [lt EXCEPT
        !.label[v] = IF lt.semi[lt.label[up]] < lt.semi[@] THEN lt.label[up] ELSE @,
        !.ancestor[v] = IF lt.ancestor[up] # NoBlock THEN lt.ancestor[up] ELSE @]

\* From the top of the path to v, so that each ancestor is done before it is read.
Compress(lt, v) == FoldRight(LAMBDA node, s : Shorten(s, node), BelowRoot(lt, v), lt)

Eval(lt, v) ==
  IF lt.ancestor[v] = NoBlock THEN [lt |-> lt, best |-> v]
  ELSE LET s == Compress(lt, v) IN [lt |-> s, best |-> s.label[v]]

Semidominate(w, lt, v) ==
  LET e == Eval(lt, v)
  IN  IF e.lt.semi[e.best] < e.lt.semi[w] THEN [e.lt EXCEPT !.semi[w] = e.lt.semi[e.best]] ELSE e.lt

(* A block of the bucket: its dominator is p unless a block above it has a *)
(* better semidominator, whose own dominator it then shares.               *)
Settle(p, lt, v) ==
  LET e == Eval(lt, v)
  IN  [e.lt EXCEPT !.idom[v] = IF e.lt.semi[e.best] < e.lt.semi[v] THEN e.best ELSE p]

ProcessBlock(cfg, lt, w) ==
  LET p == lt.parent[w]
      known == SelectSeq(Preds(cfg, w), LAMBDA v : v \in Range(lt.vertex))
      s == FoldLeft(LAMBDA acc, v : Semidominate(w, acc, v), lt, known)
      linked == [s EXCEPT !.bucket[s.vertex[s.semi[w]]] = Append(@, w), !.ancestor[w] = p]
  IN  FoldLeft(LAMBDA acc, v : Settle(p, acc, v), [linked EXCEPT !.bucket[p] = <<>>], linked.bucket[p])

Finalize(lt, w) ==
  LET d == lt.idom[w]
  IN  IF d # lt.vertex[lt.semi[w]] /\ lt.idom[d] # NoBlock
      THEN [lt EXCEPT !.idom[w] = lt.idom[d]] ELSE lt

\* The blocks but the entry: from the last numbered to the first, then back.
FindDominators(cfg, numbered, others) ==
  FoldLeft(Finalize,
           FoldRight(LAMBDA w, lt : ProcessBlock(cfg, lt, w), others, numbered),
           others)

LengauerTarjan(cfg) ==
  LET numbered == Dfs(cfg, <<<<Entry, NoBlock>>>>, EmptyForest(cfg))
  IN  FindDominators(cfg, numbered, Tail(numbered.vertex))

-----------------------------------------------------------------------------
(* The tree: the reachable blocks, each with its immediate dominator, its  *)
(* depth, and its place in the two traversals.                             *)

RECURSIVE Traverse(_, _, _)
Traverse(children, stack, orders) ==
  IF stack = <<>> THEN orders
  ELSE
    LET b == Last(stack)[1]
        below == Reverse(children[b])
    IN  IF Last(stack)[2]
        THEN Traverse(children, Front(stack), [orders EXCEPT !.post = Append(@, b)])
        ELSE Traverse(children,
                      Append(Front(stack), <<b, TRUE>>) \o [i \in DOMAIN below |-> <<below[i], FALSE>>],
                      [orders EXCEPT !.pre = Append(@, b)])

TreeOf(cfg, lt) ==
  LET nodes == Range(lt.vertex)
      children == PerBlock(cfg, LAMBDA b : SetToSortSeq({c \in nodes : lt.idom[c] = b}, <))
      depth[b \in nodes] == IF lt.idom[b] = NoBlock THEN 0 ELSE 1 + depth[lt.idom[b]]
      orders == Traverse(children, <<<<Entry, FALSE>>>>, [pre |-> <<>>, post |-> <<>>])
  IN  [nodes |-> nodes, idom |-> lt.idom, children |-> children,
       depth |-> depth, preorder |-> orders.pre, postorder |-> orders.post]

BuildDominatorTree(cfg) == TreeOf(cfg, LengauerTarjan(cfg))

\* DominatorTree::dominates walks up the tree.
RECURSIVE Dominates(_, _, _)
Dominates(tree, a, b) ==
  \/ a = b
  \/ /\ b \in tree.nodes
     /\ tree.idom[b] # NoBlock
     /\ Dominates(tree, a, tree.idom[b])

-----------------------------------------------------------------------------
(* Frontiers.  From each predecessor of a join point the walk goes up the  *)
(* tree, to the join point's dominator or to the join point itself; the    *)
(* steps of all the walks together are limited.                            *)

RECURSIVE WalkUp(_, _, _, _)
\* Mutation: the join point's dominator does not end the walk.
WalkUpToEntry(tree, join, f, runner) ==
  LET g == [f EXCEPT !.steps = @ + 1, !.of[runner] = @ \cup {join}]
  IN  IF runner = join \/ tree.idom[runner] = NoBlock THEN g ELSE WalkUp(tree, join, g, tree.idom[runner])

WalkUp(tree, join, f, runner) ==
  LET steps == f.steps + 1
  IN  IF steps > Cardinality(tree.nodes) * Cardinality(tree.nodes)
      THEN [f EXCEPT !.refused = TRUE]
      ELSE IF runner = tree.idom[join] \/ runner = join
      THEN [f EXCEPT !.steps = steps]
      ELSE LET g == [f EXCEPT !.steps = steps, !.of[runner] = @ \cup {join}]
           IN  IF tree.idom[runner] = NoBlock THEN g ELSE WalkUp(tree, join, g, tree.idom[runner])

JoinPoint(cfg, tree, f, join) ==
  FoldLeft(LAMBDA g, pred : IF g.refused THEN g ELSE WalkUp(tree, join, g, pred), f,
           SelectSeq(Preds(cfg, join), LAMBDA p : p \in tree.nodes))

ComputeDominanceFrontier(cfg, tree) ==
  FoldLeft(LAMBDA f, join : JoinPoint(cfg, tree, f, join),
           [of |-> Fill(cfg, {}), steps |-> 0, refused |-> FALSE],
           SetToSortSeq({b \in Blocks(cfg) : Len(Preds(cfg, b)) >= 2}, <))

(* The closure: a work list, whose order the code leaves to a hash set and *)
(* the result does not depend on.                                          *)
RECURSIVE Closure(_, _, _, _)
Closure(frontier, work, processed, idf) ==
  IF work = {} THEN idf
  ELSE
    LET b == CHOOSE x \in work : TRUE
        done == processed \cup {b}
        fresh == frontier[b] \ idf
    IN  IF b \in processed THEN Closure(frontier, work \ {b}, processed, idf)
        ELSE Closure(frontier, (work \ {b}) \cup (fresh \ done), done, idf \cup fresh)

\* Mutation: the frontiers of the blocks, not closed.
ComputeIteratedDfOnce(frontier, blocks) == UNION {frontier[b] : b \in blocks}

ComputeIteratedDf(frontier, blocks) == Closure(frontier, blocks, {}, {})
=============================================================================
