---------------------------- MODULE GraphSnapshot ----------------------------
(***************************************************************************)
(* The resident call graph of a generation and its queries (tldr-core      *)
(* artifact_store/graph_snapshot.rs).                                      *)
(*                                                                         *)
(* The graph is built from the definitions of the files and from resolved  *)
(* edges, whose ends are a file and a name.  Nodes are numbered in the     *)
(* order of file, name and line, from 1 here; both directions of the edges *)
(* are stored as compressed rows.  Queries are pure: each is an operator   *)
(* that works as the code does, and a property compares it with the        *)
(* definition of what it answers.                                          *)
(*                                                                         *)
(* Files, names and lines are numbers for their order.  A row is a set     *)
(* until build_csr sorts it, which also removes its duplicates.            *)
(***************************************************************************)
EXTENDS Naturals, FiniteSets, Sequences, SequencesExt, Graphs

CONSTANTS Corpora,     \* sets of definitions <<file, name, line>> to build from
          Ends,        \* the ends <<file, name>> an edge can have
          Depths       \* the depths queries ask for

ASSUME GraphAssumption ==
  /\ Corpora \subseteq SUBSET (Nat \X Nat \X (Nat \ {0}))
  /\ \A corpus \in Corpora : IsFiniteSet(corpus)
  /\ Ends \subseteq Nat \X Nat
  /\ IsFiniteSet(Ends)
  /\ Depths \subseteq Nat

VARIABLES definitions, edges, \* the facts of the generation
          graph,              \* GraphSnapshot
          answer              \* of the last query, with what it asked

vars == <<definitions, edges, graph, answer>>

None == [query |-> "none"]
End(node) == <<node[1], node[2]>>

-----------------------------------------------------------------------------
(* GraphSnapshot::build                                                    *)

Below(m, n) == \/ m[1] < n[1]
               \/ m[1] = n[1] /\ m[2] < n[2]
               \/ End(m) = End(n) /\ m[3] < n[3]

\* A node of line zero stands for an end that no definition has.
Externals(defs, es) ==
  {<<e[1], e[2], 0>> : e \in (UNION {{x[1], x[2]} : x \in es}) \ {End(d) : d \in defs}}

\* Each element once, after all that are less.
Sorted(S, Less(_, _)) ==
  CHOOSE s \in [1 .. Cardinality(S) -> S] : \A i, j \in DOMAIN s : i < j => Less(s[i], s[j])

Ascending(S) == Sorted(S, <)

Numbered(defs, es) == Sorted(defs \cup Externals(defs, es), Below)

Least(S) == CHOOSE n \in S : \A m \in S : n <= m

\* by_identity(..).first()
FirstOf(nodes, end) == Least({id \in DOMAIN nodes : End(nodes[id]) = end})

\* Mutation: an offset is taken before its row is stored.
StoredEarly(csr, row) ==
  [offsets |-> Append(csr.offsets, Len(csr.targets)), targets |-> csr.targets \o Ascending(row)]

Stored(csr, row) ==
  LET targets == csr.targets \o Ascending(row)
  IN  [offsets |-> Append(csr.offsets, Len(targets)), targets |-> targets]

\* build_csr
Csr(rows) ==
  LET csr[n \in 0 .. Len(rows)] == IF n = 0 THEN [offsets |-> <<0>>, targets |-> <<>>]
                                   ELSE Stored(csr[n - 1], rows[n])
  IN  csr[Len(rows)]

\* csr_row
Row(csr, id) ==
  IF id >= Len(csr.offsets) THEN <<>>
  ELSE SubSeq(csr.targets, csr.offsets[id] + 1, csr.offsets[id + 1])

Snapshot(defs, es) ==
  LET nodes == Numbered(defs, es)
      at(end) == FirstOf(nodes, end)
  IN  [nodes   |-> nodes,
       forward |-> Csr([id \in DOMAIN nodes |-> {at(e[2]) : e \in {x \in es : at(x[1]) = id}}]),
       reverse |-> Csr([id \in DOMAIN nodes |-> {at(e[1]) : e \in {x \in es : at(x[2]) = id}}])]

Callees(g, id) == Row(g.forward, id)
Callers(g, id) == Row(g.reverse, id)

-----------------------------------------------------------------------------
(* reverse_bfs                                                             *)

\* Mutation: what is put on the queue is not marked as seen.
DiscoverUnmarked(s, id, depth) == [s EXCEPT !.queue = Append(@, <<id, depth>>)]

Discover(s, id, depth) ==
  IF id \in s.seen THEN s
  ELSE [s EXCEPT !.seen = @ \cup {id}, !.queue = Append(@, <<id, depth>>)]

DiscoverAll(s, ids, depth) ==
  LET after[i \in 0 .. Len(ids)] == IF i = 0 THEN s ELSE Discover(after[i - 1], ids[i], depth)
  IN  after[Len(ids)]

Round(g, s, maxDepth) ==
  IF s.queue = <<>> THEN s
  ELSE LET id == Head(s.queue)[1]
           depth == Head(s.queue)[2]
           taken == [s EXCEPT !.queue = Tail(@), !.answer = Append(@, <<id, depth>>)]
       IN  IF depth = maxDepth THEN taken ELSE DiscoverAll(taken, Callers(g, id), depth + 1)

\* A node is queued once, so the queue is empty after as many rounds as there are nodes.
ReverseBfs(g, starts, maxDepth) ==
  LET after[k \in 0 .. Len(g.nodes)] ==
        IF k = 0 THEN DiscoverAll([seen |-> {}, queue |-> <<>>, answer |-> <<>>], starts, 0)
        ELSE Round(g, after[k - 1], maxDepth)
  IN  after[Len(g.nodes)].answer

-----------------------------------------------------------------------------
(* strongly_connected_components: Tarjan's visit, as what it makes of the  *)
(* state; an index of 0 is None                                            *)

Unvisited(g) ==
  [next |-> 1, index |-> [id \in DOMAIN g.nodes |-> 0], low |-> [id \in DOMAIN g.nodes |-> 0],
   stack |-> <<>>, components |-> {}]

Enter(s, id) ==
  [s EXCEPT !.next = @ + 1, !.index[id] = s.next, !.low[id] = s.next, !.stack = Append(@, id)]

OnStack(s, id) == Contains(s.stack, id)

Lower(s, id, n) == IF n < s.low[id] THEN [s EXCEPT !.low[id] = n] ELSE s

Cyclic(g, members) ==
  Cardinality(members) > 1 \/ \E id \in members : Contains(Callees(g, id), id)

\* The stack down to the root of a component.
Close(g, s, id) ==
  IF s.low[id] # s.index[id] THEN s
  ELSE LET root == CHOOSE i \in DOMAIN s.stack : s.stack[i] = id
           members == {s.stack[i] : i \in root .. Len(s.stack)}
       IN  [s EXCEPT !.stack = SubSeq(@, 1, root - 1),
                     !.components = IF Cyclic(g, members) THEN @ \cup {members} ELSE @]

\* Mutation: a node that is off the stack lowers its caller too.
FollowVisited(visit, s, id, callee) ==
  IF s.index[callee] = 0
  THEN LET t == visit[s, callee] IN Lower(t, id, t.low[callee])
  ELSE Lower(s, id, s.index[callee])

Follow(visit, s, id, callee) ==
  IF s.index[callee] = 0
  THEN LET t == visit[s, callee] IN Lower(t, id, t.low[callee])
  ELSE IF OnStack(s, callee) THEN Lower(s, id, s.index[callee]) ELSE s

Visits(g) ==
  [next : Nat \ {0}, index : [DOMAIN g.nodes -> Nat], low : [DOMAIN g.nodes -> Nat],
   stack : Seq(DOMAIN g.nodes), components : SUBSET SUBSET DOMAIN g.nodes]

Components(g) ==
  LET visit[s \in Visits(g), id \in DOMAIN g.nodes] ==
        Close(g, FoldLeft(LAMBDA t, callee : Follow(visit, t, id, callee),
                          Enter(s, id), Callees(g, id)), id)
  IN  FoldLeft(LAMBDA s, id : IF s.index[id] = 0 THEN visit[s, id] ELSE s,
               Unvisited(g), [id \in DOMAIN g.nodes |-> id]).components

-----------------------------------------------------------------------------
(* impact_report and caller_tree: a tree is the set of its branches, each  *)
(* the way there from the target and the note at its end                   *)

\* Mutation: a caller is looked for at the end of the path only.
LastOnPath(path, caller) == caller = Last(path)

OnPath(path, caller) == caller \in Range(path)

CallerTree(g, id, depth) ==
  LET tree[remaining \in 0 .. depth] ==
        [path \in Seq(DOMAIN g.nodes) \ {<<>>} |->
           LET direct == Range(Callers(g, Last(path)))
           IN  IF remaining = 0 /\ direct # {} THEN {<<path, "depth">>}
               ELSE {<<path, "none">>} \cup
                    UNION {IF OnPath(path, caller) THEN {<<Append(path, caller), "cycle">>}
                           ELSE tree[remaining - 1][Append(path, caller)] : caller \in direct}]
  IN  tree[depth][<<id>>]

\* by_name, in the order of the snapshot, and the file filter
Candidates(g, name, files) ==
  {id \in DOMAIN g.nodes : g.nodes[id][2] = name /\ g.nodes[id][1] \in files}

Greatest(S) == CHOOSE n \in S : \A m \in S : m <= n

\* A target is filed under its end when there are several; the last one of an end stays.
ImpactReport(g, name, depth, files) ==
  LET found == Candidates(g, name, files)
  IN  [end \in {End(g.nodes[id]) : id \in found} |->
         CallerTree(g, Greatest({id \in found : End(g.nodes[id]) = end}), depth)]

-----------------------------------------------------------------------------
Init ==
  /\ definitions \in Corpora
  /\ edges \in SUBSET (Ends \X Ends)
  /\ graph = None
  /\ answer = None

Build ==
  /\ graph = None
  /\ graph' = Snapshot(definitions, edges)
  /\ UNCHANGED <<definitions, edges, answer>>

Answered(a) == answer' = a /\ UNCHANGED <<definitions, edges, graph>>

AskCallers(starts, depth) ==
  /\ graph # None
  /\ Answered([query |-> "callers", starts |-> Range(starts), depth |-> depth,
               found |-> ReverseBfs(graph, starts, depth)])

AskComponents ==
  /\ graph # None
  /\ Answered([query |-> "components", found |-> Components(graph)])

\* A name that nothing has is an error.
AskImpact(name, depth, files) ==
  /\ graph # None
  /\ Candidates(graph, name, files) # {}
  /\ Answered([query |-> "impact", name |-> name, depth |-> depth, files |-> files,
               found |-> ImpactReport(graph, name, depth, files)])

Names == {end[2] : end \in Ends}
Files == {end[1] : end \in Ends}
Starts == IF graph = None THEN {} ELSE {Ascending(Candidates(graph, name, Files)) : name \in Names}

Next ==
  \/ Build
  \/ \E starts \in Starts, depth \in Depths : AskCallers(starts, depth)
  \/ AskComponents
  \/ \E name \in Names, depth \in Depths, files \in SUBSET Files : AskImpact(name, depth, files)

Spec == Init /\ [][Next]_vars

-----------------------------------------------------------------------------
Ids == DOMAIN graph.nodes

\* The edges of the facts, between the nodes that stand for their ends.
Edge == {<<FirstOf(graph.nodes, e[1]), FirstOf(graph.nodes, e[2])>> : e \in edges}

(* Both stored directions are the edges of the facts: every row holds, in  *)
(* order and once, what it should, whatever rows before it are empty.      *)
RowsAreEdges ==
  graph # None =>
    \A id \in Ids :
      /\ Callees(graph, id) = Ascending({n \in Ids : <<id, n>> \in Edge})
      /\ Callers(graph, id) = Ascending({n \in Ids : <<n, id>> \in Edge})

\* The nodes that reach S in at most depth calls.
Within(S, depth) ==
  LET ball[k \in 0 .. depth] ==
        IF k = 0 THEN S
        ELSE ball[k - 1] \cup {n \in Ids : \E m \in ball[k - 1] : <<n, m>> \in Edge}
  IN  ball

(* The closure of callers holds each function once, at its least distance  *)
(* and no further than asked for, nearest first, cycles or not.            *)
NearestCallers ==
  answer.query = "callers" =>
    LET ball == Within(answer.starts, answer.depth)
        found == answer.found
    IN  /\ Range(found) = {d \in Ids \X (0 .. answer.depth) :
                             d[1] \in ball[d[2]] /\ (d[2] > 0 => d[1] \notin ball[d[2] - 1])}
        /\ IsInjective(found)
        /\ \A i, j \in DOMAIN found : i < j => found[i][2] <= found[j][2]

(* The components are the classes of functions that call each other,       *)
(* directly or not, without the functions that are in no cycle.            *)
CyclesExact ==
  answer.query = "components" =>
    LET reaches == ConnectionsIn([node |-> Ids, edge |-> Edge])
        class(n) == {m \in Ids : reaches[n, m] /\ reaches[m, n]}
    IN  answer.found = {c \in {class(n) : n \in Ids} :
                          Cardinality(c) > 1 \/ \E n \in c : <<n, n>> \in Edge}

IsSimple(p) == IsInjective(p)
Backwards(p) == \A i \in 1 .. Len(p) - 1 : <<p[i + 1], p[i]>> \in Edge
CalledBy(id) == {n \in Ids : <<n, id>> \in Edge}

\* The ways target is reached within depth calls, and what a tree says of each.
EveryPath(target, depth) ==
  LET simple == {p \in SeqOf(Ids, depth + 1) :
                   p # <<>> /\ p[1] = target /\ IsSimple(p) /\ Backwards(p)}
  IN  {<<p, IF Len(p) = depth + 1 /\ CalledBy(Last(p)) # {} THEN "depth" ELSE "none">> :
         p \in simple}
      \cup
      UNION {{<<Append(p, n), "cycle">> : n \in CalledBy(Last(p)) \cap Range(p)} :
               p \in {q \in simple : Len(q) <= depth}}

(* A caller tree has every way the target can be reached without a cycle,  *)
(* up to the depth, once, and says of each branch why it ends: a caller    *)
(* that is on the way already, or the depth limit.                         *)
ImpactIsEveryPath ==
  answer.query = "impact" =>
    \A end \in DOMAIN answer.found :
      answer.found[end] =
        EveryPath(Greatest({id \in Ids : End(graph.nodes[id]) = end}), answer.depth)

(* "Ambiguity is preserved": every function of the name is a target.       *)
ImpactKeepsAmbiguity ==
  answer.query = "impact" =>
    Cardinality(DOMAIN answer.found) = Cardinality(Candidates(graph, answer.name, answer.files))
=============================================================================
