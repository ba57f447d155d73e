------------------------- MODULE MCSsaConstruction -------------------------
(***************************************************************************)
(* Every graph of four blocks without references, for the tree and the     *)
(* frontiers; and the shapes a branch or a loop takes, with every filling  *)
(* of their lines by the statements below, for the rest.                   *)
(***************************************************************************)
EXTENDS SsaConstruction

OneLineEach(n) == [b \in 1 .. n |-> <<b, b>>]

\* Nothing leads back to the entry, and a block has at most two successors.
Exits(n) == {<<>>} \cup {<<b>> : b \in 2 .. n} \cup {<<b, c>> : b \in 2 .. n, c \in 2 .. n}
EdgesOf(n, exits) == FlattenSeq([b \in 1 .. n |-> [i \in DOMAIN exits[b] |-> <<b, exits[b][i]>>]])
Bare(n, exits) == [n |-> n, edges |-> EdgesOf(n, exits), lines |-> OneLineEach(n), refs |-> <<>>]
Rising(s) == \A i \in 1 .. Len(s) - 1 : s[i] < s[i + 1]
Graphs4 == {Bare(4, exits) : exits \in [1 .. 4 -> {s \in Exits(4) : Rising(s)}]}

Shape(exits, lines) == [n |-> Len(exits), edges |-> EdgesOf(Len(exits), exits), lines |-> lines]
Diamond == Shape(<<<<2, 3>>, <<4>>, <<4>>, <<>>>>, OneLineEach(4))
Loop == Shape(<<<<2>>, <<4, 3>>, <<>>, <<2>>>>, OneLineEach(4))
BranchInLoop == Shape(<<<<2>>, <<4, 3>>, <<>>, <<5, 2>>, <<2>>>>, OneLineEach(5))
Irreducible == Shape(<<<<2, 3>>, <<3>>, <<2, 4>>, <<>>>>, OneLineEach(4))
\* With its brace on the header's line, the body covers the header and the exit.
BracedLoop == Shape(<<<<2>>, <<4, 3>>, <<>>, <<2>>>>, <<<<1, 1>>, <<2, 2>>, <<4, 4>>, <<2, 4>>>>)

At(line, name, kind) == [line |-> line, name |-> name, kind |-> kind]
Statements(line) ==
  {<<>>,
   <<At(line, "x", "Definition")>>,
   <<At(line, "x", "Update")>>,
   <<At(line, "y", "Definition"), At(line, "x", "Use")>>}

Filled(shape, refs) == [n |-> shape.n, edges |-> shape.edges, lines |-> shape.lines, refs |-> refs]
\* Every way to fill the lines 1 .. n of a program.
Bodies[n \in 0 .. 5] ==
  IF n = 0 THEN {<<>>} ELSE {body \o s : body \in Bodies[n - 1], s \in Statements(n)}
Fillings(shape) == {Filled(shape, refs) : refs \in Bodies[shape.n]}

\* A parameter on a line of the signature that no block covers.
WithParameter(prog) == [prog EXCEPT !.refs = <<At(0, "x", "Definition")>> \o @]

\* The header, block 2 of a loop, does not define.
HeaderQuiet(prog) == \A d \in Definitions(prog) : DefBlock(prog, d) # 2

\* A variable of one block only gets its value there before it is used.
LocalsAreLocal(prog) ==
  \A v \in Names(prog) \ NonLocalVariables(prog), b \in Blocks(prog) : v \notin UseAndDef(prog, b).use

Branches == Fillings(Diamond) \cup Fillings(Irreducible) \cup {WithParameter(p) : p \in Fillings(Diamond)}
Loops ==
  Fillings(Loop) \cup Fillings(BranchInLoop) \cup Fillings(BracedLoop)
  \cup {WithParameter(p) : p \in Fillings(Loop)}
QuietLoops == {p \in Loops : HeaderQuiet(p)}
LocalLoops == {p \in Loops : LocalsAreLocal(p)}
SomePrograms ==
  Graphs4
  \cup {p \in Branches : LocalsAreLocal(p)}
  \cup (QuietLoops \cap LocalLoops)

AllForms == {"Minimal", "SemiPruned", "Pruned"}
=============================================================================
