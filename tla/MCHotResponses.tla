--------------------------- MODULE MCHotResponses ---------------------------
(***************************************************************************)
(* Two files; the file tree, which registers the project, the complexity   *)
(* of a function, which registers its file, and the smells of a file, which*)
(* register both.                                                          *)
(***************************************************************************)
EXTENDS HotResponses, TLC

CONSTANTS f, g, tree, complexity, smells

TwoFiles == {f, g}
TwoKeys == {tree, smells}
ThreeKeys == {tree, complexity, smells}
KeyReads == [k \in Keys |-> CASE k = complexity -> {f} [] k = smells -> {g} [] OTHER -> Signals]
KeyInputs ==
  [k \in Keys |-> CASE k = complexity -> {f} [] k = smells -> {g, Project} [] OTHER -> {Project}]
=============================================================================
