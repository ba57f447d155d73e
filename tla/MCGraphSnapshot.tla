--------------------------- MODULE MCGraphSnapshot ---------------------------
(***************************************************************************)
(* Two files and two names: an end that nothing defines, a name in two     *)
(* files, and a function defined twice in one file.                        *)
(***************************************************************************)
EXTENDS GraphSnapshot

ThreeEnds == {<<1, 1>>, <<1, 2>>, <<2, 1>>}
OneUndefined == {<<1, 1, 1>>, <<2, 1, 1>>}
OneTwice == {<<1, 1, 1>>, <<1, 1, 2>>, <<2, 1, 1>>}
SomeCorpora == {{}, OneUndefined, OneTwice}
UpToThree == 0 .. 3
=============================================================================
