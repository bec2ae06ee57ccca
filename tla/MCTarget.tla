------------------------------ MODULE MCTarget ------------------------------
(***************************************************************************)
(* Two aliases, of which 1 is in every configuration, and lists `x' and  *)
(* `y'.  The configurations differ in their aliases and in their contents, *)
(* as those of a run before and a run after an edit of the configuration.  *)
(***************************************************************************)
EXTENDS TargetSafety, TLC

Set(n, c) == [name |-> n, content |-> c]

MCSets == {<<Set(1, "x")>>,
           <<Set(2, "x"), Set(1, "y")>>}

Interchangeable == Permutations(Proc)
=============================================================================
