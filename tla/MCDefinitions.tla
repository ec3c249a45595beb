--------------------------- MODULE MCDefinitions ---------------------------
(* A few functions and globals, defined or not.                            *)
EXTENDS Definitions, TLC

SmallBodies == {b \in SUBSET Value : Cardinality(b) <= 1}
Plain == {{}} \cup {{g} : g \in Gv}
Symmetry == Permutations(Fn) \cup Permutations(Unit)
=============================================================================
