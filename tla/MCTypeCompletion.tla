-------------------------- MODULE MCTypeCompletion --------------------------
(* Two structs, with entries that are structs, arrays or opaque.  *)
EXTENDS TypeCompletion, TLC

CONSTANTS A, B

(* Any struct may contain any other, itself included.                      *)
AnyLists == {<< >>, <<A>>, <<B>>, <<ArrayOf(A)>>, <<Opaque>>, <<A, B>>, <<B, A>>}

=============================================================================
