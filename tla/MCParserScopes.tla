--------------------------- MODULE MCParserScopes ---------------------------
(* One name, and two languages that use the same word.                     *)
EXTENDS ParserScopes, TLC

CONSTANTS e, l1, l2

MCEntryPoints == l1 :> {e} @@ l2 :> {e}
MCFuel == <<4, 0>>
MCSymmetry == Permutations({l1, l2})
=============================================================================
