---------------------------- MODULE MCDeferScope ----------------------------
(* Function bodies of a few statements.                                    *)
EXTENDS DeferScope, TLC

CONSTANT MaxWithRepeat  \* bound: statements in a body with a repeat loop

(* The emitter never sees a body in which the checker has found an error.  *)
Small == ~error /\ (repeats => stats <= MaxWithRepeat)
=============================================================================
