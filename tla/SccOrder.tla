------------------------------ MODULE SccOrder ------------------------------
(***************************************************************************)
(* What the emitter promises the optimizer (src/tinline.h): functions are  *)
(* optimized one strongly connected component at a time, and a component   *)
(* only after all the components it calls.                                 *)
(***************************************************************************)
CONSTANT Body       \* the functions that have a body

VARIABLES calls,    \* the call graph
          done      \* the functions that have been optimized

vars == <<calls, done>>

(* No part of S, other than S itself, is closed under calls within S.      *)
StronglyConnected(S) ==
    \A T \in SUBSET S :
        /\ T # {}
        /\ \A f \in T : calls[f] \cap S \subseteq T
        => T = S

Init ==
    /\ calls \in [Body -> SUBSET Body]
    /\ done = {}

OptimizeScc(S) ==
    /\ S # {}
    /\ S \cap done = {}
    /\ \A f \in S : calls[f] \subseteq S \cup done
    /\ StronglyConnected(S)
    /\ done' = done \cup S
    /\ UNCHANGED calls

Next == \E S \in SUBSET Body : OptimizeScc(S)

Spec == Init /\ [][Next]_vars
=============================================================================
