------------------------------- MODULE MCJit -------------------------------
(* Two functions of one name and an external function: both functions call *)
(* it, or one calls the other, and the external function has the name that *)
(* functions are exported with.                                            *)
EXTENDS Jit, TLC
CONSTANTS f, g, e, a, b, j, u

MCPrograms == {f :> {e} @@ g :> {e}, f :> {} @@ g :> {f}}
MCNameOf == f :> a @@ g :> a @@ e :> b
MCAddr == 1 .. 12
=============================================================================
