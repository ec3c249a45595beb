---------------------------- MODULE MCCodeEmit ----------------------------
(* Small programs for CodeEmit: graphs of functions and globals.           *)
EXTENDS CodeEmit, TLC

CONSTANTS f1, f2, f3, x, g, h

(* The programs over the values of W, where only those in U use anything.  *)
Graph(U, W, rest) ==
    {uses @@ rest @@ [v \in Value |-> {}] : uses \in [U -> SUBSET W]}

(* How much function f uses: itself counts for two, a global for one more. *)
(* Functions are named in the order of their weights; the other programs   *)
(* are the same ones with other names.                                     *)
Weight(p, f) ==
    4 * Cardinality(p[f]) + 2 * Cardinality(p[f] \cap {f})
        + Cardinality(p[f] \cap Gv)

Sorted(p, s) == \A i \in 1 .. Len(s) - 1 : Weight(p, s[i]) >= Weight(p, s[i + 1])

(* Initializers that are data: three functions, or two and an external     *)
(* one, with any references between them and to g; h holds g's address.    *)
DataPrograms ==
    LET address == h :> {g}
    IN  {p \in Graph({f1, f2, f3}, {f1, f2, f3, g}, address) :
            Sorted(p, <<f1, f2, f3>>)}
        \cup {p \in Graph({f1, f2}, {f1, f2, x, g}, address) :
            Sorted(p, <<f1, f2>>)}

RECURSIVE Reached(_, _, _)
Reached(p, S, via) ==
    LET more == S \cup UNION {p[v] : v \in S \cap via}
    IN  IF more = S THEN S ELSE Reached(p, more, via)

(* Emission ends: no global's address is needed for its own initializer.   *)
Ends(p) == \A v \in Gv : v \notin Reached(p, p[v], Gv)

(* A function that uses a global, and that a function f of the initializer *)
(* calls, calls f as well: what is lost between an initializer and its     *)
(* user is no part of a cycle that the calls do not make on their own.     *)
CyclesAreCalls(p) ==
    \A v \in Gv : \A f \in p[v] \cap Fn : \A user \in Fn :
        v \in Reached(p, p[user], Gv) /\ user \in Reached(p, {f}, Fn)
            => f \in Reached(p, {user}, Fn)

References(p) == Cardinality(UNION {{v} \X p[v] : v \in Value})

(* Initializers that use functions: two functions and two globals.         *)
InitPrograms ==
    {p \in Graph({f1, f2, g, h}, {f1, f2, g, h}, << >>) :
        /\ References(p) <= 5
        /\ Sorted(p, <<f1, f2>>) /\ Sorted(p, <<g, h>>)
        /\ (p[g] \cup p[h]) \cap Fn # {}
        /\ Ends(p) /\ CyclesAreCalls(p)}

AllPrograms == DataPrograms \cup InitPrograms
=============================================================================
