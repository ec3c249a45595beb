-------------------------- MODULE ParserScopes_proofs --------------------------
(***************************************************************************)
(* Proofs about ParserScopes, for every set of names, languages and entry  *)
(* points, every depth of nesting and every length of the chunks.          *)
(***************************************************************************)
EXTENDS ParserScopes, Integers, FiniteSetTheorems, SequenceTheorems, WellFoundedInduction, TLAPS

-----------------------------------------------------------------------------
(* Induction over the naturals, with a set in the place of the predicate.  *)
(*                                                                         *)
(* A set of naturals has a least element.                                  *)
LEMMA NatMin ==
    ASSUME NEW T, T \subseteq Nat, T # {}
    PROVE  \E x \in T : \A y \in T : x <= y
<1> DEFINE Less == {ss \in Nat \X Nat : ss[1] < ss[2]}
<1>1. IsWellFoundedOn(Less, Nat)
  BY NatLessThanWellFounded, Zenon DEF OpToRel
<1>2. PICK x \in T : \A y \in T : <<y, x>> \notin Less
  <2> HIDE DEF Less
  <2> QED
    BY <1>1, WFMin
<1>3. ASSUME NEW y \in T PROVE x <= y
  <2>1. x \in Nat /\ y \in Nat /\ (y < x => <<y, x>> \in Less)
    OBVIOUS
  <2> QED
    BY <1>2, <2>1
<1> QED
  BY <1>3

(* The greatest of some indices.                                           *)
LEMMA Greatest ==
    ASSUME NEW N \in Nat, NEW T, T \subseteq 1 .. N, T # {}
    PROVE  \E x \in T : \A y \in T : y <= x
<1> DEFINE U == {n \in 0 .. N : N - n \in T}
<1>1. PICK t \in T : TRUE
  OBVIOUS
<1>2. N - t \in 0 .. N /\ N - (N - t) = t
  BY <1>1
<1>3. U # {} /\ U \subseteq Nat
  <2>1. N - (N - t) \in T
    BY <1>2
  <2>2. N - t \in U
    BY <1>2, <2>1
  <2>3. U \subseteq 0 .. N /\ 0 .. N \subseteq Nat
    OBVIOUS
  <2> HIDE DEF U
  <2>4. QED BY <2>2, <2>3
<1>4. PICK u \in U : \A v \in U : u <= v
  <2> HIDE DEF U
  <2> QED BY <1>3, NatMin
<1>5. ASSUME NEW y \in T PROVE y <= N - u
  <2>1. N - y \in 0 .. N /\ N - (N - y) = y
    OBVIOUS
  <2>2. N - y \in U
    BY <2>1
  <2>3. u <= N - y
    BY <2>2, <1>4
  <2>4. u \in 0 .. N /\ y \in 1 .. N
    OBVIOUS
  <2>5. QED BY <2>3, <2>4
<1>6. QED BY <1>5

(* What holds of 0, and of n + 1 when it holds of n, holds up to N.        *)
LEMMA Induction ==
    ASSUME NEW T, NEW N \in Nat, 0 \in T,
           \A n \in 0 .. N : n < N /\ n \in T => n + 1 \in T
    PROVE  \A n \in 0 .. N : n \in T
<1> DEFINE U == (0 .. N) \ T
<1>1. CASE U = {}
  BY <1>1
<1>2. CASE U # {}
  <2>1. PICK x \in U : \A y \in U : x <= y
    <3>1. U \subseteq Nat
      OBVIOUS
    <3> HIDE DEF U
    <3>2. QED BY <1>2, <3>1, NatMin
  <2>2. x # 0
    OBVIOUS
  <2>3. x - 1 \in 0 .. N /\ x - 1 < N /\ (x - 1) + 1 = x /\ ~(x <= x - 1)
    BY <2>2
  <2>4. x - 1 \in T
    BY <2>1, <2>3
  <2>5. x \in T
    BY <2>3, <2>4
  <2>6. QED BY <2>5
<1>3. QED BY <1>1, <1>2

(* f sums up the first elements of p.                                      *)
IsSum(f, p) ==
    f = [i \in 0 .. Len(p) |-> IF i = 0 THEN 0 ELSE f[i - 1] + p[i]]

(* Every sequence has such sums.                                           *)
LEMMA SumExists ==
    ASSUME NEW p \in Seq(Nat)
    PROVE  \E f : IsSum(f, p)
<1> DEFINE T == {n \in 0 .. Len(p) :
                    \E f : f = [i \in 0 .. n |-> IF i = 0 THEN 0 ELSE f[i - 1] + p[i]]}
<1>1. 0 \in T
  <2> DEFINE f == [i \in 0 .. 0 |-> 0]
  <2>1. f = [i \in 0 .. 0 |-> IF i = 0 THEN 0 ELSE f[i - 1] + p[i]]
    OBVIOUS
  <2>2. 0 \in 0 .. Len(p)
    OBVIOUS
  <2> HIDE DEF f
  <2>3. QED BY <2>1, <2>2
<1>2. ASSUME NEW n \in 0 .. Len(p), n < Len(p), n \in T PROVE n + 1 \in T
  <2>1. PICK f : f = [i \in 0 .. n |-> IF i = 0 THEN 0 ELSE f[i - 1] + p[i]]
    BY <1>2
  <2> DEFINE g == [i \in 0 .. n + 1 |-> IF i = n + 1 THEN f[n] + p[n + 1] ELSE f[i]]
  <2>2. ASSUME NEW i \in 0 .. n + 1
        PROVE  g[i] = IF i = 0 THEN 0 ELSE g[i - 1] + p[i]
    <3>1. CASE i = 0
      <4>1. f[0] = 0
        BY <2>1
      <4>2. QED BY <3>1, <4>1
    <3>2. CASE i = n + 1
      <4>1. i - 1 = n /\ n \in 0 .. n + 1 /\ n # n + 1 /\ i # 0
        BY <3>2
      <4>2. QED BY <3>2, <4>1
    <3>3. CASE i # 0 /\ i # n + 1
      <4>1. i \in 0 .. n /\ i - 1 \in 0 .. n + 1 /\ i - 1 # n + 1
        BY <3>3
      <4>2. f[i] = f[i - 1] + p[i]
        <5>1. f[i] = [j \in 0 .. n |-> IF j = 0 THEN 0 ELSE f[j - 1] + p[j]][i]
          BY <2>1
        <5>2. QED BY <5>1, <3>3, <4>1
      <4>3. QED BY <3>3, <4>1, <4>2
    <3>4. QED BY <3>1, <3>2, <3>3
  <2>3. g = [i \in 0 .. n + 1 |-> IF i = 0 THEN 0 ELSE g[i - 1] + p[i]]
    <3>1. g = [i \in 0 .. n + 1 |-> g[i]]
      OBVIOUS
    <3> HIDE DEF g
    <3>2. QED BY <2>2, <3>1
  <2>4. n + 1 \in 0 .. Len(p)
    BY <1>2
  <2> HIDE DEF g
  <2>5. QED BY <2>3, <2>4
<1>3. Len(p) \in T
  <2>1. Len(p) \in Nat /\ Len(p) \in 0 .. Len(p)
    OBVIOUS
  <2> HIDE DEF T
  <2>2. QED BY <1>1, <1>2, <2>1, Induction
<1>4. QED BY <1>3 DEF IsSum

(* Sums of what two sequences share are the same.                          *)
LEMMA SumsAgree ==
    ASSUME NEW p \in Seq(Nat), NEW q \in Seq(Nat), Len(q) <= Len(p),
           \A i \in 1 .. Len(q) : p[i] = q[i],
           NEW f, NEW g, IsSum(f, p), IsSum(g, q)
    PROVE  \A n \in 0 .. Len(q) : f[n] = g[n] /\ g[n] \in Nat
<1> DEFINE T == {n \in 0 .. Len(q) : f[n] = g[n] /\ g[n] \in Nat}
<1>0. Len(q) \in Nat /\ Len(p) \in Nat
  OBVIOUS
<1>1. ASSUME NEW i \in 0 .. Len(p) PROVE f[i] = IF i = 0 THEN 0 ELSE f[i - 1] + p[i]
  <2>1. f[i] = [j \in 0 .. Len(p) |-> IF j = 0 THEN 0 ELSE f[j - 1] + p[j]][i]
    BY DEF IsSum
  <2>2. QED BY <2>1
<1>2. ASSUME NEW i \in 0 .. Len(q) PROVE g[i] = IF i = 0 THEN 0 ELSE g[i - 1] + q[i]
  <2>1. g[i] = [j \in 0 .. Len(q) |-> IF j = 0 THEN 0 ELSE g[j - 1] + q[j]][i]
    BY DEF IsSum
  <2>2. QED BY <2>1
<1>3. 0 \in T
  <2>1. 0 \in 0 .. Len(q) /\ 0 \in 0 .. Len(p)
    BY <1>0
  <2>2. f[0] = 0 /\ g[0] = 0
    BY <2>1, <1>1, <1>2
  <2>3. QED BY <2>1, <2>2
<1>4. ASSUME NEW n \in 0 .. Len(q), n < Len(q), n \in T PROVE n + 1 \in T
  <2>1. n + 1 \in 1 .. Len(q) /\ n + 1 \in 0 .. Len(q) /\ n + 1 \in 0 .. Len(p)
        /\ (n + 1) - 1 = n /\ n + 1 # 0
    BY <1>4, <1>0
  <2>2. f[n + 1] = f[n] + p[n + 1] /\ g[n + 1] = g[n] + q[n + 1]
    BY <2>1, <1>1, <1>2
  <2>3. p[n + 1] = q[n + 1] /\ q[n + 1] \in Nat
    BY <2>1
  <2>4. f[n] = g[n] /\ g[n] \in Nat
    BY <1>4
  <2>5. f[n + 1] = g[n + 1] /\ g[n + 1] \in Nat
    BY <2>2, <2>3, <2>4
  <2>6. QED BY <2>1, <2>5
<1>5. \A n \in 0 .. Len(q) : n \in T
  <2> HIDE DEF T
  <2> QED BY <1>0, <1>3, <1>4, Induction
<1>6. QED BY <1>5
-----------------------------------------------------------------------------
(***************************************************************************)
(* Shapes: for each open block 1 if it is Terra, in_terra, the blocks of   *)
(* the open Terra constructs, and ok: no language extension stands inside  *)
(* of Terra as an expression, so that RETURNS_1 need not fail.             *)
(***************************************************************************)
Shape == [ts : Seq({0, 1}), in : Nat \cup {-1}, cs : Seq(Nat), ok : BOOLEAN]

(* Where a parse is once RETURNS_1 has failed.                             *)
Dead == [ts |-> <<>>, in |-> -1, cs |-> <<>>, ok |-> FALSE]

(* in_terra agrees with the innermost block; where the code goes from Lua  *)
(* to Terra there is a construct, and, if all is ok, only there.           *)
Good(s) ==
    /\ s.ts # <<>> => (s.ts[Len(s.ts)] = 1 <=> s.in > 0)
    /\ \A k \in DOMAIN s.ts :
            k > 1 /\ s.ts[k] = 1 /\ s.ts[k - 1] = 0 => \E i \in DOMAIN s.cs : s.cs[i] = k
    /\ \A i \in DOMAIN s.cs :
            /\ s.cs[i] \in 2 .. Len(s.ts)
            /\ s.ok => s.ts[s.cs[i]] = 1 /\ s.ts[s.cs[i] - 1] = 0
    /\ \A i, j \in DOMAIN s.cs : i < j => s.cs[i] < s.cs[j]

Kind(s) == IF s.in > 0 THEN 1 ELSE 0

(* What the operations do to shapes.                                       *)
Entered(s) == [ts |-> Append(s.ts, Kind(s)), in |-> s.in, cs |-> s.cs, ok |-> s.ok]
Left(s) == [ts |-> Pop(s.ts), in |-> s.in, cs |-> s.cs, ok |-> s.ok]
TerraEntered(s) ==
    [ts |-> Append(s.ts, 1), in |-> s.in + 1, cs |-> Append(s.cs, Len(s.ts) + 1), ok |-> s.ok]
TerraLeft(s) == [ts |-> Pop(s.ts), in |-> s.in - 1, cs |-> Pop(s.cs), ok |-> s.ok]
LuaEntered(s) == [ts |-> Append(s.ts, 0), in |-> 0, cs |-> s.cs, ok |-> s.ok]
LuaLeft(s, n) == [ts |-> Pop(s.ts), in |-> n, cs |-> s.cs, ok |-> s.ok]

SameTags == {"token", "stats", "expr", "down"}

LuaCode == {<<Expr>>, <<Stats>>, QuoteExp, QuoteStats(<<>>)}

(* The operation op can be done in shape s and then the shape is t.  A     *)
(* language ends by leaving the construct it stands for.  While all is ok, *)
(* constructs begin in Lua only and the parse comes to its end.            *)
Does(op, s, t) ==
    \/ s = Dead /\ t = Dead
    \/ op[1] = "finish" /\ s.ok /\ t = s
    \/ /\ s.ts # <<>>
       /\ \/ op[1] \in SameTags /\ t = s
          \/ op[1] = "returns1" /\ s.in = 0 /\ t = s
          \/ op[1] = "returns1" /\ s.in > 0 /\ ~s.ok /\ t = Dead
          \/ op[1] \in {"define", "declare"} /\ op[2] \in SUBSET Names /\ t = s
          \/ op[1] = "bind" /\ t = s
          \/ op[1] = "ref" /\ op[2] \in Names /\ t = s
          \/ op[1] = "embedded" /\ op[2] \in LuaCode /\ s.in > 0 /\ t = s
          \/ op[1] = "enter" /\ t = Entered(s)
          \/ op[1] = "leave" /\ t = Left(s)
          \/ op[1] = "enterterra" /\ (s.ok => s.in = 0) /\ t = TerraEntered(s)
          \/ /\ \/ op[1] = "leaveterra" /\ op[2] \in SUBSET Names
                \/ op[1] = "language"
             /\ s.in > 0 /\ Len(s.ts) > 1
             /\ s.cs # <<>> /\ s.cs[Len(s.cs)] = Len(s.ts)
             /\ t = TerraLeft(s)
          \/ op[1] = "resume" /\ op[2] \in Nat /\ t = LuaLeft(s, op[2])

(* ops can be done one after the other, and take the shape s to u.         *)
Runs(ops, s, u) ==
    \E f \in [1 .. Len(ops) + 1 -> Shape] :
        /\ f[1] = s /\ f[Len(ops) + 1] = u
        /\ \A i \in 1 .. Len(ops) + 1 : Good(f[i])
        /\ \A i \in 1 .. Len(ops) : Does(ops[i], f[i], f[i + 1])
-----------------------------------------------------------------------------
LEMMA RunsNothing ==
    ASSUME NEW s \in Shape, Good(s)
    PROVE  Runs(<<>>, s, s)
<1> DEFINE f == [i \in 1 .. 1 |-> s]
<1>1. f \in [1 .. Len(<<>>) + 1 -> Shape] /\ f[1] = s /\ Len(<<>>) + 1 = 1
  OBVIOUS
<1>2. \A i \in 1 .. 1 : f[i] = s
  OBVIOUS
<1> HIDE DEF f
<1>3. \A i \in 1 .. Len(<<>>) + 1 : Good(f[i])
  BY <1>1, <1>2
<1>4. \A i \in 1 .. Len(<<>>) : FALSE
  OBVIOUS
<1> QED
  BY <1>1, <1>3, <1>4 DEF Runs

LEMMA RunsOne ==
    ASSUME NEW op, NEW s \in Shape, NEW t \in Shape, Good(s), Good(t), Does(op, s, t)
    PROVE  Runs(<<op>>, s, t)
<1> DEFINE f == [i \in 1 .. 2 |-> IF i = 1 THEN s ELSE t]
<1>1. f \in [1 .. 2 -> Shape] /\ f[1] = s /\ f[2] = t
  OBVIOUS
<1>2. Len(<<op>>) = 1 /\ Len(<<op>>) + 1 = 2 /\ <<op>>[1] = op
  OBVIOUS
<1> HIDE DEF f
<1>3. \A i \in 1 .. 2 : Good(f[i])
  <2>1. \A i \in 1 .. 2 : i = 1 \/ i = 2
    OBVIOUS
  <2> QED
    BY <1>1, <2>1
<1>4. \A i \in 1 .. 1 : Does(<<op>>[i], f[i], f[i + 1])
  <2>1. \A i \in 1 .. 1 : i = 1 /\ i + 1 = 2
    OBVIOUS
  <2> QED
    BY <1>1, <1>2, <2>1
<1> QED
  BY <1>1, <1>2, <1>3, <1>4 DEF Runs

LEMMA RunsConcat ==
    ASSUME NEW S, NEW a \in Seq(S), NEW b \in Seq(S), NEW s, NEW t, NEW u,
           Runs(a, s, t), Runs(b, t, u)
    PROVE  Runs(a \o b, s, u)
<1>1. PICK m \in Nat : m = Len(a)
  OBVIOUS
<1>2. PICK n \in Nat : n = Len(b)
  OBVIOUS
<1>3. PICK f \in [1 .. m + 1 -> Shape] :
        /\ f[1] = s /\ f[m + 1] = t
        /\ \A i \in 1 .. m + 1 : Good(f[i])
        /\ \A i \in 1 .. m : Does(a[i], f[i], f[i + 1])
  BY <1>1 DEF Runs
<1>4. PICK g \in [1 .. n + 1 -> Shape] :
        /\ g[1] = t /\ g[n + 1] = u
        /\ \A i \in 1 .. n + 1 : Good(g[i])
        /\ \A i \in 1 .. n : Does(b[i], g[i], g[i + 1])
  BY <1>2 DEF Runs
<1> DEFINE h == [i \in 1 .. m + n + 1 |-> IF i <= m THEN f[i] ELSE g[i - m]]
<1>5. /\ Len(a \o b) = m + n
      /\ \A i \in 1 .. m : (a \o b)[i] = a[i]
      /\ \A i \in m + 1 .. m + n : (a \o b)[i] = b[i - m]
  BY <1>1, <1>2
<1>6. \A i \in 1 .. m + n + 1 : h[i] \in Shape /\ Good(h[i])
  <2> SUFFICES ASSUME NEW i \in 1 .. m + n + 1 PROVE h[i] \in Shape /\ Good(h[i])
    OBVIOUS
  <2>1. CASE i <= m
    <3>1. i \in 1 .. m + 1 /\ h[i] = f[i]
      BY <2>1
    <3> QED
      BY <1>3, <3>1
  <2>2. CASE ~(i <= m)
    <3>1. i - m \in 1 .. n + 1 /\ h[i] = g[i - m]
      BY <2>2
    <3> QED
      BY <1>4, <3>1
  <2> QED
    BY <2>1, <2>2
<1>7. \A i \in 1 .. m + 1 : h[i] = f[i]
  <2> SUFFICES ASSUME NEW i \in 1 .. m + 1 PROVE h[i] = f[i]
    OBVIOUS
  <2>1. i \in 1 .. m + n + 1
    OBVIOUS
  <2>2. CASE i <= m
    BY <2>1, <2>2
  <2>3. CASE i = m + 1
    <3>1. i - m = 1 /\ ~(i <= m)
      BY <2>3
    <3> QED
      BY <1>3, <1>4, <2>1, <2>3, <3>1
  <2> QED
    BY <2>2, <2>3
<1>8. \A j \in 1 .. n + 1 : h[m + j] = g[j]
  <2> SUFFICES ASSUME NEW j \in 1 .. n + 1 PROVE h[m + j] = g[j]
    OBVIOUS
  <2>1. m + j \in 1 .. m + n + 1 /\ ~(m + j <= m) /\ (m + j) - m = j
    OBVIOUS
  <2> QED
    BY <2>1
<1>9. h \in [1 .. m + n + 1 -> Shape]
  BY <1>6
<1> HIDE DEF h
<1>10. \A i \in 1 .. m + n : Does((a \o b)[i], h[i], h[i + 1])
  <2> SUFFICES ASSUME NEW i \in 1 .. m + n PROVE Does((a \o b)[i], h[i], h[i + 1])
    OBVIOUS
  <2>1. CASE i <= m
    <3>1. i \in 1 .. m /\ i \in 1 .. m + 1 /\ i + 1 \in 1 .. m + 1
      BY <2>1
    <3>2. h[i] = f[i] /\ h[i + 1] = f[i + 1] /\ (a \o b)[i] = a[i]
      BY <1>5, <1>7, <3>1
    <3> QED
      BY <1>3, <3>1, <3>2
  <2>2. CASE ~(i <= m)
    <3>1. PICK j \in Nat : j = i - m
      BY <2>2
    <3>2. j \in 1 .. n /\ j \in 1 .. n + 1 /\ j + 1 \in 1 .. n + 1 /\ i = m + j
          /\ i + 1 = m + (j + 1) /\ i \in m + 1 .. m + n
      BY <2>2, <3>1
    <3>3. h[i] = g[j] /\ h[i + 1] = g[j + 1]
      BY <1>8, <3>2
    <3>4. (a \o b)[i] = b[j]
      BY <1>5, <3>1, <3>2
    <3> QED
      BY <1>4, <3>2, <3>3, <3>4
  <2> QED
    BY <2>1, <2>2
<1>11. h[1] = s /\ h[m + n + 1] = u
  <2>1. 1 \in 1 .. m + 1 /\ n + 1 \in 1 .. n + 1 /\ m + (n + 1) = m + n + 1
    OBVIOUS
  <2> QED
    BY <1>3, <1>4, <1>7, <1>8, <2>1
<1> QED
  BY <1>5, <1>6, <1>9, <1>10, <1>11 DEF Runs

LEMMA RunsHead ==
    ASSUME NEW S, NEW ops \in Seq(S), ops # <<>>, NEW s, NEW u, Runs(ops, s, u)
    PROVE  \E t \in Shape : /\ s \in Shape /\ Good(s) /\ Good(t)
                            /\ Does(Head(ops), s, t) /\ Runs(Tail(ops), t, u)
<1>1. PICK m \in Nat : m + 1 = Len(ops)
  <2>1. Len(ops) \in Nat /\ Len(ops) # 0
    OBVIOUS
  <2>2. Len(ops) - 1 \in Nat /\ (Len(ops) - 1) + 1 = Len(ops)
    BY <2>1
  <2> QED
    BY <2>2
<1>2. PICK f \in [1 .. m + 2 -> Shape] :
        /\ f[1] = s /\ f[m + 2] = u
        /\ \A i \in 1 .. m + 2 : Good(f[i])
        /\ \A i \in 1 .. m + 1 : Does(ops[i], f[i], f[i + 1])
  <2>1. Len(ops) + 1 = m + 2
    BY <1>1
  <2> QED
    BY <1>1, <2>1 DEF Runs
<1>3. Len(Tail(ops)) = m /\ \A i \in 1 .. m : Tail(ops)[i] = ops[i + 1]
  BY <1>1
<1>4. Head(ops) = ops[1]
  OBVIOUS
<1> DEFINE g == [i \in 1 .. m + 1 |-> f[i + 1]]
<1>5. \A i \in 1 .. m + 1 : i + 1 \in 1 .. m + 2 /\ g[i] = f[i + 1]
  OBVIOUS
<1>6. g \in [1 .. m + 1 -> Shape]
  BY <1>5
<1> HIDE DEF g
<1>7. \A i \in 1 .. m + 1 : Good(g[i])
  BY <1>2, <1>5
<1>8. \A i \in 1 .. m : Does(Tail(ops)[i], g[i], g[i + 1])
  <2> SUFFICES ASSUME NEW i \in 1 .. m PROVE Does(Tail(ops)[i], g[i], g[i + 1])
    OBVIOUS
  <2>1. i \in 1 .. m + 1 /\ i + 1 \in 1 .. m + 1 /\ (i + 1) + 1 \in 1 .. m + 2
    OBVIOUS
  <2>2. g[i] = f[i + 1] /\ g[i + 1] = f[(i + 1) + 1] /\ Tail(ops)[i] = ops[i + 1]
    BY <1>3, <1>5, <2>1
  <2>3. Does(ops[i + 1], f[i + 1], f[(i + 1) + 1])
    BY <1>2, <2>1
  <2> QED
    BY <2>2, <2>3
<1>9. g[1] = f[2] /\ g[m + 1] = u
  <2>1. 1 \in 1 .. m + 1 /\ m + 1 \in 1 .. m + 1 /\ (m + 1) + 1 = m + 2 /\ 1 + 1 = 2
    OBVIOUS
  <2> QED
    BY <1>2, <1>5, <2>1
<1>10. Runs(Tail(ops), f[2], u)
  BY <1>3, <1>6, <1>7, <1>8, <1>9 DEF Runs
<1>11. s \in Shape /\ Good(s) /\ Good(f[2]) /\ f[2] \in Shape /\ Does(ops[1], s, f[2])
  <2>1. 1 \in 1 .. m + 2 /\ 2 \in 1 .. m + 2 /\ 1 \in 1 .. m + 1 /\ 1 + 1 = 2
    OBVIOUS
  <2>2. Does(ops[1], f[1], f[1 + 1])
    BY <1>2, <2>1
  <2> QED
    BY <1>2, <2>1, <2>2
<1> QED
  BY <1>4, <1>10, <1>11
-----------------------------------------------------------------------------
(* Shapes of blocks of which one at least is open.                         *)
Open == {s \in Shape : Good(s) /\ s.ts # <<>> /\ s.in \in Nat}

LEMMA Pushed ==
    ASSUME NEW S, NEW q \in Seq(S), NEW x \in S
    PROVE  /\ Append(q, x) \in Seq(S) /\ Len(Append(q, x)) = Len(q) + 1
           /\ \A i \in 1 .. Len(q) : Append(q, x)[i] = q[i]
           /\ Append(q, x)[Len(q) + 1] = x
           /\ Pop(Append(q, x)) = q
<1>1. /\ Append(q, x) \in Seq(S) /\ Len(Append(q, x)) = Len(q) + 1
      /\ \A i \in 1 .. Len(q) : Append(q, x)[i] = q[i]
      /\ Append(q, x)[Len(q) + 1] = x
  OBVIOUS
<1>2. Pop(Append(q, x)) = q
  <2>1. PICK n \in Nat : n = Len(q)
    OBVIOUS
  <2>2. Len(Append(q, x)) - 1 = n
    BY <2>1
  <2> QED
    BY <2>1, <2>2 DEF Pop
<1> QED
  BY <1>1, <1>2

LEMMA GoodPush ==
    ASSUME NEW s \in Open, NEW x \in {0, 1}, NEW n \in Nat, NEW cs \in Seq(Nat),
           x = 1 <=> n > 0,
           \A i \in DOMAIN s.cs : i \in DOMAIN cs /\ cs[i] = s.cs[i],
           \A i \in DOMAIN cs : \/ i \in DOMAIN s.cs
                                \/ /\ cs[i] = Len(s.ts) + 1 /\ i = Len(s.cs) + 1
                                   /\ s.ok => x = 1 /\ s.in = 0,
           (x = 1 /\ s.in = 0) => \E i \in DOMAIN cs : cs[i] = Len(s.ts) + 1
    PROVE  [ts |-> Append(s.ts, x), in |-> n, cs |-> cs, ok |-> s.ok] \in Open
<1> DEFINE t == [ts |-> Append(s.ts, x), in |-> n, cs |-> cs, ok |-> s.ok]
<1>1. /\ s.ts \in Seq({0, 1}) /\ s.in \in Nat /\ s.cs \in Seq(Nat) /\ s.ok \in BOOLEAN
      /\ s.ts # <<>> /\ Good(s)
  BY DEF Shape, Open
<1>2. PICK m \in Nat : m = Len(s.ts) /\ m >= 1 /\ DOMAIN s.ts = 1 .. m
  BY <1>1
<1>3. /\ t.ts \in Seq({0, 1}) /\ Len(t.ts) = m + 1 /\ t.ts[m + 1] = x
      /\ \A i \in 1 .. m : t.ts[i] = s.ts[i]
  BY <1>1, <1>2, Pushed
<1>5. t \in Shape /\ t.in = n /\ t.cs = cs /\ t.ok = s.ok
  BY <1>1, <1>3 DEF Shape
<1> HIDE DEF t
<1>4. t.ts # <<>> /\ DOMAIN t.ts = 1 .. m + 1
  BY <1>3
<1>6. t.ts[Len(t.ts)] = 1 <=> t.in > 0
  BY <1>3, <1>5
<1>7. ASSUME NEW k \in DOMAIN t.ts, k > 1, t.ts[k] = 1, t.ts[k - 1] = 0
      PROVE  \E i \in DOMAIN t.cs : t.cs[i] = k
  <2>1. k \in 1 .. m + 1 /\ k - 1 \in 1 .. m /\ t.ts[k - 1] = s.ts[k - 1]
    <3>1. k \in 1 .. m + 1
      BY <1>4, <1>7
    <3>2. k - 1 \in 1 .. m
      BY <1>7, <3>1
    <3> QED
      BY <1>3, <3>1, <3>2
  <2>2. CASE k = m + 1
    <3>1. s.ts[m] = 0 /\ x = 1
      BY <1>3, <1>7, <2>1, <2>2
    <3>2. s.in = 0
      BY <1>1, <1>2, <3>1 DEF Good
    <3> QED
      BY <1>2, <1>5, <2>2, <3>1, <3>2
  <2>3. CASE k # m + 1
    <3>1. k \in 1 .. m /\ t.ts[k] = s.ts[k] /\ k \in DOMAIN s.ts
      BY <1>1, <1>2, <1>3, <2>1, <2>3, SMTT(30)
    <3>2. \E i \in DOMAIN s.cs : s.cs[i] = k
      BY <1>1, <1>7, <2>1, <3>1 DEF Good
    <3> QED
      BY <1>5, <3>2
  <2> QED
    BY <2>2, <2>3
<1>8. ASSUME NEW i \in DOMAIN t.cs
      PROVE  /\ t.cs[i] \in 2 .. Len(t.ts)
             /\ t.ok => t.ts[t.cs[i]] = 1 /\ t.ts[t.cs[i] - 1] = 0
  <2>1. CASE i \in DOMAIN s.cs
    <3>1. PICK k : k = s.cs[i]
      OBVIOUS
    <3>2. t.cs[i] = k /\ k \in 2 .. m /\ (s.ok => s.ts[k] = 1 /\ s.ts[k - 1] = 0)
      BY <1>1, <1>2, <1>5, <2>1, <3>1 DEF Good
    <3>3. k \in 1 .. m /\ k - 1 \in 1 .. m /\ k \in 2 .. m + 1
      BY <3>2
    <3> QED
      BY <1>3, <1>5, <3>2, <3>3
  <2>2. CASE i \notin DOMAIN s.cs
    <3>1. t.cs[i] = m + 1 /\ (s.ok => x = 1 /\ s.in = 0)
      BY <1>2, <1>5, <2>2
    <3>2. m + 1 \in 2 .. m + 1 /\ (m + 1) - 1 = m /\ m \in 1 .. m
      BY <1>2
    <3>3. s.in = 0 => s.ts[m] = 0
      <4>1. s.ts[m] \in {0, 1}
        BY <1>1, <1>2
      <4> QED
        BY <1>1, <1>2, <4>1 DEF Good
    <3> QED
      BY <1>3, <1>5, <3>1, <3>2, <3>3
  <2> QED
    BY <2>1, <2>2
<1>9. ASSUME NEW i \in DOMAIN t.cs, NEW j \in DOMAIN t.cs, i < j
      PROVE  t.cs[i] < t.cs[j]
  <2>1. PICK c \in Nat : c = Len(s.cs) /\ DOMAIN s.cs = 1 .. c
    BY <1>1
  <2>2. \A k \in DOMAIN s.cs : t.cs[k] = s.cs[k] /\ s.cs[k] \in 2 .. m
    BY <1>1, <1>2, <1>5 DEF Good
  <2>3. \A k \in DOMAIN t.cs : k \in Nat
    BY <1>5
  <2>4. i \in DOMAIN s.cs
    <3>1. /\ i \in 1 .. c \/ i = c + 1
          /\ j \in 1 .. c \/ j = c + 1
      BY <1>5, <1>9, <2>1
    <3> QED
      BY <1>9, <2>1, <3>1
  <2>5. CASE j \in DOMAIN s.cs
    BY <1>1, <1>9, <2>2, <2>4, <2>5 DEF Good
  <2>6. CASE j \notin DOMAIN s.cs
    <3>1. t.cs[j] = m + 1
      BY <1>2, <1>5, <2>6
    <3> QED
      BY <2>2, <2>4, <3>1
  <2> QED
    BY <2>5, <2>6
<1>10. t \in Open
  BY <1>4, <1>5, <1>6, <1>7, <1>8, <1>9 DEF Open, Good
<1> QED
  BY <1>10 DEF t

LEMMA Pushes ==
    ASSUME NEW s \in Open
    PROVE  /\ Entered(s) \in Open /\ Left(Entered(s)) = s
           /\ Entered(s).in = s.in /\ Entered(s).ok = s.ok
           /\ LuaEntered(s) \in Open /\ LuaLeft(LuaEntered(s), s.in) = s
           /\ LuaEntered(s).in = 0
<1>1. /\ s \in Shape /\ Good(s) /\ s.ts # <<>>
      /\ s.ts \in Seq({0, 1}) /\ s.in \in Nat /\ s.cs \in Seq(Nat)
      /\ s = [ts |-> s.ts, in |-> s.in, cs |-> s.cs, ok |-> s.ok]
  BY DEF Open, Shape
<1>2. Kind(s) \in {0, 1} /\ (Kind(s) = 1 <=> s.in > 0)
  BY <1>1 DEF Kind
<1>3. Entered(s) \in Open
  <2>1. (Kind(s) = 1 /\ s.in = 0) => FALSE
    BY <1>2
  <2> QED
    BY <1>1, <1>2, <2>1, GoodPush DEF Entered
<1>4. \A x \in {0, 1} : Pop(Append(s.ts, x)) = s.ts
  BY <1>1, Pushed
<1>5. Left(Entered(s)) = s /\ Entered(s).in = s.in /\ Entered(s).ok = s.ok
  BY <1>1, <1>2, <1>4 DEF Left, Entered
<1>6. LuaEntered(s) \in Open /\ LuaEntered(s).in = 0
  <2>1. 0 \in {0, 1} /\ 0 \in Nat /\ (0 = 1 <=> 0 > 0) /\ ~(0 = 1)
    OBVIOUS
  <2>2. [ts |-> Append(s.ts, 0), in |-> 0, cs |-> s.cs, ok |-> s.ok] \in Open
    BY <1>1, <2>1, GoodPush, Zenon
  <2> QED
    BY <2>2 DEF LuaEntered
<1>7. LuaLeft(LuaEntered(s), s.in) = s
  BY <1>1, <1>4 DEF LuaLeft, LuaEntered
<1> QED
  BY <1>3, <1>5, <1>6, <1>7

LEMMA TerraPushes ==
    ASSUME NEW s \in Open, s.ok => s.in = 0
    PROVE  /\ TerraEntered(s) \in Open /\ TerraLeft(TerraEntered(s)) = s
           /\ TerraEntered(s).in > 0 /\ Len(TerraEntered(s).ts) > 1
           /\ TerraEntered(s).cs # <<>>
           /\ TerraEntered(s).cs[Len(TerraEntered(s).cs)] = Len(TerraEntered(s).ts)
<1>1. /\ s \in Shape /\ Good(s) /\ s.ts # <<>>
      /\ s.ts \in Seq({0, 1}) /\ s.in \in Nat /\ s.cs \in Seq(Nat)
      /\ s = [ts |-> s.ts, in |-> s.in, cs |-> s.cs, ok |-> s.ok]
  BY DEF Open, Shape
<1>2. PICK m \in Nat : m = Len(s.ts)
  BY <1>1
<1>3. PICK c \in Nat : c = Len(s.cs)
  BY <1>1
<1>4. Pop(Append(s.ts, 1)) = s.ts
  BY <1>1, Pushed
<1>8. /\ Append(s.cs, m + 1) \in Seq(Nat) /\ Len(Append(s.cs, m + 1)) = c + 1
      /\ Append(s.cs, m + 1)[c + 1] = m + 1 /\ Pop(Append(s.cs, m + 1)) = s.cs
      /\ DOMAIN s.cs = 1 .. c /\ DOMAIN Append(s.cs, m + 1) = 1 .. c + 1
      /\ \A i \in DOMAIN s.cs : /\ i \in DOMAIN Append(s.cs, m + 1)
                                /\ Append(s.cs, m + 1)[i] = s.cs[i]
  <2>1. m + 1 \in Nat /\ DOMAIN s.cs = 1 .. c
    BY <1>1, <1>3
  <2>2. /\ Append(s.cs, m + 1) \in Seq(Nat) /\ Len(Append(s.cs, m + 1)) = c + 1
        /\ Append(s.cs, m + 1)[c + 1] = m + 1 /\ Pop(Append(s.cs, m + 1)) = s.cs
        /\ \A i \in 1 .. c : Append(s.cs, m + 1)[i] = s.cs[i]
    BY <1>1, <1>3, <2>1, Pushed
  <2>3. DOMAIN Append(s.cs, m + 1) = 1 .. c + 1
    BY <2>2
  <2> QED
    BY <2>1, <2>2, <2>3
<1>9. TerraEntered(s) =
        [ts |-> Append(s.ts, 1), in |-> s.in + 1, cs |-> Append(s.cs, m + 1), ok |-> s.ok]
  BY <1>2 DEF TerraEntered
<1>10. TerraEntered(s) \in Open
  <2>1. \E i \in DOMAIN Append(s.cs, m + 1) : Append(s.cs, m + 1)[i] = Len(s.ts) + 1
    BY <1>2, <1>8
  <2>2. s.in + 1 \in Nat /\ s.in + 1 > 0
    BY <1>1
  <2>3. \A i \in DOMAIN Append(s.cs, m + 1) :
            \/ i \in DOMAIN s.cs
            \/ /\ Append(s.cs, m + 1)[i] = Len(s.ts) + 1 /\ i = Len(s.cs) + 1
               /\ s.ok => 1 = 1 /\ s.in = 0
    <3>1. \A i \in 1 .. c + 1 : i \in 1 .. c \/ i = c + 1
      OBVIOUS
    <3> QED
      BY <1>2, <1>3, <1>8, <3>1
  <2>4. [ts |-> Append(s.ts, 1), in |-> s.in + 1, cs |-> Append(s.cs, m + 1), ok |-> s.ok]
            \in Open
    BY <1>1, <1>8, <2>1, <2>2, <2>3, GoodPush
  <2> QED
    BY <1>9, <2>4
<1>11. TerraLeft(TerraEntered(s)) = s
  <2>1. (s.in + 1) - 1 = s.in
    BY <1>1
  <2> QED
    BY <1>1, <1>4, <1>8, <1>9, <2>1 DEF TerraLeft
<1>12. Len(Append(s.ts, 1)) = m + 1 /\ m > 0
  BY <1>1, <1>2
<1>13. /\ TerraEntered(s).in > 0 /\ Len(TerraEntered(s).ts) > 1
       /\ TerraEntered(s).cs # <<>>
       /\ TerraEntered(s).cs[Len(TerraEntered(s).cs)] = Len(TerraEntered(s).ts)
  BY <1>1, <1>8, <1>9, <1>12
<1> QED
  BY <1>10, <1>11, <1>13
-----------------------------------------------------------------------------
(* The operations that todo can hold.                                      *)
Op ==
    {Tok, Enter, Leave, LeaveRepeat, Stats, Expr, Down, EnterTerra, Returns1, Finish,
     Bind}
        \cup {Define(ns) : ns \in SUBSET Names}
        \cup {Declare(ns) : ns \in SUBSET Names}
        \cup {Ref(n) : n \in Names}
        \cup {LeaveTerra(ns) : ns \in SUBSET Names}
        \cup {LeaveLanguage(ns) : ns \in SUBSET Names}
        \cup {Embedded(ops) : ops \in LuaCode}
        \cup {Resume(n) : n \in Nat}
        \cup {Language(local) : local \in BOOLEAN}

LEMMA OpsAreOps ==
    /\ Tok \in Op /\ Enter \in Op /\ Leave \in Op /\ LeaveRepeat \in Op
    /\ Stats \in Op /\ Expr \in Op /\ Down \in Op /\ EnterTerra \in Op
    /\ Returns1 \in Op /\ Finish \in Op /\ Bind \in Op
    /\ \A ns \in SUBSET Names : /\ Define(ns) \in Op /\ Declare(ns) \in Op
                                /\ LeaveTerra(ns) \in Op /\ LeaveLanguage(ns) \in Op
    /\ \A n \in Names : Ref(n) \in Op
    /\ \A ops \in LuaCode : Embedded(ops) \in Op
    /\ \A n \in Nat : Resume(n) \in Op
    /\ \A local \in BOOLEAN : Language(local) \in Op
BY Zenon DEF Op

LEMMA SameSeq ==
    ASSUME NEW S, NEW p \in Seq(S), NEW q \in Seq(S), NEW n \in Nat,
           Len(p) = n, Len(q) = n, \A i \in 1 .. n : p[i] = q[i]
    PROVE  p = q
OBVIOUS

LEMMA TwoOps ==
    ASSUME NEW a \in Op, NEW b \in Op
    PROVE  <<a>> \o <<b>> = <<a, b>>
<1>1. <<a>> \o <<b>> \in Seq(Op) /\ <<a, b>> \in Seq(Op) /\ Len(<<a>> \o <<b>>) = 2
      /\ Len(<<a, b>>) = 2
  OBVIOUS
<1>2. (<<a>> \o <<b>>)[1] = a /\ (<<a>> \o <<b>>)[2] = b
  OBVIOUS
<1>3. \A i \in 1 .. 2 : i = 1 \/ i = 2
  OBVIOUS
<1>4. \A i \in 1 .. 2 : (<<a>> \o <<b>>)[i] = <<a, b>>[i]
  BY <1>2, <1>3
<1> QED
  BY <1>1, <1>4, SameSeq

LEMMA ThreeOps ==
    ASSUME NEW a \in Op, NEW b \in Op, NEW c \in Op
    PROVE  <<a>> \o <<b, c>> = <<a, b, c>>
<1>1. <<a>> \o <<b, c>> \in Seq(Op) /\ <<a, b, c>> \in Seq(Op)
      /\ Len(<<a>> \o <<b, c>>) = 3 /\ Len(<<a, b, c>>) = 3
  OBVIOUS
<1>2. (<<a>> \o <<b, c>>)[1] = a /\ (<<a>> \o <<b, c>>)[2] = b /\ (<<a>> \o <<b, c>>)[3] = c
  OBVIOUS
<1>3. \A i \in 1 .. 3 : i = 1 \/ i = 2 \/ i = 3
  OBVIOUS
<1>4. \A i \in 1 .. 3 : (<<a>> \o <<b, c>>)[i] = <<a, b, c>>[i]
  BY <1>2, <1>3
<1> QED
  BY <1>1, <1>4, SameSeq

LEMMA FourOps ==
    ASSUME NEW a \in Op, NEW b \in Op, NEW c \in Op, NEW d \in Op
    PROVE  <<a>> \o <<b, c, d>> = <<a, b, c, d>>
<1>1. <<a>> \o <<b, c, d>> \in Seq(Op) /\ <<a, b, c, d>> \in Seq(Op)
      /\ Len(<<a>> \o <<b, c, d>>) = 4 /\ Len(<<a, b, c, d>>) = 4
  OBVIOUS
<1>2. /\ (<<a>> \o <<b, c, d>>)[1] = a
      /\ (<<a>> \o <<b, c, d>>)[2] = b
      /\ (<<a>> \o <<b, c, d>>)[3] = c
      /\ (<<a>> \o <<b, c, d>>)[4] = d
  OBVIOUS
<1>3. \A i \in 1 .. 4 : i = 1 \/ i = 2 \/ i = 3 \/ i = 4
  OBVIOUS
<1>4. \A i \in 1 .. 4 : (<<a>> \o <<b, c, d>>)[i] = <<a, b, c, d>>[i]
  BY <1>2, <1>3
<1> QED
  BY <1>1, <1>4, SameSeq

(* ops are operations that take the shape s to u.                          *)
Takes(ops, s, u) == ops \in Seq(Op) /\ Runs(ops, s, u)

LEMMA TakesNothing ==
    ASSUME NEW s \in Open
    PROVE  Takes(<<>>, s, s)
<1>1. <<>> \in Seq(Op)
  OBVIOUS
<1> QED
  BY <1>1, RunsNothing DEF Takes, Open

LEMMA TakesOne ==
    ASSUME NEW op \in Op, NEW s \in Shape, NEW t \in Shape, Good(s), Good(t), Does(op, s, t)
    PROVE  Takes(<<op>>, s, t)
<1>1. <<op>> \in Seq(Op)
  OBVIOUS
<1>2. Runs(<<op>>, s, t)
  BY RunsOne
<1> QED
  BY <1>1, <1>2 DEF Takes

LEMMA TakesConcat ==
    ASSUME NEW a, NEW b, NEW s, NEW t, NEW u, Takes(a, s, t), Takes(b, t, u)
    PROVE  Takes(a \o b, s, u)
<1>1. a \in Seq(Op) /\ b \in Seq(Op) /\ Runs(a, s, t) /\ Runs(b, t, u)
  BY DEF Takes
<1>2. Runs(a \o b, s, u)
  BY <1>1, RunsConcat
<1>3. a \o b \in Seq(Op)
  BY <1>1
<1> QED
  BY <1>2, <1>3 DEF Takes

LEMMA TakesFirst ==
    ASSUME NEW op \in Op, NEW ops, NEW s \in Shape, NEW t \in Shape, NEW u,
           Good(s), Good(t), Does(op, s, t), Takes(ops, t, u)
    PROVE  Takes(<<op>> \o ops, s, u)
BY TakesOne, TakesConcat

LEMMA TakesHead ==
    ASSUME NEW ops, ops # <<>>, NEW s, NEW u, Takes(ops, s, u)
    PROVE  \E t \in Shape : /\ s \in Shape /\ Good(s) /\ Good(t)
                            /\ Does(Head(ops), s, t) /\ Takes(Tail(ops), t, u)
<1>1. ops \in Seq(Op) /\ Runs(ops, s, u)
  BY DEF Takes
<1>2. PICK t \in Shape : /\ s \in Shape /\ Good(s) /\ Good(t)
                         /\ Does(Head(ops), s, t) /\ Runs(Tail(ops), t, u)
  BY <1>1, RunsHead
<1>3. Tail(ops) \in Seq(Op)
  BY <1>1
<1> QED
  BY <1>2, <1>3 DEF Takes

LEMMA TakesTwo ==
    ASSUME NEW a \in Op, NEW b \in Op, NEW s \in Open, NEW t \in Open, NEW u \in Open,
           Does(a, s, t), Does(b, t, u)
    PROVE  Takes(<<a, b>>, s, u)
<1>1. s \in Shape /\ Good(s) /\ t \in Shape /\ Good(t) /\ u \in Shape /\ Good(u)
  BY DEF Open
<1>2. Takes(<<b>>, t, u)
  BY <1>1, TakesOne
<1>3. Takes(<<a>> \o <<b>>, s, u)
  BY <1>1, <1>2, TakesFirst
<1>4. <<a>> \o <<b>> = <<a, b>>
  BY TwoOps, ZenonT(40)
<1> QED
  BY <1>3, <1>4, Zenon

LEMMA TakesThree ==
    ASSUME NEW a \in Op, NEW b \in Op, NEW c \in Op,
           NEW s \in Open, NEW t \in Open, NEW u \in Open, NEW v \in Open,
           Does(a, s, t), Does(b, t, u), Does(c, u, v)
    PROVE  Takes(<<a, b, c>>, s, v)
<1>1. s \in Shape /\ Good(s) /\ t \in Shape /\ Good(t)
  BY DEF Open
<1>2. Takes(<<b, c>>, t, v)
  BY TakesTwo
<1>3. Takes(<<a>> \o <<b, c>>, s, v)
  BY <1>1, <1>2, TakesFirst
<1>4. <<a>> \o <<b, c>> = <<a, b, c>>
  BY ThreeOps, ZenonT(40)
<1> QED
  BY <1>3, <1>4, Zenon

LEMMA TakesFour ==
    ASSUME NEW a \in Op, NEW b \in Op, NEW c \in Op, NEW d \in Op,
           NEW s \in Open, NEW t \in Open, NEW u \in Open, NEW v \in Open, NEW w \in Open,
           Does(a, s, t), Does(b, t, u), Does(c, u, v), Does(d, v, w)
    PROVE  Takes(<<a, b, c, d>>, s, w)
<1>1. s \in Shape /\ Good(s) /\ t \in Shape /\ Good(t)
  BY DEF Open
<1>2. Takes(<<b, c, d>>, t, w)
  BY TakesThree
<1>3. Takes(<<a>> \o <<b, c, d>>, s, w)
  BY <1>1, <1>2, TakesFirst
<1>4. <<a>> \o <<b, c, d>> = <<a, b, c, d>>
  BY FourOps, ZenonT(40)
<1> QED
  BY <1>3, <1>4, Zenon

LEMMA TakesFive ==
    ASSUME NEW a \in Op, NEW b \in Op, NEW c \in Op, NEW d \in Op, NEW g \in Op,
           NEW s \in Open, NEW t \in Open, NEW u \in Open, NEW v \in Open, NEW w \in Open,
           NEW x \in Open,
           Does(a, s, t), Does(b, t, u), Does(c, u, v), Does(d, v, w), Does(g, w, x)
    PROVE  Takes(<<a, b, c, d, g>>, s, x)
<1>1. s \in Shape /\ Good(s) /\ t \in Shape /\ Good(t)
  BY DEF Open
<1>2. Takes(<<b, c, d, g>>, t, x)
  BY TakesFour
<1>3. Takes(<<a>> \o <<b, c, d, g>>, s, x)
  BY <1>1, <1>2, TakesFirst
<1>4. <<a>> \o <<b, c, d, g>> = <<a, b, c, d, g>>
  <2>1. <<a>> \o <<b, c, d, g>> \in Seq(Op) /\ <<a, b, c, d, g>> \in Seq(Op)
        /\ Len(<<a>> \o <<b, c, d, g>>) = 5 /\ Len(<<a, b, c, d, g>>) = 5
    OBVIOUS
  <2>2. /\ (<<a>> \o <<b, c, d, g>>)[1] = a
        /\ (<<a>> \o <<b, c, d, g>>)[2] = b
        /\ (<<a>> \o <<b, c, d, g>>)[3] = c
        /\ (<<a>> \o <<b, c, d, g>>)[4] = d
        /\ (<<a>> \o <<b, c, d, g>>)[5] = g
    OBVIOUS
  <2>3. \A i \in 1 .. 5 : i = 1 \/ i = 2 \/ i = 3 \/ i = 4 \/ i = 5
    OBVIOUS
  <2>4. \A i \in 1 .. 5 : (<<a>> \o <<b, c, d, g>>)[i] = <<a, b, c, d, g>>[i]
    BY <2>2, <2>3
  <2> QED
    BY <2>1, <2>4, SameSeq
<1> QED
  BY <1>3, <1>4, Zenon
-----------------------------------------------------------------------------
(* What the single operations do to shapes with an open block.             *)
LEMMA Stays ==
    ASSUME NEW s \in Open
    PROVE  /\ Does(Tok, s, s) /\ Does(Stats, s, s) /\ Does(Expr, s, s)
           /\ Does(Down, s, s) /\ Does(Bind, s, s)
           /\ s.in = 0 => Does(Returns1, s, s)
           /\ \A ns \in SUBSET Names : Does(Define(ns), s, s) /\ Does(Declare(ns), s, s)
           /\ \A n \in Names : Does(Ref(n), s, s)
           /\ s.in > 0 => \A ops \in LuaCode : Does(Embedded(ops), s, s)
<1>1. s.ts # <<>>
  BY DEF Open
<1>2. /\ Does(Tok, s, s) /\ Does(Stats, s, s) /\ Does(Expr, s, s)
      /\ Does(Down, s, s) /\ Does(Bind, s, s)
      /\ s.in = 0 => Does(Returns1, s, s)
  BY <1>1 DEF Does, SameTags, Tok, Stats, Expr, Down, Returns1, Bind
<1>3. ASSUME NEW ns \in SUBSET Names
      PROVE  Does(Define(ns), s, s) /\ Does(Declare(ns), s, s)
  BY <1>1 DEF Does, Define, Declare
<1>4. ASSUME NEW n \in Names PROVE Does(Ref(n), s, s)
  BY <1>1 DEF Does, Ref
<1>5. ASSUME s.in > 0, NEW ops \in LuaCode PROVE Does(Embedded(ops), s, s)
  BY <1>1, <1>5 DEF Does, Embedded
<1> QED
  BY <1>2, <1>3, <1>4, <1>5

LEMMA Pairs ==
    ASSUME NEW s \in Open
    PROVE  /\ Does(Enter, s, Entered(s))
           /\ Does(Leave, Entered(s), s) /\ Does(LeaveRepeat, Entered(s), s)
           /\ Does(Resume(s.in), LuaEntered(s), s)
<1>1. s.ts # <<>> /\ s.in \in Nat
  BY DEF Open
<1>2. Does(Enter, s, Entered(s))
  BY <1>1 DEF Does, Enter
<1>3. Entered(s).ts # <<>> /\ LuaEntered(s).ts # <<>>
  BY Pushes DEF Open
<1>4. Does(Leave, Entered(s), s) /\ Does(LeaveRepeat, Entered(s), s)
  BY <1>3, Pushes DEF Does, Leave, LeaveRepeat
<1>5. Does(Resume(s.in), LuaEntered(s), s)
  BY <1>1, <1>3, Pushes DEF Does, Resume
<1> QED
  BY <1>2, <1>4, <1>5

LEMMA TerraPairs ==
    ASSUME NEW s \in Open, s.ok => s.in = 0
    PROVE  /\ Does(EnterTerra, s, TerraEntered(s))
           /\ \A ns \in SUBSET Names : /\ Does(LeaveTerra(ns), TerraEntered(s), s)
                                       /\ Does(LeaveLanguage(ns), TerraEntered(s), s)
           /\ \A local \in BOOLEAN : Does(Language(local), TerraEntered(s), s)
<1>1. s.ts # <<>>
  BY DEF Open
<1>2. Does(EnterTerra, s, TerraEntered(s))
  BY <1>1 DEF Does, EnterTerra
<1>3. TerraEntered(s).ts # <<>>
  BY TerraPushes DEF Open
<1> DEFINE t == TerraEntered(s)
<1>5. /\ t.ts # <<>> /\ t.in > 0 /\ Len(t.ts) > 1 /\ t.cs # <<>>
      /\ t.cs[Len(t.cs)] = Len(t.ts) /\ s = TerraLeft(t)
  BY <1>3, TerraPushes
<1> HIDE DEF t
<1>6. ASSUME NEW ns \in SUBSET Names
      PROVE  Does(LeaveTerra(ns), t, s) /\ Does(LeaveLanguage(ns), t, s)
  BY <1>5 DEF Does, LeaveTerra, LeaveLanguage
<1>7. ASSUME NEW local \in BOOLEAN PROVE Does(Language(local), t, s)
  BY <1>5 DEF Does, Language
<1> QED
  BY <1>2, <1>6, <1>7 DEF t

(* Nothing matters any more.                                               *)
LEMMA DeadTakes ==
    ASSUME NEW ops \in Seq(Op)
    PROVE  Takes(ops, Dead, Dead)
<1>1. Dead \in Shape /\ Good(Dead)
  BY DEF Dead, Shape, Good
<1>2. PICK n \in Nat : n = Len(ops)
  OBVIOUS
<1> DEFINE f == [i \in 1 .. n + 1 |-> Dead]
<1>3. f \in [1 .. n + 1 -> Shape] /\ \A i \in 1 .. n + 1 : f[i] = Dead
  BY <1>1
<1> HIDE DEF f
<1>4. \A i \in 1 .. n : i \in 1 .. n + 1 /\ i + 1 \in 1 .. n + 1
  OBVIOUS
<1>5. \A i \in 1 .. n : Does(ops[i], f[i], f[i + 1])
  BY <1>3, <1>4 DEF Does
<1>6. 1 \in 1 .. n + 1 /\ n + 1 \in 1 .. n + 1
  OBVIOUS
<1>7. Runs(ops, Dead, Dead)
  BY <1>1, <1>2, <1>3, <1>5, <1>6 DEF Runs
<1> QED
  BY <1>7 DEF Takes
-----------------------------------------------------------------------------
(* The rules of the grammar leave the shape as they find it.               *)
LEMMA RestTakes ==
    ASSUME NEW s \in Open
    PROVE  Takes(Rest, Entered(s), s)
<1>1. Entered(s) \in Open
  BY Pushes
<1>2. Does(Stats, Entered(s), Entered(s)) /\ Does(Leave, Entered(s), s) /\ Does(Tok, s, s)
  BY <1>1, Stays, Pairs
<1>3. Takes(<<Stats, Leave, Tok>>, Entered(s), s)
  BY <1>1, <1>2, OpsAreOps, TakesThree
<1> QED
  BY <1>3 DEF Rest

LEMMA LoopsTake ==
    ASSUME NEW s \in Open
    PROVE  /\ Takes(CondRule, s, s) /\ Takes(RepeatRule, s, s)
           /\ \A ns \in SUBSET Names : /\ Takes(FornumRule(ns), s, s)
                                       /\ Takes(ForlistRule(ns), s, s)
                                       /\ Takes(LocalRule(ns), s, s)
<1> DEFINE e == Entered(s)
<1>1. e \in Open
  BY Pushes
<1>2. /\ Does(Enter, s, e) /\ Does(LeaveRepeat, e, s)
      /\ Takes(Rest, e, s)
  BY Pairs, RestTakes
<1> HIDE DEF e
<1>3. Takes(CondRule, s, s)
  <2>1. Takes(<<Expr, Tok, Enter>>, s, e)
    BY <1>1, <1>2, OpsAreOps, Stays, TakesThree
  <2> QED
    BY <1>2, <2>1, TakesConcat DEF CondRule
<1>4. Takes(RepeatRule, s, s)
  <2>1. Does(Stats, e, e) /\ Does(Tok, e, e) /\ Does(Expr, e, e)
    BY <1>1, Stays
  <2>2. Takes(<<Enter, Stats, Tok, Expr, LeaveRepeat>>, s, s)
    BY <1>1, <1>2, <2>1, OpsAreOps, TakesFive
  <2> QED
    BY <2>2 DEF RepeatRule
<1>5. ASSUME NEW ns \in SUBSET Names
      PROVE  Takes(FornumRule(ns), s, s) /\ Takes(ForlistRule(ns), s, s)
             /\ Takes(LocalRule(ns), s, s)
  <2>1. /\ Does(Expr, e, e) /\ Does(Tok, e, e)
        /\ Does(Define(ns), e, e) /\ Does(Declare(ns), e, e) /\ Does(Bind, e, e)
    BY <1>1, Stays
  <2>2. Define(ns) \in Op /\ Declare(ns) \in Op /\ Bind \in Op
    BY OpsAreOps
  <2>3. Takes(FornumRule(ns), s, s)
    <3>1. Takes(<<Enter, Expr, Define(ns), Tok>>, s, e)
      BY <1>1, <1>2, <2>1, <2>2, OpsAreOps, TakesFour
    <3> QED
      BY <1>2, <3>1, TakesConcat DEF FornumRule
  <2>4. Takes(ForlistRule(ns), s, s)
    <3>1. Takes(<<Enter, Declare(ns), Expr, Bind, Tok>>, s, e)
      BY <1>1, <1>2, <2>1, <2>2, OpsAreOps, TakesFive
    <3> QED
      BY <1>2, <3>1, TakesConcat DEF ForlistRule
  <2>5. Takes(LocalRule(ns), s, s)
    <3>1. Takes(<<Expr, Define(ns)>>, s, s)
      BY <2>2, OpsAreOps, Stays, TakesTwo
    <3> QED
      BY <3>1 DEF LocalRule
  <2> QED
    BY <2>3, <2>4, <2>5
<1> QED
  BY <1>3, <1>4, <1>5

LEMMA TypeTakes ==
    ASSUME NEW s \in Open, s.in > 0
    PROVE  Type \in Op /\ Does(Type, s, s)
<1>1. <<Expr>> \in LuaCode
  BY DEF LuaCode
<1> QED
  BY <1>1, OpsAreOps, Stays DEF Type

LEMMA BodiesTake ==
    ASSUME NEW s \in Open, NEW ns \in SUBSET Names
    PROVE  /\ Takes(LuaBody(ns), s, s)
           /\ s.in > 0 => Takes(TerraBody(ns), s, s)
<1> DEFINE e == Entered(s)
<1>1. e \in Open /\ e.in = s.in
  BY Pushes DEF Entered
<1>2. Does(Enter, s, e) /\ Takes(Rest, e, s)
  BY Pairs, RestTakes
<1> HIDE DEF e
<1>3. Does(Define(ns), e, e) /\ Does(Declare(ns), e, e) /\ Does(Bind, e, e)
  BY <1>1, Stays
<1>4. Define(ns) \in Op /\ Declare(ns) \in Op /\ Bind \in Op
  BY OpsAreOps
<1>5. Takes(LuaBody(ns), s, s)
  <2>1. Takes(<<Enter, Define(ns)>>, s, e)
    BY <1>1, <1>2, <1>3, <1>4, OpsAreOps, TakesTwo
  <2> QED
    BY <1>2, <2>1, TakesConcat DEF LuaBody
<1>6. ASSUME s.in > 0 PROVE Takes(TerraBody(ns), s, s)
  <2>1. Type \in Op /\ Does(Type, e, e)
    BY <1>1, <1>6, TypeTakes
  <2>2. Takes(<<Enter, Declare(ns), Type, Bind>>, s, e)
    BY <1>1, <1>2, <1>3, <1>4, <2>1, OpsAreOps, TakesFour
  <2> QED
    BY <1>2, <2>2, TakesConcat DEF TerraBody
<1> QED
  BY <1>5, <1>6

LEMMA QuotesTake ==
    ASSUME NEW s \in Open, s.ok => s.in = 0
    PROVE  /\ Takes(QuoteExp, s, s)
           /\ Takes(QuoteStats(<<>>), s, s) /\ Takes(QuoteStats(In), s, s)
           /\ \A ops \in LuaCode : Takes(ops, s, s)
<1> DEFINE t == TerraEntered(s)
           e == Entered(t)
<1>1. t \in Open
  BY TerraPushes
<1>2. e \in Open
  BY <1>1, Pushes
<1>3. Does(EnterTerra, s, t) /\ Does(LeaveTerra({}), t, s) /\ LeaveTerra({}) \in Op
  BY OpsAreOps, TerraPairs
<1> HIDE DEF t
<1>4. Does(Enter, t, e) /\ Does(Leave, e, t)
  BY <1>1, Pairs
<1> HIDE DEF e
<1>5. /\ Does(Expr, t, t)
      /\ Does(Tok, e, e) /\ Does(Expr, e, e) /\ Does(Stats, e, e)
  BY <1>1, <1>2, Stays
<1>6. Takes(QuoteExp, s, s)
  <2>1. Takes(<<EnterTerra, Expr, LeaveTerra({})>>, s, s)
    BY <1>1, <1>3, <1>5, OpsAreOps, TakesThree
  <2> QED
    BY <2>1 DEF QuoteExp
<1>7. ASSUME NEW rest, Takes(rest, e, e) PROVE Takes(QuoteStats(rest), s, s)
  <2>1. Takes(<<EnterTerra, Enter, Stats>>, s, e)
    BY <1>1, <1>2, <1>3, <1>4, <1>5, OpsAreOps, TakesThree
  <2>2. Takes(<<Leave, LeaveTerra({})>>, e, s)
    BY <1>1, <1>2, <1>3, <1>4, OpsAreOps, TakesTwo
  <2>3. Takes(<<EnterTerra, Enter, Stats>> \o rest, s, e)
    BY <1>7, <2>1, TakesConcat
  <2> QED
    BY <2>2, <2>3, TakesConcat DEF QuoteStats
<1>8. Takes(QuoteStats(<<>>), s, s)
  BY <1>2, <1>7, TakesNothing
<1>9. Takes(QuoteStats(In), s, s)
  <2>1. Takes(<<Tok, Expr, Tok>>, e, e)
    BY <1>2, <1>5, OpsAreOps, TakesThree
  <2> QED
    BY <1>7, <2>1 DEF In
<1>10. Takes(<<Expr>>, s, s) /\ Takes(<<Stats>>, s, s)
  BY OpsAreOps, Stays, TakesOne DEF Open
<1> QED
  BY <1>6, <1>8, <1>9, <1>10 DEF LuaCode

(* The descriptions of what terrastats defines.                            *)
Definables ==
    [kind : {"terra", "struct", "declared"}, local : BOOLEAN, name : Names,
     params : SUBSET Names]

LEMMA DefinitionTakes ==
    ASSUME NEW s \in Open, s.in > 0, NEW d \in Definables
    PROVE  Takes(Definition(d), s, s)
<1>1. /\ d.kind \in {"terra", "struct", "declared"} /\ d.local \in BOOLEAN
      /\ d.name \in Names /\ d.params \in SUBSET Names
  BY DEF Definables
<1> DEFINE a == IF d.local THEN <<>> ELSE <<Ref(d.name)>>
           b == CASE d.kind = "terra" -> TerraBody(d.params)
                  [] d.kind = "struct" -> <<Type, Tok>>
                  [] d.kind = "declared" -> <<>>
<1>2. Takes(a, s, s)
  <2>1. CASE d.local
    BY <2>1, TakesNothing
  <2>2. CASE ~d.local
    <3>1. Takes(<<Ref(d.name)>>, s, s)
      BY <1>1, OpsAreOps, Stays, TakesOne DEF Open
    <3> QED
      BY <2>2, <3>1
  <2> QED
    BY <2>1, <2>2
<1>3. Takes(b, s, s)
  <2>1. CASE d.kind = "terra"
    BY <1>1, <2>1, BodiesTake
  <2>2. CASE d.kind = "struct"
    <3>1. Takes(<<Type, Tok>>, s, s)
      BY OpsAreOps, Stays, TypeTakes, TakesTwo
    <3> QED
      BY <2>2, <3>1
  <2>3. CASE d.kind = "declared"
    BY <2>3, TakesNothing
  <2> QED
    BY <1>1, <2>1, <2>2, <2>3
<1>4. Takes(a \o b, s, s)
  <2> HIDE DEF a, b
  <2> QED BY <1>2, <1>3, TakesConcat
<1> QED
  BY <1>4 DEF Definition
-----------------------------------------------------------------------------
(* The shapes of the blocks and constructs of the parser.                  *)
BlockSet ==
    {b \in [terra : BOOLEAN, defined : SUBSET Names, bound : SUBSET Names, exts : Nat] :
        b.bound \subseteq b.defined}
CntSet == [block : Nat, captured : SUBSET Names, needed : SUBSET (Names \X BOOLEAN)]

Tags(bs) == [k \in 1 .. Len(bs) |-> IF bs[k].terra THEN 1 ELSE 0]
Places(cs) == [i \in 1 .. Len(cs) |-> cs[i].block]

ShapeOf(bs, n, cs, ok) == [ts |-> Tags(bs), in |-> n, cs |-> Places(cs), ok |-> ok]

LEMMA TagsType ==
    ASSUME NEW bs \in Seq(BlockSet)
    PROVE  /\ Tags(bs) \in Seq({0, 1}) /\ Len(Tags(bs)) = Len(bs)
           /\ \A k \in 1 .. Len(bs) : Tags(bs)[k] = 1 <=> bs[k].terra
           /\ \A k \in 1 .. Len(bs) : bs[k] \in BlockSet
           /\ Tags(bs) = <<>> <=> bs = <<>>
<1>1. PICK n \in Nat : n = Len(bs)
  OBVIOUS
<1>2. \A k \in 1 .. n : bs[k] \in BlockSet
  BY <1>1
<1>3. Tags(bs) \in [1 .. n -> {0, 1}]
  BY <1>1 DEF Tags
<1>4. Tags(bs) \in Seq({0, 1}) /\ Len(Tags(bs)) = n
  BY <1>3
<1>5. \A k \in 1 .. n : Tags(bs)[k] = 1 <=> bs[k].terra
  BY <1>1 DEF Tags
<1>6. Tags(bs) = <<>> <=> bs = <<>>
  BY <1>1, <1>4
<1> QED
  BY <1>1, <1>2, <1>4, <1>5, <1>6

LEMMA PlacesType ==
    ASSUME NEW cs \in Seq(CntSet)
    PROVE  /\ Places(cs) \in Seq(Nat) /\ Len(Places(cs)) = Len(cs)
           /\ DOMAIN Places(cs) = DOMAIN cs
           /\ \A i \in DOMAIN cs : Places(cs)[i] = cs[i].block /\ cs[i] \in CntSet
           /\ Places(cs) = <<>> <=> cs = <<>>
<1>1. PICK n \in Nat : n = Len(cs) /\ DOMAIN cs = 1 .. n
  OBVIOUS
<1>2. \A i \in 1 .. n : cs[i] \in CntSet
  BY <1>1
<1>3. \A i \in 1 .. n : cs[i].block \in Nat
  BY <1>2 DEF CntSet
<1>4. Places(cs) \in [1 .. n -> Nat]
  BY <1>1, <1>3 DEF Places
<1>5. Places(cs) \in Seq(Nat) /\ Len(Places(cs)) = n
  BY <1>4
<1>6. \A i \in 1 .. n : Places(cs)[i] = cs[i].block
  BY <1>1 DEF Places
<1>7. Places(cs) = <<>> <=> cs = <<>>
  BY <1>1, <1>5
<1> QED
  BY <1>1, <1>2, <1>4, <1>5, <1>6, <1>7

LEMMA ShapeOfType ==
    ASSUME NEW bs \in Seq(BlockSet), NEW n \in Nat, NEW cs \in Seq(CntSet),
           NEW ok \in BOOLEAN
    PROVE  ShapeOf(bs, n, cs, ok) \in Shape
BY TagsType, PlacesType DEF ShapeOf, Shape

LEMMA BlockPushed ==
    ASSUME NEW bs \in Seq(BlockSet), NEW b \in BOOLEAN
    PROVE  /\ Append(bs, Block(b)) \in Seq(BlockSet)
           /\ Tags(Append(bs, Block(b))) = Append(Tags(bs), IF b THEN 1 ELSE 0)
<1> DEFINE x == Block(b)
           y == IF b THEN 1 ELSE 0
           c == Append(bs, x)
<1>1. x \in BlockSet
  BY DEF Block, BlockSet
<1>2. y \in {0, 1} /\ (IF x.terra THEN 1 ELSE 0) = y
  BY DEF Block
<1> HIDE DEF x, y
<1>3. PICK n \in Nat : n = Len(bs)
  OBVIOUS
<1>4. /\ c \in Seq(BlockSet) /\ Len(c) = n + 1 /\ c[n + 1] = x
      /\ \A i \in 1 .. n : c[i] = bs[i]
  BY <1>1, <1>3, Pushed
<1>5. /\ Tags(bs) \in Seq({0, 1}) /\ Len(Tags(bs)) = n
      /\ \A i \in 1 .. n : Tags(bs)[i] = IF bs[i].terra THEN 1 ELSE 0
  BY <1>3, TagsType DEF Tags
<1> HIDE DEF c
<1>6. /\ Tags(c) \in Seq({0, 1}) /\ Len(Tags(c)) = n + 1
      /\ \A i \in 1 .. n + 1 : Tags(c)[i] = IF c[i].terra THEN 1 ELSE 0
  BY <1>4, TagsType DEF Tags
<1>7. /\ Append(Tags(bs), y) \in Seq({0, 1}) /\ Len(Append(Tags(bs), y)) = n + 1
      /\ Append(Tags(bs), y)[n + 1] = y
      /\ \A i \in 1 .. n : Append(Tags(bs), y)[i] = Tags(bs)[i]
  BY <1>2, <1>5, Pushed
<1>8. \A i \in 1 .. n + 1 : i = n + 1 \/ i \in 1 .. n
  OBVIOUS
<1>9. \A i \in 1 .. n + 1 : Tags(c)[i] = Append(Tags(bs), y)[i]
  <2> SUFFICES ASSUME NEW i \in 1 .. n + 1 PROVE Tags(c)[i] = Append(Tags(bs), y)[i]
    OBVIOUS
  <2>1. Tags(c)[i] = IF c[i].terra THEN 1 ELSE 0
    BY <1>6
  <2>2. CASE i = n + 1
    BY <1>2, <1>4, <1>7, <2>1, <2>2
  <2>3. CASE i \in 1 .. n
    <3>1. c[i] = bs[i] /\ Append(Tags(bs), y)[i] = Tags(bs)[i]
      BY <1>4, <1>7, <2>3
    <3>2. Tags(bs)[i] = IF bs[i].terra THEN 1 ELSE 0
      BY <1>5, <2>3
    <3> QED
      BY <2>1, <3>1, <3>2
  <2> QED
    BY <1>8, <2>2, <2>3
<1>10. n + 1 \in Nat
  OBVIOUS
<1>11. Tags(c) = Append(Tags(bs), y)
  BY <1>6, <1>7, <1>9, <1>10, SameSeq
<1>12. c \in Seq(BlockSet) /\ Tags(c) = Append(Tags(bs), y)
  BY <1>4, <1>11
<1> QED
  BY <1>12, Zenon DEF c, x, y

LEMMA BlockPopped ==
    ASSUME NEW bs \in Seq(BlockSet), bs # <<>>
    PROVE  Pop(bs) \in Seq(BlockSet) /\ Tags(Pop(bs)) = Pop(Tags(bs))
<1>1. PICK n \in Nat : Len(bs) = n + 1
  <2>1. Len(bs) \in Nat /\ Len(bs) # 0
    OBVIOUS
  <2>2. Len(bs) - 1 \in Nat /\ (Len(bs) - 1) + 1 = Len(bs)
    BY <2>1
  <2> QED
    BY <2>2
<1>2. (n + 1) - 1 = n
  OBVIOUS
<1>3. /\ Pop(bs) \in Seq(BlockSet) /\ Len(Pop(bs)) = n
      /\ \A i \in 1 .. n : Pop(bs)[i] = bs[i]
  BY <1>1, <1>2 DEF Pop
<1>4. /\ Tags(bs) \in Seq({0, 1}) /\ Len(Tags(bs)) = n + 1
      /\ \A i \in 1 .. n + 1 : Tags(bs)[i] = IF bs[i].terra THEN 1 ELSE 0
  BY <1>1, TagsType DEF Tags
<1>5. /\ Pop(Tags(bs)) \in Seq({0, 1}) /\ Len(Pop(Tags(bs))) = n
      /\ \A i \in 1 .. n : Pop(Tags(bs))[i] = Tags(bs)[i]
  BY <1>2, <1>4 DEF Pop
<1>6. /\ Tags(Pop(bs)) \in Seq({0, 1}) /\ Len(Tags(Pop(bs))) = n
      /\ \A i \in 1 .. n : Tags(Pop(bs))[i] = IF Pop(bs)[i].terra THEN 1 ELSE 0
  BY <1>3, TagsType DEF Tags
<1>7. \A i \in 1 .. n : Tags(Pop(bs))[i] = Pop(Tags(bs))[i]
  <2>1. \A i \in 1 .. n : i \in 1 .. n + 1
    OBVIOUS
  <2> QED
    BY <1>3, <1>4, <1>5, <1>6, <2>1
<1> QED
  BY <1>3, <1>5, <1>6, <1>7, SameSeq

LEMMA BlocksRenamed ==
    ASSUME NEW bs \in Seq(BlockSet), NEW cs \in Seq(BlockSet), Len(cs) = Len(bs),
           \A k \in 1 .. Len(bs) : cs[k].terra = bs[k].terra
    PROVE  Tags(cs) = Tags(bs)
<1>1. PICK n \in Nat : n = Len(bs)
  OBVIOUS
<1>2. /\ Tags(bs) \in Seq({0, 1}) /\ Len(Tags(bs)) = n
      /\ Tags(cs) \in Seq({0, 1}) /\ Len(Tags(cs)) = n
  BY <1>1, TagsType
<1>3. \A k \in 1 .. n : Tags(cs)[k] = Tags(bs)[k]
  BY <1>1 DEF Tags
<1> QED
  BY <1>2, <1>3, SameSeq

(* A change of the names or the count of imports of the last block.        *)
LastChanged(bs, cs) ==
    /\ cs \in Seq(BlockSet) /\ Len(cs) = Len(bs)
    /\ \A k \in 1 .. Len(bs) : cs[k].terra = bs[k].terra

LEMMA LastBlock ==
    ASSUME NEW bs \in Seq(BlockSet), NEW x \in BlockSet, bs # <<>> => x.terra = bs[Len(bs)].terra
    PROVE  LastChanged(bs, [bs EXCEPT ![Len(bs)] = x])
<1>1. PICK n \in Nat : n = Len(bs)
  OBVIOUS
<1> DEFINE cs == [bs EXCEPT ![n] = x]
<1>2. cs \in Seq(BlockSet) /\ Len(cs) = n
  <2>1. bs \in [1 .. n -> BlockSet]
    BY <1>1
  <2>2. cs \in [1 .. n -> BlockSet]
    BY <2>1
  <2> HIDE DEF cs
  <2> QED
    BY <2>2
<1>3. \A k \in 1 .. n : cs[k] = IF k = n THEN x ELSE bs[k]
  BY <1>1
<1>4. \A k \in 1 .. n : cs[k].terra = bs[k].terra
  <2> SUFFICES ASSUME NEW k \in 1 .. n PROVE cs[k].terra = bs[k].terra
    OBVIOUS
  <2>1. bs # <<>>
    BY <1>1
  <2> HIDE DEF cs
  <2> QED
    BY <1>1, <1>3, <2>1
<1> QED
  BY <1>1, <1>2, <1>4 DEF LastChanged

(* The names of the last block are the only change.                        *)
Renamed(bs, cs) ==
    /\ cs \in Seq(BlockSet) /\ Len(cs) = Len(bs)
    /\ \A k \in 1 .. Len(bs) : cs[k].terra = bs[k].terra
    /\ \A k \in 1 .. Len(bs) : cs[k].exts = bs[k].exts
    /\ \A k \in 1 .. Len(bs) : k # Len(bs) => cs[k] = bs[k]

LEMMA LastRenamed ==
    ASSUME NEW bs \in Seq(BlockSet), bs # <<>>, NEW x \in BlockSet,
           x.terra = bs[Len(bs)].terra, x.exts = bs[Len(bs)].exts
    PROVE  /\ Renamed(bs, [bs EXCEPT ![Len(bs)] = x])
           /\ [bs EXCEPT ![Len(bs)] = x][Len(bs)] = x
<1>1. PICK n \in Nat : n = Len(bs) /\ n \in 1 .. n
  OBVIOUS
<1> DEFINE cs == [bs EXCEPT ![n] = x]
<1>2. LastChanged(bs, cs)
  BY <1>1, LastBlock
<1>3. \A k \in 1 .. n : cs[k] = IF k = n THEN x ELSE bs[k]
  BY <1>1
<1> HIDE DEF cs
<1>4. Renamed(bs, cs) /\ cs[n] = x
  BY <1>1, <1>2, <1>3 DEF LastChanged, Renamed
<1> QED
  BY <1>1, <1>4 DEF cs

LEMMA NamesPut ==
    ASSUME NEW bs \in Seq(BlockSet), bs # <<>>, NEW ns \in SUBSET Names
    PROVE  /\ Renamed(bs, Declared(bs, ns))
           /\ ns \subseteq Declared(bs, ns)[Len(bs)].defined
<1>1. PICK n \in Nat : n = Len(bs) /\ n \in 1 .. n
  OBVIOUS
<1>2. bs[n] \in BlockSet
  BY <1>1
<1> DEFINE x == [bs[n] EXCEPT !.defined = @ \cup ns]
<1>3. x \in BlockSet /\ x.terra = bs[n].terra /\ x.exts = bs[n].exts /\ ns \subseteq x.defined
  BY <1>2 DEF BlockSet
<1>4. Declared(bs, ns) = [bs EXCEPT ![Len(bs)] = x]
  BY <1>1 DEF Declared
<1> HIDE DEF x
<1>5. x.terra = bs[Len(bs)].terra /\ x.exts = bs[Len(bs)].exts
  BY <1>1, <1>3
<1>6. /\ Renamed(bs, [bs EXCEPT ![Len(bs)] = x])
      /\ [bs EXCEPT ![Len(bs)] = x][Len(bs)] = x
  BY <1>3, <1>5, LastRenamed, Zenon
<1> QED
  BY <1>3, <1>4, <1>6, Zenon

LEMMA NamesBound ==
    ASSUME NEW bs \in Seq(BlockSet), bs # <<>>, NEW ns, ns \subseteq bs[Len(bs)].defined
    PROVE  Renamed(bs, Bound(bs, ns))
<1>1. PICK n \in Nat : n = Len(bs) /\ n \in 1 .. n
  OBVIOUS
<1>2. bs[n] \in BlockSet /\ ns \subseteq bs[n].defined
  BY <1>1
<1> DEFINE x == [bs[n] EXCEPT !.bound = @ \cup ns]
<1>3. x \in BlockSet /\ x.terra = bs[n].terra /\ x.exts = bs[n].exts
  BY <1>2 DEF BlockSet
<1>4. Bound(bs, ns) = [bs EXCEPT ![Len(bs)] = x]
  BY <1>1 DEF Bound
<1> HIDE DEF x
<1>5. x.terra = bs[Len(bs)].terra /\ x.exts = bs[Len(bs)].exts
  BY <1>1, <1>3
<1>6. Renamed(bs, [bs EXCEPT ![Len(bs)] = x])
  BY <1>3, <1>5, LastRenamed, Zenon
<1> QED
  BY <1>4, <1>6, Zenon

LEMMA NamesDefined ==
    ASSUME NEW bs \in Seq(BlockSet), bs # <<>>, NEW ns \in SUBSET Names
    PROVE  Renamed(bs, Bound(Declared(bs, ns), ns))
<1>1. PICK cs : cs = Declared(bs, ns)
  OBVIOUS
<1>2. Renamed(bs, cs) /\ ns \subseteq cs[Len(bs)].defined
  BY <1>1, NamesPut
<1>3. cs \in Seq(BlockSet) /\ Len(cs) = Len(bs) /\ cs # <<>>
  BY <1>2 DEF Renamed
<1>4. Renamed(cs, Bound(cs, ns))
  BY <1>2, <1>3, NamesBound
<1>5. Renamed(bs, Bound(cs, ns))
  BY <1>2, <1>3, <1>4 DEF Renamed
<1> QED
  BY <1>1, <1>5

LEMMA ConstructPushed ==
    ASSUME NEW cs \in Seq(CntSet), NEW at \in Nat
    PROVE  /\ Append(cs, Construct(at)) \in Seq(CntSet)
           /\ Places(Append(cs, Construct(at))) = Append(Places(cs), at)
<1> DEFINE x == Construct(at)
           c == Append(cs, x)
<1>1. x \in CntSet /\ x.block = at
  BY DEF Construct, CntSet
<1> HIDE DEF x
<1>2. PICK n \in Nat : n = Len(cs) /\ DOMAIN cs = 1 .. n
  OBVIOUS
<1>3. /\ c \in Seq(CntSet) /\ Len(c) = n + 1 /\ c[n + 1] = x
      /\ \A i \in 1 .. n : c[i] = cs[i]
  BY <1>1, <1>2, Pushed
<1> HIDE DEF c
<1>4. DOMAIN c = 1 .. n + 1
  BY <1>3
<1>5. /\ Places(cs) \in Seq(Nat) /\ Len(Places(cs)) = n
      /\ \A i \in 1 .. n : Places(cs)[i] = cs[i].block
  BY <1>2, PlacesType
<1>6. /\ Places(c) \in Seq(Nat) /\ Len(Places(c)) = n + 1
      /\ \A i \in 1 .. n + 1 : Places(c)[i] = c[i].block
  BY <1>3, <1>4, PlacesType
<1>7. /\ Append(Places(cs), at) \in Seq(Nat) /\ Len(Append(Places(cs), at)) = n + 1
      /\ Append(Places(cs), at)[n + 1] = at
      /\ \A i \in 1 .. n : Append(Places(cs), at)[i] = Places(cs)[i]
  BY <1>5, Pushed
<1>8. \A i \in 1 .. n + 1 : Places(c)[i] = Append(Places(cs), at)[i]
  <2> SUFFICES ASSUME NEW i \in 1 .. n + 1 PROVE Places(c)[i] = Append(Places(cs), at)[i]
    OBVIOUS
  <2>1. i = n + 1 \/ i \in 1 .. n
    OBVIOUS
  <2>2. CASE i = n + 1
    BY <1>1, <1>3, <1>6, <1>7, <2>2
  <2>3. CASE i \in 1 .. n
    BY <1>3, <1>5, <1>6, <1>7, <2>3
  <2> QED
    BY <2>1, <2>2, <2>3
<1>9. n + 1 \in Nat
  OBVIOUS
<1>10. Places(c) = Append(Places(cs), at)
  BY <1>6, <1>7, <1>8, <1>9, SameSeq
<1>11. c \in Seq(CntSet) /\ Places(c) = Append(Places(cs), at)
  BY <1>3, <1>10
<1> QED
  BY <1>11, Zenon DEF c, x

LEMMA ConstructPopped ==
    ASSUME NEW cs \in Seq(CntSet), cs # <<>>
    PROVE  Pop(cs) \in Seq(CntSet) /\ Places(Pop(cs)) = Pop(Places(cs))
<1>1. PICK n \in Nat : Len(cs) = n + 1
  <2>1. Len(cs) \in Nat /\ Len(cs) # 0
    OBVIOUS
  <2>2. Len(cs) - 1 \in Nat /\ (Len(cs) - 1) + 1 = Len(cs)
    BY <2>1
  <2> QED
    BY <2>2
<1>2. (n + 1) - 1 = n /\ DOMAIN cs = 1 .. n + 1
  BY <1>1
<1>3. /\ Pop(cs) \in Seq(CntSet) /\ Len(Pop(cs)) = n
      /\ \A i \in 1 .. n : Pop(cs)[i] = cs[i]
  BY <1>1, <1>2 DEF Pop
<1>4. /\ Places(cs) \in Seq(Nat) /\ Len(Places(cs)) = n + 1
      /\ \A i \in 1 .. n + 1 : Places(cs)[i] = cs[i].block
  BY <1>1, <1>2, PlacesType
<1>5. /\ Pop(Places(cs)) \in Seq(Nat) /\ Len(Pop(Places(cs))) = n
      /\ \A i \in 1 .. n : Pop(Places(cs))[i] = Places(cs)[i]
  BY <1>2, <1>4 DEF Pop
<1>6. DOMAIN Pop(cs) = 1 .. n
  BY <1>3
<1>7. /\ Places(Pop(cs)) \in Seq(Nat) /\ Len(Places(Pop(cs))) = n
      /\ \A i \in 1 .. n : Places(Pop(cs))[i] = Pop(cs)[i].block
  BY <1>3, <1>6, PlacesType
<1>8. \A i \in 1 .. n : Places(Pop(cs))[i] = Pop(Places(cs))[i]
  <2>1. \A i \in 1 .. n : i \in 1 .. n + 1
    OBVIOUS
  <2> QED
    BY <1>3, <1>4, <1>5, <1>7, <2>1
<1> QED
  BY <1>3, <1>5, <1>7, <1>8, SameSeq
-----------------------------------------------------------------------------
(***************************************************************************)
(* The invariant.  The shape is good, and what is left to do can be done   *)
(* from it: this is what makes it inductive, for an operation deep in todo *)
(* is done in a shape that only the operations before it bring about.      *)
(***************************************************************************)
Cur(ok) == ShapeOf(blocks, inTerra, cnts, ok)

Typed == blocks \in Seq(BlockSet) /\ cnts \in Seq(CntSet) /\ inTerra \in Nat

(* Where what is left ends.                                                *)
Ends(ok) == IF ok THEN Shape ELSE {Dead}

InvC(ok) ==
    /\ Typed
    /\ Good(Cur(ok))
    /\ status # "assert"
    /\ status = "parsing" => \E u \in Ends(ok) : Takes(todo, Cur(ok), u)
    /\ status = "done" => ok

LEMMA Starts ==
    LET s == ShapeOf(<<Block(FALSE)>>, 0, <<>>, TRUE) IN
    /\ <<Block(FALSE)>> \in Seq(BlockSet) /\ <<>> \in Seq(CntSet)
    /\ Good(s) /\ \E u \in Ends(TRUE) : Takes(<<Stats, Leave, Finish>>, s, u)
<1> DEFINE x == Block(FALSE)
           s == ShapeOf(<<x>>, 0, <<>>, TRUE)
           z == [ts |-> <<>>, in |-> 0, cs |-> <<>>, ok |-> TRUE]
<1>1. x \in BlockSet /\ ~x.terra
  BY DEF Block, BlockSet
<1> HIDE DEF x
<1>2. <<x>> \in Seq(BlockSet) /\ Len(<<x>>) = 1 /\ <<x>>[1] = x
  BY <1>1
<1>3. <<>> \in Seq(CntSet) /\ Places(<<>>) = <<>> /\ <<>> \in Seq(Nat)
  <2>1. <<>> \in Seq(CntSet) /\ <<>> \in Seq(Nat)
    OBVIOUS
  <2>2. PICK c \in Seq(CntSet) : c = <<>>
    BY <2>1
  <2>3. Places(c) = <<>>
    BY <2>2, PlacesType, Zenon
  <2> QED
    BY <2>1, <2>2, <2>3
<1>4. /\ Tags(<<x>>) \in Seq({0, 1}) /\ Len(Tags(<<x>>)) = 1 /\ Tags(<<x>>)[1] = 0
  <2>1. 1 \in 1 .. Len(<<x>>)
    BY <1>2
  <2>2. Tags(<<x>>)[1] = 0
    BY <1>1, <1>2, <2>1 DEF Tags
  <2> QED
    BY <1>2, <2>2, TagsType
<1>5. s \in Shape /\ s.ts = Tags(<<x>>) /\ s.in = 0 /\ s.cs = <<>> /\ s.ts # <<>>
      /\ s.ok
  <2>1. PICK a : a = Tags(<<x>>)
    OBVIOUS
  <2>2. a \in Seq({0, 1}) /\ Len(a) = 1
    BY <1>4, <2>1
  <2>3. a # <<>>
    <3>1. Len(<<>>) # 1
      OBVIOUS
    <3> QED
      BY <2>2, <3>1, Zenon
  <2>4. s = [ts |-> a, in |-> 0, cs |-> <<>>, ok |-> TRUE]
    BY <1>3, <2>1 DEF ShapeOf
  <2> HIDE DEF s
  <2> QED
    BY <1>3, <2>1, <2>2, <2>3, <2>4 DEF Shape
<1> HIDE DEF s
<1>6. Good(s)
  <2>1. DOMAIN s.ts = 1 .. 1
    BY <1>4, <1>5
  <2>2. ~(s.ts[Len(s.ts)] = 1) /\ ~(s.in > 0)
    BY <1>4, <1>5
  <2>3. \A k \in DOMAIN s.ts : ~(k > 1)
    BY <2>1
  <2>4. DOMAIN s.cs = {}
    BY <1>5
  <2> QED
    BY <2>2, <2>3, <2>4 DEF Good
<1>7. z \in Shape /\ Good(z) /\ z = Left(s) /\ z.ok /\ z \in Ends(TRUE)
  <2>1. z \in Shape /\ Good(z) /\ z.ok /\ z \in Ends(TRUE)
    <3>1. z \in Shape /\ Good(z) /\ z.ok
      BY DEF Shape, Good
    <3> HIDE DEF z
    <3> QED
      BY <3>1 DEF Ends
  <2>2. Pop(s.ts) = <<>>
    <3>1. s.ts \in Seq({0, 1}) /\ Len(s.ts) - 1 = 0
      BY <1>4, <1>5
    <3>2. Len(SubSeq(s.ts, 1, 0)) = 0 /\ SubSeq(s.ts, 1, 0) \in Seq({0, 1})
      BY <3>1
    <3>3. SubSeq(s.ts, 1, 0) = <<>>
      BY <3>2
    <3> QED
      BY <3>1, <3>3 DEF Pop
  <2> QED
    BY <1>5, <2>1, <2>2 DEF Left
<1> HIDE DEF z
<1>8. Does(Stats, s, s) /\ Does(Leave, s, z) /\ Does(Finish, z, z)
  <2>1. s \in Open
    BY <1>5, <1>6 DEF Open
  <2>2. Does(Leave, s, z)
    BY <1>5, <1>7 DEF Does, Leave
  <2>3. Does(Finish, z, z)
    BY <1>7 DEF Does, Finish
  <2> QED
    BY <2>1, <2>2, <2>3, Stays
<1>9. Stats \in Op /\ Leave \in Op /\ Finish \in Op
  BY OpsAreOps
<1>10. Takes(<<Finish>>, z, z)
  BY <1>7, <1>8, <1>9, TakesOne
<1>11. Takes(<<Leave, Finish>>, s, z)
  <2>1. Takes(<<Leave>> \o <<Finish>>, s, z)
    BY <1>5, <1>6, <1>7, <1>8, <1>9, <1>10, TakesFirst
  <2>2. <<Leave>> \o <<Finish>> = <<Leave, Finish>>
    BY <1>9, TwoOps, Zenon
  <2> QED
    BY <2>1, <2>2, Zenon
<1>12. Takes(<<Stats, Leave, Finish>>, s, z)
  <2>1. Takes(<<Stats>> \o <<Leave, Finish>>, s, z)
    BY <1>5, <1>6, <1>8, <1>9, <1>11, TakesFirst
  <2>2. <<Stats>> \o <<Leave, Finish>> = <<Stats, Leave, Finish>>
    BY <1>9, ThreeOps, Zenon
  <2> QED
    BY <2>1, <2>2, Zenon
<1>13. /\ <<x>> \in Seq(BlockSet) /\ <<>> \in Seq(CntSet)
       /\ Good(s) /\ \E u \in Ends(TRUE) : Takes(<<Stats, Leave, Finish>>, s, u)
  BY <1>2, <1>3, <1>6, <1>7, <1>12
<1> QED
  BY <1>13, Zenon DEF s, x

(* The operation that comes first can be done.                             *)
LEMMA FirstDoes ==
    ASSUME NEW ok \in BOOLEAN, InvC(ok), status = "parsing", todo # <<>>
    PROVE  \E t \in Shape : /\ Cur(ok) \in Shape /\ Good(Cur(ok)) /\ Good(t)
                            /\ Cur(ok) # Dead /\ Cur(ok).ok = ok
                            /\ Does(Head(todo), Cur(ok), t)
                            /\ \E u \in Ends(ok) : Takes(Tail(todo), t, u)
<1>1. PICK u \in Ends(ok) : Takes(todo, Cur(ok), u)
  BY DEF InvC
<1>2. \E t \in Shape : /\ Cur(ok) \in Shape /\ Good(Cur(ok)) /\ Good(t)
                       /\ Does(Head(todo), Cur(ok), t) /\ Takes(Tail(todo), t, u)
  BY <1>1, TakesHead
<1>3. Cur(ok).in \in Nat /\ Cur(ok).ok = ok
  BY DEF InvC, Typed, Cur, ShapeOf
<1>4. Cur(ok) # Dead
  BY <1>3 DEF Dead
<1> QED
  BY <1>2, <1>3, <1>4

(* Operations that neither open nor close a block.                         *)
LEMMA FirstStays ==
    ASSUME NEW ok \in BOOLEAN, InvC(ok), status = "parsing", todo # <<>>,
           Head(todo)[1] \in SameTags \cup {"define", "declare", "bind", "ref", "embedded"}
    PROVE  /\ Cur(ok) \in Open /\ blocks # <<>>
           /\ \E u \in Ends(ok) : Takes(Tail(todo), Cur(ok), u)
           /\ Head(todo)[1] \in {"define", "declare"} => Arg \in SUBSET Names
           /\ Head(todo)[1] = "ref" => Arg \in Names
           /\ Head(todo)[1] = "embedded" => Arg \in LuaCode /\ inTerra > 0
<1>1. PICK t \in Shape : /\ Cur(ok) \in Shape /\ Good(Cur(ok)) /\ Good(t)
                         /\ Cur(ok) # Dead
                         /\ Does(Head(todo), Cur(ok), t)
                         /\ \E u \in Ends(ok) : Takes(Tail(todo), t, u)
  BY FirstDoes
<1>2. /\ Cur(ok).ts # <<>> /\ t = Cur(ok)
      /\ Head(todo)[1] \in {"define", "declare"} => Head(todo)[2] \in SUBSET Names
      /\ Head(todo)[1] = "ref" => Head(todo)[2] \in Names
      /\ Head(todo)[1] = "embedded" => Head(todo)[2] \in LuaCode /\ Cur(ok).in > 0
  BY <1>1 DEF Does, SameTags
<1>3. /\ Cur(ok).ts = Tags(blocks) /\ Cur(ok).in = inTerra /\ blocks \in Seq(BlockSet)
      /\ inTerra \in Nat
  BY DEF Cur, ShapeOf, InvC, Typed
<1>4. blocks # <<>>
  BY <1>2, <1>3, TagsType
<1> QED
  BY <1>1, <1>2, <1>3, <1>4 DEF Arg, Open

LEMMA SameScopes ==
    ASSUME NEW ok \in BOOLEAN, InvC(ok), UNCHANGED scopes, status' # "assert",
           status' = "parsing" => \E u \in Ends(ok) : Takes(todo', Cur(ok), u),
           status' = "done" => ok
    PROVE  InvC(ok)'
<1>1. blocks' = blocks /\ cnts' = cnts /\ inTerra' = inTerra
  BY DEF scopes
<1>2. Cur(ok)' = Cur(ok)
  BY <1>1 DEF Cur
<1>3. Typed' /\ Good(Cur(ok)')
  BY <1>1, <1>2 DEF InvC, Typed
<1> QED
  BY <1>2, <1>3 DEF InvC

LEMMA NextShape ==
    ASSUME NEW ok \in BOOLEAN,
           blocks' \in Seq(BlockSet), cnts' \in Seq(CntSet), inTerra' \in Nat,
           NEW t, Good(t), Cur(ok)' = t, status' # "assert", status' # "done",
           \E u \in Ends(ok) : Takes(todo', t, u)
    PROVE  InvC(ok)'
BY DEF InvC, Typed
-----------------------------------------------------------------------------
(* refvariable: every boundary is the block of a construct of its own, so  *)
(* there are no more boundaries than constructs.                           *)
LEMMA CrossedFew ==
    ASSUME NEW ok \in BOOLEAN, Typed, Good(Cur(ok)), NEW n
    PROVE  Walk(n).crossed \in Nat /\ Walk(n).crossed <= Len(cnts)
<1> DEFINE j == Walk(n).at
           K == {k \in j + 1 .. Len(blocks) : Boundary(k)}
           C == {cnts[i].block : i \in DOMAIN cnts}
<1>1. blocks \in Seq(BlockSet) /\ cnts \in Seq(CntSet)
  BY DEF Typed
<1>2. PICK m \in Nat : m = Len(blocks) /\ DOMAIN blocks = 1 .. m
  BY <1>1
<1>3. PICK c \in Nat : c = Len(cnts) /\ DOMAIN cnts = 1 .. c
  BY <1>1
<1>4. Walk(n).crossed = Cardinality(K)
  BY DEF Walk
<1>5. j \in Nat
  <2> DEFINE js == {k \in 1 .. m : n \in blocks[k].defined}
  <2>1. \A k \in 1 .. m :
            [i \in DOMAIN blocks |-> n \in blocks[i].defined][k] = (n \in blocks[k].defined)
    BY <1>2
  <2>2. {k \in 1 .. m : [i \in DOMAIN blocks |-> n \in blocks[i].defined][k]} = js
    BY <2>1
  <2>3. j = IF js = {} THEN 0 ELSE Max(js)
    BY <1>2, <2>2 DEF Walk, Innermost
  <2>4. CASE js = {}
    BY <2>3, <2>4
  <2>5. CASE js # {}
    <3>1. js \subseteq 1 .. m
      OBVIOUS
    <3> HIDE DEF js, j
    <3>2. \E x \in js : \A y \in js : y <= x
      BY <2>5, <3>1, Greatest
    <3>3. \A x, y \in js : y <= x <=> x >= y
      BY <3>1
    <3>4. \E x \in js : \A y \in js : x >= y
      BY <3>2, <3>3
    <3>5. Max(js) \in js
      BY <3>4 DEF Max
    <3> QED
      BY <2>3, <2>5, <3>1, <3>5
  <2> QED
    BY <2>4, <2>5
<1> HIDE DEF j
<1>6. K \subseteq C
  <2> SUFFICES ASSUME NEW k \in K PROVE k \in C
    OBVIOUS
  <2>1. k \in 1 .. m /\ k > 1 /\ k - 1 \in 1 .. m /\ blocks[k].terra /\ ~blocks[k - 1].terra
    BY <1>2, <1>5 DEF Boundary
  <2>2. /\ Cur(ok).ts = Tags(blocks) /\ Cur(ok).cs = Places(cnts)
    BY DEF Cur, ShapeOf
  <2>3. Tags(blocks)[k] = 1 /\ Tags(blocks)[k - 1] = 0
    <3>1. Tags(blocks) \in [1 .. m -> {0, 1}]
      BY <1>2 DEF Tags
    <3> QED
      BY <1>1, <1>2, <2>1, <3>1, TagsType
  <2>4. DOMAIN Tags(blocks) = 1 .. m /\ DOMAIN Places(cnts) = 1 .. c
    BY <1>2, <1>3 DEF Tags, Places
  <2>5. PICK i \in 1 .. c : Places(cnts)[i] = k
    BY <2>1, <2>2, <2>3, <2>4, ZenonT(40) DEF Good
  <2> QED
    BY <1>3, <2>5 DEF Places
<1>7. IsFiniteSet(1 .. c) /\ Cardinality(1 .. c) = c
  <2>1. 1 \in Int /\ c \in Int
    OBVIOUS
  <2>2. IsFiniteSet(1 .. c) /\ Cardinality(1 .. c) = IF 1 > c THEN 0 ELSE c - 1 + 1
    BY <2>1, FS_Interval, Zenon
  <2>3. (IF 1 > c THEN 0 ELSE c - 1 + 1) = c
    OBVIOUS
  <2> QED
    BY <2>2, <2>3
<1>8. IsFiniteSet(C) /\ Cardinality(C) <= c
  <2> DEFINE f == [i \in 1 .. c |-> cnts[i].block]
  <2>1. f \in Surjection(1 .. c, C)
    BY <1>3 DEF Surjection
  <2> HIDE DEF f, C
  <2>2. IsFiniteSet(C) /\ Cardinality(C) <= Cardinality(1 .. c)
    BY <1>7, <2>1, FS_Surjection
  <2> QED
    BY <1>7, <2>2
<1>9. Cardinality(K) <= Cardinality(C) /\ Cardinality(K) \in Nat
  <2> HIDE DEF K, C
  <2>1. K \in SUBSET C
    BY <1>6
  <2>2. IsFiniteSet(K) /\ Cardinality(K) <= Cardinality(C)
    BY <1>8, <2>1, FS_Subset
  <2> QED
    BY <2>2, FS_CardinalityType
<1>10. Cardinality(C) \in Nat
  BY <1>8, FS_CardinalityType
<1> QED
  BY <1>3, <1>4, <1>8, <1>9, <1>10

LEMMA ReferenceKeeps ==
    ASSUME NEW ok \in BOOLEAN, InvC(ok), NEW n \in Names, Reference(n)
    PROVE  status' = status /\ cnts' \in Seq(CntSet) /\ Places(cnts') = Places(cnts)
<1>1. Typed /\ Good(Cur(ok)) /\ cnts \in Seq(CntSet)
  BY DEF InvC, Typed
<1>2. PICK c \in Nat : c = Len(cnts) /\ DOMAIN cnts = 1 .. c
  BY <1>1
<1>3. ~(Walk(n).crossed > Len(cnts))
  <2>1. Walk(n).crossed \in Nat /\ Walk(n).crossed <= Len(cnts)
    BY <1>1, CrossedFew
  <2> QED
    BY <1>2, <2>1
<1>4. status' = status
  BY <1>3 DEF Reference
<1> DEFINE w == Walk(n)
           x(i) == [cnts[i] EXCEPT
                      !.captured = IF i = Capturer(w) THEN @ \cup {n} ELSE @,
                      !.needed = IF i = MustCapture(n)
                                 THEN @ \cup {<<n, Hidden(n)>>} ELSE @]
<1>5. cnts' = [i \in 1 .. c |-> x(i)]
  BY <1>2, <1>3 DEF Reference
<1>6. Hidden(n) \in BOOLEAN
  BY DEF Hidden
<1>7. ASSUME NEW i \in 1 .. c PROVE x(i) \in CntSet /\ x(i).block = cnts[i].block
  <2>1. cnts[i] \in CntSet
    BY <1>1, <1>2
  <2>2. PICK b \in BOOLEAN : b = Hidden(n)
    BY <1>6
  <2>3. <<n, Hidden(n)>> \in Names \X BOOLEAN
    BY <2>2
  <2> QED
    BY <2>1, <2>3 DEF CntSet
<1> HIDE DEF x
<1>8. cnts' \in Seq(CntSet) /\ Len(cnts') = c /\ \A i \in 1 .. c : cnts'[i] = x(i)
  <2>1. cnts' \in [1 .. c -> CntSet]
    BY <1>5, <1>7
  <2> QED
    BY <1>5, <2>1
<1>9. Places(cnts') = Places(cnts)
  <2>1. /\ Places(cnts) \in Seq(Nat) /\ Len(Places(cnts)) = c
        /\ \A i \in 1 .. c : Places(cnts)[i] = cnts[i].block
    BY <1>1, <1>2, PlacesType
  <2>2. DOMAIN cnts' = 1 .. c
    BY <1>8
  <2>3. /\ Places(cnts') \in Seq(Nat) /\ Len(Places(cnts')) = c
        /\ \A i \in 1 .. c : Places(cnts')[i] = cnts'[i].block
    BY <1>8, <2>2, PlacesType
  <2>4. \A i \in 1 .. c : Places(cnts')[i] = Places(cnts)[i]
    BY <1>7, <1>8, <2>1, <2>3
  <2> QED
    BY <2>1, <2>3, <2>4, SameSeq
<1> QED
  BY <1>4, <1>8, <1>9
-----------------------------------------------------------------------------
(* The actions that change the shape.                                      *)

(* The shape of the blocks open now, in the terms of the model.            *)
LEMMA CurIs ==
    ASSUME NEW ok \in BOOLEAN, InvC(ok)
    PROVE  /\ blocks \in Seq(BlockSet) /\ cnts \in Seq(CntSet) /\ inTerra \in Nat
           /\ Cur(ok) \in Shape /\ Good(Cur(ok))
           /\ Cur(ok).ts = Tags(blocks) /\ Cur(ok).in = inTerra /\ Cur(ok).cs = Places(cnts)
           /\ Len(Cur(ok).ts) = Len(blocks) /\ Len(Cur(ok).cs) = Len(cnts)
           /\ Cur(ok).ok = ok /\ Cur(ok) # Dead
           /\ Cur(ok).ts = <<>> <=> blocks = <<>>
           /\ Cur(ok).cs = <<>> <=> cnts = <<>>
<1>1. /\ blocks \in Seq(BlockSet) /\ cnts \in Seq(CntSet) /\ inTerra \in Nat
      /\ Good(Cur(ok))
  BY DEF InvC, Typed
<1>2. Cur(ok) \in Shape
  BY <1>1, ShapeOfType DEF Cur
<1>3. /\ Cur(ok).ts = Tags(blocks) /\ Cur(ok).in = inTerra /\ Cur(ok).cs = Places(cnts)
      /\ Cur(ok).ok = ok
  BY DEF Cur, ShapeOf
<1>4. Cur(ok) # Dead
  BY <1>1, <1>3 DEF Dead
<1> QED
  BY <1>1, <1>2, <1>3, <1>4, TagsType, PlacesType

LEMMA EnterBlockStep ==
    ASSUME NEW ok \in BOOLEAN, InvC(ok), EnterBlock
    PROVE  InvC(ok)'
<1>1. status = "parsing" /\ todo # <<>> /\ Head(todo)[1] = "enter" /\ status' = status
  BY DEF EnterBlock, Doing
<1>2. PICK t \in Shape : /\ Good(t) /\ Does(Head(todo), Cur(ok), t) /\ Cur(ok) # Dead
                         /\ \E u \in Ends(ok) : Takes(Tail(todo), t, u)
  BY <1>1, FirstDoes
<1>3. t = Entered(Cur(ok))
  BY <1>1, <1>2 DEF Does, SameTags
<1>4. /\ blocks' = Append(blocks, Block(inTerra > 0)) /\ cnts' = cnts /\ inTerra' = inTerra
      /\ todo' = <<>> \o Tail(todo)
  BY DEF EnterBlock, Then
<1>5. todo' = Tail(todo)
  <2>1. PICK u \in Ends(ok) : Takes(Tail(todo), t, u)
    BY <1>2
  <2> QED
    BY <1>4, <2>1 DEF Takes
<1>6. (inTerra > 0) \in BOOLEAN
  OBVIOUS
<1>7. blocks' \in Seq(BlockSet)
  BY <1>4, <1>6, BlockPushed, CurIs
<1>8. Tags(blocks') = Append(Tags(blocks), IF inTerra > 0 THEN 1 ELSE 0)
  BY <1>4, <1>6, BlockPushed, CurIs
<1>9. Cur(ok)' = t
  BY <1>3, <1>4, <1>8, CurIs DEF Cur, ShapeOf, Entered, Kind
<1> QED
  BY <1>1, <1>2, <1>4, <1>5, <1>7, <1>9, CurIs, NextShape

LEMMA LeavesStep ==
    ASSUME NEW ok \in BOOLEAN, InvC(ok), Leaves
    PROVE  InvC(ok)' /\ blocks # <<>>
<1>1. status = "parsing" /\ todo # <<>> /\ Head(todo)[1] = "leave" /\ status' = status
  BY DEF Leaves, Doing
<1>2. PICK t \in Shape : /\ Good(t) /\ Does(Head(todo), Cur(ok), t) /\ Cur(ok) # Dead
                         /\ \E u \in Ends(ok) : Takes(Tail(todo), t, u)
  BY <1>1, FirstDoes
<1>3. t = Left(Cur(ok)) /\ Cur(ok).ts # <<>>
  BY <1>1, <1>2 DEF Does, SameTags
<1>4. /\ blocks' = Pop(blocks) /\ cnts' = cnts /\ inTerra' = inTerra
      /\ todo' = <<>> \o Tail(todo)
  BY DEF Leaves, LeaveBlock, Then
<1>5. todo' = Tail(todo)
  <2>1. PICK u \in Ends(ok) : Takes(Tail(todo), t, u)
    BY <1>2
  <2> QED
    BY <1>4, <2>1 DEF Takes
<1>6. blocks' \in Seq(BlockSet) /\ Tags(blocks') = Pop(Tags(blocks))
  BY <1>3, <1>4, BlockPopped, CurIs
<1>7. Cur(ok)' = t
  BY <1>3, <1>4, <1>6, CurIs DEF Cur, ShapeOf, Left
<1> QED
  BY <1>1, <1>2, <1>3, <1>4, <1>5, <1>6, <1>7, CurIs, NextShape

LEMMA TailOnly ==
    ASSUME NEW ok \in BOOLEAN, NEW t, \E u \in Ends(ok) : Takes(Tail(todo), t, u), Then(<<>>)
    PROVE  \E u \in Ends(ok) : Takes(todo', t, u)
<1>1. PICK u \in Ends(ok) : Takes(Tail(todo), t, u)
  OBVIOUS
<1>2. todo' = Tail(todo)
  BY <1>1 DEF Takes, Then
<1> QED
  BY <1>1, <1>2

LEMMA SameCur ==
    ASSUME NEW ok \in BOOLEAN, InvC(ok), NEW bs \in Seq(BlockSet), LastChanged(blocks, bs)
    PROVE  ShapeOf(bs, inTerra, cnts, ok) = Cur(ok)
<1>1. Tags(bs) = Tags(blocks)
  BY CurIs, BlocksRenamed DEF LastChanged
<1> QED
  BY <1>1 DEF Cur, ShapeOf

LEMMA DefinesStep ==
    ASSUME NEW ok \in BOOLEAN, InvC(ok), Defines
    PROVE  InvC(ok)' /\ blocks # <<>> /\ Renamed(blocks, blocks')
<1>1. /\ status = "parsing" /\ todo # <<>> /\ Head(todo)[1] \in {"define", "declare", "bind"}
      /\ status' = status /\ cnts' = cnts /\ inTerra' = inTerra /\ Then(<<>>)
  BY DEF Defines, Doing
<1>2. /\ Cur(ok) \in Open /\ blocks # <<>>
      /\ Head(todo)[1] \in {"define", "declare"} => Arg \in SUBSET Names
      /\ \E u \in Ends(ok) : Takes(Tail(todo), Cur(ok), u)
  BY <1>1, FirstStays
<1>3. \E u \in Ends(ok) : Takes(todo', Cur(ok), u)
  BY <1>1, <1>2, TailOnly
<1>4. Renamed(blocks, blocks')
  <2>1. CASE Doing("define") /\ blocks' = Bound(Declared(blocks, Arg), Arg)
    BY <1>2, <2>1, NamesDefined, CurIs DEF Doing
  <2>2. CASE Doing("declare") /\ blocks' = Declared(blocks, Arg)
    BY <1>2, <2>2, NamesPut, CurIs DEF Doing
  <2>3. CASE Doing("bind") /\ blocks' = Bound(blocks, Top.defined)
    BY <1>2, <2>3, NamesBound, CurIs DEF Top
  <2> QED
    BY <2>1, <2>2, <2>3 DEF Defines
<1>5. blocks' \in Seq(BlockSet) /\ LastChanged(blocks, blocks')
  BY <1>4 DEF Renamed, LastChanged
<1>6. Cur(ok)' = Cur(ok)
  <2>1. ShapeOf(blocks', inTerra, cnts, ok) = Cur(ok)
    BY <1>5, SameCur
  <2> QED
    BY <1>1, <2>1 DEF Cur
<1> QED
  BY <1>1, <1>2, <1>3, <1>4, <1>5, <1>6, CurIs, NextShape

LEMMA ReferenceStep ==
    ASSUME NEW ok \in BOOLEAN, InvC(ok), NEW n \in Names, Reference(n), status = "parsing",
           UNCHANGED <<blocks, inTerra>>, \E u \in Ends(ok) : Takes(todo', Cur(ok), u)
    PROVE  InvC(ok)'
<1>1. status' = status /\ cnts' \in Seq(CntSet) /\ Places(cnts') = Places(cnts)
  BY ReferenceKeeps
<1>2. Cur(ok)' = Cur(ok)
  BY <1>1 DEF Cur, ShapeOf
<1> QED
  BY <1>1, <1>2, CurIs, NextShape

LEMMA EnterTerraStep ==
    ASSUME NEW ok \in BOOLEAN, InvC(ok), EnterTerraCnt
    PROVE  InvC(ok)' /\ blocks # <<>>
<1>1. /\ status = "parsing" /\ todo # <<>> /\ Head(todo)[1] = "enterterra"
      /\ status' = status /\ Then(<<>>)
  BY DEF EnterTerraCnt, Doing
<1>2. PICK t \in Shape : /\ Good(t) /\ Does(Head(todo), Cur(ok), t) /\ Cur(ok) # Dead
                         /\ \E u \in Ends(ok) : Takes(Tail(todo), t, u)
  BY <1>1, FirstDoes
<1>3. t = TerraEntered(Cur(ok)) /\ Cur(ok).ts # <<>>
  BY <1>1, <1>2 DEF Does, SameTags
<1>4. /\ blocks' = Append(blocks, Block(TRUE)) /\ inTerra' = inTerra + 1
      /\ cnts' = Append(cnts, Construct(Len(blocks) + 1))
  BY DEF EnterTerraCnt
<1>5. \E u \in Ends(ok) : Takes(todo', t, u)
  BY <1>1, <1>2, TailOnly
<1>6. blocks' \in Seq(BlockSet) /\ Tags(blocks') = Append(Tags(blocks), 1)
  <2>1. TRUE \in BOOLEAN /\ (IF TRUE THEN 1 ELSE 0) = 1
    OBVIOUS
  <2> QED
    BY <1>4, <2>1, BlockPushed, CurIs
<1>7. /\ cnts' \in Seq(CntSet)
      /\ Places(cnts') = Append(Places(cnts), Len(blocks) + 1)
  <2>1. Len(blocks) + 1 \in Nat
    BY CurIs
  <2> QED
    BY <1>4, <2>1, ConstructPushed, CurIs
<1>8. Cur(ok)' = t
  <2>1. Cur(ok)' = [ts |-> Append(Tags(blocks), 1), in |-> inTerra + 1,
                cs |-> Append(Places(cnts), Len(blocks) + 1), ok |-> ok]
    BY <1>4, <1>6, <1>7 DEF Cur, ShapeOf
  <2> QED
    BY <1>3, <2>1, CurIs DEF TerraEntered
<1>9. inTerra' \in Nat
  BY <1>4, CurIs
<1> QED
  BY <1>1, <1>2, <1>3, <1>5, <1>6, <1>7, <1>8, <1>9, CurIs, NextShape

LEMMA LeaveTerraStep ==
    ASSUME NEW ok \in BOOLEAN, InvC(ok), LeaveTerraCnt
    PROVE  /\ InvC(ok)' /\ blocks # <<>>
           /\ Pop(blocks) \in Seq(BlockSet) /\ Pop(blocks) # <<>>
           /\ Renamed(Pop(blocks), blocks')
           /\ cnts # <<>> /\ cnts[Len(cnts)].block = Len(blocks)
<1>1. /\ status = "parsing" /\ todo # <<>> /\ Head(todo)[1] = "leaveterra"
      /\ status' = status /\ Then(<<>>)
  BY DEF LeaveTerraCnt, Doing
<1>2. PICK t \in Shape : /\ Good(t) /\ Does(Head(todo), Cur(ok), t) /\ Cur(ok) # Dead
                         /\ \E u \in Ends(ok) : Takes(Tail(todo), t, u)
  BY <1>1, FirstDoes
<1>3. /\ t = TerraLeft(Cur(ok)) /\ Arg \in SUBSET Names
      /\ Cur(ok).in > 0 /\ Len(Cur(ok).ts) > 1 /\ Cur(ok).cs # <<>> /\ Cur(ok).ts # <<>>
      /\ Cur(ok).cs[Len(Cur(ok).cs)] = Len(Cur(ok).ts)
  BY <1>1, <1>2 DEF Does, SameTags, Arg
<1>4. /\ blocks' = Bound(Declared(Pop(blocks), Arg), Arg)
      /\ cnts' = Pop(cnts) /\ inTerra' = inTerra - 1
  BY DEF LeaveTerraCnt
<1>5. \E u \in Ends(ok) : Takes(todo', t, u)
  BY <1>1, <1>2, TailOnly
<1>6. PICK bs : bs = Pop(blocks)
  OBVIOUS
<1>7. /\ bs \in Seq(BlockSet) /\ Tags(bs) = Pop(Tags(blocks)) /\ bs # <<>>
  <2>1. Pop(blocks) \in Seq(BlockSet) /\ Tags(Pop(blocks)) = Pop(Tags(blocks))
    BY <1>3, BlockPopped, CurIs
  <2>2. Len(blocks) > 1 /\ blocks \in Seq(BlockSet)
    BY <1>3, CurIs
  <2>3. Pop(blocks) # <<>>
    <3>1. PICK n \in Nat : n = Len(blocks) - 1 /\ n # 0
      BY <2>2
    <3>2. Len(Pop(blocks)) = n
      BY <2>2, <3>1 DEF Pop
    <3>3. Len(<<>>) = 0
      OBVIOUS
    <3> QED
      BY <3>1, <3>2, <3>3, Zenon
  <2> QED
    BY <1>6, <2>1, <2>3
<1>8. Renamed(bs, blocks')
  BY <1>3, <1>4, <1>6, <1>7, NamesDefined
<1>12. blocks' \in Seq(BlockSet) /\ Tags(blocks') = Pop(Tags(blocks))
  BY <1>7, <1>8, BlocksRenamed DEF Renamed
<1>13. cnts' \in Seq(CntSet) /\ Places(cnts') = Pop(Places(cnts))
  BY <1>3, <1>4, ConstructPopped, CurIs
<1>14. inTerra' \in Nat
  BY <1>3, <1>4, CurIs
<1>15. Cur(ok)' = t
  <2>1. Cur(ok)' = [ts |-> Pop(Tags(blocks)), in |-> inTerra - 1, cs |-> Pop(Places(cnts)),
                ok |-> ok]
    BY <1>4, <1>12, <1>13 DEF Cur, ShapeOf
  <2> QED
    BY <1>3, <2>1, CurIs DEF TerraLeft
<1>16. cnts # <<>> /\ cnts[Len(cnts)].block = Len(blocks)
  <2>1. cnts # <<>> /\ Places(cnts)[Len(cnts)] = Len(blocks)
    BY <1>3, CurIs
  <2>2. Len(cnts) \in DOMAIN cnts
    BY <2>1, CurIs
  <2> QED
    BY <2>1, <2>2, PlacesType, CurIs
<1> QED
  BY <1>1, <1>2, <1>3, <1>5, <1>6, <1>7, <1>8, <1>12, <1>13, <1>14, <1>15, <1>16, CurIs,
     NextShape

LEMMA EmbeddedStep ==
    ASSUME NEW ok \in BOOLEAN, InvC(ok), EmbeddedCode
    PROVE  InvC(ok)'
<1>1. status = "parsing" /\ todo # <<>> /\ Head(todo)[1] = "embedded"
  BY DEF EmbeddedCode, Doing
<1>2. /\ Cur(ok) \in Open /\ Arg \in LuaCode /\ inTerra > 0
      /\ \E u \in Ends(ok) : Takes(Tail(todo), Cur(ok), u)
  BY <1>1, FirstStays
<1>3. /\ status' = status /\ inTerra' = 0 /\ cnts' = cnts
      /\ blocks' = Append(blocks, Block(FALSE))
      /\ todo' = Arg \o <<Resume(inTerra)>> \o Tail(todo)
  BY <1>2, CurIs DEF EmbeddedCode, Then
<1> DEFINE t == LuaEntered(Cur(ok))
<1>4. t \in Open /\ Does(Resume(inTerra), t, Cur(ok))
  BY <1>2, Pushes, Pairs, CurIs
<1> HIDE DEF t
<1>5. t \in Shape /\ Good(t) /\ Cur(ok) \in Shape /\ Good(Cur(ok))
  BY <1>4, CurIs DEF Open
<1>6. Takes(Arg, t, t)
  <2>1. t.in = 0
    BY <1>2, Pushes DEF t
  <2> QED
    BY <1>2, <1>4, <2>1, QuotesTake
<1>7. Takes(<<Resume(inTerra)>>, t, Cur(ok))
  BY <1>4, <1>5, OpsAreOps, TakesOne, CurIs
<1>8. PICK u \in Ends(ok) : Takes(Tail(todo), Cur(ok), u)
  BY <1>2
<1>9. Takes(Arg \o <<Resume(inTerra)>>, t, Cur(ok))
  BY <1>6, <1>7, TakesConcat
<1>10. Takes(todo', t, u)
  BY <1>3, <1>8, <1>9, TakesConcat
<1>11. blocks' \in Seq(BlockSet) /\ Tags(blocks') = Append(Tags(blocks), 0)
  <2>1. FALSE \in BOOLEAN /\ (IF FALSE THEN 1 ELSE 0) = 0
    OBVIOUS
  <2> QED
    BY <1>3, <2>1, BlockPushed, CurIs
<1>12. Cur(ok)' = t
  BY <1>3, <1>11, CurIs DEF Cur, ShapeOf, LuaEntered, t
<1> QED
  BY <1>1, <1>3, <1>5, <1>10, <1>11, <1>12, CurIs, NextShape

LEMMA ResumeStep ==
    ASSUME NEW ok \in BOOLEAN, InvC(ok), ResumeTerra
    PROVE  InvC(ok)' /\ blocks # <<>>
<1>1. /\ status = "parsing" /\ todo # <<>> /\ Head(todo)[1] = "resume"
      /\ status' = status /\ Then(<<>>)
  BY DEF ResumeTerra, Doing
<1>2. PICK t \in Shape : /\ Good(t) /\ Does(Head(todo), Cur(ok), t) /\ Cur(ok) # Dead
                         /\ \E u \in Ends(ok) : Takes(Tail(todo), t, u)
  BY <1>1, FirstDoes
<1>3. t = LuaLeft(Cur(ok), Arg) /\ Cur(ok).ts # <<>> /\ Arg \in Nat
  BY <1>1, <1>2 DEF Does, SameTags, Arg
<1>4. blocks' = Pop(blocks) /\ cnts' = cnts /\ inTerra' = Arg
  BY DEF ResumeTerra, LeaveBlock, Resumed
<1>5. \E u \in Ends(ok) : Takes(todo', t, u)
  BY <1>1, <1>2, TailOnly
<1>6. blocks' \in Seq(BlockSet) /\ Tags(blocks') = Pop(Tags(blocks))
  BY <1>3, <1>4, BlockPopped, CurIs
<1>7. Cur(ok)' = t
  BY <1>3, <1>4, <1>6, CurIs DEF Cur, ShapeOf, LuaLeft
<1>8. inTerra' \in Nat
  BY <1>3, <1>4
<1> QED
  BY <1>1, <1>2, <1>3, <1>4, <1>5, <1>6, <1>7, <1>8, CurIs, NextShape

LEMMA ImportStep ==
    ASSUME NEW ok \in BOOLEAN, InvC(ok), NEW l \in Languages, Import(l)
    PROVE  InvC(ok)' /\ blocks # <<>>
<1>1. /\ status = "parsing" /\ todo # <<>> /\ Head(todo)[1] = "stats" /\ status' = status
      /\ cnts' = cnts /\ inTerra' = inTerra /\ todo' = todo
  BY DEF Import, Doing
<1>2. blocks # <<>>
  BY <1>1, FirstStays DEF SameTags
<1>3. PICK u \in Ends(ok) : Takes(todo, Cur(ok), u)
  BY <1>1 DEF InvC
<1>4. PICK n \in Nat : n = Len(blocks) /\ n \in 1 .. n
  BY <1>2, CurIs
<1> DEFINE x == [blocks[n] EXCEPT !.exts = @ + 1]
<1>5. x \in BlockSet /\ x.terra = blocks[n].terra
  <2>1. blocks[n] \in BlockSet
    BY <1>4, CurIs
  <2> QED
    BY <2>1 DEF BlockSet
<1>6. blocks' = [blocks EXCEPT ![n] = x]
  BY <1>4 DEF Import
<1> HIDE DEF x
<1>7. LastChanged(blocks, blocks')
  BY <1>4, <1>5, <1>6, LastBlock, CurIs
<1>8. blocks' \in Seq(BlockSet)
  BY <1>7 DEF LastChanged
<1>9. Cur(ok)' = Cur(ok)
  <2>1. ShapeOf(blocks', inTerra, cnts, ok) = Cur(ok)
    BY <1>7, <1>8, SameCur
  <2> QED
    BY <1>1, <2>1 DEF Cur
<1> QED
  BY <1>1, <1>2, <1>3, <1>8, <1>9, CurIs, NextShape
-----------------------------------------------------------------------------
(* The actions that put operations in the place of the first one.          *)

(* A statement: ops, and back to where the statement began.                *)
LEMMA StatementStep ==
    ASSUME NEW ok \in BOOLEAN, InvC(ok), NEW ops, StatementIs(ops), UNCHANGED <<scopes, status>>,
           Cur(ok) \in Open => Takes(ops, Cur(ok), Cur(ok))
    PROVE  InvC(ok)'
<1>1. status = "parsing" /\ todo # <<>> /\ Head(todo)[1] = "stats"
  BY DEF StatementIs, Doing
<1>2. Cur(ok) \in Open
  BY <1>1, FirstStays DEF SameTags
<1>3. PICK u \in Ends(ok) : Takes(todo, Cur(ok), u)
  BY <1>1 DEF InvC
<1>4. Takes(<<Down>>, Cur(ok), Cur(ok))
  BY <1>2, OpsAreOps, Stays, TakesOne DEF Open
<1>5. Takes(ops \o <<Down>>, Cur(ok), Cur(ok))
  BY <1>2, <1>4, TakesConcat
<1>6. Takes(ops \o <<Down>> \o todo, Cur(ok), u)
  BY <1>3, <1>5, TakesConcat
<1>7. todo' = ops \o <<Down>> \o todo /\ status' = "parsing"
  BY <1>1 DEF StatementIs
<1> QED
  BY <1>6, <1>7, SameScopes

(* An operand: ops in the place of the expression.                         *)
LEMMA OperandStep ==
    ASSUME NEW ok \in BOOLEAN, InvC(ok), NEW ops, OperandIs(ops), Cur(ok) \in Open => Takes(ops, Cur(ok), Cur(ok))
    PROVE  InvC(ok)'
<1>1. /\ status = "parsing" /\ todo # <<>> /\ Head(todo)[1] = "expr"
      /\ status' = status /\ UNCHANGED scopes
  BY DEF OperandIs, Doing
<1>2. Cur(ok) \in Open /\ \E u \in Ends(ok) : Takes(Tail(todo), Cur(ok), u)
  BY <1>1, FirstStays DEF SameTags
<1>3. PICK u \in Ends(ok) : Takes(Tail(todo), Cur(ok), u)
  BY <1>2
<1>4. Takes(<<Down>>, Cur(ok), Cur(ok))
  BY <1>2, OpsAreOps, Stays, TakesOne DEF Open
<1>5. Takes(ops \o <<Down>>, Cur(ok), Cur(ok))
  BY <1>2, <1>4, TakesConcat
<1>6. Takes(ops \o <<Down>> \o Tail(todo), Cur(ok), u)
  BY <1>3, <1>5, TakesConcat
<1>7. todo' = ops \o <<Down>> \o Tail(todo)
  BY DEF OperandIs, Then
<1> QED
  BY <1>1, <1>6, <1>7, SameScopes

(* Operations that are only taken off.                                     *)
LEMMA DroppedStep ==
    ASSUME NEW ok \in BOOLEAN, InvC(ok), status = "parsing", todo # <<>>, Head(todo)[1] \in SameTags,
           UNCHANGED scopes, Then(<<>>), status' # "assert", status' # "done"
    PROVE  InvC(ok)'
<1>1. \E u \in Ends(ok) : Takes(Tail(todo), Cur(ok), u)
  BY FirstStays
<1>2. \E u \in Ends(ok) : Takes(todo', Cur(ok), u)
  BY <1>1, TailOnly
<1> QED
  BY <1>2, SameScopes

(* A language extension: its word opens a construct that it leaves.        *)
LEMMA ExtensionTakes ==
    ASSUME NEW s \in Open, s.ok => s.in = 0, NEW local \in BOOLEAN
    PROVE  Takes(<<EnterTerra, Language(local)>>, s, s)
<1>1. TerraEntered(s) \in Open
  BY TerraPushes
<1>2. Does(EnterTerra, s, TerraEntered(s)) /\ Does(Language(local), TerraEntered(s), s)
  BY TerraPairs
<1>3. EnterTerra \in Op /\ Language(local) \in Op
  BY OpsAreOps
<1> QED
  BY <1>1, <1>2, <1>3, TakesTwo

LEMMA ExtensionStep ==
    ASSUME NEW ok \in BOOLEAN, InvC(ok), status = "parsing", UNCHANGED scopes, Cur(ok) \in Open,
           inTerra = 0, NEW u \in Ends(ok),
           NEW e, NEW local \in BOOLEAN, NEW rest, Takes(rest, Cur(ok), u),
           LanguageExtension(e, local, rest)
    PROVE  InvC(ok)'
<1>1. CASE entry[e] = None
  BY <1>1, SameScopes DEF LanguageExtension
<1>2. CASE entry[e] # None
  <2>1. todo' = <<EnterTerra, Language(local)>> \o rest /\ status' = status
    BY <1>2 DEF LanguageExtension
  <2>2. Takes(<<EnterTerra, Language(local)>>, Cur(ok), Cur(ok))
    BY ExtensionTakes, CurIs
  <2>3. Takes(todo', Cur(ok), u)
    BY <2>1, <2>2, TakesConcat
  <2> QED
    BY <2>1, <2>3, SameScopes
<1> QED
  BY <1>1, <1>2

(* While a language runs, the innermost block is its own.                  *)
LEMMA LanguageShape ==
    ASSUME NEW ok \in BOOLEAN, InvC(ok), Doing("language")
    PROVE  \E t \in Shape : /\ Cur(ok) \in Open /\ Cur(ok).in > 0 /\ Good(t)
                            /\ Does(Head(todo), Cur(ok), t) /\ t = TerraLeft(Cur(ok))
                            /\ Len(Cur(ok).ts) > 1 /\ Cur(ok).cs # <<>>
                            /\ Cur(ok).cs[Len(Cur(ok).cs)] = Len(Cur(ok).ts)
                            /\ \E u \in Ends(ok) : Takes(Tail(todo), t, u)
<1>1. status = "parsing" /\ todo # <<>> /\ Head(todo)[1] = "language"
  BY DEF Doing
<1>2. PICK t \in Shape : /\ Good(t) /\ Does(Head(todo), Cur(ok), t) /\ Cur(ok) # Dead
                         /\ \E u \in Ends(ok) : Takes(Tail(todo), t, u)
  BY <1>1, FirstDoes
<1>3. /\ t = TerraLeft(Cur(ok))
      /\ Cur(ok).in > 0 /\ Len(Cur(ok).ts) > 1 /\ Cur(ok).cs # <<>> /\ Cur(ok).ts # <<>>
      /\ Cur(ok).cs[Len(Cur(ok).cs)] = Len(Cur(ok).ts)
  BY <1>1, <1>2 DEF Does, SameTags
<1>4. Cur(ok) \in Open
  BY <1>3, CurIs DEF Open
<1> QED
  BY <1>2, <1>3, <1>4

LEMMA HeadIsOp ==
    ASSUME NEW ok \in BOOLEAN, InvC(ok), status = "parsing", todo # <<>>
    PROVE  Head(todo) \in Op /\ todo \in Seq(Op) /\ todo = <<Head(todo)>> \o Tail(todo)
<1>1. todo \in Seq(Op)
  BY DEF InvC, Takes
<1>2. Head(todo) \in Op
  BY <1>1
<1>3. todo = <<Head(todo)>> \o Tail(todo)
  BY <1>1
<1> QED
  BY <1>1, <1>2, <1>3

LEMMA PutBefore ==
    ASSUME NEW a \in Op, NEW b \in Op, NEW c \in Seq(Op)
    PROVE  <<a, b>> \o c = <<a>> \o (<<b>> \o c)
<1>1. PICK p \in Seq(Op) : p = <<a>>
  <2>1. <<a>> \in Seq(Op)
    OBVIOUS
  <2>2. \E x \in Seq(Op) : x = <<a>>
    BY <2>1, Zenon
  <2> QED
    BY <2>2, Zenon
<1>2. PICK q \in Seq(Op) : q = <<b>>
  <2>1. <<b>> \in Seq(Op)
    OBVIOUS
  <2>2. \E x \in Seq(Op) : x = <<b>>
    BY <2>1, Zenon
  <2> QED
    BY <2>2, Zenon
<1>3. (p \o q) \o c = p \o (q \o c)
  BY ConcatAssociative
<1>4. <<a>> \o <<b>> = <<a, b>>
  BY TwoOps
<1>5. p \o q = <<a, b>>
  BY <1>1, <1>2, <1>4
<1> QED
  BY <1>1, <1>2, <1>3, <1>5

LEMMA EmbedsStep ==
    ASSUME NEW ok \in BOOLEAN, InvC(ok), LanguageEmbeds
    PROVE  InvC(ok)'
<1>1. status = "parsing" /\ todo # <<>> /\ status' = status /\ UNCHANGED scopes
      /\ Doing("language")
  BY DEF LanguageEmbeds, Doing
<1>2. Cur(ok) \in Open /\ Cur(ok).in > 0
  BY <1>1, LanguageShape
<1>3. PICK u \in Ends(ok) : Takes(todo, Cur(ok), u)
  BY <1>1 DEF InvC
<1>4. PICK ops \in LuaCode : Then(<<Embedded(ops), Head(todo)>>)
  BY DEF LanguageEmbeds, LuaCode
<1>5. Embedded(ops) \in Op /\ Does(Embedded(ops), Cur(ok), Cur(ok))
  BY <1>2, OpsAreOps, Stays
<1>6. Takes(<<Embedded(ops)>> \o todo, Cur(ok), u)
  BY <1>2, <1>3, <1>5, TakesFirst DEF Open
<1>7. todo' = <<Embedded(ops)>> \o todo
  <2>1. Head(todo) \in Op /\ todo = <<Head(todo)>> \o Tail(todo) /\ Tail(todo) \in Seq(Op)
    BY <1>1, HeadIsOp
  <2>3. todo' = <<Embedded(ops), Head(todo)>> \o Tail(todo)
    BY <1>4 DEF Then
  <2>4. <<Embedded(ops), Head(todo)>> \o Tail(todo)
            = <<Embedded(ops)>> \o (<<Head(todo)>> \o Tail(todo))
    BY <1>5, <2>1, PutBefore, Zenon
  <2> QED
    BY <2>1, <2>3, <2>4
<1> QED
  BY <1>1, <1>6, <1>7, SameScopes

LEMMA ReturnsStep ==
    ASSUME NEW ok \in BOOLEAN, InvC(ok), LanguageReturns
    PROVE  InvC(ok)'
<1>1. status = "parsing" /\ todo # <<>> /\ status' = status /\ UNCHANGED scopes
      /\ Doing("language")
  BY DEF LanguageReturns, Doing
<1>2. PICK t \in Shape : /\ Cur(ok) \in Open /\ Cur(ok).in > 0 /\ Good(t) /\ t = TerraLeft(Cur(ok))
                         /\ Len(Cur(ok).ts) > 1 /\ Cur(ok).cs # <<>>
                         /\ Cur(ok).cs[Len(Cur(ok).cs)] = Len(Cur(ok).ts)
                         /\ \E u \in Ends(ok) : Takes(Tail(todo), t, u)
  BY <1>1, LanguageShape
<1>3. PICK refs \in {<<>>} \cup {<<Ref(n)>> : n \in Names}, ns \in SUBSET Names :
            Then(refs \o <<LeaveLanguage(ns)>>)
  BY DEF LanguageReturns
<1>4. PICK u \in Ends(ok) : Takes(Tail(todo), t, u)
  BY <1>2
<1>5. Takes(refs, Cur(ok), Cur(ok))
  <2>1. CASE refs = <<>>
    BY <1>2, <2>1, TakesNothing
  <2>2. ASSUME NEW n \in Names, refs = <<Ref(n)>> PROVE Takes(refs, Cur(ok), Cur(ok))
    BY <1>2, <2>2, OpsAreOps, Stays, TakesOne DEF Open
  <2> QED
    BY <1>3, <2>1, <2>2
<1>6. LeaveLanguage(ns) \in Op /\ Does(LeaveLanguage(ns), Cur(ok), t)
  <2>1. Does(LeaveLanguage(ns), Cur(ok), t)
    BY <1>2 DEF Does, LeaveLanguage, Open
  <2> QED
    BY <2>1, OpsAreOps
<1>7. Takes(<<LeaveLanguage(ns)>>, Cur(ok), t)
  BY <1>2, <1>6, TakesOne DEF Open
<1>8. Takes(refs \o <<LeaveLanguage(ns)>> \o Tail(todo), Cur(ok), u)
  BY <1>4, <1>5, <1>7, TakesConcat
<1> QED
  BY <1>1, <1>3, <1>8, SameScopes DEF Then
-----------------------------------------------------------------------------
LEMMA InitShape == Init => InvC(TRUE)
<1> SUFFICES ASSUME Init PROVE InvC(TRUE)
  OBVIOUS
<1>1. /\ blocks = <<Block(FALSE)>> /\ cnts = <<>> /\ inTerra = 0
      /\ todo = <<Stats, Leave, Finish>> /\ status = "parsing"
  BY DEF Init
<1>2. /\ blocks \in Seq(BlockSet) /\ cnts \in Seq(CntSet)
      /\ Good(Cur(TRUE)) /\ \E u \in Ends(TRUE) : Takes(todo, Cur(TRUE), u)
  BY <1>1, Starts DEF Cur
<1>3. inTerra \in Nat /\ status # "assert"
  BY <1>1
<1> QED
  BY <1>2, <1>3 DEF InvC, Typed

(* The next parse begins as the first.                                     *)
LEMMA AgainStep == ParseAgain => InvC(TRUE)'
<1> SUFFICES ASSUME ParseAgain PROVE InvC(TRUE)'
  OBVIOUS
<1>1. /\ blocks' = <<Block(FALSE)>> /\ cnts' = <<>> /\ inTerra' = 0
      /\ todo' = <<Stats, Leave, Finish>> /\ status' = "parsing"
  BY DEF ParseAgain
<1>2. /\ blocks' \in Seq(BlockSet) /\ cnts' \in Seq(CntSet)
      /\ Good(Cur(TRUE)') /\ \E u \in Ends(TRUE) : Takes(todo', Cur(TRUE)', u)
  BY <1>1, Starts DEF Cur
<1>3. inTerra' \in Nat /\ status' # "assert"
  BY <1>1
<1> QED
  BY <1>2, <1>3 DEF InvC, Typed

(* The end of a parse.                                                     *)
LEMMA EndsStep ==
    ASSUME NEW ok \in BOOLEAN, InvC(ok), SyntaxError \/ TooManyLevels \/ EndParse
    PROVE  InvC(ok)'
<1>1. ASSUME SyntaxError PROVE InvC(ok)'
  <2>1. /\ blocks' = <<>> /\ cnts' = <<>> /\ inTerra' = 0 /\ status' = "syntax"
    BY <1>1 DEF SyntaxError, Fails
  <2>2. <<>> \in Seq(BlockSet) /\ <<>> \in Seq(CntSet) /\ 0 \in Nat
    OBVIOUS
  <2> DEFINE s == ShapeOf(<<>>, 0, <<>>, ok)
  <2>3. Cur(ok)' = s
    BY <2>1 DEF Cur
  <2>4. s.ts = <<>> /\ DOMAIN s.ts = {}
    <3>1. PICK bs \in Seq(BlockSet) : bs = <<>>
      BY <2>2
    <3>2. Tags(bs) = <<>>
      BY <3>1, TagsType
    <3> QED
      BY <3>1, <3>2 DEF ShapeOf
  <2>5. DOMAIN s.cs = {}
    <3>1. PICK cs \in Seq(CntSet) : cs = <<>>
      BY <2>2
    <3>2. Places(cs) = <<>>
      BY <3>1, PlacesType
    <3> QED
      BY <3>1, <3>2 DEF ShapeOf
  <2> HIDE DEF s
  <2>6. Good(Cur(ok)')
    BY <2>3, <2>4, <2>5 DEF Good
  <2> QED
    BY <2>1, <2>2, <2>6 DEF InvC, Typed
<1>2. ASSUME TooManyLevels PROVE InvC(ok)'
  BY <1>2, SameScopes DEF TooManyLevels
<1>3. ASSUME EndParse PROVE InvC(ok)'
  <2>1. status = "parsing" /\ todo # <<>> /\ Head(todo)[1] = "finish"
    BY <1>3 DEF EndParse, Doing
  <2>2. PICK t \in Shape : /\ Does(Head(todo), Cur(ok), t) /\ Cur(ok) # Dead
                           /\ Cur(ok).ok = ok
    BY <2>1, FirstDoes
  <2>3. ok
    BY <2>1, <2>2 DEF Does, SameTags
  <2> QED
    BY <1>3, <2>3, SameScopes DEF EndParse
<1> QED
  BY <1>1, <1>2, <1>3

(* What is done between the two ends of a construct.                       *)
LEMMA ConstructTakes ==
    ASSUME NEW s \in Open, s.ok => s.in = 0, NEW ops, NEW ns \in SUBSET Names,
           Takes(ops, TerraEntered(s), TerraEntered(s))
    PROVE  Takes(<<EnterTerra>> \o ops \o <<LeaveTerra(ns)>>, s, s)
<1> DEFINE t == TerraEntered(s)
<1>1. t \in Open /\ Does(EnterTerra, s, t) /\ Does(LeaveTerra(ns), t, s)
  BY TerraPushes, TerraPairs
<1>2. Takes(ops, t, t)
  OBVIOUS
<1> HIDE DEF t
<1>3. EnterTerra \in Op /\ LeaveTerra(ns) \in Op
  BY OpsAreOps
<1>4. s \in Shape /\ Good(s) /\ t \in Shape /\ Good(t)
  BY <1>1 DEF Open
<1>5. Takes(<<EnterTerra>>, s, t) /\ Takes(<<LeaveTerra(ns)>>, t, s)
  BY <1>1, <1>3, <1>4, TakesOne
<1> QED
  BY <1>2, <1>5, TakesConcat

LEMMA TwoDefinitionsTake ==
    ASSUME NEW s \in Open, s.ok => s.in = 0, NEW a, NEW b, NEW ns \in SUBSET Names,
           Takes(a, TerraEntered(s), TerraEntered(s)),
           Takes(b, TerraEntered(s), TerraEntered(s))
    PROVE  Takes(<<EnterTerra>> \o a \o b \o <<LeaveTerra(ns)>>, s, s)
<1> DEFINE t == TerraEntered(s)
<1>1. t \in Open /\ Does(EnterTerra, s, t) /\ Does(LeaveTerra(ns), t, s)
  BY TerraPushes, TerraPairs
<1>2. Takes(a, t, t) /\ Takes(b, t, t)
  OBVIOUS
<1> HIDE DEF t
<1>3. EnterTerra \in Op /\ LeaveTerra(ns) \in Op
  BY OpsAreOps
<1>4. s \in Shape /\ Good(s) /\ t \in Shape /\ Good(t)
  BY <1>1 DEF Open
<1>5. Takes(<<EnterTerra>>, s, t) /\ Takes(<<LeaveTerra(ns)>>, t, s)
  BY <1>1, <1>3, <1>4, TakesOne
<1>6. Takes(<<EnterTerra>> \o a, s, t)
  BY <1>2, <1>5, TakesConcat
<1>7. Takes(<<EnterTerra>> \o a \o b, s, t)
  BY <1>2, <1>6, TakesConcat
<1> QED
  BY <1>5, <1>7, TakesConcat

LEMMA EscapeTakes ==
    ASSUME NEW ok \in BOOLEAN, Cur(ok) \in Open, inTerra > 0
    PROVE  /\ Takes(<<Embedded(<<Stats>>), Tok>>, Cur(ok), Cur(ok))
           /\ Takes(<<Type, Tok>>, Cur(ok), Cur(ok))
<1>1. Cur(ok).in > 0
  BY DEF Cur, ShapeOf
<1>2. <<Stats>> \in LuaCode
  BY DEF LuaCode
<1>3. Embedded(<<Stats>>) \in Op /\ Does(Embedded(<<Stats>>), Cur(ok), Cur(ok))
  BY <1>1, <1>2, OpsAreOps, Stays
<1>4. Type \in Op /\ Does(Type, Cur(ok), Cur(ok))
  BY <1>1, TypeTakes
<1>5. Tok \in Op /\ Does(Tok, Cur(ok), Cur(ok))
  BY OpsAreOps, Stays
<1> QED
  BY <1>3, <1>4, <1>5, TakesTwo

(* Statements.                                                             *)
LEMMA StatementsStep ==
    ASSUME NEW ok \in BOOLEAN, InvC(ok), CommonStatement \/ FunctionStatement \/ TerraStatement \/ EscapeStatement
    PROVE  InvC(ok)'
<1>1. ASSUME CommonStatement PROVE InvC(ok)'
  <2>1. UNCHANGED <<scopes, status>>
    BY <1>1 DEF CommonStatement
  <2>2. CASE StatementIs(CondRule)
    BY <2>1, <2>2, LoopsTake, StatementStep
  <2>3. CASE StatementIs(RepeatRule)
    BY <2>1, <2>3, LoopsTake, StatementStep
  <2>4. ASSUME NEW n \in Names, StatementIs(FornumRule({n})) \/ StatementIs(ForlistRule({n}))
                                    \/ StatementIs(LocalRule({n}))
        PROVE  InvC(ok)'
    <3>1. {n} \in SUBSET Names
      OBVIOUS
    <3>2. Cur(ok) \in Open => /\ Takes(FornumRule({n}), Cur(ok), Cur(ok))
                          /\ Takes(ForlistRule({n}), Cur(ok), Cur(ok))
                          /\ Takes(LocalRule({n}), Cur(ok), Cur(ok))
      BY <3>1, LoopsTake
    <3> QED
      BY <2>1, <2>4, <3>2, StatementStep
  <2> QED
    BY <1>1, <2>2, <2>3, <2>4 DEF CommonStatement
<1>2. ASSUME FunctionStatement PROVE InvC(ok)'
  <2>1. UNCHANGED <<scopes, status>> /\ inTerra = 0
    BY <1>2 DEF FunctionStatement
  <2>2. Body({}) = LuaBody({})
    BY <2>1 DEF Body
  <2>3. PICK n \in Names : StatementIs(<<Ref(n)>> \o Body({}))
                              \/ StatementIs(<<Define({n})>> \o Body({}))
    BY <1>2 DEF FunctionStatement
  <2>4. Cur(ok) \in Open => /\ Takes(<<Ref(n)>> \o Body({}), Cur(ok), Cur(ok))
                        /\ Takes(<<Define({n})>> \o Body({}), Cur(ok), Cur(ok))
    <3> SUFFICES ASSUME Cur(ok) \in Open
                 PROVE  /\ Takes(<<Ref(n)>> \o Body({}), Cur(ok), Cur(ok))
                        /\ Takes(<<Define({n})>> \o Body({}), Cur(ok), Cur(ok))
      OBVIOUS
    <3>1. {n} \in SUBSET Names /\ {} \in SUBSET Names
      OBVIOUS
    <3>2. Takes(Body({}), Cur(ok), Cur(ok))
      BY <2>2, <3>1, BodiesTake
    <3>3. Ref(n) \in Op /\ Does(Ref(n), Cur(ok), Cur(ok))
      BY OpsAreOps, Stays
    <3>4. Define({n}) \in Op /\ Does(Define({n}), Cur(ok), Cur(ok))
      BY <3>1, OpsAreOps, Stays
    <3>5. Cur(ok) \in Shape /\ Good(Cur(ok))
      BY DEF Open
    <3> QED
      BY <3>2, <3>3, <3>4, <3>5, TakesFirst
  <2> QED
    BY <2>1, <2>3, <2>4, StatementStep
<1>3. ASSUME TerraStatement PROVE InvC(ok)'
  <2>1. UNCHANGED <<scopes, status>> /\ inTerra = 0 /\ Cur(ok).in = 0
    BY <1>3, CurIs DEF TerraStatement
  <2>2. ASSUME NEW ops, NEW ns \in SUBSET Names,
               Cur(ok) \in Open => Takes(ops, TerraEntered(Cur(ok)), TerraEntered(Cur(ok))),
               StatementIs(<<EnterTerra>> \o ops \o <<LeaveTerra(ns)>>)
        PROVE  InvC(ok)'
    <3>1. Cur(ok) \in Open => Takes(<<EnterTerra>> \o ops \o <<LeaveTerra(ns)>>, Cur(ok), Cur(ok))
      BY <2>1, <2>2, ConstructTakes
    <3> QED
      BY <2>1, <2>2, <3>1, StatementStep
  <2>3. ASSUME NEW kind \in {"terra", "struct", "declared"}, NEW params,
               params \subseteq SUBSET Names,
               NEW d \in Definitions(kind, params)
        PROVE  /\ Local(d) \in SUBSET Names
               /\ Cur(ok) \in Open =>
                    Takes(Definition(d), TerraEntered(Cur(ok)), TerraEntered(Cur(ok)))
    <3>1. d \in Definables
      BY <2>3 DEF Definitions, Definables
    <3>2. Local(d) \in SUBSET Names
      BY <3>1 DEF Local, Definables
    <3>3. ASSUME Cur(ok) \in Open
          PROVE  Takes(Definition(d), TerraEntered(Cur(ok)), TerraEntered(Cur(ok)))
      BY <2>1, <3>1, <3>3, TerraPushes, DefinitionTakes
    <3> QED
      BY <3>2, <3>3
  <2>4. SUBSET Names \subseteq SUBSET Names /\ {{}} \subseteq SUBSET Names
    OBVIOUS
  <2>5. ASSUME NEW d \in Definitions("terra", SUBSET Names) \cup Definitions("struct", {{}}),
               StatementIs(<<EnterTerra>> \o Definition(d) \o <<LeaveTerra(Local(d))>>)
        PROVE  InvC(ok)'
    <3>1. /\ Local(d) \in SUBSET Names
          /\ Cur(ok) \in Open => Takes(Definition(d), TerraEntered(Cur(ok)), TerraEntered(Cur(ok)))
      <4>1. CASE d \in Definitions("terra", SUBSET Names)
        BY <2>3, <2>4, <4>1
      <4>2. CASE d \in Definitions("struct", {{}})
        BY <2>3, <2>4, <4>2
      <4> QED
        BY <4>1, <4>2
    <3> QED
      BY <2>2, <2>5, <3>1
  <2>6. ASSUME NEW d \in Definitions("terra", {{}}), NEW f \in Definitions("declared", {{}}),
               StatementIs(<<EnterTerra>> \o Definition(d) \o Definition(f)
                                \o <<LeaveTerra(Local(d) \cup Local(f))>>)
        PROVE  InvC(ok)'
    <3>1. /\ Local(d) \in SUBSET Names
          /\ Cur(ok) \in Open => Takes(Definition(d), TerraEntered(Cur(ok)), TerraEntered(Cur(ok)))
      BY <2>3, <2>4
    <3>2. /\ Local(f) \in SUBSET Names
          /\ Cur(ok) \in Open => Takes(Definition(f), TerraEntered(Cur(ok)), TerraEntered(Cur(ok)))
      BY <2>3, <2>4
    <3>3. Local(d) \cup Local(f) \in SUBSET Names
      BY <3>1, <3>2
    <3>4. ASSUME Cur(ok) \in Open
          PROVE  Takes(<<EnterTerra>> \o Definition(d) \o Definition(f)
                            \o <<LeaveTerra(Local(d) \cup Local(f))>>, Cur(ok), Cur(ok))
      BY <2>1, <3>1, <3>2, <3>3, <3>4, TwoDefinitionsTake
    <3> QED
      BY <2>1, <2>6, <3>4, StatementStep
  <2> QED
    BY <1>3, <2>5, <2>6 DEF TerraStatement
<1>4. ASSUME EscapeStatement PROVE InvC(ok)'
  <2>1. UNCHANGED <<scopes, status>> /\ inTerra > 0
        /\ StatementIs(<<Embedded(<<Stats>>), Tok>>)
    BY <1>4 DEF EscapeStatement
  <2>2. Cur(ok) \in Open => Takes(<<Embedded(<<Stats>>), Tok>>, Cur(ok), Cur(ok))
    BY <2>1, EscapeTakes
  <2> QED
    BY <2>1, <2>2, StatementStep
<1> QED
  BY <1>1, <1>2, <1>3, <1>4

LEMMA LanguageStatementStep ==
    ASSUME NEW ok \in BOOLEAN, InvC(ok), LanguageStatement
    PROVE  InvC(ok)'
<1>1. /\ status = "parsing" /\ todo # <<>> /\ Head(todo)[1] = "stats" /\ UNCHANGED scopes
      /\ inTerra = 0
  BY DEF LanguageStatement, Doing
<1>2. Cur(ok) \in Open
  BY <1>1, FirstStays DEF SameTags
<1>3. PICK u \in Ends(ok) : Takes(todo, Cur(ok), u)
  BY <1>1 DEF InvC
<1>4. Takes(<<Down>>, Cur(ok), Cur(ok))
  BY <1>2, OpsAreOps, Stays, TakesOne DEF Open
<1>5. Takes(<<Down>> \o todo, Cur(ok), u)
  BY <1>3, <1>4, TakesConcat
<1>6. TRUE \in BOOLEAN /\ FALSE \in BOOLEAN
  OBVIOUS
<1>7. CASE LanguageExtension(token, FALSE, <<Down>> \o todo)
  BY <1>1, <1>2, <1>5, <1>6, <1>7, ExtensionStep
<1>8. ASSUME NEW e, LanguageExtension(e, TRUE, <<Down>> \o todo) PROVE InvC(ok)'
  BY <1>1, <1>2, <1>5, <1>6, <1>8, ExtensionStep
<1> QED
  BY <1>7, <1>8 DEF LanguageStatement

(* Expressions.                                                            *)
LEMMA OperandsStep ==
    ASSUME NEW ok \in BOOLEAN, InvC(ok), FunctionOperand \/ TerraOperand \/ EscapeOperand
    PROVE  InvC(ok)'
<1>1. ASSUME FunctionOperand PROVE InvC(ok)'
  <2>1. PICK ns \in SUBSET Names : OperandIs(Body(ns))
    BY <1>1 DEF FunctionOperand
  <2>2. Cur(ok).in = inTerra
    BY CurIs
  <2>3. Cur(ok) \in Open => Takes(Body(ns), Cur(ok), Cur(ok))
    <3>1. CASE inTerra > 0
      BY <2>2, <3>1, BodiesTake DEF Body
    <3>2. CASE ~(inTerra > 0)
      BY <3>2, BodiesTake DEF Body
    <3> QED
      BY <3>1, <3>2
  <2> QED
    BY <2>1, <2>3, OperandStep
<1>2. ASSUME TerraOperand PROVE InvC(ok)'
  <2>5. Cur(ok).in = 0
    BY <1>2, CurIs DEF TerraOperand
  <2>1. CASE OperandIs(QuoteExp)
    BY <2>1, <2>5, QuotesTake, OperandStep
  <2>2. CASE OperandIs(QuoteStats(In))
    BY <2>2, <2>5, QuotesTake, OperandStep
  <2>3. CASE OperandIs(<<EnterTerra, Type, Tok, LeaveTerra({})>>)
    <3>1. ASSUME Cur(ok) \in Open
          PROVE  Takes(<<EnterTerra, Type, Tok, LeaveTerra({})>>, Cur(ok), Cur(ok))
      <4> DEFINE t == TerraEntered(Cur(ok))
      <4>1. /\ t \in Open /\ t.in > 0
            /\ Does(EnterTerra, Cur(ok), t) /\ Does(LeaveTerra({}), t, Cur(ok))
        BY <2>5, <3>1, TerraPushes, TerraPairs
      <4> HIDE DEF t
      <4>2. Type \in Op /\ Does(Type, t, t) /\ Does(Tok, t, t)
        BY <4>1, TypeTakes, Stays
      <4>3. EnterTerra \in Op /\ LeaveTerra({}) \in Op /\ Tok \in Op
        BY OpsAreOps
      <4> QED
        BY <3>1, <4>1, <4>2, <4>3, TakesFour
    <3> QED
      BY <2>3, <3>1, OperandStep
  <2>4. ASSUME NEW ns \in SUBSET Names,
               OperandIs(<<EnterTerra>> \o TerraBody(ns) \o <<LeaveTerra({})>>)
        PROVE  InvC(ok)'
    <3>1. ASSUME Cur(ok) \in Open
          PROVE  Takes(<<EnterTerra>> \o TerraBody(ns) \o <<LeaveTerra({})>>, Cur(ok), Cur(ok))
      <4>1. Takes(TerraBody(ns), TerraEntered(Cur(ok)), TerraEntered(Cur(ok)))
        BY <2>5, <3>1, TerraPushes, BodiesTake
      <4>2. {} \in SUBSET Names
        OBVIOUS
      <4> QED
        BY <2>5, <3>1, <4>1, <4>2, ConstructTakes
    <3> QED
      BY <2>4, <3>1, OperandStep
  <2> QED
    BY <1>2, <2>1, <2>2, <2>3, <2>4 DEF TerraOperand
<1>3. ASSUME EscapeOperand PROVE InvC(ok)'
  <2>1. inTerra > 0
    BY <1>3 DEF EscapeOperand
  <2>2. CASE OperandIs(<<Type, Tok>>)
    BY <2>1, <2>2, EscapeTakes, OperandStep
  <2>3. CASE OperandIs(<<Embedded(<<Stats>>), Tok>>)
    BY <2>1, <2>3, EscapeTakes, OperandStep
  <2> QED
    BY <1>3, <2>2, <2>3 DEF EscapeOperand
<1> QED
  BY <1>1, <1>2, <1>3

(* A language extension inside of Terra: nothing is ok any more, for what  *)
(* is left comes to RETURNS_1 in Terra.                                    *)
LEMMA ExtensionInTerra ==
    ASSUME NEW ok \in BOOLEAN, InvC(ok), Cur(ok) \in Open, status = "parsing",
           UNCHANGED scopes, inTerra > 0, NEW e, NEW rest \in Seq(Op),
           LanguageExtension(e, FALSE, <<Returns1, Down>> \o rest)
    PROVE  InvC(FALSE)'
<1> DEFINE s == Cur(FALSE)
<1>1. s = [ts |-> Cur(ok).ts, in |-> Cur(ok).in, cs |-> Cur(ok).cs, ok |-> FALSE]
  BY DEF Cur, ShapeOf
<1>2. s' = s
  BY DEF Cur, scopes
<1> HIDE DEF s
<1>3. s \in Open /\ ~s.ok /\ s.in > 0
  <2>1. Cur(ok) \in Shape /\ Good(Cur(ok)) /\ Cur(ok).ts # <<>> /\ Cur(ok).in \in Nat
    BY DEF Open
  <2>2. s \in Shape
    BY <1>1, <2>1 DEF Shape
  <2>3. s.ts = Cur(ok).ts /\ s.in = Cur(ok).in /\ s.cs = Cur(ok).cs /\ s.ok = FALSE
    BY <1>1
  <2>4. Good(s)
    BY <2>1, <2>3 DEF Good
  <2>5. s.in > 0
    BY <2>3, CurIs
  <2> QED
    BY <2>1, <2>2, <2>3, <2>4, <2>5 DEF Open
<1>4. /\ blocks' \in Seq(BlockSet) /\ cnts' \in Seq(CntSet) /\ inTerra' \in Nat
      /\ Good(s) /\ FALSE \in BOOLEAN
  BY <1>3, CurIs DEF scopes, Open
<1>5. CASE entry[e] = None
  <2>1. status' = "luaerror"
    BY <1>5 DEF LanguageExtension
  <2> QED
    BY <1>2, <1>4, <2>1 DEF s, InvC, Typed
<1>6. CASE entry[e] # None
  <2>1. /\ todo' = <<EnterTerra, Language(FALSE)>> \o (<<Returns1, Down>> \o rest)
        /\ status' = status
    BY <1>6 DEF LanguageExtension
  <2>2. Takes(<<EnterTerra, Language(FALSE)>>, s, s)
    BY <1>3, ExtensionTakes
  <2>3. Takes(<<Returns1>>, s, Dead)
    <3>1. Does(Returns1, s, Dead)
      BY <1>3 DEF Does, Returns1, Open
    <3>2. Dead \in Shape /\ Good(Dead)
      BY DEF Dead, Shape, Good
    <3> QED
      BY <1>3, <3>1, <3>2, OpsAreOps, TakesOne DEF Open
  <2>4. Takes(<<Returns1, Down>>, s, Dead)
    <3>1. <<Down>> \in Seq(Op) /\ Returns1 \in Op /\ Down \in Op
      BY OpsAreOps
    <3>2. Takes(<<Returns1>> \o <<Down>>, s, Dead)
      BY <2>3, <3>1, DeadTakes, TakesConcat
    <3>3. <<Returns1>> \o <<Down>> = <<Returns1, Down>>
      BY <3>1, TwoOps, Zenon
    <3> QED
      BY <3>2, <3>3, Zenon
  <2>5. Takes(<<Returns1, Down>> \o rest, s, Dead)
    BY <2>4, DeadTakes, TakesConcat
  <2>6. Takes(todo', s, Dead)
    BY <2>1, <2>2, <2>5, TakesConcat
  <2>7. \E u \in Ends(FALSE) : Takes(todo', s, u)
    BY <2>6 DEF Ends
  <2>8. Cur(FALSE)' = s
    BY <1>2 DEF s
  <2> QED
    BY <1>4, <2>1, <2>7, <2>8, NextShape
<1> QED
  BY <1>5, <1>6

LEMMA LanguageOperandStep ==
    ASSUME NEW ok \in BOOLEAN, InvC(ok), LanguageOperand
    PROVE  InvC(ok)' \/ InvC(FALSE)'
<1>1. /\ status = "parsing" /\ todo # <<>> /\ Head(todo)[1] = "expr" /\ UNCHANGED scopes
      /\ LanguageExtension(token, FALSE, <<Returns1, Down>> \o Tail(todo))
  BY DEF LanguageOperand, Doing
<1>2. Cur(ok) \in Open /\ \E u \in Ends(ok) : Takes(Tail(todo), Cur(ok), u)
  BY <1>1, FirstStays DEF SameTags
<1>3. PICK u \in Ends(ok) : Takes(Tail(todo), Cur(ok), u)
  BY <1>2
<1>4. CASE inTerra = 0
  <2>1. Takes(<<Returns1, Down>>, Cur(ok), Cur(ok))
    BY <1>2, <1>4, OpsAreOps, Stays, TakesTwo, CurIs
  <2>2. Takes(<<Returns1, Down>> \o Tail(todo), Cur(ok), u)
    BY <1>3, <2>1, TakesConcat
  <2>3. FALSE \in BOOLEAN
    OBVIOUS
  <2> QED
    BY <1>1, <1>2, <1>4, <2>2, <2>3, ExtensionStep
<1>5. CASE inTerra > 0
  <2>1. Tail(todo) \in Seq(Op)
    BY <1>3 DEF Takes
  <2> QED
    BY <1>1, <1>2, <1>5, <2>1, ExtensionInTerra
<1>6. inTerra = 0 \/ inTerra > 0
  <2>1. inTerra \in Nat
    BY CurIs
  <2> QED
    BY <2>1
<1> QED
  BY <1>4, <1>5, <1>6, Zenon

(* The actions that take one operation off and leave the shape as it is.   *)
LEMMA SinglesStep ==
    ASSUME NEW ok \in BOOLEAN, InvC(ok), \/ Refers \/ Token \/ LeaveLevel \/ LanguageReads \/ CheckReturns1
                \/ EndStatements \/ ExprStatement \/ Literal
                \/ \E n \in Names : Variable(n)
    PROVE  InvC(ok)'
<1>1. ASSUME Refers PROVE InvC(ok)'
  <2>1. /\ status = "parsing" /\ todo # <<>> /\ Head(todo)[1] = "ref"
        /\ Reference(Arg) /\ Then(<<>>) /\ UNCHANGED <<blocks, inTerra>>
    BY <1>1 DEF Refers, Doing
  <2>2. Arg \in Names /\ \E u \in Ends(ok) : Takes(Tail(todo), Cur(ok), u)
    BY <2>1, FirstStays
  <2>3. \E u \in Ends(ok) : Takes(todo', Cur(ok), u)
    BY <2>1, <2>2, TailOnly
  <2> QED
    BY <2>1, <2>2, <2>3, ReferenceStep
<1>2. ASSUME Token PROVE InvC(ok)'
  BY <1>2, DroppedStep DEF Token, Doing, SameTags
<1>3. ASSUME LeaveLevel PROVE InvC(ok)'
  BY <1>3, DroppedStep DEF LeaveLevel, Doing, SameTags
<1>4. ASSUME LanguageReads PROVE InvC(ok)'
  <2>1. status' = status /\ todo' = todo /\ UNCHANGED scopes
    BY <1>4 DEF LanguageReads
  <2> QED
    BY <2>1, SameScopes DEF InvC
<1>5. ASSUME CheckReturns1 PROVE InvC(ok)'
  <2>1. /\ status = "parsing" /\ todo # <<>> /\ Head(todo)[1] = "returns1"
        /\ Then(<<>>) /\ UNCHANGED scopes
        /\ status' = IF inTerra = 0 THEN status ELSE "syntax"
    BY <1>5 DEF CheckReturns1, StackChecked, Doing
  <2>2. PICK t \in Shape : /\ Good(t) /\ Does(Head(todo), Cur(ok), t) /\ Cur(ok) # Dead
                           /\ \E u \in Ends(ok) : Takes(Tail(todo), t, u)
    BY <2>1, FirstDoes
  <2>3. CASE inTerra = 0
    <3>1. t = Cur(ok)
      BY <2>1, <2>2, <2>3, CurIs DEF Does, SameTags
    <3>2. \E u \in Ends(ok) : Takes(todo', Cur(ok), u)
      BY <2>1, <2>2, <3>1, TailOnly
    <3> QED
      BY <2>1, <2>3, <3>2, SameScopes
  <2>4. CASE inTerra # 0
    BY <2>1, <2>4, SameScopes
  <2> QED
    BY <2>3, <2>4
<1>6. ASSUME EndStatements PROVE InvC(ok)'
  BY <1>6, DroppedStep DEF EndStatements, Doing, SameTags
<1>7. ASSUME ExprStatement PROVE InvC(ok)'
  <2>1. /\ status = "parsing" /\ todo # <<>> /\ Head(todo)[1] = "stats" /\ UNCHANGED scopes
        /\ status' = status /\ todo' = <<Expr, Down>> \o todo
    BY <1>7 DEF ExprStatement, Doing
  <2>2. Cur(ok) \in Open
    BY <2>1, FirstStays DEF SameTags
  <2>3. PICK u \in Ends(ok) : Takes(todo, Cur(ok), u)
    BY <2>1 DEF InvC
  <2>4. Takes(<<Expr, Down>>, Cur(ok), Cur(ok))
    BY <2>2, OpsAreOps, Stays, TakesTwo
  <2>5. Takes(<<Expr, Down>> \o todo, Cur(ok), u)
    BY <2>3, <2>4, TakesConcat
  <2> QED
    BY <2>1, <2>5, SameScopes
<1>8. ASSUME Literal PROVE InvC(ok)'
  BY <1>8, DroppedStep DEF Literal, Doing, SameTags
<1>9. ASSUME NEW n \in Names, Variable(n) PROVE InvC(ok)'
  <2>1. /\ status = "parsing" /\ todo # <<>> /\ Head(todo)[1] = "expr"
        /\ Reference(n) /\ Then(<<>>) /\ UNCHANGED <<blocks, inTerra>>
    BY <1>9 DEF Variable, Doing
  <2>2. \E u \in Ends(ok) : Takes(Tail(todo), Cur(ok), u)
    BY <2>1, FirstStays DEF SameTags
  <2>3. \E u \in Ends(ok) : Takes(todo', Cur(ok), u)
    BY <2>1, <2>2, TailOnly
  <2> QED
    BY <2>1, <2>3, ReferenceStep
<1> QED
  BY <1>1, <1>2, <1>3, <1>4, <1>5, <1>6, <1>7, <1>8, <1>9

(* A step keeps the shape good and what is left possible; only a language  *)
(* extension in Terra makes all not ok.                                    *)
LEMMA StepShape ==
    ASSUME NEW ok \in BOOLEAN, InvC(ok), [Next]_vars, ~ParseAgain
    PROVE  InvC(ok)' \/ InvC(FALSE)'
<1>1. CASE UNCHANGED vars
  <2>1. UNCHANGED scopes /\ todo' = todo /\ status' = status
    BY <1>1 DEF vars
  <2> QED
    BY <2>1, SameScopes DEF InvC
<1>2. CASE SyntaxError \/ TooManyLevels \/ EndParse
  BY <1>2, EndsStep
<1>3. CASE EnterBlock
  BY <1>3, EnterBlockStep
<1>4. CASE Leaves
  BY <1>4, LeavesStep
<1>5. CASE Defines
  BY <1>5, DefinesStep
<1>6. CASE EnterTerraCnt
  BY <1>6, EnterTerraStep
<1>7. CASE LeaveTerraCnt
  BY <1>7, LeaveTerraStep
<1>8. CASE EmbeddedCode
  BY <1>8, EmbeddedStep
<1>9. CASE ResumeTerra
  BY <1>9, ResumeStep
<1>10. CASE \E l \in Languages : Import(l)
  BY <1>10, ImportStep
<1>11. CASE LanguageEmbeds
  BY <1>11, EmbedsStep
<1>12. CASE LanguageReturns
  BY <1>12, ReturnsStep
<1>13. CASE CommonStatement \/ FunctionStatement \/ TerraStatement \/ EscapeStatement
  BY <1>13, StatementsStep
<1>14. CASE LanguageStatement
  BY <1>14, LanguageStatementStep
<1>15. CASE FunctionOperand \/ TerraOperand \/ EscapeOperand
  BY <1>15, OperandsStep
<1>16. CASE LanguageOperand
  BY <1>16, LanguageOperandStep
<1>17. CASE \/ Refers \/ Token \/ LeaveLevel \/ LanguageReads \/ CheckReturns1
            \/ EndStatements \/ ExprStatement \/ Literal
            \/ \E n \in Names : Variable(n)
  BY <1>17, SinglesStep
<1> QED
  BY <1>1, <1>2, <1>3, <1>4, <1>5, <1>6, <1>7, <1>8, <1>9, <1>10, <1>11, <1>12, <1>13,
     <1>14, <1>15, <1>16, <1>17 DEF Next

Inv == \E ok \in BOOLEAN : InvC(ok)

LEMMA StepInv == Inv /\ [Next]_vars => Inv'
<1> SUFFICES ASSUME Inv, [Next]_vars PROVE Inv'
  OBVIOUS
<1>1. PICK ok \in BOOLEAN : InvC(ok)
  BY DEF Inv
<1>2. TRUE \in BOOLEAN /\ FALSE \in BOOLEAN
  OBVIOUS
<1>3. CASE ParseAgain
  BY <1>2, <1>3, AgainStep DEF Inv
<1>4. CASE ~ParseAgain
  <2>1. InvC(ok)' \/ InvC(FALSE)'
    BY <1>1, <1>4, StepShape
  <2> QED
    BY <1>2, <2>1 DEF Inv
<1> QED
  BY <1>3, <1>4

(***************************************************************************)
(* What is left of the parse can always be done: every block and construct *)
(* that is open will be closed by what is on the stack of the descent, in  *)
(* the state of in_terra it was opened in.                                 *)
(***************************************************************************)
THEOREM WhatIsLeftFits == Spec => []Inv
<1>1. Init => Inv
  BY InitShape DEF Inv
<1>2. Inv /\ [Next]_vars => Inv'
  BY StepInv
<1> QED
  BY <1>1, <1>2, PTL DEF Spec

(* in_terra agrees with the innermost block, and the assertions of         *)
(* refvariable and embeddedcode hold.                                      *)
THEOREM InTerraAgrees == Spec => []InTerraIsTop
<1>1. Inv => InTerraIsTop
  <2> SUFFICES ASSUME NEW ok \in BOOLEAN, InvC(ok) PROVE InTerraIsTop
    BY DEF Inv
  <2>1. status # "assert"
    BY DEF InvC
  <2>2. ASSUME blocks # <<>> PROVE Top.terra <=> inTerra > 0
    <3>1. PICK n \in Nat : n = Len(blocks) /\ n \in 1 .. n
      BY <2>2, CurIs
    <3>2. Tags(blocks)[n] = 1 <=> inTerra > 0
      BY <2>2, <3>1, CurIs DEF Good
    <3>3. Tags(blocks)[n] = 1 <=> blocks[n].terra
      BY <3>1, TagsType, CurIs
    <3> QED
      BY <3>1, <3>2, <3>3 DEF Top
  <2> QED
    BY <2>1, <2>2 DEF InTerraIsTop
<1> QED
  BY <1>1, WhatIsLeftFits, PTL
-----------------------------------------------------------------------------
(* The counts of imports of the blocks, and their sum.                     *)
Exts(bs) == [i \in 1 .. Len(bs) |-> bs[i].exts]

LEMMA ExtsType ==
    ASSUME NEW bs \in Seq(BlockSet)
    PROVE  /\ Exts(bs) \in Seq(Nat) /\ Len(Exts(bs)) = Len(bs)
           /\ \A i \in 1 .. Len(bs) : Exts(bs)[i] = bs[i].exts
<1>1. PICK n \in Nat : n = Len(bs)
  OBVIOUS
<1>2. \A i \in 1 .. n : bs[i] \in BlockSet
  BY <1>1
<1>3. \A i \in 1 .. n : bs[i].exts \in Nat
  BY <1>2 DEF BlockSet
<1>4. Exts(bs) \in [1 .. n -> Nat] /\ \A i \in 1 .. n : Exts(bs)[i] = bs[i].exts
  BY <1>1, <1>3 DEF Exts
<1>5. Exts(bs) \in Seq(Nat) /\ Len(Exts(bs)) = n
  BY <1>4
<1> QED
  BY <1>1, <1>4, <1>5

LEMMA ImportsIsSum ==
    ASSUME NEW bs \in Seq(BlockSet), NEW f, IsSum(f, Exts(bs))
    PROVE  Imports(bs) = f[Len(bs)] /\ f[Len(bs)] \in Nat
<1> DEFINE sum[i \in 0 .. Len(bs)] == IF i = 0 THEN 0 ELSE sum[i - 1] + bs[i].exts
<1>1. PICK n \in Nat : n = Len(bs)
  OBVIOUS
<1>2. PICK p \in Seq(Nat) : p = Exts(bs) /\ Len(p) = n /\ \A i \in 1 .. n : p[i] = bs[i].exts
  BY <1>1, ExtsType
<1>3. PICK g : g = [i \in 0 .. n |-> IF i = 0 THEN 0 ELSE g[i - 1] + p[i]]
  BY <1>2, SumExists DEF IsSum
<1>4. g = [i \in 0 .. n |-> IF i = 0 THEN 0 ELSE g[i - 1] + bs[i].exts]
  <2>1. \A i \in 0 .. n : i # 0 => i \in 1 .. n
    OBVIOUS
  <2>2. \A i \in 0 .. n : (IF i = 0 THEN 0 ELSE g[i - 1] + p[i])
                            = (IF i = 0 THEN 0 ELSE g[i - 1] + bs[i].exts)
    BY <1>2, <2>1
  <2>3. [i \in 0 .. n |-> IF i = 0 THEN 0 ELSE g[i - 1] + p[i]]
            = [i \in 0 .. n |-> IF i = 0 THEN 0 ELSE g[i - 1] + bs[i].exts]
    BY <2>2
  <2> QED
    BY <1>3, <2>3
<1>5. sum = [i \in 0 .. Len(bs) |-> IF i = 0 THEN 0 ELSE sum[i - 1] + bs[i].exts]
  <2>1. \E h : h = [i \in 0 .. Len(bs) |-> IF i = 0 THEN 0 ELSE h[i - 1] + bs[i].exts]
    BY <1>1, <1>4
  <2> QED
    BY <2>1
<1>6. Imports(bs) = sum[Len(bs)]
  BY DEF Imports
<1> HIDE DEF sum
<1>7. sum = [i \in 0 .. n |-> IF i = 0 THEN 0 ELSE sum[i - 1] + p[i]]
  <2>1. \A i \in 0 .. n : i # 0 => i \in 1 .. n
    OBVIOUS
  <2>2. \A i \in 0 .. n : (IF i = 0 THEN 0 ELSE sum[i - 1] + p[i])
                            = (IF i = 0 THEN 0 ELSE sum[i - 1] + bs[i].exts)
    BY <1>2, <2>1
  <2>3. [i \in 0 .. n |-> IF i = 0 THEN 0 ELSE sum[i - 1] + p[i]]
            = [i \in 0 .. n |-> IF i = 0 THEN 0 ELSE sum[i - 1] + bs[i].exts]
    BY <2>2
  <2> QED
    BY <1>1, <1>5, <2>3
<1>8. IsSum(sum, p) /\ IsSum(f, p)
  BY <1>2, <1>7 DEF IsSum
<1>9. f[n] = sum[n] /\ sum[n] \in Nat
  <2>1. n \in 0 .. Len(p) /\ Len(p) <= Len(p)
    BY <1>2
  <2> QED
    BY <1>8, <2>1, SumsAgree
<1> QED
  BY <1>1, <1>6, <1>9

(* The sums of lists of blocks that count the same imports are the same.   *)
LEMMA SameImports ==
    ASSUME NEW bs \in Seq(BlockSet), NEW cs \in Seq(BlockSet), Len(bs) = Len(cs),
           \A i \in 1 .. Len(cs) : bs[i].exts = cs[i].exts
    PROVE  Imports(bs) = Imports(cs)
<1>1. PICK n \in Nat : n = Len(bs) /\ n = Len(cs)
  OBVIOUS
<1>2. /\ Exts(bs) \in Seq(Nat) /\ Len(Exts(bs)) = n
      /\ \A i \in 1 .. n : Exts(bs)[i] = bs[i].exts
  BY <1>1, ExtsType
<1>3. /\ Exts(cs) \in Seq(Nat) /\ Len(Exts(cs)) = n
      /\ \A i \in 1 .. n : Exts(cs)[i] = cs[i].exts
  BY <1>1, ExtsType
<1>4. Exts(bs) = Exts(cs)
  <2>1. \A i \in 1 .. n : Exts(bs)[i] = Exts(cs)[i]
    BY <1>1, <1>2, <1>3
  <2> QED
    BY <1>2, <1>3, <2>1, SameSeq
<1>5. PICK f : IsSum(f, Exts(cs))
  BY <1>3, SumExists
<1>6. Imports(bs) = f[n] /\ Imports(cs) = f[n]
  BY <1>1, <1>4, <1>5, ImportsIsSum
<1> QED
  BY <1>6

LEMMA ImportsOf ==
    ASSUME NEW bs \in Seq(BlockSet)
    PROVE  /\ Imports(bs) \in Nat
           /\ bs = <<>> => Imports(bs) = 0
           /\ bs # <<>> => Imports(bs) = Imports(Pop(bs)) + bs[Len(bs)].exts
<1>1. PICK n \in Nat : n = Len(bs)
  OBVIOUS
<1>2. /\ Exts(bs) \in Seq(Nat) /\ Len(Exts(bs)) = n
      /\ \A i \in 1 .. n : Exts(bs)[i] = bs[i].exts
  BY <1>1, ExtsType
<1>3. PICK f : IsSum(f, Exts(bs))
  BY <1>2, SumExists
<1>4. Imports(bs) = f[n] /\ f[n] \in Nat
  BY <1>1, <1>3, ImportsIsSum
<1>5. ASSUME NEW i \in 0 .. n PROVE f[i] = IF i = 0 THEN 0 ELSE f[i - 1] + Exts(bs)[i]
  <2>1. f[i] = [j \in 0 .. n |-> IF j = 0 THEN 0 ELSE f[j - 1] + Exts(bs)[j]][i]
    BY <1>2, <1>3 DEF IsSum
  <2> QED
    BY <2>1
<1>6. ASSUME bs = <<>> PROVE Imports(bs) = 0
  <2>1. n = 0 /\ 0 \in 0 .. n
    BY <1>1, <1>6
  <2> QED
    BY <1>4, <1>5, <2>1
<1>7. ASSUME bs # <<>> PROVE Imports(bs) = Imports(Pop(bs)) + bs[Len(bs)].exts
  <2>1. PICK m \in Nat : m + 1 = n
    <3>1. n # 0
      BY <1>1, <1>7
    <3>2. n - 1 \in Nat /\ (n - 1) + 1 = n
      BY <3>1
    <3> QED
      BY <3>2
  <2>2. PICK cs \in Seq(BlockSet) : /\ cs = Pop(bs) /\ Len(cs) = m
                                   /\ \A i \in 1 .. m : cs[i] = bs[i]
    <3>1. (m + 1) - 1 = m
      OBVIOUS
    <3>2. Pop(bs) = SubSeq(bs, 1, m)
      BY <1>1, <2>1, <3>1 DEF Pop
    <3>3. /\ SubSeq(bs, 1, m) \in Seq(BlockSet) /\ Len(SubSeq(bs, 1, m)) = m
          /\ \A i \in 1 .. m : SubSeq(bs, 1, m)[i] = bs[i]
      BY <1>1, <2>1
    <3> QED
      BY <3>2, <3>3
  <2>3. /\ Exts(cs) \in Seq(Nat) /\ Len(Exts(cs)) = m
        /\ \A i \in 1 .. m : Exts(cs)[i] = cs[i].exts
    BY <2>2, ExtsType
  <2>4. PICK g : IsSum(g, Exts(cs))
    BY <2>3, SumExists
  <2>5. Imports(cs) = g[m]
    BY <2>2, <2>4, ImportsIsSum
  <2>6. \A i \in 1 .. m : Exts(bs)[i] = Exts(cs)[i]
    <3>1. \A i \in 1 .. m : i \in 1 .. n
      BY <2>1
    <3> QED
      BY <1>2, <2>2, <2>3, <3>1
  <2>7. \A i \in 0 .. m : f[i] = g[i] /\ g[i] \in Nat
    <3>1. Len(Exts(cs)) <= Len(Exts(bs))
      BY <1>2, <2>1, <2>3
    <3>2. \A i \in 1 .. Len(Exts(cs)) : Exts(bs)[i] = Exts(cs)[i]
      BY <2>3, <2>6
    <3>3. \A i \in 0 .. Len(Exts(cs)) : f[i] = g[i] /\ g[i] \in Nat
      BY <1>2, <1>3, <2>3, <2>4, <3>1, <3>2, SumsAgree, Zenon
    <3> QED
      BY <2>3, <3>3
  <2>8. f[m + 1] = f[m] + bs[n].exts
    <3>1. n \in 0 .. n /\ n \in 1 .. n /\ n # 0 /\ n - 1 = m
      BY <2>1
    <3> QED
      BY <1>2, <1>5, <2>1, <3>1
  <2>9. m \in 0 .. m
    OBVIOUS
  <2> QED
    BY <1>1, <1>4, <2>1, <2>2, <2>5, <2>7, <2>8, <2>9
<1> QED
  BY <1>4, <1>6, <1>7
-----------------------------------------------------------------------------
(***************************************************************************)
(* Entry points.  A word is taken by one import only, as importlanguage    *)
(* asks: without that, closing the block of one import would take a word   *)
(* from another that is still open.                                        *)
(***************************************************************************)
Matches(ls, en) ==
    /\ ls \in Seq(Languages) /\ en \in [Keywords -> Languages \cup {None}]
    /\ \A i, j \in DOMAIN ls : i < j => EntryPoints[ls[i]] \cap EntryPoints[ls[j]] = {}
    /\ \A e \in Keywords, l \in Languages :
            en[e] = l <=> e \in EntryPoints[l] /\ \E i \in DOMAIN ls : ls[i] = l

LangInv ==
    /\ Matches(languages, entry)
    /\ enabled = Len(languages)
    /\ enabled = Imports(blocks)

LEMMA MatchesNothing == Matches(<<>>, [e \in Keywords |-> None])
<1>1. <<>> \in Seq(Languages) /\ DOMAIN <<>> = {}
  OBVIOUS
<1>2. [e \in Keywords |-> None] \in [Keywords -> Languages \cup {None}]
  OBVIOUS
<1>3. \A e \in Keywords, l \in Languages : [x \in Keywords |-> None][e] # l
  BY NoneAssumption
<1> QED
  BY <1>1, <1>2, <1>3 DEF Matches

LEMMA Unimports ==
    ASSUME Matches(languages, entry), enabled = Len(languages),
           NEW n \in Nat, n <= Len(languages), Unimport(n)
    PROVE  /\ Matches(languages', entry') /\ enabled' = Len(languages')
           /\ enabled' = enabled - n
<1>1. /\ languages \in Seq(Languages) /\ entry \in [Keywords -> Languages \cup {None}]
      /\ \A i, j \in DOMAIN languages :
            i < j => EntryPoints[languages[i]] \cap EntryPoints[languages[j]] = {}
      /\ \A e \in Keywords, l \in Languages :
            entry[e] = l <=> /\ e \in EntryPoints[l]
                             /\ \E i \in DOMAIN languages : languages[i] = l
  BY DEF Matches
<1>2. PICK N \in Nat : N = Len(languages) /\ DOMAIN languages = 1 .. N
  BY <1>1
<1>3. PICK m \in Nat : m = N - n /\ m <= N
  <2>1. N - n \in Nat /\ N - n <= N
    BY <1>2
  <2> QED
    BY <2>1
<1>4. \A i \in 1 .. m : i \in 1 .. N
  BY <1>3
<1>5. /\ SubSeq(languages, 1, m) \in Seq(Languages) /\ Len(SubSeq(languages, 1, m)) = m
      /\ \A i \in 1 .. m : SubSeq(languages, 1, m)[i] = languages[i]
  BY <1>1, <1>2, <1>3
<1>6. Len(languages) - n = m
  BY <1>2, <1>3
<1> DEFINE gone == {languages[i] : i \in m + 1 .. N}
<1>7. /\ languages' = SubSeq(languages, 1, m)
      /\ entry' = [e \in Keywords |->
                     IF \E l \in gone : e \in EntryPoints[l] THEN None ELSE entry[e]]
      /\ enabled' = enabled - n
  BY <1>2, <1>5, <1>6 DEF Unimport
<1>8. /\ languages' \in Seq(Languages) /\ DOMAIN languages' = 1 .. m /\ Len(languages') = m
      /\ \A i \in 1 .. m : languages'[i] = languages[i]
  BY <1>5, <1>7
<1>9. /\ entry' \in [Keywords -> Languages \cup {None}]
      /\ \A e \in Keywords :
            entry'[e] = IF \E l \in gone : e \in EntryPoints[l] THEN None ELSE entry[e]
  BY <1>1, <1>7
<1>10. ASSUME NEW i \in DOMAIN languages', NEW j \in DOMAIN languages', i < j
       PROVE  EntryPoints[languages'[i]] \cap EntryPoints[languages'[j]] = {}
  <2>1. /\ i \in DOMAIN languages /\ j \in DOMAIN languages
        /\ languages'[i] = languages[i] /\ languages'[j] = languages[j]
    BY <1>2, <1>4, <1>8
  <2>2. EntryPoints[languages[i]] \cap EntryPoints[languages[j]] = {}
    BY <1>1, <1>10, <2>1, Zenon
  <2> QED
    BY <2>1, <2>2, Zenon
<1>11. ASSUME NEW e \in Keywords, NEW l \in Languages
       PROVE  entry'[e] = l <=> /\ e \in EntryPoints[l]
                                /\ \E i \in DOMAIN languages' : languages'[i] = l
  <2>1. ASSUME entry'[e] = l
        PROVE  e \in EntryPoints[l] /\ \E i \in DOMAIN languages' : languages'[i] = l
    <3>1. ~(\E k \in gone : e \in EntryPoints[k]) /\ entry[e] = l
      BY <1>9, <2>1, NoneAssumption
    <3>2. e \in EntryPoints[l]
      BY <1>1, <3>1
    <3>3. PICK i \in 1 .. N : languages[i] = l
      BY <1>1, <1>2, <3>1
    <3>4. i \notin m + 1 .. N
      BY <3>1, <3>2, <3>3
    <3>5. i \in 1 .. m
      BY <1>3, <3>4
    <3> QED
      BY <1>8, <3>2, <3>3, <3>5
  <2>2. ASSUME e \in EntryPoints[l], NEW i \in DOMAIN languages', languages'[i] = l
        PROVE  entry'[e] = l
    <3>1. i \in 1 .. m /\ i \in 1 .. N /\ languages[i] = l
      BY <1>4, <1>8, <2>2
    <3>2. entry[e] = l
      BY <1>1, <1>2, <2>2, <3>1
    <3>3. ASSUME NEW k \in gone, e \in EntryPoints[k] PROVE FALSE
      <4>1. PICK j \in m + 1 .. N : k = languages[j]
        OBVIOUS
      <4>2. j \in 1 .. N /\ i < j
        BY <1>3, <3>1
      <4>3. EntryPoints[languages[i]] \cap EntryPoints[languages[j]] = {}
        BY <1>1, <1>2, <3>1, <4>2
      <4> QED
        BY <2>2, <3>1, <3>3, <4>1, <4>3
    <3> QED
      BY <1>9, <3>2, <3>3
  <2> QED
    BY <2>1, <2>2
<1>12. enabled' = Len(languages')
  BY <1>2, <1>3, <1>7, <1>8
<1> QED
  BY <1>7, <1>8, <1>9, <1>10, <1>11, <1>12 DEF Matches

LEMMA Imported ==
    ASSUME Matches(languages, entry), NEW l \in Languages, MayImport(l),
           languages' = Append(languages, l),
           entry' = [e \in Keywords |-> IF e \in EntryPoints[l] THEN l ELSE entry[e]]
    PROVE  Matches(languages', entry') /\ Len(languages') = Len(languages) + 1
<1>1. /\ languages \in Seq(Languages) /\ entry \in [Keywords -> Languages \cup {None}]
      /\ \A i, j \in DOMAIN languages :
            i < j => EntryPoints[languages[i]] \cap EntryPoints[languages[j]] = {}
      /\ \A e \in Keywords, k \in Languages :
            entry[e] = k <=> /\ e \in EntryPoints[k]
                             /\ \E i \in DOMAIN languages : languages[i] = k
  BY DEF Matches
<1>2. PICK N \in Nat : N = Len(languages) /\ DOMAIN languages = 1 .. N
  BY <1>1
<1>3. /\ languages' \in Seq(Languages) /\ Len(languages') = N + 1
      /\ languages'[N + 1] = l /\ \A i \in 1 .. N : languages'[i] = languages[i]
  BY <1>1, <1>2, Pushed
<1>4. DOMAIN languages' = 1 .. N + 1
  BY <1>3
<1>5. /\ entry' \in [Keywords -> Languages \cup {None}]
      /\ \A e \in Keywords : entry'[e] = IF e \in EntryPoints[l] THEN l ELSE entry[e]
  BY <1>1
<1>6. \A e \in EntryPoints[l] : e \in Keywords /\ entry[e] = None
  BY EntryPointsAssumption DEF MayImport
<1>7. \A i \in 1 .. N : languages[i] \in Languages
  BY <1>1, <1>2
<1>8. \A i \in 1 .. N, e \in EntryPoints[l] : e \notin EntryPoints[languages[i]]
  <2> SUFFICES ASSUME NEW i \in 1 .. N, NEW e \in EntryPoints[l],
                      e \in EntryPoints[languages[i]]
               PROVE  FALSE
    OBVIOUS
  <2>1. entry[e] = languages[i]
    BY <1>1, <1>2, <1>6, <1>7
  <2> QED
    BY <1>6, <1>7, <2>1, NoneAssumption
<1>9. \A i \in 1 .. N + 1 : i = N + 1 \/ i \in 1 .. N
  OBVIOUS
<1>10. ASSUME NEW i \in DOMAIN languages', NEW j \in DOMAIN languages', i < j
       PROVE  EntryPoints[languages'[i]] \cap EntryPoints[languages'[j]] = {}
  <2>1. i \in 1 .. N /\ languages'[i] = languages[i]
    BY <1>3, <1>4, <1>10
  <2>2. CASE j = N + 1
    BY <1>3, <1>8, <2>1, <2>2
  <2>3. CASE j \in 1 .. N
    BY <1>1, <1>2, <1>3, <1>10, <2>1, <2>3
  <2> QED
    BY <1>4, <1>9, <2>2, <2>3
<1>11. ASSUME NEW e \in Keywords, NEW k \in Languages
       PROVE  entry'[e] = k <=> /\ e \in EntryPoints[k]
                                /\ \E i \in DOMAIN languages' : languages'[i] = k
  <2>1. CASE e \in EntryPoints[l]
    <3>1. entry'[e] = l /\ entry[e] = None
      BY <1>5, <1>6, <2>1
    <3>2. CASE k = l
      <4>1. N + 1 \in DOMAIN languages'
        BY <1>4
      <4> QED
        BY <1>3, <2>1, <3>1, <3>2, <4>1
    <3>3. CASE k # l
      <4>1. ASSUME e \in EntryPoints[k], NEW i \in DOMAIN languages', languages'[i] = k
            PROVE  FALSE
        <5>1. i \in 1 .. N
          BY <1>3, <1>4, <1>9, <3>3, <4>1
        <5> QED
          BY <1>3, <1>8, <2>1, <4>1, <5>1
      <4> QED
        BY <3>1, <3>3, <4>1
    <3> QED
      BY <3>2, <3>3
  <2>2. CASE e \notin EntryPoints[l]
    <3>1. entry'[e] = entry[e]
      BY <1>5, <2>2
    <3>2. ASSUME e \in EntryPoints[k], NEW i \in DOMAIN languages', languages'[i] = k
          PROVE  \E j \in DOMAIN languages : languages[j] = k
      <4>1. i \in 1 .. N
        BY <1>3, <1>4, <1>9, <2>2, <3>2
      <4> QED
        BY <1>2, <1>3, <3>2, <4>1
    <3>3. ASSUME NEW i \in DOMAIN languages, languages[i] = k
          PROVE  \E j \in DOMAIN languages' : languages'[j] = k
      <4>1. i \in 1 .. N /\ i \in DOMAIN languages'
        BY <1>2, <1>4
      <4> QED
        BY <1>3, <3>3, <4>1
    <3> QED
      BY <1>1, <3>1, <3>2, <3>3
  <2> QED
    BY <2>1, <2>2
<1>12. Matches(languages', entry')
  BY <1>3, <1>5, <1>10, <1>11 DEF Matches
<1> QED
  BY <1>2, <1>3, <1>12

(* Leaving the last block takes the imports it counts out of the sum.      *)
LEMMA BlockLeft ==
    ASSUME LangInv, blocks \in Seq(BlockSet), blocks # <<>>, Unimport(Top.exts)
    PROVE  /\ Matches(languages', entry') /\ enabled' = Len(languages')
           /\ Pop(blocks) \in Seq(BlockSet) /\ enabled' = Imports(Pop(blocks))
<1>1. PICK N \in Nat : N = Len(blocks) /\ N \in 1 .. N
  OBVIOUS
<1>2. PICK n : n = Top.exts
  OBVIOUS
<1>3. n \in Nat
  <2>1. blocks[N] \in BlockSet
    BY <1>1
  <2> QED
    BY <1>1, <1>2, <2>1 DEF Top, BlockSet
<1>4. Pop(blocks) \in Seq(BlockSet)
  BY BlockPopped
<1>5. PICK k \in Nat : k = Imports(Pop(blocks))
  BY <1>4, ImportsOf
<1>6. Imports(blocks) = k + n
  BY <1>1, <1>2, <1>5, ImportsOf DEF Top
<1>7. Len(languages) = k + n /\ enabled = k + n
  BY <1>6 DEF LangInv
<1>8. n <= Len(languages)
  BY <1>3, <1>5, <1>7
<1>9. Unimport(n)
  BY <1>2
<1>10. /\ Matches(languages', entry') /\ enabled' = Len(languages')
       /\ enabled' = enabled - n
  BY <1>3, <1>8, <1>9, Unimports DEF LangInv
<1> QED
  BY <1>3, <1>4, <1>5, <1>7, <1>10

LEMMA PushedImports ==
    ASSUME NEW bs \in Seq(BlockSet), NEW b \in BOOLEAN
    PROVE  Imports(Append(bs, Block(b))) = Imports(bs)
<1>1. PICK x \in BlockSet : x = Block(b) /\ x.exts = 0
  <2>1. Block(b) \in BlockSet /\ Block(b).exts = 0
    BY DEF Block, BlockSet
  <2> QED
    BY <2>1, Zenon
<1>2. PICK n \in Nat : n = Len(bs)
  OBVIOUS
<1>3. PICK cs \in Seq(BlockSet) : /\ cs = Append(bs, x) /\ Len(cs) = n + 1
                                 /\ cs[n + 1] = x /\ Pop(cs) = bs
  <2>1. /\ Append(bs, x) \in Seq(BlockSet) /\ Len(Append(bs, x)) = n + 1
        /\ Append(bs, x)[n + 1] = x /\ Pop(Append(bs, x)) = bs
    BY <1>2, Pushed
  <2> QED
    BY <2>1
<1>4. cs # <<>>
  <2>1. Len(<<>>) = 0 /\ n + 1 # 0
    OBVIOUS
  <2> QED
    BY <1>3, <2>1, Zenon
<1>5. Imports(cs) = Imports(Pop(cs)) + cs[Len(cs)].exts
  BY <1>4, ImportsOf
<1>6. Imports(bs) \in Nat
  BY ImportsOf
<1>7. Imports(cs) = Imports(bs)
  BY <1>1, <1>3, <1>5, <1>6
<1> QED
  BY <1>1, <1>3, <1>7, Zenon

LEMMA RenamedImports ==
    ASSUME NEW bs \in Seq(BlockSet), NEW cs, Renamed(bs, cs)
    PROVE  Imports(cs) = Imports(bs)
<1>1. /\ cs \in Seq(BlockSet) /\ Len(cs) = Len(bs)
      /\ \A k \in 1 .. Len(bs) : cs[k].exts = bs[k].exts
  BY DEF Renamed
<1> QED
  BY <1>1, SameImports

LEMMA ImportCounts ==
    ASSUME NEW bs \in Seq(BlockSet), bs # <<>>
    PROVE  Imports([bs EXCEPT ![Len(bs)].exts = @ + 1]) = Imports(bs) + 1
<1>1. PICK N \in Nat : N + 1 = Len(bs)
  <2>1. Len(bs) \in Nat /\ Len(bs) # 0
    OBVIOUS
  <2>2. Len(bs) - 1 \in Nat /\ (Len(bs) - 1) + 1 = Len(bs)
    BY <2>1
  <2> QED
    BY <2>2
<1>2. PICK n \in Nat : n = N + 1 /\ n \in 1 .. n /\ n = Len(bs) /\ n - 1 = N
  BY <1>1
<1> DEFINE x == [bs[n] EXCEPT !.exts = @ + 1]
           cs == [bs EXCEPT ![n] = x]
<1>3. x \in BlockSet /\ x.exts = bs[n].exts + 1 /\ bs[n].exts \in Nat
  <2>1. PICK b \in BlockSet : b = bs[n]
    BY <1>2
  <2>2. /\ b.terra \in BOOLEAN /\ b.defined \in SUBSET Names /\ b.bound \in SUBSET Names
        /\ b.exts \in Nat /\ b.bound \subseteq b.defined
    BY <2>1 DEF BlockSet
  <2>3. x = [b EXCEPT !.exts = b.exts + 1]
    BY <2>1
  <2> HIDE DEF x
  <2>4. x = [terra |-> b.terra, defined |-> b.defined, bound |-> b.bound, exts |-> b.exts + 1]
    BY <2>1, <2>3 DEF BlockSet
  <2> QED
    BY <2>1, <2>2, <2>4 DEF BlockSet
<1>4. [bs EXCEPT ![Len(bs)].exts = @ + 1] = cs
  BY <1>2
<1> HIDE DEF x
<1>5. /\ cs \in Seq(BlockSet) /\ Len(cs) = n /\ cs[n] = x
      /\ \A k \in 1 .. N : cs[k] = bs[k]
  BY <1>2, <1>3
<1> HIDE DEF cs
<1>6. cs # <<>>
  BY <1>2, <1>5
<1>7. /\ Pop(cs) \in Seq(BlockSet) /\ Len(Pop(cs)) = N
      /\ \A k \in 1 .. N : Pop(cs)[k] = cs[k]
  BY <1>2, <1>5 DEF Pop
<1>8. /\ Pop(bs) \in Seq(BlockSet) /\ Len(Pop(bs)) = N
      /\ \A k \in 1 .. N : Pop(bs)[k] = bs[k]
  BY <1>2 DEF Pop
<1>9. Imports(Pop(cs)) = Imports(Pop(bs))
  <2>1. \A k \in 1 .. N : Pop(cs)[k].exts = Pop(bs)[k].exts
    BY <1>5, <1>7, <1>8
  <2> QED
    BY <1>7, <1>8, <2>1, SameImports
<1>10. Imports(Pop(bs)) \in Nat
  BY <1>8, ImportsOf
<1>11. Imports(bs) = Imports(Pop(bs)) + bs[n].exts
  BY <1>2, ImportsOf
<1>12. Imports(cs) = Imports(Pop(cs)) + x.exts
  BY <1>5, <1>6, ImportsOf
<1>13. Imports(cs) = Imports(bs) + 1
  BY <1>3, <1>9, <1>10, <1>11, <1>12
<1> QED
  BY <1>4, <1>13
-----------------------------------------------------------------------------
LEMMA LangEmptied ==
    ASSUME languages' = <<>>, entry' = [e \in Keywords |-> None], enabled' = 0,
           blocks' = <<>> \/ blocks' = <<Block(FALSE)>>
    PROVE  LangInv'
<1>1. Matches(languages', entry')
  BY MatchesNothing
<1>2. <<>> \in Seq(BlockSet)
  OBVIOUS
<1>3. Imports(<<>>) = 0
  BY <1>2, ImportsOf
<1>4. Imports(<<Block(FALSE)>>) = 0
  <2>1. Append(<<>>, Block(FALSE)) = <<Block(FALSE)>>
    OBVIOUS
  <2>2. Imports(Append(<<>>, Block(FALSE))) = Imports(<<>>)
    BY <1>2, PushedImports
  <2> QED
    BY <1>3, <2>1, <2>2
<1>5. Len(<<>>) = 0
  OBVIOUS
<1> QED
  BY <1>1, <1>3, <1>4, <1>5 DEF LangInv

LEMMA LangKept ==
    ASSUME LangInv, UNCHANGED lang, Imports(blocks') = Imports(blocks)
    PROVE  LangInv'
BY DEF LangInv, lang

LEMMA InitLang == Init => LangInv
<1> SUFFICES ASSUME Init PROVE LangInv
  OBVIOUS
<1>1. /\ languages = <<>> /\ entry = [e \in Keywords |-> None] /\ enabled = 0
      /\ blocks = <<Block(FALSE)>>
  BY DEF Init
<1>2. Imports(<<Block(FALSE)>>) = 0
  <2>1. Append(<<>>, Block(FALSE)) = <<Block(FALSE)>> /\ <<>> \in Seq(BlockSet)
    OBVIOUS
  <2>2. Imports(Append(<<>>, Block(FALSE))) = Imports(<<>>) /\ Imports(<<>>) = 0
    BY <2>1, PushedImports, ImportsOf
  <2> QED
    BY <2>1, <2>2
<1>3. Len(<<>>) = 0
  OBVIOUS
<1> QED
  BY <1>1, <1>2, <1>3, MatchesNothing DEF LangInv

(* The actions that touch the blocks or the languages.                     *)
LEMMA BlocksLang ==
    ASSUME NEW ok \in BOOLEAN, InvC(ok), LangInv,
           \/ EnterBlock \/ Leaves \/ Defines \/ EnterTerraCnt \/ LeaveTerraCnt
           \/ EmbeddedCode \/ ResumeTerra \/ \E l \in Languages : Import(l)
    PROVE  LangInv'
<1>1. blocks \in Seq(BlockSet)
  BY CurIs
<1>2. ASSUME EnterBlock \/ EnterTerraCnt \/ EmbeddedCode PROVE LangInv'
  <2>1. PICK b \in BOOLEAN : blocks' = Append(blocks, Block(b))
    <3>1. \/ blocks' = Append(blocks, Block(inTerra > 0))
          \/ blocks' = Append(blocks, Block(TRUE))
          \/ blocks' = Append(blocks, Block(FALSE))
      BY <1>2 DEF EnterBlock, EnterTerraCnt, EmbeddedCode
    <3>2. (inTerra > 0) \in BOOLEAN /\ TRUE \in BOOLEAN /\ FALSE \in BOOLEAN
      OBVIOUS
    <3> QED
      BY <3>1, <3>2, Zenon
  <2>2. UNCHANGED lang
    BY <1>2 DEF EnterBlock, EnterTerraCnt, EmbeddedCode
  <2> QED
    BY <1>1, <2>1, <2>2, PushedImports, LangKept
<1>3. ASSUME Leaves \/ ResumeTerra PROVE LangInv'
  <2>1. blocks # <<>>
    BY <1>3, LeavesStep, ResumeStep
  <2>2. blocks' = Pop(blocks) /\ Unimport(Top.exts)
    BY <1>3 DEF Leaves, ResumeTerra, LeaveBlock
  <2> QED
    BY <1>1, <2>1, <2>2, BlockLeft DEF LangInv
<1>4. ASSUME Defines PROVE LangInv'
  <2>2. Imports(blocks') = Imports(blocks)
    BY <1>1, <1>4, DefinesStep, RenamedImports
  <2>3. UNCHANGED lang
    BY <1>4 DEF Defines
  <2> QED
    BY <2>2, <2>3, LangKept
<1>5. ASSUME LeaveTerraCnt PROVE LangInv'
  <2>1. /\ blocks # <<>> /\ Pop(blocks) \in Seq(BlockSet)
        /\ Renamed(Pop(blocks), blocks')
    BY <1>5, LeaveTerraStep
  <2>2. Unimport(Top.exts)
    BY <1>5 DEF LeaveTerraCnt
  <2>3. Imports(blocks') = Imports(Pop(blocks))
    BY <2>1, RenamedImports
  <2> QED
    BY <1>1, <2>1, <2>2, <2>3, BlockLeft DEF LangInv
<1>6. ASSUME NEW l \in Languages, Import(l) PROVE LangInv'
  <2>1. blocks # <<>>
    BY <1>6, ImportStep
  <2>2. /\ MayImport(l) /\ languages' = Append(languages, l)
        /\ entry' = [e \in Keywords |-> IF e \in EntryPoints[l] THEN l ELSE entry[e]]
        /\ enabled' = enabled + 1
        /\ blocks' = [blocks EXCEPT ![Len(blocks)].exts = @ + 1]
    BY <1>6 DEF Import
  <2>3. Matches(languages', entry') /\ Len(languages') = Len(languages) + 1
    BY <2>2, Imported DEF LangInv
  <2>4. Imports(blocks') = Imports(blocks) + 1
    BY <1>1, <2>1, <2>2, ImportCounts
  <2> QED
    BY <2>2, <2>3, <2>4 DEF LangInv
<1> QED
  BY <1>2, <1>3, <1>4, <1>5, <1>6

LEMMA StepLang == Inv /\ LangInv /\ [Next]_vars => LangInv'
<1> SUFFICES ASSUME NEW ok \in BOOLEAN, InvC(ok), LangInv, [Next]_vars PROVE LangInv'
  BY DEF Inv
<1>1. CASE \/ EnterBlock \/ Leaves \/ Defines \/ EnterTerraCnt \/ LeaveTerraCnt
           \/ EmbeddedCode \/ ResumeTerra \/ \E l \in Languages : Import(l)
  BY <1>1, BlocksLang
<1>2. CASE SyntaxError \/ ParseAgain
  BY <1>2, LangEmptied DEF SyntaxError, Fails, ParseAgain
<1>3. CASE \/ Refers \/ Token \/ LeaveLevel \/ LanguageReads \/ CheckReturns1
           \/ EndStatements \/ ExprStatement \/ Literal
           \/ (\E n \in Names : Variable(n)) \/ TooManyLevels \/ EndParse
           \/ LanguageEmbeds \/ LanguageReturns
  <2>1. UNCHANGED <<blocks, lang>>
    BY <1>3 DEF Refers, Token, LeaveLevel, LanguageReads, CheckReturns1, EndStatements,
                ExprStatement, Literal, Variable, TooManyLevels, EndParse, LanguageEmbeds,
                LanguageReturns, scopes
  <2> QED
    BY <2>1, LangKept
<1>4. CASE CommonStatement \/ FunctionStatement \/ TerraStatement \/ EscapeStatement
             \/ LanguageStatement
  <2>1. UNCHANGED <<blocks, lang>>
    BY <1>4 DEF CommonStatement, FunctionStatement, TerraStatement, EscapeStatement,
                LanguageStatement, scopes
  <2> QED
    BY <2>1, LangKept
<1>5. CASE FunctionOperand \/ TerraOperand \/ EscapeOperand \/ LanguageOperand
  <2>1. UNCHANGED <<blocks, lang>>
    BY <1>5 DEF FunctionOperand, TerraOperand, EscapeOperand, OperandIs, LanguageOperand,
                scopes
  <2> QED
    BY <2>1, LangKept
<1>6. CASE UNCHANGED vars
  BY <1>6, LangKept DEF vars, scopes
<1> QED
  BY <1>1, <1>2, <1>3, <1>4, <1>5, <1>6 DEF Next

(* A word is an entry point of a language exactly while the block of its   *)
(* import is open, and what the blocks, the table of languages and the     *)
(* count that switches extensions on say of the imports is the same.       *)
THEOREM EntryPointsAgree == Spec => []EntryPointsMatch
<1>1. Init => LangInv
  BY InitLang
<1>2. Inv /\ LangInv /\ [Next]_vars => LangInv'
  BY StepLang
<1>3. LangInv => EntryPointsMatch
  <2> SUFFICES ASSUME LangInv PROVE EntryPointsMatch
    OBVIOUS
  <2> DEFINE open == {languages[i] : i \in DOMAIN languages}
  <2>1. \A e \in Keywords, l \in Languages :
            entry[e] = l <=> l \in open /\ e \in EntryPoints[l]
    <3>1. \A l \in Languages : l \in open <=> \E i \in DOMAIN languages : languages[i] = l
      OBVIOUS
    <3>2. \A e \in Keywords, l \in Languages :
            entry[e] = l <=> /\ e \in EntryPoints[l]
                             /\ \E i \in DOMAIN languages : languages[i] = l
      BY DEF LangInv, Matches
    <3> QED
      BY <3>1, <3>2
  <2>2. enabled = Len(languages) /\ enabled = Imports(blocks)
    BY DEF LangInv
  <2> QED
    BY <2>1, <2>2 DEF EntryPointsMatch
<1> QED
  BY <1>1, <1>2, <1>3, WhatIsLeftFits, PTL DEF Spec
-----------------------------------------------------------------------------
(***************************************************************************)
(* What is captured.  LocalBelow with the blocks as a parameter, and what  *)
(* holds of a construct while all is ok: it has what it needs, but for     *)
(* names a header hides, and has only locals.                              *)
(***************************************************************************)
Below(n, at, bs) ==
    \E j \in 1 .. at - 1 :
        n \in bs[j].defined /\ \A k \in j .. at - 1 : ~bs[k].terra

Fine(c, bs) ==
    /\ \A m \in c.needed : m[2] \/ m[1] \in c.captured
    /\ \A n \in c.captured : Below(n, c.block, bs)

Clean ==
    /\ \A i \in DOMAIN cnts : Fine(cnts[i], blocks)
    /\ \A m \in missed : m[2]
    /\ stray = {}

(* Where the constructs of a good shape are.                               *)
LEMMA ConstructsAt ==
    ASSUME NEW bs \in Seq(BlockSet), NEW cs \in Seq(CntSet), NEW n, NEW ok \in BOOLEAN,
           Good(ShapeOf(bs, n, cs, ok))
    PROVE  /\ \A i \in DOMAIN cs : cs[i].block \in 2 .. Len(bs)
           /\ ok => \A i \in DOMAIN cs : /\ bs[cs[i].block].terra
                                        /\ ~bs[cs[i].block - 1].terra
           /\ \A i, j \in DOMAIN cs : i < j => cs[i].block < cs[j].block
           /\ \A k \in 2 .. Len(bs) : bs[k].terra /\ ~bs[k - 1].terra
                                         => \E i \in DOMAIN cs : cs[i].block = k
<1> DEFINE s == ShapeOf(bs, n, cs, ok)
<1>1. s.ts = Tags(bs) /\ s.cs = Places(cs) /\ s.ok = ok
  BY DEF ShapeOf
<1>2. Good(s)
  OBVIOUS
<1> HIDE DEF s
<1>3. PICK m \in Nat : m = Len(bs)
  OBVIOUS
<1>4. /\ Tags(bs) \in Seq({0, 1}) /\ Len(Tags(bs)) = m
      /\ \A k \in 1 .. m : Tags(bs)[k] = 1 <=> bs[k].terra
  BY <1>3, TagsType
<1>5. DOMAIN Tags(bs) = 1 .. m /\ \A k \in 1 .. m : Tags(bs)[k] = 0 <=> ~bs[k].terra
  <2>1. DOMAIN Tags(bs) = 1 .. m
    BY <1>4
  <2>2. \A k \in 1 .. m : Tags(bs)[k] \in {0, 1}
    BY <1>4, <2>1
  <2> QED
    BY <1>4, <2>1, <2>2
<1>6. DOMAIN Places(cs) = DOMAIN cs /\ \A i \in DOMAIN cs : Places(cs)[i] = cs[i].block
  BY PlacesType
<1>7. \A i \in DOMAIN cs : cs[i].block \in 2 .. m
  BY <1>1, <1>2, <1>4, <1>6 DEF Good
<1>8. ASSUME ok, NEW i \in DOMAIN cs
      PROVE  bs[cs[i].block].terra /\ ~bs[cs[i].block - 1].terra
  <2>1. PICK k \in 2 .. m : k = cs[i].block
    BY <1>7, <1>8
  <2>2. Tags(bs)[k] = 1 /\ Tags(bs)[k - 1] = 0
    BY <1>1, <1>2, <1>6, <1>8, <2>1 DEF Good
  <2>3. k \in 1 .. m /\ k - 1 \in 1 .. m
    BY <2>1
  <2> QED
    BY <1>4, <1>5, <2>1, <2>2, <2>3
<1>9. \A i, j \in DOMAIN cs : i < j => cs[i].block < cs[j].block
  BY <1>1, <1>2, <1>6 DEF Good
<1>10. ASSUME NEW k \in 2 .. m, bs[k].terra, ~bs[k - 1].terra
       PROVE  \E i \in DOMAIN cs : cs[i].block = k
  <2>1. k \in 1 .. m /\ k - 1 \in 1 .. m /\ k > 1
    OBVIOUS
  <2>2. Tags(bs)[k] = 1 /\ Tags(bs)[k - 1] = 0
    BY <1>4, <1>5, <1>10, <2>1
  <2>3. k \in DOMAIN s.ts /\ s.ts[k] = 1 /\ s.ts[k - 1] = 0
    BY <1>1, <1>5, <2>1, <2>2
  <2>4. \E i \in DOMAIN s.cs : s.cs[i] = k
    BY <1>2, <2>1, <2>3 DEF Good
  <2> QED
    BY <1>1, <1>6, <2>4
<1> QED
  BY <1>3, <1>7, <1>8, <1>9, <1>10

LEMMA InnermostIs ==
    ASSUME NEW N \in Nat, NEW has
    PROVE  /\ Innermost(N, has) \in 0 .. N
           /\ Innermost(N, has) # 0 => has[Innermost(N, has)]
           /\ \A k \in 1 .. N : k > Innermost(N, has) => ~has[k]
<1> DEFINE js == {j \in 1 .. N : has[j]}
<1>1. Innermost(N, has) = IF js = {} THEN 0 ELSE Max(js)
  BY DEF Innermost
<1>2. CASE js = {}
  <2>1. \A k \in 1 .. N : ~has[k]
    BY <1>2
  <2> QED
    BY <1>1, <1>2, <2>1
<1>3. CASE js # {}
  <2>1. js \subseteq 1 .. N
    OBVIOUS
  <2>2. \A j \in js : has[j]
    OBVIOUS
  <2>3. \A k \in 1 .. N : has[k] => k \in js
    OBVIOUS
  <2> HIDE DEF js
  <2>4. \E x \in js : \A y \in js : y <= x
    BY <1>3, <2>1, Greatest
  <2>5. \A x, y \in js : y <= x <=> x >= y
    BY <2>1
  <2>6. \E x \in js : \A y \in js : x >= y
    BY <2>4, <2>5
  <2>7. PICK j \in 1 .. N : j = Max(js) /\ j \in js /\ \A y \in js : j >= y
    BY <2>1, <2>6 DEF Max
  <2>8. \A k \in 1 .. N : k > j => ~has[k]
    BY <2>3, <2>7
  <2>9. Innermost(N, has) = j /\ j \in 0 .. N
    BY <1>1, <1>3, <2>7
  <2> QED
    BY <2>2, <2>7, <2>8, <2>9
<1> QED
  BY <1>2, <1>3

(* The constructs opened above block j are the last ones.                  *)
LEMMA Upper ==
    ASSUME NEW cs \in Seq(CntSet), NEW j \in Nat,
           \A i, k \in DOMAIN cs : i < k => cs[i].block < cs[k].block,
           NEW I, I = {i \in DOMAIN cs : cs[i].block > j}, I # {}
    PROVE  Min(I) \in I /\ I = Min(I) .. Len(cs)
<1>1. PICK c \in Nat : c = Len(cs) /\ DOMAIN cs = 1 .. c
  OBVIOUS
<1>2. \A i \in 1 .. c : cs[i].block \in Nat
  <2>1. \A i \in 1 .. c : cs[i] \in CntSet
    BY <1>1
  <2> QED
    BY <2>1 DEF CntSet
<1>3. I \subseteq 1 .. c
  BY <1>1
<1>4. PICK p : p = Min(I) /\ p \in I /\ \A i \in I : p <= i
  <2>1. I \subseteq Nat
    BY <1>3
  <2>2. \E x \in I : \A y \in I : x <= y
    BY <2>1, NatMin
  <2> QED
    BY <2>2 DEF Min
<1>5. p \in 1 .. c /\ cs[p].block > j
  BY <1>1, <1>4
<1>6. ASSUME NEW i \in p .. c PROVE i \in I
  <2>1. i \in 1 .. c /\ (i = p \/ p < i)
    BY <1>5
  <2>2. CASE i = p
    BY <1>4, <2>2
  <2>3. CASE p < i
    <3>1. cs[p].block < cs[i].block
      BY <1>1, <1>5, <2>1, <2>3
    <3>2. cs[i].block > j
      BY <1>2, <1>5, <2>1, <3>1
    <3> QED
      BY <1>1, <2>1, <3>2
  <2> QED
    BY <2>1, <2>2, <2>3
<1>7. ASSUME NEW i \in I PROVE i \in p .. c
  BY <1>3, <1>4, <1>5, <1>7
<1> QED
  BY <1>1, <1>4, <1>6, <1>7

(* While all is ok each construct is a boundary, so the walk passes one    *)
(* boundary for every construct opened above the block it ends at.         *)
LEMMA CrossedIs ==
    ASSUME InvC(TRUE), NEW n, NEW j, j = Walk(n).at,
           NEW I, I = {i \in DOMAIN cnts : cnts[i].block > j}
    PROVE  /\ j \in 0 .. Len(blocks)
           /\ I = {} => Walk(n).crossed = 0
           /\ I # {} => /\ Walk(n).crossed > 0
                        /\ Len(cnts) - Walk(n).crossed + 1 = Min(I)
<1> DEFINE K == {k \in j + 1 .. Len(blocks) : Boundary(k)}
<1>1. /\ blocks \in Seq(BlockSet) /\ cnts \in Seq(CntSet)
      /\ Good(ShapeOf(blocks, inTerra, cnts, TRUE))
  BY CurIs DEF Cur
<1>2. PICK m \in Nat : m = Len(blocks) /\ DOMAIN blocks = 1 .. m
  BY <1>1
<1>3. PICK c \in Nat : c = Len(cnts) /\ DOMAIN cnts = 1 .. c
  BY <1>1
<1>4. /\ \A i \in 1 .. c : cnts[i].block \in 2 .. m
      /\ \A i \in 1 .. c : /\ blocks[cnts[i].block].terra
                           /\ ~blocks[cnts[i].block - 1].terra
      /\ \A i, k \in 1 .. c : i < k => cnts[i].block < cnts[k].block
      /\ \A k \in 2 .. m : blocks[k].terra /\ ~blocks[k - 1].terra
                               => \E i \in 1 .. c : cnts[i].block = k
  <2>1. TRUE \in BOOLEAN
    OBVIOUS
  <2>2. /\ \A i \in DOMAIN cnts : cnts[i].block \in 2 .. Len(blocks)
        /\ TRUE => \A i \in DOMAIN cnts : /\ blocks[cnts[i].block].terra
                                          /\ ~blocks[cnts[i].block - 1].terra
        /\ \A i, k \in DOMAIN cnts : i < k => cnts[i].block < cnts[k].block
        /\ \A k \in 2 .. Len(blocks) : blocks[k].terra /\ ~blocks[k - 1].terra
                                          => \E i \in DOMAIN cnts : cnts[i].block = k
    BY <1>1, <2>1, ConstructsAt, Zenon
  <2> QED
    BY <1>2, <1>3, <2>2
<1>5. j \in 0 .. m
  <2>1. Walk(n).at = Innermost(m, [k \in DOMAIN blocks |-> n \in blocks[k].defined])
    BY <1>2 DEF Walk
  <2> QED
    BY <2>1, InnermostIs
<1>6. Walk(n).crossed = Cardinality(K)
  BY DEF Walk
<1>7. \A k \in K : \E i \in I : cnts[i].block = k
  <2> SUFFICES ASSUME NEW k \in K PROVE \E i \in I : cnts[i].block = k
    OBVIOUS
  <2>1. k \in 2 .. m /\ k > j /\ blocks[k].terra /\ ~blocks[k - 1].terra
    BY <1>2, <1>5 DEF Boundary
  <2>2. PICK i \in 1 .. c : cnts[i].block = k
    BY <1>4, <2>1
  <2> QED
    BY <1>3, <2>1, <2>2
<1>8. \A i \in I : cnts[i].block \in K
  <2> SUFFICES ASSUME NEW i \in I PROVE cnts[i].block \in K
    OBVIOUS
  <2>1. i \in 1 .. c /\ cnts[i].block > j
    BY <1>3
  <2>2. PICK k \in 2 .. m : k = cnts[i].block
    BY <1>4, <2>1
  <2>3. k \in j + 1 .. m /\ k > 1 /\ blocks[k].terra /\ ~blocks[k - 1].terra
    BY <1>4, <1>5, <2>1, <2>2
  <2> QED
    BY <1>2, <2>2, <2>3 DEF Boundary
<1> HIDE DEF K
<1>9. CASE I = {}
  <2>1. K = {}
    BY <1>7, <1>9
  <2> QED
    BY <1>2, <1>5, <1>6, <1>9, <2>1, FS_EmptySet
<1>10. CASE I # {}
  <2>1. PICK p : p = Min(I) /\ p \in I /\ I = p .. c
    <3>1. j \in Nat
      BY <1>5
    <3>2. \A i, k \in DOMAIN cnts : i < k => cnts[i].block < cnts[k].block
      BY <1>3, <1>4
    <3> QED
      BY <1>1, <1>3, <1>10, <3>1, <3>2, Upper, ZenonT(60)
  <2>2. p \in 1 .. c
    BY <1>3, <2>1
  <2> DEFINE f == [i \in I |-> cnts[i].block]
  <2>3. f \in [I -> K] /\ \A i \in I : f[i] = cnts[i].block
    BY <1>8
  <2>4. \A k \in K : \E i \in I : f[i] = k
    BY <1>7, <2>3
  <2>5. \A a, b \in I : f[a] = f[b] => a = b
    <3> SUFFICES ASSUME NEW a \in I, NEW b \in I, f[a] = f[b] PROVE a = b
      OBVIOUS
    <3>1. a \in 1 .. c /\ b \in 1 .. c
      BY <1>3
    <3>2. cnts[a].block = cnts[b].block /\ cnts[a].block \in Nat
      BY <1>4, <2>3, <3>1
    <3>3. ~(a < b) /\ ~(b < a)
      BY <1>4, <3>1, <3>2
    <3> QED
      BY <3>1, <3>3
  <2> HIDE DEF f
  <2>6. f \in Bijection(I, K)
    <3>1. DOMAIN f = I
      BY <2>3
    <3>2. IsInjective(f)
      BY <2>5, <3>1 DEF IsInjective
    <3> QED
      BY <2>3, <2>4, <3>2 DEF Bijection, Injection, Surjection
  <2>7. IsFiniteSet(p .. c) /\ Cardinality(p .. c) = c - p + 1
    <3>1. p \in Int /\ c \in Int /\ ~(p > c)
      BY <2>2
    <3>2. IsFiniteSet(p .. c) /\ Cardinality(p .. c) = IF p > c THEN 0 ELSE c - p + 1
      BY <3>1, FS_Interval, Zenon
    <3> QED
      BY <3>1, <3>2
  <2>8. Cardinality(K) = c - p + 1
    <3>1. ExistsBijection(I, K)
      BY <2>6 DEF ExistsBijection
    <3>2. IsFiniteSet(I) /\ Cardinality(I) = c - p + 1
      BY <2>1, <2>7
    <3>3. Cardinality(K) = Cardinality(I)
      BY <3>1, <3>2, FS_Bijection, Zenon
    <3> QED
      BY <3>2, <3>3
  <2>9. PICK w : w = Walk(n).crossed
    OBVIOUS
  <2>10. w > 0 /\ c - w + 1 = p
    BY <1>6, <2>2, <2>8, <2>9
  <2>11. Walk(n).crossed > 0 /\ Len(cnts) - Walk(n).crossed + 1 = Min(I)
    BY <1>3, <2>1, <2>9, <2>10
  <2> QED
    BY <1>2, <1>5, <1>10, <2>11
<1> QED
  BY <1>9, <1>10

(* Between the block that defines n and the construct that captures it     *)
(* there is no Terra: it would have begun with a construct of its own.     *)
LEMMA CapturedBelow ==
    ASSUME InvC(TRUE), NEW n, NEW j, j = Walk(n).at, j # 0, ~blocks[j].terra,
           NEW I, I = {i \in DOMAIN cnts : cnts[i].block > j}, I # {}
    PROVE  Below(n, cnts[Min(I)].block, blocks)
<1>1. /\ blocks \in Seq(BlockSet) /\ cnts \in Seq(CntSet)
      /\ Good(ShapeOf(blocks, inTerra, cnts, TRUE))
  BY CurIs DEF Cur
<1>2. PICK m \in Nat : m = Len(blocks) /\ DOMAIN blocks = 1 .. m
  BY <1>1
<1>3. PICK c \in Nat : c = Len(cnts) /\ DOMAIN cnts = 1 .. c
  BY <1>1
<1>4. /\ \A i \in 1 .. c : cnts[i].block \in 2 .. m
      /\ \A i, k \in 1 .. c : i < k => cnts[i].block < cnts[k].block
      /\ \A k \in 2 .. m : blocks[k].terra /\ ~blocks[k - 1].terra
                               => \E i \in 1 .. c : cnts[i].block = k
  <2>1. TRUE \in BOOLEAN
    OBVIOUS
  <2>2. /\ \A i \in DOMAIN cnts : cnts[i].block \in 2 .. Len(blocks)
        /\ TRUE => \A i \in DOMAIN cnts : /\ blocks[cnts[i].block].terra
                                          /\ ~blocks[cnts[i].block - 1].terra
        /\ \A i, k \in DOMAIN cnts : i < k => cnts[i].block < cnts[k].block
        /\ \A k \in 2 .. Len(blocks) : blocks[k].terra /\ ~blocks[k - 1].terra
                                          => \E i \in DOMAIN cnts : cnts[i].block = k
    BY <1>1, <2>1, ConstructsAt, Zenon
  <2> QED
    BY <1>2, <1>3, <2>2
<1>5. j \in 1 .. m /\ n \in blocks[j].defined
  <2> DEFINE has == [k \in DOMAIN blocks |-> n \in blocks[k].defined]
  <2>1. j = Innermost(m, has)
    BY <1>2 DEF Walk
  <2>2. \A k \in 1 .. m : has[k] <=> n \in blocks[k].defined
    BY <1>2
  <2> HIDE DEF has
  <2>3. j \in 0 .. m /\ has[j]
    BY <2>1, InnermostIs
  <2>4. j \in 1 .. m
    BY <2>3
  <2> QED
    BY <2>2, <2>3, <2>4
<1>6. PICK p : p = Min(I) /\ p \in I /\ I = p .. c
  <2>1. \A i, k \in DOMAIN cnts : i < k => cnts[i].block < cnts[k].block
    BY <1>3, <1>4
  <2>2. j \in Nat
    BY <1>5
  <2> QED
    BY <1>1, <1>3, <2>1, <2>2, Upper
<1>7. PICK b \in 2 .. m : b = cnts[p].block /\ b > j
  BY <1>3, <1>4, <1>6
<1>8. \A k \in j .. b - 1 : ~blocks[k].terra
  <2> DEFINE T == {k \in j .. b - 1 : blocks[k].terra}
  <2> SUFFICES ASSUME T # {} PROVE FALSE
    OBVIOUS
  <2>1. T \subseteq Nat
    BY <1>5
  <2>2. PICK k \in T : \A y \in T : k <= y
    BY <2>1, NatMin
  <2>3. k \in j + 1 .. b - 1 /\ blocks[k].terra
    <3>1. k \in j .. b - 1 /\ blocks[k].terra
      OBVIOUS
    <3>2. k # j
      BY <3>1
    <3> QED
      BY <1>5, <3>1, <3>2
  <2>4. k - 1 \in j .. b - 1 /\ k - 1 < k /\ k \in 2 .. m
    BY <1>5, <1>7, <2>3
  <2>5. ~blocks[k - 1].terra
    BY <2>2, <2>4
  <2>6. PICK i \in 1 .. c : cnts[i].block = k
    BY <1>4, <2>3, <2>4, <2>5
  <2>7. i \in p .. c
    BY <1>3, <1>5, <1>6, <2>3, <2>6, SMTT(30)
  <2>8. p \in 1 .. c /\ (i = p \/ p < i)
    BY <1>3, <1>6, <2>7
  <2>9. CASE i = p
    BY <1>7, <2>3, <2>6, <2>9
  <2>10. CASE p < i
    BY <1>4, <1>7, <2>3, <2>6, <2>8, <2>10
  <2> QED
    BY <2>8, <2>9, <2>10
<1>9. j \in 1 .. b - 1
  BY <1>5, <1>7
<1> QED
  BY <1>5, <1>6, <1>7, <1>8, <1>9 DEF Below

(* What refvariable finds is what the language asks for, unless a header   *)
(* hides it.                                                               *)
LEMMA CapturesWhatMust ==
    ASSUME InvC(TRUE), NEW n
    PROVE  /\ ~Hidden(n) => Capturer(Walk(n)) = MustCapture(n)
           /\ \A i \in DOMAIN cnts : i = Capturer(Walk(n)) => Below(n, cnts[i].block, blocks)
<1> DEFINE j == Walk(n).at
           I == {i \in DOMAIN cnts : cnts[i].block > j}
<1>1. /\ blocks \in Seq(BlockSet) /\ cnts \in Seq(CntSet)
  BY CurIs
<1>2. /\ j \in 0 .. Len(blocks)
      /\ I = {} => Walk(n).crossed = 0
      /\ I # {} => /\ Walk(n).crossed > 0
                   /\ Len(cnts) - Walk(n).crossed + 1 = Min(I)
  BY CrossedIs
<1>3. Capturer(Walk(n)) = IF j = 0 \/ I = {} \/ blocks[j].terra THEN 0 ELSE Min(I)
  <2> HIDE DEF j, I
  <2>1. Walk(n).at = j
    BY DEF j
  <2>2. ~(0 > 0)
    OBVIOUS
  <2> QED
    BY <1>2, <2>1, <2>2 DEF Capturer
<1>4. ASSUME ~Hidden(n) PROVE Capturer(Walk(n)) = MustCapture(n)
  <2>1. \A k \in DOMAIN blocks : n \in blocks[k].defined <=> n \in blocks[k].bound
    <3>1. \A k \in DOMAIN blocks : blocks[k].bound \subseteq blocks[k].defined
      BY <1>1 DEF BlockSet
    <3> QED
      BY <1>4, <3>1 DEF Hidden
  <2>2. [k \in DOMAIN blocks |-> n \in blocks[k].defined]
            = [k \in DOMAIN blocks |-> n \in blocks[k].bound]
    BY <2>1
  <2>3. Innermost(Len(blocks), [k \in DOMAIN blocks |-> n \in blocks[k].bound]) = j
    BY <2>2 DEF Walk
  <2>4. MustCapture(n) = IF j = 0 \/ I = {} \/ blocks[j].terra THEN 0 ELSE Min(I)
    BY <2>3 DEF MustCapture
  <2> QED
    BY <1>3, <2>4
<1>5. ASSUME NEW i \in DOMAIN cnts, i = Capturer(Walk(n))
      PROVE  Below(n, cnts[i].block, blocks)
  <2>1. i # 0
    BY <1>1
  <2>2. j # 0 /\ I # {} /\ ~blocks[j].terra /\ i = Min(I)
    BY <1>3, <1>5, <2>1
  <2> QED
    BY <2>2, CapturedBelow
<1> QED
  BY <1>4, <1>5

(* The blocks below a construct stay as they are.                          *)
LEMMA BelowKept ==
    ASSUME NEW bs, NEW ds, NEW at \in Nat, \A j \in 1 .. at - 1 : ds[j] = bs[j],
           NEW n, Below(n, at, bs)
    PROVE  Below(n, at, ds)
<1>1. PICK j \in 1 .. at - 1 : n \in bs[j].defined /\ \A k \in j .. at - 1 : ~bs[k].terra
  BY DEF Below
<1>2. \A k \in j .. at - 1 : k \in 1 .. at - 1
  OBVIOUS
<1>3. n \in ds[j].defined /\ \A k \in j .. at - 1 : ~ds[k].terra
  BY <1>1, <1>2
<1> QED
  BY <1>3 DEF Below

LEMMA FineKept ==
    ASSUME NEW bs, NEW ds, NEW c, c.block \in Nat,
           \A j \in 1 .. c.block - 1 : ds[j] = bs[j], Fine(c, bs)
    PROVE  Fine(c, ds)
BY BelowKept DEF Fine

(* Only the innermost block is changed, and constructs are opened empty.   *)
LEMMA CntsKept ==
    ASSUME InvC(TRUE)', Clean,
           \A j \in 1 .. Len(blocks') - 1 : blocks'[j] = blocks[j],
           \A i \in DOMAIN cnts' : \/ i \in DOMAIN cnts /\ cnts'[i] = cnts[i]
                                   \/ cnts'[i].captured = {} /\ cnts'[i].needed = {}
    PROVE  \A i \in DOMAIN cnts' : Fine(cnts'[i], blocks')
<1>1. PICK bs : bs = blocks'
  OBVIOUS
<1>2. PICK cs : cs = cnts'
  OBVIOUS
<1>3. PICK t : t = inTerra'
  OBVIOUS
<1>4. bs \in Seq(BlockSet) /\ cs \in Seq(CntSet) /\ Good(ShapeOf(bs, t, cs, TRUE))
  BY <1>1, <1>2, <1>3 DEF InvC, Typed, Cur
<1>5. \A i \in DOMAIN cs : cs[i].block \in 2 .. Len(bs)
  BY <1>4, ConstructsAt
<1>6. ASSUME NEW i \in DOMAIN cs PROVE Fine(cs[i], bs)
  <2>1. CASE cs[i].captured = {} /\ cs[i].needed = {}
    BY <2>1 DEF Fine
  <2>2. CASE i \in DOMAIN cnts /\ cs[i] = cnts[i]
    <3>1. Fine(cs[i], blocks)
      BY <2>2 DEF Clean
    <3>2. PICK m \in Nat : m = Len(bs)
      BY <1>4
    <3>3. PICK b \in 2 .. m : b = cs[i].block
      BY <1>5, <1>6, <3>2
    <3>4. \A j \in 1 .. b - 1 : j \in 1 .. m - 1
      OBVIOUS
    <3>5. \A j \in 1 .. b - 1 : bs[j] = blocks[j]
      BY <1>1, <3>2, <3>4
    <3>6. cs[i].block \in Nat
      BY <3>3
    <3> QED
      BY <3>1, <3>3, <3>5, <3>6, FineKept
  <2> QED
    BY <1>2, <1>6, <2>1, <2>2
<1> QED
  BY <1>1, <1>2, <1>6

LEMMA ReferenceClean ==
    ASSUME InvC(TRUE), Clean, NEW n, Reference(n), UNCHANGED <<blocks, tables>>
    PROVE  Clean'
<1>1. UNCHANGED <<blocks, missed, stray>>
  BY DEF tables
<1>2. CASE cnts' = cnts
  BY <1>1, <1>2 DEF Clean
<1>3. CASE cnts' # cnts
  <2> DEFINE x(i) == [cnts[i] EXCEPT
                        !.captured = IF i = Capturer(Walk(n)) THEN @ \cup {n} ELSE @,
                        !.needed = IF i = MustCapture(n)
                                   THEN @ \cup {<<n, Hidden(n)>>} ELSE @]
  <2>1. DOMAIN cnts' = DOMAIN cnts /\ \A i \in DOMAIN cnts : cnts'[i] = x(i)
    BY <1>3 DEF Reference
  <2>2. ASSUME NEW i \in DOMAIN cnts PROVE Fine(x(i), blocks)
    <3>1. PICK c : c = cnts[i]
      OBVIOUS
    <3>2. c \in CntSet /\ Fine(c, blocks)
      <4>1. cnts \in Seq(CntSet)
        BY CurIs
      <4>2. c \in CntSet
        BY <2>2, <3>1, <4>1
      <4> QED
        BY <2>2, <3>1, <4>2 DEF Clean
    <3>3. PICK h : h = Hidden(n)
      OBVIOUS
    <3>4. PICK d : d = IF i = Capturer(Walk(n)) THEN c.captured \cup {n} ELSE c.captured
      OBVIOUS
    <3>5. PICK r : r = IF i = MustCapture(n) THEN c.needed \cup {<<n, h>>} ELSE c.needed
      OBVIOUS
    <3>6. x(i) = [block |-> c.block, captured |-> d, needed |-> r]
      <4>1. x(i) = [c EXCEPT !.captured = d, !.needed = r]
        BY <3>1, <3>3, <3>4, <3>5
      <4> HIDE DEF x
      <4> QED
        BY <3>2, <4>1 DEF CntSet
    <3>7. ASSUME NEW m \in r PROVE m[2] \/ m[1] \in d
      <4>1. CASE m \in c.needed
        BY <3>2, <3>4, <4>1 DEF Fine
      <4>2. CASE i = MustCapture(n) /\ m = <<n, h>> /\ h
        BY <4>2
      <4>3. CASE i = MustCapture(n) /\ m = <<n, h>> /\ ~h
        <5>1. i = Capturer(Walk(n))
          BY <3>3, <4>3, CapturesWhatMust
        <5> QED
          BY <3>4, <4>3, <5>1
      <4> QED
        BY <3>5, <3>7, <4>1, <4>2, <4>3
    <3>8. ASSUME NEW v \in d PROVE Below(v, c.block, blocks)
      <4>1. CASE v \in c.captured
        BY <3>2, <4>1 DEF Fine
      <4>2. CASE i = Capturer(Walk(n)) /\ v = n
        BY <2>2, <3>1, <4>2, CapturesWhatMust
      <4> QED
        BY <3>4, <3>8, <4>1, <4>2
    <3> HIDE DEF x
    <3> QED
      BY <3>6, <3>7, <3>8 DEF Fine
  <2> HIDE DEF x
  <2>3. \A i \in DOMAIN cnts' : Fine(cnts'[i], blocks')
    BY <1>1, <2>1, <2>2
  <2> QED
    BY <1>1, <2>3 DEF Clean
<1> QED
  BY <1>2, <1>3

LEMMA LeaveTerraClean ==
    ASSUME InvC(TRUE), InvC(TRUE)', Clean, LeaveTerraCnt
    PROVE  Clean'
<1>1. /\ blocks # <<>> /\ Pop(blocks) \in Seq(BlockSet) /\ Pop(blocks) # <<>>
      /\ Renamed(Pop(blocks), blocks') /\ cnts # <<>>
  BY LeaveTerraStep
<1>2. blocks \in Seq(BlockSet) /\ cnts \in Seq(CntSet)
  BY CurIs
<1>3. PICK c \in Nat : c = Len(cnts) /\ DOMAIN cnts = 1 .. c /\ c \in 1 .. c
  BY <1>1, <1>2
<1>4. PICK m \in Nat : m = Len(blocks) /\ m - 1 \in Nat
  BY <1>1, <1>2
<1>5. Len(Pop(blocks)) = m - 1 /\ \A j \in 1 .. m - 1 : Pop(blocks)[j] = blocks[j]
  BY <1>2, <1>4 DEF Pop
<1>6. \A j \in 1 .. Len(blocks') - 1 : blocks'[j] = blocks[j]
  <2>1. Len(blocks') = m - 1
    BY <1>1, <1>5 DEF Renamed
  <2>2. \A j \in 1 .. m - 1 : j # m - 1 => blocks'[j] = Pop(blocks)[j]
    BY <1>1, <1>5 DEF Renamed
  <2>3. \A j \in 1 .. (m - 1) - 1 : j \in 1 .. m - 1 /\ j # m - 1
    BY <1>4
  <2> QED
    BY <1>5, <2>1, <2>2, <2>3
<1>7. \A i \in DOMAIN cnts' : i \in DOMAIN cnts /\ cnts'[i] = cnts[i]
  <2>1. cnts' = Pop(cnts)
    BY DEF LeaveTerraCnt
  <2>2. c - 1 \in Nat
    BY <1>3
  <2>3. Len(Pop(cnts)) = c - 1 /\ \A i \in 1 .. c - 1 : Pop(cnts)[i] = cnts[i]
    BY <1>2, <1>3, <2>2 DEF Pop
  <2>4. DOMAIN cnts' = 1 .. c - 1
    BY <1>2, <1>3, <2>1, <2>2, <2>3 DEF Pop
  <2>5. \A i \in 1 .. c - 1 : i \in 1 .. c
    OBVIOUS
  <2> QED
    BY <1>3, <2>1, <2>3, <2>4, <2>5
<1>8. \A i \in DOMAIN cnts' : Fine(cnts'[i], blocks')
  BY <1>6, <1>7, CntsKept
<1>9. PICK tc : tc = cnts[c]
  OBVIOUS
<1>10. Fine(tc, blocks)
  BY <1>3, <1>9 DEF Clean
<1>11. \A d \in missed' : d[2]
  <2>1. missed' = missed \cup {d \in tc.needed : d[1] \notin tc.captured \cup Head(todo)[3]}
    BY <1>3, <1>9 DEF LeaveTerraCnt
  <2> QED
    BY <1>10, <2>1 DEF Clean, Fine
<1>12. stray' = {}
  <2>1. stray' = stray \cup {n \in tc.captured : ~LocalBelow(n, tc.block)}
    BY <1>3, <1>9 DEF LeaveTerraCnt
  <2>2. \A n \in tc.captured : LocalBelow(n, tc.block)
    BY <1>10 DEF Fine, Below, LocalBelow
  <2> QED
    BY <2>1, <2>2 DEF Clean
<1> QED
  BY <1>8, <1>11, <1>12 DEF Clean

(* The other actions that touch blocks or constructs.                      *)
LEMMA BlocksClean ==
    ASSUME InvC(TRUE), InvC(TRUE)', Clean,
           \/ EnterBlock \/ Leaves \/ Defines \/ EnterTerraCnt
           \/ EmbeddedCode \/ ResumeTerra \/ \E l \in Languages : Import(l)
    PROVE  Clean'
<1>1. blocks \in Seq(BlockSet) /\ cnts \in Seq(CntSet)
  BY CurIs
<1>2. PICK m \in Nat : m = Len(blocks)
  BY <1>1
<1>3. UNCHANGED <<missed, stray>>
  BY DEF EnterBlock, Leaves, Defines, EnterTerraCnt, EmbeddedCode, ResumeTerra, Import, tables
<1>4. \A j \in 1 .. Len(blocks') - 1 : blocks'[j] = blocks[j]
  <2>1. CASE EnterBlock \/ EnterTerraCnt \/ EmbeddedCode
    <3>1. PICK b : b \in BOOLEAN /\ blocks' = Append(blocks, Block(b))
      <4>1. \/ blocks' = Append(blocks, Block(inTerra > 0))
            \/ blocks' = Append(blocks, Block(TRUE))
            \/ blocks' = Append(blocks, Block(FALSE))
        BY <2>1 DEF EnterBlock, EnterTerraCnt, EmbeddedCode
      <4>2. (inTerra > 0) \in BOOLEAN /\ TRUE \in BOOLEAN /\ FALSE \in BOOLEAN
        OBVIOUS
      <4> QED
        BY <4>1, <4>2, Zenon
    <3>2. Block(b) \in BlockSet
      BY <3>1 DEF Block, BlockSet
    <3>3. Len(blocks') = m + 1 /\ \A j \in 1 .. m : blocks'[j] = blocks[j]
      BY <1>1, <1>2, <3>1, <3>2, Pushed
    <3> QED
      BY <3>3
  <2>2. CASE Leaves \/ ResumeTerra
    <3>1. blocks # <<>> /\ blocks' = Pop(blocks)
      BY <2>2, LeavesStep, ResumeStep DEF Leaves, ResumeTerra, LeaveBlock
    <3>2. m - 1 \in Nat
      BY <1>1, <1>2, <3>1
    <3>3. Len(blocks') = m - 1 /\ \A j \in 1 .. m - 1 : blocks'[j] = blocks[j]
      BY <1>1, <1>2, <3>1, <3>2 DEF Pop
    <3>4. \A j \in 1 .. (m - 1) - 1 : j \in 1 .. m - 1
      BY <3>2
    <3> QED
      BY <3>3, <3>4
  <2>3. CASE Defines
    <3>1. Renamed(blocks, blocks')
      BY <2>3, DefinesStep
    <3>2. Len(blocks') = m /\ \A j \in 1 .. m : j # m => blocks'[j] = blocks[j]
      BY <1>2, <3>1 DEF Renamed
    <3>3. \A j \in 1 .. m - 1 : j \in 1 .. m /\ j # m
      OBVIOUS
    <3> QED
      BY <3>2, <3>3
  <2>4. CASE \E l \in Languages : Import(l)
    <3>1. PICK x : blocks' = [blocks EXCEPT ![m] = x]
      BY <1>2, <2>4 DEF Import
    <3>2. Len(blocks') = m /\ \A j \in 1 .. m : j # m => blocks'[j] = blocks[j]
      BY <1>1, <1>2, <3>1
    <3>3. \A j \in 1 .. m - 1 : j \in 1 .. m /\ j # m
      OBVIOUS
    <3> QED
      BY <3>2, <3>3
  <2> QED
    BY <2>1, <2>2, <2>3, <2>4
<1>5. \A i \in DOMAIN cnts' : \/ i \in DOMAIN cnts /\ cnts'[i] = cnts[i]
                              \/ cnts'[i].captured = {} /\ cnts'[i].needed = {}
  <2>1. CASE EnterTerraCnt
    <3>1. PICK c \in Nat : c = Len(cnts) /\ DOMAIN cnts = 1 .. c
      BY <1>1
    <3>2. PICK x : x = Construct(m + 1)
      OBVIOUS
    <3>6. x \in CntSet /\ x.captured = {} /\ x.needed = {}
      <4>1. m + 1 \in Nat
        OBVIOUS
      <4> QED
        BY <3>2, <4>1 DEF Construct, CntSet
    <3>3. cnts' = Append(cnts, x)
      BY <1>2, <2>1, <3>2 DEF EnterTerraCnt
    <3>4. /\ Len(cnts') = c + 1 /\ cnts'[c + 1] = x /\ cnts' \in Seq(CntSet)
          /\ \A i \in 1 .. c : cnts'[i] = cnts[i]
      BY <1>1, <3>1, <3>3, <3>6, Pushed
    <3>5. \A i \in DOMAIN cnts' : i \in 1 .. c \/ i = c + 1
      BY <3>4
    <3> QED
      BY <3>1, <3>4, <3>5, <3>6
  <2>2. CASE ~EnterTerraCnt
    <3>1. cnts' = cnts
      BY <2>2 DEF EnterBlock, Leaves, Defines, EmbeddedCode, ResumeTerra, Import
    <3> QED
      BY <3>1
  <2> QED
    BY <2>1, <2>2
<1> QED
  BY <1>3, <1>4, <1>5, CntsKept DEF Clean

LEMMA StepClean ==
    ASSUME InvC(TRUE), InvC(TRUE)', Clean, [Next]_vars
    PROVE  Clean'
<1>1. CASE \/ EnterBlock \/ Leaves \/ Defines \/ EnterTerraCnt
           \/ EmbeddedCode \/ ResumeTerra \/ \E l \in Languages : Import(l)
  BY <1>1, BlocksClean
<1>2. CASE LeaveTerraCnt
  BY <1>2, LeaveTerraClean
<1>3. CASE Refers \/ \E n \in Names : Variable(n)
  <2>1. PICK n : Reference(n) /\ UNCHANGED <<blocks, tables>>
    BY <1>3 DEF Refers, Variable
  <2> QED
    BY <2>1, ReferenceClean
<1>4. CASE SyntaxError \/ ParseAgain
  <2>1. cnts' = <<>> /\ missed' = {} /\ stray' = {}
    BY <1>4 DEF SyntaxError, Fails, ParseAgain
  <2> QED
    BY <2>1 DEF Clean
<1>5. ASSUME UNCHANGED <<scopes, tables>> PROVE Clean'
  <2>1. UNCHANGED <<blocks, cnts, missed, stray>>
    BY <1>5 DEF scopes, tables
  <2> QED
    BY <2>1 DEF Clean
<1>6. CASE \/ Token \/ LeaveLevel \/ LanguageReads \/ CheckReturns1
           \/ EndStatements \/ ExprStatement \/ Literal \/ TooManyLevels \/ EndParse
           \/ LanguageEmbeds \/ LanguageReturns
  BY <1>5, <1>6 DEF Token, LeaveLevel, LanguageReads, CheckReturns1, EndStatements,
                    ExprStatement, Literal, TooManyLevels, EndParse, LanguageEmbeds,
                    LanguageReturns
<1>7. CASE CommonStatement \/ FunctionStatement \/ TerraStatement \/ EscapeStatement
             \/ LanguageStatement
  BY <1>5, <1>7 DEF CommonStatement, FunctionStatement, TerraStatement, EscapeStatement,
                    LanguageStatement
<1>8. CASE FunctionOperand \/ TerraOperand \/ EscapeOperand \/ LanguageOperand
  BY <1>5, <1>8 DEF FunctionOperand, TerraOperand, EscapeOperand, OperandIs, LanguageOperand
<1>9. CASE UNCHANGED vars
  BY <1>5, <1>9 DEF vars
<1> QED
  BY <1>1, <1>2, <1>3, <1>4, <1>6, <1>7, <1>8, <1>9 DEF Next

(* What is captured is in order, or nothing is ok any more: then RETURNS_1 *)
(* will end the parse.                                                     *)
CapturesInv == InvC(FALSE) \/ (InvC(TRUE) /\ Clean)

LEMMA StepCaptures == CapturesInv /\ [Next]_vars => CapturesInv'
<1> SUFFICES ASSUME CapturesInv, [Next]_vars PROVE CapturesInv'
  OBVIOUS
<1>1. TRUE \in BOOLEAN /\ FALSE \in BOOLEAN
  OBVIOUS
<1>2. CASE ParseAgain
  <2>1. InvC(TRUE)'
    BY <1>2, AgainStep
  <2>2. cnts' = <<>> /\ missed' = {} /\ stray' = {}
    BY <1>2 DEF ParseAgain
  <2>3. Clean'
    BY <2>2 DEF Clean
  <2> QED
    BY <2>1, <2>3 DEF CapturesInv
<1>3. CASE ~ParseAgain /\ InvC(FALSE)
  <2>1. InvC(FALSE)'
    BY <1>1, <1>3, StepShape
  <2> QED
    BY <2>1 DEF CapturesInv
<1>4. CASE ~ParseAgain /\ InvC(TRUE) /\ Clean
  <2>1. InvC(TRUE)' \/ InvC(FALSE)'
    BY <1>1, <1>4, StepShape
  <2>2. InvC(TRUE)' => Clean'
    BY <1>4, StepClean
  <2> QED
    BY <2>1, <2>2 DEF CapturesInv
<1> QED
  BY <1>2, <1>3, <1>4 DEF CapturesInv

LEMMA CapturesHold == Spec => []CapturesInv
<1>1. Init => CapturesInv
  <2> SUFFICES ASSUME Init PROVE CapturesInv
    OBVIOUS
  <2>1. cnts = <<>> /\ missed = {} /\ stray = {}
    BY DEF Init
  <2>2. Clean
    BY <2>1 DEF Clean
  <2> QED
    BY <2>2, InitShape DEF CapturesInv
<1> QED
  BY <1>1, StepCaptures, PTL DEF Spec

(* When a chunk has been parsed, all that refvariable missed of what the   *)
(* language asks for are names a header defines before it binds them.      *)
THEOREM OnlyHeadersMiss == Spec => []MissedOnlyInHeaders
<1>1. CapturesInv => MissedOnlyInHeaders
  BY DEF CapturesInv, InvC, Clean, MissedOnlyInHeaders
<1> QED
  BY <1>1, CapturesHold, PTL

(* The tables a parsed chunk builds for its Terra code name only locals of *)
(* the Lua code around the construct.                                      *)
THEOREM TablesHoldLocals == Spec => []CapturedAreLocals
<1>1. CapturesInv => CapturedAreLocals
  BY DEF CapturesInv, InvC, Clean, CapturedAreLocals
<1> QED
  BY <1>1, CapturesHold, PTL
-----------------------------------------------------------------------------
(***************************************************************************)
(* When the current token can go stale.  Imports are statements of Lua     *)
(* blocks.  For each open block: whether it is Terra, a Lua block that a   *)
(* list of statements ends, or a Lua block of one expression, where nothing*)
(* is imported.  plain: a list of statements has just ended, before a token*)
(* that is no entry point.                                                 *)
(***************************************************************************)
Reading == [bs : Seq({"terra", "list", "expression"}), plain : BOOLEAN]

(* In the middle of an open block.                                         *)
Within == {s \in Reading : s.bs # <<>> /\ ~s.plain}

Back(s) == [bs |-> s.bs, plain |-> FALSE]
Listed(s) == [bs |-> s.bs, plain |-> TRUE]
Last(s) == s.bs[Len(s.bs)]
Closed(s) == [bs |-> Pop(s.bs), plain |-> FALSE]
Opened(s, kind) == [bs |-> Append(s.bs, kind), plain |-> FALSE]
Inner(s) == Opened(s, IF Last(s) = "terra" THEN "terra" ELSE "list")

StillTags == {"token", "expr", "down", "returns1", "define", "declare", "bind", "ref",
              "embedded", "finish"}

(* What op does.  A Lua block that may have imports is only left when a    *)
(* list of statements has just ended, or at the end of a repeat loop.      *)
ReadsTo(op, s, t) ==
    \/ op[1] \in StillTags /\ t = Back(s)
    \/ /\ s.bs # <<>>
       /\ \/ op[1] = "stats" /\ Last(s) # "expression" /\ t = Listed(s)
          \/ op[1] = "enter" /\ t = Inner(s)
          \/ op[1] = "enterterra" /\ t = Opened(s, "terra")
          \/ op[1] = "leave" /\ t = Closed(s)
                /\ (op[2] = "repeat" \/ Last(s) = "terra" \/ s.plain)
          \/ op[1] \in {"leaveterra", "language"} /\ Last(s) = "terra" /\ t = Closed(s)
          \/ op[1] = "resume" /\ (Last(s) = "expression" \/ s.plain) /\ t = Closed(s)

(* ops can be done one after the other, from s to u.                       *)
ReadOn(ops, s, u) ==
    /\ ops \in Seq(Op)
    /\ \E f \in [1 .. Len(ops) + 1 -> Reading] :
           /\ f[1] = s /\ f[Len(ops) + 1] = u
           /\ \A i \in 1 .. Len(ops) : ReadsTo(ops[i], f[i], f[i + 1])
-----------------------------------------------------------------------------
LEMMA ReadNothing ==
    ASSUME NEW s \in Reading
    PROVE  ReadOn(<<>>, s, s)
<1> DEFINE f == [i \in 1 .. 1 |-> s]
<1>1. f \in [1 .. Len(<<>>) + 1 -> Reading] /\ f[1] = s /\ Len(<<>>) + 1 = 1
  OBVIOUS
<1> HIDE DEF f
<1>2. \A i \in 1 .. Len(<<>>) : FALSE
  OBVIOUS
<1>3. <<>> \in Seq(Op)
  OBVIOUS
<1> QED
  BY <1>1, <1>2, <1>3 DEF ReadOn

LEMMA ReadOne ==
    ASSUME NEW op \in Op, NEW s \in Reading, NEW t \in Reading, ReadsTo(op, s, t)
    PROVE  ReadOn(<<op>>, s, t)
<1> DEFINE f == [i \in 1 .. 2 |-> IF i = 1 THEN s ELSE t]
<1>1. f \in [1 .. 2 -> Reading] /\ f[1] = s /\ f[2] = t
  OBVIOUS
<1>2. Len(<<op>>) = 1 /\ Len(<<op>>) + 1 = 2 /\ <<op>>[1] = op /\ <<op>> \in Seq(Op)
  OBVIOUS
<1> HIDE DEF f
<1>4. \A i \in 1 .. 1 : ReadsTo(<<op>>[i], f[i], f[i + 1])
  <2>1. \A i \in 1 .. 1 : i = 1 /\ i + 1 = 2
    OBVIOUS
  <2> QED
    BY <1>1, <1>2, <2>1
<1> QED
  BY <1>1, <1>2, <1>4 DEF ReadOn

LEMMA ReadConcat ==
    ASSUME NEW a, NEW b, NEW s, NEW t, NEW u, ReadOn(a, s, t), ReadOn(b, t, u)
    PROVE  ReadOn(a \o b, s, u)
<1>0. a \in Seq(Op) /\ b \in Seq(Op) /\ a \o b \in Seq(Op)
  BY DEF ReadOn
<1>1. PICK m \in Nat : m = Len(a)
  BY <1>0
<1>2. PICK n \in Nat : n = Len(b)
  BY <1>0
<1>3. PICK f \in [1 .. m + 1 -> Reading] :
        /\ f[1] = s /\ f[m + 1] = t
        /\ \A i \in 1 .. m : ReadsTo(a[i], f[i], f[i + 1])
  BY <1>1 DEF ReadOn
<1>4. PICK g \in [1 .. n + 1 -> Reading] :
        /\ g[1] = t /\ g[n + 1] = u
        /\ \A i \in 1 .. n : ReadsTo(b[i], g[i], g[i + 1])
  BY <1>2 DEF ReadOn
<1> DEFINE h == [i \in 1 .. m + n + 1 |-> IF i <= m THEN f[i] ELSE g[i - m]]
<1>5. /\ Len(a \o b) = m + n
      /\ \A i \in 1 .. m : (a \o b)[i] = a[i]
      /\ \A i \in m + 1 .. m + n : (a \o b)[i] = b[i - m]
  BY <1>0, <1>1, <1>2
<1>6. \A i \in 1 .. m + n + 1 : h[i] \in Reading
  <2> SUFFICES ASSUME NEW i \in 1 .. m + n + 1 PROVE h[i] \in Reading
    OBVIOUS
  <2>1. CASE i <= m
    <3>1. i \in 1 .. m + 1 /\ h[i] = f[i]
      BY <2>1
    <3> QED
      BY <1>3, <3>1
  <2>2. CASE ~(i <= m)
    <3>1. i - m \in 1 .. n + 1 /\ h[i] = g[i - m]
      BY <2>2
    <3> QED
      BY <1>4, <3>1
  <2> QED
    BY <2>1, <2>2
<1>7. \A i \in 1 .. m + 1 : h[i] = f[i]
  <2> SUFFICES ASSUME NEW i \in 1 .. m + 1 PROVE h[i] = f[i]
    OBVIOUS
  <2>1. i \in 1 .. m + n + 1
    OBVIOUS
  <2>2. CASE i <= m
    BY <2>1, <2>2
  <2>3. CASE i = m + 1
    <3>1. i - m = 1 /\ ~(i <= m)
      BY <2>3
    <3> QED
      BY <1>3, <1>4, <2>1, <2>3, <3>1
  <2> QED
    BY <2>2, <2>3
<1>8. \A j \in 1 .. n + 1 : h[m + j] = g[j]
  <2> SUFFICES ASSUME NEW j \in 1 .. n + 1 PROVE h[m + j] = g[j]
    OBVIOUS
  <2>1. m + j \in 1 .. m + n + 1 /\ ~(m + j <= m) /\ (m + j) - m = j
    OBVIOUS
  <2> QED
    BY <2>1
<1>9. h \in [1 .. m + n + 1 -> Reading]
  BY <1>6
<1> HIDE DEF h
<1>10. \A i \in 1 .. m + n : ReadsTo((a \o b)[i], h[i], h[i + 1])
  <2> SUFFICES ASSUME NEW i \in 1 .. m + n PROVE ReadsTo((a \o b)[i], h[i], h[i + 1])
    OBVIOUS
  <2>1. CASE i <= m
    <3>1. i \in 1 .. m /\ i \in 1 .. m + 1 /\ i + 1 \in 1 .. m + 1
      BY <2>1
    <3>2. h[i] = f[i] /\ h[i + 1] = f[i + 1] /\ (a \o b)[i] = a[i]
      BY <1>5, <1>7, <3>1
    <3> QED
      BY <1>3, <3>1, <3>2
  <2>2. CASE ~(i <= m)
    <3>1. PICK j \in Nat : j = i - m
      BY <2>2
    <3>2. j \in 1 .. n /\ j \in 1 .. n + 1 /\ j + 1 \in 1 .. n + 1 /\ i = m + j
          /\ i + 1 = m + (j + 1) /\ i \in m + 1 .. m + n
      BY <2>2, <3>1
    <3>3. h[i] = g[j] /\ h[i + 1] = g[j + 1]
      BY <1>8, <3>2
    <3>4. (a \o b)[i] = b[j]
      BY <1>5, <3>1, <3>2
    <3> QED
      BY <1>4, <3>2, <3>3, <3>4
  <2> QED
    BY <2>1, <2>2
<1>11. h[1] = s /\ h[m + n + 1] = u
  <2>1. 1 \in 1 .. m + 1 /\ n + 1 \in 1 .. n + 1 /\ m + (n + 1) = m + n + 1
    OBVIOUS
  <2> QED
    BY <1>3, <1>4, <1>7, <1>8, <2>1
<1> QED
  BY <1>0, <1>5, <1>9, <1>10, <1>11 DEF ReadOn

LEMMA ReadHead ==
    ASSUME NEW ops, ops # <<>>, NEW s, NEW u, ReadOn(ops, s, u)
    PROVE  /\ Head(ops) \in Op /\ ops = <<Head(ops)>> \o Tail(ops) /\ s \in Reading
           /\ \E t \in Reading : ReadsTo(Head(ops), s, t) /\ ReadOn(Tail(ops), t, u)
<1>0. ops \in Seq(Op) /\ Tail(ops) \in Seq(Op) /\ Head(ops) \in Op
      /\ ops = <<Head(ops)>> \o Tail(ops)
  BY DEF ReadOn
<1>1. PICK m \in Nat : m + 1 = Len(ops)
  <2>1. Len(ops) \in Nat /\ Len(ops) # 0
    BY <1>0
  <2>2. Len(ops) - 1 \in Nat /\ (Len(ops) - 1) + 1 = Len(ops)
    BY <2>1
  <2> QED
    BY <2>2
<1>2. PICK f \in [1 .. m + 2 -> Reading] :
        /\ f[1] = s /\ f[m + 2] = u
        /\ \A i \in 1 .. m + 1 : ReadsTo(ops[i], f[i], f[i + 1])
  <2>1. Len(ops) + 1 = m + 2
    BY <1>1
  <2> QED
    BY <1>1, <2>1 DEF ReadOn
<1>3. Len(Tail(ops)) = m /\ \A i \in 1 .. m : Tail(ops)[i] = ops[i + 1]
  <2>1. ops \in Seq(Op)
    BY <1>0
  <2> QED
    BY <1>1, <2>1
<1>4. Head(ops) = ops[1]
  OBVIOUS
<1> DEFINE g == [i \in 1 .. m + 1 |-> f[i + 1]]
<1>5. \A i \in 1 .. m + 1 : i + 1 \in 1 .. m + 2 /\ g[i] = f[i + 1]
  OBVIOUS
<1>6. g \in [1 .. m + 1 -> Reading]
  BY <1>5
<1> HIDE DEF g
<1>8. \A i \in 1 .. m : ReadsTo(Tail(ops)[i], g[i], g[i + 1])
  <2> SUFFICES ASSUME NEW i \in 1 .. m PROVE ReadsTo(Tail(ops)[i], g[i], g[i + 1])
    OBVIOUS
  <2>1. i \in 1 .. m + 1 /\ i + 1 \in 1 .. m + 1 /\ (i + 1) + 1 \in 1 .. m + 2
    OBVIOUS
  <2>2. g[i] = f[i + 1] /\ g[i + 1] = f[(i + 1) + 1] /\ Tail(ops)[i] = ops[i + 1]
    BY <1>3, <1>5, <2>1
  <2>3. ReadsTo(ops[i + 1], f[i + 1], f[(i + 1) + 1])
    BY <1>2, <2>1
  <2> QED
    BY <2>2, <2>3
<1>9. g[1] = f[2] /\ g[m + 1] = u
  <2>1. 1 \in 1 .. m + 1 /\ m + 1 \in 1 .. m + 1 /\ (m + 1) + 1 = m + 2 /\ 1 + 1 = 2
    OBVIOUS
  <2> QED
    BY <1>2, <1>5, <2>1
<1>10. ReadOn(Tail(ops), f[2], u)
  <2>1. Tail(ops) \in Seq(Op)
    BY <1>0
  <2>2. g \in [1 .. Len(Tail(ops)) + 1 -> Reading] /\ g[Len(Tail(ops)) + 1] = u
    BY <1>3, <1>6, <1>9
  <2>3. \A i \in 1 .. Len(Tail(ops)) : ReadsTo(Tail(ops)[i], g[i], g[i + 1])
    BY <1>3, <1>8
  <2> QED
    BY <1>9, <2>1, <2>2, <2>3 DEF ReadOn
<1>11. s \in Reading /\ f[2] \in Reading /\ ReadsTo(ops[1], s, f[2])
  <2>1. 1 \in 1 .. m + 2 /\ 2 \in 1 .. m + 2 /\ 1 \in 1 .. m + 1 /\ 1 + 1 = 2
    OBVIOUS
  <2>2. ReadsTo(ops[1], f[1], f[1 + 1])
    BY <1>2, <2>1
  <2> QED
    BY <1>2, <2>1, <2>2
<1> QED
  BY <1>0, <1>4, <1>10, <1>11

LEMMA ReadFirst ==
    ASSUME NEW op \in Op, NEW ops, NEW s \in Reading, NEW t \in Reading, NEW u,
           ReadsTo(op, s, t), ReadOn(ops, t, u)
    PROVE  ReadOn(<<op>> \o ops, s, u)
BY ReadOne, ReadConcat

LEMMA ReadTwo ==
    ASSUME NEW a \in Op, NEW b \in Op, NEW s \in Reading, NEW t \in Reading, NEW u \in Reading,
           ReadsTo(a, s, t), ReadsTo(b, t, u)
    PROVE  ReadOn(<<a, b>>, s, u)
<1>1. ReadOn(<<b>>, t, u)
  BY ReadOne
<1>2. ReadOn(<<a>> \o <<b>>, s, u)
  BY <1>1, ReadFirst
<1>3. <<a>> \o <<b>> = <<a, b>>
  BY TwoOps, ZenonT(40)
<1> QED
  BY <1>2, <1>3, Zenon

LEMMA ReadThree ==
    ASSUME NEW a \in Op, NEW b \in Op, NEW c \in Op,
           NEW s \in Reading, NEW t \in Reading, NEW u \in Reading, NEW v \in Reading,
           ReadsTo(a, s, t), ReadsTo(b, t, u), ReadsTo(c, u, v)
    PROVE  ReadOn(<<a, b, c>>, s, v)
<1>1. ReadOn(<<b, c>>, t, v)
  BY ReadTwo
<1>2. ReadOn(<<a>> \o <<b, c>>, s, v)
  BY <1>1, ReadFirst
<1>3. <<a>> \o <<b, c>> = <<a, b, c>>
  BY ThreeOps, ZenonT(40)
<1> QED
  BY <1>2, <1>3, Zenon

LEMMA ReadFour ==
    ASSUME NEW a \in Op, NEW b \in Op, NEW c \in Op, NEW d \in Op,
           NEW s \in Reading, NEW t \in Reading, NEW u \in Reading, NEW v \in Reading,
           NEW w \in Reading,
           ReadsTo(a, s, t), ReadsTo(b, t, u), ReadsTo(c, u, v), ReadsTo(d, v, w)
    PROVE  ReadOn(<<a, b, c, d>>, s, w)
<1>1. ReadOn(<<b, c, d>>, t, w)
  BY ReadThree
<1>2. ReadOn(<<a>> \o <<b, c, d>>, s, w)
  BY <1>1, ReadFirst
<1>3. <<a>> \o <<b, c, d>> = <<a, b, c, d>>
  BY FourOps, ZenonT(40)
<1> QED
  BY <1>2, <1>3, Zenon

LEMMA FiveOps ==
    ASSUME NEW a \in Op, NEW b \in Op, NEW c \in Op, NEW d \in Op, NEW g \in Op
    PROVE  <<a>> \o <<b, c, d, g>> = <<a, b, c, d, g>>
<1>1. <<a>> \o <<b, c, d, g>> \in Seq(Op) /\ <<a, b, c, d, g>> \in Seq(Op)
      /\ Len(<<a>> \o <<b, c, d, g>>) = 5 /\ Len(<<a, b, c, d, g>>) = 5
  OBVIOUS
<1>2. /\ (<<a>> \o <<b, c, d, g>>)[1] = a
      /\ (<<a>> \o <<b, c, d, g>>)[2] = b
      /\ (<<a>> \o <<b, c, d, g>>)[3] = c
      /\ (<<a>> \o <<b, c, d, g>>)[4] = d
      /\ (<<a>> \o <<b, c, d, g>>)[5] = g
  OBVIOUS
<1>3. \A i \in 1 .. 5 : i = 1 \/ i = 2 \/ i = 3 \/ i = 4 \/ i = 5
  OBVIOUS
<1>4. \A i \in 1 .. 5 : (<<a>> \o <<b, c, d, g>>)[i] = <<a, b, c, d, g>>[i]
  BY <1>2, <1>3
<1> QED
  BY <1>1, <1>4, SameSeq

LEMMA ReadFive ==
    ASSUME NEW a \in Op, NEW b \in Op, NEW c \in Op, NEW d \in Op, NEW g \in Op,
           NEW s \in Reading, NEW t \in Reading, NEW u \in Reading, NEW v \in Reading,
           NEW w \in Reading, NEW x \in Reading,
           ReadsTo(a, s, t), ReadsTo(b, t, u), ReadsTo(c, u, v), ReadsTo(d, v, w),
           ReadsTo(g, w, x)
    PROVE  ReadOn(<<a, b, c, d, g>>, s, x)
<1>1. ReadOn(<<b, c, d, g>>, t, x)
  BY ReadFour
<1>2. ReadOn(<<a>> \o <<b, c, d, g>>, s, x)
  BY <1>1, ReadFirst
<1>3. <<a>> \o <<b, c, d, g>> = <<a, b, c, d, g>>
  BY FiveOps
<1> QED
  BY <1>2, <1>3, Zenon
-----------------------------------------------------------------------------
(* What the single operations do.                                          *)
LEMMA Reads ==
    ASSUME NEW s \in Reading
    PROVE  /\ Back(s) \in Reading /\ Back(s).bs = s.bs /\ ~Back(s).plain
           /\ Listed(s) \in Reading /\ Listed(s).bs = s.bs /\ Listed(s).plain
           /\ Back(Back(s)) = Back(s) /\ Back(Listed(s)) = Back(s)
           /\ Listed(Back(s)) = Listed(s)
           /\ ~s.plain => Back(s) = s
           /\ s.bs # <<>> => /\ Back(s) \in Within /\ Last(s) \in {"terra", "list", "expression"}
                             /\ Last(Back(s)) = Last(s) /\ Last(Listed(s)) = Last(s)
                             /\ Closed(s) \in Reading /\ Closed(Back(s)) = Closed(s)
                             /\ Closed(Listed(s)) = Closed(s)
<1>1. s.bs \in Seq({"terra", "list", "expression"}) /\ s.plain \in BOOLEAN
      /\ s = [bs |-> s.bs, plain |-> s.plain]
  BY DEF Reading
<1>2. /\ Back(s) \in Reading /\ Back(s).bs = s.bs /\ ~Back(s).plain
      /\ Listed(s) \in Reading /\ Listed(s).bs = s.bs /\ Listed(s).plain
      /\ Back(Back(s)) = Back(s) /\ Back(Listed(s)) = Back(s)
      /\ Listed(Back(s)) = Listed(s)
  BY <1>1 DEF Back, Listed, Reading
<1>3. ~s.plain => Back(s) = s
  BY <1>1 DEF Back
<1>4. ASSUME s.bs # <<>>
      PROVE  /\ Back(s) \in Within /\ Last(s) \in {"terra", "list", "expression"}
             /\ Last(Back(s)) = Last(s) /\ Last(Listed(s)) = Last(s)
             /\ Closed(s) \in Reading /\ Closed(Back(s)) = Closed(s)
             /\ Closed(Listed(s)) = Closed(s)
  <2>1. Back(s) \in Within
    BY <1>2, <1>4 DEF Within
  <2>2. Last(s) \in {"terra", "list", "expression"}
    BY <1>1, <1>4 DEF Last
  <2>3. Pop(s.bs) \in Seq({"terra", "list", "expression"})
    BY <1>1, <1>4 DEF Pop
  <2>4. Closed(s) \in Reading
    BY <2>3 DEF Closed, Reading
  <2> QED
    BY <1>2, <2>1, <2>2, <2>4 DEF Last, Closed
<1> QED
  BY <1>2, <1>3, <1>4

LEMMA ReadStays ==
    ASSUME NEW s \in Within
    PROVE  /\ s \in Reading /\ s.bs # <<>> /\ Back(s) = s
           /\ ReadsTo(Tok, s, s) /\ ReadsTo(Expr, s, s) /\ ReadsTo(Down, s, s)
           /\ ReadsTo(Bind, s, s) /\ ReadsTo(Returns1, s, s)
           /\ ReadsTo(Tok, Listed(s), s)
           /\ Last(s) # "expression" => ReadsTo(Stats, s, Listed(s))
           /\ \A ns \in SUBSET Names : ReadsTo(Define(ns), s, s) /\ ReadsTo(Declare(ns), s, s)
           /\ \A n \in Names : ReadsTo(Ref(n), s, s)
           /\ \A ops \in LuaCode : ReadsTo(Embedded(ops), s, s)
<1>1. s \in Reading /\ s.bs # <<>> /\ Back(s) = s /\ Back(Listed(s)) = s
  BY Reads DEF Within
<1>2. /\ ReadsTo(Tok, s, s) /\ ReadsTo(Expr, s, s) /\ ReadsTo(Down, s, s)
      /\ ReadsTo(Bind, s, s) /\ ReadsTo(Returns1, s, s)
      /\ ReadsTo(Tok, Listed(s), s)
  BY <1>1 DEF ReadsTo, StillTags, Tok, Expr, Down, Bind, Returns1
<1>3. Last(s) # "expression" => ReadsTo(Stats, s, Listed(s))
  BY <1>1 DEF ReadsTo, Stats
<1>4. ASSUME NEW ns PROVE ReadsTo(Define(ns), s, s) /\ ReadsTo(Declare(ns), s, s)
  BY <1>1 DEF ReadsTo, StillTags, Define, Declare
<1>5. ASSUME NEW n PROVE ReadsTo(Ref(n), s, s)
  BY <1>1 DEF ReadsTo, StillTags, Ref
<1>6. ASSUME NEW ops PROVE ReadsTo(Embedded(ops), s, s)
  BY <1>1 DEF ReadsTo, StillTags, Embedded
<1> QED
  BY <1>1, <1>2, <1>3, <1>4, <1>5, <1>6

LEMMA ReadOpens ==
    ASSUME NEW s \in Within, NEW kind \in {"terra", "list", "expression"}
    PROVE  LET t == Opened(s, kind) IN
           /\ t \in Within /\ Last(t) = kind /\ Closed(t) = s /\ Closed(Listed(t)) = s
           /\ Listed(t) \in Reading /\ Listed(t).bs # <<>> /\ Listed(t).plain
           /\ Last(Listed(t)) = kind
<1>1. s \in Reading /\ s = [bs |-> s.bs, plain |-> FALSE]
      /\ s.bs \in Seq({"terra", "list", "expression"})
  BY Reads DEF Within, Back, Reading
<1>2. PICK q \in Seq({"terra", "list", "expression"}) : q = s.bs
  BY <1>1
<1>3. PICK m \in Nat : m = Len(q)
  BY <1>2
<1>4. /\ Append(q, kind) \in Seq({"terra", "list", "expression"}) /\ Append(q, kind) # <<>>
      /\ Len(Append(q, kind)) = m + 1 /\ Append(q, kind)[m + 1] = kind
  BY <1>2, <1>3, SMTT(30)
<1>5. Pop(Append(q, kind)) = q
  <2>1. (m + 1) - 1 = m
    OBVIOUS
  <2>2. /\ Pop(Append(q, kind)) \in Seq({"terra", "list", "expression"})
        /\ Len(Pop(Append(q, kind))) = m
        /\ \A i \in 1 .. m : Pop(Append(q, kind))[i] = q[i]
    BY <1>2, <1>3, <1>4, <2>1 DEF Pop
  <2> QED
    BY <1>2, <1>3, <2>2, SameSeq
<1> DEFINE t == Opened(s, kind)
<1>6. t.bs = Append(q, kind) /\ t.plain = FALSE /\ t \in Reading
  BY <1>2, <1>4 DEF Opened, Reading
<1>7. t \in Within
  BY <1>4, <1>6 DEF Within
<1> HIDE DEF t
<1>8. Last(t) = kind
  BY <1>4, <1>6 DEF Last
<1>9. Closed(t) = s
  BY <1>1, <1>2, <1>5, <1>6 DEF Closed
<1>10. /\ Listed(t) \in Reading /\ Listed(t).bs # <<>> /\ Listed(t).plain
       /\ Last(Listed(t)) = kind /\ Closed(Listed(t)) = s
  BY <1>4, <1>6, <1>8, <1>9, Reads
<1> QED
  BY <1>7, <1>8, <1>9, <1>10 DEF t

LEMMA ReadPairs ==
    ASSUME NEW s \in Within
    PROVE  LET e == Inner(s) t == Opened(s, "terra") IN
           /\ e \in Within /\ Last(e) # "expression" /\ Listed(e) \in Reading
           /\ Last(e) = "terra" <=> Last(s) = "terra"
           /\ ReadsTo(Enter, s, e) /\ ReadsTo(LeaveRepeat, e, s)
           /\ ReadsTo(Leave, Listed(e), s)
           /\ Last(s) = "terra" => ReadsTo(Leave, e, s)
           /\ t \in Within /\ Last(t) = "terra" /\ ReadsTo(EnterTerra, s, t)
           /\ \A ns \in SUBSET Names : /\ ReadsTo(LeaveTerra(ns), t, s)
                                       /\ ReadsTo(LeaveLanguage(ns), t, s)
           /\ \A local \in BOOLEAN : ReadsTo(Language(local), t, s)
<1>1. s.bs # <<>>
  BY DEF Within
<1>2. PICK kind \in {"terra", "list"} : /\ kind = IF Last(s) = "terra" THEN "terra" ELSE "list"
  OBVIOUS
<1> DEFINE e == Opened(s, kind)
<1>3. /\ e \in Within /\ Last(e) = kind /\ Closed(e) = s /\ Closed(Listed(e)) = s
      /\ Listed(e) \in Reading /\ Listed(e).bs # <<>> /\ Listed(e).plain
  BY ReadOpens
<1>4. Inner(s) = e
  BY <1>2 DEF Inner
<1> HIDE DEF e
<1>5. ReadsTo(Enter, s, e)
  BY <1>1, <1>4 DEF ReadsTo, Enter
<1>6. e.bs # <<>>
  BY <1>3 DEF Within
<1>7. ReadsTo(LeaveRepeat, e, s) /\ (kind = "terra" => ReadsTo(Leave, e, s))
  BY <1>3, <1>6 DEF ReadsTo, LeaveRepeat, Leave
<1>8. ReadsTo(Leave, Listed(e), s)
  BY <1>3 DEF ReadsTo, Leave
<1> DEFINE t == Opened(s, "terra")
<1>9. t \in Within /\ Last(t) = "terra" /\ Closed(t) = s
  BY ReadOpens
<1>10. ReadsTo(EnterTerra, s, t)
  BY <1>1 DEF ReadsTo, EnterTerra
<1> HIDE DEF t
<1>11. t.bs # <<>>
  BY <1>9 DEF Within
<1>12. ASSUME NEW ns PROVE ReadsTo(LeaveTerra(ns), t, s) /\ ReadsTo(LeaveLanguage(ns), t, s)
  BY <1>9, <1>11 DEF ReadsTo, LeaveTerra, LeaveLanguage
<1>13. ASSUME NEW local PROVE ReadsTo(Language(local), t, s)
  BY <1>9, <1>11 DEF ReadsTo, Language
<1> QED
  BY <1>2, <1>3, <1>4, <1>5, <1>7, <1>8, <1>9, <1>10, <1>12, <1>13 DEF t
-----------------------------------------------------------------------------
(* The rules of the grammar come back to where they began.                 *)
LEMMA RestReads ==
    ASSUME NEW s \in Within
    PROVE  ReadOn(Rest, Inner(s), s)
<1> DEFINE e == Inner(s)
<1>1. e \in Within /\ Last(e) # "expression" /\ ReadsTo(Leave, Listed(e), s)
      /\ Listed(e) \in Reading
  BY ReadPairs
<1> HIDE DEF e
<1>2. ReadsTo(Stats, e, Listed(e)) /\ ReadsTo(Tok, s, s) /\ e \in Reading /\ s \in Reading
  BY <1>1, ReadStays
<1>3. ReadOn(<<Stats, Leave, Tok>>, e, s)
  BY <1>1, <1>2, OpsAreOps, ReadThree
<1> QED
  BY <1>3 DEF Rest, e

LEMMA LoopsRead ==
    ASSUME NEW s \in Within
    PROVE  /\ ReadOn(CondRule, s, s) /\ ReadOn(RepeatRule, s, s)
           /\ \A ns \in SUBSET Names : /\ ReadOn(FornumRule(ns), s, s)
                                       /\ ReadOn(ForlistRule(ns), s, s)
                                       /\ ReadOn(LocalRule(ns), s, s)
<1> DEFINE e == Inner(s)
<1>1. /\ e \in Within /\ Last(e) # "expression" /\ ReadsTo(Enter, s, e) /\ Listed(e) \in Reading
      /\ ReadsTo(LeaveRepeat, e, s) /\ ReadOn(Rest, e, s)
  BY ReadPairs, RestReads
<1> HIDE DEF e
<1>2. e \in Reading /\ s \in Reading /\ ReadsTo(Expr, s, s) /\ ReadsTo(Tok, s, s)
      /\ ReadsTo(Stats, e, Listed(e)) /\ ReadsTo(Tok, Listed(e), e)
      /\ ReadsTo(Expr, e, e) /\ ReadsTo(Tok, e, e) /\ ReadsTo(Bind, e, e)
  BY <1>1, ReadStays
<1>3. ReadOn(CondRule, s, s)
  <2>1. ReadOn(<<Expr, Tok, Enter>>, s, e)
    BY <1>1, <1>2, OpsAreOps, ReadThree
  <2> QED
    BY <1>1, <2>1, ReadConcat DEF CondRule
<1>4. ReadOn(RepeatRule, s, s)
  <2>1. ReadOn(<<Enter, Stats, Tok, Expr, LeaveRepeat>>, s, s)
    BY <1>1, <1>2, OpsAreOps, ReadFive
  <2> QED
    BY <2>1 DEF RepeatRule
<1>5. ASSUME NEW ns \in SUBSET Names
      PROVE  ReadOn(FornumRule(ns), s, s) /\ ReadOn(ForlistRule(ns), s, s)
             /\ ReadOn(LocalRule(ns), s, s)
  <2>1. ReadsTo(Define(ns), e, e) /\ ReadsTo(Declare(ns), e, e) /\ ReadsTo(Define(ns), s, s)
    BY <1>1, ReadStays
  <2>2. Define(ns) \in Op /\ Declare(ns) \in Op /\ Bind \in Op
    BY OpsAreOps
  <2>3. ReadOn(FornumRule(ns), s, s)
    <3>1. ReadOn(<<Enter, Expr, Define(ns), Tok>>, s, e)
      BY <1>1, <1>2, <2>1, <2>2, OpsAreOps, ReadFour
    <3> QED
      BY <1>1, <3>1, ReadConcat DEF FornumRule
  <2>4. ReadOn(ForlistRule(ns), s, s)
    <3>1. ReadOn(<<Enter, Declare(ns), Expr, Bind, Tok>>, s, e)
      BY <1>1, <1>2, <2>1, <2>2, OpsAreOps, ReadFive
    <3> QED
      BY <1>1, <3>1, ReadConcat DEF ForlistRule
  <2>5. ReadOn(LocalRule(ns), s, s)
    <3>1. ReadOn(<<Expr, Define(ns)>>, s, s)
      BY <1>2, <2>1, <2>2, OpsAreOps, ReadTwo
    <3> QED
      BY <3>1 DEF LocalRule
  <2> QED
    BY <2>3, <2>4, <2>5
<1> QED
  BY <1>3, <1>4, <1>5

LEMMA TypeReads ==
    ASSUME NEW s \in Within
    PROVE  Type \in Op /\ ReadsTo(Type, s, s)
<1>1. <<Expr>> \in LuaCode
  BY DEF LuaCode
<1> QED
  BY <1>1, OpsAreOps, ReadStays DEF Type

LEMMA BodiesRead ==
    ASSUME NEW s \in Within, NEW ns \in SUBSET Names
    PROVE  ReadOn(LuaBody(ns), s, s) /\ ReadOn(TerraBody(ns), s, s)
<1> DEFINE e == Inner(s)
<1>1. e \in Within /\ ReadsTo(Enter, s, e) /\ ReadOn(Rest, e, s)
  BY ReadPairs, RestReads
<1> HIDE DEF e
<1>2. /\ ReadsTo(Define(ns), e, e) /\ ReadsTo(Declare(ns), e, e) /\ ReadsTo(Bind, e, e)
      /\ ReadsTo(Type, e, e) /\ Type \in Op /\ e \in Reading /\ s \in Reading
  BY <1>1, ReadStays, TypeReads
<1>3. Define(ns) \in Op /\ Declare(ns) \in Op /\ Bind \in Op
  BY OpsAreOps
<1>4. ReadOn(LuaBody(ns), s, s)
  <2>1. ReadOn(<<Enter, Define(ns)>>, s, e)
    BY <1>1, <1>2, <1>3, OpsAreOps, ReadTwo
  <2> QED
    BY <1>1, <2>1, ReadConcat DEF LuaBody
<1>5. ReadOn(TerraBody(ns), s, s)
  <2>1. ReadOn(<<Enter, Declare(ns), Type, Bind>>, s, e)
    BY <1>1, <1>2, <1>3, OpsAreOps, ReadFour
  <2> QED
    BY <1>1, <2>1, ReadConcat DEF TerraBody
<1> QED
  BY <1>4, <1>5

LEMMA QuotesRead ==
    ASSUME NEW s \in Within
    PROVE  ReadOn(QuoteExp, s, s) /\ ReadOn(QuoteStats(<<>>), s, s) /\ ReadOn(QuoteStats(In), s, s)
<1> DEFINE t == Opened(s, "terra")
<1>1. /\ t \in Within /\ Last(t) = "terra" /\ ReadsTo(EnterTerra, s, t)
      /\ ReadsTo(LeaveTerra({}), t, s) /\ LeaveTerra({}) \in Op
  <2>1. {} \in SUBSET Names
    OBVIOUS
  <2> QED
    BY <2>1, ReadPairs, OpsAreOps
<1> HIDE DEF t
<1> DEFINE e == Inner(t)
<1>2. /\ e \in Within /\ Last(e) # "expression" /\ Listed(e) \in Reading
      /\ ReadsTo(Enter, t, e) /\ ReadsTo(Leave, Listed(e), t) /\ ReadsTo(Leave, e, t)
  BY <1>1, ReadPairs
<1> HIDE DEF e
<1>3. /\ e \in Reading /\ t \in Reading /\ s \in Reading
      /\ ReadsTo(Expr, t, t) /\ ReadsTo(Stats, e, Listed(e))
      /\ ReadsTo(Tok, Listed(e), e) /\ ReadsTo(Expr, e, e) /\ ReadsTo(Tok, e, e)
  BY <1>1, <1>2, ReadStays
<1>4. ReadOn(QuoteExp, s, s)
  <2>1. ReadOn(<<EnterTerra, Expr, LeaveTerra({})>>, s, s)
    BY <1>1, <1>3, OpsAreOps, ReadThree
  <2> QED
    BY <2>1 DEF QuoteExp
<1>5. ReadOn(<<EnterTerra, Enter, Stats>>, s, Listed(e))
  BY <1>1, <1>2, <1>3, OpsAreOps, ReadThree
<1>6. ASSUME NEW rest, NEW r \in {e, Listed(e)}, ReadOn(rest, Listed(e), r)
      PROVE  ReadOn(QuoteStats(rest), s, s)
  <2>1. ReadOn(<<Leave, LeaveTerra({})>>, r, s)
    BY <1>1, <1>2, <1>3, OpsAreOps, ReadTwo
  <2>2. ReadOn(<<EnterTerra, Enter, Stats>> \o rest, s, r)
    BY <1>5, <1>6, ReadConcat
  <2> QED
    BY <2>1, <2>2, ReadConcat DEF QuoteStats
<1>7. ReadOn(QuoteStats(<<>>), s, s)
  <2>1. ReadOn(<<>>, Listed(e), Listed(e))
    BY <1>2, ReadNothing
  <2> QED
    BY <1>6, <2>1
<1>8. ReadOn(QuoteStats(In), s, s)
  <2>1. ReadOn(<<Tok, Expr, Tok>>, Listed(e), e)
    BY <1>2, <1>3, OpsAreOps, ReadThree
  <2> QED
    BY <1>6, <2>1 DEF In
<1> QED
  BY <1>4, <1>7, <1>8

(* Lua code inside of Terra: where it is left nothing has been imported or *)
(* its statements have just ended.                                         *)
LEMMA EmbeddedReads ==
    ASSUME NEW s \in Within, NEW ops \in LuaCode, NEW n \in Nat
    PROVE  \E kind \in {"list", "expression"} :
               ReadOn(ops \o <<Resume(n)>>, Opened(s, kind), s)
<1>1. s \in Reading /\ Resume(n) \in Op
  BY OpsAreOps, ReadStays
<1>2. CASE ops = <<Stats>>
  <2> DEFINE t == Opened(s, "list")
  <2>1. /\ t \in Within /\ Last(t) = "list" /\ Closed(Listed(t)) = s
        /\ Listed(t) \in Reading /\ Listed(t).bs # <<>> /\ Listed(t).plain
    BY ReadOpens
  <2> HIDE DEF t
  <2>2. ReadsTo(Resume(n), Listed(t), s)
    BY <2>1 DEF ReadsTo, Resume
  <2>3. ReadsTo(Stats, t, Listed(t)) /\ t \in Reading
    BY <2>1, ReadStays
  <2>4. ReadOn(<<Stats>>, t, Listed(t)) /\ ReadOn(<<Resume(n)>>, Listed(t), s)
    BY <1>1, <2>1, <2>2, <2>3, OpsAreOps, ReadOne
  <2>5. ReadOn(ops \o <<Resume(n)>>, t, s)
    BY <1>2, <2>4, ReadConcat
  <2> QED
    BY <2>5 DEF t
<1>3. CASE ops # <<Stats>>
  <2> DEFINE t == Opened(s, "expression")
  <2>1. t \in Within /\ Last(t) = "expression" /\ Closed(t) = s
    BY ReadOpens
  <2> HIDE DEF t
  <2>2. t \in Reading /\ t.bs # <<>> /\ ReadsTo(Expr, t, t)
    BY <2>1, ReadStays
  <2>3. ReadsTo(Resume(n), t, s)
    BY <2>1, <2>2 DEF ReadsTo, Resume
  <2>4. ReadOn(<<Expr>>, t, t) /\ ReadOn(<<Resume(n)>>, t, s)
    BY <1>1, <2>2, <2>3, OpsAreOps, ReadOne
  <2>5. ReadOn(ops, t, t)
    BY <1>3, <2>1, <2>4, QuotesRead DEF LuaCode
  <2>6. ReadOn(ops \o <<Resume(n)>>, t, s)
    BY <2>4, <2>5, ReadConcat
  <2> QED
    BY <2>6 DEF t
<1> QED
  BY <1>2, <1>3

LEMMA DefinitionReads ==
    ASSUME NEW s \in Within, NEW d \in Definables
    PROVE  ReadOn(Definition(d), s, s)
<1>1. /\ d.kind \in {"terra", "struct", "declared"} /\ d.local \in BOOLEAN
      /\ d.name \in Names /\ d.params \in SUBSET Names /\ s \in Reading
  BY ReadStays DEF Definables
<1> DEFINE a == IF d.local THEN <<>> ELSE <<Ref(d.name)>>
           b == CASE d.kind = "terra" -> TerraBody(d.params)
                  [] d.kind = "struct" -> <<Type, Tok>>
                  [] d.kind = "declared" -> <<>>
<1>2. ReadOn(a, s, s)
  <2>1. CASE d.local
    BY <1>1, <2>1, ReadNothing
  <2>2. CASE ~d.local
    <3>1. ReadOn(<<Ref(d.name)>>, s, s)
      BY <1>1, OpsAreOps, ReadStays, ReadOne
    <3> QED
      BY <2>2, <3>1
  <2> QED
    BY <2>1, <2>2
<1>3. ReadOn(b, s, s)
  <2>1. CASE d.kind = "terra"
    BY <1>1, <2>1, BodiesRead
  <2>2. CASE d.kind = "struct"
    <3>1. ReadOn(<<Type, Tok>>, s, s)
      BY <1>1, OpsAreOps, ReadStays, TypeReads, ReadTwo
    <3> QED
      BY <2>2, <3>1
  <2>3. CASE d.kind = "declared"
    BY <1>1, <2>3, ReadNothing
  <2> QED
    BY <1>1, <2>1, <2>2, <2>3
<1>4. ReadOn(a \o b, s, s)
  <2> HIDE DEF a, b
  <2> QED BY <1>2, <1>3, ReadConcat
<1> QED
  BY <1>4 DEF Definition

(* What is done between the two ends of a construct.                       *)
LEMMA ConstructReads ==
    ASSUME NEW s \in Within, NEW ns \in SUBSET Names,
           NEW a, ReadOn(a, Opened(s, "terra"), Opened(s, "terra")),
           NEW b, ReadOn(b, Opened(s, "terra"), Opened(s, "terra"))
    PROVE  /\ ReadOn(<<EnterTerra>> \o a \o <<LeaveTerra(ns)>>, s, s)
           /\ ReadOn(<<EnterTerra>> \o a \o b \o <<LeaveTerra(ns)>>, s, s)
<1> DEFINE t == Opened(s, "terra")
<1>1. t \in Within /\ ReadsTo(EnterTerra, s, t) /\ ReadsTo(LeaveTerra(ns), t, s)
  BY ReadPairs
<1>2. ReadOn(a, t, t) /\ ReadOn(b, t, t)
  OBVIOUS
<1> HIDE DEF t
<1>3. EnterTerra \in Op /\ LeaveTerra(ns) \in Op /\ s \in Reading /\ t \in Reading
  BY <1>1, OpsAreOps, ReadStays
<1>4. ReadOn(<<EnterTerra>>, s, t) /\ ReadOn(<<LeaveTerra(ns)>>, t, s)
  BY <1>1, <1>3, ReadOne
<1>5. ReadOn(<<EnterTerra>> \o a, s, t)
  BY <1>2, <1>4, ReadConcat
<1>6. ReadOn(<<EnterTerra>> \o a \o b, s, t)
  BY <1>2, <1>5, ReadConcat
<1> QED
  BY <1>4, <1>5, <1>6, ReadConcat

LEMMA ExtensionReads ==
    ASSUME NEW s \in Within, NEW local \in BOOLEAN
    PROVE  ReadOn(<<EnterTerra, Language(local)>>, s, s)
<1> DEFINE t == Opened(s, "terra")
<1>1. t \in Within /\ ReadsTo(EnterTerra, s, t) /\ ReadsTo(Language(local), t, s)
  BY ReadPairs
<1> HIDE DEF t
<1>2. s \in Reading /\ t \in Reading /\ EnterTerra \in Op /\ Language(local) \in Op
  BY <1>1, OpsAreOps, ReadStays
<1> QED
  BY <1>1, <1>2, ReadTwo
-----------------------------------------------------------------------------
(* What is read agrees with the open blocks: imports are in lists only.    *)
Fits(bs, bl) ==
    /\ Len(bs) = Len(bl)
    /\ \A k \in 1 .. Len(bl) : bs[k] = "terra" <=> bl[k].terra
    /\ \A k \in 1 .. Len(bl) : bl[k].exts > 0 => bs[k] = "list"

ReadC(s) ==
    /\ s \in Reading /\ Fits(s.bs, blocks) /\ (s.plain => token = Plain)
    /\ token \in {Plain} \cup Keywords
    /\ status = "parsing" => \E u \in Reading : ReadOn(todo, s, u)

ReadInv == \E s \in Reading : ReadC(s)

LEMMA NextRead ==
    ASSUME NEW r \in Reading, Fits(r.bs, blocks'), r.plain => token' = Plain,
           token' \in {Plain} \cup Keywords,
           status' = "parsing" => \E u \in Reading : ReadOn(todo', r, u)
    PROVE  ReadInv'
BY DEF ReadInv, ReadC

LEMMA FitsPushed ==
    ASSUME NEW s \in Within, NEW bl \in Seq(BlockSet), Fits(s.bs, bl),
           NEW b \in BOOLEAN, NEW kind \in {"terra", "list", "expression"}, kind = "terra" <=> b
    PROVE  Fits(Opened(s, kind).bs, Append(bl, Block(b)))
<1>1. PICK q \in Seq({"terra", "list", "expression"}) : q = s.bs
  BY DEF Within, Reading
<1>2. PICK n \in Nat : n = Len(bl) /\ n = Len(q)
  BY <1>1 DEF Fits
<1>3. /\ Len(Append(q, kind)) = n + 1 /\ Append(q, kind)[n + 1] = kind
      /\ \A k \in 1 .. n : Append(q, kind)[k] = q[k]
  BY <1>1, <1>2
<1>4. /\ Len(Append(bl, Block(b))) = n + 1 /\ Append(bl, Block(b))[n + 1] = Block(b)
      /\ \A k \in 1 .. n : Append(bl, Block(b))[k] = bl[k]
  <2> DEFINE x == Block(b)
  <2>1. x \in BlockSet
    BY DEF Block, BlockSet
  <2> HIDE DEF x
  <2>2. /\ Len(Append(bl, x)) = Len(bl) + 1 /\ Append(bl, x)[Len(bl) + 1] = x
        /\ \A k \in 1 .. Len(bl) : Append(bl, x)[k] = bl[k]
    BY <2>1, Pushed
  <2> QED
    BY <1>2, <2>2 DEF x
<1>5. Block(b).terra = b /\ Block(b).exts = 0
  BY DEF Block
<1>6. \A k \in 1 .. n + 1 : k = n + 1 \/ k \in 1 .. n
  BY <1>2
<1>7. \A k \in 1 .. n : (q[k] = "terra" <=> bl[k].terra) /\ (bl[k].exts > 0 => q[k] = "list")
  BY <1>1, <1>2 DEF Fits
<1> DEFINE p == Append(q, kind)
           c == Append(bl, Block(b))
<1>8. /\ Len(p) = n + 1 /\ p[n + 1] = kind /\ Len(c) = n + 1 /\ c[n + 1] = Block(b)
      /\ \A k \in 1 .. n : p[k] = q[k] /\ c[k] = bl[k]
  BY <1>3, <1>4
<1>9. Opened(s, kind).bs = p
  BY <1>1 DEF Opened
<1> HIDE DEF p, c
<1>10. \A k \in 1 .. n + 1 : (p[k] = "terra" <=> c[k].terra) /\ (c[k].exts > 0 => p[k] = "list")
  <2> SUFFICES ASSUME NEW k \in 1 .. n + 1
               PROVE  (p[k] = "terra" <=> c[k].terra) /\ (c[k].exts > 0 => p[k] = "list")
    OBVIOUS
  <2>1. CASE k = n + 1
    <3>1. ~(0 > 0)
      OBVIOUS
    <3> QED
      BY <1>5, <1>8, <2>1, <3>1
  <2>2. CASE k \in 1 .. n
    BY <1>7, <1>8, <2>2
  <2> QED
    BY <1>6, <2>1, <2>2
<1>11. Fits(p, c)
  BY <1>8, <1>10 DEF Fits
<1> QED
  BY <1>9, <1>11 DEF c

LEMMA FitsPopped ==
    ASSUME NEW s \in Reading, s.bs # <<>>, NEW bl \in Seq(BlockSet), Fits(s.bs, bl)
    PROVE  Fits(Closed(s).bs, Pop(bl))
<1>1. PICK q \in Seq({"terra", "list", "expression"}) : q = s.bs
  BY DEF Reading
<1>2. PICK n \in Nat : n + 1 = Len(bl) /\ n + 1 = Len(q)
  <2>1. Len(q) \in Nat /\ Len(q) # 0 /\ Len(q) = Len(bl)
    BY <1>1 DEF Fits
  <2>2. Len(q) - 1 \in Nat /\ (Len(q) - 1) + 1 = Len(q)
    BY <2>1
  <2> QED
    BY <2>1, <2>2
<1>3. (n + 1) - 1 = n
  OBVIOUS
<1>4. Len(Pop(q)) = n /\ \A k \in 1 .. n : Pop(q)[k] = q[k]
  BY <1>1, <1>2, <1>3 DEF Pop
<1>5. Len(Pop(bl)) = n /\ \A k \in 1 .. n : Pop(bl)[k] = bl[k]
  BY <1>2, <1>3 DEF Pop
<1>6. \A k \in 1 .. n : (q[k] = "terra" <=> bl[k].terra) /\ (bl[k].exts > 0 => q[k] = "list")
  <2>1. \A k \in 1 .. n : k \in 1 .. n + 1
    OBVIOUS
  <2> QED
    BY <1>1, <1>2, <2>1 DEF Fits
<1>7. Closed(s).bs = Pop(q)
  BY <1>1 DEF Closed
<1> QED
  <2> DEFINE popped == Pop(q)
             left == Pop(bl)
  <2> HIDE DEF popped, left
  <2>1. Len(popped) = n /\ \A k \in 1 .. n : popped[k] = q[k]
    BY <1>4 DEF popped
  <2>2. Len(left) = n /\ \A k \in 1 .. n : left[k] = bl[k]
    BY <1>5 DEF left
  <2>3. Fits(popped, left)
    BY <1>6, <2>1, <2>2 DEF Fits
  <2> QED
    BY <1>7, <2>3, Zenon DEF popped, left

LEMMA FitsRenamed ==
    ASSUME NEW bs, NEW bl, Fits(bs, bl), NEW cl, Renamed(bl, cl)
    PROVE  Fits(bs, cl)
BY DEF Fits, Renamed

(* The innermost block.                                                    *)
LEMMA FitsTop ==
    ASSUME NEW ok \in BOOLEAN, InvC(ok), NEW s, ReadC(s)
    PROVE  /\ s \in Reading /\ (s.bs = <<>> <=> blocks = <<>>)
           /\ blocks \in Seq(BlockSet) /\ Fits(s.bs, blocks)
           /\ blocks # <<>> => /\ Last(s) = "terra" <=> inTerra > 0
                               /\ Last(s) = "terra" <=> Top.terra
                               /\ Top.exts > 0 => Last(s) = "list"
                               /\ Top.exts \in Nat
<1>1. s \in Reading /\ blocks \in Seq(BlockSet) /\ Fits(s.bs, blocks)
  BY CurIs DEF ReadC
<1>2. PICK q \in Seq({"terra", "list", "expression"}) : q = s.bs
  BY <1>1 DEF Reading
<1>3. Len(q) = Len(blocks)
  BY <1>1, <1>2 DEF Fits
<1>4. q = <<>> <=> blocks = <<>>
  BY <1>1, <1>3
<1>5. ASSUME blocks # <<>>
      PROVE  /\ Last(s) = "terra" <=> inTerra > 0
             /\ Last(s) = "terra" <=> Top.terra
             /\ Top.exts > 0 => Last(s) = "list"
             /\ Top.exts \in Nat
  <2>1. PICK n \in Nat : n = Len(blocks) /\ n \in 1 .. n
    BY <1>1, <1>5
  <2>2. Last(s) = q[n] /\ Top = blocks[n]
    BY <1>2, <1>3, <2>1 DEF Last, Top
  <2>3. (q[n] = "terra" <=> blocks[n].terra) /\ (blocks[n].exts > 0 => q[n] = "list")
    BY <1>1, <1>2, <2>1 DEF Fits
  <2>4. Tags(blocks)[n] = 1 <=> inTerra > 0
    BY <1>5, <2>1, CurIs DEF Good
  <2>5. (Tags(blocks)[n] = 1 <=> blocks[n].terra) /\ blocks[n] \in BlockSet
    BY <1>1, <2>1, TagsType
  <2>6. blocks[n].exts \in Nat
    BY <2>5 DEF BlockSet
  <2> QED
    BY <2>2, <2>3, <2>4, <2>5, <2>6
<1> QED
  BY <1>1, <1>2, <1>4, <1>5

(* What the first operation does.                                          *)
LEMMA FirstReads ==
    ASSUME NEW s, ReadC(s), status = "parsing", todo # <<>>
    PROVE  /\ Head(todo) \in Op /\ todo = <<Head(todo)>> \o Tail(todo)
           /\ \E t \in Reading : /\ ReadsTo(Head(todo), s, t)
                                 /\ \E u \in Reading : ReadOn(Tail(todo), t, u)
<1>1. PICK u \in Reading : ReadOn(todo, s, u)
  BY DEF ReadC
<1> QED
  BY <1>1, ReadHead

LEMMA FirstIsStill ==
    ASSUME NEW s, ReadC(s), status = "parsing", todo # <<>>, Head(todo)[1] \in StillTags
    PROVE  \E u \in Reading : ReadOn(Tail(todo), Back(s), u)
<1>1. PICK t \in Reading : /\ ReadsTo(Head(todo), s, t)
                           /\ \E u \in Reading : ReadOn(Tail(todo), t, u)
  BY FirstReads
<1>2. t = Back(s)
  BY <1>1 DEF ReadsTo, StillTags
<1> QED
  BY <1>1, <1>2

(* Statements and languages go on as if they had just begun.               *)
LEMMA FirstAgain ==
    ASSUME NEW s, ReadC(s), status = "parsing", todo # <<>>, Head(todo)[1] \in {"stats", "language"}
    PROVE  /\ s.bs # <<>> /\ Back(s) \in Within
           /\ \E u \in Reading : ReadOn(todo, Back(s), u)
           /\ Head(todo)[1] = "stats" => /\ Last(s) # "expression"
                                         /\ \E u \in Reading : ReadOn(Tail(todo), Listed(s), u)
<1>1. PICK t \in Reading : /\ ReadsTo(Head(todo), s, t)
                           /\ \E u \in Reading : ReadOn(Tail(todo), t, u)
  BY FirstReads
<1>2. PICK u \in Reading : ReadOn(Tail(todo), t, u)
  BY <1>1
<1>3. /\ s.bs # <<>>
      /\ \/ Head(todo)[1] = "stats" /\ Last(s) # "expression" /\ t = Listed(s)
         \/ Head(todo)[1] = "language" /\ Last(s) = "terra" /\ t = Closed(s)
  BY <1>1 DEF ReadsTo, StillTags
<1>4. s \in Reading
  BY DEF ReadC
<1>5. /\ Back(s) \in Within /\ Back(s) \in Reading /\ Back(s).bs = s.bs /\ Last(Back(s)) = Last(s)
      /\ Listed(Back(s)) = Listed(s) /\ Closed(Back(s)) = Closed(s)
  BY <1>3, <1>4, Reads
<1>6. ReadsTo(Head(todo), Back(s), t)
  BY <1>3, <1>5 DEF ReadsTo
<1>7. ReadOn(<<Head(todo)>> \o Tail(todo), Back(s), u)
  BY <1>2, <1>5, <1>6, FirstReads, ReadFirst
<1>8. todo = <<Head(todo)>> \o Tail(todo)
  BY FirstReads
<1>9. ReadOn(todo, Back(s), u)
  BY <1>7, <1>8
<1> QED
  BY <1>2, <1>3, <1>5, <1>9

LEMMA TailRead ==
    ASSUME NEW t, NEW u, ReadOn(Tail(todo), t, u), Then(<<>>)
    PROVE  ReadOn(todo', t, u)
<1>1. Tail(todo) \in Seq(Op) /\ todo' = <<>> \o Tail(todo)
  BY DEF ReadOn, Then
<1>2. todo' = Tail(todo)
  BY <1>1
<1> QED
  BY <1>2

(* The blocks are the same, or other names are in the last one.            *)
LEMMA ReadBack ==
    ASSUME NEW s, ReadC(s), blocks' = blocks \/ Renamed(blocks, blocks'),
           token' \in {Plain} \cup Keywords,
           status' = "parsing" => \E u \in Reading : ReadOn(todo', Back(s), u)
    PROVE  ReadInv'
<1>1. s \in Reading /\ Fits(s.bs, blocks)
  BY DEF ReadC
<1>2. Back(s) \in Reading /\ Back(s).bs = s.bs /\ ~Back(s).plain
  BY <1>1, Reads
<1>3. Fits(Back(s).bs, blocks')
  BY <1>1, <1>2, FitsRenamed
<1> QED
  BY <1>2, <1>3, NextRead

LEMMA TokensTyped ==
    ASSUME token \in {Plain} \cup Keywords, [Next]_vars
    PROVE  token' \in {Plain} \cup Keywords
<1>1. \A en : Lexed(en) \subseteq {Plain} \cup Keywords
  BY DEF Lexed
<1>2. LexNext => token' \in {Plain} \cup Keywords
  BY <1>1 DEF LexNext
<1>3. CASE UNCHANGED token \/ LexNext \/ token' = Plain
  BY <1>2, <1>3
<1>4. CASE \/ SyntaxError \/ TooManyLevels \/ ParseAgain
           \/ EnterBlock \/ Leaves \/ Defines \/ Refers \/ Token \/ LeaveLevel
           \/ EnterTerraCnt \/ LeaveTerraCnt \/ EmbeddedCode \/ ResumeTerra
  BY <1>3, <1>4 DEF SyntaxError, Fails, TooManyLevels, ParseAgain, EnterBlock, Leaves, Defines,
     Refers, Token, LeaveLevel, EnterTerraCnt, LeaveTerraCnt, EmbeddedCode, ResumeTerra
<1>5. ASSUME NEW l \in Languages, Import(l) PROVE token' \in {Plain} \cup Keywords
  BY <1>5 DEF Import
<1>6. CASE \/ LanguageReads \/ LanguageEmbeds \/ LanguageReturns \/ CheckReturns1
           \/ EndStatements \/ ExprStatement \/ CommonStatement \/ FunctionStatement
           \/ TerraStatement \/ EscapeStatement \/ EndParse
  BY <1>3, <1>6 DEF LanguageReads, LanguageEmbeds, LanguageReturns, CheckReturns1, EndStatements,
     ExprStatement, CommonStatement, FunctionStatement, TerraStatement, EscapeStatement, EndParse
<1>7. CASE LanguageStatement
  BY <1>1, <1>3, <1>7 DEF LanguageStatement
<1>8. CASE \/ \E n \in Names : Variable(n)
           \/ Literal \/ FunctionOperand \/ TerraOperand \/ EscapeOperand \/ LanguageOperand
  BY <1>3, <1>8 DEF Variable, Literal, FunctionOperand, TerraOperand, EscapeOperand, OperandIs,
     LanguageOperand
<1>9. CASE UNCHANGED vars
  BY <1>9 DEF vars
<1> QED
  BY <1>4, <1>5, <1>6, <1>7, <1>8, <1>9 DEF Next
-----------------------------------------------------------------------------
(* Blocks and names.                                                       *)
LEMMA BlocksRead ==
    ASSUME NEW ok \in BOOLEAN, InvC(ok), NEW s, ReadC(s), token' \in {Plain} \cup Keywords,
           EnterBlock \/ EnterTerraCnt \/ EmbeddedCode \/ Defines
    PROVE  ReadInv'
<1>1. /\ status = "parsing" /\ todo # <<>>
      /\ Head(todo)[1] \in {"enter", "enterterra", "embedded", "define", "declare", "bind"}
      /\ token' = token
  BY DEF EnterBlock, EnterTerraCnt, EmbeddedCode, Defines, Doing
<1>2. s \in Reading /\ blocks \in Seq(BlockSet) /\ Fits(s.bs, blocks)
      /\ (s.bs = <<>> <=> blocks = <<>>)
  BY FitsTop
<1>3. /\ Back(s) \in Reading /\ Back(s).bs = s.bs /\ ~Back(s).plain
      /\ s.bs # <<>> => Back(s) \in Within /\ Last(Back(s)) = Last(s)
  BY <1>2, Reads
<1>4. ASSUME NEW kind \in {"terra", "list", "expression"}, NEW b \in BOOLEAN, s.bs # <<>>,
             kind = "terra" <=> b, blocks' = Append(blocks, Block(b)),
             NEW r, r = Opened(s, kind),
             status' = "parsing" => \E u \in Reading : ReadOn(todo', r, u)
      PROVE  ReadInv'
  <2>1. r = Opened(Back(s), kind)
    BY <1>3, <1>4 DEF Opened
  <2>2. r \in Reading /\ ~r.plain
    BY <1>3, <1>4, <2>1, ReadOpens DEF Within
  <2>3. Fits(r.bs, blocks')
    BY <1>2, <1>3, <1>4, <2>1, FitsPushed
  <2> QED
    BY <1>4, <2>2, <2>3, NextRead
<1>5. ASSUME EnterBlock PROVE ReadInv'
  <2>1. Head(todo)[1] = "enter" /\ Then(<<>>) /\ blocks' = Append(blocks, Block(inTerra > 0))
    BY <1>5 DEF EnterBlock, Doing
  <2>2. PICK t \in Reading : /\ ReadsTo(Head(todo), s, t)
                             /\ \E u \in Reading : ReadOn(Tail(todo), t, u)
    BY <1>1, FirstReads
  <2>3. t = Inner(s) /\ s.bs # <<>>
    BY <2>1, <2>2 DEF ReadsTo, StillTags
  <2>4. \E u \in Reading : ReadOn(todo', t, u)
    BY <2>1, <2>2, TailRead
  <2>5. PICK kind \in {"terra", "list"} : kind = IF Last(s) = "terra" THEN "terra" ELSE "list"
    OBVIOUS
  <2>6. PICK b \in BOOLEAN : b = (inTerra > 0)
    <3>1. (inTerra > 0) \in BOOLEAN
      OBVIOUS
    <3> QED
      BY <3>1, Zenon
  <2>7. kind = "terra" <=> b
    BY <1>2, <2>3, <2>5, <2>6, FitsTop
  <2>8. t = Opened(s, kind)
    BY <2>3, <2>5 DEF Inner
  <2>9. blocks' = Append(blocks, Block(b))
    BY <2>1, <2>6
  <2> QED
    BY <1>4, <2>3, <2>4, <2>7, <2>8, <2>9
<1>6. ASSUME EnterTerraCnt PROVE ReadInv'
  <2>1. Head(todo)[1] = "enterterra" /\ Then(<<>>) /\ blocks' = Append(blocks, Block(TRUE))
    BY <1>6 DEF EnterTerraCnt, Doing
  <2>2. PICK t \in Reading : /\ ReadsTo(Head(todo), s, t)
                             /\ \E u \in Reading : ReadOn(Tail(todo), t, u)
    BY <1>1, FirstReads
  <2>3. t = Opened(s, "terra") /\ s.bs # <<>>
    BY <2>1, <2>2 DEF ReadsTo, StillTags
  <2>4. \E u \in Reading : ReadOn(todo', t, u)
    BY <2>1, <2>2, TailRead
  <2>5. TRUE \in BOOLEAN /\ ("terra" = "terra" <=> TRUE)
    OBVIOUS
  <2> QED
    BY <1>4, <2>1, <2>3, <2>4, <2>5
<1>7. ASSUME EmbeddedCode PROVE ReadInv'
  <2>1. Head(todo)[1] = "embedded"
    BY <1>7 DEF EmbeddedCode, Doing
  <2>2. blocks # <<>> /\ Arg \in LuaCode /\ inTerra \in Nat
    BY <1>1, <2>1, FirstStays, CurIs
  <2>3. blocks' = Append(blocks, Block(FALSE))
        /\ todo' = Arg \o <<Resume(inTerra)>> \o Tail(todo)
    BY <1>7 DEF EmbeddedCode, Then
  <2>4. PICK u \in Reading : ReadOn(Tail(todo), Back(s), u)
    BY <1>1, <2>1, FirstIsStill DEF StillTags
  <2>5. Back(s) \in Within /\ s.bs # <<>>
    BY <1>2, <1>3, <2>2
  <2>6. PICK kind \in {"list", "expression"} :
            ReadOn(Arg \o <<Resume(inTerra)>>, Opened(Back(s), kind), Back(s))
    BY <2>2, <2>5, EmbeddedReads
  <2>7. ReadOn(todo', Opened(Back(s), kind), u)
    BY <2>3, <2>4, <2>6, ReadConcat
  <2>8. Opened(Back(s), kind) = Opened(s, kind)
    BY <1>3 DEF Opened
  <2>9. FALSE \in BOOLEAN /\ (kind = "terra" <=> FALSE)
    BY <2>6
  <2> QED
    BY <1>4, <2>3, <2>5, <2>7, <2>8, <2>9
<1>8. ASSUME Defines PROVE ReadInv'
  <2>1. Head(todo)[1] \in {"define", "declare", "bind"} /\ Then(<<>>)
    BY <1>8 DEF Defines, Doing
  <2>2. \E u \in Reading : ReadOn(Tail(todo), Back(s), u)
    BY <1>1, <2>1, FirstIsStill DEF StillTags
  <2>3. \E u \in Reading : ReadOn(todo', Back(s), u)
    BY <2>1, <2>2, TailRead
  <2> QED
    BY <1>8, <2>3, DefinesStep, ReadBack
<1> QED
  BY <1>5, <1>6, <1>7, <1>8

(* Where a block is left, the token is plain, nothing has been imported or *)
(* it is the block of a repeat loop.                                       *)
LEMMA LeavingReads ==
    ASSUME NEW ok \in BOOLEAN, InvC(ok), NEW s, ReadC(s), token' \in {Plain} \cup Keywords,
           Leaves \/ LeaveTerraCnt \/ ResumeTerra
    PROVE  /\ ReadInv' /\ blocks # <<>>
           /\ token = Plain \/ Top.exts = 0 \/ (Doing("leave") /\ Arg = "repeat")
<1>1. /\ status = "parsing" /\ todo # <<>> /\ Then(<<>>) /\ token' = token
      /\ Head(todo)[1] \in {"leave", "leaveterra", "resume"}
  BY DEF Leaves, LeaveTerraCnt, ResumeTerra, Doing
<1>2. s \in Reading /\ blocks \in Seq(BlockSet) /\ Fits(s.bs, blocks)
      /\ (s.bs = <<>> <=> blocks = <<>>) /\ (s.plain => token = Plain)
  BY FitsTop DEF ReadC
<1>3. PICK t \in Reading : /\ ReadsTo(Head(todo), s, t)
                           /\ \E u \in Reading : ReadOn(Tail(todo), t, u)
  BY <1>1, FirstReads
<1>4. /\ s.bs # <<>> /\ t = Closed(s)
      /\ \/ Head(todo)[1] = "leave" /\ Head(todo)[2] = "repeat"
         \/ Last(s) = "terra" \/ Last(s) = "expression" \/ s.plain
  BY <1>1, <1>3 DEF ReadsTo, StillTags
<1>5. ~t.plain
  BY <1>4 DEF Closed
<1>6. Fits(t.bs, Pop(blocks))
  BY <1>2, <1>4, FitsPopped
<1>7. blocks' = Pop(blocks) \/ Renamed(Pop(blocks), blocks')
  BY LeaveTerraStep DEF Leaves, ResumeTerra, LeaveBlock
<1>8. Fits(t.bs, blocks')
  BY <1>6, <1>7, FitsRenamed
<1>9. \E u \in Reading : ReadOn(todo', t, u)
  BY <1>1, <1>3, TailRead
<1>10. ReadInv'
  BY <1>5, <1>8, <1>9, NextRead
<1>11. blocks # <<>>
  BY <1>2, <1>4
<1>12. Last(s) = "terra" \/ Last(s) = "expression" => Top.exts = 0
  <2>1. (Top.exts > 0 => Last(s) = "list") /\ Top.exts \in Nat
    BY <1>11, FitsTop
  <2> QED
    BY <2>1
<1> QED
  BY <1>1, <1>2, <1>4, <1>10, <1>11, <1>12 DEF Arg, Doing

LEMMA ImportReads ==
    ASSUME NEW ok \in BOOLEAN, InvC(ok), NEW s, ReadC(s), token' \in {Plain} \cup Keywords,
           NEW l \in Languages, Import(l)
    PROVE  ReadInv'
<1>1. /\ status = "parsing" /\ todo # <<>> /\ Head(todo)[1] = "stats"
      /\ todo' = todo /\ inTerra = 0
  BY DEF Import, Doing
<1>2. s \in Reading /\ blocks \in Seq(BlockSet) /\ Fits(s.bs, blocks) /\ blocks # <<>>
      /\ (Last(s) = "terra" <=> inTerra > 0)
  BY FitsTop, ImportStep
<1>3. /\ s.bs # <<>> /\ Last(s) # "expression"
      /\ \E u \in Reading : ReadOn(todo, Back(s), u)
  BY <1>1, FirstAgain
<1>4. Last(s) = "list"
  <2>1. Last(s) \in {"terra", "list", "expression"}
    BY <1>2, <1>3, Reads
  <2>2. ~(inTerra > 0)
    BY <1>1
  <2> QED
    BY <1>2, <1>3, <2>1, <2>2
<1>5. Back(s) \in Reading /\ Back(s).bs = s.bs /\ ~Back(s).plain
  BY <1>2, Reads
<1>6. PICK n \in Nat : n = Len(blocks) /\ n \in 1 .. n
  BY <1>2
<1>7. n = Len(s.bs)
  BY <1>2, <1>6 DEF Fits
<1>8. blocks[n] \in BlockSet
  BY <1>2, <1>6
<1> DEFINE x == [blocks[n] EXCEPT !.exts = @ + 1]
<1>9. x.terra = blocks[n].terra /\ x \in BlockSet
  BY <1>8 DEF BlockSet
<1>10. blocks' = [blocks EXCEPT ![n] = x]
  BY <1>6 DEF Import
<1> HIDE DEF x
<1>11. LastChanged(blocks, blocks')
  <2>1. blocks # <<>> => x.terra = blocks[Len(blocks)].terra
    BY <1>6, <1>9
  <2>2. blocks' = [blocks EXCEPT ![Len(blocks)] = x]
    BY <1>6, <1>10
  <2> QED
    BY <1>2, <1>9, <2>1, <2>2, LastBlock
<1>12. \A k \in 1 .. n : blocks'[k] = IF k = n THEN x ELSE blocks[k]
  BY <1>2, <1>6, <1>10
<1>13. s.bs[n] = "list"
  BY <1>4, <1>6, <1>7 DEF Last
<1>14. Fits(s.bs, blocks')
  BY <1>2, <1>6, <1>7, <1>9, <1>11, <1>12, <1>13 DEF Fits, LastChanged
<1> QED
  BY <1>1, <1>3, <1>5, <1>14, NextRead
-----------------------------------------------------------------------------
(* Statements and expressions.                                             *)
LEMMA StatementReads ==
    ASSUME NEW s, ReadC(s), token' \in {Plain} \cup Keywords, blocks' = blocks,
           NEW ops, StatementIs(ops), Back(s) \in Within => ReadOn(ops, Back(s), Back(s))
    PROVE  ReadInv'
<1>1. /\ status = "parsing" /\ todo # <<>> /\ Head(todo)[1] = "stats"
      /\ todo' = ops \o <<Down>> \o todo
  BY DEF StatementIs, Doing
<1>2. Back(s) \in Within /\ \E u \in Reading : ReadOn(todo, Back(s), u)
  BY <1>1, FirstAgain
<1>3. PICK u \in Reading : ReadOn(todo, Back(s), u)
  BY <1>2
<1>4. ReadOn(<<Down>>, Back(s), Back(s))
  BY <1>2, OpsAreOps, ReadStays, ReadOne
<1>5. ReadOn(ops \o <<Down>>, Back(s), Back(s))
  BY <1>2, <1>4, ReadConcat
<1>6. ReadOn(todo', Back(s), u)
  BY <1>1, <1>3, <1>5, ReadConcat
<1> QED
  BY <1>6, ReadBack

LEMMA OperandReads ==
    ASSUME NEW s, ReadC(s), s.bs # <<>>, token' \in {Plain} \cup Keywords, blocks' = blocks,
           NEW ops, OperandIs(ops), ReadOn(ops, Back(s), Back(s))
    PROVE  ReadInv'
<1>1. /\ status = "parsing" /\ todo # <<>> /\ Head(todo)[1] = "expr"
      /\ todo' = ops \o <<Down>> \o Tail(todo)
  BY DEF OperandIs, Doing, Then
<1>2. Back(s) \in Within
  BY Reads DEF ReadC
<1>3. PICK u \in Reading : ReadOn(Tail(todo), Back(s), u)
  BY <1>1, FirstIsStill DEF StillTags
<1>4. ReadOn(<<Down>>, Back(s), Back(s))
  BY <1>2, OpsAreOps, ReadStays, ReadOne
<1>5. ReadOn(ops \o <<Down>>, Back(s), Back(s))
  BY <1>4, ReadConcat
<1>6. ReadOn(todo', Back(s), u)
  BY <1>1, <1>3, <1>5, ReadConcat
<1> QED
  BY <1>6, ReadBack

LEMMA StatementsRead ==
    ASSUME NEW s, ReadC(s), token' \in {Plain} \cup Keywords,
           CommonStatement \/ FunctionStatement \/ TerraStatement \/ EscapeStatement
    PROVE  ReadInv'
<1>1. blocks' = blocks
  BY DEF CommonStatement, FunctionStatement, TerraStatement, EscapeStatement, scopes
<1>2. ASSUME CommonStatement PROVE ReadInv'
  <2>1. CASE StatementIs(CondRule)
    BY <1>1, <2>1, LoopsRead, StatementReads
  <2>2. CASE StatementIs(RepeatRule)
    BY <1>1, <2>2, LoopsRead, StatementReads
  <2>3. ASSUME NEW n \in Names, StatementIs(FornumRule({n})) \/ StatementIs(ForlistRule({n}))
                                    \/ StatementIs(LocalRule({n}))
        PROVE  ReadInv'
    <3>1. {n} \in SUBSET Names
      OBVIOUS
    <3>2. Back(s) \in Within => /\ ReadOn(FornumRule({n}), Back(s), Back(s))
                                /\ ReadOn(ForlistRule({n}), Back(s), Back(s))
                                /\ ReadOn(LocalRule({n}), Back(s), Back(s))
      BY <3>1, LoopsRead
    <3> QED
      BY <1>1, <2>3, <3>2, StatementReads
  <2> QED
    BY <1>2, <2>1, <2>2, <2>3 DEF CommonStatement
<1>3. ASSUME FunctionStatement PROVE ReadInv'
  <2>1. PICK n \in Names : StatementIs(<<Ref(n)>> \o Body({}))
                              \/ StatementIs(<<Define({n})>> \o Body({}))
    BY <1>3 DEF FunctionStatement
  <2>2. ASSUME Back(s) \in Within
        PROVE  /\ ReadOn(<<Ref(n)>> \o Body({}), Back(s), Back(s))
               /\ ReadOn(<<Define({n})>> \o Body({}), Back(s), Back(s))
    <3>1. {n} \in SUBSET Names /\ {} \in SUBSET Names
      OBVIOUS
    <3>2. ReadOn(Body({}), Back(s), Back(s))
      BY <2>2, <3>1, BodiesRead DEF Body
    <3>3. Ref(n) \in Op /\ ReadsTo(Ref(n), Back(s), Back(s))
      BY <2>2, OpsAreOps, ReadStays
    <3>4. Define({n}) \in Op /\ ReadsTo(Define({n}), Back(s), Back(s)) /\ Back(s) \in Reading
      BY <2>2, <3>1, OpsAreOps, ReadStays
    <3> QED
      BY <3>2, <3>3, <3>4, ReadFirst
  <2> QED
    BY <1>1, <2>1, <2>2, StatementReads
<1>4. ASSUME TerraStatement PROVE ReadInv'
  <2>1. ASSUME NEW kind \in {"terra", "struct", "declared"}, NEW params,
               params \subseteq SUBSET Names, NEW d \in Definitions(kind, params)
        PROVE  /\ Local(d) \in SUBSET Names
               /\ Back(s) \in Within =>
                    ReadOn(Definition(d), Opened(Back(s), "terra"), Opened(Back(s), "terra"))
    <3>1. d \in Definables
      BY <2>1 DEF Definitions, Definables
    <3>2. Local(d) \in SUBSET Names
      BY <3>1 DEF Local, Definables
    <3>3. Back(s) \in Within => Opened(Back(s), "terra") \in Within
      BY ReadOpens
    <3> QED
      BY <3>1, <3>2, <3>3, DefinitionReads
  <2>2. SUBSET Names \subseteq SUBSET Names /\ {{}} \subseteq SUBSET Names
    OBVIOUS
  <2>3. ASSUME NEW d \in Definitions("terra", SUBSET Names) \cup Definitions("struct", {{}}),
               StatementIs(<<EnterTerra>> \o Definition(d) \o <<LeaveTerra(Local(d))>>)
        PROVE  ReadInv'
    <3>1. /\ Local(d) \in SUBSET Names
          /\ Back(s) \in Within =>
                ReadOn(Definition(d), Opened(Back(s), "terra"), Opened(Back(s), "terra"))
      <4>1. CASE d \in Definitions("terra", SUBSET Names)
        BY <2>1, <2>2, <4>1
      <4>2. CASE d \in Definitions("struct", {{}})
        BY <2>1, <2>2, <4>2
      <4> QED
        BY <4>1, <4>2
    <3>2. Back(s) \in Within =>
             ReadOn(<<EnterTerra>> \o Definition(d) \o <<LeaveTerra(Local(d))>>, Back(s), Back(s))
      BY <3>1, ConstructReads
    <3> QED
      BY <1>1, <2>3, <3>2, StatementReads
  <2>4. ASSUME NEW d \in Definitions("terra", {{}}), NEW f \in Definitions("declared", {{}}),
               StatementIs(<<EnterTerra>> \o Definition(d) \o Definition(f)
                                \o <<LeaveTerra(Local(d) \cup Local(f))>>)
        PROVE  ReadInv'
    <3>1. /\ Local(d) \in SUBSET Names
          /\ Back(s) \in Within =>
                ReadOn(Definition(d), Opened(Back(s), "terra"), Opened(Back(s), "terra"))
      BY <2>1, <2>2
    <3>2. /\ Local(f) \in SUBSET Names
          /\ Back(s) \in Within =>
                ReadOn(Definition(f), Opened(Back(s), "terra"), Opened(Back(s), "terra"))
      BY <2>1, <2>2
    <3>3. Local(d) \cup Local(f) \in SUBSET Names
      BY <3>1, <3>2
    <3>4. Back(s) \in Within =>
             ReadOn(<<EnterTerra>> \o Definition(d) \o Definition(f)
                        \o <<LeaveTerra(Local(d) \cup Local(f))>>, Back(s), Back(s))
      BY <3>1, <3>2, <3>3, ConstructReads
    <3> QED
      BY <1>1, <2>4, <3>4, StatementReads
  <2> QED
    BY <1>4, <2>3, <2>4 DEF TerraStatement
<1>5. ASSUME EscapeStatement PROVE ReadInv'
  <2>1. StatementIs(<<Embedded(<<Stats>>), Tok>>)
    BY <1>5 DEF EscapeStatement
  <2>2. ASSUME Back(s) \in Within
        PROVE  ReadOn(<<Embedded(<<Stats>>), Tok>>, Back(s), Back(s))
    <3>1. <<Stats>> \in LuaCode
      BY DEF LuaCode
    <3> QED
      BY <2>2, <3>1, OpsAreOps, ReadStays, ReadTwo
  <2> QED
    BY <1>1, <2>1, <2>2, StatementReads
<1> QED
  BY <1>2, <1>3, <1>4, <1>5

LEMMA OperandsRead ==
    ASSUME NEW ok \in BOOLEAN, InvC(ok), NEW s, ReadC(s), token' \in {Plain} \cup Keywords,
           FunctionOperand \/ TerraOperand \/ EscapeOperand
    PROVE  ReadInv'
<1>1. /\ blocks' = blocks /\ status = "parsing" /\ todo # <<>> /\ Head(todo)[1] = "expr"
  BY DEF FunctionOperand, TerraOperand, EscapeOperand, OperandIs, Doing, scopes
<1>2. blocks # <<>>
  BY <1>1, FirstStays DEF SameTags
<1>3. s.bs # <<>> /\ s \in Reading
  BY <1>2, FitsTop
<1>4. PICK r \in Within : r = Back(s)
  BY <1>3, Reads
<1>5. r \in Reading /\ {} \in SUBSET Names
  BY <1>4 DEF Within
<1>6. ASSUME FunctionOperand PROVE ReadInv'
  <2>1. PICK ns \in SUBSET Names : OperandIs(Body(ns))
    BY <1>6 DEF FunctionOperand
  <2>2. ReadOn(Body(ns), r, r)
    BY BodiesRead DEF Body
  <2> QED
    BY <1>1, <1>3, <1>4, <2>1, <2>2, OperandReads
<1>7. ASSUME TerraOperand PROVE ReadInv'
  <2>1. ReadOn(QuoteExp, r, r) /\ ReadOn(QuoteStats(In), r, r)
    BY QuotesRead
  <2>2. ReadOn(<<EnterTerra, Type, Tok, LeaveTerra({})>>, r, r)
    <3> DEFINE t == Opened(r, "terra")
    <3>1. t \in Within /\ ReadsTo(EnterTerra, r, t) /\ ReadsTo(LeaveTerra({}), t, r)
      BY <1>5, ReadPairs
    <3> HIDE DEF t
    <3>2. t \in Reading /\ Type \in Op /\ ReadsTo(Type, t, t) /\ ReadsTo(Tok, t, t)
      BY <3>1, TypeReads, ReadStays
    <3>3. EnterTerra \in Op /\ LeaveTerra({}) \in Op /\ Tok \in Op
      BY <1>5, OpsAreOps
    <3> QED
      BY <1>5, <3>1, <3>2, <3>3, ReadFour
  <2>3. ASSUME NEW ns \in SUBSET Names
        PROVE  ReadOn(<<EnterTerra>> \o TerraBody(ns) \o <<LeaveTerra({})>>, r, r)
    <3>1. Opened(r, "terra") \in Within
      BY ReadOpens
    <3>2. ReadOn(TerraBody(ns), Opened(r, "terra"), Opened(r, "terra"))
      BY <3>1, BodiesRead
    <3> QED
      BY <1>5, <3>2, ConstructReads
  <2> QED
    BY <1>1, <1>3, <1>4, <1>7, <2>1, <2>2, <2>3, OperandReads DEF TerraOperand
<1>8. ASSUME EscapeOperand PROVE ReadInv'
  <2>1. <<Stats>> \in LuaCode
    BY DEF LuaCode
  <2>2. ReadOn(<<Type, Tok>>, r, r) /\ ReadOn(<<Embedded(<<Stats>>), Tok>>, r, r)
    BY <1>5, <2>1, OpsAreOps, TypeReads, ReadStays, ReadTwo
  <2> QED
    BY <1>1, <1>3, <1>4, <1>8, <2>2, OperandReads DEF EscapeOperand
<1> QED
  BY <1>6, <1>7, <1>8
-----------------------------------------------------------------------------
(* The actions that take one operation off, or put some in its place.      *)
LEMMA SinglesRead ==
    ASSUME NEW s, ReadC(s), token' \in {Plain} \cup Keywords,
           \/ Refers \/ Token \/ LeaveLevel \/ CheckReturns1 \/ Literal
           \/ \E n \in Names : Variable(n)
    PROVE  ReadInv'
<1>1. /\ status = "parsing" /\ todo # <<>> /\ Then(<<>>) /\ blocks' = blocks
      /\ Head(todo)[1] \in {"ref", "token", "down", "returns1", "expr"}
  BY DEF Refers, Token, LeaveLevel, CheckReturns1, Literal, Variable, Doing, scopes
<1>2. \E u \in Reading : ReadOn(Tail(todo), Back(s), u)
  BY <1>1, FirstIsStill DEF StillTags
<1>3. \E u \in Reading : ReadOn(todo', Back(s), u)
  BY <1>1, <1>2, TailRead
<1> QED
  BY <1>1, <1>3, ReadBack

(* A list of statements ends at a plain token; what comes next may leave   *)
(* the block.                                                              *)
LEMMA EndStatementsReads ==
    ASSUME NEW s, ReadC(s), token' \in {Plain} \cup Keywords, EndStatements
    PROVE  ReadInv'
<1>1. /\ status = "parsing" /\ todo # <<>> /\ Then(<<>>) /\ blocks' = blocks
      /\ Head(todo)[1] = "stats" /\ token' = token /\ token = Plain
  BY DEF EndStatements, Doing, scopes
<1>2. \E u \in Reading : ReadOn(Tail(todo), Listed(s), u)
  BY <1>1, FirstAgain
<1>3. \E u \in Reading : ReadOn(todo', Listed(s), u)
  BY <1>1, <1>2, TailRead
<1>4. /\ s \in Reading /\ Fits(s.bs, blocks)
      /\ Listed(s) \in Reading /\ Listed(s).bs = s.bs
  BY Reads DEF ReadC
<1> QED
  BY <1>1, <1>3, <1>4, NextRead

LEMMA ExprStatementReads ==
    ASSUME NEW s, ReadC(s), token' \in {Plain} \cup Keywords, ExprStatement
    PROVE  ReadInv'
<1>1. /\ status = "parsing" /\ todo # <<>> /\ blocks' = blocks
      /\ Head(todo)[1] = "stats" /\ todo' = <<Expr, Down>> \o todo
  BY DEF ExprStatement, Doing, scopes
<1>2. Back(s) \in Within /\ \E u \in Reading : ReadOn(todo, Back(s), u)
  BY <1>1, FirstAgain
<1>3. PICK u \in Reading : ReadOn(todo, Back(s), u)
  BY <1>2
<1>4. ReadOn(<<Expr, Down>>, Back(s), Back(s))
  BY <1>2, OpsAreOps, ReadStays, ReadTwo
<1>5. ReadOn(todo', Back(s), u)
  BY <1>1, <1>3, <1>4, ReadConcat
<1> QED
  BY <1>1, <1>5, ReadBack

(* Languages.                                                              *)
LEMMA LanguageRuns ==
    ASSUME NEW s, ReadC(s), token' \in {Plain} \cup Keywords,
           LanguageReads \/ LanguageEmbeds \/ LanguageReturns
    PROVE  ReadInv'
<1>1. status = "parsing" /\ todo # <<>> /\ Head(todo)[1] = "language" /\ blocks' = blocks
  BY DEF LanguageReads, LanguageEmbeds, LanguageReturns, Doing, scopes
<1>2. s.bs # <<>> /\ Back(s) \in Within /\ \E u \in Reading : ReadOn(todo, Back(s), u)
  BY <1>1, FirstAgain
<1>3. PICK u \in Reading : ReadOn(todo, Back(s), u)
  BY <1>2
<1>4. /\ Head(todo) \in Op /\ Tail(todo) \in Seq(Op) /\ todo = <<Head(todo)>> \o Tail(todo)
  BY <1>1, <1>3, ReadHead DEF ReadOn
<1>5. ASSUME LanguageReads PROVE ReadInv'
  BY <1>1, <1>3, <1>5, ReadBack DEF LanguageReads
<1>6. ASSUME LanguageEmbeds PROVE ReadInv'
  <2>1. PICK ops \in LuaCode : Then(<<Embedded(ops), Head(todo)>>)
    BY <1>6 DEF LanguageEmbeds, LuaCode
  <2>2. Embedded(ops) \in Op /\ ReadsTo(Embedded(ops), Back(s), Back(s)) /\ Back(s) \in Reading
    BY <1>2, OpsAreOps, ReadStays
  <2>3. ReadOn(<<Embedded(ops)>> \o todo, Back(s), u)
    BY <1>3, <2>2, ReadFirst
  <2>4. todo' = <<Embedded(ops)>> \o todo
    <3>1. todo' = <<Embedded(ops), Head(todo)>> \o Tail(todo)
      BY <2>1 DEF Then
    <3>2. <<Embedded(ops), Head(todo)>> \o Tail(todo)
              = <<Embedded(ops)>> \o (<<Head(todo)>> \o Tail(todo))
      BY <1>4, <2>2, PutBefore, Zenon
    <3> QED
      BY <1>4, <3>1, <3>2
  <2> QED
    BY <1>1, <2>3, <2>4, ReadBack
<1>7. ASSUME LanguageReturns PROVE ReadInv'
  <2>1. PICK refs \in {<<>>} \cup {<<Ref(n)>> : n \in Names}, ns \in SUBSET Names :
            Then(refs \o <<LeaveLanguage(ns)>>)
    BY <1>7 DEF LanguageReturns
  <2>2. PICK t \in Reading : /\ ReadsTo(Head(todo), s, t)
                             /\ \E v \in Reading : ReadOn(Tail(todo), t, v)
    BY <1>1, FirstReads
  <2>3. PICK v \in Reading : ReadOn(Tail(todo), t, v)
    BY <2>2
  <2>4. Last(s) = "terra" /\ t = Closed(s) /\ s \in Reading
    BY <1>1, <2>2 DEF ReadsTo, StillTags, ReadC
  <2>5. /\ Back(s) \in Reading /\ Back(s).bs # <<>> /\ Last(Back(s)) = "terra"
        /\ Closed(Back(s)) = t
    BY <1>2, <2>4, Reads
  <2>6. ReadOn(refs, Back(s), Back(s))
    <3>1. CASE refs = <<>>
      BY <2>5, <3>1, ReadNothing
    <3>2. ASSUME NEW n \in Names, refs = <<Ref(n)>> PROVE ReadOn(refs, Back(s), Back(s))
      BY <1>2, <2>5, <3>2, OpsAreOps, ReadStays, ReadOne
    <3> QED
      BY <2>1, <3>1, <3>2
  <2>7. ReadsTo(LeaveLanguage(ns), Back(s), t)
    BY <2>5 DEF ReadsTo, LeaveLanguage
  <2>8. ReadOn(<<LeaveLanguage(ns)>>, Back(s), t)
    BY <2>5, <2>7, OpsAreOps, ReadOne
  <2>9. ReadOn(refs \o <<LeaveLanguage(ns)>> \o Tail(todo), Back(s), v)
    BY <2>3, <2>6, <2>8, ReadConcat
  <2>10. todo' = refs \o <<LeaveLanguage(ns)>> \o Tail(todo)
    BY <2>1 DEF Then
  <2> QED
    BY <1>1, <2>9, <2>10, ReadBack
<1> QED
  BY <1>5, <1>6, <1>7

LEMMA ExtensionsRead ==
    ASSUME NEW ok \in BOOLEAN, InvC(ok), NEW s, ReadC(s), token' \in {Plain} \cup Keywords,
           LanguageStatement \/ LanguageOperand
    PROVE  ReadInv'
<1>1. /\ status = "parsing" /\ todo # <<>> /\ blocks' = blocks
      /\ Head(todo)[1] \in {"stats", "expr"}
  BY DEF LanguageStatement, LanguageOperand, Doing, scopes
<1>2. blocks # <<>>
  BY <1>1, FirstStays DEF SameTags
<1>3. s.bs # <<>> /\ s \in Reading
  BY <1>2, FitsTop
<1>4. PICK r \in Within : r = Back(s)
  BY <1>3, Reads
<1>5. ReadOn(<<Down>>, r, r) /\ ReadOn(<<Returns1, Down>>, r, r)
  BY <1>4, OpsAreOps, ReadStays, ReadOne, ReadTwo
<1>6. ASSUME NEW e, NEW local \in BOOLEAN, NEW rest, NEW u \in Reading, ReadOn(rest, r, u),
             LanguageExtension(e, local, rest)
      PROVE  ReadInv'
  <2>1. CASE entry[e] = None
    <3>1. status' # "parsing"
      BY <1>6, <2>1 DEF LanguageExtension
    <3> QED
      BY <1>1, <3>1, ReadBack
  <2>2. CASE entry[e] # None
    <3>1. todo' = <<EnterTerra, Language(local)>> \o rest
      BY <1>6, <2>2 DEF LanguageExtension
    <3>2. ReadOn(todo', r, u)
      BY <1>6, <3>1, ExtensionReads, ReadConcat
    <3> QED
      BY <1>1, <1>4, <3>2, ReadBack
  <2> QED
    BY <2>1, <2>2
<1>7. TRUE \in BOOLEAN /\ FALSE \in BOOLEAN
  OBVIOUS
<1>8. ASSUME LanguageStatement PROVE ReadInv'
  <2>1. Head(todo)[1] = "stats"
    BY <1>8 DEF LanguageStatement, Doing
  <2>2. \E u \in Reading : ReadOn(todo, r, u)
    BY <1>1, <1>4, <2>1, FirstAgain
  <2>3. PICK u \in Reading : ReadOn(todo, r, u)
    BY <2>2
  <2>4. ReadOn(<<Down>> \o todo, r, u)
    BY <1>5, <2>3, ReadConcat
  <2>5. CASE LanguageExtension(token, FALSE, <<Down>> \o todo)
    BY <1>6, <1>7, <2>4, <2>5
  <2>6. ASSUME NEW e, LanguageExtension(e, TRUE, <<Down>> \o todo) PROVE ReadInv'
    BY <1>6, <1>7, <2>4, <2>6
  <2> QED
    BY <1>8, <2>5, <2>6 DEF LanguageStatement
<1>9. ASSUME LanguageOperand PROVE ReadInv'
  <2>1. /\ Head(todo)[1] = "expr"
        /\ LanguageExtension(token, FALSE, <<Returns1, Down>> \o Tail(todo))
    BY <1>9 DEF LanguageOperand, Doing
  <2>2. \E u \in Reading : ReadOn(Tail(todo), r, u)
    BY <1>1, <1>4, <2>1, FirstIsStill DEF StillTags
  <2>3. PICK u \in Reading : ReadOn(Tail(todo), r, u)
    BY <2>2
  <2>4. ReadOn(<<Returns1, Down>> \o Tail(todo), r, u)
    BY <1>5, <2>3, ReadConcat
  <2> QED
    BY <1>6, <1>7, <2>1, <2>4
<1> QED
  BY <1>8, <1>9

(* The first chunk and the next begin with statements.                     *)
LEMMA StartReads ==
    LET s == [bs |-> <<"list">>, plain |-> FALSE] IN
    /\ s \in Reading /\ ~s.plain /\ Fits(s.bs, <<Block(FALSE)>>)
    /\ \E u \in Reading : ReadOn(<<Stats, Leave, Finish>>, s, u)
<1> DEFINE s == [bs |-> <<"list">>, plain |-> FALSE]
<1>1. <<"list">> \in Seq({"terra", "list", "expression"}) /\ <<"list">> # <<>>
      /\ Len(<<"list">>) = 1 /\ <<"list">>[1] = "list"
  OBVIOUS
<1>2. s \in Within /\ s \in Reading /\ s.bs = <<"list">> /\ ~s.plain
  BY <1>1 DEF Within, Reading
<1>3. Fits(<<"list">>, <<Block(FALSE)>>)
  <2> DEFINE x == Block(FALSE)
  <2>1. ~x.terra /\ x.exts = 0
    BY DEF Block
  <2> HIDE DEF x
  <2>2. Len(<<x>>) = 1 /\ <<x>>[1] = x /\ \A k \in 1 .. 1 : k = 1
    OBVIOUS
  <2>3. ~(0 > 0)
    OBVIOUS
  <2>4. Fits(<<"list">>, <<x>>)
    BY <1>1, <2>1, <2>2, <2>3 DEF Fits
  <2> QED
    BY <2>4 DEF x
<1> HIDE DEF s
<1>4. Last(s) = "list"
  BY <1>1, <1>2 DEF Last
<1>5. /\ Listed(s) \in Reading /\ Listed(s).plain /\ Listed(s).bs # <<>>
      /\ Closed(Listed(s)) = Closed(s) /\ Closed(s) \in Reading
  BY <1>1, <1>2, Reads
<1>6. PICK t \in Reading : t = Closed(s)
  BY <1>5
<1>7. ReadsTo(Stats, s, Listed(s))
  BY <1>2, <1>4, ReadStays
<1>8. ReadsTo(Leave, Listed(s), t)
  BY <1>5, <1>6 DEF ReadsTo, Leave
<1>9. ReadsTo(Finish, t, Back(t)) /\ Back(t) \in Reading
  BY Reads DEF ReadsTo, StillTags, Finish
<1>10. ReadOn(<<Stats, Leave, Finish>>, s, Back(t))
  BY <1>2, <1>5, <1>7, <1>8, <1>9, OpsAreOps, ReadThree
<1> QED
  BY <1>2, <1>3, <1>9, <1>10 DEF s

LEMMA InitReads == Init => ReadInv
<1> SUFFICES ASSUME Init PROVE ReadInv
  OBVIOUS
<1>1. blocks = <<Block(FALSE)>> /\ token = Plain /\ todo = <<Stats, Leave, Finish>>
  BY DEF Init
<1> QED
  BY <1>1, StartReads DEF ReadInv, ReadC

(* The end of a parse, and the next one.                                   *)
LEMMA EndsRead ==
    ASSUME NEW s, ReadC(s), token' \in {Plain} \cup Keywords,
           SyntaxError \/ TooManyLevels \/ EndParse \/ ParseAgain
    PROVE  ReadInv'
<1>1. ASSUME SyntaxError PROVE ReadInv'
  <2> DEFINE r == [bs |-> <<>>, plain |-> FALSE]
  <2>1. r \in Reading /\ r.bs = <<>> /\ ~r.plain
    BY DEF Reading
  <2>2. Fits(<<>>, <<>>)
    BY DEF Fits
  <2>3. blocks' = <<>> /\ status' = "syntax"
    BY <1>1 DEF SyntaxError, Fails
  <2> HIDE DEF r
  <2> QED
    BY <2>1, <2>2, <2>3, NextRead
<1>2. ASSUME TooManyLevels \/ EndParse PROVE ReadInv'
  <2>1. blocks' = blocks /\ status' # "parsing"
    BY <1>2 DEF TooManyLevels, EndParse, scopes
  <2> QED
    BY <2>1, ReadBack
<1>3. ASSUME ParseAgain PROVE ReadInv'
  <2>1. blocks' = <<Block(FALSE)>> /\ todo' = <<Stats, Leave, Finish>>
    BY <1>3 DEF ParseAgain
  <2> QED
    BY <2>1, StartReads, NextRead
<1> QED
  BY <1>1, <1>2, <1>3

LEMMA StepRead == Inv /\ ReadInv /\ [Next]_vars => ReadInv'
<1> SUFFICES ASSUME NEW ok \in BOOLEAN, InvC(ok), NEW s \in Reading, ReadC(s), [Next]_vars
             PROVE  ReadInv'
  BY DEF Inv, ReadInv
<1>1. token' \in {Plain} \cup Keywords
  BY TokensTyped DEF ReadC
<1>2. CASE UNCHANGED vars
  <2>1. blocks' = blocks /\ token' = token /\ todo' = todo /\ status' = status
    BY <1>2 DEF vars, scopes
  <2> QED
    BY <1>1, <2>1, NextRead DEF ReadC
<1>3. CASE EnterBlock \/ EnterTerraCnt \/ EmbeddedCode \/ Defines
  BY <1>1, <1>3, BlocksRead
<1>4. CASE Leaves \/ LeaveTerraCnt \/ ResumeTerra
  BY <1>1, <1>4, LeavingReads
<1>5. CASE \E l \in Languages : Import(l)
  BY <1>1, <1>5, ImportReads
<1>6. CASE LanguageReads \/ LanguageEmbeds \/ LanguageReturns
  BY <1>1, <1>6, LanguageRuns
<1>7. CASE \/ Refers \/ Token \/ LeaveLevel \/ CheckReturns1 \/ Literal
           \/ \E n \in Names : Variable(n)
  BY <1>1, <1>7, SinglesRead
<1>8. CASE EndStatements
  BY <1>1, <1>8, EndStatementsReads
<1>9. CASE ExprStatement
  BY <1>1, <1>9, ExprStatementReads
<1>10. CASE CommonStatement \/ FunctionStatement \/ TerraStatement \/ EscapeStatement
  BY <1>1, <1>10, StatementsRead
<1>11. CASE FunctionOperand \/ TerraOperand \/ EscapeOperand
  BY <1>1, <1>11, OperandsRead
<1>12. CASE LanguageStatement \/ LanguageOperand
  BY <1>1, <1>12, ExtensionsRead
<1>13. CASE SyntaxError \/ TooManyLevels \/ EndParse \/ ParseAgain
  BY <1>1, <1>13, EndsRead
<1> QED
  BY <1>2, <1>3, <1>4, <1>5, <1>6, <1>7, <1>8, <1>9, <1>10, <1>11, <1>12, <1>13 DEF Next
-----------------------------------------------------------------------------
(* Leaving a block without imports leaves the entry points as they are.    *)
LEMMA NoneUnimported ==
    ASSUME LangInv, Unimport(0)
    PROVE  entry' = entry
<1>1. languages \in Seq(Languages) /\ entry \in [Keywords -> Languages \cup {None}]
  BY DEF LangInv, Matches
<1>2. PICK n \in Nat : n = Len(languages)
  BY <1>1
<1>3. PICK rest : rest = SubSeq(languages, 1, Len(languages) - 0)
  OBVIOUS
<1>4. Len(rest) = n
  <2>1. n - 0 = n
    OBVIOUS
  <2>2. Len(SubSeq(languages, 1, n)) = n
    BY <1>1, <1>2
  <2> QED
    BY <1>2, <1>3, <2>1, <2>2
<1>5. {languages[i] : i \in Len(rest) + 1 .. Len(languages)} = {}
  <2>1. \A i \in n + 1 .. n : FALSE
    OBVIOUS
  <2> QED
    BY <1>2, <1>4, <2>1
<1>6. entry' = [e \in Keywords |->
                   IF \E l \in {languages[i] : i \in Len(rest) + 1 .. Len(languages)} :
                          e \in EntryPoints[l]
                   THEN None ELSE entry[e]]
  BY <1>3 DEF Unimport
<1>7. entry' = [e \in Keywords |-> entry[e]]
  BY <1>5, <1>6
<1> QED
  BY <1>1, <1>7

(* A step that does not leave a block does not make the token stale.       *)
LEMMA KeptFresh ==
    ASSUME \/ token' = Plain
           \/ entry' = entry /\ token' \in {token} \cup Lexed(entry)
           \/ token' \in {Plain} \cup {e \in Keywords : entry'[e] # None}
    PROVE  ~(Stale' /\ ~Stale)
<1>1. CASE token' = Plain
  BY <1>1 DEF Stale
<1>2. CASE entry' = entry /\ token' = token
  BY <1>2 DEF Stale
<1>3. CASE entry' = entry /\ token' \in Lexed(entry)
  BY <1>3 DEF Stale, Lexed
<1>4. CASE token' \in {Plain} \cup {e \in Keywords : entry'[e] # None}
  BY <1>4 DEF Stale
<1> QED
  BY <1>1, <1>2, <1>3, <1>4

LEMMA StaleStep ==
    Inv /\ LangInv /\ ReadInv /\ [Next]_vars
        => (Stale' /\ ~Stale => Doing("leave") /\ Arg = "repeat")
<1> SUFFICES ASSUME NEW ok \in BOOLEAN, InvC(ok), LangInv, NEW s, ReadC(s), [Next]_vars
             PROVE  Stale' /\ ~Stale => Doing("leave") /\ Arg = "repeat"
  BY DEF Inv, ReadInv
<1>1. ASSUME Leaves \/ LeaveTerraCnt \/ ResumeTerra
      PROVE  ~(Stale' /\ ~Stale) \/ (Doing("leave") /\ Arg = "repeat")
  <2>1. token' = token /\ Unimport(Top.exts)
    BY <1>1 DEF Leaves, LeaveTerraCnt, ResumeTerra, LeaveBlock
  <2>2. token' \in {Plain} \cup Keywords
    BY TokensTyped DEF ReadC
  <2>3. token = Plain \/ Top.exts = 0 \/ (Doing("leave") /\ Arg = "repeat")
    BY <1>1, <2>2, LeavingReads
  <2>4. CASE token = Plain
    BY <2>1, <2>4, KeptFresh
  <2>5. CASE Top.exts = 0
    <3>1. entry' = entry
      BY <2>1, <2>5, NoneUnimported
    <3> QED
      BY <2>1, <3>1, KeptFresh
  <2> QED
    BY <2>3, <2>4, <2>5
<1>2. ASSUME SyntaxError \/ ParseAgain PROVE ~(Stale' /\ ~Stale)
  <2>1. token' = Plain
    BY <1>2 DEF SyntaxError, Fails, ParseAgain
  <2> QED
    BY <2>1, KeptFresh
<1>3. ASSUME NEW l \in Languages, Import(l) PROVE ~(Stale' /\ ~Stale)
  <2>1. token' \in {Plain} \cup {e \in Keywords : entry'[e] # None}
    BY <1>3 DEF Import
  <2> QED
    BY <2>1, KeptFresh
<1>4. ASSUME \/ TooManyLevels \/ EnterBlock \/ Defines \/ Refers \/ LeaveLevel
             \/ EnterTerraCnt \/ EmbeddedCode \/ LanguageEmbeds \/ LanguageReturns
             \/ CheckReturns1 \/ EndStatements \/ ExprStatement \/ LanguageOperand \/ EndParse
             \/ UNCHANGED vars
      PROVE  ~(Stale' /\ ~Stale)
  <2>1. token' = token /\ entry' = entry
    BY <1>4 DEF TooManyLevels, EnterBlock, Defines, Refers, LeaveLevel, EnterTerraCnt,
       EmbeddedCode, LanguageEmbeds, LanguageReturns, CheckReturns1, EndStatements,
       ExprStatement, LanguageOperand, EndParse, vars, lang
  <2> QED
    BY <2>1, KeptFresh
<1>5. ASSUME \/ Token \/ LanguageReads \/ CommonStatement \/ FunctionStatement
             \/ TerraStatement \/ EscapeStatement \/ Literal
             \/ FunctionOperand \/ TerraOperand \/ EscapeOperand
             \/ \E n \in Names : Variable(n)
      PROVE  ~(Stale' /\ ~Stale)
  <2>1. entry' = entry
    BY <1>5 DEF Token, LanguageReads, CommonStatement, FunctionStatement, TerraStatement,
       EscapeStatement, Literal, FunctionOperand, TerraOperand, EscapeOperand, OperandIs,
       Variable, lang
  <2>2. LexNext
    BY <1>5 DEF Token, LanguageReads, CommonStatement, FunctionStatement, TerraStatement,
       EscapeStatement, Literal, FunctionOperand, TerraOperand, EscapeOperand, OperandIs,
       Variable
  <2> QED
    BY <2>1, <2>2, KeptFresh DEF LexNext
<1>6. ASSUME LanguageStatement PROVE ~(Stale' /\ ~Stale)
  <2>1. entry' = entry
    BY <1>6 DEF LanguageStatement, lang
  <2>2. token' \in {token} \cup Lexed(entry)
    BY <1>6 DEF LanguageStatement
  <2> QED
    BY <2>1, <2>2, KeptFresh
<1> QED
  BY <1>1, <1>2, <1>3, <1>4, <1>5, <1>6 DEF Next

(* The current token goes stale, an entry point of a language that is gone,*)
(* only where a repeat loop ends, whose condition is read past the import: *)
(* all other blocks with imports are left right after a list of statements *)
(* has ended at a token that no statement begins with.                     *)
THEOREM StaleOnlyAfterLoops == Spec => StaleOnlyAfterUntil
<1>1. Init => LangInv /\ ReadInv
  BY InitLang, InitReads
<1>2. Inv /\ LangInv /\ ReadInv /\ [Next]_vars => LangInv' /\ ReadInv'
  BY StepLang, StepRead
<1>3. Inv /\ LangInv /\ ReadInv /\ [Next]_vars
        => [Stale' /\ ~Stale => Doing("leave") /\ Arg = "repeat"]_vars
  BY StaleStep
<1> QED
  BY <1>1, <1>2, <1>3, WhatIsLeftFits, PTL DEF Spec, StaleOnlyAfterUntil
=============================================================================
