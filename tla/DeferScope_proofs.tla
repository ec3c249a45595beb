-------------------------- MODULE DeferScope_proofs --------------------------
(***************************************************************************)
(* Proofs about DeferScope, for every set of labels, every choice of       *)
(* constructs and bodies of any size.                                      *)
(***************************************************************************)
EXTENDS DeferScope, Integers, FiniteSetTheorems, WellFoundedInduction, TLAPS

-----------------------------------------------------------------------------
(* Induction over the naturals, with a set in the place of the predicate.  *)
(*                                                                         *)
(* A set of naturals has a least element.                                  *)
LEMMA NatMin ==
    ASSUME NEW T, T \subseteq Nat, T # {}
    PROVE  \E x \in T : \A y \in T : x <= y
<1> DEFINE Less == {ss \in Nat \X Nat : ss[1] < ss[2]}
<1>1. IsWellFoundedOn(Less, Nat)
  BY NatLessThanWellFounded, Zenon DEF OpToRel
<1>2. PICK x \in T : \A y \in T : <<y, x>> \notin Less
  <2> HIDE DEF Less
  <2> QED
    BY <1>1, WFMin
<1>3. ASSUME NEW y \in T PROVE x <= y
  <2>1. x \in Nat /\ y \in Nat /\ (y < x => <<y, x>> \in Less)
    OBVIOUS
  <2> QED
    BY <1>2, <2>1
<1> QED
  BY <1>3

(* The greatest of some indices.                                           *)
LEMMA Greatest ==
    ASSUME NEW N \in Nat, NEW T, T \subseteq 1 .. N, T # {}
    PROVE  \E x \in T : \A y \in T : y <= x
<1> DEFINE U == {n \in 0 .. N : N - n \in T}
<1>1. PICK t \in T : TRUE
  OBVIOUS
<1>2. N - t \in 0 .. N /\ N - (N - t) = t
  BY <1>1
<1>3. U # {} /\ U \subseteq Nat
  <2>1. N - (N - t) \in T
    BY <1>2
  <2>2. N - t \in U
    BY <1>2, <2>1
  <2>3. U \subseteq 0 .. N /\ 0 .. N \subseteq Nat
    OBVIOUS
  <2> HIDE DEF U
  <2>4. QED BY <2>2, <2>3
<1>4. PICK u \in U : \A v \in U : u <= v
  <2> HIDE DEF U
  <2> QED BY <1>3, NatMin
<1>5. ASSUME NEW y \in T PROVE y <= N - u
  <2>1. N - y \in 0 .. N /\ N - (N - y) = y
    OBVIOUS
  <2>2. N - y \in U
    BY <2>1
  <2>3. u <= N - y
    BY <2>2, <1>4
  <2>4. u \in 0 .. N /\ y \in 1 .. N
    OBVIOUS
  <2>5. QED BY <2>3, <2>4
<1>6. QED BY <1>5

(* What holds of 0, and of n + 1 when it holds of n, holds up to N.        *)
LEMMA Induction ==
    ASSUME NEW T, NEW N \in Nat, 0 \in T,
           \A n \in 0 .. N : n < N /\ n \in T => n + 1 \in T
    PROVE  \A n \in 0 .. N : n \in T
<1> DEFINE U == (0 .. N) \ T
<1>1. CASE U = {}
  BY <1>1
<1>2. CASE U # {}
  <2>1. PICK x \in U : \A y \in U : x <= y
    <3>1. U \subseteq Nat
      OBVIOUS
    <3> HIDE DEF U
    <3>2. QED BY <1>2, <3>1, NatMin
  <2>2. x # 0
    OBVIOUS
  <2>3. x - 1 \in 0 .. N /\ x - 1 < N /\ (x - 1) + 1 = x /\ ~(x <= x - 1)
    BY <2>2
  <2>4. x - 1 \in T
    BY <2>1, <2>3
  <2>5. x \in T
    BY <2>3, <2>4
  <2>6. QED BY <2>5
<1>3. QED BY <1>1, <1>2

(* f sums up the first elements of p.                                      *)
IsSum(f, p) ==
    f = [i \in 0 .. Len(p) |-> IF i = 0 THEN 0 ELSE f[i - 1] + p[i]]

(* Every sequence has such sums.                                           *)
LEMMA SumExists ==
    ASSUME NEW p \in Seq(Nat)
    PROVE  \E f : IsSum(f, p)
<1> DEFINE T == {n \in 0 .. Len(p) :
                    \E f : f = [i \in 0 .. n |-> IF i = 0 THEN 0 ELSE f[i - 1] + p[i]]}
<1>1. 0 \in T
  <2> DEFINE f == [i \in 0 .. 0 |-> 0]
  <2>1. f = [i \in 0 .. 0 |-> IF i = 0 THEN 0 ELSE f[i - 1] + p[i]]
    OBVIOUS
  <2>2. 0 \in 0 .. Len(p)
    OBVIOUS
  <2> HIDE DEF f
  <2>3. QED BY <2>1, <2>2
<1>2. ASSUME NEW n \in 0 .. Len(p), n < Len(p), n \in T PROVE n + 1 \in T
  <2>1. PICK f : f = [i \in 0 .. n |-> IF i = 0 THEN 0 ELSE f[i - 1] + p[i]]
    BY <1>2
  <2> DEFINE g == [i \in 0 .. n + 1 |-> IF i = n + 1 THEN f[n] + p[n + 1] ELSE f[i]]
  <2>2. ASSUME NEW i \in 0 .. n + 1
        PROVE  g[i] = IF i = 0 THEN 0 ELSE g[i - 1] + p[i]
    <3>1. CASE i = 0
      <4>1. f[0] = 0
        BY <2>1
      <4>2. QED BY <3>1, <4>1
    <3>2. CASE i = n + 1
      <4>1. i - 1 = n /\ n \in 0 .. n + 1 /\ n # n + 1 /\ i # 0
        BY <3>2
      <4>2. QED BY <3>2, <4>1
    <3>3. CASE i # 0 /\ i # n + 1
      <4>1. i \in 0 .. n /\ i - 1 \in 0 .. n + 1 /\ i - 1 # n + 1
        BY <3>3
      <4>2. f[i] = f[i - 1] + p[i]
        <5>1. f[i] = [j \in 0 .. n |-> IF j = 0 THEN 0 ELSE f[j - 1] + p[j]][i]
          BY <2>1
        <5>2. QED BY <5>1, <3>3, <4>1
      <4>3. QED BY <3>3, <4>1, <4>2
    <3>4. QED BY <3>1, <3>2, <3>3
  <2>3. g = [i \in 0 .. n + 1 |-> IF i = 0 THEN 0 ELSE g[i - 1] + p[i]]
    <3>1. g = [i \in 0 .. n + 1 |-> g[i]]
      OBVIOUS
    <3> HIDE DEF g
    <3>2. QED BY <2>2, <3>1
  <2>4. n + 1 \in 0 .. Len(p)
    BY <1>2
  <2> HIDE DEF g
  <2>5. QED BY <2>3, <2>4
<1>3. Len(p) \in T
  <2>1. Len(p) \in Nat /\ Len(p) \in 0 .. Len(p)
    OBVIOUS
  <2> HIDE DEF T
  <2>2. QED BY <1>1, <1>2, <2>1, Induction
<1>4. QED BY <1>3 DEF IsSum

(* Sums of what two sequences share are the same.                          *)
LEMMA SumsAgree ==
    ASSUME NEW p \in Seq(Nat), NEW q \in Seq(Nat), Len(q) <= Len(p),
           \A i \in 1 .. Len(q) : p[i] = q[i],
           NEW f, NEW g, IsSum(f, p), IsSum(g, q)
    PROVE  \A n \in 0 .. Len(q) : f[n] = g[n] /\ g[n] \in Nat
<1> DEFINE T == {n \in 0 .. Len(q) : f[n] = g[n] /\ g[n] \in Nat}
<1>0. Len(q) \in Nat /\ Len(p) \in Nat
  OBVIOUS
<1>1. ASSUME NEW i \in 0 .. Len(p) PROVE f[i] = IF i = 0 THEN 0 ELSE f[i - 1] + p[i]
  <2>1. f[i] = [j \in 0 .. Len(p) |-> IF j = 0 THEN 0 ELSE f[j - 1] + p[j]][i]
    BY DEF IsSum
  <2>2. QED BY <2>1
<1>2. ASSUME NEW i \in 0 .. Len(q) PROVE g[i] = IF i = 0 THEN 0 ELSE g[i - 1] + q[i]
  <2>1. g[i] = [j \in 0 .. Len(q) |-> IF j = 0 THEN 0 ELSE g[j - 1] + q[j]][i]
    BY DEF IsSum
  <2>2. QED BY <2>1
<1>3. 0 \in T
  <2>1. 0 \in 0 .. Len(q) /\ 0 \in 0 .. Len(p)
    BY <1>0
  <2>2. f[0] = 0 /\ g[0] = 0
    BY <2>1, <1>1, <1>2
  <2>3. QED BY <2>1, <2>2
<1>4. ASSUME NEW n \in 0 .. Len(q), n < Len(q), n \in T PROVE n + 1 \in T
  <2>1. n + 1 \in 1 .. Len(q) /\ n + 1 \in 0 .. Len(q) /\ n + 1 \in 0 .. Len(p)
        /\ (n + 1) - 1 = n /\ n + 1 # 0
    BY <1>4, <1>0
  <2>2. f[n + 1] = f[n] + p[n + 1] /\ g[n + 1] = g[n] + q[n + 1]
    BY <2>1, <1>1, <1>2
  <2>3. p[n + 1] = q[n + 1] /\ q[n + 1] \in Nat
    BY <2>1
  <2>4. f[n] = g[n] /\ g[n] \in Nat
    BY <1>4
  <2>5. f[n + 1] = g[n + 1] /\ g[n + 1] \in Nat
    BY <2>2, <2>3, <2>4, SMTT(30)
  <2>6. QED BY <2>1, <2>5
<1>5. \A n \in 0 .. Len(q) : n \in T
  <2> HIDE DEF T
  <2> QED BY <1>0, <1>3, <1>4, Induction
<1>6. QED BY <1>5
-----------------------------------------------------------------------------
(* Sums of the defers of scopes.                                           *)
DepthOf(p, n) == Depth(SubSeq(p, 1, n))

LEMMA SubSeqFacts ==
    ASSUME NEW S, NEW p \in Seq(S), NEW n \in 0 .. Len(p)
    PROVE  /\ SubSeq(p, 1, n) \in Seq(S)
           /\ Len(SubSeq(p, 1, n)) = n
           /\ \A i \in 1 .. n : SubSeq(p, 1, n)[i] = p[i]
  OBVIOUS

LEMMA DepthIsSum ==
    ASSUME NEW p \in Seq(Nat), NEW f, IsSum(f, p)
    PROVE  Depth(p) = f[Len(p)]
<1> DEFINE sum[i \in 0 .. Len(p)] == IF i = 0 THEN 0 ELSE sum[i - 1] + p[i]
<1>1. IsSum(sum, p)
  <2>1. \E g : g = [i \in 0 .. Len(p) |-> IF i = 0 THEN 0 ELSE g[i - 1] + p[i]]
    BY SumExists DEF IsSum
  <2>2. sum = [i \in 0 .. Len(p) |-> IF i = 0 THEN 0 ELSE sum[i - 1] + p[i]]
    BY <2>1
  <2> HIDE DEF sum
  <2>3. QED BY <2>2 DEF IsSum
<1>2. Depth(p) = sum[Len(p)]
  BY DEF Depth
<1>3. sum[Len(p)] = f[Len(p)]
  <2>1. Len(p) \in 0 .. Len(p) /\ Len(p) <= Len(p)
    OBVIOUS
  <2> HIDE DEF sum
  <2>2. QED BY <1>1, <2>1, SumsAgree
<1>4. QED BY <1>2, <1>3

(* A prefix of a prefix, and what prefixes agree on.                       *)
LEMMA PrefixOfPrefix ==
    ASSUME NEW S, NEW p \in Seq(S), NEW n \in 0 .. Len(p), NEW m \in 0 .. n
    PROVE  /\ SubSeq(SubSeq(p, 1, n), 1, m) = SubSeq(p, 1, m)
           /\ m \in 0 .. Len(p)
<1>1. m \in 0 .. Len(p) /\ n \in Nat /\ m <= n
  OBVIOUS
<1>2. SubSeq(p, 1, n) \in Seq(S) /\ Len(SubSeq(p, 1, n)) = n
      /\ \A i \in 1 .. n : SubSeq(p, 1, n)[i] = p[i]
  OBVIOUS
<1> DEFINE a == SubSeq(SubSeq(p, 1, n), 1, m)
<1>3. a \in Seq(S) /\ Len(a) = m /\ \A i \in 1 .. m : a[i] = SubSeq(p, 1, n)[i]
  BY <1>1, <1>2
<1> DEFINE b == SubSeq(p, 1, m)
<1>4. b \in Seq(S) /\ Len(b) = m /\ \A i \in 1 .. m : b[i] = p[i]
  BY <1>1
<1>5. \A i \in 1 .. m : a[i] = b[i]
  BY <1>1, <1>2, <1>3, <1>4
<1> HIDE DEF a, b
<1>6. a = b
  BY <1>1, <1>3, <1>4, <1>5
<1>7. QED BY <1>1, <1>6 DEF a, b

LEMMA SamePrefix ==
    ASSUME NEW S, NEW p \in Seq(S), NEW q \in Seq(S), NEW n \in Nat,
           n <= Len(p), n <= Len(q), \A i \in 1 .. n : p[i] = q[i]
    PROVE  SubSeq(p, 1, n) = SubSeq(q, 1, n)
<1> DEFINE a == SubSeq(p, 1, n)
           b == SubSeq(q, 1, n)
<1>1. a \in Seq(S) /\ Len(a) = n /\ \A i \in 1 .. n : a[i] = p[i]
  OBVIOUS
<1>2. b \in Seq(S) /\ Len(b) = n /\ \A i \in 1 .. n : b[i] = q[i]
  OBVIOUS
<1> HIDE DEF a, b
<1>3. a = b
  BY <1>1, <1>2
<1>4. QED BY <1>3 DEF a, b

LEMMA WholePrefix ==
    ASSUME NEW S, NEW p \in Seq(S)
    PROVE  SubSeq(p, 1, Len(p)) = p
  OBVIOUS

(* The depth of the first n scopes.                                        *)
LEMMA DepthSteps ==
    ASSUME NEW p \in Seq(Nat)
    PROVE  /\ DepthOf(p, 0) = 0
           /\ \A n \in 0 .. Len(p) : DepthOf(p, n) \in Nat
           /\ \A n \in 1 .. Len(p) : DepthOf(p, n) = DepthOf(p, n - 1) + p[n]
           /\ DepthOf(p, Len(p)) = Depth(p)
<1>0. Len(p) \in Nat
  OBVIOUS
<1>1. PICK f : IsSum(f, p)
  BY SumExists
<1>2. ASSUME NEW n \in 0 .. Len(p)
      PROVE  DepthOf(p, n) = f[n] /\ f[n] \in Nat
  <2>1. PICK q \in Seq(Nat) : q = SubSeq(p, 1, n) /\ Len(q) = n
                              /\ \A i \in 1 .. n : q[i] = p[i]
    BY SubSeqFacts, ZenonT(40)
  <2>2. PICK g : IsSum(g, q)
    BY SumExists
  <2>3. n \in Nat /\ n <= Len(p)
    OBVIOUS
  <2>4. \A i \in 1 .. Len(q) : p[i] = q[i]
    BY <2>1
  <2>5. Len(q) <= Len(p)
    BY <2>1, <2>3
  <2>6. \A i \in 0 .. Len(q) : f[i] = g[i] /\ g[i] \in Nat
    BY <2>2, <2>4, <2>5, <1>1, SumsAgree
  <2>7. n \in 0 .. Len(q)
    BY <2>1, <2>3
  <2>8. Depth(q) = g[n]
    BY <2>1, <2>2, DepthIsSum
  <2>9. QED BY <2>1, <2>6, <2>7, <2>8 DEF DepthOf
<1>3. ASSUME NEW i \in 0 .. Len(p) PROVE f[i] = IF i = 0 THEN 0 ELSE f[i - 1] + p[i]
  <2>1. f[i] = [j \in 0 .. Len(p) |-> IF j = 0 THEN 0 ELSE f[j - 1] + p[j]][i]
    BY <1>1 DEF IsSum
  <2>2. QED BY <2>1
<1>4. DepthOf(p, 0) = 0
  BY <1>0, <1>2, <1>3
<1>5. ASSUME NEW n \in 1 .. Len(p) PROVE DepthOf(p, n) = DepthOf(p, n - 1) + p[n]
  <2>1. n \in 0 .. Len(p) /\ n - 1 \in 0 .. Len(p) /\ n # 0
    OBVIOUS
  <2>2. QED BY <2>1, <1>2, <1>3
<1>6. DepthOf(p, Len(p)) = Depth(p)
  BY WholePrefix DEF DepthOf
<1>7. QED BY <1>2, <1>4, <1>5, <1>6

LEMMA DepthGrows ==
    ASSUME NEW p \in Seq(Nat), NEW m \in 0 .. Len(p), NEW n \in 0 .. Len(p), m <= n
    PROVE  DepthOf(p, m) <= DepthOf(p, n)
<1> DEFINE T == {k \in 0 .. n : m <= k => DepthOf(p, m) <= DepthOf(p, k)}
<1>0. m \in Nat /\ n \in Nat /\ Len(p) \in Nat /\ n <= Len(p)
  OBVIOUS
<1>1. DepthOf(p, m) \in Nat
  BY DepthSteps
<1>2. 0 \in T
  <2>1. m <= 0 => m = 0
    BY <1>0
  <2>2. 0 \in 0 .. n
    BY <1>0
  <2>3. QED BY <1>1, <2>1, <2>2
<1>3. ASSUME NEW k \in 0 .. n, k < n, k \in T PROVE k + 1 \in T
  <2>1. k + 1 \in 0 .. n /\ k + 1 \in 1 .. Len(p) /\ (k + 1) - 1 = k /\ k \in 0 .. Len(p)
    BY <1>0, <1>3
  <2>2. DepthOf(p, k + 1) = DepthOf(p, k) + p[k + 1] /\ p[k + 1] \in Nat
    BY <2>1, DepthSteps, SMTT(30)
  <2>3. DepthOf(p, k) \in Nat
    BY <2>1, DepthSteps
  <2>4. CASE m = k + 1
    BY <2>1, <2>4, <1>1
  <2>5. CASE m <= k
    <3>1. DepthOf(p, m) <= DepthOf(p, k)
      BY <1>3, <2>5
    <3>2. DepthOf(p, m) <= DepthOf(p, k + 1)
      BY <3>1, <2>2, <2>3, <1>1
    <3>3. QED BY <3>2, <2>1
  <2>6. CASE ~(m <= k + 1)
    BY <2>1, <2>6
  <2>7. m = k + 1 \/ m <= k \/ ~(m <= k + 1)
    BY <1>0
  <2>8. QED BY <2>4, <2>5, <2>6, <2>7
<1>4. \A k \in 0 .. n : k \in T
  <2> HIDE DEF T
  <2> QED BY <1>0, <1>2, <1>3, Induction
<1>5. n \in 0 .. n
  BY <1>0
<1>6. QED BY <1>4, <1>5

(* Only the first n scopes count.                                          *)
LEMMA DepthSame ==
    ASSUME NEW p \in Seq(Nat), NEW q \in Seq(Nat), NEW n \in Nat,
           n <= Len(p), n <= Len(q), \A i \in 1 .. n : p[i] = q[i]
    PROVE  DepthOf(p, n) = DepthOf(q, n)
  BY SamePrefix DEF DepthOf

(* A jump that the checker allows never goes deeper.                       *)
LEMMA AllowedNotDeeper ==
    ASSUME NEW from \in Seq(Nat), NEW to \in Seq(Nat), JumpAllowed(from, to)
    PROVE  /\ Depth(to) <= Depth(from)
           /\ \A i \in 1 .. Len(to) : i <= Len(from) => to[i] <= from[i]
<1>0. Len(from) \in Nat /\ Len(to) \in Nat
  OBVIOUS
<1>1. ASSUME NEW i \in 1 .. Len(to)
      PROVE  to[i] <= IF i <= Len(from) THEN from[i] ELSE 0
  <2>1. i \in 1 .. (IF Len(from) < Len(to) THEN Len(to) ELSE Len(from))
    BY <1>0
  <2>2. i <= Len(to)
    OBVIOUS
  <2>3. QED BY <2>1, <2>2 DEF JumpAllowed
<1> DEFINE Reach(n) == IF n <= Len(from) THEN n ELSE Len(from)
<1> DEFINE T == {n \in 0 .. Len(to) : DepthOf(to, n) <= DepthOf(from, Reach(n))}
<1>2. 0 \in T
  <2>1. Reach(0) = 0 /\ 0 \in 0 .. Len(to)
    BY <1>0
  <2>2. DepthOf(to, 0) = 0 /\ DepthOf(from, 0) = 0
    BY DepthSteps
  <2>3. QED BY <2>1, <2>2
<1>3. ASSUME NEW n \in 0 .. Len(to), n < Len(to), n \in T PROVE n + 1 \in T
  <2>1. n + 1 \in 1 .. Len(to) /\ (n + 1) - 1 = n /\ n + 1 \in 0 .. Len(to)
    BY <1>3, <1>0
  <2>2. DepthOf(to, n + 1) = DepthOf(to, n) + to[n + 1] /\ to[n + 1] \in Nat
    BY <2>1, DepthSteps
  <2>3. DepthOf(to, n) \in Nat
    BY DepthSteps
  <2>4. CASE n + 1 <= Len(from)
    <3>1. n + 1 \in 1 .. Len(from) /\ n \in 0 .. Len(from) /\ n <= Len(from)
      BY <2>4, <1>0
    <3>2. DepthOf(from, n + 1) = DepthOf(from, n) + from[n + 1] /\ from[n + 1] \in Nat
          /\ DepthOf(from, n) \in Nat
      BY <3>1, <2>1, DepthSteps, SMTT(30)
    <3>3. to[n + 1] <= from[n + 1]
      BY <1>1, <2>1, <2>4
    <3>4. DepthOf(to, n) <= DepthOf(from, n)
      BY <1>3, <3>1
    <3>5. DepthOf(to, n + 1) <= DepthOf(from, n + 1)
      BY <3>2, <3>3, <3>4, <2>2, <2>3, SMTT(30)
    <3>6. QED BY <3>5, <2>1, <2>4
  <2>5. CASE ~(n + 1 <= Len(from))
    <3>1. to[n + 1] <= 0
      BY <1>1, <2>1, <2>5
    <3>2. Reach(n) = Len(from) /\ Reach(n + 1) = Len(from)
      BY <2>5, <1>0
    <3>3. DepthOf(to, n) <= DepthOf(from, Len(from))
      BY <1>3, <3>2
    <3>4. DepthOf(to, n + 1) = DepthOf(to, n)
      BY <2>2, <2>3, <3>1
    <3>5. QED BY <3>2, <3>3, <3>4, <2>1
  <2>6. QED BY <2>4, <2>5
<1>4. \A n \in 0 .. Len(to) : n \in T
  <2> HIDE DEF T
  <2> QED BY <1>0, <1>2, <1>3, Induction
<1>5. Depth(to) <= Depth(from)
  <2>1. Len(to) \in 0 .. Len(to) /\ Reach(Len(to)) \in 0 .. Len(from)
        /\ Len(from) \in 0 .. Len(from) /\ Reach(Len(to)) <= Len(from)
    BY <1>0
  <2>2. DepthOf(to, Len(to)) <= DepthOf(from, Reach(Len(to)))
    BY <1>4, <2>1
  <2>3. DepthOf(from, Reach(Len(to))) <= DepthOf(from, Len(from))
    <3> HIDE DEF Reach
    <3> QED BY <2>1, DepthGrows
  <2>4. DepthOf(from, Reach(Len(to))) \in Nat /\ DepthOf(from, Len(from)) = Depth(from)
    <3> HIDE DEF Reach
    <3> QED BY <2>1, DepthSteps
  <2>5. DepthOf(to, Len(to)) = Depth(to) /\ Depth(to) \in Nat /\ Depth(from) \in Nat
    BY <2>1, DepthSteps
  <2> HIDE DEF Reach
  <2>6. QED BY <2>2, <2>3, <2>4, <2>5
<1>6. QED BY <1>1, <1>5

(* Prefixes, element by element.                                           *)
LEMMA PrefixElements ==
    ASSUME NEW S, NEW u \in Seq(S), NEW v \in Seq(S)
    PROVE  Prefix(u, v) <=> Len(u) <= Len(v) /\ \A i \in 1 .. Len(u) : u[i] = v[i]
<1>0. Len(u) \in Nat /\ Len(v) \in Nat
  OBVIOUS
<1>1. ASSUME Prefix(u, v)
      PROVE  Len(u) <= Len(v) /\ \A i \in 1 .. Len(u) : u[i] = v[i]
  <2>1. Len(u) <= Len(v) /\ SubSeq(v, 1, Len(u)) = u
    BY <1>1 DEF Prefix
  <2>2. Len(u) \in 0 .. Len(v)
    BY <2>1, <1>0
  <2>3. \A i \in 1 .. Len(u) : SubSeq(v, 1, Len(u))[i] = v[i]
    BY <2>2, SubSeqFacts
  <2>4. QED BY <2>1, <2>3
<1>2. ASSUME Len(u) <= Len(v), \A i \in 1 .. Len(u) : u[i] = v[i]
      PROVE  Prefix(u, v)
  <2>1. SubSeq(u, 1, Len(u)) = SubSeq(v, 1, Len(u))
    <3>1. Len(u) <= Len(u)
      BY <1>0
    <3>2. QED BY <1>0, <1>2, <3>1, SamePrefix
  <2>2. SubSeq(u, 1, Len(u)) = u
    BY WholePrefix
  <2>3. QED BY <2>1, <2>2, <1>2 DEF Prefix
<1>3. QED BY <1>1, <1>2

LEMMA PrefixRefl ==
    ASSUME NEW S, NEW u \in Seq(S)
    PROVE  Prefix(u, u)
<1>1. Len(u) \in Nat
  OBVIOUS
<1>2. Len(u) <= Len(u)
  BY <1>1
<1>3. QED BY <1>2, PrefixElements

LEMMA PrefixTrans ==
    ASSUME NEW S, NEW u \in Seq(S), NEW v \in Seq(S), NEW w \in Seq(S),
           Prefix(u, v), Prefix(v, w)
    PROVE  Prefix(u, w)
<1>1. Len(u) \in Nat /\ Len(v) \in Nat /\ Len(w) \in Nat
  OBVIOUS
<1>2. Len(u) <= Len(v) /\ \A i \in 1 .. Len(u) : u[i] = v[i]
  BY PrefixElements
<1>3. Len(v) <= Len(w) /\ \A i \in 1 .. Len(v) : v[i] = w[i]
  BY PrefixElements
<1>4. Len(u) <= Len(w) /\ \A i \in 1 .. Len(u) : u[i] = w[i]
  BY <1>1, <1>2, <1>3
<1>5. QED BY <1>4, PrefixElements

LEMMA PrefixTaken ==
    ASSUME NEW S, NEW v \in Seq(S), NEW n \in 0 .. Len(v)
    PROVE  Prefix(SubSeq(v, 1, n), v)
<1>1. SubSeq(v, 1, n) \in Seq(S) /\ Len(SubSeq(v, 1, n)) = n
      /\ \A i \in 1 .. n : SubSeq(v, 1, n)[i] = v[i]
  BY SubSeqFacts
<1>2. n <= Len(v)
  OBVIOUS
<1>3. QED BY <1>1, <1>2, PrefixElements

-----------------------------------------------------------------------------
(* The constructs that are open and the scopes they have.                  *)
Entry == [kind : AllKinds, id : Nat, outer : Seq(Nat), local : Nat, first : Nat]

(* How many of the first i constructs are of some kinds; the scope that is *)
(* innermost when only these are open; the path to the i-th; what is       *)
(* deferred when only the first i are open.                                *)
CountIn(s, K, i) == Cardinality({j \in 1 .. i : s[j].kind \in K})
Scoping == AllKinds \ {"cond"}
ScopeOf(s, i) == 1 + CountIn(s, Scoping, i)
PathOf(s, i) == [j \in 1 .. i |-> s[j].id]
DeferredAt(s, p, d, i) == SubSeq(d, 1, DepthOf(p, ScopeOf(s, i)))

LEMMA CountSteps ==
    ASSUME NEW s \in Seq(Entry), NEW K
    PROVE  /\ CountIn(s, K, 0) = 0
           /\ \A i \in 0 .. Len(s) : CountIn(s, K, i) \in Nat
           /\ \A i \in 1 .. Len(s) :
                  CountIn(s, K, i) = CountIn(s, K, i - 1)
                                     + IF s[i].kind \in K THEN 1 ELSE 0
<1> DEFINE Js(i) == {j \in 1 .. i : s[j].kind \in K}
<1>1. ASSUME NEW i \in Nat PROVE IsFiniteSet(Js(i)) /\ Cardinality(Js(i)) \in Nat
  <2>1. IsFiniteSet(1 .. i)
    BY FS_Interval
  <2>2. Js(i) \subseteq 1 .. i
    OBVIOUS
  <2> HIDE DEF Js
  <2>3. IsFiniteSet(Js(i))
    BY <2>1, <2>2, FS_Subset
  <2>4. QED BY <2>3, FS_CardinalityType
<1>2. CountIn(s, K, 0) = 0
  <2>1. Js(0) = {}
    OBVIOUS
  <2>2. Cardinality({}) = 0
    BY FS_EmptySet
  <2>3. QED BY <2>1, <2>2 DEF CountIn
<1>3. ASSUME NEW i \in 0 .. Len(s) PROVE CountIn(s, K, i) \in Nat
  <2>1. i \in Nat
    OBVIOUS
  <2>2. QED BY <2>1, <1>1 DEF CountIn
<1>4. ASSUME NEW i \in 1 .. Len(s)
      PROVE  CountIn(s, K, i) = CountIn(s, K, i - 1) + IF s[i].kind \in K THEN 1 ELSE 0
  <2>1. i - 1 \in Nat /\ i \in Nat
    OBVIOUS
  <2>2. CASE s[i].kind \in K
    <3>1. Js(i) = Js(i - 1) \cup {i} /\ i \notin Js(i - 1)
      BY <2>1, <2>2
    <3>2. Cardinality(Js(i)) = Cardinality(Js(i - 1)) + 1
      <4> HIDE DEF Js
      <4> QED BY <3>1, <2>1, <1>1, FS_AddElement
    <3>3. QED BY <3>2, <2>2 DEF CountIn
  <2>3. CASE s[i].kind \notin K
    <3>1. Js(i) = Js(i - 1)
      BY <2>1, <2>3
    <3>2. Cardinality(Js(i - 1)) \in Nat
      <4> HIDE DEF Js
      <4> QED BY <2>1, <1>1
    <3>3. CountIn(s, K, i) = CountIn(s, K, i - 1)
      BY <3>1 DEF CountIn
    <3>4. CountIn(s, K, i - 1) \in Nat
      BY <3>2 DEF CountIn
    <3>5. QED BY <3>3, <3>4, <2>3
  <2>4. QED BY <2>2, <2>3
<1>5. QED BY <1>2, <1>3, <1>4

LEMMA CountStep ==
    ASSUME NEW s \in Seq(Entry), NEW K, NEW n \in Nat, n + 1 \in 1 .. Len(s)
    PROVE  CountIn(s, K, n + 1) = CountIn(s, K, n) + IF s[n + 1].kind \in K THEN 1 ELSE 0
<1>1. PICK i \in 1 .. Len(s) : i = n + 1
  OBVIOUS
<1>2. CountIn(s, K, i) = CountIn(s, K, i - 1) + IF s[i].kind \in K THEN 1 ELSE 0
  <2>1. \A j \in 1 .. Len(s) :
            CountIn(s, K, j) = CountIn(s, K, j - 1) + IF s[j].kind \in K THEN 1 ELSE 0
    BY CountSteps
  <2>2. QED BY <2>1
<1>3. i - 1 = n
  BY <1>1
<1>4. QED BY <1>1, <1>2, <1>3

LEMMA CountGrows ==
    ASSUME NEW s \in Seq(Entry), NEW K,
           NEW m \in 0 .. Len(s), NEW n \in 0 .. Len(s), m <= n
    PROVE  CountIn(s, K, m) <= CountIn(s, K, n)
<1> DEFINE Js(i) == {j \in 1 .. i : s[j].kind \in K}
<1>1. n \in Nat /\ Js(m) \subseteq Js(n) /\ Js(n) \subseteq 1 .. n
  OBVIOUS
<1>2. IsFiniteSet(1 .. n)
  BY <1>1, FS_Interval
<1> HIDE DEF Js
<1>3. IsFiniteSet(Js(n))
  BY <1>1, <1>2, FS_Subset
<1>4. Cardinality(Js(m)) <= Cardinality(Js(n))
  BY <1>1, <1>3, FS_Subset
<1>5. QED BY <1>4 DEF CountIn, Js

(* No construct of these kinds is opened after the m-th.                   *)
LEMMA CountStays ==
    ASSUME NEW s \in Seq(Entry), NEW K,
           NEW m \in 0 .. Len(s), \A j \in 1 .. Len(s) : m < j => s[j].kind \notin K
    PROVE  CountIn(s, K, m) = CountIn(s, K, Len(s))
<1>1. {j \in 1 .. m : s[j].kind \in K} = {j \in 1 .. Len(s) : s[j].kind \in K}
  OBVIOUS
<1>2. QED BY <1>1 DEF CountIn

LEMMA CountSame ==
    ASSUME NEW s \in Seq(Entry), NEW t \in Seq(Entry), NEW K, NEW m \in Nat,
           m <= Len(s), m <= Len(t), \A j \in 1 .. m : s[j] = t[j]
    PROVE  \A i \in 0 .. m : CountIn(s, K, i) = CountIn(t, K, i)
<1>1. ASSUME NEW i \in 0 .. m
      PROVE  {j \in 1 .. i : s[j].kind \in K} = {j \in 1 .. i : t[j].kind \in K}
  <2>1. \A j \in 1 .. i : s[j] = t[j]
    OBVIOUS
  <2>2. QED BY <2>1
<1>2. QED BY <1>1 DEF CountIn

LEMMA ScopeSteps ==
    ASSUME NEW s \in Seq(Entry)
    PROVE  /\ ScopeOf(s, 0) = 1
           /\ \A i \in 0 .. Len(s) : ScopeOf(s, i) \in Nat /\ 1 <= ScopeOf(s, i)
           /\ \A i \in 1 .. Len(s) :
                  ScopeOf(s, i) = ScopeOf(s, i - 1)
                                  + IF s[i].kind \in Scoping THEN 1 ELSE 0
           /\ \A m, n \in 0 .. Len(s) : m <= n => ScopeOf(s, m) <= ScopeOf(s, n)
<1>1. CountIn(s, Scoping, 0) = 0
  BY CountSteps
<1>2. \A i \in 0 .. Len(s) : CountIn(s, Scoping, i) \in Nat
  BY CountSteps
<1>3. \A i \in 1 .. Len(s) :
         CountIn(s, Scoping, i) = CountIn(s, Scoping, i - 1)
                                  + IF s[i].kind \in Scoping THEN 1 ELSE 0
  BY CountSteps
<1>4. \A i \in 1 .. Len(s) : i \in 0 .. Len(s) /\ i - 1 \in 0 .. Len(s)
  OBVIOUS
<1>5. \A m, n \in 0 .. Len(s) : m <= n => CountIn(s, Scoping, m) <= CountIn(s, Scoping, n)
  BY CountGrows
<1>6. ScopeOf(s, 0) = 1
  BY <1>1 DEF ScopeOf
<1>7. ASSUME NEW i \in 0 .. Len(s) PROVE ScopeOf(s, i) \in Nat /\ 1 <= ScopeOf(s, i)
  BY <1>2 DEF ScopeOf
<1>8. ASSUME NEW i \in 1 .. Len(s)
      PROVE  ScopeOf(s, i) = ScopeOf(s, i - 1) + IF s[i].kind \in Scoping THEN 1 ELSE 0
  <2>1. CountIn(s, Scoping, i - 1) \in Nat
    BY <1>2, <1>4
  <2>2. CountIn(s, Scoping, i) = CountIn(s, Scoping, i - 1)
                                 + IF s[i].kind \in Scoping THEN 1 ELSE 0
    BY <1>3
  <2>3. QED BY <2>1, <2>2 DEF ScopeOf
<1>9. ASSUME NEW m \in 0 .. Len(s), NEW n \in 0 .. Len(s), m <= n
      PROVE  ScopeOf(s, m) <= ScopeOf(s, n)
  BY <1>2, <1>5, <1>9 DEF ScopeOf
<1>10. QED BY <1>6, <1>7, <1>8, <1>9

(* Two walks that agree up to the m-th construct and its scope.            *)
SameUpTo(s, t, p, q, m) ==
    /\ m <= Len(s) /\ m <= Len(t) /\ \A j \in 1 .. m : s[j] = t[j]
    /\ ScopeOf(s, m) <= Len(p) /\ ScopeOf(s, m) <= Len(q)
    /\ \A j \in 1 .. ScopeOf(s, m) : p[j] = q[j]

LEMMA WalksAgree ==
    ASSUME NEW s \in Seq(Entry), NEW t \in Seq(Entry), NEW m \in Nat,
           NEW p \in Seq(Nat), NEW q \in Seq(Nat), SameUpTo(s, t, p, q, m)
    PROVE  \A i \in 0 .. m :
               /\ ScopeOf(t, i) = ScopeOf(s, i)
               /\ ScopeOf(s, i) <= ScopeOf(s, m)
               /\ DepthOf(q, ScopeOf(s, i)) = DepthOf(p, ScopeOf(s, i))
               /\ DepthOf(q, ScopeOf(s, i) - 1) = DepthOf(p, ScopeOf(s, i) - 1)
               /\ PathOf(t, i) = PathOf(s, i)
<1> SUFFICES ASSUME NEW i \in 0 .. m
             PROVE  /\ ScopeOf(t, i) = ScopeOf(s, i)
                    /\ ScopeOf(s, i) <= ScopeOf(s, m)
                    /\ DepthOf(q, ScopeOf(s, i)) = DepthOf(p, ScopeOf(s, i))
                    /\ DepthOf(q, ScopeOf(s, i) - 1) = DepthOf(p, ScopeOf(s, i) - 1)
                    /\ PathOf(t, i) = PathOf(s, i)
  OBVIOUS
<1> USE DEF SameUpTo
<1>1. i \in 0 .. Len(s) /\ m \in 0 .. Len(s) /\ i <= m
  OBVIOUS
<1>2. ScopeOf(t, i) = ScopeOf(s, i)
  BY CountSame, SMTT(30) DEF ScopeOf
<1>3. ScopeOf(s, i) <= ScopeOf(s, m) /\ ScopeOf(s, i) \in Nat /\ 1 <= ScopeOf(s, i)
      /\ ScopeOf(s, m) \in Nat
  BY <1>1, ScopeSteps
<1>4. PICK k \in Nat : k = ScopeOf(s, i)
  BY <1>3
<1>5. Len(p) \in Nat /\ Len(q) \in Nat
  OBVIOUS
<1>6. k <= Len(p) /\ k <= Len(q) /\ (\A j \in 1 .. k : p[j] = q[j]) /\ 1 <= k
  BY <1>3, <1>4, <1>5, SMTT(30)
<1>7. DepthOf(q, k) = DepthOf(p, k)
  BY <1>6, DepthSame
<1>8. k - 1 \in Nat /\ k - 1 <= Len(p) /\ k - 1 <= Len(q)
      /\ \A j \in 1 .. k - 1 : p[j] = q[j]
  BY <1>6, <1>5
<1>9. DepthOf(q, k - 1) = DepthOf(p, k - 1)
  BY <1>8, DepthSame
<1>10. \A j \in 1 .. i : s[j] = t[j]
  OBVIOUS
<1>11. PathOf(t, i) = PathOf(s, i)
  BY <1>10 DEF PathOf
<1>12. QED BY <1>2, <1>3, <1>4, <1>7, <1>9, <1>11

-----------------------------------------------------------------------------
Places == [position : Seq(Nat), path : Seq(Nat), outer : Seq(Seq(Nat)), deferred : Seq(Nat)]

(* Every open construct remembers where the stack of deferred calls was,   *)
(* and the scopes around it have not changed since.  The arguments are the *)
(* open constructs, the defers of the scopes, the deferred calls and the   *)
(* number of statements.                                                   *)
EntryAgrees(s, p, d, n, i) ==
    /\ Len(s[i].outer) = DepthOf(p, ScopeOf(s, i - 1) - 1) + s[i].local
    /\ s[i].kind \in Scoping => p[ScopeOf(s, i - 1)] = s[i].local
    /\ Prefix(s[i].outer, d)
    /\ s[i].id < n

ScopesAgree(s, p, d, n) ==
    /\ Len(p) = ScopeOf(s, Len(s))
    /\ Depth(p) = Len(d)
    /\ \A i \in 1 .. Len(s) : EntryAgrees(s, p, d, n, i)
    /\ \A i, j \in 1 .. Len(s) : i <= j => Len(s[i].outer) <= Len(s[j].outer)

(* A place that has been passed.                                           *)
Passed(place, n) ==
    /\ Depth(place.position) = Len(place.deferred)
    /\ \A j \in 1 .. Len(place.path) : place.path[j] < n

(* A label in a construct that is open: what was deferred there still is.  *)
LabelBelow(place, s, p, d) ==
    \A i \in 0 .. Len(s) :
        Prefix(place.path, PathOf(s, i)) => Prefix(place.deferred, DeferredAt(s, p, d, i))

(* A goto from inside of constructs that are open: if nothing was deferred *)
(* since, what is deferred was deferred there.                             *)
GotoAboveAt(place, s, p, d, i) ==
    LET m == ScopeOf(s, i) IN
    /\ m <= Len(place.position)
    /\ place.position[m] <= p[m]
    /\ p[m] = place.position[m] => Prefix(DeferredAt(s, p, d, i), place.deferred)

(* The same for the constructs that a place has in common with others.      *)
Upto(place, k) == [place EXCEPT !.path = SubSeq(place.path, 1, k)]

LabelHolds(place, s, p, d) ==
    \A k \in 0 .. Len(place.path) :
        NothingBeyond(place, k) => LabelBelow(Upto(place, k), s, p, d)

GotoAbove(place, s, p, d) ==
    \A i \in 0 .. Len(s) :
        Prefix(PathOf(s, i), place.path) => GotoAboveAt(place, s, p, d, i)

LEMMA PathTyped ==
    ASSUME NEW s \in Seq(Entry), NEW i \in 0 .. Len(s)
    PROVE  /\ PathOf(s, i) \in Seq(Nat) /\ Len(PathOf(s, i)) = i
           /\ \A j \in 1 .. i : PathOf(s, i)[j] = s[j].id
<1>1. i \in Nat /\ \A j \in 1 .. i : s[j] \in Entry
  OBVIOUS
<1>2. \A j \in 1 .. i : s[j].id \in Nat
  BY <1>1 DEF Entry
<1>3. PathOf(s, i) \in [1 .. i -> Nat]
  BY <1>2 DEF PathOf
<1>4. PathOf(s, i) \in Seq(Nat) /\ Len(PathOf(s, i)) = i
  BY <1>1, <1>3
<1>5. QED BY <1>4 DEF PathOf

(* The scopes have defers that are all on the stack.                       *)
LEMMA ScopesBelow ==
    ASSUME NEW s \in Seq(Entry), NEW p \in Seq(Nat), NEW d \in Seq(Nat), NEW n \in Nat,
           ScopesAgree(s, p, d, n), NEW i \in 0 .. Len(s)
    PROVE  /\ ScopeOf(s, i) \in 1 .. Len(p)
           /\ DepthOf(p, ScopeOf(s, i)) \in 0 .. Len(d)
           /\ DeferredAt(s, p, d, i) \in Seq(Nat)
           /\ Len(DeferredAt(s, p, d, i)) = DepthOf(p, ScopeOf(s, i))
           /\ Prefix(DeferredAt(s, p, d, i), d)
           /\ DeferredAt(s, p, d, Len(s)) = d
<1>1. Len(s) \in 0 .. Len(s) /\ i <= Len(s) /\ Len(p) \in Nat /\ Len(d) \in Nat
  OBVIOUS
<1>2. Len(p) = ScopeOf(s, Len(s)) /\ Depth(p) = Len(d)
  BY DEF ScopesAgree
<1>3. ScopeOf(s, i) \in Nat /\ 1 <= ScopeOf(s, i) /\ ScopeOf(s, i) <= ScopeOf(s, Len(s))
  BY <1>1, ScopeSteps
<1>4. PICK k \in 1 .. Len(p) : k = ScopeOf(s, i)
  BY <1>1, <1>2, <1>3
<1>5. k \in 0 .. Len(p) /\ Len(p) \in 0 .. Len(p) /\ k <= Len(p)
  BY <1>1
<1>6. DepthOf(p, k) \in Nat /\ DepthOf(p, k) <= DepthOf(p, Len(p))
      /\ DepthOf(p, Len(p)) = Depth(p)
  BY <1>5, DepthSteps, DepthGrows
<1>7. PICK c \in 0 .. Len(d) : c = DepthOf(p, k)
  BY <1>1, <1>2, <1>6
<1>8. SubSeq(d, 1, c) \in Seq(Nat) /\ Len(SubSeq(d, 1, c)) = c
  BY SubSeqFacts
<1>9. Prefix(SubSeq(d, 1, c), d)
  BY PrefixTaken
<1>10. DeferredAt(s, p, d, Len(s)) = d
  BY <1>2, <1>6, WholePrefix DEF DeferredAt
<1>11. QED BY <1>4, <1>7, <1>8, <1>9, <1>10 DEF DeferredAt

(* The places that were passed stay where they are.                        *)
PlacesKept(n, s, p, d, t, q, c) ==
    \A place \in Places :
        Passed(place, n) =>
            /\ LabelBelow(place, s, p, d) => LabelBelow(place, t, q, c)
            /\ GotoAbove(place, s, p, d) => GotoAbove(place, t, q, c)

LEMMA LabelKept ==
    ASSUME NEW n \in Nat, NEW s, NEW p, NEW d, NEW t, NEW q, NEW c,
           PlacesKept(n, s, p, d, t, q, c),
           NEW place \in Places, Passed(place, n), LabelHolds(place, s, p, d)
    PROVE  LabelHolds(place, t, q, c)
<1> SUFFICES ASSUME NEW k \in 0 .. Len(place.path), NothingBeyond(place, k)
             PROVE  LabelBelow(Upto(place, k), t, q, c)
  BY DEF LabelHolds
<1>1. place.path \in Seq(Nat)
  BY DEF Places
<1>2. PICK path \in Seq(Nat) : /\ path = SubSeq(place.path, 1, k) /\ Len(path) = k
                               /\ \A j \in 1 .. k : path[j] = place.path[j]
  <2>1. PICK r \in Seq(Nat) : r = place.path
    BY <1>1
  <2>2. /\ SubSeq(r, 1, k) \in Seq(Nat) /\ Len(SubSeq(r, 1, k)) = k
        /\ \A j \in 1 .. k : SubSeq(r, 1, k)[j] = r[j]
    BY <2>1, SubSeqFacts
  <2>3. QED BY <2>1, <2>2
<1>3. Upto(place, k) = [place EXCEPT !.path = path]
  BY <1>2 DEF Upto
<1>4. [place EXCEPT !.path = path] \in Places
  BY DEF Places
<1>5. \A j \in 1 .. k : j \in 1 .. Len(place.path)
  BY <1>1
<1>6. Passed([place EXCEPT !.path = path], n)
  BY <1>2, <1>5 DEF Passed, Places
<1>7. LabelBelow([place EXCEPT !.path = path], s, p, d)
  BY <1>3 DEF LabelHolds
<1>8. QED BY <1>3, <1>4, <1>6, <1>7 DEF PlacesKept

ScopeEntered(e, p, q) == q = IF e.kind \in Scoping THEN Append(p, 0) ELSE p

LEMMA EnterWalk ==
    ASSUME NEW s \in Seq(Entry), NEW p \in Seq(Nat), NEW d \in Seq(Nat), NEW n \in Nat,
           ScopesAgree(s, p, d, n),
           NEW e \in Entry, e.id = n, e.outer = d, e.local = p[Len(p)],
           NEW q \in Seq(Nat), ScopeEntered(e, p, q)
    PROVE  /\ ScopesAgree(Append(s, e), q, d, n + 1)
           /\ PlacesKept(n, s, p, d, Append(s, e), q, d)
<1> DEFINE t == Append(s, e)
           N == Len(s)
<1>1. t \in Seq(Entry) /\ Len(t) = N + 1 /\ N \in Nat /\ t[N + 1] = e
      /\ \A j \in 1 .. N : t[j] = s[j]
  OBVIOUS
<1>2. N \in 0 .. N
  OBVIOUS
<1>3. Len(p) = ScopeOf(s, N) /\ Len(p) \in 1 .. Len(p) /\ Depth(p) = Len(d)
  <2>1. ScopeOf(s, N) \in 1 .. Len(p)
    BY <1>2, ScopesBelow
  <2>2. QED BY <2>1 DEF ScopesAgree
<1>4. /\ Len(q) = Len(p) + IF e.kind \in Scoping THEN 1 ELSE 0
      /\ \A j \in 1 .. Len(p) : q[j] = p[j]
      /\ Len(p) <= Len(q)
      /\ e.kind \in Scoping => q[Len(q)] = 0 /\ Len(q) = Len(p) + 1
  BY DEF ScopeEntered
<1> HIDE DEF t
<1>5. \A i \in 0 .. N :
          /\ ScopeOf(t, i) = ScopeOf(s, i)
          /\ ScopeOf(s, i) <= ScopeOf(s, N)
          /\ DepthOf(q, ScopeOf(s, i)) = DepthOf(p, ScopeOf(s, i))
          /\ DepthOf(q, ScopeOf(s, i) - 1) = DepthOf(p, ScopeOf(s, i) - 1)
          /\ PathOf(t, i) = PathOf(s, i)
  <2>1. N <= Len(s) /\ N <= Len(t) /\ N \in Nat /\ Len(p) <= Len(p)
    BY <1>1, <1>3
  <2>2. \A j \in 1 .. N : s[j] = t[j]
    BY <1>1
  <2>3. \A j \in 1 .. ScopeOf(s, N) : p[j] = q[j]
    BY <1>3, <1>4
  <2>4. ScopeOf(s, N) <= Len(p) /\ ScopeOf(s, N) <= Len(q)
    BY <1>3, <1>4, <2>1
  <2>5. t \in Seq(Entry)
    BY <1>1
  <2>6. SameUpTo(s, t, p, q, N)
    BY <2>1, <2>2, <2>3, <2>4 DEF SameUpTo
  <2> HIDE DEF N
  <2>7. QED BY <2>1, <2>5, <2>6, WalksAgree
<1>6. Len(q) = ScopeOf(t, N + 1)
  <2>1. N + 1 \in 1 .. Len(t) /\ (N + 1) - 1 = N
    BY <1>1
  <2>2. ScopeOf(t, N + 1) = ScopeOf(t, N) + IF e.kind \in Scoping THEN 1 ELSE 0
    BY <1>1, <2>1, ScopeSteps
  <2>3. QED BY <2>2, <1>2, <1>3, <1>4, <1>5
<1>7. DepthOf(q, Len(q)) = DepthOf(p, Len(p))
  <2>0. DepthOf(q, Len(p)) = DepthOf(p, Len(p))
    BY <1>2, <1>3, <1>5
  <2>1. CASE e.kind \in Scoping
    <3>1. Len(q) \in 1 .. Len(q) /\ Len(q) - 1 = Len(p)
      BY <1>3, <1>4, <2>1
    <3>2. DepthOf(q, Len(q)) = DepthOf(q, Len(q) - 1) + q[Len(q)]
      BY <3>1, DepthSteps
    <3>3. DepthOf(p, Len(p)) \in Nat
      BY <1>3, DepthSteps
    <3>4. QED BY <2>0, <2>1, <3>1, <3>2, <3>3, <1>4
  <2>2. CASE e.kind \notin Scoping
    <3>1. q = p
      BY <2>2 DEF ScopeEntered
    <3>2. QED BY <3>1
  <2>3. QED BY <2>1, <2>2
<1>8. Depth(q) = Len(d)
  BY <1>3, <1>7, DepthSteps
<1>9. ASSUME NEW i \in 1 .. N PROVE EntryAgrees(t, q, d, n + 1, i)
  <2>1. EntryAgrees(s, p, d, n, i)
    BY DEF ScopesAgree
  <2>2. i \in 0 .. N /\ i - 1 \in 0 .. N /\ t[i] = s[i] /\ s[i] \in Entry
    BY <1>1
  <2>3. s[i].id < n + 1
    <3>1. s[i].id \in Nat
      BY <2>2 DEF Entry
    <3>2. s[i].id < n
      BY <2>1 DEF EntryAgrees
    <3>3. QED BY <3>1, <3>2
  <2>4. ScopeOf(t, i - 1) = ScopeOf(s, i - 1)
        /\ DepthOf(q, ScopeOf(s, i - 1) - 1) = DepthOf(p, ScopeOf(s, i - 1) - 1)
    BY <1>5, <2>2
  <2>5. q[ScopeOf(s, i - 1)] = p[ScopeOf(s, i - 1)]
    <3>1. ScopeOf(s, i - 1) \in 1 .. Len(p)
      BY <2>2, ScopesBelow
    <3>2. QED BY <3>1, <1>4
  <2>6. QED BY <2>1, <2>2, <2>3, <2>4, <2>5 DEF EntryAgrees
<1>10. EntryAgrees(t, q, d, n + 1, N + 1)
  <2>1. (N + 1) - 1 = N /\ ScopeOf(t, N) = Len(p)
    BY <1>2, <1>3, <1>5
  <2>2. DepthOf(q, Len(p) - 1) = DepthOf(p, Len(p) - 1)
    BY <1>2, <1>3, <1>5
  <2>3. DepthOf(p, Len(p)) = DepthOf(p, Len(p) - 1) + p[Len(p)]
    BY <1>3, DepthSteps
  <2>4. Len(d) = DepthOf(q, ScopeOf(t, N) - 1) + e.local
    BY <1>3, <2>1, <2>2, <2>3, DepthSteps
  <2>5. q[ScopeOf(t, N)] = e.local
    BY <1>3, <1>4, <2>1
  <2>6. Prefix(d, d)
    BY PrefixRefl
  <2>7. n < n + 1
    OBVIOUS
  <2>8. QED BY <1>1, <2>1, <2>4, <2>5, <2>6, <2>7 DEF EntryAgrees
<1>11. ASSUME NEW i \in 1 .. N + 1, NEW j \in 1 .. N + 1, i <= j
       PROVE  Len(t[i].outer) <= Len(t[j].outer)
  <2>1. CASE j = N + 1
    <3>1. t[j].outer = d
      BY <1>1, <2>1
    <3>2. EntryAgrees(t, q, d, n + 1, i)
      <4>1. i \in 1 .. N \/ i = N + 1
        BY <1>1
      <4>2. QED BY <4>1, <1>9, <1>10
    <3>3. QED BY <3>1, <3>2 DEF EntryAgrees, Prefix
  <2>2. CASE j # N + 1
    <3>1. i \in 1 .. N /\ j \in 1 .. N
      BY <1>1, <1>11, <2>2
    <3>2. Len(s[i].outer) <= Len(s[j].outer)
      BY <3>1, <1>11 DEF ScopesAgree
    <3>3. QED BY <3>1, <3>2, <1>1
  <2>3. QED BY <2>1, <2>2
<1>12. ScopesAgree(t, q, d, n + 1)
  <2>1. \A i \in 1 .. N + 1 : EntryAgrees(t, q, d, n + 1, i)
    <3>1. \A i \in 1 .. N + 1 : i \in 1 .. N \/ i = N + 1
      BY <1>1
    <3>2. QED BY <3>1, <1>9, <1>10
  <2>2. QED BY <2>1, <1>1, <1>6, <1>8, <1>11 DEF ScopesAgree
<1>13. ASSUME NEW i \in 0 .. N
       PROVE  DeferredAt(t, q, d, i) = DeferredAt(s, p, d, i)
  BY <1>5 DEF DeferredAt
<1>14. DeferredAt(t, q, d, N + 1) = d /\ DeferredAt(s, p, d, N) = d
  <2>1. DeferredAt(t, q, d, Len(t)) = d
    <3>1. n + 1 \in Nat /\ 0 \in 0 .. Len(t) /\ t \in Seq(Entry)
      BY <1>1
    <3>2. PICK k \in Nat : k = n + 1
      BY <3>1
    <3>3. ScopesAgree(t, q, d, k)
      BY <1>12, <3>2
    <3>4. QED BY <3>1, <3>3, ScopesBelow
  <2>2. QED BY <2>1, <1>1, <1>2, ScopesBelow
<1>15. ASSUME NEW place \in Places, Passed(place, n), LabelBelow(place, s, p, d)
       PROVE  LabelBelow(place, t, q, d)
  <2> SUFFICES ASSUME NEW i \in 0 .. N + 1, Prefix(place.path, PathOf(t, i))
               PROVE  Prefix(place.deferred, DeferredAt(t, q, d, i))
    BY <1>1 DEF LabelBelow
  <2>1. CASE i \in 0 .. N
    <3>1. Prefix(place.deferred, DeferredAt(s, p, d, i))
      BY <2>1, <1>5, <1>15 DEF LabelBelow
    <3>2. QED BY <3>1, <1>13, <2>1
  <2>2. CASE i = N + 1
    <3>1. place.path \in Seq(Nat)
      BY DEF Places
    <3>2. PICK path \in Seq(Nat) : path = place.path
      BY <3>1
    <3>3. /\ PathOf(t, i) \in Seq(Nat) /\ Len(PathOf(t, i)) = i
          /\ \A j \in 1 .. i : PathOf(t, i)[j] = t[j].id
      <4>1. i \in 0 .. Len(t) /\ t \in Seq(Entry)
        BY <1>1
      <4>2. QED BY <4>1, PathTyped
    <3>4. Len(path) <= i /\ \A j \in 1 .. Len(path) : path[j] = PathOf(t, i)[j]
      <4>1. PICK there \in Seq(Nat) : there = PathOf(t, i) /\ Len(there) = i
        BY <3>3
      <4>2. Prefix(path, there)
        BY <4>1, <3>2
      <4>3. Len(path) <= i /\ \A j \in 1 .. Len(path) : path[j] = there[j]
        BY <4>1, <4>2, PrefixElements
      <4>4. QED BY <4>1, <4>3
    <3>5. Len(path) # N + 1
      <4>1. SUFFICES ASSUME Len(path) = N + 1 PROVE FALSE
        OBVIOUS
      <4>2. N + 1 \in 1 .. Len(path) /\ N + 1 \in 1 .. i
        BY <4>1, <2>2, <1>1
      <4>3. path[N + 1] = n
        BY <4>2, <3>3, <3>4, <1>1
      <4>4. path[N + 1] < n
        BY <4>2, <3>2, <1>15 DEF Passed
      <4>5. QED BY <4>3, <4>4
    <3>6. Len(path) <= N /\ Len(path) \in Nat
      BY <3>4, <3>5, <2>2, <1>1
    <3>7. Prefix(path, PathOf(s, N))
      <4>1. /\ PathOf(s, N) \in Seq(Nat) /\ Len(PathOf(s, N)) = N
            /\ \A j \in 1 .. N : PathOf(s, N)[j] = s[j].id
        BY <1>2, PathTyped
      <4>2. \A j \in 1 .. Len(path) : j \in 1 .. N /\ j \in 1 .. i
        BY <3>6, <1>1, <2>2, SMTT(30)
      <4>3. \A j \in 1 .. Len(path) : path[j] = PathOf(s, N)[j]
        BY <4>1, <4>2, <3>3, <3>4, <1>1
      <4>4. QED BY <3>6, <4>1, <4>3, PrefixElements
    <3>8. Prefix(place.deferred, DeferredAt(s, p, d, N))
      BY <3>7, <3>2, <1>2, <1>15 DEF LabelBelow
    <3>9. QED BY <3>8, <1>14, <2>2
  <2>3. QED BY <2>1, <2>2, <1>1
<1>16. ASSUME NEW place \in Places, Passed(place, n), GotoAbove(place, s, p, d)
       PROVE  GotoAbove(place, t, q, d)
  <2> SUFFICES ASSUME NEW i \in 0 .. N + 1, Prefix(PathOf(t, i), place.path)
               PROVE  GotoAboveAt(place, t, q, d, i)
    BY <1>1 DEF GotoAbove
  <2>1. CASE i \in 0 .. N
    <3>1. GotoAboveAt(place, s, p, d, i)
      BY <2>1, <1>5, <1>16 DEF GotoAbove
    <3>2. ScopeOf(s, i) \in 1 .. Len(p) /\ ScopeOf(t, i) = ScopeOf(s, i)
      BY <2>1, <1>5, ScopesBelow
    <3>3. q[ScopeOf(t, i)] = p[ScopeOf(s, i)]
      BY <3>2, <1>4
    <3>4. DeferredAt(t, q, d, i) = DeferredAt(s, p, d, i)
      BY <2>1, <1>13
    <3>5. QED BY <3>1, <3>2, <3>3, <3>4 DEF GotoAboveAt
  <2>2. CASE i = N + 1
    <3>1. place.path \in Seq(Nat)
      BY DEF Places
    <3>2. PICK path \in Seq(Nat) : path = place.path
      BY <3>1
    <3>3. /\ PathOf(t, i) \in Seq(Nat) /\ Len(PathOf(t, i)) = i
          /\ \A j \in 1 .. i : PathOf(t, i)[j] = t[j].id
      <4>1. i \in 0 .. Len(t) /\ t \in Seq(Entry)
        BY <1>1
      <4>2. QED BY <4>1, PathTyped
    <3>4. i <= Len(path) /\ \A j \in 1 .. i : PathOf(t, i)[j] = path[j]
      <4>1. PICK there \in Seq(Nat) : there = PathOf(t, i) /\ Len(there) = i
        BY <3>3
      <4>2. Prefix(there, path)
        BY <4>1, <3>2
      <4>3. Len(there) <= Len(path) /\ \A j \in 1 .. Len(there) : there[j] = path[j]
        BY <4>2, PrefixElements
      <4>4. QED BY <4>1, <4>3
    <3>5. N + 1 \in 1 .. i /\ N + 1 \in 1 .. Len(path)
      BY <3>4, <2>2, <1>1
    <3>6. path[N + 1] = n
      BY <3>3, <3>4, <3>5, <1>1
    <3>7. path[N + 1] < n
      BY <3>5, <3>2, <1>16 DEF Passed
    <3>8. QED BY <3>6, <3>7
  <2>3. QED BY <2>1, <2>2, <1>1
<1>17. QED BY <1>12, <1>15, <1>16 DEF PlacesKept, t

LEMMA SamePlaces ==
    ASSUME NEW s \in Seq(Entry), NEW t \in Seq(Entry), NEW p, NEW q, NEW d, NEW c, NEW n,
           Len(t) <= Len(s),
           \A i \in 0 .. Len(t) :
               /\ PathOf(t, i) = PathOf(s, i) /\ ScopeOf(t, i) = ScopeOf(s, i)
               /\ q[ScopeOf(s, i)] = p[ScopeOf(s, i)]
               /\ DeferredAt(t, q, c, i) = DeferredAt(s, p, d, i)
    PROVE  PlacesKept(n, s, p, d, t, q, c)
<1>0. \A i \in 0 .. Len(t) : i \in 0 .. Len(s)
  OBVIOUS
<1>1. ASSUME NEW place \in Places, LabelBelow(place, s, p, d)
      PROVE  LabelBelow(place, t, q, c)
  BY <1>0, <1>1 DEF LabelBelow
<1>2. ASSUME NEW place \in Places, GotoAbove(place, s, p, d)
      PROVE  GotoAbove(place, t, q, c)
  <2> SUFFICES ASSUME NEW i \in 0 .. Len(t), Prefix(PathOf(t, i), place.path)
               PROVE  GotoAboveAt(place, t, q, c, i)
    BY DEF GotoAbove
  <2>1. GotoAboveAt(place, s, p, d, i)
    BY <1>0, <1>2 DEF GotoAbove
  <2>2. QED BY <2>1 DEF GotoAboveAt
<1>3. QED BY <1>1, <1>2 DEF PlacesKept

(* What is left when the innermost construct ends.                         *)
Left(s, p, d, t, q, c) ==
    /\ Len(s) > 0 /\ t = SubSeq(s, 1, Len(s) - 1)
    /\ IF s[Len(s)].kind \in Scoping
       THEN /\ q = SubSeq(p, 1, Len(p) - 1)
            /\ c = SubSeq(d, 1, Len(s[Len(s)].outer))
       ELSE q = p /\ c = d

LEMMA LeaveWalk ==
    ASSUME NEW s \in Seq(Entry), NEW p \in Seq(Nat), NEW d \in Seq(Nat), NEW n \in Nat,
           ScopesAgree(s, p, d, n),
           NEW t \in Seq(Entry), NEW q \in Seq(Nat), NEW c \in Seq(Nat),
           Left(s, p, d, t, q, c)
    PROVE  /\ ScopesAgree(t, q, c, n)
           /\ PlacesKept(n, s, p, d, t, q, c)
<1>1. PICK N \in Nat : N + 1 = Len(s)
  <2>1. Len(s) \in Nat /\ Len(s) > 0
    BY DEF Left
  <2>2. Len(s) - 1 \in Nat /\ (Len(s) - 1) + 1 = Len(s)
    BY <2>1
  <2>3. QED BY <2>2
<1>2. N \in 0 .. Len(s) /\ N + 1 \in 1 .. Len(s) /\ Len(s) - 1 = N /\ (N + 1) - 1 = N
      /\ N \in 0 .. N /\ N <= Len(s) /\ N + 1 \in 0 .. Len(s)
  BY <1>1
<1>3. Len(t) = N /\ \A j \in 1 .. N : t[j] = s[j]
  <2>1. t = SubSeq(s, 1, N)
    BY <1>2 DEF Left
  <2>2. QED BY <2>1, <1>2, SubSeqFacts
<1>4. PICK e \in Entry : e = s[N + 1]
  BY <1>2
<1>5. e.outer \in Seq(Nat) /\ e.local \in Nat /\ EntryAgrees(s, p, d, n, N + 1)
  BY <1>1, <1>2, <1>4 DEF Entry, ScopesAgree
<1>6. ScopeOf(s, N) \in 1 .. Len(p) /\ Len(p) = ScopeOf(s, N + 1) /\ Depth(p) = Len(d)
      /\ Len(p) \in Nat
  <2>1. ScopeOf(s, N) \in 1 .. Len(p)
    BY <1>2, ScopesBelow
  <2>2. QED BY <2>1, <1>1, SMTT(30) DEF ScopesAgree
<1>7. ScopeOf(s, N + 1) = ScopeOf(s, N) + IF e.kind \in Scoping THEN 1 ELSE 0
  BY <1>2, <1>4, ScopeSteps
(* What is left of the scopes and of what is deferred.                     *)
<1>8. /\ Len(q) = ScopeOf(s, N) /\ Len(q) <= Len(p)
      /\ \A j \in 1 .. Len(q) : q[j] = p[j]
      /\ Prefix(c, d) /\ Len(c) = DepthOf(p, Len(q))
      /\ Len(e.outer) <= Len(c)
  <2>1. CASE e.kind \in Scoping
    <3>1. q = SubSeq(p, 1, Len(p) - 1) /\ c = SubSeq(d, 1, Len(e.outer))
      BY <2>1, <1>1, <1>4 DEF Left
    <3>2. Len(p) - 1 \in 0 .. Len(p) /\ Len(p) - 1 = ScopeOf(s, N) /\ Len(p) - 1 <= Len(p)
          /\ Len(p) - 1 \in 1 .. Len(p) /\ 1 <= Len(p)
      BY <2>1, <1>6, <1>7, SMTT(30)
    <3>3. Len(q) = Len(p) - 1 /\ \A j \in 1 .. Len(q) : q[j] = p[j]
      BY <3>1, <3>2, SubSeqFacts
    <3>4. Prefix(e.outer, d)
      BY <1>4, <1>5 DEF EntryAgrees
    <3>5. c = e.outer
      BY <3>1, <3>4 DEF Prefix
    <3>6. Len(e.outer) = DepthOf(p, ScopeOf(s, N) - 1) + e.local
          /\ p[ScopeOf(s, N)] = e.local
      BY <1>2, <1>4, <1>5, <2>1 DEF EntryAgrees
    <3>7. DepthOf(p, ScopeOf(s, N)) = DepthOf(p, ScopeOf(s, N) - 1) + p[ScopeOf(s, N)]
      BY <1>6, DepthSteps
    <3>8. Len(c) = DepthOf(p, Len(q))
      BY <3>2, <3>3, <3>5, <3>6, <3>7
    <3>9. Len(c) \in Nat /\ Len(c) <= Len(c)
      OBVIOUS
    <3>10. QED BY <3>2, <3>3, <3>4, <3>5, <3>8, <3>9
  <2>2. CASE e.kind \notin Scoping
    <3>1. q = p /\ c = d
      BY <2>2, <1>1, <1>4 DEF Left
    <3>2. Len(q) = ScopeOf(s, N)
      BY <3>1, <2>2, <1>6, <1>7
    <3>3. Prefix(d, d)
      BY PrefixRefl
    <3>4. Len(d) = DepthOf(p, Len(p))
      BY <1>6, DepthSteps
    <3>5. Prefix(e.outer, d)
      BY <1>4, <1>5 DEF EntryAgrees
    <3>6. Len(e.outer) <= Len(d) /\ Len(p) <= Len(p)
      BY <3>5, <1>6 DEF Prefix
    <3>7. QED BY <3>1, <3>2, <3>3, <3>4, <3>6
  <2>3. QED BY <2>1, <2>2
<1>9. \A i \in 0 .. N :
          /\ ScopeOf(t, i) = ScopeOf(s, i)
          /\ ScopeOf(s, i) <= ScopeOf(s, N)
          /\ DepthOf(q, ScopeOf(s, i)) = DepthOf(p, ScopeOf(s, i))
          /\ DepthOf(q, ScopeOf(s, i) - 1) = DepthOf(p, ScopeOf(s, i) - 1)
          /\ PathOf(t, i) = PathOf(s, i)
  <2>1. Len(q) <= Len(q) /\ N <= Len(t)
    BY <1>3
  <2>2. SameUpTo(s, t, p, q, N)
    BY <2>1, <1>2, <1>3, <1>8 DEF SameUpTo
  <2>3. QED BY <2>2, WalksAgree
<1>10. Len(q) = ScopeOf(t, Len(t))
  BY <1>2, <1>3, <1>8, <1>9
<1>11. Depth(q) = Len(c)
  <2>1. DepthOf(q, Len(q)) = DepthOf(p, Len(q))
    BY <1>2, <1>8, <1>9
  <2>2. QED BY <2>1, <1>8, DepthSteps
<1>12. ASSUME NEW i \in 0 .. N
       PROVE  ScopeOf(s, i) \in 1 .. Len(q) /\ q[ScopeOf(s, i)] = p[ScopeOf(s, i)]
  <2>1. ScopeOf(s, i) \in 1 .. Len(p) /\ ScopeOf(s, i) <= Len(q)
    <3>1. i \in 0 .. Len(s)
      BY <1>1
    <3>2. QED BY <3>1, <1>8, <1>9, ScopesBelow
  <2>2. ScopeOf(s, i) \in 1 .. Len(q)
    BY <2>1
  <2>3. QED BY <2>2, <1>8
<1>13. ASSUME NEW i \in 1 .. N PROVE Len(s[i].outer) <= Len(c) /\ Prefix(s[i].outer, c)
  <2>1. i \in 1 .. Len(s) /\ i <= N + 1 /\ s[i] \in Entry
    BY <1>1
  <2>2. PICK u \in Seq(Nat) : u = s[i].outer
    BY <2>1 DEF Entry
  <2>3. Len(u) <= Len(e.outer)
    BY <2>1, <2>2, <1>2, <1>4 DEF ScopesAgree
  <2>4. Prefix(u, d)
    BY <2>1, <2>2 DEF ScopesAgree, EntryAgrees
  <2>5. Len(u) \in Nat /\ Len(c) \in Nat /\ Len(e.outer) \in Nat
    BY <1>5
  <2>6. Len(u) <= Len(c)
    BY <2>3, <2>5, <1>8
  <2>7. \A j \in 1 .. Len(u) : u[j] = d[j]
    BY <2>4, PrefixElements
  <2>8. \A j \in 1 .. Len(c) : c[j] = d[j]
    BY <1>8, PrefixElements
  <2>9. \A j \in 1 .. Len(u) : u[j] = c[j]
    BY <2>5, <2>6, <2>7, <2>8
  <2>10. Prefix(u, c)
    BY <2>6, <2>9, PrefixElements
  <2>11. QED BY <2>2, <2>6, <2>10
<1>14. ASSUME NEW i \in 1 .. N PROVE EntryAgrees(t, q, c, n, i)
  <2>1. i \in 1 .. Len(s) /\ i - 1 \in 0 .. N /\ t[i] = s[i]
    BY <1>1, <1>3
  <2>2. EntryAgrees(s, p, d, n, i)
    BY <2>1 DEF ScopesAgree
  <2>3. ScopeOf(t, i - 1) = ScopeOf(s, i - 1)
        /\ DepthOf(q, ScopeOf(s, i - 1) - 1) = DepthOf(p, ScopeOf(s, i - 1) - 1)
    BY <2>1, <1>9
  <2>4. q[ScopeOf(s, i - 1)] = p[ScopeOf(s, i - 1)]
    BY <2>1, <1>12
  <2>5. QED BY <2>1, <2>2, <2>3, <2>4, <1>13 DEF EntryAgrees
<1>15. ScopesAgree(t, q, c, n)
  <2>1. \A i, j \in 1 .. N : i <= j => Len(t[i].outer) <= Len(t[j].outer)
    <3>1. \A i \in 1 .. N : i \in 1 .. Len(s) /\ t[i] = s[i]
      BY <1>1, <1>3
    <3>2. QED BY <3>1 DEF ScopesAgree
  <2>2. QED BY <2>1, <1>3, <1>10, <1>11, <1>14 DEF ScopesAgree
<1>16. ASSUME NEW i \in 0 .. N PROVE DeferredAt(t, q, c, i) = DeferredAt(s, p, d, i)
  <2>1. PICK k \in 1 .. Len(q) : k = ScopeOf(s, i)
    BY <1>12
  <2>2. DepthOf(p, k) <= DepthOf(p, Len(q)) /\ DepthOf(p, k) \in Nat
    <3>1. k \in 0 .. Len(p) /\ Len(q) \in 0 .. Len(p) /\ k <= Len(q)
      BY <1>6, <1>8
    <3>2. QED BY <3>1, DepthGrows, DepthSteps
  <2>3. PICK h \in Nat : h = DepthOf(p, k)
    BY <2>2
  <2>4. Len(c) \in Nat /\ Len(d) \in Nat
    OBVIOUS
  <2>5. Len(c) <= Len(d) /\ \A j \in 1 .. Len(c) : c[j] = d[j]
    <3>1. Prefix(c, d)
      BY <1>8
    <3>2. QED BY <3>1, PrefixElements
  <2>6. h <= Len(c) /\ h <= Len(d)
    BY <2>2, <2>3, <2>4, <2>5, <1>8
  <2>7. \A j \in 1 .. h : c[j] = d[j]
    <3>1. \A j \in 1 .. h : j \in 1 .. Len(c)
      BY <2>4, <2>6
    <3>2. QED BY <3>1, <2>5
  <2>8. SubSeq(c, 1, h) = SubSeq(d, 1, h)
    BY <2>6, <2>7, SamePrefix
  <2>9. DepthOf(q, ScopeOf(t, i)) = h /\ DepthOf(p, ScopeOf(s, i)) = h
    BY <2>1, <2>3, <1>9
  <2>10. QED BY <2>8, <2>9 DEF DeferredAt
<1>17. PlacesKept(n, s, p, d, t, q, c)
  <2>1. Len(t) <= Len(s)
    BY <1>2, <1>3
  <2>2. QED BY <2>1, <1>3, <1>9, <1>12, <1>16, SamePlaces
<1>18. QED BY <1>15, <1>17, SMTT(30)

(* One more defer in the innermost scope.                                  *)
OneMore(p, q) == q = [p EXCEPT ![Len(p)] = @ + 1]

LEMMA DeferWalk ==
    ASSUME NEW s \in Seq(Entry), NEW p \in Seq(Nat), NEW d \in Seq(Nat), NEW n \in Nat,
           ScopesAgree(s, p, d, n), NEW x \in Nat,
           NEW q \in Seq(Nat), OneMore(p, q),
           NEW c \in Seq(Nat), c = Append(d, x)
    PROVE  /\ ScopesAgree(s, q, c, n + 1)
           /\ PlacesKept(n, s, p, d, s, q, c)
<1>1. Len(s) \in Nat /\ Len(p) \in Nat /\ Len(d) \in Nat /\ Len(s) \in 0 .. Len(s)
  OBVIOUS
<1>2. Len(c) = Len(d) + 1 /\ \A j \in 1 .. Len(d) : c[j] = d[j]
  OBVIOUS
<1>3. Prefix(d, c)
  <2>1. Len(d) <= Len(c)
    BY <1>1, <1>2
  <2>2. QED BY <2>1, <1>2, PrefixElements
<1>4. Len(p) = ScopeOf(s, Len(s)) /\ Len(p) \in 1 .. Len(p) /\ Depth(p) = Len(d)
  <2>1. ScopeOf(s, Len(s)) \in 1 .. Len(p)
    BY <1>1, ScopesBelow
  <2>2. QED BY <2>1 DEF ScopesAgree
<1>5. Len(q) = Len(p) /\ q[Len(p)] = p[Len(p)] + 1
      /\ \A j \in 1 .. Len(p) : j < Len(p) => q[j] = p[j]
  BY <1>4 DEF OneMore
<1>6. ASSUME NEW k \in 0 .. Len(p), k < Len(p) PROVE DepthOf(q, k) = DepthOf(p, k)
  <2>1. k \in Nat /\ k <= Len(p) /\ k <= Len(q)
    BY <1>1, <1>5
  <2>2. \A j \in 1 .. k : p[j] = q[j]
    BY <1>1, <1>5, <1>6
  <2>3. QED BY <2>1, <2>2, DepthSame
<1>7. Depth(q) = Len(c)
  <2>1. Len(p) - 1 \in 0 .. Len(p) /\ Len(p) - 1 < Len(p)
    BY <1>4
  <2>2. DepthOf(q, Len(p) - 1) = DepthOf(p, Len(p) - 1) /\ DepthOf(p, Len(p) - 1) \in Nat
    <3>1. PICK k \in 0 .. Len(p) : k = Len(p) - 1
      BY <2>1
    <3>2. k < Len(p)
      BY <2>1, <3>1
    <3>3. DepthOf(q, k) = DepthOf(p, k) /\ DepthOf(p, k) \in Nat
      BY <3>2, <1>6, DepthSteps
    <3>4. QED BY <3>1, <3>3
  <2>3. DepthOf(p, Len(p)) = DepthOf(p, Len(p) - 1) + p[Len(p)] /\ p[Len(p)] \in Nat
    <3>1. p[Len(p)] \in Nat
      BY <1>4
    <3>2. DepthOf(p, Len(p)) = DepthOf(p, Len(p) - 1) + p[Len(p)]
      BY <1>4, DepthSteps
    <3>3. QED BY <3>1, <3>2
  <2>4. DepthOf(q, Len(p)) = DepthOf(q, Len(p) - 1) + q[Len(p)]
    BY <1>4, <1>5, DepthSteps
  <2>5. Depth(p) = DepthOf(p, Len(p)) /\ Depth(q) = DepthOf(q, Len(p))
    BY <1>5, DepthSteps
  <2>6. QED BY <2>2, <2>3, <2>4, <2>5, <1>2, <1>4, <1>5, SMTT(30)
<1>8. ASSUME NEW i \in 1 .. Len(s) PROVE EntryAgrees(s, q, c, n + 1, i)
  <2>1. EntryAgrees(s, p, d, n, i)
    BY DEF ScopesAgree
  <2>2. s[i] \in Entry /\ i \in 0 .. Len(s) /\ i - 1 \in 0 .. Len(s)
    OBVIOUS
  <2>3. s[i].id \in Nat /\ s[i].id < n + 1
    <3>1. s[i].id \in Nat
      BY <2>2 DEF Entry
    <3>2. QED BY <2>1, <3>1 DEF EntryAgrees
  <2>4. PICK k \in 1 .. Len(p) : k = ScopeOf(s, i - 1)
    BY <2>2, ScopesBelow
  <2>5. DepthOf(q, k - 1) = DepthOf(p, k - 1)
    <3>1. k - 1 \in 0 .. Len(p) /\ k - 1 < Len(p)
      BY <1>1
    <3>2. QED BY <3>1, <1>6
  <2>6. ASSUME s[i].kind \in Scoping PROVE q[k] = p[k]
    <3>1. ScopeOf(s, i) = k + 1
      BY <2>4, <2>6, ScopeSteps
    <3>2. ScopeOf(s, i) \in 1 .. Len(p)
      BY <2>2, ScopesBelow
    <3>3. k < Len(p)
      BY <3>1, <3>2, <1>1
    <3>4. QED BY <3>3, <1>5
  <2>7. Prefix(s[i].outer, c)
    <3>1. PICK u \in Seq(Nat) : u = s[i].outer
      BY <2>2 DEF Entry
    <3>2. Prefix(u, d)
      BY <2>1, <3>1 DEF EntryAgrees
    <3>3. Prefix(u, c)
      BY <3>2, <1>3, PrefixTrans
    <3>4. QED BY <3>1, <3>3
  <2>8. QED BY <2>1, <2>3, <2>4, <2>5, <2>6, <2>7 DEF EntryAgrees
<1>9. ScopesAgree(s, q, c, n + 1)
  BY <1>4, <1>5, <1>7, <1>8 DEF ScopesAgree
(* Around the innermost scope nothing changes.                             *)
<1>10. ASSUME NEW i \in 0 .. Len(s), ScopeOf(s, i) # Len(p)
       PROVE  DeferredAt(s, q, c, i) = DeferredAt(s, p, d, i)
              /\ q[ScopeOf(s, i)] = p[ScopeOf(s, i)]
  <2>1. PICK k \in 1 .. Len(p) : k = ScopeOf(s, i)
    BY ScopesBelow
  <2>2. k < Len(p) /\ k \in 0 .. Len(p)
    BY <2>1, <1>10, <1>1
  <2>3. DepthOf(q, k) = DepthOf(p, k)
    BY <2>2, <1>6
  <2>4. PICK h \in 0 .. Len(d) : h = DepthOf(p, k)
    BY <2>1, ScopesBelow
  <2>5. h \in Nat /\ h <= Len(d) /\ h <= Len(c) /\ \A j \in 1 .. h : c[j] = d[j]
    BY <1>1, <1>2
  <2>6. SubSeq(c, 1, h) = SubSeq(d, 1, h)
    BY <2>5, SamePrefix
  <2>7. QED BY <2>1, <2>2, <2>3, <2>4, <2>6, <1>5 DEF DeferredAt
<1>11. ASSUME NEW i \in 0 .. Len(s), ScopeOf(s, i) = Len(p)
       PROVE  DeferredAt(s, q, c, i) = c /\ DeferredAt(s, p, d, i) = d
  <2>1. DepthOf(q, Len(p)) = Len(c) /\ DepthOf(p, Len(p)) = Len(d)
    BY <1>4, <1>5, <1>7, DepthSteps
  <2>2. SubSeq(c, 1, Len(c)) = c /\ SubSeq(d, 1, Len(d)) = d
    BY WholePrefix
  <2>3. QED BY <2>1, <2>2, <1>11 DEF DeferredAt
<1>12. ASSUME NEW place \in Places, LabelBelow(place, s, p, d)
       PROVE  LabelBelow(place, s, q, c)
  <2> SUFFICES ASSUME NEW i \in 0 .. Len(s), Prefix(place.path, PathOf(s, i))
               PROVE  Prefix(place.deferred, DeferredAt(s, q, c, i))
    BY DEF LabelBelow
  <2>1. Prefix(place.deferred, DeferredAt(s, p, d, i))
    BY <1>12 DEF LabelBelow
  <2>2. CASE ScopeOf(s, i) # Len(p)
    BY <2>1, <2>2, <1>10
  <2>3. CASE ScopeOf(s, i) = Len(p)
    <3>1. PICK u \in Seq(Nat) : u = place.deferred
      BY DEF Places
    <3>2. Prefix(u, d)
      BY <2>1, <2>3, <3>1, <1>11
    <3>3. Prefix(u, c)
      BY <3>2, <1>3, PrefixTrans
    <3>4. QED BY <3>1, <3>3, <2>3, <1>11
  <2>4. QED BY <2>2, <2>3
<1>13. ASSUME NEW place \in Places, GotoAbove(place, s, p, d)
       PROVE  GotoAbove(place, s, q, c)
  <2> SUFFICES ASSUME NEW i \in 0 .. Len(s), Prefix(PathOf(s, i), place.path)
               PROVE  GotoAboveAt(place, s, q, c, i)
    BY DEF GotoAbove
  <2>1. GotoAboveAt(place, s, p, d, i)
    BY <1>13 DEF GotoAbove
  <2>2. CASE ScopeOf(s, i) # Len(p)
    BY <2>1, <2>2, <1>10 DEF GotoAboveAt
  <2>3. CASE ScopeOf(s, i) = Len(p)
    <3>1. PICK r \in Seq(Nat) : r = place.position
      BY DEF Places
    <3>2. Len(p) <= Len(r) /\ r[Len(p)] <= p[Len(p)]
      BY <2>1, <2>3, <3>1 DEF GotoAboveAt
    <3>3. Len(p) \in 1 .. Len(r)
      BY <3>2, <1>4
    <3>4. r[Len(p)] \in Nat /\ p[Len(p)] \in Nat
      BY <3>3, <1>4, SMTT(30)
    <3>5. r[Len(p)] <= q[Len(p)] /\ q[Len(p)] # r[Len(p)]
      <4>1. PICK a \in Nat, b \in Nat : a = r[Len(p)] /\ b = p[Len(p)]
        BY <3>4
      <4>2. q[Len(p)] = b + 1 /\ a <= b
        BY <4>1, <3>2, <1>5
      <4>3. a <= b + 1 /\ b + 1 # a
        BY <4>2
      <4>4. QED BY <4>1, <4>2, <4>3
    <3>6. QED BY <3>1, <3>2, <3>5, <2>3 DEF GotoAboveAt
  <2>4. QED BY <2>2, <2>3
<1>14. QED BY <1>9, <1>12, <1>13 DEF PlacesKept

LEMMA StayWalk ==
    ASSUME NEW s \in Seq(Entry), NEW p, NEW d, NEW n \in Nat, ScopesAgree(s, p, d, n)
    PROVE  ScopesAgree(s, p, d, n + 1)
<1>1. ASSUME NEW i \in 1 .. Len(s) PROVE EntryAgrees(s, p, d, n + 1, i)
  <2>1. EntryAgrees(s, p, d, n, i)
    BY DEF ScopesAgree
  <2>2. s[i] \in Entry
    OBVIOUS
  <2>3. s[i].id \in Nat
    BY <2>2 DEF Entry
  <2>4. s[i].id < n + 1
    BY <2>1, <2>3 DEF EntryAgrees
  <2>5. QED BY <2>1, <2>4 DEF EntryAgrees
<1>2. QED BY <1>1 DEF ScopesAgree

(* The place where the walk is.                                            *)
OuterOf(s) == [i \in 1 .. Len(s) |-> s[i].outer]
Here(s, p, d) ==
    [position |-> p, path |-> PathOf(s, Len(s)), outer |-> OuterOf(s), deferred |-> d]

(* Where nothing was deferred since the next construct was entered, all    *)
(* that is deferred was deferred there.                                    *)
LEMMA NothingSince ==
    ASSUME NEW s \in Seq(Entry), NEW p \in Seq(Nat), NEW d \in Seq(Nat), NEW n \in Nat,
           ScopesAgree(s, p, d, n), NEW k \in 0 .. Len(s), NEW i \in 0 .. Len(s), k <= i,
           k = Len(s) \/ d = s[k + 1].outer
    PROVE  DeferredAt(s, p, d, i) = d
<1>1. DeferredAt(s, p, d, Len(s)) = d /\ Len(s) \in Nat /\ Len(s) \in 0 .. Len(s)
  <2>1. Len(s) \in Nat /\ Len(s) \in 0 .. Len(s)
    OBVIOUS
  <2>2. QED BY <2>1, ScopesBelow
<1>2. CASE k = Len(s)
  <2>1. i = Len(s)
    BY <1>2
  <2>2. QED BY <2>1, <1>1
<1>3. CASE k # Len(s) /\ \A j \in 1 .. Len(s) : i < j => s[j].kind \notin Scoping
  <2>1. CountIn(s, Scoping, i) = CountIn(s, Scoping, Len(s))
    BY <1>3, CountStays
  <2>2. ScopeOf(s, i) = ScopeOf(s, Len(s))
    BY <2>1 DEF ScopeOf
  <2>3. QED BY <2>2, <1>1 DEF DeferredAt
<1>4. CASE k # Len(s) /\ \E j \in 1 .. Len(s) : i < j /\ s[j].kind \in Scoping
  <2>1. k + 1 \in 1 .. Len(s) /\ d = s[k + 1].outer
    BY <1>1, <1>4
  <2> DEFINE T == {j \in 1 .. Len(s) : i < j /\ s[j].kind \in Scoping}
  <2>2. PICK j \in T : \A h \in T : j <= h
    <3>0. PICK h \in 1 .. Len(s) : i < h /\ s[h].kind \in Scoping
      BY <1>4
    <3>1. T # {} /\ T \subseteq Nat
      <4>1. h \in T
        BY <3>0
      <4>2. T \subseteq 1 .. Len(s) /\ 1 .. Len(s) \subseteq Nat
        OBVIOUS
      <4> HIDE DEF T
      <4>3. QED BY <4>1, <4>2
    <3> HIDE DEF T
    <3>2. QED BY <3>1, NatMin
  <2>3. j \in 1 .. Len(s) /\ i < j /\ s[j].kind \in Scoping
    OBVIOUS
  <2>4. PICK m \in 0 .. Len(s) : m = j - 1 /\ m + 1 = j
    BY <2>3, <1>1
  <2>5. ASSUME NEW h \in 1 .. Len(s), i < h, h <= m PROVE s[h].kind \notin Scoping
    <3>1. ~(j <= h)
      BY <2>3, <2>4, <2>5
    <3>2. h \notin T
      BY <3>1, <2>2
    <3>3. QED BY <3>2, <2>5
  <2>6. ScopeOf(s, i) = ScopeOf(s, m)
    <3>1. \A h \in 1 .. m : h \in 1 .. i \/ s[h].kind \notin Scoping
      <4>1. ASSUME NEW h \in 1 .. m PROVE h \in 1 .. i \/ s[h].kind \notin Scoping
        <5>1. h \in 1 .. Len(s) /\ h <= m /\ (h \in 1 .. i \/ i < h)
          BY <1>1
        <5>2. QED BY <5>1, <2>5
      <4>2. QED BY <4>1
    <3>2. 1 .. i \subseteq 1 .. m
      BY <2>3, <2>4
    <3>3. {h \in 1 .. i : s[h].kind \in Scoping} = {h \in 1 .. m : s[h].kind \in Scoping}
      BY <3>1, <3>2
    <3>4. QED BY <3>3 DEF ScopeOf, CountIn
  <2>7. EntryAgrees(s, p, d, n, j) /\ Len(s[k + 1].outer) <= Len(s[j].outer)
    <3>1. k + 1 <= j
      BY <2>3, <1>1
    <3>2. QED BY <2>1, <2>3, <3>1 DEF ScopesAgree
  <2>8. PICK c \in 1 .. Len(p) : c = ScopeOf(s, m)
    BY ScopesBelow
  <2>9. Len(s[j].outer) = DepthOf(p, c - 1) + p[c] /\ Prefix(s[j].outer, d)
    BY <2>3, <2>4, <2>7, <2>8 DEF EntryAgrees
  <2>10. DepthOf(p, c) = DepthOf(p, c - 1) + p[c]
    BY DepthSteps
  <2>11. DepthOf(p, c) = Len(d)
    <3>1. s[j] \in Entry
      BY <2>3
    <3>2. PICK u \in Nat : u = Len(s[j].outer)
      BY <3>1 DEF Entry
    <3>3. u <= Len(d)
      BY <3>2, <2>9 DEF Prefix
    <3>4. Len(d) <= u
      <4>1. Len(d) = Len(s[k + 1].outer)
        BY <2>1
      <4>2. Len(s[k + 1].outer) <= u
        BY <2>7, <3>2
      <4> HIDE DEF T
      <4>3. QED BY <4>1, <4>2
    <3>5. u = Len(d)
      <4>1. Len(d) \in Nat
        OBVIOUS
      <4>2. QED BY <4>1, <3>2, <3>3, <3>4
    <3>6. QED BY <3>2, <3>5, <2>9, <2>10
  <2>12. SubSeq(d, 1, Len(d)) = d
    BY WholePrefix
  <2>13. QED BY <2>6, <2>8, <2>11, <2>12 DEF DeferredAt
<1>5. QED BY <1>2, <1>3, <1>4

LEMMA HerePassed ==
    ASSUME NEW s \in Seq(Entry), NEW p \in Seq(Nat), NEW d \in Seq(Nat), NEW n \in Nat,
           ScopesAgree(s, p, d, n)
    PROVE  /\ Here(s, p, d) \in Places
           /\ Passed(Here(s, p, d), n + 1)
           /\ LabelHolds(Here(s, p, d), s, p, d)
           /\ GotoAbove(Here(s, p, d), s, p, d)
<1>1. Len(s) \in 0 .. Len(s) /\ Len(s) \in Nat
  OBVIOUS
<1>2. /\ PathOf(s, Len(s)) \in Seq(Nat) /\ Len(PathOf(s, Len(s))) = Len(s)
      /\ \A j \in 1 .. Len(s) : PathOf(s, Len(s))[j] = s[j].id
  BY <1>1, PathTyped
<1>3. Here(s, p, d) \in Places
  <2>1. ASSUME NEW j \in 1 .. Len(s) PROVE s[j].outer \in Seq(Nat)
    <3>1. s[j] \in Entry
      OBVIOUS
    <3>2. QED BY <3>1 DEF Entry
  <2>2. OuterOf(s) \in Seq(Seq(Nat))
    BY <2>1, <1>1 DEF OuterOf
  <2>3. QED BY <2>2, <1>2 DEF Here, Places
<1>4. Passed(Here(s, p, d), n + 1)
  <2>1. ASSUME NEW j \in 1 .. Len(s) PROVE s[j].id < n + 1
    <3>1. s[j] \in Entry
      OBVIOUS
    <3>2. s[j].id \in Nat
      BY <3>1 DEF Entry
    <3>3. s[j].id < n
      BY DEF ScopesAgree, EntryAgrees
    <3>4. QED BY <3>2, <3>3
  <2>2. Depth(p) = Len(d)
    BY DEF ScopesAgree
  <2>3. QED BY <2>1, <2>2, <1>2 DEF Passed, Here
<1>5. ASSUME NEW k \in 0 .. Len(s), NothingBeyond(Here(s, p, d), k), NEW i \in 0 .. Len(s),
             Prefix(SubSeq(PathOf(s, Len(s)), 1, k), PathOf(s, i))
      PROVE  Prefix(d, DeferredAt(s, p, d, i))
  <2>1. Len(PathOf(s, i)) = i
    BY PathTyped
  <2>2. Len(SubSeq(PathOf(s, Len(s)), 1, k)) = k
    BY <1>2, SubSeqFacts
  <2>3. k <= i
    BY <2>1, <2>2, <1>5 DEF Prefix
  <2>4. k = Len(s) \/ d = s[k + 1].outer
    <3>1. k # Len(s) => k + 1 \in 1 .. Len(s)
      BY <1>1
    <3>2. QED BY <3>1, <1>2, <1>5 DEF NothingBeyond, Here, OuterOf
  <2>5. DeferredAt(s, p, d, i) = d
    BY <2>3, <2>4, NothingSince
  <2>6. Prefix(d, d)
    BY PrefixRefl
  <2>7. QED BY <2>5, <2>6
<1>6. LabelHolds(Here(s, p, d), s, p, d)
  <2>1. ASSUME NEW k \in 0 .. Len(s), NothingBeyond(Here(s, p, d), k)
        PROVE  LabelBelow(Upto(Here(s, p, d), k), s, p, d)
    <3>1. /\ Upto(Here(s, p, d), k).path = SubSeq(PathOf(s, Len(s)), 1, k)
          /\ Upto(Here(s, p, d), k).deferred = d
      BY DEF Upto, Here
    <3>2. QED BY <3>1, <2>1, <1>5 DEF LabelBelow
  <2>2. Len(Here(s, p, d).path) = Len(s)
    BY <1>2 DEF Here
  <2>3. QED BY <2>1, <2>2 DEF LabelHolds
<1>7. ASSUME NEW i \in 0 .. Len(s) PROVE GotoAboveAt(Here(s, p, d), s, p, d, i)
  <2>1. ScopeOf(s, i) \in 1 .. Len(p) /\ Prefix(DeferredAt(s, p, d, i), d)
    BY ScopesBelow
  <2>2. ScopeOf(s, i) <= Len(p) /\ p[ScopeOf(s, i)] <= p[ScopeOf(s, i)]
    BY <2>1
  <2>3. QED BY <2>1, <2>2 DEF GotoAboveAt, Here
<1>8. GotoAbove(Here(s, p, d), s, p, d)
  BY <1>7 DEF GotoAbove, Here
<1>9. QED BY <1>3, <1>4, <1>6, <1>8

(* What an accepted goto does.                                             *)
LEMMA BackwardGoto ==
    ASSUME NEW s \in Seq(Entry), NEW p \in Seq(Nat), NEW d \in Seq(Nat), NEW n \in Nat,
           ScopesAgree(s, p, d, n),
           NEW label \in Places, LabelHolds(label, s, p, d),
           JumpAllowed(p, label.position)
    PROVE  UnwindsTo(Here(s, p, d), label)
<1>1. Len(s) \in 0 .. Len(s)
  OBVIOUS
<1>2. label.position \in Seq(Nat)
  BY DEF Places
<1>3. Depth(label.position) <= Depth(p) /\ Depth(p) = Len(d)
  BY <1>2, AllowedNotDeeper DEF ScopesAgree
<1>4. DeferredAt(s, p, d, Len(s)) = d
  BY <1>1, ScopesBelow
<1>5. ASSUME NEW k \in 0 .. Len(label.path), NothingBeyond(label, k),
             Prefix(SubSeq(label.path, 1, k), PathOf(s, Len(s)))
      PROVE  Prefix(label.deferred, d)
  <2>1. LabelBelow(Upto(label, k), s, p, d)
    BY <1>5 DEF LabelHolds
  <2>2. Upto(label, k).path = SubSeq(label.path, 1, k)
        /\ Upto(label, k).deferred = label.deferred
    BY DEF Upto, Places
  <2>3. QED BY <2>1, <2>2, <1>1, <1>4, <1>5 DEF LabelBelow
<1>6. QED BY <1>3, <1>5 DEF UnwindsTo, Here

LEMMA ForwardGoto ==
    ASSUME NEW s \in Seq(Entry), NEW p \in Seq(Nat), NEW d \in Seq(Nat), NEW n \in Nat,
           ScopesAgree(s, p, d, n),
           NEW goto \in Places, GotoAbove(goto, s, p, d), Passed(goto, n),
           JumpAllowed(goto.position, p)
    PROVE  UnwindsTo(goto, Here(s, p, d))
<1>1. Len(s) \in 0 .. Len(s) /\ Len(p) \in Nat
  OBVIOUS
<1>2. PICK r \in Seq(Nat) : r = goto.position
  BY DEF Places
<1>3. Depth(p) <= Depth(r) /\ \A i \in 1 .. Len(p) : i <= Len(r) => p[i] <= r[i]
  BY <1>2, AllowedNotDeeper
<1>4. Depth(p) <= Len(goto.deferred)
  BY <1>2, <1>3 DEF Passed
<1>5. /\ Len(Here(s, p, d).path) = Len(s)
      /\ \A k \in 0 .. Len(s) : SubSeq(PathOf(s, Len(s)), 1, k) = PathOf(s, k)
  <2>1. PICK w \in Seq(Nat) : /\ w = PathOf(s, Len(s)) /\ Len(w) = Len(s)
                              /\ \A j \in 1 .. Len(s) : w[j] = s[j].id
    BY <1>1, PathTyped
  <2>2. ASSUME NEW k \in 0 .. Len(s)
        PROVE  SubSeq(w, 1, k) = PathOf(s, k)
    <3>1. /\ SubSeq(w, 1, k) \in Seq(Nat) /\ Len(SubSeq(w, 1, k)) = k
          /\ \A j \in 1 .. k : SubSeq(w, 1, k)[j] = w[j]
      BY <2>1, SubSeqFacts, SMTT(30)
    <3>2. PathOf(s, k) \in Seq(Nat) /\ Len(PathOf(s, k)) = k
          /\ \A j \in 1 .. k : PathOf(s, k)[j] = s[j].id
      BY PathTyped
    <3>3. PICK a \in Seq(Nat), b \in Seq(Nat) :
              /\ a = SubSeq(w, 1, k) /\ b = PathOf(s, k) /\ Len(a) = k /\ Len(b) = k
              /\ \A j \in 1 .. k : a[j] = w[j] /\ b[j] = s[j].id
      BY <3>1, <3>2
    <3>4. \A j \in 1 .. k : j \in 1 .. Len(s)
      BY <1>1
    <3>5. \A j \in 1 .. k : a[j] = b[j]
      BY <2>1, <3>3, <3>4
    <3>6. a = b
      BY <3>3, <3>5
    <3>7. QED BY <3>3, <3>6
  <2>3. QED BY <2>1, <2>2 DEF Here
<1>6. ASSUME NEW k \in 0 .. Len(s), NothingBeyond(Here(s, p, d), k),
             Prefix(PathOf(s, k), goto.path)
      PROVE  Prefix(d, goto.deferred)
  <2>1. PICK m \in 1 .. Len(p) : m = ScopeOf(s, k)
    BY ScopesBelow
  <2>2. DeferredAt(s, p, d, k) = d
    <3>1. k # Len(s) => k + 1 \in 1 .. Len(s)
      BY <1>1
    <3>2. k = Len(s) \/ d = s[k + 1].outer
      BY <3>1, <1>5, <1>6 DEF NothingBeyond, Here, OuterOf
    <3>3. k <= k
      OBVIOUS
    <3>4. QED BY <3>2, <3>3, NothingSince
  <2>3. GotoAboveAt(goto, s, p, d, k)
    BY <1>6 DEF GotoAbove
  <2>4. /\ m <= Len(r) /\ r[m] <= p[m]
        /\ p[m] = r[m] => Prefix(d, goto.deferred)
    BY <2>1, <2>2, <2>3, <1>2 DEF GotoAboveAt
  <2>5. p[m] <= r[m]
    BY <2>4, <1>3
  <2>6. m \in 1 .. Len(r)
    BY <2>4
  <2>7. PICK a \in Nat, b \in Nat : a = p[m] /\ b = r[m]
    <3>1. p[m] \in Nat
      BY <2>1
    <3>2. r[m] \in Nat
      BY <2>6
    <3>3. QED BY <3>1, <3>2
  <2>8. a = b
    BY <2>4, <2>5, <2>7, SMTT(30)
  <2>9. QED BY <2>4, <2>7, <2>8
<1>7. ASSUME NEW k \in 0 .. Len(Here(s, p, d).path), NothingBeyond(Here(s, p, d), k),
             Prefix(SubSeq(Here(s, p, d).path, 1, k), goto.path)
      PROVE  Prefix(Here(s, p, d).deferred, goto.deferred)
  <2>1. k \in 0 .. Len(s) /\ Prefix(PathOf(s, k), goto.path)
    BY <1>5, <1>7 DEF Here
  <2>2. QED BY <2>1, <1>6, <1>7 DEF Here
<1>8. Depth(Here(s, p, d).position) <= Len(goto.deferred)
  BY <1>4 DEF Here
<1>9. QED BY <1>7, <1>8 DEF UnwindsTo

-----------------------------------------------------------------------------
(* The breakpoints are those of the open loops.                            *)
LoopsAgree(s, b) ==
    /\ Len(b) = CountIn(s, Loops, Len(s))
    /\ \A i \in 1 .. Len(s) :
           s[i].kind \in Loops => b[CountIn(s, Loops, i)] = Len(s[i].outer)

LoopEntered(s, b, e, t, a) ==
    /\ t = Append(s, e)
    /\ a = IF e.kind \in Loops THEN Append(b, Len(e.outer)) ELSE b

LEMMA EnterLoops ==
    ASSUME NEW s \in Seq(Entry), NEW b \in Seq(Nat), LoopsAgree(s, b),
           NEW e \in Entry, NEW t \in Seq(Entry), NEW a \in Seq(Nat),
           LoopEntered(s, b, e, t, a)
    PROVE  LoopsAgree(t, a)
<1>1. PICK N \in Nat : N = Len(s)
  OBVIOUS
<1>2. Len(t) = N + 1 /\ t[N + 1] = e /\ \A j \in 1 .. N : t[j] = s[j]
  BY <1>1 DEF LoopEntered
<1>3. \A i \in 0 .. N : CountIn(t, Loops, i) = CountIn(s, Loops, i)
  <2>1. N <= Len(s) /\ N <= Len(t)
    BY <1>1, <1>2
  <2>2. \A j \in 1 .. N : s[j] = t[j]
    BY <1>2
  <2>3. \A i \in 0 .. N : CountIn(s, Loops, i) = CountIn(t, Loops, i)
    BY <2>1, <2>2, CountSame
  <2>4. QED BY <2>3
<1>4. N \in 0 .. N /\ N + 1 \in 1 .. Len(t) /\ (N + 1) - 1 = N
  BY <1>2
<1>5. CountIn(t, Loops, N + 1) = CountIn(t, Loops, N) + IF e.kind \in Loops THEN 1 ELSE 0
  <2>1. CountIn(t, Loops, N + 1)
            = CountIn(t, Loops, N) + IF t[N + 1].kind \in Loops THEN 1 ELSE 0
    BY <1>4, CountStep
  <2>2. QED BY <2>1, <1>2
<1>6. Len(b) = CountIn(t, Loops, N)
  BY <1>1, <1>3, <1>4 DEF LoopsAgree
<1>7. /\ Len(a) = Len(b) + IF e.kind \in Loops THEN 1 ELSE 0
      /\ \A j \in 1 .. Len(b) : a[j] = b[j]
      /\ e.kind \in Loops => a[Len(b) + 1] = Len(e.outer)
      /\ Len(b) \in Nat
  BY DEF LoopEntered
<1>8. ASSUME NEW i \in 1 .. N + 1, t[i].kind \in Loops
      PROVE  a[CountIn(t, Loops, i)] = Len(t[i].outer)
  <2>1. CASE i = N + 1
    <3>1. CountIn(t, Loops, i) = Len(b) + 1
      BY <2>1, <1>2, <1>5, <1>6, <1>8
    <3>2. QED BY <3>1, <2>1, <1>2, <1>7, <1>8
  <2>2. CASE i # N + 1
    <3>1. i \in 1 .. N /\ i \in 0 .. N /\ i <= N /\ i - 1 \in 0 .. N /\ i \in 1 .. Len(t)
      BY <2>2, <1>2
    <3>2. b[CountIn(s, Loops, i)] = Len(s[i].outer)
      BY <3>1, <1>1, <1>2, <1>8 DEF LoopsAgree
    <3>3. CountIn(s, Loops, i) \in 1 .. Len(b)
      <4>1. i \in 0 .. Len(s) /\ N \in 0 .. Len(s) /\ i \in 1 .. Len(s)
            /\ i - 1 \in 0 .. Len(s)
        BY <3>1, <1>1
      <4>2. CountIn(s, Loops, i) <= CountIn(s, Loops, N) /\ CountIn(s, Loops, i) \in Nat
            /\ CountIn(s, Loops, i - 1) \in Nat
        BY <4>1, <3>1, CountGrows, CountSteps
      <4>3. CountIn(s, Loops, i) = CountIn(s, Loops, i - 1) + 1
        BY <4>1, <3>1, <1>2, <1>8, CountSteps
      <4>4. CountIn(s, Loops, N) = Len(b)
        BY <1>3, <1>4, <1>6
      <4>5. QED BY <4>2, <4>3, <4>4, <1>7
    <3>4. QED BY <3>1, <3>2, <3>3, <1>2, <1>3, <1>7
  <2>3. QED BY <2>1, <2>2
<1>9. QED BY <1>2, <1>5, <1>6, <1>7, <1>8 DEF LoopsAgree

LoopLeft(s, b, t, a) ==
    /\ Len(s) > 0 /\ t = SubSeq(s, 1, Len(s) - 1)
    /\ a = IF s[Len(s)].kind \in Loops THEN SubSeq(b, 1, Len(b) - 1) ELSE b

LEMMA LeaveLoops ==
    ASSUME NEW s \in Seq(Entry), NEW b \in Seq(Nat), LoopsAgree(s, b),
           NEW t \in Seq(Entry), NEW a \in Seq(Nat), LoopLeft(s, b, t, a)
    PROVE  /\ LoopsAgree(t, a)
           /\ s[Len(s)].kind \in Loops => b # << >> /\ Len(a) = Len(b) - 1
<1>1. PICK N \in Nat : N + 1 = Len(s)
  <2>1. Len(s) \in Nat /\ Len(s) > 0
    BY DEF LoopLeft
  <2>2. Len(s) - 1 \in Nat /\ (Len(s) - 1) + 1 = Len(s)
    BY <2>1
  <2>3. QED BY <2>2
<1>2. N \in 0 .. Len(s) /\ N + 1 \in 1 .. Len(s) /\ Len(s) - 1 = N /\ (N + 1) - 1 = N
      /\ N \in 0 .. N /\ N <= Len(s)
  BY <1>1
<1>3. Len(t) = N /\ \A j \in 1 .. N : t[j] = s[j]
  <2>1. t = SubSeq(s, 1, N)
    BY <1>2 DEF LoopLeft
  <2>2. QED BY <2>1, <1>2, SubSeqFacts
<1>4. \A i \in 0 .. N : CountIn(s, Loops, i) = CountIn(t, Loops, i)
  <2>1. N <= Len(t)
    BY <1>3
  <2>2. \A j \in 1 .. N : s[j] = t[j]
    BY <1>3
  <2>3. QED BY <1>2, <2>1, <2>2, CountSame
<1>5. CountIn(s, Loops, N + 1)
          = CountIn(s, Loops, N) + IF s[N + 1].kind \in Loops THEN 1 ELSE 0
  BY <1>2, CountStep
<1>6. Len(b) = CountIn(s, Loops, N + 1) /\ Len(b) \in Nat /\ CountIn(s, Loops, N) \in Nat
  <2>1. CountIn(s, Loops, N) \in Nat
    BY <1>2, CountSteps
  <2>2. QED BY <2>1, <1>1 DEF LoopsAgree
<1>7. /\ Len(a) = CountIn(s, Loops, N) /\ Len(a) <= Len(b)
      /\ \A j \in 1 .. Len(a) : a[j] = b[j]
  <2>1. CASE s[N + 1].kind \in Loops
    <3>1. a = SubSeq(b, 1, Len(b) - 1)
      BY <2>1, <1>1 DEF LoopLeft
    <3>2. Len(b) - 1 \in 0 .. Len(b) /\ Len(b) - 1 = CountIn(s, Loops, N)
      BY <2>1, <1>5, <1>6
    <3>3. Len(a) = Len(b) - 1 /\ \A j \in 1 .. Len(b) - 1 : a[j] = b[j]
      BY <3>1, <3>2, SubSeqFacts
    <3>4. QED BY <3>2, <3>3
  <2>2. CASE s[N + 1].kind \notin Loops
    <3>1. a = b
      BY <2>2, <1>1 DEF LoopLeft
    <3>2. QED BY <3>1, <2>2, <1>5, <1>6
  <2>3. QED BY <2>1, <2>2
<1>8. ASSUME NEW i \in 1 .. N, t[i].kind \in Loops
      PROVE  a[CountIn(t, Loops, i)] = Len(t[i].outer)
  <2>1. i \in 1 .. Len(s) /\ i \in 0 .. N /\ t[i] = s[i] /\ i \in 0 .. Len(s) /\ i <= N
        /\ i - 1 \in 0 .. Len(s)
    BY <1>1, <1>3
  <2>2. b[CountIn(s, Loops, i)] = Len(s[i].outer)
    BY <2>1, <1>8 DEF LoopsAgree
  <2>3. CountIn(s, Loops, i) \in 1 .. Len(a)
    <3>1. CountIn(s, Loops, i) <= CountIn(s, Loops, N)
      BY <2>1, <1>2, CountGrows
    <3>2. CountIn(s, Loops, i) \in Nat /\ CountIn(s, Loops, i - 1) \in Nat
      BY <2>1, CountSteps
    <3>3. CountIn(s, Loops, i) = CountIn(s, Loops, i - 1) + 1
      BY <2>1, <1>8, CountSteps
    <3>4. QED BY <3>1, <3>2, <3>3, <1>7, <1>6
  <2>4. QED BY <2>1, <2>2, <2>3, <1>4, <1>7
<1>9. LoopsAgree(t, a)
  BY <1>2, <1>3, <1>4, <1>7, <1>8 DEF LoopsAgree
<1>10. ASSUME s[Len(s)].kind \in Loops PROVE b # << >> /\ Len(a) = Len(b) - 1
  <2>1. Len(b) = Len(a) + 1 /\ Len(a) \in Nat
    BY <1>1, <1>5, <1>6, <1>7, <1>10
  <2>2. QED BY <2>1
<1>11. QED BY <1>9, <1>10, SMTT(30)

(* The last breakpoint is that of the innermost loop.                      *)
LEMMA InnermostBreakpoint ==
    ASSUME NEW s \in Seq(Entry), NEW b \in Seq(Nat), LoopsAgree(s, b),
           NEW k \in 1 .. Len(s), s[k].kind \in Loops,
           \A j \in 1 .. Len(s) : k < j => s[j].kind \notin Loops
    PROVE  b[Len(b)] = Len(s[k].outer)
<1>1. k \in 0 .. Len(s)
  OBVIOUS
<1>2. CountIn(s, Loops, k) = CountIn(s, Loops, Len(s))
  BY <1>1, CountStays
<1>3. QED BY <1>2 DEF LoopsAgree

-----------------------------------------------------------------------------
(* What is true of every state.                                            *)
LabelState == [defined : {FALSE}, block : Nat]
              \cup [defined : {TRUE}, block : Nat, place : Places]
Gotos == [label : Label, place : Places]
Breaks == [target : SUBSET Nat, loop : SUBSET Entry, place : Places]
Merges == [loop : Entry, calls : Seq(Nat), own : Nat]
Cfg == [term : Seq(Nat), at : Nat]

WalkTyped ==
    /\ stats \in Nat /\ repeats \in BOOLEAN /\ done \in BOOLEAN /\ error \in BOOLEAN
    /\ open \in Seq(Entry)
    /\ scopeposition \in Seq(Nat) /\ loopdepth \in Nat
    /\ deferred \in Seq(Nat) /\ breakpoints \in Seq(Nat)

PlacesTyped ==
    /\ labels \in [Label -> LabelState]
    /\ gotos \subseteq Gotos
    /\ breaks \subseteq Breaks

Typed == WalkTyped /\ PlacesTyped /\ cfg \in Cfg

PlacesPassed ==
    /\ \A g \in gotos : Passed(g.place, stats)
    /\ \A l \in Label : labels[l].defined => Passed(labels[l].place, stats)

GotosChecked ==
    ~error => \A g \in gotos :
        /\ labels[g.label].defined => UnwindsTo(g.place, labels[g.label].place)
        /\ done => labels[g.label].defined

BreaksLeave ==
    \A b \in breaks : \A n \in b.target : \A loop \in b.loop : BreakLeaves(b, n, loop)

(* The merge block of a repeat loop runs as many calls as the body's scope *)
(* has deferred, those of other loops run none.                            *)
MergesAgree ==
    /\ merges \subseteq Merges
    /\ \A m \in merges : Len(m.calls) = IF m.loop.kind = "repeat" THEN m.own ELSE 0

LoopsCounted ==
    /\ LoopsAgree(open, breakpoints)
    /\ Len(breakpoints) <= loopdepth
    /\ ~repeats => /\ loopdepth = Len(breakpoints)
                   /\ \A i \in 1 .. Len(open) : open[i].kind # "repeat"

PlacesAgree ==
    /\ \A l \in Label :
           labels[l].defined => LabelHolds(labels[l].place, open, scopeposition, deferred)
    /\ \A g \in gotos : GotoAbove(g.place, open, scopeposition, deferred)

OpenAgrees ==
    ~done => /\ ScopesAgree(open, scopeposition, deferred, stats)
             /\ LoopsCounted
             /\ PlacesAgree

Walk ==
    /\ WalkTyped /\ PlacesTyped /\ OpenAgrees
    /\ PlacesPassed /\ GotosChecked /\ BreaksLeave /\ DepthsAgree

Jumps == Walk /\ cfg \in Cfg /\ MergesAgree

(* What the statements have in common: a construct begins, a construct     *)
(* ends, or the walk goes on.                                              *)
Begins(e) ==
    /\ ~done /\ UNCHANGED <<done, labels, gotos, breaks, error>>
    /\ e.id = stats /\ e.outer = deferred /\ e.local = Last(scopeposition)
    /\ open' = Append(open, e)
    /\ stats' = stats + 1
    /\ ScopeEntered(e, scopeposition, scopeposition')
    /\ deferred' = deferred
    /\ LoopEntered(open, breakpoints, e, open', breakpoints')
    /\ loopdepth' = loopdepth + IF e.kind \in Loops THEN 1 ELSE 0
    /\ repeats' = (repeats \/ e.kind = "repeat")

Ends ==
    /\ ~done /\ UNCHANGED <<stats, repeats, done, labels, gotos, breaks>>
    /\ Left(open, scopeposition, deferred, open', scopeposition', deferred')
    /\ LoopLeft(open, breakpoints, open', breakpoints')
    /\ loopdepth' = IF Last(open).kind = "while" THEN loopdepth - 1 ELSE loopdepth
    /\ error' \in BOOLEAN
    /\ error => error'

GoesOn ==
    /\ ~done /\ stats' = stats + 1
    /\ UNCHANGED <<done, repeats, open, scopeposition, loopdepth, deferred, breakpoints>>
    /\ error' \in BOOLEAN
    /\ error => error'

LEMMA InnermostScope ==
    ASSUME Typed, OpenAgrees, ~done
    PROVE  Last(scopeposition) \in Nat
<1>1. 0 \in 0 .. Len(open)
  BY DEF Typed, WalkTyped
<1>2. ScopeOf(open, 0) \in 1 .. Len(scopeposition)
  BY <1>1, ScopesBelow DEF Typed, WalkTyped, OpenAgrees
<1>3. Len(scopeposition) \in 1 .. Len(scopeposition)
  BY <1>2 DEF Typed, WalkTyped
<1>4. QED BY <1>3 DEF Typed, WalkTyped, Last

LEMMA EnterBegins ==
    ASSUME Typed, OpenAgrees,
           EnterBlock \/ EnterIf \/ EnterWhile \/ EnterRepeat \/ EnterCond
    PROVE  \E e \in Entry : Begins(e)
<1>0. ~done
  BY DEF EnterBlock, EnterIf, EnterWhile, EnterRepeat, EnterCond, Enter, Counted
<1> DEFINE E(kind) == [kind  |-> kind, id |-> stats, outer |-> deferred,
                       local |-> Last(scopeposition), first |-> Size(cfg) + 1]
<1>1. Last(scopeposition) \in Nat
  BY <1>0, InnermostScope
<1>2. Size(cfg) + 1 \in Nat
  BY DEF Typed, Cfg, Size
<1>3. ASSUME NEW kind \in AllKinds PROVE E(kind) \in Entry
  BY <1>1, <1>2 DEF Typed, WalkTyped, Entry
<1>4. ASSUME NEW kind \in AllKinds, Enter(kind), error' = error, deferred' = deferred,
             scopeposition' = IF kind \in Scoping THEN Push(scopeposition, 0)
                              ELSE scopeposition,
             breakpoints' = IF kind \in Loops THEN Push(breakpoints, Breakpoint)
                            ELSE breakpoints,
             loopdepth' = loopdepth + IF kind \in Loops THEN 1 ELSE 0
      PROVE  Begins(E(kind))
  BY <1>0, <1>4 DEF Enter, Counted, Begins, ScopeEntered, LoopEntered, Push, Breakpoint
<1>5. "block" \in AllKinds /\ "if" \in AllKinds /\ "while" \in AllKinds
      /\ "repeat" \in AllKinds /\ "cond" \in AllKinds
  BY DEF AllKinds
<1>6. /\ "block" \in Scoping /\ "if" \in Scoping /\ "while" \in Scoping
      /\ "repeat" \in Scoping /\ "cond" \notin Scoping
      /\ "block" \notin Loops /\ "if" \notin Loops /\ "while" \in Loops
      /\ "repeat" \in Loops /\ "cond" \notin Loops
  BY DEF AllKinds, Scoping, Loops
<1>7. loopdepth + 0 = loopdepth
  BY DEF Typed, WalkTyped
<1> HIDE DEF E
<1>8. CASE EnterBlock
  <2>1. Begins(E("block"))
    BY <1>4, <1>5, <1>6, <1>7, <1>8 DEF EnterBlock, emitter
  <2>2. QED BY <2>1, <1>3, <1>5
<1>9. CASE EnterIf
  <2>1. Begins(E("if"))
    BY <1>4, <1>5, <1>6, <1>7, <1>9 DEF EnterIf
  <2>2. QED BY <2>1, <1>3, <1>5
<1>10. CASE EnterWhile
  <2>1. Begins(E("while"))
    BY <1>4, <1>5, <1>6, <1>10 DEF EnterWhile
  <2>2. QED BY <2>1, <1>3, <1>5
<1>11. CASE EnterRepeat
  <2>1. Begins(E("repeat"))
    BY <1>4, <1>5, <1>6, <1>11 DEF EnterRepeat
  <2>2. QED BY <2>1, <1>3, <1>5
<1>12. CASE EnterCond
  <2>1. Begins(E("cond"))
    BY <1>4, <1>5, <1>6, <1>7, <1>12 DEF EnterCond, checker, emitter
  <2>2. QED BY <2>1, <1>3, <1>5
<1>13. QED BY <1>8, <1>9, <1>10, <1>11, <1>12

LEMMA ExitEnds ==
    ASSUME Typed, ExitBlock \/ ExitIf \/ ExitWhile \/ ExitRepeat \/ ExitCond
    PROVE  Ends
<1>1. ASSUME NEW kind, Exit(kind)
      PROVE  ~done /\ Len(open) > 0 /\ open' = SubSeq(open, 1, Len(open) - 1)
             /\ open[Len(open)].kind = kind
             /\ UNCHANGED <<stats, repeats, done, labels, gotos, breaks>>
  BY <1>1 DEF Exit, Pop, Last, Typed, WalkTyped
<1>2. /\ "block" \in Scoping /\ "if" \in Scoping /\ "while" \in Scoping
      /\ "repeat" \in Scoping /\ "cond" \notin Scoping
      /\ "block" \notin Loops /\ "if" \notin Loops /\ "while" \in Loops
      /\ "repeat" \in Loops /\ "cond" \notin Loops
  BY DEF AllKinds, Scoping, Loops
<1>3. Unwound = SubSeq(deferred, 1, Len(open[Len(open)].outer))
  BY DEF Unwound, Mark, Last
<1>4. error \in BOOLEAN
  BY DEF Typed, WalkTyped
<1> USE DEF Ends, Left, LoopLeft, Last, Pop
<1>5. CASE ExitBlock
  <2>1. Exit("block") /\ UNCHANGED <<loopdepth, error, breakpoints>>
        /\ scopeposition' = Pop(scopeposition) /\ deferred' = Unwound
    BY <1>5 DEF ExitBlock
  <2>2. QED BY <2>1, <1>1, <1>2, <1>3, <1>4
<1>6. CASE ExitIf
  <2>1. Exit("if") /\ UNCHANGED <<loopdepth, error, breakpoints>>
        /\ scopeposition' = Pop(scopeposition) /\ deferred' = Unwound
    BY <1>6 DEF ExitIf
  <2>2. QED BY <2>1, <1>1, <1>2, <1>3, <1>4
<1>7. CASE ExitWhile
  <2>1. Exit("while") /\ UNCHANGED error /\ loopdepth' = loopdepth - 1
        /\ breakpoints' = Pop(breakpoints)
        /\ scopeposition' = Pop(scopeposition) /\ deferred' = Unwound
    BY <1>7 DEF ExitWhile, LeaveLoop
  <2>2. QED BY <2>1, <1>1, <1>2, <1>3, <1>4
<1>8. CASE ExitRepeat
  <2>1. Exit("repeat") /\ UNCHANGED <<loopdepth, error>>
        /\ breakpoints' = Pop(breakpoints)
        /\ scopeposition' = Pop(scopeposition) /\ deferred' = Unwound
    BY <1>8 DEF ExitRepeat
  <2>2. QED BY <2>1, <1>1, <1>2, <1>3, <1>4
<1>9. CASE ExitCond
  <2>1. Exit("cond") /\ UNCHANGED <<scopeposition, loopdepth, deferred, breakpoints>>
        /\ error' = (error \/ CondDefers)
    BY <1>9 DEF ExitCond, emitter
  <2>2. error' \in BOOLEAN /\ (error => error')
    BY <2>1, <1>4 DEF CondDefers
  <2>3. QED BY <2>1, <2>2, <1>1, <1>2
<1>10. QED BY <1>5, <1>6, <1>7, <1>8, <1>9

LEMMA PassedLater ==
    ASSUME NEW n \in Nat, NEW place \in Places, Passed(place, n)
    PROVE  Passed(place, n + 1)
<1>1. ASSUME NEW j \in 1 .. Len(place.path) PROVE place.path[j] < n + 1
  <2>1. place.path[j] \in Nat
    BY DEF Places
  <2>2. place.path[j] < n
    BY DEF Passed
  <2>3. QED BY <2>1, <2>2
<1>2. QED BY <1>1 DEF Passed

(* Steps that leave the places of labels, gotos and breaks alone.          *)
LEMMA PlacesStay ==
    ASSUME WalkTyped, PlacesTyped, PlacesPassed, GotosChecked, BreaksLeave,
           UNCHANGED <<labels, gotos, breaks, done>>, error => error',
           stats' = stats \/ stats' = stats + 1
    PROVE  PlacesTyped' /\ PlacesPassed' /\ GotosChecked' /\ BreaksLeave'
<1>1. PlacesTyped'
  BY DEF PlacesTyped
<1>2. PlacesPassed'
  <2>1. CASE stats' = stats
    BY <2>1 DEF PlacesPassed
  <2>2. CASE stats' = stats + 1
    <3>1. PICK n \in Nat : n = stats
      BY DEF WalkTyped
    <3>2. ASSUME NEW g \in gotos PROVE Passed(g.place, n + 1)
      <4>1. g.place \in Places
        BY DEF PlacesTyped, Gotos
      <4>2. Passed(g.place, n)
        BY <3>1 DEF PlacesPassed
      <4>3. QED BY <4>1, <4>2, PassedLater
    <3>3. ASSUME NEW l \in Label, labels[l].defined PROVE Passed(labels[l].place, n + 1)
      <4>1. labels[l].place \in Places
        BY <3>3 DEF PlacesTyped, LabelState
      <4>2. Passed(labels[l].place, n)
        BY <3>1, <3>3 DEF PlacesPassed
      <4>3. QED BY <4>1, <4>2, PassedLater
    <3>4. stats' = n + 1
      BY <2>2, <3>1
    <3>5. QED BY <3>2, <3>3, <3>4 DEF PlacesPassed
  <2>3. QED BY <2>1, <2>2
<1>3. GotosChecked'
  BY DEF GotosChecked
<1>4. BreaksLeave'
  BY DEF BreaksLeave
<1>5. QED BY <1>1, <1>2, <1>3, <1>4

LEMMA BeginsKeeps ==
    ASSUME Walk, NEW e \in Entry, Begins(e)
    PROVE  Walk'
<1> USE DEF Walk
<1>0. ~done /\ ~done'
  BY DEF Begins
<1>1. PICK s \in Seq(Entry), p \in Seq(Nat), d \in Seq(Nat), b \in Seq(Nat), n \in Nat :
          s = open /\ p = scopeposition /\ d = deferred /\ b = breakpoints /\ n = stats
  BY DEF WalkTyped
<1>2. ScopesAgree(s, p, d, n) /\ LoopsCounted /\ PlacesAgree
  BY <1>0, <1>1 DEF OpenAgrees
<1>3. Append(s, e) \in Seq(Entry) /\ Append(p, 0) \in Seq(Nat)
      /\ Append(b, Len(e.outer)) \in Seq(Nat) /\ Len(Append(b, Len(e.outer))) = Len(b) + 1
  <2>1. e.outer \in Seq(Nat)
    BY DEF Entry
  <2>2. Len(e.outer) \in Nat
    BY <2>1
  <2>3. QED BY <2>2
<1>4. PICK t \in Seq(Entry) :
          /\ t = Append(s, e) /\ t = open'
          /\ Len(t) = Len(s) + 1 /\ t[Len(s) + 1] = e /\ \A i \in 1 .. Len(s) : t[i] = s[i]
  <2>1. Len(Append(s, e)) = Len(s) + 1 /\ Append(s, e)[Len(s) + 1] = e
        /\ \A i \in 1 .. Len(s) : Append(s, e)[i] = s[i]
    OBVIOUS
  <2>2. QED BY <2>1, <1>1, <1>3 DEF Begins
<1>5. PICK q \in Seq(Nat) : ScopeEntered(e, p, q) /\ q = scopeposition'
  <2>1. ScopeEntered(e, p, scopeposition')
    BY <1>1 DEF Begins
  <2>2. scopeposition' \in Seq(Nat)
    BY <2>1, <1>3 DEF ScopeEntered
  <2>3. QED BY <2>1, <2>2
<1>6. PICK a \in Seq(Nat) : LoopEntered(s, b, e, t, a) /\ a = breakpoints'
                            /\ Len(a) = Len(b) + IF e.kind \in Loops THEN 1 ELSE 0
  <2>1. LoopEntered(s, b, e, t, breakpoints')
    BY <1>1, <1>4 DEF Begins
  <2>2. breakpoints' \in Seq(Nat)
        /\ Len(breakpoints') = Len(b) + IF e.kind \in Loops THEN 1 ELSE 0
    BY <2>1, <1>3 DEF LoopEntered
  <2>3. QED BY <2>1, <2>2
<1>7. e.id = n /\ e.outer = d /\ e.local = p[Len(p)] /\ deferred' = d /\ stats' = n + 1
  BY <1>1 DEF Begins, Last
<1>8. ScopesAgree(Append(s, e), q, d, n + 1) /\ PlacesKept(n, s, p, d, Append(s, e), q, d)
  BY <1>2, <1>5, <1>7, EnterWalk
<1>9. WalkTyped'
  <2>1. loopdepth' \in Nat
    BY DEF Begins, WalkTyped
  <2>2. repeats' \in BOOLEAN /\ done' \in BOOLEAN /\ error' \in BOOLEAN
    BY DEF Begins, WalkTyped
  <2>3. stats' \in Nat
    BY <1>7
  <2>4. QED BY <2>1, <2>2, <2>3, <1>1, <1>4, <1>5, <1>6, <1>7 DEF WalkTyped
<1>10. LoopsCounted'
  <2>1. LoopsAgree(s, b) /\ Len(b) <= loopdepth
        /\ (~repeats => /\ loopdepth = Len(b)
                        /\ \A i \in 1 .. Len(s) : s[i].kind # "repeat")
    BY <1>1, <1>2 DEF LoopsCounted
  <2>2. LoopsAgree(t, a)
    BY <2>1, <1>6, EnterLoops
  <2>3. loopdepth' = loopdepth + (IF e.kind \in Loops THEN 1 ELSE 0)
        /\ loopdepth \in Nat /\ Len(b) \in Nat
    BY DEF Begins, WalkTyped
  <2>4. Len(a) <= loopdepth'
    BY <2>1, <2>3, <1>6
  <2>5. ASSUME ~repeats'
        PROVE  loopdepth' = Len(a) /\ \A i \in 1 .. Len(t) : t[i].kind # "repeat"
    <3>1. ~repeats /\ e.kind # "repeat"
      BY <2>5 DEF Begins
    <3>2. loopdepth' = Len(a)
      BY <3>1, <2>1, <2>3, <1>6
    <3>3. Len(t) = Len(s) + 1 /\ t[Len(s) + 1] = e /\ \A i \in 1 .. Len(s) : t[i] = s[i]
      BY <1>4
    <3>4. \A i \in 1 .. Len(t) : i \in 1 .. Len(s) \/ i = Len(s) + 1
      BY <3>3
    <3>5. QED BY <3>1, <3>2, <3>3, <3>4, <2>1
  <2>6. QED BY <2>2, <2>4, <2>5, <1>4, <1>6 DEF LoopsCounted
<1>11. PlacesAgree'
  <2>1. ASSUME NEW l \in Label, labels[l].defined
        PROVE  LabelHolds(labels[l].place, t, q, d)
    <3>1. labels[l].place \in Places
      BY <2>1 DEF PlacesTyped, LabelState
    <3>2. Passed(labels[l].place, n) /\ LabelHolds(labels[l].place, s, p, d)
      BY <2>1, <1>1, <1>2 DEF PlacesPassed, PlacesAgree
    <3>3. QED BY <3>1, <3>2, <1>4, <1>8, LabelKept
  <2>2. ASSUME NEW g \in gotos
        PROVE  GotoAbove(g.place, t, q, d)
    <3>1. g.place \in Places
      BY DEF PlacesTyped, Gotos
    <3>2. Passed(g.place, n) /\ GotoAbove(g.place, s, p, d)
      BY <1>1, <1>2 DEF PlacesPassed, PlacesAgree
    <3>3. QED BY <3>1, <3>2, <1>4, <1>8 DEF PlacesKept
  <2>3. labels' = labels /\ gotos' = gotos
    BY DEF Begins
  <2>4. QED BY <2>1, <2>2, <2>3, <1>4, <1>5, <1>7 DEF PlacesAgree
<1>12. ScopesAgree(open, scopeposition, deferred, stats)'
  BY <1>4, <1>5, <1>7, <1>8
<1>13. DepthsAgree'
  BY <1>12 DEF ScopesAgree, DepthsAgree
<1>14. PlacesTyped' /\ PlacesPassed' /\ GotosChecked' /\ BreaksLeave'
  <2>1. UNCHANGED <<labels, gotos, breaks, done>> /\ (error => error')
        /\ stats' = stats + 1
    BY DEF Begins
  <2>2. QED BY <2>1, PlacesStay
<1>15. OpenAgrees'
  BY <1>10, <1>11, <1>12 DEF OpenAgrees
<1>16. QED BY <1>9, <1>13, <1>14, <1>15

LEMMA EndsKeeps ==
    ASSUME Walk, Ends
    PROVE  Walk'
<1> USE DEF Walk
<1>0. ~done /\ ~done' /\ stats' = stats
  BY DEF Ends
<1>1. PICK s \in Seq(Entry), p \in Seq(Nat), d \in Seq(Nat), b \in Seq(Nat), n \in Nat :
          s = open /\ p = scopeposition /\ d = deferred /\ b = breakpoints /\ n = stats
  BY DEF WalkTyped
<1>2. ScopesAgree(s, p, d, n) /\ LoopsCounted /\ PlacesAgree
  BY <1>0, <1>1, SMTT(30) DEF OpenAgrees
<1>3. PICK N \in Nat : N + 1 = Len(s)
  <2>1. Len(s) \in Nat /\ Len(s) > 0
    BY <1>1 DEF Ends, Left
  <2>2. Len(s) - 1 \in Nat /\ (Len(s) - 1) + 1 = Len(s)
    BY <2>1
  <2>3. QED BY <2>2
<1>4. s[N + 1] \in Entry /\ N + 1 \in 1 .. Len(s) /\ N \in 0 .. Len(s) /\ Len(s) - 1 = N
      /\ N + 1 \in 0 .. Len(s)
  BY <1>3
<1>5. Left(s, p, d, open', scopeposition', deferred') /\ LoopLeft(s, b, open', breakpoints')
  BY <1>1 DEF Ends
<1>6. PICK t \in Seq(Entry) : t = open' /\ Len(t) = N /\ \A i \in 1 .. N : t[i] = s[i]
  <2>1. open' = SubSeq(s, 1, N)
    BY <1>4, <1>5 DEF Left
  <2>2. SubSeq(s, 1, N) \in Seq(Entry) /\ Len(SubSeq(s, 1, N)) = N
        /\ \A i \in 1 .. N : SubSeq(s, 1, N)[i] = s[i]
    BY <1>4, SubSeqFacts
  <2>3. QED BY <2>1, <2>2
<1>7. PICK q \in Seq(Nat) : q = scopeposition'
  <2>1. Len(p) - 1 \in 0 .. Len(p)
    <3>1. ScopeOf(s, N) \in 1 .. Len(p)
      BY <1>2, <1>4, ScopesBelow
    <3>2. QED BY <3>1
  <2>2. SubSeq(p, 1, Len(p) - 1) \in Seq(Nat)
    BY <2>1, SubSeqFacts
  <2>3. QED BY <2>2, <1>5 DEF Left
<1>8. PICK c \in Seq(Nat) : c = deferred'
  <2>1. PICK u \in Seq(Nat) : u = s[Len(s)].outer
    BY <1>3, <1>4 DEF Entry
  <2>2. Prefix(u, d)
    BY <2>1, <1>2, <1>3, <1>4 DEF ScopesAgree, EntryAgrees
  <2>3. SubSeq(d, 1, Len(u)) \in Seq(Nat)
    BY <2>2 DEF Prefix
  <2>4. QED BY <2>1, <2>3, <1>5 DEF Left
<1>9. PICK a \in Seq(Nat) : a = breakpoints'
  <2>1. SubSeq(b, 1, Len(b) - 1) \in Seq(Nat)
    OBVIOUS
  <2>2. QED BY <2>1, <1>5 DEF LoopLeft
<1>10. ScopesAgree(t, q, c, n) /\ PlacesKept(n, s, p, d, t, q, c)
  <2>1. Left(s, p, d, t, q, c)
    BY <1>5, <1>6, <1>7, <1>8
  <2>2. QED BY <2>1, <1>2, LeaveWalk
<1>11. LoopsAgree(s, b) /\ Len(b) <= loopdepth
       /\ (~repeats => /\ loopdepth = Len(b)
                       /\ \A i \in 1 .. Len(s) : s[i].kind # "repeat")
  BY <1>1, <1>2 DEF LoopsCounted
<1>12. LoopLeft(s, b, t, a)
  BY <1>5, <1>6, <1>9
<1>13. LoopsAgree(t, a) /\ (s[Len(s)].kind \in Loops => b # << >> /\ Len(a) = Len(b) - 1)
  BY <1>11, <1>12, LeaveLoops
<1>14. s[Len(s)].kind \notin Loops => a = b
  BY <1>12 DEF LoopLeft
<1>15. /\ Len(a) \in Nat /\ Len(b) \in Nat /\ loopdepth \in Nat
       /\ b # << >> => Len(b) >= 1
       /\ loopdepth' = IF s[Len(s)].kind = "while" THEN loopdepth - 1 ELSE loopdepth
  BY <1>1, SMTT(30) DEF WalkTyped, Ends, Last
<1>16. s[Len(s)].kind \in Loops <=> s[Len(s)].kind \in {"while", "repeat"}
  BY DEF Loops
<1>17. loopdepth' \in Nat /\ Len(a) <= loopdepth'
  <2>1. CASE s[Len(s)].kind = "while"
    BY <2>1, <1>11, <1>13, <1>15, <1>16, SMTT(30)
  <2>2. CASE s[Len(s)].kind = "repeat"
    BY <2>2, <1>11, <1>13, <1>15, <1>16
  <2>3. CASE s[Len(s)].kind \notin Loops
    BY <2>3, <1>11, <1>14, <1>15, <1>16
  <2>4. QED BY <2>1, <2>2, <2>3, <1>16
<1>18. LoopsCounted'
  <2>1. ASSUME ~repeats
        PROVE  loopdepth' = Len(a) /\ \A i \in 1 .. Len(t) : t[i].kind # "repeat"
    <3>1. s[Len(s)].kind # "repeat" /\ loopdepth = Len(b)
      BY <2>1, <1>3, <1>4, <1>11
    <3>2. loopdepth' = Len(a)
      <4>1. CASE s[Len(s)].kind = "while"
        BY <3>1, <4>1, <1>13, <1>15, <1>16
      <4>2. CASE s[Len(s)].kind # "while"
        BY <3>1, <4>2, <1>14, <1>15, <1>16
      <4>3. QED BY <4>1, <4>2
    <3>3. \A i \in 1 .. Len(t) : i \in 1 .. Len(s) /\ i \in 1 .. N
      BY <1>3, <1>6
    <3>4. QED BY <3>2, <3>3, <2>1, <1>6, <1>11
  <2>2. repeats' = repeats
    BY DEF Ends
  <2>3. QED BY <2>1, <2>2, <1>6, <1>9, <1>13, <1>17 DEF LoopsCounted
<1>19. PlacesAgree'
  <2>1. ASSUME NEW l \in Label, labels[l].defined
        PROVE  LabelHolds(labels[l].place, t, q, c)
    <3>1. labels[l].place \in Places
      BY <2>1 DEF PlacesTyped, LabelState
    <3>2. Passed(labels[l].place, n) /\ LabelHolds(labels[l].place, s, p, d)
      BY <2>1, <1>1, <1>2 DEF PlacesPassed, PlacesAgree
    <3>3. QED BY <3>1, <3>2, <1>10, LabelKept
  <2>2. ASSUME NEW g \in gotos
        PROVE  GotoAbove(g.place, t, q, c)
    <3>1. g.place \in Places
      BY DEF PlacesTyped, Gotos
    <3>2. Passed(g.place, n) /\ GotoAbove(g.place, s, p, d)
      BY <1>1, <1>2 DEF PlacesPassed, PlacesAgree
    <3>3. QED BY <3>1, <3>2, <1>10 DEF PlacesKept
  <2>3. labels' = labels /\ gotos' = gotos
    BY DEF Ends
  <2>4. QED BY <2>1, <2>2, <2>3, <1>6, <1>7, <1>8 DEF PlacesAgree
<1>20. ScopesAgree(open, scopeposition, deferred, stats)'
  BY <1>0, <1>1, <1>6, <1>7, <1>8, <1>10
<1>21. DepthsAgree'
  BY <1>20 DEF ScopesAgree, DepthsAgree
<1>22. PlacesTyped' /\ PlacesPassed' /\ GotosChecked' /\ BreaksLeave'
  <2>1. UNCHANGED <<labels, gotos, breaks, done>> /\ (error => error') /\ stats' = stats
    BY DEF Ends
  <2>2. QED BY <2>1, PlacesStay
<1>23. WalkTyped'
  <2>1. stats' \in Nat /\ repeats' \in BOOLEAN /\ done' \in BOOLEAN /\ error' \in BOOLEAN
    BY DEF Ends, WalkTyped
  <2>2. QED BY <2>1, <1>6, <1>7, <1>8, <1>9, <1>17 DEF WalkTyped
<1>24. OpenAgrees'
  BY <1>18, <1>19, <1>20 DEF OpenAgrees
<1>25. QED BY <1>21, <1>22, <1>23, <1>24

LEMMA DeferKeeps ==
    ASSUME Walk, Size(cfg) \in Nat, Defer
    PROVE  Walk'
<1> USE DEF Walk
<1>0. ~done /\ ~done' /\ stats' = stats + 1 /\ Size(cfg) + 1 \in Nat
      /\ UNCHANGED <<repeats, open, done, loopdepth, error, labels, gotos, breaks, breakpoints>>
  BY DEF Defer, Statement, Counted
<1>1. PICK s \in Seq(Entry), p \in Seq(Nat), d \in Seq(Nat), n \in Nat :
          s = open /\ p = scopeposition /\ d = deferred /\ n = stats
  BY DEF WalkTyped
<1>2. ScopesAgree(s, p, d, n) /\ LoopsCounted /\ PlacesAgree
  BY <1>0, <1>1 DEF OpenAgrees
<1>3. Len(p) \in 1 .. Len(p)
  <2>1. 0 \in 0 .. Len(s)
    OBVIOUS
  <2>2. ScopeOf(s, 0) \in 1 .. Len(p)
    BY <2>1, <1>2, ScopesBelow
  <2>3. QED BY <2>2
<1>4. PICK q \in Seq(Nat) : q = scopeposition' /\ OneMore(p, q)
  <2>1. scopeposition' = [p EXCEPT ![Len(p)] = @ + 1]
    BY <1>1 DEF Defer
  <2>2. p[Len(p)] + 1 \in Nat
    BY <1>3
  <2>3. [p EXCEPT ![Len(p)] = @ + 1] \in Seq(Nat)
    BY <2>2, <1>3
  <2>4. QED BY <2>1, <2>3 DEF OneMore
<1>5. PICK x \in Nat : x = Size(cfg) + 1
  BY <1>0
<1>6. PICK c \in Seq(Nat) : c = deferred' /\ c = Append(d, x)
  <2>1. Append(d, x) \in Seq(Nat)
    OBVIOUS
  <2>2. QED BY <2>1, <1>1, <1>5 DEF Defer, Push
<1>7. ScopesAgree(s, q, c, n + 1) /\ PlacesKept(n, s, p, d, s, q, c)
  BY <1>2, <1>4, <1>6, DeferWalk
<1>8. WalkTyped'
  BY <1>0, <1>4, <1>6 DEF WalkTyped
<1>9. LoopsCounted'
  BY <1>0, <1>2 DEF LoopsCounted
<1>10. PlacesAgree'
  <2>1. ASSUME NEW l \in Label, labels[l].defined
        PROVE  LabelHolds(labels[l].place, s, q, c)
    <3>1. labels[l].place \in Places
      BY <2>1 DEF PlacesTyped, LabelState
    <3>2. Passed(labels[l].place, n) /\ LabelHolds(labels[l].place, s, p, d)
      BY <2>1, <1>1, <1>2 DEF PlacesPassed, PlacesAgree
    <3>3. QED BY <3>1, <3>2, <1>7, LabelKept
  <2>2. ASSUME NEW g \in gotos
        PROVE  GotoAbove(g.place, s, q, c)
    <3>1. g.place \in Places
      BY DEF PlacesTyped, Gotos
    <3>2. Passed(g.place, n) /\ GotoAbove(g.place, s, p, d)
      BY <1>1, <1>2 DEF PlacesPassed, PlacesAgree
    <3>3. QED BY <3>1, <3>2, <1>7 DEF PlacesKept
  <2>3. QED BY <2>1, <2>2, <1>0, <1>1, <1>4, <1>6 DEF PlacesAgree
<1>11. ScopesAgree(open, scopeposition, deferred, stats)'
  BY <1>0, <1>1, <1>4, <1>6, <1>7
<1>12. DepthsAgree'
  BY <1>11 DEF ScopesAgree, DepthsAgree
<1>13. PlacesTyped' /\ PlacesPassed' /\ GotosChecked' /\ BreaksLeave'
  BY <1>0, PlacesStay
<1>14. OpenAgrees'
  BY <1>9, <1>10, <1>11 DEF OpenAgrees
<1>15. QED BY <1>8, <1>12, <1>13, <1>14

(* What a statement keeps that neither begins nor ends a construct.        *)
LEMMA GoesOnKeeps ==
    ASSUME Walk, GoesOn
    PROVE  /\ WalkTyped' /\ DepthsAgree' /\ ~done /\ ~done' /\ (error => error')
           /\ UNCHANGED <<open, scopeposition, deferred, breakpoints>>
           /\ ScopesAgree(open, scopeposition, deferred, stats)
           /\ ScopesAgree(open, scopeposition, deferred, stats)'
           /\ LoopsCounted /\ LoopsCounted' /\ PlacesAgree
           /\ \A place \in Places : Passed(place, stats) => Passed(place, stats')
           /\ Place = Here(open, scopeposition, deferred)
           /\ Place \in Places /\ Passed(Place, stats')
           /\ LabelHolds(Place, open, scopeposition, deferred)
           /\ GotoAbove(Place, open, scopeposition, deferred)
<1> USE DEF Walk
<1>1. /\ ~done /\ ~done' /\ (error => error') /\ stats' = stats + 1 /\ error' \in BOOLEAN
      /\ UNCHANGED <<done, repeats, open, scopeposition, loopdepth, deferred, breakpoints>>
  BY DEF GoesOn
<1>2. ScopesAgree(open, scopeposition, deferred, stats) /\ LoopsCounted /\ PlacesAgree
  BY <1>1 DEF OpenAgrees
<1>3. PICK s \in Seq(Entry), p \in Seq(Nat), d \in Seq(Nat), n \in Nat :
          s = open /\ p = scopeposition /\ d = deferred /\ n = stats
  BY DEF WalkTyped
<1>4. ScopesAgree(s, p, d, n)
  BY <1>2, <1>3
<1>5. ScopesAgree(s, p, d, n + 1)
  BY <1>4, StayWalk
<1>6. ScopesAgree(open, scopeposition, deferred, stats)'
  BY <1>1, <1>3, <1>5
<1>7. \A place \in Places : Passed(place, n) => Passed(place, n + 1)
  BY PassedLater
<1>8. Place = Here(open, scopeposition, deferred)
  <2>1. DOMAIN open = 1 .. Len(open)
    BY DEF WalkTyped
  <2>2. QED BY <2>1 DEF Place, Here, PathOf, OuterOf
<1>9. /\ Here(s, p, d) \in Places /\ Passed(Here(s, p, d), n + 1)
      /\ LabelHolds(Here(s, p, d), s, p, d) /\ GotoAbove(Here(s, p, d), s, p, d)
  BY <1>4, HerePassed
<1>10. WalkTyped'
  BY <1>1 DEF WalkTyped
<1>11. DepthsAgree' /\ LoopsCounted'
  BY <1>1, <1>2 DEF DepthsAgree, LoopsCounted
<1>12. stats' = n + 1
  BY <1>1, <1>3
<1>13. Place \in Places /\ Passed(Place, stats')
       /\ LabelHolds(Place, open, scopeposition, deferred)
       /\ GotoAbove(Place, open, scopeposition, deferred)
  BY <1>3, <1>8, <1>9, <1>12
<1>14. QED BY <1>1, <1>2, <1>3, <1>6, <1>7, <1>8, <1>10, <1>11, <1>12, <1>13

LEMMA ReturnKeeps ==
    ASSUME Walk, ReturnStat
    PROVE  Walk'
<1> USE DEF Walk
<1>1. GoesOn /\ UNCHANGED <<labels, gotos, breaks, done, error>> /\ stats' = stats + 1
  BY DEF ReturnStat, Statement, Counted, GoesOn, checker, WalkTyped
<1>2. PlacesTyped' /\ PlacesPassed' /\ GotosChecked' /\ BreaksLeave'
  BY <1>1, PlacesStay
<1>3. /\ WalkTyped' /\ DepthsAgree' /\ LoopsCounted' /\ PlacesAgree
      /\ UNCHANGED <<open, scopeposition, deferred, breakpoints>>
      /\ ScopesAgree(open, scopeposition, deferred, stats)'
  BY <1>1, GoesOnKeeps
<1>4. PlacesAgree'
  BY <1>1, <1>3 DEF PlacesAgree
<1>5. QED BY <1>2, <1>3, <1>4 DEF OpenAgrees

LEMMA BreakKeeps ==
    ASSUME Walk, BreakStat
    PROVE  Walk'
<1> USE DEF Walk
<1>0. error \in BOOLEAN /\ loopdepth \in Nat
  BY DEF WalkTyped
<1>1. /\ UNCHANGED <<labels, gotos, done, repeats, open, scopeposition, loopdepth, deferred,
                     breakpoints>>
      /\ stats' = stats + 1 /\ ~done /\ error' = (error \/ loopdepth = 0)
  BY DEF BreakStat, Statement, Counted
<1>2. GoesOn
  BY <1>0, <1>1 DEF GoesOn
<1>3. /\ WalkTyped' /\ DepthsAgree' /\ LoopsCounted /\ LoopsCounted' /\ PlacesAgree
      /\ ScopesAgree(open, scopeposition, deferred, stats)
      /\ ScopesAgree(open, scopeposition, deferred, stats)'
      /\ Place \in Places
  BY <1>2, GoesOnKeeps
<1>4. PlacesAgree' /\ PlacesPassed' /\ GotosChecked'
  <2>1. PlacesAgree'
    BY <1>1, <1>3 DEF PlacesAgree
  <2>2. \A place \in Places : Passed(place, stats) => Passed(place, stats')
    BY <1>2, GoesOnKeeps
  <2>3. ASSUME NEW g \in gotos PROVE Passed(g.place, stats')
    <3>1. g.place \in Places
      BY DEF PlacesTyped, Gotos
    <3>2. QED BY <3>1, <2>2 DEF PlacesPassed
  <2>4. ASSUME NEW l \in Label, labels[l].defined PROVE Passed(labels[l].place, stats')
    <3>1. labels[l].place \in Places
      BY <2>4 DEF PlacesTyped, LabelState
    <3>2. QED BY <3>1, <2>2, <2>4 DEF PlacesPassed
  <2>5. PlacesPassed'
    BY <2>3, <2>4, <1>1 DEF PlacesPassed
  <2>6. GotosChecked'
    BY <1>1 DEF GotosChecked
  <2>7. QED BY <2>1, <2>5, <2>6
<1>5. PICK s \in Seq(Entry), p \in Seq(Nat), d \in Seq(Nat), b \in Seq(Nat), n \in Nat :
          s = open /\ p = scopeposition /\ d = deferred /\ b = breakpoints /\ n = stats
  BY DEF WalkTyped
<1>6. PICK target \in SUBSET Nat :
          target = IF b = << >> THEN {} ELSE {Last(b)}
  <2>1. b # << >> => Last(b) \in Nat
    BY DEF Last
  <2>2. QED BY <2>1
(* The innermost loop, and where it was entered.                           *)
<1>7. ASSUME InLoop
      PROVE  /\ open[InnermostLoop] \in Entry
             /\ open[InnermostLoop].outer \in Seq(Nat)
             /\ Prefix(open[InnermostLoop].outer, d)
             /\ b # << >> => Last(b) = Len(open[InnermostLoop].outer)
  <2>1. DOMAIN open = 1 .. Len(s) /\ Len(s) \in Nat
    BY <1>5
  <2>2. PICK T \in SUBSET (1 .. Len(s)) : T = {i \in 1 .. Len(s) : s[i].kind \in Loops}
    OBVIOUS
  <2>3. T # {}
    BY <1>7, <1>5, <2>1, <2>2 DEF InLoop
  <2>4. \E i \in T : \A j \in T : j <= i
    BY <2>1, <2>3, Greatest
  <2>5. \E i \in DOMAIN open : /\ open[i].kind \in Loops
                               /\ \A j \in DOMAIN open : i < j => open[j].kind \notin Loops
    <3>1. PICK i \in T : \A j \in T : j <= i
      BY <2>4
    <3>2. i \in 1 .. Len(s) /\ s[i].kind \in Loops
      BY <2>2
    <3>3. ASSUME NEW j \in 1 .. Len(s), i < j PROVE s[j].kind \notin Loops
      BY <3>1, <3>2, <3>3, <2>2
    <3>4. QED BY <3>2, <3>3, <2>1, <1>5
  <2>6. PICK k \in 1 .. Len(s) : k = InnermostLoop /\ s[k].kind \in Loops
            /\ \A j \in 1 .. Len(s) : k < j => s[j].kind \notin Loops
    BY <2>1, <2>5, <1>5 DEF InnermostLoop
  <2>7. LoopsAgree(s, b)
    BY <1>3, <1>5 DEF LoopsCounted
  <2>8. b[Len(b)] = Len(s[k].outer)
    BY <2>6, <2>7, InnermostBreakpoint
  <2>9. EntryAgrees(s, p, d, n, k)
    BY <1>3, <1>5 DEF ScopesAgree
  <2>10. s[k] \in Entry
    OBVIOUS
  <2>11. s[k].outer \in Seq(Nat) /\ Prefix(s[k].outer, d)
    BY <2>9, <2>10 DEF Entry, EntryAgrees
  <2>12. QED BY <1>5, <2>6, <2>8, <2>10, <2>11 DEF Last
<1>8. PICK loop \in SUBSET Entry : loop = IF InLoop THEN {open[InnermostLoop]} ELSE {}
  BY <1>7
<1>9. breaks' = breaks \cup {[target |-> target, loop |-> loop, place |-> Place]}
  BY <1>5, <1>6, <1>8 DEF BreakStat
<1>10. [target |-> target, loop |-> loop, place |-> Place] \in Breaks
  BY <1>3 DEF Breaks
<1>11. PlacesTyped'
  BY <1>1, <1>9, <1>10 DEF PlacesTyped
<1>12. ASSUME NEW m \in target, NEW entry \in loop
       PROVE  m <= Len(d) /\ SubSeq(d, 1, m) = entry.outer
  <2>1. InLoop /\ entry = open[InnermostLoop] /\ b # << >> /\ m = Last(b)
    BY <1>6, <1>8
  <2>2. m = Len(entry.outer) /\ Prefix(entry.outer, d)
    BY <2>1, <1>7
  <2>3. QED BY <2>2 DEF Prefix
<1>13. BreaksLeave'
  <2>1. Place.deferred = d
    BY <1>5 DEF Place
  <2>2. SUFFICES ASSUME NEW x \in breaks', NEW m \in x.target, NEW entry \in x.loop
                 PROVE  m <= Len(x.place.deferred)
                        /\ SubSeq(x.place.deferred, 1, m) = entry.outer
    BY DEF BreaksLeave, BreakLeaves
  <2>3. CASE x \in breaks
    BY <2>3 DEF BreaksLeave, BreakLeaves
  <2>4. CASE x \notin breaks
    <3>1. x.target = target /\ x.loop = loop /\ x.place.deferred = d
      BY <2>1, <2>4, <1>9
    <3>2. QED BY <3>1, <1>12
  <2>5. QED BY <2>3, <2>4
<1>14. QED BY <1>3, <1>4, <1>11, <1>13 DEF OpenAgrees

LEMMA DefineLabelKeeps ==
    ASSUME Walk, Size(cfg) \in Nat, NEW l \in Label, DefineLabel(l)
    PROVE  Walk'
<1> USE DEF Walk
<1>1. /\ UNCHANGED <<gotos, breaks, done, repeats, open, scopeposition, loopdepth, deferred,
                     breakpoints>>
      /\ stats' = stats + 1 /\ ~done
      /\ error' = (error \/ labels[l].defined \/ CrossedBefore(l))
      /\ labels' = [labels EXCEPT ![l] = [defined |-> TRUE, block |-> LabelBlock(l),
                                          place |-> Place]]
  BY DEF DefineLabel, Statement, Counted
<1>2. labels[l] \in LabelState /\ labels[l].defined \in BOOLEAN /\ labels[l].block \in Nat
      /\ error \in BOOLEAN
  BY DEF PlacesTyped, LabelState, WalkTyped
<1>3. GoesOn
  BY <1>1, <1>2 DEF GoesOn, CrossedBefore
<1>4. /\ WalkTyped' /\ DepthsAgree' /\ LoopsCounted' /\ PlacesAgree
      /\ ScopesAgree(open, scopeposition, deferred, stats)
      /\ ScopesAgree(open, scopeposition, deferred, stats)'
      /\ Place = Here(open, scopeposition, deferred)
      /\ Place \in Places /\ Passed(Place, stats')
      /\ LabelHolds(Place, open, scopeposition, deferred)
  BY <1>3, GoesOnKeeps
<1>5. LabelBlock(l) \in Nat
  BY <1>2 DEF LabelBlock
<1>6. PICK entry \in LabelState :
          /\ entry.defined /\ entry.place = Place
          /\ labels' = [labels EXCEPT ![l] = entry]
  <2>1. [defined |-> TRUE, block |-> LabelBlock(l), place |-> Place] \in LabelState
    BY <1>4, <1>5 DEF LabelState
  <2>2. QED BY <2>1, <1>1
<1>7. labels \in [Label -> LabelState]
  BY DEF PlacesTyped
<1>8. PlacesTyped'
  BY <1>1, <1>6, <1>7 DEF PlacesTyped
<1>9. labels'[l] = entry /\ \A k \in Label : k # l => labels'[k] = labels[k]
  BY <1>6, <1>7
<1>10. PlacesPassed'
  <2>1. \A place \in Places : Passed(place, stats) => Passed(place, stats')
    BY <1>3, GoesOnKeeps
  <2>2. ASSUME NEW g \in gotos PROVE Passed(g.place, stats')
    <3>1. g.place \in Places
      BY DEF PlacesTyped, Gotos
    <3>2. QED BY <3>1, <2>1 DEF PlacesPassed
  <2>3. ASSUME NEW k \in Label, labels'[k].defined PROVE Passed(labels'[k].place, stats')
    <3>1. CASE k = l
      BY <3>1, <1>4, <1>6, <1>9
    <3>2. CASE k # l
      <4>1. labels[k].place \in Places /\ labels[k].defined
        BY <2>3, <3>2, <1>7, <1>9 DEF LabelState
      <4>2. QED BY <4>1, <3>2, <2>1, <1>9 DEF PlacesPassed
    <3>3. QED BY <3>1, <3>2
  <2>4. QED BY <2>2, <2>3, <1>1 DEF PlacesPassed
<1>11. PlacesAgree'
  <2>1. ASSUME NEW k \in Label, labels'[k].defined
        PROVE  LabelHolds(labels'[k].place, open, scopeposition, deferred)
    <3>1. CASE k = l
      BY <3>1, <1>4, <1>6, <1>9
    <3>2. CASE k # l
      BY <2>1, <3>2, <1>4, <1>9 DEF PlacesAgree
    <3>3. QED BY <3>1, <3>2
  <2>2. QED BY <2>1, <1>1, <1>4 DEF PlacesAgree
<1>12. GotosChecked'
  <2> SUFFICES ASSUME ~error', NEW g \in gotos, labels'[g.label].defined
               PROVE  UnwindsTo(g.place, labels'[g.label].place)
    BY <1>1 DEF GotosChecked
  <2>1. g.label \in Label /\ g.place \in Places
    BY DEF PlacesTyped, Gotos
  <2>2. ~error /\ ~CrossedBefore(l)
    BY <1>1
  <2>3. CASE g.label = l
    <3>1. PICK s \in Seq(Entry), p \in Seq(Nat), d \in Seq(Nat), n \in Nat :
              s = open /\ p = scopeposition /\ d = deferred /\ n = stats
      BY DEF WalkTyped
    <3>2. JumpAllowed(g.place.position, p)
      BY <2>2, <2>3, <3>1 DEF CrossedBefore
    <3>3. ScopesAgree(s, p, d, n) /\ GotoAbove(g.place, s, p, d) /\ Passed(g.place, n)
      BY <3>1, <1>4 DEF PlacesAgree, PlacesPassed
    <3>4. UnwindsTo(g.place, Here(s, p, d))
      BY <2>1, <3>2, <3>3, ForwardGoto
    <3>5. QED BY <3>1, <3>4, <2>3, <1>4, <1>6, <1>9
  <2>4. CASE g.label # l
    BY <2>1, <2>2, <2>4, <1>9 DEF GotosChecked
  <2>5. QED BY <2>3, <2>4
<1>13. BreaksLeave'
  BY <1>1 DEF BreaksLeave
<1>14. QED BY <1>4, <1>8, <1>10, <1>11, <1>12, <1>13 DEF OpenAgrees

LEMMA GotoKeeps ==
    ASSUME Walk, Size(cfg) \in Nat, NEW l \in Label, GotoStat(l)
    PROVE  Walk'
<1> USE DEF Walk
<1>1. /\ UNCHANGED <<breaks, done, repeats, open, scopeposition, loopdepth, deferred,
                     breakpoints>>
      /\ stats' = stats + 1 /\ ~done
      /\ error' = \/ error
                  \/ /\ labels[l].defined
                     /\ ~JumpAllowed(scopeposition, labels[l].place.position)
      /\ gotos' = gotos \cup {[label |-> l, place |-> Place]}
      /\ labels' = [labels EXCEPT ![l].block = LabelBlock(l)]
  BY DEF GotoStat, Statement, Counted
<1>2. labels[l] \in LabelState /\ labels[l].defined \in BOOLEAN /\ labels[l].block \in Nat
      /\ error \in BOOLEAN /\ labels \in [Label -> LabelState]
  BY DEF PlacesTyped, LabelState, WalkTyped
<1>3. GoesOn
  <2>1. error' \in BOOLEAN /\ (error => error')
    BY <1>1, <1>2
  <2>2. QED BY <2>1, <1>1 DEF GoesOn
<1>4. /\ WalkTyped' /\ DepthsAgree' /\ LoopsCounted' /\ PlacesAgree
      /\ ScopesAgree(open, scopeposition, deferred, stats)
      /\ ScopesAgree(open, scopeposition, deferred, stats)'
      /\ Place = Here(open, scopeposition, deferred)
      /\ Place \in Places /\ Passed(Place, stats')
      /\ GotoAbove(Place, open, scopeposition, deferred)
  BY <1>3, GoesOnKeeps
<1>5. LabelBlock(l) \in Nat
  BY <1>2 DEF LabelBlock
<1>6. PICK goto \in Gotos : goto.label = l /\ goto.place = Place /\ gotos' = gotos \cup {goto}
  <2>1. [label |-> l, place |-> Place] \in Gotos
    BY <1>4 DEF Gotos
  <2>2. QED BY <2>1, <1>1
<1>7. \A k \in Label : k # l => labels'[k] = labels[k]
  BY <1>1, <1>2
(* The label is as defined as before, at the same place.                   *)
<1>8. labels'[l] = [labels[l] EXCEPT !.block = LabelBlock(l)]
  BY <1>1, <1>2
<1>9. /\ labels'[l] \in LabelState
      /\ labels'[l].defined = labels[l].defined
      /\ labels[l].defined => labels'[l].place = labels[l].place
  <2>1. CASE labels[l] \in [defined : {FALSE}, block : Nat]
    BY <2>1, <1>5, <1>8 DEF LabelState
  <2>2. CASE labels[l] \in [defined : {TRUE}, block : Nat, place : Places]
    <3>1. [labels[l] EXCEPT !.block = LabelBlock(l)]
              \in [defined : {TRUE}, block : Nat, place : Places]
      BY <2>2, <1>5
    <3>2. [labels[l] EXCEPT !.block = LabelBlock(l)].place = labels[l].place
      BY <2>2
    <3>3. [labels[l] EXCEPT !.block = LabelBlock(l)].defined = labels[l].defined
      BY <2>2
    <3>4. QED BY <3>1, <3>2, <3>3, <1>8 DEF LabelState
  <2>3. QED BY <2>1, <2>2, <1>2 DEF LabelState
<1>10. \A k \in Label : /\ labels'[k] \in LabelState
                        /\ labels'[k].defined = labels[k].defined
                        /\ labels[k].defined => labels'[k].place = labels[k].place
  BY <1>2, <1>7, <1>9
<1>11. PlacesTyped'
  <2>1. labels' \in [Label -> LabelState]
    <3>1. labels' = [k \in Label |-> labels'[k]]
      BY <1>1, <1>2
    <3>2. QED BY <3>1, <1>10
  <2>2. QED BY <2>1, <1>1, <1>6 DEF PlacesTyped
<1>12. PlacesPassed'
  <2>1. \A place \in Places : Passed(place, stats) => Passed(place, stats')
    BY <1>3, GoesOnKeeps
  <2>2. ASSUME NEW g \in gotos' PROVE Passed(g.place, stats')
    <3>1. CASE g = goto
      BY <3>1, <1>4, <1>6
    <3>2. CASE g \in gotos
      <4>1. g.place \in Places
        BY <3>2 DEF PlacesTyped, Gotos
      <4>2. QED BY <4>1, <3>2, <2>1 DEF PlacesPassed
    <3>3. QED BY <3>1, <3>2, <1>6
  <2>3. ASSUME NEW k \in Label, labels'[k].defined PROVE Passed(labels'[k].place, stats')
    <3>1. labels[k].defined /\ labels'[k].place = labels[k].place
      BY <2>3, <1>10
    <3>2. labels[k].place \in Places
      BY <3>1, <1>2 DEF LabelState
    <3>3. QED BY <3>1, <3>2, <2>1 DEF PlacesPassed
  <2>4. QED BY <2>2, <2>3 DEF PlacesPassed
<1>13. PlacesAgree'
  <2>1. ASSUME NEW k \in Label, labels'[k].defined
        PROVE  LabelHolds(labels'[k].place, open, scopeposition, deferred)
    <3>1. labels[k].defined /\ labels'[k].place = labels[k].place
      BY <2>1, <1>10
    <3>2. QED BY <3>1, <1>4 DEF PlacesAgree
  <2>2. ASSUME NEW g \in gotos'
        PROVE  GotoAbove(g.place, open, scopeposition, deferred)
    <3>1. CASE g = goto
      BY <3>1, <1>4, <1>6
    <3>2. CASE g \in gotos
      BY <3>2, <1>4 DEF PlacesAgree
    <3>3. QED BY <3>1, <3>2, <1>6
  <2>3. QED BY <2>1, <2>2, <1>1 DEF PlacesAgree
<1>14. GotosChecked'
  <2> SUFFICES ASSUME ~error', NEW g \in gotos', labels'[g.label].defined
               PROVE  UnwindsTo(g.place, labels'[g.label].place)
    BY <1>1 DEF GotosChecked
  <2>1. ~error
    BY <1>1
  <2>2. g.label \in Label
    BY <1>11 DEF PlacesTyped, Gotos
  <2>3. labels[g.label].defined /\ labels'[g.label].place = labels[g.label].place
    BY <2>2, <1>10
  <2>4. CASE g = goto
    <3>1. PICK s \in Seq(Entry), p \in Seq(Nat), d \in Seq(Nat), n \in Nat :
              s = open /\ p = scopeposition /\ d = deferred /\ n = stats
      BY DEF WalkTyped
    <3>2. PICK label \in Places : label = labels[l].place
      BY <2>3, <2>4, <1>2, <1>6 DEF LabelState
    <3>3. JumpAllowed(p, label.position)
      BY <2>3, <2>4, <3>1, <3>2, <1>1, <1>6
    <3>4. ScopesAgree(s, p, d, n) /\ LabelHolds(label, s, p, d)
      BY <2>3, <2>4, <3>1, <3>2, <1>4, <1>6 DEF PlacesAgree
    <3>5. UnwindsTo(Here(s, p, d), label)
      BY <3>3, <3>4, BackwardGoto
    <3>6. QED BY <3>1, <3>2, <3>5, <2>3, <2>4, <1>4, <1>6
  <2>5. CASE g \in gotos
    BY <2>1, <2>3, <2>5 DEF GotosChecked
  <2>6. QED BY <2>4, <2>5, <1>6
<1>15. BreaksLeave'
  BY <1>1 DEF BreaksLeave
<1>16. QED BY <1>4, <1>11, <1>12, <1>13, <1>14, <1>15 DEF OpenAgrees

LEMMA EmptyDepth == Depth(<<>>) = 0
<1>1. << >> \in Seq(Nat) /\ Len(<< >>) = 0
  OBVIOUS
<1>2. DepthOf(<< >>, 0) = 0 /\ DepthOf(<< >>, Len(<< >>)) = Depth(<< >>)
  BY <1>1, DepthSteps
<1>3. QED BY <1>1, <1>2

LEMMA EndKeeps ==
    ASSUME Walk, EndBody
    PROVE  Walk'
<1> USE DEF Walk
<1>1. /\ UNCHANGED <<stats, repeats, open, loopdepth, labels, gotos, breaks, breakpoints>>
      /\ ~done /\ done' = TRUE
      /\ error' = (error \/ \E g \in gotos : ~labels[g.label].defined)
      /\ scopeposition' = << >> /\ deferred' = << >>
  BY DEF EndBody
<1>2. << >> \in Seq(Nat) /\ Len(<< >>) = 0
  OBVIOUS
<1>3. WalkTyped'
  <2>1. error' \in BOOLEAN
    BY <1>1 DEF WalkTyped
  <2>2. QED BY <2>1, <1>1, <1>2 DEF WalkTyped
<1>4. PlacesTyped' /\ PlacesPassed' /\ BreaksLeave'
  BY <1>1 DEF PlacesTyped, PlacesPassed, BreaksLeave
<1>5. GotosChecked'
  BY <1>1 DEF GotosChecked
<1>6. DepthsAgree'
  BY <1>1, <1>2, EmptyDepth DEF DepthsAgree
<1>7. QED BY <1>1, <1>3, <1>4, <1>5, <1>6 DEF OpenAgrees

LEMMA WalkBegins ==
    ASSUME Init
    PROVE  Walk
<1> USE DEF Init
<1>1. << >> \in Seq(Nat) /\ << >> \in Seq(Entry) /\ <<0>> \in Seq(Nat) /\ Len(<<0>>) = 1
      /\ Len(open) = 0 /\ Len(deferred) = 0 /\ Len(breakpoints) = 0 /\ 1 .. 0 = {}
  OBVIOUS
<1>2. WalkTyped
  BY <1>1 DEF WalkTyped
<1>3. PlacesTyped
  BY DEF PlacesTyped, LabelState, Undefined
<1>4. PlacesPassed /\ GotosChecked /\ BreaksLeave /\ PlacesAgree
  BY DEF PlacesPassed, GotosChecked, BreaksLeave, Undefined, PlacesAgree
<1>5. open \in Seq(Entry)
  BY <1>1
<1>6. Depth(scopeposition) = 0
  <2>1. PICK p \in Seq(Nat) : p = scopeposition /\ Len(p) = 1 /\ p[1] = 0
    BY <1>1
  <2>2. 1 \in 1 .. Len(p) /\ 1 - 1 = 0
    BY <2>1
  <2>3. DepthOf(p, 1) = DepthOf(p, 0) + p[1]
    <3>1. \A n \in 1 .. Len(p) : DepthOf(p, n) = DepthOf(p, n - 1) + p[n]
      BY DepthSteps
    <3>2. DepthOf(p, 1) = DepthOf(p, 1 - 1) + p[1]
      BY <3>1, <2>2
    <3>3. QED BY <3>2, <2>2
  <2>4. DepthOf(p, 0) = 0 /\ DepthOf(p, Len(p)) = Depth(p)
    BY DepthSteps
  <2>5. QED BY <2>1, <2>3, <2>4
<1>7. DepthsAgree
  BY <1>1, <1>6 DEF DepthsAgree
<1>8. ScopesAgree(open, scopeposition, deferred, stats)
  <2>1. ScopeOf(open, 0) = 1
    BY <1>5, ScopeSteps
  <2>2. QED BY <2>1, <1>1, <1>6 DEF ScopesAgree
<1>9. LoopsCounted
  <2>1. CountIn(open, Loops, 0) = 0
    BY <1>5, CountSteps
  <2>2. QED BY <2>1, <1>1 DEF LoopsCounted, LoopsAgree
<1>10. QED BY <1>2, <1>3, <1>4, <1>7, <1>8, <1>9 DEF Walk, OpenAgrees

-----------------------------------------------------------------------------
(* Basic blocks.                                                           *)
LEMMA BrIs ==
    ASSUME NEW c \in Cfg
    PROVE  /\ Br(c) \in Cfg /\ Br(c).at = c.at /\ Len(Br(c).term) = Len(c.term)
           /\ \A b \in 1 .. Len(c.term) :
                  Br(c).term[b] = IF b = c.at THEN c.term[b] + 1 ELSE c.term[b]
<1>1. c.term \in Seq(Nat) /\ c.at \in Nat
  BY DEF Cfg
<1>2. PICK t \in Seq(Nat) :
          /\ t = [c.term EXCEPT ![c.at] = @ + 1]
          /\ Len(t) = Len(c.term)
          /\ \A b \in 1 .. Len(c.term) :
                 t[b] = IF b = c.at THEN c.term[b] + 1 ELSE c.term[b]
  <2> DEFINE t == [c.term EXCEPT ![c.at] = @ + 1]
  <2>1. DOMAIN t = 1 .. Len(c.term) /\ Len(c.term) \in Nat
    BY <1>1
  <2>2. \A b \in 1 .. Len(c.term) :
            /\ t[b] = IF b = c.at THEN c.term[b] + 1 ELSE c.term[b]
            /\ t[b] \in Nat
    BY <1>1
  <2>3. t = [b \in 1 .. Len(c.term) |-> t[b]]
    BY <2>1
  <2>4. t \in [1 .. Len(c.term) -> Nat]
    <3> HIDE DEF t
    <3> QED BY <2>2, <2>3
  <2>5. t \in Seq(Nat) /\ Len(t) = Len(c.term)
    <3> HIDE DEF t
    <3> QED BY <2>1, <2>4
  <2>6. QED BY <2>2, <2>5
<1>3. Br(c) = [c EXCEPT !.term = t]
  BY <1>2 DEF Br
<1>4. Br(c) \in Cfg /\ Br(c).at = c.at /\ Br(c).term = t
  BY <1>3 DEF Cfg
<1>5. QED BY <1>2, <1>4

LEMMA AtIs ==
    ASSUME NEW c \in Cfg, NEW b \in Nat
    PROVE  At(c, b) \in Cfg /\ At(c, b).at = b /\ At(c, b).term = c.term
  BY DEF At, Cfg

(* A sequence, and n elements after it.                                    *)
LEMMA Followed ==
    ASSUME NEW s \in Seq(Nat), NEW n \in Nat, NEW u \in [1 .. n -> Nat]
    PROVE  /\ s \o u \in Seq(Nat) /\ Len(s \o u) = Len(s) + n
           /\ \A b \in 1 .. Len(s) : (s \o u)[b] = s[b]
           /\ \A i \in 1 .. n : (s \o u)[Len(s) + i] = u[i]
<1>1. u \in Seq(Nat) /\ Len(u) = n
  OBVIOUS
<1>2. Len(s) \in Nat
  OBVIOUS
<1>3. s \o u \in Seq(Nat) /\ Len(s \o u) = Len(s) + n
  BY <1>1, SMTT(30)
<1>4. \A b \in 1 .. Len(s) : (s \o u)[b] = s[b]
  BY <1>1
<1>5. ASSUME NEW i \in 1 .. n PROVE (s \o u)[Len(s) + i] = u[i]
  <2>1. Len(s) + i \in 1 .. Len(s) + Len(u) /\ ~(Len(s) + i <= Len(s))
        /\ (Len(s) + i) - Len(s) = i
    BY <1>1, <1>2
  <2>2. QED BY <2>1, <1>1
<1>6. QED BY <1>3, <1>4, <1>5

LEMMA NewIs ==
    ASSUME NEW c \in Cfg, NEW n \in Nat
    PROVE  /\ NewBlocks(c, n) \in Cfg /\ NewBlocks(c, n).at = c.at
           /\ Len(NewBlocks(c, n).term) = Len(c.term) + n
           /\ \A b \in 1 .. Len(c.term) : NewBlocks(c, n).term[b] = c.term[b]
           /\ \A b \in Len(c.term) + 1 .. Len(c.term) + n : NewBlocks(c, n).term[b] = 0
<1>1. c.term \in Seq(Nat) /\ Len(c.term) \in Nat
  BY DEF Cfg
<1>2. PICK u \in [1 .. n -> Nat] : u = [i \in 1 .. n |-> 0]
  OBVIOUS
<1>3. PICK t \in Seq(Nat) : /\ t = c.term \o u /\ Len(t) = Len(c.term) + n
                            /\ \A b \in 1 .. Len(c.term) : t[b] = c.term[b]
                            /\ \A i \in 1 .. n : t[Len(c.term) + i] = u[i]
  BY <1>1, Followed
<1>4. NewBlocks(c, n) = [c EXCEPT !.term = t]
  BY <1>2, <1>3 DEF NewBlocks
<1>5. NewBlocks(c, n) \in Cfg /\ NewBlocks(c, n).at = c.at /\ NewBlocks(c, n).term = t
  BY <1>4 DEF Cfg
<1>6. ASSUME NEW b \in Len(c.term) + 1 .. Len(c.term) + n PROVE t[b] = 0
  <2>1. b - Len(c.term) \in 1 .. n /\ Len(c.term) + (b - Len(c.term)) = b
    BY <1>1
  <2>2. t[b] = u[b - Len(c.term)]
    BY <2>1, <1>3
  <2>3. QED BY <2>1, <2>2, <1>2
<1>7. QED BY <1>3, <1>5, <1>6

LEMMA EmitDeferredIs ==
    ASSUME NEW c \in Cfg, NEW n \in Nat
    PROVE  /\ EmitDeferred(c, n) \in Cfg /\ Len(EmitDeferred(c, n).term) = Len(c.term) + n
           /\ EmitDeferred(c, n).at = IF n = 0 THEN c.at ELSE Len(c.term) + n
           /\ \A b \in 1 .. Len(c.term) :
                  EmitDeferred(c, n).term[b] = IF b = c.at /\ n # 0 THEN c.term[b] + 1
                                               ELSE c.term[b]
           /\ \A b \in Len(c.term) + 1 .. Len(c.term) + n :
                  EmitDeferred(c, n).term[b] = IF b = Len(c.term) + n THEN 0 ELSE 1
<1>1. c.term \in Seq(Nat) /\ Len(c.term) \in Nat
  BY DEF Cfg
<1>2. CASE n = 0
  <2>1. EmitDeferred(c, n) = c
    BY <1>2 DEF EmitDeferred
  <2>2. QED BY <2>1, <1>1, <1>2
<1>3. CASE n # 0
  <2>1. PICK u \in [1 .. n -> Nat] : u = [i \in 1 .. n |-> IF i < n THEN 1 ELSE 0]
    OBVIOUS
  <2>2. PICK a \in Seq(Nat) : /\ a = Br(c).term /\ Len(a) = Len(c.term)
                              /\ \A b \in 1 .. Len(c.term) :
                                     a[b] = IF b = c.at THEN c.term[b] + 1 ELSE c.term[b]
    <3>1. Br(c) \in Cfg
      BY BrIs
    <3>2. Br(c).term \in Seq(Nat)
      BY <3>1 DEF Cfg
    <3>3. QED BY <3>2, BrIs
  <2>3. PICK t \in Seq(Nat) : /\ t = a \o u /\ Len(t) = Len(c.term) + n
                              /\ \A b \in 1 .. Len(c.term) : t[b] = a[b]
                              /\ \A i \in 1 .. n : t[Len(c.term) + i] = u[i]
    <3>1. /\ a \o u \in Seq(Nat) /\ Len(a \o u) = Len(a) + n
          /\ \A b \in 1 .. Len(a) : (a \o u)[b] = a[b]
          /\ \A i \in 1 .. n : (a \o u)[Len(a) + i] = u[i]
      BY Followed
    <3>2. Len(a) = Len(c.term)
      BY <2>2
    <3> HIDE <2>2
    <3>3. QED BY <3>1, <3>2
  <2>4. EmitDeferred(c, n) = [term |-> t, at |-> Len(c.term) + n]
    BY <1>3, <2>1, <2>2, <2>3 DEF EmitDeferred, Size
  <2>5. EmitDeferred(c, n) \in Cfg /\ EmitDeferred(c, n).at = Len(c.term) + n
        /\ EmitDeferred(c, n).term = t
    BY <2>4, <1>1 DEF Cfg
  <2>6. ASSUME NEW b \in Len(c.term) + 1 .. Len(c.term) + n
        PROVE  t[b] = IF b = Len(c.term) + n THEN 0 ELSE 1
    <3>1. b - Len(c.term) \in 1 .. n /\ Len(c.term) + (b - Len(c.term)) = b
          /\ (b - Len(c.term) < n <=> b # Len(c.term) + n)
      <4>1. PICK k \in Nat : k = Len(c.term)
        BY <1>1
      <4>2. b \in k + 1 .. k + n
        BY <4>1
      <4>3. b - k \in 1 .. n /\ k + (b - k) = b /\ (b - k < n <=> b # k + n)
        BY <4>2
      <4>4. QED BY <4>1, <4>3
    <3>2. t[b] = u[b - Len(c.term)]
      BY <3>1, <2>3
    <3>3. QED BY <3>1, <3>2, <2>1
  <2>7. QED BY <1>3, <2>2, <2>3, <2>5, <2>6, SMTT(30)
<1>4. QED BY <1>2, <1>3

LEMMA UnwindIs ==
    ASSUME NEW c \in Cfg, deferred \in Seq(Nat), NEW n \in 0 .. Len(deferred)
    PROVE  /\ UnwindDeferred(c, n) \in Cfg
           /\ Len(UnwindDeferred(c, n).term) = Len(c.term)
           /\ UnwindDeferred(c, n).at = IF Len(deferred) = n THEN c.at ELSE deferred[n + 1]
           /\ Len(deferred) # n =>
                  \A b \in 1 .. Len(c.term) :
                      UnwindDeferred(c, n).term[b] =
                          IF b = c.at \/ \E i \in n + 2 .. Len(deferred) : deferred[i] = b
                          THEN c.term[b] + 1 ELSE c.term[b]
           /\ Len(deferred) = n => UnwindDeferred(c, n) = c
<1>1. c.term \in Seq(Nat) /\ Len(c.term) \in Nat
  BY DEF Cfg
<1>2. CASE Len(deferred) = n
  BY <1>2 DEF UnwindDeferred
<1>3. CASE Len(deferred) # n
  <2> DEFINE f == [b \in 1 .. Len(c.term) |->
                      IF b = c.at \/ \E i \in n + 2 .. Len(deferred) : deferred[i] = b
                      THEN c.term[b] + 1 ELSE c.term[b]]
  <2>1. f \in [1 .. Len(c.term) -> Nat]
    BY <1>1, SMTT(30)
  <2>2. deferred[n + 1] \in Nat
    <3>1. n + 1 \in 1 .. Len(deferred)
      BY <1>3
    <3>2. QED BY <3>1
  <2>3. UnwindDeferred(c, n) = [term |-> f, at |-> deferred[n + 1]]
    BY <1>3 DEF UnwindDeferred, Size
  <2>4. \A b \in 1 .. Len(c.term) :
            f[b] = IF b = c.at \/ \E i \in n + 2 .. Len(deferred) : deferred[i] = b
                   THEN c.term[b] + 1 ELSE c.term[b]
    OBVIOUS
  <2>5. f \in Seq(Nat) /\ Len(f) = Len(c.term)
    <3>1. PICK N \in Nat : N = Len(c.term)
      BY <1>1
    <3> HIDE DEF f
    <3>2. f \in [1 .. N -> Nat]
      BY <2>1, <3>1
    <3>3. f \in Seq(Nat) /\ Len(f) = N
      BY <3>2
    <3>4. QED BY <3>1, <3>3
  <2> HIDE DEF f
  <2>6. UnwindDeferred(c, n) \in Cfg /\ UnwindDeferred(c, n).at = deferred[n + 1]
        /\ UnwindDeferred(c, n).term = f
    BY <2>2, <2>3, <2>5 DEF Cfg
  <2>7. QED BY <2>4, <2>5, <2>6, <1>3
<1>4. QED BY <1>2, <1>3

(* The blocks have one terminator, except the one under construction and   *)
(* those that wait, which have none.                                       *)
Blocks(c, W) ==
    /\ c \in Cfg /\ c.at \in 1 .. Len(c.term)
    /\ W \subseteq 1 .. Len(c.term) /\ c.at \notin W
    /\ \A b \in 1 .. Len(c.term) : c.term[b] = IF b = c.at \/ b \in W THEN 0 ELSE 1

LEMMA NewWait ==
    ASSUME NEW c, NEW W, Blocks(c, W), NEW n \in Nat
    PROVE  /\ Blocks(NewBlocks(c, n), W \cup (Len(c.term) + 1 .. Len(c.term) + n))
           /\ Len(NewBlocks(c, n).term) = Len(c.term) + n
<1>1. /\ c \in Cfg /\ c.at \in 1 .. Len(c.term)
      /\ W \subseteq 1 .. Len(c.term) /\ c.at \notin W
      /\ \A b \in 1 .. Len(c.term) : c.term[b] = IF b = c.at \/ b \in W THEN 0 ELSE 1
  BY DEF Blocks
<1>2. PICK N \in Nat : N = Len(c.term)
  BY <1>1 DEF Cfg
<1>3. PICK t : /\ t = NewBlocks(c, n) /\ t \in Cfg /\ t.at = c.at
               /\ Len(t.term) = N + n
               /\ \A b \in 1 .. N : t.term[b] = c.term[b]
               /\ \A b \in N + 1 .. N + n : t.term[b] = 0
  <2>1. /\ NewBlocks(c, n) \in Cfg /\ NewBlocks(c, n).at = c.at
        /\ Len(NewBlocks(c, n).term) = Len(c.term) + n
        /\ \A b \in 1 .. Len(c.term) : NewBlocks(c, n).term[b] = c.term[b]
        /\ \A b \in Len(c.term) + 1 .. Len(c.term) + n : NewBlocks(c, n).term[b] = 0
    BY <1>1, NewIs
  <2>2. QED BY <2>1, <1>2
<1>4. PICK V : V = W \cup (N + 1 .. N + n)
  OBVIOUS
<1>5. t.at \in 1 .. N + n /\ V \subseteq 1 .. N + n /\ t.at \notin V
  <2>1. t.at \in 1 .. N /\ t.at \notin W /\ W \subseteq 1 .. N
    BY <1>1, <1>2, <1>3
  <2>2. 1 .. N \subseteq 1 .. N + n /\ N + 1 .. N + n \subseteq 1 .. N + n
        /\ \A x \in 1 .. N : x \notin N + 1 .. N + n
    OBVIOUS
  <2>3. QED BY <2>1, <2>2, <1>4
<1>6. ASSUME NEW b \in 1 .. N + n
      PROVE  t.term[b] = IF b = t.at \/ b \in V THEN 0 ELSE 1
  <2>1. CASE b \in 1 .. N
    <3>1. b \in V <=> b \in W
      BY <2>1, <1>4
    <3>2. QED BY <2>1, <3>1, <1>1, <1>2, <1>3
  <2>2. CASE b \in N + 1 .. N + n
    BY <2>2, <1>3, <1>4
  <2>3. QED BY <2>1, <2>2
<1>7. QED BY <1>2, <1>3, <1>4, <1>5, <1>6 DEF Blocks

LEMMA GotoWait ==
    ASSUME NEW c, NEW W, Blocks(c, W), NEW b \in W
    PROVE  Blocks(Goto(c, b), W \ {b}) /\ Len(Goto(c, b).term) = Len(c.term)
<1>1. /\ c \in Cfg /\ c.at \in 1 .. Len(c.term)
      /\ W \subseteq 1 .. Len(c.term) /\ c.at \notin W
      /\ \A x \in 1 .. Len(c.term) : c.term[x] = IF x = c.at \/ x \in W THEN 0 ELSE 1
  BY DEF Blocks
<1>2. PICK N \in Nat : N = Len(c.term)
  BY <1>1 DEF Cfg
<1>3. b \in Nat /\ b \in 1 .. N /\ b # c.at
  BY <1>1, <1>2
<1>4. PICK r : /\ r = Br(c) /\ r \in Cfg /\ Len(r.term) = N
               /\ \A x \in 1 .. N :
                      r.term[x] = IF x = c.at THEN c.term[x] + 1 ELSE c.term[x]
  BY <1>1, <1>2, BrIs
<1>5. PICK t : t = Goto(c, b) /\ t \in Cfg /\ t.at = b /\ t.term = r.term
  BY <1>3, <1>4, AtIs, SMTT(30) DEF Goto
<1>6. PICK V : V = W \ {b}
  OBVIOUS
<1>7. ASSUME NEW x \in 1 .. N
      PROVE  t.term[x] = IF x = t.at \/ x \in V THEN 0 ELSE 1
  <2>1. CASE x = c.at
    BY <2>1, <1>1, <1>2, <1>3, <1>4, <1>5, <1>6
  <2>2. CASE x # c.at
    <3>1. t.term[x] = c.term[x]
      BY <2>2, <1>4, <1>5
    <3>2. x \in W <=> x = t.at \/ x \in V
      BY <1>5, <1>6
    <3>3. QED BY <2>2, <3>1, <3>2, <1>1, <1>2
  <2>3. QED BY <2>1, <2>2
<1>8. t.at \notin V /\ V \subseteq 1 .. N
  BY <1>1, <1>2, <1>5, <1>6
<1>9. QED BY <1>2, <1>3, <1>4, <1>5, <1>6, <1>7, <1>8 DEF Blocks

LEMMA LeaveWait ==
    ASSUME NEW c, NEW W, Blocks(c, W), NEW n \in Nat
    PROVE  Blocks(Leave(c, n), W) /\ Len(Leave(c, n).term) = Len(c.term) + n + 1
<1>1. /\ c \in Cfg /\ c.at \in 1 .. Len(c.term)
      /\ W \subseteq 1 .. Len(c.term) /\ c.at \notin W
      /\ \A b \in 1 .. Len(c.term) : c.term[b] = IF b = c.at \/ b \in W THEN 0 ELSE 1
  BY DEF Blocks
<1>2. PICK N \in Nat : N = Len(c.term)
  BY <1>1 DEF Cfg
<1>3. PICK m : /\ m = EmitDeferred(c, n) /\ m \in Cfg /\ Len(m.term) = N + n
               /\ m.at = (IF n = 0 THEN c.at ELSE N + n)
               /\ \A b \in 1 .. N :
                      m.term[b] = IF b = c.at /\ n # 0 THEN c.term[b] + 1 ELSE c.term[b]
               /\ \A b \in N + 1 .. N + n : m.term[b] = IF b = N + n THEN 0 ELSE 1
  BY <1>1, <1>2, EmitDeferredIs
<1>4. PICK r : /\ r = Br(m) /\ r \in Cfg /\ Len(r.term) = N + n
               /\ \A b \in 1 .. N + n :
                      r.term[b] = IF b = m.at THEN m.term[b] + 1 ELSE m.term[b]
  BY <1>3, BrIs, SMTT(30)
<1>5. PICK x : /\ x = NewBlocks(r, 1) /\ x \in Cfg /\ Len(x.term) = N + n + 1
               /\ \A b \in 1 .. N + n : x.term[b] = r.term[b]
               /\ x.term[N + n + 1] = 0
  <2>1. 1 \in Nat /\ N + n + 1 \in N + n + 1 .. N + n + 1
    OBVIOUS
  <2>2. /\ NewBlocks(r, 1) \in Cfg
        /\ Len(NewBlocks(r, 1).term) = Len(r.term) + 1
        /\ \A b \in 1 .. Len(r.term) : NewBlocks(r, 1).term[b] = r.term[b]
        /\ \A b \in Len(r.term) + 1 .. Len(r.term) + 1 : NewBlocks(r, 1).term[b] = 0
    BY <2>1, <1>4, NewIs
  <2>3. QED BY <2>1, <2>2, <1>4
<1>6. PICK t : t = Leave(c, n) /\ t \in Cfg /\ t.at = N + n + 1 /\ t.term = x.term
  <2>1. N + n + 1 \in Nat
    OBVIOUS
  <2>2. Leave(c, n) = At(x, N + n + 1)
    BY <1>3, <1>4, <1>5 DEF Leave, DeadCode, Size
  <2>3. PICK k \in Nat : k = N + n + 1
    OBVIOUS
  <2>4. At(x, k) \in Cfg /\ At(x, k).at = k /\ At(x, k).term = x.term
    BY <1>5, AtIs
  <2>5. QED BY <2>2, <2>3, <2>4
<1>7. ASSUME NEW b \in 1 .. N + n + 1
      PROVE  t.term[b] = IF b = t.at \/ b \in W THEN 0 ELSE 1
  <2>1. CASE b \in 1 .. N
    <3>1. r.term[b] = IF b = c.at THEN c.term[b] + 1 ELSE c.term[b]
      <4>1. b \in 1 .. N + n /\ (n # 0 => b # N + n)
        BY <2>1
      <4>2. r.term[b] = IF b = m.at THEN m.term[b] + 1 ELSE m.term[b]
        BY <4>1, <1>4
      <4>3. QED BY <4>1, <4>2, <2>1, <1>3
    <3>2. t.term[b] = r.term[b] /\ b # t.at
      BY <2>1, <1>5, <1>6
    <3>3. c.term[b] = IF b = c.at \/ b \in W THEN 0 ELSE 1
      BY <2>1, <1>1, <1>2
    <3>4. QED BY <3>1, <3>2, <3>3, <1>1
  <2>2. CASE b \in N + 1 .. N + n
    <3>1. b \in 1 .. N + n /\ n # 0 /\ b # t.at /\ b \notin W
      BY <2>2, <1>1, <1>2, <1>6
    <3>2. m.at = N + n
      BY <3>1, <1>3
    <3>3. r.term[b] = 1
      <4>1. r.term[b] = IF b = N + n THEN m.term[b] + 1 ELSE m.term[b]
        BY <3>1, <3>2, <1>4
      <4>2. m.term[b] = IF b = N + n THEN 0 ELSE 1
        BY <2>2, <1>3
      <4>3. QED BY <4>1, <4>2
    <3>4. QED BY <3>1, <3>3, <1>5, <1>6
  <2>3. CASE b = N + n + 1
    BY <2>3, <1>5, <1>6
  <2>4. QED BY <2>1, <2>2, <2>3
<1>8. t.at \notin W /\ W \subseteq 1 .. N + n + 1
  BY <1>1, <1>2, <1>6
<1>9. N + n + 1 \in 1 .. N + n + 1
  OBVIOUS
<1>10. QED BY <1>2, <1>5, <1>6, <1>7, <1>8, <1>9 DEF Blocks

LEMMA UnwindWait ==
    ASSUME NEW c, NEW W, Blocks(c, W),
           deferred \in Seq(Nat), NEW n \in 0 .. Len(deferred),
           \A i \in 1 .. Len(deferred) : deferred[i] \in W,
           \A i, j \in 1 .. Len(deferred) : deferred[i] = deferred[j] => i = j
    PROVE  /\ Blocks(UnwindDeferred(c, n), W \ {deferred[i] : i \in n + 1 .. Len(deferred)})
           /\ Len(UnwindDeferred(c, n).term) = Len(c.term)
<1>1. /\ c \in Cfg /\ c.at \in 1 .. Len(c.term)
      /\ W \subseteq 1 .. Len(c.term) /\ c.at \notin W
      /\ \A b \in 1 .. Len(c.term) : c.term[b] = IF b = c.at \/ b \in W THEN 0 ELSE 1
  BY DEF Blocks
<1>2. PICK N \in Nat, M \in Nat : N = Len(c.term) /\ M = Len(deferred) /\ n \in 0 .. M
  BY <1>1 DEF Cfg
<1>3. CASE M = n
  <2>1. UnwindDeferred(c, n) = c
    BY <1>1, <1>2, <1>3, UnwindIs
  <2>2. {deferred[i] : i \in n + 1 .. Len(deferred)} = {}
    BY <1>2, <1>3
  <2>3. QED BY <2>1, <2>2
<1>4. CASE M # n
  <2>1. PICK t : /\ t = UnwindDeferred(c, n) /\ t \in Cfg /\ Len(t.term) = N
                 /\ t.at = deferred[n + 1]
                 /\ \A b \in 1 .. N :
                        t.term[b] = IF b = c.at \/ \E i \in n + 2 .. M : deferred[i] = b
                                    THEN c.term[b] + 1 ELSE c.term[b]
    <3>1. /\ UnwindDeferred(c, n) \in Cfg
          /\ Len(UnwindDeferred(c, n).term) = Len(c.term)
          /\ UnwindDeferred(c, n).at = deferred[n + 1]
          /\ \A b \in 1 .. Len(c.term) :
                 UnwindDeferred(c, n).term[b] =
                     IF b = c.at \/ \E i \in n + 2 .. Len(deferred) : deferred[i] = b
                     THEN c.term[b] + 1 ELSE c.term[b]
      <4>1. Len(deferred) # n
        BY <1>2, <1>4
      <4>2. c \in Cfg
        BY <1>1
      <4>3. QED BY <4>1, <4>2, UnwindIs, ZenonT(40)
    <3>2. QED BY <3>1, <1>2, SMTT(30)
  <2>2. PICK V : V = W \ {deferred[i] : i \in n + 1 .. M}
    OBVIOUS
  <2>3. /\ n + 1 \in 1 .. M /\ n + 1 \in n + 1 .. M /\ n \in Nat
        /\ \A i \in n + 1 .. M : i \in 1 .. M /\ (i = n + 1 \/ i \in n + 2 .. M)
        /\ \A i \in n + 2 .. M : i \in n + 1 .. M /\ i # n + 1
    BY <1>2, <1>4
  <2>4. deferred[n + 1] \in W /\ deferred[n + 1] \in {deferred[i] : i \in n + 1 .. M}
        /\ deferred[n + 1] \notin V
    BY <2>2, <2>3, <1>2
  <2>5. t.at \in 1 .. N /\ V \subseteq 1 .. N /\ t.at \notin V
    BY <2>1, <2>2, <2>4, <1>1, <1>2
  <2>6. ASSUME NEW b \in 1 .. N
        PROVE  t.term[b] = IF b = t.at \/ b \in V THEN 0 ELSE 1
    <3>1. CASE b = c.at
      <4>1. t.term[b] = c.term[b] + 1 /\ c.term[b] = 0
        BY <3>1, <2>1, <1>1, <1>2
      <4>2. b # t.at /\ b \notin V
        BY <3>1, <2>1, <2>2, <2>4, <1>1
      <4>3. QED BY <4>1, <4>2
    <3>2. CASE b # c.at /\ \E i \in n + 2 .. M : deferred[i] = b
      <4>1. PICK i \in n + 2 .. M : deferred[i] = b
        BY <3>2
      <4>2. i \in n + 1 .. M /\ i # n + 1 /\ i \in 1 .. M
        BY <2>3
      <4>3. b \in W /\ b \notin V /\ b # deferred[n + 1]
        BY <4>1, <4>2, <2>2, <2>3, <1>2
      <4>4. t.term[b] = c.term[b] + 1 /\ c.term[b] = 0
        BY <3>2, <4>3, <2>1, <1>1, <1>2
      <4>5. QED BY <4>3, <4>4, <2>1
    <3>3. CASE b # c.at /\ ~\E i \in n + 2 .. M : deferred[i] = b
      <4>1. t.term[b] = c.term[b] /\ c.term[b] = IF b \in W THEN 0 ELSE 1
        BY <3>3, <2>1, <1>1, <1>2
      <4>2. b \in W <=> b = t.at \/ b \in V
        <5>1. b \in {deferred[i] : i \in n + 1 .. M} => b = deferred[n + 1]
          BY <3>3, <2>3
        <5>2. QED BY <5>1, <2>1, <2>2, <2>4
      <4>3. QED BY <4>1, <4>2
    <3>4. QED BY <3>1, <3>2, <3>3
  <2>7. QED BY <2>1, <2>2, <2>5, <2>6, <1>2 DEF Blocks
<1>5. QED BY <1>3, <1>4

LEMMA LastBranch ==
    ASSUME NEW c, Blocks(c, {})
    PROVE  \A b \in 1 .. Len(Br(c).term) : Br(c).term[b] = 1
  BY BrIs DEF Blocks

(* The blocks that wait: for the end of a construct, for a label, for the  *)
(* calls that are deferred.                                                *)
BlocksOf(e) ==
    IF e.kind = "if" THEN {e.first, e.first + 2}
    ELSE IF e.kind = "while" THEN {e.first + 2} ELSE {}

OpenBlocks(s) == UNION {BlocksOf(s[i]) : i \in 1 .. Len(s)}
DeferredBlocks(d) == {d[i] : i \in 1 .. Len(d)}
PendingLabels(L) == {l \in Label : ~L[l].defined /\ L[l].block # 0}
LabelBlocks(L) == {L[l].block : l \in PendingLabels(L)}

Waiting(s, d, L) == DeferredBlocks(d) \cup OpenBlocks(s) \cup LabelBlocks(L)

Separate(s, d, L) ==
    /\ \A i, j \in 1 .. Len(d) : d[i] = d[j] => i = j
    /\ \A i, j \in 1 .. Len(s) : i # j => BlocksOf(s[i]) \cap BlocksOf(s[j]) = {}
    /\ \A k, l \in PendingLabels(L) : L[k].block = L[l].block => k = l
    /\ DeferredBlocks(d) \cap OpenBlocks(s) = {}
    /\ DeferredBlocks(d) \cap LabelBlocks(L) = {}
    /\ OpenBlocks(s) \cap LabelBlocks(L) = {}

BlocksAgree(c, s, d, L) == Blocks(c, Waiting(s, d, L)) /\ Separate(s, d, L)

LEMMA Appended ==
    ASSUME NEW S, NEW s \in Seq(S), NEW e \in S
    PROVE  /\ Append(s, e) \in Seq(S) /\ Len(Append(s, e)) = Len(s) + 1
           /\ Append(s, e)[Len(s) + 1] = e
           /\ \A j \in 1 .. Len(s) : Append(s, e)[j] = s[j]
  OBVIOUS

LEMMA EnterBlocks ==
    ASSUME NEW c, NEW s \in Seq(Entry), NEW d, NEW L, BlocksAgree(c, s, d, L),
           NEW e \in Entry, NEW F, F = BlocksOf(e), F \cap (1 .. Len(c.term)) = {},
           NEW x, Blocks(x, Waiting(s, d, L) \cup F)
    PROVE  BlocksAgree(x, Append(s, e), d, L)
<1>1. PICK N \in Nat, t \in Seq(Entry) :
          /\ N = Len(s) /\ t = Append(s, e) /\ Len(t) = N + 1 /\ t[N + 1] = e
          /\ \A j \in 1 .. N : t[j] = s[j]
  <2>1. Len(s) \in Nat
    OBVIOUS
  <2>2. /\ Append(s, e) \in Seq(Entry) /\ Len(Append(s, e)) = Len(s) + 1
        /\ Append(s, e)[Len(s) + 1] = e
        /\ \A j \in 1 .. Len(s) : Append(s, e)[j] = s[j]
    BY Appended
  <2>3. QED BY <2>1, <2>2, Zenon
<1>2. OpenBlocks(t) = OpenBlocks(s) \cup F
  <2>1. ASSUME NEW b \in OpenBlocks(t) PROVE b \in OpenBlocks(s) \cup F
    <3>1. PICK i \in 1 .. N + 1 : b \in BlocksOf(t[i])
      BY <1>1 DEF OpenBlocks
    <3>2. CASE i = N + 1
      BY <3>1, <3>2, <1>1
    <3>3. CASE i # N + 1
      <4>1. i \in 1 .. Len(s) /\ t[i] = s[i]
        BY <3>3, <1>1
      <4>2. QED BY <3>1, <4>1 DEF OpenBlocks
    <3>4. QED BY <3>2, <3>3
  <2>2. ASSUME NEW b \in OpenBlocks(s) PROVE b \in OpenBlocks(t)
    <3>1. PICK i \in 1 .. N : b \in BlocksOf(s[i])
      BY <1>1 DEF OpenBlocks
    <3>2. i \in 1 .. Len(t) /\ t[i] = s[i]
      BY <1>1
    <3>3. QED BY <3>1, <3>2 DEF OpenBlocks
  <2>3. ASSUME NEW b \in F PROVE b \in OpenBlocks(t)
    <3>1. N + 1 \in 1 .. Len(t) /\ b \in BlocksOf(t[N + 1])
      BY <1>1
    <3>2. QED BY <3>1 DEF OpenBlocks
  <2>4. QED BY <2>1, <2>2, <2>3
<1>3. Waiting(s, d, L) \subseteq 1 .. Len(c.term) /\ Separate(s, d, L)
  BY DEF BlocksAgree, Blocks
<1>4. F \cap DeferredBlocks(d) = {} /\ F \cap OpenBlocks(s) = {} /\ F \cap LabelBlocks(L) = {}
  BY <1>3 DEF Waiting
<1>5. Waiting(t, d, L) = Waiting(s, d, L) \cup F
  BY <1>2 DEF Waiting
<1>6. ASSUME NEW i \in 1 .. N PROVE BlocksOf(s[i]) \subseteq OpenBlocks(s)
  BY <1>1 DEF OpenBlocks
<1>7. ASSUME NEW i \in 1 .. N + 1, NEW j \in 1 .. N + 1, i # j
      PROVE  BlocksOf(t[i]) \cap BlocksOf(t[j]) = {}
  <2>1. CASE i = N + 1
    <3>1. j \in 1 .. N /\ BlocksOf(t[i]) = F /\ BlocksOf(t[j]) = BlocksOf(s[j])
      BY <2>1, <1>1, <1>7
    <3>2. QED BY <3>1, <1>4, <1>6
  <2>2. CASE j = N + 1
    <3>1. i \in 1 .. N /\ BlocksOf(t[j]) = F /\ BlocksOf(t[i]) = BlocksOf(s[i])
      BY <2>2, <1>1, <1>7
    <3>2. QED BY <3>1, <1>4, <1>6
  <2>3. CASE i # N + 1 /\ j # N + 1
    <3>1. i \in 1 .. Len(s) /\ j \in 1 .. Len(s) /\ t[i] = s[i] /\ t[j] = s[j]
      BY <2>3, <1>1
    <3>2. QED BY <3>1, <1>3, <1>7 DEF Separate
  <2>4. QED BY <2>1, <2>2, <2>3
<1>8. Separate(t, d, L)
  <2>1. DeferredBlocks(d) \cap OpenBlocks(t) = {} /\ OpenBlocks(t) \cap LabelBlocks(L) = {}
    BY <1>2, <1>3, <1>4 DEF Separate
  <2>2. QED BY <2>1, <1>1, <1>3, <1>7 DEF Separate
<1>9. QED BY <1>1, <1>5, <1>8 DEF BlocksAgree

FirstOf(s, n, t) == Len(t) = n /\ \A i \in 1 .. n : t[i] = s[i]

(* What waits no longer at the end of the innermost construct.             *)
Released(s, d, m) == {d[i] : i \in m + 1 .. Len(d)} \cup BlocksOf(s[Len(s)])

LEMMA LeaveBlocks ==
    ASSUME NEW c, NEW s \in Seq(Entry), NEW d \in Seq(Nat), NEW L, BlocksAgree(c, s, d, L),
           NEW N \in Nat, N + 1 = Len(s), NEW m \in 0 .. Len(d),
           NEW t \in Seq(Entry), FirstOf(s, N, t), NEW a \in Seq(Nat), FirstOf(d, m, a),
           NEW x, Blocks(x, Waiting(s, d, L) \ Released(s, d, m))
    PROVE  BlocksAgree(x, t, a, L)
<1>0. /\ Len(t) = N /\ \A i \in 1 .. N : t[i] = s[i]
      /\ Len(a) = m /\ \A i \in 1 .. m : a[i] = d[i]
  BY DEF FirstOf
<1>1. Waiting(s, d, L) \subseteq 1 .. Len(c.term) /\ Separate(s, d, L)
  BY DEF BlocksAgree, Blocks
<1>2. OpenBlocks(t) = OpenBlocks(s) \ BlocksOf(s[N + 1])
  <2>1. ASSUME NEW b \in OpenBlocks(t)
        PROVE  b \in OpenBlocks(s) /\ b \notin BlocksOf(s[N + 1])
    <3>1. PICK i \in 1 .. N : b \in BlocksOf(s[i])
      BY <1>0 DEF OpenBlocks
    <3>2. i \in 1 .. Len(s) /\ N + 1 \in 1 .. Len(s) /\ i # N + 1
      OBVIOUS
    <3>3. BlocksOf(s[i]) \cap BlocksOf(s[N + 1]) = {}
      BY <3>2, <1>1 DEF Separate
    <3>4. QED BY <3>1, <3>2, <3>3 DEF OpenBlocks
  <2>2. ASSUME NEW b \in OpenBlocks(s), b \notin BlocksOf(s[N + 1]) PROVE b \in OpenBlocks(t)
    <3>1. PICK i \in 1 .. Len(s) : b \in BlocksOf(s[i])
      BY DEF OpenBlocks
    <3>2. i \in 1 .. Len(t) /\ t[i] = s[i]
      BY <3>1, <2>2, <1>0
    <3>3. QED BY <3>1, <3>2 DEF OpenBlocks
  <2>3. QED BY <2>1, <2>2
<1>3. \A i \in 1 .. m : i \in 1 .. Len(d) /\ i \notin m + 1 .. Len(d)
  OBVIOUS
<1>4. DeferredBlocks(a) = DeferredBlocks(d) \ {d[i] : i \in m + 1 .. Len(d)}
  <2>1. ASSUME NEW b \in DeferredBlocks(a)
        PROVE  b \in DeferredBlocks(d) /\ b \notin {d[i] : i \in m + 1 .. Len(d)}
    <3>1. PICK i \in 1 .. m : b = d[i]
      BY <1>0 DEF DeferredBlocks
    <3>2. ASSUME NEW j \in m + 1 .. Len(d) PROVE d[j] # b
      <4>1. j \in 1 .. Len(d) /\ i \in 1 .. Len(d) /\ i # j
        OBVIOUS
      <4>2. QED BY <3>1, <4>1, <1>1 DEF Separate
    <3>3. QED BY <3>1, <3>2, <1>3 DEF DeferredBlocks
  <2>2. ASSUME NEW b \in DeferredBlocks(d), b \notin {d[i] : i \in m + 1 .. Len(d)}
        PROVE  b \in DeferredBlocks(a)
    <3>1. PICK i \in 1 .. Len(d) : b = d[i]
      BY DEF DeferredBlocks
    <3>2. i \notin m + 1 .. Len(d)
      BY <3>1, <2>2
    <3>3. i \in 1 .. m
      BY <3>2
    <3>4. QED BY <3>1, <3>3, <1>0 DEF DeferredBlocks
  <2>3. QED BY <2>1, <2>2
<1>5. BlocksOf(s[N + 1]) \subseteq OpenBlocks(s)
  <2>1. N + 1 \in 1 .. Len(s)
    OBVIOUS
  <2>2. QED BY <2>1 DEF OpenBlocks
<1>6. {d[i] : i \in m + 1 .. Len(d)} \subseteq DeferredBlocks(d)
  <2>1. \A i \in m + 1 .. Len(d) : i \in 1 .. Len(d)
    OBVIOUS
  <2>2. QED BY <2>1 DEF DeferredBlocks
<1>7. Waiting(t, a, L) = Waiting(s, d, L) \ Released(s, d, m)
  <2>1. PICK D, E, P : D = DeferredBlocks(d) /\ E = OpenBlocks(s) /\ P = LabelBlocks(L)
    OBVIOUS
  <2>2. PICK G, H : G = {d[i] : i \in m + 1 .. Len(d)} /\ H = BlocksOf(s[N + 1])
    OBVIOUS
  <2>3. D \cap E = {} /\ D \cap P = {} /\ E \cap P = {} /\ G \subseteq D /\ H \subseteq E
    BY <2>1, <2>2, <1>1, <1>5, <1>6 DEF Separate
  <2>4. (D \ G) \cup (E \ H) \cup P = (D \cup E \cup P) \ (G \cup H)
    BY <2>3
  <2>5. Waiting(t, a, L) = (D \ G) \cup (E \ H) \cup P
        /\ Waiting(s, d, L) = D \cup E \cup P
    BY <2>1, <2>2, <1>2, <1>4 DEF Waiting
  <2>6. Released(s, d, m) = G \cup H
    BY <2>2 DEF Released
  <2>7. QED BY <2>4, <2>5, <2>6
<1>8. Separate(t, a, L)
  <2>1. \A i, j \in 1 .. Len(a) : a[i] = a[j] => i = j
    <3>1. \A i \in 1 .. Len(a) : i \in 1 .. Len(d) /\ a[i] = d[i]
      BY <1>0, <1>3
    <3>2. QED BY <3>1, <1>1 DEF Separate
  <2>2. \A i, j \in 1 .. Len(t) : i # j => BlocksOf(t[i]) \cap BlocksOf(t[j]) = {}
    <3>1. \A i \in 1 .. Len(t) : i \in 1 .. Len(s) /\ t[i] = s[i]
      BY <1>0
    <3>2. QED BY <3>1, <1>1 DEF Separate
  <2>3. /\ DeferredBlocks(a) \cap OpenBlocks(t) = {}
        /\ DeferredBlocks(a) \cap LabelBlocks(L) = {}
        /\ OpenBlocks(t) \cap LabelBlocks(L) = {}
    BY <1>1, <1>2, <1>4 DEF Separate
  <2>4. QED BY <2>1, <2>2, <2>3, <1>1 DEF Separate
<1>9. QED BY <1>7, <1>8 DEF BlocksAgree

LEMMA DeferBlocks ==
    ASSUME NEW c, NEW s, NEW d \in Seq(Nat), NEW L, BlocksAgree(c, s, d, L),
           NEW b \in Nat, b \notin 1 .. Len(c.term),
           NEW x, Blocks(x, Waiting(s, d, L) \cup {b})
    PROVE  BlocksAgree(x, s, Append(d, b), L)
<1>1. PICK M \in Nat, a \in Seq(Nat) :
          /\ M = Len(d) /\ a = Append(d, b) /\ Len(a) = M + 1 /\ a[M + 1] = b
          /\ \A j \in 1 .. M : a[j] = d[j]
  <2>1. Len(d) \in Nat
    OBVIOUS
  <2>2. /\ Append(d, b) \in Seq(Nat) /\ Len(Append(d, b)) = Len(d) + 1
        /\ Append(d, b)[Len(d) + 1] = b
        /\ \A j \in 1 .. Len(d) : Append(d, b)[j] = d[j]
    BY Appended
  <2>3. QED BY <2>1, <2>2, Zenon
<1>2. Waiting(s, d, L) \subseteq 1 .. Len(c.term) /\ Separate(s, d, L)
  BY DEF BlocksAgree, Blocks
<1>3. DeferredBlocks(a) = DeferredBlocks(d) \cup {b}
  <2>1. \A i \in 1 .. M + 1 : i \in 1 .. M \/ i = M + 1
    OBVIOUS
  <2>2. M + 1 \in 1 .. M + 1 /\ \A i \in 1 .. M : i \in 1 .. M + 1
    OBVIOUS
  <2>3. ASSUME NEW y \in DeferredBlocks(a) PROVE y \in DeferredBlocks(d) \cup {b}
    BY <2>1, <1>1 DEF DeferredBlocks
  <2>4. ASSUME NEW y \in DeferredBlocks(d) \cup {b} PROVE y \in DeferredBlocks(a)
    BY <2>2, <1>1 DEF DeferredBlocks
  <2>5. QED BY <2>3, <2>4
<1>4. b \notin DeferredBlocks(d) /\ b \notin OpenBlocks(s) /\ b \notin LabelBlocks(L)
  BY <1>2 DEF Waiting
<1>5. Waiting(s, a, L) = Waiting(s, d, L) \cup {b}
  BY <1>3 DEF Waiting
<1>6. \A i, j \in 1 .. Len(a) : a[i] = a[j] => i = j
  <2>1. \A i \in 1 .. M : d[i] # b
    BY <1>1, <1>4 DEF DeferredBlocks
  <2>2. \A i \in 1 .. M + 1 : i \in 1 .. M \/ i = M + 1
    OBVIOUS
  <2>3. \A i, j \in 1 .. M : d[i] = d[j] => i = j
    BY <1>1, <1>2 DEF Separate
  <2>4. SUFFICES ASSUME NEW i \in 1 .. M + 1, NEW j \in 1 .. M + 1, a[i] = a[j]
                 PROVE  i = j
    BY <1>1
  <2>5. CASE i = M + 1
    BY <2>1, <2>2, <2>4, <2>5, <1>1
  <2>6. CASE i \in 1 .. M
    <3>1. CASE j = M + 1
      BY <2>1, <2>4, <2>6, <3>1, <1>1
    <3>2. CASE j \in 1 .. M
      BY <2>3, <2>4, <2>6, <3>2, <1>1
    <3>3. QED BY <3>1, <3>2, <2>2
  <2>7. QED BY <2>2, <2>5, <2>6
<1>7. Separate(s, a, L)
  <2>1. DeferredBlocks(a) \cap OpenBlocks(s) = {}
        /\ DeferredBlocks(a) \cap LabelBlocks(L) = {}
    BY <1>2, <1>3, <1>4 DEF Separate
  <2>2. QED BY <2>1, <1>2, <1>6 DEF Separate
<1>8. QED BY <1>1, <1>5, <1>7 DEF BlocksAgree

(* Only what is pending matters of labels.                                 *)
LEMMA SameLabels ==
    ASSUME NEW c, NEW s, NEW d, NEW L, NEW K, BlocksAgree(c, s, d, L),
           PendingLabels(K) = PendingLabels(L),
           \A l \in PendingLabels(L) : K[l].block = L[l].block,
           NEW x, Blocks(x, Waiting(s, d, L))
    PROVE  BlocksAgree(x, s, d, K)
<1>1. LabelBlocks(K) = LabelBlocks(L)
  BY DEF LabelBlocks
<1>2. QED BY <1>1 DEF BlocksAgree, Waiting, Separate

(* A label is used for the first time.                                     *)
LEMMA NewLabel ==
    ASSUME NEW c, NEW s, NEW d, NEW L, NEW K, BlocksAgree(c, s, d, L),
           NEW l \in Label, l \notin PendingLabels(L),
           PendingLabels(K) = PendingLabels(L) \cup {l},
           \A k \in PendingLabels(L) : K[k].block = L[k].block,
           K[l].block \notin 1 .. Len(c.term),
           NEW x, Blocks(x, Waiting(s, d, L) \cup {K[l].block})
    PROVE  BlocksAgree(x, s, d, K)
<1>1. PICK b : b = K[l].block
  OBVIOUS
<1>2. Waiting(s, d, L) \subseteq 1 .. Len(c.term) /\ Separate(s, d, L)
  BY DEF BlocksAgree, Blocks
<1>3. LabelBlocks(K) = LabelBlocks(L) \cup {b}
  <2>1. ASSUME NEW y \in LabelBlocks(K) PROVE y \in LabelBlocks(L) \cup {b}
    BY <1>1 DEF LabelBlocks
  <2>2. ASSUME NEW y \in LabelBlocks(L) PROVE y \in LabelBlocks(K)
    BY DEF LabelBlocks
  <2>3. b \in LabelBlocks(K)
    BY <1>1 DEF LabelBlocks
  <2>4. QED BY <2>1, <2>2, <2>3
<1>4. b \notin DeferredBlocks(d) /\ b \notin OpenBlocks(s) /\ b \notin LabelBlocks(L)
  BY <1>1, <1>2 DEF Waiting
<1>5. Waiting(s, d, K) = Waiting(s, d, L) \cup {b}
  BY <1>3 DEF Waiting
<1>6. \A k, m \in PendingLabels(K) : K[k].block = K[m].block => k = m
  <2>1. \A k \in PendingLabels(L) : L[k].block # b
    BY <1>4 DEF LabelBlocks
  <2>2. QED BY <2>1, <1>1, <1>2 DEF Separate
<1>7. Separate(s, d, K)
  BY <1>2, <1>3, <1>4, <1>6, ZenonT(40) DEF Separate
<1>8. QED BY <1>1, <1>5, <1>7 DEF BlocksAgree

(* A label that waits is reached.                                          *)
LEMMA LabelReached ==
    ASSUME NEW c, NEW s, NEW d, NEW L, NEW K, BlocksAgree(c, s, d, L),
           NEW l \in PendingLabels(L),
           PendingLabels(K) = PendingLabels(L) \ {l},
           \A k \in PendingLabels(K) : K[k].block = L[k].block,
           NEW x, Blocks(x, Waiting(s, d, L) \ {L[l].block})
    PROVE  BlocksAgree(x, s, d, K)
<1>1. PICK b : b = L[l].block
  OBVIOUS
<1>2. Separate(s, d, L)
  BY DEF BlocksAgree
<1>3. LabelBlocks(K) = LabelBlocks(L) \ {b}
  <2>1. ASSUME NEW y \in LabelBlocks(K) PROVE y \in LabelBlocks(L) /\ y # b
    BY <1>1, <1>2 DEF LabelBlocks, Separate
  <2>2. ASSUME NEW y \in LabelBlocks(L), y # b PROVE y \in LabelBlocks(K)
    BY <2>2, <1>1 DEF LabelBlocks
  <2>3. QED BY <2>1, <2>2
<1>4. b \in LabelBlocks(L)
  BY <1>1 DEF LabelBlocks
<1>5. b \notin DeferredBlocks(d) /\ b \notin OpenBlocks(s)
  BY <1>2, <1>4 DEF Separate
<1>6. Waiting(s, d, K) = Waiting(s, d, L) \ {b}
  BY <1>3, <1>5 DEF Waiting
<1>7. Separate(s, d, K)
  BY <1>2, <1>3 DEF Separate
<1>8. QED BY <1>1, <1>6, <1>7 DEF BlocksAgree

-----------------------------------------------------------------------------
(* The numbers of deferred calls that the statements ask for exist.        *)
LEMMA LastBreakpoint ==
    ASSUME NEW s \in Seq(Entry), NEW p, NEW d \in Seq(Nat), NEW n,
           NEW b \in Seq(Nat), ScopesAgree(s, p, d, n), LoopsAgree(s, b), b # << >>
    PROVE  b[Len(b)] \in 0 .. Len(d)
<1>1. PICK T \in SUBSET (1 .. Len(s)) : T = {i \in 1 .. Len(s) : s[i].kind \in Loops}
  OBVIOUS
<1>2. Len(s) \in Nat /\ Len(b) \in Nat /\ Len(b) # 0
  OBVIOUS
<1>3. T # {}
  <2>1. CountIn(s, Loops, Len(s)) = Cardinality(T)
    BY <1>1 DEF CountIn
  <2>2. Cardinality(T) # 0
    BY <2>1, <1>2 DEF LoopsAgree
  <2>3. QED BY <2>2, FS_EmptySet
<1>4. PICK i \in T : \A j \in T : j <= i
  BY <1>2, <1>3, Greatest
<1>5. i \in 1 .. Len(s) /\ s[i].kind \in Loops
  BY <1>1
<1>6. ASSUME NEW j \in 1 .. Len(s), i < j PROVE s[j].kind \notin Loops
  BY <1>1, <1>4, <1>5, <1>6
<1>7. b[Len(b)] = Len(s[i].outer)
  BY <1>5, <1>6, InnermostBreakpoint
<1>8. s[i].outer \in Seq(Nat)
  <2>1. s[i] \in Entry
    BY <1>5
  <2>2. QED BY <2>1 DEF Entry
<1>9. Prefix(s[i].outer, d)
  BY <1>5 DEF ScopesAgree, EntryAgrees
<1>10. Len(s[i].outer) <= Len(d)
  BY <1>9 DEF Prefix
<1>11. QED BY <1>7, <1>8, <1>10

LEMMA Innermost ==
    ASSUME WalkTyped, OpenAgrees, ~done, open # << >>
    PROVE  /\ Len(open) \in 1 .. Len(open) /\ Last(open) = open[Len(open)]
           /\ Last(open) \in Entry
           /\ Mark \in Nat /\ Mark \in 0 .. Len(deferred)
           /\ Len(deferred) - Mark \in Nat
           /\ Prefix(Last(open).outer, deferred)
<1>1. PICK s \in Seq(Entry), d \in Seq(Nat) : s = open /\ d = deferred
  BY DEF WalkTyped
<1>2. Len(s) \in 1 .. Len(s) /\ s[Len(s)] \in Entry /\ s[Len(s)] = Last(s)
  BY <1>1 DEF Last
<1>3. ScopesAgree(s, scopeposition, d, stats)
  BY <1>1 DEF OpenAgrees
<1>4. Prefix(s[Len(s)].outer, d)
  BY <1>2, <1>3 DEF ScopesAgree, EntryAgrees
<1>5. s[Len(s)].outer \in Seq(Nat)
  BY <1>2 DEF Entry
<1>6. PICK m \in Nat, k \in Nat : m = Len(s[Len(s)].outer) /\ k = Len(d)
  BY <1>5
<1>7. m <= k
  BY <1>4, <1>6 DEF Prefix
<1>8. m \in 0 .. k /\ k - m \in Nat
  BY <1>7
<1>9. QED BY <1>1, <1>2, <1>4, <1>6, <1>8 DEF Mark

LEMMA Breakable ==
    ASSUME WalkTyped, OpenAgrees, ~done, breakpoints # << >>
    PROVE  Len(deferred) - Last(breakpoints) \in Nat
<1>1. PICK s \in Seq(Entry), p \in Seq(Nat), d \in Seq(Nat), b \in Seq(Nat) :
          s = open /\ p = scopeposition /\ d = deferred /\ b = breakpoints
  BY DEF WalkTyped
<1>2. ScopesAgree(s, p, d, stats) /\ LoopsAgree(s, b)
  BY <1>1 DEF OpenAgrees, LoopsCounted
<1>3. b[Len(b)] \in 0 .. Len(d)
  BY <1>1, <1>2, LastBreakpoint
<1>4. Len(d) \in Nat
  OBVIOUS
<1>5. Len(d) - b[Len(b)] \in Nat
  BY <1>3, <1>4
<1>6. QED BY <1>1, <1>5 DEF Last

LEMMA GotoIs ==
    ASSUME NEW c \in Cfg, NEW b \in Nat
    PROVE  Goto(c, b) \in Cfg
<1>1. Br(c) \in Cfg
  BY BrIs
<1>2. QED BY <1>1, AtIs DEF Goto

LEMMA DeadCodeIs ==
    ASSUME NEW c \in Cfg
    PROVE  DeadCode(c) \in Cfg
<1>1. NewBlocks(c, 1) \in Cfg
  BY NewIs
<1>2. Size(c) + 1 \in Nat
  BY DEF Size, Cfg
<1>3. QED BY <1>1, <1>2, AtIs DEF DeadCode

LEMMA LeaveIs ==
    ASSUME NEW c \in Cfg, NEW n \in Nat
    PROVE  Leave(c, n) \in Cfg
<1>1. EmitDeferred(c, n) \in Cfg
  BY EmitDeferredIs
<1>2. Br(EmitDeferred(c, n)) \in Cfg
  BY <1>1, BrIs
<1>3. QED BY <1>2, DeadCodeIs DEF Leave

LEMMA BackEdgeIs ==
    ASSUME NEW c \in Cfg, NEW b \in Nat, NEW n \in Nat
    PROVE  BackEdge(c, b, n) \in Cfg
<1>1. DeadCode(c) \in Cfg
  BY DeadCodeIs
<1>2. EmitDeferred(DeadCode(c), n) \in Cfg
  BY <1>1, EmitDeferredIs
<1>3. Br(EmitDeferred(DeadCode(c), n)) \in Cfg
  BY <1>2, BrIs
<1>4. At(Br(EmitDeferred(DeadCode(c), n)), b) \in Cfg
  BY <1>3, AtIs
<1>5. QED BY <1>4 DEF BackEdge

LEMMA LabelBlockIs ==
    ASSUME cfg \in Cfg, PlacesTyped, NEW l \in Label
    PROVE  WithLabelBlock(l) \in Cfg /\ LabelBlock(l) \in Nat
<1>1. labels[l].block \in Nat
  BY DEF PlacesTyped, LabelState
<1>2. Size(cfg) + 1 \in Nat /\ NewBlocks(cfg, 1) \in Cfg
  BY NewIs DEF Size, Cfg
<1>3. QED BY <1>1, <1>2 DEF WithLabelBlock, LabelBlock

LEMMA EnterCfg ==
    ASSUME cfg \in Cfg, EnterBlock \/ EnterIf \/ EnterWhile \/ EnterRepeat \/ EnterCond
    PROVE  cfg' \in Cfg
<1>1. PICK n \in Nat : n = Size(cfg)
  BY DEF Size, Cfg
<1>2. PICK a \in Nat, b \in Nat : a = n + 1 /\ b = n + 2
  OBVIOUS
<1>3. NewBlocks(cfg, 3) \in Cfg /\ NewBlocks(cfg, 2) \in Cfg
  BY NewIs
<1>4. CASE EnterBlock \/ EnterCond
  BY <1>4 DEF EnterBlock, EnterCond, emitter
<1>5. CASE EnterIf
  <2>1. cfg' = Goto(NewBlocks(cfg, 3), b)
    BY <1>1, <1>2, <1>5 DEF EnterIf
  <2>2. QED BY <2>1, <1>3, GotoIs
<1>6. CASE EnterWhile
  <2>1. cfg' = Goto(Goto(NewBlocks(cfg, 3), a), b)
    <3>1. a + 1 = b
      BY <1>2
    <3>2. QED BY <3>1, <1>1, <1>2, <1>6 DEF EnterWhile
  <2>2. Goto(NewBlocks(cfg, 3), a) \in Cfg
    BY <1>3, GotoIs
  <2>3. QED BY <2>1, <2>2, GotoIs
<1>7. CASE EnterRepeat
  <2>1. cfg' = Goto(NewBlocks(cfg, 2), a)
    BY <1>1, <1>2, <1>7 DEF EnterRepeat
  <2>2. QED BY <2>1, <1>3, GotoIs
<1>8. QED BY <1>4, <1>5, <1>6, <1>7,
             EnterBlock \/ EnterIf \/ EnterWhile \/ EnterRepeat \/ EnterCond

LEMMA ExitCfg ==
    ASSUME cfg \in Cfg, WalkTyped, OpenAgrees,
           ExitBlock \/ ExitIf \/ ExitWhile \/ ExitRepeat \/ ExitCond
    PROVE  cfg' \in Cfg
<1>1. ~done /\ open # << >>
  BY DEF ExitBlock, ExitIf, ExitWhile, ExitRepeat, ExitCond, Exit
<1>2. Mark \in 0 .. Len(deferred) /\ Len(deferred) - Mark \in Nat /\ Last(open) \in Entry
  BY <1>1, Innermost
<1>3. PICK a \in Nat, b \in Nat, c \in Nat :
          a = Last(open).first /\ b = a + 1 /\ c = a + 2
  BY <1>2 DEF Entry
<1>4. deferred \in Seq(Nat)
  BY DEF WalkTyped
<1>5. UnwindDeferred(cfg, Mark) \in Cfg
  BY <1>2, <1>4, UnwindIs
<1>6. CASE ExitBlock \/ ExitCond
  BY <1>5, <1>6 DEF ExitBlock, ExitCond, emitter
<1>7. CASE ExitIf
  <2>1. cfg' = Goto(Goto(UnwindDeferred(cfg, Mark), c), a)
    BY <1>3, <1>7 DEF ExitIf
  <2>2. Goto(UnwindDeferred(cfg, Mark), c) \in Cfg
    BY <1>5, GotoIs
  <2>3. QED BY <2>1, <2>2, GotoIs
<1>8. CASE ExitWhile
  <2>1. cfg' = Goto(UnwindDeferred(cfg, Mark), c)
    BY <1>3, <1>8 DEF ExitWhile
  <2>2. QED BY <2>1, <1>5, GotoIs
<1>9. CASE ExitRepeat
  <2>1. PICK e \in Cfg : e = BackEdge(cfg, a, Len(deferred) - Mark)
    BY <1>2, BackEdgeIs
  <2>2. Goto(e, b) \in Cfg
    BY GotoIs
  <2>3. UnwindDeferred(Goto(e, b), Mark) \in Cfg
    BY <2>2, <1>2, <1>4, UnwindIs
  <2>4. cfg' = UnwindDeferred(Goto(e, b), Mark)
    BY <2>1, <1>3, <1>9 DEF ExitRepeat
  <2>5. QED BY <2>3, <2>4
<1>10. QED BY <1>6, <1>7, <1>8, <1>9,
              ExitBlock \/ ExitIf \/ ExitWhile \/ ExitRepeat \/ ExitCond

LEMMA StatementCfg ==
    ASSUME Jumps, \/ Defer \/ BreakStat \/ ReturnStat \/ EndBody
                  \/ \E l \in Label : DefineLabel(l) \/ GotoStat(l)
    PROVE  cfg' \in Cfg
<1>1. cfg \in Cfg /\ WalkTyped /\ OpenAgrees /\ PlacesTyped /\ deferred \in Seq(Nat)
  BY DEF Jumps, Walk, WalkTyped
<1>2. Len(deferred) \in Nat
  BY <1>1
<1>3. CASE Defer
  BY <1>1, <1>3, NewIs DEF Defer
<1>4. CASE BreakStat
  <2>1. ~done
    BY <1>4 DEF BreakStat, Statement, Counted
  <2>2. CASE breakpoints = << >>
    BY <2>2, <1>1, <1>4 DEF BreakStat
  <2>3. CASE breakpoints # << >>
    <3>1. Len(deferred) - Last(breakpoints) \in Nat
      BY <2>1, <2>3, <1>1, Breakable
    <3>2. Leave(cfg, Len(deferred) - Last(breakpoints)) \in Cfg
      BY <3>1, <1>1, LeaveIs
    <3>3. QED BY <3>2, <2>3, <1>4 DEF BreakStat
  <2>4. QED BY <2>2, <2>3
<1>5. CASE ReturnStat
  BY <1>1, <1>2, <1>5, LeaveIs DEF ReturnStat
<1>6. CASE EndBody
  <2>1. 0 \in 0 .. Len(deferred)
    BY <1>2
  <2>2. UnwindDeferred(cfg, 0) \in Cfg
    BY <2>1, <1>1, UnwindIs
  <2>3. QED BY <2>2, <1>6, BrIs DEF EndBody
<1>7. ASSUME NEW l \in Label, DefineLabel(l) PROVE cfg' \in Cfg
  <2>1. WithLabelBlock(l) \in Cfg /\ LabelBlock(l) \in Nat
    BY <1>1, LabelBlockIs
  <2>2. Goto(WithLabelBlock(l), LabelBlock(l)) \in Cfg
    BY <2>1, GotoIs
  <2>3. QED BY <2>2, <1>7 DEF DefineLabel
<1>8. ASSUME NEW l \in Label, GotoStat(l) PROVE cfg' \in Cfg
  <2>1. WithLabelBlock(l) \in Cfg
    BY <1>1, LabelBlockIs
  <2>2. Leave(WithLabelBlock(l), 0) \in Cfg
    BY <2>1, LeaveIs
  <2>3. QED BY <2>2, <1>8 DEF GotoStat
<1>9. QED BY <1>3, <1>4, <1>5, <1>6, <1>7, <1>8

-----------------------------------------------------------------------------
(* The calls of the innermost scope are on top of the stack.               *)
LEMMA ScopeOnTop ==
    ASSUME NEW s \in Seq(Entry), NEW p \in Seq(Nat), NEW d \in Seq(Nat), NEW n \in Nat,
           ScopesAgree(s, p, d, n), s # << >>, s[Len(s)].kind \in Scoping
    PROVE  /\ p[Len(p)] \in Nat
           /\ Len(d) = Len(s[Len(s)].outer) + p[Len(p)]
<1>1. PICK k \in 1 .. Len(s), m \in 0 .. Len(s) : k = Len(s) /\ m = k - 1
  <2>1. Len(s) \in 1 .. Len(s) /\ Len(s) - 1 \in 0 .. Len(s)
    OBVIOUS
  <2>2. QED BY <2>1
<1>2. s[k].kind \in Scoping /\ EntryAgrees(s, p, d, n, k)
  BY <1>1 DEF ScopesAgree
<1>3. PICK c \in 1 .. Len(p) : c = ScopeOf(s, m)
  BY ScopesBelow
<1>4. ScopeOf(s, k) = c + 1 /\ ScopeOf(s, k) = Len(p)
  <2>1. \A i \in 1 .. Len(s) :
            ScopeOf(s, i) = ScopeOf(s, i - 1) + IF s[i].kind \in Scoping THEN 1 ELSE 0
    BY ScopeSteps
  <2>2. QED BY <2>1, <1>1, <1>2, <1>3 DEF ScopesAgree
<1>5. Len(s[k].outer) = DepthOf(p, c - 1) + p[c]
  BY <1>1, <1>2, <1>3 DEF EntryAgrees
<1>6. c + 1 \in 1 .. Len(p) /\ c \in 1 .. Len(p) /\ (c + 1) - 1 = c
  BY <1>3, <1>4
<1>7. \A i \in 1 .. Len(p) : DepthOf(p, i) = DepthOf(p, i - 1) + p[i]
  BY DepthSteps
<1>8. DepthOf(p, c) = DepthOf(p, c - 1) + p[c]
  BY <1>6, <1>7
<1>9. DepthOf(p, c + 1) = DepthOf(p, c) + p[c + 1]
  <2>1. DepthOf(p, c + 1) = DepthOf(p, (c + 1) - 1) + p[c + 1]
    BY <1>6, <1>7
  <2>2. QED BY <2>1, <1>6
<1>10. DepthOf(p, c + 1) = Len(d)
  <2>1. Depth(p) = DepthOf(p, Len(p)) /\ Depth(p) = Len(d)
    BY DepthSteps DEF ScopesAgree
  <2>2. QED BY <2>1, <1>4
<1>11. p[c + 1] \in Nat
  BY <1>6, SMTT(30)
<1>12. QED BY <1>1, <1>4, <1>5, <1>8, <1>9, <1>10, <1>11

(* The merge block of a repeat loop runs the calls of its body's scope.    *)
LEMMA MergesStep ==
    ASSUME Jumps, [Next]_vars
    PROVE  MergesAgree'
<1>1. MergesAgree /\ WalkTyped /\ OpenAgrees
  BY DEF Jumps, Walk
<1>2. ASSUME UNCHANGED merges PROVE MergesAgree'
  BY <1>1, <1>2 DEF MergesAgree
<1>3. ASSUME NEW calls \in Seq(Nat), MergeRuns(calls), Last(open) \in Entry,
             Last(scopeposition) \in Nat,
             Len(calls) = IF Last(open).kind = "repeat" THEN Last(scopeposition) ELSE 0
      PROVE  MergesAgree'
  <2> DEFINE m == [loop |-> Last(open), calls |-> calls, own |-> Last(scopeposition)]
  <2>1. m \in Merges
    BY <1>3 DEF Merges
  <2>2. Len(m.calls) = IF m.loop.kind = "repeat" THEN m.own ELSE 0
    BY <1>3
  <2>3. merges' = merges \cup {m}
    BY <1>3 DEF MergeRuns
  <2> HIDE DEF m
  <2>4. QED BY <2>1, <2>2, <2>3, <1>1 DEF MergesAgree
<1>4. ASSUME NEW kind \in Loops, Exit(kind)
      PROVE  /\ Last(open) \in Entry /\ Last(open).kind = kind
             /\ Last(scopeposition) \in Nat
             /\ Mark \in 0 .. Len(deferred)
             /\ Len(deferred) = Mark + Last(scopeposition)
  <2>1. ~done /\ open # << >> /\ Last(open).kind = kind
    BY <1>4 DEF Exit
  <2>2. Last(open) = open[Len(open)] /\ Last(open) \in Entry /\ Mark \in 0 .. Len(deferred)
    BY <2>1, <1>1, Innermost
  <2>3. open[Len(open)].kind \in Scoping
    BY <2>1, <2>2 DEF Loops, Scoping, AllKinds
  <2>4. ScopesAgree(open, scopeposition, deferred, stats)
    BY <2>1, <1>1 DEF OpenAgrees
  <2>5. /\ scopeposition[Len(scopeposition)] \in Nat
        /\ Len(deferred) = Len(open[Len(open)].outer) + scopeposition[Len(scopeposition)]
    <3>1. PICK s \in Seq(Entry), p \in Seq(Nat), d \in Seq(Nat), n \in Nat :
              s = open /\ p = scopeposition /\ d = deferred /\ n = stats
      BY <1>1 DEF WalkTyped
    <3>2. ScopesAgree(s, p, d, n) /\ s # << >> /\ s[Len(s)].kind \in Scoping
      BY <2>1, <2>3, <2>4, <3>1
    <3>3. p[Len(p)] \in Nat /\ Len(d) = Len(s[Len(s)].outer) + p[Len(p)]
      BY <3>2, ScopeOnTop
    <3>4. QED BY <3>1, <3>3
  <2>6. Last(scopeposition) = scopeposition[Len(scopeposition)]
        /\ Mark = Len(open[Len(open)].outer)
    BY <2>2 DEF Last, Mark
  <2>7. QED BY <2>1, <2>2, <2>5, <2>6
<1>5. CASE ExitWhile
  <2>1. Exit("while") /\ MergeRuns(<< >>) /\ "while" \in Loops
    BY <1>5 DEF ExitWhile, Loops
  <2>2. PICK calls \in Seq(Nat) : calls = << >> /\ Len(calls) = 0
    <3>1. << >> \in Seq(Nat) /\ Len(<< >>) = 0
      OBVIOUS
    <3>2. QED BY <3>1
  <2>3. Last(open) \in Entry /\ Last(open).kind = "while" /\ Last(scopeposition) \in Nat
    BY <2>1, <1>4
  <2>4. MergeRuns(calls)
    BY <2>1, <2>2
  <2>5. Len(calls) = IF Last(open).kind = "repeat" THEN Last(scopeposition) ELSE 0
    BY <2>2, <2>3
  <2>6. QED BY <2>3, <2>4, <2>5, <1>3
<1>6. CASE ExitRepeat
  <2>1. Exit("repeat") /\ MergeRuns(SubSeq(deferred, Mark + 1, Len(deferred)))
        /\ "repeat" \in Loops
    BY <1>6 DEF ExitRepeat, Loops
  <2>2. /\ Last(open) \in Entry /\ Last(open).kind = "repeat"
        /\ Last(scopeposition) \in Nat
        /\ Mark \in 0 .. Len(deferred)
        /\ Len(deferred) = Mark + Last(scopeposition)
    BY <2>1, <1>4
  <2>3. PICK d \in Seq(Nat), m \in Nat, own \in Nat :
            d = deferred /\ m = Mark /\ own = Last(scopeposition) /\ Len(d) = m + own
    <3>1. deferred \in Seq(Nat) /\ Mark \in Nat /\ Last(scopeposition) \in Nat
      BY <2>2, <1>1 DEF WalkTyped
    <3>2. QED BY <3>1, <2>2
  <2>4. SubSeq(d, m + 1, Len(d)) \in Seq(Nat) /\ Len(SubSeq(d, m + 1, Len(d))) = own
    <3>1. m + 1 \in 1 .. Len(d) + 1 /\ Len(d) \in Nat /\ Len(d) - (m + 1) + 1 = own
      BY <2>3
    <3>2. SubSeq(d, m + 1, Len(d)) \in Seq(Nat)
      BY <3>1
    <3>3. Len(SubSeq(d, m + 1, Len(d)))
              = IF m + 1 <= Len(d) THEN Len(d) - (m + 1) + 1 ELSE 0
      BY <3>1
    <3>4. (m + 1 <= Len(d)) \/ own = 0
      BY <2>3, <3>1
    <3>5. QED BY <3>1, <3>2, <3>3, <3>4
  <2>5. QED BY <2>1, <2>2, <2>3, <2>4, <1>3
<1>7. CASE EnterBlock \/ EnterIf \/ EnterWhile \/ EnterRepeat \/ EnterCond
  BY <1>2, <1>7 DEF EnterBlock, EnterIf, EnterWhile, EnterRepeat, EnterCond, Enter
<1>8. CASE ExitBlock \/ ExitIf \/ ExitCond
  BY <1>2, <1>8 DEF ExitBlock, ExitIf, ExitCond
<1>9. CASE Defer \/ BreakStat \/ ReturnStat \/ EndBody
  BY <1>2, <1>9 DEF Defer, BreakStat, ReturnStat, EndBody
<1>10. ASSUME NEW l \in Label, DefineLabel(l) \/ GotoStat(l) PROVE MergesAgree'
  BY <1>2, <1>10 DEF DefineLabel, GotoStat
<1>11. CASE UNCHANGED vars
  BY <1>2, <1>11 DEF vars
<1>12. QED BY <1>5, <1>6, <1>7, <1>8, <1>9, <1>10, <1>11 DEF Next

(* What a break runs is what was deferred in its loop, unless the merge    *)
(* block has calls of its own.                                             *)
LEMMA BreaksRun ==
    ASSUME PlacesTyped, BreaksLeave, MergesAgree
    PROVE  BreakUnwinds
<1> SUFFICES ASSUME NEW b \in breaks, NEW n \in b.target, NEW loop \in b.loop,
                    NEW m \in merges, m.loop = loop
             PROVE  BreakRuns(b, n, m) = DeferredInLoop(b, loop)
                        <=> ~(loop.kind = "repeat" /\ m.own > 0)
  BY DEF BreaksLeave, BreakUnwinds
<1>1. /\ b.place \in Places /\ n \in Nat /\ loop \in Entry
  BY DEF PlacesTyped, Breaks
<1>2. PICK d \in Seq(Nat) : d = b.place.deferred
  BY <1>1 DEF Places
<1>3. PICK calls \in Seq(Nat), own \in Nat :
          /\ calls = m.calls /\ own = m.own
          /\ Len(calls) = IF loop.kind = "repeat" THEN own ELSE 0
  BY DEF MergesAgree, Merges
<1>4. n <= Len(d) /\ n = Len(loop.outer)
  <2>1. n <= Len(d) /\ SubSeq(d, 1, n) = loop.outer
    BY <1>2 DEF BreaksLeave, BreakLeaves
  <2>2. n \in 0 .. Len(d)
    BY <2>1, <1>1
  <2>3. Len(SubSeq(d, 1, n)) = n
    BY <2>2, SubSeqFacts
  <2>4. QED BY <2>1, <2>3
<1>5. PICK r \in Seq(Nat) : r = SubSeq(d, n + 1, Len(d))
  <2>1. n + 1 \in 1 .. Len(d) + 1 /\ Len(d) \in Nat
    BY <1>1, <1>4
  <2>2. SubSeq(d, n + 1, Len(d)) \in Seq(Nat)
    BY <2>1
  <2>3. QED BY <2>2
<1>6. BreakRuns(b, n, m) = r \o calls /\ DeferredInLoop(b, loop) = r
  BY <1>2, <1>3, <1>4, <1>5 DEF BreakRuns, DeferredInLoop
<1>7. (r \o calls = r) <=> Len(calls) = 0
  <2>1. Len(r \o calls) = Len(r) + Len(calls) /\ Len(r) \in Nat /\ Len(calls) \in Nat
    OBVIOUS
  <2>2. (r \o calls = r) => Len(calls) = 0
    BY <2>1
  <2>3. ASSUME Len(calls) = 0 PROVE r \o calls = r
    <3>1. calls = << >>
      BY <2>3
    <3>2. r \o << >> = r
      OBVIOUS
    <3>3. QED BY <3>1, <3>2
  <2>4. QED BY <2>2, <2>3
<1>8. Len(calls) = 0 <=> ~(loop.kind = "repeat" /\ own > 0)
  BY <1>3
<1>9. QED BY <1>3, <1>6, <1>7, <1>8

-----------------------------------------------------------------------------
LEMMA JumpsStep ==
    ASSUME Jumps, [Next]_vars
    PROVE  Jumps'
<1>1. Walk /\ cfg \in Cfg /\ WalkTyped /\ PlacesTyped /\ OpenAgrees /\ Typed
  BY DEF Jumps, Walk, Typed
<1>0. MergesAgree'
  BY MergesStep
<1>2. Size(cfg) \in Nat
  BY <1>1 DEF Size, Cfg
<1>3. CASE EnterBlock \/ EnterIf \/ EnterWhile \/ EnterRepeat \/ EnterCond
  <2>1. PICK e \in Entry : Begins(e)
    BY <1>1, <1>3, EnterBegins
  <2>2. Walk' /\ cfg' \in Cfg
    BY <2>1, <1>1, <1>3, BeginsKeeps, EnterCfg
  <2>3. QED BY <2>2, <1>0 DEF Jumps
<1>4. CASE ExitBlock \/ ExitIf \/ ExitWhile \/ ExitRepeat \/ ExitCond
  <2>1. Ends
    BY <1>1, <1>4, ExitEnds
  <2>2. Walk' /\ cfg' \in Cfg
    BY <2>1, <1>1, <1>4, EndsKeeps, ExitCfg
  <2>3. QED BY <2>2, <1>0 DEF Jumps
<1>5. CASE Defer
  BY <1>1, <1>2, <1>5, DeferKeeps, StatementCfg, <1>0 DEF Jumps
<1>6. CASE BreakStat
  BY <1>1, <1>6, BreakKeeps, StatementCfg, <1>0 DEF Jumps
<1>7. CASE ReturnStat
  BY <1>1, <1>7, ReturnKeeps, StatementCfg, <1>0 DEF Jumps
<1>8. ASSUME NEW l \in Label, DefineLabel(l) PROVE Jumps'
  BY <1>1, <1>2, <1>8, DefineLabelKeeps, StatementCfg, <1>0 DEF Jumps
<1>9. ASSUME NEW l \in Label, GotoStat(l) PROVE Jumps'
  BY <1>1, <1>2, <1>9, GotoKeeps, StatementCfg, <1>0 DEF Jumps
<1>10. CASE EndBody
  BY <1>1, <1>10, EndKeeps, StatementCfg, <1>0 DEF Jumps
<1>11. CASE UNCHANGED vars
  <2>1. /\ UNCHANGED <<stats, repeats, open, done, scopeposition, loopdepth, error>>
        /\ UNCHANGED <<labels, gotos, breaks, deferred, breakpoints, cfg>>
    BY <1>11 DEF vars, body, checker, emitter
  <2>2. WalkTyped' /\ PlacesTyped' /\ PlacesPassed' /\ GotosChecked' /\ BreaksLeave'
        /\ DepthsAgree'
    BY <2>1, <1>1 DEF Walk, WalkTyped, PlacesTyped, PlacesPassed, GotosChecked,
                      BreaksLeave, DepthsAgree
  <2>3. OpenAgrees'
    BY <2>1, <1>1 DEF OpenAgrees, LoopsCounted, PlacesAgree
  <2>4. QED BY <2>1, <2>2, <2>3, <1>0, <1>1 DEF Jumps, Walk
<1>12. QED BY <1>3, <1>4, <1>5, <1>6, <1>7, <1>8, <1>9, <1>10, <1>11 DEF Next

(* In every state that can be reached the stack of deferred calls is that  *)
(* of the scopes which are open, and so is what labels, gotos and breaks   *)
(* have recorded of it (semanticcheck and emitStmt walk the same tree).    *)
THEOREM WalksTogether == Spec => []Jumps
<1>1. Init => Jumps
  <2>1. Init => cfg \in Cfg
    BY DEF Init, Cfg
  <2>2. Init => MergesAgree
    BY DEF Init, MergesAgree
  <2>3. QED BY <2>1, <2>2, WalkBegins DEF Jumps
<1>2. Jumps /\ [Next]_vars => Jumps'
  BY JumpsStep
<1>3. QED BY <1>1, <1>2, PTL DEF Spec

(* The checker's count of the defers of the open scopes is the number of   *)
(* calls on the emitter's stack (labeldepths, and the assertions of        *)
(* T_label and T_gotostat).                                                *)
THEOREM CheckerAndEmitterCountAlike == Spec => []DepthsAgree
<1>1. Jumps => DepthsAgree
  BY DEF Jumps, Walk
<1>2. QED BY <1>1, WalksTogether, PTL

(* An accepted goto never needs a deferred call that its own place does not *)
(* have, and what it leaves is what was deferred at its label, also between *)
(* siblings, unless it jumps into a construct that had deferred something;  *)
(* a break runs exactly the calls deferred in its loop, unless that is a    *)
(* repeat loop whose own scope defers, which runs them again (T_gotostat,   *)
(* T_breakstat and T_repeatstat of emitStmt).                               *)
THEOREM JumpsRunWhatWasDeferred == Spec => []JumpsUnwind
<1>1. Jumps => JumpsUnwind
  <2> SUFFICES ASSUME Jumps PROVE JumpsUnwind
    OBVIOUS
  <2>1. GotosChecked /\ BreakUnwinds
    BY BreaksRun DEF Jumps, Walk
  <2>2. ASSUME Accepted PROVE GotoUnwinds
    BY <2>1, <2>2 DEF GotosChecked, Accepted, GotoUnwinds
  <2>3. QED BY <2>1, <2>2 DEF JumpsUnwind
<1>2. QED BY <1>1, WalksTogether, PTL

LEMMA ConditionEnds ==
    ASSUME Jumps, [Next]_vars, Len(open') < Len(open), Last(open).kind = "cond", ~error'
    PROVE  deferred' = Last(open).outer
<1>1. WalkTyped /\ OpenAgrees
  BY DEF Jumps, Walk
<1>2. PICK n \in Nat : n = Len(open)
  BY <1>1 DEF WalkTyped
<1>3. ~(open' = open)
  BY <1>2
<1>4. ASSUME NEW kind, Enter(kind) PROVE FALSE
  <2>1. \E e : open' = Append(open, e)
    BY <1>4 DEF Enter, Push
  <2>2. PICK e : open' = Append(open, e)
    BY <2>1
  <2>3. Len(open') = n + 1
    BY <2>2, <1>1, <1>2 DEF WalkTyped
  <2>4. QED BY <2>3, <1>2
<1>5. ExitCond
  <2>1. ~(EnterBlock \/ EnterIf \/ EnterWhile \/ EnterRepeat \/ EnterCond)
    BY <1>4 DEF EnterBlock, EnterIf, EnterWhile, EnterRepeat, EnterCond
  <2>2. ~(ExitBlock \/ ExitIf \/ ExitWhile \/ ExitRepeat)
    BY DEF ExitBlock, ExitIf, ExitWhile, ExitRepeat, Exit
  <2>3. ~(Defer \/ BreakStat \/ ReturnStat \/ EndBody)
    BY <1>3 DEF Defer, BreakStat, ReturnStat, EndBody
  <2>4. ~(\E l \in Label : DefineLabel(l) \/ GotoStat(l))
    BY <1>3 DEF DefineLabel, GotoStat
  <2>5. ~UNCHANGED vars
    BY <1>3 DEF vars, body
  <2>6. QED BY <2>1, <2>2, <2>3, <2>4, <2>5 DEF Next
<1>6. Last(scopeposition) = Last(open).local /\ ~done /\ open # << >> /\ deferred' = deferred
  BY <1>5 DEF ExitCond, Exit, CondDefers, emitter
<1>7. PICK s \in Seq(Entry), p \in Seq(Nat), d \in Seq(Nat), q \in Nat :
          s = open /\ p = scopeposition /\ d = deferred /\ ScopesAgree(s, p, d, q)
  BY <1>1, <1>6 DEF WalkTyped, OpenAgrees
<1>8. PICK k \in 1 .. Len(s), m \in 0 .. Len(s) : k = Len(s) /\ m = k - 1
  <2>1. Len(s) \in 1 .. Len(s) /\ Len(s) - 1 \in 0 .. Len(s)
    BY <1>6, <1>7
  <2>2. QED BY <2>1
<1>9. s[k] \in Entry /\ s[k].kind = "cond" /\ Last(open) = s[k]
  BY <1>7, <1>8 DEF Last
<1>10. ScopeOf(s, m) = Len(p)
  <2>1. ScopeOf(s, k) = Len(p)
    BY <1>7, <1>8 DEF ScopesAgree
  <2>2. "cond" \notin Scoping
    BY DEF Scoping
  <2>3. ScopeOf(s, k) = ScopeOf(s, m)
    <3>1. \A i \in 1 .. Len(s) :
              ScopeOf(s, i) = ScopeOf(s, i - 1) + IF s[i].kind \in Scoping THEN 1 ELSE 0
      BY ScopeSteps
    <3>2. ScopeOf(s, k) = ScopeOf(s, m) + 0
      BY <3>1, <2>2, <1>8, <1>9
    <3>3. ScopeOf(s, m) \in 1 .. Len(p)
      BY <1>7, ScopesBelow
    <3>4. QED BY <3>2, <3>3
  <2>4. QED BY <2>1, <2>3
<1>11. Len(s[k].outer) = DepthOf(p, ScopeOf(s, m) - 1) + s[k].local
       /\ Prefix(s[k].outer, d)
  BY <1>7, <1>8 DEF ScopesAgree, EntryAgrees
<1>12. DepthOf(p, Len(p)) = DepthOf(p, Len(p) - 1) + p[Len(p)] /\ DepthOf(p, Len(p)) = Len(d)
  <2>1. Len(p) \in 1 .. Len(p)
    BY <1>7, <1>10, ScopesBelow
  <2>2. \A i \in 1 .. Len(p) : DepthOf(p, i) = DepthOf(p, i - 1) + p[i]
    BY DepthSteps
  <2>3. Depth(p) = DepthOf(p, Len(p)) /\ Depth(p) = Len(d)
    BY <1>7, DepthSteps DEF ScopesAgree
  <2>4. QED BY <2>1, <2>2, <2>3
<1>13. p[Len(p)] = s[k].local
  BY <1>6, <1>7, <1>9 DEF Last
<1>14. Len(s[k].outer) = Len(d)
  BY <1>10, <1>11, <1>12, <1>13
<1>15. s[k].outer = d
  <2>1. SubSeq(d, 1, Len(d)) = d
    BY WholePrefix
  <2>2. QED BY <2>1, <1>11, <1>14 DEF Prefix
<1>16. QED BY <1>6, <1>7, <1>9, <1>15

(* A condition that is accepted leaves the stack of deferred calls as it   *)
(* was (checklocaldefers of semanticcheck).                                *)
THEOREM NoDefersInConditions == Spec => ConditionsDoNotDefer
<1>1. Jumps /\ [Next]_vars =>
          [Len(open') < Len(open) /\ Last(open).kind = "cond" =>
               error' \/ deferred' = Last(open).outer]_vars
  BY ConditionEnds
<1>2. QED BY <1>1, WalksTogether, PTL DEF Spec, ConditionsDoNotDefer

-----------------------------------------------------------------------------
(* What the emitter has built, as long as the checker has not complained   *)
(* and there is no repeat loop: the blocks have one terminator, except     *)
(* those which wait; a label waits because of a goto.                      *)
LabelsUsed ==
    /\ \A l \in PendingLabels(labels) : \E g \in gotos : g.label = l
    /\ \A l \in Label : labels[l].defined => labels[l].block # 0

Building == BlocksAgree(cfg, open, deferred, labels)

Emitted ==
    ~error /\ ~repeats =>
        /\ \A b \in breaks : b.target # {}
        /\ ~done => Building /\ LabelsUsed
        /\ done => \A b \in 1 .. Size(cfg) : cfg.term[b] = 1

LEMMA Opens ==
    ASSUME Typed, OpenAgrees, NEW kind \in AllKinds, Enter(kind)
    PROVE  \E e \in Entry : /\ open' = Append(open, e)
                            /\ e.kind = kind /\ e.first = Len(cfg.term) + 1
<1> DEFINE e == [kind  |-> kind, id |-> stats, outer |-> deferred,
                 local |-> Last(scopeposition), first |-> Size(cfg) + 1]
<1>1. ~done /\ open' = Append(open, e)
  BY DEF Enter, Counted, Push
<1>2. Last(scopeposition) \in Nat
  BY <1>1, InnermostScope
<1>3. Size(cfg) + 1 \in Nat
  BY DEF Typed, Cfg, Size
<1>4. e \in Entry
  BY <1>2, <1>3 DEF Typed, WalkTyped, Entry
<1>5. e.kind = kind /\ e.first = Len(cfg.term) + 1
  BY DEF Size
<1>6. QED BY <1>1, <1>4, <1>5

LEMMA EnterEmits ==
    ASSUME Typed, OpenAgrees, Building,
           EnterBlock \/ EnterIf \/ EnterWhile \/ EnterCond
    PROVE  Building'
<1>1. PICK s \in Seq(Entry), d \in Seq(Nat), c \in Cfg, N \in Nat :
          s = open /\ d = deferred /\ c = cfg /\ N = Len(c.term)
  <2>1. cfg \in Cfg /\ open \in Seq(Entry) /\ deferred \in Seq(Nat)
    BY DEF Typed, WalkTyped
  <2>2. Len(cfg.term) \in Nat
    BY <2>1 DEF Cfg
  <2>3. QED BY <2>1, <2>2
<1>2. PICK L, W : L = labels /\ W = Waiting(s, d, L)
  OBVIOUS
<1>3. BlocksAgree(c, s, d, L) /\ Blocks(c, W) /\ W \subseteq 1 .. N
  BY <1>1, <1>2 DEF Building, BlocksAgree, Blocks
<1>4. PICK a \in Nat, b \in Nat, g \in Nat : a = N + 1 /\ b = N + 2 /\ g = N + 3
  OBVIOUS
<1>5. /\ a \notin 1 .. N /\ b \notin 1 .. N /\ g \notin 1 .. N
      /\ a # b /\ a # g /\ b # g /\ N + 1 .. N + 3 = {a, b, g} /\ a + 2 = g /\ a + 1 = b
  BY <1>4
<1>6. PICK n : n = NewBlocks(c, 3) /\ Blocks(n, W \cup {a, b, g})
  <2>1. Blocks(NewBlocks(c, 3), W \cup (N + 1 .. N + 3))
    BY <1>1, <1>3, NewWait
  <2>2. QED BY <2>1, <1>5
<1>7. ASSUME NEW kind \in AllKinds, Enter(kind), deferred' = d, NEW F,
             F = (IF kind = "if" THEN {a, g} ELSE IF kind = "while" THEN {g} ELSE {}),
             Blocks(cfg', W \cup F)
      PROVE  Building'
  <2>1. PICK e \in Entry : open' = Append(s, e) /\ e.kind = kind /\ e.first = a
    BY <1>1, <1>4, <1>7, Opens
  <2>2. F = BlocksOf(e)
    BY <2>1, <1>5, <1>7 DEF BlocksOf
  <2>3. F \cap (1 .. N) = {}
    BY <1>5, <1>7
  <2>4. PICK x : x = cfg'
    OBVIOUS
  <2>5. BlocksAgree(x, Append(s, e), d, L)
    BY <2>2, <2>3, <2>4, <1>1, <1>2, <1>3, <1>7, EnterBlocks
  <2>6. labels' = L
    BY <1>2, <1>7 DEF Enter
  <2>7. QED BY <2>1, <2>4, <2>5, <2>6, <1>7 DEF Building
<1>8. "block" \in AllKinds /\ "if" \in AllKinds /\ "while" \in AllKinds /\ "cond" \in AllKinds
  BY DEF AllKinds
<1>9. W \cup {} = W
  OBVIOUS
<1>10. CASE EnterBlock
  <2>1. Enter("block") /\ deferred' = d /\ cfg' = c
    BY <1>1, <1>10 DEF EnterBlock, emitter
  <2>2. QED BY <2>1, <1>3, <1>7, <1>8, <1>9
<1>11. CASE EnterCond
  <2>1. Enter("cond") /\ deferred' = d /\ cfg' = c
    BY <1>1, <1>11 DEF EnterCond, emitter
  <2>2. QED BY <2>1, <1>3, <1>7, <1>8, <1>9
<1>12. CASE EnterIf
  <2>1. Enter("if") /\ deferred' = d /\ cfg' = Goto(n, b)
    BY <1>1, <1>4, <1>6, <1>12 DEF EnterIf, Size
  <2>2. (W \cup {a, b, g}) \ {b} = W \cup {a, g}
    BY <1>3, <1>5
  <2>3. Blocks(Goto(n, b), (W \cup {a, b, g}) \ {b})
    BY <1>6, GotoWait
  <2>4. Blocks(cfg', W \cup {a, g})
    BY <2>1, <2>2, <2>3
  <2>5. QED BY <2>1, <2>4, <1>7, <1>8
<1>13. CASE EnterWhile
  <2>1. Enter("while") /\ deferred' = d /\ cfg' = Goto(Goto(n, a), b)
    BY <1>1, <1>4, <1>5, <1>6, <1>13 DEF EnterWhile, Size
  <2>2. (W \cup {a, b, g}) \ {a} = W \cup {b, g} /\ (W \cup {b, g}) \ {b} = W \cup {g}
    BY <1>3, <1>5
  <2>3. PICK y : y = Goto(n, a) /\ Blocks(y, W \cup {b, g})
    <3>1. Blocks(Goto(n, a), (W \cup {a, b, g}) \ {a})
      BY <1>6, GotoWait
    <3>2. QED BY <3>1, <2>2
  <2>4. Blocks(Goto(y, b), (W \cup {b, g}) \ {b})
    BY <2>3, GotoWait
  <2>5. Blocks(cfg', W \cup {g})
    BY <2>1, <2>2, <2>3, <2>4
  <2>6. QED BY <2>1, <2>5, <1>7, <1>8
<1>14. QED BY <1>10, <1>11, <1>12, <1>13

(* The deferred calls of what ends are emitted: their blocks wait no longer. *)
LEMMA Unwinds ==
    ASSUME WalkTyped, Building, NEW n \in 0 .. Len(deferred)
    PROVE  Blocks(UnwindDeferred(cfg, n),
                  Waiting(open, deferred, labels)
                      \ {deferred[i] : i \in n + 1 .. Len(deferred)})
<1>1. PICK W : W = Waiting(open, deferred, labels)
  OBVIOUS
<1>2. Blocks(cfg, W) /\ Separate(open, deferred, labels)
  BY <1>1 DEF Building, BlocksAgree
<1>3. \A i \in 1 .. Len(deferred) : deferred[i] \in W
  BY <1>1 DEF Waiting, DeferredBlocks
<1>4. \A i, j \in 1 .. Len(deferred) : deferred[i] = deferred[j] => i = j
  BY <1>2 DEF Separate
<1>5. deferred \in Seq(Nat)
  BY DEF WalkTyped
<1>6. Blocks(UnwindDeferred(cfg, n), W \ {deferred[i] : i \in n + 1 .. Len(deferred)})
  BY <1>2, <1>3, <1>4, <1>5, UnwindWait
<1>7. QED BY <1>1, <1>6

LEMMA ExitEmits ==
    ASSUME WalkTyped, OpenAgrees, Building,
           ExitBlock \/ ExitIf \/ ExitWhile \/ ExitCond
    PROVE  Building'
<1>1. ~done /\ open # << >> /\ open' = SubSeq(open, 1, Len(open) - 1) /\ labels' = labels
  BY DEF ExitBlock, ExitIf, ExitWhile, ExitCond, Exit, Pop
<1>2. PICK s \in Seq(Entry), d \in Seq(Nat), N \in Nat :
          s = open /\ d = deferred /\ N + 1 = Len(s)
  <2>1. open \in Seq(Entry) /\ deferred \in Seq(Nat)
    BY DEF WalkTyped
  <2>2. Len(open) - 1 \in Nat /\ (Len(open) - 1) + 1 = Len(open)
    BY <2>1, <1>1
  <2>3. QED BY <2>1, <2>2
<1>3. PICK e \in Entry : e = s[N + 1] /\ e = Last(open) /\ e \in Entry
  <2>1. N + 1 \in 1 .. Len(s)
    BY <1>2
  <2>2. QED BY <2>1, <1>2 DEF Last
<1>4. PICK L, W : L = labels /\ W = Waiting(s, d, L)
  OBVIOUS
<1>5. BlocksAgree(cfg, s, d, L) /\ Blocks(cfg, W) /\ Separate(s, d, L)
  BY <1>2, <1>4 DEF Building, BlocksAgree
<1>6. PICK t \in Seq(Entry) : t = open' /\ Len(t) = N /\ \A i \in 1 .. N : t[i] = s[i]
  <2>1. N \in 0 .. Len(s) /\ Len(s) - 1 = N
    BY <1>2
  <2>2. /\ SubSeq(s, 1, N) \in Seq(Entry) /\ Len(SubSeq(s, 1, N)) = N
        /\ \A i \in 1 .. N : SubSeq(s, 1, N)[i] = s[i]
    BY <2>1, SubSeqFacts
  <2>3. open' = SubSeq(s, 1, N)
    BY <2>1, <1>1, <1>2
  <2>4. QED BY <2>2, <2>3
(* What waits for the end of the construct waits no longer, and its calls. *)
<1>7. ASSUME NEW m \in 0 .. Len(d), deferred' = SubSeq(d, 1, m), NEW V,
             V = {d[i] : i \in m + 1 .. Len(d)} \cup BlocksOf(e), Blocks(cfg', W \ V)
      PROVE  Building'
  <2>1. PICK a \in Seq(Nat) : a = deferred' /\ Len(a) = m /\ \A i \in 1 .. m : a[i] = d[i]
    BY <1>7, SubSeqFacts
  <2>2. PICK x : x = cfg'
    OBVIOUS
  <2>3. V = {d[i] : i \in m + 1 .. Len(d)} \cup BlocksOf(s[N + 1])
    BY <1>3, <1>7
  <2>4. Blocks(x, Waiting(s, d, L) \ V)
    BY <2>2, <1>4, <1>7
  <2>5. BlocksAgree(x, t, a, L)
    <3>1. FirstOf(s, N, t) /\ FirstOf(d, m, a)
      BY <1>6, <2>1 DEF FirstOf
    <3>2. Blocks(x, Waiting(s, d, L) \ Released(s, d, m)) /\ N + 1 = Len(s)
      BY <2>3, <2>4, <1>2 DEF Released
    <3>3. QED BY <3>1, <3>2, <1>5, LeaveBlocks
  <2>6. QED BY <2>1, <2>2, <2>5, <1>1, <1>4, <1>6 DEF Building
<1>8. PICK m \in 0 .. Len(d) : m = Mark
  BY <1>1, <1>2, Innermost
<1>9. PICK D : D = {d[i] : i \in m + 1 .. Len(d)}
  OBVIOUS
<1>10. PICK u : u = UnwindDeferred(cfg, Mark) /\ Blocks(u, W \ D)
  <2>1. m \in 0 .. Len(deferred)
    BY <1>2, <1>8
  <2>2. Blocks(UnwindDeferred(cfg, m),
               Waiting(open, deferred, labels)
                   \ {deferred[i] : i \in m + 1 .. Len(deferred)})
    BY <2>1, Unwinds
  <2>3. QED BY <2>2, <1>2, <1>4, <1>8, <1>9
<1>11. Unwound = SubSeq(d, 1, m)
  BY <1>2, <1>8 DEF Unwound
<1>12. BlocksOf(e) \subseteq W /\ BlocksOf(e) \cap D = {}
  <2>1. N + 1 \in 1 .. Len(s)
    BY <1>2
  <2>2. BlocksOf(e) \subseteq OpenBlocks(s)
    BY <2>1, <1>3 DEF OpenBlocks
  <2>3. \A i \in m + 1 .. Len(d) : i \in 1 .. Len(d)
    OBVIOUS
  <2>4. D \subseteq DeferredBlocks(d)
    BY <2>3, <1>9 DEF DeferredBlocks
  <2>5. DeferredBlocks(d) \cap OpenBlocks(s) = {}
    BY <1>5 DEF Separate
  <2>6. QED BY <2>2, <2>4, <2>5, <1>4 DEF Waiting
<1>13. PICK b \in Nat, g \in Nat : b = e.first /\ g = e.first + 2 /\ b # g
  <2>1. e.first \in Nat
    BY <1>3 DEF Entry
  <2>2. QED BY <2>1
<1>14. CASE ExitBlock
  <2>1. e.kind = "block" /\ deferred' = SubSeq(d, 1, m) /\ cfg' = u
    BY <1>3, <1>10, <1>11, <1>14 DEF ExitBlock, Exit
  <2>2. BlocksOf(e) = {}
    BY <2>1 DEF BlocksOf
  <2>3. D \cup BlocksOf(e) = D
    BY <2>2
  <2>4. QED BY <2>1, <2>3, <1>7, <1>9, <1>10
<1>15. CASE ExitCond
  <2>1. e.kind = "cond" /\ deferred' = d /\ cfg' = cfg
    BY <1>2, <1>3, <1>15 DEF ExitCond, Exit, emitter
  <2>2. BlocksOf(e) = {}
    BY <2>1 DEF BlocksOf
  <2>3. PICK k \in 0 .. Len(d) : k = Len(d)
    OBVIOUS
  <2>4. {d[i] : i \in k + 1 .. Len(d)} = {}
    BY <2>3
  <2>5. deferred' = SubSeq(d, 1, k)
    BY <2>1, <2>3, WholePrefix
  <2>6. {d[i] : i \in k + 1 .. Len(d)} \cup BlocksOf(e) = {} /\ W \ {} = W
    BY <2>2, <2>4
  <2>7. QED BY <2>1, <2>5, <2>6, <1>5, <1>7
<1>16. CASE ExitIf
  <2>1. e.kind = "if" /\ deferred' = SubSeq(d, 1, m) /\ cfg' = Goto(Goto(u, g), b)
    BY <1>3, <1>10, <1>11, <1>13, <1>16 DEF ExitIf, Exit
  <2>2. BlocksOf(e) = {b, g}
    BY <2>1, <1>13 DEF BlocksOf
  <2>3. g \in W \ D /\ b \in (W \ D) \ {g} /\ ((W \ D) \ {g}) \ {b} = W \ (D \cup BlocksOf(e))
    BY <2>2, <1>12, <1>13
  <2>4. PICK y : y = Goto(u, g) /\ Blocks(y, (W \ D) \ {g})
    BY <2>3, <1>10, GotoWait
  <2>5. Blocks(Goto(y, b), ((W \ D) \ {g}) \ {b})
    BY <2>3, <2>4, GotoWait
  <2>6. Blocks(cfg', W \ (D \cup BlocksOf(e)))
    BY <2>1, <2>3, <2>4, <2>5
  <2>7. QED BY <2>1, <2>6, <1>7, <1>9
<1>17. CASE ExitWhile
  <2>1. e.kind = "while" /\ deferred' = SubSeq(d, 1, m) /\ cfg' = Goto(u, g)
    BY <1>3, <1>10, <1>11, <1>13, <1>17 DEF ExitWhile, Exit
  <2>2. BlocksOf(e) = {g}
    BY <2>1, <1>13 DEF BlocksOf
  <2>3. g \in W \ D /\ (W \ D) \ {g} = W \ (D \cup BlocksOf(e))
    BY <2>2, <1>12
  <2>4. Blocks(Goto(u, g), (W \ D) \ {g})
    BY <2>3, <1>10, GotoWait
  <2>5. Blocks(cfg', W \ (D \cup BlocksOf(e)))
    BY <2>1, <2>3, <2>4
  <2>6. QED BY <2>1, <2>5, <1>7, <1>9
<1>18. QED BY <1>14, <1>15, <1>16, <1>17

LEMMA DeferEmits ==
    ASSUME Typed, Building, Defer
    PROVE  Building'
<1>1. PICK d \in Seq(Nat), c \in Cfg, N \in Nat, b \in Nat :
          d = deferred /\ c = cfg /\ N = Len(c.term) /\ b = N + 1
  <2>1. cfg \in Cfg /\ deferred \in Seq(Nat)
    BY DEF Typed, WalkTyped
  <2>2. Len(cfg.term) \in Nat
    BY <2>1 DEF Cfg
  <2>3. QED BY <2>1, <2>2
<1>2. PICK s, L, W : s = open /\ L = labels /\ W = Waiting(s, d, L)
  OBVIOUS
<1>3. BlocksAgree(c, s, d, L) /\ Blocks(c, W)
  BY <1>1, <1>2 DEF Building, BlocksAgree
<1>4. PICK x : x = NewBlocks(c, 1) /\ Blocks(x, W \cup {b})
  <2>1. Blocks(NewBlocks(c, 1), W \cup (N + 1 .. N + 1))
    BY <1>1, <1>3, NewWait
  <2>2. N + 1 .. N + 1 = {b}
    BY <1>1
  <2>3. QED BY <2>1, <2>2
<1>5. b \notin 1 .. Len(c.term)
  BY <1>1
<1>6. BlocksAgree(x, s, Append(d, b), L)
  BY <1>2, <1>3, <1>4, <1>5, DeferBlocks
<1>7. cfg' = x /\ open' = s /\ deferred' = Append(d, b) /\ labels' = L
  BY <1>1, <1>2, <1>4 DEF Defer, Push, Size
<1>8. QED BY <1>6, <1>7 DEF Building

(* A jump goes on in a new block.                                          *)
LEMMA LeaveEmits ==
    ASSUME Building, NEW n \in Nat, cfg' = Leave(cfg, n), UNCHANGED <<open, deferred, labels>>
    PROVE  Building'
<1>1. PICK W, x : W = Waiting(open, deferred, labels) /\ x = Leave(cfg, n)
  OBVIOUS
<1>2. Blocks(cfg, W) /\ Separate(open, deferred, labels)
  BY <1>1 DEF Building, BlocksAgree
<1>3. Blocks(x, W)
  BY <1>1, <1>2, LeaveWait
<1>4. QED BY <1>1, <1>2, <1>3 DEF Building, BlocksAgree

LEMMA BreakEmits ==
    ASSUME WalkTyped, OpenAgrees, Building, BreakStat, ~error', ~repeats
    PROVE  Building' /\ (\A b \in breaks' \ breaks : b.target # {})
<1>1. ~done /\ loopdepth # 0 /\ UNCHANGED <<open, deferred, labels>>
  BY DEF BreakStat, Statement, Counted
<1>2. breakpoints # << >>
  <2>1. loopdepth = Len(breakpoints)
    BY <1>1 DEF OpenAgrees, LoopsCounted
  <2>2. QED BY <2>1, <1>1
<1>3. Len(deferred) - Last(breakpoints) \in Nat
  BY <1>1, <1>2, Breakable
<1>4. cfg' = Leave(cfg, Len(deferred) - Last(breakpoints))
  BY <1>2 DEF BreakStat
<1>5. Building'
  BY <1>1, <1>3, <1>4, LeaveEmits
<1>6. ASSUME NEW b \in breaks' \ breaks PROVE b.target # {}
  BY <1>2, <1>6, SMTT(30) DEF BreakStat
<1>7. QED BY <1>5, <1>6

(* What a goto does to the labels: its own has a block now.                *)
LEMMA GotoLabels ==
    ASSUME PlacesTyped, NEW l \in Label, GotoStat(l)
    PROVE  /\ \A k \in Label : labels'[k].defined = labels[k].defined
           /\ \A k \in Label : k # l => labels'[k].block = labels[k].block
           /\ labels'[l].block = LabelBlock(l)
<1>1. labels' = [labels EXCEPT ![l].block = LabelBlock(l)] /\ DOMAIN labels = Label
      /\ labels[l] \in LabelState
  BY DEF GotoStat, PlacesTyped
<1>2. \A k \in Label : k # l => labels'[k] = labels[k]
  BY <1>1
<1>3. labels'[l] = [labels[l] EXCEPT !.block = LabelBlock(l)]
  BY <1>1
<1>4. labels'[l].defined = labels[l].defined /\ labels'[l].block = LabelBlock(l)
  BY <1>1, <1>3 DEF LabelState
<1>5. QED BY <1>2, <1>4

LEMMA GotoEmits ==
    ASSUME Typed, Building, LabelsUsed, NEW l \in Label, GotoStat(l)
    PROVE  Building' /\ LabelsUsed'
<1>0. PlacesTyped /\ WalkTyped
  BY DEF Typed
<1>1. PICK c \in Cfg, N \in Nat, b \in Nat : c = cfg /\ N = Len(c.term) /\ b = N + 1
  <2>1. cfg \in Cfg
    BY DEF Typed
  <2>2. Len(cfg.term) \in Nat
    BY <2>1 DEF Cfg
  <2>3. QED BY <2>1, <2>2
<1>2. PICK s, d, L, W : s = open /\ d = deferred /\ L = labels /\ W = Waiting(s, d, L)
  OBVIOUS
<1>3. BlocksAgree(c, s, d, L) /\ Blocks(c, W)
  BY <1>1, <1>2 DEF Building, BlocksAgree
<1>4. PICK K : /\ K = labels' /\ \A k \in Label : K[k].defined = L[k].defined
               /\ \A k \in Label : k # l => K[k].block = L[k].block
               /\ K[l].block = LabelBlock(l)
  BY <1>0, <1>2, GotoLabels
<1>5. open' = s /\ deferred' = d /\ 0 \in Nat
  BY <1>2 DEF GotoStat
<1>6. ASSUME L[l].block = 0 PROVE Building'
  <2>1. LabelBlock(l) = b /\ cfg' = Leave(NewBlocks(c, 1), 0)
    BY <1>1, <1>2, <1>6 DEF LabelBlock, WithLabelBlock, GotoStat, Size
  <2>2. ~L[l].defined
    BY <1>2, <1>6 DEF LabelsUsed
  <2>3. PICK n : n = NewBlocks(c, 1) /\ Blocks(n, W \cup {b})
    <3>1. Blocks(NewBlocks(c, 1), W \cup (N + 1 .. N + 1))
      BY <1>1, <1>3, NewWait
    <3>2. N + 1 .. N + 1 = {b}
      BY <1>1
    <3>3. QED BY <3>1, <3>2
  <2>4. PICK x : x = cfg' /\ Blocks(x, W \cup {b})
    <3>1. Blocks(Leave(n, 0), W \cup {b})
      BY <2>3, <1>5, LeaveWait
    <3>2. QED BY <3>1, <2>1, <2>3
  <2>5. l \notin PendingLabels(L) /\ b # 0
    BY <1>1, <1>6 DEF PendingLabels
  <2>6. PendingLabels(K) = PendingLabels(L) \cup {l}
    BY <2>1, <2>2, <2>5, <1>4 DEF PendingLabels
  <2>7. \A k \in PendingLabels(L) : k \in Label /\ k # l
    BY <2>5 DEF PendingLabels
  <2>8. \A k \in PendingLabels(L) : K[k].block = L[k].block
    BY <2>7, <1>4
  <2>9. K[l].block = b /\ b \notin 1 .. Len(c.term)
    BY <2>1, <1>1, <1>4
  <2>10. BlocksAgree(x, s, d, K)
    BY <2>4, <2>5, <2>6, <2>8, <2>9, <1>2, <1>3, NewLabel
  <2>11. QED BY <2>4, <2>10, <1>4, <1>5 DEF Building
<1>7. ASSUME L[l].block # 0 PROVE Building'
  <2>1. LabelBlock(l) = L[l].block /\ cfg' = Leave(c, 0)
    BY <1>1, <1>2, <1>7 DEF LabelBlock, WithLabelBlock, GotoStat
  <2>2. PICK x : x = cfg' /\ Blocks(x, W)
    BY <2>1, <1>3, <1>5, LeaveWait
  <2>3. \A k \in Label : K[k].block = L[k].block
    BY <2>1, <1>4
  <2>4. PendingLabels(K) = PendingLabels(L)
    BY <2>3, <1>4 DEF PendingLabels
  <2>5. \A k \in PendingLabels(L) : K[k].block = L[k].block
    BY <2>3 DEF PendingLabels
  <2>6. BlocksAgree(x, s, d, K)
    BY <2>2, <2>4, <2>5, <1>2, <1>3, SameLabels
  <2>7. QED BY <2>2, <2>6, <1>4, <1>5 DEF Building
<1>8. K[l].block # 0
  <2>1. Size(cfg) + 1 # 0
    BY <1>1 DEF Size
  <2>2. QED BY <2>1, <1>2, <1>4 DEF LabelBlock
<1>9. LabelsUsed'
  <2>1. ASSUME NEW k \in Label, ~K[k].defined, K[k].block # 0
        PROVE  \E g \in gotos' : g.label = k
    <3>1. CASE k = l
      <4>1. [label |-> l, place |-> Place] \in gotos'
        BY DEF GotoStat
      <4>2. [label |-> l, place |-> Place].label = k
        BY <3>1
      <4>3. QED BY <4>1, <4>2
    <3>2. CASE k # l
      <4>1. k \in PendingLabels(labels)
        BY <2>1, <3>2, <1>2, <1>4 DEF PendingLabels
      <4>2. PICK g \in gotos : g.label = k
        BY <4>1 DEF LabelsUsed
      <4>3. g \in gotos'
        BY DEF GotoStat
      <4>4. QED BY <4>2, <4>3
    <3>3. QED BY <3>1, <3>2
  <2>2. ASSUME NEW k \in Label, K[k].defined PROVE K[k].block # 0
    <3>1. CASE k = l
      BY <3>1, <1>8
    <3>2. CASE k # l
      BY <2>2, <3>2, <1>2, <1>4 DEF LabelsUsed
    <3>3. QED BY <3>1, <3>2
  <2>3. QED BY <2>1, <2>2, <1>4 DEF LabelsUsed, PendingLabels
<1>10. QED BY <1>6, <1>7, <1>9

LEMMA DefineLabelEmits ==
    ASSUME Typed, Building, LabelsUsed, NEW l \in Label, DefineLabel(l), ~error'
    PROVE  Building' /\ LabelsUsed'
<1>1. PICK c \in Cfg, N \in Nat, b \in Nat : c = cfg /\ N = Len(c.term) /\ b = N + 1
  <2>1. cfg \in Cfg
    BY DEF Typed
  <2>2. Len(cfg.term) \in Nat
    BY <2>1 DEF Cfg
  <2>3. QED BY <2>1, <2>2
<1>2. PICK s, d, L, W : s = open /\ d = deferred /\ L = labels /\ W = Waiting(s, d, L)
  OBVIOUS
<1>3. BlocksAgree(c, s, d, L) /\ Blocks(c, W)
  BY <1>1, <1>2 DEF Building, BlocksAgree
<1>4. PICK K : /\ K = labels' /\ K[l].defined /\ K[l].block = LabelBlock(l)
               /\ \A k \in Label : k # l => K[k] = L[k]
  <2>1. DOMAIN labels = Label
    BY DEF Typed, PlacesTyped
  <2>2. labels' = [labels EXCEPT ![l] = [defined |-> TRUE, block |-> LabelBlock(l),
                                         place |-> Place]]
    BY DEF DefineLabel
  <2>3. labels'[l].defined /\ labels'[l].block = LabelBlock(l)
    BY <2>1, <2>2
  <2>4. \A k \in Label : k # l => labels'[k] = labels[k]
    BY <2>1, <2>2
  <2>5. QED BY <2>3, <2>4, <1>2
<1>5. open' = s /\ deferred' = d /\ ~L[l].defined /\ gotos' = gotos
  BY <1>2 DEF DefineLabel
<1>6. PendingLabels(K) = PendingLabels(L) \ {l}
  BY <1>4 DEF PendingLabels
<1>7. \A k \in PendingLabels(K) : K[k].block = L[k].block
  BY <1>4, <1>6 DEF PendingLabels
<1>8. ASSUME L[l].block = 0 PROVE Building'
  <2>1. LabelBlock(l) = b /\ cfg' = Goto(NewBlocks(c, 1), b)
    BY <1>1, <1>2, <1>8 DEF LabelBlock, WithLabelBlock, DefineLabel, Size
  <2>2. PICK n : n = NewBlocks(c, 1) /\ Blocks(n, W \cup {b})
    <3>1. Blocks(NewBlocks(c, 1), W \cup (N + 1 .. N + 1))
      BY <1>1, <1>3, NewWait
    <3>2. N + 1 .. N + 1 = {b}
      BY <1>1
    <3>3. QED BY <3>1, <3>2
  <2>3. b \notin W
    BY <1>1, <1>3 DEF Blocks
  <2>4. PICK x : x = cfg' /\ Blocks(x, W)
    <3>1. Blocks(Goto(n, b), (W \cup {b}) \ {b})
      BY <2>2, GotoWait
    <3>2. (W \cup {b}) \ {b} = W
      BY <2>3
    <3>3. QED BY <3>1, <3>2, <2>1, <2>2
  <2>5. PendingLabels(K) = PendingLabels(L)
    BY <1>6, <1>8 DEF PendingLabels
  <2>6. BlocksAgree(x, s, d, K)
    BY <2>4, <2>5, <1>2, <1>3, <1>7, SameLabels
  <2>7. QED BY <2>4, <2>6, <1>4, <1>5 DEF Building
<1>9. ASSUME L[l].block # 0 PROVE Building'
  <2>1. LabelBlock(l) = L[l].block /\ cfg' = Goto(c, L[l].block)
    BY <1>1, <1>2, <1>9 DEF LabelBlock, WithLabelBlock, DefineLabel
  <2>2. l \in PendingLabels(L)
    BY <1>5, <1>9 DEF PendingLabels
  <2>3. L[l].block \in W
    BY <2>2, <1>2 DEF Waiting, LabelBlocks
  <2>4. PICK x : x = cfg' /\ Blocks(x, W \ {L[l].block})
    BY <2>1, <2>3, <1>3, GotoWait
  <2>5. BlocksAgree(x, s, d, K)
    BY <2>2, <2>4, <1>2, <1>3, <1>6, <1>7, LabelReached
  <2>6. QED BY <2>4, <2>5, <1>4, <1>5 DEF Building
<1>10. LabelBlock(l) # 0
  <2>1. Size(cfg) + 1 # 0
    BY <1>1 DEF Size
  <2>2. QED BY <2>1 DEF LabelBlock
<1>11. LabelsUsed'
  <2>1. \A k \in PendingLabels(K) : \E g \in gotos' : g.label = k
    BY <1>2, <1>5, <1>6 DEF LabelsUsed
  <2>2. \A k \in Label : K[k].defined => K[k].block # 0
    BY <1>2, <1>4, <1>10 DEF LabelsUsed
  <2>3. QED BY <2>1, <2>2, <1>4 DEF LabelsUsed
<1>12. QED BY <1>8, <1>9, <1>11

LEMMA EndEmits ==
    ASSUME WalkTyped, Building, LabelsUsed, EndBody, ~error'
    PROVE  \A b \in 1 .. Size(cfg') : cfg'.term[b] = 1
<1>1. open = << >> /\ cfg' = Br(UnwindDeferred(cfg, 0))
      /\ \A g \in gotos : labels[g.label].defined
  BY DEF EndBody
<1>2. PendingLabels(labels) = {}
  BY <1>1 DEF LabelsUsed, PendingLabels
<1>3. LabelBlocks(labels) = {}
  BY <1>2 DEF LabelBlocks
<1>4. OpenBlocks(open) = {}
  <2>1. Len(open) = 0 /\ 1 .. 0 = {}
    BY <1>1
  <2>2. QED BY <2>1 DEF OpenBlocks
<1>5. 0 \in 0 .. Len(deferred) /\ 0 + 1 = 1
  BY DEF WalkTyped
<1>6. Waiting(open, deferred, labels) \ {deferred[i] : i \in 0 + 1 .. Len(deferred)} = {}
  BY <1>3, <1>4, <1>5 DEF Waiting, DeferredBlocks
<1>7. PICK u : u = UnwindDeferred(cfg, 0) /\ Blocks(u, {})
  BY <1>5, <1>6, Unwinds
<1>8. \A b \in 1 .. Len(Br(u).term) : Br(u).term[b] = 1
  BY <1>7, LastBranch
<1>9. QED BY <1>1, <1>7, <1>8 DEF Size

LEMMA EmittedBegins ==
    ASSUME Init
    PROVE  Emitted
<1> USE DEF Init
<1>1. Len(open) = 0 /\ Len(deferred) = 0 /\ 1 .. 0 = {} /\ PendingLabels(labels) = {}
  BY DEF PendingLabels, Undefined
<1>2. DeferredBlocks(deferred) = {} /\ OpenBlocks(open) = {} /\ LabelBlocks(labels) = {}
  BY <1>1 DEF DeferredBlocks, OpenBlocks, LabelBlocks
<1>3. Waiting(open, deferred, labels) = {}
  BY <1>2 DEF Waiting
<1>4. Blocks(cfg, {})
  <2>1. PICK t \in Seq(Nat) : t = <<0>> /\ Len(t) = 1 /\ t[1] = 0
    <3>1. <<0>> \in Seq(Nat) /\ Len(<<0>>) = 1 /\ <<0>>[1] = 0
      OBVIOUS
    <3>2. QED BY <3>1
  <2>2. cfg.term = t /\ cfg.at = 1 /\ cfg \in Cfg
    BY <2>1 DEF Cfg
  <2>3. QED BY <2>1, <2>2 DEF Blocks
<1>5. Separate(open, deferred, labels)
  BY <1>1, <1>2 DEF Separate
<1>6. LabelsUsed
  BY <1>1 DEF LabelsUsed, Undefined
<1>7. QED BY <1>3, <1>4, <1>5, <1>6 DEF Emitted, Building, BlocksAgree

LEMMA EmittedStep ==
    ASSUME Jumps, Emitted, [Next]_vars
    PROVE  Emitted'
<1>1. /\ Typed /\ WalkTyped /\ OpenAgrees
      /\ error \in BOOLEAN /\ repeats \in BOOLEAN /\ done \in BOOLEAN
  BY DEF Jumps, Walk, Typed, WalkTyped
(* Most statements leave the labels alone, and all but one are not the end. *)
<1>0. ASSUME ~done, ~done', ~error' => ~error, ~repeats' => ~repeats,
             Building /\ ~error' /\ ~repeats' => \A b \in breaks' \ breaks : b.target # {},
             Building /\ LabelsUsed /\ ~error' /\ ~repeats' => Building' /\ LabelsUsed'
      PROVE  Emitted'
  BY <1>0 DEF Emitted
<1>a. UNCHANGED <<labels, gotos>> => (LabelsUsed => LabelsUsed')
  BY DEF LabelsUsed, PendingLabels
<1>b. breaks' = breaks => \A b \in breaks' \ breaks : b.target # {}
  OBVIOUS
<1>2. CASE EnterBlock \/ EnterIf \/ EnterWhile \/ EnterCond
  <2>1. /\ ~done /\ UNCHANGED <<done, labels, gotos, breaks, error>>
        /\ ~repeats' => ~repeats
    BY <1>2 DEF EnterBlock, EnterIf, EnterWhile, EnterCond, Enter, Counted, checker
  <2>2. Building => Building'
    BY <1>1, <1>2, EnterEmits
  <2>3. QED BY <2>1, <2>2, <1>0, <1>a, <1>b
<1>3. CASE EnterRepeat
  BY <1>3 DEF EnterRepeat, Enter, Emitted
<1>4. CASE ExitBlock \/ ExitIf \/ ExitWhile \/ ExitCond
  <2>1. /\ ~done /\ UNCHANGED <<done, labels, gotos, breaks, repeats>>
       
        /\ ~error' => ~error
    <3>1. CASE ExitBlock \/ ExitIf \/ ExitWhile
      BY <3>1 DEF ExitBlock, ExitIf, ExitWhile, Exit
    <3>2. CASE ExitCond
      BY <3>2, <1>1 DEF ExitCond, Exit
    <3>3. QED BY <3>1, <3>2, <1>4
  <2>2. Building => Building'
    BY <1>1, <1>4, ExitEmits
  <2>3. QED BY <2>1, <2>2, <1>0, <1>a, <1>b
<1>5. CASE ExitRepeat
  <2>1. ~done /\ open # << >> /\ Last(open).kind = "repeat" /\ repeats' = repeats
    BY <1>5 DEF ExitRepeat, Exit
  <2>2. Len(open) \in 1 .. Len(open) /\ Last(open) = open[Len(open)]
    BY <2>1, <1>1, Innermost
  <2>3. repeats
    BY <2>1, <2>2, <1>1 DEF OpenAgrees, LoopsCounted
  <2>4. QED BY <2>1, <2>3 DEF Emitted
<1>6. CASE Defer
  <2>1. ~done /\ UNCHANGED <<done, labels, gotos, breaks, repeats, error>>
    BY <1>6 DEF Defer, Statement, Counted
  <2>2. Building => Building'
    BY <1>1, <1>6, DeferEmits
  <2>3. QED BY <2>1, <2>2, <1>0, <1>a, <1>b
<1>7. CASE BreakStat
  <2>1. /\ ~done /\ UNCHANGED <<done, labels, gotos, repeats>>
        /\ ~error' => ~error
    BY <1>1, <1>7 DEF BreakStat, Statement, Counted
  <2>2. Building /\ ~error' /\ ~repeats =>
            Building' /\ \A b \in breaks' \ breaks : b.target # {}
    BY <1>1, <1>7, BreakEmits
  <2>3. QED BY <2>1, <2>2, <1>0, <1>a, <1>b
<1>8. CASE ReturnStat
  <2>1. /\ ~done /\ UNCHANGED <<done, labels, gotos, breaks, repeats, error, open, deferred>>
        /\ cfg' = Leave(cfg, Len(deferred))
    BY <1>8 DEF ReturnStat, Statement, Counted, checker
  <2>2. Len(deferred) \in Nat
    BY <1>1 DEF WalkTyped
  <2>3. Building => Building'
    BY <2>1, <2>2, LeaveEmits
  <2>4. QED BY <2>1, <2>3, <1>0, <1>a, <1>b
<1>9. ASSUME NEW l \in Label, GotoStat(l) PROVE Emitted'
  <2>1. /\ ~done /\ UNCHANGED <<done, breaks, repeats>>
        /\ ~error' => ~error
    BY <1>1, <1>9 DEF GotoStat, Statement, Counted
  <2>2. Building /\ LabelsUsed => Building' /\ LabelsUsed'
    BY <1>1, <1>9, GotoEmits
  <2>3. QED BY <2>1, <2>2, <1>0, <1>b
<1>10. ASSUME NEW l \in Label, DefineLabel(l) PROVE Emitted'
  <2>1. /\ ~done /\ UNCHANGED <<done, breaks, repeats>>
        /\ ~error' => ~error
    BY <1>1, <1>10 DEF DefineLabel, Statement, Counted
  <2>2. Building /\ LabelsUsed /\ ~error' => Building' /\ LabelsUsed'
    BY <1>1, <1>10, DefineLabelEmits
  <2>3. QED BY <2>1, <2>2, <1>0, <1>b
<1>11. CASE EndBody
  <2>1. /\ ~done /\ done' /\ UNCHANGED <<breaks, repeats>>
        /\ ~error' => ~error
    BY <1>1, <1>11 DEF EndBody
  <2>2. Building /\ LabelsUsed /\ ~error' => \A b \in 1 .. Size(cfg') : cfg'.term[b] = 1
    BY <1>1, <1>11, EndEmits
  <2>3. (\A b \in 1 .. Size(cfg') : cfg'.term[b] = 1)
            => (\A b \in 1 .. Size(cfg) : cfg.term[b] = 1)'
    OBVIOUS
  <2>4. QED BY <2>1, <2>2, <2>3 DEF Emitted
<1>12. CASE UNCHANGED vars
  <2>1. /\ UNCHANGED <<repeats, open, done, error>>
        /\ UNCHANGED <<labels, gotos, breaks, deferred, cfg>>
    BY <1>12 DEF vars, body, checker, emitter
  <2>2. QED BY <2>1 DEF Emitted, Building, LabelsUsed, PendingLabels
<1>13. QED BY <1>2, <1>3, <1>4, <1>5, <1>6, <1>7, <1>8, <1>9, <1>10, <1>11, <1>12 DEF Next

(* When a body without repeat loops is accepted, every break of it has a   *)
(* loop and every basic block ends, once: the code that emitStmt makes of  *)
(* an accepted function is well formed, whatever its scopes, defers and    *)
(* jumps are.                                                              *)
THEOREM EveryBlockEndsOnce == Spec => []EmittedWell
<1>1. Init => Emitted
  BY EmittedBegins
<1>2. Jumps /\ Emitted /\ [Next]_vars => Emitted'
  BY EmittedStep
<1>3. Emitted => EmittedWell
  BY DEF Emitted, EmittedWell, Accepted
<1>4. QED BY <1>1, <1>2, <1>3, WalksTogether, PTL DEF Spec
=============================================================================
