----------------------------- MODULE Jit_proofs -----------------------------
(* Reference counts are what holds units, target and compiler state, the   *)
(* module of a unit has what it was given under its name, and what loaded  *)
(* code calls is loaded code of the same unit, whatever the program does   *)
(* and whenever the collector runs.                                        *)
EXTENDS Jit, Integers, Sequences, FiniteSetTheorems, WellFoundedInduction, TLAPS

-----------------------------------------------------------------------------
(* Induction over the naturals, with a set in the place of the predicate.  *)
(*                                                                         *)
(* A set of naturals has a least element.                                  *)
LEMMA NatMin ==
    ASSUME NEW T, T \subseteq Nat, T # {}
    PROVE  \E x \in T : \A y \in T : x <= y
<1> DEFINE Less == {ss \in Nat \X Nat : ss[1] < ss[2]}
<1>1. IsWellFoundedOn(Less, Nat)
  BY NatLessThanWellFounded, Zenon DEF OpToRel
<1>2. PICK x \in T : \A y \in T : <<y, x>> \notin Less
  <2> HIDE DEF Less
  <2> QED
    BY <1>1, WFMin
<1>3. ASSUME NEW y \in T PROVE x <= y
  <2>1. x \in Nat /\ y \in Nat /\ (y < x => <<y, x>> \in Less)
    OBVIOUS
  <2> QED
    BY <1>2, <2>1
<1> QED
  BY <1>3

(* What holds of 0, and of n + 1 when it holds of n, holds up to N.        *)
LEMMA Induction ==
    ASSUME NEW T, NEW N \in Nat, 0 \in T,
           \A n \in 0 .. N : n < N /\ n \in T => n + 1 \in T
    PROVE  \A n \in 0 .. N : n \in T
<1> DEFINE U == (0 .. N) \ T
<1>1. CASE U = {}
  BY <1>1
<1>2. CASE U # {}
  <2>1. PICK x \in U : \A y \in U : x <= y
    <3>1. U \subseteq Nat
      OBVIOUS
    <3> HIDE DEF U
    <3>2. QED BY <1>2, <3>1, NatMin
  <2>2. x # 0
    OBVIOUS
  <2>3. x - 1 \in 0 .. N /\ x - 1 < N /\ (x - 1) + 1 = x /\ ~(x <= x - 1)
    BY <2>2
  <2>4. x - 1 \in T
    BY <2>1, <2>3
  <2>5. x \in T
    BY <2>3, <2>4
  <2>6. QED BY <2>5
<1>3. QED BY <1>1, <1>2

(***************************************************************************)
(* h can be applied N times: the function that is defined by recursion     *)
(* exists.                                                                 *)
(***************************************************************************)
IsIterate(S, h, N, g) ==
    \A n \in 0 .. N : g[n] = IF n = 0 THEN S ELSE h[g[n - 1]]

LEMMA Iterates ==
    ASSUME NEW U, NEW S \in SUBSET U, NEW h \in [SUBSET U -> SUBSET U], NEW N \in Nat
    PROVE  \E g \in [0 .. N -> SUBSET U] : IsIterate(S, h, N, g)
<1> DEFINE T == {n \in 0 .. N :
                    \E g \in [0 .. n -> SUBSET U] :
                        \A i \in 0 .. n : g[i] = IF i = 0 THEN S ELSE h[g[i - 1]]}
<1>1. 0 \in T
  <2> DEFINE f == [i \in 0 .. 0 |-> S]
  <2>1. f \in [0 .. 0 -> SUBSET U]
    OBVIOUS
  <2>2. \A i \in 0 .. 0 : i = 0 /\ f[i] = S
    OBVIOUS
  <2>3. 0 \in 0 .. N
    OBVIOUS
  <2> HIDE DEF f
  <2>4. \A i \in 0 .. 0 : f[i] = IF i = 0 THEN S ELSE h[f[i - 1]]
    BY <2>2
  <2>5. QED BY <2>1, <2>3, <2>4
<1>2. ASSUME NEW n \in 0 .. N, n < N, n \in T PROVE n + 1 \in T
  <2>1. PICK f \in [0 .. n -> SUBSET U] :
            \A i \in 0 .. n : f[i] = IF i = 0 THEN S ELSE h[f[i - 1]]
    BY <1>2
  <2> DEFINE g == [i \in 0 .. n + 1 |-> IF i = n + 1 THEN h[f[n]] ELSE f[i]]
  <2>2. g \in [0 .. n + 1 -> SUBSET U]
    <3>1. \A i \in 0 .. n + 1 : i = n + 1 \/ i \in 0 .. n
      OBVIOUS
    <3>2. h[f[n]] \in SUBSET U
      OBVIOUS
    <3>3. QED BY <3>1, <3>2
  <2>3. ASSUME NEW i \in 0 .. n + 1
        PROVE  g[i] = IF i = 0 THEN S ELSE h[g[i - 1]]
    <3>1. CASE i = n + 1
      <4>1. i - 1 = n /\ n \in 0 .. n + 1 /\ n # n + 1 /\ i # 0
        BY <3>1
      <4>2. g[n] = f[n] /\ g[i] = h[f[n]]
        BY <3>1, <4>1
      <4>3. QED BY <4>1, <4>2
    <3>2. CASE i # n + 1
      <4>1. i \in 0 .. n /\ g[i] = f[i]
        BY <3>2
      <4>2. i # 0 => i - 1 \in 0 .. n + 1 /\ i - 1 # n + 1
        BY <4>1
      <4>3. i # 0 => g[i - 1] = f[i - 1]
        BY <4>2
      <4>4. QED BY <2>1, <4>1, <4>3
    <3>3. QED BY <3>1, <3>2
  <2> HIDE DEF g
  <2>4. n + 1 \in 0 .. N
    BY <1>2
  <2>5. QED BY <2>2, <2>3, <2>4
<1>3. \A n \in 0 .. N : n \in T
  <2> HIDE DEF T
  <2> QED BY <1>1, <1>2, Induction
<1>4. N \in T
  BY <1>3
<1>5. QED BY <1>4 DEF IsIterate

(* The first k elements of a finite set of naturals are k.                 *)
Before(F, x) == {y \in F : y < x}
Lowest(F, k) == {x \in F : Cardinality(Before(F, x)) < k}

LEMMA LowestAreMany ==
    ASSUME NEW F, F \subseteq Nat, IsFiniteSet(F), NEW k \in 0 .. Cardinality(F)
    PROVE  IsFiniteSet(Lowest(F, k)) /\ Cardinality(Lowest(F, k)) = k
<1> DEFINE N == Cardinality(F)
<1>0. N \in Nat
  BY FS_CardinalityType
<1>1. ASSUME NEW T, T \subseteq F
      PROVE  IsFiniteSet(T) /\ Cardinality(T) \in Nat
  <2>1. IsFiniteSet(T)
    BY <1>1, FS_Subset
  <2> QED
    BY <2>1, FS_CardinalityType
<1>2. ASSUME NEW T, NEW R, R \subseteq F, T \subseteq R
      PROVE  Cardinality(T) <= Cardinality(R)
  <2>1. IsFiniteSet(R) /\ T \in SUBSET R
    BY <1>1, <1>2
  <2> QED
    BY <2>1, FS_Subset
<1>3. ASSUME NEW x \in F
      PROVE  Before(F, x) \subseteq F /\ \A y \in F : y \in Before(F, x) <=> y < x
  BY DEF Before
<1>4. \A x \in F : Cardinality(Before(F, x)) \in Nat
  BY <1>1, <1>3
<1>5. \A n : /\ Lowest(F, n) \subseteq F
             /\ \A x \in F : x \in Lowest(F, n) <=> Cardinality(Before(F, x)) < n
  BY DEF Lowest
<1> DEFINE S == {n \in 0 .. N : Cardinality(Lowest(F, n)) = n}
<1>6. 0 \in S
  <2>1. ASSUME NEW x \in Lowest(F, 0) PROVE FALSE
    <3>1. x \in F /\ Cardinality(Before(F, x)) < 0
      BY <1>5
    <3> QED
      BY <1>4, <3>1
  <2>2. Lowest(F, 0) = {}
    BY <2>1
  <2> QED
    BY <1>0, <2>2, FS_EmptySet
<1>7. ASSUME NEW n \in 0 .. N, n < N, n \in S PROVE n + 1 \in S
  <2> DEFINE L == Lowest(F, n)
  <2>1. L \subseteq F /\ Cardinality(L) = n
    BY <1>5, <1>7
  <2> HIDE DEF L
  <2>2. F \ L # {} /\ F \ L \subseteq Nat
    <3>1. L # F
      BY <1>7, <2>1
    <3> QED
      BY <2>1, <3>1
  <2>3. PICK x \in F \ L : \A y \in F \ L : x <= y
    BY <2>2, NatMin
  <2>4. x \in Nat /\ x \in F /\ ~(Cardinality(Before(F, x)) < n)
    BY <1>5, <2>2, <2>3 DEF L
  <2>5. ASSUME NEW y \in L PROVE y < x
    <3>1. y \in F /\ y \in Nat /\ y # x /\ Cardinality(Before(F, y)) < n
      BY <1>5, <2>1, <2>3 DEF L
    <3>2. CASE x < y
      <4>1. ASSUME NEW z \in Before(F, x) PROVE z \in Before(F, y)
        <5>1. z \in F /\ z < x /\ z \in Nat
          BY <1>3, <2>4
        <5>2. z < y
          BY <2>4, <3>1, <3>2, <5>1
        <5> QED
          BY <1>3, <3>1, <5>1, <5>2
      <4>2. Cardinality(Before(F, x)) <= Cardinality(Before(F, y))
        BY <1>2, <1>3, <3>1, <4>1
      <4> QED
        BY <1>4, <2>4, <3>1, <4>2
    <3> QED
      BY <2>4, <3>1, <3>2
  <2>6. Before(F, x) = L
    <3>1. ASSUME NEW y \in Before(F, x) PROVE y \in L
      <4>1. y \in F /\ y < x /\ y \in Nat
        BY <1>3, <2>4
      <4> QED
        BY <2>3, <2>4, <4>1
    <3>2. ASSUME NEW y \in L PROVE y \in Before(F, x)
      BY <1>3, <2>1, <2>4, <2>5
    <3> QED
      BY <3>1, <3>2
  <2>7. Cardinality(L \cup {x}) = n + 1
    BY <1>1, <2>1, <2>3, FS_AddElement
  <2>8. Lowest(F, n + 1) = L \cup {x}
    <3>1. x \in Lowest(F, n + 1)
      BY <1>5, <2>1, <2>4, <2>6
    <3>2. ASSUME NEW y \in L PROVE y \in Lowest(F, n + 1)
      <4>1. y \in F /\ Cardinality(Before(F, y)) < n
        BY <1>5, <2>1 DEF L
      <4>2. Cardinality(Before(F, y)) < n + 1
        BY <1>4, <4>1
      <4> QED
        BY <1>5, <4>1, <4>2
    <3>3. ASSUME NEW y \in Lowest(F, n + 1), y \notin L, y # x PROVE FALSE
      <4>1. y \in F /\ y \in Nat /\ x < y /\ Cardinality(Before(F, y)) < n + 1
        <5>1. y \in F /\ y \in Nat /\ Cardinality(Before(F, y)) < n + 1
          BY <1>5
        <5> QED
          BY <2>3, <2>4, <3>3, <5>1
      <4>2. ASSUME NEW z \in L \cup {x} PROVE z \in Before(F, y)
        <5>1. z \in F /\ z \in Nat /\ (z = x \/ z < x)
          BY <2>1, <2>4, <2>5
        <5>2. z < y
          BY <2>4, <4>1, <5>1
        <5> QED
          BY <1>3, <4>1, <5>1, <5>2
      <4>3. Cardinality(L \cup {x}) <= Cardinality(Before(F, y))
        BY <1>2, <1>3, <4>1, <4>2
      <4> QED
        BY <1>4, <2>7, <4>1, <4>3
    <3> QED
      BY <3>1, <3>2, <3>3
  <2>9. n + 1 \in 0 .. N
    BY <1>0, <1>7
  <2> QED
    BY <2>7, <2>8, <2>9
<1>8. \A n \in 0 .. N : n \in S
  <2> HIDE DEF S, N
  <2> QED
    BY <1>0, <1>6, <1>7, Induction
<1>9. Lowest(F, k) \subseteq F
  BY <1>5
<1> QED
  BY <1>1, <1>8, <1>9

(* As many of its elements as it has can be given to another finite set.   *)
LEMMA InjectionInto ==
    ASSUME NEW F, F \subseteq Nat, IsFiniteSet(F),
           NEW S, IsFiniteSet(S), Cardinality(S) <= Cardinality(F)
    PROVE  Injection(S, Lowest(F, Cardinality(S))) # {}
<1>1. Cardinality(S) \in 0 .. Cardinality(F)
  BY FS_CardinalityType
<1>2. IsFiniteSet(Lowest(F, Cardinality(S)))
      /\ Cardinality(Lowest(F, Cardinality(S))) = Cardinality(S)
  BY <1>1, LowestAreMany
<1>3. ExistsBijection(S, Lowest(F, Cardinality(S)))
  BY <1>2, FS_SameCardinalityBij
<1> QED
  BY <1>3 DEF ExistsBijection, Bijection
-----------------------------------------------------------------------------
LifetimesOK ==
    /\ symbols \in [Unit -> SUBSET Value] /\ fstates \in [Unit -> SUBSET Value]
    /\ cdata \subseteq made /\ made \subseteq Unit
    /\ nreferences \in [Unit -> Nat] /\ targetrefs \in Nat /\ compilerrefs \in Nat
    /\ targetcdata \in BOOLEAN /\ state \in {"open", "closing", "freed"}

(* A state that will be finalized is one the unit has mapped, so that the  *)
(* next value that is mapped is one more user, and units that do not exist *)
(* yet have none.                                                          *)
StatesOK ==
    /\ \A u \in Unit : fstates[u] \subseteq symbols[u]
    /\ \A u \in Unit \ made : fstates[u] = {}

IInv == LifetimesOK /\ StatesOK /\ CountsAreHolders

AliveUnits == {u \in Unit : nreferences[u] > 0}
-----------------------------------------------------------------------------
LEMMA FiniteCounts ==
    ASSUME LifetimesOK, NEW u \in Unit
    PROVE  /\ IsFiniteSet(fstates[u]) /\ Cardinality(fstates[u]) \in Nat
           /\ fstates[u] # {} => Cardinality(fstates[u]) > 0
           /\ IsFiniteSet(AliveUnits) /\ Cardinality(AliveUnits) \in Nat
<1>1. IsFiniteSet(Value) /\ IsFiniteSet(Unit)
  BY JitAssumption DEF Value
<1>2. fstates[u] \in SUBSET Value /\ AliveUnits \in SUBSET Unit
  BY DEF LifetimesOK, AliveUnits
<1>3. IsFiniteSet(fstates[u]) /\ IsFiniteSet(AliveUnits)
  BY <1>1, <1>2, FS_Subset
<1>4. Cardinality(fstates[u]) \in Nat /\ Cardinality(AliveUnits) \in Nat
  BY <1>3, FS_CardinalityType
<1> QED
  BY <1>3, <1>4, FS_EmptySet

(* What has an object or a function to finalize exists and is alive.       *)
LEMMA UsedIsAlive ==
    ASSUME IInv, NEW u \in Unit, u \in cdata \/ fstates[u] # {}
    PROVE  nreferences[u] \in Nat \ {0} /\ u \in made
<1>1. u \in made
  BY DEF IInv, LifetimesOK, StatesOK
<1>2. Cardinality(fstates[u]) \in Nat
      /\ (fstates[u] # {} => Cardinality(fstates[u]) > 0)
  BY FiniteCounts DEF IInv
<1>3. nreferences[u] = Counted(u \in cdata) + Cardinality(fstates[u])
  BY DEF IInv, CountsAreHolders
<1> QED
  BY <1>1, <1>2, <1>3 DEF Counted

(* A user that goes takes the unit with it when it is the last, and the    *)
(* unit its references to target and compiler state.                       *)
LEMMA Freed ==
    ASSUME IInv, NEW u \in Unit, nreferences[u] # 0,
           FreeCompilationUnit(u), UNCHANGED <<targetcdata, state>>
    PROVE  /\ nreferences' = [nreferences EXCEPT ![u] = @ - 1]
           /\ nreferences' \in [Unit -> Nat] /\ targetrefs' \in Nat /\ compilerrefs' \in Nat
           /\ LET units == Cardinality(AliveUnits') IN
              /\ targetrefs' = Counted(targetcdata') + Counted(state' # "freed") + units
              /\ compilerrefs' = Counted(state' # "freed") + units
<1>1. nreferences' = [nreferences EXCEPT ![u] = @ - 1] /\ nreferences' \in [Unit -> Nat]
  BY DEF FreeCompilationUnit, IInv, LifetimesOK
<1>2. IsFiniteSet(AliveUnits) /\ Cardinality(AliveUnits) \in Nat
  BY FiniteCounts DEF IInv
<1>3. /\ targetrefs = Counted(targetcdata) + Counted(state # "freed") + Cardinality(AliveUnits)
      /\ compilerrefs = Counted(state # "freed") + Cardinality(AliveUnits)
  BY DEF IInv, CountsAreHolders, AliveUnits, Alive
<1>4. Counted(targetcdata) \in {0, 1} /\ Counted(state # "freed") \in {0, 1}
  BY DEF Counted
<1>5. CASE nreferences[u] = 1
  <2>1. AliveUnits' = AliveUnits \ {u} /\ u \in AliveUnits
    BY <1>1, <1>5 DEF AliveUnits, IInv, LifetimesOK
  <2>2. Cardinality(AliveUnits') = Cardinality(AliveUnits) - 1
        /\ Cardinality(AliveUnits') \in Nat
    <3>1. IsFiniteSet(AliveUnits \ {u})
          /\ Cardinality(AliveUnits \ {u}) = Cardinality(AliveUnits) - 1
      BY <1>2, <2>1, FS_RemoveElement
    <3> QED
      BY <2>1, <3>1, FS_CardinalityType
  <2>3. targetrefs' = targetrefs - 1 /\ compilerrefs' = compilerrefs - 1
    BY <1>5 DEF FreeCompilationUnit
  <2> QED
    BY <1>1, <1>2, <1>3, <1>4, <2>2, <2>3
<1>6. CASE nreferences[u] # 1
  <2>1. AliveUnits' = AliveUnits
    BY <1>1, <1>6 DEF AliveUnits, IInv, LifetimesOK
  <2>2. targetrefs' = targetrefs /\ compilerrefs' = compilerrefs
    BY <1>6 DEF FreeCompilationUnit
  <2> QED
    BY <1>1, <1>2, <1>3, <1>4, <2>1, <2>2
<1> QED
  BY <1>5, <1>6
-----------------------------------------------------------------------------
LEMMA InitHolds == Init => IInv
<1> SUFFICES ASSUME Init PROVE IInv
  OBVIOUS
<1>1. LifetimesOK
  BY JitAssumption DEF Init, LifetimesOK, Value
<1>2. StatesOK
  BY DEF Init, StatesOK
<1>3. CountsAreHolders
  <2>1. \A u \in Unit : nreferences[u] = Counted(u \in cdata) + Cardinality(fstates[u])
    BY FS_EmptySet DEF Init, Counted
  <2>2. {u \in Unit : Alive(u)} = {JitUnit}
    BY JitAssumption DEF Init, Alive
  <2>3. Cardinality({u \in Unit : Alive(u)}) = 1
    BY <2>2, FS_Singleton
  <2> QED
    BY <2>1, <2>3 DEF Init, CountsAreHolders, Counted
<1> QED
  BY <1>1, <1>2, <1>3 DEF IInv

LEMMA NewUnitHolds ==
    ASSUME IInv, NEW u \in Unit, NewCompilationUnit(u)
    PROVE  IInv'
<1> USE DEF IInv
<1>1. u \notin made /\ fstates[u] = {} /\ u \notin cdata
  BY DEF NewCompilationUnit, StatesOK, LifetimesOK
<1>2. nreferences[u] = 0
  BY <1>1, FS_EmptySet DEF CountsAreHolders, Counted
<1>3. LifetimesOK'
  BY DEF NewCompilationUnit, Operation, LifetimesOK, mapped
<1>4. StatesOK'
  BY DEF NewCompilationUnit, StatesOK, LifetimesOK, mapped
<1>5. AliveUnits' = AliveUnits \cup {u} /\ u \notin AliveUnits
  BY <1>2 DEF NewCompilationUnit, AliveUnits, LifetimesOK
<1>6. Cardinality(AliveUnits') = Cardinality(AliveUnits) + 1
  BY <1>5, FiniteCounts, FS_AddElement
<1>7. \A w \in Unit : nreferences'[w] = Counted(w \in cdata') + Cardinality(fstates'[w])
  <2> SUFFICES ASSUME NEW w \in Unit
               PROVE  nreferences'[w] = Counted(w \in cdata') + Cardinality(fstates[w])
    BY DEF NewCompilationUnit, mapped
  <2>1. nreferences' = [nreferences EXCEPT ![u] = 1] /\ cdata' = cdata \cup {u}
    BY DEF NewCompilationUnit
  <2>2. Cardinality(fstates[u]) = 0
    BY <1>1, FS_EmptySet
  <2>3. nreferences[w] = Counted(w \in cdata) + Cardinality(fstates[w])
    BY DEF CountsAreHolders
  <2> QED
    BY <2>1, <2>2, <2>3 DEF LifetimesOK, Counted
<1>8. Cardinality(AliveUnits) \in Nat
  BY FiniteCounts
<1>9. /\ targetrefs = Counted(targetcdata) + Counted(state # "freed") + Cardinality(AliveUnits)
      /\ compilerrefs = Counted(state # "freed") + Cardinality(AliveUnits)
  BY DEF CountsAreHolders, AliveUnits, Alive
<1>10. LET units == Cardinality(AliveUnits') IN
       /\ targetrefs' = Counted(targetcdata') + Counted(state' # "freed") + units
       /\ compilerrefs' = Counted(state' # "freed") + units
  BY <1>6, <1>8, <1>9 DEF NewCompilationUnit, Counted
<1> QED
  BY <1>3, <1>4, <1>7, <1>10 DEF CountsAreHolders, AliveUnits, Alive

(* Emission adds users of a unit that has one.                             *)
LEMMA MappedHolds ==
    ASSUME IInv, NEW u \in Unit, NEW v, u \in cdata, Mapped(u, v),
           UNCHANGED <<made, cdata, targetrefs, compilerrefs, targetcdata, state>>
    PROVE  IInv'
<1> USE DEF IInv
<1> DEFINE D == Destructible(u, v)
<1>1. D \subseteq New(u, v) /\ New(u, v) \subseteq Value /\ New(u, v) \cap symbols[u] = {}
  BY DEF Destructible, Created, New
<1>2. D \cap fstates[u] = {}
  BY <1>1 DEF StatesOK
<1> HIDE DEF D
<1>3. IsFiniteSet(D) /\ Cardinality(D) \in Nat
  <2>1. D \in SUBSET Value /\ IsFiniteSet(Value)
    BY <1>1, JitAssumption DEF Value
  <2> QED
    BY <2>1, FS_Subset, FS_CardinalityType
<1>4. Cardinality(fstates[u] \cup D) = Cardinality(fstates[u]) + Cardinality(D)
  <2>1. IsFiniteSet(fstates[u]) /\ Cardinality(fstates[u]) \in Nat
    BY FiniteCounts
  <2>2. fstates[u] \cap D = {}
    BY <1>2
  <2>3. Cardinality(fstates[u] \cap D) = 0
    BY <2>2, FS_EmptySet
  <2>4. Cardinality(fstates[u] \cup D)
           = Cardinality(fstates[u]) + Cardinality(D) - Cardinality(fstates[u] \cap D)
    BY <1>3, <2>1, FS_Union
  <2> QED
    BY <1>3, <2>1, <2>3, <2>4
<1>5. /\ symbols' = [symbols EXCEPT ![u] = @ \cup New(u, v)]
      /\ fstates' = [fstates EXCEPT ![u] = @ \cup D]
      /\ nreferences' = [nreferences EXCEPT ![u] = @ + Cardinality(D)]
  BY DEF Mapped, D
<1>6. LifetimesOK'
  BY <1>1, <1>3, <1>5 DEF LifetimesOK
<1>7. StatesOK'
  BY <1>1, <1>5 DEF StatesOK, LifetimesOK
<1>8. AliveUnits' = AliveUnits
  <2>1. nreferences[u] > 0
    BY UsedIsAlive
  <2> QED
    BY <1>3, <1>5, <2>1 DEF AliveUnits, LifetimesOK
<1>9. \A w \in Unit : nreferences'[w] = Counted(w \in cdata') + Cardinality(fstates'[w])
  <2> SUFFICES ASSUME NEW w \in Unit
               PROVE  nreferences'[w] = Counted(w \in cdata) + Cardinality(fstates'[w])
    OBVIOUS
  <2>1. nreferences[w] = Counted(w \in cdata) + Cardinality(fstates[w])
    BY DEF CountsAreHolders
  <2>2. CASE w # u
    BY <1>5, <2>1, <2>2 DEF LifetimesOK
  <2>3. CASE w = u
    <3>1. nreferences'[u] = nreferences[u] + Cardinality(D)
          /\ fstates'[u] = fstates[u] \cup D
      BY <1>5 DEF LifetimesOK
    <3>2. Cardinality(fstates[u]) \in Nat /\ Counted(u \in cdata) \in {0, 1}
      BY FiniteCounts DEF Counted
    <3> QED
      BY <1>3, <1>4, <2>1, <2>3, <3>1, <3>2
  <2> QED
    BY <2>2, <2>3
<1> QED
  BY <1>6, <1>7, <1>8, <1>9 DEF CountsAreHolders, AliveUnits, Alive

(* The Lua object of a unit goes: SaveObj frees it, or its finalizer.      *)
LEMMA ObjectGone ==
    ASSUME IInv, NEW u \in Unit, u \in cdata, cdata' = cdata \ {u},
           FreeCompilationUnit(u), UNCHANGED <<symbols, fstates, made, targetcdata, state>>
    PROVE  IInv'
<1> USE DEF IInv
<1>1. nreferences[u] # 0
  BY UsedIsAlive
<1>2. /\ nreferences' = [nreferences EXCEPT ![u] = @ - 1]
      /\ nreferences' \in [Unit -> Nat] /\ targetrefs' \in Nat /\ compilerrefs' \in Nat
      /\ LET units == Cardinality(AliveUnits') IN
         /\ targetrefs' = Counted(targetcdata') + Counted(state' # "freed") + units
         /\ compilerrefs' = Counted(state' # "freed") + units
  BY <1>1, Freed
<1>3. LifetimesOK'
  BY <1>2 DEF LifetimesOK
<1>4. StatesOK'
  BY DEF StatesOK
<1>5. \A w \in Unit : nreferences'[w] = Counted(w \in cdata') + Cardinality(fstates'[w])
  <2> SUFFICES ASSUME NEW w \in Unit
               PROVE  nreferences'[w] = Counted(w \in cdata') + Cardinality(fstates[w])
    OBVIOUS
  <2>1. nreferences[w] = Counted(w \in cdata) + Cardinality(fstates[w])
        /\ Cardinality(fstates[w]) \in Nat
    BY FiniteCounts DEF CountsAreHolders
  <2> QED
    BY <1>2, <2>1 DEF LifetimesOK, Counted
<1> QED
  BY <1>2, <1>3, <1>4, <1>5 DEF CountsAreHolders, AliveUnits, Alive

LEMMA FunctionGone ==
    ASSUME IInv, NEW u \in Unit, NEW v \in Value, DeleteFunction(u, v)
    PROVE  IInv'
<1> USE DEF IInv
<1>1. v \in fstates[u] /\ nreferences[u] # 0
  <2>1. v \in fstates[u]
    BY DEF DeleteFunction
  <2> QED
    BY <2>1, UsedIsAlive
<1>2. /\ nreferences' = [nreferences EXCEPT ![u] = @ - 1]
      /\ nreferences' \in [Unit -> Nat] /\ targetrefs' \in Nat /\ compilerrefs' \in Nat
      /\ LET units == Cardinality(AliveUnits') IN
         /\ targetrefs' = Counted(targetcdata') + Counted(state' # "freed") + units
         /\ compilerrefs' = Counted(state' # "freed") + units
  BY <1>1, Freed DEF DeleteFunction
<1>3. /\ fstates' = [fstates EXCEPT ![u] = @ \ {v}]
      /\ symbols' = [symbols EXCEPT ![u] = @ \ {v}]
      /\ UNCHANGED <<made, cdata, targetcdata, state>>
  BY DEF DeleteFunction
<1>4. LifetimesOK'
  BY <1>2, <1>3 DEF LifetimesOK
<1>5. StatesOK'
  BY <1>3 DEF StatesOK, LifetimesOK
<1>6. \A w \in Unit : nreferences'[w] = Counted(w \in cdata') + Cardinality(fstates'[w])
  <2> SUFFICES ASSUME NEW w \in Unit
               PROVE  nreferences'[w] = Counted(w \in cdata) + Cardinality(fstates'[w])
    BY <1>3
  <2>1. nreferences[w] = Counted(w \in cdata) + Cardinality(fstates[w])
        /\ Cardinality(fstates[w]) \in Nat /\ IsFiniteSet(fstates[w])
    BY FiniteCounts DEF CountsAreHolders
  <2>2. CASE w # u
    BY <1>2, <1>3, <2>1, <2>2 DEF LifetimesOK
  <2>3. CASE w = u
    <3>1. Cardinality(fstates[u] \ {v}) = Cardinality(fstates[u]) - 1
      BY <1>1, <2>1, <2>3, FS_RemoveElement
    <3>2. nreferences'[u] = nreferences[u] - 1 /\ fstates'[u] = fstates[u] \ {v}
      BY <1>2, <1>3 DEF LifetimesOK
    <3> QED
      BY <2>1, <2>3, <3>1, <3>2 DEF Counted
  <2> QED
    BY <2>2, <2>3
<1> QED
  BY <1>2, <1>4, <1>5, <1>6 DEF CountsAreHolders, AliveUnits, Alive

(* The target's object and terra_State go, in whatever order.              *)
LEMMA StateGone ==
    ASSUME IInv, CollectTarget \/ FreeState \/ Close
    PROVE  IInv'
<1> USE DEF IInv, CollectTarget, FreeState, Close, mapped
<1>1. StatesOK'
  BY DEF StatesOK
<1>2. AliveUnits' = AliveUnits
  BY DEF AliveUnits
<1>3. Cardinality(AliveUnits) \in Nat
  BY FS_Subset, FS_CardinalityType, JitAssumption DEF AliveUnits
<1>4. /\ targetrefs = Counted(targetcdata) + Counted(state # "freed") + Cardinality(AliveUnits)
      /\ compilerrefs = Counted(state # "freed") + Cardinality(AliveUnits)
  BY DEF CountsAreHolders, AliveUnits, Alive
<1>5. /\ targetrefs' = Counted(targetcdata') + Counted(state' # "freed") + Cardinality(AliveUnits)
      /\ compilerrefs' = Counted(state' # "freed") + Cardinality(AliveUnits)
  BY <1>3, <1>4 DEF Counted, LifetimesOK
<1>6. targetrefs' \in Nat /\ compilerrefs' \in Nat
  BY <1>3, <1>5 DEF Counted
<1>7. LifetimesOK'
  BY <1>6 DEF LifetimesOK
<1>8. \A w \in Unit : nreferences'[w] = Counted(w \in cdata') + Cardinality(fstates'[w])
  BY DEF CountsAreHolders
<1> QED
  BY <1>1, <1>2, <1>5, <1>7, <1>8 DEF CountsAreHolders, AliveUnits, Alive

(* Nothing that counts changes.                                            *)
LEMMA NothingCounted ==
    ASSUME IInv, UNCHANGED <<symbols, fstates, made, cdata, nreferences, targetrefs,
                             compilerrefs, targetcdata, state>>
    PROVE  IInv'
<1>1. LifetimesOK' /\ StatesOK'
  BY DEF IInv, LifetimesOK, StatesOK
<1>2. CountsAreHolders'
  BY DEF IInv, CountsAreHolders, Alive
<1> QED
  BY <1>1, <1>2 DEF IInv
-----------------------------------------------------------------------------
LEMMA StepHolds == IInv /\ [Next]_vars => IInv'
<1> SUFFICES ASSUME IInv, [Next]_vars PROVE IInv'
  OBVIOUS
<1>1. CASE \E u \in Unit : NewCompilationUnit(u)
  BY <1>1, NewUnitHolds
<1>2. CASE \E u \in Unit : SaveObj(u)
  <2>1. PICK u \in Unit : SaveObj(u)
    BY <1>2
  <2> QED
    BY <2>1, ObjectGone DEF SaveObj, mapped
<1>3. CASE \E u \in Unit, v \in Value, names \in {{}} \cup {{b} : b \in Exports} :
                AddValueTo(u, names, v)
  <2>1. PICK u \in Unit, v \in Value, names \in {{}} \cup {{b} : b \in Exports} :
                AddValueTo(u, names, v)
    BY <1>3
  <2>2. /\ u \in cdata /\ Mapped(u, v)
        /\ UNCHANGED <<made, cdata, targetrefs, compilerrefs, targetcdata, state>>
    BY <2>1 DEF AddValueTo
  <2> QED
    BY <2>2, MappedHolds
<1>4. CASE \E u \in Unit, v \in Value : JitValue(u, v)
  <2>1. PICK u \in Unit, v \in Value : JitValue(u, v)
    BY <1>4
  <2>2. /\ u \in cdata /\ Mapped(u, v)
        /\ UNCHANGED <<made, cdata, targetrefs, compilerrefs, targetcdata, state>>
    BY <2>1 DEF JitValue
  <2> QED
    BY <2>2, MappedHolds
<1>5. CASE \/ \E e \in Ext : LinkLLVM(NameOf[e])
           \/ \E v \in Value : Drop(v)
           \/ UNCHANGED vars
  BY <1>5, NothingCounted DEF LinkLLVM, Drop, vars, mapped, lifetimes
<1>6. CASE Close \/ CollectTarget \/ FreeState
  BY <1>6, StateGone
<1>7. CASE \E u \in Unit : CollectUnit(u)
  <2>1. PICK u \in Unit : CollectUnit(u)
    BY <1>7
  <2> QED
    BY <2>1, ObjectGone DEF CollectUnit, mapped
<1>8. CASE \E u \in Unit, v \in Value : DeleteFunction(u, v)
  BY <1>8, FunctionGone
<1> QED
  BY <1>1, <1>2, <1>3, <1>4, <1>5, <1>6, <1>7, <1>8 DEF Next, Finalizer

(***************************************************************************)
(* The counts that freecompilationunit, freetarget and terra_compilerfree  *)
(* keep are what holds units, target and compiler state.                   *)
(***************************************************************************)
THEOREM HoldersCounted == Spec => []CountsAreHolders
<1>1. IInv => CountsAreHolders
  BY DEF IInv
<1> QED
  BY <1>1, InitHolds, StepHolds, PTL DEF Spec

(***************************************************************************)
(* While a unit has a Lua object or a function that will be finalized, it  *)
(* is there, and so are the target and the compiler state it uses: no      *)
(* destructor (terra_deletefunction, terra_freecompilationunit) runs on    *)
(* what is deleted, in whatever order the collector calls them.            *)
(***************************************************************************)
UsedExists ==
    \A u \in Unit : u \in cdata \/ fstates[u] # {} =>
        Alive(u) /\ targetrefs > 0 /\ compilerrefs > 0

THEOREM NothingUsedAfterFree == Spec => []UsedExists
<1>1. IInv => UsedExists
  <2> SUFFICES ASSUME IInv, NEW u \in Unit, u \in cdata \/ fstates[u] # {}
               PROVE  Alive(u) /\ targetrefs > 0 /\ compilerrefs > 0
    BY DEF UsedExists
  <2>1. nreferences[u] > 0
    BY UsedIsAlive
  <2>2. AliveUnits # {}
    BY <2>1 DEF AliveUnits
  <2>3. Cardinality(AliveUnits) \in Nat \ {0}
    BY <2>2, FiniteCounts, FS_EmptySet DEF IInv
  <2>4. /\ targetrefs = Counted(targetcdata) + Counted(state # "freed") + Cardinality(AliveUnits)
        /\ compilerrefs = Counted(state # "freed") + Cardinality(AliveUnits)
    BY DEF IInv, CountsAreHolders, AliveUnits, Alive
  <2> QED
    BY <2>1, <2>3, <2>4 DEF Alive, Counted
<1> QED
  BY <1>1, InitHolds, StepHolds, PTL DEF Spec

-----------------------------------------------------------------------------
(* What is reached from a set exists, and includes the set.                *)
IsReach(S, R, N, g) ==
    g = [n \in 0 .. N |-> IF n = 0 THEN S
            ELSE g[n - 1] \cup UNION {R[w] : w \in g[n - 1]}]

LEMMA ReachFrom ==
    ASSUME NEW U, NEW S \in SUBSET U, NEW R, NEW N \in Nat,
           \A w \in U : R[w] \subseteq U
    PROVE  \E g \in [0 .. N -> SUBSET U] : IsReach(S, R, N, g)
<1> DEFINE h == [T \in SUBSET U |-> T \cup UNION {R[w] : w \in T}]
<1>1. h \in [SUBSET U -> SUBSET U]
  <2>1. \A T \in SUBSET U : T \cup UNION {R[w] : w \in T} \in SUBSET U
    OBVIOUS
  <2> QED
    BY <2>1
<1>2. \A T \in SUBSET U : h[T] = T \cup UNION {R[w] : w \in T}
  OBVIOUS
<1> HIDE DEF h
<1>3. PICK g \in [0 .. N -> SUBSET U] : IsIterate(S, h, N, g)
  <2>1. \E g \in [0 .. N -> SUBSET U] : IsIterate(S, h, N, g)
    BY <1>1, Iterates
  <2> QED
    BY <2>1, Zenon
<1>4. ASSUME NEW n \in 0 .. N
      PROVE  g[n] = IF n = 0 THEN S
                    ELSE g[n - 1] \cup UNION {R[w] : w \in g[n - 1]}
  <2>1. n # 0 => n - 1 \in 0 .. N
    OBVIOUS
  <2>2. n # 0 => g[n - 1] \in SUBSET U
    BY <2>1
  <2>3. n # 0 => h[g[n - 1]] = g[n - 1] \cup UNION {R[w] : w \in g[n - 1]}
    BY <1>2, <2>2
  <2> QED
    BY <1>3, <2>3 DEF IsIterate
<1>5. IsReach(S, R, N, g)
  BY <1>4, Zenon DEF IsReach
<1> QED
  BY <1>5

LEMMA Reaches ==
    ASSUME NEW S, NEW N \in Nat, NEW g, S \subseteq g[0],
           \A n \in 0 .. N : n # 0 => g[n - 1] \subseteq g[n]
    PROVE  S \subseteq g[N]
<1> DEFINE T == {n \in 0 .. N : S \subseteq g[n]}
<1>1. 0 \in T
  OBVIOUS
<1>2. ASSUME NEW n \in 0 .. N, n < N, n \in T PROVE n + 1 \in T
  <2>1. n + 1 \in 0 .. N /\ n + 1 # 0 /\ (n + 1) - 1 = n
    BY <1>2
  <2>2. g[(n + 1) - 1] \subseteq g[n + 1]
    BY <2>1
  <2>3. S \subseteq g[n]
    BY <1>2
  <2> QED
    BY <2>1, <2>2, <2>3
<1>3. \A n \in 0 .. N : n \in T
  <2> HIDE DEF T
  <2> QED
    BY <1>1, <1>2, Induction
<1>4. N \in 0 .. N
  OBVIOUS
<1> QED
  BY <1>3, <1>4

IsReferred(u, v, g) ==
    g = [n \in 0 .. Cardinality(Value) |-> IF n = 0 THEN {v}
            ELSE g[n - 1] \cup UNION {(IF w \in symbols[u] THEN {} ELSE Callees(w)) : w \in g[n - 1]}]

(* A value that is emitted is among those that emission maps.              *)
LEMMA ReferredSelf ==
    ASSUME NEW u, NEW v
    PROVE  v \in Referred(u, v)
<1> DEFINE N == Cardinality(Value)
<1>1. N \in Nat
  BY JitAssumption, FS_CardinalityType DEF Value
<1> DEFINE U == {v} \cup UNION {Callees(w) : w \in Fn}
<1> DEFINE R == [w \in U |-> (IF w \in symbols[u] THEN {} ELSE Callees(w))]
<1>2. \A w \in U : R[w] = (IF w \in symbols[u] THEN {} ELSE Callees(w))
  OBVIOUS
<1>3. \A w \in U : R[w] \subseteq U
  BY DEF Callees
<1>4. {v} \in SUBSET U
  OBVIOUS
<1>5. \E g : IsReferred(u, v, g)
  <2> HIDE DEF U, R, N
  <2>1. PICK g \in [0 .. N -> SUBSET U] : IsReach({v}, R, N, g)
    <3>1. \E g \in [0 .. N -> SUBSET U] : IsReach({v}, R, N, g)
      BY <1>1, <1>3, <1>4, ReachFrom, Zenon
    <3> QED
      BY <3>1, Zenon
  <2>2. ASSUME NEW n \in 0 .. N
        PROVE  g[n] = IF n = 0 THEN {v}
                      ELSE g[n - 1] \cup UNION {(IF w \in symbols[u] THEN {} ELSE Callees(w)) : w \in g[n - 1]}
    <3>1. g[n] = IF n = 0 THEN {v} ELSE g[n - 1] \cup UNION {R[w] : w \in g[n - 1]}
      BY <2>1, Zenon DEF IsReach
    <3>2. n # 0 => n - 1 \in 0 .. N
      BY <1>1
    <3>3. n # 0 => \A w \in g[n - 1] : R[w] = (IF w \in symbols[u] THEN {} ELSE Callees(w))
      BY <1>2, <3>2
    <3>4. n # 0 => {R[w] : w \in g[n - 1]} = {(IF w \in symbols[u] THEN {} ELSE Callees(w)) : w \in g[n - 1]}
      BY <3>3
    <3> QED
      BY <3>1, <3>4
  <2>3. IsReferred(u, v, g)
    <3>1. g = [n \in 0 .. N |-> IF n = 0 THEN {v}
                ELSE g[n - 1] \cup UNION {(IF w \in symbols[u] THEN {} ELSE Callees(w)) : w \in g[n - 1]}]
      BY <2>2, Zenon
    <3> QED
      BY <3>1 DEF N, IsReferred
  <2> QED
    BY <2>3
<1> DEFINE c == CHOOSE g : IsReferred(u, v, g)
<1>6. IsReferred(u, v, c)
  BY <1>5, Zenon
<1>7. Referred(u, v) = c[N]
  BY DEF Referred, Reached, IsReferred
<1> HIDE DEF c
<1>8. \A n \in 0 .. N : c[n] = IF n = 0 THEN {v}
            ELSE c[n - 1] \cup UNION {(IF w \in symbols[u] THEN {} ELSE Callees(w)) : w \in c[n - 1]}
  BY <1>6, Zenon DEF IsReferred
<1>9. {v} \subseteq c[0] /\ \A n \in 0 .. N : n # 0 => c[n - 1] \subseteq c[n]
  <2>1. 0 \in 0 .. N
    BY <1>1
  <2> QED
    BY <1>8, <2>1
<1>10. {v} \subseteq c[N]
  <2> HIDE DEF N
  <2> QED
    BY <1>1, <1>9, Reaches, Zenon
<1> QED
  BY <1>7, <1>10

(* The same of what a module keeps when it is optimized.  (Reached takes an*)
(* operator: no lemma can be about it in general.)                         *)
IsUsed(s, g) ==
    g = [n \in 0 .. Cardinality(Value) |-> IF n = 0 THEN s.exported
            ELSE g[n - 1] \cup UNION {(IF w \in s.bodies THEN Links(s, w) ELSE {}) : w \in g[n - 1]}]

(* What is exported is not dropped.                                        *)
LEMMA ExportedUsed ==
    ASSUME NEW s
    PROVE  s.exported \subseteq Used(s)
<1> DEFINE N == Cardinality(Value)
<1>1. N \in Nat
  BY JitAssumption, FS_CardinalityType DEF Value
<1> DEFINE U == s.exported \cup {s.func[w] : w \in UNION {Callees(j) : j \in Fn}}
<1> DEFINE R == [w \in U |-> (IF w \in s.bodies THEN Links(s, w) ELSE {})]
<1>2. \A w \in U : R[w] = (IF w \in s.bodies THEN Links(s, w) ELSE {})
  OBVIOUS
<1>3. \A w \in U : R[w] \subseteq U
  BY DEF Links, Callees
<1>4. s.exported \in SUBSET U
  OBVIOUS
<1>5. \E g : IsUsed(s, g)
  <2> HIDE DEF U, R, N
  <2>1. PICK g \in [0 .. N -> SUBSET U] : IsReach(s.exported, R, N, g)
    <3>1. \E g \in [0 .. N -> SUBSET U] : IsReach(s.exported, R, N, g)
      BY <1>1, <1>3, <1>4, ReachFrom, Zenon
    <3> QED
      BY <3>1, Zenon
  <2>2. ASSUME NEW n \in 0 .. N
        PROVE  g[n] = IF n = 0 THEN s.exported
                      ELSE g[n - 1] \cup UNION {(IF w \in s.bodies THEN Links(s, w) ELSE {}) : w \in g[n - 1]}
    <3>1. g[n] = IF n = 0 THEN s.exported ELSE g[n - 1] \cup UNION {R[w] : w \in g[n - 1]}
      BY <2>1, Zenon DEF IsReach
    <3>2. n # 0 => n - 1 \in 0 .. N
      BY <1>1
    <3>3. n # 0 => \A w \in g[n - 1] : R[w] = (IF w \in s.bodies THEN Links(s, w) ELSE {})
      BY <1>2, <3>2
    <3>4. n # 0 => {R[w] : w \in g[n - 1]} = {(IF w \in s.bodies THEN Links(s, w) ELSE {}) : w \in g[n - 1]}
      BY <3>3
    <3> QED
      BY <3>1, <3>4
  <2>3. IsUsed(s, g)
    <3>1. g = [n \in 0 .. N |-> IF n = 0 THEN s.exported
                ELSE g[n - 1] \cup UNION {(IF w \in s.bodies THEN Links(s, w) ELSE {}) : w \in g[n - 1]}]
      BY <2>2, Zenon
    <3> QED
      BY <3>1 DEF N, IsUsed
  <2> QED
    BY <2>3
<1> DEFINE c == CHOOSE g : IsUsed(s, g)
<1>6. IsUsed(s, c)
  BY <1>5, Zenon
<1>7. Used(s) = c[N]
  BY DEF Used, Reached, IsUsed
<1> HIDE DEF c
<1>8. \A n \in 0 .. N : c[n] = IF n = 0 THEN s.exported
            ELSE c[n - 1] \cup UNION {(IF w \in s.bodies THEN Links(s, w) ELSE {}) : w \in c[n - 1]}
  BY <1>6, Zenon DEF IsUsed
<1>9. s.exported \subseteq c[0] /\ \A n \in 0 .. N : n # 0 => c[n - 1] \subseteq c[n]
  <2>1. 0 \in 0 .. N
    BY <1>1
  <2> QED
    BY <1>8, <2>1
<1>10. s.exported \subseteq c[N]
  <2> HIDE DEF N
  <2> QED
    BY <1>1, <1>9, Reaches, Zenon
<1> QED
  BY <1>7, <1>10

-----------------------------------------------------------------------------
(* Names in modules.  What addvalue has been asked for is exported, and is *)
(* under its name if there is no conflict.                                 *)
AskedOK(s) ==
    \A x \in s.asked :
        /\ x[2] \in s.exported
        /\ \/ x[2] \in DOMAIN s.names /\ s.names[x[2]] = CName(x[1])
           \/ \E y \in s.asked \ {x} : x[1] = y[1] \/ x[2] = y[2]

(* What a value is mapped to is in the module.                             *)
FuncOK(s) == \A w \in DOMAIN s.func : s.func[w] \in DOMAIN s.names

ModulesOK ==
    /\ DOMAIN cu = Unit
    /\ \A u \in Unit : DOMAIN cu[u] = DOMAIN NewUnit /\ AskedOK(cu[u])
    /\ \A u \in Unit \ made : cu[u] = NewUnit /\ symbols[u] = {}
    /\ \A u \in cdata : symbols[u] \subseteq DOMAIN cu[u].func /\ FuncOK(cu[u])

NewFuncs(u, v) ==
    [w \in New(u, v) |-> IF w \in Fn THEN w ELSE Extern(cu[u], New(u, v), w)]

NewNames(u, v) ==
    LET new == New(u, v)
        created == Created(cu[u], new)
        number == Numbered(cu[u], created \cap Fn)
    IN  [w \in created |->
            IF w \in Fn THEN [kind |-> "terra", base |-> NameOf[w], n |-> number[w]]
            ELSE CName(NameOf[w])]

LEMMA Merged ==
    ASSUME NEW f, NEW g
    PROVE  /\ DOMAIN Merge(f, g) = (DOMAIN f) \cup DOMAIN g
           /\ \A x \in DOMAIN f : Merge(f, g)[x] = f[x]
           /\ \A x \in (DOMAIN g) \ DOMAIN f : Merge(f, g)[x] = g[x]
  BY DEF Merge

(* Emission adds to each field of the unit.                                *)
LEMMA EmitFields ==
    ASSUME NEW u, NEW v, DOMAIN cu[u] = DOMAIN NewUnit
    PROVE  /\ DOMAIN Emit(u, v) = DOMAIN NewUnit
           /\ Emit(u, v).func = Merge(cu[u].func, NewFuncs(u, v))
           /\ Emit(u, v).names = Merge(cu[u].names, NewNames(u, v))
           /\ Emit(u, v).asked = cu[u].asked
           /\ cu[u].exported \subseteq Emit(u, v).exported
<1>1. DOMAIN cu[u] = {"func", "names", "bodies", "exported", "asked", "code"}
  BY DEF NewUnit
<1>2. DOMAIN Emit(u, v) = DOMAIN cu[u]
  BY DEF Emit
<1>3. Emit(u, v).func = Merge(cu[u].func, NewFuncs(u, v))
  BY <1>1 DEF Emit, NewFuncs
<1>4. Emit(u, v).names = Merge(cu[u].names, NewNames(u, v))
  BY <1>1 DEF Emit, NewNames
<1>5. Emit(u, v).asked = cu[u].asked
  BY <1>1 DEF Emit
<1>6. cu[u].exported \subseteq Emit(u, v).exported
  BY <1>1 DEF Emit
<1> QED
  BY <1>2, <1>3, <1>4, <1>5, <1>6

(* The external functions of a C name are one function of the module.      *)
LEMMA ExternFacts ==
    ASSUME NEW s, NEW new \in SUBSET Value, NEW e \in new, e \notin Fn
    PROVE  Extern(s, new, e) \in DOMAIN s.names \/ Extern(s, new, e) \in Created(s, new)
<1> DEFINE found == Holders(s, CName(NameOf[e]))
<1> DEFINE same == {w \in new \cap Ext : NameOf[w] = NameOf[e]}
<1>1. e \in same
  BY DEF Value
<1>2. CASE found # {}
  <2>1. Extern(s, new, e) = The(found)
    BY <1>2 DEF Extern
  <2>2. The(found) \in found
    BY <1>2 DEF The
  <2> QED
    BY <2>1, <2>2 DEF Holders
<1>3. CASE found = {}
  <2>1. Extern(s, new, e) = The(same)
    BY <1>3 DEF Extern
  <2>2. The(same) \in same
    BY <1>1 DEF The
  <2> DEFINE k == The(same)
  <2>3. k \in new /\ NameOf[k] = NameOf[e]
    BY <2>2
  <2>4. Extern(s, new, k) = Extern(s, new, e)
    <3> HIDE DEF k
    <3> QED
      BY <2>3 DEF Extern
  <2>5. Extern(s, new, k) = k
    BY <2>1, <2>4
  <2> QED
    BY <2>1, <2>3, <2>5 DEF Created
<1> QED
  BY <1>2, <1>3

LEMMA EmitFacts ==
    ASSUME ModulesOK, NEW u \in Unit, u \in cdata, NEW v \in Value
    PROVE  /\ DOMAIN Emit(u, v) = DOMAIN NewUnit
           /\ AskedOK(Emit(u, v)) /\ FuncOK(Emit(u, v))
           /\ symbols[u] \cup New(u, v) \cup {v} \subseteq DOMAIN Emit(u, v).func
<1>1. /\ DOMAIN cu[u] = DOMAIN NewUnit /\ AskedOK(cu[u]) /\ FuncOK(cu[u])
      /\ symbols[u] \subseteq DOMAIN cu[u].func
  BY DEF ModulesOK
<1> DEFINE s == Emit(u, v)
<1>2. /\ DOMAIN s = DOMAIN NewUnit
      /\ s.func = Merge(cu[u].func, NewFuncs(u, v))
      /\ s.names = Merge(cu[u].names, NewNames(u, v))
      /\ s.asked = cu[u].asked
      /\ cu[u].exported \subseteq s.exported
  BY <1>1, EmitFields
<1> HIDE DEF s
<1>3. /\ DOMAIN NewFuncs(u, v) = New(u, v)
      /\ \A w \in New(u, v) : NewFuncs(u, v)[w] =
                IF w \in Fn THEN w ELSE Extern(cu[u], New(u, v), w)
  BY DEF NewFuncs
<1>4. DOMAIN NewNames(u, v) = Created(cu[u], New(u, v))
  BY DEF NewNames
<1>5. /\ DOMAIN s.func = (DOMAIN cu[u].func) \cup New(u, v)
      /\ \A w \in DOMAIN cu[u].func : s.func[w] = cu[u].func[w]
      /\ \A w \in New(u, v) \ DOMAIN cu[u].func : s.func[w] = NewFuncs(u, v)[w]
  <2>1. LET f == cu[u].func
            g == NewFuncs(u, v)
        IN  /\ DOMAIN Merge(f, g) = (DOMAIN f) \cup DOMAIN g
            /\ \A x \in DOMAIN f : Merge(f, g)[x] = f[x]
            /\ \A x \in (DOMAIN g) \ DOMAIN f : Merge(f, g)[x] = g[x]
    BY Merged, Zenon
  <2> QED
    BY <1>2, <1>3, <2>1
<1>6. /\ DOMAIN s.names = (DOMAIN cu[u].names) \cup Created(cu[u], New(u, v))
      /\ \A i \in DOMAIN cu[u].names : s.names[i] = cu[u].names[i]
  <2>1. LET f == cu[u].names
            g == NewNames(u, v)
        IN  /\ DOMAIN Merge(f, g) = (DOMAIN f) \cup DOMAIN g
            /\ \A x \in DOMAIN f : Merge(f, g)[x] = f[x]
    BY Merged, Zenon
  <2> QED
    BY <1>2, <1>4, <2>1
<1>7. New(u, v) \subseteq Value
  BY DEF New
<1>8. FuncOK(s)
  <2> SUFFICES ASSUME NEW w \in DOMAIN s.func PROVE s.func[w] \in DOMAIN s.names
    BY DEF FuncOK
  <2>1. CASE w \in DOMAIN cu[u].func
    BY <1>1, <1>5, <1>6, <2>1 DEF FuncOK
  <2>2. CASE w \notin DOMAIN cu[u].func /\ w \in Fn
    <3>1. w \in New(u, v) /\ s.func[w] = w
      BY <1>3, <1>5, <2>2
    <3>2. w \in Created(cu[u], New(u, v))
      BY <2>2, <3>1 DEF Created
    <3> QED
      BY <1>6, <3>1, <3>2
  <2>3. CASE w \notin DOMAIN cu[u].func /\ w \notin Fn
    <3>1. w \in New(u, v) /\ s.func[w] = Extern(cu[u], New(u, v), w)
      BY <1>3, <1>5, <2>3
    <3> QED
      BY <1>6, <1>7, <2>3, <3>1, ExternFacts
  <2> QED
    BY <2>1, <2>2, <2>3
<1>9. AskedOK(s)
  BY <1>1, <1>2, <1>6 DEF AskedOK
<1>10. v \in symbols[u] \cup New(u, v)
  BY ReferredSelf DEF New
<1> QED
  BY <1>1, <1>2, <1>5, <1>8, <1>9, <1>10 DEF s

(* addvalue gives the name to the value, and to nothing else.              *)
LEMMA RenameFacts ==
    ASSUME NEW s, NEW name, NEW i \in DOMAIN s.names
    PROVE  /\ DOMAIN Rename(s, name, i) = DOMAIN s.names
           /\ Rename(s, name, i)[i] = CName(name)
           /\ \A j \in DOMAIN s.names :
                j # i /\ s.names[j] # CName(name) => Rename(s, name, i)[j] = s.names[j]
  BY DEF Rename, Holders

LEMMA AddFacts ==
    ASSUME NEW u, NEW v, NEW names,
           DOMAIN Emit(u, v) = DOMAIN NewUnit,
           AskedOK(Emit(u, v)), FuncOK(Emit(u, v)), v \in DOMAIN Emit(u, v).func
    PROVE  /\ DOMAIN AddValue(u, names, v) = DOMAIN NewUnit
           /\ AskedOK(AddValue(u, names, v)) /\ FuncOK(AddValue(u, names, v))
           /\ AddValue(u, names, v).func = Emit(u, v).func
<1> DEFINE s == Emit(u, v)
<1> DEFINE i == s.func[v]
<1> DEFINE t == [s EXCEPT !.exported = @ \cup {i}]
<1> DEFINE r == [t EXCEPT !.names = Rename(t, The(names), i), !.asked = @ \cup {<<The(names), i>>}]
<1>1. AddValue(u, names, v) = IF names = {} THEN t ELSE r
  BY DEF AddValue
<1>2. DOMAIN s = {"func", "names", "bodies", "exported", "asked", "code"}
  BY DEF NewUnit
<1>3. i \in DOMAIN s.names
  BY DEF FuncOK
<1>4. AskedOK(s) /\ FuncOK(s)
  OBVIOUS
<1> DEFINE n == The(names)
<1> HIDE DEF s, n
<1>5. /\ DOMAIN t = DOMAIN s /\ t.func = s.func /\ t.names = s.names
      /\ t.asked = s.asked /\ t.exported = s.exported \cup {i}
  BY <1>2
<1>6. AskedOK(t) /\ FuncOK(t)
  BY <1>4, <1>5 DEF AskedOK, FuncOK
<1> HIDE DEF t
<1>7. /\ DOMAIN r = DOMAIN s /\ r.func = s.func /\ r.names = Rename(t, n, i)
      /\ r.asked = s.asked \cup {<<n, i>>} /\ r.exported = s.exported \cup {i}
  BY <1>2, <1>5 DEF n
<1> HIDE DEF r
<1>8. /\ DOMAIN r.names = DOMAIN s.names
      /\ r.names[i] = CName(n)
      /\ \A j \in DOMAIN s.names : j # i /\ s.names[j] # CName(n) => r.names[j] = s.names[j]
  BY <1>3, <1>5, <1>7, RenameFacts
<1>9. FuncOK(r)
  BY <1>4, <1>7, <1>8 DEF FuncOK
<1> HIDE DEF i
<1>10. AskedOK(r)
  <2> SUFFICES ASSUME NEW x \in r.asked
               PROVE  /\ x[2] \in r.exported
                      /\ \/ x[2] \in DOMAIN r.names /\ r.names[x[2]] = CName(x[1])
                         \/ \E y \in r.asked \ {x} : x[1] = y[1] \/ x[2] = y[2]
    BY DEF AskedOK
  <2>1. CASE x = <<n, i>>
    BY <1>3, <1>7, <1>8, <2>1
  <2>2. CASE x # <<n, i>>
    <3>1. /\ x \in s.asked /\ x[2] \in s.exported
          /\ \/ x[2] \in DOMAIN s.names /\ s.names[x[2]] = CName(x[1])
             \/ \E y \in s.asked \ {x} : x[1] = y[1] \/ x[2] = y[2]
      BY <1>4, <1>7, <2>2 DEF AskedOK
    <3>2. x[2] \in r.exported
      BY <1>7, <3>1
    <3>3. CASE x[2] = i \/ x[1] = n
      <4>1. <<n, i>> \in r.asked \ {x} /\ (x[1] = <<n, i>>[1] \/ x[2] = <<n, i>>[2])
        BY <1>7, <2>2, <3>3
      <4> QED
        BY <3>2, <4>1, Zenon
    <3>4. CASE \E y \in s.asked \ {x} : x[1] = y[1] \/ x[2] = y[2]
      BY <1>7, <3>2, <3>4
    <3>5. CASE /\ x[2] # i /\ x[1] # n
               /\ x[2] \in DOMAIN s.names /\ s.names[x[2]] = CName(x[1])
      <4>1. CName(x[1]) # CName(n)
        BY <3>5 DEF CName
      <4> QED
        BY <1>8, <3>2, <3>5, <4>1
    <3> QED
      BY <3>1, <3>3, <3>4, <3>5
  <2> QED
    BY <2>1, <2>2
<1>11. names = {} => AddValue(u, names, v) = t
  BY <1>1
<1>12. names # {} => AddValue(u, names, v) = r
  BY <1>1
<1>13. DOMAIN s = DOMAIN NewUnit
  BY DEF s
<1> QED
  BY <1>5, <1>6, <1>7, <1>9, <1>10, <1>11, <1>12, <1>13 DEF s

(* One unit's module changes: to s, which has a symbol for all it maps.    *)
LEMMA ModuleStep ==
    ASSUME IInv, ModulesOK, NEW u \in Unit, u \in made, NEW s,
           cu' = [cu EXCEPT ![u] = s], DOMAIN s = DOMAIN NewUnit, AskedOK(s),
           u \in cdata' => symbols'[u] \subseteq DOMAIN s.func /\ FuncOK(s),
           \A w \in Unit \ {u} : symbols'[w] = symbols[w],
           made' = made, cdata' \subseteq cdata
    PROVE  ModulesOK'
<1>1. /\ DOMAIN cu = Unit
      /\ \A w \in Unit : DOMAIN cu[w] = DOMAIN NewUnit /\ AskedOK(cu[w])
      /\ \A w \in Unit \ made : cu[w] = NewUnit /\ symbols[w] = {}
      /\ \A w \in cdata : symbols[w] \subseteq DOMAIN cu[w].func /\ FuncOK(cu[w])
  BY DEF ModulesOK
<1>2. /\ DOMAIN cu' = Unit /\ cu'[u] = s
      /\ \A w \in Unit \ {u} : cu'[w] = cu[w]
  BY <1>1
<1>3. cdata \subseteq Unit
  BY DEF IInv, LifetimesOK
<1>4. ASSUME NEW w \in Unit
      PROVE  DOMAIN cu'[w] = DOMAIN NewUnit /\ AskedOK(cu'[w])
  BY <1>1, <1>2
<1>5. ASSUME NEW w \in Unit \ made
      PROVE  cu'[w] = NewUnit /\ symbols'[w] = {}
  BY <1>1, <1>2
<1>6. ASSUME NEW w \in cdata'
      PROVE  symbols'[w] \subseteq DOMAIN cu'[w].func /\ FuncOK(cu'[w])
  <2>1. CASE w = u
    BY <1>2, <1>6, <2>1
  <2>2. CASE w # u
    <3>1. cu'[w] = cu[w] /\ symbols'[w] = symbols[w] /\ w \in cdata
      BY <1>2, <1>3, <2>2
    <3> QED
      BY <1>1, <3>1
  <2> QED
    BY <2>1, <2>2
<1> QED
  BY <1>2, <1>4, <1>5, <1>6 DEF ModulesOK

LEMMA AddModules ==
    ASSUME IInv, ModulesOK, NEW u \in Unit, NEW v \in Value, NEW names,
           u \in cdata, Mapped(u, v), made' = made, cdata' = cdata, NEW s,
           cu' = [cu EXCEPT ![u] = s], DOMAIN s = DOMAIN NewUnit,
           LET t == AddValue(u, names, v) IN
           /\ s.func = t.func /\ s.names = t.names
           /\ s.asked = t.asked /\ s.exported = t.exported
    PROVE  ModulesOK'
<1>1. /\ DOMAIN Emit(u, v) = DOMAIN NewUnit
      /\ AskedOK(Emit(u, v)) /\ FuncOK(Emit(u, v))
      /\ symbols[u] \cup New(u, v) \cup {v} \subseteq DOMAIN Emit(u, v).func
  BY EmitFacts
<1> DEFINE t == AddValue(u, names, v)
<1>2. AskedOK(t) /\ FuncOK(t) /\ t.func = Emit(u, v).func
  BY <1>1, AddFacts
<1>3. AskedOK(s) /\ FuncOK(s)
  <2> HIDE DEF t
  <2>1. s.func = t.func /\ s.names = t.names /\ s.asked = t.asked /\ s.exported = t.exported
    BY DEF t
  <2> QED
    BY <1>2, <2>1 DEF AskedOK, FuncOK
<1>4. /\ symbols'[u] = symbols[u] \cup New(u, v)
      /\ \A w \in Unit \ {u} : symbols'[w] = symbols[w]
  BY DEF Mapped, IInv, LifetimesOK
<1>5. symbols'[u] \subseteq DOMAIN s.func
  BY <1>1, <1>2, <1>4
<1>6. u \in made
  BY DEF IInv, LifetimesOK
<1> QED
  BY <1>3, <1>4, <1>5, <1>6, ModuleStep

LEMMA InitModules == Init => ModulesOK
<1> SUFFICES ASSUME Init PROVE ModulesOK
  OBVIOUS
<1>1. \A u \in Unit : cu[u] = NewUnit /\ symbols[u] = {}
  BY DEF Init
<1>2. DOMAIN cu = Unit /\ cdata \subseteq Unit
  BY JitAssumption DEF Init
<1>3. AskedOK(NewUnit) /\ FuncOK(NewUnit)
  BY DEF NewUnit, AskedOK, FuncOK
<1> QED
  BY <1>1, <1>2, <1>3 DEF ModulesOK

LEMMA NewUnitModules ==
    ASSUME IInv, ModulesOK, NEW u \in Unit, NewCompilationUnit(u)
    PROVE  ModulesOK'
<1>1. /\ u \notin made /\ made' = made \cup {u} /\ cdata' = cdata \cup {u}
      /\ cu' = cu /\ symbols' = symbols
  BY DEF NewCompilationUnit, program, mapped
<1>2. cu[u] = NewUnit /\ symbols[u] = {}
  BY <1>1 DEF ModulesOK
<1>3. FuncOK(NewUnit)
  BY DEF NewUnit, FuncOK
<1> QED
  BY <1>1, <1>2, <1>3 DEF ModulesOK

LEMMA AddValueModules ==
    ASSUME IInv, ModulesOK, NEW u \in Unit, NEW v \in Value, NEW names,
           AddValueTo(u, names, v)
    PROVE  ModulesOK'
<1> DEFINE t == AddValue(u, names, v)
<1>1. /\ u \in cdata /\ Mapped(u, v) /\ made' = made /\ cdata' = cdata
      /\ cu' = [cu EXCEPT ![u] = t]
  BY DEF AddValueTo
<1>2. DOMAIN t = DOMAIN NewUnit
  BY <1>1, EmitFacts, AddFacts
<1> QED
  BY <1>1, <1>2, AddModules

LEMMA JitValueModules ==
    ASSUME IInv, ModulesOK, NEW u \in Unit, NEW v \in Value, JitValue(u, v)
    PROVE  ModulesOK'
<1> DEFINE t == AddValue(u, {}, v)
<1> DEFINE s == JITGlobalValue(t, t.func[v])
<1>1. /\ u \in cdata /\ Mapped(u, v) /\ made' = made /\ cdata' = cdata
      /\ cu' = [cu EXCEPT ![u] = s]
  BY DEF JitValue
<1>2. DOMAIN t = DOMAIN NewUnit
  BY <1>1, EmitFacts, AddFacts
<1>3. DOMAIN t = {"func", "names", "bodies", "exported", "asked", "code"}
  BY <1>2 DEF NewUnit
<1>4. /\ DOMAIN s = DOMAIN t /\ s.func = t.func /\ s.names = t.names
      /\ s.asked = t.asked /\ s.exported = t.exported
  <2> HIDE DEF t
  <2> QED
    BY <1>3 DEF JITGlobalValue
<1> QED
  BY <1>1, <1>2, <1>4, AddModules

(* What the optimizer drops from a module was not exported.                *)
LEMMA SaveObjModules ==
    ASSUME IInv, ModulesOK, NEW u \in Unit, SaveObj(u)
    PROVE  ModulesOK'
<1> DEFINE s == Optimized(cu[u])
<1>1. /\ u \in cdata /\ cdata' = cdata \ {u} /\ made' = made
      /\ cu' = [cu EXCEPT ![u] = s] /\ symbols' = symbols
  BY DEF SaveObj, mapped
<1>2. DOMAIN cu[u] = DOMAIN NewUnit /\ AskedOK(cu[u])
  BY DEF ModulesOK
<1>3. DOMAIN cu[u] = {"func", "names", "bodies", "exported", "asked", "code"}
  BY <1>2 DEF NewUnit
<1>4. /\ DOMAIN s = DOMAIN cu[u] /\ s.asked = cu[u].asked
      /\ s.exported = cu[u].exported
      /\ s.names = Restricted(cu[u].names, Used(cu[u]))
  BY <1>3 DEF Optimized
<1>5. \A i \in (DOMAIN cu[u].names) \cap cu[u].exported :
            i \in DOMAIN s.names /\ s.names[i] = cu[u].names[i]
  BY <1>4, ExportedUsed DEF Restricted
<1>6. AskedOK(s)
  BY <1>2, <1>4, <1>5 DEF AskedOK
<1>7. u \in made
  BY <1>1 DEF IInv, LifetimesOK
<1> HIDE DEF s
<1> QED
  BY <1>1, <1>2, <1>4, <1>6, <1>7, ModuleStep

(* A declaration is left of a function that is collected.                  *)
LEMMA DeleteModules ==
    ASSUME IInv, ModulesOK, NEW u \in Unit, NEW v \in Value, DeleteFunction(u, v)
    PROVE  ModulesOK'
<1> DEFINE s == [cu[u] EXCEPT !.bodies = @ \ {v}]
<1>1. DOMAIN cu = Unit
  BY DEF ModulesOK
<1>2. /\ v \in fstates[u] /\ cdata' = cdata /\ made' = made
      /\ cu' = [cu EXCEPT ![u] = s] /\ symbols' = [symbols EXCEPT ![u] = @ \ {v}]
  BY <1>1 DEF DeleteFunction
<1>3. /\ DOMAIN cu[u] = DOMAIN NewUnit /\ AskedOK(cu[u])
      /\ u \in cdata => symbols[u] \subseteq DOMAIN cu[u].func /\ FuncOK(cu[u])
  BY DEF ModulesOK
<1>4. DOMAIN cu[u] = {"func", "names", "bodies", "exported", "asked", "code"}
  BY <1>3 DEF NewUnit
<1>5. /\ DOMAIN s = DOMAIN cu[u] /\ s.asked = cu[u].asked
      /\ s.exported = cu[u].exported /\ s.names = cu[u].names /\ s.func = cu[u].func
  BY <1>4
<1> HIDE DEF s
<1>6. AskedOK(s) /\ (FuncOK(cu[u]) => FuncOK(s))
  BY <1>3, <1>5 DEF AskedOK, FuncOK
<1>7. /\ symbols'[u] \subseteq symbols[u]
      /\ \A w \in Unit \ {u} : symbols'[w] = symbols[w]
  BY <1>2 DEF IInv, LifetimesOK
<1>8. u \in made
  BY <1>2, UsedIsAlive
<1> QED
  BY <1>2, <1>3, <1>5, <1>6, <1>7, <1>8, ModuleStep

LEMMA ModulesHold == IInv /\ ModulesOK /\ [Next]_vars => ModulesOK'
<1> SUFFICES ASSUME IInv, ModulesOK, [Next]_vars PROVE ModulesOK'
  OBVIOUS
<1>1. CASE \E u \in Unit : NewCompilationUnit(u) \/ SaveObj(u)
  BY <1>1, NewUnitModules, SaveObjModules
<1>2. CASE \E u \in Unit, v \in Value :
            \/ \E names \in {{}} \cup {{b} : b \in Exports} : AddValueTo(u, names, v)
            \/ JitValue(u, v)
  BY <1>2, AddValueModules, JitValueModules
<1>3. CASE \E u \in Unit, v \in Value : DeleteFunction(u, v)
  BY <1>3, DeleteModules
<1>4. ASSUME made' = made, cu' = cu, symbols' = symbols, cdata' \subseteq cdata
      PROVE  ModulesOK'
  BY <1>4 DEF ModulesOK
<1>5. CASE \/ \E e \in Ext : LinkLLVM(NameOf[e])
           \/ \E v \in Value : Drop(v)
           \/ Close \/ CollectTarget \/ FreeState
           \/ \E u \in Unit : CollectUnit(u)
           \/ UNCHANGED vars
  BY <1>4, <1>5 DEF LinkLLVM, Drop, Close, CollectTarget, FreeState, CollectUnit, vars,
                    program, mapped, lifetimes
<1> QED
  BY <1>1, <1>2, <1>3, <1>5 DEF Next, Finalizer

(***************************************************************************)
(* A module has each value under the name it was asked for, when no value  *)
(* is asked for under two names and no name for two values, for every      *)
(* program and whatever is emitted, collected or linked in between         *)
(* (docs/api.md on saveobj: "with the name given in the table").           *)
(***************************************************************************)
THEOREM NamesAreKept == Spec => []Exported
<1>1. ModulesOK => Exported
  BY DEF ModulesOK, AskedOK, Exported
<1> QED
  BY <1>1, InitHolds, StepHolds, InitModules, ModulesHold, PTL DEF Spec

-----------------------------------------------------------------------------
(* Addresses of code.  Each operation loads each value at most once, and   *)
(* MemoryAssumption is what is left for the operations to come.            *)
CodeOK ==
    /\ \A u \in Unit : cu[u].bodies \subseteq Value
    /\ DOMAIN functioninfo \subseteq Addr
    /\ \A a \in DOMAIN functioninfo : functioninfo[a] \in Unit
    /\ ops \in 0 .. MaxOps
    /\ Cardinality(DOMAIN functioninfo) + (MaxOps - ops) * Cardinality(Value)
            <= Cardinality(Addr)
    /\ InfoIsMapped

LEMMA FiniteMemory ==
    ASSUME NEW D, D \subseteq Addr
    PROVE  /\ IsFiniteSet(D) /\ Cardinality(D) \in Nat
           /\ IsFiniteSet(Addr \ D)
           /\ Cardinality(Addr \ D) = Cardinality(Addr) - Cardinality(D)
<1>1. IsFiniteSet(Addr) /\ Cardinality(Addr) \in Nat
  BY MemoryAssumption, FS_CardinalityType
<1>2. IsFiniteSet(D) /\ Cardinality(D) \in Nat
  <2>1. IsFiniteSet(D)
    BY <1>1, FS_Subset
  <2> QED
    BY <2>1, FS_CardinalityType
<1>3. IsFiniteSet(Addr \ D)
      /\ Cardinality(Addr \ D) = Cardinality(Addr) - Cardinality(Addr \cap D)
  BY <1>1, FS_Difference
<1>4. Addr \cap D = D
  OBVIOUS
<1> QED
  BY <1>2, <1>3, <1>4

LEMMA FiniteValue == IsFiniteSet(Value) /\ Cardinality(Value) \in Nat
<1>1. IsFiniteSet(Value)
  BY JitAssumption DEF Value
<1> QED
  BY <1>1, FS_CardinalityType

(* What is not free is what functioninfo knows.                            *)
LEMMA FreeIsUnregistered ==
    ASSUME CodeOK
    PROVE  FreeAddr = Addr \ DOMAIN functioninfo
<1>1. ASSUME NEW a \in DOMAIN functioninfo
      PROVE  \E u \in Unit : Alive(u) /\ a \in Loaded(cu[u])
  BY <1>1 DEF CodeOK, InfoIsMapped, Loaded
<1>2. ASSUME NEW u \in Unit, Alive(u), NEW a \in Loaded(cu[u])
      PROVE  a \in DOMAIN functioninfo
  BY <1>2 DEF CodeOK, InfoIsMapped, Loaded
<1> QED
  BY <1>1, <1>2 DEF FreeAddr

(* An operation finds enough memory, and leaves enough for those after it. *)
LEMMA EnoughMemory ==
    ASSUME CodeOK, ops < MaxOps
    PROVE  /\ Cardinality(Value) <= Cardinality(FreeAddr) /\ IsFiniteSet(FreeAddr)
           /\ Cardinality(DOMAIN functioninfo) + Cardinality(Value)
                    + (MaxOps - (ops + 1)) * Cardinality(Value) <= Cardinality(Addr)
<1> DEFINE c == Cardinality(Value)
<1> DEFINE d == Cardinality(DOMAIN functioninfo)
<1> DEFINE m == Cardinality(Addr)
<1> DEFINE k == MaxOps - (ops + 1)
<1>1. /\ IsFiniteSet(FreeAddr) /\ Cardinality(FreeAddr) = m - d
      /\ d \in Nat /\ m \in Nat
  <2>1. d \in Nat /\ IsFiniteSet(FreeAddr) /\ Cardinality(FreeAddr) = m - d
    BY FiniteMemory, FreeIsUnregistered DEF CodeOK
  <2>2. m \in Nat
    BY MemoryAssumption, FS_CardinalityType
  <2> QED
    BY <2>1, <2>2
<1>2. c \in Nat
  BY FiniteValue
<1>3. k \in Nat /\ MaxOps - ops = k + 1
  BY JitAssumption DEF CodeOK
<1>4. d + (k + 1) * c <= m
  BY <1>3 DEF CodeOK
<1> HIDE DEF c, d, m, k
<1>5. (k + 1) * c = k * c + c /\ k * c \in Nat
  BY <1>2, <1>3
<1>6. d + c + k * c <= m /\ c <= m - d
  BY <1>1, <1>2, <1>4, <1>5
<1> QED
  BY <1>1, <1>6 DEF c, d, m, k

(* The values that are loaded get addresses of their own, that nobody has. *)
LEMMA PlacedApart ==
    ASSUME CodeOK, ops < MaxOps, NEW S, IsFiniteSet(S), Cardinality(S) <= Cardinality(Value)
    PROVE  Placed(S) \in Injection(S, FreeAddr)
<1>1. IsFiniteSet(FreeAddr) /\ Cardinality(S) <= Cardinality(FreeAddr)
  <2>1. /\ Cardinality(S) \in Nat /\ Cardinality(Value) \in Nat
        /\ IsFiniteSet(FreeAddr) /\ Cardinality(FreeAddr) \in Nat
    BY EnoughMemory, FiniteValue, FS_CardinalityType
  <2> QED
    BY <2>1, EnoughMemory
<1>2. FreeAddr \subseteq Nat
  BY MemoryAssumption, FreeIsUnregistered
<1>3. Injection(S, Lowest(FreeAddr, Cardinality(S))) # {}
  BY <1>1, <1>2, InjectionInto
<1>4. Placed(S) \in Injection(S, Lowest(FreeAddr, Cardinality(S)))
  BY <1>3 DEF Placed, Lowest, Before
<1>5. Lowest(FreeAddr, Cardinality(S)) \subseteq FreeAddr
  BY DEF Lowest
<1> QED
  BY <1>4, <1>5 DEF Injection

(* What was loaded stays where it is, and what is loaded is put where      *)
(* nothing is.                                                             *)
Grown(s, t) ==
    /\ DOMAIN s.code \subseteq DOMAIN t.code
    /\ \A n \in DOMAIN s.code : t.code[n].addr = s.code[n].addr
    /\ \A n \in DOMAIN t.code \ DOMAIN s.code : t.code[n].addr \in FreeAddr
    /\ IsFiniteSet(Loaded(t) \ Loaded(s))
    /\ Cardinality(Loaded(t) \ Loaded(s)) <= Cardinality(Value)

LEMMA AddModuleFacts ==
    ASSUME CodeOK, ops < MaxOps, NEW s, NEW S, S \subseteq Value,
           \A i \in S : s.names[i] \notin DOMAIN s.code, NEW t,
           t.code = AddModule(s, S)
    PROVE  Grown(s, t)
<1> DEFINE N == {s.names[i] : i \in S}
<1> DEFINE at == Placed(N)
<1> DEFINE new == [n \in DOMAIN at |->
                    [of |-> The(Holders(s, n)), addr |-> at[n], calls |-> <<>>]]
<1> DEFINE all == Merge(s.code, new)
<1>1. IsFiniteSet(N) /\ Cardinality(N) <= Cardinality(Value)
  <2>1. IsFiniteSet(S) /\ Cardinality(S) <= Cardinality(Value) /\ Cardinality(S) \in Nat
    <3>1. IsFiniteSet(S) /\ Cardinality(S) <= Cardinality(Value)
      BY FiniteValue, FS_Subset
    <3> QED
      BY <3>1, FS_CardinalityType
  <2> DEFINE f == [i \in S |-> s.names[i]]
  <2>2. f \in Surjection(S, N)
    BY DEF Surjection
  <2>3. IsFiniteSet(N) /\ Cardinality(N) <= Cardinality(S)
    <3> HIDE DEF f, N
    <3> QED
      BY <2>1, <2>2, FS_Surjection
  <2>4. Cardinality(N) \in Nat /\ Cardinality(Value) \in Nat
    BY <2>3, FS_CardinalityType, FiniteValue
  <2> QED
    BY <2>1, <2>3, <2>4
<1>2. N \cap DOMAIN s.code = {}
  OBVIOUS
<1> HIDE DEF N
<1>3. at \in Injection(N, FreeAddr)
  BY <1>1, PlacedApart
<1> HIDE DEF at
<1>4. at \in [N -> FreeAddr]
  BY <1>3 DEF Injection
<1>5. DOMAIN new = N /\ \A n \in N : new[n].addr = at[n]
  BY <1>4
<1> HIDE DEF new
<1>6. /\ DOMAIN all = (DOMAIN s.code) \cup N
      /\ \A n \in DOMAIN s.code : all[n] = s.code[n]
      /\ \A n \in N : all[n] = new[n]
  <2>1. LET f == s.code
            g == new
        IN  /\ DOMAIN Merge(f, g) = (DOMAIN f) \cup DOMAIN g
            /\ \A x \in DOMAIN f : Merge(f, g)[x] = f[x]
            /\ \A x \in (DOMAIN g) \ DOMAIN f : Merge(f, g)[x] = g[x]
    BY Merged, Zenon
  <2> QED
    BY <1>2, <1>5, <2>1
<1>7. t.code = [n \in DOMAIN all |->
                    IF n \in DOMAIN s.code THEN all[n]
                    ELSE [all[n] EXCEPT !.calls =
                            [c \in Links(s, all[n].of) |-> Lookup(all, s.names[c])]]]
  BY DEF AddModule, at, new, N
<1> HIDE DEF all
<1>8. /\ DOMAIN t.code = (DOMAIN s.code) \cup N
      /\ \A n \in DOMAIN s.code : t.code[n] = s.code[n]
  BY <1>6, <1>7
<1>9. \A n \in N : t.code[n].addr = at[n]
  <2> SUFFICES ASSUME NEW n \in N PROVE t.code[n].addr = at[n]
    OBVIOUS
  <2>1. t.code[n] = [new[n] EXCEPT !.calls =
                        [c \in Links(s, new[n].of) |-> Lookup(all, s.names[c])]]
    BY <1>2, <1>6, <1>7
  <2>2. "addr" \in DOMAIN new[n]
    BY <1>4 DEF new
  <2> QED
    BY <1>5, <2>1, <2>2
<1>10. IsFiniteSet(Loaded(t) \ Loaded(s))
       /\ Cardinality(Loaded(t) \ Loaded(s)) <= Cardinality(Value)
  <2> DEFINE L == {at[n] : n \in N}
  <2>1. Loaded(t) \ Loaded(s) \subseteq L
    BY <1>8, <1>9 DEF Loaded
  <2>2. at \in Surjection(N, L)
    BY <1>4 DEF Surjection
  <2>3. IsFiniteSet(L) /\ Cardinality(L) <= Cardinality(N)
    <3> HIDE DEF L
    <3> QED
      BY <1>1, <2>2, FS_Surjection
  <2> HIDE DEF L
  <2>4. IsFiniteSet(Loaded(t) \ Loaded(s))
        /\ Cardinality(Loaded(t) \ Loaded(s)) <= Cardinality(L)
    BY <2>1, <2>3, FS_Subset
  <2>5. /\ Cardinality(Loaded(t) \ Loaded(s)) \in Nat /\ Cardinality(L) \in Nat
        /\ Cardinality(N) \in Nat /\ Cardinality(Value) \in Nat
    BY <1>1, <2>3, <2>4, FS_CardinalityType, FiniteValue
  <2> QED
    BY <1>1, <2>3, <2>4, <2>5
<1> QED
  BY <1>4, <1>8, <1>9, <1>10 DEF Grown

LEMMA JitFacts ==
    ASSUME CodeOK, ops < MaxOps, NEW s, DOMAIN s = DOMAIN NewUnit,
           s.bodies \subseteq Value, NEW i
    PROVE  LET t == JITGlobalValue(s, i) IN t.bodies = s.bodies /\ Grown(s, t)
<1> DEFINE t == JITGlobalValue(s, i)
<1> DEFINE S == CopyConnectedComponent(s, i)
<1>1. DOMAIN s = {"func", "names", "bodies", "exported", "asked", "code"}
  BY DEF NewUnit
<1>2. CASE i \notin s.bodies \/ s.names[i] \in DOMAIN s.code
  <2>1. t = s
    BY <1>2 DEF JITGlobalValue
  <2>2. Loaded(t) \ Loaded(s) = {}
    BY <2>1
  <2>3. IsFiniteSet({}) /\ Cardinality({}) = 0 /\ Cardinality(Value) \in Nat
    BY FS_EmptySet, FiniteValue
  <2> QED
    BY <2>1, <2>2, <2>3 DEF Grown
<1>3. CASE ~(i \notin s.bodies \/ s.names[i] \in DOMAIN s.code)
  <2>1. t = [s EXCEPT !.code = AddModule(s, S)]
    BY <1>3 DEF JITGlobalValue
  <2>2. t.code = AddModule(s, S) /\ t.bodies = s.bodies
    BY <1>1, <2>1
  <2>3. \A j \in S : j \in s.bodies /\ s.names[j] \notin DOMAIN s.code
    BY DEF CopyConnectedComponent, ShouldCopy
  <2>4. S \subseteq Value
    BY <2>3
  <2> HIDE DEF S, t
  <2>5. Grown(s, t)
    BY <2>2, <2>3, <2>4, AddModuleFacts
  <2> QED
    BY <2>2, <2>5 DEF t
<1> QED
  BY <1>2, <1>3

(* The definition of a value is what it is emitted with.                   *)
LEMMA AddBodies ==
    ASSUME ModulesOK, CodeOK, NEW u \in Unit, NEW v \in Value, NEW names
    PROVE  /\ AddValue(u, names, v).bodies \subseteq Value
           /\ AddValue(u, names, v).code = cu[u].code
<1>1. DOMAIN cu[u] = {"func", "names", "bodies", "exported", "asked", "code"}
  BY DEF ModulesOK, NewUnit
<1> DEFINE created == Created(cu[u], New(u, v))
<1> DEFINE s == Emit(u, v)
<1>2. created \subseteq Value /\ Copied(cu[u], New(u, v)) \subseteq Value
  BY DEF Created, Copied, New
<1>3. /\ DOMAIN s = DOMAIN cu[u] /\ s.code = cu[u].code
      /\ s.bodies = cu[u].bodies \cup (created \cap Fn) \cup Copied(cu[u], New(u, v))
  BY <1>1 DEF Emit
<1>4. s.bodies \subseteq Value
  BY <1>2, <1>3 DEF CodeOK
<1> DEFINE i == s.func[v]
<1> HIDE DEF s
<1> DEFINE t == [s EXCEPT !.exported = @ \cup {i}]
<1> DEFINE r == [t EXCEPT !.names = Rename(t, The(names), i), !.asked = @ \cup {<<The(names), i>>}]
<1>5. t.bodies = s.bodies /\ t.code = s.code /\ DOMAIN t = DOMAIN s
  BY <1>1, <1>3
<1>6. AddValue(u, names, v) = IF names = {} THEN t ELSE r
  BY DEF AddValue, s
<1> HIDE DEF t
<1>7. r.bodies = t.bodies /\ r.code = t.code
  BY <1>1, <1>3, <1>5
<1> HIDE DEF r
<1> QED
  BY <1>3, <1>4, <1>5, <1>6, <1>7
-----------------------------------------------------------------------------
LEMMA InitCode == Init => CodeOK
<1> SUFFICES ASSUME Init PROVE CodeOK
  OBVIOUS
<1>1. \A u \in Unit : cu[u].bodies = {} /\ cu[u].code = <<>>
  BY DEF Init, NewUnit
<1>2. functioninfo = <<>> /\ ops = 0
  BY DEF Init
<1>3. DOMAIN functioninfo = {} /\ \A u \in Unit : DOMAIN cu[u].code = {}
  BY <1>1, <1>2
<1>4. Cardinality(DOMAIN functioninfo) = 0
  BY <1>3, FS_EmptySet
<1>5. Cardinality(DOMAIN functioninfo) + (MaxOps - ops) * Cardinality(Value)
            <= Cardinality(Addr)
  <2>1. MaxOps - ops = MaxOps /\ MaxOps * Cardinality(Value) \in Nat
    BY <1>2, FiniteValue, JitAssumption
  <2> QED
    BY <1>4, <2>1, MemoryAssumption
<1>6. InfoIsMapped
  BY <1>3 DEF InfoIsMapped
<1>7. ops \in 0 .. MaxOps
  BY <1>2, JitAssumption
<1> QED
  BY <1>1, <1>3, <1>5, <1>6, <1>7 DEF CodeOK

(* An operation, or none, that loads no code.                              *)
LEMMA OpsStep ==
    ASSUME CodeOK, Operation \/ ops' = ops, NEW D, D \subseteq DOMAIN functioninfo
    PROVE  /\ ops' \in 0 .. MaxOps
           /\ Cardinality(D) + (MaxOps - ops') * Cardinality(Value) <= Cardinality(Addr)
<1> DEFINE c == Cardinality(Value)
<1> DEFINE d == Cardinality(DOMAIN functioninfo)
<1> DEFINE e == Cardinality(D)
<1> DEFINE m == Cardinality(Addr)
<1>1. c \in Nat /\ m \in Nat /\ d \in Nat /\ e \in Nat /\ e <= d
  <2>1. DOMAIN functioninfo \subseteq Addr /\ IsFiniteSet(DOMAIN functioninfo)
    BY FiniteMemory DEF CodeOK
  <2>2. e <= d
    BY <2>1, FS_Subset
  <2>3. c \in Nat /\ m \in Nat
    BY FiniteValue, MemoryAssumption, FS_CardinalityType
  <2>4. d \in Nat /\ e \in Nat
    BY <2>1, FiniteMemory
  <2> QED
    BY <2>2, <2>3, <2>4
<1>2. CASE Operation
  <2>1. ops < MaxOps /\ ops' = ops + 1 /\ ops' \in 0 .. MaxOps
    BY <1>2, JitAssumption DEF Operation, CodeOK
  <2>2. d + c + (MaxOps - (ops + 1)) * c <= m
    BY <2>1, EnoughMemory
  <2> DEFINE k == (MaxOps - (ops + 1)) * c
  <2>3. k \in Nat
    BY <1>1, <2>1, JitAssumption
  <2>4. (MaxOps - ops') * c = k
    BY <2>1
  <2>5. d + c + k <= m
    BY <2>2
  <2> HIDE DEF k, c, d, e, m
  <2>6. e + k <= m
    BY <1>1, <2>3, <2>5
  <2> QED
    BY <2>1, <2>4, <2>6 DEF c, e, m
<1>3. CASE ops' = ops
  <2> DEFINE k == (MaxOps - ops) * c
  <2>1. k \in Nat /\ ops \in 0 .. MaxOps
    BY <1>1, JitAssumption DEF CodeOK
  <2>2. d + k <= m
    BY DEF CodeOK
  <2>3. (MaxOps - ops') * c = k
    BY <1>3
  <2> HIDE DEF k, c, d, e, m
  <2>4. e + k <= m
    BY <1>1, <2>1, <2>2
  <2> QED
    BY <1>3, <2>1, <2>3, <2>4 DEF c, e, m
<1> QED
  BY <1>2, <1>3

(* A step that loads and unmaps nothing: code is as it was, and a unit that*)
(* is new has none.                                                        *)
LEMMA NothingLoaded ==
    ASSUME CodeOK, Operation \/ ops' = ops, functioninfo' = functioninfo,
           \A u \in Unit : /\ cu'[u].bodies \subseteq Value /\ cu'[u].code = cu[u].code
                           /\ Alive(u) => Alive(u)'
                           /\ Alive(u)' => Alive(u) \/ DOMAIN cu[u].code = {}
    PROVE  CodeOK'
<1>1. /\ ops' \in 0 .. MaxOps
      /\ Cardinality(DOMAIN functioninfo') + (MaxOps - ops') * Cardinality(Value)
            <= Cardinality(Addr)
  BY OpsStep
<1>2. InfoIsMapped'
  BY DEF CodeOK, InfoIsMapped
<1> QED
  BY <1>1, <1>2 DEF CodeOK

(* A user of a unit goes; the last one takes the unit's code with it.      *)
LEMMA CodeFreed ==
    ASSUME IInv, CodeOK, NEW u \in Unit, nreferences[u] # 0, FreeCompilationUnit(u),
           Operation \/ ops' = ops,
           \A w \in Unit : cu'[w].bodies \subseteq Value /\ cu'[w].code = cu[w].code
    PROVE  CodeOK'
<1>1. /\ nreferences' = [nreferences EXCEPT ![u] = @ - 1]
      /\ \A w \in Unit : nreferences[w] \in Nat
      /\ DOMAIN nreferences = Unit
  BY DEF FreeCompilationUnit, IInv, LifetimesOK
<1>2. CASE nreferences[u] = 1
  <2>1. functioninfo' = ForgetFunctions(u)
    BY <1>2 DEF FreeCompilationUnit
  <2>2. /\ DOMAIN functioninfo' = {a \in DOMAIN functioninfo : functioninfo[a] # u}
        /\ \A a \in DOMAIN functioninfo' : functioninfo'[a] = functioninfo[a]
    <3>1. \A a \in DOMAIN functioninfo : a \in Loaded(cu[u]) <=> functioninfo[a] = u
      BY <1>2 DEF Alive, Loaded, CodeOK, InfoIsMapped
    <3> QED
      BY <2>1, <3>1 DEF ForgetFunctions, Restricted
  <2>3. \A w \in Unit : Alive(w)' <=> Alive(w) /\ w # u
    BY <1>1, <1>2 DEF Alive
  <2>4. InfoIsMapped'
    BY <2>2, <2>3 DEF CodeOK, InfoIsMapped
  <2>5. /\ ops' \in 0 .. MaxOps
        /\ Cardinality(DOMAIN functioninfo') + (MaxOps - ops') * Cardinality(Value)
            <= Cardinality(Addr)
    BY <2>2, OpsStep
  <2> QED
    BY <2>2, <2>4, <2>5 DEF CodeOK
<1>3. CASE nreferences[u] # 1
  <2>1. functioninfo' = functioninfo
    BY <1>3 DEF FreeCompilationUnit
  <2>2. \A w \in Unit : Alive(w)' <=> Alive(w)
    BY <1>1, <1>3 DEF Alive
  <2> QED
    BY <2>1, <2>2, NothingLoaded
<1> QED
  BY <1>2, <1>3

(* Emission frees no unit, and makes none.                                 *)
LEMMA MappedAlive ==
    ASSUME IInv, NEW u \in Unit, NEW v, u \in cdata, Mapped(u, v)
    PROVE  \A w \in Unit : Alive(w)' <=> Alive(w)
<1> DEFINE D == Destructible(u, v)
<1>1. nreferences' = [nreferences EXCEPT ![u] = @ + Cardinality(D)]
  BY DEF Mapped
<1>2. Cardinality(D) \in Nat
  <2>1. D \subseteq Value
    BY DEF Destructible, Created, New
  <2> HIDE DEF D
  <2>2. IsFiniteSet(D)
    BY <2>1, FiniteValue, FS_Subset
  <2> QED
    BY <2>2, FS_CardinalityType
<1> HIDE DEF D
<1>3. nreferences \in [Unit -> Nat]
  BY DEF IInv, LifetimesOK
<1>4. nreferences[u] > 0
  BY UsedIsAlive
<1> QED
  BY <1>1, <1>2, <1>3, <1>4 DEF Alive

LEMMA JitValueCode ==
    ASSUME IInv, ModulesOK, CodeOK, NEW u \in Unit, NEW v \in Value, JitValue(u, v)
    PROVE  CodeOK'
<1> DEFINE s == AddValue(u, {}, v)
<1> DEFINE t == JITGlobalValue(s, s.func[v])
<1>1. /\ u \in cdata /\ Mapped(u, v) /\ ops < MaxOps /\ ops' = ops + 1
      /\ cu' = [cu EXCEPT ![u] = t] /\ functioninfo' = Registered(u, t)
  BY DEF JitValue, Operation
<1>2. DOMAIN s = DOMAIN NewUnit
  BY <1>1, EmitFacts, AddFacts
<1>3. s.bodies \subseteq Value /\ s.code = cu[u].code
  BY AddBodies
<1>4. t.bodies \subseteq Value /\ Grown(s, t)
  <2> HIDE DEF s
  <2> QED
    BY <1>1, <1>2, <1>3, JitFacts
<1>5. Grown(cu[u], t) /\ DOMAIN cu = Unit
  <2> HIDE DEF s, t
  <2> QED
    BY <1>3, <1>4 DEF Grown, Loaded, ModulesOK
<1> HIDE DEF s, t
<1>6. cu'[u] = t /\ \A w \in Unit \ {u} : cu'[w] = cu[w]
  BY <1>1, <1>5
<1>7. Alive(u)
  BY <1>1, UsedIsAlive DEF Alive
<1>8. /\ DOMAIN functioninfo' = (DOMAIN functioninfo) \cup Loaded(t)
      /\ \A a \in DOMAIN functioninfo : functioninfo'[a] = functioninfo[a]
      /\ \A a \in Loaded(t) \ DOMAIN functioninfo : functioninfo'[a] = u
  <2> DEFINE f == [a \in Loaded(t) |-> u]
  <2>1. functioninfo' = Merge(f, functioninfo)
    BY <1>1 DEF Registered
  <2>2. DOMAIN f = Loaded(t) /\ \A a \in Loaded(t) : f[a] = u
    OBVIOUS
  <2> HIDE DEF f
  <2>3. LET g == functioninfo
        IN  /\ DOMAIN Merge(f, g) = (DOMAIN f) \cup DOMAIN g
            /\ \A x \in DOMAIN f : Merge(f, g)[x] = f[x]
            /\ \A x \in (DOMAIN g) \ DOMAIN f : Merge(f, g)[x] = g[x]
    BY Merged, Zenon
  <2>4. \A a \in Loaded(t) \cap DOMAIN functioninfo : functioninfo[a] = u
    <3>1. \A a \in Loaded(t) : a \in Loaded(cu[u]) \/ a \in FreeAddr
      BY <1>5 DEF Grown, Loaded
    <3>2. \A a \in Loaded(cu[u]) : functioninfo[a] = u
      BY <1>7 DEF Loaded, CodeOK, InfoIsMapped
    <3> QED
      BY <3>1, <3>2, FreeIsUnregistered
  <2> QED
    BY <2>1, <2>2, <2>3, <2>4
<1>9. \A w \in Unit : Alive(w)' <=> Alive(w)
  BY <1>1, MappedAlive
<1>10. Loaded(cu[u]) \subseteq DOMAIN functioninfo
  BY <1>7 DEF Loaded, CodeOK, InfoIsMapped
<1>11. Loaded(t) \ DOMAIN functioninfo \subseteq Loaded(t) \ Loaded(cu[u])
  BY <1>10
<1>12. Loaded(t) \subseteq Addr
  <2>1. \A a \in Loaded(t) : a \in Loaded(cu[u]) \/ a \in FreeAddr
    BY <1>5 DEF Grown, Loaded
  <2> QED
    BY <1>10, <2>1, FreeIsUnregistered DEF CodeOK
<1>13. ops' \in 0 .. MaxOps
  BY <1>1, JitAssumption DEF CodeOK
<1>14. Cardinality(DOMAIN functioninfo') + (MaxOps - ops') * Cardinality(Value)
            <= Cardinality(Addr)
  <2> DEFINE d == Cardinality(DOMAIN functioninfo)
  <2> DEFINE L == Loaded(t) \ Loaded(cu[u])
  <2>1. /\ IsFiniteSet(DOMAIN functioninfo) /\ d \in Nat
        /\ IsFiniteSet(L) /\ Cardinality(L) <= Cardinality(Value) /\ Cardinality(L) \in Nat
    <3>1. IsFiniteSet(L) /\ Cardinality(L) <= Cardinality(Value)
      BY <1>5 DEF Grown
    <3> HIDE DEF L
    <3>2. Cardinality(L) \in Nat
      BY <3>1, FS_CardinalityType
    <3>3. IsFiniteSet(DOMAIN functioninfo) /\ d \in Nat
      BY FiniteMemory DEF CodeOK
    <3> QED
      BY <3>1, <3>2, <3>3
  <2>2. DOMAIN functioninfo' \subseteq (DOMAIN functioninfo) \cup L
    BY <1>8, <1>11
  <2> HIDE DEF L
  <2>3. /\ IsFiniteSet((DOMAIN functioninfo) \cup L)
        /\ Cardinality((DOMAIN functioninfo) \cup L)
                = d + Cardinality(L) - Cardinality((DOMAIN functioninfo) \cap L)
    BY <2>1, FS_Union
  <2>4. Cardinality((DOMAIN functioninfo) \cap L) \in Nat
    BY <2>1, FS_Intersection, FS_CardinalityType
  <2>5. /\ Cardinality(DOMAIN functioninfo') \in Nat
        /\ Cardinality(DOMAIN functioninfo') <= Cardinality((DOMAIN functioninfo) \cup L)
    <3>1. /\ IsFiniteSet(DOMAIN functioninfo')
          /\ Cardinality(DOMAIN functioninfo') <= Cardinality((DOMAIN functioninfo) \cup L)
      BY <2>2, <2>3, FS_Subset
    <3> QED
      BY <3>1, FS_CardinalityType
  <2>6. d + Cardinality(Value) + (MaxOps - (ops + 1)) * Cardinality(Value) <= Cardinality(Addr)
    BY <1>1, EnoughMemory
  <2> DEFINE k == (MaxOps - (ops + 1)) * Cardinality(Value)
  <2>7. k \in Nat
    BY <1>1, FiniteValue, JitAssumption DEF CodeOK
  <2>8. (MaxOps - ops') * Cardinality(Value) = k
    BY <1>1
  <2>9. Cardinality(Addr) \in Nat /\ Cardinality(Value) \in Nat
    BY FiniteValue, MemoryAssumption, FS_CardinalityType
  <2>10. d + Cardinality(Value) + k <= Cardinality(Addr)
    BY <2>6
  <2> HIDE DEF k, d
  <2> QED
    BY <2>1, <2>3, <2>4, <2>5, <2>7, <2>8, <2>9, <2>10
<1>15. InfoIsMapped'
  <2>1. ASSUME NEW a \in DOMAIN functioninfo'
        PROVE  /\ nreferences'[functioninfo'[a]] > 0
               /\ \E n \in DOMAIN cu'[functioninfo'[a]].code :
                        cu'[functioninfo'[a]].code[n].addr = a
    <3>1. CASE a \in DOMAIN functioninfo
      <4> DEFINE w == functioninfo[a]
      <4>1. w \in Unit /\ functioninfo'[a] = w /\ Alive(w)
        BY <1>8, <3>1 DEF CodeOK, InfoIsMapped
      <4>2. PICK n \in DOMAIN cu[w].code : cu[w].code[n].addr = a
        BY <3>1 DEF CodeOK, InfoIsMapped
      <4>3. n \in DOMAIN cu'[w].code /\ cu'[w].code[n].addr = a
        BY <1>5, <1>6, <4>1, <4>2 DEF Grown
      <4> QED
        BY <1>9, <4>1, <4>3 DEF Alive
    <3>2. CASE a \notin DOMAIN functioninfo
      <4>1. a \in Loaded(t) /\ functioninfo'[a] = u
        BY <1>8, <3>2
      <4> QED
        BY <1>6, <1>7, <1>9, <4>1 DEF Loaded, Alive
    <3> QED
      BY <3>1, <3>2
  <2>2. ASSUME NEW w \in Unit, Alive(w)', NEW n \in DOMAIN cu'[w].code
        PROVE  /\ cu'[w].code[n].addr \in DOMAIN functioninfo'
               /\ functioninfo'[cu'[w].code[n].addr] = w
    <3>1. CASE n \in DOMAIN cu[w].code
      <4>1. /\ cu[w].code[n].addr \in DOMAIN functioninfo
            /\ functioninfo[cu[w].code[n].addr] = w
        BY <1>9, <2>2, <3>1 DEF CodeOK, InfoIsMapped
      <4>2. cu'[w].code[n].addr = cu[w].code[n].addr
        BY <1>5, <1>6, <3>1 DEF Grown
      <4> QED
        BY <1>8, <4>1, <4>2
    <3>2. CASE n \notin DOMAIN cu[w].code
      <4>1. w = u /\ n \in DOMAIN t.code \ DOMAIN cu[u].code
        BY <1>6, <3>2
      <4>2. t.code[n].addr \in Loaded(t) \ DOMAIN functioninfo
        BY <1>5, <4>1, FreeIsUnregistered DEF Grown, Loaded
      <4> QED
        BY <1>6, <1>8, <4>1, <4>2
    <3> QED
      BY <3>1, <3>2
  <2> QED
    BY <2>1, <2>2 DEF InfoIsMapped, Alive
<1>16. \A w \in Unit : cu'[w].bodies \subseteq Value
  BY <1>4, <1>6 DEF CodeOK
<1>17. /\ DOMAIN functioninfo' \subseteq Addr
       /\ \A a \in DOMAIN functioninfo' : functioninfo'[a] \in Unit
  BY <1>8, <1>12 DEF CodeOK
<1> QED
  BY <1>13, <1>14, <1>15, <1>16, <1>17 DEF CodeOK

LEMMA CodeHolds == IInv /\ ModulesOK /\ CodeOK /\ [Next]_vars => CodeOK'
<1> SUFFICES ASSUME IInv, ModulesOK, CodeOK, [Next]_vars PROVE CodeOK'
  OBVIOUS
<1>1. ASSUME NEW u \in Unit, NewCompilationUnit(u) PROVE CodeOK'
  <2>1. /\ u \notin made /\ cu' = cu /\ functioninfo' = functioninfo /\ Operation
        /\ nreferences' = [nreferences EXCEPT ![u] = 1]
    BY <1>1 DEF NewCompilationUnit, program
  <2>2. DOMAIN cu[u].code = {}
    BY <2>1 DEF ModulesOK, NewUnit
  <2>3. \A w \in Unit : cu'[w].bodies \subseteq Value
    BY <2>1 DEF CodeOK
  <2>4. \A w \in Unit : (Alive(w) => Alive(w)') /\ (Alive(w)' => Alive(w) \/ w = u)
    BY <2>1 DEF Alive, IInv, LifetimesOK
  <2> QED
    BY <2>1, <2>2, <2>3, <2>4, NothingLoaded
<1>2. ASSUME NEW u \in Unit, NEW v \in Value, NEW names, AddValueTo(u, names, v)
      PROVE  CodeOK'
  <2> DEFINE s == AddValue(u, names, v)
  <2>1. /\ u \in cdata /\ cu' = [cu EXCEPT ![u] = s] /\ Operation
        /\ functioninfo' = functioninfo /\ Mapped(u, v)
    BY <1>2 DEF AddValueTo
  <2>2. s.bodies \subseteq Value /\ s.code = cu[u].code /\ DOMAIN cu = Unit
    BY AddBodies DEF ModulesOK
  <2> HIDE DEF s
  <2>3. \A w \in Unit : cu'[w].bodies \subseteq Value /\ cu'[w].code = cu[w].code
    BY <2>1, <2>2 DEF CodeOK
  <2>4. \A w \in Unit : Alive(w)' <=> Alive(w)
    BY <2>1, MappedAlive
  <2> QED
    BY <2>1, <2>3, <2>4, NothingLoaded
<1>3. ASSUME NEW u \in Unit, SaveObj(u) \/ CollectUnit(u) PROVE CodeOK'
  <2>1. u \in cdata /\ FreeCompilationUnit(u) /\ (Operation \/ ops' = ops)
    BY <1>3 DEF SaveObj, CollectUnit
  <2>2. \A w \in Unit : cu'[w].bodies \subseteq Value /\ cu'[w].code = cu[w].code
    <3>1. CASE cu' = cu
      BY <3>1 DEF CodeOK
    <3>2. CASE SaveObj(u)
      <4> DEFINE s == Optimized(cu[u])
      <4>1. cu' = [cu EXCEPT ![u] = s] /\ DOMAIN cu = Unit
        BY <3>2 DEF SaveObj, ModulesOK
      <4>2. DOMAIN cu[u] = {"func", "names", "bodies", "exported", "asked", "code"}
        BY DEF ModulesOK, NewUnit
      <4>3. s.bodies \subseteq cu[u].bodies /\ s.code = cu[u].code
        BY <4>2 DEF Optimized
      <4> HIDE DEF s
      <4> QED
        BY <4>1, <4>3 DEF CodeOK
    <3> QED
      BY <1>3, <3>1, <3>2 DEF CollectUnit
  <2>3. nreferences[u] # 0
    BY <2>1, UsedIsAlive
  <2> QED
    BY <2>1, <2>2, <2>3, CodeFreed
<1>4. ASSUME NEW u \in Unit, NEW v \in Value, DeleteFunction(u, v) PROVE CodeOK'
  <2> DEFINE s == [cu[u] EXCEPT !.bodies = @ \ {v}]
  <2>1. DOMAIN cu = Unit
    BY DEF ModulesOK
  <2>2. /\ v \in fstates[u] /\ FreeCompilationUnit(u) /\ ops' = ops
        /\ cu' = [cu EXCEPT ![u] = s]
    BY <1>4, <2>1 DEF DeleteFunction
  <2>3. DOMAIN cu[u] = {"func", "names", "bodies", "exported", "asked", "code"}
    BY DEF ModulesOK, NewUnit
  <2>4. s.bodies \subseteq cu[u].bodies /\ s.code = cu[u].code
    BY <2>3
  <2> HIDE DEF s
  <2>5. \A w \in Unit : cu'[w].bodies \subseteq Value /\ cu'[w].code = cu[w].code
    BY <2>1, <2>2, <2>4 DEF CodeOK
  <2>6. nreferences[u] # 0
    BY <2>2, UsedIsAlive
  <2> QED
    BY <2>2, <2>5, <2>6, CodeFreed
<1>5. CASE \/ \E e \in Ext : LinkLLVM(NameOf[e])
           \/ \E v \in Value : Drop(v)
           \/ Close \/ CollectTarget \/ FreeState
           \/ UNCHANGED vars
  <2>1. cu' = cu /\ functioninfo' = functioninfo /\ nreferences' = nreferences
        /\ (Operation \/ ops' = ops)
    BY <1>5 DEF LinkLLVM, Drop, Close, CollectTarget, FreeState, vars, program, lifetimes
  <2>2. \A w \in Unit : cu'[w].bodies \subseteq Value /\ (Alive(w)' <=> Alive(w))
    BY <2>1 DEF Alive, CodeOK
  <2> QED
    BY <2>1, <2>2, NothingLoaded
<1> QED
  BY <1>1, <1>2, <1>3, <1>4, <1>5, JitValueCode DEF Next, Finalizer

(***************************************************************************)
(* What is in functioninfo is code that is mapped, each address one unit's,*)
(* for every program and whenever units are freed: an address that the JIT *)
(* hands out again is not still known as that of another unit's function   *)
(* (terra_freecompilationunit: "its execution engine unmaps the code").    *)
(***************************************************************************)
THEOREM InfoHolds == Spec => []InfoIsMapped
<1>1. CodeOK => InfoIsMapped
  BY DEF CodeOK
<1> QED
  BY <1>1, InitHolds, StepHolds, InitModules, ModulesHold, InitCode, CodeHolds, PTL DEF Spec

-----------------------------------------------------------------------------
(* What Reached computes: the least set that contains S and is closed.  The*)
(* steps are as many as there are values, and each but the last adds one.  *)
IsSteps(U, S, R, g) ==
    /\ g[0] = S
    /\ \A n \in 0 .. Cardinality(U) : n # 0 /\ g[n - 1] \subseteq U =>
            g[n] = g[n - 1] \cup UNION {R[w] : w \in g[n - 1]}

IsLeast(U, S, R, C) ==
    /\ S \subseteq C /\ C \subseteq U
    /\ \A w \in C : R[w] \subseteq C
    /\ \A T : S \subseteq T /\ (\A w \in T \cap U : R[w] \subseteq T) => C \subseteq T

LEMMA Saturates ==
    ASSUME NEW U, IsFiniteSet(U), NEW S \in SUBSET U, NEW R,
           \A w \in U : R[w] \subseteq U, NEW g, IsSteps(U, S, R, g)
    PROVE  IsLeast(U, S, R, g[Cardinality(U)])
<1> DEFINE N == Cardinality(U)
<1>1. N \in Nat
  BY FS_CardinalityType
<1>2. /\ g[0] = S
      /\ \A n \in 0 .. N : n # 0 /\ g[n - 1] \subseteq U =>
                    g[n] = g[n - 1] \cup UNION {R[w] : w \in g[n - 1]}
  BY DEF IsSteps
<1> HIDE DEF N
<1>3. \A n \in 0 .. N : g[n] \subseteq U
  <2> DEFINE I == {n \in 0 .. N : g[n] \subseteq U}
  <2>1. 0 \in I
    BY <1>1, <1>2
  <2>2. ASSUME NEW n \in 0 .. N, n < N, n \in I PROVE n + 1 \in I
    <3>1. n + 1 \in 0 .. N /\ n + 1 # 0 /\ (n + 1) - 1 = n
      BY <1>1, <2>2
    <3>2. g[n + 1] = g[n] \cup UNION {R[w] : w \in g[n]}
      BY <1>2, <2>2, <3>1
    <3>3. g[n + 1] \subseteq U
      BY <2>2, <3>2
    <3> QED
      BY <3>1, <3>3
  <2>3. \A n \in 0 .. N : n \in I
    <3> HIDE DEF I
    <3> QED
      BY <1>1, <2>1, <2>2, Induction
  <2> QED
    BY <2>3
<1>4. ASSUME NEW n \in 0 .. N, n < N
      PROVE  n + 1 \in 0 .. N /\ g[n + 1] = g[n] \cup UNION {R[w] : w \in g[n]}
  <2>1. n + 1 \in 0 .. N /\ n + 1 # 0 /\ (n + 1) - 1 = n /\ n \in 0 .. N
    BY <1>1, <1>4
  <2> QED
    BY <1>2, <1>3, <2>1
<1>5. N \in 0 .. N
  BY <1>1
<1>6. S \subseteq g[N]
  <2> DEFINE I == {n \in 0 .. N : S \subseteq g[n]}
  <2>1. 0 \in I
    BY <1>1, <1>2
  <2>2. ASSUME NEW n \in 0 .. N, n < N, n \in I PROVE n + 1 \in I
    BY <1>4, <2>2
  <2>3. \A n \in 0 .. N : n \in I
    <3> HIDE DEF I
    <3> QED
      BY <1>1, <2>1, <2>2, Induction
  <2> QED
    BY <1>5, <2>3
<1>7. \A w \in g[N] : R[w] \subseteq g[N]
  <2> DEFINE Closed(n) == \A w \in g[n] : R[w] \subseteq g[n]
  <2> DEFINE I == {n \in 0 .. N : n <= Cardinality(g[n]) \/ Closed(n)}
  <2>0. ASSUME NEW n \in 0 .. N
        PROVE  IsFiniteSet(g[n]) /\ Cardinality(g[n]) \in Nat
    BY <1>3, FS_Subset, FS_CardinalityType
  <2>1. 0 \in I
    BY <1>1, <2>0
  <2>2. ASSUME NEW n \in 0 .. N, n < N, n \in I PROVE n + 1 \in I
    <3>1. n + 1 \in 0 .. N /\ g[n + 1] = g[n] \cup UNION {R[w] : w \in g[n]}
      BY <1>4, <2>2
    <3>2. CASE Closed(n)
      <4>1. g[n + 1] = g[n]
        BY <3>1, <3>2
      <4> QED
        BY <3>1, <3>2, <4>1
    <3>3. CASE ~Closed(n)
      <4>1. PICK x \in g[n + 1] : x \notin g[n]
        BY <3>1, <3>3
      <4>2. g[n] \cup {x} \subseteq g[n + 1]
        BY <3>1, <4>1
      <4>3. /\ IsFiniteSet(g[n]) /\ Cardinality(g[n]) \in Nat
            /\ IsFiniteSet(g[n + 1]) /\ Cardinality(g[n + 1]) \in Nat
        BY <2>0, <3>1
      <4>4. Cardinality(g[n] \cup {x}) = Cardinality(g[n]) + 1
        BY <4>1, <4>3, FS_AddElement
      <4>5. Cardinality(g[n] \cup {x}) <= Cardinality(g[n + 1])
        BY <4>2, <4>3, FS_Subset
      <4>6. n <= Cardinality(g[n])
        BY <2>2, <3>3
      <4>7. n + 1 <= Cardinality(g[n + 1])
        BY <4>3, <4>4, <4>5, <4>6
      <4> QED
        BY <3>1, <4>7
    <3> QED
      BY <3>2, <3>3
  <2>3. \A n \in 0 .. N : n \in I
    <3> HIDE DEF I
    <3> QED
      BY <1>1, <2>1, <2>2, Induction
  <2>4. CASE Closed(N)
    BY <2>4
  <2>5. CASE ~Closed(N)
    <3>1. N <= Cardinality(g[N])
      BY <1>5, <2>3, <2>5
    <3>2. g[N] \subseteq U /\ Cardinality(g[N]) <= N
      BY <1>3, <1>5, FS_Subset DEF N
    <3>3. Cardinality(g[N]) = Cardinality(U)
      BY <1>1, <1>5, <2>0, <3>1, <3>2 DEF N
    <3>4. g[N] = U
      BY <3>2, <3>3, FS_Subset
    <3> QED
      BY <3>4
  <2> QED
    BY <2>4, <2>5
<1>8. ASSUME NEW T, S \subseteq T, \A w \in T \cap U : R[w] \subseteq T
      PROVE  g[N] \subseteq T
  <2> DEFINE I == {n \in 0 .. N : g[n] \subseteq T}
  <2>1. 0 \in I
    BY <1>1, <1>2, <1>8
  <2>2. ASSUME NEW n \in 0 .. N, n < N, n \in I PROVE n + 1 \in I
    <3>1. n + 1 \in 0 .. N /\ g[n + 1] = g[n] \cup UNION {R[w] : w \in g[n]}
      BY <1>4, <2>2
    <3>2. \A w \in g[n] : R[w] \subseteq T
      BY <1>3, <1>8, <2>2
    <3> QED
      BY <2>2, <3>1, <3>2
  <2>3. \A n \in 0 .. N : n \in I
    <3> HIDE DEF I
    <3> QED
      BY <1>1, <2>1, <2>2, Induction
  <2> QED
    BY <1>5, <2>3
<1>9. g[N] \subseteq U
  BY <1>3, <1>5
<1> QED
  BY <1>6, <1>7, <1>8, <1>9 DEF N, IsLeast

LEMMA CalleesValues ==
    ASSUME calls \in Programs
    PROVE  \A w : Callees(w) \subseteq Value
<1>1. calls \in [Fn -> SUBSET (Fn \cup Ext)]
  BY JitAssumption
<1> QED
  BY <1>1 DEF Callees, Value

IsLive(g) ==
    g = [n \in 0 .. Cardinality(Value) |-> IF n = 0 THEN held
            ELSE g[n - 1] \cup UNION {Callees(w) : w \in g[n - 1]}]

(* The least set of what is held and of what is called.                    *)
LEMMA LiveIs ==
    calls \in Programs /\ held \subseteq Value =>
        /\ held \subseteq Live /\ Live \subseteq Value
        /\ \A w \in Live : Callees(w) \subseteq Live
        /\ \A T : held \subseteq T /\ (\A w \in T \cap Value : Callees(w) \subseteq T)
                        => Live \subseteq T
<1> SUFFICES ASSUME calls \in Programs, held \subseteq Value
             PROVE  /\ held \subseteq Live /\ Live \subseteq Value
                    /\ \A w \in Live : Callees(w) \subseteq Live
                    /\ \A T : held \subseteq T /\ (\A w \in T \cap Value : Callees(w) \subseteq T)
                                => Live \subseteq T
  OBVIOUS
<1> DEFINE N == Cardinality(Value)
<1> DEFINE R == [w \in Value |-> Callees(w)]
<1>1. IsFiniteSet(Value) /\ N \in Nat
  BY FiniteValue
<1>2. /\ \A w \in Value : R[w] = Callees(w)
      /\ \A w \in Value : R[w] \subseteq Value
  BY CalleesValues
<1>3. held \in SUBSET Value
  OBVIOUS
<1>4. \E g : IsLive(g)
  <2> HIDE DEF R, N
  <2>1. PICK g \in [0 .. N -> SUBSET Value] : IsReach(held, R, N, g)
    <3>1. \E g \in [0 .. N -> SUBSET Value] : IsReach(held, R, N, g)
      BY <1>1, <1>2, <1>3, ReachFrom, Zenon
    <3> QED
      BY <3>1, Zenon
  <2>2. ASSUME NEW n \in 0 .. N
        PROVE  g[n] = IF n = 0 THEN held ELSE g[n - 1] \cup UNION {Callees(w) : w \in g[n - 1]}
    <3>1. g[n] = IF n = 0 THEN held ELSE g[n - 1] \cup UNION {R[w] : w \in g[n - 1]}
      BY <2>1, Zenon DEF IsReach
    <3>2. n # 0 => n - 1 \in 0 .. N
      BY <1>1
    <3>3. n # 0 => \A w \in g[n - 1] : R[w] = Callees(w)
      BY <1>2, <3>2
    <3>4. n # 0 => {R[w] : w \in g[n - 1]} = {Callees(w) : w \in g[n - 1]}
      BY <3>3
    <3> QED
      BY <3>1, <3>4
  <2>3. g = [n \in 0 .. N |-> IF n = 0 THEN held
                ELSE g[n - 1] \cup UNION {Callees(w) : w \in g[n - 1]}]
    BY <2>2, Zenon
  <2> QED
    BY <2>3 DEF N, IsLive
<1> DEFINE c == CHOOSE g : IsLive(g)
<1>5. IsLive(c)
  BY <1>4, Zenon
<1>6. Live = c[N]
  BY DEF Live, Reached, IsLive
<1> HIDE DEF c
<1>7. \A n \in 0 .. N : c[n] = IF n = 0 THEN held
            ELSE c[n - 1] \cup UNION {Callees(w) : w \in c[n - 1]}
  BY <1>5, Zenon DEF IsLive
<1>8. /\ c[0] = held
      /\ \A n \in 0 .. N : n # 0 /\ c[n - 1] \subseteq Value =>
                c[n] = c[n - 1] \cup UNION {R[w] : w \in c[n - 1]}
  <2>1. c[0] = held
    <3>1. 0 \in 0 .. N
      BY <1>1
    <3> QED
      BY <1>7, <3>1, Zenon
  <2>2. ASSUME NEW n \in 0 .. N, n # 0, c[n - 1] \subseteq Value
        PROVE  c[n] = c[n - 1] \cup UNION {R[w] : w \in c[n - 1]}
    <3>1. {R[w] : w \in c[n - 1]} = {Callees(w) : w \in c[n - 1]}
      BY <1>2, <2>2
    <3> QED
      BY <1>7, <2>2, <3>1
  <2> QED
    BY <2>1, <2>2
<1>9. /\ held \subseteq c[N] /\ c[N] \subseteq Value
      /\ \A w \in c[N] : R[w] \subseteq c[N]
      /\ \A T : held \subseteq T /\ (\A w \in T \cap Value : R[w] \subseteq T) => c[N] \subseteq T
  <2>1. \A w \in Value : R[w] \subseteq Value
    BY <1>2
  <2> HIDE DEF R
  <2>2. IsSteps(Value, held, R, c)
    BY <1>8 DEF IsSteps, N
  <2>3. IsLeast(Value, held, R, c[N])
    BY <1>1, <1>3, <2>1, <2>2, Saturates, Zenon DEF N
  <2> QED
    BY <2>3, Zenon DEF IsLeast
<1> QED
  BY <1>2, <1>6, <1>9

(* Emission goes on from what is not mapped yet.                           *)
LEMMA ReferredIs ==
    ASSUME calls \in Programs, NEW u, NEW v \in Value
    PROVE  /\ v \in Referred(u, v) /\ Referred(u, v) \subseteq Value
           /\ \A w \in Referred(u, v) \ symbols[u] : Callees(w) \subseteq Referred(u, v)
           /\ \A T : v \in T /\ (\A w \in T \cap Value : Callees(w) \subseteq T)
                        => Referred(u, v) \subseteq T
<1> DEFINE N == Cardinality(Value)
<1> DEFINE R == [w \in Value |-> (IF w \in symbols[u] THEN {} ELSE Callees(w))]
<1>1. IsFiniteSet(Value) /\ N \in Nat
  BY FiniteValue
<1>2. /\ \A w \in Value : R[w] = (IF w \in symbols[u] THEN {} ELSE Callees(w))
      /\ \A w \in Value : R[w] \subseteq Value
  BY CalleesValues
<1>3. {v} \in SUBSET Value
  OBVIOUS
<1>4. \E g : IsReferred(u, v, g)
  <2> HIDE DEF R, N
  <2>1. PICK g \in [0 .. N -> SUBSET Value] : IsReach({v}, R, N, g)
    <3>1. \E g \in [0 .. N -> SUBSET Value] : IsReach({v}, R, N, g)
      BY <1>1, <1>2, <1>3, ReachFrom, Zenon
    <3> QED
      BY <3>1, Zenon
  <2>2. ASSUME NEW n \in 0 .. N
        PROVE  g[n] = IF n = 0 THEN {v}
                      ELSE g[n - 1] \cup UNION {(IF w \in symbols[u] THEN {} ELSE Callees(w)) : w \in g[n - 1]}
    <3>1. g[n] = IF n = 0 THEN {v} ELSE g[n - 1] \cup UNION {R[w] : w \in g[n - 1]}
      BY <2>1, Zenon DEF IsReach
    <3>2. n # 0 => n - 1 \in 0 .. N
      BY <1>1
    <3>3. n # 0 => \A w \in g[n - 1] : R[w] = (IF w \in symbols[u] THEN {} ELSE Callees(w))
      BY <1>2, <3>2
    <3>4. n # 0 => {R[w] : w \in g[n - 1]} = {(IF w \in symbols[u] THEN {} ELSE Callees(w)) : w \in g[n - 1]}
      BY <3>3
    <3> QED
      BY <3>1, <3>4
  <2>3. g = [n \in 0 .. N |-> IF n = 0 THEN {v}
                ELSE g[n - 1] \cup UNION {(IF w \in symbols[u] THEN {} ELSE Callees(w)) : w \in g[n - 1]}]
    BY <2>2, Zenon
  <2> QED
    BY <2>3 DEF N, IsReferred
<1> DEFINE c == CHOOSE g : IsReferred(u, v, g)
<1>5. IsReferred(u, v, c)
  BY <1>4, Zenon
<1>6. Referred(u, v) = c[N]
  BY DEF Referred, Reached, IsReferred
<1> HIDE DEF c
<1>7. \A n \in 0 .. N : c[n] = IF n = 0 THEN {v}
            ELSE c[n - 1] \cup UNION {(IF w \in symbols[u] THEN {} ELSE Callees(w)) : w \in c[n - 1]}
  BY <1>5, Zenon DEF IsReferred
<1>8. /\ c[0] = {v}
      /\ \A n \in 0 .. N : n # 0 /\ c[n - 1] \subseteq Value =>
                c[n] = c[n - 1] \cup UNION {R[w] : w \in c[n - 1]}
  <2>1. c[0] = {v}
    <3>1. 0 \in 0 .. N
      BY <1>1
    <3> QED
      BY <1>7, <3>1, Zenon
  <2>2. ASSUME NEW n \in 0 .. N, n # 0, c[n - 1] \subseteq Value
        PROVE  c[n] = c[n - 1] \cup UNION {R[w] : w \in c[n - 1]}
    <3>1. {R[w] : w \in c[n - 1]} = {(IF w \in symbols[u] THEN {} ELSE Callees(w)) : w \in c[n - 1]}
      BY <1>2, <2>2
    <3> QED
      BY <1>7, <2>2, <3>1
  <2> QED
    BY <2>1, <2>2
<1>9. /\ {v} \subseteq c[N] /\ c[N] \subseteq Value
      /\ \A w \in c[N] : R[w] \subseteq c[N]
      /\ \A T : {v} \subseteq T /\ (\A w \in T \cap Value : R[w] \subseteq T) => c[N] \subseteq T
  <2>1. \A w \in Value : R[w] \subseteq Value
    BY <1>2
  <2> HIDE DEF R
  <2>2. IsSteps(Value, {v}, R, c)
    BY <1>8 DEF IsSteps, N
  <2>3. IsLeast(Value, {v}, R, c[N])
    BY <1>1, <1>3, <2>1, <2>2, Saturates, Zenon DEF N
  <2> QED
    BY <2>3, Zenon DEF IsLeast
<1>10. \A w \in c[N] \ symbols[u] : Callees(w) \subseteq c[N]
  BY <1>2, <1>9
<1>11. ASSUME NEW T, v \in T, \A w \in T \cap Value : Callees(w) \subseteq T
       PROVE  c[N] \subseteq T
  <2>1. {v} \subseteq T /\ \A w \in T \cap Value : R[w] \subseteq T
    BY <1>2, <1>11
  <2> QED
    BY <1>9, <2>1
<1>12. v \in c[N] /\ c[N] \subseteq Value
  BY <1>9
<1> QED
  BY <1>6, <1>10, <1>11, <1>12, Zenon

IsComponent(s, i, g) ==
    g = [n \in 0 .. Cardinality(Value) |-> IF n = 0 THEN {i}
            ELSE g[n - 1] \cup UNION {(IF ShouldCopy(s, w) THEN Links(s, w) ELSE {}) : w \in g[n - 1]}]

(* What is loaded has all it refers to that is not there yet.              *)
LEMMA ComponentIs ==
    ASSUME NEW s, NEW i \in Value,
           \A w \in s.bodies : Links(s, w) \subseteq Value
    PROVE  LET S == CopyConnectedComponent(s, i) IN
           /\ ShouldCopy(s, i) => i \in S
           /\ \A w \in S : ShouldCopy(s, w)
           /\ \A w \in S : \A x \in Links(s, w) : ShouldCopy(s, x) => x \in S
<1> DEFINE N == Cardinality(Value)
<1> DEFINE R == [w \in Value |-> (IF ShouldCopy(s, w) THEN Links(s, w) ELSE {})]
<1>1. IsFiniteSet(Value) /\ N \in Nat
  BY FiniteValue
<1>2. /\ \A w \in Value : R[w] = (IF ShouldCopy(s, w) THEN Links(s, w) ELSE {})
      /\ \A w \in Value : R[w] \subseteq Value
  BY DEF ShouldCopy
<1>3. {i} \in SUBSET Value
  OBVIOUS
<1>4. \E g : IsComponent(s, i, g)
  <2> HIDE DEF R, N
  <2>1. PICK g \in [0 .. N -> SUBSET Value] : IsReach({i}, R, N, g)
    <3>1. \E g \in [0 .. N -> SUBSET Value] : IsReach({i}, R, N, g)
      BY <1>1, <1>2, <1>3, ReachFrom, Zenon
    <3> QED
      BY <3>1, Zenon
  <2>2. ASSUME NEW n \in 0 .. N
        PROVE  g[n] = IF n = 0 THEN {i}
                      ELSE g[n - 1] \cup UNION {(IF ShouldCopy(s, w) THEN Links(s, w) ELSE {}) : w \in g[n - 1]}
    <3>1. g[n] = IF n = 0 THEN {i} ELSE g[n - 1] \cup UNION {R[w] : w \in g[n - 1]}
      BY <2>1, Zenon DEF IsReach
    <3>2. n # 0 => n - 1 \in 0 .. N
      BY <1>1
    <3>3. n # 0 => \A w \in g[n - 1] : R[w] = (IF ShouldCopy(s, w) THEN Links(s, w) ELSE {})
      BY <1>2, <3>2
    <3>4. n # 0 => {R[w] : w \in g[n - 1]} = {(IF ShouldCopy(s, w) THEN Links(s, w) ELSE {}) : w \in g[n - 1]}
      BY <3>3
    <3> QED
      BY <3>1, <3>4
  <2>3. g = [n \in 0 .. N |-> IF n = 0 THEN {i}
                ELSE g[n - 1] \cup UNION {(IF ShouldCopy(s, w) THEN Links(s, w) ELSE {}) : w \in g[n - 1]}]
    BY <2>2, Zenon
  <2> QED
    BY <2>3 DEF N, IsComponent
<1> DEFINE c == CHOOSE g : IsComponent(s, i, g)
<1>5. IsComponent(s, i, c)
  BY <1>4, Zenon
<1>6. CopyConnectedComponent(s, i) = {j \in c[N] : ShouldCopy(s, j)}
  BY DEF CopyConnectedComponent, Reached, IsComponent
<1> HIDE DEF c
<1>7. \A n \in 0 .. N : c[n] = IF n = 0 THEN {i}
            ELSE c[n - 1] \cup UNION {(IF ShouldCopy(s, w) THEN Links(s, w) ELSE {}) : w \in c[n - 1]}
  BY <1>5, Zenon DEF IsComponent
<1>8. /\ c[0] = {i}
      /\ \A n \in 0 .. N : n # 0 /\ c[n - 1] \subseteq Value =>
                c[n] = c[n - 1] \cup UNION {R[w] : w \in c[n - 1]}
  <2>1. c[0] = {i}
    <3>1. 0 \in 0 .. N
      BY <1>1
    <3> QED
      BY <1>7, <3>1, Zenon
  <2>2. ASSUME NEW n \in 0 .. N, n # 0, c[n - 1] \subseteq Value
        PROVE  c[n] = c[n - 1] \cup UNION {R[w] : w \in c[n - 1]}
    <3>1. {R[w] : w \in c[n - 1]} = {(IF ShouldCopy(s, w) THEN Links(s, w) ELSE {}) : w \in c[n - 1]}
      BY <1>2, <2>2
    <3> QED
      BY <1>7, <2>2, <3>1
  <2> QED
    BY <2>1, <2>2
<1>9. /\ {i} \subseteq c[N] /\ c[N] \subseteq Value
      /\ \A w \in c[N] : R[w] \subseteq c[N]
  <2>1. \A w \in Value : R[w] \subseteq Value
    BY <1>2
  <2> HIDE DEF R
  <2>2. IsSteps(Value, {i}, R, c)
    BY <1>8 DEF IsSteps, N
  <2>3. IsLeast(Value, {i}, R, c[N])
    BY <1>1, <1>3, <2>1, <2>2, Saturates, Zenon DEF N
  <2> QED
    BY <2>3, Zenon DEF IsLeast
<1>10. \A w \in c[N] : ShouldCopy(s, w) => Links(s, w) \subseteq c[N]
  BY <1>2, <1>9
<1> HIDE DEF R, N
<1> QED
  BY <1>6, <1>9, <1>10, Zenon
-----------------------------------------------------------------------------
(* Names in a unit are different, and of the values that are emitted no two*)
(* are one.                                                                *)
NameOK(s) ==
    /\ DOMAIN s.names \subseteq Value /\ IsInjective(s.names) /\ Range(s.names) \subseteq Name
    /\ s.bodies \subseteq DOMAIN s.names /\ DOMAIN s.func \subseteq Value
    /\ DOMAIN s.code \subseteq Name

(* What a function calls is mapped with it, and what an external function  *)
(* is mapped to never had a Terra function's name since.                   *)
LinkOK(s) ==
    /\ s.bodies \subseteq DOMAIN s.func
    /\ \A w \in DOMAIN s.func : w \in Fn => s.func[w] = w /\ Callees(w) \subseteq DOMAIN s.func
    /\ \A w \in (DOMAIN s.func) \cap Ext : s.names[s.func[w]].kind # "terra"
    /\ \A n \in DOMAIN s.code : s.code[n].of \in DOMAIN s.names

(* What is not garbage is mapped if its name is in the module, with all it *)
(* calls, and is defined.                                                  *)
LiveOK(s, S) ==
    /\ Live \cap (DOMAIN s.names \cup DOMAIN s.func) \subseteq S
    /\ \A w \in Live \cap S : Callees(w) \subseteq S /\ (w \in Fn => w \in s.bodies)

NamesOK ==
    /\ calls \in Programs /\ held \subseteq Value /\ external \subseteq Base
    /\ \A u \in Unit : /\ NameOK(cu[u]) /\ symbols[u] \subseteq DOMAIN cu[u].func
                       /\ fstates[u] # {} => Collects(u)
    /\ \A u \in cdata : LinkOK(cu[u])
    /\ state = "open" => \A u \in cdata : LiveOK(cu[u], symbols[u])

(* There are more numbers than names.                                      *)
LEMMA FreeNumbers ==
    ASSUME NEW names, DOMAIN names \subseteq Value
    PROVE  LET F == (0 .. Cardinality(Value)) \ {names[j].n : j \in DOMAIN names} IN
           /\ F \subseteq Nat /\ IsFiniteSet(F) /\ Cardinality(F) \in Nat
           /\ Cardinality(DOMAIN names) \in Nat /\ IsFiniteSet(DOMAIN names)
           /\ Cardinality(F) + Cardinality(DOMAIN names) > Cardinality(Value)
<1> DEFINE N == Cardinality(Value)
<1> DEFINE D == DOMAIN names
<1> DEFINE M == {names[j].n : j \in D}
<1> DEFINE F == (0 .. N) \ M
<1>1. IsFiniteSet(Value) /\ N \in Nat
  BY FiniteValue
<1>2. IsFiniteSet(D) /\ Cardinality(D) \in Nat
  BY <1>1, FS_Subset, FS_CardinalityType
<1>3. IsFiniteSet(M) /\ Cardinality(M) <= Cardinality(D) /\ Cardinality(M) \in Nat
  <2> DEFINE f == [j \in D |-> names[j].n]
  <2>1. f \in Surjection(D, M)
    BY DEF Surjection
  <2>2. IsFiniteSet(M) /\ Cardinality(M) <= Cardinality(D)
    <3> HIDE DEF f, M, D
    <3> QED
      BY <1>2, <2>1, FS_Surjection
  <2> QED
    BY <2>2, FS_CardinalityType
<1>4. IsFiniteSet(0 .. N) /\ Cardinality(0 .. N) = N + 1
  BY <1>1, FS_Interval
<1>5. IsFiniteSet((0 .. N) \cap M) /\ Cardinality((0 .. N) \cap M) <= Cardinality(M)
      /\ Cardinality((0 .. N) \cap M) \in Nat
  <2> HIDE DEF M
  <2> QED
    BY <1>3, FS_Subset, FS_CardinalityType
<1>6. IsFiniteSet(F) /\ Cardinality(F) = Cardinality(0 .. N) - Cardinality((0 .. N) \cap M)
      /\ Cardinality(F) \in Nat
  <2> HIDE DEF M
  <2> QED
    BY <1>4, FS_Difference, FS_CardinalityType
<1>7. Cardinality(F) + Cardinality(D) > N
  <2> HIDE DEF F, M, D, N
  <2> QED
    BY <1>1, <1>2, <1>3, <1>4, <1>5, <1>6
<1>8. F \subseteq Nat
  BY <1>1
<1> QED
  BY <1>2, <1>6, <1>7, <1>8

(* Terra functions get numbers that make their names their own.            *)
LEMMA NumberedFacts ==
    ASSUME NEW s, DOMAIN s.names \subseteq Value, NEW S, S \subseteq Value,
           S \cap DOMAIN s.names = {}
    PROVE  LET n == Numbered(s, S) IN
           /\ n \in [S -> 0 .. Cardinality(Value)]
           /\ \A v \in S : Unused(s, [kind |-> "terra", base |-> NameOf[v], n |-> n[v]])
           /\ \A v, w \in S : NameOf[v] = NameOf[w] /\ n[v] = n[w] => v = w
<1> DEFINE D == DOMAIN s.names
<1> DEFINE F == (0 .. Cardinality(Value)) \ {s.names[j].n : j \in D}
<1>1. /\ F \subseteq Nat /\ IsFiniteSet(F) /\ Cardinality(F) \in Nat
      /\ Cardinality(D) \in Nat /\ IsFiniteSet(D)
      /\ Cardinality(F) + Cardinality(D) > Cardinality(Value)
  BY FreeNumbers
<1>2. IsFiniteSet(S) /\ Cardinality(S) <= Cardinality(F)
  <2>1. IsFiniteSet(S) /\ Cardinality(S) \in Nat
    BY FiniteValue, FS_Subset, FS_CardinalityType
  <2>2. Cardinality(S \cup D) = Cardinality(S) + Cardinality(D)
    <3>1. Cardinality(S \cap D) = 0
      BY FS_EmptySet
    <3>2. Cardinality(S \cup D) = Cardinality(S) + Cardinality(D) - Cardinality(S \cap D)
      BY <1>1, <2>1, FS_Union
    <3> QED
      BY <1>1, <2>1, <3>1, <3>2
  <2>3. Cardinality(S \cup D) <= Cardinality(Value)
    BY FiniteValue, FS_Subset
  <2> HIDE DEF F, D
  <2> QED
    BY <1>1, <2>1, <2>2, <2>3, FiniteValue
<1>3. PICK f \in Injection(S, Lowest(F, Cardinality(S))) : TRUE
  <2>1. Injection(S, Lowest(F, Cardinality(S))) # {}
    <3> HIDE DEF F
    <3> QED
      BY <1>1, <1>2, InjectionInto
  <2> QED
    BY <2>1
<1>4. f \in [S -> F] /\ \A v, w \in S : f[v] = f[w] => v = w
  <2> HIDE DEF F
  <2>1. Lowest(F, Cardinality(S)) \subseteq F
    BY DEF Lowest
  <2> QED
    BY <1>3, <2>1 DEF Injection, IsInjective
<1>5. f \in [S -> 0 .. Cardinality(Value)]
  BY <1>4
<1>6. \A v \in S : Unused(s, [kind |-> "terra", base |-> NameOf[v], n |-> f[v]])
  <2> SUFFICES ASSUME NEW v \in S, NEW j \in DOMAIN s.names,
                      s.names[j] = [kind |-> "terra", base |-> NameOf[v], n |-> f[v]]
               PROVE  FALSE
    BY DEF Unused, Holders
  <2>1. f[v] \in F
    BY <1>4
  <2>2. s.names[j].n = f[v]
    OBVIOUS
  <2> QED
    BY <2>1, <2>2
<1>7. \E n \in [S -> 0 .. Cardinality(Value)] :
        /\ \A v \in S : Unused(s, [kind |-> "terra", base |-> NameOf[v], n |-> n[v]])
        /\ \A v, w \in S : NameOf[v] = NameOf[w] /\ n[v] = n[w] => v = w
  BY <1>4, <1>5, <1>6, Zenon
<1> QED
  BY <1>7, Zenon DEF Numbered

LEMMA RenamedFacts ==
    ASSUME NEW s, DOMAIN s.names \subseteq Value, NEW name
    PROVE  \E n \in Nat :
            /\ Renamed(s, name) = [kind |-> "renamed", base |-> name, n |-> n]
            /\ \A j \in DOMAIN s.names : s.names[j] # Renamed(s, name)
<1> DEFINE F == (0 .. Cardinality(Value)) \ {s.names[j].n : j \in DOMAIN s.names}
<1> DEFINE free == {n \in 0 .. Cardinality(Value) :
                        Unused(s, [kind |-> "renamed", base |-> name, n |-> n])}
<1>1. F # {}
  <2>1. /\ Cardinality(F) \in Nat /\ Cardinality(DOMAIN s.names) \in Nat
        /\ Cardinality(F) + Cardinality(DOMAIN s.names) > Cardinality(Value)
    BY FreeNumbers
  <2>2. Cardinality(DOMAIN s.names) <= Cardinality(Value)
    BY FiniteValue, FS_Subset
  <2>3. Cardinality(F) # 0
    <3> HIDE DEF F
    <3> QED
      BY <2>1, <2>2, FiniteValue
  <2> HIDE DEF F
  <2> QED
    BY <2>3, FS_EmptySet
<1>2. F \subseteq free
  BY DEF Unused, Holders
<1>3. free \subseteq Nat /\ free # {}
  BY <1>1, <1>2, FiniteValue
<1>4. Min(free) \in free
  <2>1. \E x \in free : \A y \in free : x <= y
    <3> HIDE DEF free
    <3> QED
      BY <1>3, NatMin
  <2> HIDE DEF free
  <2> QED
    BY <2>1, Zenon DEF Min
<1>5. Renamed(s, name) = [kind |-> "renamed", base |-> name, n |-> Min(free)]
  BY DEF Renamed
<1>6. Unused(s, Renamed(s, name)) /\ Min(free) \in Nat
  BY <1>3, <1>4, <1>5
<1> QED
  BY <1>5, <1>6 DEF Unused, Holders

LEMMA RenameKeeps ==
    ASSUME NEW s, DOMAIN s.names \subseteq Value, IsInjective(s.names),
           Range(s.names) \subseteq Name, NEW name \in Base, NEW i \in DOMAIN s.names
    PROVE  LET r == Rename(s, name, i) IN
           /\ DOMAIN r = DOMAIN s.names /\ IsInjective(r) /\ Range(r) \subseteq Name
           /\ \A j \in DOMAIN r : r[j].kind = "terra" => s.names[j].kind = "terra"
<1> DEFINE r == Rename(s, name, i)
<1> DEFINE D == DOMAIN s.names
<1> DEFINE c == CName(name)
<1> DEFINE m == Renamed(s, name)
<1>1. PICK n \in Nat : /\ m = [kind |-> "renamed", base |-> name, n |-> n]
                       /\ \A j \in D : s.names[j] # m
  BY RenamedFacts
<1>2. DOMAIN r = D
  BY DEF Rename
<1>3. /\ r[i] = c
      /\ \A j \in D \ {i} : s.names[j] = c => r[j] = m
      /\ \A j \in D \ {i} : s.names[j] # c => r[j] = s.names[j]
  BY DEF Rename, Holders
<1>4. /\ m \in Name /\ c \in Name /\ c # m /\ m.kind # "terra" /\ c.kind # "terra"
  BY <1>1 DEF CName, Name
<1>5. \A j, k \in D : s.names[j] = s.names[k] => j = k
  BY DEF IsInjective
<1>6. \A j \in D : s.names[j] \in Name
  BY DEF Range
<1> HIDE DEF r, c, m
<1>7. \A j, k \in D : r[j] = r[k] => j = k
  <2> SUFFICES ASSUME NEW j \in D, NEW k \in D, r[j] = r[k] PROVE j = k
    OBVIOUS
  <2>1. CASE j = i \/ k = i
    BY <1>1, <1>3, <1>4, <2>1
  <2>2. CASE j # i /\ k # i
    BY <1>1, <1>3, <1>5, <2>2
  <2> QED
    BY <2>1, <2>2
<1>8. \A j \in D : r[j] \in Name
  BY <1>3, <1>4, <1>6
<1>9. \A j \in D : r[j].kind = "terra" => s.names[j].kind = "terra"
  BY <1>3, <1>4
<1>10. IsInjective(r) /\ Range(r) \subseteq Name
  BY <1>2, <1>7, <1>8 DEF IsInjective, Range
<1> QED
  BY <1>2, <1>9, <1>10 DEF r

LEMMA MergeInjective ==
    ASSUME NEW f, NEW g, IsInjective(f), IsInjective(g),
           Range(f) \subseteq Name, Range(g) \subseteq Name,
           (DOMAIN f) \cap DOMAIN g = {}, \A x \in DOMAIN f, y \in DOMAIN g : f[x] # g[y]
    PROVE  IsInjective(Merge(f, g)) /\ Range(Merge(f, g)) \subseteq Name
<1> DEFINE h == Merge(f, g)
<1>1. /\ DOMAIN h = (DOMAIN f) \cup DOMAIN g
      /\ \A x \in DOMAIN f : h[x] = f[x]
      /\ \A x \in DOMAIN g : h[x] = g[x]
  BY DEF Merge
<1> HIDE DEF h
<1>2. \A x \in DOMAIN f : f[x] \in Name
  BY DEF Range
<1>3. \A x \in DOMAIN g : g[x] \in Name
  BY DEF Range
<1>4. Range(h) \subseteq Name
  BY <1>1, <1>2, <1>3 DEF Range
<1>5. IsInjective(h)
  BY <1>1 DEF IsInjective
<1> QED
  BY <1>4, <1>5 DEF h

(* An external function is what has its name, or new.                      *)
LEMMA ExternIs ==
    ASSUME NEW s, NEW new \in SUBSET Value, NEW e \in new, e \notin Fn
    PROVE  LET x == Extern(s, new, e) IN
           \/ x \in DOMAIN s.names /\ s.names[x] = CName(NameOf[e])
           \/ /\ x \in Created(s, new) \cap Ext /\ NameOf[x] = NameOf[e]
              /\ Holders(s, CName(NameOf[e])) = {}
<1> DEFINE found == Holders(s, CName(NameOf[e]))
<1> DEFINE same == {w \in new \cap Ext : NameOf[w] = NameOf[e]}
<1>1. e \in same
  BY DEF Value
<1>2. CASE found # {}
  <2>1. Extern(s, new, e) = The(found)
    BY <1>2 DEF Extern
  <2>2. The(found) \in found
    BY <1>2 DEF The
  <2> QED
    BY <2>1, <2>2 DEF Holders
<1>3. CASE found = {}
  <2>1. Extern(s, new, e) = The(same)
    BY <1>3 DEF Extern
  <2>2. The(same) \in same
    BY <1>1 DEF The
  <2> DEFINE k == The(same)
  <2>3. k \in new \cap Ext /\ NameOf[k] = NameOf[e]
    BY <2>2
  <2>4. Extern(s, new, k) = Extern(s, new, e)
    <3> HIDE DEF k
    <3> QED
      BY <2>3 DEF Extern
  <2>5. k \in Created(s, new) \cap Ext
    <3>1. Extern(s, new, k) = k
      BY <2>1, <2>4
    <3> HIDE DEF k
    <3> QED
      BY <2>3, <3>1 DEF Created
  <2> QED
    BY <1>3, <2>1, <2>3, <2>5
<1> QED
  BY <1>2, <1>3

LEMMA NewNamesFacts ==
    ASSUME NEW u, NEW v, DOMAIN cu[u].names \subseteq Value,
           New(u, v) \cap DOMAIN cu[u].names = {}
    PROVE  LET g == NewNames(u, v) IN
           /\ DOMAIN g = Created(cu[u], New(u, v))
           /\ IsInjective(g) /\ Range(g) \subseteq Name
           /\ \A x \in DOMAIN cu[u].names, y \in DOMAIN g : cu[u].names[x] # g[y]
           /\ \A w \in (DOMAIN g) \cap Ext : g[w] = CName(NameOf[w])
<1> DEFINE s == cu[u]
<1> DEFINE new == New(u, v)
<1> DEFINE C == Created(s, new)
<1> DEFINE number == Numbered(s, C \cap Fn)
<1> DEFINE g == NewNames(u, v)
<1>1. new \in SUBSET Value
  BY DEF New
<1>2. C \subseteq new
  BY DEF Created
<1>3. DOMAIN g = C
  BY DEF NewNames
<1>4. /\ \A w \in C \cap Fn : g[w] = [kind |-> "terra", base |-> NameOf[w], n |-> number[w]]
      /\ \A w \in C \ Fn : g[w] = CName(NameOf[w])
  BY DEF NewNames
<1>5. /\ number \in [C \cap Fn -> 0 .. Cardinality(Value)]
      /\ \A w \in C \cap Fn : Unused(s, [kind |-> "terra", base |-> NameOf[w], n |-> number[w]])
      /\ \A w, x \in C \cap Fn : NameOf[w] = NameOf[x] /\ number[w] = number[x] => w = x
  <2>1. C \cap Fn \subseteq Value /\ (C \cap Fn) \cap DOMAIN s.names = {}
    BY <1>1, <1>2
  <2> HIDE DEF C
  <2> QED
    BY <2>1, NumberedFacts
<1> HIDE DEF number, g
<1>6. \A w \in C : NameOf[w] \in Base
  BY <1>1, <1>2, JitAssumption DEF Value
<1>7. \A w \in C \ Fn : Extern(s, new, w) = w
  BY DEF Created
<1>8. ASSUME NEW w \in C \ Fn
      PROVE  Holders(s, CName(NameOf[w])) = {}
  <2>1. w \in new /\ w \notin Fn /\ Extern(s, new, w) = w /\ w \notin DOMAIN s.names
    BY <1>2, <1>7
  <2> HIDE DEF new, C, s
  <2>2. \/ Extern(s, new, w) \in DOMAIN s.names /\ s.names[Extern(s, new, w)] = CName(NameOf[w])
        \/ /\ Extern(s, new, w) \in Created(s, new) \cap Ext
           /\ NameOf[Extern(s, new, w)] = NameOf[w]
           /\ Holders(s, CName(NameOf[w])) = {}
    BY <1>1, <2>1, ExternIs, Zenon
  <2> QED
    BY <2>1, <2>2, Zenon
<1>9. ASSUME NEW w \in C \ Fn, NEW x \in C \ Fn, NameOf[w] = NameOf[x]
      PROVE  w = x
  <2>1. Extern(s, new, w) = Extern(s, new, x)
    BY <1>9 DEF Extern
  <2> QED
    BY <1>7, <2>1
<1> HIDE DEF C, new, s
<1>15. \A w \in C \cap Fn : /\ g[w].kind = "terra" /\ g[w].base = NameOf[w]
                            /\ g[w].n = number[w]
  <2> SUFFICES ASSUME NEW w \in C \cap Fn
               PROVE  g[w].kind = "terra" /\ g[w].base = NameOf[w] /\ g[w].n = number[w]
    OBVIOUS
  <2>1. g[w] = [kind |-> "terra", base |-> NameOf[w], n |-> number[w]]
    BY <1>4, Zenon
  <2> QED
    BY <2>1
<1>16. \A w \in C \ Fn : g[w].kind = "c" /\ g[w].base = NameOf[w]
  <2> SUFFICES ASSUME NEW w \in C \ Fn
               PROVE  g[w].kind = "c" /\ g[w].base = NameOf[w]
    OBVIOUS
  <2>1. g[w] = CName(NameOf[w])
    BY <1>4, Zenon
  <2> QED
    BY <2>1 DEF CName
<1>10. \A w \in C : g[w] \in Name
  <2> SUFFICES ASSUME NEW w \in C PROVE g[w] \in Name
    OBVIOUS
  <2>1. CASE w \in Fn
    <3>1. number[w] \in Nat
      <4>1. w \in C \cap Fn
        BY <2>1
      <4>2. number[w] \in 0 .. Cardinality(Value)
        BY <1>5, <4>1
      <4> QED
        BY <4>2, FiniteValue
    <3>2. g[w] = [kind |-> "terra", base |-> NameOf[w], n |-> number[w]]
      BY <1>4, <2>1
    <3> QED
      BY <1>6, <3>1, <3>2 DEF Name
  <2>2. CASE w \notin Fn
    <3>1. g[w] = CName(NameOf[w])
      BY <1>4, <2>2
    <3> QED
      BY <1>6, <3>1 DEF Name, CName
  <2> QED
    BY <2>1, <2>2
<1>11. ASSUME NEW w \in C, NEW x \in C, g[w] = g[x]
       PROVE  w = x
  <2>1. CASE w \in Fn /\ x \in Fn
    <3>1. NameOf[w] = NameOf[x] /\ number[w] = number[x]
      BY <1>11, <1>15, <2>1
    <3> QED
      BY <1>5, <2>1, <3>1
  <2>2. CASE w \notin Fn /\ x \notin Fn
    <3>1. NameOf[w] = NameOf[x]
      BY <1>11, <1>16, <2>2
    <3> QED
      BY <1>9, <2>2, <3>1
  <2>3. CASE ~(w \in Fn <=> x \in Fn)
    BY <1>11, <1>15, <1>16, <2>3
  <2> QED
    BY <2>1, <2>2, <2>3
<1>12. \A x \in DOMAIN s.names, y \in C : s.names[x] # g[y]
  <2> SUFFICES ASSUME NEW x \in DOMAIN s.names, NEW y \in C PROVE s.names[x] # g[y]
    OBVIOUS
  <2>1. CASE y \in Fn
    BY <1>4, <1>5, <2>1 DEF Unused, Holders
  <2>2. CASE y \notin Fn
    BY <1>4, <1>8, <2>2 DEF Holders
  <2> QED
    BY <2>1, <2>2
<1>13. IsInjective(g) /\ Range(g) \subseteq Name
  BY <1>3, <1>10, <1>11 DEF IsInjective, Range, C
<1>14. \A w \in C \cap Ext : g[w] = CName(NameOf[w])
  BY <1>4, JitAssumption
<1> QED
  BY <1>3, <1>12, <1>13, <1>14 DEF g, s, C, new

LEMMA EmitNames ==
    ASSUME ModulesOK, NamesOK, state = "open", NEW u \in Unit, u \in cdata, NEW v \in Live
    PROVE  LET s == Emit(u, v)
               S == symbols[u] \cup New(u, v)
           IN  /\ NameOK(s) /\ LinkOK(s) /\ LiveOK(s, S) /\ S \subseteq DOMAIN s.func
               /\ s.code = cu[u].code
<1> DEFINE o == cu[u]
<1> DEFINE new == New(u, v)
<1> DEFINE C == Created(o, new)
<1> DEFINE S == symbols[u] \cup new
<1>1. /\ DOMAIN o = DOMAIN NewUnit /\ FuncOK(o)
      /\ NameOK(o) /\ LinkOK(o) /\ LiveOK(o, symbols[u])
      /\ symbols[u] \subseteq DOMAIN o.func /\ calls \in Programs /\ held \subseteq Value
  BY DEF ModulesOK, NamesOK
<1>2. /\ held \subseteq Live /\ Live \subseteq Value
      /\ \A w \in Live : Callees(w) \subseteq Live
  BY <1>1, LiveIs
<1>3. /\ v \in Value
      /\ Referred(u, v) \subseteq Value
      /\ \A w \in Referred(u, v) \ symbols[u] : Callees(w) \subseteq Referred(u, v)
      /\ Referred(u, v) \subseteq Live
  <2>1. v \in Value
    BY <1>2
  <2>2. /\ Referred(u, v) \subseteq Value
        /\ \A w \in Referred(u, v) \ symbols[u] : Callees(w) \subseteq Referred(u, v)
        /\ \A T : v \in T /\ (\A w \in T \cap Value : Callees(w) \subseteq T)
                        => Referred(u, v) \subseteq T
    BY <1>1, <2>1, ReferredIs
  <2>3. Referred(u, v) \subseteq Live
    BY <1>2, <2>2
  <2> QED
    BY <2>1, <2>2, <2>3
<1>4. /\ new \subseteq Value /\ new \subseteq Live /\ new \cap symbols[u] = {}
      /\ Referred(u, v) \subseteq S
  BY <1>3 DEF New
<1>5. C \subseteq new
  BY DEF Created
<1>6. new \cap DOMAIN o.names = {} /\ new \cap DOMAIN o.func = {}
  BY <1>1, <1>4 DEF LiveOK
<1>7. \A w \in new : Callees(w) \subseteq S
  <2>1. new \subseteq Referred(u, v) \ symbols[u]
    BY DEF New
  <2> QED
    BY <1>3, <1>4, <2>1
<1> DEFINE s == Emit(u, v)
<1>8. /\ DOMAIN s = DOMAIN NewUnit
      /\ s.func = Merge(o.func, NewFuncs(u, v))
      /\ s.names = Merge(o.names, NewNames(u, v))
  BY <1>1, EmitFields
<1>9. s.code = o.code /\ s.bodies = o.bodies \cup (C \cap Fn) \cup Copied(o, new)
  <2>1. DOMAIN o = {"func", "names", "bodies", "exported", "asked", "code"}
    BY <1>1 DEF NewUnit
  <2> QED
    BY <2>1 DEF Emit
<1>10. FuncOK(s)
  BY <1>3, EmitFacts
<1>11. Copied(o, new) \subseteq C
  BY DEF Copied
<1>12. /\ DOMAIN NewNames(u, v) = C
       /\ IsInjective(NewNames(u, v)) /\ Range(NewNames(u, v)) \subseteq Name
       /\ \A x \in DOMAIN o.names, y \in C : o.names[x] # NewNames(u, v)[y]
       /\ \A w \in C \cap Ext : NewNames(u, v)[w] = CName(NameOf[w])
  <2>1. DOMAIN cu[u].names \subseteq Value
    BY <1>1 DEF NameOK
  <2> QED
    BY <1>6, <2>1, NewNamesFacts
<1>13. /\ DOMAIN NewFuncs(u, v) = new
       /\ \A w \in new : NewFuncs(u, v)[w] = IF w \in Fn THEN w ELSE Extern(o, new, w)
  BY DEF NewFuncs
<1> HIDE DEF s, o, new, C
<1>14. /\ DOMAIN s.func = (DOMAIN o.func) \cup new
       /\ \A w \in DOMAIN o.func : s.func[w] = o.func[w]
       /\ \A w \in new : s.func[w] = IF w \in Fn THEN w ELSE Extern(o, new, w)
  <2>1. LET f == o.func
            g == NewFuncs(u, v)
        IN  /\ DOMAIN Merge(f, g) = (DOMAIN f) \cup DOMAIN g
            /\ \A x \in DOMAIN f : Merge(f, g)[x] = f[x]
            /\ \A x \in (DOMAIN g) \ DOMAIN f : Merge(f, g)[x] = g[x]
    BY Merged, Zenon
  <2> QED
    BY <1>6, <1>8, <1>13, <2>1
<1>15. /\ DOMAIN s.names = (DOMAIN o.names) \cup C
       /\ \A w \in DOMAIN o.names : s.names[w] = o.names[w]
       /\ \A w \in C : s.names[w] = NewNames(u, v)[w]
  <2>1. LET f == o.names
            g == NewNames(u, v)
        IN  /\ DOMAIN Merge(f, g) = (DOMAIN f) \cup DOMAIN g
            /\ \A x \in DOMAIN f : Merge(f, g)[x] = f[x]
            /\ \A x \in (DOMAIN g) \ DOMAIN f : Merge(f, g)[x] = g[x]
    BY Merged, Zenon
  <2> QED
    BY <1>5, <1>6, <1>8, <1>12, <2>1
<1>16. IsInjective(s.names) /\ Range(s.names) \subseteq Name
  <2>1. IsInjective(o.names) /\ Range(o.names) \subseteq Name
    BY <1>1 DEF NameOK
  <2>2. (DOMAIN o.names) \cap DOMAIN NewNames(u, v) = {}
    BY <1>5, <1>6, <1>12
  <2> QED
    BY <1>8, <1>12, <2>1, <2>2, MergeInjective
<1>17. NameOK(s)
  BY <1>1, <1>4, <1>5, <1>9, <1>11, <1>14, <1>15, <1>16 DEF NameOK
<1>18. S \subseteq DOMAIN s.func
  BY <1>1, <1>14
<1>19. LinkOK(s)
  <2>1. s.bodies \subseteq DOMAIN s.func
    BY <1>1, <1>5, <1>9, <1>11, <1>14 DEF LinkOK
  <2>2. ASSUME NEW w \in DOMAIN s.func, w \in Fn
        PROVE  s.func[w] = w /\ Callees(w) \subseteq DOMAIN s.func
    <3>1. CASE w \in new
      BY <1>7, <1>14, <1>18, <2>2, <3>1
    <3>2. CASE w \notin new
      BY <1>1, <1>14, <2>2, <3>2 DEF LinkOK
    <3> QED
      BY <3>1, <3>2
  <2>3. ASSUME NEW w \in (DOMAIN s.func) \cap Ext
        PROVE  s.names[s.func[w]].kind # "terra"
    <3>1. CASE w \in DOMAIN o.func
      <4>1. s.func[w] = o.func[w] /\ o.func[w] \in DOMAIN o.names
        BY <1>1, <1>14, <3>1 DEF FuncOK
      <4> QED
        BY <1>1, <1>15, <2>3, <3>1, <4>1 DEF LinkOK
    <3>2. CASE w \notin DOMAIN o.func
      <4>1. w \in new /\ w \notin Fn
        BY <1>14, <3>2, JitAssumption
      <4>2. s.func[w] = Extern(o, new, w)
        BY <1>14, <4>1
      <4>3. \/ s.func[w] \in DOMAIN o.names /\ o.names[s.func[w]] = CName(NameOf[w])
            \/ s.func[w] \in C \cap Ext /\ NameOf[s.func[w]] = NameOf[w]
        BY <1>4, <4>1, <4>2, ExternIs DEF C
      <4>4. s.names[s.func[w]] = CName(NameOf[w])
        BY <1>12, <1>15, <4>3
      <4> QED
        BY <4>4 DEF CName
    <3> QED
      BY <3>1, <3>2
  <2>4. \A n \in DOMAIN s.code : s.code[n].of \in DOMAIN s.names
    BY <1>1, <1>9, <1>15 DEF LinkOK
  <2> QED
    BY <2>1, <2>2, <2>3, <2>4 DEF LinkOK
<1>20. LiveOK(s, S)
  <2>1. Live \cap (DOMAIN s.names \cup DOMAIN s.func) \subseteq S
    BY <1>1, <1>5, <1>14, <1>15 DEF LiveOK
  <2>2. ASSUME NEW w \in Live \cap S
        PROVE  Callees(w) \subseteq S /\ (w \in Fn => w \in s.bodies)
    <3>1. CASE w \in symbols[u]
      BY <1>1, <1>9, <2>2, <3>1 DEF LiveOK
    <3>2. CASE w \in new
      <4>1. w \in Fn => w \in C
        BY <3>2 DEF C, Created
      <4> QED
        BY <1>7, <1>9, <3>2, <4>1
    <3> QED
      BY <2>2, <3>1, <3>2
  <2> QED
    BY <2>1, <2>2 DEF LiveOK
<1> QED
  BY <1>9, <1>17, <1>18, <1>19, <1>20 DEF s, o, new

LEMMA AddNames ==
    ASSUME ModulesOK, NamesOK, state = "open", NEW u \in Unit, u \in cdata, NEW v \in Live,
           NEW names, names = {} \/ \E b \in Exports : names = {b}
    PROVE  LET t == AddValue(u, names, v)
               S == symbols[u] \cup New(u, v)
           IN  /\ DOMAIN t = DOMAIN NewUnit /\ FuncOK(t)
               /\ NameOK(t) /\ LinkOK(t) /\ LiveOK(t, S) /\ S \subseteq DOMAIN t.func
               /\ v \in S /\ t.code = cu[u].code
<1> DEFINE s == Emit(u, v)
<1> DEFINE S == symbols[u] \cup New(u, v)
<1> DEFINE i == s.func[v]
<1> DEFINE t == [s EXCEPT !.exported = @ \cup {i}]
<1> DEFINE r == [t EXCEPT !.names = Rename(t, The(names), i), !.asked = @ \cup {<<The(names), i>>}]
<1> DEFINE a == AddValue(u, names, v)
<1>1. a = IF names = {} THEN t ELSE r
  BY DEF AddValue
<1>2. v \in Value
  BY LiveIs DEF NamesOK
<1>3. /\ NameOK(s) /\ LinkOK(s) /\ LiveOK(s, S) /\ S \subseteq DOMAIN s.func
      /\ s.code = cu[u].code
  BY EmitNames
<1>4. v \in S
  BY <1>2, ReferredSelf DEF New
<1>5. DOMAIN s = DOMAIN NewUnit /\ FuncOK(s) /\ AskedOK(s) /\ v \in DOMAIN s.func
  BY <1>2, <1>3, <1>4, EmitFacts
<1>6. DOMAIN a = DOMAIN NewUnit /\ FuncOK(a)
  BY <1>5, AddFacts
<1>7. i \in DOMAIN s.names
  BY <1>5 DEF FuncOK
<1>8. DOMAIN s = {"func", "names", "bodies", "exported", "asked", "code"}
  BY <1>5 DEF NewUnit
<1> HIDE DEF s, S, a
<1>9. /\ DOMAIN t = DOMAIN s /\ t.func = s.func /\ t.names = s.names
      /\ t.bodies = s.bodies /\ t.code = s.code
  BY <1>8
<1> HIDE DEF i, t
<1>10. /\ r.func = s.func /\ r.names = Rename(t, The(names), i)
       /\ r.bodies = s.bodies /\ r.code = s.code
  BY <1>8, <1>9
<1> HIDE DEF r
<1>11. CASE names = {}
  <2>1. a = t
    BY <1>1, <1>11
  <2>2. NameOK(t) /\ LinkOK(t) /\ LiveOK(t, S) /\ S \subseteq DOMAIN t.func
    BY <1>3, <1>9 DEF NameOK, LinkOK, LiveOK
  <2> QED
    BY <1>3, <1>4, <1>6, <1>9, <2>1, <2>2 DEF a, S
<1>12. CASE names # {}
  <2>1. a = r
    BY <1>1, <1>12
  <2>2. The(names) \in Base
    BY <1>12, JitAssumption DEF The
  <2>3. /\ DOMAIN r.names = DOMAIN s.names /\ IsInjective(r.names) /\ Range(r.names) \subseteq Name
        /\ \A j \in DOMAIN s.names : r.names[j].kind = "terra" => s.names[j].kind = "terra"
    <3>1. DOMAIN t.names \subseteq Value /\ IsInjective(t.names) /\ Range(t.names) \subseteq Name
          /\ i \in DOMAIN t.names
      BY <1>3, <1>7, <1>9 DEF NameOK
    <3>2. LET n == Rename(t, The(names), i) IN
          /\ DOMAIN n = DOMAIN t.names /\ IsInjective(n) /\ Range(n) \subseteq Name
          /\ \A j \in DOMAIN n : n[j].kind = "terra" => t.names[j].kind = "terra"
      BY <2>2, <3>1, RenameKeeps
    <3> QED
      BY <1>9, <1>10, <3>2
  <2>4. NameOK(r)
    BY <1>3, <1>10, <2>3 DEF NameOK
  <2>5. LinkOK(r)
    <3>1. \A w \in (DOMAIN s.func) \cap Ext : r.names[s.func[w]].kind # "terra"
      <4> SUFFICES ASSUME NEW w \in (DOMAIN s.func) \cap Ext
                   PROVE  r.names[s.func[w]].kind # "terra"
        OBVIOUS
      <4>1. s.func[w] \in DOMAIN s.names /\ s.names[s.func[w]].kind # "terra"
        BY <1>3, <1>5 DEF LinkOK, FuncOK
      <4> QED
        BY <2>3, <4>1
    <3> QED
      BY <1>3, <1>10, <2>3, <3>1 DEF LinkOK
  <2>6. LiveOK(r, S)
    BY <1>3, <1>10, <2>3 DEF LiveOK
  <2> QED
    BY <1>3, <1>4, <1>6, <1>10, <2>1, <2>4, <2>5, <2>6 DEF a, S
<1> QED
  BY <1>11, <1>12

(* Loaded code is that of the value, and calls what names stand for.       *)
IsLoaded(s, S, code) ==
    /\ DOMAIN code = (DOMAIN s.code) \cup {s.names[i] : i \in S}
    /\ \A n \in DOMAIN s.code : code[n] = s.code[n]
    /\ \A i \in S : /\ code[s.names[i]].of = i
                    /\ code[s.names[i]].calls =
                            [c \in Links(s, i) |-> Lookup(code, s.names[c])]

LEMMA AddModuleLinks ==
    ASSUME CodeOK, ops < MaxOps, NEW s, NameOK(s), NEW S, S \subseteq s.bodies,
           \A i \in S : s.names[i] \notin DOMAIN s.code
    PROVE  IsLoaded(s, S, AddModule(s, S))
<1> DEFINE N == {s.names[i] : i \in S}
<1> DEFINE at == Placed(N)
<1> DEFINE new == [n \in DOMAIN at |->
                    [of |-> The(Holders(s, n)), addr |-> at[n], calls |-> <<>>]]
<1> DEFINE all == Merge(s.code, new)
<1> DEFINE code == AddModule(s, S)
<1>0. S \subseteq DOMAIN s.names /\ S \subseteq Value
  BY DEF NameOK
<1>1. IsFiniteSet(N) /\ Cardinality(N) <= Cardinality(Value)
  <2>1. IsFiniteSet(S) /\ Cardinality(S) <= Cardinality(Value) /\ Cardinality(S) \in Nat
    <3>1. IsFiniteSet(S) /\ Cardinality(S) <= Cardinality(Value)
      BY <1>0, FiniteValue, FS_Subset
    <3> QED
      BY <3>1, FS_CardinalityType
  <2> DEFINE f == [i \in S |-> s.names[i]]
  <2>2. f \in Surjection(S, N)
    BY DEF Surjection
  <2>3. IsFiniteSet(N) /\ Cardinality(N) <= Cardinality(S)
    <3> HIDE DEF f, N
    <3> QED
      BY <2>1, <2>2, FS_Surjection
  <2>4. Cardinality(N) \in Nat /\ Cardinality(Value) \in Nat
    BY <2>3, FS_CardinalityType, FiniteValue
  <2> QED
    BY <2>1, <2>3, <2>4
<1>2. N \cap DOMAIN s.code = {}
  OBVIOUS
<1>3. \A i \in S : s.names[i] \in N
  OBVIOUS
<1>4. \A i \in S : The(Holders(s, s.names[i])) = i
  <2> SUFFICES ASSUME NEW i \in S PROVE The(Holders(s, s.names[i])) = i
    OBVIOUS
  <2>1. Holders(s, s.names[i]) = {i}
    BY <1>0 DEF NameOK, IsInjective, Holders
  <2> QED
    BY <2>1 DEF The
<1> HIDE DEF N
<1>5. DOMAIN at = N
  <2>1. at \in Injection(N, FreeAddr)
    BY <1>1, PlacedApart
  <2> HIDE DEF at
  <2> QED
    BY <2>1 DEF Injection
<1> HIDE DEF at
<1>6. DOMAIN new = N /\ \A n \in N : new[n].of = The(Holders(s, n)) /\ DOMAIN new[n] = {"of", "addr", "calls"}
  BY <1>5
<1> HIDE DEF new
<1>7. /\ DOMAIN all = (DOMAIN s.code) \cup N
      /\ \A n \in DOMAIN s.code : all[n] = s.code[n]
      /\ \A n \in N : all[n] = new[n]
  <2>1. LET f == s.code
            g == new
        IN  /\ DOMAIN Merge(f, g) = (DOMAIN f) \cup DOMAIN g
            /\ \A x \in DOMAIN f : Merge(f, g)[x] = f[x]
            /\ \A x \in (DOMAIN g) \ DOMAIN f : Merge(f, g)[x] = g[x]
    BY Merged, Zenon
  <2> QED
    BY <1>2, <1>6, <2>1
<1>8. code = [n \in DOMAIN all |->
                    IF n \in DOMAIN s.code THEN all[n]
                    ELSE [all[n] EXCEPT !.calls =
                            [c \in Links(s, all[n].of) |-> Lookup(all, s.names[c])]]]
  BY DEF AddModule, at, new, N
<1> HIDE DEF all, code
<1>9. /\ DOMAIN code = (DOMAIN s.code) \cup N
      /\ \A n \in DOMAIN s.code : code[n] = s.code[n]
  BY <1>7, <1>8
<1>10. ASSUME NEW n \in N
       PROVE  /\ code[n].of = all[n].of
              /\ code[n].calls = [c \in Links(s, all[n].of) |-> Lookup(all, s.names[c])]
  <2>1. code[n] = [all[n] EXCEPT !.calls =
                        [c \in Links(s, all[n].of) |-> Lookup(all, s.names[c])]]
    BY <1>2, <1>7, <1>8
  <2>2. DOMAIN all[n] = {"of", "addr", "calls"}
    BY <1>6, <1>7
  <2> QED
    BY <2>1, <2>2
<1>11. \A n : Lookup(all, n) = Lookup(code, n)
  <2> SUFFICES ASSUME NEW n PROVE Lookup(all, n) = Lookup(code, n)
    OBVIOUS
  <2>1. CASE n \in DOMAIN s.code
    BY <1>7, <1>9, <2>1 DEF Lookup
  <2>2. CASE n \in N
    BY <1>7, <1>9, <1>10, <2>2 DEF Lookup
  <2>3. CASE n \notin DOMAIN all
    BY <1>7, <1>9, <2>3 DEF Lookup
  <2> QED
    BY <1>7, <2>1, <2>2, <2>3
<1>12. ASSUME NEW i \in S
       PROVE  /\ code[s.names[i]].of = i
              /\ code[s.names[i]].calls = [c \in Links(s, i) |-> Lookup(code, s.names[c])]
  <2>1. all[s.names[i]].of = i
    BY <1>3, <1>4, <1>6, <1>7
  <2> QED
    BY <1>3, <1>10, <1>11, <2>1
<1> QED
  BY <1>9, <1>12 DEF code, N, IsLoaded

LEMMA LinksThere ==
    ASSUME NEW s, LinkOK(s), FuncOK(s), NEW j \in s.bodies
    PROVE  /\ \A w \in Callees(j) : w \in DOMAIN s.func /\ s.func[w] \in DOMAIN s.names
           /\ Links(s, j) \subseteq DOMAIN s.names
<1>1. j \in DOMAIN s.func
  BY DEF LinkOK
<1>2. Callees(j) \subseteq DOMAIN s.func
  <2>1. CASE j \in Fn
    BY <1>1, <2>1 DEF LinkOK
  <2>2. CASE j \notin Fn
    BY <2>2 DEF Callees
  <2> QED
    BY <2>1, <2>2
<1> QED
  BY <1>2 DEF Links, FuncOK

(* What is loaded at once is complete but for declarations.                *)
LEMMA JitLinks ==
    ASSUME CodeOK, ops < MaxOps, NEW s, DOMAIN s = DOMAIN NewUnit,
           NameOK(s), LinkOK(s), FuncOK(s), NEW i \in DOMAIN s.names
    PROVE  LET t == JITGlobalValue(s, i) IN
           /\ t.func = s.func /\ t.names = s.names /\ t.bodies = s.bodies
           /\ NameOK(t) /\ LinkOK(t)
           /\ i \in s.bodies => s.names[i] \in DOMAIN t.code
           /\ \A n \in DOMAIN t.code \ DOMAIN s.code : \E j \in s.bodies :
                /\ n = s.names[j] /\ t.code[n].of = j
                /\ t.code[n].calls = [c \in Links(s, j) |-> Lookup(t.code, s.names[c])]
                /\ \A c \in Links(s, j) : c \in s.bodies => s.names[c] \in DOMAIN t.code
<1> DEFINE t == JITGlobalValue(s, i)
<1> DEFINE S == CopyConnectedComponent(s, i)
<1>1. DOMAIN s = {"func", "names", "bodies", "exported", "asked", "code"}
  BY DEF NewUnit
<1>2. CASE i \notin s.bodies \/ s.names[i] \in DOMAIN s.code
  <2>1. t = s
    BY <1>2 DEF JITGlobalValue
  <2> QED
    BY <1>2, <2>1
<1>3. CASE ~(i \notin s.bodies \/ s.names[i] \in DOMAIN s.code)
  <2>1. t = [s EXCEPT !.code = AddModule(s, S)]
    BY <1>3 DEF JITGlobalValue
  <2>2. t.code = AddModule(s, S) /\ t.bodies = s.bodies /\ t.names = s.names /\ t.func = s.func
    BY <1>1, <2>1
  <2>3. /\ ShouldCopy(s, i) => i \in S
        /\ \A w \in S : ShouldCopy(s, w)
        /\ \A w \in S : \A x \in Links(s, w) : ShouldCopy(s, x) => x \in S
    <3>1. DOMAIN s.names \subseteq Value
      BY DEF NameOK
    <3>2. \A w \in s.bodies : Links(s, w) \subseteq Value
      BY <3>1, LinksThere
    <3> QED
      BY <3>1, <3>2, ComponentIs
  <2> HIDE DEF S, t
  <2>4. S \subseteq s.bodies /\ \A w \in S : s.names[w] \notin DOMAIN s.code
    BY <2>3 DEF ShouldCopy
  <2>5. /\ DOMAIN t.code = (DOMAIN s.code) \cup {s.names[w] : w \in S}
        /\ \A n \in DOMAIN s.code : t.code[n] = s.code[n]
        /\ \A w \in S : /\ t.code[s.names[w]].of = w
                        /\ t.code[s.names[w]].calls =
                                [c \in Links(s, w) |-> Lookup(t.code, s.names[c])]
    <3>1. IsLoaded(s, S, AddModule(s, S))
      BY <2>4, AddModuleLinks
    <3>2. IsLoaded(s, S, t.code)
      BY <2>2, <3>1
    <3> QED
      BY <3>2 DEF IsLoaded
  <2>6. i \in S
    BY <1>3, <2>3 DEF ShouldCopy
  <2>7. ASSUME NEW w \in S, NEW c \in Links(s, w), c \in s.bodies
        PROVE  s.names[c] \in DOMAIN t.code
    <3>1. s.names[c] \in DOMAIN s.code \/ c \in S
      BY <2>3, <2>7 DEF ShouldCopy
    <3> QED
      BY <2>5, <3>1
  <2>8. S \subseteq DOMAIN s.names /\ \A w \in DOMAIN s.names : s.names[w] \in Name
    BY <2>4 DEF NameOK, Range
  <2>9. NameOK(t)
    BY <2>2, <2>5, <2>8 DEF NameOK
  <2>10. LinkOK(t)
    <3>1. \A n \in DOMAIN t.code : t.code[n].of \in DOMAIN s.names
      <4> SUFFICES ASSUME NEW n \in DOMAIN t.code PROVE t.code[n].of \in DOMAIN s.names
        OBVIOUS
      <4>1. CASE n \in DOMAIN s.code
        BY <2>5, <4>1 DEF LinkOK
      <4>2. CASE n \notin DOMAIN s.code
        <5>1. PICK w \in S : n = s.names[w]
          BY <2>5, <4>2
        <5> QED
          BY <2>5, <2>8, <5>1
      <4> QED
        BY <4>1, <4>2
    <3> QED
      BY <2>2, <3>1 DEF LinkOK
  <2>11. ASSUME NEW n \in DOMAIN t.code \ DOMAIN s.code
         PROVE  \E j \in s.bodies :
                /\ n = s.names[j] /\ t.code[n].of = j
                /\ t.code[n].calls = [c \in Links(s, j) |-> Lookup(t.code, s.names[c])]
                /\ \A c \in Links(s, j) : c \in s.bodies => s.names[c] \in DOMAIN t.code
    <3>1. PICK j \in S : n = s.names[j]
      BY <2>5
    <3>2. j \in s.bodies
      BY <2>4
    <3>3. /\ t.code[n].of = j
          /\ t.code[n].calls = [c \in Links(s, j) |-> Lookup(t.code, s.names[c])]
      BY <2>5, <3>1
    <3>4. \A c \in Links(s, j) : c \in s.bodies => s.names[c] \in DOMAIN t.code
      BY <2>7
    <3> QED
      BY <3>1, <3>2, <3>3, <3>4
  <2> QED
    BY <2>2, <2>5, <2>6, <2>9, <2>10, <2>11 DEF t
<1> QED
  BY <1>2, <1>3
-----------------------------------------------------------------------------
LEMMA InitNames == Init => NamesOK
<1> SUFFICES ASSUME Init PROVE NamesOK
  OBVIOUS
<1>1. \A u \in Unit : cu[u] = NewUnit /\ symbols[u] = {} /\ fstates[u] = {}
  BY DEF Init
<1>2. NameOK(NewUnit)
  BY DEF NewUnit, NameOK, IsInjective, Range
<1>3. LinkOK(NewUnit) /\ LiveOK(NewUnit, {})
  BY DEF NewUnit, LinkOK, LiveOK
<1>4. DOMAIN NewUnit.func = {}
  BY DEF NewUnit
<1>5. calls \in Programs /\ held \subseteq Value /\ external \subseteq Base /\ cdata \subseteq Unit
  BY JitAssumption DEF Init
<1> QED
  BY <1>1, <1>2, <1>3, <1>4, <1>5 DEF NamesOK

LEMMA SameLive ==
    ASSUME calls' = calls, held' = held
    PROVE  Live' = Live /\ \A w : Callees(w)' = Callees(w)
  BY DEF Live, Reached, Callees

(* One unit changes.                                                       *)
LEMMA NamesStep ==
    ASSUME IInv, ModulesOK, NamesOK, calls' = calls, held' = held, external' \subseteq Base,
           NEW u \in Unit,
           \A w \in Unit \ {u} : /\ cu'[w] = cu[w] /\ symbols'[w] = symbols[w]
                                 /\ fstates'[w] = fstates[w],
           NameOK(cu'[u]), symbols'[u] \subseteq DOMAIN cu'[u].func,
           fstates'[u] # {} => Collects(u), cdata' \subseteq cdata,
           u \in cdata' => LinkOK(cu'[u]), state' = "open" => state = "open",
           u \in cdata' /\ state' = "open" => LiveOK(cu'[u], symbols'[u])
    PROVE  NamesOK'
<1>1. Live' = Live /\ \A w : Callees(w)' = Callees(w)
  BY SameLive
<1>2. cdata \subseteq Unit
  BY DEF IInv, LifetimesOK
<1>3. ASSUME NEW w \in Unit
      PROVE  /\ NameOK(cu'[w]) /\ symbols'[w] \subseteq DOMAIN cu'[w].func
             /\ fstates'[w] # {} => Collects(w)
             /\ w \in cdata' => LinkOK(cu'[w])
             /\ w \in cdata' /\ state' = "open" => LiveOK(cu'[w], symbols'[w])
  <2>1. CASE w = u
    BY <2>1
  <2>2. CASE w # u
    <3>1. /\ cu'[w] = cu[w] /\ symbols'[w] = symbols[w] /\ fstates'[w] = fstates[w]
      BY <2>2
    <3>2. /\ NameOK(cu[w]) /\ symbols[w] \subseteq DOMAIN cu[w].func
          /\ fstates[w] # {} => Collects(w)
          /\ w \in cdata => LinkOK(cu[w])
          /\ w \in cdata /\ state = "open" => LiveOK(cu[w], symbols[w])
      BY DEF NamesOK
    <3> QED
      BY <3>1, <3>2
  <2> QED
    BY <2>1, <2>2
<1>4. ASSUME NEW w \in Unit
      PROVE  /\ NameOK(cu[w])' /\ (symbols[w] \subseteq DOMAIN cu[w].func)'
             /\ (fstates[w] # {} => Collects(w))'
             /\ w \in cdata' => LinkOK(cu[w])'
             /\ w \in cdata' /\ state' = "open" => LiveOK(cu[w], symbols[w])'
  <2>1. NameOK(cu[w])' /\ (symbols[w] \subseteq DOMAIN cu[w].func)'
        /\ (fstates[w] # {} => Collects(w))'
    BY <1>3 DEF NameOK, Collects
  <2>2. ASSUME w \in cdata' PROVE LinkOK(cu[w])'
    BY <1>1, <1>3, <2>2 DEF LinkOK
  <2>3. ASSUME w \in cdata', state' = "open" PROVE LiveOK(cu[w], symbols[w])'
    BY <1>1, <1>3, <2>3 DEF LiveOK
  <2> QED
    BY <2>1, <2>2, <2>3
<1>5. (calls \in Programs /\ held \subseteq Value /\ external \subseteq Base)'
  BY DEF NamesOK
<1> QED
  BY <1>2, <1>4, <1>5 DEF NamesOK

LEMMA MappedFields ==
    ASSUME IInv, NEW u \in Unit, NEW v, Mapped(u, v), NamesOK
    PROVE  /\ symbols'[u] = symbols[u] \cup New(u, v)
           /\ fstates'[u] # {} => Collects(u)
           /\ \A w \in Unit \ {u} : symbols'[w] = symbols[w] /\ fstates'[w] = fstates[w]
<1>1. /\ symbols' = [symbols EXCEPT ![u] = @ \cup New(u, v)]
      /\ fstates' = [fstates EXCEPT ![u] = @ \cup Destructible(u, v)]
  BY DEF Mapped
<1>2. /\ symbols'[u] = symbols[u] \cup New(u, v)
      /\ fstates'[u] = fstates[u] \cup Destructible(u, v)
      /\ \A w \in Unit \ {u} : symbols'[w] = symbols[w] /\ fstates'[w] = fstates[w]
  BY <1>1 DEF IInv, LifetimesOK
<1>3. ~Collects(u) => Destructible(u, v) = {}
  BY DEF Destructible
<1>4. fstates[u] # {} => Collects(u)
  BY DEF NamesOK
<1> QED
  BY <1>2, <1>3, <1>4

LEMMA AddValueNames ==
    ASSUME IInv, ModulesOK, NamesOK, NEW u \in Unit, NEW v \in Value,
           NEW names \in {{}} \cup {{b} : b \in Exports}, AddValueTo(u, names, v)
    PROVE  NamesOK'
<1> DEFINE t == AddValue(u, names, v)
<1>1. /\ state = "open" /\ u \in cdata /\ v \in Live /\ Mapped(u, v)
      /\ cu' = [cu EXCEPT ![u] = t]
      /\ calls' = calls /\ held' = held /\ external' = external
      /\ cdata' = cdata /\ state' = state
  BY DEF AddValueTo, Operation
<1>2. LET S == symbols[u] \cup New(u, v) IN
      NameOK(t) /\ LinkOK(t) /\ LiveOK(t, S) /\ S \subseteq DOMAIN t.func
  <2>1. names = {} \/ \E b \in Exports : names = {b}
    OBVIOUS
  <2> QED
    BY <1>1, <2>1, AddNames
<1> HIDE DEF t
<1>3. cu'[u] = t /\ \A w \in Unit \ {u} : cu'[w] = cu[w]
  BY <1>1 DEF ModulesOK
<1>4. /\ symbols'[u] = symbols[u] \cup New(u, v)
      /\ fstates'[u] # {} => Collects(u)
      /\ \A w \in Unit \ {u} : symbols'[w] = symbols[w] /\ fstates'[w] = fstates[w]
  BY <1>1, MappedFields
<1>5. external' \subseteq Base
  BY <1>1, SMTT(30) DEF NamesOK
<1> QED
  BY <1>1, <1>2, <1>3, <1>4, <1>5, NamesStep

(* jitvalue: what changes in the unit, and what the program gets.          *)
LEMMA JitValueLinks ==
    ASSUME ModulesOK, NamesOK, CodeOK, NEW u \in Unit, NEW v \in Value, JitValue(u, v)
    PROVE  LET s == AddValue(u, {}, v)
               t == JITGlobalValue(s, s.func[v])
               S == symbols[u] \cup New(u, v)
           IN  /\ NameOK(t) /\ LinkOK(t) /\ FuncOK(t) /\ LiveOK(t, S) /\ S \subseteq DOMAIN t.func
               /\ v \in S /\ s.code = cu[u].code
               /\ t.func[v] \in t.bodies => t.names[t.func[v]] \in DOMAIN t.code
               /\ \A n \in DOMAIN t.code \ DOMAIN cu[u].code : \E j \in t.bodies :
                    /\ n = t.names[j] /\ t.code[n].of = j
                    /\ t.code[n].calls = [c \in Links(t, j) |-> Lookup(t.code, t.names[c])]
                    /\ \A c \in Links(t, j) : c \in t.bodies => t.names[c] \in DOMAIN t.code
<1> DEFINE s == AddValue(u, {}, v)
<1> DEFINE t == JITGlobalValue(s, s.func[v])
<1> DEFINE S == symbols[u] \cup New(u, v)
<1>1. state = "open" /\ u \in cdata /\ v \in Live /\ ops < MaxOps
  BY DEF JitValue, Operation
<1>2. /\ DOMAIN s = DOMAIN NewUnit /\ FuncOK(s)
      /\ NameOK(s) /\ LinkOK(s) /\ LiveOK(s, S) /\ S \subseteq DOMAIN s.func
      /\ v \in S /\ s.code = cu[u].code
  BY <1>1, AddNames
<1>3. s.func[v] \in DOMAIN s.names
  BY <1>2 DEF FuncOK
<1> DEFINE i == s.func[v]
<1> HIDE DEF s, S
<1>4. /\ t.func = s.func /\ t.names = s.names /\ t.bodies = s.bodies
      /\ NameOK(t) /\ LinkOK(t)
      /\ i \in s.bodies => s.names[i] \in DOMAIN t.code
      /\ \A n \in DOMAIN t.code \ DOMAIN s.code : \E j \in s.bodies :
            /\ n = s.names[j] /\ t.code[n].of = j
            /\ t.code[n].calls = [c \in Links(s, j) |-> Lookup(t.code, s.names[c])]
            /\ \A c \in Links(s, j) : c \in s.bodies => s.names[c] \in DOMAIN t.code
  BY <1>1, <1>2, <1>3, JitLinks
<1> HIDE DEF t
<1>5. \A j : Links(t, j) = Links(s, j)
  BY <1>4 DEF Links
<1>6. LiveOK(t, S) /\ FuncOK(t) /\ S \subseteq DOMAIN t.func
  BY <1>2, <1>4 DEF LiveOK, FuncOK
<1>7. \A n \in DOMAIN t.code \ DOMAIN cu[u].code : \E j \in t.bodies :
        /\ n = t.names[j] /\ t.code[n].of = j
        /\ t.code[n].calls = [c \in Links(t, j) |-> Lookup(t.code, t.names[c])]
        /\ \A c \in Links(t, j) : c \in t.bodies => t.names[c] \in DOMAIN t.code
  BY <1>2, <1>4, <1>5
<1> QED
  BY <1>2, <1>4, <1>6, <1>7 DEF t, s, S

LEMMA JitValueNames ==
    ASSUME IInv, ModulesOK, NamesOK, CodeOK, NEW u \in Unit, NEW v \in Value, JitValue(u, v)
    PROVE  NamesOK'
<1> DEFINE s == AddValue(u, {}, v)
<1> DEFINE t == JITGlobalValue(s, s.func[v])
<1>1. /\ state = "open" /\ u \in cdata /\ Mapped(u, v)
      /\ cu' = [cu EXCEPT ![u] = t]
      /\ calls' = calls /\ held' = held /\ external' = external
      /\ cdata' = cdata /\ state' = state
  BY DEF JitValue, Operation
<1>2. LET S == symbols[u] \cup New(u, v) IN
      NameOK(t) /\ LinkOK(t) /\ LiveOK(t, S) /\ S \subseteq DOMAIN t.func
  BY JitValueLinks
<1> HIDE DEF t
<1>3. cu'[u] = t /\ \A w \in Unit \ {u} : cu'[w] = cu[w]
  BY <1>1 DEF ModulesOK
<1>4. /\ symbols'[u] = symbols[u] \cup New(u, v)
      /\ fstates'[u] # {} => Collects(u)
      /\ \A w \in Unit \ {u} : symbols'[w] = symbols[w] /\ fstates'[w] = fstates[w]
  BY <1>1, MappedFields
<1>5. external' \subseteq Base
  BY <1>1 DEF NamesOK
<1> QED
  BY <1>1, <1>2, <1>3, <1>4, <1>5, NamesStep

LEMMA SaveObjNames ==
    ASSUME IInv, ModulesOK, NamesOK, NEW u \in Unit, SaveObj(u)
    PROVE  NamesOK'
<1> DEFINE o == cu[u]
<1> DEFINE s == Optimized(o)
<1>1. /\ cu' = [cu EXCEPT ![u] = s] /\ cdata' = cdata \ {u}
      /\ calls' = calls /\ held' = held /\ external' = external
      /\ symbols' = symbols /\ fstates' = fstates /\ state' = state
  BY DEF SaveObj, mapped
<1>2. DOMAIN o = {"func", "names", "bodies", "exported", "asked", "code"}
  BY DEF ModulesOK, NewUnit
<1>3. /\ s.names = Restricted(o.names, Used(o)) /\ s.bodies = o.bodies \cap Used(o)
      /\ s.func = o.func /\ s.code = o.code
  BY <1>2 DEF Optimized
<1>4. /\ NameOK(o) /\ symbols[u] \subseteq DOMAIN o.func /\ external \subseteq Base
      /\ fstates[u] # {} => Collects(u)
  BY DEF NamesOK
<1> HIDE DEF s, o
<1>5. /\ DOMAIN s.names = (DOMAIN o.names) \cap Used(o)
      /\ \A i \in DOMAIN s.names : s.names[i] = o.names[i]
  BY <1>3 DEF Restricted
<1>6. NameOK(s)
  <2>1. IsInjective(s.names)
    BY <1>4, <1>5 DEF NameOK, IsInjective
  <2>2. Range(s.names) \subseteq Name
    BY <1>4, <1>5 DEF NameOK, Range
  <2> QED
    BY <1>3, <1>4, <1>5, <2>1, <2>2 DEF NameOK
<1>7. cu'[u] = s /\ \A w \in Unit \ {u} : cu'[w] = cu[w]
  BY <1>1 DEF ModulesOK
<1> QED
  BY <1>1, <1>3, <1>4, <1>6, <1>7, NamesStep

LEMMA DeleteNames ==
    ASSUME IInv, ModulesOK, NamesOK, NEW u \in Unit, NEW v \in Value, DeleteFunction(u, v)
    PROVE  NamesOK'
<1> DEFINE o == cu[u]
<1> DEFINE s == [o EXCEPT !.bodies = @ \ {v}]
<1>1. DOMAIN cu = Unit
  BY DEF ModulesOK
<1>2. /\ v \in fstates[u] /\ (v \in Live => state # "open")
      /\ cu' = [cu EXCEPT ![u] = s] /\ cdata' = cdata
      /\ symbols' = [symbols EXCEPT ![u] = @ \ {v}]
      /\ fstates' = [fstates EXCEPT ![u] = @ \ {v}]
      /\ calls' = calls /\ held' = held /\ external' = external /\ state' = state
  BY <1>1 DEF DeleteFunction
<1>3. DOMAIN o = {"func", "names", "bodies", "exported", "asked", "code"}
  BY DEF ModulesOK, NewUnit
<1>4. s.bodies = o.bodies \ {v} /\ s.names = o.names /\ s.func = o.func /\ s.code = o.code
  BY <1>3
<1>5. /\ NameOK(o) /\ symbols[u] \subseteq DOMAIN o.func /\ external \subseteq Base
      /\ fstates[u] # {} => Collects(u)
      /\ u \in cdata => LinkOK(o)
      /\ u \in cdata /\ state = "open" => LiveOK(o, symbols[u])
  BY DEF NamesOK
<1> HIDE DEF s, o
<1>6. NameOK(s)
  BY <1>4, <1>5 DEF NameOK
<1>7. u \in cdata => LinkOK(s)
  BY <1>4, <1>5 DEF LinkOK
<1>8. u \in cdata /\ state = "open" => LiveOK(s, symbols[u] \ {v})
  <2> SUFFICES ASSUME u \in cdata, state = "open" PROVE LiveOK(s, symbols[u] \ {v})
    OBVIOUS
  <2>1. v \notin Live /\ LiveOK(o, symbols[u]) /\ NamesOK
    BY <1>2, <1>5
  <2>2. \A w \in Live : Callees(w) \subseteq Live
    BY LiveIs DEF NamesOK
  <2> QED
    BY <1>4, <2>1, <2>2 DEF LiveOK
<1>9. /\ symbols'[u] = symbols[u] \ {v} /\ fstates'[u] = fstates[u] \ {v}
      /\ \A w \in Unit \ {u} : symbols'[w] = symbols[w] /\ fstates'[w] = fstates[w]
  BY <1>2 DEF IInv, LifetimesOK
<1>10. cu'[u] = s /\ \A w \in Unit \ {u} : cu'[w] = cu[w]
  BY <1>1, <1>2
<1> QED
  BY <1>2, <1>4, <1>5, <1>6, <1>7, <1>8, <1>9, <1>10, NamesStep

LEMMA NewUnitNames ==
    ASSUME IInv, ModulesOK, NamesOK, NEW u \in Unit, NewCompilationUnit(u)
    PROVE  NamesOK'
<1>1. /\ u \notin made /\ cdata' = cdata \cup {u} /\ cu' = cu /\ symbols' = symbols
      /\ fstates' = fstates /\ calls' = calls /\ held' = held /\ external' = external
      /\ state' = state
  BY DEF NewCompilationUnit, program, mapped
<1>2. cu[u] = NewUnit /\ symbols[u] = {}
  BY <1>1 DEF ModulesOK
<1>3. LinkOK(NewUnit) /\ LiveOK(NewUnit, {})
  BY DEF NewUnit, LinkOK, LiveOK
<1>4. Live' = Live /\ \A w : Callees(w)' = Callees(w)
  BY <1>1, SameLive
<1>5. ASSUME NEW w \in cdata'
      PROVE  LinkOK(cu[w])' /\ (state' = "open" => LiveOK(cu[w], symbols[w])')
  <2>1. LinkOK(cu[w]) /\ (state = "open" => LiveOK(cu[w], symbols[w]))
    BY <1>1, <1>2, <1>3, <1>5 DEF NamesOK
  <2>2. LinkOK(cu[w])'
    BY <1>1, <1>4, <2>1 DEF LinkOK
  <2>3. ASSUME state' = "open" PROVE LiveOK(cu[w], symbols[w])'
    BY <1>1, <1>4, <2>1, <2>3 DEF LiveOK
  <2> QED
    BY <2>2, <2>3
<1>6. ASSUME NEW w \in Unit
      PROVE  NameOK(cu[w])' /\ (symbols[w] \subseteq DOMAIN cu[w].func)'
             /\ (fstates[w] # {} => Collects(w))'
  BY <1>1 DEF NamesOK, NameOK, Collects
<1> QED
  BY <1>1, <1>5, <1>6 DEF NamesOK

LEMMA LiveLeast ==
    calls \in Programs /\ held \subseteq Value =>
        \A T : held \subseteq T /\ (\A w \in T \cap Value : Callees(w) \subseteq T)
                    => Live \subseteq T
  BY LiveIs

(* What is forgotten and what only it referred to is garbage.              *)
LEMMA DropNames ==
    ASSUME IInv, ModulesOK, NamesOK, NEW v \in Value, Drop(v)
    PROVE  NamesOK'
<1>1. /\ held' = held \ {v} /\ calls' = calls /\ external' = external /\ cu' = cu
      /\ symbols' = symbols /\ fstates' = fstates /\ cdata' = cdata /\ state' = state
  BY DEF Drop, mapped, lifetimes
<1>2. \A w : Callees(w)' = Callees(w)
  BY <1>1 DEF Callees
<1>3. Live' \subseteq Live
  <2>1. (calls \in Programs /\ held \subseteq Value =>
            \A T : held \subseteq T /\ (\A w \in T \cap Value : Callees(w) \subseteq T)
                        => Live \subseteq T)'
    BY LiveLeast, PTL
  <2>2. held \subseteq Live /\ \A w \in Live : Callees(w) \subseteq Live
    BY LiveIs DEF NamesOK
  <2>3. held' \subseteq Live /\ \A w \in Live \cap Value : Callees(w)' \subseteq Live
    BY <1>1, <1>2, <2>2
  <2>4. calls' \in Programs /\ held' \subseteq Value
    BY <1>1 DEF NamesOK
  <2> QED
    BY <2>1, <2>3, <2>4
<1>4. ASSUME NEW w \in cdata'
      PROVE  LinkOK(cu[w])' /\ (state' = "open" => LiveOK(cu[w], symbols[w])')
  <2>1. LinkOK(cu[w]) /\ (state = "open" => LiveOK(cu[w], symbols[w]))
    BY <1>1, <1>4 DEF NamesOK
  <2>2. LinkOK(cu[w])'
    BY <1>1, <1>2, <2>1 DEF LinkOK
  <2>3. ASSUME state' = "open" PROVE LiveOK(cu[w], symbols[w])'
    BY <1>1, <1>2, <1>3, <2>1, <2>3 DEF LiveOK
  <2> QED
    BY <2>2, <2>3
<1>5. ASSUME NEW w \in Unit
      PROVE  NameOK(cu[w])' /\ (symbols[w] \subseteq DOMAIN cu[w].func)'
             /\ (fstates[w] # {} => Collects(w))'
  BY <1>1 DEF NamesOK, NameOK, Collects
<1> QED
  BY <1>1, <1>4, <1>5 DEF NamesOK

LEMMA NamesHold == IInv /\ ModulesOK /\ CodeOK /\ NamesOK /\ [Next]_vars => NamesOK'
<1> SUFFICES ASSUME IInv, ModulesOK, CodeOK, NamesOK, [Next]_vars PROVE NamesOK'
  OBVIOUS
<1>1. CASE \E u \in Unit : NewCompilationUnit(u) \/ SaveObj(u)
  BY <1>1, NewUnitNames, SaveObjNames
<1>2. CASE \E u \in Unit, v \in Value :
            \/ \E names \in {{}} \cup {{b} : b \in Exports} : AddValueTo(u, names, v)
            \/ JitValue(u, v)
  BY <1>2, AddValueNames, JitValueNames
<1>3. CASE \E u \in Unit, v \in Value : DeleteFunction(u, v)
  BY <1>3, DeleteNames
<1>4. CASE \E v \in Value : Drop(v)
  BY <1>4, DropNames
<1>5. ASSUME calls' = calls, held' = held, external' \subseteq Base, cu' = cu,
             symbols' = symbols, fstates' = fstates, cdata' \subseteq cdata,
             state' = "open" => state = "open"
      PROVE  NamesOK'
  <2>1. /\ NameOK(cu[JitUnit]) /\ symbols[JitUnit] \subseteq DOMAIN cu[JitUnit].func
        /\ fstates[JitUnit] # {} => Collects(JitUnit)
        /\ JitUnit \in cdata => LinkOK(cu[JitUnit])
        /\ JitUnit \in cdata /\ state = "open" => LiveOK(cu[JitUnit], symbols[JitUnit])
    BY JitAssumption DEF NamesOK
  <2> QED
    BY <1>5, <2>1, NamesStep, JitAssumption
<1>6. CASE \E e \in Ext : LinkLLVM(NameOf[e])
  <2>1. external' \subseteq Base
    BY <1>6, JitAssumption DEF LinkLLVM, NamesOK, Value
  <2> QED
    BY <1>5, <1>6, <2>1 DEF LinkLLVM, mapped, lifetimes
<1>7. CASE Close \/ CollectTarget \/ FreeState \/ (\E u \in Unit : CollectUnit(u)) \/ UNCHANGED vars
  <2>1. external \subseteq Base
    BY DEF NamesOK
  <2> QED
    BY <1>5, <1>7, <2>1 DEF Close, CollectTarget, FreeState, CollectUnit, vars,
                            program, mapped, lifetimes
<1> QED
  BY <1>1, <1>2, <1>3, <1>4, <1>6, <1>7 DEF Next, Finalizer

(***************************************************************************)
(* The types of the variables.  Among them: no two LLVM functions of a     *)
(* module have one name, whatever is emitted, exported under a name that is*)
(* taken, renamed or collected (createfunction, and addvalue's "rename     *)
(* anything else that has this name"); and only the JIT's unit has         *)
(* functions with destructors.                                             *)
(***************************************************************************)
THEOREM TypeCorrect == Spec => []TypeOK
<1>1. IInv /\ CodeOK /\ NamesOK => TypeOK
  <2> SUFFICES ASSUME IInv, CodeOK, NamesOK PROVE TypeOK
    OBVIOUS
  <2>1. ASSUME NEW u \in Unit
        PROVE  /\ symbols[u] \subseteq Value /\ symbols[u] \subseteq DOMAIN cu[u].func
               /\ DOMAIN cu[u].names \subseteq Value /\ IsInjective(cu[u].names)
               /\ Range(cu[u].names) \subseteq Name
               /\ cu[u].bodies \subseteq DOMAIN cu[u].names
               /\ fstates[u] \subseteq symbols[u] /\ (fstates[u] # {} => Collects(u))
               /\ DOMAIN cu[u].code \subseteq Name
    BY DEF IInv, LifetimesOK, StatesOK, NamesOK, NameOK
  <2>2. DOMAIN functioninfo \subseteq Addr /\ Range(functioninfo) \subseteq Unit
    BY DEF CodeOK, Range
  <2>3. calls \in Programs /\ held \subseteq Value /\ external \subseteq Base
    BY DEF NamesOK
  <2> QED
    BY <2>1, <2>2, <2>3 DEF TypeOK, IInv, LifetimesOK
<1> QED
  BY <1>1, InitHolds, StepHolds, InitModules, ModulesHold, InitCode, CodeHolds, InitNames,
     NamesHold, PTL DEF Spec
-----------------------------------------------------------------------------
(* Whose code is called.                                                   *)
NotMoved(t) ==
    /\ \A n \in DOMAIN t.code :
            t.code[n].of \in DOMAIN t.names => t.names[t.code[n].of] = n
    /\ \A i \in DOMAIN t.names \ t.bodies :
            t.names[i].kind # "renamed" /\ (i \in Ext => t.names[i] = CName(NameOf[i]))

LEMMA OwnLinks ==
    ASSUME NamesOK, NEW t, NameOK(t), LinkOK(t), FuncOK(t), NEW S, LiveOK(t, S),
           S \subseteq DOMAIN t.func, NotMoved(t)
    PROVE  /\ \A c \in DOMAIN t.names :
                    t.names[c] \in DOMAIN t.code => Lookup(t.code, t.names[c]) = c
           /\ \A w \in Live \cap S :
                    t.func[w] \notin t.bodies => Own(t, t.func[w], t.names[t.func[w]])
<1>1. ASSUME NEW c \in DOMAIN t.names, t.names[c] \in DOMAIN t.code
      PROVE  Lookup(t.code, t.names[c]) = c
  <2>1. t.code[t.names[c]].of \in DOMAIN t.names
    BY <1>1 DEF LinkOK
  <2>2. t.names[t.code[t.names[c]].of] = t.names[c]
    BY <1>1, <2>1 DEF NotMoved
  <2>3. t.code[t.names[c]].of = c
    BY <2>1, <2>2 DEF NameOK, IsInjective
  <2> QED
    BY <1>1, <2>3 DEF Lookup
<1>2. ASSUME NEW w \in Live \cap S, t.func[w] \notin t.bodies
      PROVE  Own(t, t.func[w], t.names[t.func[w]])
  <2> DEFINE c == t.func[w]
  <2>1. c \in DOMAIN t.names /\ c \notin t.bodies /\ c \in Value
    BY <1>2 DEF FuncOK, NameOK
  <2>2. t.names[c].kind # "renamed" /\ (c \in Ext => t.names[c] = CName(NameOf[c]))
    BY <2>1 DEF NotMoved
  <2>3. w \notin Fn
    <3>1. w \in Fn => w \in t.bodies
      BY <1>2 DEF LiveOK
    <3>2. w \in Fn => t.func[w] = w
      BY <1>2 DEF LinkOK
    <3> QED
      BY <1>2, <3>1, <3>2
  <2>4. w \in Ext
    <3>1. Live \subseteq Value
      BY LiveIs DEF NamesOK
    <3> QED
      BY <2>3, <3>1 DEF Value
  <2>5. t.names[c].kind # "terra"
    BY <1>2, <2>4 DEF LinkOK
  <2>6. t.names[c].kind = "c"
    <3>1. t.names[c] \in Name
      BY <2>1 DEF NameOK, Range
    <3> QED
      BY <2>2, <2>5, <3>1 DEF Name
  <2> HIDE DEF c
  <2>7. Own(t, c, t.names[c])
    BY <2>1, <2>2, <2>6 DEF Own, Value
  <2> QED
    BY <2>7 DEF c
<1> QED
  BY <1>1, <1>2

LEMMA JitValueOwn ==
    ASSUME IInv, ModulesOK, CodeOK, NamesOK, NEW w \in Unit, NEW v \in Value, JitValue(w, v),
           NEW u \in Unit, ~Moved(u)'
    PROVE  /\ \A n \in DOMAIN cu'[u].code \ DOMAIN cu[u].code :
                LET links == cu'[u].code[n].calls IN
                cu'[u].code[n].of \in Live =>
                \A i \in DOMAIN links : Own(cu'[u], i, links[i])
           /\ \A p \in pointers' \ pointers :
                p.unit = u => Own(cu'[u], cu'[u].func[p.value], p.target)
<1> DEFINE s == AddValue(w, {}, v)
<1> DEFINE t == JITGlobalValue(s, s.func[v])
<1> DEFINE p == [unit |-> w, value |-> v, target |-> Address(t, t.func[v])]
<1> DEFINE S == symbols[w] \cup New(w, v)
<1>1. /\ v \in Live /\ cu' = [cu EXCEPT ![w] = t] /\ pointers' = pointers \cup {p}
      /\ calls' = calls /\ held' = held
  BY DEF JitValue
<1>2. /\ NameOK(t) /\ LinkOK(t) /\ FuncOK(t) /\ LiveOK(t, S) /\ S \subseteq DOMAIN t.func
      /\ v \in S
      /\ t.func[v] \in t.bodies => t.names[t.func[v]] \in DOMAIN t.code
      /\ \A n \in DOMAIN t.code \ DOMAIN cu[w].code : \E j \in t.bodies :
            /\ n = t.names[j] /\ t.code[n].of = j
            /\ t.code[n].calls = [c \in Links(t, j) |-> Lookup(t.code, t.names[c])]
            /\ \A c \in Links(t, j) : c \in t.bodies => t.names[c] \in DOMAIN t.code
  BY JitValueLinks
<1> HIDE DEF t
<1>3. cu'[w] = t /\ \A x \in Unit \ {w} : cu'[x] = cu[x]
  BY <1>1 DEF ModulesOK
<1>4. p.unit = w /\ p.value = v /\ p.target = Address(t, t.func[v])
  OBVIOUS
<1> HIDE DEF p, S
<1>5. CASE u # w
  <2>1. cu'[u] = cu[u]
    BY <1>3, <1>5
  <2> QED
    BY <1>1, <1>4, <1>5, <2>1
<1>6. CASE u = w
  <2>1. NotMoved(t)
    BY <1>3, <1>6 DEF Moved, NotMoved
  <2>2. /\ \A c \in DOMAIN t.names :
                    t.names[c] \in DOMAIN t.code => Lookup(t.code, t.names[c]) = c
        /\ \A x \in Live \cap S :
                    t.func[x] \notin t.bodies => Own(t, t.func[x], t.names[t.func[x]])
    BY <1>2, <2>1, OwnLinks
  <2>3. ASSUME NEW n \in DOMAIN t.code \ DOMAIN cu[w].code, t.code[n].of \in Live,
               NEW i \in DOMAIN t.code[n].calls
        PROVE  Own(t, i, t.code[n].calls[i])
    <3>1. PICK j \in t.bodies :
            /\ n = t.names[j] /\ t.code[n].of = j
            /\ t.code[n].calls = [c \in Links(t, j) |-> Lookup(t.code, t.names[c])]
            /\ \A c \in Links(t, j) : c \in t.bodies => t.names[c] \in DOMAIN t.code
      BY <1>2
    <3>2. i \in Links(t, j) /\ t.code[n].calls[i] = Lookup(t.code, t.names[i])
      BY <2>3, <3>1
    <3>3. PICK x \in Callees(j) : i = t.func[x]
      BY <3>2 DEF Links
    <3>4. j \in Live \cap S
      BY <1>2, <2>3, <3>1 DEF LiveOK, NameOK
    <3>5. x \in Live \cap S
      <4>1. x \in S
        BY <1>2, <3>3, <3>4 DEF LiveOK
      <4>2. x \in Live
        BY <3>3, <3>4, LiveIs DEF NamesOK
      <4> QED
        BY <4>1, <4>2
    <3>6. i \in DOMAIN t.names
      BY <1>2, <3>2, LinksThere
    <3>7. CASE t.names[i] \in DOMAIN t.code
      <4>1. t.code[n].calls[i] = i
        BY <2>2, <3>2, <3>6, <3>7
      <4> QED
        BY <4>1 DEF Own
    <3>8. CASE t.names[i] \notin DOMAIN t.code
      <4>1. i \notin t.bodies
        BY <3>1, <3>2, <3>8
      <4>2. t.code[n].calls[i] = t.names[i]
        BY <3>2, <3>8 DEF Lookup
      <4> QED
        BY <2>2, <3>3, <3>5, <4>1, <4>2
    <3> QED
      BY <3>7, <3>8
  <2>4. Own(t, t.func[v], Address(t, t.func[v]))
    <3>1. CASE t.func[v] \in t.bodies
      <4>1. t.func[v] \in DOMAIN t.names /\ t.names[t.func[v]] \in DOMAIN t.code
        BY <1>2, <3>1 DEF NameOK
      <4>2. Address(t, t.func[v]) = t.func[v]
        BY <2>2, <3>1, <4>1 DEF Address
      <4> QED
        BY <4>2 DEF Own
    <3>2. CASE t.func[v] \notin t.bodies
      <4>1. Address(t, t.func[v]) = t.names[t.func[v]]
        BY <3>2 DEF Address
      <4>2. v \in Live \cap S
        BY <1>1, <1>2
      <4>3. Own(t, t.func[v], t.names[t.func[v]])
        BY <2>2, <3>2, <4>2
      <4> QED
        BY <4>1, <4>3
    <3> QED
      BY <3>1, <3>2
  <2>5. cu'[u] = t /\ cu[u] = cu[w]
    BY <1>3, <1>6
  <2>6. ASSUME NEW q \in pointers' \ pointers
        PROVE  Own(cu'[u], cu'[u].func[q.value], q.target)
    <3>1. q = p
      BY <1>1
    <3> QED
      BY <1>4, <2>4, <2>5, <3>1
  <2>7. ASSUME NEW n \in DOMAIN cu'[u].code \ DOMAIN cu[u].code, cu'[u].code[n].of \in Live,
               NEW i \in DOMAIN cu'[u].code[n].calls
        PROVE  Own(cu'[u], i, cu'[u].code[n].calls[i])
    BY <2>3, <2>5, <2>7
  <2> QED
    BY <2>6, <2>7
<1> QED
  BY <1>5, <1>6

(* Nothing else loads code or looks for it.                                *)
LEMMA SameCode ==
    ASSUME IInv, ModulesOK, CodeOK, NamesOK, [Next]_vars,
           ~\E u \in Unit, v \in Value : JitValue(u, v)
    PROVE  pointers' = pointers /\ \A u \in Unit : cu'[u].code = cu[u].code
<1>1. ASSUME NEW u \in Unit, NEW s, cu' = [cu EXCEPT ![u] = s], s.code = cu[u].code
      PROVE  \A w \in Unit : cu'[w].code = cu[w].code
  BY <1>1 DEF ModulesOK
<1>2. ASSUME NEW u \in Unit
      PROVE  DOMAIN cu[u] = {"func", "names", "bodies", "exported", "asked", "code"}
  BY DEF ModulesOK, NewUnit
<1>3. ASSUME NEW u \in Unit, SaveObj(u)
      PROVE  pointers' = pointers /\ \A w \in Unit : cu'[w].code = cu[w].code
  <2>1. Optimized(cu[u]).code = cu[u].code
    BY <1>2 DEF Optimized
  <2>2. cu' = [cu EXCEPT ![u] = Optimized(cu[u])] /\ pointers' = pointers
    BY <1>3 DEF SaveObj
  <2> HIDE DEF Optimized
  <2> QED
    BY <1>1, <2>1, <2>2
<1>4. ASSUME NEW u \in Unit, NEW v \in Value, NEW names, AddValueTo(u, names, v)
      PROVE  pointers' = pointers /\ \A w \in Unit : cu'[w].code = cu[w].code
  <2>1. AddValue(u, names, v).code = cu[u].code
    BY AddBodies
  <2>2. cu' = [cu EXCEPT ![u] = AddValue(u, names, v)] /\ pointers' = pointers
    BY <1>4 DEF AddValueTo
  <2> QED
    BY <1>1, <2>1, <2>2
<1>5. ASSUME NEW u \in Unit, NEW v \in Value, DeleteFunction(u, v)
      PROVE  pointers' = pointers /\ \A w \in Unit : cu'[w].code = cu[w].code
  <2> DEFINE s == [cu[u] EXCEPT !.bodies = @ \ {v}]
  <2>1. s.code = cu[u].code
    BY <1>2
  <2>2. DOMAIN cu = Unit
    BY DEF ModulesOK
  <2>3. cu' = [cu EXCEPT ![u] = s] /\ pointers' = pointers
    BY <1>5, <2>2 DEF DeleteFunction
  <2> HIDE DEF s
  <2> QED
    BY <1>1, <2>1, <2>3
<1>6. CASE \/ \E u \in Unit : NewCompilationUnit(u) \/ CollectUnit(u)
           \/ \E e \in Ext : LinkLLVM(NameOf[e])
           \/ \E v \in Value : Drop(v)
           \/ Close \/ CollectTarget \/ FreeState \/ UNCHANGED vars
  BY <1>6 DEF NewCompilationUnit, CollectUnit, LinkLLVM, Drop, Close, CollectTarget, FreeState,
              vars, program
<1> QED
  BY <1>3, <1>4, <1>5, <1>6 DEF Next, Finalizer

(***************************************************************************)
(* The addresses that the JIT hands out and links to are those of the      *)
(* value's own code, for every program, any names and any number of units, *)
(* as long as no name has moved from code that was loaded with it or from a*)
(* declaration (addvalue: "rename anything else that has this name").      *)
(***************************************************************************)
THEOREM AddressesAreOwn == Spec => CodeIsOwn
<1> DEFINE Action == \A u \in Unit :
            \/ Moved(u)'
            \/ /\ \A n \in DOMAIN cu'[u].code \ DOMAIN cu[u].code :
                        LET links == cu'[u].code[n].calls IN
                        cu'[u].code[n].of \in Live =>
                        \A i \in DOMAIN links : Own(cu'[u], i, links[i])
               /\ \A p \in pointers' \ pointers :
                        p.unit = u => Own(cu'[u], cu'[u].func[p.value], p.target)
<1>1. IInv /\ ModulesOK /\ CodeOK /\ NamesOK /\ [Next]_vars => Action
  <2> SUFFICES ASSUME IInv, ModulesOK, CodeOK, NamesOK, [Next]_vars, NEW u \in Unit, ~Moved(u)'
               PROVE  /\ \A n \in DOMAIN cu'[u].code \ DOMAIN cu[u].code :
                            LET links == cu'[u].code[n].calls IN
                            cu'[u].code[n].of \in Live =>
                            \A i \in DOMAIN links : Own(cu'[u], i, links[i])
                      /\ \A p \in pointers' \ pointers :
                            p.unit = u => Own(cu'[u], cu'[u].func[p.value], p.target)
    OBVIOUS
  <2>1. CASE \E w \in Unit, v \in Value : JitValue(w, v)
    BY <2>1, JitValueOwn
  <2>2. CASE ~\E w \in Unit, v \in Value : JitValue(w, v)
    <3>1. pointers' = pointers /\ cu'[u].code = cu[u].code
      BY <2>2, SameCode
    <3> QED
      BY <3>1
  <2> QED
    BY <2>1, <2>2
<1> QED
  BY <1>1, InitHolds, StepHolds, InitModules, ModulesHold, InitCode, CodeHolds, InitNames,
     NamesHold, PTL DEF Spec, CodeIsOwn
=============================================================================
