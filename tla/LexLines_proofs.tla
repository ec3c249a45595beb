-------------------------- MODULE LexLines_proofs --------------------------
(***************************************************************************)
(* Proof that lines are kept, whatever is replaced and however deep        *)
(* constructs are nested.  It rests on what LexOutput_proofs shows of the  *)
(* buffer and of the parser's steps.                                       *)
(***************************************************************************)
EXTENDS LexOutput_proofs

(* The lines that cells are on.  Lua's rule is the recursion of Lines; the *)
(* proofs use it as a function of how far one has read (Num), and where    *)
(* there is no \r it counts newlines (PlainNum).                           *)
(*                                                                         *)
(* Of a set of places, how many there are up to one.                       *)
Upto(T, j) == Cardinality(T \cap (1 .. j))

LEMMA UptoBegins == \A T : Upto(T, 0) = 0
<1> SUFFICES ASSUME NEW T PROVE Upto(T, 0) = 0
  OBVIOUS
<1>1. T \cap (1 .. 0) = {}
  OBVIOUS
<1> QED
  BY <1>1, FS_EmptySet DEF Upto

LEMMA UptoType ==
    ASSUME NEW T, NEW j \in Nat
    PROVE  IsFiniteSet(T \cap (1 .. j)) /\ Upto(T, j) \in Nat
<1>1. IsFiniteSet(1 .. j)
  BY FS_Interval
<1>2. IsFiniteSet(T \cap (1 .. j))
  BY <1>1, FS_Subset
<1> QED
  BY <1>2, FS_CardinalityType DEF Upto

LEMMA UptoNext ==
    ASSUME NEW T, NEW j \in Nat
    PROVE  /\ j + 1 \in T => Upto(T, j + 1) = Upto(T, j) + 1
           /\ j + 1 \notin T => Upto(T, j + 1) = Upto(T, j)
<1> DEFINE U == T \cap (1 .. j)
<1>1. IsFiniteSet(U) /\ Cardinality(U) = Upto(T, j)
  BY UptoType DEF Upto
<1>2. j + 1 \notin U
  OBVIOUS
<1>3. CASE j + 1 \in T
  <2>1. T \cap (1 .. j + 1) = U \cup {j + 1}
    BY <1>3
  <2> HIDE DEF U
  <2>2. Cardinality(U \cup {j + 1}) = Cardinality(U) + 1
    BY <1>1, <1>2, FS_AddElement
  <2> QED
    BY <1>1, <1>3, <2>1, <2>2 DEF Upto
<1>4. CASE j + 1 \notin T
  <2>1. T \cap (1 .. j + 1) = U
    BY <1>4
  <2> QED
    BY <1>4, <2>1 DEF Upto
<1> QED
  BY <1>3, <1>4

LEMMA UptoSame ==
    ASSUME NEW T, NEW S, NEW j \in Nat, \A k \in 1 .. j : k \in T <=> k \in S
    PROVE  Upto(T, j) = Upto(S, j)
<1>1. T \cap (1 .. j) = S \cap (1 .. j)
  OBVIOUS
<1> QED
  BY <1>1 DEF Upto
-----------------------------------------------------------------------------
(* The lines of a text, as the recursion of Lines counts them.             *)
IsEnds(text, ends) ==
    ends = [j \in 0 .. Len(text) |->
               IF j = 0 \/ text[j] \notin Breaks
               THEN <<FALSE, IF j = 0 THEN 1 ELSE ends[j - 1][2]>>
               ELSE IF ends[j - 1][1] /\ text[j] # text[j - 1]
               THEN <<FALSE, ends[j - 1][2]>>
               ELSE <<TRUE, ends[j - 1][2] + 1>>]
Ends1(text) == CHOOSE ends : IsEnds(text, ends)
Open1(text, j) == Ends1(text)[j][1] = TRUE
Num(text, j) == Ends1(text)[j][2]

LEMMA LinesAre ==
    ASSUME NEW text
    PROVE  Lines(text) = [i \in 1 .. Len(text) + 1 |-> Num(text, i - 1)]
  BY DEF Lines, Num, Ends1, IsEnds

(* The recursion is well-founded, so the function that Lines names exists  *)
(* ...                                                                     *)
LEMMA EndsExist ==
    ASSUME NEW text, IsSeq(text)
    PROVE  IsEnds(text, Ends1(text))
<1> DEFINE Step(f, j) == IF j = 0 \/ text[j] \notin Breaks
                         THEN <<FALSE, IF j = 0 THEN 1 ELSE f[j - 1][2]>>
                         ELSE IF f[j - 1][1] /\ text[j] # text[j - 1]
                         THEN <<FALSE, f[j - 1][2]>>
                         ELSE <<TRUE, f[j - 1][2] + 1>>
           T == {n \in 0 .. Len(text) : \E f : f = [j \in 0 .. n |-> Step(f, j)]}
<1>0. Len(text) \in Nat /\ Len(text) \in 0 .. Len(text)
  BY SeqLength
<1>1. 0 \in T
  <2> DEFINE f == [j \in 0 .. 0 |-> <<FALSE, 1>>]
  <2>1. f = [j \in 0 .. 0 |-> Step(f, j)]
    <3>1. ASSUME NEW j \in 0 .. 0 PROVE Step(f, j) = <<FALSE, 1>>
      <4>1. j = 0
        OBVIOUS
      <4> HIDE DEF f
      <4> QED
        BY <4>1
    <3> HIDE DEF Step
    <3> QED
      BY <3>1
  <2>2. 0 \in 0 .. Len(text)
    BY <1>0
  <2> HIDE DEF f, Step
  <2> QED
    BY <2>1, <2>2
<1>2. ASSUME NEW n \in 0 .. Len(text), n < Len(text), n \in T PROVE n + 1 \in T
  <2>1. PICK f : f = [j \in 0 .. n |-> Step(f, j)]
    <3> HIDE DEF Step
    <3> QED
      BY <1>2
  <2> DEFINE g == [j \in 0 .. n + 1 |-> IF j = n + 1 THEN Step(f, n + 1) ELSE f[j]]
  <2>2. ASSUME NEW j \in 0 .. n + 1
        PROVE  g[j] = Step(g, j)
    <3>1. CASE j = 0
      <4>1. f[0] = Step(f, 0)
        <5> HIDE DEF Step
        <5>1. 0 \in 0 .. n
          OBVIOUS
        <5> QED
          BY <2>1, <5>1
      <4>2. g[0] = f[0]
        <5> HIDE DEF Step
        <5>1. 0 \in 0 .. n + 1 /\ 0 # n + 1
          OBVIOUS
        <5> QED
          BY <5>1
      <4>3. Step(f, 0) = Step(g, 0)
        <5> HIDE DEF g
        <5> QED
          OBVIOUS
      <4> QED
        BY <3>1, <4>1, <4>2, <4>3
    <3>2. CASE j # 0
      <4>1. j - 1 \in 0 .. n + 1 /\ j - 1 # n + 1
        BY <3>2
      <4>2. g[j - 1] = f[j - 1]
        <5> HIDE DEF Step
        <5> QED
          BY <4>1
      <4>3. Step(g, j) = Step(f, j)
        <5> HIDE DEF g
        <5> QED
          BY <4>2
      <4>4. CASE j = n + 1
        <5> HIDE DEF Step
        <5>1. g[j] = Step(f, j)
          BY <4>4
        <5> QED
          BY <4>3, <5>1
      <4>5. CASE j # n + 1
        <5> HIDE DEF Step
        <5>1. j \in 0 .. n /\ g[j] = f[j]
          BY <4>5
        <5>2. f[j] = Step(f, j)
          BY <2>1, <5>1
        <5> QED
          BY <4>3, <5>1, <5>2
      <4> QED
        BY <4>4, <4>5, Zenon
    <3> QED
      BY <3>1, <3>2, Zenon
  <2> HIDE DEF Step
  <2>3. g = [j \in 0 .. n + 1 |-> Step(g, j)]
    <3>1. g = [j \in 0 .. n + 1 |-> g[j]]
      OBVIOUS
    <3> HIDE DEF g
    <3> QED
      BY <2>2, <3>1
  <2>4. n + 1 \in 0 .. Len(text)
    BY <1>0, <1>2
  <2> HIDE DEF g
  <2> QED
    BY <2>3, <2>4
<1>3. Len(text) \in T
  <2> HIDE DEF T
  <2> QED
    BY <1>0, <1>1, <1>2, Induction
<1>4. \E f : IsEnds(text, f)
  BY <1>3 DEF IsEnds
<1> QED
  BY <1>4 DEF Ends1

(* ... begins with line one, and takes a character at a time.              *)
LEMMA EndsRule ==
    ASSUME NEW text, IsSeq(text)
    PROVE  /\ Num(text, 0) = 1 /\ ~Open1(text, 0)
           /\ \A j \in 1 .. Len(text) :
                 IF text[j] \notin Breaks \/ (Open1(text, j - 1) /\ text[j] # text[j - 1])
                 THEN ~Open1(text, j) /\ Num(text, j) = Num(text, j - 1)
                 ELSE Open1(text, j) /\ Num(text, j) = Num(text, j - 1) + 1
<1> DEFINE e == Ends1(text)
           n == Len(text)
<1>1. e = [j \in 0 .. n |->
               IF j = 0 \/ text[j] \notin Breaks
               THEN <<FALSE, IF j = 0 THEN 1 ELSE e[j - 1][2]>>
               ELSE IF e[j - 1][1] /\ text[j] # text[j - 1]
               THEN <<FALSE, e[j - 1][2]>>
               ELSE <<TRUE, e[j - 1][2] + 1>>]
  BY EndsExist DEF IsEnds
<1>2. n \in Nat
  BY SeqLength
<1> HIDE DEF e, n
<1>3. ASSUME NEW j \in 0 .. n
      PROVE  e[j] = IF j = 0 \/ text[j] \notin Breaks
               THEN <<FALSE, IF j = 0 THEN 1 ELSE e[j - 1][2]>>
               ELSE IF e[j - 1][1] /\ text[j] # text[j - 1]
               THEN <<FALSE, e[j - 1][2]>>
               ELSE <<TRUE, e[j - 1][2] + 1>>
  BY <1>1
<1>4. e[0] = <<FALSE, 1>>
  <2>1. 0 \in 0 .. n
    BY <1>2
  <2> QED
    BY <1>3, <2>1
<1>5. ASSUME NEW j \in 1 .. n
      PROVE  /\ text[j] \notin Breaks => e[j] = <<FALSE, e[j - 1][2]>>
             /\ text[j] \in Breaks /\ e[j - 1][1] /\ text[j] # text[j - 1]
                 => e[j] = <<FALSE, e[j - 1][2]>>
             /\ text[j] \in Breaks /\ ~(e[j - 1][1] /\ text[j] # text[j - 1])
                 => e[j] = <<TRUE, e[j - 1][2] + 1>>
  <2>1. j \in 0 .. n /\ j # 0
    BY <1>2
  <2> QED
    BY <1>3, <2>1
<1>6. ASSUME NEW j \in 0 .. n PROVE e[j][1] \in {TRUE, FALSE}
  <2>0. \A x : <<TRUE, x>>[1] = TRUE /\ <<FALSE, x>>[1] = FALSE
    OBVIOUS
  <2>1. CASE j = 0
    <3>1. e[j] = <<FALSE, 1>>
      BY <1>4, <2>1
    <3> QED
      BY <2>0, <3>1, Zenon
  <2>2. CASE j # 0
    <3>1. j \in 1 .. n
      BY <1>2, <2>2
    <3>2. PICK x : e[j] = <<TRUE, x>> \/ e[j] = <<FALSE, x>>
      BY <1>5, <3>1
    <3> QED
      BY <2>0, <3>2, Zenon
  <2> QED
    BY <2>1, <2>2
<1>7. Num(text, 0) = 1 /\ ~Open1(text, 0)
  BY <1>4 DEF Num, Open1, e
<1>8. ASSUME NEW j \in 1 .. n
      PROVE  IF text[j] \notin Breaks \/ (Open1(text, j - 1) /\ text[j] # text[j - 1])
             THEN ~Open1(text, j) /\ Num(text, j) = Num(text, j - 1)
             ELSE Open1(text, j) /\ Num(text, j) = Num(text, j - 1) + 1
  <2>1. /\ Num(text, j) = e[j][2] /\ (Open1(text, j) <=> e[j][1] = TRUE)
        /\ Num(text, j - 1) = e[j - 1][2] /\ (Open1(text, j - 1) <=> e[j - 1][1] = TRUE)
    BY DEF Num, Open1, e
  <2>2. e[j - 1][1] \in {TRUE, FALSE}
    <3>1. j - 1 \in 0 .. n
      BY <1>2
    <3> QED
      BY <1>6, <3>1
  <2>3. e[j - 1][1] <=> Open1(text, j - 1)
    BY <2>1, <2>2
  <2>4. CASE text[j] \notin Breaks \/ (Open1(text, j - 1) /\ text[j] # text[j - 1])
    <3>1. e[j] = <<FALSE, e[j - 1][2]>>
      BY <1>5, <2>3, <2>4
    <3> QED
      BY <2>1, <2>4, <3>1
  <2>5. CASE text[j] \in Breaks /\ ~(Open1(text, j - 1) /\ text[j] # text[j - 1])
    <3>1. e[j] = <<TRUE, e[j - 1][2] + 1>>
      BY <1>5, <2>3, <2>5
    <3> QED
      BY <2>1, <2>5, <3>1
  <2> QED
    BY <2>4, <2>5
<1> QED
  BY <1>7, <1>8 DEF n

LEMMA EndsNext ==
    ASSUME NEW text, IsSeq(text), NEW j \in Nat, j + 1 <= Len(text)
    PROVE  IF text[j + 1] \notin Breaks \/ (Open1(text, j) /\ text[j + 1] # text[j])
           THEN ~Open1(text, j + 1) /\ Num(text, j + 1) = Num(text, j)
           ELSE Open1(text, j + 1) /\ Num(text, j + 1) = Num(text, j) + 1
<1>1. Len(text) \in Nat
  BY SeqLength
<1>2. j + 1 \in 1 .. Len(text)
  BY <1>1
<1>3. (j + 1) - 1 = j
  OBVIOUS
<1>4. IF text[j + 1] \notin Breaks \/ (Open1(text, (j + 1) - 1) /\ text[j + 1] # text[(j + 1) - 1])
      THEN ~Open1(text, j + 1) /\ Num(text, j + 1) = Num(text, (j + 1) - 1)
      ELSE Open1(text, j + 1) /\ Num(text, j + 1) = Num(text, (j + 1) - 1) + 1
  BY <1>2, EndsRule, Zenon
<1> QED
  BY <1>3, <1>4, Zenon

LEMMA EndsType ==
    ASSUME NEW text, IsSeq(text)
    PROVE  \A j \in 0 .. Len(text) : Num(text, j) \in Nat
<1> DEFINE T == {j \in 0 .. Len(text) : Num(text, j) \in Nat}
<1>1. Len(text) \in Nat
  BY SeqLength
<1>2. 0 \in T
  <2>1. 0 \in 0 .. Len(text)
    BY <1>1
  <2>2. Num(text, 0) = 1
    BY EndsRule, Zenon
  <2> QED
    BY <2>1, <2>2
<1>3. ASSUME NEW n \in 0 .. Len(text), n < Len(text), n \in T PROVE n + 1 \in T
  <2>1. n \in Nat /\ n + 1 <= Len(text) /\ n + 1 \in 0 .. Len(text)
    BY <1>1, <1>3
  <2> DEFINE a == Num(text, n)
             b == Num(text, n + 1)
  <2>2. a \in Nat
    BY <1>3
  <2>3. b = a \/ b = a + 1
    BY <2>1, EndsNext, Zenon
  <2> HIDE DEF a, b
  <2>4. b \in Nat
    BY <2>2, <2>3
  <2> QED
    BY <2>1, <2>4 DEF b
<1>4. \A j \in 0 .. Len(text) : j \in T
  <2> HIDE DEF T
  <2> QED
    BY <1>1, <1>2, <1>3, Induction
<1> QED
  BY <1>4

(* Lines are counted from the front: what is read later changes none.      *)
LEMMA EndsAgree ==
    ASSUME NEW p, NEW q, IsSeq(p), IsSeq(q), NEW m \in Nat, m <= Len(p), m <= Len(q),
           \A i \in 1 .. m : p[i] = q[i]
    PROVE  \A j \in 0 .. m : Num(p, j) = Num(q, j) /\ (Open1(p, j) <=> Open1(q, j))
<1> DEFINE T == {j \in 0 .. m : Num(p, j) = Num(q, j) /\ (Open1(p, j) <=> Open1(q, j))}
<1>1. Len(p) \in Nat /\ Len(q) \in Nat
  BY SeqLength
<1>2. 0 \in T
  <2>1. 0 \in 0 .. m
    OBVIOUS
  <2>2. Num(p, 0) = 1 /\ ~Open1(p, 0) /\ Num(q, 0) = 1 /\ ~Open1(q, 0)
    BY EndsRule, Zenon
  <2> QED
    BY <2>1, <2>2
<1>3. ASSUME NEW n \in 0 .. m, n < m, n \in T PROVE n + 1 \in T
  <2>1. n \in Nat /\ n + 1 <= Len(p) /\ n + 1 <= Len(q) /\ n + 1 \in 0 .. m /\ n + 1 \in 1 .. m
    BY <1>1, <1>3
  <2>2. Num(p, n) = Num(q, n) /\ (Open1(p, n) <=> Open1(q, n))
    BY <1>3
  <2>3. p[n + 1] = q[n + 1]
    BY <2>1
  <2>4. IF p[n + 1] \notin Breaks \/ (Open1(p, n) /\ p[n + 1] # p[n])
        THEN ~Open1(p, n + 1) /\ Num(p, n + 1) = Num(p, n)
        ELSE Open1(p, n + 1) /\ Num(p, n + 1) = Num(p, n) + 1
    BY <2>1, EndsNext, Zenon
  <2>5. IF q[n + 1] \notin Breaks \/ (Open1(q, n) /\ q[n + 1] # q[n])
        THEN ~Open1(q, n + 1) /\ Num(q, n + 1) = Num(q, n)
        ELSE Open1(q, n + 1) /\ Num(q, n + 1) = Num(q, n) + 1
    BY <2>1, EndsNext, Zenon
  <2>6. ~Open1(p, n) \/ p[n] = q[n]
    <3>1. CASE n = 0
      <4>1. ~Open1(p, 0)
        BY EndsRule, Zenon
      <4> QED
        BY <3>1, <4>1
    <3>2. CASE n # 0
      <4>1. n \in 1 .. m
        BY <1>3, <3>2
      <4> QED
        BY <4>1
    <3> QED
      BY <3>1, <3>2
  <2>8. Num(p, n + 1) = Num(q, n + 1) /\ (Open1(p, n + 1) <=> Open1(q, n + 1))
    BY <2>2, <2>3, <2>4, <2>5, <2>6, Zenon
  <2> QED
    BY <2>1, <2>8
<1>4. \A j \in 0 .. m : j \in T
  <2> HIDE DEF T
  <2> QED
    BY <1>2, <1>3, Induction
<1> QED
  BY <1>4

(* Without \r a line ends with each \n.                                    *)
Feeds(text) == {k \in 1 .. Len(text) : text[k] = "\n"}
LEMMA PlainNum ==
    ASSUME NEW text, IsSeq(text), \A i \in 1 .. Len(text) : text[i] # "\r"
    PROVE  \A j \in 0 .. Len(text) : Num(text, j) = 1 + Upto(Feeds(text), j)
<1> DEFINE T == {j \in 0 .. Len(text) : /\ Num(text, j) = 1 + Upto(Feeds(text), j)
                                        /\ Open1(text, j) => j > 0 /\ text[j] = "\n"}
<1>1. Len(text) \in Nat
  BY SeqLength
<1>2. 0 \in T
  <2>1. 0 \in 0 .. Len(text)
    BY <1>1
  <2>2. Upto(Feeds(text), 0) = 0
    BY UptoBegins
  <2>3. Num(text, 0) = 1 /\ ~Open1(text, 0)
    BY EndsRule, Zenon
  <2> QED
    BY <2>1, <2>2, <2>3
<1>3. ASSUME NEW n \in 0 .. Len(text), n < Len(text), n \in T PROVE n + 1 \in T
  <2>1. /\ n + 1 \in 1 .. Len(text) /\ n + 1 <= Len(text) /\ n + 1 \in 0 .. Len(text)
        /\ n \in Nat /\ n + 1 > 0
    BY <1>1, <1>3
  <2> DEFINE a == Num(text, n)
             b == Num(text, n + 1)
             p == Open1(text, n)
             q == Open1(text, n + 1)
             x == Upto(Feeds(text), n)
             y == Upto(Feeds(text), n + 1)
             c == text[n + 1]
  <2>2. x \in Nat
    BY <2>1, UptoType
  <2>3. /\ c = "\n" => y = x + 1
        /\ c # "\n" => y = x
    <3>1. n + 1 \in Feeds(text) <=> c = "\n"
      BY <2>1 DEF Feeds
    <3> HIDE DEF c
    <3> QED
      BY <2>1, <3>1, UptoNext
  <2>4. c \in Breaks <=> c = "\n"
    <3>1. c # "\r"
      BY <2>1
    <3> HIDE DEF c
    <3> QED
      BY <3>1 DEF Breaks
  <2>5. a = 1 + x /\ (p => text[n] = "\n")
    BY <1>3
  <2>6. IF c \notin Breaks \/ (p /\ c # text[n]) THEN ~q /\ b = a ELSE q /\ b = a + 1
    BY <2>1, EndsNext, Zenon
  <2> HIDE DEF a, b, p, q, x, y, c
  <2>7. b = 1 + y
    <3>1. CASE c = "\n"
      <4>1. b = a + 1
        BY <2>4, <2>5, <2>6, <3>1
      <4> QED
        BY <2>2, <2>3, <2>5, <3>1, <4>1
    <3>2. CASE c # "\n"
      BY <2>3, <2>4, <2>5, <2>6, <3>2
    <3> QED
      BY <3>1, <3>2
  <2>8. q => c = "\n"
    BY <2>4, <2>6
  <2> QED
    BY <2>1, <2>7, <2>8 DEF b, y, q, c
<1>4. \A j \in 0 .. Len(text) : j \in T
  <2> HIDE DEF T
  <2> QED
    BY <1>1, <1>2, <1>3, Induction
<1> QED
  BY <1>4
-----------------------------------------------------------------------------
(* What llex does with line breaks.                                        *)
Away == {"break", "break2"}
Quoting == {"string", "escape", "zap"}
InText == lx.mode \in Quoting \/ (lx.mode \in Away /\ lx.back \in Quoting)
CallOK == /\ lx.back \notin Away
          /\ lx.mode = "break" => current \in Breaks
          /\ InText => lx.text[1] \in Delimiters

(* A step that reads what ends no line; that reads nothing; that reads the *)
(* first character of a break, and the second.                             *)
Tame(c) == c \notin Breaks \cup {EOZ}
Over == /\ Read1 /\ UNCHANGED linenumber /\ lx.mode \notin Away /\ Tame(current)
        /\ lx' # Idle => CallOK' /\ lx'.mode \notin Away
Pauses == /\ Still /\ UNCHANGED linenumber /\ lx.mode \notin Away
          /\ lx' # Idle => CallOK' /\ lx'.mode # "break2"
First == /\ Read1 /\ lx.mode = "break" /\ lx' # Idle /\ CallOK'
         /\ IF current' \in Breaks /\ current' # current
            THEN lx'.mode = "break2" /\ UNCHANGED linenumber
            ELSE lx'.mode = lx.back /\ linenumber' = linenumber + 1
Second == /\ Read1 /\ lx.mode = "break2" /\ lx' # Idle /\ CallOK'
          /\ lx'.mode = lx.back /\ linenumber' = linenumber + 1
Counts == Over \/ Pauses \/ First \/ Second

(* Which characters end no line.                                           *)
LEMMA TameChars ==
    /\ \A c \in Blanks \cup Digits \cup Letters \cup Signs \cup Delimiters \cup {"\\", "z"} : Tame(c)
    /\ {p[1] : p \in Pairs} \subseteq Signs
    /\ \A c, d : <<c, d>> \in Pairs => Tame(d)
<1>1. \A c \in Blanks \cup Digits \cup Letters \cup Signs \cup Delimiters \cup {"\\", "z"} : Tame(c)
  BY DEF Tame, Breaks, EOZ, Blanks, Digits, Letters, Signs, Delimiters, Reserved, Entries
<1>2. {p[1] : p \in Pairs} \subseteq Signs
  <2>1. {p[1] : p \in Pairs} = {"=", "~", "<", ">", ":"}
    BY DEF Pairs
  <2> QED
    BY <2>1 DEF Signs
<1>3. ASSUME NEW c, NEW d, <<c, d>> \in Pairs
      PROVE  Tame(d)
  <2>1. d \in {"=", "<", ">", ":"}
    BY <1>3 DEF Pairs
  <2>2. d \in Signs
    BY <2>1 DEF Signs
  <2> QED
    BY <1>1, <2>2
<1> QED
  BY <1>1, <1>2, <1>3

(* What a step leaves of the call.                                         *)
Left1(m, b, text) == lx' # Idle /\ lx'.mode = m /\ lx'.back = b /\ lx'.text = text
LEMMA CallLeft ==
    ASSUME IInv, lx # Idle
    PROVE  /\ \A m : lx' = [lx EXCEPT !.mode = m] => Left1(m, lx.back, lx.text)
           /\ \A b : lx' = [lx EXCEPT !.mode = "break", !.back = b] => Left1("break", b, lx.text)
           /\ \A m, x : lx' = [lx EXCEPT !.mode = m, !.text = x] => Left1(m, lx.back, x)
           /\ \A m, n, x : lx' = [lx EXCEPT !.mode = m, !.level = n, !.text = x] => Left1(m, lx.back, x)
           /\ \A x : lx' = [lx EXCEPT !.text = x] => Left1(lx.mode, lx.back, x)
<1>1. DOMAIN lx = Call
  BY DEF IInv, LxOK
<1>2. "back" \in Call /\ "back" \notin DOMAIN Idle /\ {"mode", "text", "level"} \subseteq Call
  BY DEF Call, Idle
<1>3. DOMAIN lx' = Call => lx' # Idle
  BY <1>2
<1>4. ASSUME NEW m, lx' = [lx EXCEPT !.mode = m]
      PROVE  Left1(m, lx.back, lx.text)
  <2>1. DOMAIN lx' = Call
    BY <1>1, <1>4
  <2> QED
    BY <1>1, <1>2, <1>3, <1>4, <2>1 DEF Left1
<1>5. ASSUME NEW b, lx' = [lx EXCEPT !.mode = "break", !.back = b]
      PROVE  Left1("break", b, lx.text)
  <2>1. DOMAIN lx' = Call
    BY <1>1, <1>5
  <2> QED
    BY <1>1, <1>2, <1>3, <1>5, <2>1 DEF Left1
<1>6. ASSUME NEW m, NEW x, lx' = [lx EXCEPT !.mode = m, !.text = x]
      PROVE  Left1(m, lx.back, x)
  <2>1. DOMAIN lx' = Call
    BY <1>1, <1>6
  <2> QED
    BY <1>1, <1>2, <1>3, <1>6, <2>1 DEF Left1
<1>7. ASSUME NEW m, NEW n, NEW x, lx' = [lx EXCEPT !.mode = m, !.level = n, !.text = x]
      PROVE  Left1(m, lx.back, x)
  <2>1. DOMAIN lx' = Call
    BY <1>1, <1>7
  <2> QED
    BY <1>1, <1>2, <1>3, <1>7, <2>1 DEF Left1
<1>8. ASSUME NEW x, lx' = [lx EXCEPT !.text = x]
      PROVE  Left1(lx.mode, lx.back, x)
  <2>1. DOMAIN lx' = Call
    BY <1>1, <1>8
  <2> QED
    BY <1>1, <1>2, <1>3, <1>8, <2>1 DEF Left1
<1> QED
  BY <1>4, <1>5, <1>6, <1>7, <1>8, Zenon

LEMMA CallSteps ==
    ASSUME IInv, lx # Idle, CallOK, lx.mode \notin Away
    PROVE  /\ \A m : /\ Skip(m) /\ Tame(current) /\ m \notin Away
                     /\ m \in Quoting => lx.mode \in Quoting
                     => Over
           /\ \A m : Stay(m) /\ m \notin Away /\ (m \in Quoting => lx.mode \in Quoting) => Pauses
           /\ \A b : /\ ToBreak(b) /\ current \in Breaks /\ b \notin Away
                     /\ b \in Quoting => lx.mode \in Quoting
                     => Pauses
           /\ \A k : Return(k) => Pauses
           /\ \A k : SkipReturn(k) /\ Tame(current) => Over
           /\ LexError => Pauses
           /\ \A m, x : /\ Read1 /\ UNCHANGED linenumber /\ Tame(current)
                        /\ Left1(m, lx.back, x) /\ m \notin Away
                        /\ m \in Quoting => x[1] \in Delimiters
                        => Over
<1>1. ASSUME NEW m, NEW x, Left1(m, lx.back, x), m \notin Away, m \in Quoting => x[1] \in Delimiters
      PROVE  CallOK' /\ lx'.mode \notin Away
  BY <1>1 DEF CallOK, Left1, InText, Away
<1>2. lx.mode \in Quoting => lx.text[1] \in Delimiters
  BY DEF CallOK, InText
<1>3. ASSUME NEW m, Skip(m), Tame(current), m \notin Away, m \in Quoting => lx.mode \in Quoting
      PROVE  Over
  <2>1. Left1(m, lx.back, lx.text) /\ Read1 /\ UNCHANGED linenumber
    BY <1>3, CallLeft DEF Skip, Moved, Read1
  <2>2. CallOK' /\ lx'.mode \notin Away
    BY <1>1, <1>2, <1>3, <2>1
  <2> QED
    BY <1>3, <2>1, <2>2 DEF Over
<1>4. ASSUME NEW m, Stay(m), m \notin Away, m \in Quoting => lx.mode \in Quoting
      PROVE  Pauses
  <2>1. Left1(m, lx.back, lx.text) /\ Still /\ UNCHANGED linenumber
    BY <1>4, CallLeft DEF Stay, Moved, Still, input
  <2>2. CallOK' /\ lx'.mode \notin Away
    BY <1>1, <1>2, <1>4, <2>1
  <2> QED
    BY <1>4, <2>1, <2>2 DEF Pauses, Away
<1>5. ASSUME NEW b, ToBreak(b), current \in Breaks, b \notin Away, b \in Quoting => lx.mode \in Quoting
      PROVE  Pauses
  <2>1. Left1("break", b, lx.text) /\ Still /\ UNCHANGED linenumber
    BY <1>5, CallLeft DEF ToBreak, Still, input
  <2>2. CallOK' /\ lx'.mode # "break2"
    BY <1>2, <1>5, <2>1 DEF CallOK, Left1, InText, Still, Quoting
  <2> QED
    BY <2>1, <2>2 DEF Pauses
<1>6. \A k : Return(k) => Pauses
  BY DEF Return, Returned, Pauses, Still, input, lines
<1>7. \A k : SkipReturn(k) /\ Tame(current) => Over
  BY DEF SkipReturn, Returned, Over, Read1, lines
<1>8. LexError => Pauses
  BY DEF LexError, Pauses, Still, input, lines, CallOK, InText, Away
<1>9. ASSUME NEW m, NEW x, Read1, UNCHANGED linenumber, Tame(current),
             Left1(m, lx.back, x), m \notin Away, m \in Quoting => x[1] \in Delimiters
      PROVE  Over
  BY <1>1, <1>9 DEF Over
<1> QED
  BY <1>3, <1>4, <1>5, <1>6, <1>7, <1>8, <1>9

(* Every step of llex is one of these four (inclinenumber is the last      *)
(* two).                                                                   *)
LEMMA LexCounts ==
    ASSUME IInv, lx # Idle, CallOK, Lexes
    PROVE  Counts
<1>1. Llex /\ UNCHANGED todo
  BY DEF Lexes
<1>2. CASE lx.mode \in Away
  <2>1. IncLineNumber
    BY <1>1, <1>2 DEF Llex, Start, Pair, Dots, Dash, LongSep, Long, ReadString, Numeral, Word, In, Away
  <2>2. /\ Read1
        /\ \/ Moved("break2") /\ UNCHANGED linenumber /\ lx.mode = "break"
              /\ current' \in Breaks /\ current' # current
           \/ Moved(lx.back) /\ linenumber' = linenumber + 1
              /\ ~(lx.mode = "break" /\ current' \in Breaks /\ current' # current)
    <3>1. PICK second \in BOOLEAN : Broken(second, 1) /\ (second <=> lx.mode = "break2")
      BY <2>1 DEF IncLineNumber, In
    <3> QED
      BY <1>2, <3>1 DEF Broken, Read1, NextChar, Away
  <2>3. /\ Moved("break2") => Left1("break2", lx.back, lx.text)
        /\ Moved(lx.back) => Left1(lx.back, lx.back, lx.text)
    BY CallLeft, Zenon DEF Moved
  <2>4. CASE Moved("break2") /\ UNCHANGED linenumber /\ lx.mode = "break"
              /\ current' \in Breaks /\ current' # current
    <3>1. CallOK'
      BY <1>2, <2>3, <2>4 DEF CallOK, Left1, InText, Away, Quoting
    <3> QED
      BY <2>2, <2>3, <2>4, <3>1 DEF Counts, First, Left1
  <2>5. CASE Moved(lx.back) /\ linenumber' = linenumber + 1
              /\ ~(lx.mode = "break" /\ current' \in Breaks /\ current' # current)
    <3>1. CallOK'
      BY <1>2, <2>3, <2>5 DEF CallOK, Left1, InText, Away
    <3> QED
      BY <1>2, <2>2, <2>3, <2>5, <3>1 DEF Counts, First, Second, Left1, Away
  <2> QED
    BY <2>2, <2>4, <2>5
<1>3. CASE lx.mode \notin Away
  <2>1. /\ \A m : /\ Skip(m) /\ Tame(current) /\ m \notin Away
                  /\ m \in Quoting => lx.mode \in Quoting
                  => Over
        /\ \A m : Stay(m) /\ m \notin Away /\ (m \in Quoting => lx.mode \in Quoting) => Pauses
        /\ \A b : /\ ToBreak(b) /\ current \in Breaks /\ b \notin Away
                  /\ b \in Quoting => lx.mode \in Quoting
                  => Pauses
        /\ \A k : Return(k) => Pauses
        /\ \A k : SkipReturn(k) /\ Tame(current) => Over
        /\ LexError => Pauses
        /\ \A m, x : /\ Read1 /\ UNCHANGED linenumber /\ Tame(current)
                     /\ Left1(m, lx.back, x) /\ m \notin Away
                     /\ m \in Quoting => x[1] \in Delimiters
                     => Over
    BY <1>3, CallSteps, Zenon
  <2>2. /\ \A m, x : lx' = [lx EXCEPT !.mode = m, !.text = x] => Left1(m, lx.back, x)
        /\ \A m, n, x : lx' = [lx EXCEPT !.mode = m, !.level = n, !.text = x] => Left1(m, lx.back, x)
        /\ \A x : lx' = [lx EXCEPT !.text = x] => Left1(lx.mode, lx.back, x)
    BY CallLeft, Zenon
  <2>3. \A c \in Blanks \cup Digits \cup Letters \cup Signs \cup Delimiters \cup {"\\", "z"} : Tame(c)
    BY TameChars, Zenon
  <2>4. ASSUME Start PROVE Counts
    <3>1. lx.mode = "start"
      BY <2>4 DEF Start, In
    <3>2. CASE current \in Breaks /\ ToBreak("start")
      BY <2>1, <3>2, "start" \notin Away /\ "start" \notin Quoting DEF Counts, Away, Quoting
    <3>3. CASE current \in Blanks /\ Skip("start")
      BY <2>1, <2>3, <3>3 DEF Counts, Away, Quoting
    <3>4. CASE current = "-" /\ Skip("dash")
      <4>1. Tame(current)
        BY <2>3, <3>4 DEF Signs
      <4> QED
        BY <2>1, <3>4, <4>1 DEF Counts, Away, Quoting
    <3>5. CASE current \in {"[", "."} /\ Skip(current)
      <4>1. Tame(current) /\ current \notin Away /\ current \notin Quoting
        BY <2>3, <3>5 DEF Signs, Away, Quoting
      <4> QED
        BY <2>1, <3>5, <4>1 DEF Counts
    <3>6. CASE /\ current \in {p[1] : p \in Pairs}
               /\ (\E c \in Chars : NextChar(c))
               /\ lx' = [lx EXCEPT !.mode = "pair", !.text = <<current>>]
               /\ UNCHANGED linenumber
      <4>1. Tame(current)
        BY <2>3, <3>6, TameChars
      <4>2. Left1("pair", lx.back, <<current>>)
        BY <2>2, <3>6
      <4> QED
        BY <2>1, <3>6, <4>1, <4>2 DEF Counts, Away, Quoting, Read1
    <3>7. CASE /\ current \in Delimiters
               /\ (\E c \in Chars : NextChar(c))
               /\ lx' = [lx EXCEPT !.mode = "string", !.text = <<current>>]
               /\ UNCHANGED linenumber
      <4>1. Tame(current) /\ <<current>>[1] = current /\ "string" \notin Away
        BY <2>3, <3>7 DEF Away
      <4>2. Left1("string", lx.back, <<current>>)
        BY <2>2, <3>7
      <4> QED
        BY <2>1, <3>7, <4>1, <4>2 DEF Counts, Read1
    <3>8. CASE current \in Digits /\ Skip("numeral")
      BY <2>1, <2>3, <3>8 DEF Counts, Away, Quoting
    <3>9. CASE current \in Letters \cup {"z"} /\ Stay("word")
      BY <2>1, <3>9 DEF Counts, Away, Quoting
    <3>10. CASE /\ current = EOZ
                /\ Returned([Token(EOS) EXCEPT !.begin = Len(out), !.from = Len(source) + 1])
                /\ UNCHANGED <<input, out>>
      BY <1>3, <3>10 DEF Counts, Pauses, Returned, Still, input, lines
    <3>11. CASE /\ current \in (Signs \cup {"\\"}) \ ({"-", "[", "."} \cup {p[1] : p \in Pairs})
                /\ SkipReturn(current)
      BY <2>1, <2>3, <3>11 DEF Counts
    <3> QED
      BY <2>4, <3>2, <3>3, <3>4, <3>5, <3>6, <3>7, <3>8, <3>9, <3>10, <3>11 DEF Start
  <2>5. ASSUME Pair PROVE Counts
    <3>1. CASE <<lx.text[1], current>> \in Pairs /\ SkipReturn(lx.text[1] \o current)
      <4>1. Tame(current)
        BY <3>1, TameChars
      <4> QED
        BY <2>1, <3>1, <4>1 DEF Counts
    <3>2. CASE Return(lx.text[1])
      BY <2>1, <3>2 DEF Counts
    <3> QED
      BY <2>5, <3>1, <3>2 DEF Pair
  <2>6. ASSUME Dots PROVE Counts
    <3>1. Tame(".")
      BY <2>3 DEF Signs
    <3> QED
      BY <2>1, <2>6, <3>1 DEF Dots, Counts, Away, Quoting
  <2>7. ASSUME Dash PROVE Counts
    <3>1. Tame("-") /\ Tame(">") /\ Tame("[")
      BY <2>3 DEF Signs
    <3>2. current \notin Breaks \cup {EOZ} => Tame(current)
      BY DEF Tame
    <3> QED
      BY <2>1, <2>7, <3>1, <3>2 DEF Dash, Counts, Away, Quoting
  <2>8. Equals /\ lx.mode \notin Quoting => Over
    <3> SUFFICES ASSUME Equals, lx.mode \notin Quoting PROVE Over
      OBVIOUS
    <3>1. current = "=" /\ lx' = [lx EXCEPT !.text = Append(lx.text, "=")] /\ Read1 /\ UNCHANGED linenumber
      BY DEF Equals, Read1
    <3>2. Left1(lx.mode, lx.back, Append(lx.text, "=")) /\ Tame(current)
      BY <2>2, <2>3, <3>1 DEF Signs
    <3> QED
      BY <1>3, <2>1, <3>1, <3>2
  <2>9. Tame("[") /\ Tame("]")
    BY <2>3 DEF Signs
  <2>10. \A kind : LongOpens(kind) /\ current = "[" => Over
    <3> SUFFICES ASSUME NEW kind, LongOpens(kind), current = "[" PROVE Over
      OBVIOUS
    <3>1. lx' = [lx EXCEPT !.mode = "long0", !.level = Len(lx.text), !.text = <<kind>>]
          /\ Read1 /\ UNCHANGED linenumber
      BY DEF LongOpens, Read1
    <3>2. Left1("long0", lx.back, <<kind>>) /\ Tame(current)
      BY <2>2, <2>9, <3>1
    <3> QED
      BY <2>1, <3>1, <3>2 DEF Away, Quoting
  <2>11. ASSUME LongSep PROVE Counts
    <3>1. lx.mode \notin Quoting
      BY <2>11 DEF LongSep, In, Quoting
    <3> QED
      BY <2>1, <2>8, <2>10, <2>11, <3>1 DEF LongSep, Counts, Away, Quoting
  <2>12. ASSUME Long PROVE Counts
    <3>1. lx.mode \notin Quoting
      BY <2>12 DEF Long, In, Quoting
    <3>2. current \notin Breaks \cup {"]", EOZ} => Tame(current)
      BY DEF Tame
    <3>3. \A m, x : lx' = [lx EXCEPT !.mode = m, !.text = x] /\ current = "]" /\ m \notin Away \cup Quoting
                    /\ (\E c \in Chars : NextChar(c)) /\ UNCHANGED linenumber => Over
      BY <2>1, <2>2, <2>9 DEF Read1
    <3>4. ASSUME In("long0") /\ IF current \in Breaks THEN ToBreak("long") ELSE Stay("long")
          PROVE  Counts
      BY <2>1, <3>4 DEF Counts, Away, Quoting
    <3>5. ASSUME \/ current = EOZ /\ LexError
                 \/ current = "]" /\ (\E c \in Chars : NextChar(c))
                    /\ lx' = [lx EXCEPT !.mode = "]", !.text = SubSeq(lx.text, 1, 1)]
                    /\ UNCHANGED linenumber
                 \/ current \in Breaks /\ ToBreak("long")
                 \/ current \notin Breaks \cup {"]", EOZ} /\ Skip("long")
          PROVE  Counts
      BY <2>1, <3>2, <3>3, <3>5 DEF Counts, Away, Quoting
    <3>6. ASSUME \/ Equals
                 \/ current = "]" /\ SkipReturn(String)
                 \/ current = "]" /\ (\E c \in Chars : NextChar(c))
                    /\ lx' = [lx EXCEPT !.mode = "start", !.text = <<>>]
                    /\ UNCHANGED linenumber
                 \/ Stay("long")
          PROVE  Counts
      BY <2>1, <2>8, <2>9, <3>1, <3>3, <3>6 DEF Counts, Away, Quoting
    <3> QED
      BY <2>12, <3>4, <3>5, <3>6 DEF Long
  <2>13. ASSUME ReadString PROVE Counts
    <3>1. lx.mode \in Quoting /\ lx.text[1] \in Delimiters
      BY <2>13 DEF ReadString, In, Quoting, CallOK, InText
    <3>2. /\ current \notin Breaks \cup {EOZ, "\\", lx.text[1]} => Tame(current)
          /\ current = lx.text[1] => Tame(current)
          /\ Tame("\\") /\ Tame("z")
          /\ \A c \in Blanks \cup Digits \cup Delimiters : Tame(c)
      BY <2>3, <3>1 DEF Tame
    <3>3. "string" \notin Away /\ "escape" \notin Away /\ "zap" \notin Away
      BY DEF Away
    <3>4. ASSUME \/ LexError
                 \/ current = lx.text[1] /\ SkipReturn(String)
                 \/ current = "\\" /\ Skip("escape")
                 \/ current \notin Breaks \cup {EOZ, "\\", lx.text[1]} /\ Skip("string")
          PROVE  Counts
      BY <2>1, <3>1, <3>2, <3>3, <3>4 DEF Counts
    <3>5. ASSUME \/ current \in Breaks /\ ToBreak("string")
                 \/ current = "z" /\ Skip("zap")
                 \/ Stay("string")
                 \/ current \in Delimiters \cup Digits \cup {"\\"} /\ Skip("string")
                 \/ LexError
          PROVE  Counts
      BY <2>1, <3>1, <3>2, <3>3, <3>5 DEF Counts
    <3>6. ASSUME \/ current \in Breaks /\ ToBreak("zap")
                 \/ current \in Blanks /\ Skip("zap")
                 \/ Stay("string")
          PROVE  Counts
      BY <2>1, <3>1, <3>2, <3>3, <3>6 DEF Counts
    <3> QED
      BY <2>13, <3>4, <3>5, <3>6 DEF ReadString
  <2>14. ASSUME Numeral PROVE Counts
    <3>1. current \in Digits \cup Letters \cup {"z", "."} => Tame(current)
      BY <2>3 DEF Signs
    <3> QED
      BY <2>1, <2>14, <3>1 DEF Numeral, Counts, Away, Quoting
  <2>15. ASSUME Word PROVE Counts
    <3>1. CASE /\ current \in Letters \cup Digits \cup {"z"}
               /\ (\E c \in Chars : NextChar(c))
               /\ lx' = [lx EXCEPT !.text = Append(@, current)]
               /\ UNCHANGED linenumber
      <4>1. Left1(lx.mode, lx.back, Append(lx.text, current)) /\ Tame(current)
        BY <2>2, <2>3, <3>1
      <4>2. lx.mode \notin Quoting
        BY <2>15 DEF Word, In, Quoting
      <4> QED
        BY <1>3, <2>1, <3>1, <4>1, <4>2 DEF Counts, Read1
    <3>2. CASE \E k : Return(k)
      BY <2>1, <3>2 DEF Counts
    <3> QED
      BY <2>15, <3>1, <3>2 DEF Word
  <2>16. ASSUME IncLineNumber PROVE Counts
    BY <1>3, <2>16 DEF IncLineNumber, In, Away
  <2> QED
    BY <1>1, <2>4, <2>5, <2>6, <2>7, <2>11, <2>12, <2>13, <2>14, <2>15, <2>16 DEF Llex
<1> QED
  BY <1>2, <1>3
-----------------------------------------------------------------------------
(* How many characters the lexer is done with; whether it looks at the     *)
(* second character of a break.                                            *)
Passed == IF current = EOZ THEN Len(source) ELSE Len(source) - 1
Paired(text, n, c) == c \in Breaks /\ Open1(text, n) /\ c # text[n]

(* The count is that of what the lexer is done with; a break of two        *)
(* characters it counts late.                                              *)
CountOK ==
    IF lx # Idle /\ lx.mode = "break2"
    THEN Paired(source, Passed, current) /\ Num(source, Passed) = linenumber + 1
    ELSE ~Paired(source, Passed, current) /\ Num(source, Passed) = linenumber

(* Each token notes the line that its text begins on.                      *)
LineAt(s, tok) == tok.from <= Len(s) => Num(s, tok.from - 1) = tok.linebegin
LinesOK ==
    /\ CountOK
    /\ t # NoToken => LineAt(source, t)
    /\ lookahead.token # EOS => LineAt(source, lookahead)
    /\ lx # Idle => /\ CallOK
                    /\ \/ lx.mode = "start" /\ current = EOZ
                       \/ Num(source, lx.from - 1) = lx.linebegin

(* What reading a character does to the count.                             *)
LEMMA CountMoves ==
    ASSUME BufferOK, Read1, current # EOZ, current = source[Len(source)]
    PROVE  /\ Passed \in Nat /\ Passed' = Len(source) /\ Len(source) \in Nat /\ Len(source) > 0
           /\ source'[Passed'] = current
           /\ IF current \notin Breaks \/ Paired(source, Passed, current)
              THEN ~Open1(source', Passed') /\ Num(source', Passed') = Num(source, Passed)
              ELSE Open1(source', Passed') /\ Num(source', Passed') = Num(source, Passed) + 1
           /\ \A j \in 0 .. Len(source) : Num(source', j) = Num(source, j)
<1>1. IsSeq(source) /\ Len(source) \in Nat /\ Len(source) > 0
  BY SeqLength DEF BufferOK
<1>2. PICK c \in Chars : NextChar(c)
  BY DEF Read1
<1>3. CASE c = EOZ
  <2>1. source' = source /\ current' = EOZ
    BY <1>2, <1>3 DEF NextChar
  <2> DEFINE n == Len(source)
             k == n - 1
  <2>2. Passed' = n /\ Passed = k
    BY <2>1 DEF Passed
  <2>3. n \in Nat /\ n > 0
    BY <1>1
  <2>4. k \in Nat /\ k + 1 = n
    BY <2>3
  <2>5. IF source[k + 1] \notin Breaks \/ (Open1(source, k) /\ source[k + 1] # source[k])
        THEN ~Open1(source, k + 1) /\ Num(source, k + 1) = Num(source, k)
        ELSE Open1(source, k + 1) /\ Num(source, k + 1) = Num(source, k) + 1
    <3>1. k \in Nat /\ k + 1 <= Len(source)
      BY <2>3, <2>4
    <3> HIDE DEF k
    <3> QED
      BY <1>1, <3>1, EndsNext, Zenon
  <2>6. source[n] = current
    OBVIOUS
  <2> HIDE DEF n, k
  <2>7. IF current \notin Breaks \/ Paired(source, k, current)
        THEN ~Open1(source, n) /\ Num(source, n) = Num(source, k)
        ELSE Open1(source, n) /\ Num(source, n) = Num(source, k) + 1
    BY <2>4, <2>5, <2>6 DEF Paired
  <2>8. k \in Nat /\ source'[n] = current
    BY <2>1, <2>4, <2>6
  <2> QED
    BY <1>1, <2>1, <2>2, <2>3, <2>7, <2>8, Zenon DEF n
<1>4. CASE c # EOZ
  <2>1. source' = Append(source, c) /\ current' = c
    BY <1>2, <1>4 DEF NextChar
  <2> DEFINE n == Len(source)
             k == n - 1
             s == Append(source, c)
  <2>2. IsSeq(s) /\ Len(s) = n + 1 /\ \A i \in 1 .. n : s[i] = source[i]
    BY <1>1, SeqAppend
  <2>3. n \in Nat /\ n > 0
    BY <1>1
  <2> HIDE DEF s
  <2>4. Passed' = n /\ Passed = k
    <3>1. source' = s /\ current' # EOZ
      BY <1>4, <2>1 DEF s
    <3>2. Passed' = Len(s) - 1
      BY <3>1 DEF Passed
    <3>3. Passed = k
      BY DEF Passed
    <3> HIDE DEF k, n
    <3>4. (n + 1) - 1 = n
      BY <2>3
    <3> QED
      BY <2>2, <3>2, <3>3, <3>4
  <2>5. k \in Nat /\ k + 1 = n
    BY <2>3
  <2>6. IF s[k + 1] \notin Breaks \/ (Open1(s, k) /\ s[k + 1] # s[k])
        THEN ~Open1(s, k + 1) /\ Num(s, k + 1) = Num(s, k)
        ELSE Open1(s, k + 1) /\ Num(s, k + 1) = Num(s, k) + 1
    <3>1. k \in Nat /\ k + 1 <= n + 1
      BY <2>3, <2>5
    <3> HIDE DEF k, n
    <3> QED
      BY <2>2, <3>1, EndsNext, Zenon
  <2>7. \A j \in 0 .. n : Num(source, j) = Num(s, j) /\ (Open1(source, j) <=> Open1(s, j))
    <3>1. n \in Nat /\ n <= Len(source) /\ n <= Len(s) /\ \A i \in 1 .. n : source[i] = s[i]
      BY <2>2, <2>3
    <3> HIDE DEF n
    <3> QED
      BY <1>1, <2>2, <3>1, EndsAgree
  <2>8. source[n] = current
    OBVIOUS
  <2>9. s[n] = current
    BY <2>2, <2>3, <2>8
  <2>10. Num(source, k) = Num(s, k) /\ (Open1(source, k) <=> Open1(s, k))
    BY <2>3, <2>5, <2>7
  <2>11. ~Open1(s, k) \/ s[k] = source[k]
    <3>1. CASE k = 0
      BY <2>2, <3>1, EndsRule
    <3>2. CASE k # 0
      BY <2>2, <2>3, <2>5, <3>2
    <3> QED
      BY <3>1, <3>2
  <2> HIDE DEF n, k
  <2>12. IF current \notin Breaks \/ Paired(source, k, current)
         THEN ~Open1(s, n) /\ Num(s, n) = Num(source, k)
         ELSE Open1(s, n) /\ Num(s, n) = Num(source, k) + 1
    BY <2>5, <2>6, <2>9, <2>10, <2>11, Zenon DEF Paired
  <2>13. source' = s
    BY <2>1 DEF s
  <2>14. \A j \in 0 .. n : Num(source', j) = Num(source, j)
    BY <2>7, <2>13
  <2> QED
    BY <2>3, <2>4, <2>5, <2>9, <2>12, <2>13, <2>14, Zenon DEF n
<1> QED
  BY <1>3, <1>4

(* llex counts lines as Lua does, whatever is broken across a step of it.  *)
LEMMA CountLexes ==
    ASSUME IInv, SeenOK, LinesOK, Lexes
    PROVE  /\ CountOK' /\ lx # Idle /\ Counts
           /\ \A j \in 0 .. Len(source) : Num(source', j) = Num(source, j)
           /\ Still \/ current # EOZ
<1>1. lx # Idle /\ BufferOK
  BY LexMoves DEF IInv
<1>2. CallOK /\ CountOK
  BY <1>1 DEF LinesOK
<1>3. Counts
  BY <1>1, <1>2, LexCounts
<1>4. ASSUME Read1, current # EOZ
      PROVE  /\ Passed \in Nat /\ Passed' = Len(source) /\ Len(source) \in Nat /\ Len(source) > 0
             /\ source'[Passed'] = current
             /\ IF current \notin Breaks \/ Paired(source, Passed, current)
                THEN ~Open1(source', Passed') /\ Num(source', Passed') = Num(source, Passed)
                ELSE Open1(source', Passed') /\ Num(source', Passed') = Num(source, Passed) + 1
             /\ \A j \in 0 .. Len(source) : Num(source', j) = Num(source, j)
  <2>1. current = source[Len(source)]
    BY <1>4 DEF SeenOK
  <2> QED
    BY <1>1, <1>4, <2>1, CountMoves, Zenon
<1> DEFINE Same == \A j \in 0 .. Len(source) : Num(source', j) = Num(source, j)
<1> DEFINE Goal == CountOK' /\ Same /\ (Still \/ current # EOZ)
<1>5. ASSUME Over PROVE Goal
  <2>1. Read1 /\ current # EOZ /\ current \notin Breaks /\ lx.mode # "break2" /\ linenumber' = linenumber
        /\ (lx' # Idle => lx'.mode # "break2")
    BY <1>5 DEF Over, Tame, Away
  <2>2. Num(source, Passed) = linenumber
    BY <1>2, <2>1 DEF CountOK
  <2>3. ~Open1(source', Passed') /\ Num(source', Passed') = Num(source, Passed) /\ Same
    BY <1>4, <2>1
  <2>4. CountOK'
    BY <2>1, <2>2, <2>3 DEF CountOK, Paired
  <2> QED
    BY <2>1, <2>3, <2>4
<1>6. ASSUME Pauses PROVE Goal
  <2>1. source' = source /\ current' = current /\ linenumber' = linenumber /\ lx.mode # "break2"
        /\ (lx' # Idle => lx'.mode # "break2") /\ Still
    BY <1>6 DEF Pauses, Still, Away
  <2>2. Passed' = Passed
    BY <2>1 DEF Passed
  <2>3. Num(source, Passed) = linenumber /\ ~Paired(source, Passed, current)
    BY <1>2, <2>1 DEF CountOK
  <2>4. CountOK'
    BY <2>1, <2>2, <2>3 DEF CountOK
  <2> QED
    BY <2>1, <2>4
<1>7. ASSUME First PROVE Goal
  <2>1. Read1 /\ current \in Breaks /\ lx.mode # "break2" /\ lx.mode = "break" /\ lx' # Idle
    BY <1>2, <1>7 DEF First, CallOK
  <2>2. current # EOZ
    BY <2>1 DEF Breaks, EOZ
  <2>3. Num(source, Passed) = linenumber /\ ~Paired(source, Passed, current)
    BY <1>2, <2>1 DEF CountOK
  <2>4. /\ Open1(source', Passed') /\ Num(source', Passed') = linenumber + 1 /\ Same
        /\ source'[Passed'] = current
    BY <1>4, <2>1, <2>2, <2>3
  <2>5. CASE current' \in Breaks /\ current' # current
    <3>1. lx'.mode = "break2" /\ linenumber' = linenumber
      BY <1>7, <2>5 DEF First
    <3>2. Paired(source', Passed', current')
      BY <2>4, <2>5 DEF Paired
    <3>3. CountOK'
      BY <2>1, <2>4, <3>1, <3>2 DEF CountOK
    <3> QED
      BY <2>2, <2>4, <3>3
  <2>6. CASE ~(current' \in Breaks /\ current' # current)
    <3>1. lx'.mode = lx.back /\ linenumber' = linenumber + 1 /\ lx.back # "break2"
      BY <1>2, <1>7, <2>6 DEF First, CallOK, Away
    <3>2. ~Paired(source', Passed', current')
      BY <2>4, <2>6 DEF Paired
    <3>3. CountOK'
      BY <2>1, <2>4, <3>1, <3>2 DEF CountOK
    <3> QED
      BY <2>2, <2>4, <3>3
  <2> QED
    BY <2>5, <2>6
<1>8. ASSUME Second PROVE Goal
  <2>1. /\ Read1 /\ lx.mode = "break2" /\ lx' # Idle /\ lx'.mode = lx.back /\ lx.back # "break2"
        /\ linenumber' = linenumber + 1
    BY <1>2, <1>8 DEF Second, CallOK, Away
  <2>2. Num(source, Passed) = linenumber + 1 /\ Paired(source, Passed, current)
    BY <1>1, <1>2, <2>1 DEF CountOK
  <2>3. current # EOZ
    BY <2>2 DEF Paired, Breaks, EOZ
  <2>4. ~Open1(source', Passed') /\ Num(source', Passed') = linenumber + 1 /\ Same
    BY <1>4, <2>1, <2>2, <2>3
  <2>5. CountOK'
    BY <2>1, <2>4 DEF CountOK, Paired
  <2> QED
    BY <2>3, <2>4, <2>5
<1> QED
  BY <1>1, <1>3, <1>5, <1>6, <1>7, <1>8 DEF Counts

(* So the line noted with a token is the one that Lua says its text is on. *)
LEMMA LinesLexes ==
    ASSUME IInv, SeenOK, LinesOK, Lexes
    PROVE  LinesOK'
<1>1. /\ CountOK' /\ lx # Idle /\ Counts
      /\ \A j \in 0 .. Len(source) : Num(source', j) = Num(source, j)
      /\ Still \/ current # EOZ
  BY CountLexes
<1>2. /\ \/ EndOfText \/ GivesUp
         \/ ~(lx.mode = "start" /\ current = EOZ) /\ (GoesOn \/ Ends)
  BY LexMoves DEF Leaves, Stays, Takes, Drops
<1>3. Len(source) \in Nat
  BY SeqLength DEF IInv, BufferOK
<1>4. ASSUME NEW tok, Held(tok), LineAt(source, tok)
      PROVE  LineAt(source', tok)
  <2>1. tok.from \in 1 .. Len(source) + 1
    BY <1>4 DEF Held, InPlace
  <2>2. CASE Still
    BY <1>4, <2>2 DEF Still
  <2>3. CASE current # EOZ
    <3>1. tok.from <= Len(source)
      BY <1>4, <2>3 DEF Held
    <3>2. tok.from - 1 \in 0 .. Len(source)
      BY <1>3, <2>1
    <3> QED
      BY <1>1, <1>4, <3>1, <3>2 DEF LineAt
  <2> QED
    BY <1>1, <2>2, <2>3
<1>5. /\ t # NoToken => LineAt(source', t)
      /\ lookahead.token # EOS => LineAt(source', lookahead)
  BY <1>4 DEF IInv, TokensOK, LinesOK
<1>6. lx' # Idle => CallOK'
  BY <1>1 DEF Counts, Over, Pauses, First, Second
<1>7. CASE GivesUp
  BY <1>1, <1>5, <1>6, <1>7 DEF GivesUp, LinesOK
<1>8. CASE EndOfText
  <2> DEFINE tok == [Token(EOS) EXCEPT !.begin = Len(out), !.from = Len(source) + 1]
  <2>1. tok.from = Len(source) + 1 /\ source' = source
    BY <1>8 DEF Token, EndOfText
  <2>2. LineAt(source', tok)
    <3> HIDE DEF tok
    <3>1. ~(tok.from <= Len(source))
      BY <1>3, <2>1
    <3> QED
      BY <2>1, <3>1 DEF LineAt
  <2>3. Gives(tok)
    BY <1>8 DEF EndOfText
  <2> HIDE DEF tok
  <2> QED
    BY <1>1, <1>5, <2>2, <2>3 DEF Gives, LinesOK, Idle
<1>9. CASE ~(lx.mode = "start" /\ current = EOZ) /\ Reading
  <2>1. Held(lx) /\ Num(source, lx.from - 1) = lx.linebegin
    BY <1>1, <1>9 DEF LinesOK, Reading
  <2>2. lx.from \in 1 .. Len(source) + 1
    BY <2>1 DEF Held, InPlace
  <2>3. lx.from - 1 \in 0 .. Len(source)
    BY <1>3, <2>2
  <2>4. Num(source', lx.from - 1) = lx.linebegin
    BY <1>1, <2>1, <2>3
  <2>5. CASE GoesOn
    BY <1>1, <1>5, <1>6, <2>4, <2>5 DEF GoesOn, LinesOK
  <2>6. CASE Ends
    <3>1. PICK k : Gives(Token(k))
      BY <2>6 DEF Ends
    <3>2. LineAt(source', Token(k))
      BY <2>4 DEF Token, LineAt
    <3> QED
      BY <1>1, <1>5, <3>1, <3>2 DEF Gives, LinesOK, Idle
  <2> QED
    BY <1>2, <1>7, <1>8, <1>9, <2>5, <2>6
<1> QED
  BY <1>2, <1>7, <1>8, <1>9 DEF GoesOn, Ends

(* The parser changes of a token no more than its place in the buffer.     *)
LEMMA LinesStand ==
    ASSUME LinesOK, UNCHANGED <<source, current, linenumber, lx>>, t # NoToken,
           t'.from = t.from, t'.linebegin = t.linebegin,
           lookahead'.token = lookahead.token, lookahead'.from = lookahead.from,
           lookahead'.linebegin = lookahead.linebegin
    PROVE  LinesOK'
<1>1. CountOK' /\ (lx' # Idle => CallOK')
  BY DEF LinesOK, CountOK, Passed, CallOK, InText
<1>2. LineAt(source', t') /\ (lookahead'.token # EOS => LineAt(source', lookahead'))
  BY DEF LinesOK, LineAt
<1> QED
  BY <1>1, <1>2 DEF LinesOK

(* The same where llex is called, and when the token read ahead is taken.  *)
LEMMA LinesBegin ==
    ASSUME LinesOK, lx = Idle, UNCHANGED <<source, current, linenumber, t, lookahead>>,
           NEW to, Begin(to)
    PROVE  LinesOK'
<1>1. /\ lx'.mode = "start" /\ lx'.back = "start" /\ lx'.linebegin = linenumber
      /\ lx'.from = Len(source)
  BY DEF Begin
<1>2. CallOK' /\ CountOK'
  BY <1>1 DEF CallOK, InText, Away, Quoting, LinesOK, CountOK, Passed
<1>3. current' = EOZ \/ Num(source', lx'.from - 1) = lx'.linebegin
  BY <1>1 DEF LinesOK, CountOK, Passed
<1> QED
  BY <1>1, <1>2, <1>3 DEF LinesOK

LEMMA LinesNexts ==
    ASSUME IInv, LinesOK, Nexts \/ Looks
    PROVE  LinesOK'
<1>1. lx = Idle /\ UNCHANGED <<source, current, linenumber>>
  BY DEF Nexts, Looks, At, Parsing, LuaXNext, LuaXLookahead, input, lines
<1>2. CASE \E to : Begin(to) /\ UNCHANGED tokens
  BY <1>1, <1>2, LinesBegin DEF tokens
<1>3. CASE UNCHANGED <<t, lookahead, lx>>
  BY <1>1, <1>3 DEF LinesOK, CountOK, Passed
<1>4. CASE /\ lookahead.token # EOS /\ t' = lookahead
           /\ lookahead' = [lookahead EXCEPT !.token = EOS] /\ UNCHANGED lx
  <2>1. LineAt(source', t')
    BY <1>1, <1>4 DEF LinesOK
  <2>2. lookahead'.token = EOS
    BY <1>4 DEF IInv, TokensOK, IsToken
  <2> QED
    BY <1>1, <1>4, <2>1, <2>2 DEF LinesOK, CountOK, Passed
<1> QED
  BY <1>1, <1>2, <1>3, <1>4 DEF Nexts, Looks, LuaXNext, LuaXLookahead, tokens

(* The parser counts no lines.                                             *)
LEMMA CountStands ==
    ASSUME Parse
    PROVE  UNCHANGED linenumber
<1>1. /\ \A ops : Becomes(ops) \/ Enters(ops) => UNCHANGED linenumber
      /\ SyntaxError => UNCHANGED linenumber
  BY DEF Becomes, Enters, SyntaxError, lines
<1>2. Nexts \/ Unexpected \/ Looks \/ Writes \/ Finish => UNCHANGED linenumber
  BY <1>1 DEF Nexts, LuaXNext, Looks, LuaXLookahead, Unexpected, Writes, Finish, lines
<1>3. Statement \/ LocalStat \/ Terrastats \/ Structbody => UNCHANGED linenumber
  BY <1>1 DEF Statement, LocalStat, Terrastats, Structbody
<1>4. Subexpr \/ Pointer => UNCHANGED linenumber
  BY <1>1 DEF Subexpr, Pointer, lines
<1>5. Operators => UNCHANGED linenumber
  BY <1>1 DEF Operators, lines
<1>6. Simple \/ Constructor => UNCHANGED linenumber
  BY <1>1 DEF Simple, Constructor
<1>7. Suffix \/ Args \/ Embedded \/ Language => UNCHANGED linenumber
  BY <1>1 DEF Suffix, Args, Embedded, Language, lines
<1> QED
  BY <1>2, <1>3, <1>4, <1>5, <1>6, <1>7 DEF Parse

(* Where tokens are shifted, nothing else of them changes.                 *)
LEMMA ShiftedToken ==
    ASSUME NEW tok, IsToken(tok), NEW n
    PROVE  /\ [tok EXCEPT !.begin = n].from = tok.from
           /\ [tok EXCEPT !.begin = n].linebegin = tok.linebegin
           /\ [tok EXCEPT !.begin = n].token = tok.token
           /\ [tok EXCEPT !.begin = n].begin = n
  BY DEF IsToken

(* Every kind of step of the parser keeps the lines of tokens.             *)
LEMMA LinesStepped ==
    ASSUME SInv, LinesOK, Stepped, UNCHANGED linenumber
    PROVE  LinesOK'
<1>1. IInv
  BY DEF SInv
<1>2. CASE Pushed \/ Stopped
  BY <1>2 DEF Pushed, Stopped, Quiet, LinesOK, CountOK, Passed, CallOK, InText
<1>3. ASSUME Parsing, t # NoToken, UNCHANGED <<source, current, lx>>,
             NEW m, NEW n, t' = [t EXCEPT !.begin = m], lookahead' = [lookahead EXCEPT !.begin = n]
      PROVE  LinesOK'
  <2>1. IsToken(t) /\ IsToken(lookahead)
    BY <1>1 DEF IInv, TokensOK
  <2>2. /\ t'.from = t.from /\ t'.linebegin = t.linebegin
        /\ lookahead'.token = lookahead.token /\ lookahead'.from = lookahead.from
        /\ lookahead'.linebegin = lookahead.linebegin
    BY <1>3, <2>1, ShiftedToken
  <2> QED
    BY <1>3, <2>2, LinesStand
<1>4. ASSUME NEW text, NEW ops, Writing(text, ops) PROVE LinesOK'
  <2>1. Parsing /\ Patch(Head1[2], text) /\ UNCHANGED <<source, current, lx>> /\ Head1[1] # "next"
    BY <1>4 DEF Writing, Patchers
  <2>2. t # NoToken
    BY <1>1, <2>1, NotFirst
  <2>3. PICK m, n : t' = [t EXCEPT !.begin = m] /\ lookahead' = [lookahead EXCEPT !.begin = n]
    BY <2>1, Zenon DEF Patch, Shifted
  <2> QED
    BY <1>3, <2>1, <2>2, <2>3
<1>5. CASE Splits
  <2>1. Parsing /\ Insert(Separator) /\ UNCHANGED <<source, current, lx>> /\ Head1[1] # "next"
    BY <1>5 DEF Splits
  <2>2. t # NoToken
    BY <1>1, <2>1, NotFirst
  <2>3. PICK m, n : t' = [t EXCEPT !.begin = m] /\ lookahead' = [lookahead EXCEPT !.begin = n]
    BY <2>1 DEF Insert
  <2> QED
    BY <1>3, <2>1, <2>2, <2>3
<1> QED
  BY <1>2, <1>4, <1>5 DEF Stepped

LEMMA LinesKeeps ==
    ASSUME SInv, LinesOK, [Next]_vars
    PROVE  LinesOK'
<1>1. IInv /\ SeenOK
  BY DEF SInv
<1>2. CASE UNCHANGED vars
  BY <1>2 DEF vars, input, lines, tokens, LinesOK, CountOK, Passed, CallOK, InText
<1>3. CASE Next
  <2>1. Lexes \/ Nexts \/ Looks \/ (Stepped /\ Parse)
    BY <1>3, StepKinds DEF Next
  <2>2. ASSUME Stepped, Parse PROVE LinesOK'
    BY <2>2, CountStands, LinesStepped
  <2> QED
    BY <1>1, <2>1, <2>2, LinesLexes, LinesNexts
<1> QED
  BY <1>2, <1>3

LEMMA LinesBegins == Init => LinesOK
<1> SUFFICES ASSUME Init PROVE LinesOK
  OBVIOUS
<1>1. PICK c : source = <<c>>
  BY DEF Init, LexInit
<1>2. /\ t = NoToken /\ lookahead.token = EOS /\ lx = Idle /\ linenumber = 1 /\ current = c
  <2>1. source[1] = c
    BY <1>1
  <2> QED
    BY <2>1 DEF Init, LexInit, NoToken
<1>3. IsSeq(source) /\ Len(source) = 1
  BY <1>1, SeqShort
<1>4. Num(source, 0) = 1 /\ ~Open1(source, 0)
  BY <1>3, EndsRule
<1>5. CountOK
  <2>1. CASE c # EOZ
    <3>1. Passed = 0
      BY <1>2, <1>3, <2>1 DEF Passed
    <3> QED
      BY <1>2, <1>4, <3>1 DEF CountOK, Paired
  <2>2. CASE c = EOZ
    <3>1. Passed = 1 /\ current \notin Breaks
      BY <1>2, <1>3, <2>2 DEF Passed, Breaks, EOZ
    <3>2. source[0 + 1] = c /\ c \notin Breaks /\ 0 + 1 = 1
      BY <1>1, <2>2 DEF Breaks, EOZ
    <3>3. Num(source, 0 + 1) = Num(source, 0)
      <4>1. 0 \in Nat /\ 0 + 1 <= Len(source)
        BY <1>3
      <4>2. IF source[0 + 1] \notin Breaks \/ (Open1(source, 0) /\ source[0 + 1] # source[0])
            THEN ~Open1(source, 0 + 1) /\ Num(source, 0 + 1) = Num(source, 0)
            ELSE Open1(source, 0 + 1) /\ Num(source, 0 + 1) = Num(source, 0) + 1
        BY <1>3, <4>1, EndsNext, Zenon
      <4> QED
        BY <3>2, <4>2, Zenon
    <3>4. Num(source, 1) = 1
      BY <1>4, <3>2, <3>3, Zenon
    <3> QED
      BY <1>2, <3>1, <3>4 DEF CountOK, Paired
  <2> QED
    BY <2>1, <2>2
<1> QED
  BY <1>2, <1>5 DEF LinesOK

(* The first part of LinesKept, for any line ends.                         *)
LEMMA LinesCounted ==
    ASSUME SInv, LinesOK, t.token # EOS
    PROVE  t.linebegin = Lines(source)[t.from]
<1>1. t # NoToken
  BY DEF NoToken
<1>2. t.from \in 1 .. Len(source) + 1 /\ Seen(source, current, t.from)
  BY <1>1, TokenThere DEF SInv, IInv, SeenOK
<1>3. Len(source) \in Nat
  BY <1>1, TokenThere DEF SInv, IInv
<1>4. t.from <= Len(source)
  <2>1. PICK f \in t.from .. Len(source) : TRUE
    BY <1>2 DEF Seen
  <2> QED
    BY <1>2, <1>3, <2>1
<1>5. Num(source, t.from - 1) = t.linebegin
  BY <1>1, <1>4 DEF LinesOK, LineAt
<1>6. Lines(source)[t.from] = Num(source, t.from - 1)
  BY <1>2, LinesAre
<1> QED
  BY <1>5, <1>6
-----------------------------------------------------------------------------
(* The newlines of a buffer up to a place.                                 *)
NL(o, j) == Upto({k \in Nat : o[k].c = "\n"}, j)

(* Of how many of the first cells are newlines.                            *)
LEMMA NLType == \A o : NL(o, 0) = 0 /\ \A j \in Nat : NL(o, j) \in Nat
  BY UptoBegins, UptoType DEF NL

LEMMA NLSame ==
    ASSUME NEW o, NEW o2, NEW j \in Nat, \A k \in 1 .. j : o2[k].c = o[k].c
    PROVE  NL(o2, j) = NL(o, j)
<1> DEFINE T == {k \in Nat : o2[k].c = "\n"}
           S == {k \in Nat : o[k].c = "\n"}
<1>1. \A k \in 1 .. j : k \in T <=> k \in S
  OBVIOUS
<1> HIDE DEF T, S
<1>2. Upto(T, j) = Upto(S, j)
  BY <1>1, UptoSame
<1> QED
  BY <1>2 DEF NL, T, S

LEMMA NLNext ==
    ASSUME NEW o, NEW j \in Nat
    PROVE  NL(o, j + 1) = IF o[j + 1].c = "\n" THEN NL(o, j) + 1 ELSE NL(o, j)
<1> DEFINE T == {k \in Nat : o[k].c = "\n"}
<1>1. j + 1 \in T <=> o[j + 1].c = "\n"
  OBVIOUS
<1> HIDE DEF T
<1>2. Upto(T, j + 1) = IF j + 1 \in T THEN Upto(T, j) + 1 ELSE Upto(T, j)
  BY UptoNext
<1> QED
  BY <1>1, <1>2 DEF NL, T

(* From two places on, the same.                                           *)
Alike(o, a, o2, b, n) ==
    /\ a \in Nat /\ b \in Nat /\ n \in Nat
    /\ \A k \in 1 .. n : o2[b + k].c = o[a + k].c

LEMMA NLAlike ==
    ASSUME NEW o, NEW o2, NEW a, NEW b, NEW n, Alike(o, a, o2, b, n)
    PROVE  /\ NL(o2, b + n) = NL(o2, b) + (NL(o, a + n) - NL(o, a))
           /\ NL(o, a) <= NL(o, a + n)
           /\ NL(o, a) \in Nat /\ NL(o, a + n) \in Nat /\ NL(o2, b) \in Nat /\ NL(o2, b + n) \in Nat
<1>0. /\ a \in Nat /\ b \in Nat /\ n \in Nat
      /\ \A k \in 1 .. n : o2[b + k].c = o[a + k].c
  BY DEF Alike
<1> USE <1>0
<1> DEFINE I == {j \in 0 .. n : /\ NL(o2, b + j) = NL(o2, b) + (NL(o, a + j) - NL(o, a))
                                /\ NL(o, a) <= NL(o, a + j)}
<1>1. \A j \in Nat : NL(o, j) \in Nat /\ NL(o2, j) \in Nat
  BY NLType
<1>2. 0 \in I
  <2>1. a + 0 = a /\ b + 0 = b /\ 0 \in 0 .. n
    OBVIOUS
  <2>2. NL(o, a) \in Nat /\ NL(o2, b) \in Nat
    BY <1>1
  <2> QED
    BY <2>1, <2>2
<1>3. ASSUME NEW j \in 0 .. n, j < n, j \in I PROVE j + 1 \in I
  <2>1. /\ j + 1 \in 1 .. n /\ j + 1 \in 0 .. n /\ a + j \in Nat /\ b + j \in Nat
        /\ (a + j) + 1 = a + (j + 1) /\ (b + j) + 1 = b + (j + 1)
    BY <1>3
  <2> DEFINE x == NL(o, a + j)
             y == NL(o2, b + j)
             p == NL(o, a)
             q == NL(o2, b)
             z == NL(o, a + (j + 1))
             w == NL(o2, b + (j + 1))
  <2>2. x \in Nat /\ y \in Nat /\ p \in Nat /\ q \in Nat
    BY <1>1, <2>1
  <2>3. y = q + (x - p) /\ p <= x
    BY <1>3
  <2>4. o2[b + (j + 1)].c = o[a + (j + 1)].c
    BY <2>1
  <2>5. z = IF o[a + (j + 1)].c = "\n" THEN x + 1 ELSE x
    BY <2>1, NLNext
  <2>6. w = IF o2[b + (j + 1)].c = "\n" THEN y + 1 ELSE y
    BY <2>1, NLNext
  <2> HIDE DEF x, y, p, q, z, w
  <2>7. \/ z = x + 1 /\ w = y + 1
        \/ z = x /\ w = y
    BY <2>4, <2>5, <2>6
  <2>8. w = q + (z - p) /\ p <= z
    BY <2>2, <2>3, <2>7
  <2> QED
    BY <2>1, <2>8 DEF p, q, z, w
<1>4. \A j \in 0 .. n : j \in I
  <2> HIDE DEF I
  <2> QED
    BY <1>2, <1>3, Induction
<1>5. n \in I
  BY <1>4
<1> QED
  BY <1>1, <1>5

LEMMA NLGrows ==
    ASSUME NEW o, NEW i \in Nat, NEW j \in Nat, i <= j
    PROVE  NL(o, i) <= NL(o, j) /\ NL(o, i) \in Nat /\ NL(o, j) \in Nat
<1> DEFINE n == j - i
<1>1. n \in Nat /\ i + n = j
  OBVIOUS
<1> HIDE DEF n
<1>2. Alike(o, i, o, i, n)
  BY <1>1 DEF Alike
<1>3. NL(o, i) <= NL(o, i + n) /\ NL(o, i) \in Nat /\ NL(o, i + n) \in Nat
  BY <1>2, NLAlike
<1> QED
  BY <1>1, <1>3

(* Nothing but newlines, and none.                                         *)
LEMMA NLAll ==
    ASSUME NEW o, NEW a \in Nat, NEW n \in Nat
    PROVE  /\ (\A k \in 1 .. n : o[a + k].c = "\n") => NL(o, a + n) = NL(o, a) + n
           /\ (\A k \in 1 .. n : o[a + k].c # "\n") => NL(o, a + n) = NL(o, a)
<1>1. ASSUME NEW d \in {0, 1}, \A k \in 1 .. n : NL(o, a + k) = NL(o, a + (k - 1)) + d
      PROVE  NL(o, a + n) = NL(o, a) + (IF d = 1 THEN n ELSE 0)
  <2> DEFINE I == {j \in 0 .. n : NL(o, a + j) = NL(o, a) + (IF d = 1 THEN j ELSE 0)}
  <2>1. NL(o, a) \in Nat
    BY NLType
  <2>2. 0 \in I
    <3>1. a + 0 = a /\ 0 \in 0 .. n
      OBVIOUS
    <3> QED
      BY <2>1, <3>1
  <2>3. ASSUME NEW j \in 0 .. n, j < n, j \in I PROVE j + 1 \in I
    <3>1. j + 1 \in 1 .. n /\ j + 1 \in 0 .. n /\ (j + 1) - 1 = j
      BY <2>3
    <3>2. NL(o, a + (j + 1)) = NL(o, a + j) + d
      BY <1>1, <3>1
    <3>3. NL(o, a + j) = NL(o, a) + (IF d = 1 THEN j ELSE 0)
      BY <2>3
    <3> DEFINE x == NL(o, a)
               y == NL(o, a + j)
               z == NL(o, a + (j + 1))
    <3> HIDE DEF x, y, z
    <3>4. z = y + d /\ y = x + (IF d = 1 THEN j ELSE 0) /\ x \in Nat
      BY <2>1, <3>2, <3>3 DEF x, y, z
    <3>5. z = x + (IF d = 1 THEN j + 1 ELSE 0)
      BY <3>4
    <3> QED
      BY <3>1, <3>5 DEF x, z
  <2>4. \A j \in 0 .. n : j \in I
    <3> HIDE DEF I
    <3> QED
      BY <2>2, <2>3, Induction
  <2> QED
    BY <2>4
<1>2. \A k \in 1 .. n : NL(o, a + k) = IF o[a + k].c = "\n" THEN NL(o, a + (k - 1)) + 1
                                                           ELSE NL(o, a + (k - 1))
  <2> SUFFICES ASSUME NEW k \in 1 .. n
               PROVE  NL(o, a + k) = IF o[a + k].c = "\n" THEN NL(o, a + (k - 1)) + 1
                                                          ELSE NL(o, a + (k - 1))
    OBVIOUS
  <2> DEFINE j == a + (k - 1)
  <2>1. j \in Nat /\ j + 1 = a + k
    OBVIOUS
  <2>2. NL(o, j + 1) = IF o[j + 1].c = "\n" THEN NL(o, j) + 1 ELSE NL(o, j)
    <3> HIDE DEF j
    <3> QED
      BY <2>1, NLNext
  <2> HIDE DEF j
  <2> QED
    BY <2>1, <2>2 DEF j
<1>3. \A k \in 1 .. n : NL(o, a + (k - 1)) \in Nat
  BY NLType
<1>4. ASSUME \A k \in 1 .. n : o[a + k].c = "\n"
      PROVE  NL(o, a + n) = NL(o, a) + n
  <2>1. \A k \in 1 .. n : NL(o, a + k) = NL(o, a + (k - 1)) + 1
    BY <1>2, <1>4
  <2>2. NL(o, a + n) = NL(o, a) + (IF 1 = 1 THEN n ELSE 0)
    BY <1>1, <2>1
  <2> QED
    BY <2>2
<1>5. ASSUME \A k \in 1 .. n : o[a + k].c # "\n"
      PROVE  NL(o, a + n) = NL(o, a)
  <2>1. \A k \in 1 .. n : NL(o, a + k) = NL(o, a + (k - 1)) + 0
    <3> SUFFICES ASSUME NEW k \in 1 .. n PROVE NL(o, a + k) = NL(o, a + (k - 1)) + 0
      OBVIOUS
    <3> DEFINE x == NL(o, a + (k - 1))
    <3>1. x \in Nat /\ NL(o, a + k) = x
      BY <1>2, <1>3, <1>5
    <3> HIDE DEF x
    <3> QED
      BY <3>1 DEF x
  <2>2. NL(o, a + n) = NL(o, a) + (IF 0 = 1 THEN n ELSE 0)
    BY <1>1, <2>1
  <2>3. NL(o, a) \in Nat
    BY NLType
  <2> QED
    BY <2>2, <2>3
<1> QED
  BY <1>4, <1>5

(* The count of a sequence's newlines.                                     *)
LEMMA NLCount ==
    ASSUME NEW s, IsSeq(s)
    PROVE  Newlines(s) = NL(s, Len(s))
<1>1. Len(s) \in Nat /\ DOMAIN s = 1 .. Len(s)
  BY SeqLength
<1>2. {i \in DOMAIN s : s[i].c = "\n"} = {k \in Nat : s[k].c = "\n"} \cap (1 .. Len(s))
  BY <1>1
<1> QED
  BY <1>2 DEF Newlines, NL, Upto
-----------------------------------------------------------------------------
(* The lines of what is in the buffer.                                     *)
Plain == \A i \in 1 .. Len(source) : source[i] # "\r"

(* What a cell's line o may be, given which one it was read from.          *)
LineOK(cell, line, s) ==
    /\ cell.c # "\r" /\ cell.at \in 0 .. Len(s)
    /\ cell.at # 0 => IF cell.copied THEN line <= Num(s, cell.at - 1)
                                     ELSE line = Num(s, cell.at - 1)
CellAt(o, s, i) == LineOK(o[i], 1 + NL(o, i - 1), s)
CellsLined == \A i \in 1 .. Len(out) : CellAt(out, source, i)

(* What a token notes of its line, where there is text behind it.          *)
MarkAt(o, tok) == tok.begin < Len(o) => tok.linebegin = 1 + NL(o, tok.begin)
MarksLined == \A p \in 1 .. Len(todo) : todo[p][1] \in Marked => MarkAt(out, todo[p][2])

(* More is read, and the lines of what there was stay.                     *)
Longer(s, s2) == /\ Len(s) \in Nat /\ Len(s2) \in Nat /\ Len(s) <= Len(s2)
                 /\ \A j \in 0 .. Len(s) : Num(s2, j) = Num(s, j)

LEMMA LineStays ==
    ASSUME NEW s, NEW s2, Longer(s, s2), NEW cell, NEW line, LineOK(cell, line, s)
    PROVE  LineOK(cell, line, s2)
<1>1. cell.at # 0 => cell.at - 1 \in 0 .. Len(s)
  BY DEF LineOK, Longer
<1>2. cell.at \in 0 .. Len(s2)
  BY DEF LineOK, Longer
<1>3. cell.at # 0 => Num(s2, cell.at - 1) = Num(s, cell.at - 1)
  BY <1>1 DEF Longer
<1> QED
  BY <1>2, <1>3 DEF LineOK

LEMMA PlainStep ==
    ASSUME NEW s, IsSeq(s), \A i \in 1 .. Len(s) : s[i] # "\r", NEW j \in Nat, j + 1 <= Len(s)
    PROVE  Num(s, j + 1) = (IF s[j + 1] = "\n" THEN Num(s, j) + 1 ELSE Num(s, j)) /\ Num(s, j) \in Nat
<1>1. Len(s) \in Nat
  BY SeqLength
<1>2. j \in 0 .. Len(s) /\ j + 1 \in 0 .. Len(s)
  BY <1>1
<1>3. \A k \in 0 .. Len(s) : Num(s, k) = 1 + Upto(Feeds(s), k)
  BY PlainNum
<1> DEFINE F == Feeds(s)
           a == Upto(F, j)
           z == Upto(F, j + 1)
<1>4. Num(s, j) = 1 + a /\ Num(s, j + 1) = 1 + z
  BY <1>2, <1>3
<1>5. a \in Nat
  BY UptoType
<1>6. (j + 1 \in F => z = a + 1) /\ (j + 1 \notin F => z = a)
  BY UptoNext
<1>7. j + 1 \in F <=> s[j + 1] = "\n"
  BY <1>1 DEF Feeds
<1> HIDE DEF F, a, z
<1> QED
  BY <1>4, <1>5, <1>6, <1>7

(* The current token begins on the line that it notes.                     *)
LEMMA TokenLine ==
    ASSUME IInv, LinesOK, CellsLined, t # NoToken
    PROVE  MarkAt(out, t)
<1> SUFFICES ASSUME t.begin < Len(out) PROVE t.linebegin = 1 + NL(out, t.begin)
  BY DEF MarkAt
<1>1. /\ t.from \in 1 .. Len(source) + 1 /\ t.begin \in 0 .. Len(out)
      /\ Held(t) /\ Len(out) \in Nat /\ Len(source) \in Nat
  BY TokenThere DEF IInv
<1>2. /\ Len(out) - t.begin = Len(source) + 1 - t.from
      /\ \A i \in t.from .. Len(source) : out[t.begin + 1 + (i - t.from)] = Cell(source, i)
  BY <1>1 DEF Held, InPlace
<1>3. t.from <= Len(source) /\ t.from \in t.from .. Len(source) /\ t.begin + 1 + (t.from - t.from) = t.begin + 1
  BY <1>1, <1>2
<1>4. out[t.begin + 1] = Cell(source, t.from)
  BY <1>2, <1>3
<1>5. t.begin + 1 \in 1 .. Len(out) /\ (t.begin + 1) - 1 = t.begin
  BY <1>1
<1>6. LineOK(Cell(source, t.from), 1 + NL(out, t.begin), source)
  BY <1>4, <1>5 DEF CellsLined, CellAt
<1>7. Cell(source, t.from).at = t.from /\ Cell(source, t.from).copied = FALSE
  BY DEF Cell
<1>8. 1 + NL(out, t.begin) = Num(source, t.from - 1)
  BY <1>1, <1>6, <1>7 DEF LineOK
<1> QED
  BY <1>3, <1>8 DEF LinesOK, LineAt
-----------------------------------------------------------------------------
(* The text that an operator has kept of its left operand is where it was  *)
(* in the buffer, up to q.                                                 *)
Spans(b, text, o, q) ==
    \E h \in b .. q - 1 :
        /\ \A i \in b + 1 .. h : o[i].c \in White
        /\ o[h + 1].c \notin White
        /\ Len(text) = q - h
        /\ \A i \in 1 .. q - h : text[i] = o[h + i]

(* Of what the first x cells hold an operation knows that.                 *)
Rests(op, o, x) ==
    /\ op[1] = "pointer" => op[3].begin <= x /\ Gap(o, op[2].begin, op[3].begin)
    /\ op[1] = "combine" => op[4].begin <= x
    /\ op[1] \in {"more", "right", "combine"} /\ op[3] # NoText =>
          \E q \in 0 .. x : Spans(op[2].begin, op[3], o, q) /\ (op[1] = "combine" => q <= op[4].begin)
(* Each operation knows that up to somewhere in front of what the          *)
(* operations before it can replace.                                       *)
HoldsOK ==
    \A p \in 1 .. Len(todo) : \E x \in 0 .. t.begin :
        /\ Rests(todo[p], out, x)
        /\ \A r \in 1 .. p - 1 : \A y \in Mark(todo[r]) : x <= y

(* What keeps the lines. Cells are on theirs only in text without \r: of   *)
(* \r\n luaX_patchbegin makes two lines.                                   *)
PInv == LinesOK /\ HoldsOK /\ (Plain => CellsLined /\ MarksLined)

LEMMA RestsSame ==
    ASSUME NEW op, OpOK(op), NEW o, NEW o2, NEW x \in Nat, Rests(op, o, x),
           \A i \in 1 .. x : o2[i] = o[i], Mark(op) \subseteq Nat
    PROVE  Rests(op, o2, x)
<1>1. op[1] \in {"pointer", "more", "right", "combine"} => op[2].begin \in Nat
  BY DEF Mark, Marked
<1>2. ASSUME op[1] = "pointer"
      PROVE  op[3].begin <= x /\ Gap(o2, op[2].begin, op[3].begin)
  <2>1. op[3].begin <= x /\ Gap(o, op[2].begin, op[3].begin) /\ op[3].begin \in Int /\ op[2].begin \in Nat
    BY <1>1, <1>2 DEF Rests, OpOK
  <2>2. PICK i \in op[2].begin + 1 .. op[3].begin : o[i].c \notin White
    BY <2>1 DEF Gap
  <2>3. i \in 1 .. x
    BY <2>1
  <2> QED
    BY <2>1, <2>2, <2>3 DEF Gap
<1>3. ASSUME op[1] \in {"more", "right", "combine"}, NEW q \in 0 .. x, Spans(op[2].begin, op[3], o, q)
      PROVE  Spans(op[2].begin, op[3], o2, q)
  <2>1. PICK h \in op[2].begin .. q - 1 :
            /\ \A i \in op[2].begin + 1 .. h : o[i].c \in White
            /\ o[h + 1].c \notin White
            /\ Len(op[3]) = q - h
            /\ \A i \in 1 .. q - h : op[3][i] = o[h + i]
    BY <1>3 DEF Spans
  <2>2. op[2].begin \in Nat /\ h \in Nat /\ q \in Nat /\ h < q /\ q <= x
    BY <1>1, <1>3
  <2>3. /\ \A i \in op[2].begin + 1 .. h : i \in 1 .. x
        /\ h + 1 \in 1 .. x
        /\ \A i \in 1 .. q - h : h + i \in 1 .. x
    BY <2>2
  <2>4. /\ \A i \in op[2].begin + 1 .. h : o2[i].c \in White
        /\ o2[h + 1].c \notin White
        /\ \A i \in 1 .. q - h : op[3][i] = o2[h + i]
    BY <2>1, <2>3
  <2> QED
    BY <2>1, <2>4 DEF Spans
<1> QED
  BY <1>2, <1>3 DEF Rests

(* Where the operations behind the first one stay, and what is in front of *)
(* what they refer to.                                                     *)
LEMMA HoldsPut ==
    ASSUME TodoOK, HoldsOK, todo # <<>>, NEW ops, IsSeq(ops), Put(ops), NEW m \in Nat,
           t.begin \in Nat, t'.begin \in Nat, m <= t'.begin,
           \A x \in 0 .. t.begin : (\A y \in Mark(Head1) : x <= y)
               => x <= m /\ \A i \in 1 .. x : out'[i] = out[i],
           \A i \in 1 .. Len(ops) : \A y \in Mark(ops[i]) : y \in Int /\ m <= y,
           \A i \in 1 .. Len(ops) : \E x \in 0 .. t'.begin :
               /\ Rests(ops[i], out', x)
               /\ \A r \in 1 .. i - 1 : \A y \in Mark(ops[r]) : x <= y
    PROVE  HoldsOK'
<1> SUFFICES ASSUME NEW p \in 1 .. Len(todo')
             PROVE  \E x \in 0 .. t'.begin :
                       /\ Rests(todo'[p], out', x)
                       /\ \A r \in 1 .. p - 1 : \A y \in Mark(todo'[r]) : x <= y
  BY DEF HoldsOK, Rests, Spans, Gap, Mark
<1>1. /\ Len(ops) \in Nat /\ Len(todo) \in Nat /\ Len(todo) > 0
      /\ IsSeq(todo') /\ Len(todo') = Len(ops) + Len(todo) - 1
      /\ \A i \in 1 .. Len(ops) : todo'[i] = ops[i]
      /\ \A i \in 1 .. Len(todo') :
            \/ i \in 1 .. Len(ops)
            \/ \E k \in 2 .. Len(todo) : i = Len(ops) + k - 1 /\ todo'[i] = todo[k]
  BY PutPlaces
<1>2. CASE p \in 1 .. Len(ops)
  <2>1. PICK x \in 0 .. t'.begin : /\ Rests(ops[p], out', x)
                                   /\ \A r \in 1 .. p - 1 : \A y \in Mark(ops[r]) : x <= y
    BY <1>2
  <2>2. \A r \in 1 .. p - 1 : todo'[r] = ops[r]
    BY <1>1, <1>2
  <2> QED
    BY <1>1, <1>2, <2>1, <2>2
<1>3. CASE p \notin 1 .. Len(ops)
  <2>1. PICK k \in 2 .. Len(todo) : p = Len(ops) + k - 1 /\ todo'[p] = todo[k]
    BY <1>1, <1>3
  <2>2. k \in 1 .. Len(todo) /\ 1 \in 1 .. k - 1 /\ todo[1] = Head1
    BY <1>1 DEF Head1
  <2>3. PICK x \in 0 .. t.begin : /\ Rests(todo[k], out, x)
                                  /\ \A r \in 1 .. k - 1 : \A y \in Mark(todo[r]) : x <= y
    BY <2>2 DEF HoldsOK
  <2>4. x <= m /\ \A i \in 1 .. x : out'[i] = out[i]
    BY <2>2, <2>3
  <2>5. x \in 0 .. t'.begin
    BY <2>3, <2>4
  <2>6. Rests(todo[k], out', x)
    <3>1. OpOK(todo[k]) /\ Mark(todo[k]) \subseteq Nat
      BY <2>2 DEF TodoOK
    <3> QED
      BY <2>3, <2>4, <3>1, RestsSame
  <2>7. ASSUME NEW r \in 1 .. p - 1, NEW y \in Mark(todo'[r])
        PROVE  x <= y
    <3>1. r \in 1 .. Len(todo')
      BY <1>1
    <3>2. CASE r \in 1 .. Len(ops)
      <4>1. y \in Int /\ m <= y
        BY <1>1, <2>7, <3>2
      <4> QED
        BY <2>4, <4>1
    <3>3. CASE r \notin 1 .. Len(ops)
      <4>1. PICK l \in 2 .. Len(todo) : r = Len(ops) + l - 1 /\ todo'[r] = todo[l]
        BY <1>1, <3>1, <3>3
      <4>2. l \in 1 .. k - 1
        BY <1>1, <2>1, <4>1
      <4> QED
        BY <2>3, <2>7, <4>1, <4>2
    <3> QED
      BY <3>2, <3>3
  <2> QED
    BY <2>1, <2>5, <2>6, <2>7
<1> QED
  BY <1>2, <1>3

LEMMA MarksPut ==
    ASSUME TodoOK, todo # <<>>, NEW ops, IsSeq(ops), Put(ops),
           \A k \in 2 .. Len(todo) : todo[k][1] \in Marked => MarkAt(out', todo[k][2]),
           \A i \in 1 .. Len(ops) : ops[i][1] \in Marked => MarkAt(out', ops[i][2])
    PROVE  MarksLined'
<1> SUFFICES ASSUME NEW p \in 1 .. Len(todo'), todo'[p][1] \in Marked
             PROVE  MarkAt(out', todo'[p][2])
  BY DEF MarksLined, Marked, MarkAt, NL, Upto
<1>1. /\ \A i \in 1 .. Len(ops) : todo'[i] = ops[i]
      /\ \/ p \in 1 .. Len(ops)
         \/ \E k \in 2 .. Len(todo) : p = Len(ops) + k - 1 /\ todo'[p] = todo[k]
  BY PutPlaces
<1> QED
  BY <1>1
-----------------------------------------------------------------------------
(* What the first operation refers to.                                     *)
LEMMA FirstThere ==
    ASSUME IInv, Parsing, Head1[1] # "next"
    PROVE  /\ TodoOK /\ todo # <<>> /\ t # NoToken /\ OpOK(Head1)
           /\ t.begin \in Nat /\ t.begin <= Len(out) /\ Len(out) \in Nat
           /\ 1 \in 1 .. Len(todo) /\ todo[1] = Head1 /\ Len(todo) \in Nat
           /\ Mark(Head1) \subseteq 0 .. t.begin
           /\ Head1[1] \in Marked => Head1[2].begin \in 0 .. t.begin /\ Mark(Head1) = {Head1[2].begin}
<1>1. TodoOK /\ todo # <<>> /\ t # NoToken
  BY NotFirst DEF IInv, Parsing
<1>2. OpOK(Head1) /\ Mark(Head1) \subseteq 0 .. t.begin
  BY <1>1, Rest
<1>3. t.begin \in 0 .. Len(out) /\ Len(out) \in Nat
  BY <1>1, TokenThere DEF IInv
<1>4. 1 \in 1 .. Len(todo) /\ todo[1] = Head1 /\ Len(todo) \in Nat
  <2>1. IsSeq(todo)
    BY <1>1 DEF TodoOK
  <2>2. Len(todo) > 0 /\ Len(todo) \in Nat
    BY <1>1, <2>1, SeqTail, SeqLength
  <2> QED
    BY <2>2 DEF Head1
<1> QED
  BY <1>1, <1>2, <1>3, <1>4 DEF Mark

(* Operations that come into the place of the first one, where nothing is  *)
(* written.                                                                *)
LEMMA HoldsPush ==
    ASSUME IInv, HoldsOK, Parsing, Head1[1] # "next", UNCHANGED <<out, t>>, NEW ops, IsSeq(ops), Put(ops),
           \A i \in 1 .. Len(ops) : ops[i][1] \in Marked =>
               ops[i][2] = t \/ (Head1[1] \in Marked /\ ops[i][2] = Head1[2]),
           \A i \in 1 .. Len(ops) : \E x \in 0 .. t.begin :
               /\ Rests(ops[i], out, x)
               /\ \A r \in 1 .. i - 1 : \A y \in Mark(ops[r]) : x <= y
    PROVE  HoldsOK'
<1>1. /\ TodoOK /\ todo # <<>> /\ t # NoToken /\ OpOK(Head1)
      /\ t.begin \in Nat /\ Mark(Head1) \subseteq 0 .. t.begin
      /\ Head1[1] \in Marked => Head1[2].begin \in 0 .. t.begin /\ Mark(Head1) = {Head1[2].begin}
  BY FirstThere
<1> DEFINE m == IF Head1[1] \in Marked THEN Head1[2].begin ELSE t.begin
<1>2. m \in Nat /\ m <= t.begin
  BY <1>1
<1>3. \A i \in 1 .. Len(ops) : \A y \in Mark(ops[i]) : y \in Int /\ m <= y
  BY <1>1 DEF Mark
<1>4. \A x \in 0 .. t.begin : (\A y \in Mark(Head1) : x <= y)
               => x <= m /\ \A i \in 1 .. x : out'[i] = out[i]
  BY <1>1
<1> HIDE DEF m
<1>5. /\ t'.begin \in Nat /\ m <= t'.begin
      /\ \A i \in 1 .. Len(ops) : \E x \in 0 .. t'.begin :
               /\ Rests(ops[i], out', x)
               /\ \A r \in 1 .. i - 1 : \A y \in Mark(ops[r]) : x <= y
  BY <1>1, <1>2
<1> QED
  BY <1>1, <1>2, <1>3, <1>4, <1>5, HoldsPut

(* Operations that keep nothing but tokens.                                *)
LEMMA HoldsElse ==
    ASSUME SInv, HoldsOK, Pushed, Head1[1] \notin Operands
    PROVE  HoldsOK'
<1>1. PICK ops : Put(ops) /\ Fit(ops)
  BY DEF Pushed
<1>2. /\ IInv /\ Parsing /\ UNCHANGED <<out, t>> /\ Head1[1] # "next" /\ IsSeq(ops)
      /\ \A i \in 1 .. Len(ops) : Kin(ops[i])
  BY <1>1 DEF SInv, Pushed, Quiet, Fit, OpFit
<1>3. t.begin \in Nat
  BY <1>2, FirstThere
<1>4. ASSUME NEW i \in 1 .. Len(ops)
      PROVE  \E x \in 0 .. t.begin :
               /\ Rests(ops[i], out, x)
               /\ \A r \in 1 .. i - 1 : \A y \in Mark(ops[r]) : x <= y
  <2>1. Rests(ops[i], out, 0)
    BY <1>2 DEF Kin, Rests
  <2>2. \A r \in 1 .. i - 1 : r \in 1 .. Len(ops)
    <3>1. Len(ops) \in Nat
      BY <1>2, SeqLength
    <3> QED
      BY <3>1
  <2>3. \A r \in 1 .. Len(ops) : \A y \in Mark(ops[r]) : 0 <= y
    <3>1. Head1[1] \in Marked => Head1[2].begin \in Nat
      BY <1>2, FirstThere
    <3> QED
      BY <1>2, <1>3, <3>1 DEF Kin, Mark
  <2> QED
    BY <1>3, <2>1, <2>2, <2>3
<1> QED
  BY <1>1, <1>2, <1>4, HoldsPush DEF Kin

(* The lines, where nothing is written.                                    *)
LEMMA LinesPush ==
    ASSUME SInv, LinesOK, CellsLined, MarksLined, Pushed
    PROVE  CellsLined' /\ MarksLined'
<1>1. PICK ops : Put(ops) /\ Fit(ops)
  BY DEF Pushed
<1>2. /\ IInv /\ Parsing /\ UNCHANGED <<out, t, source>> /\ Head1[1] # "next" /\ IsSeq(ops)
      /\ \A i \in 1 .. Len(ops) : Kin(ops[i])
  BY <1>1 DEF SInv, Pushed, Quiet, Fit, OpFit
<1>3. TodoOK /\ todo # <<>> /\ t # NoToken /\ 1 \in 1 .. Len(todo) /\ todo[1] = Head1 /\ Len(todo) \in Nat
  BY <1>2, FirstThere
<1>4. CellsLined'
  BY <1>2 DEF CellsLined, CellAt
<1>5. MarkAt(out, t) /\ (Head1[1] \in Marked => MarkAt(out, Head1[2]))
  <2>1. MarkAt(out, t)
    BY <1>2, <1>3, TokenLine
  <2> QED
    BY <1>3, <2>1 DEF MarksLined
<1>6. \A i \in 1 .. Len(ops) : ops[i][1] \in Marked => MarkAt(out', ops[i][2])
  BY <1>2, <1>5 DEF Kin
<1>7. \A k \in 2 .. Len(todo) : todo[k][1] \in Marked => MarkAt(out', todo[k][2])
  <2>1. \A k \in 2 .. Len(todo) : k \in 1 .. Len(todo)
    BY <1>3
  <2> QED
    BY <1>2, <2>1 DEF MarksLined
<1>8. MarksLined'
  BY <1>1, <1>2, <1>3, <1>6, <1>7, MarksPut
<1> QED
  BY <1>4, <1>8
-----------------------------------------------------------------------------
(* What Trimmed leaves of an operand's text, and where it is.              *)
LEMMA TrimmedThere ==
    ASSUME IsSeq(out), NEW tok, tok.begin \in Nat, t.begin \in Nat, t.begin <= Len(out),
           Gap(out, tok.begin, t.begin)
    PROVE  \E h \in tok.begin .. t.begin - 1 :
              /\ \A i \in tok.begin + 1 .. h : out[i].c \in White
              /\ out[h + 1].c \notin White
              /\ Len(Trimmed(Output(tok))) = t.begin - h
              /\ \A i \in 1 .. t.begin - h : Trimmed(Output(tok))[i] = out[h + i]
<1> DEFINE b == tok.begin
           e == t.begin
           s == SubSeq(out, b + 1, e)
           l == e - b
<1>1. Len(out) \in Nat
  BY SeqLength
<1>2. PICK g \in b + 1 .. e : out[g].c \notin White
  BY DEF Gap
<1>3. b \in Nat /\ e \in Nat /\ e <= Len(out) /\ b < e /\ l \in Nat
  BY <1>2
<1>4. /\ IsSeq(s) /\ Len(s) = l
      /\ \A i \in 1 .. l : s[i] = out[b + i]
  <2>1. /\ b + 1 \in 1 .. Len(out) + 1 /\ e \in (b + 1) - 1 .. Len(out)
        /\ 1 + e - (b + 1) = l
    BY <1>1, <1>3
  <2> HIDE DEF b, e
  <2>2. /\ IsSeq(s) /\ Len(s) = 1 + e - (b + 1)
        /\ \A i \in 1 .. 1 + e - (b + 1) : s[i] = out[i + (b + 1) - 1]
    BY <2>1, SeqSub
  <2>3. \A i \in 1 .. l : i + (b + 1) - 1 = b + i
    BY <1>3
  <2> HIDE DEF s
  <2> QED
    BY <2>1, <2>2, <2>3
<1>5. Output(tok) = s
  BY DEF Output
<1> DEFINE T == {i \in 1 .. l : s[i].c \notin White}
<1>6. \E x \in T : \A y \in T : x <= y
  <2>1. T # {}
    <3>1. g - b \in 1 .. l /\ b + (g - b) = g
      BY <1>2, <1>3
    <3> HIDE DEF b, e, s, l
    <3>2. s[g - b] = out[b + (g - b)]
      BY <1>4, <3>1
    <3> QED
      BY <1>2, <3>1, <3>2
  <2>2. T \subseteq Nat
    OBVIOUS
  <2> HIDE DEF T
  <2> QED
    BY <2>1, <2>2, NatMin
<1>7. PICK x \in T : \A y \in T : x <= y
  BY <1>6
<1> DEFINE c == x - 1
<1>8. c \in Nat /\ c + 1 \in 1 .. l /\ c < l /\ s[c + 1].c \notin White
  <2>1. x \in 1 .. l /\ s[x].c \notin White
    BY <1>7
  <2> HIDE DEF l, s
  <2>2. c \in Nat /\ c + 1 \in 1 .. l /\ c < l /\ c + 1 = x
    BY <1>3, <2>1
  <2> QED
    BY <2>1, <2>2
<1>9. \A i \in 1 .. c : s[i].c \in White
  <2> SUFFICES ASSUME NEW i \in 1 .. c, s[i].c \notin White PROVE FALSE
    OBVIOUS
  <2>1. i \in 1 .. l /\ i < x
    BY <1>3, <1>7
  <2>2. i \in T
    BY <2>1
  <2> HIDE DEF T
  <2> QED
    BY <1>7, <2>1, <2>2
<1> HIDE DEF T, c, s, b, e, l
<1> DEFINE blank == {i \in DOMAIN s : \A j \in 1 .. i : s[j].c \in Breaks \cup Blanks}
<1>10. blank = 1 .. c
  <2>1. DOMAIN s = 1 .. l
    BY <1>4, SeqLength
  <2>2. ASSUME NEW i \in blank PROVE i \in 1 .. c
    <3>1. i \in 1 .. l /\ \A j \in 1 .. i : s[j].c \in White
      BY <2>1, <2>2 DEF White
    <3>2. c + 1 \notin 1 .. i
      BY <1>8, <3>1
    <3> QED
      BY <1>8, <3>1, <3>2
  <2>3. ASSUME NEW i \in 1 .. c PROVE i \in blank
    <3>1. i \in 1 .. l /\ \A j \in 1 .. i : j \in 1 .. c
      BY <1>3, <1>8
    <3> QED
      BY <1>9, <2>1, <3>1 DEF White
  <2> HIDE DEF blank
  <2> QED
    BY <2>2, <2>3
<1> HIDE DEF blank
<1>11. Cardinality(blank) = c
  <2>1. Cardinality(1 .. c) = IF 1 > c THEN 0 ELSE c - 1 + 1
    BY <1>8, FS_Interval
  <2> QED
    BY <1>8, <1>10, <2>1
<1>12. Trimmed(s) = SubSeq(s, c + 1, Len(s))
  BY <1>11 DEF Trimmed, blank
<1> DEFINE u == SubSeq(s, c + 1, Len(s))
           h == b + c
<1>13. /\ Len(u) = l - c
       /\ \A i \in 1 .. l - c : u[i] = s[c + i]
  <2>1. /\ c + 1 \in 1 .. Len(s) + 1 /\ Len(s) \in (c + 1) - 1 .. Len(s)
        /\ 1 + Len(s) - (c + 1) = l - c
    BY <1>3, <1>4, <1>8
  <2>2. /\ IsSeq(u) /\ Len(u) = 1 + Len(s) - (c + 1)
        /\ \A i \in 1 .. 1 + Len(s) - (c + 1) : u[i] = s[i + (c + 1) - 1]
    BY <1>4, <2>1, SeqSub
  <2>3. \A i \in 1 .. l - c : i + (c + 1) - 1 = c + i
    BY <1>3, <1>8
  <2> HIDE DEF u
  <2> QED
    BY <2>1, <2>2, <2>3
<1> HIDE DEF u
<1>14. /\ h \in b .. e - 1 /\ e - h = l - c
       /\ h + 1 = b + (c + 1)
       /\ \A i \in 1 .. e - h : i \in 1 .. l - c /\ c + i \in 1 .. l /\ b + (c + i) = h + i
       /\ \A i \in b + 1 .. h : i - b \in 1 .. c /\ i - b \in 1 .. l /\ b + (i - b) = i
  BY <1>3, <1>8 DEF l
<1> HIDE DEF h
<1>15. out[h + 1].c \notin White
  BY <1>4, <1>8, <1>14
<1>16. \A i \in b + 1 .. h : out[i].c \in White
  <2> SUFFICES ASSUME NEW i \in b + 1 .. h PROVE out[i].c \in White
    OBVIOUS
  <2>1. i - b \in 1 .. c /\ i - b \in 1 .. l /\ b + (i - b) = i
    BY <1>14
  <2>2. s[i - b] = out[b + (i - b)]
    BY <1>4, <2>1
  <2> QED
    BY <1>9, <2>1, <2>2
<1>17. \A i \in 1 .. e - h : u[i] = out[h + i]
  <2> SUFFICES ASSUME NEW i \in 1 .. e - h PROVE u[i] = out[h + i]
    OBVIOUS
  <2>1. i \in 1 .. l - c /\ c + i \in 1 .. l /\ b + (c + i) = h + i
    BY <1>14
  <2> QED
    BY <1>4, <1>13, <2>1
<1>18. Trimmed(Output(tok)) = u
  BY <1>5, <1>12 DEF u, s
<1> QED
  BY <1>13, <1>14, <1>15, <1>16, <1>17, <1>18 DEF b, e
-----------------------------------------------------------------------------
(* Operations of & and of binary operators.                                *)
LEMMA OperandsHold ==
    ASSUME IInv, HoldsOK, Parsing, Head1[1] \in Operands, UNCHANGED <<out, t>>, NEW a, NEW op,
           a[1] \notin Marked, op[1] \in Marked, op[2] = Head1[2],
           \E x \in 0 .. t.begin : Rests(op, out, x),
           Put(<<a, op>>) \/ Put(<<op>>)
    PROVE  HoldsOK'
<1>1. Head1[1] \in Marked /\ Head1[1] # "next"
  BY DEF Operands, Marked
<1>2. t.begin \in Nat
  BY <1>1, FirstThere
<1>3. Rests(a, out, 0)
  BY DEF Rests, Marked
<1>4. CASE Put(<<a, op>>)
  <2> DEFINE ops == <<a, op>>
  <2>1. IsSeq(ops) /\ Len(ops) = 2 /\ ops[1] = a /\ ops[2] = op
    BY SeqShort
  <2> HIDE DEF ops
  <2>2. \A i \in 1 .. Len(ops) : i = 1 \/ i = 2
    BY <2>1
  <2>3. \A i \in 1 .. Len(ops) : ops[i][1] \in Marked =>
               ops[i][2] = t \/ (Head1[1] \in Marked /\ ops[i][2] = Head1[2])
    BY <1>1, <2>1, <2>2
  <2>4. ASSUME NEW i \in 1 .. Len(ops)
        PROVE  \E x \in 0 .. t.begin :
               /\ Rests(ops[i], out, x)
               /\ \A r \in 1 .. i - 1 : \A y \in Mark(ops[r]) : x <= y
    <3>1. CASE i = 1
      BY <1>2, <1>3, <2>1, <3>1
    <3>2. CASE i = 2
      <4>1. \A r \in 1 .. i - 1 : Mark(ops[r]) = {}
        BY <2>1, <3>2 DEF Mark
      <4> QED
        BY <2>1, <3>2, <4>1
    <3> QED
      BY <2>2, <3>1, <3>2
  <2>5. Put(ops)
    BY <1>4 DEF ops
  <2> QED
    BY <1>1, <2>1, <2>3, <2>4, <2>5, HoldsPush
<1>5. CASE Put(<<op>>)
  <2> DEFINE ops == <<op>>
  <2>1. IsSeq(ops) /\ Len(ops) = 1 /\ ops[1] = op
    BY SeqShort
  <2> HIDE DEF ops
  <2>2. \A i \in 1 .. Len(ops) : i = 1
    BY <2>1
  <2>3. \A i \in 1 .. Len(ops) : ops[i][1] \in Marked =>
               ops[i][2] = t \/ (Head1[1] \in Marked /\ ops[i][2] = Head1[2])
    BY <1>1, <2>1, <2>2
  <2>4. ASSUME NEW i \in 1 .. Len(ops)
        PROVE  \E x \in 0 .. t.begin :
               /\ Rests(ops[i], out, x)
               /\ \A r \in 1 .. i - 1 : \A y \in Mark(ops[r]) : x <= y
    BY <2>1, <2>2
  <2>5. Put(ops)
    BY <1>5 DEF ops
  <2> QED
    BY <1>1, <2>1, <2>3, <2>4, <2>5, HoldsPush
<1> QED
  BY <1>4, <1>5

LEMMA HoldsNothing ==
    ASSUME IInv, HoldsOK, Parsing, Head1[1] # "next", UNCHANGED <<out, t>>, Put(<<>>)
    PROVE  HoldsOK'
<1>1. IsSeq(<<>>) /\ Len(<<>>) = 0
  BY SeqShort
<1> QED
  BY <1>1, HoldsPush

(* What is kept of operands, by the rules of & and of operators.           *)
LEMMA HoldsPointer ==
    ASSUME SInv, HoldsOK, Pointer, Head1[1] = "operand"
    PROVE  HoldsOK'
<1> DEFINE op == <<"pointer", Head1[2], t, Head1[3]>>
<1>1. Parsing /\ Head1[1] \in Marked /\ Head1[1] # "next" /\ Head1[1] \in Operands /\ IInv
  BY DEF Pointer, At, Marked, Operands, SInv
<1>2. Put(<<Sub(Unary), op>>) /\ UNCHANGED <<out, t>>
  BY DEF Pointer, At, Becomes, tokens
<1>3. op[1] = "pointer" /\ op[2] = Head1[2] /\ op[3] = t
  OBVIOUS
<1> HIDE DEF op
<1>4. Gap(out, Head1[2].begin, t.begin) /\ t.begin \in Nat
  BY <1>1, Here, FirstThere
<1>5. Rests(op, out, t.begin)
  BY <1>3, <1>4 DEF Rests
<1>6. Sub(Unary)[1] \notin Marked /\ op[1] \in Marked
  BY <1>3 DEF Sub, Marked
<1>7. \E x \in 0 .. t.begin : Rests(op, out, x)
  BY <1>4, <1>5
<1> QED
  BY <1>1, <1>2, <1>3, <1>6, <1>7, OperandsHold

LEMMA HoldsOperators ==
    ASSUME SInv, HoldsOK, Operators, UNCHANGED <<out, t>>
    PROVE  HoldsOK' \/ (Head1[1] = "combine" /\ Head1[3] # NoText)
<1>1. Parsing /\ Head1[1] \in Marked /\ Head1[1] # "next" /\ Head1[1] \in Operands /\ IInv
  BY DEF Operators, At, Marked, Operands, SInv
<1>2. /\ t.begin \in Nat /\ t.begin <= Len(out) /\ 1 \in 1 .. Len(todo) /\ todo[1] = Head1
      /\ Head1[2].begin \in 0 .. t.begin
  BY <1>1, FirstThere
<1>3. PICK x \in 0 .. t.begin : Rests(Head1, out, x)
  BY <1>2 DEF HoldsOK
<1>4. Sub(Head1[4])[1] \notin Marked /\ Tok[1] \notin Marked
  BY DEF Sub, Tok, Marked
<1>5. CASE Head1[1] = "binary"
  <2> DEFINE text == IF t.token = "->" THEN Trimmed(Output(Head1[2])) ELSE NoText
             op == <<"more", Head1[2], text, Head1[3]>>
  <2>1. Put(<<op>>)
    BY <1>5 DEF Operators, At, Becomes
  <2>2. op[1] = "more" /\ op[2] = Head1[2] /\ op[3] = text
    OBVIOUS
  <2> HIDE DEF op
  <2>3. Gap(out, Head1[2].begin, t.begin)
    BY <1>1, <1>5, Here
  <2>4. text # NoText => Spans(op[2].begin, op[3], out, t.begin)
    <3>1. IsSeq(out)
      BY <1>1 DEF IInv, BufferOK
    <3>2. \E h \in Head1[2].begin .. t.begin - 1 :
              /\ \A i \in Head1[2].begin + 1 .. h : out[i].c \in White
              /\ out[h + 1].c \notin White
              /\ Len(Trimmed(Output(Head1[2]))) = t.begin - h
              /\ \A i \in 1 .. t.begin - h : Trimmed(Output(Head1[2]))[i] = out[h + i]
      <4> DEFINE tok == Head1[2]
      <4>1. tok.begin \in Nat /\ Gap(out, tok.begin, t.begin)
        BY <1>2, <2>3
      <4> HIDE DEF tok
      <4>2. \E h \in tok.begin .. t.begin - 1 :
              /\ \A i \in tok.begin + 1 .. h : out[i].c \in White
              /\ out[h + 1].c \notin White
              /\ Len(Trimmed(Output(tok))) = t.begin - h
              /\ \A i \in 1 .. t.begin - h : Trimmed(Output(tok))[i] = out[h + i]
        BY <1>2, <3>1, <4>1, TrimmedThere
      <4> QED
        BY <4>2 DEF tok
    <3>3. text # NoText => text = Trimmed(Output(Head1[2]))
      OBVIOUS
    <3> HIDE DEF text
    <3> QED
      BY <2>2, <3>2, <3>3 DEF Spans
  <2> HIDE DEF text
  <2>5. Rests(op, out, t.begin)
    BY <1>2, <2>2, <2>4 DEF Rests
  <2>6. op[1] \in Marked /\ \E y \in 0 .. t.begin : Rests(op, out, y)
    BY <1>2, <2>2, <2>5 DEF Marked
  <2> QED
    BY <1>1, <1>4, <2>1, <2>2, <2>6, OperandsHold
<1>6. CASE Head1[1] = "more"
  <2> DEFINE op == <<"right", Head1[2], Head1[3], Right[t.token], Head1[4]>>
  <2>1. Put(<<Tok, op>>) \/ Put(<<>>)
    BY <1>6 DEF Operators, At, Becomes
  <2>2. op[1] = "right" /\ op[2] = Head1[2] /\ op[3] = Head1[3]
    OBVIOUS
  <2> HIDE DEF op
  <2>3. Rests(op, out, x)
    BY <1>3, <1>6, <2>2 DEF Rests
  <2>4. op[1] \in Marked
    BY <2>2 DEF Marked
  <2>5. CASE Put(<<Tok, op>>)
    BY <1>1, <1>4, <2>2, <2>3, <2>4, <2>5, OperandsHold
  <2>6. CASE Put(<<>>)
    BY <1>1, <2>6, HoldsNothing
  <2> QED
    BY <2>1, <2>5, <2>6
<1>7. CASE Head1[1] = "right"
  <2> DEFINE op == <<"combine", Head1[2], Head1[3], t, Head1[5]>>
  <2>1. Put(<<Sub(Head1[4]), op>>)
    BY <1>7 DEF Operators, At, Becomes
  <2>2. op[1] = "combine" /\ op[2] = Head1[2] /\ op[3] = Head1[3] /\ op[4] = t
    OBVIOUS
  <2> HIDE DEF op
  <2>3. Rests(op, out, t.begin)
    <3>1. ASSUME Head1[3] # NoText PROVE \E q \in 0 .. t.begin : Spans(op[2].begin, op[3], out, q)
      <4>1. PICK q \in 0 .. x : Spans(Head1[2].begin, Head1[3], out, q)
        BY <1>3, <1>7, <3>1 DEF Rests
      <4>2. q \in 0 .. t.begin
        BY <1>2
      <4> QED
        BY <2>2, <4>1, <4>2
    <3>2. t.begin <= t.begin /\ \A q \in 0 .. t.begin : q <= t.begin
      BY <1>2
    <3> QED
      BY <2>2, <3>1, <3>2 DEF Rests
  <2>4. op[1] \in Marked /\ \E y \in 0 .. t.begin : Rests(op, out, y)
    BY <1>2, <2>2, <2>3 DEF Marked
  <2> QED
    BY <1>1, <1>4, <2>1, <2>2, <2>4, OperandsHold
<1>8. CASE Head1[1] = "combine" /\ Head1[3] = NoText
  <2> DEFINE op == <<"more", Head1[2], NoText, Head1[5]>>
  <2>1. Put(<<op>>)
    BY <1>8 DEF Operators, At, Becomes
  <2>2. op[1] = "more" /\ op[2] = Head1[2] /\ op[3] = NoText
    OBVIOUS
  <2> HIDE DEF op
  <2>3. Rests(op, out, 0) /\ op[1] \in Marked
    BY <2>2 DEF Rests, Marked
  <2>4. \E y \in 0 .. t.begin : Rests(op, out, y)
    BY <1>2, <2>3
  <2> QED
    BY <1>1, <1>4, <2>1, <2>2, <2>3, <2>4, OperandsHold
<1> QED
  BY <1>5, <1>6, <1>7, <1>8 DEF Operators, At
-----------------------------------------------------------------------------
(* Of a text that is copied.                                               *)
LEMMA NLCopy ==
    ASSUME NEW text, NEW o, NEW b, NEW n, Alike(text, 0, o, b, n)
    PROVE  /\ NL(o, b + n) = NL(o, b) + NL(text, n)
           /\ NL(o, b + n) \in Nat /\ NL(o, b) \in Nat /\ NL(text, n) \in Nat
<1>1. b \in Nat /\ n \in Nat
  BY DEF Alike
<1>3. /\ NL(o, b + n) = NL(o, b) + (NL(text, 0 + n) - NL(text, 0))
      /\ NL(text, 0 + n) \in Nat /\ NL(o, b) \in Nat /\ NL(o, b + n) \in Nat
  BY NLAlike
<1>4. NL(text, 0) = 0
  BY NLType
<1>5. 0 + n = n
  BY <1>1
<1> DEFINE x == NL(o, b + n)
           y == NL(o, b)
           z == NL(text, n)
<1>6. x = y + (z - 0) /\ x \in Nat /\ y \in Nat /\ z \in Nat
  BY <1>3, <1>4, <1>5
<1> HIDE DEF x, y, z
<1>7. x = y + z
  BY <1>6
<1> QED
  BY <1>6, <1>7 DEF x, y, z
-----------------------------------------------------------------------------
(* What luaX_patchbegin skips it counts the lines of.                      *)
LEMMA SkippedLine ==
    ASSUME IsSeq(out), NEW tok, IsToken(tok), tok.begin \in 0 .. Len(out),
           \A i \in 1 .. Len(out) : out[i].c # "\r", MarkAt(out, tok), tok.begin < Len(out)
    PROVE  Skipped(tok).linebegin = 1 + NL(out, Skipped(tok).begin)
<1> DEFINE b == tok.begin
           e == Skipped(tok).begin
           n == e - b
           ws == SubSeq(out, b + 1, e)
           p == NL(out, b)
           q == NL(out, e)
<1>1. /\ e \in b .. Len(out)
      /\ Skipped(tok).linebegin = tok.linebegin + BreaksIn(ws)
  BY SkippedThere
<1>2. Len(out) \in Nat
  BY SeqLength
<1>3. b \in Nat /\ e \in Nat /\ n \in Nat /\ b + n = e /\ e <= Len(out)
  BY <1>1, <1>2
<1>4. tok.linebegin = 1 + p
  BY DEF MarkAt
<1> HIDE DEF b, e, n
<1>5. IsSeq(ws) /\ Len(ws) = n /\ \A k \in 1 .. n : ws[k] = out[b + k]
  <2>1. b + 1 \in 1 .. Len(out) + 1 /\ e \in (b + 1) - 1 .. Len(out) /\ 1 + e - (b + 1) = n
    BY <1>2, <1>3
  <2>2. /\ IsSeq(ws) /\ Len(ws) = 1 + e - (b + 1)
        /\ \A i \in 1 .. 1 + e - (b + 1) : ws[i] = out[i + (b + 1) - 1]
    BY <2>1, SeqSub
  <2>3. \A i \in 1 .. n : i + (b + 1) - 1 = b + i
    BY <1>3
  <2> HIDE DEF ws
  <2> QED
    BY <2>1, <2>2, <2>3
<1> HIDE DEF ws
<1>6. BreaksIn(ws) = NL(ws, n)
  <2>1. DOMAIN ws = 1 .. n
    BY <1>5, SeqLength
  <2>2. \A k \in 1 .. n : ws[k].c # "\r"
    <3>1. \A k \in 1 .. n : b + k \in 1 .. Len(out)
      BY <1>2, <1>3
    <3> QED
      BY <1>5, <3>1
  <2>3. {i \in DOMAIN ws : ws[i].c \in Breaks} = {k \in Nat : ws[k].c = "\n"} \cap (1 .. n)
    BY <2>1, <2>2 DEF Breaks
  <2> QED
    BY <2>3 DEF BreaksIn, NL, Upto
<1>7. NL(out, b + n) = NL(out, b) + NL(ws, n) /\ NL(out, b) \in Nat /\ NL(ws, n) \in Nat
  <2>1. \A k \in 1 .. n : out[b + k].c = ws[k].c
    BY <1>5
  <2>2. \A k \in 1 .. n : 0 + k = k
    BY <1>3
  <2>3. Alike(ws, 0, out, b, n)
    BY <1>3, <2>1, <2>2 DEF Alike
  <2> QED
    BY <2>3, NLCopy
<1> DEFINE w == NL(ws, n)
<1>9. q = p + w /\ p \in Nat /\ w \in Nat
  BY <1>3, <1>7
<1>10. Skipped(tok).linebegin = 1 + p + w
  BY <1>1, <1>4, <1>6 DEF b, e, ws
<1> HIDE DEF w, p, q
<1>11. 1 + p + w = 1 + q
  BY <1>9
<1> QED
  BY <1>10, <1>11 DEF q, e
-----------------------------------------------------------------------------
(* A text that what is copied in is not later in than where it was read,   *)
(* if it is put behind lo newlines, and that has then no more than hi.     *)
Within(text, lo, hi) ==
    /\ IsSeq(text) /\ lo \in Nat /\ hi \in Nat
    /\ \A i \in 1 .. Len(text) :
          LineOK(text[i], 1 + (lo + NL(text, i - 1)), source) /\ (text[i].at = 0 \/ text[i].copied)
    /\ lo + NL(text, Len(text)) <= hi

(* The newlines there are in front of the text, of its end and of what is  *)
(* behind it.                                                              *)
LEMMA PatchedLines ==
    ASSUME NEW text, IsSeq(text), NEW b, NEW e, Patched(text, b, e)
    PROVE  /\ NL(out', b) = NL(out, b)
           /\ \A i \in 0 .. Len(text) : NL(out', b + i) = NL(out, b) + NL(text, i)
           /\ NL(out', e) = NL(out, b) + NL(text, Len(text)) + (e - (b + Len(text)))
           /\ \A i \in 0 .. Len(out) - t.begin :
                 NL(out', e + i) = NL(out', e) + (NL(out, t.begin + i) - NL(out, t.begin))
<1> DEFINE m == Len(text)
           r == Len(out) - t.begin
<1>1. /\ b \in Nat /\ e \in Nat /\ t.begin \in Nat /\ Len(out) \in Nat /\ m \in Nat
      /\ b < t.begin /\ t.begin <= Len(out) /\ b + m <= e
      /\ \A i \in 1 .. b : out'[i] = out[i]
      /\ \A i \in 1 .. m : out'[b + i] = text[i]
      /\ \A i \in b + m + 1 .. e : out'[i] = Wrote("\n")
      /\ \A i \in 1 .. r : out'[e + i] = out[t.begin + i]
  BY DEF Patched
<1> HIDE DEF m
<1>2. NL(out', b) = NL(out, b)
  <2>1. \A k \in 1 .. b : out'[k].c = out[k].c
    BY <1>1
  <2> QED
    BY <1>1, <2>1, NLSame
<1>3. ASSUME NEW i \in 0 .. m
      PROVE  NL(out', b + i) = NL(out, b) + NL(text, i) /\ NL(out, b) \in Nat /\ NL(text, i) \in Nat
  <2>1. i \in Nat /\ b \in Nat /\ \A k \in 1 .. i : k \in 1 .. m
    BY <1>1
  <2>2. \A k \in 1 .. i : out'[b + k].c = text[k].c
    BY <1>1, <2>1
  <2>3. NL(out', b + i) = NL(out', b) + NL(text, i) /\ NL(out', b) \in Nat /\ NL(text, i) \in Nat
    <3> DEFINE o == out'
    <3>1. Alike(text, 0, o, b, i)
      <4>1. \A k \in 1 .. i : 0 + k = k
        BY <2>1
      <4> QED
        BY <2>1, <2>2, <4>1 DEF Alike
    <3> HIDE DEF o
    <3>2. NL(o, b + i) = NL(o, b) + NL(text, i) /\ NL(o, b) \in Nat /\ NL(text, i) \in Nat
      BY <3>1, NLCopy
    <3> QED
      BY <3>2 DEF o
  <2> QED
    BY <1>2, <2>3
<1>4. NL(out', e) = NL(out, b) + NL(text, m) + (e - (b + m))
  <2> DEFINE a == b + m
             n == e - a
  <2>1. a \in Nat /\ n \in Nat /\ a + n = e /\ m \in 0 .. m
    <3>1. b \in Nat /\ e \in Nat /\ m \in Nat /\ b + m <= e
      BY <1>1
    <3> QED
      BY <3>1
  <2>2. \A k \in 1 .. n : out'[a + k].c = "\n"
    <3>1. \A k \in 1 .. n : a + k \in b + m + 1 .. e
      BY <1>1
    <3> HIDE DEF a, n
    <3> QED
      BY <1>1, <3>1 DEF Wrote
  <2> HIDE DEF n
  <2>3. NL(out', a + n) = NL(out', a) + n
    <3> HIDE DEF a
    <3> QED
      BY <2>1, <2>2, NLAll
  <2>4. NL(out', a) = NL(out, b) + NL(text, m)
    BY <1>3, <2>1
  <2> HIDE DEF a
  <2>5. NL(out', e) = NL(out, b) + NL(text, m) + n
    BY <2>1, <2>3, <2>4
  <2> QED
    BY <2>5 DEF n, a
<1>5. ASSUME NEW i \in 0 .. r
      PROVE  NL(out', e + i) = NL(out', e) + (NL(out, t.begin + i) - NL(out, t.begin))
  <2> DEFINE a == t.begin
             o == out'
  <2>1. i \in Nat /\ a \in Nat /\ e \in Nat /\ \A k \in 1 .. i : k \in 1 .. r
    <3>1. r \in Int /\ a \in Nat /\ e \in Nat
      BY <1>1
    <3> HIDE DEF r, a
    <3> QED
      BY <3>1
  <2>2. \A k \in 1 .. i : o[e + k].c = out[a + k].c
    BY <1>1, <2>1
  <2>3. Alike(out, a, o, e, i)
    BY <2>1, <2>2 DEF Alike
  <2> HIDE DEF a, o
  <2>4. NL(o, e + i) = NL(o, e) + (NL(out, a + i) - NL(out, a))
    BY <2>3, NLAlike
  <2> QED
    BY <2>4 DEF a, o
<1> QED
  BY <1>2, <1>3, <1>4, <1>5 DEF m

(* What is behind the token stays on its line.                             *)
LEMMA PatchKeepsLine ==
    ASSUME IInv, LinesOK, CellsLined, MarksLined, GapsOK, Parsing, Head1[1] \in Patchers,
           NEW text, NEW b, NEW e, b = Skipped(Head1[2]).begin, Patched(text, b, e),
           e = b + Len(text) + Rows(text), Within(text, NL(out, b), NL(out, t.begin)),
           t.begin < Len(out)
    PROVE  NL(out', e) = NL(out, t.begin)
<1> DEFINE tok == Head1[2]
           sk == Skipped(tok)
<1>1. /\ IsToken(sk) /\ IsToken(tok) /\ t # NoToken
      /\ tok.begin \in 0 .. b /\ b \in Nat /\ t.begin \in Nat /\ Len(out) \in Nat /\ b < t.begin
  BY BeforeToken
<1>2. IsSeq(out) /\ \A i \in 1 .. Len(out) : out[i].c # "\r"
  BY DEF IInv, BufferOK, CellsLined, CellAt, LineOK
<1>3. MarkAt(out, tok)
  <2>1. Head1[1] \in Marked /\ Head1[1] # "next"
    BY DEF Patchers, Marked
  <2>2. 1 \in 1 .. Len(todo) /\ todo[1] = Head1
    BY <2>1, FirstThere
  <2> QED
    BY <2>1, <2>2 DEF MarksLined
<1>4. sk.linebegin = 1 + NL(out, b)
  <2>1. tok.begin \in 0 .. Len(out) /\ tok.begin < Len(out)
    BY <1>1
  <2> HIDE DEF tok
  <2>2. Skipped(tok).linebegin = 1 + NL(out, Skipped(tok).begin)
    BY <1>1, <1>2, <1>3, <2>1, SkippedLine
  <2> QED
    BY <2>2 DEF tok
<1>5. t.linebegin = 1 + NL(out, t.begin)
  BY <1>1, TokenLine DEF MarkAt
<1>6. /\ IsSeq(text) /\ NL(out, b) + NL(text, Len(text)) <= NL(out, t.begin)
      /\ Newlines(text) = NL(text, Len(text))
  BY NLCount DEF Within
<1>7. NL(out', e) = NL(out, b) + NL(text, Len(text)) + (e - (b + Len(text)))
  BY <1>6, PatchedLines
<1> DEFINE p == NL(out, b)
           w == NL(text, Len(text))
           q == NL(out, t.begin)
           n == Len(text)
           rows == Rows(text)
<1>8. p \in Nat /\ w \in Nat /\ q \in Nat /\ n \in Nat
  <2>1. n \in Nat
    BY <1>6, SeqLength
  <2> QED
    BY <1>1, <2>1, NLType
<1>9. rows = IF 1 + q > 1 + p + w THEN (1 + q) - (1 + p + w) ELSE 0
  BY <1>4, <1>5, <1>6 DEF Rows
<1>10. NL(out', e) = p + w + (e - (b + n)) /\ e = b + n + rows /\ p + w <= q
  BY <1>6, <1>7
<1> HIDE DEF p, w, q, n, rows
<1>11. rows = q - (p + w)
  BY <1>8, <1>9, <1>10
<1>12. e - (b + n) = rows
  BY <1>1, <1>8, <1>10, <1>11
<1>13. NL(out', e) = q
  BY <1>8, <1>10, <1>11, <1>12
<1> QED
  BY <1>13 DEF q

(* Where a cell comes from after a replacement.                            *)
ComesFrom(text, b, e, i) ==
    \/ i <= b /\ i \in 1 .. Len(out) /\ out'[i] = out[i]
    \/ \E j \in 1 .. Len(text) : i = b + j /\ out'[i] = text[j]
    \/ b + Len(text) < i /\ i <= e /\ out'[i] = Wrote("\n")
    \/ \E j \in 1 .. Len(out) - t.begin :
           i = e + j /\ t.begin + j \in 1 .. Len(out) /\ out'[i] = out[t.begin + j]

LEMMA PatchComes ==
    ASSUME NEW text, NEW b, NEW e, Patched(text, b, e)
    PROVE  \A i \in 1 .. Len(out') : ComesFrom(text, b, e, i)
<1> TAKE i \in 1 .. Len(out')
<1>1. \/ i <= b /\ i \in 1 .. Len(out) /\ out'[i] = out[i]
      \/ \E j \in 1 .. Len(text) : i = b + j /\ out'[i] = text[j]
      \/ b + Len(text) < i /\ i <= e /\ out'[i] = Wrote("\n")
      \/ \E j \in 1 .. Len(out) - t.begin :
                 i = e + j /\ t.begin + j \in 1 .. Len(out) /\ out'[i] = out[t.begin + j]
  BY PatchedCells
<1> QED
  BY <1>1, Zenon DEF ComesFrom

(* A replacement keeps the lines of all cells, if the text that is put in  *)
(* does.                                                                   *)
LEMMA PatchLines ==
    ASSUME IInv, LinesOK, CellsLined, MarksLined, GapsOK, Parsing, Head1[1] \in Patchers,
           NEW text, NEW b, NEW e, b = Skipped(Head1[2]).begin, Patched(text, b, e),
           e = b + Len(text) + Rows(text), Within(text, NL(out, b), NL(out, t.begin)),
           UNCHANGED source
    PROVE  CellsLined'
<1> SUFFICES ASSUME NEW i \in 1 .. Len(out') PROVE LineOK(out'[i], 1 + NL(out', i - 1), source)
  <2> DEFINE s == source'
             o == out'
  <2>1. CellsLined' = \A j \in 1 .. Len(o) : LineOK(o[j], 1 + NL(o, j - 1), s)
    BY Zenon DEF CellsLined, CellAt, LineOK, NL, Upto, Num, Ends1, IsEnds
  <2>2. s = source
    OBVIOUS
  <2> HIDE DEF s
  <2> QED
    BY <2>1, <2>2
<1>1. /\ b \in Nat /\ e \in Nat /\ t.begin \in Nat /\ Len(out) \in Nat /\ Len(text) \in Nat
      /\ b < t.begin /\ t.begin <= Len(out) /\ b + Len(text) <= e
      /\ \A j \in 1 .. b : out'[j] = out[j]
  BY DEF Patched
<1>2. /\ NL(out', b) = NL(out, b) /\ IsSeq(text)
      /\ \A j \in 0 .. Len(text) : NL(out', b + j) = NL(out, b) + NL(text, j)
      /\ \A j \in 0 .. Len(out) - t.begin :
                 NL(out', e + j) = NL(out', e) + (NL(out, t.begin + j) - NL(out, t.begin))
  BY PatchedLines DEF Within
<1>3. \/ i <= b /\ i \in 1 .. Len(out) /\ out'[i] = out[i]
      \/ \E j \in 1 .. Len(text) : i = b + j /\ out'[i] = text[j]
      \/ b + Len(text) < i /\ i <= e /\ out'[i] = Wrote("\n")
      \/ \E j \in 1 .. Len(out) - t.begin :
                 i = e + j /\ t.begin + j \in 1 .. Len(out) /\ out'[i] = out[t.begin + j]
  <2>1. Patched(text, b, e) /\ i \in 1 .. Len(out')
    OBVIOUS
  <2>2. ComesFrom(text, b, e, i)
    BY <2>1, PatchComes
  <2> QED
    BY <2>2 DEF ComesFrom
<1>4. CASE i <= b /\ i \in 1 .. Len(out) /\ out'[i] = out[i]
  <2>1. NL(out', i - 1) = NL(out, i - 1)
    <3>1. i - 1 \in Nat /\ \A k \in 1 .. i - 1 : k \in 1 .. b
      BY <1>1, <1>4
    <3>2. \A k \in 1 .. i - 1 : out'[k].c = out[k].c
      BY <1>1, <3>1
    <3> QED
      BY <3>1, <3>2, NLSame
  <2> QED
    BY <1>4, <2>1 DEF CellsLined, CellAt
<1>5. CASE \E j \in 1 .. Len(text) : i = b + j /\ out'[i] = text[j]
  <2>1. PICK j \in 1 .. Len(text) : i = b + j /\ out'[i] = text[j]
    BY <1>5
  <2>2. j - 1 \in 0 .. Len(text) /\ b + (j - 1) = i - 1
    <3> DEFINE n == Len(text)
    <3>1. b \in Nat /\ n \in Nat /\ j \in 1 .. n /\ i = b + j
      BY <1>1, <2>1
    <3> HIDE DEF n
    <3>2. j - 1 \in 0 .. n /\ b + (j - 1) = i - 1
      BY <3>1
    <3> QED
      BY <3>2 DEF n
  <2>3. NL(out', i - 1) = NL(out, b) + NL(text, j - 1)
    BY <1>2, <2>2
  <2> QED
    BY <2>1, <2>3 DEF Within
<1>6. CASE b + Len(text) < i /\ i <= e /\ out'[i] = Wrote("\n")
  <2>1. Wrote("\n").c # "\r" /\ Wrote("\n").at = 0
    BY DEF Wrote
  <2>2. 0 \in 0 .. Len(source)
    <3>1. Len(source) \in Nat
      BY SeqLength DEF IInv, BufferOK
    <3> QED
      BY <3>1
  <2> QED
    BY <1>6, <2>1, <2>2 DEF LineOK
<1>7. CASE \E j \in 1 .. Len(out) - t.begin :
                 i = e + j /\ t.begin + j \in 1 .. Len(out) /\ out'[i] = out[t.begin + j]
  <2>1. PICK j \in 1 .. Len(out) - t.begin :
                 i = e + j /\ t.begin + j \in 1 .. Len(out) /\ out'[i] = out[t.begin + j]
    BY <1>7
  <2>2. /\ j - 1 \in 0 .. Len(out) - t.begin /\ e + (j - 1) = i - 1 /\ t.begin < Len(out)
        /\ (t.begin + j) - 1 = t.begin + (j - 1)
    <3> DEFINE n == Len(out)
               a == t.begin
    <3>1. e \in Nat /\ n \in Nat /\ a \in Nat /\ j \in 1 .. n - a /\ i = e + j
      BY <1>1, <2>1
    <3> HIDE DEF n, a
    <3>2. j - 1 \in 0 .. n - a /\ e + (j - 1) = i - 1 /\ a < n /\ (a + j) - 1 = a + (j - 1)
      BY <3>1
    <3> QED
      BY <3>2 DEF n, a
  <2>3. NL(out', e) = NL(out, t.begin)
    BY <2>2, PatchKeepsLine
  <2>4. NL(out', e + (j - 1)) = NL(out', e) + (NL(out, t.begin + (j - 1)) - NL(out, t.begin))
    BY <1>2, <2>2
  <2> DEFINE x == NL(out, t.begin)
             y == NL(out, t.begin + (j - 1))
             z == NL(out', i - 1)
  <2>5. x \in Nat /\ y \in Nat
    <3> DEFINE a == t.begin
    <3>1. a \in Nat /\ j \in Int /\ j >= 1
      BY <1>1, <2>1
    <3>2. a \in Nat /\ a + (j - 1) \in Nat
      <4> HIDE DEF a
      <4> QED
        BY <3>1
    <3> HIDE DEF a
    <3>3. NL(out, a) \in Nat /\ NL(out, a + (j - 1)) \in Nat
      BY <3>2, NLType
    <3> QED
      BY <3>3 DEF a, x, y
  <2>6. z = x + (y - x)
    BY <2>2, <2>3, <2>4
  <2> HIDE DEF x, y, z
  <2>7. z = y
    BY <2>5, <2>6
  <2>8. NL(out', i - 1) = NL(out, (t.begin + j) - 1)
    BY <2>2, <2>7 DEF y, z
  <2> QED
    BY <2>1, <2>8 DEF CellsLined, CellAt
<1> QED
  BY <1>3, <1>4, <1>5, <1>6, <1>7
-----------------------------------------------------------------------------
(* Texts of one cell, of cells that are copied, and of one behind another. *)
LEMMA WithinWeak ==
    ASSUME IsSeq(source), NEW text, NEW lo, NEW hi, Within(text, lo, hi),
           NEW lo2 \in Nat, NEW hi2 \in Nat, lo2 <= lo, hi <= hi2
    PROVE  Within(text, lo2, hi2)
<1>1. /\ IsSeq(text) /\ lo \in Nat /\ hi \in Nat
      /\ \A i \in 1 .. Len(text) :
            LineOK(text[i], 1 + (lo + NL(text, i - 1)), source) /\ (text[i].at = 0 \/ text[i].copied)
      /\ lo + NL(text, Len(text)) <= hi
  BY DEF Within
<1>2. Len(text) \in Nat
  BY <1>1, SeqLength
<1>3. NL(text, Len(text)) \in Nat
  BY <1>2, NLType
<1>4. lo2 + NL(text, Len(text)) <= hi2
  <2> DEFINE x == NL(text, Len(text))
  <2>1. x \in Nat /\ lo + x <= hi
    BY <1>1, <1>3
  <2> HIDE DEF x
  <2>2. lo2 + x <= hi2
    BY <1>1, <2>1
  <2> QED
    BY <2>2 DEF x
<1>5. ASSUME NEW i \in 1 .. Len(text)
      PROVE  LineOK(text[i], 1 + (lo2 + NL(text, i - 1)), source)
  <2> DEFINE x == NL(text, i - 1)
             cell == text[i]
  <2>1. i - 1 \in Nat
    BY <1>2
  <2>2. x \in Nat
    BY <2>1, NLType
  <2>3. LineOK(cell, 1 + (lo + x), source) /\ (cell.at = 0 \/ cell.copied)
    BY <1>1
  <2> HIDE DEF x, cell
  <2>4. /\ cell.c # "\r" /\ cell.at \in 0 .. Len(source)
        /\ cell.at # 0 => 1 + (lo + x) <= Num(source, cell.at - 1)
    BY <2>3 DEF LineOK
  <2>5. cell.at # 0 => Num(source, cell.at - 1) \in Nat
    <3>1. Len(source) \in Nat
      BY SeqLength
    <3>2. cell.at # 0 => cell.at - 1 \in 0 .. Len(source)
      BY <2>4, <3>1
    <3> QED
      BY <3>2, EndsType
  <2>6. cell.at # 0 => 1 + (lo2 + x) <= Num(source, cell.at - 1)
    <3> DEFINE y == Num(source, cell.at - 1)
    <3> SUFFICES ASSUME cell.at # 0 PROVE 1 + (lo2 + x) <= y
      OBVIOUS
    <3>1. 1 + (lo + x) <= y /\ y \in Nat
      BY <2>4, <2>5
    <3> HIDE DEF y
    <3> QED
      BY <1>1, <2>2, <3>1
  <2>7. LineOK(cell, 1 + (lo2 + x), source)
    BY <2>3, <2>4, <2>6 DEF LineOK
  <2> QED
    BY <2>7 DEF x, cell
<1> QED
  BY <1>1, <1>4, <1>5 DEF Within

LEMMA WithinWrote ==
    ASSUME IsSeq(source), NEW w, w # "\n", w # "\r", NEW a \in Nat
    PROVE  Within(<<Wrote(w)>>, a, a)
<1> DEFINE cell == Wrote(w)
           text == <<cell>>
<1>1. IsSeq(text) /\ Len(text) = 1 /\ text[1] = cell
  BY SeqShort
<1>2. cell.c = w /\ cell.at = 0
  BY DEF Wrote
<1> HIDE DEF cell, text
<1>3. Len(source) \in Nat
  BY SeqLength
<1>4. NL(text, 0) = 0 /\ NL(text, 0 + 1) = 0
  <2>1. text[0 + 1] = cell /\ 0 \in Nat
    BY <1>1
  <2>2. text[0 + 1].c # "\n"
    BY <1>2, <2>1
  <2>3. NL(text, 0) = 0
    BY NLType
  <2>4. NL(text, 0 + 1) = IF text[0 + 1].c = "\n" THEN NL(text, 0) + 1 ELSE NL(text, 0)
    BY <2>1, NLNext
  <2> QED
    BY <2>2, <2>3, <2>4
<1>5. NL(text, 1) = 0
  BY <1>4
<1>6. \A line : LineOK(cell, line, source)
  BY <1>2, <1>3 DEF LineOK
<1>7. \A i \in 1 .. Len(text) :
          LineOK(text[i], 1 + (a + NL(text, i - 1)), source) /\ (text[i].at = 0 \/ text[i].copied)
  <2> TAKE i \in 1 .. Len(text)
  <2>1. i = 1
    BY <1>1
  <2> QED
    BY <1>1, <1>2, <1>6, <2>1
<1>8. a + NL(text, Len(text)) <= a
  BY <1>1, <1>5
<1>9. Within(text, a, a)
  BY <1>1, <1>7, <1>8 DEF Within
<1> QED
  BY <1>9 DEF text, cell

LEMMA WithinJoin ==
    ASSUME IsSeq(source), NEW p, NEW q, NEW lo, NEW mid, NEW hi, Within(p, lo, mid), Within(q, mid, hi)
    PROVE  Within(p \o q, lo, hi)
<1> DEFINE a == Len(p)
           b == Len(q)
           r == p \o q
           x == NL(p, a)
           m == lo + x
<1>0. IsSeq(p) /\ IsSeq(q) /\ lo \in Nat /\ mid \in Nat /\ hi \in Nat
  BY DEF Within
<1>1. a \in Nat /\ b \in Nat
  BY <1>0, SeqLength
<1>2. /\ IsSeq(r) /\ Len(r) = a + b
      /\ \A i \in 1 .. a : r[i] = p[i]
      /\ \A i \in 1 .. b : r[a + i] = q[i]
  BY <1>0, SeqJoin
<1>3. x \in Nat /\ m <= mid
  BY <1>1, NLType DEF Within
<1>4. m \in Nat
  BY <1>0, <1>3
<1>5. Within(q, m, hi)
  <2> HIDE DEF m
  <2>1. hi <= hi /\ hi \in Nat
    BY <1>0
  <2> QED
    BY <1>3, <1>4, <2>1, WithinWeak
<1> HIDE DEF a, b, r
<1>6. \A i \in 0 .. a : NL(r, i) = NL(p, i)
  <2> TAKE i \in 0 .. a
  <2>1. i \in Nat /\ \A k \in 1 .. i : k \in 1 .. a
    BY <1>1
  <2>2. \A k \in 1 .. i : r[k].c = p[k].c
    BY <1>2, <2>1
  <2> QED
    BY <2>1, <2>2, NLSame
<1>7. NL(r, a) = x
  <2>1. a \in 0 .. a
    BY <1>1
  <2> QED
    BY <1>6, <2>1
<1>8. \A i \in 0 .. b : NL(r, a + i) = x + NL(q, i)
  <2> TAKE i \in 0 .. b
  <2>1. i \in Nat /\ \A k \in 1 .. i : k \in 1 .. b /\ 0 + k = k
    BY <1>1
  <2>2. Alike(q, 0, r, a, i)
    BY <1>1, <1>2, <2>1 DEF Alike
  <2>3. NL(r, a + i) = NL(r, a) + NL(q, i)
    BY <2>2, NLCopy
  <2> QED
    BY <1>7, <2>3
<1> HIDE DEF x
<1>9. ASSUME NEW i \in 1 .. Len(r)
      PROVE  LineOK(r[i], 1 + (lo + NL(r, i - 1)), source) /\ (r[i].at = 0 \/ r[i].copied)
  <2>1. CASE i <= a
    <3>1. i \in 1 .. a /\ i - 1 \in 0 .. a
      BY <1>1, <2>1
    <3>2. r[i] = p[i] /\ NL(r, i - 1) = NL(p, i - 1)
      BY <1>2, <1>6, <3>1
    <3>3. LineOK(p[i], 1 + (lo + NL(p, i - 1)), source) /\ (p[i].at = 0 \/ p[i].copied)
      BY <3>1 DEF Within, a
    <3> QED
      BY <3>2, <3>3
  <2>2. CASE i > a
    <3> DEFINE j == i - a
    <3>1. j \in 1 .. b /\ i = a + j /\ j - 1 \in 0 .. b /\ a + (j - 1) = i - 1
      <4>1. i \in 1 .. a + b
        BY <1>2
      <4> QED
        BY <1>1, <2>2, <4>1
    <3> HIDE DEF j
    <3>2. r[i] = q[j] /\ NL(r, i - 1) = x + NL(q, j - 1)
      BY <1>2, <1>8, <3>1
    <3>3. LineOK(q[j], 1 + (m + NL(q, j - 1)), source) /\ (q[j].at = 0 \/ q[j].copied)
      <4> HIDE DEF m
      <4> QED
        BY <1>5, <3>1 DEF Within, b
    <3> DEFINE y == NL(q, j - 1)
    <3>4. y \in Nat
      BY <3>1, NLType
    <3> HIDE DEF y
    <3>5. lo + (x + y) = m + y
      BY <1>0, <1>3, <3>4
    <3>6. lo + NL(r, i - 1) = m + NL(q, j - 1)
      BY <3>2, <3>5 DEF y
    <3> HIDE DEF m
    <3> QED
      BY <3>2, <3>3, <3>6
  <2> QED
    BY <1>1, <1>2, <2>1, <2>2
<1>10. lo + NL(r, Len(r)) <= hi
  <2> DEFINE y == NL(q, b)
  <2>1. y \in Nat /\ b \in 0 .. b
    BY <1>1, NLType
  <2>2. m + y <= hi
    <3> HIDE DEF m
    <3> QED
      BY <1>5 DEF Within, b
  <2>3. NL(r, Len(r)) = x + y
    BY <1>2, <1>8, <2>1
  <2> HIDE DEF y
  <2>4. lo + (x + y) <= hi
    BY <1>0, <1>3, <2>1, <2>2
  <2> QED
    BY <2>3, <2>4
<1> QED
  BY <1>0, <1>2, <1>9, <1>10 DEF Within, r

LEMMA WithinCopy ==
    ASSUME IsSeq(source), CellsLined, Len(out) \in Nat, NEW s, IsSeq(s), NEW sp, Orderly(s, sp),
           NEW x \in Nat, NEW y \in Nat, x <= y, y <= Len(out), Len(s) = y - x,
           \A i \in 1 .. y - x : s[i] = out[x + i]
    PROVE  Within(Copy(s), NL(out, x), NL(out, y))
<1> DEFINE r == Copy(s)
           n == y - x
           lo == NL(out, x)
<1>1. n \in Nat /\ x + n = y /\ lo \in Nat /\ NL(out, y) \in Nat
  BY NLType
<1>2. IsSeq(r) /\ Copied(r)
  BY OrderlyCopy
<1>3. Len(s) = n /\ DOMAIN s = 1 .. n
  BY SeqLength
<1>4. Len(r) = n /\ \A i \in 1 .. n : r[i] = [s[i] EXCEPT !.copied = s[i].at # 0]
  <2>1. DOMAIN r = 1 .. n /\ r = [i \in DOMAIN r |-> r[i]]
    BY <1>3 DEF Copy
  <2> HIDE DEF n, r
  <2>2. Len(r) = n
    BY <1>1, <2>1, SeqMade
  <2> QED
    BY <1>3, <2>2 DEF r, Copy
<1> HIDE DEF n
<1>5. \A i \in 1 .. n : s[i] = out[x + i]
  BY DEF n
<1>6. ASSUME NEW i \in 1 .. n
      PROVE  r[i].c = out[x + i].c /\ r[i].at = out[x + i].at /\ r[i].copied = (out[x + i].at # 0)
  <2> DEFINE cell == out[x + i]
  <2>1. Proper(cell)
    BY <1>3, <1>5 DEF Orderly
  <2>2. r[i] = [cell EXCEPT !.copied = cell.at # 0]
    BY <1>4, <1>5
  <2> HIDE DEF cell, r
  <2>3. r[i] = [c |-> cell.c, at |-> cell.at, copied |-> cell.at # 0]
    BY <2>1, <2>2 DEF Proper
  <2> QED
    BY <2>3 DEF cell
<1> HIDE DEF r
<1>7. \A i \in 0 .. n : lo + NL(r, i) = NL(out, x + i)
  <2> TAKE i \in 0 .. n
  <2>1. i \in Nat /\ \A k \in 1 .. i : k \in 1 .. n /\ 0 + k = k
    BY <1>1
  <2>2. Alike(r, 0, out, x, i)
    BY <1>6, <2>1 DEF Alike
  <2> QED
    BY <2>2, NLCopy
<1> HIDE DEF lo
<1>8. ASSUME NEW i \in 1 .. Len(r)
      PROVE  LineOK(r[i], 1 + (lo + NL(r, i - 1)), source) /\ (r[i].at = 0 \/ r[i].copied)
  <2>1. /\ i \in 1 .. n /\ i - 1 \in 0 .. n /\ x + (i - 1) = (x + i) - 1
        /\ x + i \in 1 .. Len(out)
    <3> DEFINE l == Len(out)
    <3>1. i \in 1 .. n
      BY <1>4
    <3>2. n \in Nat /\ x + n = y /\ y <= l /\ l \in Nat /\ x \in Nat
      BY <1>1
    <3> HIDE DEF l
    <3>3. /\ i \in 1 .. n /\ i - 1 \in 0 .. n /\ x + (i - 1) = (x + i) - 1
          /\ x + i \in 1 .. l
      BY <3>1, <3>2
    <3> QED
      BY <3>3 DEF l
  <2>2. lo + NL(r, i - 1) = NL(out, (x + i) - 1)
    BY <1>7, <2>1
  <2>3. LineOK(out[x + i], 1 + NL(out, (x + i) - 1), source)
    BY <2>1 DEF CellsLined, CellAt
  <2> DEFINE cell == out[x + i]
             line == 1 + NL(out, (x + i) - 1)
  <2>4. line \in Nat
    <3>1. (x + i) - 1 \in Nat
      BY <2>1
    <3>2. NL(out, (x + i) - 1) \in Nat
      BY <3>1, NLType
    <3> QED
      BY <3>2
  <2>5. LineOK(cell, line, source)
    BY <2>3
  <2>6. r[i].c = cell.c /\ r[i].at = cell.at /\ r[i].copied = (cell.at # 0)
    BY <1>6, <2>1
  <2> HIDE DEF line, cell
  <2>7. line <= line
    BY <2>4
  <2>8. cell.at # 0 => line <= Num(source, cell.at - 1)
    BY <2>5, <2>7 DEF LineOK
  <2>9. LineOK(r[i], line, source) /\ (r[i].at = 0 \/ r[i].copied)
    BY <2>5, <2>6, <2>8 DEF LineOK
  <2> QED
    BY <2>2, <2>9 DEF line
<1>9. lo + NL(r, Len(r)) <= NL(out, y)
  <2>1. n \in 0 .. n
    BY <1>1
  <2>2. lo + NL(r, n) = NL(out, x + n)
    BY <1>7, <2>1
  <2> DEFINE z == NL(out, y)
  <2>3. z <= z
    BY <1>1
  <2> HIDE DEF z
  <2>4. lo + NL(r, Len(r)) = z
    BY <1>1, <1>4, <2>2 DEF z
  <2> QED
    BY <2>3, <2>4 DEF z
<1>10. Within(r, lo, NL(out, y))
  BY <1>1, <1>2, <1>8, <1>9 DEF Within
<1> QED
  BY <1>10 DEF r, lo
-----------------------------------------------------------------------------
(* What replaces a construct keeps to its lines, and what is left to do    *)
(* then begins with it.                                                    *)
Lined(text) == CellsLined => Within(text, NL(out, Skipped(Head1[2]).begin), NL(out, t.begin))
Returns(ops) ==
    \/ ops = <<>>
    \/ \E op : /\ ops = <<op>> /\ op[1] \in {"binary", "more"} /\ op[2] = Skipped(Head1[2])
               /\ op[1] = "more" => op[3] = NoText
Rewrites ==
    /\ Parsing /\ Head1[1] \in Patchers /\ UNCHANGED source
    /\ \E text, ops : /\ IsSeq(text) /\ Patch(Head1[2], text) /\ Lined(text)
                      /\ Returns(ops) /\ Put(ops)

LEMMA SeqOneOne == \A a, b : <<a>> \o <<b>> = <<a, b>>
<1> TAKE a, b
<1> DEFINE p == <<a>>
           q == <<b>>
           r == <<a, b>>
<1>2. /\ IsSeq(p) /\ IsSeq(q) /\ IsSeq(r) /\ Len(p) = 1 /\ Len(q) = 1 /\ Len(r) = 2
      /\ p[1] = a /\ q[1] = b /\ r[1] = a /\ r[2] = b
  BY SeqShort
<1> HIDE DEF p, q, r
<1>0. IsSeq(p) /\ IsSeq(q)
  BY <1>2
<1>3. /\ IsSeq(p \o q) /\ Len(p \o q) = Len(p) + Len(q)
      /\ \A i \in 1 .. Len(p) : (p \o q)[i] = p[i]
      /\ \A i \in 1 .. Len(q) : (p \o q)[Len(p) + i] = q[i]
  BY <1>0, SeqJoin
<1> DEFINE s == p \o q
<1>4. IsSeq(s) /\ Len(s) = 2 /\ s[1] = a /\ s[1 + 1] = b
  BY <1>2, <1>3
<1> HIDE DEF s
<1>5. \A i \in 1 .. Len(s) : s[i] = r[i]
  <2>1. \A i \in 1 .. 2 : i = 1 \/ i = 2
    OBVIOUS
  <2> QED
    BY <1>2, <1>4, <2>1
<1>6. s = r
  BY <1>2, <1>4, <1>5, SeqSame
<1> QED
  BY <1>6 DEF s, p, q, r

LEMMA WithinTwo ==
    ASSUME IsSeq(source), NEW v, NEW w, v # "\n", v # "\r", w # "\n", w # "\r", NEW a \in Nat
    PROVE  Within(<<Wrote(v), Wrote(w)>>, a, a)
<1>1. Within(<<Wrote(v)>>, a, a) /\ Within(<<Wrote(w)>>, a, a)
  BY WithinWrote
<1> DEFINE p == <<Wrote(v)>>
           q == <<Wrote(w)>>
<1>2. p \o q = <<Wrote(v), Wrote(w)>>
  BY SeqOneOne
<1> HIDE DEF p, q
<1>3. Within(p, a, a) /\ Within(q, a, a)
  BY <1>1 DEF p, q
<1>4. Within(p \o q, a, a)
  BY <1>3, WithinJoin
<1> QED
  BY <1>2, <1>4

(* What constructs are replaced by, if nothing is copied.                  *)
LEMMA LiteralWithin ==
    ASSUME IsSeq(source), NEW text \in Literals, NEW a \in Nat
    PROVE  Within(text, a, a)
<1>1. PICK v \in {"terra.defineobjects(", "(terra.definequote(", "terra.anonstruct(", "_G.terra._trees[]("},
           w \in {")", "))"} : text = <<Wrote(v), Wrote(w)>>
  BY DEF Literals, LanguageText
<1>2. v # "\n" /\ v # "\r"
  BY <1>1
<1>3. w # "\n" /\ w # "\r"
  BY <1>1
<1>4. Within(<<Wrote(v), Wrote(w)>>, a, a)
  BY <1>2, <1>3, WithinTwo
<1> QED
  BY <1>1, <1>4

(* Between two texts that are written, one that is copied.                 *)
LEMMA WithinAround ==
    ASSUME IsSeq(source), NEW p, NEW v, v # "\n", v # "\r", NEW lo \in Nat, NEW mid \in Nat, NEW hi \in Nat,
           NEW a \in Nat, a <= lo, Within(p, lo, mid), mid <= hi
    PROVE  Within(<<Wrote(v)>> \o p, a, hi)
<1> DEFINE q == <<Wrote(v)>>
<1>1. Within(q, a, a)
  BY WithinWrote
<1> HIDE DEF q
<1>2. a <= a /\ hi <= hi /\ lo <= lo
  OBVIOUS
<1>3. Within(q, a, lo)
  BY <1>1, <1>2, WithinWeak
<1>4. Within(p, lo, hi)
  BY <1>2, WithinWeak
<1>5. Within(q \o p, a, hi)
  BY <1>3, <1>4, WithinJoin
<1> QED
  BY <1>5 DEF q

LEMMA WithinClosed ==
    ASSUME IsSeq(source), NEW p, NEW w, w # "\n", w # "\r", NEW lo \in Nat, NEW mid \in Nat,
           NEW hi \in Nat, Within(p, lo, mid), mid <= hi
    PROVE  Within(p \o <<Wrote(w)>>, lo, hi)
<1> DEFINE q == <<Wrote(w)>>
<1>1. Within(q, hi, hi)
  BY WithinWrote
<1> HIDE DEF q
<1>2. hi <= hi /\ lo <= lo
  OBVIOUS
<1>4. Within(p, lo, hi)
  BY <1>2, WithinWeak
<1>5. Within(p \o q, lo, hi)
  BY <1>1, <1>4, WithinJoin
<1> QED
  BY <1>5 DEF q

(* What is copied from a place on.                                         *)
LEMMA OutputWithin ==
    ASSUME IsSeq(source), IsSeq(out), CellsLined, NEW tok, tok.begin \in Nat, t.begin \in Nat,
           tok.begin <= t.begin, t.begin <= Len(out), NEW sp, Orderly(Output(tok), sp)
    PROVE  Within(Copy(Output(tok)), NL(out, tok.begin), NL(out, t.begin))
<1> DEFINE b == tok.begin
           e == t.begin
           s == SubSeq(out, b + 1, e)
           l == e - b
<1>1. Len(out) \in Nat
  BY SeqLength
<1>2. b \in Nat /\ e \in Nat /\ e <= Len(out) /\ b <= e /\ l \in Nat
  OBVIOUS
<1>3. /\ b + 1 \in 1 .. Len(out) + 1 /\ e \in (b + 1) - 1 .. Len(out)
      /\ 1 + e - (b + 1) = l
  BY <1>1, <1>2
<1> HIDE DEF b, e
<1>4. /\ IsSeq(s) /\ Len(s) = 1 + e - (b + 1)
      /\ \A i \in 1 .. 1 + e - (b + 1) : s[i] = out[i + (b + 1) - 1]
  BY <1>3, SeqSub
<1>5. \A i \in 1 .. l : i + (b + 1) - 1 = b + i
  BY <1>2
<1> HIDE DEF s
<1>6. IsSeq(s) /\ Len(s) = e - b /\ \A i \in 1 .. e - b : s[i] = out[b + i]
  BY <1>3, <1>4, <1>5
<1>7. Output(tok) = s
  BY DEF Output, s, b, e
<1>8. Orderly(s, sp)
  BY <1>7
<1> HIDE DEF l
<1>9. Within(Copy(s), NL(out, b), NL(out, e))
  BY <1>1, <1>2, <1>6, <1>8, WithinCopy
<1> QED
  BY <1>7, <1>9 DEF b, e
-----------------------------------------------------------------------------
(* The three that replace: a construct, & and ->.                          *)
LEMMA WritesLined ==
    ASSUME SInv, Writes
    PROVE  Rewrites
<1>1. /\ Parsing /\ Head1[1] = "written" /\ Head1[1] \in Patchers /\ Head1[1] # "next"
      /\ Patch(Head1[2], Head1[3]) /\ Put(<<>>) /\ UNCHANGED source
  BY DEF Writes, At, Patchers, input
<1>2. Head1[3] \in Literals
  BY <1>1, Here DEF Sound
<1>3. IsSeq(Head1[3])
  BY <1>2, LiteralMade DEF Made
<1>4. /\ Skipped(Head1[2]).begin \in Nat /\ t.begin \in Nat /\ Skipped(Head1[2]).begin < t.begin
  BY <1>1, BeforeToken DEF SInv
<1>5. Lined(Head1[3])
  <2> DEFINE b == Skipped(Head1[2]).begin
             e == t.begin
             x == NL(out, b)
             y == NL(out, e)
             text == Head1[3]
  <2>1. IsSeq(source)
    BY DEF SInv, IInv, BufferOK
  <2>2. b \in Nat /\ e \in Nat /\ b <= e
    BY <1>4
  <2>3. text \in Literals
    BY <1>2
  <2> HIDE DEF b, e, text
  <2>4. x <= y /\ x \in Nat /\ y \in Nat
    BY <2>2, NLGrows
  <2>5. Within(text, x, x)
    BY <2>1, <2>3, <2>4, LiteralWithin
  <2> HIDE DEF x, y
  <2>6. x <= x
    BY <2>4
  <2>7. Within(text, x, y)
    BY <2>1, <2>4, <2>5, <2>6, WithinWeak
  <2> QED
    BY <2>7 DEF Lined, text, x, y, b, e
<1>6. Returns(<<>>)
  BY DEF Returns
<1> QED
  BY <1>1, <1>3, <1>5, <1>6 DEF Rewrites

(* There is nothing but white space in front of what stays.                *)
LEMMA SkipsTo ==
    ASSUME SInv, Parsing, Head1[1] \in Patchers, NEW i \in Int, Head1[2].begin < i, out[i].c \notin White
    PROVE  Skipped(Head1[2]).begin < i
<1>1. /\ Head1[2].begin \in 0 .. Skipped(Head1[2]).begin /\ Skipped(Head1[2]).begin \in Nat
      /\ \A j \in Head1[2].begin + 1 .. Skipped(Head1[2]).begin : out[j].c \in White
  BY BeforeToken DEF SInv
<1> DEFINE b == Skipped(Head1[2]).begin
           a == Head1[2].begin
<1>2. a \in 0 .. b /\ b \in Nat /\ a < i /\ i \notin a + 1 .. b
  BY <1>1
<1> HIDE DEF a, b
<1>3. b < i
  BY <1>2
<1> QED
  BY <1>3 DEF b

LEMMA PointerLined ==
    ASSUME SInv, HoldsOK, Pointer, Head1[1] = "pointer"
    PROVE  Rewrites
<1> DEFINE text == <<Wrote("terra.types.pointer(")>> \o Copy(Output(Head1[3])) \o <<Wrote(")")>>
           op == <<"binary", Skipped(Head1[2]), Head1[4]>>
           s == Output(Head1[3])
<1>1. /\ Parsing /\ Patch(Head1[2], text) /\ Put(<<op>>) /\ UNCHANGED source
  BY DEF Pointer, At, input
<1>2. /\ IInv /\ ShapeOK /\ BufOK /\ StackOK /\ Head1[1] \in Patchers /\ Head1[1] # "next"
      /\ Head1[1] \in {"pointer", "combine", "binary"} /\ IsSeq(source) /\ IsSeq(out)
  BY DEF SInv, Patchers, IInv, BufferOK
<1>3. /\ t.begin \in Nat /\ t.begin <= Len(out) /\ 1 \in 1 .. Len(todo) /\ todo[1] = Head1
      /\ Head1[2].begin \in Nat
  BY <1>1, <1>2, FirstThere DEF Marked
<1>4. PICK x \in 0 .. t.begin : Rests(Head1, out, x)
  BY <1>3 DEF HoldsOK
<1>5. Head1[3].begin \in Int /\ Head1[2].begin <= Head1[3].begin
  BY <1>1, Here DEF OpOK
<1>6. Head1[3].begin <= x /\ Gap(out, Head1[2].begin, Head1[3].begin)
  BY <1>4 DEF Rests
<1>7. Head1[3].begin \in Nat /\ Head1[3].begin <= t.begin
  <2> DEFINE a == Head1[3].begin
             d == t.begin
             c == Head1[2].begin
  <2>1. a \in Int /\ c \in Nat /\ c <= a /\ a <= x /\ d \in Nat /\ x \in 0 .. d
    BY <1>3, <1>5, <1>6
  <2> HIDE DEF a, d, c
  <2>2. a \in Nat /\ a <= d
    BY <2>1
  <2> QED
    BY <2>2 DEF a, d
<1>8. /\ Skipped(Head1[2]).begin <= Head1[3].begin /\ Skipped(Head1[2]).begin \in Nat
  <2>1. PICK i \in Head1[2].begin + 1 .. Head1[3].begin : out[i].c \notin White
    BY <1>6 DEF Gap
  <2>2. i \in Int /\ Head1[2].begin < i /\ i <= Head1[3].begin
    BY <1>3, <1>5
  <2>3. Skipped(Head1[2]).begin < i
    BY <1>1, <1>2, <2>1, <2>2, SkipsTo
  <2>4. Skipped(Head1[2]).begin \in Nat
    BY <1>1, <1>2, BeforeToken DEF SInv
  <2> QED
    BY <1>5, <2>2, <2>3, <2>4
<1>9. IsSeq(s) /\ Orderly(s, split)
  BY <1>1, <1>2, <1>5, OrderlyOutput
<1>10. IsSeq(text)
  <2> HIDE DEF s
  <2>6. Opened(<<Wrote("terra.types.pointer(")>> \o Copy(s), split)
    BY <1>9, OpeningMade
  <2>7. Made(<<Wrote("terra.types.pointer(")>> \o Copy(s) \o <<Wrote(")")>>, split)
    BY <2>6, ClosingMade DEF Closing
  <2>8. Made(text, split)
    BY <2>7 DEF s
  <2> QED
    BY <2>8 DEF Made
<1>11. ASSUME CellsLined
       PROVE  Within(text, NL(out, Skipped(Head1[2]).begin), NL(out, t.begin))
  <2> DEFINE w == "terra.types.pointer("
             tok == Head1[3]
             p == Copy(s)
             b == NL(out, Skipped(Head1[2]).begin)
             a == NL(out, tok.begin)
             e == NL(out, t.begin)
  <2>1. w # "\n" /\ w # "\r"
    OBVIOUS
  <2>2. b <= a /\ b \in Nat /\ a \in Nat
    BY <1>7, <1>8, NLGrows
  <2>3. a <= e /\ e \in Nat
    BY <1>3, <1>7, NLGrows
  <2>4. Within(p, a, e)
    <3> HIDE DEF tok
    <3>1. tok.begin \in Nat /\ tok.begin <= t.begin /\ Orderly(Output(tok), split)
      BY <1>7, <1>9 DEF tok
    <3>2. Within(Copy(Output(tok)), a, e)
      BY <1>2, <1>3, <1>11, <3>1, OutputWithin
    <3> QED
      BY <3>2 DEF tok
  <2> HIDE DEF w, p, a, b, e
  <2>5. e <= e
    BY <2>3
  <2>6. Within(<<Wrote(w)>> \o p, b, e)
    BY <1>2, <2>1, <2>2, <2>3, <2>4, <2>5, WithinAround
  <2> DEFINE r == <<Wrote(w)>> \o p
             v == ")"
  <2>7. v # "\n" /\ v # "\r"
    OBVIOUS
  <2>8. Within(r, b, e)
    BY <2>6
  <2> HIDE DEF r, v
  <2>9. Within(r \o <<Wrote(v)>>, b, e)
    BY <1>2, <2>2, <2>3, <2>5, <2>7, <2>8, WithinClosed
  <2> QED
    BY <2>9 DEF r, v, p, w, b, e
<1> HIDE DEF text
<1>12. Lined(text)
  BY <1>11 DEF Lined
<1>13. Returns(<<op>>)
  <2>1. op[1] = "binary" /\ op[2] = Skipped(Head1[2])
    OBVIOUS
  <2> HIDE DEF op
  <2> QED
    BY <2>1 DEF Returns
<1> QED
  BY <1>1, <1>2, <1>10, <1>12, <1>13 DEF Rewrites

LEMMA CombineLined ==
    ASSUME SInv, HoldsOK, Operators, Head1[1] = "combine", Head1[3] # NoText
    PROVE  Rewrites
<1> DEFINE first == Head1[3]
           second == Output(Head1[4])
           text == <<Wrote("terra.types.funcpointer(")>> \o Copy(first)
                       \o <<Wrote(",")>> \o Copy(second) \o <<Wrote(")")>>
           op == <<"more", Skipped(Head1[2]), NoText, Head1[5]>>
<1>1. /\ Parsing /\ Patch(Head1[2], text) /\ Put(<<op>>) /\ UNCHANGED source
  BY DEF Operators, At, input
<1>2. /\ IInv /\ ShapeOK /\ BufOK /\ StackOK /\ Head1[1] \in Patchers /\ Head1[1] # "next"
      /\ Head1[1] \in {"pointer", "combine", "binary"} /\ IsSeq(source) /\ IsSeq(out)
  BY DEF SInv, Patchers, IInv, BufferOK
<1>3. /\ t.begin \in Nat /\ t.begin <= Len(out) /\ 1 \in 1 .. Len(todo) /\ todo[1] = Head1
      /\ Head1[2].begin \in Nat /\ Len(out) \in Nat
  <2>1. Head1[1] \in Marked
    BY DEF Marked
  <2>2. /\ t.begin \in Nat /\ t.begin <= Len(out) /\ 1 \in 1 .. Len(todo) /\ todo[1] = Head1
        /\ Head1[2].begin \in 0 .. t.begin /\ Len(out) \in Nat
    BY <1>1, <1>2, <2>1, FirstThere
  <2> QED
    BY <2>2
<1>4. PICK x \in 0 .. t.begin : Rests(Head1, out, x)
  BY <1>3 DEF HoldsOK
<1>5. /\ Head1[4].begin \in Int /\ Head1[2].begin <= Head1[4].begin
      /\ IsSeq(first) /\ Orderly(first, split)
  BY <1>1, <1>2, Here DEF OpOK, Sound
<1>6. PICK q \in 0 .. x : Spans(Head1[2].begin, Head1[3], out, q) /\ q <= Head1[4].begin
  BY <1>4 DEF Rests
<1>7. /\ Head1[4].begin \in Nat /\ Head1[4].begin <= t.begin /\ q \in Nat /\ q <= Head1[4].begin
      /\ q <= Len(out)
  <2>0. Head1[4].begin <= x
    BY <1>4 DEF Rests
  <2> DEFINE a == Head1[4].begin
             d == t.begin
             c == Head1[2].begin
             l == Len(out)
  <2>1. /\ a \in Int /\ c \in Nat /\ c <= a /\ a <= x /\ d \in Nat /\ x \in 0 .. d /\ q \in 0 .. x /\ q <= a
        /\ d <= l /\ l \in Nat
    BY <1>3, <1>5, <1>6, <2>0
  <2> HIDE DEF a, d, c, l
  <2>2. a \in Nat /\ a <= d /\ q \in Nat /\ q <= a /\ q <= l
    BY <2>1
  <2> QED
    BY <2>2 DEF a, d, l
<1>8. PICK h \in Head1[2].begin .. q - 1 :
            /\ out[h + 1].c \notin White
            /\ Len(Head1[3]) = q - h
            /\ \A i \in 1 .. q - h : Head1[3][i] = out[h + i]
  BY <1>6 DEF Spans
<1>9. h \in Nat /\ h <= q
  BY <1>3, <1>7
<1>10. /\ Skipped(Head1[2]).begin <= h /\ Skipped(Head1[2]).begin \in Nat
  <2>1. h + 1 \in Int /\ Head1[2].begin < h + 1
    <3> DEFINE b == Head1[2].begin
    <3>1. b \in Nat /\ h \in b .. q - 1 /\ q \in Nat
      BY <1>3, <1>7
    <3> HIDE DEF b
    <3>2. h + 1 \in Int /\ b < h + 1
      BY <3>1
    <3> QED
      BY <3>2 DEF b
  <2>2. Skipped(Head1[2]).begin < h + 1
    BY <1>1, <1>2, <1>8, <2>1, SkipsTo
  <2>3. Skipped(Head1[2]).begin \in Nat
    BY <1>1, <1>2, BeforeToken DEF SInv
  <2> QED
    BY <1>9, <2>2, <2>3
<1>11. IsSeq(second) /\ Orderly(second, split)
  BY <1>1, <1>2, <1>5, OrderlyOutput
<1>12. IsSeq(text)
  <2> HIDE DEF first, second
  <2>5. Opened(<<Wrote("terra.types.funcpointer(")>> \o Copy(first), split)
    BY <1>5, OpeningMade
  <2>6. Made(<<Wrote("terra.types.funcpointer(")>> \o Copy(first) \o <<Wrote(",")>>, split)
    BY <2>5, ClosingMade DEF Closing
  <2>7. Opened(<<Wrote("terra.types.funcpointer(")>> \o Copy(first) \o <<Wrote(",")>>
                   \o Copy(second), split)
    BY <1>11, <2>6, NextMade
  <2>8. Made(text, split)
    BY <2>7, ClosingMade DEF Closing
  <2> QED
    BY <2>8 DEF Made
<1>13. ASSUME CellsLined
       PROVE  Within(text, NL(out, Skipped(Head1[2]).begin), NL(out, t.begin))
  <2> DEFINE tok == Head1[4]
             sk == Skipped(Head1[2]).begin
             b == NL(out, sk)
             y == NL(out, h)
             z == NL(out, q)
             a == NL(out, tok.begin)
             e == NL(out, t.begin)
  <2>1. sk \in Nat /\ sk <= h
    BY <1>10
  <2>2. tok.begin \in Nat /\ tok.begin <= t.begin /\ Orderly(Output(tok), split) /\ q <= tok.begin
    BY <1>7, <1>11
  <2> HIDE DEF tok, sk, first, second
  <2>3. b <= y /\ b \in Nat /\ y \in Nat
    BY <1>9, <2>1, NLGrows
  <2>4. y <= z /\ z \in Nat
    BY <1>7, <1>9, NLGrows
  <2>5. z <= a /\ a \in Nat
    BY <1>7, <2>2, NLGrows
  <2>6. a <= e /\ e \in Nat
    BY <1>3, <2>2, NLGrows
  <2>7. Within(Copy(first), y, z)
    <3>1. Len(first) = q - h /\ \A i \in 1 .. q - h : first[i] = out[h + i]
      BY <1>8 DEF first
    <3> QED
      BY <1>2, <1>3, <1>5, <1>7, <1>9, <1>13, <3>1, WithinCopy
  <2>8. Within(Copy(second), a, e)
    <3>1. Within(Copy(Output(tok)), a, e)
      BY <1>2, <1>3, <1>13, <2>2, OutputWithin
    <3> QED
      BY <3>1 DEF tok, second
  <2> DEFINE w == "terra.types.funcpointer("
             p1 == Copy(first)
             p2 == <<Wrote(w)>> \o p1
  <2>9. w # "\n" /\ w # "\r"
    OBVIOUS
  <2> HIDE DEF a, b, y, z, e, w
  <2>10. Within(p2, b, z)
    <3> HIDE DEF p1
    <3>1. Within(p1, y, z) /\ z <= z
      BY <2>4, <2>7 DEF p1
    <3> QED
      BY <1>2, <2>3, <2>4, <2>9, <3>1, WithinAround
  <2> HIDE DEF p2
  <2> DEFINE u == ","
             p3 == p2 \o <<Wrote(u)>>
  <2>11. u # "\n" /\ u # "\r"
    OBVIOUS
  <2> HIDE DEF u
  <2>12. Within(p3, b, a)
    BY <1>2, <2>3, <2>4, <2>5, <2>10, <2>11, WithinClosed
  <2> DEFINE p4 == Copy(second)
             p5 == p3 \o p4
  <2>13. Within(p4, a, e)
    BY <2>8
  <2> HIDE DEF p3, p4
  <2>14. Within(p5, b, e)
    BY <1>2, <2>12, <2>13, WithinJoin
  <2> HIDE DEF p5
  <2> DEFINE v == ")"
  <2>15. v # "\n" /\ v # "\r" /\ e <= e
    BY <2>6
  <2> HIDE DEF v
  <2>16. Within(p5 \o <<Wrote(v)>>, b, e)
    BY <1>2, <2>3, <2>6, <2>14, <2>15, WithinClosed
  <2>17. text = p5 \o <<Wrote(v)>>
    BY Zenon DEF v, p5, p4, p3, u, p2, p1, w
  <2> HIDE DEF text
  <2> QED
    BY <2>16, <2>17 DEF b, e, sk
<1> HIDE DEF text
<1>14. Lined(text)
  BY <1>13 DEF Lined
<1>15. Returns(<<op>>)
  <2>1. op[1] = "more" /\ op[2] = Skipped(Head1[2]) /\ op[3] = NoText
    OBVIOUS
  <2> HIDE DEF op
  <2> QED
    BY <2>1 DEF Returns
<1> QED
  BY <1>1, <1>2, <1>12, <1>14, <1>15 DEF Rewrites
-----------------------------------------------------------------------------
(* The marks of the operations behind the first one.                       *)
LEMMA MarksBehind ==
    ASSUME IInv, Parsing, Head1[1] # "next", NEW k \in 2 .. Len(todo), todo[k][1] \in Marked
    PROVE  /\ todo[k][2].begin \in 0 .. t.begin /\ k \in 1 .. Len(todo)
           /\ Head1[1] \in Marked => todo[k][2].begin <= Head1[2].begin
<1>1. TodoOK /\ todo # <<>> /\ t # NoToken /\ 1 \in 1 .. Len(todo) /\ todo[1] = Head1 /\ Len(todo) \in Nat
  BY FirstThere
<1>2. k \in 1 .. Len(todo) /\ 1 < k
  BY <1>1
<1>3. Mark(todo[k]) \subseteq 0 .. t.begin /\ todo[k][2].begin \in Mark(todo[k])
  BY <1>1, <1>2 DEF TodoOK, Mark
<1>4. ASSUME Head1[1] \in Marked
      PROVE  todo[k][2].begin <= Head1[2].begin
  <2>1. Head1[2].begin \in Mark(todo[1])
    BY <1>1, <1>4 DEF Mark
  <2> QED
    BY <1>1, <1>2, <1>3, <2>1 DEF TodoOK
<1> QED
  BY <1>2, <1>3, <1>4

(* The first cells stay, and with them the lines of what is marked there.  *)
LEMMA MarkSame ==
    ASSUME NEW tok, NEW o, NEW o2, NEW b \in Nat, MarkAt(o, tok), tok.begin \in 0 .. b,
           tok.begin < Len(o), \A i \in 1 .. b : o2[i] = o[i]
    PROVE  MarkAt(o2, tok)
<1> DEFINE a == tok.begin
<1>1. a \in Nat /\ a <= b
  OBVIOUS
<1> HIDE DEF a
<1>2. \A k \in 1 .. a : o2[k].c = o[k].c
  <2>1. \A k \in 1 .. a : k \in 1 .. b
    BY <1>1
  <2> QED
    BY <2>1
<1>3. NL(o2, a) = NL(o, a)
  BY <1>1, <1>2, NLSame
<1>4. tok.linebegin = 1 + NL(o, tok.begin)
  BY DEF MarkAt
<1> QED
  BY <1>3, <1>4 DEF MarkAt, a

LEMMA ReturnsAre ==
    ASSUME NEW ops, Returns(ops)
    PROVE  /\ IsSeq(ops)
           /\ \A i \in 1 .. Len(ops) : /\ i = 1 /\ ops[i][1] \in {"binary", "more"}
                                       /\ ops[i][2] = Skipped(Head1[2])
                                       /\ ops[i][1] = "more" => ops[i][3] = NoText
<1>1. CASE ops = <<>>
  <2>1. IsSeq(ops) /\ Len(ops) = 0
    BY <1>1, SeqShort
  <2> QED
    BY <2>1
<1>2. ASSUME NEW op, ops = <<op>>, op[1] \in {"binary", "more"}, op[2] = Skipped(Head1[2]),
             op[1] = "more" => op[3] = NoText
      PROVE  /\ IsSeq(ops)
             /\ \A i \in 1 .. Len(ops) : /\ i = 1 /\ ops[i][1] \in {"binary", "more"}
                                         /\ ops[i][2] = Skipped(Head1[2])
                                         /\ ops[i][1] = "more" => ops[i][3] = NoText
  <2>1. IsSeq(ops) /\ Len(ops) = 1 /\ ops[1] = op
    BY <1>2, SeqShort
  <2>2. \A i \in 1 .. Len(ops) : i = 1
    BY <2>1
  <2> QED
    BY <1>2, <2>1, <2>2
<1> QED
  BY <1>1, <1>2 DEF Returns

(* What they do to the rest of what is left to do, and to the lines.       *)
LEMMA HoldsRewrites ==
    ASSUME SInv, HoldsOK, Rewrites
    PROVE  HoldsOK'
<1>1. PICK text, ops : /\ IsSeq(text) /\ Patch(Head1[2], text) /\ Lined(text)
                       /\ Returns(ops) /\ Put(ops)
  BY DEF Rewrites
<1>2. /\ IInv /\ GapsOK /\ Parsing /\ Head1[1] \in Patchers /\ Head1[1] # "next" /\ Head1[1] \in Marked
  BY DEF SInv, Rewrites, Patchers, Marked
<1> DEFINE b == Skipped(Head1[2]).begin
           m == Head1[2].begin
<1>3. PICK e \in Nat : Patched(text, b, e)
  BY <1>1, <1>2, PatchMakes
<1>4. /\ b \in Nat /\ m \in 0 .. b /\ b <= e /\ t'.begin = e
      /\ \A i \in 1 .. b : out'[i] = out[i]
  <2>1. /\ b \in Nat /\ m \in 0 .. b /\ t'.begin = e /\ Len(text) \in Nat /\ b + Len(text) <= e
        /\ \A i \in 1 .. b : out'[i] = out[i]
    BY <1>3 DEF Patched
  <2> DEFINE n == Len(text)
  <2>2. n \in Nat /\ b \in Nat /\ b + n <= e
    BY <2>1
  <2> HIDE DEF n, b
  <2>3. b <= e
    BY <2>2
  <2> QED
    BY <2>1, <2>3
<1>5. TodoOK /\ todo # <<>> /\ t.begin \in Nat /\ Mark(Head1) = {m}
  BY <1>2, FirstThere
<1>6. /\ IsSeq(ops)
      /\ \A i \in 1 .. Len(ops) : /\ i = 1 /\ ops[i][1] \in {"binary", "more"}
                                  /\ ops[i][2] = Skipped(Head1[2])
                                  /\ ops[i][1] = "more" => ops[i][3] = NoText
  BY <1>1, ReturnsAre
<1>7. \A i \in 1 .. Len(ops) : \A y \in Mark(ops[i]) : y = b
  BY <1>6 DEF Mark
<1>8. \A i \in 1 .. Len(ops) : Rests(ops[i], out', 0)
  <2> TAKE i \in 1 .. Len(ops)
  <2> DEFINE op == ops[i]
  <2>1. op[1] \in {"binary", "more"} /\ (op[1] = "more" => op[3] = NoText)
    BY <1>6
  <2> HIDE DEF op
  <2>2. Rests(op, out', 0)
    BY <2>1 DEF Rests
  <2> QED
    BY <2>2 DEF op
<1> HIDE DEF b, m
<1>9. m \in Nat /\ t'.begin \in Nat /\ m <= t'.begin /\ m <= b
  BY <1>4
<1>10. \A x \in 0 .. t.begin : (\A y \in Mark(Head1) : x <= y)
               => x <= m /\ \A i \in 1 .. x : out'[i] = out[i]
  BY <1>4, <1>5, <1>9
<1>11. \A i \in 1 .. Len(ops) : \A y \in Mark(ops[i]) : y \in Int /\ m <= y
  BY <1>4, <1>7, <1>9
<1>12. \A i \in 1 .. Len(ops) : \E x \in 0 .. t'.begin :
               /\ Rests(ops[i], out', x)
               /\ \A r \in 1 .. i - 1 : \A y \in Mark(ops[r]) : x <= y
  <2> TAKE i \in 1 .. Len(ops)
  <2>1. i = 1
    BY <1>6
  <2>2. 0 \in 0 .. t'.begin /\ ~\E r \in 1 .. i - 1 : TRUE
    BY <1>9, <2>1
  <2> QED
    BY <1>8, <2>2
<1> QED
  BY <1>1, <1>5, <1>6, <1>9, <1>10, <1>11, <1>12, HoldsPut

LEMMA LinesRewrites ==
    ASSUME SInv, LinesOK, CellsLined, MarksLined, Rewrites
    PROVE  CellsLined' /\ MarksLined'
<1>1. PICK text, ops : /\ IsSeq(text) /\ Patch(Head1[2], text) /\ Lined(text)
                       /\ Returns(ops) /\ Put(ops)
  BY DEF Rewrites
<1>2. /\ IInv /\ GapsOK /\ Parsing /\ Head1[1] \in Patchers /\ Head1[1] # "next" /\ Head1[1] \in Marked
      /\ UNCHANGED source
  BY DEF SInv, Rewrites, Patchers, Marked
<1> DEFINE sk == Skipped(Head1[2])
           b == sk.begin
           m == Head1[2].begin
<1>3. PICK e \in Nat : Patched(text, b, e) /\ e = b + Len(text) + Rows(text)
  BY <1>1, <1>2, PatchMakes
<1>4. /\ b \in Nat /\ m \in 0 .. b /\ b < t.begin /\ t.begin <= Len(out) /\ t.begin \in Nat /\ Len(out) \in Nat
      /\ \A i \in 1 .. b : out'[i] = out[i]
  BY <1>3 DEF Patched
<1>5. CellsLined'
  <2>1. Within(text, NL(out, b), NL(out, t.begin))
    BY <1>1 DEF Lined
  <2>2. b = Skipped(Head1[2]).begin
    OBVIOUS
  <2> HIDE DEF b
  <2> QED
    BY <1>2, <1>3, <2>1, <2>2, PatchLines
<1>6. TodoOK /\ todo # <<>> /\ 1 \in 1 .. Len(todo) /\ todo[1] = Head1
  BY <1>2, FirstThere
<1>7. /\ IsSeq(ops)
      /\ \A i \in 1 .. Len(ops) : ops[i][2] = sk
  BY <1>1, ReturnsAre
<1>8. b < Len(out) /\ m \in 0 .. Len(out) /\ m < Len(out)
  <2> HIDE DEF b, m
  <2> QED
    BY <1>4
<1>9. sk.linebegin = 1 + NL(out, b)
  <2> DEFINE tok == Head1[2]
  <2>1. IsToken(tok) /\ tok.begin \in 0 .. Len(out) /\ tok.begin < Len(out)
    BY <1>2, <1>8, BeforeToken
  <2>2. IsSeq(out) /\ \A i \in 1 .. Len(out) : out[i].c # "\r"
    BY <1>2 DEF IInv, BufferOK, CellsLined, CellAt, LineOK
  <2>3. MarkAt(out, tok)
    BY <1>2, <1>6 DEF MarksLined
  <2> HIDE DEF tok
  <2>4. Skipped(tok).linebegin = 1 + NL(out, Skipped(tok).begin)
    BY <2>1, <2>2, <2>3, SkippedLine
  <2> QED
    BY <2>4 DEF tok
<1> DEFINE o2 == out'
<1>10. MarkAt(o2, sk)
  <2>1. MarkAt(out, sk)
    BY <1>9 DEF MarkAt
  <2>2. sk.begin \in 0 .. b /\ sk.begin < Len(out)
    BY <1>4, <1>8
  <2>3. \A i \in 1 .. b : o2[i] = out[i]
    BY <1>4
  <2>4. b \in Nat
    BY <1>4
  <2> HIDE DEF sk, o2, b
  <2> QED
    BY <2>1, <2>2, <2>3, <2>4, MarkSame
<1> HIDE DEF sk
<1>11. ASSUME NEW k \in 2 .. Len(todo), todo[k][1] \in Marked
       PROVE  MarkAt(o2, todo[k][2])
  <2> DEFINE tok == todo[k][2]
             c == tok.begin
             l == Len(out)
  <2>1. tok.begin \in 0 .. t.begin /\ k \in 1 .. Len(todo) /\ tok.begin <= m
    BY <1>2, <1>11, MarksBehind
  <2>2. MarkAt(out, tok)
    BY <1>11, <2>1 DEF MarksLined
  <2>3. c \in 0 .. b /\ c < l
    <3>1. c \in 0 .. t.begin /\ c <= m /\ m \in 0 .. b /\ b \in Nat /\ b < l /\ l \in Nat /\ t.begin \in Nat
      BY <1>4, <1>8, <2>1
    <3> HIDE DEF c, m, b, l
    <3> QED
      BY <3>1
  <2>4. b \in Nat /\ \A i \in 1 .. b : o2[i] = out[i]
    BY <1>4
  <2>5. tok.begin \in 0 .. b /\ tok.begin < Len(out)
    BY <2>3
  <2> HIDE DEF tok, b, o2
  <2> QED
    BY <2>2, <2>4, <2>5, MarkSame DEF tok
<1>12. \A i \in 1 .. Len(ops) : MarkAt(o2, ops[i][2])
  BY <1>7, <1>10
<1>13. MarksLined'
  <2>1. \A k \in 2 .. Len(todo) : todo[k][1] \in Marked => MarkAt(out', todo[k][2])
    BY <1>11
  <2>2. \A i \in 1 .. Len(ops) : ops[i][1] \in Marked => MarkAt(out', ops[i][2])
    BY <1>12
  <2> QED
    BY <1>1, <1>6, <1>7, <2>1, <2>2, MarksPut
<1> QED
  BY <1>5, <1>13
-----------------------------------------------------------------------------
(* What a separator does to the lines.                                     *)
LEMMA TokenText ==
    ASSUME SInv, t.token # EOS
    PROVE  /\ t # NoToken /\ IInv /\ t.from \in 1 .. Len(source) /\ Len(source) \in Nat /\ Len(out) \in Nat
           /\ t.begin \in Nat /\ t.begin < Len(out)
<1>1. t # NoToken
  BY DEF NoToken
<1>2. /\ t.from \in 1 .. Len(source) + 1 /\ Seen(source, current, t.from)
      /\ Held(t) /\ Len(out) \in Nat /\ Len(source) \in Nat
  BY <1>1, TokenThere DEF SInv, IInv, SeenOK
<1>3. t.from <= Len(source)
  <2>1. PICK f \in t.from .. Len(source) : TRUE
    BY <1>2 DEF Seen
  <2> QED
    BY <1>2, <2>1
<1>4. t.begin \in Nat /\ Len(out) - t.begin = Len(source) + 1 - t.from
  BY <1>2 DEF Held, InPlace
<1>5. t.begin < Len(out)
  <2> DEFINE a == Len(out)
             b == Len(source)
             c == t.begin
             d == t.from
  <2>1. a \in Nat /\ b \in Nat /\ c \in Nat /\ d \in 1 .. b + 1 /\ d <= b /\ a - c = b + 1 - d
    BY <1>2, <1>3, <1>4
  <2> HIDE DEF a, b, c, d
  <2>2. c < a
    BY <2>1
  <2> QED
    BY <2>2 DEF a, c
<1> QED
  BY <1>1, <1>2, <1>3, <1>4, <1>5 DEF SInv

(* A separator is on no line of its own.                                   *)
LEMMA InsertLines ==
    ASSUME SInv, CellsLined, Inserted(Separator), UNCHANGED source
    PROVE  CellsLined'
<1> DEFINE b == t.begin
           m == Len(out)
           o == out'
<1>1. /\ b \in Nat /\ m \in Nat /\ b <= m /\ Len(o) = m + 1
      /\ o[b + 1] = Separator
      /\ \A i \in 1 .. b : o[i] = out[i]
      /\ \A i \in 1 .. m - b : o[b + 1 + i] = out[b + i]
  BY DEF Inserted
<1>2. /\ IsSeq(source) /\ Separator.c = ";" /\ Separator.at = 0
      /\ \A i \in 1 .. m : LineOK(out[i], 1 + NL(out, i - 1), source)
  BY DEF SInv, IInv, BufferOK, Separator, Wrote, CellsLined, CellAt
<1>3. CellsLined' = \A i \in 1 .. Len(o) : LineOK(o[i], 1 + NL(o, i - 1), source)
  <2> DEFINE s == source'
  <2>1. CellsLined' = \A j \in 1 .. Len(o) : LineOK(o[j], 1 + NL(o, j - 1), s)
    BY DEF CellsLined, CellAt, LineOK, NL, Upto, Num, Ends1, IsEnds
  <2>2. s = source
    OBVIOUS
  <2> HIDE DEF s, o
  <2> QED
    BY <2>1, <2>2
<1> HIDE DEF o, b, m
<1>4. \A i \in 0 .. b : NL(o, i) = NL(out, i)
  <2> TAKE i \in 0 .. b
  <2>1. i \in Nat /\ \A k \in 1 .. i : k \in 1 .. b
    BY <1>1
  <2>2. \A k \in 1 .. i : o[k].c = out[k].c
    BY <1>1, <2>1
  <2> QED
    BY <2>1, <2>2, NLSame
<1>5. NL(o, b + 1) = NL(out, b)
  <2>1. NL(o, b + 1) = IF o[b + 1].c = "\n" THEN NL(o, b) + 1 ELSE NL(o, b)
    BY <1>1, NLNext
  <2>2. o[b + 1].c # "\n"
    BY <1>1, <1>2
  <2>3. b \in 0 .. b
    BY <1>1
  <2> QED
    BY <1>4, <2>1, <2>2, <2>3
<1>6. \A j \in 0 .. m - b : NL(o, (b + 1) + j) = NL(out, b + j)
  <2> TAKE j \in 0 .. m - b
  <2>1. /\ j \in Nat /\ b + 1 \in Nat
        /\ \A k \in 1 .. j : k \in 1 .. m - b
    BY <1>1
  <2>2. \A k \in 1 .. j : o[(b + 1) + k].c = out[b + k].c
    BY <1>1, <2>1
  <2>3. Alike(out, b, o, b + 1, j)
    BY <1>1, <2>1, <2>2 DEF Alike
  <2>4. /\ NL(o, (b + 1) + j) = NL(o, b + 1) + (NL(out, b + j) - NL(out, b))
        /\ NL(out, b) \in Nat /\ NL(out, b + j) \in Nat
    BY <2>3, NLAlike
  <2> DEFINE x == NL(out, b)
             y == NL(out, b + j)
             z == NL(o, (b + 1) + j)
  <2>5. z = x + (y - x) /\ x \in Nat /\ y \in Nat
    BY <1>5, <2>4
  <2> HIDE DEF x, y, z
  <2>6. z = y
    BY <2>5
  <2> QED
    BY <2>6 DEF y, z
<1>7. ASSUME NEW i \in 1 .. Len(o)
      PROVE  LineOK(o[i], 1 + NL(o, i - 1), source)
  <2>1. CASE i <= b
    <3>1. i \in 1 .. b /\ i \in 1 .. m /\ i - 1 \in 0 .. b
      BY <1>1, <2>1
    <3>2. o[i] = out[i] /\ NL(o, i - 1) = NL(out, i - 1)
      BY <1>1, <1>4, <3>1
    <3> QED
      BY <1>2, <3>1, <3>2
  <2>2. CASE i = b + 1
    <3>1. o[i].c = ";" /\ o[i].at = 0
      BY <1>1, <1>2, <2>2
    <3>2. Len(source) \in Nat
      BY <1>2, SeqLength
    <3>3. 0 \in 0 .. Len(source)
      BY <3>2
    <3> QED
      BY <3>1, <3>3 DEF LineOK
  <2>3. CASE i > b + 1
    <3> DEFINE j == i - (b + 1)
    <3>1. /\ j \in 1 .. m - b /\ j - 1 \in 0 .. m - b /\ b + j \in 1 .. m
          /\ i = b + 1 + j /\ (b + 1) + (j - 1) = i - 1 /\ b + (j - 1) = (b + j) - 1
      <4>1. i \in 1 .. m + 1
        BY <1>1
      <4> QED
        BY <1>1, <2>3, <4>1
    <3> HIDE DEF j
    <3>2. o[i] = out[b + j]
      BY <1>1, <3>1
    <3>3. NL(o, i - 1) = NL(out, (b + j) - 1)
      BY <1>6, <3>1
    <3> QED
      BY <1>2, <3>1, <3>2, <3>3
  <2>4. i \in Int
    BY <1>1
  <2> QED
    BY <1>1, <2>1, <2>2, <2>3, <2>4
<1> QED
  BY <1>3, <1>7

LEMMA LinesSplits ==
    ASSUME SInv, HoldsOK, Splits
    PROVE  /\ HoldsOK'
           /\ CellsLined /\ MarksLined => CellsLined' /\ MarksLined'
<1>1. /\ Parsing /\ Head1[1] = "suffix" /\ Head1[1] # "next" /\ Head1[1] \notin Marked /\ UNCHANGED source
      /\ t.token # EOS /\ Insert(Separator) /\ Put(<<>>)
  BY DEF Splits, EOS, Marked
<1>2. /\ t # NoToken /\ IInv /\ Len(out) \in Nat /\ t.begin \in Nat /\ t.begin < Len(out)
  BY <1>1, TokenText
<1>3. Inserted(Separator)
  BY <1>1, <1>2, InsertMakes
<1>4. /\ t'.begin = t.begin + 1 /\ \A i \in 1 .. t.begin : out'[i] = out[i]
  BY <1>3 DEF Inserted
<1>5. TodoOK /\ todo # <<>>
  BY <1>1, <1>2, FirstThere
<1>6. IsSeq(<<>>) /\ Len(<<>>) = 0
  BY SeqShort
<1>7. HoldsOK'
  <2> DEFINE m == t.begin
             ops == <<>>
  <2>1. m \in Nat /\ t.begin \in Nat /\ t'.begin \in Nat /\ m <= t'.begin
    BY <1>2, <1>4
  <2>2. \A x \in 0 .. t.begin : (\A y \in Mark(Head1) : x <= y)
               => x <= m /\ \A i \in 1 .. x : out'[i] = out[i]
    BY <1>2, <1>4
  <2>3. IsSeq(ops) /\ Put(ops) /\ ~\E i \in 1 .. Len(ops) : TRUE
    BY <1>1, <1>6
  <2> HIDE DEF ops, m
  <2> QED
    BY <1>5, <2>1, <2>2, <2>3, HoldsPut
<1>8. ASSUME CellsLined, MarksLined
      PROVE  CellsLined' /\ MarksLined'
  <2>1. CellsLined'
    BY <1>1, <1>3, <1>8, InsertLines
  <2> DEFINE o2 == out'
  <2>2. ASSUME NEW k \in 2 .. Len(todo), todo[k][1] \in Marked
        PROVE  MarkAt(o2, todo[k][2])
    <3> DEFINE tok == todo[k][2]
               b == t.begin
    <3>1. tok.begin \in 0 .. b /\ k \in 1 .. Len(todo)
      BY <1>1, <1>2, <2>2, MarksBehind
    <3>2. MarkAt(out, tok)
      BY <1>8, <2>2, <3>1 DEF MarksLined
    <3>3. tok.begin < Len(out)
      <4> DEFINE c == tok.begin
                 l == Len(out)
      <4>1. c \in 0 .. b /\ b < l /\ b \in Nat /\ l \in Nat
        BY <1>2, <3>1
      <4> HIDE DEF b, c, l
      <4>2. c < l
        BY <4>1
      <4> QED
        BY <4>2 DEF c, l
    <3>4. b \in Nat /\ \A i \in 1 .. b : o2[i] = out[i]
      BY <1>2, <1>4
    <3> HIDE DEF tok, b, o2
    <3> QED
      BY <3>1, <3>2, <3>3, <3>4, MarkSame DEF tok
  <2>3. MarksLined'
    <3> DEFINE ops == <<>>
    <3>1. IsSeq(ops) /\ Put(ops) /\ ~\E i \in 1 .. Len(ops) : TRUE
      BY <1>1, <1>6
    <3>2. \A k \in 2 .. Len(todo) : todo[k][1] \in Marked => MarkAt(out', todo[k][2])
      BY <2>2
    <3> HIDE DEF ops
    <3> QED
      BY <1>5, <3>1, <3>2, MarksPut
  <2> QED
    BY <2>1, <2>3
<1> QED
  BY <1>7, <1>8
-----------------------------------------------------------------------------
(* An error, and the end.                                                  *)
LEMMA LinesStopped ==
    ASSUME SInv, HoldsOK, Stopped
    PROVE  /\ HoldsOK'
           /\ CellsLined /\ MarksLined => CellsLined' /\ MarksLined'
<1>1. todo' = <<>> /\ UNCHANGED <<out, source>>
  BY DEF Stopped, Quiet
<1>2. Len(<<>>) = 0
  OBVIOUS
<1>3. Len(todo') = 0
  BY <1>1, <1>2
<1>4. ~\E p \in 1 .. Len(todo') : TRUE
  BY <1>3
<1>5. HoldsOK'
  BY <1>4 DEF HoldsOK
<1>6. MarksLined'
  BY <1>4 DEF MarksLined
<1>7. CellsLined => CellsLined'
  BY <1>1 DEF CellsLined, CellAt
<1> QED
  BY <1>5, <1>6, <1>7
-----------------------------------------------------------------------------
LEMMA CombinePushes ==
    ASSUME SInv, Operators
    PROVE  Head1[1] = "combine" /\ Head1[3] = NoText => Pushed
<1> DEFINE op == <<"more", Head1[2], NoText, Head1[5]>>
<1>1. Parsing /\ Head1[1] # "next" /\ Head1[1] \in {"binary", "more", "right", "combine"}
  BY DEF Operators, At
<1>2. Orderly(NoText, split)
  BY OrderlyWrote
<1>3. OpFit(op) /\ Placed(op) /\ op[1] = "more"
  BY <1>1, <1>2, OperandGood
<1>4. ASSUME Head1[1] = "combine", Head1[3] = NoText
      PROVE  Pushed
  <2>1. Becomes(<<op>>)
    BY <1>4 DEF Operators, At
  <2> HIDE DEF op
  <2>2. Opens(op, op) /\ Hands(Head1, op)
    BY <1>3, <1>4 DEF Opens, Eats, Firsts, Passive, Hands, Pops
  <2>3. Fit(<<op>>)
    BY <1>3, <1>4, <2>2, FitOne
  <2> QED
    BY <1>1, <2>1, <2>3, Pushing
<1> QED
  BY <1>4

(* The operations of & and of operators, and what is written.              *)
LEMMA OperandActions ==
    ASSUME Parse, Head1[1] \in Operands \cup {"written", "pointer"}
    PROVE  /\ Head1[1] = "written" => Writes
           /\ Head1[1] \in {"operand", "pointer"} => Pointer
           /\ Head1[1] \in {"binary", "more", "right", "combine"} => Operators
<1>0. Head1[1] \in {"operand", "binary", "more", "right", "combine", "written", "pointer"}
  BY DEF Operands
<1>1. ~Nexts /\ ~Unexpected /\ ~Looks
  BY <1>0 DEF Nexts, Unexpected, Looks, At
<1>2. ~Statement /\ ~LocalStat
  BY <1>0 DEF Statement, LocalStat, At
<1>3. ~Terrastats /\ ~Structbody
  BY <1>0 DEF Terrastats, Structbody, At
<1>4. ~Subexpr /\ ~Simple /\ ~Constructor
  BY <1>0 DEF Subexpr, Simple, Constructor, At
<1>5. ~Suffix /\ ~Args /\ ~Embedded
  BY <1>0 DEF Suffix, Args, Embedded, At
<1>6. ~Language /\ ~Finish
  BY <1>0 DEF Language, Finish, At
<1>7. Writes => Head1[1] = "written"
  BY DEF Writes, At
<1>8. Pointer => Head1[1] \in {"operand", "pointer"}
  BY DEF Pointer, At
<1>9. Operators => Head1[1] \in {"binary", "more", "right", "combine"}
  BY DEF Operators, At
<1>10. Writes \/ Pointer \/ Operators
  BY <1>1, <1>2, <1>3, <1>4, <1>5, <1>6 DEF Parse
<1> QED
  BY <1>7, <1>8, <1>9, <1>10

(* What is to be shown of every step but those of llex.                    *)
Lining == HoldsOK' /\ (CellsLined /\ MarksLined => CellsLined' /\ MarksLined')

LEMMA LinesRewritten ==
    ASSUME SInv, HoldsOK, LinesOK, Rewrites
    PROVE  Lining
<1>1. HoldsOK'
  BY HoldsRewrites
<1>2. ASSUME CellsLined, MarksLined PROVE CellsLined' /\ MarksLined'
  BY <1>2, LinesRewrites
<1> QED
  BY <1>1, <1>2 DEF Lining

(* All of the parser but the reading of tokens.                            *)
LEMMA LinesParsed ==
    ASSUME SInv, HoldsOK, LinesOK, Stepped, Parse
    PROVE  Lining
<1>1. CASE Rewrites
  BY <1>1, LinesRewritten
<1>2. CASE Stopped
  BY <1>2, LinesStopped DEF Lining
<1>3. CASE Splits
  BY <1>3, LinesSplits DEF Lining
<1>4. CASE Pushed
  <2>1. UNCHANGED <<out, t>> /\ Parsing
    BY <1>4 DEF Pushed, Quiet
  <2>2. HoldsOK' \/ Rewrites
    <3>1. CASE Head1[1] \notin Operands
      BY <1>4, <3>1, HoldsElse
    <3>2. CASE Head1[1] = "operand"
      <4>1. Pointer
        BY <3>2, OperandActions DEF Operands
      <4> QED
        BY <3>2, <4>1, HoldsPointer
    <3>3. CASE Head1[1] \in {"binary", "more", "right", "combine"}
      <4>1. Operators
        BY <3>3, OperandActions DEF Operands
      <4>2. HoldsOK' \/ (Head1[1] = "combine" /\ Head1[3] # NoText)
        BY <2>1, <4>1, HoldsOperators
      <4> QED
        BY <4>1, <4>2, CombineLined
    <3> QED
      BY <3>1, <3>2, <3>3 DEF Operands
  <2>3. ASSUME CellsLined, MarksLined PROVE CellsLined' /\ MarksLined'
    BY <1>4, <2>3, LinesPush
  <2> QED
    BY <1>1, <2>2, <2>3 DEF Lining
<1>5. ASSUME NEW text, NEW ops, Writing(text, ops)
      PROVE  Pushed \/ Rewrites
  <2>1. Head1[1] \in {"written", "pointer", "combine"}
    BY <1>5 DEF Writing, Patchers
  <2>2. CASE Head1[1] = "written"
    <3>1. Writes
      BY <2>2, OperandActions
    <3> QED
      BY <3>1, WritesLined
  <2>3. CASE Head1[1] = "pointer"
    <3>1. Pointer
      BY <2>3, OperandActions
    <3> QED
      BY <2>3, <3>1, PointerLined
  <2>4. CASE Head1[1] = "combine"
    <3>1. Operators
      BY <2>4, OperandActions DEF Operands
    <3> QED
      BY <2>4, <3>1, CombineLined, CombinePushes
  <2> QED
    BY <2>1, <2>2, <2>3, <2>4
<1> QED
  BY <1>1, <1>2, <1>3, <1>4, <1>5, Zenon DEF Stepped
-----------------------------------------------------------------------------
(* llex: the current token does not go back.                               *)
LEMMA TokenBegins ==
    ASSUME IInv
    PROVE  t.begin \in Nat
<1>1. CASE t = NoToken
  BY <1>1 DEF NoToken
<1>2. CASE t # NoToken
  BY <1>2 DEF IInv, TokensOK, Held, InPlace
<1> QED
  BY <1>1, <1>2

LEMMA TokenLater ==
    ASSUME IInv, IInv', Lexes, t # NoToken
    PROVE  t.begin <= t'.begin
<1>1. lx # Idle /\ (GoesOn \/ Ends \/ EndOfText \/ GivesUp)
  BY LexStep
<1>2. t.begin \in 0 .. Len(out) /\ Len(out) \in Nat /\ Len(source) \in Nat /\ Held(t)
  BY TokenThere DEF IInv
<1>3. BufferOK /\ BufferOK'
  BY DEF IInv
<1>4. CASE t' = t
  BY <1>2, <1>4
<1>5. ASSUME Ends, t' # t
      PROVE  t.begin <= t'.begin
  <2>1. PICK k : lx' = Idle /\ t' = Token(k)
    BY <1>5 DEF Ends, Gives
  <2>2. t'.begin = lx.begin /\ t'.from = lx.from
    BY <2>1 DEF Token
  <2>3. /\ InPlace(out, source, t.begin, t.from) /\ InPlace(out, source, lx.begin, lx.from)
        /\ t.from <= lx.from
    BY <1>2, <1>5 DEF Ends, Reading, Held
  <2>4. t.begin <= lx.begin
    BY <1>2, <2>3, InOrder
  <2> QED
    BY <2>2, <2>4
<1>6. ASSUME EndOfText, t' # t
      PROVE  t.begin <= t'.begin
  <2> DEFINE n == Len(out)
  <2>1. t' = [Token(EOS) EXCEPT !.begin = n, !.from = Len(source) + 1]
    BY <1>6 DEF EndOfText, Gives
  <2>2. t'.begin = n
    BY <2>1 DEF Token
  <2>3. t.begin \in 0 .. n /\ n \in Nat
    BY <1>2
  <2> HIDE DEF n
  <2> QED
    BY <2>2, <2>3
<1> QED
  BY <1>1, <1>4, <1>5, <1>6 DEF GoesOn, GivesUp

(* What operations know stays when all there was in the buffer does.       *)
LEMMA HoldsSame ==
    ASSUME IInv, IInv', HoldsOK, t # NoToken, todo' = todo, t.begin <= t'.begin,
           \A i \in 1 .. t.begin : out'[i] = out[i]
    PROVE  HoldsOK'
<1> SUFFICES ASSUME NEW p \in 1 .. Len(todo')
             PROVE  \E x \in 0 .. t'.begin :
                       /\ Rests(todo'[p], out', x)
                       /\ \A r \in 1 .. p - 1 : \A y \in Mark(todo'[r]) : x <= y
  BY DEF HoldsOK, Rests, Spans, Gap, Mark
<1>0. p \in 1 .. Len(todo)
  OBVIOUS
<1>1. t.begin \in Nat /\ t'.begin \in Nat
  <2>1. t'.begin \in Nat
    BY DEF IInv, TokensOK, Held, InPlace, NoToken
  <2> QED
    BY <2>1, TokenBegins
<1>2. PICK x \in 0 .. t.begin :
         /\ Rests(todo[p], out, x)
         /\ \A r \in 1 .. p - 1 : \A y \in Mark(todo[r]) : x <= y
  BY <1>0 DEF HoldsOK
<1>3. x \in 0 .. t'.begin /\ x \in Nat /\ \A i \in 1 .. x : i \in 1 .. t.begin
  BY <1>1, <1>2
<1>4. OpOK(todo[p]) /\ Mark(todo[p]) \subseteq Nat
  <2>1. Mark(todo[p]) \subseteq 0 .. t.begin /\ OpOK(todo[p])
    BY <1>0 DEF IInv, TodoOK
  <2> QED
    BY <1>1, <2>1
<1>5. \A i \in 1 .. x : out'[i] = out[i]
  BY <1>3
<1>6. Rests(todo[p], out', x)
  BY <1>2, <1>3, <1>4, <1>5, RestsSame
<1> QED
  BY <1>2, <1>3, <1>6

(* Before there is a token no operation knows anything.                    *)
LEMMA HoldsNone ==
    ASSUME IInv', \A p \in 1 .. Len(todo') : todo'[p][1] \notin Marked
    PROVE  HoldsOK'
<1>1. t'.begin \in Nat
  BY DEF IInv, TokensOK, Held, InPlace, NoToken
<1>2. 0 \in 0 .. t'.begin
  BY <1>1
<1> SUFFICES ASSUME NEW p \in 1 .. Len(todo')
             PROVE  /\ Rests(todo'[p], out', 0)
                    /\ \A r \in 1 .. p - 1 : \A y \in Mark(todo'[r]) : 0 <= y
  BY <1>2 DEF HoldsOK, Rests, Spans, Gap, Mark
<1>3. Rests(todo'[p], out', 0)
  BY DEF Rests, Marked
<1>4. ASSUME NEW r \in 1 .. p - 1
      PROVE  Mark(todo'[r]) = {}
  <2>1. Len(todo') \in Nat
    BY SeqLength DEF IInv, TodoOK
  <2>2. r \in 1 .. Len(todo')
    BY <2>1
  <2> QED
    BY <2>2 DEF Mark
<1> QED
  BY <1>3, <1>4

LEMMA HoldsLexes ==
    ASSUME IInv, IInv', HoldsOK, Lexes
    PROVE  HoldsOK'
<1>1. todo' = todo
  BY LexStep DEF Lexes
<1>2. CASE t # NoToken
  <2>1. Reads
    BY LexStep DEF GoesOn, Ends, EndOfText, GivesUp, Reads
  <2>2. /\ Len(out) \in Nat /\ \A i \in 1 .. Len(out) : out'[i] = out[i]
    BY <2>1, OutGrows DEF IInv
  <2>3. t.begin \in 0 .. Len(out)
    BY <1>2, TokenThere DEF IInv
  <2>4. \A i \in 1 .. t.begin : out'[i] = out[i]
    BY <2>2, <2>3
  <2>5. t.begin <= t'.begin
    BY <1>2, TokenLater
  <2> QED
    BY <1>1, <1>2, <2>4, <2>5, HoldsSame
<1>3. CASE t = NoToken
  BY <1>1, <1>3, NoMarks, HoldsNone
<1> QED
  BY <1>2, <1>3
-----------------------------------------------------------------------------
(* A character is read: it is on the line that the ones before it make.    *)
Arrives == /\ source' = Append(source, current')
         /\ out' = Append(out, [c |-> current', at |-> Len(source) + 1, copied |-> FALSE])

LEMMA LastLine ==
    ASSUME BufferOK, Plain, CellsLined, current # EOZ
    PROVE  1 + NL(out, Len(out)) = Num(source, Len(source))
<1> DEFINE n == Len(out)
           k == Len(source)
<1>1. /\ IsSeq(source) /\ IsSeq(out) /\ k \in Nat /\ n \in Nat /\ k > 0
      /\ InPlace(out, source, n - 1, k)
  BY SeqLength DEF BufferOK
<1>2. n - 1 \in Nat /\ \A i \in k .. k : out[(n - 1) + 1 + (i - k)] = Cell(source, i)
  BY <1>1 DEF InPlace
<1>3. (n - 1) + 1 + (k - k) = n /\ k \in k .. k /\ n \in 1 .. n /\ k - 1 \in Nat /\ (k - 1) + 1 = k
      /\ (n - 1) + 1 = n /\ k <= k
  BY <1>1, <1>2
<1>4. out[n] = Cell(source, k)
  BY <1>2, <1>3
<1>5. out[n].c = source[k] /\ out[n].at = k /\ out[n].copied = FALSE /\ k # 0
  BY <1>1, <1>4 DEF Cell
<1>6. 1 + NL(out, n - 1) = Num(source, k - 1)
  BY <1>3, <1>5 DEF CellsLined, CellAt, LineOK
<1>7. Num(source, k) = IF source[k] = "\n" THEN Num(source, k - 1) + 1 ELSE Num(source, k - 1)
  <2>1. Num(source, (k - 1) + 1) = IF source[(k - 1) + 1] = "\n" THEN Num(source, k - 1) + 1
                                                                ELSE Num(source, k - 1)
    <3>1. \A i \in 1 .. Len(source) : source[i] # "\r"
      BY DEF Plain
    <3>2. k - 1 \in Nat /\ (k - 1) + 1 <= Len(source)
      BY <1>3
    <3> HIDE DEF k
    <3> QED
      BY <1>1, <3>1, <3>2, PlainStep
  <2> QED
    BY <1>3, <2>1
<1>8. NL(out, n) = IF out[n].c = "\n" THEN NL(out, n - 1) + 1 ELSE NL(out, n - 1)
  <2>1. NL(out, (n - 1) + 1) = IF out[(n - 1) + 1].c = "\n" THEN NL(out, n - 1) + 1 ELSE NL(out, n - 1)
    BY <1>2, NLNext
  <2> QED
    BY <1>3, <2>1
<1>9. NL(out, n - 1) \in Nat
  BY <1>2, NLType
<1> DEFINE a == NL(out, n - 1)
           b == NL(out, n)
           c == Num(source, k - 1)
           d == Num(source, k)
<1>10. /\ 1 + a = c /\ a \in Nat
       /\ d = (IF source[k] = "\n" THEN c + 1 ELSE c)
       /\ b = (IF source[k] = "\n" THEN a + 1 ELSE a)
  BY <1>5, <1>6, <1>7, <1>8, <1>9
<1> HIDE DEF a, b, c, d
<1>11. 1 + b = d
  BY <1>10
<1> QED
  BY <1>11 DEF b, d

LEMMA CellsComes ==
    ASSUME BufferOK, Plain, Plain', CellsLined, current # EOZ, Arrives, Longer(source, source')
    PROVE  CellsLined'
<1> DEFINE o == out'
           s == source'
           n == Len(out)
           k == Len(source)
<1>1. IsSeq(source) /\ IsSeq(out) /\ k \in Nat /\ n \in Nat
  BY SeqLength DEF BufferOK
<1>2. /\ Len(s) = k + 1 /\ s[k + 1] = current'
  BY <1>1, SeqAppend DEF Arrives
<1>3. /\ Len(o) = n + 1 /\ o[n + 1] = [c |-> current', at |-> k + 1, copied |-> FALSE]
      /\ \A i \in 1 .. n : o[i] = out[i]
  BY <1>1, SeqAppend DEF Arrives
<1>4. 1 + NL(out, n) = Num(source, k)
  BY LastLine
<1>5. Num(s, k) = Num(source, k) /\ Longer(source, s)
  <2>1. k \in 0 .. k
    BY <1>1
  <2> QED
    BY <2>1 DEF Longer
<1>6. current' # "\r"
  <2>1. k + 1 \in 1 .. Len(s)
    BY <1>1, <1>2
  <2> QED
    BY <1>2, <2>1 DEF Plain
<1> SUFFICES ASSUME NEW i \in 1 .. n + 1
             PROVE  LineOK(o[i], 1 + NL(o, i - 1), s)
  BY <1>3, Zenon DEF CellsLined, CellAt, LineOK, NL, Upto, Num, Ends1, IsEnds
<1>7. \A x \in 1 .. n : LineOK(out[x], 1 + NL(out, x - 1), source)
  BY DEF CellsLined, CellAt
<1> HIDE DEF o, s, n, k
<1>8. NL(o, i - 1) = NL(out, i - 1)
  <2>1. i - 1 \in Nat /\ \A j \in 1 .. i - 1 : j \in 1 .. n
    BY <1>1
  <2>2. \A j \in 1 .. i - 1 : o[j].c = out[j].c
    BY <1>3, <2>1
  <2> QED
    BY <2>1, <2>2, NLSame
<1>9. CASE i = n + 1
  <2>1. o[i].c # "\r" /\ o[i].at = k + 1 /\ o[i].copied = FALSE
    BY <1>3, <1>6, <1>9
  <2>2. k + 1 \in 0 .. Len(s) /\ (k + 1) - 1 = k /\ i - 1 = n
    BY <1>1, <1>2, <1>9
  <2>3. 1 + NL(o, i - 1) = Num(s, k)
    BY <1>4, <1>5, <1>8, <2>2 DEF n, k
  <2> QED
    BY <2>1, <2>2, <2>3 DEF LineOK
<1>10. CASE i # n + 1
  <2>1. i \in 1 .. n
    BY <1>1, <1>10
  <2>2. LineOK(out[i], 1 + NL(out, i - 1), source) /\ o[i] = out[i]
    BY <1>3, <1>7, <2>1
  <2>3. LineOK(out[i], 1 + NL(out, i - 1), s)
    BY <1>5, <2>2, LineStays
  <2> QED
    BY <1>8, <2>2, <2>3
<1> QED
  BY <1>9, <1>10

(* llex adds one cell behind all others, on its line.                      *)
LEMMA LinesRead ==
    ASSUME IInv, SeenOK, LinesOK, Lexes, Plain, Plain', CellsLined, MarksLined
    PROVE  CellsLined' /\ MarksLined'
<1>1. Reads /\ BufferOK
  BY LexStep DEF IInv, GoesOn, Ends, EndOfText, GivesUp, Reads
<1>2. todo' = todo
  BY DEF Lexes
<1>3. /\ \A j \in 0 .. Len(source) : Num(source', j) = Num(source, j)
      /\ Still \/ current # EOZ
  BY CountLexes
<1>4. /\ Len(source) \in Nat /\ Len(source') \in Nat /\ Len(source) <= Len(source')
  BY <1>1, SourceGrows
<1>5. Longer(source, source')
  BY <1>3, <1>4 DEF Longer
<1>6. /\ \A i \in 1 .. Len(out) : out'[i] = out[i]
      /\ (out' = out /\ source' = source) \/ Arrives
  BY <1>1, OutGrows DEF Arrives
<1>7. CASE out' = out /\ source' = source
  <2>1. CellsLined'
    BY <1>7 DEF CellsLined, CellAt
  <2>2. MarksLined'
    BY <1>2, <1>7 DEF MarksLined
  <2> QED
    BY <2>1, <2>2
<1>8. CASE Arrives /\ ~(out' = out /\ source' = source)
  <2>1. current # EOZ
    BY <1>3, <1>8 DEF Still
  <2>2. CellsLined'
    BY <1>1, <1>5, <1>8, <2>1, CellsComes
  <2> DEFINE o == out
             o2 == out'
  <2>3. ASSUME NEW p \in 1 .. Len(todo), todo[p][1] \in Marked
        PROVE  MarkAt(o2, todo[p][2])
    <3> DEFINE tok == todo[p][2]
               b == t.begin
    <3>1. t # NoToken /\ tok.begin \in 0 .. b /\ b \in 0 .. Len(out) /\ Len(out) \in Nat
      BY <2>3, MarksThere
    <3>2. b < Len(out)
      <4>1. InPlace(out, source, b, t.from) /\ t.from <= Len(source)
        BY <2>1, <3>1 DEF IInv, TokensOK, Held
      <4>2. /\ t.from \in Nat /\ Len(out) - b = Len(source) + 1 - t.from
        BY <1>4, <4>1 DEF InPlace
      <4> DEFINE f == t.from
                 n == Len(out)
                 k == Len(source)
      <4>3. f <= k /\ f \in Nat /\ k \in Nat /\ n \in Nat /\ b \in Int /\ n - b = k + 1 - f
        BY <1>4, <3>1, <4>1, <4>2
      <4> HIDE DEF f, n, k, b
      <4>4. b < n
        BY <4>3
      <4> QED
        BY <4>4 DEF n
    <3>3. tok.begin < Len(out) /\ b \in Nat
      <4> DEFINE a == tok.begin
                 n == Len(out)
      <4>1. a \in 0 .. b /\ b \in 0 .. n /\ b < n /\ n \in Nat
        BY <3>1, <3>2
      <4> HIDE DEF a, n, b
      <4>2. a < n /\ b \in Nat
        BY <4>1
      <4> QED
        BY <4>2 DEF a, n
    <3>4. \A i \in 1 .. b : o2[i] = o[i]
      BY <1>6, <3>1
    <3>5. MarkAt(o, tok)
      BY <2>3 DEF MarksLined
    <3> HIDE DEF tok, b, o2
    <3> QED
      BY <3>1, <3>3, <3>4, <3>5, MarkSame DEF tok
  <2>4. MarksLined'
    <3> HIDE DEF o2
    <3>1. \A p \in 1 .. Len(todo) : todo[p][1] \in Marked => MarkAt(o2, todo[p][2])
      BY <2>3
    <3> QED
      BY <1>2, <3>1 DEF MarksLined, o2, Marked, MarkAt, NL, Upto
  <2> QED
    BY <2>2, <2>4
<1> QED
  BY <1>6, <1>7, <1>8
-----------------------------------------------------------------------------
(* luaX_next, luaX_lookahead: the first operation is done.                 *)
LEMMA LinesDone ==
    ASSUME IInv, IInv', HoldsOK, Parsing, Put(<<>>), Mark(Head1) = {}, UNCHANGED <<out, source>>,
           t # NoToken, t.begin <= t'.begin
    PROVE  /\ HoldsOK'
           /\ CellsLined /\ MarksLined => CellsLined' /\ MarksLined'
<1> DEFINE ops == <<>>
           m == t.begin
<1>1. TodoOK /\ todo # <<>>
  BY DEF IInv, Parsing
<1>2. IsSeq(ops) /\ Put(ops) /\ ~\E i \in 1 .. Len(ops) : TRUE
  <2>1. IsSeq(<<>>) /\ Len(<<>>) = 0
    BY SeqShort
  <2> QED
    BY <2>1
<1> HIDE DEF ops
<1>3. t.begin \in Nat /\ t'.begin \in Nat
  <2>1. t'.begin \in Nat
    BY DEF IInv, TokensOK, Held, InPlace, NoToken
  <2> QED
    BY <2>1, TokenBegins
<1>4. m \in Nat /\ m <= t'.begin
  BY <1>3
<1>5. \A x \in 0 .. t.begin : (\A y \in Mark(Head1) : x <= y)
               => x <= m /\ \A i \in 1 .. x : out'[i] = out[i]
  BY <1>3
<1> HIDE DEF m
<1>6. HoldsOK'
  BY <1>1, <1>2, <1>3, <1>4, <1>5, HoldsPut
<1>7. ASSUME CellsLined, MarksLined
      PROVE  CellsLined' /\ MarksLined'
  <2>1. CellsLined'
    BY <1>7 DEF CellsLined, CellAt
  <2>2. ASSUME NEW k \in 2 .. Len(todo), todo[k][1] \in Marked
        PROVE  MarkAt(out', todo[k][2])
    <3>1. Len(todo) \in Nat
      BY <1>1, SeqLength DEF TodoOK
    <3>2. k \in 1 .. Len(todo)
      BY <3>1
    <3>3. MarkAt(out, todo[k][2])
      BY <1>7, <2>2, <3>2 DEF MarksLined
    <3> QED
      BY <3>3
  <2>3. MarksLined'
    BY <1>1, <1>2, <2>2, MarksPut
  <2> QED
    BY <2>1, <2>3
<1> QED
  BY <1>6, <1>7

(* luaX_next and luaX_lookahead change no cell.                            *)
LEMMA LinesNext ==
    ASSUME SInv, SInv', HoldsOK, Nexts
    PROVE  Lining
<1>1. /\ LuaXNext /\ Put(<<>>) /\ Parsing /\ UNCHANGED <<source, out>> /\ Head1[1] \in {"next", "expect"}
  BY DEF Nexts, At, Parsing, LuaXNext, input
<1>2. IInv /\ IInv' /\ SeenOK /\ ShapeOK /\ GapsOK
  BY DEF SInv
<1>3. Mark(Head1) = {}
  BY <1>1 DEF Mark, Marked
<1>4. CASE t # NoToken
  <2>1. t.begin <= t'.begin
    <3>1. CASE lookahead.token # EOS
      BY <1>2, <3>1, NextMoves
    <3>2. CASE lookahead.token = EOS
      <4>1. t' = t /\ t.begin \in Nat
        BY <1>1, <1>2, <3>2, TokenBegins DEF LuaXNext, tokens
      <4> QED
        BY <4>1
    <3> QED
      BY <3>1, <3>2
  <2> QED
    BY <1>1, <1>2, <1>3, <1>4, <2>1, LinesDone DEF Lining
<1>5. CASE t = NoToken
  <2>1. todo = <<Tok, <<"stats">>>>
    BY <1>1, <1>2, <1>5, TokenFirst
  <2>2. todo' = <<<<"stats">>>>
    BY <1>1, <2>1 DEF Put
  <2>3. Len(todo') = 1 /\ todo'[1] = <<"stats">> /\ <<"stats">>[1] = "stats"
    BY <2>2, SeqShort
  <2>4. \A p \in 1 .. Len(todo') : todo'[p][1] \notin Marked
    <3>1. "stats" \notin Marked
      BY DEF Marked
    <3>2. \A p \in 1 .. 1 : p = 1
      OBVIOUS
    <3>3. \A p \in 1 .. Len(todo') : todo'[p][1] = "stats"
      BY <2>3, <3>2
    <3> QED
      BY <3>1, <3>3
  <2>5. HoldsOK'
    BY <1>2, <2>4, HoldsNone
  <2>6. CellsLined => CellsLined'
    BY <1>1 DEF CellsLined, CellAt
  <2>7. MarksLined'
    BY <2>4 DEF MarksLined
  <2> QED
    BY <2>5, <2>6, <2>7 DEF Lining
<1> QED
  BY <1>4, <1>5

LEMMA LinesLook ==
    ASSUME SInv, SInv', HoldsOK, Looks
    PROVE  Lining
<1>1. /\ Put(<<>>) /\ Parsing /\ UNCHANGED <<source, out, t>> /\ Head1[1] = "look"
  BY DEF Looks, At, Parsing, LuaXLookahead, input, tokens
<1>2. IInv /\ IInv'
  BY DEF SInv
<1>3. Mark(Head1) = {} /\ Head1[1] # "next"
  BY <1>1 DEF Mark, Marked
<1>4. t # NoToken
  BY <1>1, <1>2, <1>3, NotFirst
<1>5. t.begin <= t'.begin
  <2>1. t' = t /\ t.begin \in Nat
    BY <1>1, <1>2, TokenBegins
  <2> QED
    BY <2>1
<1> QED
  BY <1>1, <1>2, <1>3, <1>4, <1>5, LinesDone DEF Lining
-----------------------------------------------------------------------------
(* Every step keeps the lines.                                             *)
LEMMA PlainBefore ==
    ASSUME SInv, Next
    PROVE  Plain' => Plain
<1>1. Len(source) \in Nat /\ Len(source') \in Nat /\ Len(source) <= Len(source')
      /\ \A i \in 1 .. Len(source) : source'[i] = source[i]
  <2>1. CASE Lexes
    <3>1. Reads /\ BufferOK
      BY <2>1, LexStep DEF SInv, IInv, GoesOn, Ends, EndOfText, GivesUp, Reads
    <3> QED
      BY <3>1, SourceGrows
  <2>2. CASE ~Lexes
    <3>1. source' = source
      BY <2>2, StepKinds DEF Nexts, LuaXNext, Looks, LuaXLookahead, input, Stepped, Pushed, Stopped,
                             Quiet, Writing, Splits
    <3>2. Len(source) \in Nat
      BY SeqLength DEF SInv, IInv, BufferOK
    <3> QED
      BY <3>1, <3>2
  <2> QED
    BY <2>1, <2>2
<1>2. \A i \in 1 .. Len(source) : i \in 1 .. Len(source')
  BY <1>1
<1> QED
  BY <1>1, <1>2 DEF Plain

(* The invariant of the lines is one.                                      *)
LEMMA PKeeps ==
    ASSUME SInv, PInv, [Next]_vars
    PROVE  PInv'
<1>1. SInv'
  BY SKeeps
<1>2. LinesOK'
  BY LinesKeeps DEF PInv
<1>3. CASE Next
  <2>1. Plain' => Plain
    BY <1>3, PlainBefore
  <2>2. Lexes \/ Nexts \/ Looks \/ (Stepped /\ Parse)
    BY <1>3, StepKinds DEF Next
  <2>3. ASSUME Lining
        PROVE  HoldsOK' /\ (Plain' => CellsLined' /\ MarksLined')
    BY <2>1, <2>3 DEF Lining, PInv
  <2>4. ASSUME Lexes
        PROVE  HoldsOK' /\ (Plain' => CellsLined' /\ MarksLined')
    <3>1. HoldsOK'
      BY <1>1, <2>4, HoldsLexes DEF SInv, PInv
    <3>2. ASSUME Plain' PROVE CellsLined' /\ MarksLined'
      BY <2>1, <2>4, <3>2, LinesRead DEF SInv, PInv
    <3> QED
      BY <3>1, <3>2
  <2>5. HoldsOK' /\ (Plain' => CellsLined' /\ MarksLined')
    BY <1>1, <2>2, <2>3, <2>4, LinesNext, LinesLook, LinesParsed DEF PInv
  <2> QED
    BY <1>2, <2>5 DEF PInv
<1>4. CASE UNCHANGED vars
  <2>1. todo' = todo /\ out' = out /\ source' = source /\ t' = t
    BY <1>4 DEF vars, input, tokens
  <2>2. HoldsOK'
    BY <2>1 DEF PInv, HoldsOK
  <2>3. Plain' => CellsLined' /\ MarksLined'
    BY <2>1 DEF PInv, Plain, CellsLined, CellAt, MarksLined
  <2> QED
    BY <1>2, <2>2, <2>3 DEF PInv
<1> QED
  BY <1>3, <1>4

LEMMA PBegins == Init => PInv
<1> SUFFICES ASSUME Init PROVE PInv
  OBVIOUS
<1>1. LinesOK /\ SInv
  BY LinesBegins, SBegins
<1>2. PICK b \in UNION {h[1] : h \in Chunks} :
         source = <<Head(b)>> /\ out = <<[c |-> source[1], at |-> 1, copied |-> FALSE]>>
  BY DEF Init, LexInit
<1>3. t = NoToken
  BY DEF Init, LexInit
<1>4. /\ IsSeq(source) /\ Len(out) = 1 /\ Len(source) = 1
      /\ out[1] = [c |-> source[1], at |-> 1, copied |-> FALSE]
  BY <1>2, SeqShort
<1>5. \A p \in 1 .. Len(todo) : todo[p][1] \notin Marked
  BY <1>1, <1>3, NoMarks DEF SInv
<1>6. HoldsOK
  <2> SUFFICES ASSUME NEW p \in 1 .. Len(todo)
               PROVE  \E x \in 0 .. t.begin :
                         /\ Rests(todo[p], out, x)
                         /\ \A r \in 1 .. p - 1 : \A y \in Mark(todo[r]) : x <= y
    BY DEF HoldsOK
  <2>1. 0 \in 0 .. t.begin
    BY <1>3 DEF NoToken
  <2>2. Rests(todo[p], out, 0)
    BY <1>5 DEF Rests, Marked
  <2>3. \A r \in 1 .. p - 1 : Mark(todo[r]) = {}
    <3>1. Len(todo) \in Nat
      BY <1>1, SeqLength DEF SInv, IInv, TodoOK
    <3> QED
      BY <1>5, <3>1 DEF Mark
  <2> QED
    BY <2>1, <2>2, <2>3
<1>7. ASSUME Plain
      PROVE  CellsLined
  <2> SUFFICES ASSUME NEW i \in 1 .. Len(out) PROVE CellAt(out, source, i)
    BY DEF CellsLined
  <2>1. i = 1 /\ i - 1 = 0
    BY <1>4
  <2>2. out[i].c # "\r" /\ out[i].at = 1 /\ out[i].copied = FALSE
    BY <1>4, <1>7, <2>1 DEF Plain
  <2>3. NL(out, 0) = 0
    BY NLType
  <2>4. Num(source, 0) = 1
    BY <1>4, EndsRule
  <2>5. 1 \in 0 .. Len(source) /\ 1 - 1 = 0 /\ 1 + 0 = 1
    BY <1>4
  <2>6. 1 + NL(out, i - 1) = Num(source, 1 - 1)
    BY <2>1, <2>3, <2>4, <2>5
  <2> QED
    BY <2>2, <2>5, <2>6 DEF CellAt, LineOK
<1>8. MarksLined
  BY <1>5 DEF MarksLined
<1> QED
  BY <1>1, <1>6, <1>7, <1>8 DEF PInv
-----------------------------------------------------------------------------
(* The lines of the buffer, and of what was read.                          *)
LEMMA PKept == SInv /\ PInv => LinesKept
<1> SUFFICES ASSUME SInv, PInv PROVE LinesKept
  OBVIOUS
<1>1. IsSeq(source) /\ IsSeq(out) /\ Len(source) \in Nat /\ Len(out) \in Nat
      /\ DOMAIN source = 1 .. Len(source) /\ DOMAIN out = 1 .. Len(out)
  BY SeqLength DEF SInv, IInv, BufferOK
<1> DEFINE chars == [i \in DOMAIN out |-> out[i].c]
<1>2. t.token # EOS => t.linebegin = Lines(source)[t.from]
  BY LinesCounted DEF PInv
<1>3. ASSUME "\r" \notin ToSet(source), NEW i \in DOMAIN out, out[i].at # 0
      PROVE  IF out[i].copied THEN Lines(chars)[i] <= Lines(source)[out[i].at]
                              ELSE Lines(chars)[i] = Lines(source)[out[i].at]
  <2>1. Plain
    BY <1>1, <1>3 DEF ToSet, Plain
  <2>2. \A j \in 1 .. Len(out) : CellAt(out, source, j)
    BY <2>1 DEF PInv, CellsLined
  <2>3. LineOK(out[i], 1 + NL(out, i - 1), source) /\ i \in 1 .. Len(out)
    BY <1>1, <1>3, <2>2 DEF CellAt
  <2>4. /\ IsSeq(chars) /\ Len(chars) = Len(out) /\ \A j \in 1 .. Len(out) : chars[j] = out[j].c
    BY <1>1, SeqMade
  <2>5. \A j \in 1 .. Len(chars) : chars[j] # "\r"
    BY <2>2, <2>4 DEF CellAt, LineOK
  <2> DEFINE k == out[i].at
  <2>6. Lines(source)[k] = Num(source, k - 1)
    <3>1. k \in 1 .. Len(source) + 1
      BY <1>1, <1>3, <2>3 DEF LineOK
    <3> QED
      BY <3>1, LinesAre
  <2>7. Lines(chars)[i] = 1 + NL(out, i - 1)
    <3> HIDE DEF chars
    <3>1. i \in 1 .. Len(chars) + 1 /\ i - 1 \in 0 .. Len(chars) /\ i - 1 \in Nat
      BY <1>1, <2>3, <2>4
    <3>2. Lines(chars)[i] = Num(chars, i - 1)
      BY <3>1, LinesAre
    <3>3. Num(chars, i - 1) = 1 + Upto(Feeds(chars), i - 1)
      BY <2>4, <2>5, <3>1, PlainNum
    <3>4. Upto(Feeds(chars), i - 1) = NL(out, i - 1)
      <4> DEFINE T == Feeds(chars)
                 S == {j \in Nat : out[j].c = "\n"}
      <4>1. \A j \in 1 .. i - 1 : j \in T <=> j \in S
        <5>1. \A j \in 1 .. i - 1 : j \in 1 .. Len(chars) /\ j \in Nat /\ j \in 1 .. Len(out)
          BY <1>1, <2>3, <2>4
        <5> QED
          BY <2>4, <5>1 DEF Feeds
      <4> HIDE DEF T, S
      <4>2. Upto(T, i - 1) = Upto(S, i - 1)
        BY <3>1, <4>1, UptoSame
      <4> QED
        BY <4>2 DEF NL, T, S
    <3> QED
      BY <3>2, <3>3, <3>4
  <2>8. IF out[i].copied THEN 1 + NL(out, i - 1) <= Num(source, k - 1)
                         ELSE 1 + NL(out, i - 1) = Num(source, k - 1)
    BY <1>3, <2>3 DEF LineOK
  <2> QED
    BY <2>6, <2>7, <2>8
<1> QED
  BY <1>2, <1>3 DEF LinesKept

(* Lua's messages and its debug information name the lines of the program: *)
(* what the parser hands on of the source is on the line it was read on,   *)
(* whatever was replaced in front of it and however many lines that had    *)
(* (luaX_patchbegin, luaX_patchend), and what it copies into its own calls *)
(* is on that line or an earlier one.                                      *)
THEOREM LinesStay == Spec => []LinesKept
<1>1. Init => SInv /\ PInv
  BY SBegins, PBegins
<1>2. (SInv /\ PInv) /\ [Next]_vars => (SInv /\ PInv)'
  BY SKeeps, PKeeps
<1> QED
  BY <1>1, <1>2, PKept, PTL DEF Spec
=============================================================================
