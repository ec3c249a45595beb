-------------------------- MODULE LexOutput_proofs --------------------------
(***************************************************************************)
(* Proofs about the output buffer, for every text, of any length, however  *)
(* deep constructs are nested.                                             *)
(***************************************************************************)
EXTENDS LexOutput, FiniteSetTheorems, WellFoundedInduction, TLAPS

-----------------------------------------------------------------------------
(* Induction over the naturals, with a set in the place of the predicate.  *)
(*                                                                         *)
(* A set of naturals has a least element.                                  *)
LEMMA NatMin ==
    ASSUME NEW T, T \subseteq Nat, T # {}
    PROVE  \E x \in T : \A y \in T : x <= y
<1> DEFINE Less == {ss \in Nat \X Nat : ss[1] < ss[2]}
<1>1. IsWellFoundedOn(Less, Nat)
  BY NatLessThanWellFounded, Zenon DEF OpToRel
<1>2. PICK x \in T : \A y \in T : <<y, x>> \notin Less
  <2> HIDE DEF Less
  <2> QED
    BY <1>1, WFMin
<1>3. ASSUME NEW y \in T PROVE x <= y
  <2>1. x \in Nat /\ y \in Nat /\ (y < x => <<y, x>> \in Less)
    OBVIOUS
  <2> QED
    BY <1>2, <2>1
<1> QED
  BY <1>3

(* What holds of 0, and of n + 1 when it holds of n, holds up to N.        *)
LEMMA Induction ==
    ASSUME NEW T, NEW N \in Nat, 0 \in T,
           \A n \in 0 .. N : n < N /\ n \in T => n + 1 \in T
    PROVE  \A n \in 0 .. N : n \in T
<1> DEFINE U == (0 .. N) \ T
<1>1. CASE U = {}
  BY <1>1
<1>2. CASE U # {}
  <2>1. PICK x \in U : \A y \in U : x <= y
    <3>1. U \subseteq Nat
      OBVIOUS
    <3> HIDE DEF U
    <3>2. QED BY <1>2, <3>1, NatMin
  <2>2. x # 0
    OBVIOUS
  <2>3. x - 1 \in 0 .. N /\ x - 1 < N /\ (x - 1) + 1 = x /\ ~(x <= x - 1)
    BY <2>2
  <2>4. x - 1 \in T
    BY <2>1, <2>3
  <2>5. x \in T
    BY <2>3, <2>4
  <2>6. QED BY <2>5
<1>3. QED BY <1>1, <1>2
-----------------------------------------------------------------------------
(* Sequences, whatever they are of.                                        *)
IsSeq(s) == \E S : s \in Seq(S)

LEMMA SeqLength ==
    ASSUME NEW s, IsSeq(s)
    PROVE  Len(s) \in Nat /\ DOMAIN s = 1 .. Len(s)
  BY DEF IsSeq

LEMMA SeqMade ==
    ASSUME NEW n \in Nat, NEW f, DOMAIN f = 1 .. n, f = [i \in DOMAIN f |-> f[i]]
    PROVE  IsSeq(f) /\ Len(f) = n
<1> DEFINE S == {f[i] : i \in 1 .. n}
<1>1. f \in Seq(S)
  OBVIOUS
<1>2. Len(f) = n
  BY <1>1
<1> HIDE DEF S
<1> QED
  BY <1>1, <1>2 DEF IsSeq

LEMMA SeqShort ==
    /\ IsSeq(<<>>) /\ Len(<<>>) = 0
    /\ \A a : IsSeq(<<a>>) /\ Len(<<a>>) = 1
    /\ \A a, b : IsSeq(<<a, b>>) /\ Len(<<a, b>>) = 2
    /\ \A a, b, c : IsSeq(<<a, b, c>>) /\ Len(<<a, b, c>>) = 3
    /\ \A a, b, c, d : IsSeq(<<a, b, c, d>>) /\ Len(<<a, b, c, d>>) = 4
    /\ \A a, b, c, d, e : IsSeq(<<a, b, c, d, e>>) /\ Len(<<a, b, c, d, e>>) = 5
<1>0. IsSeq(<<>>) /\ Len(<<>>) = 0
  <2>1. <<>> \in Seq({})
    OBVIOUS
  <2> QED
    BY <2>1 DEF IsSeq
<1>1. ASSUME NEW a, NEW b, NEW c, NEW d, NEW e
      PROVE  /\ IsSeq(<<a>>) /\ Len(<<a>>) = 1
             /\ IsSeq(<<a, b>>) /\ Len(<<a, b>>) = 2
             /\ IsSeq(<<a, b, c>>) /\ Len(<<a, b, c>>) = 3
             /\ IsSeq(<<a, b, c, d>>) /\ Len(<<a, b, c, d>>) = 4
             /\ IsSeq(<<a, b, c, d, e>>) /\ Len(<<a, b, c, d, e>>) = 5
  <2> DEFINE S == {a, b, c, d, e}
  <2>1. /\ <<a>> \in Seq(S) /\ <<a, b>> \in Seq(S) /\ <<a, b, c>> \in Seq(S)
        /\ <<a, b, c, d>> \in Seq(S) /\ <<a, b, c, d, e>> \in Seq(S)
    OBVIOUS
  <2> HIDE DEF S
  <2>2. /\ IsSeq(<<a>>) /\ IsSeq(<<a, b>>) /\ IsSeq(<<a, b, c>>)
        /\ IsSeq(<<a, b, c, d>>) /\ IsSeq(<<a, b, c, d, e>>)
    BY <2>1 DEF IsSeq
  <2> QED
    BY <2>2
<1> QED
  BY <1>0, <1>1, Zenon

LEMMA SeqSub ==
    ASSUME NEW s, IsSeq(s), NEW m \in 1 .. Len(s) + 1, NEW n \in m - 1 .. Len(s)
    PROVE  /\ IsSeq(SubSeq(s, m, n)) /\ Len(SubSeq(s, m, n)) = 1 + n - m
           /\ \A i \in 1 .. 1 + n - m : SubSeq(s, m, n)[i] = s[i + m - 1]
<1>1. PICK S : s \in Seq(S)
  BY DEF IsSeq
<1> QED
  BY <1>1 DEF IsSeq

LEMMA SeqStart ==
    ASSUME NEW s, IsSeq(s), NEW n \in 0 .. Len(s)
    PROVE  IsSeq(SubSeq(s, 1, n)) /\ Len(SubSeq(s, 1, n)) = n
<1>1. Len(s) \in Nat
  BY SeqLength
<1>2. 1 \in 1 .. Len(s) + 1 /\ n \in 1 - 1 .. Len(s) /\ 1 + n - 1 = n
  BY <1>1
<1>3. IsSeq(SubSeq(s, 1, n)) /\ Len(SubSeq(s, 1, n)) = 1 + n - 1
  BY <1>2, SeqSub
<1> QED
  BY <1>2, <1>3

(* Of any part of a sequence, be it there or not.                          *)
LEMMA SeqPart ==
    ASSUME NEW s, IsSeq(s), NEW m \in Int, NEW n \in Int
    PROVE  IsSeq(SubSeq(s, m, n))
<1>1. SubSeq(s, m, n) = [i \in 1 .. (1 + n - m) |-> s[i + m - 1]]
  BY DEF IsSeq
<1>2. CASE 1 + n - m \in Nat
  <2> DEFINE f == [i \in 1 .. (1 + n - m) |-> s[i + m - 1]]
  <2>1. DOMAIN f = 1 .. (1 + n - m) /\ f = [i \in DOMAIN f |-> f[i]]
    OBVIOUS
  <2> HIDE DEF f
  <2>2. IsSeq(f)
    BY <1>2, <2>1, SeqMade
  <2> QED
    BY <1>1, <2>2 DEF f
<1>3. CASE 1 + n - m \notin Nat
  <2>1. 1 .. (1 + n - m) = {}
    BY <1>3
  <2>2. SubSeq(s, m, n) = <<>>
    BY <1>1, <2>1
  <2> QED
    BY <2>2, SeqShort
<1> QED
  BY <1>2, <1>3

LEMMA SeqJoin ==
    ASSUME NEW p, NEW q, IsSeq(p), IsSeq(q)
    PROVE  /\ IsSeq(p \o q) /\ Len(p \o q) = Len(p) + Len(q)
           /\ \A i \in 1 .. Len(p) : (p \o q)[i] = p[i]
           /\ \A i \in 1 .. Len(q) : (p \o q)[Len(p) + i] = q[i]
<1>1. PICK S : p \in Seq(S)
  BY DEF IsSeq
<1>2. PICK T : q \in Seq(T)
  BY DEF IsSeq
<1>3. p \in Seq(S \cup T) /\ q \in Seq(S \cup T)
  BY <1>1, <1>2
<1> QED
  BY <1>3 DEF IsSeq

LEMMA SeqTail ==
    ASSUME NEW s, IsSeq(s), s # <<>>
    PROVE  /\ IsSeq(Tail(s)) /\ Len(Tail(s)) = Len(s) - 1 /\ Len(s) > 0
           /\ \A i \in 1 .. Len(s) - 1 : Tail(s)[i] = s[i + 1]
  BY DEF IsSeq

LEMMA SeqAppend ==
    ASSUME NEW s, IsSeq(s), NEW c
    PROVE  /\ IsSeq(Append(s, c)) /\ Len(Append(s, c)) = Len(s) + 1
           /\ Append(s, c)[Len(s) + 1] = c
           /\ \A i \in 1 .. Len(s) : Append(s, c)[i] = s[i]
<1>1. PICK S : s \in Seq(S)
  BY DEF IsSeq
<1>2. s \in Seq(S \cup {c})
  BY <1>1
<1> QED
  BY <1>2 DEF IsSeq
-----------------------------------------------------------------------------
(* What is read from the character from on is in the buffer o behind begin.*)
Cell(s, i) == [c |-> s[i], at |-> i, copied |-> FALSE]
InPlace(o, s, begin, from) ==
    /\ begin \in Nat /\ from \in 1 .. Len(s) + 1
    /\ Len(o) - begin = Len(s) + 1 - from
    /\ \A i \in from .. Len(s) : o[begin + 1 + (i - from)] = Cell(s, i)

Held(tok) ==
    /\ InPlace(out, source, tok.begin, tok.from)
    /\ current # EOZ => tok.from <= Len(source)

IsToken(tok) ==
    /\ DOMAIN tok = {"token", "linebegin", "begin", "from"}
    /\ tok.linebegin \in Nat /\ tok.begin \in Int

(* The buffer: the current character is the last one in it.                *)
BufferOK ==
    /\ IsSeq(source) /\ Len(source) > 0 /\ IsSeq(out) /\ linenumber \in Nat
    /\ current # EOZ => InPlace(out, source, Len(out) - 1, Len(source))

(* The token read ahead is behind the current one.                         *)
TokensOK ==
    /\ IsToken(t) /\ IsToken(lookahead)
    /\ t = NoToken \/ Held(t)
    /\ lookahead.token # EOS => Held(lookahead) /\ t.from <= lookahead.from

Call == {"mode", "to", "back", "text", "level", "linebegin", "begin", "from"}

(* The token that is being read is behind both; at the end of the text     *)
(* there is none.                                                          *)
Reading == Held(lx) /\ t.from <= lx.from
LxOK ==
    lx # Idle =>
        /\ DOMAIN lx = Call /\ lx.mode # "idle" /\ lx.back # "idle" /\ lx.linebegin \in Nat
        /\ lx.to \in {"t", "lookahead"} /\ (lx.to = "t" => lookahead.token = EOS)
        /\ Reading \/ (lx.mode = "start" /\ current = EOZ)

(* Operations with a token from before which nothing is replaced as long as*)
(* they are to be done.                                                    *)
Marked == {"definition", "further", "further local", "language", "operand", "pointer",
           "binary", "more", "right", "combine", "quote", "written", "embedded"}
Mark(op) == IF op[1] \in Marked THEN {op[2].begin} ELSE {}

OpOK(op) ==
    /\ op[1] \in Marked => IsToken(op[2])
    /\ op[1] \in {"written", "more", "right", "combine"} => IsSeq(op[3])
    /\ op[1] = "pointer" => op[3].begin \in Int /\ op[2].begin <= op[3].begin
    /\ op[1] = "combine" => op[4].begin \in Int /\ op[2].begin <= op[4].begin

(* Calls that return later have older tokens.                              *)
TodoOK ==
    /\ IsSeq(todo)
    /\ \A i \in 1 .. Len(todo) : OpOK(todo[i]) /\ Mark(todo[i]) \subseteq 0 .. t.begin
    /\ \A i, j \in 1 .. Len(todo) : i < j =>
            \A x \in Mark(todo[i]), y \in Mark(todo[j]) : y <= x

(* Before there is a token nothing refers to one.                          *)
EarlyOK ==
    t = NoToken =>
        /\ lookahead.token = EOS
        /\ lx = Idle => todo = <<Tok, <<"stats">>>>
        /\ lx # Idle => todo = <<<<"stats">>>> /\ lx.to = "t"

IInv == BufferOK /\ TokensOK /\ LxOK /\ TodoOK /\ EarlyOK
-----------------------------------------------------------------------------
LEMMA TokenThere ==
    ASSUME BufferOK, TokensOK, t # NoToken
    PROVE  /\ t.from \in 1 .. Len(source) + 1 /\ t.begin \in 0 .. Len(out)
           /\ Held(t) /\ Len(out) \in Nat /\ Len(source) \in Nat
<1>1. Held(t) /\ Len(out) \in Nat /\ Len(source) \in Nat
  BY SeqLength DEF BufferOK, TokensOK
<1> QED
  BY <1>1 DEF Held, InPlace

(* Tokens in place are in the order they are read in.                      *)
LEMMA InOrder ==
    ASSUME NEW o, NEW s, Len(o) \in Nat, Len(s) \in Nat, NEW b, NEW f, NEW c, NEW g,
           InPlace(o, s, b, f), InPlace(o, s, c, g), f <= g
    PROVE  b <= c
  BY DEF InPlace

(* A character is added behind everything.                                 *)
LEMMA NextPlace ==
    ASSUME IsSeq(out), IsSeq(source), NEW c, source' = Append(source, c),
           out' = Append(out, [c |-> c, at |-> Len(source) + 1, copied |-> FALSE])
    PROVE  /\ IsSeq(out') /\ IsSeq(source') /\ Len(source') = Len(source) + 1
           /\ Len(out') = Len(out) + 1
           /\ InPlace(out', source', Len(out') - 1, Len(source'))
           /\ \A begin, from : InPlace(out, source, begin, from)
                                => InPlace(out', source', begin, from)
<1>1. Len(out) \in Nat /\ Len(source) \in Nat
  BY SeqLength
<1>2. /\ IsSeq(source') /\ Len(source') = Len(source) + 1 /\ source'[Len(source) + 1] = c
      /\ \A i \in 1 .. Len(source) : source'[i] = source[i]
  BY SeqAppend
<1>3. /\ IsSeq(out') /\ Len(out') = Len(out) + 1
      /\ out'[Len(out) + 1] = [c |-> c, at |-> Len(source) + 1, copied |-> FALSE]
      /\ \A i \in 1 .. Len(out) : out'[i] = out[i]
  BY SeqAppend
<1>4. out'[Len(out) + 1] = Cell(source', Len(source) + 1)
  BY <1>2, <1>3 DEF Cell
<1>5. \A i \in 1 .. Len(source) : Cell(source', i) = Cell(source, i)
  BY <1>2 DEF Cell
<1>6. InPlace(out', source', Len(out') - 1, Len(source'))
  BY <1>1, <1>2, <1>3, <1>4 DEF InPlace
<1>7. ASSUME NEW begin, NEW from, InPlace(out, source, begin, from)
      PROVE  InPlace(out', source', begin, from)
  <2>1. /\ begin \in Nat /\ from \in 1 .. Len(source) + 1
        /\ Len(out) - begin = Len(source) + 1 - from
        /\ \A i \in from .. Len(source) : out[begin + 1 + (i - from)] = Cell(source, i)
    BY <1>7 DEF InPlace
  <2>0. /\ begin \in Nat /\ from \in Nat /\ from <= Len(source) + 1 /\ 1 <= from
        /\ begin = Len(out) + from - (Len(source) + 1)
    BY <1>1, <2>1
  <2>2. from \in 1 .. Len(source') + 1 /\ Len(out') - begin = Len(source') + 1 - from
    <3>1. Len(source') = Len(source) + 1 /\ Len(out') = Len(out) + 1
      BY <1>2, <1>3
    <3> QED
      BY <1>1, <2>0, <3>1
  <2>3. ASSUME NEW i \in from .. Len(source')
        PROVE  out'[begin + 1 + (i - from)] = Cell(source', i)
    <3>1. CASE i = Len(source) + 1
      <4>1. begin + 1 + (i - from) = Len(out) + 1
        BY <1>1, <2>0, <3>1
      <4> QED
        BY <1>4, <3>1, <4>1
    <3>2. CASE i # Len(source) + 1
      <4>1. i \in from .. Len(source) /\ i \in 1 .. Len(source)
        BY <1>1, <1>2, <2>1, <3>2
      <4>2. begin + 1 + (i - from) \in 1 .. Len(out)
        BY <1>1, <2>1, <4>1
      <4> QED
        BY <1>3, <1>5, <2>1, <4>1, <4>2
    <3> QED
      BY <3>1, <3>2
  <2> QED
    BY <2>1, <2>2, <2>3 DEF InPlace
<1> QED
  BY <1>2, <1>3, <1>6, <1>7

(* What a step of llex does to the buffer.                                 *)
Reads == UNCHANGED <<source, current, out>> \/ \E c \in Chars : NextChar(c)

LEMMA Kept ==
    ASSUME BufferOK, Reads, linenumber' \in Nat
    PROVE  /\ BufferOK'
           /\ \A tok : Held(tok) => /\ InPlace(out', source', tok.begin, tok.from)
                                    /\ current' # EOZ => tok.from <= Len(source')
<1>1. CASE UNCHANGED <<source, current, out>>
  BY <1>1 DEF BufferOK, Held
<1>2. CASE \E c \in Chars : NextChar(c)
  <2>1. PICK c \in Chars : NextChar(c)
    BY <1>2
  <2>2. CASE c = EOZ
    <3>1. current' = EOZ /\ UNCHANGED <<source, out>>
      BY <2>1, <2>2 DEF NextChar
    <3> QED
      BY <3>1 DEF BufferOK, Held
  <2>3. CASE c # EOZ
    <3>1. /\ source' = Append(source, c)
          /\ out' = Append(out, [c |-> c, at |-> Len(source) + 1, copied |-> FALSE])
      BY <2>1, <2>3 DEF NextChar
    <3>2. /\ IsSeq(out') /\ IsSeq(source') /\ Len(source') = Len(source) + 1
          /\ Len(out') = Len(out) + 1
          /\ InPlace(out', source', Len(out') - 1, Len(source'))
          /\ \A begin, from : InPlace(out, source, begin, from)
                                => InPlace(out', source', begin, from)
      <4>1. IsSeq(out) /\ IsSeq(source)
        BY DEF BufferOK
      <4> QED
        BY <3>1, <4>1, NextPlace
    <3>3. Len(source) \in Nat
      BY SeqLength DEF BufferOK
    <3>4. BufferOK'
      BY <3>2, <3>3 DEF BufferOK
    <3>5. ASSUME NEW tok, Held(tok)
          PROVE  InPlace(out', source', tok.begin, tok.from) /\ tok.from <= Len(source')
      <4>1. InPlace(out, source, tok.begin, tok.from)
        BY <3>5 DEF Held
      <4>2. tok.from \in 1 .. Len(source) + 1
        BY <4>1 DEF InPlace
      <4> QED
        BY <3>2, <3>3, <4>1, <4>2
    <3> QED
      BY <3>4, <3>5
  <2> QED
    BY <2>2, <2>3
<1> QED
  BY <1>1, <1>2 DEF Reads

(* Everything before the current token is replaced by upto.                *)
LEMMA ReplacedPlace ==
    ASSUME IsSeq(out), Len(source) \in Nat, NEW begin, NEW from, InPlace(out, source, begin, from),
           NEW upto, IsSeq(upto), out' = upto \o SubSeq(out, begin + 1, Len(out)),
           NEW b, NEW f, InPlace(out, source, b, f), from <= f
    PROVE  InPlace(out', source, (b + Len(upto)) - begin, f) /\ IsSeq(out')
<1> DEFINE d == Len(upto)
<1>1. Len(out) \in Nat /\ d \in Nat
  BY SeqLength
<1>2. /\ begin \in Nat /\ from \in Nat /\ 1 <= from /\ from <= Len(source) + 1
      /\ b \in Nat /\ f \in Nat /\ 1 <= f /\ f <= Len(source) + 1
      /\ begin = Len(out) + from - (Len(source) + 1) /\ b = Len(out) + f - (Len(source) + 1)
      /\ begin <= b /\ b <= Len(out)
  BY <1>1 DEF InPlace
<1>3. \A i \in f .. Len(source) : out[b + 1 + (i - f)] = Cell(source, i)
  BY DEF InPlace
<1> DEFINE r == SubSeq(out, begin + 1, Len(out))
<1>4. begin + 1 \in 1 .. Len(out) + 1 /\ Len(out) \in (begin + 1) - 1 .. Len(out)
  BY <1>1, <1>2
<1>5. /\ IsSeq(r) /\ Len(r) = Len(out) - begin
      /\ \A i \in 1 .. Len(out) - begin : r[i] = out[i + begin]
  <2>1. /\ IsSeq(r) /\ Len(r) = 1 + Len(out) - (begin + 1)
        /\ \A i \in 1 .. 1 + Len(out) - (begin + 1) : r[i] = out[i + (begin + 1) - 1]
    BY <1>4, SeqSub
  <2>2. 1 + Len(out) - (begin + 1) = Len(out) - begin
    BY <1>1, <1>2
  <2>3. \A i \in 1 .. Len(out) - begin : i + (begin + 1) - 1 = i + begin
    BY <1>1, <1>2
  <2> HIDE DEF r
  <2> QED
    BY <2>1, <2>2, <2>3
<1> HIDE DEF r
<1>6. /\ IsSeq(out') /\ Len(out') = d + (Len(out) - begin)
      /\ \A i \in 1 .. Len(out) - begin : out'[d + i] = out[i + begin]
  <2>1. out' = upto \o r
    BY DEF r
  <2>2. /\ IsSeq(upto \o r) /\ Len(upto \o r) = d + Len(r)
        /\ \A i \in 1 .. Len(r) : (upto \o r)[d + i] = r[i]
    <3>1. IsSeq(r) /\ IsSeq(upto)
      BY <1>5
    <3> QED
      BY <3>1, SeqJoin
  <2> HIDE DEF d
  <2>3. /\ IsSeq(out') /\ Len(out') = d + Len(r)
        /\ \A i \in 1 .. Len(r) : out'[d + i] = r[i]
    BY <2>1, <2>2
  <2> QED
    BY <1>5, <2>3
<1> HIDE DEF d
<1> DEFINE e == (b + d) - begin
<1>7. e \in Nat /\ Len(out') - e = Len(source) + 1 - f /\ f \in 1 .. Len(source) + 1
  <2>2. Len(out') \in Nat /\ Len(out') = d + (Len(out) - begin)
    BY <1>6, SeqLength
  <2>3. begin \in Nat /\ b \in Nat /\ from \in Nat /\ f \in Nat /\ Len(out) \in Nat /\ d \in Nat
    BY <1>1, <1>2
  <2>4. begin <= b /\ b = Len(out) + f - (Len(source) + 1) /\ f <= Len(source) + 1 /\ 1 <= f
    BY <1>2
  <2> HIDE DEF e
  <2>5. e = (b + d) - begin
    BY DEF e
  <2>6. e \in Int /\ e >= 0
    BY <2>3, <2>4, <2>5
  <2>7. Len(out') - e = Len(source) + 1 - f
    <3>1. Len(out') - e = Len(out) - b
      BY <2>2, <2>3, <2>5
    <3>2. Len(source) \in Nat
      OBVIOUS
    <3>3. Len(out) - b = Len(source) + 1 - f
      BY <2>3, <2>4, <3>2
    <3> QED
      BY <3>1, <3>3
  <2> QED
    BY <2>3, <2>4, <2>6, <2>7
<1>8. ASSUME NEW i \in f .. Len(source)
      PROVE  out'[e + 1 + (i - f)] = Cell(source, i)
  <2> DEFINE k == (b - begin) + 1 + (i - f)
  <2>1. k \in 1 .. Len(out) - begin /\ d + k = e + 1 + (i - f) /\ k + begin = b + 1 + (i - f)
    BY <1>1, <1>2
  <2> HIDE DEF k, e
  <2>2. out'[d + k] = out[k + begin]
    BY <1>6, <2>1
  <2> QED
    BY <1>3, <2>1, <2>2
<1> QED
  BY <1>6, <1>7, <1>8 DEF InPlace, d

LEMMA Replaced ==
    ASSUME BufferOK, TokensOK, t # NoToken, NEW upto, IsSeq(upto),
           out' = upto \o SubSeq(out, t.begin + 1, Len(out)),
           t' = [t EXCEPT !.begin = (@ + Len(upto)) - t.begin],
           lookahead' = [lookahead EXCEPT !.begin = (@ + Len(upto)) - t.begin],
           UNCHANGED <<source, current, linenumber>>
    PROVE  /\ BufferOK' /\ TokensOK' /\ t' # NoToken /\ t'.begin = Len(upto)
           /\ t'.from = t.from /\ lookahead'.token = lookahead.token
<1>1. /\ t.from \in 1 .. Len(source) + 1 /\ t.begin \in 0 .. Len(out)
      /\ Held(t) /\ Len(out) \in Nat /\ Len(source) \in Nat
  BY TokenThere
<1>2. Len(upto) \in Nat
  BY SeqLength
<1>3. /\ IsToken(t) /\ IsToken(lookahead)
      /\ lookahead.token # EOS => Held(lookahead) /\ t.from <= lookahead.from
  BY DEF TokensOK
<1>4. /\ DOMAIN t' = DOMAIN t /\ t'.begin = (t.begin + Len(upto)) - t.begin
      /\ t'.from = t.from /\ t'.linebegin = t.linebegin
      /\ DOMAIN lookahead' = DOMAIN lookahead
      /\ lookahead'.begin = (lookahead.begin + Len(upto)) - t.begin
      /\ lookahead'.from = lookahead.from /\ lookahead'.linebegin = lookahead.linebegin
      /\ lookahead'.token = lookahead.token
  BY <1>3 DEF IsToken
<1>5. t'.begin = Len(upto)
  BY <1>1, <1>2, <1>4
<1>6. IsToken(t') /\ IsToken(lookahead')
  BY <1>1, <1>2, <1>3, <1>4, SMTT(30) DEF IsToken
<1>7. InPlace(out, source, t.begin, t.from)
  BY <1>1 DEF Held
<1>8. InPlace(out', source, t'.begin, t.from) /\ IsSeq(out')
  <2>1. InPlace(out', source, (t.begin + Len(upto)) - t.begin, t.from) /\ IsSeq(out')
    <3>1. IsSeq(out) /\ t.from <= t.from
      BY <1>1 DEF BufferOK
    <3> QED
      BY <1>1, <1>7, <3>1, ReplacedPlace
  <2> QED
    BY <1>4, <2>1
<1>9. lookahead.token # EOS => Held(lookahead)'
  <2> SUFFICES ASSUME lookahead.token # EOS PROVE Held(lookahead)'
    OBVIOUS
  <2>1. InPlace(out, source, lookahead.begin, lookahead.from) /\ t.from <= lookahead.from
    BY <1>3 DEF Held
  <2>2. InPlace(out', source, lookahead'.begin, lookahead.from)
    BY <1>1, <1>4, <1>7, <2>1, ReplacedPlace DEF BufferOK
  <2> QED
    BY <1>3, <1>4, <2>2 DEF Held
<1>10. Held(t)'
  BY <1>1, <1>4, <1>8 DEF Held
<1>11. current # EOZ => InPlace(out', source, Len(out') - 1, Len(source))
  <2> SUFFICES ASSUME current # EOZ
               PROVE  InPlace(out', source, Len(out') - 1, Len(source))
    OBVIOUS
  <2>1. InPlace(out, source, Len(out) - 1, Len(source)) /\ t.from <= Len(source)
    BY <1>1 DEF BufferOK, Held
  <2>2. InPlace(out', source, ((Len(out) - 1) + Len(upto)) - t.begin, Len(source))
    BY <1>1, <1>7, <2>1, ReplacedPlace DEF BufferOK
  <2>3. Len(out') \in Nat
    BY <1>8, SeqLength
  <2>4. ((Len(out) - 1) + Len(upto)) - t.begin = Len(out') - 1
    BY <1>1, <1>2, <2>2, <2>3, SMTT(30) DEF InPlace
  <2> QED
    BY <2>2, <2>4
<1>12. t' # NoToken
  <2>1. NoToken.from = 0 /\ t'.from # 0
    BY <1>1, <1>4 DEF NoToken
  <2> QED
    BY <2>1
<1> QED
  BY <1>3, <1>4, <1>5, <1>6, <1>8, <1>9, <1>10, <1>11, <1>12 DEF BufferOK, TokensOK
-----------------------------------------------------------------------------
(* The lexer.  A call goes on, with what it knows of its token ...         *)
GoesOn ==
    /\ Reading /\ Reads /\ linenumber' \in Nat
    /\ DOMAIN lx' = Call /\ lx'.mode # "idle" /\ lx'.back # "idle"
    /\ lx'.to = lx.to /\ lx'.linebegin = lx.linebegin
    /\ lx'.begin = lx.begin /\ lx'.from = lx.from
    /\ UNCHANGED <<t, lookahead, todo>>

(* ... or returns it, or that there is none ...                            *)
Gives(tok) ==
    /\ lx' = Idle /\ UNCHANGED <<linenumber, todo>>
    /\ \/ lx.to = "t" /\ t' = tok /\ UNCHANGED lookahead
       \/ lx.to # "t" /\ lookahead' = tok /\ UNCHANGED t
Ends == Reading /\ Reads /\ \E k : Gives(Token(k))
EndOfText ==
    /\ current = EOZ /\ UNCHANGED <<source, current, out>>
    /\ Gives([Token(EOS) EXCEPT !.begin = Len(out), !.from = Len(source) + 1])

(* ... or gives up.                                                        *)
GivesUp == UNCHANGED <<source, current, out, linenumber, t, lookahead, lx, todo>>

LEMMA GoingOn ==
    ASSUME IInv, lx # Idle, GoesOn
    PROVE  IInv'
<1>1. /\ BufferOK'
      /\ \A tok : Held(tok) => /\ InPlace(out', source', tok.begin, tok.from)
                               /\ current' # EOZ => tok.from <= Len(source')
  BY Kept DEF IInv, GoesOn
<1>2. TokensOK'
  BY <1>1 DEF IInv, TokensOK, GoesOn, Held
<1>3. lx' # Idle
  <2>1. Idle.mode = "idle" /\ lx'.mode # "idle"
    BY DEF GoesOn, Idle
  <2> QED
    BY <2>1
<1>4. Reading'
  BY <1>1 DEF GoesOn, Held, Reading
<1>5. LxOK'
  BY <1>3, <1>4 DEF IInv, LxOK, GoesOn
<1>6. TodoOK'
  BY DEF IInv, TodoOK, GoesOn
<1>7. EarlyOK'
  BY <1>3 DEF IInv, EarlyOK, GoesOn
<1> QED
  BY <1>1, <1>2, <1>5, <1>6, <1>7 DEF IInv

LEMMA GivingUp ==
    ASSUME IInv, GivesUp
    PROVE  IInv'
  BY DEF IInv, GivesUp, BufferOK, TokensOK, LxOK, TodoOK, EarlyOK, Held, Reading

(* A token that is returned is behind what anything refers to.             *)
LEMMA Giving ==
    ASSUME IInv, lx # Idle, BufferOK', NEW tok, Gives(tok), IsToken(tok),
           \A k : Held(k) => InPlace(out', source', k.begin, k.from)
                             /\ (current' # EOZ => k.from <= Len(source')),
           InPlace(out', source', tok.begin, tok.from),
           current' # EOZ => tok.from <= Len(source'),
           t.from <= tok.from, t # NoToken => t.begin <= tok.begin
    PROVE  IInv'
<1>1. /\ lx' = Idle /\ UNCHANGED <<linenumber, todo>>
      /\ \/ lx.to = "t" /\ t' = tok /\ UNCHANGED lookahead
         \/ lx.to # "t" /\ lookahead' = tok /\ UNCHANGED t
  BY DEF Gives
<1>2. LxOK'
  BY <1>1 DEF LxOK
<1>3. /\ lx.to = "t" => lookahead.token = EOS
      /\ t = NoToken => lx.to = "t" /\ todo = <<<<"stats">>>>
      /\ tok.begin \in Nat /\ tok.from \in Nat /\ tok.from # 0
  BY DEF IInv, LxOK, EarlyOK, InPlace
<1>4. TokensOK'
  <2>1. CASE lx.to = "t"
    <3>1. t' = tok /\ lookahead' = lookahead /\ lookahead.token = EOS
      BY <1>1, <1>3, <2>1
    <3>2. Held(t)'
      BY <3>1 DEF Held
    <3> QED
      BY <3>1, <3>2 DEF IInv, TokensOK, IsToken
  <2>2. CASE lx.to # "t"
    <3>1. t' = t /\ lookahead' = tok /\ t # NoToken
      BY <1>1, <1>3, <2>2
    <3>2. Held(lookahead)'
      BY <3>1 DEF Held
    <3>3. Held(t)'
      BY <3>1 DEF IInv, TokensOK, Held
    <3> QED
      BY <3>1, <3>2, <3>3 DEF IInv, TokensOK, IsToken
  <2> QED
    BY <2>1, <2>2
<1>5. EarlyOK'
  <2>1. NoToken.from = 0
    BY DEF NoToken
  <2>2. t' # NoToken
    BY <1>1, <1>3, <2>1
  <2> QED
    BY <2>2 DEF EarlyOK
<1>6. TodoOK'
  <2>1. CASE t # NoToken
    <3>1. t.begin \in Nat /\ t'.begin \in Nat /\ t.begin <= t'.begin
      <4>1. t.begin \in Nat
        BY <2>1 DEF IInv, TokensOK, Held, InPlace
      <4> QED
        BY <1>1, <1>3, <2>1, <4>1
    <3>2. 0 .. t.begin \subseteq 0 .. t'.begin
      BY <3>1
    <3> QED
      BY <1>1, <3>2 DEF IInv, TodoOK
  <2>2. CASE t = NoToken
    <3>1. todo' = <<<<"stats">>>>
      BY <1>1, <1>3, <2>2
    <3>2. IsSeq(todo') /\ Len(todo') = 1
      BY <3>1, SeqShort
    <3>3. \A i \in 1 .. Len(todo') : todo'[i] = <<"stats">>
      BY <3>1, <3>2
    <3>4. OpOK(<<"stats">>) /\ Mark(<<"stats">>) = {}
      BY DEF OpOK, Mark, Marked
    <3> QED
      BY <3>2, <3>3, <3>4 DEF TodoOK
  <2> QED
    BY <2>1, <2>2
<1> QED
  BY <1>2, <1>4, <1>5, <1>6 DEF IInv

LEMMA Ending ==
    ASSUME IInv, lx # Idle, Ends
    PROVE  IInv'
<1>1. PICK k : Gives(Token(k))
  BY DEF Ends
<1>2. /\ BufferOK'
      /\ \A tok : Held(tok) => /\ InPlace(out', source', tok.begin, tok.from)
                               /\ current' # EOZ => tok.from <= Len(source')
  BY <1>1, Kept DEF IInv, BufferOK, Ends, Gives
<1> DEFINE tok == Token(k)
<1>3. /\ DOMAIN tok = {"token", "linebegin", "begin", "from"}
      /\ tok.begin = lx.begin /\ tok.from = lx.from /\ tok.linebegin = lx.linebegin
  BY DEF Token
<1>4. Gives(tok)
  BY <1>1
<1> HIDE DEF tok
<1>5. Held(lx) /\ t.from <= lx.from /\ lx.linebegin \in Nat
  BY DEF Ends, Reading, IInv, LxOK
<1>6. IsToken(tok)
  BY <1>3, <1>5 DEF IsToken, Held, InPlace
<1>7. t # NoToken => t.begin <= tok.begin
  <2> SUFFICES ASSUME t # NoToken PROVE t.begin <= tok.begin
    OBVIOUS
  <2>1. Len(out) \in Nat /\ Len(source) \in Nat /\ Held(t)
    BY TokenThere DEF IInv
  <2> QED
    BY <1>3, <1>5, <2>1, InOrder DEF Held
<1>8. InPlace(out', source', tok.begin, tok.from) /\ (current' # EOZ => tok.from <= Len(source'))
  BY <1>2, <1>3, <1>5
<1> QED
  BY <1>2, <1>3, <1>4, <1>5, <1>6, <1>7, <1>8, Giving

LEMMA EndingText ==
    ASSUME IInv, lx # Idle, EndOfText
    PROVE  IInv'
<1> DEFINE tok == [Token(EOS) EXCEPT !.begin = Len(out), !.from = Len(source) + 1]
<1>1. UNCHANGED <<source, current, out, linenumber>> /\ current = EOZ
  BY DEF EndOfText, Gives
<1>2. Len(out) \in Nat /\ Len(source) \in Nat
  BY SeqLength DEF IInv, BufferOK
<1>3. InPlace(out', source', Len(out), Len(source) + 1)
  BY <1>1, <1>2 DEF InPlace
<1>4. BufferOK'
  BY <1>1 DEF IInv, BufferOK
<1>5. Gives(tok)
  BY DEF EndOfText
<1>6. /\ DOMAIN tok = {"token", "linebegin", "begin", "from"} /\ tok.token = EOS
      /\ tok.begin = Len(out) /\ tok.from = Len(source) + 1 /\ tok.linebegin = lx.linebegin
  BY DEF Token
<1> HIDE DEF tok
<1>7. IsToken(tok)
  BY <1>2, <1>6 DEF IsToken, IInv, LxOK
<1>8. t.from <= tok.from /\ (t # NoToken => t.begin <= tok.begin)
  <2>1. CASE t = NoToken
    BY <1>2, <1>6, <2>1 DEF NoToken
  <2>2. CASE t # NoToken
    BY <1>2, <1>6, <2>2, TokenThere DEF IInv
  <2> QED
    BY <2>1, <2>2
<1>9. \A k : Held(k) => InPlace(out', source', k.begin, k.from)
                        /\ (current' # EOZ => k.from <= Len(source'))
  BY <1>1 DEF Held
<1> QED
  BY <1>1, <1>3, <1>4, <1>5, <1>6, <1>7, <1>8, <1>9, Giving

(* The kinds of steps the lexer is made of.                                *)
LEMMA StepsOfLex ==
    ASSUME IInv, lx # Idle, Reading, UNCHANGED todo
    PROVE  /\ \A m : m # "idle" /\ (Skip(m) \/ Stay(m)) => GoesOn
           /\ \A b : b # "idle" /\ ToBreak(b) => GoesOn
           /\ \A k : Return(k) \/ SkipReturn(k) => Ends
           /\ LexError => GivesUp
           /\ (\E c \in Chars : NextChar(c)) /\ UNCHANGED linenumber /\ On
              /\ DOMAIN lx' = DOMAIN lx /\ lx'.mode # "idle" /\ lx'.back = lx.back
              /\ lx'.to = lx.to /\ lx'.linebegin = lx.linebegin
              /\ lx'.begin = lx.begin /\ lx'.from = lx.from => GoesOn
           /\ \A second : Broken(second, 1) => GoesOn
<1>1. /\ DOMAIN lx = Call /\ lx.mode # "idle" /\ lx.back # "idle" /\ linenumber \in Nat
      /\ lx.to \in {"t", "lookahead"}
  BY DEF IInv, LxOK, BufferOK
<1>2. ASSUME NEW m, m # "idle", Skip(m) PROVE GoesOn
  BY <1>1, <1>2 DEF Skip, Moved, On, GoesOn, Reads, tokens, Call
<1>3. ASSUME NEW m, m # "idle", Stay(m) PROVE GoesOn
  BY <1>1, <1>3 DEF Stay, Moved, On, GoesOn, Reads, tokens, input, Call
<1>4. ASSUME NEW b, b # "idle", ToBreak(b) PROVE GoesOn
  BY <1>1, <1>4 DEF ToBreak, On, GoesOn, Reads, tokens, input, Call
<1>5. ASSUME NEW k, Return(k) PROVE Ends
  <2>1. Reads /\ UNCHANGED linenumber
    BY <1>5 DEF Return, Returned, lines, input, Reads
  <2>2. Gives(Token(k))
    BY <1>1, <1>5 DEF Return, Returned, Gives, lines
  <2> QED
    BY <2>1, <2>2 DEF Ends
<1>6. ASSUME NEW k, SkipReturn(k) PROVE Ends
  <2>1. Reads /\ UNCHANGED linenumber
    BY <1>6 DEF SkipReturn, Returned, lines, input, Reads
  <2>2. Gives(Token(k))
    BY <1>1, <1>6 DEF SkipReturn, Returned, Gives, lines
  <2> QED
    BY <2>1, <2>2 DEF Ends
<1>7. LexError => GivesUp
  BY DEF LexError, GivesUp, input, lines, tokens
<1>8. ASSUME \E c \in Chars : NextChar(c), UNCHANGED linenumber, On,
             DOMAIN lx' = DOMAIN lx, lx'.mode # "idle", lx'.back = lx.back,
             lx'.to = lx.to, lx'.linebegin = lx.linebegin,
             lx'.begin = lx.begin, lx'.from = lx.from
      PROVE  GoesOn
  BY <1>1, <1>8 DEF On, GoesOn, Reads, tokens
<1>9. ASSUME NEW second, Broken(second, 1) PROVE GoesOn
  <2>1. PICK c \in Chars :
            /\ NextChar(c) /\ On
            /\ \/ Moved("break2") /\ UNCHANGED linenumber
               \/ Moved(lx.back) /\ linenumber' = linenumber + 1
    BY <1>9 DEF Broken
  <2>2. Reads /\ linenumber' \in Nat
    BY <1>1, <2>1 DEF Reads
  <2>3. /\ DOMAIN lx' = Call /\ lx'.mode # "idle" /\ lx'.back # "idle"
        /\ lx'.to = lx.to /\ lx'.linebegin = lx.linebegin
        /\ lx'.begin = lx.begin /\ lx'.from = lx.from
    BY <1>1, <2>1 DEF Moved, Call
  <2> QED
    BY <2>1, <2>2, <2>3 DEF GoesOn, On, tokens
<1> QED
  BY <1>2, <1>3, <1>4, <1>5, <1>6, <1>7, <1>8, <1>9, Zenon

LEMMA LexStep ==
    ASSUME IInv, Lexes
    PROVE  lx # Idle /\ (GoesOn \/ Ends \/ EndOfText \/ GivesUp)
<1> DEFINE Kinds == GoesOn \/ Ends \/ EndOfText \/ GivesUp
<1>0. Llex /\ UNCHANGED todo
  BY DEF Lexes
<1>1. lx.mode # "idle" => lx # Idle
  BY DEF Idle
<1>2. CASE lx.mode = "idle"
  BY <1>0, <1>2 DEF Llex, Start, IncLineNumber, Pair, Dots, Dash, LongSep, Long,
                    ReadString, Numeral, Word, In
<1>3. CASE lx.mode # "idle"
  <2>1. lx # Idle
    BY <1>1, <1>3
  <2>2. DOMAIN lx = Call /\ (Reading \/ (lx.mode = "start" /\ current = EOZ))
        /\ lx.to \in {"t", "lookahead"}
    BY <2>1 DEF IInv, LxOK
  <2>3. CASE ~Reading
    <3>1. lx.mode = "start" /\ current = EOZ
      BY <2>2, <2>3
    <3>2. Start
      BY <1>0, <3>1 DEF Llex, IncLineNumber, Pair, Dots, Dash, LongSep, Long,
                        ReadString, Numeral, Word, In
    <3>3. /\ Returned([Token(EOS) EXCEPT !.begin = Len(out), !.from = Len(source) + 1])
          /\ UNCHANGED <<input, out>>
      BY <3>1, <3>2 DEF Start, EOZ, Breaks, Blanks, Pairs, Delimiters, Digits, Letters,
                        Reserved, Entries, Signs
    <3>4. EndOfText
      BY <1>0, <2>2, <3>1, <3>3 DEF EndOfText, Gives, Returned, input, lines
    <3> QED
      BY <2>1, <3>4
  <2>4. CASE Reading
    <3>1. /\ \A m : m # "idle" /\ (Skip(m) \/ Stay(m)) => GoesOn
          /\ \A b : b # "idle" /\ ToBreak(b) => GoesOn
          /\ \A k : Return(k) \/ SkipReturn(k) => Ends
          /\ LexError => GivesUp
          /\ \A second : Broken(second, 1) => GoesOn
      BY <1>0, <2>1, <2>4, StepsOfLex, Zenon
    <3>2. ASSUME \E c \in Chars : NextChar(c), UNCHANGED linenumber, On,
                 NEW m, m # "idle", NEW text, NEW level,
                 \/ lx' = [lx EXCEPT !.mode = m, !.text = text]
                 \/ lx' = [lx EXCEPT !.text = text]
                 \/ lx' = [lx EXCEPT !.mode = m, !.level = level, !.text = text]
          PROVE  GoesOn
      <4>1. /\ DOMAIN lx' = DOMAIN lx /\ lx'.mode # "idle" /\ lx'.back = lx.back
            /\ lx'.to = lx.to /\ lx'.linebegin = lx.linebegin
            /\ lx'.begin = lx.begin /\ lx'.from = lx.from
        BY <1>3, <2>2, <3>2 DEF Call
      <4> QED
        BY <1>0, <2>1, <2>4, <3>2, <4>1, StepsOfLex, Zenon
    <3>3. ASSUME Start PROVE Kinds
      <4>1. CASE current \in {p[1] : p \in Pairs} /\ (\E c \in Chars : NextChar(c))
                 /\ lx' = [lx EXCEPT !.mode = "pair", !.text = <<current>>]
                 /\ UNCHANGED linenumber /\ On
        BY <3>2, <4>1
      <4>2. CASE current \in Delimiters /\ (\E c \in Chars : NextChar(c))
                 /\ lx' = [lx EXCEPT !.mode = "string", !.text = <<current>>]
                 /\ UNCHANGED linenumber /\ On
        BY <3>2, <4>2
      <4>3. CASE current = EOZ
                 /\ Returned([Token(EOS) EXCEPT !.begin = Len(out), !.from = Len(source) + 1])
                 /\ UNCHANGED <<input, out>>
        BY <1>0, <2>2, <4>3 DEF EndOfText, Gives, Returned, input, lines
      <4>4. CASE current \in {"[", "."} /\ Skip(current)
        BY <3>1, <4>4
      <4>5. CASE \/ ToBreak("start") \/ Skip("start") \/ Skip("dash") \/ Skip("numeral")
                 \/ Stay("word") \/ SkipReturn(current)
        BY <3>1, <4>5
      <4> QED
        BY <3>3, <4>1, <4>2, <4>3, <4>4, <4>5, Zenon DEF Start
    <3>4. ASSUME IncLineNumber PROVE Kinds
      BY <3>1, <3>4 DEF IncLineNumber
    <3>5. ASSUME Pair PROVE Kinds
      BY <3>1, <3>5 DEF Pair
    <3>6. ASSUME Dots PROVE Kinds
      BY <3>1, <3>6 DEF Dots
    <3>7. ASSUME Dash PROVE Kinds
      BY <3>1, <3>7 DEF Dash
    <3>8. Equals => GoesOn
      BY <3>2 DEF Equals
    <3>9. \A kind : LongOpens(kind) => GoesOn
      BY <3>2 DEF LongOpens
    <3>10. ASSUME LongSep PROVE Kinds
      BY <3>1, <3>8, <3>9, <3>10 DEF LongSep
    <3>11. ASSUME Long PROVE Kinds
      <4>1. CASE In("long0") \/ In("long")
        <5>1. CASE (\E c \in Chars : NextChar(c)) /\ UNCHANGED linenumber /\ On
                   /\ lx' = [lx EXCEPT !.mode = "]", !.text = SubSeq(@, 1, 1)]
          BY <3>2, <5>1
        <5>2. CASE ToBreak("long") \/ Stay("long") \/ Skip("long") \/ LexError
          BY <3>1, <5>2
        <5> QED
          BY <3>11, <4>1, <5>1, <5>2 DEF Long, In
      <4>2. CASE In("]")
        <5>1. CASE (\E c \in Chars : NextChar(c)) /\ UNCHANGED linenumber /\ On
                   /\ lx' = [lx EXCEPT !.mode = "start", !.text = <<>>]
          BY <3>2, <5>1
        <5>2. CASE Equals \/ SkipReturn(String) \/ Stay("long")
          BY <3>1, <3>8, <5>2
        <5> QED
          BY <3>11, <4>2, <5>1, <5>2, "]" # "long0" /\ "]" # "long" DEF Long, In
      <4> QED
        BY <3>11, <4>1, <4>2 DEF Long
    <3>12. ASSUME ReadString PROVE Kinds
      BY <3>1, <3>12 DEF ReadString
    <3>13. ASSUME Numeral PROVE Kinds
      BY <3>1, <3>13 DEF Numeral
    <3>14. ASSUME Word PROVE Kinds
      <4>1. CASE (\E c \in Chars : NextChar(c)) /\ UNCHANGED linenumber /\ On
                 /\ lx' = [lx EXCEPT !.text = Append(@, current)]
        <5>1. lx' = [lx EXCEPT !.text = Append(lx.text, current)] /\ "word" # "idle"
          BY <4>1
        <5> QED
          BY <3>2, <4>1, <5>1
      <4>2. CASE \E k : Return(k)
        BY <3>1, <4>2
      <4> QED
        BY <3>14, <4>1, <4>2 DEF Word
    <3> QED
      BY <1>0, <2>1, <3>3, <3>4, <3>5, <3>6, <3>7, <3>10, <3>11, <3>12, <3>13, <3>14
      DEF Llex
  <2> QED
    BY <2>1, <2>3, <2>4
<1> QED
  BY <1>2, <1>3
-----------------------------------------------------------------------------
(* The parser.                                                             *)
LEMMA Rest ==
    ASSUME TodoOK, todo # <<>>
    PROVE  /\ OpOK(Head1) /\ Mark(Head1) \subseteq 0 .. t.begin
           /\ IsSeq(Tail(todo))
           /\ \A i \in 1 .. Len(Tail(todo)) :
                 /\ OpOK(Tail(todo)[i]) /\ Mark(Tail(todo)[i]) \subseteq 0 .. t.begin
                 /\ \A x \in Mark(Head1), y \in Mark(Tail(todo)[i]) : y <= x
           /\ \A i, j \in 1 .. Len(Tail(todo)) : i < j =>
                 \A x \in Mark(Tail(todo)[i]), y \in Mark(Tail(todo)[j]) : y <= x
<1>1. /\ IsSeq(Tail(todo)) /\ Len(Tail(todo)) = Len(todo) - 1 /\ Len(todo) > 0
      /\ \A i \in 1 .. Len(todo) - 1 : Tail(todo)[i] = todo[i + 1]
  BY SeqTail DEF TodoOK
<1>2. Len(todo) \in Nat
  BY SeqLength DEF TodoOK
<1>3. 1 \in 1 .. Len(todo)
  BY <1>1, <1>2
<1>4. ASSUME NEW i \in 1 .. Len(Tail(todo))
      PROVE  Tail(todo)[i] = todo[i + 1] /\ i + 1 \in 1 .. Len(todo) /\ 1 < i + 1
  BY <1>1, <1>2
<1>5. ASSUME NEW i \in 1 .. Len(Tail(todo))
      PROVE  /\ OpOK(Tail(todo)[i]) /\ Mark(Tail(todo)[i]) \subseteq 0 .. t.begin
             /\ \A x \in Mark(Head1), y \in Mark(Tail(todo)[i]) : y <= x
  BY <1>3, <1>4 DEF TodoOK, Head1
<1>6. ASSUME NEW i \in 1 .. Len(Tail(todo)), NEW j \in 1 .. Len(Tail(todo)), i < j
      PROVE  \A x \in Mark(Tail(todo)[i]), y \in Mark(Tail(todo)[j]) : y <= x
  <2>1. i + 1 < j + 1
    BY <1>6
  <2> QED
    BY <1>4, <2>1 DEF TodoOK
<1> QED
  BY <1>1, <1>3, <1>5, <1>6 DEF TodoOK, Head1

(* New operations go in front of the rest if what they refer to is not in  *)
(* front of what the rest refers to.                                       *)
LEMMA InFront ==
    ASSUME TodoOK, todo # <<>>, NEW ops, IsSeq(ops), Put(ops), NEW e \in Nat, e = t'.begin, NEW m \in 0 .. e,
           \A i \in 1 .. Len(ops) : OpOK(ops[i]) /\ Mark(ops[i]) \subseteq {m},
           \A i \in 1 .. Len(Tail(todo)) : \A y \in Mark(Tail(todo)[i]) : y <= m
    PROVE  TodoOK'
<1> DEFINE r == Tail(todo)
<1> DEFINE n == Len(ops)
<1>1. /\ IsSeq(r)
      /\ \A i \in 1 .. Len(r) : OpOK(r[i]) /\ Mark(r[i]) \subseteq 0 .. t.begin
      /\ \A i, j \in 1 .. Len(r) : i < j => \A x \in Mark(r[i]), y \in Mark(r[j]) : y <= x
      /\ \A i \in 1 .. Len(r) : \A y \in Mark(r[i]) : y <= m
  BY Rest
<1>2. todo' = ops \o r
  BY DEF Put
<1> HIDE DEF r
<1>3. /\ IsSeq(ops \o r) /\ Len(ops \o r) = Len(ops) + Len(r)
      /\ \A i \in 1 .. Len(ops) : (ops \o r)[i] = ops[i]
      /\ \A i \in 1 .. Len(r) : (ops \o r)[Len(ops) + i] = r[i]
  BY <1>1, SeqJoin
<1>4. n \in Nat /\ Len(r) \in Nat
  BY <1>1, SeqLength
<1>5. /\ IsSeq(todo') /\ Len(todo') = n + Len(r)
      /\ \A i \in 1 .. n : todo'[i] = ops[i]
      /\ \A i \in 1 .. Len(r) : todo'[n + i] = r[i]
  BY <1>2, <1>3
<1> HIDE DEF n
<1>6. \A i \in 1 .. n : OpOK(ops[i]) /\ Mark(ops[i]) \subseteq {m}
  BY DEF n
<1>7. \A i \in 1 .. Len(r) : Mark(r[i]) \subseteq 0 .. m
  BY <1>1
<1>8. ASSUME NEW i \in 1 .. Len(todo')
      PROVE  \/ i \in 1 .. n
             \/ i - n \in 1 .. Len(r) /\ todo'[i] = r[i - n]
  <2>1. CASE i <= n
    BY <1>4, <2>1
  <2>2. CASE i > n
    <3>1. i - n \in 1 .. Len(r) /\ n + (i - n) = i
      BY <1>4, <1>5, <2>2
    <3> QED
      BY <1>5, <3>1
  <2> QED
    BY <1>4, <2>1, <2>2
<1>9. ASSUME NEW i \in 1 .. Len(todo')
      PROVE  OpOK(todo'[i]) /\ Mark(todo'[i]) \subseteq 0 .. m
  <2>1. CASE i \in 1 .. n
    <3>1. OpOK(ops[i]) /\ Mark(ops[i]) \subseteq {m} /\ todo'[i] = ops[i] /\ m \in 0 .. m
      BY <1>5, <1>6, <2>1
    <3> QED
      BY <3>1
  <2>2. CASE i - n \in 1 .. Len(r) /\ todo'[i] = r[i - n]
    <3> DEFINE k == i - n
    <3>1. k \in 1 .. Len(r) /\ todo'[i] = r[k]
      BY <2>2
    <3> HIDE DEF k
    <3> QED
      BY <1>1, <1>7, <3>1
  <2> QED
    BY <1>8, <2>1, <2>2
<1>10. ASSUME NEW i \in 1 .. Len(todo'), NEW j \in 1 .. Len(todo'), i < j,
              NEW x \in Mark(todo'[i]), NEW y \in Mark(todo'[j])
       PROVE  y <= x
  <2>1. CASE i \in 1 .. n
    <3>1. todo'[i] = ops[i] /\ Mark(ops[i]) \subseteq {m}
      BY <1>5, <1>6, <2>1
    <3>2. x = m
      BY <3>1
    <3>3. y \in 0 .. m
      BY <1>9
    <3> QED
      BY <3>2, <3>3
  <2>2. CASE i \notin 1 .. n
    <3>1. i - n \in 1 .. Len(r) /\ todo'[i] = r[i - n]
      BY <1>8, <2>2
    <3>2. j \notin 1 .. n
      BY <1>4, <1>10, <2>2
    <3>3. j - n \in 1 .. Len(r) /\ todo'[j] = r[j - n] /\ i - n < j - n
      BY <1>4, <1>8, <1>10, <3>2
    <3> QED
      BY <1>1, <1>10, <3>1, <3>3
  <2> QED
    BY <2>1, <2>2
<1>11. 0 .. m \subseteq 0 .. e
  OBVIOUS
<1>12. \A i \in 1 .. Len(todo') : OpOK(todo'[i]) /\ Mark(todo'[i]) \subseteq 0 .. t'.begin
  BY <1>9, <1>11, Zenon
<1> QED
  BY <1>5, <1>10, <1>12 DEF TodoOK

(* Before there is a token all that can be done is to read one.            *)
LEMMA TokenFirst ==
    ASSUME IInv, Parsing, t = NoToken
    PROVE  todo = <<Tok, <<"stats">>>> /\ Head1 = Tok /\ lookahead.token = EOS
<1>1. todo = <<Tok, <<"stats">>>> /\ lookahead.token = EOS
  BY DEF IInv, EarlyOK, Parsing
<1> QED
  BY <1>1 DEF Head1

LEMMA Beginning ==
    ASSUME IInv, NEW to, to \in {"t", "lookahead"}, to = "t" => lookahead.token = EOS,
           Begin(to), UNCHANGED <<source, current, out, linenumber, t, lookahead>>
    PROVE  LxOK'
<1>1. /\ DOMAIN lx' = Call /\ lx'.mode = "start" /\ lx'.back = "start" /\ lx'.to = to
      /\ lx'.linebegin = linenumber /\ lx'.begin = Len(out) - 1 /\ lx'.from = Len(source)
  BY DEF Begin, Call
<1>2. linenumber \in Nat /\ Len(source) \in Nat /\ Len(source) > 0
  BY SeqLength DEF IInv, BufferOK
<1>3. ASSUME current # EOZ PROVE Reading'
  <2>1. InPlace(out, source, Len(out) - 1, Len(source))
    BY <1>3 DEF IInv, BufferOK
  <2>2. t.from <= Len(source)
    <3>1. CASE t = NoToken
      BY <1>2, <3>1 DEF NoToken
    <3>2. CASE t # NoToken
      BY <1>3, <3>2 DEF IInv, TokensOK, Held
    <3> QED
      BY <3>1, <3>2
  <2> QED
    BY <1>1, <1>2, <2>1, <2>2 DEF Reading, Held
<1> QED
  BY <1>1, <1>2, <1>3 DEF LxOK

LEMMA NextsKeeps ==
    ASSUME IInv, Nexts
    PROVE  IInv'
<1>1. /\ LuaXNext /\ Put(<<>>) /\ Parsing /\ lx = Idle /\ todo # <<>>
      /\ UNCHANGED <<source, current, out, linenumber>>
  BY DEF Nexts, At, Parsing, LuaXNext, input
<1>2. BufferOK'
  BY <1>1 DEF IInv, BufferOK
<1>3. IsSeq(<<>>) /\ Len(<<>>) = 0
  BY SeqShort
<1>4. CASE lookahead.token # EOS
  <2>1. t' = lookahead /\ lookahead' = [lookahead EXCEPT !.token = EOS] /\ lx' = lx
    BY <1>1, <1>4 DEF LuaXNext
  <2>2. t # NoToken /\ Held(lookahead) /\ t.from <= lookahead.from /\ IsToken(lookahead)
    BY <1>4 DEF IInv, EarlyOK, TokensOK
  <2>3. /\ DOMAIN lookahead' = DOMAIN lookahead /\ lookahead'.token = EOS
        /\ lookahead'.linebegin = lookahead.linebegin /\ lookahead'.begin = lookahead.begin
    BY <2>1, <2>2 DEF IsToken
  <2>4. IsToken(t') /\ IsToken(lookahead') /\ Held(t)'
    BY <1>1, <2>1, <2>2, <2>3 DEF IsToken, Held
  <2>5. TokensOK'
    BY <2>3, <2>4 DEF TokensOK
  <2>6. LxOK'
    BY <1>1, <2>1 DEF LxOK
  <2>7. t' # NoToken
    <3>1. t'.from # 0 /\ NoToken.from = 0
      BY <2>1, <2>2 DEF Held, InPlace, NoToken
    <3> QED
      BY <3>1
  <2>8. t.begin \in Nat /\ t'.begin \in Nat /\ t.begin <= t'.begin
    <3>1. Len(out) \in Nat /\ Len(source) \in Nat /\ Held(t)
      BY <2>2, TokenThere DEF IInv
    <3>2. t.begin <= lookahead.begin
      BY <2>2, <3>1, InOrder DEF Held
    <3> QED
      BY <2>1, <2>2, <3>1, <3>2 DEF Held, InPlace
  <2>9. TodoOK'
    <3>1. t.begin \in 0 .. t'.begin
      BY <2>8
    <3>2. \A i \in 1 .. Len(Tail(todo)) : \A y \in Mark(Tail(todo)[i]) : y <= t.begin
      <4>1. \A i \in 1 .. Len(Tail(todo)) : Mark(Tail(todo)[i]) \subseteq 0 .. t.begin
        BY <1>1, Rest DEF IInv
      <4> QED
        BY <2>8, <4>1
    <3> QED
      BY <1>1, <1>3, <2>8, <3>1, <3>2, InFront DEF IInv
  <2> QED
    BY <1>2, <2>5, <2>6, <2>7, <2>9 DEF IInv, EarlyOK
<1>5. CASE lookahead.token = EOS
  <2>1. Begin("t") /\ UNCHANGED <<t, lookahead>>
    BY <1>1, <1>5 DEF LuaXNext, tokens
  <2>2. LxOK'
    BY <1>1, <1>5, <2>1, Beginning
  <2>3. TokensOK'
    BY <1>1, <2>1 DEF IInv, TokensOK, Held
  <2>4. lx' # Idle /\ lx'.to = "t"
    <3>1. lx'.mode = "start" /\ Idle.mode = "idle" /\ lx'.to = "t"
      BY <2>1 DEF Begin, Idle
    <3> QED
      BY <3>1
  <2>5. CASE t = NoToken
    <3>1. todo = <<Tok, <<"stats">>>>
      BY <1>1, <2>5, TokenFirst
    <3>2. todo' = <<<<"stats">>>>
      BY <1>1, <3>1 DEF Put
    <3>3. EarlyOK'
      BY <1>5, <2>1, <2>4, <3>2 DEF EarlyOK
    <3>4. IsSeq(todo') /\ Len(todo') = 1 /\ todo'[1] = <<"stats">>
      BY <3>2, SeqShort
    <3>5. OpOK(<<"stats">>) /\ Mark(<<"stats">>) = {}
      BY DEF OpOK, Mark, Marked
    <3>6. \A i \in 1 .. Len(todo') : OpOK(todo'[i]) /\ Mark(todo'[i]) = {}
      BY <3>4, <3>5
    <3>7. TodoOK'
      BY <3>4, <3>6 DEF TodoOK
    <3> QED
      BY <1>2, <2>2, <2>3, <3>3, <3>7 DEF IInv
  <2>6. CASE t # NoToken
    <3>1. EarlyOK'
      BY <2>1, <2>6 DEF EarlyOK
    <3>2. t.begin \in Nat /\ t'.begin = t.begin /\ t.begin \in 0 .. t.begin
      BY <2>1, <2>6 DEF IInv, TokensOK, Held, InPlace
    <3>3. \A i \in 1 .. Len(Tail(todo)) : \A y \in Mark(Tail(todo)[i]) : y <= t.begin
      <4>1. \A i \in 1 .. Len(Tail(todo)) : Mark(Tail(todo)[i]) \subseteq 0 .. t.begin
        BY <1>1, Rest DEF IInv
      <4> QED
        BY <3>2, <4>1
    <3>4. TodoOK'
      BY <1>1, <1>3, <3>2, <3>3, InFront DEF IInv
    <3> QED
      BY <1>2, <2>2, <2>3, <3>1, <3>4 DEF IInv
  <2> QED
    BY <2>5, <2>6
<1> QED
  BY <1>4, <1>5

Quiet == UNCHANGED <<source, current, out, linenumber, t, lookahead, lx>>

(* An operation refers to nothing else than what begins at m.              *)
OpAt(op, m) == OpOK(op) /\ Mark(op) \subseteq {m}
OpsAt(ops, m) == IsSeq(ops) /\ \A i \in 1 .. Len(ops) : OpAt(ops[i], m)

LEMMA NotFirst ==
    ASSUME IInv, Parsing, Head1[1] # "next"
    PROVE  t # NoToken /\ IsToken(t) /\ OpOK(Head1)
<1>1. t # NoToken
  BY TokenFirst DEF Tok
<1>2. OpOK(Head1)
  BY Rest DEF IInv, Parsing
<1> QED
  BY <1>1, <1>2 DEF IInv, TokensOK

LEMMA Putting ==
    ASSUME IInv, Parsing, t # NoToken, Quiet, NEW ops, NEW m, Put(ops), OpsAt(ops, m),
           m = t.begin \/ m \in Mark(Head1)
    PROVE  IInv'
<1>1. BufferOK' /\ TokensOK'
  BY DEF Quiet, IInv, BufferOK, TokensOK, Held
<1>2. LxOK' /\ EarlyOK'
  BY DEF Quiet, LxOK, EarlyOK, Parsing
<1>3. t.begin \in Nat
  BY DEF IInv, TokensOK, Held, InPlace
<1>4. /\ Mark(Head1) \subseteq 0 .. t.begin
      /\ \A i \in 1 .. Len(Tail(todo)) :
            /\ Mark(Tail(todo)[i]) \subseteq 0 .. t.begin
            /\ \A x \in Mark(Head1), y \in Mark(Tail(todo)[i]) : y <= x
  BY Rest DEF IInv, Parsing
<1>5. m \in 0 .. t.begin
  BY <1>3, <1>4
<1>6. \A i \in 1 .. Len(Tail(todo)) : \A y \in Mark(Tail(todo)[i]) : y <= m
  <2>1. CASE m = t.begin
    BY <1>3, <1>4, <2>1
  <2>2. CASE m \in Mark(Head1)
    BY <1>4, <2>2
  <2> QED
    BY <2>1, <2>2
<1>7. t.begin = t'.begin
  BY DEF Quiet
<1>8. TodoOK'
  BY <1>3, <1>5, <1>6, <1>7, InFront DEF IInv, Parsing, OpsAt, OpAt
<1> QED
  BY <1>1, <1>2, <1>8 DEF IInv

LEMMA Stopping ==
    ASSUME IInv, t # NoToken, Quiet, todo' = <<>>
    PROVE  IInv'
<1>1. BufferOK' /\ TokensOK' /\ LxOK' /\ EarlyOK'
  BY DEF Quiet, IInv, BufferOK, TokensOK, Held, LxOK, Reading, EarlyOK
<1>2. IsSeq(todo') /\ Len(todo') = 0
  BY SeqShort
<1>3. TodoOK'
  BY <1>2 DEF TodoOK
<1> QED
  BY <1>1, <1>3 DEF IInv

LEMMA Moves ==
    ASSUME IInv, Parsing, Head1[1] # "next"
    PROVE  /\ \A ops, m : /\ Becomes(ops) \/ Enters(ops)
                          /\ OpsAt(ops, m)
                          /\ m = t.begin \/ m \in Mark(Head1)
                          => IInv'
           /\ SyntaxError => IInv'
<1>1. t # NoToken
  BY NotFirst
<1>2. ASSUME NEW ops, NEW m, Becomes(ops) \/ Enters(ops), OpsAt(ops, m),
             m = t.begin \/ m \in Mark(Head1)
      PROVE  IInv'
  <2>1. Quiet /\ Put(ops)
    BY <1>2 DEF Becomes, Enters, Quiet, input, lines, tokens
  <2> QED
    BY <1>1, <1>2, <2>1, Putting
<1>3. SyntaxError => IInv'
  <2>1. SyntaxError => Quiet /\ todo' = <<>>
    BY DEF SyntaxError, Quiet, input, lines, tokens
  <2> QED
    BY <1>1, <2>1, Stopping
<1> QED
  BY <1>2, <1>3

LEMMA OpsShort ==
    ASSUME NEW m
    PROVE  /\ OpsAt(<<>>, m)
           /\ \A a : OpAt(a, m) => OpsAt(<<a>>, m)
           /\ \A a, b : OpAt(a, m) /\ OpAt(b, m) => OpsAt(<<a, b>>, m)
           /\ \A a, b, c : OpAt(a, m) /\ OpAt(b, m) /\ OpAt(c, m) => OpsAt(<<a, b, c>>, m)
           /\ \A a, b, c, d : OpAt(a, m) /\ OpAt(b, m) /\ OpAt(c, m) /\ OpAt(d, m)
                              => OpsAt(<<a, b, c, d>>, m)
           /\ \A a, b, c, d, e : /\ OpAt(a, m) /\ OpAt(b, m) /\ OpAt(c, m)
                                 /\ OpAt(d, m) /\ OpAt(e, m)
                                 => OpsAt(<<a, b, c, d, e>>, m)
  BY SeqShort DEF OpsAt

LEMMA Unmarked == \A op, m : op[1] \notin Marked => OpAt(op, m)
  BY DEF OpAt, OpOK, Mark, Marked

LEMMA TokenOps ==
    ASSUME NEW tok, IsToken(tok)
    PROVE  /\ \A k \in {"definition", "further", "further local", "quote"} :
                 OpAt(<<k, tok>>, tok.begin)
           /\ \A k \in {"language", "operand", "binary", "embedded"} : \A x :
                 OpAt(<<k, tok, x>>, tok.begin)
           /\ \A k \in {"written", "more"} : \A text, x :
                 IsSeq(text) => OpAt(<<k, tok, text, x>>, tok.begin)
           /\ \A text, x, y : IsSeq(text) => OpAt(<<"right", tok, text, x, y>>, tok.begin)
           /\ \A text, x, y : IsSeq(text) /\ x.begin \in Int /\ tok.begin <= x.begin
                              => OpAt(<<"combine", tok, text, x, y>>, tok.begin)
           /\ \A x, y : x.begin \in Int /\ tok.begin <= x.begin
                        => OpAt(<<"pointer", tok, x, y>>, tok.begin)
  BY DEF OpAt, OpOK, Mark, Marked

(* Operations without tokens.                                              *)
LEMMA PlainOps ==
    ASSUME NEW m
    PROVE  /\ OpAt(Tok, m) /\ OpAt(Look, m)
           /\ \A x : OpAt(Expect(x), m) /\ OpAt(Sub(x), m) /\ OpAt(Embed(x), m)
           /\ \A k \in {"stats", "local", "assign", "primary", "structdef", "fields", "comma",
                        "simple", "items", "suffix", "field", "sep", "args"} : OpAt(<<k>>, m)
<1>1. /\ Tok[1] = "next" /\ Look[1] = "look"
      /\ \A x : Expect(x)[1] = "expect" /\ Sub(x)[1] = "sub" /\ Embed(x)[1] = "embed"
      /\ \A k : <<k>>[1] = k
  BY DEF Tok, Look, Expect, Sub, Embed
<1>2. {"next", "look", "expect", "sub", "embed",
       "stats", "local", "assign", "primary", "structdef", "fields", "comma",
       "simple", "items", "suffix", "field", "sep", "args"} \cap Marked = {}
  BY DEF Marked
<1> QED
  BY <1>1, <1>2, Unmarked

LEMMA StatementKeeps ==
    ASSUME IInv, Statement
    PROVE  IInv'
<1>1. Parsing /\ Head1[1] # "next"
  BY DEF Statement, At
<1>2. t # NoToken /\ IsToken(t)
  BY <1>1, NotFirst
<1>3. /\ \A ops, m : /\ Becomes(ops) \/ Enters(ops)
                     /\ OpsAt(ops, m)
                     /\ m = t.begin \/ m \in Mark(Head1)
                     => IInv'
      /\ SyntaxError => IInv'
  BY <1>1, Moves, Zenon
<1>4. /\ OpAt(<<"definition", t>>, t.begin) /\ OpAt(<<"language", t, FALSE>>, t.begin)
      /\ OpAt(Tok, t.begin) /\ OpAt(<<"stats">>, t.begin) /\ OpAt(<<"local">>, t.begin)
      /\ OpAt(<<"primary">>, t.begin) /\ OpAt(<<"assign">>, t.begin)
  BY <1>2, TokenOps, PlainOps
<1>5. /\ OpsAt(<<<<"definition", t>>, <<"stats">>>>, t.begin)
      /\ OpsAt(<<Tok, <<"local">>, <<"stats">>>>, t.begin)
      /\ OpsAt(<<<<"language", t, FALSE>>, <<"stats">>>>, t.begin)
      /\ OpsAt(<<<<"primary">>, <<"assign">>, <<"stats">>>>, t.begin)
  BY <1>4, OpsShort
<1> QED
  BY <1>3, <1>5 DEF Statement

LEMMA LocalStatKeeps ==
    ASSUME IInv, LocalStat
    PROVE  IInv'
<1>1. Parsing /\ Head1[1] # "next"
  BY DEF LocalStat, At
<1>2. t # NoToken /\ IsToken(t)
  BY <1>1, NotFirst
<1>3. \A ops, m : /\ Becomes(ops) \/ Enters(ops)
                  /\ OpsAt(ops, m)
                  /\ m = t.begin \/ m \in Mark(Head1)
                  => IInv'
  BY <1>1, Moves, Zenon
<1>4. /\ OpAt(<<"definition", t>>, t.begin) /\ OpAt(<<"language", t, FALSE>>, t.begin)
      /\ OpAt(Expect(Name), t.begin) /\ OpAt(<<"assign">>, t.begin)
      /\ OpAt(Tok, t.begin) /\ OpAt(Sub(0), t.begin)
  BY <1>2, TokenOps, PlainOps
<1>5. /\ OpsAt(<<<<"definition", t>>>>, t.begin) /\ OpsAt(<<<<"language", t, FALSE>>>>, t.begin)
      /\ OpsAt(<<Expect(Name), <<"assign">>>>, t.begin) /\ OpsAt(<<Tok, Sub(0)>>, t.begin)
      /\ OpsAt(<<>>, t.begin)
  BY <1>4, OpsShort
<1> QED
  BY <1>3, <1>5 DEF LocalStat

(* What an operation that has a token hands on.                            *)
LEMMA HandedOn ==
    ASSUME IInv, Parsing, Head1[1] \in Marked
    PROVE  /\ IsToken(Head1[2]) /\ Head1[2].begin \in Mark(Head1)
           /\ t # NoToken /\ IsToken(t)
           /\ Head1[1] \in {"written", "more", "right", "combine"} => IsSeq(Head1[3])
           /\ Head1[1] = "pointer" =>
                 Head1[3].begin \in Int /\ Head1[2].begin <= Head1[3].begin
           /\ Head1[1] = "combine" =>
                 Head1[4].begin \in Int /\ Head1[2].begin <= Head1[4].begin
<1>1. Head1[1] # "next"
  BY DEF Marked
<1>2. t # NoToken /\ IsToken(t) /\ OpOK(Head1)
  BY <1>1, NotFirst
<1> QED
  BY <1>2 DEF OpOK, Mark

LEMMA TerrastatsKeeps ==
    ASSUME IInv, Terrastats
    PROVE  IInv'
<1>1. Parsing /\ Head1[1] # "next"
  BY DEF Terrastats, At
<1>2. \A ops, m : /\ Becomes(ops) \/ Enters(ops)
                  /\ OpsAt(ops, m)
                  /\ m = t.begin \/ m \in Mark(Head1)
                  => IInv'
  BY <1>1, Moves, Zenon
<1>3. CASE At("structdef")
  <2>1. OpsAt(<<Tok, <<"fields">>>>, t.begin) /\ OpsAt(<<>>, t.begin)
    BY PlainOps, OpsShort
  <2> QED
    BY <1>2, <1>3, <2>1 DEF Terrastats, At
<1>4. CASE At("definition") \/ At("further") \/ At("further local")
  <2> DEFINE tok == Head1[2]
  <2> DEFINE m == tok.begin
  <2>1. IsToken(tok) /\ m \in Mark(Head1)
    BY <1>1, <1>4, HandedOn DEF At, Marked
  <2>2. IsSeq(<<Wrote("terra.defineobjects("), Wrote(")")>>)
    BY SeqShort
  <2> HIDE DEF tok
  <2>3. /\ OpAt(<<"definition", tok>>, m) /\ OpAt(<<"further", tok>>, m)
        /\ OpAt(<<"further local", tok>>, m) /\ OpAt(Defined(tok), m)
    BY <2>1, <2>2, TokenOps DEF Defined, Written
  <2>4. OpAt(Tok, m) /\ OpAt(Expect(Name), m) /\ OpAt(<<"structdef">>, m) /\ OpAt(Look, m)
    BY PlainOps
  <2>5. /\ OpsAt(<<Tok, Expect(Name), <<"structdef">>, <<"further", tok>>>>, m)
        /\ OpsAt(<<<<"definition", tok>>>>, m) /\ OpsAt(<<Look, <<"further local", tok>>>>, m)
        /\ OpsAt(<<Defined(tok)>>, m) /\ OpsAt(<<Tok, <<"definition", tok>>>>, m)
    BY <2>3, <2>4, OpsShort
  <2> HIDE DEF m
  <2>6. \A ops : Becomes(ops) /\ OpsAt(ops, m) => IInv'
    BY <1>2, <2>1
  <2> QED
    BY <1>4, <2>5, <2>6 DEF Terrastats, At, tok
<1> QED
  BY <1>3, <1>4 DEF Terrastats

LEMMA StructbodyKeeps ==
    ASSUME IInv, Structbody
    PROVE  IInv'
<1>1. Parsing /\ Head1[1] # "next"
  BY DEF Structbody, At
<1>2. \A ops, m : /\ Becomes(ops) \/ Enters(ops)
                  /\ OpsAt(ops, m)
                  /\ m = t.begin \/ m \in Mark(Head1)
                  => IInv'
  BY <1>1, Moves, Zenon
<1>3. /\ OpAt(Tok, t.begin) /\ OpAt(Expect(Name), t.begin) /\ OpAt(Expect(":"), t.begin)
      /\ OpAt(Embed(FALSE), t.begin) /\ OpAt(<<"comma">>, t.begin) /\ OpAt(<<"fields">>, t.begin)
  BY PlainOps
<1>4. /\ OpsAt(<<Tok>>, t.begin) /\ OpsAt(<<>>, t.begin)
      /\ OpsAt(<<Expect(Name), Expect(":"), Embed(FALSE), <<"comma">>, <<"fields">>>>, t.begin)
  BY <1>3, OpsShort
<1> QED
  BY <1>2, <1>4 DEF Structbody

LEMMA SubexprKeeps ==
    ASSUME IInv, Subexpr
    PROVE  IInv'
<1>1. Parsing /\ Head1[1] # "next"
  BY DEF Subexpr, At
<1>2. t # NoToken /\ IsToken(t)
  BY <1>1, NotFirst
<1>3. \A ops, m : /\ Becomes(ops) \/ Enters(ops)
                  /\ OpsAt(ops, m)
                  /\ m = t.begin \/ m \in Mark(Head1)
                  => IInv'
  BY <1>1, Moves, Zenon
<1>4. /\ \A x : OpAt(<<"operand", t, x>>, t.begin) /\ OpAt(<<"binary", t, x>>, t.begin)
      /\ OpAt(Tok, t.begin) /\ OpAt(<<"simple">>, t.begin)
  BY <1>2, TokenOps, PlainOps
<1>5. /\ OpsAt(<<Tok, <<"operand", t, Head1[2]>>>>, t.begin)
      /\ OpsAt(<<<<"simple">>, <<"binary", t, Head1[2]>>>>, t.begin)
  BY <1>4, OpsShort
<1> QED
  BY <1>3, <1>5 DEF Subexpr

LEMMA ConstructorKeeps ==
    ASSUME IInv, Constructor
    PROVE  IInv'
<1>1. Parsing /\ Head1[1] # "next"
  BY DEF Constructor, At
<1>2. \A ops, m : /\ Becomes(ops) \/ Enters(ops)
                  /\ OpsAt(ops, m)
                  /\ m = t.begin \/ m \in Mark(Head1)
                  => IInv'
  BY <1>1, Moves, Zenon
<1>3. /\ OpAt(Tok, t.begin) /\ OpAt(Look, t.begin) /\ OpAt(Sub(0), t.begin)
      /\ OpAt(Expect("}"), t.begin) /\ OpAt(<<"field">>, t.begin) /\ OpAt(<<"sep">>, t.begin)
      /\ OpAt(<<"items">>, t.begin)
  BY PlainOps
<1>4. /\ OpsAt(<<Tok>>, t.begin) /\ OpsAt(<<Look, <<"field">>, <<"sep">>>>, t.begin)
      /\ OpsAt(<<Sub(0), <<"sep">>>>, t.begin) /\ OpsAt(<<Tok, Tok, Sub(0)>>, t.begin)
      /\ OpsAt(<<Sub(0)>>, t.begin) /\ OpsAt(<<Tok, <<"items">>>>, t.begin)
      /\ OpsAt(<<Expect("}")>>, t.begin)
  BY <1>3, OpsShort
<1>5. CASE At("items")
  BY <1>2, <1>4, <1>5 DEF Constructor, At
<1>6. CASE At("field")
  BY <1>2, <1>4, <1>6 DEF Constructor, At
<1>7. CASE At("sep")
  BY <1>2, <1>4, <1>7 DEF Constructor, At
<1> QED
  BY <1>5, <1>6, <1>7 DEF Constructor

LEMMA ArgsKeeps ==
    ASSUME IInv, Args
    PROVE  IInv'
<1>1. Parsing /\ Head1[1] # "next"
  BY DEF Args, At
<1>2. \A ops, m : /\ Becomes(ops) \/ Enters(ops)
                  /\ OpsAt(ops, m)
                  /\ m = t.begin \/ m \in Mark(Head1)
                  => IInv'
  BY <1>1, Moves, Zenon
<1>3. OpsAt(<<Tok>>, t.begin) /\ OpsAt(<<Sub(0), Expect(")")>>, t.begin)
  BY PlainOps, OpsShort
<1> QED
  BY <1>2, <1>3 DEF Args

LEMMA OpsJoin ==
    ASSUME NEW p, NEW q, NEW m, OpsAt(p, m), OpsAt(q, m)
    PROVE  OpsAt(p \o q, m)
<1>1. IsSeq(p) /\ IsSeq(q) /\ Len(p) \in Nat /\ Len(q) \in Nat
  BY SeqLength DEF OpsAt
<1>2. /\ IsSeq(p \o q) /\ Len(p \o q) = Len(p) + Len(q)
      /\ \A i \in 1 .. Len(p) : (p \o q)[i] = p[i]
      /\ \A i \in 1 .. Len(q) : (p \o q)[Len(p) + i] = q[i]
  BY <1>1, SeqJoin
<1>3. ASSUME NEW i \in 1 .. Len(p) + Len(q)
      PROVE  OpAt((p \o q)[i], m)
  <2>1. CASE i <= Len(p)
    BY <1>1, <1>2, <2>1 DEF OpsAt
  <2>2. CASE i > Len(p)
    <3>1. i - Len(p) \in 1 .. Len(q) /\ Len(p) + (i - Len(p)) = i
      BY <1>1, <2>2
    <3>2. (p \o q)[i] = q[i - Len(p)]
      BY <1>2, <3>1
    <3> QED
      BY <3>1, <3>2 DEF OpsAt
  <2> QED
    BY <1>1, <2>1, <2>2
<1> QED
  BY <1>2, <1>3 DEF OpsAt

LEMMA SimpleKeeps ==
    ASSUME IInv, Simple
    PROVE  IInv'
<1>1. Parsing /\ Head1[1] # "next"
  BY DEF Simple, At
<1>2. t # NoToken /\ IsToken(t)
  BY <1>1, NotFirst
<1>3. /\ \A ops, m : /\ Becomes(ops) \/ Enters(ops)
                     /\ OpsAt(ops, m)
                     /\ m = t.begin \/ m \in Mark(Head1)
                     => IInv'
      /\ SyntaxError => IInv'
  BY <1>1, Moves, Zenon
<1>4. IsSeq(<<Wrote("terra.anonstruct("), Wrote(")")>>)
      /\ IsSeq(<<Wrote("(terra.definequote("), Wrote("))")>>)
  BY SeqShort
<1>5. /\ \A x : OpAt(Expect(x), t.begin) /\ OpAt(Sub(x), t.begin) /\ OpAt(Embed(x), t.begin)
      /\ OpAt(Tok, t.begin) /\ OpAt(<<"items">>, t.begin) /\ OpAt(<<"fields">>, t.begin)
      /\ OpAt(<<"primary">>, t.begin) /\ OpAt(<<"suffix">>, t.begin)
  BY PlainOps
<1>6. CASE At("simple")
  <2>1. /\ OpAt(Quote(t), t.begin) /\ OpAt(<<"language", t, FALSE>>, t.begin)
        /\ OpAt(Written(t, <<Wrote("terra.anonstruct("), Wrote(")")>>, 1), t.begin)
    BY <1>2, <1>4, TokenOps DEF Quote, Written
  <2>2. /\ OpsAt(<<Tok>>, t.begin) /\ OpsAt(<<Tok, <<"items">>>>, t.begin)
        /\ OpsAt(<<Quote(t)>>, t.begin) /\ OpsAt(<<<<"language", t, FALSE>>>>, t.begin)
        /\ OpsAt(<<Tok, Expect("{"), <<"fields">>,
                   Written(t, <<Wrote("terra.anonstruct("), Wrote(")")>>, 1)>>, t.begin)
        /\ OpsAt(<<<<"primary">>>>, t.begin)
    BY <1>5, <2>1, OpsShort
  <2> QED
    BY <1>3, <1>6, <2>2 DEF Simple, At
<1>7. CASE At("quote")
  <2> DEFINE tok == Head1[2]
  <2> DEFINE m == tok.begin
  <2>1. IsToken(tok) /\ m \in Mark(Head1)
    BY <1>1, <1>7, HandedOn DEF At, Marked
  <2> HIDE DEF tok
  <2>2. OpAt(Definequote(tok), m) /\ OpAt(Tok, m) /\ OpAt(Sub(0), m)
    BY <1>4, <2>1, TokenOps, PlainOps DEF Definequote, Written
  <2>3. OpsAt(<<Sub(0), Definequote(tok)>>, m) /\ OpsAt(<<Tok>>, m) /\ OpsAt(<<>>, m)
    BY <2>2, OpsShort
  <2>4. OpsAt(IF t.token = "quote" THEN <<Tok>> ELSE <<>>, m)
    BY <2>3
  <2>5. OpsAt((IF t.token = "quote" THEN <<Tok>> ELSE <<>>) \o <<Sub(0), Definequote(tok)>>, m)
    BY <2>3, <2>4, OpsJoin, Zenon
  <2> HIDE DEF m
  <2>6. /\ \A ops : Enters(ops) /\ OpsAt(ops, m) => IInv'
        /\ SyntaxError => IInv'
    BY <1>3, <2>1
  <2> QED
    BY <1>7, <2>5, <2>6 DEF Simple, At, tok
<1>8. CASE At("primary")
  <2>1. /\ OpsAt(<<Tok, <<"suffix">>>>, t.begin)
        /\ OpsAt(<<Tok, Sub(0), Expect(")"), <<"suffix">>>>, t.begin)
        /\ OpsAt(<<Tok, Embed(FALSE), Expect("]"), <<"suffix">>>>, t.begin)
    BY <1>5, OpsShort
  <2> QED
    BY <1>3, <1>8, <2>1 DEF Simple, At
<1> QED
  BY <1>6, <1>7, <1>8 DEF Simple

LEMMA EmbeddedKeeps ==
    ASSUME IInv, Embedded
    PROVE  IInv'
<1>1. Parsing /\ Head1[1] # "next"
  BY DEF Embedded, At
<1>2. t # NoToken /\ IsToken(t)
  BY <1>1, NotFirst
<1>3. Quiet
  BY DEF Embedded, Quiet, input, lines, tokens
<1>4. /\ OpAt(Quote(t), t.begin) /\ OpAt(Sub(0), t.begin)
      /\ OpAt(<<"embedded", t, inTerra>>, t.begin)
  BY <1>2, TokenOps, PlainOps DEF Quote
<1>5. /\ OpsAt(<<IF Head1[2] THEN Quote(t) ELSE Sub(0), <<"embedded", t, inTerra>>>>, t.begin)
      /\ OpsAt(<<>>, t.begin)
  BY <1>4, OpsShort
<1>6. \/ Put(<<IF Head1[2] THEN Quote(t) ELSE Sub(0), <<"embedded", t, inTerra>>>>)
      \/ Put(<<>>) \/ todo' = <<>>
  BY DEF Embedded
<1> QED
  BY <1>1, <1>2, <1>3, <1>5, <1>6, Putting, Stopping

LEMMA LanguageKeeps ==
    ASSUME IInv, Language
    PROVE  IInv'
<1>1. Parsing /\ Head1[1] # "next" /\ Head1[1] \in Marked
  BY DEF Language, At, Marked
<1>2. \A ops, m : /\ Becomes(ops) \/ Enters(ops)
                  /\ OpsAt(ops, m)
                  /\ m = t.begin \/ m \in Mark(Head1)
                  => IInv'
  BY <1>1, Moves, Zenon
<1> DEFINE tok == Head1[2]
<1> DEFINE m == tok.begin
<1>3. IsToken(tok) /\ m \in Mark(Head1)
  BY <1>1, HandedOn
<1>4. IsSeq(<<Wrote("_G.terra._trees[]("), Wrote(")")>>)
  BY SeqShort
<1> HIDE DEF tok
<1>5. /\ \A x : OpAt(<<"language", tok, x>>, m) /\ OpAt(Embed(x), m)
      /\ OpAt(Tok, m) /\ OpAt(Look, m)
      /\ OpAt(Written(tok, <<Wrote("_G.terra._trees[]("), Wrote(")")>>, 1), m)
  BY <1>3, <1>4, TokenOps, PlainOps DEF Written
<1>6. /\ OpsAt(<<Tok, <<"language", tok, FALSE>>>>, m)
      /\ OpsAt(<<Look, <<"language", tok, TRUE>>>>, m)
      /\ \A x : OpsAt(<<Embed(x), <<"language", tok, FALSE>>>>, m)
      /\ OpsAt(<<Written(tok, <<Wrote("_G.terra._trees[]("), Wrote(")")>>, 1)>>, m)
  BY <1>5, OpsShort
<1> HIDE DEF m
<1>7. \A ops : Becomes(ops) /\ OpsAt(ops, m) => IInv'
  BY <1>2, <1>3
<1> QED
  BY <1>6, <1>7 DEF Language, tok

LEMMA LooksKeeps ==
    ASSUME IInv, Looks
    PROVE  IInv'
<1>1. /\ Parsing /\ Head1[1] # "next" /\ lx = Idle /\ Put(<<>>)
      /\ UNCHANGED <<source, current, out, linenumber, t, lookahead>>
      /\ lx' = lx \/ Begin("lookahead")
  BY DEF Looks, At, Parsing, LuaXLookahead, input, lines, tokens
<1>2. t # NoToken
  BY <1>1, NotFirst
<1>3. CASE lx' = lx
  <2>1. OpsAt(<<>>, t.begin) /\ Quiet
    BY <1>1, <1>3, OpsShort DEF Quiet
  <2> QED
    BY <1>1, <1>2, <2>1, Putting
<1>4. CASE Begin("lookahead")
  <2>1. LxOK'
    BY <1>1, <1>4, Beginning
  <2>2. BufferOK' /\ TokensOK' /\ EarlyOK'
    BY <1>1, <1>2 DEF IInv, BufferOK, TokensOK, Held, EarlyOK
  <2>3. t.begin \in Nat /\ t.begin \in 0 .. t.begin /\ t'.begin = t.begin
    BY <1>1, <1>2 DEF IInv, TokensOK, Held, InPlace
  <2>4. \A i \in 1 .. Len(Tail(todo)) : \A y \in Mark(Tail(todo)[i]) : y <= t.begin
    <3>1. \A i \in 1 .. Len(Tail(todo)) : Mark(Tail(todo)[i]) \subseteq 0 .. t.begin
      BY <1>1, Rest DEF IInv, Parsing
    <3> QED
      BY <2>3, <3>1
  <2>5. TodoOK'
    <3>1. IsSeq(<<>>) /\ Len(<<>>) = 0
      BY SeqShort
    <3> QED
      BY <1>1, <2>3, <2>4, <3>1, InFront DEF IInv, Parsing
  <2> QED
    BY <2>1, <2>2, <2>5 DEF IInv
<1> QED
  BY <1>1, <1>3, <1>4

LEMMA EndsKeep ==
    ASSUME IInv, Unexpected \/ Finish
    PROVE  IInv'
<1>1. Parsing /\ Head1[1] # "next"
  BY DEF Unexpected, Finish, At
<1>2. Quiet /\ todo' = <<>>
  BY DEF Unexpected, Finish, SyntaxError, Quiet, input, lines, tokens
<1> QED
  BY <1>1, <1>2, NotFirst, Stopping
-----------------------------------------------------------------------------
(* What the parser writes.                                                 *)
LEMMA Counted ==
    ASSUME NEW s, IsSeq(s), NEW T, T \subseteq DOMAIN s
    PROVE  Cardinality(T) \in Nat
<1>1. Len(s) \in Nat /\ T \subseteq 1 .. Len(s)
  BY SeqLength
<1>2. IsFiniteSet(1 .. Len(s))
  BY <1>1, FS_Interval
<1> QED
  BY <1>1, <1>2, FS_Subset, FS_CardinalityType

White == Breaks \cup Blanks

BreaksIn(s) == Cardinality({i \in DOMAIN s : s[i].c \in Breaks})

(* luaX_patchbegin skips from a token to where the buffer has text.        *)
LEMMA SkippedThere ==
    ASSUME IsSeq(out), NEW tok, IsToken(tok), tok.begin \in 0 .. Len(out)
    PROVE  /\ IsToken(Skipped(tok)) /\ Skipped(tok).begin \in tok.begin .. Len(out)
           /\ \A i \in tok.begin + 1 .. Skipped(tok).begin : out[i].c \in White
           /\ Skipped(tok).linebegin =
                  tok.linebegin + BreaksIn(SubSeq(out, tok.begin + 1, Skipped(tok).begin))
<1> DEFINE b == tok.begin
<1> DEFINE m == Len(out) - b
<1> DEFINE Ok(n) == /\ \A i \in 1 .. n : out[b + i].c \in White
                    /\ b + n < Len(out) => out[b + n + 1].c \notin White
<1>1. Len(out) \in Nat
  BY SeqLength
<1>2. b \in Nat /\ m \in Nat /\ b + m = Len(out)
  BY <1>1
<1>3. \E n \in 0 .. m : Ok(n)
  <2> DEFINE T == {i \in 1 .. m : out[b + i].c \notin White}
  <2>1. CASE T = {}
    <3>1. Ok(m)
      <4>1. \A i \in 1 .. m : out[b + i].c \in White
        BY <2>1
      <4>2. ~(b + m < Len(out))
        BY <1>1, <1>2
      <4> QED
        BY <4>1, <4>2
    <3> QED
      BY <1>2, <3>1
  <2>2. CASE T # {}
    <3>1. PICK x \in T : \A y \in T : x <= y
      <4>1. T \subseteq Nat
        BY <1>2
      <4> HIDE DEF T
      <4> QED
        BY <2>2, <4>1, NatMin
    <3>2. x \in 1 .. m /\ out[b + x].c \notin White
      BY <3>1
    <3>3. x - 1 \in 0 .. m /\ b + (x - 1) + 1 = b + x
      BY <1>2, <3>2
    <3>4. \A i \in 1 .. x - 1 : out[b + i].c \in White
      <4> SUFFICES ASSUME NEW i \in 1 .. x - 1 PROVE out[b + i].c \in White
        OBVIOUS
      <4>1. i \in 1 .. m /\ ~(x <= i)
        BY <1>2, <3>2
      <4>2. i \notin T
        BY <3>1, <4>1
      <4> QED
        BY <4>1, <4>2
    <3>5. Ok(x - 1)
      BY <3>2, <3>3, <3>4
    <3> QED
      BY <3>3, <3>5
  <2> QED
    BY <2>1, <2>2
<1> DEFINE n == CHOOSE n \in 0 .. m : Ok(n)
<1>4. n \in 0 .. m
  BY <1>3
<1>10. \A i \in 1 .. n : out[b + i].c \in White
  <2>1. Ok(n)
    BY <1>3
  <2> HIDE DEF n
  <2> QED
    BY <2>1
<1> DEFINE ws == SubSeq(out, b + 1, b + n)
<1> DEFINE r == [tok EXCEPT !.begin = @ + n,
                            !.linebegin = @ + Cardinality({i \in DOMAIN ws : ws[i].c \in Breaks})]
<1>5. Skipped(tok) = r
  BY DEF Skipped, White
<1> HIDE DEF n, m, Ok
<1>6. Cardinality({i \in DOMAIN ws : ws[i].c \in Breaks}) \in Nat
  <2>1. b + 1 \in Int /\ b + n \in Int
    BY <1>2, <1>4 DEF m
  <2>2. IsSeq(ws)
    BY <2>1, SeqPart
  <2> HIDE DEF ws
  <2> QED
    BY <2>2, Counted
<1> HIDE DEF ws
<1>7. /\ DOMAIN r = DOMAIN tok /\ r.begin = b + n
      /\ r.linebegin = tok.linebegin + Cardinality({i \in DOMAIN ws : ws[i].c \in Breaks})
  BY DEF IsToken
<1> HIDE DEF r
<1>8. r.begin \in b .. Len(out)
  BY <1>1, <1>2, <1>4, <1>7 DEF m
<1>9. IsToken(r)
  BY <1>2, <1>4, <1>6, <1>7 DEF IsToken, m
<1>11. ASSUME NEW i \in b + 1 .. r.begin
       PROVE  out[i].c \in White
  <2>1. i - b \in 1 .. n /\ b + (i - b) = i
    BY <1>2, <1>4, <1>7, SMTT(30) DEF m
  <2> QED
    BY <1>10, <2>1
<1>12. r.linebegin = tok.linebegin + BreaksIn(SubSeq(out, b + 1, r.begin))
  BY <1>7 DEF BreaksIn, ws
<1> QED
  BY <1>5, <1>8, <1>9, <1>11, <1>12

LEMMA Texts ==
    ASSUME NEW s, IsSeq(s)
    PROVE  IsSeq(Copy(s)) /\ IsSeq(Trimmed(s)) /\ Newlines(s) \in Nat
<1>1. Len(s) \in Nat /\ DOMAIN s = 1 .. Len(s)
  BY SeqLength
<1>2. IsSeq(Copy(s))
  <2>1. DOMAIN Copy(s) = 1 .. Len(s) /\ Copy(s) = [i \in DOMAIN Copy(s) |-> Copy(s)[i]]
    BY <1>1 DEF Copy
  <2> QED
    BY <1>1, <2>1, SeqMade
<1>3. IsSeq(Trimmed(s))
  <2> DEFINE T == {i \in DOMAIN s : \A j \in 1 .. i : s[j].c \in Breaks \cup Blanks}
  <2>1. Cardinality(T) \in Nat
    <3>1. T \subseteq DOMAIN s
      OBVIOUS
    <3> HIDE DEF T
    <3> QED
      BY <3>1, Counted
  <2>2. Trimmed(s) = SubSeq(s, Cardinality(T) + 1, Len(s))
    BY DEF Trimmed
  <2> HIDE DEF T
  <2> QED
    BY <1>1, <2>1, <2>2, SeqPart
<1>4. Newlines(s) \in Nat
  BY Counted DEF Newlines
<1> QED
  BY <1>2, <1>3, <1>4

LEMMA Repeated ==
    ASSUME NEW n \in Nat, NEW cell
    PROVE  IsSeq(Times(n, cell))
<1>1. /\ DOMAIN Times(n, cell) = 1 .. n
      /\ Times(n, cell) = [i \in DOMAIN Times(n, cell) |-> Times(n, cell)[i]]
  BY DEF Times
<1> QED
  BY <1>1, SeqMade

LEMMA OutputThere ==
    ASSUME IsSeq(out), NEW tok, tok.begin \in Int, t.begin \in Int
    PROVE  IsSeq(Output(tok))
<1>1. tok.begin + 1 \in Int
  OBVIOUS
<1> QED
  BY <1>1, SeqPart DEF Output

(* A text takes the place of what there is from a token on, which is where *)
(* the operation begins that the first one becomes.                        *)
LEMMA Patching ==
    ASSUME IInv, Parsing, Head1[1] \in Marked, NEW text, IsSeq(text),
           Patch(Head1[2], text), UNCHANGED <<source, current, linenumber, lx>>,
           NEW ops, Put(ops), OpsAt(ops, Skipped(Head1[2]).begin)
    PROVE  IInv'
<1> DEFINE tok == Head1[2]
<1> DEFINE b == Skipped(tok)
<1>1. /\ IsToken(tok) /\ tok.begin \in Mark(Head1) /\ t # NoToken /\ IsToken(t)
  BY HandedOn
<1>2. /\ Mark(Head1) \subseteq 0 .. t.begin
      /\ \A i \in 1 .. Len(Tail(todo)) :
            /\ Mark(Tail(todo)[i]) \subseteq 0 .. t.begin
            /\ \A x \in Mark(Head1), y \in Mark(Tail(todo)[i]) : y <= x
  BY Rest DEF IInv, Parsing
<1>3. t.begin \in 0 .. Len(out) /\ Len(out) \in Nat /\ IsSeq(out)
  BY <1>1, TokenThere DEF IInv, BufferOK
<1>4. tok.begin \in 0 .. Len(out)
  BY <1>1, <1>2, <1>3
<1> HIDE DEF tok
<1>5. IsToken(b) /\ b.begin \in tok.begin .. Len(out)
  BY <1>1, <1>3, <1>4, SkippedThere
<1> DEFINE last == b.linebegin + Newlines(text)
<1> DEFINE n == IF t.linebegin > last THEN t.linebegin - last ELSE 0
<1> DEFINE kept == SubSeq(out, 1, b.begin)
<1> DEFINE upto == kept \o text \o Times(n, Wrote("\n"))
<1>6. /\ out' = upto \o SubSeq(out, t.begin + 1, Len(out))
      /\ t' = Shifted(t, Len(upto), t.begin)
      /\ lookahead' = Shifted(lookahead, Len(upto), t.begin)
  BY Zenon DEF Patch, tok
<1> HIDE DEF b
<1>7. n \in Nat
  <2>1. Newlines(text) \in Nat /\ b.linebegin \in Nat /\ t.linebegin \in Nat
    BY <1>1, <1>5, Texts DEF IsToken
  <2> QED
    BY <2>1
<1> HIDE DEF n
<1>8. IsSeq(kept) /\ Len(kept) = b.begin /\ b.begin \in Nat
  <2>1. b.begin \in 0 .. Len(out) /\ b.begin \in Nat
    BY <1>3, <1>4, <1>5
  <2>2. IsSeq(SubSeq(out, 1, b.begin)) /\ Len(SubSeq(out, 1, b.begin)) = b.begin
    BY <1>3, <2>1, SeqStart
  <2> QED
    BY <2>1, <2>2
<1> HIDE DEF kept
<1>9. IsSeq(upto) /\ Len(upto) \in Nat /\ b.begin <= Len(upto)
  <2>1. IsSeq(kept \o text) /\ Len(kept \o text) = b.begin + Len(text)
    BY <1>8, SeqJoin
  <2>2. IsSeq(Times(n, Wrote("\n")))
    BY <1>7, Repeated
  <2>3. IsSeq(upto) /\ Len(upto) = Len(kept \o text) + Len(Times(n, Wrote("\n")))
    BY <2>1, <2>2, SeqJoin
  <2>4. Len(text) \in Nat /\ Len(Times(n, Wrote("\n"))) \in Nat
    BY <2>2, SeqLength
  <2> HIDE DEF upto
  <2> QED
    BY <1>8, <2>1, <2>3, <2>4
<1> HIDE DEF upto
<1>10. /\ BufferOK' /\ TokensOK' /\ t' # NoToken /\ t'.begin = Len(upto)
  BY <1>1, <1>6, <1>9, Replaced DEF IInv, Shifted
<1>11. LxOK' /\ EarlyOK'
  BY <1>10 DEF LxOK, EarlyOK, Parsing
<1>12. TodoOK'
  <2>1. b.begin \in 0 .. Len(upto)
    BY <1>8, <1>9
  <2>2. \A i \in 1 .. Len(Tail(todo)) : \A y \in Mark(Tail(todo)[i]) : y <= b.begin
    <3> SUFFICES ASSUME NEW i \in 1 .. Len(Tail(todo)), NEW y \in Mark(Tail(todo)[i])
                 PROVE  y <= b.begin
      OBVIOUS
    <3>1. y <= tok.begin
      BY <1>1, <1>2
    <3>2. y \in 0 .. t.begin
      BY <1>2
    <3>3. y \in Nat /\ tok.begin \in Nat /\ b.begin \in Nat /\ tok.begin <= b.begin
      BY <1>3, <1>4, <1>5, <3>2
    <3> QED
      BY <3>1, <3>3
  <2>3. OpsAt(ops, b.begin)
    BY DEF b, tok
  <2> QED
    BY <1>9, <1>10, <2>1, <2>2, <2>3, InFront DEF IInv, Parsing, OpsAt, OpAt
<1> QED
  BY <1>10, <1>11, <1>12 DEF IInv

LEMMA WritesKeeps ==
    ASSUME IInv, Writes
    PROVE  IInv'
<1>1. /\ Parsing /\ Head1[1] = "written" /\ Head1[1] \in Marked
      /\ Patch(Head1[2], Head1[3]) /\ Put(<<>>)
      /\ UNCHANGED <<source, current, linenumber, lx>>
  BY DEF Writes, At, Marked, input, lines
<1>2. IsSeq(Head1[3])
  BY <1>1, HandedOn
<1>3. OpsAt(<<>>, Skipped(Head1[2]).begin)
  BY OpsShort
<1> QED
  BY <1>1, <1>2, <1>3, Patching

LEMMA PointerKeeps ==
    ASSUME IInv, Pointer
    PROVE  IInv'
<1>1. Parsing /\ Head1[1] # "next" /\ Head1[1] \in Marked
  BY DEF Pointer, At, Marked
<1> DEFINE tok == Head1[2]
<1>2. /\ IsToken(tok) /\ tok.begin \in Mark(Head1) /\ t # NoToken /\ IsToken(t)
      /\ Head1[1] = "pointer" => Head1[3].begin \in Int
  BY <1>1, HandedOn
<1>3. t.begin \in 0 .. Len(out) /\ Len(out) \in Nat /\ IsSeq(out)
  BY <1>2, TokenThere DEF IInv, BufferOK
<1>4. CASE At("operand")
  <2>1. \A ops, m : /\ Becomes(ops) \/ Enters(ops)
                    /\ OpsAt(ops, m)
                    /\ m = t.begin \/ m \in Mark(Head1)
                    => IInv'
    BY <1>1, Moves, Zenon
  <2>2. OpAt(Sub(Unary), tok.begin) /\ OpAt(<<"pointer", tok, t, Head1[3]>>, tok.begin)
    <3>1. IsToken(tok) /\ t.begin \in Int /\ tok.begin <= t.begin
      BY <1>1, <1>2, <1>3, Rest DEF IInv, Parsing
    <3> HIDE DEF tok
    <3> QED
      BY <3>1, TokenOps, PlainOps
  <2>3. OpsAt(<<Sub(Unary), <<"pointer", tok, t, Head1[3]>>>>, tok.begin)
    BY <2>2, OpsShort
  <2>4. Becomes(<<Sub(Unary), <<"pointer", tok, t, Head1[3]>>>>)
    BY <1>4 DEF Pointer, At
  <2>5. tok.begin \in Mark(Head1)
    BY <1>2
  <2> HIDE DEF tok
  <2> QED
    BY <2>1, <2>3, <2>4, <2>5
<1>5. CASE At("pointer")
  <2> DEFINE text == <<Wrote("terra.types.pointer(")>> \o Copy(Output(Head1[3]))
                       \o <<Wrote(")")>>
  <2> DEFINE ops == <<<<"binary", Skipped(tok), Head1[4]>>>>
  <2>1. /\ Patch(tok, text) /\ Put(ops)
        /\ UNCHANGED <<source, current, linenumber, lx>>
    BY <1>5 DEF Pointer, At, input, lines
  <2>2. IsSeq(text)
    <3>1. IsSeq(Copy(Output(Head1[3])))
      BY <1>2, <1>3, <1>5, OutputThere, Texts DEF At
    <3>2. IsSeq(<<Wrote("terra.types.pointer(")>>) /\ IsSeq(<<Wrote(")")>>)
      BY SeqShort
    <3>3. IsSeq(<<Wrote("terra.types.pointer(")>> \o Copy(Output(Head1[3])))
      BY <3>1, <3>2, SeqJoin
    <3> QED
      BY <3>2, <3>3, SeqJoin
  <2>3. IsToken(Skipped(tok))
    <3>1. tok.begin \in 0 .. Len(out)
      BY <1>1, <1>2, <1>3, Rest DEF IInv, Parsing
    <3> QED
      BY <1>2, <1>3, <3>1, SkippedThere
  <2>4. OpsAt(ops, Skipped(tok).begin)
    BY <2>3, TokenOps, OpsShort
  <2> HIDE DEF text, ops
  <2> QED
    BY <1>1, <2>1, <2>2, <2>4, Patching
<1> QED
  BY <1>4, <1>5 DEF Pointer

LEMMA OperatorsKeeps ==
    ASSUME IInv, Operators
    PROVE  IInv'
<1>1. Parsing /\ Head1[1] # "next" /\ Head1[1] \in Marked
  BY DEF Operators, At, Marked
<1> DEFINE tok == Head1[2]
<1> DEFINE m == tok.begin
<1>2. /\ IsToken(tok) /\ m \in Mark(Head1) /\ t # NoToken /\ IsToken(t)
      /\ Head1[1] \in {"more", "right", "combine"} => IsSeq(Head1[3])
      /\ Head1[1] = "combine" => Head1[4].begin \in Int
  BY <1>1, HandedOn
<1>3. t.begin \in 0 .. Len(out) /\ Len(out) \in Nat /\ IsSeq(out)
  BY <1>2, TokenThere DEF IInv, BufferOK
<1>4. IsSeq(NoText)
  BY SeqShort DEF NoText
<1>5. tok.begin \in Int /\ t.begin \in Int /\ tok.begin <= t.begin
  BY <1>1, <1>2, <1>3, Rest DEF IsToken, IInv, Parsing
<1> HIDE DEF tok
<1>6. \A ops : Becomes(ops) /\ OpsAt(ops, m) => IInv'
  <2>1. \A ops, n : /\ Becomes(ops) \/ Enters(ops)
                    /\ OpsAt(ops, n)
                    /\ n = t.begin \/ n \in Mark(Head1)
                    => IInv'
    BY <1>1, Moves, Zenon
  <2> HIDE DEF m
  <2> QED
    BY <1>2, <2>1
<1>7. CASE At("binary")
  <2> DEFINE text == IF t.token = "->" THEN Trimmed(Output(tok)) ELSE NoText
  <2>1. IsSeq(text)
    <3>1. IsSeq(Trimmed(Output(tok)))
      BY <1>3, <1>5, OutputThere, Texts
    <3> QED
      BY <1>4, <3>1
  <2>2. Becomes(<<<<"more", tok, text, Head1[3]>>>>)
    BY <1>7 DEF Operators, At, tok
  <2> HIDE DEF text
  <2>3. OpsAt(<<<<"more", tok, text, Head1[3]>>>>, m)
    BY <1>2, <2>1, TokenOps, OpsShort
  <2> QED
    BY <1>6, <2>2, <2>3
<1>8. CASE At("more")
  <2>1. \/ Becomes(<<Tok, <<"right", tok, Head1[3], Right[t.token], Head1[4]>>>>)
        \/ Becomes(<<>>)
    BY <1>8 DEF Operators, At, tok
  <2>2. OpAt(Tok, m) /\ OpAt(<<"right", tok, Head1[3], Right[t.token], Head1[4]>>, m)
    BY <1>2, <1>8, TokenOps, PlainOps DEF At
  <2>3. OpsAt(<<Tok, <<"right", tok, Head1[3], Right[t.token], Head1[4]>>>>, m) /\ OpsAt(<<>>, m)
    BY <2>2, OpsShort
  <2> QED
    BY <1>6, <2>1, <2>3
<1>9. CASE At("right")
  <2>1. Becomes(<<Sub(Head1[4]), <<"combine", tok, Head1[3], t, Head1[5]>>>>)
    BY <1>9 DEF Operators, At, tok
  <2>2. OpAt(Sub(Head1[4]), m) /\ OpAt(<<"combine", tok, Head1[3], t, Head1[5]>>, m)
    BY <1>2, <1>5, <1>9, TokenOps, PlainOps DEF At
  <2>3. OpsAt(<<Sub(Head1[4]), <<"combine", tok, Head1[3], t, Head1[5]>>>>, m)
    BY <2>2, OpsShort
  <2> QED
    BY <1>6, <2>1, <2>3
<1>10. CASE At("combine") /\ Head1[3] = NoText
  <2>1. Becomes(<<<<"more", tok, NoText, Head1[5]>>>>)
    BY <1>10 DEF Operators, At, tok
  <2>2. OpsAt(<<<<"more", tok, NoText, Head1[5]>>>>, m)
    BY <1>2, <1>4, TokenOps, OpsShort
  <2> QED
    BY <1>6, <2>1, <2>2
<1>11. CASE At("combine") /\ Head1[3] # NoText
  <2> DEFINE first == <<Wrote("terra.types.funcpointer(")>> \o Copy(Head1[3]) \o <<Wrote(",")>>
  <2> DEFINE text == first \o Copy(Output(Head1[4])) \o <<Wrote(")")>>
  <2> DEFINE ops == <<<<"more", Skipped(tok), NoText, Head1[5]>>>>
  <2>1. /\ Patch(tok, text) /\ Put(ops)
        /\ UNCHANGED <<source, current, linenumber, lx>>
    BY <1>11 DEF Operators, At, input, lines, tok
  <2>2. IsSeq(first)
    <3>1. IsSeq(Copy(Head1[3]))
      BY <1>2, <1>11, Texts DEF At
    <3>2. IsSeq(<<Wrote("terra.types.funcpointer(")>>) /\ IsSeq(<<Wrote(",")>>)
      BY SeqShort
    <3>3. IsSeq(<<Wrote("terra.types.funcpointer(")>> \o Copy(Head1[3]))
      BY <3>1, <3>2, SeqJoin
    <3> QED
      BY <3>2, <3>3, SeqJoin
  <2> HIDE DEF first
  <2>3. IsSeq(text)
    <3>1. IsSeq(Copy(Output(Head1[4])))
      BY <1>2, <1>3, <1>5, <1>11, OutputThere, Texts DEF At
    <3>2. IsSeq(<<Wrote(")")>>)
      BY SeqShort
    <3>3. IsSeq(first \o Copy(Output(Head1[4])))
      BY <2>2, <3>1, SeqJoin
    <3> QED
      BY <3>2, <3>3, SeqJoin
  <2>4. IsToken(Skipped(tok))
    <3>1. Mark(Head1) \subseteq 0 .. t.begin
      BY <1>1, Rest DEF IInv, Parsing
    <3>2. tok.begin \in 0 .. Len(out)
      BY <1>2, <1>3, <3>1
    <3> QED
      BY <1>2, <1>3, <3>2, SkippedThere
  <2>5. OpsAt(ops, Skipped(tok).begin)
    BY <1>4, <2>4, TokenOps, OpsShort
  <2> HIDE DEF text, ops
  <2> QED
    BY <1>1, <2>1, <2>3, <2>5, Patching DEF tok
<1> QED
  BY <1>7, <1>8, <1>9, <1>10, <1>11 DEF Operators

(* A separator goes in front of the current token.                         *)
LEMMA SuffixKeeps ==
    ASSUME IInv, Suffix
    PROVE  IInv'
<1>1. Parsing /\ Head1[1] # "next"
  BY DEF Suffix, At
<1>2. t # NoToken /\ IsToken(t) /\ IsToken(lookahead)
  BY <1>1, NotFirst DEF IInv, TokensOK
<1>3. CASE Insert(Separator) /\ Put(<<>>) /\ UNCHANGED <<input, lines, lx, status, inTerra>>
  <2> DEFINE kept == SubSeq(out, 1, t.begin)
  <2> DEFINE upto == kept \o <<Separator>>
  <2>1. t.begin \in 0 .. Len(out) /\ Len(out) \in Nat /\ IsSeq(out) /\ t.begin \in Nat
    BY <1>2, TokenThere DEF IInv, BufferOK
  <2>2. IsSeq(kept) /\ Len(kept) = t.begin
    BY <2>1, SeqStart
  <2>3. IsSeq(upto) /\ Len(upto) = t.begin + 1
    <3>1. IsSeq(<<Separator>>) /\ Len(<<Separator>>) = 1
      BY SeqShort
    <3> HIDE DEF kept
    <3>2. IsSeq(kept \o <<Separator>>)
          /\ Len(kept \o <<Separator>>) = Len(kept) + Len(<<Separator>>)
      BY <2>2, <3>1, SeqJoin
    <3> QED
      BY <2>2, <3>1, <3>2
  <2>4. out' = upto \o SubSeq(out, t.begin + 1, Len(out))
    BY <1>3 DEF Insert
  <2> HIDE DEF upto
  <2>5. t.begin + 1 = (t.begin + Len(upto)) - t.begin
    BY <2>1, <2>3
  <2>6. lookahead.begin + 1 = (lookahead.begin + Len(upto)) - t.begin
    BY <1>2, <2>1, <2>3 DEF IsToken
  <2>7. /\ t' = [t EXCEPT !.begin = (@ + Len(upto)) - t.begin]
        /\ lookahead' = [lookahead EXCEPT !.begin = (@ + Len(upto)) - t.begin]
    BY <1>3, <2>5, <2>6 DEF Insert
  <2>8. UNCHANGED <<source, current, linenumber, lx>>
    BY <1>3 DEF input, lines
  <2>9. BufferOK' /\ TokensOK' /\ t' # NoToken /\ t'.begin = Len(upto)
    BY <1>2, <2>3, <2>4, <2>7, <2>8, Replaced DEF IInv
  <2>10. LxOK' /\ EarlyOK'
    BY <1>1, <2>8, <2>9 DEF LxOK, EarlyOK, Parsing
  <2>11. TodoOK'
    <3>1. OpsAt(<<>>, t.begin)
      BY OpsShort
    <3>2. \A i \in 1 .. Len(Tail(todo)) : Mark(Tail(todo)[i]) \subseteq 0 .. t.begin
      BY <1>1, Rest DEF IInv, Parsing
    <3>3. \A i \in 1 .. Len(Tail(todo)) : \A y \in Mark(Tail(todo)[i]) : y <= t.begin
      BY <2>1, <3>2
    <3>4. Len(upto) \in Nat /\ t.begin \in 0 .. Len(upto)
      BY <2>1, <2>3
    <3> QED
      BY <1>1, <1>3, <2>9, <3>1, <3>3, <3>4, InFront DEF IInv, Parsing, OpsAt, OpAt
  <2> QED
    BY <2>9, <2>10, <2>11 DEF IInv
<1>4. CASE \/ Becomes(<<Tok, <<"args">>, <<"suffix">>>>) \/ Becomes(<<Quote(t), <<"suffix">>>>)
           \/ Becomes(<<Tok, Sub(0), Expect("]"), <<"suffix">>>>)
           \/ Becomes(<<Tok, <<"items">>, <<"suffix">>>>)
           \/ Becomes(<<Tok, <<"suffix">>>>) \/ Becomes(<<>>)
  <2>1. \A ops, m : /\ Becomes(ops) \/ Enters(ops)
                    /\ OpsAt(ops, m)
                    /\ m = t.begin \/ m \in Mark(Head1)
                    => IInv'
    BY <1>1, Moves, Zenon
  <2>2. /\ \A x : OpAt(Expect(x), t.begin) /\ OpAt(Sub(x), t.begin)
        /\ OpAt(Tok, t.begin) /\ OpAt(<<"args">>, t.begin) /\ OpAt(<<"suffix">>, t.begin)
        /\ OpAt(<<"items">>, t.begin) /\ OpAt(Quote(t), t.begin)
    BY <1>2, PlainOps, TokenOps DEF Quote
  <2>3. /\ OpsAt(<<Tok, <<"args">>, <<"suffix">>>>, t.begin)
        /\ OpsAt(<<Quote(t), <<"suffix">>>>, t.begin)
        /\ OpsAt(<<Tok, Sub(0), Expect("]"), <<"suffix">>>>, t.begin)
        /\ OpsAt(<<Tok, <<"items">>, <<"suffix">>>>, t.begin)
        /\ OpsAt(<<Tok, <<"suffix">>>>, t.begin) /\ OpsAt(<<>>, t.begin)
    BY <2>2, OpsShort
  <2> QED
    BY <1>4, <2>1, <2>3
<1> QED
  BY <1>3, <1>4, Zenon DEF Suffix
-----------------------------------------------------------------------------
(* Every step keeps the invariant.                                         *)
LEMMA Keeps ==
    ASSUME IInv, [Next]_vars
    PROVE  IInv'
<1>1. CASE Lexes
  <2>1. lx # Idle /\ (GoesOn \/ Ends \/ EndOfText \/ GivesUp)
    BY <1>1, LexStep
  <2> QED
    BY <2>1, GoingOn, Ending, EndingText, GivingUp, Zenon
<1>2. CASE Nexts \/ Unexpected \/ Looks \/ Writes \/ Embedded \/ Language \/ Finish
  BY <1>2, NextsKeeps, EndsKeep, LooksKeeps, WritesKeeps, EmbeddedKeeps, LanguageKeeps, Zenon
<1>3. CASE Statement \/ LocalStat \/ Terrastats \/ Structbody
  BY <1>3, StatementKeeps, LocalStatKeeps, TerrastatsKeeps, StructbodyKeeps, Zenon
<1>4. CASE Subexpr \/ Pointer \/ Operators \/ Simple \/ Constructor \/ Suffix \/ Args
  BY <1>4, SubexprKeeps, PointerKeeps, OperatorsKeeps, SimpleKeeps, ConstructorKeeps,
     SuffixKeeps, ArgsKeeps, Zenon
<1>5. CASE UNCHANGED vars
  BY <1>5 DEF vars, input, lines, tokens, IInv, BufferOK, TokensOK, LxOK, TodoOK, EarlyOK,
              Held, Reading
<1> QED
  BY <1>1, <1>2, <1>3, <1>4, <1>5 DEF Next, Parse

LEMMA Begins == Init => IInv
<1> SUFFICES ASSUME Init PROVE IInv
  OBVIOUS
<1>1. /\ t = NoToken /\ lookahead = NoToken /\ lx = Idle /\ linenumber = 1
      /\ todo = <<Tok, <<"stats">>>> /\ current = source[1]
      /\ out = <<[c |-> source[1], at |-> 1, copied |-> FALSE]>>
  BY DEF Init, LexInit
<1>2. \E c : source = <<c>>
  BY DEF Init, LexInit
<1>3. /\ IsSeq(source) /\ Len(source) = 1 /\ IsSeq(out) /\ Len(out) = 1
      /\ IsSeq(todo) /\ Len(todo) = 2
  BY <1>1, <1>2, SeqShort
<1>4. InPlace(out, source, Len(out) - 1, Len(source))
  <2>1. out[1] = Cell(source, 1)
    BY <1>1 DEF Cell
  <2> QED
    BY <1>3, <2>1 DEF InPlace
<1>5. BufferOK
  BY <1>1, <1>3, <1>4 DEF BufferOK
<1>6. TokensOK
  BY <1>1 DEF TokensOK, IsToken, NoToken, EOS
<1>7. LxOK /\ EarlyOK
  BY <1>1 DEF LxOK, EarlyOK, NoToken, EOS
<1>8. TodoOK
  <2>1. \A i \in 1 .. Len(todo) : todo[i] = Tok \/ todo[i] = <<"stats">>
    BY <1>1, <1>3
  <2>2. OpAt(Tok, 0) /\ OpAt(<<"stats">>, 0) /\ Mark(Tok) = {} /\ Mark(<<"stats">>) = {}
    BY PlainOps DEF Mark, Marked, Tok
  <2>3. \A i \in 1 .. Len(todo) : OpOK(todo[i]) /\ Mark(todo[i]) = {}
    BY <2>1, <2>2 DEF OpAt
  <2> QED
    BY <1>3, <2>3 DEF TodoOK
<1> QED
  BY <1>5, <1>6, <1>7, <1>8 DEF IInv

(* The buffer, from a token that is in place on, is what has been read.    *)
LEMMA PlaceIsText ==
    ASSUME IsSeq(out), IsSeq(source), NEW tok, InPlace(out, source, tok.begin, tok.from)
    PROVE  Unread(tok)
<1> DEFINE b == tok.begin
<1> DEFINE f == tok.from
<1> DEFINE m == Len(source) - f + 1
<1>1. /\ Len(out) \in Nat /\ Len(source) \in Nat /\ b \in Nat /\ f \in 1 .. Len(source) + 1
      /\ Len(out) - b = Len(source) + 1 - f
      /\ \A i \in f .. Len(source) : out[b + 1 + (i - f)] = Cell(source, i)
  BY SeqLength DEF InPlace
<1>2. Unread(tok) <=> SubSeq(out, b + 1, Len(out)) = [i \in 1 .. m |-> Read(f + i - 1)]
  BY DEF Unread
<1> HIDE DEF b, f
<1>3. /\ b + 1 \in 1 .. Len(out) + 1 /\ Len(out) \in (b + 1) - 1 .. Len(out)
      /\ 1 + Len(out) - (b + 1) = m /\ m \in Nat
  BY <1>1
<1> DEFINE r == SubSeq(out, b + 1, Len(out))
<1>4. r = [i \in 1 .. m |-> out[i + (b + 1) - 1]]
  <2>1. r = [i \in 1 .. (1 + Len(out) - (b + 1)) |-> out[i + (b + 1) - 1]]
    BY <1>1 DEF IsSeq
  <2> QED
    BY <1>3, <2>1
<1>5. ASSUME NEW i \in 1 .. m
      PROVE  out[i + (b + 1) - 1] = Read(f + i - 1)
  <2>1. f + i - 1 \in f .. Len(source) /\ b + 1 + ((f + i - 1) - f) = i + (b + 1) - 1
    BY <1>1
  <2> HIDE DEF m
  <2>2. out[b + 1 + ((f + i - 1) - f)] = Cell(source, f + i - 1)
    BY <1>1, <2>1
  <2>3. out[i + (b + 1) - 1] = Cell(source, f + i - 1)
    BY <2>1, <2>2
  <2> QED
    BY <2>3 DEF Cell, Read
<1> QED
  BY <1>2, <1>4, <1>5

(* Tokens stay where they are noted to be: what the parser has not yet     *)
(* consumed is in the buffer as it was read, behind whatever was replaced  *)
(* in front of it (luaX_patchbegin, luaX_patchend and                      *)
(* luaX_insertbeforecurrenttoken).                                         *)
THEOREM TokensStay == Spec => []TokenInPlace
<1>1. Init => IInv
  BY Begins
<1>2. IInv /\ [Next]_vars => IInv'
  BY Keeps
<1>3. IInv => TokenInPlace
  <2> SUFFICES ASSUME IInv PROVE TokenInPlace
    OBVIOUS
  <2>1. IsSeq(out) /\ IsSeq(source)
    BY DEF IInv, BufferOK
  <2>2. /\ t # NoToken => InPlace(out, source, t.begin, t.from)
        /\ lookahead.token # EOS => InPlace(out, source, lookahead.begin, lookahead.from)
    BY DEF IInv, TokensOK, Held
  <2> QED
    BY <2>1, <2>2, PlaceIsText DEF TokenInPlace
<1> QED
  BY <1>1, <1>2, <1>3, PTL DEF Spec
-----------------------------------------------------------------------------
(* The lexer and white space: whether llex has seen a character of its     *)
(* token, or is still in front of it.                                      *)
Read1 == \E c \in Chars : NextChar(c)
Still == UNCHANGED <<source, current, out>>
AtStart == lx.mode = "start" \/ (lx.mode \in {"break", "break2"} /\ lx.back = "start")
Solid == current \notin White /\ current # EOZ
InWord == lx.mode = "word" /\ current \in Letters \cup {"z"}

Leaves == GoesOn /\ Read1 /\ (AtStart' \/ ~AtStart \/ Solid)
Stays == GoesOn /\ Still /\ (AtStart' \/ (~AtStart /\ ~InWord) \/ InWord')
Takes == Ends /\ Read1 /\ (~AtStart \/ Solid)
Drops == Ends /\ Still /\ ~AtStart /\ ~InWord

(* A step that reads or not, and goes on or returns.                       *)
LEMMA LexBlocks ==
    ASSUME IInv, lx # Idle
    PROVE  /\ \A m : Skip(m) => Read1 /\ lx' # Idle /\ lx'.mode = m /\ lx'.back = lx.back
           /\ \A m : Stay(m) => Still /\ lx' # Idle /\ lx'.mode = m /\ lx'.back = lx.back
           /\ \A b : ToBreak(b) => Still /\ lx' # Idle /\ lx'.mode = "break" /\ lx'.back = b
           /\ \A k : Return(k) => Still /\ lx' = Idle
           /\ \A k : SkipReturn(k) => Read1 /\ lx' = Idle
           /\ LexError => Still /\ lx' = lx
<1>1. DOMAIN lx = Call
  BY DEF IInv, LxOK
<1>2. "back" \in Call /\ "back" \notin DOMAIN Idle
  BY DEF Call, Idle
<1>3. ASSUME NEW m, lx' = [lx EXCEPT !.mode = m]
      PROVE  lx' # Idle /\ lx'.mode = m /\ lx'.back = lx.back
  <2>1. DOMAIN lx' = Call
    BY <1>1, <1>3
  <2> QED
    BY <1>1, <1>2, <1>3, <2>1 DEF Call
<1>4. ASSUME NEW b, lx' = [lx EXCEPT !.mode = "break", !.back = b]
      PROVE  lx' # Idle /\ lx'.mode = "break" /\ lx'.back = b
  <2>1. DOMAIN lx' = Call
    BY <1>1, <1>4
  <2> QED
    BY <1>1, <1>2, <1>4, <2>1 DEF Call
<1>5. \A m : Skip(m) => Read1 /\ lx' # Idle /\ lx'.mode = m /\ lx'.back = lx.back
  BY <1>3 DEF Skip, Moved, Read1
<1>6. \A m : Stay(m) => Still /\ lx' # Idle /\ lx'.mode = m /\ lx'.back = lx.back
  BY <1>3 DEF Stay, Moved, Still, input
<1>7. \A b : ToBreak(b) => Still /\ lx' # Idle /\ lx'.mode = "break" /\ lx'.back = b
  BY <1>4 DEF ToBreak, Still, input
<1>8. \A k : Return(k) => Still /\ lx' = Idle
  BY DEF Return, Returned, Still, input
<1>9. \A k : SkipReturn(k) => Read1 /\ lx' = Idle
  BY DEF SkipReturn, Returned, Read1
<1>10. LexError => Still /\ lx' = lx
  BY DEF LexError, Still, input
<1> QED
  BY <1>5, <1>6, <1>7, <1>8, <1>9, <1>10

LEMMA LexMoves ==
    ASSUME IInv, Lexes
    PROVE  /\ lx # Idle
           /\ \/ EndOfText \/ GivesUp
              \/ ~(lx.mode = "start" /\ current = EOZ) /\ (Leaves \/ Stays \/ Takes \/ Drops)
<1> DEFINE Kinds == GoesOn \/ Ends \/ EndOfText \/ GivesUp
<1> DEFINE Moves1 == Leaves \/ Stays \/ Takes \/ Drops \/ EndOfText \/ GivesUp
<1>1. lx # Idle /\ Kinds
  BY LexStep
<1>2. DOMAIN lx = Call /\ lx.to \in {"t", "lookahead"}
  BY <1>1 DEF IInv, LxOK
<1>3. /\ GoesOn => lx' # Idle
      /\ Ends => lx' = Idle
  BY DEF GoesOn, Ends, Gives, Idle
<1>4. /\ \A m : Skip(m) => Read1 /\ lx' # Idle /\ lx'.mode = m /\ lx'.back = lx.back
      /\ \A m : Stay(m) => Still /\ lx' # Idle /\ lx'.mode = m /\ lx'.back = lx.back
      /\ \A b : ToBreak(b) => Still /\ lx' # Idle /\ lx'.mode = "break" /\ lx'.back = b
      /\ \A k : Return(k) => Still /\ lx' = Idle
      /\ \A k : SkipReturn(k) => Read1 /\ lx' = Idle
      /\ LexError => Still /\ lx' = lx
  BY <1>1, LexBlocks, Zenon
<1>5. LexError => GivesUp
  BY <1>1 DEF Lexes, LexError, GivesUp, input, lines, tokens
<1>6. Llex /\ UNCHANGED todo
  BY DEF Lexes
(* What a step that changes the call by hand does. *)
<1>7. ASSUME NEW m, NEW text, NEW level,
             \/ lx' = [lx EXCEPT !.mode = m, !.text = text]
             \/ lx' = [lx EXCEPT !.text = text] /\ m = lx.mode
             \/ lx' = [lx EXCEPT !.mode = m, !.level = level, !.text = text]
      PROVE  lx' # Idle /\ lx'.mode = m /\ lx'.back = lx.back
  <2>1. DOMAIN lx' = Call
    BY <1>2, <1>7
  <2>2. "back" \in Call /\ "back" \notin DOMAIN Idle
    BY DEF Call, Idle
  <2> QED
    BY <1>2, <1>7, <2>1, <2>2 DEF Call
<1>8. CASE ~AtStart /\ ~InWord
  <2>1. ASSUME Read1 PROVE Moves1
    BY <1>1, <1>8, <2>1 DEF Leaves, Takes
  <2>2. ASSUME Still PROVE Moves1
    BY <1>1, <1>8, <2>2 DEF Stays, Drops
  <2>3. lx.mode # "start"
    BY <1>8 DEF AtStart
  <2> QED
    BY <1>1, <1>8, <2>1, <2>2, <2>3 DEF GoesOn, Ends, EndOfText, GivesUp, Reads, Read1, Still
<1>9. CASE InWord
  <2>1. Solid /\ ~AtStart
    BY <1>9 DEF InWord, Solid, AtStart, Letters, Reserved, Entries, White, Breaks, Blanks, EOZ
  <2>2. Read1 /\ lx' # Idle
    <3>1. lx.mode = "word" /\ current \in Letters \cup Digits \cup {"z"}
      BY <1>9 DEF InWord
    <3>2. Word
      BY <1>6, <3>1 DEF Llex, Start, IncLineNumber, Pair, Dots, Dash, LongSep, Long,
                        ReadString, Numeral, In
    <3>3. (\E c \in Chars : NextChar(c)) /\ lx' = [lx EXCEPT !.text = Append(@, current)]
      BY <3>1, <3>2 DEF Word
    <3> QED
      BY <1>7, <3>3 DEF Read1
  <2>3. CASE GoesOn
    BY <1>1, <2>1, <2>2, <2>3, <1>9 DEF Leaves, InWord
  <2>4. CASE EndOfText \/ GivesUp
    BY <1>1, <1>9, <2>4 DEF InWord
  <2> QED
    BY <1>1, <1>3, <1>9, <2>2, <2>3, <2>4 DEF InWord
<1>10. CASE lx.mode = "start"
  <2>1. Start
    BY <1>6, <1>10 DEF Llex, IncLineNumber, Pair, Dots, Dash, LongSep, Long,
                      ReadString, Numeral, Word, In
  <2>2. CASE current \in Breaks /\ ToBreak("start")
    <3>1. Still /\ lx' # Idle /\ AtStart'
      BY <1>4, <2>2 DEF AtStart
    <3>2. current # EOZ
      BY <2>2 DEF Breaks, EOZ
    <3> QED
      BY <1>1, <1>3, <3>1, <3>2 DEF Stays
  <2>3. CASE current \in Blanks /\ Skip("start")
    <3>1. Read1 /\ lx' # Idle /\ AtStart'
      BY <1>4, <2>3 DEF AtStart
    <3>2. current # EOZ
      BY <2>3 DEF Blanks, EOZ
    <3> QED
      BY <1>1, <1>3, <3>1, <3>2 DEF Leaves
  <2>4. CASE current = EOZ
    <3>1. /\ Returned([Token(EOS) EXCEPT !.begin = Len(out), !.from = Len(source) + 1])
          /\ UNCHANGED <<input, out>>
      BY <2>1, <2>4 DEF Start, EOZ, Breaks, Blanks, Pairs, Delimiters, Digits, Letters,
                        Reserved, Entries, Signs
    <3>2. EndOfText
      BY <1>2, <1>6, <2>4, <3>1 DEF EndOfText, Gives, Returned, input, lines
    <3> QED
      BY <1>1, <3>2
  <2>5. CASE current \in Letters \cup {"z"} /\ Stay("word")
    <3>1. Still /\ lx' # Idle /\ InWord'
      BY <1>4, <2>5 DEF InWord, Still
    <3>2. current # EOZ
      BY <2>5 DEF Letters, Reserved, Entries, EOZ
    <3> QED
      BY <1>1, <1>3, <3>1, <3>2 DEF Stays
  <2>6. CASE current \notin White /\ current # EOZ /\ Read1
    BY <1>1, <2>6 DEF Leaves, Takes, Solid
  <2>7. \/ current \in White \cup {EOZ} \/ current \in Letters \cup {"z"}
        \/ current \notin White /\ current # EOZ /\ Read1
    <3>1. SUFFICES ASSUME current \notin White, current # EOZ, current \notin Letters \cup {"z"}
                   PROVE  Read1
      OBVIOUS
    <3> QED
      BY <1>4, <2>1, <3>1 DEF Start, White, Read1
  <2>8. {p[1] : p \in Pairs} = {"=", "~", "<", ">", ":"}
    BY DEF Pairs
  <2>9. /\ current \in Breaks => ToBreak("start")
        /\ current \in Blanks => Skip("start")
        /\ current \in Letters \cup {"z"} => Stay("word")
    BY <2>1, <2>8 DEF Start, Breaks, Blanks, Letters, Reserved, Entries, Delimiters, Digits,
       Signs, EOZ
  <2> QED
    BY <2>2, <2>3, <2>4, <2>5, <2>6, <2>7, <2>9 DEF White
<1>11. CASE lx.mode \in {"break", "break2"} /\ lx.back = "start"
  <2>1. IncLineNumber
    BY <1>6, <1>11 DEF Llex, Start, Pair, Dots, Dash, LongSep, Long,
                      ReadString, Numeral, Word, In
  <2>2. Read1 /\ (lx' = [lx EXCEPT !.mode = "break2"] \/ lx' = [lx EXCEPT !.mode = lx.back])
    BY <2>1 DEF IncLineNumber, Broken, Moved, Read1
  <2>3. lx' # Idle /\ lx'.mode \in {"break2", "start"} /\ lx'.back = "start"
    <3>1. DOMAIN lx' = Call /\ "back" \in Call /\ "back" \notin DOMAIN Idle
      BY <1>2, <2>2 DEF Call, Idle
    <3> QED
      BY <1>2, <1>11, <2>2, <3>1 DEF Call
  <2>4. AtStart'
    BY <2>3 DEF AtStart
  <2>5. CASE GoesOn
    BY <1>1, <1>11, <2>2, <2>4, <2>5 DEF Leaves
  <2> QED
    BY <1>1, <1>3, <1>11, <2>3, <2>5 DEF EndOfText, Gives, GivesUp
<1> QED
  BY <1>1, <1>8, <1>9, <1>10, <1>11 DEF AtStart

(* Of the text from a place on something has been seen that is not white,  *)
(* and is no longer the current character; there is something between.     *)
Seen(s, c, from) == \E f \in from .. Len(s) : s[f] \notin White /\ (f < Len(s) \/ c = EOZ)
Between(s, a, b) == \E f \in a .. b - 1 : s[f] \notin White

(* A token has text; where it is read ahead, or when the next one begins,  *)
(* that text lies between.                                                 *)
SeenOK ==
    /\ current # EOZ => current = source[Len(source)]
    /\ t.token # EOS => Seen(source, current, t.from)
    /\ lookahead.token # EOS =>
          /\ Seen(source, current, lookahead.from)
          /\ t.token = EOS \/ Between(source, t.from, lookahead.from)
    /\ lx # Idle =>
          /\ \/ t.token = EOS \/ Between(source, t.from, lx.from)
             \/ current = EOZ /\ lx.mode = "start"
          /\ AtStart \/ Seen(source, current, lx.from) \/ InWord

LEMMA SourceGrows ==
    ASSUME BufferOK, Reads
    PROVE  /\ Len(source) \in Nat /\ Len(source') \in Nat /\ Len(source) <= Len(source')
           /\ \A i \in 1 .. Len(source) : source'[i] = source[i]
           /\ Read1 => Len(source) < Len(source') \/ current' = EOZ
           /\ Read1 => (current' # EOZ => current' = source'[Len(source')])
<1>1. Len(source) \in Nat /\ IsSeq(source)
  BY SeqLength DEF BufferOK
<1>2. CASE UNCHANGED <<source, current, out>> /\ ~Read1
  BY <1>1, <1>2
<1>3. CASE Read1
  <2>1. PICK c \in Chars : NextChar(c)
    BY <1>3 DEF Read1
  <2>2. CASE c = EOZ
    BY <1>1, <2>1, <2>2 DEF NextChar
  <2>3. CASE c # EOZ
    <3>1. source' = Append(source, c) /\ current' = c
      BY <2>1, <2>3 DEF NextChar
    <3>2. /\ Len(source') = Len(source) + 1 /\ source'[Len(source) + 1] = c
          /\ \A i \in 1 .. Len(source) : source'[i] = source[i]
      BY <1>1, <3>1, SeqAppend
    <3> QED
      BY <1>1, <3>1, <3>2
  <2> QED
    BY <2>2, <2>3
<1> QED
  BY <1>2, <1>3 DEF Reads, Read1

LEMMA SeenStays ==
    ASSUME BufferOK, Reads
    PROVE  /\ \A from \in Nat :
                 from > 0 /\ Seen(source, current, from) => Seen(source', current', from)
           /\ \A a \in Nat : \A b \in 0 .. Len(source) + 1 :
                 a > 0 /\ Between(source, a, b) => Between(source', a, b)
           /\ Read1 /\ Solid /\ (current # EOZ => current = source[Len(source)]) =>
                 \A from \in 1 .. Len(source) : Seen(source', current', from)
<1>1. /\ Len(source) \in Nat /\ Len(source') \in Nat /\ Len(source) <= Len(source')
      /\ \A i \in 1 .. Len(source) : source'[i] = source[i]
      /\ Read1 => Len(source) < Len(source') \/ current' = EOZ
  BY SourceGrows
<1>2. (current' = current /\ source' = source) \/ Read1
  BY DEF Reads, Read1
<1>3. ASSUME NEW from \in Nat, from > 0, Seen(source, current, from)
      PROVE  Seen(source', current', from)
  <2>1. PICK f \in from .. Len(source) :
            source[f] \notin White /\ (f < Len(source) \/ current = EOZ)
    BY <1>3 DEF Seen
  <2>2. f \in from .. Len(source') /\ source'[f] \notin White
    BY <1>1, <1>3, <2>1
  <2>3. f < Len(source') \/ current' = EOZ
    BY <1>1, <1>2, <1>3, <2>1
  <2> QED
    BY <2>2, <2>3 DEF Seen
<1>4. ASSUME NEW a \in Nat, NEW b \in 0 .. Len(source) + 1, a > 0, Between(source, a, b)
      PROVE  Between(source', a, b)
  <2>1. PICK f \in a .. b - 1 : source[f] \notin White
    BY <1>4 DEF Between
  <2>2. f \in 1 .. Len(source)
    BY <1>1, <1>4, <2>1
  <2> QED
    BY <1>1, <2>1, <2>2 DEF Between
<1>5. ASSUME Read1, Solid, current = source[Len(source)], NEW from \in 1 .. Len(source)
      PROVE  Seen(source', current', from)
  <2>1. /\ Len(source) \in from .. Len(source') /\ source'[Len(source)] \notin White
        /\ Len(source) < Len(source') \/ current' = EOZ
    BY <1>1, <1>5 DEF Solid
  <2> QED
    BY <2>1 DEF Seen
<1> QED
  BY <1>3, <1>4, <1>5 DEF Solid

(* What is known of the tokens as there is more text.                      *)
LEMMA SeenTokens ==
    ASSUME IInv, SeenOK, Reads
    PROVE  /\ t.token # EOS => Seen(source', current', t.from)
           /\ lookahead.token # EOS =>
                 /\ Seen(source', current', lookahead.from)
                 /\ t.token = EOS \/ Between(source', t.from, lookahead.from)
           /\ lx # Idle /\ ~(lx.mode = "start" /\ current = EOZ) =>
                 /\ t.token = EOS \/ Between(source', t.from, lx.from)
                 /\ lx.from \in 1 .. Len(source) + 1
                 /\ current # EOZ => lx.from <= Len(source)
           /\ current' # EOZ => current' = source'[Len(source')]
<1>1. /\ Len(source) \in Nat /\ Len(source') \in Nat /\ Len(source) <= Len(source')
      /\ \A i \in 1 .. Len(source) : source'[i] = source[i]
      /\ Read1 => (current' # EOZ => current' = source'[Len(source')])
  BY SourceGrows DEF IInv
<1>2. t.token # EOS => t.from \in 1 .. Len(source) + 1
  <2>1. t.token # EOS => t # NoToken
    BY DEF NoToken
  <2> QED
    BY <2>1, TokenThere DEF IInv
<1>3. lookahead.token # EOS => lookahead.from \in 1 .. Len(source) + 1
  BY DEF IInv, TokensOK, Held, InPlace
<1>4. lx # Idle /\ ~(lx.mode = "start" /\ current = EOZ) =>
          lx.from \in 1 .. Len(source) + 1 /\ (current # EOZ => lx.from <= Len(source))
  BY DEF IInv, LxOK, Reading, Held, InPlace
<1>5. /\ \A from \in Nat :
            from > 0 /\ Seen(source, current, from) => Seen(source', current', from)
      /\ \A a \in Nat : \A b \in 0 .. Len(source) + 1 :
            a > 0 /\ Between(source, a, b) => Between(source', a, b)
  BY SeenStays DEF IInv
<1>6. t.token # EOS => Seen(source', current', t.from)
  BY <1>1, <1>2, <1>5 DEF SeenOK
<1>7. lookahead.token # EOS =>
          /\ Seen(source', current', lookahead.from)
          /\ t.token = EOS \/ Between(source', t.from, lookahead.from)
  BY <1>1, <1>2, <1>3, <1>5 DEF SeenOK
<1>8. lx # Idle /\ ~(lx.mode = "start" /\ current = EOZ) =>
          t.token = EOS \/ Between(source', t.from, lx.from)
  BY <1>1, <1>2, <1>4, <1>5 DEF SeenOK
<1>9. current' # EOZ => current' = source'[Len(source')]
  BY <1>1 DEF SeenOK, Reads, Read1
<1> QED
  BY <1>4, <1>6, <1>7, <1>8, <1>9

LEMMA SeenLexes ==
    ASSUME IInv, SeenOK, Lexes
    PROVE  SeenOK'
<1>1. lx # Idle /\ (lx.to = "t" => lookahead.token = EOS)
  BY LexMoves DEF IInv, LxOK
<1>2. CASE GivesUp
  BY <1>2 DEF GivesUp, SeenOK, AtStart, InWord
<1>3. CASE EndOfText
  <2> DEFINE tok == [Token(EOS) EXCEPT !.begin = Len(out), !.from = Len(source) + 1]
  <2>1. tok.token = EOS
    BY DEF Token
  <2>2. /\ UNCHANGED <<source, current>> /\ lx' = Idle
        /\ \/ t' = tok /\ UNCHANGED lookahead /\ lx.to = "t"
           \/ lookahead' = tok /\ UNCHANGED t
    BY <1>3 DEF EndOfText, Gives
  <2> HIDE DEF tok
  <2> QED
    BY <1>1, <2>1, <2>2 DEF SeenOK
<1>4. CASE ~(lx.mode = "start" /\ current = EOZ) /\ (Leaves \/ Stays \/ Takes \/ Drops)
  <2>1. Reads
    BY <1>4 DEF Leaves, Stays, Takes, Drops, GoesOn, Ends
  <2>2. /\ t.token # EOS => Seen(source', current', t.from)
        /\ lookahead.token # EOS =>
              /\ Seen(source', current', lookahead.from)
              /\ t.token = EOS \/ Between(source', t.from, lookahead.from)
        /\ t.token = EOS \/ Between(source', t.from, lx.from)
        /\ lx.from \in 1 .. Len(source) + 1
        /\ current # EOZ => lx.from <= Len(source)
        /\ current' # EOZ => current' = source'[Len(source')]
    BY <1>1, <1>4, <2>1, SeenTokens
  <2>3. Len(source) \in Nat /\ current # EOZ => current = source[Len(source)]
    BY SeqLength DEF SeenOK, IInv, BufferOK
  <2>4. Seen(source, current, lx.from) => Seen(source', current', lx.from)
    <3>1. \A from \in Nat :
             from > 0 /\ Seen(source, current, from) => Seen(source', current', from)
      BY <2>1, SeenStays DEF IInv
    <3>2. lx.from \in Nat /\ lx.from > 0
      BY <2>2, <2>3
    <3> QED
      BY <3>1, <3>2
  <2>5. Read1 /\ Solid => Seen(source', current', lx.from)
    <3>1. Read1 /\ Solid => \A from \in 1 .. Len(source) : Seen(source', current', from)
      BY <2>1, SeenStays DEF IInv, SeenOK
    <3>2. Solid => lx.from \in 1 .. Len(source)
      BY <2>2 DEF Solid, SeenOK
    <3> QED
      BY <3>1, <3>2
  <2>6. InWord => Solid
    BY DEF InWord, Solid, Letters, Reserved, Entries, White, Breaks, Blanks, EOZ
  <2>7. AtStart \/ Seen(source, current, lx.from) \/ InWord
    BY <1>1 DEF SeenOK
  <2>8. CASE Leaves \/ Stays
    <3>1. lx'.from = lx.from /\ UNCHANGED <<t, lookahead>>
      BY <2>8 DEF Leaves, Stays, GoesOn
    <3>2. AtStart' \/ Seen(source', current', lx.from) \/ InWord'
      BY <2>4, <2>5, <2>6, <2>7, <2>8 DEF Leaves, Stays
    <3> QED
      BY <2>2, <3>1, <3>2 DEF SeenOK
  <2>9. CASE Takes \/ Drops
    <3>1. PICK k : Gives(Token(k))
      BY <2>9 DEF Takes, Drops, Ends
    <3>2. Token(k).from = lx.from
      BY DEF Token
    <3>3. /\ lx' = Idle
          /\ \/ lx.to = "t" /\ t' = Token(k) /\ UNCHANGED lookahead
             \/ lookahead' = Token(k) /\ UNCHANGED t
      BY <3>1 DEF Gives
    <3>4. Seen(source', current', lx.from)
      BY <2>4, <2>5, <2>6, <2>7, <2>9 DEF Takes, Drops
    <3> QED
      BY <1>1, <2>2, <3>2, <3>3, <3>4 DEF SeenOK
  <2> QED
    BY <1>4, <2>8, <2>9
<1> QED
  BY <1>2, <1>3, <1>4, LexMoves

(* The parser moves tokens but does not change them.                       *)
LEMMA SeenMoved ==
    ASSUME SeenOK, UNCHANGED <<source, current, lx>>,
           t'.token = t.token, t'.from = t.from,
           lookahead'.token = lookahead.token, lookahead'.from = lookahead.from
    PROVE  SeenOK'
  BY DEF SeenOK, AtStart, InWord

LEMMA SeenBegins ==
    ASSUME IInv, SeenOK, NEW to, Begin(to), UNCHANGED <<source, current, t, lookahead>>
    PROVE  SeenOK'
<1>1. lx'.mode = "start" /\ lx'.from = Len(source)
  BY DEF Begin
<1>2. t.token = EOS \/ Between(source, t.from, Len(source)) \/ current = EOZ
  <2> SUFFICES ASSUME t.token # EOS, current # EOZ
               PROVE  Between(source, t.from, Len(source))
    OBVIOUS
  <2>1. t.from \in 1 .. Len(source) + 1 /\ Len(source) \in Nat
    <3>1. t # NoToken
      BY DEF NoToken
    <3> QED
      BY <3>1, TokenThere DEF IInv
  <2>2. PICK f \in t.from .. Len(source) : source[f] \notin White /\ f < Len(source)
    BY DEF SeenOK, Seen
  <2>3. f \in t.from .. Len(source) - 1
    BY <2>1, <2>2
  <2> QED
    BY <2>2, <2>3 DEF Between
<1> QED
  BY <1>1, <1>2 DEF SeenOK, AtStart

LEMMA SeenNexts ==
    ASSUME IInv, SeenOK, Nexts \/ Looks
    PROVE  SeenOK'
<1>1. UNCHANGED <<source, current>>
  BY DEF Nexts, Looks, LuaXNext, LuaXLookahead, input
<1>2. CASE UNCHANGED <<t, lookahead, lx>>
  BY <1>1, <1>2, SeenMoved
<1>3. CASE (Begin("t") \/ Begin("lookahead")) /\ UNCHANGED <<t, lookahead>>
  BY <1>1, <1>3, SeenBegins
<1>4. CASE /\ Nexts /\ t' = lookahead /\ lookahead' = [lookahead EXCEPT !.token = EOS]
           /\ lookahead.token # EOS /\ UNCHANGED lx
  <2>1. lookahead'.token = EOS
    BY <1>4 DEF IInv, TokensOK, IsToken
  <2>2. lx = Idle
    BY <1>4 DEF Nexts, At, Parsing
  <2> QED
    BY <1>1, <1>4, <2>1, <2>2 DEF SeenOK
<1> QED
  BY <1>2, <1>3, <1>4 DEF Nexts, Looks, LuaXNext, LuaXLookahead, tokens
-----------------------------------------------------------------------------
(* Of a buffer, between two places, something is not white.                *)
Gap(o, begin, end) == \E i \in begin + 1 .. end : o[i].c \notin White

(* Operations that consume a token, or end with an error, before the ones  *)
(* behind them are done; those that no token may be missing for.           *)
Eats == {"next", "expect", "sub", "simple", "primary", "quote", "definition", "args", "items",
         "field", "embed", "language"}
Firsts == {"next", "definition", "field"}

(* Operations that leave a separator alone that is in front of the current *)
(* token, and those that are done only once a token has been consumed.     *)
Passive == {"binary", "more", "combine", "written", "pointer", "sep", "expect", "embedded",
            "comma", "fields", "further", "assign", "stats", "next", "primary", "language"}
Pops == {"next", "expect", "args", "quote", "items", "sep", "written"}

LanguageText == <<Wrote("_G.terra._trees[]("), Wrote(")")>>
Literals == {<<Wrote("terra.defineobjects("), Wrote(")")>>,
             <<Wrote("(terra.definequote("), Wrote("))")>>,
             <<Wrote("terra.anonstruct("), Wrote(")")>>, LanguageText}
Lang(op) == op[1] = "language" \/ (op[1] = "written" /\ op[3] = LanguageText)

(* The order of operations.                                                *)
Follows(a, b) ==
    /\ b[1] # "look" /\ a[1] # "stats" /\ ~(b[1] = "written" /\ b[3] = LanguageText)
    /\ b[1] \in Firsts => a[1] \in {"next", "look"}
    /\ b[1] \in Passive \/ a[1] \in Pops \cup {"look"}
    /\ b[1] = "suffix" => a[1] \in Pops
    /\ b[1] = "language" => a[1] \in {"embedded", "next", "look", "embed"}
Joined(s) ==
    \A j \in 2 .. Len(s) :
        /\ Follows(s[j - 1], s[j])
        /\ j > 2 /\ s[j][1] = "language" => s[j - 1][1] = "embedded"
(* What operations end with that take the place of one.                    *)
Hands(op, last) ==
    /\ op[1] \notin {"embedded", "next", "look"}
    /\ op[1] \in Pops => last[1] \in Pops
    /\ op[1] = "embed" => last[1] = "embedded"
    /\ last[1] = "stats" => op[1] = "stats"

Fresh(s, from, p) ==
    \/ \E q \in 1 .. p - 1 : s[q][1] \in Eats
    \/ s[p][1] \in {"definition", "quote"}
    \/ s[p][1] = "language" /\ from = s[p][2].from

ToT == lx # Idle /\ lx.to = "t"
Advancing(s) ==
    /\ Len(s) > 0
    /\ s[1][1] \in Firsts \/ (s[1][1] = "look" /\ Len(s) > 1 /\ s[2][1] \in Firsts)
AllGap == \A p \in 1 .. Len(todo) :
             todo[p][1] \in Marked => Gap(out, todo[p][2].begin, t.begin)

(* There is text between the place an operation remembers and the current  *)
(* token, unless nothing has been consumed since.                          *)
GapsOK ==
    /\ ~ToT => \A p \in 1 .. Len(todo) : todo[p][1] \in Marked =>
                  Gap(out, todo[p][2].begin, t.begin) \/ Fresh(todo, t.from, p)
    /\ ToT \/ Advancing(todo) => t.token # EOS \/ AllGap

(* Where operations are that are put in front of the rest.                 *)
LEMMA PutPlaces ==
    ASSUME TodoOK, todo # <<>>, NEW ops, IsSeq(ops), Put(ops)
    PROVE  /\ Len(ops) \in Nat /\ Len(todo) \in Nat /\ Len(todo) > 0
           /\ IsSeq(todo') /\ Len(todo') = Len(ops) + Len(todo) - 1
           /\ \A p \in 1 .. Len(ops) : todo'[p] = ops[p]
           /\ \A p \in 2 .. Len(todo) :
                 /\ todo'[Len(ops) + p - 1] = todo[p]
                 /\ Len(ops) + p - 1 \in Len(ops) + 1 .. Len(todo')
           /\ \A p \in 1 .. Len(todo') :
                 \/ p \in 1 .. Len(ops)
                 \/ \E k \in 2 .. Len(todo) : p = Len(ops) + k - 1 /\ todo'[p] = todo[k]
<1>1. /\ IsSeq(Tail(todo)) /\ Len(Tail(todo)) = Len(todo) - 1 /\ Len(todo) > 0
      /\ \A i \in 1 .. Len(todo) - 1 : Tail(todo)[i] = todo[i + 1]
  BY SeqTail DEF TodoOK
<1>2. Len(todo) \in Nat /\ Len(ops) \in Nat
  BY SeqLength DEF TodoOK
<1>3. /\ IsSeq(todo') /\ Len(todo') = Len(ops) + Len(Tail(todo))
      /\ \A i \in 1 .. Len(ops) : todo'[i] = ops[i]
      /\ \A i \in 1 .. Len(Tail(todo)) : todo'[Len(ops) + i] = Tail(todo)[i]
  BY <1>1, SeqJoin DEF Put
<1>4. Len(todo') = Len(ops) + Len(todo) - 1
  BY <1>1, <1>2, <1>3
<1>5. ASSUME NEW p \in 2 .. Len(todo)
      PROVE  /\ todo'[Len(ops) + p - 1] = todo[p]
             /\ Len(ops) + p - 1 \in Len(ops) + 1 .. Len(todo')
  <2>1. p - 1 \in 1 .. Len(Tail(todo)) /\ (p - 1) + 1 = p /\ Len(ops) + (p - 1) = Len(ops) + p - 1
    BY <1>1, <1>2
  <2>2. todo'[Len(ops) + (p - 1)] = todo[p]
    BY <1>1, <1>3, <2>1
  <2> QED
    BY <1>2, <1>4, <2>1, <2>2
<1>6. ASSUME NEW p \in 1 .. Len(todo'), p \notin 1 .. Len(ops)
      PROVE  \E k \in 2 .. Len(todo) : p = Len(ops) + k - 1 /\ todo'[p] = todo[k]
  <2> DEFINE k == p - Len(ops) + 1
  <2>1. k \in 2 .. Len(todo) /\ p = Len(ops) + k - 1
    BY <1>2, <1>4, <1>6
  <2> HIDE DEF k
  <2> QED
    BY <1>5, <2>1
<1> QED
  BY <1>1, <1>2, <1>3, <1>4, <1>5, <1>6

(* A wider piece of a buffer that begins alike.                            *)
LEMMA GapWider ==
    ASSUME NEW o, NEW b \in Int, NEW e \in Int, Gap(o, b, e),
           NEW o2, NEW b2 \in Int, NEW e2 \in Int, b2 <= b, e <= e2,
           \A i \in b + 1 .. e : o2[i] = o[i]
    PROVE  Gap(o2, b2, e2)
<1>1. PICK i \in b + 1 .. e : o[i].c \notin White
  BY DEF Gap
<1>2. i \in b2 + 1 .. e2 /\ o2[i].c \notin White
  BY <1>1
<1> QED
  BY <1>2 DEF Gap

LEMMA GapConsumed ==
    ASSUME NEW o, NEW s, Len(s) \in Nat, Len(o) \in Nat, NEW b, NEW f, NEW b2, NEW f2,
           InPlace(o, s, b, f), InPlace(o, s, b2, f2), Between(s, f, f2)
    PROVE  Gap(o, b, b2)
<1>1. PICK i \in f .. f2 - 1 : s[i] \notin White
  BY DEF Between
<1>2. /\ b \in Nat /\ f \in Nat /\ b2 \in Nat /\ f2 \in Nat /\ f2 <= Len(s) + 1
      /\ Len(o) - b = Len(s) + 1 - f /\ Len(o) - b2 = Len(s) + 1 - f2
  BY DEF InPlace
<1>3. i \in f .. Len(s)
  BY <1>1, <1>2
<1>4. o[b + 1 + (i - f)] = Cell(s, i)
  BY <1>3 DEF InPlace
<1>5. b + 1 + (i - f) \in b + 1 .. b2
  BY <1>1, <1>2
<1>6. o[b + 1 + (i - f)].c \notin White
  BY <1>1, <1>4 DEF Cell
<1> QED
  BY <1>5, <1>6 DEF Gap

LEMMA OutGrows ==
    ASSUME BufferOK, Reads
    PROVE  /\ Len(out) \in Nat /\ Len(out') \in Nat /\ Len(out) <= Len(out')
           /\ \A i \in 1 .. Len(out) : out'[i] = out[i]
           /\ \/ out' = out /\ source' = source
              \/ /\ source' = Append(source, current')
                 /\ out' = Append(out, [c |-> current', at |-> Len(source) + 1, copied |-> FALSE])
<1>1. Len(out) \in Nat /\ IsSeq(out)
  BY SeqLength DEF BufferOK
<1>2. CASE UNCHANGED <<source, current, out>>
  BY <1>1, <1>2
<1>3. CASE \E c \in Chars : NextChar(c)
  <2>1. PICK c \in Chars : NextChar(c)
    BY <1>3
  <2>2. CASE c = EOZ
    BY <1>1, <2>1, <2>2 DEF NextChar
  <2>3. CASE c # EOZ
    <3>1. /\ out' = Append(out, [c |-> c, at |-> Len(source) + 1, copied |-> FALSE])
          /\ source' = Append(source, c) /\ current' = c
      BY <2>1, <2>3 DEF NextChar
    <3>2. Len(out') = Len(out) + 1 /\ \A i \in 1 .. Len(out) : out'[i] = out[i]
      BY <1>1, <3>1, SeqAppend
    <3> QED
      BY <1>1, <3>1, <3>2
  <2> QED
    BY <2>2, <2>3
<1>4. UNCHANGED <<source, current, out>> \/ \E c \in Chars : NextChar(c)
  BY DEF Reads
<1> QED
  BY <1>2, <1>3, <1>4, Zenon

(* Before there is a token no operation remembers one.                     *)
LEMMA NoMarks ==
    ASSUME IInv, t = NoToken, NEW p \in 1 .. Len(todo)
    PROVE  todo[p][1] \notin Marked
<1>1. todo = <<Tok, <<"stats">>>> \/ todo = <<<<"stats">>>>
  BY DEF IInv, EarlyOK
<1>2. todo[p] = Tok \/ todo[p] = <<"stats">>
  BY <1>1, SeqShort
<1>3. Tok[1] = "next" /\ <<"stats">>[1] = "stats"
  BY DEF Tok
<1>4. todo[p][1] = "next" \/ todo[p][1] = "stats"
  BY <1>2, <1>3, Zenon
<1> QED
  BY <1>4 DEF Marked

(* What the operations remember is at or before the current token.         *)
LEMMA MarksThere ==
    ASSUME IInv, NEW p \in 1 .. Len(todo), todo[p][1] \in Marked
    PROVE  /\ t # NoToken /\ todo[p][2].begin \in 0 .. t.begin
           /\ t.begin \in 0 .. Len(out) /\ Len(out) \in Nat
<1>1. t # NoToken
  BY NoMarks
<1>2. Mark(todo[p]) \subseteq 0 .. t.begin
  BY DEF IInv, TodoOK
<1> QED
  BY <1>1, <1>2, TokenThere DEF IInv, Mark

(* The order of operations when some take the place of the first one.      *)
LEMMA JoinedPut ==
    ASSUME TodoOK, todo # <<>>, Joined(todo), NEW ops, IsSeq(ops), Put(ops), Joined(ops),
           Len(ops) > 0 => Hands(Head1, ops[Len(ops)])
    PROVE  Joined(todo')
<1>1. /\ Len(ops) \in Nat /\ Len(todo) \in Nat /\ Len(todo) > 0
      /\ IsSeq(todo') /\ Len(todo') = Len(ops) + Len(todo) - 1
      /\ \A p \in 1 .. Len(ops) : todo'[p] = ops[p]
      /\ \A p \in 2 .. Len(todo) : todo'[Len(ops) + p - 1] = todo[p]
  BY PutPlaces
<1> SUFFICES ASSUME NEW j \in 2 .. Len(todo')
             PROVE  /\ Follows(todo'[j - 1], todo'[j])
                    /\ j > 2 /\ todo'[j][1] = "language" => todo'[j - 1][1] = "embedded"
  BY DEF Joined
<1>2. CASE j <= Len(ops)
  <2>1. j \in 2 .. Len(ops) /\ j - 1 \in 1 .. Len(ops) /\ j \in 1 .. Len(ops)
    BY <1>1, <1>2
  <2> QED
    BY <1>1, <2>1 DEF Joined
<1>3. CASE j = Len(ops) + 1
  <2>1. 2 \in 2 .. Len(todo) /\ Len(ops) + 2 - 1 = j /\ Len(ops) > 0 /\ j - 1 = Len(ops)
    BY <1>1, <1>3
  <2>2. todo'[j] = todo[2]
    BY <1>1, <2>1
  <2>3. todo'[j - 1] = ops[Len(ops)]
    BY <1>1, <2>1
  <2>4. Follows(Head1, todo[2]) /\ Hands(Head1, ops[Len(ops)])
    <3>1. \A i \in 2 .. Len(todo) : Follows(todo[i - 1], todo[i])
      BY DEF Joined
    <3>2. Follows(todo[2 - 1], todo[2]) /\ 2 - 1 = 1
      BY <2>1, <3>1
    <3>3. Follows(todo[1], todo[2])
      BY <3>2
    <3> QED
      BY <2>1, <3>3 DEF Head1
  <2> DEFINE h == Head1[1]
             a == ops[Len(ops)]
             b == todo[2]
  <2>5. /\ b[1] # "look" /\ h # "stats" /\ ~(b[1] = "written" /\ b[3] = LanguageText)
        /\ b[1] \in Firsts => h \in {"next", "look"}
        /\ b[1] \in Passive \/ h \in Pops \cup {"look"}
        /\ b[1] = "suffix" => h \in Pops
        /\ b[1] = "language" => h \in {"embedded", "next", "look", "embed"}
    BY <2>4 DEF Follows
  <2>6. /\ h \notin {"embedded", "next", "look"} /\ (h \in Pops => a[1] \in Pops)
        /\ h = "embed" => a[1] = "embedded"
        /\ a[1] = "stats" => h = "stats"
    BY <2>4 DEF Hands
  <2> HIDE DEF h, a, b
  <2>7. Follows(a, b) /\ (b[1] = "language" => a[1] = "embedded")
    BY <2>5, <2>6 DEF Follows
  <2> QED
    BY <2>2, <2>3, <2>7 DEF a, b
<1>4. CASE j > Len(ops) + 1
  <2> DEFINE k == j - Len(ops) + 1
  <2>1. /\ k \in 2 .. Len(todo) /\ k > 2 /\ k - 1 \in 2 .. Len(todo)
        /\ Len(ops) + k - 1 = j /\ Len(ops) + (k - 1) - 1 = j - 1
    BY <1>1, <1>4
  <2> HIDE DEF k
  <2>2. todo'[j] = todo[k] /\ todo'[j - 1] = todo[k - 1]
    BY <1>1, <2>1
  <2> QED
    BY <2>1, <2>2 DEF Joined
<1> QED
  BY <1>1, <1>2, <1>3, <1>4
-----------------------------------------------------------------------------
(* A cell as the lexer and the parser make them; what may be behind a      *)
(* separator.                                                              *)
Proper(cell) ==
    /\ cell = [c |-> cell.c, at |-> cell.at, copied |-> cell.copied]
    /\ cell.at \in Nat /\ cell.copied \in BOOLEAN /\ (cell.at = 0 => ~cell.copied)
FineAt(text, i, sp) ==
    text[i] = Separator => text[i + 1].at \in sp \/ text[i + 1] \in {Wrote(","), Wrote(")")}
Orderly(text, sp) == /\ \A i \in 1 .. Len(text) : Proper(text[i])
                     /\ \A i \in 1 .. Len(text) - 1 : FineAt(text, i, sp)

Sound(op, sp) ==
    /\ op[1] = "expect" => op[2] # EOS
    /\ op[1] = "written" => op[3] \in Literals
    /\ op[1] \in {"more", "right", "combine"} => Orderly(op[3], sp)
ShapeOK == Joined(todo) /\ \A p \in 1 .. Len(todo) : Sound(todo[p], split)

(* There is a separator right in front of the current token.               *)
Stuck == t.begin > 0 /\ out[t.begin] = Separator

(* Operations that may take the place of the first one.                    *)
Keepers == {"definition", "further local", "field"}
Operands == {"operand", "binary", "more", "right", "combine"}
Kin(op) ==
    /\ op[1] \in Marked => op[2] = t \/ (Head1[1] \in Marked /\ op[2] = Head1[2])
    /\ op[1] \in {"pointer", "more", "right", "combine"} => Head1[1] \in Operands
OpFit(op) ==
    /\ Sound(op, split) /\ Kin(op)
    /\ op[1] = "embedded" => op[2].begin = t.begin
    /\ op[1] \in Marked =>
          \/ op[2].begin \in Mark(Head1)
          \/ /\ op[2].begin = t.begin /\ Head1[1] \notin Keepers
             /\ ~(Stuck /\ Head1[1] \in Passive)
Placed(op) ==
    op[1] \in Marked => \/ Gap(out, op[2].begin, t.begin)
                        \/ op[1] \in {"definition", "quote"}
                        \/ op[1] = "language" /\ t.from = op[2].from
Opens(a, b) ==
    /\ a[1] # "suffix"
    /\ Stuck /\ Head1[1] \in Passive => a[1] \in Passive \/ Head1[1] = "language"
    /\ Head1[1] \in Eats =>
          \/ a[1] \in Eats \/ b[1] \in Eats
          \/ Head1[1] = "language" /\ Gap(out, Head1[2].begin, t.begin)
    /\ a[1] \in Firsts \/ (a[1] = "look" /\ b[1] \in Firsts) =>
          t.token # EOS \/ (AllGap /\ Head1[1] \in Keepers)
    /\ Head1[1] = "language" => \/ Lang(a) /\ a[2] = Head1[2]
                                \/ a[1] # "embedded" /\ Lang(b) /\ b[2] = Head1[2]
Fit(ops) ==
    /\ IsSeq(ops) /\ Joined(ops) /\ Head1[1] \notin {"next", "look", "written"}
    /\ \A i \in 1 .. Len(ops) :
          OpFit(ops[i]) /\ (Placed(ops[i]) \/ (i > 1 /\ ops[1][1] \in Eats))
    /\ Len(ops) = 0 => Head1[1] \notin Pops \cup Eats
    /\ Len(ops) > 0 => /\ Opens(ops[1], ops[IF Len(ops) = 1 THEN 1 ELSE 2])
                       /\ Hands(Head1, ops[Len(ops)])

LEMMA StillOrderly ==
    ASSUME NEW sp, NEW sp2, sp \subseteq sp2
    PROVE  /\ \A text, i : FineAt(text, i, sp) => FineAt(text, i, sp2)
           /\ \A text : Orderly(text, sp) => Orderly(text, sp2)
           /\ \A op : Sound(op, sp) => Sound(op, sp2)
<1>1. ASSUME NEW text, NEW i, FineAt(text, i, sp)
      PROVE  FineAt(text, i, sp2)
  BY <1>1 DEF FineAt
<1>2. ASSUME NEW text, Orderly(text, sp)
      PROVE  Orderly(text, sp2)
  BY <1>1, <1>2 DEF Orderly
<1>3. ASSUME NEW op, Sound(op, sp)
      PROVE  Sound(op, sp2)
  BY <1>2, <1>3 DEF Sound
<1> QED
  BY <1>1, <1>2, <1>3

(* Operations put in front of the others keep that.                        *)
LEMMA ShapePut ==
    ASSUME TodoOK, todo # <<>>, ShapeOK, split \subseteq split',
           NEW ops, IsSeq(ops), Put(ops), Joined(ops), \A i \in 1 .. Len(ops) : Sound(ops[i], split),
           Len(ops) > 0 => Hands(Head1, ops[Len(ops)])
    PROVE  ShapeOK'
<1>1. Joined(todo')
  BY JoinedPut DEF ShapeOK
<1>2. /\ \A p \in 1 .. Len(ops) : todo'[p] = ops[p]
      /\ \A p \in 1 .. Len(todo') :
            \/ p \in 1 .. Len(ops)
            \/ \E k \in 2 .. Len(todo) : p = Len(ops) + k - 1 /\ todo'[p] = todo[k]
      /\ Len(todo) \in Nat
  BY PutPlaces
<1>3. ASSUME NEW p \in 1 .. Len(todo')
      PROVE  Sound(todo'[p], split)
  <2>1. CASE p \in 1 .. Len(ops)
    BY <1>2, <2>1
  <2>2. CASE \E k \in 2 .. Len(todo) : p = Len(ops) + k - 1 /\ todo'[p] = todo[k]
    BY <1>2, <2>2 DEF ShapeOK
  <2> QED
    BY <1>2, <2>1, <2>2
<1>4. \A p \in 1 .. Len(todo') : Sound(todo'[p], split')
  BY <1>3, StillOrderly
<1> QED
  BY <1>1, <1>4 DEF ShapeOK

(* The second operation may wait for a token only behind one that reads.   *)
LEMMA NotAdvancing ==
    ASSUME TodoOK, todo # <<>>, ShapeOK, Head1[1] \notin {"next", "look"},
           NEW ops, IsSeq(ops), Put(ops), Advancing(todo')
    PROVE  Len(ops) > 0 /\ Advancing(ops)
<1>1. /\ Len(ops) \in Nat /\ Len(todo) \in Nat /\ Len(todo) > 0
      /\ Len(todo') = Len(ops) + Len(todo) - 1
      /\ \A p \in 1 .. Len(ops) : todo'[p] = ops[p]
      /\ \A p \in 2 .. Len(todo) : todo'[Len(ops) + p - 1] = todo[p]
  BY PutPlaces
<1>2. Len(todo) > 1 => todo[2][1] \notin Firsts /\ todo[2][1] # "look"
  <2> SUFFICES ASSUME Len(todo) > 1
               PROVE  todo[2][1] \notin Firsts /\ todo[2][1] # "look"
    OBVIOUS
  <2>1. \A i \in 2 .. Len(todo) : Follows(todo[i - 1], todo[i])
    BY DEF ShapeOK, Joined
  <2>2. 2 \in 2 .. Len(todo) /\ 2 - 1 = 1
    BY <1>1
  <2>3. Follows(todo[1], todo[2])
    BY <2>1, <2>2
  <2> QED
    BY <2>3 DEF Follows, Head1
<1>3. /\ Len(todo') > 0
      /\ \/ todo'[1][1] \in Firsts
         \/ todo'[1][1] = "look" /\ Len(todo') > 1 /\ todo'[2][1] \in Firsts
  BY DEF Advancing
<1>4. Len(ops) > 0
  <2> SUFFICES ASSUME Len(ops) = 0 PROVE FALSE
    BY <1>1
  <2>1. Len(todo) > 1 /\ 2 \in 2 .. Len(todo) /\ Len(ops) + 2 - 1 = 1
    BY <1>1, <1>3
  <2>2. todo'[1] = todo[2]
    BY <1>1, <2>1
  <2> QED
    BY <1>2, <1>3, <2>1, <2>2
<1>5. todo'[1] = ops[1]
  BY <1>1, <1>4
<1>6. CASE Len(ops) > 1
  <2>1. todo'[2] = ops[2]
    BY <1>1, <1>6
  <2> QED
    BY <1>3, <1>4, <1>5, <1>6, <2>1 DEF Advancing
<1>7. CASE Len(ops) = 1
  <2>1. Len(todo') > 1 => todo'[2] = todo[2] /\ Len(todo) > 1
    <3> SUFFICES ASSUME Len(todo') > 1 PROVE todo'[2] = todo[2] /\ Len(todo) > 1
      OBVIOUS
    <3>1. 2 \in 2 .. Len(todo) /\ Len(ops) + 2 - 1 = 2
      BY <1>1, <1>7
    <3>2. todo'[Len(ops) + 2 - 1] = todo[2]
      BY <1>1, <3>1
    <3> QED
      BY <3>1, <3>2
  <2>2. todo'[1][1] \in Firsts
    BY <1>2, <1>3, <2>1
  <2> QED
    BY <1>4, <1>5, <2>2 DEF Advancing
<1>8. Len(ops) = 1 \/ Len(ops) > 1
  <2> DEFINE n == Len(ops)
  <2>1. n \in Nat /\ n > 0
    BY <1>1, <1>4
  <2> HIDE DEF n
  <2>2. n = 1 \/ n > 1
    BY <2>1
  <2> QED
    BY <2>2 DEF n
<1> QED
  BY <1>4, <1>6, <1>7, <1>8

LEMMA GapsPush ==
    ASSUME IInv, ShapeOK, GapsOK, Parsing, Quiet, NEW ops, Put(ops), Fit(ops)
    PROVE  GapsOK'
<1>1. TodoOK /\ todo # <<>> /\ ~ToT /\ ~ToT' /\ IsSeq(ops) /\ out' = out /\ t' = t
  BY DEF IInv, Parsing, ToT, Fit, Quiet
<1>2. /\ Len(ops) \in Nat /\ Len(todo) \in Nat /\ Len(todo) > 0
      /\ Len(todo') = Len(ops) + Len(todo) - 1
      /\ \A p \in 1 .. Len(ops) : todo'[p] = ops[p]
      /\ \A p \in 2 .. Len(todo) :
            /\ todo'[Len(ops) + p - 1] = todo[p]
            /\ Len(ops) + p - 1 \in Len(ops) + 1 .. Len(todo')
      /\ \A p \in 1 .. Len(todo') :
            \/ p \in 1 .. Len(ops)
            \/ \E k \in 2 .. Len(todo) : p = Len(ops) + k - 1 /\ todo'[p] = todo[k]
  BY <1>1, PutPlaces
<1>3. ASSUME NEW p \in 1 .. Len(ops), ops[p][1] \in Marked
      PROVE  Gap(out, ops[p][2].begin, t.begin) \/ Fresh(todo', t.from, p)
  <2>1. todo'[p] = ops[p] /\ (Placed(ops[p]) \/ (p > 1 /\ ops[1][1] \in Eats))
    BY <1>2 DEF Fit
  <2>2. CASE Placed(ops[p])
    BY <1>3, <2>1, <2>2 DEF Placed, Fresh
  <2>3. CASE p > 1 /\ ops[1][1] \in Eats
    <3>1. 1 \in 1 .. p - 1 /\ 1 \in 1 .. Len(ops)
      BY <1>2, <2>3
    <3>2. todo'[1][1] \in Eats
      BY <1>2, <2>3, <3>1
    <3> QED
      BY <3>1, <3>2 DEF Fresh
  <2> QED
    BY <2>1, <2>2, <2>3
<1>4. ASSUME NEW k \in 2 .. Len(todo), todo[k][1] \in Marked
      PROVE  Gap(out, todo[k][2].begin, t.begin) \/ Fresh(todo', t.from, Len(ops) + k - 1)
  <2> DEFINE p == Len(ops) + k - 1
  <2>1. p \in Nat /\ p > Len(ops) /\ todo'[p] = todo[k] /\ k \in 1 .. Len(todo)
    BY <1>2
  <2>2. Gap(out, todo[k][2].begin, t.begin) \/ Fresh(todo, t.from, k)
    BY <1>1, <1>4, <2>1 DEF GapsOK
  <2> HIDE DEF p
  <2>3. CASE todo[k][1] \in {"definition", "quote"} \/ (todo[k][1] = "language" /\ t.from = todo[k][2].from)
    BY <2>1, <2>3 DEF Fresh, p
  <2>4. ASSUME NEW q \in 2 .. k - 1, todo[q][1] \in Eats
        PROVE  Fresh(todo', t.from, p)
    <3>1. q \in 2 .. Len(todo) /\ Len(ops) + q - 1 \in 1 .. p - 1
      BY <1>2, <2>4 DEF p
    <3>2. todo'[Len(ops) + q - 1][1] \in Eats
      BY <1>2, <2>4, <3>1
    <3> QED
      BY <3>1, <3>2 DEF Fresh
  <2>5. CASE Head1[1] \in Eats
    <3>1. Len(ops) > 0 /\ Opens(ops[1], ops[IF Len(ops) = 1 THEN 1 ELSE 2])
      BY <1>2, <2>5 DEF Fit
    <3> DEFINE i == IF Len(ops) = 1 THEN 1 ELSE 2
    <3>2. i \in 1 .. Len(ops) /\ i \in 1 .. p - 1 /\ 1 \in 1 .. Len(ops) /\ 1 \in 1 .. p - 1
      <4> DEFINE n == Len(ops)
      <4>1. n \in Nat /\ n > 0 /\ p \in Nat /\ p > n
        BY <1>2, <2>1, <3>1
      <4> HIDE DEF n
      <4>2. (IF n = 1 THEN 1 ELSE 2) \in 1 .. n /\ n <= p - 1
        BY <4>1
      <4>3. (IF n = 1 THEN 1 ELSE 2) \in 1 .. p - 1 /\ 1 \in 1 .. n /\ 1 \in 1 .. p - 1
        BY <4>1, <4>2
      <4> QED
        BY <4>2, <4>3 DEF n
    <3>3. \/ ops[1][1] \in Eats \/ ops[i][1] \in Eats
          \/ Head1[1] = "language" /\ Gap(out, Head1[2].begin, t.begin)
      BY <2>5, <3>1 DEF Opens
    <3> HIDE DEF i
    <3>4. CASE ops[1][1] \in Eats \/ ops[i][1] \in Eats
      <4>1. todo'[1][1] \in Eats \/ todo'[i][1] \in Eats
        BY <1>2, <3>2, <3>4
      <4> QED
        BY <3>2, <4>1 DEF Fresh, p
    <3>5. CASE Head1[1] = "language" /\ Gap(out, Head1[2].begin, t.begin)
      <4>1. 1 \in 1 .. Len(todo) /\ todo[1] = Head1 /\ Head1[1] \in Marked
        BY <1>2, <3>5 DEF Head1, Marked
      <4>2. /\ todo[k][2].begin \in 0 .. t.begin /\ t.begin \in 0 .. Len(out) /\ Len(out) \in Nat
            /\ Head1[2].begin \in 0 .. t.begin
        BY <1>4, <2>1, <4>1, MarksThere
      <4>3. todo[k][2].begin <= Head1[2].begin
        <5>1. todo[k][2].begin \in Mark(todo[k]) /\ Head1[2].begin \in Mark(todo[1]) /\ 1 < k
          BY <1>2, <1>4, <4>1 DEF Mark
        <5>2. \A a, b \in 1 .. Len(todo) : a < b =>
                 \A x \in Mark(todo[a]), y \in Mark(todo[b]) : y <= x
          BY <1>1 DEF TodoOK
        <5> QED
          BY <2>1, <4>1, <5>1, <5>2
      <4> QED
        BY <3>5, <4>2, <4>3, GapWider
    <3> QED
      BY <3>3, <3>4, <3>5
  <2>6. CASE Gap(out, todo[k][2].begin, t.begin)
    BY <2>6
  <2>7. ASSUME Fresh(todo, t.from, k), Head1[1] \notin Eats
        PROVE  (\E q \in 2 .. k - 1 : todo[q][1] \in Eats)
               \/ todo[k][1] \in {"definition", "quote"}
               \/ (todo[k][1] = "language" /\ t.from = todo[k][2].from)
    <3> SUFFICES ASSUME NEW q \in 1 .. k - 1, todo[q][1] \in Eats
                 PROVE  q \in 2 .. k - 1
      BY <2>7 DEF Fresh
    <3>1. q # 1
      BY <2>7 DEF Head1
    <3> QED
      BY <1>2, <3>1
  <2> QED
    BY <2>2, <2>3, <2>4, <2>5, <2>6, <2>7 DEF p
<1>5. ASSUME NEW p \in 1 .. Len(todo'), todo'[p][1] \in Marked
      PROVE  Gap(out, todo'[p][2].begin, t.begin) \/ Fresh(todo', t.from, p)
  <2>1. CASE p \in 1 .. Len(ops)
    BY <1>2, <1>3, <1>5, <2>1
  <2>2. CASE \E k \in 2 .. Len(todo) : p = Len(ops) + k - 1 /\ todo'[p] = todo[k]
    BY <1>4, <1>5, <2>2
  <2> QED
    BY <1>2, <2>1, <2>2
<1>6. ASSUME Advancing(todo'), t.token = EOS
      PROVE  AllGap'
  <2>1. Len(ops) > 0 /\ Advancing(ops)
    BY <1>1, <1>6, NotAdvancing DEF Fit
  <2>2. AllGap /\ Head1[1] \in Keepers
    <3> DEFINE i == IF Len(ops) = 1 THEN 1 ELSE 2
    <3>1. Opens(ops[1], ops[i])
      BY <2>1 DEF Fit
    <3>2. ops[1][1] \in Firsts \/ (ops[1][1] = "look" /\ ops[i][1] \in Firsts)
      BY <1>2, <2>1 DEF Advancing
    <3> HIDE DEF i
    <3> QED
      BY <1>6, <3>1, <3>2 DEF Opens
  <2> SUFFICES ASSUME NEW p \in 1 .. Len(todo'), todo'[p][1] \in Marked
               PROVE  Gap(out, todo'[p][2].begin, t.begin)
    BY <1>1 DEF AllGap
  <2>3. CASE p \in 1 .. Len(ops)
    <3>1. todo'[p] = ops[p] /\ OpFit(ops[p])
      BY <1>2, <2>3 DEF Fit
    <3>2. ops[p][2].begin \in Mark(Head1)
      BY <2>2, <3>1 DEF OpFit
    <3>3. Head1[1] \in Marked /\ ops[p][2].begin = Head1[2].begin
      BY <3>2 DEF Mark
    <3>4. Gap(out, Head1[2].begin, t.begin)
      BY <1>2, <2>2, <3>3 DEF AllGap, Head1
    <3> QED
      BY <3>1, <3>3, <3>4
  <2>4. CASE \E k \in 2 .. Len(todo) : p = Len(ops) + k - 1 /\ todo'[p] = todo[k]
    BY <1>2, <2>2, <2>4 DEF AllGap
  <2> QED
    BY <1>2, <2>3, <2>4
<1>7. ~ToT' => \A p \in 1 .. Len(todo') : todo'[p][1] \in Marked =>
                  Gap(out', todo'[p][2].begin, t'.begin) \/ Fresh(todo', t'.from, p)
  BY <1>1, <1>5
<1>8. ToT' \/ Advancing(todo') => t'.token # EOS \/ AllGap'
  BY <1>1, <1>6
<1> QED
  BY <1>7, <1>8 DEF GapsOK
-----------------------------------------------------------------------------
(* Gaps stay as the buffer grows, and there is one in front of a token     *)
(* that comes later.                                                       *)
LEMMA GapsGrow ==
    ASSUME IInv, \A i \in 1 .. Len(out) : out'[i] = out[i],
           NEW p \in 1 .. Len(todo), todo[p][1] \in Marked, NEW e \in Int
    PROVE  /\ t.begin <= e /\ Gap(out, todo[p][2].begin, t.begin) => Gap(out', todo[p][2].begin, e)
           /\ Gap(out', t.begin, e) => Gap(out', todo[p][2].begin, e)
<1> DEFINE b == todo[p][2].begin
<1>1. b \in 0 .. t.begin /\ t.begin \in 0 .. Len(out) /\ Len(out) \in Nat
  BY MarksThere
<1> HIDE DEF b
<1>2. ASSUME t.begin <= e, Gap(out, b, t.begin)
      PROVE  Gap(out', b, e)
  <2>1. \A i \in b + 1 .. t.begin : out'[i] = out[i]
    BY <1>1
  <2>2. b \in Int /\ t.begin \in Int /\ b <= b
    BY <1>1
  <2> QED
    BY <1>2, <2>1, <2>2, GapWider
<1>3. ASSUME Gap(out', t.begin, e)
      PROVE  Gap(out', b, e)
  <2>1. b \in Int /\ t.begin \in Int /\ b <= t.begin /\ e <= e
    BY <1>1
  <2> QED
    BY <1>3, <2>1, GapWider
<1> QED
  BY <1>2, <1>3 DEF b

LEMMA AllGapLater ==
    ASSUME IInv, \A i \in 1 .. Len(out) : out'[i] = out[i],
           \A p \in 1 .. Len(todo') : \E q \in 1 .. Len(todo) : todo'[p] = todo[q],
           t # NoToken => /\ t.begin \in Int /\ t'.begin \in Int /\ t.begin <= t'.begin
                          /\ AllGap \/ Gap(out', t.begin, t'.begin)
    PROVE  AllGap'
<1> SUFFICES ASSUME NEW p \in 1 .. Len(todo'), todo'[p][1] \in Marked
             PROVE  Gap(out', todo'[p][2].begin, t'.begin)
  BY DEF AllGap
<1>1. PICK q \in 1 .. Len(todo) : todo'[p] = todo[q]
  OBVIOUS
<1>2. t # NoToken
  BY <1>1, MarksThere
<1>3. AllGap => Gap(out, todo[q][2].begin, t.begin)
  BY <1>1 DEF AllGap
<1> QED
  BY <1>1, <1>2, <1>3, GapsGrow

LEMMA GapsLexes ==
    ASSUME IInv, SeenOK, GapsOK, IInv', Lexes
    PROVE  GapsOK'
<1> DEFINE Ended == Ends /\ ~(lx.mode = "start" /\ current = EOZ)
<1>1. lx # Idle /\ todo' = todo /\ (GoesOn \/ Ended \/ EndOfText \/ GivesUp)
  BY LexMoves DEF Lexes, Leaves, Stays, Takes, Drops
<1>2. Reads /\ BufferOK /\ BufferOK'
  BY <1>1 DEF IInv, GoesOn, Ends, EndOfText, GivesUp, Reads
<1>3. /\ Len(out) \in Nat /\ Len(out') \in Nat /\ Len(out) <= Len(out')
      /\ \A i \in 1 .. Len(out) : out'[i] = out[i]
  BY <1>2, OutGrows
<1>4. t # NoToken => t.begin \in 0 .. Len(out) /\ t.begin \in Int
  BY TokenThere DEF IInv
<1>5. \A p \in 1 .. Len(todo') : \E q \in 1 .. Len(todo) : todo'[p] = todo[q]
  BY <1>1
<1>6. \A p \in 1 .. Len(todo) : todo[p][1] \in Marked /\ Gap(out, todo[p][2].begin, t.begin)
                                 => Gap(out', todo[p][2].begin, t.begin)
  <2> SUFFICES ASSUME NEW p \in 1 .. Len(todo), todo[p][1] \in Marked,
                      Gap(out, todo[p][2].begin, t.begin)
               PROVE  Gap(out', todo[p][2].begin, t.begin)
    OBVIOUS
  <2>1. t.begin \in Int /\ t.begin <= t.begin
    BY <1>4, MarksThere
  <2> QED
    BY <1>3, <2>1, GapsGrow
<1>7. ASSUME t' = t, ToT' <=> ToT
      PROVE  GapsOK'
  <2>1. ~ToT' => \A p \in 1 .. Len(todo') : todo'[p][1] \in Marked =>
                  Gap(out', todo'[p][2].begin, t'.begin) \/ Fresh(todo', t'.from, p)
    BY <1>1, <1>6, <1>7 DEF GapsOK
  <2>2. AllGap => AllGap'
    BY <1>1, <1>6, <1>7 DEF AllGap
  <2>3. ToT' \/ Advancing(todo') => t'.token # EOS \/ AllGap'
    BY <1>1, <1>7, <2>2 DEF GapsOK
  <2> QED
    BY <2>1, <2>3 DEF GapsOK
<1>8. ASSUME lx' = Idle, AllGap'
      PROVE  GapsOK'
  BY <1>8 DEF GapsOK, ToT, AllGap
<1>9. CASE GivesUp
  BY <1>7, <1>9 DEF GivesUp, ToT
<1>10. CASE GoesOn
  <2>1. t' = t /\ lx' # Idle /\ lx'.to = lx.to
    BY <1>10 DEF GoesOn, Idle
  <2> QED
    BY <1>1, <1>7, <2>1 DEF ToT
<1>11. ASSUME Ended \/ EndOfText, lx.to # "t"
       PROVE  GapsOK'
  <2>1. t' = t /\ lx' = Idle
    BY <1>11 DEF Ends, EndOfText, Gives
  <2> QED
    BY <1>7, <1>11, <2>1 DEF ToT
<1>12. ASSUME Ended, lx.to = "t"
       PROVE  GapsOK'
  <2>1. PICK k : lx' = Idle /\ t' = Token(k)
    BY <1>12 DEF Ends, Gives
  <2>2. t'.begin = lx.begin /\ t'.from = lx.from
    BY <2>1 DEF Token
  <2> SUFFICES ASSUME t # NoToken
               PROVE  /\ t.begin \in Int /\ t'.begin \in Int /\ t.begin <= t'.begin
                      /\ AllGap \/ Gap(out', t.begin, t'.begin)
    BY <1>3, <1>5, <1>8, <2>1, AllGapLater
  <2>3. /\ InPlace(out', source', t.begin, t.from) /\ InPlace(out', source', lx.begin, lx.from)
        /\ t.from <= lx.from
    <3>1. Held(t) /\ Held(lx) /\ t.from <= lx.from
      BY <1>12, TokenThere DEF IInv, Ends, Reading
    <3>2. linenumber' \in Nat
      BY <1>2 DEF BufferOK
    <3>3. \A tok : Held(tok) => InPlace(out', source', tok.begin, tok.from)
      BY <1>2, <3>2, Kept
    <3> QED
      BY <3>1, <3>3
  <2>4. Len(source') \in Nat
    BY <1>2, SeqLength DEF BufferOK
  <2>5. t.begin \in Int /\ t'.begin \in Int /\ t.begin <= t'.begin
    <3>1. t.begin \in Nat /\ lx.begin \in Nat
      BY <2>3 DEF InPlace
    <3>2. t.begin <= lx.begin
      BY <1>3, <2>3, <2>4, InOrder
    <3> QED
      BY <2>2, <3>1, <3>2
  <2>6. t.token # EOS \/ AllGap
    BY <1>1, <1>12 DEF GapsOK, ToT
  <2>7. t.token # EOS => Gap(out', t.begin, t'.begin)
    <3> SUFFICES ASSUME t.token # EOS PROVE Gap(out', t.begin, t'.begin)
      OBVIOUS
    <3>2. Between(source', t.from, lx.from)
      BY <1>1, <1>2, <1>12, SeenTokens
    <3> QED
      BY <1>3, <2>2, <2>3, <2>4, <3>2, GapConsumed
  <2> QED
    BY <2>5, <2>6, <2>7
<1>13. ASSUME EndOfText, lx.to = "t"
       PROVE  GapsOK'
  <2> DEFINE n == Len(out)
  <2>1. /\ lx' = Idle /\ UNCHANGED <<source, out>> /\ current = EOZ
        /\ t' = [Token(EOS) EXCEPT !.begin = n, !.from = Len(source) + 1]
    BY <1>13 DEF EndOfText, Gives
  <2>2. t'.begin = n /\ n \in Nat /\ Len(source) \in Nat
    BY <1>2, <1>3, <2>1, SeqLength DEF Token, BufferOK
  <2> SUFFICES ASSUME t # NoToken
               PROVE  /\ t.begin \in Int /\ t'.begin \in Int /\ t.begin <= t'.begin
                      /\ AllGap \/ Gap(out', t.begin, t'.begin)
    BY <1>3, <1>5, <1>8, <2>1, AllGapLater
  <2>3. t.token # EOS \/ AllGap
    BY <1>1, <1>13 DEF GapsOK, ToT
  <2>4. t.token # EOS => Gap(out', t.begin, t'.begin)
    <3> SUFFICES ASSUME t.token # EOS PROVE Gap(out, t.begin, n)
      BY <2>1, <2>2
    <3>1. PICK f \in t.from .. Len(source) : source[f] \notin White
      BY DEF SeenOK, Seen
    <3>2. t.from \in Nat /\ f \in t.from .. (Len(source) + 1) - 1
      BY <2>2, <3>1, TokenThere DEF IInv
    <3>3. Between(source, t.from, Len(source) + 1)
      BY <3>1, <3>2 DEF Between
    <3>4. InPlace(out, source, n, Len(source) + 1)
      BY <2>2 DEF InPlace
    <3>5. InPlace(out, source, t.begin, t.from)
      BY TokenThere DEF IInv, Held
    <3> QED
      BY <2>2, <3>3, <3>4, <3>5, GapConsumed
  <2> HIDE DEF n
  <2>5. t.begin \in Int /\ t'.begin \in Int /\ t.begin <= t'.begin
    BY <1>4, <2>2 DEF n
  <2> QED
    BY <2>3, <2>4, <2>5
<1> QED
  BY <1>1, <1>9, <1>10, <1>11, <1>12, <1>13

(* What luaX_next does to the tokens: the one read ahead comes later.      *)
LEMMA NextMoves ==
    ASSUME IInv, IInv', SeenOK, ShapeOK, GapsOK, Nexts, lookahead.token # EOS
    PROVE  /\ t # NoToken /\ UNCHANGED <<source, out, lx>> /\ lx = Idle /\ t' = lookahead
           /\ t.begin \in Nat /\ t'.begin \in Nat /\ t.begin <= t'.begin /\ Len(out) \in Nat
           /\ t.token # EOS => Gap(out, t.begin, t'.begin)
<1>1. /\ UNCHANGED <<source, out, lx>> /\ t' = lookahead /\ lx = Idle
  BY DEF Nexts, LuaXNext, input, At, Parsing
<1>2. t # NoToken
  BY DEF IInv, EarlyOK
<1>3. Held(t) /\ Held(lookahead) /\ t.from <= lookahead.from
  BY <1>2 DEF IInv, TokensOK
<1>4. Len(out) \in Nat /\ Len(source) \in Nat
  BY SeqLength DEF IInv, BufferOK
<1>5. /\ InPlace(out, source, t.begin, t.from)
      /\ InPlace(out, source, lookahead.begin, lookahead.from)
  BY <1>3 DEF Held
<1>6. t.begin \in Nat /\ lookahead.begin \in Nat
  BY <1>5 DEF InPlace
<1>7. t.begin <= lookahead.begin
  BY <1>3, <1>4, <1>5, InOrder
<1>8. t.token # EOS => Between(source, t.from, lookahead.from)
  BY DEF SeenOK
<1>9. t.token # EOS => Gap(out, t.begin, lookahead.begin)
  BY <1>4, <1>5, <1>8, GapConsumed
<1> QED
  BY <1>1, <1>2, <1>4, <1>6, <1>7, <1>9

LEMMA GapsNexts ==
    ASSUME IInv, IInv', SeenOK, ShapeOK, GapsOK, Nexts
    PROVE  GapsOK'
<1>1. /\ UNCHANGED <<source, out>> /\ todo # <<>> /\ Put(<<>>) /\ lx = Idle
  BY DEF Nexts, LuaXNext, input, At, Parsing
<1>2. \A p \in 1 .. Len(todo') : \E q \in 1 .. Len(todo) : todo'[p] = todo[q]
  <2>1. IsSeq(<<>>) /\ Len(<<>>) = 0
    BY SeqShort
  <2>2. \A p \in 1 .. Len(todo') :
            \/ p \in 1 .. Len(<<>>)
            \/ \E k \in 2 .. Len(todo) : p = Len(<<>>) + k - 1 /\ todo'[p] = todo[k]
    BY <1>1, <2>1, PutPlaces, SMTT(30) DEF IInv
  <2>3. \A p \in 1 .. Len(todo') : \E k \in 2 .. Len(todo) : todo'[p] = todo[k]
    BY <2>1, <2>2
  <2>4. Len(todo) \in Nat
    BY SeqLength DEF IInv, TodoOK
  <2> QED
    BY <2>3, <2>4
<1>3. t.token # EOS \/ AllGap
  <2>1. Len(todo) \in Nat /\ Len(todo) > 0 /\ 1 \in 1 .. Len(todo)
    BY <1>1, SeqLength, SeqTail DEF IInv, TodoOK
  <2>2. CASE At("next")
    <3>1. Advancing(todo)
      BY <2>1, <2>2 DEF Advancing, Firsts, At, Head1
    <3> QED
      BY <3>1 DEF GapsOK
  <2>3. CASE At("expect") /\ t.token = Head1[2]
    <3>1. Sound(todo[1], split)
      BY <2>1 DEF ShapeOK
    <3> QED
      BY <2>3, <3>1 DEF Sound, At, Head1
  <2> QED
    BY <2>2, <2>3 DEF Nexts
<1>4. CASE lookahead.token # EOS
  <2>1. /\ t # NoToken /\ lx' = Idle
        /\ t.begin \in Nat /\ t'.begin \in Nat /\ t.begin <= t'.begin
        /\ t.token # EOS => Gap(out, t.begin, t'.begin)
    BY <1>1, <1>4, NextMoves
  <2>2. AllGap'
    BY <1>1, <1>2, <1>3, <2>1, AllGapLater
  <2> QED
    BY <2>1, <2>2 DEF GapsOK, ToT, AllGap
<1>5. CASE lookahead.token = EOS
  <2>1. t' = t /\ lx' # Idle /\ lx'.to = "t"
    BY <1>5 DEF Nexts, LuaXNext, Begin, tokens, Idle
  <2>2. ToT'
    BY <2>1 DEF ToT
  <2>3. AllGap => AllGap'
    BY <1>1, <1>2, <2>1 DEF AllGap
  <2> QED
    BY <1>3, <2>1, <2>2, <2>3 DEF GapsOK
<1> QED
  BY <1>4, <1>5

LEMMA GapsLooks ==
    ASSUME IInv, ShapeOK, GapsOK, Looks
    PROVE  GapsOK'
<1>1. /\ UNCHANGED <<out, t>> /\ todo # <<>> /\ Put(<<>>) /\ lx = Idle /\ Head1[1] = "look"
      /\ lx' = lx \/ lx'.to = "lookahead"
  BY DEF Looks, LuaXLookahead, At, Parsing, tokens, Begin
<1>2. ~ToT /\ ~ToT'
  BY <1>1 DEF ToT
<1>3. /\ Len(todo) \in Nat /\ Len(todo) > 0 /\ Len(todo') = Len(todo) - 1
      /\ \A p \in 2 .. Len(todo) : todo'[p - 1] = todo[p]
      /\ \A p \in 1 .. Len(todo') : p + 1 \in 2 .. Len(todo) /\ todo'[p] = todo[p + 1]
  <2>1. IsSeq(<<>>) /\ Len(<<>>) = 0
    BY SeqShort
  <2>2. TodoOK /\ todo # <<>> /\ Put(<<>>)
    BY <1>1 DEF IInv
  <2>3. /\ Len(todo) \in Nat /\ Len(todo) > 0 /\ Len(todo') = Len(<<>>) + Len(todo) - 1
        /\ \A p \in 2 .. Len(todo) : todo'[Len(<<>>) + p - 1] = todo[p]
    BY <2>1, <2>2, PutPlaces
  <2>4. \A p \in 2 .. Len(todo) : Len(<<>>) + p - 1 = p - 1
    BY <2>1, <2>3
  <2>5. Len(todo') = Len(todo) - 1 /\ \A p \in 2 .. Len(todo) : todo'[p - 1] = todo[p]
    BY <2>1, <2>3, <2>4
  <2>6. ASSUME NEW p \in 1 .. Len(todo')
        PROVE  p + 1 \in 2 .. Len(todo) /\ todo'[p] = todo[p + 1]
    <3>1. p + 1 \in 2 .. Len(todo) /\ (p + 1) - 1 = p
      BY <2>3, <2>5
    <3> QED
      BY <2>5, <3>1
  <2> QED
    BY <2>3, <2>5, <2>6
<1>4. ASSUME NEW p \in 1 .. Len(todo'), todo'[p][1] \in Marked
      PROVE  Gap(out, todo'[p][2].begin, t.begin) \/ Fresh(todo', t.from, p)
  <2>1. p + 1 \in 1 .. Len(todo) /\ todo'[p] = todo[p + 1] /\ (p + 1) - 1 = p
    BY <1>3
  <2>2. Gap(out, todo[p + 1][2].begin, t.begin) \/ Fresh(todo, t.from, p + 1)
    BY <1>2, <1>4, <2>1 DEF GapsOK
  <2>3. ASSUME NEW q \in 1 .. p, todo[q][1] \in Eats
        PROVE  Fresh(todo', t.from, p)
    <3>1. q # 1
      BY <1>1, <2>3 DEF Head1, Eats
    <3>2. q \in 2 .. Len(todo) /\ q - 1 \in 1 .. p - 1
      BY <1>3, <3>1
    <3>3. todo'[q - 1][1] \in Eats
      BY <1>3, <2>3, <3>2
    <3> QED
      BY <3>2, <3>3 DEF Fresh
  <2>4. ASSUME Fresh(todo, t.from, p + 1)
        PROVE  Fresh(todo', t.from, p)
    <3>1. CASE \E q \in 1 .. (p + 1) - 1 : todo[q][1] \in Eats
      BY <2>1, <2>3, <3>1
    <3> QED
      BY <2>1, <2>4, <3>1 DEF Fresh
  <2> QED
    BY <2>1, <2>2, <2>4
<1>5. ASSUME Advancing(todo')
      PROVE  Advancing(todo)
  <2>1. Len(todo) > 1 /\ todo'[1] = todo[2] /\ (Len(todo') > 1 => Len(todo) > 2 /\ todo'[2] = todo[3])
    <3>1. 1 \in 1 .. Len(todo') /\ 1 + 1 = 2 /\ 2 + 1 = 3 /\ Len(todo) > 1
      BY <1>3, <1>5 DEF Advancing
    <3> QED
      BY <1>3, <3>1
  <2>2. todo[2][1] # "look"
    <3>1. \A i \in 2 .. Len(todo) : todo[i][1] # "look"
      BY DEF ShapeOK, Joined, Follows
    <3> QED
      BY <1>3, <2>1, <3>1
  <2> QED
    BY <1>1, <1>5, <2>1, <2>2 DEF Advancing, Head1
<1>6. AllGap => AllGap'
  <2>1. \A p \in 1 .. Len(todo') : p + 1 \in 1 .. Len(todo)
    BY <1>3
  <2> QED
    BY <1>1, <1>3, <2>1 DEF AllGap
<1>7. ~ToT' => \A p \in 1 .. Len(todo') : todo'[p][1] \in Marked =>
                  Gap(out', todo'[p][2].begin, t'.begin) \/ Fresh(todo', t'.from, p)
  BY <1>1, <1>4
<1>8. ToT' \/ Advancing(todo') => t'.token # EOS \/ AllGap'
  BY <1>1, <1>2, <1>5, <1>6 DEF GapsOK
<1> QED
  BY <1>7, <1>8 DEF GapsOK
-----------------------------------------------------------------------------
(* What luaX_patchbegin and luaX_patchend make of the buffer: b is where   *)
(* the text begins that is replaced, e where the current token begins now. *)
Patched(text, b, e) ==
    /\ b \in Nat /\ e \in Nat /\ t.begin \in Nat /\ Len(out) \in Nat /\ Len(text) \in Nat
    /\ Head1[2].begin \in 0 .. b /\ b < t.begin /\ t.begin <= Len(out)
    /\ b + Len(text) <= e /\ t'.begin = e /\ Len(out') = e + (Len(out) - t.begin)
    /\ \A i \in Head1[2].begin + 1 .. b : out[i].c \in White
    /\ \A i \in 1 .. b : out'[i] = out[i]
    /\ \A i \in 1 .. Len(text) : out'[b + i] = text[i]
    /\ \A i \in b + Len(text) + 1 .. e : out'[i] = Wrote("\n")
    /\ \A i \in 1 .. Len(out) - t.begin : out'[e + i] = out[t.begin + i]
    /\ t'.token = t.token /\ t'.from = t.from
    /\ lookahead'.token = lookahead.token /\ lookahead'.from = lookahead.from
Patchers == {"written", "pointer", "combine"}

(* There is text to replace: luaX_patchbegin stops in front of the token.  *)
LEMMA BeforeToken ==
    ASSUME IInv, GapsOK, Parsing, Head1[1] \in Patchers
    PROVE  /\ IsToken(Skipped(Head1[2])) /\ IsToken(Head1[2]) /\ t # NoToken
           /\ Head1[2].begin \in 0 .. Skipped(Head1[2]).begin
           /\ Skipped(Head1[2]).begin \in Nat /\ t.begin \in Nat /\ Len(out) \in Nat
           /\ Skipped(Head1[2]).begin < t.begin /\ t.begin <= Len(out)
           /\ \A i \in Head1[2].begin + 1 .. Skipped(Head1[2]).begin : out[i].c \in White
<1> DEFINE tok == Head1[2]
           b == Skipped(tok).begin
<1>1. Head1[1] \in Marked /\ Head1[1] \notin {"definition", "quote", "language"}
  BY DEF Patchers, Marked
<1>2. 1 \in 1 .. Len(todo) /\ todo[1] = Head1
  <2>1. todo # <<>> /\ IsSeq(todo)
    BY DEF Parsing, IInv, TodoOK
  <2>2. Len(todo) > 0 /\ Len(todo) \in Nat
    BY <2>1, SeqTail, SeqLength
  <2> QED
    BY <2>2 DEF Head1
<1>3. t # NoToken /\ tok.begin \in 0 .. t.begin /\ t.begin \in 0 .. Len(out) /\ Len(out) \in Nat
  BY <1>1, <1>2, MarksThere
<1>4. IsToken(tok)
  BY <1>1, HandedOn
<1>5. ~Fresh(todo, t.from, 1)
  BY <1>1, <1>2 DEF Fresh
<1>6. Gap(out, tok.begin, t.begin)
  <2>1. ~ToT
    BY DEF Parsing, ToT
  <2>2. Gap(out, todo[1][2].begin, t.begin) \/ Fresh(todo, t.from, 1)
    BY <1>1, <1>2, <2>1 DEF GapsOK
  <2> QED
    BY <1>2, <1>5, <2>2
<1>7. /\ IsToken(Skipped(tok)) /\ Skipped(tok).begin \in tok.begin .. Len(out)
      /\ \A i \in tok.begin + 1 .. Skipped(tok).begin : out[i].c \in White
  <2>1. IsSeq(out) /\ tok.begin \in 0 .. Len(out)
    BY <1>3 DEF IInv, BufferOK
  <2> HIDE DEF tok
  <2> QED
    BY <1>4, <2>1, SkippedThere
<1>8. PICK i \in tok.begin + 1 .. t.begin : out[i].c \notin White
  BY <1>6 DEF Gap
<1>9. Skipped(tok).begin < t.begin
  <2>1. i \notin tok.begin + 1 .. Skipped(tok).begin
    BY <1>7, <1>8
  <2>2. tok.begin \in Nat /\ Skipped(tok).begin \in Nat /\ t.begin \in Nat /\ i \in Nat
    BY <1>3, <1>7, <1>8
  <2> HIDE DEF tok
  <2> QED
    BY <1>8, <2>1, <2>2
<1> HIDE DEF tok
<1>10. Skipped(tok).begin \in Nat /\ t.begin \in Nat /\ tok.begin \in 0 .. Skipped(tok).begin
       /\ t.begin <= Len(out)
  BY <1>3, <1>7
<1> QED
  BY <1>3, <1>4, <1>7, <1>9, <1>10 DEF tok

(* The lines that luaX_patchend makes up for.                              *)
Rows(text) ==
    LET last == Skipped(Head1[2]).linebegin + Newlines(text)
    IN  IF t.linebegin > last THEN t.linebegin - last ELSE 0

LEMMA PatchMakes ==
    ASSUME IInv, GapsOK, Parsing, Head1[1] \in Patchers,
           NEW text, IsSeq(text), Patch(Head1[2], text)
    PROVE  \E e \in Nat : /\ Patched(text, Skipped(Head1[2]).begin, e)
                         /\ e = Skipped(Head1[2]).begin + Len(text) + Rows(text)
<1> DEFINE tok == Head1[2]
           sk == Skipped(tok)
           b == sk.begin
<1>1. /\ IsToken(sk) /\ IsToken(tok) /\ t # NoToken
      /\ tok.begin \in 0 .. b
      /\ b \in Nat /\ t.begin \in Nat /\ Len(out) \in Nat
      /\ b < t.begin /\ t.begin <= Len(out)
      /\ \A i \in tok.begin + 1 .. b : out[i].c \in White
  BY BeforeToken
<1> HIDE DEF tok
<1> DEFINE last == sk.linebegin + Newlines(text)
           n == IF t.linebegin > last THEN t.linebegin - last ELSE 0
           kept == SubSeq(out, 1, b)
           rows == Times(n, Wrote("\n"))
           upto == kept \o text \o rows
           rest == SubSeq(out, t.begin + 1, Len(out))
<1>2. /\ out' = upto \o rest
      /\ t' = Shifted(t, Len(upto), t.begin)
      /\ lookahead' = Shifted(lookahead, Len(upto), t.begin)
  BY Zenon DEF Patch, tok
<1>3. n \in Nat
  <2>1. Newlines(text) \in Nat /\ sk.linebegin \in Nat /\ t.linebegin \in Nat
    <3>1. IsToken(t)
      BY DEF IInv, TokensOK
    <3> HIDE DEF sk
    <3> QED
      BY <1>1, <3>1, Texts DEF IsToken
  <2> HIDE DEF sk
  <2> QED
    BY <2>1
<1>0. n = Rows(text)
  BY DEF Rows, tok
<1> HIDE DEF n, sk
<1>4. IsSeq(out) /\ IsToken(t) /\ IsToken(lookahead)
  BY DEF IInv, BufferOK, TokensOK
<1>5. /\ IsSeq(kept) /\ Len(kept) = b
      /\ \A i \in 1 .. b : kept[i] = out[i]
  <2>1. b \in 1 - 1 .. Len(out) /\ 1 \in 1 .. Len(out) + 1 /\ 1 + b - 1 = b
    BY <1>1
  <2>2. /\ IsSeq(kept) /\ Len(kept) = 1 + b - 1
        /\ \A i \in 1 .. 1 + b - 1 : kept[i] = out[i + 1 - 1]
    BY <1>4, <2>1, SeqSub
  <2>3. \A i \in 1 .. b : i + 1 - 1 = i
    BY <1>1
  <2> HIDE DEF kept
  <2> QED
    BY <2>1, <2>2, <2>3
<1>6. /\ IsSeq(rows) /\ Len(rows) = n
      /\ \A i \in 1 .. n : rows[i] = Wrote("\n")
  <2>1. DOMAIN rows = 1 .. n /\ rows = [i \in DOMAIN rows |-> rows[i]]
    BY DEF Times
  <2>2. \A i \in 1 .. n : rows[i] = Wrote("\n")
    BY DEF Times
  <2> HIDE DEF rows
  <2> QED
    BY <1>3, <2>1, <2>2, SeqMade
<1>7. /\ IsSeq(rest) /\ Len(rest) = Len(out) - t.begin
      /\ \A i \in 1 .. Len(out) - t.begin : rest[i] = out[t.begin + i]
  <2>1. /\ t.begin + 1 \in 1 .. Len(out) + 1 /\ Len(out) \in (t.begin + 1) - 1 .. Len(out)
        /\ 1 + Len(out) - (t.begin + 1) = Len(out) - t.begin
    BY <1>1
  <2>2. /\ IsSeq(rest) /\ Len(rest) = 1 + Len(out) - (t.begin + 1)
        /\ \A i \in 1 .. 1 + Len(out) - (t.begin + 1) : rest[i] = out[i + (t.begin + 1) - 1]
    BY <1>4, <2>1, SeqSub
  <2>3. \A i \in 1 .. Len(out) - t.begin : i + (t.begin + 1) - 1 = t.begin + i
    BY <1>1
  <2> HIDE DEF rest
  <2> QED
    BY <2>1, <2>2, <2>3
<1> HIDE DEF kept, rows, rest
<1> DEFINE m == Len(text)
<1>8. m \in Nat
  BY SeqLength
<1>9. /\ IsSeq(kept \o text) /\ Len(kept \o text) = b + m
      /\ \A i \in 1 .. b : (kept \o text)[i] = out[i]
      /\ \A i \in 1 .. m : (kept \o text)[b + i] = text[i]
  <2>1. /\ IsSeq(kept \o text) /\ Len(kept \o text) = Len(kept) + Len(text)
        /\ \A i \in 1 .. Len(kept) : (kept \o text)[i] = kept[i]
        /\ \A i \in 1 .. Len(text) : (kept \o text)[Len(kept) + i] = text[i]
    <3>1. IsSeq(kept) /\ IsSeq(text)
      BY <1>5
    <3> QED
      BY <3>1, SeqJoin
  <2> DEFINE both == kept \o text
             k == Len(kept)
  <2>2. k = b /\ \A i \in 1 .. b : kept[i] = out[i]
    BY <1>5
  <2>3. /\ IsSeq(both) /\ Len(both) = k + m
        /\ \A i \in 1 .. k : both[i] = kept[i]
        /\ \A i \in 1 .. m : both[k + i] = text[i]
    BY <2>1
  <2> HIDE DEF both, k, m
  <2>4. /\ IsSeq(both) /\ Len(both) = b + m
        /\ \A i \in 1 .. b : both[i] = out[i]
        /\ \A i \in 1 .. m : both[b + i] = text[i]
    BY <2>2, <2>3
  <2> QED
    BY <2>4 DEF both
<1> DEFINE first == kept \o text
<1> HIDE DEF first, m
<1>10. /\ IsSeq(first) /\ Len(first) = b + m
       /\ \A i \in 1 .. b : first[i] = out[i]
       /\ \A i \in 1 .. m : first[b + i] = text[i]
  BY <1>9 DEF first, m
<1>11. /\ IsSeq(upto) /\ Len(upto) = b + m + n
       /\ \A i \in 1 .. b + m : upto[i] = first[i]
       /\ \A i \in 1 .. n : upto[b + m + i] = Wrote("\n")
  <2>1. upto = first \o rows
    BY DEF first
  <2>2. /\ IsSeq(first \o rows) /\ Len(first \o rows) = Len(first) + Len(rows)
        /\ \A i \in 1 .. Len(first) : (first \o rows)[i] = first[i]
        /\ \A i \in 1 .. Len(rows) : (first \o rows)[Len(first) + i] = rows[i]
    <3>1. IsSeq(first) /\ IsSeq(rows)
      BY <1>6, <1>10
    <3> QED
      BY <3>1, SeqJoin
  <2> DEFINE both == first \o rows
             k == Len(first)
             l == Len(rows)
  <2>3. k = b + m /\ l = n /\ upto = both
    BY <1>6, <1>10, <2>1
  <2>4. /\ IsSeq(both) /\ Len(both) = k + l
        /\ \A i \in 1 .. k : both[i] = first[i]
        /\ \A i \in 1 .. l : both[k + i] = rows[i]
    BY <2>2
  <2> HIDE DEF both, k, l, upto
  <2> QED
    BY <1>6, <2>3, <2>4
<1> HIDE DEF upto
<1> DEFINE e == b + m + n
<1>12. /\ Len(out') = e + (Len(out) - t.begin)
       /\ \A i \in 1 .. e : out'[i] = upto[i]
       /\ \A i \in 1 .. Len(out) - t.begin : out'[e + i] = out[t.begin + i]
  <2>1. /\ Len(upto \o rest) = Len(upto) + Len(rest)
        /\ \A i \in 1 .. Len(upto) : (upto \o rest)[i] = upto[i]
        /\ \A i \in 1 .. Len(rest) : (upto \o rest)[Len(upto) + i] = rest[i]
    <3>1. IsSeq(upto) /\ IsSeq(rest)
      BY <1>7, <1>11
    <3> QED
      BY <3>1, SeqJoin
  <2> DEFINE both == upto \o rest
             k == Len(upto)
             l == Len(rest)
  <2>2. k = e /\ l = Len(out) - t.begin /\ out' = both
    BY <1>2, <1>7, <1>11
  <2>3. /\ Len(both) = k + l
        /\ \A i \in 1 .. k : both[i] = upto[i]
        /\ \A i \in 1 .. l : both[k + i] = rest[i]
    BY <2>1
  <2> HIDE DEF both, k, l, e
  <2> QED
    BY <1>7, <2>2, <2>3
<1>13. e \in Nat /\ b + m <= e /\ e - (b + m) = n
  BY <1>1, <1>3, <1>8
<1>14. /\ t'.begin = e /\ t'.token = t.token /\ t'.from = t.from
       /\ lookahead'.token = lookahead.token /\ lookahead'.from = lookahead.from
  <2>1. /\ t'.begin = (t.begin + e) - t.begin /\ t'.token = t.token /\ t'.from = t.from
        /\ lookahead'.token = lookahead.token /\ lookahead'.from = lookahead.from
    BY <1>2, <1>4, <1>11 DEF Shifted, IsToken
  <2> HIDE DEF e
  <2> QED
    BY <1>1, <1>13, <2>1
<1>15. \A i \in 1 .. b : out'[i] = out[i]
  <2> SUFFICES ASSUME NEW i \in 1 .. b PROVE out'[i] = out[i]
    OBVIOUS
  <2>1. i \in 1 .. b + m /\ i \in 1 .. e
    BY <1>1, <1>3, <1>8
  <2> QED
    BY <1>10, <1>11, <1>12, <2>1
<1>16. \A i \in 1 .. m : out'[b + i] = text[i]
  <2> SUFFICES ASSUME NEW i \in 1 .. m PROVE out'[b + i] = text[i]
    OBVIOUS
  <2>1. b + i \in 1 .. b + m /\ b + i \in 1 .. e
    BY <1>1, <1>3, <1>8
  <2> QED
    BY <1>10, <1>11, <1>12, <2>1
<1>17. \A i \in b + m + 1 .. e : out'[i] = Wrote("\n")
  <2> SUFFICES ASSUME NEW i \in b + m + 1 .. e PROVE out'[i] = Wrote("\n")
    OBVIOUS
  <2>1. i - (b + m) \in 1 .. n /\ b + m + (i - (b + m)) = i /\ i \in 1 .. e
    BY <1>1, <1>3, <1>8, SMTT(30)
  <2> QED
    BY <1>11, <1>12, <2>1
<1> HIDE DEF e
<1>18. Patched(text, b, e)
  BY <1>1, <1>8, <1>12, <1>13, <1>14, <1>15, <1>16, <1>17 DEF Patched, sk, tok, m
<1>19. e = b + m + Rows(text)
  BY <1>0 DEF e
<1> QED
  BY <1>13, <1>18, <1>19 DEF sk, tok, m
-----------------------------------------------------------------------------
(* What luaX_insertbeforecurrenttoken makes of the buffer.                 *)
Inserted(cell) ==
    /\ t.begin \in Nat /\ Len(out) \in Nat /\ t.begin <= Len(out) /\ t'.begin = t.begin + 1
    /\ Len(out') = Len(out) + 1
    /\ \A i \in 1 .. t.begin : out'[i] = out[i]
    /\ out'[t.begin + 1] = cell
    /\ \A i \in 1 .. Len(out) - t.begin : out'[t.begin + 1 + i] = out[t.begin + i]
    /\ t'.token = t.token /\ t'.from = t.from
    /\ lookahead'.token = lookahead.token /\ lookahead'.from = lookahead.from

LEMMA InsertMakes ==
    ASSUME IInv, t # NoToken, NEW cell, Insert(cell)
    PROVE  Inserted(cell)
<1>1. t.begin \in 0 .. Len(out) /\ Len(out) \in Nat /\ t.begin \in Nat
  BY TokenThere DEF IInv
<1>2. IsSeq(out) /\ IsToken(t) /\ IsToken(lookahead)
  BY DEF IInv, BufferOK, TokensOK
<1> DEFINE kept == SubSeq(out, 1, t.begin)
           rest == SubSeq(out, t.begin + 1, Len(out))
           first == kept \o <<cell>>
           both == first \o rest
<1>3. IsSeq(kept) /\ Len(kept) = t.begin /\ \A i \in 1 .. t.begin : kept[i] = out[i]
  <2>1. t.begin \in 1 - 1 .. Len(out) /\ 1 \in 1 .. Len(out) + 1 /\ 1 + t.begin - 1 = t.begin
    BY <1>1
  <2>2. /\ IsSeq(kept) /\ Len(kept) = 1 + t.begin - 1
        /\ \A i \in 1 .. 1 + t.begin - 1 : kept[i] = out[i + 1 - 1]
    BY <1>2, <2>1, SeqSub
  <2>3. \A i \in 1 .. t.begin : i + 1 - 1 = i
    BY <1>1
  <2> HIDE DEF kept
  <2> QED
    BY <2>1, <2>2, <2>3
<1>4. /\ IsSeq(rest) /\ Len(rest) = Len(out) - t.begin
      /\ \A i \in 1 .. Len(out) - t.begin : rest[i] = out[t.begin + i]
  <2>1. /\ t.begin + 1 \in 1 .. Len(out) + 1 /\ Len(out) \in (t.begin + 1) - 1 .. Len(out)
        /\ 1 + Len(out) - (t.begin + 1) = Len(out) - t.begin
    BY <1>1
  <2>2. /\ IsSeq(rest) /\ Len(rest) = 1 + Len(out) - (t.begin + 1)
        /\ \A i \in 1 .. 1 + Len(out) - (t.begin + 1) : rest[i] = out[i + (t.begin + 1) - 1]
    BY <1>2, <2>1, SeqSub
  <2>3. \A i \in 1 .. Len(out) - t.begin : i + (t.begin + 1) - 1 = t.begin + i
    BY <1>1
  <2> HIDE DEF rest
  <2> QED
    BY <2>1, <2>2, <2>3
<1>5. out' = both
  BY DEF Insert
<1>6. IsSeq(<<cell>>) /\ Len(<<cell>>) = 1 /\ <<cell>>[1] = cell
  BY SeqShort
<1> HIDE DEF kept, rest
<1>7. /\ IsSeq(first) /\ Len(first) = t.begin + 1
      /\ \A i \in 1 .. t.begin : first[i] = out[i]
      /\ first[t.begin + 1] = cell
  <2>1. IsSeq(kept) /\ IsSeq(<<cell>>)
    BY <1>3, <1>6
  <2>2. /\ IsSeq(first) /\ Len(first) = Len(kept) + Len(<<cell>>)
        /\ \A i \in 1 .. Len(kept) : first[i] = kept[i]
        /\ \A i \in 1 .. Len(<<cell>>) : first[Len(kept) + i] = <<cell>>[i]
    BY <2>1, SeqJoin
  <2> DEFINE one == <<cell>>
             k == Len(kept)
  <2>3. /\ Len(first) = k + Len(one) /\ Len(one) = 1 /\ one[1] = cell /\ k = t.begin
        /\ \A i \in 1 .. k : first[i] = kept[i]
        /\ \A i \in 1 .. Len(one) : first[k + i] = one[i]
    BY <1>3, <1>6, <2>2
  <2> HIDE DEF one, k, first
  <2> QED
    BY <1>3, <2>2, <2>3
<1> HIDE DEF first
<1>8. /\ Len(both) = t.begin + 1 + (Len(out) - t.begin)
      /\ \A i \in 1 .. t.begin + 1 : both[i] = first[i]
      /\ \A i \in 1 .. Len(out) - t.begin : both[t.begin + 1 + i] = out[t.begin + i]
  <2>1. IsSeq(first) /\ IsSeq(rest)
    BY <1>4, <1>7
  <2>2. /\ Len(both) = Len(first) + Len(rest)
        /\ \A i \in 1 .. Len(first) : both[i] = first[i]
        /\ \A i \in 1 .. Len(rest) : both[Len(first) + i] = rest[i]
    BY <2>1, SeqJoin
  <2> DEFINE k == Len(first)
             l == Len(rest)
  <2>3. /\ k = t.begin + 1 /\ l = Len(out) - t.begin /\ Len(both) = k + l
        /\ \A i \in 1 .. k : both[i] = first[i]
        /\ \A i \in 1 .. l : both[k + i] = rest[i]
    BY <1>4, <1>7, <2>2
  <2> HIDE DEF k, l, both
  <2> QED
    BY <1>4, <2>3
<1> HIDE DEF both
<1>9. /\ t'.begin = t.begin + 1 /\ t'.token = t.token /\ t'.from = t.from
      /\ lookahead'.token = lookahead.token /\ lookahead'.from = lookahead.from
  BY <1>2 DEF Insert, IsToken
<1>10. Len(out') = Len(out) + 1
  BY <1>1, <1>5, <1>8
<1> QED
  BY <1>1, <1>5, <1>7, <1>8, <1>9, <1>10 DEF Inserted

(* All gaps are there once something is written.                           *)
LEMMA GapsPatch ==
    ASSUME IInv, GapsOK, Parsing, Head1[1] \in Patchers, UNCHANGED lx,
           NEW text, IsSeq(text), Len(text) > 0, text[1].c \notin White, Patch(Head1[2], text),
           NEW ops, IsSeq(ops), Put(ops),
           \A i \in 1 .. Len(ops) : ops[i][1] \in Marked
                                    => ops[i][2].begin = Skipped(Head1[2]).begin
    PROVE  GapsOK'
<1> DEFINE b == Skipped(Head1[2]).begin
<1>1. PICK e \in Nat : Patched(text, b, e)
  BY PatchMakes
<1> HIDE DEF b
<1>2. /\ b \in Nat /\ b + 1 \in Nat /\ Head1[2].begin \in 0 .. b /\ t'.begin = e
      /\ b + 1 <= e /\ out'[b + 1] = text[1]
  <2>1. Len(text) \in Nat
    BY SeqLength
  <2> DEFINE m == Len(text)
  <2>2. m \in Nat /\ m > 0 /\ 1 \in 1 .. m
    BY <2>1
  <2> HIDE DEF m
  <2>3. /\ b \in Nat /\ Head1[2].begin \in 0 .. b /\ t'.begin = e /\ b + m <= e
        /\ out'[b + 1] = text[1]
    BY <1>1, <2>2 DEF Patched, m
  <2> QED
    BY <2>2, <2>3
<1>3. \A x \in 0 .. b : Gap(out', x, t'.begin)
  <2> SUFFICES ASSUME NEW x \in 0 .. b PROVE Gap(out', x, t'.begin)
    OBVIOUS
  <2>1. b + 1 \in x + 1 .. t'.begin
    BY <1>2
  <2> QED
    BY <1>2, <2>1 DEF Gap
<1>4. /\ Len(todo) \in Nat /\ Len(todo) > 0
      /\ \A p \in 1 .. Len(ops) : todo'[p] = ops[p]
      /\ \A p \in 1 .. Len(todo') :
            \/ p \in 1 .. Len(ops)
            \/ \E k \in 2 .. Len(todo) : p = Len(ops) + k - 1 /\ todo'[p] = todo[k]
  BY PutPlaces DEF IInv, Parsing
<1>5. ASSUME NEW k \in 2 .. Len(todo), todo[k][1] \in Marked
      PROVE  todo[k][2].begin \in 0 .. b
  <2>1. 1 \in 1 .. Len(todo) /\ k \in 1 .. Len(todo) /\ 1 < k /\ Head1 = todo[1]
    BY <1>4 DEF Head1
  <2>2. Head1[1] \in Marked
    BY DEF Patchers, Marked
  <2>3. todo[k][2].begin \in Mark(todo[k]) /\ Head1[2].begin \in Mark(todo[1])
    BY <1>5, <2>1, <2>2 DEF Mark
  <2>4. todo[k][2].begin <= Head1[2].begin
    <3>1. \A i, j \in 1 .. Len(todo) : i < j =>
             \A x \in Mark(todo[i]), y \in Mark(todo[j]) : y <= x
      BY DEF IInv, TodoOK
    <3> QED
      BY <2>1, <2>3, <3>1
  <2>5. todo[k][2].begin \in 0 .. t.begin
    BY <1>5, <2>1, MarksThere
  <2> QED
    BY <1>2, <2>4, <2>5
<1>6. AllGap'
  <2> SUFFICES ASSUME NEW p \in 1 .. Len(todo'), todo'[p][1] \in Marked
               PROVE  Gap(out', todo'[p][2].begin, t'.begin)
    BY DEF AllGap
  <2>1. CASE p \in 1 .. Len(ops)
    <3>1. todo'[p][2].begin = b
      BY <1>4, <2>1 DEF b
    <3> QED
      BY <1>2, <1>3, <3>1
  <2>2. CASE \E k \in 2 .. Len(todo) : p = Len(ops) + k - 1 /\ todo'[p] = todo[k]
    BY <1>3, <1>5, <2>2
  <2> QED
    BY <1>4, <2>1, <2>2
<1> QED
  BY <1>6 DEF GapsOK, AllGap

LEMMA GapsInsert ==
    ASSUME IInv, GapsOK, Parsing, Head1[1] = "suffix", NEW cell, cell.c \notin White,
           Insert(cell), Put(<<>>)
    PROVE  GapsOK'
<1>1. t # NoToken
  BY NotFirst
<1>2. Inserted(cell)
  BY <1>1, InsertMakes
<1>3. \A x \in 0 .. t.begin : Gap(out', x, t'.begin)
  <2> SUFFICES ASSUME NEW x \in 0 .. t.begin PROVE Gap(out', x, t'.begin)
    OBVIOUS
  <2>1. t.begin + 1 \in x + 1 .. t'.begin /\ out'[t.begin + 1] = cell
    BY <1>2 DEF Inserted
  <2> QED
    BY <2>1 DEF Gap
<1>4. ASSUME NEW p \in 1 .. Len(todo'), todo'[p][1] \in Marked
      PROVE  Gap(out', todo'[p][2].begin, t'.begin)
  <2>1. IsSeq(<<>>) /\ Len(<<>>) = 0
    BY SeqShort
  <2>2. Len(todo) \in Nat /\ (p \in 1 .. Len(<<>>) \/ \E k \in 2 .. Len(todo) : todo'[p] = todo[k])
    BY <2>1, PutPlaces DEF IInv, Parsing
  <2>3. PICK k \in 1 .. Len(todo) : todo'[p] = todo[k]
    BY <2>1, <2>2
  <2>4. todo[k][2].begin \in 0 .. t.begin
    BY <1>4, <2>3, MarksThere
  <2> QED
    BY <1>3, <2>3, <2>4
<1> QED
  BY <1>4 DEF GapsOK, AllGap

LEMMA GapsStop ==
    ASSUME todo' = <<>>, ~ToT'
    PROVE  GapsOK' /\ ShapeOK'
<1>1. Len(todo') = 0
  BY SeqShort
<1> QED
  BY <1>1 DEF GapsOK, Advancing, ShapeOK, Joined
-----------------------------------------------------------------------------
(* The cells of the buffer.                                                *)
CellsOK == \A i \in 1 .. Len(out) : Proper(out[i])
OrderOK == t # NoToken => \A i \in 1 .. t.begin : out[i].copied \/ out[i].at < t.from
EarlyPlace == t = NoToken => InPlace(out, source, 0, 1)
SplitOK == \A f \in split : f \in 1 .. Len(source) /\ f <= t.from
LastOK == Len(out) > 0 /\ out[Len(out)] # Separator
ApartOK == \A i \in 1 .. Len(out) :
              out[i].at \in split /\ ~out[i].copied => i > 1 /\ out[i - 1].at = 0
StuckAt == Stuck => t.token \in {"(", "quote", "["}
BufOK == CellsOK /\ OrderOK /\ EarlyPlace /\ SplitOK /\ LastOK /\ ApartOK /\ StuckAt

LEMMA WroteCells ==
    /\ \A s : /\ Proper(Wrote(s)) /\ Wrote(s).at = 0 /\ Wrote(s).c = s /\ ~Wrote(s).copied
              /\ Wrote(s) = Separator => s = ";"
    /\ \A cell : cell.at # 0 => cell # Separator
    /\ Separator.at = 0 /\ Proper(Separator)
    /\ \A s, i : Cell(s, i).at = i /\ Cell(s, i).copied = FALSE /\ (i \in Nat => i = 0 \/ Proper(Cell(s, i)))
<1>1. \A s : Wrote(s).at = 0 /\ Wrote(s).c = s /\ ~Wrote(s).copied /\ Proper(Wrote(s))
  BY DEF Wrote, Proper
<1>2. Separator.at = 0 /\ Separator.c = ";" /\ Proper(Separator)
  BY <1>1 DEF Separator
<1>3. \A s : Wrote(s) = Separator => s = ";"
  BY <1>1, <1>2
<1>4. \A s, i : /\ Cell(s, i).at = i /\ Cell(s, i).copied = FALSE
                /\ i \in Nat => i = 0 \/ Proper(Cell(s, i))
  BY DEF Cell, Proper
<1> QED
  BY <1>1, <1>2, <1>3, <1>4

(* What is behind a token that has come is as it was read.                 *)
LEMMA Behind ==
    ASSUME NEW o, NEW s, Len(o) \in Nat, Len(s) \in Nat, NEW b, NEW f, InPlace(o, s, b, f),
           NEW i \in Nat, b < i, i <= Len(o)
    PROVE  /\ o[i].at = f + (i - b) - 1 /\ ~o[i].copied /\ o[i] # Separator
           /\ f + (i - b) - 1 \in 1 .. Len(s) /\ Proper(o[i])
<1>1. b \in Nat /\ f \in Nat /\ f >= 1 /\ f <= Len(s) + 1 /\ Len(o) - b = Len(s) + 1 - f
  BY DEF InPlace
<1> DEFINE k == f + (i - b) - 1
<1>2. k \in f .. Len(s) /\ b + 1 + (k - f) = i /\ k \in 1 .. Len(s)
  <2> DEFINE n == Len(o)
             m == Len(s)
  <2>1. /\ b \in Nat /\ f \in Nat /\ f >= 1 /\ f <= m + 1 /\ n - b = m + 1 - f
        /\ n \in Nat /\ m \in Nat /\ i \in Nat /\ b < i /\ i <= n
    BY <1>1
  <2> HIDE DEF n, m
  <2>2. f <= k /\ k <= m /\ k \in Int /\ b + 1 + (k - f) = i
    BY <2>1
  <2>3. k \in f .. m /\ k \in 1 .. m
    BY <2>1, <2>2
  <2> HIDE DEF k
  <2> QED
    BY <2>2, <2>3 DEF m
<1>0. k = f + (i - b) - 1
  OBVIOUS
<1> HIDE DEF k
<1>3. o[b + 1 + (k - f)] = Cell(s, k)
  BY <1>2 DEF InPlace
<1>4. o[i] = Cell(s, k)
  BY <1>2, <1>3
<1>5. k \in Nat /\ k # 0
  BY <1>2
<1>6. o[i].at = k /\ ~o[i].copied /\ Proper(o[i])
  <2>1. Cell(s, k).at = k /\ ~Cell(s, k).copied /\ Proper(Cell(s, k))
    BY <1>5 DEF Cell, Proper
  <2> QED
    BY <1>4, <2>1, Zenon
<1>7. o[i] # Separator
  BY <1>5, <1>6, WroteCells
<1> QED
  BY <1>0, <1>2, <1>6, <1>7

(* A token comes that is not the current one.                              *)
Comes ==
    /\ Len(out) \in Nat /\ Len(out') \in Nat /\ Len(source') \in Nat
    /\ \A i \in 1 .. Len(out) : out'[i] = out[i]
    /\ InPlace(out', source', t'.begin, t'.from) /\ t.from <= t'.from
    /\ t # NoToken => /\ t.begin \in 0 .. Len(out) /\ InPlace(out', source', t.begin, t.from)
                      /\ t.token # EOS => t.from < t'.from
    /\ t = NoToken => InPlace(out', source', 0, 1)

LEMMA OrderComes ==
    ASSUME CellsOK, OrderOK, Comes
    PROVE  OrderOK'
<1> SUFFICES ASSUME NEW i \in 1 .. t'.begin
             PROVE  out'[i].copied \/ out'[i].at < t'.from
  BY DEF OrderOK
<1>1. /\ t'.begin \in Nat /\ t'.from \in Nat
      /\ Len(out') - t'.begin = Len(source') + 1 - t'.from /\ t'.from <= Len(source') + 1
      /\ Len(out') \in Nat /\ Len(source') \in Nat
  BY DEF Comes, InPlace
<1>2. i \in Nat /\ i <= Len(out') /\ i >= 1
  BY <1>1
<1>3. CASE t = NoToken
  <2>1. InPlace(out', source', 0, 1)
    BY <1>3 DEF Comes
  <2>2. out'[i].at = 1 + (i - 0) - 1
    BY <1>1, <1>2, <2>1, Behind, SMTT(30)
  <2>3. Len(out') - 0 = Len(source') + 1 - 1
    BY <2>1 DEF InPlace
  <2> QED
    BY <1>1, <1>2, <2>2, <2>3
<1>4. CASE t # NoToken /\ i > t.begin
  <2>1. InPlace(out', source', t.begin, t.from)
    BY <1>4 DEF Comes
  <2>2. out'[i].at = t.from + (i - t.begin) - 1
    BY <1>1, <1>2, <1>4, <2>1, Behind
  <2>3. Len(out') - t.begin = Len(source') + 1 - t.from /\ t.begin \in Nat /\ t.from \in Nat
    BY <2>1 DEF InPlace
  <2> DEFINE n == Len(out')
             m == Len(source')
  <2>4. /\ n \in Nat /\ m \in Nat /\ t'.begin \in Nat /\ t'.from \in Nat /\ i \in Nat
        /\ n - t'.begin = m + 1 - t'.from /\ n - t.begin = m + 1 - t.from
        /\ t.begin \in Nat /\ t.from \in Nat /\ i <= t'.begin
    BY <1>1, <1>2, <2>3
  <2> HIDE DEF n, m
  <2>5. t.from + (i - t.begin) - 1 < t'.from
    BY <2>4
  <2> QED
    BY <2>2, <2>5
<1>5. CASE t # NoToken /\ ~(i > t.begin)
  <2>1. i \in 1 .. t.begin /\ t.begin \in 0 .. Len(out) /\ t.from <= t'.from /\ Len(out) \in Nat
        /\ InPlace(out', source', t.begin, t.from)
    BY <1>2, <1>5 DEF Comes
  <2>2. out[i].copied \/ out[i].at < t.from
    BY <1>5, <2>1 DEF OrderOK
  <2>3. out'[i] = out[i]
    <3>1. i \in 1 .. Len(out)
      BY <2>1
    <3> QED
      BY <3>1 DEF Comes
  <2>4. t.from \in Nat /\ t'.from \in Nat /\ out[i].at \in Nat
    <3>1. i \in 1 .. Len(out)
      BY <2>1
    <3>2. out[i].at \in Nat
      BY <3>1 DEF CellsOK, Proper
    <3>3. t.from \in 1 .. Len(source') + 1
      BY <2>1 DEF InPlace
    <3> QED
      BY <1>1, <3>2, <3>3
  <2> QED
    BY <2>1, <2>2, <2>3, <2>4
<1> QED
  BY <1>3, <1>4, <1>5
-----------------------------------------------------------------------------
(* No separator is in front of a token that has just come.                 *)
LEMMA Unstuck ==
    ASSUME StuckAt, Comes
    PROVE  ~Stuck'
<1> SUFFICES ASSUME t'.begin > 0, out'[t'.begin] = Separator
             PROVE  FALSE
  BY DEF Stuck
<1>1. /\ t'.begin \in Nat /\ t'.from \in Nat /\ t'.begin <= Len(out')
      /\ Len(out') - t'.begin = Len(source') + 1 - t'.from /\ t'.from <= Len(source') + 1
      /\ Len(out') \in Nat /\ Len(source') \in Nat
  <2> DEFINE n == Len(out')
             m == Len(source')
  <2>1. /\ t'.begin \in Nat /\ t'.from \in 1 .. m + 1 /\ n - t'.begin = m + 1 - t'.from
        /\ n \in Nat /\ m \in Nat
    BY DEF Comes, InPlace
  <2> HIDE DEF n, m
  <2>2. t'.from \in Nat /\ t'.begin <= n /\ t'.from <= m + 1
    BY <2>1
  <2> QED
    BY <2>1, <2>2 DEF n, m
<1>2. CASE t = NoToken
  <2>1. InPlace(out', source', 0, 1)
    BY <1>2 DEF Comes
  <2> QED
    BY <1>1, <2>1, Behind
<1>3. CASE t # NoToken /\ t.begin < t'.begin
  <2>1. InPlace(out', source', t.begin, t.from)
    BY <1>3 DEF Comes
  <2> QED
    BY <1>1, <1>3, <2>1, Behind
<1>4. CASE t # NoToken /\ ~(t.begin < t'.begin)
  <2>1. InPlace(out', source', t.begin, t.from) /\ t.begin \in 0 .. Len(out) /\ t.from <= t'.from
        /\ (t.token # EOS => t.from < t'.from) /\ Len(out) \in Nat
    BY <1>4 DEF Comes
  <2>2. Len(out') - t.begin = Len(source') + 1 - t.from /\ t.begin \in Nat /\ t.from \in Nat
    BY <2>1 DEF InPlace
  <2> DEFINE n == Len(out')
             m == Len(source')
  <2>3. /\ n \in Nat /\ m \in Nat /\ t'.begin \in Nat /\ t'.from \in Nat
        /\ n - t'.begin = m + 1 - t'.from /\ n - t.begin = m + 1 - t.from
        /\ t.begin \in Nat /\ t.from \in Nat /\ ~(t.begin < t'.begin) /\ t.from <= t'.from
    BY <1>1, <1>4, <2>1, <2>2
  <2> HIDE DEF n, m
  <2>4. t.begin = t'.begin /\ t.from = t'.from
    BY <2>3
  <2>5. t.token = EOS
    BY <2>1, <2>2, <2>4
  <2>6. t.begin > 0 /\ t.begin \in 1 .. Len(out)
    BY <2>1, <2>4
  <2>7. out[t.begin] = Separator
    <3>1. out'[t.begin] = out[t.begin]
      BY <2>6 DEF Comes
    <3> QED
      BY <2>4, <3>1
  <2> QED
    BY <2>5, <2>6, <2>7 DEF Stuck, StuckAt, EOS
<1> QED
  BY <1>2, <1>3, <1>4

(* Nothing has changed.                                                    *)
LEMMA BufSame ==
    ASSUME BufOK, UNCHANGED <<out, source, t, split>>
    PROVE  BufOK' /\ (Stuck <=> Stuck')
  BY DEF BufOK, CellsOK, OrderOK, EarlyPlace, SplitOK, LastOK, ApartOK, StuckAt, Stuck

(* Something is read.                                                      *)
LEMMA BufGrows ==
    ASSUME IInv, BufOK, Reads, UNCHANGED split
    PROVE  /\ CellsOK' /\ LastOK' /\ ApartOK'
           /\ t = NoToken => InPlace(out', source', 0, 1)
           /\ \A f \in split : f \in 1 .. Len(source') /\ f <= t.from
<1>1. /\ Len(out) \in Nat /\ Len(out') \in Nat /\ Len(out) <= Len(out')
      /\ \A i \in 1 .. Len(out) : out'[i] = out[i]
      /\ \/ out' = out /\ source' = source
         \/ /\ source' = Append(source, current')
            /\ out' = Append(out, [c |-> current', at |-> Len(source) + 1, copied |-> FALSE])
  BY OutGrows DEF IInv
<1>2. Len(source) \in Nat /\ Len(source') \in Nat /\ Len(source) <= Len(source')
  BY SourceGrows DEF IInv
<1>3. CASE out' = out /\ source' = source
  BY <1>2, <1>3 DEF BufOK, CellsOK, LastOK, ApartOK, EarlyPlace, SplitOK
<1>4. CASE /\ source' = Append(source, current')
           /\ out' = Append(out, [c |-> current', at |-> Len(source) + 1, copied |-> FALSE])
  <2> DEFINE cell == [c |-> current', at |-> Len(source) + 1, copied |-> FALSE]
             n == Len(out)
  <2>1. n \in Nat /\ Len(out') = n + 1 /\ out'[n + 1] = cell /\ \A i \in 1 .. n : out'[i] = out[i]
    <3>1. IsSeq(out)
      BY DEF IInv, BufferOK
    <3>2. Len(Append(out, cell)) = Len(out) + 1 /\ Append(out, cell)[Len(out) + 1] = cell
      BY <3>1, SeqAppend
    <3>3. Len(out') = Len(out) + 1 /\ out'[Len(out) + 1] = cell
      BY <1>4, <3>2, Zenon
    <3> QED
      BY <1>1, <3>3
  <2>2. /\ cell.at = Len(source) + 1 /\ ~cell.copied /\ cell.at \in Nat /\ cell.at # 0 /\ Proper(cell)
        /\ cell # Separator
    <3>1. cell.at = Len(source) + 1 /\ ~cell.copied /\ cell.at \in Nat /\ cell.at # 0
      BY <1>2
    <3>2. Proper(cell)
      BY <1>2 DEF Proper
    <3>3. cell # Separator
      BY <3>1, WroteCells
    <3> QED
      BY <3>1, <3>2, <3>3
  <2>3. cell.at \notin split /\ \A f \in split : f \in 1 .. Len(source') /\ f <= t.from
    <3>1. \A f \in split : f \in 1 .. Len(source) /\ f <= t.from
      BY DEF BufOK, SplitOK
    <3> QED
      BY <1>2, <2>2, <3>1
  <2>4. t = NoToken => InPlace(out', source', 0, 1)
    <3>1. IsSeq(out) /\ IsSeq(source)
      BY DEF IInv, BufferOK
    <3>2. \A begin, from : InPlace(out, source, begin, from) => InPlace(out', source', begin, from)
      BY <1>4, <3>1, NextPlace
    <3> QED
      BY <3>2 DEF BufOK, EarlyPlace
  <2> HIDE DEF cell, n
  <2>5. \A i \in 1 .. Len(out') : i \in 1 .. n \/ i = n + 1
    BY <2>1
  <2>6. CellsOK'
    BY <2>1, <2>2, <2>5 DEF BufOK, CellsOK, n
  <2>7. LastOK'
    <3>1. n + 1 > 0 /\ Len(out') = n + 1 /\ out'[n + 1] # Separator
      BY <2>1, <2>2
    <3>2. Len(out') > 0 /\ out'[Len(out')] # Separator
      BY <3>1
    <3> QED
      BY <3>2 DEF LastOK, Separator
  <2>8. ApartOK'
    <3> SUFFICES ASSUME NEW i \in 1 .. Len(out'), out'[i].at \in split', ~out'[i].copied
                 PROVE  i > 1 /\ out'[i - 1].at = 0
      BY DEF ApartOK
    <3>1. i \in 1 .. n
      BY <2>1, <2>3, <2>5
    <3>2. i > 1 /\ out[i - 1].at = 0
      BY <2>1, <3>1 DEF BufOK, ApartOK, n
    <3>3. i - 1 \in 1 .. n
      BY <2>1, <3>1, <3>2
    <3> QED
      BY <2>1, <3>2, <3>3
  <2> QED
    BY <2>3, <2>4, <2>6, <2>7, <2>8
<1> QED
  BY <1>1, <1>3, <1>4

(* A token has come.                                                       *)
LEMMA BufComes ==
    ASSUME IInv, BufOK, Comes, t' # NoToken, CellsOK', LastOK', ApartOK', UNCHANGED split,
           Len(source) \in Nat,
           \A f \in split : f \in 1 .. Len(source') /\ f <= t.from
    PROVE  BufOK' /\ ~Stuck'
<1>1. ~Stuck'
  BY Unstuck DEF BufOK
<1>2. OrderOK'
  BY OrderComes DEF BufOK
<1>3. EarlyPlace'
  BY DEF EarlyPlace
<1>4. SplitOK'
  <2> SUFFICES ASSUME NEW f \in split PROVE f \in 1 .. Len(source') /\ f <= t'.from
    BY DEF SplitOK
  <2>1. f \in 1 .. Len(source') /\ f <= t.from
    OBVIOUS
  <2>2. t.from <= t'.from /\ t'.from \in 1 .. Len(source') + 1 /\ Len(source') \in Nat
    BY DEF Comes, InPlace
  <2>3. t.from \in Nat
    <3>1. t # NoToken => t.from \in 1 .. Len(source) + 1
      BY TokenThere DEF IInv
    <3> QED
      BY <3>1 DEF NoToken
  <2> QED
    BY <2>1, <2>2, <2>3
<1> QED
  BY <1>1, <1>2, <1>3, <1>4 DEF BufOK, StuckAt

(* The lexer.                                                              *)
LEMMA BufLexes ==
    ASSUME IInv, SeenOK, IInv', BufOK, Lexes
    PROVE  /\ BufOK'
           /\ (t' = t /\ (Stuck' <=> Stuck)) \/ (~Stuck' /\ lx' = Idle)
           /\ lx.to = "lookahead" \/ lx' # Idle \/ ~Stuck'
           /\ lx # Idle /\ (lx' = Idle \/ lx'.to = lx.to)
<1> DEFINE Ended == Ends /\ ~(lx.mode = "start" /\ current = EOZ)
<1>1. /\ lx # Idle /\ todo' = todo /\ (GoesOn \/ Ended \/ EndOfText \/ GivesUp)
      /\ UNCHANGED split
  BY LexMoves DEF Lexes, Leaves, Stays, Takes, Drops
<1>2. Reads /\ BufferOK /\ BufferOK' /\ linenumber' \in Nat
  BY <1>1 DEF IInv, GoesOn, Ends, EndOfText, GivesUp, Reads, BufferOK
<1>3. /\ Len(out) \in Nat /\ Len(out') \in Nat /\ Len(out) <= Len(out')
      /\ \A i \in 1 .. Len(out) : out'[i] = out[i]
      /\ Len(source') \in Nat /\ Len(source) \in Nat /\ Len(source) <= Len(source')
  BY <1>2, OutGrows, SourceGrows
<1>4. /\ CellsOK' /\ LastOK' /\ ApartOK'
      /\ t = NoToken => InPlace(out', source', 0, 1)
      /\ \A f \in split : f \in 1 .. Len(source') /\ f <= t.from
  BY <1>1, <1>2, BufGrows
<1>5. lx.to \in {"t", "lookahead"}
  BY <1>1 DEF IInv, LxOK
<1>6. ASSUME t' = t
      PROVE  BufOK' /\ (Stuck' <=> Stuck)
  <2>1. t # NoToken => t.begin \in 0 .. Len(out)
    BY TokenThere DEF IInv
  <2>2. t.begin > 0 => t.begin \in 1 .. Len(out)
    BY <1>3, <2>1 DEF NoToken
  <2>3. Stuck' <=> Stuck
    BY <1>3, <1>6, <2>2 DEF Stuck
  <2>4. OrderOK'
    <3> SUFFICES ASSUME t # NoToken, NEW i \in 1 .. t.begin
                 PROVE  out'[i].copied \/ out'[i].at < t.from
      BY <1>6 DEF OrderOK
    <3>1. i \in 1 .. Len(out)
      BY <1>3, <2>1
    <3> QED
      BY <1>3, <3>1 DEF BufOK, OrderOK
  <2>5. EarlyPlace' /\ SplitOK'
    BY <1>1, <1>4, <1>6 DEF EarlyPlace, SplitOK
  <2>6. StuckAt'
    BY <1>6, <2>3 DEF BufOK, StuckAt
  <2> QED
    BY <1>4, <2>3, <2>4, <2>5, <2>6 DEF BufOK
<1>7. ASSUME Comes, t' # NoToken
      PROVE  BufOK' /\ ~Stuck'
  BY <1>1, <1>3, <1>4, <1>7, BufComes
<1>8. t # NoToken => /\ t.begin \in 0 .. Len(out) /\ InPlace(out', source', t.begin, t.from)
                     /\ t.from \in 1 .. Len(source) + 1
  <2> SUFFICES ASSUME t # NoToken
               PROVE  /\ t.begin \in 0 .. Len(out) /\ InPlace(out', source', t.begin, t.from)
                      /\ t.from \in 1 .. Len(source) + 1
    OBVIOUS
  <2>1. Held(t) /\ t.begin \in 0 .. Len(out) /\ t.from \in 1 .. Len(source) + 1
    BY TokenThere DEF IInv
  <2>2. \A tok : Held(tok) => InPlace(out', source', tok.begin, tok.from)
    BY <1>2, Kept
  <2> QED
    BY <2>1, <2>2
<1>9. CASE GivesUp \/ GoesOn
  <2>1. t' = t /\ (lx' = Idle \/ lx'.to = lx.to) /\ lx' # Idle
    BY <1>1, <1>9 DEF GivesUp, GoesOn, Idle
  <2> QED
    BY <1>1, <1>6, <2>1
<1>10. CASE (Ended \/ EndOfText) /\ lx.to # "t"
  <2>1. t' = t /\ lx' = Idle
    BY <1>10 DEF Ends, EndOfText, Gives
  <2> QED
    BY <1>1, <1>5, <1>6, <1>10, <2>1
<1>11. CASE Ended /\ lx.to = "t"
  <2>1. PICK k : lx' = Idle /\ t' = Token(k)
    BY <1>11 DEF Ends, Gives
  <2>2. t'.begin = lx.begin /\ t'.from = lx.from
    BY <2>1 DEF Token
  <2>3. InPlace(out', source', lx.begin, lx.from) /\ t.from <= lx.from
    <3>1. Held(lx) /\ t.from <= lx.from
      BY <1>11 DEF Ends, Reading
    <3>2. \A tok : Held(tok) => InPlace(out', source', tok.begin, tok.from)
      BY <1>2, Kept
    <3> QED
      BY <3>1, <3>2
  <2>4. t # NoToken /\ t.token # EOS => t.from < lx.from
    <3> SUFFICES ASSUME t # NoToken, t.token # EOS PROVE t.from < lx.from
      OBVIOUS
    <3>1. Between(source', t.from, lx.from)
      BY <1>1, <1>2, <1>11, SeenTokens
    <3>2. lx.from \in Nat /\ t.from \in Nat
      BY <1>3, <1>8, <2>3, SMTT(30) DEF InPlace
    <3> QED
      BY <3>1, <3>2 DEF Between
  <2>5. Comes
    BY <1>3, <1>4, <1>8, <2>2, <2>3, <2>4 DEF Comes
  <2>6. t' # NoToken
    BY <1>3, <2>2, <2>3 DEF NoToken, InPlace
  <2> QED
    BY <1>1, <1>7, <2>1, <2>5, <2>6
<1>12. CASE EndOfText /\ lx.to = "t"
  <2> DEFINE n == Len(out)
             m == Len(source)
  <2>1. /\ lx' = Idle /\ UNCHANGED <<source, out>> /\ current = EOZ
        /\ t' = [Token(EOS) EXCEPT !.begin = n, !.from = m + 1]
    BY <1>12 DEF EndOfText, Gives
  <2>2. t'.begin = n /\ t'.from = m + 1 /\ n \in Nat /\ m \in Nat
    BY <1>3, <2>1 DEF Token
  <2>3. InPlace(out', source', t'.begin, t'.from)
    BY <2>1, <2>2 DEF InPlace
  <2>4. t.from <= t'.from
    BY <1>8, <2>2 DEF NoToken
  <2>5. t # NoToken /\ t.token # EOS => t.from < t'.from
    <3> SUFFICES ASSUME t # NoToken, t.token # EOS PROVE t.from < t'.from
      OBVIOUS
    <3>1. PICK f \in t.from .. m : source[f] \notin White
      BY DEF SeenOK, Seen
    <3>2. t.from \in Nat
      BY <1>8, <2>2
    <3> QED
      BY <2>2, <3>1, <3>2
  <2>6. Comes
    BY <1>3, <1>4, <1>8, <2>3, <2>4, <2>5 DEF Comes
  <2>7. t' # NoToken
    BY <2>2 DEF NoToken
  <2> QED
    BY <1>1, <1>7, <2>1, <2>6, <2>7
<1> QED
  BY <1>1, <1>9, <1>10, <1>11, <1>12
-----------------------------------------------------------------------------
LEMMA BufNexts ==
    ASSUME IInv, IInv', SeenOK, ShapeOK, GapsOK, BufOK, Nexts
    PROVE  /\ BufOK'
           /\ ToT' \/ (~Stuck' /\ lx' = Idle)
<1>1. UNCHANGED <<source, out, split>>
  BY DEF Nexts, LuaXNext, input
<1>2. CASE lookahead.token = EOS
  <2>1. t' = t /\ ToT'
    BY <1>2 DEF Nexts, LuaXNext, Begin, tokens, ToT, Idle
  <2> QED
    BY <1>1, <2>1, BufSame
<1>3. CASE lookahead.token # EOS
  <2>1. t # NoToken /\ lx' = Idle /\ t' = lookahead
    BY <1>3, NextMoves
  <2>2. Held(t) /\ Held(lookahead) /\ t.from <= lookahead.from
    BY <1>3, <2>1 DEF IInv, TokensOK
  <2>3. InPlace(out, source, t.begin, t.from) /\ InPlace(out, source, lookahead.begin, lookahead.from)
    BY <2>2 DEF Held
  <2>4. Len(out) \in Nat /\ Len(source) \in Nat
    BY SeqLength DEF IInv, BufferOK
  <2>5. t.token # EOS => t.from < lookahead.from
    <3> SUFFICES ASSUME t.token # EOS PROVE t.from < lookahead.from
      OBVIOUS
    <3>1. Between(source, t.from, lookahead.from)
      BY <1>3 DEF SeenOK
    <3>2. t.from \in Nat /\ lookahead.from \in Nat
      BY <2>3, <2>4 DEF InPlace
    <3> QED
      BY <3>1, <3>2 DEF Between
  <2>6. t.begin \in 0 .. Len(out)
    BY <2>1, TokenThere DEF IInv
  <2>7. Comes
    BY <1>1, <2>1, <2>2, <2>3, <2>4, <2>5, <2>6 DEF Comes
  <2>8. t' # NoToken
    BY <1>3, <2>1 DEF NoToken
  <2>9. CellsOK' /\ LastOK' /\ ApartOK'
    BY <1>1 DEF BufOK, CellsOK, LastOK, ApartOK
  <2>10. \A f \in split : f \in 1 .. Len(source') /\ f <= t.from
    BY <1>1 DEF BufOK, SplitOK
  <2> QED
    BY <1>1, <2>1, <2>4, <2>7, <2>8, <2>9, <2>10, BufComes
<1> QED
  BY <1>2, <1>3

(* The texts that are written: what is copied is marked so, and they end   *)
(* in something else than a separator.                                     *)
TextOK(text) ==
    /\ \A i \in 1 .. Len(text) : Proper(text[i]) /\ (text[i].at = 0 \/ text[i].copied)
    /\ Len(text) > 0 /\ text[Len(text)].at = 0 /\ text[Len(text)] # Separator

(* The cells there are after a patch.                                      *)
LEMMA PatchedCells ==
    ASSUME NEW text, NEW b, NEW e, Patched(text, b, e), NEW i \in 1 .. Len(out')
    PROVE  \/ i <= b /\ i \in 1 .. Len(out) /\ out'[i] = out[i]
           \/ \E j \in 1 .. Len(text) : i = b + j /\ out'[i] = text[j]
           \/ b + Len(text) < i /\ i <= e /\ out'[i] = Wrote("\n")
           \/ \E j \in 1 .. Len(out) - t.begin :
                 i = e + j /\ t.begin + j \in 1 .. Len(out) /\ out'[i] = out[t.begin + j]
<1> DEFINE n == Len(text)
           m == Len(out)
           l == Len(out')
<1>1. /\ b \in Nat /\ e \in Nat /\ t.begin \in Nat /\ m \in Nat /\ n \in Nat
      /\ b < t.begin /\ t.begin <= m /\ b + n <= e /\ l = e + (m - t.begin) /\ i \in 1 .. l
  BY DEF Patched
<1>2. /\ \A j \in 1 .. b : out'[j] = out[j]
      /\ \A j \in 1 .. n : out'[b + j] = text[j]
      /\ \A j \in b + n + 1 .. e : out'[j] = Wrote("\n")
      /\ \A j \in 1 .. m - t.begin : out'[e + j] = out[t.begin + j]
  BY DEF Patched
<1> HIDE DEF n, m, l
<1>3. CASE i <= b
  <2>1. i \in 1 .. b /\ i \in 1 .. m
    BY <1>1, <1>3
  <2> QED
    BY <1>2, <1>3, <2>1 DEF m
<1>4. CASE b < i /\ i <= b + n
  <2>1. i - b \in 1 .. n /\ b + (i - b) = i
    BY <1>1, <1>4
  <2>2. out'[i] = text[i - b]
    BY <1>2, <2>1
  <2> QED
    BY <2>1, <2>2 DEF n
<1>5. CASE b + n < i /\ i <= e
  <2>1. i \in b + n + 1 .. e
    BY <1>1, <1>5
  <2> QED
    BY <1>2, <1>5, <2>1 DEF n
<1>6. CASE e < i
  <2>1. i - e \in 1 .. m - t.begin /\ e + (i - e) = i /\ t.begin + (i - e) \in 1 .. m
    BY <1>1, <1>6
  <2>2. out'[i] = out[t.begin + (i - e)]
    BY <1>2, <2>1
  <2> QED
    BY <2>1, <2>2 DEF m
<1> QED
  BY <1>1, <1>3, <1>4, <1>5, <1>6

LEMMA BufPatch ==
    ASSUME IInv, BufOK, t # NoToken, NEW text, NEW b, NEW e, Patched(text, b, e), TextOK(text),
           UNCHANGED <<source, split>>
    PROVE  BufOK' /\ ~Stuck'
<1>1. /\ b \in Nat /\ e \in Nat /\ t.begin \in Nat /\ Len(out) \in Nat /\ Len(text) \in Nat
      /\ b < t.begin /\ t.begin <= Len(out) /\ b + Len(text) <= e /\ t'.begin = e
      /\ Len(out') = e + (Len(out) - t.begin) /\ t'.token = t.token /\ t'.from = t.from
  BY DEF Patched
<1>2. t.from \in Nat /\ t.from >= 1
  <2>1. t.from \in 1 .. Len(source) + 1 /\ Len(source) \in Nat
    BY TokenThere DEF IInv
  <2> QED
    BY <2>1
<1>3. Proper(Wrote("\n")) /\ Wrote("\n").at = 0 /\ Wrote("\n") # Separator
  <2>1. Wrote("\n") # Wrote(";")
    BY DEF Wrote
  <2> QED
    BY <2>1, WroteCells DEF Separator
<1>4. Len(text) > 0 /\ e > 0 /\ out'[e].at = 0 /\ out'[e] # Separator
  <2>1. Len(text) > 0 /\ text[Len(text)].at = 0 /\ text[Len(text)] # Separator
    BY DEF TextOK
  <2>2. CASE e = b + Len(text)
    <3>1. out'[b + Len(text)] = text[Len(text)]
      BY <1>1, <2>1 DEF Patched
    <3> QED
      BY <1>1, <2>1, <2>2, <3>1
  <2>3. CASE e # b + Len(text)
    <3>1. e \in b + Len(text) + 1 .. e
      BY <1>1, <2>3
    <3>2. out'[e] = Wrote("\n")
      BY <3>1 DEF Patched
    <3> QED
      BY <1>1, <1>3, <2>1, <3>2
  <2> QED
    BY <2>2, <2>3
<1>5. ~Stuck'
  BY <1>1, <1>4 DEF Stuck, Separator
<1>6. CellsOK'
  <2> SUFFICES ASSUME NEW i \in 1 .. Len(out') PROVE Proper(out'[i])
    BY DEF CellsOK, Proper
  <2> QED
    BY <1>3, PatchedCells DEF BufOK, CellsOK, TextOK
<1>7. OrderOK'
  <2> SUFFICES ASSUME NEW i \in 1 .. e PROVE out'[i].copied \/ out'[i].at < t.from
    BY <1>1 DEF OrderOK
  <2>1. i \in 1 .. Len(out')
    BY <1>1
  <2>2. CASE i <= b /\ i \in 1 .. Len(out) /\ out'[i] = out[i]
    <3>1. i \in 1 .. t.begin
      BY <1>1, <2>2
    <3> QED
      BY <2>2, <3>1 DEF BufOK, OrderOK
  <2>3. CASE \E j \in 1 .. Len(text) : i = b + j /\ out'[i] = text[j]
    BY <1>2, <2>3 DEF TextOK
  <2>4. CASE b + Len(text) < i /\ i <= e /\ out'[i] = Wrote("\n")
    BY <1>2, <1>3, <2>4
  <2>5. ~\E j \in 1 .. Len(out) - t.begin : i = e + j
    BY <1>1
  <2> QED
    BY <2>1, <2>2, <2>3, <2>4, <2>5, PatchedCells
<1>8. EarlyPlace'
  BY <1>1, <1>2 DEF EarlyPlace, NoToken
<1>9. SplitOK'
  BY <1>1 DEF BufOK, SplitOK
<1>10. LastOK'
  <2>1. Len(out') > 0 /\ out'[Len(out')] # Separator
    <3>1. CASE Len(out) = t.begin
      <4>1. Len(out') = e
        BY <1>1, <3>1
      <4> QED
        BY <1>4, <4>1
    <3>2. CASE Len(out) # t.begin
      <4>1. /\ Len(out) - t.begin \in 1 .. Len(out) - t.begin
            /\ t.begin + (Len(out) - t.begin) = Len(out) /\ Len(out') > 0
        <5> DEFINE m == Len(out)
                   l == Len(out')
                   c == t.begin
        <5>1. m \in Nat /\ c \in Nat /\ c <= m /\ m # c /\ e \in Nat /\ l = e + (m - c)
          BY <1>1, <3>2
        <5> HIDE DEF m, l, c
        <5>2. m - c \in 1 .. m - c /\ c + (m - c) = m /\ l > 0
          BY <5>1
        <5> QED
          BY <5>2 DEF m, l, c
      <4>2. out'[e + (Len(out) - t.begin)] = out[t.begin + (Len(out) - t.begin)]
        BY <4>1 DEF Patched
      <4>3. out[t.begin + (Len(out) - t.begin)] = out[Len(out)]
        BY <4>1, Zenon
      <4>4. out'[Len(out')] = out'[e + (Len(out) - t.begin)]
        BY <1>1, Zenon
      <4>5. out[Len(out)] # Separator
        BY DEF BufOK, LastOK
      <4> QED
        BY <4>1, <4>2, <4>3, <4>4, <4>5
    <3> QED
      BY <3>1, <3>2
  <2> QED
    BY <2>1 DEF LastOK, Separator
<1>11. ApartOK'
  <2> SUFFICES ASSUME NEW i \in 1 .. Len(out'), out'[i].at \in split, ~out'[i].copied
               PROVE  i > 1 /\ out'[i - 1].at = 0
    BY DEF ApartOK
  <2>1. out'[i].at # 0
    BY DEF BufOK, SplitOK
  <2>2. CASE i <= b /\ i \in 1 .. Len(out) /\ out'[i] = out[i]
    <3>1. i > 1 /\ out[i - 1].at = 0
      BY <2>2 DEF BufOK, ApartOK
    <3>2. i - 1 \in 1 .. b
      BY <1>1, <2>2, <3>1
    <3>3. out'[i - 1] = out[i - 1]
      BY <3>2 DEF Patched
    <3> QED
      BY <3>1, <3>3
  <2>3. CASE \E j \in 1 .. Len(text) : i = b + j /\ out'[i] = text[j]
    BY <2>1, <2>3 DEF TextOK
  <2>4. CASE b + Len(text) < i /\ i <= e /\ out'[i] = Wrote("\n")
    BY <1>3, <2>1, <2>4
  <2>5. CASE \E j \in 1 .. Len(out) - t.begin :
                i = e + j /\ t.begin + j \in 1 .. Len(out) /\ out'[i] = out[t.begin + j]
    <3>1. PICK j \in 1 .. Len(out) - t.begin :
                i = e + j /\ t.begin + j \in 1 .. Len(out) /\ out'[i] = out[t.begin + j]
      BY <2>5
    <3>2. t.begin + j > 1 /\ out[(t.begin + j) - 1].at = 0
      BY <3>1 DEF BufOK, ApartOK
    <3>3. i > 1
      BY <1>1, <1>4, <3>1
    <3>4. CASE j = 1
      <4>1. i - 1 = e
        BY <1>1, <3>1, <3>4
      <4> QED
        BY <1>4, <3>3, <4>1
    <3>5. CASE j # 1
      <4>1. j - 1 \in 1 .. Len(out) - t.begin /\ i - 1 = e + (j - 1)
            /\ t.begin + (j - 1) = (t.begin + j) - 1
        BY <1>1, <3>1, <3>5, SMTT(30)
      <4>2. out'[e + (j - 1)] = out[t.begin + (j - 1)]
        BY <4>1 DEF Patched
      <4> QED
        BY <3>2, <3>3, <4>1, <4>2
    <3> QED
      BY <3>4, <3>5
  <2> QED
    BY <2>2, <2>3, <2>4, <2>5, PatchedCells
<1> QED
  BY <1>5, <1>6, <1>7, <1>8, <1>9, <1>10, <1>11 DEF BufOK, StuckAt

(* luaX_insertbeforecurrenttoken of a separator: the token is marked.      *)
LEMMA BufInsert ==
    ASSUME IInv, SeenOK, BufOK, t # NoToken, Inserted(Separator), t.token \in {"(", "quote", "["},
           split' = split \cup {t.from}, UNCHANGED source
    PROVE  BufOK'
<1> DEFINE b == t.begin
           m == Len(out)
           n == Len(source)
<1>1. /\ b \in Nat /\ m \in Nat /\ b <= m /\ t'.begin = b + 1 /\ Len(out') = m + 1
      /\ t'.token = t.token /\ t'.from = t.from /\ out'[b + 1] = Separator
      /\ \A i \in 1 .. b : out'[i] = out[i]
      /\ \A i \in 1 .. m - b : out'[b + 1 + i] = out[b + i]
  BY DEF Inserted
<1>2. t.from \in Nat /\ t.from >= 1 /\ n \in Nat /\ t.from <= n
  <2>1. t.from \in 1 .. n + 1 /\ n \in Nat
    BY TokenThere DEF IInv
  <2>2. PICK f \in t.from .. n : source[f] \notin White
    BY DEF SeenOK, Seen, EOS
  <2> QED
    BY <2>1, <2>2
<1>3. InPlace(out, source, b, t.from) /\ m - b = n + 1 - t.from
  <2>1. InPlace(out, source, b, t.from)
    BY TokenThere DEF IInv, Held
  <2> QED
    BY <2>1 DEF InPlace
<1>4. Separator.at = 0 /\ Proper(Separator)
  BY WroteCells
<1> HIDE DEF b, m, n
<1>5. ASSUME NEW i \in 1 .. Len(out')
      PROVE  \/ i \in 1 .. b /\ i \in 1 .. m /\ out'[i] = out[i]
             \/ i = b + 1 /\ out'[i] = Separator
             \/ \E j \in 1 .. m - b : i = b + 1 + j /\ b + j \in 1 .. m /\ out'[i] = out[b + j]
  <2>1. i \in Nat /\ i >= 1 /\ i <= m + 1
    BY <1>1
  <2>2. CASE i <= b
    BY <1>1, <2>1, <2>2
  <2>3. CASE i = b + 1
    BY <1>1, <2>3
  <2>4. CASE i > b + 1
    <3>1. i - (b + 1) \in 1 .. m - b /\ b + (i - (b + 1)) \in 1 .. m /\ i = b + 1 + (i - (b + 1))
      BY <1>1, <2>1, <2>4
    <3> QED
      BY <1>1, <3>1
  <2> QED
    BY <1>1, <2>1, <2>2, <2>3, <2>4
<1>6. CellsOK'
  <2> SUFFICES ASSUME NEW i \in 1 .. Len(out') PROVE Proper(out'[i])
    BY DEF CellsOK, Proper
  <2> QED
    BY <1>4, <1>5 DEF BufOK, CellsOK, m
<1>7. OrderOK'
  <2> SUFFICES ASSUME NEW i \in 1 .. b + 1 PROVE out'[i].copied \/ out'[i].at < t.from
    BY <1>1 DEF OrderOK
  <2>1. CASE i \in 1 .. b
    BY <1>1, <2>1 DEF BufOK, OrderOK, b
  <2>2. CASE i = b + 1
    BY <1>1, <1>2, <1>4, <2>2
  <2> QED
    BY <1>1, <2>1, <2>2
<1>8. EarlyPlace'
  BY <1>1, <1>2 DEF EarlyPlace, NoToken
<1>9. SplitOK'
  <2> SUFFICES ASSUME NEW f \in split' PROVE f \in 1 .. n /\ f <= t.from
    BY <1>1 DEF SplitOK, n
  <2> QED
    BY <1>2 DEF BufOK, SplitOK, n
<1>10. LastOK'
  <2>1. m - b \in 1 .. m - b /\ b + 1 + (m - b) = m + 1 /\ b + (m - b) = m
    BY <1>1, <1>2, <1>3
  <2>2. out'[m + 1] = out[m]
    BY <1>1, <2>1
  <2>3. out[m] # Separator
    BY DEF BufOK, LastOK, m
  <2>4. Len(out') > 0 /\ out'[Len(out')] = out'[m + 1]
    BY <1>1
  <2>5. Len(out') > 0 /\ out'[Len(out')] # Separator
    BY <2>2, <2>3, <2>4
  <2> QED
    BY <2>5 DEF LastOK, Separator
<1>11. ApartOK'
  <2> SUFFICES ASSUME NEW i \in 1 .. Len(out'), out'[i].at \in split', ~out'[i].copied
               PROVE  i > 1 /\ out'[i - 1].at = 0
    BY DEF ApartOK
  <2>1. \A f \in split : f \in Nat /\ f > 0 /\ f <= t.from
    BY <1>2 DEF BufOK, SplitOK
  <2>2. CASE i \in 1 .. b /\ i \in 1 .. m /\ out'[i] = out[i]
    <3>1. out[i].at < t.from
      BY <2>2 DEF BufOK, OrderOK, b
    <3>2. out[i].at \in split
      BY <1>2, <2>2, <3>1
    <3>3. i > 1 /\ out[i - 1].at = 0
      BY <2>2, <3>2 DEF BufOK, ApartOK, m
    <3>4. i - 1 \in 1 .. b
      BY <1>1, <2>2, <3>3
    <3> QED
      BY <1>1, <3>3, <3>4
  <2>3. CASE i = b + 1 /\ out'[i] = Separator
    BY <1>2, <1>4, <2>1, <2>3
  <2>4. CASE \E j \in 1 .. m - b : i = b + 1 + j /\ b + j \in 1 .. m /\ out'[i] = out[b + j]
    <3>1. PICK j \in 1 .. m - b : i = b + 1 + j /\ b + j \in 1 .. m /\ out'[i] = out[b + j]
      BY <2>4
    <3>2. out[b + j].at = t.from + ((b + j) - b) - 1
      <4>1. b + j \in Nat /\ b < b + j /\ b + j <= m /\ m \in Nat /\ n \in Nat
        BY <1>1, <1>2, <3>1
      <4> QED
        BY <1>3, <4>1, Behind DEF m, n
    <3>3. out[b + j].at = t.from + j - 1
      BY <1>1, <1>2, <3>1, <3>2
    <3>4. j = 1
      BY <1>2, <2>1, <3>1, <3>3
    <3>5. i > 1 /\ i - 1 = b + 1
      BY <1>1, <3>1, <3>4
    <3> QED
      BY <1>1, <1>4, <3>5
  <2> QED
    BY <1>5, <2>2, <2>3, <2>4
<1>12. StuckAt'
  BY <1>1 DEF StuckAt
<1> QED
  BY <1>6, <1>7, <1>8, <1>9, <1>10, <1>11, <1>12 DEF BufOK
-----------------------------------------------------------------------------
(* The languages that will replace what is at x, behind the first p        *)
(* operations: what is not embedded in them in front of x.                 *)
Excused(s, p, x) ==
    \E k \in p + 1 .. Len(s) :
        /\ Lang(s[k]) /\ s[k][2].begin < x
        /\ \A j \in p + 1 .. k - 1 : s[j][1] = "embedded" => x <= s[j][2].begin

(* A new statement is not seen twice; only a language goes on behind one,  *)
(* which it replaces, and nothing else begins there; separators are fine   *)
(* but for those that will be replaced.                                    *)
StuckOK == todo # <<>> /\ ~ToT /\ Stuck =>
               Head1[1] # "suffix" /\ (Head1[1] \in Passive \/ Excused(todo, 0, t.begin))
BehindOK == \A p \in 1 .. Len(todo) :
                /\ todo[p][1] \in Marked /\ todo[p][2].begin > 0
                /\ out[todo[p][2].begin] = Separator
                => Excused(todo, p, todo[p][2].begin)
SepsOK == \/ status \in {"syntax", "load"}
          \/ \A i \in 1 .. Len(out) - 1 : FineAt(out, i, split) \/ Excused(todo, 0, i)
DoneOK == status = "done" => todo = <<>>

LEMMA ExcuseFirst ==
    ASSUME todo # <<>>, TodoOK, NEW x, Excused(todo, 0, x)
    PROVE  \/ Lang(Head1) /\ Head1[2].begin < x
           \/ Excused(todo, 1, x)
<1>1. PICK k \in 0 + 1 .. Len(todo) :
        /\ Lang(todo[k]) /\ todo[k][2].begin < x
        /\ \A j \in 0 + 1 .. k - 1 : todo[j][1] = "embedded" => x <= todo[j][2].begin
  BY DEF Excused
<1>2. Len(todo) \in Nat
  BY SeqLength DEF TodoOK
<1>3. CASE k = 1
  BY <1>1, <1>3 DEF Head1
<1>4. CASE k # 1
  <2>1. k \in 1 + 1 .. Len(todo) /\ \A j \in 1 + 1 .. k - 1 : j \in 0 + 1 .. k - 1
    BY <1>2, <1>4
  <2> QED
    BY <1>1, <2>1 DEF Excused
<1> QED
  BY <1>3, <1>4

(* Operations in front do no harm if what they embed is behind.            *)
LEMMA ExcusePut ==
    ASSUME TodoOK, todo # <<>>, NEW ops, IsSeq(ops), Put(ops), NEW x
    PROVE  /\ \A p \in 1 .. Len(todo) :
                 Excused(todo, p, x) => Excused(todo', Len(ops) + p - 1, x)
           /\ \A q \in 0 .. Len(ops) :
                 /\ Excused(todo, 1, x)
                 /\ \A j \in 1 .. Len(ops) : ops[j][1] = "embedded" => x <= ops[j][2].begin
                 => Excused(todo', q, x)
<1> DEFINE n == Len(ops)
           m == Len(todo)
<1>1. /\ n \in Nat /\ m \in Nat /\ m > 0 /\ Len(todo') = n + m - 1
      /\ \A p \in 1 .. n : todo'[p] = ops[p]
      /\ \A p \in 2 .. m : todo'[n + p - 1] = todo[p]
  BY PutPlaces
<1> HIDE DEF n, m
<1>2. ASSUME NEW p \in 1 .. m, Excused(todo, p, x)
      PROVE  /\ Excused(todo', n + p - 1, x)
             /\ \E k \in n + p .. Len(todo') :
                   /\ Lang(todo'[k]) /\ todo'[k][2].begin < x
                   /\ \A j \in n + p .. k - 1 : todo'[j][1] = "embedded" => x <= todo'[j][2].begin
  <2>1. PICK k \in p + 1 .. m :
          /\ Lang(todo[k]) /\ todo[k][2].begin < x
          /\ \A j \in p + 1 .. k - 1 : todo[j][1] = "embedded" => x <= todo[j][2].begin
    BY <1>2 DEF Excused, m
  <2>2. k \in 2 .. m /\ n + k - 1 \in (n + p - 1) + 1 .. Len(todo') /\ (n + p - 1) + 1 = n + p
    BY <1>1
  <2>3. todo'[n + k - 1] = todo[k]
    BY <1>1, <2>2
  <2>4. ASSUME NEW j \in n + p .. (n + k - 1) - 1, todo'[j][1] = "embedded"
        PROVE  x <= todo'[j][2].begin
    <3>1. j - n + 1 \in p + 1 .. k - 1 /\ j - n + 1 \in 2 .. m /\ n + (j - n + 1) - 1 = j
      BY <1>1, <2>2
    <3>2. todo'[j] = todo[j - n + 1]
      BY <1>1, <3>1
    <3> QED
      BY <2>1, <2>4, <3>1, <3>2
  <2> QED
    BY <2>1, <2>2, <2>3, <2>4 DEF Excused
<1>3. ASSUME NEW q \in 0 .. n, Excused(todo, 1, x),
             \A j \in 1 .. n : ops[j][1] = "embedded" => x <= ops[j][2].begin
      PROVE  Excused(todo', q, x)
  <2>1. 1 \in 1 .. m /\ n + 1 \in Nat
    BY <1>1
  <2>2. PICK k \in n + 1 .. Len(todo') :
          /\ Lang(todo'[k]) /\ todo'[k][2].begin < x
          /\ \A j \in n + 1 .. k - 1 : todo'[j][1] = "embedded" => x <= todo'[j][2].begin
    BY <1>2, <1>3, <2>1
  <2>3. k \in q + 1 .. Len(todo')
    BY <1>1, <2>2
  <2>4. ASSUME NEW j \in q + 1 .. k - 1, todo'[j][1] = "embedded"
        PROVE  x <= todo'[j][2].begin
    <3>1. CASE j <= n
      <4>1. j \in 1 .. n
        BY <3>1
      <4> QED
        BY <1>1, <1>3, <2>4, <4>1
    <3>2. CASE j > n
      <4>1. j \in n + 1 .. k - 1
        BY <1>1, <3>2
      <4> QED
        BY <2>2, <2>4, <4>1
    <3> QED
      BY <1>1, <3>1, <3>2
  <2> QED
    BY <2>2, <2>3, <2>4 DEF Excused
<1> QED
  BY <1>2, <1>3 DEF n, m

(* Where there may be separators.                                          *)
LEMMA NoSeparator ==
    ASSUME IInv, BufOK, NEW i \in 1 .. Len(out), t = NoToken \/ t.begin < i
    PROVE  out[i] # Separator
<1>1. Len(out) \in Nat /\ Len(source) \in Nat
  BY SeqLength DEF IInv, BufferOK
<1>2. CASE t = NoToken
  <2>1. InPlace(out, source, 0, 1)
    BY <1>2 DEF BufOK, EarlyPlace
  <2>2. i \in Nat /\ 0 < i /\ i <= Len(out)
    BY <1>1
  <2> QED
    BY <1>1, <2>1, <2>2, Behind
<1>3. CASE t # NoToken
  <2>1. InPlace(out, source, t.begin, t.from)
    BY <1>3, TokenThere DEF IInv, Held
  <2>2. i \in Nat /\ t.begin < i /\ i <= Len(out)
    BY <1>1, <1>3
  <2> QED
    BY <1>1, <2>1, <2>2, Behind
<1> QED
  BY <1>2, <1>3
-----------------------------------------------------------------------------
StackOK == StuckOK /\ BehindOK /\ SepsOK /\ DoneOK

LEMMA LexStatus == Lexes => status = "parsing" /\ status' \in {"parsing", "lexerror"}
<1> DEFINE Goes == status = "parsing" /\ status' \in {"parsing", "lexerror"}
<1> SUFFICES ASSUME Lexes PROVE Goes
  OBVIOUS
<1>1. ASSUME NEW m, In(m)
      PROVE  /\ status = "parsing"
             /\ On => Goes
             /\ \A tok : Returned(tok) => Goes
             /\ LexError => Goes
  BY <1>1 DEF In, On, Returned, LexError
<1>2. /\ \A m : Stay(m) \/ Skip(m) => On
      /\ \A k : Return(k) \/ SkipReturn(k) => Returned(Token(k))
      /\ \A b : ToBreak(b) => On
      /\ \A s, e : Broken(s, e) => On
      /\ Equals => On
      /\ \A k : LongOpens(k) => On
  BY DEF Stay, Skip, Return, SkipReturn, ToBreak, Broken, Equals, LongOpens
<1> HIDE DEF Goes
<1>3. CASE Start
  BY <1>1, <1>2, <1>3, Zenon DEF Start
<1>4. CASE IncLineNumber \/ Pair \/ Dots
  BY <1>1, <1>2, <1>4, Zenon DEF IncLineNumber, Pair, Dots
<1>5. CASE Dash \/ LongSep
  BY <1>1, <1>2, <1>5, Zenon DEF Dash, LongSep
<1>6. CASE Long
  BY <1>1, <1>2, <1>6, Zenon DEF Long
<1>7. CASE ReadString
  BY <1>1, <1>2, <1>7, Zenon DEF ReadString
<1>8. CASE Numeral \/ Word
  BY <1>1, <1>2, <1>8, Zenon DEF Numeral, Word
<1> QED
  BY <1>3, <1>4, <1>5, <1>6, <1>7, <1>8 DEF Lexes, Llex

(* The text and the operations that the call of llex does not change.      *)
LEMMA StackLexes ==
    ASSUME IInv, SeenOK, IInv', BufOK, StackOK, Lexes
    PROVE  StackOK'
<1>1. /\ lx # Idle /\ todo' = todo /\ UNCHANGED split
      /\ (t' = t /\ (Stuck' <=> Stuck)) \/ (~Stuck' /\ lx' = Idle)
      /\ lx.to = "lookahead" \/ lx' # Idle \/ ~Stuck'
      /\ lx' = Idle \/ lx'.to = lx.to
  BY BufLexes DEF Lexes
<1>2. Reads
  BY LexStep DEF GoesOn, Ends, EndOfText, GivesUp, Reads
<1>3. /\ Len(out) \in Nat /\ Len(out') \in Nat /\ Len(out) <= Len(out')
      /\ \A i \in 1 .. Len(out) : out'[i] = out[i]
      /\ \/ out' = out
         \/ out' = Append(out, [c |-> current', at |-> Len(source) + 1, copied |-> FALSE])
  BY <1>2, OutGrows DEF IInv
<1>4. status = "parsing" /\ status' \in {"parsing", "lexerror"}
  BY LexStatus
<1>5. StuckOK'
  <2> SUFFICES ASSUME todo # <<>>, ~ToT', Stuck'
               PROVE  Head1[1] # "suffix" /\ (Head1[1] \in Passive \/ Excused(todo, 0, t'.begin))
    BY <1>1 DEF StuckOK, Head1, Excused, Passive, Lang, LanguageText, Wrote
  <2>1. t' = t /\ Stuck
    BY <1>1
  <2>2. ~ToT
    <3>1. lx' = Idle => lx.to = "lookahead"
      BY <1>1
    <3>2. lx' # Idle => lx'.to # "t" /\ lx'.to = lx.to
      BY <1>1 DEF ToT, Idle
    <3> QED
      BY <3>1, <3>2 DEF ToT
  <2> QED
    BY <2>1, <2>2 DEF StackOK, StuckOK
<1>6. BehindOK'
  <2> SUFFICES ASSUME NEW p \in 1 .. Len(todo), todo[p][1] \in Marked, todo[p][2].begin > 0,
                      out'[todo[p][2].begin] = Separator
               PROVE  Excused(todo, p, todo[p][2].begin)
    BY <1>1 DEF BehindOK, Excused, Lang, LanguageText, Separator, Wrote, Marked
  <2>1. todo[p][2].begin \in 1 .. Len(out)
    <3>1. /\ todo[p][2].begin \in 0 .. t.begin
          /\ t.begin \in 0 .. Len(out) /\ Len(out) \in Nat
      BY MarksThere
    <3> QED
      BY <3>1
  <2>2. out[todo[p][2].begin] = Separator
    BY <1>3, <2>1
  <2> QED
    BY <2>2 DEF StackOK, BehindOK
<1>7. SepsOK'
  <2> SUFFICES ASSUME NEW i \in 1 .. Len(out') - 1, ~FineAt(out', i, split)
               PROVE  Excused(todo, 0, i)
    <3>1. ASSUME \A i \in 1 .. Len(out') - 1 : FineAt(out', i, split) \/ Excused(todo, 0, i)
          PROVE  SepsOK'
      BY <1>1, <3>1 DEF SepsOK, FineAt, Excused, Lang, LanguageText, Separator, Wrote
    <3> QED
      BY <3>1
  <2>1. CASE i \in 1 .. Len(out) - 1
    <3>1. i \in 1 .. Len(out) /\ i + 1 \in 1 .. Len(out)
      BY <1>3, <2>1
    <3>2. out'[i] = out[i] /\ out'[i + 1] = out[i + 1]
      BY <1>3, <3>1
    <3>3. ~FineAt(out, i, split)
      BY <3>2 DEF FineAt
    <3> QED
      BY <1>4, <2>1, <3>3 DEF StackOK, SepsOK
  <2>2. CASE i \notin 1 .. Len(out) - 1
    <3>1. Len(out') <= Len(out) + 1
      <4>1. IsSeq(out)
        BY DEF IInv, BufferOK
      <4>2. \A c : Len(Append(out, c)) = Len(out) + 1
        BY <4>1, SeqAppend
      <4> QED
        BY <1>3, <4>2
    <3>2. i = Len(out) /\ Len(out) \in 1 .. Len(out)
      BY <1>3, <2>2, <3>1
    <3>3. out'[i] = out[Len(out)]
      BY <1>3, <3>2
    <3>4. out[Len(out)] # Separator
      BY DEF BufOK, LastOK
    <3> QED
      BY <3>3, <3>4 DEF FineAt
  <2> QED
    BY <2>1, <2>2
<1>8. DoneOK'
  BY <1>4 DEF DoneOK
<1> QED
  BY <1>5, <1>6, <1>7, <1>8 DEF StackOK
-----------------------------------------------------------------------------
(* Operations that come into the place of the first one.                   *)
LEMMA BehindPut ==
    ASSUME IInv, BehindOK, todo # <<>>, NEW ops, IsSeq(ops), Put(ops),
           \A p \in 2 .. Len(todo) :
              todo[p][1] \in Marked /\ todo[p][2].begin > 0 =>
                  out'[todo[p][2].begin] = out[todo[p][2].begin],
           \A p \in 1 .. Len(ops) :
              /\ ops[p][1] \in Marked /\ ops[p][2].begin > 0
              /\ out'[ops[p][2].begin] = Separator
              => Excused(todo', p, ops[p][2].begin)
    PROVE  BehindOK'
<1> SUFFICES ASSUME NEW p \in 1 .. Len(todo'), todo'[p][1] \in Marked, todo'[p][2].begin > 0,
                    out'[todo'[p][2].begin] = Separator
             PROVE  Excused(todo', p, todo'[p][2].begin)
  BY DEF BehindOK, Excused, Lang, LanguageText, Separator, Wrote, Marked
<1>1. /\ Len(ops) \in Nat /\ Len(todo) \in Nat
      /\ \A i \in 1 .. Len(ops) : todo'[i] = ops[i]
      /\ \/ p \in 1 .. Len(ops)
         \/ \E k \in 2 .. Len(todo) : p = Len(ops) + k - 1 /\ todo'[p] = todo[k]
  <2>1. TodoOK
    BY DEF IInv
  <2>2. /\ Len(ops) \in Nat /\ Len(todo) \in Nat
        /\ \A i \in 1 .. Len(ops) : todo'[i] = ops[i]
        /\ \A i \in 1 .. Len(todo') :
              \/ i \in 1 .. Len(ops)
              \/ \E k \in 2 .. Len(todo) : i = Len(ops) + k - 1 /\ todo'[i] = todo[k]
    BY <2>1, PutPlaces, ZenonT(40)
  <2> QED
    BY <2>2
<1>2. CASE p \in 1 .. Len(ops)
  BY <1>1, <1>2
<1>3. CASE p \notin 1 .. Len(ops)
  <2>1. PICK k \in 2 .. Len(todo) : p = Len(ops) + k - 1 /\ todo'[p] = todo[k]
    BY <1>1, <1>3
  <2>2. out[todo[k][2].begin] = Separator
    BY <2>1
  <2>3. k \in 1 .. Len(todo)
    BY <1>1
  <2>4. Excused(todo, k, todo[k][2].begin)
    BY <2>1, <2>2, <2>3 DEF BehindOK
  <2>5. Excused(todo', Len(ops) + k - 1, todo[k][2].begin)
    BY <2>3, <2>4, ExcusePut DEF IInv
  <2> QED
    BY <2>1, <2>5
<1> QED
  BY <1>2, <1>3

(* One operation is done.                                                  *)
LEMMA ExcuseDone ==
    ASSUME IInv, todo # <<>>, Put(<<>>)
    PROVE  /\ IsSeq(<<>>) /\ Len(<<>>) = 0
           /\ \A x : Excused(todo, 1, x) => Excused(todo', 0, x)
           /\ ~Lang(Head1) => \A x : Excused(todo, 0, x) => Excused(todo', 0, x)
           /\ todo' # <<>> => Len(todo) > 1 /\ todo'[1] = todo[2]
<1>1. IsSeq(<<>>) /\ Len(<<>>) = 0
  BY SeqShort
<1>2. \A x : Excused(todo, 1, x) => Excused(todo', 0, x)
  BY <1>1, ExcusePut DEF IInv
<1>3. ~Lang(Head1) => \A x : Excused(todo, 0, x) => Excused(todo', 0, x)
  BY <1>2, ExcuseFirst DEF IInv
<1>4. todo' # <<>> => Len(todo) > 1 /\ todo'[1] = todo[2]
  <2> SUFFICES ASSUME todo' # <<>> PROVE Len(todo) > 1 /\ todo'[1] = todo[2]
    OBVIOUS
  <2> DEFINE n == Len(<<>>)
  <2>1. IsSeq(todo') /\ Len(todo') = n + Len(todo) - 1 /\ Len(todo) \in Nat
        /\ \A p \in 2 .. Len(todo) : todo'[n + p - 1] = todo[p]
    BY <1>1, PutPlaces DEF IInv
  <2>2. Len(todo') > 0 /\ Len(todo') \in Nat
    BY <2>1, SeqTail, SeqLength
  <2>3. n = 0
    BY <1>1
  <2> HIDE DEF n
  <2>4. 2 \in 2 .. Len(todo) /\ n + 2 - 1 = 1
    BY <2>1, <2>2, <2>3
  <2>5. todo'[n + 2 - 1] = todo[2]
    BY <2>1, <2>4
  <2> QED
    BY <2>4, <2>5
<1> QED
  BY <1>1, <1>2, <1>3, <1>4

(* What follows an operation that does not end by consuming something.     *)
LEMMA PassiveNext ==
    ASSUME TodoOK, ShapeOK, Len(todo) > 1, Head1[1] \notin Pops
    PROVE  todo[2][1] # "suffix" /\ (todo[2][1] \in Passive \/ Head1[1] = "look")
<1>1. Len(todo) \in Nat /\ 2 \in 2 .. Len(todo)
  BY SeqLength DEF TodoOK
<1>2. Follows(todo[1], todo[2])
  <2>1. Follows(todo[2 - 1], todo[2])
    BY <1>1 DEF ShapeOK, Joined
  <2> QED
    BY <2>1
<1> QED
  BY <1>2 DEF Follows, Head1

(* The buffer does not change and what is excused stays so.                *)
LEMMA SepsSame ==
    ASSUME SepsOK, UNCHANGED <<out, split>>, status \notin {"syntax", "load"},
           \A i \in 1 .. Len(out) - 1 :
              Excused(todo, 0, i) /\ out[i] = Separator => Excused(todo', 0, i)
    PROVE  SepsOK'
<1>1. ASSUME NEW i \in 1 .. Len(out) - 1
      PROVE  FineAt(out, i, split) \/ Excused(todo', 0, i)
  BY DEF SepsOK, FineAt
<1> QED
  BY <1>1 DEF SepsOK, FineAt, Excused, Lang, LanguageText, Separator, Wrote

LEMMA StackNexts ==
    ASSUME IInv, IInv', SeenOK, ShapeOK, GapsOK, BufOK, StackOK, Nexts
    PROVE  StackOK'
<1>1. /\ UNCHANGED <<out, split, status>> /\ status = "parsing" /\ todo # <<>> /\ Put(<<>>)
      /\ Head1[1] \in {"next", "expect"}
  BY DEF Nexts, LuaXNext, At, Parsing
<1>2. ~Lang(Head1)
  BY <1>1 DEF Lang
<1>3. ToT' \/ ~Stuck'
  BY BufNexts
<1>4. IsSeq(<<>>) /\ Len(<<>>) = 0 /\ \A x : Excused(todo, 0, x) => Excused(todo', 0, x)
  BY <1>1, <1>2, ExcuseDone
<1>5. StuckOK'
  BY <1>3 DEF StuckOK
<1>6. BehindOK'
  <2>1. \A p \in 1 .. Len(<<>>) : FALSE
    BY <1>4
  <2> QED
    BY <1>1, <1>4, <2>1, BehindPut DEF StackOK
<1>7. SepsOK'
  BY <1>1, <1>4, SepsSame DEF StackOK
<1>8. DoneOK'
  BY <1>1 DEF DoneOK
<1> QED
  BY <1>5, <1>6, <1>7, <1>8 DEF StackOK

LEMMA StackLooks ==
    ASSUME IInv, IInv', ShapeOK, BufOK, StackOK, Looks
    PROVE  StackOK'
<1>1. /\ UNCHANGED <<out, split, t>> /\ status = "parsing" /\ status' \in {"parsing", "assert"}
      /\ todo # <<>> /\ Put(<<>>) /\ Head1[1] = "look" /\ ~ToT
  BY DEF Looks, LuaXLookahead, At, Parsing, tokens, ToT
<1>2. ~Lang(Head1)
  BY <1>1 DEF Lang
<1>3. IsSeq(<<>>) /\ Len(<<>>) = 0 /\ \A x : Excused(todo, 0, x) => Excused(todo', 0, x)
  BY <1>1, <1>2, ExcuseDone
<1>4. StuckOK'
  <2> SUFFICES ASSUME todo' # <<>>, Stuck
               PROVE  todo'[1][1] # "suffix" /\ Excused(todo', 0, t.begin)
    <3>1. Stuck' => Stuck
      BY <1>1 DEF Stuck, Separator
    <3>2. t'.begin = t.begin
      BY <1>1
    <3> QED
      BY <3>1, <3>2 DEF StuckOK, Head1, Passive, Excused, Lang, LanguageText, Wrote
  <2>1. Head1[1] \in Passive \/ Excused(todo, 0, t.begin)
    BY <1>1 DEF StackOK, StuckOK
  <2>2. Excused(todo', 0, t.begin)
    BY <1>1, <1>3, <2>1 DEF Passive
  <2>3. todo'[1][1] # "suffix"
    <3>1. Len(todo) > 1 /\ todo'[1] = todo[2]
      BY <1>1, ExcuseDone
    <3>2. todo[2][1] # "suffix"
      BY <1>1, <3>1, PassiveNext DEF Pops, IInv
    <3> QED
      BY <3>1, <3>2
  <2> QED
    BY <2>2, <2>3
<1>5. BehindOK'
  <2>1. \A p \in 1 .. Len(<<>>) : FALSE
    BY <1>3
  <2> QED
    BY <1>1, <1>3, <2>1, BehindPut DEF StackOK
<1>6. SepsOK'
  BY <1>1, <1>3, SepsSame DEF StackOK
<1>7. DoneOK'
  BY <1>1 DEF DoneOK
<1> QED
  BY <1>4, <1>5, <1>6, <1>7 DEF StackOK

(* The parser ends.                                                        *)
LEMMA StackStops ==
    ASSUME IInv, ShapeOK, StackOK, Parsing, todo' = <<>>, UNCHANGED <<out, t, split>>,
           \/ status' \in {"syntax", "load"}
           \/ Head1[1] = "stats"
    PROVE  StackOK'
<1>1. StuckOK'
  BY DEF StuckOK
<1>2. BehindOK'
  <2>1. \A p \in 1 .. Len(<<>>) : FALSE
    BY SeqShort
  <2> QED
    BY <2>1 DEF BehindOK
<1>3. SepsOK'
  <2>1. CASE status' \in {"syntax", "load"}
    BY <2>1 DEF SepsOK
  <2>2. CASE Head1[1] = "stats"
    <3>1. Len(todo) = 1
      <4>1. Len(todo) \in Nat /\ Len(todo) > 0
        BY SeqLength, SeqTail DEF IInv, TodoOK, Parsing
      <4>2. ~(Len(todo) > 1)
        <5> SUFFICES ASSUME Len(todo) > 1 PROVE FALSE
          OBVIOUS
        <5>1. 2 \in 2 .. Len(todo) /\ 2 - 1 = 1
          BY <4>1
        <5>2. Follows(todo[2 - 1], todo[2])
          BY <5>1 DEF ShapeOK, Joined
        <5>3. todo[1][1] # "stats"
          BY <5>1, <5>2 DEF Follows
        <5> QED
          BY <2>2, <5>3 DEF Head1
      <4> DEFINE n == Len(todo)
      <4>3. n \in Nat /\ n > 0 /\ ~(n > 1)
        BY <4>1, <4>2
      <4> HIDE DEF n
      <4>4. n = 1
        BY <4>3
      <4> QED
        BY <4>4 DEF n
    <3>2. \A x : ~Excused(todo, 0, x)
      BY <2>2, <3>1 DEF Excused, Lang, Head1
    <3>3. status = "parsing"
      BY DEF Parsing
    <3>4. \A i \in 1 .. Len(out) - 1 : FineAt(out, i, split)
      BY <3>2, <3>3 DEF StackOK, SepsOK
    <3> QED
      BY <3>4 DEF SepsOK, FineAt, Separator, Wrote
  <2> QED
    BY <2>1, <2>2
<1>4. DoneOK'
  BY DEF DoneOK
<1> QED
  BY <1>1, <1>2, <1>3, <1>4 DEF StackOK
-----------------------------------------------------------------------------
(* A call by the parser of one of its functions.                           *)
LEMMA StackPush ==
    ASSUME IInv, ShapeOK, BufOK, StackOK, Parsing, Quiet, UNCHANGED <<split, status>>,
           NEW ops, Put(ops), Fit(ops)
    PROVE  StackOK'
<1> DEFINE n == Len(ops)
<1>1. /\ todo # <<>> /\ IsSeq(ops) /\ TodoOK /\ ~ToT /\ status = "parsing" /\ n \in Nat
      /\ UNCHANGED <<out, t, lx>>
  BY SeqLength DEF Parsing, Fit, IInv, Quiet, ToT
<1>2. /\ Len(todo) \in Nat /\ Len(todo) > 0 /\ 1 \in 1 .. Len(todo)
      /\ \A p \in 1 .. n : todo'[p] = ops[p]
      /\ Len(todo') = n + Len(todo) - 1
  <2>1. Len(todo) \in Nat /\ Len(todo) > 0
    BY <1>1, SeqLength, SeqTail DEF TodoOK
  <2>2. /\ \A p \in 1 .. n : todo'[p] = ops[p]
        /\ Len(todo') = n + Len(todo) - 1
    BY <1>1, PutPlaces
  <2> QED
    BY <2>1, <2>2
<1>3. \A j \in 1 .. n : ops[j][1] = "embedded" => ops[j][2].begin = t.begin
  BY DEF Fit, OpFit
<1>4. ASSUME NEW x, x <= t.begin, NEW q \in 0 .. n, Excused(todo, 1, x)
      PROVE  Excused(todo', q, x)
  BY <1>1, <1>3, <1>4, ExcusePut
<1>5. Lang(Head1) => Head1[1] = "language"
  BY DEF Lang, Fit
<1>6. n > 0 => todo'[1] = ops[1] /\ (n > 1 => todo'[2] = ops[2])
  BY <1>1, <1>2
<1>7. ASSUME Head1[1] = "language", NEW x, Head1[2].begin < x
      PROVE  Excused(todo', 0, x)
  <2>1. n > 0
    BY <1>1, <1>7 DEF Fit, Eats
  <2>2. \/ Lang(ops[1]) /\ ops[1][2] = Head1[2]
        \/ n > 1 /\ ops[1][1] # "embedded" /\ Lang(ops[2]) /\ ops[2][2] = Head1[2]
    <3>1. Opens(ops[1], ops[IF n = 1 THEN 1 ELSE 2])
      BY <2>1 DEF Fit
    <3> HIDE DEF n
    <3>2. n = 1 \/ n > 1
      BY <1>1, <2>1
    <3>3. CASE n = 1
      BY <1>7, <3>1, <3>3 DEF Opens
    <3>4. CASE n > 1
      <4>1. Opens(ops[1], ops[2])
        BY <1>1, <3>1, <3>4
      <4> QED
        BY <1>7, <3>4, <4>1 DEF Opens
    <3> QED
      BY <3>2, <3>3, <3>4
  <2>3. Len(todo') >= n
    BY <1>1, <1>2
  <2>4. CASE Lang(ops[1]) /\ ops[1][2] = Head1[2]
    <3>1. 1 \in 0 + 1 .. Len(todo') /\ ~\E j \in 0 + 1 .. 1 - 1 : TRUE
      BY <1>1, <1>2, <2>1, <2>3
    <3> QED
      BY <1>6, <1>7, <2>1, <2>4, <3>1 DEF Excused
  <2>5. CASE n > 1 /\ ops[1][1] # "embedded" /\ Lang(ops[2]) /\ ops[2][2] = Head1[2]
    <3>1. 2 \in 0 + 1 .. Len(todo') /\ \A j \in 0 + 1 .. 2 - 1 : j = 1
      BY <1>1, <1>2, <2>3, <2>5
    <3>2. Lang(todo'[2]) /\ todo'[2][2].begin < x /\ todo'[1][1] # "embedded"
      BY <1>6, <1>7, <2>1, <2>5
    <3> QED
      BY <3>1, <3>2 DEF Excused
  <2> QED
    BY <2>2, <2>4, <2>5
<1>8. ASSUME NEW x, x <= t.begin, Excused(todo, 0, x)
      PROVE  Excused(todo', 0, x)
  <2>1. 0 \in 0 .. n
    BY <1>1
  <2> QED
    BY <1>1, <1>4, <1>5, <1>7, <1>8, <2>1, ExcuseFirst
<1>9. Stuck /\ Head1[1] \notin Passive => Excused(todo, 1, t.begin)
  <2>1. ~Lang(Head1) \/ Head1[1] \in Passive
    BY <1>5 DEF Passive
  <2> QED
    BY <1>1, <2>1, ExcuseFirst DEF StackOK, StuckOK
<1>10. StuckOK'
  <2> SUFFICES ASSUME Stuck, todo' # <<>>
               PROVE  /\ todo'[1][1] # "suffix"
                      /\ todo'[1][1] \in Passive \/ Excused(todo', 0, t.begin)
    <3>1. Stuck' => Stuck
      BY <1>1 DEF Stuck, Separator
    <3>2. t'.begin = t.begin
      BY <1>1
    <3> QED
      BY <3>1, <3>2 DEF StuckOK, Head1, Passive, Excused, Lang, LanguageText, Wrote
  <2>1. CASE n = 0
    <3>1. Len(todo) > 1 /\ todo'[1] = todo[2]
      <4>1. ops = <<>>
        BY <1>1, <2>1, SeqTail
      <4> QED
        BY <1>1, <4>1, ExcuseDone
    <3>2. Head1[1] \notin Pops /\ Head1[1] # "look"
      BY <2>1 DEF Fit
    <3> QED
      BY <1>1, <3>1, <3>2, PassiveNext
  <2>2. CASE n > 0
    <3>1. ops[1][1] # "suffix" /\ (Head1[1] \in Passive => ops[1][1] \in Passive \/ Head1[1] = "language")
      BY <2>2 DEF Fit, Opens
    <3>2. CASE Head1[1] = "language"
      <4>1. t.begin > 0 /\ out[t.begin] = Separator /\ t # NoToken
        BY DEF Stuck, NoToken
      <4>2. IsToken(Head1[2]) /\ Head1[2].begin \in 0 .. t.begin /\ t.begin \in Nat
        <5>1. todo[1][2].begin \in 0 .. t.begin /\ t.begin \in 0 .. Len(out)
          BY <1>2, <3>2, MarksThere DEF Head1, Marked
        <5>2. IsToken(todo[1][2])
          BY <1>2, <3>2 DEF IInv, TodoOK, OpOK, Marked, Head1
        <5> QED
          BY <5>1, <5>2 DEF Head1
      <4>3. CASE Head1[2].begin < t.begin
        BY <1>6, <1>7, <2>2, <3>1, <3>2, <4>3
      <4>4. CASE ~(Head1[2].begin < t.begin)
        <5>1. Head1[2].begin = t.begin
          BY <4>2, <4>4
        <5>2. Excused(todo, 1, t.begin)
          BY <1>2, <3>2, <4>1, <5>1 DEF StackOK, BehindOK, Head1, Marked
        <5>3. 0 \in 0 .. n /\ t.begin <= t.begin
          BY <1>1, <4>2
        <5>4. Excused(todo', 0, t.begin)
          BY <1>4, <5>2, <5>3
        <5> QED
          BY <1>6, <2>2, <3>1, <5>4
      <4> QED
        BY <4>3, <4>4
    <3>3. CASE Head1[1] \in Passive /\ Head1[1] # "language"
      BY <1>6, <2>2, <3>1, <3>3
    <3>4. CASE Head1[1] \notin Passive
      <4>1. t.begin <= t.begin /\ 0 \in 0 .. n
        <5>1. t # NoToken
          BY DEF Stuck, NoToken
        <5>2. t.begin \in 0 .. Len(out)
          BY <5>1, TokenThere DEF IInv
        <5> QED
          BY <1>1, <5>2
      <4> QED
        BY <1>4, <1>6, <1>9, <2>2, <3>1, <3>4, <4>1
    <3> QED
      BY <3>2, <3>3, <3>4
  <2> QED
    BY <1>1, <2>1, <2>2
<1>11. BehindOK'
  <2>1. ASSUME NEW p \in 1 .. n, ops[p][1] \in Marked, ops[p][2].begin > 0,
               out[ops[p][2].begin] = Separator
        PROVE  Excused(todo', p, ops[p][2].begin)
    <3>1. p \in 0 .. n
      BY <1>1
    <3>2. \/ ops[p][2].begin \in Mark(Head1)
          \/ ops[p][2].begin = t.begin /\ ~(Stuck /\ Head1[1] \in Passive)
      BY <2>1 DEF Fit, OpFit
    <3>3. CASE ops[p][2].begin \in Mark(Head1)
      <4>1. Head1[1] \in Marked /\ ops[p][2].begin = Head1[2].begin
        BY <3>3 DEF Mark
      <4>2. Excused(todo, 1, ops[p][2].begin)
        BY <1>2, <2>1, <4>1 DEF StackOK, BehindOK, Head1
      <4>3. ops[p][2].begin <= t.begin
        BY <1>2, <4>1, MarksThere DEF Head1
      <4> QED
        BY <1>4, <3>1, <4>2, <4>3
    <3>4. CASE ops[p][2].begin = t.begin /\ ~(Stuck /\ Head1[1] \in Passive)
      <4>1. Stuck
        BY <2>1, <3>4 DEF Stuck
      <4>2. Excused(todo, 1, t.begin)
        BY <1>9, <3>4, <4>1
      <4>3. t.begin <= t.begin
        <5>1. t # NoToken
          BY <4>1 DEF Stuck, NoToken
        <5>2. t.begin \in 0 .. Len(out)
          BY <5>1, TokenThere DEF IInv
        <5>3. t.begin \in Int
          BY <5>2
        <5> QED
          BY <5>3
      <4> QED
        BY <1>4, <3>1, <3>4, <4>2, <4>3
    <3> QED
      BY <3>2, <3>3, <3>4
  <2> QED
    BY <1>1, <2>1, BehindPut DEF StackOK
<1>12. SepsOK'
  <2>1. ASSUME NEW i \in 1 .. Len(out) - 1, Excused(todo, 0, i), out[i] = Separator
        PROVE  Excused(todo', 0, i)
    <3>1. i \in 1 .. Len(out) /\ i \in Int
      <4>1. Len(out) \in Nat
        BY SeqLength DEF IInv, BufferOK
      <4> QED
        BY <4>1
    <3>2. t # NoToken /\ ~(t.begin < i)
      BY <2>1, <3>1, NoSeparator
    <3>3. t.begin \in 0 .. Len(out)
      BY <3>2, TokenThere DEF IInv
    <3>4. i <= t.begin
      BY <3>1, <3>2, <3>3
    <3> QED
      BY <1>8, <2>1, <3>4
  <2> QED
    BY <1>1, <2>1, SepsSame DEF StackOK
<1>13. DoneOK'
  BY <1>1 DEF DoneOK
<1> QED
  BY <1>10, <1>11, <1>12, <1>13 DEF StackOK
-----------------------------------------------------------------------------
(* A text is written, and the operation there is at most one left of       *)
(* begins where the text does.                                             *)
LEMMA StackPatch ==
    ASSUME IInv, ShapeOK, BufOK, StackOK, Parsing, Head1[1] \in Patchers,
           NEW text, NEW b, NEW e, Patched(text, b, e), TextOK(text), Orderly(text, split),
           UNCHANGED <<source, split, status>>,
           NEW ops, IsSeq(ops), Put(ops), Len(ops) <= 1,
           \A i \in 1 .. Len(ops) : ops[i][1] # "embedded" /\ ops[i][2].begin = b
    PROVE  StackOK'
<1> DEFINE n == Len(ops)
           c == Len(text)
           m == Len(out)
<1>1. /\ todo # <<>> /\ TodoOK /\ status = "parsing" /\ n \in Nat /\ n <= 1
  BY SeqLength DEF Parsing, IInv
<1>2. /\ b \in Nat /\ e \in Nat /\ t.begin \in Nat /\ m \in Nat /\ c \in Nat
      /\ Head1[2].begin \in 0 .. b /\ b < t.begin /\ t.begin <= m
      /\ b + c <= e /\ t'.begin = e /\ Len(out') = e + (m - t.begin)
      /\ \A i \in Head1[2].begin + 1 .. b : out[i].c \in White
      /\ \A i \in 1 .. b : out'[i] = out[i]
      /\ \A i \in 1 .. c : out'[b + i] = text[i]
      /\ \A i \in 1 .. m - t.begin : out'[e + i] = out[t.begin + i]
  BY DEF Patched
<1>3. /\ Len(todo) \in Nat /\ Len(todo) > 0 /\ 1 \in 1 .. Len(todo) /\ todo[1] = Head1
      /\ Head1[1] \in Marked /\ Head1[1] # "embedded"
  <2>1. Len(todo) \in Nat /\ Len(todo) > 0
    BY <1>1, SeqLength, SeqTail DEF TodoOK
  <2>2. 1 \in 1 .. Len(todo)
    BY <2>1
  <2>3. Head1[1] \in Marked /\ Head1[1] # "embedded"
    BY DEF Patchers, Marked
  <2> QED
    BY <2>1, <2>2, <2>3 DEF Head1
<1>4. ~Stuck' /\ t # NoToken
  <2>1. t # NoToken
    BY NotFirst DEF Patchers
  <2> QED
    BY <2>1, BufPatch
<1> HIDE DEF n, c, m
<1>5. \A i \in 1 .. n : ops[i][1] # "embedded" /\ ops[i][2].begin = b
  BY DEF n
(* What is excused behind the first operation is so behind the new ones.   *)
<1>6. ASSUME NEW x, NEW q \in 0 .. n, Excused(todo, 1, x)
      PROVE  Excused(todo', q, x)
  BY <1>1, <1>5, <1>6, ExcusePut DEF n
(* There is no separator between the old mark and the new one.             *)
<1>7. ASSUME NEW i \in 1 .. b, out[i] = Separator
      PROVE  ~(Head1[2].begin < i)
  <2> SUFFICES ASSUME Head1[2].begin < i PROVE FALSE
    OBVIOUS
  <2>1. i \in Head1[2].begin + 1 .. b
    BY <1>2
  <2>2. out[i].c \in White
    BY <1>2, <2>1
  <2>3. out[i].c = ";"
    <3>1. Separator.c = ";"
      BY DEF Separator, Wrote
    <3> QED
      BY <1>7, <3>1, Zenon
  <2> QED
    BY <2>2, <2>3 DEF White, Breaks, Blanks
<1>8. b > 0 /\ out[b] = Separator => Excused(todo, 1, b)
  <2> SUFFICES ASSUME b > 0, out[b] = Separator PROVE Excused(todo, 1, b)
    OBVIOUS
  <2>1. b \in 1 .. b
    BY <1>2
  <2>2. Head1[2].begin = b
    BY <1>2, <1>7, <2>1
  <2> QED
    BY <1>3, <2>2 DEF StackOK, BehindOK
<1>9. StuckOK'
  BY <1>4 DEF StuckOK
<1>10. BehindOK'
  <2>1. ASSUME NEW p \in 2 .. Len(todo), todo[p][1] \in Marked, todo[p][2].begin > 0
        PROVE  out'[todo[p][2].begin] = out[todo[p][2].begin]
    <3>1. todo[p][2].begin <= Head1[2].begin /\ todo[p][2].begin \in Int
      <4>1. p \in 1 .. Len(todo) /\ 1 < p
        BY <1>3
      <4>2. \A x \in Mark(todo[1]), y \in Mark(todo[p]) : y <= x
        BY <1>1, <1>3, <4>1 DEF TodoOK
      <4>3. todo[p][2].begin \in 0 .. t.begin
        BY <2>1, <4>1, MarksThere
      <4> QED
        BY <1>3, <2>1, <4>2, <4>3 DEF Mark
    <3>2. todo[p][2].begin \in 1 .. b
      BY <1>2, <2>1, <3>1, SMTT(30)
    <3> QED
      BY <1>2, <3>2
  <2>2. ASSUME NEW p \in 1 .. n, ops[p][2].begin > 0, out'[ops[p][2].begin] = Separator
        PROVE  Excused(todo', p, ops[p][2].begin)
    <3>1. ops[p][2].begin = b /\ b \in 1 .. b /\ p \in 0 .. n
      BY <1>1, <1>2, <1>5, <2>2
    <3>2. out[b] = Separator
      BY <1>2, <2>2, <3>1
    <3> QED
      BY <1>6, <1>8, <2>2, <3>1, <3>2
  <2> QED
    BY <1>1, <2>1, <2>2, BehindPut DEF StackOK, n
<1>11. SepsOK'
  <2>1. ASSUME NEW i \in 1 .. Len(out') - 1, out'[i] = Separator
        PROVE  FineAt(out', i, split) \/ Excused(todo', 0, i)
    <3>0. 0 \in 0 .. n /\ i \in 1 .. Len(out') /\ i \in Int /\ i > 0
      BY <1>1, <1>2
    <3>1. CASE i < b
      <4>1. i \in 1 .. b /\ i + 1 \in 1 .. b /\ i \in 1 .. Len(out) - 1
        BY <1>2, <3>0, <3>1 DEF m
      <4>2. out'[i] = out[i] /\ out'[i + 1] = out[i + 1]
        BY <1>2, <4>1
      <4>3. FineAt(out, i, split) \/ Excused(todo, 0, i)
        BY <1>1, <4>1 DEF StackOK, SepsOK
      <4>4. ~(Head1[2].begin < i)
        BY <1>7, <2>1, <4>1, <4>2
      <4>5. FineAt(out', i, split) \/ Excused(todo, 1, i)
        BY <1>1, <4>2, <4>3, <4>4, ExcuseFirst DEF FineAt
      <4> QED
        BY <1>6, <3>0, <4>5
    <3>2. CASE i = b
      <4>1. b > 0 /\ out'[b] = out[b]
        BY <1>2, <3>0, <3>2
      <4> QED
        BY <1>6, <1>8, <2>1, <3>0, <3>2, <4>1
    <3>3. CASE \E j \in 1 .. Len(text) : i = b + j /\ out'[i] = text[j]
      <4>1. PICK j \in 1 .. c : i = b + j /\ out'[i] = text[j]
        BY <3>3 DEF c
      <4>2. j # c
        BY <2>1, <4>1 DEF TextOK, c
      <4>3. j \in 1 .. c - 1 /\ j + 1 \in 1 .. c /\ i + 1 = b + (j + 1)
        BY <1>2, <4>1, <4>2
      <4>4. out'[i + 1] = text[j + 1]
        BY <1>2, <4>3
      <4>5. FineAt(text, j, split)
        BY <4>3 DEF Orderly, c
      <4> QED
        BY <4>1, <4>4, <4>5 DEF FineAt
    <3>4. CASE b + Len(text) < i /\ i <= e /\ out'[i] = Wrote("\n")
      <4>1. Wrote("\n") # Wrote(";")
        BY DEF Wrote
      <4> QED
        BY <2>1, <3>4, <4>1 DEF Separator
    <3>5. CASE \E j \in 1 .. Len(out) - t.begin :
                  i = e + j /\ t.begin + j \in 1 .. Len(out) /\ out'[i] = out[t.begin + j]
      <4>1. PICK j \in 1 .. m - t.begin :
                  i = e + j /\ t.begin + j \in 1 .. m /\ out'[i] = out[t.begin + j]
        BY <3>5 DEF m
      <4>2. t.begin < t.begin + j
        BY <1>2, <4>1
      <4>3. out[t.begin + j] # Separator
        BY <4>1, <4>2, NoSeparator DEF m
      <4> QED
        BY <2>1, <4>1, <4>3
    <3>6. \/ i <= b
          \/ \E j \in 1 .. Len(text) : i = b + j /\ out'[i] = text[j]
          \/ b + Len(text) < i /\ i <= e /\ out'[i] = Wrote("\n")
          \/ \E j \in 1 .. Len(out) - t.begin :
                 i = e + j /\ t.begin + j \in 1 .. Len(out) /\ out'[i] = out[t.begin + j]
      BY <3>0, PatchedCells
    <3>7. i <= b => i < b \/ i = b
      BY <1>2, <3>0
    <3> QED
      BY <3>1, <3>2, <3>3, <3>4, <3>5, <3>6, <3>7, Zenon
  <2>2. \A i \in 1 .. Len(out') - 1 : FineAt(out', i, split) \/ Excused(todo', 0, i)
    BY <2>1 DEF FineAt
  <2> QED
    BY <2>2 DEF SepsOK, FineAt, Separator, Wrote
<1>12. DoneOK'
  BY <1>1 DEF DoneOK
<1> QED
  BY <1>9, <1>10, <1>11, <1>12 DEF StackOK

(* A separator is inserted: where the token behind it is a new statement.  *)
LEMMA StackInsert ==
    ASSUME IInv, SeenOK, ShapeOK, BufOK, StackOK, Parsing, Head1[1] = "suffix",
           Inserted(Separator), t.token # EOS, split' = split \cup {t.from},
           UNCHANGED <<source, status>>, Put(<<>>)
    PROVE  StackOK'
<1> DEFINE b == t.begin
           m == Len(out)
<1>1. /\ b \in Nat /\ m \in Nat /\ b <= m /\ t'.begin = b + 1 /\ Len(out') = m + 1
      /\ out'[b + 1] = Separator
      /\ \A i \in 1 .. b : out'[i] = out[i]
      /\ \A i \in 1 .. m - b : out'[b + 1 + i] = out[b + i]
  BY DEF Inserted
<1>2. /\ todo # <<>> /\ TodoOK /\ status = "parsing" /\ ~Lang(Head1) /\ t # NoToken /\ ~ToT
  BY DEF Parsing, IInv, Lang, NoToken, ToT
<1>3. /\ IsSeq(<<>>) /\ Len(<<>>) = 0 /\ \A x : Excused(todo, 0, x) => Excused(todo', 0, x)
  BY <1>2, ExcuseDone
<1>4. t.from \in Nat /\ m - b >= 1 /\ out[b + 1].at = t.from
  <2>1. t.from \in 1 .. Len(source) + 1 /\ Len(source) \in Nat /\ InPlace(out, source, b, t.from)
    BY <1>2, TokenThere DEF IInv, Held
  <2>2. PICK f \in t.from .. Len(source) : source[f] \notin White
    BY DEF SeenOK, Seen
  <2>3. m - b = Len(source) + 1 - t.from
    BY <2>1 DEF InPlace
  <2>4. m - b >= 1 /\ t.from \in Nat
    BY <1>1, <2>1, <2>2, <2>3
  <2>5. b + 1 \in Nat /\ b < b + 1 /\ b + 1 <= m
    BY <1>1, <2>4
  <2>6. out[b + 1].at = t.from + ((b + 1) - b) - 1
    BY <1>1, <2>1, <2>5, Behind DEF m
  <2> QED
    BY <1>1, <2>4, <2>6
<1> HIDE DEF b, m
<1>5. StuckOK'
  <2> SUFFICES ASSUME todo' # <<>> PROVE todo'[1][1] # "suffix" /\ todo'[1][1] \in Passive
    BY DEF StuckOK, Head1, Passive
  <2>1. Len(todo) > 1 /\ todo'[1] = todo[2]
    BY <1>2, ExcuseDone
  <2> QED
    BY <1>2, <2>1, PassiveNext DEF Pops
<1>6. BehindOK'
  <2>1. ASSUME NEW p \in 2 .. Len(todo), todo[p][1] \in Marked, todo[p][2].begin > 0
        PROVE  out'[todo[p][2].begin] = out[todo[p][2].begin]
    <3>1. p \in 1 .. Len(todo)
      BY SeqLength DEF IInv, TodoOK
    <3>2. todo[p][2].begin \in 0 .. b
      BY <2>1, <3>1, MarksThere DEF b
    <3>3. todo[p][2].begin \in 1 .. b
      BY <1>1, <2>1, <3>2
    <3> QED
      BY <1>1, <3>3
  <2>2. \A p \in 1 .. Len(<<>>) : FALSE
    BY <1>3
  <2> QED
    BY <1>2, <1>3, <2>1, <2>2, BehindPut DEF StackOK
<1>7. SepsOK'
  <2>1. ASSUME NEW i \in 1 .. Len(out') - 1, out'[i] = Separator
        PROVE  FineAt(out', i, split') \/ Excused(todo', 0, i)
    <3>0. i \in Int /\ i > 0 /\ i <= m
      BY <1>1
    <3>1. CASE i < b
      <4>1. i \in 1 .. b /\ i + 1 \in 1 .. b /\ i \in 1 .. Len(out) - 1
        BY <1>1, <3>0, <3>1 DEF m
      <4>2. out'[i] = out[i] /\ out'[i + 1] = out[i + 1]
        BY <1>1, <4>1
      <4>3. FineAt(out, i, split) \/ Excused(todo, 0, i)
        BY <1>2, <4>1 DEF StackOK, SepsOK
      <4>4. FineAt(out', i, split') \/ Excused(todo, 0, i)
        BY <4>2, <4>3 DEF FineAt
      <4> QED
        BY <1>3, <4>4
    <3>2. CASE i = b
      <4>1. out[b] = Separator /\ b > 0
        BY <1>1, <2>1, <3>0, <3>2
      <4> QED
        BY <1>2, <4>1 DEF StackOK, StuckOK, Stuck, b
    <3>3. CASE i = b + 1
      <4>1. 1 \in 1 .. m - b /\ b + 1 + 1 = i + 1
        BY <1>1, <1>4, <3>3
      <4>2. out'[i + 1] = out[b + 1]
        BY <1>1, <4>1
      <4> QED
        BY <1>4, <4>2 DEF FineAt
    <3>4. CASE i > b + 1
      <4>1. i - (b + 1) \in 1 .. m - b /\ b + 1 + (i - (b + 1)) = i
            /\ b + (i - (b + 1)) \in 1 .. m /\ b < b + (i - (b + 1))
        BY <1>1, <3>0, <3>4
      <4>2. out'[i] = out[b + (i - (b + 1))]
        BY <1>1, <4>1
      <4>3. out[b + (i - (b + 1))] # Separator
        BY <4>1, NoSeparator DEF m, b
      <4> QED
        BY <2>1, <4>2, <4>3
    <3> QED
      BY <1>1, <3>0, <3>1, <3>2, <3>3, <3>4
  <2>2. \A i \in 1 .. Len(out') - 1 : FineAt(out', i, split') \/ Excused(todo', 0, i)
    BY <2>1 DEF FineAt
  <2> QED
    BY <2>2 DEF SepsOK, FineAt, Separator, Wrote
<1>8. DoneOK'
  BY <1>2 DEF DoneOK
<1> QED
  BY <1>5, <1>6, <1>7, <1>8 DEF StackOK
-----------------------------------------------------------------------------
(* What is in a part of a sequence.                                        *)
LEMMA SeqPartOf ==
    ASSUME NEW s, IsSeq(s), NEW m \in Int, NEW n \in Int, m >= 1, n <= Len(s),
           NEW i \in 1 .. Len(SubSeq(s, m, n))
    PROVE  /\ i + m - 1 \in m .. n /\ i + m - 1 \in 1 .. Len(s)
           /\ SubSeq(s, m, n)[i] = s[i + m - 1] /\ Len(SubSeq(s, m, n)) = 1 + n - m
<1>1. SubSeq(s, m, n) = [j \in 1 .. (1 + n - m) |-> s[j + m - 1]]
  BY DEF IsSeq
<1>2. 1 + n - m \in Nat
  <2> SUFFICES ASSUME 1 + n - m \notin Nat PROVE FALSE
    OBVIOUS
  <2>1. 1 .. (1 + n - m) = {}
    OBVIOUS
  <2>2. SubSeq(s, m, n) = <<>>
    BY <1>1, <2>1
  <2> QED
    BY <2>2, SeqShort
<1> DEFINE f == [j \in 1 .. (1 + n - m) |-> s[j + m - 1]]
<1>3. DOMAIN f = 1 .. (1 + n - m) /\ f = [j \in DOMAIN f |-> f[j]]
  OBVIOUS
<1>4. \A j \in 1 .. (1 + n - m) : f[j] = s[j + m - 1]
  OBVIOUS
<1> HIDE DEF f
<1>5. Len(f) = 1 + n - m
  BY <1>2, <1>3, SeqMade
<1>6. SubSeq(s, m, n) = f
  BY <1>1 DEF f
<1>7. i \in 1 .. (1 + n - m) /\ Len(s) \in Nat
  BY <1>5, <1>6, SeqLength
<1>8. i + m - 1 \in m .. n /\ i + m - 1 \in 1 .. Len(s)
  <2> DEFINE l == Len(s)
  <2>1. l \in Nat /\ n <= l /\ i \in 1 .. (1 + n - m)
    BY <1>7
  <2> HIDE DEF l
  <2>2. i + m - 1 \in m .. n /\ i + m - 1 \in 1 .. l
    BY <2>1
  <2> QED
    BY <2>2 DEF l
<1> QED
  BY <1>4, <1>5, <1>6, <1>7, <1>8

(* Texts that are put together keep their separators where they may be.    *)
Copied(text) == \A i \in 1 .. Len(text) : text[i].at = 0 \/ text[i].copied

Meets(p, q) == \/ Len(p) = 0
               \/ p[Len(p)] # Separator
               \/ Len(q) > 0 /\ q[1] \in {Wrote(","), Wrote(")")}

LEMMA OrderlyJoin ==
    ASSUME NEW p, NEW q, IsSeq(p), IsSeq(q), NEW sp, Orderly(p, sp), Orderly(q, sp), Meets(p, q)
    PROVE  /\ IsSeq(p \o q) /\ Orderly(p \o q, sp)
           /\ Copied(p) /\ Copied(q) => Copied(p \o q)
           /\ Len(q) > 0 => Len(p \o q) > 0 /\ (p \o q)[Len(p \o q)] = q[Len(q)]
           /\ Len(p) > 0 => Len(p \o q) > 0 /\ (p \o q)[1] = p[1]
<1> DEFINE r == p \o q
           a == Len(p)
           b == Len(q)
           c == Len(r)
<1>0. /\ \A i \in 1 .. a : r[i] = p[i]
      /\ \A i \in 1 .. b : r[a + i] = q[i]
      /\ IsSeq(r)
  BY SeqJoin
<1>1. /\ c = a + b /\ a \in Nat /\ b \in Nat /\ c \in Nat
  <2>1. Len(p \o q) = Len(p) + Len(q)
    BY SeqJoin
  <2>2. a \in Nat /\ b \in Nat
    BY SeqLength
  <2> QED
    BY <2>1, <2>2
<1> HIDE DEF r, a, b, c
<1>2. ASSUME NEW i \in 1 .. c
      PROVE  (i \in 1 .. a /\ r[i] = p[i]) \/ \E j \in 1 .. b : i = a + j /\ r[i] = q[j]
  <2>1. CASE i <= a
    <3>1. i \in 1 .. a
      BY <1>0, <1>1, <2>1
    <3> QED
      BY <1>0, <1>1, <3>1
  <2>2. CASE i > a
    <3>1. i - a \in 1 .. b /\ a + (i - a) = i
      BY <1>1, <2>2
    <3> QED
      BY <1>0, <1>1, <3>1
  <2> QED
    BY <1>1, <2>1, <2>2
<1>3. \A i \in 1 .. c : Proper(r[i])
  BY <1>2 DEF Orderly, a, b
<1>4. ASSUME NEW i \in 1 .. c - 1
      PROVE  FineAt(r, i, sp)
  <2>0. i \in 1 .. c /\ i + 1 \in 1 .. c
    BY <1>1
  <2>1. CASE i < a
    <3>1. i \in 1 .. a - 1 /\ i \in 1 .. a /\ i + 1 \in 1 .. a
      BY <1>1, <2>0, <2>1
    <3>2. r[i] = p[i] /\ r[i + 1] = p[i + 1] /\ FineAt(p, i, sp)
      BY <1>0, <1>1, <3>1 DEF Orderly, a
    <3> QED
      BY <3>2 DEF FineAt
  <2>2. CASE i = a
    <3>1. a \in 1 .. a /\ a > 0 /\ b > 0 /\ 1 \in 1 .. b
      BY <1>1, <2>0, <2>2
    <3>2. r[i] = p[a] /\ r[i + 1] = q[1]
      BY <1>0, <1>1, <2>2, <3>1
    <3> QED
      <4>1. p[a] # Separator \/ q[1] \in {Wrote(","), Wrote(")")}
        <5>1. ~(a = 0)
          BY <3>1
        <5>2. a = 0 \/ p[a] # Separator \/ q[1] \in {Wrote(","), Wrote(")")}
          BY DEF Meets, a
        <5> QED
          BY <5>1, <5>2
      <4> QED
        BY <3>2, <4>1, Zenon DEF FineAt
  <2>3. CASE i > a
    <3>1. i - a \in 1 .. b - 1 /\ i - a \in 1 .. b /\ (i - a) + 1 \in 1 .. b
          /\ a + (i - a) = i /\ a + ((i - a) + 1) = i + 1
      BY <1>1, <2>0, <2>3
    <3>2. r[a + (i - a)] = q[i - a] /\ r[a + ((i - a) + 1)] = q[(i - a) + 1]
      BY <1>0, <1>1, <3>1
    <3>3. FineAt(q, i - a, sp)
      BY <3>1 DEF Orderly, b
    <3> QED
      BY <3>1, <3>2, <3>3 DEF FineAt
  <2> QED
    BY <1>1, <2>0, <2>1, <2>2, <2>3
<1>5. Orderly(r, sp)
  BY <1>3, <1>4 DEF Orderly, c
<1>6. Copied(p) /\ Copied(q) => Copied(r)
  BY <1>2 DEF Copied, a, b, c
<1>7. b > 0 => c > 0 /\ r[c] = q[b]
  <2> SUFFICES ASSUME b > 0 PROVE c > 0 /\ r[c] = q[b]
    OBVIOUS
  <2>1. b \in 1 .. b /\ c = a + b /\ c > 0
    BY <1>1
  <2> QED
    BY <1>0, <1>1, <2>1
<1>8. a > 0 => c > 0 /\ r[1] = p[1]
  <2> SUFFICES ASSUME a > 0 PROVE c > 0 /\ r[1] = p[1]
    OBVIOUS
  <2>1. 1 \in 1 .. a /\ c > 0
    BY <1>1
  <2> QED
    BY <1>0, <1>1, <2>1
<1> QED
  BY <1>0, <1>1, <1>5, <1>6, <1>7, <1>8 DEF r, a, b, c

LEMMA OrderlyCopy ==
    ASSUME NEW s, IsSeq(s), NEW sp, Orderly(s, sp)
    PROVE  IsSeq(Copy(s)) /\ Orderly(Copy(s), sp) /\ Copied(Copy(s))
<1>1. IsSeq(Copy(s))
  BY Texts
<1>2. Len(s) \in Nat /\ DOMAIN s = 1 .. Len(s)
  BY SeqLength
<1>3. Len(Copy(s)) = Len(s) /\ \A i \in 1 .. Len(s) : Copy(s)[i] = [s[i] EXCEPT !.copied = s[i].at # 0]
  <2>1. DOMAIN Copy(s) = 1 .. Len(s) /\ Copy(s) = [i \in DOMAIN Copy(s) |-> Copy(s)[i]]
    BY <1>2 DEF Copy
  <2>2. Len(Copy(s)) = Len(s)
    BY <1>2, <2>1, SeqMade
  <2> QED
    BY <1>2, <2>2 DEF Copy
<1>4. ASSUME NEW i \in 1 .. Len(s)
      PROVE  /\ Proper(Copy(s)[i]) /\ Copy(s)[i].at = s[i].at /\ Copy(s)[i].c = s[i].c
             /\ Copy(s)[i].copied = (s[i].at # 0)
             /\ s[i].at = 0 => Copy(s)[i] = s[i]
  <2>1. Proper(s[i])
    BY DEF Orderly
  <2> DEFINE cell == s[i]
  <2>2. Copy(s)[i] = [cell EXCEPT !.copied = cell.at # 0]
    BY <1>3
  <2>3. /\ cell = [c |-> cell.c, at |-> cell.at, copied |-> cell.copied]
        /\ cell.at \in Nat /\ cell.copied \in BOOLEAN /\ (cell.at = 0 => ~cell.copied)
    BY <2>1 DEF Proper
  <2> HIDE DEF cell
  <2>4. [cell EXCEPT !.copied = cell.at # 0] = [c |-> cell.c, at |-> cell.at, copied |-> cell.at # 0]
    BY <2>3
  <2>5. Copy(s)[i] = [c |-> cell.c, at |-> cell.at, copied |-> cell.at # 0]
    BY <2>2, <2>4
  <2>6. cell.at = 0 => Copy(s)[i] = cell
    <3>1. cell.at = 0 => (cell.at # 0) = cell.copied
      BY <2>3
    <3> QED
      BY <2>3, <2>5, <3>1
  <2>7. Proper(Copy(s)[i])
    BY <2>3, <2>5 DEF Proper
  <2> QED
    BY <2>5, <2>6, <2>7 DEF cell
<1>5. ASSUME NEW i \in 1 .. Len(s), Copy(s)[i] = Separator \/ s[i].at = 0
      PROVE  s[i] = Copy(s)[i]
  BY <1>4, <1>5, WroteCells
<1>6. ASSUME NEW i \in 1 .. Len(s) - 1
      PROVE  FineAt(Copy(s), i, sp)
  <2>1. i \in 1 .. Len(s) /\ i + 1 \in 1 .. Len(s)
    BY <1>2
  <2> SUFFICES ASSUME Copy(s)[i] = Separator
               PROVE  Copy(s)[i + 1].at \in sp \/ Copy(s)[i + 1] \in {Wrote(","), Wrote(")")}
    BY DEF FineAt
  <2>2. s[i] = Separator
    BY <1>5, <2>1
  <2>3. s[i + 1].at \in sp \/ s[i + 1] \in {Wrote(","), Wrote(")")}
    BY <2>2 DEF Orderly, FineAt
  <2>4. s[i + 1] \in {Wrote(","), Wrote(")")} => s[i + 1].at = 0
    <3>1. \A c : Wrote(c).at = 0
      BY WroteCells, Zenon
    <3>2. Wrote(",").at = 0
      BY <3>1, Zenon
    <3>3. Wrote(")").at = 0
      BY <3>1, Zenon
    <3> QED
      BY <3>2, <3>3, Zenon
  <2> QED
    BY <1>4, <2>1, <2>3, <2>4
<1> QED
  BY <1>1, <1>3, <1>4, <1>6 DEF Orderly, Copied

LEMMA OrderlyWrote ==
    /\ \A s, sp : IsSeq(<<Wrote(s)>>) /\ Orderly(<<Wrote(s)>>, sp) /\ Copied(<<Wrote(s)>>)
                  /\ Len(<<Wrote(s)>>) = 1
    /\ \A sp : IsSeq(NoText) /\ Orderly(NoText, sp)
<1>1. ASSUME NEW s, NEW sp
      PROVE  IsSeq(<<Wrote(s)>>) /\ Orderly(<<Wrote(s)>>, sp) /\ Copied(<<Wrote(s)>>)
             /\ Len(<<Wrote(s)>>) = 1
  <2> DEFINE cell == Wrote(s)
             text == <<cell>>
  <2>1. Proper(cell) /\ cell.at = 0
    BY WroteCells
  <2> HIDE DEF cell
  <2>2. IsSeq(text) /\ Len(text) = 1 /\ text[1] = cell
    BY SeqShort
  <2> HIDE DEF text
  <2>3. \A i \in 1 .. Len(text) : i = 1
    BY <2>2
  <2>4. ~\E i \in 1 .. Len(text) - 1 : TRUE
    BY <2>2
  <2>5. Orderly(text, sp) /\ Copied(text)
    BY <2>1, <2>2, <2>3, <2>4 DEF Orderly, Copied
  <2> QED
    BY <2>2, <2>5 DEF text, cell
<1>2. ASSUME NEW sp
      PROVE  IsSeq(NoText) /\ Orderly(NoText, sp)
  <2>1. IsSeq(NoText) /\ Len(NoText) = 0
    BY SeqShort DEF NoText
  <2>2. 1 .. Len(NoText) = {} /\ 1 .. Len(NoText) - 1 = {}
    BY <2>1
  <2> QED
    BY <2>1, <2>2 DEF Orderly
<1> QED
  BY <1>1, <1>2

(* An operand begins where nothing else is embedded: there separators are  *)
(* where they may be.                                                      *)
LEMMA FineInside ==
    ASSUME IInv, ShapeOK, StackOK, Parsing, Head1[1] \in {"pointer", "combine", "binary"},
           NEW i \in 1 .. Len(out) - 1, Head1[2].begin < i
    PROVE  FineAt(out, i, split)
<1>1. Len(todo) \in Nat /\ Len(todo) > 0 /\ 1 \in 1 .. Len(todo) /\ TodoOK
  <2>1. Len(todo) \in Nat /\ Len(todo) > 0
    BY SeqLength, SeqTail DEF IInv, TodoOK, Parsing
  <2> QED
    BY <2>1 DEF IInv
<1>2. Head1[2].begin \in Int
  <2>1. Head1[1] \in Marked
    BY DEF Marked
  <2>2. IsToken(Head1[2])
    BY <2>1, HandedOn
  <2> QED
    BY <2>2 DEF IsToken
<1>3. ~Excused(todo, 0, i)
  <2> SUFFICES ASSUME NEW k \in 0 + 1 .. Len(todo), Lang(todo[k]),
                      \A j \in 0 + 1 .. k - 1 : todo[j][1] = "embedded" => i <= todo[j][2].begin
               PROVE  FALSE
    BY DEF Excused
  <2>1. k # 1
    BY DEF Lang, Head1
  <2>2. k \in 2 .. Len(todo)
    BY <1>1, <2>1
  <2>3. Follows(todo[k - 1], todo[k])
        /\ (k > 2 /\ todo[k][1] = "language" => todo[k - 1][1] = "embedded")
    BY <2>2 DEF ShapeOK, Joined
  <2>4. todo[k][1] = "language"
    BY <2>3 DEF Follows, Lang
  <2>5. k > 2
    <3> SUFFICES ASSUME k = 2 PROVE FALSE
      BY <2>2
    <3>1. todo[k - 1] = Head1
      BY DEF Head1
    <3> QED
      BY <2>3, <2>4, <3>1 DEF Follows
  <2>6. k - 1 \in 1 .. Len(todo) /\ k - 1 \in 0 + 1 .. k - 1 /\ 1 < k - 1
    BY <1>1, <2>2, <2>5
  <2>7. todo[k - 1][1] = "embedded" /\ i <= todo[k - 1][2].begin
    BY <2>3, <2>4, <2>5, <2>6
  <2>8. todo[k - 1][2].begin <= Head1[2].begin
    <3>1. \A x \in Mark(todo[1]), y \in Mark(todo[k - 1]) : y <= x
      BY <1>1, <2>6 DEF TodoOK
    <3>2. Head1[2].begin \in Mark(todo[1]) /\ todo[k - 1][2].begin \in Mark(todo[k - 1])
      BY <2>7 DEF Mark, Marked, Head1
    <3> QED
      BY <3>1, <3>2
  <2>9. todo[k - 1][2].begin \in Int
    <3>1. todo[k - 1][2].begin \in 0 .. t.begin
      BY <2>6, <2>7, MarksThere DEF Marked
    <3> QED
      BY <3>1
  <2>10. i \in Int
    BY SeqLength DEF IInv, BufferOK
  <2> QED
    BY <1>2, <2>7, <2>8, <2>9, <2>10
<1> QED
  BY <1>3 DEF StackOK, SepsOK, Parsing

LEMMA OrderlyOutput ==
    ASSUME IInv, ShapeOK, BufOK, StackOK, Parsing, Head1[1] \in {"pointer", "combine", "binary"},
           NEW tok, tok.begin \in Int, Head1[2].begin <= tok.begin
    PROVE  IsSeq(Output(tok)) /\ Orderly(Output(tok), split)
<1>1. /\ t # NoToken /\ t.begin \in 0 .. Len(out) /\ Len(out) \in Nat /\ IsSeq(out)
      /\ Head1[2].begin \in Nat
  <2>1. t # NoToken
    BY NotFirst
  <2>2. Head1[1] \in Marked /\ 1 \in 1 .. Len(todo)
    <3>1. Len(todo) \in Nat /\ Len(todo) > 0
      BY SeqLength, SeqTail DEF IInv, TodoOK, Parsing
    <3>2. 1 \in 1 .. Len(todo)
      BY <3>1
    <3> QED
      BY <3>2 DEF Marked
  <2>3. Head1[2].begin \in 0 .. t.begin
    BY <2>2, MarksThere DEF Head1
  <2> QED
    BY <2>1, <2>3, TokenThere DEF IInv, BufferOK
<1>2. tok.begin + 1 \in Int /\ tok.begin + 1 >= 1 /\ t.begin \in Int /\ t.begin <= Len(out)
  BY <1>1
<1> DEFINE text == Output(tok)
<1>3. IsSeq(text)
  BY <1>1, <1>2, OutputThere
<1>4. ASSUME NEW i \in 1 .. Len(text)
      PROVE  /\ i + tok.begin \in tok.begin + 1 .. t.begin /\ i + tok.begin \in 1 .. Len(out)
             /\ text[i] = out[i + tok.begin]
  <2>1. /\ i + (tok.begin + 1) - 1 \in tok.begin + 1 .. t.begin
        /\ i + (tok.begin + 1) - 1 \in 1 .. Len(out)
        /\ text[i] = out[i + (tok.begin + 1) - 1]
    <3> DEFINE m == tok.begin + 1
               n == t.begin
    <3>1. text = SubSeq(out, m, n)
      BY DEF Output
    <3>2. IsSeq(out) /\ m \in Int /\ n \in Int /\ m >= 1 /\ n <= Len(out)
      BY <1>1, <1>2
    <3> HIDE DEF text, m, n
    <3>3. /\ i + m - 1 \in m .. n /\ i + m - 1 \in 1 .. Len(out)
          /\ text[i] = out[i + m - 1]
      BY <3>1, <3>2, SeqPartOf
    <3> QED
      BY <3>3 DEF m, n
  <2>2. i \in Int
    OBVIOUS
  <2>3. i + (tok.begin + 1) - 1 = i + tok.begin
    BY <2>2
  <2> QED
    BY <2>1, <2>3
<1>5. Len(text) \in Nat
  BY <1>3, SeqLength
<1> HIDE DEF text
<1>6. \A i \in 1 .. Len(text) : Proper(text[i])
  BY <1>4 DEF BufOK, CellsOK
<1>7. ASSUME NEW i \in 1 .. Len(text) - 1
      PROVE  FineAt(text, i, split)
  <2>1. i \in 1 .. Len(text) /\ i + 1 \in 1 .. Len(text)
    BY <1>5
  <2>2. /\ i + tok.begin \in tok.begin + 1 .. t.begin /\ (i + 1) + tok.begin \in 1 .. Len(out)
        /\ text[i] = out[i + tok.begin] /\ text[i + 1] = out[(i + 1) + tok.begin]
    BY <1>4, <2>1
  <2>3. /\ i + tok.begin \in 1 .. Len(out) - 1 /\ Head1[2].begin < i + tok.begin
        /\ (i + tok.begin) + 1 = (i + 1) + tok.begin
    <3> DEFINE n == Len(out)
               at == tok.begin
               from == Head1[2].begin
               k == i + at
    <3>1. /\ n \in Nat /\ at \in Int /\ from \in Nat /\ from <= at /\ i \in Int
          /\ k \in at + 1 .. t.begin /\ (i + 1) + at \in 1 .. n /\ t.begin \in Int
      BY <1>1, <1>5, <2>1, <2>2, SMTT(30)
    <3> HIDE DEF n, at, from, k
    <3>2. k = i + at
      BY DEF k
    <3>3. k \in Int /\ at + 1 <= k
      BY <3>1
    <3>4. k + 1 = (i + 1) + at
      BY <3>1, <3>2
    <3>5. k + 1 \in 1 .. n
      BY <3>1, <3>4
    <3>6. k \in 1 .. n - 1 /\ from < k
      BY <3>1, <3>3, <3>5
    <3> QED
      BY <3>4, <3>6 DEF n, at, from, k
  <2>4. FineAt(out, i + tok.begin, split)
    BY <2>3, FineInside
  <2> QED
    BY <2>2, <2>3, <2>4 DEF FineAt
<1>8. Orderly(text, split)
  BY <1>6, <1>7 DEF Orderly
<1> QED
  BY <1>3, <1>8 DEF text

(* A text without its leading white space.                                 *)
LEMMA OrderlyTrimmed ==
    ASSUME NEW s, IsSeq(s), NEW sp, Orderly(s, sp)
    PROVE  IsSeq(Trimmed(s)) /\ Orderly(Trimmed(s), sp)
<1> DEFINE T == {i \in DOMAIN s : \A j \in 1 .. i : s[j].c \in Breaks \cup Blanks}
           c == Cardinality(T)
           text == Trimmed(s)
<1>1. c \in Nat
  <2>1. T \subseteq DOMAIN s
    OBVIOUS
  <2> HIDE DEF T
  <2> QED
    BY <2>1, Counted
<1>2. text = SubSeq(s, c + 1, Len(s)) /\ IsSeq(text)
  BY Texts DEF Trimmed
<1>3. Len(s) \in Nat /\ Len(text) \in Nat
  BY <1>2, SeqLength
<1> HIDE DEF c, T, text
<1>4. ASSUME NEW i \in 1 .. Len(text)
      PROVE  i + c \in 1 .. Len(s) /\ text[i] = s[i + c]
  <2>1. c + 1 \in Int /\ c + 1 >= 1 /\ Len(s) \in Int /\ Len(s) <= Len(s) /\ i \in Int
    BY <1>1, <1>3
  <2>2. i + (c + 1) - 1 \in 1 .. Len(s) /\ text[i] = s[i + (c + 1) - 1]
    BY <1>2, <2>1, SeqPartOf
  <2>3. i + (c + 1) - 1 = i + c
    BY <1>1, <2>1
  <2> QED
    BY <2>2, <2>3
<1>5. \A i \in 1 .. Len(text) : Proper(text[i])
  BY <1>4 DEF Orderly
<1>6. ASSUME NEW i \in 1 .. Len(text) - 1
      PROVE  FineAt(text, i, sp)
  <2>1. i \in 1 .. Len(text) /\ i + 1 \in 1 .. Len(text)
    BY <1>3
  <2>2. /\ i + c \in 1 .. Len(s) /\ (i + 1) + c \in 1 .. Len(s)
        /\ text[i] = s[i + c] /\ text[i + 1] = s[(i + 1) + c]
    BY <1>4, <2>1
  <2>3. i + c \in 1 .. Len(s) - 1 /\ (i + c) + 1 = (i + 1) + c
    BY <1>1, <1>3, <2>1, <2>2
  <2>4. FineAt(s, i + c, sp)
    BY <2>3 DEF Orderly
  <2> QED
    BY <2>2, <2>3, <2>4 DEF FineAt
<1> QED
  BY <1>2, <1>5, <1>6 DEF Orderly, text
-----------------------------------------------------------------------------
SInv == IInv /\ SeenOK /\ ShapeOK /\ GapsOK /\ BufOK /\ StackOK

(* The kinds of steps of the parser.                                       *)
Pushed == /\ Parsing /\ Quiet /\ UNCHANGED <<split, status>>
          /\ \E ops : Put(ops) /\ Fit(ops)
Stopped == /\ Parsing /\ Quiet /\ UNCHANGED split /\ todo' = <<>>
           /\ status' \in {"syntax", "load"} \/ Head1[1] = "stats"
Writing(text, ops) ==
    /\ Parsing /\ Head1[1] \in Patchers /\ UNCHANGED <<source, current, split, status, lx>>
    /\ IsSeq(text) /\ Len(text) > 0 /\ text[1].c \notin White
    /\ TextOK(text) /\ Orderly(text, split) /\ Patch(Head1[2], text)
    /\ IsSeq(ops) /\ Joined(ops) /\ Len(ops) <= 1 /\ Put(ops)
    /\ \A i \in 1 .. Len(ops) : /\ Sound(ops[i], split) /\ ops[i][1] # "embedded"
                                /\ ops[i][2].begin = Skipped(Head1[2]).begin
    /\ Len(ops) > 0 => Hands(Head1, ops[Len(ops)])
Splits ==
    /\ Parsing /\ Head1[1] = "suffix" /\ UNCHANGED <<source, current, status, lx>>
    /\ t.token \in {"(", "quote", "["} /\ split' = split \cup {t.from}
    /\ Insert(Separator) /\ Put(<<>>)

LEMMA PushedKeeps ==
    ASSUME SInv, IInv', Pushed
    PROVE  SInv'
<1>1. PICK ops : Put(ops) /\ Fit(ops)
  BY DEF Pushed
<1>2. /\ IInv /\ SeenOK /\ ShapeOK /\ GapsOK /\ BufOK /\ StackOK
      /\ Parsing /\ Quiet /\ UNCHANGED <<split, status>> /\ todo # <<>>
  BY DEF SInv, Pushed, Parsing
<1>3. SeenOK'
  BY <1>2, SeenMoved DEF Quiet
<1>4. ShapeOK'
  <2>1. /\ IsSeq(ops) /\ Joined(ops) /\ \A i \in 1 .. Len(ops) : Sound(ops[i], split)
        /\ Len(ops) > 0 => Hands(Head1, ops[Len(ops)])
    BY <1>1 DEF Fit, OpFit
  <2>2. split \subseteq split'
    BY <1>2
  <2> QED
    BY <1>1, <1>2, <2>1, <2>2, ShapePut DEF IInv
<1>5. GapsOK'
  BY <1>1, <1>2, GapsPush
<1>6. BufOK'
  BY <1>2, BufSame DEF Quiet
<1>7. StackOK'
  BY <1>1, <1>2, StackPush
<1> QED
  BY <1>3, <1>4, <1>5, <1>6, <1>7 DEF SInv

LEMMA StoppedKeeps ==
    ASSUME SInv, IInv', Stopped
    PROVE  SInv'
<1>1. /\ IInv /\ SeenOK /\ ShapeOK /\ GapsOK /\ BufOK /\ StackOK
      /\ Parsing /\ Quiet /\ UNCHANGED split /\ todo' = <<>>
      /\ status' \in {"syntax", "load"} \/ Head1[1] = "stats"
  BY DEF SInv, Stopped
<1>2. SeenOK'
  BY <1>1, SeenMoved DEF Quiet
<1>3. ~ToT'
  BY <1>1 DEF ToT, Quiet, Parsing
<1>4. GapsOK' /\ ShapeOK'
  BY <1>1, <1>3, GapsStop
<1>5. BufOK'
  BY <1>1, BufSame DEF Quiet
<1>6. StackOK'
  BY <1>1, StackStops DEF Quiet
<1> QED
  BY <1>2, <1>4, <1>5, <1>6 DEF SInv

LEMMA WritingKeeps ==
    ASSUME SInv, IInv', NEW text, NEW ops, Writing(text, ops)
    PROVE  SInv'
<1>1. IInv /\ SeenOK /\ ShapeOK /\ GapsOK /\ BufOK /\ StackOK
  BY DEF SInv
<1>2. /\ Parsing /\ Head1[1] \in Patchers /\ UNCHANGED <<source, current, split, status, lx>>
      /\ IsSeq(text) /\ Len(text) > 0 /\ text[1].c \notin White
      /\ TextOK(text) /\ Orderly(text, split) /\ Patch(Head1[2], text)
      /\ IsSeq(ops) /\ Joined(ops) /\ Len(ops) <= 1 /\ Put(ops)
      /\ \A i \in 1 .. Len(ops) : /\ Sound(ops[i], split) /\ ops[i][1] # "embedded"
                                  /\ ops[i][2].begin = Skipped(Head1[2]).begin
      /\ Len(ops) > 0 => Hands(Head1, ops[Len(ops)])
      /\ todo # <<>>
  BY DEF Writing, Parsing
<1>3. PICK e \in Nat : Patched(text, Skipped(Head1[2]).begin, e)
  BY <1>1, <1>2, PatchMakes
<1>4. t # NoToken
  BY <1>1, <1>2, NotFirst DEF Patchers
<1>5. SeenOK'
  BY <1>1, <1>2, <1>3, SeenMoved DEF Patched
<1>6. ShapeOK'
  <2>1. split \subseteq split'
    BY <1>2
  <2> QED
    BY <1>1, <1>2, <2>1, ShapePut DEF IInv
<1>7. GapsOK'
  BY <1>1, <1>2, GapsPatch
<1>8. BufOK'
  BY <1>1, <1>2, <1>3, <1>4, BufPatch
<1>9. StackOK'
  BY <1>1, <1>2, <1>3, StackPatch
<1> QED
  BY <1>5, <1>6, <1>7, <1>8, <1>9 DEF SInv

LEMMA SplitsKeeps ==
    ASSUME SInv, IInv', Splits
    PROVE  SInv'
<1>1. IInv /\ SeenOK /\ ShapeOK /\ GapsOK /\ BufOK /\ StackOK
  BY DEF SInv
<1>2. /\ Parsing /\ Head1[1] = "suffix" /\ UNCHANGED <<source, current, status, lx>>
      /\ t.token \in {"(", "quote", "["} /\ split' = split \cup {t.from}
      /\ Insert(Separator) /\ Put(<<>>) /\ todo # <<>> /\ t.token # EOS
  BY DEF Splits, Parsing, EOS
<1>3. t # NoToken
  BY <1>1, <1>2, NotFirst
<1>4. Inserted(Separator)
  BY <1>1, <1>2, <1>3, InsertMakes
<1>5. SeenOK'
  BY <1>1, <1>2, <1>4, SeenMoved DEF Inserted
<1>6. ShapeOK'
  <2>1. split \subseteq split'
    BY <1>2
  <2>2. IsSeq(<<>>) /\ Len(<<>>) = 0
    BY SeqShort
  <2>3. Joined(<<>>) /\ (\A i \in 1 .. Len(<<>>) : FALSE) /\ ~(Len(<<>>) > 0)
    BY <2>2 DEF Joined
  <2> QED
    BY <1>1, <1>2, <2>1, <2>2, <2>3, ShapePut DEF IInv
<1>7. GapsOK'
  <2>1. Separator.c \notin White
    BY DEF Separator, Wrote, White, Breaks, Blanks
  <2> QED
    BY <1>1, <1>2, <2>1, GapsInsert
<1>8. BufOK'
  BY <1>1, <1>2, <1>3, <1>4, BufInsert
<1>9. StackOK'
  BY <1>1, <1>2, <1>4, StackInsert
<1> QED
  BY <1>5, <1>6, <1>7, <1>8, <1>9 DEF SInv

LEMMA ReadingKeeps ==
    ASSUME SInv, IInv', Lexes \/ Nexts \/ Looks
    PROVE  SInv'
<1>1. IInv /\ SeenOK /\ ShapeOK /\ GapsOK /\ BufOK /\ StackOK
  BY DEF SInv
<1>2. CASE Lexes
  <2>1. SeenOK' /\ GapsOK' /\ BufOK' /\ StackOK'
    BY <1>1, <1>2, SeenLexes, GapsLexes, BufLexes, StackLexes
  <2>2. todo' = todo /\ split' = split /\ Joined(todo) /\ \A p \in 1 .. Len(todo) : Sound(todo[p], split)
    BY <1>1, <1>2 DEF Lexes, ShapeOK
  <2>3. Joined(todo') /\ \A p \in 1 .. Len(todo') : Sound(todo'[p], split')
    BY <2>2
  <2>4. ShapeOK'
    BY <2>3 DEF ShapeOK
  <2> QED
    BY <2>1, <2>4 DEF SInv
<1>3. CASE Nexts \/ Looks
  <2>1. SeenOK'
    BY <1>1, <1>3, SeenNexts
  <2>2. GapsOK' /\ StackOK'
    BY <1>1, <1>3, GapsNexts, GapsLooks, StackNexts, StackLooks
  <2>3. BufOK'
    <3>1. CASE Nexts
      BY <1>1, <3>1, BufNexts
    <3>2. CASE Looks
      BY <1>1, <3>2, BufSame DEF Looks, LuaXLookahead, input, tokens
    <3> QED
      BY <1>3, <3>1, <3>2
  <2>4. ShapeOK'
    <3>1. Put(<<>>) /\ split' = split /\ todo # <<>>
      BY <1>3 DEF Nexts, Looks, At, Parsing
    <3>2. split \subseteq split'
      BY <3>1
    <3>3. IsSeq(<<>>) /\ Len(<<>>) = 0
      BY SeqShort
    <3>4. Joined(<<>>) /\ (\A i \in 1 .. Len(<<>>) : FALSE) /\ ~(Len(<<>>) > 0)
      BY <3>3 DEF Joined
    <3> QED
      BY <1>1, <3>1, <3>2, <3>3, <3>4, ShapePut DEF IInv
  <2> QED
    BY <2>1, <2>2, <2>3, <2>4 DEF SInv
<1> QED
  BY <1>2, <1>3
-----------------------------------------------------------------------------
(* Operations without a token are always fit.                              *)
LEMMA PlainFit ==
    ASSUME NEW op, op[1] \notin Marked, op[1] = "expect" => op[2] # EOS
    PROVE  OpFit(op) /\ Placed(op)
BY DEF OpFit, Placed, Sound, Marked, Kin

(* What is known of the first operation, and of the current token.         *)
LEMMA Here ==
    ASSUME SInv, Parsing, Head1[1] # "next"
    PROVE  /\ t # NoToken /\ IsToken(t) /\ OpOK(Head1) /\ Sound(Head1, split)
           /\ t.token \in {"struct", "local", "lang"} => ~Stuck
           /\ Head1[1] \in Marked =>
                 /\ Head1[2].begin \in Mark(Head1)
                 /\ \/ Gap(out, Head1[2].begin, t.begin)
                    \/ Head1[1] \in {"definition", "quote"}
                    \/ Head1[1] = "language" /\ t.from = Head1[2].from
           /\ Head1[1] \in Firsts => t.token # EOS \/ AllGap
           /\ Head1[1] = "further local" => AllGap
<1>1. /\ IInv /\ ShapeOK /\ GapsOK /\ BufOK /\ TodoOK /\ todo # <<>> /\ lx = Idle /\ ~ToT
  BY DEF SInv, IInv, Parsing, ToT
<1>2. Len(todo) \in Nat /\ Len(todo) > 0 /\ 1 \in 1 .. Len(todo)
  BY <1>1, SeqTail, SeqLength DEF TodoOK
<1>3. t # NoToken /\ IsToken(t) /\ OpOK(Head1)
  BY <1>1, NotFirst
<1>4. Sound(Head1, split)
  BY <1>1, <1>2 DEF ShapeOK, Head1
<1>5. t.token \in {"struct", "local", "lang"} => ~Stuck
  BY <1>1 DEF BufOK, StuckAt
<1>6. Head1[1] \in Marked =>
         /\ Head1[2].begin \in Mark(Head1)
         /\ \/ Gap(out, Head1[2].begin, t.begin)
            \/ Head1[1] \in {"definition", "quote"}
            \/ Head1[1] = "language" /\ t.from = Head1[2].from
  <2>1. Head1[1] \in Marked => Gap(out, Head1[2].begin, t.begin) \/ Fresh(todo, t.from, 1)
    BY <1>1, <1>2 DEF GapsOK, Head1
  <2>2. Fresh(todo, t.from, 1) => \/ Head1[1] \in {"definition", "quote"}
                                  \/ Head1[1] = "language" /\ t.from = Head1[2].from
    BY DEF Fresh, Head1
  <2> QED
    BY <2>1, <2>2 DEF Mark
<1>7. Head1[1] \in Firsts => t.token # EOS \/ AllGap
  BY <1>1, <1>2 DEF GapsOK, Advancing, Head1
<1>8. ASSUME Head1[1] = "further local"
      PROVE  AllGap
  <2>1. Head1[1] \in Marked /\ Gap(out, Head1[2].begin, t.begin) /\ todo[1] = Head1
    BY <1>6, <1>8 DEF Marked, Head1
  <2> SUFFICES ASSUME NEW p \in 1 .. Len(todo), todo[p][1] \in Marked
               PROVE  Gap(out, todo[p][2].begin, t.begin)
    BY DEF AllGap
  <2>2. todo[p][2].begin \in 0 .. t.begin /\ t.begin \in Int /\ Head1[2].begin \in 0 .. t.begin
    BY <1>1, <1>2, <2>1, MarksThere
  <2>3. todo[p][2].begin <= Head1[2].begin
    <3>1. CASE p = 1
      BY <2>1, <2>2, <3>1
    <3>2. CASE p # 1
      <4>1. 1 < p
        BY <1>2, <3>2
      <4>2. Head1[2].begin \in Mark(todo[1]) /\ todo[p][2].begin \in Mark(todo[p])
        BY <2>1 DEF Mark
      <4> QED
        BY <1>1, <1>2, <4>1, <4>2 DEF TodoOK
    <3> QED
      BY <3>1, <3>2
  <2>4. \A i \in Head1[2].begin + 1 .. t.begin : out[i] = out[i]
    OBVIOUS
  <2> QED
    BY <2>1, <2>2, <2>3, <2>4, GapWider
<1> QED
  BY <1>3, <1>4, <1>5, <1>6, <1>7, <1>8

(* Few operations in the place of the first one.                           *)
Good(i, op, first) == OpFit(op) /\ (Placed(op) \/ (i > 1 /\ first[1] \in Eats))
Continues(a, b) == Follows(a, b) /\ b[1] # "language"

LEMMA FitNone ==
    ASSUME Head1[1] \notin {"next", "look", "written"} \cup Pops \cup Eats
    PROVE  Fit(<<>>)
<1>1. IsSeq(<<>>) /\ Len(<<>>) = 0
  BY SeqShort
<1> QED
  BY <1>1 DEF Fit, Joined

LEMMA FitOne ==
    ASSUME Head1[1] \notin {"next", "look", "written"},
           NEW a, OpFit(a), Placed(a), Opens(a, a), Hands(Head1, a)
    PROVE  Fit(<<a>>)
<1> DEFINE s == <<a>>
<1>1. IsSeq(s) /\ Len(s) = 1 /\ s[1] = a
  BY SeqShort
<1>2. Joined(s)
  BY <1>1 DEF Joined
<1> HIDE DEF s
<1>3. Fit(s)
  BY <1>1, <1>2 DEF Fit
<1> QED
  BY <1>3 DEF s

LEMMA FitTwo ==
    ASSUME Head1[1] \notin {"next", "look", "written"},
           NEW a, NEW b, OpFit(a), Placed(a), Good(2, b, a), Follows(a, b),
           Opens(a, b), Hands(Head1, b)
    PROVE  Fit(<<a, b>>)
<1> DEFINE s == <<a, b>>
<1>1. IsSeq(s) /\ Len(s) = 2 /\ s[1] = a /\ s[2] = b
  BY SeqShort
<1> HIDE DEF s
<1>2. Joined(s)
  <2> SUFFICES ASSUME NEW j \in 2 .. Len(s)
               PROVE  Follows(s[j - 1], s[j]) /\ ~(j > 2)
    BY DEF Joined
  <2>1. j = 2 /\ j - 1 = 1
    BY <1>1
  <2> QED
    BY <1>1, <2>1
<1>3. \A i \in 1 .. 2 : OpFit(s[i]) /\ (Placed(s[i]) \/ (i > 1 /\ s[1][1] \in Eats))
  <2>1. \A i \in 1 .. 2 : i = 1 \/ i = 2
    OBVIOUS
  <2> QED
    BY <1>1, <2>1 DEF Good
<1>4. Fit(s)
  BY <1>1, <1>2, <1>3 DEF Fit
<1> QED
  BY <1>4 DEF s

LEMMA FitThree ==
    ASSUME Head1[1] \notin {"next", "look", "written"},
           NEW a, NEW b, NEW c, OpFit(a), Placed(a), Good(2, b, a), Good(3, c, a),
           Follows(a, b), Continues(b, c), Opens(a, b), Hands(Head1, c)
    PROVE  Fit(<<a, b, c>>)
<1> DEFINE s == <<a, b, c>>
<1>1. IsSeq(s) /\ Len(s) = 3 /\ s[1] = a /\ s[2] = b /\ s[3] = c
  BY SeqShort
<1> HIDE DEF s
<1>2. Joined(s)
  <2> SUFFICES ASSUME NEW j \in 2 .. Len(s)
               PROVE  Follows(s[j - 1], s[j]) /\ (j > 2 => s[j][1] # "language")
    BY DEF Joined
  <2>1. (j = 2 /\ j - 1 = 1) \/ (j = 3 /\ j - 1 = 2)
    BY <1>1
  <2> QED
    BY <1>1, <2>1 DEF Continues
<1>3. \A i \in 1 .. 3 : OpFit(s[i]) /\ (Placed(s[i]) \/ (i > 1 /\ s[1][1] \in Eats))
  <2>1. \A i \in 1 .. 3 : i = 1 \/ i = 2 \/ i = 3
    OBVIOUS
  <2> QED
    BY <1>1, <2>1 DEF Good
<1>4. Fit(s)
  BY <1>1, <1>2, <1>3 DEF Fit
<1> QED
  BY <1>4 DEF s

LEMMA FitFour ==
    ASSUME Head1[1] \notin {"next", "look", "written"},
           NEW a, NEW b, NEW c, NEW d, OpFit(a), Placed(a),
           Good(2, b, a), Good(3, c, a), Good(4, d, a),
           Follows(a, b), Continues(b, c), Continues(c, d), Opens(a, b), Hands(Head1, d)
    PROVE  Fit(<<a, b, c, d>>)
<1> DEFINE s == <<a, b, c, d>>
<1>1. IsSeq(s) /\ Len(s) = 4 /\ s[1] = a /\ s[2] = b /\ s[3] = c /\ s[4] = d
  BY SeqShort
<1> HIDE DEF s
<1>2. Joined(s)
  <2> SUFFICES ASSUME NEW j \in 2 .. Len(s)
               PROVE  Follows(s[j - 1], s[j]) /\ (j > 2 => s[j][1] # "language")
    BY DEF Joined
  <2>1. (j = 2 /\ j - 1 = 1) \/ (j = 3 /\ j - 1 = 2) \/ (j = 4 /\ j - 1 = 3)
    BY <1>1
  <2> QED
    BY <1>1, <2>1 DEF Continues
<1>3. \A i \in 1 .. 4 : OpFit(s[i]) /\ (Placed(s[i]) \/ (i > 1 /\ s[1][1] \in Eats))
  <2>1. \A i \in 1 .. 4 : i = 1 \/ i = 2 \/ i = 3 \/ i = 4
    OBVIOUS
  <2> QED
    BY <1>1, <2>1 DEF Good
<1>4. Fit(s)
  BY <1>1, <1>2, <1>3 DEF Fit
<1> QED
  BY <1>4 DEF s

LEMMA FitFive ==
    ASSUME Head1[1] \notin {"next", "look", "written"},
           NEW a, NEW b, NEW c, NEW d, NEW e, OpFit(a), Placed(a),
           Good(2, b, a), Good(3, c, a), Good(4, d, a), Good(5, e, a),
           Follows(a, b), Continues(b, c), Continues(c, d), Continues(d, e), Opens(a, b), Hands(Head1, e)
    PROVE  Fit(<<a, b, c, d, e>>)
<1> DEFINE s == <<a, b, c, d, e>>
<1>1. IsSeq(s) /\ Len(s) = 5 /\ s[1] = a /\ s[2] = b /\ s[3] = c /\ s[4] = d /\ s[5] = e
  BY SeqShort
<1> HIDE DEF s
<1>2. Joined(s)
  <2> SUFFICES ASSUME NEW j \in 2 .. Len(s)
               PROVE  Follows(s[j - 1], s[j]) /\ (j > 2 => s[j][1] # "language")
    BY DEF Joined
  <2>1. \/ j = 2 /\ j - 1 = 1
        \/ j = 3 /\ j - 1 = 2
        \/ j = 4 /\ j - 1 = 3
        \/ j = 5 /\ j - 1 = 4
    BY <1>1
  <2> QED
    BY <1>1, <2>1 DEF Continues
<1>3. \A i \in 1 .. 5 : OpFit(s[i]) /\ (Placed(s[i]) \/ (i > 1 /\ s[1][1] \in Eats))
  <2>1. \A i \in 1 .. 5 : i = 1 \/ i = 2 \/ i = 3 \/ i = 4 \/ i = 5
    OBVIOUS
  <2> QED
    BY <1>1, <2>1 DEF Good
<1>4. Fit(s)
  BY <1>1, <1>2, <1>3 DEF Fit
<1> QED
  BY <1>4 DEF s

(* The parser does nothing else than put them there, or it gives up.       *)
LEMMA Pushing ==
    ASSUME Parsing
    PROVE  /\ \A ops : Fit(ops) /\ (Becomes(ops) \/ Enters(ops)) => Pushed
           /\ SyntaxError => Stopped
BY DEF Pushed, Stopped, Becomes, Enters, SyntaxError, Quiet, input, lines, tokens
-----------------------------------------------------------------------------
(* Operations that the parser's functions are made of.                     *)
Stepped == Pushed \/ Stopped \/ Splits \/ \E text, ops : Writing(text, ops)

LEMMA PlainGood ==
    /\ \A x \in {Tok, Look} \cup {<<k>> : k \in {"stats", "local", "assign", "primary", "structdef",
                      "fields", "comma", "simple", "items", "suffix", "field", "sep", "args"}} :
          OpFit(x) /\ Placed(x) /\ \A i, a : Good(i, x, a)
    /\ \A y : OpFit(Sub(y)) /\ Placed(Sub(y)) /\ \A i, a : Good(i, Sub(y), a)
    /\ \A y : OpFit(Embed(y)) /\ Placed(Embed(y)) /\ \A i, a : Good(i, Embed(y), a)
    /\ \A y : y # EOS => OpFit(Expect(y)) /\ Placed(Expect(y)) /\ \A i, a : Good(i, Expect(y), a)
<1>1. ASSUME NEW x \in {Tok, Look} \cup {<<k>> : k \in {"stats", "local", "assign", "primary", "structdef",
                      "fields", "comma", "simple", "items", "suffix", "field", "sep", "args"}}
      PROVE  OpFit(x) /\ Placed(x) /\ \A i, a : Good(i, x, a)
  <2>1. CASE x \in {Tok, Look}
    BY <2>1, PlainFit DEF Good, Tok, Look, Marked
  <2>2. ASSUME NEW k \in {"stats", "local", "assign", "primary", "structdef",
                      "fields", "comma", "simple", "items", "suffix", "field", "sep", "args"},
               x = <<k>>
        PROVE  OpFit(x) /\ Placed(x) /\ \A i, a : Good(i, x, a)
    <3>1. x[1] = k /\ k \notin Marked /\ k # "expect"
      BY <2>2 DEF Marked
    <3> QED
      BY <3>1, PlainFit DEF Good
  <2> QED
    BY <1>1, <2>1, <2>2
<1>2. ASSUME NEW y
      PROVE  OpFit(Sub(y)) /\ Placed(Sub(y)) /\ \A i, a : Good(i, Sub(y), a)
  <2>1. Sub(y)[1] \notin Marked /\ Sub(y)[1] # "expect"
    BY DEF Sub, Marked
  <2> QED
    BY <2>1, PlainFit DEF Good
<1>3. ASSUME NEW y
      PROVE  OpFit(Embed(y)) /\ Placed(Embed(y)) /\ \A i, a : Good(i, Embed(y), a)
  <2>1. Embed(y)[1] \notin Marked /\ Embed(y)[1] # "expect"
    BY DEF Embed, Marked
  <2> QED
    BY <2>1, PlainFit DEF Good
<1>4. ASSUME NEW y, y # EOS
      PROVE  OpFit(Expect(y)) /\ Placed(Expect(y)) /\ \A i, a : Good(i, Expect(y), a)
  <2>1. Expect(y)[1] \notin Marked /\ Expect(y)[2] = y
    BY DEF Expect, Marked
  <2> QED
    BY <1>4, <2>1, PlainFit DEF Good
<1> QED
  BY <1>1, <1>2, <1>3, <1>4

LEMMA StatementSteps ==
    ASSUME SInv, Statement
    PROVE  Stepped
<1>1. Parsing /\ Head1[1] = "stats"
  BY DEF Statement, At
<1>2. /\ t # NoToken /\ IsToken(t)
      /\ t.token \in {"struct", "local", "lang"} => ~Stuck
  BY <1>1, Here
<1>3. t.token = "struct" => Fit(<<<<"definition", t>>, <<"stats">>>>)
  <2> SUFFICES ASSUME t.token = "struct" PROVE Fit(<<<<"definition", t>>, <<"stats">>>>)
    OBVIOUS
  <2>1. OpFit(<<"definition", t>>) /\ Placed(<<"definition", t>>)
    BY <1>1, <1>2 DEF OpFit, Placed, Sound, Keepers, Kin
  <2>2. Opens(<<"definition", t>>, <<"stats">>)
    BY <1>1, <1>2 DEF Opens, Eats, Firsts, EOS
  <2> QED
    BY <1>1, <2>1, <2>2, PlainGood, FitTwo DEF Follows, Firsts, Passive, Hands, Pops
<1>4. t.token = "local" => Fit(<<Tok, <<"local">>, <<"stats">>>>)
  <2>1. t.token = "local" => Opens(Tok, <<"local">>)
    BY <1>1, <1>2 DEF Opens, Eats, Firsts, EOS, Tok
  <2>2. Follows(Tok, <<"local">>) /\ Continues(<<"local">>, <<"stats">>)
    BY DEF Follows, Continues, Firsts, Passive, Pops, Tok
  <2> QED
    BY <1>1, <2>1, <2>2, PlainGood, FitThree DEF Hands, Pops
<1>5. t.token = "lang" => Fit(<<<<"language", t, FALSE>>, <<"stats">>>>)
  <2> SUFFICES ASSUME t.token = "lang" PROVE Fit(<<<<"language", t, FALSE>>, <<"stats">>>>)
    OBVIOUS
  <2>1. OpFit(<<"language", t, FALSE>>) /\ Placed(<<"language", t, FALSE>>)
    BY <1>1, <1>2 DEF OpFit, Placed, Sound, Keepers, Kin
  <2>2. Opens(<<"language", t, FALSE>>, <<"stats">>)
    BY <1>1, <1>2 DEF Opens, Eats, Firsts, EOS
  <2> QED
    BY <1>1, <2>1, <2>2, PlainGood, FitTwo DEF Follows, Firsts, Passive, Hands, Pops
<1>6. t.token \in {Name, "("} => Fit(<<<<"primary">>, <<"assign">>, <<"stats">>>>)
  <2>1. Opens(<<"primary">>, <<"assign">>)
    BY <1>1 DEF Opens, Eats, Firsts, Passive
  <2>2. Follows(<<"primary">>, <<"assign">>) /\ Continues(<<"assign">>, <<"stats">>)
    BY DEF Follows, Continues, Firsts, Passive
  <2> QED
    BY <1>1, <2>1, <2>2, PlainGood, FitThree DEF Hands, Pops
<1> QED
  BY <1>1, <1>3, <1>4, <1>5, <1>6, Pushing DEF Statement, Stepped

LEMMA LocalStatSteps ==
    ASSUME SInv, LocalStat
    PROVE  Stepped
<1>1. Parsing /\ Head1[1] \in {"local", "assign"}
  BY DEF LocalStat, At
<1>2. /\ t # NoToken /\ IsToken(t)
      /\ t.token \in {"struct", "local", "lang"} => ~Stuck
  BY <1>1, Here
<1>3. CASE Head1[1] = "local"
  <2>1. t.token = "struct" => Fit(<<<<"definition", t>>>>)
    <3> SUFFICES ASSUME t.token = "struct" PROVE Fit(<<<<"definition", t>>>>)
      OBVIOUS
    <3>1. OpFit(<<"definition", t>>) /\ Placed(<<"definition", t>>)
      BY <1>2, <1>3 DEF OpFit, Placed, Sound, Keepers, Kin
    <3>2. Opens(<<"definition", t>>, <<"definition", t>>)
      BY <1>2, <1>3 DEF Opens, Eats, Firsts, EOS
    <3> QED
      BY <1>3, <3>1, <3>2, FitOne DEF Hands, Pops
  <2>2. t.token = "lang" => Fit(<<<<"language", t, FALSE>>>>)
    <3> SUFFICES ASSUME t.token = "lang" PROVE Fit(<<<<"language", t, FALSE>>>>)
      OBVIOUS
    <3>1. OpFit(<<"language", t, FALSE>>) /\ Placed(<<"language", t, FALSE>>)
      BY <1>2, <1>3 DEF OpFit, Placed, Sound, Keepers, Kin
    <3>2. Opens(<<"language", t, FALSE>>, <<"language", t, FALSE>>)
      BY <1>2, <1>3 DEF Opens, Eats, Firsts, EOS
    <3> QED
      BY <1>3, <3>1, <3>2, FitOne DEF Hands, Pops
  <2>3. Fit(<<Expect(Name), <<"assign">>>>)
    <3>1. Name # EOS
      BY DEF Name, EOS
    <3>2. Opens(Expect(Name), <<"assign">>) /\ Follows(Expect(Name), <<"assign">>)
      BY <1>3 DEF Opens, Eats, Firsts, Passive, Follows, Pops, Expect
    <3> QED
      BY <1>3, <3>1, <3>2, PlainGood, FitTwo DEF Hands, Pops
  <2> QED
    BY <1>1, <1>3, <2>1, <2>2, <2>3, Pushing DEF LocalStat, Stepped, At
<1>4. CASE Head1[1] = "assign"
  <2>1. t.token = "=" => Fit(<<Tok, Sub(0)>>)
    <3>1. t.token = "=" => Opens(Tok, Sub(0))
      BY <1>4 DEF Opens, Eats, Firsts, Passive, EOS, Tok
    <3>2. Follows(Tok, Sub(0))
      BY DEF Follows, Firsts, Passive, Pops, Tok, Sub
    <3> QED
      BY <1>4, <3>1, <3>2, PlainGood, FitTwo DEF Hands, Pops, Sub
  <2>2. Fit(<<>>)
    BY <1>4, FitNone DEF Pops, Eats
  <2> QED
    BY <1>1, <1>4, <2>1, <2>2, Pushing DEF LocalStat, Stepped, At
<1> QED
  BY <1>1, <1>3, <1>4

(* An operation that keeps the token of the first one.                     *)
LEMMA KeptGood ==
    ASSUME SInv, Parsing, Head1[1] \in Marked, Head1[1] # "embedded"
    PROVE  /\ \A k \in {"definition", "further", "further local"} :
                 /\ OpFit(<<k, Head1[2]>>)
                 /\ \A i, a : i > 1 /\ a[1] \in Eats => Good(i, <<k, Head1[2]>>, a)
           /\ \A k \in {"language", "operand", "binary"} : \A x :
                 /\ OpFit(<<k, Head1[2], x>>)
                 /\ \A i, a : i > 1 /\ a[1] \in Eats => Good(i, <<k, Head1[2], x>>, a)
           /\ \A text \in Literals : \A x :
                 /\ OpFit(Written(Head1[2], text, x))
                 /\ \A i, a : i > 1 /\ a[1] \in Eats => Good(i, Written(Head1[2], text, x), a)
<1>1. Head1[2].begin \in Mark(Head1)
  BY DEF Mark
<1>2. ASSUME NEW op, op[1] \in Marked, op[2] = Head1[2], Sound(op, split), op[1] # "embedded",
             op[1] \notin {"pointer", "more", "right", "combine"}
      PROVE  OpFit(op) /\ \A i, a : i > 1 /\ a[1] \in Eats => Good(i, op, a)
  BY <1>1, <1>2 DEF OpFit, Good, Kin
<1>3. ASSUME NEW k \in {"definition", "further", "further local"}
      PROVE  /\ OpFit(<<k, Head1[2]>>)
             /\ \A i, a : i > 1 /\ a[1] \in Eats => Good(i, <<k, Head1[2]>>, a)
  <2>1. k \in Marked /\ Sound(<<k, Head1[2]>>, split) /\ k # "embedded"
    BY DEF Marked, Sound
  <2> QED
    BY <1>2, <2>1
<1>4. ASSUME NEW k \in {"language", "operand", "binary"}, NEW x
      PROVE  /\ OpFit(<<k, Head1[2], x>>)
             /\ \A i, a : i > 1 /\ a[1] \in Eats => Good(i, <<k, Head1[2], x>>, a)
  <2>1. k \in Marked /\ Sound(<<k, Head1[2], x>>, split) /\ k # "embedded"
    BY DEF Marked, Sound
  <2> QED
    BY <1>2, <2>1
<1>5. ASSUME NEW text \in Literals, NEW x
      PROVE  /\ OpFit(Written(Head1[2], text, x))
             /\ \A i, a : i > 1 /\ a[1] \in Eats => Good(i, Written(Head1[2], text, x), a)
  <2> DEFINE op == Written(Head1[2], text, x)
  <2>1. op[1] \in Marked /\ op[2] = Head1[2] /\ op[3] = text /\ op[1] = "written"
    BY DEF Marked, Written
  <2>2. Sound(op, split) /\ op[1] # "embedded"
    BY <2>1 DEF Sound
  <2> HIDE DEF op
  <2>3. OpFit(op) /\ \A i, a : i > 1 /\ a[1] \in Eats => Good(i, op, a)
    BY <1>2, <2>1, <2>2
  <2> QED
    BY <2>3 DEF op
<1> QED
  BY <1>3, <1>4, <1>5
-----------------------------------------------------------------------------
(* The text of a language is no other construct's.                         *)
LEMMA TextsDiffer ==
    /\ <<Wrote("terra.defineobjects("), Wrote(")")>> \in Literals \ {LanguageText}
    /\ <<Wrote("(terra.definequote("), Wrote("))")>> \in Literals \ {LanguageText}
    /\ <<Wrote("terra.anonstruct("), Wrote(")")>> \in Literals \ {LanguageText}
    /\ LanguageText \in Literals
<1>1. /\ <<Wrote("terra.defineobjects("), Wrote(")")>>[1].c = "terra.defineobjects("
      /\ <<Wrote("(terra.definequote("), Wrote("))")>>[1].c = "(terra.definequote("
      /\ <<Wrote("terra.anonstruct("), Wrote(")")>>[1].c = "terra.anonstruct("
      /\ LanguageText[1].c = "_G.terra._trees[]("
  BY DEF LanguageText, Wrote
<1> QED
  BY <1>1 DEF Literals

LEMMA EatsTok == Tok[1] \in Eats /\ \A x : Sub(x)[1] \in Eats /\ Embed(x)[1] \in Eats
BY DEF Tok, Eats, Sub, Embed

LEMMA TerrastatsSteps ==
    ASSUME SInv, Terrastats
    PROVE  Stepped
<1>1. Parsing /\ Head1[1] \in {"definition", "structdef", "further", "further local"}
  BY DEF Terrastats, At
<1>2. /\ t # NoToken
      /\ t.token \in {"struct", "local", "lang"} => ~Stuck
      /\ Head1[1] \in {"further", "further local"} => Gap(out, Head1[2].begin, t.begin)
      /\ Head1[1] = "definition" => t.token # EOS \/ AllGap
      /\ Head1[1] = "further local" => AllGap
  <2>1. Head1[1] # "next"
    BY <1>1
  <2> QED
    BY <1>1, <2>1, Here DEF Firsts, Marked
<1>3. CASE Head1[1] = "definition"
  <2> DEFINE last == <<"further", Head1[2]>>
  <2>1. Name # EOS /\ Tok[1] \in Eats /\ last[1] = "further"
    BY DEF Name, EOS, Tok, Eats
  <2>0. \A i, a : i > 1 /\ a[1] \in Eats => Good(i, last, a)
    BY <1>1, <1>3, KeptGood DEF Marked
  <2>2. Good(4, last, Tok)
    BY <2>0, EatsTok
  <2> HIDE DEF last
  <2>3. /\ Follows(Tok, Expect(Name)) /\ Continues(Expect(Name), <<"structdef">>)
        /\ Continues(<<"structdef">>, last)
    BY <2>1 DEF Follows, Continues, Firsts, Passive, Pops, Tok, Expect
  <2>4. Opens(Tok, Expect(Name))
    BY <1>2, <1>3 DEF Opens, Eats, Firsts, Passive, Tok, Keepers
  <2>5. Hands(Head1, last)
    BY <1>3, <2>1 DEF Hands, Pops
  <2>6. Fit(<<Tok, Expect(Name), <<"structdef">>, last>>)
    BY <1>3, <2>1, <2>2, <2>3, <2>4, <2>5, PlainGood, FitFour
  <2> QED
    BY <1>1, <1>3, <2>6, Pushing DEF Terrastats, Stepped, At, last
<1>4. CASE Head1[1] = "structdef"
  <2>1. t.token = "{" => Fit(<<Tok, <<"fields">>>>)
    <3>1. t.token = "{" => Opens(Tok, <<"fields">>)
      BY <1>4 DEF Opens, Eats, Firsts, Passive, EOS, Tok
    <3>2. Follows(Tok, <<"fields">>)
      BY DEF Follows, Firsts, Passive, Pops, Tok
    <3> QED
      BY <1>4, <3>1, <3>2, PlainGood, FitTwo DEF Hands, Pops
  <2>2. Fit(<<>>)
    BY <1>4, FitNone DEF Pops, Eats
  <2> QED
    BY <1>1, <1>4, <2>1, <2>2, Pushing DEF Terrastats, Stepped, At
<1>5. Head1[1] \in {"further", "further local"} => Fit(<<Defined(Head1[2])>>)
  <2> SUFFICES ASSUME Head1[1] \in {"further", "further local"} PROVE Fit(<<Defined(Head1[2])>>)
    OBVIOUS
  <2>1. OpFit(Defined(Head1[2]))
    BY <1>1, KeptGood, TextsDiffer DEF Defined, Marked
  <2> DEFINE op == Defined(Head1[2])
  <2>2. op[1] = "written" /\ op[2] = Head1[2]
    BY DEF Defined, Written
  <2> HIDE DEF op
  <2>3. Placed(op)
    BY <1>2, <2>2 DEF Placed
  <2>4. Opens(op, op) /\ Hands(Head1, op)
    BY <2>2 DEF Opens, Hands, Eats, Firsts, Passive, Pops
  <2>5. Fit(<<op>>)
    BY <2>1, <2>3, <2>4, FitOne DEF op
  <2> QED
    BY <2>5 DEF op
<1>6. CASE Head1[1] = "further"
  <2>1. t.token = "struct" => Fit(<<<<"definition", Head1[2]>>>>)
    <3> SUFFICES ASSUME t.token = "struct" PROVE Fit(<<<<"definition", Head1[2]>>>>)
      OBVIOUS
    <3> DEFINE op == <<"definition", Head1[2]>>
    <3>1. OpFit(op) /\ Placed(op) /\ op[1] = "definition"
      BY <1>1, <1>6, KeptGood DEF Marked, Placed
    <3> HIDE DEF op
    <3>2. Opens(op, op) /\ Hands(Head1, op)
      BY <1>2, <1>6, <3>1 DEF Opens, Hands, Eats, Firsts, Passive, Pops, EOS
    <3>3. Fit(<<op>>)
      BY <1>6, <3>1, <3>2, FitOne
    <3> QED
      BY <3>3 DEF op
  <2>2. t.token = "local" => Fit(<<Look, <<"further local", Head1[2]>>>>)
    <3> SUFFICES ASSUME t.token = "local" PROVE Fit(<<Look, <<"further local", Head1[2]>>>>)
      OBVIOUS
    <3> DEFINE op == <<"further local", Head1[2]>>
    <3>1. OpFit(op) /\ op[1] = "further local" /\ op[2] = Head1[2]
      BY <1>1, <1>6, KeptGood DEF Marked
    <3> HIDE DEF op
    <3>2. Good(2, op, Look)
      BY <1>2, <1>6, <3>1 DEF Good, Placed
    <3>3. Opens(Look, op) /\ Hands(Head1, op) /\ Follows(Look, op)
      BY <1>2, <1>6, <3>1 DEF Opens, Hands, Eats, Firsts, Passive, Pops, EOS, Follows, Look
    <3>4. Fit(<<Look, op>>)
      BY <1>6, <3>2, <3>3, PlainGood, FitTwo
    <3> QED
      BY <3>4 DEF op
  <2> QED
    BY <1>1, <1>5, <1>6, <2>1, <2>2, Pushing DEF Terrastats, Stepped, At
<1>7. CASE Head1[1] = "further local"
  <2> DEFINE op == <<"definition", Head1[2]>>
  <2>0. \A i, a : i > 1 /\ a[1] \in Eats => Good(i, op, a)
    BY <1>1, <1>7, KeptGood DEF Marked
  <2>1. Good(2, op, Tok) /\ op[1] = "definition"
    BY <2>0, EatsTok
  <2> HIDE DEF op
  <2>2. Opens(Tok, op) /\ Hands(Head1, op) /\ Follows(Tok, op)
    BY <1>2, <1>7, <2>1 DEF Opens, Hands, Eats, Firsts, Passive, Pops, EOS, Follows, Tok, Keepers
  <2>3. Fit(<<Tok, op>>)
    BY <1>7, <2>1, <2>2, PlainGood, FitTwo
  <2> QED
    BY <1>1, <1>5, <1>7, <2>3, Pushing DEF Terrastats, Stepped, At, op
<1> QED
  BY <1>1, <1>3, <1>4, <1>6, <1>7

LEMMA StructbodySteps ==
    ASSUME SInv, Structbody
    PROVE  Stepped
<1>1. Parsing /\ Head1[1] \in {"fields", "comma"}
  BY DEF Structbody, At
<1>2. t.token \in {"}", ","} => Fit(<<Tok>>)
  <2>1. t.token \in {"}", ","} => Opens(Tok, Tok)
    BY <1>1 DEF Opens, Eats, Firsts, Passive, EOS, Tok
  <2> QED
    BY <1>1, <2>1, PlainGood, FitOne DEF Hands, Pops, Tok
<1>3. Head1[1] = "fields" => Fit(<<Expect(Name), Expect(":"), Embed(FALSE), <<"comma">>, <<"fields">>>>)
  <2> SUFFICES ASSUME Head1[1] = "fields"
               PROVE  Fit(<<Expect(Name), Expect(":"), Embed(FALSE), <<"comma">>, <<"fields">>>>)
    OBVIOUS
  <2>1. Name # EOS /\ ":" # EOS
    BY DEF Name, EOS
  <2>2. /\ Follows(Expect(Name), Expect(":")) /\ Continues(Expect(":"), Embed(FALSE))
        /\ Continues(Embed(FALSE), <<"comma">>) /\ Continues(<<"comma">>, <<"fields">>)
    BY DEF Follows, Continues, Firsts, Passive, Pops, Expect, Embed
  <2>3. Opens(Expect(Name), Expect(":")) /\ Hands(Head1, <<"fields">>)
    BY <1>1 DEF Opens, Eats, Firsts, Passive, Expect, Hands, Pops
  <2> QED
    BY <1>1, <2>1, <2>2, <2>3, PlainGood, FitFive
<1>4. Head1[1] = "comma" => Fit(<<>>)
  BY FitNone DEF Pops, Eats
<1> QED
  BY <1>1, <1>2, <1>3, <1>4, Pushing DEF Structbody, Stepped, At

(* An operation that remembers the current token, behind one that reads.   *)
LEMMA HereGood ==
    ASSUME SInv, Parsing, Head1[1] # "next", Head1[1] \notin Keepers \cup Passive
    PROVE  /\ \A k \in {"operand", "binary", "embedded"} : \A x :
                 /\ OpFit(<<k, t, x>>)
                 /\ \A i, a : i > 1 /\ a[1] \in Eats => Good(i, <<k, t, x>>, a)
           /\ \A x : OpFit(<<"language", t, x>>) /\ Placed(<<"language", t, x>>)
           /\ OpFit(Quote(t)) /\ Placed(Quote(t))
           /\ \A text \in Literals : \A x :
                 /\ OpFit(Written(t, text, x))
                 /\ \A i, a : i > 1 /\ a[1] \in Eats => Good(i, Written(t, text, x), a)
<1>1. ASSUME NEW op, op[2] = t, Sound(op, split), op[1] \notin {"pointer", "more", "right", "combine"}
      PROVE  OpFit(op) /\ \A i, a : i > 1 /\ a[1] \in Eats => Good(i, op, a)
  BY <1>1 DEF OpFit, Good, Kin
<1>2. ASSUME NEW k \in {"operand", "binary", "embedded"}, NEW x
      PROVE  /\ OpFit(<<k, t, x>>)
             /\ \A i, a : i > 1 /\ a[1] \in Eats => Good(i, <<k, t, x>>, a)
  <2>1. Sound(<<k, t, x>>, split) /\ <<k, t, x>>[2] = t
    BY DEF Sound
  <2> QED
    BY <1>1, <2>1
<1>3. ASSUME NEW x
      PROVE  OpFit(<<"language", t, x>>) /\ Placed(<<"language", t, x>>)
  <2>1. Sound(<<"language", t, x>>, split) /\ <<"language", t, x>>[2] = t
    BY DEF Sound
  <2> QED
    BY <1>1, <2>1 DEF Placed
<1>4. OpFit(Quote(t)) /\ Placed(Quote(t))
  <2>1. Sound(Quote(t), split) /\ Quote(t)[2] = t /\ Quote(t)[1] = "quote"
    BY DEF Sound, Quote
  <2> QED
    BY <1>1, <2>1 DEF Placed
<1>5. ASSUME NEW text \in Literals, NEW x
      PROVE  /\ OpFit(Written(t, text, x))
             /\ \A i, a : i > 1 /\ a[1] \in Eats => Good(i, Written(t, text, x), a)
  <2> DEFINE op == Written(t, text, x)
  <2>1. op[1] = "written" /\ op[2] = t /\ op[3] = text
    BY DEF Written
  <2>2. Sound(op, split)
    BY <2>1 DEF Sound
  <2> HIDE DEF op
  <2>3. OpFit(op) /\ \A i, a : i > 1 /\ a[1] \in Eats => Good(i, op, a)
    BY <1>1, <2>1, <2>2
  <2> QED
    BY <2>3 DEF op
<1> QED
  BY <1>2, <1>3, <1>4, <1>5

LEMMA SubexprSteps ==
    ASSUME SInv, Subexpr
    PROVE  Stepped
<1>1. Parsing /\ Head1[1] = "sub" /\ Head1[1] \notin Keepers \cup Passive
  BY DEF Subexpr, At, Keepers, Passive
<1>2. ASSUME NEW k \in {"operand", "binary"}, NEW x
      PROVE  \A a : a[1] \in Eats => Good(2, <<k, t, x>>, a)
  BY <1>1, HereGood
<1>3. t.token = "&" => Fit(<<Tok, <<"operand", t, Head1[2]>>>>)
  <2> DEFINE op == <<"operand", t, Head1[2]>>
  <2>1. Good(2, op, Tok) /\ op[1] = "operand"
    BY <1>2 DEF Eats, Tok
  <2> HIDE DEF op
  <2>2. t.token = "&" => Opens(Tok, op) /\ Hands(Head1, op) /\ Follows(Tok, op)
    BY <1>1, <2>1 DEF Opens, Hands, Eats, Firsts, Passive, Pops, EOS, Follows, Tok
  <2>3. t.token = "&" => Fit(<<Tok, op>>)
    BY <1>1, <2>1, <2>2, PlainGood, FitTwo
  <2> QED
    BY <2>3 DEF op
<1>4. Fit(<<<<"simple">>, <<"binary", t, Head1[2]>>>>)
  <2> DEFINE op == <<"binary", t, Head1[2]>>
  <2>1. Good(2, op, <<"simple">>) /\ op[1] = "binary"
    BY <1>2 DEF Eats
  <2> HIDE DEF op
  <2>2. Opens(<<"simple">>, op) /\ Hands(Head1, op) /\ Follows(<<"simple">>, op)
    BY <1>1, <2>1 DEF Opens, Hands, Eats, Firsts, Passive, Pops, Follows
  <2>3. Fit(<<<<"simple">>, op>>)
    BY <1>1, <2>1, <2>2, PlainGood, FitTwo
  <2> QED
    BY <2>3 DEF op
<1> QED
  BY <1>1, <1>3, <1>4, Pushing DEF Subexpr, Stepped
-----------------------------------------------------------------------------
LEMMA ArgsSteps ==
    ASSUME SInv, Args
    PROVE  Stepped
<1>1. Parsing /\ Head1[1] = "args"
  BY DEF Args, At
<1>2. t.token = ")" => Fit(<<Tok>>)
  <2>1. t.token = ")" => Opens(Tok, Tok) /\ Hands(Head1, Tok)
    BY <1>1 DEF Opens, Eats, Firsts, Passive, EOS, Tok, Hands, Pops
  <2> QED
    BY <1>1, <2>1, PlainGood, FitOne
<1>3. Fit(<<Sub(0), Expect(")")>>)
  <2>1. ")" # EOS
    BY DEF EOS
  <2>2. Opens(Sub(0), Expect(")")) /\ Hands(Head1, Expect(")")) /\ Follows(Sub(0), Expect(")"))
    BY <1>1 DEF Opens, Eats, Firsts, Passive, Follows, Sub, Expect, Hands, Pops
  <2> QED
    BY <1>1, <2>1, <2>2, PlainGood, FitTwo
<1> QED
  BY <1>1, <1>2, <1>3, Pushing DEF Args, Stepped

LEMMA ConstructorSteps ==
    ASSUME SInv, Constructor
    PROVE  Stepped
<1>1. Parsing /\ Head1[1] \in {"items", "field", "sep"}
  BY DEF Constructor, At
<1>2. Head1[1] = "field" => t.token # EOS \/ AllGap
  <2>1. Head1[1] # "next"
    BY <1>1
  <2> QED
    BY <1>1, <2>1, Here DEF Firsts
<1>3. CASE Head1[1] = "items"
  <2>1. t.token = "}" => Fit(<<Tok>>)
    <3>1. t.token = "}" => Opens(Tok, Tok) /\ Hands(Head1, Tok)
      BY <1>3 DEF Opens, Eats, Firsts, Passive, EOS, Tok, Hands, Pops
    <3> QED
      BY <1>3, <3>1, PlainGood, FitOne
  <2>2. t.token = Name => Fit(<<Look, <<"field">>, <<"sep">>>>)
    <3>1. t.token = Name => Opens(Look, <<"field">>)
      BY <1>3 DEF Opens, Eats, Firsts, Passive, EOS, Look, Name
    <3>2. Follows(Look, <<"field">>) /\ Continues(<<"field">>, <<"sep">>) /\ Hands(Head1, <<"sep">>)
      BY <1>3 DEF Follows, Continues, Firsts, Passive, Pops, Look, Hands
    <3> QED
      BY <1>3, <3>1, <3>2, PlainGood, FitThree
  <2>3. Fit(<<Sub(0), <<"sep">>>>)
    <3>1. Opens(Sub(0), <<"sep">>) /\ Hands(Head1, <<"sep">>) /\ Follows(Sub(0), <<"sep">>)
      BY <1>3 DEF Opens, Eats, Firsts, Passive, Follows, Sub, Hands, Pops
    <3> QED
      BY <1>3, <3>1, PlainGood, FitTwo
  <2> QED
    BY <1>1, <1>3, <2>1, <2>2, <2>3, Pushing DEF Constructor, Stepped, At
<1>4. CASE Head1[1] = "field"
  <2>1. Fit(<<Tok, Tok, Sub(0)>>)
    <3>1. Opens(Tok, Tok)
      BY <1>2, <1>4 DEF Opens, Eats, Firsts, Passive, Tok, Keepers
    <3>2. Follows(Tok, Tok) /\ Continues(Tok, Sub(0)) /\ Hands(Head1, Sub(0))
      BY <1>4 DEF Follows, Continues, Firsts, Passive, Pops, Tok, Sub, Hands
    <3> QED
      BY <1>4, <3>1, <3>2, PlainGood, FitThree
  <2>2. Fit(<<Sub(0)>>)
    <3>1. Opens(Sub(0), Sub(0)) /\ Hands(Head1, Sub(0))
      BY <1>4 DEF Opens, Eats, Firsts, Passive, Sub, Hands, Pops
    <3> QED
      BY <1>4, <3>1, PlainGood, FitOne
  <2> QED
    BY <1>1, <1>4, <2>1, <2>2, Pushing DEF Constructor, Stepped, At
<1>5. CASE Head1[1] = "sep"
  <2>1. t.token = "," => Fit(<<Tok, <<"items">>>>)
    <3>1. t.token = "," => Opens(Tok, <<"items">>)
      BY <1>5 DEF Opens, Eats, Firsts, Passive, EOS, Tok
    <3>2. Follows(Tok, <<"items">>) /\ Hands(Head1, <<"items">>)
      BY <1>5 DEF Follows, Firsts, Passive, Pops, Tok, Hands
    <3> QED
      BY <1>5, <3>1, <3>2, PlainGood, FitTwo
  <2>2. Fit(<<Expect("}")>>)
    <3>1. "}" # EOS
      BY DEF EOS
    <3>2. Opens(Expect("}"), Expect("}")) /\ Hands(Head1, Expect("}"))
      BY <1>5 DEF Opens, Eats, Firsts, Passive, Expect, Hands, Pops
    <3> QED
      BY <1>5, <3>1, <3>2, PlainGood, FitOne
  <2> QED
    BY <1>1, <1>5, <2>1, <2>2, Pushing DEF Constructor, Stepped, At
<1> QED
  BY <1>1, <1>3, <1>4, <1>5

LEMMA SuffixSteps ==
    ASSUME SInv, Suffix
    PROVE  Stepped
<1>1. Parsing /\ Head1[1] = "suffix" /\ Head1[1] \notin Keepers \cup Passive /\ Head1[1] # "next"
  BY DEF Suffix, At, Keepers, Passive
<1>2. Splits \/ ~(t.token \in {"(", "quote", "["} /\ IsSplit)
  BY <1>1 DEF Suffix, Splits, input, String
<1>3. /\ Hands(Head1, <<"suffix">>) /\ \A b : t.token # EOS => Opens(Tok, b)
  BY <1>1 DEF Hands, Pops, Opens, Eats, Firsts, Passive, Tok
<1>4. t.token = "(" => Fit(<<Tok, <<"args">>, <<"suffix">>>>)
  <2>1. Follows(Tok, <<"args">>) /\ Continues(<<"args">>, <<"suffix">>) /\ (t.token = "(" => t.token # EOS)
    BY DEF Follows, Continues, Firsts, Passive, Pops, Tok, EOS
  <2> QED
    BY <1>1, <1>3, <2>1, PlainGood, FitThree
<1>5. Fit(<<Quote(t), <<"suffix">>>>)
  <2> DEFINE op == Quote(t)
  <2>1. OpFit(op) /\ Placed(op) /\ op[1] = "quote"
    BY <1>1, HereGood DEF Quote
  <2> HIDE DEF op
  <2>2. Follows(op, <<"suffix">>) /\ Opens(op, <<"suffix">>)
    BY <1>1, <2>1 DEF Follows, Firsts, Passive, Pops, Opens, Eats
  <2>3. Fit(<<op, <<"suffix">>>>)
    BY <1>1, <1>3, <2>1, <2>2, PlainGood, FitTwo
  <2> QED
    BY <2>3 DEF op
<1>6. t.token = "[" => Fit(<<Tok, Sub(0), Expect("]"), <<"suffix">>>>)
  <2>1. /\ Follows(Tok, Sub(0)) /\ Continues(Sub(0), Expect("]")) /\ Continues(Expect("]"), <<"suffix">>)
        /\ (t.token = "[" => t.token # EOS) /\ "]" # EOS
    BY DEF Follows, Continues, Firsts, Passive, Pops, Tok, EOS, Sub, Expect
  <2> QED
    BY <1>1, <1>3, <2>1, PlainGood, FitFour
<1>7. t.token = "{" => Fit(<<Tok, <<"items">>, <<"suffix">>>>)
  <2>1. Follows(Tok, <<"items">>) /\ Continues(<<"items">>, <<"suffix">>) /\ (t.token = "{" => t.token # EOS)
    BY DEF Follows, Continues, Firsts, Passive, Pops, Tok, EOS
  <2> QED
    BY <1>1, <1>3, <2>1, PlainGood, FitThree
<1>8. t.token = String => Fit(<<Tok, <<"suffix">>>>)
  <2>1. Follows(Tok, <<"suffix">>) /\ (t.token = String => t.token # EOS)
    BY DEF Follows, Firsts, Passive, Pops, Tok, EOS, String
  <2> QED
    BY <1>1, <1>3, <2>1, PlainGood, FitTwo
<1>9. Fit(<<>>)
  BY <1>1, FitNone DEF Pops, Eats
<1> QED
  BY <1>1, <1>2, <1>4, <1>5, <1>6, <1>7, <1>8, <1>9, Pushing DEF Suffix, Stepped

LEMMA EmbeddedSteps ==
    ASSUME SInv, Embedded
    PROVE  Stepped
<1>1. Parsing /\ Head1[1] \in {"embed", "embedded"} /\ Head1[1] # "next"
  BY DEF Embedded, At
<1>2. CASE Head1[1] = "embed"
  <2>1. Head1[1] \notin Keepers \cup Passive
    BY <1>2 DEF Keepers, Passive
  <2> DEFINE op == <<"embedded", t, inTerra>>
             first == IF Head1[2] THEN Quote(t) ELSE Sub(0)
  <2>2. op[1] = "embedded" /\ first[1] \in {"quote", "sub"} /\ first[1] \in Eats
    BY DEF Quote, Sub, Eats
  <2>3. OpFit(first) /\ Placed(first)
    BY <1>1, <2>1, HereGood, PlainGood
  <2>4. Put(<<first, op>>) /\ Quiet /\ UNCHANGED <<split, status>>
    BY <1>1, <1>2 DEF Embedded, At, Quiet, input, lines, tokens
  <2>5. \A i, a : i > 1 /\ a[1] \in Eats => Good(i, op, a)
    BY <1>1, <2>1, HereGood
  <2> HIDE DEF op, first
  <2>6. Follows(first, op) /\ Opens(first, op) /\ Hands(Head1, op)
    BY <1>2, <2>2 DEF Follows, Firsts, Passive, Pops, Opens, Eats, Hands
  <2>7. Good(2, op, first)
    BY <2>2, <2>5
  <2>8. Fit(<<first, op>>)
    BY <1>2, <2>3, <2>6, <2>7, FitTwo
  <2> QED
    BY <1>1, <2>4, <2>8 DEF Pushed, Stepped
<1>3. CASE Head1[1] = "embedded"
  <2>1. Fit(<<>>)
    BY <1>3, FitNone DEF Pops, Eats
  <2>2. Quiet /\ UNCHANGED split
    BY <1>1, <1>3 DEF Embedded, At, Quiet, input, lines, tokens
  <2>3. CASE Loads(Output(Head1[2]))
    <3>1. UNCHANGED status /\ Put(<<>>)
      BY <1>3, <2>3 DEF Embedded, At
    <3> QED
      BY <1>1, <2>1, <2>2, <3>1 DEF Pushed, Stepped
  <2>4. CASE ~Loads(Output(Head1[2]))
    <3>1. status' = "load" /\ todo' = <<>>
      BY <1>3, <2>4 DEF Embedded, At
    <3> QED
      BY <1>1, <2>2, <3>1 DEF Stopped, Stepped
  <2> QED
    BY <2>3, <2>4
<1> QED
  BY <1>1, <1>2, <1>3

LEMMA EndSteps ==
    ASSUME Unexpected \/ Finish
    PROVE  Stepped
<1>1. CASE Unexpected
  BY <1>1, Pushing DEF Unexpected, At, Stepped
<1>2. CASE Finish
  BY <1>2 DEF Finish, At, Stepped, Stopped, Quiet, input, lines, tokens
<1> QED
  BY <1>1, <1>2
-----------------------------------------------------------------------------
LEMMA LanguageSteps ==
    ASSUME SInv, Language
    PROVE  Stepped
<1>1. Parsing /\ Head1[1] = "language" /\ Head1[1] \in Marked
  BY DEF Language, At, Marked
<1>2. Gap(out, Head1[2].begin, t.begin) \/ t.from = Head1[2].from
  <2>1. Head1[1] # "next"
    BY <1>1
  <2> QED
    BY <1>1, <2>1, Here
<1>3. ASSUME NEW x
      PROVE  /\ \A i, a : i > 1 /\ a[1] \in Eats => Good(i, <<"language", Head1[2], x>>, a)
             /\ OpFit(<<"language", Head1[2], x>>) /\ Placed(<<"language", Head1[2], x>>)
             /\ Hands(Head1, <<"language", Head1[2], x>>)
             /\ Lang(<<"language", Head1[2], x>>) /\ <<"language", Head1[2], x>>[2] = Head1[2]
  <2>1. /\ \A i, a : i > 1 /\ a[1] \in Eats => Good(i, <<"language", Head1[2], x>>, a)
        /\ OpFit(<<"language", Head1[2], x>>)
    BY <1>1, KeptGood
  <2>2. Placed(<<"language", Head1[2], x>>)
    BY <1>2 DEF Placed
  <2>3. Hands(Head1, <<"language", Head1[2], x>>) /\ Lang(<<"language", Head1[2], x>>)
    BY <1>1 DEF Hands, Lang, Pops
  <2> QED
    BY <2>1, <2>2, <2>3
<1>4. t.token \in {Name, "lang"} => Fit(<<Tok, <<"language", Head1[2], FALSE>>>>)
  <2> DEFINE op == <<"language", Head1[2], FALSE>>
  <2>1. Good(2, op, Tok) /\ op[1] = "language" /\ op[2] = Head1[2] /\ Lang(op) /\ Hands(Head1, op)
    BY <1>3, EatsTok
  <2> HIDE DEF op
  <2>2. t.token \in {Name, "lang"} => Opens(Tok, op)
    BY <1>1, <2>1 DEF Opens, Eats, Firsts, Passive, Tok, EOS, Name
  <2>3. Follows(Tok, op)
    BY <2>1 DEF Follows, Firsts, Passive, Pops, Tok
  <2>4. t.token \in {Name, "lang"} => Fit(<<Tok, op>>)
    BY <1>1, <2>1, <2>2, <2>3, PlainGood, FitTwo
  <2> QED
    BY <2>4 DEF op
<1>5. Fit(<<Look, <<"language", Head1[2], TRUE>>>>)
  <2> DEFINE op == <<"language", Head1[2], TRUE>>
  <2>1. OpFit(op) /\ Placed(op) /\ op[1] = "language" /\ op[2] = Head1[2] /\ Lang(op) /\ Hands(Head1, op)
    BY <1>3
  <2> HIDE DEF op
  <2>2. Opens(Look, op)
    BY <1>1, <2>1 DEF Opens, Eats, Firsts, Passive, Look
  <2>3. Follows(Look, op) /\ Good(2, op, Look)
    BY <2>1 DEF Follows, Firsts, Passive, Pops, Look, Good
  <2>4. Fit(<<Look, op>>)
    BY <1>1, <2>1, <2>2, <2>3, PlainGood, FitTwo
  <2> QED
    BY <2>4 DEF op
<1>6. ASSUME NEW isterra
      PROVE  Fit(<<Embed(isterra), <<"language", Head1[2], FALSE>>>>)
  <2> DEFINE op == <<"language", Head1[2], FALSE>>
  <2>1. OpFit(op) /\ Placed(op) /\ op[1] = "language" /\ op[2] = Head1[2] /\ Lang(op) /\ Hands(Head1, op)
    BY <1>3
  <2> HIDE DEF op
  <2>2. Opens(Embed(isterra), op)
    BY <1>1, <2>1 DEF Opens, Eats, Firsts, Passive, Embed
  <2>3. Follows(Embed(isterra), op) /\ Good(2, op, Embed(isterra))
    BY <2>1 DEF Follows, Firsts, Passive, Pops, Embed, Good
  <2>4. Fit(<<Embed(isterra), op>>)
    BY <1>1, <2>1, <2>2, <2>3, PlainGood, FitTwo
  <2> QED
    BY <2>4 DEF op
<1>7. t.from # Head1[2].from => Fit(<<Written(Head1[2], LanguageText, 1)>>)
  <2> SUFFICES ASSUME t.from # Head1[2].from PROVE Fit(<<Written(Head1[2], LanguageText, 1)>>)
    OBVIOUS
  <2> DEFINE op == Written(Head1[2], LanguageText, 1)
  <2>1. OpFit(op) /\ op[1] = "written" /\ op[2] = Head1[2] /\ op[3] = LanguageText
    BY <1>1, KeptGood, TextsDiffer DEF Written
  <2> HIDE DEF op
  <2>2. Placed(op) /\ Gap(out, Head1[2].begin, t.begin)
    BY <1>2, <2>1 DEF Placed
  <2>3. Opens(op, op) /\ Hands(Head1, op)
    BY <1>1, <2>1, <2>2 DEF Opens, Eats, Firsts, Passive, Pops, Hands, Lang
  <2>4. Fit(<<op>>)
    BY <1>1, <2>1, <2>2, <2>3, FitOne
  <2> QED
    BY <2>4 DEF op
<1> QED
  BY <1>1, <1>4, <1>5, <1>6, <1>7, Pushing DEF Language, LanguageText, Stepped

LEMMA PointerPushes ==
    ASSUME SInv, Pointer, Head1[1] = "operand"
    PROVE  Stepped
<1>1. Parsing /\ Head1[1] \in Marked /\ Head1[1] # "next"
  BY DEF Pointer, At, Marked
<1> DEFINE op == <<"pointer", Head1[2], t, Head1[3]>>
<1>2. op[1] = "pointer" /\ op[2] = Head1[2]
  OBVIOUS
<1>3. Becomes(<<Sub(Unary), op>>)
  BY DEF Pointer, At
<1> HIDE DEF op
<1>4. OpFit(op)
  BY <1>1, <1>2, Here DEF OpFit, Sound, Kin, Operands, Pointer, At
<1>5. Good(2, op, Sub(Unary))
  BY <1>4, EatsTok DEF Good
<1>6. Opens(Sub(Unary), op) /\ Follows(Sub(Unary), op) /\ Hands(Head1, op)
  BY <1>2 DEF Opens, Follows, Hands, Eats, Firsts, Passive, Pops, Sub
<1>7. Fit(<<Sub(Unary), op>>)
  BY <1>5, <1>6, PlainGood, FitTwo
<1> QED
  BY <1>1, <1>3, <1>7, Pushing DEF Stepped

(* The operations of an expression keep where its first operand begins.    *)
LEMMA OperandGood ==
    ASSUME SInv, Parsing, Head1[1] \in {"binary", "more", "right", "combine"},
           NEW text, Orderly(text, split)
    PROVE  /\ \A x : OpFit(<<"more", Head1[2], text, x>>) /\ Placed(<<"more", Head1[2], text, x>>)
           /\ \A x, y : /\ OpFit(<<"right", Head1[2], text, x, y>>)
                        /\ Placed(<<"right", Head1[2], text, x, y>>)
                        /\ OpFit(<<"combine", Head1[2], text, x, y>>)
                        /\ Placed(<<"combine", Head1[2], text, x, y>>)
<1>1. Head1[1] \in Marked /\ Head1[1] # "next"
  BY DEF Marked
<1>2. Gap(out, Head1[2].begin, t.begin) /\ Head1[2].begin \in Mark(Head1)
  BY <1>1, Here
<1>3. ASSUME NEW op, op[1] \in {"more", "right", "combine"}, op[2] = Head1[2], op[3] = text
      PROVE  OpFit(op) /\ Placed(op)
  BY <1>1, <1>2, <1>3 DEF OpFit, Placed, Sound, Kin, Operands
<1>4. ASSUME NEW x
      PROVE  OpFit(<<"more", Head1[2], text, x>>) /\ Placed(<<"more", Head1[2], text, x>>)
  BY <1>3
<1>5. ASSUME NEW x, NEW y
      PROVE  /\ OpFit(<<"right", Head1[2], text, x, y>>)
             /\ Placed(<<"right", Head1[2], text, x, y>>)
             /\ OpFit(<<"combine", Head1[2], text, x, y>>)
             /\ Placed(<<"combine", Head1[2], text, x, y>>)
  BY <1>3
<1> QED
  BY <1>4, <1>5
-----------------------------------------------------------------------------
LEMMA SeqSame ==
    ASSUME NEW p, NEW q, IsSeq(p), IsSeq(q), Len(p) = Len(q), \A i \in 1 .. Len(p) : p[i] = q[i]
    PROVE  p = q
<1>1. PICK S, T : p \in Seq(S) /\ q \in Seq(T)
  BY DEF IsSeq
<1>2. /\ DOMAIN p = 1 .. Len(p) /\ DOMAIN q = 1 .. Len(q)
      /\ p = [i \in DOMAIN p |-> p[i]] /\ q = [i \in DOMAIN q |-> q[i]]
  BY <1>1
<1> QED
  BY <1>2

LEMMA SeqOneTwo == \A a, b, c : <<a>> \o <<b, c>> = <<a, b, c>> /\ <<>> \o <<b, c>> = <<b, c>>
<1> TAKE a, b, c
<1>1. <<>> \o <<b, c>> = <<b, c>>
  OBVIOUS
<1> DEFINE p == <<a>>
           q == <<b, c>>
           r == <<a, b, c>>
<1>2. /\ IsSeq(p) /\ IsSeq(q) /\ IsSeq(r) /\ Len(p) = 1 /\ Len(q) = 2 /\ Len(r) = 3
      /\ p[1] = a /\ q[1] = b /\ q[2] = c /\ r[1] = a /\ r[2] = b /\ r[3] = c
  BY SeqShort
<1> HIDE DEF p, q, r
<1>0. IsSeq(p) /\ IsSeq(q)
  BY <1>2
<1>3. /\ IsSeq(p \o q) /\ Len(p \o q) = Len(p) + Len(q)
      /\ \A i \in 1 .. Len(p) : (p \o q)[i] = p[i]
      /\ \A i \in 1 .. Len(q) : (p \o q)[Len(p) + i] = q[i]
  BY <1>0, SeqJoin
<1> DEFINE s == p \o q
<1>4. IsSeq(s) /\ Len(s) = 3 /\ s[1] = a /\ s[1 + 1] = b /\ s[1 + 2] = c
  BY <1>2, <1>3
<1> HIDE DEF s
<1>5. \A i \in 1 .. Len(s) : s[i] = r[i]
  <2>1. \A i \in 1 .. 3 : i = 1 \/ i = 2 \/ i = 3
    OBVIOUS
  <2> QED
    BY <1>2, <1>4, <2>1
<1>6. s = r
  BY <1>2, <1>4, <1>5, SeqSame
<1> QED
  BY <1>1, <1>6 DEF s, p, q, r

LEMMA SimpleSteps ==
    ASSUME SInv, Simple
    PROVE  Stepped
<1>1. Parsing /\ Head1[1] \in {"simple", "quote", "primary"} /\ Head1[1] # "next"
  BY DEF Simple, At
<1>2. /\ Head1[1] \in {"simple", "quote"} => Head1[1] \notin Keepers \cup Passive
      /\ t.token # EOS => \A b : Opens(Tok, b)
      /\ \A b : Opens(Sub(0), b) \/ Head1[1] # "quote"
  BY <1>1 DEF Keepers, Passive, Opens, Eats, Firsts, Tok, Sub
<1>3. CASE Head1[1] = "simple"
  <2>1. t.token \in {Number, String} => Fit(<<Tok>>)
    <3>1. (t.token \in {Number, String} => t.token # EOS) /\ Hands(Head1, Tok)
      BY <1>3 DEF Number, String, EOS, Hands, Pops, Tok
    <3> QED
      BY <1>2, <1>3, <3>1, PlainGood, FitOne
  <2>2. t.token = "{" => Fit(<<Tok, <<"items">>>>)
    <3>1. /\ t.token = "{" => t.token # EOS
          /\ Hands(Head1, <<"items">>) /\ Follows(Tok, <<"items">>)
      BY <1>3 DEF EOS, Hands, Pops, Tok, Follows, Firsts, Passive
    <3> QED
      BY <1>2, <1>3, <3>1, PlainGood, FitTwo
  <2>3. Fit(<<Quote(t)>>)
    <3> DEFINE op == Quote(t)
    <3>1. OpFit(op) /\ Placed(op) /\ op[1] = "quote"
      BY <1>1, <1>2, <1>3, HereGood DEF Quote
    <3> HIDE DEF op
    <3>2. Opens(op, op) /\ Hands(Head1, op)
      BY <1>3, <3>1 DEF Opens, Eats, Firsts, Passive, Hands, Pops
    <3>3. Fit(<<op>>)
      BY <1>3, <3>1, <3>2, FitOne
    <3> QED
      BY <3>3 DEF op
  <2>4. Fit(<<<<"language", t, FALSE>>>>)
    <3> DEFINE op == <<"language", t, FALSE>>
    <3>1. OpFit(op) /\ Placed(op) /\ op[1] = "language"
      BY <1>1, <1>2, <1>3, HereGood
    <3> HIDE DEF op
    <3>2. Opens(op, op) /\ Hands(Head1, op)
      BY <1>3, <3>1 DEF Opens, Eats, Firsts, Passive, Hands, Pops
    <3>3. Fit(<<op>>)
      BY <1>3, <3>1, <3>2, FitOne
    <3> QED
      BY <3>3 DEF op
  <2>5. t.token = "struct" =>
           Fit(<<Tok, Expect("{"), <<"fields">>,
                 Written(t, <<Wrote("terra.anonstruct("), Wrote(")")>>, 1)>>)
    <3> SUFFICES ASSUME t.token = "struct"
                 PROVE  Fit(<<Tok, Expect("{"), <<"fields">>,
                              Written(t, <<Wrote("terra.anonstruct("), Wrote(")")>>, 1)>>)
      OBVIOUS
    <3> DEFINE text == <<Wrote("terra.anonstruct("), Wrote(")")>>
               op == Written(t, text, 1)
    <3>1. text \in Literals /\ text # LanguageText
      BY TextsDiffer
    <3> HIDE DEF text
    <3>2. op[1] = "written" /\ op[3] # LanguageText
      BY <3>1 DEF Written
    <3>3. \A i, a : i > 1 /\ a[1] \in Eats => Good(i, op, a)
      BY <1>1, <1>2, <1>3, <3>1, HereGood
    <3> HIDE DEF op
    <3>4. Good(4, op, Tok)
      BY <3>3, EatsTok
    <3>5. t.token # EOS /\ "{" # EOS
      BY DEF EOS
    <3>6. /\ Follows(Tok, Expect("{")) /\ Continues(Expect("{"), <<"fields">>)
          /\ Continues(<<"fields">>, op) /\ Hands(Head1, op)
      BY <1>3, <3>2 DEF Follows, Continues, Firsts, Passive, Pops, Tok, Expect, Hands
    <3>7. Fit(<<Tok, Expect("{"), <<"fields">>, op>>)
      BY <1>2, <1>3, <3>4, <3>5, <3>6, PlainGood, FitFour
    <3> QED
      BY <3>7 DEF op, text
  <2>6. Fit(<<<<"primary">>>>)
    <3>1. Opens(<<"primary">>, <<"primary">>) /\ Hands(Head1, <<"primary">>)
      BY <1>3 DEF Opens, Eats, Firsts, Passive, Hands, Pops
    <3> QED
      BY <1>3, <3>1, PlainGood, FitOne
  <2> QED
    BY <1>1, <1>3, <2>1, <2>2, <2>3, <2>4, <2>5, <2>6, Pushing DEF Simple, Stepped, At
<1>4. CASE Head1[1] = "quote"
  <2> DEFINE op == Definequote(Head1[2])
             text == <<Wrote("(terra.definequote("), Wrote("))")>>
  <2>1. text \in Literals /\ text # LanguageText /\ op = Written(Head1[2], text, 1)
    BY TextsDiffer DEF Definequote
  <2> HIDE DEF text, op
  <2>2. op[1] = "written" /\ op[3] # LanguageText
    BY <2>1 DEF Written
  <2>3. \A i, a : i > 1 /\ a[1] \in Eats => Good(i, op, a)
    BY <1>1, <1>4, <2>1, KeptGood DEF Marked
  <2>4. Good(3, op, Tok) /\ Good(2, op, Sub(0))
    BY <2>3, EatsTok
  <2>5. Follows(Tok, Sub(0)) /\ Follows(Sub(0), op) /\ Continues(Sub(0), op) /\ Hands(Head1, op)
    BY <1>4, <2>2 DEF Follows, Continues, Firsts, Passive, Pops, Tok, Sub, Hands
  <2>6. t.token = "quote" => Fit(<<Tok, Sub(0), op>>)
    <3>1. t.token = "quote" => t.token # EOS
      BY DEF EOS
    <3> QED
      BY <1>2, <1>4, <2>4, <2>5, <3>1, PlainGood, FitThree
  <2>7. Fit(<<Sub(0), op>>)
    BY <1>2, <1>4, <2>4, <2>5, PlainGood, FitTwo
  <2>8. <<Tok>> \o <<Sub(0), op>> = <<Tok, Sub(0), op>> /\ <<>> \o <<Sub(0), op>> = <<Sub(0), op>>
    BY SeqOneTwo
  <2>9. \/ SyntaxError
        \/ Enters((IF t.token = "quote" THEN <<Tok>> ELSE <<>>) \o <<Sub(0), op>>)
    BY <1>4 DEF Simple, At, op
  <2>10. \/ SyntaxError
         \/ t.token = "quote" /\ Enters(<<Tok, Sub(0), op>>)
         \/ Enters(<<Sub(0), op>>)
    <3>1. CASE t.token = "quote"
      <4>1. (IF t.token = "quote" THEN <<Tok>> ELSE <<>>) = <<Tok>>
        BY <3>1
      <4> QED
        BY <2>8, <2>9, <3>1, <4>1
    <3>2. CASE t.token # "quote"
      <4>1. (IF t.token = "quote" THEN <<Tok>> ELSE <<>>) = <<>>
        BY <3>2
      <4> QED
        BY <2>8, <2>9, <4>1
    <3> QED
      BY <3>1, <3>2
  <2> QED
    BY <1>1, <2>6, <2>7, <2>10, Pushing DEF Stepped
<1>5. CASE Head1[1] = "primary"
  <2>1. t.token = Name => Fit(<<Tok, <<"suffix">>>>)
    <3>1. /\ t.token = Name => t.token # EOS
          /\ Hands(Head1, <<"suffix">>) /\ Follows(Tok, <<"suffix">>)
      BY <1>5 DEF EOS, Name, Hands, Pops, Tok, Follows, Firsts, Passive
    <3> QED
      BY <1>2, <1>5, <3>1, PlainGood, FitTwo
  <2>2. t.token = "(" => Fit(<<Tok, Sub(0), Expect(")"), <<"suffix">>>>)
    <3>1. /\ (t.token = "(" => t.token # EOS) /\ ")" # EOS /\ Hands(Head1, <<"suffix">>)
          /\ Follows(Tok, Sub(0)) /\ Continues(Sub(0), Expect(")")) /\ Continues(Expect(")"), <<"suffix">>)
      BY <1>5 DEF EOS, Hands, Pops, Tok, Sub, Expect, Follows, Continues, Firsts, Passive
    <3> QED
      BY <1>2, <1>5, <3>1, PlainGood, FitFour
  <2>3. t.token = "[" => Fit(<<Tok, Embed(FALSE), Expect("]"), <<"suffix">>>>)
    <3>1. /\ (t.token = "[" => t.token # EOS) /\ "]" # EOS /\ Hands(Head1, <<"suffix">>)
          /\ Follows(Tok, Embed(FALSE)) /\ Continues(Embed(FALSE), Expect("]"))
          /\ Continues(Expect("]"), <<"suffix">>)
      BY <1>5 DEF EOS, Hands, Pops, Tok, Embed, Expect, Follows, Continues, Firsts, Passive
    <3> QED
      BY <1>2, <1>5, <3>1, PlainGood, FitFour
  <2> QED
    BY <1>1, <1>5, <2>1, <2>2, <2>3, Pushing DEF Simple, Stepped, At
<1> QED
  BY <1>1, <1>3, <1>4, <1>5
-----------------------------------------------------------------------------
(* A text that is written: orderly, its pieces copied, and none of its     *)
(* ends white or a separator.                                              *)
Made(text, sp) ==
    /\ IsSeq(text) /\ Orderly(text, sp) /\ Copied(text)
    /\ Len(text) \in Nat /\ Len(text) > 0
    /\ text[1].c \notin White /\ text[Len(text)].at = 0 /\ text[Len(text)] # Separator

LEMMA MadeOK ==
    ASSUME NEW text, NEW sp, Made(text, sp)
    PROVE  TextOK(text)
<1> DEFINE n == Len(text)
           last == text[n]
<1>1. /\ \A i \in 1 .. n : Proper(text[i])
      /\ \A i \in 1 .. n : text[i].at = 0 \/ text[i].copied
      /\ n > 0 /\ last.at = 0 /\ last # Separator
  BY DEF Made, Orderly, Copied
<1> QED
  BY <1>1 DEF TextOK

LEMMA LiteralMade ==
    ASSUME NEW text \in Literals, NEW sp
    PROVE  Made(text, sp)
<1>1. PICK a \in {"terra.defineobjects(", "(terra.definequote(", "terra.anonstruct(", "_G.terra._trees[]("},
           b \in {")", "))"} : text = <<Wrote(a), Wrote(b)>>
  BY DEF Literals, LanguageText
<1>2. IsSeq(text) /\ Len(text) = 2 /\ text[1] = Wrote(a) /\ text[2] = Wrote(b)
  BY <1>1, SeqShort
<1> HIDE DEF Made
<1>3. /\ Proper(Wrote(a)) /\ Proper(Wrote(b)) /\ Wrote(a).at = 0 /\ Wrote(b).at = 0
      /\ Wrote(a).c = a /\ a # ";" /\ b # ";" /\ a \notin White
      /\ Wrote(a) # Separator /\ Wrote(b) # Separator
  <2>1. a # ";" /\ b # ";" /\ a \notin White
    BY DEF White, Breaks, Blanks
  <2> QED
    BY <2>1, WroteCells
<1>4. \A i \in 1 .. 2 : i = 1 \/ i = 2
  OBVIOUS
<1>5. Orderly(text, sp)
  <2>1. \A i \in 1 .. Len(text) : Proper(text[i]) /\ text[i] # Separator
    BY <1>2, <1>3, <1>4
  <2>2. \A i \in 1 .. Len(text) - 1 : i \in 1 .. Len(text)
    BY <1>2
  <2> QED
    BY <2>1, <2>2 DEF Orderly, FineAt
<1>6. Copied(text)
  BY <1>2, <1>3, <1>4 DEF Copied
<1>7. /\ Len(text) \in Nat /\ Len(text) > 0 /\ text[1].c \notin White
      /\ text[Len(text)].at = 0 /\ text[Len(text)] # Separator
  <2>1. text[Len(text)] = Wrote(b)
    BY <1>2
  <2>2. Len(text) \in Nat /\ Len(text) > 0
    BY <1>2
  <2> QED
    BY <1>2, <1>3, <2>1, <2>2, Zenon
<1> QED
  BY <1>2, <1>5, <1>6, <1>7 DEF Made

(* Something written in front of, between and behind operands.             *)
Opened(r, sp) ==
    IsSeq(r) /\ Orderly(r, sp) /\ Copied(r) /\ Len(r) > 0 /\ r[1].c \notin White

LEMMA OpeningMade ==
    ASSUME NEW sp, NEW w \in {"terra.types.pointer(", "terra.types.funcpointer("},
           NEW s, IsSeq(s), Orderly(s, sp)
    PROVE  Opened(<<Wrote(w)>> \o Copy(s), sp)
<1> DEFINE p == <<Wrote(w)>>
           q == Copy(s)
<1>1. IsSeq(p) /\ Orderly(p, sp) /\ Copied(p) /\ Len(p) = 1
  BY OrderlyWrote
<1>2. IsSeq(q) /\ Orderly(q, sp) /\ Copied(q)
  BY OrderlyCopy
<1>3. p[1] = Wrote(w) /\ Wrote(w) # Separator /\ Wrote(w).c = w /\ w \notin White
  <2>1. w # ";" /\ w \notin White
    BY DEF White, Breaks, Blanks
  <2> QED
    BY <2>1, WroteCells
<1> HIDE DEF p, q
<1>4. Meets(p, q)
  BY <1>1, <1>3 DEF Meets
<1>7. 1 > 0
  OBVIOUS
<1>6. IsSeq(p) /\ Orderly(p, sp) /\ Copied(p) /\ Len(p) > 0
  BY <1>1, <1>7, Zenon
<1>5. /\ IsSeq(p \o q) /\ Orderly(p \o q, sp) /\ Copied(p \o q)
      /\ Len(p \o q) > 0 /\ (p \o q)[1] = p[1]
  BY <1>2, <1>4, <1>6, OrderlyJoin, Zenon
<1> QED
  BY <1>3, <1>5 DEF p, q, Opened

Closing(w) == w = "," \/ w = ")"

LEMMA ClosingMade ==
    ASSUME NEW sp, NEW w, Closing(w), NEW p, Opened(p, sp)
    PROVE  Made(p \o <<Wrote(w)>>, sp)
<1> DEFINE q == <<Wrote(w)>>
<1>1. IsSeq(q) /\ Orderly(q, sp) /\ Copied(q) /\ Len(q) = 1
  BY OrderlyWrote
<1>2. q[1] = Wrote(w) /\ Wrote(w) # Separator /\ Wrote(w).at = 0
      /\ q[1] \in {Wrote(","), Wrote(")")}
  <2>1. CASE w = ","
    BY <2>1, WroteCells
  <2>2. CASE w = ")"
    BY <2>2, WroteCells
  <2> QED
    BY <2>1, <2>2, Zenon DEF Closing
<1> HIDE DEF q
<1>8. 1 > 0
  OBVIOUS
<1>7. Len(q) > 0
  BY <1>1, <1>8, Zenon
<1>3. Meets(p, q)
  BY <1>2, <1>7, Zenon DEF Meets
<1>4. /\ IsSeq(p \o q) /\ Orderly(p \o q, sp) /\ Copied(p \o q)
      /\ Len(p \o q) > 0 /\ (p \o q)[1] = p[1] /\ (p \o q)[Len(p \o q)] = q[Len(q)]
  BY <1>1, <1>3, <1>7, OrderlyJoin, Zenon DEF Opened
<1>5. Len(p \o q) \in Nat
  BY <1>4, SeqLength
<1>6. q[Len(q)] = Wrote(w)
  BY <1>1, <1>2
<1> QED
  BY <1>2, <1>4, <1>5, <1>6 DEF Made, q, Opened

LEMMA NextMade ==
    ASSUME NEW sp, NEW p, Made(p, sp), NEW s, IsSeq(s), Orderly(s, sp)
    PROVE  Opened(p \o Copy(s), sp)
<1> DEFINE q == Copy(s)
<1>1. IsSeq(q) /\ Orderly(q, sp) /\ Copied(q)
  BY OrderlyCopy
<1> HIDE DEF q
<1>2. IsSeq(p) /\ Orderly(p, sp) /\ Copied(p) /\ Len(p) > 0 /\ p[1].c \notin White /\ Meets(p, q)
  BY DEF Meets, Made
<1>3. /\ IsSeq(p \o q) /\ Orderly(p \o q, sp) /\ Copied(p \o q)
      /\ Len(p \o q) > 0 /\ (p \o q)[1] = p[1]
  BY <1>1, <1>2, OrderlyJoin
<1> QED
  BY <1>2, <1>3 DEF q, Opened

(* A text is written, and what then begins there.                          *)
LEMMA WritingNow ==
    ASSUME SInv, Parsing, Head1[1] \in Patchers, UNCHANGED <<source, current, split, status, lx>>,
           NEW text, Made(text, split), Patch(Head1[2], text),
           NEW ops, Put(ops),
           \/ ops = <<>>
           \/ \E op : /\ ops = <<op>> /\ Sound(op, split) /\ op[1] # "embedded"
                      /\ op[2].begin = Skipped(Head1[2]).begin /\ Hands(Head1, op)
    PROVE  Writing(text, ops)
<1>1. TextOK(text)
  BY MadeOK
<1>2. IsSeq(text) /\ Len(text) > 0 /\ text[1].c \notin White /\ Orderly(text, split)
  BY DEF Made
<1>3. CASE ops = <<>>
  <2>1. IsSeq(ops) /\ Len(ops) = 0
    BY <1>3, SeqShort
  <2> QED
    BY <1>1, <1>2, <2>1 DEF Writing, Joined
<1>4. ASSUME NEW op, ops = <<op>>, Sound(op, split), op[1] # "embedded",
             op[2].begin = Skipped(Head1[2]).begin, Hands(Head1, op)
      PROVE  Writing(text, ops)
  <2>1. IsSeq(ops) /\ Len(ops) = 1 /\ ops[1] = op
    BY <1>4, SeqShort
  <2>2. Joined(ops) /\ \A i \in 1 .. Len(ops) : i = 1
    BY <2>1 DEF Joined
  <2> QED
    BY <1>1, <1>2, <1>4, <2>1, <2>2 DEF Writing
<1> QED
  BY <1>3, <1>4

LEMMA WritesSteps ==
    ASSUME SInv, Writes
    PROVE  Stepped
<1>1. /\ Parsing /\ Head1[1] = "written" /\ Head1[1] \in Patchers /\ Head1[1] # "next"
      /\ Patch(Head1[2], Head1[3]) /\ Put(<<>>)
      /\ UNCHANGED <<source, current, split, status, lx>>
  BY DEF Writes, At, Patchers, input
<1>2. Head1[3] \in Literals
  BY <1>1, Here DEF Sound
<1>3. Made(Head1[3], split)
  BY <1>2, LiteralMade
<1>4. Writing(Head1[3], <<>>)
  BY <1>1, <1>3, WritingNow
<1> QED
  BY <1>4 DEF Stepped

LEMMA PointerSteps ==
    ASSUME SInv, Pointer
    PROVE  Stepped
<1>1. Parsing /\ Head1[1] \in {"operand", "pointer"}
  BY DEF Pointer, At
<1>2. CASE Head1[1] = "operand"
  BY <1>2, PointerPushes
<1>3. CASE Head1[1] = "pointer"
  <2> DEFINE text == <<Wrote("terra.types.pointer(")>> \o Copy(Output(Head1[3])) \o <<Wrote(")")>>
             op == <<"binary", Skipped(Head1[2]), Head1[4]>>
             s == Output(Head1[3])
  <2>1. /\ Patch(Head1[2], text) /\ Put(<<op>>) /\ UNCHANGED <<source, current, split, status, lx>>
    BY <1>3 DEF Pointer, At, input
  <2>2. /\ IInv /\ ShapeOK /\ BufOK /\ StackOK /\ Head1[1] \in Patchers
        /\ Head1[1] \in {"pointer", "combine", "binary"}
    BY <1>3 DEF SInv, Patchers
  <2>3. Head1[3].begin \in Int /\ Head1[2].begin <= Head1[3].begin
    BY <1>1, <1>3, Here DEF OpOK
  <2>4. IsSeq(s) /\ Orderly(s, split)
    BY <1>1, <2>2, <2>3, OrderlyOutput
  <2> HIDE DEF s
  <2>6. Opened(<<Wrote("terra.types.pointer(")>> \o Copy(s), split)
    BY <2>4, OpeningMade
  <2>7. Made(<<Wrote("terra.types.pointer(")>> \o Copy(s) \o <<Wrote(")")>>, split)
    BY <2>6, ClosingMade DEF Closing
  <2>8. Made(text, split)
    BY <2>7 DEF s
  <2>9. /\ Sound(op, split) /\ op[1] # "embedded" /\ op[2].begin = Skipped(Head1[2]).begin
        /\ Hands(Head1, op)
    BY <1>3 DEF Sound, Hands, Pops
  <2> HIDE DEF text, op
  <2>10. Writing(text, <<op>>)
    BY <1>1, <2>1, <2>2, <2>8, <2>9, WritingNow
  <2> QED
    BY <2>10 DEF Stepped
<1> QED
  BY <1>1, <1>2, <1>3
-----------------------------------------------------------------------------
LEMMA OperatorsSteps ==
    ASSUME SInv, Operators
    PROVE  Stepped
<1>1. Parsing /\ Head1[1] \in {"binary", "more", "right", "combine"} /\ Head1[1] # "next"
  BY DEF Operators, At
<1>2. Orderly(NoText, split)
  BY OrderlyWrote
<1>3. Head1[1] \in {"more", "right", "combine"} => Orderly(Head1[3], split)
  BY <1>1, Here DEF Sound
<1>4. CASE Head1[1] = "binary"
  <2> DEFINE text == IF t.token = "->" THEN Trimmed(Output(Head1[2])) ELSE NoText
             op == <<"more", Head1[2], text, Head1[3]>>
  <2>1. Becomes(<<op>>)
    BY <1>4 DEF Operators, At
  <2>2. Orderly(text, split)
    <3>1. Head1[2].begin \in Int /\ Head1[2].begin <= Head1[2].begin
      BY <1>1, <1>4, Here DEF OpOK, Marked, IsToken
    <3>2. IInv /\ ShapeOK /\ BufOK /\ StackOK /\ Head1[1] \in {"pointer", "combine", "binary"}
      BY <1>4 DEF SInv
    <3>3. IsSeq(Output(Head1[2])) /\ Orderly(Output(Head1[2]), split)
      BY <1>1, <3>1, <3>2, OrderlyOutput
    <3>4. Orderly(Trimmed(Output(Head1[2])), split)
      BY <3>3, OrderlyTrimmed
    <3> QED
      BY <1>2, <3>4
  <2> HIDE DEF text
  <2>3. OpFit(op) /\ Placed(op) /\ op[1] = "more"
    BY <1>1, <2>2, OperandGood
  <2> HIDE DEF op
  <2>4. Opens(op, op) /\ Hands(Head1, op)
    BY <1>4, <2>3 DEF Opens, Eats, Firsts, Passive, Hands, Pops
  <2>5. Fit(<<op>>)
    BY <1>4, <2>3, <2>4, FitOne
  <2> QED
    BY <1>1, <2>1, <2>5, Pushing DEF Stepped
<1>5. CASE Head1[1] = "more"
  <2> DEFINE op == <<"right", Head1[2], Head1[3], Right[t.token], Head1[4]>>
  <2>1. OpFit(op) /\ Placed(op) /\ op[1] = "right"
    BY <1>1, <1>3, <1>5, OperandGood
  <2>2. \/ t.token \in DOMAIN Left /\ Becomes(<<Tok, op>>)
        \/ Becomes(<<>>)
    BY <1>5 DEF Operators, At
  <2> HIDE DEF op
  <2>3. t.token \in DOMAIN Left => t.token # EOS
    BY DEF Left, EOS
  <2>4. t.token # EOS => Opens(Tok, op)
    BY <1>5 DEF Opens, Eats, Firsts, Passive, Tok
  <2>5. Follows(Tok, op) /\ Hands(Head1, op) /\ Good(2, op, Tok)
    BY <1>5, <2>1 DEF Follows, Firsts, Passive, Pops, Tok, Hands, Good
  <2>6. t.token # EOS => Fit(<<Tok, op>>)
    BY <1>5, <2>4, <2>5, PlainGood, FitTwo
  <2>7. Fit(<<>>)
    BY <1>5, FitNone DEF Pops, Eats
  <2> QED
    BY <1>1, <2>2, <2>3, <2>6, <2>7, Pushing DEF Stepped
<1>6. CASE Head1[1] = "right"
  <2> DEFINE op == <<"combine", Head1[2], Head1[3], t, Head1[5]>>
  <2>1. OpFit(op) /\ Placed(op) /\ op[1] = "combine"
    BY <1>1, <1>3, <1>6, OperandGood
  <2>2. Becomes(<<Sub(Head1[4]), op>>)
    BY <1>6 DEF Operators, At
  <2> HIDE DEF op
  <2>3. /\ Opens(Sub(Head1[4]), op) /\ Follows(Sub(Head1[4]), op) /\ Hands(Head1, op)
        /\ Good(2, op, Sub(Head1[4]))
    BY <1>6, <2>1 DEF Opens, Eats, Firsts, Passive, Sub, Follows, Pops, Hands, Good
  <2>4. Fit(<<Sub(Head1[4]), op>>)
    BY <1>6, <2>3, PlainGood, FitTwo
  <2> QED
    BY <1>1, <2>2, <2>4, Pushing DEF Stepped
<1>7. CASE Head1[1] = "combine" /\ Head1[3] = NoText
  <2> DEFINE op == <<"more", Head1[2], NoText, Head1[5]>>
  <2>1. OpFit(op) /\ Placed(op) /\ op[1] = "more"
    BY <1>1, <1>2, OperandGood
  <2>2. Becomes(<<op>>)
    BY <1>7 DEF Operators, At
  <2> HIDE DEF op
  <2>3. Opens(op, op) /\ Hands(Head1, op)
    BY <1>7, <2>1 DEF Opens, Eats, Firsts, Passive, Hands, Pops
  <2>4. Fit(<<op>>)
    BY <1>7, <2>1, <2>3, FitOne
  <2> QED
    BY <1>1, <2>2, <2>4, Pushing DEF Stepped
<1>8. CASE Head1[1] = "combine" /\ Head1[3] # NoText
  <2> DEFINE first == Head1[3]
             second == Output(Head1[4])
             text == <<Wrote("terra.types.funcpointer(")>> \o Copy(first)
                         \o <<Wrote(",")>> \o Copy(second) \o <<Wrote(")")>>
             op == <<"more", Skipped(Head1[2]), NoText, Head1[5]>>
  <2>1. /\ Patch(Head1[2], text) /\ Put(<<op>>) /\ UNCHANGED <<source, current, split, status, lx>>
    BY <1>8 DEF Operators, At, input
  <2>2. /\ IInv /\ ShapeOK /\ BufOK /\ StackOK /\ Head1[1] \in Patchers
        /\ Head1[1] \in {"pointer", "combine", "binary"}
    BY <1>8 DEF SInv, Patchers
  <2>3. /\ Head1[4].begin \in Int /\ Head1[2].begin <= Head1[4].begin
        /\ IsSeq(first) /\ Orderly(first, split)
    BY <1>1, <1>3, <1>8, Here DEF OpOK
  <2>4. IsSeq(second) /\ Orderly(second, split)
    BY <1>1, <2>2, <2>3, OrderlyOutput
  <2>9. /\ Sound(op, split) /\ op[1] # "embedded" /\ op[2].begin = Skipped(Head1[2]).begin
        /\ Hands(Head1, op)
    BY <1>2, <1>8 DEF Sound, Hands, Pops
  <2> HIDE DEF first, second, op
  <2>5. Opened(<<Wrote("terra.types.funcpointer(")>> \o Copy(first), split)
    BY <2>3, OpeningMade
  <2>6. Made(<<Wrote("terra.types.funcpointer(")>> \o Copy(first) \o <<Wrote(",")>>, split)
    BY <2>5, ClosingMade DEF Closing
  <2>7. Opened(<<Wrote("terra.types.funcpointer(")>> \o Copy(first) \o <<Wrote(",")>>
                   \o Copy(second), split)
    BY <2>4, <2>6, NextMade
  <2>8. Made(text, split)
    BY <2>7, ClosingMade DEF Closing
  <2> HIDE DEF text
  <2>10. Writing(text, <<op>>)
    BY <1>1, <2>1, <2>2, <2>8, <2>9, WritingNow
  <2> QED
    BY <2>10 DEF Stepped
<1> QED
  BY <1>1, <1>4, <1>5, <1>6, <1>7, <1>8

(* Every step of the parser is of one of the kinds.                        *)
LEMMA StepKinds ==
    ASSUME SInv, Next
    PROVE  Lexes \/ Nexts \/ Looks \/ Stepped
<1>1. Lexes \/ Parse
  BY DEF Next
<1>2. ASSUME Unexpected \/ Finish PROVE Stepped
  BY <1>2, EndSteps
<1> QED
  BY <1>1, <1>2, StatementSteps, LocalStatSteps, TerrastatsSteps, StructbodySteps, SubexprSteps,
     PointerSteps, OperatorsSteps, SimpleSteps, ConstructorSteps, SuffixSteps, ArgsSteps,
     EmbeddedSteps, LanguageSteps, WritesSteps DEF Parse

LEMMA SKeeps ==
    ASSUME SInv, [Next]_vars
    PROVE  SInv'
<1>1. IInv'
  BY Keeps DEF SInv
<1>2. CASE Next
  <2>1. ASSUME NEW text, NEW ops, Writing(text, ops)
        PROVE  SInv'
    BY <1>1, <2>1, WritingKeeps
  <2> QED
    BY <1>1, <1>2, <2>1, StepKinds, ReadingKeeps, PushedKeeps, StoppedKeeps, SplitsKeeps DEF Stepped
<1>3. CASE UNCHANGED vars
  <2>1. UNCHANGED <<source, current, out, linenumber, t, lookahead, lx, status, todo, split>>
    BY <1>3 DEF vars, input, lines, tokens
  <2>2. SeenOK' /\ BufOK'
    BY <2>1, SeenMoved, BufSame DEF SInv
  <2>3. GapsOK'
    BY <2>1 DEF SInv, GapsOK, ToT, AllGap
  <2>4. ShapeOK'
    <3>1. /\ Joined(todo) /\ \A p \in 1 .. Len(todo) : Sound(todo[p], split)
          /\ todo' = todo /\ split' = split
      BY <2>1 DEF SInv, ShapeOK
    <3>2. Joined(todo') /\ \A p \in 1 .. Len(todo') : Sound(todo'[p], split')
      BY <3>1
    <3> QED
      BY <3>2 DEF ShapeOK
  <2>5. StackOK'
    <3>1. StuckOK'
      BY <2>1 DEF SInv, StackOK, StuckOK, Stuck, Head1, ToT
    <3>2. BehindOK'
      BY <2>1 DEF SInv, StackOK, BehindOK
    <3>3. SepsOK' /\ DoneOK'
      BY <2>1 DEF SInv, StackOK, SepsOK, DoneOK
    <3> QED
      BY <3>1, <3>2, <3>3 DEF StackOK
  <2> QED
    BY <1>1, <2>2, <2>3, <2>4, <2>5 DEF SInv
<1> QED
  BY <1>2, <1>3
-----------------------------------------------------------------------------
LEMMA SBegins == Init => SInv
<1> SUFFICES ASSUME Init PROVE SInv
  OBVIOUS
<1>1. IInv
  BY Begins
<1>2. PICK b \in UNION {h[1] : h \in Chunks} :
         source = <<Head(b)>> /\ current = source[1] /\ out = <<[c |-> source[1], at |-> 1, copied |-> FALSE]>>
  BY DEF Init, LexInit
<1>3. /\ t = NoToken /\ lookahead = NoToken /\ lx = Idle /\ status = "parsing" /\ split = {}
      /\ todo = <<Tok, <<"stats">>>>
  BY DEF Init, LexInit
<1>4. /\ Len(out) = 1 /\ Len(source) = 1 /\ out[1] = [c |-> source[1], at |-> 1, copied |-> FALSE]
      /\ Len(todo) = 2 /\ todo[1] = Tok /\ todo[2] = <<"stats">>
  BY <1>2, <1>3, SeqShort
<1>5. t.token = EOS /\ t.begin = 0 /\ lookahead.token = EOS /\ ~ToT
  BY <1>3 DEF NoToken, ToT
<1>6. SeenOK
  BY <1>2, <1>3, <1>4, <1>5 DEF SeenOK
<1>7. \A p \in 1 .. 2 : p = 1 \/ p = 2
  OBVIOUS
<1>8. \A p \in 1 .. Len(todo) : todo[p][1] \in {"next", "stats"} /\ todo[p][1] \notin Marked
  <2>1. Tok[1] = "next" /\ <<"stats">>[1] = "stats"
    BY DEF Tok
  <2>2. "next" \notin Marked /\ "stats" \notin Marked
    BY DEF Marked
  <2> QED
    BY <1>4, <1>7, <2>1, <2>2
<1>9. ShapeOK
  <2>1. Follows(Tok, <<"stats">>)
    BY DEF Follows, Firsts, Passive, Pops, Tok
  <2>2. Joined(todo)
    <3> SUFFICES ASSUME NEW j \in 2 .. Len(todo)
                 PROVE  Follows(todo[j - 1], todo[j]) /\ ~(j > 2)
      BY DEF Joined
    <3>1. j = 2 /\ j - 1 = 1
      BY <1>4
    <3> QED
      BY <1>4, <2>1, <3>1
  <2>3. \A p \in 1 .. Len(todo) : Sound(todo[p], split)
    BY <1>8 DEF Sound
  <2> QED
    BY <2>2, <2>3 DEF ShapeOK
<1>10. GapsOK
  BY <1>8 DEF GapsOK, AllGap
<1>11. BufOK
  <2>1. out[1].at = 1 /\ out[1].at # 0 /\ ~out[1].copied /\ Proper(out[1]) /\ out[1] = Cell(source, 1)
    BY <1>4 DEF Proper, Cell
  <2>2. out[1] # Separator
    BY <2>1, WroteCells
  <2>3. \A i \in 1 .. Len(out) : i = 1
    BY <1>4
  <2>4. CellsOK /\ LastOK
    <3>1. \A i \in 1 .. Len(out) : Proper(out[i])
      BY <2>1, <2>3
    <3>2. Len(out) > 0 /\ out[Len(out)] = out[1]
      BY <1>4
    <3> QED
      BY <2>2, <3>1, <3>2, Zenon DEF CellsOK, LastOK
  <2>5. EarlyPlace
    BY <1>4, <2>1 DEF EarlyPlace, InPlace
  <2>6. OrderOK /\ SplitOK /\ ApartOK /\ StuckAt
    BY <1>3, <1>5 DEF OrderOK, SplitOK, ApartOK, StuckAt, Stuck
  <2> QED
    BY <2>4, <2>5, <2>6 DEF BufOK
<1>12. StackOK
  <2>1. StuckOK /\ DoneOK
    BY <1>3, <1>5 DEF StuckOK, DoneOK, Stuck
  <2>2. BehindOK
    BY <1>8 DEF BehindOK
  <2>3. SepsOK
    BY <1>4 DEF SepsOK
  <2> QED
    BY <2>1, <2>2, <2>3 DEF StackOK
<1> QED
  BY <1>1, <1>6, <1>9, <1>10, <1>11, <1>12 DEF SInv

LEMMA SepsStand == SInv => Separators
<1> SUFFICES ASSUME SInv PROVE Separators
  OBVIOUS
<1>1. IInv /\ BufOK /\ StackOK /\ IsSeq(out) /\ Len(out) \in Nat /\ DOMAIN out = 1 .. Len(out)
  BY SeqLength DEF SInv, IInv, BufferOK
<1>2. \A i \in DOMAIN out : out[i].at \in split /\ ~out[i].copied => i > 1 /\ out[i - 1].at = 0
  BY <1>1 DEF BufOK, ApartOK
<1>3. ASSUME status = "done", NEW i \in DOMAIN out \ {Len(out)}
      PROVE  FineAt(out, i, split)
  <2>1. todo = <<>> /\ Len(todo) = 0
    BY <1>1, <1>3, SeqShort DEF StackOK, DoneOK
  <2>2. i \in 1 .. Len(out) - 1
    BY <1>1
  <2>3. ~Excused(todo, 0, i)
    BY <2>1 DEF Excused
  <2> QED
    BY <1>1, <1>3, <2>2, <2>3 DEF StackOK, SepsOK
<1>4. ASSUME At("embedded"), NEW i \in DOMAIN Output(Head1[2]) \ {Len(Output(Head1[2]))}
      PROVE  FineAt(Output(Head1[2]), i, split)
  <2> DEFINE b == Head1[2].begin
             e == t.begin
             n == Len(out)
             text == Output(Head1[2])
  <2>1. /\ Parsing /\ Head1[1] = "embedded" /\ todo # <<>> /\ IsSeq(todo) /\ Len(todo) \in Nat
        /\ status = "parsing" /\ Head1[1] \in Marked
    BY <1>1, <1>4, SeqLength DEF At, Parsing, IInv, TodoOK, Marked
  <2>2. b \in Nat /\ e \in Nat /\ b <= e /\ e <= n /\ n \in Nat
    <3>1. Len(todo) > 0
      BY <2>1, SeqTail
    <3>2. 1 \in 1 .. Len(todo) /\ todo[1] = Head1
      BY <2>1, <3>1 DEF Head1
    <3>3. b \in 0 .. e /\ e \in 0 .. n
      BY <1>1, <2>1, <3>2, MarksThere
    <3> QED
      BY <1>1, <3>3
  <2>3. text = SubSeq(out, b + 1, e)
    BY DEF Output
  <2>4. IsSeq(text)
    BY <1>1, <2>2, <2>3, SeqPart
  <2>5. Len(text) \in Nat /\ DOMAIN text = 1 .. Len(text)
    BY <2>4, SeqLength
  <2>6. i \in Nat /\ i > 0 /\ i < Len(text)
    BY <1>4, <2>5
  <2>7. b + 1 \in Int /\ e \in Int /\ b + 1 >= 1 /\ e <= Len(out)
    BY <2>2
  <2>8. \A j \in 1 .. Len(text) : text[j] = out[j + (b + 1) - 1] /\ Len(text) = 1 + e - (b + 1)
    <3>1. IsSeq(out)
      BY <1>1
    <3> DEFINE m == b + 1
    <3>2. m \in Int /\ e \in Int /\ m >= 1 /\ e <= Len(out)
      BY <2>7
    <3> HIDE DEF m, e
    <3>3. \A j \in 1 .. Len(SubSeq(out, m, e)) :
             SubSeq(out, m, e)[j] = out[j + m - 1] /\ Len(SubSeq(out, m, e)) = 1 + e - m
      BY <3>1, <3>2, SeqPartOf
    <3> QED
      BY <2>3, <3>3 DEF m
  <2> HIDE DEF text, b, e, n
  <2>9. i \in 1 .. Len(text) /\ i + 1 \in 1 .. Len(text)
    BY <2>5, <2>6
  <2>10. /\ text[i] = out[i + (b + 1) - 1] /\ text[i + 1] = out[i + 1 + (b + 1) - 1]
         /\ Len(text) = 1 + e - (b + 1)
    BY <2>8, <2>9
  <2>11. /\ text[i] = out[b + i] /\ text[i + 1] = out[b + i + 1] /\ b + i < n
         /\ b + i \in Nat /\ b + i >= 1
    <3>1. i + (b + 1) - 1 = b + i /\ i + 1 + (b + 1) - 1 = b + i + 1
      BY <2>2, <2>6
    <3> QED
      BY <2>2, <2>6, <2>10, <3>1
  <2>12. b + i \in 1 .. n - 1
    BY <2>2, <2>11
  <2>13. ~Excused(todo, 0, b + i)
    <3> SUFFICES ASSUME NEW k \in 1 .. Len(todo), Lang(todo[k]),
                        \A j \in 1 .. k - 1 : todo[j][1] = "embedded" => b + i <= todo[j][2].begin
                 PROVE  FALSE
      BY DEF Excused
    <3>1. todo[1][1] = "embedded" /\ todo[1][2].begin = b
      BY <2>1 DEF Head1, b
    <3>2. CASE k = 1
      BY <3>1, <3>2 DEF Lang
    <3>3. CASE k # 1
      <4>1. 1 \in 1 .. k - 1
        BY <2>1, <3>3
      <4>2. b + i <= b
        BY <3>1, <4>1
      <4> QED
        BY <2>2, <2>6, <4>2
    <3> QED
      BY <3>2, <3>3
  <2>14. FineAt(out, b + i, split)
    BY <1>1, <2>1, <2>12, <2>13 DEF StackOK, SepsOK, n
  <2>15. FineAt(text, i, split)
    BY <2>11, <2>14 DEF FineAt
  <2> QED
    BY <2>15 DEF text
<1>5. \A text \in Loaded : \A i \in DOMAIN text \ {Len(text)} : FineAt(text, i, split)
  BY <1>3, <1>4 DEF Loaded
<1> QED
  BY <1>2, <1>5 DEF Separators, FineAt

(* Lua reads what the parser has read: a new statement that begins with    *)
(* what could be a call stands behind a separator, unless what it follows  *)
(* was replaced behind one, and what is loaded - the chunk, or embedded    *)
(* code - has separators nowhere else but where operands of & and -> end   *)
(* (luaX_insertbeforecurrenttoken in issplitprimary, luaX_patchend).       *)
THEOREM SeparatorsStand == Spec => []Separators
<1>1. Init => SInv
  BY SBegins
<1>2. SInv /\ [Next]_vars => SInv'
  BY SKeeps
<1> QED
  BY <1>1, <1>2, SepsStand, PTL DEF Spec

(* When a construct is replaced there is text to replace: luaX_patchbegin, *)
(* which skips white space up to it, stops in front of the current token   *)
(* and does not run into what has not been parsed yet.                     *)
TextToReplace == Parsing /\ Head1[1] \in Patchers => Skipped(Head1[2]).begin < t.begin
THEOREM PatchStops == Spec => []TextToReplace
<1>1. Init => SInv
  BY SBegins
<1>2. SInv /\ [Next]_vars => SInv'
  BY SKeeps
<1>3. SInv => TextToReplace
  BY BeforeToken DEF SInv, TextToReplace
<1> QED
  BY <1>1, <1>2, <1>3, PTL DEF Spec
=============================================================================
