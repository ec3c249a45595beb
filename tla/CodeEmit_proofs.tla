--------------------------- MODULE CodeEmit_proofs ---------------------------
(***************************************************************************)
(* Proofs about CodeEmit, for every set of functions and globals and every *)
(* program: its invariants, and that it implements SccOrder.               *)
(***************************************************************************)
EXTENDS CodeEmit, WellFoundedInduction, TLAPS

(* What the C++ call stack looks like after a call and after a return.     *)
LEMMA PushFacts ==
    ASSUME NEW S, NEW s \in Seq(S), NEW v \in S
    PROVE  /\ Append(s, v) \in Seq(S)
           /\ Len(Append(s, v)) = Len(s) + 1
           /\ DOMAIN Append(s, v) = 1 .. (Len(s) + 1)
           /\ \A i \in 1 .. Len(s) : Append(s, v)[i] = s[i]
           /\ Append(s, v)[Len(s) + 1] = v
  OBVIOUS

LEMMA PrefixFacts ==
    ASSUME NEW S, NEW s \in Seq(S), NEW n \in 0 .. Len(s)
    PROVE  /\ SubSeq(s, 1, n) \in Seq(S)
           /\ Len(SubSeq(s, 1, n)) = n
           /\ DOMAIN SubSeq(s, 1, n) = 1 .. n
           /\ \A i \in 1 .. n : SubSeq(s, 1, n)[i] = s[i]
  OBVIOUS

LEMMA TopFacts ==
    ASSUME TypeOK, Busy
    PROVE  /\ Len(stack) \in Nat \ {0}
           /\ DOMAIN stack = 1 .. Len(stack)
           /\ Top \in Value
           /\ Len(stack) > 1 => Caller \in Value
  BY DEF TypeOK, Busy, Top, Caller

LEMMA PopFacts ==
    ASSUME TypeOK, Busy
    PROVE  /\ Pop(stack) \in Seq(Value)
           /\ Len(Pop(stack)) = Len(stack) - 1
           /\ DOMAIN Pop(stack) = 1 .. (Len(stack) - 1)
           /\ \A i \in 1 .. (Len(stack) - 1) : Pop(stack)[i] = stack[i]
  <1>1. stack \in Seq(Value) /\ Len(stack) - 1 \in 0 .. Len(stack)
    BY TopFacts DEF TypeOK
  <1>2. QED
    BY <1>1, PrefixFacts DEF Pop

-----------------------------------------------------------------------------
(* The SCC of the function of the last frame is the end of the queue.      *)
LEMMA UnqueueFacts ==
    ASSUME TypeOK, Queued, Optimize, Busy, Top \in Fn
    PROVE  /\ Position(Top) \in DOMAIN tooptimize
           /\ tooptimize[Position(Top)] = Top
           /\ Unqueue(Top) \in Seq(Fn)
           /\ DOMAIN Unqueue(Top) = 1 .. (Position(Top) - 1)
           /\ \A p \in 1 .. (Position(Top) - 1) : Unqueue(Top)[p] = tooptimize[p]
           /\ Scc(Top) \subseteq Fn
  <1>1. \E p \in DOMAIN tooptimize : tooptimize[p] = Top
    BY TopFacts DEF Queued, Top
  <1>2. Position(Top) \in DOMAIN tooptimize /\ tooptimize[Position(Top)] = Top
    BY <1>1 DEF Position
  <1>3. tooptimize \in Seq(Fn) /\ Position(Top) - 1 \in 0 .. Len(tooptimize)
    BY <1>2 DEF TypeOK
  <1>4. Scc(Top) \subseteq Fn
    BY <1>2, <1>3 DEF Scc
  <1>5. QED
    BY <1>2, <1>3, <1>4, PrefixFacts DEF Unqueue

-----------------------------------------------------------------------------
(* Every variable keeps its type.                                          *)
LEMMA LowerType ==
    ASSUME TypeOK, NEW u \in Value, NEW v \in Value
    PROVE  Lower(u, v) \in [Fn -> Nat]
  BY DEF TypeOK, Lower

LEMMA EmitType ==
    ASSUME TypeOK, NEW v \in Value, NEW q \in Seq(Fn), Emit(v, q)
    PROVE  /\ symbols' \in SUBSET Value
           /\ stack' \in Seq(Value)
           /\ emitted' \in SUBSET Fn
           /\ index' \in [Fn -> Nat] /\ lowlink' \in [Fn -> Nat]
           /\ onstack' \in SUBSET Fn
           /\ functioncount' \in Nat
           /\ tooptimize' \in Seq(Fn)
           /\ created' \in [Gv -> Nat]
  <1>1. CASE EmitExtern(v, q)
    BY <1>1 DEF EmitExtern, TypeOK
  <1>2. CASE EmitFunction(v, q)
    <2> USE <1>2 DEF EmitFunction, TypeOK
    <2>1. v \in Fn /\ v \in Value
      BY DEF Value
    <2>2. stack' \in Seq(Value) /\ Append(q, v) \in Seq(Fn)
      BY <2>1
    <2>3. CASE Optimize
      <3>1. /\ index' = [index EXCEPT ![v] = functioncount]
            /\ lowlink' = [lowlink EXCEPT ![v] = functioncount]
            /\ functioncount' = functioncount + 1
            /\ onstack' = onstack \cup {v}
            /\ tooptimize' = Append(q, v)
        BY <2>3 DEF Enqueue, FirstLowlink
      <3>2. QED
        BY <2>1, <2>2, <3>1
    <2>4. CASE ~Optimize
      BY <2>1, <2>2, <2>4 DEF Enqueue, FirstLowlink
    <2>5. QED
      BY <2>3, <2>4
  <1>3. CASE EmitGlobal(v, q)
    BY <1>3 DEF EmitGlobal, symtab, TypeOK
  <1>4. QED
    BY <1>1, <1>2, <1>3 DEF Emit

LEMMA TypeStep ==
    ASSUME TypeOK, Queued, [Next]_vars
    PROVE  TypeOK'
  <1>1. CASE UNCHANGED vars
    BY <1>1 DEF TypeOK, vars, symtab, tarjan
  <1>2. ASSUME NEW v \in Value, AddValue(v) PROVE TypeOK'
    <2>1. refs' = refs /\ optimized' = optimized /\ << >> \in Seq(Fn)
      BY <1>2 DEF AddValue
    <2>2. CASE Emit(v, << >>) /\ seen' = Fresh(seen, v)
      <3>1. seen' \in [Value -> SUBSET Value]
        BY <2>2 DEF Fresh, TypeOK
      <3>2. QED
        BY <2>1, <2>2, <3>1, EmitType DEF TypeOK
    <2>3. CASE v \in symbols /\ tooptimize' = << >>
               /\ UNCHANGED <<stack, seen, symtab, index, lowlink, onstack,
                              functioncount>>
      BY <2>1, <2>3 DEF symtab, TypeOK
    <2>4. QED
      BY <1>2, <2>2, <2>3 DEF AddValue
  <1>3. ASSUME NEW v \in Value, Revisit(v) PROVE TypeOK'
    BY <1>3, TopFacts, LowerType DEF Revisit, symtab, TypeOK
  <1>4. ASSUME NEW v \in Value, Descend(v) PROVE TypeOK'
    <2>1. tooptimize \in Seq(Fn)
      BY DEF TypeOK
    <2>2. seen' \in [Value -> SUBSET Value]
      BY <1>4, TopFacts DEF Descend, Fresh, TypeOK
    <2>3. QED
      BY <1>4, <2>1, <2>2, EmitType DEF Descend, TypeOK
  <1>5. ASSUME NEW v \in Value, FinishScc(v) PROVE TypeOK'
    <2>1. Busy /\ v = Top /\ v \in Fn /\ Optimize
      BY <1>5 DEF FinishScc, BodyDone
    <2>2. /\ Unqueue(v) \in Seq(Fn)
          /\ Scc(v) \subseteq Fn
      BY <2>1, UnqueueFacts
    <2>3. QED
      BY <1>5, <2>2, PopFacts DEF FinishScc, BodyDone, TypeOK
  <1>6. ASSUME NEW v \in Value, FinishMember(v) PROVE TypeOK'
    BY <1>6, PopFacts, TopFacts, LowerType DEF FinishMember, BodyDone, TypeOK
  <1>7. ASSUME NEW v \in Value, FinishGlobal(v) PROVE TypeOK'
    BY <1>7, PopFacts, SMTT(30) DEF FinishGlobal, BodyDone, tarjan, TypeOK, Value
  <1>8. QED
    BY <1>1, <1>2, <1>3, <1>4, <1>5, <1>6, <1>7 DEF Next, Step

-----------------------------------------------------------------------------
(* Emission of a value appends it to the frames and to the queue.          *)
LEMMA EmitQueued ==
    ASSUME TypeOK, Queued, NEW v \in Value, Emit(v, tooptimize)
    PROVE  Queued'
  <1> USE ValueAssumption
  <1>1. CASE EmitExtern(v, tooptimize)
    BY <1>1 DEF EmitExtern, Queued
  <1>2. CASE EmitFunction(v, tooptimize) /\ Optimize
    <2>1. v \in Fn /\ v \notin symbols
      BY <1>2 DEF EmitFunction, Emit
    <2>2. stack \in Seq(Value) /\ tooptimize \in Seq(Fn)
      BY DEF TypeOK
    <2>3. /\ DOMAIN stack' = 1 .. (Len(stack) + 1)
          /\ DOMAIN stack = 1 .. Len(stack) /\ Len(stack) \in Nat
          /\ \A i \in DOMAIN stack : stack'[i] = stack[i]
          /\ stack'[Len(stack) + 1] = v
      BY <1>2, <2>2, PushFacts DEF EmitFunction
    <2>4. tooptimize' = Append(tooptimize, v)
      BY <1>2 DEF EmitFunction, Enqueue
    <2>5. /\ DOMAIN tooptimize' = 1 .. (Len(tooptimize) + 1)
          /\ DOMAIN tooptimize = 1 .. Len(tooptimize) /\ Len(tooptimize) \in Nat
          /\ \A p \in DOMAIN tooptimize : tooptimize'[p] = tooptimize[p]
          /\ tooptimize'[Len(tooptimize) + 1] = v
      BY <2>1, <2>2, <2>4, PushFacts
    <2>6. symbols' = symbols \cup {v}
      BY <1>2 DEF EmitFunction
    <2>7. \A p \in DOMAIN tooptimize : tooptimize[p] \in symbols /\ tooptimize[p] # v
      BY <1>2, <2>1 DEF Queued
    <2>8. \A i \in DOMAIN stack : stack[i] \in Fn => stack[i] # v
      BY <1>2, <2>7 DEF Queued
    <2>9. \A p, q \in DOMAIN tooptimize' : tooptimize'[p] = tooptimize'[q] => p = q
      BY <1>2, <2>5, <2>7 DEF Queued
    <2>10. \A p \in DOMAIN tooptimize' : tooptimize'[p] \in symbols'
      BY <2>5, <2>6, <2>7
    <2>11. \A i \in DOMAIN stack' : stack'[i] \in Fn =>
                \E p \in DOMAIN tooptimize' : tooptimize'[p] = stack'[i]
      <3> TAKE i \in DOMAIN stack'
      <3>1. CASE i \in DOMAIN stack
        BY <1>2, <2>3, <2>5, <3>1 DEF Queued
      <3>2. CASE i = Len(stack) + 1
        BY <2>3, <2>5, <3>2
      <3>3. QED
        BY <2>3, <3>1, <3>2
    <2>12. \A i, j \in DOMAIN stack' : \A p, q \in DOMAIN tooptimize' :
                i < j /\ tooptimize'[p] = stack'[i] /\ tooptimize'[q] = stack'[j]
                    => p < q
      <3> SUFFICES ASSUME NEW i \in DOMAIN stack', NEW j \in DOMAIN stack',
                          NEW p \in DOMAIN tooptimize', NEW q \in DOMAIN tooptimize',
                          i < j, tooptimize'[p] = stack'[i], tooptimize'[q] = stack'[j]
                   PROVE  p < q
        OBVIOUS
      <3>1. i \in DOMAIN stack /\ stack'[i] = stack[i]
        BY <2>3
      <3>2. tooptimize'[p] \in Fn
        BY <2>1, <2>2, <2>5
      <3>3. p \in DOMAIN tooptimize /\ tooptimize[p] = stack[i]
        BY <2>5, <2>8, <3>1, <3>2
      <3>4. CASE j = Len(stack) + 1
        BY <2>3, <2>5, <2>7, <3>3, <3>4
      <3>5. CASE j \in DOMAIN stack
        <4>1. tooptimize'[q] \in Fn /\ stack'[j] = stack[j]
          BY <2>1, <2>2, <2>3, <2>5, <3>5
        <4>2. q \in DOMAIN tooptimize /\ tooptimize[q] = stack[j]
          BY <2>5, <2>8, <3>5, <4>1
        <4>3. QED
          BY <1>2, <3>1, <3>3, <3>5, <4>2 DEF Queued
      <3>6. QED
        BY <2>3, <3>4, <3>5
    <2>13. QED
      BY <2>9, <2>10, <2>11, <2>12 DEF Queued
  <1>3. CASE EmitGlobal(v, tooptimize)
    <2>1. v \notin Fn
      BY <1>3 DEF EmitGlobal
    <2>2. stack \in Seq(Value) /\ tooptimize \in Seq(Fn)
      BY DEF TypeOK
    <2>3. /\ DOMAIN stack' = 1 .. (Len(stack) + 1)
          /\ DOMAIN stack = 1 .. Len(stack) /\ Len(stack) \in Nat
          /\ \A i \in DOMAIN stack : stack'[i] = stack[i]
          /\ stack'[Len(stack) + 1] = v
      BY <1>3, <2>2, PushFacts DEF EmitGlobal
    <2>4. symbols' = symbols /\ tooptimize' = tooptimize
      BY <1>3 DEF EmitGlobal, symtab
    <2>5. \A p \in DOMAIN tooptimize : tooptimize[p] # v
      BY <2>1, <2>2
    <2>6. QED
      BY <2>1, <2>3, <2>4, <2>5 DEF Queued
  <1>4. CASE EmitFunction(v, tooptimize) /\ ~Optimize
    BY <1>4 DEF Queued
  <1>5. QED
    BY <1>1, <1>2, <1>3, <1>4 DEF Emit

(* A return takes a frame away and leaves the queue below its function.    *)
LEMMA PopQueued ==
    ASSUME TypeOK, Queued, Busy, stack' = Pop(stack), symbols \subseteq symbols',
           \/ tooptimize' = tooptimize
           \/ Top \in Fn /\ tooptimize' = Unqueue(Top)
    PROVE  Queued'
  <1> SUFFICES ASSUME Optimize PROVE Queued'
    BY DEF Queued
  <1>1. /\ DOMAIN stack' = 1 .. (Len(stack) - 1)
        /\ DOMAIN stack = 1 .. Len(stack) /\ Len(stack) \in Nat \ {0}
        /\ \A i \in DOMAIN stack' : i \in DOMAIN stack /\ stack'[i] = stack[i]
    BY TopFacts, PopFacts
  <1>2. CASE tooptimize' = tooptimize
    BY <1>1, <1>2 DEF Queued
  <1>3. CASE Top \in Fn /\ tooptimize' = Unqueue(Top)
    <2> DEFINE n == Position(Top)
    <2>1. DOMAIN tooptimize = 1 .. Len(tooptimize) /\ Len(tooptimize) \in Nat
      BY DEF TypeOK
    <2>2. n \in DOMAIN tooptimize /\ tooptimize[n] = Top /\ Top = stack[Len(stack)]
      BY <1>3, UnqueueFacts DEF Top
    <2>3. /\ DOMAIN tooptimize' = 1 .. (n - 1)
          /\ \A p \in DOMAIN tooptimize' :
                p \in DOMAIN tooptimize /\ tooptimize'[p] = tooptimize[p]
      BY <1>3, <2>1, <2>2, UnqueueFacts
    <2>4. \A i \in DOMAIN stack' : \A p \in DOMAIN tooptimize :
                tooptimize[p] = stack[i] => p < n
      BY <1>1, <2>2 DEF Queued
    <2> HIDE DEF n
    <2>5. \A i \in DOMAIN stack' : stack'[i] \in Fn =>
                \E p \in DOMAIN tooptimize' : tooptimize'[p] = stack'[i]
      <3> SUFFICES ASSUME NEW i \in DOMAIN stack', stack'[i] \in Fn
                   PROVE  \E p \in DOMAIN tooptimize' : tooptimize'[p] = stack'[i]
        OBVIOUS
      <3>1. PICK p \in DOMAIN tooptimize : tooptimize[p] = stack[i]
        BY <1>1 DEF Queued
      <3>2. p \in DOMAIN tooptimize'
        BY <2>1, <2>2, <2>3, <2>4, <3>1
      <3>3. QED
        BY <1>1, <2>3, <3>1, <3>2
    <2>6. QED
      BY <1>1, <2>3, <2>5 DEF Queued
  <1>4. QED
    BY <1>2, <1>3

LEMMA QueuedStep ==
    ASSUME TypeOK, Queued, [Next]_vars
    PROVE  Queued'
  <1>1. CASE UNCHANGED vars
    BY <1>1 DEF Queued, vars, symtab, tarjan
  <1>2. ASSUME NEW v \in Value, AddValue(v) PROVE Queued'
    <2>1. stack = << >> /\ DOMAIN stack = {}
      BY <1>2 DEF AddValue, Busy
    <2>2. CASE tooptimize' = << >> /\ stack' = stack
      BY <2>1, <2>2 DEF Queued
    <2>3. CASE Emit(v, << >>)
      <3>1. CASE EmitExtern(v, << >>)
        BY <2>1, <3>1 DEF EmitExtern, Queued
      <3>2. CASE EmitGlobal(v, << >>)
        <4>1. stack' = <<v>> /\ tooptimize' = << >> /\ v \notin Fn
          BY <2>1, <3>2, ValueAssumption DEF EmitGlobal
        <4>2. QED
          BY <4>1 DEF Queued
      <3>3. CASE EmitFunction(v, << >>)
        <4>1. stack' = <<v>> /\ v \in symbols'
          BY <2>1, <3>3 DEF EmitFunction
        <4>2. Optimize => tooptimize' = <<v>>
          BY <3>3 DEF EmitFunction, Enqueue
        <4>3. QED
          BY <4>1, <4>2 DEF Queued
      <3>4. QED
        BY <2>3, <3>1, <3>2, <3>3 DEF Emit
    <2>4. QED
      BY <1>2, <2>2, <2>3 DEF AddValue
  <1>3. ASSUME NEW v \in Value, Revisit(v) PROVE Queued'
    BY <1>3 DEF Revisit, Queued, symtab
  <1>4. ASSUME NEW v \in Value, Descend(v) PROVE Queued'
    BY <1>4, EmitQueued DEF Descend
  <1>5. ASSUME NEW v \in Value, FinishScc(v) PROVE Queued'
    BY <1>5, PopQueued DEF FinishScc, BodyDone
  <1>6. ASSUME NEW v \in Value, FinishMember(v) PROVE Queued'
    BY <1>6, PopQueued DEF FinishMember, BodyDone
  <1>7. ASSUME NEW v \in Value, FinishGlobal(v) PROVE Queued'
    BY <1>7, PopQueued DEF FinishGlobal, BodyDone, tarjan
  <1>8. QED
    BY <1>1, <1>2, <1>3, <1>4, <1>5, <1>6, <1>7 DEF Next, Step

-----------------------------------------------------------------------------
(* The frames after a call and after a return.                             *)
LEMMA Pushed ==
    ASSUME TypeOK, NEW v \in Value, stack' = Append(stack, v)
    PROVE  /\ Len(stack) \in Nat
           /\ DOMAIN stack = 1 .. Len(stack)
           /\ DOMAIN stack' = 1 .. (Len(stack) + 1)
           /\ \A i \in 1 .. Len(stack) : stack'[i] = stack[i]
           /\ stack'[Len(stack) + 1] = v
           /\ \A w : OnFrame(w)' <=> OnFrame(w) \/ w = v
  <1>1. stack \in Seq(Value)
    BY DEF TypeOK
  <1>2. /\ Len(stack) \in Nat
        /\ DOMAIN stack = 1 .. Len(stack)
        /\ DOMAIN stack' = 1 .. (Len(stack) + 1)
        /\ \A i \in 1 .. Len(stack) : stack'[i] = stack[i]
        /\ stack'[Len(stack) + 1] = v
    BY <1>1, PushFacts
  <1>3. QED
    BY <1>2 DEF OnFrame

LEMMA Popped ==
    ASSUME TypeOK, Busy, stack' = Pop(stack)
    PROVE  /\ Len(stack) \in Nat \ {0}
           /\ DOMAIN stack = 1 .. Len(stack)
           /\ Len(stack') = Len(stack) - 1
           /\ DOMAIN stack' = 1 .. (Len(stack) - 1)
           /\ \A i \in 1 .. (Len(stack) - 1) : stack'[i] = stack[i]
           /\ \A w : OnFrame(w) <=> OnFrame(w)' \/ w = Top
  <1>1. /\ Len(stack) \in Nat \ {0}
        /\ DOMAIN stack = 1 .. Len(stack)
        /\ Len(stack') = Len(stack) - 1
        /\ DOMAIN stack' = 1 .. (Len(stack) - 1)
        /\ \A i \in 1 .. (Len(stack) - 1) : stack'[i] = stack[i]
    BY TopFacts, PopFacts
  <1>2. QED
    BY <1>1, SMTT(30) DEF OnFrame, Top

LEMMA TopOnFrame ==
    ASSUME TypeOK, Busy
    PROVE  OnFrame(Top)
  BY TopFacts DEF OnFrame, Top

(* The references met, after the emission of v has begun.                  *)
SeenAfter(v) ==
    \/ ~Busy /\ seen' = Fresh(seen, v)
    \/ /\ Busy
       /\ v \in refs[Top]
       /\ seen' = Fresh([seen EXCEPT ![Top] = @ \cup {v}], v)

LEMMA SeenFacts ==
    ASSUME TypeOK, NEW v \in Value, SeenAfter(v)
    PROVE  /\ seen'[v] = {}
           /\ \A u \in Value : u # v =>
                \/ seen'[u] = seen[u]
                \/ Busy /\ u = Top /\ seen'[u] = seen[u] \cup {v}
  BY TopFacts DEF SeenAfter, Fresh, TypeOK

LEMMA SeenBody ==
    ASSUME TypeOK, NEW v \in Value, v \notin Body, SeenAfter(v),
           NEW u \in Value
    PROVE  seen'[u] \cap Body \subseteq seen[u]
  <1>1. CASE u = v
    BY <1>1, SeenFacts
  <1>2. CASE u # v
    <2>1. seen'[u] = seen[u] \/ seen'[u] = seen[u] \cup {v}
      BY <1>2, SeenFacts
    <2>2. QED
      BY <2>1
  <1>3. QED
    BY <1>1, <1>2

-----------------------------------------------------------------------------
(* Frames: every action keeps the book of what is emitted.                 *)
LEMMA EmitFrames ==
    ASSUME TypeOK, Program, Frames, NEW v \in Value, NEW q, Emit(v, q),
           SeenAfter(v), refs' = refs
    PROVE  Frames'
  <1> USE ValueAssumption
  <1>1. v \notin symbols
    BY DEF Emit
  <1>2. /\ seen'[v] = {}
        /\ \A f \in emitted : f # v => seen'[f] = seen[f]
        /\ \A g \in Gv \cap symbols : seen'[g] = seen[g]
    <2>1. \A f \in emitted : Busy => f # Top
      BY TopOnFrame DEF Frames
    <2>2. ASSUME Busy, NEW g \in Gv \cap symbols, g = Top
          PROVE  seen[g] \cup {v} = seen[g]
      BY <2>2 DEF SeenAfter, Frames
    <2>3. ASSUME NEW f \in emitted, f # v
          PROVE  seen'[f] = seen[f]
      <3>1. f \in Value
        BY DEF TypeOK, Value
      <3>2. QED
        BY <2>1, <2>3, <3>1, SeenFacts
    <2>4. ASSUME NEW g \in Gv \cap symbols
          PROVE  seen'[g] = seen[g]
      <3>1. g \in Value /\ g # v
        BY <1>1 DEF Value
      <3>2. QED
        BY <2>2, <3>1, SeenFacts
    <2>5. QED
      BY <2>3, <2>4, SeenFacts
  <1>3. \A u, w \in Value : w \in seen'[u] => w \in seen[u] \/ w = v
    BY SeenFacts
  <1>4. CASE EmitExtern(v, q)
    <2>1. /\ v \in Extern /\ v \notin Gv /\ v \notin Body
          /\ symbols' = symbols \cup {v}
          /\ stack' = stack /\ emitted' = emitted
      BY <1>4 DEF EmitExtern, Body
    <2>2. \A w : OnFrame(w)' <=> OnFrame(w)
      BY <2>1 DEF OnFrame
    <2>3. QED
      BY <1>2, <1>3, <2>1, <2>2 DEF Frames
  <1>5. CASE EmitFunction(v, q)
    <2>1. /\ v \in Body /\ v \notin Gv
          /\ symbols' = symbols \cup {v}
          /\ stack' = Append(stack, v) /\ emitted' = emitted
      BY <1>5 DEF EmitFunction, Body
    <2>2. v \notin emitted /\ ~OnFrame(v)
      BY <1>1, <2>1 DEF Frames
    <2>3. (\A i, j \in DOMAIN stack :
            stack[i] = stack[j] /\ stack[i] \in Fn => i = j)'
      BY <2>1, <2>2, Pushed DEF Frames, OnFrame
    <2>4. QED
      BY <1>2, <1>3, <2>1, <2>2, <2>3, Pushed DEF Frames
  <1>6. CASE EmitGlobal(v, q)
    <2>1. /\ v \in Gv /\ v \notin Fn /\ v \notin Body
          /\ symbols' = symbols
          /\ stack' = Append(stack, v) /\ emitted' = emitted
      BY <1>6 DEF EmitGlobal, symtab, Body
    <2>2. (\A i, j \in DOMAIN stack :
            stack[i] = stack[j] /\ stack[i] \in Fn => i = j)'
      BY <2>1, Pushed DEF Frames
    <2>3. QED
      BY <1>1, <1>2, <1>3, <2>1, <2>2, Pushed DEF Frames
  <1>7. QED
    BY <1>4, <1>5, <1>6 DEF Emit

LEMMA RevisitFrames ==
    ASSUME TypeOK, Frames, NEW v \in Value, Revisit(v)
    PROVE  Frames'
  <1>1. /\ Busy /\ v \in refs[Top] /\ v \in symbols
        /\ seen' = [seen EXCEPT ![Top] = @ \cup {v}]
        /\ symbols' = symbols /\ emitted' = emitted /\ stack' = stack
        /\ refs' = refs
    BY DEF Revisit, symtab
  <1>2. \A w : OnFrame(w)' <=> OnFrame(w)
    BY <1>1 DEF OnFrame
  <1>3. \A f \in emitted : f # Top
    BY <1>1, TopOnFrame DEF Frames
  <1>4. \A g \in Gv \cap symbols : seen'[g] = seen[g]
    <2>1. ASSUME NEW g \in Gv \cap symbols, g = Top
          PROVE  seen[g] \cup {v} = seen[g]
      BY <1>1, <2>1 DEF Frames
    <2>2. QED
      BY <1>1, <2>1 DEF TypeOK, Value
  <1>5. QED
    BY <1>1, <1>2, <1>3, <1>4, TopFacts DEF Frames, TypeOK, Value

LEMMA FinishFunctionFrames ==
    ASSUME TypeOK, Program, Frames, NEW f \in Fn, BodyDone(f),
           stack' = Pop(stack), emitted' = emitted \cup {f},
           seen' = seen, symbols' = symbols, refs' = refs
    PROVE  Frames'
  <1>1. Busy /\ f = Top /\ seen[f] = refs[f]
    BY DEF BodyDone
  <1>2. f \in Body
    BY <1>1, TopFacts DEF Program, Body, Top
  <1>3. \A i, j \in DOMAIN stack' :
            stack'[i] = stack'[j] /\ stack'[i] \in Fn => i = j
    BY <1>1, Popped DEF Frames
  <1>4. ~OnFrame(f)'
    BY <1>1, <1>2, Popped DEF Frames, OnFrame, Top
  <1>5. f \in symbols
    BY <1>1, <1>2, TopOnFrame DEF Frames
  <1>6. QED
    BY <1>1, <1>2, <1>3, <1>4, <1>5, Popped DEF Frames

LEMMA FinishGlobalFrames ==
    ASSUME TypeOK, Program, Frames, NEW g \in Value, FinishGlobal(g)
    PROVE  Frames'
  <1> USE ValueAssumption
  <1>1. /\ Busy /\ g = Top /\ seen[g] = refs[g] /\ g \in Gv /\ g \notin Body
        /\ symbols' = symbols \cup {g}
        /\ stack' = Pop(stack) /\ emitted' = emitted /\ seen' = seen
        /\ refs' = refs
    BY DEF FinishGlobal, BodyDone, Body
  <1>2. \A i, j \in DOMAIN stack' :
            stack'[i] = stack'[j] /\ stack'[i] \in Fn => i = j
    BY <1>1, Popped DEF Frames
  <1>3. QED
    BY <1>1, <1>2, Popped DEF Frames

-----------------------------------------------------------------------------
(* Program: the graph is fixed, and external functions get no frame.       *)
LEMMA ProgramStep ==
    ASSUME TypeOK, Program, [Next]_vars
    PROVE  Program'
  <1>1. refs' = refs
    BY DEF Next, Step, AddValue, Revisit, Descend, FinishScc, FinishMember,
           FinishGlobal, vars
  <1>2. \/ stack' = stack
        \/ \E v \in Value \ Extern : stack' = Append(stack, v)
        \/ Busy /\ stack' = Pop(stack)
    <2>1. ASSUME NEW v \in Value, NEW q, Emit(v, q)
          PROVE  \/ stack' = stack
                 \/ v \notin Extern /\ stack' = Append(stack, v)
      BY <2>1, ValueAssumption DEF Emit, EmitExtern, EmitFunction, EmitGlobal
    <2>2. QED
      BY <2>1 DEF Next, Step, AddValue, Revisit, Descend, FinishScc,
                  FinishMember, FinishGlobal, BodyDone, vars
  <1>3. \A i \in DOMAIN stack' : stack'[i] \notin Extern
    <2>1. CASE stack' = stack
      BY <2>1 DEF Program
    <2>2. CASE \E v \in Value \ Extern : stack' = Append(stack, v)
      BY <2>2, Pushed DEF Program
    <2>3. CASE Busy /\ stack' = Pop(stack)
      BY <2>3, Popped DEF Program
    <2>4. QED
      BY <1>2, <2>1, <2>2, <2>3
  <1>4. QED
    BY <1>1, <1>3 DEF Program

-----------------------------------------------------------------------------
(* The Tarjan part of the invariant.                                       *)
Tarjan == Queue /\ Calls /\ Lowlinks /\ Closure

(* The emitter is idle only when nothing is queued.                        *)
LEMMA IdleQueue ==
    ASSUME TypeOK, Queue, Lowlinks, ~Busy
    PROVE  onstack = {} /\ tooptimize = << >>
  <1>1. onstack = {}
    BY DEF Lowlinks
  <1>2. \A i \in DOMAIN tooptimize : tooptimize[i] \in onstack
    BY DEF Queue
  <1>3. tooptimize \in Seq(Fn) /\ \A i \in DOMAIN tooptimize : FALSE
    BY <1>1, <1>2 DEF TypeOK
  <1>4. QED
    BY <1>1, <1>3

LEMMA EmitExternTarjan ==
    ASSUME TypeOK, Program, Frames, Tarjan, NEW v \in Value,
           EmitExtern(v, tooptimize), SeenAfter(v), refs' = refs,
           optimized' = optimized
    PROVE  Tarjan'
  <1> USE ValueAssumption DEF Tarjan
  <1>1. /\ v \notin Body /\ symbols' = symbols \cup {v}
        /\ UNCHANGED <<stack, emitted, index, lowlink, onstack,
                       functioncount, tooptimize>>
    BY DEF EmitExtern, Body
  <1>2. Queue'
    BY <1>1 DEF Queue
  <1>3. Calls'
    BY <1>1 DEF Calls
  <1>4. Lowlinks'
    BY <1>1 DEF Lowlinks, Below, Busy
  <1>5. \A f \in onstack : seen'[f] \cap Body \subseteq seen[f]
    BY <1>1, SeenBody DEF TypeOK, Value
  <1>6. Closure'
    BY <1>1, <1>5 DEF Closure, Callees
  <1>7. QED
    BY <1>2, <1>3, <1>4, <1>6

LEMMA EmitGlobalTarjan ==
    ASSUME TypeOK, Program, Frames, Tarjan, NEW v \in Value,
           EmitGlobal(v, tooptimize), SeenAfter(v), refs' = refs,
           optimized' = optimized
    PROVE  Tarjan'
  <1> USE ValueAssumption DEF Tarjan
  <1>1. /\ v \in Gv /\ v \notin Fn /\ v \notin Body
        /\ stack' = Append(stack, v)
        /\ UNCHANGED <<symbols, emitted, index, lowlink, onstack,
                       functioncount, tooptimize>>
    BY DEF EmitGlobal, symtab, Body
  <1>2. Queue'
    BY <1>1 DEF Queue
  <1>3. Calls'
    BY <1>1, Pushed DEF Calls
  <1>4. Lowlinks'
    <2>1. \A f \in onstack : Busy' /\ stack'[1] = stack[1]
      BY <1>1, Pushed, TopFacts DEF Lowlinks, Busy
    <2>2. \A f \in onstack, i \in DOMAIN stack' :
            Below(i, f)' => i \in DOMAIN stack /\ Below(i, f)
      BY <1>1, Pushed DEF Below
    <2>3. QED
      BY <1>1, <2>1, <2>2, Pushed DEF Lowlinks
  <1>5. \A f \in onstack : seen'[f] \cap Body \subseteq seen[f]
    BY <1>1, SeenBody DEF TypeOK, Value
  <1>6. Closure'
    BY <1>1, <1>5 DEF Closure, Callees
  <1>7. QED
    BY <1>2, <1>3, <1>4, <1>6

(* A new function enters the queue with the largest number.                *)
LEMMA EmitFunctionTarjan ==
    ASSUME TypeOK, Program, Frames, Tarjan, Optimize, NEW v \in Value,
           v \notin symbols, EmitFunction(v, tooptimize), SeenAfter(v),
           refs' = refs, optimized' = optimized
    PROVE  Tarjan'
  <1> USE ValueAssumption DEF Tarjan
  <1>1. /\ v \in Fn /\ v \in Body
        /\ symbols' = symbols \cup {v}
        /\ stack' = Append(stack, v)
        /\ emitted' = emitted
        /\ index' = [index EXCEPT ![v] = functioncount]
        /\ lowlink' = [lowlink EXCEPT ![v] = functioncount]
        /\ functioncount' = functioncount + 1
        /\ onstack' = onstack \cup {v}
        /\ tooptimize' = Append(tooptimize, v)
    BY DEF EmitFunction, Enqueue, FirstLowlink, Body
  <1>2. /\ v \notin onstack /\ v \notin optimized /\ v \notin emitted
        /\ ~OnFrame(v)
    BY <1>1 DEF Queue, Frames
  <1>3. /\ index'[v] = functioncount /\ lowlink'[v] = functioncount
        /\ \A f \in Fn \ {v} : index'[f] = index[f] /\ lowlink'[f] = lowlink[f]
        /\ \A f \in onstack : /\ index[f] \in Nat /\ lowlink[f] \in Nat
                              /\ f \in Fn /\ f # v
        /\ functioncount \in Nat
    BY <1>1, <1>2 DEF TypeOK
  <1>4. /\ Len(tooptimize) \in Nat
        /\ DOMAIN tooptimize = 1 .. Len(tooptimize)
        /\ DOMAIN tooptimize' = 1 .. (Len(tooptimize) + 1)
        /\ \A i \in 1 .. Len(tooptimize) : tooptimize'[i] = tooptimize[i]
        /\ tooptimize'[Len(tooptimize) + 1] = v
    <2>1. tooptimize \in Seq(Fn)
      BY DEF TypeOK
    <2>2. QED
      BY <1>1, <2>1, PushFacts
  <1>5. Queue'
    <2>1. onstack' = {tooptimize'[i] : i \in DOMAIN tooptimize'}
      <3>1. onstack = {tooptimize[i] : i \in 1 .. Len(tooptimize)}
        BY <1>4 DEF Queue
      <3>2. 1 .. (Len(tooptimize) + 1) = (1 .. Len(tooptimize)) \cup {Len(tooptimize) + 1}
        BY <1>4
      <3>3. {tooptimize'[i] : i \in 1 .. (Len(tooptimize) + 1)}
              = {tooptimize[i] : i \in 1 .. Len(tooptimize)} \cup {v}
        BY <1>4, <3>2
      <3>4. QED
        BY <1>1, <1>4, <3>1, <3>3
    <2>2. \A i, j \in DOMAIN tooptimize' :
              i < j => index'[tooptimize'[i]] < index'[tooptimize'[j]]
      BY <1>3, <1>4 DEF Queue
    <2>3. \A f \in onstack' : index'[f] < functioncount'
      BY <1>1, <1>3 DEF Queue
    <2>4. QED
      BY <1>1, <1>2, <2>1, <2>2, <2>3 DEF Queue
  <1>6. /\ \A i \in DOMAIN stack : stack[i] \in Fn /\ stack[i] \in onstack
        /\ Busy => Top \in Fn /\ Top \in onstack
    <2>1. Busy => Top \in Fn
      BY <1>1, TopFacts DEF SeenAfter, Program, Value
    <2>2. \A i \in DOMAIN stack : Busy
      BY DEF Busy
    <2>3. Busy => Len(stack) \in DOMAIN stack
      BY TopFacts
    <2>4. ASSUME NEW i \in DOMAIN stack PROVE stack[i] \in Fn
      BY <2>1, <2>2, TopFacts DEF Calls, Top
    <2>5. QED
      BY <2>1, <2>3, <2>4 DEF Calls, Top
  <1>7. Calls'
    BY <1>1, <1>3, <1>6, Pushed DEF Calls, Queue
  <1>8. Lowlinks'
    <2>1. /\ Busy' /\ stack'[1] \in Fn
          /\ \A f \in onstack' : /\ index'[stack'[1]] <= lowlink'[f]
                                 /\ lowlink'[f] <= index'[f]
      <3>1. Busy'
        BY <1>1, Pushed DEF Busy
      <3>2. CASE Busy
        BY <1>1, <1>3, <1>6, <3>1, <3>2, Pushed, TopFacts, SMTT(30)
           DEF Lowlinks, Queue
      <3>3. CASE ~Busy
        <4>1. onstack = {} /\ Len(stack) = 0
          BY <3>3 DEF Lowlinks, Busy, TypeOK
        <4>2. QED
          BY <1>1, <1>3, <3>1, <4>1, Pushed
      <3>4. QED
        BY <3>2, <3>3
    <2>2. \A f \in onstack' \cap emitted' : f \in onstack /\ f \in emitted
      BY <1>1, <1>2
    <2>3. ASSUME NEW f \in onstack \cap emitted, NEW i \in DOMAIN stack',
                 Below(i, f)'
          PROVE  i \in DOMAIN stack /\ Below(i, f)
      <3>1. i # Len(stack) + 1
        BY <1>1, <1>3, <2>3, Pushed DEF Below, Queue
      <3>2. i \in DOMAIN stack /\ stack'[i] = stack[i]
        BY <1>1, <3>1, Pushed
      <3>3. \A j \in DOMAIN stack :
                j \in DOMAIN stack' /\ stack'[j] = stack[j]
                /\ index'[stack[j]] = index[stack[j]]
        BY <1>1, <1>3, <1>6, Pushed
      <3>4. QED
        BY <1>3, <2>3, <3>2, <3>3 DEF Below
    <2>4. QED
      BY <1>1, <1>3, <1>6, <2>1, <2>2, <2>3, Pushed DEF Lowlinks
  <1>9. Closure'
    <2>1. ASSUME NEW f \in onstack', NEW c \in seen'[f], c \in Body
          PROVE  \/ c \in optimized
                 \/ c \in onstack' /\ lowlink'[f] <= index'[c]
      <3>1. f # v
        BY <2>1, SeenFacts
      <3>2. f \in onstack /\ f \in Value
        BY <1>1, <1>3, <2>1, <3>1 DEF Value
      <3>3. CASE c = v
        BY <1>1, <1>3, <3>2, <3>3 DEF Lowlinks, Queue
      <3>4. CASE c # v
        <4>1. c \in seen[f]
          BY <2>1, <3>1, <3>2, <3>4, SeenFacts
        <4>2. c \in Fn
          BY <2>1 DEF Body
        <4>3. QED
          BY <1>1, <1>3, <2>1, <3>2, <4>1, <4>2 DEF Closure
      <3>5. QED
        BY <3>3, <3>4
    <2>2. QED
      BY <1>1, <2>1 DEF Closure, Callees
  <1>10. QED
    BY <1>5, <1>7, <1>8, <1>9

(* What recording the lowlink of a result does to the lowlink of its user. *)
LEMMA LowerFacts ==
    ASSUME TypeOK, NEW u \in Value, NEW r \in Value, lowlink' = Lower(u, r)
    PROVE  /\ \A f \in Fn : /\ lowlink'[f] \in Nat /\ lowlink[f] \in Nat
                            /\ lowlink'[f] <= lowlink[f]
                            /\ f # u => lowlink'[f] = lowlink[f]
           /\ u \in Fn /\ r \in onstack => lowlink'[u] <= lowlink[r]
           /\ u \in Fn => \/ lowlink'[u] = lowlink[u]
                          \/ r \in onstack /\ lowlink'[u] = lowlink[r]
  <1>1. \A f \in onstack : f \in Fn
    BY DEF TypeOK
  <1>2. CASE u \in Fn /\ r \in onstack /\ lowlink[r] < lowlink[u]
    BY <1>1, <1>2 DEF Lower, TypeOK
  <1>3. CASE ~(u \in Fn /\ r \in onstack /\ lowlink[r] < lowlink[u])
    BY <1>1, <1>3 DEF Lower, TypeOK
  <1>4. QED
    BY <1>2, <1>3

LEMMA RevisitTarjan ==
    ASSUME TypeOK, Program, Frames, Tarjan, NEW v \in Value, Revisit(v)
    PROVE  Tarjan'
  <1> USE ValueAssumption DEF Tarjan
  <1>1. /\ Busy /\ v \in refs[Top] /\ v \in symbols
        /\ seen' = [seen EXCEPT ![Top] = @ \cup {v}]
        /\ lowlink' = Lower(Top, v)
        /\ UNCHANGED <<refs, stack, symbols, emitted, index, onstack,
                       functioncount, tooptimize, optimized>>
    BY DEF Revisit, symtab
  <1>2. /\ Top \in Value /\ Top \notin emitted
        /\ \A f \in onstack : f \in Fn /\ index[f] \in Nat /\ lowlink[f] \in Nat
    BY <1>1, TopFacts, TopOnFrame DEF Frames, TypeOK
  <1>3. Queue'
    BY <1>1 DEF Queue
  <1>4. Calls'
    BY <1>1 DEF Calls
  <1>5. Lowlinks'
    <2>1. \A f \in onstack : /\ Busy' /\ stack'[1] \in Fn
                             /\ index'[stack'[1]] <= lowlink'[f]
                             /\ lowlink'[f] <= index'[f]
      <3>1. \A f \in onstack :
                /\ stack[1] \in Fn /\ index[stack[1]] \in Nat
                /\ index[stack[1]] <= lowlink[f] /\ lowlink[f] <= index[f]
        BY DEF Lowlinks, TypeOK
      <3>2. \A f \in onstack : /\ lowlink'[f] \in Nat
                               /\ lowlink'[f] <= lowlink[f]
                               /\ \/ lowlink'[f] = lowlink[f]
                                  \/ v \in onstack /\ lowlink'[f] = lowlink[v]
        BY <1>1, <1>2, LowerFacts
      <3>3. Busy' = Busy
        BY <1>1 DEF Busy
      <3>4. QED
        BY <1>1, <1>2, <3>1, <3>2, <3>3
    <2>2. \A f \in onstack \cap emitted : lowlink'[f] = lowlink[f]
      BY <1>1, <1>2, LowerFacts
    <2>3. \A f \in onstack \cap emitted, i \in DOMAIN stack :
              Below(i, f)' =>
                  /\ Below(i, f)
                  /\ lowlink'[stack[i]] <= lowlink[stack[i]]
                  /\ lowlink'[stack[i]] \in Nat /\ lowlink[stack[i]] \in Nat
      BY <1>1, <1>2, LowerFacts DEF Below
    <2>4. QED
      BY <1>1, <1>2, <2>1, <2>2, <2>3 DEF Lowlinks
  <1>6. Closure'
    <2>1. ASSUME NEW f \in onstack, NEW c \in seen'[f], c \in Body
          PROVE  \/ c \in optimized
                 \/ c \in onstack /\ lowlink'[f] <= index[c]
      <3>1. f \in Fn /\ c \in Fn /\ f \in Value
        BY <1>2, <2>1 DEF Body, Value
      <3>2. CASE c \in seen[f]
        BY <1>1, <1>2, <2>1, <3>1, <3>2, LowerFacts DEF Closure, TypeOK
      <3>3. CASE c \notin seen[f]
        <4>1. f = Top /\ c = v
          BY <1>1, <2>1, <3>1, <3>3 DEF TypeOK
        <4>2. c \in optimized \/ c \in onstack
          BY <1>1, <2>1, <4>1 DEF Queue
        <4>3. c \in onstack => lowlink'[f] <= lowlink[c] /\ lowlink[c] <= index[c]
          BY <1>1, <1>2, <3>1, <4>1, LowerFacts DEF Lowlinks
        <4>4. QED
          BY <1>1, <1>2, <3>1, <4>2, <4>3, LowerFacts DEF TypeOK
      <3>4. QED
        BY <3>2, <3>3
    <2>2. QED
      BY <1>1, <2>1 DEF Closure, Callees
  <1>7. QED
    BY <1>3, <1>4, <1>5, <1>6

(* The numbers of the queue are those of its members, each at one place.   *)
LEMMA QueueFacts ==
    ASSUME TypeOK, Queue
    PROVE  /\ \A f, g \in onstack : index[f] = index[g] => f = g
           /\ \A f \in onstack : index[f] \in Nat /\ lowlink[f] \in Nat
  <1>1. Len(tooptimize) \in Nat /\ DOMAIN tooptimize = 1 .. Len(tooptimize)
    BY DEF TypeOK
  <1>2. \A i \in DOMAIN tooptimize : index[tooptimize[i]] \in Nat
    BY DEF TypeOK
  <1>3. ASSUME NEW f \in onstack, NEW g \in onstack, index[f] = index[g]
        PROVE  f = g
    <2>1. PICK i \in DOMAIN tooptimize : f = tooptimize[i]
      BY DEF Queue
    <2>2. PICK j \in DOMAIN tooptimize : g = tooptimize[j]
      BY DEF Queue
    <2>3. ~(i < j) /\ ~(j < i)
      BY <1>2, <1>3, <2>1, <2>2 DEF Queue
    <2>4. QED
      BY <1>1, <2>1, <2>2, <2>3
  <1>4. QED
    BY <1>3 DEF TypeOK

(* A function leaves its frame but stays queued: its user has taken over   *)
(* its lowlink.                                                            *)
LEMMA FinishMemberTarjan ==
    ASSUME TypeOK, Program, Frames, Tarjan, Optimize, NEW f \in Value,
           FinishMember(f)
    PROVE  Tarjan'
  <1> USE ValueAssumption DEF Tarjan
  <1>1. /\ Busy /\ f = Top /\ f \in Fn /\ seen[f] = refs[f]
        /\ lowlink[f] # index[f]
        /\ emitted' = emitted \cup {f}
        /\ stack' = Pop(stack)
        /\ lowlink' = IF Len(stack) > 1 THEN Lower(Caller, f) ELSE lowlink
        /\ UNCHANGED <<refs, seen, symbols, index, onstack, functioncount,
                       tooptimize, optimized>>
    BY DEF FinishMember, BodyDone, Root
  <1>2. /\ f \in onstack
        /\ \A g \in onstack : g \in Fn /\ index[g] \in Nat /\ lowlink[g] \in Nat
    BY <1>1, TopFacts DEF Calls, Top, TypeOK
  <1>3. lowlink[f] < index[f]
    BY <1>1, <1>2 DEF Lowlinks
  <1>4. Len(stack) > 1
    <2>1. Len(stack) # 1
      BY <1>1, <1>2, <1>3 DEF Lowlinks, Top
    <2>2. QED
      BY <1>1, <2>1, TopFacts
  <1>5. /\ Caller \in Fn /\ Caller \in onstack /\ Caller # f
        /\ index[Caller] < index[f]
        /\ lowlink' = Lower(Caller, f)
    BY <1>1, <1>2, <1>4, TopFacts DEF Calls, Top, Caller
  <1>6. f \in Body /\ f \notin emitted
    BY <1>1, TopFacts, TopOnFrame DEF Program, Frames, Body, Top
  <1>7. Queue'
    BY <1>1 DEF Queue
  <1>8. Calls'
    BY <1>1, Popped, SMTT(30) DEF Calls
  <1>9. Lowlinks'
    <2>1. \A g \in onstack : /\ Busy' /\ stack'[1] \in Fn
                             /\ index'[stack'[1]] <= lowlink'[g]
                             /\ lowlink'[g] <= index'[g]
      <3>1. Busy' /\ stack'[1] = stack[1]
        BY <1>1, <1>4, Popped DEF Busy
      <3>2. Caller \in Value /\ f \in Value
        BY <1>5 DEF Value
      <3>3. \A g \in onstack :
                /\ index[stack[1]] \in Nat /\ stack[1] \in Fn
                /\ index[stack[1]] <= lowlink[g] /\ lowlink[g] <= index[g]
        BY DEF Lowlinks, TypeOK
      <3>4. QED
        BY <1>1, <1>2, <1>5, <3>1, <3>2, <3>3, LowerFacts
    <2>2. \A g \in onstack \cap emitted' :
              lowlink'[g] = lowlink[g] /\ lowlink[g] < index[g] /\ g # Caller
      <3>1. Caller \notin emitted
        BY <1>4, TopFacts DEF Caller, Frames, OnFrame
      <3>2. QED
        BY <1>1, <1>2, <1>3, <1>5, <3>1, LowerFacts DEF Lowlinks, Value
    <2>3. ASSUME NEW g \in onstack \cap emitted', NEW i \in DOMAIN stack',
                 Below(i, g)'
          PROVE  lowlink'[stack'[i]] <= lowlink'[g]
      <3>1. /\ i \in 1 .. (Len(stack) - 1) /\ stack'[i] = stack[i]
            /\ stack[i] \in Fn /\ stack[i] \in onstack
            /\ index[stack[i]] < index[g]
        BY <1>1, <2>3, Popped DEF Below, Calls
      <3>2. \A j \in 1 .. (Len(stack) - 1) :
                i < j /\ stack[j] \in Fn => index[g] < index[stack[j]]
        BY <1>1, <2>3, Popped DEF Below
      <3>3. CASE index[g] < index[f]
        <4>1. g \in emitted
          BY <1>1, <1>2, <3>3
        <4>2. Below(i, g)
          BY <1>1, <3>1, <3>2, <3>3, TopFacts DEF Below, Top
        <4>3. lowlink[stack[i]] <= lowlink[g]
          BY <3>1, <4>1, <4>2, TopFacts DEF Lowlinks
        <4>4. QED
          BY <1>2, <1>5, <2>2, <3>1, <4>3, LowerFacts DEF Value
      <3>4. CASE ~(index[g] < index[f])
        <4>1. stack[i] = Caller
          <5>1. ~(i < Len(stack) - 1)
            BY <1>2, <1>4, <1>5, <3>2, <3>4, TopFacts DEF Caller
          <5>2. QED
            BY <3>1, <5>1, TopFacts DEF Caller
        <4>2. lowlink[f] <= lowlink[g]
          <5>1. CASE g = f
            BY <1>2, <5>1
          <5>2. CASE g # f
            <6>1. g \in emitted /\ index[f] < index[g]
              BY <1>1, <1>2, <3>4, <5>2, QueueFacts
            <6>2. Below(Len(stack), g)
              BY <1>1, <6>1, TopFacts DEF Below, Top
            <6>3. QED
              BY <1>1, <6>1, <6>2, TopFacts DEF Lowlinks, Top
          <5>3. QED
            BY <5>1, <5>2
        <4>3. QED
          BY <1>2, <1>5, <2>2, <3>1, <4>1, <4>2, LowerFacts DEF Value
      <3>5. QED
        BY <3>3, <3>4
    <2>4. QED
      BY <1>1, <2>1, <2>2, <2>3 DEF Lowlinks
  <1>10. Closure'
    <2>1. \A g \in onstack : lowlink'[g] <= lowlink[g] /\ lowlink'[g] \in Nat
      BY <1>2, <1>5, LowerFacts DEF Value
    <2>2. \A g \in onstack, c \in Body :
             c \in onstack => index[c] \in Nat /\ lowlink[g] \in Nat
      BY <1>2
    <2>3. QED
      BY <1>1, <2>1, <2>2 DEF Closure, Callees
  <1>11. QED
    BY <1>7, <1>8, <1>9, <1>10

(* The members of the SCC that ends are the queued functions numbered from *)
(* its root on.                                                            *)
LEMMA SccFacts ==
    ASSUME TypeOK, Queue, NEW r \in onstack
    PROVE  /\ Position(r) \in DOMAIN tooptimize
           /\ tooptimize[Position(r)] = r
           /\ \A g \in onstack : g \in Scc(r) <=> index[r] <= index[g]
           /\ Scc(r) \subseteq onstack
  <1>1. Len(tooptimize) \in Nat /\ DOMAIN tooptimize = 1 .. Len(tooptimize)
    BY DEF TypeOK
  <1>2. \A i \in DOMAIN tooptimize : /\ index[tooptimize[i]] \in Nat
                                     /\ tooptimize[i] \in onstack
    BY DEF TypeOK, Queue
  <1>3. \E i \in DOMAIN tooptimize : tooptimize[i] = r
    BY DEF Queue
  <1>4. Position(r) \in DOMAIN tooptimize /\ tooptimize[Position(r)] = r
    BY <1>3 DEF Position
  <1>5. \A g : g \in Scc(r) <=>
            \E i \in DOMAIN tooptimize : Position(r) <= i /\ tooptimize[i] = g
    BY <1>1, <1>4 DEF Scc
  <1>6. ASSUME NEW i \in DOMAIN tooptimize
        PROVE  Position(r) <= i <=> index[r] <= index[tooptimize[i]]
    <2>1. Position(r) < i => index[r] < index[tooptimize[i]]
      BY <1>4 DEF Queue
    <2>2. i < Position(r) => index[tooptimize[i]] < index[r]
      BY <1>4 DEF Queue
    <2>3. index[r] \in Nat /\ index[tooptimize[i]] \in Nat
      BY <1>2, <1>4
    <2>4. i \in Nat /\ Position(r) \in Nat
      BY <1>1, <1>4
    <2>5. CASE Position(r) = i
      BY <1>4, <2>3, <2>4, <2>5
    <2>6. QED
      BY <2>1, <2>2, <2>3, <2>4, <2>5
  <1>7. ASSUME NEW g \in onstack PROVE g \in Scc(r) <=> index[r] <= index[g]
    <2>1. PICK i \in DOMAIN tooptimize : tooptimize[i] = g
      BY DEF Queue
    <2>2. index[r] <= index[g] => g \in Scc(r)
      BY <1>5, <1>6, <2>1
    <2>3. g \in Scc(r) => index[r] <= index[g]
      BY <1>5, <1>6
    <2>4. QED
      BY <2>2, <2>3
  <1>8. QED
    BY <1>2, <1>4, <1>5, <1>7

(* When a root is finished, the other members of its SCC are finished and  *)
(* no callee of the SCC lies outside of it and is not optimized.           *)
LEMMA SccClosed ==
    ASSUME TypeOK, Program, Frames, Tarjan, Optimize, NEW r \in Fn,
           BodyDone(r), lowlink[r] = index[r]
    PROVE  /\ r \in onstack /\ r \in Body
           /\ \A g \in Scc(r) : g = r \/ g \in emitted
           /\ \A g \in Scc(r) : seen[g] = refs[g]
           /\ \A g \in Scc(r) : Callees(g) \subseteq optimized \cup Scc(r)
  <1> USE ValueAssumption DEF Tarjan
  <1>1. Busy /\ r = Top /\ seen[r] = refs[r]
    BY DEF BodyDone
  <1>2. r \in onstack /\ r \in Body
    BY <1>1, TopFacts DEF Calls, Program, Body, Top
  <1>3. \A g \in onstack : g \in Fn /\ index[g] \in Nat /\ lowlink[g] \in Nat
    BY DEF TypeOK
  <1>4. ASSUME NEW g \in Scc(r), g # r
        PROVE  g \in emitted /\ index[r] < index[g] /\ lowlink[r] <= lowlink[g]
    <2>1. g \in onstack /\ index[r] <= index[g] /\ index[g] # index[r]
      BY <1>2, <1>4, SccFacts, QueueFacts
    <2>2. index[r] < index[g]
      BY <1>2, <1>3, <2>1
    <2>3. g \in emitted
      <3>1. g \in Body /\ g \in symbols
        BY <2>1 DEF Queue
      <3>2. SUFFICES ASSUME OnFrame(g) PROVE FALSE
        BY <3>1 DEF Frames
      <3>3. PICK i \in DOMAIN stack : stack[i] = g
        BY <3>2 DEF OnFrame
      <3>4. i < Len(stack)
        BY <1>1, <1>4, <3>3, TopFacts DEF Top
      <3>5. index[g] < index[r]
        BY <1>1, <3>3, <3>4, TopFacts DEF Calls, Top
      <3>6. QED
        BY <1>2, <1>3, <2>1, <2>2, <3>5
    <2>4. Below(Len(stack), g)
      BY <1>1, <2>2, TopFacts DEF Below, Top
    <2>5. QED
      BY <1>1, <2>1, <2>2, <2>3, <2>4, TopFacts DEF Lowlinks, Top
  <1>5. \A g \in Scc(r) : g \in onstack /\ index[r] <= lowlink[g]
    BY <1>2, <1>3, <1>4, SccFacts
  <1>6. \A g \in Scc(r) : seen[g] = refs[g]
    BY <1>1, <1>4 DEF Frames
  <1>7. ASSUME NEW g \in Scc(r), NEW c \in Callees(g)
        PROVE  c \in optimized \cup Scc(r)
    <2>1. c \in seen[g] /\ c \in Body /\ g \in onstack
      BY <1>5, <1>6 DEF Callees, Body
    <2>2. CASE c \in optimized
      BY <2>2
    <2>3. CASE c \in onstack /\ lowlink[g] <= index[c]
      <3>1. index[r] <= index[c]
        BY <1>2, <1>3, <1>5, <2>1, <2>3
      <3>2. QED
        BY <1>2, <2>3, <3>1, SccFacts
    <2>4. QED
      BY <2>1, <2>2, <2>3 DEF Closure
  <1>8. QED
    BY <1>2, <1>4, <1>6, <1>7

LEMMA FinishSccTarjan ==
    ASSUME TypeOK, Program, Frames, Tarjan, NEW r \in Value, FinishScc(r)
    PROVE  Tarjan'
  <1> USE ValueAssumption DEF Tarjan
  <1>1. /\ Busy /\ r = Top /\ r \in Fn /\ Optimize /\ BodyDone(r)
        /\ lowlink[r] = index[r]
        /\ emitted' = emitted \cup {r}
        /\ stack' = Pop(stack)
        /\ tooptimize' = SubSeq(tooptimize, 1, Position(r) - 1)
        /\ onstack' = onstack \ Scc(r)
        /\ optimized' = optimized \cup Scc(r)
        /\ UNCHANGED <<refs, seen, symbols, index, lowlink, functioncount>>
    BY DEF FinishScc, BodyDone, Root, Unqueue
  <1>2. /\ r \in onstack /\ r \in Body
        /\ \A g \in Scc(r) : g = r \/ g \in emitted
        /\ \A g \in Scc(r) : Callees(g) \subseteq optimized \cup Scc(r)
    BY <1>1, SccClosed
  <1>3. /\ \A g \in onstack : /\ g \in Fn /\ index[g] \in Nat
                              /\ lowlink[g] \in Nat
                              /\ g \in onstack' <=> index[g] < index[r]
        /\ Scc(r) \subseteq onstack
        /\ onstack' \subseteq onstack
    BY <1>1, <1>2, SccFacts DEF TypeOK
  <1>4. /\ Position(r) \in DOMAIN tooptimize
        /\ tooptimize[Position(r)] = r
        /\ Len(tooptimize) \in Nat
        /\ DOMAIN tooptimize = 1 .. Len(tooptimize)
        /\ DOMAIN tooptimize' = 1 .. (Position(r) - 1)
        /\ \A i \in 1 .. (Position(r) - 1) : tooptimize'[i] = tooptimize[i]
    <2>1. /\ tooptimize \in Seq(Fn) /\ Position(r) \in DOMAIN tooptimize
          /\ tooptimize[Position(r)] = r
      BY <1>2, SccFacts DEF TypeOK
    <2>2. Position(r) - 1 \in 0 .. Len(tooptimize)
      BY <2>1
    <2>3. QED
      BY <1>1, <2>1, <2>2, PrefixFacts
  <1>5. Queue'
    <2>1. onstack' = {tooptimize'[i] : i \in DOMAIN tooptimize'}
      <3>1. ASSUME NEW i \in 1 .. (Position(r) - 1)
            PROVE  tooptimize[i] \in onstack'
        <4>1. i \in DOMAIN tooptimize /\ i < Position(r)
          BY <1>4
        <4>2. index[tooptimize[i]] < index[r]
          BY <1>4, <4>1 DEF Queue
        <4>3. QED
          BY <1>3, <4>1, <4>2 DEF Queue
      <3>2. ASSUME NEW g \in onstack'
            PROVE  \E i \in 1 .. (Position(r) - 1) : tooptimize[i] = g
        <4>1. PICK i \in DOMAIN tooptimize : tooptimize[i] = g
          BY <1>3 DEF Queue
        <4>2. ~(Position(r) <= i)
          BY <1>1, <1>4, <4>1 DEF Scc
        <4>3. QED
          BY <1>4, <4>1, <4>2
      <3>3. QED
        BY <1>4, <3>1, <3>2
    <2>2. \A i, j \in DOMAIN tooptimize' :
              i < j => index'[tooptimize'[i]] < index'[tooptimize'[j]]
      BY <1>1, <1>4 DEF Queue
    <2>3. /\ \A f \in Body :
                f \in symbols' <=> f \in onstack' \/ f \in optimized'
          /\ onstack' \cap optimized' = {}
          /\ onstack' \subseteq Body /\ optimized' \subseteq emitted'
      BY <1>1, <1>2, <1>3 DEF Queue
    <2>4. QED
      BY <1>1, <1>3, <2>1, <2>2, <2>3 DEF Queue
  <1>6. \A i \in 1 .. (Len(stack) - 1) :
            stack[i] \in Fn /\ stack[i] \in onstack'
    BY <1>1, <1>3, TopFacts DEF Calls, Top
  <1>7. Calls'
    BY <1>1, <1>6, Popped, SMTT(30) DEF Calls
  <1>8. Lowlinks'
    <2>1. ASSUME NEW f \in onstack'
          PROVE  Busy' /\ stack'[1] = stack[1]
      <3>1. index[stack[1]] < index[r]
        <4>1. f \in onstack /\ index[f] < index[r] /\ index[r] \in Nat
          BY <1>2, <1>3
        <4>2. /\ stack[1] \in Fn /\ index[stack[1]] \in Nat
              /\ index[stack[1]] <= lowlink[f] /\ lowlink[f] <= index[f]
          BY <4>1 DEF Lowlinks, TypeOK
        <4>3. QED
          BY <1>3, <4>1, <4>2
      <3>2. Len(stack) > 1
        BY <1>1, <1>3, <3>1, TopFacts DEF Top, Lowlinks, TypeOK
      <3>3. QED
        BY <1>1, <3>2, Popped DEF Busy
    <2>2. \A f \in onstack' \cap emitted' : f \in onstack \cap emitted
      BY <1>1, <1>2, <1>3
    <2>3. ASSUME NEW f \in onstack', NEW i \in DOMAIN stack', Below(i, f)'
          PROVE  i \in DOMAIN stack /\ stack'[i] = stack[i] /\ Below(i, f)
      BY <1>1, <1>3, <2>3, Popped, SMTT(30) DEF Below, Top
    <2>4. QED
      BY <1>1, <1>3, <2>1, <2>2, <2>3 DEF Lowlinks
  <1>9. Closure'
    <2>1. ASSUME NEW f \in onstack', NEW c \in seen[f] \cap Body
          PROVE  \/ c \in optimized'
                 \/ c \in onstack' /\ lowlink[f] <= index[c]
      BY <1>1, <1>3 DEF Closure
    <2>2. \A f \in optimized' : Callees(f) \subseteq optimized'
      BY <1>1, <1>2 DEF Closure
    <2>3. QED
      BY <1>1, <2>1, <2>2 DEF Closure, Callees
  <1>10. QED
    BY <1>5, <1>7, <1>8, <1>9

LEMMA FinishGlobalTarjan ==
    ASSUME TypeOK, Program, Frames, Tarjan, NEW g \in Value, FinishGlobal(g)
    PROVE  Tarjan'
  <1> USE ValueAssumption DEF Tarjan
  <1>1. /\ Busy /\ g = Top /\ g \notin Fn /\ g \notin Body
        /\ symbols' = symbols \cup {g} /\ stack' = Pop(stack)
        /\ UNCHANGED <<refs, seen, emitted, index, lowlink, onstack,
                       functioncount, tooptimize, optimized>>
    BY DEF FinishGlobal, BodyDone, tarjan, Body
  <1>2. Queue'
    BY <1>1 DEF Queue
  <1>3. Calls'
    BY <1>1, Popped DEF Calls
  <1>4. Lowlinks'
    <2>1. ASSUME NEW f \in onstack PROVE Busy' /\ stack'[1] = stack[1]
      <3>1. Len(stack) > 1
        BY <1>1, TopFacts DEF Top, Lowlinks
      <3>2. QED
        BY <1>1, <3>1, Popped DEF Busy
    <2>2. ASSUME NEW f \in onstack, NEW i \in DOMAIN stack', Below(i, f)'
          PROVE  i \in DOMAIN stack /\ stack'[i] = stack[i] /\ Below(i, f)
      BY <1>1, <2>2, Popped DEF Below, Top
    <2>3. QED
      BY <1>1, <2>1, <2>2 DEF Lowlinks
  <1>5. Closure'
    BY <1>1 DEF Closure, Callees
  <1>6. QED
    BY <1>2, <1>3, <1>4, <1>5

-----------------------------------------------------------------------------
(* A unit that does not optimize never uses the queue.                     *)
NoTarjan == onstack = {} /\ optimized = {} /\ tooptimize = << >>

LEMMA NoTarjanStep ==
    ASSUME TypeOK, NoTarjan, ~Optimize, [Next]_vars
    PROVE  NoTarjan'
  <1>1. ASSUME NEW v \in Value, NEW q, q = << >>, Emit(v, q)
        PROVE  onstack' = {} /\ tooptimize' = << >>
    BY <1>1 DEF Emit, EmitExtern, EmitFunction, EmitGlobal, Enqueue, NoTarjan
  <1>2. ASSUME NEW v \in Value, AddValue(v) \/ Step(v) PROVE NoTarjan'
    <2>1. CASE AddValue(v)
      BY <1>1, <2>1 DEF AddValue, NoTarjan
    <2>2. CASE Revisit(v)
      BY <2>2 DEF Revisit, NoTarjan
    <2>3. CASE Descend(v)
      BY <1>1, <2>3 DEF Descend, NoTarjan
    <2>4. CASE FinishScc(v)
      BY <2>4 DEF FinishScc
    <2>5. CASE FinishMember(v)
      BY <2>5 DEF FinishMember, NoTarjan
    <2>6. CASE FinishGlobal(v)
      BY <2>6 DEF FinishGlobal, tarjan, NoTarjan
    <2>7. QED
      BY <1>2, <2>1, <2>2, <2>3, <2>4, <2>5, <2>6 DEF Step
  <1>3. QED
    BY <1>2 DEF Next, vars, tarjan, NoTarjan

LEMMA FramesStep ==
    ASSUME TypeOK, Program, Frames, [Next]_vars
    PROVE  Frames'
  <1>1. CASE UNCHANGED vars
    BY <1>1 DEF Frames, OnFrame, vars, symtab
  <1>2. ASSUME NEW v \in Value, AddValue(v) PROVE Frames'
    <2>1. CASE Emit(v, << >>) /\ seen' = Fresh(seen, v)
      BY <1>2, <2>1, EmitFrames DEF AddValue, SeenAfter
    <2>2. CASE UNCHANGED <<stack, seen, symtab>>
      BY <1>2, <2>2 DEF AddValue, Frames, OnFrame, symtab
    <2>3. QED
      BY <1>2, <2>1, <2>2 DEF AddValue
  <1>3. ASSUME NEW v \in Value, Descend(v) PROVE Frames'
    BY <1>3, EmitFrames DEF Descend, SeenAfter
  <1>4. ASSUME NEW v \in Value, FinishScc(v) PROVE Frames'
    BY <1>4, FinishFunctionFrames DEF FinishScc
  <1>5. ASSUME NEW v \in Value, FinishMember(v) PROVE Frames'
    BY <1>5, FinishFunctionFrames DEF FinishMember
  <1>6. QED
    BY <1>1, <1>2, <1>3, <1>4, <1>5, RevisitFrames, FinishGlobalFrames
       DEF Next, Step

LEMMA TarjanStep ==
    ASSUME TypeOK, Program, Frames, Tarjan, Optimize, [Next]_vars
    PROVE  Tarjan'
  <1>1. CASE UNCHANGED vars
    BY <1>1 DEF Tarjan, Queue, Calls, Lowlinks, Below, Busy, Closure, Callees,
                vars, symtab, tarjan
  <1>2. ASSUME NEW v \in Value, Emit(v, tooptimize), SeenAfter(v),
               refs' = refs, optimized' = optimized
        PROVE  Tarjan'
    BY <1>2, EmitExternTarjan, EmitFunctionTarjan, EmitGlobalTarjan DEF Emit
  <1>3. ASSUME NEW v \in Value, AddValue(v) PROVE Tarjan'
    <2>1. ~Busy /\ refs' = refs /\ optimized' = optimized
      BY <1>3 DEF AddValue
    <2>2. tooptimize = << >>
      BY <2>1, IdleQueue DEF Tarjan
    <2>3. CASE Emit(v, << >>) /\ seen' = Fresh(seen, v)
      BY <1>2, <2>1, <2>2, <2>3 DEF SeenAfter
    <2>4. CASE /\ tooptimize' = << >>
               /\ UNCHANGED <<stack, seen, symtab, index, lowlink, onstack,
                              functioncount>>
      BY <2>1, <2>2, <2>4 DEF Tarjan, Queue, Calls, Lowlinks, Below, Busy,
                              Closure, Callees, symtab
    <2>5. QED
      BY <1>3, <2>3, <2>4 DEF AddValue
  <1>4. ASSUME NEW v \in Value, Descend(v) PROVE Tarjan'
    BY <1>2, <1>4 DEF Descend, SeenAfter
  <1>5. QED
    BY <1>1, <1>3, <1>4, RevisitTarjan, FinishSccTarjan, FinishMemberTarjan,
       FinishGlobalTarjan DEF Next, Step

-----------------------------------------------------------------------------
LEMMA InitInvariant == DataOnly /\ Init => IInv
  <1> SUFFICES ASSUME DataOnly, Init PROVE IInv
    OBVIOUS
  <1> USE ValueAssumption, ProgramsAssumption
  <1>1. TypeOK
    BY DEF Init, TypeOK
  <1>2. Program /\ Queued
    BY DEF Init, Program, DataOnly, Queued
  <1>3. Frames
    BY DEF Init, Frames, OnFrame, Body
  <1>4. Queue /\ Calls /\ Lowlinks /\ Closure
    BY DEF Init, Queue, Calls, Lowlinks, Closure
  <1>5. QED
    BY <1>1, <1>2, <1>3, <1>4 DEF IInv, Init

LEMMA NextInvariant == IInv /\ [Next]_vars => IInv'
  <1> SUFFICES ASSUME IInv, [Next]_vars PROVE IInv'
    OBVIOUS
  <1>1. TypeOK' /\ Queued' /\ Program' /\ Frames'
    BY TypeStep, QueuedStep, ProgramStep, FramesStep DEF IInv
  <1>2. CASE Optimize
    BY <1>1, <1>2, TarjanStep DEF IInv, Tarjan
  <1>3. CASE ~Optimize
    BY <1>1, <1>3, NoTarjanStep DEF IInv, NoTarjan
  <1>4. QED
    BY <1>2, <1>3

(* Every variable of the emitter keeps its type, whatever the program.     *)
THEOREM TypeCorrect == Spec => []TypeOK
  <1>1. Init => TypeOK /\ Queued
    BY ProgramsAssumption DEF Init, TypeOK, Queued
  <1>2. TypeOK /\ Queued /\ [Next]_vars => (TypeOK /\ Queued)'
    BY TypeStep, QueuedStep
  <1>3. QED
    BY <1>1, <1>2, PTL DEF Spec

(* The bookkeeping of the emission and of Tarjan's algorithm.              *)
THEOREM Invariant == DataOnly => (Spec => []IInv)
  <1>1. ASSUME DataOnly PROVE Spec => []IInv
    <2>1. Init => IInv
      BY <1>1, InitInvariant
    <2>2. QED
      BY <2>1, NextInvariant, PTL DEF Spec
  <1>2. QED
    BY <1>1

(* tinline.h, "Callees are always emitted and optimized before their       *)
(* callers": holds for every program whose initializers use no function.   *)
THEOREM CalleesFirst == DataOnly => (Spec => []CalleesOptimized)
  <1>1. IInv => CalleesOptimized
    BY DEF IInv, Queue, Closure, CalleesOptimized, Callees
  <1>2. QED
    BY <1>1, Invariant, PTL

(* addvalue returns with everything it reached emitted, mapped, optimized. *)
THEOREM Complete == DataOnly => (Spec => []NothingLeftBehind)
  <1>1. IInv => NothingLeftBehind
    <2> SUFFICES ASSUME IInv, ~Busy
                 PROVE  /\ tooptimize = << >> /\ onstack = {}
                        /\ (symbols \cap Fn) \ Extern = emitted
                        /\ Optimize => optimized = emitted
                        /\ \A v \in symbols : refs[v] \subseteq symbols
      BY DEF NothingLeftBehind
    <2>1. tooptimize = << >> /\ onstack = {}
      BY IdleQueue DEF IInv
    <2>2. \A v : ~OnFrame(v)
      BY DEF OnFrame, Busy, IInv, TypeOK
    <2>3. (symbols \cap Fn) \ Extern = emitted
      BY <2>2 DEF IInv, Frames, Body
    <2>4. Optimize => optimized = emitted
      BY <2>1, <2>3 DEF IInv, Queue, Body
    <2>5. ASSUME NEW v \in symbols PROVE refs[v] \subseteq symbols
      <3>1. v \in Fn \/ v \in Gv
        BY DEF IInv, TypeOK, Value
      <3>2. CASE v \in Extern
        BY <3>2 DEF IInv, Program
      <3>3. CASE v \notin Extern
        <4>1. seen[v] = refs[v] /\ v \in Value
          BY <2>3, <3>1, <3>3 DEF IInv, Frames, Value
        <4>2. \A w \in Value : w \in seen[v] => w \in symbols
          BY <2>2, <4>1 DEF IInv, Frames
        <4>3. seen[v] \subseteq Value
          BY <4>1 DEF IInv, TypeOK
        <4>4. QED
          BY <4>1, <4>2, <4>3
      <3>4. QED
        BY <3>2, <3>3
    <2>6. QED
      BY <2>1, <2>3, <2>4, <2>5
  <1>2. QED
    BY <1>1, Invariant, PTL

-----------------------------------------------------------------------------
(* One storage location for each global.  Each frame is there for a        *)
(* reference of the frame below it, so a value that is on two frames leads *)
(* back to itself; a global that does not is mapped when its only frame    *)
(* returns.  Nothing is asked of what initializers use.                    *)
LEMMA SmallestMember ==
    ASSUME NEW S, S \subseteq Nat, S # {}
    PROVE  \E m \in S : \A k \in S : m <= k
  <1> DEFINE R == OpToRel(<, Nat)
  <1>1. PICK m \in S : \A k \in S : ~ (<<k, m>> \in R)
    <2>1. IsWellFoundedOn(R, Nat)
      BY NatLessThanWellFounded
    <2> HIDE DEF R
    <2>2. QED
      BY <2>1, WFMin
  <1>2. \A k \in S : ~(k < m)
    BY <1>1 DEF OpToRel
  <1>3. QED
    BY <1>2

(* Every frame is reached from the frames below it: the first one outside  *)
(* of a set that is closed under references would be in it.                *)
LEMMA FramesReach ==
    ASSUME TypeOK, Chain, NEW i \in DOMAIN stack, NEW j \in DOMAIN stack,
           i < j
    PROVE  Reaches(stack[i], stack[j])
  <1> SUFFICES ASSUME NEW T \in SUBSET Value,
                      \A u \in T \cup {stack[i]} : refs[u] \subseteq T,
                      stack[j] \notin T
               PROVE  FALSE
    BY DEF Reaches
  <1>1. DOMAIN stack = 1 .. Len(stack) /\ Len(stack) \in Nat
    BY DEF TypeOK
  <1> DEFINE S == {k \in DOMAIN stack : i < k /\ stack[k] \notin T}
  <1>2. S \subseteq Nat /\ S # {}
    BY <1>1
  <1>3. PICK m \in S : \A k \in S : m <= k
    <2> HIDE DEF S
    <2>1. QED
      BY <1>2, SmallestMember
  <1>4. m \in DOMAIN stack /\ i < m /\ stack[m] \notin T
    OBVIOUS
  <1>5. m - 1 \in DOMAIN stack /\ stack[m] \in refs[stack[m - 1]]
    BY <1>1, <1>4 DEF Chain
  <1>6. m - 1 = i \/ stack[m - 1] \in T
    BY <1>1, <1>3, <1>4, <1>5
  <1>7. QED
    BY <1>4, <1>5, <1>6

LEMMA ReachesStep ==
    ASSUME refs' = refs
    PROVE  \A v, w : Reaches(v, w)' <=> Reaches(v, w)
  BY DEF Reaches

(* A new frame: a function, mapped as it begins, or a global.              *)
LEMMA PushGlobals ==
    ASSUME TypeOK, Globals, NEW v \in Value, v \notin symbols,
           stack' = Append(stack, v), SeenAfter(v), refs' = refs,
           symbols' = symbols \/ (v \in Fn /\ symbols' = symbols \cup {v}),
           created' = created
    PROVE  Globals'
  <1>1. /\ Len(stack) \in Nat /\ DOMAIN stack = 1 .. Len(stack)
        /\ DOMAIN stack' = 1 .. (Len(stack) + 1)
        /\ \A i \in 1 .. Len(stack) : stack'[i] = stack[i]
        /\ stack'[Len(stack) + 1] = v
        /\ \A w : OnFrame(w)' <=> OnFrame(w) \/ w = v
    BY Pushed
  <1>2. Chain'
    <2> SUFFICES ASSUME NEW i \in DOMAIN stack', i > 1
                 PROVE  stack'[i] \in refs[stack'[i - 1]]
      BY DEF Chain
    <2>1. CASE i = Len(stack) + 1
      <3>1. Busy
        BY <1>1, <2>1 DEF Busy
      <3>2. v \in refs[Top]
        BY <3>1 DEF SeenAfter
      <3>3. i - 1 = Len(stack) /\ Len(stack) \in 1 .. Len(stack)
        BY <1>1, <2>1
      <3>4. stack'[i] = v /\ stack'[i - 1] = Top
        BY <1>1, <2>1, <3>3 DEF Top
      <3>5. QED
        BY <3>2, <3>4
    <2>2. CASE i \in 1 .. Len(stack)
      <3>1. stack[i] \in refs[stack[i - 1]] /\ i - 1 \in 1 .. Len(stack)
        BY <1>1, <2>2 DEF Globals, Chain
      <3>2. QED
        BY <1>1, <2>2, <3>1
    <2>3. QED
      BY <1>1, <2>1, <2>2
  <1>3. ASSUME NEW g \in Gv, ~Reaches(g, g)
        PROVE  /\ created'[g] = IF g \in symbols' THEN 1 ELSE 0
               /\ OnFrame(g)' => g \notin symbols'
    <2>1. g \in symbols' <=> g \in symbols
      BY ValueAssumption
    <2>2. QED
      BY <1>1, <1>3, <2>1 DEF Globals
  <1>4. QED
    BY <1>2, <1>3, ReachesStep DEF Globals

LEMMA EmitGlobals ==
    ASSUME TypeOK, Globals, NEW v \in Value, NEW q, Emit(v, q),
           SeenAfter(v), refs' = refs
    PROVE  Globals'
  <1>1. v \notin symbols
    BY DEF Emit
  <1>2. CASE EmitExtern(v, q)
    <2>1. v \notin Gv
      BY <1>2, ValueAssumption DEF EmitExtern
    <2>2. /\ stack' = stack /\ created' = created
          /\ symbols' = symbols \cup {v}
          /\ \A w : OnFrame(w)' <=> OnFrame(w)
      BY <1>2 DEF EmitExtern, OnFrame
    <2>3. QED
      BY <2>1, <2>2, ReachesStep DEF Globals, Chain
  <1>3. CASE EmitFunction(v, q)
    BY <1>1, <1>3, PushGlobals DEF EmitFunction
  <1>4. CASE EmitGlobal(v, q)
    BY <1>1, <1>4, PushGlobals DEF EmitGlobal, symtab
  <1>5. QED
    BY <1>2, <1>3, <1>4 DEF Emit

(* A return, of a function or of a global's initializer.                   *)
LEMMA PopChain ==
    ASSUME TypeOK, Chain, Busy, stack' = Pop(stack), refs' = refs
    PROVE  Chain'
  <1>1. \A i \in DOMAIN stack' :
            /\ i \in DOMAIN stack /\ stack'[i] = stack[i]
            /\ i > 1 => stack'[i - 1] = stack[i - 1]
    BY Popped
  <1>2. QED
    BY <1>1 DEF Chain

LEMMA ReturnGlobals ==
    ASSUME TypeOK, Globals, Busy, stack' = Pop(stack),
           UNCHANGED <<refs, symbols, created>>
    PROVE  Globals'
  <1>1. \A w : OnFrame(w)' => OnFrame(w)
    BY Popped
  <1>2. QED
    BY <1>1, PopChain, ReachesStep DEF Globals

LEMMA FinishGlobalGlobals ==
    ASSUME TypeOK, Globals, NEW g \in Value, FinishGlobal(g)
    PROVE  Globals'
  <1>1. /\ Busy /\ g = Top /\ g \in Gv
        /\ created' = [created EXCEPT ![g] = @ + 1]
        /\ symbols' = symbols \cup {g}
        /\ stack' = Pop(stack) /\ refs' = refs
    BY DEF FinishGlobal, BodyDone
  <1>2. Chain'
    BY <1>1, PopChain DEF Globals
  <1>3. ASSUME NEW w \in Gv, ~Reaches(w, w)
        PROVE  /\ created'[w] = IF w \in symbols' THEN 1 ELSE 0
               /\ OnFrame(w)' => w \notin symbols'
    <2>1. CASE w # g
      <3>1. created'[w] = created[w] /\ (w \in symbols' <=> w \in symbols)
        BY <1>1, <2>1 DEF TypeOK
      <3>2. OnFrame(w)' => OnFrame(w)
        BY <1>1, Popped
      <3>3. QED
        BY <1>3, <3>1, <3>2 DEF Globals
    <2>2. CASE w = g
      <3>1. OnFrame(g)
        BY <1>1, TopOnFrame
      <3>2. created[g] = 0 /\ g \notin symbols
        BY <1>3, <2>2, <3>1 DEF Globals
      <3>3. created'[g] = 1 /\ g \in symbols'
        BY <1>1, <3>2 DEF TypeOK
      <3>4. ~OnFrame(g)'
        <4> SUFFICES ASSUME NEW i \in DOMAIN stack', stack'[i] = g
                     PROVE  FALSE
          BY DEF OnFrame
        <4>1. /\ i \in DOMAIN stack /\ stack[i] = g
              /\ Len(stack) \in DOMAIN stack /\ stack[Len(stack)] = g
              /\ i < Len(stack)
          BY <1>1, Popped DEF Top
        <4>2. Reaches(g, g)
          <5>1. Reaches(stack[i], stack[Len(stack)])
            BY <4>1, FramesReach DEF Globals
          <5>2. QED
            BY <4>1, <5>1
        <4>3. QED
          BY <1>3, <2>2, <4>2
      <3>5. QED
        BY <2>2, <3>3, <3>4
    <2>3. QED
      BY <2>1, <2>2
  <1>4. QED
    BY <1>1, <1>2, <1>3, ReachesStep DEF Globals

LEMMA GlobalsStep ==
    ASSUME TypeOK, Globals, [Next]_vars
    PROVE  Globals'
  <1>1. ASSUME UNCHANGED <<refs, stack, symbols, created>> PROVE Globals'
    BY <1>1, ReachesStep DEF Globals, Chain, OnFrame
  <1>2. CASE UNCHANGED vars
    BY <1>1, <1>2 DEF vars, symtab
  <1>3. ASSUME NEW v \in Value, AddValue(v) PROVE Globals'
    BY <1>1, <1>3, EmitGlobals DEF AddValue, SeenAfter, symtab
  <1>4. ASSUME NEW v \in Value, Revisit(v) PROVE Globals'
    BY <1>1, <1>4 DEF Revisit, symtab
  <1>5. ASSUME NEW v \in Value, Descend(v) PROVE Globals'
    BY <1>5, EmitGlobals DEF Descend, SeenAfter
  <1>6. ASSUME NEW v \in Value, FinishScc(v) PROVE Globals'
    BY <1>6, ReturnGlobals DEF FinishScc, BodyDone
  <1>7. ASSUME NEW v \in Value, FinishMember(v) PROVE Globals'
    BY <1>7, ReturnGlobals DEF FinishMember, BodyDone
  <1>8. QED
    BY <1>2, <1>3, <1>4, <1>5, <1>6, <1>7, FinishGlobalGlobals DEF Next, Step

(* All the code of a unit that uses a global uses one LLVM global          *)
(* (terralib.lua, newcompilationunit), although a global is mapped only    *)
(* after its initializer, whatever initializers use: functions, and other  *)
(* globals whose emission is then nested in it.  The exception: a global   *)
(* that its own initializer leads back to may be created again inside.     *)
THEOREM OneStorage == Spec => []OneGlobal
  <1>1. Init => TypeOK /\ Queued /\ Globals
    BY ProgramsAssumption DEF Init, TypeOK, Queued, Globals, Chain, OnFrame
  <1>2. TypeOK /\ Queued /\ Globals /\ [Next]_vars
            => (TypeOK /\ Queued /\ Globals)'
    BY TypeStep, QueuedStep, GlobalsStep
  <1>3. TypeOK /\ Globals => OneGlobal
    BY DEF Globals, OneGlobal
  <1>4. QED
    BY <1>1, <1>2, <1>3, PTL DEF Spec
-----------------------------------------------------------------------------
(* CodeEmit implements SccOrder: every batch given to the optimizer is one *)
(* strongly connected component, callees first.                            *)

(* Of a set of queued functions, one was begun first.                      *)
LEMMA FirstBegun ==
    ASSUME TypeOK, NEW T, T \subseteq onstack, T # {}
    PROVE  \E f \in T : \A g \in T : index[f] <= index[g]
  <1> DEFINE S == {index[f] : f \in T}
  <1>1. S \subseteq Nat /\ S # {}
    BY DEF TypeOK
  <1>2. PICK m \in S : \A k \in S : m <= k
    <2> HIDE DEF S
    <2>1. QED
      BY <1>1, SmallestMember
  <1>3. QED
    BY <1>2
-----------------------------------------------------------------------------
Reach == Rooted /\ Spawned /\ Linked

(* Steps that leave the queue, the numbers and the lowlinks alone, and the *)
(* references met among functions, and at most push or pop globals.        *)
LEMMA EmitExternReach ==
    ASSUME TypeOK, Tarjan, Reach, NEW v \in Value,
           EmitExtern(v, tooptimize), SeenAfter(v)
    PROVE  Reach'
  <1> USE ValueAssumption DEF Reach
  <1>1. /\ v \notin Body /\ v \notin onstack /\ v \in Fn
        /\ UNCHANGED <<stack, index, lowlink, onstack>>
    BY DEF EmitExtern, Body, Tarjan, Queue
  <1>2. \A f \in onstack : f \in Value /\ f # v
    BY <1>1 DEF TypeOK, Value
  <1>3. \A f \in onstack : seen'[f] \cap onstack = seen[f] \cap onstack
    BY <1>1, <1>2, SeenFacts
  <1>4. Rooted'
    BY <1>1, <1>3 DEF Rooted
  <1>5. Spawned'
    BY <1>1, <1>3 DEF Spawned
  <1>6. ASSUME NEW i \in DOMAIN stack, i > 1, stack[i] \in Fn
        PROVE  stack[i] \in seen'[stack[i - 1]]
    <2>1. i - 1 \in DOMAIN stack /\ i - 1 < i
      BY <1>6 DEF TypeOK
    <2>2. /\ stack[i - 1] \in onstack /\ stack[i] \in onstack
          /\ stack[i] \in seen[stack[i - 1]]
      BY <1>6, <2>1 DEF Tarjan, Calls, Reach, Linked
    <2>3. QED
      BY <1>3, <2>2
  <1>7. Linked'
    BY <1>1, <1>6 DEF Linked
  <1>8. QED
    BY <1>4, <1>5, <1>7 DEF Reach

LEMMA EmitGlobalReach ==
    ASSUME TypeOK, Tarjan, Reach, NEW v \in Value,
           EmitGlobal(v, tooptimize), SeenAfter(v)
    PROVE  Reach'
  <1> USE ValueAssumption DEF Reach
  <1>1. /\ v \notin Body /\ v \notin Fn /\ v \notin onstack
        /\ stack' = Append(stack, v)
        /\ UNCHANGED <<index, lowlink, onstack>>
    BY DEF EmitGlobal, Body, TypeOK
  <1>2. \A f \in onstack : f \in Value /\ f # v
    BY <1>1 DEF TypeOK, Value
  <1>3. \A f \in onstack : seen'[f] \cap onstack = seen[f] \cap onstack
    BY <1>1, <1>2, SeenFacts
  <1>4. Rooted'
    BY <1>1, <1>3 DEF Rooted
  <1>5. ASSUME NEW i \in DOMAIN stack', stack'[i] \in Fn
        PROVE  i \in DOMAIN stack /\ stack'[i] = stack[i]
    BY <1>1, <1>5, Pushed
  <1>6. Spawned'
    BY <1>1, <1>3, <1>5 DEF Spawned
  <1>7. ASSUME NEW i \in DOMAIN stack', i > 1, stack'[i] \in Fn
        PROVE  stack'[i] \in seen'[stack'[i - 1]]
    <2>1. i \in DOMAIN stack /\ i - 1 \in DOMAIN stack /\ i - 1 < i
      BY <1>5, <1>7, Pushed
    <2>2. stack'[i] = stack[i] /\ stack'[i - 1] = stack[i - 1]
      BY <1>1, <2>1, Pushed
    <2>3. /\ stack[i - 1] \in onstack /\ stack[i] \in onstack
          /\ stack[i] \in seen[stack[i - 1]]
      BY <1>7, <2>1, <2>2 DEF Tarjan, Calls, Linked
    <2>4. QED
      BY <1>3, <2>2, <2>3
  <1>8. Linked'
    BY <1>7 DEF Linked
  <1>9. QED
    BY <1>4, <1>6, <1>8

LEMMA EmitFunctionReach ==
    ASSUME TypeOK, Program, Frames, Tarjan, Reach, Optimize, NEW v \in Value,
           v \notin symbols, EmitFunction(v, tooptimize), SeenAfter(v)
    PROVE  Reach'
  <1> USE ValueAssumption DEF Reach
  <1>1. /\ v \in Fn /\ v \in Body
        /\ stack' = Append(stack, v)
        /\ index' = [index EXCEPT ![v] = functioncount]
        /\ lowlink' = [lowlink EXCEPT ![v] = functioncount]
        /\ onstack' = onstack \cup {v}
    BY DEF EmitFunction, Enqueue, FirstLowlink, Body
  <1>2. v \notin onstack /\ ~OnFrame(v)
    BY <1>1 DEF Tarjan, Queue, Frames
  <1>3. /\ index'[v] = functioncount /\ lowlink'[v] = functioncount
        /\ \A f \in Fn \ {v} : index'[f] = index[f] /\ lowlink'[f] = lowlink[f]
        /\ \A f \in onstack : /\ index[f] \in Nat /\ f \in Fn /\ f # v
                              /\ f \in Value /\ index[f] < functioncount
        /\ functioncount \in Nat
    BY <1>1, <1>2 DEF TypeOK, Tarjan, Queue, Value
  <1>4. \A f \in onstack : seen[f] \subseteq seen'[f]
    BY <1>3, SeenFacts
  <1>5. Rooted'
    <2>1. ASSUME NEW T, T \subseteq onstack',
                 \A k \in T : seen'[k] \cap onstack' \subseteq T,
                 NEW f \in T
          PROVE  \E h \in T : index'[h] = lowlink'[f]
      <3>1. CASE f = v
        BY <1>3, <3>1
      <3>2. CASE f # v
        <4> DEFINE U == T \ {v}
        <4>1. U \subseteq onstack /\ f \in U
          BY <1>1, <2>1, <3>2
        <4>2. \A k \in U : seen[k] \cap onstack \subseteq U
          BY <1>1, <1>2, <1>4, <2>1, <4>1
        <4>3. PICK h \in U : index[h] = lowlink[f]
          <5> HIDE DEF U
          <5>1. QED
            BY <4>1, <4>2 DEF Rooted
        <4>4. QED
          BY <1>3, <4>1, <4>3
      <3>3. QED
        BY <3>1, <3>2
    <2>2. QED
      BY <2>1 DEF Rooted
  <1>6. Busy => /\ Top \in Fn /\ Top \in onstack
                /\ seen'[Top] = seen[Top] \cup {v}
                /\ \A i \in DOMAIN stack : index[stack[i]] <= index[Top]
    <2> SUFFICES ASSUME Busy
                 PROVE  /\ Top \in Fn /\ Top \in onstack
                        /\ seen'[Top] = seen[Top] \cup {v}
                        /\ \A i \in DOMAIN stack : index[stack[i]] <= index[Top]
      OBVIOUS
    <2>1. Top \in Fn
      BY <1>1, TopFacts DEF SeenAfter, Program, Value
    <2>2. Top \in onstack
      BY <2>1, TopFacts DEF Tarjan, Calls, Top
    <2>3. \A i \in DOMAIN stack : index[stack[i]] <= index[Top]
      <3>1. ASSUME NEW i \in DOMAIN stack PROVE index[stack[i]] <= index[Top]
        <4>1. CASE i = Len(stack)
          BY <1>3, <2>2, <4>1 DEF Top
        <4>2. CASE i # Len(stack)
          <5>1. i < Len(stack) /\ Len(stack) \in DOMAIN stack
            BY <4>2, TopFacts
          <5>2. stack[i] \in Fn /\ index[stack[i]] < index[Top]
            BY <2>1, <5>1 DEF Tarjan, Calls, Top
          <5>3. QED
            BY <1>3, <2>2, <5>2 DEF TypeOK
        <4>3. QED
          BY <4>1, <4>2
      <3>2. QED
        BY <3>1
    <2>4. seen'[Top] = seen[Top] \cup {v}
      BY <1>3, <2>2, TopFacts DEF SeenAfter, Fresh, TypeOK
    <2>5. QED
      BY <2>1, <2>2, <2>3, <2>4
  <1>7. Spawned'
    <2>1. ASSUME NEW i \in DOMAIN stack', stack'[i] \in Fn,
                 NEW f \in onstack', index'[stack'[i]] < index'[f]
          PROVE  \E p \in onstack' : /\ index'[stack'[i]] <= index'[p]
                                     /\ index'[p] < index'[f]
                                     /\ f \in seen'[p]
      <3>1. i # Len(stack) + 1
        BY <1>1, <1>3, <2>1, Pushed
      <3>2. i \in DOMAIN stack /\ stack'[i] = stack[i] /\ Busy
        BY <1>1, <3>1, Pushed DEF Busy
      <3>3. stack[i] \in onstack /\ index'[stack[i]] = index[stack[i]]
        BY <1>3, <2>1, <3>2 DEF Tarjan, Calls
      <3>4. CASE f = v
        <4>1. /\ Top \in onstack'
              /\ index'[stack[i]] <= index'[Top]
              /\ index'[Top] < index'[f]
              /\ f \in seen'[Top]
          BY <1>1, <1>3, <1>6, <3>2, <3>3, <3>4
        <4>2. QED
          BY <3>2, <4>1
      <3>5. CASE f # v
        <4>1. f \in onstack /\ index[stack[i]] < index[f]
          BY <1>1, <1>3, <2>1, <3>2, <3>3, <3>5
        <4>2. PICK p \in onstack : /\ index[stack[i]] <= index[p]
                                   /\ index[p] < index[f]
                                   /\ f \in seen[p]
          BY <2>1, <3>2, <4>1 DEF Spawned
        <4>3. QED
          BY <1>1, <1>3, <1>4, <3>2, <3>3, <4>1, <4>2
      <3>6. QED
        BY <3>4, <3>5
    <2>2. QED
      BY <2>1 DEF Spawned
  <1>8. Linked'
    <2>1. ASSUME NEW i \in DOMAIN stack', i > 1, stack'[i] \in Fn
          PROVE  stack'[i] \in seen'[stack'[i - 1]]
      <3>1. CASE i = Len(stack) + 1
        <4>1. Busy /\ stack'[i - 1] = Top /\ stack'[i] = v
          BY <1>1, <2>1, <3>1, Pushed DEF Busy, Top
        <4>2. QED
          BY <1>6, <4>1
      <3>2. CASE i # Len(stack) + 1
        <4>1. i \in DOMAIN stack /\ i - 1 \in DOMAIN stack /\ i - 1 < i
          BY <1>1, <2>1, <3>2, Pushed
        <4>2. stack'[i] = stack[i] /\ stack'[i - 1] = stack[i - 1]
          BY <1>1, <4>1, Pushed
        <4>3. stack[i - 1] \in onstack /\ stack[i] \in seen[stack[i - 1]]
          BY <2>1, <4>1, <4>2 DEF Tarjan, Calls, Linked
        <4>4. QED
          BY <1>4, <4>2, <4>3
      <3>3. QED
        BY <3>1, <3>2
    <2>2. QED
      BY <2>1 DEF Linked
  <1>9. QED
    BY <1>5, <1>7, <1>8

(* A user that takes the lowlink of a queued value it references keeps a   *)
(* lowlink that is the number of a function it reaches.                    *)
LEMMA LowerRooted ==
    ASSUME TypeOK, Rooted, NEW u \in Value, NEW r \in Value,
           lowlink' = Lower(u, r), index' = index, onstack' = onstack,
           r \in onstack => r \in seen'[u],
           \A f \in onstack : seen[f] \subseteq seen'[f]
    PROVE  Rooted'
  <1>1. ASSUME NEW T, T \subseteq onstack,
               \A k \in T : seen'[k] \cap onstack \subseteq T,
               NEW f \in T
        PROVE  \E h \in T : index[h] = lowlink'[f]
    <2>1. \A k \in T : seen[k] \cap onstack \subseteq T
      BY <1>1
    <2>2. \A g \in T : \E h \in T : index[h] = lowlink[g]
      BY <1>1, <2>1 DEF Rooted
    <2>3. f \in Fn
      BY <1>1 DEF TypeOK
    <2>4. CASE lowlink'[f] = lowlink[f]
      BY <2>2, <2>4
    <2>5. CASE f = u /\ r \in onstack /\ lowlink'[f] = lowlink[r]
      BY <1>1, <2>2, <2>5
    <2>6. QED
      BY <2>3, <2>4, <2>5, LowerFacts
  <1>2. QED
    BY <1>1 DEF Rooted

LEMMA RevisitReach ==
    ASSUME TypeOK, Frames, Tarjan, Reach, NEW v \in Value, Revisit(v)
    PROVE  Reach'
  <1> USE DEF Reach
  <1>1. /\ Busy /\ v \in refs[Top]
        /\ seen' = [seen EXCEPT ![Top] = @ \cup {v}]
        /\ lowlink' = Lower(Top, v)
        /\ UNCHANGED <<stack, index, onstack>>
    BY DEF Revisit
  <1>2. /\ v \in seen'[Top]
        /\ \A w \in Value : seen[w] \subseteq seen'[w]
    BY <1>1, TopFacts DEF TypeOK
  <1>3. \A f \in onstack : f \in Value
    BY DEF TypeOK, Value
  <1>4. Rooted'
    BY <1>1, <1>2, <1>3, TopFacts, LowerRooted
  <1>5. Spawned'
    BY <1>1, <1>2, <1>3 DEF Spawned
  <1>6. ASSUME NEW i \in DOMAIN stack, i > 1, stack[i] \in Fn
        PROVE  stack[i] \in seen'[stack[i - 1]]
    <2>1. stack[i - 1] \in Value
      BY <1>6 DEF TypeOK
    <2>2. QED
      BY <1>2, <1>6, <2>1 DEF Linked
  <1>7. Linked'
    BY <1>1, <1>6 DEF Linked
  <1>8. QED
    BY <1>4, <1>5, <1>7

(* Frames that are left in place by a return.                              *)
LEMMA PoppedReach ==
    ASSUME TypeOK, Spawned, Linked, Busy, stack' = Pop(stack), seen' = seen,
           index' = index, onstack' = onstack
    PROVE  Spawned' /\ Linked'
  <1>1. \A i \in DOMAIN stack' :
            /\ i \in DOMAIN stack /\ stack'[i] = stack[i]
            /\ i > 1 => stack'[i - 1] = stack[i - 1]
    BY Popped
  <1>2. Spawned'
    BY <1>1 DEF Spawned
  <1>3. Linked'
    BY <1>1 DEF Linked
  <1>4. QED
    BY <1>2, <1>3

LEMMA FinishMemberReach ==
    ASSUME TypeOK, Frames, Tarjan, Reach, NEW f \in Value, FinishMember(f)
    PROVE  Reach'
  <1> USE DEF Reach
  <1>1. /\ Busy /\ f = Top /\ f \in Fn
        /\ stack' = Pop(stack)
        /\ lowlink' = IF Len(stack) > 1 THEN Lower(Caller, f) ELSE lowlink
        /\ UNCHANGED <<seen, index, onstack>>
    BY DEF FinishMember, BodyDone, Root
  <1>2. CASE Len(stack) > 1
    <2>1. Caller \in Value /\ f \in seen[Caller]
      BY <1>1, <1>2, TopFacts DEF Linked, Top, Caller
    <2>2. Rooted'
      BY <1>1, <1>2, <2>1, LowerRooted
    <2>3. QED
      BY <1>1, <2>2, PoppedReach
  <1>3. CASE ~(Len(stack) > 1)
    <2>1. Rooted'
      BY <1>1, <1>3 DEF Rooted
    <2>2. QED
      BY <1>1, <2>1, PoppedReach
  <1>4. QED
    BY <1>2, <1>3

LEMMA FinishGlobalReach ==
    ASSUME TypeOK, Reach, NEW g \in Value, FinishGlobal(g)
    PROVE  Reach'
  <1> USE DEF Reach
  <1>1. /\ Busy /\ stack' = Pop(stack)
        /\ UNCHANGED <<seen, index, lowlink, onstack>>
    BY DEF FinishGlobal, BodyDone, tarjan
  <1>2. Rooted'
    BY <1>1 DEF Rooted
  <1>3. QED
    BY <1>1, <1>2, PoppedReach

LEMMA FinishSccReach ==
    ASSUME TypeOK, Program, Frames, Tarjan, Reach, NEW r \in Value,
           FinishScc(r)
    PROVE  Reach'
  <1> USE DEF Reach
  <1>1. /\ Busy /\ r \in Fn /\ Optimize /\ BodyDone(r)
        /\ lowlink[r] = index[r]
        /\ stack' = Pop(stack)
        /\ onstack' = onstack \ Scc(r)
        /\ UNCHANGED <<refs, seen, index, lowlink>>
    BY DEF FinishScc, BodyDone, Root, Unqueue
  <1>2. /\ r \in onstack
        /\ \A g \in Scc(r) : seen[g] = refs[g]
        /\ \A g \in Scc(r) : Callees(g) \subseteq optimized \cup Scc(r)
    BY <1>1, SccClosed
  <1>3. /\ \A g \in onstack : /\ index[g] \in Nat /\ lowlink[g] \in Nat
                              /\ lowlink[g] <= index[g]
                              /\ g \in onstack' <=> index[g] < index[r]
        /\ Scc(r) \subseteq onstack /\ onstack' \subseteq onstack
    BY <1>1, <1>2, SccFacts DEF TypeOK, Tarjan, Lowlinks
  <1>4. Rooted'
    <2>1. ASSUME NEW T, T \subseteq onstack',
                 \A k \in T : seen[k] \cap onstack' \subseteq T,
                 NEW f \in T
          PROVE  \E h \in T : index[h] = lowlink[f]
      <3> DEFINE U == T \cup Scc(r)
      <3>1. U \subseteq onstack /\ f \in U
        BY <1>3, <2>1
      <3>2. ASSUME NEW k \in U, NEW c \in seen[k] \cap onstack
            PROVE  c \in U
        <4>1. CASE k \in T
          BY <1>1, <2>1, <3>2, <4>1
        <4>2. CASE k \in Scc(r)
          <5>1. c \in Callees(k)
            BY <1>2, <3>2, <4>2 DEF Callees, Tarjan, Queue, Body
          <5>2. c \notin optimized
            BY <3>2 DEF Tarjan, Queue
          <5>3. QED
            BY <1>2, <4>2, <5>1, <5>2
        <4>3. QED
          BY <4>1, <4>2
      <3>3. PICK h \in U : index[h] = lowlink[f]
        <4> HIDE DEF U
        <4>1. QED
          BY <3>1, <3>2 DEF Rooted
      <3>4. h \in onstack /\ index[h] < index[r]
        BY <1>2, <1>3, <2>1, <3>1, <3>3
      <3>5. QED
        BY <1>1, <1>3, <3>3, <3>4
    <2>2. QED
      BY <1>1, <2>1 DEF Rooted
  <1>5. \A i \in DOMAIN stack' :
            /\ i \in DOMAIN stack /\ stack'[i] = stack[i]
            /\ i > 1 => stack'[i - 1] = stack[i - 1]
    BY <1>1, Popped
  <1>6. Linked'
    BY <1>1, <1>5 DEF Linked
  <1>7. Spawned'
    <2>1. ASSUME NEW i \in DOMAIN stack', stack'[i] \in Fn,
                 NEW f \in onstack', index[stack'[i]] < index[f]
          PROVE  \E p \in onstack' : /\ index[stack'[i]] <= index[p]
                                     /\ index[p] < index[f]
                                     /\ f \in seen[p]
      <3>1. PICK p \in onstack : /\ index[stack[i]] <= index[p]
                                 /\ index[p] < index[f]
                                 /\ f \in seen[p]
        BY <1>3, <1>5, <2>1 DEF Spawned
      <3>2. p \in onstack'
        BY <1>2, <1>3, <2>1, <3>1
      <3>3. QED
        BY <1>5, <2>1, <3>1, <3>2
    <2>2. QED
      BY <1>1, <2>1 DEF Spawned
  <1>8. QED
    BY <1>4, <1>6, <1>7

LEMMA ReachStep ==
    ASSUME TypeOK, Program, Frames, Tarjan, Reach, Optimize, [Next]_vars
    PROVE  Reach'
  <1>1. CASE UNCHANGED vars
    BY <1>1 DEF Reach, Rooted, Spawned, Linked, vars, tarjan
  <1>2. ASSUME NEW v \in Value, Emit(v, tooptimize), SeenAfter(v)
        PROVE  Reach'
    BY <1>2, EmitExternReach, EmitFunctionReach, EmitGlobalReach DEF Emit
  <1>3. ASSUME NEW v \in Value, AddValue(v) PROVE Reach'
    <2>1. ~Busy /\ tooptimize = << >>
      BY <1>3, IdleQueue DEF AddValue, Tarjan
    <2>2. CASE Emit(v, << >>) /\ seen' = Fresh(seen, v)
      BY <1>2, <2>1, <2>2 DEF SeenAfter
    <2>3. CASE UNCHANGED <<stack, seen, symtab, index, lowlink, onstack,
                           functioncount>>
      BY <2>3 DEF Reach, Rooted, Spawned, Linked
    <2>4. QED
      BY <1>3, <2>2, <2>3 DEF AddValue
  <1>4. ASSUME NEW v \in Value, Descend(v) PROVE Reach'
    BY <1>2, <1>4 DEF Descend, SeenAfter
  <1>5. QED
    BY <1>1, <1>3, <1>4, RevisitReach, FinishSccReach, FinishMemberReach,
       FinishGlobalReach DEF Next, Step

LEMMA OrderInvInit == DataOnly /\ Init => OrderInv
  <1> SUFFICES ASSUME DataOnly, Init PROVE OrderInv
    OBVIOUS
  <1>1. IInv
    BY InitInvariant
  <1>2. Rooted /\ Spawned /\ Linked
    BY DEF Init, Rooted, Spawned, Linked
  <1>3. QED
    BY <1>1, <1>2 DEF OrderInv

LEMMA OrderInvNext == OrderInv /\ [Next]_vars => OrderInv'
  <1> SUFFICES ASSUME OrderInv, [Next]_vars PROVE OrderInv'
    OBVIOUS
  <1>1. IInv'
    BY NextInvariant DEF OrderInv
  <1>2. Optimize => (Rooted /\ Spawned /\ Linked)'
    BY ReachStep DEF OrderInv, IInv, Tarjan, Reach
  <1>3. QED
    BY <1>1, <1>2 DEF OrderInv

(* Each queued function's lowlink is the number of a function it reaches,  *)
(* and the functions begun after one in emission are reached from it.      *)
THEOREM OrderInvariant == DataOnly => (Spec => []OrderInv)
  <1>1. ASSUME DataOnly PROVE Spec => []OrderInv
    <2>1. Init => OrderInv
      BY <1>1, OrderInvInit
    <2>2. QED
      BY <2>1, OrderInvNext, PTL DEF Spec
  <1>2. QED
    BY <1>1
-----------------------------------------------------------------------------
(* The functions popped with a root are strongly connected: a part of them *)
(* that is closed under calls holds the root, because the member begun     *)
(* first could only have the lowlink of a root; and then it holds          *)
(* everything, because each other member was referenced by an earlier one. *)
LEMMA SccConnected ==
    ASSUME TypeOK, Program, Frames, Tarjan, Reach, NEW r \in Fn, Optimize,
           BodyDone(r), lowlink[r] = index[r],
           NEW T, T \subseteq Scc(r), T # {},
           \A f \in T : Callees(f) \cap Scc(r) \subseteq T
    PROVE  T = Scc(r)
  <1>1. /\ r \in onstack /\ Busy /\ r = Top
        /\ \A g \in Scc(r) : g = r \/ g \in emitted
        /\ \A g \in Scc(r) : seen[g] = refs[g]
        /\ \A g \in Scc(r) : Callees(g) \subseteq optimized \cup Scc(r)
    BY SccClosed DEF BodyDone
  <1>2. /\ Scc(r) \subseteq onstack
        /\ \A g \in onstack : /\ g \in Scc(r) <=> index[r] <= index[g]
                              /\ index[g] \in Nat /\ lowlink[g] \in Nat
                              /\ g \in Body /\ g \notin optimized
    BY <1>1, SccFacts DEF Tarjan, Queue, TypeOK
  <1>3. \A f \in T : seen[f] \cap onstack \subseteq T
    <2>1. ASSUME NEW f \in T, NEW c \in seen[f] \cap onstack
          PROVE  c \in T
      <3>1. f \in Scc(r) /\ c \in Callees(f)
        BY <1>1, <1>2, <2>1 DEF Callees, Body
      <3>2. QED
        BY <1>1, <1>2, <2>1, <3>1
    <2>2. QED
      BY <2>1
  <1>4. r \in T
    <2>1. PICK f \in T : \A g \in T : index[f] <= index[g]
      BY <1>2, FirstBegun
    <2>2. PICK h \in T : index[h] = lowlink[f]
      BY <1>2, <1>3 DEF Reach, Rooted
    <2>3. ~(lowlink[f] < index[f])
      BY <1>2, <2>1, <2>2
    <2>4. f \notin emitted
      BY <1>2, <2>3 DEF Tarjan, Lowlinks
    <2>5. QED
      BY <1>1, <2>4
  <1>5. SUFFICES ASSUME Scc(r) \ T # {} PROVE FALSE
    OBVIOUS
  <1>6. PICK s \in Scc(r) \ T : \A g \in Scc(r) \ T : index[s] <= index[g]
    BY <1>2, <1>5, FirstBegun
  <1>7. index[r] < index[s]
    <2>1. index[r] # index[s]
      BY <1>1, <1>2, <1>4, <1>6, QueueFacts DEF Tarjan
    <2>2. QED
      BY <1>1, <1>2, <1>6, <2>1
  <1>8. PICK p \in onstack :
            index[r] <= index[p] /\ index[p] < index[s] /\ s \in seen[p]
    BY <1>1, <1>2, <1>6, <1>7, TopFacts DEF Reach, Spawned, Top
  <1>9. p \in T
    BY <1>2, <1>6, <1>8
  <1>10. QED
    BY <1>2, <1>3, <1>6, <1>8, <1>9

(* A step of the emitter optimizes one SCC, or stutters.                   *)
LEMMA OrderStep == OrderInv /\ [Next]_vars => [Order!Next]_(Order!vars)
  <1> SUFFICES ASSUME OrderInv, [Next]_vars
               PROVE  [Order!Next]_(Order!vars)
    OBVIOUS
  <1>1. refs' = refs
    BY DEF Next, Step, AddValue, Revisit, Descend, FinishScc, FinishMember,
           FinishGlobal, vars
  <1>2. \A f \in Fn \ Extern : Callees(f)' = Callees(f)
    BY <1>1 DEF Callees
  <1>3. ASSUME NEW r \in Value, FinishScc(r)
        PROVE  Order!Next
    <2> DEFINE S == Scc(r)
    <2>1. /\ r \in Fn /\ Optimize /\ BodyDone(r) /\ lowlink[r] = index[r]
          /\ optimized' = optimized \cup S
      BY <1>3 DEF FinishScc, Root
    <2>2. TypeOK /\ Program /\ Frames /\ Tarjan /\ Reach
      BY <2>1 DEF OrderInv, IInv, Tarjan, Reach
    <2>3. /\ r \in onstack
          /\ \A g \in S : Callees(g) \subseteq optimized \cup S
      BY <2>1, <2>2, SccClosed
    <2>4. /\ r \in S /\ S \subseteq onstack /\ S \subseteq Fn \ Extern
          /\ S \cap optimized = {}
      <3>1. S \subseteq onstack /\ (r \in S <=> index[r] <= index[r])
        BY <2>2, <2>3, SccFacts DEF Tarjan
      <3>2. QED
        BY <2>2, <2>3, <3>1 DEF Tarjan, Queue, Body, TypeOK
    <2>5. Order!StronglyConnected(S)
      <3>1. ASSUME NEW T \in SUBSET S, T # {},
                   \A f \in T : Callees(f) \cap S \subseteq T
            PROVE  T = S
        <4>1. T \subseteq Scc(r)
          OBVIOUS
        <4>2. QED
          BY <2>1, <2>2, <3>1, <4>1, SccConnected
      <3>2. \A f \in S :
                [g \in Fn \ Extern |-> Callees(g)][f] = Callees(f)
        BY <2>4
      <3> HIDE DEF S
      <3>3. QED
        BY <3>1, <3>2 DEF Order!StronglyConnected
    <2>6. Order!OptimizeScc(S)
      <3>1. \A f \in S :
                [g \in Fn \ Extern |-> Callees(g)][f] = Callees(f)
        BY <2>4
      <3>2. [g \in Fn \ Extern |-> Callees(g)]'
                = [g \in Fn \ Extern |-> Callees(g)]
        BY <1>2
      <3> HIDE DEF S
      <3>3. QED
        BY <2>1, <2>3, <2>4, <2>5, <3>1, <3>2 DEF Order!OptimizeScc
    <2>7. QED
      BY <2>4, <2>6 DEF Order!Next
  <1>4. CASE optimized' = optimized
    BY <1>2, <1>4 DEF Order!vars
  <1>5. QED
    BY <1>3, <1>4 DEF Next, Step, AddValue, Revisit, Descend, FinishMember,
                      FinishGlobal, vars

(* The emitter implements SccOrder for every program whose initializers    *)
(* use no function: its batches are the SCCs of the call graph, in an      *)
(* order in which callees come first (EmitFunction and emitFunction).      *)
THEOREM Refinement == DataOnly => (Spec => ImplementsSccOrder)
  <1>1. OrderInv /\ Init => Order!Init
    BY DEF Init, Order!Init, Callees
  <1>2. DataOnly /\ Init => Order!Init
    BY <1>1, OrderInvInit
  <1>3. ASSUME DataOnly PROVE Spec => ImplementsSccOrder
    <2>1. Init => Order!Init
      BY <1>2, <1>3
    <2>2. Spec => []OrderInv
      BY <1>3, OrderInvariant
    <2>3. QED
      BY <2>1, <2>2, OrderStep, PTL DEF Spec, Order!Spec, ImplementsSccOrder
  <1>4. QED
    BY <1>3
=============================================================================
