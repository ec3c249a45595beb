----------------------- MODULE TypeCompletion_proofs -----------------------
(***************************************************************************)
(* Proofs about TypeCompletion, for every set of struct types, every list  *)
(* of entries and every program.                                           *)
(***************************************************************************)
EXTENDS TypeCompletion, TLAPS

(* Where a call may have called another function.                          *)
Points == {<<"layoutstruct", "begin">>, <<"layoutstruct", "entries">>,
           <<"layoutstruct", "lua">>,
           <<"getentries", "begin">>, <<"getentries", "lua">>,
           <<"getlayout", "begin">>, <<"getlayout", "entries">>,
           <<"complete", "begin">>, <<"complete", "layout">>,
           <<"complete", "element">>, <<"complete", "members">>,
           <<"complete", "lua">>, <<"lua", "begin">>}

Is(frame, op, at) == frame.op = op /\ frame.at = at

Frame ==
    {frame \in [op : Calls \cup {"lua"}, type : Member,
                at : {"begin", "entries", "lua", "layout", "element", "members"},
                i : Nat \ {0}] :
        /\ <<frame.op, frame.at>> \in Points
        /\ frame.op # "lua" => frame.type \in Type
        /\ frame.type \notin Struct =>
               \/ frame.op = "lua"
               \/ Is(frame, "complete", "begin")
               \/ Is(frame, "complete", "element")
        /\ Is(frame, "complete", "element") => frame.type \notin Struct}

Typed ==
    /\ entries \in [Struct -> Lists]
    /\ undefined \in [Struct -> BOOLEAN]
    /\ tree \in [Struct -> BOOLEAN]
    /\ cachedentries \in [Struct -> Lists \cup {NotYet}]
    /\ ingetentries \in [Struct -> BOOLEAN]
    /\ cachedlayout \in [Struct -> BOOLEAN]
    /\ ingetlayout \in [Struct -> BOOLEAN]
    /\ incomplete \in [Type -> BOOLEAN]
    /\ initialized \in Seq(Struct)
    /\ stack \in Seq(Frame)

(* A property that is there is not being computed, and has not failed.     *)
Memoized ==
    \A s \in Struct : /\ ingetentries[s] => cachedentries[s] = NotYet
                      /\ ingetlayout[s] => ~cachedlayout[s]

(* An array is complete when its elements are.                             *)
ArraysFollow == \A t \in Type : ~incomplete[t] => ~incomplete[Element(t)]

(* The call of frame has called that of next.                              *)
Called(frame, next) ==
    /\ frame.op = "layoutstruct" => next.op = "lua"
    /\ frame.op = "getentries" => frame.at = "lua" /\ next.op = "lua"
    /\ frame.op = "getlayout" =>
           /\ frame.at = "entries"
           /\ \/ /\ frame.i = 1
                 /\ next.op = "getentries" /\ next.type = frame.type
              \/ /\ cachedentries[frame.type] # NotYet
                 /\ frame.i - 1 \in DOMAIN cachedentries[frame.type]
                 /\ next.op = "getlayout"
                 /\ next.type = Element(cachedentries[frame.type][frame.i - 1])
    /\ frame.op = "complete" =>
           \/ /\ frame.at = "layout"
              /\ next.op = "getlayout" /\ next.type = frame.type
           \/ /\ frame.at = "element"
              /\ next.op = "complete" /\ next.type = Element(frame.type)
           \/ /\ frame.at = "members"
              /\ frame.i - 1 \in DOMAIN cachedentries[frame.type]
              /\ next.op = "complete"
              /\ next.type = cachedentries[frame.type][frame.i - 1]
           \/ /\ frame.at = "lua" /\ next.op = "lua"

(* What a call has done, but for the last function that it called.         *)
Progress(frame) ==
    /\ Is(frame, "getlayout", "entries") /\ frame.i > 1 =>
           /\ cachedentries[frame.type] # NotYet
           /\ \A j \in DOMAIN cachedentries[frame.type] :
                  j + 1 < frame.i => Element(cachedentries[frame.type][j]) \in LaidOut
    /\ Is(frame, "complete", "members") \/ Is(frame, "complete", "lua") =>
           cachedlayout[frame.type] /\ ~incomplete[frame.type]
    /\ Is(frame, "complete", "members") =>
           \A j \in DOMAIN cachedentries[frame.type] :
               j + 1 < frame.i => ~incomplete[Element(cachedentries[frame.type][j])]

(* What it knows when that one has returned.                               *)
Returned(frame) ==
    /\ Is(frame, "getlayout", "entries") =>
           /\ cachedentries[frame.type] # NotYet
           /\ \A j \in DOMAIN cachedentries[frame.type] :
                  j < frame.i => Element(cachedentries[frame.type][j]) \in LaidOut
    /\ Is(frame, "complete", "layout") => cachedlayout[frame.type]
    /\ Is(frame, "complete", "element") => ~incomplete[Element(frame.type)]
    /\ Is(frame, "complete", "members") =>
           \A j \in DOMAIN cachedentries[frame.type] :
               j < frame.i => ~incomplete[Element(cachedentries[frame.type][j])]

(* The marks that a call that is under way has left.                       *)
Marked(frame) ==
    /\ Is(frame, "getentries", "lua") => ingetentries[frame.type]
    /\ Is(frame, "getlayout", "entries") => ingetlayout[frame.type]
    /\ Is(frame, "complete", "layout") => incomplete[frame.type]

(* Of these no type has two calls that are under way.                      *)
Exclusive(frame) ==
    \/ Is(frame, "getentries", "lua")
    \/ Is(frame, "getlayout", "entries")
    \/ Is(frame, "complete", "members")

Same(frame, other) ==
    frame.op = other.op /\ frame.at = other.at /\ frame.type = other.type

StackSound ==
    /\ \A k \in DOMAIN stack : Progress(stack[k]) /\ Marked(stack[k])
    /\ \A k \in DOMAIN stack : k + 1 \in DOMAIN stack => Called(stack[k], stack[k + 1])
    /\ stack # << >> => Returned(stack[Len(stack)])
    /\ \A j, k \in DOMAIN stack :
           Exclusive(stack[j]) /\ Same(stack[j], stack[k]) => j = k

(* The types with a call of __staticinitialize have a layout and no call   *)
(* that would make another.                                                *)
InitializedSound ==
    \A n \in DOMAIN initialized :
        /\ cachedlayout[initialized[n]]
        /\ \A k \in DOMAIN stack :
               Is(stack[k], "complete", "members") => stack[k].type # initialized[n]

IInv ==
    /\ Typed /\ Memoized /\ ArraysFollow /\ StackSound
    /\ LayoutsFinite /\ InitializedSound /\ InitializedOnce
-----------------------------------------------------------------------------
(* Types and frames.                                                       *)
LEMMA ElementFacts ==
    /\ \A s \in Struct : s \in Type /\ Element(s) = s
    /\ \A t \in Type : t \in Member /\ t # Opaque /\ Element(t) \in Struct
    /\ Opaque \in Member /\ Element(Opaque) = Opaque /\ Opaque \notin Struct
  BY StructAssumption DEF Element, Type, Member, ArrayOf

LEMMA ListFacts ==
    ASSUME Typed, NEW s \in Struct, cachedentries[s] # NotYet
    PROVE  /\ cachedentries[s] \in Seq(Member)
           /\ \A j \in DOMAIN cachedentries[s] :
                  /\ cachedentries[s][j] \in Member
                  /\ Element(cachedentries[s][j]) \in Elements(cachedentries[s])
                  /\ Element(cachedentries[s][j]) # Opaque =>
                         cachedentries[s][j] \in Type
  <1>1. cachedentries[s] \in Seq(Member)
    BY ListsAssumption DEF Typed
  <1>2. QED
    BY <1>1, ElementFacts DEF Elements, Member

LEMMA FrameFacts ==
    ASSUME NEW frame \in Frame
    PROVE  /\ frame.op \in {"layoutstruct", "getentries", "getlayout"} => frame.type \in Struct
           /\ Is(frame, "getentries", "lua") => frame.type \in Struct
           /\ Is(frame, "getlayout", "entries") => frame.type \in Struct
           /\ Is(frame, "complete", "layout") => frame.type \in Struct
           /\ Is(frame, "complete", "members") => frame.type \in Struct
           /\ Is(frame, "complete", "lua") => frame.type \in Struct
           /\ Is(frame, "complete", "element") => frame.type \notin Struct
           /\ frame.op = "complete" => frame.type \in Type
           /\ frame.i \in Nat /\ frame.i > 0
           /\ frame.op = "lua" => frame.at = "begin"
  BY DEF Frame, Is, Points

LEMMA NewFrame ==
    /\ LuaFrame \in Frame
    /\ \A s \in Struct : /\ Begin("layoutstruct", s) \in Frame
                         /\ Begin("getentries", s) \in Frame
                         /\ Begin("getlayout", s) \in Frame
    /\ \A t \in Type : Begin("complete", t) \in Frame
  BY ElementFacts DEF LuaFrame, Begin, Frame, Points, Calls, Is, Member

LEMMA TopFacts ==
    ASSUME stack \in Seq(Frame), stack # << >>
    PROVE  /\ Len(stack) \in Nat /\ Len(stack) \in DOMAIN stack
           /\ DOMAIN stack = 1 .. Len(stack)
           /\ Top = stack[Len(stack)] /\ Top \in Frame
           /\ Pop = SubSeq(stack, 1, Len(stack) - 1)
           /\ Len(stack) - 1 \in 0 .. Len(stack)
           /\ Len(stack) > 1 =>
                  /\ Len(stack) - 1 \in DOMAIN stack
                  /\ Below = stack[Len(stack) - 1] /\ Below \in Frame
                  /\ Len(stack) - 2 \in 0 .. Len(stack)
                  /\ SubSeq(Pop, 1, Len(Pop) - 1) = SubSeq(stack, 1, Len(stack) - 2)
  BY DEF Top, Below, Pop

(* A frame at another point of its function.                               *)
Moved(frame, old, at, i) ==
    /\ frame \in Frame /\ frame.op = old.op /\ frame.type = old.type
    /\ frame.at = at /\ frame.i = i

LEMMA MoveFacts ==
    ASSUME NEW f \in Frame, NEW at, NEW i \in Nat \ {0},
           <<f.op, at>> \in Points, f.op # "lua",
           IF f.type \in Struct THEN at # "element" ELSE at = "element" /\ f.op = "complete"
    PROVE  Moved([[f EXCEPT !.at = at] EXCEPT !.i = i], f, at, i)
  <1> DEFINE Ops == Calls \cup {"lua"}
             Ats == {"begin", "entries", "lua", "layout", "element", "members"}
             new == [[f EXCEPT !.at = at] EXCEPT !.i = i]
  <1>1. at \in Ats
    BY DEF Points
  <1>2. f \in [op : Ops, type : Member, at : Ats, i : Nat \ {0}] /\ f.type \in Type
    BY DEF Frame
  <1> HIDE DEF Ops, Ats
  <1>3. new \in [op : Ops, type : Member, at : Ats, i : Nat \ {0}]
    BY <1>1, <1>2
  <1>4. new.op = f.op /\ new.type = f.type /\ new.at = at /\ new.i = i
    BY <1>2
  <1> HIDE DEF new
  <1>5. new \in Frame
    BY <1>2, <1>3, <1>4 DEF Frame, Is, Ops, Ats
  <1>6. QED
    BY <1>4, <1>5 DEF Moved, new

LEMMA AtFacts ==
    ASSUME stack \in Seq(Frame), stack # << >>, NEW at, NEW i \in Nat \ {0},
           <<Top.op, at>> \in Points, Top.op # "lua",
           IF Top.type \in Struct THEN at # "element"
                                  ELSE at = "element" /\ Top.op = "complete"
    PROVE  \E f : Moved(f, Top, at, i) /\ At(at, i) = [stack EXCEPT ![Len(stack)] = f]
  <1> DEFINE n == Len(stack)
             f == [[Top EXCEPT !.at = at] EXCEPT !.i = i]
  <1>1. n \in DOMAIN stack /\ Top \in Frame /\ Top = stack[n]
    BY TopFacts
  <1>2. Moved(f, Top, at, i)
    BY <1>1, MoveFacts
  <1>3. At(at, i) = [stack EXCEPT ![n] = f]
    BY <1>1 DEF At
  <1>4. QED
    BY <1>2, <1>3

-----------------------------------------------------------------------------
(* What is known is never forgotten: entries and layouts stay, what is     *)
(* complete stays complete.                                                *)
Grows ==
    /\ \A s \in Struct :
           /\ cachedentries[s] # NotYet => cachedentries'[s] = cachedentries[s]
           /\ cachedlayout[s] => cachedlayout'[s]
    /\ \A t \in Type : ~incomplete[t] => ~incomplete'[t]

Solid == Typed /\ Typed' /\ Grows /\ LayoutsFinite

LEMMA LaidOutFacts ==
    ASSUME Solid, NEW s \in Struct, cachedlayout[s]
    PROVE  /\ cachedentries[s] # NotYet /\ cachedentries'[s] = cachedentries[s]
           /\ \A j \in DOMAIN cachedentries[s] :
                  /\ cachedentries[s][j] \in Type
                  /\ Element(cachedentries[s][j]) \in LaidOut
                  /\ Element(cachedentries[s][j]) \in Struct
  <1>1. /\ cachedentries[s] # NotYet /\ cachedentries'[s] = cachedentries[s]
        /\ Elements(cachedentries[s]) \subseteq LaidOut
    BY DEF Solid, Grows, LayoutsFinite, LaidOut
  <1>2. LaidOut \subseteq Struct /\ Opaque \notin LaidOut
    BY ElementFacts DEF LaidOut
  <1>3. QED
    BY <1>1, <1>2, ListFacts DEF Solid

LEMMA ProgressKept ==
    ASSUME Solid, NEW frame \in Frame, Progress(frame)
    PROVE  Progress(frame)'
  <1>1. LaidOut \subseteq LaidOut'
    BY DEF Solid, Grows, LaidOut
  <1>2. ASSUME Is(frame, "getlayout", "entries"), frame.i > 1
        PROVE  /\ cachedentries'[frame.type] # NotYet
               /\ \A j \in DOMAIN cachedentries'[frame.type] :
                      j + 1 < frame.i => Element(cachedentries'[frame.type][j]) \in LaidOut'
    BY <1>1, <1>2, FrameFacts DEF Progress, Solid, Grows
  <1>3. ASSUME Is(frame, "complete", "members") \/ Is(frame, "complete", "lua")
        PROVE  /\ frame.type \in Struct /\ cachedlayout[frame.type]
               /\ cachedlayout'[frame.type] /\ ~incomplete'[frame.type]
    BY <1>3, FrameFacts, ElementFacts DEF Progress, Solid, Grows
  <1>4. ASSUME Is(frame, "complete", "members"),
               NEW j \in DOMAIN cachedentries'[frame.type], j + 1 < frame.i
        PROVE  ~incomplete'[Element(cachedentries'[frame.type][j])]
    <2>1. /\ cachedentries'[frame.type] = cachedentries[frame.type]
          /\ Element(cachedentries[frame.type][j]) \in Struct
      BY <1>3, <1>4, LaidOutFacts
    <2>2. ~incomplete[Element(cachedentries[frame.type][j])]
      BY <1>4, <2>1 DEF Progress
    <2>3. QED
      BY <2>1, <2>2, ElementFacts DEF Solid, Grows
  <1>5. QED
    BY <1>2, <1>3, <1>4 DEF Progress

LEMMA CalledKept ==
    ASSUME Solid, NEW frame \in Frame, NEW next \in Frame,
           Progress(frame), Called(frame, next)
    PROVE  Called(frame, next)'
  <1>1. CASE frame.op = "getlayout"
    <2>1. frame.type \in Struct
      BY <1>1, FrameFacts
    <2>2. cachedentries[frame.type] # NotYet =>
              cachedentries'[frame.type] = cachedentries[frame.type]
      BY <2>1 DEF Solid, Grows
    <2>3. QED
      BY <1>1, <2>2 DEF Called
  <1>2. CASE Is(frame, "complete", "members")
    <2>1. frame.type \in Struct /\ cachedlayout[frame.type]
      BY <1>2, FrameFacts DEF Progress
    <2>2. cachedentries'[frame.type] = cachedentries[frame.type]
      BY <2>1, LaidOutFacts
    <2>3. QED
      BY <1>2, <2>2 DEF Called, Is
  <1>3. CASE frame.op # "getlayout" /\ ~Is(frame, "complete", "members")
    BY <1>3 DEF Called, Is
  <1>4. QED
    BY <1>1, <1>2, <1>3

(* The calls below the n-th keep their marks.                              *)
KeepMarks(n) ==
    \A k \in DOMAIN stack : k <= n =>
        \A frame \in Frame : frame = stack[k] => Marked(frame)'

(* What is known of the calls that go on, after a step.                    *)
LEMMA OldFrames ==
    ASSUME Solid, StackSound, NEW n \in Nat, KeepMarks(n),
           NEW k \in DOMAIN stack, NEW f \in Frame, f = stack[k]
    PROVE  /\ Progress(f)'
           /\ k <= n => Marked(f)'
           /\ \A g \in Frame :
                  k + 1 \in DOMAIN stack /\ g = stack[k + 1] => Called(f, g)'
  <1>1. Progress(f)
    BY DEF StackSound
  <1>2. Progress(f)'
    BY <1>1, ProgressKept
  <1>3. ASSUME NEW g \in Frame, k + 1 \in DOMAIN stack, g = stack[k + 1]
        PROVE  Called(f, g)'
    <2>1. Called(f, g)
      BY <1>3 DEF StackSound
    <2>2. QED
      BY <1>1, <2>1, CalledKept
  <1>4. QED
    BY <1>2, <1>3 DEF KeepMarks

(* The invariant of the stack, said of every frame there.                  *)
LEMMA SoundNext ==
    ASSUME Typed',
           \A k \in DOMAIN stack' : \A f \in Frame :
               f = stack'[k] => Progress(f)' /\ Marked(f)',
           \A k \in DOMAIN stack' : \A f, g \in Frame :
               k + 1 \in DOMAIN stack' /\ f = stack'[k] /\ g = stack'[k + 1] => Called(f, g)',
           \A f \in Frame : stack' # << >> /\ f = stack'[Len(stack')] => Returned(f)',
           \A j, k \in DOMAIN stack' :
               Exclusive(stack'[j]) /\ Same(stack'[j], stack'[k]) => j = k
    PROVE  StackSound'
  <1>1. /\ \A k \in DOMAIN stack' : stack'[k] \in Frame
        /\ stack' # << >> => Len(stack') \in DOMAIN stack'
    BY DEF Typed
  <1>2. \A k \in DOMAIN stack' : Progress(stack[k])' /\ Marked(stack[k])'
    BY <1>1
  <1>3. \A k \in DOMAIN stack' : k + 1 \in DOMAIN stack' => Called(stack[k], stack[k + 1])'
    BY <1>1
  <1>4. stack' # << >> => Returned(stack[Len(stack)])'
    BY <1>1
  <1>5. QED
    BY <1>2, <1>3, <1>4 DEF StackSound, Exclusive, Same, Is

(* Calls end, the last one that goes on has what it asked for.             *)
LEMMA CutSound ==
    ASSUME Solid, StackSound, NEW n \in 0 .. Len(stack),
           stack' = SubSeq(stack, 1, n), KeepMarks(n),
           \A f \in Frame : n > 0 /\ f = stack[n] => Returned(f)'
    PROVE  StackSound'
  <1>1. /\ stack \in Seq(Frame) /\ stack' \in Seq(Frame) /\ Len(stack') = n /\ n \in Nat
        /\ \A k \in DOMAIN stack' : k \in DOMAIN stack /\ k <= n /\ stack'[k] = stack[k]
    BY DEF Solid, Typed
  <1>2. \A k \in DOMAIN stack' : \A f \in Frame :
            f = stack'[k] => Progress(f)' /\ Marked(f)'
    BY <1>1, OldFrames
  <1>3. \A k \in DOMAIN stack' : \A f, g \in Frame :
            k + 1 \in DOMAIN stack' /\ f = stack'[k] /\ g = stack'[k + 1] => Called(f, g)'
    BY <1>1, OldFrames
  <1>4. \A f \in Frame : stack' # << >> /\ f = stack'[Len(stack')] => Returned(f)'
    BY <1>1
  <1>5. \A j, k \in DOMAIN stack' :
            Exclusive(stack'[j]) /\ Same(stack'[j], stack'[k]) => j = k
    BY <1>1 DEF StackSound
  <1>6. QED
    BY <1>2, <1>3, <1>4, <1>5, SoundNext DEF Solid

(* One of the calls goes on to another point of its function.              *)
LEMMA ChangeSound ==
    ASSUME Solid, StackSound,
           NEW n \in DOMAIN stack, NEW frame \in Frame,
           \A k \in DOMAIN stack : k # n =>
               \A f \in Frame : f = stack[k] => Marked(f)',
           stack' = [stack EXCEPT ![n] = frame],
           frame.op = stack[n].op, frame.type = stack[n].type,
           Progress(frame)', Marked(frame)',
           IF n = Len(stack) THEN Returned(frame)' ELSE stack[Len(stack)].op = "lua",
           \A g \in Frame : n + 1 \in DOMAIN stack /\ g = stack[n + 1] => Called(frame, g)',
           Exclusive(frame) => \A k \in DOMAIN stack : Same(frame, stack[k]) => k = n
    PROVE  StackSound'
  <1>1. /\ stack \in Seq(Frame) /\ stack' \in Seq(Frame) /\ Len(stack') = Len(stack)
        /\ n \in Nat /\ Len(stack) \in Nat /\ DOMAIN stack' = DOMAIN stack
        /\ DOMAIN stack = 1 .. Len(stack) /\ stack'[n] = frame
        /\ \A k \in DOMAIN stack : k # n => stack'[k] = stack[k]
        /\ \A k \in DOMAIN stack : stack[k] \in Frame
        /\ KeepMarks(0) /\ 0 \in Nat
    BY DEF Solid, Typed, KeepMarks
  <1>2. \A k \in DOMAIN stack' : \A f \in Frame :
            f = stack'[k] => Progress(f)' /\ Marked(f)'
    BY <1>1, OldFrames
  <1>3. ASSUME NEW k \in DOMAIN stack', NEW f \in Frame, NEW g \in Frame,
               k + 1 \in DOMAIN stack', f = stack'[k], g = stack'[k + 1]
        PROVE  Called(f, g)'
    <2>1. CASE k = n
      BY <1>1, <1>3, <2>1
    <2>2. CASE k + 1 = n
      <3>1. f = stack[k] /\ g = frame /\ stack[k + 1] \in Frame
        BY <1>1, <1>3, <2>2
      <3>2. PICK old \in Frame : old = stack[k + 1]
        BY <3>1
      <3>3. Called(f, old)'
        BY <1>1, <1>3, <3>1, <3>2, OldFrames
      <3>4. QED
        BY <2>2, <3>1, <3>2, <3>3 DEF Called
    <2>3. CASE k # n /\ k + 1 # n
      BY <1>1, <1>3, <2>3, OldFrames
    <2>4. QED
      BY <2>1, <2>2, <2>3
  <1>4. \A f \in Frame : stack' # << >> /\ f = stack'[Len(stack')] => Returned(f)'
    <2>1. SUFFICES ASSUME NEW f \in Frame, stack' # << >>, f = stack'[Len(stack')],
                          n # Len(stack)
                   PROVE  Returned(f)'
      BY <1>1
    <2>2. f.op = "lua"
      BY <1>1, <2>1
    <2>3. QED
      BY <2>2 DEF Returned, Is
  <1>5. \A j, k \in DOMAIN stack' :
            Exclusive(stack'[j]) /\ Same(stack'[j], stack'[k]) => j = k
    BY <1>1 DEF StackSound, Exclusive, Same, Is
  <1>6. QED
    BY <1>2, <1>3, <1>4, <1>5, SoundNext DEF Solid

(* What has just been called.                                              *)
LEMMA FreshFacts ==
    ASSUME NEW next \in Frame, next.at = "begin"
    PROVE  /\ Progress(next)' /\ Marked(next)' /\ Returned(next)'
           /\ ~Exclusive(next)
  BY DEF Progress, Marked, Returned, Exclusive, Is

(* The last call goes on to another point and calls a function there.      *)
LEMMA CallSound ==
    ASSUME Solid, StackSound, stack # << >>, KeepMarks(Len(stack)),
           NEW frame \in Frame, NEW next \in Frame, next.at = "begin",
           stack' = Append([stack EXCEPT ![Len(stack)] = frame], next),
           frame.op = stack[Len(stack)].op, frame.type = stack[Len(stack)].type,
           Progress(frame)', Marked(frame)', Called(frame, next)',
           Exclusive(frame) => \A k \in DOMAIN stack :
                                   Same(frame, stack[k]) => k = Len(stack)
    PROVE  StackSound'
  <1> DEFINE n == Len(stack)
  <1>1. /\ stack \in Seq(Frame) /\ stack' \in Seq(Frame) /\ Len(stack') = n + 1
        /\ n \in DOMAIN stack /\ n \in Nat /\ DOMAIN stack' = 1 .. n + 1
        /\ DOMAIN stack = 1 .. n /\ stack'[n] = frame /\ stack'[n + 1] = next
        /\ \A k \in DOMAIN stack : k # n => stack'[k] = stack[k]
        /\ \A k \in DOMAIN stack : stack[k] \in Frame
        /\ KeepMarks(n)
        /\ frame.op = stack[n].op /\ frame.type = stack[n].type
        /\ Exclusive(frame) => \A k \in DOMAIN stack : Same(frame, stack[k]) => k = n
    BY DEF Solid, Typed
  <1> HIDE DEF n
  <1>2. \A k \in DOMAIN stack' : \A f \in Frame :
            f = stack'[k] => Progress(f)' /\ Marked(f)'
    <2>1. ASSUME NEW k \in DOMAIN stack', NEW f \in Frame, f = stack'[k]
          PROVE  Progress(f)' /\ Marked(f)'
      <3>1. CASE k = n + 1
        BY <1>1, <2>1, <3>1, FreshFacts
      <3>2. CASE k = n
        BY <1>1, <2>1, <3>2
      <3>3. CASE k # n /\ k # n + 1
        <4>1. k \in DOMAIN stack /\ f = stack[k] /\ k <= n
          BY <1>1, <2>1, <3>3
        <4>2. QED
          BY <1>1, <4>1, OldFrames
      <3>4. QED
        BY <3>1, <3>2, <3>3
    <2>2. QED
      BY <2>1
  <1>3. ASSUME NEW k \in DOMAIN stack', NEW f \in Frame, NEW g \in Frame,
               k + 1 \in DOMAIN stack', f = stack'[k], g = stack'[k + 1]
        PROVE  Called(f, g)'
    <2>1. CASE k = n
      BY <1>1, <1>3, <2>1
    <2>2. CASE k + 1 = n
      <3>1. f = stack[k] /\ g = frame /\ stack[k + 1] \in Frame
        BY <1>1, <1>3, <2>2
      <3>2. PICK old \in Frame : old = stack[k + 1]
        BY <3>1
      <3>3. Called(f, old)'
        <4>1. k \in DOMAIN stack /\ k + 1 \in DOMAIN stack
          BY <1>1, <1>3, <2>2
        <4>2. QED
          BY <1>1, <4>1, <3>1, <3>2, OldFrames
      <3>4. old.op = frame.op /\ old.type = frame.type
        BY <1>1, <2>2, <3>2
      <3>5. QED
        BY <3>1, <3>3, <3>4 DEF Called
    <2>3. CASE k # n /\ k + 1 # n
      <3>1. CASE k = n + 1
        BY <1>1, <1>3, <3>1
      <3>2. CASE k # n + 1
        <4>1. /\ k \in DOMAIN stack /\ k + 1 \in DOMAIN stack
              /\ f = stack[k] /\ g = stack[k + 1]
          BY <1>1, <1>3, <2>3, <3>2
        <4>2. QED
          BY <1>1, <4>1, OldFrames
      <3>3. QED
        BY <3>1, <3>2
    <2>4. QED
      BY <2>1, <2>2, <2>3
  <1>4. \A f \in Frame : stack' # << >> /\ f = stack'[Len(stack')] => Returned(f)'
    BY <1>1, FreshFacts
  <1>5. \A j, k \in DOMAIN stack' :
            Exclusive(stack'[j]) /\ Same(stack'[j], stack'[k]) => j = k
    <2>1. ~Exclusive(next) /\ \A f \in Frame : Same(f, next) => ~Exclusive(f)
      BY FreshFacts DEF Exclusive, Same, Is
    <2>2. ASSUME NEW j \in DOMAIN stack, NEW k \in DOMAIN stack,
                 Exclusive(stack'[j]), Same(stack'[j], stack'[k])
          PROVE  j = k
      BY <1>1, <2>2 DEF StackSound, Exclusive, Same, Is
    <2>3. \A j \in DOMAIN stack' : stack'[j] \in Frame
      BY <1>1
    <2>4. QED
      BY <1>1, <2>1, <2>2, <2>3
  <1>6. QED
    BY <1>2, <1>3, <1>4, <1>5, SoundNext DEF Solid

(* What a function gives to the one that called it.                        *)
Result(frame) ==
    /\ frame.op = "getentries" => cachedentries[frame.type] # NotYet
    /\ frame.op = "getlayout" => cachedlayout[frame.type]
    /\ frame.op = "complete" => ~incomplete[frame.type]

LEMMA ReturnFacts ==
    ASSUME Solid, ArraysFollow', NEW frame \in Frame, NEW next \in Frame,
           Progress(frame), Called(frame, next), Result(next)'
    PROVE  Returned(frame)'
  <1>1. Progress(frame)' /\ Called(frame, next)'
    BY ProgressKept, CalledKept
  <1>2. CASE Is(frame, "getlayout", "entries")
    <2>1. frame.type \in Struct /\ frame.i \in Nat
      BY <1>2, FrameFacts
    <2>2. CASE next.op = "getentries"
      <3>1. frame.i = 1 /\ cachedentries'[frame.type] # NotYet
        BY <1>1, <1>2, <2>2 DEF Called, Result, Is
      <3>2. cachedentries'[frame.type] \in Seq(Member)
        BY <2>1, <3>1, ListsAssumption DEF Solid, Typed
      <3>3. QED
        BY <1>2, <3>1, <3>2 DEF Returned, Is
    <2>3. CASE next.op # "getentries"
      <3>1. /\ cachedentries'[frame.type] # NotYet
            /\ frame.i - 1 \in DOMAIN cachedentries'[frame.type]
            /\ Element(cachedentries'[frame.type][frame.i - 1]) \in LaidOut'
        <4>1. /\ cachedentries'[frame.type] # NotYet
              /\ frame.i - 1 \in DOMAIN cachedentries'[frame.type]
              /\ next.op = "getlayout"
              /\ next.type = Element(cachedentries'[frame.type][frame.i - 1])
          BY <1>1, <1>2, <2>3 DEF Called, Is
        <4>2. next.type \in Struct /\ cachedlayout'[next.type]
          BY <4>1, FrameFacts DEF Result
        <4>3. QED
          BY <4>1, <4>2 DEF LaidOut
      <3>2. cachedentries'[frame.type] \in Seq(Member)
        BY <2>1, <3>1, ListsAssumption DEF Solid, Typed
      <3>3. frame.i > 1
        BY <2>1, <3>1, <3>2
      <3>4. \A j \in DOMAIN cachedentries'[frame.type] :
                j < frame.i => Element(cachedentries'[frame.type][j]) \in LaidOut'
        BY <1>1, <1>2, <2>1, <3>1, <3>2, <3>3 DEF Progress
      <3>5. QED
        BY <1>2, <3>1, <3>4 DEF Returned, Is
    <2>4. QED
      BY <2>2, <2>3
  <1>3. CASE Is(frame, "complete", "layout") \/ Is(frame, "complete", "element")
    BY <1>1, <1>3 DEF Called, Result, Returned, Is
  <1>4. CASE Is(frame, "complete", "members")
    <2>1. frame.type \in Struct /\ frame.i \in Nat /\ next.op = "complete"
          /\ next.type \in Type /\ cachedlayout[frame.type]
          /\ next.type = cachedentries'[frame.type][frame.i - 1]
      BY <1>1, <1>4, FrameFacts DEF Called, Progress, Is
    <2>2. cachedentries'[frame.type] \in Seq(Member)
      BY <2>1, LaidOutFacts, ListsAssumption DEF Solid, Typed
    <2>3. ~incomplete'[Element(next.type)]
      BY <2>1 DEF ArraysFollow, Result
    <2>4. \A j \in DOMAIN cachedentries'[frame.type] :
              j < frame.i => ~incomplete'[Element(cachedentries'[frame.type][j])]
      BY <1>1, <1>4, <2>1, <2>2, <2>3 DEF Progress
    <2>5. QED
      BY <1>4, <2>4 DEF Returned, Is
  <1>5. QED
    BY <1>2, <1>3, <1>4 DEF Returned

LEMMA KeepFewer ==
    ASSUME stack \in Seq(Frame), NEW n \in 0 .. Len(stack), KeepMarks(Len(stack))
    PROVE  KeepMarks(n)
  BY DEF KeepMarks

(* The calls above the n-th end, the first of them with a result.          *)
LEMMA ReturnSound ==
    ASSUME Solid, StackSound, ArraysFollow', NEW n \in 0 .. Len(stack),
           n < Len(stack), stack' = SubSeq(stack, 1, n), KeepMarks(n),
           \A next \in Frame : next = stack[n + 1] => Result(next)'
    PROVE  StackSound'
  <1>1. stack \in Seq(Frame) /\ n + 1 \in DOMAIN stack /\ stack[n + 1] \in Frame
    BY DEF Solid, Typed
  <1>2. ASSUME NEW f \in Frame, n > 0, f = stack[n]
        PROVE  Returned(f)'
    <2>1. PICK g \in Frame : g = stack[n + 1]
      BY <1>1
    <2>2. n \in DOMAIN stack /\ n + 1 \in DOMAIN stack
      BY <1>1, <1>2
    <2>3. Progress(stack[n]) /\ Called(stack[n], stack[n + 1])
      BY <2>2 DEF StackSound
    <2>4. Progress(f) /\ Called(f, g)
      BY <1>2, <2>1, <2>3
    <2>5. QED
      BY <2>1, <2>4, ReturnFacts
  <1>3. QED
    BY <1>2, CutSound

LEMMA RaiseSound ==
    ASSUME Solid, StackSound, Raise, KeepMarks(Len(stack))
    PROVE  StackSound'
  <1>1. PICK n \in {0} \cup Catching : stack' = SubSeq(stack, 1, n)
    BY DEF Raise
  <1>2. stack \in Seq(Frame) /\ Len(stack) \in Nat /\ n \in 0 .. Len(stack)
        /\ (n > 0 => stack[n].op = "lua")
    BY DEF Catching, Solid, Typed
  <1>3. KeepMarks(n)
    BY <1>2, KeepFewer
  <1>4. \A f \in Frame : n > 0 /\ f = stack[n] => Returned(f)'
    BY <1>2 DEF Returned, Is
  <1>5. QED
    BY <1>1, <1>2, <1>3, <1>4, CutSound
-----------------------------------------------------------------------------
(* What the steps have in common.                                          *)
LEMMA CutType ==
    ASSUME stack \in Seq(Frame), NEW n \in 0 .. Len(stack)
    PROVE  SubSeq(stack, 1, n) \in Seq(Frame)
  OBVIOUS

LEMMA ChangeType ==
    ASSUME stack \in Seq(Frame), NEW n \in DOMAIN stack, NEW frame \in Frame
    PROVE  /\ [stack EXCEPT ![n] = frame] \in Seq(Frame)
           /\ \A next \in Frame : Append([stack EXCEPT ![n] = frame], next) \in Seq(Frame)
  OBVIOUS

LEMMA RaiseType ==
    ASSUME stack \in Seq(Frame), Raise
    PROVE  stack' \in Seq(Frame)
  BY CutType DEF Raise, Catching

(* No call gets to the members of a struct that was not there already.     *)
MembersKept ==
    \A k \in DOMAIN stack' : Is(stack'[k], "complete", "members") =>
        \E j \in DOMAIN stack : /\ Is(stack[j], "complete", "members")
                                /\ stack[j].type = stack'[k].type

LEMMA CutMembers ==
    ASSUME stack \in Seq(Frame), NEW n \in 0 .. Len(stack), stack' = SubSeq(stack, 1, n)
    PROVE  MembersKept
  BY DEF MembersKept

LEMMA RaiseMembers ==
    ASSUME stack \in Seq(Frame), Raise
    PROVE  MembersKept
  BY CutMembers DEF Raise, Catching

LEMMA ChangeMembers ==
    ASSUME stack \in Seq(Frame), NEW n \in DOMAIN stack, NEW frame \in Frame,
           frame.type = stack[n].type,
           Is(frame, "complete", "members") => Is(stack[n], "complete", "members")
    PROVE  /\ stack' = [stack EXCEPT ![n] = frame] => MembersKept
           /\ \A next \in Frame :
                  /\ next.at = "begin"
                  /\ stack' = Append([stack EXCEPT ![n] = frame], next)
                  => MembersKept
  BY DEF MembersKept, Is

LEMMA InitializedOnceKept ==
    ASSUME Solid, InitializedSound, InitializedOnce, initialized' = initialized
    PROVE  InitializedOnce'
  <1>1. ASSUME NEW n \in DOMAIN initialized,
               NEW s \in {initialized[n]} \cup Elements(cachedentries'[initialized[n]])
        PROVE  ~incomplete'[s]
    <2>1. initialized[n] \in Struct /\ cachedlayout[initialized[n]]
      BY DEF Solid, Typed, InitializedSound
    <2>2. /\ cachedentries'[initialized[n]] = cachedentries[initialized[n]]
          /\ Elements(cachedentries[initialized[n]]) \subseteq Struct
      BY <2>1, LaidOutFacts DEF Elements
    <2>3. ~incomplete[s] /\ s \in Type
      BY <1>1, <2>1, <2>2, ElementFacts DEF InitializedOnce
    <2>4. QED
      BY <2>3 DEF Solid, Grows
  <1>2. \A i, j \in DOMAIN initialized' : initialized'[i] = initialized'[j] => i = j
    BY DEF InitializedOnce
  <1>3. QED
    BY <1>1, <1>2 DEF InitializedOnce, Elements

LEMMA InitializedKept ==
    ASSUME Solid, InitializedSound, InitializedOnce, initialized' = initialized,
           MembersKept
    PROVE  InitializedSound' /\ InitializedOnce'
  <1>1. InitializedSound'
    <2>1. ASSUME NEW n \in DOMAIN initialized
          PROVE  cachedlayout'[initialized[n]]
      BY DEF InitializedSound, Solid, Typed, Grows
    <2>2. ASSUME NEW n \in DOMAIN initialized, NEW k \in DOMAIN stack',
                 Is(stack'[k], "complete", "members")
          PROVE  stack'[k].type # initialized[n]
      BY <2>2 DEF InitializedSound, MembersKept
    <2>3. QED
      BY <2>1, <2>2 DEF InitializedSound, Is
  <1>2. QED
    BY <1>1, InitializedOnceKept

LEMMA LayoutsKept ==
    ASSUME Solid, cachedlayout' = cachedlayout
    PROVE  LayoutsFinite'
  <1>1. LaidOut' = LaidOut /\ LaidOut \subseteq Struct
    BY DEF LaidOut
  <1>2. \A s \in LaidOut : cachedentries[s] # NotYet /\ cachedentries'[s] = cachedentries[s]
    BY <1>1, LaidOutFacts DEF LaidOut
  <1>3. \A s \in LaidOut : Elements(cachedentries[s])' = Elements(cachedentries[s])
    BY <1>2 DEF Elements
  <1>4. QED
    BY <1>1, <1>2, <1>3 DEF Solid, LayoutsFinite

(* A step that lays nothing out and calls no initializer.                  *)
LEMMA Rest ==
    ASSUME IInv, Typed', Grows, cachedlayout' = cachedlayout,
           initialized' = initialized, MembersKept,
           Memoized', ArraysFollow', StackSound'
    PROVE  IInv'
  <1>1. Solid
    BY DEF Solid, IInv
  <1>2. QED
    BY <1>1, InitializedKept, LayoutsKept DEF IInv

(* A step that changes nothing but definitions and the stack.              *)
LEMMA Quiet ==
    ASSUME IInv, Typed', UNCHANGED <<memo, incomplete, initialized>>
    PROVE  /\ Solid /\ Grows /\ Memoized' /\ ArraysFollow'
           /\ KeepMarks(Len(stack))
           /\ cachedlayout' = cachedlayout /\ initialized' = initialized
           /\ \A n \in 0 .. Len(stack) : KeepMarks(n)
           /\ (stack \in Seq(Frame) /\ StackSound)
  <1>1. Grows /\ Memoized' /\ ArraysFollow'
    BY DEF IInv, Grows, Memoized, ArraysFollow, memo
  <1>2. \A f \in Frame : Marked(f) => Marked(f)'
    BY DEF Marked, memo
  <1>3. stack \in Seq(Frame) /\ StackSound
    BY DEF IInv, Typed
  <1>4. KeepMarks(Len(stack)) /\ \A n \in 0 .. Len(stack) : KeepMarks(n)
    BY <1>2, <1>3 DEF KeepMarks, StackSound
  <1>5. QED
    BY <1>1, <1>3, <1>4 DEF Solid, IInv, memo
-----------------------------------------------------------------------------
(* The functions that change definitions and the stack only.               *)
LEMMA RunningFacts ==
    ASSUME Typed, NEW op, NEW at, Running(op, at)
    PROVE  /\ stack \in Seq(Frame) /\ stack # << >> /\ Len(stack) \in DOMAIN stack
           /\ Len(stack) \in Nat /\ DOMAIN stack = 1 .. Len(stack)
           /\ Top = stack[Len(stack)] /\ Top \in Frame
           /\ Top.op = op /\ Top.at = at /\ Top.i \in Nat \ {0}
  <1>1. stack \in Seq(Frame) /\ stack # << >> /\ Top.op = op /\ Top.at = at
    BY DEF Typed, Running
  <1>2. Top \in Frame
    BY <1>1, TopFacts
  <1>3. Top.i \in Nat \ {0}
    BY <1>2, FrameFacts
  <1>4. QED
    BY <1>1, <1>2, <1>3, TopFacts

(* A quiet step that raises an error, or returns from a piece of the       *)
(* program and from the function that called it.                           *)
LEMMA QuietRaise ==
    ASSUME IInv, Typed', UNCHANGED <<memo, incomplete, initialized>>, Raise
    PROVE  IInv'
  <1>1. /\ Solid /\ StackSound /\ KeepMarks(Len(stack)) /\ stack \in Seq(Frame)
    BY Quiet
  <1>2. StackSound' /\ MembersKept
    BY <1>1, RaiseSound, RaiseMembers
  <1>3. QED
    BY <1>2, Quiet, Rest

LEMMA QuietReturn ==
    ASSUME IInv, Typed', UNCHANGED <<memo, incomplete, initialized>>,
           NEW n \in 0 .. Len(stack), n < Len(stack), stack' = SubSeq(stack, 1, n),
           \A next \in Frame : next = stack[n + 1] => Result(next)'
    PROVE  IInv'
  <1>1. /\ Solid /\ StackSound /\ KeepMarks(n) /\ stack \in Seq(Frame) /\ ArraysFollow'
    BY Quiet
  <1>2. StackSound' /\ MembersKept
    BY <1>1, ReturnSound, CutMembers
  <1>3. QED
    BY <1>2, Quiet, Rest

(* A quiet step that calls a function.                                     *)
LEMMA QuietCall ==
    ASSUME IInv, Typed', UNCHANGED <<memo, incomplete, initialized>>, stack # << >>,
           NEW frame \in Frame, NEW next \in Frame, next.at = "begin",
           stack' = Append([stack EXCEPT ![Len(stack)] = frame], next),
           frame.op = stack[Len(stack)].op, frame.type = stack[Len(stack)].type,
           Is(frame, "complete", "members") => Is(stack[Len(stack)], "complete", "members"),
           Progress(frame)', Marked(frame)', Called(frame, next)',
           Exclusive(frame) => \A k \in DOMAIN stack :
                                   Same(frame, stack[k]) => k = Len(stack)
    PROVE  IInv'
  <1>1. /\ Solid /\ StackSound /\ KeepMarks(Len(stack)) /\ stack \in Seq(Frame)
    BY Quiet
  <1>2. StackSound'
    BY <1>1, CallSound
  <1>3. Len(stack) \in DOMAIN stack
    BY <1>1
  <1>4. MembersKept
    BY <1>1, <1>3, ChangeMembers
  <1>5. QED
    BY <1>2, <1>4, Quiet, Rest

LEMMA LuaErrorStep ==
    ASSUME IInv, LuaError
    PROVE  IInv'
  <1>1. Raise /\ UNCHANGED <<memo, incomplete, initialized>>
    BY DEF LuaError
  <1>2. Typed'
    BY <1>1, RaiseType DEF LuaError, IInv, Typed, definition, memo
  <1>3. QED
    BY <1>1, <1>2, QuietRaise

LEMMA LuaCallStep ==
    ASSUME IInv, NEW op \in Calls, NEW t \in Type, LuaCall(op, t)
    PROVE  IInv'
  <1> DEFINE new == Begin(op, t)
  <1>1. new \in Frame /\ new.at = "begin" /\ new.op = op
    BY NewFrame DEF LuaCall, Calls, Begin
  <1>2. /\ stack \in Seq(Frame) /\ stack' = Append(stack, new)
        /\ UNCHANGED <<memo, incomplete, initialized>>
    BY DEF LuaCall, IInv, Typed, Push
  <1>3. Typed'
    BY <1>1, <1>2 DEF LuaCall, IInv, Typed, definition, memo
  <1>4. CASE stack = << >>
    <2>1. stack' = <<new>>
      BY <1>2, <1>4
    <2>2. StackSound'
      BY <1>1, <1>3, <2>1, FreshFacts, SoundNext
    <2>3. MembersKept
      BY <1>1, <2>1 DEF MembersKept, Is
    <2>4. QED
      BY <1>2, <1>3, <2>2, <2>3, Quiet, Rest
  <1>5. CASE stack # << >>
    <2> DEFINE n == Len(stack)
    <2>1. Running("lua", "begin")
      BY <1>5 DEF LuaCall
    <2>2. PICK f \in Frame : f = stack[n] /\ f.op = "lua" /\ f.at = "begin"
      BY <2>1, RunningFacts DEF IInv
    <2>3. stack' = Append([stack EXCEPT ![n] = f], new)
      BY <1>2, <1>5, <2>2
    <2>4. Progress(f)' /\ Marked(f)' /\ Called(f, new)' /\ ~Exclusive(f)
      BY <2>2, FreshFacts DEF Called
    <2>5. QED
      BY <1>1, <1>2, <1>3, <1>5, <2>2, <2>3, <2>4, QuietCall DEF Is
  <1>6. QED
    BY <1>4, <1>5

LEMMA BelowFacts ==
    ASSUME Typed, Running("lua", "begin"), Len(stack) > 1
    PROVE  /\ stack \in Seq(Frame) /\ Len(stack) \in Nat /\ DOMAIN stack = 1 .. Len(stack)
           /\ Len(stack) - 1 \in DOMAIN stack /\ Len(stack) - 2 \in 0 .. Len(stack)
           /\ Below = stack[Len(stack) - 1] /\ Below \in Frame
           /\ SubSeq(Pop, 1, Len(Pop) - 1) = SubSeq(stack, 1, Len(stack) - 2)
           /\ (Len(stack) - 2) + 1 = Len(stack) - 1
           /\ stack[Len(stack)].op = "lua"
  <1>1. stack \in Seq(Frame) /\ stack # << >> /\ Top.op = "lua"
    BY RunningFacts
  <1>2. Len(stack) \in Nat /\ (Len(stack) - 2) + 1 = Len(stack) - 1
    BY <1>1
  <1>3. QED
    BY <1>1, <1>2, TopFacts

(* The call that is the last one goes on elsewhere.                        *)
TopMoved(f, op, at, i) ==
    /\ f.op = op /\ f.type = Top.type /\ f.at = at /\ f.i = i
    /\ f.op = stack[Len(stack)].op /\ f.type = stack[Len(stack)].type
    /\ At(at, i) = [stack EXCEPT ![Len(stack)] = f]

Movable(op, at) ==
    /\ <<op, at>> \in Points /\ op # "lua"
    /\ IF Top.type \in Struct THEN at # "element" ELSE at = "element" /\ op = "complete"

LEMMA MoveTop ==
    ASSUME Typed, NEW op, NEW from, Running(op, from), NEW at, NEW i \in Nat \ {0},
           Movable(op, at)
    PROVE  \E f \in Frame : TopMoved(f, op, at, i)
  <1>1. /\ stack \in Seq(Frame) /\ stack # << >> /\ Top.op = op /\ Top = stack[Len(stack)]
    BY RunningFacts
  <1>2. PICK f : Moved(f, Top, at, i) /\ At(at, i) = [stack EXCEPT ![Len(stack)] = f]
    BY <1>1, AtFacts DEF Movable
  <1>3. f \in Frame /\ f.op = op /\ f.type = Top.type /\ f.at = at /\ f.i = i
    BY <1>1, <1>2 DEF Moved
  <1>4. QED
    BY <1>1, <1>2, <1>3 DEF TopMoved

LEMMA LayoutStructStep ==
    ASSUME IInv, LayoutStruct
    PROVE  IInv'
  <1>1. /\ Running("layoutstruct", "begin") /\ UNCHANGED <<memo, incomplete, initialized>>
        /\ Typed /\ Top.type \in Struct
    BY RunningFacts, FrameFacts DEF LayoutStruct, IInv
  <1>2. undefined' \in [Struct -> BOOLEAN] /\ UNCHANGED <<entries, tree>>
    BY <1>1 DEF LayoutStruct, Typed
  <1>3. CASE Raise
    <2>1. Typed'
      BY <1>1, <1>2, <1>3, RaiseType DEF Typed, memo
    <2>2. QED
      BY <1>1, <1>3, <2>1, QuietRaise
  <1>4. CASE stack' = Push(At("entries", 1), LuaFrame)
    <2>1. PICK f \in Frame :
              /\ f.op = "layoutstruct" /\ f.at = "entries"
              /\ f.op = stack[Len(stack)].op /\ f.type = stack[Len(stack)].type
              /\ At("entries", 1) = [stack EXCEPT ![Len(stack)] = f]
      <3>1. Movable("layoutstruct", "entries") /\ 1 \in Nat \ {0}
        BY <1>1 DEF Movable, Points
      <3>2. \E f \in Frame : TopMoved(f, "layoutstruct", "entries", 1)
        BY <1>1, <3>1, MoveTop
      <3>3. QED
        BY <3>2 DEF TopMoved
    <2>2. stack' = Append([stack EXCEPT ![Len(stack)] = f], LuaFrame)
      BY <1>4, <2>1 DEF Push
    <2>3. LuaFrame \in Frame /\ LuaFrame.at = "begin" /\ LuaFrame.op = "lua"
      BY NewFrame DEF LuaFrame
    <2>4. Typed'
      BY <1>1, <1>2, <2>1, <2>2, <2>3, RunningFacts, ChangeType DEF Typed, memo
    <2>5. /\ Progress(f)' /\ Marked(f)' /\ Called(f, LuaFrame)' /\ ~Exclusive(f)
          /\ ~Is(f, "complete", "members")
      BY <2>1, <2>3 DEF Progress, Marked, Called, Exclusive, Is
    <2>6. stack # << >>
      BY <1>1, RunningFacts
    <2>7. QED
      BY <1>1, <2>1, <2>2, <2>3, <2>4, <2>5, <2>6, QuietCall
  <1>5. QED
    BY <1>3, <1>4 DEF LayoutStruct

LEMMA LayoutStructReturnStep ==
    ASSUME IInv, Running("lua", "begin"), Len(stack) > 1, Below.op = "layoutstruct",
           stack' = SubSeq(Pop, 1, Len(Pop) - 1),
           entries' \in [Struct -> Lists], tree' \in [Struct -> BOOLEAN],
           UNCHANGED <<undefined, memo, incomplete, initialized>>
    PROVE  IInv'
  <1>1. Typed
    BY DEF IInv
  <1>2. Typed'
    BY <1>1, BelowFacts, CutType DEF Typed, memo
  <1>3. \A next \in Frame : next = Below => Result(next)'
    BY DEF Result
  <1>4. PICK n \in 0 .. Len(stack) : n = Len(stack) - 2
    BY <1>1, BelowFacts
  <1>5. n < Len(stack) /\ stack' = SubSeq(stack, 1, n) /\ stack[n + 1] = Below
    BY <1>1, <1>4, BelowFacts
  <1>6. QED
    BY <1>2, <1>3, <1>5, QuietReturn

LEMMA LayoutStructEntriesStep ==
    ASSUME IInv, LayoutStructEntries
    PROVE  IInv'
  <1> DEFINE n == Len(stack) - 1
  <1>1. /\ Running("lua", "begin") /\ Len(stack) > 1 /\ Typed
        /\ Below.op = "layoutstruct" /\ Below.at = "entries"
        /\ UNCHANGED <<undefined, memo, incomplete, initialized>>
    BY DEF LayoutStructEntries, IInv
  <1>2. /\ Below \in Frame /\ Below.type \in Struct /\ n \in DOMAIN stack
        /\ Below = stack[n] /\ stack \in Seq(Frame)
    BY <1>1, BelowFacts, FrameFacts
  <1>3. entries' \in [Struct -> Lists] /\ tree' \in [Struct -> BOOLEAN]
    BY <1>1, <1>2 DEF LayoutStructEntries, Typed
  <1>4. CASE stack' = SubSeq(Pop, 1, Len(Pop) - 1)
    BY <1>1, <1>3, <1>4, LayoutStructReturnStep
  <1>5. CASE stack' = [stack EXCEPT ![n].at = "lua"]
    <2> DEFINE new == [Below EXCEPT !.at = "lua"]
    <2>1. new \in Frame /\ new.op = "layoutstruct" /\ new.at = "lua" /\ new.type = Below.type
      <3> DEFINE Ops == Calls \cup {"lua"}
                 Ats == {"begin", "entries", "lua", "layout", "element", "members"}
      <3>1. Below \in [op : Ops, type : Member, at : Ats, i : Nat \ {0}]
        BY <1>2 DEF Frame
      <3>2. /\ new \in [op : Ops, type : Member, at : Ats, i : Nat \ {0}]
            /\ new.op = Below.op /\ new.at = "lua" /\ new.type = Below.type
        <4>1. "lua" \in Ats
          OBVIOUS
        <4> HIDE DEF Ops, Ats
        <4>2. QED
          BY <3>1, <4>1
      <3> HIDE DEF new
      <3>3. new \in Frame
        BY <1>1, <1>2, <3>2, ElementFacts DEF Frame, Points, Is
      <3>4. QED
        BY <1>1, <3>2, <3>3
    <2> HIDE DEF new
    <2>2. PICK f \in Frame : /\ f.op = "layoutstruct" /\ f.at = "lua"
                             /\ f.type = Below.type /\ f = new
      BY <2>1
    <2>3. stack' = [stack EXCEPT ![n] = f]
      BY <1>2, <1>5, <2>2 DEF new
    <2>4. Typed'
      BY <1>1, <1>2, <1>3, <2>3, ChangeType DEF Typed, memo
    <2>5. /\ Progress(f)' /\ Marked(f)' /\ ~Exclusive(f) /\ ~Is(f, "complete", "members")
      BY <2>2 DEF Progress, Marked, Exclusive, Is
    <2>6. /\ Solid /\ StackSound /\ KeepMarks(Len(stack)) /\ stack[Len(stack)].op = "lua"
          /\ n # Len(stack) /\ n + 1 = Len(stack)
      <3>1. Solid /\ StackSound /\ KeepMarks(Len(stack))
        BY <1>1, <2>4, Quiet
      <3>2. Len(stack) \in Nat /\ stack[Len(stack)].op = "lua"
        BY <1>1, BelowFacts
      <3>3. n # Len(stack) /\ n + 1 = Len(stack)
        BY <3>2
      <3>4. QED
        BY <3>1, <3>2, <3>3
    <2>7. \A g \in Frame : g = stack[n + 1] => Called(f, g)'
      BY <2>2, <2>6 DEF Called
    <2>8. StackSound'
      <3>1. \A k \in DOMAIN stack : k # n => \A g \in Frame : g = stack[k] => Marked(g)'
        <4>1. \A k \in DOMAIN stack : k <= Len(stack)
          BY <1>2
        <4>2. QED
          BY <2>6, <4>1 DEF KeepMarks
      <3>2. QED
        BY <1>1, <1>2, <2>2, <2>3, <2>5, <2>6, <2>7, <3>1, ChangeSound
    <2>9. MembersKept
      BY <1>2, <2>2, <2>3, <2>5, ChangeMembers
    <2>10. QED
      BY <1>1, <2>4, <2>8, <2>9, Quiet, Rest
  <1>6. QED
    BY <1>4, <1>5 DEF LayoutStructEntries

LEMMA GetLayoutEntryStep ==
    ASSUME IInv, GetLayoutEntry
    PROVE  IInv'
  <1>1. /\ Running("getlayout", "entries") /\ Typed
        /\ UNCHANGED <<definition, memo, incomplete, initialized>>
    BY DEF GetLayoutEntry, IInv
  <1>2. PICK top \in Frame : top = Top /\ Is(top, "getlayout", "entries")
    BY <1>1, RunningFacts DEF Is
  <1>3. PICK t \in Struct, i \in Nat \ {0} : t = top.type /\ i = top.i
    BY <1>2, FrameFacts
  <1>4. /\ stack \in Seq(Frame) /\ stack # << >> /\ Len(stack) \in DOMAIN stack
        /\ top = stack[Len(stack)]
    BY <1>1, <1>2, RunningFacts
  <1>5. Returned(top) /\ Marked(top)
    BY <1>4 DEF IInv, StackSound
  <1>6. PICK list \in Seq(Member) : list = cachedentries[t] /\ list # NotYet
    BY <1>1, <1>2, <1>3, <1>5, ListFacts DEF Returned
  <1>7. /\ i \in DOMAIN list
        /\ \A j \in DOMAIN list : j < i => Element(list[j]) \in LaidOut
    BY <1>2, <1>3, <1>5, <1>6 DEF GetLayoutEntry, Returned
  <1>8. PICK m \in Struct \cup {Opaque} : m = Element(list[i])
    BY <1>6, <1>7, ElementFacts DEF Member
  <1>9. CASE m = Opaque
    <2>1. Raise
      BY <1>2, <1>3, <1>6, <1>8, <1>9 DEF GetLayoutEntry
    <2>2. Typed'
      BY <1>1, <2>1, RaiseType DEF Typed, definition, memo
    <2>3. QED
      BY <1>1, <2>1, <2>2, QuietRaise
  <1>10. CASE m # Opaque
    <2>1. PICK new \in Frame :
              /\ new = Begin("getlayout", m)
              /\ new.at = "begin" /\ new.op = "getlayout" /\ new.type = m
      BY <1>10, NewFrame DEF Begin
    <2>2. PICK next \in Nat \ {0} : next = i + 1
      OBVIOUS
    <2>3. PICK f \in Frame :
              /\ f.op = "getlayout" /\ f.at = "entries" /\ f.i = i + 1 /\ f.type = t
              /\ f.op = stack[Len(stack)].op /\ f.type = stack[Len(stack)].type
              /\ At("entries", i + 1) = [stack EXCEPT ![Len(stack)] = f]
      <3>1. Movable("getlayout", "entries")
        BY <1>2, <1>3 DEF Movable, Points
      <3>2. \E f \in Frame : TopMoved(f, "getlayout", "entries", next)
        BY <1>1, <3>1, MoveTop
      <3>3. QED
        BY <1>2, <1>3, <2>2, <3>2 DEF TopMoved
    <2>4. stack' = Append([stack EXCEPT ![Len(stack)] = f], new)
      BY <1>2, <1>3, <1>6, <1>8, <1>10, <2>1, <2>3 DEF GetLayoutEntry, Push, NextEntry
    <2>5. Typed'
      <3>1. stack' \in Seq(Frame)
        BY <1>4, <2>4, ChangeType
      <3>2. QED
        BY <1>1, <3>1 DEF Typed, definition, memo
    <2>6. Progress(f)
      <3>1. \A j \in DOMAIN list : j + 1 < f.i => Element(list[j]) \in LaidOut
        BY <1>7, <2>3
      <3>2. QED
        BY <1>6, <2>3, <3>1 DEF Progress, Is
    <2>7. Marked(f)
      BY <1>2, <1>3, <1>5, <2>3 DEF Marked, Is
    <2>8. Called(f, new)
      <3>1. f.i - 1 = i
        BY <2>3
      <3>2. /\ cachedentries[f.type] # NotYet /\ i \in DOMAIN cachedentries[f.type]
            /\ new.type = Element(cachedentries[f.type][i])
        BY <1>6, <1>7, <1>8, <2>1, <2>3, Zenon
      <3>3. QED
        BY <2>1, <2>3, <3>1, <3>2 DEF Called
    <2>9. Progress(f)' /\ Marked(f)' /\ Called(f, new)'
      <3>1. Solid
        BY <1>1, <2>5, Quiet
      <3>2. Progress(f)' /\ Called(f, new)'
        BY <2>6, <2>8, <3>1, ProgressKept, CalledKept
      <3>3. QED
        BY <1>1, <2>7, <3>2 DEF Marked, memo
    <2>10. \A k \in DOMAIN stack : Same(f, stack[k]) => k = Len(stack)
      BY <1>2, <1>4, <2>3, ZenonT(40) DEF IInv, StackSound, Exclusive, Same, Is
    <2>11. ~Is(f, "complete", "members")
      BY <2>3 DEF Is
    <2>12. QED
      BY <1>1, <1>4, <2>1, <2>3, <2>4, <2>5, <2>9, <2>10, <2>11, QuietCall
  <1>11. QED
    BY <1>9, <1>10

LEMMA CompleteStep ==
    ASSUME IInv, Complete
    PROVE  IInv'
  <1>1. /\ Running("complete", "begin") /\ Typed
        /\ UNCHANGED <<definition, memo, incomplete, initialized>>
    BY DEF Complete, IInv
  <1>2. PICK top \in Frame : top = Top /\ top.op = "complete"
    BY <1>1, RunningFacts
  <1>3. PICK t \in Type : t = top.type
    BY <1>2, FrameFacts
  <1>4. /\ stack \in Seq(Frame) /\ stack # << >> /\ Len(stack) \in DOMAIN stack
        /\ top = stack[Len(stack)] /\ Pop = SubSeq(stack, 1, Len(stack) - 1)
    BY <1>1, <1>2, RunningFacts DEF Pop
  <1>5. CASE ~incomplete[t]
    <2>1. PICK n \in 0 .. Len(stack) : n + 1 = Len(stack)
      BY <1>4
    <2>2. n = Len(stack) - 1 /\ n < Len(stack)
      BY <1>4, <2>1
    <2>3. stack' = SubSeq(stack, 1, n)
      BY <1>2, <1>3, <1>4, <1>5, <2>2 DEF Complete
    <2>4. Typed'
      <3>1. stack' \in Seq(Frame)
        BY <1>4, <2>3, CutType
      <3>2. QED
        BY <1>1, <3>1 DEF Typed, definition, memo
    <2>5. \A next \in Frame : next = stack[n + 1] => Result(next)'
      BY <1>1, <1>2, <1>3, <1>4, <1>5, <2>1 DEF Result
    <2>6. QED
      BY <1>1, <2>2, <2>3, <2>4, <2>5, QuietReturn
  <1>6. CASE incomplete[t]
    <2>1. PICK at \in {"layout", "element"}, new \in Frame :
              /\ stack' = Append(At(at, 1), new)
              /\ new.at = "begin" /\ <<"complete", at>> \in Points
              /\ at = IF t \in Struct THEN "layout" ELSE "element"
              /\ new.op = IF t \in Struct THEN "getlayout" ELSE "complete"
              /\ new.type = IF t \in Struct THEN t ELSE Element(t)
      <3>1. CASE t \in Struct
        <4>1. /\ Begin("getlayout", t) \in Frame /\ Begin("getlayout", t).at = "begin"
              /\ Begin("getlayout", t).op = "getlayout" /\ Begin("getlayout", t).type = t
          BY <3>1, NewFrame DEF Begin
        <4>2. stack' = Append(At("layout", 1), Begin("getlayout", t))
          BY <1>2, <1>3, <1>6, <3>1 DEF Complete, Push
        <4>3. <<"complete", "layout">> \in Points
          BY DEF Points
        <4>4. QED
          BY <3>1, <4>1, <4>2, <4>3
      <3>2. CASE t \notin Struct
        <4> DEFINE new == Begin("complete", Element(t))
        <4>1. new \in Frame /\ new.at = "begin" /\ new.op = "complete" /\ new.type = Element(t)
          BY <3>2, NewFrame, ElementFacts DEF Begin
        <4>2. stack' = Append(At("element", 1), new)
          BY <1>2, <1>3, <1>6, <3>2 DEF Complete, Push
        <4>3. <<"complete", "element">> \in Points
          BY DEF Points
        <4>4. QED
          BY <3>2, <4>1, <4>2, <4>3
      <3>3. QED
        BY <3>1, <3>2
    <2>2. Movable("complete", at) /\ 1 \in Nat \ {0}
      BY <1>2, <1>3, <2>1 DEF Movable, Points
    <2>3. \E f \in Frame : TopMoved(f, "complete", at, 1)
      BY <1>1, <2>2, MoveTop
    <2>4. PICK f \in Frame :
              /\ f.op = "complete" /\ f.at = at /\ f.i = 1 /\ f.type = t
              /\ f.op = stack[Len(stack)].op /\ f.type = stack[Len(stack)].type
              /\ At(at, 1) = [stack EXCEPT ![Len(stack)] = f]
      BY <1>2, <1>3, <2>3 DEF TopMoved
    <2>5. stack' = Append([stack EXCEPT ![Len(stack)] = f], new)
      BY <2>1, <2>4
    <2>6. Typed'
      <3>1. stack' \in Seq(Frame)
        BY <1>4, <2>5, ChangeType
      <3>2. QED
        BY <1>1, <3>1 DEF Typed, definition, memo
    <2>7. ~Is(f, "complete", "members") /\ ~Exclusive(f)
      BY <2>1, <2>4 DEF Is, Exclusive
    <2>8. Progress(f)' /\ Marked(f)' /\ Called(f, new)'
      <3>1. Progress(f)' /\ Called(f, new)'
        BY <2>1, <2>4 DEF Progress, Called, Is
      <3>2. incomplete'[f.type]
        BY <1>1, <1>6, <2>4
      <3>3. QED
        BY <2>4, <3>1, <3>2 DEF Marked, Is
    <2>9. QED
      BY <1>1, <1>4, <2>1, <2>4, <2>5, <2>6, <2>7, <2>8, QuietCall
  <1>7. QED
    BY <1>5, <1>6 DEF IInv, Typed

LEMMA CompleteMemberStep ==
    ASSUME IInv, CompleteMember
    PROVE  IInv'
  <1>1. /\ Running("complete", "members") /\ Typed
        /\ UNCHANGED <<definition, memo, incomplete, initialized>>
    BY DEF CompleteMember, IInv
  <1>2. PICK top \in Frame : top = Top /\ Is(top, "complete", "members")
    BY <1>1, RunningFacts DEF Is
  <1>3. PICK t \in Struct, i \in Nat \ {0} : t = top.type /\ i = top.i
    BY <1>2, FrameFacts
  <1>4. /\ stack \in Seq(Frame) /\ stack # << >> /\ Len(stack) \in DOMAIN stack
        /\ top = stack[Len(stack)]
    BY <1>1, <1>2, RunningFacts
  <1>5. Returned(top) /\ Progress(top)
    BY <1>4 DEF IInv, StackSound
  <1>6. cachedlayout[t] /\ ~incomplete[t]
    BY <1>2, <1>3, <1>5 DEF Progress
  <1>7. PICK list \in Seq(Member) : list = cachedentries[t] /\ list # NotYet
    BY <1>1, <1>6, ListFacts DEF IInv, LayoutsFinite, LaidOut
  <1>8. /\ i \in DOMAIN list
        /\ \A j \in DOMAIN list : j < i => ~incomplete[Element(list[j])]
    BY <1>2, <1>3, <1>5, <1>7 DEF CompleteMember, Returned
  <1>9. PICK m \in Type : m = list[i]
    <2>1. Elements(list) \subseteq Struct
      BY <1>6, <1>7 DEF IInv, LayoutsFinite, LaidOut
    <2>2. Element(list[i]) \in Struct /\ list[i] \in Member
      BY <1>8, <2>1 DEF Elements
    <2>3. QED
      BY <2>2, ElementFacts DEF Member
  <1>10. PICK new \in Frame :
             /\ new = Begin("complete", m)
             /\ new.at = "begin" /\ new.op = "complete" /\ new.type = m
    BY NewFrame DEF Begin
  <1>11. PICK next \in Nat \ {0} : next = i + 1
    OBVIOUS
  <1>12. PICK f \in Frame :
             /\ f.op = "complete" /\ f.at = "members" /\ f.i = i + 1 /\ f.type = t
             /\ f.op = stack[Len(stack)].op /\ f.type = stack[Len(stack)].type
             /\ At("members", i + 1) = [stack EXCEPT ![Len(stack)] = f]
    <2>1. Movable("complete", "members")
      BY <1>2, <1>3 DEF Movable, Points
    <2>2. \E f \in Frame : TopMoved(f, "complete", "members", next)
      BY <1>1, <2>1, MoveTop
    <2>3. QED
      BY <1>2, <1>3, <1>11, <2>2 DEF TopMoved
  <1>13. stack' = Append([stack EXCEPT ![Len(stack)] = f], new)
    BY <1>2, <1>3, <1>7, <1>9, <1>10, <1>12 DEF CompleteMember, Push, NextEntry
  <1>14. Typed'
    <2>1. stack' \in Seq(Frame)
      BY <1>4, <1>13, ChangeType
    <2>2. QED
      BY <1>1, <2>1 DEF Typed, definition, memo
  <1>15. Progress(f) /\ Called(f, new)
    <2>1. \A j \in DOMAIN list : j + 1 < f.i => ~incomplete[Element(list[j])]
      BY <1>8, <1>12
    <2>2. Progress(f)
      BY <1>6, <1>7, <1>12, <2>1 DEF Progress, Is
    <2>3. Called(f, new)
      BY <1>7, <1>8, <1>9, <1>10, <1>12 DEF Called
    <2>4. QED
      BY <2>2, <2>3
  <1>16. Progress(f)' /\ Marked(f)' /\ Called(f, new)'
    <2>1. Solid
      BY <1>1, <1>14, Quiet
    <2>2. Progress(f)' /\ Called(f, new)'
      BY <1>15, <2>1, ProgressKept, CalledKept
    <2>3. QED
      BY <1>12, <2>2 DEF Marked, Is
  <1>17. \A k \in DOMAIN stack : Same(f, stack[k]) => k = Len(stack)
    BY <1>2, <1>4, <1>12, ZenonT(40) DEF IInv, StackSound, Exclusive, Same, Is
  <1>18. Is(stack[Len(stack)], "complete", "members")
    BY <1>2, <1>4
  <1>19. QED
    BY <1>1, <1>4, <1>10, <1>12, <1>13, <1>14, <1>16, <1>17, <1>18, QuietCall

LEMMA CompleteReturnStep ==
    ASSUME IInv, CompleteReturn
    PROVE  IInv'
  <1>1. /\ Running("lua", "begin") /\ Len(stack) > 1 /\ Typed
        /\ stack' = SubSeq(Pop, 1, Len(Pop) - 1)
        /\ UNCHANGED <<definition, memo, incomplete, initialized>>
    BY DEF CompleteReturn, IInv
  <1>2. PICK n \in 0 .. Len(stack) : n = Len(stack) - 2
    BY <1>1, BelowFacts
  <1>3. /\ n < Len(stack) /\ stack' = SubSeq(stack, 1, n) /\ stack[n + 1] = Below
        /\ stack \in Seq(Frame) /\ n + 1 \in DOMAIN stack
    BY <1>1, <1>2, BelowFacts
  <1>4. PICK below \in Frame : below = Below /\ Is(below, "complete", "lua")
    BY <1>1, BelowFacts DEF CompleteReturn, Is
  <1>5. ~incomplete[below.type]
    <2>1. Progress(below)
      BY <1>3, <1>4 DEF IInv, StackSound
    <2>2. QED
      BY <1>4, <2>1 DEF Progress
  <1>6. \A next \in Frame : next = stack[n + 1] => Result(next)'
    BY <1>1, <1>3, <1>4, <1>5 DEF Result, Is
  <1>7. Typed'
    <2>1. stack' \in Seq(Frame)
      BY <1>3, CutType
    <2>2. QED
      BY <1>1, <2>1 DEF Typed, definition, memo
  <1>8. QED
    BY <1>1, <1>3, <1>6, <1>7, QuietReturn

-----------------------------------------------------------------------------
(* The entries.                                                            *)

(* A step after which entries are known, or being computed.                *)
LEMMA EntriesKnown ==
    ASSUME IInv, NEW s \in Struct, NEW list \in Lists, cachedentries[s] = NotYet,
           cachedentries' = Computed(s, list),
           ingetentries' = [ingetentries EXCEPT ![s] = FALSE],
           UNCHANGED <<cachedlayout, ingetlayout, incomplete, initialized, definition>>,
           stack' \in Seq(Frame)
    PROVE  /\ Typed' /\ Grows /\ Solid /\ Memoized' /\ ArraysFollow'
           /\ cachedentries'[s] # NotYet /\ StackSound /\ stack \in Seq(Frame)
           /\ \A f \in Frame : Marked(f) /\ ~(Is(f, "getentries", "lua") /\ f.type = s)
                                   => Marked(f)'
  <1>1. Typed /\ list # NotYet
    BY ListsAssumption, NotYetAssumption DEF IInv
  <1>2. cachedentries' = [cachedentries EXCEPT ![s] = list]
    BY DEF Computed
  <1>3. Typed' /\ Grows
    BY <1>1, <1>2 DEF Typed, Grows, definition
  <1>4. Memoized' /\ ArraysFollow'
    BY <1>1, <1>2 DEF IInv, Typed, Memoized, ArraysFollow
  <1>5. \A f \in Frame : Marked(f) /\ ~(Is(f, "getentries", "lua") /\ f.type = s) => Marked(f)'
    <2>1. SUFFICES ASSUME NEW f \in Frame, Marked(f),
                          ~(Is(f, "getentries", "lua") /\ f.type = s)
                   PROVE  Marked(f)'
      OBVIOUS
    <2>2. Is(f, "getentries", "lua") => ingetentries'[f.type]
      BY <1>1, <2>1, FrameFacts DEF Marked, Typed
    <2>3. QED
      BY <2>1, <2>2 DEF Marked
  <1>6. QED
    BY <1>1, <1>2, <1>3, <1>4, <1>5 DEF Solid, IInv, Typed

LEMMA GetEntriesKnown ==
    ASSUME IInv, NEW s \in Struct, NEW n \in 0 .. Len(stack), n + 1 = Len(stack),
           stack[Len(stack)].op = "getentries", stack[Len(stack)].type = s,
           stack' = SubSeq(stack, 1, n), cachedentries[s] = NotYet, ~ingetentries[s],
           cachedentries' = Computed(s, entries[s]),
           ingetentries' = [ingetentries EXCEPT ![s] = FALSE],
           UNCHANGED <<cachedlayout, ingetlayout, incomplete, initialized, definition>>
    PROVE  IInv'
  <1>1. Typed /\ entries[s] \in Lists /\ stack' \in Seq(Frame) /\ Len(stack) \in Nat
    BY CutType DEF IInv, Typed
  <1>2. /\ Typed' /\ Grows /\ Solid /\ Memoized' /\ ArraysFollow' /\ StackSound
        /\ cachedentries'[s] # NotYet /\ stack \in Seq(Frame)
        /\ \A f \in Frame : Marked(f) /\ ~(Is(f, "getentries", "lua") /\ f.type = s)
                                => Marked(f)'
    BY <1>1, EntriesKnown
  <1>3. \A f \in Frame : Marked(f) => Marked(f)'
    BY <1>2 DEF Marked
  <1>4. KeepMarks(n)
    BY <1>2, <1>3 DEF KeepMarks, StackSound
  <1>5. \A next \in Frame : next = stack[n + 1] => Result(next)'
    BY <1>2 DEF Result
  <1>6. StackSound' /\ MembersKept
    BY <1>1, <1>2, <1>4, <1>5, ReturnSound, CutMembers
  <1>7. QED
    BY <1>2, <1>6, Rest

(* Entries are being computed, or can not be.                              *)
LEMMA EntriesEntered ==
    ASSUME IInv, NEW s \in Struct, cachedentries[s] = NotYet,
           ingetentries' = [ingetentries EXCEPT ![s] = TRUE],
           UNCHANGED <<definition, cachedentries, cachedlayout, ingetlayout,
                       incomplete, initialized>>,
           stack' \in Seq(Frame)
    PROVE  /\ Typed' /\ Grows /\ Solid /\ Memoized' /\ ArraysFollow'
           /\ StackSound /\ KeepMarks(Len(stack)) /\ stack \in Seq(Frame)
  <1>1. Typed
    BY DEF IInv
  <1>2. Typed' /\ Grows
    BY <1>1 DEF Typed, Grows, definition
  <1>3. Memoized' /\ ArraysFollow'
    BY <1>1 DEF IInv, Typed, Memoized, ArraysFollow
  <1>4. \A f \in Frame : Marked(f) => Marked(f)'
    BY <1>1, FrameFacts DEF Marked, Typed
  <1>5. KeepMarks(Len(stack))
    BY <1>4 DEF KeepMarks, StackSound, IInv
  <1>6. QED
    BY <1>1, <1>2, <1>3, <1>5 DEF Solid, IInv, Typed

LEMMA GetEntriesStep ==
    ASSUME IInv, GetEntries
    PROVE  IInv'
  <1>1. /\ Running("getentries", "begin") /\ Typed
        /\ UNCHANGED <<definition, cachedlayout, ingetlayout, incomplete, initialized>>
    BY DEF GetEntries, IInv
  <1>2. PICK top \in Frame : top = Top /\ Is(top, "getentries", "begin")
    BY <1>1, RunningFacts DEF Is
  <1>3. PICK s \in Struct : s = top.type
    BY <1>2, FrameFacts DEF Is
  <1>4. /\ stack \in Seq(Frame) /\ stack # << >> /\ Len(stack) \in DOMAIN stack
        /\ top = stack[Len(stack)] /\ Pop = SubSeq(stack, 1, Len(stack) - 1)
    BY <1>1, <1>2, RunningFacts DEF Pop
  <1>5. PICK n \in 0 .. Len(stack) : n + 1 = Len(stack)
    BY <1>4
  <1>6. n = Len(stack) - 1 /\ n < Len(stack)
    BY <1>4, <1>5
  <1>7. CASE /\ cachedentries[s] # NotYet /\ stack' = Pop
             /\ UNCHANGED <<cachedentries, ingetentries>>
    <2>1. stack' \in Seq(Frame) /\ stack' = SubSeq(stack, 1, n)
      BY <1>4, <1>6, <1>7, CutType
    <2>2. Typed'
      BY <1>1, <1>7, <2>1 DEF Typed, definition
    <2>3. \A next \in Frame : next = stack[n + 1] => Result(next)'
      BY <1>2, <1>3, <1>4, <1>5, <1>7 DEF Result, Is
    <2>4. UNCHANGED <<memo, incomplete, initialized>>
      BY <1>1, <1>7 DEF memo
    <2>5. QED
      BY <1>6, <2>1, <2>2, <2>3, <2>4, QuietReturn
  <1>8. CASE Raise /\ UNCHANGED <<cachedentries, ingetentries>>
    <2>1. stack' \in Seq(Frame)
      BY <1>4, <1>8, RaiseType
    <2>2. Typed' /\ UNCHANGED <<memo, incomplete, initialized>>
      BY <1>1, <1>8, <2>1 DEF Typed, definition, memo
    <2>3. QED
      BY <1>8, <2>2, QuietRaise
  <1>9. CASE /\ cachedentries[s] = NotYet /\ ~ingetentries[s]
             /\ cachedentries' = Computed(s, entries[s])
             /\ ingetentries' = [ingetentries EXCEPT ![s] = FALSE]
             /\ stack' = Pop
    BY <1>1, <1>2, <1>3, <1>4, <1>5, <1>6, <1>9, GetEntriesKnown DEF Is
  <1>10. CASE /\ cachedentries[s] = NotYet /\ ~ingetentries[s] /\ Raise
              /\ ingetentries' = [ingetentries EXCEPT ![s] = TRUE]
              /\ UNCHANGED cachedentries
    <2>1. stack' \in Seq(Frame)
      BY <1>4, <1>10, RaiseType
    <2>2. /\ Typed' /\ Grows /\ Solid /\ Memoized' /\ ArraysFollow'
          /\ StackSound /\ KeepMarks(Len(stack))
      BY <1>1, <1>10, <2>1, EntriesEntered
    <2>3. StackSound' /\ MembersKept
      BY <1>4, <1>10, <2>2, RaiseSound, RaiseMembers
    <2>4. QED
      BY <1>1, <2>2, <2>3, Rest
  <1>11. CASE /\ cachedentries[s] = NotYet /\ ~ingetentries[s]
              /\ stack' = Push(At("lua", 1), LuaFrame)
              /\ ingetentries' = [ingetentries EXCEPT ![s] = TRUE]
              /\ UNCHANGED cachedentries
    <2>1. PICK f \in Frame :
              /\ f.op = "getentries" /\ f.at = "lua" /\ f.type = s
              /\ f.op = stack[Len(stack)].op /\ f.type = stack[Len(stack)].type
              /\ At("lua", 1) = [stack EXCEPT ![Len(stack)] = f]
      <3>1. Movable("getentries", "lua") /\ 1 \in Nat \ {0}
        BY <1>2, <1>3 DEF Movable, Points
      <3>2. \E f \in Frame : TopMoved(f, "getentries", "lua", 1)
        BY <1>1, <3>1, MoveTop
      <3>3. QED
        BY <1>2, <1>3, <3>2 DEF TopMoved
    <2>2. PICK new \in Frame : new = LuaFrame /\ new.at = "begin" /\ new.op = "lua"
      BY NewFrame DEF LuaFrame
    <2>3. stack' = Append([stack EXCEPT ![Len(stack)] = f], new)
      BY <1>11, <2>1, <2>2 DEF Push
    <2>4. stack' \in Seq(Frame)
      BY <1>4, <2>3, ChangeType
    <2>5. /\ Typed' /\ Grows /\ Solid /\ Memoized' /\ ArraysFollow'
          /\ StackSound /\ KeepMarks(Len(stack))
      BY <1>1, <1>11, <2>4, EntriesEntered
    <2>6. ingetentries'[s] /\ ~Is(f, "complete", "members")
      BY <1>1, <1>11, <2>1 DEF Typed, Is
    <2>7. Progress(f)' /\ Marked(f)' /\ Called(f, new)'
      BY <2>1, <2>2, <2>6 DEF Progress, Marked, Called, Is
    <2>8. \A k \in DOMAIN stack : ~Same(f, stack[k])
      BY <1>11, <2>1, <2>5 DEF StackSound, Marked, Same, Is
    <2>9. StackSound'
      BY <1>4, <2>1, <2>2, <2>3, <2>5, <2>7, <2>8, CallSound
    <2>10. MembersKept
      BY <1>4, <2>1, <2>2, <2>3, <2>6, ChangeMembers
    <2>11. QED
      BY <1>1, <2>5, <2>9, <2>10, Rest
  <1>12. QED
    BY <1>2, <1>3, <1>7, <1>8, <1>9, <1>10, <1>11 DEF GetEntries, Entered

LEMMA GetEntriesReturnStep ==
    ASSUME IInv, GetEntriesReturn
    PROVE  IInv'
  <1>1. /\ Running("lua", "begin") /\ Len(stack) > 1 /\ Typed
        /\ stack' = SubSeq(Pop, 1, Len(Pop) - 1)
        /\ UNCHANGED <<definition, cachedlayout, ingetlayout, incomplete, initialized>>
    BY DEF GetEntriesReturn, IInv
  <1>2. PICK n \in 0 .. Len(stack) : n = Len(stack) - 2
    BY <1>1, BelowFacts
  <1>3. /\ n < Len(stack) /\ stack' = SubSeq(stack, 1, n) /\ stack[n + 1] = Below
        /\ stack \in Seq(Frame) /\ n + 1 \in DOMAIN stack
    BY <1>1, <1>2, BelowFacts
  <1>4. PICK below \in Frame : below = Below /\ Is(below, "getentries", "lua")
    BY <1>1, BelowFacts DEF GetEntriesReturn, Is
  <1>5. PICK s \in Struct : s = below.type
    BY <1>4, FrameFacts
  <1>6. cachedentries[s] = NotYet
    <2>1. ingetentries[s]
      BY <1>3, <1>4, <1>5 DEF IInv, StackSound, Marked
    <2>2. QED
      BY <2>1 DEF IInv, Memoized
  <1>7. PICK list \in Lists : cachedentries' = Computed(s, list)
    BY <1>4, <1>5 DEF GetEntriesReturn
  <1>8. ingetentries' = [ingetentries EXCEPT ![s] = FALSE] /\ stack' \in Seq(Frame)
    BY <1>3, <1>4, <1>5, CutType DEF GetEntriesReturn
  <1>9. /\ Typed' /\ Grows /\ Solid /\ Memoized' /\ ArraysFollow' /\ StackSound
        /\ cachedentries'[s] # NotYet
        /\ \A f \in Frame : Marked(f) /\ ~(Is(f, "getentries", "lua") /\ f.type = s)
                                => Marked(f)'
    BY <1>1, <1>6, <1>7, <1>8, EntriesKnown
  <1>10. KeepMarks(n)
    <2>1. ASSUME NEW k \in DOMAIN stack, k <= n, NEW f \in Frame, f = stack[k]
          PROVE  Marked(f)'
      <3>1. Marked(f)
        BY <1>9, <2>1 DEF StackSound
      <3>2. k # n + 1
        BY <2>1
      <3>3. ~Same(below, f)
        BY <1>3, <1>4, <1>9, <2>1, <3>2 DEF StackSound, Exclusive
      <3>4. ~(Is(f, "getentries", "lua") /\ f.type = s)
        BY <1>4, <1>5, <3>3 DEF Same, Is
      <3>5. QED
        BY <1>9, <3>1, <3>4
    <2>2. QED
      BY <2>1 DEF KeepMarks
  <1>11. \A next \in Frame : next = stack[n + 1] => Result(next)'
    BY <1>3, <1>4, <1>5, <1>9 DEF Result, Is
  <1>12. StackSound' /\ MembersKept
    BY <1>3, <1>9, <1>10, <1>11, ReturnSound, CutMembers
  <1>13. QED
    BY <1>1, <1>9, <1>12, Rest

-----------------------------------------------------------------------------
(* The layout.                                                             *)
LEMMA LayoutEntered ==
    ASSUME IInv, NEW s \in Struct, ~cachedlayout[s],
           ingetlayout' = [ingetlayout EXCEPT ![s] = TRUE],
           UNCHANGED <<definition, cachedentries, ingetentries, cachedlayout,
                       incomplete, initialized>>,
           stack' \in Seq(Frame)
    PROVE  /\ Typed' /\ Grows /\ Solid /\ Memoized' /\ ArraysFollow'
           /\ StackSound /\ KeepMarks(Len(stack)) /\ stack \in Seq(Frame)
           /\ ingetlayout'[s]
  <1>1. Typed
    BY DEF IInv
  <1>2. Typed' /\ Grows /\ ingetlayout'[s]
    BY <1>1 DEF Typed, Grows, definition
  <1>3. Memoized' /\ ArraysFollow'
    BY <1>1 DEF IInv, Typed, Memoized, ArraysFollow
  <1>4. \A f \in Frame : Marked(f) => Marked(f)'
    BY <1>1, FrameFacts DEF Marked, Typed
  <1>5. KeepMarks(Len(stack))
    BY <1>4 DEF KeepMarks, StackSound, IInv
  <1>6. QED
    BY <1>1, <1>2, <1>3, <1>5 DEF Solid, IInv, Typed

LEMMA GetLayoutStep ==
    ASSUME IInv, GetLayout
    PROVE  IInv'
  <1>1. /\ Running("getlayout", "begin") /\ Typed
        /\ UNCHANGED <<definition, cachedentries, ingetentries, cachedlayout,
                       incomplete, initialized>>
    BY DEF GetLayout, IInv
  <1>2. PICK top \in Frame : top = Top /\ Is(top, "getlayout", "begin")
    BY <1>1, RunningFacts DEF Is
  <1>3. PICK s \in Struct : s = top.type
    BY <1>2, FrameFacts DEF Is
  <1>4. /\ stack \in Seq(Frame) /\ stack # << >> /\ Len(stack) \in DOMAIN stack
        /\ top = stack[Len(stack)] /\ Pop = SubSeq(stack, 1, Len(stack) - 1)
    BY <1>1, <1>2, RunningFacts DEF Pop
  <1>5. PICK n \in 0 .. Len(stack) : n + 1 = Len(stack)
    BY <1>4
  <1>6. n = Len(stack) - 1 /\ n < Len(stack)
    BY <1>4, <1>5
  <1>7. CASE cachedlayout[s] /\ stack' = Pop /\ UNCHANGED ingetlayout
    <2>1. stack' \in Seq(Frame) /\ stack' = SubSeq(stack, 1, n)
      BY <1>4, <1>6, <1>7, CutType
    <2>2. Typed'
      BY <1>1, <1>7, <2>1 DEF Typed, definition
    <2>3. \A next \in Frame : next = stack[n + 1] => Result(next)'
      BY <1>1, <1>2, <1>3, <1>4, <1>5, <1>7 DEF Result, Is
    <2>4. UNCHANGED <<memo, incomplete, initialized>>
      BY <1>1, <1>7 DEF memo
    <2>5. QED
      BY <1>6, <2>1, <2>2, <2>3, <2>4, QuietReturn
  <1>8. CASE Raise /\ UNCHANGED ingetlayout
    <2>1. stack' \in Seq(Frame)
      BY <1>4, <1>8, RaiseType
    <2>2. Typed' /\ UNCHANGED <<memo, incomplete, initialized>>
      BY <1>1, <1>8, <2>1 DEF Typed, definition, memo
    <2>3. QED
      BY <1>8, <2>2, QuietRaise
  <1>9. CASE /\ ~cachedlayout[s] /\ ~ingetlayout[s]
             /\ ingetlayout' = [ingetlayout EXCEPT ![s] = TRUE]
             /\ stack' = Push(At("entries", 1), Begin("getentries", s))
    <2>1. PICK f \in Frame :
              /\ f.op = "getlayout" /\ f.at = "entries" /\ f.type = s /\ f.i = 1
              /\ f.op = stack[Len(stack)].op /\ f.type = stack[Len(stack)].type
              /\ At("entries", 1) = [stack EXCEPT ![Len(stack)] = f]
      <3>1. Movable("getlayout", "entries") /\ 1 \in Nat \ {0}
        BY <1>2, <1>3 DEF Movable, Points
      <3>2. \E f \in Frame : TopMoved(f, "getlayout", "entries", 1)
        BY <1>1, <3>1, MoveTop
      <3>3. QED
        BY <1>2, <1>3, <3>2 DEF TopMoved
    <2>2. PICK new \in Frame : /\ new = Begin("getentries", s) /\ new.at = "begin"
                               /\ new.op = "getentries" /\ new.type = s
      BY NewFrame DEF Begin
    <2>3. stack' = Append([stack EXCEPT ![Len(stack)] = f], new)
      BY <1>9, <2>1, <2>2 DEF Push
    <2>4. stack' \in Seq(Frame)
      BY <1>4, <2>3, ChangeType
    <2>5. /\ Typed' /\ Grows /\ Solid /\ Memoized' /\ ArraysFollow'
          /\ StackSound /\ KeepMarks(Len(stack)) /\ ingetlayout'[s]
      BY <1>1, <1>9, <2>4, LayoutEntered
    <2>6. ~Is(f, "complete", "members")
      BY <2>1 DEF Is
    <2>7. Progress(f)' /\ Marked(f)' /\ Called(f, new)'
      BY <2>1, <2>2, <2>5 DEF Progress, Marked, Called, Is
    <2>8. \A k \in DOMAIN stack : ~Same(f, stack[k])
      BY <1>9, <2>1, <2>5 DEF StackSound, Marked, Same, Is
    <2>9. StackSound'
      BY <1>4, <2>1, <2>2, <2>3, <2>5, <2>7, <2>8, CallSound
    <2>10. MembersKept
      BY <1>4, <2>1, <2>2, <2>3, <2>6, ChangeMembers
    <2>11. QED
      BY <1>1, <2>5, <2>9, <2>10, Rest
  <1>10. QED
    BY <1>2, <1>3, <1>7, <1>8, <1>9 DEF GetLayout, Entered

(* A type that gets its layout last of all is contained in none before it. *)
LEMMA LayoutsGrow ==
    ASSUME Typed, LayoutsFinite, NEW s \in Struct, ~cachedlayout[s],
           cachedentries[s] # NotYet, Elements(cachedentries[s]) \subseteq LaidOut,
           cachedlayout' = [cachedlayout EXCEPT ![s] = TRUE],
           cachedentries' = cachedentries
    PROVE  LayoutsFinite'
  <1>1. LaidOut' = LaidOut \cup {s} /\ s \notin LaidOut
    BY DEF Typed, LaidOut
  <1>2. \A t : Elements(cachedentries[t])' = Elements(cachedentries[t])
    BY DEF Elements
  <1>3. ASSUME NEW t \in LaidOut \cup {s}
        PROVE  cachedentries[t] # NotYet /\ Elements(cachedentries[t]) \subseteq LaidOut
    BY DEF LayoutsFinite
  <1>4. ASSUME NEW S \in (SUBSET (LaidOut \cup {s})) \ {{}}
        PROVE  \E t \in S : Elements(cachedentries[t]) \cap S = {}
    <2>1. CASE S \ {s} = {}
      <3>1. S = {s}
        BY <2>1
      <3>2. Elements(cachedentries[s]) \cap {s} = {}
        BY <1>1, <1>3
      <3>3. QED
        BY <3>1, <3>2
    <2>2. CASE S \ {s} # {}
      <3>1. S \ {s} \in (SUBSET LaidOut) \ {{}}
        BY <2>2
      <3>2. PICK t \in S \ {s} : Elements(cachedentries[t]) \cap (S \ {s}) = {}
        BY <3>1 DEF LayoutsFinite
      <3>3. Elements(cachedentries[t]) \subseteq LaidOut
        BY <1>3
      <3>4. QED
        BY <1>1, <3>2, <3>3
    <2>3. QED
      BY <2>1, <2>2
  <1>5. QED
    BY <1>1, <1>2, <1>3, <1>4 DEF LayoutsFinite

LEMMA GetLayoutReturnStep ==
    ASSUME IInv, GetLayoutReturn
    PROVE  IInv'
  <1>1. /\ Running("getlayout", "entries") /\ Typed
        /\ UNCHANGED <<definition, cachedentries, ingetentries, incomplete, initialized>>
    BY DEF GetLayoutReturn, IInv
  <1>2. PICK top \in Frame : top = Top /\ Is(top, "getlayout", "entries")
    BY <1>1, RunningFacts DEF Is
  <1>3. PICK s \in Struct, i \in Nat \ {0} : s = top.type /\ i = top.i
    BY <1>2, FrameFacts
  <1>4. /\ stack \in Seq(Frame) /\ stack # << >> /\ Len(stack) \in DOMAIN stack
        /\ top = stack[Len(stack)] /\ Pop = SubSeq(stack, 1, Len(stack) - 1)
    BY <1>1, <1>2, RunningFacts DEF Pop
  <1>5. PICK n \in 0 .. Len(stack) : n + 1 = Len(stack)
    BY <1>4
  <1>6. /\ n = Len(stack) - 1 /\ n < Len(stack) /\ stack' = SubSeq(stack, 1, n)
        /\ cachedlayout' = [cachedlayout EXCEPT ![s] = TRUE]
        /\ ingetlayout' = [ingetlayout EXCEPT ![s] = FALSE]
    BY <1>2, <1>3, <1>4, <1>5 DEF GetLayoutReturn
  <1>7. Returned(top) /\ Marked(top)
    BY <1>4 DEF IInv, StackSound
  <1>8. PICK list \in Seq(Member) : list = cachedentries[s] /\ list # NotYet
    BY <1>1, <1>2, <1>3, <1>7, ListFacts DEF Returned
  <1>9. Elements(list) \subseteq LaidOut
    <2>1. \A j \in DOMAIN list : j < i
      BY <1>2, <1>3, <1>8 DEF GetLayoutReturn
    <2>2. \A j \in DOMAIN list : Element(list[j]) \in LaidOut
      BY <1>2, <1>3, <1>7, <1>8, <2>1 DEF Returned
    <2>3. QED
      BY <2>2 DEF Elements
  <1>10. ~cachedlayout[s]
    BY <1>2, <1>3, <1>7 DEF Marked, IInv, Memoized
  <1>11. LayoutsFinite'
    BY <1>1, <1>6, <1>8, <1>9, <1>10, LayoutsGrow DEF IInv
  <1>12. Typed' /\ cachedlayout'[s]
    <2>1. stack' \in Seq(Frame)
      BY <1>4, <1>6, CutType
    <2>2. QED
      BY <1>1, <1>6, <2>1 DEF Typed, definition
  <1>13. Grows /\ Memoized' /\ ArraysFollow'
    BY <1>1, <1>6 DEF IInv, Typed, Grows, Memoized, ArraysFollow
  <1>14. Solid
    BY <1>1, <1>12, <1>13 DEF Solid, IInv
  <1>15. KeepMarks(n)
    <2>1. ASSUME NEW k \in DOMAIN stack, k <= n, NEW f \in Frame, f = stack[k]
          PROVE  Marked(f)'
      <3>1. Marked(f) /\ k # Len(stack)
        BY <1>5, <2>1 DEF IInv, StackSound
      <3>2. ~Same(top, f)
        BY <1>2, <1>4, <2>1, <3>1 DEF IInv, StackSound, Exclusive
      <3>3. ~(Is(f, "getlayout", "entries") /\ f.type = s)
        BY <1>2, <1>3, <3>2 DEF Same, Is
      <3>4. Is(f, "getlayout", "entries") => ingetlayout'[f.type]
        BY <1>1, <1>6, <3>1, <3>3, FrameFacts DEF Marked, Typed
      <3>5. QED
        BY <1>1, <3>1, <3>4 DEF Marked
    <2>2. QED
      BY <2>1 DEF KeepMarks
  <1>16. \A next \in Frame : next = stack[n + 1] => Result(next)'
    BY <1>2, <1>3, <1>4, <1>5, <1>12 DEF Result, Is
  <1>17. StackSound' /\ MembersKept
    BY <1>4, <1>6, <1>13, <1>14, <1>15, <1>16, ReturnSound, CutMembers DEF IInv
  <1>18. InitializedSound' /\ InitializedOnce'
    BY <1>1, <1>14, <1>17, InitializedKept DEF IInv
  <1>19. QED
    BY <1>11, <1>12, <1>13, <1>17, <1>18 DEF IInv

-----------------------------------------------------------------------------
(* Completion.                                                             *)
LEMMA CompleteArrayStep ==
    ASSUME IInv, CompleteArray
    PROVE  IInv'
  <1>1. /\ Running("complete", "element") /\ Typed
        /\ UNCHANGED <<definition, memo, initialized>>
    BY DEF CompleteArray, IInv
  <1>2. PICK top \in Frame : top = Top /\ Is(top, "complete", "element")
    BY <1>1, RunningFacts DEF Is
  <1>3. PICK t \in Type \ Struct : t = top.type
    BY <1>2, FrameFacts DEF Is
  <1>4. /\ stack \in Seq(Frame) /\ stack # << >> /\ Len(stack) \in DOMAIN stack
        /\ top = stack[Len(stack)] /\ Pop = SubSeq(stack, 1, Len(stack) - 1)
    BY <1>1, <1>2, RunningFacts DEF Pop
  <1>5. PICK n \in 0 .. Len(stack) : n + 1 = Len(stack)
    BY <1>4
  <1>6. n = Len(stack) - 1 /\ n < Len(stack) /\ stack' = SubSeq(stack, 1, n)
    BY <1>4, <1>5 DEF CompleteArray
  <1>7. ~incomplete[Element(t)] /\ Element(t) \in Struct
    <2>1. Returned(top)
      BY <1>4 DEF IInv, StackSound
    <2>2. QED
      BY <1>2, <1>3, <2>1, ElementFacts DEF Returned
  <1>8. incomplete' = [incomplete EXCEPT ![t] = FALSE]
    <2>1. incomplete[Element(t)] = FALSE
      BY <1>1, <1>7, ElementFacts DEF Typed
    <2>2. QED
      BY <1>2, <1>3, <2>1 DEF CompleteArray
  <1>9. Typed' /\ ~incomplete'[t]
    <2>1. stack' \in Seq(Frame)
      BY <1>4, <1>6, CutType
    <2>2. QED
      BY <1>1, <1>8, <2>1 DEF Typed, definition, memo
  <1>10. Grows /\ Memoized'
    BY <1>1, <1>8 DEF IInv, Typed, Grows, Memoized, memo
  <1>11. ArraysFollow'
    <2>1. ASSUME NEW u \in Type, ~incomplete'[u]
          PROVE  ~incomplete'[Element(u)]
      <3>1. Element(u) \in Struct /\ Element(u) # t
        BY <1>3, ElementFacts
      <3>2. ~incomplete[Element(u)]
        BY <1>1, <1>7, <1>8, <2>1 DEF IInv, ArraysFollow, Typed
      <3>3. QED
        BY <1>10, <3>1, <3>2, ElementFacts DEF Grows
    <2>2. QED
      BY <2>1 DEF ArraysFollow
  <1>12. Solid
    BY <1>1, <1>9, <1>10 DEF Solid, IInv
  <1>13. KeepMarks(n)
    <2>1. \A f \in Frame : Marked(f) => Marked(f)'
      <3>1. ASSUME NEW f \in Frame, Marked(f), Is(f, "complete", "layout")
            PROVE  incomplete'[f.type]
        BY <1>1, <1>3, <1>8, <3>1, FrameFacts, ElementFacts DEF Marked, Typed
      <3>2. QED
        BY <1>1, <3>1 DEF Marked, memo
    <2>2. QED
      BY <2>1 DEF KeepMarks, IInv, StackSound
  <1>14. \A next \in Frame : next = stack[n + 1] => Result(next)'
    BY <1>2, <1>3, <1>4, <1>5, <1>9 DEF Result, Is
  <1>15. StackSound' /\ MembersKept
    BY <1>4, <1>6, <1>11, <1>12, <1>13, <1>14, ReturnSound, CutMembers DEF IInv
  <1>16. cachedlayout' = cachedlayout /\ initialized' = initialized
    BY <1>1 DEF memo
  <1>17. QED
    BY <1>9, <1>10, <1>11, <1>15, <1>16, Rest

(* While a call completes a struct, the layout being there, no other call  *)
(* that is under way waits for the layout of it.                           *)
LEMMA OneAtLayout ==
    ASSUME Typed, Memoized, StackSound, stack # << >>, NEW s \in Struct, cachedlayout[s],
           stack[Len(stack)].op = "complete",
           NEW k \in DOMAIN stack, k # Len(stack), Is(stack[k], "complete", "layout"),
           stack[k].type = s
    PROVE  FALSE
  <1>1. stack \in Seq(Frame) /\ Len(stack) \in Nat /\ DOMAIN stack = 1 .. Len(stack)
    BY DEF Typed
  <1>2. k + 1 \in DOMAIN stack /\ k + 1 \in Nat
    BY <1>1
  <1>3. stack[k + 1].op = "getlayout" /\ stack[k + 1].type = s
    BY <1>2 DEF StackSound, Called, Is
  <1>4. k + 1 # Len(stack)
    BY <1>3
  <1>5. (k + 1) + 1 \in DOMAIN stack
    BY <1>1, <1>2, <1>4
  <1>6. stack[k + 1].at = "entries"
    BY <1>2, <1>3, <1>5 DEF StackSound, Called
  <1>7. ingetlayout[s]
    BY <1>2, <1>3, <1>6 DEF StackSound, Marked, Is
  <1>8. QED
    BY <1>7 DEF Memoized

LEMMA CompleteStructStep ==
    ASSUME IInv, CompleteStruct
    PROVE  IInv'
  <1>1. /\ Running("complete", "layout") /\ Typed
        /\ UNCHANGED <<definition, memo, initialized>>
    BY DEF CompleteStruct, IInv
  <1>2. PICK top \in Frame : top = Top /\ Is(top, "complete", "layout")
    BY <1>1, RunningFacts DEF Is
  <1>3. PICK s \in Struct : s = top.type
    BY <1>2, FrameFacts
  <1>4. /\ stack \in Seq(Frame) /\ stack # << >> /\ Len(stack) \in DOMAIN stack
        /\ top = stack[Len(stack)]
    BY <1>1, <1>2, RunningFacts
  <1>5. cachedlayout[s] /\ incomplete[s]
    BY <1>2, <1>3, <1>4 DEF IInv, StackSound, Returned, Marked
  <1>6. incomplete' = [incomplete EXCEPT ![s] = FALSE]
    BY <1>2, <1>3 DEF CompleteStruct, NowComplete
  <1>7. PICK f \in Frame :
            /\ f.op = "complete" /\ f.at = "members" /\ f.i = 1 /\ f.type = s
            /\ f.op = stack[Len(stack)].op /\ f.type = stack[Len(stack)].type
            /\ At("members", 1) = [stack EXCEPT ![Len(stack)] = f]
    <2>1. Movable("complete", "members") /\ 1 \in Nat \ {0}
      BY <1>2, <1>3 DEF Movable, Points
    <2>2. \E f \in Frame : TopMoved(f, "complete", "members", 1)
      BY <1>1, <2>1, MoveTop
    <2>3. QED
      BY <1>2, <1>3, <2>2 DEF TopMoved
  <1>8. stack' = [stack EXCEPT ![Len(stack)] = f]
    BY <1>7 DEF CompleteStruct, FirstMember
  <1>9. Typed' /\ ~incomplete'[s] /\ cachedlayout'[s]
    <2>1. stack' \in Seq(Frame)
      BY <1>4, <1>8, ChangeType
    <2>2. QED
      BY <1>1, <1>5, <1>6, <2>1, ElementFacts DEF Typed, definition, memo
  <1>10. Grows /\ Memoized'
    BY <1>1, <1>6 DEF IInv, Typed, Grows, Memoized, memo
  <1>11. ArraysFollow'
    <2>1. ASSUME NEW u \in Type, ~incomplete'[u]
          PROVE  ~incomplete'[Element(u)]
      BY <1>1, <1>6, <1>9, <2>1, ElementFacts DEF IInv, ArraysFollow, Typed
    <2>2. QED
      BY <2>1 DEF ArraysFollow
  <1>12. Solid
    BY <1>1, <1>9, <1>10 DEF Solid, IInv
  <1>13. ASSUME NEW k \in DOMAIN stack, k # Len(stack), NEW g \in Frame, g = stack[k]
         PROVE  Marked(g)'
    <2>1. Marked(g)
      BY <1>13 DEF IInv, StackSound
    <2>2. ~(Is(g, "complete", "layout") /\ g.type = s)
      BY <1>2, <1>4, <1>5, <1>13, OneAtLayout DEF IInv, Is
    <2>3. Is(g, "complete", "layout") => incomplete'[g.type]
      BY <1>1, <1>6, <2>1, <2>2, FrameFacts, ElementFacts DEF Marked, Typed
    <2>4. QED
      BY <1>1, <2>1, <2>3 DEF Marked, memo
  <1>14. Progress(f)' /\ Marked(f)' /\ Returned(f)'
    <2>1. cachedentries[s] # NotYet /\ cachedentries'[s] = cachedentries[s]
      BY <1>5, <1>12, LaidOutFacts
    <2>2. cachedentries'[s] \in Seq(Member)
      BY <1>1, <2>1, ListFacts
    <2>3. \A j \in DOMAIN cachedentries'[s] : ~(j < 1)
      BY <2>2
    <2>4. \A j \in DOMAIN cachedentries'[s] : ~(j + 1 < 1)
      BY <2>2
    <2>5. QED
      BY <1>7, <1>9, <2>3, <2>4 DEF Progress, Marked, Returned, Is
  <1>15. ASSUME NEW k \in DOMAIN stack
         PROVE  ~Same(f, stack[k])
    <2>1. Is(stack[k], "complete", "members") => ~incomplete[stack[k].type]
      BY DEF IInv, StackSound, Progress
    <2>2. QED
      BY <1>5, <1>7, <2>1 DEF Same, Is
  <1>16. StackSound'
    <2>1. \A g \in Frame : Len(stack) + 1 \in DOMAIN stack /\ g = stack[Len(stack) + 1]
                               => Called(f, g)'
      BY <1>4
    <2>2. QED
      BY <1>4, <1>7, <1>8, <1>12, <1>13, <1>14, <1>15, <2>1, ChangeSound DEF IInv
  <1>17. InitializedSound' /\ InitializedOnce'
    <2>1. ASSUME NEW n \in DOMAIN initialized
          PROVE  initialized[n] \in Struct /\ cachedlayout'[initialized[n]]
      BY <1>1 DEF IInv, InitializedSound, Typed, memo
    <2>2. ASSUME NEW n \in DOMAIN initialized, NEW k \in DOMAIN stack',
                 Is(stack'[k], "complete", "members")
          PROVE  stack'[k].type # initialized[n]
      <3>1. CASE k = Len(stack)
        <4>1. stack'[k].type = s
          BY <1>4, <1>7, <1>8, <3>1
        <4>2. ~incomplete[initialized[n]]
          BY DEF IInv, InitializedOnce
        <4>3. QED
          BY <1>5, <4>1, <4>2
      <3>2. CASE k # Len(stack)
        <4>1. k \in DOMAIN stack /\ stack'[k] = stack[k]
          BY <1>4, <1>8, <2>2, <3>2
        <4>2. QED
          BY <2>2, <4>1 DEF IInv, InitializedSound
      <3>3. QED
        BY <3>1, <3>2
    <2>3. InitializedSound'
      BY <1>1, <2>1, <2>2 DEF InitializedSound, Is
    <2>4. QED
      BY <1>1, <1>12, <2>3, InitializedOnceKept DEF IInv
  <1>18. LayoutsFinite'
    BY <1>1, <1>12, LayoutsKept DEF memo
  <1>19. QED
    BY <1>9, <1>10, <1>11, <1>16, <1>17, <1>18 DEF IInv

LEMMA CompleteInitializeStep ==
    ASSUME IInv, CompleteInitialize
    PROVE  IInv'
  <1>1. /\ Running("complete", "members") /\ Typed
        /\ UNCHANGED <<definition, memo, incomplete>>
    BY DEF CompleteInitialize, IInv
  <1>2. PICK top \in Frame : top = Top /\ Is(top, "complete", "members")
    BY <1>1, RunningFacts DEF Is
  <1>3. PICK s \in Struct, i \in Nat \ {0} : s = top.type /\ i = top.i
    BY <1>2, FrameFacts
  <1>4. /\ stack \in Seq(Frame) /\ stack # << >> /\ Len(stack) \in DOMAIN stack
        /\ top = stack[Len(stack)] /\ Pop = SubSeq(stack, 1, Len(stack) - 1)
    BY <1>1, <1>2, RunningFacts DEF Pop
  <1>5. cachedlayout[s] /\ ~incomplete[s]
    BY <1>2, <1>3, <1>4 DEF IInv, StackSound, Progress
  <1>6. CASE stack' = Pop /\ UNCHANGED initialized
    <2>1. PICK n \in 0 .. Len(stack) : n + 1 = Len(stack)
      BY <1>4
    <2>2. n = Len(stack) - 1 /\ n < Len(stack) /\ stack' = SubSeq(stack, 1, n)
      BY <1>4, <1>6, <2>1
    <2>3. Typed'
      <3>1. stack' \in Seq(Frame)
        BY <1>4, <2>2, CutType
      <3>2. QED
        BY <1>1, <1>6, <3>1 DEF Typed, definition, memo
    <2>4. \A next \in Frame : next = stack[n + 1] => Result(next)'
      BY <1>1, <1>2, <1>3, <1>4, <1>5, <2>1 DEF Result, Is
    <2>5. QED
      BY <1>1, <1>6, <2>2, <2>3, <2>4, QuietReturn
  <1>7. CASE /\ initialized' = Append(initialized, s)
             /\ stack' = Push(At("lua", 1), LuaFrame)
    <2>1. PICK f \in Frame :
              /\ f.op = "complete" /\ f.at = "lua" /\ f.type = s
              /\ f.op = stack[Len(stack)].op /\ f.type = stack[Len(stack)].type
              /\ At("lua", 1) = [stack EXCEPT ![Len(stack)] = f]
      <3>1. Movable("complete", "lua") /\ 1 \in Nat \ {0}
        BY <1>2, <1>3 DEF Movable, Points
      <3>2. \E f \in Frame : TopMoved(f, "complete", "lua", 1)
        BY <1>1, <3>1, MoveTop
      <3>3. QED
        BY <1>2, <1>3, <3>2 DEF TopMoved
    <2>2. PICK new \in Frame : new = LuaFrame /\ new.at = "begin" /\ new.op = "lua"
      BY NewFrame DEF LuaFrame
    <2>3. stack' = Append([stack EXCEPT ![Len(stack)] = f], new)
      BY <1>7, <2>1, <2>2 DEF Push
    <2>4. initialized \in Seq(Struct) /\ initialized' \in Seq(Struct)
      BY <1>1, <1>7 DEF Typed
    <2>5. Typed'
      <3>1. stack' \in Seq(Frame)
        BY <1>4, <2>3, ChangeType
      <3>2. QED
        BY <1>1, <2>4, <3>1 DEF Typed, definition, memo
    <2>6. Grows /\ Memoized' /\ ArraysFollow' /\ LaidOut' = LaidOut
      BY <1>1 DEF IInv, Grows, Memoized, ArraysFollow, memo, LaidOut
    <2>7. Solid
      BY <1>1, <2>5, <2>6 DEF Solid, IInv
    <2>8. KeepMarks(Len(stack))
      <3>1. \A g \in Frame : Marked(g) => Marked(g)'
        BY <1>1 DEF Marked, memo
      <3>2. QED
        BY <3>1 DEF KeepMarks, IInv, StackSound
    <2>9. Progress(f)' /\ Marked(f)' /\ Called(f, new)' /\ ~Exclusive(f)
      BY <1>1, <1>5, <2>1, <2>2 DEF Progress, Marked, Called, Exclusive, Is, memo
    <2>10. StackSound'
      BY <1>4, <2>1, <2>2, <2>3, <2>7, <2>8, <2>9, CallSound DEF IInv
    <2>11. LayoutsFinite'
      BY <1>1, <2>7, LayoutsKept DEF memo
    <2>12. \A n \in DOMAIN initialized : initialized[n] # s
      BY <1>2, <1>3, <1>4 DEF IInv, InitializedSound
    <2>13. /\ DOMAIN initialized' = DOMAIN initialized \cup {Len(initialized) + 1}
           /\ initialized'[Len(initialized) + 1] = s
           /\ Len(initialized) + 1 \notin DOMAIN initialized
           /\ \A n \in DOMAIN initialized : initialized'[n] = initialized[n]
      BY <1>7, <2>4
    <2>14. InitializedSound'
      <3>1. ASSUME NEW n \in DOMAIN initialized'
            PROVE  cachedlayout'[initialized'[n]]
        BY <1>1, <1>5, <2>13 DEF IInv, InitializedSound, memo
      <3>2. ASSUME NEW k \in DOMAIN stack', Is(stack'[k], "complete", "members")
            PROVE  /\ k \in DOMAIN stack /\ k # Len(stack) /\ stack'[k] = stack[k]
                   /\ Is(stack[k], "complete", "members")
        <4>1. k = Len(stack) + 1 => stack'[k] = new
          BY <1>4, <2>3, <3>2
        <4>2. k = Len(stack) => stack'[k] = f
          BY <1>4, <2>3, <3>2
        <4>3. k # Len(stack) + 1 /\ k # Len(stack)
          BY <2>1, <2>2, <3>2, <4>1, <4>2 DEF Is
        <4>4. k \in DOMAIN stack /\ stack'[k] = stack[k]
          BY <1>4, <2>3, <3>2, <4>3
        <4>5. QED
          BY <3>2, <4>3, <4>4
      <3>3. ASSUME NEW n \in DOMAIN initialized', NEW k \in DOMAIN stack',
                   Is(stack'[k], "complete", "members")
            PROVE  stack'[k].type # initialized'[n]
        <4>1. /\ k \in DOMAIN stack /\ k # Len(stack) /\ stack'[k] = stack[k]
              /\ Is(stack[k], "complete", "members")
          BY <3>2, <3>3
        <4>2. stack[k].type # s
          BY <1>2, <1>3, <1>4, <4>1 DEF IInv, StackSound, Exclusive, Same, Is
        <4>3. QED
          BY <2>13, <4>1, <4>2 DEF IInv, InitializedSound
      <3>4. QED
        BY <3>1, <3>3 DEF InitializedSound, Is
    <2>15. InitializedOnce'
      <3>1. \A i1, j1 \in DOMAIN initialized' : initialized'[i1] = initialized'[j1] => i1 = j1
        BY <2>12, <2>13 DEF IInv, InitializedOnce
      <3>2. ASSUME NEW m \in {s} \cup Elements(cachedentries[s])
            PROVE  ~incomplete[m]
        <4>1. \A j \in DOMAIN cachedentries[s] : ~incomplete[Element(cachedentries[s][j])]
          <5>1. Returned(top)
            BY <1>4 DEF IInv, StackSound
          <5>2. cachedentries[s] \in Seq(Member)
            BY <1>1, <1>5, <2>7, LaidOutFacts, ListFacts
          <5>3. \A j \in DOMAIN cachedentries[s] : j < i
            BY <1>2, <1>3, <5>2 DEF CompleteInitialize
          <5>4. QED
            BY <1>2, <1>3, <5>1, <5>3 DEF Returned
        <4>2. QED
          BY <1>5, <4>1 DEF Elements
      <3>3. ASSUME NEW n \in DOMAIN initialized',
                   NEW m \in {initialized'[n]} \cup Elements(cachedentries[initialized'[n]])
            PROVE  ~incomplete[m]
        BY <2>13, <3>2 DEF IInv, InitializedOnce
      <3>4. cachedentries' = cachedentries /\ incomplete' = incomplete
        BY <1>1 DEF memo
      <3>5. QED
        BY <3>1, <3>3, <3>4 DEF InitializedOnce, Elements
    <2>16. QED
      BY <2>5, <2>6, <2>10, <2>11, <2>14, <2>15 DEF IInv
  <1>8. QED
    BY <1>2, <1>3, <1>6, <1>7 DEF CompleteInitialize

-----------------------------------------------------------------------------
LEMMA InitInvariant == Init => IInv
  <1> SUFFICES ASSUME Init PROVE IInv
    OBVIOUS
  <1>1. Typed /\ Memoized /\ ArraysFollow
    <2>1. stack \in Seq(Frame) /\ initialized \in Seq(Struct)
      BY DEF Init
    <2>2. undefined \in [Struct -> BOOLEAN] /\ incomplete \in [Type -> BOOLEAN]
      BY DEF Init
    <2>3. Typed
      BY <2>1, <2>2 DEF Init, Typed
    <2>4. Memoized
      BY DEF Init, Memoized
    <2>5. ArraysFollow
      BY DEF Init, ArraysFollow
    <2>6. QED
      BY <2>3, <2>4, <2>5
  <1>2. StackSound /\ InitializedSound
    BY DEF Init, StackSound, InitializedSound
  <1>3. LaidOut = {}
    BY DEF Init, LaidOut
  <1>4. LayoutsFinite /\ InitializedOnce
    BY <1>3 DEF Init, LayoutsFinite, InitializedOnce
  <1>5. QED
    BY <1>1, <1>2, <1>4 DEF IInv

LEMMA StepInvariant ==
    ASSUME IInv, [Next]_vars
    PROVE  IInv'
  <1>1. CASE UNCHANGED vars
    <2>1. UNCHANGED <<entries, undefined, tree, cachedentries, ingetentries, cachedlayout,
                      ingetlayout, incomplete, initialized, stack>>
      BY <1>1 DEF vars, definition, memo
    <2>2. Typed' /\ Memoized' /\ ArraysFollow' /\ InitializedSound'
      BY <2>1 DEF IInv, Typed, Memoized, ArraysFollow, InitializedSound
    <2>3. StackSound'
      <3>1. ASSUME NEW f \in Frame
            PROVE  /\ Progress(f) => Progress(f)'
                   /\ Marked(f) => Marked(f)'
                   /\ Returned(f) => Returned(f)'
                   /\ \A g \in Frame : Called(f, g) => Called(f, g)'
        <4>1. Progress(f) => Progress(f)'
          BY <2>1 DEF Progress, LaidOut
        <4>2. Marked(f) => Marked(f)'
          BY <2>1 DEF Marked
        <4>3. Returned(f) => Returned(f)'
          BY <2>1 DEF Returned, LaidOut
        <4>4. \A g \in Frame : Called(f, g) => Called(f, g)'
          BY <2>1 DEF Called
        <4>5. QED
          BY <4>1, <4>2, <4>3, <4>4
      <3>2. StackSound /\ stack' = stack /\ stack \in Seq(Frame)
        BY <2>1 DEF IInv, Typed
      <3>3. \A k \in DOMAIN stack' : \A f \in Frame :
                f = stack'[k] => Progress(f)' /\ Marked(f)'
        BY <3>1, <3>2 DEF StackSound
      <3>4. \A k \in DOMAIN stack' : \A f, g \in Frame :
                k + 1 \in DOMAIN stack' /\ f = stack'[k] /\ g = stack'[k + 1]
                    => Called(f, g)'
        BY <3>1, <3>2 DEF StackSound
      <3>5. \A f \in Frame : stack' # << >> /\ f = stack'[Len(stack')] => Returned(f)'
        BY <3>1, <3>2 DEF StackSound
      <3>6. \A j, k \in DOMAIN stack' :
                Exclusive(stack'[j]) /\ Same(stack'[j], stack'[k]) => j = k
        BY <3>2 DEF StackSound
      <3>7. QED
        BY <2>2, <3>3, <3>4, <3>5, <3>6, SoundNext
    <2>4. LayoutsFinite' /\ InitializedOnce'
      <3>1. Grows /\ Solid
        BY <2>1, <2>2 DEF Grows, Solid, IInv
      <3>2. QED
        BY <2>1, <3>1, LayoutsKept, InitializedOnceKept DEF IInv
    <2>5. QED
      BY <2>2, <2>3, <2>4 DEF IInv
  <1>2. CASE LuaError
    BY <1>2, LuaErrorStep
  <1>3. ASSUME NEW op \in Calls, NEW t \in Type, LuaCall(op, t) PROVE IInv'
    BY <1>3, LuaCallStep
  <1>4. CASE LayoutStruct
    BY <1>4, LayoutStructStep
  <1>5. CASE LayoutStructEntries
    BY <1>5, LayoutStructEntriesStep
  <1>6. CASE LayoutStructReturn
    <2>1. /\ Running("lua", "begin") /\ Len(stack) > 1 /\ Below.op = "layoutstruct"
          /\ stack' = SubSeq(Pop, 1, Len(Pop) - 1)
          /\ UNCHANGED <<definition, memo, incomplete, initialized>>
      BY <1>6 DEF LayoutStructReturn
    <2>2. entries' \in [Struct -> Lists] /\ tree' \in [Struct -> BOOLEAN]
          /\ UNCHANGED undefined
      BY <2>1 DEF IInv, Typed, definition
    <2>3. QED
      BY <2>1, <2>2, LayoutStructReturnStep
  <1>7. CASE GetEntries
    BY <1>7, GetEntriesStep
  <1>8. CASE GetEntriesReturn
    BY <1>8, GetEntriesReturnStep
  <1>9. CASE GetLayout
    BY <1>9, GetLayoutStep
  <1>10. CASE GetLayoutEntry
    BY <1>10, GetLayoutEntryStep
  <1>11. CASE GetLayoutReturn
    BY <1>11, GetLayoutReturnStep
  <1>12. CASE Complete
    BY <1>12, CompleteStep
  <1>13. CASE CompleteArray
    BY <1>13, CompleteArrayStep
  <1>14. CASE CompleteStruct
    BY <1>14, CompleteStructStep
  <1>15. CASE CompleteMember
    BY <1>15, CompleteMemberStep
  <1>16. CASE CompleteInitialize
    BY <1>16, CompleteInitializeStep
  <1>17. CASE CompleteReturn
    BY <1>17, CompleteReturnStep
  <1>18. QED
    BY <1>1, <1>2, <1>3, <1>4, <1>5, <1>6, <1>7, <1>8, <1>9, <1>10, <1>11, <1>12,
       <1>13, <1>14, <1>15, <1>16, <1>17 DEF Next, Step, Ends

THEOREM Invariant == Spec => []IInv
  <1>1. IInv /\ [Next]_vars => IInv'
    BY StepInvariant
  <1>2. QED
    BY <1>1, InitInvariant, PTL DEF Spec

(* Whatever the program defines, calls from its hooks and lets fail: what  *)
(* has a layout is made of types that have one, and no type contains       *)
(* itself by value.                                                        *)
THEOREM LayoutsAreFinite == Spec => []LayoutsFinite
  <1>1. IInv => LayoutsFinite
    BY DEF IInv
  <1>2. QED
    BY <1>1, Invariant, PTL

(* Static initializers run only once, on types that are complete with all  *)
(* their members, however completions are nested.                          *)
THEOREM InitializersRunOnce == Spec => []InitializedOnce
  <1>1. IInv => InitializedOnce
    BY DEF IInv
  <1>2. QED
    BY <1>1, Invariant, PTL

(* The entries and the layout are set by a call that has entered, and that *)
(* is still on the stack.                                                  *)
LEMMA OnlyFromFrames ==
    ASSUME IInv, Next, NEW s \in Struct
    PROVE  /\ ingetentries[s] /\ Frames("getentries", s) = {} => cachedentries'[s] = NotYet
           /\ ingetlayout[s] /\ Frames("getlayout", s) = {} => ~cachedlayout'[s]
  <1>1. Typed /\ (ingetentries[s] => cachedentries[s] = NotYet)
              /\ (ingetlayout[s] => ~cachedlayout[s])
    BY DEF IInv, Memoized
  <1>2. CASE UNCHANGED cachedentries /\ UNCHANGED cachedlayout
    BY <1>1, <1>2
  <1>3. CASE GetEntries
    <2>1. cachedlayout' = cachedlayout
      BY <1>3 DEF GetEntries
    <2>2. \/ UNCHANGED cachedentries
          \/ /\ ~ingetentries[Top.type] /\ Top.type \in Struct
             /\ cachedentries' = [cachedentries EXCEPT ![Top.type] = entries[Top.type]]
      <3>1. Running("getentries", "begin")
        BY <1>3 DEF GetEntries
      <3>2. Top \in Frame /\ Top.op = "getentries"
        BY <1>1, <3>1, RunningFacts
      <3>3. Top.type \in Struct
        BY <3>2, FrameFacts
      <3>4. QED
        BY <1>3, <3>3 DEF GetEntries, Entered, Computed
    <2>3. QED
      BY <1>1, <2>1, <2>2 DEF Typed
  <1>4. CASE GetEntriesReturn
    <2>1. cachedlayout' = cachedlayout
      BY <1>4 DEF GetEntriesReturn
    <2>2. /\ Len(stack) - 1 \in DOMAIN stack /\ Below = stack[Len(stack) - 1]
          /\ Below.op = "getentries" /\ Below.at = "lua"
      <3>1. /\ Running("lua", "begin") /\ Len(stack) > 1
            /\ Below.op = "getentries" /\ Below.at = "lua"
        BY <1>4 DEF GetEntriesReturn
      <3>2. QED
        BY <1>1, <3>1, BelowFacts
    <2>3. Len(stack) - 1 \in Frames("getentries", Below.type)
      BY <2>2 DEF Frames
    <2>4. PICK list \in Lists : cachedentries' = [cachedentries EXCEPT ![Below.type] = list]
      BY <1>4 DEF GetEntriesReturn, Computed
    <2>5. CASE Below.type = s
      BY <1>1, <2>1, <2>3, <2>5
    <2>6. CASE Below.type # s
      BY <1>1, <2>1, <2>4, <2>6 DEF Typed
    <2>7. QED
      BY <2>5, <2>6
  <1>5. CASE GetLayoutReturn
    <2>1. /\ cachedentries' = cachedentries
          /\ cachedlayout' = [cachedlayout EXCEPT ![Top.type] = TRUE]
      BY <1>5 DEF GetLayoutReturn
    <2>2. /\ Len(stack) \in DOMAIN stack /\ Top = stack[Len(stack)]
          /\ Top.op = "getlayout" /\ Top.at = "entries"
      <3>1. Running("getlayout", "entries")
        BY <1>5 DEF GetLayoutReturn
      <3>2. QED
        BY <1>1, <3>1, RunningFacts
    <2>3. Len(stack) \in Frames("getlayout", Top.type)
      BY <2>2 DEF Frames
    <2>4. CASE Top.type = s
      BY <1>1, <2>1, <2>3, <2>4
    <2>5. CASE Top.type # s
      BY <1>1, <2>1, <2>5 DEF Typed
    <2>6. QED
      BY <2>4, <2>5
  <1>6. QED
    BY <1>2, <1>3, <1>4, <1>5
       DEF Next, Step, Ends, vars, memo, LuaError, LuaCall, LayoutStruct,
           LayoutStructEntries, LayoutStructReturn, GetLayout, GetLayoutEntry, Complete,
           CompleteArray, CompleteStruct, CompleteMember, CompleteInitialize, CompleteReturn

(* A type whose entries or whose layout failed stays unusable.             *)
THEOREM FailuresStay == Spec => FailedStaysFailed
  <1>1. IInv /\ [Next]_vars =>
            [\A s \in Struct :
                 /\ ingetentries[s] /\ Frames("getentries", s) = {}
                         => cachedentries'[s] = NotYet
                 /\ ingetlayout[s] /\ Frames("getlayout", s) = {}
                         => ~cachedlayout'[s]]_vars
    BY OnlyFromFrames
  <1>2. QED
    BY <1>1, Invariant, PTL DEF Spec, FailedStaysFailed
=============================================================================
