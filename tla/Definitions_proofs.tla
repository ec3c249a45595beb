------------------------- MODULE Definitions_proofs -------------------------
(***************************************************************************)
(* Proofs about Definitions, for every set of functions and globals, every *)
(* number of units and every program.                                      *)
(***************************************************************************)
EXTENDS Definitions, TLAPS

(* What the program must keep to: no initializer uses a function, and what *)
(* is called back redefines none.                                          *)
PlainInitializers == \A init \in Initializers : init \cap Fn = {}
QuietHooks == "resetdefinition" \notin HookOps

(* The initializers that are set or about to be.                           *)
Plain ==
    /\ \A g \in Gv : uses[g] \cap Fn = {}
    /\ \A k \in DOMAIN stack :
           stack[k].op = "setinitializer" => stack[k].init \cap Fn = {}

(* A check that is under way: what it has visited is defined, and what     *)
(* that uses is visited, marked, or still to be visited.                   *)
Sound(frame) ==
    /\ frame.root \in frame.visited \cup frame.pending \cup readytocompile
    /\ \A f \in Fn \cap frame.visited :
           /\ f \in defined
           /\ f \notin frame.current =>
                  uses[f] \subseteq frame.visited \cup frame.pending \cup readytocompile

ChecksSound == \A k \in DOMAIN stack : stack[k].op = "check" => Sound(stack[k])

(* Functions are marked before they are emitted.                           *)
EmittedReady == \A u \in Unit : Fn \cap emitted[u] \subseteq readytocompile

(* What readytocompile relies on, whatever initializers use; and what the  *)
(* emitter relies on, if they use no function.                             *)
Checks == TypeOK /\ ReadyClosed /\ ChecksSound

IInv == Checks /\ Plain /\ EmittedReady /\ EmittedDefined /\ CodeIsCurrent

-----------------------------------------------------------------------------
(* Frames.                                                                 *)
CheckFrame ==
    [op : {"check"}, unit : Unit, root : Value, visited : SUBSET Value,
     pending : SUBSET Value, current : {{}} \cup {{v} : v \in Value}]

InitializerFrame == [op : {"setinitializer"}, global : Gv, init : Initializers]

LEMMA FrameFacts ==
    ASSUME NEW frame \in Frame
    PROVE  /\ frame.op = "check" => frame \in CheckFrame
           /\ frame.op = "setinitializer" => frame \in InitializerFrame
  BY DEF Frame, CheckFrame, InitializerFrame

LEMMA NewFrames ==
    /\ Lua \in Frame /\ Lua.op = "lua"
    /\ CheckFrame \subseteq Frame
    /\ InitializerFrame \subseteq Frame
  BY DEF Lua, Frame, CheckFrame, InitializerFrame

(* The stack after pushing, cutting and changing the last frame.           *)
LEMMA PushFacts ==
    ASSUME NEW S, NEW s \in Seq(S), NEW x \in S
    PROVE  /\ Append(s, x) \in Seq(S)
           /\ \A k \in DOMAIN Append(s, x) :
                  (k \in DOMAIN s /\ Append(s, x)[k] = s[k]) \/ Append(s, x)[k] = x
  OBVIOUS

LEMMA CutFacts ==
    ASSUME NEW S, NEW s \in Seq(S), NEW n \in 0 .. Len(s)
    PROVE  /\ SubSeq(s, 1, n) \in Seq(S)
           /\ \A k \in DOMAIN SubSeq(s, 1, n) :
                  k \in DOMAIN s /\ SubSeq(s, 1, n)[k] = s[k]
  OBVIOUS

LEMMA ChangeFacts ==
    ASSUME NEW S, NEW s \in Seq(S), s # << >>, NEW x \in S
    PROVE  /\ [s EXCEPT ![Len(s)] = x] \in Seq(S)
           /\ \A k \in DOMAIN [s EXCEPT ![Len(s)] = x] :
                  \/ k \in DOMAIN s /\ [s EXCEPT ![Len(s)] = x][k] = s[k]
                  \/ [s EXCEPT ![Len(s)] = x][k] = x
  OBVIOUS

LEMMA TopFacts ==
    ASSUME stack \in Seq(Frame), stack # << >>
    PROVE  /\ Len(stack) \in DOMAIN stack /\ Top = stack[Len(stack)] /\ Top \in Frame
           /\ Len(stack) - 1 \in 0 .. Len(stack)
           /\ Len(stack) > 1 => /\ Len(stack) - 1 \in DOMAIN stack
                                /\ Below = stack[Len(stack) - 1] /\ Below \in Frame
                                /\ Len(stack) - 2 \in 0 .. Len(stack)
  BY DEF Top, Below

(* What a step does to the stack: the frames are kept, or one of F and     *)
(* pieces of the program are new.                                          *)
Kept(F) ==
    /\ stack' \in Seq(Frame)
    /\ \A k \in DOMAIN stack' :
           \/ k \in DOMAIN stack /\ stack'[k] = stack[k]
           \/ stack'[k] = Lua
           \/ stack'[k] \in F

LEMMA RaiseKept ==
    ASSUME stack \in Seq(Frame), Raise
    PROVE  Kept({})
  <1>1. PICK k \in {0} \cup Catching : stack' = SubSeq(stack, 1, k)
    BY DEF Raise
  <1>2. Len(stack) \in Nat /\ k \in 0 .. Len(stack)
    BY DEF Catching
  <1>3. QED
    BY <1>1, <1>2, CutFacts DEF Kept

LEMMA SameKept ==
    ASSUME stack \in Seq(Frame), stack' = stack
    PROVE  Kept({})
  BY DEF Kept

LEMMA SetInitializerKept ==
    ASSUME stack \in Seq(Frame), NEW g \in Gv, NEW init \in Initializers,
           SetInitializer(g, init)
    PROVE  Kept({[op |-> "setinitializer", global |-> g, init |-> init]})
  <1> DEFINE new == [op |-> "setinitializer", global |-> g, init |-> init]
  <1>1. new \in Frame
    BY NewFrames DEF InitializerFrame
  <1> HIDE DEF new
  <1>2. Lua \in Frame
    BY NewFrames
  <1> HIDE DEF Lua
  <1>3. stack' = stack \o <<new, Lua>>
    BY DEF SetInitializer, new
  <1>4. stack \o <<new, Lua>> = Append(Append(stack, new), Lua)
    BY <1>1, <1>2
  <1>5. QED
    BY <1>1, <1>2, <1>3, <1>4, PushFacts DEF Kept, new

LEMMA Pop2Kept ==
    ASSUME stack \in Seq(Frame), Len(stack) > 1, stack # << >>, stack' = Pop2
    PROVE  Kept({})
  BY TopFacts, CutFacts DEF Kept, Pop2

LEMMA PopKept ==
    ASSUME stack \in Seq(Frame), stack # << >>, stack' = Pop
    PROVE  Kept({})
  BY TopFacts, CutFacts DEF Kept, Pop

LEMMA AddValueKept ==
    ASSUME stack \in Seq(Frame), NEW u \in Unit, NEW v \in Value, AddValue(u, v)
    PROVE  Kept({Check(u, v)})
  <1>1. Check(u, v) \in Frame
    BY NewFrames DEF Check, CheckFrame
  <1>2. QED
    BY <1>1, PushFacts DEF AddValue, Kept

LEMMA CheckingKept ==
    ASSUME stack \in Seq(Frame), stack # << >>, NEW frame \in Frame,
           stack' = Checking(frame)
    PROVE  Kept({frame})
  BY ChangeFacts DEF Checking, Kept

LEMMA CheckingLuaKept ==
    ASSUME stack \in Seq(Frame), stack # << >>, NEW frame \in Frame,
           stack' = Append(Checking(frame), Lua)
    PROVE  Kept({frame})
  <1>1. /\ Checking(frame) \in Seq(Frame)
        /\ \A k \in DOMAIN Checking(frame) :
               \/ k \in DOMAIN stack /\ Checking(frame)[k] = stack[k]
               \/ Checking(frame)[k] = frame
    BY ChangeFacts DEF Checking
  <1>2. Lua \in Frame
    BY NewFrames
  <1>3. QED
    BY <1>1, <1>2, PushFacts DEF Kept

LEMMA Pop2PushKept ==
    ASSUME stack \in Seq(Frame), Len(stack) > 1, stack # << >>, NEW frame \in Frame,
           stack' = Append(Pop2, frame)
    PROVE  Kept({frame})
  <1>1. /\ Pop2 \in Seq(Frame)
        /\ \A k \in DOMAIN Pop2 : k \in DOMAIN stack /\ Pop2[k] = stack[k]
    BY TopFacts, CutFacts DEF Pop2
  <1>2. QED
    BY <1>1, PushFacts DEF Kept

-----------------------------------------------------------------------------
(* The check at the end of the stack, and the frames that replace it.      *)
LEMMA VisitingFacts ==
    ASSUME stack \in Seq(Frame), NEW v \in Value, Visiting(v)
    PROVE  /\ stack # << >> /\ Top \in CheckFrame /\ Top.current = {} /\ v \in Top.pending
           /\ [Top EXCEPT !.pending = @ \ {v}] \in CheckFrame
           /\ [Top EXCEPT !.visited = @ \cup {v}, !.pending = @ \ {v},
                          !.current = {v}] \in CheckFrame
  <1>1. stack # << >> /\ Top \in CheckFrame /\ Top.current = {} /\ v \in Top.pending
    BY TopFacts, FrameFacts DEF Visiting, Running
  <1>2. QED
    BY <1>1 DEF CheckFrame

LEMMA UsesFacts ==
    ASSUME TypeOK, NEW v \in Value, VisitUses(v)
    PROVE  /\ stack # << >> /\ Len(stack) > 1 /\ Below \in CheckFrame /\ Below = stack[Len(stack) - 1]
           /\ Len(stack) - 1 \in DOMAIN stack
           /\ Used(v) \subseteq Value
           /\ [Below EXCEPT !.pending = @ \cup Used(v), !.current = {}] \in CheckFrame
  <1>1. stack # << >> /\ Len(stack) > 1 /\ stack \in Seq(Frame) /\ Below.op = "check"
    BY DEF VisitUses, CalledBy, Running, TypeOK
  <1>2. Below \in CheckFrame /\ Below = stack[Len(stack) - 1] /\ Len(stack) - 1 \in DOMAIN stack
    BY <1>1, TopFacts, FrameFacts
  <1>3. Used(v) \subseteq Value
    BY DEF TypeOK, Used
  <1>4. QED
    BY <1>1, <1>2, <1>3 DEF CheckFrame

LEMMA VisitKept ==
    ASSUME TypeOK, NEW v \in Value
    PROVE  /\ VisitAgain(v) => Kept({[Top EXCEPT !.pending = @ \ {v}]})
           /\ VisitType(v) => Kept({[Top EXCEPT !.visited = @ \cup {v}, !.pending = @ \ {v},
                                               !.current = {v}]})
           /\ VisitUses(v) => Kept({[Below EXCEPT !.pending = @ \cup Used(v), !.current = {}]})
           /\ VisitUndefined(v) => Kept({})
  <1>1. stack \in Seq(Frame) /\ CheckFrame \subseteq Frame
    BY NewFrames DEF TypeOK
  <1>2. VisitAgain(v) => Kept({[Top EXCEPT !.pending = @ \ {v}]})
    BY <1>1, VisitingFacts, CheckingKept DEF VisitAgain
  <1>3. VisitType(v) => Kept({[Top EXCEPT !.visited = @ \cup {v}, !.pending = @ \ {v},
                                         !.current = {v}]})
    BY <1>1, VisitingFacts, CheckingLuaKept DEF VisitType
  <1>4. VisitUses(v) => Kept({[Below EXCEPT !.pending = @ \cup Used(v), !.current = {}]})
    BY <1>1, UsesFacts, Pop2PushKept DEF VisitUses
  <1>5. VisitUndefined(v) => Kept({})
    BY <1>1, RaiseKept DEF VisitUndefined
  <1>6. QED
    BY <1>2, <1>3, <1>4, <1>5

LEMMA ReadyFacts ==
    ASSUME TypeOK, Ready
    PROVE  /\ stack # << >> /\ Top \in CheckFrame /\ Top = stack[Len(stack)]
           /\ Len(stack) \in DOMAIN stack
           /\ Top.visited \subseteq Value
           /\ Kept({})
  <1>1. stack # << >> /\ stack \in Seq(Frame) /\ Top.op = "check" /\ stack' = Pop
    BY DEF Ready, Running, TypeOK
  <1>2. Top \in CheckFrame /\ Top = stack[Len(stack)] /\ Len(stack) \in DOMAIN stack
    BY <1>1, TopFacts, FrameFacts
  <1>3. Kept({})
    BY <1>1, PopKept
  <1>4. QED
    BY <1>1, <1>2, <1>3 DEF CheckFrame

LEMMA InitializerReturnFacts ==
    ASSUME TypeOK, SetInitializerReturn
    PROVE  /\ Below \in InitializerFrame /\ Below = stack[Len(stack) - 1]
           /\ Len(stack) - 1 \in DOMAIN stack
           /\ Kept({})
  <1>1. stack # << >> /\ stack \in Seq(Frame) /\ Len(stack) > 1
        /\ Below.op = "setinitializer" /\ stack' = Pop2
    BY DEF SetInitializerReturn, CalledBy, Running, TypeOK
  <1>2. QED
    BY <1>1, TopFacts, FrameFacts, Pop2Kept

-----------------------------------------------------------------------------
(* Every variable keeps its type.                                          *)
LEMMA EmitType ==
    ASSUME TypeOK, NEW u \in Unit, NEW v \in Value, Emit(u, v)
    PROVE  /\ emitted' \in [Unit -> SUBSET Value]
           /\ code' \in [Unit -> [Value -> SUBSET Value]]
           /\ undefined' \subseteq Fn
  <1> DEFINE new == Reached(u, v)
             changed == [w \in Value |-> IF w \in new THEN uses[w] ELSE code[u][w]]
  <1>1. new \subseteq Value
    BY DEF Reached
  <1>2. changed \in [Value -> SUBSET Value]
    BY DEF TypeOK
  <1>3. code' = [code EXCEPT ![u] = changed]
    BY DEF Emit, TypeOK
  <1> HIDE DEF new, changed
  <1>4. emitted' = [emitted EXCEPT ![u] = emitted[u] \cup new]
    BY DEF Emit, TypeOK, new
  <1>5. undefined' \subseteq Fn
    BY DEF Emit, TypeOK
  <1>6. emitted' \in [Unit -> SUBSET Value]
    BY <1>1, <1>4 DEF TypeOK
  <1>7. QED
    BY <1>2, <1>3, <1>5, <1>6 DEF TypeOK

LEMMA DefinitionType ==
    ASSUME TypeOK, NEW f \in Fn, NEW body \in Bodies, SetDefinition(f, body)
    PROVE  defined' \subseteq Fn /\ uses' \in [Value -> SUBSET Value]
  BY BodiesAssumption DEF TypeOK, SetDefinition, Value

LEMMA InitType == Init => TypeOK
  <1> SUFFICES ASSUME Init PROVE TypeOK
    OBVIOUS
  <1>1. uses \in [Value -> SUBSET Value]
    BY BodiesAssumption, InitializersAssumption DEF Init
  <1>2. stack \in Seq(Frame)
    BY DEF Init
  <1>3. QED
    BY <1>1, <1>2 DEF Init, TypeOK

LEMMA TypeStep ==
    ASSUME TypeOK, [Next]_vars
    PROVE  TypeOK'
  <1> USE DEF values, output
  <1>0. stack \in Seq(Frame)
    BY DEF TypeOK
  <1>1. CASE UNCHANGED vars
    BY <1>1 DEF TypeOK, vars
  <1>2. CASE LuaError
    BY <1>0, <1>2, RaiseKept DEF LuaError, Kept, TypeOK
  <1>3. ASSUME NEW f \in Fn, NEW body \in Bodies,
               AddDefinition(f, body) \/ ResetDefinition(f, body)
        PROVE  TypeOK'
    BY <1>3, DefinitionType DEF AddDefinition, ResetDefinition, SetDefinition, Program, TypeOK
  <1>4. ASSUME NEW g \in Gv, NEW init \in Initializers, SetInitializer(g, init)
        PROVE  TypeOK'
    <2>1. stack' \in Seq(Frame)
      BY <1>0, <1>4, SetInitializerKept DEF Kept
    <2>2. UNCHANGED <<values, readytocompile, output>> /\ ops' = ops + 1
      BY <1>4 DEF SetInitializer, Program
    <2>3. QED
      BY <2>1, <2>2 DEF TypeOK
  <1>5. CASE SetInitializerReturn
    <2>1. Below.global \in Value /\ Below.init \subseteq Value
      BY <1>5, InitializerReturnFacts, InitializersAssumption DEF InitializerFrame, Value
    <2>2. QED
      BY <1>5, <2>1, InitializerReturnFacts DEF SetInitializerReturn, Kept, TypeOK
  <1>6. ASSUME NEW u \in Unit, NEW v \in Value, AddValueReady(u, v)
        PROVE  TypeOK'
    BY <1>6, EmitType DEF AddValueReady, Program, TypeOK
  <1>7. ASSUME NEW u \in Unit, NEW v \in Value, AddValue(u, v)
        PROVE  TypeOK'
    BY <1>0, <1>7, AddValueKept DEF AddValue, Program, Kept, TypeOK
  <1>8. ASSUME NEW v \in Value,
               VisitAgain(v) \/ VisitUndefined(v) \/ VisitType(v) \/ VisitUses(v)
        PROVE  TypeOK'
    <2>1. stack' \in Seq(Frame)
      BY <1>8, VisitKept DEF Kept
    <2>2. QED
      BY <1>8, <2>1 DEF VisitAgain, VisitUndefined, VisitType, VisitUses, TypeOK
  <1>9. CASE Ready
    <2>1. Top.unit \in Unit /\ Top.root \in Value
      BY <1>9, ReadyFacts DEF CheckFrame
    <2>2. QED
      BY <1>9, <2>1, ReadyFacts, EmitType DEF Ready, Kept, Marked, TypeOK
  <1>10. CASE Ends
    BY <1>10 DEF Ends, vars, TypeOK
  <1>11. QED
    BY <1>1, <1>2, <1>3, <1>4, <1>5, <1>6, <1>7, <1>8, <1>9, <1>10 DEF Next

-----------------------------------------------------------------------------
(* What a step adds to the stack is plain and sound if its new frames are. *)
LEMMA KeepPlain ==
    ASSUME Plain, NEW F, Kept(F),
           \A frame \in F : frame.op = "setinitializer" => frame.init \cap Fn = {},
           \A g \in Gv : uses'[g] \cap Fn = {}
    PROVE  Plain'
  BY NewFrames DEF Plain, Kept

LEMMA KeepSound ==
    ASSUME ChecksSound, NEW F, Kept(F),
           readytocompile \subseteq readytocompile',
           \A f \in defined \cap Fn : f \in defined' /\ uses'[f] = uses[f],
           \A frame \in F : frame.op = "check" => Sound(frame)'
    PROVE  ChecksSound'
  <1>1. ASSUME NEW k \in DOMAIN stack', NEW frame, frame = stack'[k], frame.op = "check"
        PROVE  Sound(frame)'
    <2>1. CASE k \in DOMAIN stack /\ frame = stack[k]
      <3>1. Sound(frame)
        BY <1>1, <2>1 DEF ChecksSound
      <3>2. QED
        BY <3>1 DEF Sound
    <2>2. CASE frame \in F
      BY <1>1, <2>2
    <2>3. QED
      BY <1>1, <2>1, <2>2, NewFrames DEF Kept
  <1>2. QED
    BY <1>1 DEF ChecksSound, Sound

(* A step that leaves definitions, marks and output alone.                 *)
LEMMA QuietChecks ==
    ASSUME ReadyClosed, ChecksSound, NEW F, Kept(F), UNCHANGED <<values, readytocompile>>,
           \A frame \in F : frame.op = "check" => Sound(frame)'
    PROVE  ReadyClosed' /\ ChecksSound'
  <1>1. UNCHANGED <<defined, uses, readytocompile>>
    BY DEF values
  <1>2. ChecksSound'
    BY <1>1, KeepSound
  <1>3. QED
    BY <1>1, <1>2 DEF ReadyClosed

Rest == Plain /\ EmittedReady /\ EmittedDefined /\ CodeIsCurrent

LEMMA QuietRest ==
    ASSUME Rest, NEW F, Kept(F), UNCHANGED <<values, readytocompile, output>>,
           \A frame \in F : frame.op = "setinitializer" => frame.init \cap Fn = {}
    PROVE  Rest'
  <1>1. UNCHANGED <<defined, uses, readytocompile, emitted, code, undefined>>
    BY DEF values, output
  <1>2. Plain'
    BY <1>1, KeepPlain DEF Rest, Plain
  <1>3. QED
    BY <1>1, <1>2 DEF Rest, EmittedReady, EmittedDefined, CodeIsCurrent

(* The emitter reaches functions that are marked, and globals.             *)
LEMMA ReachedReady ==
    ASSUME IInv, NEW u \in Unit, NEW v \in Value, NEW R \in SUBSET Value, v \in R,
           \A f \in Fn \cap R : uses[f] \subseteq R
    PROVE  Fn \cap Reached(u, v) \subseteq R
  <1> SUFFICES ASSUME NEW w \in Reached(u, v), w \in Fn
               PROVE  w \in R
    OBVIOUS
  <1> DEFINE S == R \cup Gv
  <1>1. S \in SUBSET Value /\ v \in S
    BY DEF Value
  <1>2. ASSUME NEW x \in S \ emitted[u]
        PROVE  uses[x] \subseteq S
    <2>1. x \in Value /\ uses[x] \subseteq Value
      BY <1>1, <1>2 DEF IInv, Checks, TypeOK
    <2>2. CASE x \in Fn
      BY <1>2, <2>2, ValueAssumption DEF Value
    <2>3. CASE x \in Gv
      BY <2>1, <2>3 DEF IInv, Plain, Value
    <2>4. QED
      BY <2>1, <2>2, <2>3 DEF Value
  <1>3. w \in S
    BY <1>1, <1>2 DEF Reached
  <1>4. QED
    BY <1>3, ValueAssumption

(* Emitting a value keeps the output good when the marked values are       *)
(* closed under use afterwards, and it is one of them.                     *)
LEMMA EmitStep ==
    ASSUME IInv, NEW u \in Unit, NEW v \in Value, Emit(u, v), UNCHANGED values,
           readytocompile' \subseteq Value, readytocompile \subseteq readytocompile',
           v \in readytocompile', ReadyClosed'
    PROVE  EmittedReady' /\ EmittedDefined' /\ CodeIsCurrent'
  <1> DEFINE new == Reached(u, v)
  <1>1. defined' = defined /\ uses' = uses
    BY DEF values
  <1>2. Fn \cap new \subseteq readytocompile'
    BY <1>1, ReachedReady DEF ReadyClosed
  <1>3. /\ emitted' = [emitted EXCEPT ![u] = emitted[u] \cup new]
        /\ undefined' = undefined \cup ((new \cap Fn) \ defined)
    BY DEF Emit
  <1>4. \A t \in Unit, w \in Value :
            code'[t][w] = IF t = u /\ w \in new THEN uses[w] ELSE code[t][w]
    BY DEF IInv, Checks, TypeOK, Emit
  <1> HIDE DEF new
  <1>5. EmittedReady'
    BY <1>2, <1>3 DEF IInv, Checks, EmittedReady, TypeOK
  <1>6. EmittedDefined'
    BY <1>1, <1>2, <1>3 DEF IInv, EmittedDefined, ReadyClosed
  <1>7. CodeIsCurrent'
    BY <1>1, <1>3, <1>4 DEF IInv, Checks, CodeIsCurrent, TypeOK, Value
  <1>8. QED
    BY <1>5, <1>6, <1>7

-----------------------------------------------------------------------------
(* The frames that replace a check are sound.                              *)
LEMMA SoundTop ==
    ASSUME Checks, stack # << >>, Top.op = "check"
    PROVE  Sound(Top)
  BY TopFacts DEF Checks, TypeOK, ChecksSound

LEMMA SoundNext ==
    ASSUME Checks, NEW v \in Value, Visiting(v)
    PROVE  /\ Seen(v) => Sound([Top EXCEPT !.pending = @ \ {v}])
           /\ v \in Gv \cup defined =>
                  Sound([Top EXCEPT !.visited = @ \cup {v}, !.pending = @ \ {v},
                                    !.current = {v}])
  <1>1. Sound(Top) /\ Top \in CheckFrame /\ Top.current = {}
    BY SoundTop, VisitingFacts DEF Checks, TypeOK, Visiting, Running
  <1>2. ASSUME Seen(v) PROVE Sound([Top EXCEPT !.pending = @ \ {v}])
    <2> DEFINE new == [Top EXCEPT !.pending = @ \ {v}]
    <2>1. /\ new.root = Top.root /\ new.visited = Top.visited /\ new.current = {}
          /\ new.pending = Top.pending \ {v}
      BY <1>1 DEF CheckFrame
    <2> HIDE DEF new
    <2>2. Sound(new)
      BY <1>1, <1>2, <2>1 DEF Sound, Seen
    <2>3. QED
      BY <2>2 DEF new
  <1>3. ASSUME v \in Gv \cup defined
        PROVE  Sound([Top EXCEPT !.visited = @ \cup {v}, !.pending = @ \ {v},
                                 !.current = {v}])
    <2> DEFINE new == [Top EXCEPT !.visited = @ \cup {v}, !.pending = @ \ {v},
                                  !.current = {v}]
    <2>1. /\ new.root = Top.root /\ new.visited = Top.visited \cup {v}
          /\ new.current = {v} /\ new.pending = Top.pending \ {v}
      BY <1>1 DEF CheckFrame
    <2>2. v \in Fn => v \in defined
      BY <1>3, ValueAssumption
    <2> HIDE DEF new
    <2>3. Sound(new)
      BY <1>1, <2>1, <2>2 DEF Sound
    <2>4. QED
      BY <2>3 DEF new
  <1>4. QED
    BY <1>2, <1>3

LEMMA SoundUses ==
    ASSUME Checks, NEW v \in Value, VisitUses(v)
    PROVE  Sound([Below EXCEPT !.pending = @ \cup Used(v), !.current = {}])
  <1>1. /\ Below \in CheckFrame /\ Below = stack[Len(stack) - 1]
        /\ Len(stack) - 1 \in DOMAIN stack /\ Below.op = "check"
    BY UsesFacts DEF Checks, VisitUses, CalledBy
  <1>2. Sound(Below) /\ Below.current = {v}
    BY <1>1 DEF Checks, ChecksSound, VisitUses
  <1> DEFINE new == [Below EXCEPT !.pending = @ \cup Used(v), !.current = {}]
  <1>3. /\ new.root = Below.root /\ new.visited = Below.visited /\ new.current = {}
        /\ new.pending = Below.pending \cup Used(v)
    BY <1>1 DEF CheckFrame
  <1>4. QED
    BY <1>2, <1>3 DEF Sound, Used

(* Where the program changes definitions: they are not marked, and what is *)
(* being checked is not among them.                                        *)
LEMMA QuietFacts ==
    ASSUME QuietHooks, NEW f \in Fn, NEW body \in Bodies,
           AddDefinition(f, body) \/ ResetDefinition(f, body)
    PROVE  f \notin defined \/ stack = << >>
  <1>1. CASE AddDefinition(f, body)
    BY <1>1 DEF AddDefinition
  <1>2. CASE ResetDefinition(f, body)
    <2>1. Program("resetdefinition")
      BY <1>2 DEF ResetDefinition
    <2>2. QED
      BY <2>1 DEF Program, QuietHooks
  <1>3. QED
    BY <1>1, <1>2

LEMMA SetDefinitionFacts ==
    ASSUME TypeOK, NEW f \in Fn, NEW body \in Bodies,
           AddDefinition(f, body) \/ ResetDefinition(f, body)
    PROVE  /\ f \notin readytocompile /\ Kept({})
           /\ UNCHANGED <<readytocompile, stack, emitted, code, undefined>>
           /\ defined' = defined \cup {f}
           /\ f \in Value /\ \A w \in Value : w # f => uses'[w] = uses[w]
  <1>1. SetDefinition(f, body) /\ f \notin readytocompile
    BY DEF AddDefinition, ResetDefinition, MayReset
  <1>2. /\ UNCHANGED <<readytocompile, stack, emitted, code, undefined>>
        /\ defined' = defined \cup {f}
        /\ f \in Value
        /\ \A w \in Value : w # f => uses'[w] = uses[w]
    BY <1>1 DEF SetDefinition, output, TypeOK, Value
  <1>3. QED
    BY <1>1, <1>2, SameKept DEF TypeOK

LEMMA SetDefinitionChecks ==
    ASSUME Checks, QuietHooks, NEW f \in Fn, NEW body \in Bodies,
           AddDefinition(f, body) \/ ResetDefinition(f, body)
    PROVE  ReadyClosed' /\ ChecksSound'
  <1>1. /\ f \notin readytocompile /\ Kept({})
        /\ UNCHANGED <<readytocompile, stack>>
        /\ defined' = defined \cup {f}
        /\ \A w \in Value : w # f => uses'[w] = uses[w]
    BY SetDefinitionFacts DEF Checks
  <1>2. ChecksSound'
    <2>1. CASE f \notin defined
      <3>1. \A h \in defined \cap Fn : h \in defined' /\ uses'[h] = uses[h]
        BY <1>1, <2>1 DEF Value
      <3>2. readytocompile \subseteq readytocompile' /\ ChecksSound
        BY <1>1 DEF Checks
      <3>3. QED
        BY <1>1, <3>1, <3>2, KeepSound
    <2>2. CASE stack = << >>
      BY <1>1, <2>2 DEF ChecksSound
    <2>3. QED
      BY <2>1, <2>2, QuietFacts
  <1>3. QED
    BY <1>1, <1>2 DEF Checks, ReadyClosed, Value

LEMMA SetDefinitionRest ==
    ASSUME IInv, NEW f \in Fn, NEW body \in Bodies,
           AddDefinition(f, body) \/ ResetDefinition(f, body)
    PROVE  Rest'
  <1>1. /\ f \notin readytocompile /\ Kept({})
        /\ UNCHANGED <<readytocompile, emitted, code, undefined>>
        /\ defined' = defined \cup {f}
        /\ \A w \in Value : w # f => uses'[w] = uses[w]
    BY SetDefinitionFacts DEF IInv, Checks
  <1>2. \A g \in Gv : uses'[g] \cap Fn = {}
    BY <1>1, ValueAssumption DEF IInv, Plain, Value
  <1>3. Plain'
    BY <1>1, <1>2, KeepPlain DEF IInv
  <1>4. EmittedReady' /\ EmittedDefined'
    BY <1>1 DEF IInv, EmittedReady, EmittedDefined
  <1>5. CodeIsCurrent'
    BY <1>1 DEF IInv, EmittedReady, CodeIsCurrent, Value
  <1>6. QED
    BY <1>3, <1>4, <1>5 DEF Rest

LEMMA SetInitializerFacts ==
    ASSUME TypeOK, SetInitializerReturn
    PROVE  /\ Below \in InitializerFrame /\ Kept({})
           /\ UNCHANGED <<defined, readytocompile, emitted, code, undefined>>
           /\ \A w \in Value : uses'[w] = IF w = Below.global THEN Below.init ELSE uses[w]
           /\ \A f \in Fn : uses'[f] = uses[f]
  <1>1. Below \in InitializerFrame /\ Kept({})
    BY InitializerReturnFacts
  <1>2. Below.global \in Gv
    BY <1>1 DEF InitializerFrame
  <1>3. /\ UNCHANGED <<defined, readytocompile, emitted, code, undefined>>
        /\ \A w \in Value : uses'[w] = IF w = Below.global THEN Below.init ELSE uses[w]
    BY <1>2 DEF SetInitializerReturn, output, TypeOK
  <1>4. \A f \in Fn : uses'[f] = uses[f]
    BY <1>2, <1>3, ValueAssumption DEF Value
  <1>5. QED
    BY <1>1, <1>3, <1>4

LEMMA SetInitializerChecks ==
    ASSUME Checks, SetInitializerReturn
    PROVE  ReadyClosed' /\ ChecksSound'
  <1>1. /\ Kept({}) /\ UNCHANGED <<defined, readytocompile>>
        /\ \A f \in Fn : uses'[f] = uses[f]
    BY SetInitializerFacts DEF Checks
  <1>2. ChecksSound'
    BY <1>1, KeepSound DEF Checks
  <1>3. QED
    BY <1>1, <1>2 DEF Checks, ReadyClosed

LEMMA SetInitializerRest ==
    ASSUME IInv, PlainInitializers, SetInitializerReturn
    PROVE  Rest'
  <1>1. /\ Below \in InitializerFrame /\ Kept({})
        /\ UNCHANGED <<defined, readytocompile, emitted, code, undefined>>
        /\ \A w \in Value : uses'[w] = IF w = Below.global THEN Below.init ELSE uses[w]
        /\ \A f \in Fn : uses'[f] = uses[f]
    BY SetInitializerFacts DEF IInv, Checks
  <1>2. Below.init \cap Fn = {}
    BY <1>1 DEF InitializerFrame, PlainInitializers
  <1>3. Plain'
    BY <1>1, <1>2, KeepPlain DEF IInv, Plain, Value
  <1>4. QED
    BY <1>1, <1>3 DEF IInv, Rest, EmittedReady, EmittedDefined, CodeIsCurrent

LEMMA ReadyChecks ==
    ASSUME Checks, Ready
    PROVE  ReadyClosed' /\ ChecksSound' /\ Top.root \in readytocompile'
  <1>1. Top \in CheckFrame /\ Kept({})
    BY ReadyFacts DEF Checks
  <1>2. Sound(Top) /\ Top.pending = {} /\ Top.current = {}
    BY SoundTop DEF Ready, Running
  <1>3. readytocompile' = readytocompile \cup Top.visited /\ uses' = uses /\ defined' = defined
    BY DEF Ready, Marked, values
  <1>4. Top.root \in readytocompile'
    BY <1>2, <1>3 DEF Sound
  <1>5. ReadyClosed'
    BY <1>2, <1>3 DEF Checks, ReadyClosed, Sound
  <1>6. ChecksSound'
    BY <1>1, <1>3, KeepSound DEF Checks
  <1>7. QED
    BY <1>4, <1>5, <1>6

LEMMA ReadyRest ==
    ASSUME IInv, Ready
    PROVE  Rest'
  <1>1. /\ Top \in CheckFrame /\ Top.visited \subseteq Value /\ Kept({})
        /\ Top.unit \in Unit /\ Top.root \in Value
    BY ReadyFacts DEF IInv, Checks, CheckFrame
  <1>2. readytocompile' = readytocompile \cup Top.visited /\ uses' = uses
    BY DEF Ready, Marked, values
  <1>3. Plain'
    BY <1>1, <1>2, KeepPlain DEF IInv, Plain
  <1>4. EmittedReady' /\ EmittedDefined' /\ CodeIsCurrent'
    <2>1. Emit(Top.unit, Top.root) /\ UNCHANGED values
      BY DEF Ready
    <2>2. readytocompile \subseteq readytocompile' /\ readytocompile' \subseteq Value
      BY <1>1, <1>2 DEF IInv, Checks, TypeOK
    <2>3. ReadyClosed' /\ Top.root \in readytocompile'
      BY ReadyChecks DEF IInv
    <2>4. QED
      BY <1>1, <2>1, <2>2, <2>3, EmitStep
  <1>5. QED
    BY <1>3, <1>4 DEF Rest

LEMMA AddValueReadyStep ==
    ASSUME TypeOK, NEW u \in Unit, NEW v \in Value, AddValueReady(u, v)
    PROVE  /\ ReadyClosed /\ ChecksSound => ReadyClosed' /\ ChecksSound'
           /\ IInv => Rest'
  <1>1. /\ Emit(u, v) /\ UNCHANGED values /\ v \in readytocompile
        /\ readytocompile' = readytocompile /\ stack' = stack
        /\ uses' = uses /\ defined' = defined
    BY DEF AddValueReady, values
  <1>2. Kept({})
    BY <1>1, SameKept DEF TypeOK
  <1>3. ASSUME ReadyClosed, ChecksSound PROVE ReadyClosed' /\ ChecksSound'
    BY <1>1, <1>2, <1>3, QuietChecks
  <1>4. ASSUME IInv PROVE Rest'
    <2>1. v \in readytocompile' /\ readytocompile' \subseteq Value
          /\ readytocompile \subseteq readytocompile'
      BY <1>1 DEF TypeOK
    <2>2. ReadyClosed'
      BY <1>3, <1>4 DEF IInv, Checks
    <2>3. EmittedReady' /\ EmittedDefined' /\ CodeIsCurrent'
      BY <1>1, <1>4, <2>1, <2>2, EmitStep
    <2>4. Plain'
      BY <1>1, <1>2, <1>4, KeepPlain DEF IInv, Plain
    <2>5. QED
      BY <2>3, <2>4 DEF Rest
  <1>5. QED
    BY <1>3, <1>4

-----------------------------------------------------------------------------
(* The steps that leave definitions, marks and output alone, and the       *)
(* frames they make.                                                       *)
Quiet ==
    \/ UNCHANGED vars
    \/ LuaError
    \/ \E g \in Gv, init \in Initializers : SetInitializer(g, init)
    \/ \E u \in Unit, v \in Value : AddValue(u, v)
    \/ \E v \in Value : VisitAgain(v) \/ VisitUndefined(v) \/ VisitType(v) \/ VisitUses(v)

LEMMA QuietFrames ==
    ASSUME Checks, Quiet
    PROVE  /\ UNCHANGED <<values, readytocompile, output>>
           /\ \E F : /\ Kept(F)
                     /\ \A frame \in F :
                            /\ frame.op = "check" => Sound(frame)'
                            /\ frame.op = "setinitializer" => frame.init \in Initializers
  <1> DEFINE Result == /\ UNCHANGED <<values, readytocompile, output>>
                       /\ \E F : /\ Kept(F)
                                 /\ \A frame \in F :
                                        /\ frame.op = "check" => Sound(frame)'
                                        /\ frame.op = "setinitializer" =>
                                               frame.init \in Initializers
  <1>0. stack \in Seq(Frame) /\ TypeOK
    BY DEF Checks, TypeOK
  <1>1. CASE UNCHANGED vars
    <2>1. Kept({}) /\ UNCHANGED <<values, readytocompile, output>>
      BY <1>0, <1>1, SameKept DEF vars
    <2>2. QED
      BY <2>1
  <1>2. CASE LuaError
    <2>1. Kept({}) /\ UNCHANGED <<values, readytocompile, output>>
      BY <1>0, <1>2, RaiseKept DEF LuaError
    <2>2. QED
      BY <2>1
  <1>3. ASSUME NEW g \in Gv, NEW init \in Initializers, SetInitializer(g, init)
        PROVE  Result
    <2> DEFINE new == [op |-> "setinitializer", global |-> g, init |-> init]
    <2>1. Kept({new})
      BY <1>0, <1>3, SetInitializerKept
    <2>2. new.op = "setinitializer" /\ new.init \in Initializers
      OBVIOUS
    <2> HIDE DEF new
    <2>3. UNCHANGED <<values, readytocompile, output>>
      BY <1>3 DEF SetInitializer
    <2>4. QED
      BY <2>1, <2>2, <2>3
  <1>4. ASSUME NEW u \in Unit, NEW v \in Value, AddValue(u, v)
        PROVE  Result
    <2> DEFINE new == Check(u, v)
    <2>1. Kept({new})
      BY <1>0, <1>4, AddValueKept
    <2>2. UNCHANGED <<values, readytocompile, output>>
      BY <1>4 DEF AddValue
    <2>3. new.op = "check" /\ new.root \in new.pending /\ new.visited = {}
      BY DEF Check
    <2> HIDE DEF new
    <2>4. Sound(new)'
      BY <2>3 DEF Sound
    <2>5. QED
      BY <2>1, <2>2, <2>3, <2>4
  <1>5. ASSUME NEW v \in Value, VisitAgain(v) \/ VisitType(v) \/ VisitUses(v)
        PROVE  Result
    <2>1. PICK new \in CheckFrame : Kept({new}) /\ Sound(new)
      <3>1. CASE VisitAgain(v)
        BY <1>0, <3>1, VisitKept, VisitingFacts, SoundNext DEF VisitAgain
      <3>2. CASE VisitType(v)
        BY <1>0, <3>2, VisitKept, VisitingFacts, SoundNext DEF VisitType
      <3>3. CASE VisitUses(v)
        BY <1>0, <3>3, VisitKept, UsesFacts, SoundUses
      <3>4. QED
        BY <1>5, <3>1, <3>2, <3>3
    <2>2. UNCHANGED <<values, readytocompile, output>>
      BY <1>5 DEF VisitAgain, VisitType, VisitUses
    <2>3. Sound(new)' /\ new.op = "check"
      BY <2>1, <2>2 DEF Sound, values, CheckFrame
    <2>4. QED
      BY <2>1, <2>2, <2>3
  <1>6. ASSUME NEW v \in Value, VisitUndefined(v)
        PROVE  Result
    <2>1. Kept({}) /\ UNCHANGED <<values, readytocompile, output>>
      BY <1>0, <1>6, VisitKept DEF VisitUndefined
    <2>2. QED
      BY <2>1
  <1>7. QED
    BY <1>1, <1>2, <1>3, <1>4, <1>5, <1>6 DEF Quiet

LEMMA Steps ==
    ASSUME [Next]_vars
    PROVE  \/ Quiet
           \/ \E f \in Fn, body \in Bodies : AddDefinition(f, body) \/ ResetDefinition(f, body)
           \/ SetInitializerReturn
           \/ \E u \in Unit, v \in Value : AddValueReady(u, v)
           \/ Ready
  BY DEF Next, Quiet, Ends

LEMMA ChecksStep ==
    ASSUME QuietHooks, Checks, [Next]_vars
    PROVE  Checks'
  <1>1. TypeOK'
    BY TypeStep DEF Checks
  <1>2. ASSUME Quiet PROVE ReadyClosed' /\ ChecksSound'
    BY <1>2, QuietFrames, QuietChecks DEF Checks
  <1>3. ASSUME NEW f \in Fn, NEW body \in Bodies,
               AddDefinition(f, body) \/ ResetDefinition(f, body)
        PROVE  ReadyClosed' /\ ChecksSound'
    BY <1>3, SetDefinitionChecks
  <1>4. ASSUME NEW u \in Unit, NEW v \in Value, AddValueReady(u, v)
        PROVE  ReadyClosed' /\ ChecksSound'
    BY <1>4, AddValueReadyStep DEF Checks
  <1>5. QED
    BY <1>1, <1>2, <1>3, <1>4, Steps, SetInitializerChecks, ReadyChecks DEF Checks

LEMMA RestStep ==
    ASSUME PlainInitializers, IInv, [Next]_vars
    PROVE  Rest'
  <1>1. ASSUME Quiet PROVE Rest'
    <2>1. PICK F : /\ Kept(F)
                   /\ \A frame \in F :
                          frame.op = "setinitializer" => frame.init \in Initializers
      BY <1>1, QuietFrames DEF IInv
    <2>2. UNCHANGED <<values, readytocompile, output>>
      BY <1>1, QuietFrames DEF IInv
    <2>3. Rest
      BY DEF IInv, Rest
    <2>4. QED
      BY <2>1, <2>2, <2>3, QuietRest DEF PlainInitializers
  <1>2. ASSUME NEW f \in Fn, NEW body \in Bodies,
               AddDefinition(f, body) \/ ResetDefinition(f, body)
        PROVE  Rest'
    BY <1>2, SetDefinitionRest
  <1>3. ASSUME NEW u \in Unit, NEW v \in Value, AddValueReady(u, v)
        PROVE  Rest'
    BY <1>3, AddValueReadyStep DEF IInv, Checks
  <1>4. QED
    BY <1>1, <1>2, <1>3, Steps, SetInitializerRest, ReadyRest

LEMMA InitInvariant ==
    /\ Init => Checks
    /\ PlainInitializers /\ Init => IInv
  <1> SUFFICES ASSUME Init PROVE Checks /\ (PlainInitializers => IInv)
    OBVIOUS
  <1>1. TypeOK
    BY InitType
  <1>2. ReadyClosed /\ EmittedReady /\ EmittedDefined /\ CodeIsCurrent
    BY DEF Init, ReadyClosed, EmittedReady, EmittedDefined, CodeIsCurrent
  <1>3. DOMAIN stack = {}
    BY DEF Init
  <1>4. ChecksSound /\ (PlainInitializers => Plain)
    BY <1>3 DEF Init, ChecksSound, Plain, PlainInitializers
  <1>5. QED
    BY <1>1, <1>2, <1>4 DEF IInv, Checks

-----------------------------------------------------------------------------
(* Every variable keeps its type, whatever the program does.               *)
THEOREM TypeCorrect == Spec => []TypeOK
  <1>1. TypeOK /\ [Next]_vars => TypeOK'
    BY TypeStep
  <1>2. QED
    BY InitType, <1>1, PTL DEF Spec

(* The checks under way know what they have visited (readytocompile), and  *)
(* what the emitter has emitted was marked, if initializers use no         *)
(* function.                                                               *)
THEOREM Invariant == PlainInitializers /\ QuietHooks => (Spec => []IInv)
  <1> SUFFICES ASSUME PlainInitializers, QuietHooks PROVE Spec => []IInv
    OBVIOUS
  <1>1. Init => IInv
    BY InitInvariant
  <1>2. IInv /\ [Next]_vars => IInv'
    BY ChecksStep, RestStep DEF IInv, Rest
  <1>3. QED
    BY <1>1, <1>2, PTL DEF Spec

(* A function that is marked is defined and uses marked values only:       *)
(* readytocompile may stop at what is marked.  This needs no assumption    *)
(* about initializers.                                                     *)
THEOREM ReadyIsClosed == QuietHooks => (Spec => []ReadyClosed)
  <1> SUFFICES ASSUME QuietHooks PROVE Spec => []ReadyClosed
    OBVIOUS
  <1>1. Init => Checks
    BY InitInvariant
  <1>2. Checks /\ [Next]_vars => Checks'
    BY ChecksStep
  <1>3. Checks => ReadyClosed
    BY DEF Checks
  <1>4. QED
    BY <1>1, <1>2, <1>3, PTL DEF Spec

(* The emitter meets no function without a definition, in any unit.        *)
THEOREM NothingUndefined == PlainInitializers /\ QuietHooks => (Spec => []EmittedDefined)
  <1>1. IInv => EmittedDefined
    BY DEF IInv
  <1>2. QED
    BY <1>1, Invariant, PTL

(* What a unit has emitted for a function is what its definition says:     *)
(* resetdefinition refuses every function that has been compiled.          *)
THEOREM NothingStale == PlainInitializers /\ QuietHooks => (Spec => []CodeIsCurrent)
  <1>1. IInv => CodeIsCurrent
    BY DEF IInv
  <1>2. QED
    BY <1>1, Invariant, PTL
=============================================================================
