---------------------------- MODULE Definitions ----------------------------
(***************************************************************************)
(* Global values: when they may change and when they are compiled          *)
(* (src/terralib.lua: adddefinition, resetdefinition, setinitializer,      *)
(* readytocompile, compilationunit:addvalue; EmitFunction of               *)
(* src/tcompiler.cpp, which looks at the definition).                      *)
(*                                                                         *)
(* Before a value is given to the emitter, readytocompile visits the       *)
(* functions and globals it uses, reports those that have no definition    *)
(* and completes their types, which may run the user's program.  If all is *)
(* well they are marked, and what is marked can no longer be changed.  The *)
(* emitter then emits what it reaches, in one go, and does not report      *)
(* anything.                                                               *)
(*                                                                         *)
(* The Lua call stack has a frame for each check, for each initializer     *)
(* being type checked and for each piece of the program these call back;   *)
(* the main program runs while it is empty.                                *)
(***************************************************************************)
EXTENDS Naturals, Sequences, FiniteSets

CONSTANTS
    Fn,             \* functions
    Gv,             \* global variables
    Bodies,         \* what a definition may use: sets of values
    Initializers,   \* what an initializer may use: sets of values
    Unit,           \* compilation units
    MainOps,        \* what the main program does
    HookOps,        \* what the program does when it is called back
    MaxOps          \* bound: operations of the program

Value == Fn \cup Gv
Ops == {"adddefinition", "resetdefinition", "setinitializer", "addvalue"}

ASSUME ValueAssumption == Fn \cap Gv = {}
ASSUME BodiesAssumption == Bodies \subseteq SUBSET Value
ASSUME InitializersAssumption ==
    Initializers \subseteq SUBSET Value /\ {} \in Initializers
ASSUME OpsAssumption == MainOps \subseteq Ops /\ HookOps \subseteq Ops
ASSUME BoundAssumption == MaxOps \in Nat

VARIABLES
    defined,        \* the functions that have a definition
    uses,           \* what definitions and initializers use
    readytocompile, \* the values that are marked
    stack,
    emitted,        \* the values each unit has emitted
    code,           \* what they used when they were
    undefined,      \* functions that were emitted without a definition
    ops             \* operations of the program

values == <<defined, uses>>
output == <<emitted, code, undefined>>
vars == <<values, readytocompile, stack, output, ops>>

(* Mutant of Check: the unit and the value are taken for one another.      *)
CheckSwapped(unit, root) ==
    [op |-> "check", unit |-> root, root |-> unit,
     visited |-> {}, pending |-> {unit}, current |-> {}]

(* A call of readytocompile: pending are the values to visit, current is   *)
(* the set with the one whose type is being completed.                     *)
Check(unit, root) ==
    [op |-> "check", unit |-> unit, root |-> root,
     visited |-> {}, pending |-> {root}, current |-> {}]

Lua == [op |-> "lua"]
-----------------------------------------------------------------------------
Top == stack[Len(stack)]
Below == stack[Len(stack) - 1]
Pop == SubSeq(stack, 1, Len(stack) - 1)
Pop2 == SubSeq(stack, 1, Len(stack) - 2)

(* Where a function that has no definition is emitted, EmitFunction reads  *)
(* an object it has not set: nothing is said of what follows.              *)
Alive == undefined = {}

Running(op) == Alive /\ stack # << >> /\ Top.op = op
CalledBy(op) == Running("lua") /\ Len(stack) > 1 /\ Below.op = op

(* An error unwinds to a piece of the program that catches it, at the      *)
(* latest to the main program.                                             *)
Catching == {k \in 1 .. Len(stack) - 1 : stack[k].op = "lua"}
Raise == \E k \in {0} \cup Catching : stack' = SubSeq(stack, 1, k)
-----------------------------------------------------------------------------
Init ==
    /\ defined \in SUBSET Fn
    /\ uses \in [Value -> Bodies \cup Initializers]
    /\ \A f \in Fn : IF f \in defined THEN uses[f] \in Bodies ELSE uses[f] = {}
    /\ \A g \in Gv : uses[g] \in Initializers
    /\ readytocompile = {}
    /\ stack = << >>
    /\ emitted = [u \in Unit |-> {}]
    /\ code = [u \in Unit |-> [v \in Value |-> {}]]
    /\ undefined = {}
    /\ ops = 0

Program(op) ==
    /\ ops < MaxOps
    /\ \/ Alive /\ stack = << >> /\ op \in MainOps
       \/ Running("lua") /\ op \in HookOps
    /\ ops' = ops + 1

(* An error of the program that is not caught where it happens.            *)
LuaError ==
    /\ Running("lua")
    /\ Raise
    /\ UNCHANGED <<values, readytocompile, output, ops>>
-----------------------------------------------------------------------------
SetDefinition(f, body) ==
    /\ defined' = defined \cup {f}
    /\ uses' = [uses EXCEPT ![f] = body]
    /\ UNCHANGED <<readytocompile, stack, output>>

AddDefinition(f, body) ==
    /\ Program("adddefinition")
    /\ f \notin defined
    /\ f \notin readytocompile
    /\ SetDefinition(f, body)

(* Mutant of MayReset: a function can be redefined at any time.            *)
MayResetAlways(f) == TRUE

MayReset(f) == f \notin readytocompile

ResetDefinition(f, body) ==
    /\ Program("resetdefinition")
    /\ MayReset(f)
    /\ SetDefinition(f, body)

(* The initializer is type checked after the global has been found         *)
(* unmarked, and that may call back.                                       *)
SetInitializer(g, init) ==
    /\ Program("setinitializer")
    /\ g \notin readytocompile
    /\ stack' = stack \o <<[op |-> "setinitializer", global |-> g, init |-> init],
                           Lua>>
    /\ UNCHANGED <<values, readytocompile, output>>

SetInitializerReturn ==
    /\ CalledBy("setinitializer")
    /\ uses' = [uses EXCEPT ![Below.global] = Below.init]
    /\ stack' = Pop2
    /\ UNCHANGED <<defined, readytocompile, output, ops>>
-----------------------------------------------------------------------------
(* What the emitter emits for v: all that is not emitted yet and that can  *)
(* be reached from v through such values.                                  *)
Reached(unit, v) ==
    {w \in Value \ emitted[unit] :
        \A S \in SUBSET Value :
            /\ v \in S
            /\ \A x \in S \ emitted[unit] : uses[x] \subseteq S
            => w \in S}

Emit(unit, v) ==
    LET new == Reached(unit, v)
    IN  /\ emitted' = [emitted EXCEPT ![unit] = @ \cup new]
        /\ code' = [code EXCEPT ![unit] =
                        [w \in Value |-> IF w \in new THEN uses[w] ELSE @[w]]]
        /\ undefined' = undefined \cup ((new \cap Fn) \ defined)

(* compilationunit:addvalue of a value that is marked, and of one that is  *)
(* not.                                                                    *)
AddValueReady(unit, v) ==
    /\ Program("addvalue")
    /\ v \in readytocompile
    /\ Emit(unit, v)
    /\ UNCHANGED <<values, readytocompile, stack>>

AddValue(unit, v) ==
    /\ Program("addvalue")
    /\ v \notin readytocompile
    /\ stack' = Append(stack, Check(unit, v))
    /\ UNCHANGED <<values, readytocompile, output>>

Visiting(v) == Running("check") /\ Top.current = {} /\ v \in Top.pending

Seen(v) == v \in Top.visited \cup readytocompile

(* The values the last frame deals with change.                            *)
Checking(frame) == [stack EXCEPT ![Len(stack)] = frame]

VisitAgain(v) ==
    /\ Visiting(v)
    /\ Seen(v)
    /\ stack' = Checking([Top EXCEPT !.pending = @ \ {v}])
    /\ UNCHANGED <<values, readytocompile, output, ops>>

(* "function ... is not defined."                                          *)
VisitUndefined(v) ==
    /\ Visiting(v)
    /\ ~Seen(v)
    /\ v \in Fn \ defined
    /\ Raise
    /\ UNCHANGED <<values, readytocompile, output, ops>>

(* completefunction, complete: may call back.                              *)
VisitType(v) ==
    /\ Visiting(v)
    /\ ~Seen(v)
    /\ v \in Gv \cup defined
    /\ stack' = Append(Checking([Top EXCEPT !.visited = @ \cup {v},
                                            !.pending = @ \ {v},
                                            !.current = {v}]),
                       Lua)
    /\ UNCHANGED <<values, readytocompile, output, ops>>

(* Mutant of Used: only the globals among them are followed.               *)
UsedGlobals(v) == IF v \in Fn THEN uses[v] \cap Gv ELSE {}

(* globalsused: what v uses, if it is a function.  Initializers are not    *)
(* followed.                                                               *)
Used(v) == IF v \in Fn THEN uses[v] ELSE {}

VisitUses(v) ==
    /\ CalledBy("check")
    /\ Below.current = {v}
    /\ stack' = Append(Pop2, [Below EXCEPT !.pending = @ \cup Used(v),
                                           !.current = {}])
    /\ UNCHANGED <<values, readytocompile, output, ops>>

(* Mutant of Marked: only the value that was asked for is marked.          *)
MarkedRoot == {Top.root}

Marked == Top.visited

(* All is visited: it is marked, and the root is emitted.                  *)
Ready ==
    /\ Running("check")
    /\ Top.current = {} /\ Top.pending = {}
    /\ readytocompile' = readytocompile \cup Marked
    /\ Emit(Top.unit, Top.root)
    /\ stack' = Pop
    /\ UNCHANGED <<values, ops>>
-----------------------------------------------------------------------------
(* The program ends, or it has crashed.                                    *)
Ends == (stack = << >> \/ ~Alive) /\ UNCHANGED vars

Next ==
    \/ LuaError
    \/ \E f \in Fn, body \in Bodies : AddDefinition(f, body) \/ ResetDefinition(f, body)
    \/ \E g \in Gv, init \in Initializers : SetInitializer(g, init)
    \/ SetInitializerReturn
    \/ \E u \in Unit, v \in Value : AddValueReady(u, v) \/ AddValue(u, v)
    \/ \E v \in Value : VisitAgain(v) \/ VisitUndefined(v) \/ VisitType(v) \/ VisitUses(v)
    \/ Ready
    \/ Ends

Spec == Init /\ [][Next]_vars
-----------------------------------------------------------------------------
Frame ==
    [op : {"lua"}]
    \cup [op : {"setinitializer"}, global : Gv, init : Initializers]
    \cup [op : {"check"}, unit : Unit, root : Value, visited : SUBSET Value,
          pending : SUBSET Value, current : {{}} \cup {{v} : v \in Value}]

TypeOK ==
    /\ defined \subseteq Fn
    /\ uses \in [Value -> SUBSET Value]
    /\ readytocompile \subseteq Value
    /\ stack \in Seq(Frame)
    /\ emitted \in [Unit -> SUBSET Value]
    /\ code \in [Unit -> [Value -> SUBSET Value]]
    /\ undefined \subseteq Fn
    /\ ops \in Nat

(***************************************************************************)
(* A function that is marked is defined, and so is all it uses: this is    *)
(* why a marked value need not be visited again.                           *)
(***************************************************************************)
ReadyClosed ==
    \A f \in Fn \cap readytocompile : f \in defined /\ uses[f] \subseteq readytocompile

(***************************************************************************)
(* No unit emits a function that has no definition (readytocompile:        *)
(* "function ... is not defined."; EmitFunction takes the definition to be *)
(* there).                                                                 *)
(***************************************************************************)
EmittedDefined == undefined = {}

(***************************************************************************)
(* The code of a function is that of its definition, in every unit: "It is *)
(* an error to call this on a function that has already been compiled."    *)
(* (docs/api.md on resetdefinition)                                        *)
(***************************************************************************)
CodeIsCurrent ==
    \A u \in Unit : \A f \in Fn \cap emitted[u] : code[u][f] = uses[f]
=============================================================================
