------------------------------ MODULE CodeEmit ------------------------------
(***************************************************************************)
(* Code generation of one compilation unit (src/tcompiler.cpp).            *)
(*                                                                         *)
(* compilationunit:addvalue hands a function or a global variable to       *)
(* terra_compilationunitaddvalue, which emits it and, by recursion on the  *)
(* references met in bodies and initializers, everything it uses.  On the  *)
(* way the emitter runs Tarjan's algorithm on the call graph: functions    *)
(* are numbered, queued in CU->tooptimize, and when a strongly connected   *)
(* component (SCC) ends its members are taken off the queue, inlined and   *)
(* optimized as one batch.                                                 *)
(*                                                                         *)
(* A body is the set of values it references: the order of the references  *)
(* in it, and how often one is repeated, is left open.  The C++ recursion  *)
(* is the variable stack.                                                  *)
(***************************************************************************)
EXTENDS Naturals, Sequences, FiniteSets

CONSTANTS
    Fn,         \* function definitions
    Gv,         \* global variables
    Extern,     \* the functions that have no body (kind functionextern)
    Programs,   \* the reference graphs considered
    Optimize    \* CU->optimize

Value == Fn \cup Gv

ASSUME ValueAssumption ==
    /\ Fn \cap Gv = {}
    /\ Extern \subseteq Fn
    /\ Optimize \in BOOLEAN

ASSUME ProgramsAssumption ==
    \A p \in Programs : /\ p \in [Value -> SUBSET Value]
                        /\ \A f \in Extern : p[f] = {}

VARIABLES
    refs,           \* the program: what each body or initializer references
    stack,          \* the emissions in progress, the innermost last
    seen,           \* the references met so far in a body or initializer
    symbols,        \* CU->symbols: the values mapped to an LLVM value
    emitted,        \* the functions whose emitBody has returned
    index,          \* TerraFunctionState.index
    lowlink,        \* TerraFunctionState.lowlink
    onstack,        \* the functions with TerraFunctionState.onstack
    functioncount,  \* CU->functioncount
    tooptimize,     \* CU->tooptimize
    optimized,      \* the functions mi->run and fpm->run have been given
    created         \* the number of LLVM globals created for a global

symtab == <<symbols, emitted, created>>
tarjan == <<index, lowlink, onstack, functioncount, tooptimize>>
vars == <<refs, stack, seen, symtab, tarjan, optimized>>

Init ==
    /\ refs \in Programs
    /\ stack = << >>
    /\ seen = [v \in Value |-> {}]
    /\ symbols = {}
    /\ emitted = {}
    /\ index = [f \in Fn |-> 0]
    /\ lowlink = [f \in Fn |-> 0]
    /\ onstack = {}
    /\ functioncount = 0
    /\ tooptimize = << >>
    /\ optimized = {}
    /\ created = [g \in Gv |-> 0]
-----------------------------------------------------------------------------
Busy == stack # << >>
Top == stack[Len(stack)]
Caller == stack[Len(stack) - 1]
Pop(s) == SubSeq(s, 1, Len(s) - 1)

(* Mutants: the update of Tarjan's algorithm is missing, or off by one.    *)
LowerForgets(user, result) == lowlink

LowerTooFar(user, result) ==
    IF user \in Fn /\ result \in onstack /\ lowlink[result] < lowlink[user]
    THEN [lowlink EXCEPT ![user] = lowlink[result] - 1]
    ELSE lowlink

(* EmitFunction: a user that is a function takes the lowlink of a result   *)
(* that is still on the Tarjan stack.  The user of a reference in an       *)
(* initializer is the scratch state of emitConstantExpression, so nothing  *)
(* is recorded there.                                                      *)
Lower(user, result) ==
    IF user \in Fn /\ result \in onstack /\ lowlink[result] < lowlink[user]
    THEN [lowlink EXCEPT ![user] = lowlink[result]]
    ELSE lowlink

(* Mutant: the lowlink of a new function is left at zero.                  *)
LowlinkZero(f) == lowlink

FirstLowlink(f) == [lowlink EXCEPT ![f] = functioncount]

(* emitFunction for a function met for the first time: the declaration is  *)
(* mapped before the body is emitted, and the function enters the queue.   *)
Enqueue(f, queue) ==
    IF Optimize
    THEN /\ index' = [index EXCEPT ![f] = functioncount]
         /\ lowlink' = FirstLowlink(f)
         /\ functioncount' = functioncount + 1
         /\ onstack' = onstack \cup {f}
         /\ tooptimize' = Append(queue, f)
    ELSE /\ tooptimize' = queue
         /\ UNCHANGED <<index, lowlink, functioncount, onstack>>

(* An external function is mapped to a declaration, and is finished.       *)
EmitExtern(f, queue) ==
    /\ f \in Extern
    /\ symbols' = symbols \cup {f}
    /\ tooptimize' = queue
    /\ UNCHANGED <<stack, emitted, created, index, lowlink, onstack,
                   functioncount>>

EmitFunction(f, queue) ==
    /\ f \in Fn \ Extern
    /\ symbols' = symbols \cup {f}
    /\ stack' = Append(stack, f)
    /\ Enqueue(f, queue)
    /\ UNCHANGED <<emitted, created>>

(* EmitGlobalVariable: the initializer is emitted first, and the global is *)
(* mapped only when that is done (FinishGlobal).                           *)
EmitGlobal(g, queue) ==
    /\ g \in Gv
    /\ stack' = Append(stack, g)
    /\ tooptimize' = queue
    /\ UNCHANGED <<symtab, index, lowlink, onstack, functioncount>>

Emit(v, queue) ==
    /\ v \notin symbols
    /\ EmitExtern(v, queue) \/ EmitFunction(v, queue) \/ EmitGlobal(v, queue)

(* What v has met of its references when its emission starts: nothing.     *)
Fresh(s, v) == [s EXCEPT ![v] = {}]

(* terra_compilationunitaddvalue: the queue is a new one for each call; a  *)
(* value that is already mapped is found and returned.                     *)
AddValue(v) ==
    /\ ~Busy
    /\ \/ /\ Emit(v, << >>)
          /\ seen' = Fresh(seen, v)
       \/ /\ v \in symbols
          /\ tooptimize' = << >>
          /\ UNCHANGED <<stack, seen, symtab, index, lowlink, onstack,
                         functioncount>>
    /\ UNCHANGED <<refs, optimized>>

(* Mutant: a reference to a mapped value is not got past.                  *)
RevisitAgain(v) ==
    /\ Busy
    /\ v \in refs[Top] \cap symbols
    /\ lowlink' = Lower(Top, v)
    /\ UNCHANGED <<refs, stack, seen, symtab, index, onstack, functioncount,
                   tooptimize, optimized>>

(* The body of Top references v: it is mapped already...                   *)
Revisit(v) ==
    /\ Busy
    /\ v \in refs[Top] \cap symbols
    /\ seen' = [seen EXCEPT ![Top] = @ \cup {v}]
    /\ lowlink' = Lower(Top, v)
    /\ UNCHANGED <<refs, stack, symtab, index, onstack, functioncount,
                   tooptimize, optimized>>

(* ... or it is emitted now.                                               *)
Descend(v) ==
    /\ Busy
    /\ v \in refs[Top]
    /\ Emit(v, tooptimize)
    /\ seen' = Fresh([seen EXCEPT ![Top] = @ \cup {v}], v)
    /\ UNCHANGED <<refs, optimized>>

(* emitBody returns when every reference in the body has been met.         *)
BodyDone(v) ==
    /\ Busy
    /\ v = Top
    /\ seen[v] = refs[v]

Position(f) == CHOOSE i \in DOMAIN tooptimize : tooptimize[i] = f

(* The members of the SCC of f: the queue is popped until f comes off.     *)
Scc(f) == {tooptimize[i] : i \in Position(f) .. Len(tooptimize)}

(* Mutant: every function is taken for the root of an SCC.                 *)
RootAlways(f) == TRUE

Root(f) == lowlink[f] = index[f]

(* The queue without the SCC of f.                                         *)
Unqueue(f) == SubSeq(tooptimize, 1, Position(f) - 1)

(* emitFunction after emitBody, for the function its SCC began with.       *)
FinishScc(f) ==
    /\ BodyDone(f)
    /\ f \in Fn
    /\ Optimize
    /\ Root(f)
    /\ emitted' = emitted \cup {f}
    /\ stack' = Pop(stack)
    /\ tooptimize' = Unqueue(f)
    /\ onstack' = onstack \ Scc(f)
    /\ optimized' = optimized \cup Scc(f)
    /\ UNCHANGED <<refs, seen, symbols, created, index, lowlink,
                   functioncount>>

(* The same for a function that is left on the Tarjan stack, or in a unit  *)
(* that does not optimize; its user sees its lowlink.                      *)
FinishMember(f) ==
    /\ BodyDone(f)
    /\ f \in Fn
    /\ Optimize => ~Root(f)
    /\ emitted' = emitted \cup {f}
    /\ stack' = Pop(stack)
    /\ lowlink' = IF Len(stack) > 1 THEN Lower(Caller, f) ELSE lowlink
    /\ UNCHANGED <<refs, seen, symbols, created, index, onstack,
                   functioncount, tooptimize, optimized>>

(* Mutant: the new global is not entered in CU->symbols.                   *)
FinishGlobalUnmapped(g) ==
    /\ BodyDone(g)
    /\ g \in Gv
    /\ created' = [created EXCEPT ![g] = @ + 1]
    /\ stack' = Pop(stack)
    /\ UNCHANGED <<refs, seen, symbols, emitted, tarjan, optimized>>

(* CreateGlobalVariable, and the mapping of the new LLVM global.           *)
FinishGlobal(g) ==
    /\ BodyDone(g)
    /\ g \in Gv
    /\ created' = [created EXCEPT ![g] = @ + 1]
    /\ symbols' = symbols \cup {g}
    /\ stack' = Pop(stack)
    /\ UNCHANGED <<refs, seen, emitted, tarjan, optimized>>

Step(v) ==
    \/ Revisit(v)
    \/ Descend(v)
    \/ FinishScc(v)
    \/ FinishMember(v)
    \/ FinishGlobal(v)

Next == \E v \in Value : AddValue(v) \/ Step(v)

Spec == Init /\ [][Next]_vars

(* A body is finite: the emitter does not meet the same reference forever. *)
Progress ==
    \E v \in Value :
        Step(v) /\ (stack' # stack \/ seen' # seen \/ symbols' # symbols)

FairSpec == Spec /\ WF_vars(Progress)
-----------------------------------------------------------------------------
TypeOK ==
    /\ refs \in [Value -> SUBSET Value]
    /\ stack \in Seq(Value)
    /\ seen \in [Value -> SUBSET Value]
    /\ symbols \in SUBSET Value
    /\ emitted \in SUBSET Fn
    /\ index \in [Fn -> Nat]
    /\ lowlink \in [Fn -> Nat]
    /\ onstack \in SUBSET Fn
    /\ functioncount \in Nat
    /\ tooptimize \in Seq(Fn)
    /\ optimized \in SUBSET Fn
    /\ created \in [Gv -> Nat]

Callees(f) == refs[f] \cap (Fn \ Extern)

(* v references w, or something that reaches w: w is in every set that     *)
(* holds the references of v and is closed under references.               *)
Reaches(v, w) ==
    \A T \in SUBSET Value :
        (\A u \in T \cup {v} : refs[u] \subseteq T) => w \in T

(***************************************************************************)
(* Whatever has been optimized calls only functions that have been         *)
(* optimized too: no SCC is closed while a callee outside of it is still   *)
(* waiting, and none is closed without a member (tinline.h: "Callees are   *)
(* always emitted and optimized before their callers").                    *)
(***************************************************************************)
CalleesOptimized ==
    \A f \in optimized : Callees(f) \subseteq optimized \cap emitted

(***************************************************************************)
(* Between calls of addvalue nothing waits in a queue that the next call   *)
(* would throw away: every function mapped so far has its body, has been   *)
(* optimized, and everything it references is mapped.                      *)
(***************************************************************************)
NothingLeftBehind ==
    ~Busy =>
        /\ tooptimize = << >> /\ onstack = {}
        /\ (symbols \cap Fn) \ Extern = emitted
        /\ Optimize => optimized = emitted
        /\ \A v \in symbols : refs[v] \subseteq symbols

(***************************************************************************)
(* A global is mapped only after its initializer has been emitted, and the *)
(* functions of an initializer may use other globals.  Still, code that    *)
(* uses a global shares one storage location, one LLVM global, unless the  *)
(* initializer of that very global leads back to it (terralib.lua,         *)
(* newcompilationunit: a mapping from globals to the LLVM value associated *)
(* with them).                                                             *)
(***************************************************************************)
OneGlobal == \A g \in Gv : created[g] > 1 => Reaches(g, g)

(***************************************************************************)
(* The emitter implements SccOrder: each batch it optimizes is one whole   *)
(* strongly connected component of the call graph, callees first.          *)
(***************************************************************************)
Order == INSTANCE SccOrder WITH
            Body <- Fn \ Extern,
            calls <- [f \in Fn \ Extern |-> Callees(f)],
            done <- optimized

ImplementsSccOrder == Order!Spec

(* Every emission comes back to the Lua caller.                            *)
EmissionEnds == Busy ~> ~Busy
-----------------------------------------------------------------------------
(* The inductive invariant behind the safety properties.  Frames is the    *)
(* part of it that does not depend on Optimize.                            *)

(* Initializers are data: they use no function.                            *)
DataOnly == \A p \in Programs : \A g \in Gv : p[g] \cap Fn = {}

Body == Fn \ Extern

OnFrame(v) == \E i \in DOMAIN stack : stack[i] = v

Program ==
    /\ \A f \in Extern : refs[f] = {}
    /\ \A g \in Gv : refs[g] \cap Fn = {}
    /\ \A i \in DOMAIN stack : stack[i] \notin Extern

Frames ==
    /\ \A i, j \in DOMAIN stack :
            stack[i] = stack[j] /\ stack[i] \in Fn => i = j
    /\ \A f \in Body : f \in symbols <=> f \in emitted \/ OnFrame(f)
    /\ \A f \in emitted : f \in Body /\ ~OnFrame(f)
    /\ \A f \in emitted : seen[f] = refs[f]
    /\ \A g \in Gv \cap symbols : seen[g] = refs[g]
    /\ \A v, w \in Value : w \in seen[v] => w \in symbols \/ OnFrame(w)

(* The queue, and the numbering of its members.                            *)
Queue ==
    /\ onstack = {tooptimize[i] : i \in DOMAIN tooptimize}
    /\ \A i, j \in DOMAIN tooptimize :
            i < j => index[tooptimize[i]] < index[tooptimize[j]]
    /\ \A f \in onstack : index[f] < functioncount
    /\ \A f \in Body : f \in symbols <=> f \in onstack \/ f \in optimized
    /\ onstack \cap optimized = {}
    /\ onstack \subseteq Body /\ optimized \subseteq emitted

(* Functions in emission are queued, in the order of their numbers; below  *)
(* a function there are only functions, because initializers use none.     *)
Calls ==
    /\ \A i \in DOMAIN stack : stack[i] \in Fn => stack[i] \in onstack
    /\ \A i, j \in DOMAIN stack : i < j /\ stack[j] \in Fn =>
            stack[i] \in Fn /\ index[stack[i]] < index[stack[j]]

(* Function i of the stack is the last one that was begun before f.        *)
Below(i, f) ==
    /\ stack[i] \in Fn
    /\ index[stack[i]] < index[f]
    /\ \A j \in DOMAIN stack :
            i < j /\ stack[j] \in Fn => index[f] < index[stack[j]]

Lowlinks ==
    /\ \A f \in onstack :
            /\ Busy /\ stack[1] \in Fn
            /\ index[stack[1]] <= lowlink[f] /\ lowlink[f] <= index[f]
    /\ \A f \in onstack \cap emitted : lowlink[f] < index[f]
    /\ \A f \in onstack \cap emitted : \A i \in DOMAIN stack :
            Below(i, f) => lowlink[stack[i]] <= lowlink[f]

(* A callee met is optimized, or waits at or above the caller's lowlink.   *)
Closure ==
    /\ \A f \in onstack : \A c \in seen[f] \cap Body :
            \/ c \in optimized
            \/ c \in onstack /\ lowlink[f] <= index[c]
    /\ \A f \in optimized : Callees(f) \subseteq optimized

(* The functions on frames are in the queue, in the order of their frames. *)
(* This holds for every program, and a function that is finished comes off *)
(* the queue with those above it.                                          *)
Queued ==
    Optimize =>
        /\ \A p, q \in DOMAIN tooptimize :
                tooptimize[p] = tooptimize[q] => p = q
        /\ \A p \in DOMAIN tooptimize : tooptimize[p] \in symbols
        /\ \A i \in DOMAIN stack : stack[i] \in Fn =>
                \E p \in DOMAIN tooptimize : tooptimize[p] = stack[i]
        /\ \A i, j \in DOMAIN stack : \A p, q \in DOMAIN tooptimize :
                i < j /\ tooptimize[p] = stack[i] /\ tooptimize[q] = stack[j]
                    => p < q

(* Each frame is there for a reference of the frame below it.              *)
Chain == \A i \in DOMAIN stack : i > 1 => stack[i] \in refs[stack[i - 1]]

(* A global that its initializer does not lead back to is created once,    *)
(* when it is mapped, and that is when its frame goes.                     *)
Globals ==
    /\ Chain
    /\ \A g \in Gv : ~Reaches(g, g) =>
            /\ created[g] = IF g \in symbols THEN 1 ELSE 0
            /\ OnFrame(g) => g \notin symbols

IInv ==
    /\ TypeOK /\ Queued /\ Program /\ Frames
    /\ Optimize => Queue /\ Calls /\ Lowlinks /\ Closure
    /\ ~Optimize => onstack = {} /\ optimized = {} /\ tooptimize = << >>
-----------------------------------------------------------------------------
(* What the refinement of SccOrder needs on top of IInv: that the members  *)
(* of a batch reach each other.  A set of queued functions that is closed  *)
(* under the references met so far holds the function whose number each    *)
(* of its members has as lowlink...                                        *)
Rooted ==
    \A T \in SUBSET onstack :
        (\A k \in T : seen[k] \cap onstack \subseteq T) =>
            \A f \in T : \E h \in T : index[h] = lowlink[f]

(* ... and each queued function begun after a function in emission was     *)
(* referenced by one begun between the two.                                *)
Spawned ==
    \A i \in DOMAIN stack : stack[i] \in Fn =>
        \A f \in onstack : index[stack[i]] < index[f] =>
            \E p \in onstack : /\ index[stack[i]] <= index[p]
                               /\ index[p] < index[f]
                               /\ f \in seen[p]

Linked ==
    \A i \in DOMAIN stack :
        i > 1 /\ stack[i] \in Fn => stack[i] \in seen[stack[i - 1]]

OrderInv == IInv /\ (Optimize => Rooted /\ Spawned /\ Linked)
=============================================================================
