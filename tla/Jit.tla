-------------------------------- MODULE Jit --------------------------------
(***************************************************************************)
(* LLVM functions have names, and names are all the JIT has: it looks code *)
(* up by the name the function has now, and loads what it does not find.   *)
(* A compilation unit emits Terra values into its module, renames the ones *)
(* it exports, and loads copies of parts of the module into its execution  *)
(* engine.  Units, the target they share and the state of the compiler are *)
(* counted by hand: by the Lua objects that stand for them, by units and   *)
(* by functions that the collector may finalize in any order, until and    *)
(* after lua_close.                                                        *)
(*                                                                         *)
(* Emission is one step here; CodeEmit has its order.  The Terra program   *)
(* is a graph of calls: the definition of a function keeps those it calls  *)
(* from being collected.  An LLVM function is named after the value it was *)
(* created for; external functions of one C name share one.                *)
(***************************************************************************)
EXTENDS Naturals, FiniteSets, FiniteSetsExt, Functions

CONSTANTS
    Fn,             \* Terra functions
    Ext,            \* external functions, declared with terralib.externfunction
    Programs,       \* what functions call, in the programs considered
    NameOf,         \* the name of a value in Lua, or in C
    Base,           \* all these names,
    Exports,        \* and the ones functions are exported with
    Unit,           \* compilation units; JitUnit is terra.jitcompilationunit
    JitUnit,
    Addr,           \* where code may be loaded
    MaxOps          \* bound on what the program does

ASSUME JitAssumption ==
    /\ Fn \cap Ext = {}
    /\ Programs \subseteq [Fn -> SUBSET (Fn \cup Ext)]
    /\ NameOf \in [Fn \cup Ext -> Base] /\ Exports \subseteq Base
    /\ IsFiniteSet(Fn \cup Ext) /\ IsFiniteSet(Unit)
    /\ JitUnit \in Unit
    /\ MaxOps \in Nat

Value == Fn \cup Ext

(* Memory for code does not run out: each operation loads each value at    *)
(* most once.                                                              *)
ASSUME MemoryAssumption ==
    /\ Addr \subseteq Nat /\ IsFiniteSet(Addr)
    /\ Cardinality(Addr) >= MaxOps * Cardinality(Value)

VARIABLES
    calls,          \* the program
    held,           \* values the program refers to
    symbols,        \* the values each unit has mapped,
    fstates,        \* those whose state in Lua has a destructor,
    cu,             \* and the rest of its contents
    functioninfo,   \* loaded functions, by address
    external,       \* C functions whose code is in the target's module
    pointers,       \* addresses the program got: [unit, value, target]
    made,           \* units that exist or existed
    cdata,          \* units whose Lua object will still call freecompilationunit
    nreferences,    \* the users of each unit,
    targetrefs,     \* of the target,
    compilerrefs,   \* and of terra_CompilerState
    targetcdata,    \* the Lua object of the target will still call freetarget
    state,          \* terra_State: "open", "closing" (lua_close), "freed"
    ops

program == <<calls, held, cu, functioninfo, external, pointers>>
mapped == <<symbols, fstates>>
lifetimes == <<made, cdata, nreferences, targetrefs, compilerrefs, targetcdata, state>>
vars == <<program, mapped, lifetimes, ops>>

Name == [kind : {"terra", "c", "renamed"}, base : Base, n : Nat]
CName(b) == [kind |-> "c", base |-> b, n |-> 0]

The(S) == CHOOSE x \in S : TRUE

Restricted(f, S) == [x \in (DOMAIN f) \cap S |-> f[x]]

(* The function f, and g where f is not defined.                           *)
Merge(f, g) ==
    [x \in (DOMAIN f) \cup (DOMAIN g) |-> IF x \in DOMAIN f THEN f[x] ELSE g[x]]

(* What can be reached from S along R, through at most |Value| steps.      *)
Reached(R(_), S) ==
    LET reach[n \in 0 .. Cardinality(Value)] ==
            IF n = 0 THEN S ELSE reach[n - 1] \cup UNION {R(v) : v \in reach[n - 1]}
    IN  reach[Cardinality(Value)]

Callees(v) == IF v \in Fn THEN calls[v] ELSE {}

(* Lua values that are not garbage.                                        *)
Live == Reached(Callees, held)
-----------------------------------------------------------------------------
(* A unit: func are the LLVM functions of what it has mapped, names the    *)
(* names of those, bodies the ones that are not declarations, exported the *)
(* ones with external linkage, asked the names addvalue has given, code    *)
(* what its execution engine has loaded, by name.                          *)
NewUnit == [func |-> <<>>, names |-> <<>>, bodies |-> {}, exported |-> {},
            asked |-> {}, code |-> <<>>]

Collects(u) == u = JitUnit

Holders(s, name) == {i \in DOMAIN s.names : s.names[i] = name}

Unused(s, name) == Holders(s, name) = {}

(* Emission maps the value and what it reaches that is not mapped.         *)
Referred(u, v) == Reached(LAMBDA w : IF w \in symbols[u] THEN {} ELSE Callees(w), {v})
New(u, v) == (Value \ symbols[u]) \cap Referred(u, v)

(* An external function is the one the module has by its C name, whoever   *)
(* that is, or is created by the first value of that name.                 *)
Extern(s, new, e) ==
    LET found == Holders(s, CName(NameOf[e]))
    IN  The(IF found # {} THEN found ELSE {w \in new \cap Ext : NameOf[w] = NameOf[e]})

Created(s, new) == {v \in new : v \in Fn \/ Extern(s, new, v) = v}

(* If the target's module has its code, it is copied and not declared.     *)
Copied(s, new) == {v \in Created(s, new) \cap Ext : NameOf[v] \in external}

(* A Terra function has its own name with a prefix that C names do not     *)
(* have, and a number that makes it unique.                                *)
Numbered(s, S) ==
    CHOOSE n \in [S -> 0 .. Cardinality(Value)] :
        /\ \A v \in S : Unused(s, [kind |-> "terra", base |-> NameOf[v], n |-> n[v]])
        /\ \A v, w \in S : NameOf[v] = NameOf[w] /\ n[v] = n[w] => v = w

Emit(u, v) ==
    LET s == cu[u]
        new == New(u, v)
        created == Created(s, new)
        number == Numbered(s, created \cap Fn)
    IN  [s EXCEPT
            !.func = Merge(@, [w \in new |-> IF w \in Fn THEN w ELSE Extern(s, new, w)]),
            !.names = Merge(@, [w \in created |->
                        IF w \in Fn
                        THEN [kind |-> "terra", base |-> NameOf[w], n |-> number[w]]
                        ELSE CName(NameOf[w])]),
            !.bodies = @ \cup (created \cap Fn) \cup Copied(s, new),
            !.exported = @ \cup (created \cap Ext)]

(* Only a function that emitFunction creates gets a destructor, in a unit  *)
(* that collects.                                                          *)
Destructible(u, v) ==
    IF Collects(u) THEN Created(cu[u], New(u, v)) \ Copied(cu[u], New(u, v)) ELSE {}

Renamed(s, name) ==
    LET free == {n \in 0 .. Cardinality(Value) :
                    Unused(s, [kind |-> "renamed", base |-> name, n |-> n])}
    IN  [kind |-> "renamed", base |-> name, n |-> Min(free)]

(* Mutant of Rename: the value is named and no other is renamed.           *)
RenameNoOther(s, name, i) == [s.names EXCEPT ![i] = CName(name)]

(* What had the name is renamed, and the value gets it.                    *)
Rename(s, name, i) ==
    LET renamed == [s.names EXCEPT ![i] = CName(name)]
    IN  [j \in DOMAIN s.names |->
            IF j \in Holders(s, CName(name)) /\ j # i THEN Renamed(s, name)
            ELSE renamed[j]]

(* Mutant of AddValue: the linkage stays internal.                         *)
AddValueInternal(u, names, v) ==
    LET s == Emit(u, v)
        name == The(names)
    IN  IF names = {} THEN s
        ELSE [s EXCEPT !.names = Rename(s, name, s.func[v]),
                       !.asked = @ \cup {<<name, s.func[v]>>}]

AddValue(u, names, v) ==
    LET s == Emit(u, v)
        i == s.func[v]
        t == [s EXCEPT !.exported = @ \cup {i}]
    IN  IF names = {} THEN t
        ELSE LET name == The(names)
             IN  [t EXCEPT !.names = Rename(t, name, i), !.asked = @ \cup {<<name, i>>}]
-----------------------------------------------------------------------------
(* The part of the module that the engine needs and does not have, by name.*)
ShouldCopy(s, i) == i \in s.bodies /\ s.names[i] \notin DOMAIN s.code

Links(s, i) == {s.func[c] : c \in Callees(i)}

CopyConnectedComponent(s, i) ==
    LET next(j) == IF ShouldCopy(s, j) THEN Links(s, j) ELSE {}
    IN  {j \in Reached(next, {i}) : ShouldCopy(s, j)}

(* What a name stands for: loaded code, or what the process has.           *)
Lookup(code, name) == IF name \in DOMAIN code THEN code[name].of ELSE name

(* A unit exists while it has users, and so does the code it has loaded.   *)
Alive(u) == nreferences[u] > 0
Loaded(s) == {s.code[n].addr : n \in DOMAIN s.code}

FreeAddr == Addr \ UNION {Loaded(cu[u]) : u \in {w \in Unit : Alive(w)}}

(* Memory that was given back is handed out again, lowest address first.   *)
Placed(S) ==
    CHOOSE a \in Injection(S, {x \in FreeAddr : Cardinality({y \in FreeAddr : y < x}) < Cardinality(S)}) : TRUE

AddModule(s, S) ==
    LET at == Placed({s.names[i] : i \in S})
        new == [n \in DOMAIN at |-> [of |-> The(Holders(s, n)), addr |-> at[n], calls |-> <<>>]]
        all == Merge(s.code, new)
    IN  [n \in DOMAIN all |->
            IF n \in DOMAIN s.code THEN all[n]
            ELSE [all[n] EXCEPT !.calls =
                    [c \in Links(s, all[n].of) |-> Lookup(all, s.names[c])]]]

(* A declaration is looked for in the process.                             *)
JITGlobalValue(s, i) ==
    IF i \notin s.bodies \/ s.names[i] \in DOMAIN s.code THEN s
    ELSE [s EXCEPT !.code = AddModule(s, CopyConnectedComponent(s, i))]

Address(s, i) == IF i \in s.bodies THEN Lookup(s.code, s.names[i]) ELSE s.names[i]

(* notifyObjectLoaded: the listener registers the functions of an object.  *)
Registered(u, s) == Merge([a \in Loaded(s) |-> u], functioninfo)

(* Mutant of ForgetFunctions: they are not forgotten.                      *)
ForgetNothing(u) == functioninfo

ForgetFunctions(u) == Restricted(functioninfo, DOMAIN functioninfo \ Loaded(cu[u]))
-----------------------------------------------------------------------------
(* terra_initwithoptions: the compiler state, the native target and the    *)
(* unit of the JIT.                                                        *)
Init ==
    /\ calls \in Programs /\ held = Value
    /\ symbols = [u \in Unit |-> {}] /\ fstates = [u \in Unit |-> {}]
    /\ cu = [u \in Unit |-> NewUnit]
    /\ functioninfo = <<>> /\ external = {} /\ pointers = {}
    /\ made = {JitUnit} /\ cdata = {JitUnit}
    /\ nreferences = [u \in Unit |-> IF u = JitUnit THEN 1 ELSE 0]
    /\ targetrefs = 3 /\ compilerrefs = 2 /\ targetcdata = TRUE
    /\ state = "open" /\ ops = 0

Operation == state = "open" /\ ops < MaxOps /\ ops' = ops + 1

(* Mutant of Mapped: functions that were found are counted too.            *)
MappedCountsAll(u, v) ==
    /\ symbols' = [symbols EXCEPT ![u] = @ \cup New(u, v)]
    /\ fstates' = [fstates EXCEPT ![u] = @ \cup Destructible(u, v)]
    /\ nreferences' = [nreferences EXCEPT
                            ![u] = @ + IF Collects(u) THEN Cardinality(New(u, v)) ELSE 0]

(* Each state with a destructor is a user of the unit.                     *)
Mapped(u, v) ==
    /\ symbols' = [symbols EXCEPT ![u] = @ \cup New(u, v)]
    /\ fstates' = [fstates EXCEPT ![u] = @ \cup Destructible(u, v)]
    /\ nreferences' = [nreferences EXCEPT ![u] = @ + Cardinality(Destructible(u, v))]

(* terra.newcompilationunit                                                *)
NewCompilationUnit(u) ==
    /\ Operation /\ u \notin made
    /\ made' = made \cup {u} /\ cdata' = cdata \cup {u}
    /\ nreferences' = [nreferences EXCEPT ![u] = 1]
    /\ targetrefs' = targetrefs + 1 /\ compilerrefs' = compilerrefs + 1
    /\ UNCHANGED <<program, mapped, targetcdata, state>>

(* compilationunit:addvalue, with a name or without                        *)
AddValueTo(u, names, v) ==
    LET s == AddValue(u, names, v) IN
    /\ Operation /\ u \in cdata /\ v \in Live
    /\ cu' = [cu EXCEPT ![u] = s]
    /\ Mapped(u, v)
    /\ UNCHANGED <<calls, held, functioninfo, external, pointers, made, cdata, targetrefs,
                   compilerrefs, targetcdata, state>>

(* compilationunit:jitvalue, and compile, which asks once for each value.  *)
JitValue(u, v) ==
    LET s == AddValue(u, {}, v)
        t == JITGlobalValue(s, s.func[v])
        p == [unit |-> u, value |-> v, target |-> Address(t, t.func[v])] IN
    /\ Operation /\ u \in cdata /\ v \in Live
    /\ u = JitUnit => \A q \in pointers : q.unit = u => q.value # v
    /\ cu' = [cu EXCEPT ![u] = t]
    /\ functioninfo' = Registered(u, t)
    /\ pointers' = pointers \cup {p}
    /\ Mapped(u, v)
    /\ UNCHANGED <<calls, held, external, made, cdata, targetrefs, compilerrefs, targetcdata, state>>

(* terralib.linkllvm, includec: C code for the target's units.             *)
LinkLLVM(b) ==
    /\ Operation /\ b \notin external
    /\ external' = external \cup {b}
    /\ UNCHANGED <<mapped, calls, held, cu, functioninfo, pointers, lifetimes>>

(* freecompilationunit, called by a user that goes.                        *)
FreeCompilationUnit(u) ==
    /\ nreferences' = [nreferences EXCEPT ![u] = @ - 1]
    /\ IF nreferences[u] = 1
       THEN /\ functioninfo' = ForgetFunctions(u)
            /\ targetrefs' = targetrefs - 1 /\ compilerrefs' = compilerrefs - 1
       ELSE UNCHANGED <<functioninfo, targetrefs, compilerrefs>>

(* terra.saveobj: the module is optimized, which drops what no exported    *)
(* function uses, and written, and the unit is freed.                      *)
Used(s) == Reached(LAMBDA i : IF i \in s.bodies THEN Links(s, i) ELSE {}, s.exported)
Optimized(s) ==
    [s EXCEPT !.names = Restricted(@, Used(s)), !.bodies = @ \cap Used(s)]

SaveObj(u) ==
    /\ Operation /\ u \in cdata /\ ~Collects(u)
    /\ cu' = [cu EXCEPT ![u] = Optimized(@)]
    /\ cdata' = cdata \ {u}
    /\ FreeCompilationUnit(u)
    /\ UNCHANGED <<mapped, calls, held, external, pointers, made, targetcdata, state>>

(* The program forgets a value.                                            *)
Drop(v) ==
    /\ Operation /\ v \in held /\ held' = held \ {v}
    /\ UNCHANGED <<mapped, calls, cu, functioninfo, external, pointers, lifetimes>>

(* lua_close                                                               *)
Close ==
    /\ state = "open" /\ state' = "closing"
    /\ UNCHANGED <<program, mapped, made, cdata, nreferences, targetrefs, compilerrefs, targetcdata, ops>>
-----------------------------------------------------------------------------
(* The collector.  symbols is a weak table: a dead key goes, and then the  *)
(* function's state, which is finalized.                                   *)
(* Mutant of DeleteFunction: no declaration is kept.                       *)
DeleteFunctionName(u, v) ==
    /\ v \in fstates[u] /\ (v \in Live => state # "open")
    /\ fstates' = [fstates EXCEPT ![u] = @ \ {v}]
    /\ symbols' = [symbols EXCEPT ![u] = @ \ {v}]
    /\ cu' = [cu EXCEPT ![u].bodies = @ \ {v},
                        ![u].names = Restricted(@, DOMAIN @ \ {v})]
    /\ FreeCompilationUnit(u)
    /\ UNCHANGED <<calls, held, external, pointers, made, cdata, targetcdata, state, ops>>

(* terra_deletefunction: a declaration is kept, so that no other function  *)
(* gets the name.                                                          *)
DeleteFunction(u, v) ==
    /\ v \in fstates[u] /\ (v \in Live => state # "open")
    /\ fstates' = [fstates EXCEPT ![u] = @ \ {v}]
    /\ symbols' = [symbols EXCEPT ![u] = @ \ {v}]
    /\ cu' = [cu EXCEPT ![u].bodies = @ \ {v}]
    /\ FreeCompilationUnit(u)
    /\ UNCHANGED <<calls, held, external, pointers, made, cdata, targetcdata, state, ops>>

(* The finalizer of a unit's Lua object, which no function uses any more;  *)
(* terra.jitcompilationunit is there until the end.                        *)
CollectUnit(u) ==
    /\ u \in cdata /\ (u = JitUnit => state # "open")
    /\ cdata' = cdata \ {u}
    /\ FreeCompilationUnit(u)
    /\ UNCHANGED <<mapped, calls, held, cu, external, pointers, made, targetcdata, state, ops>>

(* The finalizer of a target's Lua object; terra.nativetarget holds it.    *)
CollectTarget ==
    /\ targetcdata /\ state # "open"
    /\ targetcdata' = FALSE /\ targetrefs' = targetrefs - 1
    /\ UNCHANGED <<program, mapped, made, cdata, nreferences, compilerrefs, state, ops>>

(* Mutant of FreeState: the targets keep their reference.                  *)
FreeStateOnly ==
    /\ state = "closing" /\ state' = "freed"
    /\ compilerrefs' = compilerrefs - 1
    /\ UNCHANGED <<program, mapped, made, cdata, nreferences, targetrefs, targetcdata, ops>>

(* terra_free                                                              *)
FreeState ==
    /\ state = "closing" /\ state' = "freed"
    /\ compilerrefs' = compilerrefs - 1 /\ targetrefs' = targetrefs - 1
    /\ UNCHANGED <<program, mapped, made, cdata, nreferences, targetcdata, ops>>

Finalizer ==
    \/ \E u \in Unit, v \in Value : DeleteFunction(u, v)
    \/ \E u \in Unit : CollectUnit(u)
    \/ CollectTarget
    \/ FreeState

Next ==
    \/ \E u \in Unit : NewCompilationUnit(u) \/ SaveObj(u)
    \/ \E u \in Unit, v \in Value :
            \/ \E names \in {{}} \cup {{b} : b \in Exports} : AddValueTo(u, names, v)
            \/ JitValue(u, v)
    \/ \E e \in Ext : LinkLLVM(NameOf[e])
    \/ \E v \in Value : Drop(v)
    \/ Close
    \/ Finalizer

(* lua_close runs every finalizer.                                         *)
Fairness == WF_vars(state # "open" /\ Finalizer)

Spec == Init /\ [][Next]_vars
FairSpec == Spec /\ Fairness
-----------------------------------------------------------------------------
(* The types of the variables.                                             *)
TypeOK ==
    /\ calls \in Programs /\ held \subseteq Value /\ external \subseteq Base
    /\ \A u \in Unit :
            /\ symbols[u] \subseteq Value /\ symbols[u] \subseteq DOMAIN cu[u].func
            /\ DOMAIN cu[u].names \subseteq Value /\ IsInjective(cu[u].names)
            /\ Range(cu[u].names) \subseteq Name
            /\ cu[u].bodies \subseteq DOMAIN cu[u].names
            /\ fstates[u] \subseteq symbols[u] /\ (fstates[u] # {} => Collects(u))
            /\ DOMAIN cu[u].code \subseteq Name
    /\ DOMAIN functioninfo \subseteq Addr /\ Range(functioninfo) \subseteq Unit
    /\ cdata \subseteq made /\ made \subseteq Unit
    /\ nreferences \in [Unit -> Nat] /\ targetrefs \in Nat /\ compilerrefs \in Nat
    /\ targetcdata \in BOOLEAN /\ state \in {"open", "closing", "freed"}

(***************************************************************************)
(* The address of a value is that of its own code, and code calls the code *)
(* of what it was compiled to call; an external function may also be the   *)
(* process's, by its C name.  The one way to a wrong address is a name that*)
(* has moved: a value was renamed after it was loaded, or a declaration    *)
(* lost the name of what it declares (addvalue's "rename anything else     *)
(* that has this name").  The calls of garbage are its own affair: by the  *)
(* name it was exported with an external function may still find a function*)
(* whose callees the collector has deleted already.                        *)
(***************************************************************************)
Own(s, i, target) ==
    \/ target = i
    \/ i \in Ext /\ target = CName(NameOf[i])
    \/ i \notin s.bodies /\ s.names[i].kind = "c" /\ i \in Fn /\ target = s.names[i]

Moved(u) ==
    \/ \E n \in DOMAIN cu[u].code :
            LET i == cu[u].code[n].of IN i \in DOMAIN cu[u].names /\ cu[u].names[i] # n
    \/ \E i \in DOMAIN cu[u].names \ cu[u].bodies :
            \/ cu[u].names[i].kind = "renamed"
            \/ i \in Ext /\ cu[u].names[i] # CName(NameOf[i])

CodeIsOwn ==
    [][ \A u \in Unit :
            \/ Moved(u)'
            \/ /\ \A n \in DOMAIN cu'[u].code \ DOMAIN cu[u].code :
                        LET links == cu'[u].code[n].calls IN
                        cu'[u].code[n].of \in Live =>
                        \A i \in DOMAIN links : Own(cu'[u], i, links[i])
               /\ \A p \in pointers' \ pointers :
                        p.unit = u => Own(cu'[u], cu'[u].func[p.value], p.target) ]_vars

(***************************************************************************)
(* A module that is written has each value under the name it was asked for *)
(* (docs/api.md on saveobj: "These functions will be included in the code  *)
(* that is written out with the name given in the table"), when no function*)
(* is asked for under two names, nor a name for two functions.             *)
(***************************************************************************)
Exported ==
    \A u \in Unit : \A x \in cu[u].asked :
        \/ x[2] \in DOMAIN cu[u].names /\ cu[u].names[x[2]] = CName(x[1])
        \/ \E y \in cu[u].asked \ {x} : x[1] = y[1] \/ x[2] = y[2]

(***************************************************************************)
(* Counts are holders: a unit is counted by its Lua object and by each     *)
(* function with a destructor, target and compiler state by the units that *)
(* exist, by terra_State and by the target's Lua object.  So whatever      *)
(* destructors use is there, in any order, and is deleted by the last.     *)
(***************************************************************************)
Counted(b) == IF b THEN 1 ELSE 0

CountsAreHolders ==
    /\ \A u \in Unit :
            nreferences[u] = Counted(u \in cdata) + Cardinality(fstates[u])
    /\ LET units == Cardinality({u \in Unit : Alive(u)}) IN
       /\ targetrefs = Counted(targetcdata) + Counted(state # "freed") + units
       /\ compilerrefs = Counted(state # "freed") + units

(***************************************************************************)
(* What backtraces and disassemble find in functioninfo is code that is    *)
(* mapped, and each address is one unit's: "its execution engine unmaps    *)
(* the code, and the JIT hands the same addresses out again".              *)
(***************************************************************************)
InfoIsMapped ==
    /\ \A a \in DOMAIN functioninfo :
            /\ Alive(functioninfo[a])
            /\ \E n \in DOMAIN cu[functioninfo[a]].code :
                    cu[functioninfo[a]].code[n].addr = a
    /\ \A u \in Unit : Alive(u) =>
            \A n \in DOMAIN cu[u].code :
                /\ cu[u].code[n].addr \in DOMAIN functioninfo
                /\ functioninfo[cu[u].code[n].addr] = u

(***************************************************************************)
(* After lua_close everything is deleted.                                  *)
(***************************************************************************)
AllDeleted ==
    (state = "closing") ~> (targetrefs = 0 /\ compilerrefs = 0 /\ \A u \in Unit : ~Alive(u))
=============================================================================
