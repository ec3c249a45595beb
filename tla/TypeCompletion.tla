--------------------------- MODULE TypeCompletion ---------------------------
(***************************************************************************)
(* How struct types get their entries, their layout and their static       *)
(* initializers (src/terralib.lua: layoutstruct, memoizeproperty,          *)
(* getentries, getlayout, Type:complete).                                  *)
(*                                                                         *)
(* All of it is on demand and may call back into the Lua program: a struct *)
(* definition evaluates the types of its entries, the metamethod           *)
(* __getentries computes them, __staticinitialize runs once the type is    *)
(* complete.  The program can use any type from there, the one being       *)
(* worked on included, and it can fail, or catch the failure of what it    *)
(* called.                                                                 *)
(*                                                                         *)
(* stack is the Lua call stack: one frame per call of these functions,     *)
(* and one ("lua") per piece of the user's program they called back; the   *)
(* main program runs while it is empty.  Entries that are pointers or      *)
(* primitive types end every recursion here and are left out; their keys   *)
(* are too.                                                                *)
(***************************************************************************)
EXTENDS Naturals, Sequences, FiniteSets

CONSTANTS
    Struct,     \* the struct types, declared, some of them defined
    Hooked,     \* those with a metamethod __getentries
    Static,     \* those with a metamethod __staticinitialize
    Opaque,     \* the opaque type
    NotYet,     \* no entries
    Lists,      \* the lists of entries that definitions and __getentries give
    MainCalls,  \* what the main program may call
    HookCalls,  \* what the rest of the program may call
    HooksFail,  \* whether the rest of the program may fail of itself
    MaxCalls    \* bound: calls the program makes

ArrayOf(s) == <<"array", s>>
Type == Struct \cup {ArrayOf(s) : s \in Struct}
Member == Type \cup {Opaque}

Calls == {"getentries", "getlayout", "complete", "layoutstruct"}

ASSUME StructAssumption ==
    Hooked \subseteq Struct /\ Static \subseteq Struct /\ Opaque \notin Type
ASSUME ListsAssumption == Lists \subseteq Seq(Member) /\ << >> \in Lists
ASSUME NotYetAssumption == NotYet \notin Seq(Member)
ASSUME CallsAssumption == MainCalls \subseteq Calls /\ HookCalls \subseteq Calls
ASSUME HooksFailAssumption == HooksFail \in BOOLEAN
ASSUME BoundAssumption == MaxCalls \in Nat

VARIABLES
    entries,        \* self.entries
    undefined,      \* self.undefined: declared only
    tree,           \* self.tree: defined
    cachedentries,  \* the result of getentries
    ingetentries,   \* getentries is running, or has failed
    cachedlayout,   \* the result of getlayout is there
    ingetlayout,    \* getlayout is running, or has failed
    incomplete,     \* of the structs and the arrays
    initialized,    \* the calls of __staticinitialize, in order
    stack,
    calls           \* calls made by the program

definition == <<entries, undefined, tree>>
memo == <<cachedentries, ingetentries, cachedlayout, ingetlayout>>
vars == <<definition, memo, incomplete, initialized, stack, calls>>
-----------------------------------------------------------------------------
Top == stack[Len(stack)]
Below == stack[Len(stack) - 1]
Pop == SubSeq(stack, 1, Len(stack) - 1)

Running(op, at) == stack # << >> /\ Top.op = op /\ Top.at = at

Begin(op, t) == [op |-> op, type |-> t, at |-> "begin", i |-> 1]
LuaFrame == [op |-> "lua", type |-> Opaque, at |-> "begin", i |-> 1]

(* The function of the last frame goes on, after a call of another.        *)
At(at, i) == [stack EXCEPT ![Len(stack)].at = at, ![Len(stack)].i = i]
Push(s, frame) == Append(s, frame)

(* A Lua error unwinds to a piece of the program that catches it, at the   *)
(* latest to the main program.  It resets nothing.                         *)
Catching == {k \in 1 .. Len(stack) - 1 : stack[k].op = "lua"}
Raise == \E k \in {0} \cup Catching : stack' = SubSeq(stack, 1, k)

Element(m) == IF m \in Struct \cup {Opaque} THEN m ELSE m[2]
Elements(list) == {Element(list[i]) : i \in DOMAIN list}
-----------------------------------------------------------------------------
Init ==
    /\ tree \in [Struct -> BOOLEAN]
    /\ undefined = [s \in Struct |-> ~tree[s]]
    /\ entries \in [Struct -> Lists]
    /\ \A s \in Struct : ~tree[s] => entries[s] = << >>
    /\ cachedentries = [s \in Struct |-> NotYet]
    /\ ingetentries = [s \in Struct |-> FALSE]
    /\ cachedlayout = [s \in Struct |-> FALSE]
    /\ ingetlayout = [s \in Struct |-> FALSE]
    /\ incomplete = [t \in Type |-> TRUE]
    /\ initialized = << >>
    /\ stack = << >>
    /\ calls = 0

(* The program calls one of the functions, from wherever it runs.          *)
LuaCall(op, t) ==
    /\ calls < MaxCalls
    /\ \/ stack = << >> /\ op \in MainCalls
       \/ Running("lua", "begin") /\ op \in HookCalls
    /\ t \in Struct \/ op = "complete"
    /\ calls' = calls + 1
    /\ stack' = Push(stack, Begin(op, t))
    /\ UNCHANGED <<definition, memo, incomplete, initialized>>

LuaError ==
    /\ HooksFail
    /\ Running("lua", "begin")
    /\ Raise
    /\ UNCHANGED <<definition, memo, incomplete, initialized, calls>>
-----------------------------------------------------------------------------
(* layoutstruct: undefined is reset before the types of the entries are    *)
(* evaluated, entries and tree are set after.                              *)
LayoutStruct ==
    /\ Running("layoutstruct", "begin")
    /\ IF tree[Top.type]
       THEN Raise /\ UNCHANGED undefined
       ELSE /\ undefined' = [undefined EXCEPT ![Top.type] = FALSE]
            /\ stack' = Push(At("entries", 1), LuaFrame)
    /\ UNCHANGED <<entries, tree, memo, incomplete, initialized, calls>>

(* The entries are evaluated.  A metatype function is called last.         *)
LayoutStructEntries ==
    /\ Running("lua", "begin") /\ Len(stack) > 1
    /\ Below.op = "layoutstruct" /\ Below.at = "entries"
    /\ \E list \in Lists : entries' = [entries EXCEPT ![Below.type] = list]
    /\ tree' = [tree EXCEPT ![Below.type] = TRUE]
    /\ stack' \in {SubSeq(Pop, 1, Len(Pop) - 1),
                   [stack EXCEPT ![Len(stack) - 1].at = "lua"]}
    /\ UNCHANGED <<undefined, memo, incomplete, initialized, calls>>

LayoutStructReturn ==
    /\ Running("lua", "begin") /\ Len(stack) > 1
    /\ Below.op = "layoutstruct" /\ Below.at = "lua"
    /\ stack' = SubSeq(Pop, 1, Len(Pop) - 1)
    /\ UNCHANGED <<definition, memo, incomplete, initialized, calls>>
-----------------------------------------------------------------------------
(* Mutant of Entered: a property that is being computed is computed again. *)
EnteredNever(inside) == FALSE

(* memoizeproperty: the property is being computed, or failed to be.       *)
Entered(inside) == inside[Top.type]

Computed(s, list) == [cachedentries EXCEPT ![s] = list]

GetEntries ==
    /\ Running("getentries", "begin")
    /\ LET s == Top.type
       IN  \/ /\ cachedentries[s] # NotYet
              /\ stack' = Pop
              /\ UNCHANGED <<cachedentries, ingetentries>>
           \/ /\ cachedentries[s] = NotYet /\ Entered(ingetentries)
              /\ Raise
              /\ UNCHANGED <<cachedentries, ingetentries>>
           \/ /\ cachedentries[s] = NotYet /\ ~Entered(ingetentries)
              /\ s \notin Hooked /\ ~undefined[s]
              /\ cachedentries' = Computed(s, entries[s])
              /\ ingetentries' = [ingetentries EXCEPT ![s] = FALSE]
              /\ stack' = Pop
           \/ /\ cachedentries[s] = NotYet /\ ~Entered(ingetentries)
              /\ ingetentries' = [ingetentries EXCEPT ![s] = TRUE]
              /\ IF s \in Hooked
                 THEN stack' = Push(At("lua", 1), LuaFrame)
                 ELSE undefined[s] /\ Raise
              /\ UNCHANGED cachedentries
    /\ UNCHANGED <<definition, cachedlayout, ingetlayout, incomplete,
                   initialized, calls>>

(* __getentries returns.                                                   *)
GetEntriesReturn ==
    /\ Running("lua", "begin") /\ Len(stack) > 1
    /\ Below.op = "getentries" /\ Below.at = "lua"
    /\ \E list \in Lists : cachedentries' = Computed(Below.type, list)
    /\ ingetentries' = [ingetentries EXCEPT ![Below.type] = FALSE]
    /\ stack' = SubSeq(Pop, 1, Len(Pop) - 1)
    /\ UNCHANGED <<definition, cachedlayout, ingetlayout, incomplete,
                   initialized, calls>>
-----------------------------------------------------------------------------
GetLayout ==
    /\ Running("getlayout", "begin")
    /\ LET s == Top.type
       IN  \/ /\ cachedlayout[s]
              /\ stack' = Pop
              /\ UNCHANGED ingetlayout
           \/ /\ ~cachedlayout[s] /\ Entered(ingetlayout)
              /\ Raise
              /\ UNCHANGED ingetlayout
           \/ /\ ~cachedlayout[s] /\ ~Entered(ingetlayout)
              /\ ingetlayout' = [ingetlayout EXCEPT ![s] = TRUE]
              /\ stack' = Push(At("entries", 1), Begin("getentries", s))
    /\ UNCHANGED <<definition, cachedentries, ingetentries,
                   cachedlayout, incomplete, initialized, calls>>

(* Mutants of NextEntry.                                                   *)
NextEntryStuck == Top.i
NextEntrySkips == Top.i + 2

NextEntry == Top.i + 1

(* addentry, ensurelayout: what an entry holds by value has a layout.      *)
GetLayoutEntry ==
    /\ Running("getlayout", "entries")
    /\ LET list == cachedentries[Top.type]
       IN  /\ Top.i <= Len(list)
           /\ IF Element(list[Top.i]) = Opaque
              THEN Raise
              ELSE stack' = Push(At("entries", NextEntry),
                                 Begin("getlayout", Element(list[Top.i])))
    /\ UNCHANGED <<definition, memo, incomplete, initialized, calls>>

GetLayoutReturn ==
    /\ Running("getlayout", "entries")
    /\ Top.i > Len(cachedentries[Top.type])
    /\ cachedlayout' = [cachedlayout EXCEPT ![Top.type] = TRUE]
    /\ ingetlayout' = [ingetlayout EXCEPT ![Top.type] = FALSE]
    /\ stack' = Pop
    /\ UNCHANGED <<definition, cachedentries, ingetentries, incomplete,
                   initialized, calls>>
-----------------------------------------------------------------------------
(* Type:complete                                                           *)
Complete ==
    /\ Running("complete", "begin")
    /\ LET t == Top.type
       IN  stack' = IF ~incomplete[t] THEN Pop
                    ELSE IF t \in Struct
                    THEN Push(At("layout", 1), Begin("getlayout", t))
                    ELSE Push(At("element", 1), Begin("complete", Element(t)))
    /\ UNCHANGED <<definition, memo, incomplete, initialized, calls>>

CompleteArray ==
    /\ Running("complete", "element")
    /\ incomplete' = [incomplete EXCEPT ![Top.type] =
                                            incomplete[Element(Top.type)]]
    /\ stack' = Pop
    /\ UNCHANGED <<definition, memo, initialized, calls>>

(* "static initializers run only once": the type is complete before its    *)
(* members are, so that they can use it.                                   *)
NowComplete == [incomplete EXCEPT ![Top.type] = FALSE]

(* Mutant of FirstMember.                                                  *)
SecondMember == 2

FirstMember == 1

CompleteStruct ==
    /\ Running("complete", "layout")
    /\ incomplete' = NowComplete
    /\ stack' = At("members", FirstMember)
    /\ UNCHANGED <<definition, memo, initialized, calls>>

CompleteMember ==
    /\ Running("complete", "members")
    /\ Top.i <= Len(cachedentries[Top.type])
    /\ stack' = Push(At("members", NextEntry),
                     Begin("complete", cachedentries[Top.type][Top.i]))
    /\ UNCHANGED <<definition, memo, incomplete, initialized, calls>>

CompleteInitialize ==
    /\ Running("complete", "members")
    /\ Top.i > Len(cachedentries[Top.type])
    /\ IF Top.type \in Static
       THEN /\ initialized' = Append(initialized, Top.type)
            /\ stack' = Push(At("lua", 1), LuaFrame)
       ELSE stack' = Pop /\ UNCHANGED initialized
    /\ UNCHANGED <<definition, memo, incomplete, calls>>

CompleteReturn ==
    /\ Running("lua", "begin") /\ Len(stack) > 1
    /\ Below.op = "complete" /\ Below.at = "lua"
    /\ stack' = SubSeq(Pop, 1, Len(Pop) - 1)
    /\ UNCHANGED <<definition, memo, incomplete, initialized, calls>>
-----------------------------------------------------------------------------
Step ==
    \/ LuaError
    \/ LayoutStruct \/ LayoutStructEntries \/ LayoutStructReturn
    \/ GetEntries \/ GetEntriesReturn
    \/ GetLayout \/ GetLayoutEntry \/ GetLayoutReturn
    \/ Complete \/ CompleteArray \/ CompleteStruct
    \/ CompleteMember \/ CompleteInitialize \/ CompleteReturn

(* The program ends.                                                       *)
Ends == stack = << >> /\ UNCHANGED vars

Next ==
    \/ Step
    \/ \E op \in Calls, t \in Type : LuaCall(op, t)
    \/ Ends

Spec == Init /\ [][Next]_vars

(* Every piece of the program that is called returns or fails at last.     *)
FairSpec == Spec /\ WF_vars(Step)
-----------------------------------------------------------------------------
Frames(op, s) == {k \in DOMAIN stack :
                    stack[k].op = op /\ stack[k].type = s /\ stack[k].at # "begin"}

LaidOut == {s \in Struct : cachedlayout[s]}

(***************************************************************************)
(* What has a layout has a size: its members have layouts, none of them is *)
(* opaque, and no type contains itself.                                    *)
(***************************************************************************)
LayoutsFinite ==
    /\ \A s \in LaidOut : /\ cachedentries[s] # NotYet
                          /\ Elements(cachedentries[s]) \subseteq LaidOut
    /\ \A S \in (SUBSET LaidOut) \ {{}} :
            \E s \in S : Elements(cachedentries[s]) \cap S = {}

(***************************************************************************)
(* Static initializers run only once, each on a type that is complete and  *)
(* so are its members (Type:complete: "static initializers run only once").*)
(***************************************************************************)
InitializedOnce ==
    /\ \A i, j \in DOMAIN initialized : initialized[i] = initialized[j] => i = j
    /\ \A i \in DOMAIN initialized :
            \A s \in {initialized[i]} \cup Elements(cachedentries[initialized[i]]) :
                ~incomplete[s]

(***************************************************************************)
(* A type whose layout, or whose entries, failed stays unusable.           *)
(***************************************************************************)
FailedStaysFailed ==
    [][ \A s \in Struct :
            /\ ingetentries[s] /\ Frames("getentries", s) = {}
                    => cachedentries'[s] = NotYet
            /\ ingetlayout[s] /\ Frames("getlayout", s) = {}
                    => ~cachedlayout'[s] ]_vars

(***************************************************************************)
(* No cycle of types keeps the compiler busy for ever.                     *)
(***************************************************************************)
Returns == [](stack # << >> => <>(stack = << >>))

=============================================================================
