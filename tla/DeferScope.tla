----------------------------- MODULE DeferScope -----------------------------
(***************************************************************************)
(* Scopes, defer statements and jumps of one Terra function.               *)
(*                                                                         *)
(* semanticcheck (src/terralib.lua) walks a typed function and rejects     *)
(* what may not be: breaks outside of loops, defers in conditions, gotos   *)
(* that cross a deferred statement.  FunctionEmitter::emitStmt             *)
(* (src/tcompiler.cpp) then walks the same statements in the same order,   *)
(* keeping a stack of deferred calls that it emits on every way out of a   *)
(* scope.  It trusts the checker.  Here both walk along a function body    *)
(* that is made up statement by statement; when it is complete and has no  *)
(* error, what the emitter did must be right.                              *)
(*                                                                         *)
(* The emitter's basic blocks are numbers: cfg.term counts the terminators *)
(* put into each, cfg.at is the insertion point.                           *)
(***************************************************************************)
EXTENDS Naturals, Sequences, FiniteSets

CONSTANTS
    Label,      \* the labels of the function
    Kinds,      \* the constructs it may use
    MaxStats,   \* bound: statements in the body
    MaxNest     \* bound: nesting of constructs

AllKinds == {"block", "while", "if", "repeat", "cond"}

ASSUME KindsAssumption == Kinds \subseteq AllKinds
ASSUME BoundAssumption == MaxStats \in Nat /\ MaxNest \in Nat

VARIABLES
    stats,          \* statements so far
    repeats,        \* there is a repeat loop among them
    open,           \* the constructs that are open, with their entry state
    scopeposition,  \* checker: the defers of each open scope
    loopdepth,      \* checker
    labels,         \* checker: labelstates, and the emitter's state there
    gotos,          \* the gotos so far, with the state at each
    breaks,         \* the breaks so far, with the state at each
    merges,         \* what the merge blocks of the loops that ended run
    error,          \* diag has an error
    deferred,       \* emitter: the blocks of the deferred calls
    breakpoints,    \* emitter: Len(deferred) at each open loop
    cfg,            \* emitter: the basic blocks
    done            \* the body is complete

body == <<stats, repeats, open, done>>
checker == <<scopeposition, loopdepth, error>>
emitter == <<deferred, breakpoints, cfg>>
vars == <<body, checker, labels, gotos, breaks, merges, emitter>>
-----------------------------------------------------------------------------
(* Basic blocks.                                                           *)
Size(c) == Len(c.term)
At(c, b) == [c EXCEPT !.at = b]
Br(c) == [c EXCEPT !.term[c.at] = @ + 1]
NewBlocks(c, n) == [c EXCEPT !.term = @ \o [i \in 1 .. n |-> 0]]

(* The block ends here and emission goes on in block b.                    *)
Goto(c, b) == At(Br(c), b)

(* startDeadCode                                                           *)
DeadCode(c) == At(NewBlocks(c, 1), Size(c) + 1)

(* emitDeferred: a copy of each of the num last deferred blocks, in a row. *)
EmitDeferred(c, num) ==
    IF num = 0 THEN c
    ELSE [term |-> Br(c).term \o [i \in 1 .. num |-> IF i < num THEN 1 ELSE 0],
          at   |-> Size(c) + num]

(* unwindDeferred: the deferred blocks themselves, and they are popped.    *)
UnwindDeferred(c, to) ==
    IF Len(deferred) = to THEN c
    ELSE [term |-> [b \in 1 .. Size(c) |->
                        IF b = c.at \/ \E i \in to + 2 .. Len(deferred) :
                                            deferred[i] = b
                        THEN c.term[b] + 1
                        ELSE c.term[b]],
          at   |-> deferred[to + 1]]

(* Mutant of Leave: no new block is started after the jump.                *)
LeaveInPlace(c, num) == Br(EmitDeferred(c, num))

(* A way out of the function or of a scope: num deferred calls, a jump.    *)
Leave(c, num) == DeadCode(Br(EmitDeferred(c, num)))
-----------------------------------------------------------------------------
(* The checker.                                                            *)
Push(s, x) == Append(s, x)
Pop(s) == SubSeq(s, 1, Len(s) - 1)
Last(s) == s[Len(s)]

(* getscopedepth                                                           *)
Depth(position) ==
    LET sum[i \in 0 .. Len(position)] ==
            IF i = 0 THEN 0 ELSE sum[i - 1] + position[i]
    IN  sum[Len(position)]

(* checkdeferredpassed reports no error for a jump between two positions.  *)
JumpAllowed(from, to) ==
    LET N == IF Len(from) < Len(to) THEN Len(to) ELSE Len(from)
        f(i) == IF i <= Len(from) THEN from[i] ELSE 0
        t(i) == IF i <= Len(to) THEN to[i] ELSE 0
    IN  \A i \in 1 .. N :
            /\ t(i) <= f(i)
            /\ t(i) < f(i) => \A j \in i + 1 .. N : t(j) = 0

Loops == {"while", "repeat"}

(* What is remembered of the place of a label, a goto or a break.          *)
Place == [position |-> scopeposition,
          path     |-> [i \in DOMAIN open |-> open[i].id],
          outer    |-> [i \in DOMAIN open |-> open[i].outer],
          deferred |-> deferred]

Undefined == [defined |-> FALSE, block |-> 0]
-----------------------------------------------------------------------------
Init ==
    /\ stats = 0
    /\ repeats = FALSE
    /\ open = << >>
    /\ scopeposition = <<0>>
    /\ loopdepth = 0
    /\ labels = [l \in Label |-> Undefined]
    /\ gotos = {}
    /\ breaks = {}
    /\ merges = {}
    /\ error = FALSE
    /\ deferred = << >>
    /\ breakpoints = << >>
    /\ cfg = [term |-> <<0>>, at |-> 1]
    /\ done = FALSE

Counted ==
    /\ ~done
    /\ stats < MaxStats
    /\ stats' = stats + 1

Statement == Counted /\ UNCHANGED repeats

Enter(kind) ==
    /\ kind \in Kinds
    /\ Len(open) < MaxNest
    /\ Counted
    /\ repeats' = (repeats \/ kind = "repeat")
    /\ open' = Push(open, [kind  |-> kind,
                           id    |-> stats,
                           outer |-> deferred,
                           local |-> Last(scopeposition),
                           first |-> Size(cfg) + 1])
    /\ UNCHANGED <<done, labels, gotos, breaks, merges>>

Exit(kind) ==
    /\ ~done
    /\ open # << >>
    /\ Last(open).kind = kind
    /\ open' = Pop(open)
    /\ UNCHANGED <<stats, repeats, done, labels, gotos, breaks>>

(* Len(deferred) when the innermost construct was entered.                 *)
Mark == Len(Last(open).outer)

(* Mutant of Unwound.                                                      *)
UnwoundNothing == deferred

(* What is left on the stack when the innermost construct ends.            *)
Unwound == SubSeq(deferred, 1, Mark)

(* Mutant of Breakpoint: a break runs every deferred call.                 *)
BreakpointZero == 0

(* pushBreakpoint: what a break in the loop that starts here leaves alone. *)
Breakpoint == Len(deferred)

(* leaveloop                                                               *)
LeaveLoop == loopdepth - 1

(* The loop ends and its merge block, where breaks go, runs these calls.   *)
MergeRuns(calls) ==
    merges' = merges \cup {[loop  |-> Last(open),
                            calls |-> calls,
                            own   |-> Last(scopeposition)]}

(* do ... end                                                              *)
EnterBlock ==
    /\ Enter("block")
    /\ scopeposition' = Push(scopeposition, 0)
    /\ UNCHANGED <<loopdepth, error, emitter>>

ExitBlock ==
    /\ Exit("block")
    /\ scopeposition' = Pop(scopeposition)
    /\ cfg' = UnwindDeferred(cfg, Mark)
    /\ deferred' = Unwound
    /\ UNCHANGED <<merges, loopdepth, error, breakpoints>>

(* if c then ... end: blocks merge, then, else.                            *)
EnterIf ==
    /\ Enter("if")
    /\ scopeposition' = Push(scopeposition, 0)
    /\ cfg' = Goto(NewBlocks(cfg, 3), Size(cfg) + 2)
    /\ UNCHANGED <<loopdepth, error, deferred, breakpoints>>

ExitIf ==
    /\ Exit("if")
    /\ scopeposition' = Pop(scopeposition)
    /\ LET b == Last(open).first
       IN  cfg' = Goto(Goto(UnwindDeferred(cfg, Mark), b + 2), b)
    /\ deferred' = Unwound
    /\ UNCHANGED <<merges, loopdepth, error, breakpoints>>

(* while and for: blocks condition, body, merge.                           *)
EnterWhile ==
    /\ Enter("while")
    /\ scopeposition' = Push(scopeposition, 0)
    /\ loopdepth' = loopdepth + 1
    /\ breakpoints' = Push(breakpoints, Breakpoint)
    /\ LET b == Size(cfg) + 1
       IN  cfg' = Goto(Goto(NewBlocks(cfg, 3), b), b + 1)
    /\ UNCHANGED <<error, deferred>>

ExitWhile ==
    /\ Exit("while")
    /\ scopeposition' = Pop(scopeposition)
    /\ loopdepth' = LeaveLoop
    /\ breakpoints' = Pop(breakpoints)
    /\ cfg' = Goto(UnwindDeferred(cfg, Mark), Last(open).first + 2)
    /\ deferred' = Unwound
    /\ MergeRuns(<< >>)
    /\ UNCHANGED error

(* repeat ... until c, which the parser wraps in a block of its own: blocks *)
(* body, merge.  The checker does not leave the loop again.                *)
EnterRepeat ==
    /\ Enter("repeat")
    /\ scopeposition' = Push(scopeposition, 0)
    /\ loopdepth' = loopdepth + 1
    /\ breakpoints' = Push(breakpoints, Breakpoint)
    /\ cfg' = Goto(NewBlocks(cfg, 2), Size(cfg) + 1)
    /\ UNCHANGED <<error, deferred>>

(* The deferred calls of the body also run along the back edge: a block    *)
(* for that is built first, and the body's block is made to branch to it.  *)
BackEdge(c, first, num) ==
    IF num = 0 THEN c
    ELSE At(Br(EmitDeferred(DeadCode(c), num)), first)

ExitRepeat ==
    /\ Exit("repeat")
    /\ scopeposition' = Pop(scopeposition)
    /\ breakpoints' = Pop(breakpoints)
    /\ LET first == Last(open).first
           c == BackEdge(cfg, first, Len(deferred) - Mark)
       IN  cfg' = UnwindDeferred(Goto(c, first + 1), Mark)
    /\ deferred' = Unwound
    /\ MergeRuns(SubSeq(deferred, Mark + 1, Len(deferred)))
    /\ UNCHANGED <<loopdepth, error>>

(* A condition may hold statements (a let expression) but must not defer.  *)
EnterCond ==
    /\ Enter("cond")
    /\ UNCHANGED <<checker, emitter>>

(* Mutant of CondDefers: and, or are not checked.                          *)
CondDefersNever == FALSE

(* checklocaldefers                                                        *)
CondDefers == Last(scopeposition) # Last(open).local

ExitCond ==
    /\ Exit("cond")
    /\ error' = (error \/ CondDefers)
    /\ UNCHANGED <<merges, scopeposition, loopdepth, emitter>>

(* defer f()                                                               *)
Defer ==
    /\ Statement
    /\ scopeposition' = [scopeposition EXCEPT ![Len(scopeposition)] = @ + 1]
    /\ cfg' = NewBlocks(cfg, 1)
    /\ deferred' = Push(deferred, Size(cfg) + 1)
    /\ UNCHANGED <<open, done, loopdepth, error, labels, gotos, breaks, merges,
                   breakpoints>>

(* The block of a label, made at the first use of the label.               *)
WithLabelBlock(l) == IF labels[l].block = 0 THEN NewBlocks(cfg, 1) ELSE cfg
LabelBlock(l) == IF labels[l].block = 0 THEN Size(cfg) + 1 ELSE labels[l].block

(* A goto before its label crosses a deferred statement.                   *)
CrossedBefore(l) ==
    \E g \in gotos : g.label = l /\ ~JumpAllowed(g.place.position, scopeposition)

DefineLabel(l) ==
    /\ Statement
    /\ error' = (error \/ labels[l].defined \/ CrossedBefore(l))
    /\ labels' = [labels EXCEPT ![l] = [defined |-> TRUE,
                                        block   |-> LabelBlock(l),
                                        place   |-> Place]]
    /\ cfg' = Goto(WithLabelBlock(l), LabelBlock(l))
    /\ UNCHANGED <<open, done, scopeposition, loopdepth, gotos, breaks, merges,
                   deferred, breakpoints>>

(* A goto to a label that is not defined yet is checked with its label.    *)
(* The number of deferred calls it runs comes from labeldepths, once the   *)
(* whole function has been checked; it does not matter for the blocks.     *)
GotoStat(l) ==
    /\ Statement
    /\ error' = \/ error
                \/ /\ labels[l].defined
                   /\ ~JumpAllowed(scopeposition, labels[l].place.position)
    /\ gotos' = gotos \cup {[label |-> l, place |-> Place]}
    /\ labels' = [labels EXCEPT ![l].block = LabelBlock(l)]
    /\ cfg' = Leave(WithLabelBlock(l), 0)
    /\ UNCHANGED <<open, done, scopeposition, loopdepth, breaks, merges,
                   deferred, breakpoints>>

InLoop == \E i \in DOMAIN open : open[i].kind \in Loops
InnermostLoop ==
    CHOOSE i \in DOMAIN open :
        /\ open[i].kind \in Loops
        /\ \A j \in DOMAIN open : i < j => open[j].kind \notin Loops

BreakStat ==
    /\ Statement
    /\ error' = (error \/ loopdepth = 0)
    /\ breaks' = breaks \cup
           {[target |-> IF breakpoints = << >> THEN {} ELSE {Last(breakpoints)},
             loop   |-> IF InLoop THEN {open[InnermostLoop]} ELSE {},
             place  |-> Place]}
    /\ cfg' = IF breakpoints = << >> THEN cfg
              ELSE Leave(cfg, Len(deferred) - Last(breakpoints))
    /\ UNCHANGED <<open, done, scopeposition, loopdepth, labels, gotos, merges,
                   deferred, breakpoints>>

ReturnStat ==
    /\ Statement
    /\ cfg' = Leave(cfg, Len(deferred))
    /\ UNCHANGED <<open, done, checker, labels, gotos, breaks, merges,
                   deferred, breakpoints>>

(* The end of the body, which is a block too, and the implicit return.     *)
EndBody ==
    /\ ~done /\ open = << >>
    /\ done' = TRUE
    /\ error' = (error \/ \E g \in gotos : ~labels[g.label].defined)
    /\ cfg' = Br(UnwindDeferred(cfg, 0))
    /\ scopeposition' = << >>
    /\ deferred' = << >>
    /\ UNCHANGED <<stats, repeats, open, loopdepth, labels, gotos, breaks, merges,
                   breakpoints>>

Next ==
    \/ EnterBlock \/ ExitBlock
    \/ EnterIf \/ ExitIf
    \/ EnterWhile \/ ExitWhile
    \/ EnterRepeat \/ ExitRepeat
    \/ EnterCond \/ ExitCond
    \/ Defer \/ BreakStat \/ ReturnStat
    \/ \E l \in Label : DefineLabel(l) \/ GotoStat(l)
    \/ EndBody
    \/ done /\ UNCHANGED vars

Spec == Init /\ [][Next]_vars
-----------------------------------------------------------------------------
Accepted == done /\ ~error

Prefix(s, t) == Len(s) <= Len(t) /\ SubSeq(t, 1, Len(s)) = s

(***************************************************************************)
(* Checker and emitter count the same: the defers of the open scopes are   *)
(* the calls on the emitter's stack (the assertions of T_label and         *)
(* T_gotostat in emitStmt, which compare labeldepths with that stack).     *)
(***************************************************************************)
DepthsAgree == Depth(scopeposition) = Len(deferred)

(***************************************************************************)
(* What jumps run, of the calls that were deferred.  An accepted goto never*)
(* needs calls that its own place does not have (assert in T_gotostat).    *)
(* What it leaves on the stack is what was deferred at its label, unless it*)
(* jumps into a construct that had deferred something there: positions are *)
(* compared by count only (checkdeferredpassed), so that a goto between    *)
(* siblings with as many defers is accepted and runs the wrong calls.      *)
(***************************************************************************)
NothingBeyond(label, k) ==
    k = Len(label.path) \/ label.deferred = label.outer[k + 1]

UnwindsTo(goto, label) ==
    /\ Depth(label.position) <= Len(goto.deferred)
    /\ \A k \in 0 .. Len(label.path) :
           NothingBeyond(label, k) /\ Prefix(SubSeq(label.path, 1, k), goto.path) =>
               Prefix(label.deferred, goto.deferred)

GotoUnwinds == \A g \in gotos : UnwindsTo(g.place, labels[g.label].place)

(* A break leaves what was deferred outside of the innermost loop.         *)
BreakLeaves(b, n, loop) ==
    /\ n <= Len(b.place.deferred)
    /\ SubSeq(b.place.deferred, 1, n) = loop.outer

(* What a break runs: its own calls, then those of the merge block.        *)
BreakRuns(b, n, m) == SubSeq(b.place.deferred, n + 1, Len(b.place.deferred)) \o m.calls

DeferredInLoop(b, loop) ==
    SubSeq(b.place.deferred, Len(loop.outer) + 1, Len(b.place.deferred))

(***************************************************************************)
(* A break leaves the calls deferred outside of the innermost loop, and    *)
(* until it is behind the loop it runs exactly those deferred in the loop  *)
(* when it is reached.  The exception is a repeat loop that defers in the  *)
(* scope of its own body: its merge block unwinds that scope again         *)
(* (T_repeatstat in emitStmt), for breaks as for the end of the loop, so   *)
(* that these calls run twice and those deferred after the break run too.  *)
(***************************************************************************)
BreakUnwinds ==
    \A b \in breaks : \A n \in b.target : \A loop \in b.loop :
        /\ BreakLeaves(b, n, loop)
        /\ \A m \in merges : m.loop = loop =>
               (BreakRuns(b, n, m) = DeferredInLoop(b, loop)
                    <=> ~(loop.kind = "repeat" /\ m.own > 0))

JumpsUnwind == (Accepted => GotoUnwinds) /\ BreakUnwinds

(***************************************************************************)
(* A condition that was accepted leaves the stack of deferred calls as it  *)
(* was: whatever is deferred has been reached (semanticcheck: "defer       *)
(* statements are not allowed in conditional expressions").                *)
(***************************************************************************)
ConditionsDoNotDefer ==
    [][ Len(open') < Len(open) /\ Last(open).kind = "cond" =>
            error' \/ deferred' = Last(open).outer ]_vars

(***************************************************************************)
(* In a function without repeat loops every break has a loop (semanticcheck*)
(* "break found outside a loop", and the assertion on breakpoints in       *)
(* T_breakstat), and every basic block ends, once, whatever its jumps and  *)
(* defers are (verifyFunction is called on the result).  With repeat loops *)
(* neither holds: loopdepth is not lowered after them, and the back edge   *)
(* moves the insertion point to the wrong block.                           *)
(***************************************************************************)
EmittedWell ==
    Accepted /\ ~repeats =>
        /\ \A b \in breaks : b.target # {}
        /\ \A b \in 1 .. Size(cfg) : cfg.term[b] = 1
=============================================================================
