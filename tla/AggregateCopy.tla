---------------------------- MODULE AggregateCopy ----------------------------
(***************************************************************************)
(* How a copy of an aggregate is emitted (tcompiler.cpp).  An expression   *)
(* that denotes an aggregate is emitted as a load; storing the value does  *)
(* not store what was loaded but copies from where it was loaded, and the  *)
(* load is erased (emitStore, emitStoreAgg, AggregateCopySource,           *)
(* eraseDeadAggregateLoad).  The copy runs later than the load did: what   *)
(* was written in between must not be seen.                                *)
(*                                                                         *)
(* The emitter walks the program; each step is something the program does  *)
(* next and what is emitted for it.  `memory' is what the program means,   *)
(* `code' the instructions so far, of the basic blocks in order.           *)
(***************************************************************************)
EXTENDS Integers, Sequences, SequencesExt, FiniteSets

CONSTANTS
  Vars,        \* variables that hold an aggregate
  SmallArrays, \* those of an array type below MEM_ARRAY_THRESHOLD
  MaxCode,     \* bound on the steps of the program
  MaxBlocks    \* bound on basic blocks

ASSUME SmallAreVars == SmallArrays \subseteq Vars

VARIABLES
  code,        \* instructions, each in a block
  block,       \* the block instructions are inserted into
  skipped,     \* blocks of branches this execution does not take
  optional,    \* the insertion block is that of a branch
  pending,     \* loads whose value is not stored yet: id, variable, value
  memory,      \* what each variable holds for the program
  steps        \* steps so far; numbers instructions and values

vars == <<code, block, skipped, optional, pending, memory, steps>>

-----------------------------------------------------------------------------
(* Instructions.  A temporary is named after the load it is a copy of.     *)

Load(id, v, volatile) ==
  [op |-> "load", id |-> id, block |-> block, src |-> v, volatile |-> volatile]
Call(id, v) == [op |-> "call", id |-> id, block |-> block, dst |-> v]
Store(id, l, v) == [op |-> "store", id |-> id, block |-> block, dst |-> v, value |-> l]
MemCpy(id, b, from, to) == [op |-> "memcpy", id |-> id, block |-> b, src |-> from, dst |-> to]

mayWriteToMemory(i) == i.op \in {"call", "store", "memcpy"}

IndexOf(l) == CHOOSE i \in DOMAIN code : code[i].id = l /\ code[i].op = "load"

InsertAfterLoad(c, i, instr) == SubSeq(c, 1, i) \o <<instr>> \o SubSeq(c, i + 1, Len(c))

(* Mutant of Clobbered: a write in the block of the load is overlooked.    *)
ClobberedElsewhere(l) == code[IndexOf(l)].block # block

\* Something was emitted after the load that may write, or in another block.
Clobbered(l) ==
  \/ code[IndexOf(l)].block # block
  \/ \E i \in (IndexOf(l) + 1)..Len(code) : mayWriteToMemory(code[i])

Temp(l) == <<"aggcopy", l>>

\* AggregateCopySource: where the value can be copied from, and the code with
\* the snapshot of it if there has to be one.
AggregateCopySource(l) ==
  IF Clobbered(l)
  THEN [src |-> Temp(l),
        code |-> InsertAfterLoad(code, IndexOf(l),
                   MemCpy(l, code[IndexOf(l)].block, code[IndexOf(l)].src, Temp(l)))]
  ELSE [src |-> code[IndexOf(l)].src, code |-> code]

\* The load is dead now that its value is copied from memory.
eraseDeadAggregateLoad(c, l) ==
  SelectSeq(c, LAMBDA i : ~(i.op = "load" /\ i.id = l /\ ~i.volatile))

-----------------------------------------------------------------------------
Init ==
  /\ code = <<>> /\ block = 1 /\ skipped = {} /\ optional = FALSE
  /\ pending = {} /\ steps = 0
  /\ memory = [v \in Vars |-> v]

Step == steps < MaxCode /\ steps' = steps + 1

\* emitExp of an lvalue that is loaded.
EmitLoad(v, volatile) ==
  /\ Step
  /\ ~optional
  /\ code' = Append(code, Load(steps, v, volatile))
  /\ pending' = pending \union {[id |-> steps, var |-> v, value |-> memory[v]]}
  /\ UNCHANGED <<block, skipped, optional, memory>>

\* A call of the program writes a variable.
EmitCall(v) ==
  /\ Step
  /\ code' = Append(code, Call(steps, v))
  /\ memory' = IF block \in skipped THEN memory ELSE [memory EXCEPT ![v] = steps]
  /\ UNCHANGED <<block, skipped, optional, pending>>

\* The emitter goes on in another block: that of a branch, taken or not, or
\* the one where the branches meet.
SetInsertBlock(branch, taken) ==
  /\ Step
  /\ block < MaxBlocks
  /\ block' = block + 1
  /\ optional' = branch
  /\ skipped' = IF branch /\ ~taken THEN skipped \union {block + 1} ELSE skipped
  /\ UNCHANGED <<code, pending, memory>>

\* A store of a loaded value to a variable: emitStore, emitStoreAgg.
EmitStore(p, v) ==
  /\ Step
  /\ ~optional
  /\ p.var \in SmallArrays <=> v \in SmallArrays
  /\ pending' = pending \ {p}
  /\ memory' = [memory EXCEPT ![v] = p.value]
  /\ code' = IF v \in SmallArrays
             THEN Append(code, Store(steps, p.id, v))
             ELSE LET s == AggregateCopySource(p.id)
                  IN  eraseDeadAggregateLoad(
                        Append(s.code, MemCpy(steps, block, s.src, v)), p.id)
  /\ UNCHANGED <<block, skipped, optional>>

Next ==
  \/ \E v \in Vars, volatile \in BOOLEAN : EmitLoad(v, volatile)
  \/ \E v \in Vars : EmitCall(v)
  \/ \E branch, taken \in BOOLEAN : SetInsertBlock(branch, taken)
  \/ \E p \in pending, v \in Vars : EmitStore(p, v)

Spec == Init /\ [][Next]_vars

-----------------------------------------------------------------------------
(* Running the code: memory with the temporaries, and the values loaded.   *)

Set(f, k, x) == [i \in DOMAIN f \union {k} |-> IF i = k THEN x ELSE f[i]]

Execute(c) ==
  FoldLeft(LAMBDA s, i :
             CASE i.block \in skipped -> s
               [] i.block \notin skipped /\ i.op = "load" ->
                    [s EXCEPT !.loaded = Set(@, i.id, s.mem[i.src])]
               [] i.block \notin skipped /\ i.op = "store" ->
                    [s EXCEPT !.mem = Set(@, i.dst, s.loaded[i.value])]
               [] i.block \notin skipped /\ i.op = "call" ->
                    [s EXCEPT !.mem = Set(@, i.dst, i.id)]
               [] i.block \notin skipped /\ i.op = "memcpy" ->
                    [s EXCEPT !.mem = Set(@, i.dst, s.mem[i.src])],
           [mem |-> [v \in Vars |-> v], loaded |-> [x \in {} |-> x]], c)

(* What was emitted does what the program says: a variable assigned from   *)
(* an aggregate holds the value the aggregate had when it was read, not    *)
(* when it is copied, whatever was written in between, in this block or in *)
(* one that may not run (AggregateCopySource, eraseDeadAggregateLoad).     *)
CopiesAgree ==
  LET mem == Execute(code).mem
  IN  \A v \in Vars : mem[v] = memory[v]
=============================================================================
