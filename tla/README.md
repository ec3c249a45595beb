# A TLA+ model of the Terra compiler

Terra is a low-level language embedded in Lua. Its compiler is a Lua program (`src/src/terralib.lua`)
that type checks functions and calls a C++ library (`src/src/tcompiler.cpp`) that emits LLVM code. There
are no threads in it. What makes it hard to get right is **re-entrancy and order**: the compiler runs the
user's Lua code in the middle of nearly everything it does (`__getentries`, `__staticinitialize`, `__cast`,
macros, escapes, the types of struct entries), that code calls the compiler again, any of it can raise an error that someone
up the stack catches, and results are cached along the way. This directory models those parts.

Paths below are relative to the repository (`src/` here is the root of the repository's copy, so the
compiler's own sources are in `src/src/`).

## Inventory

| Component | State | Operations | What it must keep to |
|---|---|---|---|
| **Code emission** (`tcompiler.cpp` 1937-1960, 2156-2290, 3880-3943; `tcompilerstate.h`; `tinline.cpp`) | `CU->symbols` (what has been mapped), the C++ call stack, Tarjan's `index`, `lowlink`, `onstack`, the queue `tooptimize` | `addvalue`; `EmitFunction`, `EmitGlobalVariable` recursively; the batches given to inliner and optimizer | one LLVM value per Terra value; every batch is a strongly connected component; callees first; nothing is left waiting between calls; emission ends |
| **Statements and defer** (`terralib.lua` 1910-2058; `tcompiler.cpp` 3487-3550, 3593-3850) | checker: scope positions, loop depth, label states; emitter: deferred blocks, breakpoints, basic blocks | one per statement | a jump runs exactly the deferred calls it leaves; a break has a loop; the two walks count alike; every block ends once |
| **Struct layout and completion** (`terralib.lua` 1024-1057, 1368-1387, 1525-1672) | per struct: `undefined`, `tree`, the cached entries and layout, the flags "being computed", `incomplete` | `layoutstruct`, `getentries`, `getlayout`, `complete` and the program's hooks | no property is computed twice at once; layouts are well-founded; a type that failed stays failed; initializers run once; no endless recursion |
| **Definitions** (`terralib.lua` 504-607, 690-718, 814-825) | `definition` of a function, `initializer` of a global, `readytocompile` | `adddefinition`, `resetdefinition`, `setinitializer`, `addvalue` with the check before it | nothing undefined is emitted; what has been compiled no longer changes |
| **Groups of functions** (`terralib.lua` 1076-1180, 2100-2120) | `simultaneousdefinitions`, placeholder types | `defineobjects`, `createfunctionreference` | a function is checked once; recursion without a return type is reported; names of the environment |
| **C names of types** (`terralib.lua` 1389-1520) | `cachedcstring`, the FFI's C declarations | `cstring`, `definecstruct` | a C type is declared before it is used by value, once |
| **JIT** (`tcompiler.cpp` 3893-4027; `tllvmutil.cpp`) | LLVM functions and their names, loaded code, addresses | `addvalue` with its renaming, `jit`, copying a connected component, `saveobj`, `linkllvm` | a value's address is that of its own code; a saved module has the names asked for |
| **Lifetimes** (`tcompiler.cpp` 368-478, 596-660, 2265-2283, 4030-4052; `terra.cpp` 408-507) | reference counts of targets, units and compiler state, destructors of Lua objects | create, collect, free, `lua_close` | nothing is used after it is deleted; everything is deleted once |
| **Calling conventions** (`tcompiler.cpp` 670-911, 1006-1907) | of each argument and result: its class, the registers used | `Classify`, `CreateFunctionType`, `AttributeFnOrCall`, `EmitCall`, `EmitEntry`, `EmitReturn` | every byte arrives, nothing else is touched; C and Terra agree |
| **Copies of aggregates** (`tcompiler.cpp` 92-95, 956-984, 2794-2866) | loads that are not stored yet | `emitStore` and what it asks of the instructions in front | the copy has the value that was read |
| **Import of C** (`tcwrapper.cpp`; `terralib.lua` 750-800 and `includecstring`) | the target's structs and its module of C code, the tables of an import, errors | the visitor's methods, code generation, renaming, linking, the tables returned | types are those of C; names denote what they do in C; code that is defined stays |
| **Typechecker of expressions** (`terralib.lua` 2060-3450) | diagnostics, symbol environments | casts, overloads, operators, calls, macros | a rejected overload leaves nothing behind; the meet of types is symmetric |
| **Construction of types** (`terralib.lua` 1216-1260) | memo tables, sets of used names | `memoizefunction`, `uniquenameset` | one type per description, one name per type |
| **Lexer, text output** (`llex.cpp`; `lparser.cpp` 270-420, 848-899, 1046-1112, 1340-1389) | the output buffer, the current token and the one read ahead with their places in it | `llex`, `luaX_next`, `luaX_lookahead`, `luaX_patchbegin` and the rules that replace their construct | what is not parsed yet is in the buffer as read; lines stay lines; statements stay apart |
| **Parser, language extensions** (`lparser.cpp`; `llex.cpp` 697-740; `terralib.lua` 4649-4691) | open blocks with the names they define, the chain of Terra constructs with what they capture, `in_terra`, languages and entry points, `nCcalls` | `enterblock`/`leaveblock`, `enterterra`/`leaveterra`, `definevariable`, `refvariable`, `embeddedcode`, `import`, `languageextension`, a function per rule of the grammar | what Terra code looks up is captured by the construct that can see it; an import lasts as long as its block; an error leaves nothing behind for the next chunk |
| Others | | | macros and quotes, ASDL, debugging, CUDA, start-up, `std.t`, build tools; see "What is not modelled" |

How they interact:

    text --Parser--> Lua text that calls terra.definequote, defineobjects, ... with trees and captured locals
        v
    Lua program --defines--> Groups of functions --type checks--> Expressions --may call back--> Lua program
        |                                                              |
        |                                                        Struct layout --hooks--> Lua program
        | f(...), f:compile(), saveobj                                 |
        v                                                              |
    Definitions --readytocompile: completes types---------------------+
        | addvalue
        v
    Code emission (statements and defer, aggregates, calls inside) --> optimizer --> JIT (addresses) | object files
        ^
    Import of C --> struct types, external functions, code in the target's module

All calls are synchronous. From the outside, two things are asynchronous: errors, which unwind any part of the
stack, and the garbage collector, which runs destructors.

## Modules

| Module | What it is |
|---|---|
| `CodeEmit` | Code emission: the depth-first walk over functions and globals with Tarjan's algorithm |
| `SccOrder` | What emission promises the optimizer: one strongly connected component at a time, callees first |
| `CodeEmit_proofs` | Proofs about it: invariants; refinement of `SccOrder` |
| `DeferScope` | The checker's and the emitter's walk over the statements of one function, side by side |
| `DeferScope_proofs` | Proofs about it: the stack of deferred calls, and the basic blocks |
| `TypeCompletion` | Lua's call stack while structs are defined, laid out and completed |
| `TypeCompletion_proofs` | Proofs about it |
| `Definitions` | Functions and globals that are defined, redefined, checked and emitted by several units |
| `Definitions_proofs` | Proofs about it |
| `ParserScopes` | The parser as a pushdown machine: blocks, captures, imports, syntax errors |
| `ParserScopes_proofs` | Proofs about it: what is open and what is left to do, imports, captures |
| `Lexer`, `LexOutput` | Reading tokens a character at a time; the parser's rules that replace text, on top of it |
| `LexOutput_proofs` | Proofs about them: tokens keep their place in the buffer, separators stand where they should |
| `LexLines_proofs` | Proof, on top of these, that lines are kept |
| `LLVMTypes`, `CallConv` | Sizes and offsets of types; one call of a signature on a target, byte by byte |
| `AggregateCopy` | Loads and stores of structs and arrays, and running what was emitted |
| `Jit` | Names, loaded code and addresses of several units; who counts whom; the collector and `lua_close` |
| `Jit_proofs` | Proofs about the counts, the names in modules, and the addresses and links of code |
| `CImport` | Clang's declarations, the visitor's Terra types and tables, renaming and linking, several imports |
| `MC...` | Small instances of each for TLC |

### CodeEmit

A state holds the program (`refs`: what each body or initializer refers to), the stack of emissions and the
emitter's tables. `AddValue` is `terra_compilationunitaddvalue` up to its first emission: it starts with an
empty queue, while `index`, `lowlink` and `onstack` outlive it, as in the code. `Descend` is `emitExp` on a
`globalvalueref` that is not in `CU->symbols`: it enters `EmitFunction` or `EmitGlobal`. `Revisit` is the same
for one that is, which only lowers the user's `lowlink`. `FinishScc` and `FinishMember` are what `emitFunction`
does after `emitBody`: close a component and optimize it, or leave the function queued and pass the `lowlink`
on. `FinishGlobal` enters a global in the symbol table, after its initializer, as in the code. `seen` only
says which references of a body have been met; the order is free, since a body may have them in any order.

Code generation of expressions, linkage, names and debug information are left out.

### SccOrder

One action, `OptimizeScc(S)`: `S` is strongly connected, and all it calls is in `S` or done. `CodeEmit` implements it with `calls` the
references between functions and `done` the optimized ones.

### DeferScope

A function body is made up statement by statement; each action is the checker's case
for a statement (`semanticcheck`) and the emitter's (`emitStmt`) together, with an action for entering and one for leaving a
construct. The two walk the same tree in the same order, and the emitter runs only if the checker
reported nothing, so properties about the emitter say `Accepted =>`. Deferred calls are the basic blocks they are in; a block is a
number and the count of its terminators. Labels and gotos are judged when the body is complete,
as the code does for forward gotos.

### TypeCompletion

The state has the tables of `memoizeproperty` for two properties (cached value, and the flag that it is being computed) and an explicit
Lua stack. A frame is a call of the compiler with its program counter, or a piece of the user's program.
`LuaCall` lets such a piece (and the main program) call any operation of the compiler; `LuaError` lets it fail;
`Raise` unwinds to any piece of the program on the stack, which is where `pcall` may be, or to the main program.
Arrays of structs stand for composite types; `Opaque` for types without a size.

### Definitions

Functions and globals have definitions that use others. `AddValue` pushes a `Check` frame, one call of
`readytocompile`; `VisitAgain`, `VisitUndefined`, `VisitType` and `VisitUses` are the branches of its `visit`, with
the step where a type is completed apart, because hooks run there; `Ready` marks what was visited
and emits the root. Emission is one step: it calls no Lua. `SetInitializer` is in two steps, since
the initializer is type checked between the test of `readytocompile` and the assignment. A function
that is emitted without a definition ends the behaviour (`Alive`): the emitter reads an object it never set.

### ParserScopes

Recursive descent is a stack of operations, `todo`: the rules of the grammar (`CondRule`, `ForlistRule`, `TerraBody`, `Definition`, ...)
are the sequences of what their functions do to scopes, names and tokens, and an action for each operation takes it from the
stack. Which rule comes next is a free choice, under the checks `check_terra` and `check_no_terra`: every chunk the grammar allows is
a behaviour. Names are defined and looked up as in `definevariable` and `refvariable`. Beside it, a block notes which names are
`bound` there in the eyes of Lua or of the type checker, which is where `missed` comes from: a name that Terra code will look up and its construct did
not capture. A `SyntaxError` can come at any token; the next chunk (`ParseAgain`) has a new `LexState` and the same `terra_State`.
Of the current token the model knows whether it is the entry point of a language, which is decided when it is read, before the parser acts on
the one in front of it. A rule reads its last word after it has left its block, or before, as in the code.

### Lexer, LexOutput

The lexer is a machine that takes a character per step; its mode is the place in the code from which `next` is called. What the reader returns
is chosen when it is asked, so a run covers every chunk of a family at once. Every cell of the buffer remembers where in the source it was, or that the parser wrote
it. In `LexOutput` an operation carries the tokens that the C function holds in local variables, because the places in them go stale when something in front is replaced:
`Patch` is `luaX_patchbegin` with `luaX_patchend`, including what it does to the token read ahead. The grammar has one construct of each kind that writes to
the buffer. A reserved word is one character, `quote` stands for backquote, and languages are those of names and expressions that read at least one token.

### LLVMTypes, CallConv

`LLVMTypes` is the layout of scalars, pointers, vectors, arrays, structs and unions. A behaviour of `CallConv` is one call: the result and each parameter are
classified, in order, because registers run out; then `Call`, `Enter` and `Exit` are the code that `EmitCall`, `EmitEntry` and `EmitReturn` emit, executed on bytes that say which
byte of which argument they are. What LLVM does with scalars on x86-64 and what the System V ABI says of aggregates are the reference (`PlacedByAbi`).

### AggregateCopy

Each step is something the program does next (read an aggregate, write one, store what was read, go to another block) with the instructions that are emitted for
it. `Execute` runs the instructions; `memory` is what the program means.

### Jit

An LLVM function is named after the Terra value it was created for; external functions of one C name share one. `Emit` is one step (its order is in `CodeEmit`), `AddValue` adds
the renaming, `JITGlobalValue` copies the part of the module that the engine does not have, by name, and loads it. `symbols` and `fstates` say of each unit which values it has mapped and
which of them have a destructor. Each destructor is an action that may happen in any order: in the open state when its object is garbage, later always. `FreeCompilationUnit` is
`freecompilationunit` with what it takes along.

### CImport

One step is one callback of Clang. It makes many calls that change the import and the target, which are functions from a record of all of it (`World`) to the next; an error
ends them. C types are records of the class of Clang's canonical type. Struct types belong to the target and are shared by imports; between
imports `Use` completes a struct. The linked module holds the definitions of functions and variables of the headers imported so far, and whether they are inline; `next_unused_id` numbers the functions that keep them alive and
is raised by imports that fail as well. What C says (`Understood`, `Holds`, `Denotes`) is stated apart from the code's walk and is the reference of the properties.

## Runs

| Run | Instance | Shows |
|---|---|---|
| `codeemit_scc` | every program of 3 functions and 2 globals that are data, or of 2, an external one and the globals; programs of 2 functions and 2 globals whose initializers use functions; `addvalue` in any order | the safety properties of emission, that a global is created twice only if its own initializer leads back to it, the inductive invariant's type part, the refinement of `SccOrder`, every emission returns |
| `defer_jumps` | bodies of 6 statements, of 5 if there is a repeat loop, nesting 2, a label, all constructs | the agreement of checker and emitter, what jumps unwind and what breaks run, that blocks end once |
| `types_layout` | 2 structs, one with `__getentries`, one with `__staticinitialize`; 3 calls by the program; every hook may fail or call back | safety and termination of layout and completion |
| `definitions_ready` | 2 functions, a global, 2 units, 4 operations, callbacks that define and compile | the promises of `readytocompile` |
| `parser_scopes` | 4 constructs, one name, 2 languages with the same entry point; then another chunk | captures, the agreement of blocks, constructs and `in_terra`, entry points |
| `lex_output` | five families of chunks: operands, definitions, languages, embedded code, tokens | the buffer is where the tokens say; lines; separators |
| `lex_lookahead` | the same | **violation** of `LookaheadFree` |
| `cconv` | 7 targets; signatures with 2 free parameters out of 17 types after 0 to 12 scalars | bytes arrive, attributes are on their parameters, x86-64 is as C |
| `aggregate_copies` | 6 steps on 2 structs and a small array, 3 blocks | copies have the value that was read |
| `jit_names` | 2 functions of one name, an external one, the JIT's unit and another; 4 operations | addresses, names of saved modules, counts, debug information, deletion |
| `cimport` | 3 imports out of about 30 headers, with uses of types in between | layouts, names, linked code, reasons to fail |
| `cimport_nested` | a header of structs defined in one another | **violation** of `LayoutsMatch` |

Bounds:

* `codeemit_scc`: initializers are data, or they use functions and the program has at most five references. Of the latter two kinds are left out: globals that refer to one another in a circle without a function between,
  whose emission does not end, and cycles that calls alone do not make, whose lowlink is lost (see below). What remains has globals that are re-entered through a function of their own initializer, and created twice. Three functions are enough for a component of two with a callee outside, for two nested cycles, for a lowlink that has to
  travel over a return, and for a second `addvalue` that meets what the first one left. The theorems hold for any number.
* `defer_jumps`: `MaxStats = 6` and `MaxNest = 2` allow a defer, a nested loop or block with another, and a jump out of both. Two sibling blocks that defer, with a label in one and a goto in
  the other, take six statements: with five, the exception of `JumpsUnwind` for gotos never occurs; the one for breaks takes three. `Small` keeps
  repeat loops out of bodies of six (`MaxWithRepeat = 5`) and does not go on after an error of the checker, since the emitter never sees such a body. The theorems hold for bodies of any size.
* `types_layout`: two structs give mutual containment, by value and through arrays; `MaxCalls = 3` lets the program start a completion, re-enter it from a
  hook, and use the type after a failure. The stack is not bounded: the calls are.
* `definitions_ready`: `MaxOps = 4` gives define, compile, a compilation from within it, redefine; two units are
  the least for code that differs between them. The theorems hold for any number of operations, functions and units.

* `parser_scopes`: four constructs (`Fuel`) give Terra in an escape in Terra with a local of the escape's, a language in a loop with an import, and a local function around a quote around an
  escape. Statements and expressions without a construct of their own are not counted. One name is enough: what happens to a name in `refvariable` does not
  depend on others. `MaxLevels = 9` is more than four constructs nest, less than the levels some chunks reach with plain expressions in between.

* `lex_output`: each family is a sequence of blocks with a few texts each: a construct that is replaced, what is in front of it and behind it on the same or another line, a token read ahead, and a
  construct inside. Places go stale only by a replacement in front, so two nested ones and one token read ahead are enough; two bytes of a break and brackets of level 0 and 1 are each kind that the lexer tells apart.
* `cconv`: on x86-64 six integer and eight floating registers; after <5, 0>, <4, 7> and <6, 6> scalars an aggregate fits, fits in one file only, or not at all, and the last parameter shows what it took. On PPC64 the
  count is of doublewords. Other targets have no counters and the prefix is empty. Aggregates cover each class, padding at the end and inside, an empty member, nesting, a union and more than two registers.
* `aggregate_copies`: six steps are a read, a write, a branch with a write, two stores and another; a hazard takes a read, one write and one store.
* `jit_names`: four operations are enough to compile, rename, drop and compile another of the same name; collection and `lua_close` are not counted. Functions are exported under the name of the external one, so that it finds them. Twelve addresses are one for each operation and value, which is what `MemoryAssumption` asks for: memory for code does not run out. The theorems have no bounds.
* `cimport`: three imports declare, define and use a type, or fail in between. `IntBits = 3`, `LongBits = 5`, `Mantissa = 3` keep the order of the widths (an enumeration constant is narrower than a literal, and a literal has more digits than a Lua number).

Symmetry is used for functions, units, languages and variables in runs that check only safety.

### Disagreements between the code and what it says

1. `lex_lookahead`: `luaX_lookahead` asserts that no token is read ahead yet (`llex.cpp` 737). A language's statement that ends with a look at the token after the current one leaves
   it there; a language that follows at once and looks ahead on its first token reads another, and without assertions the first is lost.
2. `cimport_nested`: `undefined` is reset before the fields of a C struct are read (`tcwrapper.cpp` 167), and reading them completes other structs. A nested struct that is held by one it points to
   is laid out from no fields.

More were met and have no run of their own:

Emission and definitions:

* A global is mapped after its initializer has been emitted, so a function that the initializer refers to and that uses the global creates a second one: earlier and later code
  use different storage, against `terralib.lua` 815. `OneGlobal` says that this happens only to a global whose own initializer leads back to it, and is checked and proved with it. Where there is no function on the way, emission does not end.
* Functions referred to by an initializer report their `lowlink` to a scratch state (`tcompiler.cpp` 2286): a cycle through an initializer
  is not seen, and a function is optimized before its callee has a body. `CalleesOptimized` is proved without such initializers, and checked with them where calls alone make every cycle.
* `readytocompile` does not follow initializers: functions in a table of functions are compiled and can still be redefined, or are emitted without a definition.
* `setinitializer` tests `readytocompile` before it type checks the initializer, so a callback can compile the global in between. A callback of `readytocompile` may redefine a function that was visited and is not marked yet.
* `undefined` of a Terra struct is reset before its entries are known; a use in between, or after they failed, sees an empty struct and caches it.

Statements:

* The checker enters a repeat loop and never leaves it, so a later `break` outside of any loop is accepted; and after the back edge of a repeat loop with defers the emitter goes on in the first block of the body, which may end twice. `EmittedWell` speaks of functions without repeat loops.
* `checkdeferredpassed` (`terralib.lua` 1942) compares scopes by their number of defers only: a goto into a sibling block that had deferred as many is accepted, and leaves the wrong calls. `JumpsUnwind`
  speaks of every accepted goto, between siblings too, that does not jump into a construct which had deferred something at the label.
* A break unwinds what its loop has deferred and goes to the merge block, where `T_repeatstat` unwinds the scope of the body again (`tcompiler.cpp` 3833-3835): calls deferred in a repeat loop's own scope run twice,
  and those deferred after the break run although they were never reached. `JumpsUnwind` says that this is so for repeat loops that defer themselves and for no other.

Parser and lexer:

* The count of levels is in `terra_State` and is not put back when a syntax error unwinds the parser; it grows with every chunk that fails, until all fail.
* The names of a `for ... in` loop and the parameters of a function are defined for the parser before the iterator and the return type are parsed, which
  the type checker evaluates outside of their scope: a Lua local of the same name in there is not captured. `MissedOnlyInHeaders` says that this is all that is ever missed.
* The word after the condition of a `repeat` loop is read before the loop's block is left; a language imported in the body that has this word as an entry
  point is gone when `languageextension` looks for it, and the error is one of Lua on a nil value. `StaleOnlyAfterUntil` says that it happens nowhere else.
* A language extension is kept out of Terra code by `check_no_terra` as a statement and not as an expression, where the check of the number of trees reports "unmatched return".
* `&T` or `A -> B` at the end of a line, when the next line starts with a parenthesis, gets its separator inside the generated call, which Lua does not load; after a quote the
  separator is lost, and Lua sees a call. `Separators` leaves these out.
* The buffer may have a separator with nothing behind it to separate for a while: code embedded in a language ends at a new statement, the language embeds more code at the same token, and what is
  replaced there removes the token but not the separator in front of it. The embedded text is loaded from behind the separator, and the language's call replaces it all in the end. So `Separators` speaks of what is loaded (`Loaded`).
* In `a - b -> c` the arrow is not replaced. `luaX_patchbegin` counts `\r\n` as two lines. Operands of `&` and `->` may come out on an earlier line.

Code:

* `MergeValuePPC64` (`tcompiler.cpp` 1271) takes one register from a vector of 16 bytes and leaves the rest to the next: a struct that holds one loses bytes 8 to 15 when it is passed on PPC64 or returned on AArch64.
* The JIT looks code up by the name a function has now, and `addvalue` renames whatever had the name it gives (`tcompiler.cpp` 3929, 3997): a function that was loaded and then renamed is loaded again, and
  its old name may be taken for another. `CodeIsOwn` says that, for functions that are not garbage, moved names are the only way to a wrong address.
* An external function is whatever has its C name in the module (`tcompiler.cpp` 2168): also an exported function that is garbage by now and not finalized yet, whose callees may have lost their bodies already.
* `saveobj` with one function under two names loses the first; exporting a function under the name of a C function it calls renames the declaration, which nothing then defines.
* `cu:saveobj` with optimization drops functions that nothing exported uses; values added later refer to them.
* With debug level above 1, names are looked up in the process, where those of several units are the same.

Import of C:

* A struct with a bit field or a field that is not understood has `undefined` reset and no entries, so Terra takes it for empty, where the comment at `tcwrapper.cpp` 85 says it is opaque; one that holds it by value has wrong offsets.
* A record without a tag and without a typedef of its own gets a new type at every mention.
* After an import that failed half way a nested outer struct stays empty, and the structs of the failed header stay in the target: a corrected header keeps the old layout.
* A header that defines a variable, or a function that is not inline, can be imported only once for a target: a variable without a storage class is a definition in the linked module even when C takes it for a tentative one, and
  linking the second one fails. `OnlyTheseFail` has it among the reasons for an import to fail.
* A struct that was used before it was defined makes the import that defines it fail, and can never be used.
* `int f(); int f(int);` keeps the type without parameters. Constants and macros with the top bit set come out negative, although `AddMacro` says it ignores what cannot be represented. An anonymous member is named `_0`, which another member may be. Variables of a type that is not understood vanish
  without a message.

## Fairness

Only the runs with liveness properties assume any.

* `CodeEmit!FairSpec`: weak fairness of the steps of an emission that change something. An emission is a C++ call that nothing interrupts, over bodies that are finite
  (a reference that has been met is not met for ever). `AddValue`, the program's choice, is not fair.
* `Jit!FairSpec`: weak fairness of the finalizers once `lua_close` has begun, which runs every one of them. Before that the collector owes nothing.
* `TypeCompletion!FairSpec`: weak fairness of the compiler's steps and of the end of each piece of the user's program. That user code
  returns or fails is assumed; that it calls again (`LuaCall`) is not, and is bounded.

## Proofs

All for every value of the constants, checked by TLAPS.

| Theorem | Module | Assumes |
|---|---|---|
| `TypeCorrect`: `Spec => []TypeOK` | `CodeEmit_proofs`, `Definitions_proofs` | - |
| `TypeCorrect`: `Spec => []TypeOK` | `Jit_proofs` | `MemoryAssumption` |
| `CalleesFirst`: `[]CalleesOptimized` | `CodeEmit_proofs` | `DataOnly` |
| `Complete`: `[]NothingLeftBehind` | `CodeEmit_proofs` | `DataOnly` |
| `OneStorage`: `[]OneGlobal` | `CodeEmit_proofs` | - |
| `OrderInvariant`: `[]OrderInv` | `CodeEmit_proofs` | `DataOnly` |
| `Refinement`: `ImplementsSccOrder` | `CodeEmit_proofs` | `DataOnly` |
| `WalksTogether`: `[]Jumps`, the invariant of both walks | `DeferScope_proofs` | - |
| `CheckerAndEmitterCountAlike`: `[]DepthsAgree` | `DeferScope_proofs` | - |
| `JumpsRunWhatWasDeferred`: `[]JumpsUnwind` | `DeferScope_proofs` | - |
| `NoDefersInConditions`: `ConditionsDoNotDefer` | `DeferScope_proofs` | - |
| `EveryBlockEndsOnce`: `[]EmittedWell` | `DeferScope_proofs` | - |
| `LayoutsAreFinite`: `[]LayoutsFinite` | `TypeCompletion_proofs` | - |
| `InitializersRunOnce`: `[]InitializedOnce` | `TypeCompletion_proofs` | - |
| `FailuresStay`: `FailedStaysFailed` | `TypeCompletion_proofs` | - |
| `ReadyIsClosed`: `[]ReadyClosed` | `Definitions_proofs` | `QuietHooks` |
| `NothingUndefined`, `NothingStale`: `[]EmittedDefined`, `[]CodeIsCurrent` | `Definitions_proofs` | `PlainInitializers`, `QuietHooks` |
| `HoldersCounted`: `[]CountsAreHolders`; `NothingUsedAfterFree` | `Jit_proofs` | - |
| `NamesAreKept`: `[]Exported` | `Jit_proofs` | - |
| `InfoHolds`: `[]InfoIsMapped` | `Jit_proofs` | `MemoryAssumption` |
| `AddressesAreOwn`: `CodeIsOwn` | `Jit_proofs` | `MemoryAssumption` |
| `WhatIsLeftFits`: `[]Inv`, the invariant of the parser | `ParserScopes_proofs` | - |
| `InTerraAgrees`: `[]InTerraIsTop` | `ParserScopes_proofs` | - |
| `EntryPointsAgree`: `[]EntryPointsMatch` | `ParserScopes_proofs` | - |
| `OnlyHeadersMiss`: `[]MissedOnlyInHeaders` | `ParserScopes_proofs` | - |
| `TablesHoldLocals`: `[]CapturedAreLocals` | `ParserScopes_proofs` | - |
| `StaleOnlyAfterLoops`: `StaleOnlyAfterUntil` | `ParserScopes_proofs` | - |
| `TokensStay`: `[]TokenInPlace` | `LexOutput_proofs` | - |
| `SeparatorsStand`: `[]Separators` | `LexOutput_proofs` | - |
| `PatchStops`: `[]TextToReplace` | `LexOutput_proofs` | - |
| `LinesStay`: `[]LinesKept` | `LexLines_proofs` | - |

`DataOnly` and `PlainInitializers` say that no initializer refers to a function, and `QuietHooks` that callbacks redefine none. They are needed: the disagreements above
are what happens without them.

**CodeEmit.** `CalleesOptimized` is not inductive: why a component that is closed has no callee outside of it depends on what Tarjan's algorithm
knows. `IInv` says it: functions on the Tarjan stack are the queue and are numbered in its order; the
emissions under way are a chain of increasing `index`; the `lowlink` of a
function is the index of some function on the stack and no greater than that of any function its met references lead to; whatever is finished and still on
the stack has a lower lowlink than its index. `OrderInv` adds reachability: the function a `lowlink` names
can be reached, and functions on the stack above one under emission are reached from it. With it a closed component is shown to be strongly
connected, which gives the refinement: `FinishScc` maps to `OptimizeScc`, everything else to a stutter. `Refinement` concerns
units that optimize; in others nothing is optimized and every step stutters. Reachability is stated with closed sets
(`\A S` that contains and is closed ...), so no induction over paths is needed. `OneGlobal` needs nothing of initializers. It
rests on `Globals`: each emission under way is for a reference of the one below it, so a value with two of them reaches itself (`FramesReach`); and a global that does not reach itself has been created once if it is mapped and not at all
if it is not, as while it is being emitted. `Reaches` is stated with closed sets too.

**DeferScope.** The properties compare the checker's counts of defers by scope with the emitter's stack of calls, and hold because the two are tied together at
every open construct and not only at the innermost one. `Jumps` says how. The calls that were deferred when a construct
was entered are a prefix of the stack, as long as the counts of the scopes around it say (`ScopesAgree`). What was deferred at a label is a prefix of what is deferred now in every
open construct that encloses it (`LabelBelow`); for a goto that waits for its label, what is deferred in an open construct that encloses it is a prefix of what was deferred at the goto, unless the
scope has grown since, which the checker sees (`GotoAbove`). Places in constructs that have been left do not change any more (`Passed`). `LoopsAgree` has the same for breaks.
`JumpsUnwind` compares these prefixes, and with `MergesAgree` what the merge block of a loop runs.
`EmittedWell` needs in addition what each basic block waits for (`Waiting`): it is a call on the stack, it will
continue an open construct, or it is a label that a goto has asked for. These are pairwise different (`Separate`); every other block but the current one has one terminator, and leaving a construct
releases exactly those it owns. Counts are sums over lists of any length, which lemmas about sums relate step by step (`SumExists`, `SumsAgree`).

**TypeCompletion.** `IInv` describes Lua's stack: which call may be above which (`Called`), how far each has come (`Progress`: the entries before the one being looked at
have a layout, the members before it are complete), that a call which computes a property has its flag set (`Marked`), and that no type has two calls that compute the same property or
complete its members (`Exclusive`), which the flags ensure. `LayoutsFinite` follows: a layout is set by a call whose entries all have one by then, and what is there stays. For `InitializedOnce`
a type whose initializer has run is not among the types whose members are being completed (`InitializedSound`).
`FailedStaysFailed` is an action property: only a call on the stack sets the value of a property, so with the flag set and no such call nothing does.

**Definitions.** The invariant about checks under way (`Sound`): what has been visited is defined, and all it uses is visited, to be
visited or marked, except for the one whose type is being completed. It survives nested checks, because marks only
grow, and errors, because unwinding only removes frames. When nothing is left to visit it says that the visited set is closed, so `ReadyClosed` holds of the new marks; what
initializers use does not matter for this (`Checks`). The emitter
then stays within marked functions and globals (`ReachedReady`), which gives the other two: what it emits is defined, and what it has
emitted is marked and cannot be redefined.

**Jit.** Counts are increased by the number of new states with a destructor and decreased one by one, so the invariant needs that a state is not counted twice: a state that will be
finalized is of a value the unit has mapped (`StatesOK`), and what is mapped is not created again. Units that do not exist yet have none, so a new one starts from zero. Target and compiler state are counted by
the units that are alive, whose number changes only when a unit is made or its last user goes (`Freed`). The names and the code of units play no part in the counts. `NothingUsedAfterFree` is a
consequence that no run states: whatever still has a destructor finds its unit, the target and the compiler state.
`Exported` is a consequence of `ModulesOK`: what has been asked for is exported, and has its name unless something else has been asked for under the name or by another one (`AskedOK`); what a unit has
mapped is in its module (`FuncOK`), so a value that is added again is renamed and not lost. What linking of C code, the collector and the optimizer remove from a module is not exported.
`InfoIsMapped` says that what the table of addresses says is code is mapped. Its invariant (`CodeOK`) says of each unit that its addresses are in the table as its own, so no two units share one. New code is put at free addresses, which are those where no living unit has loaded anything; the table mirrors what is loaded, so it takes no entry of another unit's,
and a unit that is freed takes its entries with it. That there are enough free addresses for what is put at them is an argument of its own: each operation still to come has an address for every value kept for it, since no operation loads a value twice.
Types and addresses rest on `NamesOK`, which has three parts for each unit. The names in a module are pairwise different (`NameOK`): `createfunction` and `addvalue` count up until a name is free, and there are more numbers than values (`FreeNumbers`), so they find one.
What a unit has mapped has what it calls mapped with it (`LinkOK`), because everything a value reaches is emitted before it: `Reached` is an iteration that must stop after as many steps as there are values (`Saturates`). And what is mapped and is not garbage is in the
module, with a body if it is a Terra function (`LiveOK`), so what is emitted next has no name yet. Loaded code is a component of the module that is closed except for declarations, so when it is loaded each call it makes is to code of the same unit or to a declaration. A link goes by name: names are pairwise different, so
what it finds is the value's own code, or the C function, unless a name was moved, which is the exception that `CodeIsOwn` states.

**ParserScopes.** Why `in_terra` is right in a state depends on what will be done later: an escape puts its old value on the stack of the descent and the end of the escape puts it back.
A *shape* is what the argument needs of the state: which open blocks are Terra, `in_terra`, and which blocks belong to constructs. A shape is good if `in_terra` is positive exactly when the
innermost block is Terra, and every step from a Lua block to a Terra block is at the block of a construct, so that there are at least as many constructs as boundaries, which is what `refvariable` asserts. `Takes` says what each operation does to shapes, and `Inv` that all of
`todo`, one after the other, can be done from the current shape. Each rule of the grammar leaves the shape as it found it, and this is proved once for each rule; errors start again from an empty shape.
The captures need more: `refvariable` moves out one construct for each boundary it passes, which is right only if every construct is a boundary. It is not when a language extension is an expression in Terra code: its construct begins
inside of Terra. The code does not refuse that at once but after the extension, in `RETURNS_1`. So a shape says whether all is still `ok`: if so, the construct's blocks are exactly the boundaries (`Good`), and what is left
runs to the end of the chunk; if not, what is left comes to a `RETURNS_1` in Terra, which ends the parse (`Dead`), so a chunk that has been parsed was `ok`. While it is, the construct the walk ends at is the outermost one opened above the
block of the name (`CrossedIs`, a count), and between the two there is no Terra block, which would have begun with a construct of its own (`CapturedBelow`). `Clean` keeps this for the open constructs, since blocks below an open
construct do not change, and for those that have been closed.
`EntryPointsMatch` is about text that a block's end removes: languages whose blocks are open have disjoint entry points (`Matches`), because `importlanguage` refuses what is taken, so taking out the last ones cannot
take a word from another; and the counts in the blocks add up to the number of languages (`LangInv`).
`StaleOnlyAfterUntil` depends, like `in_terra`, on what will be done later: that the block of an import is left right after its list of statements has ended. A *reading* says of each open block whether it is Terra, a Lua block that a list of statements
ends or a Lua block of one expression, and whether such a list has just ended (`plain`). `ReadInv` says that all of `todo` can be done from the current reading, which `ReadOn` states as `Takes` does for shapes, again with one lemma for each rule. Imports are in blocks with a list of
statements only (`Fits`), a list ends only at a plain token, and what leaves such a block either stands right behind the list or is the end of a repeat loop (`ReadsTo`). So where a block is left otherwise, the token is plain or nothing was imported in it (`LeavingReads`).

**LexOutput.** A token is noted with a place in the buffer and a place in the text. It is *in place* (`InPlace`, `Held`) if both are equally far from the ends and the cells from there on are what was read.
Reading a character keeps that, and so does a replacement that ends before the token. The invariant says that the current token, the one read ahead and the one being read are in place and behind one another (`TokensOK`, `LxOK`), and that
every operation left to do that has kept a token has one no later than the current one, and an outer call one no later than an inner one (`TodoOK`). So when an operation replaces what is between its token and the current one,
nothing that is still referred to is touched except what begins where the replacement does. Two cases are special: at the end of the text no character begins the token, and what is noted for it is the place of the last one, which may have been replaced: `Reading` is not
required there; and before the first token is read there is none to keep (`EarlyOK`).
`Separators` needs more of the same state (`SInv`), in five parts. Between the place an operation remembers and the current token there is something that is not white, unless nothing has been consumed since (`GapsOK`, which rests on
`SeenOK`: the lexer consumes such a character for every token). So `luaX_patchbegin` stops in front of the token (`PatchStops`), and a replacement leaves no separator right in front of it. `ShapeOK` says which operation may follow which on the stack: behind one that
leaves the current token alone there is never a `suffix`, which would see the same new statement again and write a second separator, and the only operation that can start something at a token with a separator in front is a
language. `BufOK` is about the cells: what is in front of the current token was read before it or copied, tokens that began a new statement are still the ones they were, and the buffer does not end in a separator. `StackOK` says of every separator that it is fine or *excused*:
there is a language under way that began in front of it and will replace it (`Excused`), and no code that is being embedded in that language has it in its text. Every step of the parser is one of four kinds (`StepKinds`): it puts operations on
the stack (`Pushed`), gives up or ends (`Stopped`), replaces (`Writing`) or inserts a separator (`Splits`). Each kind keeps the invariant, and each rule of the grammar is shown to be of one of them.
`LinesKept` rests on both and on more state (`PInv`). Lua's rule for lines is a recursion; the proofs use it as a function of how far one has read (`Num`), which agrees with it at both ends of a line break. `LinesOK` says that `llex`'s count is
the line of what it is done with (a break of two characters is counted when both are read) and that each token notes the line its text begins on. The rest is about source without `\r` (`Plain`), where the newlines of a piece of text are a number
and numbers of pieces add up: `CellsLined` says that every cell is on its line, copied ones no later, and `MarksLined` that the tokens that operations keep note the line of their place in the buffer. `HoldsOK` says that the text `->` has
kept and the operands of `&` are still in the buffer where they were read, in front of what operations above them can replace. A replacement (`Rewrites`) whose text stays `Within` the newlines it replaces and is padded by
`luaX_patchend` leaves the lines of all that is behind it as they were (`PatchLines`).

**Model-checked only.** Termination (`EmissionEnds`, `Returns`, `AllDeleted`) is liveness, which TLAPS does not prove. `CImport` has recursive operators (C types are trees), with which the prover loses its arithmetic. Not yet
proved: `CallConv` and `AggregateCopy`, whose properties compare what two recursive functions compute for every type. Induction over numbers is available with a set in the place of the predicate
(`Induction`, from the library's theorems about well-founded relations), and with it what sums and iterates are; each module that needs it has it at its head.

## What is not modelled

* Translation of expressions other than calls, loads and stores of aggregates; debug information: functions of a tree.
* Groups of functions, C names of types, overloads and memoized types (see the plan).
* Calls: varargs, structs with vectors on x86-64, partial overlap of a union's members, targets of 32 bits; arrays returned on amdgpu, where the compiler stops, and there a result whose first element is an empty struct.
* Lexer: number suffixes, escapes' values, what depends on `in_terra`, the text of an `import` statement. Parser: the priorities of operators, the trees it builds.
* A language that catches the error of code it asked the parser for, and goes on; it would do so with the blocks of the aborted code open.
* JIT: globals, the optimizer's passes and inlining, calls among linked C functions. A dropped value does not come back, and a unit is not used after it was freed, which is the caller's error.
* Statements: `switch`, and the else branch of `if`, whose bodies are scopes like those of the constructs that are.
* Import of C: initializers of variables, assembler names of variables, `-fcommon`; records of one name that differ between headers, records declared in prototypes, the positions of arguments in the liveness function, the set-up of Clang's driver and its include paths.
* Debugging, CUDA, object files and external linkers, the command line: platform and I/O.
* `std.t`, `parsing.t` and the build tools.

## Plan

The order is by how much of the compiler depends on a part, and how hard it is to test.

1. *Done*: `CodeEmit`, `SccOrder`, `DeferScope`, `TypeCompletion`, `Definitions`, `ParserScopes`; then `LLVMTypes`, `CallConv`, `AggregateCopy`, `Jit`, `Lexer`, `LexOutput`, `CImport`; their runs, the proofs above.
2. `FunctionGroup`: `defineobjects` and `createfunctionreference`, with errors half way. A function is checked at most once; no placeholder type remains in a defined function; a failed group leaves no function half defined.
3. `CStrings`: declarations to the FFI while types refer to one another by value and by pointer; no struct is used by value before its C definition.
4. `Casts`: overload resolution with speculative casts, and the meet of operand types as operators against a reference definition.
5. `TypeNames`: `memoizefunction` under re-entrancy and `uniquenameset`.

Where modules share state, later runs compose them (`Definitions` with `CodeEmit`: the two-step emission instead of `Emit`).
`Definitions!Emit` is the abstract form of `CodeEmit`; that it is what the emitter does, is the refinement worth stating next.

Theorems worth proving next: `AggregateCopy`'s `CopiesAgree`; that `Definitions!Emit` is what `CodeEmit` does; the safety of points 2 to 5.
