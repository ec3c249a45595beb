------------------------------- MODULE CallConv -------------------------------
(***************************************************************************)
(* How a Terra function is called: struct CCallingConv of tcompiler.cpp.   *)
(* LLVM passes scalars as the target's C does, and leaves aggregates to    *)
(* the front end.  CCallingConv decides for the return value and each      *)
(* parameter whether it is passed as it is, in memory or taken apart into  *)
(* registers (Classify), builds LLVM's function type from that, and emits  *)
(* the code that takes arguments apart in the caller and puts them back    *)
(* together in the callee.  One behaviour is one signature on one target:  *)
(* classified, called, entered and returned from.                          *)
(*                                                                         *)
(* A value is its bytes.  A byte is the tag <<i, k>>, byte k of parameter  *)
(* i (of the result when i = 0), or undef: padding, memory nobody wrote;  *)
(* beyond is what a read past the end of an allocation gives.              *)
(***************************************************************************)
EXTENDS LLVMTypes

CONSTANTS
  Targets,       \* x86_64, windows, aarch64, ppc64, amdgpu, spirv, wasm
  Returns(_),    \* the return types tried on a target
  Signatures(_)  \* sequences of the sets of types parameters are taken from

VARIABLES
  target,        \* the architecture and system of the target machine
  phase,         \* "return", "params", "enter", "exit", "done"
  signature,     \* what the parameters still to come are taken from
  returntype,    \* Classification: the Argument of the result
  paramtypes,    \* Classification: the Arguments of the parameters
  usedfloat, usedint,   \* registers Classify has counted
  arguments,     \* what the call passes
  variables,     \* what the callee finds in its parameters' variables
  result         \* what the caller gets back

vars == <<target, phase, signature, returntype, paramtypes, usedfloat, usedint,
          arguments, variables, result>>

-----------------------------------------------------------------------------
(* The target, as the constructor reads it.                                *)

x86_64_sysv_cconv == target = "x86_64"
win_cconv == target = "windows"
aarch64_cconv == target = "aarch64"
ppc64_cconv == target = "ppc64"
amdgpu_cconv == target = "amdgpu"
spirv_cconv == target = "spirv"
wasm_cconv == target = "wasm"
return_empty_struct_as_void == target \in {"amdgpu", "spirv", "windows"}
ppc64_float_limit == IF aarch64_cconv THEN 4 ELSE 8
ppc64_int_limit == IF aarch64_cconv THEN 2 ELSE 8
ppc64_count_used == ppc64_cconv

-----------------------------------------------------------------------------
(* Classification of one argument.                                         *)

Argument(kind, type, cctype) == [kind |-> kind, type |-> type, cctype |-> cctype]
Mem(t) == Argument("C_AGGREGATE_MEM", t, t)
Reg(t, elements) == Argument("C_AGGREGATE_REG", t, StructType(elements))

NO_CLASS == 0
SSE_FLOAT == 1
SSE_DOUBLE == 2
INTEGER == 3
MEMORY == 4

ClassOf(f) == CASE f.cls = "vector" -> MEMORY
                [] f.cls = "float" -> SSE_FLOAT
                [] f.cls = "double" -> SSE_DOUBLE
                [] f.cls = "int" -> INTEGER

\* The class of an eightbyte: Meet is the larger of two classes.
MergeValue(t, entry) ==
  Max({NO_CLASS} \union {ClassOf(f) : f \in {g \in t.fields : g.off \div 8 = entry}})

Float == ScalarOf("float", 4, 4)
Double == ScalarOf("double", 8, 8)

\* No case for a class the code asserts cannot come up.
TypeForClass(size, clz) ==
  CASE win_cconv \/ clz = INTEGER -> IntN(8 * size)
    [] ~win_cconv /\ clz \in {SSE_FLOAT, SSE_DOUBLE} /\ size = 4 -> Float
    [] ~win_cconv /\ clz = SSE_DOUBLE /\ size = 8 -> Double
    [] ~win_cconv /\ clz = SSE_FLOAT /\ size = 8 -> VectorType(Float, 2)

ValidAggregateSize(sz) == IF win_cconv THEN sz \in {1, 2, 4, 8} ELSE sz <= 16

WasmPrimitiveCount(t) ==
  FoldLeft(LAMBDA n, p : n + (IF p.cls = "array" THEN 2 ELSE 1), 0, t.parts)

\* A classified argument and the registers counted so far with it.
Counted(arg, float, int) == [arg |-> arg, float |-> float, int |-> int]

\* One register after the other, each of 64 bits.
MergeValuePPC64(t) ==
  FoldLeft(LAMBDA acc, l :
             LET bits == AlignUp(acc.bits + 8 * l.size, 8 * l.align)
             IN  IF bits >= 64
                 THEN [elements |-> Append(acc.elements, IntN(64)), bits |-> bits - 64]
                 ELSE [acc EXCEPT !.bits = bits],
           [elements |-> <<>>, bits |-> 0], t.leaves)

ClassifyAggPPC64(t, float, int, isreturn) ==
  LET n == Len(t.leaves)
      align == Max({0} \union {8 * t.leaves[i].align : i \in 1..n})
      all(cls) == n \in 1..ppc64_float_limit /\ \A i \in 1..n : t.leaves[i].cls = cls
      elt == IF all("float") THEN Float ELSE Double
      sz == (t.size + 7) \div 8
      fits == (IF ppc64_count_used THEN int ELSE 0) + sz
                <= (IF isreturn THEN 2 ELSE ppc64_int_limit)
      regbits == IF align > 64 THEN 128 ELSE 64
      nregs == AlignUp(8 * t.size, regbits) \div regbits
      packed == MergeValuePPC64(t)
  IN  CASE all("float") \/ all("double") ->
             Counted(IF n = 1 THEN Reg(t, <<elt>>)
                     ELSE Argument("C_ARRAY_REG", t, ArrayType(elt, n)), float, int + n)
        [] OTHER ->
             IF ~fits THEN Counted(Mem(t), float, int)
             ELSE Counted(
               CASE aarch64_cconv /\ ~isreturn ->
                      IF nregs > 1
                      THEN Argument("C_ARRAY_REG", t, ArrayType(IntN(regbits), nregs))
                      ELSE Reg(t, [i \in 1..nregs |-> IntN(regbits)])
                 [] OTHER ->
                      Reg(t, packed.elements \o
                             (IF packed.bits > 0
                              THEN <<IntN(AlignUp(packed.bits, align))>> ELSE <<>>)),
               float, int + sz)

\* The sizes of the registers a small aggregate is divided into.
Eightbytes(sz) == SelectSeq(<<Min({sz, 8}), sz - 8>>, LAMBDA s : s > 0)

FreeFloat(float) == Max({0, 8 - float})
FreeInt(int) == Max({0, 6 - int})

(* Mutant of Fits: an aggregate may have what is left of either file.      *)
FitsEither(float, int, nfloat, nint) ==
  (nfloat > 0 /\ nfloat <= FreeFloat(float)) \/ (nint > 0 /\ nint <= FreeInt(int))

Fits(float, int, nfloat, nint) == nfloat <= FreeFloat(float) /\ nint <= FreeInt(int)

ClassifyAggX86(t, float, int, isreturn) ==
  LET sz == t.size
      sizes == Eightbytes(sz)
      classes == <<MergeValue(t, 0), MergeValue(t, 1)>>
      count(S) == Cardinality({i \in 1..2 : classes[i] \in S})
      nfloat == count({SSE_FLOAT, SSE_DOUBLE})
      nint == count({INTEGER})
      coerced == x86_64_sysv_cconv /\ FreeInt(int) = 0 /\ sz <= 8 /\ t.align <= 8
  IN  CASE ~ValidAggregateSize(sz) -> Counted(Mem(t), float, int)
        [] ValidAggregateSize(sz) /\ MEMORY \in Range(classes) -> Counted(Mem(t), float, int)
        [] OTHER ->
             IF ~isreturn /\ ~Fits(float, int, nfloat, nint) /\ (x86_64_sysv_cconv \/ sz > 8)
             THEN Counted(IF coerced THEN Reg(t, <<TypeForClass(sz, INTEGER)>>) ELSE Mem(t),
                          float, int)
             ELSE Counted(Reg(t, [i \in DOMAIN sizes |-> TypeForClass(sizes[i], classes[i])]),
                          float + nfloat, int + nint)

ClassifyArgument(t, float, int, isreturn) ==
  CASE ~IsAggregate(t) ->
         LET arg == Argument("C_PRIMITIVE", t,
                             IF t.logical /\ t.kind # "vector" THEN Int1 ELSE t)
         IN  IF IsFloating(t) \/ t.kind = "vector" THEN Counted(arg, float + 1, int)
             ELSE Counted(arg, float, int + 1)
    [] IsAggregate(t) /\ ((wasm_cconv /\ WasmPrimitiveCount(t) > 1) \/ spirv_cconv) ->
         Counted(Mem(t), float, int)
    [] IsAggregate(t) /\ amdgpu_cconv -> Counted(Argument("C_AGGREGATE_REG", t, t), float, int)
    [] IsAggregate(t) /\ (aarch64_cconv \/ ppc64_cconv) ->
         ClassifyAggPPC64(t, float, int, isreturn)
    [] OTHER -> ClassifyAggX86(t, float, int, isreturn)

-----------------------------------------------------------------------------
(* LLVM's function type and the attributes of its parameters.              *)

sret == returntype.kind = "C_AGGREGATE_MEM"

(* Mutant of NumberOfTypesInParamList: one argument for each parameter.    *)
OneTypeInParamList(a) == 1

NumberOfTypesInParamList(a) == IF a.kind = "C_AGGREGATE_REG" THEN Len(a.cctype.parts) ELSE 1

\* What one Terra parameter is among LLVM's parameters.
LLVMParams(i) ==
  LET a == paramtypes[i]
  IN  IF a.kind = "C_AGGREGATE_MEM" THEN <<[param |-> i, cls |-> "ptr", size |-> 8]>>
      ELSE [j \in DOMAIN a.cctype.parts |->
              [param |-> i, cls |-> a.cctype.parts[j].cls, size |-> a.cctype.parts[j].size]]

FunctionType ==
  (IF sret THEN <<[param |-> 0, cls |-> "ptr", size |-> 8]>> ELSE <<>>)
    \o FlattenSeq([i \in DOMAIN paramtypes |-> LLVMParams(i)])

NeedsExt(t) == t.kind = "primitive" /\ t.leaves[1].cls = "int" /\ t.size < 4
Ext(t) == IF t.signed THEN "sext" ELSE "zext"

\* The place of a Terra parameter as AttributeFnOrCall counts it.
ArgIdx[i \in Nat] ==
  IF i = 0 THEN 0
  ELSE IF i = 1 THEN (IF sret THEN 2 ELSE 1)
  ELSE ArgIdx[i - 1] + NumberOfTypesInParamList(paramtypes[i - 1])

AttributeFnOrCall ==
  (IF NeedsExt(returntype.type) /\ ~aarch64_cconv THEN {<<0, Ext(returntype.type)>>} ELSE {})
    \union (IF sret THEN {<<1, "sret">>} ELSE {})
    \union {<<ArgIdx[i], IF aarch64_cconv THEN "noundef" ELSE "byval">> :
              i \in {j \in DOMAIN paramtypes :
                       paramtypes[j].kind = "C_AGGREGATE_MEM" /\ ~win_cconv}}
    \union {<<ArgIdx[i], Ext(paramtypes[i].type)>> :
              i \in {j \in DOMAIN paramtypes : NeedsExt(paramtypes[j].type)}}

-----------------------------------------------------------------------------
(* Memory.  A write past the end makes the allocation longer than it is.   *)

undef == <<-1, 0>>
beyond == <<-2, 0>>

Undefined(n) == [k \in 0..(n - 1) |-> undef]
Read(buf, off, n) ==
  [k \in 0..(n - 1) |-> IF off + k \in DOMAIN buf THEN buf[off + k] ELSE beyond]
Write(buf, off, v) ==
  [k \in DOMAIN buf \union {off + j : j \in DOMAIN v} |->
     IF k - off \in DOMAIN v THEN v[k - off] ELSE buf[k]]

\* The value of parameter i, or of the result.
ValueOf(i, t) == [k \in 0..(t.size - 1) |-> IF k \in DataBytes(t) THEN <<i, k>> ELSE undef]

(* Mutant of IsCoercionPadded: the ABI form is taken to fit the type.      *)
NeverPadded(a) == FALSE

IsCoercionPadded(a) == a.cctype.size > a.type.size
CoercionAlloca(a) == Undefined(IF IsCoercionPadded(a) THEN a.cctype.size ELSE a.type.size)

\* A copy of an aggregate of type t (emitStoreAgg).
StoreAgg(t, src, dst) == Write(dst, 0, Read(src, 0, t.size))

-----------------------------------------------------------------------------
(* The code emitted in the caller and in the callee.                       *)

EmitCallArgument(i) ==
  LET a == paramtypes[i]
      actual == ValueOf(i, a.type)
      scratch == StoreAgg(a.type, actual, CoercionAlloca(a))
  IN  CASE a.kind = "C_PRIMITIVE" -> <<actual>>
        [] a.kind = "C_AGGREGATE_MEM" -> <<StoreAgg(a.type, actual, Undefined(a.type.size))>>
        [] a.kind \in {"C_AGGREGATE_REG", "C_ARRAY_REG"} ->
             [j \in DOMAIN a.cctype.parts |->
                Read(scratch, a.cctype.parts[j].off, a.cctype.parts[j].size)]

EmitCall ==
  (IF sret THEN <<Undefined(returntype.type.size)>> ELSE <<>>)
    \o FlattenSeq([i \in DOMAIN paramtypes |-> EmitCallArgument(i)])

\* The variable of a parameter whose first LLVM argument is at ai.
EntryAggReg(a, ai, dest) ==
  FoldLeft(LAMBDA d, j : Write(d, a.cctype.parts[j].off, arguments[ai + j - 1]),
           dest, [j \in DOMAIN a.cctype.parts |-> j])

EntryVariable(a, ai) ==
  LET var == Undefined(a.type.size)
  IN  CASE a.kind = "C_PRIMITIVE" -> Write(var, 0, arguments[ai])
        [] a.kind = "C_AGGREGATE_MEM" -> StoreAgg(a.type, arguments[ai], var)
        [] a.kind = "C_AGGREGATE_REG" ->
             IF IsCoercionPadded(a)
             THEN StoreAgg(a.type, EntryAggReg(a, ai, Undefined(a.cctype.size)), var)
             ELSE EntryAggReg(a, ai, var)
        [] a.kind = "C_ARRAY_REG" ->
             StoreAgg(a.type, StoreAgg(a.cctype, arguments[ai], CoercionAlloca(a)), var)

\* The iterator over LLVM's arguments moves past what a parameter took.
EmitEntry ==
  FoldLeft(LAMBDA acc, a :
             [ai |-> acc.ai + (IF a.kind = "C_AGGREGATE_REG"
                               THEN Len(a.cctype.parts) ELSE 1),
              variables |-> Append(acc.variables, EntryVariable(a, acc.ai))],
           [ai |-> IF sret THEN 2 ELSE 1, variables |-> <<>>], paramtypes).variables

\* The parts of the result in registers.  The type of a result that is one
\* scalar is found by opening the first element again and again, its place too.
ReturnParts(a) ==
  IF Len(a.cctype.parts) = 1 THEN <<[a.cctype.parts[1] EXCEPT !.off = 0]>>
  ELSE a.cctype.parts

EmitReturn ==
  LET a == returntype
      value == ValueOf(0, a.type)
      dest == CASE a.kind = "C_AGGREGATE_REG" -> StoreAgg(a.type, value, CoercionAlloca(a))
                [] a.kind = "C_ARRAY_REG" -> StoreAgg(a.type, value, Undefined(a.type.size))
                [] OTHER -> value
  IN  [j \in DOMAIN ReturnParts(a) |->
         Read(dest, ReturnParts(a)[j].off, ReturnParts(a)[j].size)]

\* What the caller makes of them.
Unstage(returned) ==
  LET a == returntype
      parts == ReturnParts(a)
      store(aggregate) == FoldLeft(LAMBDA d, j : Write(d, parts[j].off, returned[j]),
                                   aggregate, [j \in DOMAIN parts |-> j])
  IN  CASE a.kind = "C_PRIMITIVE" -> returned[1]
        [] a.kind = "C_AGGREGATE_REG" -> Read(store(CoercionAlloca(a)), 0, a.type.size)
        [] a.kind = "C_ARRAY_REG" -> store(Undefined(a.type.size))
        [] a.kind = "C_AGGREGATE_MEM" ->
             StoreAgg(a.type, ValueOf(0, a.type), arguments[1])

-----------------------------------------------------------------------------
Init ==
  /\ target \in Targets
  /\ phase = "return"
  /\ signature \in Signatures(target)
  /\ returntype = Mem(Unit)
  /\ paramtypes = <<>>
  /\ usedfloat = 0 /\ usedint = 0
  /\ arguments = <<>> /\ variables = <<>> /\ result = <<>>

ClassifyReturn ==
  /\ phase = "return"
  /\ phase' = "params"
  /\ \E t \in Returns(target) :
       returntype' = IF t.unit /\ return_empty_struct_as_void
                     THEN Reg(t, <<>>)
                     ELSE ClassifyArgument(t, 0, 0, TRUE).arg
  /\ usedint' = IF returntype'.kind = "C_AGGREGATE_MEM" THEN 1 ELSE 0
  /\ UNCHANGED <<target, signature, paramtypes, usedfloat, arguments, variables, result>>

ClassifyParam ==
  /\ phase = "params" /\ signature # <<>>
  /\ \E t \in Head(signature) :
       LET c == ClassifyArgument(t, usedfloat, usedint, FALSE)
       IN  /\ paramtypes' = Append(paramtypes, c.arg)
           /\ usedfloat' = c.float
           /\ usedint' = c.int
  /\ signature' = Tail(signature)
  /\ UNCHANGED <<target, phase, returntype, arguments, variables, result>>

Call ==
  /\ phase = "params" /\ signature = <<>>
  /\ phase' = "enter"
  /\ arguments' = EmitCall
  /\ UNCHANGED <<target, signature, returntype, paramtypes, usedfloat, usedint,
                 variables, result>>

Enter ==
  /\ phase = "enter"
  /\ phase' = "exit"
  /\ variables' = EmitEntry
  /\ UNCHANGED <<target, signature, returntype, paramtypes, usedfloat, usedint,
                 arguments, result>>

Exit ==
  /\ phase = "exit"
  /\ phase' = "done"
  /\ result' = Unstage(EmitReturn)
  /\ UNCHANGED <<target, signature, returntype, paramtypes, usedfloat, usedint,
                 arguments, variables>>

Next == ClassifyReturn \/ ClassifyParam \/ Call \/ Enter \/ Exit
Spec == Init /\ [][Next]_vars

-----------------------------------------------------------------------------
(* What LLVM does with the arguments on x86-64 under System V: integers    *)
(* and pointers to rdi..r9, floating point and vectors to xmm0..xmm7, the  *)
(* rest to the stack in order; a byval argument is its bytes there.        *)

Take(acc, file, limit, size, bytes) ==
  LET at(base) == {<<bytes[k], Append(base, k)>> : k \in DOMAIN bytes}
      off == AlignUp(acc.stack, IF size > 8 THEN 16 ELSE 8)
  IN  IF acc[file] < limit
      THEN [acc EXCEPT ![file] = @ + 1, !.places = @ \union at(<<file, acc[file]>>)]
      ELSE [acc EXCEPT !.stack = AlignUp(off + size, 8),
                       !.places = @ \union at(<<"stack", off>>)]

ToStack(acc, t, bytes) ==
  LET off == AlignUp(acc.stack, Max({8, t.align}))
  IN  [acc EXCEPT !.stack = AlignUp(off + t.size, 8),
                  !.places = @ \union {<<bytes[k], <<"stack", off, k>>>> : k \in DOMAIN bytes}]

Empty == [gpr |-> 0, sse |-> 0, stack |-> 0, places |-> {}]
Defined(places) == {p \in places : p[1] # undef}

PlacedByLLVM ==
  LET step(acc, j) ==
        LET p == FunctionType[j]
        IN  CASE <<j, "byval">> \in AttributeFnOrCall ->
                   ToStack(acc, paramtypes[p.param].type, arguments[j])
              [] <<j, "sret">> \in AttributeFnOrCall -> Take(acc, "gpr", 6, 8, <<>>)
              [] p.cls \in {"float", "double", "vector"} ->
                   Take(acc, "sse", 8, p.size, arguments[j])
              [] p.cls \in {"int", "i1"} -> Take(acc, "gpr", 6, 8, arguments[j])
  IN  Defined(FoldLeft(step, Empty, [j \in DOMAIN FunctionType |-> j]).places)

-----------------------------------------------------------------------------
(* The System V ABI itself, on the types of C.                             *)

\* The kind of register eightbyte e of a type wants.
Wants(t, e) ==
  LET inside == {f \in t.fields : f.off \div 8 = e}
  IN  CASE inside = {} -> "none"
        [] \E f \in inside : f.cls = "int" -> "gpr"
        [] OTHER -> "sse"

ByAbi(acc, i, t) ==
  LET value == ValueOf(i, t)
      eightbytes == [e \in 1..((t.size + 7) \div 8) |-> e - 1]
      want(file) == Cardinality({e \in Range(eightbytes) : Wants(t, e) = file})
      piece(e) == LET n == Min({8, t.size - 8 * e})
                  IN  IF t.kind = "vector" THEN value ELSE Read(value, 8 * e, n)
      take(a, e) == IF Wants(t, e) = "none" THEN a
                    ELSE Take(a, Wants(t, e), IF Wants(t, e) = "gpr" THEN 6 ELSE 8,
                              IF t.kind = "vector" THEN t.size ELSE 8, piece(e))
  IN  CASE t.kind = "vector" -> take(acc, 0)
        [] t.kind = "primitive" -> take(acc, 0)
        [] OTHER ->
             IF t.size <= 16 /\ acc.gpr + want("gpr") <= 6 /\ acc.sse + want("sse") <= 8
             THEN FoldLeft(take, acc, eightbytes)
             ELSE ToStack(acc, t, value)

HiddenResult(t) == IsAggregate(t) /\ t.size > 16

PlacedByAbi ==
  LET start == IF HiddenResult(returntype.type) THEN [Empty EXCEPT !.gpr = 1] ELSE Empty
  IN  Defined(FoldLeft(LAMBDA acc, i : ByAbi(acc, i, paramtypes[i].type), start,
                       [i \in DOMAIN paramtypes |-> i]).places)

ReturnedByLLVM ==
  LET step(acc, j) ==
        LET p == ReturnParts(returntype)[j]
        IN  Take(acc, IF p.cls \in {"float", "double", "vector"} THEN "sse" ELSE "gpr",
                 8, 8, EmitReturn[j])
  IN  IF sret THEN {"memory"}
      ELSE Defined(FoldLeft(step, Empty, [j \in DOMAIN ReturnParts(returntype) |-> j]).places)

ReturnedByAbi ==
  IF HiddenResult(returntype.type) THEN {"memory"}
  ELSE Defined(ByAbi(Empty, 0, returntype.type).places)

-----------------------------------------------------------------------------
(* Every byte of an argument that means something is in the callee's       *)
(* variable, and every byte of the result in the caller's, on every        *)
(* target: taking apart, padding and putting together lose nothing, and    *)
(* nothing is read or written past the end of an allocation                *)
(* (EmitCall, EmitEntry, EmitReturn).                                      *)
Arrived(buf, i, t) ==
  /\ DOMAIN buf = 0..(t.size - 1)
  /\ \A k \in DataBytes(t) : k \in DOMAIN buf /\ buf[k] = <<i, k>>
Delivered ==
  /\ \A j \in DOMAIN arguments : beyond \notin Range(arguments[j])
  /\ phase \in {"exit", "done"} =>
       \A i \in DOMAIN paramtypes : Arrived(variables[i], i, paramtypes[i].type)
  /\ phase = "done" => Arrived(result, 0, returntype.type)

(* The arguments a call passes are the parameters of the function type,    *)
(* and attributes are on the parameters they are meant for: a byval on     *)
(* the pointer of an aggregate, an extension on the small integer itself.  *)
(* Three walks count LLVM's parameters on their own (CreateFunctionType,   *)
(* EmitCall, AttributeFnOrCall).                                           *)
AttributesLand ==
  phase = "enter" =>
    /\ Len(arguments) = Len(FunctionType)
    /\ {a \in AttributeFnOrCall : a[1] > 0} =
         {<<j, "sret">> : j \in {k \in DOMAIN FunctionType : FunctionType[k].param = 0}}
           \union
         {<<j, IF aarch64_cconv THEN "noundef" ELSE "byval">> :
            j \in {k \in DOMAIN FunctionType :
                     FunctionType[k].cls = "ptr" /\ FunctionType[k].param # 0 /\ ~win_cconv}}
           \union
         {<<j, Ext(paramtypes[FunctionType[j].param].type)>> :
            j \in {k \in DOMAIN FunctionType :
                     FunctionType[k].param # 0
                       /\ NeedsExt(paramtypes[FunctionType[k].param].type)}}

(* On x86-64 every byte of every argument and of the result is where the   *)
(* System V ABI puts it, so that C and Terra can call one another: an      *)
(* aggregate that does not fit in the registers left goes to the stack     *)
(* whole and takes none, and what follows it still gets registers          *)
(* (ClassifyArgument's counters, byval, the coercion to an integer).       *)
SameAsC ==
  x86_64_sysv_cconv =>
    /\ phase = "enter" => PlacedByLLVM = PlacedByAbi
    /\ phase = "done" => ReturnedByLLVM = ReturnedByAbi
=============================================================================
