------------------------------ MODULE LLVMTypes ------------------------------
(***************************************************************************)
(* The types of values as code generation sees them: class Types of        *)
(* tcompiler.cpp, which gives every Terra type an LLVM type, and the parts *)
(* of LLVM's data layout the calling conventions ask for (64-bit targets). *)
(*                                                                         *)
(* A type is a record.  Where the code walks a type recursively the model  *)
(* has what the walk would meet, in order:                                 *)
(*   parts   what the LLVM type holds once structs are opened              *)
(*   leaves  the same with arrays opened too                               *)
(*   fields  the scalars of the Terra type, every member of a union        *)
(*           included; each has its offset in bytes                        *)
(***************************************************************************)
EXTENDS Integers, Sequences, SequencesExt, FiniteSetsExt

AlignUp(n, a) == ((n + a - 1) \div a) * a
Shift(s, d) == [i \in DOMAIN s |-> [s[i] EXCEPT !.off = @ + d]]

-----------------------------------------------------------------------------
(* Scalars.  The class is what the code asks of an LLVM type: isFloatTy,   *)
(* isDoubleTy, isVectorTy, or an integer or pointer.  size is what a load  *)
(* or a store touches, a type's size is what it is allocated.              *)

ScalarOf(cls, bytes, alloc) ==
  LET leaf == [off |-> 0, size |-> bytes, align |-> alloc, cls |-> cls]
  IN  [kind |-> IF cls = "vector" THEN "vector" ELSE "primitive",
       size |-> alloc, align |-> alloc, parts |-> <<leaf>>, leaves |-> <<leaf>>,
       fields |-> {leaf}, logical |-> FALSE, signed |-> FALSE, unit |-> FALSE]

IntN(bits) ==
  LET bytes == (bits + 7) \div 8
  IN  ScalarOf("int", bytes, CHOOSE a \in {1, 2, 4, 8, 16} :
                               a >= bytes /\ \A b \in {1, 2, 4, 8, 16} : b >= bytes => a <= b)
Int1 == ScalarOf("i1", 1, 1)

PrimitiveType(type, bytes, signed) ==
  CASE type = "float"   -> ScalarOf(IF bytes = 4 THEN "float" ELSE "double", bytes, bytes)
    [] type = "integer" -> [IntN(8 * bytes) EXCEPT !.signed = signed]
    [] type = "logical" -> [IntN(8) EXCEPT !.logical = TRUE]
PointerType == IntN(64)
VectorType(t, n) == [ScalarOf("vector", n * t.size, n * t.size)
                       EXCEPT !.logical = t.logical, !.signed = t.signed]

-----------------------------------------------------------------------------
(* Aggregates.                                                             *)

IsAggregate(t) == t.kind \in {"struct", "array"}
IsFloating(t) == t.leaves[1].cls \in {"float", "double"}

StructLayout(ts) ==
  LET end[i \in 0..Len(ts)] ==
        IF i = 0 THEN 0 ELSE AlignUp(end[i - 1], ts[i].align) + ts[i].size
      align == Max({1} \union {ts[i].align : i \in DOMAIN ts})
  IN  [off |-> [i \in DOMAIN ts |-> end[i] - ts[i].size],
       align |-> align, size |-> AlignUp(end[Len(ts)], align)]

ShiftAll(fs, d) == {[f EXCEPT !.off = @ + d] : f \in fs}

StructType(ts) ==
  LET l == StructLayout(ts)
      open(f(_)) == FlattenSeq([i \in DOMAIN ts |-> Shift(f(ts[i]), l.off[i])])
  IN  [kind |-> "struct", size |-> l.size, align |-> l.align,
       parts |-> open(LAMBDA t : t.parts), leaves |-> open(LAMBDA t : t.leaves),
       fields |-> UNION {ShiftAll(ts[i].fields, l.off[i]) : i \in DOMAIN ts},
       logical |-> FALSE, signed |-> FALSE, unit |-> FALSE]

ArrayType(t, n) ==
  [kind |-> "array", size |-> n * t.size, align |-> t.align,
   parts |-> <<[off |-> 0, size |-> n * t.size, align |-> t.align, cls |-> "array"]>>,
   leaves |-> FlattenSeq([i \in 1..n |-> Shift(t.leaves, (i - 1) * t.size)]),
   fields |-> UNION {ShiftAll(t.fields, (i - 1) * t.size) : i \in 1..n},
   logical |-> FALSE, signed |-> FALSE, unit |-> FALSE]

\* The members of a union share one LLVM element: the last of those with the
\* largest alignment, padded to the largest size.
UnionElement(members) ==
  LET align == Max({members[i].align : i \in DOMAIN members})
      size == Max({members[i].size : i \in DOMAIN members})
      base == members[Max({i \in DOMAIN members : members[i].align = align})]
  IN  StructType(IF base.size < size
                 THEN <<base, ArrayType(IntN(8), size - base.size)>>
                 ELSE <<base>>)

\* A struct's entries, one sequence per allocation: a field alone, or the
\* members of a union.
LayoutStruct(allocations) ==
  LET elements == [i \in DOMAIN allocations |->
                     IF Len(allocations[i]) = 1 THEN allocations[i][1]
                     ELSE UnionElement(allocations[i])]
      l == StructLayout(elements)
  IN  [StructType(elements) EXCEPT
         !.fields = UNION {ShiftAll(t.fields, l.off[i]) :
                             <<i, t>> \in UNION {{<<j, m>> : m \in Range(allocations[j])} :
                                                  j \in DOMAIN allocations}}]

Struct(ts) == LayoutStruct([i \in DOMAIN ts |-> <<ts[i]>>])
Unit == [Struct(<<>>) EXCEPT !.unit = TRUE]

\* The bytes of a value that mean something.
DataBytes(t) == UNION {f.off..(f.off + f.size - 1) : f \in t.fields}
=============================================================================
