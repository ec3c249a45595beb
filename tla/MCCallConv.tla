------------------------------ MODULE MCCallConv ------------------------------
(* Signatures tried on each target.  A signature starts with scalars, so   *)
(* that few, one or no registers are left when the aggregates come.        *)
EXTENDS CallConv

I(n) == PrimitiveType("integer", n, TRUE)
U(n) == PrimitiveType("integer", n, FALSE)
Bool == PrimitiveType("logical", 1, FALSE)
F == PrimitiveType("float", 4, TRUE)
D == PrimitiveType("float", 8, TRUE)

Scalars == {I(1), U(8), F, Bool, VectorType(F, 4)}
Aggregates == {
  Unit, Struct(<<I(1), Unit, I(2)>>), ArrayType(I(1), 3), Struct(<<F>>),
  Struct(<<F, F, F>>), Struct(<<D, I(4), Bool>>), Struct(<<Struct(<<D>>), D>>),
  Struct(<<F, I(4), D>>), Struct(<<I(8), PointerType>>),
  LayoutStruct(<<<<I(1)>>, <<F, ArrayType(I(1), 6), D>>>>),
  Struct(<<D, D, D, D, D>>), Struct(<<ArrayType(U(8), 3), I(1)>>)}

\* Structs that hold vectors; on x86-64 the code leaves them to Terra alone.
VectorPair == Struct(<<VectorType(F, 2), I(1)>>)
TypesOn(tgt) == Scalars \union Aggregates
                  \union (IF tgt = "x86_64" THEN {} ELSE {VectorPair})

AllTargets == {"x86_64", "windows", "aarch64", "ppc64", "amdgpu", "spirv", "wasm"}

\* The compiler stops at an array that is returned on amdgpu.
ReturnsOn(tgt) == {t \in TypesOn(tgt) : tgt = "amdgpu" => t.kind # "array"}

Repeat(n, t) == [i \in 1..n |-> {t}]
SignaturesOn(tgt) ==
  LET prefixes == CASE tgt = "x86_64" -> {<<5, 0>>, <<4, 7>>, <<6, 6>>}
                    [] tgt = "ppc64" -> {<<0, 0>>, <<6, 1>>}
                    [] OTHER -> {<<0, 0>>}
      suffix == <<TypesOn(tgt), Aggregates>>
  IN  {Repeat(p[1], I(4)) \o Repeat(p[2], D) \o suffix : p \in prefixes}
=============================================================================
