----------------------------- MODULE MCCImport -----------------------------
(* C programs for CImport: every short sequence of definitions of a few    *)
(* types, and headers with names, functions, numbers and errors.           *)
EXTENDS CImport

CInt == [class |-> "integer", bits |-> 32, unsigned |-> FALSE]
Double == [class |-> "floating", bits |-> 64]
LongDouble == [class |-> "other", name |-> "long double"]
Void == [class |-> "void"]
Rec(r) == [class |-> "record", rec |-> r]
Ptr(c) == [class |-> "pointer", of |-> c]
Array(c, n) == [class |-> "array", of |-> c, n |-> n]
Fn(ret, params) == [class |-> "function", ret |-> ret, params |-> params,
                    proto |-> TRUE, variadic |-> FALSE]
NoProto(ret) == [class |-> "function", ret |-> ret, params |-> <<>>,
                 proto |-> FALSE, variadic |-> FALSE]

Field(n, c) == [name |-> n, type |-> c, bitfield |-> FALSE]
Bits(n) == [name |-> n, type |-> CInt, bitfield |-> TRUE]
Struct(tag, fields) == [tag |-> tag, typedef |-> NoName, union |-> FALSE, fields |-> fields]

(* struct A { struct B *b; int n; };    struct B { struct A a[2]; A n; };  *)
(* typedef struct { union { int i; double d; }; struct A *a; } T;          *)
(* struct O { int x : 3; int y; };      struct P { struct O o; };          *)
(* struct D { struct { int a; }; int _0; };                                *)
(* struct Outer { struct In { struct Mid *m; } *i;                         *)
(*                struct Mid { struct In in; } mid; };                     *)
(* struct M { struct N { struct M *up; int x; } n; };                      *)
(* struct Foo { int a; };               struct L { long double x; int n; };*)
MCRecords ==
    [A |-> Struct("A", <<Field("b", Ptr(Rec("B"))), Field("n", CInt)>>),
     B |-> Struct("B", <<Field("a", Array(Rec("A"), 2)), Field("n", Rec("A"))>>),
     T |-> [Struct(NoName, <<Field(NoName, Rec("U")), Field("a", Ptr(Rec("A")))>>)
              EXCEPT !.typedef = "T"],
     U |-> [Struct(NoName, <<Field("i", CInt), Field("d", Double)>>) EXCEPT !.union = TRUE],
     O |-> Struct("O", <<Bits("x"), Field("y", CInt)>>),
     P |-> Struct("P", <<Field("o", Rec("O"))>>),
     D |-> Struct("D", <<Field(NoName, Rec("S")), Field("_0", CInt)>>),
     S |-> Struct(NoName, <<Field("a", CInt)>>),
     Outer |-> Struct("Outer", <<Field("i", Ptr(Rec("In"))), Field("mid", Rec("Mid"))>>),
     In |-> Struct("In", <<Field("m", Ptr(Rec("Mid")))>>),
     Mid |-> Struct("Mid", <<Field("in", Rec("In"))>>),
     M |-> Struct("M", <<Field("n", Rec("N"))>>),
     N |-> Struct("N", <<Field("up", Ptr(Rec("M"))), Field("x", CInt)>>),
     Foo |-> Struct("Foo", <<Field("a", CInt)>>),
     L |-> Struct("L", <<Field("x", LongDouble), Field("n", CInt)>>)]

Record(r, defines) == [kind |-> "record", rec |-> r, defines |-> defines]
Typedef(n, c) == [kind |-> "typedef", name |-> n, type |-> c, defines |-> {}]
Function(n, c) == [kind |-> "function", name |-> n, type |-> c, storage |-> "none",
                   body |-> "none", label |-> NoName, defines |-> {}]
Var(n, c, storage) == [kind |-> "var", name |-> n, type |-> c, storage |-> storage, defines |-> {}]
Constant(n, v) == [kind |-> "enumconstant", name |-> n, value |-> v, defines |-> {}]
Macro(n, v, negated) == [name |-> n, value |-> v, negated |-> negated, literal |-> TRUE]

Header(decls) == [decls |-> decls, macros |-> {}, includes |-> {}, wrong |-> FALSE]

MCDisk == {<<"usr", "stdio.h">>}
MCInternalized == <<<<"clang", "include", "stddef.h">>, <<"clang", "include", "sys", "arm.h">>>>

(* Declarations, in any order in which C can read them.                    *)
Pieces == {<<Record("A", {})>>, <<Record("A", {"A"})>>, <<Record("B", {"B"})>>,
           <<Record("T", {"T", "U"}), Typedef("T", Rec("T"))>>}
Orders == {o \in UNION {[1 .. n -> Pieces] : n \in 1 .. 3} :
              /\ \A i, j \in DOMAIN o : i # j => o[i] # o[j]
              /\ \A i \in DOMAIN o : o[i][1].defines = {"B"} =>
                     \E j \in 1 .. i - 1 : o[j][1].defines = {"A"}}
TypeHeaders == {Header(FlattenSeq(o)) : o \in Orders}

(* Names of several kinds, and headers that fail.                          *)
NameHeaders ==
    {[Header(<<Record("Foo", {"Foo"}), Typedef("Foo", CInt), Typedef("Bar", Ptr(Rec("Foo"))),
              Typedef("Bar", Ptr(Rec("Foo"))), Typedef("LD", Ptr(LongDouble)),
              Record("L", {"L"}), Function("use", Fn(Void, <<Ptr(Rec("L")), Rec("Foo")>>))>>)
        EXCEPT !.includes = MCDisk \cup {<<"clang", "include", "stddef.h">>}],
     [Header(<<Function("k", NoProto(CInt)), Function("k", Fn(CInt, <<CInt>>)),
               Var("v", Ptr(Rec("A")), "none"), Var("w", LongDouble, "extern"),
               Var("u", CInt, "static"), Constant("c", 3), Constant("n", 7)>>)
        EXCEPT !.macros = {Macro("v", 1, FALSE), Macro("m", 5, TRUE), Macro("x", 11, FALSE),
                           Macro("y", 31, FALSE), [Macro("z", 1, FALSE) EXCEPT !.literal = FALSE]}],
     Header(<<Function("ld", Fn(LongDouble, <<CInt>>)),
              Function("f", Fn(CInt, <<Ptr(Rec("B")), CInt>>)),
              [Function("g", Fn(CInt, <<>>)) EXCEPT !.storage = "static", !.body = "internal"],
              [Function("i", Fn(CInt, <<>>)) EXCEPT !.body = "inline"],
              [Function("s", Fn(CInt, <<Double>>)) EXCEPT !.body = "external", !.label = "s2"]>>),
     Header(<<[Function("i", Fn(CInt, <<>>)) EXCEPT !.body = "external"], Function("s2", Fn(CInt, <<>>))>>),
     [Header(<<Record("A", {"A"}), Record("B", {"B"})>>) EXCEPT !.wrong = TRUE],
     [Header(<<Record("A", {})>>)
        EXCEPT !.includes = {<<"usr", "stdio.h">>, <<"clang", "include", "sys">>}],
     Header(<<Record("O", {"O"}), Record("P", {"P"}), Record("M", {"M", "N"}),
              Record("D", {"D", "S"})>>)}

MCHeaders == TypeHeaders \cup NameHeaders

(* Definitions in one another that refer to one another.                   *)
NestedHeaders == {Header(<<Record("Outer", {"Outer", "In", "Mid"})>>)}
=============================================================================
