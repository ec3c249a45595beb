------------------------------ MODULE CImport ------------------------------
(***************************************************************************)
(* Importing C (src/tcwrapper.cpp, and the target, includecstring and the  *)
(* completion of structs in src/terralib.lua).                             *)
(*                                                                         *)
(* Clang parses a header and hands over each top-level declaration when it *)
(* has read it.  The visitor makes Terra types, external functions and     *)
(* globals of them; the code the header defines is linked into the         *)
(* target's module.  Struct types belong to the target: imports share      *)
(* them, and one import may define what another only declared.  Between    *)
(* imports the program uses the types.                                     *)
(*                                                                         *)
(* A C type is a record whose class is that of Clang's canonical type; one *)
(* of class "record" names a record declaration of the header.  The class  *)
(* "other" is of the types that are not understood.  The names are those   *)
(* of the C program; NoName is the empty string.                           *)
(***************************************************************************)
EXTENDS Integers, Sequences, FiniteSets, SequencesExt, TLC

CONSTANTS
    Headers,      \* the C programs that may be imported
    Records,      \* the struct and union declarations of all of them
    Disk,         \* the header files of the system, as paths: sequences of names
    Internalized, \* those in the binary, in the order they were registered
    ResourceDir,  \* the name that stands for the binary's
    IntBits,      \* the width of an enumeration constant
    LongBits,     \* the width of a literal in a macro
    Mantissa,     \* the digits of a Lua number
    MaxImports    \* bound: imports

ASSUME WidthAssumption == IntBits \in Nat \ {0} /\ LongBits \in Nat \ {0} /\ Mantissa \in Nat

NoName == ""
NotYet == <<>>
Empty == [x \in {} |-> x]

VARIABLES
    structs,        \* the struct types made for C records, in order
    cnametostruct,  \* the target's: namespace and name to struct
    external,       \* the target's module of C code: symbol to linkage
    nextid,         \* the target's next_unused_id
    import,         \* the import that runs
    results         \* the tables that imports returned

vars == <<structs, cnametostruct, external, nextid, import, results>>

Idle == [header |-> NotYet, at |-> 0, general |-> Empty, tagged |-> Empty,
         errors |-> Empty, live |-> {}, message |-> NotYet, id |-> 0]
Running == import.at > 0

Set(f, k, v) == [x \in DOMAIN f \cup {k} |-> IF x = k THEN v ELSE f[x]]
Ok(w, type) == [w |-> w, ok |-> TRUE, type |-> type]
-----------------------------------------------------------------------------
(* One callback of Clang makes many calls that change the import and the   *)
(* target; w is all of it.  A Lua error passes through Clang and ends the  *)
(* import, so nothing happens to w once it is raised.                      *)
World ==
    [structs |-> structs, names |-> cnametostruct,
     parsed |-> UNION {import.header.decls[k].defines : k \in 1 .. import.at},
     general |-> import.general, tagged |-> import.tagged,
     message |-> import.message, raised |-> FALSE]

Raise(w) == [w EXCEPT !.raised = TRUE]

(* terra.target:getorcreatecstruct and types.newstruct                     *)
NewStruct == [undefined |-> TRUE, entries |-> [union |-> FALSE, fields |-> <<>>],
              layout |-> NotYet, ingetlayout |-> FALSE, incomplete |-> TRUE,
              defn |-> NoName]

Getorcreatecstruct(w, space, name) ==
    IF name # NoName /\ <<space, name>> \in DOMAIN w.names
    THEN <<w, w.names[<<space, name>>]>>
    ELSE LET id == Len(w.structs) + 1
         IN  <<[w EXCEPT !.structs = Append(@, NewStruct),
                         !.names = IF name = NoName THEN @
                                   ELSE Set(@, <<space, name>>, id)], id>>
-----------------------------------------------------------------------------
(* struct.getlayout, with getentries: what a struct is laid out from is    *)
(* remembered; a struct whose layout has failed cannot be laid out again.  *)
RECURSIVE Element(_)
Element(t) == IF t.class = "array" THEN Element(t.of) ELSE t

HoldsDuplicate(entries) ==
    \E i, j \in DOMAIN entries.fields :
        i < j /\ entries.fields[i].field = entries.fields[j].field

(* members is w when what it holds by value has been laid out.             *)
LayOut(members, id, s) ==
    IF s.undefined \/ members.raised \/ HoldsDuplicate(s.entries) THEN Raise(members)
    ELSE [members EXCEPT !.structs[id].ingetlayout = FALSE,
                         !.structs[id].layout = <<s.entries>>]

RECURSIVE Getlayout(_, _)
Getlayout(w, id) ==
    LET s == w.structs[id]
        ensurelayout(v, e) == IF Element(e.type).class = "struct"
                              THEN Getlayout(v, Element(e.type).id) ELSE v
    IN  IF w.raised \/ s.layout # NotYet THEN w
        ELSE IF s.ingetlayout THEN Raise(w)
        ELSE LayOut(FoldLeft(ensurelayout, [w EXCEPT !.structs[id].ingetlayout = TRUE],
                             s.entries.fields), id, s)

(* Type:complete; no imported struct has a static initializer yet.         *)
RECURSIVE Complete(_, _)
Complete(w, id) ==
    LET member(v, e) == IF Element(e.type).class = "struct"
                        THEN Complete(v, Element(e.type).id) ELSE v
        members(l) == IF l.raised THEN l
                      ELSE FoldLeft(member, [l EXCEPT !.structs[id].incomplete = FALSE],
                                    l.structs[id].layout[1].fields)
    IN  IF w.raised \/ ~w.structs[id].incomplete THEN w ELSE members(Getlayout(w, id))
-----------------------------------------------------------------------------
ImportError(w, what) == [w |-> [w EXCEPT !.message = <<what>>], ok |-> FALSE]

(* A record without a tag has the name of the typedef that declares it, if *)
(* there is one.                                                           *)
Space(d) == IF d.tag = NoName /\ d.typedef # NoName THEN "general" ELSE "tagged"
NameOf(d) == IF d.tag = NoName THEN d.typedef ELSE d.tag

(* Mutant of Namespace: typedefs and tags in one.                         *)
NamespaceTagged(d) == "tagged"

(* thenamespace                                                            *)
Namespace(d) == Space(d)

(* The type of a record: the import's own, or the target's, which is       *)
(* remembered unless it has no name.                                       *)
Named(w, d) ==
    LET space == Namespace(d)
        name == NameOf(d)
        made == Getorcreatecstruct(w, space, name)
        type == [class |-> "struct", id |-> made[2]]
    IN  IF name # NoName /\ name \in DOMAIN w[space] THEN Ok(w, w[space][name])
        ELSE Ok(IF name = NoName THEN made[1]
                ELSE [made[1] EXCEPT ![space] = Set(@, name, type)], type)

(* Mutant of Failed: a field that is not understood is left out.           *)
FailedIgnored(read) == read

(* GetFields: without one of its fields the struct becomes opaque.         *)
Failed(read) == [read EXCEPT !.opaque = TRUE]

RECURSIVE GetType(_, _), GetRecordTypeFromDecl(_, _), GetFuncType(_, _)

(* One round of the loop of GetFields; t is the type of the field.         *)
AddField(read, f, t) ==
    LET anonymous == f.name = NoName
        name == IF anonymous THEN "_" \o ToString(read.anonname) ELSE f.name
        next == [read EXCEPT !.w = t.w, !.anonname = IF anonymous THEN @ + 1 ELSE @]
    IN  IF t.ok THEN [next EXCEPT !.entries = Append(@, [field |-> name, type |-> t.type])]
        ELSE Failed(next)

GetField(read, f) ==
    IF f.bitfield \/ (f.name = NoName /\ f.type.class # "record") THEN Failed(read)
    ELSE AddField(read, f, GetType(read.w, f.type))

(* The definition of a struct is read once, and never again.               *)
Define(w, id, r) ==
    LET d == Records[r]
        begin == [w |-> [w EXCEPT !.structs[id].undefined = FALSE, !.structs[id].defn = r],
                  entries |-> <<>>, opaque |-> FALSE, anonname |-> 0]
        end(read) == IF read.opaque \/ read.w.raised THEN read.w
                     ELSE Complete([read.w EXCEPT !.structs[id].entries =
                                        [union |-> d.union, fields |-> read.entries]], id)
    IN  end(FoldLeft(GetField, begin, d.fields))

GetRecordTypeFromDecl(w, r) ==
    LET defined(known) == IF known.w.structs[known.type.id].undefined /\ r \in w.parsed
                          THEN [known EXCEPT !.w = Define(@, known.type.id, r)]
                          ELSE known
    IN  defined(Named(w, Records[r]))

(* Types that hold others are of the same class in C and in Terra.         *)
TypeOf(c, t) == IF t.ok THEN Ok(t.w, [c EXCEPT !.of = t.type]) ELSE t

GetType(w, c) ==
    IF w.raised THEN [w |-> w, ok |-> FALSE]
    ELSE CASE c.class = "void" -> Ok(w, [class |-> "opaque"])
           [] c.class \in {"integer", "floating", "bool"} -> Ok(w, c)
           [] c.class = "enum" -> Ok(w, [class |-> "integer", bits |-> 32, unsigned |-> TRUE])
           [] c.class = "record" -> GetRecordTypeFromDecl(w, c.rec)
           [] c.class = "function" -> GetFuncType(w, c)
           [] c.class \in {"pointer", "array", "vector"} -> TypeOf(c, GetType(w, c.of))
           [] OTHER -> ImportError(w, c)

(* All of the parameters are looked at, whether or not one is understood;  *)
(* a function without a prototype has none.  types are the result's, then  *)
(* the parameters'.                                                        *)
AddType(read, t) ==
    [w |-> t.w, ok |-> read.ok /\ t.ok,
     types |-> IF read.ok /\ t.ok THEN Append(read.types, t.type) ELSE read.types]

GetFuncType(w, c) ==
    LET ret == IF c.ret.class = "void" THEN Ok(w, [class |-> "unit"]) ELSE GetType(w, c.ret)
        function(read) ==
            IF read.ok
            THEN Ok(read.w, [class |-> "function", params |-> Tail(read.types),
                             ret |-> Head(read.types), variadic |-> c.proto /\ c.variadic])
            ELSE [w |-> read.w, ok |-> FALSE]
    IN  function(FoldLeft(LAMBDA read, type : AddType(read, GetType(read.w, type)),
                          AddType([w |-> w, ok |-> TRUE, types |-> <<>>], ret),
                          IF c.proto THEN c.params ELSE <<>>))
-----------------------------------------------------------------------------
Init ==
    /\ structs = <<>>
    /\ cnametostruct = Empty
    /\ external = Empty
    /\ nextid = 0
    /\ import = Idle
    /\ results = <<>>

(* The files in the binary are a tree; the last file that was registered   *)
(* through a node, or at it, says what it is.                              *)
Getinternalizedfile(path) ==
    LET through == {i \in DOMAIN Internalized : IsPrefix(path, Internalized[i])}
    IN  IF through = {} THEN "none"
        ELSE IF Internalized[Max(through)] = path THEN "file" ELSE "directory"

Headerprovider(path) ==
    IF path[1] = ResourceDir THEN Getinternalizedfile(path) ELSE "none"

(* Clang asks for files here: the system's come first.                     *)
IsFile(path) == path \in Disk \/ Headerprovider(path) = "file"

(* Mutant of NextId: the liveness functions of imports have one name.      *)
NextIdSame == nextid
(* next_unused_id++                                                        *)
NextId == nextid + 1

(* include_c and dofile, up to ParseAST: the name of the liveness function *)
(* is taken first, whatever becomes of the import.                         *)
IncludeC(h) ==
    /\ ~Running
    /\ Len(results) < MaxImports
    /\ nextid' = NextId
    /\ import' = [Idle EXCEPT !.header = h, !.at = 1, !.id = nextid]
    /\ UNCHANGED <<structs, cnametostruct, external, results>>

(* The next declaration that HandleTopLevelDecl is given.                  *)
Decl == import.header.decls[import.at]
Visiting(kind) ==
    /\ Running
    /\ import.at <= Len(import.header.decls)
    /\ Decl.kind = kind

(* What the visitor leaves: a Lua error ends the import, and the target    *)
(* keeps what was done to it.  The errors of imports count as results.     *)
Visited(w, general, errors, live) ==
    /\ structs' = w.structs
    /\ cnametostruct' = w.names
    /\ IF w.raised
       THEN /\ import' = Idle
            /\ results' = Append(results, [header |-> import.header, failed |-> "error"])
       ELSE /\ import' = [import EXCEPT !.at = @ + 1, !.message = w.message,
                                        !.general = general, !.tagged = w.tagged,
                                        !.errors = errors, !.live = live]
            /\ UNCHANGED results
    /\ UNCHANGED <<external, nextid>>

SetErrorReport(w, name) == Set(import.errors, name, w.message)

(* A name keeps what it was first imported as.                             *)
Created(general, name, v) == IF name \in DOMAIN general THEN general ELSE Set(general, name, v)

TraverseRecordDecl ==
    /\ Visiting("record")
    /\ \E w \in {GetRecordTypeFromDecl(World, Decl.rec).w} :
            Visited(w, w.general, import.errors, import.live)

(* Only the first of several typedefs of a name counts.                    *)
IsCanonical ==
    \A j \in 1 .. import.at - 1 :
        LET d == import.header.decls[j] IN ~(d.kind = "typedef" /\ d.name = Decl.name)

VisitTypedefDecl ==
    /\ Visiting("typedef")
    /\ \E t \in {GetType(World, Decl.type)} :
           IF ~IsCanonical THEN Visited(World, import.general, import.errors, import.live)
           ELSE IF t.ok
           THEN Visited(t.w, Set(t.w.general, Decl.name, t.type), import.errors, import.live)
           ELSE Visited(t.w, t.w.general, SetErrorReport(t.w, Decl.name), import.live)

(* getSExtValue of a value of the given width                              *)
SignExtended(v, bits) == IF v >= 2 ^ (bits - 1) THEN v - 2 ^ bits ELSE v

VisitEnumConstantDecl ==
    /\ Visiting("enumconstant")
    /\ LET v == [class |-> "number", value |-> SignExtended(Decl.value, IntBits)]
       IN  Visited(World, Set(import.general, Decl.name, v), import.errors, import.live)

(* A function with an asm label has this one for a symbol.                 *)
InternalName(f) == IF f.label # NoName THEN f.label ELSE f.name

(* KeepLive: the liveness function will use it.                            *)
KeepLive(name) == import.live \cup {name}

TraverseFunctionDecl ==
    /\ Visiting("function")
    /\ \E t \in {GetFuncType(World, Decl.type)} :
       LET static == ImportError(World, [class |-> "static"]).w
           fn == [class |-> "externfunction", name |-> InternalName(Decl), type |-> t.type]
       IN  IF Decl.storage = "static"
           THEN Visited(static, import.general, SetErrorReport(static, Decl.name), import.live)
           ELSE IF ~t.ok
           THEN Visited(t.w, t.w.general, SetErrorReport(t.w, Decl.name), import.live)
           ELSE Visited(t.w, Created(t.w.general, Decl.name, fn), import.errors,
                        KeepLive(Decl.name))

(* A variable whose type is not understood is left out, without a message. *)
TraverseVarDecl ==
    /\ Visiting("var")
    /\ \E t \in {GetType(World, Decl.type)} :
       LET gv == [class |-> "externglobal", name |-> Decl.name, type |-> t.type]
       IN  IF Decl.storage = "static"
           THEN Visited(World, import.general, import.errors, import.live)
           ELSE IF ~t.ok THEN Visited(t.w, t.w.general, import.errors, import.live)
           ELSE Visited(t.w, Created(t.w.general, Decl.name, gv), import.errors,
                        KeepLive(Decl.name))
-----------------------------------------------------------------------------
(* A Lua number has so many binary digits.                                 *)
IsNumber(v) ==
    LET magnitude == IF v < 0 THEN -v ELSE v
    IN  \E e \in 0 .. LongBits : magnitude % 2 ^ e = 0 /\ magnitude \div 2 ^ e < 2 ^ Mantissa

(* AddMacro: macros that stand for a number, with or without a minus.      *)
Number(m) ==
    LET v == SignExtended(m.value, LongBits)
    IN  [class |-> "number", value |-> IF m.negated THEN -v ELSE v]

Macros(h) ==
    LET added == {m \in h.macros : m.literal /\ IsNumber(SignExtended(m.value, LongBits))}
    IN  [n \in {m.name : m \in added} |-> Number(CHOOSE m \in added : m.name = n)]

(* includecstring: tags and macros are found by name alone where nothing   *)
(* else has the name.                                                      *)
Addtogeneral(general, tbl) ==
    [n \in DOMAIN general \cup DOMAIN tbl |-> IF n \in DOMAIN general THEN general[n] ELSE tbl[n]]

(* The code Clang generates: what the header defines, of the functions     *)
(* that are inline only those that are used, and the liveness function.  A *)
(* variable that is not extern is a definition too, also when it has no    *)
(* initializer (CompleteTentativeDefinition).                              *)
Symbol(d) == IF d.kind = "function" /\ d.label # NoName THEN d.label ELSE d.name
Inline(d) == d.kind = "function" /\ d.body = "inline"
Defs(h) ==
    {d \in Range(h.decls) :
        \/ d.kind = "function" /\ d.storage # "static" /\ d.body # "none"
        \/ d.kind = "var" /\ d.storage = "none"}
Generated == {d \in Defs(import.header) : Inline(d) => d.name \in import.live}

(* Mutant of Linkage: inline definitions stay what Clang makes of them.    *)
LinkageOfClang(d) == IF Inline(d) THEN "available_externally" ELSE "external"

(* optimizemodule; variables are left as they are.                         *)
Linkage(d) == IF Inline(d) THEN "weak_odr" ELSE "external"

(* The optimizer and the linker throw away what is available elsewhere.    *)
Module ==
    LET kept == {d \in Generated : Linkage(d) # "available_externally"}
        defined == [s \in {Symbol(d) : d \in kept} |->
                        Linkage(CHOOSE d \in kept : Symbol(d) = s)]
    IN  Set(defined, "__makeeverythinginclanglive_" \o ToString(import.id), "external")

Strong(module) == {s \in DOMAIN module : module[s] = "external"}
LinkFails == Strong(Module) \cap Strong(external) # {}

(* HandleTranslationUnit, the end of dofile, and includecstring.  Code with*)
(* an error has no module.                                                 *)
HandleTranslationUnit ==
    /\ Running
    /\ import.at > Len(import.header.decls)
    /\ IF import.header.wrong \/ \E path \in import.header.includes : ~IsFile(path)
       THEN /\ results' = Append(results, [header |-> import.header, failed |-> "compile"])
            /\ UNCHANGED external
       ELSE IF LinkFails
       THEN /\ results' = Append(results, [header |-> import.header, failed |-> "link"])
            /\ UNCHANGED external
       ELSE /\ results' = Append(results,
                   [header |-> import.header, failed |-> "no", errors |-> import.errors,
                    tagged |-> import.tagged,
                    general |-> Addtogeneral(Addtogeneral(import.general, import.tagged),
                                             Macros(import.header))])
            /\ external' = [s \in DOMAIN external \cup DOMAIN Module |->
                               IF s \in DOMAIN external /\ s \notin Strong(Module)
                               THEN external[s] ELSE Module[s]]
    /\ import' = Idle
    /\ UNCHANGED <<structs, cnametostruct, nextid>>

(* The program uses a struct where its layout is needed, and goes on if    *)
(* this fails.                                                             *)
Use(id) ==
    /\ ~Running
    /\ LET w == Getlayout([structs |-> structs, raised |-> FALSE], id)
       IN  structs' = w.structs
    /\ UNCHANGED <<cnametostruct, external, nextid, import, results>>

Next ==
    \/ \E h \in Headers : IncludeC(h)
    \/ TraverseRecordDecl \/ VisitTypedefDecl \/ VisitEnumConstantDecl
    \/ TraverseFunctionDecl \/ TraverseVarDecl
    \/ HandleTranslationUnit
    \/ \E id \in DOMAIN structs : Use(id)

Spec == Init /\ [][Next]_vars
-----------------------------------------------------------------------------
(* What C says.  Understood: the type has a Terra type.  Denotes: the      *)
(* Terra type is that of the C type.                                       *)
RECURSIVE Parts(_)
Parts(c) ==
    {c} \cup (CASE c.class \in {"pointer", "array", "vector"} -> Parts(c.of)
               [] c.class = "function" ->
                    Parts(c.ret) \cup UNION {Parts(c.params[i]) : i \in DOMAIN c.params}
               [] OTHER -> {})

Understood(c) == \A part \in Parts(c) : part.class # "other"

Legible(d) ==
    \A i \in DOMAIN d.fields :
        /\ ~d.fields[i].bitfield /\ Understood(d.fields[i].type)
        /\ d.fields[i].name = NoName => d.fields[i].type.class = "record"

(* What a table says of a name; a struct with a name is the target's.      *)
Meaning(table, n) == IF n \in DOMAIN table THEN table[n] ELSE [class |-> "nothing"]
Shared(d, t) ==
    LET key == <<Space(d), NameOf(d)>>
    IN  key \in DOMAIN cnametostruct /\ cnametostruct[key] = t.id

RECURSIVE Denotes(_, _), Holds(_, _)
Denotes(t, c) ==
    CASE c.class = "void" -> t.class = "opaque"
      [] c.class \in {"integer", "floating", "bool"} -> t = c
      [] c.class = "enum" -> t.class = "integer" /\ t.bits = 32
      [] c.class \in {"pointer", "array", "vector"} ->
            t.class = c.class /\ Denotes(t.of, c.of) /\ [c EXCEPT !.of = t.of] = t
      [] c.class = "function" ->
            /\ t.class = "function"
            /\ IF c.ret.class = "void" THEN t.ret.class = "unit" ELSE Denotes(t.ret, c.ret)
            /\ Len(t.params) = Len(c.params)
            /\ \A i \in DOMAIN c.params : Denotes(t.params[i], c.params[i])
            /\ t.variadic = c.variadic
      [] c.class = "record" ->
            LET d == Records[c.rec]
            IN  /\ t.class = "struct"
                /\ IF NameOf(d) = NoName THEN Holds(structs[t.id].entries, d)
                   ELSE Shared(d, t)

(* The entries are the fields of the record, if they all are understood.   *)
Holds(entries, d) ==
    IF Legible(d)
    THEN /\ entries.union = d.union
         /\ Len(entries.fields) = Len(d.fields)
         /\ \A i \in DOMAIN d.fields :
                /\ d.fields[i].name # NoName => entries.fields[i].field = d.fields[i].name
                /\ Denotes(entries.fields[i].type, d.fields[i].type)
    ELSE entries.fields = <<>>

Returned == {results[i] : i \in {j \in DOMAIN results : results[j].failed = "no"}}

(* A struct that C has defined has the fields it has in C, and is laid out *)
(* from these fields and no others, whichever import declared it, in       *)
(* whatever order, and however types hold and point to one another; unless *)
(* its layout was asked for before it was defined, which it does not       *)
(* survive (GetRecordTypeFromDecl, GetFields, Type:complete).              *)
LayoutsMatch ==
    \A id \in DOMAIN structs :
        LET s == structs[id]
            d == Records[s.defn]
        IN  s.defn # NoName =>
                /\ Holds(s.entries, d)
                /\ s.layout = NotYet \/ s.layout = <<s.entries>>
                /\ Legible(d) /\ ~s.ingetlayout => s.layout # NotYet /\ ~s.incomplete

(* A name that was imported means what it means in C: of a typedef, a      *)
(* struct, a function, a variable, an enumeration constant or a macro, in  *)
(* this order where tags and macros have the names of others; what cannot  *)
(* be imported is reported with the part of its own type that is to blame. *)
(* Variables are not, a second declaration of a function adds nothing, and *)
(* numbers that need the last bit of their width come out negative         *)
(* (TraverseFunctionDecl, VisitTypedefDecl, AddMacro, includecstring).     *)
NamesDenote ==
    \A r \in Returned :
        LET h == r.header
            Ordinary == {j \in DOMAIN h.decls : h.decls[j].kind # "record"}
            IsFirst(i) == \A j \in Ordinary : h.decls[j].name = h.decls[i].name => j >= i
            Blames(n, c) == n \in DOMAIN r.errors /\ \E part \in Parts(c) : r.errors[n] = <<part>>
        IN  /\ \A i \in {j \in Ordinary : IsFirst(j)} :
                LET d == h.decls[i]
                    v == Meaning(r.general, d.name)
                IN  CASE d.kind = "typedef" ->
                           IF Understood(d.type) THEN Denotes(v, d.type)
                           ELSE Blames(d.name, d.type)
                      [] d.kind = "function" ->
                           IF d.storage = "static" THEN d.name \in DOMAIN r.errors
                           ELSE IF Understood(d.type)
                           THEN v.class = "externfunction" /\ Denotes(v.type, d.type)
                           ELSE Blames(d.name, d.type)
                      [] d.kind = "var" ->
                           d.storage # "static" /\ Understood(d.type) =>
                               v.class = "externglobal" /\ Denotes(v.type, d.type)
                      [] d.kind = "enumconstant" ->
                           d.value < 2 ^ (IntBits - 1) => v = [class |-> "number", value |-> d.value]
            /\ \A i \in DOMAIN h.decls \ Ordinary :
                LET d == Records[h.decls[i].rec]
                IN  d.tag # NoName =>
                        /\ Shared(d, Meaning(r.tagged, d.tag))
                        /\ \/ \E j \in Ordinary : h.decls[j].name = d.tag
                           \/ Meaning(r.general, d.tag) = r.tagged[d.tag]
            /\ \A m \in h.macros :
                m.literal /\ m.value < 2 ^ (LongBits - 1) /\ IsNumber(m.value) =>
                    \/ \E j \in Ordinary : h.decls[j].name = m.name
                    \/ m.name \in DOMAIN r.tagged
                    \/ Meaning(r.general, m.name) =
                            [class |-> "number", value |-> IF m.negated THEN -m.value ELSE m.value]

(* What a header defines can be used: under the name that Terra has for    *)
(* it, a function or a variable stays in the target's module, used by C or *)
(* not, inline or not, whatever is imported after it (KeepLive,            *)
(* GetLivenessFunction, optimizemodule, dofile).                           *)
DefinitionsLinked ==
    \A r \in Returned : \A d \in Defs(r.header) :
        d.name \in DOMAIN r.general /\ d.name \notin DOMAIN r.errors =>
            r.general[d.name].name \in DOMAIN external

(* An import fails only for an error in C, a file that is neither in the   *)
(* system nor in the binary, a struct that was used before it was defined, *)
(* an anonymous member that has the name of another, or a function that is *)
(* not inline or a variable that an earlier import has defined: a header   *)
(* with one of these can be imported once (dofile, LuaOverlayFileSystem,   *)
(* headerprovider).                                                        *)
TooEarly == \E id \in DOMAIN structs : structs[id].ingetlayout
Clashes(h) ==
    \E k \in DOMAIN h.decls : \E r \in h.decls[k].defines :
    LET d == Records[r] IN \E i, j \in DOMAIN d.fields : i # j /\ d.fields[i].name = NoName /\ d.fields[j].name = "_0"
Exclusive(h) == {Symbol(d) : d \in {e \in Defs(h) : ~Inline(e)}}
OnlyTheseFail ==
    \A i \in DOMAIN results :
        LET h == results[i].header IN
        /\ results[i].failed = "compile" =>
               h.wrong \/ ~(h.includes \subseteq Disk \cup Range(Internalized))
        /\ results[i].failed = "error" => TooEarly \/ Clashes(h)
        /\ results[i].failed = "link" =>
               \E j \in 1 .. i - 1 :
                   /\ results[j].failed = "no"
                   /\ Exclusive(h) \cap Exclusive(results[j].header) # {}
=============================================================================
