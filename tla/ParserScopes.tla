---------------------------- MODULE ParserScopes ----------------------------
(***************************************************************************)
(* The parser (src/lparser.cpp): the scopes of a chunk that mixes Lua,     *)
(* Terra and imported languages, and what is captured for Terra code.      *)
(*                                                                         *)
(* The parser copies Lua text to its output and replaces each Terra        *)
(* construct by a call that rebuilds it, given a table of the Lua locals   *)
(* the construct mentions.  It finds those by name: refvariable walks the  *)
(* open blocks outwards and notes the name in the TerraCnt of the          *)
(* construct through which the walk came to the Lua block that defines it. *)
(* Much later the type checker (src/terralib.lua) looks the names up.      *)
(*                                                                         *)
(* Recursive descent is a stack of operations, todo: an action takes the   *)
(* first one and a rule of the grammar puts its own in its place.  Tokens  *)
(* are chosen as they are read; the only thing remembered of the current   *)
(* one is whether the lexer made it the entry point of a language.         *)
(***************************************************************************)
EXTENDS Naturals, Sequences, FiniteSets, FiniteSetsExt

CONSTANTS
    Names,          \* variable names
    Languages,      \* the languages that can be imported
    Keywords,       \* words that may be entry points
    EntryPoints,    \* [Languages -> SUBSET Keywords]
    None, Plain,    \* no language; a token that is no entry point
    MaxLevels,      \* LUAI_MAXCCALLS
    MaxParses,      \* bound: chunks parsed one after the other
    Fuel            \* bound: constructs in each of the chunks

ASSUME EntryPointsAssumption == EntryPoints \in [Languages -> SUBSET Keywords]
ASSUME NoneAssumption == None \notin Languages /\ Plain \notin Keywords
ASSUME BoundAssumption == 
    MaxLevels \in Nat /\ MaxParses \in Nat /\ Fuel \in [1 .. MaxParses -> Nat]

VARIABLES
    blocks,     \* fs->bl and its chain: the open blocks, innermost last
    cnts,       \* terracnt and its chain: the open Terra constructs
    inTerra,    \* in_terra
    languages,  \* TA_LANGUAGES_TABLE
    entry,      \* TA_ENTRY_POINT_TABLE
    enabled,    \* languageextensionsenabled
    levels,     \* terra_State.nCcalls: it outlives the parse
    token,      \* the current token
    todo,       \* what is left to do, first operation first
    status,     \* how the parse goes
    parses, fuel,
    missed,     \* <<n, b>>: n was not captured; b: a header hid it
    stray       \* names captured that are no locals where the table is

scopes == <<blocks, cnts, inTerra>>
lang == <<languages, entry, enabled>>
bounds == <<parses, fuel>>
tables == <<missed, stray>>
vars == <<scopes, lang, levels, token, todo, status, bounds, tables>>

Ended == {"done", "syntax", "levels", "luaerror"}
-----------------------------------------------------------------------------
(* Blocks.  bound is the language's own view: the names that Lua or the    *)
(* type checker has bound in the block by now.                             *)
Top == blocks[Len(blocks)]
Pop(s) == SubSeq(s, 1, Len(s) - 1)

Block(terra) == [terra |-> terra, defined |-> {}, bound |-> {}, exts |-> 0]

Declared(bs, ns) == [bs EXCEPT ![Len(bs)].defined = @ \cup ns]
Bound(bs, ns) == [bs EXCEPT ![Len(bs)].bound = @ \cup ns]

(* The constructs' own blocks: block is the index of TerraCnt.block.       *)
Construct(at) == [block |-> at, captured |-> {}, needed |-> {}]

(* The innermost block, of the first to, that has n in the field given.    *)
Innermost(to, has) == LET js == {j \in 1 .. to : has[j]} IN
                      IF js = {} THEN 0 ELSE Max(js)

(* A step of the walk leaves Terra at block k.                             *)
Boundary(k) == blocks[k].terra /\ k > 1 /\ ~blocks[k - 1].terra

(* The walk of refvariable ends at block at, 0 if none defines n.          *)
Walk(n) ==
    LET j == Innermost(Len(blocks), [k \in DOMAIN blocks |-> n \in blocks[k].defined])
    IN  [at |-> j, crossed |-> Cardinality({k \in j + 1 .. Len(blocks) : Boundary(k)})]

(* Mutant of Capturer: always the innermost construct.                     *)
CapturerInnermost(w) ==
    IF w.at # 0 /\ w.crossed > 0 /\ ~blocks[w.at].terra THEN Len(cnts) ELSE 0

(* The construct that captures n, 0 if none: cur moves one down the chain  *)
(* at each boundary.                                                       *)
Capturer(w) ==
    IF w.at # 0 /\ w.crossed > 0 /\ ~blocks[w.at].terra
    THEN Len(cnts) - w.crossed + 1
    ELSE 0

(* What the language asks for.  The nearest binding of n counts.  If it is *)
(* in a Lua block, the outermost construct opened inside that block must   *)
(* have n in its table: constructs further in look it up through the       *)
(* environment of the Lua code they are embedded in.                       *)
MustCapture(n) ==
    LET j == Innermost(Len(blocks), [k \in DOMAIN blocks |-> n \in blocks[k].bound])
        inside == {i \in DOMAIN cnts : cnts[i].block > j}
    IN  IF j = 0 \/ inside = {} \/ blocks[j].terra THEN 0 ELSE Min(inside)

(* An open header has n defined before it is bound.                        *)
Hidden(n) == \E k \in DOMAIN blocks : n \in blocks[k].defined \ blocks[k].bound

(* n is a Lua local where block at begins, in the same piece of Lua code.  *)
LocalBelow(n, at) ==
    \E j \in 1 .. at - 1 :
        n \in blocks[j].defined /\ \A k \in j .. at - 1 : ~blocks[k].terra

(* refvariable                                                             *)
Reference(n) ==
    LET w == Walk(n) IN
    IF cnts # <<>> /\ w.crossed > Len(cnts)
    THEN status' = "assert" /\ UNCHANGED cnts
    ELSE /\ cnts' = [i \in DOMAIN cnts |->
                       [cnts[i] EXCEPT
                           !.captured = IF i = Capturer(w) THEN @ \cup {n} ELSE @,
                           !.needed = IF i = MustCapture(n)
                                      THEN @ \cup {<<n, Hidden(n)>>} ELSE @]]
         /\ UNCHANGED status
-----------------------------------------------------------------------------
(* Operations.                                                             *)
Tok == <<"token">>                  \* read past an expected token
Enter == <<"enter">>                \* enterblock
Leave == <<"leave", "block">>       \* leaveblock
LeaveRepeat == <<"leave", "repeat">>
Define(ns) == <<"define", ns>>      \* definevariable, and the names are bound
Declare(ns) == <<"declare", ns>>    \* definevariable, too early
Bind == <<"bind">>                  \* no code: the names defined are bound from here on
Ref(n) == <<"ref", n>>              \* refvariable
Stats == <<"stats">>                \* statlist
Expr == <<"expr">>                  \* expr
Down == <<"down">>                  \* leavelevel
EnterTerra == <<"enterterra">>      \* enterterra
LeaveTerra(ns) == <<"leaveterra", ns, ns>>  \* leaveterra; ns: its locals, captured too
LeaveLanguage(ns) == <<"leaveterra", ns, {}>>
Embedded(ops) == <<"embedded", ops>>    \* embeddedcode
Resume(n) == <<"resume", n>>        \* leaveblock at the end of embeddedcode
Language(local) == <<"language", local>>    \* runlanguage: a local statement?
Returns1 == <<"returns1">>          \* RETURNS_1 after a language extension
Finish == <<"finish">>              \* the end of luaY_parser

(* terratype, luaexpr: Lua code that is an expression.                     *)
Type == Embedded(<<Expr>>)

(* The rules of the grammar.  The block of a loop or of a function and the *)
(* block of its body are one, blocks in which nothing can be defined are   *)
(* left out, and so are rules that have no block and define nothing.       *)

(* Mutant of Rest: the word after the block is read in the block.          *)
RestLate == <<Stats, Tok, Leave>>

Rest == <<Stats, Leave, Tok>>
CondRule == <<Expr, Tok, Enter>> \o Rest
RepeatRule == <<Enter, Stats, Tok, Expr, LeaveRepeat>>
FornumRule(ns) == <<Enter, Expr, Define(ns), Tok>> \o Rest
LocalRule(ns) == <<Expr, Define(ns)>>

(* forlist: the names are defined, then the iterator is parsed.            *)
ForlistRule(ns) == <<Enter, Declare(ns), Expr, Bind, Tok>> \o Rest

(* body: in Terra the type returned comes after the parameters.            *)
LuaBody(ns) == <<Enter, Define(ns)>> \o Rest
TerraBody(ns) == <<Enter, Declare(ns), Type, Bind>> \o Rest

Body(ns) == IF inTerra > 0 THEN TerraBody(ns) ELSE LuaBody(ns)

(* doquote: an expression, or statements with an optional in.              *)
QuoteExp == <<EnterTerra, Expr, LeaveTerra({})>>
QuoteStats(rest) == <<EnterTerra, Enter, Stats>> \o rest \o <<Leave, LeaveTerra({})>>
In == <<Tok, Expr, Tok>>

(* terrastats: functions and structs that are defined together.            *)
Definition(d) ==
    (IF d.local THEN <<>> ELSE <<Ref(d.name)>>)
        \o (CASE d.kind = "terra" -> TerraBody(d.params)
              [] d.kind = "struct" -> <<Type, Tok>>
              [] d.kind = "declared" -> <<>>)

Local(d) == IF d.local THEN {d.name} ELSE {}
-----------------------------------------------------------------------------
Init ==
    /\ blocks = <<Block(FALSE)>> /\ cnts = <<>> /\ inTerra = 0
    /\ languages = <<>> /\ entry = [e \in Keywords |-> None] /\ enabled = 0
    /\ levels = 0 /\ token = Plain
    /\ todo = <<Stats, Leave, Finish>>
    /\ status = "parsing"
    /\ parses = 1 /\ fuel = Fuel[1]
    /\ missed = {} /\ stray = {}

Doing(op) == status = "parsing" /\ todo # <<>> /\ Head(todo)[1] = op
Arg == Head(todo)[2]
Then(ops) == todo' = ops \o Tail(todo)

(* A construct takes some of the Fuel of its chunk.                        *)
Spend == fuel > 0 /\ fuel' = fuel - 1 /\ UNCHANGED parses

(* luaX_next: a word is an entry point if it is one when it is read.       *)
Lexed(en) == {Plain} \cup {e \in Keywords : fuel > 0 /\ enabled > 0 /\ en[e] # None}
LexNext == token' \in Lexed(entry)

EnterLevel == levels < MaxLevels /\ levels' = levels + 1

(* luaX_syntaxerror, on any token, or a language that fails: the exception *)
(* ends the parse, and the LexState is gone.                               *)
Fails(how) ==
    /\ status' = how
    /\ blocks' = <<>> /\ cnts' = <<>> /\ inTerra' = 0 /\ todo' = <<>>
    /\ languages' = <<>> /\ entry' = [e \in Keywords |-> None] /\ enabled' = 0
    /\ token' = Plain
    /\ missed' = {} /\ stray' = {}
    /\ UNCHANGED bounds

SyntaxError ==
    /\ status = "parsing" /\ todo # <<>>
    /\ Head(todo)[1] \in {"stats", "expr", "token", "language"}
    /\ Fails("syntax")
    /\ IF Head(todo)[1] \in {"stats", "expr"} THEN EnterLevel ELSE UNCHANGED levels

(* checklimit in enterlevel: the count stays where it is.                  *)
TooManyLevels ==
    /\ Doing("expr") \/ Doing("stats")
    /\ levels >= MaxLevels
    /\ status' = "levels" /\ levels' = levels + 1
    /\ UNCHANGED <<scopes, lang, token, todo, bounds, tables>>

(* The next chunk: a new LexState, and the same terra_State.               *)
ParseAgain ==
    /\ status \in Ended /\ parses < MaxParses
    /\ parses' = parses + 1 /\ fuel' = Fuel[parses + 1]
    /\ blocks' = <<Block(FALSE)>> /\ cnts' = <<>> /\ inTerra' = 0
    /\ languages' = <<>> /\ entry' = [e \in Keywords |-> None] /\ enabled' = 0
    /\ token' = Plain
    /\ todo' = <<Stats, Leave, Finish>>
    /\ status' = "parsing"
    /\ missed' = {} /\ stray' = {}
    /\ UNCHANGED levels
-----------------------------------------------------------------------------
(* Blocks and names.                                                       *)
EnterBlock ==
    /\ Doing("enter") /\ Then(<<>>)
    /\ blocks' = Append(blocks, Block(inTerra > 0))
    /\ UNCHANGED <<cnts, inTerra, lang, levels, token, status, bounds, tables>>

(* unimportlanguages: the last n languages and their entry points.         *)
Unimport(n) ==
    LET rest == SubSeq(languages, 1, Len(languages) - n)
        gone == {languages[i] : i \in Len(rest) + 1 .. Len(languages)}
    IN  /\ languages' = rest
        /\ entry' = [e \in Keywords |->
                        IF \E l \in gone : e \in EntryPoints[l] THEN None ELSE entry[e]]
        /\ enabled' = enabled - n

(* leaveblock                                                              *)
LeaveBlock == blocks' = Pop(blocks) /\ Unimport(Top.exts)

Leaves ==
    /\ Doing("leave") /\ Then(<<>>)
    /\ LeaveBlock
    /\ UNCHANGED <<cnts, inTerra, levels, token, status, bounds, tables>>

Defines ==
    /\ \/ Doing("define") /\ blocks' = Bound(Declared(blocks, Arg), Arg)
       \/ Doing("declare") /\ blocks' = Declared(blocks, Arg)
       \/ Doing("bind") /\ blocks' = Bound(blocks, Top.defined)
    /\ Then(<<>>)
    /\ UNCHANGED <<cnts, inTerra, lang, levels, token, status, bounds, tables>>

Refers ==
    /\ Doing("ref") /\ Reference(Arg) /\ Then(<<>>)
    /\ UNCHANGED <<blocks, inTerra, lang, levels, token, bounds, tables>>

Token ==
    /\ Doing("token") /\ token = Plain /\ LexNext /\ Then(<<>>)
    /\ UNCHANGED <<scopes, lang, levels, status, bounds, tables>>

LeaveLevel ==
    /\ Doing("down") /\ levels' = levels - 1 /\ Then(<<>>)
    /\ UNCHANGED <<scopes, lang, token, status, bounds, tables>>
-----------------------------------------------------------------------------
(* Terra constructs.                                                       *)
EnterTerraCnt ==
    /\ Doing("enterterra") /\ Then(<<>>)
    /\ inTerra' = inTerra + 1
    /\ blocks' = Append(blocks, Block(TRUE))
    /\ cnts' = Append(cnts, Construct(Len(blocks) + 1))
    /\ UNCHANGED <<lang, levels, token, status, bounds, tables>>

(* leaveterra, and the construct is replaced by a call with the table of   *)
(* what it captured.  The locals it defines are defined now.  terrastats   *)
(* puts its own in the table: what they were before does not matter.       *)
LeaveTerraCnt ==
    LET tc == cnts[Len(cnts)]
        own == Head(todo)[3]
    IN
    /\ Doing("leaveterra") /\ Then(<<>>)
    /\ blocks' = Bound(Declared(Pop(blocks), Arg), Arg)
    /\ Unimport(Top.exts)
    /\ cnts' = Pop(cnts)
    /\ inTerra' = inTerra - 1
    /\ missed' = missed \cup {m \in tc.needed : m[1] \notin tc.captured \cup own}
    /\ stray' = stray \cup {n \in tc.captured : ~LocalBelow(n, tc.block)}
    /\ UNCHANGED <<levels, token, status, bounds>>

(* embeddedcode: Lua code inside of Terra.                                 *)
EmbeddedCode ==
    /\ Doing("embedded")
    /\ IF inTerra = 0 THEN status' = "assert" ELSE UNCHANGED status
    /\ inTerra' = 0
    /\ blocks' = Append(blocks, Block(FALSE))
    /\ Then(Arg \o <<Resume(inTerra)>>)
    /\ UNCHANGED <<cnts, lang, levels, token, bounds, tables>>

(* Mutant of Resumed: the rest is taken for Terra at the outermost level.  *)
ResumedOnce(n) == 0

Resumed(n) == n

ResumeTerra ==
    /\ Doing("resume") /\ Then(<<>>)
    /\ LeaveBlock
    /\ inTerra' = Resumed(Arg)
    /\ UNCHANGED <<cnts, levels, token, status, bounds, tables>>
-----------------------------------------------------------------------------
(* Languages.                                                              *)

(* Mutant of MayImport: an entry point may be taken over.                  *)
MayImportAlways(l) == TRUE

(* importlanguage: an entry point that is taken already is an error.       *)
MayImport(l) == \A e \in EntryPoints[l] : entry[e] = None

(* The import statement.                                                   *)
Import(l) ==
    /\ Doing("stats") /\ token = Plain /\ inTerra = 0 /\ Spend
    /\ levels < MaxLevels
    /\ MayImport(l)
    /\ languages' = Append(languages, l)
    /\ entry' = [e \in Keywords |-> IF e \in EntryPoints[l] THEN l ELSE entry[e]]
    /\ enabled' = enabled + 1
    /\ blocks' = [blocks EXCEPT ![Len(blocks)].exts = @ + 1]
    /\ token' \in {Plain} \cup {e \in Keywords : fuel' > 0 /\ entry'[e] # None}
    /\ UNCHANGED <<cnts, inTerra, levels, todo, status, tables>>

(* languageextension, up to runlanguage; the language finds its word.      *)
(* A word that was an entry point when it was read and is none any more    *)
(* has no language: the index of nil is an error that nobody catches.      *)
LanguageExtension(e, local, rest) ==
    IF entry[e] = None
    THEN status' = "luaerror" /\ UNCHANGED todo
    ELSE todo' = <<EnterTerra, Language(local)>> \o rest /\ UNCHANGED status

(* le_next: the language reads a token.                                    *)
LanguageReads ==
    /\ Doing("language") /\ LexNext /\ UNCHANGED todo
    /\ UNCHANGED <<scopes, lang, levels, status, bounds, tables>>

(* le_embeddedcode: lex:luaexpr, luastats, terraexpr, terrastats.          *)
LanguageEmbeds ==
    /\ Doing("language") /\ Spend
    /\ \E ops \in {<<Expr>>, <<Stats>>, QuoteExp, QuoteStats(<<>>)} :
            Then(<<Embedded(ops), Head(todo)>>)
    /\ UNCHANGED <<scopes, lang, levels, token, status, tables>>

(* runlanguage returns: the names given to lex:ref are references, those   *)
(* of a local statement will be defined.                                   *)
LanguageReturns ==
    /\ Doing("language")
    /\ \E refs \in {<<>>} \cup {<<Ref(n)>> : n \in Names},
          ns \in IF Arg THEN (SUBSET Names) \ {{}} ELSE {{}} :
            Then(refs \o <<LeaveLanguage(ns)>>)
    /\ UNCHANGED <<scopes, lang, levels, token, status, bounds, tables>>

(* Mutant of StackChecked: nobody looks.                                   *)
StackUnchecked(n) == TRUE

(* languageextension leaves nothing on the stack of trees: inside of Terra *)
(* RETURNS_1 finds that out.                                               *)
StackChecked(n) == n = 0

CheckReturns1 ==
    /\ Doing("returns1") /\ Then(<<>>)
    /\ status' = IF StackChecked(inTerra) THEN status ELSE "syntax"
    /\ UNCHANGED <<scopes, lang, levels, token, bounds, tables>>
-----------------------------------------------------------------------------
(* Statements.                                                             *)
StatementIs(ops) ==
    /\ Doing("stats") /\ Spend /\ EnterLevel
    /\ todo' = ops \o <<Down>> \o todo

(* statlist ends at a word that no statement begins with.                  *)
EndStatements ==
    /\ Doing("stats") /\ token = Plain /\ Then(<<>>)
    /\ UNCHANGED <<scopes, lang, levels, token, status, bounds, tables>>

(* exprstat, retstat, defer.                                               *)
ExprStatement ==
    /\ Doing("stats") /\ token = Plain /\ EnterLevel
    /\ todo' = <<Expr, Down>> \o todo
    /\ UNCHANGED <<scopes, lang, token, status, bounds, tables>>

(* The statements that Lua and Terra have both.                            *)
CommonStatement ==
    /\ token = Plain /\ LexNext
    /\ \/ StatementIs(CondRule)
       \/ StatementIs(RepeatRule)
       \/ \E n \in Names : \/ StatementIs(FornumRule({n}))
                          \/ StatementIs(ForlistRule({n}))
                          \/ StatementIs(LocalRule({n}))
    /\ UNCHANGED <<scopes, lang, status, tables>>

(* funcstat, localfunc; check_no_terra                                     *)
FunctionStatement ==
    /\ token = Plain /\ inTerra = 0 /\ LexNext
    /\ \E n \in Names : \/ StatementIs(<<Ref(n)>> \o Body({}))
                       \/ StatementIs(<<Define({n})>> \o Body({}))
    /\ UNCHANGED <<scopes, lang, status, tables>>

(* terrastats: a definition, or two of which the second is a declaration.  *)
Definitions(kind, params) ==
    [kind : {kind}, local : BOOLEAN, name : Names, params : params]

TerraStatement ==
    /\ token = Plain /\ inTerra = 0 /\ LexNext
    /\ \/ \E d \in Definitions("terra", SUBSET Names) \cup Definitions("struct", {{}}) :
            StatementIs(<<EnterTerra>> \o Definition(d) \o <<LeaveTerra(Local(d))>>)
       \/ \E d \in Definitions("terra", {{}}), f \in Definitions("declared", {{}}) :
            StatementIs(<<EnterTerra>> \o Definition(d) \o Definition(f)
                            \o <<LeaveTerra(Local(d) \cup Local(f))>>)
    /\ UNCHANGED <<scopes, lang, status, tables>>

(* blockescape as a statement; check_terra                                 *)
EscapeStatement ==
    /\ token = Plain /\ inTerra > 0 /\ LexNext
    /\ StatementIs(<<Embedded(<<Stats>>), Tok>>)
    /\ UNCHANGED <<scopes, lang, status, tables>>

(* A language extension as a statement, or a local one; check_no_terra     *)
LanguageStatement ==
    /\ Doing("stats") /\ inTerra = 0 /\ Spend /\ EnterLevel
    /\ \/ /\ token # Plain /\ UNCHANGED token
          /\ LanguageExtension(token, FALSE, <<Down>> \o todo)
       \/ \E e \in Lexed(entry) \ {Plain} :
            token = Plain /\ token' = e /\ LanguageExtension(e, TRUE, <<Down>> \o todo)
    /\ UNCHANGED <<scopes, lang, tables>>
-----------------------------------------------------------------------------
(* Expressions.                                                            *)

(* subexpr and simpleexp: one operand stands for those operators join.     *)

(* singlevar                                                               *)
Variable(n) ==
    /\ Doing("expr") /\ token = Plain /\ levels < MaxLevels /\ LexNext
    /\ Reference(n) /\ Then(<<>>)
    /\ UNCHANGED <<blocks, inTerra, lang, levels, bounds, tables>>

Literal ==
    /\ Doing("expr") /\ token = Plain /\ levels < MaxLevels /\ LexNext /\ Then(<<>>)
    /\ UNCHANGED <<scopes, lang, levels, status, bounds, tables>>

OperandIs(ops) ==
    /\ Doing("expr") /\ token = Plain /\ Spend /\ EnterLevel /\ LexNext
    /\ Then(ops \o <<Down>>)
    /\ UNCHANGED <<scopes, lang, status, tables>>

FunctionOperand == \E ns \in SUBSET Names : OperandIs(Body(ns))

(* doquote, anonymous functions and structs; check_no_terra                *)
TerraOperand ==
    /\ inTerra = 0
    /\ \/ OperandIs(QuoteExp)
       \/ OperandIs(QuoteStats(In))
       \/ OperandIs(<<EnterTerra, Type, Tok, LeaveTerra({})>>)
       \/ \E ns \in SUBSET Names :
            OperandIs(<<EnterTerra>> \o TerraBody(ns) \o <<LeaveTerra({})>>)

(* An escape, [ exp ] or escape ... end; check_terra                       *)
EscapeOperand ==
    /\ inTerra > 0
    /\ \/ OperandIs(<<Type, Tok>>)
       \/ OperandIs(<<Embedded(<<Stats>>), Tok>>)

(* A language extension as an expression: nothing keeps it out of Terra.   *)
LanguageOperand ==
    /\ Doing("expr") /\ token # Plain /\ Spend /\ EnterLevel
    /\ LanguageExtension(token, FALSE, <<Returns1, Down>> \o Tail(todo))
    /\ UNCHANGED <<scopes, lang, token, tables>>

(* The end of luaY_parser.                                                 *)
EndParse ==
    /\ Doing("finish") /\ Then(<<>>) /\ status' = "done"
    /\ UNCHANGED <<scopes, lang, levels, token, bounds, tables>>

Next ==
    \/ SyntaxError \/ TooManyLevels \/ ParseAgain
    \/ EnterBlock \/ Leaves \/ Defines \/ Refers \/ Token \/ LeaveLevel
    \/ EnterTerraCnt \/ LeaveTerraCnt \/ EmbeddedCode \/ ResumeTerra
    \/ \E l \in Languages : Import(l)
    \/ LanguageReads \/ LanguageEmbeds \/ LanguageReturns \/ CheckReturns1
    \/ EndStatements \/ ExprStatement \/ CommonStatement \/ FunctionStatement
    \/ TerraStatement \/ EscapeStatement \/ LanguageStatement
    \/ \E n \in Names : Variable(n)
    \/ Literal \/ FunctionOperand \/ TerraOperand \/ EscapeOperand
    \/ LanguageOperand \/ EndParse

Spec == Init /\ [][Next]_vars
-----------------------------------------------------------------------------
(* Properties.                                                             *)

(* in_terra tells what kind of code is read: it agrees with the innermost  *)
(* block, through all nesting of Lua in Terra in Lua, and the assertions of*)
(* refvariable and embeddedcode hold: a walk never runs out of Terra       *)
(* constructs, and Lua is only embedded in Terra.                          *)
InTerraIsTop ==
    /\ status # "assert"
    /\ blocks # <<>> => (Top.terra <=> inTerra > 0)

(* All that is ever missed are names in the header of a loop or function   *)
(* that binds the same name itself.                                        *)
MissedOnlyInHeaders == status = "done" => \A m \in missed : m[2]

(* What is captured is a local of the Lua code around the construct: its   *)
(* table names nothing that is not there.                                  *)
CapturedAreLocals == status = "done" => stray = {}

(* The imports whose blocks are open.                                      *)
Imports(bs) ==
    LET sum[i \in 0 .. Len(bs)] == IF i = 0 THEN 0 ELSE sum[i - 1] + bs[i].exts
    IN  sum[Len(bs)]

(* A word is an entry point of a language exactly while the block of its   *)
(* import is open, and the counts of languages agree.                      *)
EntryPointsMatch ==
    LET open == {languages[i] : i \in DOMAIN languages} IN
    /\ \A e \in Keywords, l \in Languages :
            entry[e] = l <=> l \in open /\ e \in EntryPoints[l]
    /\ enabled = Len(languages)
    /\ enabled = Imports(blocks)

(* The current token goes stale, an entry point of a language that is gone,*)
(* only where a repeat loop ends: its condition is read past the import.   *)
Stale == token # Plain /\ entry[token] = None
StaleOnlyAfterUntil ==
    [][Stale' /\ ~Stale => Doing("leave") /\ Arg = "repeat"]_vars
=============================================================================
