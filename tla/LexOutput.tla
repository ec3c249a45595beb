----------------------------- MODULE LexOutput -----------------------------
(***************************************************************************)
(* The parser's use of the output buffer (src/lparser.cpp, src/llex.cpp):  *)
(* what it replaces by calls that build Terra objects, the separators it   *)
(* adds, and the pieces of Lua code it cuts out and loads by themselves.   *)
(*                                                                         *)
(* As in ParserScopes recursive descent is a stack of operations, todo.    *)
(* An operation carries the tokens that the function has kept in its local *)
(* variables, from before it replaced anything.  The grammar has of each   *)
(* kind of construct that writes to the buffer one, of all expressions     *)
(* those whose end is not in their own tokens.                             *)
(***************************************************************************)
EXTENDS Lexer

VARIABLES
    todo,       \* what is left to do, first operation first
    inTerra,    \* in_terra
    split       \* where the tokens are that issplitprimary made a new statement

vars == <<input, out, lines, tokens, lx, status, todo, inTerra, split>>

NoText == <<>>
-----------------------------------------------------------------------------
(* The buffer.                                                             *)
Newlines(s) == Cardinality({i \in DOMAIN s : s[i].c = "\n"})
Copy(s) == [i \in DOMAIN s |-> [s[i] EXCEPT !.copied = s[i].at # 0]]

(* luaX_getoutput, luaX_saveoutput: what there is from a token to t        *)
Output(begin) == SubSeq(out, begin.begin + 1, t.begin)

(* The loop of luaX_patchbegin: leading white space stays, as a break of   *)
(* two characters it counts twice.                                         *)
Skipped(begin) ==
    LET n == CHOOSE n \in 0 .. Len(out) - begin.begin :
                 /\ \A i \in 1 .. n : out[begin.begin + i].c \in Breaks \cup Blanks
                 /\ begin.begin + n < Len(out) =>
                        out[begin.begin + n + 1].c \notin Breaks \cup Blanks
        ws == SubSeq(out, begin.begin + 1, begin.begin + n)
    IN  [begin EXCEPT !.begin = @ + n,
                      !.linebegin = @ + Cardinality({i \in DOMAIN ws : ws[i].c \in Breaks})]

Times(n, cell) == [i \in 1 .. n |-> cell]

Shifted(tok, by, from) == [tok EXCEPT !.begin = (@ + by) - from]

(* Mutants of Patch: the token read ahead stays where it was; no newlines. *)
PatchNoLookahead(begin, text) ==
    LET b == Skipped(begin)
        last == b.linebegin + Newlines(text)
        upto == SubSeq(out, 1, b.begin) \o text \o
                Times(IF t.linebegin > last THEN t.linebegin - last ELSE 0, Wrote("\n"))
    IN  /\ out' = upto \o SubSeq(out, t.begin + 1, Len(out))
        /\ t' = Shifted(t, Len(upto), t.begin)
        /\ UNCHANGED lookahead
PatchOneLine(begin, text) ==
    LET upto == SubSeq(out, 1, Skipped(begin).begin) \o text
    IN  /\ out' = upto \o SubSeq(out, t.begin + 1, Len(out))
        /\ t' = Shifted(t, Len(upto), t.begin)
        /\ lookahead' = Shifted(lookahead, Len(upto), t.begin)

(* luaX_patchbegin, the text, luaX_patchend: the text takes the place of   *)
(* everything from begin to t; newlines make up for the lines it was on.   *)
Patch(begin, text) ==
    LET b == Skipped(begin)
        last == b.linebegin + Newlines(text)
        upto == SubSeq(out, 1, b.begin) \o text \o
                Times(IF t.linebegin > last THEN t.linebegin - last ELSE 0, Wrote("\n"))
    IN  /\ out' = upto \o SubSeq(out, t.begin + 1, Len(out))
        /\ t' = Shifted(t, Len(upto), t.begin)
        /\ lookahead' = Shifted(lookahead, Len(upto), t.begin)

Separator == Wrote(";")

(* Mutant of Insert: Lua is left to see the new statement for itself.      *)
InsertNothing(cell) == UNCHANGED <<out, tokens>>

(* luaX_insertbeforecurrenttoken                                           *)
Insert(cell) ==
    /\ out' = SubSeq(out, 1, t.begin) \o <<cell>> \o SubSeq(out, t.begin + 1, Len(out))
    /\ t' = [t EXCEPT !.begin = @ + 1]
    /\ lookahead' = [lookahead EXCEPT !.begin = @ + 1]

(* lua_load and luaL_loadbuffer accept what the parser accepted, but for a *)
(* separator in an argument list and an arrow that was not replaced.       *)
Misplaced(text, i) ==
    /\ i \in 1 .. Len(text) - 1
    /\ \/ text[i] = Separator /\ text[i + 1] \in {Wrote(","), Wrote(")")}
       \/ text[i].c = "-" /\ text[i + 1].c = ">"
Loads(text) == \A i \in DOMAIN text : ~Misplaced(text, i)
-----------------------------------------------------------------------------
(* Operations.                                                             *)
Tok == <<"next">>                       \* luaX_next
Expect(k) == <<"expect", k>>            \* checknext
Look == <<"look">>                      \* luaX_lookahead
Sub(limit) == <<"sub", limit>>          \* subexpr
Embed(isterra) == <<"embed", isterra>>  \* embeddedcode of an expression
Written(begin, text, d) == <<"written", begin, text, d>>    \* patch; in_terra back by d

Parsing == lx = Idle /\ status = "parsing" /\ todo # <<>>
Head1 == todo[1]
At(k) == Parsing /\ Head1[1] = k
Put(ops) == todo' = ops \o Tail(todo)
Becomes(ops) == Put(ops) /\ UNCHANGED <<input, out, lines, tokens, lx, status, inTerra, split>>
SyntaxError == /\ status' = "syntax" /\ todo' = <<>>
               /\ UNCHANGED <<input, out, lines, tokens, lx, inTerra, split>>

Nexts == /\ At("next") \/ (At("expect") /\ t.token = Head1[2])
         /\ LuaXNext /\ Put(<<>>) /\ UNCHANGED <<inTerra, split>>
Unexpected == At("expect") /\ t.token # Head1[2] /\ SyntaxError
Looks == At("look") /\ LuaXLookahead /\ Put(<<>>) /\ UNCHANGED <<inTerra, split>>

(* A construct's text replaces it, and leaveterra.                         *)
Writes ==
    /\ At("written")
    /\ Patch(Head1[2], Head1[3])
    /\ inTerra' = inTerra - Head1[4]
    /\ Put(<<>>) /\ UNCHANGED <<input, lines, lx, status, split>>

Enters(ops) == /\ inTerra' = inTerra + 1 /\ Put(ops)
               /\ UNCHANGED <<input, out, lines, tokens, lx, status, split>>
-----------------------------------------------------------------------------
(* Statements.                                                             *)
Statement ==
    /\ At("stats")
    /\ \/ t.token = "struct" /\ Enters(<<<<"definition", t>>, <<"stats">>>>)
       \/ t.token = "local" /\ Becomes(<<Tok, <<"local">>, <<"stats">>>>)
       \/ t.token = "lang" /\ Enters(<<<<"language", t, FALSE>>, <<"stats">>>>)
       \/ t.token \in {Name, "("} /\ Becomes(<<<<"primary">>, <<"assign">>, <<"stats">>>>)
       \/ t.token \notin {"struct", "local", "lang", Name, "(", EOS} /\ SyntaxError

LocalStat ==
    \/ /\ At("local")
       /\ \/ t.token = "struct" /\ Enters(<<<<"definition", t>>>>)
          \/ t.token = "lang" /\ Enters(<<<<"language", t, FALSE>>>>)
          \/ t.token \notin {"struct", "lang"} /\ Becomes(<<Expect(Name), <<"assign">>>>)
    \/ /\ At("assign")
       /\ \/ t.token = "=" /\ Becomes(<<Tok, Sub(0)>>)
          \/ t.token # "=" /\ Becomes(<<>>)

(* terrastats: definitions that follow one another become one call.        *)
Defined(begin) ==
    Written(begin, <<Wrote("terra.defineobjects("), Wrote(")")>>, 1)

Terrastats ==
    \/ /\ At("definition")
       /\ Becomes(<<Tok, Expect(Name), <<"structdef">>, <<"further", Head1[2]>>>>)
    \/ /\ At("structdef")
       /\ \/ t.token = "{" /\ Becomes(<<Tok, <<"fields">>>>)
          \/ t.token # "{" /\ Becomes(<<>>)
    \/ /\ At("further")         \* startsTerraStat
       /\ \/ t.token = "struct" /\ Becomes(<<<<"definition", Head1[2]>>>>)
          \/ t.token = "local" /\ Becomes(<<Look, <<"further local", Head1[2]>>>>)
          \/ t.token \notin {"struct", "local"} /\ Becomes(<<Defined(Head1[2])>>)
    \/ /\ At("further local")
       /\ \/ lookahead.token = "struct" /\ Becomes(<<Tok, <<"definition", Head1[2]>>>>)
          \/ lookahead.token # "struct" /\ Becomes(<<Defined(Head1[2])>>)

(* structbody                                                              *)
Structbody ==
    \/ /\ At("fields")
       /\ \/ t.token = "}" /\ Becomes(<<Tok>>)
          \/ t.token # "}" /\ Becomes(<<Expect(Name), Expect(":"), Embed(FALSE),
                                        <<"comma">>, <<"fields">>>>)
    \/ /\ At("comma")
       /\ \/ t.token = "," /\ Becomes(<<Tok>>)
          \/ t.token # "," /\ Becomes(<<>>)
-----------------------------------------------------------------------------
(* subexpr.                                                                *)
Left == [k \in {"-", "->", "=="} |-> CASE k = "-" -> 6 [] k = "->" -> 3 [] k = "==" -> 3]
Right == [k \in {"-", "->", "=="} |-> CASE k = "-" -> 6 [] k = "->" -> 2 [] k = "==" -> 3]
Unary == 9

Subexpr ==
    /\ At("sub")
    /\ \/ t.token = "&" /\ Becomes(<<Tok, <<"operand", t, Head1[2]>>>>)
       \/ t.token # "&" /\ Becomes(<<<<"simple">>, <<"binary", t, Head1[2]>>>>)

(* &e: the text of e is read before white space in front of & is skipped.  *)
Pointer ==
    \/ /\ At("operand")
       /\ Becomes(<<Sub(Unary), <<"pointer", Head1[2], t, Head1[3]>>>>)
    \/ /\ At("pointer")
       /\ Patch(Head1[2], <<Wrote("terra.types.pointer(")>> \o Copy(Output(Head1[3]))
                              \o <<Wrote(")")>>)
       /\ Put(<<<<"binary", Skipped(Head1[2]), Head1[4]>>>>)
       /\ UNCHANGED <<input, lines, lx, status, inTerra, split>>

Trimmed(text) ==
    LET blank == {i \in DOMAIN text : \A j \in 1 .. i : text[j].c \in Breaks \cup Blanks}
    IN  SubSeq(text, Cardinality(blank) + 1, Len(text))

(* a -> b: the text of a is kept only if -> is the first operator.         *)
Operators ==
    \/ /\ At("binary")
       /\ Becomes(<<<<"more", Head1[2],
                      IF t.token = "->" THEN Trimmed(Output(Head1[2])) ELSE NoText,
                      Head1[3]>>>>)
    \/ /\ At("more")
       /\ \/ /\ t.token \in DOMAIN Left /\ Left[t.token] > Head1[4]
             /\ Becomes(<<Tok, <<"right", Head1[2], Head1[3], Right[t.token], Head1[4]>>>>)
          \/ /\ ~(t.token \in DOMAIN Left /\ Left[t.token] > Head1[4])
             /\ Becomes(<<>>)
    \/ /\ At("right")
       /\ Becomes(<<Sub(Head1[4]), <<"combine", Head1[2], Head1[3], t, Head1[5]>>>>)
    \/ /\ At("combine") /\ Head1[3] = NoText
       /\ Becomes(<<<<"more", Head1[2], NoText, Head1[5]>>>>)
    \/ /\ At("combine") /\ Head1[3] # NoText
       /\ Patch(Head1[2], <<Wrote("terra.types.funcpointer(")>> \o Copy(Head1[3])
                              \o <<Wrote(",")>> \o Copy(Output(Head1[4])) \o <<Wrote(")")>>)
       /\ Put(<<<<"more", Skipped(Head1[2]), NoText, Head1[5]>>>>)
       /\ UNCHANGED <<input, lines, lx, status, inTerra, split>>
-----------------------------------------------------------------------------
(* simpleexp, prefixexp.                                                   *)
Quote(begin) == <<"quote", begin>>
Definequote(begin) == Written(begin, <<Wrote("(terra.definequote("), Wrote("))")>>, 1)

Simple ==
    \/ /\ At("simple")
       /\ \/ t.token \in {Number, String} /\ Becomes(<<Tok>>)
          \/ t.token = "{" /\ Becomes(<<Tok, <<"items">>>>)
          \/ t.token = "quote" /\ Becomes(<<Quote(t)>>)
          \/ t.token = "lang" /\ Enters(<<<<"language", t, FALSE>>>>)
          \/ t.token = "struct" /\ inTerra = 0
             /\ Enters(<<Tok, Expect("{"), <<"fields">>,
                         Written(t, <<Wrote("terra.anonstruct("), Wrote(")")>>, 1)>>)
          \/ t.token = "struct" /\ inTerra # 0 /\ SyntaxError
          \/ t.token \notin {Number, String, "{", "quote", "lang", "struct"}
             /\ Becomes(<<<<"primary">>>>)
    \/ /\ At("quote")           \* doquote: check_no_terra, enterterra
       /\ \/ inTerra # 0 /\ SyntaxError
          \/ inTerra = 0
             /\ Enters((IF t.token = "quote" THEN <<Tok>> ELSE <<>>)
                       \o <<Sub(0), Definequote(Head1[2])>>)
    \/ /\ At("primary")
       /\ \/ t.token = Name /\ Becomes(<<Tok, <<"suffix">>>>)
          \/ t.token = "(" /\ Becomes(<<Tok, Sub(0), Expect(")"), <<"suffix">>>>)
          \/ t.token = "[" /\ inTerra # 0
             /\ Becomes(<<Tok, Embed(FALSE), Expect("]"), <<"suffix">>>>)
          \/ t.token \notin {Name, "("} /\ ~(t.token = "[" /\ inTerra # 0) /\ SyntaxError

(* constructor: a name may be a key, which the token after it tells.       *)
Constructor ==
    \/ /\ At("items")
       /\ \/ t.token = "}" /\ Becomes(<<Tok>>)
          \/ t.token = Name /\ Becomes(<<Look, <<"field">>, <<"sep">>>>)
          \/ t.token \notin {"}", Name} /\ Becomes(<<Sub(0), <<"sep">>>>)
    \/ /\ At("field")
       /\ \/ lookahead.token = "=" /\ Becomes(<<Tok, Tok, Sub(0)>>)
          \/ lookahead.token # "=" /\ Becomes(<<Sub(0)>>)
    \/ /\ At("sep")
       /\ \/ t.token = "," /\ Becomes(<<Tok, <<"items">>>>)
          \/ t.token # "," /\ Becomes(<<Expect("}")>>)

(* primaryexp: what would be a call is a new statement on a new line.      *)
IsSplit == lastline # linenumber
Suffix ==
    /\ At("suffix")
    /\ \/ t.token \in {"(", "quote", "["} /\ IsSplit
          /\ Insert(Separator) /\ split' = split \cup {t.from} /\ Put(<<>>)
          /\ UNCHANGED <<input, lines, lx, status, inTerra>>
       \/ t.token = "(" /\ ~IsSplit /\ Becomes(<<Tok, <<"args">>, <<"suffix">>>>)
       \/ t.token = "quote" /\ ~IsSplit /\ Becomes(<<Quote(t), <<"suffix">>>>)
       \/ t.token = "[" /\ ~IsSplit /\ Becomes(<<Tok, Sub(0), Expect("]"), <<"suffix">>>>)
       \/ t.token = "{" /\ Becomes(<<Tok, <<"items">>, <<"suffix">>>>)
       \/ t.token = String /\ Becomes(<<Tok, <<"suffix">>>>)
       \/ t.token \notin {"(", "quote", "[", "{", String} /\ Becomes(<<>>)
Args == /\ At("args")
        /\ \/ t.token = ")" /\ Becomes(<<Tok>>)
           \/ t.token # ")" /\ Becomes(<<Sub(0), Expect(")")>>)
-----------------------------------------------------------------------------
(* embeddedcode: the text of the Lua code is loaded by itself.             *)
Embedded ==
    \/ /\ At("embed")
       /\ inTerra' = 0
       /\ Put(<<IF Head1[2] THEN Quote(t) ELSE Sub(0), <<"embedded", t, inTerra>>>>)
       /\ UNCHANGED <<input, out, lines, tokens, lx, status, split>>
    \/ /\ At("embedded")
       /\ inTerra' = Head1[3]
       /\ IF Loads(Output(Head1[2])) THEN UNCHANGED status /\ Put(<<>>)
                                     ELSE status' = "load" /\ todo' = <<>>
       /\ UNCHANGED <<input, out, lines, tokens, lx, split>>

(* languageextension: the language, one of names and expressions, reads    *)
(* names, looks one token ahead (once for a token: runlanguage remembers)  *)
(* and embeds code; its constructor's call replaces what it read.          *)
Language ==
    /\ At("language")
    /\ \/ t.token \in {Name, "lang"} /\ Becomes(<<Tok, <<"language", Head1[2], FALSE>>>>)
       \/ ~Head1[3] /\ Becomes(<<Look, <<"language", Head1[2], TRUE>>>>)
       \/ t.from # Head1[2].from /\ \E isterra \in BOOLEAN :
              Becomes(<<Embed(isterra), <<"language", Head1[2], FALSE>>>>)
       \/ t.from # Head1[2].from /\ Becomes(<<Written(Head1[2],
              <<Wrote("_G.terra._trees[]("), Wrote(")")>>, 1)>>)

(* luaY_parser: the main function's text is loaded.                        *)
Finish ==
    /\ At("stats") /\ t.token = EOS
    /\ status' = IF Loads(out) THEN "done" ELSE "load"
    /\ todo' = <<>>
    /\ UNCHANGED <<input, out, lines, tokens, lx, inTerra, split>>

Init == LexInit /\ todo = <<Tok, <<"stats">>>> /\ inTerra = 0 /\ split = {}

Lexes == Llex /\ UNCHANGED <<todo, inTerra, split>>

Parse == \/ Nexts \/ Unexpected \/ Looks \/ Writes
         \/ Statement \/ LocalStat \/ Terrastats \/ Structbody
         \/ Subexpr \/ Pointer \/ Operators \/ Simple \/ Constructor \/ Suffix \/ Args
         \/ Embedded \/ Language \/ Finish

Next == Lexes \/ Parse
Spec == Init /\ [][Next]_vars
-----------------------------------------------------------------------------
(* Properties.                                                             *)

(* Reference: the lines that the characters of a text are on, by Lua's     *)
(* rule.                                                                   *)
Lines(text) ==
    LET ends[j \in 0 .. Len(text)] ==      \* has a break ended with j, lines so far
            IF j = 0 \/ text[j] \notin Breaks
            THEN <<FALSE, IF j = 0 THEN 1 ELSE ends[j - 1][2]>>
            ELSE IF ends[j - 1][1] /\ text[j] # text[j - 1]
            THEN <<FALSE, ends[j - 1][2]>>
            ELSE <<TRUE, ends[j - 1][2] + 1>>
    IN  [i \in 1 .. Len(text) + 1 |-> ends[i - 1][2]]

(* What the parser has not consumed is in the buffer as it was read, from  *)
(* the place noted with the current token on, and, with a token read       *)
(* ahead, from the place noted with that one on: whatever was replaced in  *)
(* front of it, and whenever.                                              *)
Unread(tok) == SubSeq(out, tok.begin + 1, Len(out)) =
                   [i \in 1 .. Len(source) - tok.from + 1 |-> Read(tok.from + i - 1)]
TokenInPlace ==
    /\ t # NoToken => Unread(t)
    /\ lookahead.token # EOS => Unread(lookahead)

(* No token is read ahead while there is one already (the assertion of     *)
(* luaX_lookahead; without assertions the first one would be lost).        *)
LookaheadFree == status # "assert"

(* The lexer counts lines as Lua does.  What the parser copies stays on    *)
(* its line, so that Lua's messages name it; within the operands of & and  *)
(* -> it may come earlier (a comment, or a break in front of the arrow, is *)
(* left out) but never later.  This is for source whose lines end in \n:   *)
(* of \r\n in front of a construct luaX_patchbegin makes two lines.        *)
LinesKept ==
    LET line == Lines(source)
        outline == Lines([i \in DOMAIN out |-> out[i].c]) IN
    /\ t.token # EOS => t.linebegin = line[t.from]
    /\ "\r" \notin ToSet(source) =>
         \A i \in DOMAIN out :
             out[i].at # 0 => IF out[i].copied THEN outline[i] <= line[out[i].at]
                                               ELSE outline[i] = line[out[i].at]

(* What lua_load is given: the whole chunk, or code that is embedded.      *)
Loaded == IF status = "done" THEN {out} ELSE IF At("embedded") THEN {Output(Head1[2])} ELSE {}

(* Where the parser saw a new statement on a new line, Lua is shown a      *)
(* separator, unless the statement ends in a construct that was replaced   *)
(* after the separator was written; and in what Lua is given a separator   *)
(* is nowhere else but at the end of an operand of & and ->.  (The rest is *)
(* wrong: Lua reads a call, or a separator in the middle of one.)          *)
Separators ==
    /\ \A i \in DOMAIN out :
          /\ out[i].at \in split /\ ~out[i].copied
          => i > 1 /\ out[i - 1].at = 0
    /\ \A text \in Loaded : \A i \in DOMAIN text \ {Len(text)} :
          text[i] = Separator => \/ text[i + 1].at \in split
                                \/ text[i + 1] \in {Wrote(","), Wrote(")")}
=============================================================================
