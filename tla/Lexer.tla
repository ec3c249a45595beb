------------------------------- MODULE Lexer -------------------------------
(***************************************************************************)
(* The lexer (src/llex.cpp).  It copies every character it reads to an     *)
(* output buffer, one character ahead of the tokens it returns, and notes  *)
(* with each token where in the buffer and on which line the token and the *)
(* white space in front of it begin.  The parser uses that to replace      *)
(* parts of the buffer, which is what Lua is given in the end.             *)
(*                                                                         *)
(* llex is a machine that reads a character per step: its mode is the      *)
(* place in the code that next is called from.  The reader decides what it *)
(* returns as it is asked.                                                 *)
(***************************************************************************)
EXTENDS Integers, Sequences, FiniteSets, SequencesExt

CONSTANTS
    Chunks      \* bound: the chunks that are read.  The reader returns blocks of
                \* characters; what each block may be is given block by block.

Breaks == {"\n", "\r"}
Blanks == {" ", "\t"}
Digits == {"1"}
Reserved == {"struct", "local"}     \* a word that is spelt out is one character here
Entries == {"lang"}                 \* TA_ENTRY_POINT_TABLE
Letters == {"x"} \cup Reserved \cup Entries
Signs == {"&", "-", ">", "(", ")", "{", "}", "[", "]", "quote", ":", "=", ",", ".", "~", "<"}
Delimiters == {"'"}
Characters == Breaks \cup Blanks \cup Digits \cup Letters \cup Signs \cup Delimiters \cup {"\\", "z"}
EOZ == "EOZ"

ASSUME ChunksAssumption ==
    \A chunk \in Chunks : /\ chunk # <<>>
                          /\ \A i \in DOMAIN chunk : \A b \in chunk[i] :
                                b \in Seq(Characters) /\ b # <<>>

VARIABLES
    block, blocks,  \* the reader: what is left of its block, what the next may be
    source,         \* what has been read
    current,        \* the character llex looks at: the last of source
    out,            \* output_buffer: cells
    linenumber, lastline,
    t, lookahead,   \* the current token, and the one after it
    lx,             \* the call of llex
    status

input == <<block, blocks, source, current>>
lines == <<linenumber, lastline>>
tokens == <<t, lookahead>>

EOS == "<eof>"
Name == "<name>"
String == "<string>"
Number == "<number>"

(* A cell of the buffer: a character read, or text the parser wrote (at is *)
(* 0).  at and copied are what the properties know of it.                  *)
Read(i) == [c |-> source[i], at |-> i, copied |-> FALSE]
Wrote(s) == [c |-> s, at |-> 0, copied |-> FALSE]

Idle == [mode |-> "idle"]
NoToken == [token |-> EOS, linebegin |-> 0, begin |-> 0, from |-> 0]
-----------------------------------------------------------------------------
(* next                                                                    *)
NextChar(c) ==
    /\ \/ block # <<>> /\ c = Head(block) /\ block' = Tail(block) /\ UNCHANGED blocks
       \/ /\ block = <<>> /\ blocks # <<>>
          /\ \E b \in Head(blocks) : c = Head(b) /\ block' = Tail(b)
          /\ blocks' = Tail(blocks)
       \/ block = <<>> /\ c = EOZ /\ UNCHANGED block /\ blocks' = <<>>
    /\ current' = c
    /\ IF c = EOZ THEN UNCHANGED <<source, out>>
                  ELSE /\ source' = Append(source, c)
                       /\ out' = Append(out, [c |-> c, at |-> Len(source) + 1, copied |-> FALSE])

Chars == Characters \cup {EOZ}

(* luaX_setinput                                                           *)
LexInit ==
    /\ \E chunk \in Chunks, b \in UNION {h[1] : h \in Chunks} :
          /\ b \in chunk[1] /\ block = Tail(b) /\ source = <<Head(b)>>
          /\ blocks = Tail(chunk)
    /\ current = source[1]
    /\ out = <<[c |-> source[1], at |-> 1, copied |-> FALSE]>>
    /\ linenumber = 1 /\ lastline = 1
    /\ t = NoToken /\ lookahead = NoToken
    /\ lx = Idle /\ status = "parsing"

(* llex is called: buffer_begin counts current, which is in the buffer.    *)
Begin(to) ==
    lx' = [mode |-> "start", to |-> to, back |-> "start", text |-> <<>>, level |-> 0,
           linebegin |-> linenumber, begin |-> Len(out) - 1, from |-> Len(source)]

(* luaX_next, luaX_lookahead                                               *)
LuaXNext ==
    /\ lastline' = linenumber
    /\ IF lookahead.token # EOS
       THEN t' = lookahead /\ lookahead' = [lookahead EXCEPT !.token = EOS] /\ UNCHANGED lx
       ELSE Begin("t") /\ UNCHANGED tokens
    /\ UNCHANGED <<input, out, linenumber, status>>

LuaXLookahead ==
    /\ IF lookahead.token # EOS THEN status' = "assert" /\ UNCHANGED lx
                                ELSE Begin("lookahead") /\ UNCHANGED status
    /\ UNCHANGED <<input, out, lines, tokens>>
-----------------------------------------------------------------------------
(* The steps of llex.                                                      *)
In(m) == lx.mode = m /\ status = "parsing"
Moved(m) == lx' = [lx EXCEPT !.mode = m]
On == UNCHANGED <<lastline, tokens, status>>
Stay(m) == Moved(m) /\ UNCHANGED <<input, out, linenumber>> /\ On
Skip(m) == (\E c \in Chars : NextChar(c)) /\ Moved(m) /\ UNCHANGED linenumber /\ On

Returned(tok) ==
    /\ lx' = Idle
    /\ IF lx.to = "t" THEN t' = tok /\ UNCHANGED lookahead
                      ELSE lookahead' = tok /\ UNCHANGED t
    /\ UNCHANGED <<lines, status>>
Token(k) == [token |-> k, linebegin |-> lx.linebegin, begin |-> lx.begin, from |-> lx.from]
Return(k) == Returned(Token(k)) /\ UNCHANGED <<input, out>>
SkipReturn(k) == (\E c \in Chars : NextChar(c)) /\ Returned(Token(k))

LexError == status' = "lexerror" /\ UNCHANGED <<input, out, lines, tokens, lx>>

(* inclinenumber: \n, \r, \n\r or \r\n; then llex goes on where it was.    *)
ToBreak(back) ==
    /\ lx' = [lx EXCEPT !.mode = "break", !.back = back]
    /\ UNCHANGED <<input, out, linenumber>> /\ On
Broken(second, ends) ==
    \E c \in Chars :
        /\ NextChar(c)
        /\ IF ~second /\ c \in Breaks /\ c # current
           THEN Moved("break2") /\ UNCHANGED linenumber
           ELSE Moved(lx.back) /\ linenumber' = linenumber + ends
        /\ On
IncLineNumber ==
    \/ In("break") /\ Broken(FALSE, 1)
    \/ In("break2") /\ Broken(TRUE, 1)

Pairs == {<<"=", "=">>, <<"~", "=">>, <<"<", "=">>, <<"<", "<">>, <<">", "=">>,
          <<">", ">">>, <<":", ":">>}

(* llex                                                                    *)
Start ==
    /\ In("start")
    /\ \/ current \in Breaks /\ ToBreak("start")
       \/ current \in Blanks /\ Skip("start")
       \/ current = "-" /\ Skip("dash")
       \/ current \in {"[", "."} /\ Skip(current)
       \/ current \in {p[1] : p \in Pairs}
          /\ (\E c \in Chars : NextChar(c))
          /\ lx' = [lx EXCEPT !.mode = "pair", !.text = <<current>>]
          /\ UNCHANGED linenumber /\ On
       \/ current \in Delimiters
          /\ (\E c \in Chars : NextChar(c))
          /\ lx' = [lx EXCEPT !.mode = "string", !.text = <<current>>]
          /\ UNCHANGED linenumber /\ On
       \/ current \in Digits /\ Skip("numeral")
       \/ current \in Letters \cup {"z"} /\ Stay("word")
       \/ current = EOZ
          /\ Returned([Token(EOS) EXCEPT !.begin = Len(out), !.from = Len(source) + 1])
          /\ UNCHANGED <<input, out>>
       \/ current \in (Signs \cup {"\\"}) \ ({"-", "[", "."} \cup {p[1] : p \in Pairs})
          /\ SkipReturn(current)

Pair ==
    /\ In("pair")
    /\ \/ <<lx.text[1], current>> \in Pairs /\ SkipReturn(lx.text[1] \o current)
       \/ <<lx.text[1], current>> \notin Pairs /\ Return(lx.text[1])

Dots ==
    \/ In(".") /\ \/ current = "." /\ Skip("..")
                  \/ current \in Digits /\ Stay("numeral")
                  \/ current \notin Digits \cup {"."} /\ Return(".")
    \/ In("..") /\ \/ current = "." /\ SkipReturn("...")
                   \/ current # "." /\ Return("..")

(* '-', '->' or a comment                                                  *)
Dash ==
    \/ In("dash") /\ \/ current = ">" /\ SkipReturn("->")
                     \/ current = "-" /\ Skip("comment")
                     \/ current \notin {"-", ">"} /\ Return("-")
    \/ In("comment") /\ \/ current = "[" /\ Skip("comment[")
                        \/ current # "[" /\ Stay("short")
    \/ In("short") /\ \/ current \in Breaks \cup {EOZ} /\ Stay("start")
                      \/ current \notin Breaks \cup {EOZ} /\ Skip("short")

(* skip_sep and read_long_string, of a string ('[') or a comment           *)
Equals == /\ current = "="
          /\ (\E c \in Chars : NextChar(c))
          /\ lx' = [lx EXCEPT !.text = Append(@, "=")]
          /\ UNCHANGED linenumber /\ On
LongOpens(kind) ==
    (\E c \in Chars : NextChar(c)) /\ UNCHANGED linenumber /\ On
    /\ lx' = [lx EXCEPT !.mode = "long0", !.level = Len(lx.text), !.text = <<kind>>]
LongSep ==
    \/ In("[") /\ \/ Equals
                  \/ current = "[" /\ LongOpens("string")
                  \/ current \notin {"=", "["} /\ lx.text = <<>> /\ Return("[")
                  \/ current \notin {"=", "["} /\ lx.text # <<>> /\ LexError
    \/ In("comment[") /\ \/ Equals
                         \/ current = "[" /\ LongOpens("comment")
                         \/ current \notin {"=", "["} /\ Stay("short")

Long ==
    \/ In("long0") /\ IF current \in Breaks THEN ToBreak("long") ELSE Stay("long")
    \/ In("long") /\ \/ current = EOZ /\ LexError
                     \/ current = "]" /\ (\E c \in Chars : NextChar(c))
                        /\ lx' = [lx EXCEPT !.mode = "]", !.text = SubSeq(@, 1, 1)]
                        /\ UNCHANGED linenumber /\ On
                     \/ current \in Breaks /\ ToBreak("long")
                     \/ current \notin Breaks \cup {"]", EOZ} /\ Skip("long")
    \/ In("]") /\ LET closes == current = "]" /\ Len(lx.text) - 1 = lx.level IN
                  \/ Equals
                  \/ closes /\ lx.text[1] = "string" /\ SkipReturn(String)
                  \/ closes /\ lx.text[1] = "comment"
                     /\ (\E c \in Chars : NextChar(c))
                     /\ lx' = [lx EXCEPT !.mode = "start", !.text = <<>>]
                     /\ UNCHANGED linenumber /\ On
                  \/ current # "=" /\ ~closes /\ Stay("long")

(* read_string: an escaped line break goes on, \z skips white space        *)
ReadString ==
    \/ In("string") /\ \/ current \in Breaks \cup {EOZ} /\ LexError
                       \/ current = lx.text[1] /\ SkipReturn(String)
                       \/ current = "\\" /\ Skip("escape")
                       \/ current \notin Breaks \cup {EOZ, "\\", lx.text[1]} /\ Skip("string")
    \/ In("escape") /\ \/ current \in Breaks /\ ToBreak("string")
                       \/ current = "z" /\ Skip("zap")
                       \/ current = EOZ /\ Stay("string")
                       \/ current \in Delimiters \cup Digits \cup {"\\"} /\ Skip("string")
                       \/ current \notin Breaks \cup Delimiters \cup Digits \cup {"z", "\\", EOZ}
                          /\ LexError
    \/ In("zap") /\ \/ current \in Breaks /\ ToBreak("zap")
                    \/ current \in Blanks /\ Skip("zap")
                    \/ current \notin Breaks \cup Blanks /\ Stay("string")

(* read_numeral: treadnumber refuses what has two points                   *)
Numeral ==
    /\ In("numeral")
    /\ \/ current \in Digits \cup Letters \cup {"z", "."} /\ Skip("numeral")
       \/ current \notin Digits \cup Letters \cup {"z", "."} /\ (Return(Number) \/ LexError)

Word ==
    /\ In("word")
    /\ \/ /\ current \in Letters \cup Digits \cup {"z"}
          /\ (\E c \in Chars : NextChar(c))
          /\ lx' = [lx EXCEPT !.text = Append(@, current)]
          /\ UNCHANGED linenumber /\ On
       \/ /\ current \notin Letters \cup Digits \cup {"z"}
          /\ Return(IF Len(lx.text) = 1 /\ lx.text[1] \in Reserved \cup Entries
                    THEN lx.text[1] ELSE Name)

Llex == \/ Start \/ IncLineNumber \/ Pair \/ Dots \/ Dash \/ LongSep \/ Long
        \/ ReadString \/ Numeral \/ Word
=============================================================================
