---- MODULE MCLexOutput ----
EXTENDS LexOutput

After(ws, texts) == {w \o x : w \in ws, x \in texts}
None == <<>>
Space == <<" ">>
Line == <<"\n">>
Comment == <<"-", "-", "\n">>
Some == {Space, Line}
X == <<"x">>
Def == <<"struct", " ", "x">>
LocalDef == <<"local", " ">> \o Def

(* Operands: what comes before and after them on the same or another line. *)
Opens == {<<"&">>, X \o <<"-", ">">>, <<"quote">>, X \o <<"-">>, X \o <<"(">>, <<"{", "x">>}
Expressions ==
    <<{X \o <<"=">>}, After({None, Line, Comment}, Opens), After(Some, Opens), After(Some, {X}),
      After(Some, {<<"(", "x", ")">>, <<"-", ">", "x">>, <<"quote", "x">>, <<"}">>, <<")">>, <<"=", "x">>})>>

(* Definitions, with types in them and one read ahead after them.          *)
Definitions ==
    <<{Def, LocalDef}, After(Some, {<<"{", "x", ":">>}),
      After({Space, Comment}, {<<"&">>, X \o <<"-", ">">>, <<"lang">>}),
      After(Some, {<<"x", "}">>, <<"x", ",", "}">>}),
      After(Some, {Def, LocalDef, <<"local", " ", "x", "=">>, X \o <<"=">>}),
      After({Space}, {X, <<"quote", "[", "x", "]">>, <<"struct", "{", "}">>})>>

(* Languages.                                                              *)
Languages ==
    <<{<<"lang">>, <<"local", " ", "lang">>, <<"x", "=", "lang">>}, After({Line}, {X, <<"&", "x">>}),
      After(Some, {<<"lang">>, <<"-", ">", "x">>, X \o <<"-", ">">>}),
      After({Line}, {X, <<"(", "x", ")">>})>>

(* Code embedded in a language, at a token where the code before it ends.  *)
Embeddings ==
    <<{<<"lang">>}, {<<"\n", "x">>}, {Space, Comment}, {<<"quote", " ", "x">>, <<"&", "x">>},
      {<<"\n", "quote", "x">>, Line}>>

(* The lexer: kinds of white space and tokens.                             *)
Trivia == {None, <<" ">>, <<"\r", "\n">>, <<"\n", "\r", "\r">>, Comment, <<"-", "-", "[", "x", "\n">>,
           <<"-", "-", "[", "[", "\r", "\n", "]", "]">>,
           <<"-", "-", "[", "=", "[", "]", "]", "=", "]">>, <<"-", "-", "[", "=", "x">>}
Texts == {<<"[", "[", "\n", "x", "]", "]">>, <<"[", "=", "[", "\r", "]", "=", "]">>, <<"[", "=", "x">>,
          <<"'", "\\", "\r", "\n", "x", "'">>, <<"'", "\\", "z", " ", "\n", "x", "'">>, <<"'", "\\", "1", "'">>,
          <<"'", "\\", "x">>, <<"'", "\n">>, <<"'", "\\">>, <<"1", ".", "x">>, <<".", "1">>, <<"x", "1", "struct">>,
          <<".", ".", ".">>, <<".", ".", "x">>, <<".", "x">>, <<"~", "=">>, <<"-", "x">>, X, <<"&", "x">>, <<"[", "x">>,
          <<"x", "[", "x", "]", "{", "1", "}">>, <<"{", "'", "x", "'", ",", "}">>, <<"x", "(", ")", "'", "'">>}
Lexemes == <<{X, <<"\r", "\n", "x">>}, After({None, Comment, <<"\n", "\r">>}, {<<"=">>}), After(Trivia, Texts),
             {<<"\n", "x">>, <<"\r", "\n", "x">>}, {<<"=">>}, {<<"&">>, <<"1">>}, {X}>>

MCChunks == {Expressions, Definitions, Languages, Embeddings, Lexemes}
====
