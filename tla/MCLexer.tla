------------------------------- MODULE MCLexer --------------------------------
(* Every line of up to three of the characters, and lines and files of     *)
(* tokens that touch each other, are too long, or break off; and each of   *)
(* these with a read that fails at any character.                          *)
EXTENDS Lexer

Chars == {" ", "\"", "/", "-", "0", "1", "a", "x", "if", "func_", "struct_", "<", "=", "&", "#"}

Pieces == {<<"0", "x", "a">>, <<"-", "0", "x", "1">>, <<"\"", "\"">>, <<"\"", "a", "/", "\"">>,
           <<"\"", "/", "/", "a">>, <<"/", "/">>, <<"int8">>, <<"struct_", "a">>, <<"struct_">>,
           <<"struct_", "1">>, <<"func_", "a">>, <<"1", "-", "1">>, <<"&", "&">>, <<"&", "#">>,
           <<":", ":", ":">>, <<"!", "=", "=">>, <<"|", "|">>, <<"a", "1", "x", "a">>, <<" ">>}

Tails == {<<>>, <<"\"">>, <<"/", "/">>, <<"int8">>, <<"=">>, <<"1", "a">>}

Lines(n) == UNION {[1 .. k -> Chars] : k \in 0 .. n}

(* A name that begins with a base type is a type in the code, whatever     *)
(* follows: int8 stands alone.                                             *)
Plain(line) == \A i \in 1 .. Len(line) - 1 : line[i] \in BaseTypes => line[i + 1] \notin Letters \cup Digits

MCTexts == {<<line>> : line \in Lines(3)}
             \cup {<<line>> : line \in {l \in {p \o q \o r : p \in Pieces, q \in Pieces, r \in Tails} : Plain(l)}}
             \cup {<<p, q, <<>>>> : p, q \in {l \in Pieces : Plain(l)}}

MCLeftover == <<[type |-> "identifier", value |-> <<"a">>, line |-> 1, column |-> 1]>>
=============================================================================
