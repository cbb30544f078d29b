----------------------------- MODULE SchemaTokens -----------------------------
(***************************************************************************)
(* The tokens of a schema: which words are tokens, as its grammar has it,  *)
(* and the reading of a text as a sequence of them, each as long as can    *)
(* be.  The limits are not the grammar's but those of limits.hpp, and a    *)
(* name may begin with an underscore.  A line is a sequence of characters; *)
(* a run of letters that matters as a whole, such as "if", counts as one.  *)
(***************************************************************************)
EXTENDS Integers, Sequences, FiniteSets, SequencesExt

CONSTANTS
    MaxLine, MaxName, MaxNumber, MaxLiteral  \* the longest line, name, number, literal

Blank     == {" "}
Digits    == {"0", "1"}
HexDigits == Digits \cup {"a"}
Keywords  == {"if"}
BaseTypes == {"int8"}
Letters   == {"a", "x", "struct_", "func_"} \cup Keywords \cup BaseTypes
Signs     == {"+", "-"}

SinglePunctuation == {".", ":", ";", "<", ">", "{", "}", "[", "]", "(", ")",
                      "=", "+", "-", "*", "/", "%", "!"}
DoublePunctuation == {<<":", ":">>, <<"<", "=">>, <<"=", "=">>, <<">", "=">>,
                      <<"!", "=">>, <<"&", "&">>, <<"|", "|">>}

AllIn(w, S)  == \A i \in DOMAIN w : w[i] \in S
Unsigned(w)  == IF w # <<>> /\ Head(w) \in Signs THEN Tail(w) ELSE w

IsComment(w) == Len(w) >= 2 /\ w[1] = "/" /\ w[2] = "/"
IsLiteral(w) == Len(w) >= 2 /\ {i \in DOMAIN w : w[i] = "\""} = {1, Len(w)}
IsDecimal(w) == w # <<>> /\ AllIn(w, Digits)
IsHex(w)     == Len(w) > 2 /\ w[1] = "0" /\ w[2] = "x" /\ AllIn(Tail(Tail(w)), HexDigits)
IsNumber(w)  == IsDecimal(Unsigned(w)) \/ IsHex(Unsigned(w))
IsPunctuation(w) == w \in DoublePunctuation \/ (Len(w) = 1 /\ w[1] \in SinglePunctuation)
IsName(w)    == w # <<>> /\ w[1] \in Letters /\ AllIn(w, Letters \cup Digits)

IsLexeme(w) ==
    IsComment(w) \/ IsLiteral(w) \/ IsNumber(w) \/ IsPunctuation(w) \/ IsName(w)

(* The length of the longest lexeme at a place of a line, 0 if none. *)
LongestAt(line, p) ==
    LET lengths == {n \in 1 .. Len(line) - p + 1 : IsLexeme(SubSeq(line, p, p + n - 1))}
    IN  IF lengths = {} THEN 0 ELSE CHOOSE n \in lengths : \A k \in lengths : k <= n

TypeOfName(w) ==
    IF w[1] = "func_" THEN "function_name"
    ELSE IF Len(w) = 1 /\ w[1] \in Keywords THEN "keyword"
    ELSE IF Len(w) = 1 /\ w[1] \in BaseTypes THEN "type"
    ELSE IF Len(w) > 1 /\ w[1] = "struct_" /\ w[2] \in Letters THEN "type"
    ELSE "identifier"

TypeOf(w) ==
    IF IsComment(w) THEN "comment"
    ELSE IF IsLiteral(w) THEN "string_literal"
    ELSE IF IsNumber(w) THEN "numeric_literal"
    ELSE IF IsPunctuation(w) THEN "punctuation"
    ELSE TypeOfName(w)

(* The quotation marks are not part of a literal's value. *)
ValueOf(w) == IF IsLiteral(w) THEN SubSeq(w, 2, Len(w) - 1) ELSE w

(* As limits.hpp:27-43 has it.  The grammar would have a literal's marks   *)
(* count, "([^"]){0, 118}", and a name be one character longer,            *)
(* [a-zA-Z][_a-zA-Z0-9]{0,120} (C4 Schema Grammar.txt:214, :216).          *)
TooLong(w) ==
    \/ IsLiteral(w) /\ Len(w) - 2 > MaxLiteral
    \/ IsNumber(w) /\ Len(w) > MaxNumber
    \/ IsName(w) /\ Len(w) > MaxName

(* The tokens of a line from a place on, and where its first error is.     *)
TokensFrom(line, number) ==
    LET read[p \in 1 .. Len(line) + 1] ==
          LET n == LongestAt(line, p)
              w == SubSeq(line, p, p + n - 1)
              rest == read[p + n]
          IN  IF p > Len(line) THEN [tokens |-> <<>>, error |-> 0]
              ELSE IF line[p] \in Blank THEN read[p + 1]
              ELSE IF n = 0 \/ TooLong(w) THEN [tokens |-> <<>>, error |-> p]
              ELSE IF IsComment(w) THEN rest
              ELSE [rest EXCEPT !.tokens =
                      <<[type |-> TypeOf(w), value |-> ValueOf(w),
                         line |-> number, column |-> p]>> \o @]
    IN  IF Len(line) > MaxLine THEN [tokens |-> <<>>, error |-> 1] ELSE read[1]

EndOfStream(text) ==
    [type |-> "meta_eos", value |-> <<>>, line |-> Len(text) + 1, column |-> 1]

(* The tokens before the first error of a text, or all, and the end.       *)
Reading(text) ==
    LET lines  == [i \in DOMAIN text |-> TokensFrom(text[i], i)]
        errors == {i \in DOMAIN text : lines[i].error # 0}
        last   == IF errors = {} THEN Len(text) ELSE CHOOSE i \in errors : \A j \in errors : i <= j
        tokens == FlattenSeq([i \in 1 .. last |-> lines[i].tokens])
    IN  IF errors = {}
        THEN [legal |-> TRUE, tokens |-> tokens \o <<EndOfStream(text)>>]
        ELSE [legal |-> FALSE, tokens |-> tokens]
=============================================================================
