-------------------------------- MODULE Lexer ---------------------------------
(***************************************************************************)
(* Tokenizer::run: a file is read line by line, and each line cut into     *)
(* tokens by patterns tried in a fixed order.  Offsets into a line count   *)
(* from 0, as in the code.                                                 *)
(***************************************************************************)
EXTENDS SchemaTokens

CONSTANTS
    Texts,    \* the files: sequences of lines
    Leftover  \* the stream an earlier run left behind

VARIABLES
    text,        \* the file
    lines,       \* what getline made of it so far, the last is being cut
    bad,         \* in.bad(): a read failed
    m_stream,    \* the tokens
    start,       \* the offset into the line
    outcome      \* how run ended

input == <<text, lines, bad>>
vars  == <<input, m_stream, start, outcome>>

lineNumber == Len(lines)
Line == lines[lineNumber]

(* How many characters from an offset on are in a set. *)
Span(line, offset, S) ==
    CHOOSE n \in 0 .. Len(line) - offset :
        /\ \A i \in 1 .. n : line[offset + i] \in S
        /\ offset + n < Len(line) => line[offset + n + 1] \notin S

At(line, offset, w) ==
    offset + Len(w) <= Len(line) /\ SubSeq(line, offset + 1, offset + Len(w)) = w

-----------------------------------------------------------------------------
(* Each match returns the length of the lexeme at an offset, or 0.         *)

match_comment_(line, offset) ==
    IF At(line, offset, <<"/", "/">>) THEN Len(line) - offset ELSE 0

match_string_literal_(line, offset) ==
    LET ends == {i \in offset + 2 .. Len(line) : line[i] = "\""}
    IN  IF line[offset + 1] # "\"" \/ ends = {} THEN 0
        ELSE (CHOOSE i \in ends : \A j \in ends : i <= j) - offset

SignLength(line, offset) == IF line[offset + 1] \in Signs THEN 1 ELSE 0

HexNumber(line, offset) ==
    LET digits == offset + SignLength(line, offset)
        length == IF At(line, digits, <<"0", "x">>) THEN Span(line, digits + 2, HexDigits) ELSE 0
    IN  IF length = 0 THEN 0 ELSE SignLength(line, offset) + 2 + length

DecimalNumber(line, offset) ==
    LET length == Span(line, offset + SignLength(line, offset), Digits)
    IN  IF length = 0 THEN 0 ELSE SignLength(line, offset) + length

FirstOf(m, n) == IF m # 0 THEN m ELSE n

\* Fault: decimal numbers are tried first.
DecimalFirst(line, offset) == FirstOf(DecimalNumber(line, offset), HexNumber(line, offset))

match_number_(line, offset) == FirstOf(HexNumber(line, offset), DecimalNumber(line, offset))

match_punc_or_op_(line, offset) ==
    FirstOf(IF \E w \in DoublePunctuation : At(line, offset, w) THEN 2 ELSE 0,
            IF line[offset + 1] \in SinglePunctuation THEN 1 ELSE 0)

match_name_(line, offset) ==
    IF line[offset + 1] \in Letters THEN Span(line, offset, Letters \cup Digits) ELSE 0

-----------------------------------------------------------------------------
Throws(error, stream) ==
    outcome' = error /\ m_stream' = stream /\ UNCHANGED start

(* Token types are tried by the beginning of a name only. *)
disambiguate_name_(value) ==
    IF value[1] = "func_" THEN "function_name"
    ELSE IF Len(value) = 1 /\ value[1] \in Keywords THEN "keyword"
    ELSE IF value[1] \in BaseTypes THEN "type"
    ELSE IF At(value, 0, <<"struct_">>) /\ Len(value) > 1 /\ value[2] \in Letters THEN "type"
    ELSE "identifier"

\* Fault: a literal of the greatest length is refused.
LiteralAtLimit(length) == length - 2 >= MaxLiteral

\* The quotation marks do not count, nor do they in SchemaTokens.
LiteralTooLong(length) == length - 2 > MaxLiteral

\* Fault: only what is put into the stream moves the offset.
AdvanceByStored(type, length) == IF type = "comment" THEN 0 ELSE length

(* The value's length, and 2 more for the marks of a literal. *)
Advance(type, length) == length

\* Fault: comments stay in the stream.
KeepComments(token) == m_stream' = Append(m_stream, token)

(* Comments are not stored. *)
Store(token) ==
    m_stream' = IF token.type = "comment" THEN m_stream ELSE Append(m_stream, token)

(* The token at an offset: its type by the first pattern that matches.     *)
get_token_(offset) ==
    LET comment == match_comment_(Line, offset)
        literal == match_string_literal_(Line, offset)
        number  == match_number_(Line, offset)
        punc    == match_punc_or_op_(Line, offset)
        name    == match_name_(Line, offset)
        value(n) == SubSeq(Line, offset + 1, offset + n)
    IN  IF comment # 0 THEN [type |-> "comment", value |-> value(comment), length |-> comment]
        ELSE IF literal # 0
             THEN [type |-> "string_literal", length |-> literal,
                   value |-> SubSeq(Line, offset + 2, offset + literal - 1)]
        ELSE IF number # 0 THEN [type |-> "numeric_literal", value |-> value(number), length |-> number]
        ELSE IF punc # 0 THEN [type |-> "punctuation", value |-> value(punc), length |-> punc]
        ELSE IF name # 0 THEN [type |-> disambiguate_name_(value(name)), value |-> value(name),
                               length |-> name]
        ELSE [type |-> "invalid", value |-> <<>>, length |-> 0]

IsNameType(type) == type \in {"function_name", "keyword", "type", "identifier"}

Refused(token) ==
    \/ token.type = "invalid"
    \/ token.type = "string_literal" /\ LiteralTooLong(token.length)
    \/ token.type = "numeric_literal" /\ token.length > MaxNumber
    \/ IsNameType(token.type) /\ token.length > MaxName

(* A round of the inner loop.  A token is put at the end of the stream     *)
(* before it is known, and stays there, half made, if it is refused.       *)
GetToken ==
    LET offset == start + Span(Line, start, Blank)
        found  == get_token_(offset)
        token  == [type |-> found.type, value |-> found.value,
                   line |-> lineNumber, column |-> offset + 1]
    IN  /\ outcome = "running" /\ lineNumber # 0
        /\ offset < Len(Line)
        /\ UNCHANGED input
        /\ IF Refused(found)
           THEN Throws("refused", Append(m_stream, token))
           ELSE /\ Store(token)
                /\ start' = offset + Advance(found.type, found.length)
                /\ UNCHANGED outcome

LineIsCut == lineNumber # 0 => start + Span(Line, start, Blank) = Len(Line)

NextLine(line) ==
    /\ outcome = "running" /\ LineIsCut
    /\ lines' = Append(lines, line)
    /\ UNCHANGED text
    /\ IF Len(line) > MaxLine THEN Throws("refused", m_stream)
       ELSE start' = 0 /\ UNCHANGED <<m_stream, outcome>>

GetLine ==
    /\ ~bad /\ lineNumber < Len(text)
    /\ NextLine(text[lineNumber + 1])
    /\ UNCHANGED bad

(* A read of the file fails; what it brought of the line is cut as usual.  *)
ReadError ==
    /\ ~bad /\ lineNumber < Len(text)
    /\ \E n \in 0 .. Len(text[lineNumber + 1]) : NextLine(SubSeq(text[lineNumber + 1], 1, n))
    /\ bad' = TRUE

eos == [type |-> "meta_eos", value |-> <<>>, line |-> lineNumber + 1, column |-> 1]

Finish ==
    /\ outcome = "running" /\ LineIsCut
    /\ bad \/ lineNumber = Len(text)
    /\ IF bad THEN Throws("unreadable", m_stream)
       ELSE outcome' = "done" /\ m_stream' = Append(m_stream, eos) /\ UNCHANGED start
    /\ UNCHANGED input

(* run resets the stream once the file is open. *)
Run ==
    /\ outcome = "none"
    /\ \/ outcome' = "running" /\ m_stream' = <<>> /\ UNCHANGED start
       \/ Throws("not opened", m_stream)
    /\ UNCHANGED input

Init ==
    /\ text \in Texts
    /\ m_stream \in {<<>>, Leftover}
    /\ lines = <<>> /\ bad = FALSE /\ start = 0 /\ outcome = "none"

Next == Run \/ GetLine \/ GetToken \/ Finish \/ ReadError

(* run goes on until it returns or throws. *)
Spec == Init /\ [][Next]_vars /\ WF_vars(Next)

-----------------------------------------------------------------------------
TypeOK ==
    /\ outcome \in {"none", "running", "done", "refused", "unreadable", "not opened"}
    /\ lineNumber # 0 =>
           /\ start \in 0 .. Len(Line)
           /\ Front(lines) \o <<text[lineNumber]>> = SubSeq(text, 1, lineNumber)
           /\ IF bad THEN IsPrefix(Line, text[lineNumber]) ELSE Line = text[lineNumber]
    /\ \A i \in DOMAIN m_stream : m_stream[i].type # "comment"

(* A run that returns leaves the whole text in the stream, each token the  *)
(* longest that is one, with its type and place (tokenizer.cpp:177: "The   *)
(* parse order below should not be changed to prevent mis-identification   *)
(* of tokens") and within the limits of the code; a file read in part does *)
(* not pass for one.                                                       *)
ReadsAsGrammar ==
    outcome = "done" => Reading(text).legal /\ m_stream = Reading(text).tokens

(* A run refuses only what has an error, at the first of them: the tokens  *)
(* before it are in the stream, and at most a half made one more.  The     *)
(* error may be where a failed read broke the line off: then it is that,   *)
(* and not the read, that is reported (tokenizer.cpp:83-107).              *)
RefusesFirstError ==
    outcome = "refused" =>
        /\ ~Reading(lines).legal
        /\ Reading(lines).tokens \in {m_stream, Front(m_stream)}

(* run returns or throws: every lexeme moves the offset, also an empty     *)
(* literal and a comment, which leave nothing in the stream or no value.   *)
Ends == <>(outcome \in {"done", "refused", "unreadable", "not opened"})
=============================================================================
