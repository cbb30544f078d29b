-------------------------- MODULE ExpressionParser --------------------------
(***************************************************************************)
(* expression_parser::Parser, a Pratt parser that evaluates while it       *)
(* parses.  The C++ call stack is calls; the operands are on m_stack,      *)
(* which belongs to the Parser and not to a call of parse: the subscript   *)
(* of a node reference is parsed by a call of parse within parse.          *)
(* A token is a record of its type and value.  Variable_manager::get is    *)
(* known by its results (see VariableManager for how it finds them).       *)
(***************************************************************************)
EXTENDS Integers, SequencesExt

CONSTANTS
    Texts,        \* the token sequences to parse, each ending in a token End
    Leftovers,    \* what an earlier parse that threw may have left on m_stack
    Known,        \* the values of the paths and enumerator references get finds
    Scope,        \* the "::" between an enum and its enumerator in Known
    MaxInt        \* the largest int

\* The values of int.
Ints == (-MaxInt - 1)..MaxInt

ASSUME MaxIntAssumption == MaxInt \in Nat \ {0}
ASSUME KnownAssumption == \A path \in DOMAIN Known : Known[path] \in Ints
ASSUME LeftoversAssumption == Leftovers \subseteq Seq(Ints)
ASSUME TextsAssumption ==
    \A t \in Texts : Len(t) \in Nat \ {0} /\ t[Len(t)] = [type |-> "end", value |-> 0]

VARIABLES
    text, index,    \* the tokenizer
    m_stack,
    calls,          \* the calls in progress, outermost first
    status,         \* "new", "parsing", then how parse_expression ends: "value",
                    \* "rejected", "thrown", or "undefined" for undefined behaviour
    value           \* what parse returned

vars == <<text, index, m_stack, calls, status, value>>

-----------------------------------------------------------------------------
(* Tokens.  Those of no concern to expressions, clamped by get_token_info_ *)
(* to the last row of the table, have the type "end".                      *)

Token(type, val) == [type |-> type, value |-> val]
Symbol(type) == Token(type, 0)
End == Symbol("end")

UnaryOperators == {"-", "+", "!"}
BinaryOperators == {"*", "/", "%", "-", "+", "<", "<=", ">=", ">", "==", "!=", "&&", "||"}

\* Fault: minus and plus bind no closer than comparisons do.
lbpAdditiveLow(type) ==
    CASE type \in {"*", "/", "%"}                      -> 80
      [] type \in {"-", "+", "<", "<=", ">=", ">"}     -> 60
      [] type \in {"==", "!="}                         -> 50
      [] type = "&&"                                   -> 40
      [] type = "||"                                   -> 30
      [] type = "end"                                  -> -1
      [] OTHER                                         -> 0
lbp(type) ==
    CASE type \in {"*", "/", "%"}         -> 80
      [] type \in {"-", "+"}              -> 70
      [] type \in {"<", "<=", ">=", ">"}  -> 60
      [] type \in {"==", "!="}            -> 50
      [] type = "&&"                      -> 40
      [] type = "||"                      -> 30
      [] type = "end"                     -> -1
      [] OTHER                            -> 0
\* Every row of the table has the same number twice, the one of "!" 0 for both.
rbp(type) == lbp(type)

-----------------------------------------------------------------------------
(* Arithmetic of int.  Division truncates; what does not fit is undefined. *)

Fits(n) == n \in Ints
Truth(holds) == IF holds THEN 1 ELSE 0
Magnitude(n) == IF n < 0 THEN -n ELSE n
Quotient(l, r) ==
    LET q == Magnitude(l) \div Magnitude(r) IN IF (l < 0) = (r < 0) THEN q ELSE -q

BinaryValue(op, l, r) ==
    CASE op = "-"  -> l - r
      [] op = "+"  -> l + r
      [] op = "*"  -> l * r
      [] op = "/"  -> Quotient(l, r)
      [] op = "%"  -> l - r * Quotient(l, r)
      [] op = "&&" -> Truth(l # 0 /\ r # 0)
      [] op = "||" -> Truth(l # 0 \/ r # 0)
      [] op = "<"  -> Truth(l < r)
      [] op = "<=" -> Truth(l <= r)
      [] op = "==" -> Truth(l = r)
      [] op = "!=" -> Truth(l # r)
      [] op = ">=" -> Truth(l >= r)
      [] op = ">"  -> Truth(l > r)
\* Fault: results are taken to be wide enough.
BinaryDefinedUnbounded(op, l, r) == op \in {"/", "%"} => r # 0
BinaryDefined(op, l, r) ==
    IF op \in {"/", "%"} THEN r # 0 /\ Fits(Quotient(l, r)) ELSE Fits(BinaryValue(op, l, r))

UnaryValue(op, r) ==
    CASE op = "-" -> -r
      [] op = "+" -> r
      [] op = "!" -> Truth(r = 0)

-----------------------------------------------------------------------------
Current == text[index]
After   == text[index + 1]

Top   == Last(calls)
Under == Front(calls)
In(fn) == status = "parsing" /\ Top.fn = fn
AtNud(type) == In("expr") /\ Top.at = "nud" /\ Current.type = type

\* expr_ before its call of nud_, and in its loop.
Expression(power) == [fn |-> "expr", rbp |-> power, at |-> "nud"]
Looping == Append(Under, [Top EXCEPT !.at = "led"])

Operator(fn, op) == [fn |-> fn, op |-> op]
Plain(fn) == [fn |-> fn]
Path(names) == [fn |-> "path", path |-> names]

push_(n) == m_stack' = Append(m_stack, n)

\* An exception leaves the operands where they are: nothing unwinds m_stack.
Throw(outcome) ==
    /\ status' = outcome
    /\ calls' = <<>>
    /\ UNCHANGED <<text, m_stack, value>>

\* The value of a name, pushed on return to the calls below, or get's exception.
PushValueOf(path, below) ==
    IF path \in DOMAIN Known
    THEN /\ push_(Known[path])
         /\ calls' = below
         /\ UNCHANGED <<text, status, value>>
    ELSE Throw("thrown")

-----------------------------------------------------------------------------
(* parse, called by phase one or two, and what its caller gets back.       *)

\* Fault: the operands of an earlier parse stay.
ParseNoClear ==
    /\ status = "new"
    /\ status' = "parsing"
    /\ calls' = <<Plain("parse"), Expression(0)>>
    /\ UNCHANGED <<text, index, m_stack, value>>
Parse ==
    /\ status = "new"
    /\ status' = "parsing"
    /\ m_stack' = <<>>
    /\ calls' = <<Plain("parse"), Expression(0)>>
    /\ UNCHANGED <<text, index, value>>

Return ==
    /\ In("parse") /\ Len(calls) = 1
    /\ value' = Last(m_stack)
    /\ m_stack' = Front(m_stack)
    /\ status' = "value"
    /\ calls' = <<>>
    /\ UNCHANGED <<text, index>>

-----------------------------------------------------------------------------
(* nud_ and the null denotations.                                          *)

NoNud ==
    /\ In("expr") /\ Top.at = "nud"
    /\ Current.type \notin UnaryOperators \cup {"number", "identifier", "("}
    /\ index' = index + 1
    /\ Throw("rejected")

\* A literal beyond int is std::stoi's exception.
nud_number_ ==
    /\ AtNud("number")
    /\ index' = index + 1
    /\ IF Fits(Current.value)
       THEN /\ push_(Current.value)
            /\ calls' = Looping
            /\ UNCHANGED <<text, status, value>>
       ELSE Throw("thrown")

nud_grouping_ ==
    /\ AtNud("(")
    /\ index' = index + 1
    /\ calls' = Looping \o <<Plain("grouping"), Expression(0)>>
    /\ UNCHANGED <<text, m_stack, status, value>>

nud_unary_op_ ==
    /\ \E op \in UnaryOperators :
          /\ AtNud(op)
          /\ calls' = Looping \o <<Operator("unary", op), Expression(rbp(op))>>
    /\ index' = index + 1
    /\ UNCHANGED <<text, m_stack, status, value>>

nud_var_or_ref_ ==
    /\ AtNud("identifier")
    /\ \/ /\ After.type \in {"[", "."}
          /\ index' = index + 1
          /\ calls' = Append(Looping, Path(<<Current.value>>))
          /\ UNCHANGED <<text, m_stack, status, value>>
       \/ /\ After.type = "::"
          /\ index' = index + 3
          /\ IF text[index + 2].type = "identifier"
             THEN PushValueOf(<<Current.value, Scope, text[index + 2].value>>, Looping)
             ELSE Throw("rejected")
       \/ /\ After.type \notin {"[", ".", "::"}
          /\ index' = index + 1
          /\ PushValueOf(<<Current.value>>, Looping)

CloseGrouping ==
    /\ In("grouping")
    /\ index' = index + 1
    /\ IF Current.type = ")"
       THEN calls' = Under /\ UNCHANGED <<text, m_stack, status, value>>
       ELSE Throw("rejected")

ApplyUnary ==
    /\ In("unary")
    /\ UNCHANGED index
    /\ LET result == UnaryValue(Top.op, Last(m_stack)) IN
       IF Fits(result)
       THEN /\ m_stack' = Append(Front(m_stack), result)
            /\ calls' = Under
            /\ UNCHANGED <<text, status, value>>
       ELSE Throw("undefined")

-----------------------------------------------------------------------------
(* The loop of expr_, and led_.                                            *)

led_binary_op_ ==
    /\ In("expr") /\ Top.at = "led"
    /\ Top.rbp < lbp(Current.type)
    /\ index' = index + 1
    /\ calls' = calls \o <<Operator("binary", Current.type), Expression(rbp(Current.type))>>
    /\ UNCHANGED <<text, m_stack, status, value>>

EndExpression ==
    /\ In("expr") /\ Top.at = "led"
    /\ Top.rbp >= lbp(Current.type)
    /\ calls' = Under
    /\ UNCHANGED <<text, index, m_stack, status, value>>

\* pop_ of an empty std::stack is undefined, and so are some divisions.
ApplyBinary ==
    /\ In("binary")
    /\ UNCHANGED index
    /\ IF Len(m_stack) < 2 THEN Throw("undefined")
       ELSE LET right   == Last(m_stack)
                left    == Last(Front(m_stack))
                operands == Front(Front(m_stack))
            IN IF BinaryDefined(Top.op, left, right)
               THEN /\ m_stack' = Append(operands, BinaryValue(Top.op, left, right))
                    /\ calls' = Under
                    /\ UNCHANGED <<text, status, value>>
               ELSE Throw("undefined")

-----------------------------------------------------------------------------
(* pr_node_reference_: a name, then <dot> name or <dot> [ expression ],    *)
(* again and again.  An attempt that fails moves the cursor back, but the  *)
(* text it added to the path stays, and get knows no such name.            *)

\* Fault: what failed is forgotten, as the cursor's move suggests.
EndPathForgetful ==
    /\ In("path")
    /\ Current.type = "." => After.type \notin {"identifier", "["}
    /\ UNCHANGED index
    /\ PushValueOf(Top.path, Under)
\* Fault: what failed is tried again.
EndPathRetried ==
    /\ In("path")
    /\ UNCHANGED index
    /\ \/ Current.type # "." /\ PushValueOf(Top.path, Under)
       \/ /\ Current.type = "." /\ After.type \notin {"identifier", "["}
          /\ UNCHANGED <<text, m_stack, calls, status, value>>
EndPath ==
    /\ In("path")
    /\ UNCHANGED index
    /\ \/ Current.type # "." /\ PushValueOf(Top.path, Under)
       \/ /\ Current.type = "." /\ After.type \notin {"identifier", "["}
          /\ Throw("thrown")

pr_node_name_ ==
    /\ In("path") /\ Current.type = "." /\ After.type = "identifier"
    /\ index' = index + 2
    /\ calls' = Append(Under, Path(Append(Top.path, After.value)))
    /\ UNCHANGED <<text, m_stack, status, value>>

\* The call of parse empties m_stack, whoever's operands are on it.
pr_expression_ ==
    /\ In("path") /\ Current.type = "." /\ After.type = "["
    /\ index' = index + 2
    /\ m_stack' = <<>>
    /\ calls' = calls \o <<Plain("parse"), Expression(0)>>
    /\ UNCHANGED <<text, status, value>>

pr_close_square_bracket_ ==
    /\ In("parse") /\ Len(calls) > 1
    /\ index' = index + 1
    /\ IF Current.type = "]"
       THEN /\ m_stack' = Front(m_stack)
            /\ calls' = Append(Front(Under), Path(Append(Last(Under).path, Last(m_stack))))
            /\ UNCHANGED <<text, status, value>>
       ELSE Throw("thrown")

-----------------------------------------------------------------------------
Start ==
    /\ index = 1
    /\ m_stack \in Leftovers
    /\ calls = <<>>
    /\ status = "new"
    /\ value = 0
Init == text \in Texts /\ Start

Next ==
    \/ Parse \/ Return
    \/ NoNud \/ nud_number_ \/ nud_grouping_ \/ nud_unary_op_ \/ nud_var_or_ref_
    \/ CloseGrouping \/ ApplyUnary
    \/ led_binary_op_ \/ EndExpression \/ ApplyBinary
    \/ EndPath \/ pr_node_name_ \/ pr_expression_ \/ pr_close_square_bracket_

Spec == Init /\ [][Next]_vars /\ WF_vars(Next)

-----------------------------------------------------------------------------
Calls ==
    [fn : {"expr"}, rbp : 0..80, at : {"nud", "led"}]
    \cup [fn : {"unary"}, op : UnaryOperators]
    \cup [fn : {"binary"}, op : BinaryOperators]
    \cup [fn : {"grouping", "parse"}]

(* The parser's state is well formed.                                      *)
TypeOK ==
    /\ index \in 1..(Len(text) + 1)
    /\ m_stack \in Seq(Ints)
    /\ \A i \in DOMAIN calls : calls[i].fn = "path" \/ calls[i] \in Calls
    /\ status \in {"new", "parsing", "value", "rejected", "thrown", "undefined"}
    /\ (status = "parsing") = (calls # <<>>)
    /\ Fits(value)

(* While parse runs, m_stack holds the left operand of every binary        *)
(* operator whose right operand is being parsed, and the operand that was  *)
(* parsed last, and nothing else: no operator ever takes another's operand *)
(* and none is left behind.  It says that pop_ in led_binary_op_ and       *)
(* nud_unary_op_ gets what was pushed for it.                              *)
OperandsMatchCalls ==
    status = "parsing" =>
        Len(m_stack) =
            Cardinality({i \in DOMAIN calls : calls[i].fn = "binary"})
            + (IF Top.fn = "path" \/ (Top.fn = "expr" /\ Top.at = "nud") THEN 0 ELSE 1)

(* Every parse ends, whatever the tokens: each round of expr_'s loop and   *)
(* of pr_opt_path_ consumes tokens, and the calls unwind.                  *)
Done == status \in {"value", "rejected", "thrown", "undefined"}
Ends == <>[]Done
=============================================================================
