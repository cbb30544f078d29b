-------------------------- MODULE ExpressionMeaning --------------------------
(***************************************************************************)
(* What an expression means, from the table of operators in "C4 Schema     *)
(* Grammar.txt": how an expression tree is written with as few parentheses *)
(* as precedence and associativity allow, what its value is, and which     *)
(* token sequences are expressions at all.                                 *)
(***************************************************************************)
EXTENDS ExpressionParser

CONSTANT Trees     \* the expressions that are written out and parsed

VARIABLE tree      \* the expression text was written from, or NoTree

NoTree == [kind |-> "none"]

-----------------------------------------------------------------------------
(* Trees.  The components of a path after the first are names, which stand *)
(* for themselves, or subscripts, which are trees.                         *)

Number(n)            == [kind |-> "number", n |-> n]
Reference(path)      == [kind |-> "reference", path |-> path]
Enumerator(enum, e)  == [kind |-> "enumerator", enum |-> enum, name |-> e]
Unary(op, x)         == [kind |-> "unary", op |-> op, arg |-> x]
Binary(op, l, r)     == [kind |-> "binary", op |-> op, left |-> l, right |-> r]
Grouped(x)           == [kind |-> "grouped", arg |-> x]
Name(n)              == [kind |-> "name", name |-> n]

Precedence(x) ==
    CASE x.kind = "unary"  -> 90
      [] x.kind = "binary" -> (CASE x.op \in {"*", "/", "%"}        -> 80
                                 [] x.op \in {"+", "-"}             -> 70
                                 [] x.op \in {"<", "<=", ">=", ">"} -> 60
                                 [] x.op \in {"==", "!="}           -> 50
                                 [] x.op = "&&"                     -> 40
                                 [] x.op = "||"                     -> 30)
      [] OTHER             -> 100

RECURSIVE Written(_)
Written(x) ==
    LET Operand(y, least) ==
            IF Precedence(y) >= least THEN Written(y)
            ELSE <<Symbol("(")>> \o Written(y) \o <<Symbol(")")>>
        Component(c) ==
            IF c.kind = "name" THEN <<Symbol("."), Token("identifier", c.name)>>
            ELSE <<Symbol("."), Symbol("[")>> \o Written(c) \o <<Symbol("]")>>
    IN CASE x.kind = "number"     -> <<Token("number", x.n)>>
         [] x.kind = "reference"  ->
              <<Token("identifier", x.path[1].name)>>
              \o FlattenSeq([i \in 1..(Len(x.path) - 1) |-> Component(x.path[i + 1])])
         [] x.kind = "enumerator" ->
              <<Token("identifier", x.enum), Symbol("::"), Token("identifier", x.name)>>
         [] x.kind = "unary"      -> <<Symbol(x.op)>> \o Operand(x.arg, 90)
         [] x.kind = "binary"     ->
              Operand(x.left, Precedence(x)) \o <<Symbol(x.op)>>
              \o Operand(x.right, Precedence(x) + 1)
         [] x.kind = "grouped"    -> <<Symbol("(")>> \o Written(x.arg) \o <<Symbol(")")>>

-----------------------------------------------------------------------------
(* Values.  Operands are evaluated from left to right and all of them: an  *)
(* && or || needs both of its operands.                                    *)

Is(n)      == [status |-> "value", n |-> n]
Fails(how) == [status |-> how, n |-> 0]
Looked(path) == IF path \in DOMAIN Known THEN Is(Known[path]) ELSE Fails("thrown")

RECURSIVE Meaning(_)
Meaning(x) ==
    CASE x.kind = "number"     -> IF Fits(x.n) THEN Is(x.n) ELSE Fails("thrown")
      [] x.kind = "enumerator" -> Looked(<<x.enum, Scope, x.name>>)
      [] x.kind = "grouped"    -> Meaning(x.arg)
      [] x.kind = "unary"      ->
           LET m == Meaning(x.arg) IN
           IF m.status # "value" THEN m
           ELSE IF Fits(UnaryValue(x.op, m.n)) THEN Is(UnaryValue(x.op, m.n))
           ELSE Fails("undefined")
      [] x.kind = "binary"     ->
           LET l == Meaning(x.left)  r == Meaning(x.right) IN
           IF l.status # "value" THEN l
           ELSE IF r.status # "value" THEN r
           ELSE IF BinaryDefined(x.op, l.n, r.n) THEN Is(BinaryValue(x.op, l.n, r.n))
           ELSE Fails("undefined")
      [] x.kind = "reference"  ->
           LET part(i) == IF x.path[i].kind = "name" THEN Is(x.path[i].name) ELSE Meaning(x.path[i])
               bad == {i \in DOMAIN x.path : part(i).status # "value"}
           IN IF bad = {} THEN Looked([i \in DOMAIN x.path |-> part(i).n])
              ELSE part(CHOOSE i \in bad : \A j \in bad : i <= j)

-----------------------------------------------------------------------------
(* Which token sequences are expressions.                                  *)

RECURSIVE IsExpression(_), IsReference(_)
IsReference(s) ==
    LET n == Len(s) IN
    \/ n = 1 /\ s[1].type = "identifier"
    \/ /\ n >= 3 /\ s[n].type = "identifier" /\ s[n - 1].type = "."
       /\ IsReference(SubSeq(s, 1, n - 2))
    \/ /\ n >= 5 /\ s[n].type = "]"
       /\ \E i \in 2..(n - 3) :
             /\ s[i].type = "." /\ s[i + 1].type = "["
             /\ IsReference(SubSeq(s, 1, i - 1)) /\ IsExpression(SubSeq(s, i + 2, n - 1))
IsExpression(s) ==
    LET n == Len(s) IN
    \/ n = 1 /\ s[1].type = "number"
    \/ n = 3 /\ s[1].type = "identifier" /\ s[2].type = "::" /\ s[3].type = "identifier"
    \/ n > 0 /\ s[1].type = "identifier" /\ IsReference(s)
    \/ n > 1 /\ s[1].type \in UnaryOperators /\ IsExpression(Tail(s))
    \/ n > 2 /\ s[1].type = "(" /\ s[n].type = ")" /\ IsExpression(SubSeq(s, 2, n - 1))
    \/ \E i \in 2..(n - 1) :
          /\ s[i].type \in BinaryOperators
          /\ IsExpression(SubSeq(s, 1, i - 1)) /\ IsExpression(SubSeq(s, i + 1, n))

\* The first k tokens are an expression, and the next one does not continue it.
IsWholeExpression(k) ==
    /\ IsExpression(SubSeq(text, 1, k))
    /\ text[k + 1].type \notin BinaryOperators
    /\ text[k].type = "identifier" => text[k + 1].type # "::"
    /\ text[k].type \in {"identifier", "]"} => text[k + 1].type # "."

-----------------------------------------------------------------------------
InitMeaning ==
    \/ tree = NoTree /\ Init
    \/ tree \in Trees /\ text = Append(Written(tree), End) /\ Start

varsMeaning == <<vars, tree>>
NextMeaning == Next /\ UNCHANGED tree
SpecMeaning == InitMeaning /\ [][NextMeaning]_varsMeaning /\ WF_varsMeaning(NextMeaning)

-----------------------------------------------------------------------------
(* The parser computes the value that the expression has by the grammar's  *)
(* table, "precedence and associativity of operators are identical to C++" *)
(* (C4 Schema Grammar.txt:305), or fails where an operand does, and stops  *)
(* right behind the expression, where the schema goes on.                  *)
ValueIsMeaning ==
    tree # NoTree /\ Done =>
        LET m == Meaning(tree) IN
        /\ status = m.status
        /\ status = "value" => value = m.n /\ index = Len(text)

(* Of tokens that nobody wrote as an expression, the parser takes those    *)
(* that are one, as many as it can, and rejects only what does not begin   *)
(* with an expression: the callers, which go on at the cursor or report a  *)
(* syntax error, rely on both.                                             *)
TakesExpressions ==
    /\ status = "value" => IsWholeExpression(index - 1)
    /\ status = "rejected" => \A k \in 1..(Len(text) - 1) : ~IsWholeExpression(k)
=============================================================================
