------------------------- MODULE MCExpressionParser -------------------------
(* Small instances of the expression parser for TLC. *)
EXTENDS ExpressionMeaning

CONSTANTS a, b, missing      \* names

MCKnown ==
    (<<a>> :> 3) @@ (<<b>> :> 0) @@ (<<a, b>> :> -2) @@ (<<a, 2>> :> 1) @@ (<<a, 2, b>> :> 5)
    @@ (<<a, Scope, b>> :> -1)

n(k) == Number(k)
A == Reference(<<Name(a)>>)
B == Reference(<<Name(b)>>)
AB == Reference(<<Name(a), Name(b)>>)
At(x) == Reference(<<Name(a), x>>)
AtB(x) == Reference(<<Name(a), x, Name(b)>>)
Missing == Reference(<<Name(a), Name(missing)>>)

\* Whether the last operator written is a "!", which takes all that follows.
RECURSIVE EndsInBang(_)
EndsInBang(x) ==
    CASE x.kind = "unary"  -> x.op = "!" \/ (Precedence(x.arg) >= 90 /\ EndsInBang(x.arg))
      [] x.kind = "binary" -> Precedence(x.right) > Precedence(x) /\ EndsInBang(x.right)
      [] OTHER             -> FALSE

Combined(ls, rs) == {Binary(op, l, r) : op \in BinaryOperators, l \in ls, r \in rs}
Negated(xs) == {Unary(op, x) : op \in UnaryOperators, x \in xs}

\* Three operands and any two operators, either way round; with unary ones.
Pairs == Combined({n(7)}, {n(2)})
Quotients == {Binary(op, l, r) : op \in {"/", "%"}, l \in {n(-7), n(7)}, r \in {n(-2), n(2), n(0)}}
Mixed ==
    Combined(Pairs, {n(3)}) \cup Combined({n(3)}, Pairs)
    \cup Combined(Negated({n(7)}), {n(3)}) \cup Combined({n(3)}, Negated({n(7)}))
    \cup Negated(Negated({n(7)}) \cup Pairs)
    \cup Combined({Grouped(x) : x \in Negated({n(0)})}, {n(3)})
    \cup Quotients \cup {Binary("*", n(100), n(7)), Unary("-", n(-128)), n(200),
                         Binary("+", n(200), n(1)), Binary("/", n(-128), n(-1))}
\* References, and subscripts that no operand is waiting for.
Subscripts == {n(2), Binary("-", n(3), n(1)), A, At(n(2)), Unary("-", AB),
               Binary("+", At(n(2)), n(1)), Unary("-", n(0)), Missing}
References ==
    {A, B, AB, Missing, Enumerator(a, b), Enumerator(b, a)}
    \cup {At(x) : x \in Subscripts} \cup {AtB(x) : x \in Subscripts}
Referring ==
    References \cup Combined(References, {n(2), A, AB}) \cup Negated(References)
    \cup Combined({n(2)}, {A, B, AB, Enumerator(a, b), Missing})

MCTrees ==
    {x \in Mixed \cup Referring :
        ~(x.kind = "binary" /\ Precedence(x.left) >= Precedence(x) /\ EndsInBang(x.left))}

Tokens ==
    {Token("number", 2), Token("identifier", a)}
    \cup {Symbol(t) : t \in {"-", "*", "!", "(", ")", ".", "[", "]", "::"}}
\* Any four tokens, except a subscript behind an operator.
MCTexts ==
    {Append(s, End) : s \in UNION {[1..k -> Tokens] : k \in 0..4}}
    \cup {Append(<<Token("identifier", a), Symbol("."), Symbol("[")>> \o s, End) :
              s \in [1..3 -> Tokens]}
MCLeftovers == {<<>>, <<5>>}
=============================================================================
