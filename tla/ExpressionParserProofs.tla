----------------------- MODULE ExpressionParserProofs -----------------------
(***************************************************************************)
(* What holds of the expression parser for every text, every variable and  *)
(* every width of int: its state is well formed, and, as long as no        *)
(* subscript is opened while a binary operator waits for its right         *)
(* operand, every operator gets the operands that were pushed for it.      *)
(*                                                                         *)
(* Both rest on how the calls nest, and on the last token of a text being  *)
(* one that nothing consumes.                                              *)
(***************************************************************************)
EXTENDS ExpressionParser, SequenceTheorems, FiniteSetTheorems, TLAPS

(* The calls with the paths they may hold: what tokens, and subscripts, say. *)
Names == Ints \cup UNION {{t[i].value : i \in 1..Len(t)} : t \in Texts}
Frames == Calls \cup [fn : {"path"}, path : Seq(Names)]

(* Which call makes which. *)
Makes(caller, call) ==
    \/ call.fn = "expr" /\ caller.fn \in {"parse", "grouping", "unary", "binary"}
    \/ call.fn \in {"path", "grouping", "unary", "binary"} /\ caller.fn = "expr" /\ caller.at = "led"
    \/ call.fn = "parse" /\ caller.fn = "path"

Nested(frames) ==
    /\ frames # <<>>
    /\ frames[1].fn = "parse"
    /\ \A i \in 2..Len(frames) : Makes(frames[i - 1], frames[i])

(* Whether a call at the top of the stack has pushed what it is to push. *)
Delivers(frame) == ~(frame.fn = "path" \/ (frame.fn = "expr" /\ frame.at = "nud"))

StateOK ==
    /\ text \in Texts
    /\ m_stack \in Seq(Ints)
    /\ calls \in Seq(Frames)
    /\ status \in {"new", "parsing", "value", "rejected", "thrown", "undefined"}
    /\ Fits(value)

(* Where the cursor is, how the calls nest, and that there is an operand to *)
(* pop for the call at the top.                                             *)
CallsOK ==
    /\ index \in 1..(Len(text) + 1)
    /\ (status = "parsing") = (calls # <<>>)
    /\ status \in {"new", "parsing"} => index <= Len(text)
    /\ status = "parsing" => Nested(calls) /\ (Delivers(Top) => m_stack # <<>>)

IInv == StateOK /\ CallsOK

-----------------------------------------------------------------------------
(* Stacks. *)

LEMMA TopAndRest ==
    ASSUME NEW S, NEW s \in Seq(S), s # <<>>
    PROVE  /\ Len(s) \in Nat \ {0}
           /\ Last(s) = s[Len(s)] /\ Last(s) \in S
           /\ Front(s) \in Seq(S) /\ Len(Front(s)) = Len(s) - 1
           /\ \A i \in 1..(Len(s) - 1) : Front(s)[i] = s[i]
<1>1. Len(s) \in Nat \ {0} /\ s[Len(s)] \in S
  OBVIOUS
<1>2. Front(s) \in Seq(S)
  BY <1>1 DEF Front
<1>3. Len(Front(s)) = Len(s) - 1
  <2> DEFINE n == Len(s)
  <2>1. n \in Int /\ n >= 1
    BY <1>1
  <2> HIDE DEF n
  <2>2. Len(SubSeq(s, 1, n - 1)) = n - 1
    BY <2>1
  <2> QED
    BY <2>2 DEF Front, n
<1>4. \A i \in 1..(Len(s) - 1) : Front(s)[i] = s[i]
  BY <1>1 DEF Front
<1> QED
  BY <1>1, <1>2, <1>3, <1>4 DEF Last

LEMMA Pushed ==
    ASSUME NEW S, NEW s \in Seq(S), NEW e \in S
    PROVE  /\ Append(s, e) \in Seq(S) /\ Append(s, e) # <<>>
           /\ Len(Append(s, e)) = Len(s) + 1
           /\ \A i \in 1..Len(s) : Append(s, e)[i] = s[i]
           /\ Append(s, e)[Len(s) + 1] = e
           /\ Last(Append(s, e)) = e
  BY DEF Last

LEMMA PushedTwice ==
    ASSUME NEW S, NEW s \in Seq(S), NEW d \in S, NEW e \in S
    PROVE  s \o <<d, e>> = Append(Append(s, d), e)
  OBVIOUS

-----------------------------------------------------------------------------
(* The nesting of the calls. *)

LEMMA FrameKinds ==
    ASSUME NEW frame \in Frames
    PROVE  /\ frame.fn \in {"expr", "unary", "binary", "grouping", "parse", "path"}
           /\ frame.fn = "expr" => /\ frame.rbp \in 0..80 /\ frame.at \in {"nud", "led"}
                                   /\ [frame EXCEPT !.at = "led"] \in Frames
                                   /\ [frame EXCEPT !.at = "led"].fn = "expr"
                                   /\ [frame EXCEPT !.at = "led"].at = "led"
           /\ frame.fn = "unary" => frame.op \in UnaryOperators
           /\ frame.fn = "binary" => frame.op \in BinaryOperators
           /\ frame.fn = "path" => frame.path \in Seq(Names)
  BY DEF Frames, Calls

LEMMA NewFrames ==
    /\ Plain("parse") \in Frames /\ Plain("grouping") \in Frames
    /\ \A power \in 0..80 : Expression(power) \in Frames
    /\ \A op \in UnaryOperators : Operator("unary", op) \in Frames
    /\ \A op \in BinaryOperators : Operator("binary", op) \in Frames
    /\ \A names \in Seq(Names) : Path(names) \in Frames
  BY DEF Frames, Calls, Plain, Expression, Operator, Path

LEMMA NestedPush ==
    ASSUME NEW s \in Seq(Frames), Nested(s), NEW frame \in Frames, Makes(Last(s), frame)
    PROVE  Nested(Append(s, frame))
<1>1. s # <<>> /\ Len(s) \in Nat \ {0} /\ Last(s) = s[Len(s)]
  BY TopAndRest DEF Nested
<1>2. /\ Len(Append(s, frame)) = Len(s) + 1 /\ Append(s, frame) # <<>>
      /\ \A i \in 1..Len(s) : Append(s, frame)[i] = s[i]
      /\ Append(s, frame)[Len(s) + 1] = frame
  BY Pushed
<1>3. ASSUME NEW i \in 2..Len(Append(s, frame))
      PROVE  Makes(Append(s, frame)[i - 1], Append(s, frame)[i])
  <2>1. CASE i <= Len(s)
    <3>1. i \in 2..Len(s) /\ i \in 1..Len(s) /\ i - 1 \in 1..Len(s)
      BY <1>1, <2>1
    <3> QED
      BY <1>2, <3>1 DEF Nested
  <2>2. CASE i = Len(s) + 1
    <3>1. i - 1 = Len(s) /\ Len(s) \in 1..Len(s)
      BY <1>1, <2>2
    <3> QED
      BY <1>1, <1>2, <2>2, <3>1
  <2> QED
    BY <1>1, <1>2, <2>1, <2>2
<1> QED
  BY <1>1, <1>2, <1>3 DEF Nested

LEMMA NestedPop ==
    ASSUME NEW s \in Seq(Frames), Nested(s), Last(s).fn # "parse" \/ Len(s) > 1
    PROVE  /\ Len(s) > 1
           /\ Nested(Front(s))
           /\ Makes(Last(Front(s)), Last(s))
<1>1. /\ s # <<>> /\ Len(s) \in Nat \ {0} /\ Last(s) = s[Len(s)]
      /\ Front(s) \in Seq(Frames) /\ Len(Front(s)) = Len(s) - 1
      /\ \A i \in 1..(Len(s) - 1) : Front(s)[i] = s[i]
  BY TopAndRest DEF Nested
<1>2. Len(s) > 1
  BY <1>1 DEF Nested
<1>3. Front(s) # <<>> /\ Front(s)[1] = s[1]
  BY <1>1, <1>2
<1>4. Last(Front(s)) = s[Len(s) - 1]
  <2>1. Last(Front(s)) = Front(s)[Len(s) - 1] /\ Len(s) - 1 \in 1..(Len(s) - 1)
    BY <1>1, <1>2 DEF Last
  <2> QED
    BY <1>1, <2>1
<1>5. ASSUME NEW i \in 2..Len(Front(s))
      PROVE  Makes(Front(s)[i - 1], Front(s)[i])
  <2>1. i \in 2..Len(s) /\ i \in 1..(Len(s) - 1) /\ i - 1 \in 1..(Len(s) - 1)
    BY <1>1
  <2> QED
    BY <1>1, <2>1 DEF Nested
<1>6. Makes(s[Len(s) - 1], s[Len(s)])
  BY <1>1, <1>2 DEF Nested
<1> QED
  BY <1>1, <1>2, <1>3, <1>4, <1>5, <1>6 DEF Nested

LEMMA NestedReplace ==
    ASSUME NEW s \in Seq(Frames), Nested(s), Last(s).fn # "parse",
           NEW frame \in Frames, frame.fn = Last(s).fn
    PROVE  Nested(Append(Front(s), frame)) /\ Append(Front(s), frame) \in Seq(Frames)
<1>1. Front(s) \in Seq(Frames) /\ Nested(Front(s)) /\ Makes(Last(Front(s)), Last(s))
  BY TopAndRest, NestedPop DEF Nested
<1>2. Makes(Last(Front(s)), frame)
  BY <1>1 DEF Makes
<1> QED
  BY <1>1, <1>2, NestedPush, Pushed

-----------------------------------------------------------------------------
(* Binding powers, and the values of operators. *)

LEMMA BindingPowers ==
    /\ \A type : lbp(type) \in -1..80
    /\ \A type : lbp(type) > 0 => type \in BinaryOperators
    /\ lbp("end") = -1
  BY DEF lbp, BinaryOperators

LEMMA TruthFits == \A holds \in BOOLEAN : Fits(Truth(holds))
  BY MaxIntAssumption DEF Truth, Fits, Ints

(* A remainder is no larger than what was divided. *)
LEMMA RemainderFits ==
    ASSUME NEW l \in Ints, NEW r \in Ints, r # 0
    PROVE  Fits(l - r * Quotient(l, r))
<1> DEFINE m == Magnitude(l)
           d == Magnitude(r)
           q == m \div d
<1>1. m \in Nat /\ d \in Nat \ {0} /\ l \in Int /\ r \in Int
  BY MaxIntAssumption DEF Magnitude, Ints
<1>2. q \in Nat /\ d * q \in Nat /\ d * q <= m
  BY <1>1
<1>3. l - r * Quotient(l, r) = IF l < 0 THEN -(m - d * q) ELSE m - d * q
  <2>1. \A x, y \in Int : (-x) * y = -(x * y) /\ x * (-y) = -(x * y) /\ (-x) * (-y) = x * y
    OBVIOUS
  <2>2. Quotient(l, r) = IF (l < 0) = (r < 0) THEN q ELSE -q
    BY DEF Quotient
  <2>3. r * q = IF r < 0 THEN -(d * q) ELSE d * q
    <3>1. r = IF r < 0 THEN -d ELSE d
      BY <1>1 DEF Magnitude
    <3>2. d \in Int /\ q \in Int
      BY <1>1, <1>2
    <3> HIDE DEF q, d
    <3> QED
      BY <2>1, <3>1, <3>2
  <2>4. r * (-q) = -(r * q)
    BY <1>1, <1>2, <2>1
  <2>5. l = IF l < 0 THEN -m ELSE m
    BY <1>1 DEF Magnitude
  <2> HIDE DEF q, d, m
  <2>6. r * q \in Int
    BY <1>1, <1>2
  <2> QED
    BY <1>1, <1>2, <2>2, <2>3, <2>4, <2>5, <2>6
<1>4. m - d * q \in 0..m
  BY <1>1, <1>2
<1>5. l \in (-MaxInt - 1)..MaxInt /\ (IF l < 0 THEN m = -l ELSE m = l)
  BY DEF Ints, Magnitude
<1> HIDE DEF q, d, m
<1>6. \A n \in 0..m : (IF l < 0 THEN -n ELSE n) \in (-MaxInt - 1)..MaxInt
  BY <1>1, <1>5, MaxIntAssumption
<1> QED
  BY <1>3, <1>4, <1>6 DEF Fits, Ints

LEMMA BinaryFits ==
    ASSUME NEW op \in BinaryOperators, NEW l \in Ints, NEW r \in Ints, BinaryDefined(op, l, r)
    PROVE  Fits(BinaryValue(op, l, r))
<1>1. CASE op \notin {"/", "%"}
  BY <1>1 DEF BinaryDefined
<1>2. CASE op = "/"
  BY <1>2 DEF BinaryDefined, BinaryValue
<1>3. CASE op = "%"
  BY <1>3, RemainderFits DEF BinaryDefined, BinaryValue
<1> QED
  BY <1>1, <1>2, <1>3

-----------------------------------------------------------------------------
(* What the steps have in common. *)

LEMMA Cursor ==
    ASSUME IInv, status = "parsing"
    PROVE  /\ Len(text) \in Nat /\ index \in 1..Len(text)
           /\ \A i \in 1..Len(text) : text[i].type # "end" => i + 1 \in 1..Len(text)
           /\ \A i \in 1..Len(text) : text[i].value \in Names
<1>1. text \in Texts /\ Len(text) \in Nat \ {0} /\ text[Len(text)] = [type |-> "end", value |-> 0]
  BY TextsAssumption DEF IInv, StateOK
<1>2. text[Len(text)].type = "end"
  BY <1>1
<1>3. index \in 1..Len(text)
  BY <1>1 DEF IInv, CallsOK
<1>4. \A i \in 1..Len(text) : text[i].value \in Names
  BY <1>1 DEF Names
<1> QED
  BY <1>1, <1>2, <1>3, <1>4

LEMMA AtTop ==
    ASSUME IInv, status = "parsing"
    PROVE  /\ calls \in Seq(Frames) /\ calls # <<>> /\ Nested(calls)
           /\ Top \in Frames /\ Under \in Seq(Frames)
           /\ m_stack \in Seq(Ints)
           /\ Delivers(Top) => m_stack # <<>>
<1>1. /\ calls \in Seq(Frames) /\ calls # <<>> /\ Nested(calls) /\ m_stack \in Seq(Ints)
      /\ Delivers(Top) => m_stack # <<>>
  BY DEF IInv, StateOK, CallsOK, Nested
<1>2. Top \in Frames /\ Under \in Seq(Frames)
  BY <1>1, TopAndRest DEF Top, Under
<1> QED
  BY <1>1, <1>2

LEMMA Throwing ==
    ASSUME IInv, NEW outcome \in {"rejected", "thrown", "undefined"}, Throw(outcome),
           index' \in 1..(Len(text) + 1)
    PROVE  IInv'
<1>1. <<>> \in Seq(Frames)
  OBVIOUS
<1>2. StateOK'
  BY <1>1 DEF Throw, IInv, StateOK, Fits, Ints
<1>3. CallsOK'
  BY DEF Throw, CallsOK
<1> QED
  BY <1>2, <1>3 DEF IInv

LEMMA Continuing ==
    ASSUME IInv, UNCHANGED <<text, value>>, status' = "parsing",
           index' \in 1..Len(text), m_stack' \in Seq(Ints),
           calls' \in Seq(Frames), Nested(calls'), Delivers(Last(calls')) => m_stack' # <<>>
    PROVE  IInv'
<1>1. StateOK'
  BY DEF IInv, StateOK, Fits, Ints
<1>2. Len(text) \in Nat
  BY TextsAssumption DEF IInv, StateOK
<1>3. (Delivers(Top))' => m_stack' # <<>>
  BY DEF Top, Delivers
<1>4. CallsOK'
  BY <1>2, <1>3 DEF CallsOK, Nested
<1> QED
  BY <1>1, <1>4 DEF IInv

(* The call of expr_ at the top, once its nud_ has pushed a value. *)
LEMMA InLoop ==
    ASSUME IInv, In("expr")
    PROVE  /\ Looping \in Seq(Frames) /\ Nested(Looping)
           /\ Last(Looping).fn = "expr" /\ Last(Looping).at = "led"
<1>1. [Top EXCEPT !.at = "led"] \in Frames
      /\ [Top EXCEPT !.at = "led"].fn = "expr" /\ [Top EXCEPT !.at = "led"].at = "led"
  BY AtTop, FrameKinds DEF In
<1>2. Nested(Looping) /\ Looping \in Seq(Frames)
  BY <1>1, AtTop, NestedReplace DEF In, Looping, Top, Under
<1>3. Last(Looping) = [Top EXCEPT !.at = "led"]
  BY <1>1, AtTop, Pushed DEF In, Looping
<1> QED
  BY <1>1, <1>2, <1>3

(* A call that makes a call of expr_. *)
LEMMA TwoCalls ==
    ASSUME NEW s \in Seq(Frames), Nested(s), NEW frame \in Frames, Makes(Last(s), frame),
           frame.fn \in {"parse", "grouping", "unary", "binary"}, NEW power \in 0..80
    PROVE  /\ s \o <<frame, Expression(power)>> \in Seq(Frames)
           /\ Nested(s \o <<frame, Expression(power)>>)
           /\ Last(s \o <<frame, Expression(power)>>) = Expression(power)
<1> DEFINE one == Append(s, frame)
           two == Append(one, Expression(power))
<1>1. one \in Seq(Frames) /\ Last(one) = frame /\ Nested(one)
  BY Pushed, NestedPush
<1>2. Expression(power) \in Frames /\ Expression(power).fn = "expr"
  BY NewFrames DEF Expression
<1>3. Makes(Last(one), Expression(power))
  BY <1>1, <1>2 DEF Makes
<1>4. s \o <<frame, Expression(power)>> = two
  BY <1>2, PushedTwice
<1> HIDE DEF one
<1>5. two \in Seq(Frames) /\ Nested(two) /\ Last(two) = Expression(power)
  BY <1>1, <1>2, <1>3, Pushed, NestedPush
<1> QED
  BY <1>4, <1>5

LEMMA ExpressionDelivers == \A power : ~Delivers(Expression(power))
  BY DEF Delivers, Expression

(* The return of a call other than parse. *)
LEMMA Returning ==
    ASSUME IInv, status = "parsing", Top.fn # "parse"
    PROVE  /\ Under \in Seq(Frames) /\ Nested(Under)
           /\ Makes(Last(Under), Top)
           /\ Top.fn # "expr" => Last(Under).fn = "expr" /\ Last(Under).at = "led"
<1>1. calls \in Seq(Frames) /\ Nested(calls) /\ Last(calls).fn # "parse"
  BY AtTop DEF Top
<1>2. Nested(Front(calls)) /\ Makes(Last(Front(calls)), Last(calls))
  BY <1>1, NestedPop
<1>3. Top.fn # "expr" => Last(Under).fn = "expr" /\ Last(Under).at = "led"
  BY <1>2 DEF Top, Under, Makes
<1> QED
  BY <1>2, <1>3, AtTop DEF Top, Under

LEMMA PushingValueOf ==
    ASSUME IInv, status = "parsing", index' \in 1..Len(text),
           NEW path, NEW below \in Seq(Frames), Nested(below), PushValueOf(path, below)
    PROVE  IInv'
<1>1. CASE path \in DOMAIN Known
  <2>1. /\ m_stack' = Append(m_stack, Known[path]) /\ calls' = below
        /\ UNCHANGED <<text, status, value>>
    BY <1>1 DEF PushValueOf, push_
  <2>2. m_stack' \in Seq(Ints) /\ m_stack' # <<>>
    BY <1>1, <2>1, KnownAssumption, AtTop, Pushed
  <2> QED
    BY <2>1, <2>2, Continuing
<1>2. CASE path \notin DOMAIN Known
  <2>1. Throw("thrown")
    BY <1>2 DEF PushValueOf
  <2>2. index' \in 1..(Len(text) + 1)
    BY Cursor
  <2> QED
    BY <2>1, <2>2, Throwing
<1> QED
  BY <1>1, <1>2

-----------------------------------------------------------------------------
(* Every step preserves the invariant. *)

LEMMA InitEstablishes == Init => IInv
<1> SUFFICES ASSUME Init PROVE IInv
  OBVIOUS
<1>1. text \in Texts /\ Len(text) \in Nat \ {0} /\ index = 1
  BY TextsAssumption DEF Init, Start
<1>2. <<>> \in Seq(Frames) /\ m_stack \in Seq(Ints) /\ 0 \in Ints
  BY LeftoversAssumption, MaxIntAssumption DEF Init, Start, Ints
<1> QED
  BY <1>1, <1>2 DEF Init, Start, IInv, StateOK, CallsOK, Fits

LEMMA ParsePreserves == IInv /\ Parse => IInv'
<1> SUFFICES ASSUME IInv, Parse PROVE IInv'
  OBVIOUS
<1> DEFINE parse == <<Plain("parse")>>
<1>1. parse \in Seq(Frames) /\ Nested(parse) /\ Last(parse) = Plain("parse")
  BY NewFrames DEF Nested, Last, Plain
<1>2. Expression(0) \in Frames /\ Makes(Last(parse), Expression(0))
  BY <1>1, NewFrames DEF Makes, Plain, Expression
<1>3. calls' = Append(parse, Expression(0))
  BY DEF Parse
<1> HIDE DEF parse
<1>4. calls' \in Seq(Frames) /\ Nested(calls') /\ Last(calls') = Expression(0)
  BY <1>1, <1>2, <1>3, Pushed, NestedPush
<1>5. index' \in 1..Len(text) /\ m_stack' = <<>> /\ status' = "parsing" /\ UNCHANGED <<text, value>>
  BY TextsAssumption DEF Parse, IInv, StateOK, CallsOK
<1> QED
  BY <1>4, <1>5, ExpressionDelivers, Continuing

LEMMA ReturnPreserves == IInv /\ Return => IInv'
<1> SUFFICES ASSUME IInv, Return PROVE IInv'
  OBVIOUS
<1>1. m_stack \in Seq(Ints) /\ m_stack # <<>>
  BY AtTop DEF Return, In, Delivers
<1>2. value' \in Ints /\ m_stack' \in Seq(Ints)
  BY <1>1, TopAndRest DEF Return
<1>3. <<>> \in Seq(Frames)
  OBVIOUS
<1> QED
  BY <1>2, <1>3 DEF Return, IInv, StateOK, CallsOK, Fits

LEMMA NoNudPreserves == IInv /\ NoNud => IInv'
<1> SUFFICES ASSUME IInv, NoNud PROVE IInv'
  OBVIOUS
<1>1. Throw("rejected") /\ index' = index + 1
  BY DEF NoNud
<1>2. index' \in 1..(Len(text) + 1)
  BY <1>1, Cursor DEF NoNud, In
<1> QED
  BY <1>1, <1>2, Throwing

(* What a null denotation of a type other than that of the last token does *)
(* to the cursor.                                                          *)
LEMMA NudConsumes ==
    ASSUME IInv, NEW type, AtNud(type), type # "end"
    PROVE  status = "parsing" /\ Top.fn = "expr" /\ index \in 1..Len(text) /\ index + 1 \in 1..Len(text)
  BY Cursor DEF AtNud, In, Current

LEMMA NumberPreserves == IInv /\ nud_number_ => IInv'
<1> SUFFICES ASSUME IInv, nud_number_ PROVE IInv'
  OBVIOUS
<1>1. status = "parsing" /\ index' \in 1..Len(text)
  BY NudConsumes DEF nud_number_
<1>2. CASE Fits(Current.value)
  <2>1. m_stack' = Append(m_stack, Current.value) /\ calls' = Looping /\ UNCHANGED <<text, status, value>>
    BY <1>2 DEF nud_number_, push_
  <2>2. m_stack' \in Seq(Ints) /\ m_stack' # <<>>
    BY <1>1, <1>2, <2>1, AtTop, Pushed DEF Fits
  <2>3. calls' \in Seq(Frames) /\ Nested(calls')
    BY <2>1, InLoop DEF nud_number_, AtNud
  <2> QED
    BY <1>1, <2>1, <2>2, <2>3, Continuing
<1>3. CASE ~Fits(Current.value)
  <2>1. Throw("thrown")
    BY <1>3 DEF nud_number_
  <2>2. index' \in 1..(Len(text) + 1)
    BY <1>1, Cursor
  <2> QED
    BY <2>1, <2>2, Throwing
<1> QED
  BY <1>2, <1>3

LEMMA GroupingPreserves == IInv /\ nud_grouping_ => IInv'
<1> SUFFICES ASSUME IInv, nud_grouping_ PROVE IInv'
  OBVIOUS
<1>1. status = "parsing" /\ Top.fn = "expr" /\ index' \in 1..Len(text)
  BY NudConsumes DEF nud_grouping_
<1>2. Plain("grouping") \in Frames /\ Plain("grouping").fn = "grouping"
  BY NewFrames DEF Plain
<1>3. Looping \in Seq(Frames) /\ Nested(Looping) /\ Makes(Last(Looping), Plain("grouping"))
  BY <1>1, <1>2, InLoop DEF In, Makes
<1>4. calls' \in Seq(Frames) /\ Nested(calls') /\ Last(calls') = Expression(0)
  <2>1. 0 \in 0..80
    OBVIOUS
  <2> QED
    BY <1>2, <1>3, <2>1, TwoCalls DEF nud_grouping_
<1>5. m_stack' \in Seq(Ints) /\ UNCHANGED <<text, status, value>>
  BY <1>1, AtTop DEF nud_grouping_
<1> QED
  BY <1>1, <1>4, <1>5, ExpressionDelivers, Continuing

LEMMA UnaryPreserves == IInv /\ nud_unary_op_ => IInv'
<1> SUFFICES ASSUME IInv, nud_unary_op_ PROVE IInv'
  OBVIOUS
<1>1. PICK op \in UnaryOperators :
          /\ AtNud(op)
          /\ calls' = Looping \o <<Operator("unary", op), Expression(rbp(op))>>
  BY DEF nud_unary_op_
<1>2. status = "parsing" /\ Top.fn = "expr" /\ index' \in 1..Len(text)
  BY <1>1, NudConsumes DEF nud_unary_op_, UnaryOperators
<1>3. Operator("unary", op) \in Frames /\ Operator("unary", op).fn = "unary"
  BY NewFrames DEF Operator
<1>4. rbp(op) \in 0..80
  BY <1>1 DEF rbp, lbp, UnaryOperators
<1>5. Looping \in Seq(Frames) /\ Nested(Looping) /\ Makes(Last(Looping), Operator("unary", op))
  BY <1>2, <1>3, InLoop DEF In, Makes
<1>6. calls' \in Seq(Frames) /\ Nested(calls') /\ Last(calls') = Expression(rbp(op))
  BY <1>1, <1>3, <1>4, <1>5, TwoCalls
<1>7. m_stack' \in Seq(Ints) /\ UNCHANGED <<text, status, value>>
  BY <1>2, AtTop DEF nud_unary_op_
<1> QED
  BY <1>2, <1>6, <1>7, ExpressionDelivers, Continuing

(* A path at the top of the calls. *)
LEMMA PathFrames ==
    ASSUME NEW s \in Seq(Frames), NEW path \in Seq(Names)
    PROVE  /\ Path(path) \in Frames /\ Path(path).fn = "path" /\ ~Delivers(Path(path))
           /\ Append(s, Path(path)) \in Seq(Frames)
           /\ Last(Append(s, Path(path))) = Path(path)
<1>1. Path(path) \in Frames /\ Path(path).fn = "path" /\ ~Delivers(Path(path))
  BY NewFrames DEF Path, Delivers
<1> QED
  BY <1>1, Pushed

LEMMA ReferencePreserves == IInv /\ nud_var_or_ref_ => IInv'
<1> SUFFICES ASSUME IInv, nud_var_or_ref_ PROVE IInv'
  OBVIOUS
<1>1. /\ status = "parsing" /\ Top.fn = "expr"
      /\ index \in 1..Len(text) /\ index + 1 \in 1..Len(text) /\ Len(text) \in Nat
  BY NudConsumes, Cursor DEF nud_var_or_ref_
<1>2. /\ Looping \in Seq(Frames) /\ Nested(Looping)
      /\ Last(Looping).fn = "expr" /\ Last(Looping).at = "led"
  BY <1>1, InLoop DEF In
<1>3. CASE /\ index' = index + 1
           /\ calls' = Append(Looping, Path(<<Current.value>>))
           /\ UNCHANGED <<text, m_stack, status, value>>
  <2>1. <<Current.value>> \in Seq(Names)
    BY <1>1, Cursor DEF Current
  <2>2. Makes(Last(Looping), Path(<<Current.value>>))
    BY <1>2, <2>1, PathFrames DEF Makes
  <2>3. calls' \in Seq(Frames) /\ Nested(calls') /\ ~Delivers(Last(calls'))
    BY <1>2, <1>3, <2>1, <2>2, PathFrames, NestedPush
  <2> QED
    BY <1>1, <1>3, <2>3, AtTop, Continuing
<1>4. CASE After.type = "::" /\ index' = index + 3
  <2>1. index + 2 \in 1..Len(text)
    BY <1>1, <1>4, Cursor DEF After
  <2>2. CASE text[index + 2].type = "identifier"
    <3>1. index' \in 1..Len(text)
      BY <1>4, <2>1, <2>2, Cursor, <1>1
    <3>2. PushValueOf(<<Current.value, Scope, text[index + 2].value>>, Looping)
      BY <1>4, <2>2 DEF nud_var_or_ref_
    <3> QED
      BY <1>1, <1>2, <3>1, <3>2, PushingValueOf
  <2>3. CASE text[index + 2].type # "identifier"
    <3>1. Throw("rejected")
      BY <1>4, <2>3 DEF nud_var_or_ref_
    <3>2. index' \in 1..(Len(text) + 1)
      BY <1>1, <1>4, <2>1
    <3> QED
      BY <3>1, <3>2, Throwing
  <2> QED
    BY <2>2, <2>3
<1>5. CASE index' = index + 1 /\ PushValueOf(<<Current.value>>, Looping)
  BY <1>1, <1>2, <1>5, PushingValueOf
<1> QED
  BY <1>3, <1>4, <1>5 DEF nud_var_or_ref_

LEMMA CloseGroupingPreserves == IInv /\ CloseGrouping => IInv'
<1> SUFFICES ASSUME IInv, CloseGrouping PROVE IInv'
  OBVIOUS
<1>1. status = "parsing" /\ Top.fn = "grouping" /\ index' = index + 1
  BY DEF CloseGrouping, In
<1>2. CASE Current.type = ")"
  <2>1. calls' = Under /\ UNCHANGED <<text, m_stack, status, value>>
    BY <1>2 DEF CloseGrouping
  <2>2. index' \in 1..Len(text)
    BY <1>1, <1>2, Cursor DEF Current
  <2>3. m_stack \in Seq(Ints) /\ m_stack # <<>>
    BY <1>1, AtTop DEF Delivers
  <2> QED
    BY <1>1, <2>1, <2>2, <2>3, Returning, Continuing
<1>3. CASE Current.type # ")"
  <2>1. Throw("rejected")
    BY <1>3 DEF CloseGrouping
  <2>2. index' \in 1..(Len(text) + 1)
    BY <1>1, Cursor
  <2> QED
    BY <2>1, <2>2, Throwing
<1> QED
  BY <1>2, <1>3

LEMMA ApplyUnaryPreserves == IInv /\ ApplyUnary => IInv'
<1> SUFFICES ASSUME IInv, ApplyUnary PROVE IInv'
  OBVIOUS
<1> DEFINE result == UnaryValue(Top.op, Last(m_stack))
<1>1. status = "parsing" /\ Top.fn = "unary" /\ index' = index
  BY DEF ApplyUnary, In
<1>2. CASE Fits(result)
  <2>1. m_stack' = Append(Front(m_stack), result) /\ calls' = Under /\ UNCHANGED <<text, status, value>>
    BY <1>2 DEF ApplyUnary
  <2>2. Front(m_stack) \in Seq(Ints)
    BY <1>1, AtTop, TopAndRest DEF Delivers
  <2>3. m_stack' \in Seq(Ints) /\ m_stack' # <<>>
    <3> HIDE DEF result
    <3> QED BY <1>2, <2>1, <2>2, Pushed DEF Fits
  <2>4. index' \in 1..Len(text)
    BY <1>1, Cursor
  <2> QED
    BY <1>1, <2>1, <2>3, <2>4, Returning, Continuing
<1>3. CASE ~Fits(result)
  <2>1. Throw("undefined")
    BY <1>3 DEF ApplyUnary
  <2>2. index' \in 1..(Len(text) + 1)
    BY <1>1, Cursor
  <2> QED
    BY <2>1, <2>2, Throwing
<1> QED
  BY <1>2, <1>3

(* What binds closer than the call at the top is a binary operator. *)
LEMMA BinaryPower ==
    ASSUME IInv, status = "parsing", Top.fn = "expr", NEW op, Top.rbp < lbp(op)
    PROVE  op \in BinaryOperators /\ rbp(op) \in 0..80 /\ op # "end"
<1>1. Top.rbp \in 0..80 /\ lbp(op) \in -1..80
  BY AtTop, FrameKinds, BindingPowers
<1>2. \A m \in 0..80, n \in -1..80 : m < n => n > 0
  OBVIOUS
<1>3. lbp(op) > 0
  BY <1>1, <1>2
<1> QED
  BY <1>1, <1>3, BindingPowers DEF rbp

LEMMA BinaryPreserves == IInv /\ led_binary_op_ => IInv'
<1> SUFFICES ASSUME IInv, led_binary_op_ PROVE IInv'
  OBVIOUS
<1> DEFINE op == Current.type
<1>1. /\ status = "parsing" /\ Top.fn = "expr" /\ Top.at = "led" /\ Top.rbp < lbp(op)
      /\ index' = index + 1
      /\ calls' = calls \o <<Operator("binary", op), Expression(rbp(op))>>
      /\ UNCHANGED <<text, m_stack, status, value>>
  BY DEF led_binary_op_, In
<1> HIDE DEF op
<1>3. op \in BinaryOperators /\ rbp(op) \in 0..80 /\ op # "end"
  BY <1>1, BinaryPower
<1>4. index' \in 1..Len(text)
  BY <1>1, <1>3, Cursor DEF op, Current
<1>5. Operator("binary", op) \in Frames /\ Operator("binary", op).fn = "binary"
  BY <1>3, NewFrames DEF Operator
<1>6. calls \in Seq(Frames) /\ Nested(calls) /\ Makes(Last(calls), Operator("binary", op))
  BY <1>1, <1>5, AtTop DEF Makes, Top
<1>7. calls' \in Seq(Frames) /\ Nested(calls') /\ Last(calls') = Expression(rbp(op))
  BY <1>1, <1>3, <1>5, <1>6, TwoCalls
<1> QED
  BY <1>1, <1>4, <1>7, AtTop, ExpressionDelivers, Continuing

LEMMA EndExpressionPreserves == IInv /\ EndExpression => IInv'
<1> SUFFICES ASSUME IInv, EndExpression PROVE IInv'
  OBVIOUS
<1>1. /\ status = "parsing" /\ Top.fn = "expr" /\ Top.at = "led"
      /\ calls' = Under /\ UNCHANGED <<text, index, m_stack, status, value>>
  BY DEF EndExpression, In
<1>2. index' \in 1..Len(text)
  BY <1>1, Cursor
<1>3. m_stack \in Seq(Ints) /\ m_stack # <<>>
  BY <1>1, AtTop DEF Delivers
<1> QED
  BY <1>1, <1>2, <1>3, Returning, Continuing

LEMMA ApplyBinaryPreserves == IInv /\ ApplyBinary => IInv'
<1> SUFFICES ASSUME IInv, ApplyBinary PROVE IInv'
  OBVIOUS
<1> DEFINE right == Last(m_stack)
           left == Last(Front(m_stack))
           operands == Front(Front(m_stack))
<1>1. status = "parsing" /\ Top.fn = "binary" /\ index' = index
  BY DEF ApplyBinary, In
<1>2. index' \in 1..Len(text) /\ index' \in 1..(Len(text) + 1)
  BY <1>1, Cursor
<1>3. CASE Throw("undefined")
  BY <1>2, <1>3, Throwing
<1>4. CASE ~Throw("undefined")
  <2>1. /\ ~(Len(m_stack) < 2) /\ BinaryDefined(Top.op, left, right)
        /\ m_stack' = Append(operands, BinaryValue(Top.op, left, right))
        /\ calls' = Under /\ UNCHANGED <<text, status, value>>
    BY <1>4 DEF ApplyBinary
  <2>2. m_stack \in Seq(Ints) /\ m_stack # <<>>
    BY <1>1, AtTop DEF Delivers
  <2>3. right \in Ints /\ Front(m_stack) \in Seq(Ints) /\ Len(Front(m_stack)) = Len(m_stack) - 1
    BY <2>2, TopAndRest
  <2>4. Front(m_stack) # <<>>
    BY <2>1, <2>2, <2>3
  <2>5. left \in Ints /\ operands \in Seq(Ints)
    BY <2>3, <2>4, TopAndRest
  <2>6. Top.op \in BinaryOperators
    BY <1>1, AtTop, FrameKinds
  <2> HIDE DEF left, right, operands
  <2>7. BinaryValue(Top.op, left, right) \in Ints
    BY <2>1, <2>3, <2>5, <2>6, BinaryFits DEF Fits
  <2>8. m_stack' \in Seq(Ints) /\ m_stack' # <<>>
    BY <2>1, <2>5, <2>7, Pushed
  <2> QED
    BY <1>1, <1>2, <2>1, <2>8, Returning, Continuing
<1> QED
  BY <1>3, <1>4

LEMMA EndPathPreserves == IInv /\ EndPath => IInv'
<1> SUFFICES ASSUME IInv, EndPath PROVE IInv'
  OBVIOUS
<1>1. status = "parsing" /\ Top.fn = "path" /\ index' = index
  BY DEF EndPath, In
<1>2. index' \in 1..Len(text) /\ index' \in 1..(Len(text) + 1)
  BY <1>1, Cursor
<1>3. CASE PushValueOf(Top.path, Under)
  <2>1. Under \in Seq(Frames) /\ Nested(Under)
    BY <1>1, Returning
  <2> QED
    BY <1>1, <1>2, <1>3, <2>1, PushingValueOf
<1>4. CASE Throw("thrown")
  BY <1>2, <1>4, Throwing
<1> QED
  BY <1>3, <1>4 DEF EndPath

(* Two tokens are left behind a dot that is followed by one that is not the *)
(* last.                                                                    *)
LEMMA PathConsumes ==
    ASSUME IInv, In("path"), Current.type = ".", After.type # "end"
    PROVE  index + 2 \in 1..Len(text) /\ After.value \in Names
<1>1. /\ Len(text) \in Nat /\ index \in 1..Len(text)
      /\ \A i \in 1..Len(text) : text[i].type # "end" => i + 1 \in 1..Len(text)
      /\ \A i \in 1..Len(text) : text[i].value \in Names
  BY Cursor DEF In
<1>2. index + 1 \in 1..Len(text)
  BY <1>1 DEF Current
<1>3. (index + 1) + 1 \in 1..Len(text) /\ After.value \in Names
  BY <1>1, <1>2 DEF After
<1> QED
  BY <1>1, <1>3

LEMMA NodeNamePreserves == IInv /\ pr_node_name_ => IInv'
<1> SUFFICES ASSUME IInv, pr_node_name_ PROVE IInv'
  OBVIOUS
<1> DEFINE path == Append(Top.path, After.value)
<1>1. /\ status = "parsing" /\ Top.fn = "path" /\ index' = index + 2
      /\ calls' = Append(Under, Path(path)) /\ UNCHANGED <<text, m_stack, status, value>>
  BY DEF pr_node_name_, In
<1>2. index' \in 1..Len(text) /\ After.value \in Names
  BY <1>1, PathConsumes DEF pr_node_name_
<1>3. path \in Seq(Names)
  <2>1. Top.path \in Seq(Names)
    BY <1>1, AtTop, FrameKinds
  <2> QED
    BY <1>2, <2>1
<1> HIDE DEF path
<1>4. calls' \in Seq(Frames) /\ ~Delivers(Last(calls'))
  BY <1>1, <1>3, AtTop, PathFrames
<1>5. calls \in Seq(Frames) /\ Nested(calls) /\ Last(calls).fn = "path"
  BY <1>1, AtTop DEF Top
<1>6. Path(path) \in Frames /\ Path(path).fn = "path"
  BY <1>3, <1>5, PathFrames
<1>7. Nested(Append(Front(calls), Path(path)))
  BY <1>5, <1>6, NestedReplace
<1> QED
  BY <1>1, <1>2, <1>4, <1>7, AtTop, Continuing DEF Under

LEMMA SubscriptPreserves == IInv /\ pr_expression_ => IInv'
<1> SUFFICES ASSUME IInv, pr_expression_ PROVE IInv'
  OBVIOUS
<1>1. /\ status = "parsing" /\ Top.fn = "path" /\ index' = index + 2 /\ m_stack' = <<>>
      /\ calls' = calls \o <<Plain("parse"), Expression(0)>> /\ UNCHANGED <<text, status, value>>
  BY DEF pr_expression_, In
<1>2. index' \in 1..Len(text)
  BY <1>1, PathConsumes DEF pr_expression_
<1>3. Plain("parse") \in Frames /\ Plain("parse").fn = "parse" /\ 0 \in 0..80
  BY NewFrames DEF Plain
<1>4. calls \in Seq(Frames) /\ Nested(calls) /\ Makes(Last(calls), Plain("parse"))
  BY <1>1, <1>3, AtTop DEF Makes, Top
<1>5. calls' \in Seq(Frames) /\ Nested(calls') /\ Last(calls') = Expression(0)
  BY <1>1, <1>3, <1>4, TwoCalls
<1>6. m_stack' \in Seq(Ints)
  BY <1>1
<1> QED
  BY <1>1, <1>2, <1>5, <1>6, ExpressionDelivers, Continuing

(* A call of parse that is not the outermost is made by one that reads a   *)
(* path.                                                                   *)
LEMMA ParseInPath ==
    ASSUME IInv, In("parse"), Len(calls) > 1
    PROVE  /\ Under \in Seq(Frames) /\ Nested(Under) /\ Last(Under) \in Frames
           /\ Last(Under).fn = "path" /\ Last(Under).path \in Seq(Names)
<1>1. calls \in Seq(Frames) /\ Nested(calls) /\ Last(calls).fn = "parse"
  BY AtTop DEF In, Top
<1>2. Under \in Seq(Frames) /\ Nested(Under) /\ Makes(Last(Under), Last(calls))
  BY <1>1, AtTop, NestedPop DEF In, Under
<1>3. Last(Under) \in Frames
  BY <1>2, TopAndRest DEF Nested
<1>4. Last(Under).fn = "path"
  BY <1>1, <1>2 DEF Makes
<1> QED
  BY <1>2, <1>3, <1>4, FrameKinds

LEMMA CloseSubscriptPreserves == IInv /\ pr_close_square_bracket_ => IInv'
<1> SUFFICES ASSUME IInv, pr_close_square_bracket_ PROVE IInv'
  OBVIOUS
<1>1. status = "parsing" /\ Top.fn = "parse" /\ index' = index + 1
  BY DEF pr_close_square_bracket_, In
<1>2. CASE Current.type = "]"
  <2> DEFINE path == Append(Last(Under).path, Last(m_stack))
  <2>1. /\ m_stack' = Front(m_stack) /\ calls' = Append(Front(Under), Path(path))
        /\ UNCHANGED <<text, status, value>>
    BY <1>2 DEF pr_close_square_bracket_
  <2>2. index' \in 1..Len(text)
    BY <1>1, <1>2, Cursor DEF Current
  <2>3. m_stack \in Seq(Ints) /\ m_stack # <<>>
    BY <1>1, AtTop DEF Delivers
  <2>4. Front(m_stack) \in Seq(Ints) /\ Last(m_stack) \in Names
    BY <2>3, TopAndRest DEF Names
  <2>5. path \in Seq(Names)
    BY <2>4, ParseInPath DEF pr_close_square_bracket_
  <2> HIDE DEF path
  <2>6. Front(Under) \in Seq(Frames)
    BY ParseInPath, TopAndRest DEF pr_close_square_bracket_, Nested
  <2>7. Path(path) \in Frames /\ Path(path).fn = "path" /\ ~Delivers(Last(calls'))
    BY <2>1, <2>5, <2>6, PathFrames
  <2>8. calls' \in Seq(Frames) /\ Nested(calls')
    BY <2>1, <2>7, ParseInPath, NestedReplace DEF pr_close_square_bracket_
  <2> QED
    BY <1>1, <2>1, <2>2, <2>4, <2>7, <2>8, Continuing
<1>3. CASE Current.type # "]"
  <2>1. Throw("thrown")
    BY <1>3 DEF pr_close_square_bracket_
  <2>2. index' \in 1..(Len(text) + 1)
    BY <1>1, Cursor
  <2> QED
    BY <2>1, <2>2, Throwing
<1> QED
  BY <1>2, <1>3

LEMMA NextPreserves == IInv /\ [Next]_vars => IInv'
<1> SUFFICES ASSUME IInv, [Next]_vars PROVE IInv'
  OBVIOUS
<1>1. CASE UNCHANGED vars
  <2>1. StateOK' /\ CallsOK'
    BY <1>1 DEF vars, IInv, StateOK, CallsOK, Top, Fits
  <2> QED
    BY <2>1 DEF IInv
<1>2. CASE Next
  BY <1>2, ParsePreserves, ReturnPreserves, NoNudPreserves, NumberPreserves, GroupingPreserves,
     UnaryPreserves, ReferencePreserves, CloseGroupingPreserves, ApplyUnaryPreserves,
     BinaryPreserves, EndExpressionPreserves, ApplyBinaryPreserves, EndPathPreserves,
     NodeNamePreserves, SubscriptPreserves, CloseSubscriptPreserves DEF Next
<1> QED
  BY <1>1, <1>2

LEMMA InvariantHolds == Spec => []IInv
  BY InitEstablishes, NextPreserves, PTL DEF Spec

(* The parser's state is well formed, whatever it parses: the cursor does  *)
(* not leave the text by more than the token it read last, every operand   *)
(* is an int, and something is being parsed as long as a call is in        *)
(* progress (expression-parser/parser.cpp).                                *)
THEOREM TypeCorrect == Spec => []TypeOK
<1>1. IInv => TypeOK
  <2> SUFFICES ASSUME IInv PROVE TypeOK
    OBVIOUS
  <2>1. \A i \in DOMAIN calls : calls[i].fn = "path" \/ calls[i] \in Calls
    <3>1. \A i \in DOMAIN calls : calls[i] \in Frames
      BY DEF IInv, StateOK
    <3>2. \A frame \in Frames : frame.fn = "path" \/ frame \in Calls
      BY DEF Frames
    <3> QED
      BY <3>1, <3>2
  <2> QED
    BY <2>1 DEF TypeOK, IInv, StateOK, CallsOK
<1> QED
  BY <1>1, InvariantHolds, PTL

-----------------------------------------------------------------------------
(* Operands and the operators that wait for them. *)

(* How many binary operators wait for their right operand. *)
Waiting(s) == Cardinality({i \in DOMAIN s : s[i].fn = "binary"})

LEMMA WaitingPush ==
    ASSUME NEW s \in Seq(Frames), NEW frame \in Frames
    PROVE  /\ Waiting(s) \in Nat
           /\ Waiting(Append(s, frame)) = Waiting(s) + (IF frame.fn = "binary" THEN 1 ELSE 0)
<1> DEFINE old == {i \in DOMAIN s : s[i].fn = "binary"}
           longer == Append(s, frame)
           new == {i \in DOMAIN longer : longer[i].fn = "binary"}
<1>1. Len(s) \in Nat /\ DOMAIN s = 1..Len(s)
  OBVIOUS
<1>2. IsFiniteSet(old) /\ Cardinality(old) \in Nat
  <2>1. IsFiniteSet(1..Len(s)) /\ old \in SUBSET (1..Len(s))
    BY <1>1, FS_Interval
  <2> HIDE DEF old
  <2>2. IsFiniteSet(old)
    BY <2>1, FS_Subset
  <2> QED
    BY <2>2, FS_CardinalityType
<1>3. /\ DOMAIN longer = 1..(Len(s) + 1)
      /\ \A i \in 1..Len(s) : longer[i] = s[i]
      /\ longer[Len(s) + 1] = frame
  OBVIOUS
<1> HIDE DEF longer
<1>4. Waiting(s) = Cardinality(old) /\ Waiting(longer) = Cardinality(new)
  BY DEF Waiting
<1>5. CASE frame.fn = "binary"
  <2>1. new = old \cup {Len(s) + 1} /\ Len(s) + 1 \notin old
    BY <1>1, <1>3, <1>5
  <2> HIDE DEF old, new
  <2>2. Cardinality(new) = Cardinality(old) + 1
    BY <1>2, <2>1, FS_AddElement
  <2> QED
    BY <1>2, <1>4, <1>5, <2>2 DEF longer
<1>6. CASE frame.fn # "binary"
  <2>1. new = old
    BY <1>1, <1>3, <1>6
  <2> HIDE DEF old, new
  <2> QED
    BY <1>2, <1>4, <1>6, <2>1 DEF longer
<1> QED
  BY <1>5, <1>6

LEMMA WaitingPop ==
    ASSUME NEW s \in Seq(Frames), s # <<>>
    PROVE  /\ Waiting(Front(s)) \in Nat
           /\ Waiting(s) = Waiting(Front(s)) + (IF Last(s).fn = "binary" THEN 1 ELSE 0)
<1>1. Front(s) \in Seq(Frames) /\ Last(s) \in Frames
  BY TopAndRest
<1>2. s = Append(Front(s), Last(s))
  <2>1. /\ Len(s) \in Nat \ {0} /\ Last(s) = s[Len(s)] /\ Len(Front(s)) = Len(s) - 1
        /\ \A i \in 1..(Len(s) - 1) : Front(s)[i] = s[i]
    BY TopAndRest
  <2>2. /\ Append(Front(s), Last(s)) \in Seq(Frames) /\ Len(Append(Front(s), Last(s))) = Len(Front(s)) + 1
        /\ \A i \in 1..Len(Front(s)) : Append(Front(s), Last(s))[i] = Front(s)[i]
        /\ Append(Front(s), Last(s))[Len(Front(s)) + 1] = Last(s)
    BY <1>1, Pushed
  <2>3. Len(s) = Len(Append(Front(s), Last(s)))
    BY <2>1, <2>2
  <2>4. ASSUME NEW i \in 1..Len(s) PROVE s[i] = Append(Front(s), Last(s))[i]
    <3>1. CASE i \in 1..(Len(s) - 1)
      BY <2>1, <2>2, <3>1
    <3>2. CASE i = Len(s)
      BY <2>1, <2>2, <3>2
    <3> QED
      BY <2>1, <3>1, <3>2
  <2> QED
    BY <2>2, <2>3, <2>4, SeqEqual
<1> QED
  BY <1>1, <1>2, WaitingPush

LEMMA NoneWaiting ==
    ASSUME NEW s \in Seq(Frames), \A i \in DOMAIN s : s[i].fn # "binary"
    PROVE  Waiting(s) = 0
<1>1. {i \in DOMAIN s : s[i].fn = "binary"} = {}
  OBVIOUS
<1> QED
  BY <1>1, FS_EmptySet DEF Waiting

(* What the top of a stack of calls is owed. *)
Due(s) == Waiting(s) + (IF Delivers(Last(s)) THEN 1 ELSE 0)

Matches == status = "parsing" => Len(m_stack) = Due(calls)

LEMMA MatchesIsProperty == Matches <=> OperandsMatchCalls
  BY DEF Matches, OperandsMatchCalls, Due, Waiting, Delivers, Top

LEMMA DueAfterPush ==
    ASSUME NEW s \in Seq(Frames), NEW frame \in Frames
    PROVE  Due(Append(s, frame)) =
               Waiting(s) + (IF frame.fn = "binary" THEN 1 ELSE 0) + (IF Delivers(frame) THEN 1 ELSE 0)
  BY WaitingPush, Pushed DEF Due

LEMMA DueAfterTwoCalls ==
    ASSUME NEW s \in Seq(Frames), NEW frame \in Frames, NEW power \in 0..80
    PROVE  Due(s \o <<frame, Expression(power)>>) = Waiting(s) + (IF frame.fn = "binary" THEN 1 ELSE 0)
<1>1. Expression(power) \in Frames /\ Expression(power).fn = "expr" /\ ~Delivers(Expression(power))
  BY NewFrames, ExpressionDelivers DEF Expression
<1>2. s \o <<frame, Expression(power)>> = Append(Append(s, frame), Expression(power))
  BY <1>1, PushedTwice
<1>3. Append(s, frame) \in Seq(Frames)
  BY Pushed
<1>4. Due(Append(Append(s, frame), Expression(power))) = Waiting(Append(s, frame))
  <2>1. /\ Waiting(Append(s, frame)) \in Nat
        /\ Due(Append(Append(s, frame), Expression(power))) = Waiting(Append(s, frame)) + 0 + 0
    BY <1>1, <1>3, DueAfterPush, WaitingPush
  <2> QED
    BY <2>1
<1>5. Waiting(s) \in Nat /\ Waiting(Append(s, frame)) = Waiting(s) + (IF frame.fn = "binary" THEN 1 ELSE 0)
  BY WaitingPush
<1> QED
  BY <1>2, <1>4, <1>5

(* The calls in progress, and those left when the top one has returned. *)
LEMMA DueNow ==
    ASSUME IInv, status = "parsing"
    PROVE  /\ Waiting(Under) \in Nat /\ Waiting(calls) \in Nat
           /\ Waiting(calls) = Waiting(Under) + (IF Top.fn = "binary" THEN 1 ELSE 0)
           /\ Due(calls) = Waiting(calls) + (IF Delivers(Top) THEN 1 ELSE 0)
<1>1. calls \in Seq(Frames) /\ calls # <<>>
  BY AtTop
<1>2. /\ Waiting(Front(calls)) \in Nat
      /\ Waiting(calls) = Waiting(Front(calls)) + (IF Last(calls).fn = "binary" THEN 1 ELSE 0)
  BY <1>1, WaitingPop
<1> QED
  BY <1>2 DEF Due, Top, Under

LEMMA DueInLoop ==
    ASSUME IInv, In("expr")
    PROVE  Waiting(Looping) = Waiting(calls) /\ Due(Looping) = Waiting(calls) + 1
<1>1. /\ [Top EXCEPT !.at = "led"] \in Frames /\ [Top EXCEPT !.at = "led"].fn = "expr"
      /\ [Top EXCEPT !.at = "led"].at = "led"
  BY AtTop, FrameKinds DEF In
<1>2. Waiting(calls) = Waiting(Under) /\ Waiting(Under) \in Nat
  BY DueNow DEF In
<1>3. Under \in Seq(Frames)
  BY AtTop DEF In
<1>4. Waiting(Looping) = Waiting(Under)
  <2>1. Waiting(Looping) = Waiting(Under) + 0
    BY <1>1, <1>3, WaitingPush DEF Looping
  <2> QED
    BY <1>2, <2>1
<1>5. Due(Looping) = Waiting(Looping) + 1
  BY <1>1, InLoop DEF Due, Delivers
<1> QED
  BY <1>2, <1>4, <1>5

LEMMA ThrowMatches ==
    ASSUME NEW outcome \in {"rejected", "thrown", "undefined"}, Throw(outcome)
    PROVE  Matches'
  BY DEF Throw, Matches

(* A value pushed on return to calls that were owed one less. *)
LEMMA PushedValueMatches ==
    ASSUME IInv, status = "parsing", NEW path, NEW below,
           PushValueOf(path, below), Due(below) = Len(m_stack) + 1
    PROVE  Matches'
<1>1. CASE path \in DOMAIN Known
  <2>1. m_stack' = Append(m_stack, Known[path]) /\ calls' = below /\ status' = status
    BY <1>1 DEF PushValueOf, push_
  <2>2. Len(m_stack') = Len(m_stack) + 1
    BY <1>1, <2>1, KnownAssumption, AtTop, Pushed
  <2> QED
    BY <2>1, <2>2 DEF Matches
<1>2. CASE path \notin DOMAIN Known
  BY <1>2, ThrowMatches DEF PushValueOf
<1> QED
  BY <1>1, <1>2

LEMMA ParseMatches == IInv /\ Parse => Matches'
<1> SUFFICES ASSUME IInv, Parse PROVE Matches'
  OBVIOUS
<1>1. <<>> \in Seq(Frames) /\ Plain("parse") \in Frames /\ Plain("parse").fn = "parse" /\ 0 \in 0..80
  BY NewFrames DEF Plain
<1>2. calls' = <<>> \o <<Plain("parse"), Expression(0)>>
  BY <1>1 DEF Parse
<1> DEFINE none == <<>>
<1>3. none \in Seq(Frames) /\ DOMAIN none = {}
  OBVIOUS
<1> HIDE DEF none
<1>4. Waiting(none) = 0
  BY <1>3, NoneWaiting
<1>5. Due(none \o <<Plain("parse"), Expression(0)>>) = Waiting(none) + 0
  BY <1>1, <1>3, DueAfterTwoCalls
<1>6. Due(calls') = 0 /\ Len(m_stack') = 0
  BY <1>2, <1>4, <1>5 DEF none, Parse
<1> QED
  BY <1>6 DEF Parse, Matches

LEMMA NudMatches ==
    ASSUME IInv, Matches, nud_number_ \/ nud_grouping_ \/ nud_unary_op_ \/ nud_var_or_ref_
    PROVE  Matches'
<1>1. In("expr") /\ status = "parsing" /\ Top.fn = "expr" /\ Top.at = "nud"
  BY DEF nud_number_, nud_grouping_, nud_unary_op_, nud_var_or_ref_, AtNud, In
<1>2. /\ Waiting(Looping) = Waiting(calls) /\ Waiting(calls) \in Nat
      /\ Due(Looping) = Waiting(calls) + 1 /\ Looping \in Seq(Frames)
  BY <1>1, DueInLoop, DueNow, InLoop
<1>3. Len(m_stack) = Waiting(calls)
  BY <1>1, DueNow DEF Matches, Delivers
<1>4. CASE nud_number_
  <2>1. CASE Fits(Current.value)
    <3>1. m_stack' = Append(m_stack, Current.value) /\ calls' = Looping
      BY <1>4, <2>1 DEF nud_number_, push_
    <3>2. Len(m_stack') = Len(m_stack) + 1
      BY <1>1, <2>1, <3>1, AtTop, Pushed DEF Fits
    <3> QED
      BY <1>2, <1>3, <3>1, <3>2 DEF Matches
  <2>2. CASE ~Fits(Current.value)
    BY <1>4, <2>2, ThrowMatches DEF nud_number_
  <2> QED
    BY <2>1, <2>2
<1>5. CASE nud_grouping_
  <2>1. calls' = Looping \o <<Plain("grouping"), Expression(0)>> /\ m_stack' = m_stack
    BY <1>5 DEF nud_grouping_
  <2>2. Plain("grouping") \in Frames /\ Plain("grouping").fn = "grouping" /\ 0 \in 0..80
    BY NewFrames DEF Plain
  <2>3. Due(calls') = Waiting(Looping) + 0
    BY <1>2, <2>1, <2>2, DueAfterTwoCalls
  <2> QED
    BY <1>2, <1>3, <2>1, <2>3 DEF Matches
<1>6. CASE nud_unary_op_
  <2>1. PICK op \in UnaryOperators :
            calls' = Looping \o <<Operator("unary", op), Expression(rbp(op))>> /\ m_stack' = m_stack
    BY <1>6 DEF nud_unary_op_
  <2>2. Operator("unary", op) \in Frames /\ Operator("unary", op).fn = "unary"
    BY NewFrames DEF Operator
  <2>3. rbp(op) \in 0..80
    BY <2>1 DEF rbp, lbp, UnaryOperators
  <2>4. Due(calls') = Waiting(Looping) + 0
    BY <1>2, <2>1, <2>2, <2>3, DueAfterTwoCalls
  <2> QED
    BY <1>2, <1>3, <2>1, <2>4 DEF Matches
<1>7. CASE nud_var_or_ref_
  <2>1. CASE /\ calls' = Append(Looping, Path(<<Current.value>>))
             /\ m_stack' = m_stack
    <3>1. <<Current.value>> \in Seq(Names)
      BY <1>1, Cursor DEF Current
    <3>2. /\ Path(<<Current.value>>) \in Frames /\ Path(<<Current.value>>).fn = "path"
          /\ ~Delivers(Path(<<Current.value>>))
      BY <1>2, <3>1, PathFrames
    <3>3. Due(calls') = Waiting(Looping) + 0 + 0
      BY <1>2, <2>1, <3>2, DueAfterPush
    <3> QED
      BY <1>2, <1>3, <2>1, <3>3 DEF Matches
  <2>2. CASE \E path : PushValueOf(path, Looping)
    <3>1. Due(Looping) = Len(m_stack) + 1
      BY <1>2, <1>3
    <3> QED
      BY <1>1, <2>2, <3>1, PushedValueMatches
  <2>3. CASE Throw("rejected")
    BY <2>3, ThrowMatches
  <2> QED
    BY <1>7, <2>1, <2>2, <2>3 DEF nud_var_or_ref_
<1> QED
  BY <1>4, <1>5, <1>6, <1>7

(* A call that delivers what was delivered to it. *)
LEMMA ReturningMatches ==
    ASSUME IInv, Matches, status = "parsing", Top.fn \in {"expr", "grouping", "unary"}, Delivers(Top),
           calls' = Under, Len(m_stack') = Len(m_stack)
    PROVE  Matches'
<1>1. Top.fn # "parse" /\ Top.fn # "binary" /\ Top.fn # "path"
  OBVIOUS
<1>2. Waiting(Under) \in Nat /\ Len(m_stack) = Waiting(Under) + 1
  BY <1>1, DueNow DEF Matches
<1>3. Delivers(Last(Under))
  BY <1>1, Returning DEF Makes, Delivers
<1> QED
  BY <1>2, <1>3 DEF Matches, Due

LEMMA LoopMatches ==
    ASSUME IInv, Matches, CloseGrouping \/ ApplyUnary \/ led_binary_op_ \/ EndExpression
    PROVE  Matches'
<1>1. CASE CloseGrouping
  <2>1. CASE Throw("rejected")
    BY <2>1, ThrowMatches
  <2>2. CASE ~Throw("rejected")
    <3>1. /\ status = "parsing" /\ Top.fn = "grouping" /\ calls' = Under /\ m_stack' = m_stack
      BY <1>1, <2>2 DEF CloseGrouping, In
    <3> QED
      BY <3>1, ReturningMatches DEF Delivers
  <2> QED
    BY <2>1, <2>2
<1>2. CASE ApplyUnary
  <2>1. CASE Throw("undefined")
    BY <2>1, ThrowMatches
  <2>2. CASE ~Throw("undefined")
    <3> DEFINE result == UnaryValue(Top.op, Last(m_stack))
    <3>1. /\ status = "parsing" /\ Top.fn = "unary" /\ calls' = Under
          /\ Fits(result) /\ m_stack' = Append(Front(m_stack), result)
      BY <1>2, <2>2 DEF ApplyUnary, In
    <3> HIDE DEF result
    <3>2. m_stack \in Seq(Ints) /\ m_stack # <<>>
      BY <3>1, AtTop DEF Delivers
    <3>3. /\ Front(m_stack) \in Seq(Ints) /\ Len(Front(m_stack)) = Len(m_stack) - 1
          /\ Len(m_stack) \in Nat
      BY <3>2, TopAndRest
    <3>4. Len(m_stack') = Len(Front(m_stack)) + 1
      BY <3>1, <3>3, Pushed DEF Fits
    <3>5. Len(m_stack') = Len(m_stack)
      BY <3>3, <3>4
    <3> QED
      BY <3>1, <3>5, ReturningMatches DEF Delivers
  <2> QED
    BY <2>1, <2>2
<1>3. CASE led_binary_op_
  <2> DEFINE op == Current.type
  <2>1. /\ status = "parsing" /\ Top.fn = "expr" /\ Top.at = "led" /\ Top.rbp < lbp(op)
        /\ calls' = calls \o <<Operator("binary", op), Expression(rbp(op))>> /\ m_stack' = m_stack
    BY <1>3 DEF led_binary_op_, In
  <2> HIDE DEF op
  <2>2. op \in BinaryOperators /\ rbp(op) \in 0..80
    BY <2>1, BinaryPower
  <2>3. Operator("binary", op) \in Frames /\ Operator("binary", op).fn = "binary"
    BY <2>2, NewFrames DEF Operator
  <2>4. Due(calls') = Waiting(calls) + 1
    BY <2>1, <2>2, <2>3, AtTop, DueAfterTwoCalls
  <2>5. Len(m_stack) = Waiting(calls) + 1
    BY <2>1, DueNow DEF Matches, Delivers
  <2> QED
    BY <2>1, <2>4, <2>5 DEF Matches
<1>4. CASE EndExpression
  BY <1>4, ReturningMatches DEF EndExpression, In, Delivers
<1> QED
  BY <1>1, <1>2, <1>3, <1>4

LEMMA ApplyBinaryMatches == IInv /\ Matches /\ ApplyBinary => Matches'
<1> SUFFICES ASSUME IInv, Matches, ApplyBinary, ~Throw("undefined") PROVE Matches'
  BY ThrowMatches
<1> DEFINE result == BinaryValue(Top.op, Last(Front(m_stack)), Last(m_stack))
           operands == Front(Front(m_stack))
<1>1. /\ status = "parsing" /\ Top.fn = "binary"
      /\ ~(Len(m_stack) < 2) /\ m_stack' = Append(operands, result) /\ calls' = Under
  BY DEF ApplyBinary, In
<1>2. m_stack \in Seq(Ints) /\ m_stack # <<>>
  BY <1>1, AtTop DEF Delivers
<1>3. Front(m_stack) \in Seq(Ints) /\ Len(Front(m_stack)) = Len(m_stack) - 1 /\ Len(m_stack) \in Nat
  BY <1>2, TopAndRest
<1>4. Front(m_stack) # <<>>
  BY <1>1, <1>2, <1>3
<1>5. operands \in Seq(Ints) /\ Len(operands) = Len(Front(m_stack)) - 1
  BY <1>3, <1>4, TopAndRest
<1> HIDE DEF result, operands
<1>6. Len(m_stack') = Len(operands) + 1
  BY <1>1, <1>5
<1>7. Waiting(Under) \in Nat /\ Len(m_stack) = (Waiting(Under) + 1) + 1
  BY <1>1, DueNow DEF Matches, Delivers
<1>8. Delivers(Last(Under)) = TRUE
  BY <1>1, Returning DEF Makes, Delivers
<1>9. Due(Under) = Waiting(Under) + 1
  BY <1>8 DEF Due
<1>10. Len(m_stack') = Waiting(Under) + 1
  BY <1>3, <1>5, <1>6, <1>7
<1> QED
  BY <1>1, <1>9, <1>10 DEF Matches

LEMMA PathMatches ==
    ASSUME IInv, Matches, EndPath \/ pr_node_name_
    PROVE  Matches'
<1>1. status = "parsing" /\ Top.fn = "path"
  BY DEF EndPath, pr_node_name_, In
<1>2. /\ Waiting(Under) \in Nat /\ Len(m_stack) = Waiting(Under)
      /\ Last(Under).fn = "expr" /\ Last(Under).at = "led"
  BY <1>1, DueNow, Returning DEF Matches, Delivers
<1>3. CASE EndPath
  <2>1. CASE PushValueOf(Top.path, Under)
    <3>1. Due(Under) = Len(m_stack) + 1
      BY <1>2 DEF Due, Delivers
    <3> QED
      BY <1>1, <2>1, <3>1, PushedValueMatches
  <2>2. CASE Throw("thrown")
    BY <2>2, ThrowMatches
  <2> QED
    BY <1>3, <2>1, <2>2 DEF EndPath
<1>4. CASE pr_node_name_
  <2> DEFINE path == Append(Top.path, After.value)
  <2>1. calls' = Append(Under, Path(path)) /\ m_stack' = m_stack
    BY <1>4 DEF pr_node_name_
  <2>2. path \in Seq(Names)
    <3>1. Top.path \in Seq(Names) /\ After.value \in Names
      BY <1>1, <1>4, AtTop, FrameKinds, PathConsumes DEF pr_node_name_
    <3> QED
      BY <3>1
  <2> HIDE DEF path
  <2>3. Under \in Seq(Frames)
    BY <1>1, AtTop
  <2>4. Path(path) \in Frames /\ Path(path).fn = "path" /\ ~Delivers(Path(path))
    BY <2>2, <2>3, PathFrames
  <2>5. Due(calls') = Waiting(Under) + 0 + 0
    BY <2>1, <2>3, <2>4, DueAfterPush
  <2> QED
    BY <1>2, <2>1, <2>5 DEF Matches
<1> QED
  BY <1>3, <1>4

(* The subscript's parse empties m_stack, which is what no operator being  *)
(* in progress leaves there.                                               *)
LEMMA SubscriptMatches ==
    ASSUME IInv, pr_expression_, \A i \in DOMAIN calls : calls[i].fn # "binary"
    PROVE  Matches'
<1>1. /\ status = "parsing" /\ m_stack' = <<>>
      /\ calls' = calls \o <<Plain("parse"), Expression(0)>>
  BY DEF pr_expression_, In
<1>2. calls \in Seq(Frames)
  BY <1>1, AtTop
<1>3. Waiting(calls) = 0
  BY <1>2, NoneWaiting
<1>4. Plain("parse") \in Frames /\ Plain("parse").fn = "parse" /\ 0 \in 0..80
  BY NewFrames DEF Plain
<1>5. Due(calls') = Waiting(calls) + 0
  BY <1>1, <1>2, <1>4, DueAfterTwoCalls
<1>6. Len(m_stack') = 0
  BY <1>1
<1> QED
  BY <1>3, <1>5, <1>6 DEF Matches

LEMMA CloseSubscriptMatches == IInv /\ Matches /\ pr_close_square_bracket_ => Matches'
<1> SUFFICES ASSUME IInv, Matches, pr_close_square_bracket_, ~Throw("thrown") PROVE Matches'
  BY ThrowMatches
<1> DEFINE path == Append(Last(Under).path, Last(m_stack))
<1>1. /\ status = "parsing" /\ Top.fn = "parse" /\ Len(calls) > 1
      /\ m_stack' = Front(m_stack) /\ calls' = Append(Front(Under), Path(path))
  BY DEF pr_close_square_bracket_, In
<1>2. m_stack \in Seq(Ints) /\ m_stack # <<>>
  BY <1>1, AtTop DEF Delivers
<1>3. Len(m_stack') = Len(m_stack) - 1 /\ Last(m_stack) \in Names
  BY <1>1, <1>2, TopAndRest DEF Names
<1>4. /\ Under \in Seq(Frames) /\ Under # <<>>
      /\ Last(Under).fn = "path" /\ Last(Under).path \in Seq(Names)
  BY <1>1, ParseInPath DEF In, Nested
<1>5. path \in Seq(Names)
  BY <1>3, <1>4
<1> HIDE DEF path
<1>6. /\ Front(Under) \in Seq(Frames) /\ Waiting(Front(Under)) \in Nat
      /\ Waiting(Under) = Waiting(Front(Under)) + 0
  BY <1>4, TopAndRest, WaitingPop
<1>7. Path(path) \in Frames /\ Path(path).fn = "path" /\ ~Delivers(Path(path))
  BY <1>5, <1>6, PathFrames
<1>8. Due(calls') = Waiting(Front(Under)) + 0 + 0
  BY <1>1, <1>6, <1>7, DueAfterPush
<1>9. Len(m_stack) = Waiting(Under) + 1
  BY <1>1, DueNow DEF Matches, Delivers
<1>10. Len(m_stack') = Due(calls')
  BY <1>3, <1>6, <1>8, <1>9
<1> QED
  BY <1>10 DEF Matches

(* No subscript is opened while a binary operator waits for its right      *)
(* operand: "a[i].b + 1" and "a + b" are of this kind, "1 + a[i].b" is not.*)
SubscriptsComeFirst ==
    pr_expression_ => \A i \in DOMAIN calls : calls[i].fn # "binary"

LEMMA NextMatches ==
    IInv /\ Matches /\ [Next]_vars /\ [SubscriptsComeFirst]_vars => Matches'
<1> SUFFICES ASSUME IInv, Matches, [Next]_vars, [SubscriptsComeFirst]_vars PROVE Matches'
  OBVIOUS
<1>1. CASE UNCHANGED vars
  BY <1>1 DEF vars, Matches
<1>2. CASE Next /\ SubscriptsComeFirst
  <2>1. CASE Return
    BY <2>1 DEF Return, Matches
  <2>2. CASE NoNud
    BY <2>2, ThrowMatches DEF NoNud
  <2>3. CASE pr_expression_
    BY <1>2, <2>3, SubscriptMatches DEF SubscriptsComeFirst
  <2> QED
    BY <1>2, <2>1, <2>2, <2>3, ParseMatches, NudMatches, LoopMatches, ApplyBinaryMatches,
       PathMatches, CloseSubscriptMatches DEF Next
<1> QED
  BY <1>1, <1>2

(* As long as no subscript is opened behind a binary operator, an operator *)
(* always finds the operands that were pushed for it, and no other: a pop  *)
(* of led_binary_op_, nud_unary_op_ or parse never meets an empty stack,   *)
(* nor an operand of another operator.  The hypothesis is needed: the      *)
(* parse of a subscript empties the m_stack its caller still needs.        *)
THEOREM OperatorsGetTheirOperands ==
    Spec /\ [][SubscriptsComeFirst]_vars => []OperandsMatchCalls
<1>1. Init => Matches
  BY DEF Init, Start, Matches
<1>2. IInv /\ Matches /\ [Next]_vars /\ [SubscriptsComeFirst]_vars => Matches'
  BY NextMatches
<1> QED
  BY <1>1, <1>2, InvariantHolds, MatchesIsProperty, PTL DEF Spec
=============================================================================
