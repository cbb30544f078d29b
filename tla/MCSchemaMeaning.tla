--------------------------- MODULE MCSchemaMeaning ---------------------------
(* The root structure reads an integer n and then two statements of a pool *)
(* that has each kind of statement, well formed or not, and each way a     *)
(* statement may fail.  Six fields, of three values, are enough for every  *)
(* branch and for loops of up to two rounds; the shorter saves end early.  *)
EXTENDS SchemaMeaning

MCNames       == {"n", "m", "i", "j", "s.n", "E::A", "TWO", "T", "U", "x", "s"}
MCDotted      == {"s.n"}
MCEnumRefs    == {"E::A"}
MCTreeNames   == {"n", "m", "s.n", "x"}
MCValues      == {0, 1, 2}
MCEnumerators == [e \in {"E::A"} |-> 1]
MCConsts      == [c \in {"TWO"} |-> 2]
MCPaths       == [p \in {"s.n"} |-> <<"s", "n">>]
MCEnumValues  == {0, 1}

Int_(n)  == Define("int", "", n, NoExpr)
Enum(n)  == Define("enum", "E", n, NoExpr)
Bool(n)  == Define("int", "bool", n, NoExpr)
Str(n)   == Define("string", "", n, NoExpr)
Up(v, limit, body) == For(v, Lit(0), Less(v, limit), Plus(v, "E::A"), body)

(* Statements that lack a token, or have one too many. *)
Header(cond, var) == Sign("for") \o Sign("(") \o Name("i") \o Sign("=") \o Written(Lit(0)) \o Sign(";")
                       \o Written(cond) \o Sign(";") \o Name(var) \o Sign("=") \o Written(Lit(1))
Broken       == Malformed(Sign(";"))
OpenArray    == Malformed(Sign("int") \o Sign("[") \o Written(Lit(1)))
OpenElif     == Malformed(Conditional("if", Lit(1), <<>>) \o Sign("elif") \o Sign("("))
OpenFor      == Malformed(Header(Lit(1), "i"))
BareIf       == Malformed(Sign("if") \o Sign("(") \o Written(Lit(0)) \o Sign(")"))
BareFor      == Malformed(Header(Lit(0), "i") \o Sign(")"))
NoCondition  == Malformed(Sign("assert") \o Sign("(") \o Sign(")"))
NoIfCondition == Malformed(Sign("if") \o Sign("(") \o Sign(")"))
OtherUpdate  == Malformed(Header(Lit(1), "j") \o Sign(")") \o Braced(<<>>))

Pool == <<
    Enum("x"),
    Bool("x"),
    Define("int", "", "x", Var("n")),
    Define("int", "bool", "x", Var("n")),
    Define("string", "", "x", Plus("n", "TWO")),
    Define("int", "", "x", Missing),
    Define("struct", "S", "s", Var("n")),
    Define("struct", "S", "s", NoExpr),
    Define("struct", "Missing", "s", NoExpr),
    Instance("V", "int", "", "x", NoExpr),
    Instance("V", "int", "bool", "x", NoExpr),
    Instance("V", "struct", "S", "x", NoExpr),
    Instance("W", "string", "", "x", Lit(1)),
    If(Var("n"), <<Int_("m")>>, <<>>, <<Str("x"), Broken>>),
    If(Less("n", "s.n"), <<Int_("m"), Int_("n")>>, <<>>, <<>>),
    If(Less("n", "E::A"), <<Broken>>, <<Elif(Less("n", "TWO"), <<Int_("m")>>)>>, <<Enum("x")>>),
    Up("i", "n", <<Int_("n"), If(Var("i"), <<Int_("m")>>, <<>>, <<Enum("x")>>)>>),
    Up("i", "TWO", <<Up("j", "n", <<Define("int", "", "x", Var("j"))>>)>>),
    Up("i", "TWO", <<Int_("m"), Up("i", "n", <<Int_("x")>>)>>),
    Up("n", "TWO", <<Int_("n"), Broken>>),
    Check(Less("m", "TWO")),
    Check(Less("n", "TWO")),
    If(Var("n"), <<BareIf>>, <<>>, <<BareFor>>),
    If(Var("n"), <<OtherUpdate>>, <<>>, <<Up("i", "TWO", <<Up("i", "TWO", <<>>)>>)>>),
    If(Var("n"), <<NoCondition>>, <<>>, <<NoIfCondition>>),
    If(Less("n", "E::A"), <<Int_("m")>>, <<Elif(Less("n", "TWO"), <<Enum("x")>>)>>, <<>>),
    OpenArray,
    OpenElif,
    OpenFor>>

Struct == Definition("struct", "S", "", <<Int_("n"), If(Var("n"), <<Enum("m")>>, <<>>, <<>>)>>)
Vector == Definition("template", "V", "T", <<Int_("m"), Member("T", "x", Var("m"))>>)
Wrong_ == Definition("template", "W", "T", <<Member("T", "x", NoExpr), Member("U", "x", NoExpr)>>)

Second == <<Enum("x"), Check(Less("m", "TWO")), Up("i", "n", <<Int_("x")>>),
           Instance("V", "enum", "E", "s", NoExpr)>>

MCProgram(a, b) ==
    <<Struct, Vector, Wrong_, Definition("struct", "R", "", <<Int_("n"), Pool[a], Second[b]>>)>>
MCSchemas  == {Compiled(MCProgram(a, b)) : a \in DOMAIN Pool, b \in DOMAIN Second}
MCSaves    == {<<a, b, 1, 1 - b, 0, 1>> : a \in MCValues, b \in {0, 1}} \cup {<<1, 2>>, <<2, 1, 1>>, <<1, 1, 2>>}
=============================================================================
