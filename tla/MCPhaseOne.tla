----------------------------- MODULE MCPhaseOne -----------------------------
(* Small instances of phase one for TLC. *)
EXTENDS DeclaredDefinitions

MCMinusOneName(enum) == "NO_" \o enum
MCNumName(enum) == "NUM_" \o enum

-----------------------------------------------------------------------------
Num(n) == [kind |-> "number", n |-> n]
Named(name) == [kind |-> "name", name |-> name]
None == [kind |-> "none"]
E(name) == [name |-> name, expr |-> None]
Ev(name, n) == [name |-> name, expr |-> Num(n)]

Const_(name, expr) == [kind |-> "const", name |-> name, expr |-> expr]
Const(name, n) == [kind |-> "const", name |-> name, expr |-> Num(n)]
Enum(name, members) == [kind |-> "enum", name |-> name, members |-> members]
Struct(name, closed) == [kind |-> "struct", name |-> name, closed |-> closed]
Template(name) == [kind |-> "template", name |-> name, closed |-> TRUE]
Alias(template, name) == [kind |-> "alias", template |-> template, name |-> name]
ImportConst_(name) == [kind |-> "import const", name |-> name]
ImportEnum_(name, path) ==
    [kind |-> "import enum", name |-> name, path |-> path, hasParent |-> TRUE]
Read == [kind |-> "read"]
Malformed == [kind |-> "malformed"]

TwoHeads == {<<>>, <<ImportConst_("N"), ImportEnum_("E", "e")>>}
Heads ==
    TwoHeads \cup
    {<<ImportConst_("P"), ImportConst_("N")>>, <<ImportConst_("N"), ImportConst_("N")>>,
     <<ImportEnum_("E", "e"), ImportEnum_("F", "e")>>,
     <<ImportEnum_("E", "e"), ImportEnum_("E", "e")>>,
     <<[ImportEnum_("E", "e") EXCEPT !.hasParent = FALSE]>>, <<Malformed>>}
Parts ==
    {Const("N", 2), Const("M", 1), Const("NUM_F", 2), Const("NUM_E", 2), Const("F", 0),
     Enum("F", <<E("x"), E("y")>>), Enum("F", <<Ev("x", 3), E("y")>>), Enum("F", <<E("z")>>),
     Enum("F", <<Ev("x", -1), E("z"), E("y")>>), Enum("F", <<Ev("z", 1), Ev("y", 0)>>),
     Enum("F", <<Ev("v", 1), Ev("w", 1)>>), Enum("F", <<E("NO_F")>>),
     Enum("F", <<E("x"), [name |-> "y", expr |-> [kind |-> "malformed"]]>>), Enum("F", <<>>),
     Enum("E", <<E("p")>>), Struct("S", TRUE), Struct("S", FALSE), Struct("N", TRUE), Template("S"),
     Const_("M", Named("N")), Enum("F", <<E("x"), [name |-> "y", expr |-> Named("N")]>>),
     Alias("S", "A"), Malformed, Read, ImportConst_("N")}
Pairs == {<<p, q>> : p \in Parts, q \in Parts}
MCSchemas ==
    {h \o b \o <<Read>> : h \in TwoHeads, b \in Pairs}
    \cup {h \o <<p, Read>> : h \in Heads, p \in Parts}
    \cup {h \o <<Read>> : h \in Heads} \cup {<<p>> : p \in Parts} \cup {<<>>}

-----------------------------------------------------------------------------
D(name, n) == [name |-> name, value |-> n, isInt |-> TRUE]
NoInt(name) == [D(name, 0) EXCEPT !.isInt = FALSE]
Names(s) == [i \in DOMAIN s |-> D(s[i], 0)]
Files(there, mod, modular, byModules, hasModules) ==
    [at |-> there, mod |-> mod, modular |-> modular, modules |-> byModules,
     hasModules |-> hasModules, broken |-> {}]
Plain_(there) == Files(there, FALSE, FALSE, <<>>, FALSE)

Bts == (<<"bts", Alt>> :> <<D("N", 7)>>)
       @@ (<<"bts", Defines>> :> <<D("N", 8), D("P", 9), D("P", 6)>>)
       @@ (<<"bts", "e">> :> Names(<<"p", "q">>))
Overrides ==
    (<<"mod", "e">> :> Names(<<"q">>)) @@ (<<"custom", Defines>> :> <<D("P", 5)>>)
    @@ (<<"custom", "e">> :> Names(<<"r", "p", "q">>)) @@ (<<"vanilla", "e">> :> Names(<<"v">>))
Without(there, path) == [k \in {l \in DOMAIN there : l[2] # path} |-> there[k]]
Modules ==
    (1 :> [path |-> Defines, content |-> <<D("P", 1), D("N", 4)>>, broken |-> FALSE])
    @@ (2 :> [path |-> Defines, content |-> <<D("P", 2)>>, broken |-> FALSE])
    @@ (3 :> [path |-> "e", content |-> Names(<<"p">>), broken |-> FALSE])

(* Files that cannot be read, or only up to an element that is not whole. *)
Modular(f, content) ==
    Files(Bts, TRUE, TRUE, [Modules EXCEPT ![f].content = content], TRUE)
Faulty ==
    {[Plain_(Bts) EXCEPT !.broken = {<<"bts", path>>}] : path \in {Alt, Defines, "e"}}
    \cup {[Files(Bts, TRUE, TRUE, Modules, TRUE) EXCEPT !.modules[f].broken = TRUE] : f \in {1, 3}}
    \cup {Plain_((<<"bts", Alt>> :> content) @@ Bts) :
             content \in {<<NoInt("N")>>, <<NoInt("P"), D("N", 7)>>, <<D("N", 7), D(NoName, 1)>>}}
    \cup {Plain_((<<"bts", Defines>> :> <<D("P", 9), NoInt("P"), D("N", 8)>>) @@ Bts),
          Plain_((<<"bts", "e">> :> Names(<<"p", NoName>>)) @@ Bts),
          Modular(1, <<D("P", 1), NoInt("N")>>), Modular(3, Names(<<"p", NoName>>)),
          Modular(3, <<>>)}

MCFileSets ==
    {Plain_(Bts), Plain_(Overrides @@ Bts), Files(Overrides @@ Bts, TRUE, FALSE, Modules, TRUE),
     Plain_(Without(Bts, Alt)), Plain_(Without(Bts, Defines)), Plain_(Without(Bts, "e")),
     Plain_((<<"custom", "e">> :> <<>>) @@ Bts), Plain_((<<"custom", "e">> :> Names(<<"p", "p">>)) @@ Bts),
     Files(Bts, TRUE, TRUE, Modules, TRUE), Files(Bts, TRUE, TRUE, <<>>, FALSE),
     Files(Bts, FALSE, TRUE, Modules, TRUE)} \cup Faulty
MCLeftoverImports == {{}, {"N"}}
MCLeftoverTables == {<<>>, "S" :> [type |-> "const", members |-> <<Member("S", 1)>>]}

=============================================================================
