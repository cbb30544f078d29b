---------------------------- MODULE SchemaMeaning ----------------------------
(***************************************************************************)
(* What a schema means, without tokens, cursors or call stacks: statements *)
(* are trees, a definition reads the fields of the save in order, and the  *)
(* branch of an if that is taken is the first whose condition holds.  The  *)
(* reference for PhaseTwo, which must read the same nodes from the tokens. *)
(***************************************************************************)
EXTENDS PhaseTwo

-----------------------------------------------------------------------------
(* The statements of a program and the tokens they are written as. *)

Lit(v)     == [op |-> "lit", name |-> "", other |-> "", value |-> v]
Var(n)     == [op |-> "var", name |-> n, other |-> "", value |-> 0]
Less(m, n) == [op |-> "less", name |-> m, other |-> n, value |-> 0]
Plus(m, n) == [op |-> "plus", name |-> m, other |-> n, value |-> 0]

Missing    == [op |-> "missing", name |-> "", other |-> "", value |-> 0]

Sign(type) == <<Token(type, "")>>
Written(e) == <<[type |-> "expr", value |-> "", expr |-> e]>>
Name(n)    == <<Token("identifier", n)>>
Suffix(dim) == CASE dim = NoExpr -> <<>>
                 [] dim = Missing -> Sign("[") \o Sign("]")
                 [] OTHER -> Sign("[") \o Written(dim) \o Sign("]")
Braced(body) == Sign("{") \o FlattenSeq([i \in DOMAIN body |-> body[i].text]) \o Sign("}")
Conditional(word, cond, body) == Sign(word) \o Sign("(") \o Written(cond) \o Sign(")") \o Braced(body)

Define(type, of, name, dim) ==
    [kind |-> "define", type |-> type, of |-> of, name |-> name, dim |-> dim,
     text |-> <<Token(type, of)>> \o Suffix(dim) \o Name(name)]
Instance(of, type, arg, name, dim) ==
    [kind |-> "instance", of |-> of, type |-> type, arg |-> arg, name |-> name, dim |-> dim,
     text |-> <<Token("template", of)>> \o Sign("<") \o <<Token(type, arg)>> \o Sign(">")
                \o Suffix(dim) \o Name(name)]
Member(of, name, dim) ==
    [kind |-> "member", of |-> of, name |-> name, dim |-> dim,
     text |-> Name(of) \o Suffix(dim) \o Name(name)]
Elif(cond, body) == [cond |-> cond, body |-> body]
If(cond, then, elifs, else) ==
    [kind |-> "if", cond |-> cond, body |-> then, elifs |-> elifs, else |-> else,
     text |-> Conditional("if", cond, then)
                \o FlattenSeq([i \in DOMAIN elifs |-> Conditional("elif", elifs[i].cond, elifs[i].body)])
                \o (IF else = <<>> THEN <<>> ELSE Sign("else") \o Braced(else))]
For(var, from, cond, step, body) ==
    [kind |-> "for", name |-> var, from |-> from, cond |-> cond, step |-> step, body |-> body,
     text |-> Sign("for") \o Sign("(") \o Name(var) \o Sign("=") \o Written(from) \o Sign(";")
                \o Written(cond) \o Sign(";") \o Name(var) \o Sign("=") \o Written(step)
                \o Sign(")") \o Braced(body)]
Check(cond) == [kind |-> "assert", cond |-> cond,
                text |-> Sign("assert") \o Sign("(") \o Written(cond) \o Sign(")")]
Malformed(written) == [kind |-> "malformed", text |-> written]

(* A definition: a struct, or a template of one type-name. *)
Definition(kind, name, typename, body) ==
    [kind |-> kind, name |-> name, typename |-> typename, body |-> body]
DefinitionText(d) ==
    (IF d.kind = "template" THEN Sign("<") \o Name(d.typename) \o Sign(">") ELSE <<>>) \o Braced(d.body)

(* Phase one leaves the slots of the definitions in the definition table.  *)
(* The tokens between definitions, which phase two never reads, are left   *)
(* out.  The last definition is the one the read statement names.          *)
Compiled(program) ==
    LET texts == [i \in DOMAIN program |-> DefinitionText(program[i])]
        slot(i) == Len(FlattenSeq(SubSeq(texts, 1, i - 1))) + 1
        named(kind) == {i \in DOMAIN program : program[i].kind = kind}
        slots(kind) == [n \in {program[i].name : i \in named(kind)} |->
                          slot(CHOOSE i \in named(kind) : program[i].name = n)]
    IN  [text |-> FlattenSeq(texts) \o Sign("eos"), structs |-> slots("struct"),
         templates |-> slots("template"), root |-> Last(program).name, program |-> program]

-----------------------------------------------------------------------------
(* The meaning.  A state is the nodes so far, the fields read, the loop    *)
(* variables, whether all went well, and whether an elif followed a branch *)
(* that was taken.  A place is the node whose members are being read, and  *)
(* the type-name in force with the type it stands for.                     *)

Begin(root) == [nodes |-> <<>>, read |-> 0, env |-> [n \in {} |-> 0], ok |-> TRUE, skipped |-> FALSE]
Wrong(st)   == [st EXCEPT !.ok = FALSE]

Found(st, under, n) ==
    LET child(p, m) == {i \in DOMAIN st.nodes : st.nodes[i].parent = p /\ st.nodes[i].name = m}
    IN  IF n \notin DOMAIN Paths THEN child(under, n)
        ELSE IF child(under, Paths[n][1]) = {} THEN {}
        ELSE child(Min(child(under, Paths[n][1])), Paths[n][2])

(* The value of a name: NonInteger if it has none. *)
ValueOf(st, place, n) ==
    LET near == Found(st, place.node, n)
        far  == Found(st, 0, n)
    IN  IF n \in DOMAIN Enumerators THEN Enumerators[n]
        ELSE IF n \in DOMAIN st.env THEN st.env[n]
        ELSE IF near # {} THEN st.nodes[Min(near)].data
        ELSE IF far # {} THEN st.nodes[Min(far)].data
        ELSE IF n \in DOMAIN Consts THEN Consts[n]
        ELSE NonInteger

Result(st, place, e) ==
    LET a == ValueOf(st, place, e.name)
        b == ValueOf(st, place, e.other)
    IN  CASE e.op = "lit" -> e.value
          [] e.op = "var" -> a
          [] e.op = "missing" -> NonInteger
          [] OTHER -> IF NonInteger \in {a, b} THEN NonInteger
                      ELSE IF e.op = "plus" THEN a + b
                      ELSE IF a < b THEN 1 ELSE 0

Added(st, name, type, of, under) ==
    [st EXCEPT !.nodes = Append(@, [name |-> name, type |-> type, of |-> of,
                                    parent |-> under, data |-> NonInteger])]

RECURSIVE Run(_, _, _)   \* statements, from a state, at a place
RECURSIVE Repeated(_, _, _)
RECURSIVE FirstBranch(_, _, _, _)

DefinitionOf(kind, name) ==
    CHOOSE d \in Range(schema.program) : d.kind = kind /\ d.name = name

(* What a field of the save may hold: an enumerator, a bool, or anything. *)
ValuesOf(node) ==
    CASE node.type = "enum" -> EnumValues
      [] node.type = "int" /\ node.of = "bool" -> {0, 1}
      [] OTHER -> Int

Leaf(st, id) ==
    LET node == st.nodes[id]
        full == [st EXCEPT !.read = @ + 1,
                           !.nodes = IF node.type = "string" THEN @
                                     ELSE [@ EXCEPT ![id].data = save[st.read + 1]]]
    IN  IF st.read = Len(save) THEN Wrong(st)
        ELSE IF save[st.read + 1] \notin ValuesOf(node) THEN Wrong(full)
        ELSE full

Fill(st, id, what) ==
    LET node == st.nodes[id]
        body == DefinitionOf(node.type, node.of)
    IN  IF ~st.ok THEN st
        ELSE IF node.type \in {"int", "enum", "string"} THEN Leaf(st, id)
        ELSE IF node.of \notin {d.name : d \in {x \in Range(schema.program) : x.kind = node.type}}
             THEN Wrong(st)
        ELSE IF body.body = <<>> THEN Wrong(st)
        ELSE Run(body.body, st, [node |-> id, typename |-> body.typename, type |-> what.type, of |-> what.arg])

(* A definition adds its node, or its array's nodes, then fills each. *)
Emit(st, place, type, of, name, dim, what) ==
    LET one   == Added(st, name, type, of, place.node)
        array == Added(st, name, "array", of, place.node)
        id    == Len(st.nodes) + 1
        size  == Result(array, place, dim)
        all   == FoldLeft(LAMBDA s, i : Added(s, Subscript[i], type, of, id),
                          array, [i \in 1 .. size |-> i])
    IN  IF dim = NoExpr THEN Fill(one, id, what)
        ELSE IF size = NonInteger THEN Wrong(array)
        ELSE IF size \notin 0 .. MaxArray THEN Wrong(array)
        ELSE FoldLeft(LAMBDA s, i : Fill(s, id + i, what), all, [i \in 1 .. size |-> i])

Repeated(s, st, place) ==
    LET more == Result(st, place, s.cond)
        once == Run(s.body, st, place)
        step == Result(once, place, s.step)
    IN  IF more = NonInteger THEN Wrong(st)
        ELSE IF more = 0 THEN st
        ELSE IF ~once.ok THEN once
        ELSE IF step = NonInteger THEN Wrong(once)
        ELSE Repeated(s, [once EXCEPT !.env[s.name] = step], place)

FirstBranch(branches, else, st, place) ==
    LET cond  == Result(st, place, branches[1].cond)
        taken == Run(branches[1].body, st, place)
    IN  IF branches = <<>> THEN Run(else, st, place)
        ELSE IF cond = NonInteger THEN Wrong(st)
        ELSE IF cond = 0 THEN FirstBranch(Tail(branches), else, st, place)
        ELSE [taken EXCEPT !.skipped = @ \/ Len(branches) > 1]

Meant(s, st, place) ==
    CASE s.kind = "define" -> Emit(st, place, s.type, s.of, s.name, s.dim, [type |-> "", arg |-> ""])
      [] s.kind = "instance" -> Emit(st, place, "template", s.of, s.name, s.dim,
                                     [type |-> s.type, arg |-> s.arg])
      [] s.kind = "member" ->
           IF s.of # place.typename THEN Wrong(st)
           ELSE Emit(st, place, place.type, place.of, s.name, s.dim, [type |-> "", arg |-> ""])
      [] s.kind = "if" ->
           FirstBranch(<<[cond |-> s.cond, body |-> s.body]>> \o s.elifs, s.else, st, place)
      [] s.kind = "for" ->
           LET from == Result(st, place, s.from)
               last == Repeated(s, [st EXCEPT !.env = (s.name :> from) @@ @], place)
           IN  IF from = NonInteger \/ s.name \in DOMAIN st.env THEN Wrong(st)
               ELSE [last EXCEPT !.env = st.env]
      [] s.kind = "assert" ->
           LET holds == Result(st, place, s.cond)
           IN  IF holds = NonInteger THEN Wrong(st) ELSE [st EXCEPT !.ok = holds # 0]
      [] s.kind = "malformed" -> Wrong(st)

Run(body, st, place) ==
    FoldLeft(LAMBDA s, x : IF s.ok THEN Meant(x, s, place) ELSE s, st, body)

(* The nodes a schema reads from a save, up to where it goes wrong.        *)
Meaning ==
    LET root == Added(Begin(schema.root), schema.root, "struct", schema.root, 0)
    IN  Fill(root, 1, [type |-> "", arg |-> ""])

-----------------------------------------------------------------------------
(* A parse that returns has read exactly the nodes, in the order and with  *)
(* the data, that the schema means: no statement is run twice by the       *)
(* backtracking, none is left out, and every name was resolved to the      *)
(* variable or node it means (parser-phase-two.cpp:58-161).                *)
ReadsWhatIsMeant ==
    status = "done" => /\ Meaning.ok
                       /\ nodes = Meaning.nodes
                       /\ read = Meaning.read

(* A parse that throws had to: the schema does not fit the save, as where  *)
(* a bool is neither 0 nor 1, or is not one.  The tree left for the crash  *)
(* dump holds exactly what was read up to there (parser.cpp:97-102).  Only *)
(* an elif after a branch that was taken is refused without need.          *)
FailsOnlyOnErrors ==
    status = "failed" /\ ~Meaning.skipped => ~Meaning.ok /\ nodes = Meaning.nodes
=============================================================================
