------------------------------ MODULE PhaseOne ------------------------------
(***************************************************************************)
(* Parser_phase_one: the definitions of a schema are entered in the table, *)
(* those it imports are read from files (see Importer), and the enums are  *)
(* completed.  A schema is a sequence of statements; a production that     *)
(* fails within one makes every alternative fail, and the parse with it.   *)
(* The bodies of structs and templates are skipped.                        *)
(***************************************************************************)
EXTENDS Importer

CONSTANTS
    Schemas, FileSets,   \* the schemas and files that may be met
    LeftoverTables,      \* what an earlier parse may have left in the table
    LeftoverImports,     \* and the names of constants in the importer
    MinusOneName(_),     \* the NO_ name of an enum
    NumName(_)           \* the NUM_ name of an enum

VARIABLES
    schema,
    at,                  \* the statement the cursor is in
    within,              \* the enumerator, or 0
    m_root_name_index

cursor == <<schema, at, within, m_root_name_index>>
vars == <<importerVars, cursor>>

Statement == schema[at]
Parsing == stage \in {"imports", "definitions"}

\* An import behind a definition is a syntax error; the first definition ends the imports.
AtImport(kind)     == stage = "imports" /\ at <= Len(schema) /\ Statement.kind = kind
AtDefinition(kind) == Parsing /\ within = 0 /\ at <= Len(schema) /\ Statement.kind = kind

NextStatement == at' = at + 1 /\ UNCHANGED <<schema, within, m_root_name_index>>
Abort == Fail /\ UNCHANGED cursor

\* A definition of the statement's name, which is an error if its member cannot be added.
Enter(table) ==
    /\ m_definition_table' = table
    /\ stage' = "definitions"
    /\ UNCHANGED <<files, imports, loops>>

-----------------------------------------------------------------------------
(* parse, and the productions.                                             *)

\* Fault: the definitions of the last schema stay.
ParseOverLeftovers ==
    /\ stage = "new"
    /\ stage' = "imports"
    /\ m_const_import_table' = {}
    /\ m_enum_import_table' = <<>>
    /\ UNCHANGED <<files, m_definition_table, loops, cursor>>
Parse ==
    /\ stage = "new"
    /\ stage' = "imports"
    /\ m_definition_table' = <<>>
    /\ m_const_import_table' = {}
    /\ m_enum_import_table' = <<>>
    /\ UNCHANGED <<files, loops, cursor>>

pr_const_import_statement_ ==
    /\ AtImport("import const")
    /\ IF Statement.name \in m_const_import_table THEN Abort
       ELSE /\ m_const_import_table' = m_const_import_table \cup {Statement.name}
            /\ UNCHANGED <<files, m_definition_table, m_enum_import_table, stage, loops>>
            /\ NextStatement

\* Whether the path is exact or to be searched is not remembered.
pr_enum_import_statement_ ==
    /\ AtImport("import enum")
    /\ LET Import == Statement.name :> [path |-> Statement.path, hasParent |-> Statement.hasParent] IN
       IF Statement.name \in DOMAIN m_enum_import_table THEN Abort
       ELSE /\ m_enum_import_table' = Import @@ m_enum_import_table
            /\ UNCHANGED <<files, m_definition_table, m_const_import_table, stage, loops>>
            /\ NextStatement

\* A name in a constant's expression is looked up by a Variable_manager that
\* has not been initialised yet, through a null pointer.
Initialised(expr) == expr.kind = "number"
Undefined ==
    /\ stage' = "undefined"
    /\ UNCHANGED <<files, m_definition_table, imports, loops, cursor>>

pr_const_definition_statement_ ==
    /\ AtDefinition("const")
    /\ LET value == Statement.expr.n IN
       IF ~Initialised(Statement.expr) THEN Undefined
       ELSE IF CanDefine(m_definition_table, Statement.name, "const", Member(Statement.name, value))
       THEN /\ Enter(Define(m_definition_table, Statement.name, "const", Member(Statement.name, value)))
            /\ NextStatement
       ELSE Abort

\* The names of structs and templates must be new; their member is where they are.
pr_struct_or_template_definition_block_ ==
    /\ \E type \in {"struct", "template"} :
          /\ AtDefinition(type)
          /\ IF Statement.name \notin DOMAIN m_definition_table /\ Statement.closed
             THEN /\ Enter(Define(m_definition_table, Statement.name, type, Member("index", at)))
                  /\ NextStatement
             ELSE Abort

pr_alias_definition_statement_ ==
    /\ AtDefinition("alias")
    /\ IF /\ Statement.name \notin DOMAIN m_definition_table
          /\ HasFirstMember(m_definition_table, Statement.template, "template")
       THEN /\ Enter(Define(m_definition_table, Statement.name, "alias",
                            Member(Statement.template,
                                   get_first_member(m_definition_table, Statement.template).value)))
            /\ NextStatement
       ELSE Abort

-----------------------------------------------------------------------------
(* Enums, an enumerator at a time.  An enum may be continued: its name is  *)
(* not checked, and the first enumerator goes on where the last ended.     *)

pr_enum_definition_block_ ==
    /\ AtDefinition("enum")
    /\ IF Statement.members = <<>> THEN Abort
       ELSE /\ within' = 1
            /\ stage' = "definitions"
            /\ UNCHANGED <<files, m_definition_table, imports, loops, schema, at, m_root_name_index>>

\* Fault: every enum block numbers from 0 again.
ImplicitValueRestarts(enum) ==
    IF enum \notin DOMAIN m_definition_table \/ within = 1 THEN 0
    ELSE Last(m_definition_table[enum].members).value + 1
ImplicitValue(enum) ==
    IF enum \notin DOMAIN m_definition_table THEN 0
    ELSE Last(m_definition_table[enum].members).value + 1

pr_enumerator_definition_statement_ ==
    /\ stage = "definitions" /\ within > 0
    /\ LET enum == Statement.name
           e == Statement.members[within]
           member == Member(e.name, IF e.expr.kind = "none" THEN ImplicitValue(enum) ELSE e.expr.n)
       IN IF e.expr.kind = "malformed" THEN Abort
          ELSE IF e.expr.kind # "none" /\ ~Initialised(e.expr) THEN Undefined
          ELSE IF ~CanDefine(m_definition_table, enum, "enum", member) THEN Abort
          ELSE /\ Enter(Define(m_definition_table, enum, "enum", member))
               /\ within' = IF within = Len(Statement.members) THEN 0 ELSE within + 1
               /\ at' = IF within = Len(Statement.members) THEN at + 1 ELSE at
               /\ UNCHANGED <<schema, m_root_name_index>>

pr_read_statement_ ==
    /\ stage = "definitions" /\ AtDefinition("read")
    /\ m_root_name_index' = at
    /\ stage' = "import"
    /\ UNCHANGED <<files, m_definition_table, imports, loops, schema, at, within>>

SyntaxError ==
    /\ Parsing /\ within = 0
    /\ \/ at > Len(schema)
       \/ /\ at <= Len(schema)
          /\ \/ Statement.kind = "malformed"
             \/ stage = "imports" /\ Statement.kind = "read"
             \/ stage = "definitions" /\ Statement.kind \in {"import const", "import enum"}
    /\ Abort

-----------------------------------------------------------------------------
(* tidy_enum_definitions_                                                  *)

EnumsOf(table) == {name \in DOMAIN table : table[name].type = "enum"}
Values(def) == {def.members[i].value : i \in DOMAIN def.members}
LacksMinusOne == {e \in EnumsOf(m_definition_table) : -1 \notin Values(m_definition_table[e])}

add_minus_one_enumerators_ ==
    /\ stage = "enums" /\ todo = {} /\ modules = {}
    /\ IF \A e \in LacksMinusOne : Adds(m_definition_table[e], MinusOneName(e), FALSE)
       THEN /\ m_definition_table' =
                   [name \in DOMAIN m_definition_table |->
                       IF name \in LacksMinusOne
                       THEN add_member(m_definition_table[name], Member(MinusOneName(name), -1))
                       ELSE m_definition_table[name]]
            /\ stage' = "sort"
            /\ UNCHANGED <<files, imports, loops, cursor>>
       ELSE Abort

\* std::sort is free to exchange members of the same value.
Ascending(s) == \A i \in 1..(Len(s) - 1) : s[i].value <= s[i + 1].value
Sortings(s) ==
    {[i \in DOMAIN s |-> s[p[i]]] : p \in {q \in Permutations(DOMAIN s) :
        \A i \in 1..(Len(s) - 1) : s[q[i]].value <= s[q[i + 1]].value}}

sort_enumerators_ ==
    /\ stage = "sort"
    /\ \E sorted \in [EnumsOf(m_definition_table) ->
                         UNION {Sortings(m_definition_table[e].members) :
                                    e \in EnumsOf(m_definition_table)}] :
          /\ \A e \in DOMAIN sorted : sorted[e] \in Sortings(m_definition_table[e].members)
          /\ m_definition_table' =
                 [name \in DOMAIN m_definition_table |->
                     IF name \in DOMAIN sorted
                     THEN [m_definition_table[name] EXCEPT !.members = sorted[name]]
                     ELSE m_definition_table[name]]
    /\ stage' = "count"
    /\ todo' = DOMAIN m_definition_table
    /\ UNCHANGED <<files, imports, modules, current, cursor>>

IsContiguous(members) == \A i \in DOMAIN members : members[i].value = i - 2

\* The loop inserts into the map it iterates over.  That is defined as long
\* as nothing is rehashed, for up to 512 definitions, and no more are modelled.
generate_enum_num_constants_ ==
    /\ stage = "count" /\ todo # {}
    /\ \E name \in todo :
          LET def == m_definition_table[name]
              member == Member(NumName(name), Len(def.members) - 1)
              counts == def.type = "enum" /\ IsContiguous(def.members)
          IN IF counts /\ ~CanDefine(m_definition_table, NumName(name), "const", member)
             THEN stage' = "failed" /\ UNCHANGED <<m_definition_table, todo>>
             ELSE /\ m_definition_table' =
                         IF counts THEN Define(m_definition_table, NumName(name), "const", member)
                         ELSE m_definition_table
                  /\ todo' = todo \ {name}
                  /\ UNCHANGED stage
    /\ UNCHANGED <<files, imports, modules, current, cursor>>

Finish ==
    /\ stage = "count" /\ todo = {}
    /\ stage' = "done"
    /\ UNCHANGED <<files, m_definition_table, imports, loops, cursor>>

-----------------------------------------------------------------------------
Init ==
    /\ schema \in Schemas /\ files \in FileSets
    /\ m_definition_table \in LeftoverTables
    /\ m_const_import_table \in LeftoverImports /\ m_enum_import_table = <<>>
    /\ stage = "new" /\ todo = {} /\ modules = {} /\ current = NoName
    /\ at = 1 /\ within = 0 /\ m_root_name_index = 0

Next ==
    \/ Parse
    \/ pr_const_import_statement_ \/ pr_enum_import_statement_
    \/ pr_const_definition_statement_ \/ pr_struct_or_template_definition_block_
    \/ pr_alias_definition_statement_
    \/ pr_enum_definition_block_ \/ pr_enumerator_definition_statement_
    \/ pr_read_statement_ \/ SyntaxError
    \/ ImportDefinitions /\ UNCHANGED cursor
    \/ add_minus_one_enumerators_ \/ sort_enumerators_ \/ generate_enum_num_constants_ \/ Finish

Spec == Init /\ [][Next]_vars
=============================================================================
