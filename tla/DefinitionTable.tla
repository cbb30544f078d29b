-------------------------- MODULE DefinitionTable --------------------------
(***************************************************************************)
(* Def_tbl and Definition: a table of named definitions, each of one type, *)
(* with members of distinct names.  A function that throws is a pair of    *)
(* operators here, the condition under which it does not, and its effect.  *)
(***************************************************************************)
EXTENDS Integers, SequencesExt

DefTypes == {"alias", "const", "enum", "struct", "template"}

Member(name, value) == [name |-> name, value |-> value]
MemberNames(def) == {def.members[i].name : i \in DOMAIN def.members}

\* Def_tbl::create_definition
Creates(table, name, type) == name \in DOMAIN table => table[name].type = type
create_definition(table, name, type) ==
    IF name \in DOMAIN table THEN table
    ELSE (name :> [type |-> type, members |-> <<>>]) @@ table

\* Definition::add_member.  A modular member replaces its namesake.
Adds(def, name, is_modular) == is_modular \/ name \notin MemberNames(def)
\* Fault: the namesake stays and the member is appended.
add_memberAppends(def, member) == [def EXCEPT !.members = Append(@, member)]
add_member(def, member) ==
    IF member.name \notin MemberNames(def)
    THEN [def EXCEPT !.members = Append(@, member)]
    ELSE [def EXCEPT !.members =
              [i \in DOMAIN @ |-> IF @[i].name = member.name THEN member ELSE @[i]]]

\* Definition::add_member for a caller that allows duplicates: the node reader.
add_duplicate(def, member) == [def EXCEPT !.members = Append(@, member)]

\* Both together, as nearly all callers use them.
CanDefine(table, name, type, member) ==
    /\ Creates(table, name, type)
    /\ name \in DOMAIN table => Adds(table[name], member.name, FALSE)
Define(table, name, type, member) ==
    LET created == create_definition(table, name, type) IN
    [created EXCEPT ![name] = add_member(@, member)]

\* Def_tbl::get_first_member
HasFirstMember(table, name, type) ==
    name \in DOMAIN table /\ table[name].type = type /\ table[name].members # <<>>
get_first_member(table, name) == table[name].members[1]

\* Def_tbl::get_enumerator: the first with a value.
EnumeratorsOf(table, name, value) ==
    IF name \in DOMAIN table /\ table[name].type = "enum"
    THEN SelectSeq(table[name].members, LAMBDA member : member.value = value)
    ELSE <<>>
HasEnumerator(table, name, value) == EnumeratorsOf(table, name, value) # <<>>
get_enumerator(table, name, value) == Head(EnumeratorsOf(table, name, value))

IsTable(table) ==
    \A name \in DOMAIN table :
        /\ table[name].type \in DefTypes
        /\ \A i \in DOMAIN table[name].members : table[name].members[i].value \in Int
        /\ Cardinality(MemberNames(table[name])) = Len(table[name].members)
=============================================================================
