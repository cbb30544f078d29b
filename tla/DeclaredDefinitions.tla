------------------------- MODULE DeclaredDefinitions -------------------------
(***************************************************************************)
(* What a schema and the game's files declare: the definitions that phase  *)
(* one is to find, said from the whole schema at once.  Constants and      *)
(* enums from files follow "XML Loading Algorithm.txt".                    *)
(***************************************************************************)
EXTENDS PhaseOne

-----------------------------------------------------------------------------
(* The parts of a schema.  Nothing behind the first read is looked at.     *)

Least(S) == CHOOSE i \in S : \A j \in S : i <= j
Reads == {p \in DOMAIN schema : schema[p].kind = "read"}
Before == IF Reads = {} THEN {} ELSE 1..(Least(Reads) - 1)
Of(kinds) == {p \in Before : schema[p].kind \in kinds}

Imports == Of({"import const", "import enum"})
NamedOnce == Of({"import const", "import enum", "const", "struct", "template", "alias"})
EnumBlocks == Of({"enum"})
EnumNames == {schema[p].name : p \in EnumBlocks}

SyntaxIsRight ==
    /\ Reads # {}
    /\ Of({"malformed"}) = {}
    /\ \A p, q \in Before : q \in Imports /\ p < q => p \in Imports
    /\ Before # Imports
    /\ \A p \in Of({"struct", "template"}) : schema[p].closed
    /\ \A p \in EnumBlocks :
          /\ schema[p].members # <<>>
          /\ \A i \in DOMAIN schema[p].members : schema[p].members[i].expr.kind # "malformed"

-----------------------------------------------------------------------------
(* The files.  A file found early in the search masks its namesakes.       *)

Masks(r, s) ==
    \/ r = "mod" /\ s # "mod"
    \/ r = "custom" /\ s \in {"bts", "warlords", "vanilla"}
    \/ r = "bts" /\ s \in {"warlords", "vanilla"}
    \/ r = "warlords" /\ s = "vanilla"
Candidates(path) ==
    {r \in {"mod", "custom", "bts", "warlords", "vanilla"} :
        <<r, path>> \in DOMAIN files.at /\ (r = "mod" => files.mod)}
IsFound(path) == Candidates(path) # {}
Location(path) ==
    <<CHOOSE r \in Candidates(path) : \A s \in Candidates(path) : r = s \/ Masks(r, s), path>>
Content(path) == files.at[Location(path)]

DefinedIn(path, name) == IsFound(path) /\ Defining(Content(path), name) # {}
BaseValue(name) ==
    IF DefinedIn(Alt, name) THEN Defined(Content(Alt), name) ELSE Defined(Content(Defines), name)
\* Modules replace values, in an order that is not known.
ModularValues(name) ==
    IF ~files.modular THEN {}
    ELSE {Defined(files.modules[f].content, name) :
             f \in {g \in DOMAIN files.modules : /\ files.modules[g].path = Defines
                                                 /\ Defining(files.modules[g].content, name) # {}}}
ImportedValues(name) == IF ModularValues(name) = {} THEN {BaseValue(name)} ELSE ModularValues(name)

-----------------------------------------------------------------------------
(* Enums: the enumerators of all blocks, numbered as in C++, or the names  *)
(* of a file, numbered from 0; and a NO_ enumerator if none has value -1.  *)

Enumerators(enum) ==
    FlattenSeq([i \in 1..Len(schema) |->
        IF i \in EnumBlocks /\ schema[i].name = enum THEN schema[i].members ELSE <<>>])
DeclaredValue(es, i) ==
    LET explicit == {j \in 1..i : es[j].expr.kind = "number"} IN
    IF explicit = {} THEN i - 1
    ELSE LET j == CHOOSE k \in explicit : \A l \in explicit : l <= k IN es[j].expr.n + (i - j)

DeclaredEnum(enum) ==
    LET es == Enumerators(enum) IN {Member(es[i].name, DeclaredValue(es, i)) : i \in DOMAIN es}
ImportedEnum(path) == {Member(Content(path)[i].name, i - 1) : i \in DOMAIN Content(path)}
Completed(enum, members) ==
    IF \E m \in members : m.value = -1 THEN members
    ELSE members \cup {Member(MinusOneName(enum), -1)}
Expected(enum) ==
    Completed(enum,
        IF enum \in EnumNames THEN DeclaredEnum(enum)
        ELSE ImportedEnum(schema[CHOOSE p \in Imports : schema[p].name = enum].path))

AllEnums == EnumNames \cup {schema[p].name : p \in Of({"import enum"})}
\* The values are -1, 0, 1 and so on, each once.
IsCounted(enum) ==
    LET n == Cardinality(Expected(enum)) IN {m.value : m \in Expected(enum)} = (-1)..(n - 2)
CountNames == {NumName(enum) : enum \in {e \in AllEnums : IsCounted(e)}}

-----------------------------------------------------------------------------
DeclaredNames == {schema[p].name : p \in NamedOnce \cup EnumBlocks}

NamesAreRight ==
    /\ \A p \in NamedOnce, q \in NamedOnce \cup EnumBlocks : schema[p].name = schema[q].name => p = q
    /\ \A enum \in EnumNames : \A i, j \in DOMAIN Enumerators(enum) :
          Enumerators(enum)[i].name = Enumerators(enum)[j].name => i = j
    /\ \A p \in Of({"alias"}) :
          \E q \in Of({"template"}) : q < p /\ schema[q].name = schema[p].template

\* A file is looked through up to the name sought, if it is there.
Looked(content, name) ==
    IF Defining(content, name) = {} THEN DOMAIN content ELSE 1..Least(Defining(content, name))
IsSoundFor(content, name) ==
    \A i \in Looked(content, name) :
        content[i].name # NoName /\ (content[i].name = name => content[i].isInt)
IsSound(path, name) ==
    IsFound(path) /\ Location(path) \notin files.broken /\ IsSoundFor(Content(path), name)

ModulesOf(path) ==
    IF files.modular THEN {f \in DOMAIN files.modules : files.modules[f].path = path} ELSE {}

ImportsAreRight ==
    /\ IsFound(Alt)
    /\ files.modular => HasModules
    /\ \A p \in Of({"import const"}) :
          /\ IsSound(Alt, schema[p].name)
          /\ ~DefinedIn(Alt, schema[p].name) =>
                 IsSound(Defines, schema[p].name) /\ DefinedIn(Defines, schema[p].name)
          /\ \A f \in ModulesOf(Defines) :
                 ~files.modules[f].broken /\ IsSoundFor(files.modules[f].content, schema[p].name)
    /\ \A p \in Of({"import enum"}) :
          /\ schema[p].hasParent
          /\ IsFound(schema[p].path) /\ Location(schema[p].path) \notin files.broken
          /\ Content(schema[p].path) # <<>> /\ AllNamed(Content(schema[p].path))
          /\ DistinctNames(Content(schema[p].path))
          /\ \A f \in ModulesOf(schema[p].path) :
                 ~files.modules[f].broken /\ AllNamed(files.modules[f].content)

GeneratedNamesAreNew ==
    /\ \A enum \in AllEnums :
          \A m1, m2 \in Expected(enum) : m1.name = m2.name => m1 = m2
    /\ CountNames \cap DeclaredNames = {}
    /\ \A e1, e2 \in AllEnums : IsCounted(e1) /\ IsCounted(e2) /\ NumName(e1) = NumName(e2) => e1 = e2

UsesNames ==
    \E p \in DOMAIN schema :
        /\ \A r \in Reads : p < r
        /\ \/ schema[p].kind = "const" /\ schema[p].expr.kind = "name"
           \/ /\ schema[p].kind = "enum"
              /\ \E i \in DOMAIN schema[p].members : schema[p].members[i].expr.kind = "name"

IsWellFormed == SyntaxIsRight /\ NamesAreRight /\ ImportsAreRight /\ GeneratedNamesAreNew

-----------------------------------------------------------------------------
Stages == {"new", "imports", "definitions", "import", "consts", "modular consts", "enums", "sort",
           "count", "done", "failed", "undefined"}

(* The table and the loops over it are well formed, and a definition's     *)
(* members have distinct names, as its index of names requires.            *)
TypeOK ==
    /\ stage \in Stages
    /\ IsTable(m_definition_table)
    /\ at \in 1..(Len(schema) + 1)
    /\ within > 0 => Statement.kind = "enum" /\ within <= Len(Statement.members)
    /\ modules # {} => stage \in {"modular consts", "enums", "failed"}

(* When phase one is done, the table holds what the schema and the files   *)
(* declare and nothing else: every constant with the value of the file     *)
(* that wins, every enum complete and in ascending order, the NUM_         *)
(* constant of exactly the enums without gaps and equal to the number of   *)
(* their values from 0 on, and every struct, template and alias at its     *)
(* place.  Phase two sizes arrays by these constants.                      *)
TableIsDeclared ==
    stage = "done" =>
        LET table == m_definition_table IN
        /\ DOMAIN table = DeclaredNames \cup CountNames
        /\ \A p \in Of({"const"}) :
              table[schema[p].name].members = <<Member(schema[p].name, schema[p].expr.n)>>
        /\ \A p \in Of({"import const"}) :
              \E v \in ImportedValues(schema[p].name) :
                  table[schema[p].name].members = <<Member(schema[p].name, v)>>
        /\ \A enum \in AllEnums :
              /\ ToSet(table[enum].members) = Expected(enum)
              /\ Ascending(table[enum].members)
        /\ \A enum \in {e \in AllEnums : IsCounted(e)} :
              table[NumName(enum)].members =
                  <<Member(NumName(enum), Cardinality({m \in Expected(enum) : m.value >= 0}))>>
        /\ \A p \in Of({"struct", "template"}) : table[schema[p].name].members[1].value = p
        /\ \A p \in Of({"alias"}) :
              schema[table[schema[p].name].members[1].value].name = schema[p].template

(* Phase one accepts a schema if and only if its statements are in order,  *)
(* its names are defined once, what it imports is there, and the names     *)
(* that are generated for its enums are free.  What it does is undefined   *)
(* only where the value of a constant or of an enumerator has a name in it. *)
AcceptsWhatIsDeclared ==
    /\ stage = "done" => IsWellFormed
    /\ stage = "failed" => ~IsWellFormed
    /\ stage = "undefined" => UsesNames

=============================================================================
