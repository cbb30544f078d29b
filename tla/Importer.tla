------------------------------ MODULE Importer ------------------------------
(***************************************************************************)
(* Importer and File_manager: the definitions a schema takes from the      *)
(* game's XML files.  A file is the sequence of the names it defines, with *)
(* a value each that only the files of constants use; an element may lack  *)
(* its name or its value, and a file what the elements are looked for in.  *)
(* Import tables and directories are visited in any order: they are        *)
(* unordered_maps, and a directory_iterator promises none.                 *)
(***************************************************************************)
EXTENDS DefinitionTable

VARIABLES
    files,                  \* the files there are, and how they are to be loaded
    m_definition_table,
    m_const_import_table,   \* the names to import
    m_enum_import_table,    \* for each enum its file, and whether its xml path has a "/"
    stage,                  \* how far phase one is
    todo,                   \* what the loop over the table has yet to visit
    modules,                \* the modular files the loop within has yet to visit
    current                 \* the enum being imported

imports == <<m_const_import_table, m_enum_import_table>>
loops == <<todo, modules, current>>
importerVars == <<files, m_definition_table, imports, stage, loops>>

NoFile == <<>>
NoName == ""  \* the name of an element without DefineName or Type

-----------------------------------------------------------------------------
(* File_manager                                                            *)

m_search_path_roots ==
    (IF files.mod THEN <<"mod">> ELSE <<>>) \o <<"custom", "bts", "warlords", "vanilla">>

get_full_path(path) ==
    LET roots == m_search_path_roots
        having == {i \in DOMAIN roots : <<roots[i], path>> \in DOMAIN files.at}
    IN IF having = {} THEN NoFile
       ELSE <<roots[CHOOSE i \in having : \A j \in having : i <= j], path>>

\* Scanning a modules directory that is not there throws.
HasModules == files.mod /\ files.hasModules
get_full_paths_modular(path) == {f \in DOMAIN files.modules : files.modules[f].path = path}

-----------------------------------------------------------------------------
(* What every step may do: fail, go to another stage, or change the table. *)
(* Nobody reads the table once a step has failed.                          *)

Fail ==
    /\ stage' = "failed"
    /\ UNCHANGED <<files, m_definition_table, imports, loops>>
Go(to, work) ==
    /\ stage' = to
    /\ todo' = work
    /\ UNCHANGED <<files, m_definition_table, imports, modules, current>>
Update(table) ==
    /\ m_definition_table' = table
    /\ UNCHANGED <<files, imports, stage>>

-----------------------------------------------------------------------------
(* import_consts_: each name from GlobalDefinesAlt.xml or else from        *)
(* GlobalDefines.xml, then from the modules.                               *)

Alt == "GlobalDefinesAlt"
Defines == "GlobalDefines"

\* Not XML, or without the node that holds the definitions: reading it throws.
IsBroken(file) == file \in files.broken

Defining(content, name) == {i \in DOMAIN content : content[i].name = name}

\* import_const_ reads up to the first Define of that name, which must have an
\* int value; one before it that has no name throws.
Throws(content, name) ==
    \E i \in DOMAIN content :
        /\ \A j \in 1..(i - 1) : content[j].name # name
        /\ \/ content[i].name = NoName
           \/ content[i].name = name /\ ~content[i].isInt
Defined(content, name) ==
    content[CHOOSE i \in Defining(content, name) :
                \A j \in Defining(content, name) : i <= j].value

\* The second check for a missing file tests the first path again; without
\* the file, read_xml throws once it is needed.
BeginConsts ==
    /\ stage = "import"
    /\ IF get_full_path(Alt) = NoFile THEN Fail
       ELSE Go("consts", m_const_import_table)

ImportConst ==
    /\ stage = "consts" /\ todo # {}
    /\ \E name \in todo :
          LET file(path) == get_full_path(path)
              content(path) == files.at[file(path)]
              CanRead(path) ==
                  file(path) # NoFile /\ ~IsBroken(file(path)) /\ ~Throws(content(path), name)
              Has(path) == Defining(content(path), name) # {}
              from == IF CanRead(Alt) /\ Has(Alt) THEN Alt ELSE Defines
          IN IF /\ CanRead(Alt) /\ CanRead(from) /\ Has(from)
                /\ name \notin DOMAIN m_definition_table
             THEN /\ Update(Define(m_definition_table, name, "const",
                                   Member(name, Defined(content(from), name))))
                  /\ todo' = todo \ {name}
                  /\ UNCHANGED <<modules, current>>
             ELSE Fail

EndConsts ==
    /\ stage = "consts" /\ todo = {}
    /\ IF ~files.modular THEN Go("enums", DOMAIN m_enum_import_table)
       ELSE IF ~HasModules THEN Fail
       ELSE /\ stage' = "modular consts"
            /\ modules' = get_full_paths_modular(Defines)
            /\ UNCHANGED <<files, m_definition_table, imports, todo, current>>

ImportModularConsts ==
    /\ stage = "modular consts"
    /\ \E f \in modules :
          LET content == files.modules[f].content
              Replaced(name) == name \in m_const_import_table /\ Defining(content, name) # {}
          IN IF \E name \in m_const_import_table : files.modules[f].broken \/ Throws(content, name) THEN Fail
             ELSE /\ Update([name \in DOMAIN m_definition_table |->
                         IF Replaced(name)
                         THEN add_member(m_definition_table[name], Member(name, Defined(content, name)))
                         ELSE m_definition_table[name]])
                  /\ modules' = modules \ {f}
                  /\ UNCHANGED <<todo, current>>

EndModularConsts ==
    /\ stage = "modular consts" /\ modules = {}
    /\ Go("enums", DOMAIN m_enum_import_table)

-----------------------------------------------------------------------------
(* import_enums_: each enum from its file, then from the modules.          *)

\* import_enum_ numbers the names of a file from 0.
Numbered(def, content) ==
    FoldLeft(LAMBDA d, i : add_member(d, Member(content[i].name, i - 1)),
             def, [i \in DOMAIN content |-> i])

DistinctNames(content) ==
    \A i, j \in DOMAIN content : content[i].name = content[j].name => i = j

AllNamed(content) == \A i \in DOMAIN content : content[i].name # NoName

\* A file that names nothing, or names something twice, throws, and so does
\* an xml path that cannot be broken into parent and node.
ImportEnum ==
    /\ stage = "enums" /\ modules = {}
    /\ \E enum \in todo :
          LET source == m_enum_import_table[enum]
              file == get_full_path(source.path)
          IN
          IF /\ file # NoFile /\ ~IsBroken(file)
             /\ source.hasParent
             /\ enum \notin DOMAIN m_definition_table
             /\ files.at[file] # <<>> /\ AllNamed(files.at[file]) /\ DistinctNames(files.at[file])
          THEN /\ Update((enum :> Numbered([type |-> "enum", members |-> <<>>], files.at[file]))
                         @@ m_definition_table)
               /\ todo' = todo \ {enum}
               /\ modules' = IF files.modular THEN get_full_paths_modular(source.path) ELSE {}
               /\ current' = enum
          ELSE Fail

\* The xml path is the one the enum's own file was read with.
ImportModularEnum ==
    /\ stage = "enums"
    /\ \E f \in modules :
          LET content == files.modules[f].content IN
          IF files.modules[f].broken \/ ~AllNamed(content) THEN Fail
          ELSE /\ Update([m_definition_table EXCEPT ![current] = Numbered(@, content)])
               /\ modules' = modules \ {f}
               /\ UNCHANGED <<todo, current>>

ImportDefinitions ==
    \/ BeginConsts \/ ImportConst \/ EndConsts
    \/ ImportModularConsts \/ EndModularConsts
    \/ ImportEnum \/ ImportModularEnum
=============================================================================
