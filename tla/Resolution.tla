----------------------------- MODULE Resolution -----------------------------
(***************************************************************************)
(* What a name means outside the local variables: the second and third     *)
(* source Variable_manager::get consults, the property tree under          *)
(* construction and the definition table.  The tree is seen through        *)
(* get_child_optional, which follows a path to the FIRST child of each     *)
(* name, so a later node of the same name under the same parent is hidden. *)
(***************************************************************************)
EXTENDS Integers

CONSTANTS
    Names,       \* every name an expression may hold
    Dotted,      \* the names that contain "."
    EnumRefs,    \* the names that contain "::"
    TreeNames,   \* the paths that nodes of the save may be read at
    Values,      \* the integers a variable or a node may hold
    NonInteger,  \* the data of a node that is not of an integer type
    Nodes,       \* the nodes that may be the current parent
    Root,        \* the root of the property tree
    Enumerators, \* the definition table's enumerators, by reference
    Consts       \* the definition table's constants, by name

ASSUME ResolutionAssumption ==
    /\ Dotted \subseteq Names
    /\ EnumRefs \subseteq Names
    /\ TreeNames \subseteq Names \ EnumRefs
    /\ Values \subseteq Int
    /\ NonInteger \notin Int
    /\ Root \in Nodes
    /\ DOMAIN Enumerators \subseteq EnumRefs
    /\ \A n \in DOMAIN Enumerators : Enumerators[n] \in Values
    /\ DOMAIN Consts \subseteq Names
    /\ \A n \in DOMAIN Consts : Consts[n] \in Values

(* What a schema may declare as a variable: "::" is a token of its own, so *)
(* no identifier holds it.                                                 *)
Declarable == Names \ EnumRefs

VARIABLES
    tree,   \* node -> name -> the data of the first child of that name
    parent  \* *m_parent_ptree: the node whose members are being read

(* The data of a child: an integer, or something that is not one. *)
Data == Values \cup {NonInteger}

TreeTypeOK ==
    /\ DOMAIN tree = Nodes
    /\ \A p \in Nodes :
         /\ DOMAIN tree[p] \subseteq Names
         /\ \A n \in DOMAIN tree[p] : tree[p][n] \in Data
    /\ parent \in Nodes

TreeInit ==
    /\ tree = [p \in Nodes |-> [n \in {} |-> 0]]
    /\ parent = Root

(* The results of an operation: it returned, it returned a value, it threw. *)
Done     == [kind |-> "done",  value |-> 0]
Value(v) == [kind |-> "value", value |-> v]
Threw    == [kind |-> "threw", value |-> 0]

\* Fault: the data of a node is returned whatever the node's type.
ExternalUntyped(n) ==
    LET p == IF n \in DOMAIN tree[parent] THEN parent ELSE Root
    IN  CASE n \in DOMAIN tree[p] -> Value(tree[p][n])
          [] n \notin DOMAIN tree[p] /\ n \in DOMAIN Consts -> Value(Consts[n])
          [] OTHER -> Threw

(* Relative to the parent first, then to the root, then the constants; a   *)
(* node found under the parent hides the root's even when it is unusable.  *)
External(n) ==
    LET p == IF n \in DOMAIN tree[parent] THEN parent ELSE Root
    IN  CASE n \in DOMAIN tree[p] /\ tree[p][n] # NonInteger -> Value(tree[p][n])
          [] n \in DOMAIN tree[p] /\ tree[p][n] = NonInteger -> Threw
          [] n \notin DOMAIN tree[p] /\ n \in DOMAIN Consts -> Value(Consts[n])
          [] OTHER -> Threw

EnumeratorValue(n) ==
    IF n \in DOMAIN Enumerators THEN Value(Enumerators[n]) ELSE Threw

(* A node of name n is read under the current parent.  ptree::add_child    *)
(* appends: a child of that name already there stays the first.            *)
AddNode(n, d) ==
    /\ tree' = IF n \in DOMAIN tree[parent] THEN tree
               ELSE [tree EXCEPT ![parent] =
                       [m \in DOMAIN tree[parent] \cup {n} |->
                          IF m = n THEN d ELSE tree[parent][m]]]
    /\ UNCHANGED parent

(* auto_parent: the parser moves into, or back out of, an aggregate.       *)
SetParent(p) ==
    /\ parent' = p
    /\ UNCHANGED tree
=============================================================================
