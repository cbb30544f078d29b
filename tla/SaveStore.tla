------------------------------ MODULE SaveStore ------------------------------
(***************************************************************************)
(* What reading and writing saves promises its caller.  The file holds a   *)
(* save, or is torn.  A read returns exactly the save the file holds, and  *)
(* throws if there is none; a write replaces it by the caller's tree,      *)
(* sealed with its checksum, and may refuse one that could not be read     *)
(* again; a crash can tear the file, and takes the tree.                   *)
(***************************************************************************)
CONSTANTS
    Torn,       \* the file holds no save that can be read
    NoTree,     \* the caller has no property tree
    Sealed(_),  \* a tree, its checksum put right
    IsReadable(_), \* whether a tree, once written, can be read
    Edited(_)   \* the trees a caller may make of a tree

VARIABLES
    stored,  \* the save in the file
    tree,    \* the caller's property tree
    result   \* how the caller's last call ended

Read ==
    \/ /\ stored # Torn
       /\ tree' = stored
       /\ result' = "read"
       /\ UNCHANGED stored
    \/ /\ stored = Torn
       /\ tree' = NoTree
       /\ result' = "threw"
       /\ UNCHANGED stored

Edit ==
    /\ tree # NoTree
    /\ tree' \in Edited(tree)
    /\ UNCHANGED <<stored, result>>

Write ==
    /\ tree # NoTree
    /\ UNCHANGED tree
    /\ \/ /\ stored' = IF IsReadable(tree) THEN Sealed(tree) ELSE Torn
          /\ result' = "wrote"
       \/ /\ ~IsReadable(tree)
          /\ result' = "write threw"
          /\ UNCHANGED stored

Crash ==
    /\ stored' = Torn
    /\ tree' = NoTree
    /\ result' = "crashed"

Next == Read \/ Edit \/ Write \/ Crash

Spec == [][Next]_<<stored, tree, result>>
=============================================================================
