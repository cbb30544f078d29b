--------------------------- MODULE VariableManager ---------------------------
(***************************************************************************)
(* The Variable_manager of a schema parse: one flat table of the local     *)
(* variables of every open scope, beside a stack that remembers which      *)
(* names each scope put there.  pop erases by that stack, so the two must  *)
(* agree at all times for a variable to live exactly as long as its loop.  *)
(***************************************************************************)
EXTENDS Resolution, Sequences

CONSTANT MaxScopes  \* bound on the for-loops open at once

ASSUME MaxScopesAssumption == MaxScopes \in Nat

VARIABLES
    lookup,  \* m_lookup: name -> value
    scopes,  \* m_scopes: the names each open scope added
    outcome  \* the result of the last operation

vars == <<tree, parent, lookup, scopes, outcome>>

TypeOK ==
    /\ TreeTypeOK
    /\ DOMAIN lookup \subseteq Names
    /\ \A n \in DOMAIN lookup : lookup[n] \in Values
    /\ scopes \in Seq(SUBSET Names)
    /\ outcome \in [kind : {"done", "value", "threw"}, value : Int]

Init ==
    /\ TreeInit
    /\ lookup = [n \in {} |-> 0]
    /\ scopes = <<>>
    /\ outcome = Done

(* Table updates *)
Store(n, v) == [m \in DOMAIN lookup \cup {n} |-> IF m = n THEN v ELSE lookup[m]]
Erase(S)    == [m \in DOMAIN lookup \ S |-> lookup[m]]

push ==
    /\ scopes' = Append(scopes, {})
    /\ UNCHANGED lookup

\* Fault: the scope is dropped and its names stay in the table.
popKeepingNames ==
    /\ scopes' = SubSeq(scopes, 1, Len(scopes) - 1)
    /\ UNCHANGED lookup

pop ==
    /\ lookup' = Erase(scopes[Len(scopes)])
    /\ scopes' = SubSeq(scopes, 1, Len(scopes) - 1)

(* The callers, pr_for_loop_block_ and the tests, add only inside a scope. *)
CanAdd(n) == n \notin Dotted /\ n \notin DOMAIN lookup

add(n, v) ==
    /\ lookup' = Store(n, v)
    /\ scopes' = [scopes EXCEPT ![Len(scopes)] = @ \cup {n}]

CanSet(n) == n \notin Dotted /\ n \in DOMAIN lookup

set(n, v) ==
    /\ lookup' = Store(n, v)
    /\ UNCHANGED scopes

\* Fault: the property tree is asked before the local variables.
getTreeFirst(n) ==
    CASE n \in EnumRefs -> EnumeratorValue(n)
      [] n \notin EnumRefs /\ External(n).kind = "value" -> External(n)
      [] OTHER -> IF n \in DOMAIN lookup THEN Value(lookup[n]) ELSE Threw

get(n) ==
    CASE n \in EnumRefs -> EnumeratorValue(n)
      [] n \notin EnumRefs /\ n \in DOMAIN lookup -> Value(lookup[n])
      [] OTHER -> External(n)

-----------------------------------------------------------------------------
(* The operations as steps, with what each returns or throws. *)

Push ==
    /\ Len(scopes) < MaxScopes
    /\ push
    /\ outcome' = Done
    /\ UNCHANGED <<tree, parent>>

Pop ==
    /\ scopes # <<>>
    /\ pop
    /\ outcome' = Done
    /\ UNCHANGED <<tree, parent>>

Add(n, v) ==
    /\ scopes # <<>>
    /\ \/ CanAdd(n) /\ add(n, v) /\ outcome' = Done
       \/ ~CanAdd(n) /\ outcome' = Threw /\ UNCHANGED <<lookup, scopes>>
    /\ UNCHANGED <<tree, parent>>

Set(n, v) ==
    /\ \/ CanSet(n) /\ set(n, v) /\ outcome' = Done
       \/ ~CanSet(n) /\ outcome' = Threw /\ UNCHANGED <<lookup, scopes>>
    /\ UNCHANGED <<tree, parent>>

Get(n) ==
    /\ outcome' = get(n)
    /\ UNCHANGED <<tree, parent, lookup, scopes>>

(* The parser reads nodes and moves between aggregates meanwhile. *)
Surroundings ==
    /\ \/ \E n \in TreeNames, d \in Data : AddNode(n, d)
       \/ \E p \in Nodes : SetParent(p)
    /\ outcome' = Done
    /\ UNCHANGED <<lookup, scopes>>

Next ==
    \/ Push
    \/ Pop
    \/ \E n \in Declarable, v \in Values : Add(n, v) \/ Set(n, v)
    \/ \E n \in Names : Get(n)
    \/ Surroundings

Spec == Init /\ [][Next]_vars

-----------------------------------------------------------------------------
(* The table holds exactly the names the open scopes remember, and no two  *)
(* scopes remember the same name.  pop erases by name from the flat table  *)
(* (variable-manager.cpp:94): a name known to two scopes would be erased   *)
(* with the inner one while the outer still lives, and a name known to     *)
(* none would never be erased.                                             *)
ScopesOwnLookup ==
    /\ DOMAIN lookup = UNION {scopes[i] : i \in DOMAIN scopes}
    /\ \A i, j \in DOMAIN scopes : i # j => scopes[i] \cap scopes[j] = {}

(* The environments the table and the scopes stand for. *)
Environments == [i \in DOMAIN scopes |-> [n \in scopes[i] |-> lookup[n]]]

Promise == INSTANCE ScopedEnvironment WITH env <- Environments

(* The flat table behaves as a stack of environments, one per open loop:   *)
(* every operation changes the environments it stands for, and returns or  *)
(* throws, as the stack would.                                             *)
ImplementsScopedEnvironment == Promise!Spec
=============================================================================
