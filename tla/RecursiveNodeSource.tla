------------------------ MODULE RecursiveNodeSource -------------------------
(***************************************************************************)
(* Recursive_node_source: the iterator that takes every writer through the *)
(* property tree, parents before children, with the depth of each node.    *)
(* A node is known by the places of its ancestors and itself among their   *)
(* siblings; the root, which the iterator never hands out, is <<>>.        *)
(***************************************************************************)
EXTENDS Integers, SequencesExt

VARIABLES
    pt,       \* the property tree
    m_stack,  \* a context for each level: the place `it` and fresh_children
    m_depth,
    moving    \* operator++ has not come to its return yet

walkVars == <<m_stack, m_depth, moving>>

skip_meta_nodes(node) == pt[node].kind = "meta"

(* The first place from `it` on whose node the filter keeps; none at the end. *)
next_(parent, it) ==
    LET kept == {k \in it..Cardinality(DOMAIN pt) :
                    Append(parent, k) \in DOMAIN pt /\ ~skip_meta_nodes(Append(parent, k))}
    IN {k \in kept : \A j \in kept : k <= j}

Context(it) == [it |-> it, fresh_children |-> TRUE]
Contexts(places) == SetToSeq({Context(it) : it \in places})

(* The node of the innermost context, and the one it is a child of. *)
Node == [k \in DOMAIN m_stack |-> m_stack[k].it]
AtEnd == m_stack = <<>>

begin ==
    /\ m_stack' = Contexts(next_(<<>>, 1))
    /\ m_depth' = 0
    /\ moving' = FALSE

\* Fault: a node that was advanced to is not asked for its children.
AdvancedSpent(places) == [k \in DOMAIN Contexts(places) |-> [Contexts(places)[k] EXCEPT !.fresh_children = FALSE]]
Advanced(places) == Contexts(places)

(* One round of the loop of operator++.  Returning with an empty stack is  *)
(* reaching the end.                                                       *)
Descend ==
    /\ moving
    /\ Last(m_stack).fresh_children
    /\ next_(Node, 1) # {}
    /\ m_stack' = [m_stack EXCEPT ![Len(m_stack)].fresh_children = FALSE] \o Contexts(next_(Node, 1))
    /\ m_depth' = m_depth + 1
    /\ moving' = FALSE

Advance ==
    /\ moving
    /\ Last(m_stack).fresh_children => next_(Node, 1) = {}
    /\ LET sibling == next_(Front(Node), Last(Node) + 1) IN
       /\ m_stack' = Front(m_stack) \o Advanced(sibling)
       /\ m_depth' = IF sibling = {} THEN m_depth - 1 ELSE m_depth
       /\ moving' = (sibling = {} /\ Len(m_stack) > 1)

Walk == Descend \/ Advance
=============================================================================
