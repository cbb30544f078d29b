--------------------------- MODULE SubscriptOrder ---------------------------
(***************************************************************************)
(* What a node source promises the parser: the elements of an array, each  *)
(* once, in ascending order of their subscripts, and then the end.         *)
(***************************************************************************)
EXTENDS Integers, Sequences

VARIABLES
    elements,  \* the elements declared, as sequences of subscripts
    current,   \* the element the parser is at; {} where it is at none
    ended      \* the range-based for has ended

vars == <<elements, current, ended>>

Before(p, q) ==
    \E k \in DOMAIN p \cap DOMAIN q :
        p[k] < q[k] /\ \A j \in 1..(k - 1) : p[j] = q[j]

Ahead == {e \in elements : \A c \in current : Before(c, e)}

Init == current = {} /\ ended = FALSE

Visit ==
    /\ ~ended
    /\ \E e \in Ahead :
          /\ \A other \in Ahead \ {e} : Before(e, other)
          /\ current' = {e}
    /\ UNCHANGED <<elements, ended>>

End ==
    /\ ~ended
    /\ Ahead = {}
    /\ current' = {}
    /\ ended' = TRUE
    /\ UNCHANGED elements

Next == Visit \/ End

Spec == Init /\ [][Next]_vars
=============================================================================
