-------------------------- MODULE MCVariableManager --------------------------
(* Two loop variables, one of which is also the name of a node and of a    *)
(* constant, a dotted path, and one enumerator reference that the          *)
(* definition table knows.                                                 *)
EXTENDS VariableManager

MCNames       == {"i", "n", "s.n", "E::A", "E::B"}
MCDotted      == {"s.n"}
MCTreeNames   == {"n", "s.n"}
MCEnumRefs    == {"E::A", "E::B"}
MCValues      == {0, 1}
MCNodes       == {"root", "s"}
MCEnumerators == [e \in {"E::A"} |-> 1]
MCConsts      == [c \in {"n"} |-> 1]
=============================================================================
