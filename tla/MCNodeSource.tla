---------------------------- MODULE MCNodeSource ----------------------------
(* Declarations of up to three dimensions of every kind, next to an array  *)
(* of ints with a zero and a negative member, one of strings, and a second *)
(* child of the name of the first.                                         *)
EXTENDS NodeSource

Dim(v, capture, enum) == [kind |-> "standard", value |-> v, capture |-> capture, enum |-> enum]
Plain(v)   == Dim(v, FALSE, NoEnum)
Capture(v) == Dim(v, TRUE, NoEnum)
Bound(v, enum) == Dim(v, FALSE, enum)
Use(name) == [kind |-> "use_capture", ref |-> name, enum |-> NoEnum]
UseBound(name, enum) == [kind |-> "use_capture", ref |-> name, enum |-> enum]
Query     == [kind |-> "query_reader"]
Malformed == [kind |-> "malformed"]

MCSiblings == <<[name |-> "Count", type |-> "int", data |-> <<2, 0, 1>>],
                [name |-> "Count", type |-> "int", data |-> <<1, 1, 1>>],
                [name |-> "Debt",  type |-> "int", data |-> <<1, -1>>],
                [name |-> "Title", type |-> "string", data |-> <<1, 1>>]>>
MCEnums == [Two |-> {0, 1}, Gap |-> {0, 2}]

First  == {Plain(0), Plain(1), Plain(3), Plain(4), Plain(-1), Capture(0), Capture(2), Capture(3),
           Bound(2, "Two"), Bound(3, "Gap"), Bound(0, "None"), Bound(1, "None"), Query, Malformed,
           Use("Count")}
Second == {Plain(0), Plain(2), Capture(2), Use("Count"), Use("Debt"), Use("Title"), Use("None"),
           Use("Self"), UseBound("Count", "Two"), Query}
Third  == {Plain(0), Plain(2), Use("Count"), Use("Debt"), Malformed}

Upto3 == {<<>>} \cup {<<a>> : a \in First} \cup {<<a, b>> : a \in First, b \in Second}
            \cup {<<a, b, c>> : a \in First, b \in Second, c \in Third}

MCDeclarations == {decl \in Upto3 : CapturesOutlast(decl)}
=============================================================================
