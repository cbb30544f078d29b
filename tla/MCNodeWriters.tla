---------------------------- MODULE MCNodeWriters ---------------------------
(***************************************************************************)
(* Trees of up to five levels, written as nested records.  A byte has four *)
(* values, so that a few integers reach every bound of each size.          *)
(***************************************************************************)
EXTENDS RoundTrip

L(type, size, data) ==
    [kind |-> "leaf", type |-> type, size |-> size, data |-> data, array_name |-> "", enum |-> "",
     members |-> <<>>]
Enum(enum, data) == [L("enum", 1, data) EXCEPT !.enum = enum]
Hex(data)        == L("hex", 1, data)
Str(data)        == L("string", 0, data)
Wide(data)       == L("u16string", 0, data)
Md5(data)        == L("md5", 0, data)

Meta            == [kind |-> "meta", members |-> <<>>]
Struct(members) == [kind |-> "struct", members |-> <<Meta>> \o members]
Array(members)  == [kind |-> "array", size |-> Len(members), hex8 |-> FALSE, members |-> <<Meta>> \o members]
HexArray(members) == [Array(members) EXCEPT !.hex8 = TRUE]
HexBytes(n) == HexArray([i \in 1..n |-> Hex(i % 4)])
Leaders(values) ==
    Array([i \in DOMAIN values |-> [Enum("LeaderHeadTypes", values[i]) EXCEPT !.array_name = "Leader"]])

RECURSIVE Below(_, _)
Below(at, node) ==
    UNION {{<<Append(at, k), node.members[k]>>} \cup Below(Append(at, k), node.members[k]) :
              k \in DOMAIN node.members}
Tree(members) ==
    LET nodes == Below(<<>>, Struct(members)) IN
    [at \in {pair[1] : pair \in nodes} |->
        LET node == (CHOOSE pair \in nodes : pair[1] = at)[2]
        IN [field \in DOMAIN node \ {"members"} |-> node[field]]]

Integers_ == {L("int", 1, -2), L("int", 1, 2), L("int", 2, -8), L("int", 4, -128), L("int", 4, 128),
              L("uint", 1, 3), L("uint", 1, -1), L("uint", 2, 15), L("uint", 2, 16), L("uint", 4, -1),
              L("hex", 4, 200), L("bool", 1, 1)}
Strings == {Str(<<>>), Str(<<1, 2>>), Str(<<1, 2, 3>>), Wide(<<>>), Wide(<<<<12, 14>>>>),
            Wide(<<<<5>>, <<6>>>>), Wide(<<<<>>>>), Md5(<<>>), Md5(<<3>>), Md5(<<3, 0>>)}
Enums == {Enum("Era", 1), Enum("Era", -1), Enum("PlayerTypes", -1), Enum("PlayerTypes", 1)}
Slots == {Leaders(<<0>>), Leaders(<<-1, 1, -1>>), Leaders(<<1, -1, 1>>), Leaders(<<0, -2>>)}
Arrays == {Array(<<>>), HexArray(<<>>), HexBytes(1), HexBytes(2), HexBytes(4), HexBytes(5),
           HexArray(<<Hex(1), Hex(4)>>), Array(<<L("int", 1, 1), L("uint", 2, 7)>>),
           Array(<<HexBytes(3)>>), Struct(<<Str(<<1>>)>>), Struct(<<Array(<<>>)>>),
           Array(<<Struct(<<HexBytes(3)>>), Struct(<<L("int", 2, 1)>>)>>),
           Array(<<Array(<<>>), Array(<<L("int", 1, 1)>>)>>)}

Simple == {L("int", 1, -2), L("uint", 2, -1), Str(<<3>>)}

MCTrees ==
    {Tree(<<>>)}
    \cup {Tree(<<Struct(<<a, b>>)>>) : a \in Integers_ \cup Strings, b \in Simple \cup Strings}
    \cup {Tree(<<Struct(<<a, b>>)>>) : a, b \in Arrays \cup Simple}
    \cup {Tree(<<Struct(<<Struct(<<a>>), b>>)>>) : a, b \in Arrays}
    \cup {Tree(<<a, slots, Struct(<<b>>)>>) : a \in Enums \cup Simple, slots \in Slots, b \in Enums}
    \cup {Tree(<<slots, a, b>>) : slots \in Slots, a, b \in Enums}

MCDefinition(members) == [type |-> "enum", members |-> members]
MCMember(name, value) == [name |-> name, value |-> value]
MCDefinitions ==
    [Era |-> MCDefinition(<<MCMember("ANCIENT", 0), MCMember("MODERN", 1)>>),
     LeaderHeadTypes |-> MCDefinition(<<MCMember("NO_LEADERHEAD", -1), MCMember("ASOKA", 0), MCMember("CYRUS", 1)>>)]
MCSurrogates == [high |-> {12, 13}, low |-> {14, 15}]
=============================================================================
