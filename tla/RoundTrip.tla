------------------------------ MODULE RoundTrip ------------------------------
(***************************************************************************)
(* A tree, perhaps edited, is written as a save, and the save read again:  *)
(* the schema asks for the same leaves, and Binary_node_reader reads one   *)
(* after the other.  As it reads the array Leader it defines PlayerTypes,  *)
(* whose enumerators the leaves behind it are read with.                   *)
(***************************************************************************)
EXTENDS NodeWriters

CONSTANTS Definitions  \* the table as phase one leaves it

D == INSTANCE DefinitionTable

VARIABLES
    leaves,              \* the leaves that the schema asks for, in its order
    readback,            \* "not called", "reading", "returned" or "threw"
    m_save,              \* what is left of the stream
    read,                \* the data of the leaves so far
    m_definition_table

readerVars == <<leaves, readback, m_save, read, m_definition_table>>
varsRoundTrip == <<vars, readerVars>>

\* The leaves in the order in which the schema's statements ask for them.
Leaves ==
    LET below[node \in Nodes \cup {<<>>}] ==
          IF node # <<>> /\ IsLeaf(node) THEN <<node>>
          ELSE FlattenSeq([i \in DOMAIN Members(node) |-> below[Members(node)[i]]])
    IN  below[<<>>]

\* A member of an array is named for its subscript.
Subscript(node) == (CHOOSE i \in DOMAIN Members(Front(node)) : Members(Front(node))[i] = node) - 1

\* Base_node_reader::is_leader_array_member_
is_leader_array_member_(leaf) ==
    leaf.type = "enum" /\ leaf.array_name = "Leader" /\ leaf.enum = "LeaderHeadTypes"

-----------------------------------------------------------------------------
\* The definition of PlayerTypes, which starts with NO_PLAYER.  An empty slot
\* is a NO_PLAYER too, and there may be several.

no_player == "NO_PLAYER"
no_leader_head == "NO_LEADERHEAD"

Created ==
    LET table == D!create_definition(m_definition_table, "PlayerTypes", "enum")
    IN  IF "PlayerTypes" \in DOMAIN m_definition_table THEN table
        ELSE [table EXCEPT !["PlayerTypes"] = D!add_member(@, D!Member(no_player, -1))]

\* Fault: a second empty slot, or a second slot of a leader, keeps the first.
DefinesOnce(leader, slot) ==
    LET name == IF leader = no_leader_head THEN no_player ELSE leader
    IN  [Created EXCEPT !["PlayerTypes"] =
            IF name \in D!MemberNames(@) THEN @ ELSE D!add_member(@, D!Member(name, slot))]

create_player_types_enumerator_definition_(leader, slot) ==
    [Created EXCEPT !["PlayerTypes"] =
        IF leader = no_leader_head THEN D!add_duplicate(@, D!Member(no_player, slot))
        ELSE D!add_member(@, D!Member(leader, slot))]

\* A second slot of the same leader throws.
CanDefinePlayer(leader) ==
    /\ D!Creates(m_definition_table, "PlayerTypes", "enum")
    /\ leader # no_leader_head => D!Adds(Created["PlayerTypes"], leader, FALSE)

-----------------------------------------------------------------------------
Open ==
    /\ readback = "not called"
    /\ writer = "none" /\ outcome["composite"] = "returned"
    /\ readback' = "reading"
    /\ m_save' = [i \in DOMAIN composite |-> composite[i][3]]
    /\ UNCHANGED <<vars, leaves, read, m_definition_table>>

\* read_node, by what comes of it: the leaf is read, and a leader of a slot
\* defined; or it throws.
Reading == readback = "reading" /\ Len(read) < Len(leaves)

At == leaves[Len(read) + 1]
Leaf == pt[At]
Value == Decode(Leaf, m_save)
Leader == D!get_enumerator(m_definition_table, "LeaderHeadTypes", Value).name

ReadsLeaf ==
    /\ Reads(Leaf, m_save)
    /\ Leaf.type = "enum" => D!HasEnumerator(m_definition_table, Leaf.enum, Value)
    /\ is_leader_array_member_(Leaf) => CanDefinePlayer(Leader)

ReadNode ==
    /\ Reading /\ ReadsLeaf
    /\ read' = Append(read, Value)
    /\ m_save' = SubSeq(m_save, SizeInStream(Leaf, m_save) + 1, Len(m_save))
    /\ m_definition_table' =
           IF is_leader_array_member_(Leaf)
           THEN create_player_types_enumerator_definition_(Leader, Subscript(At))
           ELSE m_definition_table
    /\ UNCHANGED <<vars, leaves, readback>>

ThrowReading ==
    /\ Reading /\ ~ReadsLeaf
    /\ readback' = "threw"
    /\ UNCHANGED <<vars, leaves, m_save, read, m_definition_table>>

ReadingDone ==
    /\ readback = "reading" /\ Len(read) = Len(leaves)
    /\ readback' = "returned"
    /\ UNCHANGED <<vars, leaves, m_save, read, m_definition_table>>

InitRoundTrip ==
    /\ Init
    /\ leaves = Leaves
    /\ readback = "not called" /\ m_save = <<>> /\ read = <<>>
    /\ m_definition_table = Definitions

NextRoundTrip ==
    \/ readback # "reading" /\ Next /\ UNCHANGED readerVars
    \/ Open \/ ReadNode \/ ThrowReading \/ ReadingDone

SpecRoundTrip == InitRoundTrip /\ [][NextRoundTrip]_varsRoundTrip

-----------------------------------------------------------------------------
\* What is to be read, said from the tree alone.

\* An unsigned integer is read without the sign it was given.
Meant(leaf) ==
    IF IsInteger(leaf) /\ ~IsSigned(leaf) THEN leaf.data % Radix^4 ELSE leaf.data

\* The slots before a place in the order of the leaves, and their leaders.
SlotsBefore(i) == {j \in 1..i - 1 : is_leader_array_member_(pt[leaves[j]])}
LeaderOf(j) == D!get_enumerator(Definitions, "LeaderHeadTypes", pt[leaves[j]].data).name
IsTaken(leader, i) == leader # no_leader_head /\ \E j \in SlotsBefore(i) : LeaderOf(j) = leader

IsEnumerator(leaf, i) ==
    IF leaf.enum = "PlayerTypes"
    THEN SlotsBefore(i) # {} /\ leaf.data \in {-1} \cup {Subscript(leaves[j]) : j \in SlotsBefore(i)}
    ELSE D!HasEnumerator(Definitions, leaf.enum, leaf.data)

Readable(i) ==
    LET leaf == pt[leaves[i]]
    IN  /\ ~IsInteger(leaf) => Len(Units(leaf)) <= max_string_length
        /\ leaf.type = "enum" => IsEnumerator(leaf, i)
        /\ is_leader_array_member_(leaf) => ~IsTaken(LeaderOf(i), i)

(* Binary_node_writer and Binary_node_reader: what was written is read     *)
(* again, every leaf with its value and nothing left over; a read throws   *)
(* only at a leaf that no save may have: a string too long, a value that   *)
(* is no enumerator, a leader for the second time.                         *)
ReadsBack ==
    /\ \A i \in DOMAIN read : Readable(i) /\ read[i] = Meant(pt[leaves[i]])
    /\ readback = "threw" => ~Readable(Len(read) + 1)
    /\ readback = "returned" => Len(read) = Len(leaves) /\ m_save = <<>>

(* Base_node_reader: once the slot of a player has been read, its number   *)
(* means its leader, however many slots are empty; -1 means no player; and *)
(* no leader has two numbers.                                              *)
PlayersNameLeaders ==
    LET slots == SlotsBefore(Len(read) + 1)
        Means(n, name) ==
            /\ D!HasEnumerator(m_definition_table, "PlayerTypes", n)
            /\ D!get_enumerator(m_definition_table, "PlayerTypes", n).name = name
        NameOf(j) == IF LeaderOf(j) = no_leader_head THEN no_player ELSE LeaderOf(j)
    IN  IF slots = {} THEN m_definition_table = Definitions
        ELSE /\ Means(-1, no_player)
             /\ \A j \in slots : Means(Subscript(leaves[j]), NameOf(j))
             /\ \A i, j \in slots : i # j /\ NameOf(i) = NameOf(j) => NameOf(i) = no_player
=============================================================================
