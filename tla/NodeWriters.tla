----------------------------- MODULE NodeWriters ----------------------------
(***************************************************************************)
(* Writing a property tree: write_composite runs the Binary_node_writer    *)
(* over it, write_translation the Translation_node_writer, each with a     *)
(* Recursive_node_source of its own.  A byte is a value, marked with the    *)
(* leaf it belongs to and its place there; a name, a formatted value or a  *)
(* subscript is known by its node.  Columns, their titles and the origin   *)
(* are left out.                                                           *)
(***************************************************************************)
EXTENDS RecursiveNodeSource, NodeCodec

CONSTANTS
    Trees,         \* the trees that may be written
    BytesPerLine   \* translation_max_bytes_per_line

ASSUME NodeWritersAssumption == BytesPerLine \in Nat \ {0}

VARIABLES
    writer,       \* the call in progress: "composite", "translation" or "none"
    outcome,      \* how each call ended: "returned", "threw" or "not called"
    composite,    \* the composite stream
    translation,  \* the lines of the translation
    m_offset,
    m_aggregate_name_stack,
    depth_written,    \* the translation writer's m_depth
    m_is_output_consolidating,
    m_is_consolidated_output_ready,
    m_consolidated    \* the other consolidation members: size, count, data, prefix

consolidation == <<m_is_output_consolidating, m_is_consolidated_output_ready, m_consolidated>>
translationVars == <<translation, m_offset, m_aggregate_name_stack, depth_written, consolidation>>
vars == <<pt, walkVars, writer, outcome, composite, translationVars>>

IsLeaf(node)  == pt[node].kind = "leaf"
IsArray(node) == pt[node].kind = "array"
Bytes(node)   == [k \in DOMAIN Encode(pt[node]) |-> <<node, k, Encode(pt[node])[k]>>]

Line(depth, text, offset, bytes) == [depth |-> depth, text |-> text, offset |-> offset, bytes |-> bytes]

-----------------------------------------------------------------------------
(* The calls. *)

Call(w) ==
    /\ writer = "none" /\ outcome[w] = "not called"
    /\ writer' = w
    /\ begin
    /\ UNCHANGED <<pt, outcome, composite, translationVars>>

Threw ==
    /\ outcome' = [outcome EXCEPT ![writer] = "threw"]
    /\ writer' = "none"
    /\ UNCHANGED <<pt, walkVars, composite, consolidation>>

(* The body of the loop of a call, which goes on to operator++. *)
AtNode(w) == writer = w /\ ~moving /\ ~AtEnd
GoOn == moving' = TRUE /\ UNCHANGED <<pt, m_stack, m_depth, writer, outcome>>

Increment ==
    /\ Walk
    /\ UNCHANGED <<pt, writer, outcome, composite, translationVars>>

-----------------------------------------------------------------------------
(* Binary_node_writer. *)

WriteBytes ==
    /\ AtNode("composite")
    /\ IsLeaf(Node) => BinaryTakes(pt[Node])
    /\ composite' = IF IsLeaf(Node) THEN composite \o Bytes(Node) ELSE composite
    /\ GoOn
    /\ UNCHANGED translationVars

ThrowWriting ==
    /\ AtNode("composite")
    /\ IsLeaf(Node) /\ ~BinaryTakes(pt[Node])
    /\ Threw
    /\ UNCHANGED <<translation, m_offset, m_aggregate_name_stack, depth_written>>

CompositeDone ==
    /\ writer = "composite" /\ AtEnd
    /\ writer' = "none"
    /\ outcome' = [outcome EXCEPT !["composite"] = "returned"]
    /\ UNCHANGED <<pt, walkVars, composite, translationVars>>

-----------------------------------------------------------------------------
(* Translation_node_writer. *)

LevelsLeft(depth) == IF depth < depth_written THEN depth_written - depth ELSE 0

(* print_end_translations_: a line for each level left, innermost first. *)
EndLines(depth) ==
    [i \in 1..LevelsLeft(depth) |->
        LET name == m_aggregate_name_stack[Len(m_aggregate_name_stack) + 1 - i]
        IN Line(depth_written - i, <<"End", name>>, m_offset, <<>>)]
NamesLeft(depth) == SubSeq(m_aggregate_name_stack, 1, Len(m_aggregate_name_stack) - LevelsLeft(depth))

(* write_node's output loop: data beyond a line goes on to further lines. *)
DataLines(depth, text, data) ==
    LET count == IF data = <<>> THEN 1 ELSE (Len(data) + BytesPerLine - 1) \div BytesPerLine IN
    [i \in 1..count |->
        LET first == (i - 1) * BytesPerLine
            last  == IF i = count THEN Len(data) ELSE i * BytesPerLine
        IN Line(depth, IF i = 1 THEN text ELSE <<"...">>, m_offset + first, SubSeq(data, first + 1, last))]

Output(text, data, names) ==
    /\ translation' = translation \o EndLines(m_depth) \o DataLines(m_depth, text, data)
    /\ m_offset' = m_offset + Len(data)
    /\ m_aggregate_name_stack' = names
    /\ depth_written' = m_depth

OutputEndsOnly ==
    /\ translation' = translation \o EndLines(m_depth)
    /\ m_aggregate_name_stack' = NamesLeft(m_depth)
    /\ depth_written' = m_depth
    /\ UNCHANGED m_offset

(* get_consolidated_translation_value_equals_prefix_ *)
Prefix(count, size) ==
    <<count, IF count + BytesPerLine < size THEN count + BytesPerLine - 1 ELSE size - 1>>

(* gndt_not_consolidated_ *)
TranslateEmptyArray ==
    /\ AtNode("translation") /\ ~m_is_output_consolidating
    /\ IsArray(Node) /\ pt[Node].size = 0
    /\ OutputEndsOnly
    /\ GoOn
    /\ UNCHANGED <<composite, consolidation>>

TranslateAggregate ==
    /\ AtNode("translation") /\ ~m_is_output_consolidating
    /\ ~IsLeaf(Node) /\ ~(IsArray(Node) /\ pt[Node].size = 0)
    /\ Output(<<"Begin", Node>>, <<>>, Append(NamesLeft(m_depth), Node))
    /\ IF IsArray(Node) /\ pt[Node].hex8
         THEN /\ m_is_output_consolidating' = TRUE
              /\ m_is_consolidated_output_ready' = FALSE   \* ready for the Begin line only
              /\ m_consolidated' = [size |-> pt[Node].size, count |-> 0, data |-> <<>>,
                                    prefix |-> Prefix(0, pt[Node].size)]
         ELSE UNCHANGED consolidation
    /\ GoOn
    /\ UNCHANGED composite

TranslateLeaf ==
    /\ AtNode("translation") /\ ~m_is_output_consolidating
    /\ IsLeaf(Node) /\ TranslationTakes(pt[Node])
    /\ Output(<<"Value", Node>>, Bytes(Node), NamesLeft(m_depth))
    /\ GoOn
    /\ UNCHANGED <<composite, consolidation>>

\* Fault: a line is put out only when it is full.
LineCompleteWhenFull(count, data) == Len(data) = BytesPerLine
\* Fault: a line is put out only after the last byte.
LineCompleteAtLast(count, data) == count = m_consolidated.size
LineComplete(count, data) == Len(data) = BytesPerLine \/ count = m_consolidated.size

\* Fault: the writer goes on consolidating after the last byte.
MoreToConsolidateEver(count) == count <= m_consolidated.size
MoreToConsolidate(count) == count # m_consolidated.size

(* gndt_consolidated_: one more byte, and a line when it is full or the    *)
(* last.                                                                   *)
TranslateByte ==
    /\ AtNode("translation") /\ m_is_output_consolidating
    /\ IsLeaf(Node) /\ TranslationTakes(pt[Node])
    /\ LET count == m_consolidated.count + 1
           data  == m_consolidated.data \o Bytes(Node)
       IN /\ IF LineComplete(count, data)
               THEN /\ m_consolidated' = [m_consolidated EXCEPT
                            !.count = count, !.data = <<>>, !.prefix = Prefix(count, m_consolidated.size)]
                    /\ Output(<<"Range", m_consolidated.prefix>>, data, NamesLeft(m_depth))
               ELSE /\ m_consolidated' = [m_consolidated EXCEPT !.count = count, !.data = data]
                    /\ OutputEndsOnly
          /\ m_is_output_consolidating' = MoreToConsolidate(count)
          /\ m_is_consolidated_output_ready' = (LineComplete(count, data) /\ ~MoreToConsolidate(count))
    /\ GoOn
    /\ UNCHANGED composite

(* So does, in an array of bytes, a node that has no byte of its own.  The *)
(* levels left have been ended before.                                     *)
ThrowTranslating ==
    /\ AtNode("translation")
    /\ IF IsLeaf(Node) THEN ~TranslationTakes(pt[Node]) ELSE m_is_output_consolidating
    /\ OutputEndsOnly
    /\ Threw

(* finish() *)
TranslationDone ==
    /\ writer = "translation" /\ AtEnd
    /\ translation' = translation \o EndLines(0)
    /\ m_aggregate_name_stack' = NamesLeft(0)
    /\ depth_written' = 0
    /\ writer' = "none"
    /\ outcome' = [outcome EXCEPT !["translation"] = "returned"]
    /\ UNCHANGED <<pt, walkVars, composite, m_offset, consolidation>>

-----------------------------------------------------------------------------
Calls == {"composite", "translation"}

Init ==
    /\ pt \in Trees
    /\ m_stack = <<>> /\ m_depth = 0 /\ moving = FALSE
    /\ writer = "none"
    /\ outcome = [w \in Calls |-> "not called"]
    /\ composite = <<>>
    /\ translation = <<>>
    /\ m_offset = 0
    /\ m_aggregate_name_stack = <<>>
    /\ depth_written = 0
    /\ m_is_output_consolidating = FALSE
    /\ m_is_consolidated_output_ready = FALSE
    /\ m_consolidated = [size |-> 0, count |-> 0, data |-> <<>>, prefix |-> <<0, 0>>]

Next ==
    \/ \E w \in Calls : Call(w)
    \/ Increment
    \/ WriteBytes
    \/ ThrowWriting
    \/ CompositeDone
    \/ TranslateEmptyArray
    \/ TranslateAggregate
    \/ TranslateLeaf
    \/ TranslateByte
    \/ ThrowTranslating
    \/ TranslationDone

Spec == Init /\ [][Next]_vars

-----------------------------------------------------------------------------
Nodes == DOMAIN pt
AllBytes == UNION {Range(Bytes(n)) : n \in {m \in Nodes : IsLeaf(m)}}

(* Type invariant: the contexts lie on one path of the tree, the depth is  *)
(* the level of the node at hand, and the stack of names never runs out.   *)
TypeOK ==
    /\ ~AtEnd => Node \in Nodes /\ m_depth = Len(m_stack) - 1
    /\ \A k \in DOMAIN m_stack : m_stack[k].fresh_children \in BOOLEAN
    /\ moving \in BOOLEAN /\ (moving => ~AtEnd)
    /\ writer \in Calls \cup {"none"}
    /\ outcome \in [Calls -> {"not called", "returned", "threw"}]
    /\ Range(composite) \subseteq AllBytes
    /\ m_offset \in Nat
    /\ Range(m_aggregate_name_stack) \subseteq Nodes
    /\ depth_written \in 0..Len(m_aggregate_name_stack)
    /\ m_is_output_consolidating \in BOOLEAN
    /\ m_is_consolidated_output_ready \in BOOLEAN
    /\ m_consolidated.count \in 0..m_consolidated.size
    /\ Len(m_consolidated.data) < BytesPerLine

(* What a translation is to look like: every aggregate that is not an      *)
(* empty array between its own Begin and End, its members in between, the  *)
(* bytes of an array of bytes a line at a time.                            *)
Members(node) ==
    SelectSeq([k \in 1..Cardinality(Nodes) |-> Append(node, k)],
              LAMBDA n : n \in Nodes /\ ~skip_meta_nodes(n))

Shown(depth, text, bytes) == [depth |-> depth, text |-> text, bytes |-> bytes]

Cut(bytes) == [i \in 1..((Len(bytes) + BytesPerLine - 1) \div BytesPerLine) |->
                  {k \in DOMAIN bytes : (k - 1) \div BytesPerLine = i - 1}]
Slice(bytes, places) == SubSeq(bytes, Min(places), Max(places))

IsByteArray(node) == IsArray(node) /\ pt[node].hex8 /\ \A i \in DOMAIN Members(node) : IsLeaf(Members(node)[i])

Description[node \in Nodes] ==
    LET depth == Len(node) - 1
        inner == FlattenSeq([i \in DOMAIN Members(node) |-> Description[Members(node)[i]]])
        bytes == IF IsByteArray(node) THEN FlattenSeq([i \in DOMAIN Members(node) |-> Bytes(Members(node)[i])])
                 ELSE IF IsLeaf(node) THEN Bytes(node) ELSE <<>>
        Within(lines) == <<Shown(depth, <<"Begin", node>>, <<>>)>> \o lines
                            \o <<Shown(depth, <<"End", node>>, <<>>)>>
    IN CASE IsLeaf(node) /\ bytes = <<>> -> <<Shown(depth, <<"Value", node>>, <<>>)>>
         [] IsLeaf(node) /\ bytes # <<>> ->
              [i \in DOMAIN Cut(bytes) |->
                  Shown(depth, IF i = 1 THEN <<"Value", node>> ELSE <<"...">>, Slice(bytes, Cut(bytes)[i]))]
         [] IsArray(node) /\ Members(node) = <<>> -> <<>>
         [] IsByteArray(node) /\ Members(node) # <<>> ->
              Within([i \in DOMAIN Cut(bytes) |->
                  Shown(depth + 1, <<"Range", <<Min(Cut(bytes)[i]) - 1, Max(Cut(bytes)[i]) - 1>>>>,
                        Slice(bytes, Cut(bytes)[i]))])
         [] OTHER -> Within(inner)

Whole == FlattenSeq([i \in DOMAIN Members(<<>>) |-> Description[Members(<<>>)[i]]])
Written == [i \in DOMAIN translation |->
               Shown(translation[i].depth, translation[i].text, translation[i].bytes)]

(* write_translation puts out the description of the tree, and all of it   *)
(* if it returns, however far it is or gets: every End names the aggregate that the  *)
(* matching Begin named, and no byte is missing, repeated or misplaced.    *)
TranslationDescribesTree ==
    /\ IsPrefix(Written, Whole)
    /\ outcome["translation"] = "returned" => Written = Whole

(* The offset of every line of a translation is where write_composite puts *)
(* the bytes of that line, so that the two agree byte for byte.            *)
OffsetsPointIntoSave ==
    (\A w \in Calls : outcome[w] = "returned") =>
        /\ \A i \in DOMAIN translation :
              LET line == translation[i]
              IN line.bytes = SubSeq(composite, line.offset + 1, line.offset + Len(line.bytes))
        /\ FlattenSeq([i \in DOMAIN translation |-> translation[i].bytes]) = composite

(* A tree that can be written as a save can be translated.  (The API's     *)
(* write_translation: a translation represents a save.)                    *)
SavesTranslate ==
    outcome["composite"] = "returned" => outcome["translation"] # "threw"
=============================================================================
