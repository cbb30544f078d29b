----------------------------- MODULE NodeSource -----------------------------
(***************************************************************************)
(* Generative_node_source: the nodes of one declaration.  init_node_ calls *)
(* itself to build a tree with a level per dimension, whose extents are    *)
(* expressions, bytes of the footer, or elements of an array read earlier, *)
(* at the index last captured; next_ then hands out its leaves one by one. *)
(* Every dimension is parsed under a guard that puts the cursor back (see  *)
(* Tokenizer), so a dimension is known here by its place.  A node is known *)
(* by the subscripts that lead to it from the root, which is <<>>.         *)
(***************************************************************************)
EXTENDS Integers, SequencesExt

CONSTANTS
    Declarations,       \* the declarations that may be met: sequences of dimensions
    Identifier,         \* the name declared
    Siblings,           \* the children m_ptree_parent already has, in order
    Enums,              \* the enumerators' values of every enum
    NoEnum,
    FooterBytes,        \* the reader's get_undocumented_footer_bytes_count
    MaxArrayDimension,
    InvalidSize         \* invalid_size: no number of nodes reaches it

ASSUME NodeSourceAssumption ==
    /\ MaxArrayDimension \in Nat
    /\ InvalidSize \in Nat /\ InvalidSize > MaxArrayDimension
    /\ FooterBytes \in Nat
    /\ NoEnum \notin DOMAIN Enums

(* The productions that read a dimension hand over no more than this: an   *)
(* expression's value, a flag, names; a node read earlier holds values.    *)
Dimensions ==
    [kind : {"standard"}, value : Int, capture : BOOLEAN, enum : STRING]
      \cup [kind : {"use_capture"}, ref : STRING, enum : STRING]
      \cup [kind : {"query_reader", "malformed"}]

ASSUME ShapesAssumption ==
    /\ Declarations \subseteq Seq(Dimensions)
    /\ Siblings \in Seq([name : STRING, type : STRING, data : Seq(Int)])

VARIABLES
    declaration,       \* the dimensions between type and identifier
    m_root,            \* the Dimension_nodes built so far: index and number of nodes
    m_captured_index,
    loops,             \* the loops of the init_node_ calls in progress, outermost first
    m_ptree,           \* where the iterator is; {} is nullptr
    status             \* "new", "init", "ready", "end"; "rejected" and "thrown" are Node_source_errors

vars == <<declaration, m_root, m_captured_index, loops, m_ptree, status>>

-----------------------------------------------------------------------------
(* The extent of a dimension: how its production ends, and the value. *)

Extent(n) == [is |-> "size", n |-> n]
Rejected  == [is |-> "rejected", n |-> 0]
Thrown    == [is |-> "thrown", n |-> 0]

\* Fault: a negative extent is taken for what it is.
narrowUnchecked(v) == Extent(v)
narrow(v) == IF v < 0 THEN Thrown ELSE Extent(v)

(* The first child of that name is the one referred to.  The node being    *)
(* initialised is a child already, but has no attributes to read yet.      *)
pr_use_capture_node_reference_(name, captured) ==
    LET named == {i \in DOMAIN Siblings : Siblings[i].name = name} IN
    IF named = {} THEN IF name = Identifier THEN Thrown ELSE Rejected
    ELSE LET node == Siblings[CHOOSE i \in named : \A j \in named : i <= j] IN
         IF captured \notin 0..(Len(node.data) - 1) \/ node.type # "int" THEN Thrown
         ELSE narrow(node.data[captured + 1])

pr_array_suffix_(dim, captured) ==
    CASE dim.kind = "use_capture"  -> pr_use_capture_node_reference_(dim.ref, captured)
      [] dim.kind = "query_reader" -> narrow(FooterBytes)
      [] dim.kind = "standard"     -> narrow(dim.value)
      [] OTHER                     -> Rejected

is_capture(dim) == dim.kind = "standard" /\ dim.capture
enum_name(dim) == IF dim.kind \in {"standard", "use_capture"} THEN dim.enum ELSE NoEnum

(* get_enumerator throws unless the enum has an enumerator of that value. *)
HasEnumerator(enum, value) == enum = NoEnum \/ (enum \in DOMAIN Enums /\ value \in Enums[enum])

-----------------------------------------------------------------------------
(* Building the tree.                                                      *)

(* The subscripts of the node whose loop is innermost. *)
LoopNode == [k \in 1..(Len(loops) - 1) |-> loops[k].index - 1]

(* The call that made the node gives it its cell. *)
WithNode(nodes, node, cell) ==
    [n \in DOMAIN nodes \cup {node} |-> IF n = node THEN cell ELSE nodes[n]]

EndInit(how) == status' = how /\ UNCHANGED <<m_root, loops>>

(* init_node_ of a new node, up to its loop if it is an array. *)
init_node_(nodes, active, node, captured) ==
    /\ m_captured_index' = captured
    /\ \/ /\ Len(node) = Len(declaration)
          /\ m_root' = WithNode(nodes, node, [index |-> InvalidSize, size |-> 0])
          /\ loops' = active
          /\ status' = "init"
       \/ /\ Len(node) < Len(declaration)
          /\ LET dim == declaration[Len(node) + 1]
                 parsed == pr_array_suffix_(dim, captured) IN
             \/ /\ parsed.is # "size"
                /\ EndInit(parsed.is)
             \/ /\ parsed.is = "size" /\ parsed.n > MaxArrayDimension
                /\ EndInit("thrown")
             \/ /\ parsed.is = "size" /\ parsed.n <= MaxArrayDimension
                /\ m_root' = WithNode(nodes, node,
                     [index |-> IF parsed.n = 0 THEN InvalidSize ELSE 0, size |-> 0])
                /\ loops' = Append(active, [index |-> 0, dimension_size |-> parsed.n,
                                            capture |-> is_capture(dim), enum |-> enum_name(dim)])
                /\ status' = "init"

(* The iterator's constructor calls next_, which initialises the tree. *)
init_ ==
    /\ status = "new"
    /\ init_node_(<<>>, <<>>, <<>>, m_captured_index)
    /\ UNCHANGED <<declaration, m_ptree>>

\* Fault: only the first index is captured.
CapturedOnce(loop) ==
    IF loop.capture /\ m_captured_index = InvalidSize THEN loop.index ELSE m_captured_index
CapturedBy(loop) == IF loop.capture THEN loop.index ELSE m_captured_index

(* One round of the innermost loop: capture, look the enumerator up, and   *)
(* initialise one more child.                                              *)
InitElement ==
    /\ status = "init" /\ loops # <<>>
    /\ LET loop == Last(loops)
           captured == CapturedBy(loop) IN
       /\ loop.index < loop.dimension_size
       /\ \/ /\ ~HasEnumerator(loop.enum, loop.index)
             /\ m_captured_index' = captured
             /\ EndInit("thrown")
          \/ /\ HasEnumerator(loop.enum, loop.index)
             /\ init_node_([m_root EXCEPT ![LoopNode].size = @ + 1],
                           [loops EXCEPT ![Len(loops)].index = @ + 1],
                           Append(LoopNode, loop.index), captured)
    /\ UNCHANGED <<declaration, m_ptree>>

\* Fault: the loop over no element never ends.
ReturnFromFilled ==
    /\ status = "init" /\ loops # <<>>
    /\ Last(loops).index = Last(loops).dimension_size /\ Last(loops).index > 0
    /\ loops' = Front(loops)
    /\ UNCHANGED <<declaration, m_root, m_captured_index, m_ptree, status>>

(* init_node_ returns to the call before it. *)
ReturnFromInit ==
    /\ status = "init" /\ loops # <<>>
    /\ Last(loops).index = Last(loops).dimension_size
    /\ loops' = Front(loops)
    /\ UNCHANGED <<declaration, m_root, m_captured_index, m_ptree, status>>

(* init_ puts the type-name token back and next_ goes on to the leaves. *)
InitDone ==
    /\ status = "init" /\ loops = <<>>
    /\ status' = "ready"
    /\ UNCHANGED <<declaration, m_root, m_captured_index, loops, m_ptree>>

-----------------------------------------------------------------------------
(* Walking the tree. *)

\* Fault: the empty arrays are not passed over.
is_array_never(node) == FALSE
is_array(node) == Len(node) < Len(declaration)

(* next_(Dimension_node&): down along the indices to a node that is used   *)
(* up or empty; an empty one is the result, and on the way back every node *)
(* whose last child was used up starts over, except the root.              *)
NextNode(nodes) ==
    LET path == {n \in DOMAIN nodes :
                    \A k \in DOMAIN n : n[k] = nodes[SubSeq(n, 1, k - 1)].index}
        stop == CHOOSE n \in path : \A m \in path : Len(m) <= Len(n)
        OnLastChild(n) == n # <<>> /\ nodes[n].index + 1 = nodes[n].size
        ChildIncrements(n) == \A m \in path \ {stop} : Len(m) > Len(n) => OnLastChild(m)
        StartsOver(n) == n = stop \/ (OnLastChild(n) /\ ChildIncrements(n))
    IN IF nodes[stop].index = nodes[stop].size THEN [nodes |-> nodes, ptree |-> {}]
       ELSE [nodes |-> [n \in DOMAIN nodes |->
                IF n \notin path \/ ~ChildIncrements(n) THEN nodes[n]
                ELSE [nodes[n] EXCEPT !.index = IF StartsOver(n) THEN 0 ELSE @ + 1]],
             ptree |-> {stop}]

(* next_ passes over nodes of type array: the empty arrays. *)
next_ ==
    /\ status = "ready"
    /\ LET Calls == 0..Cardinality(DOMAIN m_root)
           call[c \in Calls] ==
               CHOOSE result \in {NextNode(nodes) : nodes \in {IF c = 0 THEN m_root ELSE call[c - 1].nodes}} : TRUE
           Accepted(c) == \A node \in call[c].ptree : ~is_array(node)
           last == call[CHOOSE c \in Calls : Accepted(c) /\ \A b \in 0..(c - 1) : ~Accepted(b)]
       IN /\ m_root' = last.nodes
          /\ m_ptree' = last.ptree
          /\ status' = IF last.ptree = {} THEN "end" ELSE "ready"
    /\ UNCHANGED <<declaration, m_captured_index, loops>>

-----------------------------------------------------------------------------
Init ==
    /\ declaration \in Declarations
    /\ m_root = <<>>
    /\ m_captured_index = InvalidSize
    /\ loops = <<>>
    /\ m_ptree = {}
    /\ status = "new"

Next == init_ \/ InitElement \/ ReturnFromInit \/ InitDone \/ next_

Spec == Init /\ [][Next]_vars /\ WF_vars(Next)

-----------------------------------------------------------------------------
Subscripts == 0..(MaxArrayDimension - 1)
Nodes == UNION {[1..d -> Subscripts] : d \in 0..Len(declaration)}

(* Type invariant: a tree of nodes at most as deep as the declaration and  *)
(* as wide as an array may be, built by at most one loop per dimension.    *)
TypeOK ==
    /\ DOMAIN m_root \subseteq Nodes
    /\ \A n \in DOMAIN m_root :
          m_root[n].size \in 0..MaxArrayDimension
          /\ m_root[n].index \in 0..MaxArrayDimension \cup {InvalidSize}
    /\ m_captured_index \in Subscripts \cup {InvalidSize}
    /\ Len(loops) <= Len(declaration)
    /\ \A k \in DOMAIN loops :
          loops[k].dimension_size \in 0..MaxArrayDimension /\ loops[k].index \in 0..loops[k].dimension_size
    /\ m_ptree \in {{}} \cup {{n} : n \in DOMAIN m_root}
    /\ status \in {"new", "init", "ready", "end", "rejected", "thrown"}

(* What a declaration means: the index that a dimension captures is that   *)
(* of the element at hand, and a later dimension of that element uses it.  *)
CapturedBefore(node) ==
    LET capturing == {c \in DOMAIN node : is_capture(declaration[c])} IN
    IF capturing = {} THEN InvalidSize
    ELSE node[CHOOSE c \in capturing : \A b \in capturing : b <= c]

(* m_captured_index is not put back when init_node_ returns: an index is   *)
(* captured again only where no later dimension is left to use the earlier *)
(* one.                                                                    *)
CapturesOutlast(decl) ==
    \A u \in DOMAIN decl : decl[u].kind = "use_capture" =>
        \A c \in (u + 1)..Len(decl) : ~is_capture(decl[c])

DeclaredExtent(node) == pr_array_suffix_(declaration[Len(node) + 1], CapturedBefore(node))

Elements ==
    {e \in [DOMAIN declaration -> Subscripts] :
        \A k \in DOMAIN declaration :
           LET extent == DeclaredExtent(SubSeq(e, 1, k - 1)) IN
           extent.is = "size" /\ e[k] < extent.n}

Built == status \in {"ready", "end"}

(* Every array of the finished tree, however deep, has as many nodes as    *)
(* its own subscripts and its dimension call for (init_node_'s loop, and   *)
(* the index captured by the loop around it).                              *)
ArraysAsDeclared ==
    Built => \A n \in DOMAIN m_root : is_array(n) => Extent(m_root[n].size) = DeclaredExtent(n)

(* emit_nodes_' range-based for reads every element of the declaration     *)
(* once, in ascending subscript order, and no empty array.                 *)
Order == INSTANCE SubscriptOrder WITH
            elements <- Elements, current <- m_ptree, ended <- status = "end"
ElementsInOrder == Order!Spec

(* The range-based for ends: a node source that is not in error comes to   *)
(* its end, and init_node_ never loops for ever.                           *)
Ends == <>(status \in {"end", "rejected", "thrown"})
=============================================================================
