-------------------------- MODULE NodeSourceProofs --------------------------
(***************************************************************************)
(* A generative node source builds a tree as the declaration says and then *)
(* walks it leaf by leaf.  While init_node_ builds, the loops in progress  *)
(* say which nodes are not complete yet, and m_captured_index stays that   *)
(* of the element at hand for as long as a dimension may still use it.     *)
(* While next_ walks, the indices of the tree divide its nodes in those    *)
(* left of the path they describe, which have been handed out, and those   *)
(* right of it, which have not.                                            *)
(***************************************************************************)
EXTENDS NodeSource, SequenceTheorems, FiniteSetTheorems, WellFoundedInduction, TLAPS

-----------------------------------------------------------------------------
(* The tree. *)

(* The node k levels down on the way to n. *)
Up(n, k) == SubSeq(n, 1, k)

Cells == [index : 0 .. MaxArrayDimension \cup {InvalidSize}, size : 0 .. MaxArrayDimension]

(* A node is there exactly when its parent has that many children. *)
Shape(nodes, depth) ==
    /\ IsFiniteSet(DOMAIN nodes)
    /\ nodes \in [DOMAIN nodes -> Cells]
    /\ \A n \in DOMAIN nodes :
          /\ n \in Seq(Nat) /\ Len(n) <= depth
          /\ \A k \in 1 .. Len(n) :
                Up(n, k - 1) \in DOMAIN nodes /\ n[k] < nodes[Up(n, k - 1)].size
          /\ \A i \in 0 .. nodes[n].size - 1 : Append(n, i) \in DOMAIN nodes

-----------------------------------------------------------------------------
(* Building. *)

(* The node whose loop is the one after the first k. *)
LoopPath(active, k) == [j \in 1 .. k |-> active[j].index - 1]

InLoop(active, n) == \E k \in DOMAIN active : n = LoopPath(active, k - 1)

Loops == [index : 0 .. MaxArrayDimension, dimension_size : 0 .. MaxArrayDimension,
          capture : BOOLEAN, enum : {enum_name(dim) : dim \in Dimensions}]

FirstIndex(size) == IF size = 0 THEN InvalidSize ELSE 0

(* Each loop is that of a node with as many children as it has begun, and  *)
(* every loop but the innermost has begun one. *)
LoopsAtNodes(nodes, active, decl) ==
    /\ active \in Seq(Loops)
    /\ Len(active) <= Len(decl)
    /\ \A k \in DOMAIN active :
          /\ LoopPath(active, k - 1) \in DOMAIN nodes
          /\ nodes[LoopPath(active, k - 1)].size = active[k].index
          /\ nodes[LoopPath(active, k - 1)].index = FirstIndex(active[k].dimension_size)
          /\ active[k].index <= active[k].dimension_size
          /\ active[k].capture = is_capture(decl[k])
          /\ k < Len(active) => active[k].index >= 1

(* A node whose loop has returned waits for next_ with its first child. *)
Unwalked(nodes, active) ==
    \A n \in DOMAIN nodes : ~InLoop(active, n) => nodes[n].index = FirstIndex(nodes[n].size)

Building ==
    /\ status \in {"init", "rejected", "thrown"} =>
          LoopsAtNodes(m_root, loops, declaration) /\ Unwalked(m_root, loops)
    /\ status = "new" => m_root = <<>> /\ loops = <<>> /\ m_captured_index = InvalidSize
    /\ status \in {"init", "ready", "end"} => <<>> \in DOMAIN m_root
    /\ status \in {"ready", "end"} => loops = <<>>
    /\ status \notin {"ready", "end"} => m_ptree = {}

(* What the declaration means, of a given declaration. *)
CapturedIn(decl, node) ==
    LET capturing == {c \in DOMAIN node : is_capture(decl[c])} IN
    IF capturing = {} THEN InvalidSize
    ELSE node[CHOOSE c \in capturing : \A b \in capturing : b <= c]

ExtentIn(decl, node) == pr_array_suffix_(decl[Len(node) + 1], CapturedIn(decl, node))

Capturing(decl, u) == {c \in 1 .. u - 1 : is_capture(decl[c])}
IsLast(c, C) == c \in C /\ \A b \in C : b <= c

(* The index in use is the one captured by the loop that captures for it. *)
CaptureKept(decl, active, captured) ==
    \A u \in DOMAIN decl : decl[u].kind = "use_capture" =>
        /\ Capturing(decl, u) = {} => captured = InvalidSize
        /\ \A c \in 1 .. u - 1 :
              IsLast(c, Capturing(decl, u)) /\ c < Len(active) => captured = active[c].index - 1

LoopsDeclared(nodes, active, decl) ==
    /\ \A k \in DOMAIN active :
          Extent(active[k].dimension_size) = ExtentIn(decl, LoopPath(active, k - 1))
    /\ \A n \in DOMAIN nodes :
          Len(n) < Len(decl) /\ ~InLoop(active, n) => Extent(nodes[n].size) = ExtentIn(decl, n)

AsDeclared ==
    /\ LoopsDeclared(m_root, loops, declaration)
    /\ status \in {"new", "init"} => CaptureKept(declaration, loops, m_captured_index)

-----------------------------------------------------------------------------
(* Walking. *)

OnPath(nodes, n) == n \in DOMAIN nodes /\ \A k \in DOMAIN n : n[k] = nodes[Up(n, k - 1)].index

(* The nodes the walk has left behind branch off its path to the left. *)
LeftOfPath(nodes, n) ==
    \E k \in DOMAIN n : OnPath(nodes, Up(n, k - 1)) /\ n[k] < nodes[Up(n, k - 1)].index

Walking(nodes) ==
    \A n \in DOMAIN nodes :
       /\ nodes[n].size > 0 =>
            IF OnPath(nodes, n) THEN nodes[n].index < nodes[n].size \/ (n = <<>> /\ nodes[n].index = nodes[n].size)
                                ELSE nodes[n].index = 0
       /\ nodes[n].size = 0 =>
            IF n = <<>> THEN nodes[n].index \in {0, InvalidSize}
            ELSE nodes[n].index = IF LeftOfPath(nodes, n) THEN 0 ELSE InvalidSize

(* The nodes next_ has yet to pass. *)
Unseen(nodes) == {n \in DOMAIN nodes : nodes[n].size = 0 /\ nodes[n].index = InvalidSize}

WalkKept == status \in {"ready", "end"} => Walking(m_root)

(* The elements yet to be handed out are those ahead of the current one. *)
AheadUnseen ==
    status = "ready" => m_ptree \subseteq Elements /\ Order!Ahead = Elements \cap Unseen(m_root)

IInv ==
    /\ declaration \in Declarations
    /\ m_captured_index \in Subscripts \cup {InvalidSize}
    /\ m_ptree \in {{}} \cup {{n} : n \in DOMAIN m_root}
    /\ status \in {"new", "init", "ready", "end", "rejected", "thrown"}
    /\ Shape(m_root, Len(declaration))
    /\ Building
    /\ WalkKept

-----------------------------------------------------------------------------
(* Sequences of subscripts. *)

(* Climbing: what is above a node is above every node between them. *)
LEMMA UpFacts ==
    ASSUME NEW n \in Seq(Nat), NEW k \in 0 .. Len(n)
    PROVE  /\ Up(n, k) \in Seq(Nat) /\ Len(Up(n, k)) = k /\ DOMAIN Up(n, k) = 1 .. k
           /\ \A i \in 1 .. k : Up(n, k)[i] = n[i]
  BY DEF Up

LEMMA SameNode ==
    ASSUME NEW m \in Seq(Nat), NEW n \in Seq(Nat), Len(m) = Len(n),
           \A i \in 1 .. Len(n) : m[i] = n[i]
    PROVE  m = n
  BY SMTT(20)

LEMMA SubscriptIsNat == ASSUME NEW n \in Seq(Nat), NEW k \in DOMAIN n PROVE n[k] \in Nat
  OBVIOUS

LEMMA UpOfUp ==
    ASSUME NEW n \in Seq(Nat), NEW k \in 0 .. Len(n), NEW j \in 0 .. k
    PROVE  Up(Up(n, k), j) = Up(n, j)
<1>1. j \in 0 .. Len(n) /\ j \in 0 .. Len(Up(n, k))
  BY UpFacts
<1>2. /\ Up(n, k) \in Seq(Nat) /\ Len(Up(n, k)) = k
      /\ \A i \in 1 .. k : Up(n, k)[i] = n[i]
  BY UpFacts
<1>3. /\ Up(n, j) \in Seq(Nat) /\ Len(Up(n, j)) = j
      /\ \A i \in 1 .. j : Up(n, j)[i] = n[i]
  BY <1>1, UpFacts
<1>4. /\ Up(Up(n, k), j) \in Seq(Nat) /\ Len(Up(Up(n, k), j)) = j
      /\ \A i \in 1 .. j : Up(Up(n, k), j)[i] = Up(n, k)[i]
  BY <1>1, <1>2, UpFacts
<1>5. ASSUME NEW i \in 1 .. j PROVE Up(Up(n, k), j)[i] = Up(n, j)[i]
  <2>1. i \in 1 .. k
    OBVIOUS
  <2> QED
    BY <1>2, <1>3, <1>4, <2>1
<1> QED
  BY <1>3, <1>4, <1>5, SameNode

LEMMA UpWhole == ASSUME NEW n \in Seq(Nat) PROVE Up(n, Len(n)) = n
<1>1. /\ Up(n, Len(n)) \in Seq(Nat) /\ Len(Up(n, Len(n))) = Len(n)
      /\ \A i \in 1 .. Len(n) : Up(n, Len(n))[i] = n[i]
  BY UpFacts
<1> QED
  BY <1>1, SameNode

LEMMA UpNone == ASSUME NEW n \in Seq(Nat) PROVE Up(n, 0) = <<>> /\ <<>> \in Seq(Nat) /\ Len(<<>>) = 0
<1>1. Up(n, 0) \in Seq(Nat) /\ Len(Up(n, 0)) = 0
  BY UpFacts
<1> QED
  BY <1>1

LEMMA UpNext ==
    ASSUME NEW n \in Seq(Nat), NEW k \in 1 .. Len(n)
    PROVE  Up(n, k) = Append(Up(n, k - 1), n[k])
<1>1. k - 1 \in 0 .. Len(n) /\ k \in 0 .. Len(n) /\ n[k] \in Nat
  OBVIOUS
<1>2. /\ Up(n, k) \in Seq(Nat) /\ Len(Up(n, k)) = k
      /\ \A i \in 1 .. k : Up(n, k)[i] = n[i]
  BY <1>1, UpFacts
<1>3. /\ Up(n, k - 1) \in Seq(Nat) /\ Len(Up(n, k - 1)) = k - 1
      /\ \A i \in 1 .. k - 1 : Up(n, k - 1)[i] = n[i]
  BY <1>1, UpFacts
<1>4. PICK m \in Seq(Nat) : m = Append(Up(n, k - 1), n[k])
  BY <1>1, <1>3, AppendProperties, Zenon
<1>5. Len(m) = k /\ \A i \in 1 .. k : m[i] = n[i]
  <2>1. Len(m) = k
    BY <1>3, <1>4
  <2>2. ASSUME NEW i \in 1 .. k PROVE m[i] = n[i]
    <3>1. CASE i = k
      BY <3>1, <1>1, <1>3, <1>4
    <3>2. CASE i \in 1 .. k - 1
      BY <3>2, <1>1, <1>3, <1>4
    <3> QED
      BY <3>1, <3>2
  <2> QED
    BY <2>1, <2>2
<1> QED
  BY <1>2, <1>4, <1>5, SameNode

LEMMA AppendFacts ==
    ASSUME NEW n \in Seq(Nat), NEW i \in Nat
    PROVE  /\ Append(n, i) \in Seq(Nat) /\ Len(Append(n, i)) = Len(n) + 1
           /\ Append(n, i)[Len(n) + 1] = i
           /\ \A k \in 1 .. Len(n) : Append(n, i)[k] = n[k]
           /\ \A k \in 0 .. Len(n) : Up(Append(n, i), k) = Up(n, k)
<1>1. PICK m \in Seq(Nat) : m = Append(n, i)
  BY AppendProperties, Zenon
<1>2. Len(m) = Len(n) + 1 /\ m[Len(n) + 1] = i /\ \A k \in 1 .. Len(n) : m[k] = n[k]
  BY <1>1
<1>3. ASSUME NEW k \in 0 .. Len(n) PROVE Up(m, k) = Up(n, k)
  <2>1. k \in 0 .. Len(m)
    BY <1>2
  <2>2. /\ Up(n, k) \in Seq(Nat) /\ Len(Up(n, k)) = k
        /\ \A j \in 1 .. k : Up(n, k)[j] = n[j]
    BY UpFacts
  <2>3. /\ Up(m, k) \in Seq(Nat) /\ Len(Up(m, k)) = k
        /\ \A j \in 1 .. k : Up(m, k)[j] = m[j]
    BY <2>1, UpFacts
  <2>4. ASSUME NEW j \in 1 .. k PROVE Up(m, k)[j] = Up(n, k)[j]
    <3>1. j \in 1 .. Len(n)
      OBVIOUS
    <3> QED
      BY <1>2, <2>2, <2>3, <3>1
  <2> QED
    BY <2>2, <2>3, <2>4, SameNode
<1> QED
  BY <1>1, <1>2, <1>3

(* The two ways two nodes differ: one is above the other, or they branch. *)
Branch(m, n, k) ==
    /\ k \in 1 .. Len(m) /\ k \in 1 .. Len(n)
    /\ Up(m, k - 1) = Up(n, k - 1) /\ m[k] # n[k]

LEMMA LeastOf ==
    ASSUME NEW S, S \subseteq Nat, S # {}
    PROVE  \E x \in S : \A y \in S : x <= y
<1> DEFINE Upto(n) == 1 .. n
           Segments == {Upto(n) : n \in S}
<1>1. Segments \subseteq FiniteSubsetsOf(Nat) /\ Segments # {}
  <2>1. \A n \in S : Upto(n) \in SUBSET Nat /\ IsFiniteSet(Upto(n))
    BY FS_Interval
  <2> QED
    BY <2>1 DEF FiniteSubsetsOf
<1>2. PICK s \in Segments : \A t \in Segments : <<t, s>> \notin StrictSubsetOrdering(Nat)
  BY <1>1, FS_StrictSubsetOrderingWellFounded, WFMin, Zenon
<1>3. PICK x \in S : s = Upto(x)
  OBVIOUS
<1>4. ASSUME NEW y \in S, y < x PROVE FALSE
  <2>1. Upto(y) \subseteq Upto(x) /\ Upto(y) # Upto(x) /\ Upto(x) \in SUBSET Nat /\ Upto(y) \in SUBSET Nat
    <3>1. x \in Upto(x) /\ x \notin Upto(y) /\ \A i \in Upto(y) : i \in Upto(x)
      BY <1>4
    <3> QED
      BY <3>1
  <2>2. <<Upto(y), Upto(x)>> \in StrictSubsetOrdering(Nat)
    BY <2>1 DEF StrictSubsetOrdering
  <2> QED
    BY <1>2, <1>3, <2>2
<1> QED
  BY <1>4

LEMMA GreatestOf ==
    ASSUME NEW S, NEW bound \in Nat, S \subseteq 0 .. bound, S # {}
    PROVE  \E x \in S : \A y \in S : y <= x
<1> DEFINE T == {bound - y : y \in S}
<1>1. T \subseteq Nat /\ T # {}
  OBVIOUS
<1>2. PICK t \in T : \A u \in T : t <= u
  BY <1>1, LeastOf
<1>3. PICK x \in S : t = bound - x
  OBVIOUS
<1>4. \A y \in S : bound - x <= bound - y
  BY <1>2, <1>3
<1> QED
  BY <1>4

LEMMA TwoNodes ==
    ASSUME NEW m \in Seq(Nat), NEW n \in Seq(Nat)
    PROVE  \/ Len(m) <= Len(n) /\ m = Up(n, Len(m))
           \/ Len(n) <= Len(m) /\ n = Up(m, Len(n))
           \/ \E k \in 1 .. Len(n) : Branch(m, n, k)
<1> DEFINE S == {k \in 1 .. Len(n) : k <= Len(m) /\ m[k] # n[k]}
<1>1. CASE S = {}
  <2>1. \A k \in 1 .. Len(n) : k <= Len(m) => m[k] = n[k]
    BY <1>1
  <2>2. CASE Len(m) <= Len(n)
    <3>1. Len(m) \in 0 .. Len(n)
      BY <2>2
    <3>2. /\ Up(n, Len(m)) \in Seq(Nat) /\ Len(Up(n, Len(m))) = Len(m)
          /\ \A i \in 1 .. Len(m) : Up(n, Len(m))[i] = n[i]
      BY <3>1, UpFacts
    <3>3. ASSUME NEW i \in 1 .. Len(m) PROVE m[i] = Up(n, Len(m))[i]
      <4>1. i \in 1 .. Len(n) /\ i <= Len(m)
        BY <2>2
      <4> QED
        BY <2>1, <3>2, <4>1
    <3> QED
      BY <2>2, <3>2, <3>3, SameNode
  <2>3. CASE Len(n) <= Len(m)
    <3>1. Len(n) \in 0 .. Len(m)
      BY <2>3
    <3>2. /\ Up(m, Len(n)) \in Seq(Nat) /\ Len(Up(m, Len(n))) = Len(n)
          /\ \A i \in 1 .. Len(n) : Up(m, Len(n))[i] = m[i]
      BY <3>1, UpFacts
    <3>3. ASSUME NEW i \in 1 .. Len(n) PROVE n[i] = Up(m, Len(n))[i]
      <4>1. i <= Len(m)
        BY <2>3
      <4> QED
        BY <2>1, <3>2, <4>1
    <3> QED
      BY <2>3, <3>2, <3>3, SameNode
  <2> QED
    BY <2>2, <2>3
<1>2. CASE S # {}
  <2>0. S \subseteq Nat
    OBVIOUS
  <2>1. PICK k \in S : \A y \in S : k <= y
    <3> HIDE DEF S
    <3> QED
      BY <1>2, <2>0, LeastOf
  <2>2. k \in 1 .. Len(m) /\ k \in 1 .. Len(n) /\ m[k] # n[k] /\ \A i \in 1 .. k - 1 : m[i] = n[i]
    <3>1. k \in 1 .. Len(n) /\ k <= Len(m) /\ m[k] # n[k] /\ Len(n) \in Nat /\ Len(m) \in Nat
      OBVIOUS
    <3>2. ASSUME NEW i \in 1 .. k - 1 PROVE m[i] = n[i]
      <4>1. i \in 1 .. Len(n) /\ i <= Len(m) /\ ~(k <= i)
        BY <3>1
      <4>2. i \notin S
        BY <2>1, <4>1
      <4> QED
        BY <4>1, <4>2
    <3> QED
      BY <3>1, <3>2
  <2>3. k - 1 \in 0 .. Len(m) /\ k - 1 \in 0 .. Len(n)
    BY <2>2
  <2>4. /\ Up(n, k - 1) \in Seq(Nat) /\ Len(Up(n, k - 1)) = k - 1
        /\ \A i \in 1 .. k - 1 : Up(n, k - 1)[i] = n[i]
    BY <2>3, UpFacts
  <2>5. /\ Up(m, k - 1) \in Seq(Nat) /\ Len(Up(m, k - 1)) = k - 1
        /\ \A i \in 1 .. k - 1 : Up(m, k - 1)[i] = m[i]
    BY <2>3, UpFacts
  <2>6. \A i \in 1 .. k - 1 : Up(m, k - 1)[i] = Up(n, k - 1)[i]
    BY <2>2, <2>4, <2>5
  <2>7. Up(m, k - 1) = Up(n, k - 1)
    BY <2>4, <2>5, <2>6, SameNode
  <2> QED
    BY <2>2, <2>7 DEF Branch
<1> QED
  BY <1>1, <1>2

-----------------------------------------------------------------------------
(* The path the indices describe. *)

LEMMA ShapeFacts ==
    ASSUME NEW nodes, NEW depth, Shape(nodes, depth), NEW n \in DOMAIN nodes
    PROVE  /\ n \in Seq(Nat) /\ Len(n) \in Nat /\ DOMAIN n = 1 .. Len(n)
           /\ nodes[n].size \in Nat /\ nodes[n].size <= MaxArrayDimension
           /\ nodes[n].index \in Nat
           /\ nodes[n].index \in 0 .. MaxArrayDimension \cup {InvalidSize}
<1>1. nodes[n] \in Cells
  BY DEF Shape
<1>2. n \in Seq(Nat)
  BY DEF Shape
<1>3. nodes[n].size \in 0 .. MaxArrayDimension /\ nodes[n].index \in 0 .. MaxArrayDimension \cup {InvalidSize}
  BY <1>1 DEF Cells
<1> QED
  BY <1>2, <1>3, NodeSourceAssumption

LEMMA AboveIsThere ==
    ASSUME NEW nodes, NEW depth, Shape(nodes, depth), NEW n \in DOMAIN nodes, NEW k \in 0 .. Len(n)
    PROVE  Up(n, k) \in DOMAIN nodes
<1>1. n \in Seq(Nat) /\ Len(n) \in Nat
  BY ShapeFacts
<1>2. CASE k = Len(n)
  BY <1>1, <1>2, UpWhole
<1>3. CASE k < Len(n)
  <2>1. k + 1 \in 1 .. Len(n) /\ (k + 1) - 1 = k
    BY <1>1, <1>3
  <2>2. Up(n, (k + 1) - 1) \in DOMAIN nodes
    BY <2>1 DEF Shape
  <2> QED
    BY <2>1, <2>2
<1> QED
  BY <1>1, <1>2, <1>3

LEMMA ChildIsBelowSize ==
    ASSUME NEW nodes, NEW depth, Shape(nodes, depth), NEW n \in DOMAIN nodes, NEW k \in 1 .. Len(n)
    PROVE  n[k] \in Nat /\ n[k] < nodes[Up(n, k - 1)].size
<1>1. n \in Seq(Nat)
  BY ShapeFacts
<1> QED
  BY <1>1 DEF Shape

LEMMA PathUp ==
    ASSUME NEW nodes, NEW depth, Shape(nodes, depth), NEW n, OnPath(nodes, n), NEW k \in 0 .. Len(n)
    PROVE  OnPath(nodes, Up(n, k))
<1>1. n \in DOMAIN nodes /\ n \in Seq(Nat) /\ DOMAIN n = 1 .. Len(n)
  BY ShapeFacts DEF OnPath
<1>2. Up(n, k) \in DOMAIN nodes
  BY <1>1, AboveIsThere
<1>3. DOMAIN Up(n, k) = 1 .. k /\ \A i \in 1 .. k : Up(n, k)[i] = n[i]
  BY <1>1, UpFacts
<1>4. ASSUME NEW i \in 1 .. k PROVE Up(n, k)[i] = nodes[Up(Up(n, k), i - 1)].index
  <2>1. i - 1 \in 0 .. k /\ i \in 1 .. Len(n)
    BY <1>1
  <2>2. Up(Up(n, k), i - 1) = Up(n, i - 1)
    BY <1>1, <2>1, UpOfUp
  <2>3. n[i] = nodes[Up(n, i - 1)].index
    BY <1>1, <2>1 DEF OnPath
  <2> QED
    BY <1>3, <2>2, <2>3
<1> QED
  BY <1>2, <1>3, <1>4 DEF OnPath

(* Two nodes of the path are on one line. *)
LEMMA PathIsLine ==
    ASSUME NEW nodes, NEW depth, Shape(nodes, depth),
           NEW m, OnPath(nodes, m), NEW n, OnPath(nodes, n), Len(m) <= Len(n)
    PROVE  m = Up(n, Len(m))
<1>1. /\ m \in DOMAIN nodes /\ m \in Seq(Nat) /\ DOMAIN m = 1 .. Len(m) /\ Len(m) \in Nat
      /\ n \in DOMAIN nodes /\ n \in Seq(Nat) /\ DOMAIN n = 1 .. Len(n) /\ Len(n) \in Nat
  BY ShapeFacts DEF OnPath
<1>2. CASE Len(n) <= Len(m) /\ n = Up(m, Len(n))
  <2>0. Len(m) \in Nat /\ Len(n) \in Nat /\ Len(n) <= Len(m)
    BY <1>1, <1>2
  <2>1. Len(n) = Len(m)
    BY <2>0
  <2> QED
    BY <1>1, <1>2, <2>1, UpWhole
<1>3. ASSUME NEW k \in 1 .. Len(n), Branch(m, n, k) PROVE FALSE
  <2>1. m[k] = nodes[Up(m, k - 1)].index /\ n[k] = nodes[Up(n, k - 1)].index
    BY <1>1, <1>3 DEF OnPath, Branch
  <2> QED
    BY <1>3, <2>1 DEF Branch
<1> QED
  BY <1>1, <1>2, <1>3, TwoNodes

(* The path goes on through the child its last node points at. *)
LEMMA PathDown ==
    ASSUME NEW nodes, NEW depth, Shape(nodes, depth), NEW n, OnPath(nodes, n),
           nodes[n].index < nodes[n].size
    PROVE  OnPath(nodes, Append(n, nodes[n].index)) /\ Len(Append(n, nodes[n].index)) = Len(n) + 1
<1>1. /\ n \in DOMAIN nodes /\ n \in Seq(Nat) /\ DOMAIN n = 1 .. Len(n) /\ Len(n) \in Nat
      /\ nodes[n].index \in Nat /\ nodes[n].size \in Nat
  BY ShapeFacts DEF OnPath
<1>2. PICK i \in Nat : i = nodes[n].index
  BY <1>1
<1>3. i \in 0 .. nodes[n].size - 1
  BY <1>1, <1>2
<1>4. PICK m : m = Append(n, i)
  OBVIOUS
<1>5. m \in DOMAIN nodes
  BY <1>1, <1>3, <1>4 DEF Shape
<1>6. /\ m \in Seq(Nat) /\ Len(m) = Len(n) + 1 /\ m[Len(n) + 1] = i
      /\ \A k \in 1 .. Len(n) : m[k] = n[k]
      /\ \A k \in 0 .. Len(n) : Up(m, k) = Up(n, k)
  BY <1>1, <1>4, AppendFacts
<1>7. ASSUME NEW k \in 1 .. Len(m) PROVE m[k] = nodes[Up(m, k - 1)].index
  <2>1. CASE k = Len(n) + 1
    <3>1. k - 1 = Len(n) /\ k - 1 \in 0 .. Len(n)
      BY <1>1, <2>1
    <3>2. Up(m, k - 1) = n
      BY <1>1, <1>6, <3>1, UpWhole
    <3> QED
      BY <1>2, <1>6, <2>1, <3>2
  <2>2. CASE k \in 1 .. Len(n)
    <3>1. k - 1 \in 0 .. Len(n)
      BY <1>1, <2>2
    <3>2. n[k] = nodes[Up(n, k - 1)].index
      BY <1>1, <2>2 DEF OnPath
    <3> QED
      BY <1>6, <2>2, <3>1, <3>2
  <2> QED
    BY <1>1, <1>6, <2>1, <2>2
<1>8. DOMAIN m = 1 .. Len(m)
  BY <1>6
<1> QED
  BY <1>2, <1>4, <1>5, <1>6, <1>7, <1>8 DEF OnPath

LEMMA RootOnPath ==
    ASSUME NEW nodes, <<>> \in DOMAIN nodes
    PROVE  OnPath(nodes, <<>>)
<1>1. DOMAIN <<>> = 1 .. Len(<<>>) /\ Len(<<>>) = 0
  OBVIOUS
<1>2. \A k \in 1 .. 0 : FALSE
  OBVIOUS
<1> QED
  BY <1>1, <1>2 DEF OnPath

PathOf(nodes) ==
    {n \in DOMAIN nodes : \A k \in DOMAIN n : n[k] = nodes[SubSeq(n, 1, k - 1)].index}
StopOf(nodes) == CHOOSE n \in PathOf(nodes) : \A m \in PathOf(nodes) : Len(m) <= Len(n)

LEMMA PathOfIs == \A nodes, n : n \in PathOf(nodes) <=> OnPath(nodes, n)
  BY DEF PathOf, OnPath, Up

(* The path ends, at a node that points at no child. *)
LEMMA StopIsThere ==
    ASSUME NEW nodes, NEW depth \in Nat, Shape(nodes, depth), <<>> \in DOMAIN nodes
    PROVE  /\ OnPath(nodes, StopOf(nodes))
           /\ ~(nodes[StopOf(nodes)].index < nodes[StopOf(nodes)].size)
           /\ \A m : OnPath(nodes, m) =>
                 Len(m) <= Len(StopOf(nodes)) /\ m = Up(StopOf(nodes), Len(m))
<1> DEFINE Lengths == {Len(n) : n \in PathOf(nodes)}
<1>1. Lengths \subseteq 0 .. depth /\ Lengths # {}
  <2>1. <<>> \in PathOf(nodes)
    BY RootOnPath, PathOfIs
  <2>2. ASSUME NEW n \in PathOf(nodes) PROVE Len(n) \in 0 .. depth
    <3>1. n \in DOMAIN nodes
      BY PathOfIs DEF OnPath
    <3>2. Len(n) \in Nat /\ Len(n) <= depth
      BY <3>1, ShapeFacts DEF Shape
    <3> QED
      BY <3>2
  <2> QED
    BY <2>1, <2>2
<1>2. PICK l \in Lengths : \A y \in Lengths : y <= l
  <2> HIDE DEF Lengths
  <2> QED
    BY <1>1, GreatestOf
<1>3. PICK n \in PathOf(nodes) : l = Len(n)
  BY <1>2
<1>4. \A m \in PathOf(nodes) : Len(m) <= Len(n)
  BY <1>2, <1>3
<1>5. /\ StopOf(nodes) \in PathOf(nodes)
      /\ \A m \in PathOf(nodes) : Len(m) <= Len(StopOf(nodes))
  BY <1>3, <1>4, Zenon DEF StopOf
<1>6. PICK s : s = StopOf(nodes)
  OBVIOUS
<1>7. OnPath(nodes, s)
  BY <1>5, <1>6, PathOfIs
<1>8. ASSUME NEW m, OnPath(nodes, m) PROVE Len(m) <= Len(s) /\ m = Up(s, Len(m))
  <2>1. m \in PathOf(nodes)
    BY <1>8, PathOfIs
  <2>2. Len(m) <= Len(s)
    BY <1>5, <1>6, <2>1
  <2> QED
    BY <1>7, <1>8, <2>2, PathIsLine
<1>9. ASSUME nodes[s].index < nodes[s].size PROVE FALSE
  <2>1. PICK m : m = Append(s, nodes[s].index)
    OBVIOUS
  <2>2. OnPath(nodes, m) /\ Len(m) = Len(s) + 1
    BY <1>7, <1>9, <2>1, PathDown
  <2>3. Len(m) <= Len(s)
    BY <1>8, <2>2
  <2>4. Len(s) \in Nat
    BY <1>7, ShapeFacts DEF OnPath
  <2> QED
    BY <2>2, <2>3, <2>4
<1> QED
  BY <1>6, <1>7, <1>8, <1>9

-----------------------------------------------------------------------------
(* One call of next_ on the root. *)

OnLast(nodes, n) == n # <<>> /\ nodes[n].index + 1 = nodes[n].size

(* Every node below n is done once n's child is. *)
Turning(nodes, n) ==
    \A m \in PathOf(nodes) \ {StopOf(nodes)} : Len(m) > Len(n) => OnLast(nodes, m)

LEMMA NextNodeIs ==
    ASSUME NEW nodes, NEW stop, stop = StopOf(nodes), nodes[stop].index # nodes[stop].size
    PROVE  NextNode(nodes) =
             [nodes |-> [n \in DOMAIN nodes |->
                 IF n \notin PathOf(nodes) \/ ~Turning(nodes, n) THEN nodes[n]
                 ELSE [nodes[n] EXCEPT !.index =
                         IF n = stop \/ (OnLast(nodes, n) /\ Turning(nodes, n)) THEN 0 ELSE @ + 1]],
              ptree |-> {stop}]
  BY Zenon DEF NextNode, PathOf, StopOf, OnLast, Turning

LEMMA NextNodeEnds ==
    ASSUME NEW nodes, nodes[StopOf(nodes)].index = nodes[StopOf(nodes)].size
    PROVE  NextNode(nodes) = [nodes |-> nodes, ptree |-> {}]
  BY Zenon DEF NextNode, PathOf, StopOf

(* The walk turns at p nodes below the root: those below start over, and   *)
(* that one points at its next child. *)
Turns(nodes, next, stop, p) ==
    /\ DOMAIN next = DOMAIN nodes
    /\ next \in [DOMAIN nodes -> Cells]
    /\ \A n \in DOMAIN nodes :
          /\ next[n].size = nodes[n].size
          /\ ~OnPath(nodes, n) => next[n] = nodes[n]
          /\ OnPath(nodes, n) /\ Len(n) < p => next[n] = nodes[n]
          /\ OnPath(nodes, n) /\ Len(n) = p /\ n # stop => next[n].index = nodes[n].index + 1
          /\ OnPath(nodes, n) /\ Len(n) > p => next[n].index = 0
          /\ OnPath(nodes, n) /\ Len(n) > p /\ n # stop => nodes[n].index + 1 = nodes[n].size
          /\ OnPath(nodes, n) /\ Len(n) = p /\ n # stop /\ p > 0 => nodes[n].index + 1 # nodes[n].size
    /\ next[stop].index = 0

LEMMA PathPoints ==
    ASSUME NEW nodes, NEW depth \in Nat, Shape(nodes, depth), <<>> \in DOMAIN nodes,
           NEW stop, stop = StopOf(nodes), NEW n, OnPath(nodes, n), n # stop
    PROVE  /\ Len(n) < Len(stop) /\ n = Up(stop, Len(n))
           /\ nodes[n].index = stop[Len(n) + 1]
           /\ nodes[n].index < nodes[n].size
<1>1. OnPath(nodes, stop) /\ Len(n) <= Len(stop) /\ n = Up(stop, Len(n))
  BY StopIsThere
<1>2. /\ stop \in DOMAIN nodes /\ stop \in Seq(Nat) /\ Len(stop) \in Nat /\ DOMAIN stop = 1 .. Len(stop)
      /\ n \in DOMAIN nodes /\ n \in Seq(Nat) /\ Len(n) \in Nat
  BY <1>1, ShapeFacts DEF OnPath
<1>3. Len(n) # Len(stop)
  BY <1>1, <1>2, UpWhole
<1>4. PICK k \in Nat : k = Len(n) + 1
  BY <1>2
<1>5. k \in 1 .. Len(stop) /\ k - 1 = Len(n)
  BY <1>1, <1>2, <1>3, <1>4
<1>6. stop[k] = nodes[Up(stop, k - 1)].index /\ stop[k] < nodes[Up(stop, k - 1)].size
  BY <1>1, <1>2, <1>5, ChildIsBelowSize DEF OnPath
<1>7. Len(n) < Len(stop)
  <2>1. Len(n) \in Nat /\ Len(stop) \in Nat /\ Len(n) <= Len(stop) /\ Len(n) # Len(stop)
    BY <1>1, <1>2, <1>3
  <2> QED
    BY <2>1
<1>8. Up(stop, k - 1) = n
  BY <1>1, <1>5
<1> QED
  BY <1>1, <1>4, <1>6, <1>7, <1>8

LEMMA TurnsSomewhere ==
    ASSUME NEW nodes, NEW depth \in Nat, Shape(nodes, depth), <<>> \in DOMAIN nodes,
           NEW stop, stop = StopOf(nodes), nodes[stop].index # nodes[stop].size
    PROVE  /\ NextNode(nodes).ptree = {stop}
           /\ \E p \in 0 .. Len(stop) :
                 Turns(nodes, NextNode(nodes).nodes, stop, p) /\ (p = Len(stop) => stop = <<>>)
<1>1. PICK next : next = [n \in DOMAIN nodes |->
                 IF n \notin PathOf(nodes) \/ ~Turning(nodes, n) THEN nodes[n]
                 ELSE [nodes[n] EXCEPT !.index =
                         IF n = stop \/ (OnLast(nodes, n) /\ Turning(nodes, n)) THEN 0 ELSE @ + 1]]
  OBVIOUS
<1>2. NextNode(nodes).nodes = next /\ NextNode(nodes).ptree = {stop}
  BY <1>1, NextNodeIs
<1>3. OnPath(nodes, stop) /\ stop \in DOMAIN nodes /\ stop \in Seq(Nat) /\ Len(stop) \in Nat
  BY StopIsThere, ShapeFacts DEF OnPath
<1>4. \A m \in PathOf(nodes) : m \in DOMAIN nodes /\ OnPath(nodes, m) /\ Len(m) \in Nat
  <2> SUFFICES ASSUME NEW m \in PathOf(nodes) PROVE m \in DOMAIN nodes /\ OnPath(nodes, m) /\ Len(m) \in Nat
    OBVIOUS
  <2>1. OnPath(nodes, m) /\ m \in DOMAIN nodes
    BY PathOfIs DEF OnPath
  <2> QED
    BY <2>1, ShapeFacts
<1> DEFINE Open == {Len(m) : m \in {n \in PathOf(nodes) : n # stop /\ ~OnLast(nodes, n)}}
<1>5. PICK p \in 0 .. Len(stop) :
         /\ p = Len(stop) => stop = <<>>
         /\ \A m \in PathOf(nodes) : Len(m) > p /\ m # stop => OnLast(nodes, m)
         /\ \A m \in PathOf(nodes) : Len(m) = p /\ m # stop => ~OnLast(nodes, m)
  <2>1. \A m \in PathOf(nodes) : m # stop => Len(m) < Len(stop) /\ m = Up(stop, Len(m))
    BY <1>4, PathPoints
  <2>2. CASE stop = <<>>
    <3>1. Len(stop) = 0
      BY <2>2
    <3>2. \A m \in PathOf(nodes) : m = stop
      BY <2>1, <3>1, <1>4
    <3> QED
      BY <2>2, <3>1, <3>2
  <2>3. CASE stop # <<>>
    <3>1. <<>> \in PathOf(nodes) /\ ~OnLast(nodes, <<>>)
      BY RootOnPath, PathOfIs DEF OnLast
    <3>2. Open \subseteq 0 .. Len(stop) /\ Open # {}
      <4>1. <<>> \in {n \in PathOf(nodes) : n # stop /\ ~OnLast(nodes, n)}
        BY <2>3, <3>1
      <4>2. ASSUME NEW m \in PathOf(nodes), m # stop PROVE Len(m) \in 0 .. Len(stop)
        BY <1>3, <1>4, <2>1, <4>2
      <4> QED
        BY <4>1, <4>2
    <3>3. PICK p \in Open : \A y \in Open : y <= p
      <4> HIDE DEF Open
      <4> QED
        BY <1>3, <3>2, GreatestOf
    <3>4. PICK o \in PathOf(nodes) : o # stop /\ ~OnLast(nodes, o) /\ p = Len(o)
      BY <3>3
    <3>5. p < Len(stop) /\ p \in 0 .. Len(stop)
      BY <3>4, <2>1, <1>3, <1>4
    <3>6. ASSUME NEW m \in PathOf(nodes), Len(m) > p, m # stop PROVE OnLast(nodes, m)
      <4>1. ASSUME ~OnLast(nodes, m) PROVE FALSE
        <5>1. Len(m) \in Open
          BY <3>6, <4>1
        <5>2. Len(m) <= p
          BY <3>3, <5>1
        <5> QED
          BY <1>3, <1>4, <3>5, <3>6, <5>2
      <4> QED
        BY <4>1
    <3>7. ASSUME NEW m \in PathOf(nodes), Len(m) = p, m # stop PROVE ~OnLast(nodes, m)
      <4>1. m = Up(stop, p) /\ o = Up(stop, p)
        BY <2>1, <3>4, <3>7
      <4> QED
        BY <3>4, <4>1
    <3> QED
      BY <3>5, <3>6, <3>7, <1>3
  <2> QED
    BY <2>2, <2>3
<1>6. ASSUME NEW n \in PathOf(nodes) PROVE Turning(nodes, n) <=> Len(n) >= p
  <2>1. CASE Len(n) >= p
    <3>1. ASSUME NEW m \in PathOf(nodes) \ {stop}, Len(m) > Len(n) PROVE OnLast(nodes, m)
      <4>1. Len(m) > p
        BY <1>3, <1>4, <2>1, <3>1
      <4> QED
        BY <1>5, <4>1
    <3> QED
      BY <2>1, <3>1 DEF Turning
  <2>2. CASE Len(n) < p
    <3>1. Up(stop, p) \in PathOf(nodes) /\ Len(Up(stop, p)) = p
      BY <1>3, PathUp, UpFacts, PathOfIs
    <3>2. Up(stop, p) # stop
      <4>1. CASE stop = <<>>
        <5>1. Len(stop) = 0
          BY <4>1
        <5> QED
          BY <5>1, <2>2, <1>3, <1>4
      <4>2. CASE stop # <<>>
        BY <4>2, <1>5, <3>1
      <4> QED
        BY <4>1, <4>2
    <3>3. ~OnLast(nodes, Up(stop, p))
      BY <1>5, <3>1, <3>2
    <3>4. ~Turning(nodes, n)
      BY <2>2, <3>1, <3>2, <3>3 DEF Turning
    <3> QED
      BY <2>2, <3>4, <1>3, <1>4
  <2> QED
    BY <2>1, <2>2, <1>3, <1>4
<1>7. DOMAIN next = DOMAIN nodes
  BY <1>1
<1>8. ASSUME NEW n \in DOMAIN nodes
      PROVE  /\ next[n] \in Cells /\ next[n].size = nodes[n].size
             /\ ~OnPath(nodes, n) => next[n] = nodes[n]
             /\ OnPath(nodes, n) /\ Len(n) < p => next[n] = nodes[n]
             /\ OnPath(nodes, n) /\ Len(n) = p /\ n # stop => next[n].index = nodes[n].index + 1
             /\ OnPath(nodes, n) /\ Len(n) > p => next[n].index = 0
             /\ OnPath(nodes, n) /\ Len(n) > p /\ n # stop => nodes[n].index + 1 = nodes[n].size
             /\ OnPath(nodes, n) /\ Len(n) = p /\ n # stop /\ p > 0 => nodes[n].index + 1 # nodes[n].size
  <2>1. nodes[n] \in Cells /\ n \in Seq(Nat) /\ Len(n) \in Nat /\ nodes[n].size \in Nat /\ nodes[n].index \in Nat
    BY ShapeFacts DEF Shape
  <2>2. CASE ~OnPath(nodes, n) \/ Len(n) < p
    <3>1. n \notin PathOf(nodes) \/ ~Turning(nodes, n)
      BY <2>2, <2>1, <1>3, <1>6, PathOfIs
    <3>2. next[n] = nodes[n]
      BY <1>1, <3>1
    <3> QED
      BY <2>1, <2>2, <3>2, <1>3
  <2>3. CASE OnPath(nodes, n) /\ Len(n) >= p
    <3>1. n \in PathOf(nodes) /\ Turning(nodes, n)
      BY <2>3, <1>6, PathOfIs
    <3>2. next[n] = [nodes[n] EXCEPT !.index =
                         IF n = stop \/ OnLast(nodes, n) THEN 0 ELSE nodes[n].index + 1]
      BY <1>1, <3>1
    <3>3. next[n].size = nodes[n].size
      BY <2>1, <3>2 DEF Cells
    <3>4. next[n].index = IF n = stop \/ OnLast(nodes, n) THEN 0 ELSE nodes[n].index + 1
      BY <2>1, <3>2 DEF Cells
    <3>5. n # stop => nodes[n].index < nodes[n].size
      BY <2>3, PathPoints
    <3>6. next[n].index \in 0 .. MaxArrayDimension
      BY <2>1, <3>4, <3>5, ShapeFacts, NodeSourceAssumption
    <3>7. next[n] \in Cells
      BY <2>1, <3>2, <3>4, <3>6 DEF Cells
    <3>8. Len(n) > p /\ n # stop => OnLast(nodes, n)
      BY <1>5, <3>1
    <3>9. Len(n) = p /\ n # stop => ~OnLast(nodes, n)
      BY <1>5, <3>1
    <3>10. Len(n) = p /\ n # stop /\ p > 0 => nodes[n].index + 1 # nodes[n].size
      <4>1. p > 0 /\ Len(n) = p => n # <<>>
        OBVIOUS
      <4> QED
        BY <3>9, <4>1 DEF OnLast
    <3> QED
      BY <2>1, <2>3, <3>3, <3>4, <3>7, <3>8, <3>9, <3>10, <1>3 DEF OnLast
  <2> QED
    BY <2>1, <2>2, <2>3, <1>3
<1>9. next[stop].index = 0
  <2>1. stop \in PathOf(nodes) /\ Turning(nodes, stop)
    BY <1>3, <1>6, PathOfIs
  <2>2. next[stop] = [nodes[stop] EXCEPT !.index = 0]
    BY <1>1, <1>3, <2>1
  <2>3. nodes[stop] \in Cells
    BY <1>3 DEF Shape
  <2> QED
    BY <2>2, <2>3 DEF Cells
<1>10. next \in [DOMAIN nodes -> Cells]
  BY <1>1, <1>7, <1>8
<1>11. Turns(nodes, next, stop, p)
  BY <1>7, <1>8, <1>9, <1>10 DEF Turns
<1> QED
  BY <1>2, <1>5, <1>11

-----------------------------------------------------------------------------
(* The turn, seen from the tree. *)

Turned(nodes, depth, stop, next, p) ==
    /\ depth \in Nat /\ Shape(nodes, depth) /\ <<>> \in DOMAIN nodes /\ Walking(nodes)
    /\ stop = StopOf(nodes) /\ nodes[stop].index # nodes[stop].size
    /\ p \in 0 .. Len(stop) /\ (p = Len(stop) => stop = <<>>)
    /\ Turns(nodes, next, stop, p)

LEMMA TurnedStop ==
    ASSUME NEW nodes, NEW depth, NEW stop, NEW next, NEW p, Turned(nodes, depth, stop, next, p)
    PROVE  /\ OnPath(nodes, stop) /\ stop \in DOMAIN nodes
           /\ stop \in Seq(Nat) /\ Len(stop) \in Nat /\ DOMAIN stop = 1 .. Len(stop)
           /\ p \in Nat /\ p <= Len(stop) /\ (p = Len(stop) => stop = <<>>)
           /\ DOMAIN next = DOMAIN nodes
           /\ \A n \in DOMAIN nodes : next[n].size = nodes[n].size
<1>1. OnPath(nodes, stop)
  BY StopIsThere DEF Turned
<1>2. stop \in DOMAIN nodes
  BY <1>1 DEF OnPath
<1>3. stop \in Seq(Nat) /\ Len(stop) \in Nat /\ DOMAIN stop = 1 .. Len(stop)
  BY <1>2, ShapeFacts DEF Turned
<1>4. p \in 0 .. Len(stop) /\ (p = Len(stop) => stop = <<>>)
  BY DEF Turned
<1>5. DOMAIN next = DOMAIN nodes /\ \A n \in DOMAIN nodes : next[n].size = nodes[n].size
  BY DEF Turned, Turns
<1>6. p \in Nat /\ p <= Len(stop)
  <2>1. Len(stop) \in Nat /\ p \in 0 .. Len(stop)
    BY <1>3, <1>4
  <2> QED
    BY <2>1
<1> QED
  BY <1>1, <1>2, <1>3, <1>4, <1>5, <1>6

LEMMA TurnedShape ==
    ASSUME NEW nodes, NEW depth, NEW stop, NEW next, NEW p, Turned(nodes, depth, stop, next, p)
    PROVE  Shape(next, depth)
<1>1. DOMAIN next = DOMAIN nodes /\ next \in [DOMAIN next -> Cells]
      /\ \A n \in DOMAIN nodes : next[n].size = nodes[n].size
  BY DEF Turned, Turns
<1>2. IsFiniteSet(DOMAIN next)
  BY <1>1 DEF Turned, Shape
<1>3. ASSUME NEW n \in DOMAIN next
      PROVE  /\ n \in Seq(Nat) /\ Len(n) <= depth
             /\ \A k \in 1 .. Len(n) : Up(n, k - 1) \in DOMAIN next /\ n[k] < next[Up(n, k - 1)].size
             /\ \A i \in 0 .. next[n].size - 1 : Append(n, i) \in DOMAIN next
  <2>1. n \in Seq(Nat) /\ Len(n) <= depth
    BY <1>1 DEF Turned, Shape
  <2>2. ASSUME NEW k \in 1 .. Len(n)
        PROVE  Up(n, k - 1) \in DOMAIN next /\ n[k] < next[Up(n, k - 1)].size
    <3>1. Up(n, k - 1) \in DOMAIN nodes /\ n[k] < nodes[Up(n, k - 1)].size
      BY <1>1 DEF Turned, Shape
    <3> QED
      BY <1>1, <3>1
  <2>3. ASSUME NEW i \in 0 .. next[n].size - 1 PROVE Append(n, i) \in DOMAIN next
    <3>1. i \in 0 .. nodes[n].size - 1
      BY <1>1
    <3> QED
      BY <1>1, <3>1 DEF Turned, Shape
  <2> QED
    BY <2>1, <2>2, <2>3
<1> QED
  BY <1>1, <1>2, <1>3 DEF Shape

LEMMA StopUnseen ==
    ASSUME NEW nodes, NEW depth \in Nat, Shape(nodes, depth), <<>> \in DOMAIN nodes, Walking(nodes),
           NEW stop, stop = StopOf(nodes), nodes[stop].index # nodes[stop].size
    PROVE  nodes[stop].size = 0 /\ nodes[stop].index = InvalidSize /\ stop \in Unseen(nodes)
<1>1. /\ OnPath(nodes, stop) /\ ~(nodes[stop].index < nodes[stop].size)
      /\ nodes[stop].index # nodes[stop].size
  BY StopIsThere
<1>2. stop \in DOMAIN nodes /\ nodes[stop].size \in Nat
  BY <1>1, ShapeFacts DEF OnPath
<1>3. ~(nodes[stop].size > 0)
  BY <1>1, <1>2 DEF Walking
<1>4. nodes[stop].size = 0
  BY <1>2, <1>3
<1>5. nodes[stop].index \in {0, InvalidSize}
  BY <1>2, <1>4 DEF Walking
<1> QED
  BY <1>1, <1>2, <1>4, <1>5 DEF Unseen

(* A node without children has none below it. *)
LEMMA NothingBelow ==
    ASSUME NEW nodes, NEW depth, Shape(nodes, depth), NEW m \in DOMAIN nodes, nodes[m].size = 0,
           NEW n \in DOMAIN nodes, Len(m) <= Len(n), m = Up(n, Len(m))
    PROVE  n = m
<1>1. /\ m \in Seq(Nat) /\ Len(m) \in Nat
      /\ n \in Seq(Nat) /\ Len(n) \in Nat
  BY ShapeFacts
<1>2. PICK l \in Nat : l = Len(m)
  BY <1>1
<1>3. CASE l = Len(n)
  BY <1>1, <1>2, <1>3, UpWhole
<1>4. CASE l < Len(n)
  <2>1. l + 1 \in 1 .. Len(n) /\ (l + 1) - 1 = l
    BY <1>1, <1>4
  <2>2. n[l + 1] \in Nat /\ n[l + 1] < nodes[Up(n, (l + 1) - 1)].size
    BY <2>1, ChildIsBelowSize
  <2>3. Up(n, (l + 1) - 1) = m
    BY <1>2, <2>1
  <2> QED
    BY <2>2, <2>3
<1> QED
  BY <1>1, <1>2, <1>3, <1>4

(* Above the turn the path is as it was. *)
LEMMA TurnedAbove ==
    ASSUME NEW nodes, NEW depth, NEW stop, NEW next, NEW p, Turned(nodes, depth, stop, next, p),
           NEW k \in 0 .. p
    PROVE  OnPath(next, Up(stop, k)) /\ OnPath(nodes, Up(stop, k)) /\ Len(Up(stop, k)) = k
<1>1. /\ OnPath(nodes, stop) /\ stop \in DOMAIN nodes /\ stop \in Seq(Nat) /\ Len(stop) \in Nat
      /\ p \in Nat /\ p <= Len(stop) /\ DOMAIN next = DOMAIN nodes
  BY TurnedStop
<1>2. k \in 0 .. Len(stop)
  BY <1>1
<1>3. /\ DOMAIN Up(stop, k) = 1 .. k /\ Len(Up(stop, k)) = k
      /\ \A i \in 1 .. k : Up(stop, k)[i] = stop[i]
  BY <1>1, <1>2, UpFacts
<1>4. OnPath(nodes, Up(stop, k))
  BY <1>1, <1>2, PathUp DEF Turned
<1>5. ASSUME NEW i \in 1 .. k PROVE Up(stop, k)[i] = next[Up(Up(stop, k), i - 1)].index
  <2>1. i - 1 \in 0 .. k /\ i - 1 \in 0 .. Len(stop) /\ i - 1 < p
    BY <1>1
  <2>2. Up(Up(stop, k), i - 1) = Up(stop, i - 1)
    BY <1>1, <1>2, <2>1, UpOfUp
  <2>3. OnPath(nodes, Up(stop, i - 1)) /\ Len(Up(stop, i - 1)) = i - 1
    BY <1>1, <2>1, PathUp, UpFacts DEF Turned
  <2>4. next[Up(stop, i - 1)] = nodes[Up(stop, i - 1)]
    BY <2>1, <2>3 DEF Turned, Turns, OnPath
  <2>5. Up(stop, k)[i] = nodes[Up(Up(stop, k), i - 1)].index
    BY <1>3, <1>4 DEF OnPath
  <2> QED
    BY <2>2, <2>4, <2>5
<1> QED
  BY <1>1, <1>3, <1>4, <1>5 DEF OnPath

LEMMA TurnedLine ==
    ASSUME NEW nodes, NEW depth, NEW stop, NEW next, NEW p, Turned(nodes, depth, stop, next, p),
           NEW m, OnPath(next, m), Len(m) <= p
    PROVE  m = Up(stop, Len(m)) /\ OnPath(nodes, m) /\ Len(m) \in 0 .. p
<1>1. stop \in Seq(Nat) /\ Len(stop) \in Nat /\ p \in Nat /\ p <= Len(stop)
  BY TurnedStop
<1>2. p \in 0 .. p /\ p \in 0 .. Len(stop)
  BY <1>1
<1>3. OnPath(next, Up(stop, p)) /\ Len(Up(stop, p)) = p
  BY <1>2, TurnedAbove
<1>4. Shape(next, depth)
  BY TurnedShape
<1>5. m = Up(Up(stop, p), Len(m))
  BY <1>3, <1>4, PathIsLine
<1>6. Len(m) \in Nat
  BY <1>4, ShapeFacts DEF OnPath
<1>7. Len(m) \in 0 .. p
  BY <1>1, <1>6
<1>8. Up(Up(stop, p), Len(m)) = Up(stop, Len(m))
  BY <1>1, <1>2, <1>7, UpOfUp
<1> QED
  BY <1>5, <1>7, <1>8, TurnedAbove

(* The turn is one of a node with children, unless the root is a leaf. *)
LEMMA TurnedAt ==
    ASSUME NEW nodes, NEW depth, NEW stop, NEW next, NEW p, Turned(nodes, depth, stop, next, p),
           stop # <<>>
    PROVE  /\ p < Len(stop) /\ p + 1 \in 1 .. Len(stop)
           /\ Up(stop, p) # stop /\ Up(stop, p) \in DOMAIN nodes
           /\ nodes[Up(stop, p)].index = stop[p + 1]
           /\ nodes[Up(stop, p)].index < nodes[Up(stop, p)].size
           /\ next[Up(stop, p)].index = stop[p + 1] + 1
           /\ p > 0 => next[Up(stop, p)].index < nodes[Up(stop, p)].size
           /\ stop[p + 1] \in Nat
<1>1. /\ stop \in Seq(Nat) /\ Len(stop) \in Nat /\ p \in Nat /\ p <= Len(stop)
      /\ (p = Len(stop) => stop = <<>>)
  BY TurnedStop
<1>2. p < Len(stop)
  <2>1. Len(stop) \in Nat /\ p \in Nat /\ p <= Len(stop) /\ p # Len(stop)
    BY <1>1
  <2> QED
    BY <2>1
<1>3. p \in 0 .. p /\ p + 1 \in 1 .. Len(stop)
  BY <1>1, <1>2
<1>4. PICK o : o = Up(stop, p)
  OBVIOUS
<1>5. OnPath(nodes, o) /\ Len(o) = p
  BY <1>3, <1>4, TurnedAbove
<1>6. o # stop
  BY <1>2, <1>1, <1>5
<1>7. o \in DOMAIN nodes
  BY <1>5 DEF OnPath
<1>8. nodes[o].index = stop[p + 1] /\ nodes[o].index < nodes[o].size
  BY <1>5, <1>6, PathPoints DEF Turned
<1>9. next[o].index = nodes[o].index + 1 /\ (p > 0 => nodes[o].index + 1 # nodes[o].size)
  BY <1>5, <1>6, <1>7 DEF Turned, Turns
<1>10. nodes[o].index \in Nat /\ nodes[o].size \in Nat
  BY <1>7, ShapeFacts DEF Turned
<1>11. p > 0 => next[o].index < nodes[o].size
  BY <1>8, <1>9, <1>10
<1> QED
  BY <1>2, <1>3, <1>4, <1>6, <1>7, <1>8, <1>9, <1>10, <1>11

(* Below the turn the path is a new one. *)
LEMMA TurnedBelow ==
    ASSUME NEW nodes, NEW depth, NEW stop, NEW next, NEW p, Turned(nodes, depth, stop, next, p),
           NEW m, OnPath(next, m), Len(m) > p
    PROVE  ~OnPath(nodes, m) /\ next[m] = nodes[m]
<1>1. /\ stop \in Seq(Nat) /\ Len(stop) \in Nat /\ p \in Nat /\ p <= Len(stop)
      /\ stop \in DOMAIN nodes /\ DOMAIN next = DOMAIN nodes /\ OnPath(nodes, stop)
  BY TurnedStop
<1>2. Shape(next, depth) /\ Shape(nodes, depth)
  BY TurnedShape DEF Turned
<1>3. m \in DOMAIN nodes /\ m \in Seq(Nat) /\ Len(m) \in Nat /\ DOMAIN m = 1 .. Len(m)
  BY <1>1, <1>2, ShapeFacts DEF OnPath
<1>4. stop # <<>>
  <2> SUFFICES ASSUME stop = <<>> PROVE FALSE
    OBVIOUS
  <2>1. nodes[stop].size = 0
    BY StopUnseen DEF Turned
  <2>2. Len(stop) = 0 /\ Len(stop) <= Len(m)
    BY <1>3
  <2>3. stop = Up(m, Len(stop))
    BY <1>3, <2>2, UpNone
  <2>4. m = stop
    BY <1>1, <1>2, <1>3, <2>1, <2>2, <2>3, NothingBelow
  <2> QED
    BY <2>2, <2>4, <1>1
<1>5. PICK q \in Nat : q = p + 1
  BY <1>1
<1>6. q \in 1 .. Len(m) /\ q - 1 = p /\ p \in 0 .. Len(m)
  BY <1>1, <1>3, <1>5
<1>7. m[q] = next[Up(m, p)].index
  BY <1>3, <1>6 DEF OnPath
<1>8. OnPath(next, Up(m, p)) /\ Len(Up(m, p)) = p
  BY <1>2, <1>3, <1>6, PathUp, UpFacts
<1>9. p <= p
  BY <1>1
<1>10. Up(m, p) = Up(stop, p)
  BY <1>8, <1>9, TurnedLine
<1>11. m[q] = stop[q] + 1 /\ stop[q] \in Nat
  BY <1>4, <1>5, <1>7, <1>10, TurnedAt
<1>12. ASSUME OnPath(nodes, m) PROVE FALSE
  <2>1. Len(m) <= Len(stop) /\ m = Up(stop, Len(m))
    BY <1>12, StopIsThere DEF Turned
  <2>2. Len(m) \in 0 .. Len(stop)
    BY <1>1, <1>3, <2>1
  <2>3. Up(stop, Len(m))[q] = stop[q]
    BY <1>1, <1>6, <2>2, UpFacts
  <2>4. m[q] = stop[q]
    BY <2>1, <2>3
  <2> QED
    BY <1>11, <2>4
<1>13. next[m] = nodes[m]
  BY <1>3, <1>12 DEF Turned, Turns
<1> QED
  BY <1>12, <1>13

-----------------------------------------------------------------------------
(* What the walk has left behind. *)

LEMMA LeftStaysLeft ==
    ASSUME NEW nodes, NEW depth, NEW stop, NEW next, NEW p, Turned(nodes, depth, stop, next, p),
           stop # <<>>, NEW n \in DOMAIN nodes, LeftOfPath(nodes, n)
    PROVE  LeftOfPath(next, n)
<1>1. /\ stop \in Seq(Nat) /\ Len(stop) \in Nat /\ p \in Nat /\ p <= Len(stop)
      /\ OnPath(nodes, stop) /\ DOMAIN next = DOMAIN nodes
  BY TurnedStop
<1>2. n \in Seq(Nat) /\ Len(n) \in Nat /\ DOMAIN n = 1 .. Len(n)
  BY ShapeFacts DEF Turned
<1>3. PICK k \in 1 .. Len(n) : OnPath(nodes, Up(n, k - 1)) /\ n[k] < nodes[Up(n, k - 1)].index
  BY <1>2 DEF LeftOfPath
<1>4. PICK u \in Nat : u = k - 1
  BY <1>2
<1>5. u \in 0 .. Len(n) /\ Len(Up(n, u)) = u /\ n[k] \in Nat
  <2>1. u \in 0 .. Len(n)
    BY <1>2, <1>4
  <2>2. n[k] \in Nat
    BY ChildIsBelowSize DEF Turned
  <2> QED
    BY <1>2, <2>1, <2>2, UpFacts
<1>6. PICK o : o = Up(n, u)
  OBVIOUS
<1>7. OnPath(nodes, o) /\ n[k] < nodes[o].index /\ Len(o) = u /\ o \in DOMAIN nodes
  BY <1>3, <1>4, <1>5, <1>6 DEF OnPath
<1>8. u <= Len(stop) /\ o = Up(stop, u)
  BY <1>7, StopIsThere DEF Turned
<1>9. PICK t : t = Up(stop, p)
  OBVIOUS
<1>10. /\ p + 1 \in 1 .. Len(stop) /\ t # stop
       /\ nodes[t].index = stop[p + 1] /\ next[t].index = stop[p + 1] + 1 /\ stop[p + 1] \in Nat
  BY <1>9, TurnedAt
<1>11. p \in 0 .. p /\ (u <= p => u \in 0 .. p)
  BY <1>1
<1>12. CASE u < p
  <2>1. OnPath(next, o)
    BY <1>8, <1>11, <1>12, TurnedAbove
  <2>2. next[o] = nodes[o]
    BY <1>7, <1>12 DEF Turned, Turns
  <2> QED
    BY <1>2, <1>4, <1>6, <1>7, <2>1, <2>2 DEF LeftOfPath
<1>13. CASE u = p
  <2>1. OnPath(next, o) /\ o = t
    BY <1>8, <1>9, <1>11, <1>13, TurnedAbove
  <2>2. n[k] < next[o].index
    BY <1>5, <1>7, <1>10, <2>1
  <2> QED
    BY <1>2, <1>4, <1>6, <2>1, <2>2 DEF LeftOfPath
<1>14. CASE u > p
  <2>1. PICK q \in Nat : q = p + 1
    BY <1>1
  <2>2. q \in 1 .. u /\ q \in 1 .. Len(n) /\ q - 1 = p /\ p \in 0 .. u
    BY <1>1, <1>5, <1>14, <2>1
  <2>3. u \in 0 .. Len(stop) /\ p \in 0 .. Len(stop)
    BY <1>1, <1>8
  <2>4. o[q] = stop[q] /\ o[q] = n[q]
    BY <1>1, <1>2, <1>5, <1>6, <1>8, <2>2, <2>3, UpFacts
  <2>5. Up(n, p) = t
    <3>1. Up(Up(n, u), p) = Up(n, p)
      BY <1>2, <1>5, <2>2, UpOfUp
    <3>2. Up(Up(stop, u), p) = Up(stop, p)
      BY <1>1, <2>2, <2>3, UpOfUp
    <3> QED
      BY <1>6, <1>8, <1>9, <3>1, <3>2
  <2>6. OnPath(next, t)
    BY <1>9, <1>11, TurnedAbove
  <2>7. n[q] < next[t].index
    BY <1>10, <2>1, <2>4
  <2> QED
    BY <1>2, <2>2, <2>5, <2>6, <2>7 DEF LeftOfPath
<1> QED
  BY <1>1, <1>12, <1>13, <1>14

LEMMA StopIsLeft ==
    ASSUME NEW nodes, NEW depth, NEW stop, NEW next, NEW p, Turned(nodes, depth, stop, next, p),
           stop # <<>>
    PROVE  LeftOfPath(next, stop)
<1>1. stop \in Seq(Nat) /\ Len(stop) \in Nat /\ DOMAIN stop = 1 .. Len(stop) /\ p \in Nat
  BY TurnedStop
<1>2. PICK q \in Nat : q = p + 1
  BY <1>1
<1>3. q \in 1 .. Len(stop) /\ q - 1 = p /\ next[Up(stop, p)].index = stop[q] + 1 /\ stop[q] \in Nat
  BY <1>1, <1>2, TurnedAt
<1>4. p \in 0 .. p
  BY <1>1
<1>5. OnPath(next, Up(stop, p))
  BY <1>4, TurnedAbove
<1>6. stop[q] < next[Up(stop, p)].index
  BY <1>3
<1> QED
  BY <1>1, <1>3, <1>5, <1>6 DEF LeftOfPath

LEMMA LeftWasLeft ==
    ASSUME NEW nodes, NEW depth, NEW stop, NEW next, NEW p, Turned(nodes, depth, stop, next, p),
           stop # <<>>, NEW n \in DOMAIN nodes, nodes[n].size = 0, n # stop, LeftOfPath(next, n)
    PROVE  LeftOfPath(nodes, n)
<1>1. /\ stop \in Seq(Nat) /\ Len(stop) \in Nat /\ p \in Nat /\ p <= Len(stop)
      /\ OnPath(nodes, stop) /\ DOMAIN next = DOMAIN nodes
      /\ stop \in DOMAIN nodes /\ DOMAIN stop = 1 .. Len(stop)
  BY TurnedStop
<1>2. n \in Seq(Nat) /\ Len(n) \in Nat /\ DOMAIN n = 1 .. Len(n)
  BY ShapeFacts DEF Turned
<1>3. PICK k \in 1 .. Len(n) : OnPath(next, Up(n, k - 1)) /\ n[k] < next[Up(n, k - 1)].index
  BY <1>1, <1>2 DEF LeftOfPath
<1>4. PICK u \in Nat : u = k - 1
  BY <1>2
<1>5. u \in 0 .. Len(n) /\ Len(Up(n, u)) = u /\ n[k] \in Nat /\ k = u + 1
  <2>1. u \in 0 .. Len(n) /\ k = u + 1
    BY <1>2, <1>4
  <2>2. n[k] \in Nat
    BY ChildIsBelowSize DEF Turned
  <2> QED
    BY <1>2, <2>1, <2>2, UpFacts
<1>6. PICK o : o = Up(n, u)
  OBVIOUS
<1>7. OnPath(next, o) /\ n[k] < next[o].index /\ Len(o) = u /\ o \in DOMAIN nodes
  BY <1>1, <1>3, <1>4, <1>5, <1>6 DEF OnPath
<1>8. /\ p + 1 \in 1 .. Len(stop)
      /\ nodes[Up(stop, p)].index = stop[p + 1] /\ next[Up(stop, p)].index = stop[p + 1] + 1
      /\ stop[p + 1] \in Nat
  BY TurnedAt
<1>9. nodes[stop].size = 0
  BY StopUnseen DEF Turned
<1>10. CASE u < p
  <2>0. Len(o) <= p
    BY <1>1, <1>7, <1>10
  <2>1. OnPath(nodes, o)
    BY <1>7, <2>0, TurnedLine
  <2>2. next[o] = nodes[o]
    BY <1>7, <1>10, <2>1 DEF Turned, Turns
  <2> QED
    BY <1>2, <1>4, <1>6, <1>7, <2>1, <2>2 DEF LeftOfPath
<1>11. CASE u > p
  <2>1. next[o] = nodes[o] /\ ~OnPath(nodes, o)
    BY <1>7, <1>11, TurnedBelow
  <2>2. n[k] < nodes[o].size
    BY <1>2, <1>4, <1>6, ChildIsBelowSize DEF Turned
  <2>3. nodes[o].size \in Nat
    BY <1>7, ShapeFacts DEF Turned
  <2>4. nodes[o].size > 0
    BY <1>5, <2>2, <2>3
  <2>5. nodes[o].index = 0
    BY <1>7, <2>1, <2>4 DEF Turned, Walking
  <2> QED
    BY <1>5, <1>7, <2>1, <2>5
<1>12. CASE u = p
  <2>1. u <= p
    BY <1>12, <1>1
  <2>2. o = Up(stop, p) /\ OnPath(nodes, o)
    BY <1>7, <1>12, <2>1, TurnedLine
  <2>3. nodes[o].index = stop[k] /\ n[k] <= stop[k] /\ stop[k] \in Nat /\ k \in 1 .. Len(stop)
    BY <1>5, <1>7, <1>8, <1>12, <2>2
  <2>4. CASE n[k] < stop[k]
    BY <1>2, <1>4, <1>6, <2>2, <2>3, <2>4 DEF LeftOfPath
  <2>5. CASE n[k] = stop[k]
    <3>1. CASE Len(stop) <= Len(n) /\ stop = Up(n, Len(stop))
      BY <1>1, <1>9, <3>1, NothingBelow DEF Turned
    <3>2. CASE Len(n) <= Len(stop) /\ n = Up(stop, Len(n))
      BY <1>1, <3>2, NothingBelow DEF Turned
    <3>3. ASSUME NEW d \in 1 .. Len(n), Branch(stop, n, d) PROVE LeftOfPath(nodes, n)
      <4>1. d \in 1 .. Len(stop) /\ Up(stop, d - 1) = Up(n, d - 1) /\ stop[d] # n[d]
        BY <3>3 DEF Branch
      <4>2. PICK e \in Nat : e = d - 1
        BY <4>1, <1>1
      <4>3. e \in 0 .. Len(stop) /\ e \in 0 .. Len(n)
        BY <4>1, <4>2, <1>1, <1>2
      <4>4. e > p
        <5>1. CASE d < k
          <6>1. d \in 1 .. u
            BY <5>1, <1>5
          <6>2. o[d] = n[d]
            BY <1>2, <1>5, <1>6, <6>1, UpFacts
          <6>3. o[d] = stop[d]
            <7>1. p \in 0 .. Len(stop) /\ d \in 1 .. p
              BY <1>1, <1>12, <6>1
            <7> QED
              BY <1>1, <2>2, <7>1, UpFacts
          <6> QED
            BY <4>1, <6>2, <6>3
        <5>2. CASE d = k
          BY <2>5, <4>1, <5>2
        <5>3. CASE d > k
          BY <5>3, <1>5, <1>12, <4>2
        <5> QED
          BY <5>1, <5>2, <5>3, <1>5, <4>2
      <4>5. PICK a : a = Up(stop, e)
        OBVIOUS
      <4>6. OnPath(nodes, a) /\ Len(a) = e /\ a \in DOMAIN nodes /\ a = Up(n, e)
        <5>1. OnPath(nodes, Up(stop, e)) /\ Len(Up(stop, e)) = e
          BY <1>1, <4>3, PathUp, UpFacts DEF Turned
        <5>2. Up(stop, e) = Up(n, e)
          BY <4>1, <4>2
        <5> QED
          BY <4>5, <5>1, <5>2 DEF OnPath
      <4>7. e < Len(stop)
        BY <4>1, <4>2, <1>1
      <4>8. a # stop
        BY <4>6, <4>7
      <4>9. nodes[a].index + 1 = nodes[a].size
        BY <4>4, <4>6, <4>8 DEF Turned, Turns
      <4>10. nodes[a].index = stop[d]
        <5>1. stop[d] = nodes[Up(stop, d - 1)].index
          BY <1>1, <4>1 DEF OnPath
        <5> QED
          BY <4>2, <4>5, <5>1
      <4>11. n[d] \in Nat /\ n[d] < nodes[a].size
        BY <4>2, <4>6, ChildIsBelowSize DEF Turned
      <4>12. nodes[a].index \in Nat /\ nodes[a].size \in Nat
        BY <4>6, ShapeFacts DEF Turned
      <4>13. n[d] < nodes[a].index
        BY <4>1, <4>9, <4>10, <4>11, <4>12
      <4> QED
        BY <1>2, <4>2, <4>6, <4>13 DEF LeftOfPath
    <3> QED
      BY <1>1, <1>2, <3>1, <3>2, <3>3, TwoNodes
  <2> QED
    BY <1>5, <2>3, <2>4, <2>5
<1> QED
  BY <1>1, <1>10, <1>11, <1>12

-----------------------------------------------------------------------------
(* A call of next_ that finds a node hands out the leftmost one it has yet *)
(* to pass, and that one only.                                             *)

LEMMA TurnedWalking ==
    ASSUME NEW nodes, NEW depth, NEW stop, NEW next, NEW p, Turned(nodes, depth, stop, next, p)
    PROVE  Walking(next)
<1>1. /\ stop \in Seq(Nat) /\ Len(stop) \in Nat /\ p \in Nat /\ p <= Len(stop)
      /\ OnPath(nodes, stop) /\ DOMAIN next = DOMAIN nodes /\ stop \in DOMAIN nodes
      /\ \A n \in DOMAIN nodes : next[n].size = nodes[n].size
  BY TurnedStop
<1>2. nodes[stop].size = 0 /\ next[stop].index = 0
  BY StopUnseen DEF Turned, Turns
<1>3. CASE stop = <<>>
  <2>1. ASSUME NEW n \in DOMAIN nodes PROVE n = stop
    <3>1. n \in Seq(Nat) /\ Len(n) \in Nat
      BY ShapeFacts DEF Turned
    <3>2. Len(stop) = 0 /\ Len(stop) <= Len(n) /\ stop = Up(n, Len(stop))
      BY <1>3, <3>1, UpNone
    <3> QED
      BY <1>1, <1>2, <3>2, NothingBelow DEF Turned
  <2>2. ~(nodes[stop].size > 0)
    BY <1>2
  <2> QED
    BY <1>1, <1>2, <1>3, <2>1, <2>2 DEF Walking
<1>4. CASE stop # <<>>
  <2> SUFFICES ASSUME NEW n \in DOMAIN nodes
               PROVE  /\ next[n].size > 0 =>
                           IF OnPath(next, n)
                           THEN next[n].index < next[n].size \/ (n = <<>> /\ next[n].index = next[n].size)
                           ELSE next[n].index = 0
                      /\ next[n].size = 0 =>
                           IF n = <<>> THEN next[n].index \in {0, InvalidSize}
                           ELSE next[n].index = IF LeftOfPath(next, n) THEN 0 ELSE InvalidSize
    BY <1>1 DEF Walking
  <2>1. /\ n \in Seq(Nat) /\ Len(n) \in Nat /\ nodes[n].size \in Nat /\ nodes[n].index \in Nat
        /\ next[n].size = nodes[n].size
    BY <1>1, ShapeFacts DEF Turned
  <2>2. ASSUME next[n].size > 0, OnPath(next, n)
        PROVE  next[n].index < next[n].size \/ (n = <<>> /\ next[n].index = next[n].size)
    <3>1. CASE Len(n) < p
      <4>0. Len(n) <= p
        BY <1>1, <2>1, <3>1
      <4>1. OnPath(nodes, n)
        BY <2>2, <4>0, TurnedLine
      <4>2. next[n] = nodes[n]
        BY <3>1, <4>1 DEF Turned, Turns
      <4> QED
        BY <2>1, <2>2, <4>1, <4>2 DEF Turned, Walking
    <3>2. CASE Len(n) = p
      <4>0. Len(n) <= p
        BY <1>1, <2>1, <3>2
      <4>1. n = Up(stop, p)
        BY <2>2, <3>2, <4>0, TurnedLine
      <4>2. /\ nodes[n].index < nodes[n].size
            /\ nodes[n].index = stop[p + 1] /\ next[n].index = stop[p + 1] + 1
            /\ p > 0 => next[n].index < nodes[n].size
        BY <1>4, <4>1, TurnedAt
      <4>3. CASE p > 0
        BY <2>1, <4>2, <4>3
      <4>4. CASE p = 0
        <5>1. n = <<>>
          BY <1>1, <4>1, <4>4, UpNone
        <5>2. next[n].index <= next[n].size
          <6>1. next[n].index = nodes[n].index + 1
            BY <4>2
          <6> QED
            BY <2>1, <4>2, <6>1
        <5>3. next[n].index \in Nat
          BY <4>2, <2>1
        <5> QED
          BY <2>1, <5>1, <5>2, <5>3
      <4> QED
        BY <1>1, <4>3, <4>4
    <3>3. CASE Len(n) > p
      <4>1. ~OnPath(nodes, n) /\ next[n] = nodes[n]
        BY <2>2, <3>3, TurnedBelow
      <4>2. nodes[n].index = 0
        BY <2>1, <2>2, <4>1 DEF Turned, Walking
      <4> QED
        BY <2>2, <4>1, <4>2
    <3> QED
      BY <1>1, <2>1, <3>1, <3>2, <3>3
  <2>3. ASSUME next[n].size > 0, ~OnPath(next, n)
        PROVE  next[n].index = 0
    <3>1. CASE ~OnPath(nodes, n)
      <4>1. next[n] = nodes[n]
        BY <3>1 DEF Turned, Turns
      <4> QED
        BY <2>1, <2>3, <3>1, <4>1 DEF Turned, Walking
    <3>2. CASE OnPath(nodes, n) /\ Len(n) > p
      BY <3>2 DEF Turned, Turns
    <3>3. CASE OnPath(nodes, n) /\ Len(n) <= p
      <4>1. n = Up(stop, Len(n))
        BY <3>3, StopIsThere DEF Turned
      <4>2. Len(n) \in 0 .. p
        BY <1>1, <2>1, <3>3
      <4>3. OnPath(next, n)
        BY <4>1, <4>2, TurnedAbove
      <4> QED
        BY <2>3, <4>3
    <3> QED
      BY <1>1, <2>1, <3>1, <3>2, <3>3
  <2>4. ASSUME next[n].size = 0, n = <<>>
        PROVE  next[n].index \in {0, InvalidSize}
    <3>1. Len(n) = 0 /\ Len(n) <= Len(stop) /\ n = Up(stop, Len(n))
      BY <1>1, <2>4, UpNone
    <3>2. stop = n
      BY <1>1, <2>1, <2>4, <3>1, NothingBelow DEF Turned
    <3> QED
      BY <1>2, <3>2
  <2>5. ASSUME next[n].size = 0, n # <<>>
        PROVE  next[n].index = IF LeftOfPath(next, n) THEN 0 ELSE InvalidSize
    <3>1. CASE n = stop
      BY <1>2, <1>4, <3>1, StopIsLeft
    <3>2. CASE n # stop
      <4>1. ~OnPath(nodes, n)
        <5> SUFFICES ASSUME OnPath(nodes, n) PROVE FALSE
          OBVIOUS
        <5>1. nodes[n].index < nodes[n].size
          BY <3>2, PathPoints DEF Turned
        <5> QED
          BY <2>1, <2>5, <5>1
      <4>2. next[n] = nodes[n]
        BY <4>1 DEF Turned, Turns
      <4>3. nodes[n].index = IF LeftOfPath(nodes, n) THEN 0 ELSE InvalidSize
        BY <2>1, <2>5 DEF Turned, Walking
      <4>4. LeftOfPath(nodes, n) <=> LeftOfPath(next, n)
        BY <1>4, <2>1, <2>5, <3>2, LeftStaysLeft, LeftWasLeft
      <4> QED
        BY <4>2, <4>3, <4>4
    <3> QED
      BY <3>1, <3>2
  <2> QED
    BY <2>2, <2>3, <2>4, <2>5
<1> QED
  BY <1>3, <1>4

LEMMA TurnedUnseen ==
    ASSUME NEW nodes, NEW depth, NEW stop, NEW next, NEW p, Turned(nodes, depth, stop, next, p)
    PROVE  Unseen(next) = Unseen(nodes) \ {stop}
<1>1. /\ OnPath(nodes, stop) /\ DOMAIN next = DOMAIN nodes /\ stop \in DOMAIN nodes
      /\ \A n \in DOMAIN nodes : next[n].size = nodes[n].size
  BY TurnedStop
<1>2. next[stop].index = 0 /\ InvalidSize # 0
  BY NodeSourceAssumption DEF Turned, Turns
<1>3. ASSUME NEW n \in DOMAIN nodes, n # stop, nodes[n].size = 0
      PROVE  next[n] = nodes[n]
  <2>1. ~OnPath(nodes, n)
    <3> SUFFICES ASSUME OnPath(nodes, n) PROVE FALSE
      OBVIOUS
    <3>1. nodes[n].index < nodes[n].size
      BY <1>3, PathPoints DEF Turned
    <3>2. nodes[n].index \in Nat
      BY ShapeFacts DEF Turned
    <3> QED
      BY <1>3, <3>1, <3>2
  <2> QED
    BY <2>1 DEF Turned, Turns
<1> QED
  BY <1>1, <1>2, <1>3 DEF Unseen

LEMMA StopIsFirst ==
    ASSUME NEW nodes, NEW depth \in Nat, Shape(nodes, depth), <<>> \in DOMAIN nodes, Walking(nodes),
           NEW stop, stop = StopOf(nodes), nodes[stop].index # nodes[stop].size,
           NEW n \in Unseen(nodes), n # stop
    PROVE  Order!Before(stop, n)
<1>1. OnPath(nodes, stop) /\ stop \in DOMAIN nodes
  BY StopIsThere DEF OnPath
<1>2. /\ stop \in Seq(Nat) /\ Len(stop) \in Nat /\ DOMAIN stop = 1 .. Len(stop)
      /\ nodes[stop].size = 0
  BY <1>1, ShapeFacts, StopUnseen
<1>3. n \in DOMAIN nodes /\ nodes[n].size = 0 /\ nodes[n].index = InvalidSize
  BY DEF Unseen
<1>4. n \in Seq(Nat) /\ Len(n) \in Nat /\ DOMAIN n = 1 .. Len(n)
  BY <1>3, ShapeFacts
<1>5. CASE Len(stop) <= Len(n) /\ stop = Up(n, Len(stop))
  BY <1>1, <1>2, <1>3, <1>5, NothingBelow
<1>6. CASE Len(n) <= Len(stop) /\ n = Up(stop, Len(n))
  BY <1>1, <1>3, <1>6, NothingBelow
<1>7. ASSUME NEW d \in 1 .. Len(n), Branch(stop, n, d) PROVE Order!Before(stop, n)
  <2>1. d \in 1 .. Len(stop) /\ Up(stop, d - 1) = Up(n, d - 1) /\ stop[d] # n[d]
    BY <1>7 DEF Branch
  <2>2. n # <<>>
    BY <1>7
  <2>3. ~LeftOfPath(nodes, n)
    <3>1. nodes[n].index = IF LeftOfPath(nodes, n) THEN 0 ELSE InvalidSize
      BY <1>3, <2>2 DEF Walking
    <3> QED
      BY <1>3, <3>1, NodeSourceAssumption
  <2>4. PICK e \in Nat : e = d - 1
    BY <2>1, <1>2
  <2>5. e \in 0 .. Len(stop) /\ e \in 0 .. Len(n)
    BY <2>1, <2>4, <1>2, <1>4
  <2>6. OnPath(nodes, Up(n, e))
    BY <1>1, <2>1, <2>4, <2>5, PathUp
  <2>7. stop[d] = nodes[Up(n, e)].index
    BY <1>1, <1>2, <2>1, <2>4 DEF OnPath
  <2>8. ~(n[d] < stop[d])
    BY <1>4, <1>7, <2>3, <2>4, <2>6, <2>7 DEF LeftOfPath
  <2>9. n[d] \in Nat /\ stop[d] \in Nat
    BY <1>2, <1>4, <2>1
  <2>10. stop[d] < n[d]
    BY <2>1, <2>8, <2>9
  <2>11. ASSUME NEW j \in 1 .. d - 1 PROVE stop[j] = n[j]
    <3>1. j \in 1 .. e
      BY <2>4, <2>11
    <3>2. Up(stop, e)[j] = stop[j]
      BY <1>2, <2>5, <3>1, UpFacts
    <3>3. Up(n, e)[j] = n[j]
      BY <1>4, <2>5, <3>1, UpFacts
    <3> QED
      BY <2>1, <2>4, <3>2, <3>3
  <2>12. d \in DOMAIN stop \cap DOMAIN n
    BY <1>2, <1>4, <2>1
  <2> QED
    BY <2>10, <2>11, <2>12 DEF Order!Before
<1> QED
  BY <1>2, <1>4, <1>5, <1>6, <1>7, TwoNodes

(* The root that is used up has nothing left to hand out. *)
LEMMA NothingUnseen ==
    ASSUME NEW nodes, NEW depth \in Nat, Shape(nodes, depth), <<>> \in DOMAIN nodes, Walking(nodes),
           nodes[StopOf(nodes)].index = nodes[StopOf(nodes)].size
    PROVE  Unseen(nodes) = {}
<1>1. PICK stop : stop = StopOf(nodes)
  OBVIOUS
<1>2. OnPath(nodes, stop) /\ stop \in DOMAIN nodes /\ nodes[stop].index = nodes[stop].size
  BY <1>1, StopIsThere DEF OnPath
<1>3. /\ stop \in Seq(Nat) /\ Len(stop) \in Nat /\ DOMAIN stop = 1 .. Len(stop)
      /\ nodes[stop].size \in Nat
  BY <1>2, ShapeFacts
<1>4. stop = <<>>
  <2>1. CASE nodes[stop].size > 0
    BY <1>2, <1>3, <2>1 DEF Walking
  <2>2. CASE nodes[stop].size = 0
    <3> SUFFICES ASSUME stop # <<>> PROVE FALSE
      OBVIOUS
    <3>1. LeftOfPath(nodes, stop)
      <4>1. nodes[stop].index = IF LeftOfPath(nodes, stop) THEN 0 ELSE InvalidSize
        BY <1>2, <2>2 DEF Walking
      <4> QED
        BY <1>2, <2>2, <4>1, NodeSourceAssumption
    <3>2. PICK k \in DOMAIN stop : stop[k] < nodes[Up(stop, k - 1)].index
      BY <3>1 DEF LeftOfPath
    <3>3. stop[k] = nodes[Up(stop, k - 1)].index /\ stop[k] \in Nat
      BY <1>2, <1>3 DEF OnPath
    <3> QED
      BY <3>2, <3>3
  <2> QED
    BY <1>3, <2>1, <2>2
<1>5. ASSUME NEW n \in Unseen(nodes) PROVE FALSE
  <2>1. n \in DOMAIN nodes /\ nodes[n].size = 0 /\ nodes[n].index = InvalidSize
    BY DEF Unseen
  <2>2. n \in Seq(Nat) /\ Len(n) \in Nat /\ DOMAIN n = 1 .. Len(n)
    BY <2>1, ShapeFacts
  <2>3. CASE n = <<>>
    BY <1>2, <1>4, <2>1, <2>3, NodeSourceAssumption
  <2>4. CASE n # <<>>
    <3>1. 1 \in 1 .. Len(n) /\ 1 - 1 = 0
      BY <2>2, <2>4
    <3>2. Up(n, 0) = <<>>
      BY <2>2, UpNone
    <3>3. n[1] < nodes[<<>>].size
      <4>1. n[1] < nodes[Up(n, 1 - 1)].size
        BY <2>1, <3>1, ChildIsBelowSize
      <4> QED
        BY <3>1, <3>2, <4>1
    <3>4. n[1] < nodes[Up(n, 1 - 1)].index /\ OnPath(nodes, Up(n, 1 - 1))
      BY <1>2, <1>4, <3>1, <3>2, <3>3
    <3>5. LeftOfPath(nodes, n)
      BY <2>2, <3>1, <3>4 DEF LeftOfPath
    <3>6. nodes[n].index = 0
      BY <2>1, <2>4, <3>5 DEF Walking
    <3> QED
      BY <2>1, <3>6, NodeSourceAssumption
  <2> QED
    BY <2>3, <2>4
<1> QED
  BY <1>5

-----------------------------------------------------------------------------
(* The calls of next_ until it finds a node that is no array. *)

(* The tree before call c, and the calls f from a tree on. *)
TreeAt(root, f, c) == IF c = 0 THEN root ELSE f[c - 1].nodes
CallsFrom(root, f, last) == \A c \in 0 .. last : f[c] = NextNode(TreeAt(root, f, c))

Takes(f, depth, c) == \A node \in f[c].ptree : ~(Len(node) < depth)
First(f, depth, c) == Takes(f, depth, c) /\ \A b \in 0 .. c - 1 : ~Takes(f, depth, b)

LEMMA CallsExist ==
    ASSUME NEW root, NEW last \in Nat
    PROVE  \E f : f = [c \in 0 .. last |-> NextNode(TreeAt(root, f, c))]
<1> DEFINE Has(n) == \E f : f = [c \in 0 .. n |-> NextNode(TreeAt(root, f, c))]
           Lacking == {n \in Nat : ~Has(n)}
<1>1. Has(0)
  <2>1. PICK f : f = [c \in 0 .. 0 |-> NextNode(root)]
    OBVIOUS
  <2>2. \A c \in 0 .. 0 : TreeAt(root, f, c) = root
    BY DEF TreeAt
  <2>3. f = [c \in 0 .. 0 |-> NextNode(TreeAt(root, f, c))]
    BY <2>1, <2>2
  <2> QED
    BY <2>3
<1>2. ASSUME NEW n \in Nat, Has(n) PROVE Has(n + 1)
  <2>1. PICK f : f = [c \in 0 .. n |-> NextNode(TreeAt(root, f, c))]
    BY <1>2
  <2>2. PICK g : g = [c \in 0 .. n + 1 |-> IF c <= n THEN f[c] ELSE NextNode(f[n].nodes)]
    OBVIOUS
  <2>3. ASSUME NEW c \in 0 .. n + 1 PROVE g[c] = NextNode(TreeAt(root, g, c))
    <3>1. CASE c = 0
      <4>1. g[c] = f[c] /\ c \in 0 .. n
        BY <2>2, <3>1
      <4>2. TreeAt(root, g, c) = root /\ TreeAt(root, f, c) = root
        BY <3>1 DEF TreeAt
      <4> QED
        BY <2>1, <4>1, <4>2
    <3>2. CASE c # 0 /\ c <= n
      <4>1. c \in 0 .. n /\ c - 1 \in 0 .. n + 1 /\ c - 1 <= n
        BY <3>2
      <4>2. g[c] = f[c] /\ g[c - 1] = f[c - 1]
        BY <2>2, <3>2, <4>1
      <4>3. TreeAt(root, g, c) = TreeAt(root, f, c)
        BY <3>2, <4>2 DEF TreeAt
      <4> QED
        BY <2>1, <4>1, <4>2, <4>3
    <3>3. CASE c = n + 1
      <4>1. n \in 0 .. n + 1 /\ c - 1 = n /\ c # 0 /\ ~(c <= n)
        BY <3>3
      <4>2. g[n] = f[n]
        BY <2>2, <4>1
      <4>3. TreeAt(root, g, c) = f[n].nodes
        BY <4>1, <4>2 DEF TreeAt
      <4> QED
        BY <2>2, <4>1, <4>3
    <3> QED
      BY <3>1, <3>2, <3>3
  <2>4. g = [c \in 0 .. n + 1 |-> NextNode(TreeAt(root, g, c))]
    BY <2>2, <2>3
  <2> QED
    BY <2>4
<1>3. Has(last)
  <2> SUFFICES ASSUME ~Has(last) PROVE FALSE
    OBVIOUS
  <2> HIDE DEF Has
  <2>1. Lacking \subseteq Nat /\ Lacking # {}
    OBVIOUS
  <2>2. PICK n \in Lacking : \A y \in Lacking : n <= y
    <3> HIDE DEF Lacking
    <3> QED
      BY <2>1, LeastOf
  <2>3. n # 0
    BY <1>1, <2>2
  <2>4. n \in Nat /\ ~Has(n) /\ n - 1 \in Nat /\ (n - 1) + 1 = n
    BY <2>2, <2>3
  <2>5. Has(n - 1)
    BY <2>2, <2>4
  <2>6. Has((n - 1) + 1)
    BY <1>2, <2>4, <2>5
  <2> QED
    BY <2>4, <2>6
<1> QED
  BY <1>3

(* Before call c, c arrays without elements have been passed. *)
Passed(root, depth, f, c) ==
    /\ Shape(TreeAt(root, f, c), depth)
    /\ DOMAIN TreeAt(root, f, c) = DOMAIN root
    /\ \A n \in DOMAIN root : TreeAt(root, f, c)[n].size = root[n].size
    /\ Walking(TreeAt(root, f, c))
    /\ Unseen(TreeAt(root, f, c)) \subseteq Unseen(root)
    /\ \A n \in Unseen(root) : ~(Len(n) < depth) => n \in Unseen(TreeAt(root, f, c))
    /\ Cardinality(Unseen(TreeAt(root, f, c))) + c <= Cardinality(DOMAIN root)

LEMMA UnseenIsFinite ==
    ASSUME NEW nodes, NEW depth, Shape(nodes, depth)
    PROVE  /\ IsFiniteSet(Unseen(nodes)) /\ Cardinality(Unseen(nodes)) \in Nat
           /\ Cardinality(DOMAIN nodes) \in Nat
           /\ Cardinality(Unseen(nodes)) <= Cardinality(DOMAIN nodes)
           /\ \A s \in Unseen(nodes) : Cardinality(Unseen(nodes) \ {s}) = Cardinality(Unseen(nodes)) - 1
<1>1. Unseen(nodes) \subseteq DOMAIN nodes /\ IsFiniteSet(DOMAIN nodes)
  BY DEF Unseen, Shape
<1>2. /\ IsFiniteSet(Unseen(nodes))
      /\ Cardinality(Unseen(nodes)) <= Cardinality(DOMAIN nodes)
  BY <1>1, FS_Subset
<1> QED
  BY <1>1, <1>2, FS_CardinalityType, FS_RemoveElement

LEMMA CallOutcome ==
    ASSUME NEW nodes, NEW depth \in Nat, Shape(nodes, depth), <<>> \in DOMAIN nodes, Walking(nodes)
    PROVE  \/ NextNode(nodes) = [nodes |-> nodes, ptree |-> {}] /\ Unseen(nodes) = {}
           \/ \E stop \in Unseen(nodes) :
                 /\ NextNode(nodes).ptree = {stop}
                 /\ Shape(NextNode(nodes).nodes, depth)
                 /\ DOMAIN NextNode(nodes).nodes = DOMAIN nodes
                 /\ \A n \in DOMAIN nodes : NextNode(nodes).nodes[n].size = nodes[n].size
                 /\ Walking(NextNode(nodes).nodes)
                 /\ Unseen(NextNode(nodes).nodes) = Unseen(nodes) \ {stop}
                 /\ \A n \in Unseen(nodes) : n # stop => Order!Before(stop, n)
<1>1. PICK stop : stop = StopOf(nodes)
  OBVIOUS
<1>2. CASE nodes[stop].index = nodes[stop].size
  BY <1>1, <1>2, NextNodeEnds, NothingUnseen
<1>3. CASE nodes[stop].index # nodes[stop].size
  <2>1. PICK next : next = NextNode(nodes).nodes
    OBVIOUS
  <2>2. PICK p \in 0 .. Len(stop) : Turns(nodes, next, stop, p) /\ (p = Len(stop) => stop = <<>>)
    BY <1>1, <1>3, <2>1, TurnsSomewhere
  <2>3. Turned(nodes, depth, stop, next, p)
    BY <1>1, <1>3, <2>2 DEF Turned
  <2>4. NextNode(nodes).ptree = {stop}
    BY <1>1, <1>3, TurnsSomewhere
  <2>5. stop \in Unseen(nodes)
    BY <1>1, <1>3, StopUnseen
  <2>6. Shape(next, depth) /\ Walking(next) /\ Unseen(next) = Unseen(nodes) \ {stop}
    BY <2>3, TurnedShape, TurnedWalking, TurnedUnseen
  <2>7. DOMAIN next = DOMAIN nodes /\ \A n \in DOMAIN nodes : next[n].size = nodes[n].size
    BY <2>3, TurnedStop
  <2>8. \A n \in Unseen(nodes) : n # stop => Order!Before(stop, n)
    BY <1>1, <1>3, StopIsFirst
  <2> QED
    BY <2>1, <2>4, <2>5, <2>6, <2>7, <2>8
<1> QED
  BY <1>2, <1>3

LEMMA PassedOne ==
    ASSUME NEW root, NEW depth \in Nat, Shape(root, depth), <<>> \in DOMAIN root,
           NEW f, NEW c \in Nat, f[c] = NextNode(TreeAt(root, f, c)),
           Passed(root, depth, f, c), ~Takes(f, depth, c)
    PROVE  Passed(root, depth, f, c + 1)
<1>1. PICK nodes : nodes = TreeAt(root, f, c)
  OBVIOUS
<1>2. PICK next : next = TreeAt(root, f, c + 1)
  OBVIOUS
<1>3. next = NextNode(nodes).nodes /\ f[c] = NextNode(nodes)
  <2>1. c + 1 # 0 /\ (c + 1) - 1 = c
    OBVIOUS
  <2> QED
    BY <1>1, <1>2, <2>1 DEF TreeAt
<1>4. /\ Shape(nodes, depth) /\ DOMAIN nodes = DOMAIN root
      /\ \A n \in DOMAIN root : nodes[n].size = root[n].size
      /\ Walking(nodes) /\ Unseen(nodes) \subseteq Unseen(root)
      /\ \A n \in Unseen(root) : ~(Len(n) < depth) => n \in Unseen(nodes)
      /\ Cardinality(Unseen(nodes)) + c <= Cardinality(DOMAIN root)
  BY <1>1 DEF Passed
<1>5. PICK node \in NextNode(nodes).ptree : Len(node) < depth
  BY <1>3 DEF Takes
<1>6. ~(NextNode(nodes) = [nodes |-> nodes, ptree |-> {}])
  BY <1>5
<1>7. PICK stop \in Unseen(nodes) :
         /\ NextNode(nodes).ptree = {stop}
         /\ Shape(next, depth) /\ DOMAIN next = DOMAIN nodes
         /\ \A n \in DOMAIN nodes : next[n].size = nodes[n].size
         /\ Walking(next)
         /\ Unseen(next) = Unseen(nodes) \ {stop}
  BY <1>3, <1>4, <1>6, CallOutcome
<1>8. Len(stop) < depth
  BY <1>5, <1>7
<1>9. Cardinality(Unseen(next)) + (c + 1) <= Cardinality(DOMAIN root)
  <2>1. Cardinality(Unseen(next)) = Cardinality(Unseen(nodes)) - 1
    BY <1>4, <1>7, UnseenIsFinite
  <2>2. Cardinality(Unseen(nodes)) \in Nat /\ Cardinality(DOMAIN root) \in Nat
    BY <1>4, UnseenIsFinite
  <2> QED
    BY <1>4, <2>1, <2>2
<1>10. \A n \in Unseen(root) : ~(Len(n) < depth) => n \in Unseen(next)
  BY <1>4, <1>7, <1>8
<1> QED
  BY <1>2, <1>4, <1>7, <1>9, <1>10 DEF Passed

LEMMA PassedAll ==
    ASSUME NEW root, NEW depth \in Nat, Shape(root, depth), <<>> \in DOMAIN root, Walking(root),
           NEW f, NEW last \in Nat, CallsFrom(root, f, last),
           NEW c \in 0 .. last + 1, \A b \in 0 .. c - 1 : ~Takes(f, depth, b)
    PROVE  Passed(root, depth, f, c)
<1> DEFINE Missing == {b \in 0 .. c : ~Passed(root, depth, f, b)}
<1>1. Passed(root, depth, f, 0)
  <2>1. TreeAt(root, f, 0) = root
    BY DEF TreeAt
  <2>2. Cardinality(Unseen(root)) + 0 <= Cardinality(DOMAIN root)
    BY UnseenIsFinite
  <2> QED
    BY <2>1, <2>2 DEF Passed
<1>2. Missing = {}
  <2> SUFFICES ASSUME Missing # {} PROVE FALSE
    OBVIOUS
  <2>1. Missing \subseteq Nat
    OBVIOUS
  <2>2. PICK b \in Missing : \A y \in Missing : b <= y
    <3> HIDE DEF Missing
    <3> QED
      BY <2>1, LeastOf
  <2>3. b # 0
    BY <1>1, <2>2
  <2>4. b \in 0 .. c /\ b - 1 \in Nat /\ b - 1 \in 0 .. last /\ b - 1 \in 0 .. c - 1 /\ (b - 1) + 1 = b
    BY <2>2, <2>3
  <2>5. b - 1 \in 0 .. c /\ ~(b <= b - 1)
    BY <2>4
  <2>6. Passed(root, depth, f, b - 1)
    BY <2>2, <2>5
  <2>7. f[b - 1] = NextNode(TreeAt(root, f, b - 1)) /\ ~Takes(f, depth, b - 1)
    BY <2>4 DEF CallsFrom
  <2>8. Passed(root, depth, f, (b - 1) + 1)
    BY <2>4, <2>6, <2>7, PassedOne
  <2> QED
    BY <2>2, <2>4, <2>8
<1>3. c \in 0 .. c
  OBVIOUS
<1> QED
  BY <1>2, <1>3

(* The calls come to a node that is taken before they run out. *)
LEMMA SomeCallTakes ==
    ASSUME NEW root, NEW depth \in Nat, Shape(root, depth), <<>> \in DOMAIN root, Walking(root),
           NEW f, NEW last, last = Cardinality(DOMAIN root), CallsFrom(root, f, last)
    PROVE  last \in Nat /\ \E c \in 0 .. last : First(f, depth, c)
<1>1. last \in Nat
  BY UnseenIsFinite
<1> DEFINE Taking == {c \in 0 .. last : Takes(f, depth, c)}
<1>2. Taking # {}
  <2> SUFFICES ASSUME Taking = {} PROVE FALSE
    OBVIOUS
  <2>1. last + 1 \in 0 .. last + 1 /\ (last + 1) - 1 = last
    BY <1>1
  <2>2. \A b \in 0 .. (last + 1) - 1 : ~Takes(f, depth, b)
    BY <2>1
  <2>3. Passed(root, depth, f, last + 1)
    BY <1>1, <2>1, <2>2, PassedAll
  <2>4. PICK nodes : nodes = TreeAt(root, f, last + 1)
    OBVIOUS
  <2>5. Shape(nodes, depth) /\ Cardinality(Unseen(nodes)) + (last + 1) <= last
    BY <2>3, <2>4 DEF Passed
  <2>6. Cardinality(Unseen(nodes)) \in Nat
    BY <2>5, UnseenIsFinite
  <2> QED
    BY <1>1, <2>5, <2>6
<1>3. Taking \subseteq Nat
  OBVIOUS
<1>4. PICK c \in Taking : \A y \in Taking : c <= y
  <2> HIDE DEF Taking
  <2> QED
    BY <1>2, <1>3, LeastOf
<1>5. \A b \in 0 .. c - 1 : b \in 0 .. last /\ ~(c <= b)
  BY <1>1, <1>4
<1>6. \A b \in 0 .. c - 1 : ~Takes(f, depth, b)
  BY <1>4, <1>5
<1> QED
  BY <1>1, <1>4, <1>6 DEF First

(* What the calls hand out between them: the first leaf not handed out. *)
Handed(root, depth, nodes, ptree) ==
    /\ Shape(nodes, depth) /\ DOMAIN nodes = DOMAIN root
    /\ \A n \in DOMAIN root : nodes[n].size = root[n].size
    /\ Walking(nodes)
    /\ \/ ptree = {} /\ \A n \in Unseen(root) : Len(n) < depth
       \/ \E s \in Unseen(root) :
             /\ ptree = {s} /\ ~(Len(s) < depth)
             /\ \A n \in Unseen(root) : ~(Len(n) < depth) => n = s \/ Order!Before(s, n)
             /\ \A n \in DOMAIN root : ~(Len(n) < depth) =>
                   (n \in Unseen(nodes) <=> n \in Unseen(root) /\ n # s)

LEMMA CallsHand ==
    ASSUME NEW root, NEW depth \in Nat, Shape(root, depth), <<>> \in DOMAIN root, Walking(root),
           NEW f, NEW last \in Nat, CallsFrom(root, f, last), NEW c \in 0 .. last, First(f, depth, c)
    PROVE  Handed(root, depth, f[c].nodes, f[c].ptree)
<1>1. c \in 0 .. last + 1
  OBVIOUS
<1>2. Passed(root, depth, f, c) /\ Takes(f, depth, c)
  BY <1>1, PassedAll DEF First
<1>3. PICK nodes : nodes = TreeAt(root, f, c)
  OBVIOUS
<1>4. f[c] = NextNode(nodes)
  BY <1>3 DEF CallsFrom
<1>5. /\ Shape(nodes, depth) /\ DOMAIN nodes = DOMAIN root
      /\ \A n \in DOMAIN root : nodes[n].size = root[n].size
      /\ Walking(nodes) /\ Unseen(nodes) \subseteq Unseen(root)
      /\ \A n \in Unseen(root) : ~(Len(n) < depth) => n \in Unseen(nodes)
  BY <1>2, <1>3 DEF Passed
<1>6. CASE NextNode(nodes) = [nodes |-> nodes, ptree |-> {}] /\ Unseen(nodes) = {}
  <2>1. f[c].nodes = nodes /\ f[c].ptree = {}
    BY <1>4, <1>6
  <2>2. \A n \in Unseen(root) : Len(n) < depth
    BY <1>5, <1>6
  <2> QED
    BY <1>5, <2>1, <2>2 DEF Handed
<1>7. ASSUME NEW stop \in Unseen(nodes),
             /\ NextNode(nodes).ptree = {stop}
             /\ Shape(NextNode(nodes).nodes, depth)
             /\ DOMAIN NextNode(nodes).nodes = DOMAIN nodes
             /\ \A n \in DOMAIN nodes : NextNode(nodes).nodes[n].size = nodes[n].size
             /\ Walking(NextNode(nodes).nodes)
             /\ Unseen(NextNode(nodes).nodes) = Unseen(nodes) \ {stop}
             /\ \A n \in Unseen(nodes) : n # stop => Order!Before(stop, n)
      PROVE  Handed(root, depth, f[c].nodes, f[c].ptree)
  <2>1. PICK next : next = NextNode(nodes).nodes
    OBVIOUS
  <2>2. f[c].nodes = next /\ f[c].ptree = {stop}
    BY <1>4, <1>7, <2>1
  <2>3. ~(Len(stop) < depth)
    BY <1>2, <2>2 DEF Takes
  <2>4. stop \in Unseen(root)
    BY <1>5
  <2>5. \A n \in Unseen(root) : ~(Len(n) < depth) => n = stop \/ Order!Before(stop, n)
    BY <1>5, <1>7
  <2>6. \A n \in DOMAIN root : ~(Len(n) < depth) =>
           (n \in Unseen(next) <=> n \in Unseen(root) /\ n # stop)
    BY <1>5, <1>7, <2>1
  <2>7. Shape(next, depth) /\ DOMAIN next = DOMAIN root /\ Walking(next)
        /\ \A n \in DOMAIN root : next[n].size = root[n].size
    BY <1>5, <1>7, <2>1
  <2> QED
    BY <2>2, <2>3, <2>4, <2>5, <2>6, <2>7 DEF Handed
<1> QED
  BY <1>5, <1>6, <1>7, CallOutcome

LEMMA OnlyOne == ASSUME NEW v PROVE (CHOOSE result \in {NextNode(nodes) : nodes \in {v}} : TRUE) = NextNode(v)
<1>1. \A y : y \in {NextNode(nodes) : nodes \in {v}} <=> y = NextNode(v)
  OBVIOUS
<1> QED
  BY <1>1

LEMMA NextHands ==
    ASSUME Shape(m_root, Len(declaration)), Len(declaration) \in Nat, <<>> \in DOMAIN m_root,
           Walking(m_root), next_
    PROVE  /\ Handed(m_root, Len(declaration), m_root', m_ptree')
           /\ status' = (IF m_ptree' = {} THEN "end" ELSE "ready")
           /\ UNCHANGED <<declaration, m_captured_index, loops>>
<1> DEFINE Calls == 0..Cardinality(DOMAIN m_root)
           call[c \in Calls] ==
               CHOOSE result \in {NextNode(nodes) : nodes \in {IF c = 0 THEN m_root ELSE call[c - 1].nodes}} : TRUE
           Accepted(c) == \A node \in call[c].ptree : ~is_array(node)
           last == call[CHOOSE c \in Calls : Accepted(c) /\ \A b \in 0..(c - 1) : ~Accepted(b)]
<1>1. /\ m_root' = last.nodes
      /\ m_ptree' = last.ptree
      /\ status' = (IF last.ptree = {} THEN "end" ELSE "ready")
      /\ UNCHANGED <<declaration, m_captured_index, loops>>
  BY Zenon DEF next_
<1>2. PICK root : root = m_root
  OBVIOUS
<1>3. PICK depth \in Nat : depth = Len(declaration)
  OBVIOUS
<1>4. PICK top \in Nat : top = Cardinality(DOMAIN root)
  BY <1>2, UnseenIsFinite
<1>5. PICK f : f = [c \in 0 .. top |-> NextNode(TreeAt(root, f, c))]
  BY CallsExist
<1>6. f = [c \in 0 .. top |->
             CHOOSE result \in {NextNode(nodes) : nodes \in {IF c = 0 THEN m_root ELSE f[c - 1].nodes}} : TRUE]
  <2>1. ASSUME NEW c \in 0 .. top
        PROVE  NextNode(TreeAt(root, f, c)) =
               CHOOSE result \in {NextNode(nodes) : nodes \in {IF c = 0 THEN m_root ELSE f[c - 1].nodes}} : TRUE
    <3>1. PICK v : v = IF c = 0 THEN m_root ELSE f[c - 1].nodes
      OBVIOUS
    <3>2. TreeAt(root, f, c) = v
      BY <1>2, <3>1 DEF TreeAt
    <3>3. NextNode(v) = CHOOSE result \in {NextNode(nodes) : nodes \in {v}} : TRUE
      BY OnlyOne
    <3> QED
      BY <3>1, <3>2, <3>3
  <2> QED
    BY <1>5, <2>1
<1>7. Calls = 0 .. top
  BY <1>2, <1>4
<1>8. call = [c \in Calls |->
             CHOOSE result \in {NextNode(nodes) : nodes \in {IF c = 0 THEN m_root ELSE call[c - 1].nodes}} : TRUE]
  <2> HIDE DEF Calls
  <2>1. \E g : g = [c \in Calls |->
             CHOOSE result \in {NextNode(nodes) : nodes \in {IF c = 0 THEN m_root ELSE g[c - 1].nodes}} : TRUE]
    BY <1>6, <1>7
  <2> QED
    BY <2>1, Zenon
<1> HIDE DEF call
<1>9. ASSUME NEW c \in 0 .. top PROVE call[c] = NextNode(TreeAt(root, call, c))
  <2>1. PICK v : v = IF c = 0 THEN m_root ELSE call[c - 1].nodes
    OBVIOUS
  <2>2. TreeAt(root, call, c) = v
    BY <1>2, <2>1 DEF TreeAt
  <2>3. call[c] = CHOOSE result \in {NextNode(nodes) : nodes \in {v}} : TRUE
    BY <1>7, <1>8, <2>1
  <2> QED
    BY <2>2, <2>3, OnlyOne
<1>10. CallsFrom(root, call, top)
  BY <1>9 DEF CallsFrom
<1>11. \A c : Accepted(c) <=> Takes(call, depth, c)
  BY <1>3 DEF Takes, is_array
<1>12. \E c \in 0 .. top : First(call, depth, c)
  BY <1>2, <1>3, <1>4, <1>10, SomeCallTakes
<1> DEFINE chosen == CHOOSE c \in Calls : Accepted(c) /\ \A b \in 0..(c - 1) : ~Accepted(b)
<1>13. PICK c : c = chosen
  OBVIOUS
<1>14. c \in 0 .. top /\ First(call, depth, c)
  <2>1. \A d : First(call, depth, d) <=> Accepted(d) /\ \A b \in 0..(d - 1) : ~Accepted(b)
    <3> HIDE DEF Accepted
    <3> QED
      BY <1>11 DEF First
  <2>2. \E d \in Calls : Accepted(d) /\ \A b \in 0..(d - 1) : ~Accepted(b)
    <3> HIDE DEF Accepted, Calls
    <3> QED
      BY <1>7, <1>12, <2>1
  <2>3. c \in Calls /\ Accepted(c) /\ \A b \in 0..(c - 1) : ~Accepted(b)
    <3> HIDE DEF Accepted, Calls
    <3> QED
      BY <1>13, <2>2, Zenon
  <2> HIDE DEF Accepted, Calls
  <2> QED
    BY <1>7, <2>1, <2>3
<1>15. last = call[c]
  BY <1>13, Zenon
<1>16. Handed(root, depth, call[c].nodes, call[c].ptree)
  BY <1>2, <1>3, <1>10, <1>14, CallsHand
<1> HIDE DEF last
<1>17. m_root' = call[c].nodes /\ m_ptree' = call[c].ptree
  BY <1>1, <1>15
<1> QED
  BY <1>1, <1>2, <1>3, <1>15, <1>16, <1>17

-----------------------------------------------------------------------------
(* The extents of dimensions. *)

LEMMA NarrowExtent ==
    ASSUME NEW v \in Int
    PROVE  narrow(v) = Thrown \/ \E n \in Nat : narrow(v) = Extent(n)
<1>1. v < 0 => narrow(v) = Thrown
  BY DEF narrow
<1>2. ~(v < 0) => narrow(v) = Extent(v) /\ v \in Nat
  BY DEF narrow
<1> QED
  BY <1>1, <1>2

LEMMA ReferenceExtent ==
    ASSUME NEW name, NEW captured
    PROVE  \/ pr_use_capture_node_reference_(name, captured) \in {Rejected, Thrown}
           \/ \E n \in Nat : pr_use_capture_node_reference_(name, captured) = Extent(n)
<1>1. PICK named : named = {i \in DOMAIN Siblings : Siblings[i].name = name}
  OBVIOUS
<1>2. CASE named = {}
  BY <1>1, <1>2 DEF pr_use_capture_node_reference_
<1>3. CASE named # {}
  <2>0. DOMAIN Siblings \subseteq Nat
    BY ShapesAssumption
  <2>1. named \subseteq Nat
    BY <1>1, <2>0
  <2>2. PICK x \in named : \A y \in named : x <= y
    BY <1>3, <2>1, LeastOf
  <2>3. PICK c : c = CHOOSE i \in named : \A j \in named : i <= j
    OBVIOUS
  <2>4. c \in named
    BY <2>2, <2>3, Zenon
  <2>5. PICK node : node = Siblings[c]
    OBVIOUS
  <2>6. node \in [name : STRING, type : STRING, data : Seq(Int)]
    <3>1. PICK T : T = [name : STRING, type : STRING, data : Seq(Int)]
      OBVIOUS
    <3>2. Siblings \in Seq(T)
      BY <3>1, ShapesAssumption
    <3>3. c \in DOMAIN Siblings
      BY <1>1, <2>4
    <3>4. Siblings[c] \in T
      BY <3>2, <3>3
    <3> QED
      BY <2>5, <3>1, <3>4
  <2>7. pr_use_capture_node_reference_(name, captured) =
          (IF captured \notin 0..(Len(node.data) - 1) \/ node.type # "int" THEN Thrown
           ELSE narrow(node.data[captured + 1]))
    <3>1. {i \in DOMAIN Siblings : Siblings[i].name = name} # {}
      BY <1>1, <1>3
    <3>2. node = Siblings[CHOOSE i \in {h \in DOMAIN Siblings : Siblings[h].name = name} :
                            \A j \in {h \in DOMAIN Siblings : Siblings[h].name = name} : i <= j]
      BY <1>1, <2>3, <2>5, Zenon
    <3> HIDE <1>1, <2>3, <2>5
    <3> QED
      BY <3>1, <3>2 DEF pr_use_capture_node_reference_
  <2>8. CASE captured \in 0 .. (Len(node.data) - 1)
    <3>1. node.data \in Seq(Int)
      BY <2>6
    <3>2. node.data[captured + 1] \in Int
      BY <2>8, <3>1
    <3> QED
      BY <2>7, <3>2, NarrowExtent
  <2> QED
    BY <2>7, <2>8
<1> QED
  BY <1>2, <1>3

LEMMA SuffixExtent ==
    ASSUME NEW dim \in Dimensions, NEW captured
    PROVE  \/ pr_array_suffix_(dim, captured) \in {Rejected, Thrown}
           \/ \E n \in Nat : pr_array_suffix_(dim, captured) = Extent(n)
<1>1. dim.kind \in {"standard", "use_capture", "query_reader", "malformed"}
  BY DEF Dimensions
<1>2. dim.kind = "standard" => dim.value \in Int
  BY DEF Dimensions
<1>3. FooterBytes \in Int
  BY NodeSourceAssumption
<1>4. CASE dim.kind = "standard"
  <2>1. pr_array_suffix_(dim, captured) = narrow(dim.value)
    BY <1>4 DEF pr_array_suffix_
  <2> QED
    BY <1>2, <1>4, <2>1, NarrowExtent
<1>5. CASE dim.kind = "use_capture"
  <2>1. pr_array_suffix_(dim, captured) = pr_use_capture_node_reference_(dim.ref, captured)
    BY <1>5 DEF pr_array_suffix_
  <2> QED
    BY <2>1, ReferenceExtent
<1>6. CASE dim.kind = "query_reader"
  <2>1. pr_array_suffix_(dim, captured) = narrow(FooterBytes)
    BY <1>6 DEF pr_array_suffix_
  <2> QED
    BY <1>3, <2>1, NarrowExtent
<1>7. CASE dim.kind = "malformed"
  BY <1>7 DEF pr_array_suffix_
<1> QED
  BY <1>1, <1>4, <1>5, <1>6, <1>7

LEMMA ParsedExtent ==
    ASSUME NEW dim \in Dimensions, NEW captured, NEW parsed, parsed = pr_array_suffix_(dim, captured)
    PROVE  /\ parsed.is # "size" => parsed.is \in {"rejected", "thrown"}
           /\ parsed.is = "size" => parsed.n \in Nat /\ parsed = Extent(parsed.n)
<1>1. CASE parsed \in {Rejected, Thrown}
  BY <1>1 DEF Rejected, Thrown
<1>2. ASSUME NEW n \in Nat, parsed = Extent(n)
      PROVE  parsed.is = "size" /\ parsed.n \in Nat /\ parsed = Extent(parsed.n)
  <2>1. parsed.is = "size" /\ parsed.n = n
    BY <1>2 DEF Extent
  <2> QED
    BY <1>2, <2>1
<1> QED
  BY <1>1, <1>2, SuffixExtent

LEMMA CaptureIsBoolean == ASSUME NEW dim \in Dimensions PROVE is_capture(dim) \in BOOLEAN
  BY DEF Dimensions, is_capture

-----------------------------------------------------------------------------
(* The tree grows by one child. *)

Grew(nodes, depth, parent, child, cell, grown) ==
    /\ Shape(grown, depth) /\ DOMAIN grown = DOMAIN nodes \cup {child}
    /\ child \notin DOMAIN nodes /\ Len(child) = Len(parent) + 1 /\ child \in Seq(Nat)
    /\ grown[child] = cell
    /\ \A n \in DOMAIN nodes :
          /\ grown[n].index = nodes[n].index
          /\ grown[n].size = IF n = parent THEN nodes[n].size + 1 ELSE nodes[n].size

LEMMA Grows ==
    ASSUME NEW nodes, NEW depth \in Nat, Shape(nodes, depth), NEW parent \in DOMAIN nodes,
           Len(parent) < depth, nodes[parent].size < MaxArrayDimension,
           NEW child, child = Append(parent, nodes[parent].size),
           NEW cell \in Cells, cell.size = 0,
           NEW grown, grown = WithNode([nodes EXCEPT ![parent].size = @ + 1], child, cell)
    PROVE  Grew(nodes, depth, parent, child, cell, grown)
<1>1. /\ parent \in Seq(Nat) /\ Len(parent) \in Nat /\ nodes[parent].size \in Nat
      /\ nodes[parent].size <= MaxArrayDimension
  BY ShapeFacts
<1>2. PICK i \in Nat : i = nodes[parent].size
  BY <1>1
<1>3. /\ child \in Seq(Nat) /\ Len(child) = Len(parent) + 1 /\ child[Len(parent) + 1] = i
      /\ \A k \in 1 .. Len(parent) : child[k] = parent[k]
      /\ \A k \in 0 .. Len(parent) : Up(child, k) = Up(parent, k)
  BY <1>1, <1>2, AppendFacts
<1>4. Up(child, Len(parent)) = parent
  <2>1. Up(parent, Len(parent)) = parent
    BY <1>1, UpWhole
  <2>2. Len(parent) \in 0 .. Len(parent)
    BY <1>1
  <2> QED
    BY <1>3, <2>1, <2>2
<1>5. child \notin DOMAIN nodes
  <2> SUFFICES ASSUME child \in DOMAIN nodes PROVE FALSE
    OBVIOUS
  <2>1. PICK k \in 1 .. Len(child) : k = Len(parent) + 1 /\ k - 1 = Len(parent)
    BY <1>1, <1>3
  <2>2. child[k] < nodes[Up(child, k - 1)].size
    BY <2>1, ChildIsBelowSize
  <2> QED
    BY <1>2, <1>3, <1>4, <2>1, <2>2
<1>6. PICK larger : larger = [nodes EXCEPT ![parent].size = @ + 1]
  OBVIOUS
<1>7. /\ DOMAIN larger = DOMAIN nodes
      /\ \A n \in DOMAIN nodes : n # parent => larger[n] = nodes[n]
      /\ larger[parent] = [nodes[parent] EXCEPT !.size = i + 1]
  BY <1>2, <1>6
<1>8. /\ DOMAIN grown = DOMAIN nodes \cup {child}
      /\ grown[child] = cell
      /\ \A n \in DOMAIN nodes : grown[n] = larger[n]
  <2>1. grown = [n \in DOMAIN larger \cup {child} |-> IF n = child THEN cell ELSE larger[n]]
    BY <1>6 DEF WithNode
  <2> QED
    BY <1>5, <1>7, <2>1
<1>9. nodes[parent] \in Cells /\ i + 1 \in 0 .. MaxArrayDimension
  <2>1. MaxArrayDimension \in Nat
    BY NodeSourceAssumption
  <2> QED
    BY <1>2, <2>1 DEF Shape
<1>10. /\ larger[parent] \in Cells /\ larger[parent].size = i + 1
       /\ larger[parent].index = nodes[parent].index
  BY <1>7, <1>9 DEF Cells
<1>11. \A n \in DOMAIN nodes :
          /\ grown[n] \in Cells
          /\ grown[n].index = nodes[n].index
          /\ grown[n].size = IF n = parent THEN nodes[n].size + 1 ELSE nodes[n].size
  <2> SUFFICES ASSUME NEW n \in DOMAIN nodes
               PROVE  /\ grown[n] \in Cells
                      /\ grown[n].index = nodes[n].index
                      /\ grown[n].size = IF n = parent THEN nodes[n].size + 1 ELSE nodes[n].size
    OBVIOUS
  <2>1. nodes[n] \in Cells
    BY DEF Shape
  <2>2. CASE n = parent
    BY <1>2, <1>8, <1>10, <2>2
  <2>3. CASE n # parent
    BY <1>7, <1>8, <2>1, <2>3
  <2> QED
    BY <2>2, <2>3
<1>12. Shape(grown, depth)
  <2>1. IsFiniteSet(DOMAIN grown)
    <3>1. IsFiniteSet(DOMAIN nodes)
      BY DEF Shape
    <3>2. IsFiniteSet(DOMAIN nodes \cup {child})
      BY <3>1, FS_AddElement
    <3> QED
      BY <1>8, <3>2
  <2>2. grown \in [DOMAIN grown -> Cells]
    <3>1. grown = [x \in DOMAIN grown |-> grown[x]]
      <4>1. grown = [n \in DOMAIN larger \cup {child} |-> IF n = child THEN cell ELSE larger[n]]
        BY <1>6 DEF WithNode
      <4> QED
        BY <4>1, ZenonT(20)
    <3>2. \A x \in DOMAIN grown : grown[x] \in Cells
      BY <1>8, <1>11
    <3> QED
      BY <3>1, <3>2
  <2>3. ASSUME NEW n \in DOMAIN nodes
        PROVE  /\ n \in Seq(Nat) /\ Len(n) <= depth
               /\ \A k \in 1 .. Len(n) : Up(n, k - 1) \in DOMAIN grown /\ n[k] < grown[Up(n, k - 1)].size
               /\ \A j \in 0 .. grown[n].size - 1 : Append(n, j) \in DOMAIN grown
    <3>1. n \in Seq(Nat) /\ Len(n) <= depth /\ nodes[n].size \in Nat
      BY ShapeFacts DEF Shape
    <3>2. ASSUME NEW k \in 1 .. Len(n)
          PROVE  Up(n, k - 1) \in DOMAIN grown /\ n[k] < grown[Up(n, k - 1)].size
      <4>1. PICK u : u = Up(n, k - 1)
        OBVIOUS
      <4>2. u \in DOMAIN nodes /\ n[k] < nodes[u].size /\ n[k] \in Nat /\ nodes[u].size \in Nat
        BY <4>1, ChildIsBelowSize, ShapeFacts DEF Shape
      <4>3. grown[u].size = IF u = parent THEN nodes[u].size + 1 ELSE nodes[u].size
        BY <1>11, <4>2
      <4> QED
        BY <1>8, <4>1, <4>2, <4>3
    <3>3. ASSUME NEW j \in 0 .. grown[n].size - 1 PROVE Append(n, j) \in DOMAIN grown
      <4>1. CASE j \in 0 .. nodes[n].size - 1
        <5>1. Append(n, j) \in DOMAIN nodes
          BY <4>1 DEF Shape
        <5> QED
          BY <1>8, <5>1
      <4>2. CASE j \notin 0 .. nodes[n].size - 1
        <5>1. n = parent
          BY <1>11, <4>2
        <5>2. grown[n].size = nodes[n].size + 1
          BY <1>11, <5>1
        <5>3. j \in 0 .. nodes[n].size
          BY <3>1, <5>2
        <5>4. j = nodes[n].size
          BY <3>1, <4>2, <5>3
        <5> QED
          BY <1>8, <5>1, <5>4
      <4> QED
        BY <4>1, <4>2
    <3> QED
      BY <3>1, <3>2, <3>3
  <2>4. /\ child \in Seq(Nat) /\ Len(child) <= depth
        /\ \A k \in 1 .. Len(child) : Up(child, k - 1) \in DOMAIN grown /\ child[k] < grown[Up(child, k - 1)].size
        /\ \A j \in 0 .. grown[child].size - 1 : Append(child, j) \in DOMAIN grown
    <3>1. Len(child) <= depth
      BY <1>1, <1>3
    <3>2. ASSUME NEW k \in 1 .. Len(child)
          PROVE  Up(child, k - 1) \in DOMAIN grown /\ child[k] < grown[Up(child, k - 1)].size
      <4>1. CASE k = Len(parent) + 1
        <5>1. k - 1 = Len(parent)
          BY <1>1, <4>1
        <5>2. Up(child, k - 1) = parent /\ child[k] = i
          BY <1>3, <1>4, <4>1, <5>1
        <5>3. grown[parent].size = i + 1
          BY <1>2, <1>11
        <5> QED
          BY <1>2, <1>8, <5>2, <5>3
      <4>2. CASE k \in 1 .. Len(parent)
        <5>1. k - 1 \in 0 .. Len(parent)
          BY <1>1, <4>2
        <5>2. Up(child, k - 1) = Up(parent, k - 1) /\ child[k] = parent[k]
          BY <1>3, <4>2, <5>1
        <5>3. Up(parent, k - 1) \in DOMAIN grown /\ parent[k] < grown[Up(parent, k - 1)].size
          BY <2>3, <4>2
        <5> QED
          BY <5>2, <5>3
      <4> QED
        BY <1>1, <1>3, <4>1, <4>2
    <3>3. \A j \in 0 .. grown[child].size - 1 : FALSE
      <4>1. grown[child].size = 0
        BY <1>8
      <4> QED
        BY <4>1
    <3> QED
      BY <1>3, <3>1, <3>2, <3>3
  <2>5. ASSUME NEW n \in DOMAIN grown PROVE n \in Seq(Nat) /\ Len(n) <= depth
    BY <1>8, <2>3, <2>4
  <2>6. ASSUME NEW n \in DOMAIN grown, NEW k \in 1 .. Len(n)
        PROVE  Up(n, k - 1) \in DOMAIN grown /\ n[k] < grown[Up(n, k - 1)].size
    <3>1. CASE n \in DOMAIN nodes
      BY <2>3, <3>1
    <3>2. CASE n = child
      BY <2>4, <3>2
    <3> QED
      BY <1>8, <3>1, <3>2
  <2>7. ASSUME NEW n \in DOMAIN grown, NEW j \in 0 .. grown[n].size - 1
        PROVE  Append(n, j) \in DOMAIN grown
    <3>1. CASE n \in DOMAIN nodes
      BY <2>3, <3>1
    <3>2. CASE n = child
      BY <2>4, <3>2
    <3> QED
      BY <1>8, <3>1, <3>2
  <2> QED
    BY <2>1, <2>2, <2>5, <2>6, <2>7, ZenonT(20) DEF Shape
<1> QED
  BY <1>3, <1>5, <1>8, <1>11, <1>12 DEF Grew

LEMMA Plants ==
    ASSUME NEW cell \in Cells, cell.size = 0, NEW depth \in Nat,
           NEW grown, grown = WithNode(<<>>, <<>>, cell)
    PROVE  Shape(grown, depth) /\ DOMAIN grown = {<<>>} /\ grown[<<>>] = cell
<1>1. PICK none : none = <<>>
  OBVIOUS
<1>2. none \in Seq(Nat) /\ Len(none) = 0 /\ DOMAIN none = {}
  BY <1>1
<1>4. grown = [n \in DOMAIN none \cup {none} |-> IF n = none THEN cell ELSE none[n]]
  BY <1>1 DEF WithNode
<1>5. DOMAIN grown = {none} /\ grown[none] = cell
  BY <1>2, <1>4
<1>6. grown \in [DOMAIN grown -> Cells]
  <2>1. grown = [x \in DOMAIN grown |-> grown[x]]
    BY <1>4
  <2> QED
    BY <1>5, <2>1
<1>7. IsFiniteSet(DOMAIN grown)
  BY <1>5, FS_Singleton
<1>8. ASSUME NEW n \in DOMAIN grown
      PROVE  /\ n \in Seq(Nat) /\ Len(n) <= depth
             /\ \A k \in 1 .. Len(n) : Up(n, k - 1) \in DOMAIN grown /\ n[k] < grown[Up(n, k - 1)].size
             /\ \A j \in 0 .. grown[n].size - 1 : Append(n, j) \in DOMAIN grown
  <2>1. n = none /\ grown[n].size = 0
    BY <1>5
  <2>2. n \in Seq(Nat) /\ Len(n) = 0
    BY <1>2, <2>1
  <2>3. \A k \in 1 .. Len(n) : FALSE
    BY <2>2
  <2>4. \A j \in 0 .. grown[n].size - 1 : FALSE
    BY <2>1
  <2> QED
    BY <2>2, <2>3, <2>4
<1>9. Shape(grown, depth)
  BY <1>6, <1>7, <1>8 DEF Shape
<1> QED
  BY <1>1, <1>5, <1>9

-----------------------------------------------------------------------------
(* The loops in progress. *)

LoopStands(nodes, active, decl, k) ==
    /\ active \in Seq(Loops) /\ Len(active) \in Nat /\ DOMAIN active = 1 .. Len(active)
    /\ Len(active) <= Len(decl)
    /\ active[k] \in Loops /\ active[k].index \in Nat /\ active[k].dimension_size \in Nat
    /\ active[k].index <= active[k].dimension_size /\ active[k].dimension_size <= MaxArrayDimension
    /\ LoopPath(active, k - 1) \in DOMAIN nodes
    /\ Len(LoopPath(active, k - 1)) = k - 1
    /\ \A j \in 1 .. k - 1 : LoopPath(active, k - 1)[j] = active[j].index - 1
    /\ nodes[LoopPath(active, k - 1)].size = active[k].index
    /\ nodes[LoopPath(active, k - 1)].index = FirstIndex(active[k].dimension_size)
    /\ active[k].capture = is_capture(decl[k])
    /\ k < Len(active) => active[k].index >= 1

LEMMA LoopFacts ==
    ASSUME NEW nodes, NEW active, NEW decl, LoopsAtNodes(nodes, active, decl), NEW k \in DOMAIN active
    PROVE  LoopStands(nodes, active, decl, k)
<1>1. /\ active \in Seq(Loops) /\ Len(active) <= Len(decl)
      /\ LoopPath(active, k - 1) \in DOMAIN nodes
      /\ nodes[LoopPath(active, k - 1)].size = active[k].index
      /\ nodes[LoopPath(active, k - 1)].index = FirstIndex(active[k].dimension_size)
      /\ active[k].index <= active[k].dimension_size
      /\ active[k].capture = is_capture(decl[k])
      /\ k < Len(active) => active[k].index >= 1
  BY DEF LoopsAtNodes
<1>2. Len(active) \in Nat /\ DOMAIN active = 1 .. Len(active)
  BY <1>1
<1>3. active[k] \in Loops
  BY <1>1, <1>2
<1>4. active[k].index \in 0 .. MaxArrayDimension /\ active[k].dimension_size \in 0 .. MaxArrayDimension
  BY <1>3 DEF Loops
<1>5. active[k].index \in Nat /\ active[k].dimension_size \in Nat /\ active[k].dimension_size <= MaxArrayDimension
  BY <1>4, NodeSourceAssumption
<1>6. PICK u \in Nat : u = k - 1
  BY <1>2
<1>7. Len(LoopPath(active, u)) = u /\ \A j \in 1 .. u : LoopPath(active, u)[j] = active[j].index - 1
  BY <1>6 DEF LoopPath
<1> QED
  BY <1>1, <1>2, <1>3, <1>5, <1>6, <1>7 DEF LoopStands

LEMMA SameLoopPath ==
    ASSUME NEW a, NEW b, NEW k, \A j \in 1 .. k : a[j].index = b[j].index
    PROVE  LoopPath(a, k) = LoopPath(b, k)
  BY DEF LoopPath

(* The innermost loop begins another child. *)
Begins(active) == [active EXCEPT ![Len(active)].index = @ + 1]

Began(active, top, begun) ==
    /\ top \in Nat /\ top >= 1 /\ top \in DOMAIN active
    /\ begun \in Seq(Loops) /\ Len(begun) = top /\ DOMAIN begun = 1 .. top /\ DOMAIN active = 1 .. top
    /\ begun[top].index = active[top].index + 1
    /\ begun[top].dimension_size = active[top].dimension_size
    /\ begun[top].capture = active[top].capture
    /\ \A k \in 1 .. top : k < top => begun[k] = active[k]
    /\ \A k \in 0 .. top - 1 : LoopPath(begun, k) = LoopPath(active, k)

LEMMA BeginsFacts ==
    ASSUME NEW nodes, NEW decl, NEW active, LoopsAtNodes(nodes, active, decl), active # <<>>,
           NEW top, top = Len(active), active[top].index < active[top].dimension_size,
           NEW begun, begun = Begins(active)
    PROVE  Began(active, top, begun)
<1>1. active \in Seq(Loops) /\ Len(active) \in Nat /\ DOMAIN active = 1 .. Len(active)
  BY DEF LoopsAtNodes
<1>2. top \in Nat /\ top >= 1 /\ top \in DOMAIN active
  BY <1>1
<1>3. /\ active[top] \in Loops /\ active[top].index \in Nat /\ active[top].dimension_size \in Nat
      /\ active[top].dimension_size <= MaxArrayDimension
  BY <1>2, LoopFacts DEF LoopStands
<1>4. PICK loop : loop = [active[top] EXCEPT !.index = active[top].index + 1]
  OBVIOUS
<1>5. /\ loop \in Loops /\ loop.index = active[top].index + 1
      /\ loop.dimension_size = active[top].dimension_size /\ loop.capture = active[top].capture
  <2>1. active[top].index + 1 \in 0 .. MaxArrayDimension
    BY <1>3, NodeSourceAssumption
  <2> QED
    BY <1>3, <1>4, <2>1 DEF Loops
<1>6. begun = [active EXCEPT ![top] = loop]
  BY <1>4 DEF Begins
<1>7. begun \in Seq(Loops) /\ Len(begun) = top /\ DOMAIN begun = 1 .. top
  BY <1>1, <1>2, <1>5, <1>6
<1>8. begun[top] = loop /\ \A k \in 1 .. top : k < top => begun[k] = active[k]
  BY <1>1, <1>2, <1>6
<1>9. ASSUME NEW k \in 0 .. top - 1 PROVE LoopPath(begun, k) = LoopPath(active, k)
  <2>1. \A j \in 1 .. k : j \in 1 .. top /\ j < top
    BY <1>2
  <2>2. \A j \in 1 .. k : begun[j].index = active[j].index
    BY <1>8, <2>1
  <2> QED
    BY <2>2, SameLoopPath
<1> QED
  BY <1>1, <1>2, <1>5, <1>7, <1>8, <1>9 DEF Began

(* The child begun. *)
Sprouts(nodes, decl, active, top, parent, child, begun, cell, grown) ==
    /\ Shape(nodes, Len(decl)) /\ decl \in Seq(Dimensions)
    /\ LoopsAtNodes(nodes, active, decl) /\ Unwalked(nodes, active)
    /\ active # <<>> /\ top = Len(active) /\ active[top].index < active[top].dimension_size
    /\ parent = LoopPath(active, top - 1) /\ child = Append(parent, active[top].index)
    /\ begun = Begins(active) /\ cell \in Cells /\ cell.size = 0
    /\ grown = WithNode([nodes EXCEPT ![parent].size = @ + 1], child, cell)

Sprouted(nodes, decl, active, top, parent, child, begun, cell, grown) ==
    /\ Shape(grown, Len(decl)) /\ DOMAIN grown = DOMAIN nodes \cup {child}
    /\ child \notin DOMAIN nodes /\ child \in Seq(Nat) /\ Len(child) = top
    /\ grown[child] = cell /\ cell.size = 0
    /\ \A n \in DOMAIN nodes :
          /\ grown[n].index = nodes[n].index
          /\ grown[n].size = IF n = parent THEN nodes[n].size + 1 ELSE nodes[n].size
    /\ parent \in DOMAIN nodes /\ Len(parent) = top - 1
    /\ nodes[parent].size = active[top].index
    /\ LoopPath(begun, top) = child
    /\ top \in Nat /\ top >= 1 /\ top <= Len(decl) /\ Len(decl) \in Nat
    /\ \A j \in 1 .. top - 1 : child[j] = active[j].index - 1
    /\ child[top] = active[top].index

LEMMA SproutFacts ==
    ASSUME NEW nodes, NEW decl, NEW active, NEW top, NEW parent, NEW child, NEW begun, NEW cell, NEW grown,
           Sprouts(nodes, decl, active, top, parent, child, begun, cell, grown)
    PROVE  Sprouted(nodes, decl, active, top, parent, child, begun, cell, grown)
<1>1. /\ active # <<>> /\ top = Len(active) /\ active[top].index < active[top].dimension_size
      /\ begun = Begins(active) /\ LoopsAtNodes(nodes, active, decl)
      /\ Shape(nodes, Len(decl)) /\ Len(decl) \in Nat /\ child = Append(parent, active[top].index)
      /\ parent = LoopPath(active, top - 1)
  BY DEF Sprouts
<1>2. /\ top \in Nat /\ top >= 1 /\ top \in DOMAIN active /\ top \in 1 .. top
      /\ begun[top].index = active[top].index + 1
      /\ \A k \in 1 .. top : k < top => begun[k] = active[k]
  <2>1. Began(active, top, begun)
    BY <1>1, BeginsFacts
  <2> QED
    BY <2>1 DEF Began
<1>3. /\ Len(active) <= Len(decl) /\ active[top].index \in Nat
      /\ active[top].dimension_size <= MaxArrayDimension /\ active[top].dimension_size \in Nat
      /\ parent \in DOMAIN nodes /\ Len(parent) = top - 1
      /\ \A j \in 1 .. top - 1 : parent[j] = active[j].index - 1
      /\ nodes[parent].size = active[top].index
  <2>1. LoopStands(nodes, active, decl, top)
    BY <1>1, <1>2, LoopFacts
  <2> QED
    BY <1>1, <2>1 DEF LoopStands
<1>4. Len(parent) < Len(decl) /\ nodes[parent].size < MaxArrayDimension
  <2>1. MaxArrayDimension \in Nat
    BY NodeSourceAssumption
  <2> QED
    BY <1>1, <1>2, <1>3, <2>1
<1>5. /\ Shape(grown, Len(decl)) /\ DOMAIN grown = DOMAIN nodes \cup {child}
      /\ child \notin DOMAIN nodes /\ Len(child) = Len(parent) + 1 /\ child \in Seq(Nat)
      /\ grown[child] = cell
      /\ \A n \in DOMAIN nodes :
            /\ grown[n].index = nodes[n].index
            /\ grown[n].size = IF n = parent THEN nodes[n].size + 1 ELSE nodes[n].size
  <2>1. child = Append(parent, nodes[parent].size)
    BY <1>1, <1>3
  <2>2. cell \in Cells /\ cell.size = 0 /\ grown = WithNode([nodes EXCEPT ![parent].size = @ + 1], child, cell)
    BY DEF Sprouts
  <2>3. PICK depth \in Nat : depth = Len(decl)
    BY <1>1
  <2>4. Shape(nodes, depth) /\ parent \in DOMAIN nodes /\ Len(parent) < depth
    BY <1>1, <1>3, <1>4, <2>3
  <2>5. Grew(nodes, depth, parent, child, cell, grown)
    BY <1>4, <2>1, <2>2, <2>4, Grows
  <2> QED
    BY <2>3, <2>5 DEF Grew
<1>6. Len(child) = top
  BY <1>2, <1>3, <1>5
<1>7. parent \in Seq(Nat)
  BY <1>1, <1>3, ShapeFacts
<1>8. (\A j \in 1 .. top - 1 : child[j] = active[j].index - 1) /\ child[top] = active[top].index
  <2>1. /\ child[Len(parent) + 1] = active[top].index
        /\ \A j \in 1 .. Len(parent) : child[j] = parent[j]
    BY <1>1, <1>3, <1>7, AppendFacts
  <2>2. Len(parent) + 1 = top
    BY <1>2, <1>3
  <2> QED
    BY <1>3, <2>1, <2>2
<1>9. LoopPath(begun, top) = child
  <2>1. PICK path : path = LoopPath(begun, top)
    OBVIOUS
  <2>2. path = [j \in 1 .. top |-> begun[j].index - 1]
    BY <2>1 DEF LoopPath
  <2>3. ASSUME NEW j \in 1 .. top PROVE begun[j].index - 1 = child[j] /\ child[j] \in Nat
    <3>1. child[j] \in Nat
      BY <1>5, <1>6
    <3>2. CASE j = top
      <4>1. begun[top].index = active[top].index + 1 /\ child[top] = active[top].index /\ active[top].index \in Nat
        BY <1>2, <1>3, <1>8
      <4> QED
        BY <3>1, <3>2, <4>1
    <3>3. CASE j < top
      <4>1. begun[j] = active[j] /\ j \in 1 .. top - 1
        BY <1>2, <3>3
      <4>2. child[j] = active[j].index - 1
        BY <1>8, <4>1
      <4> QED
        BY <3>1, <4>1, <4>2
    <3>4. j = top \/ j < top
      BY <1>2
    <3> QED
      BY <3>2, <3>3, <3>4
  <2>4. path \in Seq(Nat) /\ Len(path) = top /\ \A j \in 1 .. top : path[j] = child[j]
    BY <1>2, <2>2, <2>3
  <2> QED
    BY <1>5, <1>6, <2>1, <2>4, SameNode
<1>10. cell.size = 0
  BY DEF Sprouts
<1>11. top <= Len(decl)
  BY <1>1, <1>3
<1> QED
  BY <1>1, <1>2, <1>3, <1>5, <1>6, <1>8, <1>9, <1>10, <1>11 DEF Sprouted

(* The loops that go on are at the nodes they were at. *)
SproutStands(nodes, decl, active, begun, grown, k) ==
    /\ LoopPath(begun, k - 1) = LoopPath(active, k - 1)
    /\ LoopPath(begun, k - 1) \in DOMAIN grown
    /\ grown[LoopPath(begun, k - 1)].size = begun[k].index
    /\ grown[LoopPath(begun, k - 1)].index = FirstIndex(begun[k].dimension_size)
    /\ begun[k].index <= begun[k].dimension_size
    /\ begun[k].capture = is_capture(decl[k])
    /\ begun[k].dimension_size = active[k].dimension_size
    /\ begun[k].index >= 1
    /\ Len(LoopPath(begun, k - 1)) = k - 1 /\ LoopPath(begun, k - 1) \in DOMAIN nodes

LEMMA SproutLoops ==
    ASSUME NEW nodes, NEW decl, NEW active, NEW top, NEW parent, NEW child, NEW begun, NEW cell, NEW grown,
           Sprouts(nodes, decl, active, top, parent, child, begun, cell, grown), NEW k \in 1 .. top
    PROVE  SproutStands(nodes, decl, active, begun, grown, k)
<1>1. /\ LoopsAtNodes(nodes, active, decl) /\ active # <<>> /\ top = Len(active)
      /\ active[top].index < active[top].dimension_size
      /\ begun = Begins(active) /\ parent = LoopPath(active, top - 1)
  BY DEF Sprouts
<1>2. /\ top \in Nat /\ top >= 1 /\ DOMAIN active = 1 .. top
      /\ begun[top].index = active[top].index + 1
      /\ begun[top].dimension_size = active[top].dimension_size
      /\ begun[top].capture = active[top].capture
      /\ \A j \in 1 .. top : j < top => begun[j] = active[j]
      /\ \A j \in 0 .. top - 1 : LoopPath(begun, j) = LoopPath(active, j)
  <2>1. Began(active, top, begun)
    BY <1>1, BeginsFacts
  <2> QED
    BY <2>1 DEF Began
<1>3. PICK path : path = LoopPath(active, k - 1)
  OBVIOUS
<1>4. k - 1 \in 0 .. top - 1 /\ k \in DOMAIN active /\ (k # top => k < top)
  BY <1>2
<1>5. LoopPath(begun, k - 1) = path
  BY <1>2, <1>3, <1>4
<1>6. /\ path \in DOMAIN nodes /\ Len(path) = k - 1
      /\ nodes[path].size = active[k].index
      /\ nodes[path].index = FirstIndex(active[k].dimension_size)
      /\ active[k].capture = is_capture(decl[k])
      /\ k < Len(active) => active[k].index >= 1
      /\ active[k].index \in Nat /\ active[k].dimension_size \in Nat
      /\ active[k].index <= active[k].dimension_size
  <2>1. LoopStands(nodes, active, decl, k)
    BY <1>1, <1>4, LoopFacts
  <2> QED
    BY <1>3, <2>1 DEF LoopStands
<1>7. /\ DOMAIN grown = DOMAIN nodes \cup {child} /\ Len(parent) = top - 1
      /\ grown[path].index = nodes[path].index
      /\ grown[path].size = IF path = parent THEN nodes[path].size + 1 ELSE nodes[path].size
  <2>1. Sprouted(nodes, decl, active, top, parent, child, begun, cell, grown)
    BY SproutFacts
  <2> QED
    BY <1>6, <2>1 DEF Sprouted
<1>8. CASE k = top
  <2>1. path = parent
    BY <1>1, <1>3, <1>8
  <2>2. grown[path].size = begun[k].index
    BY <1>2, <1>6, <1>7, <1>8, <2>1
  <2>3. begun[k].index <= begun[k].dimension_size /\ begun[k].index >= 1
    BY <1>1, <1>2, <1>6, <1>8
  <2> QED
    BY <1>2, <1>3, <1>5, <1>6, <1>7, <1>8, <2>2, <2>3 DEF SproutStands
<1>9. CASE k < top
  <2>1. path # parent
    BY <1>2, <1>6, <1>7, <1>9
  <2>2. begun[k] = active[k]
    BY <1>2, <1>9
  <2> QED
    BY <1>1, <1>3, <1>5, <1>6, <1>7, <1>9, <2>1, <2>2 DEF SproutStands
<1> QED
  BY <1>4, <1>8, <1>9

-----------------------------------------------------------------------------
(* A node has been made, and its call of init_node_ has begun no loop yet. *)

Opened(nodes, active, decl, child) ==
    /\ Shape(nodes, Len(decl)) /\ LoopsAtNodes(nodes, active, decl)
    /\ \A k \in DOMAIN active : active[k].index >= 1
    /\ child \in DOMAIN nodes /\ child = LoopPath(active, Len(active))
    /\ Len(child) = Len(active) /\ nodes[child].size = 0
    /\ \A n \in DOMAIN nodes :
          n # child /\ ~InLoop(active, n) => nodes[n].index = FirstIndex(nodes[n].size)

LEMMA SproutOpens ==
    ASSUME NEW nodes, NEW decl, NEW active, NEW top, NEW parent, NEW child, NEW begun, NEW cell, NEW grown,
           Sprouts(nodes, decl, active, top, parent, child, begun, cell, grown)
    PROVE  Opened(grown, begun, decl, child)
<1>1. /\ Shape(grown, Len(decl)) /\ DOMAIN grown = DOMAIN nodes \cup {child}
      /\ child \notin DOMAIN nodes /\ Len(child) = top
      /\ grown[child] = cell /\ cell.size = 0
      /\ \A n \in DOMAIN nodes :
            /\ grown[n].index = nodes[n].index
            /\ grown[n].size = IF n = parent THEN nodes[n].size + 1 ELSE nodes[n].size
      /\ LoopPath(begun, top) = child /\ top <= Len(decl) /\ top \in Nat /\ top >= 1
  <2>1. Sprouted(nodes, decl, active, top, parent, child, begun, cell, grown)
    BY SproutFacts
  <2> QED
    BY <2>1 DEF Sprouted
<1>2. /\ LoopsAtNodes(nodes, active, decl) /\ active # <<>> /\ top = Len(active)
      /\ active[top].index < active[top].dimension_size
      /\ begun = Begins(active) /\ parent = LoopPath(active, top - 1)
      /\ Unwalked(nodes, active)
  BY DEF Sprouts
<1>3. begun \in Seq(Loops) /\ Len(begun) = top /\ DOMAIN begun = 1 .. top /\ DOMAIN active = 1 .. top
  <2>1. Began(active, top, begun)
    BY <1>2, BeginsFacts
  <2> QED
    BY <2>1 DEF Began
<1>4. \A k \in 1 .. top : SproutStands(nodes, decl, active, begun, grown, k)
  BY SproutLoops
<1>5. \A k \in DOMAIN begun :
          /\ LoopPath(begun, k - 1) \in DOMAIN grown
          /\ grown[LoopPath(begun, k - 1)].size = begun[k].index
          /\ grown[LoopPath(begun, k - 1)].index = FirstIndex(begun[k].dimension_size)
          /\ begun[k].index <= begun[k].dimension_size
          /\ begun[k].capture = is_capture(decl[k])
          /\ begun[k].index >= 1
  BY <1>3, <1>4 DEF SproutStands
<1>6. LoopsAtNodes(grown, begun, decl)
  <2>1. Len(begun) <= Len(decl)
    BY <1>1, <1>3
  <2> QED
    BY <1>3, <1>5, <2>1 DEF LoopsAtNodes
<1>7. ASSUME NEW n \in DOMAIN grown, n # child, ~InLoop(begun, n)
      PROVE  grown[n].index = FirstIndex(grown[n].size)
  <2>1. n \in DOMAIN nodes
    BY <1>1, <1>7
  <2>2. \A k \in 1 .. top : LoopPath(begun, k - 1) = LoopPath(active, k - 1)
    BY <1>4 DEF SproutStands
  <2>3. ~InLoop(active, n)
    BY <1>3, <1>7, <2>2 DEF InLoop
  <2>4. n # parent
    <3>1. top \in DOMAIN active
      BY <1>1, <1>3
    <3> QED
      BY <1>2, <2>3, <3>1 DEF InLoop
  <2>5. nodes[n].index = FirstIndex(nodes[n].size)
    BY <1>2, <2>1, <2>3 DEF Unwalked
  <2> QED
    BY <1>1, <2>1, <2>4, <2>5
<1>8. \A k \in DOMAIN begun : begun[k].index >= 1
  BY <1>5
<1> QED
  BY <1>1, <1>3, <1>6, <1>7, <1>8 DEF Opened

LEMMA PlantOpens ==
    ASSUME NEW cell \in Cells, cell.size = 0, NEW decl \in Seq(Dimensions),
           NEW grown, grown = WithNode(<<>>, <<>>, cell)
    PROVE  Opened(grown, <<>>, decl, <<>>)
<1>1. Len(decl) \in Nat
  OBVIOUS
<1>2. Shape(grown, Len(decl)) /\ DOMAIN grown = {<<>>} /\ grown[<<>>] = cell
  BY <1>1, Plants
<1>3. PICK none : none = <<>>
  OBVIOUS
<1>4. none \in Seq(Loops) /\ Len(none) = 0 /\ DOMAIN none = {}
  BY <1>3
<1>5. LoopsAtNodes(grown, none, decl)
  BY <1>1, <1>4 DEF LoopsAtNodes
<1>6. LoopPath(none, Len(none)) = none
  <2>1. PICK path : path = LoopPath(none, 0)
    OBVIOUS
  <2>2. path = [j \in 1 .. 0 |-> none[j].index - 1]
    BY <2>1 DEF LoopPath
  <2>3. path \in Seq(Nat) /\ Len(path) = 0
    BY <2>2
  <2> QED
    BY <1>3, <1>4, <2>1, <2>3
<1>7. Opened(grown, none, decl, none)
  BY <1>2, <1>3, <1>4, <1>5, <1>6 DEF Opened
<1> QED
  BY <1>3, <1>7

(* A node that is no array has no loop. *)
LEMMA LeafStands ==
    ASSUME NEW nodes, NEW active, NEW decl, NEW child, Opened(nodes, active, decl, child),
           nodes[child].index = InvalidSize
    PROVE  LoopsAtNodes(nodes, active, decl) /\ Unwalked(nodes, active)
<1>1. FirstIndex(0) = InvalidSize
  BY DEF FirstIndex
<1> QED
  BY <1>1 DEF Opened, Unwalked

(* An array begins its loop. *)
Pushed(active, loop, stack) ==
    /\ stack \in Seq(Loops) /\ Len(stack) = Len(active) + 1 /\ Len(active) \in Nat
    /\ DOMAIN active = 1 .. Len(active) /\ DOMAIN stack = 1 .. Len(active) + 1
    /\ stack[Len(active) + 1] = loop
    /\ \A k \in 1 .. Len(active) : stack[k] = active[k]
    /\ \A k \in 0 .. Len(active) : LoopPath(stack, k) = LoopPath(active, k)

LEMMA Pushes ==
    ASSUME NEW active \in Seq(Loops), NEW loop \in Loops, NEW stack, stack = Append(active, loop)
    PROVE  Pushed(active, loop, stack)
<1>1. /\ stack \in Seq(Loops) /\ Len(stack) = Len(active) + 1 /\ Len(active) \in Nat
      /\ DOMAIN active = 1 .. Len(active)
      /\ stack[Len(active) + 1] = loop
      /\ \A k \in 1 .. Len(active) : stack[k] = active[k]
  BY AppendProperties
<1>2. DOMAIN stack = 1 .. Len(active) + 1
  BY <1>1
<1>3. ASSUME NEW k \in 0 .. Len(active) PROVE LoopPath(stack, k) = LoopPath(active, k)
  <2>1. \A j \in 1 .. k : j \in 1 .. Len(active)
    BY <1>1
  <2>2. \A j \in 1 .. k : stack[j].index = active[j].index
    BY <1>1, <2>1
  <2> QED
    BY <2>2, SameLoopPath
<1> QED
  BY <1>1, <1>2, <1>3 DEF Pushed

LEMMA ArrayStands ==
    ASSUME NEW nodes, NEW active, NEW decl \in Seq(Dimensions), NEW child, Opened(nodes, active, decl, child),
           Len(active) < Len(decl),
           NEW loop \in Loops, loop.index = 0, loop.capture = is_capture(decl[Len(active) + 1]),
           nodes[child].index = FirstIndex(loop.dimension_size),
           NEW stack, stack = Append(active, loop)
    PROVE  LoopsAtNodes(nodes, stack, decl) /\ Unwalked(nodes, stack)
<1>1. /\ LoopsAtNodes(nodes, active, decl)
      /\ \A k \in DOMAIN active : active[k].index >= 1
      /\ child \in DOMAIN nodes /\ child = LoopPath(active, Len(active)) /\ nodes[child].size = 0
  BY DEF Opened
<1>2. active \in Seq(Loops)
  BY <1>1 DEF LoopsAtNodes
<1>3. PICK top : top = Len(active)
  OBVIOUS
<1>4. /\ stack \in Seq(Loops) /\ Len(stack) = top + 1 /\ top \in Nat
      /\ DOMAIN active = 1 .. top /\ DOMAIN stack = 1 .. top + 1
      /\ stack[top + 1] = loop
      /\ \A k \in 1 .. top : stack[k] = active[k]
      /\ \A k \in 0 .. top : LoopPath(stack, k) = LoopPath(active, k)
  <2>1. Pushed(active, loop, stack)
    BY <1>2, Pushes
  <2> QED
    BY <1>3, <2>1 DEF Pushed
<1>5. ASSUME NEW k \in 1 .. top + 1
      PROVE  /\ LoopPath(stack, k - 1) \in DOMAIN nodes
             /\ nodes[LoopPath(stack, k - 1)].size = stack[k].index
             /\ nodes[LoopPath(stack, k - 1)].index = FirstIndex(stack[k].dimension_size)
             /\ stack[k].index <= stack[k].dimension_size
             /\ stack[k].capture = is_capture(decl[k])
             /\ k < top + 1 => stack[k].index >= 1
  <2>1. LoopPath(stack, k - 1) = LoopPath(active, k - 1)
    <3>1. k - 1 \in 0 .. top
      BY <1>4
    <3> QED
      BY <1>4, <3>1
  <2>2. CASE k = top + 1
    <3>1. LoopPath(stack, k - 1) = child
      BY <1>1, <1>3, <1>4, <2>1, <2>2
    <3>2. loop.index <= loop.dimension_size
      BY NodeSourceAssumption DEF Loops
    <3> QED
      BY <1>1, <1>3, <1>4, <2>2, <3>1, <3>2
  <2>3. CASE k # top + 1
    <3>1. k \in 1 .. top /\ k \in DOMAIN active
      BY <1>4, <2>3
    <3>2. LoopStands(nodes, active, decl, k)
      BY <1>1, <3>1, LoopFacts
    <3>3. stack[k] = active[k] /\ active[k].index >= 1
      BY <1>1, <1>4, <3>1
    <3> QED
      BY <2>1, <3>2, <3>3 DEF LoopStands
  <2> QED
    BY <2>2, <2>3
<1>6. LoopsAtNodes(nodes, stack, decl)
  <2>1. Len(stack) <= Len(decl)
    BY <1>3, <1>4
  <2> QED
    BY <1>4, <1>5, <2>1 DEF LoopsAtNodes
<1>7. ASSUME NEW n \in DOMAIN nodes, ~InLoop(stack, n)
      PROVE  nodes[n].index = FirstIndex(nodes[n].size)
  <2>1. \A k \in 1 .. top + 1 : k - 1 \in 0 .. top /\ (k \in 1 .. top => k \in DOMAIN stack)
    BY <1>4
  <2>2. \A k \in 1 .. top : k \in 1 .. top + 1
    BY <1>4
  <2>3. ~InLoop(active, n)
    BY <1>4, <1>7, <2>1, <2>2 DEF InLoop
  <2>4. n # child
    <3>1. top + 1 \in DOMAIN stack /\ (top + 1) - 1 = top /\ top \in 0 .. top
      BY <1>4
    <3>2. n # LoopPath(stack, (top + 1) - 1)
      BY <1>7, <3>1 DEF InLoop
    <3> QED
      BY <1>1, <1>3, <1>4, <3>1, <3>2
  <2> QED
    BY <2>3, <2>4 DEF Opened
<1>8. Unwalked(nodes, stack)
  BY <1>7 DEF Unwalked
<1> QED
  BY <1>6, <1>8
(* A loop that has made all its children returns. *)
Popped(active, top, stack) ==
    /\ top \in Nat /\ top >= 1 /\ DOMAIN active = 1 .. top
    /\ stack \in Seq(Loops) /\ Len(stack) = top - 1 /\ DOMAIN stack = 1 .. top - 1
    /\ \A k \in 1 .. top - 1 : stack[k] = active[k]
    /\ \A k \in 0 .. top - 1 : LoopPath(stack, k) = LoopPath(active, k)

LEMMA Pops ==
    ASSUME NEW active \in Seq(Loops), active # <<>>, NEW top, top = Len(active),
           NEW stack, stack = Front(active)
    PROVE  Popped(active, top, stack)
<1>1. top \in Nat /\ top >= 1 /\ DOMAIN active = 1 .. top
  OBVIOUS
<1>2. stack = SubSeq(active, 1, top - 1)
  BY DEF Front
<1>3. /\ stack \in Seq(Loops) /\ Len(stack) = top - 1 /\ DOMAIN stack = 1 .. top - 1
      /\ \A k \in 1 .. top - 1 : stack[k] = active[k]
  BY <1>1, <1>2
<1>4. ASSUME NEW k \in 0 .. top - 1 PROVE LoopPath(stack, k) = LoopPath(active, k)
  <2>1. \A j \in 1 .. k : j \in 1 .. top - 1
    BY <1>1
  <2>2. \A j \in 1 .. k : stack[j].index = active[j].index
    BY <1>3, <2>1
  <2> QED
    BY <2>2, SameLoopPath
<1> QED
  BY <1>1, <1>3, <1>4 DEF Popped

LEMMA ReturnStands ==
    ASSUME NEW nodes, NEW active, NEW decl, LoopsAtNodes(nodes, active, decl), Unwalked(nodes, active),
           active # <<>>, NEW top, top = Len(active),
           active[top].index = active[top].dimension_size, NEW stack, stack = Front(active),
           NEW depth, Shape(nodes, depth), Len(decl) \in Nat
    PROVE  LoopsAtNodes(nodes, stack, decl) /\ Unwalked(nodes, stack)
<1>1. active \in Seq(Loops) /\ Len(active) <= Len(decl)
  BY DEF LoopsAtNodes
<1>2. /\ top \in Nat /\ top >= 1 /\ DOMAIN active = 1 .. top
      /\ stack \in Seq(Loops) /\ Len(stack) = top - 1 /\ DOMAIN stack = 1 .. top - 1
      /\ \A k \in 1 .. top - 1 : stack[k] = active[k]
      /\ \A k \in 0 .. top - 1 : LoopPath(stack, k) = LoopPath(active, k)
  <2>1. Popped(active, top, stack)
    BY <1>1, Pops
  <2> QED
    BY <2>1 DEF Popped
<1>3. ASSUME NEW k \in 1 .. top - 1
      PROVE  /\ LoopPath(stack, k - 1) \in DOMAIN nodes
             /\ nodes[LoopPath(stack, k - 1)].size = stack[k].index
             /\ nodes[LoopPath(stack, k - 1)].index = FirstIndex(stack[k].dimension_size)
             /\ stack[k].index <= stack[k].dimension_size
             /\ stack[k].capture = is_capture(decl[k])
             /\ k < top - 1 => stack[k].index >= 1
  <2>1. k \in DOMAIN active /\ k < top /\ k - 1 \in 0 .. top - 1
    BY <1>2
  <2>2. LoopStands(nodes, active, decl, k)
    BY <2>1, LoopFacts
  <2>3. LoopPath(stack, k - 1) = LoopPath(active, k - 1) /\ stack[k] = active[k]
    BY <1>2, <2>1
  <2> QED
    BY <2>1, <2>2, <2>3 DEF LoopStands
<1>4. LoopsAtNodes(nodes, stack, decl)
  <2>1. Len(stack) <= Len(decl)
    BY <1>1, <1>2
  <2> QED
    BY <1>2, <1>3, <2>1 DEF LoopsAtNodes
<1>5. ASSUME NEW n \in DOMAIN nodes, ~InLoop(stack, n)
      PROVE  nodes[n].index = FirstIndex(nodes[n].size)
  <2>1. CASE InLoop(active, n)
    <3>1. PICK k \in 1 .. top : n = LoopPath(active, k - 1)
      BY <1>2, <2>1 DEF InLoop
    <3>2. k = top
      <4>1. k \in 1 .. top - 1 => k \in DOMAIN stack /\ LoopPath(stack, k - 1) = LoopPath(active, k - 1)
        BY <1>2
      <4>2. k \notin 1 .. top - 1
        BY <1>5, <3>1, <4>1 DEF InLoop
      <4> QED
        BY <1>2, <4>2
    <3>3. nodes[n].size = active[top].index /\ nodes[n].index = FirstIndex(active[top].dimension_size)
      <4>1. top \in DOMAIN active
        BY <1>2
      <4>2. LoopStands(nodes, active, decl, top)
        BY <4>1, LoopFacts
      <4> QED
        BY <3>1, <3>2, <4>2 DEF LoopStands
    <3> QED
      BY <3>3
  <2>2. CASE ~InLoop(active, n)
    BY <2>2 DEF Unwalked
  <2> QED
    BY <2>1, <2>2
<1>6. Unwalked(nodes, stack)
  BY <1>5 DEF Unwalked
<1> QED
  BY <1>4, <1>6

(* When init_node_ has returned, the path of the walk is its first one. *)
LEMMA BuiltWalks ==
    ASSUME NEW nodes, NEW depth \in Nat, Shape(nodes, depth), Unwalked(nodes, <<>>)
    PROVE  Walking(nodes)
<1>1. \A n \in DOMAIN nodes : nodes[n].index = FirstIndex(nodes[n].size)
  <2>1. \A n : ~InLoop(<<>>, n)
    BY DEF InLoop
  <2> QED
    BY <2>1 DEF Unwalked
<1>2. ASSUME NEW n \in DOMAIN nodes PROVE ~LeftOfPath(nodes, n)
  <2> SUFFICES ASSUME NEW k \in DOMAIN n, n[k] < nodes[Up(n, k - 1)].index PROVE FALSE
    BY DEF LeftOfPath
  <2>1. n \in Seq(Nat) /\ k \in 1 .. Len(n)
    BY ShapeFacts
  <2>2. PICK u : u = Up(n, k - 1)
    OBVIOUS
  <2>3. n[k] \in Nat /\ u \in DOMAIN nodes /\ n[k] < nodes[u].size
    BY <2>1, <2>2, ChildIsBelowSize DEF Shape
  <2>3a. nodes[u].size \in Nat
    BY <2>3, ShapeFacts
  <2>4. nodes[u].index = 0
    BY <1>1, <2>3, <2>3a DEF FirstIndex
  <2> QED
    BY <2>2, <2>3, <2>4
<1>3. ASSUME NEW n \in DOMAIN nodes
      PROVE  /\ nodes[n].size > 0 => nodes[n].index = 0 /\ nodes[n].index < nodes[n].size
             /\ nodes[n].size = 0 => nodes[n].index = InvalidSize
  <2>1. nodes[n].index = FirstIndex(nodes[n].size) /\ nodes[n].size \in Nat
    BY <1>1, ShapeFacts
  <2> QED
    BY <2>1 DEF FirstIndex
<1> QED
  BY <1>2, <1>3 DEF Walking

-----------------------------------------------------------------------------
(* One call of init_node_. *)

DeclarationFacts(decl) == decl \in Seq(Dimensions) /\ Len(decl) \in Nat

LEMMA DeclarationIs == ASSUME NEW decl \in Declarations PROVE DeclarationFacts(decl)
<1>1. decl \in Seq(Dimensions)
  BY ShapesAssumption
<1>2. Len(decl) \in Nat
  BY <1>1
<1> QED
  BY <1>1, <1>2 DEF DeclarationFacts

(* It fails, makes a leaf, or makes an array and begins its loop. *)
Failed == status' \in {"rejected", "thrown"} /\ m_root' = m_root /\ loops' = loops

Made(nodes, active, node, captured, cell) ==
    /\ cell \in Cells /\ cell.size = 0
    /\ m_root' = WithNode(nodes, node, cell)
    /\ status' = "init"
    /\ \/ Len(node) = Len(declaration) /\ cell.index = InvalidSize /\ loops' = active
       \/ /\ Len(node) < Len(declaration)
          /\ \E loop \in Loops :
                /\ loop.index = 0 /\ cell.index = FirstIndex(loop.dimension_size)
                /\ loop.capture = is_capture(declaration[Len(node) + 1])
                /\ Extent(loop.dimension_size) = pr_array_suffix_(declaration[Len(node) + 1], captured)
                /\ loops' = Append(active, loop)

LEMMA InitNodeMakes ==
    ASSUME declaration \in Declarations, NEW nodes, NEW active, NEW node \in Seq(Nat), NEW captured,
           init_node_(nodes, active, node, captured)
    PROVE  Failed \/ \E cell \in Cells : Made(nodes, active, node, captured, cell)
<1>1. DeclarationFacts(declaration)
  BY DeclarationIs
<1>2. declaration \in Seq(Dimensions) /\ Len(declaration) \in Nat
  BY <1>1 DEF DeclarationFacts
<1>3. PICK leaf : leaf = [index |-> InvalidSize, size |-> 0]
  OBVIOUS
<1>4. PICK empty : empty = [index |-> 0, size |-> 0]
  OBVIOUS
<1>5. 0 \in 0 .. MaxArrayDimension
  BY NodeSourceAssumption
<1>6. leaf \in Cells /\ empty \in Cells
  BY <1>3, <1>4, <1>5 DEF Cells
<1>7. CASE /\ Len(node) = Len(declaration)
           /\ m_root' = WithNode(nodes, node, [index |-> InvalidSize, size |-> 0])
           /\ loops' = active /\ status' = "init"
  <2>1. leaf.size = 0 /\ leaf.index = InvalidSize
    BY <1>3
  <2>2. m_root' = WithNode(nodes, node, leaf)
    BY <1>3, <1>7
  <2>3. Made(nodes, active, node, captured, leaf)
    BY <1>6, <1>7, <2>1, <2>2 DEF Made
  <2> QED
    BY <1>6, <2>3
<1>8. CASE Len(node) < Len(declaration)
  <2>1. PICK dim : dim = declaration[Len(node) + 1]
    OBVIOUS
  <2>2. dim \in Dimensions
    <3>1. Len(node) + 1 \in 1 .. Len(declaration)
      BY <1>2, <1>8
    <3> QED
      BY <1>2, <2>1, <3>1
  <2>3. PICK parsed : parsed = pr_array_suffix_(dim, captured)
    OBVIOUS
  <2>4. /\ parsed.is # "size" => parsed.is \in {"rejected", "thrown"}
        /\ parsed.is = "size" => parsed.n \in Nat /\ parsed = Extent(parsed.n)
    BY <2>2, <2>3, ParsedExtent
  <2>5. \/ parsed.is # "size" /\ EndInit(parsed.is)
        \/ parsed.is = "size" /\ parsed.n > MaxArrayDimension /\ EndInit("thrown")
        \/ /\ parsed.is = "size" /\ parsed.n <= MaxArrayDimension
           /\ m_root' = WithNode(nodes, node,
                [index |-> IF parsed.n = 0 THEN InvalidSize ELSE 0, size |-> 0])
           /\ loops' = Append(active, [index |-> 0, dimension_size |-> parsed.n,
                                       capture |-> is_capture(dim), enum |-> enum_name(dim)])
           /\ status' = "init"
    <3>1. Len(node) # Len(declaration)
      BY <1>2, <1>8
    <3> QED
      BY <2>1, <2>3, <3>1 DEF init_node_
  <2>6. CASE (parsed.is # "size" /\ EndInit(parsed.is)) \/ EndInit("thrown")
    BY <2>4, <2>6 DEF EndInit, Failed
  <2>7. CASE /\ parsed.is = "size" /\ parsed.n <= MaxArrayDimension
             /\ m_root' = WithNode(nodes, node,
                  [index |-> IF parsed.n = 0 THEN InvalidSize ELSE 0, size |-> 0])
             /\ loops' = Append(active, [index |-> 0, dimension_size |-> parsed.n,
                                         capture |-> is_capture(dim), enum |-> enum_name(dim)])
             /\ status' = "init"
    <3>1. PICK cell : cell = [index |-> IF parsed.n = 0 THEN InvalidSize ELSE 0, size |-> 0]
      OBVIOUS
    <3>2. cell \in Cells /\ cell.size = 0 /\ cell.index = FirstIndex(parsed.n)
      <4>1. cell.size = 0 /\ cell.index = FirstIndex(parsed.n)
        BY <3>1 DEF FirstIndex
      <4>2. cell = (IF parsed.n = 0 THEN leaf ELSE empty)
        BY <1>3, <1>4, <3>1
      <4> QED
        BY <1>6, <4>1, <4>2
    <3>3. PICK loop : loop = [index |-> 0, dimension_size |-> parsed.n,
                              capture |-> is_capture(dim), enum |-> enum_name(dim)]
      OBVIOUS
    <3>4. loop.index = 0 /\ loop.dimension_size = parsed.n /\ loop.capture = is_capture(dim)
      BY <3>3
    <3>5. loop \in Loops
      <4>1. parsed.n \in 0 .. MaxArrayDimension
        BY <2>4, <2>7, NodeSourceAssumption
      <4>2. is_capture(dim) \in BOOLEAN
        BY <2>2, CaptureIsBoolean
      <4>3. enum_name(dim) \in {enum_name(d) : d \in Dimensions}
        BY <2>2
      <4> QED
        BY <1>5, <3>3, <4>1, <4>2, <4>3 DEF Loops
    <3>6. Extent(loop.dimension_size) = pr_array_suffix_(dim, captured)
      BY <2>3, <2>4, <2>7, <3>4
    <3>7. m_root' = WithNode(nodes, node, cell) /\ loops' = Append(active, loop) /\ status' = "init"
      BY <2>7, <3>1, <3>3
    <3>8. cell.index = FirstIndex(loop.dimension_size)
      BY <3>2, <3>4
    <3>9. Made(nodes, active, node, captured, cell)
      BY <1>8, <2>1, <3>2, <3>4, <3>5, <3>6, <3>7, <3>8 DEF Made
    <3> QED
      BY <3>2, <3>9
  <2> QED
    BY <2>5, <2>6, <2>7
<1> QED
  BY <1>7, <1>8 DEF init_node_

LEMMA MadeStands ==
    ASSUME declaration \in Declarations, NEW nodes, NEW active, NEW node, NEW captured, NEW cell,
           Made(nodes, active, node, captured, cell),
           NEW grown, grown = WithNode(nodes, node, cell), Opened(grown, active, declaration, node)
    PROVE  /\ Shape(m_root', Len(declaration)) /\ <<>> \in DOMAIN m_root'
           /\ LoopsAtNodes(m_root', loops', declaration) /\ Unwalked(m_root', loops')
<1>1. DeclarationFacts(declaration)
  BY DeclarationIs
<1>2. declaration \in Seq(Dimensions) /\ Len(declaration) \in Nat
  BY <1>1 DEF DeclarationFacts
<1>3. /\ m_root' = grown /\ grown[node] = cell /\ Shape(grown, Len(declaration))
      /\ node \in DOMAIN grown /\ Len(node) = Len(active)
  <2>1. grown = [n \in DOMAIN nodes \cup {node} |-> IF n = node THEN cell ELSE nodes[n]]
    BY DEF WithNode
  <2> QED
    BY <2>1 DEF Made, Opened
<1>4. <<>> \in DOMAIN grown
  <2>1. Up(node, 0) \in DOMAIN grown /\ Up(node, 0) = <<>>
    BY <1>2, <1>3, ShapeFacts, AboveIsThere, UpNone
  <2> QED
    BY <2>1
<1>5. CASE cell.index = InvalidSize /\ loops' = active
  <2>1. grown[node].index = InvalidSize
    BY <1>3, <1>5
  <2>2. LoopsAtNodes(grown, active, declaration) /\ Unwalked(grown, active)
    BY <2>1, LeafStands
  <2> QED
    BY <1>3, <1>4, <1>5, <2>2
<1>6. CASE /\ Len(node) < Len(declaration)
           /\ \E loop \in Loops :
                /\ loop.index = 0 /\ cell.index = FirstIndex(loop.dimension_size)
                /\ loop.capture = is_capture(declaration[Len(node) + 1])
                /\ Extent(loop.dimension_size) = pr_array_suffix_(declaration[Len(node) + 1], captured)
                /\ loops' = Append(active, loop)
  <2>1. PICK loop \in Loops :
                /\ loop.index = 0 /\ cell.index = FirstIndex(loop.dimension_size)
                /\ loop.capture = is_capture(declaration[Len(node) + 1])
                /\ loops' = Append(active, loop)
    BY <1>6
  <2>2. PICK stack : stack = Append(active, loop)
    OBVIOUS
  <2>3. /\ Len(active) < Len(declaration) /\ loop.capture = is_capture(declaration[Len(active) + 1])
        /\ grown[node].index = FirstIndex(loop.dimension_size)
    BY <1>3, <1>6, <2>1
  <2>4. LoopsAtNodes(grown, stack, declaration) /\ Unwalked(grown, stack)
    BY <1>2, <2>1, <2>2, <2>3, ArrayStands
  <2> QED
    BY <1>3, <1>4, <2>1, <2>2, <2>4
<1> QED
  BY <1>5, <1>6 DEF Made
(* One round of the innermost loop. *)
Round(top, parent, child, captured) ==
    /\ status = "init" /\ loops # <<>> /\ top = Len(loops)
    /\ loops[top].index < loops[top].dimension_size
    /\ parent = LoopPath(loops, top - 1) /\ child = Append(parent, loops[top].index)
    /\ captured = CapturedBy(loops[top]) /\ m_captured_index' = captured
    /\ declaration' = declaration /\ m_ptree' = m_ptree
    /\ \/ Failed
       \/ \E cell \in Cells :
             Made([m_root EXCEPT ![parent].size = @ + 1], Begins(loops), child, captured, cell)

LEMMA ElementRounds ==
    ASSUME IInv, InitElement
    PROVE  \E top, parent, child, captured : Round(top, parent, child, captured)
<1>1. /\ status = "init" /\ loops # <<>> /\ declaration' = declaration /\ m_ptree' = m_ptree
      /\ declaration \in Declarations
  BY DEF InitElement, IInv
<1>2. LoopsAtNodes(m_root, loops, declaration) /\ Shape(m_root, Len(declaration))
  BY <1>1 DEF IInv, Building
<1>3. PICK top : top = Len(loops)
  OBVIOUS
<1>4. Last(loops) = loops[top]
  BY <1>3 DEF Last
<1>5. PICK parent : parent = LoopPath(loops, top - 1)
  OBVIOUS
<1>6. LoopNode = parent
  BY <1>3, <1>5 DEF LoopNode, LoopPath
<1>7. PICK child : child = Append(parent, loops[top].index)
  OBVIOUS
<1>8. PICK captured : captured = CapturedBy(loops[top])
  OBVIOUS
<1>9. loops[top].index < loops[top].dimension_size /\ m_captured_index' = captured
  BY <1>4, <1>8 DEF InitElement, init_node_
<1>10. \/ EndInit("thrown")
       \/ init_node_([m_root EXCEPT ![parent].size = @ + 1], Begins(loops), child, captured)
  BY <1>3, <1>4, <1>6, <1>7, <1>8, Zenon DEF InitElement, Begins
<1>11. child \in Seq(Nat)
  <2>1. loops \in Seq(Loops)
    BY <1>2 DEF LoopsAtNodes
  <2>2. top \in DOMAIN loops
    BY <1>1, <1>3, <2>1
  <2>3. LoopStands(m_root, loops, declaration, top)
    BY <1>2, <2>2, LoopFacts
  <2>4. parent \in DOMAIN m_root /\ loops[top].index \in Nat
    BY <1>5, <2>3 DEF LoopStands
  <2>5. parent \in Seq(Nat)
    BY <1>2, <2>4, ShapeFacts
  <2> QED
    BY <1>7, <2>4, <2>5, AppendProperties, Zenon
<1>12. CASE EndInit("thrown")
  <2>1. Failed
    BY <1>12 DEF EndInit, Failed
  <2>2. Round(top, parent, child, captured)
    BY <1>1, <1>3, <1>5, <1>7, <1>8, <1>9, <2>1 DEF Round
  <2> QED
    BY <2>2
<1>13. CASE init_node_([m_root EXCEPT ![parent].size = @ + 1], Begins(loops), child, captured)
  <2>1. PICK nodes : nodes = [m_root EXCEPT ![parent].size = @ + 1]
    OBVIOUS
  <2>2. PICK begun : begun = Begins(loops)
    OBVIOUS
  <2>3. init_node_(nodes, begun, child, captured)
    BY <1>13, <2>1, <2>2
  <2>4. Failed \/ \E cell \in Cells : Made(nodes, begun, child, captured, cell)
    BY <1>1, <1>11, <2>3, InitNodeMakes
  <2>5. \/ Failed
        \/ \E cell \in Cells :
             Made([m_root EXCEPT ![parent].size = @ + 1], Begins(loops), child, captured, cell)
    BY <2>1, <2>2, <2>4
  <2>6. Round(top, parent, child, captured)
    BY <1>1, <1>3, <1>5, <1>7, <1>8, <1>9, <2>5 DEF Round
  <2> QED
    BY <2>6
<1> QED
  BY <1>10, <1>12, <1>13

LEMMA RoundSprouts ==
    ASSUME IInv, NEW top, NEW parent, NEW child, NEW captured, Round(top, parent, child, captured),
           NEW nodes, nodes = m_root, NEW active, active = loops,
           NEW begun, begun = Begins(active),
           NEW cell \in Cells, cell.size = 0,
           NEW grown, grown = WithNode([nodes EXCEPT ![parent].size = @ + 1], child, cell)
    PROVE  Sprouts(nodes, declaration, active, top, parent, child, begun, cell, grown)
<1>1. status = "init" /\ loops # <<>> /\ top = Len(loops) /\ loops[top].index < loops[top].dimension_size
      /\ parent = LoopPath(loops, top - 1) /\ child = Append(parent, loops[top].index)
  BY DEF Round
<1>2. /\ LoopsAtNodes(m_root, loops, declaration) /\ Unwalked(m_root, loops)
      /\ Shape(m_root, Len(declaration)) /\ declaration \in Declarations
  BY <1>1 DEF IInv, Building
<1>3. declaration \in Seq(Dimensions)
  BY <1>2, DeclarationIs DEF DeclarationFacts
<1> QED
  BY <1>1, <1>2, <1>3 DEF Sprouts

LEMMA CapturedIsSubscript ==
    ASSUME IInv, NEW top, NEW parent, NEW child, NEW captured, Round(top, parent, child, captured)
    PROVE  captured \in Subscripts \cup {InvalidSize}
<1>1. /\ status = "init" /\ loops # <<>> /\ top = Len(loops)
      /\ loops[top].index < loops[top].dimension_size /\ captured = CapturedBy(loops[top])
  BY DEF Round
<1>2. LoopsAtNodes(m_root, loops, declaration) /\ m_captured_index \in Subscripts \cup {InvalidSize}
  BY <1>1 DEF IInv, Building
<1>3. top \in DOMAIN loops
  <2>1. loops \in Seq(Loops)
    BY <1>2 DEF LoopsAtNodes
  <2> QED
    BY <1>1, <2>1
<1>4. LoopStands(m_root, loops, declaration, top)
  BY <1>2, <1>3, LoopFacts
<1>5. /\ loops[top].index \in Nat /\ loops[top].dimension_size \in Nat
      /\ loops[top].dimension_size <= MaxArrayDimension
  BY <1>4 DEF LoopStands
<1>6. loops[top].index \in Subscripts
  BY <1>1, <1>5, NodeSourceAssumption DEF Subscripts
<1> QED
  BY <1>1, <1>2, <1>6 DEF CapturedBy

-----------------------------------------------------------------------------
(* Every step keeps the invariant. *)

LEMMA InitInvariant == ASSUME Init PROVE IInv
<1>1. /\ declaration \in Declarations /\ m_root = <<>> /\ m_captured_index = InvalidSize
      /\ loops = <<>> /\ m_ptree = {} /\ status = "new"
  BY DEF Init
<1>2. Shape(m_root, Len(declaration))
  <2>1. DOMAIN m_root = {} /\ m_root \in [DOMAIN m_root -> Cells]
    BY <1>1
  <2>2. IsFiniteSet(DOMAIN m_root)
    BY <2>1, FS_EmptySet
  <2> QED
    BY <2>1, <2>2 DEF Shape
<1> QED
  BY <1>1, <1>2 DEF IInv, Building, WalkKept

LEMMA StartInvariant == ASSUME IInv, init_ PROVE IInv'
<1>1. /\ status = "new" /\ init_node_(<<>>, <<>>, <<>>, m_captured_index)
      /\ declaration' = declaration /\ m_ptree' = m_ptree
  BY DEF init_
<1>2. /\ declaration \in Declarations /\ Shape(m_root, Len(declaration))
      /\ m_captured_index \in Subscripts \cup {InvalidSize}
      /\ m_root = <<>> /\ loops = <<>> /\ m_ptree = {}
  BY <1>1 DEF IInv, Building
<1>3. m_captured_index' = m_captured_index
  BY <1>1 DEF init_node_
<1>4. PICK none : none = <<>>
  OBVIOUS
<1>5. none \in Seq(Nat)
  BY <1>4
<1>6. Failed \/ \E cell \in Cells : Made(none, none, none, m_captured_index, cell)
  BY <1>1, <1>2, <1>4, <1>5, InitNodeMakes
<1>7. CASE Failed
  <2>1. LoopsAtNodes(m_root, loops, declaration) /\ Unwalked(m_root, loops)
    <3>1. DOMAIN m_root = {} /\ DOMAIN loops = {} /\ loops \in Seq(Loops) /\ Len(loops) = 0
      BY <1>2
    <3>2. Len(declaration) \in Nat
      BY <1>2, DeclarationIs DEF DeclarationFacts
    <3> QED
      BY <3>1, <3>2 DEF LoopsAtNodes, Unwalked
  <2>2. status' \in {"rejected", "thrown"} /\ m_root' = m_root /\ loops' = loops
    BY <1>7 DEF Failed
  <2>3. Building'
    BY <1>1, <1>2, <2>1, <2>2 DEF Building
  <2>4. WalkKept'
    BY <2>2 DEF WalkKept
  <2> QED
    BY <1>1, <1>2, <1>3, <2>2, <2>3, <2>4 DEF IInv, Subscripts
<1>8. ASSUME NEW cell \in Cells, Made(none, none, none, m_captured_index, cell)
      PROVE  IInv'
  <2>1. PICK grown : grown = WithNode(none, none, cell)
    OBVIOUS
  <2>2. cell.size = 0 /\ status' = "init" /\ m_root' = grown
    BY <1>8, <2>1 DEF Made
  <2>3. declaration \in Seq(Dimensions)
    BY <1>2, DeclarationIs DEF DeclarationFacts
  <2>4. Opened(grown, none, declaration, none)
    BY <1>4, <2>1, <2>2, <2>3, PlantOpens
  <2>5. /\ Shape(m_root', Len(declaration)) /\ <<>> \in DOMAIN m_root'
        /\ LoopsAtNodes(m_root', loops', declaration) /\ Unwalked(m_root', loops')
    BY <1>2, <1>8, <2>1, <2>4, MadeStands
  <2>6. Building'
    BY <1>1, <1>2, <2>2, <2>5 DEF Building
  <2>7. WalkKept'
    BY <2>2 DEF WalkKept
  <2> QED
    BY <1>1, <1>2, <1>3, <2>2, <2>5, <2>6, <2>7 DEF IInv, Subscripts
<1> QED
  BY <1>6, <1>7, <1>8

LEMMA ElementInvariant == ASSUME IInv, InitElement PROVE IInv'
<1>1. PICK top, parent, child, captured : Round(top, parent, child, captured)
  BY ElementRounds
<1>2. /\ status = "init" /\ m_captured_index' = captured
      /\ declaration' = declaration /\ m_ptree' = m_ptree
      /\ \/ Failed
         \/ \E cell \in Cells :
               Made([m_root EXCEPT ![parent].size = @ + 1], Begins(loops), child, captured, cell)
  BY <1>1 DEF Round
<1>3. /\ declaration \in Declarations /\ Shape(m_root, Len(declaration)) /\ m_ptree = {}
      /\ LoopsAtNodes(m_root, loops, declaration) /\ Unwalked(m_root, loops)
  BY <1>2 DEF IInv, Building
<1>4. captured \in Subscripts \cup {InvalidSize}
  BY <1>1, CapturedIsSubscript
<1>5. CASE Failed
  <2>1. status' \in {"rejected", "thrown"} /\ m_root' = m_root /\ loops' = loops
    BY <1>5 DEF Failed
  <2>2. Building'
    BY <1>2, <1>3, <2>1 DEF Building
  <2>3. WalkKept'
    BY <2>1 DEF WalkKept
  <2> QED
    BY <1>2, <1>3, <1>4, <2>1, <2>2, <2>3 DEF IInv, Subscripts
<1>6. ASSUME NEW cell \in Cells,
             Made([m_root EXCEPT ![parent].size = @ + 1], Begins(loops), child, captured, cell)
      PROVE  IInv'
  <2>1. PICK nodes : nodes = m_root
    OBVIOUS
  <2>2. PICK active : active = loops
    OBVIOUS
  <2>3. PICK begun : begun = Begins(active)
    OBVIOUS
  <2>4. PICK larger : larger = [nodes EXCEPT ![parent].size = @ + 1]
    OBVIOUS
  <2>5. PICK grown : grown = WithNode(larger, child, cell)
    OBVIOUS
  <2>6. Made(larger, begun, child, captured, cell)
    BY <1>6, <2>1, <2>2, <2>3, <2>4
  <2>7. cell.size = 0 /\ status' = "init"
    BY <2>6 DEF Made
  <2>8. Sprouts(nodes, declaration, active, top, parent, child, begun, cell, grown)
    BY <1>1, <2>1, <2>2, <2>3, <2>4, <2>5, <2>7, RoundSprouts
  <2>9. Opened(grown, begun, declaration, child)
    BY <2>8, SproutOpens
  <2>10. /\ Shape(m_root', Len(declaration)) /\ <<>> \in DOMAIN m_root'
         /\ LoopsAtNodes(m_root', loops', declaration) /\ Unwalked(m_root', loops')
    BY <1>3, <2>5, <2>6, <2>9, MadeStands
  <2>11. Building'
    BY <1>2, <1>3, <2>7, <2>10 DEF Building
  <2>12. WalkKept'
    BY <2>7 DEF WalkKept
  <2> QED
    BY <1>2, <1>3, <1>4, <2>7, <2>10, <2>11, <2>12 DEF IInv, Subscripts
<1> QED
  BY <1>2, <1>5, <1>6

LEMMA ReturnInvariant == ASSUME IInv, ReturnFromInit PROVE IInv'
<1>1. /\ status = "init" /\ loops # <<>> /\ Last(loops).index = Last(loops).dimension_size
      /\ loops' = Front(loops)
      /\ declaration' = declaration /\ m_root' = m_root /\ m_captured_index' = m_captured_index
      /\ m_ptree' = m_ptree /\ status' = status
  BY DEF ReturnFromInit
<1>2. /\ declaration \in Declarations /\ Shape(m_root, Len(declaration)) /\ m_ptree = {}
      /\ LoopsAtNodes(m_root, loops, declaration) /\ Unwalked(m_root, loops)
      /\ <<>> \in DOMAIN m_root /\ m_captured_index \in Subscripts \cup {InvalidSize}
  BY <1>1 DEF IInv, Building
<1>3. PICK nodes, active, decl, top, depth, stack :
         /\ nodes = m_root /\ active = loops /\ decl = declaration /\ top = Len(loops)
         /\ depth = Len(declaration) /\ stack = Front(loops)
  OBVIOUS
<1>4. Last(loops) = loops[top]
  BY <1>3 DEF Last
<1>5. active # <<>> /\ top = Len(active) /\ active[top].index = active[top].dimension_size
      /\ stack = Front(active) /\ LoopsAtNodes(nodes, active, decl) /\ Unwalked(nodes, active)
      /\ Shape(nodes, depth)
  BY <1>1, <1>2, <1>3, <1>4
<1>6. Len(decl) \in Nat
  BY <1>2, <1>3, DeclarationIs DEF DeclarationFacts
<1>7. LoopsAtNodes(nodes, stack, decl) /\ Unwalked(nodes, stack)
  BY <1>5, <1>6, ReturnStands
<1>8. Building'
  BY <1>1, <1>2, <1>3, <1>7 DEF Building
<1>9. WalkKept'
  BY <1>1 DEF WalkKept
<1> QED
  BY <1>1, <1>2, <1>8, <1>9 DEF IInv, Subscripts

LEMMA DoneInvariant == ASSUME IInv, InitDone PROVE IInv'
<1>1. /\ status = "init" /\ loops = <<>> /\ status' = "ready" /\ loops' = loops
      /\ declaration' = declaration /\ m_root' = m_root /\ m_captured_index' = m_captured_index
      /\ m_ptree' = m_ptree
  BY DEF InitDone
<1>2. /\ declaration \in Declarations /\ Shape(m_root, Len(declaration)) /\ m_ptree = {}
      /\ Unwalked(m_root, loops)
      /\ <<>> \in DOMAIN m_root /\ m_captured_index \in Subscripts \cup {InvalidSize}
  BY <1>1 DEF IInv, Building
<1>3. Walking(m_root)
  <2>1. Len(declaration) \in Nat
    BY <1>2, DeclarationIs DEF DeclarationFacts
  <2> QED
    BY <1>1, <1>2, <2>1, BuiltWalks
<1>4. WalkKept'
  <2>1. Walking(m_root')
    BY <1>1, <1>3
  <2> QED
    BY <2>1 DEF WalkKept
<1>5. Building'
  BY <1>1, <1>2 DEF Building
<1> QED
  BY <1>1, <1>2, <1>4, <1>5 DEF IInv, Subscripts

LEMMA NextTakes ==
    ASSUME IInv, next_
    PROVE  /\ Handed(m_root, Len(declaration), m_root', m_ptree')
           /\ status = "ready" /\ status' = (IF m_ptree' = {} THEN "end" ELSE "ready")
           /\ declaration' = declaration /\ m_captured_index' = m_captured_index /\ loops' = loops
           /\ Walking(m_root) /\ Shape(m_root, Len(declaration)) /\ Len(declaration) \in Nat
           /\ <<>> \in DOMAIN m_root /\ declaration \in Declarations
<1>1. status = "ready"
  BY DEF next_
<1>2. /\ declaration \in Declarations /\ Shape(m_root, Len(declaration)) /\ Walking(m_root)
      /\ <<>> \in DOMAIN m_root
  BY <1>1 DEF IInv, Building, WalkKept
<1>3. Len(declaration) \in Nat
  BY <1>2, DeclarationIs DEF DeclarationFacts
<1> QED
  BY <1>1, <1>2, <1>3, NextHands

LEMMA NextInvariant == ASSUME IInv, next_ PROVE IInv'
<1>1. /\ Handed(m_root, Len(declaration), m_root', m_ptree')
      /\ status = "ready" /\ status' = (IF m_ptree' = {} THEN "end" ELSE "ready")
      /\ declaration' = declaration /\ m_captured_index' = m_captured_index /\ loops' = loops
      /\ <<>> \in DOMAIN m_root /\ declaration \in Declarations
  BY NextTakes
<1>2. /\ Shape(m_root', Len(declaration)) /\ DOMAIN m_root' = DOMAIN m_root /\ Walking(m_root')
      /\ m_ptree' = {} \/ \E s \in DOMAIN m_root : m_ptree' = {s}
  BY <1>1 DEF Handed, Unseen
<1>3. status' \in {"ready", "end"}
  BY <1>1
<1>4. loops = <<>> /\ m_captured_index \in Subscripts \cup {InvalidSize}
  BY <1>1 DEF IInv, Building
<1>5. Building'
  BY <1>1, <1>2, <1>3, <1>4 DEF Building
<1>6. WalkKept'
  BY <1>2 DEF WalkKept
<1>7. m_ptree' \in {{}} \cup {{n} : n \in DOMAIN m_root'}
  BY <1>2
<1> QED
  BY <1>1, <1>2, <1>3, <1>4, <1>5, <1>6, <1>7 DEF IInv, Subscripts

LEMMA StutterInvariant == ASSUME IInv, UNCHANGED vars PROVE IInv'
<1>1. /\ declaration' = declaration /\ m_root' = m_root /\ m_captured_index' = m_captured_index
      /\ loops' = loops /\ m_ptree' = m_ptree /\ status' = status
  BY DEF vars
<1>2. Building'
  BY <1>1 DEF IInv, Building
<1>3. WalkKept'
  BY <1>1 DEF IInv, WalkKept
<1> QED
  BY <1>1, <1>2, <1>3 DEF IInv, Subscripts

(* What Shape, Building and WalkKept say of the tree, the loops and the    *)
(* iterator holds through init_, init_node_ and next_, for every set of    *)
(* declarations.                                                           *)
THEOREM Invariant == Spec => []IInv
<1>1. Init => IInv
  BY InitInvariant
<1>2. IInv /\ [Next]_vars => IInv'
  BY StartInvariant, ElementInvariant, ReturnInvariant, DoneInvariant, NextInvariant, StutterInvariant
     DEF Next
<1> QED
  BY <1>1, <1>2, PTL DEF Spec

LEMMA NodeIsSubscripts ==
    ASSUME NEW nodes, NEW depth \in Nat, Shape(nodes, depth), NEW n \in DOMAIN nodes
    PROVE  /\ n \in UNION {[1 .. d -> Subscripts] : d \in 0 .. depth}
           /\ n \in [1 .. Len(n) -> Subscripts] /\ Len(n) \in 0 .. depth
<1>1. n \in Seq(Nat) /\ Len(n) \in Nat
  BY ShapeFacts
<1>2. Len(n) <= depth
  BY DEF Shape
<1>3. ASSUME NEW k \in 1 .. Len(n) PROVE n[k] \in Subscripts
  <2>1. PICK u : u = Up(n, k - 1)
    OBVIOUS
  <2>2. u \in DOMAIN nodes /\ n[k] < nodes[u].size
    BY <2>1 DEF Shape
  <2>3. nodes[u].size \in Nat /\ nodes[u].size <= MaxArrayDimension /\ n[k] \in Nat
    BY <1>1, <2>2, ShapeFacts
  <2> QED
    BY <2>2, <2>3, NodeSourceAssumption DEF Subscripts
<1>4. n \in [1 .. Len(n) -> Subscripts]
  BY <1>1, <1>3
<1>5. Len(n) \in 0 .. depth
  BY <1>1, <1>2
<1> QED
  BY <1>4, <1>5

LEMMA InvariantTypes == ASSUME IInv PROVE TypeOK
<1>1. declaration \in Declarations /\ Shape(m_root, Len(declaration)) /\ Len(declaration) \in Nat
  <2>1. declaration \in Declarations /\ Shape(m_root, Len(declaration))
    BY DEF IInv
  <2> QED
    BY <2>1, DeclarationIs DEF DeclarationFacts
<1>2. DOMAIN m_root \subseteq Nodes
  BY <1>1, NodeIsSubscripts DEF Nodes
<1>3. \A n \in DOMAIN m_root :
          m_root[n].size \in 0..MaxArrayDimension
          /\ m_root[n].index \in 0..MaxArrayDimension \cup {InvalidSize}
  BY <1>1, ShapeFacts, NodeSourceAssumption
<1>4. /\ Len(loops) <= Len(declaration)
      /\ \A k \in DOMAIN loops :
            loops[k].dimension_size \in 0..MaxArrayDimension /\ loops[k].index \in 0..loops[k].dimension_size
  <2>1. CASE loops = <<>>
    BY <1>1, <2>1
  <2>2. CASE loops # <<>>
    <3>1. LoopsAtNodes(m_root, loops, declaration)
      BY <2>2 DEF IInv, Building
    <3>2. Len(loops) <= Len(declaration)
      BY <3>1 DEF LoopsAtNodes
    <3>3. ASSUME NEW k \in DOMAIN loops
          PROVE  loops[k].dimension_size \in 0..MaxArrayDimension /\ loops[k].index \in 0..loops[k].dimension_size
      <4>1. LoopStands(m_root, loops, declaration, k)
        BY <3>1, LoopFacts
      <4>2. /\ loops[k].index \in Nat /\ loops[k].dimension_size \in Nat
            /\ loops[k].index <= loops[k].dimension_size /\ loops[k].dimension_size <= MaxArrayDimension
        BY <4>1 DEF LoopStands
      <4> QED
        BY <4>2, NodeSourceAssumption
    <3> QED
      BY <3>2, <3>3
  <2> QED
    BY <2>1, <2>2
<1> QED
  BY <1>2, <1>3, <1>4 DEF IInv, TypeOK

(* The tree of Dimension_nodes is never deeper than the declaration nor    *)
(* wider than an array may be, init_node_ calls itself at most once for a  *)
(* dimension, its loops never pass their dimension_size, and the iterator  *)
(* is at a node of the tree or at none.                                    *)
THEOREM TypeCorrect == Spec => []TypeOK
<1>1. IInv => TypeOK
  BY InvariantTypes
<1> QED
  BY <1>1, Invariant, PTL
-----------------------------------------------------------------------------
(* The extents are those the declaration means. *)

(* The index captured is the one that the dimensions still to come use. *)
CaptureIs(decl, node, captured) ==
    \A u \in DOMAIN decl : decl[u].kind = "use_capture" =>
        /\ Capturing(decl, u) = {} => captured = InvalidSize
        /\ \A c \in 1 .. u - 1 :
              IsLast(c, Capturing(decl, u)) /\ c <= Len(node) => captured = node[c]

LEMMA CaptureMeans ==
    ASSUME NEW decl \in Seq(Dimensions), NEW node \in Seq(Nat), NEW captured,
           Len(node) < Len(decl), CaptureIs(decl, node, captured)
    PROVE  pr_array_suffix_(decl[Len(node) + 1], captured) = ExtentIn(decl, node)
<1>1. PICK u : u = Len(node) + 1
  OBVIOUS
<1>2. u \in DOMAIN decl /\ DOMAIN node = 1 .. u - 1 /\ u - 1 = Len(node) /\ u \in Nat
  BY <1>1
<1>3. PICK capturing : capturing = {c \in DOMAIN node : is_capture(decl[c])}
  OBVIOUS
<1>4. capturing = Capturing(decl, u)
  BY <1>2, <1>3 DEF Capturing
<1>5. CASE decl[u].kind = "use_capture"
  <2>1. CASE capturing = {}
    <3>1. captured = InvalidSize
      BY <1>2, <1>4, <1>5, <2>1 DEF CaptureIs
    <3>2. CapturedIn(decl, node) = InvalidSize
      BY <1>3, <2>1 DEF CapturedIn
    <3> QED
      BY <1>1, <3>1, <3>2 DEF ExtentIn
  <2>2. CASE capturing # {}
    <3>1. PICK bound \in Nat : bound = Len(node)
      OBVIOUS
    <3>1a. capturing \subseteq 0 .. bound
      BY <1>2, <1>3, <3>1
    <3>2. \E x \in capturing : \A y \in capturing : y <= x
      BY <2>2, <3>1a, GreatestOf
    <3>3. PICK c : c = CHOOSE x \in capturing : \A y \in capturing : y <= x
      OBVIOUS
    <3>4. c \in capturing /\ \A y \in capturing : y <= c
      BY <3>2, <3>3, Zenon
    <3>5. CapturedIn(decl, node) = node[c]
      <4>1. {b \in DOMAIN node : is_capture(decl[b])} # {}
        BY <1>3, <2>2
      <4>2. node[c] = node[CHOOSE x \in {b \in DOMAIN node : is_capture(decl[b])} :
                             \A y \in {b \in DOMAIN node : is_capture(decl[b])} : y <= x]
        BY <1>3, <3>3, Zenon
      <4> QED
        BY <4>1, <4>2, Zenon DEF CapturedIn
    <3>6. IsLast(c, Capturing(decl, u)) /\ c \in 1 .. u - 1 /\ c <= Len(node)
      BY <1>2, <1>3, <1>4, <3>4 DEF IsLast
    <3>7. captured = node[c]
      BY <1>2, <1>5, <3>6 DEF CaptureIs
    <3> QED
      BY <1>1, <3>5, <3>7 DEF ExtentIn
  <2> QED
    BY <2>1, <2>2
<1>6. CASE decl[u].kind # "use_capture"
  BY <1>1, <1>6 DEF ExtentIn, pr_array_suffix_
<1> QED
  BY <1>5, <1>6

LEMMA CaptureStays ==
    ASSUME NEW decl \in Seq(Dimensions), NEW active \in Seq(Loops), NEW node, NEW captured,
           CaptureIs(decl, node, captured), Len(node) = Len(active), node = LoopPath(active, Len(active)),
           NEW stack, Len(stack) <= Len(active) + 1, Len(stack) \in Nat,
           \A k \in 1 .. Len(active) : stack[k] = active[k]
    PROVE  CaptureKept(decl, stack, captured)
<1> SUFFICES ASSUME NEW u \in DOMAIN decl, decl[u].kind = "use_capture"
             PROVE  /\ Capturing(decl, u) = {} => captured = InvalidSize
                    /\ \A c \in 1 .. u - 1 :
                         IsLast(c, Capturing(decl, u)) /\ c < Len(stack) => captured = stack[c].index - 1
  BY DEF CaptureKept
<1>1. Capturing(decl, u) = {} => captured = InvalidSize
  BY DEF CaptureIs
<1>2. ASSUME NEW c \in 1 .. u - 1, IsLast(c, Capturing(decl, u)), c < Len(stack)
      PROVE  captured = stack[c].index - 1
  <2>1. c \in 1 .. Len(active)
    <3>1. u \in Nat /\ Len(active) \in Nat
      OBVIOUS
    <3> QED
      BY <1>2, <3>1
  <2>2. c <= Len(node)
    BY <2>1
  <2>3. captured = node[c]
    BY <1>2, <2>2 DEF CaptureIs
  <2>4. node[c] = active[c].index - 1
    BY <2>1 DEF LoopPath
  <2> QED
    BY <2>1, <2>3, <2>4
<1> QED
  BY <1>1, <1>2

(* The loop at hand captures nothing that a dimension around it uses. *)
LEMMA RoundCaptures ==
    ASSUME NEW nodes, NEW decl \in Seq(Dimensions), NEW active, NEW top, NEW parent, NEW child, NEW begun,
           NEW cell, NEW grown,
           Sprouts(nodes, decl, active, top, parent, child, begun, cell, grown),
           CapturesOutlast(decl), NEW before, CaptureKept(decl, active, before),
           NEW captured, captured = IF active[top].capture THEN active[top].index ELSE before
    PROVE  CaptureIs(decl, child, captured)
<1>1. /\ Len(child) = top /\ top \in Nat /\ top >= 1 /\ top <= Len(decl) /\ Len(decl) \in Nat
      /\ \A j \in 1 .. top - 1 : child[j] = active[j].index - 1
      /\ child[top] = active[top].index
  <2>1. Sprouted(nodes, decl, active, top, parent, child, begun, cell, grown)
    BY SproutFacts
  <2> QED
    BY <2>1 DEF Sprouted
<1>2. LoopsAtNodes(nodes, active, decl) /\ top = Len(active)
  BY DEF Sprouts
<1>3. active[top].capture = is_capture(decl[top]) /\ top \in DOMAIN decl
  <2>1. active \in Seq(Loops)
    BY <1>2 DEF LoopsAtNodes
  <2>2. top \in DOMAIN active
    BY <1>1, <1>2, <2>1
  <2>3. LoopStands(nodes, active, decl, top)
    BY <1>2, <2>2, LoopFacts
  <2> QED
    BY <1>1, <2>3 DEF LoopStands
<1> SUFFICES ASSUME NEW u \in DOMAIN decl, decl[u].kind = "use_capture"
             PROVE  /\ Capturing(decl, u) = {} => captured = InvalidSize
                    /\ \A c \in 1 .. u - 1 :
                         IsLast(c, Capturing(decl, u)) /\ c <= Len(child) => captured = child[c]
  BY DEF CaptureIs
<1>4. u \in Nat /\ u >= 1 /\ u <= Len(decl)
  OBVIOUS
<1>5. is_capture(decl[top]) => top \in Capturing(decl, u)
  <2> SUFFICES ASSUME is_capture(decl[top]) PROVE top \in Capturing(decl, u)
    OBVIOUS
  <2>1. top # u
    BY DEF is_capture
  <2>2. ~(top > u)
    <3>1. \A c \in (u + 1) .. Len(decl) : ~is_capture(decl[c])
      BY DEF CapturesOutlast
    <3> QED
      BY <1>1, <1>4, <3>1
  <2>3. top \in 1 .. u - 1
    BY <1>1, <1>4, <2>1, <2>2
  <2> QED
    BY <2>3 DEF Capturing
<1>6. ASSUME Capturing(decl, u) = {} PROVE captured = InvalidSize
  <2>1. ~is_capture(decl[top])
    BY <1>5, <1>6
  <2>2. captured = before
    BY <1>3, <2>1
  <2>3. before = InvalidSize
    BY <1>6 DEF CaptureKept
  <2> QED
    BY <2>2, <2>3
<1>7. ASSUME NEW c \in 1 .. u - 1, IsLast(c, Capturing(decl, u)), c <= Len(child) PROVE captured = child[c]
  <2>1. c \in Capturing(decl, u) /\ \A b \in Capturing(decl, u) : b <= c
    BY <1>7 DEF IsLast
  <2>2. is_capture(decl[c])
    BY <2>1 DEF Capturing
  <2>3. CASE c = top
    <3>1. captured = active[top].index
      BY <1>3, <2>2, <2>3
    <3> QED
      BY <1>1, <2>3, <3>1
  <2>4. CASE c < top
    <3>1. ~is_capture(decl[top])
      BY <1>1, <1>4, <1>5, <2>1, <2>4
    <3>2. captured = before
      BY <1>3, <3>1
    <3>3. before = active[c].index - 1
      BY <1>2, <1>7, <2>4 DEF CaptureKept
    <3>4. c \in 1 .. top - 1
      BY <1>1, <1>4, <2>4
    <3> QED
      BY <1>1, <3>2, <3>3, <3>4
  <2> QED
    BY <1>1, <1>4, <1>7, <2>3, <2>4
<1> QED
  BY <1>6, <1>7

(* The arrays that are complete, and the loops, but for the node just made. *)
OpenedDeclared(nodes, active, decl, child) ==
    /\ \A k \in DOMAIN active :
          Extent(active[k].dimension_size) = ExtentIn(decl, LoopPath(active, k - 1))
    /\ \A n \in DOMAIN nodes :
          n # child /\ Len(n) < Len(decl) /\ ~InLoop(active, n) => Extent(nodes[n].size) = ExtentIn(decl, n)

LEMMA SproutDeclared ==
    ASSUME NEW nodes, NEW decl, NEW active, NEW top, NEW parent, NEW child, NEW begun, NEW cell, NEW grown,
           Sprouts(nodes, decl, active, top, parent, child, begun, cell, grown),
           LoopsDeclared(nodes, active, decl)
    PROVE  OpenedDeclared(grown, begun, decl, child)
<1>1. /\ DOMAIN grown = DOMAIN nodes \cup {child}
      /\ \A n \in DOMAIN nodes : grown[n].size = IF n = parent THEN nodes[n].size + 1 ELSE nodes[n].size
      /\ top \in Nat /\ top >= 1
  <2>1. Sprouted(nodes, decl, active, top, parent, child, begun, cell, grown)
    BY SproutFacts
  <2> QED
    BY <2>1 DEF Sprouted
<1>2. /\ LoopsAtNodes(nodes, active, decl) /\ active # <<>> /\ top = Len(active)
      /\ active[top].index < active[top].dimension_size
      /\ begun = Begins(active) /\ parent = LoopPath(active, top - 1)
  BY DEF Sprouts
<1>3. DOMAIN begun = 1 .. top /\ DOMAIN active = 1 .. top
  <2>1. Began(active, top, begun)
    BY <1>2, BeginsFacts
  <2> QED
    BY <2>1 DEF Began
<1>4. \A k \in 1 .. top : /\ LoopPath(begun, k - 1) = LoopPath(active, k - 1)
                          /\ begun[k].dimension_size = active[k].dimension_size
  BY SproutLoops DEF SproutStands
<1>5. ASSUME NEW k \in 1 .. top
      PROVE  Extent(begun[k].dimension_size) = ExtentIn(decl, LoopPath(begun, k - 1))
  <2>1. Extent(active[k].dimension_size) = ExtentIn(decl, LoopPath(active, k - 1))
    BY <1>3 DEF LoopsDeclared
  <2> QED
    BY <1>4, <2>1
<1>6. ASSUME NEW n \in DOMAIN grown, n # child, Len(n) < Len(decl), ~InLoop(begun, n)
      PROVE  Extent(grown[n].size) = ExtentIn(decl, n)
  <2>1. n \in DOMAIN nodes
    BY <1>1, <1>6
  <2>2. ~InLoop(active, n)
    BY <1>3, <1>4, <1>6 DEF InLoop
  <2>3. n # parent
    <3>1. top \in DOMAIN active
      BY <1>1, <1>3
    <3> QED
      BY <1>2, <2>2, <3>1 DEF InLoop
  <2>4. Extent(nodes[n].size) = ExtentIn(decl, n)
    BY <1>6, <2>1, <2>2 DEF LoopsDeclared
  <2> QED
    BY <1>1, <2>1, <2>3, <2>4
<1> QED
  BY <1>3, <1>5, <1>6 DEF OpenedDeclared

LEMMA MadeDeclared ==
    ASSUME declaration \in Declarations, NEW nodes, NEW active, NEW node, NEW captured, NEW cell,
           Made(nodes, active, node, captured, cell),
           NEW grown, grown = WithNode(nodes, node, cell), Opened(grown, active, declaration, node),
           OpenedDeclared(grown, active, declaration, node), CaptureIs(declaration, node, captured)
    PROVE  LoopsDeclared(m_root', loops', declaration) /\ CaptureKept(declaration, loops', captured)
<1>1. declaration \in Seq(Dimensions) /\ Len(declaration) \in Nat
  BY DeclarationIs DEF DeclarationFacts
<1>2. /\ m_root' = grown /\ Shape(grown, Len(declaration))
      /\ node \in DOMAIN grown /\ Len(node) = Len(active) /\ node = LoopPath(active, Len(active))
      /\ LoopsAtNodes(grown, active, declaration)
  BY DEF Made, Opened
<1>3. node \in Seq(Nat) /\ active \in Seq(Loops)
  BY <1>2, ShapeFacts DEF LoopsAtNodes
<1>4. CASE Len(node) = Len(declaration) /\ loops' = active
  <2>1. LoopsDeclared(grown, active, declaration)
    <3>1. ASSUME NEW n \in DOMAIN grown, Len(n) < Len(declaration) PROVE n # node
      BY <1>1, <1>4, <3>1
    <3> QED
      BY <3>1 DEF LoopsDeclared, OpenedDeclared
  <2>2. Len(active) <= Len(active) + 1 /\ Len(active) \in Nat
    BY <1>3
  <2>3. CaptureKept(declaration, active, captured)
    BY <1>1, <1>2, <1>3, <2>2, CaptureStays
  <2> QED
    BY <1>2, <1>4, <2>1, <2>3
<1>5. ASSUME Len(node) < Len(declaration), NEW loop \in Loops,
             Extent(loop.dimension_size) = pr_array_suffix_(declaration[Len(node) + 1], captured),
             loops' = Append(active, loop)
      PROVE  LoopsDeclared(m_root', loops', declaration) /\ CaptureKept(declaration, loops', captured)
  <2>1. PICK stack : stack = Append(active, loop)
    OBVIOUS
  <2>2. PICK top : top = Len(active)
    OBVIOUS
  <2>3. /\ stack \in Seq(Loops) /\ Len(stack) = top + 1 /\ top \in Nat
        /\ DOMAIN active = 1 .. top /\ DOMAIN stack = 1 .. top + 1
        /\ stack[top + 1] = loop
        /\ \A k \in 1 .. top : stack[k] = active[k]
        /\ \A k \in 0 .. top : LoopPath(stack, k) = LoopPath(active, k)
    <3>1. Pushed(active, loop, stack)
      BY <1>3, <1>5, <2>1, Pushes
    <3> QED
      BY <2>2, <3>1 DEF Pushed
  <2>4. Extent(loop.dimension_size) = ExtentIn(declaration, node)
    BY <1>1, <1>3, <1>5, CaptureMeans
  <2>5. ASSUME NEW k \in 1 .. top + 1
        PROVE  Extent(stack[k].dimension_size) = ExtentIn(declaration, LoopPath(stack, k - 1))
    <3>1. k - 1 \in 0 .. top
      BY <2>3
    <3>2. LoopPath(stack, k - 1) = LoopPath(active, k - 1)
      BY <2>3, <3>1
    <3>3. CASE k = top + 1
      <4>1. k - 1 = top
        BY <2>3, <3>3
      <4>2. LoopPath(stack, k - 1) = node
        BY <1>2, <2>2, <3>2, <4>1
      <4> QED
        BY <2>3, <2>4, <3>3, <4>2
    <3>4. CASE k # top + 1
      <4>1. k \in 1 .. top
        BY <2>3, <3>4
      <4>2. Extent(active[k].dimension_size) = ExtentIn(declaration, LoopPath(active, k - 1))
        BY <2>3, <4>1 DEF OpenedDeclared
      <4> QED
        BY <2>3, <3>2, <4>1, <4>2
    <3> QED
      BY <3>3, <3>4
  <2>6. ASSUME NEW n \in DOMAIN grown, Len(n) < Len(declaration), ~InLoop(stack, n)
        PROVE  Extent(grown[n].size) = ExtentIn(declaration, n)
    <3>1. n # node
      <4>1. top + 1 \in DOMAIN stack /\ (top + 1) - 1 = top /\ top \in 0 .. top
        BY <2>3
      <4>2. n # LoopPath(stack, (top + 1) - 1)
        BY <2>6, <4>1 DEF InLoop
      <4> QED
        BY <1>2, <2>2, <2>3, <4>1, <4>2
    <3>2. \A k \in 1 .. top : k \in 1 .. top + 1 /\ k - 1 \in 0 .. top
      BY <2>3
    <3>3. ~InLoop(active, n)
      BY <2>3, <2>6, <3>2 DEF InLoop
    <3> QED
      BY <2>6, <3>1, <3>3 DEF OpenedDeclared
  <2>7. LoopsDeclared(grown, stack, declaration)
    BY <2>3, <2>5, <2>6 DEF LoopsDeclared
  <2>8. Len(stack) <= Len(active) + 1 /\ Len(stack) \in Nat /\ \A k \in 1 .. Len(active) : stack[k] = active[k]
    BY <2>2, <2>3
  <2>9. CaptureKept(declaration, stack, captured)
    BY <1>1, <1>2, <1>3, <2>8, CaptureStays
  <2> QED
    BY <1>2, <1>5, <2>1, <2>7, <2>9
<1> QED
  BY <1>4, <1>5 DEF Made

-----------------------------------------------------------------------------
(* Every step keeps the extents, where no captured index is captured again *)
(* behind the dimension that uses it.                                      *)

LEMMA DeclaredInit == ASSUME Init PROVE AsDeclared
<1>1. m_root = <<>> /\ loops = <<>> /\ m_captured_index = InvalidSize /\ declaration \in Declarations
  BY DEF Init
<1>2. DOMAIN m_root = {} /\ DOMAIN loops = {} /\ Len(loops) = 0
  BY <1>1
<1>3. LoopsDeclared(m_root, loops, declaration)
  BY <1>2 DEF LoopsDeclared
<1>4. CaptureKept(declaration, loops, m_captured_index)
  <2>1. declaration \in Seq(Dimensions)
    BY <1>1, DeclarationIs DEF DeclarationFacts
  <2>2. \A u \in DOMAIN declaration : \A c \in 1 .. u - 1 : ~(c < Len(loops))
    BY <1>2, <2>1
  <2> QED
    BY <1>1, <2>2 DEF CaptureKept
<1> QED
  BY <1>3, <1>4 DEF AsDeclared

LEMMA StartDeclared == ASSUME IInv, AsDeclared, init_ PROVE AsDeclared'
<1>1. /\ status = "new" /\ init_node_(<<>>, <<>>, <<>>, m_captured_index)
      /\ declaration' = declaration
  BY DEF init_
<1>2. /\ declaration \in Declarations /\ m_root = <<>> /\ loops = <<>>
      /\ m_captured_index = InvalidSize
  BY <1>1 DEF IInv, Building
<1>3. m_captured_index' = m_captured_index /\ declaration \in Seq(Dimensions)
  BY <1>1, <1>2, DeclarationIs DEF init_node_, DeclarationFacts
<1>4. PICK none : none = <<>>
  OBVIOUS
<1>5. none \in Seq(Nat) /\ DOMAIN none = {} /\ Len(none) = 0
  BY <1>4
<1>6. Failed \/ \E cell \in Cells : Made(none, none, none, m_captured_index, cell)
  BY <1>1, <1>2, <1>4, <1>5, InitNodeMakes
<1>7. CASE Failed
  <2>1. status' \in {"rejected", "thrown"} /\ m_root' = m_root /\ loops' = loops
    BY <1>7 DEF Failed
  <2>2. LoopsDeclared(m_root, loops, declaration)
    BY DEF AsDeclared
  <2> QED
    BY <1>1, <2>1, <2>2 DEF AsDeclared
<1>8. ASSUME NEW cell \in Cells, Made(none, none, none, m_captured_index, cell)
      PROVE  AsDeclared'
  <2>1. PICK grown : grown = WithNode(none, none, cell)
    OBVIOUS
  <2>2. cell.size = 0
    BY <1>8 DEF Made
  <2>3. Opened(grown, none, declaration, none)
    BY <1>3, <1>4, <2>1, <2>2, PlantOpens
  <2>4. OpenedDeclared(grown, none, declaration, none)
    <3>1. DOMAIN grown = {none}
      BY <1>5, <2>1 DEF WithNode
    <3> QED
      BY <1>5, <3>1 DEF OpenedDeclared
  <2>5. CaptureIs(declaration, none, m_captured_index)
    <3>1. \A u \in DOMAIN declaration : \A c \in 1 .. u - 1 : ~(c <= Len(none))
      BY <1>3, <1>5
    <3> QED
      BY <1>2, <3>1 DEF CaptureIs
  <2>6. LoopsDeclared(m_root', loops', declaration) /\ CaptureKept(declaration, loops', m_captured_index)
    BY <1>2, <1>8, <2>1, <2>3, <2>4, <2>5, MadeDeclared
  <2> QED
    BY <1>1, <1>3, <2>6 DEF AsDeclared
<1> QED
  BY <1>6, <1>7, <1>8

LEMMA ElementDeclared ==
    ASSUME IInv, AsDeclared, CapturesOutlast(declaration), InitElement
    PROVE  AsDeclared'
<1>1. PICK top, parent, child, captured : Round(top, parent, child, captured)
  BY ElementRounds
<1>2. /\ status = "init" /\ m_captured_index' = captured /\ captured = CapturedBy(loops[top])
      /\ declaration' = declaration
      /\ \/ Failed
         \/ \E cell \in Cells :
               Made([m_root EXCEPT ![parent].size = @ + 1], Begins(loops), child, captured, cell)
  BY <1>1 DEF Round
<1>3. declaration \in Declarations /\ declaration \in Seq(Dimensions)
  <2>1. declaration \in Declarations
    BY DEF IInv
  <2> QED
    BY <2>1, DeclarationIs DEF DeclarationFacts
<1>4. LoopsDeclared(m_root, loops, declaration) /\ CaptureKept(declaration, loops, m_captured_index)
  BY <1>2 DEF AsDeclared
<1>5. CASE Failed
  <2>1. status' \in {"rejected", "thrown"} /\ m_root' = m_root /\ loops' = loops
    BY <1>5 DEF Failed
  <2> QED
    BY <1>2, <1>4, <2>1 DEF AsDeclared
<1>6. ASSUME NEW cell \in Cells,
             Made([m_root EXCEPT ![parent].size = @ + 1], Begins(loops), child, captured, cell)
      PROVE  AsDeclared'
  <2>1. PICK nodes : nodes = m_root
    OBVIOUS
  <2>2. PICK active : active = loops
    OBVIOUS
  <2>3. PICK begun : begun = Begins(active)
    OBVIOUS
  <2>4. PICK larger : larger = [nodes EXCEPT ![parent].size = @ + 1]
    OBVIOUS
  <2>5. PICK grown : grown = WithNode(larger, child, cell)
    OBVIOUS
  <2>6. Made(larger, begun, child, captured, cell)
    BY <1>6, <2>1, <2>2, <2>3, <2>4
  <2>7. cell.size = 0
    BY <2>6 DEF Made
  <2>8. Sprouts(nodes, declaration, active, top, parent, child, begun, cell, grown)
    BY <1>1, <2>1, <2>2, <2>3, <2>4, <2>5, <2>7, RoundSprouts
  <2>9. Opened(grown, begun, declaration, child)
    BY <2>8, SproutOpens
  <2>10. OpenedDeclared(grown, begun, declaration, child)
    BY <1>4, <2>1, <2>2, <2>8, SproutDeclared
  <2>11. PICK before : before = m_captured_index
    OBVIOUS
  <2>12. captured = IF active[top].capture THEN active[top].index ELSE before
    BY <1>2, <2>2, <2>11 DEF CapturedBy
  <2>13. CaptureKept(declaration, active, before)
    BY <1>4, <2>2, <2>11
  <2>14. CaptureIs(declaration, child, captured)
    BY <1>3, <2>8, <2>12, <2>13, RoundCaptures
  <2>15. LoopsDeclared(m_root', loops', declaration) /\ CaptureKept(declaration, loops', captured)
    BY <1>3, <2>5, <2>6, <2>9, <2>10, <2>14, MadeDeclared
  <2> QED
    BY <1>2, <2>15 DEF AsDeclared
<1> QED
  BY <1>2, <1>5, <1>6

LEMMA ReturnDeclared == ASSUME IInv, AsDeclared, ReturnFromInit PROVE AsDeclared'
<1>1. /\ status = "init" /\ loops # <<>> /\ Last(loops).index = Last(loops).dimension_size
      /\ loops' = Front(loops)
      /\ declaration' = declaration /\ m_root' = m_root /\ m_captured_index' = m_captured_index
      /\ status' = status
  BY DEF ReturnFromInit
<1>2. declaration \in Declarations /\ LoopsAtNodes(m_root, loops, declaration)
  BY <1>1 DEF IInv, Building
<1>3. LoopsDeclared(m_root, loops, declaration) /\ CaptureKept(declaration, loops, m_captured_index)
  BY <1>1 DEF AsDeclared
<1>4. PICK top, stack : top = Len(loops) /\ stack = Front(loops)
  OBVIOUS
<1>5. loops[top].index = loops[top].dimension_size
  BY <1>1, <1>4 DEF Last
<1>6. loops \in Seq(Loops)
  BY <1>2 DEF LoopsAtNodes
<1>7. /\ top \in Nat /\ top >= 1 /\ DOMAIN loops = 1 .. top
      /\ Len(stack) = top - 1 /\ DOMAIN stack = 1 .. top - 1
      /\ \A k \in 1 .. top - 1 : stack[k] = loops[k]
      /\ \A k \in 0 .. top - 1 : LoopPath(stack, k) = LoopPath(loops, k)
  <2>1. Popped(loops, top, stack)
    BY <1>1, <1>4, <1>6, Pops
  <2> QED
    BY <2>1 DEF Popped
<1>8. ASSUME NEW k \in 1 .. top - 1
      PROVE  Extent(stack[k].dimension_size) = ExtentIn(declaration, LoopPath(stack, k - 1))
  <2>1. k \in DOMAIN loops /\ k - 1 \in 0 .. top - 1
    BY <1>7
  <2>2. Extent(loops[k].dimension_size) = ExtentIn(declaration, LoopPath(loops, k - 1))
    BY <1>3, <2>1 DEF LoopsDeclared
  <2> QED
    BY <1>7, <2>1, <2>2
<1>9. ASSUME NEW n \in DOMAIN m_root, Len(n) < Len(declaration), ~InLoop(stack, n)
      PROVE  Extent(m_root[n].size) = ExtentIn(declaration, n)
  <2>1. CASE InLoop(loops, n)
    <3>1. PICK k \in 1 .. top : n = LoopPath(loops, k - 1)
      BY <1>7, <2>1 DEF InLoop
    <3>2. k = top
      <4>1. k \in 1 .. top - 1 => k \in DOMAIN stack /\ LoopPath(stack, k - 1) = LoopPath(loops, k - 1)
        BY <1>7
      <4>2. k \notin 1 .. top - 1
        BY <1>9, <3>1, <4>1 DEF InLoop
      <4> QED
        BY <1>7, <4>2
    <3>3. top \in DOMAIN loops
      BY <1>7
    <3>4. m_root[n].size = loops[top].index
      <4>1. LoopStands(m_root, loops, declaration, top)
        BY <1>2, <3>3, LoopFacts
      <4> QED
        BY <3>1, <3>2, <4>1 DEF LoopStands
    <3>5. Extent(loops[top].dimension_size) = ExtentIn(declaration, n)
      BY <1>3, <3>1, <3>2, <3>3 DEF LoopsDeclared
    <3> QED
      BY <1>5, <3>4, <3>5
  <2>2. CASE ~InLoop(loops, n)
    BY <1>3, <1>9, <2>2 DEF LoopsDeclared
  <2> QED
    BY <2>1, <2>2
<1>10. LoopsDeclared(m_root, stack, declaration)
  BY <1>7, <1>8, <1>9 DEF LoopsDeclared
<1>11. CaptureKept(declaration, stack, m_captured_index)
  <2> SUFFICES ASSUME NEW u \in DOMAIN declaration, declaration[u].kind = "use_capture"
               PROVE  /\ Capturing(declaration, u) = {} => m_captured_index = InvalidSize
                      /\ \A c \in 1 .. u - 1 :
                            IsLast(c, Capturing(declaration, u)) /\ c < Len(stack)
                              => m_captured_index = stack[c].index - 1
    BY DEF CaptureKept
  <2>1. Capturing(declaration, u) = {} => m_captured_index = InvalidSize
    BY <1>3 DEF CaptureKept
  <2>2. ASSUME NEW c \in 1 .. u - 1, IsLast(c, Capturing(declaration, u)), c < Len(stack)
        PROVE  m_captured_index = stack[c].index - 1
    <3>1. c < Len(loops) /\ c \in 1 .. top - 1
      <4>1. u \in Nat
        BY <1>2, DeclarationIs DEF DeclarationFacts
      <4> QED
        BY <1>4, <1>7, <2>2, <4>1
    <3>2. m_captured_index = loops[c].index - 1
      BY <1>3, <2>2, <3>1 DEF CaptureKept
    <3> QED
      BY <1>7, <3>1, <3>2
  <2> QED
    BY <2>1, <2>2
<1> QED
  BY <1>1, <1>4, <1>10, <1>11 DEF AsDeclared

LEMMA DoneDeclared == ASSUME AsDeclared, InitDone \/ UNCHANGED vars PROVE AsDeclared'
  BY DEF InitDone, vars, AsDeclared

LEMMA NextDeclared == ASSUME IInv, AsDeclared, next_ PROVE AsDeclared'
<1>1. /\ Handed(m_root, Len(declaration), m_root', m_ptree')
      /\ status' = (IF m_ptree' = {} THEN "end" ELSE "ready")
      /\ declaration' = declaration /\ loops' = loops
  BY NextTakes
<1>2. DOMAIN m_root' = DOMAIN m_root /\ \A n \in DOMAIN m_root : m_root'[n].size = m_root[n].size
  BY <1>1 DEF Handed
<1>3. LoopsDeclared(m_root', loops', declaration)
  BY <1>1, <1>2 DEF AsDeclared, LoopsDeclared
<1> QED
  BY <1>1, <1>3 DEF AsDeclared

LEMMA DeclaredStep ==
    ASSUME IInv, AsDeclared, CapturesOutlast(declaration), [Next]_vars
    PROVE  AsDeclared'
  BY StartDeclared, ElementDeclared, ReturnDeclared, DoneDeclared, NextDeclared DEF Next

(* With it, where CapturesOutlast holds: init_node_ completes each array   *)
(* with the extent declared, and while it runs the index captured last is  *)
(* that of the element at hand.                                            *)
THEOREM AlwaysAsDeclared ==
    ASSUME \A decl \in Declarations : CapturesOutlast(decl)
    PROVE  Spec => [](IInv /\ AsDeclared)
<1>1. Init => IInv /\ AsDeclared
  BY InitInvariant, DeclaredInit
<1>2. IInv /\ AsDeclared /\ [Next]_vars => (IInv /\ AsDeclared)'
  <2> SUFFICES ASSUME IInv, AsDeclared, [Next]_vars PROVE (IInv /\ AsDeclared)'
    OBVIOUS
  <2>1. IInv'
    BY StartInvariant, ElementInvariant, ReturnInvariant, DoneInvariant, NextInvariant, StutterInvariant
       DEF Next
  <2>2. CapturesOutlast(declaration)
    BY DEF IInv
  <2>3. AsDeclared'
    BY <2>2, DeclaredStep
  <2> QED
    BY <2>1, <2>3
<1> QED
  BY <1>1, <1>2, PTL DEF Spec

LEMMA DeclaredArrays == ASSUME IInv, AsDeclared PROVE ArraysAsDeclared
<1> SUFFICES ASSUME Built, NEW n \in DOMAIN m_root, Len(n) < Len(declaration)
             PROVE  Extent(m_root[n].size) = DeclaredExtent(n)
  BY DEF ArraysAsDeclared, is_array
<1>1. DOMAIN loops = {}
  BY DEF IInv, Building, Built
<1>2. ~InLoop(loops, n)
  BY <1>1 DEF InLoop
<1>3. Extent(m_root[n].size) = ExtentIn(declaration, n)
  BY <1>2 DEF AsDeclared, LoopsDeclared
<1>4. ExtentIn(declaration, n) = DeclaredExtent(n)
  BY DEF ExtentIn, DeclaredExtent, CapturedIn, CapturedBefore
<1> QED
  BY <1>3, <1>4

(* Where no declaration captures an index again behind a dimension that    *)
(* uses the one captured before, every array of a finished tree, at any    *)
(* depth, has the extent that its dimension calls for at its own           *)
(* subscripts: m_captured_index, which init_node_ never puts back, is      *)
(* right whenever a dimension reads it.                                    *)
THEOREM DeclaredAreArrays ==
    ASSUME \A decl \in Declarations : CapturesOutlast(decl)
    PROVE  Spec => []ArraysAsDeclared
<1>1. IInv /\ AsDeclared => ArraysAsDeclared
  BY DeclaredArrays
<1> QED
  BY <1>1, AlwaysAsDeclared, PTL

-----------------------------------------------------------------------------
(* The elements are the leaves, and are handed out in order. *)

LEMMA BeforeIsNotEqual ==
    ASSUME NEW n \in Seq(Nat), NEW m, Order!Before(n, m)
    PROVE  n # m
<1> SUFFICES ASSUME n = m PROVE FALSE
  OBVIOUS
<1>1. PICK k \in DOMAIN n : n[k] < n[k]
  BY DEF Order!Before
<1>2. n[k] \in Nat
  OBVIOUS
<1> QED
  BY <1>1, <1>2

LEMMA BeforeBefore ==
    ASSUME NEW m \in Seq(Nat), NEW n \in Seq(Nat), NEW q \in Seq(Nat),
           Order!Before(m, n), Order!Before(n, q), Len(m) = Len(n), Len(n) = Len(q)
    PROVE  Order!Before(m, q)
<1>1. PICK j \in DOMAIN m \cap DOMAIN n : m[j] < n[j] /\ \A i \in 1..(j - 1) : m[i] = n[i]
  BY DEF Order!Before
<1>2. PICK k \in DOMAIN n \cap DOMAIN q : n[k] < q[k] /\ \A i \in 1..(k - 1) : n[i] = q[i]
  BY DEF Order!Before
<1>3. /\ j \in 1 .. Len(n) /\ k \in 1 .. Len(n) /\ Len(n) \in Nat
      /\ DOMAIN m = 1 .. Len(n) /\ DOMAIN q = 1 .. Len(n)
  OBVIOUS
<1>4. /\ m[j] \in Nat /\ n[j] \in Nat /\ q[j] \in Nat
      /\ m[k] \in Nat /\ n[k] \in Nat /\ q[k] \in Nat
  <2>1. j \in DOMAIN m /\ j \in DOMAIN n /\ j \in DOMAIN q /\ k \in DOMAIN m /\ k \in DOMAIN n /\ k \in DOMAIN q
    BY <1>3
  <2>2. m[j] \in Nat /\ m[k] \in Nat
    BY <2>1, SubscriptIsNat
  <2>3. n[j] \in Nat /\ n[k] \in Nat
    BY <2>1, SubscriptIsNat
  <2>4. q[j] \in Nat /\ q[k] \in Nat
    BY <2>1, SubscriptIsNat
  <2> QED
    BY <2>2, <2>3, <2>4
<1>5. CASE j <= k
  <2>1. m[j] < q[j]
    <3>1. CASE j = k
      BY <1>1, <1>2, <1>4, <3>1
    <3>2. CASE j < k
      <4>1. j \in 1 .. (k - 1)
        BY <1>3, <3>2
      <4> QED
        BY <1>1, <1>2, <4>1
    <3> QED
      BY <1>3, <1>5, <3>1, <3>2
  <2>2. \A i \in 1..(j - 1) : i \in 1 .. (k - 1)
    BY <1>3, <1>5
  <2>3. \A i \in 1..(j - 1) : m[i] = q[i]
    BY <1>1, <1>2, <2>2
  <2>4. j \in DOMAIN m \cap DOMAIN q
    BY <1>3
  <2> QED
    BY <2>1, <2>3, <2>4 DEF Order!Before
<1>6. CASE k < j
  <2>1. k \in 1 .. (j - 1)
    BY <1>3, <1>6
  <2>2. m[k] < q[k]
    BY <1>1, <1>2, <2>1
  <2>3. \A i \in 1..(k - 1) : i \in 1 .. (j - 1)
    BY <1>3, <1>6
  <2>4. \A i \in 1..(k - 1) : m[i] = q[i]
    BY <1>1, <1>2, <2>3
  <2>5. k \in DOMAIN m \cap DOMAIN q
    BY <1>3
  <2> QED
    BY <2>2, <2>4, <2>5 DEF Order!Before
<1> QED
  BY <1>3, <1>5, <1>6

(* What Elements says of one element. *)
LEMMA ElementsAre ==
    ASSUME NEW e
    PROVE  e \in Elements <=>
             /\ e \in [DOMAIN declaration -> Subscripts]
             /\ \A k \in DOMAIN declaration :
                   /\ DeclaredExtent(Up(e, k - 1)).is = "size"
                   /\ e[k] < DeclaredExtent(Up(e, k - 1)).n
  BY Zenon DEF Elements, Up

(* init_node_ has returned from every call. *)
Finished == status \in {"init", "ready", "end"} /\ loops = <<>>

LEMMA FinishedTree ==
    ASSUME IInv, AsDeclared, Finished
    PROVE  /\ declaration \in Declarations /\ Shape(m_root, Len(declaration)) /\ <<>> \in DOMAIN m_root
           /\ declaration \in Seq(Dimensions) /\ Len(declaration) \in Nat
           /\ \A n \in DOMAIN m_root : Len(n) < Len(declaration) => Extent(m_root[n].size) = DeclaredExtent(n)
<1>1. declaration \in Declarations /\ Shape(m_root, Len(declaration)) /\ <<>> \in DOMAIN m_root
  BY DEF IInv, Building, Finished
<1>2. declaration \in Seq(Dimensions) /\ Len(declaration) \in Nat
  BY <1>1, DeclarationIs DEF DeclarationFacts
<1>3. ASSUME NEW n \in DOMAIN m_root, Len(n) < Len(declaration)
      PROVE  Extent(m_root[n].size) = DeclaredExtent(n)
  <2>1. ~InLoop(loops, n)
    BY DEF Finished, InLoop
  <2>2. Extent(m_root[n].size) = ExtentIn(declaration, n)
    BY <1>3, <2>1 DEF AsDeclared, LoopsDeclared
  <2>3. ExtentIn(declaration, n) = DeclaredExtent(n)
    BY DEF ExtentIn, DeclaredExtent, CapturedIn, CapturedBefore
  <2> QED
    BY <2>2, <2>3
<1> QED
  BY <1>1, <1>2, <1>3

LEMMA LeafIsElement ==
    ASSUME IInv, AsDeclared, Finished, NEW e \in DOMAIN m_root, Len(e) = Len(declaration)
    PROVE  e \in Elements
<1>1. /\ Shape(m_root, Len(declaration)) /\ declaration \in Seq(Dimensions) /\ Len(declaration) \in Nat
      /\ \A n \in DOMAIN m_root : Len(n) < Len(declaration) => Extent(m_root[n].size) = DeclaredExtent(n)
  BY FinishedTree
<1>2. DOMAIN declaration = 1 .. Len(e) /\ e \in Seq(Nat) /\ Len(e) \in Nat
  BY <1>1, ShapeFacts
<1>3. e \in [DOMAIN declaration -> Subscripts]
  <2>1. e \in [1 .. Len(e) -> Subscripts]
    BY <1>1, NodeIsSubscripts
  <2> QED
    BY <1>2, <2>1
<1>4. ASSUME NEW k \in 1 .. Len(e)
      PROVE  /\ DeclaredExtent(Up(e, k - 1)).is = "size"
             /\ e[k] < DeclaredExtent(Up(e, k - 1)).n
  <2>1. PICK u : u = Up(e, k - 1)
    OBVIOUS
  <2>2. u \in DOMAIN m_root /\ e[k] < m_root[u].size
    BY <1>1, <2>1 DEF Shape
  <2>3. k - 1 \in 0 .. Len(e)
    BY <1>2
  <2>4. Len(u) = k - 1
    BY <1>2, <2>1, <2>3, UpFacts
  <2>5. Len(u) < Len(declaration)
    BY <1>2, <2>4
  <2>6. Extent(m_root[u].size) = DeclaredExtent(u)
    BY <1>1, <2>2, <2>5
  <2>7. Extent(m_root[u].size).is = "size" /\ Extent(m_root[u].size).n = m_root[u].size
    BY DEF Extent
  <2> QED
    BY <2>1, <2>2, <2>6, <2>7
<1> QED
  BY <1>2, <1>3, <1>4, ElementsAre

LEMMA ElementIsLeaf ==
    ASSUME IInv, AsDeclared, Finished, NEW e \in Elements
    PROVE  e \in DOMAIN m_root /\ Len(e) = Len(declaration) /\ e \in Seq(Nat)
<1>1. /\ Shape(m_root, Len(declaration)) /\ declaration \in Seq(Dimensions) /\ Len(declaration) \in Nat
      /\ <<>> \in DOMAIN m_root
      /\ \A n \in DOMAIN m_root : Len(n) < Len(declaration) => Extent(m_root[n].size) = DeclaredExtent(n)
  BY FinishedTree
<1>2. PICK depth \in Nat : depth = Len(declaration)
  BY <1>1
<1>3. DOMAIN declaration = 1 .. depth
  BY <1>1, <1>2
<1>4. /\ e \in [1 .. depth -> Subscripts]
      /\ \A k \in 1 .. depth :
            /\ DeclaredExtent(Up(e, k - 1)).is = "size"
            /\ e[k] < DeclaredExtent(Up(e, k - 1)).n
  BY <1>3, ElementsAre
<1>5. e \in Seq(Nat) /\ Len(e) = depth
  <2>1. Subscripts \subseteq Nat
    BY NodeSourceAssumption DEF Subscripts
  <2>2. e \in [1 .. depth -> Nat]
    BY <1>4, <2>1
  <2> QED
    BY <2>2
<1>6. PICK absent : absent = {k \in 0 .. depth : Up(e, k) \notin DOMAIN m_root}
  OBVIOUS
<1>7. absent = {}
  <2> SUFFICES ASSUME absent # {} PROVE FALSE
    OBVIOUS
  <2>1. absent \subseteq Nat
    BY <1>6
  <2>2. PICK k \in absent : \A j \in absent : k <= j
    BY <2>1, LeastOf
  <2>3. k \in 0 .. depth /\ Up(e, k) \notin DOMAIN m_root
    BY <1>6, <2>2
  <2>4. k # 0
    BY <1>1, <1>5, <2>3, UpNone
  <2>5. k \in 1 .. depth /\ k - 1 \in 0 .. depth
    BY <2>3, <2>4
  <2>6. PICK u : u = Up(e, k - 1)
    OBVIOUS
  <2>7. u \in DOMAIN m_root
    <3>1. k - 1 \notin absent
      BY <2>2, <2>3, <2>5
    <3> QED
      BY <1>6, <2>5, <2>6, <3>1
  <2>8. Len(u) = k - 1
    BY <1>5, <2>5, <2>6, UpFacts
  <2>9. Len(u) < Len(declaration)
    BY <1>2, <2>5, <2>8
  <2>10. Extent(m_root[u].size) = DeclaredExtent(u)
    BY <1>1, <2>7, <2>9
  <2>11. Extent(m_root[u].size).n = m_root[u].size
    BY DEF Extent
  <2>12. e[k] < m_root[u].size
    BY <1>4, <2>5, <2>6, <2>10, <2>11
  <2>13. m_root[u].size \in Nat /\ e[k] \in Nat
    BY <1>1, <1>5, <2>5, <2>7, ShapeFacts
  <2>14. e[k] \in 0 .. m_root[u].size - 1
    BY <2>12, <2>13
  <2>15. Append(u, e[k]) \in DOMAIN m_root
    BY <1>1, <2>7, <2>14 DEF Shape
  <2>16. Up(e, k) = Append(u, e[k])
    BY <1>5, <2>5, <2>6, UpNext
  <2> QED
    BY <2>3, <2>15, <2>16
<1>8. Up(e, depth) \in DOMAIN m_root
  BY <1>6, <1>7
<1>9. Up(e, depth) = e
  BY <1>5, UpWhole
<1> QED
  BY <1>2, <1>5, <1>8, <1>9

LEMMA SameElements ==
    ASSUME declaration' = declaration
    PROVE  Elements' = Elements
  BY DEF Elements, DeclaredExtent, CapturedBefore

LEMMA ElementIsEmpty ==
    ASSUME NEW nodes, NEW depth \in Nat, Shape(nodes, depth), NEW n \in DOMAIN nodes, Len(n) = depth
    PROVE  nodes[n].size = 0
<1>1. nodes[n].size \in Nat /\ n \in Seq(Nat)
  BY ShapeFacts
<1> SUFFICES ASSUME nodes[n].size > 0 PROVE FALSE
  BY <1>1
<1>2. 0 \in 0 .. nodes[n].size - 1
  BY <1>1
<1>3. PICK child : child = Append(n, 0)
  OBVIOUS
<1>4. child \in DOMAIN nodes
  BY <1>2, <1>3 DEF Shape
<1>5. Len(child) = depth + 1
  BY <1>1, <1>3, AppendFacts
<1>6. Len(child) <= depth
  BY <1>4 DEF Shape
<1> QED
  BY <1>5, <1>6

LEMMA AheadIs ==
    ASSUME NEW e
    PROVE  e \in Order!Ahead <=> e \in Elements /\ \A c \in m_ptree : Order!Before(c, e)
  BY Zenon DEF Order!Ahead

(* When the tree is finished every element is ahead, and no leaf is used. *)
LEMMA DoneAhead ==
    ASSUME IInv, AsDeclared, InitDone PROVE AheadUnseen'
<1>1. /\ loops = <<>> /\ status = "init" /\ status' = "ready" /\ m_root' = m_root
      /\ m_ptree' = m_ptree /\ declaration' = declaration
  BY DEF InitDone
<1>2. /\ m_ptree = {} /\ Unwalked(m_root, loops) /\ Shape(m_root, Len(declaration))
      /\ declaration \in Declarations
  BY <1>1 DEF IInv, Building
<1>3. Len(declaration) \in Nat
  BY <1>2, DeclarationIs DEF DeclarationFacts
<1>4. ASSUME NEW e \in Elements' PROVE e \in Unseen(m_root')
  <2>1. Finished
    BY <1>1 DEF Finished
  <2>2. e \in Elements
    BY <1>1, SameElements
  <2>3. e \in DOMAIN m_root /\ Len(e) = Len(declaration)
    BY <2>1, <2>2, ElementIsLeaf
  <2>4. m_root[e].size = 0
    BY <1>2, <1>3, <2>3, ElementIsEmpty
  <2>5. ~InLoop(loops, e)
    BY <1>1 DEF InLoop
  <2>6. m_root[e].index = FirstIndex(0)
    BY <1>2, <2>3, <2>4, <2>5 DEF Unwalked
  <2> QED
    BY <1>1, <2>3, <2>4, <2>6 DEF Unseen, FirstIndex
<1>5. Order!Ahead' = Elements'
  BY <1>1, <1>2 DEF Order!Ahead
<1>6. m_ptree' = {}
  BY <1>1, <1>2
<1> QED
  BY <1>4, <1>5, <1>6 DEF AheadUnseen

(* A step of next_ passes to the least element that is ahead. *)
LEMMA NextVisits ==
    ASSUME IInv, AsDeclared, AheadUnseen, next_
    PROVE  AheadUnseen' /\ Order!Next
<1>1. /\ Handed(m_root, Len(declaration), m_root', m_ptree')
      /\ status = "ready" /\ status' = (IF m_ptree' = {} THEN "end" ELSE "ready")
      /\ declaration' = declaration /\ Len(declaration) \in Nat
  BY NextTakes
<1>2. Finished
  BY <1>1 DEF IInv, Building, Finished
<1>3. \A e \in Elements : e \in DOMAIN m_root /\ Len(e) = Len(declaration) /\ e \in Seq(Nat)
  BY <1>2, ElementIsLeaf
<1>4. \A e \in DOMAIN m_root : Len(e) = Len(declaration) => e \in Elements
  BY <1>2, LeafIsElement
<1>5. Elements' = Elements
  BY <1>1, SameElements
<1>6. Order!Ahead = Elements \cap Unseen(m_root) /\ m_ptree \subseteq Elements
  BY <1>1 DEF AheadUnseen
<1>7. CASE m_ptree' = {} /\ \A n \in Unseen(m_root) : Len(n) < Len(declaration)
  <2>1. status' = "end"
    BY <1>1, <1>7
  <2>2. ASSUME NEW e \in Elements, e \in Unseen(m_root) PROVE FALSE
    BY <1>1, <1>3, <1>7, <2>2
  <2>3. Order!Ahead = {}
    BY <1>6, <2>2
  <2>4. Order!End
    BY <1>1, <1>5, <1>7, <2>1, <2>3 DEF Order!End
  <2>5. AheadUnseen'
    BY <2>1 DEF AheadUnseen
  <2> QED
    BY <2>4, <2>5 DEF Order!Next
<1>8. ASSUME NEW s \in Unseen(m_root), m_ptree' = {s}, ~(Len(s) < Len(declaration)),
             \A n \in Unseen(m_root) : ~(Len(n) < Len(declaration)) => n = s \/ Order!Before(s, n),
             \A n \in DOMAIN m_root : ~(Len(n) < Len(declaration)) =>
                 (n \in Unseen(m_root') <=> n \in Unseen(m_root) /\ n # s)
      PROVE  AheadUnseen' /\ Order!Next
  <2>1. status' = "ready"
    BY <1>1, <1>8
  <2>2. s \in DOMAIN m_root /\ Len(s) = Len(declaration)
    <3>1. s \in DOMAIN m_root
      BY DEF Unseen
    <3>2. Shape(m_root, Len(declaration))
      BY DEF IInv
    <3>3. Len(s) \in Nat /\ Len(s) <= Len(declaration)
      BY <3>1, <3>2, ShapeFacts DEF Shape
    <3> QED
      BY <1>1, <1>8, <3>1, <3>3
  <2>3. s \in Elements /\ s \in Seq(Nat)
    BY <1>3, <1>4, <2>2
  <2>4. s \in Order!Ahead
    BY <1>6, <2>3
  <2>5. \A e \in Elements : e \in Unseen(m_root) /\ e # s => Order!Before(s, e)
    BY <1>1, <1>3, <1>8
  <2>6. \A e \in Order!Ahead \ {s} : Order!Before(s, e)
    BY <1>6, <2>5
  <2>7. Order!Visit
    <3>1. (status' = "end") = FALSE /\ (status = "end") = FALSE
      BY <1>1, <2>1
    <3> QED
      BY <1>5, <1>8, <2>4, <2>6, <3>1 DEF Order!Visit
  <2>8. ASSUME NEW e \in Elements
        PROVE  Order!Before(s, e) <=> e \in Unseen(m_root')
    <3>1. e \in DOMAIN m_root /\ e \in Seq(Nat) /\ Len(e) = Len(declaration) /\ ~(Len(e) < Len(declaration))
      BY <1>1, <1>3
    <3>2. e \in Unseen(m_root') <=> e \in Unseen(m_root) /\ e # s
      BY <1>8, <3>1
    <3>3. ASSUME Order!Before(s, e) PROVE e \in Unseen(m_root) /\ e # s
      <4>1. s # e
        BY <2>3, <3>3, BeforeIsNotEqual
      <4>2. ASSUME NEW c \in m_ptree PROVE Order!Before(c, e)
        <5>1. Order!Before(c, s)
          BY <2>4, <4>2, AheadIs
        <5>2. c \in Elements
          BY <1>6, <4>2
        <5>3. c \in Seq(Nat) /\ Len(c) = Len(s) /\ Len(s) = Len(e)
          BY <1>3, <2>2, <3>1, <5>2
        <5> QED
          BY <2>3, <3>1, <3>3, <5>1, <5>3, BeforeBefore
      <4>3. e \in Order!Ahead
        BY <4>2, AheadIs
      <4> QED
        BY <1>6, <4>1, <4>3
    <3>4. ASSUME e \in Unseen(m_root), e # s PROVE Order!Before(s, e)
      BY <2>5, <3>4
    <3> QED
      BY <3>2, <3>3, <3>4
  <2>9. AheadUnseen'
    <3>1. Order!Ahead' = {e \in Elements : Order!Before(s, e)}
      BY <1>5, <1>8 DEF Order!Ahead
    <3>2. Order!Ahead' = Elements' \cap Unseen(m_root')
      BY <1>5, <2>8, <3>1
    <3>3. m_ptree' \subseteq Elements'
      BY <1>5, <1>8, <2>3
    <3> QED
      BY <3>2, <3>3 DEF AheadUnseen
  <2> QED
    BY <2>7, <2>9 DEF Order!Next
<1> QED
  BY <1>1, <1>7, <1>8 DEF Handed

LEMMA OtherSteps ==
    ASSUME IInv, AheadUnseen, init_ \/ InitElement \/ ReturnFromInit \/ UNCHANGED vars
    PROVE  AheadUnseen' /\ UNCHANGED Order!vars
<1>1. CASE init_ \/ InitElement \/ ReturnFromInit
  <2>1. declaration' = declaration /\ m_ptree' = m_ptree /\ status \in {"new", "init"}
    BY <1>1 DEF init_, InitElement, ReturnFromInit
  <2>2. status' \in {"init", "rejected", "thrown"}
    <3>1. CASE init_
      <4>1. init_node_(<<>>, <<>>, <<>>, m_captured_index) /\ declaration \in Declarations
        BY <3>1 DEF init_, IInv
      <4>2. PICK none : none = <<>>
        OBVIOUS
      <4>2a. none \in Seq(Nat)
        BY <4>2
      <4>3. Failed \/ \E cell \in Cells : Made(none, none, none, m_captured_index, cell)
        BY <4>1, <4>2, <4>2a, InitNodeMakes
      <4> QED
        BY <4>3 DEF Failed, Made
    <3>2. CASE InitElement
      <4>1. PICK top, parent, child, captured : Round(top, parent, child, captured)
        BY <3>2, ElementRounds
      <4> QED
        BY <4>1 DEF Round, Failed, Made
    <3>3. CASE ReturnFromInit
      BY <3>3 DEF ReturnFromInit
    <3> QED
      BY <1>1, <3>1, <3>2, <3>3
  <2>3. (status' = "end") = FALSE /\ (status = "end") = FALSE
    BY <2>1, <2>2
  <2>4. Elements' = Elements
    BY <2>1, SameElements
  <2> QED
    BY <2>1, <2>2, <2>3, <2>4 DEF AheadUnseen, Order!vars
<1>2. CASE UNCHANGED vars
  <2>1. /\ declaration' = declaration /\ m_root' = m_root /\ m_ptree' = m_ptree /\ status' = status
    BY <1>2 DEF vars
  <2>2. Elements' = Elements
    BY <2>1, SameElements
  <2>3. Order!Ahead' = Order!Ahead
    BY <2>1, <2>2 DEF Order!Ahead
  <2>4. UNCHANGED Order!vars
    BY <2>1, <2>2 DEF Order!vars
  <2> QED
    BY <2>1, <2>2, <2>3, <2>4 DEF AheadUnseen
<1> QED
  BY <1>1, <1>2

LEMMA DoneStutters == ASSUME InitDone PROVE UNCHANGED Order!vars
<1>1. declaration' = declaration /\ m_ptree' = m_ptree /\ status = "init" /\ status' = "ready"
  BY DEF InitDone
<1>2. Elements' = Elements
  BY <1>1, SameElements
<1>3. (status' = "end") = FALSE /\ (status = "end") = FALSE
  BY <1>1
<1> QED
  BY <1>1, <1>2, <1>3 DEF Order!vars

(* Under the same condition the leaves are exactly the elements declared,  *)
(* and the range-based for of emit_nodes_ is at each of them once, in      *)
(* ascending order of the subscripts, and at no empty array: next_ goes to *)
(* the least element ahead of the current one, and ends when there is none.*)
THEOREM Ordered ==
    ASSUME \A decl \in Declarations : CapturesOutlast(decl)
    PROVE  Spec => ElementsInOrder
<1>1. Init => AheadUnseen /\ Order!Init
  <2> SUFFICES ASSUME Init PROVE AheadUnseen /\ Order!Init
    OBVIOUS
  <2>1. m_ptree = {} /\ status = "new"
    BY DEF Init
  <2>2. (status = "end") = FALSE
    BY <2>1
  <2> QED
    BY <2>1, <2>2 DEF AheadUnseen, Order!Init
<1>2. (IInv /\ AsDeclared) /\ AheadUnseen /\ [Next]_vars => AheadUnseen' /\ [Order!Next]_(Order!vars)
  <2> SUFFICES ASSUME IInv, AsDeclared, AheadUnseen, [Next]_vars
               PROVE  AheadUnseen' /\ [Order!Next]_(Order!vars)
    OBVIOUS
  <2>1. CASE next_
    BY <2>1, NextVisits
  <2>2. CASE InitDone
    BY <2>2, DoneAhead, DoneStutters
  <2>3. CASE init_ \/ InitElement \/ ReturnFromInit \/ UNCHANGED vars
    BY <2>3, OtherSteps
  <2> QED
    BY <2>1, <2>2, <2>3 DEF Next
<1>3. Spec => [](IInv /\ AsDeclared)
  BY AlwaysAsDeclared
<1> QED
  BY <1>1, <1>2, <1>3, PTL DEF Spec, ElementsInOrder, Order!Spec
=============================================================================
