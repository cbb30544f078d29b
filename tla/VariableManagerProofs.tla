------------------------ MODULE VariableManagerProofs ------------------------
(***************************************************************************)
(* The local variables live exactly as long as their scopes, for every set *)
(* of names, values and nodes and every nesting depth.                     *)
(***************************************************************************)
EXTENDS VariableManager, TLAPS

(* What an operation returns is always well formed. *)
LEMMA ExternalType ==
    ASSUME TypeOK, NEW n \in Names
    PROVE  External(n) \in [kind : {"done", "value", "threw"}, value : Int]
  <1> USE ResolutionAssumption DEF TypeOK, TreeTypeOK, Data
  <1> DEFINE p == IF n \in DOMAIN tree[parent] THEN parent ELSE Root
  <1>1. p \in Nodes
    OBVIOUS
  <1>2. CASE n \in DOMAIN tree[p] /\ tree[p][n] # NonInteger
    <2>1. tree[p][n] \in Int
      BY <1>1, <1>2
    <2>2. External(n) = Value(tree[p][n])
      BY <1>2 DEF External
    <2>. QED BY <2>1, <2>2 DEF Value
  <1>3. CASE n \in DOMAIN tree[p] /\ tree[p][n] = NonInteger
    BY <1>3 DEF External, Threw
  <1>4. CASE n \notin DOMAIN tree[p] /\ n \in DOMAIN Consts
    BY <1>4 DEF External, Value
  <1>5. CASE n \notin DOMAIN tree[p] /\ n \notin DOMAIN Consts
    BY <1>5 DEF External, Threw
  <1>. QED BY <1>2, <1>3, <1>4, <1>5

LEMMA GetType ==
    ASSUME TypeOK, NEW n \in Names
    PROVE  get(n) \in [kind : {"done", "value", "threw"}, value : Int]
  <1>1. CASE n \in EnumRefs
    BY <1>1, ResolutionAssumption DEF get, EnumeratorValue, Value, Threw
  <1>2. CASE n \notin EnumRefs /\ n \in DOMAIN lookup
    BY <1>2, ResolutionAssumption DEF get, Value, TypeOK
  <1>3. CASE n \notin EnumRefs /\ n \notin DOMAIN lookup
    <2>1. get(n) = External(n)
      BY <1>3 DEF get
    <2>. QED BY <2>1, ExternalType
  <1>. QED BY <1>1, <1>2, <1>3

(* The parser's own steps keep the tree well formed. *)
LEMMA SurroundingsType ==
    ASSUME TypeOK, Surroundings
    PROVE  TreeTypeOK'
  <1> USE ResolutionAssumption DEF TypeOK, TreeTypeOK
  <1>1. ASSUME NEW n \in TreeNames, NEW d \in Data, AddNode(n, d)
        PROVE  TreeTypeOK'
    <2>1. CASE n \in DOMAIN tree[parent]
      BY <1>1, <2>1 DEF AddNode
    <2>2. CASE n \notin DOMAIN tree[parent]
      <3> DEFINE f == [m \in DOMAIN tree[parent] \cup {n} |->
                          IF m = n THEN d ELSE tree[parent][m]]
      <3>1. tree' = [tree EXCEPT ![parent] = f] /\ parent' = parent
        BY <1>1, <2>2 DEF AddNode
      <3>2. DOMAIN f \subseteq Names /\ \A m \in DOMAIN f : f[m] \in Data
        BY <1>1
      <3> HIDE DEF f
      <3>. QED BY <3>1, <3>2
    <2>. QED BY <2>1, <2>2
  <1>2. ASSUME NEW p \in Nodes, SetParent(p)
        PROVE  TreeTypeOK'
    BY <1>2 DEF SetParent
  <1>. QED BY <1>1, <1>2 DEF Surroundings

LEMMA InitTypeOK == Init => TypeOK
  <1> SUFFICES ASSUME Init PROVE TypeOK
    OBVIOUS
  <1>1. TreeTypeOK
    BY ResolutionAssumption DEF Init, TreeInit, TreeTypeOK
  <1>. QED BY <1>1 DEF Init, TypeOK, Done

LEMMA NextTypeOK == TypeOK /\ [Next]_vars => TypeOK'
  <1> SUFFICES ASSUME TypeOK, [Next]_vars PROVE TypeOK'
    OBVIOUS
  <1> USE ResolutionAssumption DEF TypeOK
  <1>1. CASE Push
    BY <1>1 DEF Push, push, Done, TreeTypeOK
  <1>2. CASE Pop
    <2>1. scopes' \in Seq(SUBSET Names)
      BY <1>2 DEF Pop, pop
    <2>2. /\ DOMAIN lookup' \subseteq Names
          /\ \A n \in DOMAIN lookup' : lookup'[n] \in Values
      BY <1>2 DEF Pop, pop, Erase
    <2>. QED BY <1>2, <2>1, <2>2 DEF Pop, Done, TreeTypeOK
  <1>3. ASSUME NEW n \in Declarable, NEW v \in Values, Add(n, v)
        PROVE  TypeOK'
    <2>1. CASE add(n, v) /\ outcome' = Done
      <3>1. scopes' \in Seq(SUBSET Names)
        BY <1>3, <2>1 DEF Add, add, Declarable
      <3>2. /\ DOMAIN lookup' \subseteq Names
            /\ \A m \in DOMAIN lookup' : lookup'[m] \in Values
        BY <2>1 DEF add, Store, Declarable
      <3>. QED BY <1>3, <2>1, <3>1, <3>2 DEF Add, Done, TreeTypeOK
    <2>2. CASE outcome' = Threw /\ UNCHANGED <<lookup, scopes>>
      BY <1>3, <2>2 DEF Add, Threw, TreeTypeOK
    <2>. QED BY <1>3, <2>1, <2>2 DEF Add
  <1>4. ASSUME NEW n \in Declarable, NEW v \in Values, Set(n, v)
        PROVE  TypeOK'
    <2>1. CASE set(n, v) /\ outcome' = Done
      <3>1. /\ DOMAIN lookup' \subseteq Names
            /\ \A m \in DOMAIN lookup' : lookup'[m] \in Values
        BY <2>1 DEF set, Store, Declarable
      <3>. QED BY <1>4, <2>1, <3>1 DEF Set, set, Done, TreeTypeOK
    <2>2. CASE outcome' = Threw /\ UNCHANGED <<lookup, scopes>>
      BY <1>4, <2>2 DEF Set, Threw, TreeTypeOK
    <2>. QED BY <1>4, <2>1, <2>2 DEF Set
  <1>5. ASSUME NEW n \in Names, Get(n)
        PROVE  TypeOK'
    BY <1>5, GetType DEF Get, TreeTypeOK
  <1>6. CASE Surroundings
    BY <1>6, SurroundingsType DEF Surroundings, Done
  <1>7. CASE UNCHANGED vars
    BY <1>7 DEF vars, TreeTypeOK
  <1>. QED BY <1>1, <1>2, <1>3, <1>4, <1>5, <1>6, <1>7 DEF Next

(* Every operation leaves the table, the scopes and the tree well formed,  *)
(* and no result is anything but a return, an integer or an exception.     *)
THEOREM TypeCorrect == Spec => []TypeOK
  BY InitTypeOK, NextTypeOK, PTL DEF Spec

(* Pushing and popping a sequence of sets: what becomes of its domain. *)
LEMMA AppendDomain ==
    ASSUME NEW S, NEW q \in Seq(S), NEW e \in S
    PROVE  /\ DOMAIN Append(q, e) = DOMAIN q \cup {Len(q) + 1}
           /\ Len(q) + 1 \notin DOMAIN q
           /\ Append(q, e)[Len(q) + 1] = e
           /\ \A i \in DOMAIN q : Append(q, e)[i] = q[i]
  <1>1. Len(q) \in Nat /\ DOMAIN q = 1 .. Len(q)
    OBVIOUS
  <1>2. Append(q, e) \in Seq(S) /\ Len(Append(q, e)) = Len(q) + 1
    OBVIOUS
  <1>3. DOMAIN Append(q, e) = 1 .. Len(q) + 1
    BY <1>2
  <1>. QED BY <1>1, <1>3

LEMMA SequenceIsFunction ==
    ASSUME NEW S, NEW q \in Seq(S)
    PROVE  q = [i \in DOMAIN q |-> q[i]]
  OBVIOUS

LEMMA FrontDomain ==
    ASSUME NEW S, NEW q \in Seq(S), q # <<>>
    PROVE  LET f == SubSeq(q, 1, Len(q) - 1)
           IN  /\ Len(q) \in DOMAIN q
               /\ DOMAIN f = DOMAIN q \ {Len(q)}
               /\ \A i \in DOMAIN f : f[i] = q[i]
  <1>1. Len(q) \in Nat \ {0} /\ DOMAIN q = 1 .. Len(q)
    OBVIOUS
  <1>2. DOMAIN SubSeq(q, 1, Len(q) - 1) = 1 .. Len(q) - 1
    BY <1>1
  <1>3. \A i \in 1 .. Len(q) - 1 : SubSeq(q, 1, Len(q) - 1)[i] = q[i]
    BY <1>1
  <1>. QED BY <1>1, <1>2, <1>3

(* A step keeps the table and the scopes in agreement. *)
LEMMA NextOwnLookup ==
    ASSUME TypeOK, ScopesOwnLookup, [Next]_vars
    PROVE  ScopesOwnLookup'
  <1> USE DEF TypeOK, ScopesOwnLookup
  <1> DEFINE Last == Len(scopes)
  <1>1. CASE Push
    <2>1. /\ DOMAIN scopes' = DOMAIN scopes \cup {Last + 1}
          /\ Last + 1 \notin DOMAIN scopes
          /\ scopes'[Last + 1] = {}
          /\ \A i \in DOMAIN scopes : scopes'[i] = scopes[i]
      BY <1>1, AppendDomain DEF Push, push
    <2>2. UNCHANGED lookup
      BY <1>1 DEF Push, push
    <2> HIDE DEF TypeOK
    <2>3. UNION {scopes'[i] : i \in DOMAIN scopes'} = UNION {scopes[i] : i \in DOMAIN scopes}
      BY <2>1
    <2>4. \A i, j \in DOMAIN scopes' : i # j => scopes'[i] \cap scopes'[j] = {}
      BY <2>1
    <2>. QED BY <2>2, <2>3, <2>4
  <1>2. CASE Pop
    <2>1. /\ Last \in DOMAIN scopes
          /\ DOMAIN scopes' = DOMAIN scopes \ {Last}
          /\ \A i \in DOMAIN scopes' : scopes'[i] = scopes[i]
      <3>1. scopes # <<>> /\ scopes' = SubSeq(scopes, 1, Len(scopes) - 1)
        BY <1>2 DEF Pop, pop
      <3>2. scopes \in Seq(SUBSET Names)
        OBVIOUS
      <3> HIDE DEF TypeOK, ScopesOwnLookup
      <3>. QED BY <3>1, <3>2, FrontDomain
    <2>2. DOMAIN lookup' = DOMAIN lookup \ scopes[Last]
      BY <1>2 DEF Pop, pop, Erase
    <2>. QED BY <2>1, <2>2
  <1>3. ASSUME NEW n \in Declarable, NEW v \in Values, Add(n, v)
        PROVE  ScopesOwnLookup'
    <2>1. CASE CanAdd(n) /\ add(n, v)
      <3>1. /\ Last \in DOMAIN scopes
            /\ DOMAIN scopes' = DOMAIN scopes
            /\ scopes'[Last] = scopes[Last] \cup {n}
            /\ \A i \in DOMAIN scopes : i # Last => scopes'[i] = scopes[i]
        BY <1>3, <2>1 DEF Add, add
      <3>2. DOMAIN lookup' = DOMAIN lookup \cup {n}
        BY <2>1 DEF add, Store
      <3>3. n \notin DOMAIN lookup
        BY <2>1 DEF CanAdd
      <3>. QED BY <3>1, <3>2, <3>3
    <2>2. CASE UNCHANGED <<lookup, scopes>>
      BY <2>2
    <2>. QED BY <1>3, <2>1, <2>2 DEF Add
  <1>4. ASSUME NEW n \in Declarable, NEW v \in Values, Set(n, v)
        PROVE  ScopesOwnLookup'
    <2>1. CASE CanSet(n) /\ set(n, v)
      BY <2>1 DEF CanSet, set, Store
    <2>2. CASE UNCHANGED <<lookup, scopes>>
      BY <2>2
    <2>. QED BY <1>4, <2>1, <2>2 DEF Set
  <1>5. ASSUME NEW n \in Names, Get(n)
        PROVE  ScopesOwnLookup'
    BY <1>5 DEF Get
  <1>6. CASE Surroundings
    BY <1>6 DEF Surroundings
  <1>7. CASE UNCHANGED vars
    BY <1>7 DEF vars
  <1>. QED BY <1>1, <1>2, <1>3, <1>4, <1>5, <1>6, <1>7 DEF Next

(* The flat table never holds a name no open scope answers for, and no     *)
(* name has two scopes: leaving a loop erases its variables and only them. *)
THEOREM VariablesLiveWithTheirScope == Spec => []ScopesOwnLookup
  <1>1. Init => ScopesOwnLookup
    BY DEF Init, ScopesOwnLookup
  <1>2. TypeOK /\ ScopesOwnLookup /\ [Next]_vars => ScopesOwnLookup'
    BY NextOwnLookup
  <1>. QED BY <1>1, <1>2, TypeCorrect, PTL DEF Spec

-----------------------------------------------------------------------------
(* The refinement.  Every environment is a function from its scope's names *)
(* to values; they form a sequence as long as the stack of scopes.         *)

Frames == UNION {[S -> Int] : S \in SUBSET Names}

LEMMA EnvironmentsType ==
    ASSUME TypeOK, ScopesOwnLookup
    PROVE  /\ Environments \in Seq(Frames)
           /\ Len(Environments) = Len(scopes)
           /\ DOMAIN Environments = DOMAIN scopes
           /\ \A i \in DOMAIN scopes :
                 /\ DOMAIN Environments[i] = scopes[i]
                 /\ \A n \in scopes[i] : Environments[i][n] = lookup[n]
  <1>1. DOMAIN scopes = 1 .. Len(scopes) /\ Len(scopes) \in Nat
    BY DEF TypeOK
  <1>2. ASSUME NEW i \in DOMAIN scopes
        PROVE  [n \in scopes[i] |-> lookup[n]] \in Frames
    <2>1. scopes[i] \in SUBSET Names /\ scopes[i] \subseteq DOMAIN lookup
      BY DEF TypeOK, ScopesOwnLookup
    <2>2. \A n \in scopes[i] : lookup[n] \in Int
      BY <2>1, ResolutionAssumption DEF TypeOK
    <2>. QED BY <2>1, <2>2 DEF Frames
  <1>3. Environments = [i \in 1 .. Len(scopes) |-> [n \in scopes[i] |-> lookup[n]]]
    BY <1>1 DEF Environments
  <1>4. Environments \in Seq(Frames) /\ Len(Environments) = Len(scopes)
    BY <1>1, <1>2, <1>3
  <1>. QED BY <1>1, <1>3, <1>4

(* A name is visible in the environments exactly when it is in the table,  *)
(* and only one environment binds it.                                      *)
LEMMA VisibleInTable ==
    ASSUME TypeOK, ScopesOwnLookup, NEW n
    PROVE  /\ Promise!Visible(n) <=> n \in DOMAIN lookup
           /\ n \in DOMAIN lookup =>
                /\ Promise!Innermost(n) \in DOMAIN scopes
                /\ n \in scopes[Promise!Innermost(n)]
  <1>1. /\ DOMAIN Environments = DOMAIN scopes
        /\ \A i \in DOMAIN scopes : DOMAIN Environments[i] = scopes[i]
    BY EnvironmentsType
  <1>2. Promise!Visible(n) <=> n \in DOMAIN lookup
    BY <1>1 DEF Promise!Visible, ScopesOwnLookup
  <1>3. ASSUME n \in DOMAIN lookup
        PROVE  /\ Promise!Innermost(n) \in DOMAIN scopes
               /\ n \in scopes[Promise!Innermost(n)]
    <2> DEFINE P(i) == /\ n \in DOMAIN Environments[i]
                       /\ \A j \in DOMAIN Environments : j > i => n \notin DOMAIN Environments[j]
    <2>1. PICK i \in DOMAIN scopes : n \in scopes[i]
      BY <1>3 DEF ScopesOwnLookup
    <2>2. \A j \in DOMAIN Environments : j # i => n \notin DOMAIN Environments[j]
      BY <1>1, <2>1 DEF ScopesOwnLookup
    <2>3. DOMAIN scopes \subseteq Int
      BY DEF TypeOK
    <2>4. i \in DOMAIN Environments /\ P(i)
      BY <1>1, <2>1, <2>2, <2>3
    <2>5. Promise!Innermost(n) = CHOOSE k \in DOMAIN Environments : P(k)
      BY DEF Promise!Innermost
    <2> HIDE DEF P
    <2>6. Promise!Innermost(n) \in DOMAIN Environments /\ P(Promise!Innermost(n))
      BY <2>4, <2>5
    <2>. QED BY <1>1, <2>6 DEF P
  <1>. QED BY <1>2, <1>3

LEMMA PushEnters ==
    ASSUME TypeOK, ScopesOwnLookup, Push
    PROVE  Promise!Enter
  <1> DEFINE Empty == [n \in {} |-> 0]
  <1>1. Empty \in Frames
    <2>1. Empty \in [{} -> Int]
      OBVIOUS
    <2>. QED BY <2>1 DEF Frames
  <1>2. /\ Environments \in Seq(Frames)
        /\ Len(Environments) = Len(scopes)
        /\ DOMAIN Environments = DOMAIN scopes
    BY EnvironmentsType
  <1>3. /\ DOMAIN scopes' = DOMAIN scopes \cup {Len(scopes) + 1}
        /\ Len(scopes) + 1 \notin DOMAIN scopes
        /\ scopes'[Len(scopes) + 1] = {}
        /\ \A i \in DOMAIN scopes : scopes'[i] = scopes[i]
        /\ lookup' = lookup
    BY AppendDomain DEF Push, push, TypeOK
  <1>4. /\ DOMAIN Append(Environments, Empty) = DOMAIN scopes \cup {Len(scopes) + 1}
        /\ Append(Environments, Empty)[Len(scopes) + 1] = Empty
        /\ \A i \in DOMAIN scopes : Append(Environments, Empty)[i] = Environments[i]
    BY <1>1, <1>2, AppendDomain
  <1>5. Append(Environments, Empty) =
          [i \in DOMAIN Append(Environments, Empty) |-> Append(Environments, Empty)[i]]
    <2>1. Append(Environments, Empty) \in Seq(Frames)
      BY <1>1, <1>2
    <2>. QED BY <2>1, SequenceIsFunction
  <1>6. Environments' = [i \in DOMAIN scopes' |-> [n \in scopes'[i] |-> lookup'[n]]]
    BY DEF Environments
  <1>7. \A i \in DOMAIN scopes' :
          Append(Environments, Empty)[i] = [n \in scopes'[i] |-> lookup'[n]]
    <2>1. [n \in scopes'[Len(scopes) + 1] |-> lookup'[n]] = Empty
      BY <1>3
    <2>. QED BY <1>3, <1>4, <2>1 DEF Environments
  <1>8. Environments' = Append(Environments, Empty)
    BY <1>3, <1>4, <1>5, <1>6, <1>7
  <1>. QED BY <1>8 DEF Promise!Enter, Push, Promise!Done, Done

LEMMA PopLeaves ==
    ASSUME TypeOK, ScopesOwnLookup, Pop
    PROVE  Promise!Leave
  <1> DEFINE Rest == SubSeq(Environments, 1, Len(Environments) - 1)
  <1>1. /\ Environments \in Seq(Frames)
        /\ Len(Environments) = Len(scopes)
        /\ DOMAIN Environments = DOMAIN scopes
    BY EnvironmentsType
  <1>2. scopes # <<>> /\ scopes \in Seq(SUBSET Names)
    BY DEF Pop, TypeOK
  <1>3. /\ Len(scopes) \in DOMAIN scopes
        /\ DOMAIN scopes' = DOMAIN scopes \ {Len(scopes)}
        /\ \A i \in DOMAIN scopes' : scopes'[i] = scopes[i]
    <2>1. scopes' = SubSeq(scopes, 1, Len(scopes) - 1)
      BY DEF Pop, pop
    <2>. QED BY <1>2, <2>1, FrontDomain
  <1>4. Environments # <<>>
    BY <1>1, <1>3
  <1>5. /\ DOMAIN Rest = DOMAIN Environments \ {Len(Environments)}
        /\ \A i \in DOMAIN Rest : Rest[i] = Environments[i]
    BY <1>1, <1>4, FrontDomain
  <1>6. Rest = [i \in DOMAIN Rest |-> Rest[i]]
    BY <1>1
  <1>7. lookup' = [n \in DOMAIN lookup \ scopes[Len(scopes)] |-> lookup[n]]
    BY DEF Pop, pop, Erase
  <1>8. ASSUME NEW i \in DOMAIN scopes'
        PROVE  Rest[i] = [n \in scopes'[i] |-> lookup'[n]]
    <2>1. i \in DOMAIN scopes /\ i # Len(scopes) /\ scopes'[i] = scopes[i]
      BY <1>3
    <2>2. scopes[i] \subseteq DOMAIN lookup \ scopes[Len(scopes)]
      BY <1>3, <2>1 DEF ScopesOwnLookup
    <2>3. \A n \in scopes[i] : lookup'[n] = lookup[n]
      BY <1>7, <2>2
    <2>4. Rest[i] = [n \in scopes[i] |-> lookup[n]]
      BY <1>1, <1>3, <1>5, <2>1 DEF Environments
    <2>. QED BY <2>1, <2>3, <2>4
  <1>9. Environments' = [i \in DOMAIN scopes' |-> [n \in scopes'[i] |-> lookup'[n]]]
    BY DEF Environments
  <1>10. DOMAIN Rest = DOMAIN scopes'
    BY <1>1, <1>3, <1>5
  <1> HIDE DEF Rest
  <1>11. Environments' = Rest
    BY <1>6, <1>8, <1>9, <1>10
  <1>. QED BY <1>4, <1>11 DEF Rest, Promise!Leave, Pop, Promise!Done, Done

(* Storing a name in the table is binding it in the environment whose      *)
(* scope has it, and in no other.                                          *)
LEMMA StoreBinds ==
    ASSUME TypeOK, ScopesOwnLookup,
           NEW k \in DOMAIN scopes, NEW n \in Names, NEW v \in Values,
           n \in scopes[k] \/ n \notin DOMAIN lookup,
           lookup' = Store(n, v),
           scopes' = [scopes EXCEPT ![k] = @ \cup {n}]
    PROVE  Environments' = [Environments EXCEPT ![k] = Promise!Bind(@, n, v)]
  <1>1. /\ Environments \in Seq(Frames)
        /\ DOMAIN Environments = DOMAIN scopes
        /\ \A i \in DOMAIN scopes :
              /\ DOMAIN Environments[i] = scopes[i]
              /\ \A m \in scopes[i] : Environments[i][m] = lookup[m]
    BY EnvironmentsType
  <1>2. /\ DOMAIN scopes' = DOMAIN scopes
        /\ scopes'[k] = scopes[k] \cup {n}
        /\ \A i \in DOMAIN scopes : i # k => scopes'[i] = scopes[i]
    BY DEF TypeOK
  <1>3. Environments' = [i \in DOMAIN scopes |-> [m \in scopes'[i] |-> lookup'[m]]]
    BY <1>2 DEF Environments
  <1>4. \A i \in DOMAIN scopes : scopes[i] \subseteq DOMAIN lookup
    BY DEF ScopesOwnLookup
  <1>5. [m \in scopes'[k] |-> lookup'[m]] = Promise!Bind(Environments[k], n, v)
    <2>1. \A m \in scopes[k] \cup {n} :
            lookup'[m] = IF m = n THEN v ELSE Environments[k][m]
      BY <1>1, <1>4 DEF Store
    <2>2. Promise!Bind(Environments[k], n, v) =
            [m \in scopes[k] \cup {n} |-> IF m = n THEN v ELSE Environments[k][m]]
      BY <1>1 DEF Promise!Bind
    <2>. QED BY <1>2, <2>1, <2>2
  <1>6. ASSUME NEW i \in DOMAIN scopes, i # k
        PROVE  [m \in scopes'[i] |-> lookup'[m]] = Environments[i]
    <2>1. n \notin scopes[i]
      BY <1>4, <1>6 DEF ScopesOwnLookup
    <2>2. \A m \in scopes[i] : lookup'[m] = lookup[m]
      BY <1>4, <2>1 DEF Store
    <2>3. Environments[i] = [m \in scopes[i] |-> lookup[m]]
      BY DEF Environments
    <2>. QED BY <1>2, <1>6, <2>2, <2>3
  <1>7. Environments = [i \in DOMAIN scopes |-> Environments[i]]
    BY DEF Environments
  <1>. QED BY <1>1, <1>3, <1>5, <1>6, <1>7

LEMMA AddDeclares ==
    ASSUME TypeOK, ScopesOwnLookup,
           NEW n \in Declarable, NEW v \in Values, Add(n, v)
    PROVE  Promise!Declare(n, v)
  <1>1. /\ Environments # <<>>
        /\ Len(Environments) = Len(scopes)
        /\ Len(scopes) \in DOMAIN scopes
    <2>1. Environments \in Seq(Frames) /\ Len(Environments) = Len(scopes)
      BY EnvironmentsType
    <2>2. scopes # <<>> /\ scopes \in Seq(SUBSET Names)
      BY DEF Add, TypeOK
    <2>. QED BY <2>1, <2>2, FrontDomain
  <1>2. Promise!Visible(n) <=> n \in DOMAIN lookup
    BY VisibleInTable
  <1>3. CASE CanAdd(n) /\ add(n, v) /\ outcome' = Done
    <2>1. Environments' = [Environments EXCEPT ![Len(scopes)] = Promise!Bind(@, n, v)]
      BY <1>1, <1>3, StoreBinds DEF CanAdd, add, Declarable
    <2>2. ~(n \in Dotted \/ Promise!Visible(n))
      BY <1>2, <1>3 DEF CanAdd
    <2>. QED BY <1>1, <1>3, <2>1, <2>2 DEF Promise!Declare, Add, Promise!Done, Done
  <1>4. CASE ~CanAdd(n) /\ outcome' = Threw /\ UNCHANGED <<lookup, scopes>>
    <2>1. Environments' = Environments
      BY <1>4 DEF Environments
    <2>2. n \in Dotted \/ Promise!Visible(n)
      BY <1>2, <1>4 DEF CanAdd
    <2>. QED BY <1>1, <1>4, <2>1, <2>2 DEF Promise!Declare, Add, Promise!Threw, Threw
  <1>. QED BY <1>3, <1>4 DEF Add

LEMMA SetAssigns ==
    ASSUME TypeOK, ScopesOwnLookup,
           NEW n \in Declarable, NEW v \in Values, Set(n, v)
    PROVE  Promise!Assign(n, v)
  <1> DEFINE k == Promise!Innermost(n)
  <1>1. Promise!Visible(n) <=> n \in DOMAIN lookup
    BY VisibleInTable
  <1>2. CASE CanSet(n) /\ set(n, v) /\ outcome' = Done
    <2>1. k \in DOMAIN scopes /\ n \in scopes[k]
      BY <1>2, VisibleInTable DEF CanSet
    <2>2. scopes' = [scopes EXCEPT ![k] = @ \cup {n}]
      BY <1>2, <2>1 DEF set, TypeOK
    <2>3. lookup' = Store(n, v)
      BY <1>2 DEF set
    <2>4. n \in Names
      BY DEF Declarable
    <2> HIDE DEF k
    <2>5. Environments' = [Environments EXCEPT ![k] = Promise!Bind(@, n, v)]
      BY <2>1, <2>2, <2>3, <2>4, StoreBinds
    <2>6. ~(n \in Dotted \/ ~Promise!Visible(n))
      BY <1>1, <1>2 DEF CanSet
    <2>. QED BY <1>2, <2>5, <2>6 DEF k, Promise!Assign, Set, Promise!Done, Done
  <1>3. CASE ~CanSet(n) /\ outcome' = Threw /\ UNCHANGED <<lookup, scopes>>
    <2>1. Environments' = Environments
      BY <1>3 DEF Environments
    <2>2. n \in Dotted \/ ~Promise!Visible(n)
      BY <1>1, <1>3 DEF CanSet
    <2>. QED BY <1>3, <2>1, <2>2 DEF Promise!Assign, Set, Promise!Threw, Threw
  <1>. QED BY <1>2, <1>3 DEF Set

LEMMA GetReads ==
    ASSUME TypeOK, ScopesOwnLookup, NEW n \in Names, Get(n)
    PROVE  Promise!Read(n)
  <1> DEFINE k == Promise!Innermost(n)
  <1>1. Promise!Visible(n) <=> n \in DOMAIN lookup
    BY VisibleInTable
  <1>2. n \in DOMAIN lookup => Environments[k][n] = lookup[n]
    <2>1. ASSUME n \in DOMAIN lookup
          PROVE  k \in DOMAIN scopes /\ n \in scopes[k]
      BY <2>1, VisibleInTable
    <2> HIDE DEF k
    <2>. QED BY <2>1, EnvironmentsType
  <1>3. Environments' = Environments
    BY DEF Get, Environments
  <1>4. get(n) = CASE n \in EnumRefs -> Promise!EnumeratorValue(n)
                   [] n \notin EnumRefs /\ Promise!Visible(n) ->
                        Promise!Value(Environments[k][n])
                   [] OTHER -> Promise!External(n)
    BY <1>1, <1>2 DEF get, EnumeratorValue, Promise!EnumeratorValue, External,
       Promise!External, Value, Promise!Value, Threw, Promise!Threw
  <1>. QED BY <1>3, <1>4 DEF Promise!Read, Get

LEMMA NextImplements ==
    ASSUME TypeOK, ScopesOwnLookup, [Next]_vars
    PROVE  [Promise!Next]_(Promise!envVars)
  <1>1. CASE Push
    BY <1>1, PushEnters DEF Promise!Next
  <1>2. CASE Pop
    BY <1>2, PopLeaves DEF Promise!Next
  <1>3. ASSUME NEW n \in Declarable, NEW v \in Values, Add(n, v) \/ Set(n, v)
        PROVE  Promise!Next
    <2>1. Promise!Declare(n, v) \/ Promise!Assign(n, v)
      BY <1>3, AddDeclares, SetAssigns
    <2>. QED BY <2>1 DEF Promise!Next, Promise!Declarable, Declarable
  <1>4. ASSUME NEW n \in Names, Get(n)
        PROVE  Promise!Next
    BY <1>4, GetReads DEF Promise!Next
  <1>5. CASE Surroundings
    <2>1. Environments' = Environments
      BY <1>5 DEF Surroundings, Environments
    <2>2. Promise!Surroundings
      BY <1>5, <2>1 DEF Surroundings, Promise!Surroundings, AddNode, Promise!AddNode,
         SetParent, Promise!SetParent, Data, Promise!Data, Done, Promise!Done
    <2>. QED BY <2>2 DEF Promise!Next
  <1>6. CASE UNCHANGED vars
    BY <1>6 DEF vars, Promise!envVars, Environments
  <1>. QED BY <1>1, <1>2, <1>3, <1>4, <1>5, <1>6 DEF Next

LEMMA InitImplements == Init => Promise!Init
  <1> SUFFICES ASSUME Init PROVE Promise!Init
    OBVIOUS
  <1>1. Environments = <<>>
    BY DEF Init, Environments
  <1>. QED BY <1>1 DEF Init, Promise!Init, TreeInit, Promise!TreeInit, Done, Promise!Done

(* The flat table with its stack of names implements a stack of separate   *)
(* environments, whatever the names, the values and the depth: no open     *)
(* loop ever sees, changes or forgets another's variable.                  *)
THEOREM RefinesScopedEnvironment == Spec => ImplementsScopedEnvironment
  <1>1. TypeOK /\ ScopesOwnLookup /\ [Next]_vars => [Promise!Next]_(Promise!envVars)
    BY NextImplements
  <1>. QED BY <1>1, InitImplements, TypeCorrect, VariablesLiveWithTheirScope, PTL
       DEF Spec, ImplementsScopedEnvironment, Promise!Spec
=============================================================================
