--------------------------- MODULE PhaseTwoProofs ---------------------------
(***************************************************************************)
(* The call stack of phase two and what it opens stay in step, for every   *)
(* set of schemas and saves: each context, scope and parent of the parser  *)
(* is left exactly when the production that entered it is, and none is     *)
(* used while there is none.                                               *)
(***************************************************************************)
EXTENDS GrammarProofs, FiniteSetTheorems, SequenceTheorems, TLAPS

-----------------------------------------------------------------------------
(* The invariant. *)

Slots == DOMAIN schema.text
Symbol(f) == Grammar[f.rule][f.alt][f.pos]

Frames == [rule : Rules, alt : Nat, pos : Nat, mark : Slots, outer : Nat,
           todo : Seq(Nat), continuation : Nat, update : Nat]

(* Where a frame may stand, and what it remembers there. *)
Sound(f) ==
    /\ f.alt \in DOMAIN Grammar[f.rule]
    /\ f.pos \in 1 .. Len(Grammar[f.rule][f.alt]) + 1
    /\ f.outer <= Len(nodes)
    /\ \A k \in DOMAIN f.todo : f.todo[k] \in 1 .. Len(nodes)
    /\ f.rule = "emit_nodes" /\ f.pos = 2 => f.todo # <<>>
    /\ f.rule = "for_loop_block" =>
         /\ f.pos > 5 => f.continuation \in Slots
         /\ f.pos \in 9 .. 15 => f.update \in Slots

(* A frame that is not the last one waits for the production above it. *)
Awaits(f, rule) ==
    /\ f.pos \in 1 .. Len(Grammar[f.rule][f.alt])
    /\ \/ Symbol(f) = rule
       \/ f.rule = "emit_nodes" /\ f.pos = 3 /\ f.todo # <<>> /\ rule \in Body

Below(i, rule) == \E j \in 1 .. i - 1 : calls[j].rule = rule

Stacked ==
    /\ calls \in Seq(Frames)
    /\ \A i \in DOMAIN calls : Sound(calls[i])
    /\ \A i \in 1 .. Len(calls) - 1 : Awaits(calls[i], calls[i + 1].rule)
    /\ calls # <<>> => calls[1].rule = "emit_nodes" /\ calls[1].pos > 2

Nested ==
    \A i \in DOMAIN calls :
      /\ calls[i].rule \in InIf => Below(i, "if_elif_else_block")
      /\ calls[i].rule \in InTemplate => Below(i, "template_statement")
      /\ \A k \in DOMAIN calls[i].todo :
           nodes[calls[i].todo[k]].type = "template" => Below(i, "template_statement")
      /\ calls[i].rule \in Body /\ (\A j \in 1 .. i - 1 : calls[j].rule \notin Body)
           => calls[i].outer = 0

Controlled ==
    /\ returned \in {"none", "fail"}
    /\ status \in {"running", "throwing", "done", "failed"}
    /\ calls = <<>> <=> status \in {"done", "failed"}
    /\ returned = "fail" => status = "running" /\ top.rule # "emit_nodes"

(* The tokens the cursor has passed. *)
Positioned ==
    /\ index \in 1 .. Len(schema.text) + 1
    /\ bad = FALSE
    /\ Running => index \in Slots
    /\ Running /\ top.pos = 1 /\ top.rule \notin Body => index = top.mark
    /\ Running /\ top.pos = 1 /\ top.rule = "emit_nodes" => index > 1
    /\ Running /\ top.pos > 1 /\ alternative[top.pos - 1] \in Terminals =>
         index > 1 /\ stream[index - 1].type = alternative[top.pos - 1]

Undeclared(i) ==
    \A j \in i + 1 .. Len(calls) :
      \/ calls[j].rule = "opt_array_suffix"
      \/ calls[j].rule = "emit_nodes" /\ calls[j].pos < 3

(* The frames that go back to the token they began with. *)
StillThere(f) ==
    \/ f.rule = "definition_statement" /\ f.alt < 5 /\ f.pos \in 2 .. 4
    \/ f.rule = "for_assignment" /\ f.pos \in 2 .. 4
    \/ f.rule = "template_definition_statement" /\ f.alt = 1 /\ f.pos \in 2 .. 6

Begun ==
    status = "running" =>
      \A i \in DOMAIN calls : Undeclared(i) /\ StillThere(calls[i]) =>
        stream[calls[i].mark].type = Grammar[calls[i].rule][calls[i].alt][1]

AnyToken == Tokens \cup {NoToken}
TypeTokens == {t \in AnyToken : t.type \in {"int", "enum", "string", "struct", "invalid"}}

Streaming ==
    /\ stream \in Seq(AnyToken)
    /\ Len(stream) = Len(schema.text)
    /\ stream[Len(schema.text)].type = "eos"
    /\ \A i \in DOMAIN stream :
         /\ stream[i].type = "identifier" => stream[i].value \in Names /\ stream[i].expr = NoExpr
         /\ stream[i].type = "expr" => stream[i].expr.op \in Operations
    /\ \/ replaced = <<>>
       \/ /\ replaced = <<[slot |-> replaced[1].slot, token |-> replaced[1].token]>>
          /\ replaced[1].slot \in 1 .. Len(schema.text) - 1
          /\ replaced[1].token \in AnyToken
          /\ replaced[1].token.type = "identifier"
          /\ replaced[1].token.value \in Names
          /\ replaced[1].token.expr = NoExpr

Scoped ==
    /\ ifs \in Seq(BOOLEAN)
    /\ templates \in Seq([type_name : AnyToken, type : TypeTokens])
    /\ scopes \in Seq(SUBSET Names)
    /\ Len(ifs) = Cardinality(Open({"if_elif_else_block"}))
    /\ Len(templates) = Cardinality(Open({"template_statement"}))
    /\ Len(scopes) = Cardinality(Open({"for_loop_block"}))
    /\ \A n \in DOMAIN lookup : lookup[n] \in Int /\ \E i \in DOMAIN scopes : n \in scopes[i]

(* The prover does not know that a literal is a string. *)
Words == STRING \cup {"", "invalid", "array", "struct", "[0]", "[1]", "[2]", "[3]"}
Nodes == [name : Words, type : Words, of : Words, parent : Nat, data : Int \cup {NonInteger}]

Grown ==
    /\ nodes \in Seq(Nodes)
    /\ \A i \in DOMAIN nodes : nodes[i].parent < i
    /\ parent \in 0 .. Len(nodes)
    /\ Open(Body) = {} => parent = 0
    /\ read \in 0 .. Len(save)
    /\ value \in Int

Given == schema \in Schemas /\ save \in Saves

-----------------------------------------------------------------------------
(* The call stack. *)

IInv == /\ Given /\ Stacked /\ Nested /\ Controlled /\ Positioned /\ Begun
        /\ Streaming /\ Scoped /\ Grown

LEMMA TopAndRest ==
    ASSUME NEW S, NEW s \in Seq(S), s # <<>>
    PROVE  /\ Len(s) \in Nat \ {0}
           /\ Last(s) = s[Len(s)] /\ Last(s) \in S
           /\ Front(s) \in Seq(S) /\ Len(Front(s)) = Len(s) - 1
           /\ \A i \in 1 .. Len(s) - 1 : Front(s)[i] = s[i]
<1>1. Len(s) \in Nat \ {0} /\ s[Len(s)] \in S
  OBVIOUS
<1>2. Front(s) \in Seq(S)
  BY <1>1 DEF Front
<1>3. Len(Front(s)) = Len(s) - 1
  <2> DEFINE n == Len(s)
  <2>1. n \in Int /\ n >= 1
    BY <1>1
  <2> HIDE DEF n
  <2>2. Len(SubSeq(s, 1, n - 1)) = n - 1
    BY <2>1
  <2> QED
    BY <2>2 DEF Front, n
<1>4. \A i \in 1 .. Len(s) - 1 : Front(s)[i] = s[i]
  BY <1>1 DEF Front
<1> QED
  BY <1>1, <1>2, <1>3, <1>4 DEF Last

LEMMA Changed ==
    ASSUME NEW S, NEW s \in Seq(S), s # <<>>, NEW e \in S
    PROVE  /\ [s EXCEPT ![Len(s)] = e] \in Seq(S)
           /\ Len([s EXCEPT ![Len(s)] = e]) = Len(s)
           /\ [s EXCEPT ![Len(s)] = e][Len(s)] = e
           /\ \A i \in 1 .. Len(s) - 1 : [s EXCEPT ![Len(s)] = e][i] = s[i]
  OBVIOUS

(* The frame at the top, and the alternative it is running. *)
LEMMA Topmost ==
    ASSUME IInv, calls # <<>>
    PROVE  /\ calls \in Seq(Frames) /\ Len(calls) \in Nat \ {0}
           /\ top = calls[Len(calls)] /\ top \in Frames /\ Sound(top)
           /\ top.rule \in Rules /\ top.alt \in DOMAIN Grammar[top.rule]
           /\ Len(alternative) \in Nat /\ DOMAIN alternative = 1 .. Len(alternative)
           /\ top.pos \in 1 .. Len(alternative) + 1
           /\ \A p \in DOMAIN alternative : Placed(top.rule, top.alt, p, alternative)
<1>1. calls \in Seq(Frames) /\ \A i \in DOMAIN calls : Sound(calls[i])
  BY DEF IInv, Stacked
<1>2. Len(calls) \in Nat \ {0} /\ top = calls[Len(calls)] /\ top \in Frames
  BY <1>1, TopAndRest DEF top
<1>3. Sound(top)
  BY <1>1, <1>2
<1>4. top.rule \in Rules /\ top.alt \in DOMAIN Grammar[top.rule] /\ top.pos \in 1 .. Len(alternative) + 1
  BY <1>2, <1>3 DEF Frames, Sound, alternative
<1> QED
  BY <1>1, <1>2, <1>3, <1>4, Alternatives DEF alternative

LEMMA RunningStack ==
    ASSUME IInv, status \in {"running", "throwing"}
    PROVE  calls # <<>>
  BY DEF IInv, Controlled

(* The first n frames remain, the last of them perhaps changed.            *)
LEMMA Shortened ==
    ASSUME IInv, NEW n \in 1 .. Len(calls), NEW g \in Frames,
           calls' \in Seq(Frames), Len(calls') = n, calls'[n] = g,
           \A i \in 1 .. n - 1 : calls'[i] = calls[i],
           g.rule = calls[n].rule, g.outer = calls[n].outer, Sound(g)',
           \A k \in DOMAIN g.todo : nodes'[g.todo[k]].type = "template" => Below(n, "template_statement"),
           n = 1 => g.pos > 2,
           schema' = schema, Len(nodes') \in Nat, Len(nodes) <= Len(nodes'),
           \A i \in DOMAIN nodes : nodes'[i].type = nodes[i].type
    PROVE  /\ Stacked' /\ Nested'
           /\ \A R : Open(R)' = {i \in Open(R) : i <= n}
<1>1. /\ calls \in Seq(Frames) /\ Len(calls) \in Nat /\ Len(nodes) \in Nat /\ DOMAIN nodes = 1 .. Len(nodes)
      /\ DOMAIN calls = 1 .. Len(calls) /\ DOMAIN calls' = 1 .. n /\ n \in Nat
  BY DEF IInv, Stacked, Grown
<1>2. \A i \in 1 .. n : calls'[i] \in Frames /\ calls'[i].rule = calls[i].rule /\ calls'[i].outer = calls[i].outer
  BY <1>1
<1>3. Stacked'
  <2>1. ASSUME NEW i \in 1 .. n
        PROVE  Sound(calls[i])' \/ i = n
    <3>1. CASE i < n
      <4>1. Sound(calls[i]) /\ calls'[i] = calls[i] /\ calls[i] \in Frames
        BY <1>1, <3>1 DEF IInv, Stacked
      <4>2. PICK f \in Frames : f = calls[i]
        BY <4>1
      <4>3. f.outer <= Len(nodes') /\ \A k \in DOMAIN f.todo : f.todo[k] \in 1 .. Len(nodes')
        <5>1. f.outer \in Nat /\ f.outer <= Len(nodes) /\ \A k \in DOMAIN f.todo : f.todo[k] \in 1 .. Len(nodes)
          BY <4>1, <4>2 DEF Sound, Frames
        <5> QED
          BY <5>1, <1>1
      <4>4. Sound(f)'
        BY <4>1, <4>2, <4>3 DEF Sound, Slots
      <4> QED
        BY <4>1, <4>2, <4>4
    <3> QED
      BY <1>1, <3>1
  <2>2. \A i \in 1 .. n : Sound(calls[i])'
    BY <2>1, <1>1
  <2>3. \A i \in 1 .. n - 1 : Awaits(calls[i], calls[i + 1].rule)
    BY <1>1 DEF IInv, Stacked
  <2>4. ASSUME NEW i \in 1 .. n - 1
        PROVE  Awaits(calls[i], calls[i + 1].rule)'
    <3>1. calls'[i] = calls[i] /\ calls'[i + 1].rule = calls[i + 1].rule
      BY <1>1, <1>2
    <3> QED
      BY <2>3, <3>1 DEF Awaits, Symbol
  <2>5. calls'[1].rule = "emit_nodes" /\ calls'[1].pos > 2
    BY <1>1, <1>2 DEF IInv, Stacked
  <2>6. Frames' = Frames
    BY DEF Frames, Slots
  <2> QED
    BY <1>1, <2>2, <2>4, <2>5, <2>6 DEF Stacked
<1>4. \A rule : \A i \in 1 .. n : Below(i, rule)' <=> Below(i, rule)
  BY <1>1, <1>2 DEF Below
<1>5. Nested'
  <2>1. ASSUME NEW i \in 1 .. n
        PROVE  /\ calls'[i].rule \in InIf => Below(i, "if_elif_else_block")'
               /\ calls'[i].rule \in InTemplate => Below(i, "template_statement")'
               /\ calls'[i].rule \in Body /\ (\A j \in 1 .. i - 1 : calls'[j].rule \notin Body)
                    => calls'[i].outer = 0
    <3>1. /\ calls[i].rule \in InIf => Below(i, "if_elif_else_block")
          /\ calls[i].rule \in InTemplate => Below(i, "template_statement")
          /\ calls[i].rule \in Body /\ (\A j \in 1 .. i - 1 : calls[j].rule \notin Body)
                    => calls[i].outer = 0
      BY <1>1 DEF IInv, Nested
    <3>2. \A j \in 1 .. i : calls'[j].rule = calls[j].rule /\ calls'[j].outer = calls[j].outer
      BY <1>1, <1>2
    <3> QED
      BY <3>1, <3>2, <1>4, <1>1
  <2>2. ASSUME NEW i \in 1 .. n, NEW k \in DOMAIN calls'[i].todo,
               nodes'[calls'[i].todo[k]].type = "template"
        PROVE  Below(i, "template_statement")
    <3>1. CASE i = n
      <4>1. k \in DOMAIN g.todo /\ nodes'[g.todo[k]].type = "template"
        BY <1>1, <2>2, <3>1
      <4>2. Below(n, "template_statement")
        BY <4>1
      <4> QED
        BY <3>1, <4>2
    <3>2. CASE i # n
      <4>0. calls'[i] = calls[i] /\ i \in DOMAIN calls
        BY <3>2, <1>1
      <4>1. calls'[i] = calls[i] /\ i \in DOMAIN calls /\ Sound(calls[i])
        BY <4>0 DEF IInv, Stacked
      <4>2. calls[i].todo[k] \in DOMAIN nodes
        BY <4>1, <2>2, <1>1 DEF Sound
      <4> QED
        BY <4>1, <4>2, <2>2 DEF IInv, Nested
    <3> QED
      BY <3>1, <3>2
  <2> QED
    BY <2>1, <2>2, <1>4, <1>1 DEF Nested
<1>6. \A R : Open(R)' = {i \in Open(R) : i <= n}
  BY <1>1, <1>2 DEF Open
<1> QED
  BY <1>3, <1>5, <1>6

(* A production is entered. *)
LEMMA Lengthened ==
    ASSUME IInv, calls # <<>>, NEW r \in Rules, calls' = Append(calls, Frame(r)),
           index \in Slots, Awaits(top, r),
           r \in InIf => top.rule \in InIf \cup {"if_elif_else_block"},
           r \in InTemplate => \/ top.rule \in InTemplate \cup {"template_statement"}
                               \/ Below(Len(calls), "template_statement"),
           UNCHANGED <<schema, nodes>>
    PROVE  /\ Stacked' /\ Nested'
           /\ \A R : Open(R)' = IF r \in R THEN Open(R) \cup {Len(calls) + 1} ELSE Open(R)
<1>1. /\ calls \in Seq(Frames) /\ Len(calls) \in Nat \ {0} /\ top = calls[Len(calls)]
      /\ parent \in 0 .. Len(nodes) /\ Len(nodes) \in Nat /\ DOMAIN nodes = 1 .. Len(nodes)
  BY Topmost DEF IInv, Grown
<1>2. PICK f \in Frames : f = Frame(r)
  <2>1. <<>> \in Seq(Nat) /\ 0 \in Nat /\ 1 \in Nat /\ parent \in Nat
    BY <1>1
  <2> QED
    BY <2>1 DEF Frame, Frames
<1>3. f.rule = r /\ f.outer = parent /\ f.todo = <<>> /\ f.alt = 1 /\ f.pos = 1
  BY <1>2 DEF Frame
<1>4. /\ calls' \in Seq(Frames) /\ Len(calls') = Len(calls) + 1 /\ calls'[Len(calls) + 1] = f
      /\ \A i \in 1 .. Len(calls) : calls'[i] = calls[i]
  BY <1>1, <1>2
<1>5. PICK n \in Nat \ {0} : n = Len(calls)
  BY <1>1
<1>6. /\ DOMAIN calls = 1 .. n /\ DOMAIN calls' = 1 .. n + 1 /\ calls'[n + 1] = f
      /\ \A i \in 1 .. n : calls'[i] = calls[i]
  BY <1>1, <1>4, <1>5
<1>7. Stacked'
  <2>1. Frames' = Frames
    BY DEF Frames, Slots
  <2>2. Sound(f)'
    BY <1>1, <1>3, FirstAlternative, Alternatives DEF Sound
  <2>3. \A i \in 1 .. n : Sound(calls[i])
    BY <1>6 DEF IInv, Stacked
  <2>4. \A i \in 1 .. n : Sound(calls[i])'
    BY <1>6, <2>3 DEF Sound, Slots
  <2>5. \A i \in 1 .. n - 1 : Awaits(calls[i], calls[i + 1].rule)
    BY <1>5 DEF IInv, Stacked
  <2>6. ASSUME NEW i \in 1 .. n
        PROVE  Awaits(calls[i], calls[i + 1].rule)'
    <3>1. CASE i = n
      BY <3>1, <1>1, <1>3, <1>5, <1>6 DEF Awaits, Symbol
    <3>2. CASE i # n
      <4>1. calls'[i] = calls[i] /\ calls'[i + 1] = calls[i + 1] /\ i \in 1 .. n - 1
        BY <3>2, <1>6
      <4> QED
        BY <4>1, <2>5 DEF Awaits, Symbol
    <3> QED
      BY <3>1, <3>2
  <2>7. calls'[1].rule = "emit_nodes" /\ calls'[1].pos > 2
    BY <1>5, <1>6 DEF IInv, Stacked
  <2>8. \A i \in 1 .. n + 1 : Sound(calls[i])'
    <3>1. \A i \in 1 .. n + 1 : i = n + 1 \/ i \in 1 .. n
      OBVIOUS
    <3> QED
      BY <3>1, <2>2, <2>4, <1>6
  <2> QED
    BY <1>4, <1>5, <1>6, <2>1, <2>6, <2>7, <2>8 DEF Stacked
<1>8. \A rule : \A i \in 1 .. n : Below(i, rule)' <=> Below(i, rule)
  BY <1>6 DEF Below
<1>9. \A rule : (Below(n, rule) \/ top.rule = rule) => Below(n + 1, rule)'
  BY <1>1, <1>5, <1>6 DEF Below
<1>10. Nested'
  <2>1. ASSUME NEW i \in 1 .. n
        PROVE  /\ calls'[i].rule \in InIf => Below(i, "if_elif_else_block")'
               /\ calls'[i].rule \in InTemplate => Below(i, "template_statement")'
               /\ \A k \in DOMAIN calls'[i].todo :
                    nodes'[calls'[i].todo[k]].type = "template" => Below(i, "template_statement")'
               /\ calls'[i].rule \in Body /\ (\A j \in 1 .. i - 1 : calls'[j].rule \notin Body)
                    => calls'[i].outer = 0
    <3>1. calls'[i] = calls[i] /\ \A j \in 1 .. i - 1 : calls'[j] = calls[j]
      BY <1>6
    <3> QED
      BY <3>1, <1>5, <1>6, <1>8 DEF IInv, Nested
  <2>2. /\ top.rule \in InIf => Below(n, "if_elif_else_block")
        /\ top.rule \in InTemplate => Below(n, "template_statement")
    BY <1>1, <1>5, <1>6 DEF IInv, Nested
  <2>3. /\ f.rule \in InIf => Below(n + 1, "if_elif_else_block")'
        /\ f.rule \in InTemplate => Below(n + 1, "template_statement")'
    BY <2>2, <1>3, <1>5, <1>9
  <2>4. f.rule \in Body /\ (\A j \in 1 .. n : calls'[j].rule \notin Body) => f.outer = 0
    BY <1>3, <1>6 DEF IInv, Grown, Open
  <2>5. \A i \in 1 .. n + 1 : i = n + 1 \/ i \in 1 .. n
    OBVIOUS
  <2>6. (n + 1) - 1 = n
    OBVIOUS
  <2> QED
    BY <2>1, <2>3, <2>4, <2>5, <2>6, <1>3, <1>6 DEF Nested
<1>11. \A R : Open(R)' = IF r \in R THEN Open(R) \cup {Len(calls) + 1} ELSE Open(R)
  BY <1>3, <1>5, <1>6 DEF Open
<1> QED
  BY <1>7, <1>10, <1>11

-----------------------------------------------------------------------------
(* How many of the frames on the stack have opened a context or a scope.   *)

LEMMA OpenCounts ==
    ASSUME IInv, NEW R
    PROVE  /\ IsFiniteSet(Open(R)) /\ Cardinality(Open(R)) \in Nat
           /\ Open(R) \subseteq 1 .. Len(calls)
           /\ Cardinality(Open(R)) = 0 <=> Open(R) = {}
<1>1. calls \in Seq(Frames)
  BY DEF IInv, Stacked
<1>2. Open(R) \subseteq 1 .. Len(calls)
  BY <1>1 DEF Open
<1>3. IsFiniteSet(1 .. Len(calls))
  BY <1>1, FS_Interval
<1>4. IsFiniteSet(Open(R))
  BY <1>2, <1>3, FS_Subset
<1> QED
  BY <1>2, <1>4, FS_CardinalityType, FS_EmptySet

LEMMA OneLess ==
    ASSUME IInv, calls # <<>>, NEW R, Open(R)' = {i \in Open(R) : i <= Len(calls) - 1}
    PROVE  /\ top.rule \notin R => Open(R)' = Open(R)
           /\ top.rule \in R => /\ Cardinality(Open(R)) > 0
                                /\ Cardinality(Open(R)') = Cardinality(Open(R)) - 1
<1>1. Len(calls) \in Nat \ {0} /\ top = calls[Len(calls)] /\ DOMAIN calls = 1 .. Len(calls)
  BY Topmost
<1>2. Open(R)' = Open(R) \ {Len(calls)}
  BY <1>1, OpenCounts
<1>3. Len(calls) \in Open(R) <=> top.rule \in R
  BY <1>1 DEF Open
<1>4. IsFiniteSet(Open(R)) /\ Cardinality(Open(R)) \in Nat
  BY OpenCounts
<1>5. ASSUME top.rule \in R PROVE Cardinality(Open(R)') = Cardinality(Open(R)) - 1 /\ Cardinality(Open(R)) > 0
  <2>1. Cardinality(Open(R) \ {Len(calls)}) = Cardinality(Open(R)) - 1
    BY <1>3, <1>4, <1>5, FS_RemoveElement
  <2>2. Cardinality(Open(R)) # 0
    BY <1>3, <1>5, OpenCounts
  <2>3. Cardinality(Open(R)') = Cardinality(Open(R) \ {Len(calls)})
    BY <1>2, Zenon
  <2> QED
    BY <2>1, <2>2, <2>3, <1>4
<1> QED
  BY <1>2, <1>3, <1>5

LEMMA OneMore ==
    ASSUME IInv, NEW R, Open(R)' = Open(R) \cup {Len(calls) + 1}
    PROVE  Cardinality(Open(R)') = Cardinality(Open(R)) + 1
<1>1. Len(calls) + 1 \notin Open(R)
  BY OpenCounts DEF IInv, Stacked
<1> QED
  BY <1>1, OpenCounts, FS_AddElement

LEMMA Blank == NoToken \in TypeTokens /\ NoToken \in AnyToken
  BY DEF TypeTokens, AnyToken, NoToken, Token

LEMMA ScopesKept ==
    ASSUME IInv, UNCHANGED <<contexts, tables>>, \A R : Open(R)' = Open(R)
    PROVE  Scoped'
  BY DEF IInv, Scoped, contexts, tables

(* What a production opens is counted when it is entered. *)
LEMMA Entered ==
    ASSUME IInv, NEW r, Enter(r),
           \A R : Open(R)' = IF r \in R THEN Open(R) \cup {Len(calls) + 1} ELSE Open(R)
    PROVE  Scoped'
<1> DEFINE entry == [type_name |-> NoToken, type |-> NoToken]
<1>1. entry \in [type_name : AnyToken, type : TypeTokens]
  BY Blank
<1> HIDE DEF entry
<1>2. /\ ifs \in Seq(BOOLEAN) /\ templates \in Seq([type_name : AnyToken, type : TypeTokens])
      /\ scopes \in Seq(SUBSET Names)
      /\ Len(ifs) = Cardinality(Open({"if_elif_else_block"}))
      /\ Len(templates) = Cardinality(Open({"template_statement"}))
      /\ Len(scopes) = Cardinality(Open({"for_loop_block"}))
      /\ \A n \in DOMAIN lookup : lookup[n] \in Int /\ \E i \in DOMAIN scopes : n \in scopes[i]
  BY DEF IInv, Scoped
<1>3. ASSUME NEW rule
      PROVE  /\ r = rule => Cardinality(Open({rule})') = Cardinality(Open({rule})) + 1
             /\ r # rule => Cardinality(Open({rule})') = Cardinality(Open({rule}))
  <2>1. CASE r = rule
    <3>1. Open({rule})' = Open({rule}) \cup {Len(calls) + 1}
      BY <2>1
    <3> QED
      BY <2>1, <3>1, OneMore
  <2>2. CASE r # rule
    <3>1. Open({rule})' = Open({rule})
      BY <2>2
    <3> QED
      BY <2>2, <3>1, Zenon
  <2> QED
    BY <2>1, <2>2
<1>4. ifs' \in Seq(BOOLEAN) /\ Len(ifs') = Cardinality(Open({"if_elif_else_block"})')
  <2>1. CASE r = "if_elif_else_block"
    <3>1. ifs' = Append(ifs, FALSE)
      BY <2>1 DEF Enter
    <3>2. Cardinality(Open({"if_elif_else_block"})') = Cardinality(Open({"if_elif_else_block"})) + 1
      BY <2>1, <1>3, Zenon
    <3>3. Append(ifs, FALSE) \in Seq(BOOLEAN) /\ Len(Append(ifs, FALSE)) = Len(ifs) + 1
      BY <1>2
    <3> QED
      BY <3>1, <3>2, <3>3, <1>2
  <2>2. CASE r # "if_elif_else_block"
    <3>1. ifs' = ifs
      BY <2>2 DEF Enter
    <3>2. Cardinality(Open({"if_elif_else_block"})') = Cardinality(Open({"if_elif_else_block"}))
      BY <2>2, <1>3, Zenon
    <3> QED
      BY <3>1, <3>2, <1>2
  <2> QED
    BY <2>1, <2>2
<1>5. /\ templates' \in Seq([type_name : AnyToken, type : TypeTokens])
      /\ Len(templates') = Cardinality(Open({"template_statement"})')
  <2>1. CASE r = "template_statement"
    <3>1. templates' = Append(templates, entry)
      BY <2>1 DEF Enter, entry
    <3>2. Cardinality(Open({"template_statement"})') = Cardinality(Open({"template_statement"})) + 1
      BY <2>1, <1>3, Zenon
    <3> QED
      BY <3>1, <3>2, <1>1, <1>2
  <2>2. CASE r # "template_statement"
    <3>1. templates' = templates
      BY <2>2 DEF Enter
    <3>2. Cardinality(Open({"template_statement"})') = Cardinality(Open({"template_statement"}))
      BY <2>2, <1>3, Zenon
    <3> QED
      BY <3>1, <3>2, <1>2
  <2> QED
    BY <2>1, <2>2
<1>6. /\ scopes' \in Seq(SUBSET Names) /\ Len(scopes') = Cardinality(Open({"for_loop_block"})')
      /\ \A n \in DOMAIN lookup' : lookup'[n] \in Int /\ \E i \in DOMAIN scopes' : n \in scopes'[i]
  <2>1. CASE r = "for_loop_block"
    <3>1. scopes' = Append(scopes, {}) /\ lookup' = lookup
      BY <2>1 DEF Enter, V!push
    <3>2. {} \in SUBSET Names
      OBVIOUS
    <3>3. \A i \in DOMAIN scopes : i \in DOMAIN scopes' /\ scopes'[i] = scopes[i]
      BY <3>1, <1>2
    <3>4. Cardinality(Open({"for_loop_block"})') = Cardinality(Open({"for_loop_block"})) + 1
      BY <2>1, <1>3, Zenon
    <3>5. Append(scopes, {}) \in Seq(SUBSET Names) /\ Len(Append(scopes, {})) = Len(scopes) + 1
      BY <1>2
    <3> QED
      BY <3>1, <3>3, <3>4, <3>5, <1>2
  <2>2. CASE r # "for_loop_block"
    <3>1. scopes' = scopes /\ lookup' = lookup
      BY <2>2 DEF Enter, tables
    <3>2. Cardinality(Open({"for_loop_block"})') = Cardinality(Open({"for_loop_block"}))
      BY <2>2, <1>3, Zenon
    <3> QED
      BY <3>1, <3>2, <1>2
  <2> QED
    BY <2>1, <2>2
<1> QED
  BY <1>4, <1>5, <1>6 DEF Scoped

(* What it has opened is gone when it is left, by return or by exception.  *)
LEMMA Left ==
    ASSUME IInv, calls # <<>>, Exit(top),
           \A R : Open(R)' = {i \in Open(R) : i <= Len(calls) - 1}
    PROVE  Scoped'
<1>1. /\ ifs \in Seq(BOOLEAN) /\ templates \in Seq([type_name : AnyToken, type : TypeTokens])
      /\ scopes \in Seq(SUBSET Names)
      /\ Len(ifs) = Cardinality(Open({"if_elif_else_block"}))
      /\ Len(templates) = Cardinality(Open({"template_statement"}))
      /\ Len(scopes) = Cardinality(Open({"for_loop_block"}))
      /\ \A n \in DOMAIN lookup : lookup[n] \in Int /\ \E i \in DOMAIN scopes : n \in scopes[i]
  BY DEF IInv, Scoped
<1>2. ASSUME NEW rule
      PROVE  /\ top.rule = rule => /\ Cardinality(Open({rule})') = Cardinality(Open({rule})) - 1
                                   /\ Cardinality(Open({rule})) > 0
             /\ top.rule # rule => Cardinality(Open({rule})') = Cardinality(Open({rule}))
  <2>1. Open({rule})' = {i \in Open({rule}) : i <= Len(calls) - 1}
    OBVIOUS
  <2>2. /\ top.rule \notin {rule} => Open({rule})' = Open({rule})
        /\ top.rule \in {rule} => /\ Cardinality(Open({rule})') = Cardinality(Open({rule})) - 1
                                  /\ Cardinality(Open({rule})) > 0
    BY <2>1, OneLess
  <2> QED
    BY <2>2, Zenon
<1>3. ifs' \in Seq(BOOLEAN) /\ Len(ifs') = Cardinality(Open({"if_elif_else_block"})')
  <2>1. CASE top.rule = "if_elif_else_block"
    <3>0. /\ Cardinality(Open({"if_elif_else_block"})') = Cardinality(Open({"if_elif_else_block"})) - 1
          /\ Cardinality(Open({"if_elif_else_block"})) > 0
      BY <2>1, <1>2, Zenon
    <3>1. ifs' = Front(ifs) /\ ifs # <<>>
      <4>1. ifs' = Front(ifs)
        BY <2>1 DEF Exit
      <4> QED
        BY <4>1, <3>0, <1>1
    <3>2. Front(ifs) \in Seq(BOOLEAN) /\ Len(Front(ifs)) = Len(ifs) - 1
      BY <3>1, <1>1, TopAndRest
    <3> QED
      BY <3>0, <3>1, <3>2, <1>1
  <2>2. CASE top.rule # "if_elif_else_block"
    <3>1. ifs' = ifs
      BY <2>2 DEF Exit
    <3>2. Cardinality(Open({"if_elif_else_block"})') = Cardinality(Open({"if_elif_else_block"}))
      BY <2>2, <1>2, Zenon
    <3> QED
      BY <3>1, <3>2, <1>1
  <2> QED
    BY <2>1, <2>2
<1>4. /\ templates' \in Seq([type_name : AnyToken, type : TypeTokens])
      /\ Len(templates') = Cardinality(Open({"template_statement"})')
  <2>1. CASE top.rule = "template_statement"
    <3>0. /\ Cardinality(Open({"template_statement"})') = Cardinality(Open({"template_statement"})) - 1
          /\ Cardinality(Open({"template_statement"})) > 0
      BY <2>1, <1>2, Zenon
    <3>1. templates' = Front(templates) /\ templates # <<>>
      <4>1. templates' = Front(templates)
        BY <2>1 DEF Exit
      <4> QED
        BY <4>1, <3>0, <1>1
    <3>2. Front(templates) \in Seq([type_name : AnyToken, type : TypeTokens]) /\ Len(Front(templates)) = Len(templates) - 1
      BY <3>1, <1>1, TopAndRest
    <3> QED
      BY <3>0, <3>1, <3>2, <1>1
  <2>2. CASE top.rule # "template_statement"
    <3>1. templates' = templates
      BY <2>2 DEF Exit
    <3>2. Cardinality(Open({"template_statement"})') = Cardinality(Open({"template_statement"}))
      BY <2>2, <1>2, Zenon
    <3> QED
      BY <3>1, <3>2, <1>1
  <2> QED
    BY <2>1, <2>2
<1>5. /\ scopes' \in Seq(SUBSET Names) /\ Len(scopes') = Cardinality(Open({"for_loop_block"})')
      /\ \A n \in DOMAIN lookup' : lookup'[n] \in Int /\ \E i \in DOMAIN scopes' : n \in scopes'[i]
  <2>1. CASE top.rule = "for_loop_block"
    <3>1. /\ scopes' = SubSeq(scopes, 1, Len(scopes) - 1)
          /\ lookup' = [m \in DOMAIN lookup \ scopes[Len(scopes)] |-> lookup[m]]
      BY <2>1 DEF Exit, V!pop, V!Erase
    <3>0. /\ Cardinality(Open({"for_loop_block"})') = Cardinality(Open({"for_loop_block"})) - 1
          /\ Cardinality(Open({"for_loop_block"})) > 0
      BY <2>1, <1>2, Zenon
    <3>2. Len(scopes) \in Nat \ {0}
      BY <3>0, <1>1
    <3>3. Front(scopes) = scopes' /\ scopes # <<>>
      BY <3>1, <3>2 DEF Front
    <3>4. /\ scopes' \in Seq(SUBSET Names) /\ Len(scopes') = Len(scopes) - 1
          /\ \A i \in 1 .. Len(scopes) - 1 : scopes'[i] = scopes[i]
      BY <3>3, <1>1, TopAndRest
    <3>5. ASSUME NEW n \in DOMAIN lookup'
          PROVE  lookup'[n] \in Int /\ \E i \in DOMAIN scopes' : n \in scopes'[i]
      <4>1. n \in DOMAIN lookup /\ n \notin scopes[Len(scopes)] /\ lookup'[n] = lookup[n]
        BY <3>1
      <4>2. PICK i \in DOMAIN scopes : n \in scopes[i]
        BY <4>1, <1>1
      <4>3. i \in 1 .. Len(scopes) - 1
        BY <4>1, <4>2, <3>2, <1>1
      <4> QED
        BY <4>1, <4>2, <4>3, <3>2, <3>4, <1>1
    <3> QED
      BY <3>0, <3>4, <3>5, <1>1
  <2>2. CASE top.rule # "for_loop_block"
    <3>1. scopes' = scopes /\ lookup' = lookup
      BY <2>2 DEF Exit, tables
    <3>2. Cardinality(Open({"for_loop_block"})') = Cardinality(Open({"for_loop_block"}))
      BY <2>2, <1>2, Zenon
    <3> QED
      BY <3>1, <3>2, <1>1
  <2> QED
    BY <2>1, <2>2
<1> QED
  BY <1>3, <1>4, <1>5 DEF Scoped

-----------------------------------------------------------------------------
(* The kinds of steps.  Control is what the six parts say that are about   *)
(* the call stack, the cursor and the inputs.                              *)

Control == Given /\ Stacked /\ Nested /\ Controlled /\ Positioned /\ Begun

LEMMA SlotsAre ==
    ASSUME IInv
    PROVE  /\ schema \in Schemas /\ Len(schema.text) \in Nat \ {0} /\ Slots = 1 .. Len(schema.text)
           /\ Len(stream) = Len(schema.text) /\ DOMAIN stream = Slots
<1>1. schema \in Schemas /\ schema.text \in Seq(Tokens) /\ schema.text # <<>>
  BY SchemasAssumption DEF IInv, Given
<1> QED
  BY <1>1 DEF Slots, IInv, Streaming

(* The nodes there were are still there, with their types.                 *)
TreeGrows ==
    /\ Len(nodes') \in Nat /\ Len(nodes) <= Len(nodes')
    /\ \A i \in DOMAIN nodes : nodes'[i].type = nodes[i].type

LEMMA TreeKept ==
    ASSUME IInv, nodes' = nodes
    PROVE  TreeGrows
  BY DEF IInv, Grown, TreeGrows

LEMMA SoundAsBefore ==
    ASSUME IInv, NEW f \in Frames, Sound(f), TreeGrows, schema' = schema
    PROVE  Sound(f)'
<1>1. Len(nodes) \in Nat
  BY DEF IInv, Grown
<1>2. f.outer <= Len(nodes') /\ \A k \in DOMAIN f.todo : f.todo[k] \in 1 .. Len(nodes')
  <2>1. f.outer \in Nat /\ f.outer <= Len(nodes) /\ \A k \in DOMAIN f.todo : f.todo[k] \in 1 .. Len(nodes)
    BY DEF Sound, Frames
  <2> QED
    BY <2>1, <1>1 DEF TreeGrows
<1> QED
  BY <1>2 DEF Sound, Slots

LEMMA TodosAsBefore ==
    ASSUME IInv, NEW i \in DOMAIN calls, TreeGrows, NEW k \in DOMAIN calls[i].todo,
           nodes'[calls[i].todo[k]].type = "template"
    PROVE  Below(i, "template_statement")
<1>1. calls[i].todo[k] \in DOMAIN nodes
  BY DEF IInv, Stacked, Sound, Grown
<1> QED
  BY <1>1 DEF IInv, Nested, TreeGrows

(* It returns false, or throws, before it has changed the stack.           *)
LEMMA Stopped ==
    ASSUME IInv, status = "running", calls' = calls,
           \/ status' = "throwing" /\ returned' = "none"
           \/ status' = "running" /\ returned' = "fail" /\ top.rule # "emit_nodes" /\ stream' = stream,
           index' \in 1 .. Len(schema.text) + 1, bad' = bad, TreeGrows, UNCHANGED <<schema, save>>
    PROVE  Control' /\ \A R : Open(R)' = Open(R)
<1>1. calls # <<>>
  BY RunningStack
<1>2. PICK n \in Nat \ {0} : n = Len(calls)
  BY <1>1, Topmost
<1>3. PICK g \in Frames : g = calls[n]
  BY <1>1, <1>2, Topmost
<1>4. Sound(g)'
  BY <1>1, <1>2, <1>3, Topmost, SoundAsBefore
<1>5. \A k \in DOMAIN g.todo : nodes'[g.todo[k]].type = "template" => Below(n, "template_statement")
  BY <1>1, <1>2, <1>3, Topmost, TodosAsBefore
<1>6. /\ calls' \in Seq(Frames) /\ Len(calls') = n /\ calls'[n] = g /\ n \in 1 .. Len(calls)
      /\ \A i \in 1 .. n - 1 : calls'[i] = calls[i]
      /\ n = 1 => g.pos > 2
      /\ \A R : Open(R) \subseteq 1 .. n
  BY <1>1, <1>2, <1>3, Topmost DEF IInv, Stacked, Open
<1>7. Stacked' /\ Nested' /\ \A R : Open(R)' = {i \in Open(R) : i <= n}
  BY <1>2, <1>3, <1>4, <1>5, <1>6, Shortened DEF TreeGrows
<1>8. \A R : Open(R)' = Open(R)
  BY DEF Open
<1>9. Given' /\ Controlled' /\ Positioned'
  BY <1>1 DEF IInv, Given, Controlled, Positioned, Running, top
<1>10. Begun'
  <2>1. CASE status' = "throwing"
    BY <2>1 DEF Begun
  <2>2. CASE status' = "running"
    BY <2>2 DEF IInv, Begun, Undeclared, StillThere
  <2> QED
    BY <2>1, <2>2
<1> QED
  BY <1>7, <1>8, <1>9, <1>10 DEF Control

(* The production at the top goes on to another position.                  *)
LEMMA MovesOn ==
    ASSUME IInv, Running, NEW g \in Frames, calls' = Replaced(g), UNCHANGED <<returned, status>>,
           g.rule = top.rule, g.alt = top.alt, g.mark = top.mark, g.outer = top.outer, Sound(g)',
           \A k \in DOMAIN g.todo :
             nodes'[g.todo[k]].type = "template" => Below(Len(calls), "template_statement"),
           Len(calls) = 1 => g.pos > 2, g.pos > 1, g.pos < 3 => top.pos < 3,
           index' \in Slots, bad' = bad,
           alternative[g.pos - 1] \in Terminals =>
             index' > 1 /\ stream'[index' - 1].type = alternative[g.pos - 1],
           StillThere(g) => StillThere(top) \/ stream[top.mark].type = alternative[1],
           \/ stream' = stream
           \/ ~StillThere(g) /\ top.rule # "opt_array_suffix" /\ (top.rule = "emit_nodes" => g.pos = 3),
           TreeGrows, UNCHANGED <<schema, save>>
    PROVE  Control' /\ \A R : Open(R)' = Open(R)
<1>1. calls # <<>>
  BY RunningStack DEF Running
<1>2. PICK n \in Nat \ {0} : n = Len(calls)
  BY <1>1, Topmost
<1>3. /\ calls \in Seq(Frames) /\ top = calls[n] /\ DOMAIN calls = 1 .. n
  BY <1>1, <1>2, Topmost
<1>4. /\ calls' \in Seq(Frames) /\ Len(calls') = n /\ DOMAIN calls' = 1 .. n /\ calls'[n] = g
      /\ \A i \in 1 .. n - 1 : calls'[i] = calls[i]
  BY <1>1, <1>2, <1>3, Changed DEF Replaced
<1>5. Stacked' /\ Nested' /\ \A R : Open(R)' = {i \in Open(R) : i <= n}
  BY <1>2, <1>3, <1>4, Shortened DEF TreeGrows
<1>6. \A R : Open(R)' = Open(R)
  BY <1>3, <1>5 DEF Open
<1>7. top' = g /\ calls' # <<>>
  BY <1>4, TopAndRest DEF top
<1>8. Given' /\ Controlled'
  BY <1>1, <1>7 DEF IInv, Given, Controlled, Running
<1>9. Positioned'
  <2>1. alternative' = alternative
    BY <1>7 DEF alternative
  <2>2. Slots' = Slots /\ g.pos \in Nat
    BY DEF Slots, Frames
  <2>3. index' \in 1 .. Len(schema'.text) + 1
    BY SlotsAre, <2>2
  <2> QED
    BY <1>7, <2>1, <2>2, <2>3 DEF IInv, Positioned
<1>10. Begun'
  <2>1. SUFFICES ASSUME NEW i \in 1 .. n, Undeclared(i)', StillThere(calls[i])'
                 PROVE  stream'[calls'[i].mark].type = Grammar[calls'[i].rule][calls'[i].alt][1]
    BY <1>4 DEF Begun
  <2>2. i < n \/ i = n
    BY <1>2
  <2>3. \/ calls'[n].rule = "opt_array_suffix"
        \/ calls'[n].rule = "emit_nodes" /\ calls'[n].pos < 3
        \/ i = n
    BY <2>1, <2>2, <1>4 DEF Undeclared
  <2>4. Begun /\ status = "running"
    BY DEF IInv, Running
  <2>5. CASE i = n
    <3>1. StillThere(g)
      BY <2>1, <2>5, <1>4 DEF StillThere
    <3>2. stream' = stream /\ (StillThere(top) \/ stream[top.mark].type = alternative[1])
      BY <3>1
    <3>3. Undeclared(n)
      BY <1>2, <1>3 DEF Undeclared
    <3>4. StillThere(top) => stream[top.mark].type = alternative[1]
      BY <3>3, <2>4, <1>3 DEF Begun, alternative
    <3> QED
      BY <2>5, <3>2, <3>4, <1>4 DEF alternative
  <2>6. CASE i < n
    <3>1. stream' = stream /\ calls'[i] = calls[i]
      BY <2>3, <2>6, <1>2, <1>4
    <3>2. Undeclared(i)
      <4>1. \A j \in i + 1 .. n : \/ calls'[j].rule = "opt_array_suffix"
                                  \/ calls'[j].rule = "emit_nodes" /\ calls'[j].pos < 3
        BY <2>1, <1>4 DEF Undeclared
      <4>2. \A j \in i + 1 .. n : j = n \/ calls'[j] = calls[j]
        BY <1>4
      <4> QED
        BY <4>1, <4>2, <1>2, <1>3, <1>4 DEF Undeclared
    <3>3. StillThere(calls[i])
      BY <2>1, <3>1 DEF StillThere
    <3> QED
      BY <2>4, <3>1, <3>2, <3>3, <1>3 DEF Begun
  <2> QED
    BY <2>2, <2>5, <2>6
<1> QED
  BY <1>5, <1>6, <1>8, <1>9, <1>10 DEF Control

(* A production is called. *)
LEMMA Enters ==
    ASSUME IInv, Running, NEW r \in Rules, calls' = Append(calls, Frame(r)), Awaits(top, r),
           r \in InIf => top.rule \in InIf \cup {"if_elif_else_block"},
           r \in InTemplate => \/ top.rule \in InTemplate \cup {"template_statement"}
                               \/ Below(Len(calls), "template_statement"),
           r = "emit_nodes" => index > 1,
           index' \in Slots, index' = index \/ r \in Body,
           UNCHANGED <<schema, save, stream, bad, nodes, returned, status>>
    PROVE  /\ Control'
           /\ \A R : Open(R)' = IF r \in R THEN Open(R) \cup {Len(calls) + 1} ELSE Open(R)
<1>1. calls # <<>> /\ index \in Slots
  BY RunningStack DEF Running, IInv, Positioned
<1>2. /\ Stacked' /\ Nested'
      /\ \A R : Open(R)' = IF r \in R THEN Open(R) \cup {Len(calls) + 1} ELSE Open(R)
  BY <1>1, Lengthened
<1>3. PICK n \in Nat \ {0} : n = Len(calls)
  BY <1>1, Topmost
<1>4. PICK f : f = Frame(r)
  OBVIOUS
<1>5. f.rule = r /\ f.pos = 1 /\ f.mark = index
  BY <1>4 DEF Frame
<1>6. calls \in Seq(Frames) /\ DOMAIN calls = 1 .. n
  BY <1>1, <1>3, Topmost
<1>7. /\ calls' # <<>> /\ top' = f /\ Len(calls') = n + 1 /\ DOMAIN calls' = 1 .. n + 1
      /\ calls'[n + 1] = f /\ \A i \in 1 .. n : calls'[i] = calls[i]
  <2>1. calls' = Append(calls, f)
    BY <1>4
  <2> QED
    BY <2>1, <1>3, <1>6 DEF top, Last
<1>8. Given' /\ Controlled'
  BY <1>7 DEF IInv, Given, Controlled, Running
<1>9. Positioned'
  <2>1. Slots' = Slots
    BY DEF Slots
  <2>2. index' \in 1 .. Len(schema'.text) + 1
    BY SlotsAre
  <2>3. top'.pos = 1 /\ (top'.rule \notin Body => index' = top'.mark)
    BY <1>5, <1>7
  <2>4. top'.rule = "emit_nodes" => index' > 1
    BY <1>5, <1>7 DEF Body
  <2>5. bad' = FALSE
    BY DEF IInv, Positioned
  <2> QED
    BY <2>1, <2>2, <2>3, <2>4, <2>5 DEF Positioned
<1>10. Begun'
  <2>1. SUFFICES ASSUME NEW i \in 1 .. n + 1, Undeclared(i)', StillThere(calls[i])'
                 PROVE  stream'[calls'[i].mark].type = Grammar[calls'[i].rule][calls'[i].alt][1]
    BY <1>7 DEF Begun
  <2>2. i \in 1 .. n
    BY <2>1, <1>5, <1>7 DEF StillThere
  <2>3. calls'[i] = calls[i] /\ StillThere(calls[i])
    BY <2>1, <2>2, <1>7 DEF StillThere
  <2>4. Undeclared(i)
    BY <2>1, <2>2, <1>3, <1>6, <1>7 DEF Undeclared
  <2> QED
    BY <2>2, <2>3, <2>4, <1>6 DEF IInv, Begun, Running
<1> QED
  BY <1>2, <1>8, <1>9, <1>10 DEF Control

-----------------------------------------------------------------------------
(* Leaving a production. *)

LEMMA NoTerminal == Rules \cap Terminals = {}
  BY RulesAre DEF Terminals

LEMMA Movable ==
    ASSUME NEW f \in Frames, Sound(f), f.pos \in 1 .. Len(Grammar[f.rule][f.alt]),
           f.rule = "emit_nodes" => f.pos = 3 /\ f.todo # <<>>,
           f.rule = "for_loop_block" => f.pos # 5 /\ f.pos # 8
    PROVE  /\ Moved(f) \in Frames /\ Sound(Moved(f))
           /\ Moved(f).rule = f.rule /\ Moved(f).alt = f.alt
           /\ Moved(f).mark = f.mark /\ Moved(f).outer = f.outer
           /\ f.rule = "emit_nodes" => Moved(f).pos = 3
           /\ f.rule # "emit_nodes" => Moved(f).pos = f.pos + 1
           /\ \A k \in DOMAIN Moved(f).todo : \E j \in DOMAIN f.todo : Moved(f).todo[k] = f.todo[j]
<1>1. CASE f.rule = "emit_nodes"
  <2>1. Tail(f.todo) \in Seq(Nat) /\ \A k \in DOMAIN Tail(f.todo) : k + 1 \in DOMAIN f.todo /\ Tail(f.todo)[k] = f.todo[k + 1]
    BY <1>1 DEF Frames
  <2>2. Moved(f) = [f EXCEPT !.todo = Tail(f.todo)]
    BY <1>1 DEF Moved
  <2>3. /\ Moved(f) \in Frames /\ Moved(f).rule = f.rule /\ Moved(f).alt = f.alt /\ Moved(f).pos = 3
        /\ Moved(f).mark = f.mark /\ Moved(f).outer = f.outer /\ Moved(f).todo = Tail(f.todo)
    BY <1>1, <2>1, <2>2 DEF Frames
  <2>4. Sound(Moved(f))
    BY <1>1, <2>1, <2>3 DEF Sound
  <2> QED
    BY <1>1, <2>1, <2>3, <2>4
<1>2. CASE f.rule # "emit_nodes"
  <2>1. Moved(f) = [f EXCEPT !.pos = f.pos + 1]
    BY <1>2 DEF Moved
  <2>2. /\ Moved(f) \in Frames /\ Moved(f).rule = f.rule /\ Moved(f).alt = f.alt /\ Moved(f).pos = f.pos + 1
        /\ Moved(f).mark = f.mark /\ Moved(f).outer = f.outer /\ Moved(f).todo = f.todo
        /\ Moved(f).continuation = f.continuation /\ Moved(f).update = f.update
    <3>1. f.pos + 1 \in Nat
      BY DEF Frames
    <3> QED
      BY <2>1, <3>1 DEF Frames
  <2>3. Len(Grammar[f.rule][f.alt]) \in Nat
    BY Alternatives DEF Sound, Frames
  <2>4. f.pos + 1 \in 1 .. Len(Grammar[f.rule][f.alt]) + 1
    BY <2>3
  <2>5. f.rule = "for_loop_block" =>
          /\ f.pos + 1 > 5 => f.continuation \in Slots
          /\ f.pos + 1 \in 9 .. 15 => f.update \in Slots
    <3>1. f.rule = "for_loop_block" =>
            /\ f.pos > 5 => f.continuation \in Slots
            /\ f.pos \in 9 .. 15 => f.update \in Slots
      BY DEF Sound
    <3>2. /\ f.pos # 5 /\ f.pos + 1 > 5 => f.pos > 5
          /\ f.pos # 8 /\ f.pos + 1 \in 9 .. 15 => f.pos \in 9 .. 15
      BY <2>3
    <3> QED
      BY <3>1, <3>2
  <2>6. Sound(Moved(f))
    BY <1>2, <2>2, <2>4, <2>5 DEF Sound
  <2> QED
    BY <1>2, <2>2, <2>6
<1> QED
  BY <1>1, <1>2

(* The production that waits for the one at the top.                       *)
LEMMA Caller ==
    ASSUME IInv, NEW n \in Nat \ {0}, Len(calls) = n + 1, NEW c, c = calls[n]
    PROVE  /\ c \in Frames /\ Sound(c) /\ top = calls[n + 1] /\ top.rule \in Rules
           /\ c.pos \in 1 .. Len(Grammar[c.rule][c.alt])
           /\ c.rule # "emit_nodes" => Symbol(c) = top.rule
           /\ c.rule = "emit_nodes" => c.pos = 3 /\ c.todo # <<>> /\ top.rule \in Body
           /\ c.rule = "for_loop_block" => c.pos # 5 /\ c.pos # 8
           /\ c.rule = "opt_array_suffix" => top.rule = "opt_array_suffix"
           /\ StillThere(c) => top.rule \in {"opt_array_suffix", "emit_nodes"}
           /\ StillThere(Moved(c)) => StillThere(c) /\ top.rule = "opt_array_suffix"
<1>1. calls # <<>>
  BY DEF IInv, Stacked
<1>2. top = calls[n + 1] /\ top.rule \in Rules /\ DOMAIN calls = 1 .. n + 1
  BY <1>1, Topmost
<1>3. c \in Frames /\ Sound(c) /\ Awaits(c, top.rule)
  BY <1>2 DEF IInv, Stacked
<1>4. PICK p, t : p = c.pos /\ t = Grammar[c.rule][c.alt]
  OBVIOUS
<1>5. c.rule \in Rules /\ p \in 1 .. Len(t) /\ Len(t) \in Nat /\ Placed(c.rule, c.alt, p, t)
  BY <1>3, <1>4, Alternatives DEF Awaits, Sound, Frames
<1>6. \/ t[p] = top.rule
      \/ c.rule = "emit_nodes" /\ p = 3 /\ c.todo # <<>> /\ top.rule \in Body
  BY <1>3, <1>4 DEF Awaits, Symbol
<1>7. c.rule = "emit_nodes" => t[p] \notin Rules
  BY <1>5, RulesAre DEF Placed
<1>8. c.rule = "for_loop_block" => p # 5 /\ p # 8
  BY <1>2, <1>5, <1>6, RulesAre DEF Placed
<1>9. c.rule = "opt_array_suffix" => top.rule = "opt_array_suffix"
  BY <1>2, <1>5, <1>6 DEF Placed
<1>10. /\ c.rule = "definition_statement" /\ c.alt < 5 =>
            \/ top.rule = "emit_nodes" /\ p = 4
            \/ top.rule = "opt_array_suffix" /\ p = 2
       /\ c.rule # "for_assignment"
       /\ c.rule = "template_definition_statement" /\ c.alt = 1 /\ p \in 1 .. 6 =>
            p = 3 /\ top.rule = "opt_array_suffix"
  BY <1>2, <1>5, <1>6 DEF Placed
<1>11. StillThere(c) => top.rule \in {"opt_array_suffix", "emit_nodes"}
  BY <1>4, <1>10 DEF StillThere
<1>12. ASSUME StillThere(Moved(c)) PROVE StillThere(c) /\ top.rule = "opt_array_suffix"
  <2>1. c.rule # "emit_nodes"
    <3>1. CASE c.rule = "emit_nodes"
      <4>1. Moved(c).rule = "emit_nodes"
        BY <3>1, <1>3, <1>4, <1>5, <1>6, <1>7, <1>2, Movable
      <4> QED
        BY <4>1, <1>12 DEF StillThere
    <3> QED
      BY <3>1
  <2>2. Moved(c).rule = c.rule /\ Moved(c).alt = c.alt /\ Moved(c).pos = p + 1
    BY <2>1, <1>3, <1>4, <1>5, <1>8, Movable
  <2>3. c.alt \in Nat
    BY <1>3 DEF Frames
  <2> QED
    BY <2>2, <2>3, <1>4, <1>5, <1>10, <1>12 DEF StillThere
<1> QED
  BY <1>2, <1>3, <1>4, <1>5, <1>6, <1>7, <1>8, <1>9, <1>11, <1>12 DEF Symbol

LEMMA Exiting ==
    ASSUME IInv, calls # <<>>, Exit(top), schema' = schema
    PROVE  /\ index' \in 1 .. Len(schema.text) + 1 /\ (index \in Slots => index' \in Slots)
           /\ bad' = bad /\ stream' = stream /\ replaced' = replaced
           /\ nodes' = nodes /\ read' = read /\ value' = value
           /\ parent' = IF top.rule \in Body THEN top.outer ELSE parent
<1>1. top.mark \in Slots /\ DOMAIN stream = Slots /\ Slots = 1 .. Len(schema.text) /\ Len(schema.text) \in Nat
  BY Topmost, SlotsAre DEF Frames
<1>2. index \in 1 .. Len(schema.text) + 1
  BY DEF IInv, Positioned
<1>3. top.rule \in Body => index' = top.mark /\ bad' = bad /\ parent' = top.outer
  BY <1>1 DEF Exit, T!set_index_noexcept, T!InStream
<1>4. top.rule \notin Body => index' = index /\ bad' = bad /\ parent' = parent
  BY DEF Exit
<1> QED
  BY <1>1, <1>2, <1>3, <1>4 DEF Exit

LEMMA StreamKept ==
    ASSUME IInv, stream' = stream, replaced' = replaced, schema' = schema
    PROVE  Streaming'
  BY DEF IInv, Streaming

LEMMA ParentLeft ==
    ASSUME IInv, calls # <<>>, Exit(top), UNCHANGED <<schema, save>>,
           \A R : Open(R)' = {i \in Open(R) : i <= Len(calls) - 1}
    PROVE  Grown'
<1>1. PICK n \in Nat \ {0} : n = Len(calls)
  BY Topmost
<1>2. /\ top = calls[n] /\ DOMAIN calls = 1 .. n /\ Sound(top) /\ top \in Frames
  BY <1>1, Topmost
<1>3. nodes' = nodes /\ read' = read /\ value' = value /\ parent' = IF top.rule \in Body THEN top.outer ELSE parent
  BY Exiting
<1>4. parent' \in 0 .. Len(nodes)
  BY <1>2, <1>3 DEF IInv, Grown, Sound, Frames
<1>5. Open(Body)' = {} => parent' = 0
  <2>1. Open(Body)' = {i \in Open(Body) : i <= n - 1}
    BY <1>1
  <2>2. CASE top.rule \in Body
    <3>1. ASSUME Open(Body)' = {} PROVE \A j \in 1 .. n - 1 : calls[j].rule \notin Body
      BY <2>1, <3>1, <1>2 DEF Open
    <3>2. n \in DOMAIN calls /\ calls[n].rule \in Body
      BY <1>2, <2>2
    <3> QED
      BY <3>1, <3>2, <1>2, <1>3, <2>2 DEF IInv, Nested
  <2>3. CASE top.rule \notin Body
    <3>1. Open(Body)' = Open(Body)
      BY <2>1, <2>3, <1>1, OneLess
    <3> QED
      BY <3>1, <2>3, <1>3 DEF IInv, Grown
  <2> QED
    BY <2>2, <2>3
<1> QED
  BY <1>3, <1>4, <1>5 DEF IInv, Grown

(* The production below goes on, or learns that the one at the top failed. *)
LEMMA PopsBack ==
    ASSUME IInv, NEW n \in Nat \ {0}, Len(calls) = n + 1, NEW g, g \in {calls[n], Moved(calls[n])},
           calls' \in Seq(Frames), Len(calls') = n, calls'[n] = g,
           \A i \in 1 .. n - 1 : calls'[i] = calls[i],
           Exit(top), UNCHANGED <<schema, save>>
    PROVE  /\ Given' /\ Stacked' /\ Nested'
           /\ \A R : Open(R)' = {i \in Open(R) : i <= n}
<1>1. PICK c : c = calls[n]
  OBVIOUS
<1>2. /\ c \in Frames /\ Sound(c) /\ c.pos \in 1 .. Len(Grammar[c.rule][c.alt])
      /\ c.rule = "emit_nodes" => c.pos = 3 /\ c.todo # <<>>
      /\ c.rule = "for_loop_block" => c.pos # 5 /\ c.pos # 8
  BY <1>1, Caller
<1>3. /\ Moved(c) \in Frames /\ Sound(Moved(c)) /\ Moved(c).rule = c.rule /\ Moved(c).outer = c.outer
      /\ c.rule = "emit_nodes" => Moved(c).pos = 3
      /\ \A k \in DOMAIN Moved(c).todo : \E j \in DOMAIN c.todo : Moved(c).todo[k] = c.todo[j]
  BY <1>2, Movable
<1>4. /\ g \in Frames /\ Sound(g) /\ g.rule = c.rule /\ g.outer = c.outer
      /\ c.rule = "emit_nodes" => g.pos = 3
      /\ \A k \in DOMAIN g.todo : \E j \in DOMAIN c.todo : g.todo[k] = c.todo[j]
  BY <1>1, <1>2, <1>3
<1>5. calls # <<>> /\ DOMAIN calls = 1 .. n + 1
  BY Topmost DEF IInv, Stacked
<1>6. nodes' = nodes
  BY <1>5, Exiting
<1>7. TreeGrows
  BY <1>6, TreeKept
<1>8. Sound(g)'
  BY <1>4, <1>7, SoundAsBefore
<1>9. ASSUME NEW k \in DOMAIN g.todo, nodes'[g.todo[k]].type = "template"
      PROVE  Below(n, "template_statement")
  <2>1. PICK j \in DOMAIN c.todo : g.todo[k] = c.todo[j]
    BY <1>4
  <2> QED
    BY <2>1, <1>1, <1>5, <1>7, <1>9, TodosAsBefore
<1>10. n = 1 => g.pos > 2
  BY <1>1, <1>4, <1>5 DEF IInv, Stacked
<1>11. n \in 1 .. Len(calls) /\ g.rule = calls[n].rule /\ g.outer = calls[n].outer
  BY <1>1, <1>4
<1>12. Stacked' /\ Nested' /\ \A R : Open(R)' = {i \in Open(R) : i <= n}
  BY <1>4, <1>7, <1>8, <1>9, <1>10, <1>11, Shortened DEF TreeGrows
<1> QED
  BY <1>12 DEF IInv, Given

LEMMA BegunBelow ==
    ASSUME IInv, NEW n \in Nat \ {0}, Len(calls) = n + 1, NEW g,
           \/ g = Moved(calls[n])
           \/ g = calls[n] /\ top.rule # "emit_nodes",
           Len(calls') = n, calls' \in Seq(Frames), calls'[n] = g,
           \A i \in 1 .. n - 1 : calls'[i] = calls[i],
           stream' = stream, status = "running"
    PROVE  Begun'
<1>1. PICK c : c = calls[n]
  OBVIOUS
<1>2. /\ c \in Frames /\ top = calls[n + 1] /\ DOMAIN calls = 1 .. n + 1 /\ DOMAIN calls' = 1 .. n
      /\ c.rule = "opt_array_suffix" => top.rule = "opt_array_suffix"
      /\ c.rule = "emit_nodes" => c.pos = 3
      /\ StillThere(c) => top.rule \in {"opt_array_suffix", "emit_nodes"}
      /\ StillThere(Moved(c)) => StillThere(c) /\ top.rule = "opt_array_suffix"
  BY <1>1, Caller DEF IInv, Stacked
<1>3. g.rule = c.rule /\ g.alt = c.alt /\ g.mark = c.mark /\ (c.rule = "emit_nodes" => g.pos = 3)
  <2>1. CASE g = c
    BY <2>1, <1>2
  <2>2. CASE g = Moved(c)
    BY <2>2, <1>1, Caller, Movable
  <2> QED
    BY <1>1, <2>1, <2>2
<1>4. Begun /\ status = "running"
  BY DEF IInv
<1>5. SUFFICES ASSUME NEW i \in 1 .. n, Undeclared(i)', StillThere(calls[i])'
               PROVE  stream'[calls'[i].mark].type = Grammar[calls'[i].rule][calls'[i].alt][1]
  BY <1>2 DEF Begun
<1>6. CASE i = n
  <2>1. StillThere(g)
    BY <1>5, <1>6 DEF StillThere
  <2>2. StillThere(c) /\ top.rule = "opt_array_suffix"
    BY <2>1, <1>1, <1>2
  <2>3. Undeclared(n)
    BY <2>2, <1>2 DEF Undeclared
  <2>4. stream[c.mark].type = Grammar[c.rule][c.alt][1]
    BY <2>2, <2>3, <1>1, <1>2, <1>4 DEF Begun
  <2> QED
    BY <2>4, <1>3, <1>6
<1>7. CASE i < n
  <2>1. \A j \in i + 1 .. n : \/ calls'[j].rule = "opt_array_suffix"
                              \/ calls'[j].rule = "emit_nodes" /\ calls'[j].pos < 3
    BY <1>5, <1>2 DEF Undeclared
  <2>2. c.rule = "opt_array_suffix" /\ top.rule = "opt_array_suffix"
    <3>1. n \in i + 1 .. n
      BY <1>7
    <3> QED
      BY <2>1, <3>1, <1>2, <1>3
  <2>3. \A j \in i + 1 .. n + 1 : j \in i + 1 .. n - 1 \/ j = n \/ j = n + 1
    OBVIOUS
  <2>4. \A j \in i + 1 .. n - 1 : calls'[j] = calls[j] /\ j \in i + 1 .. n
    OBVIOUS
  <2>5. Undeclared(i)
    BY <2>1, <2>2, <2>3, <2>4, <1>1, <1>2 DEF Undeclared
  <2>6. calls'[i] = calls[i]
    BY <1>7
  <2>7. StillThere(calls[i])
    BY <1>5, <2>6 DEF StillThere
  <2> QED
    BY <2>5, <2>6, <2>7, <1>2, <1>4 DEF Begun
<1> QED
  BY <1>6, <1>7

-----------------------------------------------------------------------------
(* A frame with its position changed. *)

LEMMA Gone ==
    ASSUME NEW f \in Frames, NEW y \in Nat, NEW g, g = [f EXCEPT !.pos = y]
    PROVE  /\ g \in Frames /\ g.todo = f.todo /\ g.pos = y /\ g.rule = f.rule /\ g.mark = f.mark
           /\ g.outer = f.outer /\ g.alt = f.alt /\ g.continuation = f.continuation /\ g.update = f.update
  BY Zenon DEF Frames

-----------------------------------------------------------------------------
(* What an expression evaluates to, and where enclosed tokens end. *)

(* The library's induction cannot be cited here; that inclusion of finite  *)
(* sets is well-founded can, of the segments below the members.            *)
LEMMA LeastIsThere ==
    ASSUME NEW S, S \subseteq Nat, S # {}
    PROVE  Min(S) \in S /\ \A y \in S : Min(S) <= y
<1> DEFINE Upto(n) == 1 .. n
           Segments == {Upto(n) : n \in S}
<1>1. Segments \subseteq FiniteSubsetsOf(Nat) /\ Segments # {}
  <2>1. \A n \in S : Upto(n) \in SUBSET Nat /\ IsFiniteSet(Upto(n))
    BY FS_Interval
  <2> QED
    BY <2>1 DEF FiniteSubsetsOf
<1>2. PICK s \in Segments : \A t \in Segments : <<t, s>> \notin StrictSubsetOrdering(Nat)
  BY <1>1, FS_StrictSubsetOrderingWellFounded, WFMin, Zenon
<1>3. PICK x \in S : s = Upto(x)
  OBVIOUS
<1>4. ASSUME NEW y \in S, y < x PROVE FALSE
  <2>1. Upto(y) \subseteq Upto(x) /\ Upto(y) # Upto(x) /\ Upto(x) \in SUBSET Nat /\ Upto(y) \in SUBSET Nat
    <3>1. x \in Upto(x) /\ x \notin Upto(y) /\ \A i \in Upto(y) : i \in Upto(x)
      BY <1>4
    <3> QED
      BY <3>1
  <2>2. <<Upto(y), Upto(x)>> \in StrictSubsetOrdering(Nat)
    BY <2>1 DEF StrictSubsetOrdering
  <2> QED
    BY <1>2, <1>3, <2>2
<1>5. \A y \in S : x <= y
  BY <1>4
<1> QED
  BY <1>5 DEF Min

LEMMA ChildIsThere ==
    ASSUME IInv, NEW p, NEW n, At(p, n) # None
    PROVE  At(p, n) \in DOMAIN nodes
<1>1. nodes \in Seq(Nodes)
  BY DEF IInv, Grown
<1>2. ASSUME NEW q, NEW m, FirstChild(q, m) # None
      PROVE  FirstChild(q, m) \in DOMAIN nodes
  <2>1. PICK found : found = {i \in DOMAIN nodes : nodes[i].parent = q /\ nodes[i].name = m}
    OBVIOUS
  <2>2. found \subseteq Nat /\ found # {} /\ FirstChild(q, m) = Min(found)
    BY <1>1, <1>2, <2>1 DEF FirstChild
  <2> QED
    BY <2>1, <2>2, LeastIsThere
<1>3. \/ At(p, n) = FirstChild(FirstChild(p, Paths[n][1]), Paths[n][2])
      \/ At(p, n) = FirstChild(p, n)
  BY DEF At
<1> QED
  BY <1>2, <1>3

LEMMA TreeHolds ==
    ASSUME IInv, NEW p \in 0 .. Len(nodes), NEW n \in DOMAIN Tree[p]
    PROVE  Tree[p][n] \in Int \cup {NonInteger}
<1>1. At(p, n) # None /\ Tree[p][n] = nodes[At(p, n)].data
  BY DEF Tree
<1>2. nodes[At(p, n)] \in Nodes
  BY <1>1, ChildIsThere DEF IInv, Grown
<1> QED
  BY <1>1, <1>2 DEF Nodes

LEMMA Gotten ==
    ASSUME IInv, NEW n
    PROVE  V!get(n) = V!Threw \/ \E v \in Int : V!get(n) = V!Value(v)
<1>1. parent \in 0 .. Len(nodes) /\ 0 \in 0 .. Len(nodes)
  BY DEF IInv, Grown
<1>2. \A m \in DOMAIN Enumerators : Enumerators[m] \in Int
  BY ValuesAssumption
<1>3. \A m \in DOMAIN Consts : Consts[m] \in Int
  BY ValuesAssumption
<1>4. \A m \in DOMAIN lookup : lookup[m] \in Int
  BY DEF IInv, Scoped
<1>5. V!EnumeratorValue(n) = V!Threw \/ \E v \in Int : V!EnumeratorValue(n) = V!Value(v)
  BY <1>2 DEF V!EnumeratorValue
<1>6. V!External(n) = V!Threw \/ \E v \in Int : V!External(n) = V!Value(v)
  <2>1. PICK q \in 0 .. Len(nodes) : q = IF n \in DOMAIN Tree[parent] THEN parent ELSE 0
    BY <1>1
  <2>2. n \in DOMAIN Tree[q] => Tree[q][n] \in Int \cup {NonInteger}
    BY TreeHolds
  <2>3. CASE n \in DOMAIN Tree[q] /\ Tree[q][n] # NonInteger
    <3>1. V!External(n) = V!Value(Tree[q][n])
      BY <2>1, <2>3 DEF V!External
    <3> QED
      BY <2>2, <2>3, <3>1
  <2>4. CASE n \in DOMAIN Tree[q] /\ Tree[q][n] = NonInteger
    BY <2>1, <2>4 DEF V!External
  <2>5. CASE n \notin DOMAIN Tree[q] /\ n \in DOMAIN Consts
    <3>1. V!External(n) = V!Value(Consts[n])
      BY <2>1, <2>5 DEF V!External
    <3> QED
      BY <1>3, <2>5, <3>1
  <2>6. CASE n \notin DOMAIN Tree[q] /\ n \notin DOMAIN Consts
    BY <2>1, <2>6 DEF V!External
  <2> QED
    BY <2>3, <2>4, <2>5, <2>6
<1>7. CASE n \in EnumRefs
  BY <1>5, <1>7 DEF V!get
<1>8. CASE n \notin EnumRefs /\ n \in DOMAIN lookup
  BY <1>4, <1>8 DEF V!get
<1>9. CASE n \notin EnumRefs /\ n \notin DOMAIN lookup
  BY <1>6, <1>9 DEF V!get
<1> QED
  BY <1>7, <1>8, <1>9

LEMMA Evaluated ==
    ASSUME IInv, NEW e, e.op \in Operations, e.value \in Int, Eval(e).kind # "threw"
    PROVE  Eval(e).value \in Int
<1>1. PICK a, b : a = V!get(e.name) /\ b = V!get(e.other)
  OBVIOUS
<1>2. \A v : V!Value(v).value = v /\ V!Value(v).kind = "value"
  BY DEF V!Value
<1>3. V!Threw.kind = "threw"
  BY DEF V!Threw
<1>4. (a = V!Threw \/ a.value \in Int) /\ (b = V!Threw \/ b.value \in Int)
  BY <1>1, <1>2, Gotten
<1>5. CASE e.op = "lit"
  BY <1>2, <1>5 DEF Eval
<1>6. CASE e.op = "var"
  BY <1>1, <1>3, <1>4, <1>6 DEF Eval
<1>7. CASE e.op \in {"less", "plus"}
  <2>1. Eval(e) = IF V!Threw \in {a, b} THEN V!Threw ELSE V!Value(Apply(e.op, a.value, b.value))
    BY <1>1, <1>7 DEF Eval
  <2>2. V!Threw \notin {a, b} /\ Eval(e) = V!Value(Apply(e.op, a.value, b.value))
    BY <1>3, <2>1
  <2>3. a.value \in Int /\ b.value \in Int
    BY <1>4, <2>2
  <2>4. Apply(e.op, a.value, b.value) \in Int
    BY <1>7, <2>3 DEF Apply
  <2> QED
    BY <1>2, <2>2, <2>4
<1> QED
  BY <1>5, <1>6, <1>7 DEF Operations

(* A token that is not the last one, and what stands where the cursor is. *)
LEMMA TokensAre ==
    ASSUME IInv
    PROVE  /\ \A i \in Slots : stream[i].type # "eos" => i + 1 \in Slots
           /\ \A i \in Slots : stream[i].type = "expr" =>
                stream[i].expr.op \in Operations /\ stream[i].expr.value \in Int
           /\ \A i \in Slots : stream[i] \in AnyToken
<1>1. \A i \in Slots : stream[i] \in AnyToken
  BY SlotsAre DEF IInv, Streaming
<1>2. \A i \in Slots : stream[i].type = "expr" => stream[i].expr.op \in Operations
  BY SlotsAre DEF IInv, Streaming
<1>3. \A t \in AnyToken : t.expr.value \in Int
  <2>1. NoToken.expr.value = 0
    BY DEF NoToken, Token, NoExpr
  <2>2. \A t \in Tokens : t.expr \in Expressions
    BY DEF Tokens
  <2>3. \A x \in Expressions : x.value \in Int
    BY DEF Expressions
  <2> QED
    BY <2>1, <2>2, <2>3 DEF AnyToken
<1>4. \A i \in Slots : stream[i].type # "eos" => i + 1 \in Slots
  BY SlotsAre DEF IInv, Streaming
<1> QED
  BY <1>1, <1>2, <1>3, <1>4

LEMMA EndIsThere ==
    ASSUME IInv, index \in Slots, NEW open, NEW close, close # "eos", NEW nest,
           Enclosed(open, close, nest) # {}
    PROVE  /\ Min(Enclosed(open, close, nest)) + 1 \in Slots
           /\ Min(Enclosed(open, close, nest)) + 1 > 1
           /\ stream[Min(Enclosed(open, close, nest))].type = close
           /\ Min(Enclosed(open, close, nest)) \in Nat
<1>1. PICK ends : ends = Enclosed(open, close, nest)
  OBVIOUS
<1>2. ends \subseteq Slots /\ \A j \in ends : stream[j].type = close
  BY <1>1, SlotsAre DEF Enclosed
<1>3. ends \subseteq Nat /\ ends # {}
  BY <1>1, <1>2, SlotsAre
<1>4. Min(ends) \in ends
  BY <1>3, LeastIsThere
<1> QED
  BY <1>1, <1>2, <1>4, SlotsAre, TokensAre

-----------------------------------------------------------------------------
(* The production at the top goes on without touching the tree. *)

LEMMA NoAction ==
    ASSUME NEW s, s \in {"@declare", "@dimension", "@members", "@continuation", "@loop", "@repeat",
                         "@expression", "@skip", "@if_expression", "@true", "@choose", "@assert",
                         "@update", "@add", "@set", "@instantiate", "@typename", "@matches",
                         "@rewind", "@replace"}
    PROVE  s \notin Terminals
  BY DEF Terminals

(* The symbol at hand, and what is known of where it stands.               *)
LEMMA AtHand ==
    ASSUME IInv, Running, top.pos \in DOMAIN alternative
    PROVE  /\ calls # <<>> /\ top \in Frames /\ Sound(top) /\ index \in Slots
           /\ Placed(top.rule, top.alt, top.pos, alternative)
           /\ Len(alternative) \in Nat /\ top.pos \in 1 .. Len(alternative)
           /\ symbol = alternative[top.pos] /\ Symbol(top) = symbol
           /\ top.pos = 1 /\ top.rule \notin Body => index = top.mark
           /\ top.pos > 1 /\ alternative[top.pos - 1] \in Terminals =>
                index > 1 /\ stream[index - 1].type = alternative[top.pos - 1]
<1>1. calls # <<>>
  BY RunningStack DEF Running
<1>2. top \in Frames /\ Sound(top) /\ DOMAIN alternative = 1 .. Len(alternative) /\ Len(alternative) \in Nat
  BY <1>1, Topmost
<1>3. Placed(top.rule, top.alt, top.pos, alternative)
  BY <1>1, Topmost
<1>4. /\ index \in Slots
      /\ top.pos = 1 /\ top.rule \notin Body => index = top.mark
      /\ top.pos > 1 /\ alternative[top.pos - 1] \in Terminals =>
           index > 1 /\ stream[index - 1].type = alternative[top.pos - 1]
  BY DEF IInv, Positioned
<1> QED
  BY <1>1, <1>2, <1>3, <1>4 DEF symbol, Symbol, alternative

(* A caller of emit_nodes_ has one below it, and so has every other rule.  *)
LEMMA OnlyRoot ==
    ASSUME IInv, calls # <<>>, Len(calls) = 1
    PROVE  top.rule = "emit_nodes" /\ top.pos > 2
  BY Topmost DEF IInv, Stacked

LEMMA Goes ==
    ASSUME IInv, Running, NEW p \in 2 .. Len(alternative) + 1,
           calls' = Replaced([top EXCEPT !.pos = p]), UNCHANGED <<returned, status>>,
           p < 3 => top.pos < 3, top.rule = "emit_nodes" => p > 2,
           top.rule = "for_loop_block" =>
             /\ p > 5 => top.continuation \in Slots
             /\ p \in 9 .. 15 => top.update \in Slots,
           index' \in Slots, UNCHANGED <<schema, save, stream, bad, nodes>>,
           alternative[p - 1] \in Terminals => index' > 1 /\ stream[index' - 1].type = alternative[p - 1],
           StillThere([top EXCEPT !.pos = p]) => StillThere(top) \/ stream[top.mark].type = alternative[1]
    PROVE  Control' /\ \A R : Open(R)' = Open(R)
<1>1. calls # <<>>
  BY RunningStack DEF Running
<1>2. top \in Frames /\ Sound(top) /\ top = calls[Len(calls)] /\ Len(calls) \in DOMAIN calls /\ Len(alternative) \in Nat
  BY <1>1, Topmost
<1>3. PICK g : g = [top EXCEPT !.pos = p]
  OBVIOUS
<1>4. p \in Nat /\ p > 1
  BY <1>2
<1>5. /\ g \in Frames /\ g.todo = top.todo /\ g.pos = p /\ g.rule = top.rule /\ g.mark = top.mark
      /\ g.outer = top.outer /\ g.alt = top.alt /\ g.continuation = top.continuation /\ g.update = top.update
  BY <1>2, <1>3, <1>4, Gone
<1>6. TreeGrows
  BY TreeKept
<1>7. Sound(g)
  BY <1>2, <1>5 DEF Sound, alternative
<1>8. Sound(g)'
  BY <1>5, <1>6, <1>7, SoundAsBefore
<1>9. ASSUME NEW k \in DOMAIN g.todo, nodes'[g.todo[k]].type = "template"
      PROVE  Below(Len(calls), "template_statement")
  BY <1>2, <1>5, <1>6, <1>9, TodosAsBefore
<1>10. Len(calls) = 1 => g.pos > 2
  BY <1>1, <1>5, OnlyRoot
<1>11. StillThere(g) => StillThere(top) \/ stream[top.mark].type = alternative[1]
  BY <1>3
<1>12. /\ alternative[g.pos - 1] \in Terminals => index' > 1 /\ stream'[index' - 1].type = alternative[g.pos - 1]
       /\ g.pos > 1 /\ (g.pos < 3 => top.pos < 3) /\ bad' = bad /\ stream' = stream
  BY <1>4, <1>5
<1>13. calls' = Replaced(g)
  BY <1>3
<1> QED
  BY <1>5, <1>6, <1>8, <1>9, <1>10, <1>11, <1>12, <1>13, MovesOn

LEMMA StillOrBegins ==
    ASSUME IInv, Running, top.pos \in DOMAIN alternative, NEW p \in Nat, p > top.pos,
           StillThere([top EXCEPT !.pos = p])
    PROVE  StillThere(top) \/ (top.pos = 1 /\ symbol \in Terminals /\ top.rule \notin Body)
<1>1. /\ top \in Frames /\ top.pos \in 1 .. Len(alternative) /\ Len(alternative) \in Nat
      /\ symbol = alternative[top.pos] /\ Placed(top.rule, top.alt, top.pos, alternative)
  BY AtHand
<1>2. PICK g : g = [top EXCEPT !.pos = p]
  OBVIOUS
<1>3. g.rule = top.rule /\ g.alt = top.alt /\ g.pos = p /\ top.alt \in Nat
  BY <1>1, <1>2, Gone DEF Frames
<1>4. \/ top.rule = "definition_statement" /\ top.alt < 5 /\ p \in 2 .. 4
      \/ top.rule = "for_assignment" /\ p \in 2 .. 4
      \/ top.rule = "template_definition_statement" /\ top.alt = 1 /\ p \in 2 .. 6
  BY <1>2, <1>3 DEF StillThere
<1>5. CASE top.pos = 1
  <2>1. top.pos \in 1 .. 6
    BY <1>5
  <2>2. alternative[1] \in {"int", "enum", "string", "struct", "identifier"}
    BY <1>1, <1>4, <2>1 DEF Placed
  <2>3. alternative[1] \in Terminals
    BY <2>2 DEF Terminals
  <2> QED
    BY <1>1, <1>4, <1>5, <2>3 DEF Body
<1>6. CASE top.pos # 1
  BY <1>1, <1>4, <1>6 DEF StillThere
<1> QED
  BY <1>5, <1>6

LEMMA Advances ==
    ASSUME IInv, Running, top.pos \in DOMAIN alternative, Advance, top.rule # "emit_nodes",
           symbol \notin {"@continuation", "@loop"},
           symbol \in Terminals => index' = index + 1 /\ stream[index].type = symbol,
           index' \in Slots, UNCHANGED <<schema, save, stream, bad, nodes>>
    PROVE  Control' /\ \A R : Open(R)' = Open(R)
<1>1. PICK p : p = top.pos + 1
  OBVIOUS
<1>2. /\ top \in Frames /\ Sound(top) /\ top.pos \in 1 .. Len(alternative) /\ Len(alternative) \in Nat
      /\ symbol = alternative[top.pos] /\ Placed(top.rule, top.alt, top.pos, alternative)
      /\ top.pos = 1 /\ top.rule \notin Body => index = top.mark
  BY AtHand
<1>3. index \in Nat /\ index > 0
  BY DEF IInv, Positioned
<1>4. p \in 2 .. Len(alternative) + 1 /\ p - 1 = top.pos
  BY <1>1, <1>2
<1>5. calls' = Replaced([top EXCEPT !.pos = p]) /\ UNCHANGED <<returned, status>>
  BY <1>1 DEF Advance, Moved
<1>6. top.rule = "for_loop_block" =>
        /\ p > 5 => top.continuation \in Slots
        /\ p \in 9 .. 15 => top.update \in Slots
  <2>1. top.rule = "for_loop_block" => top.pos # 5 /\ top.pos # 8
    BY <1>2 DEF Placed
  <2>2. top.rule = "for_loop_block" =>
          /\ top.pos > 5 => top.continuation \in Slots
          /\ top.pos \in 9 .. 15 => top.update \in Slots
    BY <1>2 DEF Sound
  <2>3. /\ top.pos # 5 /\ p > 5 => top.pos > 5
        /\ top.pos # 8 /\ p \in 9 .. 15 => top.pos \in 9 .. 15
    BY <1>1, <1>2
  <2> QED
    BY <2>1, <2>2, <2>3
<1>7. alternative[p - 1] \in Terminals => index' > 1 /\ stream[index' - 1].type = alternative[p - 1]
  <2>1. (index + 1) - 1 = index /\ index + 1 > 1
    BY <1>3
  <2> QED
    BY <2>1, <1>2, <1>4
<1>8. ASSUME StillThere([top EXCEPT !.pos = p])
      PROVE  StillThere(top) \/ stream[top.mark].type = alternative[1]
  <2>1. p \in Nat /\ p > top.pos
    BY <1>1, <1>2
  <2>2. StillThere(top) \/ (top.pos = 1 /\ symbol \in Terminals /\ top.rule \notin Body)
    BY <1>8, <2>1, StillOrBegins
  <2> QED
    BY <2>2, <1>2
<1>9. p < 3 => top.pos < 3
  BY <1>1, <1>2
<1> QED
  BY <1>4, <1>5, <1>6, <1>7, <1>8, <1>9, Goes

(* It skips to a close token, and goes on at p: a later position.          *)
LEMMA SkipsPast ==
    ASSUME IInv, Running, top.pos \in DOMAIN alternative, top.rule # "emit_nodes",
           symbol \notin Terminals, symbol # "@continuation",
           NEW p, p \in top.pos + 1 .. Len(alternative) + 1,
           symbol = "@loop" => p = Len(alternative) + 1,
           top.rule = "for_loop_block" => p = top.pos + 1 \/ symbol = "@loop",
           NEW open, NEW close, NEW nest, close # "eos", SkipPast(open, close, nest, p),
           alternative[p - 1] \in Terminals => alternative[p - 1] = close,
           UNCHANGED <<schema, save, nodes>>
    PROVE  Control' /\ (\A R : Open(R)' = Open(R)) /\ stream' = stream /\ replaced' = replaced
<1>1. /\ calls # <<>> /\ top \in Frames /\ Sound(top) /\ top.pos \in 1 .. Len(alternative) /\ Len(alternative) \in Nat
      /\ symbol = alternative[top.pos] /\ Placed(top.rule, top.alt, top.pos, alternative)
      /\ index \in Slots
  BY AtHand
<1>2. PICK ends : ends = Enclosed(open, close, nest)
  OBVIOUS
<1>3. CASE ends = {}
  <2>1. Throws /\ UNCHANGED tokens
    BY <1>2, <1>3 DEF SkipPast
  <2>2. index' = index /\ index \in 1 .. Len(schema.text) + 1
    BY <2>1 DEF tokens, IInv, Positioned
  <2>3. TreeGrows
    BY TreeKept
  <2>4. Control' /\ \A R : Open(R)' = Open(R)
    BY <2>1, <2>2, <2>3, Stopped DEF Throws, Running, tokens
  <2> QED
    BY <2>1, <2>4 DEF tokens
<1>4. CASE ends # {}
  <2>1. set_index(Min(ends) + 1) /\ Goto(p)
    BY <1>2, <1>4 DEF SkipPast
  <2>2. index' = Min(ends) + 1 /\ UNCHANGED <<stream, bad, replaced>>
    BY <2>1 DEF set_index, T!set_index
  <2>3. Min(ends) \in Nat /\ index' \in Slots /\ index' > 1 /\ stream[Min(ends)].type = close
    BY <1>1, <1>2, <1>4, <2>2, EndIsThere
  <2>4. index' - 1 = Min(ends)
    BY <2>2, <2>3
  <2>5. p \in 2 .. Len(alternative) + 1 /\ p > top.pos
    BY <1>1
  <2>6. ~(p < 3) \/ top.pos < 3
    BY <1>1, <2>5
  <2>7. top.rule = "for_loop_block" =>
          /\ p > 5 => top.continuation \in Slots
          /\ p \in 9 .. 15 => top.update \in Slots
    <3>1. SUFFICES ASSUME top.rule = "for_loop_block"
                   PROVE  /\ p > 5 => top.continuation \in Slots
                          /\ p \in 9 .. 15 => top.update \in Slots
      OBVIOUS
    <3>2. /\ Len(alternative) = 15 /\ alternative[5] = "@continuation" /\ alternative[8] = "@loop"
          /\ top.pos # 5
      BY <1>1, <3>1 DEF Placed
    <3>3. top.pos > 5 => top.continuation \in Slots
      BY <1>1, <3>1 DEF Sound
    <3>4. top.pos \in 9 .. 15 => top.update \in Slots
      BY <1>1, <3>1 DEF Sound
    <3>5. /\ top.pos = 8 => p = 16
          /\ p = top.pos + 1 \/ (p = 16 /\ top.pos = 8)
      BY <1>1, <3>1, <3>2 DEF Placed
    <3> QED
      BY <1>1, <2>5, <3>2, <3>3, <3>4, <3>5
  <2>8. ASSUME StillThere([top EXCEPT !.pos = p]) PROVE StillThere(top)
    <3>1. p \in Nat
      BY <1>1
    <3> QED
      BY <2>5, <2>8, <3>1, StillOrBegins
  <2> QED
    BY <2>1, <2>2, <2>3, <2>4, <2>5, <2>6, <2>7, <2>8, Goes DEF Goto
<1> QED
  BY <1>3, <1>4

-----------------------------------------------------------------------------
(* The other parts of the invariant, of a step that leaves them alone. *)

LEMMA OutputKept ==
    ASSUME IInv, UNCHANGED <<nodes, parent, read, save>>, value' \in Int,
           Open(Body)' = {} => Open(Body) = {}
    PROVE  Grown'
  BY DEF IInv, Grown

LEMMA Rests ==
    ASSUME IInv, Control', \A R : Open(R)' = Open(R),
           UNCHANGED <<schema, save, stream, replaced, contexts, output, tables>>, value' \in Int
    PROVE  IInv'
<1>1. Streaming'
  BY StreamKept
<1>2. Scoped'
  BY ScopesKept
<1>3. Grown'
  BY OutputKept DEF output
<1> QED
  BY <1>1, <1>2, <1>3 DEF IInv, Control

LEMMA ValueIs == IInv => value \in Int
  BY DEF IInv, Grown

(* A step that throws, or fails, with all else as it was. *)
LEMMA ThrowsOnly ==
    ASSUME IInv, status = "running", Throws, UNCHANGED <<schema, save, tokens, value, contexts, output, tables>>
    PROVE  IInv'
<1>1. index' \in 1 .. Len(schema.text) + 1 /\ bad' = bad /\ stream' = stream /\ replaced' = replaced
  BY DEF IInv, Positioned, tokens
<1>2. TreeGrows
  BY TreeKept DEF output
<1>3. Control' /\ \A R : Open(R)' = Open(R)
  BY <1>1, <1>2, Stopped DEF Throws
<1> QED
  BY <1>1, <1>3, ValueIs, Rests

LEMMA AdvancesOnly ==
    ASSUME IInv, Running, top.pos \in DOMAIN alternative, Advance, top.rule # "emit_nodes",
           symbol \notin Terminals \cup {"@continuation", "@loop"},
           index' \in Slots, value' \in Int,
           UNCHANGED <<schema, save, stream, bad, replaced, contexts, output, tables>>
    PROVE  IInv'
<1>1. Control' /\ \A R : Open(R)' = Open(R)
  BY Advances DEF output
<1> QED
  BY <1>1, Rests

-----------------------------------------------------------------------------
(* A step per action. *)

LEMMA MatchKeeps ==
    ASSUME IInv, Match, UNCHANGED <<schema, save>>
    PROVE  IInv'
<1>1. /\ Running /\ top.pos \in DOMAIN alternative /\ symbol \in Terminals
      /\ index' = index + 1 /\ UNCHANGED <<stream, bad, replaced, value, contexts, output, tables>>
      /\ IF ~T!InStream(index) THEN Throws ELSE IF stream[index].type = symbol THEN Advance ELSE Fails
  BY DEF Match, next, T!next
<1>2. /\ index \in Slots /\ Placed(top.rule, top.alt, top.pos, alternative) /\ symbol = alternative[top.pos]
  BY <1>1, AtHand
<1>3. top.rule # "emit_nodes"
  BY <1>1, <1>2, NoAction DEF Placed
<1>4. T!InStream(index)
  BY <1>2, SlotsAre DEF T!InStream
<1>5. CASE stream[index].type = symbol
  <2>1. Advance
    BY <1>1, <1>4, <1>5
  <2>2. symbol # "eos"
    BY <1>1 DEF Terminals
  <2>3. index' \in Slots
    BY <1>1, <1>2, <1>5, <2>2, TokensAre
  <2>4. symbol \notin {"@continuation", "@loop"}
    BY <1>1, NoAction
  <2>5. Control' /\ \A R : Open(R)' = Open(R)
    BY <1>1, <1>3, <1>5, <2>1, <2>3, <2>4, Advances DEF output
  <2> QED
    BY <1>1, <2>5, Rests, ValueIs
<1>6. CASE stream[index].type # symbol
  <2>1. Fails
    BY <1>1, <1>4, <1>6
  <2>2. index' \in 1 .. Len(schema.text) + 1
    BY <1>1, <1>2, SlotsAre
  <2>3. TreeGrows
    BY <1>1, TreeKept DEF output
  <2>4. Control' /\ \A R : Open(R)' = Open(R)
    BY <1>1, <1>3, <2>1, <2>2, <2>3, Stopped DEF Fails, Running
  <2> QED
    BY <1>1, <2>4, Rests, ValueIs
<1> QED
  BY <1>5, <1>6

LEMMA EvaluateKeeps ==
    ASSUME IInv, Running, top.pos \in DOMAIN alternative, symbol \in {"@expression", "@if_expression"},
           Evaluate, UNCHANGED <<schema, save>>
    PROVE  IInv'
<1>1. /\ index' = index + 1 /\ UNCHANGED <<stream, bad, replaced, contexts, output, tables>>
      /\ IF stream[index].type # "expr" THEN Fails /\ UNCHANGED value
         ELSE LET r == Eval(stream[index].expr)
              IN  IF r.kind = "threw" THEN Throws /\ UNCHANGED value
                  ELSE Advance /\ value' = r.value
  BY DEF Evaluate, next, T!next
<1>2. /\ index \in Slots /\ Placed(top.rule, top.alt, top.pos, alternative) /\ symbol = alternative[top.pos]
  BY AtHand
<1>3. top.rule # "emit_nodes" /\ symbol \notin Terminals \cup {"@continuation", "@loop"}
  BY <1>2, NoAction DEF Placed
<1>4. index' \in 1 .. Len(schema.text) + 1
  BY <1>1, <1>2, SlotsAre
<1>5. TreeGrows
  BY <1>1, TreeKept DEF output
<1>6. CASE stream[index].type # "expr"
  <2>1. Fails /\ UNCHANGED value
    BY <1>1, <1>6
  <2>2. Control' /\ \A R : Open(R)' = Open(R)
    BY <1>1, <1>3, <1>4, <1>5, <2>1, Stopped DEF Fails, Running
  <2> QED
    BY <1>1, <2>1, <2>2, Rests, ValueIs
<1>7. CASE stream[index].type = "expr"
  <2>1. PICK e : e = stream[index].expr
    OBVIOUS
  <2>2. e.op \in Operations /\ e.value \in Int /\ index + 1 \in Slots
    BY <1>2, <1>7, <2>1, TokensAre
  <2>3. CASE Eval(e).kind = "threw"
    <3>1. Throws /\ UNCHANGED value
      BY <1>1, <1>7, <2>1, <2>3
    <3>2. Control' /\ \A R : Open(R)' = Open(R)
      BY <1>1, <1>4, <1>5, <3>1, Stopped DEF Throws, Running
    <3> QED
      BY <1>1, <3>1, <3>2, Rests, ValueIs
  <2>4. CASE Eval(e).kind # "threw"
    <3>1. Advance /\ value' = Eval(e).value
      BY <1>1, <1>7, <2>1, <2>4
    <3>2. value' \in Int
      BY <2>2, <2>4, <3>1, Evaluated
    <3> QED
      BY <1>1, <1>3, <2>2, <3>1, <3>2, AdvancesOnly
  <2> QED
    BY <2>3, <2>4
<1> QED
  BY <1>6, <1>7

LEMMA ExpressionKeeps ==
    ASSUME IInv, Expression, UNCHANGED <<schema, save>>
    PROVE  IInv'
  BY EvaluateKeeps DEF Expression, Before

LEMMA SkipKeeps ==
    ASSUME IInv, Skip, UNCHANGED <<schema, save>>
    PROVE  IInv'
<1>1. /\ Running /\ top.pos \in DOMAIN alternative /\ symbol = "@skip"
      /\ SkipPast("[", "]", 1, top.pos + 1) /\ UNCHANGED <<value, contexts, output, tables>>
  BY DEF Skip, Before, Next_
<1>2. /\ Placed(top.rule, top.alt, top.pos, alternative) /\ symbol = alternative[top.pos]
      /\ top.pos \in 1 .. Len(alternative) /\ Len(alternative) \in Nat
  BY <1>1, AtHand
<1>3. PICK p : p = top.pos + 1
  OBVIOUS
<1>4. p \in top.pos + 1 .. Len(alternative) + 1 /\ alternative[p - 1] = symbol
  BY <1>2, <1>3
<1>5. top.rule # "emit_nodes" /\ symbol \notin Terminals /\ symbol # "@continuation" /\ symbol # "@loop"
  BY <1>1, <1>2, NoAction DEF Placed
<1>6. Control' /\ (\A R : Open(R)' = Open(R)) /\ stream' = stream /\ replaced' = replaced
  BY <1>1, <1>3, <1>4, <1>5, SkipsPast DEF output
<1> QED
  BY <1>1, <1>6, Rests, ValueIs

LEMMA If_expressionKeeps ==
    ASSUME IInv, If_expression, UNCHANGED <<schema, save>>
    PROVE  IInv'
<1>1. /\ Running /\ top.pos \in DOMAIN alternative /\ symbol = "@if_expression"
  BY DEF If_expression, Before
<1>2. CASE Evaluate
  BY <1>1, <1>2, EvaluateKeeps
<1>3. CASE SkipPast("(", ")", 1, top.pos + 1) /\ UNCHANGED <<value, contexts, output, tables>>
  <2>2. /\ Placed(top.rule, top.alt, top.pos, alternative) /\ symbol = alternative[top.pos]
        /\ top.pos \in 1 .. Len(alternative) /\ Len(alternative) \in Nat
    BY <1>1, AtHand
  <2>3. PICK p : p = top.pos + 1
    OBVIOUS
  <2>4. p \in top.pos + 1 .. Len(alternative) + 1 /\ alternative[p - 1] = symbol
    BY <2>2, <2>3
  <2>5. top.rule # "emit_nodes" /\ symbol \notin Terminals /\ symbol # "@continuation" /\ symbol # "@loop"
    BY <1>1, <2>2, NoAction DEF Placed
  <2>6. Control' /\ (\A R : Open(R)' = Open(R)) /\ stream' = stream /\ replaced' = replaced
    BY <1>1, <1>3, <2>3, <2>4, <2>5, SkipsPast DEF output
  <2> QED
    BY <1>3, <2>6, Rests, ValueIs
<1> QED
  BY <1>2, <1>3 DEF If_expression, Next_

LEMMA Else_conditionKeeps ==
    ASSUME IInv, Else_condition, UNCHANGED <<schema, save>>
    PROVE  IInv'
<1>1. /\ Running /\ top.pos \in DOMAIN alternative /\ symbol = "@true" /\ value' = 1 /\ Advance
      /\ UNCHANGED <<stream, bad, replaced, contexts, output, tables>> /\ index' = index
  BY DEF Else_condition, Before, tokens
<1>2. Placed(top.rule, top.alt, top.pos, alternative) /\ symbol = alternative[top.pos] /\ index \in Slots
  BY <1>1, AtHand
<1>3. top.rule # "emit_nodes" /\ symbol \notin Terminals \cup {"@continuation", "@loop"}
  BY <1>1, <1>2, NoAction DEF Placed
<1> QED
  BY <1>1, <1>2, <1>3, AdvancesOnly

LEMMA AssertionKeeps ==
    ASSUME IInv, Assertion, UNCHANGED <<schema, save>>
    PROVE  IInv'
<1>1. /\ Running /\ top.pos \in DOMAIN alternative /\ symbol = "@assert" /\ (Throws \/ Advance)
      /\ UNCHANGED <<tokens, value, contexts, output, tables>>
  BY DEF Assertion, Before
<1>2. Placed(top.rule, top.alt, top.pos, alternative) /\ symbol = alternative[top.pos] /\ index \in Slots
  BY <1>1, AtHand
<1>3. top.rule # "emit_nodes" /\ symbol \notin Terminals \cup {"@continuation", "@loop"}
  BY <1>1, <1>2, NoAction DEF Placed
<1>4. CASE Throws
  BY <1>1, <1>4, ThrowsOnly DEF Running
<1>5. CASE Advance
  BY <1>1, <1>2, <1>3, <1>5, ValueIs, AdvancesOnly DEF tokens
<1> QED
  BY <1>1, <1>4, <1>5

(* A production of an if, of a template or of a loop runs inside one, so   *)
(* the context it looks at is there.                                       *)
LEMMA ContextIsThere ==
    ASSUME IInv, calls # <<>>
    PROVE  /\ top.rule \in InIf => ifs # <<>>
           /\ top.rule \in InTemplate => templates # <<>>
<1>1. PICK n \in Nat \ {0} : n = Len(calls)
  BY Topmost
<1>2. top = calls[n] /\ DOMAIN calls = 1 .. n
  BY <1>1, Topmost
<1>3. ASSUME NEW rule, Below(n, rule) PROVE Open({rule}) # {}
  BY <1>2, <1>3 DEF Below, Open
<1>4. Cardinality(Open({"if_elif_else_block"})) = 0 <=> Open({"if_elif_else_block"}) = {}
  BY OpenCounts
<1>5. Cardinality(Open({"template_statement"})) = 0 <=> Open({"template_statement"}) = {}
  BY OpenCounts
<1>6. Len(ifs) = Cardinality(Open({"if_elif_else_block"})) /\ Len(templates) = Cardinality(Open({"template_statement"}))
  BY DEF IInv, Scoped
<1>7. top.rule \in InIf => Below(n, "if_elif_else_block")
  BY <1>2 DEF IInv, Nested
<1>8. top.rule \in InTemplate => Below(n, "template_statement")
  BY <1>2 DEF IInv, Nested
<1>9. top.rule \in InIf => ifs # <<>>
  BY <1>3, <1>4, <1>6, <1>7
<1>10. top.rule \in InTemplate => templates # <<>>
  BY <1>3, <1>5, <1>6, <1>8
<1> QED
  BY <1>9, <1>10

LEMMA ChooseKeeps ==
    ASSUME IInv, Choose, UNCHANGED <<schema, save>>
    PROVE  IInv'
<1>1. /\ Running /\ top.pos \in DOMAIN alternative /\ symbol = "@choose"
      /\ UNCHANGED <<value, templates, output, tables>>
      /\ \/ SkipPast("{", "}", 0, Len(alternative) + 1) /\ UNCHANGED ifs
         \/ Advance /\ UNCHANGED tokens /\ ifs' = Append(Front(ifs), TRUE)
  BY DEF Choose, Before, End_
<1>2. /\ calls # <<>> /\ Placed(top.rule, top.alt, top.pos, alternative) /\ symbol = alternative[top.pos]
      /\ top.pos \in 1 .. Len(alternative) /\ Len(alternative) \in Nat /\ index \in Slots
  BY <1>1, AtHand
<1>3. /\ top.rule = "conditional_block" /\ alternative[Len(alternative)] = "}"
      /\ symbol \notin Terminals /\ symbol # "@continuation" /\ symbol # "@loop"
  BY <1>1, <1>2, NoAction DEF Placed
<1>4. CASE SkipPast("{", "}", 0, Len(alternative) + 1) /\ UNCHANGED ifs
  <2>1. PICK p : p = Len(alternative) + 1
    OBVIOUS
  <2>2. p \in top.pos + 1 .. Len(alternative) + 1 /\ alternative[p - 1] = "}"
    <3>1. p - 1 = Len(alternative) /\ p \in top.pos + 1 .. Len(alternative) + 1
      BY <1>2, <2>1
    <3> QED
      BY <1>3, <3>1
  <2>3. Control' /\ (\A R : Open(R)' = Open(R)) /\ stream' = stream /\ replaced' = replaced
    BY <1>1, <1>3, <1>4, <2>1, <2>2, SkipsPast DEF output
  <2> QED
    BY <1>1, <1>4, <2>3, Rests, ValueIs DEF contexts
<1>5. CASE Advance /\ UNCHANGED tokens /\ ifs' = Append(Front(ifs), TRUE)
  <2>1. index' = index /\ UNCHANGED <<stream, bad, replaced>>
    BY <1>5 DEF tokens
  <2>2. Control' /\ \A R : Open(R)' = Open(R)
    BY <1>1, <1>2, <1>3, <1>5, <2>1, Advances DEF output
  <2>3. ifs # <<>> /\ ifs \in Seq(BOOLEAN)
    BY <1>2, <1>3, ContextIsThere DEF InIf, IInv, Scoped
  <2>4. Front(ifs) \in Seq(BOOLEAN) /\ Len(Front(ifs)) = Len(ifs) - 1 /\ Len(ifs) \in Nat
    BY <2>3, TopAndRest
  <2>5. ifs' \in Seq(BOOLEAN) /\ Len(ifs') = Len(ifs)
    BY <1>5, <2>4
  <2>6. Open({"if_elif_else_block"})' = Open({"if_elif_else_block"})
    BY <2>2
  <2>7. Open({"template_statement"})' = Open({"template_statement"})
    BY <2>2
  <2>8. Open({"for_loop_block"})' = Open({"for_loop_block"})
    BY <2>2
  <2>9. Scoped'
    BY <1>1, <2>5, <2>6, <2>7, <2>8 DEF IInv, Scoped, tables
  <2>10. Streaming'
    BY <2>1, StreamKept
  <2>11. Open(Body)' = Open(Body)
    BY <2>2
  <2>12. Grown'
    BY <1>1, <2>11, OutputKept, ValueIs DEF output
  <2> QED
    BY <2>2, <2>9, <2>10, <2>12 DEF IInv, Control
<1> QED
  BY <1>1, <1>4, <1>5

LEMMA ContinuationKeeps ==
    ASSUME IInv, Continuation, UNCHANGED <<schema, save>>
    PROVE  IInv'
<1>1. /\ Running /\ top.pos \in DOMAIN alternative /\ symbol = "@continuation"
      /\ calls' = Replaced([top EXCEPT !.continuation = index, !.pos = top.pos + 1])
      /\ UNCHANGED <<returned, status, tokens, value, contexts, output, tables>>
  BY DEF Continuation, Before
<1>2. /\ calls # <<>> /\ Placed(top.rule, top.alt, top.pos, alternative) /\ symbol = alternative[top.pos]
      /\ top.pos \in 1 .. Len(alternative) /\ Len(alternative) \in Nat /\ index \in Slots
      /\ top \in Frames /\ Sound(top)
  BY <1>1, AtHand
<1>3. /\ symbol \notin Terminals /\ top.rule # "emit_nodes"
      /\ top.rule = "for_loop_block" => top.pos # 8
  BY <1>1, <1>2, NoAction DEF Placed
<1>4. PICK g : g = [top EXCEPT !.continuation = index, !.pos = top.pos + 1]
  OBVIOUS
<1>5. top.pos + 1 \in Nat /\ index \in Nat
  BY <1>2, SlotsAre
<1>0. top \in Frames
  BY <1>2
<1>6. /\ g \in Frames /\ g.continuation = index /\ g.pos = top.pos + 1 /\ g.rule = top.rule /\ g.mark = top.mark
      /\ g.outer = top.outer /\ g.todo = top.todo /\ g.alt = top.alt /\ g.update = top.update
  <2>1. PICK f, x, y : f = top /\ x = index /\ y = top.pos + 1
    OBVIOUS
  <2>2. f \in Frames /\ x \in Nat /\ y \in Nat /\ g = [f EXCEPT !.continuation = x, !.pos = y]
    BY <1>0, <1>4, <1>5, <2>1, Zenon
  <2>3. /\ g \in Frames /\ g.continuation = x /\ g.pos = y /\ g.rule = f.rule /\ g.mark = f.mark
        /\ g.outer = f.outer /\ g.todo = f.todo /\ g.alt = f.alt /\ g.update = f.update
    BY <2>2, Zenon DEF Frames
  <2> QED
    BY <2>1, <2>3
<1>7. TreeGrows
  BY <1>1, TreeKept DEF output
<1>8. Sound(g)
  <2>1. g.pos \in 1 .. Len(alternative) + 1
    BY <1>2, <1>6
  <2>2. g.rule = "for_loop_block" =>
          /\ g.pos > 5 => g.continuation \in Slots
          /\ g.pos \in 9 .. 15 => g.update \in Slots
    <3>1. g.continuation \in Slots
      BY <1>2, <1>6
    <3>2. top.rule = "for_loop_block" => top.pos # 8 /\ (top.pos \in 9 .. 15 => top.update \in Slots)
      BY <1>2, <1>3 DEF Sound
    <3>3. top.pos # 8 /\ top.pos + 1 \in 9 .. 15 => top.pos \in 9 .. 15
      BY <1>2
    <3> QED
      BY <1>6, <3>1, <3>2, <3>3
  <2>3. g.outer <= Len(nodes) /\ \A k \in DOMAIN g.todo : g.todo[k] \in 1 .. Len(nodes)
    BY <1>2, <1>6 DEF Sound
  <2> QED
    BY <1>2, <1>3, <1>6, <2>1, <2>2, <2>3 DEF Sound, alternative
<1>9. Sound(g)'
  BY <1>6, <1>7, <1>8, SoundAsBefore
<1>10. ASSUME NEW k \in DOMAIN g.todo, nodes'[g.todo[k]].type = "template"
       PROVE  Below(Len(calls), "template_statement")
  BY <1>2, <1>6, <1>7, <1>10, Topmost, TodosAsBefore
<1>11. Len(calls) = 1 => g.pos > 2
  BY <1>2, <1>3, OnlyRoot
<1>12. StillThere(g) => StillThere(top)
  <2>1. PICK p : p = top.pos + 1
    OBVIOUS
  <2>2. PICK h : h = [top EXCEPT !.pos = p]
    OBVIOUS
  <2>3. h.rule = top.rule /\ h.alt = top.alt /\ h.pos = p
    BY <1>2, <1>5, <2>1, <2>2, Gone
  <2>4. StillThere(g) => StillThere(h)
    BY <1>6, <2>1, <2>3 DEF StillThere
  <2>5. p \in Nat /\ p > top.pos
    BY <1>2, <2>1
  <2> QED
    BY <1>1, <1>3, <2>2, <2>4, <2>5, StillOrBegins
<1>13. /\ alternative[g.pos - 1] \notin Terminals /\ g.pos > 1 /\ (g.pos < 3 => top.pos < 3)
       /\ bad' = bad /\ stream' = stream /\ replaced' = replaced /\ index' \in Slots
  <2>1. g.pos - 1 = top.pos
    BY <1>2, <1>6
  <2> QED
    BY <1>1, <1>2, <1>3, <1>6, <2>1 DEF tokens
<1>14. calls' = Replaced(g)
  BY <1>1, <1>4
<1>15. Control' /\ \A R : Open(R)' = Open(R)
  BY <1>1, <1>6, <1>7, <1>9, <1>10, <1>11, <1>12, <1>13, <1>14, MovesOn
<1> QED
  BY <1>1, <1>13, <1>15, Rests, ValueIs

LEMMA LoopKeeps ==
    ASSUME IInv, Loop, UNCHANGED <<schema, save>>
    PROVE  IInv'
<1>1. /\ Running /\ top.pos \in DOMAIN alternative /\ symbol = "@loop"
      /\ UNCHANGED <<value, contexts, output, tables>>
      /\ IF value # 0
         THEN LET ends == Enclosed("(", ")", 1)
              IN  IF ends = {} THEN Throws /\ UNCHANGED tokens
                  ELSE /\ set_index(Min(ends) + 1)
                       /\ calls' = Replaced([top EXCEPT !.update = index, !.pos = @ + 1])
                       /\ UNCHANGED <<returned, status>>
         ELSE SkipPast("{", "}", 0, Len(alternative) + 1)
  BY DEF Loop, Before, End_
<1>2. /\ calls # <<>> /\ Placed(top.rule, top.alt, top.pos, alternative) /\ symbol = alternative[top.pos]
      /\ top.pos \in 1 .. Len(alternative) /\ Len(alternative) \in Nat /\ index \in Slots
      /\ top \in Frames /\ Sound(top)
  BY <1>1, AtHand
<1>0. top \in Frames
  BY <1>2
<1>3. /\ symbol \notin Terminals /\ top.rule = "for_loop_block" /\ top.pos = 8 /\ Len(alternative) = 15
      /\ alternative[15] = "@repeat" /\ alternative[15] \notin Terminals
  <2>1. top.rule = "for_loop_block"
    BY <1>1, <1>2 DEF Placed
  <2>2. top.pos = 8 /\ Len(alternative) = 15 /\ alternative[15] = "@repeat"
    BY <1>1, <1>2, <2>1 DEF Placed
  <2> QED
    BY <1>1, <2>1, <2>2, NoAction
<1>4. CASE value = 0
  <2>1. SkipPast("{", "}", 0, Len(alternative) + 1)
    BY <1>1, <1>4
  <2>2. PICK p : p = Len(alternative) + 1
    OBVIOUS
  <2>3. p \in top.pos + 1 .. Len(alternative) + 1 /\ alternative[p - 1] \notin Terminals
    BY <1>2, <1>3, <2>2
  <2>4. Control' /\ (\A R : Open(R)' = Open(R)) /\ stream' = stream /\ replaced' = replaced
    BY <1>1, <1>3, <2>1, <2>2, <2>3, SkipsPast DEF output
  <2> QED
    BY <1>1, <2>4, Rests, ValueIs
<1>5. CASE value # 0
  <2>1. PICK ends : ends = Enclosed("(", ")", 1)
    OBVIOUS
  <2>2. CASE ends = {}
    <3>1. Throws /\ UNCHANGED tokens
      BY <1>1, <1>5, <2>1, <2>2
    <3> QED
      BY <1>1, <3>1, ThrowsOnly DEF Running
  <2>3. CASE ends # {}
    <3>1. PICK g : g = [top EXCEPT !.update = index, !.pos = top.pos + 1]
      OBVIOUS
    <3>2. /\ set_index(Min(ends) + 1) /\ calls' = Replaced(g) /\ UNCHANGED <<returned, status>>
      BY <1>1, <1>5, <2>1, <2>3, <3>1
    <3>3. index' = Min(ends) + 1 /\ UNCHANGED <<stream, bad, replaced>>
      BY <3>2 DEF set_index, T!set_index
    <3>4. index' \in Slots
      BY <1>2, <2>1, <2>3, <3>3, EndIsThere
    <3>5. top.pos + 1 \in Nat /\ index \in Nat
      BY <1>2, SlotsAre
    <3>6. /\ g \in Frames /\ g.update = index /\ g.pos = 9 /\ g.rule = top.rule /\ g.mark = top.mark
          /\ g.outer = top.outer /\ g.todo = top.todo /\ g.alt = top.alt /\ g.continuation = top.continuation
      <4>1. /\ g \in Frames /\ g.update = index /\ g.pos = top.pos + 1 /\ g.rule = top.rule /\ g.mark = top.mark
            /\ g.outer = top.outer /\ g.todo = top.todo /\ g.alt = top.alt /\ g.continuation = top.continuation
        <5>1. PICK f, x, y : f = top /\ x = index /\ y = top.pos + 1
          OBVIOUS
        <5>2. f \in Frames /\ x \in Nat /\ y \in Nat /\ g = [f EXCEPT !.update = x, !.pos = y]
          BY <1>0, <3>1, <3>5, <5>1, Zenon
        <5>3. /\ g \in Frames /\ g.update = x /\ g.pos = y /\ g.rule = f.rule /\ g.mark = f.mark
              /\ g.outer = f.outer /\ g.todo = f.todo /\ g.alt = f.alt /\ g.continuation = f.continuation
          BY <5>2, Zenon DEF Frames
        <5> QED
          BY <5>1, <5>3
      <4> QED
        BY <1>3, <4>1
    <3>7. TreeGrows
      BY <1>1, TreeKept DEF output
    <3>8. Sound(g)
      <4>1. g.pos \in 1 .. Len(alternative) + 1
        BY <1>3, <3>6
      <4>2. g.continuation \in Slots /\ g.update \in Slots
        BY <1>2, <1>3, <3>6 DEF Sound
      <4>3. g.outer <= Len(nodes) /\ \A k \in DOMAIN g.todo : g.todo[k] \in 1 .. Len(nodes)
        BY <1>2, <3>6 DEF Sound
      <4> QED
        BY <1>2, <1>3, <3>6, <4>1, <4>2, <4>3 DEF Sound, alternative
    <3>9. Sound(g)'
      BY <3>6, <3>7, <3>8, SoundAsBefore
    <3>10. ASSUME NEW k \in DOMAIN g.todo, nodes'[g.todo[k]].type = "template"
           PROVE  Below(Len(calls), "template_statement")
      BY <1>2, <3>6, <3>7, <3>10, Topmost, TodosAsBefore
    <3>11. ~StillThere(g)
      BY <1>3, <3>6 DEF StillThere
    <3>12. /\ alternative[g.pos - 1] \notin Terminals /\ g.pos > 1 /\ (g.pos < 3 => top.pos < 3)
           /\ (Len(calls) = 1 => g.pos > 2)
      <4>1. g.pos - 1 = 8
        BY <3>6
      <4> QED
        BY <1>2, <1>3, <3>6, <4>1
    <3>13. Control' /\ \A R : Open(R)' = Open(R)
      BY <1>1, <3>2, <3>3, <3>4, <3>6, <3>7, <3>9, <3>10, <3>11, <3>12, MovesOn
    <3> QED
      BY <1>1, <3>3, <3>13, Rests, ValueIs
  <2> QED
    BY <2>2, <2>3
<1> QED
  BY <1>4, <1>5

LEMMA UpdateKeeps ==
    ASSUME IInv, Update, UNCHANGED <<schema, save>>
    PROVE  IInv'
<1>1. /\ Running /\ top.pos \in DOMAIN alternative /\ symbol = "@update" /\ Advance
      /\ index' = top.update /\ UNCHANGED <<stream, bad, replaced, value, contexts, output, tables>>
  BY DEF Update, Before, set_index, T!set_index
<1>2. /\ Placed(top.rule, top.alt, top.pos, alternative) /\ symbol = alternative[top.pos] /\ Sound(top)
  BY <1>1, AtHand
<1>3. top.rule = "for_loop_block"
  BY <1>1, <1>2 DEF Placed
<1>4. top.pos = 12
  BY <1>1, <1>2, <1>3 DEF Placed
<1>5. top.update \in Slots
  BY <1>2, <1>3, <1>4 DEF Sound
<1>6. symbol \notin Terminals \cup {"@continuation", "@loop"}
  BY <1>1, NoAction
<1> QED
  BY <1>1, <1>3, <1>5, <1>6, ValueIs, AdvancesOnly

LEMMA RepeatKeeps ==
    ASSUME IInv, Repeat, UNCHANGED <<schema, save>>
    PROVE  IInv'
<1>1. /\ Running /\ top.pos \in DOMAIN alternative /\ symbol = "@repeat"
      /\ Goto(CHOOSE p \in DOMAIN alternative : alternative[p] = "for_continuation")
      /\ index' = top.continuation /\ UNCHANGED <<stream, bad, replaced, value, contexts, output, tables>>
  BY DEF Repeat, Before, set_index, T!set_index
<1>2. /\ calls # <<>> /\ Placed(top.rule, top.alt, top.pos, alternative) /\ symbol = alternative[top.pos]
      /\ Sound(top) /\ top \in Frames
  BY <1>1, AtHand
<1>3. top.rule = "for_loop_block"
  BY <1>1, <1>2 DEF Placed
<1>4. /\ top.pos = 15 /\ Len(alternative) = 15 /\ alternative[6] = "for_continuation"
      /\ alternative[5] = "@continuation"
  BY <1>1, <1>2, <1>3 DEF Placed
<1>5. DOMAIN alternative = 1 .. 15
  BY <1>2, <1>4, Topmost
<1>6. \A p \in DOMAIN alternative : alternative[p] = "for_continuation" => p = 6
  <2>1. \A p \in DOMAIN alternative : Placed(top.rule, top.alt, p, alternative)
    BY <1>2, Topmost
  <2> QED
    BY <1>3, <2>1 DEF Placed
<1>7. (CHOOSE p \in DOMAIN alternative : alternative[p] = "for_continuation") = 6
  BY <1>4, <1>5, <1>6
<1>8. PICK p : p = 6
  OBVIOUS
<1>9. Goto(p)
  BY <1>1, <1>7, <1>8
<1>10. top.continuation \in Slots
  BY <1>2, <1>3, <1>4 DEF Sound
<1>11. alternative[p - 1] \notin Terminals
  <2>1. p - 1 = 5
    BY <1>8
  <2> QED
    BY <1>4, <2>1, NoAction
<1>12. ~StillThere([top EXCEPT !.pos = p])
  <2>1. PICK g : g = [top EXCEPT !.pos = p]
    OBVIOUS
  <2>2. g.rule = top.rule
    BY <1>2, <1>8, <2>1, Gone
  <2> QED
    BY <1>3, <2>1, <2>2 DEF StillThere
<1>13. Control' /\ \A R : Open(R)' = Open(R)
  BY <1>1, <1>3, <1>4, <1>8, <1>9, <1>10, <1>11, <1>12, Goes DEF Goto, output
<1> QED
  BY <1>1, <1>13, Rests, ValueIs

(* The token a frame began with is where it was while it may be asked for. *)
LEMMA BeganWith ==
    ASSUME IInv, calls # <<>>, status = "running", StillThere(top)
    PROVE  stream[top.mark].type = alternative[1]
<1>1. PICK n \in Nat \ {0} : n = Len(calls)
  BY Topmost
<1>2. top = calls[n] /\ DOMAIN calls = 1 .. n
  BY <1>1, Topmost
<1>3. Undeclared(n)
  BY <1>1 DEF Undeclared
<1> QED
  BY <1>2, <1>3 DEF IInv, Begun, alternative

(* A loop variable is assigned within the for loop that is its scope.      *)
LEMMA AssignedInLoop ==
    ASSUME IInv, calls # <<>>, top.rule = "for_assignment"
    PROVE  scopes # <<>>
<1>1. PICK k \in Nat \ {0} : k = Len(calls)
  BY Topmost
<1>2. PICK n \in Nat \ {0} : Len(calls) = n + 1
  <2>1. Len(calls) # 1
    BY OnlyRoot
  <2>2. k - 1 \in Nat \ {0} /\ k = (k - 1) + 1
    BY <1>1, <2>1
  <2> QED
    BY <1>1, <2>2
<1>3. PICK c : c = calls[n]
  OBVIOUS
<1>4. /\ c \in Frames /\ Sound(c) /\ c.pos \in 1 .. Len(Grammar[c.rule][c.alt])
      /\ c.rule # "emit_nodes" => Symbol(c) = "for_assignment"
      /\ c.rule = "emit_nodes" => top.rule \in Body
  BY <1>2, <1>3, Caller
<1>5. c.rule # "emit_nodes"
  BY <1>4 DEF Body
<1>6. Placed(c.rule, c.alt, c.pos, Grammar[c.rule][c.alt])
  BY <1>4, Alternatives DEF Sound, Frames
<1>7. c.rule = "for_loop_block"
  BY <1>4, <1>5, <1>6 DEF Placed, Symbol
<1>8. n \in DOMAIN calls
  BY <1>2, Topmost
<1>9. Open({"for_loop_block"}) # {}
  BY <1>3, <1>7, <1>8 DEF Open
<1>10. Cardinality(Open({"for_loop_block"})) = 0 <=> Open({"for_loop_block"}) = {}
  BY OpenCounts
<1> QED
  BY <1>9, <1>10 DEF IInv, Scoped

(* What every action of one symbol has at hand.                            *)
LEMMA ActionAt ==
    ASSUME IInv, Running, top.pos \in DOMAIN alternative,
           symbol \in {"@add", "@set", "@instantiate", "@typename", "@matches", "@rewind"}
    PROVE  /\ top.rule # "emit_nodes" /\ symbol \notin Terminals \cup {"@continuation", "@loop"}
           /\ calls # <<>> /\ top \in Frames /\ index \in Slots
           /\ Placed(top.rule, top.alt, top.pos, alternative) /\ symbol = alternative[top.pos]
  BY AtHand, NoAction DEF Placed

LEMMA TablesWritten ==
    ASSUME IInv, Running, top.pos \in DOMAIN alternative, Advance, symbol \in {"@add", "@set"},
           UNCHANGED <<schema, save, tokens, value, contexts, output>>,
           scopes' \in Seq(SUBSET Names), Len(scopes') = Len(scopes),
           \A n \in DOMAIN lookup' : lookup'[n] \in Int /\ \E i \in DOMAIN scopes' : n \in scopes'[i]
    PROVE  IInv'
<1>1. /\ top.rule # "emit_nodes" /\ symbol \notin Terminals \cup {"@continuation", "@loop"} /\ index \in Slots
  BY ActionAt
<1>2. index' = index /\ UNCHANGED <<stream, bad, replaced>>
  BY DEF tokens
<1>3. Control' /\ \A R : Open(R)' = Open(R)
  BY <1>1, <1>2, Advances DEF output
<1>4. Open({"if_elif_else_block"})' = Open({"if_elif_else_block"})
  BY <1>3
<1>5. Open({"template_statement"})' = Open({"template_statement"})
  BY <1>3
<1>6. Open({"for_loop_block"})' = Open({"for_loop_block"})
  BY <1>3
<1>7. Scoped'
  BY <1>4, <1>5, <1>6 DEF IInv, Scoped, contexts
<1>8. Streaming'
  BY <1>2, StreamKept
<1>9. Open(Body)' = Open(Body)
  BY <1>3
<1>10. Grown'
  BY <1>9, OutputKept, ValueIs DEF output
<1> QED
  BY <1>3, <1>7, <1>8, <1>10 DEF IInv, Control

LEMMA AddKeeps ==
    ASSUME IInv, Add, UNCHANGED <<schema, save>>
    PROVE  IInv'
<1>1. /\ Running /\ top.pos \in DOMAIN alternative /\ symbol = "@add"
      /\ UNCHANGED <<tokens, value, contexts, output>>
      /\ \/ V!add(Variable, value) /\ Advance
         \/ Throws /\ UNCHANGED tables
  BY DEF Add, Before
<1>2. CASE Throws /\ UNCHANGED tables
  BY <1>1, <1>2, ThrowsOnly DEF Running
<1>3. CASE V!add(Variable, value) /\ Advance
  <2>1. calls # <<>> /\ top \in Frames /\ Placed(top.rule, top.alt, top.pos, alternative) /\ symbol = alternative[top.pos]
    BY <1>1, ActionAt
  <2>2. top.rule = "for_assignment" /\ top.pos = 4
    BY <1>1, <2>1 DEF Placed
  <2>3. alternative[1] = "identifier"
    BY <2>1, <2>2 DEF Placed
  <2>4. stream[top.mark].type = "identifier"
    BY <1>1, <2>1, <2>2, <2>3, BeganWith DEF StillThere, Running
  <2>5. top.mark \in DOMAIN stream
    BY <2>1, SlotsAre DEF Frames
  <2>6. PICK n : n = Variable
    OBVIOUS
  <2>7. n \in Names
    BY <2>4, <2>5, <2>6 DEF Variable, IInv, Streaming
  <2>8. scopes # <<>> /\ scopes \in Seq(SUBSET Names)
    BY <2>1, <2>2, AssignedInLoop DEF IInv, Scoped
  <2>9. /\ scopes' = [scopes EXCEPT ![Len(scopes)] = scopes[Len(scopes)] \cup {n}]
        /\ lookup' = [m \in DOMAIN lookup \cup {n} |-> IF m = n THEN value ELSE lookup[m]]
    BY <1>3, <2>6 DEF V!add, V!Store
  <2>10. scopes[Len(scopes)] \cup {n} \in SUBSET Names /\ Len(scopes) \in DOMAIN scopes
    BY <2>7, <2>8
  <2>11. /\ scopes' \in Seq(SUBSET Names) /\ Len(scopes') = Len(scopes)
         /\ n \in scopes'[Len(scopes)] /\ DOMAIN scopes' = DOMAIN scopes
         /\ \A i \in DOMAIN scopes : scopes[i] \subseteq scopes'[i]
    BY <2>8, <2>9, <2>10
  <2>12. ASSUME NEW m \in DOMAIN lookup'
         PROVE  lookup'[m] \in Int /\ \E i \in DOMAIN scopes' : m \in scopes'[i]
    <3>1. CASE m = n
      BY <2>9, <2>10, <2>11, <3>1, ValueIs
    <3>2. CASE m # n
      <4>1. m \in DOMAIN lookup /\ lookup'[m] = lookup[m]
        BY <2>9, <3>2
      <4>2. lookup[m] \in Int /\ \E i \in DOMAIN scopes : m \in scopes[i]
        BY <4>1 DEF IInv, Scoped
      <4> QED
        BY <2>11, <4>1, <4>2
    <3> QED
      BY <3>1, <3>2
  <2> QED
    BY <1>1, <1>3, <2>11, <2>12, TablesWritten
<1> QED
  BY <1>1, <1>2, <1>3

LEMMA SetKeeps ==
    ASSUME IInv, Set, UNCHANGED <<schema, save>>
    PROVE  IInv'
<1>1. /\ Running /\ top.pos \in DOMAIN alternative /\ symbol = "@set"
      /\ UNCHANGED <<tokens, value, contexts, output>>
      /\ \/ V!CanSet(Variable) /\ V!set(Variable, value) /\ Advance
         \/ Throws /\ UNCHANGED tables
  BY DEF Set, Before
<1>2. CASE Throws /\ UNCHANGED tables
  BY <1>1, <1>2, ThrowsOnly DEF Running
<1>3. CASE V!CanSet(Variable) /\ V!set(Variable, value) /\ Advance
  <2>1. PICK n : n = Variable
    OBVIOUS
  <2>2. /\ scopes' = scopes /\ n \in DOMAIN lookup
        /\ lookup' = [m \in DOMAIN lookup \cup {n} |-> IF m = n THEN value ELSE lookup[m]]
    BY <1>3, <2>1 DEF V!set, V!Store, V!CanSet
  <2>3. /\ scopes \in Seq(SUBSET Names)
        /\ \A m \in DOMAIN lookup : lookup[m] \in Int /\ \E i \in DOMAIN scopes : m \in scopes[i]
    BY DEF IInv, Scoped
  <2>4. \A m \in DOMAIN lookup' : lookup'[m] \in Int /\ \E i \in DOMAIN scopes' : m \in scopes'[i]
    BY <2>2, <2>3, ValueIs
  <2> QED
    BY <1>1, <1>3, <2>2, <2>3, <2>4, TablesWritten
<1> QED
  BY <1>1, <1>2, <1>3

-----------------------------------------------------------------------------
(* Templates. *)

LEMMA ContextWritten ==
    ASSUME IInv, Running, top.pos \in DOMAIN alternative, Advance, symbol \in {"@instantiate", "@typename"},
           UNCHANGED <<schema, save, tokens, value, ifs, output, tables>>,
           NEW e \in [type_name : AnyToken, type : TypeTokens],
           templates # <<>>, templates' = [templates EXCEPT ![Len(templates)] = e]
    PROVE  IInv'
<1>1. /\ top.rule # "emit_nodes" /\ symbol \notin Terminals \cup {"@continuation", "@loop"} /\ index \in Slots
  BY ActionAt
<1>2. index' = index /\ UNCHANGED <<stream, bad, replaced>>
  BY DEF tokens
<1>3. Control' /\ \A R : Open(R)' = Open(R)
  BY <1>1, <1>2, Advances DEF output
<1>4. Open({"if_elif_else_block"})' = Open({"if_elif_else_block"})
  BY <1>3
<1>5. Open({"template_statement"})' = Open({"template_statement"})
  BY <1>3
<1>6. Open({"for_loop_block"})' = Open({"for_loop_block"})
  BY <1>3
<1>7. /\ templates \in Seq([type_name : AnyToken, type : TypeTokens])
      /\ templates' \in Seq([type_name : AnyToken, type : TypeTokens]) /\ Len(templates') = Len(templates)
  <2>1. templates \in Seq([type_name : AnyToken, type : TypeTokens])
    BY DEF IInv, Scoped
  <2> QED
    BY <2>1, Changed
<1>8. Scoped'
  BY <1>4, <1>5, <1>6, <1>7 DEF IInv, Scoped, tables
<1>9. Streaming'
  BY <1>2, StreamKept
<1>10. Open(Body)' = Open(Body)
  BY <1>3
<1>11. Grown'
  BY <1>10, OutputKept, ValueIs DEF output
<1> QED
  BY <1>3, <1>8, <1>9, <1>11 DEF IInv, Control

LEMMA LastTemplate ==
    ASSUME IInv, templates # <<>>
    PROVE  /\ Last(templates) = templates[Len(templates)]
           /\ Last(templates) \in [type_name : AnyToken, type : TypeTokens]
<1>1. templates \in Seq([type_name : AnyToken, type : TypeTokens])
  BY DEF IInv, Scoped
<1> QED
  BY <1>1, TopAndRest

LEMMA InstantiateKeeps ==
    ASSUME IInv, Instantiate, UNCHANGED <<schema, save>>
    PROVE  IInv'
<1>1. /\ Running /\ top.pos \in DOMAIN alternative /\ symbol = "@instantiate" /\ Advance
      /\ templates' = [templates EXCEPT ![Len(templates)].type = previous]
      /\ UNCHANGED <<tokens, value, ifs, output, tables>>
  BY DEF Instantiate, Before
<1>2. /\ calls # <<>> /\ Placed(top.rule, top.alt, top.pos, alternative) /\ index \in Slots
      /\ symbol = alternative[top.pos]
      /\ top.pos > 1 /\ alternative[top.pos - 1] \in Terminals =>
           index > 1 /\ stream[index - 1].type = alternative[top.pos - 1]
  BY <1>1, AtHand
<1>3. top.rule \in InTemplate /\ top.pos = 2 /\ alternative[1] \in {"int", "enum", "string", "struct"}
  BY <1>1, <1>2 DEF Placed, InTemplate
<1>4. index > 1 /\ stream[index - 1].type \in {"int", "enum", "string", "struct"}
  <2>1. top.pos - 1 = 1 /\ top.pos > 1
    BY <1>3
  <2>2. {"int", "enum", "string", "struct"} \subseteq Terminals
    BY DEF Terminals
  <2> QED
    BY <1>2, <1>3, <2>1, <2>2
<1>5. index - 1 \in Slots
  BY <1>2, <1>4, SlotsAre
<1>6. previous \in TypeTokens
  BY <1>4, <1>5, TokensAre DEF previous, TypeTokens
<1>7. templates # <<>>
  BY <1>2, <1>3, ContextIsThere
<1>8. PICK l : l = Last(templates)
  OBVIOUS
<1>9. l = templates[Len(templates)] /\ l \in [type_name : AnyToken, type : TypeTokens]
  BY <1>7, <1>8, LastTemplate
<1>10. PICK t : t = previous
  OBVIOUS
<1>11. PICK e : e = [l EXCEPT !.type = t]
  OBVIOUS
<1>12. e \in [type_name : AnyToken, type : TypeTokens]
  BY <1>6, <1>9, <1>10, <1>11
<1>13. templates' = [templates EXCEPT ![Len(templates)] = e]
  BY <1>1, <1>9, <1>10, <1>11
<1> QED
  BY <1>1, <1>7, <1>12, <1>13, ContextWritten

LEMMA TypenameKeeps ==
    ASSUME IInv, Typename, UNCHANGED <<schema, save>>
    PROVE  IInv'
<1>1. /\ Running /\ top.pos \in DOMAIN alternative /\ symbol = "@typename" /\ Advance
      /\ templates' = [templates EXCEPT ![Len(templates)].type_name = previous]
      /\ UNCHANGED <<tokens, value, ifs, output, tables>>
  BY DEF Typename, Before
<1>2. /\ calls # <<>> /\ Placed(top.rule, top.alt, top.pos, alternative) /\ index \in Slots
      /\ symbol = alternative[top.pos]
      /\ top.pos > 1 /\ alternative[top.pos - 1] \in Terminals =>
           index > 1 /\ stream[index - 1].type = alternative[top.pos - 1]
  BY <1>1, AtHand
<1>3. top.rule \in InTemplate /\ top.pos = 3 /\ alternative[2] = "identifier"
  BY <1>1, <1>2 DEF Placed
<1>4. index > 1
  <2>1. top.pos - 1 = 2 /\ top.pos > 1 /\ alternative[2] \in Terminals
    BY <1>3 DEF Terminals
  <2> QED
    BY <1>2, <2>1
<1>5. index - 1 \in Slots
  BY <1>2, <1>4, SlotsAre
<1>6. previous \in AnyToken
  BY <1>5, TokensAre DEF previous
<1>7. templates # <<>>
  BY <1>2, <1>3, ContextIsThere
<1>8. PICK l : l = Last(templates)
  OBVIOUS
<1>9. l = templates[Len(templates)] /\ l \in [type_name : AnyToken, type : TypeTokens]
  BY <1>7, <1>8, LastTemplate
<1>10. PICK t : t = previous
  OBVIOUS
<1>11. PICK e : e = [l EXCEPT !.type_name = t]
  OBVIOUS
<1>12. e \in [type_name : AnyToken, type : TypeTokens]
  BY <1>6, <1>9, <1>10, <1>11
<1>13. templates' = [templates EXCEPT ![Len(templates)] = e]
  BY <1>1, <1>9, <1>10, <1>11
<1> QED
  BY <1>1, <1>7, <1>12, <1>13, ContextWritten

LEMMA MatchesKeeps ==
    ASSUME IInv, Matches, UNCHANGED <<schema, save>>
    PROVE  IInv'
<1>1. /\ Running /\ top.pos \in DOMAIN alternative /\ symbol = "@matches" /\ (Throws \/ Advance)
      /\ UNCHANGED <<tokens, value, contexts, output, tables>>
  BY DEF Matches, Before
<1>2. top.rule # "emit_nodes" /\ symbol \notin Terminals \cup {"@continuation", "@loop"} /\ index \in Slots
  BY <1>1, ActionAt
<1>3. CASE Throws
  BY <1>1, <1>3, ThrowsOnly DEF Running
<1>4. CASE Advance
  BY <1>1, <1>2, <1>4, ValueIs, AdvancesOnly DEF tokens
<1> QED
  BY <1>1, <1>3, <1>4

LEMMA RewindKeeps ==
    ASSUME IInv, Rewind, UNCHANGED <<schema, save>>
    PROVE  IInv'
<1>1. /\ Running /\ top.pos \in DOMAIN alternative /\ symbol = "@rewind" /\ Advance
      /\ index' = top.mark /\ UNCHANGED <<stream, bad, replaced, value, contexts, output, tables>>
  BY DEF Rewind, Before, set_index, T!set_index
<1>2. top.rule # "emit_nodes" /\ symbol \notin Terminals \cup {"@continuation", "@loop"} /\ top \in Frames
  BY <1>1, ActionAt
<1>3. index' \in Slots
  BY <1>1, <1>2 DEF Frames
<1> QED
  BY <1>1, <1>2, <1>3, ValueIs, AdvancesOnly

(* A type-name is replaced, or put back, in the stream.                    *)
LEMMA StreamReplaced ==
    ASSUME IInv, replaced = <<>>, index \in Slots, stream[index].type = "identifier",
           NEW type \in TypeTokens, schema' = schema,
           replaced' = <<[slot |-> index, token |-> stream[index]]>>,
           stream' = [stream EXCEPT ![index] = type]
    PROVE  Streaming'
<1>1. PICK t : t = stream[index]
  OBVIOUS
<1>2. PICK n \in Nat : n = Len(schema.text)
  BY SlotsAre
<1>3. /\ stream \in Seq(AnyToken) /\ Len(stream) = n /\ stream[n].type = "eos"
      /\ \A i \in 1 .. n :
           /\ stream[i].type = "identifier" => stream[i].value \in Names /\ stream[i].expr = NoExpr
           /\ stream[i].type = "expr" => stream[i].expr.op \in Operations
      /\ index \in 1 .. n
  BY <1>2, SlotsAre DEF IInv, Streaming
<1>4. index # n /\ index \in 1 .. n - 1
  BY <1>3
<1>5. type \in AnyToken /\ type.type \notin {"identifier", "expr"}
  BY DEF TypeTokens
<1>6. /\ stream' \in Seq(AnyToken) /\ Len(stream') = n /\ stream'[index] = type
      /\ \A i \in 1 .. n : i # index => stream'[i] = stream[i]
  BY <1>3, <1>5
<1>7. /\ stream'[n].type = "eos"
      /\ \A i \in 1 .. n :
           /\ stream'[i].type = "identifier" => stream'[i].value \in Names /\ stream'[i].expr = NoExpr
           /\ stream'[i].type = "expr" => stream'[i].expr.op \in Operations
  BY <1>3, <1>4, <1>5, <1>6
<1>8. t \in AnyToken /\ t.type = "identifier" /\ t.value \in Names /\ t.expr = NoExpr
  BY <1>1, <1>3
<1>9. replaced'[1].slot = index /\ replaced'[1].token = t /\ replaced' = <<[slot |-> index, token |-> t]>>
  BY <1>1
<1> QED
  BY <1>2, <1>4, <1>6, <1>7, <1>8, <1>9 DEF Streaming

LEMMA StreamRestored ==
    ASSUME IInv, schema' = schema, T!restore_type_name_token
    PROVE  Streaming' /\ replaced' = <<>>
<1>1. CASE replaced = <<>>
  <2>1. stream' = stream /\ replaced' = replaced
    BY <1>1 DEF T!restore_type_name_token
  <2> QED
    BY <1>1, <2>1, StreamKept
<1>2. CASE replaced # <<>>
  <2>1. PICK s, t : s = replaced[1].slot /\ t = replaced[1].token
    OBVIOUS
  <2>2. replaced' = <<>> /\ stream' = [stream EXCEPT ![s] = t]
    BY <1>2, <2>1 DEF T!restore_type_name_token
  <2>3. PICK n \in Nat : n = Len(schema.text)
    BY SlotsAre
  <2>4. /\ s \in 1 .. n - 1 /\ t \in AnyToken /\ t.type = "identifier" /\ t.value \in Names /\ t.expr = NoExpr
    BY <1>2, <2>1, <2>3 DEF IInv, Streaming
  <2>5. /\ stream \in Seq(AnyToken) /\ Len(stream) = n /\ stream[n].type = "eos"
        /\ \A i \in 1 .. n :
             /\ stream[i].type = "identifier" => stream[i].value \in Names /\ stream[i].expr = NoExpr
             /\ stream[i].type = "expr" => stream[i].expr.op \in Operations
    BY <2>3, SlotsAre DEF IInv, Streaming
  <2>6. /\ stream' \in Seq(AnyToken) /\ Len(stream') = n /\ stream'[s] = t
        /\ \A i \in 1 .. n : i # s => stream'[i] = stream[i]
    BY <2>2, <2>4, <2>5
  <2>7. /\ stream'[n].type = "eos"
        /\ \A i \in 1 .. n :
             /\ stream'[i].type = "identifier" => stream'[i].value \in Names /\ stream'[i].expr = NoExpr
             /\ stream'[i].type = "expr" => stream'[i].expr.op \in Operations
    BY <2>4, <2>5, <2>6
  <2> QED
    BY <2>2, <2>3, <2>6, <2>7 DEF Streaming
<1> QED
  BY <1>1, <1>2

LEMMA ReplaceKeeps ==
    ASSUME IInv, Replace, UNCHANGED <<schema, save>>
    PROVE  IInv'
<1>1. /\ Running /\ top.pos \in DOMAIN alternative /\ symbol = "@replace"
      /\ UNCHANGED <<index, bad, value, contexts, output, tables>>
      /\ \/ T!CanReplace /\ T!replace_type_name_token(Last(templates).type) /\ Advance
         \/ Throws /\ UNCHANGED <<stream, replaced>>
  BY DEF Replace, Before
<1>2. CASE Throws /\ UNCHANGED <<stream, replaced>>
  BY <1>1, <1>2, ThrowsOnly DEF Running, tokens
<1>3. CASE T!CanReplace /\ T!replace_type_name_token(Last(templates).type) /\ Advance
  <2>1. /\ calls # <<>> /\ Placed(top.rule, top.alt, top.pos, alternative) /\ symbol = alternative[top.pos]
        /\ top.pos \in 1 .. Len(alternative) /\ Len(alternative) \in Nat /\ index \in Slots
        /\ top \in Frames /\ Sound(top)
    BY <1>1, AtHand
  <2>2. /\ top.rule = "template_definition_statement" /\ top.pos = 6 /\ symbol \notin Terminals
    BY <1>1, <2>1, NoAction DEF Placed
  <2>3. templates # <<>>
    BY <2>1, <2>2, ContextIsThere DEF InTemplate
  <2>4. PICK type : type = Last(templates).type
    OBVIOUS
  <2>5. type \in TypeTokens
    BY <2>3, <2>4, LastTemplate
  <2>6. /\ replaced = <<>> /\ stream[index].type = "identifier"
        /\ replaced' = <<[slot |-> index, token |-> stream[index]]>>
        /\ stream' = [stream EXCEPT ![index] = type]
    BY <1>3, <2>4 DEF T!CanReplace, T!replace_type_name_token
  <2>7. Streaming'
    BY <2>1, <2>5, <2>6, StreamReplaced
  <2>8. PICK g : g = Moved(top)
    OBVIOUS
  <2>9. /\ g \in Frames /\ Sound(g) /\ g.rule = top.rule /\ g.alt = top.alt /\ g.mark = top.mark
        /\ g.outer = top.outer /\ g.pos = 7
        /\ \A k \in DOMAIN g.todo : \E j \in DOMAIN top.todo : g.todo[k] = top.todo[j]
    <3>1. top.pos \in 1 .. Len(Grammar[top.rule][top.alt])
      BY <2>1 DEF alternative
    <3>2. top.rule # "emit_nodes" /\ top.rule # "for_loop_block"
      BY <2>2
    <3>3. /\ g \in Frames /\ Sound(g) /\ g.rule = top.rule /\ g.alt = top.alt /\ g.mark = top.mark
          /\ g.outer = top.outer /\ g.pos = top.pos + 1
          /\ \A k \in DOMAIN g.todo : \E j \in DOMAIN top.todo : g.todo[k] = top.todo[j]
      BY <2>1, <2>8, <3>1, <3>2, Movable
    <3> QED
      BY <2>2, <3>3
  <2>10. TreeGrows
    BY <1>1, TreeKept DEF output
  <2>11. Sound(g)'
    BY <2>9, <2>10, SoundAsBefore
  <2>12. ASSUME NEW k \in DOMAIN g.todo, nodes'[g.todo[k]].type = "template"
         PROVE  Below(Len(calls), "template_statement")
    <3>1. PICK j \in DOMAIN top.todo : g.todo[k] = top.todo[j]
      BY <2>9
    <3>2. top = calls[Len(calls)] /\ Len(calls) \in DOMAIN calls
      BY <2>1, Topmost
    <3> QED
      BY <2>10, <2>12, <3>1, <3>2, TodosAsBefore
  <2>13. alternative[g.pos - 1] \notin Terminals
    <3>1. g.pos - 1 = 6
      BY <2>9
    <3> QED
      BY <2>1, <2>2, <3>1
  <2>14. ~StillThere(g)
    BY <2>2, <2>9 DEF StillThere
  <2>15. calls' = Replaced(g) /\ UNCHANGED <<returned, status>>
    BY <1>3, <2>8 DEF Advance
  <2>16. /\ index' \in Slots /\ bad' = bad /\ (Len(calls) = 1 => g.pos > 2) /\ g.pos > 1 /\ (g.pos < 3 => top.pos < 3)
         /\ top.rule # "opt_array_suffix" /\ (top.rule = "emit_nodes" => g.pos = 3)
    BY <1>1, <2>1, <2>2, <2>9
  <2>17. Control' /\ \A R : Open(R)' = Open(R)
    BY <1>1, <2>9, <2>10, <2>11, <2>12, <2>13, <2>14, <2>15, <2>16, MovesOn
  <2>18. Scoped'
    BY <1>1, <2>17, ScopesKept
  <2>19. Open(Body)' = Open(Body)
    BY <2>17
  <2>20. Grown'
    BY <1>1, <2>19, OutputKept, ValueIs DEF output
  <2> QED
    BY <2>7, <2>17, <2>18, <2>20 DEF IInv, Control
<1> QED
  BY <1>1, <1>2, <1>3

-----------------------------------------------------------------------------
(* emit_nodes_. *)

LEMMA Emitting ==
    ASSUME IInv, Running, top.pos \in DOMAIN alternative, symbol \in {"@declare", "@dimension", "@members"}
    PROVE  /\ calls # <<>> /\ top \in Frames /\ Sound(top) /\ index \in Slots
           /\ top.rule = "emit_nodes" /\ top.alt = 1 /\ Len(alternative) = 3
           /\ alternative[3] = "@members" /\ alternative[2] = "@dimension"
           /\ symbol = "@declare" => top.pos = 1 /\ index > 1
           /\ symbol = "@dimension" => top.pos = 2
           /\ symbol = "@members" => top.pos = 3
           /\ top.alt \in DOMAIN Grammar[top.rule] /\ top.mark \in Slots
           /\ ~StillThere(top)
<1>1. /\ calls # <<>> /\ top \in Frames /\ Sound(top) /\ index \in Slots
      /\ Placed(top.rule, top.alt, top.pos, alternative) /\ symbol = alternative[top.pos]
  BY AtHand
<1>2. /\ top.rule = "emit_nodes" /\ top.alt = 1 /\ Len(alternative) = 3
      /\ symbol = "@declare" => top.pos = 1
      /\ symbol = "@dimension" => top.pos = 2
      /\ symbol = "@members" => top.pos = 3
  BY <1>1 DEF Placed
<1>3. /\ Placed(top.rule, top.alt, 2, alternative) /\ Placed(top.rule, top.alt, 3, alternative)
  <2>1. 2 \in DOMAIN alternative /\ 3 \in DOMAIN alternative
    BY <1>1, <1>2, Topmost
  <2> QED
    BY <1>1, <2>1, Topmost
<1>4. alternative[2] = "@dimension" /\ alternative[3] = "@members"
  BY <1>2, <1>3 DEF Placed
<1>5. symbol = "@declare" => index > 1
  BY <1>2 DEF IInv, Positioned
<1> QED
  BY <1>1, <1>2, <1>4, <1>5 DEF Sound, Frames, StillThere

(* The production that called emit_nodes_ is a definition statement, whose *)
(* type is no template, or a template statement.                           *)
LEMMA DefinedBy ==
    ASSUME IInv, Running, top.pos \in DOMAIN alternative, symbol \in {"@declare", "@dimension"}
    PROVE  /\ Len(calls) # 1 /\ TypeToken \in AnyToken
           /\ TypeToken.type = "template" => Below(Len(calls), "template_statement")
<1>1. calls # <<>> /\ top.rule = "emit_nodes" /\ top.pos < 3 /\ ~(top.pos > 2)
  BY Emitting
<1>2. PICK k \in Nat \ {0} : k = Len(calls)
  BY <1>1, Topmost
<1>3. Len(calls) # 1
  BY <1>1, OnlyRoot
<1>4. PICK n \in Nat \ {0} : Len(calls) = n + 1
  <2>1. k - 1 \in Nat \ {0} /\ k = (k - 1) + 1
    BY <1>2, <1>3
  <2> QED
    BY <1>2, <2>1
<1>5. PICK c : c = calls[n]
  OBVIOUS
<1>6. Len(calls) - 1 = n
  BY <1>4
<1>7. /\ c \in Frames /\ Sound(c) /\ top = calls[n + 1]
      /\ c.pos \in 1 .. Len(Grammar[c.rule][c.alt])
      /\ c.rule # "emit_nodes" => Symbol(c) = "emit_nodes"
      /\ c.rule = "emit_nodes" => top.rule \in Body
  BY <1>1, <1>4, <1>5, Caller
<1>8. c.rule # "emit_nodes"
  BY <1>1, <1>7 DEF Body
<1>9. PICK p, t : p = c.pos /\ t = Grammar[c.rule][c.alt]
  OBVIOUS
<1>10. Placed(c.rule, c.alt, p, t) /\ t[p] = "emit_nodes"
  BY <1>7, <1>8, <1>9, Alternatives DEF Sound, Frames, Symbol
<1>11. Statement = c.mark /\ c.mark \in Slots /\ TypeToken = stream[c.mark]
  BY <1>5, <1>6, <1>7 DEF Statement, TypeToken, Frames
<1>12. TypeToken \in AnyToken
  BY <1>11, TokensAre
<1>13. DOMAIN calls = 1 .. n + 1 /\ n \in DOMAIN calls
  BY <1>1, <1>4, Topmost
<1>14. CASE c.rule = "template_statement"
  BY <1>4, <1>5, <1>12, <1>13, <1>14, <1>3 DEF Below
<1>15. CASE c.rule = "definition_statement" /\ c.alt < 5 /\ p = 4
  <2>1. StillThere(c)
    BY <1>9, <1>15 DEF StillThere
  <2>2. Undeclared(n)
    BY <1>1, <1>7, <1>13 DEF Undeclared
  <2>3. stream[c.mark].type = t[1]
    BY <1>5, <1>9, <1>13, <2>1, <2>2 DEF IInv, Begun, Running
  <2>4. t[1] \in {"int", "enum", "string", "struct"}
    BY <1>10, <1>15 DEF Placed
  <2> QED
    BY <1>3, <1>11, <1>12, <2>3, <2>4
<1> QED
  BY <1>10, <1>14, <1>15 DEF Placed

LEMMA TokenWords ==
    ASSUME NEW t \in AnyToken
    PROVE  t.type \in Words /\ t.value \in Words
<1>1. NoToken.type = "invalid" /\ NoToken.value = ""
  BY DEF NoToken, Token
<1>2. \A u \in Tokens : u.type \in STRING /\ u.value \in STRING
  BY DEF Tokens
<1> QED
  BY <1>1, <1>2 DEF AnyToken, Words

(* The step of emit_nodes_ that adds nodes, or reads into them.            *)
LEMMA EmitNodesMoves ==
    ASSUME IInv, Running, top.pos \in DOMAIN alternative, symbol \in {"@declare", "@dimension", "@members"},
           NEW g \in Frames, calls' = Replaced(g), UNCHANGED <<returned, status, schema, save, index, bad>>,
           g.rule = top.rule, g.alt = top.alt, g.mark = top.mark, g.outer = top.outer,
           g.pos \in {2, 3}, g.pos = 2 => top.pos < 3 /\ Len(calls) # 1 /\ stream' = stream /\ g.todo # <<>>,
           stream' = stream \/ symbol # "@members",
           \A k \in DOMAIN g.todo : g.todo[k] \in 1 .. Len(nodes'),
           \A k \in DOMAIN g.todo :
             nodes'[g.todo[k]].type = "template" => Below(Len(calls), "template_statement"),
           TreeGrows
    PROVE  Control' /\ \A R : Open(R)' = Open(R)
<1>1. /\ calls # <<>> /\ top \in Frames /\ Sound(top) /\ index \in Slots /\ top.rule = "emit_nodes"
      /\ Len(alternative) = 3 /\ alternative[3] = "@members" /\ alternative[2] = "@dimension"
      /\ top.alt \in DOMAIN Grammar[top.rule] /\ ~StillThere(top) /\ top.alt = 1
  BY Emitting
<1>2. ~StillThere(g)
  BY <1>1 DEF StillThere
<1>3. Sound(g)'
  <2>1. top.outer <= Len(nodes')
    <3>1. top.outer \in Nat /\ top.outer <= Len(nodes) /\ Len(nodes) \in Nat
      BY <1>1 DEF Sound, Frames, IInv, Grown
    <3> QED
      BY <3>1 DEF TreeGrows
  <2>2. g.pos \in 1 .. Len(Grammar[g.rule][g.alt]) + 1
    BY <1>1 DEF alternative
  <2> QED
    BY <1>1, <2>1, <2>2 DEF Sound
<1>4. alternative[g.pos - 1] \notin Terminals
  <2>1. CASE g.pos = 3
    <3>1. g.pos - 1 = 2
      BY <2>1
    <3> QED
      BY <1>1, <3>1, NoAction
  <2>2. CASE g.pos = 2
    <3>1. g.pos - 1 = 1
      BY <2>2
    <3>2. 1 \in DOMAIN alternative
      BY <1>1, Topmost
    <3>3. Placed(top.rule, top.alt, 1, alternative)
      BY <1>1, <3>2, Topmost
    <3>4. alternative[1] \in {"@declare", "@dimension", "@members"}
      BY <1>1, <3>3 DEF Placed
    <3> QED
      BY <3>1, <3>4, NoAction
  <2> QED
    BY <2>1, <2>2
<1>5. Len(calls) = 1 => g.pos > 2
  OBVIOUS
<1>6. index' \in Slots /\ g.pos > 1 /\ (g.pos < 3 => top.pos < 3) /\ top.rule # "opt_array_suffix"
  BY <1>1
<1>7. stream' = stream \/ g.pos = 3
  OBVIOUS
<1> QED
  BY <1>1, <1>2, <1>3, <1>4, <1>5, <1>6, <1>7, MovesOn

LEMMA EmitNodesKeeps ==
    ASSUME IInv, Control', \A R : Open(R)' = Open(R), Streaming',
           UNCHANGED <<schema, save, value, contexts, parent, tables>>,
           nodes' \in Seq(Nodes), \A i \in DOMAIN nodes' : nodes'[i].parent < i,
           Len(nodes) <= Len(nodes'), read' \in 0 .. Len(save)
    PROVE  IInv'
<1>1. Scoped'
  BY ScopesKept
<1>2. Open(Body)' = Open(Body)
  OBVIOUS
<1>3. Grown'
  <2>1. parent' \in 0 .. Len(nodes')
    BY DEF IInv, Grown
  <2> QED
    BY <1>2, <2>1 DEF IInv, Grown
<1> QED
  BY <1>1, <1>3 DEF IInv, Control

LEMMA DeclareKeeps ==
    ASSUME IInv, Declare, UNCHANGED <<schema, save>>
    PROVE  IInv'
<1>1. PICK type : type = IF IsArray THEN "array" ELSE TypeToken.type
  OBVIOUS
<1>2. PICK position : position = IF IsArray THEN 2 ELSE 3
  OBVIOUS
<1>3. /\ Running /\ top.pos \in DOMAIN alternative /\ symbol = "@declare"
      /\ nodes' = Append(nodes, Node(previous.value, type, parent))
      /\ Keep(<<Len(nodes) + 1>>, position)
      /\ IF IsArray THEN UNCHANGED <<stream, replaced>> ELSE T!restore_type_name_token
      /\ UNCHANGED <<index, bad, value, contexts, parent, read, tables>>
  BY <1>1, <1>2 DEF Declare, Before
<1>4. /\ calls # <<>> /\ top \in Frames /\ Sound(top) /\ index \in Slots /\ top.pos = 1 /\ index > 1
  BY <1>3, Emitting
<1>5. /\ Len(calls) # 1 /\ TypeToken \in AnyToken
      /\ TypeToken.type = "template" => Below(Len(calls), "template_statement")
  BY <1>3, DefinedBy
<1>6. nodes \in Seq(Nodes) /\ parent \in 0 .. Len(nodes) /\ \A i \in DOMAIN nodes : nodes[i].parent < i
  BY DEF IInv, Grown
<1>7. PICK d : d = Node(previous.value, type, parent)
  OBVIOUS
<1>8. d \in Nodes /\ d.parent = parent /\ d.type = type
  <2>1. index - 1 \in Slots
    BY <1>4, SlotsAre
  <2>2. previous \in AnyToken
    BY <2>1, TokensAre DEF previous
  <2>3. previous.value \in Words /\ TypeToken.value \in Words /\ TypeToken.type \in Words /\ "array" \in Words
    BY <1>5, <2>2, TokenWords DEF Words
  <2>4. type \in Words
    BY <1>1, <2>3
  <2>5. NonInteger \in Int \cup {NonInteger} /\ parent \in Nat
    BY <1>6
  <2> QED
    BY <1>7, <2>3, <2>4, <2>5 DEF Node, Nodes
<1>9. PICK m \in Nat : m = Len(nodes)
  BY <1>6
<1>10. /\ nodes' \in Seq(Nodes) /\ Len(nodes') = m + 1 /\ nodes'[m + 1] = d
       /\ \A i \in 1 .. m : nodes'[i] = nodes[i]
  BY <1>3, <1>6, <1>7, <1>8, <1>9
<1>11. \A i \in DOMAIN nodes' : nodes'[i].parent < i
  <2>1. DOMAIN nodes' = 1 .. m + 1 /\ DOMAIN nodes = 1 .. m
    BY <1>6, <1>9, <1>10
  <2>2. \A i \in 1 .. m + 1 : i = m + 1 \/ i \in 1 .. m
    OBVIOUS
  <2>3. d.parent < m + 1
    BY <1>6, <1>8, <1>9
  <2> QED
    BY <1>6, <1>10, <2>1, <2>2, <2>3
<1>12. TreeGrows
  BY <1>6, <1>9, <1>10 DEF TreeGrows
<1>13. PICK ids : ids = <<m + 1>>
  OBVIOUS
<1>14. ids \in Seq(Nat) /\ ids # <<>> /\ DOMAIN ids = {1} /\ ids[1] = m + 1
  BY <1>13
<1>15. PICK f, g : f = top /\ g = [f EXCEPT !.todo = ids, !.pos = position]
  OBVIOUS
<1>16. f \in Frames
  BY <1>4, <1>15
<1>17. position \in Nat /\ position \in {2, 3}
  BY <1>2
<1>18. /\ g \in Frames /\ g.todo = ids /\ g.pos = position /\ g.rule = f.rule /\ g.mark = f.mark
       /\ g.outer = f.outer /\ g.alt = f.alt
  BY <1>14, <1>15, <1>16, <1>17, Zenon DEF Frames
<1>19. calls' = Replaced(g) /\ UNCHANGED <<returned, status>>
  BY <1>3, <1>9, <1>13, <1>15, Zenon DEF Keep
<1>20. Streaming' /\ (position = 2 => stream' = stream)
  <2>1. CASE IsArray
    BY <1>3, <2>1, StreamKept
  <2>2. CASE ~IsArray
    BY <1>2, <1>3, <2>2, StreamRestored
  <2> QED
    BY <2>1, <2>2
<1>21. ASSUME NEW k \in DOMAIN g.todo
       PROVE  /\ g.todo[k] \in 1 .. Len(nodes')
              /\ nodes'[g.todo[k]].type = "template" => Below(Len(calls), "template_statement")
  <2>1. g.todo[k] = m + 1
    BY <1>14, <1>18
  <2>2. nodes'[g.todo[k]].type = type
    BY <1>8, <1>10, <2>1
  <2>3. type = "template" => TypeToken.type = "template"
    BY <1>1
  <2> QED
    BY <1>5, <1>10, <2>1, <2>2, <2>3
<1>22. Control' /\ \A R : Open(R)' = Open(R)
  <2>1. /\ g.rule = top.rule /\ g.alt = top.alt /\ g.mark = top.mark /\ g.outer = top.outer
        /\ g.pos \in {2, 3} /\ g.todo # <<>> /\ top.pos < 3
    BY <1>4, <1>14, <1>15, <1>17, <1>18
  <2>2. g.pos = 2 => top.pos < 3 /\ Len(calls) # 1 /\ stream' = stream /\ g.todo # <<>>
    BY <1>5, <1>18, <1>20, <2>1
  <2> QED
    BY <1>3, <1>12, <1>18, <1>19, <1>21, <2>1, <2>2, EmitNodesMoves
<1>23. read' \in 0 .. Len(save) /\ Len(nodes) <= Len(nodes')
  BY <1>3, <1>9, <1>10 DEF IInv, Grown
<1> QED
  BY <1>3, <1>10, <1>11, <1>20, <1>22, <1>23, EmitNodesKeeps

LEMMA Subscripts == \A i \in 1 .. 4 : Subscript[i] \in Words
<1>1. \A j \in 1 .. 4 : j = 1 \/ j = 2 \/ j = 3 \/ j = 4
  OBVIOUS
<1>2. /\ Subscript[1] = "[0]" /\ Subscript[2] = "[1]" /\ Subscript[3] = "[2]" /\ Subscript[4] = "[3]"
  BY DEF Subscript
<1> QED
  BY <1>1, <1>2 DEF Words

LEMMA Elements ==
    ASSUME NEW s \in Seq(Nodes), NEW d \in Seq(Nodes),
           \A i \in DOMAIN s : s[i].parent < i,
           \A i \in DOMAIN d : d[i].parent \in 1 .. Len(s)
    PROVE  /\ s \o d \in Seq(Nodes) /\ Len(s \o d) = Len(s) + Len(d)
           /\ \A i \in 1 .. Len(s) : (s \o d)[i] = s[i]
           /\ \A i \in 1 .. Len(d) : (s \o d)[Len(s) + i] = d[i]
           /\ \A i \in DOMAIN (s \o d) : (s \o d)[i].parent < i
<1>1. PICK m, n : m = Len(s) /\ n = Len(d)
  OBVIOUS
<1>2. m \in Nat /\ n \in Nat /\ DOMAIN s = 1 .. m /\ DOMAIN d = 1 .. n
  BY <1>1
<1>3. s \o d \in Seq(Nodes) /\ Len(s \o d) = m + n
  BY <1>1
<1>4. ASSUME NEW i \in 1 .. m PROVE (s \o d)[i] = s[i]
  BY <1>1
<1>5. ASSUME NEW i \in 1 .. n PROVE (s \o d)[m + i] = d[i]
  BY <1>1
<1>6. ASSUME NEW i \in 1 .. m + n PROVE (s \o d)[i].parent < i
  <2>1. CASE i \in 1 .. m
    BY <1>2, <1>4, <2>1
  <2>2. CASE i \notin 1 .. m
    <3>1. i - m \in 1 .. n /\ m + (i - m) = i
      BY <1>2, <2>2
    <3>2. (s \o d)[i] = d[i - m]
      BY <1>5, <3>1
    <3>3. d[i - m].parent \in 1 .. m
      BY <1>1, <1>2, <3>1
    <3> QED
      BY <1>2, <2>2, <3>1, <3>2, <3>3
  <2> QED
    BY <2>1, <2>2
<1> QED
  BY <1>1, <1>3, <1>4, <1>5, <1>6

LEMMA DimensionKeeps ==
    ASSUME IInv, Dimension, UNCHANGED <<schema, save>>
    PROVE  IInv'
<1>1. PICK r : r = Eval(stream[Bracket + 1].expr)
  OBVIOUS
<1>2. PICK d : d = [i \in 1 .. r.value |-> Node(Subscript[i], TypeToken.type, top.todo[1])]
  OBVIOUS
<1>3. PICK ids : ids = [i \in 1 .. r.value |-> Len(nodes) + i]
  OBVIOUS
<1>4. /\ Running /\ top.pos \in DOMAIN alternative /\ symbol = "@dimension"
      /\ \/ Throws /\ T!restore_type_name_token /\ UNCHANGED nodes
         \/ Throws /\ UNCHANGED <<stream, replaced, nodes>>
         \/ /\ r.value \in 0 .. MaxArray
            /\ nodes' = nodes \o d
            /\ Keep(ids, 3)
            /\ T!restore_type_name_token
      /\ UNCHANGED <<index, bad, value, contexts, parent, read, tables>>
  BY <1>1, <1>2, <1>3 DEF Dimension, Before
<1>5. /\ calls # <<>> /\ top \in Frames /\ Sound(top) /\ index \in Slots /\ top.pos = 2 /\ top.rule = "emit_nodes"
  BY <1>4, Emitting
<1>6. /\ Len(calls) # 1 /\ TypeToken \in AnyToken
      /\ TypeToken.type = "template" => Below(Len(calls), "template_statement")
  BY <1>4, DefinedBy
<1>7. nodes \in Seq(Nodes) /\ parent \in 0 .. Len(nodes) /\ \A i \in DOMAIN nodes : nodes[i].parent < i
  BY DEF IInv, Grown
<1>8. ASSUME Throws, UNCHANGED nodes, Streaming'
      PROVE  IInv'
  <2>1. index' \in 1 .. Len(schema.text) + 1 /\ bad' = bad
    BY <1>4 DEF IInv, Positioned
  <2>2. TreeGrows
    BY <1>8, TreeKept
  <2>3. Control' /\ \A R : Open(R)' = Open(R)
    BY <1>4, <1>8, <2>1, <2>2, Stopped DEF Throws, Running
  <2>4. read' \in 0 .. Len(save) /\ nodes' = nodes
    BY <1>4, <1>8 DEF IInv, Grown
  <2>5. Len(nodes) <= Len(nodes')
    BY <1>7, <2>4
  <2> QED
    BY <1>4, <1>7, <1>8, <2>3, <2>4, <2>5, EmitNodesKeeps
<1>9. CASE Throws /\ T!restore_type_name_token /\ UNCHANGED nodes
  BY <1>8, <1>9, StreamRestored
<1>10. CASE Throws /\ UNCHANGED <<stream, replaced, nodes>>
  BY <1>8, <1>10, StreamKept
<1>11. CASE /\ r.value \in 0 .. MaxArray /\ nodes' = nodes \o d /\ Keep(ids, 3) /\ T!restore_type_name_token
  <2>1. PICK n \in Nat : n = r.value /\ n <= 4
    <3>1. MaxArray \in 1 .. 4
      BY MaxArrayAssumption DEF Subscript
    <3> QED
      BY <1>11, <3>1
  <2>2. PICK m \in Nat : m = Len(nodes)
    BY <1>7
  <2>3. PICK under : under = top.todo[1]
    OBVIOUS
  <2>4. under \in 1 .. m
    <3>1. top.todo # <<>> /\ top.todo \in Seq(Nat)
      BY <1>5 DEF Sound, Frames
    <3>2. 1 \in DOMAIN top.todo
      BY <3>1
    <3> QED
      BY <1>5, <2>2, <2>3, <3>2 DEF Sound
  <2>5. PICK type, of : type = TypeToken.type /\ of = TypeToken.value
    OBVIOUS
  <2>6. type \in Words /\ of \in Words
    BY <1>6, <2>5, TokenWords
  <2>7. d = [i \in 1 .. n |-> [name |-> Subscript[i], type |-> type, of |-> of, parent |-> under,
                               data |-> NonInteger]]
    BY <1>2, <2>1, <2>3, <2>5 DEF Node
  <2>8. /\ nodes' \in Seq(Nodes) /\ Len(nodes') = m + n
        /\ \A i \in 1 .. m : nodes'[i] = nodes[i]
        /\ \A i \in 1 .. n : nodes'[m + i].type = type
        /\ \A i \in DOMAIN nodes' : nodes'[i].parent < i
    <3>1. PICK s : s = nodes
      OBVIOUS
    <3>2. s \in Seq(Nodes) /\ under \in 1 .. Len(s) /\ \A i \in DOMAIN s : s[i].parent < i
      BY <1>7, <2>2, <2>4, <3>1
    <3>3. /\ s \o d \in Seq(Nodes) /\ Len(s \o d) = Len(s) + n
          /\ \A i \in 1 .. Len(s) : (s \o d)[i] = s[i]
          /\ \A i \in 1 .. n : (s \o d)[Len(s) + i].type = type
          /\ \A i \in DOMAIN (s \o d) : (s \o d)[i].parent < i
      <4>1. ASSUME NEW i \in 1 .. n PROVE d[i] \in Nodes /\ d[i].parent = under /\ d[i].type = type
        <5>1. d[i] = [name |-> Subscript[i], type |-> type, of |-> of, parent |-> under, data |-> NonInteger]
          BY <2>7
        <5>2. under \in Nat /\ NonInteger \in Int \cup {NonInteger} /\ Subscript[i] \in Words
          BY <2>1, <2>4, Subscripts
        <5> QED
          BY <2>6, <5>1, <5>2 DEF Nodes
      <4>2. d \in [1 .. n -> Nodes]
        BY <2>7, <4>1
      <4>3. d \in Seq(Nodes) /\ Len(d) = n
        BY <4>2
      <4>4. DOMAIN d = 1 .. n /\ \A i \in DOMAIN d : d[i].parent \in 1 .. Len(s)
        BY <3>2, <4>1, <4>3
      <4>5. /\ s \o d \in Seq(Nodes) /\ Len(s \o d) = Len(s) + Len(d)
            /\ \A i \in 1 .. Len(s) : (s \o d)[i] = s[i]
            /\ \A i \in 1 .. Len(d) : (s \o d)[Len(s) + i] = d[i]
            /\ \A i \in DOMAIN (s \o d) : (s \o d)[i].parent < i
        BY <3>2, <4>3, <4>4, Elements
      <4> QED
        BY <4>1, <4>3, <4>5
    <3> QED
      BY <1>11, <2>2, <3>1, <3>3
  <2>9. TreeGrows
    BY <1>7, <2>2, <2>8 DEF TreeGrows
  <2>10. ids \in Seq(Nat) /\ DOMAIN ids = 1 .. n /\ \A i \in 1 .. n : ids[i] = m + i
    <3>1. ids = [i \in 1 .. n |-> m + i]
      BY <1>3, <2>1, <2>2
    <3>2. ids \in [1 .. n -> Nat]
      BY <3>1
    <3> QED
      BY <3>1, <3>2
  <2>11. PICK f, g, p : f = top /\ p = 3 /\ g = [f EXCEPT !.todo = ids, !.pos = p]
    OBVIOUS
  <2>12. f \in Frames /\ p \in Nat
    BY <1>5, <2>11
  <2>13. /\ g \in Frames /\ g.todo = ids /\ g.pos = p /\ g.rule = f.rule /\ g.mark = f.mark
         /\ g.outer = f.outer /\ g.alt = f.alt
    BY <2>10, <2>11, <2>12, Zenon DEF Frames
  <2>14. calls' = Replaced(g) /\ UNCHANGED <<returned, status>>
    BY <1>11, <2>11, Zenon DEF Keep
  <2>15. Streaming'
    BY <1>11, StreamRestored
  <2>16. ASSUME NEW k \in DOMAIN g.todo
         PROVE  /\ g.todo[k] \in 1 .. Len(nodes')
                /\ nodes'[g.todo[k]].type = "template" => Below(Len(calls), "template_statement")
    <3>1. k \in 1 .. n /\ g.todo[k] = m + k
      BY <2>10, <2>13
    <3>2. nodes'[g.todo[k]].type = type
      BY <2>8, <3>1
    <3> QED
      BY <1>6, <2>5, <2>8, <3>1, <3>2
  <2>17. /\ g.rule = top.rule /\ g.alt = top.alt /\ g.mark = top.mark /\ g.outer = top.outer
         /\ g.pos \in {2, 3} /\ g.pos # 2
    BY <2>11, <2>13
  <2>18. Control' /\ \A R : Open(R)' = Open(R)
    BY <1>4, <2>9, <2>13, <2>14, <2>16, <2>17, EmitNodesMoves
  <2>19. read' \in 0 .. Len(save) /\ Len(nodes) <= Len(nodes')
    BY <1>4, <2>2, <2>8 DEF IInv, Grown
  <2> QED
    BY <1>4, <2>8, <2>15, <2>18, <2>19, EmitNodesKeeps
<1> QED
  BY <1>4, <1>9, <1>10, <1>11

LEMMA EmittedKeeps ==
    ASSUME IInv, Emitted, UNCHANGED <<schema, save>>
    PROVE  IInv'
<1>1. /\ Running /\ top.pos \in DOMAIN alternative /\ symbol = "@members"
      /\ Goto(Len(alternative) + 1) /\ UNCHANGED <<tokens, value, contexts, output, tables>>
  BY DEF Emitted, Before, End_
<1>2. /\ top \in Frames /\ index \in Slots /\ top.rule = "emit_nodes" /\ top.pos = 3
      /\ Len(alternative) = 3 /\ alternative[3] = "@members"
  BY <1>1, Emitting
<1>3. PICK p : p = 4
  OBVIOUS
<1>4. Goto(p) /\ p \in 2 .. Len(alternative) + 1 /\ p > 2 /\ ~(p < 3)
  BY <1>1, <1>2, <1>3
<1>5. alternative[p - 1] \notin Terminals
  <2>1. p - 1 = 3
    BY <1>3
  <2> QED
    BY <1>2, <2>1, NoAction
<1>6. ~StillThere([top EXCEPT !.pos = p])
  <2>1. PICK g : g = [top EXCEPT !.pos = p]
    OBVIOUS
  <2>2. g.rule = top.rule
    BY <1>2, <1>3, <2>1, Gone
  <2> QED
    BY <1>2, <2>1, <2>2 DEF StillThere
<1>7. index' = index /\ UNCHANGED <<stream, bad, replaced>>
  BY <1>1 DEF tokens
<1>8. Control' /\ \A R : Open(R)' = Open(R)
  BY <1>1, <1>2, <1>4, <1>5, <1>6, <1>7, Goes DEF Goto, output
<1> QED
  BY <1>1, <1>7, <1>8, Rests, ValueIs

LEMMA ReadLeafKeeps ==
    ASSUME IInv, ReadLeaf, UNCHANGED <<schema, save>>
    PROVE  IInv'
<1>1. PICK h : h = Head(top.todo)
  OBVIOUS
<1>2. PICK field : field = save[read + 1]
  OBVIOUS
<1>3. /\ Running /\ top.pos \in DOMAIN alternative /\ symbol = "@members" /\ top.todo # <<>>
      /\ \/ read = Len(save) /\ Throws /\ UNCHANGED <<nodes, read>>
         \/ /\ read # Len(save)
            /\ read' = read + 1
            /\ nodes' = nodes \/ nodes' = [nodes EXCEPT ![h].data = field]
            /\ Throws \/ Advance
      /\ UNCHANGED <<tokens, value, contexts, parent, tables>>
  BY <1>1, <1>2 DEF ReadLeaf, Before, Current
<1>4. /\ calls # <<>> /\ top \in Frames /\ Sound(top) /\ index \in Slots /\ top.pos = 3 /\ top.rule = "emit_nodes"
  BY <1>3, Emitting
<1>5. /\ nodes \in Seq(Nodes) /\ (\A i \in DOMAIN nodes : nodes[i].parent < i)
      /\ read \in 0 .. Len(save) /\ save \in Seq(Int)
  BY SavesAssumption DEF IInv, Grown, Given
<1>6. PICK m \in Nat : m = Len(nodes)
  BY <1>5
<1>7. /\ index' = index /\ index \in 1 .. Len(schema.text) + 1 /\ UNCHANGED <<stream, bad, replaced>>
  BY <1>3 DEF tokens, IInv, Positioned
<1>8. Streaming'
  BY <1>7, StreamKept
<1>9. CASE read = Len(save) /\ Throws /\ UNCHANGED <<nodes, read>>
  BY <1>3, <1>9, ThrowsOnly DEF Running, output
<1>10. CASE /\ read # Len(save) /\ read' = read + 1
            /\ nodes' = nodes \/ nodes' = [nodes EXCEPT ![h].data = field]
            /\ Throws \/ Advance
  <2>1. read' \in 0 .. Len(save) /\ field \in Int
    <3>1. PICK n \in Nat : n = Len(save)
      BY <1>5
    <3>2. read + 1 \in 1 .. n
      BY <1>5, <1>10, <3>1
    <3> QED
      BY <1>2, <1>5, <1>10, <3>1, <3>2
  <2>2. h \in 1 .. m
    <3>1. top.todo \in Seq(Nat) /\ h = top.todo[1] /\ 1 \in DOMAIN top.todo
      BY <1>1, <1>3, <1>4 DEF Frames
    <3> QED
      BY <1>4, <1>6, <3>1 DEF Sound
  <2>3. /\ nodes' \in Seq(Nodes) /\ Len(nodes') = m
        /\ \A i \in 1 .. m : nodes'[i].type = nodes[i].type /\ nodes'[i].parent = nodes[i].parent
    <3>1. CASE nodes' = nodes
      BY <1>5, <1>6, <3>1
    <3>2. CASE nodes' = [nodes EXCEPT ![h].data = field]
      <4>1. PICK d : d = nodes[h]
        OBVIOUS
      <4>2. d \in Nodes
        BY <1>5, <1>6, <2>2, <4>1
      <4>3. PICK e : e = [d EXCEPT !.data = field]
        OBVIOUS
      <4>4. e \in Nodes /\ e.type = d.type /\ e.parent = d.parent
        <5>1. field \in Int \cup {NonInteger}
          BY <2>1
        <5> QED
          BY <4>2, <4>3, <5>1, Zenon DEF Nodes
      <4>5. nodes' = [nodes EXCEPT ![h] = e]
        BY <3>2, <4>1, <4>3
      <4> QED
        BY <1>5, <1>6, <2>2, <4>1, <4>4, <4>5
    <3> QED
      BY <1>10, <3>1, <3>2
  <2>4. \A i \in DOMAIN nodes' : nodes'[i].parent < i
    <3>1. DOMAIN nodes' = 1 .. m /\ DOMAIN nodes = 1 .. m
      BY <1>5, <1>6, <2>3
    <3> QED
      BY <1>5, <2>3, <3>1
  <2>5. TreeGrows
    BY <1>5, <1>6, <2>3 DEF TreeGrows
  <2>6. Len(nodes) <= Len(nodes')
    BY <1>6, <2>3
  <2>7. Control' /\ \A R : Open(R)' = Open(R)
    <3>1. CASE Throws
      BY <1>3, <1>7, <2>5, <3>1, Stopped DEF Throws, Running
    <3>2. CASE Advance
      <4>1. PICK g : g = Moved(top)
        OBVIOUS
      <4>2. top.pos \in 1 .. Len(Grammar[top.rule][top.alt])
        BY <1>3, AtHand DEF alternative
      <4>3. top.rule = "emit_nodes" => top.pos = 3 /\ top.todo # <<>>
        BY <1>3, <1>4
      <4>4. top.rule # "for_loop_block"
        BY <1>4
      <4>5. /\ g \in Frames /\ Sound(g) /\ g.rule = top.rule /\ g.alt = top.alt /\ g.mark = top.mark
            /\ g.outer = top.outer /\ g.pos = 3
            /\ \A k \in DOMAIN g.todo : \E j \in DOMAIN top.todo : g.todo[k] = top.todo[j]
        BY <1>4, <4>1, <4>2, <4>3, <4>4, Movable
      <4>6. Sound(g)'
        BY <2>5, <4>5, SoundAsBefore
      <4>7. \A k \in DOMAIN g.todo : g.todo[k] \in 1 .. Len(nodes')
        BY <1>4, <1>6, <2>3, <4>5 DEF Sound
      <4>8. ASSUME NEW k \in DOMAIN g.todo, nodes'[g.todo[k]].type = "template"
            PROVE  Below(Len(calls), "template_statement")
        <5>1. PICK j \in DOMAIN top.todo : g.todo[k] = top.todo[j]
          BY <4>5
        <5>2. top = calls[Len(calls)] /\ Len(calls) \in DOMAIN calls
          BY <1>4, Topmost
        <5> QED
          BY <2>5, <4>8, <5>1, <5>2, TodosAsBefore
      <4>9. calls' = Replaced(g) /\ UNCHANGED <<returned, status>>
        BY <3>2, <4>1 DEF Advance
      <4>10. g.pos \in {2, 3} /\ g.pos # 2
        BY <4>5
      <4> QED
        BY <1>3, <1>7, <2>5, <4>5, <4>7, <4>8, <4>9, <4>10, EmitNodesMoves
    <3> QED
      BY <1>10, <3>1, <3>2
  <2> QED
    BY <1>3, <1>8, <2>1, <2>3, <2>4, <2>6, <2>7, EmitNodesKeeps
<1> QED
  BY <1>3, <1>9, <1>10

LEMMA ReadMembersKeeps ==
    ASSUME IInv, ReadMembers, UNCHANGED <<schema, save>>
    PROVE  IInv'
<1>1. PICK h : h = Head(top.todo)
  OBVIOUS
<1>2. PICK r : r = IF Current.type = "struct" THEN "struct_members" ELSE "template_members"
  OBVIOUS
<1>3. PICK at : at = IF Current.type = "struct" THEN schema.structs[Current.of] ELSE schema.templates[Current.of]
  OBVIOUS
<1>4. /\ Running /\ top.pos \in DOMAIN alternative /\ symbol = "@members" /\ top.todo # <<>>
      /\ Current.type \in {"struct", "template"}
      /\ \/ Throws /\ UNCHANGED <<tokens, parent>>
         \/ /\ calls' = Append(calls, Frame(r))
            /\ index' = at /\ UNCHANGED <<stream, bad, replaced>>
            /\ Current.of \in DOMAIN (IF Current.type = "struct" THEN schema.structs ELSE schema.templates)
            /\ parent' = h
            /\ UNCHANGED <<returned, status>>
      /\ UNCHANGED <<value, contexts, nodes, read, tables>>
  <2>1. CASE Current.type = "struct"
    BY <1>1, <1>2, <1>3, <2>1 DEF ReadMembers, Before, set_index, T!set_index
  <2>2. CASE Current.type # "struct"
    BY <1>1, <1>2, <1>3, <2>2 DEF ReadMembers, Before, set_index, T!set_index
  <2> QED
    BY <2>1, <2>2
<1>5. /\ calls # <<>> /\ top \in Frames /\ Sound(top) /\ index \in Slots /\ top.pos = 3 /\ top.rule = "emit_nodes"
      /\ Len(alternative) = 3
  BY <1>4, Emitting
<1>6. CASE Throws /\ UNCHANGED <<tokens, parent>>
  BY <1>4, <1>6, ThrowsOnly DEF Running, output
<1>7. CASE /\ calls' = Append(calls, Frame(r))
           /\ index' = at /\ UNCHANGED <<stream, bad, replaced>>
           /\ Current.of \in DOMAIN (IF Current.type = "struct" THEN schema.structs ELSE schema.templates)
           /\ parent' = h
           /\ UNCHANGED <<returned, status>>
  <2>1. at \in Slots
    <3>1. CASE Current.type = "struct"
      BY <1>3, <1>7, <3>1, SlotsAre, SchemasAssumption DEF Slots
    <3>2. CASE Current.type # "struct"
      BY <1>3, <1>7, <3>2, SlotsAre, SchemasAssumption DEF Slots
    <3> QED
      BY <3>1, <3>2
  <2>2. r \in Body /\ r \in Rules /\ r # "emit_nodes" /\ r \notin InIf
    BY <1>2, RulesAre DEF Body, InIf
  <2>3. h = top.todo[1] /\ 1 \in DOMAIN top.todo /\ h \in 1 .. Len(nodes)
    <3>1. top.todo \in Seq(Nat)
      BY <1>5 DEF Frames
    <3>2. h = top.todo[1] /\ 1 \in DOMAIN top.todo
      BY <1>1, <1>4, <3>1
    <3> QED
      BY <1>5, <3>2 DEF Sound
  <2>4. r \in InTemplate => Below(Len(calls), "template_statement")
    <3>1. ASSUME Current.type # "struct" PROVE Below(Len(calls), "template_statement")
      <4>1. nodes[top.todo[1]].type = "template"
        BY <1>1, <1>4, <2>3, <3>1 DEF Current
      <4>2. top = calls[Len(calls)] /\ Len(calls) \in DOMAIN calls
        BY <1>5, Topmost
      <4> QED
        BY <2>3, <4>1, <4>2 DEF IInv, Nested
    <3>2. "struct_members" \notin InTemplate
      BY DEF InTemplate
    <3> QED
      BY <1>2, <3>1, <3>2
  <2>5. Awaits(top, r)
    BY <1>4, <1>5, <2>2 DEF Awaits, alternative
  <2>6. index' \in Slots
    BY <1>7, <2>1
  <2>7. /\ Control'
        /\ \A R : Open(R)' = IF r \in R THEN Open(R) \cup {Len(calls) + 1} ELSE Open(R)
    BY <1>4, <1>7, <2>2, <2>4, <2>5, <2>6, Enters
  <2>8. Enter(r)
    BY <1>2, <1>4 DEF Enter, contexts
  <2>9. Scoped'
    BY <2>7, <2>8, Entered
  <2>10. Streaming'
    BY <1>7, StreamKept
  <2>11. Grown'
    <3>1. Open(Body)' # {}
      BY <2>2, <2>7
    <3> QED
      BY <1>4, <1>7, <2>3, <3>1 DEF IInv, Grown
  <2> QED
    BY <2>7, <2>9, <2>10, <2>11 DEF IInv, Control
<1> QED
  BY <1>4, <1>6, <1>7

-----------------------------------------------------------------------------
(* Calls and returns. *)

LEMMA CallKeeps ==
    ASSUME IInv, Call, UNCHANGED <<schema, save>>
    PROVE  IInv'
<1>1. PICK r : r = symbol
  OBVIOUS
<1>2. /\ Running /\ top.pos \in DOMAIN alternative /\ r \in Rules /\ calls' = Append(calls, Frame(r)) /\ Enter(r)
      /\ UNCHANGED <<tokens, returned, status, value, output>>
  BY <1>1, GrammarRules DEF Call
<1>3. /\ calls # <<>> /\ top \in Frames /\ Sound(top) /\ index \in Slots
      /\ Placed(top.rule, top.alt, top.pos, alternative)
      /\ Len(alternative) \in Nat /\ top.pos \in 1 .. Len(alternative)
      /\ r = alternative[top.pos] /\ Symbol(top) = r
      /\ top.pos > 1 /\ alternative[top.pos - 1] \in Terminals =>
           index > 1 /\ stream[index - 1].type = alternative[top.pos - 1]
  BY <1>1, <1>2, AtHand
<1>4. /\ r \notin Body
      /\ r \in InIf => top.rule \in InIf \cup {"if_elif_else_block"}
      /\ r \in InTemplate => top.rule \in InTemplate \cup {"template_statement"}
  BY <1>3 DEF Placed
<1>5. r = "emit_nodes" => index > 1
  <2>1. SUFFICES ASSUME r = "emit_nodes" PROVE index > 1
    OBVIOUS
  <2>2. \/ top.pos = 7 /\ alternative[6] = "identifier"
        \/ top.pos = 4 /\ alternative[3] = "identifier"
    BY <1>3, <2>1 DEF Placed
  <2>3. top.pos > 1 /\ alternative[top.pos - 1] = "identifier"
    <3>1. top.pos = 7 => top.pos - 1 = 6 /\ top.pos > 1
      OBVIOUS
    <3>2. top.pos = 4 => top.pos - 1 = 3 /\ top.pos > 1
      OBVIOUS
    <3> QED
      BY <2>2, <3>1, <3>2
  <2>4. "identifier" \in Terminals
    BY DEF Terminals
  <2> QED
    BY <1>3, <2>3, <2>4
<1>6. Awaits(top, r)
  BY <1>3 DEF Awaits, alternative
<1>7. index' \in Slots /\ index' = index /\ UNCHANGED <<stream, bad, replaced, nodes>>
  BY <1>2, <1>3 DEF tokens, output
<1>8. /\ Control'
      /\ \A R : Open(R)' = IF r \in R THEN Open(R) \cup {Len(calls) + 1} ELSE Open(R)
  BY <1>2, <1>4, <1>5, <1>6, <1>7, Enters
<1>9. Scoped'
  BY <1>2, <1>8, Entered
<1>10. Streaming'
  BY <1>7, StreamKept
<1>11. Open(Body)' = Open(Body)
  BY <1>4, <1>8
<1>12. Grown'
  BY <1>2, <1>11, OutputKept, ValueIs DEF output
<1> QED
  BY <1>8, <1>9, <1>10, <1>12 DEF IInv, Control

LEMMA RetryKeeps ==
    ASSUME IInv, Retry, UNCHANGED <<schema, save>>
    PROVE  IInv'
<1>1. PICK g : g = [top EXCEPT !.alt = top.alt + 1, !.pos = 1]
  OBVIOUS
<1>2. /\ status = "running" /\ returned = "fail" /\ top.alt < Len(Grammar[top.rule])
      /\ calls' = Replaced(g) /\ returned' = "none" /\ index' = top.mark
      /\ UNCHANGED <<stream, bad, replaced, status, value, contexts, output, tables>>
  BY <1>1 DEF Retry, HasAlternative, set_index, T!set_index
<1>3. calls # <<>>
  BY <1>2, RunningStack
<1>4. PICK n \in Nat \ {0} : n = Len(calls)
  BY <1>3, Topmost
<1>5. /\ calls \in Seq(Frames) /\ top = calls[n] /\ DOMAIN calls = 1 .. n /\ top \in Frames /\ Sound(top)
      /\ top.rule \in Rules /\ top.alt \in DOMAIN Grammar[top.rule]
  BY <1>3, <1>4, Topmost
<1>6. top.rule # "emit_nodes"
  BY <1>2 DEF IInv, Controlled
<1>7. /\ g \in Frames /\ g.rule = top.rule /\ g.alt = top.alt + 1 /\ g.pos = 1 /\ g.mark = top.mark
      /\ g.outer = top.outer /\ g.todo = top.todo
  <2>1. PICK f, a, p : f = top /\ a = top.alt + 1 /\ p = 1
    OBVIOUS
  <2>2. f \in Frames /\ a \in Nat /\ p \in Nat
    BY <1>5, <2>1 DEF Frames
  <2>3. g = [f EXCEPT !.alt = a, !.pos = p]
    BY <1>1, <2>1, Zenon
  <2>4. /\ g \in Frames /\ g.rule = f.rule /\ g.alt = a /\ g.pos = p /\ g.mark = f.mark
        /\ g.outer = f.outer /\ g.todo = f.todo
    BY <2>2, <2>3, Zenon DEF Frames
  <2> QED
    BY <2>1, <2>4
<1>8. g.alt \in DOMAIN Grammar[g.rule]
  BY <1>2, <1>5, <1>7, FirstAlternative
<1>9. Sound(g)
  <2>1. Len(Grammar[g.rule][g.alt]) \in Nat
    BY <1>5, <1>7, <1>8, Alternatives
  <2>2. g.outer <= Len(nodes) /\ \A k \in DOMAIN g.todo : g.todo[k] \in 1 .. Len(nodes)
    BY <1>5, <1>7 DEF Sound
  <2> QED
    BY <1>6, <1>7, <1>8, <2>1, <2>2 DEF Sound
<1>10. TreeGrows
  BY <1>2, TreeKept DEF output
<1>11. Sound(g)'
  BY <1>7, <1>9, <1>10, SoundAsBefore
<1>12. /\ calls' \in Seq(Frames) /\ Len(calls') = n /\ DOMAIN calls' = 1 .. n /\ calls'[n] = g
       /\ \A i \in 1 .. n - 1 : calls'[i] = calls[i]
  BY <1>2, <1>3, <1>4, <1>5, <1>7, Changed DEF Replaced
<1>13. ASSUME NEW k \in DOMAIN g.todo, nodes'[g.todo[k]].type = "template"
       PROVE  Below(n, "template_statement")
  BY <1>4, <1>5, <1>7, <1>10, <1>13, TodosAsBefore
<1>14. n # 1
  BY <1>3, <1>4, <1>6, OnlyRoot
<1>15. Stacked' /\ Nested' /\ \A R : Open(R)' = {i \in Open(R) : i <= n}
  <2>1. n \in 1 .. Len(calls) /\ g.rule = calls[n].rule /\ g.outer = calls[n].outer /\ (n = 1 => g.pos > 2)
    BY <1>4, <1>5, <1>7, <1>14
  <2> QED
    BY <1>7, <1>10, <1>11, <1>12, <1>13, <2>1, Shortened DEF TreeGrows
<1>16. \A R : Open(R)' = Open(R)
  BY <1>5, <1>15 DEF Open
<1>17. top' = g /\ calls' # <<>>
  BY <1>12, TopAndRest DEF top
<1>18. Given' /\ Controlled'
  BY <1>2, <1>3, <1>17 DEF IInv, Given, Controlled
<1>19. Positioned'
  <2>1. Slots' = Slots /\ index' \in Slots /\ bad' = FALSE
    BY <1>2, <1>5 DEF Slots, Frames, IInv, Positioned
  <2>2. index' \in 1 .. Len(schema'.text) + 1
    BY <2>1, SlotsAre
  <2> QED
    BY <1>2, <1>6, <1>7, <1>17, <2>1, <2>2 DEF Positioned
<1>20. Begun'
  <2>1. SUFFICES ASSUME NEW i \in 1 .. n, Undeclared(i)', StillThere(calls[i])'
                 PROVE  stream'[calls'[i].mark].type = Grammar[calls'[i].rule][calls'[i].alt][1]
    BY <1>12 DEF Begun
  <2>2. i # n
    BY <2>1, <1>7, <1>12 DEF StillThere
  <2>3. calls'[i] = calls[i] /\ StillThere(calls[i])
    BY <2>1, <2>2, <1>12 DEF StillThere
  <2>4. Undeclared(i)
    <3>1. \A j \in i + 1 .. n : \/ calls'[j].rule = "opt_array_suffix"
                                \/ calls'[j].rule = "emit_nodes" /\ calls'[j].pos < 3
      BY <2>1, <1>12 DEF Undeclared
    <3>2. calls[n].rule = "opt_array_suffix"
      BY <2>2, <3>1, <1>5, <1>6, <1>7, <1>12
    <3>3. \A j \in i + 1 .. n : j = n \/ (j \in 1 .. n - 1 /\ calls'[j] = calls[j])
      BY <1>12
    <3> QED
      BY <3>1, <3>2, <3>3, <1>5 DEF Undeclared
  <2> QED
    BY <1>2, <1>5, <2>3, <2>4 DEF IInv, Begun
<1>21. Control'
  BY <1>15, <1>18, <1>19, <1>20 DEF Control
<1> QED
  BY <1>2, <1>16, <1>21, Rests, ValueIs

LEMMA Popped ==
    ASSUME IInv, NEW n \in Nat \ {0}, Len(calls) = n + 1
    PROVE  /\ Front(calls) \in Seq(Frames) /\ Len(Front(calls)) = n /\ Front(calls)[n] = calls[n]
           /\ \A i \in 1 .. n - 1 : Front(calls)[i] = calls[i]
<1>1. calls \in Seq(Frames) /\ calls # <<>>
  BY DEF IInv, Stacked
<1>2. /\ Front(calls) \in Seq(Frames) /\ Len(Front(calls)) = Len(calls) - 1
      /\ \A i \in 1 .. Len(calls) - 1 : Front(calls)[i] = calls[i]
  BY <1>1, TopAndRest
<1>3. Len(calls) - 1 = n /\ n \in 1 .. n /\ 1 .. n - 1 \subseteq 1 .. n
  OBVIOUS
<1> QED
  BY <1>2, <1>3

LEMMA PoppedTwice ==
    ASSUME IInv, NEW n \in Nat \ {0}, Len(calls) = n + 1
    PROVE  /\ Front(Front(calls)) \in Seq(Frames) /\ Len(Front(Front(calls))) = n - 1
           /\ \A i \in 1 .. n - 1 : Front(Front(calls))[i] = calls[i]
<1>1. PICK f : f = Front(calls)
  OBVIOUS
<1>2. /\ f \in Seq(Frames) /\ Len(f) = n /\ f # <<>>
      /\ \A i \in 1 .. n - 1 : f[i] = calls[i]
  BY <1>1, Popped
<1>3. PICK h : h = Front(f)
  OBVIOUS
<1>4. /\ h \in Seq(Frames) /\ Len(h) = Len(f) - 1
      /\ \A i \in 1 .. Len(f) - 1 : h[i] = f[i]
  BY <1>2, <1>3, TopAndRest
<1>5. Len(h) = n - 1 /\ \A i \in 1 .. n - 1 : h[i] = calls[i]
  BY <1>2, <1>4
<1> QED
  BY <1>1, <1>3, <1>4, <1>5

(* The outermost production ends, and the parse with it. *)
LEMMA Emptied ==
    ASSUME IInv, calls # <<>>, Len(calls) = 1, Exit(top), calls' = <<>>,
           status' \in {"done", "failed"}, returned' = "none", UNCHANGED <<schema, save>>
    PROVE  IInv'
<1>1. /\ index' \in 1 .. Len(schema.text) + 1
      /\ bad' = bad /\ stream' = stream /\ replaced' = replaced
  BY Exiting
<1>2. Len(calls') = 0 /\ DOMAIN calls' = {} /\ calls' \in Seq(Frames')
  OBVIOUS
<1>3. Stacked' /\ Nested' /\ Controlled' /\ Given'
  BY <1>2 DEF IInv, Given, Stacked, Nested, Controlled
<1>4. Positioned' /\ Begun'
  <2>1. status' # "running"
    OBVIOUS
  <2> QED
    BY <1>1, <2>1 DEF IInv, Positioned, Begun, Running
<1>5. \A R : Open(R)' = {i \in Open(R) : i <= Len(calls) - 1}
  <2>1. SUFFICES ASSUME NEW R PROVE Open(R)' = {i \in Open(R) : i <= Len(calls) - 1}
    OBVIOUS
  <2>2. Open(R)' = {}
    BY <1>2 DEF Open
  <2>3. Open(R) \subseteq 1 .. Len(calls)
    BY OpenCounts
  <2>4. \A i \in Open(R) : i \in 1 .. 1
    BY <2>3
  <2> QED
    BY <2>2, <2>4
<1>6. Scoped' /\ Grown'
  BY <1>5, Left, ParentLeft
<1>7. Streaming'
  BY <1>1, StreamKept
<1> QED
  BY <1>3, <1>4, <1>6, <1>7 DEF IInv

(* The production below takes over. *)
LEMMA Resumes ==
    ASSUME IInv, NEW n \in Nat \ {0}, Len(calls) = n + 1, NEW g,
           \/ g = Moved(calls[n]) /\ status' = "running"
           \/ g = calls[n] /\ (status' = "running" => top.rule # "emit_nodes"),
           calls' \in Seq(Frames), Len(calls') = n, calls'[n] = g,
           \A i \in 1 .. n - 1 : calls'[i] = calls[i],
           Exit(top), status' = "running" => status = "running", UNCHANGED <<schema, save>>,
           Controlled', Positioned'
    PROVE  IInv'
<1>1. calls # <<>> /\ Len(calls) - 1 = n
  BY DEF IInv, Stacked
<1>2. /\ Given' /\ Stacked' /\ Nested'
      /\ \A R : Open(R)' = {i \in Open(R) : i <= n}
  <2>1. g \in {calls[n], Moved(calls[n])}
    OBVIOUS
  <2> QED
    BY <2>1, PopsBack
<1>3. \A R : Open(R)' = {i \in Open(R) : i <= Len(calls) - 1}
  BY <1>1, <1>2
<1>4. Scoped' /\ Grown'
  BY <1>1, <1>3, Left, ParentLeft
<1>5. stream' = stream /\ replaced' = replaced
  BY <1>1, Exiting
<1>6. Streaming'
  BY <1>5, StreamKept
<1>7. Begun'
  <2>1. CASE status' = "running"
    BY <1>5, <2>1, BegunBelow
  <2>2. CASE status' # "running"
    BY <2>2 DEF Begun
  <2> QED
    BY <2>1, <2>2
<1> QED
  BY <1>2, <1>4, <1>6, <1>7 DEF IInv

LEMMA ReturnKeeps ==
    ASSUME IInv, Return, UNCHANGED <<schema, save>>
    PROVE  IInv'
<1>1. /\ Running /\ Exit(top) /\ returned' = returned /\ returned' = "none" /\ status = "running"
      /\ Len(calls) = 1 => calls' = <<>> /\ status' = "done"
      /\ Len(calls) # 1 => /\ calls' = Append(Front(Front(calls)), Moved(calls[Len(calls) - 1]))
                           /\ status' = "running"
  BY DEF Return, Running
<1>2. calls # <<>> /\ Len(calls) \in Nat \ {0}
  BY <1>1, RunningStack, Topmost
<1>3. CASE Len(calls) = 1
  BY <1>1, <1>2, <1>3, Emptied
<1>4. CASE Len(calls) # 1
  <2>1. PICK k \in Nat \ {0} : k = Len(calls)
    BY <1>2
  <2>2. PICK n \in Nat \ {0} : n = k - 1
    BY <1>4, <2>1
  <2>3. Len(calls) = n + 1 /\ Len(calls) - 1 = n
    BY <2>1, <2>2
  <2>4. PICK c : c = calls[n]
    OBVIOUS
  <2>5. PICK g : g = Moved(c)
    OBVIOUS
  <2>6. /\ c \in Frames /\ Sound(c)
        /\ c.pos \in 1 .. Len(Grammar[c.rule][c.alt])
        /\ c.rule # "emit_nodes" => Symbol(c) = top.rule
        /\ c.rule = "emit_nodes" => c.pos = 3 /\ c.todo # <<>>
        /\ c.rule = "for_loop_block" => c.pos # 5 /\ c.pos # 8
        /\ top.rule \in Rules
    BY <2>3, <2>4, Caller
  <2>7. /\ g \in Frames /\ g.rule = c.rule /\ g.alt = c.alt
        /\ c.rule = "emit_nodes" => g.pos = 3
        /\ c.rule # "emit_nodes" => g.pos = c.pos + 1
    BY <2>5, <2>6, Movable
  <2>8. /\ calls' \in Seq(Frames) /\ Len(calls') = n /\ calls'[n] = g
        /\ \A i \in 1 .. n - 1 : calls'[i] = calls[i]
    <3>1. calls' = Append(Front(Front(calls)), g)
      BY <1>1, <1>4, <2>3, <2>4, <2>5
    <3>2. PICK h : h = Front(Front(calls))
      OBVIOUS
    <3>3. h \in Seq(Frames) /\ Len(h) = n - 1 /\ \A i \in 1 .. n - 1 : h[i] = calls[i]
      BY <2>3, <3>2, PoppedTwice
    <3>4. calls' = Append(h, g)
      BY <3>1, <3>2
    <3> QED
      BY <2>7, <3>3, <3>4
  <2>9. top' = g /\ calls' # <<>>
    BY <2>8, TopAndRest DEF top
  <2>10. Controlled'
    BY <1>1, <1>4, <2>9 DEF Controlled
  <2>11. /\ index' \in Slots /\ index' \in 1 .. Len(schema.text) + 1 /\ bad' = FALSE
    BY <1>1, <1>2, Exiting DEF IInv, Positioned
  <2>12. PICK t : t = Grammar[c.rule][c.alt]
    OBVIOUS
  <2>13. alternative' = t
    BY <2>7, <2>9, <2>12 DEF alternative
  <2>14. g.pos > 1 /\ t[g.pos - 1] \notin Terminals
    <3>1. CASE c.rule = "emit_nodes"
      <4>1. Placed(c.rule, c.alt, 2, t) /\ Placed(c.rule, c.alt, 3, t)
        <5>1. \A p \in DOMAIN t : Placed(c.rule, c.alt, p, t)
          BY <2>6, <2>12, Alternatives DEF Sound, Frames
        <5>2. Len(t) \in Nat /\ DOMAIN t = 1 .. Len(t) /\ 3 \in 1 .. Len(t)
          BY <2>6, <2>12, <3>1, Alternatives DEF Sound, Frames
        <5> QED
          BY <5>1, <5>2
      <4>2. t[2] = "@dimension"
        BY <4>1, <3>1 DEF Placed
      <4>3. t[2] \notin Terminals
        BY <4>2, NoAction
      <4>4. g.pos = 3
        BY <2>7, <3>1
      <4>5. g.pos - 1 = 2 /\ g.pos > 1
        BY <4>4
      <4>6. t[g.pos - 1] = t[2]
        BY <4>5, Zenon
      <4> QED
        BY <4>3, <4>5, <4>6, Zenon
    <3>2. CASE c.rule # "emit_nodes"
      <4>0. c.pos \in Nat
        BY <2>6 DEF Frames
      <4>3. c.pos >= 1 /\ g.pos = c.pos + 1
        BY <2>6, <2>7, <3>2
      <4>1. g.pos > 1 /\ g.pos - 1 = c.pos
        BY <4>0, <4>3
      <4>2. t[c.pos] = top.rule
        BY <2>6, <2>12, <3>2 DEF Symbol
      <4> QED
        BY <2>6, <4>1, <4>2, NoTerminal
    <3> QED
      BY <3>1, <3>2
  <2>15. Positioned'
    <3>1. Slots' = Slots
      BY DEF Slots
    <3>2. top'.pos > 1 /\ top'.pos # 1 /\ alternative'[top'.pos - 1] \notin Terminals
      <4>1. g.pos # 1
        BY <2>7, <2>14 DEF Frames
      <4> QED
        BY <2>9, <2>13, <2>14, <4>1
    <3> QED
      BY <2>11, <3>1, <3>2 DEF Positioned
  <2> QED
    BY <1>1, <1>4, <2>3, <2>4, <2>5, <2>8, <2>10, <2>15, Resumes
<1> QED
  BY <1>3, <1>4

(* The stack but for its last frame. *)
LEMMA PopsOnly ==
    ASSUME IInv, Exit(top), calls # <<>>, Len(calls) # 1, calls' = Front(calls),
           returned' \in {"none", "fail"}, status' \in {"running", "throwing"},
           status' = "running" => /\ status = "running" /\ returned' = "fail"
                                  /\ top.rule # "emit_nodes"
                                  /\ calls[Len(calls) - 1].rule # "emit_nodes",
           status' = "throwing" => returned' = "none",
           UNCHANGED <<schema, save>>
    PROVE  IInv'
<1>1. PICK k \in Nat \ {0} : k = Len(calls)
  BY Topmost
<1>2. PICK n \in Nat \ {0} : n = k - 1
  BY <1>1
<1>3. Len(calls) = n + 1 /\ Len(calls) - 1 = n
  BY <1>1, <1>2
<1>4. PICK c : c = calls[n]
  OBVIOUS
<1>5. /\ calls' \in Seq(Frames) /\ Len(calls') = n /\ calls'[n] = c
      /\ \A i \in 1 .. n - 1 : calls'[i] = calls[i]
  BY <1>3, <1>4, Popped
<1>6. top' = c /\ calls' # <<>>
  BY <1>5, TopAndRest DEF top
<1>7. Controlled'
  BY <1>3, <1>4, <1>6 DEF Controlled
<1>8. Positioned'
  <2>1. index' \in 1 .. Len(schema.text) + 1 /\ bad' = FALSE
    BY Exiting DEF IInv, Positioned
  <2>2. ~Running'
    BY DEF Running
  <2> QED
    BY <2>1, <2>2 DEF Positioned
<1> QED
  BY <1>3, <1>4, <1>5, <1>7, <1>8, Resumes

LEMMA GiveUpKeeps ==
    ASSUME IInv, GiveUp, UNCHANGED <<schema, save>>
    PROVE  IInv'
<1>1. /\ status = "running" /\ returned = "fail" /\ Exit(top) /\ calls' = Front(calls)
      /\ \/ status' = "throwing" /\ returned' = "none"
         \/ /\ calls[Len(calls) - 1].rule # "emit_nodes"
            /\ UNCHANGED <<status, returned>>
  BY DEF GiveUp
<1>2. calls # <<>> /\ top.rule # "emit_nodes"
  BY <1>1, RunningStack DEF IInv, Controlled
<1>3. Len(calls) # 1
  BY <1>2, OnlyRoot
<1> QED
  BY <1>1, <1>2, <1>3, PopsOnly

LEMMA UnwindKeeps ==
    ASSUME IInv, Unwind, UNCHANGED <<schema, save>>
    PROVE  IInv'
<1>1. /\ status = "throwing" /\ Exit(top) /\ calls' = Front(calls)
      /\ status' = IF Len(calls) = 1 THEN "failed" ELSE "throwing"
      /\ returned' = returned
  BY DEF Unwind
<1>2. calls # <<>> /\ returned' = "none"
  BY <1>1, RunningStack DEF IInv, Controlled
<1>3. CASE Len(calls) = 1
  <2>1. calls' = <<>>
    <3>1. Front(calls) \in Seq(Frames) /\ Len(Front(calls)) = 0
      BY <1>2, <1>3, Topmost, TopAndRest
    <3> QED
      BY <1>1, <3>1
  <2> QED
    BY <1>1, <1>2, <1>3, <2>1, Emptied
<1>4. CASE Len(calls) # 1
  BY <1>1, <1>2, <1>4, PopsOnly
<1> QED
  BY <1>3, <1>4

-----------------------------------------------------------------------------
(* The invariant holds, and the theorems. *)

(* phase one has left the cursor at meta_eos, and the root structure's     *)
(* node waits to be read.                                                  *)
LEMMA Begins == Init => IInv
<1>1. SUFFICES ASSUME Init PROVE IInv
  OBVIOUS
<1>2. /\ schema \in Schemas /\ schema.root \in STRING
      /\ schema.text \in Seq(Tokens) /\ schema.text # <<>>
      /\ schema.text[Len(schema.text)].type = "eos"
      /\ \A i \in DOMAIN schema.text :
           /\ schema.text[i].type = "identifier" =>
                schema.text[i].value \in Names /\ schema.text[i].expr = NoExpr
           /\ schema.text[i].type = "expr" => schema.text[i].expr.op \in Operations
      /\ save \in Saves /\ save \in Seq(Int)
  BY <1>1, SchemasAssumption, SavesAssumption DEF Init
<1>3. /\ stream = schema.text /\ index = Len(schema.text) /\ bad = FALSE /\ replaced = <<>>
      /\ nodes = <<[name |-> schema.root, type |-> "struct", of |-> schema.root,
                    parent |-> 0, data |-> NonInteger]>>
      /\ parent = 0 /\ read = 0
      /\ calls = <<[Frame("emit_nodes") EXCEPT !.pos = 3, !.todo = <<1>>]>>
      /\ returned = "none" /\ status = "running" /\ value = -1
      /\ ifs = <<>> /\ templates = <<>>
      /\ lookup = [n \in {} |-> 0] /\ scopes = <<>>
  BY <1>1 DEF Init
<1>4. PICK g : g = [Frame("emit_nodes") EXCEPT !.pos = 3, !.todo = <<1>>]
  OBVIOUS
<1>5. PICK m \in Nat \ {0} : m = Len(schema.text)
  BY <1>2
<1>6. /\ index = m /\ index \in Slots /\ Slots = 1 .. m /\ DOMAIN stream = Slots /\ Len(stream) = m
  BY <1>2, <1>3, <1>5 DEF Slots
<1>7. "emit_nodes" \in Rules /\ "emit_nodes" \notin InIf /\ "emit_nodes" \notin InTemplate
      /\ "emit_nodes" \notin Body
  BY RulesAre DEF InIf, InTemplate, Body
<1>8. /\ g \in Frames /\ g.rule = "emit_nodes" /\ g.alt = 1 /\ g.pos = 3 /\ g.mark = m
      /\ g.outer = 0 /\ g.todo = <<1>>
  <2>1. PICK f, p, t : f = Frame("emit_nodes") /\ p = 3 /\ t = <<1>>
    OBVIOUS
  <2>2. /\ f \in Frames /\ f.rule = "emit_nodes" /\ f.alt = 1 /\ f.mark = m /\ f.outer = 0
    BY <1>3, <1>6, <1>7, <2>1 DEF Frame, Frames
  <2>3. p \in Nat /\ t \in Seq(Nat)
    BY <2>1
  <2>4. g = [f EXCEPT !.pos = p, !.todo = t]
    BY <1>4, <2>1, Zenon
  <2>5. /\ g \in Frames /\ g.rule = f.rule /\ g.alt = f.alt /\ g.pos = p /\ g.mark = f.mark
        /\ g.outer = f.outer /\ g.todo = t
    BY <2>2, <2>3, <2>4, Zenon DEF Frames
  <2> QED
    BY <2>1, <2>2, <2>5
<1>9. calls = <<g>>
  BY <1>3, <1>4, Zenon
<1>10. calls \in Seq(Frames) /\ Len(calls) = 1 /\ DOMAIN calls = {1} /\ calls[1] = g /\ calls # <<>>
  BY <1>8, <1>9
<1>11. top = g
  BY <1>10, TopAndRest DEF top
<1>12. Given
  BY <1>2 DEF Given
<1>13. PICK r : r = [name |-> schema.root, type |-> "struct", of |-> schema.root,
                     parent |-> 0, data |-> NonInteger]
  OBVIOUS
<1>14. r \in Nodes /\ r.type = "struct" /\ r.parent = 0
  BY <1>2, <1>13 DEF Nodes, Words
<1>15. nodes \in Seq(Nodes) /\ Len(nodes) = 1 /\ DOMAIN nodes = {1} /\ nodes[1] = r
  BY <1>3, <1>13, <1>14
<1>16. DOMAIN g.todo = {1} /\ g.todo[1] = 1 /\ g.todo # <<>>
  BY <1>8
<1>17. Len(Grammar["emit_nodes"][1]) = 3 /\ 1 \in DOMAIN Grammar["emit_nodes"]
       /\ Grammar["emit_nodes"][1][2] = "@dimension"
  <2>1. 1 \in DOMAIN Grammar["emit_nodes"]
    BY <1>7, FirstAlternative
  <2>2. PICK t : t = Grammar["emit_nodes"][1]
    OBVIOUS
  <2>3. Len(t) = 3 /\ t[2] = "@dimension"
    BY <2>2, Tables, TablesHold DEF BodyRules
  <2> QED
    BY <2>1, <2>2, <2>3
<1>18. Sound(g)
  BY <1>8, <1>15, <1>16, <1>17 DEF Sound
<1>19. Stacked
  BY <1>8, <1>10, <1>18 DEF Stacked
<1>20. Nested
  <2>1. nodes[g.todo[1]].type # "template"
    BY <1>14, <1>15, <1>16
  <2> QED
    BY <1>7, <1>8, <1>10, <1>16, <2>1 DEF Nested
<1>21. Controlled
  BY <1>3, <1>10 DEF Controlled
<1>22. Positioned
  <2>1. "@dimension" \notin Terminals
    BY NoAction
  <2>2. alternative[2] = "@dimension"
    BY <1>8, <1>11, <1>17 DEF alternative
  <2>3. top.pos = 3 /\ top.pos - 1 = 2
    BY <1>8, <1>11
  <2>4. index \in 1 .. Len(schema.text) + 1
    BY <1>5, <1>6
  <2> QED
    BY <1>3, <1>6, <2>1, <2>2, <2>3, <2>4 DEF Positioned
<1>23. Begun
  BY <1>8, <1>10 DEF Begun, StillThere
<1>24. Streaming
  <2>1. stream \in Seq(AnyToken)
    BY <1>2, <1>3 DEF AnyToken
  <2> QED
    BY <1>2, <1>3, <2>1 DEF Streaming
<1>25. Scoped
  <2>1. ASSUME NEW R, "emit_nodes" \notin R PROVE Open(R) = {}
    BY <1>8, <1>10, <2>1 DEF Open
  <2>2. /\ Open({"if_elif_else_block"}) = {} /\ Open({"template_statement"}) = {}
        /\ Open({"for_loop_block"}) = {}
    BY <2>1
  <2>3. Cardinality({}) = 0
    BY FS_EmptySet
  <2>4. /\ Len(ifs) = Cardinality(Open({"if_elif_else_block"}))
        /\ Len(templates) = Cardinality(Open({"template_statement"}))
        /\ Len(scopes) = Cardinality(Open({"for_loop_block"}))
    BY <1>3, <2>2, <2>3
  <2>5. /\ ifs \in Seq(BOOLEAN) /\ templates \in Seq([type_name : AnyToken, type : TypeTokens])
        /\ scopes \in Seq(SUBSET Names)
    BY <1>3
  <2>6. DOMAIN lookup = {}
    BY <1>3
  <2> QED
    BY <2>4, <2>5, <2>6 DEF Scoped
<1>26. Grown
  BY <1>2, <1>3, <1>14, <1>15 DEF Grown
<1> QED
  BY <1>12, <1>19, <1>20, <1>21, <1>22, <1>23, <1>24, <1>25, <1>26 DEF IInv

LEMMA Idles ==
    ASSUME IInv, UNCHANGED vars
    PROVE  IInv'
<1>1. /\ UNCHANGED <<schema, save, stream, index, bad, replaced, calls, returned, status>>
      /\ UNCHANGED <<value, ifs, templates, nodes, parent, read, lookup, scopes>>
  BY DEF vars, tokens, control, contexts, output, tables
<1>2. Given' /\ Controlled'
  BY <1>1 DEF IInv, Given, Controlled, top
<1>3. Stacked'
  <2>1. Frames' = Frames
    BY <1>1 DEF Frames, Slots
  <2>2. /\ \A i \in DOMAIN calls : Sound(calls[i])
        /\ \A i \in 1 .. Len(calls) - 1 : Awaits(calls[i], calls[i + 1].rule)
    BY DEF IInv, Stacked
  <2>3. \A i \in DOMAIN calls : Sound(calls[i])'
    BY <1>1, <2>2 DEF Sound, Slots
  <2>4. \A i \in 1 .. Len(calls) - 1 : Awaits(calls[i], calls[i + 1].rule)'
    BY <1>1, <2>2 DEF Awaits, Symbol
  <2> QED
    BY <1>1, <2>1, <2>3, <2>4 DEF IInv, Stacked
<1>4. Nested'
  <2>1. \A i, rule : Below(i, rule)' <=> Below(i, rule)
    BY <1>1 DEF Below
  <2> QED
    BY <1>1, <2>1 DEF IInv, Nested
<1>5. Positioned'
  BY <1>1 DEF IInv, Positioned, Running, Slots, top, alternative
<1>6. Begun'
  BY <1>1 DEF IInv, Begun, Undeclared, StillThere
<1>7. Streaming'
  BY <1>1, StreamKept
<1>8. Scoped'
  BY <1>1, ScopesKept DEF contexts, tables, Open
<1>9. Grown'
  BY <1>1 DEF IInv, Grown, Open
<1> QED
  BY <1>2, <1>3, <1>4, <1>5, <1>6, <1>7, <1>8, <1>9 DEF IInv

LEMMA StepKeeps ==
    ASSUME IInv, [Next]_vars
    PROVE  IInv'
<1>1. CASE Step /\ UNCHANGED <<schema, save>>
  <2>1. CASE Match
    BY <1>1, <2>1, MatchKeeps
  <2>2. CASE Call
    BY <1>1, <2>2, CallKeeps
  <2>3. CASE Return
    BY <1>1, <2>3, ReturnKeeps
  <2>4. CASE Retry
    BY <1>1, <2>4, RetryKeeps
  <2>5. CASE GiveUp
    BY <1>1, <2>5, GiveUpKeeps
  <2>6. CASE Unwind
    BY <1>1, <2>6, UnwindKeeps
  <2>7. CASE Expression
    BY <1>1, <2>7, ExpressionKeeps
  <2>8. CASE Skip
    BY <1>1, <2>8, SkipKeeps
  <2>9. CASE If_expression
    BY <1>1, <2>9, If_expressionKeeps
  <2>10. CASE Else_condition
    BY <1>1, <2>10, Else_conditionKeeps
  <2>11. CASE Choose
    BY <1>1, <2>11, ChooseKeeps
  <2>12. CASE Assertion
    BY <1>1, <2>12, AssertionKeeps
  <2>13. CASE Continuation
    BY <1>1, <2>13, ContinuationKeeps
  <2>14. CASE Loop
    BY <1>1, <2>14, LoopKeeps
  <2>15. CASE Update
    BY <1>1, <2>15, UpdateKeeps
  <2>16. CASE Repeat
    BY <1>1, <2>16, RepeatKeeps
  <2>17. CASE Add
    BY <1>1, <2>17, AddKeeps
  <2>18. CASE Set
    BY <1>1, <2>18, SetKeeps
  <2>19. CASE Instantiate
    BY <1>1, <2>19, InstantiateKeeps
  <2>20. CASE Typename
    BY <1>1, <2>20, TypenameKeeps
  <2>21. CASE Matches
    BY <1>1, <2>21, MatchesKeeps
  <2>22. CASE Rewind
    BY <1>1, <2>22, RewindKeeps
  <2>23. CASE Replace
    BY <1>1, <2>23, ReplaceKeeps
  <2>24. CASE Declare
    BY <1>1, <2>24, DeclareKeeps
  <2>25. CASE Dimension
    BY <1>1, <2>25, DimensionKeeps
  <2>26. CASE Emitted
    BY <1>1, <2>26, EmittedKeeps
  <2>27. CASE ReadLeaf
    BY <1>1, <2>27, ReadLeafKeeps
  <2>28. CASE ReadMembers
    BY <1>1, <2>28, ReadMembersKeeps
  <2> QED
    BY <1>1, <2>1, <2>2, <2>3, <2>4, <2>5, <2>6, <2>7, <2>8, <2>9, <2>10, <2>11, <2>12, <2>13, <2>14,
       <2>15, <2>16, <2>17, <2>18, <2>19, <2>20, <2>21, <2>22, <2>23, <2>24, <2>25, <2>26, <2>27, <2>28
       DEF Step
<1>2. CASE UNCHANGED vars
  BY <1>2, Idles
<1> QED
  BY <1>1, <1>2 DEF Next

LEMMA InvariantHolds == Spec => []IInv
<1>1. Init => IInv
  BY Begins
<1>2. IInv /\ [Next]_vars => IInv'
  BY StepKeeps
<1> QED
  BY <1>1, <1>2, PTL DEF Spec

(* Whatever the schema and the save, every value the parser of phase two   *)
(* keeps is of its type: the cursor is never more than one past the token  *)
(* stream, whose length no replacement changes, each production marked a   *)
(* token it can go back to, every node's parent came before it, and no     *)
(* more fields are read than the save has.                                 *)
THEOREM TypeCorrect == Spec => []TypeOK
<1>1. ASSUME IInv PROVE TypeOK
  <2>1. /\ index \in 1 .. Len(schema.text) + 1 /\ bad \in BOOLEAN
        /\ returned \in {"none", "fail"} /\ status \in {"running", "throwing", "done", "failed"}
    BY <1>1 DEF IInv, Positioned, Controlled
  <2>2. Len(stream) = Len(schema.text)
    BY <1>1, SlotsAre
  <2>3. ASSUME NEW i \in DOMAIN calls
        PROVE  calls[i].rule \in DOMAIN Grammar /\ calls[i].mark \in DOMAIN stream
    <3>1. calls[i] \in Frames
      BY <1>1 DEF IInv, Stacked
    <3> QED
      BY <1>1, <3>1, GrammarRules, SlotsAre DEF Frames
  <2>4. /\ value \in Int /\ ifs \in Seq(BOOLEAN) /\ parent \in 0 .. Len(nodes)
        /\ (\A i \in DOMAIN nodes : nodes[i].parent < i) /\ read \in 0 .. Len(save)
    BY <1>1 DEF IInv, Scoped, Grown
  <2>5. DOMAIN lookup \subseteq Names
    BY <1>1 DEF IInv, Scoped
  <2> QED
    BY <2>1, <2>2, <2>3, <2>4, <2>5 DEF TypeOK
<1> QED
  BY <1>1, InvariantHolds, PTL

(* Whatever the schema and the save, there are as many if-contexts,        *)
(* template contexts and variable scopes as productions that opened one    *)
(* and have not been left, no name outlives its scope, the parent is the   *)
(* root again when no body is being parsed, and the cursor an instantiation*)
(* goes back to was valid: after a success, a failure and an exception     *)
(* alike (parser-phase-two.cpp:119-120, 427-428, 539-540, 640-641).        *)
THEOREM ContextsStayInStep == Spec => []ContextsMatchCalls
<1>1. ASSUME IInv PROVE ContextsMatchCalls
  <2>1. scopes = <<>> => DOMAIN lookup = {}
    <3>1. \A n \in DOMAIN lookup : \E i \in DOMAIN scopes : n \in scopes[i]
      BY <1>1 DEF IInv, Scoped
    <3>2. scopes = <<>> => DOMAIN scopes = {}
      OBVIOUS
    <3> QED
      BY <3>1, <3>2
  <2> QED
    BY <1>1, <2>1 DEF IInv, Scoped, Grown, Positioned, ContextsMatchCalls
<1> QED
  BY <1>1, InvariantHolds, PTL
=============================================================================
