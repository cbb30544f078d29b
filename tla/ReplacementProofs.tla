------------------------- MODULE ReplacementProofs -------------------------
(***************************************************************************)
(* A template's member is parsed twice where its type is the type-name:    *)
(* once to see that it is a definition, and then with the name replaced by *)
(* the type the template is instantiated with.  The second pass takes the  *)
(* tokens of the first, so it gets to the node source, which puts the name *)
(* back: no second replacement is ever asked for while one is in force,    *)
(* and no member of a struct or template is read with one.                 *)
(***************************************************************************)
EXTENDS PhaseTwoProofs

-----------------------------------------------------------------------------
(* Array suffixes, as slots of the schema.  What is skipped from an opening *)
(* bracket depends on no slot a replacement changes.                       *)

Opens(i) == schema.text[i].type = "["

DepthFrom(i, j) ==
    Cardinality({k \in i .. j : schema.text[k].type = "["})
      - Cardinality({k \in i .. j : schema.text[k].type = "]"})

Closing(i) ==
    {j \in i + 1 .. Len(schema.text) :
       /\ schema.text[j].type = "]"
       /\ 1 + DepthFrom(i + 1, j) = 0
       /\ \A k \in i + 1 .. j - 1 : 1 + DepthFrom(i + 1, k) >= 0}

Behind(i) == Min(Closing(i)) + 1

(* From i the cursor gets to e by passing array suffixes.                  *)
Closed(S) == \A i \in S : Opens(i) /\ Closing(i) # {} => Behind(i) \in S
Leads(i, e) == \A S \in SUBSET Slots : i \in S /\ Closed(S) => e \in S

-----------------------------------------------------------------------------
(* The invariant. *)

TypeWords == {"int", "enum", "string", "struct"}

(* The two productions a replaced member runs through.                     *)
Declaring(f)  == f.rule = "definition_statement" /\ f.alt \in 1 .. 4
Instancing(f) == f.rule = "template_definition_statement" /\ f.alt = 1

(* Each slot but the replaced one holds the schema's token, and that one a *)
(* type.                                                                   *)
StreamIsSchema ==
    IF replaced = <<>> THEN stream = schema.text
    ELSE /\ schema.text[replaced[1].slot] = replaced[1].token
         /\ stream[replaced[1].slot].type \in TypeWords
         /\ \A i \in Slots : i # replaced[1].slot => stream[i] = schema.text[i]

(* A template's context has its type once it has been parsed.              *)
Unsettled ==
    \/ top.rule = "template_statement" /\ top.pos <= 3
    \/ top.rule = "instantiating_type" /\ top.pos <= 2

Settled ==
    status = "running" =>
      \A k \in DOMAIN templates :
        templates[k].type.type \in TypeWords \/ (k = Len(templates) /\ Unsettled)

(* opt_array_suffix_ passes suffixes, and fails at what is none.           *)
Cursor == IF returned = "fail" THEN top.mark
          ELSE IF top.alt = 1 /\ top.pos = 2 THEN index - 1 ELSE index

OnlySuffixes(i) == \A j \in i .. Len(calls) : calls[j].rule = "opt_array_suffix"

Skipping ==
    status = "running" =>
      /\ \A i \in DOMAIN calls : OnlySuffixes(i) => Leads(calls[i].mark, Cursor)
      /\ top.rule = "opt_array_suffix" =>
           /\ returned = "fail" => top.alt = 1 /\ top.pos = 1
           /\ returned = "fail" \/ top.alt = 2 \/ top.pos = 4 => ~Opens(Cursor)

(* Where the cursor is in the statement, from the token it began with.     *)
Here ==
    Running =>
      /\ Declaring(top) =>
           /\ top.pos = 2 => index = top.mark + 1
           /\ top.pos = 3 => Leads(top.mark + 1, index) /\ ~Opens(index)
      /\ Instancing(top) =>
           /\ top.pos \in {2, 3} => index = top.mark + 1
           /\ top.pos = 4 => Leads(top.mark + 1, index) /\ ~Opens(index)
           /\ top.pos \in {6, 7} => index = top.mark

Waiting ==
    status = "running" =>
      \A i \in 1 .. Len(calls) - 1 :
        (Declaring(calls[i]) \/ Instancing(calls[i])) /\ calls[i + 1].rule = "opt_array_suffix"
          => calls[i + 1].mark = calls[i].mark + 1

(* The first pass has found the name behind the suffixes.                  *)
Named(m) == \E e \in Slots : Leads(m + 1, e) /\ schema.text[e].type = "identifier"

Measured ==
    status = "running" =>
      \A i \in DOMAIN calls : Instancing(calls[i]) /\ calls[i].pos \in 5 .. 7 => Named(calls[i].mark)

(* The second pass, from @replace to the node source.  It fails only at    *)
(* the type, until the alternative for it is tried.                        *)
Misses(s, a) == stream[s].type # Grammar["definition_statement"][a][1]

Passing(f, s) ==
    /\ Declaring(f) /\ f.mark = s
    /\ \A a \in 1 .. f.alt - 1 : Misses(s, a)

Instantiating(d) ==
    LET s == replaced[1].slot IN
    /\ Instancing(calls[d]) /\ calls[d].pos = 7 /\ calls[d].mark = s
    /\ d = Len(calls) => returned = "none"
    /\ d < Len(calls) => Passing(calls[d + 1], s)
    /\ d + 1 = Len(calls) => /\ calls[d + 1].pos <= 4
                             /\ returned = "fail" => calls[d + 1].pos = 1 /\ Misses(s, calls[d + 1].alt)
    /\ Undeclared(d + 1)

Replacing == status = "running" /\ replaced # <<>> => \E d \in DOMAIN calls : Instantiating(d)

Ended == status = "done" => replaced = <<>>

Replacement ==
    /\ StreamIsSchema /\ Settled /\ Skipping /\ Here /\ Waiting
    /\ Measured /\ Replacing /\ Ended

RInv == IInv /\ Replacement

-----------------------------------------------------------------------------
(* The productions a statement with a type runs through. *)

LEMMA StatementGrammar ==
    /\ Grammar["opt_array_suffix"] = <<<<"[", "@skip", "opt_array_suffix">>, <<>>>>
    /\ Grammar["definition_statement"] =
         <<<<"int", "opt_array_suffix", "identifier", "emit_nodes">>,
           <<"enum", "opt_array_suffix", "identifier", "emit_nodes">>,
           <<"string", "opt_array_suffix", "identifier", "emit_nodes">>,
           <<"struct", "opt_array_suffix", "identifier", "emit_nodes">>,
           <<"template_statement">>>>
    /\ Grammar["template_statement"] =
         <<<<"template", "<", "instantiating_type", ">",
             "opt_array_suffix", "identifier", "emit_nodes">>>>
    /\ Grammar["instantiating_type"] =
         <<<<"int", "@instantiate">>, <<"enum", "@instantiate">>,
           <<"string", "@instantiate">>, <<"struct", "@instantiate">>>>
    /\ Grammar["template_definition_statement"] =
         <<<<"identifier", "@matches", "opt_array_suffix", "identifier",
             "@rewind", "@replace", "definition_statement">>,
           <<"definition_statement">>>>
<1>1. Grammar["opt_array_suffix"] = <<<<"[", "@skip", "opt_array_suffix">>, <<>>>>
  BY Tables, TablesHold DEF OptionalRules, opt
<1>2. Grammar["definition_statement"] = DefinitionRules["definition_statement"]
      /\ Grammar["template_statement"] = DefinitionRules["template_statement"]
  BY Tables, TablesHold
<1>3. Grammar["instantiating_type"] = IfRules["instantiating_type"]
  BY Tables, TablesHold
<1>4. Grammar["template_definition_statement"] = TemplateRules["template_definition_statement"]
  BY Tables, TablesHold
<1> QED
  BY <1>1, <1>2, <1>3, <1>4 DEF DefinitionRules, IfRules, TemplateRules

LEMMA SuffixSymbols ==
    LET g == Grammar["opt_array_suffix"] IN
    /\ DOMAIN g = 1 .. 2 /\ Len(g) = 2
    /\ Len(g[1]) = 3 /\ DOMAIN g[1] = 1 .. 3
    /\ g[1][1] = "[" /\ g[1][2] = "@skip" /\ g[1][3] = "opt_array_suffix"
    /\ Len(g[2]) = 0 /\ DOMAIN g[2] = {}
<1>1. PICK g : g = Grammar["opt_array_suffix"]
  OBVIOUS
<1>2. g = <<<<"[", "@skip", "opt_array_suffix">>, <<>>>>
  BY <1>1, StatementGrammar
<1>3. g[1] = <<"[", "@skip", "opt_array_suffix">> /\ g[2] = <<>> /\ DOMAIN g = 1 .. 2 /\ Len(g) = 2
  BY <1>2
<1>4. /\ Len(g[1]) = 3 /\ DOMAIN g[1] = 1 .. 3
      /\ g[1][1] = "[" /\ g[1][2] = "@skip" /\ g[1][3] = "opt_array_suffix"
  BY <1>3
<1> QED
  BY <1>1, <1>3, <1>4

LEMMA DefinitionSymbols ==
    LET g == Grammar["definition_statement"] IN
    /\ DOMAIN g = 1 .. 5 /\ Len(g) = 5
    /\ \A a \in 1 .. 4 :
         /\ Len(g[a]) = 4 /\ DOMAIN g[a] = 1 .. 4
         /\ g[a][2] = "opt_array_suffix" /\ g[a][3] = "identifier" /\ g[a][4] = "emit_nodes"
    /\ g[1][1] = "int" /\ g[2][1] = "enum" /\ g[3][1] = "string" /\ g[4][1] = "struct"
    /\ g[5] = <<"template_statement">>
<1>1. PICK g : g = Grammar["definition_statement"]
  OBVIOUS
<1>2. /\ DOMAIN g = 1 .. 5 /\ Len(g) = 5
      /\ g[1] = <<"int", "opt_array_suffix", "identifier", "emit_nodes">>
      /\ g[2] = <<"enum", "opt_array_suffix", "identifier", "emit_nodes">>
      /\ g[3] = <<"string", "opt_array_suffix", "identifier", "emit_nodes">>
      /\ g[4] = <<"struct", "opt_array_suffix", "identifier", "emit_nodes">>
      /\ g[5] = <<"template_statement">>
  BY <1>1, StatementGrammar
<1>3. g[1][1] = "int" /\ g[2][1] = "enum" /\ g[3][1] = "string" /\ g[4][1] = "struct"
  BY <1>2
<1>4. ASSUME NEW a \in 1 .. 4
      PROVE  /\ Len(g[a]) = 4 /\ DOMAIN g[a] = 1 .. 4
             /\ g[a][2] = "opt_array_suffix" /\ g[a][3] = "identifier" /\ g[a][4] = "emit_nodes"
  <2>1. \E w : g[a] = <<w, "opt_array_suffix", "identifier", "emit_nodes">>
    BY <1>2
  <2>2. PICK w : g[a] = <<w, "opt_array_suffix", "identifier", "emit_nodes">>
    BY <2>1
  <2> QED
    BY <2>2
<1> QED
  BY <1>1, <1>2, <1>3, <1>4

LEMMA InstanceSymbols ==
    LET g == Grammar["template_definition_statement"] IN
    /\ DOMAIN g = 1 .. 2 /\ Len(g) = 2
    /\ Len(g[1]) = 7 /\ DOMAIN g[1] = 1 .. 7
    /\ g[1][1] = "identifier" /\ g[1][2] = "@matches" /\ g[1][3] = "opt_array_suffix"
    /\ g[1][4] = "identifier" /\ g[1][5] = "@rewind" /\ g[1][6] = "@replace"
    /\ g[1][7] = "definition_statement"
    /\ g[2] = <<"definition_statement">>
<1>1. PICK g : g = Grammar["template_definition_statement"]
  OBVIOUS
<1>2. /\ DOMAIN g = 1 .. 2 /\ Len(g) = 2
      /\ g[1] = <<"identifier", "@matches", "opt_array_suffix", "identifier",
                  "@rewind", "@replace", "definition_statement">>
      /\ g[2] = <<"definition_statement">>
  BY <1>1, StatementGrammar
<1>3. PICK t : t = g[1]
  OBVIOUS
<1>4. /\ Len(t) = 7 /\ DOMAIN t = 1 .. 7
      /\ t[1] = "identifier" /\ t[2] = "@matches" /\ t[3] = "opt_array_suffix"
      /\ t[4] = "identifier" /\ t[5] = "@rewind" /\ t[6] = "@replace"
      /\ t[7] = "definition_statement"
  BY <1>2, <1>3
<1> QED
  BY <1>1, <1>2, <1>3, <1>4

LEMMA TemplateSymbols ==
    LET g == Grammar["template_statement"]
        h == Grammar["instantiating_type"] IN
    /\ Len(g) = 1 /\ DOMAIN g = 1 .. 1 /\ Len(g[1]) = 7 /\ DOMAIN g[1] = 1 .. 7
    /\ g[1][1] = "template" /\ g[1][2] = "<" /\ g[1][3] = "instantiating_type"
    /\ Len(h) = 4 /\ DOMAIN h = 1 .. 4
    /\ \A a \in 1 .. 4 : /\ Len(h[a]) = 2 /\ DOMAIN h[a] = 1 .. 2
                         /\ h[a][1] \in TypeWords /\ h[a][2] = "@instantiate"
<1>1. PICK g, h : g = Grammar["template_statement"] /\ h = Grammar["instantiating_type"]
  OBVIOUS
<1>2. /\ Len(g) = 1 /\ DOMAIN g = 1 .. 1
      /\ g[1] = <<"template", "<", "instantiating_type", ">",
                  "opt_array_suffix", "identifier", "emit_nodes">>
  BY <1>1, StatementGrammar
<1>3. PICK t : t = g[1]
  OBVIOUS
<1>4. /\ Len(t) = 7 /\ DOMAIN t = 1 .. 7
      /\ t[1] = "template" /\ t[2] = "<" /\ t[3] = "instantiating_type"
  BY <1>2, <1>3
<1>5. /\ Len(h) = 4 /\ DOMAIN h = 1 .. 4
      /\ h[1] = <<"int", "@instantiate">> /\ h[2] = <<"enum", "@instantiate">>
      /\ h[3] = <<"string", "@instantiate">> /\ h[4] = <<"struct", "@instantiate">>
  BY <1>1, StatementGrammar
<1>6. ASSUME NEW a \in 1 .. 4
      PROVE  /\ Len(h[a]) = 2 /\ DOMAIN h[a] = 1 .. 2
             /\ h[a][1] \in TypeWords /\ h[a][2] = "@instantiate"
  <2>1. PICK w \in TypeWords : h[a] = <<w, "@instantiate">>
    BY <1>5 DEF TypeWords
  <2> QED
    BY <2>1
<1> QED
  BY <1>1, <1>2, <1>3, <1>4, <1>5, <1>6

-----------------------------------------------------------------------------
(* Where suffixes lead. *)

LEMMA BehindIsSlot ==
    ASSUME IInv, NEW i \in Slots, Closing(i) # {}
    PROVE  Behind(i) \in Slots /\ Behind(i) > i
<1>1. PICK n \in Nat \ {0} : n = Len(schema.text) /\ Slots = 1 .. n
  BY SlotsAre DEF Slots
<1>2. schema.text[n].type = "eos"
  BY <1>1, SchemasAssumption DEF IInv, Given
<1>3. PICK ends : ends = Closing(i)
  OBVIOUS
<1>4. ends \subseteq i + 1 .. n /\ \A j \in ends : schema.text[j].type = "]"
  BY <1>1, <1>3 DEF Closing
<1>5. ends \subseteq Nat /\ ends # {}
  BY <1>1, <1>3, <1>4
<1>6. PICK j : j = Min(ends)
  OBVIOUS
<1>7. j \in ends
  BY <1>5, <1>6, LeastIsThere
<1>8. j \in i + 1 .. n /\ j # n
  BY <1>2, <1>4, <1>7
<1>9. j + 1 \in 1 .. n /\ j + 1 > i
  BY <1>1, <1>8
<1> QED
  BY <1>1, <1>3, <1>6, <1>9 DEF Behind

LEMMA LeadsHere ==
    ASSUME NEW i PROVE Leads(i, i)
  BY DEF Leads

LEMMA LeadsOn ==
    ASSUME NEW i, NEW e, Leads(i, e), Opens(e), Closing(e) # {}
    PROVE  Leads(i, Behind(e))
  BY DEF Leads, Closed

(* Nothing but the first slot is not behind it. *)
LEMMA LeadsFrom ==
    ASSUME IInv, NEW i \in Slots, NEW e, Leads(i, e), Opens(i), Closing(i) # {}, e # i
    PROVE  Leads(Behind(i), e)
<1>1. SUFFICES ASSUME NEW S \in SUBSET Slots, Behind(i) \in S, Closed(S) PROVE e \in S
  BY DEF Leads
<1>2. Closed(S \cup {i}) /\ S \cup {i} \in SUBSET Slots
  BY <1>1 DEF Closed
<1>3. e \in S \cup {i}
  BY <1>2 DEF Leads
<1> QED
  BY <1>3

LEMMA LeadsNowhere ==
    ASSUME NEW i \in Slots, NEW e, Leads(i, e), ~Opens(i)
    PROVE  e = i
<1>1. Closed({i}) /\ {i} \in SUBSET Slots
  BY DEF Closed
<1> QED
  BY <1>1 DEF Leads

LEMMA LeadsForward ==
    ASSUME IInv, NEW i \in Slots, NEW e, Leads(i, e)
    PROVE  e \in Slots /\ e >= i
<1>1. Slots \subseteq Nat
  BY SlotsAre
<1>2. PICK S : S = {k \in Slots : k >= i}
  OBVIOUS
<1>3. ASSUME NEW k \in S, Opens(k), Closing(k) # {} PROVE Behind(k) \in S
  <2>1. k \in Slots /\ k >= i
    BY <1>2
  <2>2. Behind(k) \in Slots /\ Behind(k) > k
    BY <1>3, <2>1, BehindIsSlot
  <2>3. PICK b, j, c \in Nat : b = Behind(k) /\ j = k /\ c = i
    BY <1>1, <2>1, <2>2
  <2>4. b >= c
    BY <2>1, <2>2, <2>3
  <2> QED
    BY <1>2, <2>2, <2>3, <2>4
<1>4. i \in S /\ S \in SUBSET Slots /\ Closed(S)
  BY <1>1, <1>2, <1>3 DEF Closed
<1> QED
  BY <1>2, <1>4 DEF Leads

(* There is one slot that suffixes lead to and that none begins at.        *)
LEMMA OneEnd ==
    ASSUME IInv, NEW i \in Slots, NEW a, NEW b, Leads(i, a), Leads(i, b), ~Opens(a), ~Opens(b)
    PROVE  a = b
<1>1. PICK S : S = {c \in Slots : Leads(c, a)}
  OBVIOUS
<1>2. ASSUME NEW c \in S, Opens(c), Closing(c) # {} PROVE Behind(c) \in S
  <2>1. c \in Slots /\ Leads(c, a) /\ c # a
    BY <1>1, <1>2
  <2>2. Behind(c) \in Slots /\ Leads(Behind(c), a)
    BY <1>2, <2>1, BehindIsSlot, LeadsFrom
  <2> QED
    BY <1>1, <2>2
<1>3. i \in S /\ S \in SUBSET Slots /\ Closed(S)
  BY <1>1, <1>2 DEF Closed
<1>4. b \in S
  BY <1>3 DEF Leads
<1> QED
  BY <1>1, <1>4, LeadsNowhere

-----------------------------------------------------------------------------
(* The stream and the schema. *)

(* The replaced slot holds a name in the schema and a type in the stream.  *)
LEMMA ReplacedSlot ==
    ASSUME IInv, StreamIsSchema, replaced # <<>>
    PROVE  /\ replaced[1].slot \in Slots
           /\ schema.text[replaced[1].slot].type = "identifier"
           /\ stream[replaced[1].slot].type \in TypeWords
<1>1. PICK s, t : s = replaced[1].slot /\ t = replaced[1].token
  OBVIOUS
<1>2. s \in 1 .. Len(schema.text) - 1 /\ t.type = "identifier"
  BY <1>1 DEF IInv, Streaming
<1>3. s \in Slots
  BY <1>2, SlotsAre
<1> QED
  BY <1>1, <1>2, <1>3 DEF StreamIsSchema

LEMMA SameToken ==
    ASSUME IInv, StreamIsSchema, NEW i \in Slots, NEW w, w \notin TypeWords
    PROVE  /\ stream[i].type = w => schema.text[i].type = w
           /\ schema.text[i].type = w /\ w # "identifier" => stream[i].type = w
<1>1. CASE replaced = <<>>
  BY <1>1 DEF StreamIsSchema
<1>2. CASE replaced # <<>>
  <2>1. CASE i = replaced[1].slot
    BY <1>2, <2>1, ReplacedSlot
  <2>2. CASE i # replaced[1].slot
    BY <1>2, <2>2 DEF StreamIsSchema
  <2> QED
    BY <2>1, <2>2
<1> QED
  BY <1>1, <1>2

LEMMA SameBracket ==
    ASSUME IInv, StreamIsSchema, NEW i \in Slots
    PROVE  /\ stream[i].type = "[" <=> schema.text[i].type = "["
           /\ stream[i].type = "]" <=> schema.text[i].type = "]"
  BY SameToken DEF TypeWords

(* What skip_past_enclosed_tokens looks for behind a bracket. *)
LEMMA ClosingIsThere ==
    ASSUME IInv, StreamIsSchema, index \in Slots, index > 1
    PROVE  Enclosed("[", "]", 1) = Closing(index - 1)
<1>1. PICK n \in Nat \ {0} : n = Len(schema.text) /\ Slots = 1 .. n /\ Len(stream) = n
  BY SlotsAre DEF Slots
<1>2. PICK x \in 2 .. n : x = index
  BY <1>1
<1>3. PICK y : y = x - 1
  OBVIOUS
<1>4. y + 1 = x /\ x \in Nat /\ x >= 1
  BY <1>2, <1>3
<1>5. ASSUME NEW j \in x .. n
      PROVE  Depth("[", "]", j) = DepthFrom(x, j)
  <2>1. x .. j \subseteq Slots
    BY <1>1, <1>2, <1>5
  <2>2. /\ {k \in x .. j : stream[k].type = "["} = {k \in x .. j : schema.text[k].type = "["}
        /\ {k \in x .. j : stream[k].type = "]"} = {k \in x .. j : schema.text[k].type = "]"}
    BY <2>1, SameBracket
  <2> QED
    BY <1>2, <2>2 DEF Depth, DepthFrom
<1>6. \A j \in x .. n : (\A k \in x .. j - 1 : k \in x .. n)
  BY <1>2
<1>7. \A j \in x .. n : j \in Slots
  BY <1>1, <1>2
<1>8. Enclosed("[", "]", 1) =
        {j \in x .. n : /\ stream[j].type = "]"
                        /\ 1 + Depth("[", "]", j) = 0
                        /\ \A k \in x .. j - 1 : 1 + Depth("[", "]", k) >= 0}
  BY <1>1, <1>2 DEF Enclosed
<1>9. Closing(y) =
        {j \in x .. n : /\ schema.text[j].type = "]"
                        /\ 1 + DepthFrom(x, j) = 0
                        /\ \A k \in x .. j - 1 : 1 + DepthFrom(x, k) >= 0}
  BY <1>1, <1>4 DEF Closing
<1>10. ASSUME NEW j \in x .. n
       PROVE  /\ stream[j].type = "]" <=> schema.text[j].type = "]"
              /\ 1 + Depth("[", "]", j) = 0 <=> 1 + DepthFrom(x, j) = 0
              /\ (\A k \in x .. j - 1 : 1 + Depth("[", "]", k) >= 0)
                   <=> (\A k \in x .. j - 1 : 1 + DepthFrom(x, k) >= 0)
  BY <1>5, <1>6, <1>7, <1>10, SameBracket
<1>11. Enclosed("[", "]", 1) = Closing(y)
  BY <1>8, <1>9, <1>10
<1> QED
  BY <1>2, <1>3, <1>11

-----------------------------------------------------------------------------
(* Parts of the invariant that a step leaves alone. *)

LEMMA Schematic ==
    ASSUME schema' = schema
    PROVE  /\ \A a, b : Leads(a, b)' <=> Leads(a, b)
           /\ \A a : Opens(a)' <=> Opens(a)
           /\ \A a : Named(a)' <=> Named(a)
<1>1. \A a : Opens(a)' <=> Opens(a)
  BY DEF Opens
<1>2. \A a : Closing(a)' = Closing(a)
  BY DEF Closing, DepthFrom
<1>3. \A S : Closed(S)' <=> Closed(S)
  BY <1>1, <1>2 DEF Closed, Behind
<1>4. Slots' = Slots
  BY DEF Slots
<1>5. \A a, b : Leads(a, b)' <=> Leads(a, b)
  BY <1>3, <1>4 DEF Leads
<1> QED
  BY <1>1, <1>4, <1>5 DEF Named

(* The first m frames remain, the last of them perhaps further on. *)
SameFrames(m) ==
    /\ calls' \in Seq(Frames) /\ Len(calls') = m
    /\ \A i \in 1 .. m - 1 : calls'[i] = calls[i]
    /\ calls'[m].rule = calls[m].rule /\ calls'[m].mark = calls[m].mark

LEMMA NewTop ==
    ASSUME NEW m \in Nat \ {0}, calls' \in Seq(Frames), Len(calls') = m
    PROVE  calls' # <<>> /\ top' = calls'[m] /\ DOMAIN calls' = 1 .. m
<1>1. calls' # <<>>
  OBVIOUS
<1>2. Last(calls') = calls'[m]
  BY <1>1, TopAndRest
<1> QED
  BY <1>1, <1>2 DEF top

LEMMA InPlace ==
    ASSUME IInv, calls # <<>>, NEW g \in Frames, g.rule = top.rule, g.mark = top.mark,
           calls' = Replaced(g)
    PROVE  SameFrames(Len(calls)) /\ top' = g /\ calls'[Len(calls)] = g
<1>1. PICK n \in Nat \ {0} : n = Len(calls)
  BY Topmost
<1>2. calls \in Seq(Frames) /\ top = calls[n]
  BY <1>1, Topmost
<1>3. /\ calls' \in Seq(Frames) /\ Len(calls') = n /\ calls'[n] = g
      /\ \A i \in 1 .. n - 1 : calls'[i] = calls[i]
  BY <1>1, <1>2, Changed DEF Replaced
<1> QED
  BY <1>1, <1>2, <1>3, NewTop DEF SameFrames

LEMMA SameStack ==
    ASSUME IInv, calls # <<>>, calls' = calls
    PROVE  SameFrames(Len(calls)) /\ top' = top
  BY Topmost DEF SameFrames, top

LEMMA FramesKept ==
    ASSUME RInv, status' = "running" => status = "running", schema' = schema,
           NEW m \in 1 .. Len(calls), SameFrames(m),
           Instancing(calls'[m]) /\ calls'[m].pos \in 5 .. 7 =>
             \/ Instancing(calls[m]) /\ calls[m].pos \in 5 .. 7
             \/ Named(calls[m].mark)
    PROVE  Waiting' /\ Measured'
<1>1. calls \in Seq(Frames) /\ Len(calls) \in Nat /\ m \in Nat \ {0}
  BY DEF RInv, IInv, Stacked
<1>2. /\ DOMAIN calls' = 1 .. m /\ Len(calls') = m /\ 1 .. m \subseteq DOMAIN calls
      /\ \A i \in 1 .. m - 1 : calls'[i] = calls[i]
      /\ calls'[m].rule = calls[m].rule /\ calls'[m].mark = calls[m].mark
  BY <1>1 DEF SameFrames
<1>3. CASE status' # "running"
  BY <1>3 DEF Waiting, Measured
<1>4. CASE status' = "running"
  <2>1. Waiting /\ Measured /\ status = "running"
    BY <1>4 DEF RInv, Replacement
  <2>2. ASSUME NEW i \in 1 .. m - 1, Declaring(calls'[i]) \/ Instancing(calls'[i]),
               calls'[i + 1].rule = "opt_array_suffix"
        PROVE  calls'[i + 1].mark = calls'[i].mark + 1
    <3>1. calls'[i] = calls[i] /\ i \in 1 .. Len(calls) - 1
      BY <1>1, <1>2
    <3>2. calls'[i + 1].rule = calls[i + 1].rule /\ calls'[i + 1].mark = calls[i + 1].mark
      <4>1. i + 1 \in 1 .. m - 1 \/ i + 1 = m
        BY <1>1
      <4> QED
        BY <4>1, <1>2
    <3> QED
      BY <2>1, <2>2, <3>1, <3>2 DEF Waiting
  <2>3. Waiting'
    BY <1>2, <2>2 DEF Waiting, Declaring, Instancing
  <2>4. ASSUME NEW i \in 1 .. m, Instancing(calls'[i]), calls'[i].pos \in 5 .. 7
        PROVE  Named(calls'[i].mark)
    <3>1. CASE i = m
      BY <1>1, <1>2, <2>1, <2>4, <3>1 DEF Measured
    <3>2. CASE i # m
      <4>1. calls'[i] = calls[i] /\ i \in DOMAIN calls
        BY <1>1, <1>2, <3>2
      <4> QED
        BY <2>1, <2>4, <4>1 DEF Measured
    <3> QED
      BY <3>1, <3>2
  <2>5. Measured'
    <3>1. ASSUME NEW i \in 1 .. m, Named(calls'[i].mark)
          PROVE  Named(calls[i].mark)'
      <4>1. PICK a : a = calls'[i].mark
        OBVIOUS
      <4>2. Named(a)'
        BY <3>1, <4>1, Schematic
      <4> QED
        BY <4>1, <4>2
    <3> QED
      BY <1>2, <2>4, <3>1 DEF Measured, Instancing
  <2> QED
    BY <2>3, <2>5
<1> QED
  BY <1>3, <1>4

LEMMA FramesPushed ==
    ASSUME RInv, Running, NEW r, calls' = Append(calls, Frame(r)), schema' = schema,
           index \in Slots, r \in Rules,
           r = "opt_array_suffix" /\ (Declaring(top) \/ Instancing(top)) => index = top.mark + 1
    PROVE  Waiting' /\ Measured'
<1>1. IInv /\ Waiting /\ Measured /\ status = "running"
  BY DEF RInv, Replacement, Running
<1>2. calls # <<>>
  BY <1>1, RunningStack
<1>3. PICK n \in Nat \ {0} : n = Len(calls)
  BY <1>1, <1>2, Topmost
<1>4. calls \in Seq(Frames) /\ top = calls[n] /\ DOMAIN calls = 1 .. n
  BY <1>1, <1>2, <1>3, Topmost
<1>5. PICK f : f = Frame(r)
  OBVIOUS
<1>6. f.rule = r /\ f.pos = 1 /\ f.mark = index
  BY <1>5 DEF Frame
<1>7. /\ Len(calls') = n + 1 /\ DOMAIN calls' = 1 .. n + 1 /\ calls'[n + 1] = f
      /\ \A i \in 1 .. n : calls'[i] = calls[i]
  BY <1>3, <1>4, <1>5
<1>8. Waiting'
  <2>1. ASSUME NEW i \in 1 .. n, Declaring(calls'[i]) \/ Instancing(calls'[i]),
               calls'[i + 1].rule = "opt_array_suffix"
        PROVE  calls'[i + 1].mark = calls'[i].mark + 1
    <3>1. CASE i = n
      BY <1>4, <1>6, <1>7, <2>1, <3>1
    <3>2. CASE i # n
      <4>1. i \in 1 .. n - 1 /\ i + 1 \in 1 .. n
        BY <3>2
      <4>2. calls'[i] = calls[i] /\ calls'[i + 1] = calls[i + 1] /\ i \in 1 .. Len(calls) - 1
        BY <1>3, <1>7, <4>1
      <4> QED
        BY <1>1, <2>1, <4>2 DEF Waiting
    <3> QED
      BY <3>1, <3>2
  <2>2. 1 .. Len(calls') - 1 = 1 .. n
    BY <1>7
  <2> QED
    BY <2>1, <2>2 DEF Waiting, Declaring, Instancing
<1>9. Measured'
  <2>1. ASSUME NEW i \in 1 .. n + 1, Instancing(calls'[i]), calls'[i].pos \in 5 .. 7
        PROVE  Named(calls[i].mark) /\ i \in 1 .. n
    <3>1. i # n + 1
      BY <1>6, <1>7, <2>1
    <3>2. i \in 1 .. n
      BY <3>1
    <3> QED
      BY <1>1, <1>4, <1>7, <2>1, <3>2 DEF Measured
  <2>2. ASSUME NEW i \in 1 .. n, Named(calls[i].mark)
        PROVE  Named(calls[i].mark)'
    <3>1. PICK a : a = calls[i].mark
      OBVIOUS
    <3>2. a = calls'[i].mark
      BY <1>7, <3>1
    <3>3. Named(a)'
      BY <2>2, <3>1, Schematic
    <3> QED
      BY <3>2, <3>3
  <2> QED
    BY <1>7, <2>1, <2>2 DEF Measured, Instancing
<1> QED
  BY <1>8, <1>9

(* The types of the templates stay. *)
TypesKept ==
    /\ Len(templates') = Len(templates) /\ DOMAIN templates' = DOMAIN templates
    /\ \A k \in DOMAIN templates : templates'[k].type = templates[k].type

LEMMA SettledKept ==
    ASSUME RInv, status' = "running" => status = "running", TypesKept, Unsettled => Unsettled'
    PROVE  Settled'
<1>1. Settled
  BY DEF RInv, Replacement
<1> QED
  BY <1>1 DEF Settled, TypesKept

LEMMA SchemaKept ==
    ASSUME RInv, UNCHANGED <<schema, stream, replaced>>
    PROVE  StreamIsSchema'
<1>1. StreamIsSchema
  BY DEF RInv, Replacement
<1> QED
  BY <1>1 DEF StreamIsSchema, Slots

LEMMA NotSkipping ==
    ASSUME NEW m \in Nat \ {0}, calls' \in Seq(Frames), Len(calls') = m,
           calls'[m].rule # "opt_array_suffix"
    PROVE  Skipping'
<1>1. top' = calls'[m] /\ DOMAIN calls' = 1 .. m
  BY NewTop
<1>2. ASSUME NEW i \in 1 .. m PROVE ~OnlySuffixes(i)'
  <2>1. m \in i .. Len(calls')
    OBVIOUS
  <2> QED
    BY <2>1 DEF OnlySuffixes
<1> QED
  BY <1>1, <1>2 DEF Skipping

LEMMA NotHere ==
    ASSUME ~Declaring(top)', ~Instancing(top)'
    PROVE  Here'
  BY DEF Here

(* With a replacement in force, the production at the top is one of four.  *)
LEMMA ReplacedAt ==
    ASSUME RInv, status = "running", replaced # <<>>
    PROVE  \E d \in DOMAIN calls :
             /\ Instantiating(d)
             /\ \/ d = Len(calls) /\ Instancing(top) /\ top.pos = 7 /\ returned = "none"
                \/ /\ d + 1 = Len(calls) /\ Passing(top, replaced[1].slot) /\ top.pos <= 4
                   /\ returned = "fail" => top.pos = 1 /\ Misses(replaced[1].slot, top.alt)
                \/ d + 1 < Len(calls) /\ top.rule = "opt_array_suffix"
                \/ d + 1 < Len(calls) /\ top.rule = "emit_nodes" /\ top.pos < 3
<1>1. IInv /\ Replacing
  BY DEF RInv, Replacement
<1>2. calls # <<>>
  BY <1>1, RunningStack
<1>3. PICK n \in Nat \ {0} : n = Len(calls)
  BY <1>1, <1>2, Topmost
<1>4. calls \in Seq(Frames) /\ top = calls[n] /\ DOMAIN calls = 1 .. n
  BY <1>1, <1>2, <1>3, Topmost
<1>5. PICK d \in 1 .. n : Instantiating(d)
  BY <1>1, <1>4 DEF Replacing
<1>6. CASE d = n
  BY <1>3, <1>4, <1>5, <1>6 DEF Instantiating
<1>7. CASE d + 1 = n
  BY <1>3, <1>4, <1>5, <1>7 DEF Instantiating
<1>8. CASE d + 1 < n
  <2>1. n \in (d + 1) + 1 .. Len(calls)
    BY <1>3, <1>8
  <2>2. Undeclared(d + 1)
    BY <1>5 DEF Instantiating
  <2>3. \/ calls[n].rule = "opt_array_suffix"
        \/ calls[n].rule = "emit_nodes" /\ calls[n].pos < 3
    BY <2>1, <2>2 DEF Undeclared
  <2> QED
    BY <1>3, <1>4, <1>5, <1>8, <2>3
<1> QED
  BY <1>6, <1>7, <1>8

Concerned == {"opt_array_suffix", "definition_statement", "template_definition_statement",
              "template_statement", "instantiating_type", "emit_nodes"}

LEMMA NotReplaced ==
    ASSUME RInv, status = "running",
           \/ top.rule \notin {"opt_array_suffix", "definition_statement",
                               "template_definition_statement", "emit_nodes"}
           \/ top.rule = "emit_nodes" /\ top.pos = 3
    PROVE  replaced = <<>>
<1>1. SUFFICES ASSUME replaced # <<>> PROVE FALSE
  OBVIOUS
<1> QED
  BY <1>1, ReplacedAt DEF Instancing, Passing, Declaring

(* A step of another production, which stays at the top. *)
LEMMA Aside ==
    ASSUME RInv, status = "running", SameFrames(Len(calls)),
           top.rule \notin Concerned \/ (top.rule = "emit_nodes" /\ top.pos = 3),
           status' \in {"running", "throwing"}, TypesKept, UNCHANGED <<schema, stream, replaced>>
    PROVE  Replacement'
<1>1. IInv
  BY DEF RInv
<1>2. calls # <<>>
  BY <1>1, RunningStack
<1>3. PICK n \in Nat \ {0} : n = Len(calls)
  BY <1>1, <1>2, Topmost
<1>4. top = calls[n]
  BY <1>1, <1>2, <1>3, Topmost
<1>5. calls' \in Seq(Frames) /\ Len(calls') = n /\ calls'[n].rule = top.rule
  BY <1>3, <1>4 DEF SameFrames
<1>6. top' = calls'[n]
  BY <1>5, NewTop
<1>7. StreamIsSchema'
  BY SchemaKept
<1>8. Settled'
  <2>1. ~Unsettled
    BY DEF Unsettled, Concerned
  <2> QED
    BY <2>1, SettledKept
<1>9. Skipping'
  BY <1>5, NotSkipping DEF Concerned
<1>10. Here'
  BY <1>5, <1>6, NotHere DEF Concerned, Declaring, Instancing
<1>11. Waiting' /\ Measured'
  <2>1. ~Instancing(calls'[n])
    BY <1>5 DEF Concerned, Instancing
  <2>2. n \in 1 .. Len(calls) /\ SameFrames(n)
    BY <1>3
  <2> QED
    BY <2>1, <2>2, FramesKept
<1>12. Replacing' /\ Ended'
  <2>1. replaced' = <<>>
    BY NotReplaced DEF Concerned
  <2> QED
    BY <2>1 DEF Replacing, Ended
<1> QED
  BY <1>7, <1>8, <1>9, <1>10, <1>11, <1>12 DEF Replacement


-----------------------------------------------------------------------------
(* The actions of the other productions. *)

Asides == {"@expression", "@if_expression", "@true", "@choose", "@assert", "@continuation",
           "@loop", "@update", "@repeat", "@add", "@set", "@typename"}

LEMMA AsidesApart ==
    ASSUME NEW r \in Rules, NEW a \in DOMAIN Grammar[r], NEW p \in DOMAIN Grammar[r][a],
           Grammar[r][a][p] \in Asides
    PROVE  r \notin Concerned
<1>1. PICK s \in Asides : s = Grammar[r][a][p]
  OBVIOUS
<1>2. PICK g : g = Grammar[r]
  OBVIOUS
<1>3. s = g[a][p] /\ a \in DOMAIN g /\ p \in DOMAIN g[a]
  BY <1>1, <1>2
<1>4. r # "opt_array_suffix"
  <2>1. SUFFICES ASSUME r = "opt_array_suffix" PROVE FALSE
    OBVIOUS
  <2>2. /\ DOMAIN g = 1 .. 2 /\ DOMAIN g[1] = 1 .. 3 /\ DOMAIN g[2] = {}
        /\ g[1][1] = "[" /\ g[1][2] = "@skip" /\ g[1][3] = "opt_array_suffix"
    BY <1>2, <2>1, SuffixSymbols
  <2> QED
    BY <1>3, <2>2 DEF Asides
<1>5. r # "definition_statement"
  <2>1. SUFFICES ASSUME r = "definition_statement" PROVE FALSE
    OBVIOUS
  <2>2. /\ DOMAIN g = 1 .. 5
        /\ \A b \in 1 .. 4 : DOMAIN g[b] = 1 .. 4 /\ g[b][2] = "opt_array_suffix"
                             /\ g[b][3] = "identifier" /\ g[b][4] = "emit_nodes"
        /\ g[1][1] = "int" /\ g[2][1] = "enum" /\ g[3][1] = "string" /\ g[4][1] = "struct"
        /\ g[5] = <<"template_statement">>
    BY <1>2, <2>1, DefinitionSymbols
  <2>3. CASE a = 5
    BY <1>3, <2>2, <2>3 DEF Asides
  <2>4. CASE a \in 1 .. 4
    <3>1. p \in 1 .. 4
      BY <1>3, <2>2, <2>4
    <3>2. p # 1
      BY <1>3, <2>2, <2>4 DEF Asides
    <3> QED
      BY <1>3, <2>2, <2>4, <3>1, <3>2 DEF Asides
  <2> QED
    BY <1>3, <2>2, <2>3, <2>4
<1>6. r # "template_definition_statement"
  <2>1. SUFFICES ASSUME r = "template_definition_statement" PROVE FALSE
    OBVIOUS
  <2>2. /\ DOMAIN g = 1 .. 2 /\ DOMAIN g[1] = 1 .. 7
        /\ g[1][1] = "identifier" /\ g[1][2] = "@matches" /\ g[1][3] = "opt_array_suffix"
        /\ g[1][4] = "identifier" /\ g[1][5] = "@rewind" /\ g[1][6] = "@replace"
        /\ g[1][7] = "definition_statement"
        /\ g[2] = <<"definition_statement">>
    BY <1>2, <2>1, InstanceSymbols
  <2>3. CASE a = 1
    <3>1. p \in 1 .. 7
      BY <1>3, <2>2, <2>3
    <3> QED
      BY <1>3, <2>2, <2>3, <3>1 DEF Asides
  <2>4. CASE a = 2
    BY <1>3, <2>2, <2>4 DEF Asides
  <2> QED
    BY <1>3, <2>2, <2>3, <2>4
<1>7. r # "template_statement"
  <2>1. SUFFICES ASSUME r = "template_statement" PROVE FALSE
    OBVIOUS
  <2>2. g = <<<<"template", "<", "instantiating_type", ">",
               "opt_array_suffix", "identifier", "emit_nodes">>>>
    BY <1>2, <2>1, StatementGrammar
  <2>3. PICK t : t = <<"template", "<", "instantiating_type", ">",
                       "opt_array_suffix", "identifier", "emit_nodes">>
    OBVIOUS
  <2>4. /\ DOMAIN t = 1 .. 7 /\ t[1] = "template" /\ t[2] = "<" /\ t[3] = "instantiating_type"
        /\ t[4] = ">" /\ t[5] = "opt_array_suffix" /\ t[6] = "identifier" /\ t[7] = "emit_nodes"
    BY <2>3
  <2>5. a = 1 /\ g[a] = t
    BY <1>3, <2>2, <2>3
  <2> QED
    BY <1>3, <2>4, <2>5 DEF Asides
<1>8. r # "instantiating_type"
  <2>1. SUFFICES ASSUME r = "instantiating_type" PROVE FALSE
    OBVIOUS
  <2>2. /\ DOMAIN g = 1 .. 4
        /\ \A b \in 1 .. 4 : DOMAIN g[b] = 1 .. 2 /\ g[b][1] \in TypeWords /\ g[b][2] = "@instantiate"
    BY <1>2, <2>1, TemplateSymbols
  <2>3. p \in 1 .. 2 /\ a \in 1 .. 4
    BY <1>3, <2>2
  <2> QED
    BY <1>3, <2>2, <2>3 DEF Asides, TypeWords
<1>9. r # "emit_nodes"
  <2>1. SUFFICES ASSUME r = "emit_nodes" PROVE FALSE
    OBVIOUS
  <2>2. PICK t : t = Grammar[r][a]
    OBVIOUS
  <2>3. Placed(r, a, p, t) /\ t[p] = s
    BY <1>1, <2>2, Alternatives
  <2>4. s \in {"@declare", "@dimension", "@members"}
    BY <2>1, <2>3 DEF Placed
  <2> QED
    BY <2>4 DEF Asides
<1> QED
  BY <1>4, <1>5, <1>6, <1>7, <1>8, <1>9 DEF Concerned

(* The frame at the top stays, or goes on in its alternative or another. *)
StaysAtTop ==
    \/ calls' = calls
    \/ \E g : calls' = Replaced(g) /\ g.rule = top.rule /\ g.mark = top.mark

LEMMA Staying ==
    ASSUME IInv, calls # <<>>, IInv', schema' = schema, StaysAtTop
    PROVE  SameFrames(Len(calls))
<1>1. CASE calls' = calls
  BY <1>1, SameStack
<1>2. ASSUME NEW g, calls' = Replaced(g), g.rule = top.rule, g.mark = top.mark
      PROVE  SameFrames(Len(calls))
  <2>1. PICK n \in Nat \ {0} : n = Len(calls)
    BY Topmost
  <2>2. calls \in Seq(Frames) /\ top = calls[n] /\ DOMAIN calls = 1 .. n
    BY <2>1, Topmost
  <2>3. calls' = [calls EXCEPT ![n] = g]
    BY <1>2, <2>1 DEF Replaced
  <2>4. Frames' = Frames /\ calls' \in Seq(Frames')
    <3>1. Stacked' /\ IInv'
      BY DEF IInv
    <3> QED
      BY <3>1 DEF Stacked, Frames, Slots
  <2> QED
    BY <1>2, <2>1, <2>2, <2>3, <2>4 DEF SameFrames
<1> QED
  BY <1>1, <1>2 DEF StaysAtTop

LEMMA StaysWith ==
    ASSUME IInv, calls # <<>>,
           \/ Advance \/ Fails \/ Throws \/ \E p : Goto(p)
           \/ \E x, y : calls' = Replaced([top EXCEPT !.alt = x, !.pos = y])
           \/ \E x, y : calls' = Replaced([top EXCEPT !.todo = x, !.pos = y])
           \/ calls' = Replaced([top EXCEPT !.continuation = index, !.pos = @ + 1])
           \/ calls' = Replaced([top EXCEPT !.update = index, !.pos = @ + 1])
    PROVE  StaysAtTop
<1>1. top \in Frames
  BY Topmost
<1>2. PICK f \in Frames : f = top
  BY <1>1
<1>3. Moved(f).rule = f.rule /\ Moved(f).mark = f.mark
  BY <1>2 DEF Moved, Frames
<1>4. CASE Advance \/ Fails \/ Throws
  BY <1>2, <1>3, <1>4 DEF StaysAtTop, Advance, Fails, Throws
<1>5. ASSUME NEW g, calls' = Replaced(g), g.rule = top.rule, g.mark = top.mark PROVE StaysAtTop
  BY <1>5 DEF StaysAtTop
<1>6. ASSUME NEW p, Goto(p) PROVE StaysAtTop
  <2>1. PICK g : g = [top EXCEPT !.pos = p]
    OBVIOUS
  <2>2. g.rule = top.rule /\ g.mark = top.mark
    BY <1>1, <2>1 DEF Frames
  <2>3. calls' = Replaced(g)
    BY <1>6, <2>1 DEF Goto
  <2> QED
    BY <1>5, <2>2, <2>3
<1>7. ASSUME NEW x, NEW y, calls' = Replaced([top EXCEPT !.alt = x, !.pos = y])
      PROVE  StaysAtTop
  <2>1. PICK g : g = [top EXCEPT !.alt = x, !.pos = y]
    OBVIOUS
  <2>2. g.rule = top.rule /\ g.mark = top.mark
    BY <1>1, <2>1 DEF Frames
  <2> QED
    BY <1>5, <1>7, <2>1, <2>2
<1>8. ASSUME NEW x, NEW y, calls' = Replaced([top EXCEPT !.todo = x, !.pos = y])
      PROVE  StaysAtTop
  <2>1. PICK g : g = [top EXCEPT !.todo = x, !.pos = y]
    OBVIOUS
  <2>2. g.rule = top.rule /\ g.mark = top.mark
    BY <1>1, <2>1 DEF Frames
  <2> QED
    BY <1>5, <1>8, <2>1, <2>2
<1>9. CASE calls' = Replaced([top EXCEPT !.continuation = index, !.pos = @ + 1])
  <2>1. PICK g : g = [top EXCEPT !.continuation = index, !.pos = @ + 1]
    OBVIOUS
  <2>2. g.rule = top.rule /\ g.mark = top.mark
    BY <1>1, <2>1 DEF Frames
  <2> QED
    BY <1>5, <1>9, <2>1, <2>2
<1>10. CASE calls' = Replaced([top EXCEPT !.update = index, !.pos = @ + 1])
  <2>1. PICK g : g = [top EXCEPT !.update = index, !.pos = @ + 1]
    OBVIOUS
  <2>2. g.rule = top.rule /\ g.mark = top.mark
    BY <1>1, <2>1 DEF Frames
  <2> QED
    BY <1>5, <1>10, <2>1, <2>2
<1> QED
  BY <1>4, <1>6, <1>7, <1>8, <1>9, <1>10

LEMMA TypesStay ==
    ASSUME UNCHANGED templates
    PROVE  TypesKept
  BY DEF TypesKept

LEMMA AsideStep ==
    ASSUME RInv, IInv', Running, top.pos \in DOMAIN alternative, symbol \in Asides, StaysAtTop,
           status' \in {"running", "throwing"}, TypesKept, UNCHANGED <<schema, stream, replaced>>
    PROVE  Replacement'
<1>1. IInv /\ status = "running"
  BY DEF RInv, Running
<1>2. calls # <<>> /\ symbol = alternative[top.pos]
  BY <1>1, AtHand
<1>3. top.rule \in Rules /\ top.alt \in DOMAIN Grammar[top.rule]
  BY <1>1, <1>2, Topmost
<1>4. top.rule \notin Concerned
  BY <1>2, <1>3, AsidesApart DEF alternative
<1>5. SameFrames(Len(calls))
  BY <1>1, <1>2, Staying
<1> QED
  BY <1>1, <1>4, <1>5, Aside

LEMMA ExpressionReplaces ==
    ASSUME RInv, IInv', UNCHANGED <<schema, save>>, Expression \/ If_expression
    PROVE  Replacement'
<1>1. /\ Running /\ top.pos \in DOMAIN alternative /\ symbol \in Asides /\ IInv
      /\ UNCHANGED templates
  BY DEF Expression, If_expression, Before, Asides, RInv, Evaluate, contexts
<1>2. calls # <<>>
  BY <1>1, AtHand
<1>3. CASE Evaluate
  <2>1. UNCHANGED <<stream, replaced>> /\ (Advance \/ Fails \/ Throws)
    BY <1>3 DEF Evaluate, next
  <2>2. status' \in {"running", "throwing"}
    BY <1>1, <2>1 DEF Advance, Fails, Throws, Running
  <2> QED
    BY <1>1, <1>2, <2>1, <2>2, StaysWith, TypesStay, AsideStep
<1>4. CASE SkipPast("(", ")", 1, Next_)
  <2>1. UNCHANGED <<stream, replaced>> /\ (Throws \/ \E p : Goto(p))
    BY <1>4 DEF SkipPast, set_index, tokens
  <2>2. status' \in {"running", "throwing"}
    BY <1>1, <2>1 DEF Goto, Throws, Running
  <2> QED
    BY <1>1, <1>2, <2>1, <2>2, StaysWith, TypesStay, AsideStep
<1> QED
  BY <1>3, <1>4 DEF Expression, If_expression

LEMMA BranchReplaces ==
    ASSUME RInv, IInv', UNCHANGED <<schema, save>>, Else_condition \/ Choose \/ Assertion
    PROVE  Replacement'
<1>1. /\ Running /\ top.pos \in DOMAIN alternative /\ symbol \in Asides /\ IInv
      /\ UNCHANGED templates
  BY DEF Else_condition, Choose, Assertion, Before, Asides, RInv, contexts
<1>2. calls # <<>>
  BY <1>1, AtHand
<1>3. CASE Choose /\ SkipPast("{", "}", 0, End_)
  <2>1. UNCHANGED <<stream, replaced>> /\ (Throws \/ \E p : Goto(p))
    BY <1>3 DEF SkipPast, set_index, tokens
  <2>2. status' \in {"running", "throwing"}
    BY <1>1, <2>1 DEF Goto, Throws, Running
  <2> QED
    BY <1>1, <1>2, <2>1, <2>2, StaysWith, TypesStay, AsideStep
<1>4. CASE ~(Choose /\ SkipPast("{", "}", 0, End_))
  <2>1. UNCHANGED <<stream, replaced>> /\ (Advance \/ Throws)
    BY <1>4 DEF Else_condition, Choose, Assertion, tokens
  <2>2. status' \in {"running", "throwing"}
    BY <1>1, <2>1 DEF Advance, Throws, Running
  <2> QED
    BY <1>1, <1>2, <2>1, <2>2, StaysWith, TypesStay, AsideStep
<1> QED
  BY <1>3, <1>4

LEMMA LoopReplaces ==
    ASSUME RInv, IInv', UNCHANGED <<schema, save>>,
           Continuation \/ Loop \/ Update \/ Repeat \/ Add \/ Set
    PROVE  Replacement'
<1>1. /\ Running /\ top.pos \in DOMAIN alternative /\ symbol \in Asides /\ IInv
      /\ UNCHANGED templates
  BY DEF Continuation, Loop, Update, Repeat, Add, Set, Before, Asides, RInv, contexts
<1>2. calls # <<>>
  BY <1>1, AtHand
<1>3. CASE Continuation
  <2>1. UNCHANGED <<stream, replaced>> /\ calls' = Replaced([top EXCEPT !.continuation = index, !.pos = @ + 1])
        /\ status' = status
    BY <1>3 DEF Continuation, tokens
  <2>2. StaysAtTop
    BY <1>1, <1>2, <2>1, StaysWith
  <2> QED
    BY <1>1, <2>1, <2>2, TypesStay, AsideStep DEF Running
<1>4. CASE Loop
  <2>1. \/ SkipPast("{", "}", 0, End_)
        \/ Throws /\ UNCHANGED tokens
        \/ /\ \E i : set_index(i)
           /\ calls' = Replaced([top EXCEPT !.update = index, !.pos = @ + 1])
           /\ UNCHANGED <<returned, status>>
    BY <1>4 DEF Loop
  <2>2. /\ UNCHANGED <<stream, replaced>>
        /\ \/ Throws \/ \E p : Goto(p)
           \/ calls' = Replaced([top EXCEPT !.update = index, !.pos = @ + 1]) /\ UNCHANGED <<returned, status>>
    BY <2>1 DEF SkipPast, set_index, tokens
  <2>3. status' \in {"running", "throwing"}
    BY <1>1, <2>2 DEF Goto, Throws, Running
  <2>4. StaysAtTop
    BY <1>1, <1>2, <2>2, StaysWith
  <2> QED
    BY <1>1, <2>2, <2>3, <2>4, TypesStay, AsideStep
<1>5. CASE Update \/ Repeat \/ Add \/ Set
  <2>1. UNCHANGED <<stream, replaced>> /\ (Advance \/ Throws \/ \E p : Goto(p))
    BY <1>5 DEF Update, Repeat, Add, Set, tokens, set_index
  <2>2. status' \in {"running", "throwing"}
    BY <1>1, <2>1 DEF Goto, Throws, Advance, Running
  <2> QED
    BY <1>1, <1>2, <2>1, <2>2, StaysWith, TypesStay, AsideStep
<1> QED
  BY <1>3, <1>4, <1>5

LEMMA TypenameReplaces ==
    ASSUME RInv, IInv', UNCHANGED <<schema, save>>, Typename
    PROVE  Replacement'
<1>1. /\ Running /\ top.pos \in DOMAIN alternative /\ symbol \in Asides /\ IInv
      /\ Advance /\ UNCHANGED <<stream, replaced>>
      /\ templates' = [templates EXCEPT ![Len(templates)].type_name = previous]
  BY DEF Typename, Before, Asides, RInv, tokens
<1>2. calls # <<>>
  BY <1>1, AtHand
<1>3. templates \in Seq([type_name : AnyToken, type : TypeTokens])
  BY <1>1 DEF IInv, Scoped
<1>4. TypesKept
  <2>1. PICK n \in Nat : n = Len(templates) /\ DOMAIN templates = 1 .. n
    BY <1>3
  <2>2. DOMAIN templates' = 1 .. n /\ Len(templates') = n
    <3>1. templates' \in Seq([type_name : AnyToken', type : TypeTokens'])
      BY DEF IInv, Scoped
    <3>2. DOMAIN templates' = DOMAIN templates
      BY <1>1
    <3>3. Len(templates') \in Nat /\ DOMAIN templates' = 1 .. Len(templates')
      BY <3>1
    <3> QED
      BY <2>1, <3>2, <3>3
  <2>3. ASSUME NEW k \in 1 .. n PROVE templates'[k].type = templates[k].type
    <3>1. templates[k] \in [type_name : AnyToken, type : TypeTokens]
      <4>1. PICK R : R = [type_name : AnyToken, type : TypeTokens]
        OBVIOUS
      <4>2. templates \in Seq(R)
        BY <1>3, <4>1
      <4>3. templates[k] \in R
        BY <2>1, <4>2
      <4> QED
        BY <4>1, <4>3
    <3>2. templates'[k] = IF k = n THEN [templates[k] EXCEPT !.type_name = previous] ELSE templates[k]
      BY <1>1, <2>1
    <3> QED
      BY <3>1, <3>2
  <2> QED
    BY <2>1, <2>2, <2>3 DEF TypesKept
<1> QED
  BY <1>1, <1>2, <1>4, StaysWith, AsideStep DEF Advance, Running

(* Members are read from where no replacement is in force. *)
LEMMA EmitReplaces ==
    ASSUME RInv, IInv', UNCHANGED <<schema, save>>, Emitted \/ ReadLeaf
    PROVE  Replacement'
<1>1. /\ Running /\ top.pos \in DOMAIN alternative /\ symbol = "@members" /\ IInv
      /\ UNCHANGED templates /\ UNCHANGED <<stream, replaced>>
      /\ Advance \/ Throws \/ \E p : Goto(p)
  BY DEF Emitted, ReadLeaf, Before, RInv, contexts, tokens
<1>2. calls # <<>> /\ top.rule = "emit_nodes" /\ top.pos = 3
  BY <1>1, Emitting
<1>3. StaysAtTop
  BY <1>1, <1>2, StaysWith
<1>4. status' \in {"running", "throwing"} /\ status = "running"
  BY <1>1 DEF Goto, Throws, Advance, Running
<1>5. SameFrames(Len(calls))
  BY <1>1, <1>2, <1>3, Staying
<1> QED
  BY <1>1, <1>2, <1>4, <1>5, TypesStay, Aside

-----------------------------------------------------------------------------
(* What is left of a step of the productions a replacement concerns. *)

LEMMA Thrown ==
    ASSUME RInv, status' \in {"throwing", "failed"}, StreamIsSchema'
    PROVE  Replacement'
<1>1. ~Running' /\ status' # "running" /\ status' # "done"
  BY DEF Running
<1> QED
  BY <1>1 DEF Replacement, Settled, Skipping, Here, Waiting, Measured, Replacing, Ended

LEMMA UnwindReplaces ==
    ASSUME RInv, IInv', UNCHANGED <<schema, save>>, Unwind
    PROVE  Replacement'
<1>1. IInv /\ status' \in {"throwing", "failed"} /\ status = "throwing" /\ Exit(top)
  BY DEF RInv, Unwind
<1>2. UNCHANGED <<stream, replaced>>
  BY <1>1, RunningStack, Exiting
<1> QED
  BY <1>1, <1>2, SchemaKept, Thrown

LEMMA ReplacedTop ==
    ASSUME IInv, calls # <<>>, IInv', schema' = schema, NEW g, calls' = Replaced(g)
    PROVE  top' = g /\ Len(calls') = Len(calls)
<1>1. PICK n \in Nat \ {0} : n = Len(calls)
  BY Topmost
<1>2. calls \in Seq(Frames) /\ DOMAIN calls = 1 .. n
  BY <1>1, Topmost
<1>3. calls' = [calls EXCEPT ![n] = g]
  BY <1>1 DEF Replaced
<1>4. Frames' = Frames /\ calls' \in Seq(Frames')
  <2>1. Stacked' /\ IInv'
    BY DEF IInv
  <2> QED
    BY <2>1 DEF Stacked, Frames, Slots
<1>5. Len(calls') = n /\ calls'[n] = g
  BY <1>1, <1>2, <1>3, <1>4
<1> QED
  BY <1>1, <1>4, <1>5, NewTop

LEMMA Advanced ==
    ASSUME IInv, calls # <<>>, IInv', schema' = schema, top.rule # "emit_nodes", Advance
    PROVE  /\ top'.rule = top.rule /\ top'.alt = top.alt /\ top'.mark = top.mark
           /\ top'.pos = top.pos + 1
           /\ Len(calls') = Len(calls) /\ UNCHANGED <<returned, status>>
<1>1. top' = Moved(top) /\ Len(calls') = Len(calls) /\ UNCHANGED <<returned, status>>
  BY ReplacedTop DEF Advance
<1>2. PICK f \in Frames : f = top
  BY Topmost
<1>3. top' = [f EXCEPT !.pos = @ + 1]
  BY <1>1, <1>2 DEF Moved
<1> QED
  BY <1>1, <1>2, <1>3 DEF Frames

LEMMA StepWith ==
    ASSUME RInv, IInv', status = "running", StaysAtTop, schema' = schema,
           top.rule # "opt_array_suffix",
           status' = "running" \/ status' = "throwing", Settled', StreamIsSchema', Here', Replacing',
           Instancing(top') /\ top'.pos \in 5 .. 7 =>
             (Instancing(top) /\ top.pos \in 5 .. 7) \/ Named(top.mark)
    PROVE  Replacement'
<1>1. IInv
  BY DEF RInv
<1>2. calls # <<>>
  BY <1>1, RunningStack
<1>3. PICK n \in Nat \ {0} : n = Len(calls)
  BY <1>1, <1>2, Topmost
<1>4. top = calls[n] /\ SameFrames(n)
  BY <1>1, <1>2, <1>3, Topmost, Staying
<1>5. calls' \in Seq(Frames) /\ Len(calls') = n /\ calls'[n].rule = top.rule
  BY <1>4 DEF SameFrames
<1>6. top' = calls'[n]
  BY <1>5, NewTop
<1>7. Skipping'
  BY <1>5, NotSkipping
<1>8. Waiting' /\ Measured'
  <2>1. n \in 1 .. Len(calls)
    BY <1>3
  <2>2. Instancing(calls'[n]) /\ calls'[n].pos \in 5 .. 7 =>
             (Instancing(calls[n]) /\ calls[n].pos \in 5 .. 7) \/ Named(calls[n].mark)
    BY <1>4, <1>6 DEF Instancing
  <2> QED
    BY <2>1, <2>2, <1>4, FramesKept
<1> QED
  BY <1>7, <1>8 DEF Replacement, Ended

LEMMA StepAtTop ==
    ASSUME RInv, IInv', status = "running", StaysAtTop, schema' = schema,
           top.rule # "opt_array_suffix",
           status' = "running" \/ status' = "throwing", TypesKept, Unsettled => Unsettled',
           StreamIsSchema', Here', Replacing',
           Instancing(top') /\ top'.pos \in 5 .. 7 =>
             (Instancing(top) /\ top.pos \in 5 .. 7) \/ Named(top.mark)
    PROVE  Replacement'
<1>1. Settled'
  BY SettledKept
<1> QED
  BY <1>1, StepWith

(* The top of a step without a replacement. *)
LEMMA NoneReplaced ==
    ASSUME replaced' = <<>>
    PROVE  Replacing'
  BY DEF Replacing

LEMMA InstanceStack ==
    ASSUME RInv, Running, Instancing(top), top.pos # 7
    PROVE  replaced = <<>> /\ ~Unsettled /\ ~Declaring(top) /\ top.rule \notin {"opt_array_suffix", "emit_nodes"}
<1>1. replaced = <<>>
  <2>1. SUFFICES ASSUME replaced # <<>> PROVE FALSE
    OBVIOUS
  <2> QED
    BY <2>1, ReplacedAt DEF Instancing, Passing, Declaring, Running
<1> QED
  BY <1>1 DEF Instancing, Unsettled, Declaring

LEMMA MatchesReplaces ==
    ASSUME RInv, IInv', UNCHANGED <<schema, save>>, Matches
    PROVE  Replacement'
<1>1. /\ Running /\ top.pos \in DOMAIN alternative /\ symbol = "@matches" /\ IInv
      /\ UNCHANGED <<templates, index, stream, replaced>> /\ (Throws \/ Advance)
  BY DEF Matches, Before, RInv, contexts, tokens
<1>2. /\ calls # <<>> /\ Placed(top.rule, top.alt, top.pos, alternative)
      /\ symbol = alternative[top.pos]
  BY <1>1, AtHand
<1>3. Instancing(top) /\ top.pos = 2
  BY <1>1, <1>2 DEF Placed, Instancing
<1>4. StreamIsSchema'
  BY <1>1, SchemaKept
<1>5. CASE Throws
  BY <1>4, <1>5, Thrown DEF Throws
<1>6. CASE Advance
  <2>1. replaced = <<>> /\ ~Unsettled /\ top.rule \notin {"opt_array_suffix", "emit_nodes"}
    BY <1>1, <1>3, InstanceStack
  <2>2. /\ top'.rule = top.rule /\ top'.alt = top.alt /\ top'.mark = top.mark /\ top'.pos = 3
        /\ status' = status /\ status = "running"
    BY <1>1, <1>2, <1>3, <1>6, <2>1, Advanced DEF Running
  <2>3. Here'
    <3>1. index = top.mark + 1
      BY <1>1, <1>3 DEF RInv, Replacement, Here
    <3>2. index' = top'.mark + 1 /\ ~Declaring(top')
      BY <1>1, <1>3, <2>2, <3>1 DEF Declaring, Instancing
    <3>3. \A f : Declaring(f)' <=> Declaring(f)
      BY DEF Declaring
    <3> QED
      BY <2>2, <3>2 DEF Here, Declaring
  <2>4. Replacing'
    BY <1>1, <2>1, NoneReplaced
  <2>5. StaysAtTop /\ TypesKept
    BY <1>1, <1>2, <1>6, StaysWith, TypesStay
  <2> QED
    BY <1>4, <2>1, <2>2, <2>3, <2>4, <2>5, StepAtTop
<1> QED
  BY <1>1, <1>5, <1>6

LEMMA RewindReplaces ==
    ASSUME RInv, IInv', UNCHANGED <<schema, save>>, Rewind
    PROVE  Replacement'
<1>1. /\ Running /\ top.pos \in DOMAIN alternative /\ symbol = "@rewind" /\ IInv
      /\ UNCHANGED <<templates, stream, replaced>> /\ Advance /\ index' = top.mark
  BY DEF Rewind, Before, RInv, contexts, tokens, set_index, T!set_index
<1>2. /\ calls # <<>> /\ Placed(top.rule, top.alt, top.pos, alternative)
      /\ symbol = alternative[top.pos]
  BY <1>1, AtHand
<1>3. Instancing(top) /\ top.pos = 5
  BY <1>1, <1>2 DEF Placed, Instancing
<1>4. StreamIsSchema'
  BY <1>1, SchemaKept
<1>5. replaced = <<>> /\ ~Unsettled /\ top.rule \notin {"opt_array_suffix", "emit_nodes"}
  BY <1>1, <1>3, InstanceStack
<1>6. /\ top'.rule = top.rule /\ top'.alt = top.alt /\ top'.mark = top.mark /\ top'.pos = 6
      /\ status' = status /\ status = "running"
  BY <1>1, <1>2, <1>3, <1>5, Advanced DEF Running
<1>7. Here'
  <2>1. index' = top'.mark /\ ~Declaring(top')
    BY <1>1, <1>3, <1>6 DEF Declaring, Instancing
  <2> QED
    BY <1>6, <2>1 DEF Here, Declaring
<1>8. Replacing'
  BY <1>1, <1>5, NoneReplaced
<1>9. StaysAtTop /\ TypesKept
  BY <1>1, <1>2, StaysWith, TypesStay
<1> QED
  BY <1>3, <1>4, <1>5, <1>6, <1>7, <1>8, <1>9, StepAtTop

-----------------------------------------------------------------------------
(* The replacement, and what ends it. *)

(* The last template's context has a type where it is asked for. *)
LEMMA TypeIsSettled ==
    ASSUME IInv, Settled, status = "running", ~Unsettled, templates # <<>>
    PROVE  Last(templates).type.type \in TypeWords
<1>1. Last(templates) = templates[Len(templates)] /\ templates \in Seq([type_name : AnyToken, type : TypeTokens])
  BY LastTemplate DEF IInv, Scoped
<1>2. Len(templates) \in DOMAIN templates
  <2>1. PICK R : R = [type_name : AnyToken, type : TypeTokens]
    OBVIOUS
  <2>2. templates \in Seq(R)
    BY <1>1, <2>1
  <2> QED
    BY <2>2
<1> QED
  BY <1>1, <1>2 DEF Settled

LEMMA ReplaceReplaces ==
    ASSUME RInv, IInv', UNCHANGED <<schema, save>>, Replace
    PROVE  Replacement'
<1>1. /\ Running /\ top.pos \in DOMAIN alternative /\ symbol = "@replace" /\ IInv /\ Replacement
      /\ status = "running" /\ returned = "none"
      /\ UNCHANGED <<templates, index>>
      /\ \/ T!CanReplace /\ T!replace_type_name_token(Last(templates).type) /\ Advance
         \/ Throws /\ UNCHANGED <<stream, replaced>>
  BY DEF Replace, Before, RInv, contexts, Running
<1>2. /\ calls # <<>> /\ Placed(top.rule, top.alt, top.pos, alternative)
      /\ symbol = alternative[top.pos] /\ index \in Slots
  BY <1>1, AtHand
<1>3. Instancing(top) /\ top.pos = 6
  BY <1>1, <1>2 DEF Placed, Instancing
<1>4. CASE Throws /\ UNCHANGED <<stream, replaced>>
  BY <1>1, <1>4, SchemaKept, Thrown DEF Throws
<1>5. CASE T!CanReplace /\ T!replace_type_name_token(Last(templates).type) /\ Advance
  <2>1. replaced = <<>> /\ ~Unsettled /\ top.rule \notin {"opt_array_suffix", "emit_nodes"}
    BY <1>1, <1>3, InstanceStack
  <2>2. templates # <<>>
    BY <1>1, <1>2, <1>3, ContextIsThere DEF InTemplate, Instancing
  <2>3. PICK type : type = Last(templates).type
    OBVIOUS
  <2>4. type.type \in TypeWords
    BY <1>1, <2>1, <2>2, <2>3, TypeIsSettled DEF Replacement
  <2>5. /\ replaced' = <<[slot |-> index, token |-> stream[index]]>>
        /\ stream' = [stream EXCEPT ![index] = type]
    BY <1>5, <2>3 DEF T!replace_type_name_token
  <2>6. /\ top'.rule = top.rule /\ top'.alt = top.alt /\ top'.mark = top.mark /\ top'.pos = 7
        /\ Len(calls') = Len(calls) /\ UNCHANGED <<returned, status>>
    BY <1>1, <1>2, <1>3, <1>5, <2>1, Advanced
  <2>7. index = top.mark
    BY <1>1, <1>3 DEF Replacement, Here
  <2>8. StreamIsSchema'
    <3>1. stream = schema.text /\ DOMAIN stream = Slots
      BY <1>1, <2>1, SlotsAre DEF Replacement, StreamIsSchema
    <3>2. PICK t : t = stream[index]
      OBVIOUS
    <3>3. replaced' # <<>> /\ replaced'[1].slot = index /\ replaced'[1].token = t
      BY <2>5, <3>2
    <3>4. stream'[index] = type /\ \A i \in Slots : i # index => stream'[i] = stream[i]
      BY <1>2, <2>5, <3>1
    <3>5. Slots' = Slots
      BY DEF Slots
    <3> QED
      BY <2>4, <3>1, <3>2, <3>3, <3>4, <3>5 DEF StreamIsSchema
  <2>9. Here'
    <3>1. index' = top'.mark /\ ~Declaring(top')
      BY <1>1, <1>3, <2>6, <2>7 DEF Declaring, Instancing
    <3> QED
      BY <2>6, <3>1 DEF Here, Declaring
  <2>10. Replacing'
    <3>1. PICK n \in Nat \ {0} : n = Len(calls)
      BY <1>1, <1>2, Topmost
    <3>2. calls' \in Seq(Frames) /\ Len(calls') = n
      <4>1. StaysAtTop
        BY <1>1, <1>2, <1>5, StaysWith
      <4>2. SameFrames(n)
        BY <1>1, <1>2, <3>1, <4>1, Staying
      <4> QED
        BY <4>2 DEF SameFrames
    <3>3. top' = calls'[n] /\ DOMAIN calls' = 1 .. n
      BY <3>1, <3>2, NewTop
    <3>4. replaced'[1].slot = index
      BY <2>5
    <3>5. Instancing(calls'[n]) /\ calls'[n].pos = 7 /\ calls'[n].mark = replaced'[1].slot
      BY <1>3, <2>6, <2>7, <3>3, <3>4 DEF Instancing
    <3>6. Undeclared(n + 1)'
      BY <3>2 DEF Undeclared
    <3>7. returned' = "none" /\ ~(n < Len(calls')) /\ n + 1 # Len(calls')
      BY <1>1, <2>6, <3>2
    <3>8. Instantiating(n)'
      BY <3>5, <3>6, <3>7 DEF Instantiating, Instancing
    <3> QED
      BY <3>3, <3>8 DEF Replacing
  <2>11. StaysAtTop /\ TypesKept
    BY <1>1, <1>2, <1>5, StaysWith, TypesStay
  <2> QED
    BY <1>1, <1>3, <2>1, <2>6, <2>8, <2>9, <2>10, <2>11, StepAtTop
<1> QED
  BY <1>1, <1>4, <1>5

LEMMA InstantiateReplaces ==
    ASSUME RInv, IInv', UNCHANGED <<schema, save>>, Instantiate
    PROVE  Replacement'
<1>1. /\ Running /\ top.pos \in DOMAIN alternative /\ symbol = "@instantiate" /\ IInv /\ Replacement
      /\ Advance /\ UNCHANGED <<stream, replaced>>
      /\ templates' = [templates EXCEPT ![Len(templates)].type = previous]
  BY DEF Instantiate, Before, RInv, tokens
<1>2. /\ calls # <<>> /\ Placed(top.rule, top.alt, top.pos, alternative)
      /\ symbol = alternative[top.pos]
      /\ top.pos > 1 /\ alternative[top.pos - 1] \in Terminals =>
           index > 1 /\ stream[index - 1].type = alternative[top.pos - 1]
  BY <1>1, AtHand
<1>3. top.rule = "instantiating_type" /\ top.pos = 2 /\ alternative[1] \in TypeWords
  BY <1>1, <1>2 DEF Placed, TypeWords
<1>4. previous.type \in TypeWords
  <2>1. top.pos - 1 = 1 /\ top.pos > 1
    BY <1>3
  <2>2. TypeWords \subseteq Terminals
    BY DEF Terminals, TypeWords
  <2> QED
    BY <1>2, <1>3, <2>1, <2>2 DEF previous
<1>5. status' = "running" /\ status = "running" /\ returned' = returned
  BY <1>1 DEF Running, Advance
<1>6. /\ top'.rule = top.rule /\ top'.alt = top.alt /\ top'.mark = top.mark /\ top'.pos = 3
  BY <1>1, <1>2, <1>3, Advanced
<1>7. Settled'
  <2>1. PICK R, p : R = [type_name : AnyToken, type : TypeTokens] /\ p = previous
    OBVIOUS
  <2>2. templates \in Seq(R) /\ templates' = [templates EXCEPT ![Len(templates)].type = p]
    BY <1>1, <2>1 DEF IInv, Scoped
  <2>3. PICK n \in Nat : n = Len(templates) /\ DOMAIN templates = 1 .. n /\ DOMAIN templates' = 1 .. n
    BY <2>2
  <2>4. ASSUME NEW k \in 1 .. n PROVE templates'[k].type.type \in TypeWords
    <3>1. templates[k] \in R
      BY <2>2, <2>3
    <3>2. CASE k = n
      <4>1. templates'[k] = [templates[k] EXCEPT !.type = p]
        BY <2>2, <2>3, <3>2
      <4>2. templates'[k].type = p
        BY <2>1, <3>1, <4>1
      <4> QED
        BY <1>4, <2>1, <4>2
    <3>3. CASE k # n
      <4>1. templates'[k] = templates[k]
        BY <2>2, <2>3, <3>3
      <4> QED
        BY <1>1, <1>5, <2>3, <3>3, <4>1 DEF Replacement, Settled
    <3> QED
      BY <3>2, <3>3
  <2> QED
    BY <2>3, <2>4 DEF Settled
<1>8. Here'
  BY <1>3, <1>6 DEF Here, Declaring, Instancing
<1>9. Replacing'
  <2>1. replaced = <<>>
    BY <1>3, <1>5, NotReplaced
  <2> QED
    BY <1>1, <2>1, NoneReplaced
<1>10. StaysAtTop /\ StreamIsSchema'
  BY <1>1, <1>2, StaysWith, SchemaKept
<1>11. ~Instancing(top')
  BY <1>3, <1>6 DEF Instancing
<1> QED
  BY <1>3, <1>5, <1>7, <1>8, <1>9, <1>10, <1>11, StepWith

LEMMA SchemaRestored ==
    ASSUME RInv, IInv', schema' = schema, T!restore_type_name_token
    PROVE  StreamIsSchema' /\ replaced' = <<>>
<1>1. IInv /\ StreamIsSchema
  BY DEF RInv, Replacement
<1>2. replaced' = <<>>
  BY <1>1, StreamRestored
<1>3. CASE replaced = <<>>
  <2>1. stream' = stream
    BY <1>3 DEF T!restore_type_name_token
  <2> QED
    BY <1>1, <1>2, <1>3, <2>1 DEF StreamIsSchema
<1>4. CASE replaced # <<>>
  <2>1. PICK s, t : s = replaced[1].slot /\ t = replaced[1].token
    OBVIOUS
  <2>2. stream' = [stream EXCEPT ![s] = t]
    BY <1>4, <2>1 DEF T!restore_type_name_token
  <2>3. schema.text[s] = t /\ \A i \in Slots : i # s => stream[i] = schema.text[i]
    BY <1>1, <1>4, <2>1 DEF StreamIsSchema
  <2>4. PICK n \in Nat : n = Len(schema.text) /\ Slots = 1 .. n
    BY <1>1, SlotsAre
  <2>5. stream \in Seq(AnyToken) /\ Len(stream) = n /\ DOMAIN stream = 1 .. n
    BY <1>1, <2>4, SlotsAre DEF IInv, Streaming
  <2>6. schema.text \in Seq(Tokens)
    BY <1>1, SchemasAssumption DEF IInv, Given
  <2>7. PICK x : x = schema.text
    OBVIOUS
  <2>8. x = [i \in 1 .. n |-> x[i]]
    BY <2>4, <2>6, <2>7
  <2>9. stream' = [i \in 1 .. n |-> IF i = s THEN t ELSE stream[i]]
    BY <2>2, <2>5
  <2>10. \A i \in 1 .. n : (IF i = s THEN t ELSE stream[i]) = x[i]
    BY <2>3, <2>4, <2>7
  <2>11. stream' = x
    BY <2>8, <2>9, <2>10
  <2> QED
    BY <1>2, <2>7, <2>11 DEF StreamIsSchema
<1> QED
  BY <1>2, <1>3, <1>4

(* Above the second pass's definition, array suffixes and the node source  *)
(* go on. *)
LEMMA SecondPassGoesOn ==
    ASSUME RInv, IInv', status = "running", replaced # <<>>, SameFrames(Len(calls)),
           UNCHANGED <<schema, stream, replaced>>, top.rule \in {"opt_array_suffix", "emit_nodes"},
           top'.rule = "opt_array_suffix" \/ (top'.rule = "emit_nodes" /\ top'.pos < 3)
    PROVE  Replacing'
<1>1. IInv
  BY DEF RInv
<1>2. calls # <<>>
  BY <1>1, RunningStack
<1>3. PICK n \in Nat \ {0} : n = Len(calls)
  BY <1>1, <1>2, Topmost
<1>4. PICK d \in DOMAIN calls : Instantiating(d) /\ d + 1 < Len(calls)
  BY ReplacedAt DEF Instancing, Passing, Declaring
<1>5. d \in 1 .. n /\ d + 1 < n
  BY <1>1, <1>2, <1>3, <1>4, Topmost
<1>6. /\ calls' \in Seq(Frames) /\ Len(calls') = n /\ \A i \in 1 .. n - 1 : calls'[i] = calls[i]
  BY <1>3 DEF SameFrames
<1>7. top' = calls'[n] /\ DOMAIN calls' = 1 .. n
  BY <1>6, NewTop
<1>8. PICK s : s = replaced[1].slot
  OBVIOUS
<1>9. /\ Instancing(calls[d]) /\ calls[d].pos = 7 /\ calls[d].mark = s
      /\ Passing(calls[d + 1], s) /\ Undeclared(d + 1)
  BY <1>4, <1>5, <1>3, <1>8 DEF Instantiating
<1>10. calls'[d] = calls[d] /\ calls'[d + 1] = calls[d + 1]
  <2>1. d \in 1 .. n - 1 /\ d + 1 \in 1 .. n - 1
    BY <1>5
  <2> QED
    BY <1>6, <2>1
<1>11. Instancing(calls[d])' /\ calls'[d].pos = 7 /\ calls'[d].mark = s
  BY <1>9, <1>10 DEF Instancing
<1>12. PICK f : f = calls[d + 1]
  OBVIOUS
<1>13. Passing(f, s)'
  BY <1>9, <1>12 DEF Passing, Declaring, Misses
<1>14. Undeclared(d + 1)'
  <2>1. ASSUME NEW j \in (d + 1) + 1 .. n
        PROVE  \/ calls'[j].rule = "opt_array_suffix"
               \/ calls'[j].rule = "emit_nodes" /\ calls'[j].pos < 3
    <3>1. CASE j = n
      BY <1>7, <3>1
    <3>2. CASE j # n
      <4>1. j \in 1 .. n - 1 /\ j \in (d + 1) + 1 .. Len(calls)
        BY <1>3, <1>5, <3>2
      <4> QED
        BY <1>6, <1>9, <4>1 DEF Undeclared
    <3> QED
      BY <3>1, <3>2
  <2> QED
    BY <1>6, <2>1 DEF Undeclared
<1>15. replaced'[1].slot = s /\ d # Len(calls') /\ d + 1 # Len(calls')
  BY <1>5, <1>6, <1>8
<1>16. Passing(calls[d + 1], s)'
  BY <1>10, <1>12, <1>13
<1>17. Instantiating(d)'
  BY <1>11, <1>14, <1>15, <1>16 DEF Instantiating
<1> QED
  BY <1>5, <1>7, <1>17 DEF Replacing

LEMMA DeclareReplaces ==
    ASSUME RInv, IInv', UNCHANGED <<schema, save>>, Declare
    PROVE  Replacement'
<1>1. /\ Running /\ top.pos \in DOMAIN alternative /\ symbol = "@declare" /\ IInv
      /\ status = "running" /\ status' = status
      /\ UNCHANGED <<templates>>
      /\ \E x : calls' = Replaced([top EXCEPT !.todo = x, !.pos = IF IsArray THEN 2 ELSE 3])
      /\ IF IsArray THEN UNCHANGED <<stream, replaced>> ELSE T!restore_type_name_token
  BY DEF Declare, Before, RInv, contexts, Running, Keep
<1>2. calls # <<>> /\ top \in Frames /\ top.rule = "emit_nodes" /\ top.pos = 1
  BY <1>1, Emitting
<1>3. PICK y : y = (IF IsArray THEN 2 ELSE 3)
  OBVIOUS
<1>4. PICK x : calls' = Replaced([top EXCEPT !.todo = x, !.pos = y])
  BY <1>1, <1>3
<1>5. PICK g : g = [top EXCEPT !.todo = x, !.pos = y]
  OBVIOUS
<1>6. g.rule = "emit_nodes" /\ g.pos = y
  BY <1>2, <1>5 DEF Frames
<1>7. top' = g
  BY <1>1, <1>2, <1>4, <1>5, ReplacedTop
<1>8. StaysAtTop
  BY <1>1, <1>2, <1>4, StaysWith
<1>9. StreamIsSchema' /\ Replacing'
  <2>1. CASE IsArray
    <3>1. StreamIsSchema'
      BY <1>1, <2>1, SchemaKept
    <3>2. CASE replaced = <<>>
      BY <1>1, <2>1, <3>1, <3>2, NoneReplaced
    <3>3. CASE replaced # <<>>
      <4>1. SameFrames(Len(calls))
        BY <1>1, <1>2, <1>8, Staying
      <4>2. top'.rule = "emit_nodes" /\ top'.pos < 3
        BY <1>3, <1>6, <1>7, <2>1
      <4> QED
        BY <1>1, <1>2, <2>1, <3>1, <3>3, <4>1, <4>2, SecondPassGoesOn
    <3> QED
      BY <3>1, <3>2, <3>3
  <2>2. CASE ~IsArray
    BY <1>1, <2>2, SchemaRestored, NoneReplaced
  <2> QED
    BY <2>1, <2>2
<1>10. Here' /\ ~Instancing(top')
  BY <1>6, <1>7 DEF Here, Declaring, Instancing
<1>11. ~Unsettled /\ TypesKept
  BY <1>1, <1>2, TypesStay DEF Unsettled
<1> QED
  BY <1>1, <1>2, <1>8, <1>9, <1>10, <1>11, StepAtTop

LEMMA DimensionReplaces ==
    ASSUME RInv, IInv', UNCHANGED <<schema, save>>, Dimension
    PROVE  Replacement'
<1>1. /\ Running /\ top.pos \in DOMAIN alternative /\ symbol = "@dimension" /\ IInv
      /\ status = "running"
      /\ UNCHANGED <<templates>>
      /\ \/ Throws /\ T!restore_type_name_token
         \/ Throws /\ UNCHANGED <<stream, replaced>>
         \/ (\E x : Keep(x, 3)) /\ T!restore_type_name_token
  BY DEF Dimension, Before, RInv, contexts, Running
<1>2. calls # <<>> /\ top \in Frames /\ top.rule = "emit_nodes" /\ top.pos = 2
  BY <1>1, Emitting
<1>3. CASE Throws /\ T!restore_type_name_token
  BY <1>3, SchemaRestored, Thrown DEF Throws
<1>4. CASE Throws /\ UNCHANGED <<stream, replaced>>
  BY <1>1, <1>4, SchemaKept, Thrown DEF Throws
<1>5. CASE (\E x : Keep(x, 3)) /\ T!restore_type_name_token
  <2>1. PICK x : calls' = Replaced([top EXCEPT !.todo = x, !.pos = 3]) /\ status' = status
    BY <1>5 DEF Keep
  <2>2. PICK g : g = [top EXCEPT !.todo = x, !.pos = 3]
    OBVIOUS
  <2>3. g.rule = "emit_nodes" /\ g.pos = 3
    BY <1>2, <2>2 DEF Frames
  <2>4. top' = g
    BY <1>1, <1>2, <2>1, <2>2, ReplacedTop
  <2>5. StaysAtTop
    BY <1>1, <1>2, <2>1, StaysWith
  <2>6. StreamIsSchema' /\ Replacing'
    BY <1>5, SchemaRestored, NoneReplaced
  <2>7. Here' /\ ~Instancing(top')
    BY <2>3, <2>4 DEF Here, Declaring, Instancing
  <2>8. ~Unsettled /\ TypesKept
    BY <1>1, <1>2, TypesStay DEF Unsettled
  <2> QED
    BY <1>1, <1>2, <2>1, <2>5, <2>6, <2>7, <2>8, StepAtTop
<1> QED
  BY <1>1, <1>3, <1>4, <1>5

-----------------------------------------------------------------------------
(* The productions a step enters or leaves. *)

LEMMA Pushed ==
    ASSUME IInv, calls # <<>>, IInv', schema' = schema, NEW r, calls' = Append(calls, Frame(r))
    PROVE  /\ Len(calls') = Len(calls) + 1 /\ calls' \in Seq(Frames)
           /\ top'.rule = r /\ top'.pos = 1 /\ top'.mark = index /\ top'.alt = 1
           /\ top' = calls'[Len(calls) + 1]
           /\ \A i \in 1 .. Len(calls) : calls'[i] = calls[i]
<1>1. PICK n \in Nat \ {0} : n = Len(calls)
  BY Topmost
<1>2. calls \in Seq(Frames)
  BY Topmost
<1>3. PICK f : f = Frame(r)
  OBVIOUS
<1>4. f.rule = r /\ f.pos = 1 /\ f.mark = index /\ f.alt = 1
  BY <1>3 DEF Frame
<1>5. /\ Len(calls') = n + 1 /\ calls'[n + 1] = f
      /\ \A i \in 1 .. n : calls'[i] = calls[i]
  BY <1>1, <1>2, <1>3
<1>6. Frames' = Frames /\ calls' \in Seq(Frames')
  <2>1. Stacked' /\ IInv'
    BY DEF IInv
  <2> QED
    BY <2>1 DEF Stacked, Frames, Slots
<1>7. top' = calls'[n + 1]
  BY <1>5, <1>6, NewTop
<1> QED
  BY <1>1, <1>4, <1>5, <1>6, <1>7

LEMMA PushStep ==
    ASSUME RInv, IInv', Running, index \in Slots, schema' = schema, NEW r \in Rules,
           calls' = Append(calls, Frame(r)), UNCHANGED <<stream, replaced, status>>,
           r = "opt_array_suffix" /\ (Declaring(top) \/ Instancing(top)) => index = top.mark + 1,
           Settled', Skipping', Replacing'
    PROVE  Replacement'
<1>1. IInv /\ status = "running"
  BY DEF RInv, Running
<1>2. calls # <<>>
  BY <1>1, RunningStack
<1>3. StreamIsSchema'
  BY SchemaKept
<1>4. Waiting' /\ Measured'
  BY FramesPushed
<1>5. Here'
  <2>1. top'.pos = 1
    BY <1>1, <1>2, Pushed
  <2> QED
    BY <2>1 DEF Here
<1> QED
  BY <1>1, <1>3, <1>4, <1>5 DEF Replacement, Ended

LEMMA ReadMembersReplaces ==
    ASSUME RInv, IInv', UNCHANGED <<schema, save>>, ReadMembers
    PROVE  Replacement'
<1>1. /\ Running /\ top.pos \in DOMAIN alternative /\ symbol = "@members" /\ IInv
      /\ status = "running" /\ UNCHANGED templates
      /\ \/ Throws /\ UNCHANGED tokens
         \/ /\ \E r \in Body : calls' = Append(calls, Frame(r))
            /\ \E i : set_index(i)
            /\ UNCHANGED <<returned, status>>
  <2>1. /\ Running /\ top.pos \in DOMAIN alternative /\ symbol = "@members" /\ IInv
        /\ status = "running" /\ UNCHANGED templates
    BY DEF ReadMembers, Before, RInv, contexts, Running
  <2>2. CASE Throws /\ UNCHANGED tokens
    BY <2>1, <2>2
  <2>3. CASE ~(Throws /\ UNCHANGED tokens)
    <3>1. PICK r, slots : /\ r = (IF Current.type = "struct" THEN "struct_members" ELSE "template_members")
                          /\ slots = (IF Current.type = "struct" THEN schema.structs ELSE schema.templates)
      OBVIOUS
    <3>2. calls' = Append(calls, Frame(r)) /\ set_index(slots[Current.of]) /\ UNCHANGED <<returned, status>>
      BY <2>3, <3>1 DEF ReadMembers
    <3>3. r \in Body
      BY <3>1 DEF Body
    <3> QED
      BY <2>1, <3>2, <3>3
  <2> QED
    BY <2>2, <2>3
<1>2. calls # <<>> /\ top \in Frames /\ top.rule = "emit_nodes" /\ top.pos = 3 /\ index \in Slots
  BY <1>1, Emitting
<1>3. CASE Throws /\ UNCHANGED tokens
  BY <1>3, SchemaKept, Thrown DEF Throws, tokens
<1>4. CASE /\ \E r \in Body : calls' = Append(calls, Frame(r))
           /\ \E i : set_index(i)
           /\ UNCHANGED <<returned, status>>
  <2>1. PICK r \in Body : calls' = Append(calls, Frame(r))
    BY <1>4
  <2>2. UNCHANGED <<stream, replaced>>
    BY <1>4 DEF set_index
  <2>3. r \in Rules /\ r # "opt_array_suffix"
    BY RulesAre DEF Body
  <2>4. ~Unsettled /\ Settled'
    <3>1. ~Unsettled
      BY <1>2 DEF Unsettled
    <3> QED
      BY <1>1, <3>1, SettledKept, TypesStay
  <2>5. Skipping'
    <3>1. PICK n \in Nat \ {0} : n = Len(calls)
      BY <1>1, <1>2, Topmost
    <3>2. calls' \in Seq(Frames) /\ Len(calls') = n + 1 /\ calls'[n + 1].rule = r
      BY <1>1, <1>2, <2>1, <3>1, Pushed
    <3> QED
      BY <2>3, <3>1, <3>2, NotSkipping
  <2>6. Replacing'
    <3>1. replaced = <<>>
      BY <1>1, <1>2, NotReplaced
    <3> QED
      BY <2>2, <3>1, NoneReplaced
  <2> QED
    BY <1>1, <1>2, <1>4, <2>1, <2>2, <2>3, <2>4, <2>5, <2>6, PushStep
<1> QED
  BY <1>1, <1>3, <1>4

LEMMA Calling ==
    ASSUME IInv, Call
    PROVE  /\ Running /\ status = "running" /\ returned = "none" /\ calls # <<>> /\ index \in Slots
           /\ top.pos \in DOMAIN alternative /\ symbol = alternative[top.pos] /\ symbol \in Rules
           /\ Placed(top.rule, top.alt, top.pos, alternative)
           /\ top.alt \in DOMAIN Grammar[top.rule] /\ alternative = Grammar[top.rule][top.alt]
           /\ calls' = Append(calls, Frame(symbol))
           /\ UNCHANGED <<stream, index, replaced, returned, status>>
           /\ templates' = IF symbol = "template_statement"
                           THEN Append(templates, [type_name |-> NoToken, type |-> NoToken])
                           ELSE templates
<1>1. /\ Running /\ status = "running" /\ returned = "none" /\ top.pos \in DOMAIN alternative
      /\ symbol \in Rules /\ calls' = Append(calls, Frame(symbol))
      /\ UNCHANGED <<stream, index, replaced, returned, status>>
      /\ templates' = IF symbol = "template_statement"
                      THEN Append(templates, [type_name |-> NoToken, type |-> NoToken])
                      ELSE templates
  BY GrammarRules DEF Call, Running, tokens, Enter
<1>2. /\ calls # <<>> /\ index \in Slots /\ symbol = alternative[top.pos]
      /\ Placed(top.rule, top.alt, top.pos, alternative)
  BY <1>1, AtHand
<1>3. top.alt \in DOMAIN Grammar[top.rule]
  BY <1>2, Topmost
<1> QED
  BY <1>1, <1>2, <1>3 DEF alternative

(* Which production a statement with a type calls, and where. *)
LEMMA CalledFrom ==
    ASSUME IInv, Call
    PROVE  /\ Declaring(top) => \/ symbol = "opt_array_suffix" /\ top.pos = 2
                                \/ symbol = "emit_nodes" /\ top.pos = 4
           /\ Instancing(top) => \/ symbol = "opt_array_suffix" /\ top.pos = 3
                                 \/ symbol = "definition_statement" /\ top.pos = 7
           /\ top.rule = "opt_array_suffix" =>
                symbol = "opt_array_suffix" /\ top.alt = 1 /\ top.pos = 3
           /\ top.rule # "emit_nodes"
           /\ Unsettled => symbol = "instantiating_type"
<1>1. /\ top.pos \in DOMAIN alternative /\ symbol = alternative[top.pos] /\ symbol \in Rules
      /\ Placed(top.rule, top.alt, top.pos, alternative)
      /\ top.alt \in DOMAIN Grammar[top.rule] /\ alternative = Grammar[top.rule][top.alt]
  BY Calling
<1>2. symbol \notin Terminals /\ symbol \notin {"@declare", "@dimension", "@members", "@skip", "@instantiate"}
  BY <1>1, NoTerminal, RulesAre
<1>3. Declaring(top) => \/ symbol = "opt_array_suffix" /\ top.pos = 2
                        \/ symbol = "emit_nodes" /\ top.pos = 4
  BY <1>1 DEF Declaring, Placed
<1>4. Instancing(top) => \/ symbol = "opt_array_suffix" /\ top.pos = 3
                         \/ symbol = "definition_statement" /\ top.pos = 7
  <2>1. SUFFICES ASSUME Instancing(top)
                 PROVE  \/ symbol = "opt_array_suffix" /\ top.pos = 3
                        \/ symbol = "definition_statement" /\ top.pos = 7
    OBVIOUS
  <2>2. PICK g : g = Grammar["template_definition_statement"]
    OBVIOUS
  <2>3. DOMAIN g[1] = 1 .. 7 /\ g[1][7] = "definition_statement"
    BY <2>2, InstanceSymbols
  <2>4. alternative = g[1]
    BY <1>1, <2>1, <2>2 DEF Instancing
  <2>5. top.pos \in 1 .. 6 \/ top.pos = 7
    BY <1>1, <2>3, <2>4
  <2>6. CASE top.pos \in 1 .. 6
    BY <1>1, <2>1, <2>6 DEF Instancing, Placed
  <2> QED
    BY <1>1, <2>3, <2>4, <2>5, <2>6
<1>5. top.rule = "opt_array_suffix" =>
                symbol = "opt_array_suffix" /\ top.alt = 1 /\ top.pos = 3
  <2>1. SUFFICES ASSUME top.rule = "opt_array_suffix"
                 PROVE  symbol = "opt_array_suffix" /\ top.alt = 1 /\ top.pos = 3
    OBVIOUS
  <2>2. PICK g : g = Grammar["opt_array_suffix"]
    OBVIOUS
  <2>3. /\ DOMAIN g = 1 .. 2 /\ DOMAIN g[1] = 1 .. 3 /\ DOMAIN g[2] = {}
        /\ g[1][1] = "[" /\ g[1][2] = "@skip" /\ g[1][3] = "opt_array_suffix"
    BY <2>2, SuffixSymbols
  <2>4. top.alt = 1 /\ top.pos \in 1 .. 3 /\ symbol = g[1][top.pos]
    BY <1>1, <2>1, <2>2, <2>3
  <2>5. top.pos # 1 /\ top.pos # 2
    BY <1>2, <2>3, <2>4 DEF Terminals
  <2>6. top.pos = 3
    BY <2>4, <2>5
  <2> QED
    BY <2>3, <2>4, <2>6
<1>6. top.rule # "emit_nodes"
  BY <1>1, <1>2 DEF Placed
<1>7. Unsettled => symbol = "instantiating_type"
  <2>1. SUFFICES ASSUME Unsettled PROVE symbol = "instantiating_type"
    OBVIOUS
  <2>2. PICK g, h : g = Grammar["template_statement"] /\ h = Grammar["instantiating_type"]
    OBVIOUS
  <2>3. /\ DOMAIN g = 1 .. 1 /\ DOMAIN g[1] = 1 .. 7
        /\ g[1][1] = "template" /\ g[1][2] = "<" /\ g[1][3] = "instantiating_type"
        /\ DOMAIN h = 1 .. 4
        /\ \A a \in 1 .. 4 : /\ DOMAIN h[a] = 1 .. 2
                             /\ h[a][1] \in TypeWords /\ h[a][2] = "@instantiate"
    BY <2>2, TemplateSymbols
  <2>4. CASE top.rule = "template_statement" /\ top.pos <= 3
    <3>1. top.pos \in 1 .. 7 /\ symbol = g[1][top.pos]
      BY <1>1, <2>2, <2>3, <2>4
    <3>2. top.pos = 1 \/ top.pos = 2 \/ top.pos = 3
      BY <2>4, <3>1
    <3> QED
      BY <1>2, <2>3, <3>1, <3>2 DEF Terminals
  <2>5. CASE top.rule = "instantiating_type" /\ top.pos <= 2
    <3>1. top.alt \in 1 .. 4 /\ top.pos \in 1 .. 2 /\ symbol = h[top.alt][top.pos]
      BY <1>1, <2>2, <2>3, <2>5
    <3>2. symbol \in TypeWords \/ symbol = "@instantiate"
      BY <2>3, <3>1
    <3> QED
      BY <1>2, <3>2 DEF TypeWords, Terminals
  <2> QED
    BY <2>1, <2>4, <2>5 DEF Unsettled
<1> QED
  BY <1>3, <1>4, <1>5, <1>6, <1>7

LEMMA CallSettles ==
    ASSUME RInv, IInv', UNCHANGED <<schema, save>>, Call
    PROVE  Settled'
<1>1. IInv /\ Settled
  BY DEF RInv, Replacement
<1>2. status = "running" /\ calls # <<>>
  BY <1>1, Calling
<1>3. top'.rule = symbol /\ top'.pos = 1
  BY <1>1, Calling, Pushed
<1>4. CASE symbol = "template_statement"
  <2>1. ~Unsettled
    BY <1>1, <1>4, CalledFrom
  <2>2. Unsettled'
    BY <1>3, <1>4 DEF Unsettled
  <2>3. PICK R : R = [type_name : AnyToken, type : TypeTokens]
    OBVIOUS
  <2>4. templates \in Seq(R)
    BY <1>1, <2>3 DEF IInv, Scoped
  <2>5. PICK e : e = [type_name |-> NoToken, type |-> NoToken]
    OBVIOUS
  <2>6. templates' = Append(templates, e)
    BY <1>1, <1>4, <2>5, Calling
  <2>7. PICK n \in Nat : n = Len(templates) /\ DOMAIN templates = 1 .. n
    BY <2>4
  <2>8. /\ Len(templates') = n + 1 /\ DOMAIN templates' = 1 .. n + 1
        /\ \A k \in 1 .. n : templates'[k] = templates[k]
    BY <2>4, <2>6, <2>7
  <2>9. \A k \in 1 .. n + 1 : k \in 1 .. n \/ k = n + 1
    BY <2>7
  <2>10. \A k \in 1 .. n : templates[k].type.type \in TypeWords
    BY <1>1, <1>2, <2>1, <2>7 DEF Settled
  <2> QED
    BY <2>2, <2>8, <2>9, <2>10 DEF Settled
<1>5. CASE symbol # "template_statement"
  <2>1. Unsettled => Unsettled'
    <3>1. Unsettled => symbol = "instantiating_type"
      BY <1>1, CalledFrom
    <3> QED
      BY <1>3, <3>1 DEF Unsettled
  <2>2. UNCHANGED templates
    BY <1>1, <1>5, Calling
  <2> QED
    BY <1>2, <2>1, <2>2, TypesStay, SettledKept
<1> QED
  BY <1>4, <1>5

LEMMA CallSkips ==
    ASSUME RInv, IInv', UNCHANGED <<schema, save>>, Call
    PROVE  Skipping'
<1>1. IInv /\ Skipping
  BY DEF RInv, Replacement
<1>2. status = "running" /\ returned = "none" /\ calls # <<>> /\ symbol \in Rules
      /\ calls' = Append(calls, Frame(symbol)) /\ UNCHANGED <<index, returned, status>>
  BY <1>1, Calling
<1>3. PICK n \in Nat \ {0} : n = Len(calls)
  BY <1>1, <1>2, Topmost
<1>4. /\ Len(calls') = n + 1 /\ calls' \in Seq(Frames) /\ DOMAIN calls' = 1 .. n + 1
      /\ top'.rule = symbol /\ top'.pos = 1 /\ top'.mark = index /\ top'.alt = 1
      /\ top' = calls'[n + 1]
      /\ \A i \in 1 .. n : calls'[i] = calls[i]
      /\ top = calls[n] /\ DOMAIN calls = 1 .. n
  <2>1. /\ Len(calls') = Len(calls) + 1 /\ calls' \in Seq(Frames)
        /\ top'.rule = symbol /\ top'.pos = 1 /\ top'.mark = index /\ top'.alt = 1
        /\ top' = calls'[Len(calls) + 1]
        /\ \A i \in 1 .. Len(calls) : calls'[i] = calls[i]
    BY <1>1, <1>2, Pushed
  <2> QED
    BY <2>1, <1>1, <1>2, <1>3, Topmost
<1>5. CASE symbol # "opt_array_suffix"
  BY <1>3, <1>4, <1>5, NotSkipping
<1>6. CASE symbol = "opt_array_suffix"
  <2>1. Cursor' = index
    <3>1. returned' # "fail" /\ top'.pos # 2 /\ index' = index
      BY <1>2, <1>4
    <3> QED
      BY <3>1 DEF Cursor
  <2>2. ASSUME NEW i \in 1 .. n + 1, OnlySuffixes(i)' PROVE Leads(calls'[i].mark, index)
    <3>1. CASE i = n + 1
      BY <1>4, <3>1, LeadsHere
    <3>2. CASE i # n + 1
      <4>1. i \in 1 .. n
        BY <3>2
      <4>2. OnlySuffixes(i)
        <5>1. \A j \in i .. n : j \in i .. Len(calls') /\ calls'[j] = calls[j]
          BY <1>4, <4>1
        <5> QED
          BY <1>3, <2>2, <5>1 DEF OnlySuffixes
      <4>3. top.rule = "opt_array_suffix"
        <5>1. n \in i .. Len(calls)
          BY <1>3, <4>1
        <5> QED
          BY <1>4, <4>2, <5>1 DEF OnlySuffixes
      <4>4. top.pos = 3
        BY <1>1, <4>3, CalledFrom
      <4>5. Cursor = index
        BY <1>2, <4>4 DEF Cursor
      <4> QED
        BY <1>1, <1>2, <1>4, <4>1, <4>2, <4>5 DEF Skipping
    <3> QED
      BY <3>1, <3>2
  <2>3. ASSUME NEW i \in 1 .. n + 1, OnlySuffixes(i)' PROVE Leads(calls[i].mark, Cursor)'
    <3>1. PICK a, b : a = calls'[i].mark /\ b = Cursor'
      OBVIOUS
    <3>2. Leads(a, b)'
      BY <2>1, <2>2, <2>3, <3>1, Schematic
    <3> QED
      BY <3>1, <3>2
  <2>4. returned' # "fail" /\ top'.alt # 2 /\ top'.pos # 4
    BY <1>2, <1>4
  <2> QED
    BY <1>4, <2>3, <2>4 DEF Skipping
<1> QED
  BY <1>5, <1>6

LEMMA CallPasses ==
    ASSUME RInv, IInv', UNCHANGED <<schema, save>>, Call
    PROVE  Replacing'
<1>1. IInv /\ Replacement
  BY DEF RInv
<1>2. status = "running" /\ returned = "none" /\ calls # <<>> /\ symbol \in Rules /\ Running
      /\ calls' = Append(calls, Frame(symbol)) /\ UNCHANGED <<index, returned, status, stream, replaced>>
  BY <1>1, Calling
<1>3. CASE replaced = <<>>
  BY <1>2, <1>3, NoneReplaced
<1>4. CASE replaced # <<>>
  <2>1. PICK n \in Nat \ {0} : n = Len(calls)
    BY <1>1, <1>2, Topmost
  <2>2. /\ Len(calls') = n + 1 /\ DOMAIN calls' = 1 .. n + 1
        /\ top'.rule = symbol /\ top'.pos = 1 /\ top'.mark = index /\ top'.alt = 1
        /\ top' = calls'[n + 1]
        /\ \A i \in 1 .. n : calls'[i] = calls[i]
        /\ top = calls[n] /\ DOMAIN calls = 1 .. n
    <3>1. /\ Len(calls') = Len(calls) + 1 /\ calls' \in Seq(Frames)
          /\ top'.rule = symbol /\ top'.pos = 1 /\ top'.mark = index /\ top'.alt = 1
          /\ top' = calls'[Len(calls) + 1]
          /\ \A i \in 1 .. Len(calls) : calls'[i] = calls[i]
      BY <1>1, <1>2, Pushed
    <3> QED
      BY <3>1, <1>1, <1>2, <2>1, Topmost
  <2>3. PICK s : s = replaced[1].slot
    OBVIOUS
  <2>4. replaced'[1].slot = s
    BY <1>2, <2>3
  <2>5. PICK d \in 1 .. n :
             /\ Instantiating(d)
             /\ \/ d = n /\ Instancing(top) /\ top.pos = 7
                \/ d + 1 = n /\ Passing(top, s)
                \/ d + 1 < n /\ top.rule = "opt_array_suffix"
    <3>1. top.rule # "emit_nodes"
      BY <1>1, CalledFrom
    <3> QED
      BY <1>2, <1>4, <2>1, <2>2, <2>3, <3>1, ReplacedAt
  <2>6. Instancing(calls[d])' /\ calls'[d].pos = 7 /\ calls'[d].mark = s
    BY <2>1, <2>2, <2>3, <2>5 DEF Instantiating, Instancing
  <2>7. PICK f : f = calls'[d + 1]
    OBVIOUS
  <2>8. ASSUME Passing(f, s), d + 1 = n + 1 => f.pos <= 4, Undeclared(d + 1)'
        PROVE  Replacing'
    <3>1. Passing(f, s)'
      BY <1>2, <2>8 DEF Passing, Declaring, Misses
    <3>2. Passing(calls[d + 1], s)'
      BY <2>7, <3>1
    <3>3. d # Len(calls') /\ returned' = "none" /\ (d + 1 = Len(calls') => calls'[d + 1].pos <= 4)
      BY <1>2, <2>1, <2>2, <2>7, <2>8
    <3>4. Instantiating(d)'
      BY <2>4, <2>6, <2>8, <3>2, <3>3 DEF Instantiating
    <3>5. d \in 1 .. n + 1
      OBVIOUS
    <3> QED
      BY <2>2, <3>4, <3>5 DEF Replacing
  <2>9. CASE d = n
    <3>1. Instancing(top) /\ top.pos = 7
      BY <2>5, <2>9
    <3>2. symbol = "definition_statement"
      BY <1>1, <3>1, CalledFrom
    <3>3. index = top.mark /\ top.mark = s
      BY <1>1, <1>2, <2>2, <2>3, <2>5, <2>9, <3>1 DEF Replacement, Here, Instantiating
    <3>4. f.rule = "definition_statement" /\ f.alt = 1 /\ f.pos = 1 /\ f.mark = s
      BY <2>2, <2>7, <2>9, <3>2, <3>3
    <3>5. Passing(f, s)
      BY <3>4 DEF Passing, Declaring
    <3>6. Undeclared(d + 1)'
      BY <2>2, <2>9 DEF Undeclared
    <3> QED
      BY <2>8, <3>4, <3>5, <3>6
  <2>10. CASE d # n
    <3>1. d + 1 \in 1 .. n /\ f = calls[d + 1]
      BY <2>2, <2>7, <2>10
    <3>2. Passing(f, s) /\ Undeclared(d + 1)
      BY <2>1, <2>3, <2>5, <2>10, <3>1 DEF Instantiating
    <3>3. symbol = "opt_array_suffix" \/ symbol = "emit_nodes"
      <4>1. Declaring(top) \/ top.rule = "opt_array_suffix"
        BY <2>5, <2>10 DEF Passing
      <4> QED
        BY <1>1, <4>1, CalledFrom
    <3>4. Undeclared(d + 1)'
      <4>1. ASSUME NEW j \in (d + 1) + 1 .. n + 1
            PROVE  \/ calls'[j].rule = "opt_array_suffix"
                   \/ calls'[j].rule = "emit_nodes" /\ calls'[j].pos < 3
        <5>1. CASE j = n + 1
          BY <2>2, <3>3, <5>1
        <5>2. CASE j # n + 1
          <6>1. j \in 1 .. n /\ j \in (d + 1) + 1 .. Len(calls)
            BY <2>1, <3>1, <5>2
          <6> QED
            BY <2>2, <3>2, <6>1 DEF Undeclared
        <5> QED
          BY <5>1, <5>2
      <4> QED
        BY <2>2, <4>1 DEF Undeclared
    <3>5. d + 1 # n + 1
      BY <2>10
    <3> QED
      BY <2>8, <3>2, <3>4, <3>5
  <2> QED
    BY <2>9, <2>10
<1> QED
  BY <1>3, <1>4

LEMMA CallReplaces ==
    ASSUME RInv, IInv', UNCHANGED <<schema, save>>, Call
    PROVE  Replacement'
<1>1. IInv /\ Here
  BY DEF RInv, Replacement
<1>2. /\ Running /\ index \in Slots /\ symbol \in Rules /\ calls' = Append(calls, Frame(symbol))
      /\ UNCHANGED <<stream, replaced, status>>
  BY <1>1, Calling
<1>3. symbol = "opt_array_suffix" /\ (Declaring(top) \/ Instancing(top)) => index = top.mark + 1
  BY <1>1, <1>2, CalledFrom DEF Here
<1>4. Settled' /\ Skipping' /\ Replacing'
  BY CallSettles, CallSkips, CallPasses
<1> QED
  BY <1>2, <1>3, <1>4, PushStep

-----------------------------------------------------------------------------
(* Array suffixes. *)

LEMMA SuffixStep ==
    ASSUME RInv, IInv', status = "running", StaysAtTop, UNCHANGED <<schema, stream, replaced, templates>>,
           top.rule = "opt_array_suffix",
           status' = "running" \/ status' = "throwing",
           status' = "running" =>
             /\ \/ Cursor' = Cursor
                \/ Opens(Cursor) /\ Closing(Cursor) # {} /\ Cursor' = Behind(Cursor)
             /\ returned' = "fail" => top'.alt = 1 /\ top'.pos = 1
             /\ returned' = "fail" \/ top'.alt = 2 \/ top'.pos = 4 => ~Opens(Cursor')
    PROVE  Replacement'
<1>1. IInv /\ Skipping
  BY DEF RInv, Replacement
<1>2. calls # <<>>
  BY <1>1, RunningStack
<1>3. StreamIsSchema'
  BY SchemaKept
<1>4. CASE status' = "throwing"
  BY <1>3, <1>4, Thrown
<1>5. CASE status' = "running"
  <2>1. PICK n \in Nat \ {0} : n = Len(calls)
    BY <1>1, <1>2, Topmost
  <2>2. SameFrames(n) /\ top = calls[n] /\ DOMAIN calls = 1 .. n
    BY <1>1, <1>2, <2>1, Staying, Topmost
  <2>3. /\ calls' \in Seq(Frames) /\ Len(calls') = n
        /\ \A i \in 1 .. n - 1 : calls'[i] = calls[i]
        /\ calls'[n].rule = calls[n].rule /\ calls'[n].mark = calls[n].mark
    BY <2>2 DEF SameFrames
  <2>4. top' = calls'[n] /\ DOMAIN calls' = 1 .. n
    BY <2>3, NewTop
  <2>5. \A i \in 1 .. n : calls'[i].rule = calls[i].rule /\ calls'[i].mark = calls[i].mark
    <3>1. \A i \in 1 .. n : i \in 1 .. n - 1 \/ i = n
      OBVIOUS
    <3> QED
      BY <2>3, <3>1
  <2>6. Skipping'
    <3>1. ASSUME NEW i \in 1 .. n, OnlySuffixes(i)' PROVE Leads(calls[i].mark, Cursor)'
      <4>1. OnlySuffixes(i)
        <5>1. \A j \in i .. n : j \in i .. Len(calls') /\ j \in 1 .. n
          BY <2>3
        <5> QED
          BY <2>1, <2>5, <3>1, <5>1 DEF OnlySuffixes
      <4>2. PICK a, b, c : a = calls[i].mark /\ b = Cursor /\ c = Cursor'
        OBVIOUS
      <4>3. Leads(a, b)
        BY <1>1, <2>2, <4>1, <4>2 DEF Skipping
      <4>4. Leads(a, c)
        BY <1>5, <4>2, <4>3, LeadsOn
      <4>5. Leads(a, c)'
        BY <4>4, Schematic
      <4>6. a = calls'[i].mark
        BY <2>5, <4>2
      <4> QED
        BY <4>2, <4>5, <4>6
    <3>2. returned' = "fail" \/ top'.alt = 2 \/ top'.pos = 4 => ~Opens(Cursor)'
      <4>1. PICK c : c = Cursor'
        OBVIOUS
      <4>2. returned' = "fail" \/ top'.alt = 2 \/ top'.pos = 4 => ~Opens(c)
        BY <1>5, <4>1
      <4>3. Opens(c)' <=> Opens(c)
        BY Schematic
      <4>4. Opens(Cursor)' <=> Opens(c)'
        BY <4>1
      <4> QED
        BY <4>2, <4>3, <4>4
    <3> QED
      BY <1>5, <2>4, <3>1, <3>2 DEF Skipping
  <2>7. Settled'
    <3>1. ~Unsettled
      BY DEF Unsettled
    <3> QED
      BY <3>1, TypesStay, SettledKept
  <2>8. top'.rule = "opt_array_suffix"
    BY <2>2, <2>4, <2>5
  <2>9. Here'
    BY <2>8 DEF Here, Declaring, Instancing
  <2>10. Waiting' /\ Measured'
    <3>1. n \in 1 .. Len(calls) /\ ~Instancing(calls'[n])
      BY <2>1, <2>4, <2>8 DEF Instancing
    <3> QED
      BY <2>2, <3>1, FramesKept
  <2>11. Replacing'
    <3>1. CASE replaced = <<>>
      BY <3>1, NoneReplaced
    <3>2. CASE replaced # <<>>
      BY <2>1, <2>2, <2>8, <3>2, SecondPassGoesOn
    <3> QED
      BY <3>1, <3>2
  <2> QED
    BY <1>3, <1>5, <2>6, <2>7, <2>9, <2>10, <2>11 DEF Replacement, Ended
<1> QED
  BY <1>4, <1>5

LEMMA SkipReplaces ==
    ASSUME RInv, IInv', UNCHANGED <<schema, save>>, Skip
    PROVE  Replacement'
<1>1. /\ Running /\ top.pos \in DOMAIN alternative /\ symbol = "@skip" /\ IInv /\ StreamIsSchema
      /\ status = "running" /\ returned = "none"
      /\ UNCHANGED templates /\ SkipPast("[", "]", 1, Next_)
  BY DEF Skip, Before, RInv, Replacement, contexts, Running
<1>2. /\ calls # <<>> /\ Placed(top.rule, top.alt, top.pos, alternative) /\ index \in Slots
      /\ symbol = alternative[top.pos]
      /\ top.pos > 1 /\ alternative[top.pos - 1] \in Terminals =>
           index > 1 /\ stream[index - 1].type = alternative[top.pos - 1]
  BY <1>1, AtHand
<1>3. top.rule = "opt_array_suffix" /\ top.alt = 1 /\ top.pos = 2
  BY <1>1, <1>2 DEF Placed
<1>4. index > 1 /\ stream[index - 1].type = "["
  <2>1. alternative[1] = "["
    BY <1>3, SuffixSymbols DEF alternative
  <2>2. top.pos - 1 = 1 /\ top.pos > 1 /\ "[" \in Terminals
    BY <1>3 DEF Terminals
  <2> QED
    BY <1>2, <2>1, <2>2
<1>5. Cursor = index - 1 /\ index - 1 \in Slots
  BY <1>1, <1>2, <1>3, <1>4, SlotsAre DEF Cursor
<1>6. Opens(index - 1)
  BY <1>1, <1>4, <1>5, SameBracket DEF Opens
<1>7. Enclosed("[", "]", 1) = Closing(index - 1)
  BY <1>1, <1>2, <1>4, ClosingIsThere
<1>8. PICK ends : ends = Enclosed("[", "]", 1)
  OBVIOUS
<1>9. CASE ends = {}
  <2>1. Throws /\ UNCHANGED tokens
    BY <1>1, <1>8, <1>9 DEF SkipPast
  <2> QED
    BY <2>1, SchemaKept, Thrown DEF Throws, tokens
<1>10. CASE ends # {}
  <2>1. set_index(Min(ends) + 1) /\ Goto(Next_)
    BY <1>1, <1>8, <1>10 DEF SkipPast
  <2>2. index' = Min(ends) + 1 /\ UNCHANGED <<stream, replaced, returned, status>>
        /\ calls' = Replaced([top EXCEPT !.pos = 3])
    BY <1>3, <2>1 DEF set_index, T!set_index, Goto, Next_
  <2>3. index' = Behind(index - 1) /\ Closing(index - 1) # {}
    BY <1>7, <1>8, <1>10, <2>2 DEF Behind
  <2>4. StaysAtTop
    BY <1>1, <1>2, <2>1, StaysWith
  <2>5. top' = [top EXCEPT !.pos = 3]
    BY <1>1, <1>2, <2>2, ReplacedTop
  <2>6. top \in Frames
    BY <1>1, <1>2, Topmost
  <2>7. top'.alt = 1 /\ top'.pos = 3
    BY <1>3, <2>5, <2>6 DEF Frames
  <2>8. Cursor' = index'
    BY <1>1, <2>2, <2>7 DEF Cursor
  <2> QED
    BY <1>1, <1>3, <1>5, <1>6, <2>2, <2>3, <2>4, <2>7, <2>8, SuffixStep
<1> QED
  BY <1>9, <1>10

-----------------------------------------------------------------------------
(* Terminals, and the alternatives tried where one is not there. *)

(* A step within the second pass's definition. *)
LEMMA PassesOn ==
    ASSUME RInv, IInv', status = "running", replaced # <<>>, SameFrames(Len(calls)),
           UNCHANGED <<schema, stream, replaced>>, Declaring(top),
           Passing(top', replaced[1].slot), top'.pos <= 4,
           returned' = "fail" => top'.pos = 1 /\ Misses(replaced[1].slot, top'.alt)
    PROVE  Replacing'
<1>1. IInv
  BY DEF RInv
<1>2. calls # <<>>
  BY <1>1, RunningStack
<1>3. PICK n \in Nat \ {0} : n = Len(calls)
  BY <1>1, <1>2, Topmost
<1>4. PICK d \in DOMAIN calls : Instantiating(d) /\ d + 1 = n
  BY <1>3, ReplacedAt DEF Instancing, Declaring
<1>5. d \in 1 .. n - 1
  BY <1>1, <1>2, <1>3, <1>4, Topmost
<1>6. /\ calls' \in Seq(Frames) /\ Len(calls') = n /\ \A i \in 1 .. n - 1 : calls'[i] = calls[i]
  BY <1>3 DEF SameFrames
<1>7. top' = calls'[n] /\ DOMAIN calls' = 1 .. n
  BY <1>6, NewTop
<1>8. PICK s, f : s = replaced[1].slot /\ f = top'
  OBVIOUS
<1>9. /\ Instancing(calls[d]) /\ calls[d].pos = 7 /\ calls[d].mark = s
  BY <1>4, <1>8 DEF Instantiating
<1>10. Instancing(calls[d])' /\ calls'[d].pos = 7 /\ calls'[d].mark = s
  BY <1>5, <1>6, <1>9 DEF Instancing
<1>11. Passing(f, s)'
  BY <1>8 DEF Passing, Declaring, Misses
<1>12. Passing(calls[d + 1], s)'
  BY <1>4, <1>7, <1>8, <1>11
<1>13. Undeclared(d + 1)'
  BY <1>4, <1>6 DEF Undeclared
<1>14. replaced'[1].slot = s /\ d # Len(calls') /\ calls'[d + 1] = f
  BY <1>4, <1>5, <1>6, <1>7, <1>8
<1>15. Misses(s, calls[d + 1].alt)' <=> Misses(s, f.alt)
  BY <1>14 DEF Misses
<1>16. Instantiating(d)'
  BY <1>8, <1>10, <1>12, <1>13, <1>14, <1>15 DEF Instantiating
<1> QED
  BY <1>5, <1>7, <1>16 DEF Replacing

LEMMA RetryReplaces ==
    ASSUME RInv, IInv', UNCHANGED <<schema, save>>, Retry
    PROVE  Replacement'
<1>1. /\ status = "running" /\ returned = "fail" /\ IInv /\ Skipping /\ StreamIsSchema
      /\ index' = top.mark /\ returned' = "none" /\ UNCHANGED <<stream, replaced, status, templates>>
      /\ calls' = Replaced([top EXCEPT !.alt = @ + 1, !.pos = 1])
  BY DEF Retry, RInv, Replacement, contexts, set_index, T!set_index
<1>2. calls # <<>>
  BY <1>1, RunningStack
<1>3. top \in Frames
  BY <1>1, <1>2, Topmost
<1>4. PICK a : a = top.alt + 1
  OBVIOUS
<1>5. calls' = Replaced([top EXCEPT !.alt = a, !.pos = 1])
  BY <1>1, <1>4
<1>6. top' = [top EXCEPT !.alt = a, !.pos = 1]
  BY <1>1, <1>2, <1>5, ReplacedTop
<1>7. top'.rule = top.rule /\ top'.mark = top.mark /\ top'.alt = top.alt + 1 /\ top'.pos = 1
  BY <1>3, <1>4, <1>6 DEF Frames
<1>8. StaysAtTop
  BY <1>1, <1>2, <1>5, StaysWith
<1>9. CASE top.rule = "opt_array_suffix"
  <2>1. Cursor = top.mark /\ Cursor' = top.mark
    BY <1>1, <1>7 DEF Cursor
  <2>2. ~Opens(Cursor)
    BY <1>1, <1>9 DEF Skipping
  <2> QED
    BY <1>1, <1>7, <1>8, <1>9, <2>1, <2>2, SuffixStep
<1>10. CASE top.rule # "opt_array_suffix"
  <2>1. StreamIsSchema' /\ TypesKept
    BY <1>1, SchemaKept, TypesStay
  <2>2. Unsettled => Unsettled'
    BY <1>7 DEF Unsettled
  <2>3. Here'
    BY <1>7 DEF Here
  <2>4. ~(top'.pos \in 5 .. 7)
    BY <1>7
  <2>5. Replacing'
    <3>1. CASE replaced = <<>>
      BY <1>1, <3>1, NoneReplaced
    <3>2. CASE replaced # <<>>
      <4>1. PICK s : s = replaced[1].slot
        OBVIOUS
      <4>2. Passing(top, s) /\ Misses(s, top.alt)
        <5>1. top.rule # "emit_nodes"
          BY <1>1 DEF IInv, Controlled
        <5> QED
          BY <1>1, <1>10, <3>2, <4>1, <5>1, ReplacedAt
      <4>3. PICK b \in 1 .. 4 : b = top.alt /\ top.rule = "definition_statement" /\ top.mark = s
        BY <4>2 DEF Passing, Declaring
      <4>4. \A c \in 1 .. b : Misses(s, c)
        <5>1. \A c \in 1 .. b : c \in 1 .. b - 1 \/ c = b
          OBVIOUS
        <5> QED
          BY <4>2, <4>3, <5>1 DEF Passing
      <4>5. b # 4
        <5>1. SUFFICES ASSUME b = 4 PROVE FALSE
          OBVIOUS
        <5>2. Misses(s, 1) /\ Misses(s, 2) /\ Misses(s, 3) /\ Misses(s, 4)
          BY <4>4, <5>1
        <5>3. stream[s].type \notin TypeWords
          BY <5>2, DefinitionSymbols DEF Misses, TypeWords
        <5> QED
          BY <1>1, <3>2, <4>1, <5>3, ReplacedSlot
      <4>6. top'.alt = b + 1 /\ b + 1 \in 1 .. 4 /\ (b + 1) - 1 = b
        BY <1>7, <4>3, <4>5
      <4>7. Passing(top', s)
        BY <1>7, <4>3, <4>4, <4>6 DEF Passing, Declaring
      <4>8. SameFrames(Len(calls))
        BY <1>1, <1>2, <1>8, Staying
      <4>9. top'.pos <= 4 /\ returned' # "fail"
        BY <1>1, <1>7
      <4>10. Declaring(top)
        BY <4>2 DEF Passing
      <4> QED
        BY <1>1, <3>2, <4>1, <4>7, <4>8, <4>9, <4>10, PassesOn
    <3> QED
      BY <3>1, <3>2
  <2> QED
    BY <1>1, <1>8, <1>10, <2>1, <2>2, <2>3, <2>4, <2>5, StepAtTop
<1> QED
  BY <1>9, <1>10

LEMMA MatchAt ==
    ASSUME IInv, Match
    PROVE  /\ Running /\ status = "running" /\ returned = "none" /\ calls # <<>> /\ index \in Slots
           /\ top.pos \in DOMAIN alternative /\ symbol = alternative[top.pos] /\ symbol \in Terminals
           /\ Placed(top.rule, top.alt, top.pos, alternative)
           /\ top.alt \in DOMAIN Grammar[top.rule] /\ alternative = Grammar[top.rule][top.alt]
           /\ top.rule # "emit_nodes"
           /\ top.pos = 1 /\ top.rule \notin Body => index = top.mark
           /\ index' = index + 1 /\ UNCHANGED <<stream, replaced, templates>>
           /\ \/ stream[index].type = symbol /\ Advance
              \/ stream[index].type # symbol /\ Fails
<1>1. /\ Running /\ top.pos \in DOMAIN alternative /\ symbol \in Terminals
      /\ index' = index + 1 /\ UNCHANGED <<stream, replaced, templates>>
      /\ IF ~T!InStream(index) THEN Throws ELSE IF stream[index].type = symbol THEN Advance ELSE Fails
  BY DEF Match, next, T!next, contexts
<1>2. /\ calls # <<>> /\ index \in Slots /\ symbol = alternative[top.pos]
      /\ Placed(top.rule, top.alt, top.pos, alternative)
      /\ top.pos = 1 /\ top.rule \notin Body => index = top.mark
  BY <1>1, AtHand
<1>3. T!InStream(index)
  BY <1>2, SlotsAre DEF T!InStream
<1>4. top.rule # "emit_nodes"
  BY <1>1, <1>2, NoAction DEF Placed
<1>5. top.alt \in DOMAIN Grammar[top.rule]
  BY <1>2, Topmost
<1>6. \/ stream[index].type = symbol /\ Advance
      \/ stream[index].type # symbol /\ Fails
  BY <1>1, <1>3
<1> QED
  BY <1>1, <1>2, <1>4, <1>5, <1>6 DEF alternative, Running

(* Where a statement with a type has terminals. *)
LEMMA MatchedIn ==
    ASSUME IInv, Match
    PROVE  /\ Declaring(top) => top.pos = 1 \/ (top.pos = 3 /\ symbol = "identifier")
           /\ Instancing(top) => top.pos = 1 \/ (top.pos = 4 /\ symbol = "identifier")
           /\ top.rule = "opt_array_suffix" => top.alt = 1 /\ top.pos = 1 /\ symbol = "["
           /\ top.rule = "template_statement" => top.pos # 3
           /\ top.rule = "instantiating_type" => top.pos = 1
<1>1. /\ top.pos \in DOMAIN alternative /\ symbol = alternative[top.pos] /\ symbol \in Terminals
      /\ top.alt \in DOMAIN Grammar[top.rule] /\ alternative = Grammar[top.rule][top.alt]
  BY MatchAt
<1>2. symbol \notin Rules /\ symbol \notin {"@skip", "@matches", "@rewind", "@replace", "@instantiate"}
  BY <1>1, NoTerminal, NoAction
<1>3. \A r \in {"opt_array_suffix", "emit_nodes", "definition_statement", "instantiating_type"} : r \in Rules
  BY RulesAre
<1>4. Declaring(top) => top.pos = 1 \/ (top.pos = 3 /\ symbol = "identifier")
  <2>1. SUFFICES ASSUME Declaring(top) PROVE top.pos = 1 \/ (top.pos = 3 /\ symbol = "identifier")
    OBVIOUS
  <2>2. PICK g : g = Grammar["definition_statement"]
    OBVIOUS
  <2>3. \A b \in 1 .. 4 : /\ DOMAIN g[b] = 1 .. 4 /\ g[b][2] = "opt_array_suffix"
                          /\ g[b][3] = "identifier" /\ g[b][4] = "emit_nodes"
    BY <2>2, DefinitionSymbols
  <2>4. top.alt \in 1 .. 4 /\ symbol = g[top.alt][top.pos] /\ top.pos \in 1 .. 4
    BY <1>1, <2>1, <2>2, <2>3 DEF Declaring
  <2>5. top.pos # 2 /\ top.pos # 4
    BY <1>2, <1>3, <2>3, <2>4
  <2>6. top.pos = 1 \/ top.pos = 3
    BY <2>4, <2>5
  <2> QED
    BY <2>3, <2>4, <2>6
<1>5. Instancing(top) => top.pos = 1 \/ (top.pos = 4 /\ symbol = "identifier")
  <2>1. SUFFICES ASSUME Instancing(top) PROVE top.pos = 1 \/ (top.pos = 4 /\ symbol = "identifier")
    OBVIOUS
  <2>2. PICK g : g = Grammar["template_definition_statement"]
    OBVIOUS
  <2>3. /\ DOMAIN g[1] = 1 .. 7
        /\ g[1][1] = "identifier" /\ g[1][2] = "@matches" /\ g[1][3] = "opt_array_suffix"
        /\ g[1][4] = "identifier" /\ g[1][5] = "@rewind" /\ g[1][6] = "@replace"
        /\ g[1][7] = "definition_statement"
    BY <2>2, InstanceSymbols
  <2>4. symbol = g[1][top.pos] /\ top.pos \in 1 .. 7
    BY <1>1, <2>1, <2>2, <2>3 DEF Instancing
  <2>5. top.pos # 2 /\ top.pos # 3 /\ top.pos # 5 /\ top.pos # 6 /\ top.pos # 7
    BY <1>2, <1>3, <2>3, <2>4
  <2>6. top.pos = 1 \/ top.pos = 4
    BY <2>4, <2>5
  <2> QED
    BY <2>3, <2>4, <2>6
<1>6. top.rule = "opt_array_suffix" => top.alt = 1 /\ top.pos = 1 /\ symbol = "["
  <2>1. SUFFICES ASSUME top.rule = "opt_array_suffix"
                 PROVE  top.alt = 1 /\ top.pos = 1 /\ symbol = "["
    OBVIOUS
  <2>2. PICK g : g = Grammar["opt_array_suffix"]
    OBVIOUS
  <2>3. /\ DOMAIN g = 1 .. 2 /\ DOMAIN g[1] = 1 .. 3 /\ DOMAIN g[2] = {}
        /\ g[1][1] = "[" /\ g[1][2] = "@skip" /\ g[1][3] = "opt_array_suffix"
    BY <2>2, SuffixSymbols
  <2>4. top.alt = 1 /\ top.pos \in 1 .. 3 /\ symbol = g[1][top.pos]
    BY <1>1, <2>1, <2>2, <2>3
  <2>5. top.pos # 2 /\ top.pos # 3
    BY <1>2, <1>3, <2>3, <2>4
  <2>6. top.pos = 1
    BY <2>4, <2>5
  <2> QED
    BY <2>3, <2>4, <2>6
<1>7. top.rule = "template_statement" => top.pos # 3
  <2>1. SUFFICES ASSUME top.rule = "template_statement" PROVE top.pos # 3
    OBVIOUS
  <2>2. PICK g : g = Grammar["template_statement"]
    OBVIOUS
  <2>3. DOMAIN g = 1 .. 1 /\ g[1][3] = "instantiating_type"
    BY <2>2, TemplateSymbols
  <2>4. symbol = g[1][top.pos]
    BY <1>1, <2>1, <2>2, <2>3
  <2> QED
    BY <1>2, <1>3, <2>3, <2>4
<1>8. top.rule = "instantiating_type" => top.pos = 1
  <2>1. SUFFICES ASSUME top.rule = "instantiating_type" PROVE top.pos = 1
    OBVIOUS
  <2>2. PICK h : h = Grammar["instantiating_type"]
    OBVIOUS
  <2>3. DOMAIN h = 1 .. 4 /\ \A b \in 1 .. 4 : DOMAIN h[b] = 1 .. 2 /\ h[b][2] = "@instantiate"
    BY <2>2, TemplateSymbols
  <2>4. top.alt \in 1 .. 4 /\ symbol = h[top.alt][top.pos] /\ top.pos \in 1 .. 2
    BY <1>1, <2>1, <2>2, <2>3
  <2>5. top.pos # 2
    BY <1>2, <2>3, <2>4
  <2> QED
    BY <2>4, <2>5
<1> QED
  BY <1>4, <1>5, <1>6, <1>7, <1>8

(* The second pass comes to the name behind the suffixes. *)
LEMMA NameIsThere ==
    ASSUME RInv, Running, replaced # <<>>, Declaring(top), top.pos = 3, index \in Slots
    PROVE  stream[index].type = "identifier"
<1>1. IInv /\ StreamIsSchema /\ Here /\ Measured /\ status = "running"
  BY DEF RInv, Replacement, Running
<1>2. PICK s : s = replaced[1].slot
  OBVIOUS
<1>3. PICK d \in DOMAIN calls : Instantiating(d) /\ Passing(top, s)
  BY <1>1, <1>2, ReplacedAt DEF Declaring, Instancing
<1>4. Instancing(calls[d]) /\ calls[d].pos = 7 /\ calls[d].mark = s
  BY <1>2, <1>3 DEF Instantiating
<1>5. Named(s)
  BY <1>1, <1>4 DEF Measured
<1>6. PICK e \in Slots : Leads(s + 1, e) /\ schema.text[e].type = "identifier"
  BY <1>5 DEF Named
<1>7. Leads(s + 1, index) /\ ~Opens(index)
  BY <1>1, <1>3 DEF Here, Passing
<1>8. ~Opens(e)
  BY <1>6 DEF Opens
<1>9. s \in Slots /\ s + 1 \in Slots
  <2>1. s \in 1 .. Len(schema.text) - 1
    BY <1>1, <1>2 DEF IInv, Streaming
  <2> QED
    BY <1>1, <2>1, SlotsAre
<1>10. index = e
  BY <1>1, <1>6, <1>7, <1>8, <1>9, OneEnd
<1>11. index # s
  <2>1. PICK x : x = s + 1
    OBVIOUS
  <2>2. x \in Slots /\ Leads(x, index)
    BY <1>7, <1>9, <2>1
  <2>3. index >= x
    BY <1>1, <2>2, LeadsForward
  <2> QED
    BY <1>1, <1>9, <2>1, <2>3, SlotsAre
<1>12. stream[index] = schema.text[index]
  BY <1>1, <1>2, <1>11 DEF StreamIsSchema
<1> QED
  BY <1>6, <1>10, <1>12

LEMMA MatchPasses ==
    ASSUME RInv, IInv', UNCHANGED <<schema, save>>, Match, top.rule # "opt_array_suffix"
    PROVE  Replacing'
<1>1. IInv
  BY DEF RInv
<1>2. /\ Running /\ status = "running" /\ returned = "none" /\ calls # <<>> /\ index \in Slots
      /\ symbol = alternative[top.pos] /\ alternative = Grammar[top.rule][top.alt]
      /\ top.rule # "emit_nodes"
      /\ top.pos = 1 /\ top.rule \notin Body => index = top.mark
      /\ UNCHANGED <<stream, replaced>>
      /\ \/ stream[index].type = symbol /\ Advance
         \/ stream[index].type # symbol /\ Fails
  BY <1>1, MatchAt
<1>3. CASE replaced = <<>>
  BY <1>2, <1>3, NoneReplaced
<1>4. CASE replaced # <<>>
  <2>1. PICK s : s = replaced[1].slot
    OBVIOUS
  <2>2. Passing(top, s)
    <3>1. ~(Instancing(top) /\ top.pos = 7)
      BY <1>1, MatchedIn
    <3> QED
      BY <1>2, <1>4, <2>1, <3>1, ReplacedAt
  <2>3. Declaring(top) /\ top.mark = s /\ top.rule = "definition_statement"
    BY <2>2 DEF Passing, Declaring
  <2>4. SameFrames(Len(calls))
    <3>1. StaysAtTop
      BY <1>1, <1>2, StaysWith
    <3> QED
      BY <1>1, <1>2, <3>1, Staying
  <2>5. top.pos = 1 \/ (top.pos = 3 /\ symbol = "identifier")
    BY <1>1, <2>3, MatchedIn
  <2>6. CASE Advance
    <3>1. /\ top'.rule = top.rule /\ top'.alt = top.alt /\ top'.mark = top.mark
          /\ top'.pos = top.pos + 1 /\ returned' = "none"
      BY <1>1, <1>2, <2>6, Advanced
    <3>2. Passing(top', s)
      BY <2>2, <3>1 DEF Passing, Declaring
    <3>3. top'.pos <= 4 /\ returned' # "fail"
      BY <2>5, <3>1
    <3> QED
      BY <1>2, <1>4, <2>1, <2>3, <2>4, <3>2, <3>3, PassesOn
  <2>7. CASE stream[index].type # symbol /\ Fails
    <3>1. top.pos = 1
      BY <1>2, <1>4, <2>3, <2>5, <2>7, NameIsThere
    <3>2. top' = top
      BY <1>1, <1>2, <2>7, SameStack DEF Fails
    <3>3. index = s
      BY <1>2, <2>3, <3>1 DEF Body
    <3>4. Misses(s, top.alt)
      BY <1>2, <2>3, <2>7, <3>1, <3>3 DEF Misses
    <3>5. top'.pos <= 4 /\ top'.pos = 1 /\ Passing(top', s) /\ Misses(s, top'.alt)
      BY <2>2, <3>1, <3>2, <3>4
    <3> QED
      BY <1>2, <1>4, <2>1, <2>3, <2>4, <3>5, PassesOn
  <2> QED
    BY <1>2, <2>6, <2>7
<1> QED
  BY <1>3, <1>4

LEMMA MatchReplaces ==
    ASSUME RInv, IInv', UNCHANGED <<schema, save>>, Match
    PROVE  Replacement'
<1>1. IInv /\ StreamIsSchema /\ Here
  BY DEF RInv, Replacement
<1>2. /\ Running /\ status = "running" /\ returned = "none" /\ calls # <<>> /\ index \in Slots
      /\ top.rule # "emit_nodes"
      /\ top.pos = 1 /\ top.rule \notin Body => index = top.mark
      /\ index' = index + 1 /\ UNCHANGED <<stream, replaced, templates>>
      /\ \/ stream[index].type = symbol /\ Advance
         \/ stream[index].type # symbol /\ Fails
  BY <1>1, MatchAt
<1>3. StaysAtTop /\ StreamIsSchema' /\ TypesKept
  BY <1>1, <1>2, StaysWith, SchemaKept, TypesStay
<1>4. CASE top.rule = "opt_array_suffix"
  <2>1. top.alt = 1 /\ top.pos = 1 /\ symbol = "[" /\ index = top.mark
    BY <1>1, <1>2, <1>4, MatchedIn DEF Body
  <2>2. Cursor = index
    BY <1>2, <2>1 DEF Cursor
  <2>3. CASE Advance
    <3>1. top'.alt = 1 /\ top'.pos = 2 /\ returned' = "none" /\ status' = "running"
      BY <1>1, <1>2, <1>4, <2>1, <2>3, Advanced
    <3>2. Cursor' = index
      <4>1. Cursor' = index' - 1
        BY <3>1 DEF Cursor
      <4> QED
        BY <1>1, <1>2, <4>1, SlotsAre
    <3> QED
      BY <1>2, <1>3, <1>4, <2>2, <3>1, <3>2, SuffixStep
  <2>4. CASE stream[index].type # symbol /\ Fails
    <3>1. top' = top /\ returned' = "fail" /\ status' = "running"
      BY <1>1, <1>2, <2>4, SameStack DEF Fails
    <3>2. Cursor' = top.mark
      BY <3>1 DEF Cursor
    <3>3. ~Opens(index)
      BY <1>1, <1>2, <2>1, <2>4, SameBracket DEF Opens
    <3> QED
      BY <1>2, <1>3, <1>4, <2>1, <2>2, <3>1, <3>2, <3>3, SuffixStep
  <2> QED
    BY <1>2, <2>3, <2>4
<1>5. CASE top.rule # "opt_array_suffix"
  <2>1. Replacing'
    BY <1>5, MatchPasses
  <2>2. CASE Fails
    <3>1. top' = top /\ returned' = "fail" /\ status' = "running"
      BY <1>1, <1>2, <2>2, SameStack DEF Fails
    <3>2. Here' /\ (Unsettled => Unsettled')
      BY <3>1 DEF Here, Running, Unsettled
    <3>3. Instancing(top') /\ top'.pos \in 5 .. 7 => Instancing(top) /\ top.pos \in 5 .. 7
      BY <3>1
    <3> QED
      BY <1>2, <1>3, <1>5, <2>1, <3>1, <3>2, <3>3, StepAtTop
  <2>3. CASE stream[index].type = symbol /\ Advance
    <3>1. /\ top'.rule = top.rule /\ top'.alt = top.alt /\ top'.mark = top.mark
          /\ top'.pos = top.pos + 1 /\ returned' = "none" /\ status' = "running"
      BY <1>1, <1>2, <2>3, Advanced
    <3>2. top.pos \in Nat
      BY <1>1, <1>2, Topmost DEF Frames
    <3>3. Unsettled => Unsettled'
      <4>1. top.rule = "template_statement" => top.pos # 3
        BY <1>1, MatchedIn
      <4>2. top.rule = "instantiating_type" => top.pos = 1
        BY <1>1, MatchedIn
      <4> QED
        BY <3>1, <3>2, <4>1, <4>2 DEF Unsettled
    <3>4. Here'
      <4>1. CASE Declaring(top) \/ Instancing(top)
        <5>1. top.pos = 1 => index' = top'.mark + 1
          BY <1>2, <3>1, <4>1 DEF Body, Declaring, Instancing
        <5>2. Declaring(top) => top.pos = 1 \/ top.pos = 3
          BY <1>1, MatchedIn
        <5>3. Instancing(top) => top.pos = 1 \/ top.pos = 4
          BY <1>1, MatchedIn
        <5>4. /\ Declaring(top) => (top'.pos = 2 /\ index' = top'.mark + 1) \/ top'.pos = 4
              /\ Instancing(top) => (top'.pos = 2 /\ index' = top'.mark + 1) \/ top'.pos = 5
          BY <3>1, <5>1, <5>2, <5>3
        <5>5. (Declaring(top)' => Declaring(top)) /\ (Instancing(top)' => Instancing(top))
          BY <3>1 DEF Declaring, Instancing
        <5> QED
          BY <5>4, <5>5 DEF Here
      <4>2. CASE ~Declaring(top) /\ ~Instancing(top)
        BY <3>1, <4>2 DEF Here, Declaring, Instancing
      <4> QED
        BY <4>1, <4>2
    <3>5. Instancing(top') /\ top'.pos \in 5 .. 7 => Named(top.mark)
      <4>1. SUFFICES ASSUME Instancing(top'), top'.pos \in 5 .. 7 PROVE Named(top.mark)
        OBVIOUS
      <4>2. Instancing(top)
        BY <3>1, <4>1 DEF Instancing
      <4>3. top.pos = 4 /\ symbol = "identifier"
        <5>1. top.pos = 1 \/ (top.pos = 4 /\ symbol = "identifier")
          BY <1>1, <4>2, MatchedIn
        <5> QED
          BY <3>1, <4>1, <5>1
      <4>4. replaced = <<>>
        BY <1>2, <4>2, <4>3, InstanceStack
      <4>5. schema.text[index].type = "identifier"
        BY <1>1, <2>3, <4>3, <4>4 DEF StreamIsSchema
      <4>6. Leads(top.mark + 1, index)
        BY <1>1, <1>2, <4>2, <4>3 DEF Here
      <4> QED
        BY <1>2, <4>5, <4>6 DEF Named
    <3> QED
      BY <1>2, <1>3, <1>5, <2>1, <3>1, <3>3, <3>4, <3>5, StepAtTop
  <2> QED
    BY <1>2, <2>2, <2>3
<1> QED
  BY <1>4, <1>5

-----------------------------------------------------------------------------
(* The productions left. *)

LEMMA LeaveSettles ==
    ASSUME RInv, Exit(top), calls # <<>>, status = "running", status' = "running",
           Unsettled => top.rule = "template_statement" \/ Unsettled'
    PROVE  Settled'
<1>1. IInv /\ Settled
  BY DEF RInv, Replacement
<1>2. templates' = IF top.rule = "template_statement" THEN Front(templates) ELSE templates
  BY DEF Exit
<1>3. CASE top.rule = "template_statement"
  <2>1. PICK R : R = [type_name : AnyToken, type : TypeTokens]
    OBVIOUS
  <2>2. templates \in Seq(R)
    BY <1>1, <2>1 DEF IInv, Scoped
  <2>3. templates # <<>>
    <3>1. Len(calls) \in Open({"template_statement"})
      BY <1>1, <1>3, Topmost DEF Open
    <3>2. Len(templates) # 0
      BY <1>1, <3>1, OpenCounts DEF IInv, Scoped
    <3> QED
      BY <3>2
  <2>4. PICK n \in Nat \ {0} : n = Len(templates)
    BY <2>2, <2>3, TopAndRest
  <2>5. /\ Front(templates) \in Seq(R) /\ Len(Front(templates)) = n - 1
        /\ \A i \in 1 .. n - 1 : Front(templates)[i] = templates[i]
    BY <2>2, <2>3, <2>4, TopAndRest
  <2>6. DOMAIN templates' = 1 .. n - 1 /\ \A i \in 1 .. n - 1 : templates'[i] = templates[i]
    BY <1>2, <1>3, <2>5
  <2>7. \A i \in 1 .. n - 1 : i \in DOMAIN templates /\ i # Len(templates)
    BY <2>2, <2>4
  <2> QED
    BY <1>1, <2>6, <2>7 DEF Settled
<1>4. CASE top.rule # "template_statement"
  BY <1>2, <1>4, TypesStay, SettledKept
<1> QED
  BY <1>3, <1>4

(* What fails with no alternative left is not an array suffix, and is not  *)
(* in the second pass. *)
LEMMA FailsAlone ==
    ASSUME RInv, status = "running", returned = "fail", ~HasAlternative
    PROVE  replaced = <<>> /\ top.rule # "opt_array_suffix" /\ top.rule # "emit_nodes"
<1>1. IInv /\ Skipping
  BY DEF RInv, Replacement
<1>2. top.rule # "emit_nodes"
  BY <1>1 DEF IInv, Controlled
<1>3. top.pos = 1 => ~(top.alt < Len(Grammar[top.rule]))
  BY DEF HasAlternative
<1>4. top.rule # "opt_array_suffix"
  BY <1>1, <1>3, SuffixSymbols DEF Skipping
<1>5. replaced = <<>>
  <2>1. SUFFICES ASSUME replaced # <<>> PROVE FALSE
    OBVIOUS
  <2>2. Declaring(top) /\ top.pos = 1
    BY <1>2, <1>4, <2>1, ReplacedAt DEF Passing
  <2> QED
    BY <1>3, <2>2, DefinitionSymbols DEF Declaring
<1> QED
  BY <1>2, <1>4, <1>5

LEMMA GiveUpReplaces ==
    ASSUME RInv, IInv', UNCHANGED <<schema, save>>, GiveUp
    PROVE  Replacement'
<1>1. /\ status = "running" /\ returned = "fail" /\ ~HasAlternative /\ IInv
      /\ Exit(top) /\ calls' = Front(calls)
      /\ \/ status' = "throwing"
         \/ calls[Len(calls) - 1].rule # "emit_nodes" /\ UNCHANGED <<status, returned>>
  BY DEF GiveUp, RInv
<1>2. replaced = <<>> /\ top.rule # "opt_array_suffix" /\ top.rule # "emit_nodes" /\ calls # <<>>
  BY <1>1, FailsAlone, RunningStack
<1>3. UNCHANGED <<stream, replaced>> /\ StreamIsSchema'
  BY <1>1, <1>2, Exiting, SchemaKept
<1>4. CASE status' = "throwing"
  BY <1>3, <1>4, Thrown
<1>5. CASE calls[Len(calls) - 1].rule # "emit_nodes" /\ UNCHANGED <<status, returned>>
  <2>1. Len(calls) # 1
    BY <1>1, <1>2, OnlyRoot
  <2>2. PICK n \in Nat \ {0} : Len(calls) = n + 1
    <3>1. PICK m \in Nat \ {0} : m = Len(calls)
      BY <1>1, <1>2, Topmost
    <3>2. m - 1 \in Nat \ {0} /\ m = (m - 1) + 1
      BY <2>1, <3>1
    <3> QED
      BY <3>1, <3>2
  <2>3. PICK c : c = calls[n]
    OBVIOUS
  <2>4. /\ c \in Frames /\ c.pos \in 1 .. Len(Grammar[c.rule][c.alt]) /\ Sound(c)
        /\ c.rule # "emit_nodes" => Symbol(c) = top.rule
        /\ c.rule = "opt_array_suffix" => top.rule = "opt_array_suffix"
    BY <1>1, <2>2, <2>3, Caller
  <2>5. c.rule # "emit_nodes" /\ c.rule # "opt_array_suffix"
    <3>1. Len(calls) - 1 = n
      BY <2>2
    <3> QED
      BY <1>2, <1>5, <2>3, <2>4, <3>1
  <2>6. /\ calls' \in Seq(Frames) /\ Len(calls') = n /\ calls'[n] = c
        /\ \A i \in 1 .. n - 1 : calls'[i] = calls[i]
    BY <1>1, <2>2, <2>3, Popped
  <2>7. SameFrames(n) /\ n \in 1 .. Len(calls)
    BY <2>2, <2>3, <2>6 DEF SameFrames
  <2>8. top' = c
    BY <2>6, NewTop
  <2>9. Settled'
    <3>1. Unsettled => top.rule = "template_statement" \/ Unsettled'
      <4>1. SUFFICES ASSUME top.rule = "instantiating_type" PROVE Unsettled'
        BY DEF Unsettled
      <4>2. Symbol(c) = "instantiating_type" /\ c.rule \in Rules /\ c.alt \in DOMAIN Grammar[c.rule]
        BY <2>4, <2>5, <4>1 DEF Frames, Sound
      <4>3. Placed(c.rule, c.alt, c.pos, Grammar[c.rule][c.alt])
        <5>1. DOMAIN Grammar[c.rule][c.alt] = 1 .. Len(Grammar[c.rule][c.alt])
          BY <4>2, Alternatives
        <5> QED
          BY <2>4, <4>2, <5>1, Alternatives
      <4>4. c.rule = "template_statement" /\ c.pos = 3
        BY <4>2, <4>3 DEF Placed, Symbol
      <4> QED
        BY <2>8, <4>4 DEF Unsettled
    <3> QED
      BY <1>1, <1>2, <1>5, <3>1, LeaveSettles
  <2>10. Skipping'
    BY <2>5, <2>6, NotSkipping
  <2>11. Here'
    BY <1>1, <1>5 DEF Here, Running
  <2>12. Waiting' /\ Measured'
    BY <1>5, <2>3, <2>6, <2>7, FramesKept
  <2>13. Replacing' /\ Ended'
    BY <1>1, <1>2, <1>3, <1>5 DEF Replacing, Ended
  <2> QED
    BY <1>3, <2>9, <2>10, <2>11, <2>12, <2>13 DEF Replacement
<1> QED
  BY <1>1, <1>4, <1>5

(* A production returns to the one below it. *)
LEMMA Returning ==
    ASSUME IInv, IInv', schema' = schema, Return, NEW n \in Nat \ {0}, Len(calls) = n + 1,
           NEW c, c = calls[n]
    PROVE  /\ Running /\ status = "running" /\ returned = "none" /\ calls # <<>>
           /\ top = calls[n + 1] /\ top.pos = Len(Grammar[top.rule][top.alt]) + 1
           /\ top.rule \in Rules /\ top.alt \in DOMAIN Grammar[top.rule]
           /\ UNCHANGED <<stream, replaced, returned, status>>
           /\ top.rule \notin Body => index' = index
           /\ SameFrames(n) /\ top' = calls'[n] /\ top' = Moved(c)
           /\ c \in Frames /\ c.pos \in 1 .. Len(Grammar[c.rule][c.alt])
           /\ c.rule # "emit_nodes" => Symbol(c) = top.rule
           /\ c.rule = "opt_array_suffix" => top.rule = "opt_array_suffix"
           /\ c.rule = "emit_nodes" => c.pos = 3 /\ top.rule \in Body
           /\ top'.rule = c.rule /\ top'.alt = c.alt /\ top'.mark = c.mark
           /\ c.rule # "emit_nodes" => top'.pos = c.pos + 1
           /\ Placed(c.rule, c.alt, c.pos, Grammar[c.rule][c.alt])
<1>1. /\ Running /\ status = "running" /\ returned = "none" /\ top.pos > Len(alternative)
      /\ Exit(top) /\ UNCHANGED <<returned, status>>
      /\ calls' = Append(Front(Front(calls)), Moved(calls[Len(calls) - 1]))
  BY DEF Return, Running
<1>2. Len(calls) - 1 = n
  OBVIOUS
<1>3. calls' = Append(Front(Front(calls)), Moved(c))
  BY <1>1, <1>2
<1>4. calls # <<>>
  BY <1>1, RunningStack
<1>5. /\ top.pos = Len(Grammar[top.rule][top.alt]) + 1 /\ top.rule \in Rules
      /\ top.alt \in DOMAIN Grammar[top.rule]
  BY <1>1, <1>4, Topmost DEF alternative
<1>6. /\ c \in Frames /\ Sound(c) /\ top = calls[n + 1]
      /\ c.pos \in 1 .. Len(Grammar[c.rule][c.alt])
      /\ c.rule # "emit_nodes" => Symbol(c) = top.rule
      /\ c.rule = "emit_nodes" => c.pos = 3 /\ c.todo # <<>> /\ top.rule \in Body
      /\ c.rule = "for_loop_block" => c.pos # 5 /\ c.pos # 8
      /\ c.rule = "opt_array_suffix" => top.rule = "opt_array_suffix"
  BY Caller
<1>7. UNCHANGED <<stream, replaced>> /\ (top.rule \notin Body => index' = index)
  BY <1>1, <1>4, Exiting DEF Exit
<1>8. PICK g : g = Moved(c)
  OBVIOUS
<1>9. /\ g \in Frames /\ g.rule = c.rule /\ g.alt = c.alt /\ g.mark = c.mark
      /\ c.rule # "emit_nodes" => g.pos = c.pos + 1
  BY <1>6, <1>8, Movable
<1>10. /\ calls' \in Seq(Frames) /\ Len(calls') = n /\ calls'[n] = g
       /\ \A i \in 1 .. n - 1 : calls'[i] = calls[i]
  <2>1. PICK b : b = Front(Front(calls))
    OBVIOUS
  <2>2. b \in Seq(Frames) /\ Len(b) = n - 1 /\ \A i \in 1 .. n - 1 : b[i] = calls[i]
    BY <2>1, PoppedTwice
  <2>3. calls' = Append(b, g)
    BY <1>3, <1>8, <2>1
  <2> QED
    BY <1>9, <2>2, <2>3
<1>11. SameFrames(n) /\ top' = calls'[n] /\ top' = g
  BY <1>9, <1>10, NewTop DEF SameFrames
<1>12. Placed(c.rule, c.alt, c.pos, Grammar[c.rule][c.alt])
  <2>1. c.rule \in Rules /\ c.alt \in DOMAIN Grammar[c.rule]
    BY <1>6 DEF Frames, Sound
  <2>2. DOMAIN Grammar[c.rule][c.alt] = 1 .. Len(Grammar[c.rule][c.alt])
    BY <2>1, Alternatives
  <2> QED
    BY <1>6, <2>1, <2>2, Alternatives
<1> QED
  BY <1>1, <1>4, <1>5, <1>6, <1>7, <1>8, <1>9, <1>11, <1>12

(* What a suffix that returns has passed. *)
LEMMA SuffixPassed ==
    ASSUME RInv, Running, calls # <<>>, top.rule = "opt_array_suffix",
           top.alt \in DOMAIN Grammar[top.rule], top.pos = Len(Grammar[top.rule][top.alt]) + 1
    PROVE  /\ Cursor = index /\ ~Opens(index) /\ Leads(top.mark, index)
           /\ \A i \in DOMAIN calls : OnlySuffixes(i) => Leads(calls[i].mark, index)
<1>1. IInv /\ Skipping /\ status = "running" /\ returned = "none"
  BY DEF RInv, Replacement, Running
<1>2. (top.alt = 1 /\ top.pos = 4) \/ (top.alt = 2 /\ top.pos = 1)
  <2>1. PICK g : g = Grammar["opt_array_suffix"]
    OBVIOUS
  <2>2. DOMAIN g = 1 .. 2 /\ Len(g[1]) = 3 /\ Len(g[2]) = 0
    BY <2>1, SuffixSymbols
  <2>3. top.alt \in DOMAIN g /\ top.pos = Len(g[top.alt]) + 1
    BY <2>1
  <2>4. CASE top.alt = 1
    <3>1. top.pos = Len(g[1]) + 1
      BY <2>3, <2>4
    <3> QED
      BY <2>2, <2>4, <3>1
  <2>5. CASE top.alt = 2
    <3>1. top.pos = Len(g[2]) + 1
      BY <2>3, <2>5
    <3> QED
      BY <2>2, <2>5, <3>1
  <2> QED
    BY <2>2, <2>3, <2>4, <2>5
<1>3. Cursor = index
  BY <1>1, <1>2 DEF Cursor
<1>4. ~Opens(index)
  BY <1>1, <1>2, <1>3 DEF Skipping
<1>5. \A i \in DOMAIN calls : OnlySuffixes(i) => Leads(calls[i].mark, index)
  BY <1>1, <1>3 DEF Skipping
<1>6. Leads(top.mark, index)
  <2>1. PICK n \in Nat \ {0} : n = Len(calls)
    BY <1>1, Topmost
  <2>2. top = calls[n] /\ DOMAIN calls = 1 .. n
    BY <1>1, <2>1, Topmost
  <2>3. OnlySuffixes(n)
    BY <2>1, <2>2 DEF OnlySuffixes
  <2> QED
    BY <1>5, <2>2, <2>3
<1> QED
  BY <1>3, <1>4, <1>5, <1>6

(* Where a statement with a type waits for what returns. *)
LEMMA ReturnsTo ==
    ASSUME NEW c, NEW rule, rule \in Rules, rule = Symbol(c), c.pos \in Nat,
           c.pos \in 1 .. Len(Grammar[c.rule][c.alt]),
           Placed(c.rule, c.alt, c.pos, Grammar[c.rule][c.alt])
    PROVE  /\ Declaring(c) => (c.pos = 2 /\ rule = "opt_array_suffix") \/ c.pos = 4
           /\ Instancing(c) => (c.pos = 3 /\ rule = "opt_array_suffix") \/ c.pos = 7
           /\ c.rule = "opt_array_suffix" /\ c.alt \in DOMAIN Grammar[c.rule] => c.alt = 1 /\ c.pos = 3
<1>1. rule = Grammar[c.rule][c.alt][c.pos]
  BY DEF Symbol
<1>2. Declaring(c) => (c.pos = 2 /\ rule = "opt_array_suffix") \/ c.pos = 4
  BY <1>1 DEF Declaring, Placed
<1>3. Instancing(c) => (c.pos = 3 /\ rule = "opt_array_suffix") \/ c.pos = 7
  <2>1. SUFFICES ASSUME Instancing(c)
                 PROVE  (c.pos = 3 /\ rule = "opt_array_suffix") \/ c.pos = 7
    OBVIOUS
  <2>2. c.pos \in 1 .. 6 \/ c.pos = 7
    <3>1. Len(Grammar[c.rule][c.alt]) = 7
      BY <2>1, InstanceSymbols DEF Instancing
    <3> QED
      BY <3>1
  <2>3. CASE c.pos \in 1 .. 6
    BY <1>1, <2>1, <2>3 DEF Instancing, Placed
  <2> QED
    BY <2>2, <2>3
<1>4. ASSUME c.rule = "opt_array_suffix", c.alt \in DOMAIN Grammar[c.rule]
      PROVE  c.alt = 1 /\ c.pos = 3
  <2>1. PICK g : g = Grammar["opt_array_suffix"]
    OBVIOUS
  <2>2. /\ DOMAIN g = 1 .. 2 /\ Len(g[1]) = 3 /\ Len(g[2]) = 0
        /\ g[1][1] = "[" /\ g[1][2] = "@skip"
    BY <2>1, SuffixSymbols
  <2>3. c.alt = 1 /\ c.pos \in 1 .. 3 /\ rule = g[1][c.pos]
    BY <1>1, <1>4, <2>1, <2>2
  <2>4. c.pos # 1 /\ c.pos # 2
    <3>1. "[" \notin Rules /\ "@skip" \notin Rules
      BY RulesAre
    <3> QED
      BY <2>2, <2>3, <3>1
  <2> QED
    BY <2>3, <2>4
<1> QED
  BY <1>2, <1>3, <1>4

LEMMA ReturnSkips ==
    ASSUME RInv, IInv', UNCHANGED <<schema, save>>, Return,
           NEW n \in Nat \ {0}, Len(calls) = n + 1
    PROVE  Skipping' /\ Here'
<1>1. IInv /\ Waiting
  BY DEF RInv, Replacement
<1>2. PICK c : c = calls[n]
  OBVIOUS
<1>3. /\ Running /\ status = "running" /\ returned = "none" /\ calls # <<>>
      /\ top = calls[n + 1] /\ top.pos = Len(Grammar[top.rule][top.alt]) + 1
      /\ top.rule \in Rules /\ top.alt \in DOMAIN Grammar[top.rule]
      /\ UNCHANGED <<returned, status>>
      /\ top.rule \notin Body => index' = index
      /\ SameFrames(n) /\ top' = calls'[n]
      /\ c \in Frames /\ c.pos \in 1 .. Len(Grammar[c.rule][c.alt])
      /\ c.rule # "emit_nodes" => Symbol(c) = top.rule
      /\ c.rule = "opt_array_suffix" => top.rule = "opt_array_suffix"
      /\ top'.rule = c.rule /\ top'.alt = c.alt /\ top'.mark = c.mark
      /\ c.rule # "emit_nodes" => top'.pos = c.pos + 1
      /\ Placed(c.rule, c.alt, c.pos, Grammar[c.rule][c.alt])
  BY <1>1, <1>2, Returning
<1>4. /\ calls' \in Seq(Frames) /\ Len(calls') = n /\ DOMAIN calls' = 1 .. n
      /\ \A i \in 1 .. n - 1 : calls'[i] = calls[i]
      /\ calls'[n].rule = calls[n].rule /\ calls'[n].mark = calls[n].mark
  <2>1. /\ calls' \in Seq(Frames) /\ Len(calls') = n
        /\ \A i \in 1 .. n - 1 : calls'[i] = calls[i]
        /\ calls'[n].rule = calls[n].rule /\ calls'[n].mark = calls[n].mark
    BY <1>3 DEF SameFrames
  <2> QED
    BY <2>1, NewTop
<1>5. DOMAIN calls = 1 .. n + 1
  BY <1>1, <1>3, Topmost
<1>6. c.rule # "emit_nodes" =>
           /\ Declaring(c) => (c.pos = 2 /\ top.rule = "opt_array_suffix") \/ c.pos = 4
           /\ Instancing(c) => (c.pos = 3 /\ top.rule = "opt_array_suffix") \/ c.pos = 7
           /\ c.rule = "opt_array_suffix" /\ c.alt \in DOMAIN Grammar[c.rule] => c.alt = 1 /\ c.pos = 3
  <2>1. c.pos \in Nat
    BY <1>3 DEF Frames
  <2> QED
    BY <1>3, <2>1, ReturnsTo
<1>7. Skipping'
  <2>1. CASE c.rule # "opt_array_suffix"
    BY <1>2, <1>4, <2>1, NotSkipping
  <2>2. CASE c.rule = "opt_array_suffix"
    <3>1. top.rule = "opt_array_suffix" /\ index' = index
      BY <1>3, <2>2 DEF Body
    <3>2. ~Opens(index) /\ \A i \in DOMAIN calls : OnlySuffixes(i) => Leads(calls[i].mark, index)
      BY <1>3, <3>1, SuffixPassed
    <3>3. c.alt = 1 /\ c.pos = 3
      <4>1. c.alt \in DOMAIN Grammar[c.rule]
        BY <1>1, <1>2, <1>5 DEF IInv, Stacked, Sound
      <4> QED
        BY <1>6, <2>2, <4>1
    <3>4. top'.alt = 1 /\ top'.pos = 4 /\ returned' = "none"
      BY <1>3, <2>2, <3>3
    <3>5. Cursor' = index
      BY <3>1, <3>4 DEF Cursor
    <3>6. ASSUME NEW i \in 1 .. n, OnlySuffixes(i)' PROVE Leads(calls[i].mark, Cursor)'
      <4>1. \A j \in 1 .. n : calls'[j].rule = calls[j].rule /\ calls'[j].mark = calls[j].mark
        <5>1. \A j \in 1 .. n : j \in 1 .. n - 1 \/ j = n
          OBVIOUS
        <5> QED
          BY <1>4, <5>1
      <4>2. OnlySuffixes(i)
        <5>1. \A j \in i .. n + 1 : j = n + 1 \/ (j \in 1 .. n /\ j \in i .. Len(calls'))
          BY <1>4
        <5> QED
          BY <1>3, <3>1, <3>6, <4>1, <5>1 DEF OnlySuffixes
      <4>3. PICK a, b : a = calls[i].mark /\ b = index
        OBVIOUS
      <4>4. Leads(a, b)
        BY <1>5, <3>2, <4>2, <4>3
      <4>5. Leads(a, b)'
        BY <4>4, Schematic
      <4>6. a = calls'[i].mark /\ b = Cursor'
        BY <3>5, <4>1, <4>3
      <4> QED
        BY <4>5, <4>6
    <3>7. ~Opens(Cursor)'
      <4>1. PICK b : b = index
        OBVIOUS
      <4>2. ~Opens(b)'
        BY <3>2, <4>1, Schematic
      <4>3. b = Cursor'
        BY <3>5, <4>1
      <4> QED
        BY <4>2, <4>3
    <3> QED
      BY <1>4, <3>4, <3>6, <3>7 DEF Skipping
  <2> QED
    BY <2>1, <2>2
<1>8. Here'
  <2>1. CASE (Declaring(c) /\ c.pos = 2) \/ (Instancing(c) /\ c.pos = 3)
    <3>1. top.rule = "opt_array_suffix" /\ index' = index
      BY <1>3, <1>6, <2>1 DEF Body, Declaring, Instancing
    <3>2. ~Opens(index) /\ Leads(top.mark, index)
      BY <1>3, <3>1, SuffixPassed
    <3>3. top.mark = c.mark + 1
      <4>1. n \in 1 .. Len(calls) - 1
        OBVIOUS
      <4> QED
        BY <1>1, <1>2, <1>3, <2>1, <3>1, <4>1 DEF Waiting
    <3>4. PICK a, b : a = top.mark /\ b = index
      OBVIOUS
    <3>5. Leads(a, b)' /\ ~Opens(b)'
      BY <3>2, <3>4, Schematic
    <3>6. a = top'.mark + 1 /\ b = index'
      BY <1>3, <3>1, <3>3, <3>4
    <3>7. Leads(top.mark + 1, index)' /\ ~Opens(index)'
      BY <3>5, <3>6
    <3>8. /\ Declaring(top)' => top'.pos = 3
          /\ Instancing(top)' => top'.pos = 4
      BY <1>3, <2>1 DEF Declaring, Instancing
    <3> QED
      BY <3>7, <3>8 DEF Here
  <2>2. CASE ~((Declaring(c) /\ c.pos = 2) \/ (Instancing(c) /\ c.pos = 3))
    <3>1. Declaring(top)' => top'.pos = 5
      <4>1. SUFFICES ASSUME Declaring(top)' PROVE top'.pos = 5
        OBVIOUS
      <4>2. Declaring(c)
        BY <1>3, <4>1 DEF Declaring
      <4>3. c.pos = 4 /\ c.rule # "emit_nodes"
        BY <1>6, <2>2, <4>2 DEF Declaring
      <4> QED
        BY <1>3, <4>3
    <3>2. Instancing(top)' => top'.pos = 8
      <4>1. SUFFICES ASSUME Instancing(top)' PROVE top'.pos = 8
        OBVIOUS
      <4>2. Instancing(c)
        BY <1>3, <4>1 DEF Instancing
      <4>3. c.pos = 7 /\ c.rule # "emit_nodes"
        BY <1>6, <2>2, <4>2 DEF Instancing
      <4> QED
        BY <1>3, <4>3
    <3> QED
      BY <3>1, <3>2 DEF Here
  <2> QED
    BY <2>1, <2>2
<1> QED
  BY <1>7, <1>8

LEMMA ReturnPasses ==
    ASSUME RInv, IInv', UNCHANGED <<schema, save>>, Return,
           NEW n \in Nat \ {0}, Len(calls) = n + 1
    PROVE  Replacing'
<1>1. IInv
  BY DEF RInv
<1>2. PICK c : c = calls[n]
  OBVIOUS
<1>3. /\ Running /\ status = "running" /\ returned = "none" /\ calls # <<>>
      /\ top = calls[n + 1] /\ top.pos = Len(Grammar[top.rule][top.alt]) + 1
      /\ top.alt \in DOMAIN Grammar[top.rule]
      /\ UNCHANGED <<stream, replaced, returned, status>>
      /\ SameFrames(n) /\ top' = calls'[n]
      /\ c \in Frames /\ c.pos \in 1 .. Len(Grammar[c.rule][c.alt])
      /\ c.rule # "emit_nodes" => Symbol(c) = top.rule
      /\ c.rule = "emit_nodes" => c.pos = 3
      /\ top'.rule = c.rule /\ top'.alt = c.alt /\ top'.mark = c.mark
      /\ c.rule # "emit_nodes" => top'.pos = c.pos + 1
      /\ Placed(c.rule, c.alt, c.pos, Grammar[c.rule][c.alt])
  BY <1>1, <1>2, Returning
<1>4. /\ calls' \in Seq(Frames) /\ Len(calls') = n /\ DOMAIN calls' = 1 .. n
      /\ \A i \in 1 .. n - 1 : calls'[i] = calls[i]
  <2>1. /\ calls' \in Seq(Frames) /\ Len(calls') = n
        /\ \A i \in 1 .. n - 1 : calls'[i] = calls[i]
    BY <1>3 DEF SameFrames
  <2> QED
    BY <2>1, NewTop
<1>5. CASE replaced = <<>>
  BY <1>3, <1>5, NoneReplaced
<1>6. CASE replaced # <<>>
  <2>1. PICK s : s = replaced[1].slot
    OBVIOUS
  <2>2. ~(Instancing(top) /\ top.pos = 7)
    <3>1. Instancing(top) => top.pos = 8
      <4>1. SUFFICES ASSUME Instancing(top) PROVE top.pos = 8
        OBVIOUS
      <4>2. Len(Grammar[top.rule][top.alt]) = 7
        BY <4>1, InstanceSymbols DEF Instancing
      <4> QED
        BY <1>3, <4>2
    <3> QED
      BY <3>1
  <2>3. ~(Passing(top, s) /\ top.pos <= 4)
    <3>1. Passing(top, s) => top.pos = 5
      <4>1. SUFFICES ASSUME Declaring(top) PROVE top.pos = 5
        BY DEF Passing
      <4>2. Len(Grammar[top.rule][top.alt]) = 4
        BY <4>1, DefinitionSymbols DEF Declaring
      <4> QED
        BY <1>3, <4>2
    <3> QED
      BY <3>1
  <2>4. ~(top.rule = "emit_nodes" /\ top.pos < 3)
    <3>1. SUFFICES ASSUME top.rule = "emit_nodes" PROVE ~(top.pos < 3)
      OBVIOUS
    <3>2. Len(Grammar[top.rule][top.alt]) = 3
      <4>1. PICK g : g = Grammar["emit_nodes"]
        OBVIOUS
      <4>2. g = <<<<"@declare", "@dimension", "@members">>>>
        <5>1. /\ "emit_nodes" \in DOMAIN BodyRules
              /\ BodyRules["emit_nodes"] = <<<<"@declare", "@dimension", "@members">>>>
          BY TablesHold DEF BodyRules
        <5> QED
          BY <4>1, <5>1, Tables
      <4>3. DOMAIN g = {1} /\ Len(g[1]) = 3
        BY <4>2
      <4> QED
        BY <1>3, <3>1, <4>1, <4>3
    <3> QED
      BY <1>3, <3>2
  <2>5. PICK d \in DOMAIN calls : Instantiating(d) /\ d + 1 < Len(calls) /\ top.rule = "opt_array_suffix"
    BY <1>3, <1>6, <2>1, <2>2, <2>3, <2>4, ReplacedAt
  <2>6. d \in 1 .. n - 1 \/ d + 1 = n + 1
    BY <1>1, <1>3, <2>5, Topmost
  <2>7. d \in 1 .. n - 1
    BY <2>5, <2>6
  <2>8. /\ Instancing(calls[d]) /\ calls[d].pos = 7 /\ calls[d].mark = s
        /\ Passing(calls[d + 1], s) /\ Undeclared(d + 1)
    <3>1. d # Len(calls) /\ d < Len(calls)
      BY <2>7
    <3> QED
      BY <2>1, <2>5, <3>1 DEF Instantiating
  <2>9. Instancing(calls[d])' /\ calls'[d].pos = 7 /\ calls'[d].mark = s
    BY <1>4, <2>7, <2>8 DEF Instancing
  <2>10. c.rule # "emit_nodes"
    BY <1>3, <2>5, <1>1, <1>2, Caller DEF Body
  <2>11. CASE d + 1 < n
    <3>1. calls'[d + 1] = calls[d + 1]
      <4>1. d + 1 \in 1 .. n - 1
        BY <2>7, <2>11
      <4> QED
        BY <1>4, <4>1
    <3>2. PICK f : f = calls[d + 1]
      OBVIOUS
    <3>3. Passing(f, s)'
      BY <1>3, <2>8, <3>2 DEF Passing, Declaring, Misses
    <3>4. Passing(calls[d + 1], s)'
      BY <3>1, <3>2, <3>3
    <3>5. Undeclared(d + 1)'
      <4>1. ASSUME NEW j \in (d + 1) + 1 .. n
            PROVE  \/ calls'[j].rule = "opt_array_suffix"
                   \/ calls'[j].rule = "emit_nodes" /\ calls'[j].pos < 3
        <5>1. j \in (d + 1) + 1 .. Len(calls)
          OBVIOUS
        <5>2. calls[j].rule = "opt_array_suffix" \/ (calls[j].rule = "emit_nodes" /\ calls[j].pos < 3)
          BY <2>8, <5>1 DEF Undeclared
        <5>3. CASE j = n
          BY <1>2, <1>3, <2>10, <5>2, <5>3
        <5>4. CASE j # n
          <6>1. j \in 1 .. n - 1
            BY <2>7, <5>4
          <6> QED
            BY <1>4, <5>2, <6>1
        <5> QED
          BY <5>3, <5>4
      <4> QED
        BY <1>4, <4>1 DEF Undeclared
    <3>6. d # Len(calls') /\ d + 1 # Len(calls') /\ replaced'[1].slot = s
      BY <1>3, <1>4, <2>1, <2>7, <2>11
    <3>7. Instantiating(d)'
      BY <2>9, <3>4, <3>5, <3>6 DEF Instantiating
    <3>8. d \in 1 .. n
      BY <2>7
    <3> QED
      BY <1>4, <3>7, <3>8 DEF Replacing
  <2>12. CASE d + 1 = n
    <3>1. Passing(c, s) /\ Declaring(c)
      BY <1>2, <2>8, <2>12 DEF Passing
    <3>2. c.pos = 2
      <4>1. c.pos \in Nat /\ top.rule \in Rules /\ Symbol(c) = top.rule
        BY <1>3, <2>5, <2>10, RulesAre DEF Frames
      <4>2. c.pos = 2 \/ c.pos = 4
        BY <1>3, <3>1, <4>1, ReturnsTo
      <4>3. c.pos # 4
        <5>1. SUFFICES ASSUME c.pos = 4 PROVE FALSE
          OBVIOUS
        <5>2. Symbol(c) = "emit_nodes"
          BY <3>1, <5>1, DefinitionSymbols DEF Symbol, Declaring
        <5> QED
          BY <2>5, <4>1, <5>2
      <4> QED
        BY <4>2, <4>3
    <3>3. PICK f : f = top'
      OBVIOUS
    <3>4. f.rule = c.rule /\ f.alt = c.alt /\ f.mark = c.mark /\ f.pos = 3
      BY <1>3, <2>10, <3>2, <3>3
    <3>5. Passing(f, s)'
      BY <1>3, <3>1, <3>4 DEF Passing, Declaring, Misses
    <3>6. calls'[d + 1] = f
      BY <1>3, <2>12, <3>3
    <3>7. Passing(calls[d + 1], s)'
      BY <3>5, <3>6
    <3>8. Undeclared(d + 1)'
      BY <1>4, <2>12 DEF Undeclared
    <3>9. /\ d # Len(calls') /\ replaced'[1].slot = s /\ returned' = "none" /\ calls'[d + 1].pos <= 4
      BY <1>3, <1>4, <2>1, <2>7, <3>4, <3>6
    <3>10. Instantiating(d)'
      BY <2>9, <3>7, <3>8, <3>9 DEF Instantiating
    <3>11. d \in 1 .. n
      BY <2>7
    <3> QED
      BY <1>4, <3>10, <3>11 DEF Replacing
  <2> QED
    BY <2>5, <2>11, <2>12
<1> QED
  BY <1>5, <1>6

LEMMA ReturnReplaces ==
    ASSUME RInv, IInv', UNCHANGED <<schema, save>>, Return
    PROVE  Replacement'
<1>1. IInv /\ status = "running" /\ Running /\ Exit(top)
  BY DEF RInv, Return, Running
<1>2. calls # <<>>
  BY <1>1, RunningStack
<1>3. UNCHANGED <<stream, replaced>> /\ StreamIsSchema'
  BY <1>1, <1>2, Exiting, SchemaKept
<1>4. CASE Len(calls) = 1
  <2>1. status' = "done"
    BY <1>4 DEF Return
  <2>2. top.rule = "emit_nodes" /\ top.pos > 2
    BY <1>1, <1>2, <1>4, OnlyRoot
  <2>3. replaced = <<>>
    <3>1. SUFFICES ASSUME replaced # <<>> PROVE FALSE
      OBVIOUS
    <3>2. top.pos \in Nat
      BY <1>1, <1>2, Topmost DEF Frames
    <3>3. ~(top.pos < 3)
      BY <2>2, <3>2
    <3> QED
      BY <1>1, <2>2, <3>1, <3>3, ReplacedAt DEF Instancing, Passing, Declaring
  <2>4. ~Running'
    BY <2>1 DEF Running
  <2> QED
    BY <1>3, <2>1, <2>3, <2>4 DEF Replacement, Settled, Skipping, Here, Waiting, Measured, Replacing, Ended
<1>5. CASE Len(calls) # 1
  <2>1. PICK n \in Nat \ {0} : Len(calls) = n + 1
    <3>1. PICK m \in Nat \ {0} : m = Len(calls)
      BY <1>1, <1>2, Topmost
    <3>2. m - 1 \in Nat \ {0} /\ m = (m - 1) + 1
      BY <1>5, <3>1
    <3> QED
      BY <3>1, <3>2
  <2>2. PICK c : c = calls[n]
    OBVIOUS
  <2>3. /\ SameFrames(n) /\ top' = calls'[n] /\ UNCHANGED <<returned, status>>
        /\ top.pos = Len(Grammar[top.rule][top.alt]) + 1 /\ top.alt \in DOMAIN Grammar[top.rule]
        /\ c \in Frames /\ c.pos \in 1 .. Len(Grammar[c.rule][c.alt])
        /\ c.rule # "emit_nodes" => Symbol(c) = top.rule
        /\ top.rule \in Rules
        /\ top'.rule = c.rule /\ top'.alt = c.alt
        /\ c.rule # "emit_nodes" => top'.pos = c.pos + 1
        /\ Placed(c.rule, c.alt, c.pos, Grammar[c.rule][c.alt])
    <3>1. /\ SameFrames(n) /\ top' = calls'[n] /\ UNCHANGED <<returned, status>>
          /\ top.pos = Len(Grammar[top.rule][top.alt]) + 1 /\ top.alt \in DOMAIN Grammar[top.rule]
          /\ top.rule \in Rules
      BY <1>1, <2>1, <2>2, Returning
    <3>2. /\ c \in Frames /\ c.pos \in 1 .. Len(Grammar[c.rule][c.alt])
          /\ c.rule # "emit_nodes" => Symbol(c) = top.rule
      BY <1>1, <2>1, <2>2, Returning
    <3>3. /\ top'.rule = c.rule /\ top'.alt = c.alt
          /\ c.rule # "emit_nodes" => top'.pos = c.pos + 1
      BY <1>1, <2>1, <2>2, Returning
    <3>4. Placed(c.rule, c.alt, c.pos, Grammar[c.rule][c.alt])
      BY <1>1, <2>1, <2>2, Returning
    <3> QED
      BY <3>1, <3>2, <3>3, <3>4
  <2>4. Skipping' /\ Here' /\ Replacing'
    BY <2>1, ReturnSkips, ReturnPasses
  <2>5. Settled'
    <3>1. top.rule = "instantiating_type" => top.pos = 3
      <4>1. SUFFICES ASSUME top.rule = "instantiating_type" PROVE top.pos = 3
        OBVIOUS
      <4>2. Len(Grammar[top.rule][top.alt]) = 2
        BY <2>3, <4>1, TemplateSymbols
      <4> QED
        BY <2>3, <4>2
    <3>2. Unsettled => top.rule = "template_statement"
      BY <3>1 DEF Unsettled
    <3> QED
      BY <1>1, <1>2, <2>3, <3>2, LeaveSettles
  <2>6. Waiting' /\ Measured'
    <3>1. ~(Instancing(top') /\ top'.pos \in 5 .. 7)
      <4>1. SUFFICES ASSUME Instancing(top') PROVE top'.pos \notin 5 .. 7
        OBVIOUS
      <4>2. Instancing(c) /\ c.rule # "emit_nodes"
        BY <2>3, <4>1 DEF Instancing
      <4>3. c.pos = 3 \/ c.pos = 7
        <5>1. c.pos \in Nat /\ top.rule = Symbol(c)
          BY <2>3, <4>2 DEF Frames
        <5> QED
          BY <2>3, <4>2, <5>1, ReturnsTo
      <4> QED
        BY <2>3, <4>2, <4>3
    <3>2. n \in 1 .. Len(calls)
      BY <2>1
    <3> QED
      BY <1>1, <2>3, <3>1, <3>2, FramesKept
  <2> QED
    BY <1>1, <1>3, <2>3, <2>4, <2>5, <2>6 DEF Replacement, Ended
<1> QED
  BY <1>4, <1>5

-----------------------------------------------------------------------------
(* The whole parse. *)

LEMMA IdleReplaces ==
    ASSUME RInv, UNCHANGED vars
    PROVE  Replacement'
<1>1. /\ UNCHANGED <<schema, stream, index, replaced, calls, returned, status>>
      /\ UNCHANGED templates
  BY DEF vars, tokens, control, contexts
<1>2. /\ \A a, b : Leads(a, b)' <=> Leads(a, b)
      /\ \A a : Opens(a)' <=> Opens(a)
      /\ \A a : Named(a)' <=> Named(a)
  BY <1>1, Schematic
<1>3. Replacement
  BY DEF RInv
<1>4. top' = top /\ Cursor' = Cursor /\ Running' = Running
  BY <1>1 DEF top, Cursor, Running
<1>5. StreamIsSchema' /\ Settled' /\ Ended'
  BY <1>1, <1>3, <1>4 DEF Replacement, StreamIsSchema, Settled, Unsettled, Ended, Slots
<1>6. Skipping'
  <2>1. \A i : OnlySuffixes(i)' <=> OnlySuffixes(i)
    BY <1>1 DEF OnlySuffixes
  <2>2. Skipping
    BY <1>3 DEF Replacement
  <2> QED
    BY <1>1, <1>2, <1>4, <2>1, <2>2 DEF Skipping
<1>7. Here' /\ Waiting' /\ Measured'
  BY <1>1, <1>2, <1>3, <1>4 DEF Replacement, Here, Waiting, Measured, Declaring, Instancing
<1>8. Replacing'
  <2>1. \A d : Instantiating(d)' <=> Instantiating(d)
    BY <1>1 DEF Instantiating, Instancing, Passing, Declaring, Misses, Undeclared
  <2>2. Replacing
    BY <1>3 DEF Replacement
  <2> QED
    BY <1>1, <2>1, <2>2 DEF Replacing
<1> QED
  BY <1>5, <1>6, <1>7, <1>8 DEF Replacement

LEMMA StepReplaces ==
    ASSUME RInv, [Next]_vars
    PROVE  RInv'
<1>1. IInv'
  BY StepKeeps DEF RInv
<1>2. ASSUME Step /\ UNCHANGED <<schema, save>> PROVE Replacement'
  <2>1. CASE Match
    BY <1>1, <1>2, <2>1, MatchReplaces
  <2>2. CASE Call
    BY <1>1, <1>2, <2>2, CallReplaces
  <2>3. CASE Return
    BY <1>1, <1>2, <2>3, ReturnReplaces
  <2>4. CASE Retry
    BY <1>1, <1>2, <2>4, RetryReplaces
  <2>5. CASE GiveUp
    BY <1>1, <1>2, <2>5, GiveUpReplaces
  <2>6. CASE Unwind
    BY <1>1, <1>2, <2>6, UnwindReplaces
  <2>7. CASE Expression \/ If_expression
    BY <1>1, <1>2, <2>7, ExpressionReplaces
  <2>8. CASE Skip
    BY <1>1, <1>2, <2>8, SkipReplaces
  <2>9. CASE Else_condition \/ Choose \/ Assertion
    BY <1>1, <1>2, <2>9, BranchReplaces
  <2>10. CASE Continuation \/ Loop \/ Update \/ Repeat \/ Add \/ Set
    BY <1>1, <1>2, <2>10, LoopReplaces
  <2>11. CASE Instantiate
    BY <1>1, <1>2, <2>11, InstantiateReplaces
  <2>12. CASE Typename
    BY <1>1, <1>2, <2>12, TypenameReplaces
  <2>13. CASE Matches
    BY <1>1, <1>2, <2>13, MatchesReplaces
  <2>14. CASE Rewind
    BY <1>1, <1>2, <2>14, RewindReplaces
  <2>15. CASE Replace
    BY <1>1, <1>2, <2>15, ReplaceReplaces
  <2>16. CASE Declare
    BY <1>1, <1>2, <2>16, DeclareReplaces
  <2>17. CASE Dimension
    BY <1>1, <1>2, <2>17, DimensionReplaces
  <2>18. CASE Emitted \/ ReadLeaf
    BY <1>1, <1>2, <2>18, EmitReplaces
  <2>19. CASE ReadMembers
    BY <1>1, <1>2, <2>19, ReadMembersReplaces
  <2> QED
    BY <1>2, <2>1, <2>2, <2>3, <2>4, <2>5, <2>6, <2>7, <2>8, <2>9, <2>10, <2>11, <2>12, <2>13,
       <2>14, <2>15, <2>16, <2>17, <2>18, <2>19 DEF Step
<1>3. ASSUME UNCHANGED vars PROVE Replacement'
  BY <1>3, IdleReplaces
<1> QED
  BY <1>1, <1>2, <1>3 DEF Next, RInv

(* The parse begins with the root's body still to be read, and no name     *)
(* replaced.                                                               *)
LEMMA BeginsUnreplaced == Init => RInv
<1>1. SUFFICES ASSUME Init PROVE RInv
  OBVIOUS
<1>2. IInv
  BY <1>1, Begins
<1>3. /\ stream = schema.text /\ replaced = <<>> /\ status = "running" /\ templates = <<>>
      /\ calls = <<[Frame("emit_nodes") EXCEPT !.pos = 3, !.todo = <<1>>]>>
  BY <1>1 DEF Init
<1>4. PICK g : g = [Frame("emit_nodes") EXCEPT !.pos = 3, !.todo = <<1>>]
  OBVIOUS
<1>5. g.rule = "emit_nodes"
  BY <1>4 DEF Frame
<1>6. calls = <<g>>
  BY <1>3, <1>4, Zenon
<1>7. Len(calls) = 1 /\ DOMAIN calls = {1} /\ calls[1] = g /\ calls # <<>>
  BY <1>6
<1>8. top = g
  <2>1. top = calls[Len(calls)]
    BY <1>2, <1>7, Topmost
  <2> QED
    BY <1>7, <2>1
<1>9. Skipping
  <2>1. ~OnlySuffixes(1)
    BY <1>5, <1>7 DEF OnlySuffixes
  <2> QED
    BY <1>5, <1>7, <1>8, <2>1 DEF Skipping
<1>10. StreamIsSchema /\ Settled /\ Replacing /\ Ended
  BY <1>3 DEF StreamIsSchema, Settled, Replacing, Ended
<1>11. Here
  BY <1>5, <1>8 DEF Here, Declaring, Instancing
<1>12. Waiting /\ Measured
  BY <1>5, <1>7 DEF Waiting, Measured, Instancing
<1> QED
  BY <1>2, <1>9, <1>10, <1>11, <1>12 DEF RInv, Replacement

LEMMA NoNesting ==
    ASSUME RInv
    PROVE  ReplacementsDoNotNest
<1>1. IInv /\ Replacement
  BY DEF RInv
<1>2. ASSUME Before("@members") \/ status = "done"
      PROVE  stream = schema.text /\ replaced = <<>>
  <2>1. replaced = <<>>
    <3>1. CASE Before("@members")
      <4>1. Running /\ top.pos \in DOMAIN alternative /\ symbol = "@members" /\ status = "running"
        BY <3>1 DEF Before, Running
      <4>2. top.rule = "emit_nodes" /\ top.pos = 3
        BY <1>1, <4>1, Emitting
      <4> QED
        BY <4>1, <4>2, NotReplaced
    <3>2. CASE status = "done"
      BY <1>1, <3>2 DEF Replacement, Ended
    <3> QED
      BY <1>2, <3>1, <3>2
  <2> QED
    BY <1>1, <2>1 DEF Replacement, StreamIsSchema
<1>3. ASSUME Before("@replace")
      PROVE  T!CanReplace
  <2>1. Running /\ top.pos \in DOMAIN alternative /\ symbol = "@replace" /\ status = "running"
    BY <1>3 DEF Before, Running
  <2>2. calls # <<>> /\ index \in Slots /\ Placed(top.rule, top.alt, top.pos, alternative)
        /\ symbol = alternative[top.pos]
    BY <1>1, <2>1, AtHand
  <2>3. Instancing(top) /\ top.pos = 6
    BY <2>1, <2>2 DEF Placed, Instancing
  <2>4. replaced = <<>>
    BY <2>1, <2>3, InstanceStack
  <2>5. index = top.mark
    BY <1>1, <2>1, <2>3 DEF Replacement, Here
  <2>6. alternative[1] = "identifier"
    BY <2>3, InstanceSymbols DEF alternative, Instancing
  <2>7. StillThere(top)
    BY <2>3 DEF StillThere, Instancing
  <2>8. stream[index].type = "identifier"
    BY <1>1, <2>1, <2>2, <2>5, <2>6, <2>7, BeganWith
  <2>9. index \in DOMAIN stream
    BY <1>1, <2>2, SlotsAre
  <2>10. stream[index] \in AnyToken /\ stream[index].value \in Names /\ stream[index].expr = NoExpr
    BY <1>1, <2>8, <2>9 DEF IInv, Streaming
  <2>11. stream[index] \in [type : {"identifier"}, value : Names, expr : {NoExpr}]
    <3>1. PICK t : t = stream[index]
      OBVIOUS
    <3>2. t \in [type : {"identifier"}, value : Names, expr : {NoExpr}]
      BY <2>8, <2>10, <3>1 DEF AnyToken, Tokens, NoToken, Token
    <3> QED
      BY <3>1, <3>2
  <2> QED
    BY <2>4, <2>9, <2>11 DEF T!CanReplace, T!InStream
<1> QED
  BY <1>2, <1>3 DEF ReplacementsDoNotNest

(* Whatever the schema and the save, no type-name is replaced while another *)
(* is: where a body is read, and when the parse has ended, the tokens are   *)
(* the schema's and none is replaced, and at every replacement there is a   *)
(* token of type identifier to replace, so that replace_type_name_token     *)
(* never throws (parser-phase-two.cpp:993-997).                             *)
THEOREM ReplacementsNeverNest == Spec => []ReplacementsDoNotNest
<1>1. Init => RInv
  BY BeginsUnreplaced
<1>2. RInv /\ [Next]_vars => RInv'
  BY StepReplaces
<1>3. RInv => ReplacementsDoNotNest
  BY NoNesting
<1> QED
  BY <1>1, <1>2, <1>3, PTL DEF Spec
=============================================================================
