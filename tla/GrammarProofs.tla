---------------------------- MODULE GrammarProofs ----------------------------
(***************************************************************************)
(* Where the productions of phase two have the symbols that the invariant  *)
(* of PhaseTwoProofs tells apart: which production calls which, and what   *)
(* stands before an action.  A production per case; nothing here is about  *)
(* a state.                                                                *)
(***************************************************************************)
EXTENDS PhaseTwo, TLAPS

(* The productions within an if, and within the instantiation of a template. *)
InIf == {"if_block", "opt_elif_block", "elif_block", "opt_else_block", "conditional_block"}

InTemplate == {"template_members", "template_definition", "template_block_or_statement",
               "opt_template_block_or_statement", "template_definition_statement",
               "bracketed_typename", "instantiating_type"}

(* What may stand at p in t, the a-th alternative of the production r. *)
Placed(r, a, p, t) ==
    /\ t[p] \notin Body
    /\ t[p] \in InIf => r \in InIf \cup {"if_elif_else_block"}
    /\ t[p] \in InTemplate => r \in InTemplate \cup {"template_statement"}
    /\ t[p] = "emit_nodes" =>
         \/ r = "template_statement" /\ p = 7 /\ t[6] = "identifier"
         \/ r = "definition_statement" /\ a < 5 /\ p = 4 /\ t[3] = "identifier"
    /\ r = "emit_nodes" => a = 1 /\ Len(t) = 3 /\ t[p] \in {"@declare", "@dimension", "@members"}
    /\ t[p] = "@declare" <=> r = "emit_nodes" /\ p = 1
    /\ t[p] = "@dimension" <=> r = "emit_nodes" /\ p = 2
    /\ t[p] = "@members" <=> r = "emit_nodes" /\ p = 3
    /\ t[p] = "@choose" => r = "conditional_block" /\ t[Len(t)] = "}"
    /\ t[p] = "instantiating_type" => r = "template_statement" /\ p = 3
    /\ t[p] = "@instantiate" =>
         r = "instantiating_type" /\ p = 2 /\ t[1] \in {"int", "enum", "string", "struct"}
    /\ t[p] = "@typename" => r \in InTemplate /\ p = 3 /\ t[2] = "identifier"
    /\ t[p] = "@replace" => r = "template_definition_statement" /\ a = 1 /\ p = 6
    /\ t[p] = "@skip" => r = "opt_array_suffix" /\ a = 1 /\ p = 2
    /\ t[p] = "@matches" => r = "template_definition_statement" /\ a = 1 /\ p = 2
    /\ t[p] = "@rewind" => r = "template_definition_statement" /\ a = 1 /\ p = 5
    /\ t[p] = "@add" => r = "for_assignment" /\ p = 4
    /\ t[p] = "for_assignment" => r = "for_loop_block"
    /\ t[p] \in {"@loop", "@update", "@repeat"} => r = "for_loop_block"
    /\ r = "for_loop_block" =>
         /\ Len(t) = 15 /\ t[5] = "@continuation" /\ t[6] = "for_continuation"
         /\ t[8] = "@loop" /\ t[15] = "@repeat"
         /\ t[p] = "for_continuation" => p = 6
         /\ t[p] = "@update" => p = 12
         /\ t[p] = "@repeat" => p = 15
         /\ t[p] = "@loop" => p = 8
    /\ r = "for_assignment" => t[1] = "identifier" /\ t[p] \notin Rules
    /\ r = "opt_array_suffix" /\ t[p] \in Rules => t[p] = "opt_array_suffix"
    /\ r = "definition_statement" /\ a < 5 =>
         /\ t[1] \in {"int", "enum", "string", "struct"} /\ Len(t) = 4
         /\ t[p] \in Rules =>
              \/ t[p] = "emit_nodes" /\ p = 4
              \/ t[p] = "opt_array_suffix" /\ p = 2
    /\ r = "template_definition_statement" /\ a = 1 /\ p \in 1 .. 6 =>
         /\ t[1] = "identifier"
         /\ t[p] \in Rules => p = 3 /\ t[p] = "opt_array_suffix"

LEMMA TablesHold ==
    /\ DOMAIN BodyRules = {"emit_nodes", "struct_members", "template_members"}
    /\ DOMAIN StatementRules = {"assert_statement", "block_or_statement", "bracketed_typename", "conditional_block", "control_block"}
    /\ DOMAIN DefinitionRules = {"definition_statement", "template_statement", "elif_block"}
    /\ DOMAIN LoopRules = {"for_assignment", "for_continuation", "for_loop_block", "for_update"}
    /\ DOMAIN IfRules = {"if_block", "if_elif_else_block", "instantiating_type"}
    /\ DOMAIN OptionalRules = {"opt_array_suffix", "opt_block_or_statement", "opt_elif_block", "opt_else_block", "opt_template_block_or_statement"}
    /\ DOMAIN TemplateRules = {"struct_definition", "template_block_or_statement", "template_definition", "template_definition_statement"}
<1> QED
  BY Zenon DEF BodyRules, StatementRules, DefinitionRules, LoopRules, IfRules, OptionalRules, TemplateRules

LEMMA RulesAre ==
    Rules = {"emit_nodes", "struct_members", "template_members", "assert_statement", "block_or_statement", "bracketed_typename", "conditional_block", "control_block", "definition_statement", "template_statement", "elif_block", "for_assignment", "for_continuation", "for_loop_block", "for_update", "if_block", "if_elif_else_block", "instantiating_type", "opt_array_suffix", "opt_block_or_statement", "opt_elif_block", "opt_else_block", "opt_template_block_or_statement", "struct_definition", "template_block_or_statement", "template_definition", "template_definition_statement"}
<1> QED
  BY TablesHold, Zenon DEF Rules

LEMMA Tables ==
    /\ \A r \in DOMAIN BodyRules : Grammar[r] = BodyRules[r]
    /\ \A r \in DOMAIN StatementRules : Grammar[r] = StatementRules[r]
    /\ \A r \in DOMAIN DefinitionRules : Grammar[r] = DefinitionRules[r]
    /\ \A r \in DOMAIN LoopRules : Grammar[r] = LoopRules[r]
    /\ \A r \in DOMAIN IfRules : Grammar[r] = IfRules[r]
    /\ \A r \in DOMAIN OptionalRules : Grammar[r] = OptionalRules[r]
    /\ \A r \in DOMAIN TemplateRules : Grammar[r] = TemplateRules[r]
<1> QED
  BY TablesHold DEF Grammar, Rules

Counted(alternatives) ==
    /\ Len(alternatives) \in Nat \ {0} /\ DOMAIN alternatives = 1 .. Len(alternatives)
    /\ \A a \in DOMAIN alternatives :
         Len(alternatives[a]) \in Nat /\ DOMAIN alternatives[a] = 1 .. Len(alternatives[a])

LEMMA UpTo ==
    /\ \A p \in 1 .. 1 : p = 1
    /\ \A p \in 1 .. 3 : p = 1 \/ p = 2 \/ p = 3
    /\ \A p \in 1 .. 4 : p = 1 \/ p = 2 \/ p = 3 \/ p = 4
    /\ \A p \in 1 .. 7 : p = 1 \/ p = 2 \/ p = 3 \/ p = 4 \/ p = 5 \/ p = 6 \/ p = 7
    /\ \A p \in 1 .. 15 : p = 1 \/ p = 2 \/ p = 3 \/ p = 4 \/ p = 5 \/ p = 6 \/ p = 7 \/ p = 8 \/ p = 9 \/ p = 10 \/ p = 11 \/ p = 12 \/ p = 13 \/ p = 14 \/ p = 15
  OBVIOUS

LEMMA EmitNodes_1 ==
    ASSUME NEW r, r = "emit_nodes", NEW a, a = 1, NEW p \in 1 .. 3, NEW t,
           t = <<"@declare", "@dimension", "@members">>
    PROVE  Placed(r, a, p, t)
<1>1. Len(t) = 3
  OBVIOUS
<1>2. CASE p = 1
  BY <1>1, <1>2, RulesAre DEF Placed, Body, InIf, InTemplate, Terminals
<1>3. CASE p = 2
  BY <1>1, <1>3, RulesAre DEF Placed, Body, InIf, InTemplate, Terminals
<1>4. CASE p = 3
  BY <1>1, <1>4, RulesAre DEF Placed, Body, InIf, InTemplate, Terminals
<1> QED
  BY <1>2, <1>3, <1>4, UpTo, Zenon

LEMMA ConditionalBlock_1 ==
    ASSUME NEW r, r = "conditional_block", NEW a, a = 1, NEW p \in 1 .. 4, NEW t,
           t = <<"@choose", "{", "opt_block_or_statement", "}">>
    PROVE  Placed(r, a, p, t)
<1>1. Len(t) = 4
  OBVIOUS
<1>2. CASE p = 1
  BY <1>1, <1>2, RulesAre DEF Placed, Body, InIf, InTemplate, Terminals
<1>3. CASE p = 2
  BY <1>1, <1>3, RulesAre DEF Placed, Body, InIf, InTemplate, Terminals
<1>4. CASE p = 3
  BY <1>1, <1>4, RulesAre DEF Placed, Body, InIf, InTemplate, Terminals
<1>5. CASE p = 4
  BY <1>1, <1>5, RulesAre DEF Placed, Body, InIf, InTemplate, Terminals
<1> QED
  BY <1>2, <1>3, <1>4, <1>5, UpTo, Zenon

LEMMA DefinitionStatement_1 ==
    ASSUME NEW r, r = "definition_statement", NEW a, a = 1, NEW p \in 1 .. 4, NEW t,
           t = <<"int", "opt_array_suffix", "identifier", "emit_nodes">>
    PROVE  Placed(r, a, p, t)
<1>1. Len(t) = 4
  OBVIOUS
<1>2. CASE p = 1
  BY <1>1, <1>2, RulesAre DEF Placed, Body, InIf, InTemplate, Terminals
<1>3. CASE p = 2
  BY <1>1, <1>3, RulesAre DEF Placed, Body, InIf, InTemplate, Terminals
<1>4. CASE p = 3
  BY <1>1, <1>4, RulesAre DEF Placed, Body, InIf, InTemplate, Terminals
<1>5. CASE p = 4
  BY <1>1, <1>5, RulesAre DEF Placed, Body, InIf, InTemplate, Terminals
<1> QED
  BY <1>2, <1>3, <1>4, <1>5, UpTo, Zenon

LEMMA DefinitionStatement_2 ==
    ASSUME NEW r, r = "definition_statement", NEW a, a = 2, NEW p \in 1 .. 4, NEW t,
           t = <<"enum", "opt_array_suffix", "identifier", "emit_nodes">>
    PROVE  Placed(r, a, p, t)
<1>1. Len(t) = 4
  OBVIOUS
<1>2. CASE p = 1
  BY <1>1, <1>2, RulesAre DEF Placed, Body, InIf, InTemplate, Terminals
<1>3. CASE p = 2
  BY <1>1, <1>3, RulesAre DEF Placed, Body, InIf, InTemplate, Terminals
<1>4. CASE p = 3
  BY <1>1, <1>4, RulesAre DEF Placed, Body, InIf, InTemplate, Terminals
<1>5. CASE p = 4
  BY <1>1, <1>5, RulesAre DEF Placed, Body, InIf, InTemplate, Terminals
<1> QED
  BY <1>2, <1>3, <1>4, <1>5, UpTo, Zenon

LEMMA DefinitionStatement_3 ==
    ASSUME NEW r, r = "definition_statement", NEW a, a = 3, NEW p \in 1 .. 4, NEW t,
           t = <<"string", "opt_array_suffix", "identifier", "emit_nodes">>
    PROVE  Placed(r, a, p, t)
<1>1. Len(t) = 4
  OBVIOUS
<1>2. CASE p = 1
  BY <1>1, <1>2, RulesAre DEF Placed, Body, InIf, InTemplate, Terminals
<1>3. CASE p = 2
  BY <1>1, <1>3, RulesAre DEF Placed, Body, InIf, InTemplate, Terminals
<1>4. CASE p = 3
  BY <1>1, <1>4, RulesAre DEF Placed, Body, InIf, InTemplate, Terminals
<1>5. CASE p = 4
  BY <1>1, <1>5, RulesAre DEF Placed, Body, InIf, InTemplate, Terminals
<1> QED
  BY <1>2, <1>3, <1>4, <1>5, UpTo, Zenon

LEMMA DefinitionStatement_4 ==
    ASSUME NEW r, r = "definition_statement", NEW a, a = 4, NEW p \in 1 .. 4, NEW t,
           t = <<"struct", "opt_array_suffix", "identifier", "emit_nodes">>
    PROVE  Placed(r, a, p, t)
<1>1. Len(t) = 4
  OBVIOUS
<1>2. CASE p = 1
  BY <1>1, <1>2, RulesAre DEF Placed, Body, InIf, InTemplate, Terminals
<1>3. CASE p = 2
  BY <1>1, <1>3, RulesAre DEF Placed, Body, InIf, InTemplate, Terminals
<1>4. CASE p = 3
  BY <1>1, <1>4, RulesAre DEF Placed, Body, InIf, InTemplate, Terminals
<1>5. CASE p = 4
  BY <1>1, <1>5, RulesAre DEF Placed, Body, InIf, InTemplate, Terminals
<1> QED
  BY <1>2, <1>3, <1>4, <1>5, UpTo, Zenon

LEMMA DefinitionStatement_5 ==
    ASSUME NEW r, r = "definition_statement", NEW a, a = 5, NEW p \in 1 .. 1, NEW t,
           t = <<"template_statement">>
    PROVE  Placed(r, a, p, t)
<1>1. Len(t) = 1
  OBVIOUS
<1>2. CASE p = 1
  BY <1>1, <1>2, RulesAre DEF Placed, Body, InIf, InTemplate, Terminals
<1> QED
  BY <1>2, UpTo, Zenon

LEMMA TemplateStatement_1 ==
    ASSUME NEW r, r = "template_statement", NEW a, a = 1, NEW p \in 1 .. 7, NEW t,
           t = <<"template", "<", "instantiating_type", ">",
                             "opt_array_suffix", "identifier", "emit_nodes">>
    PROVE  Placed(r, a, p, t)
<1>1. Len(t) = 7
  OBVIOUS
<1>2. CASE p = 1
  BY <1>1, <1>2, RulesAre DEF Placed, Body, InIf, InTemplate, Terminals
<1>3. CASE p = 2
  BY <1>1, <1>3, RulesAre DEF Placed, Body, InIf, InTemplate, Terminals
<1>4. CASE p = 3
  BY <1>1, <1>4, RulesAre DEF Placed, Body, InIf, InTemplate, Terminals
<1>5. CASE p = 4
  BY <1>1, <1>5, RulesAre DEF Placed, Body, InIf, InTemplate, Terminals
<1>6. CASE p = 5
  BY <1>1, <1>6, RulesAre DEF Placed, Body, InIf, InTemplate, Terminals
<1>7. CASE p = 6
  BY <1>1, <1>7, RulesAre DEF Placed, Body, InIf, InTemplate, Terminals
<1>8. CASE p = 7
  BY <1>1, <1>8, RulesAre DEF Placed, Body, InIf, InTemplate, Terminals
<1> QED
  BY <1>2, <1>3, <1>4, <1>5, <1>6, <1>7, <1>8, UpTo, Zenon

LEMMA ForLoopBlock_1 ==
    ASSUME NEW r, r = "for_loop_block", NEW a, a = 1, NEW p \in 1 .. 15, NEW t,
           t = <<"for", "(", "for_assignment", ";", "@continuation",
                             "for_continuation", ";", "@loop", "{",
                             "opt_block_or_statement", "}", "@update", "for_update", ")",
                             "@repeat">>
    PROVE  Placed(r, a, p, t)
<1>1. Len(t) = 15
  OBVIOUS
<1>2. CASE p = 1
  BY <1>1, <1>2, RulesAre DEF Placed, Body, InIf, InTemplate, Terminals
<1>3. CASE p = 2
  BY <1>1, <1>3, RulesAre DEF Placed, Body, InIf, InTemplate, Terminals
<1>4. CASE p = 3
  BY <1>1, <1>4, RulesAre DEF Placed, Body, InIf, InTemplate, Terminals
<1>5. CASE p = 4
  BY <1>1, <1>5, RulesAre DEF Placed, Body, InIf, InTemplate, Terminals
<1>6. CASE p = 5
  BY <1>1, <1>6, RulesAre DEF Placed, Body, InIf, InTemplate, Terminals
<1>7. CASE p = 6
  BY <1>1, <1>7, RulesAre DEF Placed, Body, InIf, InTemplate, Terminals
<1>8. CASE p = 7
  BY <1>1, <1>8, RulesAre DEF Placed, Body, InIf, InTemplate, Terminals
<1>9. CASE p = 8
  BY <1>1, <1>9, RulesAre DEF Placed, Body, InIf, InTemplate, Terminals
<1>10. CASE p = 9
  BY <1>1, <1>10, RulesAre DEF Placed, Body, InIf, InTemplate, Terminals
<1>11. CASE p = 10
  BY <1>1, <1>11, RulesAre DEF Placed, Body, InIf, InTemplate, Terminals
<1>12. CASE p = 11
  BY <1>1, <1>12, RulesAre DEF Placed, Body, InIf, InTemplate, Terminals
<1>13. CASE p = 12
  BY <1>1, <1>13, RulesAre DEF Placed, Body, InIf, InTemplate, Terminals
<1>14. CASE p = 13
  BY <1>1, <1>14, RulesAre DEF Placed, Body, InIf, InTemplate, Terminals
<1>15. CASE p = 14
  BY <1>1, <1>15, RulesAre DEF Placed, Body, InIf, InTemplate, Terminals
<1>16. CASE p = 15
  BY <1>1, <1>16, RulesAre DEF Placed, Body, InIf, InTemplate, Terminals
<1> QED
  BY <1>2, <1>3, <1>4, <1>5, <1>6, <1>7, <1>8, <1>9, <1>10, <1>11, <1>12, <1>13, <1>14, <1>15, <1>16, UpTo, Zenon

LEMMA StructDefinition_1 ==
    ASSUME NEW r, r = "struct_definition", NEW a, a = 1, NEW p \in 1 .. 4, NEW t,
           t = <<"{", "block_or_statement", "opt_block_or_statement", "}">>
    PROVE  Placed(r, a, p, t)
<1>1. Len(t) = 4
  OBVIOUS
<1>2. CASE p = 1
  BY <1>1, <1>2, RulesAre DEF Placed, Body, InIf, InTemplate, Terminals
<1>3. CASE p = 2
  BY <1>1, <1>3, RulesAre DEF Placed, Body, InIf, InTemplate, Terminals
<1>4. CASE p = 3
  BY <1>1, <1>4, RulesAre DEF Placed, Body, InIf, InTemplate, Terminals
<1>5. CASE p = 4
  BY <1>1, <1>5, RulesAre DEF Placed, Body, InIf, InTemplate, Terminals
<1> QED
  BY <1>2, <1>3, <1>4, <1>5, UpTo, Zenon

LEMMA TemplateBlockOrStatement_1 ==
    ASSUME NEW r, r = "template_block_or_statement", NEW a, a = 1, NEW p \in 1 .. 1, NEW t,
           t = <<"template_definition_statement">>
    PROVE  Placed(r, a, p, t)
<1>1. Len(t) = 1
  OBVIOUS
<1>2. CASE p = 1
  BY <1>1, <1>2, RulesAre DEF Placed, Body, InIf, InTemplate, Terminals
<1> QED
  BY <1>2, UpTo, Zenon

LEMMA TemplateBlockOrStatement_2 ==
    ASSUME NEW r, r = "template_block_or_statement", NEW a, a = 2, NEW p \in 1 .. 1, NEW t,
           t = <<"control_block">>
    PROVE  Placed(r, a, p, t)
<1>1. Len(t) = 1
  OBVIOUS
<1>2. CASE p = 1
  BY <1>1, <1>2, RulesAre DEF Placed, Body, InIf, InTemplate, Terminals
<1> QED
  BY <1>2, UpTo, Zenon

LEMMA TemplateBlockOrStatement_3 ==
    ASSUME NEW r, r = "template_block_or_statement", NEW a, a = 3, NEW p \in 1 .. 1, NEW t,
           t = <<"assert_statement">>
    PROVE  Placed(r, a, p, t)
<1>1. Len(t) = 1
  OBVIOUS
<1>2. CASE p = 1
  BY <1>1, <1>2, RulesAre DEF Placed, Body, InIf, InTemplate, Terminals
<1> QED
  BY <1>2, UpTo, Zenon

LEMMA TemplateDefinition_1 ==
    ASSUME NEW r, r = "template_definition", NEW a, a = 1, NEW p \in 1 .. 4, NEW t,
           t = <<"{", "template_block_or_statement",
                             "opt_template_block_or_statement", "}">>
    PROVE  Placed(r, a, p, t)
<1>1. Len(t) = 4
  OBVIOUS
<1>2. CASE p = 1
  BY <1>1, <1>2, RulesAre DEF Placed, Body, InIf, InTemplate, Terminals
<1>3. CASE p = 2
  BY <1>1, <1>3, RulesAre DEF Placed, Body, InIf, InTemplate, Terminals
<1>4. CASE p = 3
  BY <1>1, <1>4, RulesAre DEF Placed, Body, InIf, InTemplate, Terminals
<1>5. CASE p = 4
  BY <1>1, <1>5, RulesAre DEF Placed, Body, InIf, InTemplate, Terminals
<1> QED
  BY <1>2, <1>3, <1>4, <1>5, UpTo, Zenon

LEMMA TemplateDefinitionStatement_1 ==
    ASSUME NEW r, r = "template_definition_statement", NEW a, a = 1, NEW p \in 1 .. 7, NEW t,
           t = <<"identifier", "@matches", "opt_array_suffix",
                             "identifier", "@rewind", "@replace",
                             "definition_statement">>
    PROVE  Placed(r, a, p, t)
<1>1. Len(t) = 7
  OBVIOUS
<1>2. CASE p = 1
  BY <1>1, <1>2, RulesAre DEF Placed, Body, InIf, InTemplate, Terminals
<1>3. CASE p = 2
  BY <1>1, <1>3, RulesAre DEF Placed, Body, InIf, InTemplate, Terminals
<1>4. CASE p = 3
  BY <1>1, <1>4, RulesAre DEF Placed, Body, InIf, InTemplate, Terminals
<1>5. CASE p = 4
  BY <1>1, <1>5, RulesAre DEF Placed, Body, InIf, InTemplate, Terminals
<1>6. CASE p = 5
  BY <1>1, <1>6, RulesAre DEF Placed, Body, InIf, InTemplate, Terminals
<1>7. CASE p = 6
  BY <1>1, <1>7, RulesAre DEF Placed, Body, InIf, InTemplate, Terminals
<1>8. CASE p = 7
  BY <1>1, <1>8, RulesAre DEF Placed, Body, InIf, InTemplate, Terminals
<1> QED
  BY <1>2, <1>3, <1>4, <1>5, <1>6, <1>7, <1>8, UpTo, Zenon

LEMMA TemplateDefinitionStatement_2 ==
    ASSUME NEW r, r = "template_definition_statement", NEW a, a = 2, NEW p \in 1 .. 1, NEW t,
           t = <<"definition_statement">>
    PROVE  Placed(r, a, p, t)
<1>1. Len(t) = 1
  OBVIOUS
<1>2. CASE p = 1
  BY <1>1, <1>2, RulesAre DEF Placed, Body, InIf, InTemplate, Terminals
<1> QED
  BY <1>2, UpTo, Zenon

LEMMA BodyRulesPlaced ==
    ASSUME NEW r \in DOMAIN BodyRules
    PROVE  /\ Counted(BodyRules[r])
           /\ \A a \in DOMAIN BodyRules[r] : \A p \in DOMAIN BodyRules[r][a] : Placed(r, a, p, BodyRules[r][a])
<1>1. CASE r = "emit_nodes"
  <2>1. /\ Len(BodyRules[r]) = 1 /\ DOMAIN BodyRules[r] = 1 .. 1
        /\ Len(BodyRules[r][1]) = 3 /\ DOMAIN BodyRules[r][1] = 1 .. 3
    BY <1>1 DEF BodyRules
  <2>2. ASSUME NEW a \in DOMAIN BodyRules[r], NEW p \in DOMAIN BodyRules[r][a]
        PROVE  Placed(r, a, p, BodyRules[r][a])
    <3>1. CASE a = 1
      <4>1. p \in 1 .. 3 /\ BodyRules[r][a] = <<"@declare", "@dimension", "@members">>
        BY <1>1, <2>1, <3>1 DEF BodyRules
      <4> QED
        BY <4>1, <1>1, <3>1, EmitNodes_1
    <3> QED
      BY <2>1, <3>1
  <2> QED
    BY <2>1, <2>2 DEF Counted
<1>2. CASE r = "struct_members"
  <2>1. /\ Len(BodyRules[r]) = 1 /\ DOMAIN BodyRules[r] = 1 .. 1
        /\ Len(BodyRules[r][1]) = 1 /\ DOMAIN BodyRules[r][1] = 1 .. 1
    BY <1>2 DEF BodyRules
  <2>2. \A a \in DOMAIN BodyRules[r] : \A p \in DOMAIN BodyRules[r][a] : Placed(r, a, p, BodyRules[r][a])
    BY <1>2, <2>1, RulesAre DEF BodyRules, Placed, Body, InIf, InTemplate, Terminals
  <2> QED
    BY <2>1, <2>2 DEF Counted
<1>3. CASE r = "template_members"
  <2>1. /\ Len(BodyRules[r]) = 1 /\ DOMAIN BodyRules[r] = 1 .. 1
        /\ Len(BodyRules[r][1]) = 2 /\ DOMAIN BodyRules[r][1] = 1 .. 2
    BY <1>3 DEF BodyRules
  <2>2. \A a \in DOMAIN BodyRules[r] : \A p \in DOMAIN BodyRules[r][a] : Placed(r, a, p, BodyRules[r][a])
    BY <1>3, <2>1, RulesAre DEF BodyRules, Placed, Body, InIf, InTemplate, Terminals
  <2> QED
    BY <2>1, <2>2 DEF Counted
<1> QED
  BY TablesHold, <1>1, <1>2, <1>3

LEMMA StatementRulesPlaced ==
    ASSUME NEW r \in DOMAIN StatementRules
    PROVE  /\ Counted(StatementRules[r])
           /\ \A a \in DOMAIN StatementRules[r] : \A p \in DOMAIN StatementRules[r][a] : Placed(r, a, p, StatementRules[r][a])
<1>1. CASE r = "assert_statement"
  <2>1. /\ Len(StatementRules[r]) = 1 /\ DOMAIN StatementRules[r] = 1 .. 1
        /\ Len(StatementRules[r][1]) = 5 /\ DOMAIN StatementRules[r][1] = 1 .. 5
    BY <1>1 DEF StatementRules
  <2>2. \A a \in DOMAIN StatementRules[r] : \A p \in DOMAIN StatementRules[r][a] : Placed(r, a, p, StatementRules[r][a])
    BY <1>1, <2>1, RulesAre DEF StatementRules, Placed, Body, InIf, InTemplate, Terminals
  <2> QED
    BY <2>1, <2>2 DEF Counted
<1>2. CASE r = "block_or_statement"
  <2>1. /\ Len(StatementRules[r]) = 3 /\ DOMAIN StatementRules[r] = 1 .. 3
        /\ Len(StatementRules[r][1]) = 1 /\ DOMAIN StatementRules[r][1] = 1 .. 1
        /\ Len(StatementRules[r][2]) = 1 /\ DOMAIN StatementRules[r][2] = 1 .. 1
        /\ Len(StatementRules[r][3]) = 1 /\ DOMAIN StatementRules[r][3] = 1 .. 1
    BY <1>2 DEF StatementRules
  <2>2. \A a \in DOMAIN StatementRules[r] : \A p \in DOMAIN StatementRules[r][a] : Placed(r, a, p, StatementRules[r][a])
    BY <1>2, <2>1, RulesAre DEF StatementRules, Placed, Body, InIf, InTemplate, Terminals
  <2> QED
    BY <2>1, <2>2 DEF Counted
<1>3. CASE r = "bracketed_typename"
  <2>1. /\ Len(StatementRules[r]) = 1 /\ DOMAIN StatementRules[r] = 1 .. 1
        /\ Len(StatementRules[r][1]) = 4 /\ DOMAIN StatementRules[r][1] = 1 .. 4
    BY <1>3 DEF StatementRules
  <2>2. \A a \in DOMAIN StatementRules[r] : \A p \in DOMAIN StatementRules[r][a] : Placed(r, a, p, StatementRules[r][a])
    BY <1>3, <2>1, RulesAre DEF StatementRules, Placed, Body, InIf, InTemplate, Terminals
  <2> QED
    BY <2>1, <2>2 DEF Counted
<1>4. CASE r = "conditional_block"
  <2>1. /\ Len(StatementRules[r]) = 1 /\ DOMAIN StatementRules[r] = 1 .. 1
        /\ Len(StatementRules[r][1]) = 4 /\ DOMAIN StatementRules[r][1] = 1 .. 4
    BY <1>4 DEF StatementRules
  <2>2. ASSUME NEW a \in DOMAIN StatementRules[r], NEW p \in DOMAIN StatementRules[r][a]
        PROVE  Placed(r, a, p, StatementRules[r][a])
    <3>1. CASE a = 1
      <4>1. p \in 1 .. 4 /\ StatementRules[r][a] = <<"@choose", "{", "opt_block_or_statement", "}">>
        BY <1>4, <2>1, <3>1 DEF StatementRules
      <4> QED
        BY <4>1, <1>4, <3>1, ConditionalBlock_1
    <3> QED
      BY <2>1, <3>1
  <2> QED
    BY <2>1, <2>2 DEF Counted
<1>5. CASE r = "control_block"
  <2>1. /\ Len(StatementRules[r]) = 2 /\ DOMAIN StatementRules[r] = 1 .. 2
        /\ Len(StatementRules[r][1]) = 1 /\ DOMAIN StatementRules[r][1] = 1 .. 1
        /\ Len(StatementRules[r][2]) = 1 /\ DOMAIN StatementRules[r][2] = 1 .. 1
    BY <1>5 DEF StatementRules
  <2>2. \A a \in DOMAIN StatementRules[r] : \A p \in DOMAIN StatementRules[r][a] : Placed(r, a, p, StatementRules[r][a])
    BY <1>5, <2>1, RulesAre DEF StatementRules, Placed, Body, InIf, InTemplate, Terminals
  <2> QED
    BY <2>1, <2>2 DEF Counted
<1> QED
  BY TablesHold, <1>1, <1>2, <1>3, <1>4, <1>5

LEMMA DefinitionRulesPlaced ==
    ASSUME NEW r \in DOMAIN DefinitionRules
    PROVE  /\ Counted(DefinitionRules[r])
           /\ \A a \in DOMAIN DefinitionRules[r] : \A p \in DOMAIN DefinitionRules[r][a] : Placed(r, a, p, DefinitionRules[r][a])
<1>1. CASE r = "definition_statement"
  <2>1. /\ Len(DefinitionRules[r]) = 5 /\ DOMAIN DefinitionRules[r] = 1 .. 5
        /\ Len(DefinitionRules[r][1]) = 4 /\ DOMAIN DefinitionRules[r][1] = 1 .. 4
        /\ Len(DefinitionRules[r][2]) = 4 /\ DOMAIN DefinitionRules[r][2] = 1 .. 4
        /\ Len(DefinitionRules[r][3]) = 4 /\ DOMAIN DefinitionRules[r][3] = 1 .. 4
        /\ Len(DefinitionRules[r][4]) = 4 /\ DOMAIN DefinitionRules[r][4] = 1 .. 4
        /\ Len(DefinitionRules[r][5]) = 1 /\ DOMAIN DefinitionRules[r][5] = 1 .. 1
    BY <1>1 DEF DefinitionRules
  <2>2. ASSUME NEW a \in DOMAIN DefinitionRules[r], NEW p \in DOMAIN DefinitionRules[r][a]
        PROVE  Placed(r, a, p, DefinitionRules[r][a])
    <3>1. CASE a = 1
      <4>1. p \in 1 .. 4 /\ DefinitionRules[r][a] = <<"int", "opt_array_suffix", "identifier", "emit_nodes">>
        BY <1>1, <2>1, <3>1 DEF DefinitionRules
      <4> QED
        BY <4>1, <1>1, <3>1, DefinitionStatement_1
    <3>2. CASE a = 2
      <4>1. p \in 1 .. 4 /\ DefinitionRules[r][a] = <<"enum", "opt_array_suffix", "identifier", "emit_nodes">>
        BY <1>1, <2>1, <3>2 DEF DefinitionRules
      <4> QED
        BY <4>1, <1>1, <3>2, DefinitionStatement_2
    <3>3. CASE a = 3
      <4>1. p \in 1 .. 4 /\ DefinitionRules[r][a] = <<"string", "opt_array_suffix", "identifier", "emit_nodes">>
        BY <1>1, <2>1, <3>3 DEF DefinitionRules
      <4> QED
        BY <4>1, <1>1, <3>3, DefinitionStatement_3
    <3>4. CASE a = 4
      <4>1. p \in 1 .. 4 /\ DefinitionRules[r][a] = <<"struct", "opt_array_suffix", "identifier", "emit_nodes">>
        BY <1>1, <2>1, <3>4 DEF DefinitionRules
      <4> QED
        BY <4>1, <1>1, <3>4, DefinitionStatement_4
    <3>5. CASE a = 5
      <4>1. p \in 1 .. 1 /\ DefinitionRules[r][a] = <<"template_statement">>
        BY <1>1, <2>1, <3>5 DEF DefinitionRules
      <4> QED
        BY <4>1, <1>1, <3>5, DefinitionStatement_5
    <3> QED
      BY <2>1, <3>1, <3>2, <3>3, <3>4, <3>5
  <2> QED
    BY <2>1, <2>2 DEF Counted
<1>2. CASE r = "template_statement"
  <2>1. /\ Len(DefinitionRules[r]) = 1 /\ DOMAIN DefinitionRules[r] = 1 .. 1
        /\ Len(DefinitionRules[r][1]) = 7 /\ DOMAIN DefinitionRules[r][1] = 1 .. 7
    BY <1>2 DEF DefinitionRules
  <2>2. ASSUME NEW a \in DOMAIN DefinitionRules[r], NEW p \in DOMAIN DefinitionRules[r][a]
        PROVE  Placed(r, a, p, DefinitionRules[r][a])
    <3>1. CASE a = 1
      <4>1. p \in 1 .. 7 /\ DefinitionRules[r][a] = <<"template", "<", "instantiating_type", ">",
                             "opt_array_suffix", "identifier", "emit_nodes">>
        BY <1>2, <2>1, <3>1 DEF DefinitionRules
      <4> QED
        BY <4>1, <1>2, <3>1, TemplateStatement_1
    <3> QED
      BY <2>1, <3>1
  <2> QED
    BY <2>1, <2>2 DEF Counted
<1>3. CASE r = "elif_block"
  <2>1. /\ Len(DefinitionRules[r]) = 1 /\ DOMAIN DefinitionRules[r] = 1 .. 1
        /\ Len(DefinitionRules[r][1]) = 5 /\ DOMAIN DefinitionRules[r][1] = 1 .. 5
    BY <1>3 DEF DefinitionRules
  <2>2. \A a \in DOMAIN DefinitionRules[r] : \A p \in DOMAIN DefinitionRules[r][a] : Placed(r, a, p, DefinitionRules[r][a])
    BY <1>3, <2>1, RulesAre DEF DefinitionRules, Placed, Body, InIf, InTemplate, Terminals
  <2> QED
    BY <2>1, <2>2 DEF Counted
<1> QED
  BY TablesHold, <1>1, <1>2, <1>3

LEMMA LoopRulesPlaced ==
    ASSUME NEW r \in DOMAIN LoopRules
    PROVE  /\ Counted(LoopRules[r])
           /\ \A a \in DOMAIN LoopRules[r] : \A p \in DOMAIN LoopRules[r][a] : Placed(r, a, p, LoopRules[r][a])
<1>1. CASE r = "for_assignment"
  <2>1. /\ Len(LoopRules[r]) = 1 /\ DOMAIN LoopRules[r] = 1 .. 1
        /\ Len(LoopRules[r][1]) = 4 /\ DOMAIN LoopRules[r][1] = 1 .. 4
    BY <1>1 DEF LoopRules
  <2>2. \A a \in DOMAIN LoopRules[r] : \A p \in DOMAIN LoopRules[r][a] : Placed(r, a, p, LoopRules[r][a])
    BY <1>1, <2>1, RulesAre DEF LoopRules, Placed, Body, InIf, InTemplate, Terminals
  <2> QED
    BY <2>1, <2>2 DEF Counted
<1>2. CASE r = "for_continuation"
  <2>1. /\ Len(LoopRules[r]) = 1 /\ DOMAIN LoopRules[r] = 1 .. 1
        /\ Len(LoopRules[r][1]) = 1 /\ DOMAIN LoopRules[r][1] = 1 .. 1
    BY <1>2 DEF LoopRules
  <2>2. \A a \in DOMAIN LoopRules[r] : \A p \in DOMAIN LoopRules[r][a] : Placed(r, a, p, LoopRules[r][a])
    BY <1>2, <2>1, RulesAre DEF LoopRules, Placed, Body, InIf, InTemplate, Terminals
  <2> QED
    BY <2>1, <2>2 DEF Counted
<1>3. CASE r = "for_loop_block"
  <2>1. /\ Len(LoopRules[r]) = 1 /\ DOMAIN LoopRules[r] = 1 .. 1
        /\ Len(LoopRules[r][1]) = 15 /\ DOMAIN LoopRules[r][1] = 1 .. 15
    BY <1>3 DEF LoopRules
  <2>2. ASSUME NEW a \in DOMAIN LoopRules[r], NEW p \in DOMAIN LoopRules[r][a]
        PROVE  Placed(r, a, p, LoopRules[r][a])
    <3>1. CASE a = 1
      <4>1. p \in 1 .. 15 /\ LoopRules[r][a] = <<"for", "(", "for_assignment", ";", "@continuation",
                             "for_continuation", ";", "@loop", "{",
                             "opt_block_or_statement", "}", "@update", "for_update", ")",
                             "@repeat">>
        BY <1>3, <2>1, <3>1 DEF LoopRules
      <4> QED
        BY <4>1, <1>3, <3>1, ForLoopBlock_1
    <3> QED
      BY <2>1, <3>1
  <2> QED
    BY <2>1, <2>2 DEF Counted
<1>4. CASE r = "for_update"
  <2>1. /\ Len(LoopRules[r]) = 1 /\ DOMAIN LoopRules[r] = 1 .. 1
        /\ Len(LoopRules[r][1]) = 4 /\ DOMAIN LoopRules[r][1] = 1 .. 4
    BY <1>4 DEF LoopRules
  <2>2. \A a \in DOMAIN LoopRules[r] : \A p \in DOMAIN LoopRules[r][a] : Placed(r, a, p, LoopRules[r][a])
    BY <1>4, <2>1, RulesAre DEF LoopRules, Placed, Body, InIf, InTemplate, Terminals
  <2> QED
    BY <2>1, <2>2 DEF Counted
<1> QED
  BY TablesHold, <1>1, <1>2, <1>3, <1>4

LEMMA IfRulesPlaced ==
    ASSUME NEW r \in DOMAIN IfRules
    PROVE  /\ Counted(IfRules[r])
           /\ \A a \in DOMAIN IfRules[r] : \A p \in DOMAIN IfRules[r][a] : Placed(r, a, p, IfRules[r][a])
<1>1. CASE r = "if_block"
  <2>1. /\ Len(IfRules[r]) = 1 /\ DOMAIN IfRules[r] = 1 .. 1
        /\ Len(IfRules[r][1]) = 5 /\ DOMAIN IfRules[r][1] = 1 .. 5
    BY <1>1 DEF IfRules
  <2>2. \A a \in DOMAIN IfRules[r] : \A p \in DOMAIN IfRules[r][a] : Placed(r, a, p, IfRules[r][a])
    BY <1>1, <2>1, RulesAre DEF IfRules, Placed, Body, InIf, InTemplate, Terminals
  <2> QED
    BY <2>1, <2>2 DEF Counted
<1>2. CASE r = "if_elif_else_block"
  <2>1. /\ Len(IfRules[r]) = 1 /\ DOMAIN IfRules[r] = 1 .. 1
        /\ Len(IfRules[r][1]) = 3 /\ DOMAIN IfRules[r][1] = 1 .. 3
    BY <1>2 DEF IfRules
  <2>2. \A a \in DOMAIN IfRules[r] : \A p \in DOMAIN IfRules[r][a] : Placed(r, a, p, IfRules[r][a])
    BY <1>2, <2>1, RulesAre DEF IfRules, Placed, Body, InIf, InTemplate, Terminals
  <2> QED
    BY <2>1, <2>2 DEF Counted
<1>3. CASE r = "instantiating_type"
  <2>1. /\ Len(IfRules[r]) = 4 /\ DOMAIN IfRules[r] = 1 .. 4
        /\ Len(IfRules[r][1]) = 2 /\ DOMAIN IfRules[r][1] = 1 .. 2
        /\ Len(IfRules[r][2]) = 2 /\ DOMAIN IfRules[r][2] = 1 .. 2
        /\ Len(IfRules[r][3]) = 2 /\ DOMAIN IfRules[r][3] = 1 .. 2
        /\ Len(IfRules[r][4]) = 2 /\ DOMAIN IfRules[r][4] = 1 .. 2
    BY <1>3 DEF IfRules
  <2>2. \A a \in DOMAIN IfRules[r] : \A p \in DOMAIN IfRules[r][a] : Placed(r, a, p, IfRules[r][a])
    BY <1>3, <2>1, RulesAre DEF IfRules, Placed, Body, InIf, InTemplate, Terminals
  <2> QED
    BY <2>1, <2>2 DEF Counted
<1> QED
  BY TablesHold, <1>1, <1>2, <1>3

LEMMA OptionalRulesPlaced ==
    ASSUME NEW r \in DOMAIN OptionalRules
    PROVE  /\ Counted(OptionalRules[r])
           /\ \A a \in DOMAIN OptionalRules[r] : \A p \in DOMAIN OptionalRules[r][a] : Placed(r, a, p, OptionalRules[r][a])
<1>1. CASE r = "opt_array_suffix"
  <2>1. /\ Len(OptionalRules[r]) = 2 /\ DOMAIN OptionalRules[r] = 1 .. 2
        /\ Len(OptionalRules[r][1]) = 3 /\ DOMAIN OptionalRules[r][1] = 1 .. 3
        /\ Len(OptionalRules[r][2]) = 0 /\ DOMAIN OptionalRules[r][2] = 1 .. 0
    BY <1>1 DEF OptionalRules, opt
  <2>2. \A a \in DOMAIN OptionalRules[r] : \A p \in DOMAIN OptionalRules[r][a] : Placed(r, a, p, OptionalRules[r][a])
    BY <1>1, <2>1, RulesAre DEF OptionalRules, Placed, Body, InIf, InTemplate, Terminals, opt
  <2> QED
    BY <2>1, <2>2 DEF Counted
<1>2. CASE r = "opt_block_or_statement"
  <2>1. /\ Len(OptionalRules[r]) = 2 /\ DOMAIN OptionalRules[r] = 1 .. 2
        /\ Len(OptionalRules[r][1]) = 2 /\ DOMAIN OptionalRules[r][1] = 1 .. 2
        /\ Len(OptionalRules[r][2]) = 0 /\ DOMAIN OptionalRules[r][2] = 1 .. 0
    BY <1>2 DEF OptionalRules, opt
  <2>2. \A a \in DOMAIN OptionalRules[r] : \A p \in DOMAIN OptionalRules[r][a] : Placed(r, a, p, OptionalRules[r][a])
    BY <1>2, <2>1, RulesAre DEF OptionalRules, Placed, Body, InIf, InTemplate, Terminals, opt
  <2> QED
    BY <2>1, <2>2 DEF Counted
<1>3. CASE r = "opt_elif_block"
  <2>1. /\ Len(OptionalRules[r]) = 2 /\ DOMAIN OptionalRules[r] = 1 .. 2
        /\ Len(OptionalRules[r][1]) = 2 /\ DOMAIN OptionalRules[r][1] = 1 .. 2
        /\ Len(OptionalRules[r][2]) = 0 /\ DOMAIN OptionalRules[r][2] = 1 .. 0
    BY <1>3 DEF OptionalRules, opt
  <2>2. \A a \in DOMAIN OptionalRules[r] : \A p \in DOMAIN OptionalRules[r][a] : Placed(r, a, p, OptionalRules[r][a])
    BY <1>3, <2>1, RulesAre DEF OptionalRules, Placed, Body, InIf, InTemplate, Terminals, opt
  <2> QED
    BY <2>1, <2>2 DEF Counted
<1>4. CASE r = "opt_else_block"
  <2>1. /\ Len(OptionalRules[r]) = 2 /\ DOMAIN OptionalRules[r] = 1 .. 2
        /\ Len(OptionalRules[r][1]) = 3 /\ DOMAIN OptionalRules[r][1] = 1 .. 3
        /\ Len(OptionalRules[r][2]) = 0 /\ DOMAIN OptionalRules[r][2] = 1 .. 0
    BY <1>4 DEF OptionalRules, opt
  <2>2. \A a \in DOMAIN OptionalRules[r] : \A p \in DOMAIN OptionalRules[r][a] : Placed(r, a, p, OptionalRules[r][a])
    BY <1>4, <2>1, RulesAre DEF OptionalRules, Placed, Body, InIf, InTemplate, Terminals, opt
  <2> QED
    BY <2>1, <2>2 DEF Counted
<1>5. CASE r = "opt_template_block_or_statement"
  <2>1. /\ Len(OptionalRules[r]) = 2 /\ DOMAIN OptionalRules[r] = 1 .. 2
        /\ Len(OptionalRules[r][1]) = 2 /\ DOMAIN OptionalRules[r][1] = 1 .. 2
        /\ Len(OptionalRules[r][2]) = 0 /\ DOMAIN OptionalRules[r][2] = 1 .. 0
    BY <1>5 DEF OptionalRules, opt
  <2>2. \A a \in DOMAIN OptionalRules[r] : \A p \in DOMAIN OptionalRules[r][a] : Placed(r, a, p, OptionalRules[r][a])
    BY <1>5, <2>1, RulesAre DEF OptionalRules, Placed, Body, InIf, InTemplate, Terminals, opt
  <2> QED
    BY <2>1, <2>2 DEF Counted
<1> QED
  BY TablesHold, <1>1, <1>2, <1>3, <1>4, <1>5

LEMMA TemplateRulesPlaced ==
    ASSUME NEW r \in DOMAIN TemplateRules
    PROVE  /\ Counted(TemplateRules[r])
           /\ \A a \in DOMAIN TemplateRules[r] : \A p \in DOMAIN TemplateRules[r][a] : Placed(r, a, p, TemplateRules[r][a])
<1>1. CASE r = "struct_definition"
  <2>1. /\ Len(TemplateRules[r]) = 1 /\ DOMAIN TemplateRules[r] = 1 .. 1
        /\ Len(TemplateRules[r][1]) = 4 /\ DOMAIN TemplateRules[r][1] = 1 .. 4
    BY <1>1 DEF TemplateRules
  <2>2. ASSUME NEW a \in DOMAIN TemplateRules[r], NEW p \in DOMAIN TemplateRules[r][a]
        PROVE  Placed(r, a, p, TemplateRules[r][a])
    <3>1. CASE a = 1
      <4>1. p \in 1 .. 4 /\ TemplateRules[r][a] = <<"{", "block_or_statement", "opt_block_or_statement", "}">>
        BY <1>1, <2>1, <3>1 DEF TemplateRules
      <4> QED
        BY <4>1, <1>1, <3>1, StructDefinition_1
    <3> QED
      BY <2>1, <3>1
  <2> QED
    BY <2>1, <2>2 DEF Counted
<1>2. CASE r = "template_block_or_statement"
  <2>1. /\ Len(TemplateRules[r]) = 3 /\ DOMAIN TemplateRules[r] = 1 .. 3
        /\ Len(TemplateRules[r][1]) = 1 /\ DOMAIN TemplateRules[r][1] = 1 .. 1
        /\ Len(TemplateRules[r][2]) = 1 /\ DOMAIN TemplateRules[r][2] = 1 .. 1
        /\ Len(TemplateRules[r][3]) = 1 /\ DOMAIN TemplateRules[r][3] = 1 .. 1
    BY <1>2 DEF TemplateRules
  <2>2. ASSUME NEW a \in DOMAIN TemplateRules[r], NEW p \in DOMAIN TemplateRules[r][a]
        PROVE  Placed(r, a, p, TemplateRules[r][a])
    <3>1. CASE a = 1
      <4>1. p \in 1 .. 1 /\ TemplateRules[r][a] = <<"template_definition_statement">>
        BY <1>2, <2>1, <3>1 DEF TemplateRules
      <4> QED
        BY <4>1, <1>2, <3>1, TemplateBlockOrStatement_1
    <3>2. CASE a = 2
      <4>1. p \in 1 .. 1 /\ TemplateRules[r][a] = <<"control_block">>
        BY <1>2, <2>1, <3>2 DEF TemplateRules
      <4> QED
        BY <4>1, <1>2, <3>2, TemplateBlockOrStatement_2
    <3>3. CASE a = 3
      <4>1. p \in 1 .. 1 /\ TemplateRules[r][a] = <<"assert_statement">>
        BY <1>2, <2>1, <3>3 DEF TemplateRules
      <4> QED
        BY <4>1, <1>2, <3>3, TemplateBlockOrStatement_3
    <3> QED
      BY <2>1, <3>1, <3>2, <3>3
  <2> QED
    BY <2>1, <2>2 DEF Counted
<1>3. CASE r = "template_definition"
  <2>1. /\ Len(TemplateRules[r]) = 1 /\ DOMAIN TemplateRules[r] = 1 .. 1
        /\ Len(TemplateRules[r][1]) = 4 /\ DOMAIN TemplateRules[r][1] = 1 .. 4
    BY <1>3 DEF TemplateRules
  <2>2. ASSUME NEW a \in DOMAIN TemplateRules[r], NEW p \in DOMAIN TemplateRules[r][a]
        PROVE  Placed(r, a, p, TemplateRules[r][a])
    <3>1. CASE a = 1
      <4>1. p \in 1 .. 4 /\ TemplateRules[r][a] = <<"{", "template_block_or_statement",
                             "opt_template_block_or_statement", "}">>
        BY <1>3, <2>1, <3>1 DEF TemplateRules
      <4> QED
        BY <4>1, <1>3, <3>1, TemplateDefinition_1
    <3> QED
      BY <2>1, <3>1
  <2> QED
    BY <2>1, <2>2 DEF Counted
<1>4. CASE r = "template_definition_statement"
  <2>1. /\ Len(TemplateRules[r]) = 2 /\ DOMAIN TemplateRules[r] = 1 .. 2
        /\ Len(TemplateRules[r][1]) = 7 /\ DOMAIN TemplateRules[r][1] = 1 .. 7
        /\ Len(TemplateRules[r][2]) = 1 /\ DOMAIN TemplateRules[r][2] = 1 .. 1
    BY <1>4 DEF TemplateRules
  <2>2. ASSUME NEW a \in DOMAIN TemplateRules[r], NEW p \in DOMAIN TemplateRules[r][a]
        PROVE  Placed(r, a, p, TemplateRules[r][a])
    <3>1. CASE a = 1
      <4>1. p \in 1 .. 7 /\ TemplateRules[r][a] = <<"identifier", "@matches", "opt_array_suffix",
                             "identifier", "@rewind", "@replace",
                             "definition_statement">>
        BY <1>4, <2>1, <3>1 DEF TemplateRules
      <4> QED
        BY <4>1, <1>4, <3>1, TemplateDefinitionStatement_1
    <3>2. CASE a = 2
      <4>1. p \in 1 .. 1 /\ TemplateRules[r][a] = <<"definition_statement">>
        BY <1>4, <2>1, <3>2 DEF TemplateRules
      <4> QED
        BY <4>1, <1>4, <3>2, TemplateDefinitionStatement_2
    <3> QED
      BY <2>1, <3>1, <3>2
  <2> QED
    BY <2>1, <2>2 DEF Counted
<1> QED
  BY TablesHold, <1>1, <1>2, <1>3, <1>4

LEMMA GrammarPlaced ==
    ASSUME NEW r \in Rules
    PROVE  /\ Counted(Grammar[r])
           /\ \A a \in DOMAIN Grammar[r] : \A p \in DOMAIN Grammar[r][a] : Placed(r, a, p, Grammar[r][a])
<1>1. CASE r \in DOMAIN BodyRules
  BY <1>1, Tables, BodyRulesPlaced
<1>2. CASE r \in DOMAIN StatementRules
  BY <1>2, Tables, StatementRulesPlaced
<1>3. CASE r \in DOMAIN DefinitionRules
  BY <1>3, Tables, DefinitionRulesPlaced
<1>4. CASE r \in DOMAIN LoopRules
  BY <1>4, Tables, LoopRulesPlaced
<1>5. CASE r \in DOMAIN IfRules
  BY <1>5, Tables, IfRulesPlaced
<1>6. CASE r \in DOMAIN OptionalRules
  BY <1>6, Tables, OptionalRulesPlaced
<1>7. CASE r \in DOMAIN TemplateRules
  BY <1>7, Tables, TemplateRulesPlaced
<1> QED
  BY <1>1, <1>2, <1>3, <1>4, <1>5, <1>6, <1>7 DEF Rules

LEMMA Alternatives ==
    ASSUME NEW r \in Rules, NEW a \in DOMAIN Grammar[r]
    PROVE  /\ Len(Grammar[r][a]) \in Nat /\ DOMAIN Grammar[r][a] = 1 .. Len(Grammar[r][a])
           /\ \A p \in DOMAIN Grammar[r][a] : Placed(r, a, p, Grammar[r][a])
  BY GrammarPlaced DEF Counted

LEMMA FirstAlternative ==
    ASSUME NEW r \in Rules
    PROVE  /\ 1 \in DOMAIN Grammar[r]
           /\ \A a \in DOMAIN Grammar[r] : a < Len(Grammar[r]) => a + 1 \in DOMAIN Grammar[r]
           /\ DOMAIN Grammar[r] \subseteq Nat
  BY GrammarPlaced DEF Counted

LEMMA GrammarRules == DOMAIN Grammar = Rules
  BY Zenon DEF Grammar
=============================================================================
