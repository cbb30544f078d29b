------------------------------ MODULE PhaseTwo ------------------------------
(***************************************************************************)
(* Parser_phase_two: the schema is interpreted while it is parsed.  A      *)
(* production that succeeds has read fields of the save and added nodes to *)
(* the property tree; one that fails has its caller move the cursor back   *)
(* and try the next alternative.  The C++ call stack is the sequence       *)
(* calls; an exception unwinds it, running the destructors of the          *)
(* auto_pop, auto_parent and auto_index objects on the way.                *)
(* An expression is one token here; the module of the expression parser    *)
(* opens it.                                                               *)
(***************************************************************************)
EXTENDS Integers, Sequences, FiniteSets, SequencesExt

CONSTANTS
    Schemas,     \* what phase one makes of the schemas: a set of
                 \* [text : the tokens, structs, templates : name -> slot, root]
    Saves,       \* the sequences of fields the decompressed saves hold
    Names, Dotted, EnumRefs, TreeNames, Values, NonInteger, Enumerators, Consts,
                 \* as in Resolution
    Paths,       \* a dotted name -> the two names it joins
    EnumValues,  \* the values the enumerators of the enum types have
    MaxArray     \* limits::max_array_dimension

Operations == {"lit", "var", "less", "plus"}

(* Of the tokens of type expr, expr is the expression; the others have none. *)
NoExpr == [op |-> "none", name |-> "", other |-> "", value |-> 0]
Expressions == [op : Operations \cup {"none"}, name : STRING, other : STRING, value : Int]
Tokens == [type : STRING, value : STRING, expr : Expressions]

(* The lexer ends every text with meta_eos; the slots of the definitions   *)
(* are those phase one saw their bodies at.                                *)
ASSUME SchemasAssumption ==
    \A s \in Schemas :
      /\ s.root \in STRING
      /\ s.text \in Seq(Tokens) /\ s.text # <<>>
      /\ s.text[Len(s.text)].type = "eos"
      /\ \A i \in DOMAIN s.text :
           /\ s.text[i].type = "identifier" => s.text[i].value \in Names /\ s.text[i].expr = NoExpr
           /\ s.text[i].type = "expr" => s.text[i].expr.op \in Operations
      /\ \A n \in DOMAIN s.structs : s.structs[n] \in DOMAIN s.text
      /\ \A n \in DOMAIN s.templates : s.templates[n] \in DOMAIN s.text

ASSUME SavesAssumption == \A s \in Saves : s \in Seq(Int)

ASSUME ValuesAssumption ==
    /\ NonInteger \notin Int
    /\ \A n \in DOMAIN Enumerators : Enumerators[n] \in Int
    /\ \A n \in DOMAIN Consts : Consts[n] \in Int

VARIABLES
    schema, save,            \* the inputs of the parse
    stream, index, bad, replaced, \* the Tokenizer
    calls,                   \* the productions being run, outermost first
    returned,                \* "fail" while a production returns false
    status,                  \* "running", "throwing", "done" or "failed"
    value,                   \* the value of the last expression
    ifs,                     \* m_if_context_stack: the fulfilled flags
    templates,               \* m_template_context_stack
    nodes,                   \* the property tree, in the order nodes were added
    parent,                  \* m_ptree_parent; 0 is the root
    read,                    \* how many fields of the save have been read
    lookup, scopes           \* the Variable_manager

tokens   == <<stream, index, bad, replaced>>
control  == <<calls, returned, status>>
contexts == <<ifs, templates>>
output   == <<nodes, parent, read>>
tables   == <<lookup, scopes>>
vars     == <<schema, save, tokens, control, value, contexts, output, tables>>

Token(type, name) == [type |-> type, value |-> name, expr |-> NoExpr]
NoToken == Token("invalid", "")

-----------------------------------------------------------------------------
(* The tree as ptree::find and get_child_optional see it. *)

None == -1

FirstChild(p, name) ==
    LET found == {i \in DOMAIN nodes : nodes[i].parent = p /\ nodes[i].name = name}
    IN  IF found = {} THEN None ELSE Min(found)

At(p, name) == IF name \in DOMAIN Paths
               THEN FirstChild(FirstChild(p, Paths[name][1]), Paths[name][2])
               ELSE FirstChild(p, name)

Tree == [p \in 0 .. Len(nodes) |->
           [n \in {m \in TreeNames : At(p, m) # None} |-> nodes[At(p, n)].data]]

V == INSTANCE VariableManager WITH
       Nodes <- Nat, Root <- 0, MaxScopes <- 0, tree <- Tree, outcome <- 0

T == INSTANCE Tokenizer WITH
       Tokens <- {}, Identifiers <- [type : {"identifier"}, value : Names, expr : {NoExpr}],
       Types <- {}, Texts <- {}, Reused <- FALSE, MaxGuards <- 0, MaxOverrun <- 0,
       saved <- <<>>, text <- schema.text, threw <- FALSE

Apply(op, a, b) == IF op = "plus" THEN a + b ELSE IF a < b THEN 1 ELSE 0

Eval(e) ==
    LET a == V!get(e.name)
        b == V!get(e.other)
    IN  CASE e.op = "lit" -> V!Value(e.value)
          [] e.op = "var" -> a
          [] e.op \in {"less", "plus"} ->
               IF V!Threw \in {a, b} THEN V!Threw
               ELSE V!Value(Apply(e.op, a.value, b.value))

-----------------------------------------------------------------------------
(* The productions: alternatives of terminals, productions, and the        *)
(* actions "@..." the code takes between them.  Token and type categories  *)
(* that phase two treats alike are one terminal: int, enum and string      *)
(* stand for the integer, enum and string-like types.  An int token whose  *)
(* value is bool is the type of that name, which is checked when read.     *)

opt(rule, self) == <<<<rule, self>>, <<>>>>

(* The body of an aggregate's definition, parsed by emit_nodes_. *)
BodyRules == [
  emit_nodes           |-> <<<<"@declare", "@dimension", "@members">>>>,
  struct_members       |-> <<<<"struct_definition">>>>,
  template_members     |-> <<<<"bracketed_typename", "template_definition">>>>]

StatementRules == [
  assert_statement     |-> <<<<"assert", "(", "@expression", ")", "@assert">>>>,
  block_or_statement   |-> <<<<"definition_statement">>, <<"control_block">>,
                             <<"assert_statement">>>>,
  bracketed_typename   |-> <<<<"<", "identifier", "@typename", ">">>>>,
  conditional_block    |-> <<<<"@choose", "{", "opt_block_or_statement", "}">>>>,
  control_block        |-> <<<<"if_elif_else_block">>, <<"for_loop_block">>>>]

DefinitionRules == [
  definition_statement |-> <<<<"int", "opt_array_suffix", "identifier", "emit_nodes">>,
                             <<"enum", "opt_array_suffix", "identifier", "emit_nodes">>,
                             <<"string", "opt_array_suffix", "identifier", "emit_nodes">>,
                             <<"struct", "opt_array_suffix", "identifier", "emit_nodes">>,
                             <<"template_statement">>>>,
  template_statement   |-> <<<<"template", "<", "instantiating_type", ">",
                               "opt_array_suffix", "identifier", "emit_nodes">>>>,
  elif_block           |-> <<<<"elif", "(", "@if_expression", ")", "conditional_block">>>>]

LoopRules == [
  for_assignment       |-> <<<<"identifier", "=", "@expression", "@add">>>>,
  for_continuation     |-> <<<<"@expression">>>>,
  for_loop_block       |-> <<<<"for", "(", "for_assignment", ";",
                               "@continuation", "for_continuation", ";", "@loop",
                               "{", "opt_block_or_statement", "}",
                               "@update", "for_update", ")", "@repeat">>>>,
  for_update           |-> <<<<"identifier", "=", "@expression", "@set">>>>]

IfRules == [
  if_block             |-> <<<<"if", "(", "@if_expression", ")", "conditional_block">>>>,
  if_elif_else_block   |-> <<<<"if_block", "opt_elif_block", "opt_else_block">>>>,
  instantiating_type   |-> <<<<"int", "@instantiate">>, <<"enum", "@instantiate">>,
                             <<"string", "@instantiate">>, <<"struct", "@instantiate">>>>]

OptionalRules == [
  opt_array_suffix       |-> <<<<"[", "@skip", "opt_array_suffix">>, <<>>>>,
  opt_block_or_statement |-> opt("block_or_statement", "opt_block_or_statement"),
  opt_elif_block         |-> opt("elif_block", "opt_elif_block"),
  opt_else_block         |-> <<<<"else", "@true", "conditional_block">>, <<>>>>,
  opt_template_block_or_statement |->
                        opt("template_block_or_statement", "opt_template_block_or_statement")]

TemplateRules == [
  struct_definition    |-> <<<<"{", "block_or_statement", "opt_block_or_statement", "}">>>>,
  template_block_or_statement |-> <<<<"template_definition_statement">>,
                                    <<"control_block">>, <<"assert_statement">>>>,
  template_definition  |-> <<<<"{", "template_block_or_statement",
                               "opt_template_block_or_statement", "}">>>>,
  template_definition_statement |->
                           <<<<"identifier", "@matches", "opt_array_suffix", "identifier",
                               "@rewind", "@replace", "definition_statement">>,
                             <<"definition_statement">>>>]

Rules == DOMAIN BodyRules \cup DOMAIN StatementRules \cup DOMAIN DefinitionRules
           \cup DOMAIN LoopRules \cup DOMAIN IfRules \cup DOMAIN OptionalRules \cup DOMAIN TemplateRules

Grammar == [rule \in Rules |->
    CASE rule \in DOMAIN BodyRules -> BodyRules[rule]
      [] rule \in DOMAIN StatementRules -> StatementRules[rule]
      [] rule \in DOMAIN DefinitionRules -> DefinitionRules[rule]
      [] rule \in DOMAIN LoopRules -> LoopRules[rule]
      [] rule \in DOMAIN IfRules -> IfRules[rule]
      [] rule \in DOMAIN OptionalRules -> OptionalRules[rule]
      [] rule \in DOMAIN TemplateRules -> TemplateRules[rule]]

Terminals == {"{", "}", "(", ")", "[", "]", "<", ">", "=", ";", "identifier", "int",
              "enum", "string", "struct", "template", "if", "elif", "else", "for", "assert"}

Body == {"struct_members", "template_members"}

-----------------------------------------------------------------------------
(* The call stack.  mark is the cursor at the call, outer the parent node. *)

Frame(rule) == [rule |-> rule, alt |-> 1, pos |-> 1, mark |-> index, outer |-> parent,
                todo |-> <<>>, continuation |-> 0, update |-> 0]

top         == Last(calls)
alternative == Grammar[top.rule][top.alt]
symbol      == alternative[top.pos]
Running     == status = "running" /\ returned = "none"
Before(s)   == Running /\ top.pos \in DOMAIN alternative /\ symbol = s

Replaced(frame) == [calls EXCEPT ![Len(calls)] = frame]
Moved(frame)    == IF frame.rule = "emit_nodes" /\ frame.pos = 3
                   THEN [frame EXCEPT !.todo = Tail(@)]
                   ELSE [frame EXCEPT !.pos = @ + 1]

Advance == calls' = Replaced(Moved(top)) /\ UNCHANGED <<returned, status>>
Goto(p) == calls' = Replaced([top EXCEPT !.pos = p]) /\ UNCHANGED <<returned, status>>
Fails   == returned' = "fail" /\ UNCHANGED <<calls, status>>
Throws  == status' = "throwing" /\ returned' = "none" /\ UNCHANGED calls

next         == T!next /\ UNCHANGED <<stream, bad, replaced>>
set_index(i) == T!set_index(i) /\ UNCHANGED <<stream, bad, replaced>>

(* What a production does on entry, and its destructors on every exit. *)
Enter(rule) ==
    /\ ifs' = IF rule = "if_elif_else_block" THEN Append(ifs, FALSE) ELSE ifs
    /\ templates' = IF rule = "template_statement"
                    THEN Append(templates, [type_name |-> NoToken, type |-> NoToken])
                    ELSE templates
    /\ IF rule = "for_loop_block" THEN V!push ELSE UNCHANGED tables

Exit(frame) ==
    /\ ifs' = IF frame.rule = "if_elif_else_block" THEN Front(ifs) ELSE ifs
    /\ templates' = IF frame.rule = "template_statement" THEN Front(templates) ELSE templates
    /\ IF frame.rule = "for_loop_block" THEN V!pop ELSE UNCHANGED tables
    /\ IF frame.rule \in Body
       THEN T!set_index_noexcept(frame.mark) /\ parent' = frame.outer
       ELSE UNCHANGED <<index, bad, parent>>
    /\ UNCHANGED <<stream, replaced, nodes, read, value>>

Call ==
    /\ Running
    /\ top.pos \in DOMAIN alternative
    /\ symbol \in DOMAIN Grammar
    /\ calls' = Append(calls, Frame(symbol))
    /\ Enter(symbol)
    /\ UNCHANGED <<tokens, returned, status, value, output>>

Return ==
    /\ Running
    /\ top.pos > Len(alternative)
    /\ Exit(top)
    /\ calls' = IF Len(calls) = 1 THEN <<>>
                ELSE Append(Front(Front(calls)), Moved(calls[Len(calls) - 1]))
    /\ status' = IF Len(calls) = 1 THEN "done" ELSE "running"
    /\ UNCHANGED returned

(* A production whose call of definition_statement_ follows a replacement  *)
(* returns what that call returns.                                         *)
HasAlternative ==
    /\ top.alt < Len(Grammar[top.rule])
    /\ \A p \in 1 .. top.pos - 1 : alternative[p] # "@replace"

\* Fault: the next alternative is tried from where the last one stopped.
RetryInPlace ==
    /\ status = "running" /\ returned = "fail" /\ HasAlternative
    /\ calls' = Replaced([top EXCEPT !.alt = @ + 1, !.pos = 1])
    /\ returned' = "none"
    /\ UNCHANGED <<tokens, status, value, contexts, output, tables>>

\* Fault: the alternative that has failed is tried again.
RetrySame ==
    /\ status = "running" /\ returned = "fail" /\ HasAlternative
    /\ set_index(top.mark)
    /\ calls' = Replaced([top EXCEPT !.pos = 1])
    /\ returned' = "none"
    /\ UNCHANGED <<status, value, contexts, output, tables>>

Retry ==
    /\ status = "running" /\ returned = "fail" /\ HasAlternative
    /\ set_index(top.mark)
    /\ calls' = Replaced([top EXCEPT !.alt = @ + 1, !.pos = 1])
    /\ returned' = "none"
    /\ UNCHANGED <<status, value, contexts, output, tables>>

(* Only emit_nodes_ turns a failure, of a definition, into an exception. *)
GiveUp ==
    /\ status = "running" /\ returned = "fail" /\ ~HasAlternative
    /\ Exit(top)
    /\ calls' = Front(calls)
    /\ IF calls[Len(calls) - 1].rule = "emit_nodes"
       THEN status' = "throwing" /\ returned' = "none"
       ELSE UNCHANGED <<status, returned>>

\* Fault: an exception leaves the contexts and scopes as they are.
UnwindPlainly ==
    /\ status = "throwing"
    /\ calls' = Front(calls)
    /\ status' = IF Len(calls) = 1 THEN "failed" ELSE "throwing"
    /\ UNCHANGED <<tokens, returned, value, contexts, output, tables>>

Unwind ==
    /\ status = "throwing"
    /\ Exit(top)
    /\ calls' = Front(calls)
    /\ status' = IF Len(calls) = 1 THEN "failed" ELSE "throwing"
    /\ UNCHANGED returned

Match ==
    /\ Running
    /\ top.pos \in DOMAIN alternative
    /\ symbol \in Terminals
    /\ next
    /\ IF ~T!InStream(index) THEN Throws
       ELSE IF stream[index].type = symbol THEN Advance
       ELSE Fails
    /\ UNCHANGED <<value, contexts, output, tables>>

-----------------------------------------------------------------------------
(* Expressions.  The token that is not one makes the expression parser     *)
(* throw what Parser::parse_expression turns into false; what              *)
(* Variable_manager::get throws passes through it.                         *)

Evaluate ==
    /\ next
    /\ IF stream[index].type # "expr" THEN Fails /\ UNCHANGED value
       ELSE LET r == Eval(stream[index].expr)
            IN  IF r.kind = "threw" THEN Throws /\ UNCHANGED value
                ELSE Advance /\ value' = r.value
    /\ UNCHANGED <<contexts, output, tables>>

(* Parser::skip_past_enclosed_tokens, from outside (nest = 0) or inside    *)
(* (nest = 1) the enclosed tokens; the position it leaves the frame at.    *)
(* Where the cursor stands when it throws is never asked.                  *)
Depth(open, close, j) ==
    Cardinality({k \in index .. j : stream[k].type = open})
      - Cardinality({k \in index .. j : stream[k].type = close})

Enclosed(open, close, nest) ==
    {j \in index .. Len(stream) :
       /\ stream[j].type = close
       /\ nest + Depth(open, close, j) = 0
       /\ \A k \in index .. j - 1 : nest + Depth(open, close, k) >= 0}

SkipPast(open, close, nest, position) ==
    LET ends == Enclosed(open, close, nest)
    IN  IF ends = {} THEN Throws /\ UNCHANGED tokens
        ELSE set_index(Min(ends) + 1) /\ Goto(position)

Next_ == top.pos + 1
End_  == Len(alternative) + 1

Expression == Before("@expression") /\ Evaluate

Skip ==
    /\ Before("@skip")
    /\ SkipPast("[", "]", 1, Next_)
    /\ UNCHANGED <<value, contexts, output, tables>>

(* The condition of an if or elif runs until a branch has been taken. *)
If_expression ==
    /\ Before("@if_expression")
    /\ \/ Last(ifs) /\ SkipPast("(", ")", 1, Next_)
          /\ UNCHANGED <<value, contexts, output, tables>>
       \/ ~Last(ifs) /\ Evaluate

Else_condition ==
    /\ Before("@true")
    /\ value' = 1
    /\ Advance
    /\ UNCHANGED <<tokens, contexts, output, tables>>

\* Fault: a second branch of an if runs when its own condition holds.
ChooseAgain ==
    /\ Before("@choose")
    /\ IF value = 0
       THEN SkipPast("{", "}", 0, End_) /\ UNCHANGED ifs
       ELSE Advance /\ UNCHANGED tokens /\ ifs' = Append(Front(ifs), TRUE)
    /\ UNCHANGED <<value, templates, output, tables>>

Choose ==
    /\ Before("@choose")
    /\ IF value = 0 \/ Last(ifs)
       THEN SkipPast("{", "}", 0, End_) /\ UNCHANGED ifs
       ELSE Advance /\ UNCHANGED tokens /\ ifs' = Append(Front(ifs), TRUE)
    /\ UNCHANGED <<value, templates, output, tables>>

Assertion ==
    /\ Before("@assert")
    /\ IF value = 0 THEN Throws ELSE Advance
    /\ UNCHANGED <<tokens, value, contexts, output, tables>>

-----------------------------------------------------------------------------
(* The for loop remembers where its continuation and its update begin.     *)

\* Fault: the loop forgets where its continuation begins.
ContinuationForgotten ==
    /\ Before("@continuation")
    /\ Advance
    /\ UNCHANGED <<tokens, value, contexts, output, tables>>

Continuation ==
    /\ Before("@continuation")
    /\ calls' = Replaced([top EXCEPT !.continuation = index, !.pos = @ + 1])
    /\ UNCHANGED <<tokens, returned, status, value, contexts, output, tables>>

(* The first pass through here is the one that sets for_loop_update. *)
Loop ==
    /\ Before("@loop")
    /\ IF value # 0
       THEN LET ends == Enclosed("(", ")", 1)
            IN  IF ends = {} THEN Throws /\ UNCHANGED tokens
                ELSE /\ set_index(Min(ends) + 1)
                     /\ calls' = Replaced([top EXCEPT !.update = index, !.pos = @ + 1])
                     /\ UNCHANGED <<returned, status>>
       ELSE SkipPast("{", "}", 0, End_)
    /\ UNCHANGED <<value, contexts, output, tables>>

Update ==
    /\ Before("@update")
    /\ set_index(top.update)
    /\ Advance
    /\ UNCHANGED <<value, contexts, output, tables>>

Repeat ==
    /\ Before("@repeat")
    /\ set_index(top.continuation)
    /\ Goto(CHOOSE p \in DOMAIN alternative : alternative[p] = "for_continuation")
    /\ UNCHANGED <<value, contexts, output, tables>>

Variable == stream[top.mark].value

Add ==
    /\ Before("@add")
    /\ IF V!CanAdd(Variable) THEN V!add(Variable, value) /\ Advance
       ELSE Throws /\ UNCHANGED tables
    /\ UNCHANGED <<tokens, value, contexts, output>>

Set ==
    /\ Before("@set")
    /\ IF V!CanSet(Variable) THEN V!set(Variable, value) /\ Advance
       ELSE Throws /\ UNCHANGED tables
    /\ UNCHANGED <<tokens, value, contexts, output>>

-----------------------------------------------------------------------------
(* Templates.  A context keeps the tokens the C++ points at. *)

previous == stream[index - 1]

Instantiate ==
    /\ Before("@instantiate")
    /\ templates' = [templates EXCEPT ![Len(templates)].type = previous]
    /\ Advance
    /\ UNCHANGED <<tokens, value, ifs, output, tables>>

Typename ==
    /\ Before("@typename")
    /\ templates' = [templates EXCEPT ![Len(templates)].type_name = previous]
    /\ Advance
    /\ UNCHANGED <<tokens, value, ifs, output, tables>>

Matches ==
    /\ Before("@matches")
    /\ IF Last(templates).type_name.value # previous.value THEN Throws ELSE Advance
    /\ UNCHANGED <<tokens, value, contexts, output, tables>>

Rewind ==
    /\ Before("@rewind")
    /\ set_index(top.mark)
    /\ Advance
    /\ UNCHANGED <<value, contexts, output, tables>>

Replace ==
    /\ Before("@replace")
    /\ IF T!CanReplace
       THEN T!replace_type_name_token(Last(templates).type) /\ Advance
       ELSE Throws /\ UNCHANGED <<stream, replaced>>
    /\ UNCHANGED <<index, bad, value, contexts, output, tables>>

-----------------------------------------------------------------------------
(* emit_nodes_, and the initialisation of its Generative_node_source: the  *)
(* statement's own node, and one for each element if it is an array.       *)

Statement  == calls[Len(calls) - 1].mark
TypeToken  == stream[Statement]
Bracket    == Statement + (IF TypeToken.type = "template" THEN 4 ELSE 1)
IsArray    == stream[Bracket].type = "["
Node(name, type, under) ==
    [name |-> name, type |-> type, of |-> TypeToken.value, parent |-> under, data |-> NonInteger]
Subscript  == <<"[0]", "[1]", "[2]", "[3]">>
ASSUME MaxArrayAssumption == MaxArray \in DOMAIN Subscript

Keep(ids, position) ==
    /\ calls' = Replaced([top EXCEPT !.todo = ids, !.pos = position])
    /\ UNCHANGED <<returned, status>>

\* Fault: the replaced type-name stays in force while the members are read.
DeclareKeepingType ==
    /\ Before("@declare")
    /\ nodes' = Append(nodes, Node(previous.value, IF IsArray THEN "array" ELSE TypeToken.type, parent))
    /\ Keep(<<Len(nodes) + 1>>, IF IsArray THEN 2 ELSE 3)
    /\ UNCHANGED <<tokens, value, contexts, parent, read, tables>>

Declare ==
    /\ Before("@declare")
    /\ nodes' = Append(nodes, Node(previous.value, IF IsArray THEN "array" ELSE TypeToken.type, parent))
    /\ Keep(<<Len(nodes) + 1>>, IF IsArray THEN 2 ELSE 3)
    /\ IF IsArray THEN UNCHANGED <<stream, replaced>> ELSE T!restore_type_name_token
    /\ UNCHANGED <<index, bad, value, contexts, parent, read, tables>>

(* The size may name a node, and finds the array node itself among them.   *)
(* A node source that cannot parse it puts the type-name back and throws.  *)
Dimension ==
    /\ Before("@dimension")
    /\ LET r == Eval(stream[Bracket + 1].expr)
       IN  IF stream[Bracket + 1].type # "expr"
           THEN Throws /\ T!restore_type_name_token /\ UNCHANGED nodes
           ELSE IF r.kind = "threw" \/ r.value \notin 0 .. MaxArray
           THEN Throws /\ UNCHANGED <<stream, replaced, nodes>>
           ELSE /\ nodes' = nodes \o [i \in 1 .. r.value |->
                                       Node(Subscript[i], TypeToken.type, top.todo[1])]
                /\ Keep([i \in 1 .. r.value |-> Len(nodes) + i], 3)
                /\ T!restore_type_name_token
    /\ UNCHANGED <<index, bad, value, contexts, parent, read, tables>>

Current == nodes[Head(top.todo)]

Emitted ==
    /\ Before("@members") /\ top.todo = <<>>
    /\ Goto(End_)
    /\ UNCHANGED <<tokens, value, contexts, output, tables>>

(* The checks emit_nodes_ makes of the value of an enum and of a bool. *)
Legal(node, field) ==
    /\ node.type = "enum" => field \in EnumValues
    /\ node.type = "int" /\ node.of = "bool" => field \in {0, 1}

(* Node_reader::read_node, and those checks. *)
ReadLeaf ==
    /\ Before("@members") /\ top.todo # <<>>
    /\ Current.type \in {"int", "enum", "string"}
    /\ IF read = Len(save) THEN Throws /\ UNCHANGED <<nodes, read>>
       ELSE LET field == save[read + 1]
            IN  /\ read' = read + 1
                /\ nodes' = IF Current.type = "string" THEN nodes
                            ELSE [nodes EXCEPT ![Head(top.todo)].data = field]
                /\ IF Legal(Current, field) THEN Advance ELSE Throws
    /\ UNCHANGED <<tokens, value, contexts, parent, tables>>

(* A struct or template body is parsed where its definition stands.        *)
ReadMembers ==
    /\ Before("@members") /\ top.todo # <<>>
    /\ Current.type \in {"struct", "template"}
    /\ LET slots == IF Current.type = "struct" THEN schema.structs ELSE schema.templates
           rule  == IF Current.type = "struct" THEN "struct_members" ELSE "template_members"
       IN  IF Current.of \notin DOMAIN slots
           THEN Throws /\ UNCHANGED <<tokens, parent>>
           ELSE /\ calls' = Append(calls, Frame(rule))
                /\ set_index(slots[Current.of])
                /\ parent' = Head(top.todo)
                /\ UNCHANGED <<returned, status>>
    /\ UNCHANGED <<value, contexts, nodes, read, tables>>

-----------------------------------------------------------------------------
(* parse() emits the node of the root structure, whose type and name are   *)
(* made up, and phase one has left the cursor at meta_eos.                 *)
Init ==
    /\ schema \in Schemas /\ save \in Saves
    /\ stream = schema.text /\ index = Len(schema.text) /\ bad = FALSE /\ replaced = <<>>
    /\ nodes = <<[name |-> schema.root, type |-> "struct", of |-> schema.root,
                  parent |-> 0, data |-> NonInteger]>>
    /\ parent = 0 /\ read = 0
    /\ calls = <<[Frame("emit_nodes") EXCEPT !.pos = 3, !.todo = <<1>>]>>
    /\ returned = "none" /\ status = "running" /\ value = -1
    /\ ifs = <<>> /\ templates = <<>>
    /\ lookup = [n \in {} |-> 0] /\ scopes = <<>>

Step ==
    \/ Match \/ Call \/ Return \/ Retry \/ GiveUp \/ Unwind
    \/ Expression \/ Skip \/ If_expression \/ Else_condition \/ Choose \/ Assertion
    \/ Continuation \/ Loop \/ Update \/ Repeat \/ Add \/ Set
    \/ Instantiate \/ Typename \/ Matches \/ Rewind \/ Replace
    \/ Declare \/ Dimension \/ Emitted \/ ReadLeaf \/ ReadMembers

Finished == status \in {"done", "failed"}

Next ==
    \/ Step /\ UNCHANGED <<schema, save>>
    \/ Finished /\ UNCHANGED vars

(* A single thread runs the parse until it returns or throws. *)
Spec == Init /\ [][Next]_vars /\ WF_vars(Next)

-----------------------------------------------------------------------------
TypeOK ==
    /\ index \in 1 .. Len(schema.text) + 1
    /\ bad \in BOOLEAN
    /\ Len(stream) = Len(schema.text)
    /\ \A i \in DOMAIN calls : calls[i].rule \in DOMAIN Grammar /\ calls[i].mark \in DOMAIN stream
    /\ returned \in {"none", "fail"}
    /\ status \in {"running", "throwing", "done", "failed"}
    /\ value \in Int
    /\ ifs \in Seq(BOOLEAN)
    /\ parent \in 0 .. Len(nodes)
    /\ \A i \in DOMAIN nodes : nodes[i].parent < i
    /\ read \in 0 .. Len(save)
    /\ DOMAIN lookup \subseteq Names

Open(rules) == {i \in DOMAIN calls : calls[i].rule \in rules}

(* There are as many if-contexts, template contexts and variable scopes as *)
(* productions that opened one and have not returned; no name outlives     *)
(* them; the parent is the node whose body is being parsed; and the cursor *)
(* saved for the return to an instantiation was a valid one: whether a     *)
(* production succeeds, fails, or is left by an exception                  *)
(* (parser-phase-two.cpp:119-120, 427-428, 539-540, 640-641).              *)
ContextsMatchCalls ==
    /\ Len(ifs) = Cardinality(Open({"if_elif_else_block"}))
    /\ Len(templates) = Cardinality(Open({"template_statement"}))
    /\ Len(scopes) = Cardinality(Open({"for_loop_block"}))
    /\ scopes = <<>> => DOMAIN lookup = {}
    /\ Open(Body) = {} => parent = 0
    /\ ~bad

(* A type-name is replaced only from the instantiation of a statement to   *)
(* the end of its node source: no body is parsed with a replacement in     *)
(* force, so replacements need not nest (parser-phase-two.cpp:993-997).    *)
ReplacementsDoNotNest ==
    /\ Before("@members") \/ status = "done" => stream = schema.text /\ replaced = <<>>
    /\ Before("@replace") => T!CanReplace

(* A parse returns or throws. *)
Terminates == <>Finished
=============================================================================
