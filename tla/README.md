# c4lib in TLA+

A formal model of c4lib, the library that reads a Civilization IV: Beyond the
Sword save into a property tree, lets a program edit the tree, and writes it
back as a save. Every definition is translated from the C++ under `src/`;
`PROJECT.json` maps each one to its lines.

## The system

A **schema** (`doc/BTS.schema`) describes the fields of a save in a small
language with structs, templates, arrays, conditionals and loops. Reading a
save means inflating the file, parsing the schema (phase one) and then
*interpreting* it while parsing it again (phase two), each definition reading
fields of the save into the tree. Writing means walking the tree, deflating
the bytes, and sealing the file with an MD5. Everything runs on one thread and
fails by exception.

| component | state it keeps | operations | what makes it correct |
|---|---|---|---|
| `c4lib` API (`lib/c4lib`) | none between calls | `read_save`, `write_save`, `write_composite`, `write_translation`, `read_info`, `write_info` | a write followed by a read returns the tree; a torn file is refused |
| zlib engine (`lib/zlib`) | counts, two buffers, **one function-local static** | `inflate`, `deflate` | the composite stream does not depend on chunk sizes or on zlib's pace |
| checksum, layout (`lib/md5`, `lib/layout`) | none: offsets into a stream, found by seeking | `get_hash`, `get_*`, `seek_*` | the MD5 covers what the game covers and stands where the game looks |
| parser facade (`schema-parser/parser.*`) | tokenizer, definition table, variable manager, root | `parse`, `reset`, `parse_expression`, `skip_past_enclosed_tokens` | a parse depends on its inputs only |
| tokenizer | tokens, cursor, bad flag, one replaced token | `run`, `next`, `back`, `set_index`, `replace_type_name_token`, `restore_type_name_token`, `reset` | the stream is the schema but for the one slot being replaced |
| phase one | definition table, import tables, root name | `parse` | each name defined once, enumerators numbered in order, imports complete |
| phase two | stacks of if-contexts and template contexts, the parent node, the cursor | `parse`, one function per production | reads exactly what the schema means, whatever it backtracks over |
| generative node source | the nodes of one definition and a traversal | `begin`, `++` | each leaf once, in order |
| variable manager | flat table of variables, stack of scopes | `add`, `get`, `set`, `push`, `pop` | a variable lives as long as its loop, a name means its innermost binding |
| expression parser | the operand stack (operators wait on the C++ stack) | `parse` | the value of the expression, and a cursor right behind it |
| importer, file manager | the names to import, the search roots | `add_const`, `add_enum`, `import_definitions`, `get_full_path` | the mod's file wins over custom assets, they over the installation's |
| node readers, writers | a stream; the reader adds PlayerTypes to the definition table | `init`, `read_node`, `write_node` | one field per leaf; what is written is read again; a player's number means its leader |
| recursive node source | a stack of iterators | `begin`, `++` | pre-order, meta nodes skipped |
| options manager (`lib/options`) | the options merged so far, the tables of what each may be, the aggregate checks | `add_options_from_command_line`, `add_options_from_config_file`, `add_info`, `add_aggregate_checks`, `set_defaults_then_check_options`, `get_options_exclusive_of` | the config file wins over the command line; exactly what the tables allow is accepted, in whatever order the maps are gone through |
| c4edit (`src/main.cpp`) | the tree, the exit status | `main`: options, log, load, writes | an exit status of 0 means that the files asked for are there; a failure spares the others |

Interactions: the facade owns the tokenizer, the definition table and the
variable manager and lends them to both phases; phase two creates a node source
for each definition, which evaluates dimensions through the expression parser,
which asks the variable manager, which looks into the tree phase two is still
building. That circle is where the hard behaviour is: a production that fails
is undone only by moving the cursor back, an exception is undone only by
destructors, and a template is instantiated by overwriting a token of the
stream that everybody shares.

## The modules

| module | what it is |
|---|---|
| `Resolution` | what a name means outside the loop variables: the tree (through `get_child_optional`, so the first child of a name), then the constants |
| `VariableManager` | the flat table and the scopes of `Variable_manager` |
| `ScopedEnvironment` | what they promise: a stack of environments |
| `VariableManagerProofs` | the promise proved |
| `SchemaTokens` | which words are tokens by the grammar, within the limits of the code, and a text as a sequence of them |
| `Lexer` | `Tokenizer::run`: lines cut into tokens by patterns in a fixed order; extends `SchemaTokens` |
| `Tokenizer` | cursor, guards, replacement, bad flag, reset and run |
| `TokenizerProofs` | the stream stays the schema, proved |
| `PhaseTwo` | the interpreter; instantiates `Tokenizer` and `VariableManager` |
| `GrammarProofs` | which production calls which, and what stands before an action, proved |
| `PhaseTwoProofs` | its contexts and calls stay in step, proved |
| `ReplacementProofs` | its replacements of type-names do not nest, proved |
| `SchemaMeaning` | what a schema means, as a recursive function over statement trees, and how statements are written as tokens |
| `Layout` | the fields of a save by seeking past those before, and the checksum over some of them |
| `SaveCodec` | reading and writing a save file, inflate and deflate chunk by chunk, a crash during the write; extends `Layout` |
| `SaveStore` | what they promise: a store of whole, sealed saves |
| `NodeSource` | `Generative_node_source`: building the nodes of a declaration, and iterating over them |
| `SubscriptOrder` | what it promises: every element once, in ascending subscript order |
| `NodeSourceProofs` | the tree is the one declared, and the promise, proved |
| `RecursiveNodeSource` | `Recursive_node_source`: the walk over a tree that all writers use |
| `NodeCodec` | the bytes of a value and the value of bytes, for every type of leaf |
| `NodeWriters` | the binary and the translation writer, each with a walk of its own; extends `NodeCodec` |
| `RoundTrip` | the binary reader over what the binary writer wrote, and the players it defines; extends `NodeWriters` |
| `ExpressionParser` | the Pratt parser that evaluates dimensions, conditions and constants |
| `ExpressionParserProofs` | its operands and calls stay in step, proved |
| `ExpressionMeaning` | the value of an expression, how it is written, and which tokens are one |
| `DefinitionTable` | `Def_tbl` and `Definition`, as operators on a table |
| `Importer` | the search for XML files, and the constants and enums read from them; extends `DefinitionTable` |
| `PhaseOne` | the parse of a schema's definitions, and the completion of its enums; extends `Importer` |
| `DeclaredDefinitions` | what a schema and the files declare, said from the whole schema at once |
| `OptionsManager` | options merged, defaulted and checked |
| `OptionsData` | the tables of c4edit's options and of the library's |
| `C4edit` | `main` from its arguments to its exit status, over a disk; extends both |
| `CommandLine` | what command line, config file and tables ask for, said from all of them at once, and what is then owed |
| `CommandLineProofs` | what is owed is done, proved |
| `MC...` | small instances for TLC |

Definitions whose comment begins with "Fault:" are not part of the model: each
is the same definition with a plausible mistake, kept to show that a property
notices it.

### Variables and their scopes

`Push`, `Pop`, `Add`, `Set` and `Get` are the member functions; `outcome` is
what the call returned or threw. `Surroundings` is the parser adding nodes to
the tree and moving `*m_parent_ptree` between the calls. `Environments` maps
the table and the scopes to the stack of `ScopedEnvironment`. Names are model
values: `Dotted` and `EnumRefs` say which contain `.` or `::`.

### Lexer

A step is one round of `run`'s loops: a line read, a blank, a comment or a token
taken, or an error. Characters that no pattern tells apart are one (`a` is any
letter that is a hexadecimal digit, `#` anything no token begins with), a word
whose letters matter together (`if`, `int8`, `struct_`) counts as one, and
offsets into a line count from 0 as in the code. An error leaves the tokens read
before it, the last of them perhaps half made. A read that fails has perhaps brought
a part of a line, which is cut as any other before anybody looks at the stream
(`ReadError`): an error in it is reported in place of the read's. `SchemaTokens`
reads a text with the tokens of `doc/C4 Schema Grammar.txt`, each as long as can be,
whatever the order of patterns. It departs from the grammar in two places: the
limits are those of `limits.hpp`, and a name may begin with an underscore (see "Where
the code differs").

### Tokenizer

One action per member function, with its throwing alternative. Slots count
from 1, so that 0 can stand for `invalid_size`, to which an index of 0 wraps
when it is backed up. `saved` holds the cursors of the live `auto_index`
objects. `Reused` says whether one tokenizer runs twice: `read_save` makes a new
`Parser` for each read, a program that keeps a `Parser` does not.

### Phase two

The C++ call stack is the sequence `calls`. `Grammar` gives each production's
alternatives: terminals, productions, and the actions `@...` that the code takes
between them. `Call`, `Return`, `Retry`, `GiveUp` and `Unwind` are what C++ does
around every production: entering it, leaving it, trying the next alternative
after `set_index`, returning false, and destroying its frame for an exception.
`Enter` and `Exit` hold what constructors and destructors do (`auto_pop`,
`auto_parent`, `auto_index`, the scopes). The other actions are the statements
between the calls, named for what they do.

An expression is one token with a value computed through `VariableManager!get`,
so that names resolve against the tree under construction. Types that phase two
treats alike share a terminal. `ReadLeaf` is the node reader reading one field, with
the checks that `emit_nodes_` makes of an enum's value and a bool's (`Legal`).

### Layout and save files

A stream is a sequence of bytes. A seek of `Layout` goes past a list of fields, each a
number of bytes and perhaps as many elements as they say; a seek or a read beyond the
end is `Failed`. A read of a string, which a seek past it is not, throws if the string
is longer than `max_string_length`: `read_save` as the schema has every string read,
`write_save` where the string goes into the checksum; another too long string is
written, and makes a file that no read takes. `get_hash` gathers the same pieces in the
same order as `Checksum::get_hash`; `Md5` of a sequence of bytes is the sequence itself
under another name, so that two digests are equal only for equal bytes. zlib is external
and nondeterministic: deflate may hold compressed parts back until the final flush,
inflate may hand out any prefix of the data until it has seen all parts. A header has
all its fields, with strings of no character up to one more than can be read. `GameFile`
is a file as the game writes it, in which any chunk size up to the largest may come
first. `Crash` ends the process anywhere in the write of the file.

### Node source

`init_` and the rounds of `init_node_`'s loops are steps; `loops` is the C++
recursion, one entry per open dimension. A node is known by the subscripts that
lead to it, `m_root` holds its `index` and the size of its `nodes`. A dimension
is a record of what its tokens say; the tokenizer is left out because every
production of a dimension puts the cursor back. `next_` is one step: the member
function of `Dimension_node` (`NextNode`), repeated while it hands out empty
arrays. `Elements` and `DeclaredExtent` say what a declaration means, by the
subscripts of the element alone; the code knows only the index it captured last.

### Writers and readers

A round of `operator++`'s loop is a step (`Descend`, `Advance`), a call of
`write_node` another. A byte is a value marked with the leaf it belongs to and its
place there, so that one that is lost, repeated or moved shows. `Description`
says what a translation is to look like, from the tree.

`Encode` is what both writers make of a value, `BinaryTakes` and
`TranslationTakes` say which values each takes: they extract an integer from its
text by different types. In `RoundTrip` the schema asks for the leaves of the
tree again, one `ReadNode` after the other; the fields that steer it (versions,
counts, dimensions) are not edited, so that it asks for the same. `ReadNode` is
`read_node` with what it does behind `read_node_impl_`: a member of the array
Leader defines a player. A leader is known by its enumerator, a slot by its
subscript. Reading starts when the save has been written and no other call runs.

### Expressions

The C++ recursion of `expr_`, `nud_`, `led_` and `parse` is `calls`; an action
is what one function does up to its next call or its return. A path is the
sequence of its names and subscripts. `Throw` ends the parse and leaves
`m_stack` as it is, as an exception does; `undefined` is undefined behaviour: a
pop of an empty stack, a division by zero, a result beyond `int` (`MaxInt`).
`Meaning` evaluates a tree, `Written` writes it with as few parentheses as the
table of operators in `doc/C4 Schema Grammar.txt` needs, and `IsExpression` says
which token sequences are expressions.

### Phase one and the importer

A schema is a sequence of statements, an enum one with its enumerators; a production
that fails within a statement makes every alternative fail, and the parse, so that where
it fails is of no concern. A function that throws is a pair of operators in
`DefinitionTable`: the condition under which it does not, and its effect. `files` holds
what is on disk: which roots have which file, the modules, and whether a mod and modular
loading are asked for. A file may be no XML or lack the node that holds its elements
(`broken`), and an element its name or its value; an import with a bad path, or from
such a file, throws where the code gets to it. The loops over unordered maps and over a
directory take their elements in any order. `DeclaredDefinitions` says what the table
should be from the whole schema: enumerators by their place among all blocks of an enum,
a file by which roots mask which.

### Options and c4edit

A step of `C4edit` is one option added, one of `main`'s stages, or one write; an
exception is `thrown`, and `Catch` the handlers of `main`. A loop over an unordered map
is one step, which may throw any of the exceptions its elements deserve. A log that is
asked for is created or appended to, and stays open: what else is written to its path
ends up as log (`LeftAt`). A path is a name, and `LastPart` says what `filename()` makes
of one with a directory; two spellings of one path are two files. `inflated` is the save
in memory between the inflation and phase two. A file is known by kind, tree, and
whether it is whole; an info file that is none, or torn, may still load as something
(`Garbled`). What a schema or a save does to the parser is a choice: each stage of a
load may throw. `disk` has files that cannot be written, files that are torn, or no
room: a stream may then fail while it is written, where the code looks, or when it is
closed, where it does not; at the exports of definitions it looks only after opening.
`Allowed` and `Expected` say from the whole command line and config file what is to be
obeyed and what stands on disk after it.

## The runs

| run | shows | bounds |
|---|---|---|
| `variable_manager` | table and scopes agree and implement the stack of environments | 2 open loops, 5 names (plain, shared with a node and a constant, dotted, two enumerator references), 2 nodes, 2 values: a name can be shadowed by a variable, a member, a root node and a constant at once |
| `tokenizer` | the stream is the schema but for one slot | a 6-token template with one type-name in two places, a shorter schema, 2 types, 2 nested guards, 1 read past the end |
| `lexer` | every text is cut into the tokens of the grammar within the limits of the code, an error is the first there is; it ends | every line of up to 3 of 15 characters, every 2 of 19 pieces followed by one of 6 ends, every 2 in a file; lines of up to 9, names of 3, numbers of 4, literals of 2 characters, so that each is reached and exceeded; a read that fails at any character |
| `schema_meaning` | the interpreter reads what the schema means, fails only when it must, unwinds cleanly, ends | 116 schemas (29 statements of every kind, well formed and not, followed by each of 4) by 9 saves of up to 6 fields; loops of up to 2 rounds; arrays of up to 3; bools that are 0, 1 and neither |
| `save_codec` | reading, editing and writing implement a store; every call ends | data of 0, 2 and 5 bytes in up to 3 chunks of 2, buffers of 2, so that a chunk, an inflate buffer and a staging buffer are each exactly filled, exceeded and left partly empty; 4 calls; 1 write per process; headers whose strings are empty, not, or longer than can be read, with map options, hidden options and victories, for two players |
| `save_codec_reused` | *violation*: the second write may lack room | 2 writes per process |
| `checksum_dword` | *violation*: the checksum of a save made for a mod is taken over the wrong dword | a save that names a mod |
| `node_source` | the tree is the one declared; every element once, in order; it ends | 910 declarations of up to 3 dimensions of extents up to 3: plain, captured, using a capture, bound to enums with gaps, of the footer, zero, negative, too large, malformed; referenced arrays with zero and negative members, of strings, hidden by a namesake, the declaration itself. A captured index is not captured again behind its use |
| `node_writers` | the translation describes the tree and points into the save; what was written is read again, and the players are the leaders | 872 trees of up to 5 levels; a byte of 4 values, integers of 1, 2 and 4 bytes at and beyond their bounds, with and without sign; strings up to, at and beyond a limit of 2, with surrogate pairs and what is not UTF-8, digests of both lengths; 2 bytes per line, so that leaves and arrays of bytes fall short of, fill and exceed lines; arrays Leader with empty slots before, between and behind players, one leader twice, none of the enumerators; fields of type PlayerTypes before and behind it; both orders of the two calls |
| `expression_parser` | the value is the expression's; exactly the expressions are taken; operands match calls; it ends | 8-bit `int`; every two operators around three operands either way round, with unary operators and parentheses; references of up to 3 parts, subscripts that are expressions and references themselves; any 4 of 11 tokens; 2 leftovers of an earlier parse |
| `phase_one` | the table is what schema and files declare; the well-formed schemas are accepted | any 2 of 25 statements behind 2 import blocks, any 1 behind 8; 24 sets of files with masked, missing, empty, repeating and unreadable ones, elements without name or value, a mod, 3 modules, paths without parent; the definitions and imports of an earlier parse |
| `c4edit` | what is allowed is obeyed, success means written, failure spares files, a crash dump holds the tree | 3,065 command lines: 4 ways to load, or none, by up to two of 24 options (repeated, lower case, without value, unknown, malformed, in conflict) or several outputs at once, also to one path, over the loaded file, over an export and into the log; exports, debug directory and log with them; a save in a directory; config files good, bad and missing; 3 disks: with room, full, and one with read-only files and a torn info file |

Deadlock is checked except in `lexer`, `save_codec`, `node_source`,
`node_writers`, `expression_parser`, `phase_one` and `c4edit` (and the violations
on their modules), which stop when their calls are used up or the text, the parse
or the program has ended. The expressions of `PhaseTwo` are bounded by the
pool, and its tree by the schemas and saves of it.

**What is left out of the runs, and why.** The schemas avoid a malformed condition
directly before a later brace: `skip_past_enclosed_tokens` skips to the next brace
unread, and nothing says what such a schema means. The footers of `save_codec` hold no
zeros: a torn file whose last bytes look like an empty string is accepted by a read,
which checks neither the MD5 nor that the stream ends. Edits keep the CvInitCore's size
right. The inputs of the passing runs also avoid what is listed under "Where the code
differs": a second write in a process, a second schema in a tokenizer, captures behind a
use of one, an elif behind a branch that was taken, structs without members, arrays of
arrays of bytes, a `!` in the left operand of an operator, a sign between two
multiplications or divisions and one before a product at the edge of `int`, a subscript
behind an operator that waits for it, names that begin with a base type, saves made for
a mod, modules that add names to an enum, exact paths, more definitions than are
reserved. No option of c4edit is required by itself or an integer, so these two checks
never fail in its run, and no run asks for the debugging binaries
(`BinariesAssumption`). Where the model says *undefined*, for a division by zero, an
overflow or a constant defined by a name, the inputs are in the runs, and the reference
says undefined too.

**Fairness.** The parse and each API call run to their end on one thread:
`PhaseTwo`, `Lexer`, `NodeSource` and `ExpressionParser` assume weak fairness of
their next step, `SaveCodec` of each step within a call. Calls, edits
and crashes are not fair; The other modules state no
liveness and assume none.

## The proofs

TLAPS checks them for every value of the constants under the named ASSUMEs.
Each invariant is stated in its proof module as `IInv` (in the variable
manager's and the tokenizer's, under the names given here; `RInv` is that of phase
two with its replacements), was checked by TLC
first, and is proved with one lemma per action.

* **Variables** (`VariableManagerProofs`): `TypeCorrect`, `VariablesLiveWithTheirScope`,
  `RefinesScopedEnvironment`. `ScopesOwnLookup` is inductive together with `TypeOK`: the
  scopes must be disjoint for `pop` to erase only the innermost loop's names, and their
  union must be the table's domain for `add`'s check of the table to keep them disjoint.
  The refinement follows action by action: each operation's effect on `lookup` and
  `scopes` is an effect on the last environment, or on the one that owns the name.
* **Tokens** (`TokenizerProofs`): `TypeCorrect` and `StreamStaysText`, for a
  tokenizer that reads one file (`Reused = FALSE`; the first theorem's guards
  would otherwise remember cursors into another text).
  `StreamIsText` needs the types of the stream's tokens, and that a replacement
  in force means that a text has been read.
* **Expressions** (`ExpressionParserProofs`): `TypeCorrect`, and
  `OperatorsGetTheirOperands`. The parser
  keeps its operands on `m_stack` and its operators on the C++ stack, and
  nothing in the code ties one to the other. The invariant of the first theorem
  says which call may stand above which (`Nested`), and that a call that has
  delivered has left an operand (`Delivers`). The second adds that the height of `m_stack` is
  a function of the calls (`Due`): one operand per binary operator that
  waits, and one if the call at the top has delivered. Its hypothesis
  `[][SubscriptsComeFirst]_vars` says that no subscript is opened while a binary
  operator waits; without it the claim is false, as a subscript empties the stack.
* **Phase two** (`PhaseTwoProofs`, on the facts about the productions in
  `GrammarProofs`): `TypeCorrect` and `ContextsStayInStep`, for any schemas that
  end in `eos` and have the bodies of their definitions at slots of the text
  (`SchemasAssumption`), any saves of integers, and enumerators and constants
  that are integers. The contexts, the scopes and the parent are what the C++
  destructors leave; that they match the call stack needs what may stand above
  what in it. `Stacked` says that a call that is not the last one waits at a symbol
  its successor was called for, `Nested` that no branch runs outside an if and
  nothing of a template outside an instantiation, so that `Last(ifs)` and
  `Last(templates)` are never taken of an empty stack, and that the outermost body was
  entered from the root. `Positioned` says which token the
  cursor has passed: `previous`, the token before it, is the one the grammar has before the
  action. `Begun` says the same of the token a statement began with, which the node
  source reads through its mark. `Streaming` says that every replacement of a token
  leaves a name to restore, and `Grown` that the tree has only older parents.
  Each action has a lemma (`MatchKeeps`, `CallKeeps`, ...). Where a set of
  slots has a `Min`, it is found by the well-foundedness of strict inclusion, not
  by induction (`LeastIsThere`).
* **Replacements** (`ReplacementProofs`, on the invariant of `PhaseTwoProofs`):
  `ReplacementsNeverNest`. `template_definition_statement_` parses a member that begins
  with the template's type-name twice, the second time with the instantiating type in
  the name's place. Were the second pass to fail behind the type, the name would stay
  replaced while the parser backs out and tries what else may stand there. It cannot fail
  there, as it takes the tokens of the first pass up to the node source, which puts the
  name back.
  `StreamIsSchema` says that all tokens but the replaced one are the
  schema's, so that both passes see the same brackets. `Leads(i, e)` is the cursor's
  way from slot i through array suffixes, stated without recursion: e is in every set of slots
  that has i and is closed under passing a suffix (TLC checked the invariant with the
  recursive form). Such a way has one end that is no bracket (`OneEnd`), `Skipping`
  says that `opt_array_suffix_` is on it, and `Measured` that the first pass has found a
  name at its end; so the second finds it too. `Settled` says that a template has its
  type once that is parsed, so a replacement always puts a type there and the second
  pass fails only at alternatives before that type's (`Replacing`).
* **Node sources** (`NodeSourceProofs`): `TypeCorrect`, `DeclaredAreArrays`, and
  `Ordered`, which is the refinement of `SubscriptOrder`; for any sets of declarations
  made of `Dimensions`, and any siblings (`ShapesAssumption`).
  `Shape` says that a node is there exactly when its parent
  has that many children. While `init_node_` builds, `LoopsAtNodes` puts each loop at a
  node of the path of those below it, with as many children as it has begun, and
  `Unwalked` leaves every other node at its first child. `LoopsDeclared` says that
  the extents are the declared ones, which needs `CaptureKept`: as
  long as a dimension may still use an index, `m_captured_index` is that of the loop
  that captured it last. The hypothesis is `CapturesOutlast`: no
  index is captured again behind a use, as `m_captured_index` is not put back (see
  below). While `next_` walks, the indices of
  the nodes describe a path: `Walking` says that the nodes left of it have been handed out and
  those right of it are as they were built; `AheadUnseen`, that the elements still due
  are the leaves not yet seen. `NextNode` then goes to the least of them.
* **c4edit** (`CommandLineProofs`): `TypeCorrect`, `OptionsAreObeyed`,
  `SuccessIsWritten`, `FailureSpares`, `CrashDumpIsTree`. The invariant is a conjunction
  over the places in `main`: what of the command line and the config file has been
  merged (`Merged`: each option has the value of the last request for it among the first
  n), what has been loaded, which outputs stand on disk; and what each exception leaves
  (`Caught`). The tables of options are the two programs'; command lines, config files,
  saves, infos and disks are arbitrary, under `UpperAssumption` (a name in lower case is
  in no table), `ArgumentListsAssumption`, `DisksAssumption` (what a file is) and
  `BinariesAssumption` (nobody asks for the debugging binaries), and for any `LastPart`.
  `SuccessIsWritten` speaks of outputs, exports and log; on a full disk it allows an
  output or an export to be cut. `FailureSpares` exempts the outputs up to the failure,
  and after a load that failed the exports, the crash dump and the log. The last theorem
  has the hypothesis `Apart`: with `DEBUG_WRITE_IMPORTS` exporting the definitions under
  the name of the crash dump, the dump overwrites the export.

Only model-checked: all about `Lexer`, `Layout` and `SaveCodec`, the writers and
readers, and phase one; the values of expressions and what a schema means (their
references are recursive over data, and an induction over data is beyond the prover);
and all liveness.

## Where the code differs from its documents and comments

Shown by a run:

* `save_codec_reused`: `compressed_buffer_size` (`zlib-engine.cpp:211`) is
  computed once per process, so a later, larger save cannot be written.
* `checksum_dword`: `seek_to_checksum_dword_` (`layout.cpp:234`) goes to the dword
  behind the version, the length of RequiredMod, where `doc/Use of MD5 in Binary
  Savegames.txt:24` asks for ChecksumDWord. Both are 0 in a save without a mod.

Met while modelling, and kept out of the runs' inputs; the models follow the
code in each case, so that the input named shows it:

* An `elif` after a branch that was taken is a syntax error
  (`parser-phase-two.cpp:652` consumes the parenthesis that line 446 expects),
  against the grammar's document. `doc/BTS.schema:1863` uses `elif`.
* `!` has a binding power of 0 (`parser.cpp:58` of the expression parser), so
  `!a && b` is `!(a && b)`, against the grammar's table of operators.
* A sign binds as loosely as a sum (70 in `parser.cpp:41`-`50`), where the grammar's
  table has it bind tighter (90) than `*`, `/` and `%` (80): `-a * b` is `-(a * b)`. In
  front of a product that is the same value but at the edge of `int`: with 8 bits and
  `a` = 64, `-a * 2` overflows in the code and is -128 by the grammar. Between two of
  these operators it is another value: `6 / -a * 4` with `a` = 3 is 6 / -12, which is 0,
  and not -8; with such a tree among the inputs, `ValueIsMeaning` fails.
* `parse` empties the operand stack (`parser.cpp:96`), also when it is called for
  a subscript: `1 + a.[2]` pops an empty stack. A subscript that stands left of
  every operator is safe.
* `Tokenizer::reset` (`tokenizer.hpp:124`) keeps a replacement in force:
  `StreamIsText` fails with `Reused = TRUE`.
* `m_captured_index` (`generative-node-source.cpp:120`) is one for all
  dimensions: in `[2:capture_index][2][Count[use_capture]][2:capture_index]` the
  last capture replaces the one that the second element of the second dimension
  should use, and `ArraysAsDeclared` fails. `doc/BTS.schema` has no such declaration.
* `Translation_node_writer` ends an aggregate when the depth falls, which it
  does not after a struct whose statements all lie under conditions that do not
  hold: every later End names the wrong aggregate, and `TranslationDescribesTree` fails.
* It consolidates any array of `hex8`, also one whose members are arrays, and
  then throws (`translation-node-writer.cpp:208`): `SavesTranslate` fails.
* Expressions divide by zero (`parser.cpp:165`, `:169`) and overflow, where
  `parser.hpp:36` promises an exception.
* Names that a module adds to an enum are numbered from 0 again
  (`importer.cpp:184`), so that two names have one value.
* `exact_path` is treated as `search_path` (`parser-phase-one.cpp:460`).
* `generate_enum_num_constants_` inserts into the map it iterates over
  (`parser-phase-one.cpp:225`), which is safe up to the 512 definitions that are reserved.
* A name that begins with a base type, as `int8x` or `string_table`, is one token of
  type *type*, with the whole name for its value: the patterns of `tokenizer-constants.hpp` for
  types do not look behind the word.
* The limits of tokens are not the grammar's: `doc/C4 Schema Grammar.txt:214` has
  `"([^"]){0, 118}"`, so that the marks of a literal count among its 120 characters, and
  `:216` `[a-zA-Z][_a-zA-Z0-9]{0,120}`, so that a name has up to 121 and no underscore
  first (in an expression, by its lines 274 and 304, up to 120 and perhaps an
  underscore). `limits.hpp:27` and `:38` say 120 for both, and `tokenizer.cpp:133` and
  `:266` count the marks not in. Lexer and `SchemaTokens` both follow the code, so that
  `lexer` says nothing of this. A literal of 119 characters, or a name of 121, shows it.
* A read error of the schema may be hidden by another: what the failed read brought
  of a line is cut into tokens first (`tokenizer.cpp:83`), and may throw `Tokenizer_error`.
* A number may have 10 characters with its sign, so that -2147483648 is refused;
  the grammar's document allows 120. `3-1` is two numbers, as a sign belongs to
  the digits behind it.
* `API.md:23` promises a crash dump for any exception of `read_save`;
  `parser.cpp:97` writes one for phase two only.
* A full disk may go unnoticed: `io.cpp:77` looks at the stream before it is
  closed, Boost's `write_info` too, `write_translation` (`c4lib.cpp:152`) never, and the export of
  definitions (`parser.cpp:172`) only when it opens them: the exit status is 0, and files are cut.
* `Options_manager::reset` (`options-manager.cpp:177`) keeps the aggregate checks,
  and `-NAME=` passes for an option without a value, as the second test of line
  123 is never true. An integer such as `12abc` is taken for 12, as nobody looks
  where `strtol` stopped.
* An option in a wrong format leads to an empty help text, as the infos are not
  added yet. `-WRITE_SAVE` alone writes a file named `0`, its default. The default
  of SCHEMA holds only if SCHEMA is given without a value: LOAD_SAVE wants it given.
* What the writer takes the reader may refuse: a string of more than 10,000
  characters (`io.hpp:60`) and an enum's value without enumerator
  (`binary-node-reader.cpp:66`) are written as they stand and then make every read of
  the save throw. So does the same leader in two slots (`base-node-reader.cpp:130`
  allows duplicates of NO_PLAYER only). `Readable` names them, and `ReadsBack` holds
  for all others. It speaks of the node reader: a bool edited to 2 is written and read,
  and then refused by phase two (`parser-phase-two.cpp:155`).
* An unsigned integer given with a sign, as `-1`, is complemented when it has four
  bytes; with two the translation is written and the save refused, as one extracts
  `uint16_t` and the other narrows `uint32_t`.
* A constant defined by a name (`const N = M`) makes phase one use a variable
  manager that is not initialised (`variable-manager.cpp:64`).

## Not modelled, and the plan

Left, in order: `PhaseTwo` with expressions of `ExpressionParser` in place of its
single tokens; a tree edited so that the schema asks for other fields when it is
read again; `add_options`, `reset` and `set_help_format` of
the options manager and `Null_node_reader`, which only tests call.

Then proofs: that members of a definition keep distinct names through phase one, and
that the import loops only add definitions; the invariants of the writers' walk, by
level, as those of the node source.

Not planned: MD5, zlib, Boost's regular expressions and its XML and info formats
(external: functions and choices to the models); what is in the log (that it is written
is modelled), progress messages, formatting, the columns and the origin of a
translation, the help text, the lookup tables of enumerators (no state); the debugging
binaries, which nothing reads.
