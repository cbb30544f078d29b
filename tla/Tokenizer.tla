------------------------------ MODULE Tokenizer ------------------------------
(***************************************************************************)
(* The token stream of a schema: a cursor that parsers move forwards, and  *)
(* back again when a production fails; and one slot whose type-name token  *)
(* may be overwritten while a template is instantiated.  Slots count from  *)
(* 1, so slot i is m_stream[i - 1], the cursor is past the end at          *)
(* Len(stream) + 1, and 0 stands for the largest size_t, which is what     *)
(* limits::invalid_size is and what an index of 0 wraps to when backed up. *)
(***************************************************************************)
EXTENDS Integers, Sequences

CONSTANTS
    Tokens,      \* every token
    Identifiers, \* the tokens of type identifier
    Types,       \* the type tokens a template may be instantiated with
    Texts,       \* the token sequences schema files hold
    Reused,      \* whether one tokenizer reads more than one schema file
    MaxGuards,   \* bound on the auto_index objects alive at once
    MaxOverrun   \* bound on the reads past the end of the stream

ASSUME TokenizerAssumption ==
    /\ Identifiers \subseteq Tokens
    /\ Types \subseteq Tokens \ Identifiers
    /\ Texts \subseteq Seq(Tokens)
    /\ Reused \in BOOLEAN
    /\ MaxGuards \in Nat
    /\ MaxOverrun \in Nat

VARIABLES
    stream,   \* m_stream
    index,    \* m_index
    bad,      \* m_bad
    replaced, \* m_replaced_type_name: <<>>, or <<its slot and its token>>
    saved,    \* the cursors the live auto_index objects hold, oldest first
    text,     \* what the last run read
    threw     \* whether the last operation threw

vars == <<stream, index, bad, replaced, saved, text, threw>>

Init ==
    /\ stream = <<>> /\ index = 1 /\ bad = FALSE /\ replaced = <<>>
    /\ saved = <<>> /\ text = <<>> /\ threw = FALSE

TypeOK ==
    /\ stream \in Seq(Tokens)
    /\ index \in Nat
    /\ bad \in BOOLEAN
    /\ replaced \in Seq([slot : Nat, token : Identifiers])
    /\ Len(replaced) <= 1
    /\ saved \in Seq(Nat)
    /\ text \in Texts \cup {<<>>}
    /\ threw \in BOOLEAN

InStream(i) == i \in DOMAIN stream

-----------------------------------------------------------------------------
(* The operations on the members, without the exceptions. *)

next   == index' = index + 1
back   == index' = index - 1
rewind == index' = 1

set_index(i) == index' = i

(* The destructor of auto_index may not throw: it spoils the tokenizer. *)
set_index_noexcept(i) ==
    IF InStream(i) THEN index' = i /\ UNCHANGED bad
                   ELSE bad' = TRUE /\ UNCHANGED index

\* Fault: a token of any type is replaced.
CanReplaceAny == replaced = <<>> /\ InStream(index)

CanReplace ==
    /\ replaced = <<>>
    /\ InStream(index)
    /\ stream[index] \in Identifiers

replace_type_name_token(type) ==
    /\ replaced' = <<[slot |-> index, token |-> stream[index]]>>
    /\ stream' = [stream EXCEPT ![index] = type]

\* Fault: the token is put back where the cursor is now.
restoreAtCursor ==
    IF replaced = <<>>
    THEN UNCHANGED <<stream, replaced>>
    ELSE /\ stream' = [stream EXCEPT ![index] = replaced[1].token]
         /\ replaced' = <<>>

restore_type_name_token ==
    IF replaced = <<>>
    THEN UNCHANGED <<stream, replaced>>
    ELSE /\ stream' = [stream EXCEPT ![replaced[1].slot] = replaced[1].token]
         /\ replaced' = <<>>

(* Parser::parse resets and runs.  "After reset is called, the tokenizer   *)
(* is in the same state as it was just after construction"                 *)
(* (tokenizer.hpp:122), but reset leaves m_replaced_type_name alone.       *)
reset_run(t) ==
    /\ bad' = FALSE
    /\ rewind
    /\ stream' = t
    /\ UNCHANGED replaced

-----------------------------------------------------------------------------
(* The operations as steps of a client. *)

Throws == threw' = TRUE /\ UNCHANGED <<stream, index, bad, replaced, saved, text>>

(* The cursor of a read past the end moves before at() throws. *)
Read ==
    \/ /\ ~bad /\ index <= Len(stream) + MaxOverrun
       /\ next
       /\ threw' = ~InStream(index)
       /\ UNCHANGED <<stream, bad, replaced, saved, text>>
    \/ bad /\ Throws

(* So does that of a read before its beginning. *)
ReadBack ==
    \/ /\ ~bad /\ index > 0
       /\ back
       /\ threw' = ~InStream(index)
       /\ UNCHANGED <<stream, bad, replaced, saved, text>>
    \/ bad /\ Throws

Rewind ==
    \/ /\ ~bad
       /\ rewind
       /\ threw' = FALSE
       /\ UNCHANGED <<stream, bad, replaced, saved, text>>
    \/ bad /\ Throws

Seek(i) ==
    \/ /\ ~bad /\ InStream(i)
       /\ set_index(i)
       /\ threw' = FALSE
       /\ UNCHANGED <<stream, bad, replaced, saved, text>>
    \/ (bad \/ ~InStream(i)) /\ Throws

(* auto_index: remember the cursor and move it, until the guard's end. *)
OpenGuard(i) ==
    \/ /\ ~bad /\ InStream(i) /\ Len(saved) < MaxGuards
       /\ saved' = Append(saved, index)
       /\ set_index(i)
       /\ threw' = FALSE
       /\ UNCHANGED <<stream, bad, replaced, text>>
    \/ (bad \/ ~InStream(i)) /\ Throws

CloseGuard ==
    /\ saved # <<>>
    /\ set_index_noexcept(saved[Len(saved)])
    /\ saved' = SubSeq(saved, 1, Len(saved) - 1)
    /\ threw' = FALSE
    /\ UNCHANGED <<stream, replaced, text>>

Replace(type) ==
    \/ /\ ~bad /\ CanReplace
       /\ replace_type_name_token(type)
       /\ threw' = FALSE
       /\ UNCHANGED <<index, bad, saved, text>>
    \/ (bad \/ ~CanReplace) /\ Throws

Restorable == replaced # <<>> => InStream(replaced[1].slot)

Restore ==
    \/ /\ ~bad /\ Restorable
       /\ restore_type_name_token
       /\ threw' = FALSE
       /\ UNCHANGED <<index, bad, saved, text>>
    \/ (bad \/ ~Restorable) /\ Throws

(* read_save_dispatch_ makes a parser, and so a tokenizer, for each read:  *)
(* only a client that keeps its Parser runs one tokenizer twice.  No guard *)
(* is alive between two parses, whichever way the first one ended.         *)
Run(t) ==
    /\ text = <<>> \/ Reused
    /\ reset_run(t)
    /\ saved' = <<>>
    /\ text' = t
    /\ threw' = FALSE

Next ==
    \/ Read \/ ReadBack \/ Rewind
    \/ \E i \in 1 .. Len(stream) + 1 : Seek(i) \/ OpenGuard(i)
    \/ CloseGuard
    \/ \E type \in Types : Replace(type)
    \/ Restore
    \/ \E t \in Texts : Run(t)

Spec == Init /\ [][Next]_vars

-----------------------------------------------------------------------------
(* The stream is the schema as it was read, but for the one slot a         *)
(* replacement is in force at, whose own token is kept aside.  A template  *)
(* body is parsed again for each instantiation, so a token lost or put     *)
(* back elsewhere would instantiate the next one wrongly                   *)
(* (tokenizer.hpp:136-166).                                                *)
StreamIsText ==
    IF replaced = <<>>
    THEN stream = text
    ELSE LET slot == replaced[1].slot
         IN  /\ slot \in DOMAIN stream
             /\ stream[slot] \in Types
             /\ text = [stream EXCEPT ![slot] = replaced[1].token]
=============================================================================
