--------------------------- MODULE TokenizerProofs ---------------------------
(***************************************************************************)
(* A tokenizer that reads one schema file, as the one of a read_save does, *)
(* never loses a token of it, however its clients move the cursor, nest    *)
(* their guards, replace and restore, and whatever throws in between.      *)
(* StreamIsText is not inductive alone: it takes the types of the tokens,  *)
(* and that a second run is excluded because a text has been read.  The    *)
(* types need neither, so they come first and hold of every tokenizer.     *)
(***************************************************************************)
EXTENDS Tokenizer, TLAPS

(* A stream stays one of tokens when one of its slots gets another token. *)
LEMMA SlotUpdate ==
    ASSUME NEW s \in Seq(Tokens), NEW i \in DOMAIN s, NEW t \in Tokens
    PROVE  /\ [s EXCEPT ![i] = t] \in Seq(Tokens)
           /\ DOMAIN [s EXCEPT ![i] = t] = DOMAIN s
           /\ \A u : [[s EXCEPT ![i] = t] EXCEPT ![i] = u] = [s EXCEPT ![i] = u]
           /\ [s EXCEPT ![i] = s[i]] = s
<1>1. [s EXCEPT ![i] = t] \in Seq(Tokens)
  OBVIOUS
<1>2. DOMAIN [s EXCEPT ![i] = t] = DOMAIN s
  OBVIOUS
<1>3. ASSUME NEW u PROVE [[s EXCEPT ![i] = t] EXCEPT ![i] = u] = [s EXCEPT ![i] = u]
  OBVIOUS
<1>4. [s EXCEPT ![i] = s[i]] = s
  OBVIOUS
<1> QED
  BY <1>1, <1>2, <1>3, <1>4

LEMMA FirstElement ==
    ASSUME NEW S, NEW s \in Seq(S), s # <<>>
    PROVE  s[1] \in S
<1>1. Len(s) # 0
  OBVIOUS
<1> QED
  BY <1>1

LEMMA NoReplacement == <<>> \in Seq([slot : Nat, token : Identifiers]) /\ Len(<<>>) <= 1
  OBVIOUS

-----------------------------------------------------------------------------
(* Types. *)

LEMMA InitTypes == Init => TypeOK
<1> SUFFICES ASSUME Init PROVE TypeOK
  OBVIOUS
<1>1. <<>> \in Seq(Tokens) /\ <<>> \in Seq(Nat)
  OBVIOUS
<1> QED
  BY <1>1, NoReplacement DEF Init, TypeOK

LEMMA ThrowsTypes == TypeOK /\ Throws => TypeOK'
  BY DEF Throws, TypeOK

LEMMA CursorTypes ==
    ASSUME TypeOK
    PROVE  /\ index \in Nat /\ bad \in BOOLEAN /\ saved \in Seq(Nat) /\ Len(stream) \in Nat
           /\ \A i : InStream(i) \in BOOLEAN
  BY DEF TypeOK, InStream

LEMMA CursorMovesTypes ==
    ASSUME TypeOK, UNCHANGED <<stream, replaced, text>>,
           index' \in Nat, bad' \in BOOLEAN, saved' \in Seq(Nat), threw' \in BOOLEAN
    PROVE  TypeOK'
  BY DEF TypeOK

LEMMA ReadTypes == TypeOK /\ (Read \/ ReadBack \/ Rewind) => TypeOK'
<1> SUFFICES ASSUME TypeOK, Read \/ ReadBack \/ Rewind, ~Throws PROVE TypeOK'
  BY ThrowsTypes
<1>1. UNCHANGED <<stream, bad, replaced, saved, text>>
  BY DEF Read, ReadBack, Rewind
<1>2. index' \in Nat /\ threw' \in BOOLEAN
  <2>1. CASE Read
    <3>1. index' = index + 1 /\ threw' = ~InStream(index)
      BY <2>1 DEF Read, next
    <3> QED
      BY <3>1, CursorTypes
  <2>2. CASE ReadBack
    <3>1. index > 0 /\ index' = index - 1 /\ threw' = ~InStream(index)
      BY <2>2 DEF ReadBack, back
    <3> QED
      BY <3>1, CursorTypes
  <2>3. CASE Rewind
    <3>1. index' = 1 /\ threw' = FALSE
      BY <2>3 DEF Rewind, rewind
    <3> QED
      BY <3>1
  <2> QED
    BY <2>1, <2>2, <2>3
<1> QED
  BY <1>1, <1>2, CursorTypes, CursorMovesTypes

LEMMA SeekTypes ==
    ASSUME TypeOK, NEW i \in 1 .. Len(stream) + 1, Seek(i) \/ OpenGuard(i)
    PROVE  TypeOK'
<1> SUFFICES ASSUME ~Throws PROVE TypeOK'
  BY ThrowsTypes
<1>1. UNCHANGED <<stream, bad, replaced, text>>
  BY DEF Seek, OpenGuard
<1>2. i \in Nat
  BY CursorTypes
<1>3. index' \in Nat /\ threw' \in BOOLEAN
  <2>1. index' = i /\ threw' = FALSE
    BY DEF Seek, OpenGuard, set_index
  <2> QED
    BY <1>2, <2>1
<1>4. saved' \in Seq(Nat)
  BY CursorTypes DEF Seek, OpenGuard
<1> QED
  BY <1>1, <1>3, <1>4, CursorTypes, CursorMovesTypes

LEMMA CloseGuardTypes == TypeOK /\ CloseGuard => TypeOK'
<1> SUFFICES ASSUME TypeOK, CloseGuard PROVE TypeOK'
  OBVIOUS
<1>1. saved # <<>> /\ saved \in Seq(Nat)
  BY CursorTypes DEF CloseGuard
<1>2. saved[Len(saved)] \in Nat /\ SubSeq(saved, 1, Len(saved) - 1) \in Seq(Nat)
  BY <1>1
<1>3. index' \in Nat /\ bad' \in BOOLEAN
  BY <1>2, CursorTypes DEF CloseGuard, set_index_noexcept
<1> QED
  BY <1>2, <1>3, CursorMovesTypes DEF CloseGuard

(* What a step that replaces does, without its alternative that throws. *)
LEMMA Replaces ==
    ASSUME TypeOK, NEW type \in Types, Replace(type), ~Throws
    PROVE  /\ replaced = <<>> /\ index \in DOMAIN stream /\ stream[index] \in Identifiers
           /\ replaced' = <<[slot |-> index, token |-> stream[index]]>>
           /\ stream' = [stream EXCEPT ![index] = type]
           /\ stream' \in Seq(Tokens) /\ DOMAIN stream' = DOMAIN stream
           /\ threw' = FALSE /\ UNCHANGED <<index, bad, saved, text>>
<1>1. /\ replaced = <<>> /\ index \in DOMAIN stream /\ stream[index] \in Identifiers
      /\ replaced' = <<[slot |-> index, token |-> stream[index]]>>
      /\ stream' = [stream EXCEPT ![index] = type]
      /\ threw' = FALSE /\ UNCHANGED <<index, bad, saved, text>>
  BY DEF Replace, CanReplace, InStream, replace_type_name_token
<1>2. stream \in Seq(Tokens) /\ type \in Tokens
  BY TokenizerAssumption DEF TypeOK
<1>3. stream' \in Seq(Tokens) /\ DOMAIN stream' = DOMAIN stream
  BY <1>1, <1>2, SlotUpdate
<1> QED
  BY <1>1, <1>3

LEMMA ReplaceTypes ==
    ASSUME TypeOK, NEW type \in Types, Replace(type)
    PROVE  TypeOK'
<1> SUFFICES ASSUME ~Throws PROVE TypeOK'
  BY ThrowsTypes
<1>1. /\ stream[index] \in Identifiers
      /\ replaced' = <<[slot |-> index, token |-> stream[index]]>>
      /\ stream' \in Seq(Tokens)
      /\ threw' = FALSE /\ UNCHANGED <<index, bad, saved, text>>
  BY Replaces
<1>2. replaced' \in Seq([slot : Nat, token : Identifiers]) /\ Len(replaced') <= 1
  BY <1>1, CursorTypes
<1> QED
  BY <1>1, <1>2 DEF TypeOK

(* What a step that restores does where there is something to restore. *)
LEMMA Restores ==
    ASSUME TypeOK, Restore, ~Throws, replaced # <<>>
    PROVE  /\ replaced[1].slot \in DOMAIN stream
           /\ replaced[1].token \in Tokens
           /\ stream' = [stream EXCEPT ![replaced[1].slot] = replaced[1].token]
           /\ replaced' = <<>> /\ threw' = FALSE
           /\ UNCHANGED <<index, bad, saved, text>>
<1>1. replaced[1] \in [slot : Nat, token : Identifiers]
  BY FirstElement DEF TypeOK
<1>2. replaced[1].token \in Tokens
  BY <1>1, TokenizerAssumption
<1> QED
  BY <1>2 DEF Restore, Restorable, InStream, restore_type_name_token

LEMMA RestoresNothing ==
    ASSUME Restore, ~Throws, replaced = <<>>
    PROVE  UNCHANGED <<stream, replaced, index, bad, saved, text>> /\ threw' = FALSE
  BY DEF Restore, restore_type_name_token

LEMMA RestoreTypes == TypeOK /\ Restore => TypeOK'
<1> SUFFICES ASSUME TypeOK, Restore, ~Throws PROVE TypeOK'
  BY ThrowsTypes
<1>1. CASE replaced = <<>>
  BY <1>1, RestoresNothing, CursorTypes, CursorMovesTypes
<1>2. CASE replaced # <<>>
  <2> DEFINE slot == replaced[1].slot
             token == replaced[1].token
  <2>1. slot \in DOMAIN stream /\ token \in Tokens /\ stream' = [stream EXCEPT ![slot] = token]
    BY <1>2, Restores
  <2>2. stream' \in Seq(Tokens)
    <3> HIDE DEF slot, token
    <3> QED BY <2>1, SlotUpdate DEF TypeOK
  <2> QED
    BY <1>2, <2>2, Restores, NoReplacement DEF TypeOK
<1> QED
  BY <1>1, <1>2

LEMMA RunTypes ==
    ASSUME TypeOK, NEW t \in Texts, Run(t)
    PROVE  TypeOK'
<1>1. /\ bad' = FALSE /\ index' = 1 /\ stream' = t /\ replaced' = replaced
      /\ saved' = <<>> /\ text' = t /\ threw' = FALSE
  BY DEF Run, reset_run, rewind
<1>2. t \in Seq(Tokens) /\ <<>> \in Seq(Nat)
  BY TokenizerAssumption
<1> QED
  BY <1>1, <1>2 DEF TypeOK

LEMMA NextTypes == TypeOK /\ [Next]_vars => TypeOK'
<1> SUFFICES ASSUME TypeOK, [Next]_vars PROVE TypeOK'
  OBVIOUS
<1>1. CASE Read \/ ReadBack \/ Rewind
  BY <1>1, ReadTypes
<1>2. CASE \E i \in 1 .. Len(stream) + 1 : Seek(i) \/ OpenGuard(i)
  BY <1>2, SeekTypes
<1>3. CASE CloseGuard
  BY <1>3, CloseGuardTypes
<1>4. CASE \E type \in Types : Replace(type)
  BY <1>4, ReplaceTypes
<1>5. CASE Restore
  BY <1>5, RestoreTypes
<1>6. CASE \E t \in Texts : Run(t)
  BY <1>6, RunTypes
<1>7. CASE UNCHANGED vars
  BY <1>7 DEF vars, TypeOK
<1> QED
  BY <1>1, <1>2, <1>3, <1>4, <1>5, <1>6, <1>7 DEF Next

(* The tokenizer's state is well formed, even of one that is reset while a *)
(* replacement is in force: tokens are overwritten by tokens only, and     *)
(* what is kept aside is an identifier (tokenizer.cpp,                     *)
(* replace_type_name_token and restore_type_name_token).                   *)
THEOREM TypeCorrect == Spec => []TypeOK
  BY InitTypes, NextTypes, PTL DEF Spec

-----------------------------------------------------------------------------
(* The stream and the text.  Most steps leave both alone. *)

LEMMA UntouchedStream == StreamIsText /\ UNCHANGED <<stream, replaced, text>> => StreamIsText'
  BY DEF StreamIsText

LEMMA ThrowsStream == StreamIsText /\ Throws => StreamIsText'
  BY DEF StreamIsText, Throws

LEMMA ReplaceStream ==
    ASSUME TypeOK, StreamIsText, NEW type \in Types, Replace(type)
    PROVE  StreamIsText'
<1> SUFFICES ASSUME ~Throws PROVE StreamIsText'
  BY ThrowsStream
<1>1. /\ replaced = <<>> /\ index \in DOMAIN stream
      /\ replaced' = <<[slot |-> index, token |-> stream[index]]>>
      /\ stream' = [stream EXCEPT ![index] = type] /\ DOMAIN stream' = DOMAIN stream
      /\ text' = text
  BY Replaces
<1>2. replaced' # <<>> /\ replaced'[1].slot = index /\ replaced'[1].token = stream[index]
  BY <1>1
<1>3. stream \in Seq(Tokens) /\ type \in Tokens /\ stream = text
  BY <1>1, TokenizerAssumption DEF TypeOK, StreamIsText
<1>4. stream'[index] = type
  BY <1>1, <1>3
<1>5. [stream' EXCEPT ![index] = stream[index]] = stream
  BY <1>1, <1>3, SlotUpdate
<1> QED
  BY <1>1, <1>2, <1>3, <1>4, <1>5 DEF StreamIsText

LEMMA RestoreStream == TypeOK /\ StreamIsText /\ Restore => StreamIsText'
<1> SUFFICES ASSUME TypeOK, StreamIsText, Restore, ~Throws PROVE StreamIsText'
  BY ThrowsStream
<1>1. CASE replaced = <<>>
  BY <1>1, RestoresNothing, UntouchedStream
<1>2. CASE replaced # <<>>
  BY <1>2, Restores DEF StreamIsText
<1> QED
  BY <1>1, <1>2

(* While a replacement is in force, the stream it is in has been read. *)
LEMMA RunStream ==
    ASSUME StreamIsText, Reused = FALSE, NEW t \in Texts, Run(t)
    PROVE  StreamIsText'
<1>1. text = <<>> /\ stream' = t /\ replaced' = replaced /\ text' = t
  BY DEF Run, reset_run
<1>2. replaced = <<>>
  <2> SUFFICES ASSUME replaced # <<>> PROVE FALSE
    OBVIOUS
  <2>1. replaced[1].slot \in DOMAIN stream
        /\ text = [stream EXCEPT ![replaced[1].slot] = replaced[1].token]
    BY DEF StreamIsText
  <2>2. DOMAIN text = DOMAIN stream
    BY <2>1
  <2> QED
    BY <1>1, <2>1, <2>2
<1> QED
  BY <1>1, <1>2 DEF StreamIsText

LEMMA NextStream == Reused = FALSE /\ TypeOK /\ StreamIsText /\ [Next]_vars => StreamIsText'
<1> SUFFICES ASSUME Reused = FALSE, TypeOK, StreamIsText, [Next]_vars PROVE StreamIsText'
  OBVIOUS
<1>1. CASE Read \/ ReadBack \/ Rewind
  BY <1>1, UntouchedStream, ThrowsStream DEF Read, ReadBack, Rewind
<1>2. CASE \E i \in 1 .. Len(stream) + 1 : Seek(i) \/ OpenGuard(i)
  BY <1>2, UntouchedStream, ThrowsStream DEF Seek, OpenGuard
<1>3. CASE CloseGuard
  BY <1>3, UntouchedStream DEF CloseGuard
<1>4. CASE \E type \in Types : Replace(type)
  BY <1>4, ReplaceStream
<1>5. CASE Restore
  BY <1>5, RestoreStream
<1>6. CASE \E t \in Texts : Run(t)
  BY <1>6, RunStream
<1>7. CASE UNCHANGED vars
  BY <1>7, UntouchedStream DEF vars
<1> QED
  BY <1>1, <1>2, <1>3, <1>4, <1>5, <1>6, <1>7 DEF Next

(* In the tokenizer of one read, every token of the schema is in its slot  *)
(* but the one being replaced, and that one is kept                        *)
(* (tokenizer.hpp:136-166).                                                *)
THEOREM StreamStaysText ==
    ASSUME Reused = FALSE
    PROVE  Spec => []StreamIsText
<1>1. Init => StreamIsText
  BY DEF Init, StreamIsText
<1>2. TypeOK /\ StreamIsText /\ [Next]_vars => StreamIsText'
  BY NextStream
<1> QED
  BY <1>1, <1>2, TypeCorrect, PTL DEF Spec
=============================================================================
