----------------------------- MODULE MCTokenizer -----------------------------
(* A template with one type-name and one variable, and a shorter schema;   *)
(* two types to instantiate with.                                          *)
EXTENDS Tokenizer

MCIdentifiers == {"T", "x"}
MCTypes       == {"int", "string"}
MCTokens      == MCIdentifiers \cup MCTypes \cup {"eos"}
MCTexts       == {<<"T", "x", "int", "x", "T", "eos">>, <<"int", "x", "eos">>}
=============================================================================
