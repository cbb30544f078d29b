------------------------------ MODULE NodeCodec ------------------------------
(***************************************************************************)
(* How the value of a leaf becomes bytes of a save, and these a value.     *)
(* A leaf has a type, the size in bytes that its type-name says, and data: *)
(* an integer, or a string.  A character of a wide string is known by its  *)
(* units in UTF-16; what is not UTF-8 in it counts as a character without  *)
(* units.                                                                  *)
(***************************************************************************)
EXTENDS Integers, SequencesExt

CONSTANTS
    Radix,              \* how many values a byte has
    md5_length,
    max_string_length,
    Surrogates          \* the units that come in pairs: sets of the first and the second

ASSUME NodeCodecAssumption ==
    /\ Radix \in Nat /\ Radix > 1 /\ Radix % 2 = 0
    /\ md5_length \in Nat /\ max_string_length \in Nat
    /\ Surrogates.high \cap Surrogates.low = {}

IsInteger(leaf) == leaf.type \in {"bool", "hex", "int", "uint", "enum"}
IsSigned(leaf)  == leaf.type \in {"int", "enum"}
IsWide(leaf)    == leaf.type = "u16string"

\* Little-endian, a negative integer as its complement.
IntBytes(n, size) == [k \in 1..size |-> ((n % Radix^size) \div Radix^(k - 1)) % Radix]

FromBytes(bytes) ==
    LET sum[k \in 0..Len(bytes)] == IF k = 0 THEN 0 ELSE sum[k - 1] + bytes[k] * Radix^(k - 1)
    IN  sum[Len(bytes)]

\* Fault: the value of a signed type is not extended by its sign.
AsRead(n, size) == n
AsSigned(n, size) == IF n < Radix^size \div 2 THEN n ELSE n - Radix^size

-----------------------------------------------------------------------------
\* Writing.

Integers(size, signed) ==
    IF signed THEN -(Radix^size \div 2) .. Radix^size \div 2 - 1 ELSE 0 .. Radix^size - 1

\* An integer is extracted from the text of the data with so many bytes, which
\* takes the complement of an unsigned one with a sign, and narrowed to its size.
Extracts(n, width, signed) ==
    n \in (IF signed THEN Integers(width, TRUE) ELSE -(Radix^width - 1) .. Radix^width - 1)

IntegerFits(leaf, width) ==
    LET signed == IsSigned(leaf)
    IN  /\ Extracts(leaf.data, width, signed)
        /\ (IF signed THEN leaf.data ELSE leaf.data % Radix^width) \in Integers(leaf.size, signed)

IsMd5Length(n) == n \in {0, md5_length}

StringFits(leaf) ==
    /\ IsWide(leaf) => <<>> \notin ToSet(leaf.data)
    /\ leaf.type = "md5" => IsMd5Length(Len(leaf.data))

\* Binary_node_writer extracts int and uint32_t, Translation_node_writer the
\* type of the size itself, for which Boost takes an int if it is a char.
BinaryTakes(leaf) == IF IsInteger(leaf) THEN IntegerFits(leaf, 4) ELSE StringFits(leaf)
TranslationTakes(leaf) ==
    IF IsInteger(leaf) THEN IntegerFits(leaf, IF leaf.size = 1 THEN 4 ELSE leaf.size)
    ELSE StringFits(leaf)

\* A wide string is its units, of two bytes each; a string its bytes.
Units(leaf) == IF IsWide(leaf) THEN FlattenSeq(leaf.data) ELSE leaf.data
UnitSize(leaf) == IF IsWide(leaf) THEN 2 ELSE 1

write_string(leaf) ==
    LET units == Units(leaf)
    IN  IntBytes(Len(units), 4)
          \o FlattenSeq([i \in DOMAIN units |-> IntBytes(units[i], UnitSize(leaf))])

Encode(leaf) == IF IsInteger(leaf) THEN IntBytes(leaf.data, leaf.size) ELSE write_string(leaf)

-----------------------------------------------------------------------------
\* Reading, from the front of a stream.

Taken(stream, n) == SubSeq(stream, 1, n)
StringLength(stream) == FromBytes(Taken(stream, 4))
StringSize(leaf, stream) == 4 + UnitSize(leaf) * StringLength(stream)

SizeInStream(leaf, stream) == IF IsInteger(leaf) THEN leaf.size ELSE StringSize(leaf, stream)

UnitsInStream(leaf, stream) ==
    [i \in 1..StringLength(stream) |->
        LET last == 4 + UnitSize(leaf) * i
        IN  FromBytes(SubSeq(stream, last - UnitSize(leaf) + 1, last))]

IsUtf16(units) ==
    \A i \in DOMAIN units :
        /\ units[i] \in Surrogates.high => i < Len(units) /\ units[i + 1] \in Surrogates.low
        /\ units[i] \in Surrogates.low  => i > 1 /\ units[i - 1] \in Surrogates.high

Characters(units) ==
    LET from[i \in 1..Len(units) + 1] ==
          IF i > Len(units) THEN <<>>
          ELSE LET last == IF units[i] \in Surrogates.high THEN i + 1 ELSE i
               IN  <<SubSeq(units, i, last)>> \o from[last + 1]
    IN  from[1]

ReadsString(leaf, stream) ==
    /\ Len(stream) >= 4
    /\ StringLength(stream) <= max_string_length
    /\ Len(stream) >= StringSize(leaf, stream)
    /\ IsWide(leaf) => IsUtf16(UnitsInStream(leaf, stream))
    /\ leaf.type = "md5" => IsMd5Length(StringLength(stream))

Reads(leaf, stream) ==
    IF IsInteger(leaf) THEN Len(stream) >= leaf.size ELSE ReadsString(leaf, stream)

Decode(leaf, stream) ==
    CASE IsSigned(leaf) -> AsSigned(FromBytes(Taken(stream, leaf.size)), leaf.size)
      [] IsInteger(leaf) /\ ~IsSigned(leaf) -> FromBytes(Taken(stream, leaf.size))
      [] IsWide(leaf) -> Characters(UnitsInStream(leaf, stream))
      [] OTHER -> UnitsInStream(leaf, stream)
=============================================================================
