------------------------------- MODULE Layout --------------------------------
(***************************************************************************)
(* Where the fields of a save are, found by seeking past those that come   *)
(* before, and the checksum over some of them.  A stream is a sequence of  *)
(* bytes, offsets count from 0.  A byte that stands for no number is a     *)
(* part of what zlib made of the game data, or a character of an MD5.      *)
(* A seek or a read beyond the end throws: its offset is Failed.           *)
(***************************************************************************)
EXTENDS Integers, Sequences

CONSTANTS
    ChecksumLength,    \* characters of an MD5
    max_string_length  \* and of a string that is read

Byte(n) == <<"byte", n>>
Word(n) == <<Byte(n % 256), Byte(n \div 256), Byte(0), Byte(0)>>
Number(w) == w[1][2] + 256 * w[2][2] + 65536 * w[3][2] + 16777216 * w[4][2]

Has(s, offset, n)   == offset + n <= Len(s)
Slice(s, offset, n) == SubSeq(s, offset + 1, offset + n)
From(s, offset)     == SubSeq(s, offset + 1, Len(s))

Failed == -1
Char   == 1  \* bytes of a character of a string
Wide   == 2  \* and of a wide string

read_int(s, p) == Number(Slice(s, p, 4))

(* What a seek goes past: so many bytes, and as many elements more, each   *)
(* width bytes wide, as the first of them say.                             *)
Field == [fixed : Nat, width : Nat]

Bytes(n)          == <<[fixed |-> n, width |-> 0]>>
Dwords(n)         == Bytes(4 * n)
Strings(n, width) == [i \in 1 .. n |-> [fixed |-> 4, width |-> width]]
Counted(n, width) == <<[fixed |-> 4 * n, width |-> width]>>

SeekPastOne(s, p, field) ==
    IF p = Failed \/ ~Has(s, p, field.fixed) THEN Failed
    ELSE LET end == p + field.fixed + (IF field.width = 0 THEN 0 ELSE field.width * read_int(s, p))
         IN  IF end <= Len(s) THEN end ELSE Failed

seek_to_offset_(s, offset) == IF Has(s, offset, 0) THEN offset ELSE Failed

seek_past_(s, offset, fields) ==
    LET past[p \in Int, rest \in Seq(Field)] ==
          IF rest = <<>> THEN p ELSE past[SeekPastOne(s, p, Head(rest)), Tail(rest)]
    IN  past[seek_to_offset_(s, offset), fields]

(* A string with the length that precedes it, as read_string reads it and  *)
(* write_string writes it again.  One that is too long throws, which a     *)
(* seek past it does not.                                                  *)
TakesString(s, p) == read_int(s, p) <= max_string_length
read_string(s, p, width) == Slice(s, p, 4 + width * read_int(s, p))

TakesStrings(s, p, n, width) ==
    \A i \in 1 .. n : TakesString(s, seek_past_(s, p, Strings(i - 1, width)))
read_strings(s, p, n, width) ==
    Slice(s, p, seek_past_(s, p, Strings(n, width)) - p)

-----------------------------------------------------------------------------
num_lma_strings      == 5
game_version_offset  == 0
required_mod_offset  == 4
checksum_byte_offset == ChecksumLength + 4 + 1

(* Behind the name of the mod, its MD5, and the checksum dword. *)
LmaFields == Strings(2, Char) \o Dwords(1)

SizeFields == LmaFields \o Strings(num_lma_strings, Char)

seek_to_lma_string_(s) == seek_past_(s, required_mod_offset, LmaFields)

seek_to_cv_init_core_md5_size_field(s) == seek_past_(s, required_mod_offset, SizeFields)

seek_to_game_data_element_(s) == seek_past_(s, required_mod_offset, SizeFields \o Dwords(2))

get_cv_init_core_md5_data_size(s) == read_int(s, seek_to_cv_init_core_md5_size_field(s))

(* The sum is not checked: the seek to the magic number behind it is.      *)
get_civ4_compressed_data_offset(s) ==
    IF seek_to_game_data_element_(s) = Failed THEN Failed
    ELSE LET offset == seek_to_game_data_element_(s) + get_cv_init_core_md5_data_size(s)
         IN  IF Has(s, offset, 4) THEN offset ELSE Failed

confirm_zlib_magic(s) ==
    LET offset == get_civ4_compressed_data_offset(s)
    IN  /\ offset # Failed
        /\ Has(s, offset + 4, 1)
        /\ s[offset + 5][1] = "part" /\ s[offset + 5][3] = 1

(* Past the size field, the flags and the type of the game, then its name. *)
GamePasswordFields == SizeFields \o Dwords(3) \o Strings(1, Wide)

seek_to_game_password_hash_(s) == seek_past_(s, required_mod_offset, GamePasswordFields)

seek_to_admin_password_hash_(s) ==
    seek_past_(s, required_mod_offset, GamePasswordFields \o Strings(1, Wide))

\* Fault: the count of the hidden options is taken for the first option.
PlayerFieldsWithoutHidden(players, options, mpoptions) ==
    SizeFields \o Dwords(2) \o Dwords(1) \o Strings(4, Wide) \o Bytes(1) \o Dwords(7)
      \o Counted(1, 4) \o Counted(1, 1) \o Bytes(options) \o Bytes(mpoptions)
      \o Bytes(1) \o Dwords(6) \o Strings(4 * players, Wide)

(* Past the first members of CvInitCore, the custom map options behind the *)
(* counts of all and of the hidden, the victories, the options, and four   *)
(* names of each player.                                                   *)
PlayerFields(players, options, mpoptions) ==
    SizeFields \o Dwords(2) \o Dwords(1) \o Strings(4, Wide) \o Bytes(1) \o Dwords(7)
      \o Counted(2, 4) \o Counted(1, 1) \o Bytes(options) \o Bytes(mpoptions)
      \o Bytes(1) \o Dwords(6) \o Strings(4 * players, Wide)

seek_to_first_player_password_hash_(s, players, options, mpoptions) ==
    seek_past_(s, required_mod_offset, PlayerFields(players, options, mpoptions))

(* The dword behind the game's version. *)
seek_to_checksum_dword_(s) == seek_past_(s, game_version_offset, Dwords(1))

seek_to_checksum_byte_(s) == Len(s) - checksum_byte_offset

-----------------------------------------------------------------------------
(* The parts in the chunks from an offset on, and where the chunks end;    *)
(* Failed if the stream ends first.                                        *)
Unchunked(s, offset) ==
    LET take[p \in 0 .. Len(s)] ==
          IF ~Has(s, p, 4) THEN [parts |-> <<>>, end |-> Failed]
          ELSE LET n == read_int(s, p)
               IN  IF n = 0 THEN [parts |-> <<>>, end |-> p + 4]
                   ELSE IF ~Has(s, p + 4, n) THEN [parts |-> <<>>, end |-> Failed]
                   ELSE [take[p + 4 + n] EXCEPT !.parts = Slice(s, p + 4, n) \o @]
    IN  take[offset]

(* The digest of a sequence of bytes: no two have the same. *)
Md5(bytes) == [k \in 1 .. ChecksumLength |-> <<"md5", bytes, k>>]

write_string(string) == Word(Len(string)) \o string

(* The chunks without their sizes. *)
get_compressed_data_md5_(s) == Md5(Unchunked(s, get_civ4_compressed_data_offset(s)).parts)

(* The bytes behind the size field, as many as it says. *)
get_cv_init_core_md5_(s) ==
    Md5(Slice(s, seek_to_cv_init_core_md5_size_field(s) + 4, get_cv_init_core_md5_data_size(s)))

civ4_md5_magic == <<Byte(77), Byte(230), Byte(64), Byte(187)>>

(* Checksum::get_hash, with the dimensions of the tree being written: the  *)
(* strings it takes, and what it makes of them.                            *)
TakesHash(s, players, options, mpoptions) ==
    /\ TakesStrings(s, seek_to_lma_string_(s), num_lma_strings, Char)
    /\ TakesString(s, seek_to_admin_password_hash_(s))
    /\ TakesString(s, seek_to_game_password_hash_(s))
    /\ TakesStrings(s, seek_to_first_player_password_hash_(s, players, options, mpoptions),
                    players, Wide)

get_hash(s, players, options, mpoptions) ==
    Md5(Slice(s, seek_to_checksum_dword_(s), 4)
        \o Slice(s, game_version_offset, 4)
        \o Slice(s, seek_to_checksum_byte_(s), 1)
        \o read_strings(s, seek_to_lma_string_(s), num_lma_strings, Char)
        \o read_string(s, seek_to_admin_password_hash_(s), Wide)
        \o read_string(s, seek_to_game_password_hash_(s), Wide)
        \o read_strings(s, seek_to_first_player_password_hash_(s, players, options, mpoptions),
                        players, Wide)
        \o write_string(get_compressed_data_md5_(s))
        \o write_string(get_cv_init_core_md5_(s))
        \o civ4_md5_magic)
=============================================================================
