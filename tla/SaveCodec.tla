------------------------------ MODULE SaveCodec ------------------------------
(***************************************************************************)
(* Reading a save file and writing one: the composite stream that inflate  *)
(* makes of the file and deflate turns back, chunk by chunk, with buffers  *)
(* of a fixed size, and the checksum that is put over the end of the file. *)
(* A stream is a sequence of bytes, offsets count from 0 as in the code.   *)
(*                                                                         *)
(* The zlib library is external.  What it makes of the data is a sequence  *)
(* of parts; deflate may hold parts back until the final flush, inflate    *)
(* hands out any prefix of the data until it has seen all of the parts.    *)
(***************************************************************************)
EXTENDS Layout, FiniteSets, SequencesExt

CONSTANTS
    Saves, Datas, Footers,  \* the fields, game data and undocumented bytes of saves
    MaxChunk, BufferSize, StagingSize,  \* bytes of a chunk, an inflate buffer, a staging buffer
    CompressedSize(_),      \* how many parts deflate makes of so many bytes
    compressBound(_),       \* zlib's upper bound on that
    MaxWrites,              \* writes a process makes
    MaxCalls,               \* bound on the calls and edits of a behaviour
    Torn, NoTree

ASSUME SaveCodecAssumption ==
    /\ {ChecksumLength, MaxChunk, StagingSize} \subseteq Nat \ {0}
    /\ BufferSize \in Nat /\ BufferSize >= MaxChunk
    /\ \A d \in Datas : CompressedSize(Len(d)) > 0
                        /\ CompressedSize(Len(d)) < compressBound(Len(d))

VARIABLES
    file,      \* the save on disk
    tree,      \* the caller's tree: its bytes, and the undocumented ones' count
    outcome,   \* how the last call ended
    pc,        \* where the call is
    out,       \* the stream being written
    position,  \* the offset into the stream being read
    zstream,   \* of inflate: the data, the parts seen, the bytes ready and given;
               \* of deflate: the data, the bytes seen, the parts given and copied
    chunks,    \* count_chunks
    avail_out, \* what is left of the compressed buffer
    compressed_buffer_size, \* the function's static, 0 before its initialisation
    calls, writes           \* the calls so far, the writes of this process

stream == <<out, position, zstream, chunks, avail_out>>
vars   == <<file, tree, outcome, pc, stream, compressed_buffer_size, calls, writes>>

-----------------------------------------------------------------------------
Least(a, b) == IF a < b THEN a ELSE b

(* The data compressed is a sequence of parts, the first is the magic.     *)
Parts(data) == [k \in 1 .. CompressedSize(Len(data)) |-> <<"part", data, k>>]

(* A string, or an array with its length, of elements that many bytes wide. *)
Sized(bytes, width) == Word(Len(bytes) \div width) \o bytes
SizedEach(strings, width) == FlattenSeq([i \in DOMAIN strings |-> Sized(strings[i], width)])
Words(n, k) == FlattenSeq([i \in 1 .. n |-> Word(k + i)])

(* GameHeader and the members of CvInitCore that the layout depends on, as *)
(* the schema declares them; the names of the players come before their    *)
(* passwords.                                                              *)
GameHeader(f) ==
    Word(f.GameVersion) \o Sized(f.RequiredMod, Char) \o Sized(f.ModMd5, Char)
      \o Word(f.ChecksumDWord) \o SizedEach(f.Lma, Char)

CvInitCore(f) ==
    Words(2, 0) \o Sized(f.GameName, Wide) \o Sized(f.GamePassword, Wide)
      \o Sized(f.AdminPassword, Wide) \o Sized(<<>>, Wide) \o <<Byte(1)>> \o Words(7, 10)
      \o Word(Len(f.CustomMapOptions)) \o Word(0)
      \o FlattenSeq([i \in DOMAIN f.CustomMapOptions |-> Word(f.CustomMapOptions[i])])
      \o Sized(f.Victories, 1) \o f.Options \o f.MPOptions \o <<Byte(1)>> \o Words(6, 20)
      \o FlattenSeq([i \in 1 .. 4 |-> SizedEach(f.Names, Wide)]) \o SizedEach(f.Passwords, Wide)

Header(f) == GameHeader(f) \o Word(Len(CvInitCore(f))) \o CvInitCore(f) \o Word(0)
Headers   == {[fields |-> f, bytes |-> Header(f)] : f \in Saves}

HeaderIn(bytes) == CHOOSE h \in Headers : IsPrefix(h.bytes, bytes)
HasHeader(bytes) == \E h \in Headers : IsPrefix(h.bytes, bytes)

FooterSize(undocumented) == undocumented + 1 + 4 + ChecksumLength

(* The schema reads every string of the header, and takes none too long. *)
StringLengths(f) ==
    LET chars == {f.RequiredMod, f.ModMd5} \cup ToSet(f.Lma)
        wides == {f.GameName, f.GamePassword, f.AdminPassword} \cup ToSet(f.Names) \cup ToSet(f.Passwords)
    IN  {Len(s) : s \in chars} \cup {Len(s) \div Wide : s \in wides}

SchemaTakes(bytes) ==
    HasHeader(bytes) =>
        \A n \in StringLengths(HeaderIn(bytes).fields) : n <= max_string_length

Idle(call) ==
    /\ pc' = "idle" /\ outcome' = call
    /\ out' = <<>> /\ position' = 0 /\ zstream' = <<>> /\ chunks' = 0 /\ avail_out' = 0

Starts == pc = "idle" /\ calls < MaxCalls /\ calls' = calls + 1

-----------------------------------------------------------------------------
(* read_save: ZLib_engine::inflate, and what the schema reads of its end.  *)

ReadThrows == Idle("threw") /\ tree' = NoTree

ReadSave ==
    /\ Starts
    /\ IF ~confirm_zlib_magic(file) THEN ReadThrows
       ELSE LET offset == get_civ4_compressed_data_offset(file)
            IN  /\ out' = Slice(file, 0, offset) \o Word(0)
                /\ position' = offset
                /\ zstream' = [data |-> file[offset + 5][2], seen |-> 0, ready |-> 0, given |-> 0]
                /\ chunks' = 0
                /\ pc' = "chunk"
                /\ UNCHANGED <<tree, outcome, avail_out>>
    /\ UNCHANGED <<file, compressed_buffer_size, writes>>

ReadChunk ==
    /\ pc = "chunk"
    /\ \/ /\ ~Has(file, position, 4)
          /\ ReadThrows
       \/ /\ Has(file, position, 4)
          /\ LET n     == Number(Slice(file, position, 4))
                 parts == Parts(zstream.data)
                 seen  == zstream.seen + n
             IN  IF n > BufferSize \/ ~Has(file, position + 4, n)
                    \/ Slice(file, position + 4, n) # SubSeq(parts, zstream.seen + 1, seen)
                 THEN ReadThrows
                 ELSE /\ position' = position + 4 + n
                      /\ chunks' = chunks + 1
                      /\ pc' = IF n = 0 THEN "footer" ELSE "inflate"
                      /\ \E ready \in zstream.ready .. Len(zstream.data) :
                            /\ seen = Len(parts) => ready = Len(zstream.data)
                            /\ n = 0 => ready = zstream.ready
                            /\ zstream' = [zstream EXCEPT !.seen = seen, !.ready = ready]
                      /\ UNCHANGED <<tree, outcome, out, avail_out>>
    /\ UNCHANGED <<file, compressed_buffer_size, calls, writes>>

\* Fault: inflate is called once for each chunk, whatever it leaves behind.
InflateOnce ==
    /\ pc = "inflate"
    /\ LET have == Least(BufferSize, zstream.ready - zstream.given)
       IN  /\ out' = out \o SubSeq(zstream.data, zstream.given + 1, zstream.given + have)
           /\ zstream' = [zstream EXCEPT !.given = @ + have]
           /\ pc' = "chunk"
    /\ UNCHANGED <<file, tree, outcome, position, chunks, avail_out,
                   compressed_buffer_size, calls, writes>>

\* Fault: inflate is called again as long as the buffer was not filled.
InflateWhileRoom ==
    /\ pc = "inflate"
    /\ LET have == Least(BufferSize, zstream.ready - zstream.given)
       IN  /\ out' = out \o SubSeq(zstream.data, zstream.given + 1, zstream.given + have)
           /\ zstream' = [zstream EXCEPT !.given = @ + have]
           /\ pc' = IF have < BufferSize THEN "inflate" ELSE "chunk"
    /\ UNCHANGED <<file, tree, outcome, position, chunks, avail_out,
                   compressed_buffer_size, calls, writes>>

(* A full output buffer may not have been enough: inflate is called again. *)
Inflate ==
    /\ pc = "inflate"
    /\ LET have == Least(BufferSize, zstream.ready - zstream.given)
       IN  /\ out' = out \o SubSeq(zstream.data, zstream.given + 1, zstream.given + have)
           /\ zstream' = [zstream EXCEPT !.given = @ + have]
           /\ pc' = IF have = BufferSize THEN "inflate" ELSE "chunk"
    /\ UNCHANGED <<file, tree, outcome, position, chunks, avail_out,
                   compressed_buffer_size, calls, writes>>

(* The footer is found from the counts, as is its undocumented part; the   *)
(* schema then reads a byte and a string that is empty or an MD5; it does  *)
(* not ask whether the stream ends there.                                  *)
ReadFooter ==
    /\ pc = "footer"
    /\ \E offset    \in {get_civ4_compressed_data_offset(file)} :
       \E composite \in {out \o From(file, offset + chunks * 4 + zstream.seen)} :
         LET undocumented == Len(composite) - offset - 4 - zstream.given - 1 - (4 + ChecksumLength)
             string       == Len(composite) - ChecksumLength
             length       == Number(Slice(composite, string - 4, 4))
         IN  IF undocumented < 0 \/ length \notin {0, ChecksumLength}
                \/ ~SchemaTakes(composite) THEN ReadThrows
             ELSE /\ Idle("read")
                  /\ tree' = [bytes |-> Slice(composite, 0, string + length),
                              undocumented |-> undocumented]
    /\ UNCHANGED <<file, compressed_buffer_size, calls, writes>>

-----------------------------------------------------------------------------
(* write_save: the composite stream of the tree, deflated, and sealed.     *)

WriteThrows == Idle("write threw") /\ UNCHANGED tree

GameData(t) ==
    LET offset == get_civ4_compressed_data_offset(t.bytes) + 4
    IN  Slice(t.bytes, offset, Len(t.bytes) - offset - FooterSize(t.undocumented))

WriteSave ==
    /\ tree # NoTree /\ writes < MaxWrites
    /\ Starts
    /\ writes' = writes + 1
    /\ LET offset == get_civ4_compressed_data_offset(tree.bytes)
           data   == GameData(tree)
       IN  IF ~Has(tree.bytes, offset + 4, FooterSize(tree.undocumented))
           THEN WriteThrows /\ UNCHANGED compressed_buffer_size
           ELSE /\ out' = Slice(tree.bytes, 0, offset)
                /\ position' = 0
                /\ zstream' = [data |-> data, seen |-> 0, given |-> 0, copied |-> 0]
                /\ compressed_buffer_size' = IF compressed_buffer_size = 0
                                             THEN compressBound(Len(data))
                                             ELSE compressed_buffer_size
                /\ avail_out' = compressed_buffer_size'
                /\ pc' = "deflate"
                /\ UNCHANGED <<tree, outcome, chunks>>
    /\ UNCHANGED file

Deflate ==
    /\ pc = "deflate"
    /\ LET seen  == Least(zstream.seen + StagingSize, Len(zstream.data))
           parts == CompressedSize(Len(zstream.data))
       IN  \E given \in zstream.given .. parts :
             /\ seen = Len(zstream.data) => given = parts  \* Z_SYNC_FLUSH
             /\ IF given - zstream.given >= avail_out THEN WriteThrows
                ELSE /\ zstream' = [zstream EXCEPT !.seen = seen, !.given = given]
                     /\ avail_out' = avail_out - (given - zstream.given)
                     /\ pc' = IF seen = Len(zstream.data) THEN "copy" ELSE "deflate"
                     /\ UNCHANGED <<tree, outcome, out, position, chunks>>
    /\ UNCHANGED <<file, compressed_buffer_size, calls, writes>>

CopyChunk ==
    /\ pc = "copy" /\ zstream.copied < zstream.given
    /\ LET n == Least(zstream.given - zstream.copied, MaxChunk)
       IN  /\ out' = out \o Word(n) \o Slice(Parts(zstream.data), zstream.copied, n)
           /\ zstream' = [zstream EXCEPT !.copied = @ + n]
    /\ UNCHANGED <<file, tree, outcome, pc, position, chunks, avail_out,
                   compressed_buffer_size, calls, writes>>

CopyFooter ==
    /\ pc = "copy" /\ zstream.copied = zstream.given
    /\ LET offset == get_civ4_compressed_data_offset(tree.bytes)
       IN  out' = out \o Word(0) \o From(tree.bytes, offset + 4 + zstream.seen)
    /\ pc' = "checksum"
    /\ UNCHANGED <<file, tree, outcome, position, zstream, chunks, avail_out,
                   compressed_buffer_size, calls, writes>>

(* The string is written where the one that ends the stream began; the     *)
(* dimensions its hash needs are those of the tree's arrays.               *)
WriteChecksum ==
    /\ pc = "checksum"
    /\ \E f \in {HeaderIn(tree.bytes).fields} :
         IF ~TakesHash(out, Len(f.Names), Len(f.Options), Len(f.MPOptions)) THEN WriteThrows
         ELSE /\ out' = Slice(out, 0, Len(out) - 4 - ChecksumLength)
                        \o write_string(get_hash(out, Len(f.Names), Len(f.Options), Len(f.MPOptions)))
              /\ pc' = "save"
              /\ UNCHANGED <<tree, outcome, position, zstream, chunks, avail_out>>
    /\ UNCHANGED <<file, compressed_buffer_size, calls, writes>>

SaveFile ==
    /\ pc = "save"
    /\ file' = out
    /\ Idle("wrote")
    /\ UNCHANGED <<tree, compressed_buffer_size, calls, writes>>

(* The process ends while it overwrites the file, and another one begins.  *)
Crash ==
    /\ pc = "save"
    /\ \E n \in 0 .. Len(out) - 1 : file' = Slice(out, 0, n)
    /\ Idle("crashed")
    /\ tree' = NoTree /\ compressed_buffer_size' = 0 /\ writes' = 0
    /\ UNCHANGED calls

-----------------------------------------------------------------------------
(* A caller edits the header or the game data of its tree, and keeps the   *)
(* size of the CvInitCore right.                                           *)
Edited(t) ==
    {[t EXCEPT !.bytes = h.bytes \o Word(0) \o data
                           \o From(@, Len(@) - FooterSize(t.undocumented))] :
        h \in Headers, data \in Datas}

Edit ==
    /\ Starts
    /\ tree # NoTree
    /\ tree' \in Edited(tree)
    /\ UNCHANGED <<file, outcome, pc, stream, compressed_buffer_size, writes>>

(* A file as the game writes it: the first chunk may be shorter.           *)
Chunked(parts, first) ==
    LET start(i) == IF i = 1 THEN 0 ELSE first + (i - 2) * MaxChunk
        size(i)  == Least(start(i + 1), Len(parts)) - start(i)
        count    == Cardinality({i \in 1 .. Len(parts) : start(i) < Len(parts)})
    IN  FlattenSeq([i \in 1 .. count |-> Word(size(i)) \o Slice(parts, start(i), size(i))])

(* The checksum as its description lists what goes into it.                *)
ChecksumOf(f, data, byte) ==
    Md5(Word(f.ChecksumDWord) \o Word(f.GameVersion) \o <<byte>> \o SizedEach(f.Lma, Char)
        \o Sized(f.AdminPassword, Wide) \o Sized(f.GamePassword, Wide) \o SizedEach(f.Passwords, Wide)
        \o Sized(Md5(Parts(data)), Char) \o Sized(Md5(CvInitCore(f)), Char) \o civ4_md5_magic)

GameFile(h, data, undocumented, first) ==
    h.bytes \o Chunked(Parts(data), first) \o Word(0) \o undocumented \o <<Byte(1)>>
      \o Sized(ChecksumOf(h.fields, data, Byte(1)), Char)

Init ==
    /\ file \in {GameFile(h, d, u, first) :
                    h \in Headers, d \in Datas, u \in Footers, first \in 1 .. MaxChunk}
    /\ tree = NoTree /\ outcome = "none" /\ pc = "idle"
    /\ out = <<>> /\ position = 0 /\ zstream = <<>> /\ chunks = 0 /\ avail_out = 0
    /\ compressed_buffer_size = 0 /\ calls = 0 /\ writes = 0

Continue == ReadChunk \/ Inflate \/ ReadFooter \/ Deflate \/ CopyChunk \/ CopyFooter
              \/ WriteChecksum \/ SaveFile

Next == ReadSave \/ WriteSave \/ Edit \/ Continue \/ Crash

(* A call that has begun goes on until it returns or throws: at each pc    *)
(* one step of it is possible, and stays so until it is taken.             *)
Fairness ==
    /\ WF_vars(ReadChunk) /\ WF_vars(Inflate) /\ WF_vars(ReadFooter)
    /\ WF_vars(Deflate) /\ WF_vars(CopyChunk) /\ WF_vars(CopyFooter)
    /\ WF_vars(WriteChecksum) /\ WF_vars(SaveFile)

Spec == Init /\ [][Next]_vars /\ Fairness

-----------------------------------------------------------------------------
(* What the file holds, read in one piece: no save if a string of it is    *)
(* longer than can be read.                                                *)
Contents(s) ==
    LET offset == Len(HeaderIn(s).bytes)
        take   == Unchunked(s, offset)
        data   == take.parts[1][2]
        count  == Len(s) - take.end - FooterSize(0)
    IN  IF ~HasHeader(s) \/ ~SchemaTakes(s) THEN Torn
        ELSE IF take.end = Failed \/ count < 0 THEN Torn
        ELSE IF take.parts # Parts(data) THEN Torn
        ELSE IF Slice(s, Len(s) - ChecksumLength - 4, 4) # Word(ChecksumLength) THEN Torn
        ELSE [bytes |-> Slice(s, 0, offset) \o Word(0) \o data \o From(s, take.end),
              undocumented |-> count]

Checksum(s) == From(s, Len(s) - ChecksumLength)

Described(t) ==
    LET h     == HeaderIn(t.bytes)
        start == Len(h.bytes) + 4
        end   == Len(t.bytes) - FooterSize(t.undocumented)
    IN  ChecksumOf(h.fields, SubSeq(t.bytes, start + 1, end), t.bytes[Len(t.bytes) - 4 - ChecksumLength])

Sealed(t) == [t EXCEPT !.bytes = Slice(@, 0, Len(@) - ChecksumLength) \o Described(t)]

IsReadable(t) == SchemaTakes(t.bytes)

Promise == INSTANCE SaveStore WITH stored <- Contents(file), result <- outcome

(* A read returns the whole save that is in the file, whatever the sizes   *)
(* of its chunks and the pace of zlib, and throws when a crash has torn    *)
(* the file at any byte; a write stores the tree with its footer and a     *)
(* checksum over the fields that the game is described to look at, where   *)
(* the strings, passwords and options before them put them; only a tree    *)
(* with a string too long to be read is refused, or makes a file that is   *)
(* (zlib-engine.cpp:133-496, c4lib.cpp:63, checksum.cpp:58, layout.cpp).   *)
ImplementsSaveStore == Promise!Spec

(* Every call returns or throws. *)
CallsReturn == pc # "idle" ~> pc = "idle"

(* "avail_out should never reach zero because the single output buffer was *)
(* sized to accommodate all decompressed data using compressBound"         *)
(* (zlib-engine.cpp:282-283): no write throws for want of room.            *)
BufferAccommodates == outcome # "write threw"

(* "ChecksumDWord (see Civ4 savegame layout in paragraph above)" is what   *)
(* the hash begins with, and "RequiredMod [...] Does not impact the        *)
(* checksum algorithm" (Use of MD5 in Binary Savegames.txt:24, :8): a save *)
(* that was written carries the checksum described.                        *)
ChecksumAsDescribed == outcome = "wrote" => Checksum(file) = Described(tree)
=============================================================================
