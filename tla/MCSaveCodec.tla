----------------------------- MODULE MCSaveCodec -----------------------------
(* Data of up to five bytes in up to three chunks: more than a chunk, an   *)
(* inflate buffer and a staging buffer hold, and parts enough for a chunk  *)
(* that fills a buffer exactly.  Fields that move those behind them.       *)
EXTENDS SaveCodec

Plain == [GameVersion |-> 46, RequiredMod |-> <<>>, ModMd5 |-> <<>>, ChecksumDWord |-> 0,
          Lma |-> <<<<>>, <<>>, <<>>, <<>>, <<>>>>,
          GameName |-> <<>>, GamePassword |-> <<>>, AdminPassword |-> <<>>,
          CustomMapOptions |-> <<>>, Victories |-> <<>>,
          Options |-> <<Byte(1), Byte(0), Byte(1)>>, MPOptions |-> <<Byte(1), Byte(1)>>,
          Names |-> <<<<>>, <<>>>>, Passwords |-> <<<<>>, <<>>>>]

MCSaves == {
    [Plain EXCEPT !.Lma = <<<<Byte(5)>>, <<Byte(6)>>, <<>>, <<>>, <<Byte(7)>>>>,
                  !.GamePassword = <<Byte(8), Byte(0)>>,
                  !.Victories = <<Byte(1), Byte(1)>>, !.Passwords = <<<<>>, <<Byte(9), Byte(0)>>>>],
    [Plain EXCEPT !.GameName = <<Byte(2), Byte(0)>>, !.AdminPassword = <<Byte(3), Byte(0)>>,
                  !.CustomMapOptions = <<4>>, !.Names = <<<<Byte(2), Byte(0)>>, <<>>>>]}

(* Strings of three characters, one more than can be read: one that goes   *)
(* into the checksum, and one that does not.                               *)
MCLongSaves ==
    {[Plain EXCEPT !.Lma = <<<<>>, <<Byte(5), Byte(6), Byte(7)>>, <<>>, <<>>, <<>>>>],
     [Plain EXCEPT !.GameName = <<Byte(2), Byte(0), Byte(2), Byte(0), Byte(2), Byte(0)>>]}
MCAllSaves == MCSaves \cup MCLongSaves

(* A save for a mod, named by a string and its MD5. *)
MCModSaves == {[Plain EXCEPT !.RequiredMod = <<Byte(65), Byte(66)>>, !.ModMd5 = <<Byte(67)>>]}

MCDatas   == {<<>>, <<Byte(5), Byte(6)>>, <<Byte(5), Byte(6), Byte(7), Byte(8), Byte(9)>>}
MCFooters == {<<>>, <<Byte(9), Byte(8), Byte(9), Byte(8), Byte(9)>>}
MCCompressedSize(n) == n \div 2 + 2
MCCompressBound(n)  == n + 3
=============================================================================
