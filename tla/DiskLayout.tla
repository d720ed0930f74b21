----------------------------- MODULE DiskLayout -----------------------------
(***************************************************************************)
(* The layout of a disk side, and the conversions of files that rest on    *)
(* it: -c and -C put gaps, gap ends and CRCs around the blocks of a .fds   *)
(* side (fds_to_bin) and write the image, or its pulses, over the output   *)
(* file, side by side as the user goes on; -F reads the image of a side    *)
(* back into a .fds file (raw03_to_fds).                                   *)
(*                                                                         *)
(* Images are counted in bytes, of which only the place they come from is  *)
(* kept.  That pulses give back the bits they were made from is            *)
(* PulseCode's; here the pulses of a byte are that byte.                   *)
(***************************************************************************)
EXTENDS Integers, Sequences, FiniteSetsExt

CONSTANTS
    Games,          \* the .fds files: sequences of sides
    HeadSize, InfoSize, FileSize,   \* sizes of the blocks 1, 2 and 3
    Gap, MinGap,    \* GAP, and MIN_GAP_SIZE in bytes
    LeadIn, DiskSize,               \* the image of a side
    SlotSize,       \* as much of an image as becomes pulses
    SearchSize,     \* how far findFirstBlock looks, in bytes' worth of pulses
    FdsSize,        \* a side of a .fds file
    MaxFill         \* bound: bytes' worth of undefined pulses behind an image

\* a side: how its first block begins, the type of the second, and its files
Sides == [head : {"hvc", "one", "other"}, info : Nat,
          files : Seq([size : Nat \ {0}, type : Nat])]

\* Blocks 1 and 2 have room in a slot; a file's header has its size behind its type.
ASSUME LayoutAssumption ==
    /\ Games \subseteq Seq(Sides) \ {<<>>}
    /\ {HeadSize, InfoSize, FileSize, MinGap} \subseteq Nat \ {0} /\ FileSize >= 2
    /\ MinGap <= Gap /\ MinGap <= LeadIn /\ SlotSize <= DiskSize
    /\ {Gap, LeadIn, DiskSize, SlotSize, SearchSize, FdsSize, MaxFill} \subseteq Nat
    /\ LeadIn < SearchSize
    /\ LeadIn + HeadSize + 3 + Gap + InfoSize + 3 <= SlotSize

VARIABLES
    pc,             \* idle, side, files, written, decode
    command,        \* -c, -C, -F
    game, side,     \* the .fds file that is converted, and its side
    bin, o, laid,   \* the image, how much there is of it, files in it
    file,           \* the output of -c and -C: nothing, or one image
    raw, in,        \* the pulses -F decodes, and the next one
    fds, out, got,  \* the .fds side and what else was set behind it in memory,
                    \* how much there is of it, blocks in it
    exit            \* Ok. or Failed. of the last command

vars == <<pc, command, game, side, bin, o, laid, file, raw, in, fds, out, got, exit>>
image == <<bin, o, laid>>
decoder == <<raw, in, fds, out, got>>

-----------------------------------------------------------------------------
(* sides and bytes *)

\* A side has a first block that is NINTENDO-HVC, begins with 1 or does neither
\* (head), a block that should be of type 2 (info) and files of two blocks, of
\* which the second should be of type 4.
Blocks(s) == 2 + 2 * Len(s.files)
FileOf(s, b) == s.files[(b - 1) \div 2]
Size(s, b) ==
    CASE b = 1 -> HeadSize
      [] b = 2 -> InfoSize
      [] b > 2 /\ b % 2 = 1 -> FileSize
      [] OTHER -> FileOf(s, b).size
Type(s, b) ==
    CASE b = 1 -> 1
      [] b = 2 -> s.info
      [] b > 2 /\ b % 2 = 1 -> 3
      [] OTHER -> FileOf(s, b).type
Expected(b) == IF b <= 2 THEN b ELSE 4 - (b % 2)

\* <<b, k>> is byte k of block b, if b is not 0.
Zero == <<0, 0>>
Mark == <<0, 1>>
Crc == <<0, 2>>
Other == <<0, 3>>       \* memory behind a buffer
Undefined == <<0, 4>>   \* pulses that are none (3)
Bytes == {Zero, Mark, Crc, Other, Undefined} \cup (Nat \X Nat)

Nothing == [kind |-> "none", side |-> <<>>, bytes |-> <<>>]
Unwritten == [k \in 0 .. DiskSize - 1 |-> Other]
\* the .fds buffer, cleared
NoBytes == [k \in 0 .. FdsSize - 1 |-> Zero]

Init ==
    /\ pc = "idle" /\ command = "-F"
    /\ game = <<>> /\ side = 1 /\ bin = Unwritten /\ o = 0 /\ laid = 0
    /\ file = Nothing
    /\ raw = <<>> /\ in = 0
    /\ fds = NoBytes /\ out = 0 /\ got = 0
    /\ exit = "Ok."

-----------------------------------------------------------------------------
(* FDS_convertDisk and FDS_convertDiskraw03 *)

Returns(result) ==
    /\ pc' = "idle"
    /\ exit' = result
    /\ game' = <<>> /\ side' = 1
    /\ bin' = Unwritten /\ o' = 0 /\ laid' = 0

Convert(c, g) ==
    /\ pc = "idle"
    /\ pc' = "side"
    /\ command' = c
    /\ game' = g /\ side' = 1
    /\ raw' = <<>> /\ in' = 0 /\ fds' = NoBytes /\ out' = 0 /\ got' = 0
    /\ exit' = "Failed."                \* success, until a command returns true
    /\ UNCHANGED <<image, file>>

\* copy_block: gap end, block and CRC
CopyBlock(b, at, block, size) ==
    [k \in DOMAIN b \cup (at .. at + size + 2) |->
        CASE k = at -> Mark
          [] k \in at + 1 .. at + size -> <<block, k - at - 1>>
          [] k \in at + size + 1 .. at + size + 2 -> Crc
          [] OTHER -> b[k]]
After(at, size) == at + size + 3 + Gap

\* (mutant) the buffer is not cleared for the next side
Dirty(b) == b
Cleared(b) == [k \in 0 .. DiskSize - 1 |-> Zero]

\* fds_to_bin up to the second block.  Rejecting a side ends the command with Ok.
BeginSide ==
    /\ pc = "side"
    /\ IF game[side].head # "hvc" THEN Returns("Ok.")
       ELSE LET second == After(LeadIn, HeadSize)
            IN  /\ pc' = "files"
                /\ bin' = CopyBlock(CopyBlock(Cleared(bin), LeadIn, 1, HeadSize),
                                    second, 2, InfoSize)
                /\ o' = After(second, InfoSize)
                /\ laid' = 0
                /\ UNCHANGED <<game, side, exit>>
    /\ UNCHANGED <<command, file, decoder>>

\* (mutant) the gap between the two blocks is forgotten
WithoutGap(size) == FileSize + 3 + size + 3
\* "end + block3 + crc + gap + end + block4 + crc"
Needed(size) == FileSize + 3 + Gap + size + 3

LayFile ==
    /\ pc = "files" /\ laid < Len(game[side].files)
    /\ LET size == game[side].files[laid + 1].size
           second == After(o, FileSize)
       IN  IF o + Needed(size) > DiskSize
           THEN Returns("Ok.")
           ELSE /\ bin' = CopyBlock(CopyBlock(bin, o, 3 + 2 * laid, FileSize),
                                    second, 4 + 2 * laid, size)
                /\ o' = After(second, size)
                /\ laid' = laid + 1
                /\ UNCHANGED <<pc, game, side, exit>>
    /\ UNCHANGED <<command, file, decoder>>

\* so much of an image, and of the memory behind its buffer
FirstBytes(b, n) == [k \in 0 .. n - 1 |-> IF k \in DOMAIN b THEN b[k] ELSE Other]

\* The output of one side is written over that of the one before.
WriteOutput ==
    /\ pc = "files" /\ laid = Len(game[side].files)
    /\ \/ /\ file' = IF command = "-c"
                     THEN [kind |-> "bin", side |-> game[side], bytes |-> FirstBytes(bin, o)]
                     ELSE [kind |-> "raw", side |-> game[side], bytes |-> FirstBytes(bin, SlotSize)]
          /\ pc' = "written" /\ side' = side + 1
          /\ UNCHANGED <<game, image, exit>>
       \/ Returns("Ok.") /\ UNCHANGED file          \* error opening
    /\ UNCHANGED <<command, decoder>>

\* "Push ENTER for next disk side", if there is one that begins with 1
NextSide ==
    /\ pc = "written"
    /\ side <= Len(game) /\ game[side].head # "other"
    /\ pc' = "side"
    /\ UNCHANGED <<command, game, side, image, file, decoder, exit>>

LastSide ==
    /\ pc = "written"
    /\ Returns("Ok.")
    /\ UNCHANGED <<command, file, decoder>>

-----------------------------------------------------------------------------
(* FDS_bintofds *)

\* findFirstBlock: the gap end before the first block
FirstBlock(r) ==
    {k \in DOMAIN r : k < SearchSize /\ r[k] = Mark /\ k + 1 \in DOMAIN r /\ r[k + 1] = <<1, 0>>}
\* (mutant) the gap counts from one byte later
LateStart(at) == at - MinGap + 1
Start(at) == at - MinGap

\* The image of a whole slot is read from a buffer of the file's size: behind it
\* is memory, zero up to some byte.
BinToFds(zeros, fill) ==
    /\ pc = "idle" /\ file.kind = "bin"
    /\ command' = "-F"
    /\ raw' = [k \in 0 .. SlotSize + fill - 1 |->
                IF k >= SlotSize THEN Undefined
                ELSE IF k \in DOMAIN file.bytes THEN file.bytes[k]
                ELSE IF k < Cardinality(DOMAIN file.bytes) + zeros THEN Zero ELSE Other]
    /\ fds' = NoBytes /\ out' = 0 /\ got' = 0
    /\ IF FirstBlock(raw') = {} \/ Start(Min(FirstBlock(raw'))) < 0
       THEN Returns("Failed.") /\ in' = 0
       ELSE /\ pc' = "decode" /\ in' = Start(Min(FirstBlock(raw')))
            /\ exit' = "Failed." /\ UNCHANGED <<game, side, image>>
    /\ UNCHANGED file

CannotConvert ==
    /\ pc = "idle"
    /\ Returns("Failed.")
    /\ command' \in {"-c", "-C", "-F"}
    /\ raw' = <<>> /\ in' = 0 /\ fds' = NoBytes /\ out' = 0 /\ got' = 0
    /\ UNCHANGED file

\* the gap ends from a byte on: what is not zero after enough that is
GapEnds == {k \in in + MinGap .. Cardinality(DOMAIN raw) - 1 :
                /\ raw[k] \notin {Zero, Undefined}
                /\ \A j \in k - MinGap .. k - 1 : raw[j] = Zero}

\* the size of the next block; of the data of a file, its header has it, or
\* whatever was read in its place
NextSizes ==
    CASE got = 0 -> {HeadSize}
      [] got = 1 -> {InfoSize}
      [] got > 1 /\ got % 2 = 0 -> {FileSize}
      [] OTHER -> LET b == fds[out - FileSize + 1]
                  IN  IF b[1] # 0 THEN {Size(file.side, b[1] + 1)}
                      ELSE IF b = Zero THEN {1} ELSE 1 .. FdsSize + 1

\* block_decode without a block: no room, no gap end; the disk ends in the block
NoBlock(size) == out + size > FdsSize \/ GapEnds = {}
CutShort(size) == Min(GapEnds) + size + 2 >= Cardinality(DOMAIN raw)

\* The bits of n bytes are added to what is there: zeros, or behind the buffer anything.
Decoded(n) ==
    [k \in DOMAIN fds \cup (out .. out + n - 1) |->
        IF k \in out .. out + n - 1 THEN
            LET b == raw[Min(GapEnds) + 1 + k - out]
            IN  IF k >= FdsSize THEN Other ELSE IF b = Undefined THEN Zero ELSE b
        ELSE fds[k]]

\* "clear CRC +spare bit"
CrcCleared(f, at) ==
    [k \in DOMAIN f \cup (at .. at + 2) |-> IF k \in at .. at + 2 THEN Zero ELSE f[k]]

\* The last pulse of a block may bring the first bit of the byte that follows.
SpareBit(f, at) == [k \in DOMAIN f \cup {at} |-> IF k = at THEN Other ELSE f[k]]
HasSpareBit(size) ==
    /\ Min(GapEnds) + size + 3 \in DOMAIN raw
    /\ raw[Min(GapEnds) + size + 3] \notin {Zero, Mark, Undefined}

\* whether the block is of the type expected next; of memory, either
RightType(byte) ==
    IF byte[1] # 0 THEN {byte[2] = 0 /\ Type(file.side, byte[1]) = Expected(got + 1)}
    ELSE IF byte = Other THEN BOOLEAN ELSE {FALSE}

\* A block of a wrong type, or one cut short, stays behind the last good one.
DecodeBlock(size) ==
    /\ pc = "decode"
    /\ ~NoBlock(size) /\ ~CutShort(size)
    /\ \/ /\ TRUE \in RightType(raw[Min(GapEnds) + 1])
          /\ fds' = CrcCleared(Decoded(size + 2), out + size)
          /\ out' = out + size /\ got' = got + 1
          /\ in' = Min(GapEnds) + size + 3
          /\ UNCHANGED <<pc, game, side, image, exit>>
       \/ /\ FALSE \in RightType(raw[Min(GapEnds) + 1])
          /\ \/ fds' = Decoded(size + 2)
             \/ HasSpareBit(size) /\ fds' = SpareBit(Decoded(size + 2), out + size + 2)
          /\ Returns(IF got < 2 THEN "Failed." ELSE "Ok.")
          /\ UNCHANGED <<in, out, got>>
    /\ UNCHANGED <<command, file, raw>>

DecodeEnds(size) ==
    /\ pc = "decode"
    /\ \/ NoBlock(size) /\ UNCHANGED fds
       \/ /\ ~NoBlock(size) /\ CutShort(size)
          /\ fds' = Decoded(Cardinality(DOMAIN raw) - Min(GapEnds) - 1)
    /\ Returns(IF got < 2 THEN "Failed." ELSE "Ok.")
    /\ UNCHANGED <<command, file, raw, in, out, got>>

-----------------------------------------------------------------------------
Next ==
    \/ (\E c \in {"-c", "-C"}, g \in Games : Convert(c, g))
    \/ BeginSide \/ LayFile \/ WriteOutput \/ NextSide \/ LastSide
    \/ (\E zeros \in 0 .. MinGap, fill \in 0 .. MaxFill : BinToFds(zeros, fill))
    \/ CannotConvert
    \/ (\E size \in NextSizes : DecodeBlock(size) \/ DecodeEnds(size))

Spec == Init /\ [][Next]_vars

-----------------------------------------------------------------------------
\* The variables have their types.  An image stays in its buffer; of what is behind
\* a .fds side no more than three bytes are set, for the CRC of a block that ends
\* with the side and the bit after it.
TypeOK ==
    /\ pc \in {"idle", "side", "files", "written", "decode"}
    /\ command \in {"-c", "-C", "-F"}
    /\ side \in 1 .. Len(game) + 1
    /\ bin \in [0 .. DiskSize - 1 -> Bytes]
    /\ o \in 0 .. DiskSize + Gap /\ laid \in Nat
    /\ file.kind \in {"none", "bin", "raw"}
    /\ in \in 0 .. Cardinality(DOMAIN raw) /\ out \in 0 .. FdsSize /\ got \in Nat
    /\ 0 .. FdsSize - 1 \subseteq DOMAIN fds /\ DOMAIN fds \subseteq 0 .. FdsSize + 2
    /\ fds \in [DOMAIN fds -> Bytes]
    /\ exit \in {"Ok.", "Failed."}

\* where a block begins in a .fds side, and its gap end in an image
PlaceOf(s, b) ==
    LET place[c \in 1 .. Blocks(s) + 1] ==
            IF c = 1 THEN 0 ELSE place[c - 1] + Size(s, c - 1)
    IN  place[b]
ImagePlace(s, b) == LeadIn + PlaceOf(s, b) + (b - 1) * (3 + Gap)

\* byte k of the image of the first n blocks of a side, by the structure of a disk
ImageByte(s, n, k) ==
    IF \E b \in 1 .. n : k = ImagePlace(s, b) THEN Mark
    ELSE IF \E b \in 1 .. n : k - ImagePlace(s, b) \in 1 .. Size(s, b)
    THEN LET b == CHOOSE c \in 1 .. n : k - ImagePlace(s, c) \in 1 .. Size(s, c)
         IN  <<b, k - ImagePlace(s, b) - 1>>
    ELSE IF \E b \in 1 .. n : k - ImagePlace(s, b) - Size(s, b) \in 1 .. 2 THEN Crc
    ELSE IF k < DiskSize THEN Zero ELSE Other

(***************************************************************************)
(* The output holds the image of one whole side and nothing of another,    *)
(* whatever side was rejected, could not be written or was not asked for.  *)
(***************************************************************************)
OneWholeSide ==
    file # Nothing =>
        \A k \in DOMAIN file.bytes :
            file.bytes[k] = ImageByte(file.side, Blocks(file.side), k)

\* blocks of a side that -F can read: of the right types, within a slot, in a .fds
Readable(s) ==
    LET good(b) == /\ Type(s, b) = Expected(b)
                   /\ ImagePlace(s, b) + Size(s, b) + 3 <= SlotSize
                   /\ PlaceOf(s, b + 1) <= FdsSize
    IN  {b \in 1 .. Blocks(s) : \A c \in 1 .. b : good(c)}

(***************************************************************************)
(* -F brings back what -c was given: all blocks up to the first that is    *)
(* not a disk's or does not fit into a slot, each at its place.  It says   *)
(* Failed if the first two are not among them.                             *)
(***************************************************************************)
SideComesBack ==
    (pc = "idle" /\ command = "-F" /\ raw # <<>>) =>
        /\ \A b \in Readable(file.side), k \in 0 .. FdsSize - 1 :
            k - PlaceOf(file.side, b) \in 0 .. Size(file.side, b) - 1
                => fds[k] = <<b, k - PlaceOf(file.side, b)>>
        /\ exit = "Ok." => {1, 2} \subseteq Readable(file.side)

(***************************************************************************)
(* What FDS_readDisk makes room for ("extra room for CRC junk") and        *)
(* FDS_bintofds does not: block_decode stays in the buffer of the side.    *)
(***************************************************************************)
StaysInSide == DOMAIN fds = 0 .. FdsSize - 1
=============================================================================
