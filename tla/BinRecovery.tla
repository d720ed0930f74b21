----------------------------- MODULE BinRecovery -----------------------------
(***************************************************************************)
(* What -R saves as .bin (raw03_to_bin): the pulses of a whole disk side,  *)
(* of which nobody says where a block begins or ends.  Four passes over    *)
(* the pulses mark the gaps: after glitches, before the first block, after *)
(* whatever has a good CRC, and at every long gap near a mark.  Then the   *)
(* pulses are decoded and each block is aligned to a byte.                 *)
(*                                                                         *)
(* An iteration of a loop over the pulses is a step; the short loops of    *)
(* findFirstBlock, mark_gap_start, looks_like_file_end and nextGapEnd are  *)
(* operators.  Pulses are numbered from 0, as are the bits of the result.  *)
(* All lengths are constants, among them the width of the CRC.             *)
(***************************************************************************)
EXTENDS Integers, Sequences, FiniteSets

CONSTANTS
    Disks,          \* the recordings: pulses, and where the blocks are
    Header,         \* pulses a disk's first block begins with (dat)
    SearchLimit,    \* pulses findFirstBlock looks at (0x2000*8)
    ShortGap, PostGlitch, LongGap, LongPostGlitch,  \* of raw03_to_bin
    MinGap, MaxGap, \* of looks_like_file_end and nextGapEnd
    ByteBits,       \* bits of a byte (8)
    Width, Poly     \* of the CRC, and the bits of its polynomial (0x10810)

ASSUME RecoveryAssumption ==
    /\ \A d \in Disks : d.pulses \in Seq(0 .. 3) \ {<<>>}
    /\ Header \in Seq(0 .. 2) /\ Len(Header) >= 2
    /\ {SearchLimit, ShortGap, PostGlitch, LongGap, LongPostGlitch, MinGap, MaxGap} \subseteq Nat
    /\ ByteBits \in Nat \ {0} /\ Width \in Nat \ {0}
    /\ Poly \subseteq 1 .. Width

VARIABLES
    pass,           \* glitches, header, detect, next, gaps, output, done
    recording,      \* the recording as it came
    raw,            \* its pulses with the marks: 3 starts a gap, 255 ends one
    in,             \* the pulse that is looked at
    from,           \* where crc_detect was started
    glitch, junk, zeros,
    crc, match,     \* of crc_detect; crc is the set of the bits that are 1
    bitval, out,    \* the last bit decoded, and the number of bits
    bin,            \* the bits of the result that are 1
    starts          \* the lastBlockStart of each block found

recoveryVars ==
    <<pass, recording, raw, in, from, glitch, junk, zeros, crc, match, bitval, out, bin, starts>>
marking == <<glitch, junk, zeros>>
detecting == <<from, crc, match>>
decoding == <<bitval, out>>
result == <<bin, starts>>

\* the pulses of a recording, numbered from 0
Pulses(d) == [k \in 0 .. Len(d.pulses) - 1 |-> d.pulses[k + 1]]

rawSize == Len(recording.pulses)
GapEnd == 255

RecoveryInit ==
    /\ pass = "glitches"
    /\ recording \in Disks
    /\ raw = Pulses(recording)
    /\ in = 0 /\ from = 0
    /\ glitch = 0 /\ junk = 0 /\ zeros = 0
    /\ crc = {} /\ match = FALSE
    /\ bitval = 0 /\ out = 0
    /\ bin = {} /\ starts = <<>>

-----------------------------------------------------------------------------
(* helpers on the pulses *)

\* n zeros just before k, all of them from f on
ZerosBefore(r, f, k, n) == k - n >= f /\ \A j \in k - n .. k - 1 : r[j] = 0

\* mark_gap_start: the first of the zeros that end before end
GapStart(r, end) ==
    CHOOSE k \in 0 .. end :
        /\ \A j \in k .. end - 1 : r[j] = 0
        /\ k = 0 \/ r[k - 1] # 0
MarkGapStart(r, end) == [r EXCEPT ![GapStart(r, end)] = 3]

\* the first block's header at k
HeaderAt(r, k) == \A j \in 1 .. Len(Header) : r[k + j - 1] = Header[j]

\* findFirstBlock
FirstBlock ==
    LET places == {k \in 0 .. rawSize - Len(Header) :
                    k + Len(Header) <= SearchLimit /\ HeaderAt(raw, k)}
    IN  IF places = {} THEN -1
        ELSE CHOOSE k \in places : \A j \in places : k <= j

\* a gap that ends soon, or the end of the recording
LooksLikeFileEnd(r, k, size) ==
    \/ k + MaxGap >= size
    \/ \E j \in k .. size - 1 :
        j < k + MaxGap /\ r[j] = 1 /\ ZerosBefore(r, k, j, MinGap + 1)

\* where gaps end that begin at k or later
GapEnds(r, k, last) == {j \in k .. last : r[j] = 1 /\ ZerosBefore(r, k, j, MinGap)}

\* the pulse after the next gap end; beyond the pulses if there is none
NextGapEnd(k) ==
    LET ends == GapEnds(raw, k, rawSize - 1)
    IN  IF ends = {} THEN rawSize + 1
        ELSE 1 + CHOOSE j \in ends : \A i \in ends : j <= i

\* the bits a pulse stands for after a bit; none if it cannot be there
Bits(b, pulse) ==
    CASE b = 1 /\ pulse = 0 -> <<1>>
      [] b = 1 /\ pulse = 1 -> <<0, 0>>
      [] b = 1 /\ pulse = 2 -> <<0, 1>>
      [] b = 0 /\ pulse = 0 -> <<0>>
      [] b = 0 /\ pulse = 1 -> <<1>>
      [] OTHER -> <<>>

\* a bit into the CRC, LSB first
Shift(c, b) ==
    LET d == c \cup (IF b = 1 THEN {Width} ELSE {})
        e == IF 0 \in d THEN (d \ Poly) \cup (Poly \ d) ELSE d
    IN  {k - 1 : k \in e \ {0}}

\* the CRC holds, on a byte boundary
Matches(c, n) == c = {} /\ n % ByteBits = 0
\* the register after the gap end
CrcStart == {Width - 1}

\* the register after the bits of a pulse, and whether the CRC held at one of them
Register(c, new) ==
    IF Len(new) = 1 THEN Shift(c, new[1]) ELSE Shift(Shift(c, new[1]), new[2])
Holds(c, n, new) ==
    \/ Matches(Shift(c, new[1]), n + 1)
    \/ Len(new) = 2 /\ Matches(Register(c, new), n + 2)

-----------------------------------------------------------------------------
(***************************************************************************)
(* What is taken for granted of a recording.  Between two blocks come      *)
(* fewer than LongPostGlitch pulses of anything, then a gap, long enough   *)
(* to keep more than LongGap zeros when its first two are marked, then the *)
(* gap's end, all within MaxGap of the block.  Nothing else outside the    *)
(* blocks looks like a gap's end, and nothing like the first header comes  *)
(* earlier, which is where findFirstBlock still looks.  A block can be     *)
(* decoded, and its CRC holds at its end; before, only where nothing looks *)
(* like the end of a file.  The recording ends soon after the last block,  *)
(* or that block has nothing like a gap's end in it.                       *)
(***************************************************************************)
GapFrom(block) == block.first - LongGap - 4

\* run: what crc_detect has after each pulse of a block
IsRun(p, block, n) ==
    LET run == block.run
        size == block.last - block.first + 1
    IN  /\ block.bits \in Seq({0, 1})
        /\ run \in [0 .. size -> [bit : {0, 1}, out : Nat, crc : SUBSET (0 .. Width - 1)]]
        /\ run[0] = [bit |-> 1, out |-> 0, crc |-> CrcStart]
        /\ Len(block.bits) <= run[size].out
        /\ \A i \in 1 .. size :
            LET last == run[i - 1]
                new == Bits(last.bit, p[block.first + i - 1])
            IN  /\ new # <<>>
                /\ run[i] = [bit |-> new[Len(new)], out |-> last.out + Len(new),
                             crc |-> Register(last.crc, new)]
                /\ \A k \in 1 .. Len(new) :
                    last.out + k <= Len(block.bits) => block.bits[last.out + k] = new[k]
                /\ IF i = size THEN Holds(last.crc, last.out, new)
                   ELSE ~(/\ Holds(last.crc, last.out, new)
                          /\ LooksLikeFileEnd(p, block.first + i, n))

WellRecorded(d) ==
    LET p == Pulses(d)
        n == Len(d.pulses)
        blocks == d.blocks
        first == blocks[1]
        last == blocks[Len(blocks)]
    IN  /\ Len(blocks) \in Nat \ {0}
        /\ \A b \in 1 .. Len(blocks) :
            /\ {blocks[b].first, blocks[b].last} \subseteq Nat /\ 0 <= GapFrom(blocks[b])
            /\ blocks[b].first <= blocks[b].last /\ blocks[b].last < n
            /\ \A k \in GapFrom(blocks[b]) .. blocks[b].first - 2 : p[k] = 0
            /\ p[blocks[b].first - 1] = 1
            /\ IsRun(p, blocks[b], n)
        /\ \A b, c \in 1 .. Len(blocks) : b < c => blocks[b].last < GapFrom(blocks[c])
        /\ \A b \in 1 .. Len(blocks) - 1 :
            /\ \A k \in blocks[b].last + LongPostGlitch .. blocks[b + 1].first - 2 : p[k] = 0
            /\ blocks[b + 1].first <= blocks[b].last + MaxGap + 1
        /\ HeaderAt(p, first.first - 1) /\ Len(Header) <= first.last - first.first + 2
        /\ first.first - 1 + Len(Header) <= SearchLimit
        /\ \A k \in 0 .. first.first - 2 : ~HeaderAt(p, k)
        /\ GapEnds(p, 0, first.first - 2) = {} /\ GapEnds(p, last.last + 1, n - 1) = {}
        /\ \/ n <= last.last + 1 + MaxGap
           \/ GapEnds(p, last.first, n - 1) = {}

ASSUME RecordingAssumption ==
    /\ {ShortGap, PostGlitch, LongPostGlitch, MinGap, ByteBits} \subseteq 0 .. LongGap
    /\ 2 <= LongPostGlitch /\ LongPostGlitch <= MinGap
    /\ \A d \in Disks : WellRecorded(d)

-----------------------------------------------------------------------------
(* a run of zeros near a glitch is a gap *)

NearGlitch == glitch # 0 /\ junk # 0 /\ junk - glitch < PostGlitch

FindGlitches ==
    /\ pass = "glitches" /\ in < rawSize
    /\ \/ raw[in] = 3 /\ glitch' = in /\ junk' = 0 /\ zeros' = 0 /\ UNCHANGED raw
       \/ raw[in] \in {1, 2} /\ junk' = in /\ zeros' = 0 /\ UNCHANGED <<raw, glitch>>
       \/ /\ raw[in] = 0
          /\ zeros' = zeros + 1
          /\ IF NearGlitch /\ zeros' > ShortGap
             THEN raw' = MarkGapStart(raw, in) /\ glitch' = 0
             ELSE UNCHANGED <<raw, glitch>>
          /\ UNCHANGED junk
    /\ in' = in + 1
    /\ UNCHANGED <<pass, recording>> /\ UNCHANGED <<detecting, decoding, result>>

MarkLeadIn(r, end) == MarkGapStart(r, end)

FindHeader ==
    /\ pass = "glitches" /\ in >= rawSize
    /\ raw' = IF FirstBlock > 0 THEN MarkLeadIn(raw, FirstBlock - 1) ELSE raw
    /\ IF FirstBlock + 1 > 0
       THEN pass' = "detect" /\ in' = FirstBlock + 1 /\ from' = in' /\ zeros' = zeros
       ELSE pass' = "gaps" /\ in' = 0 /\ zeros' = 0 /\ UNCHANGED from
    /\ glitch' = 0
    /\ crc' = CrcStart /\ match' = FALSE /\ bitval' = 1 /\ out' = 0
    /\ UNCHANGED <<recording, junk, result>>

-----------------------------------------------------------------------------
(* what has a good CRC is a file *)

\* crc_detect returns, the end of the file is marked, nextGapEnd is called
Detected(r, start) ==
    /\ raw' = r
    /\ from' = start
    /\ pass' = "next"

\* the mark may be just behind the recording
MarkFileEnd(r, k) == IF k < rawSize THEN [r EXCEPT ![k] = 3] ELSE r

EndsHere(k) == LooksLikeFileEnd(raw, k, rawSize)

Detect ==
    /\ pass = "detect"
    /\ LET new == Bits(bitval, raw[in])
       IN  \/ new = <<>> /\ Detected(raw, from) /\ UNCHANGED <<in, crc, match, decoding>>
           \/ /\ new # <<>>
              /\ in' = in + 1
              /\ out' = out + Len(new)
              /\ bitval' = new[Len(new)]
              /\ crc' = Register(crc, new)
              /\ match' = Holds(crc, out, new)
              /\ \/ match' /\ EndsHere(in') /\ Detected(MarkFileEnd(raw, in'), in')
                 \/ ~match' /\ in' >= rawSize /\ Detected(raw, from)
                 \/ /\ ~(match' /\ EndsHere(in')) /\ in' < rawSize
                    /\ UNCHANGED <<pass, raw, from>>
    /\ UNCHANGED <<recording, marking, result>>

ToNextGap ==
    /\ pass = "next"
    /\ LET next == NextGapEnd(from)
       IN  IF next < rawSize
           THEN pass' = "detect" /\ in' = next /\ from' = next /\ zeros' = zeros
           ELSE pass' = "gaps" /\ in' = 0 /\ zeros' = 0 /\ UNCHANGED from
    /\ glitch' = 0
    /\ crc' = CrcStart /\ match' = FALSE /\ bitval' = 1 /\ out' = 0
    /\ UNCHANGED <<recording, raw, junk, result>>

-----------------------------------------------------------------------------
(* a long gap near a mark ends a block *)

\* (mutant) any long gap
Long == zeros > LongGap
EndsGap == zeros > LongGap /\ in - zeros - LongPostGlitch < glitch

MarkGaps ==
    /\ pass = "gaps" /\ in < rawSize
    /\ glitch' = IF raw[in] = 3 THEN in ELSE glitch
    /\ raw' = IF raw[in] = 1 /\ EndsGap
              THEN [MarkGapStart(raw, in) EXCEPT ![in] = GapEnd] ELSE raw
    /\ zeros' = IF raw[in] = 0 THEN zeros + 1 ELSE 0
    /\ in' = in + 1
    /\ UNCHANGED <<pass, recording, junk>> /\ UNCHANGED <<detecting, decoding, result>>

StartOutput ==
    /\ pass = "gaps" /\ in >= rawSize
    /\ pass' = "output"
    /\ in' = 0 /\ out' = 0 /\ bitval' = 0
    /\ UNCHANGED <<recording, raw, marking>> /\ UNCHANGED <<detecting, result>>

\* (mutant) the block goes on where the gap ended
Unaligned(n) == n + 1
Align(n) == (n \div ByteBits + 1) * ByteBits

\* the gap end takes the whole byte
BlockBegins ==
    /\ raw[in] = GapEnd
    /\ out' = Align(out)
    /\ bin' = (bin \ (out - (out % ByteBits) .. out' - 1)) \cup {out' - 1}
    /\ starts' = Append(starts, out' \div ByteBits)
    /\ bitval' = 1

\* (mutant) a bit is counted before it is written
CountedFirst(n) == n
\* where the last of n bits is
LastBit(n) == n - 1

BitsFollow ==
    /\ raw[in] # GapEnd
    /\ LET new == Bits(bitval, raw[in])
       IN  IF new = <<>>
           THEN out' = out + 1 /\ bitval' = 0 /\ UNCHANGED bin
           ELSE /\ out' = out + Len(new)
                /\ bitval' = new[Len(new)]
                /\ bin' = IF bitval' = 1 THEN bin \cup {LastBit(out')} ELSE bin
    /\ UNCHANGED starts

Output ==
    /\ pass = "output" /\ in < rawSize
    /\ BlockBegins \/ BitsFollow
    /\ in' = in + 1
    /\ UNCHANGED <<pass, recording, raw, marking>> /\ UNCHANGED detecting

Finish ==
    /\ pass = "output" /\ in >= rawSize
    /\ pass' = "done"
    /\ UNCHANGED <<recording, raw, in, marking>> /\ UNCHANGED <<detecting, decoding, result>>

-----------------------------------------------------------------------------
RecoveryNext ==
    \/ FindGlitches \/ FindHeader \/ Detect \/ ToNextGap
    \/ MarkGaps \/ StartOutput \/ Output \/ Finish

RecoverySpec == RecoveryInit /\ [][RecoveryNext]_recoveryVars

-----------------------------------------------------------------------------
\* The variables have the values the code can give them.
RecoveryTypeOK ==
    /\ pass \in {"glitches", "detect", "next", "gaps", "output", "done"}
    /\ raw \in [0 .. rawSize - 1 -> (0 .. 3) \cup {GapEnd}]
    /\ in \in 0 .. rawSize /\ from \in 0 .. rawSize
    /\ glitch \in 0 .. rawSize - 1 /\ junk \in 0 .. rawSize - 1
    /\ zeros \in 0 .. rawSize
    /\ crc \subseteq 0 .. Width - 1 /\ match \in BOOLEAN
    /\ bitval \in {0, 1}
    /\ out \in 0 .. 2 * rawSize + ByteBits * Len(starts)
    /\ \A k \in bin : k \in 0 .. out - 1
    /\ starts \in Seq(Nat)

(***************************************************************************)
(* No mark is ever set inside a block: what the passes take for the start  *)
(* or the end of a gap is one, whatever the drive delivers between the     *)
(* blocks and whatever the blocks contain.                                 *)
(***************************************************************************)
BlocksIntact ==
    \A b \in 1 .. Len(recording.blocks) :
        \A k \in recording.blocks[b].first .. recording.blocks[b].last :
            raw[k] = recording.pulses[k + 1]

\* a block of the disk begins at a byte of the result, after zeros and the gap end
ComesOut(block, start) ==
    LET n == start * ByteBits
    IN  /\ \A k \in 1 .. Len(block.bits) : (n + k - 1 \in bin) <=> (block.bits[k] = 1)
        /\ n - 1 \in bin
        /\ \A k \in n - LongGap .. n - 2 : k \notin bin

(***************************************************************************)
(* Every block of the disk becomes a block of the .bin, in the same order, *)
(* byte for byte, with its gap end before it and a gap before that.        *)
(***************************************************************************)
BlocksComeOut ==
    pass = "done" =>
        /\ Len(starts) = Len(recording.blocks)
        /\ \A b \in 1 .. Len(starts) : ComesOut(recording.blocks[b], starts[b])
=============================================================================
