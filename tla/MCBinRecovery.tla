---------------------------- MODULE MCBinRecovery ----------------------------
(***************************************************************************)
(* BinRecovery for disks of two blocks, with bytes and a CRC of two bits.  *)
(* The first block is always the same, as on a disk; the second one is     *)
(* anything with a good CRC.  Between them comes what a drive delivers     *)
(* where nothing was written.                                              *)
(***************************************************************************)
EXTENDS BinRecovery

CONSTANTS MaxPulses, MaxGarbage, Gaps

MCPoly == {1, 2}
Zeros(n) == [k \in 1 .. n |-> 0]

\* the bits that pulses stand for after a gap end
Read(pulses) ==
    LET f[k \in 0 .. Len(pulses)] ==
            IF k = 0 THEN [bit |-> 1, bits |-> <<>>, ok |-> TRUE]
            ELSE LET last == f[k - 1]
                     new == Bits(last.bit, pulses[k])
                 IN  IF new = <<>> THEN [last EXCEPT !.ok = FALSE]
                     ELSE [bit |-> new[Len(new)], bits |-> last.bits \o new, ok |-> last.ok]
    IN  f[Len(pulses)]

\* the remainder of some bits, as the disk's own hardware divides
Remainder(bits) ==
    LET f[k \in 0 .. Len(bits)] ==
            IF k = 0 THEN <<1, 0>>
            ELSE LET r == f[k - 1] IN <<(r[2] + bits[k]) % 2, (r[1] + r[2]) % 2>>
    IN  f[Len(bits)]

\* The CRC holds at the end of a block; before, it may.
Sound(bits) == Len(bits) > Width /\ Remainder(bits) = <<0, 0>>

\* Pulses of a block; the last one may stand for a spare bit as well.
Recorded ==
    {p \in UNION {[1 .. n -> 0 .. 2] : n \in 2 .. MaxPulses} :
        LET all == Read(p)
            n == Len(all.bits) - (Len(all.bits) % ByteBits)
        IN  /\ all.ok
            /\ Len(Read(SubSeq(p, 1, Len(p) - 1)).bits) < n
            /\ Sound(SubSeq(all.bits, 1, n))}
\* what crc_detect has after each of the pulses
Run(pulses) ==
    LET f[k \in 0 .. Len(pulses)] ==
            IF k = 0 THEN [bit |-> 1, out |-> 0, crc |-> CrcStart]
            ELSE LET last == f[k - 1]
                     new == Bits(last.bit, pulses[k])
                 IN  [bit |-> new[Len(new)], out |-> last.out + Len(new),
                      crc |-> Register(last.crc, new)]
    IN  f
Block(p) ==
    LET all == Read(p).bits
    IN  [pulses |-> p, bits |-> SubSeq(all, 1, Len(all) - (Len(all) % ByteBits)), run |-> Run(p)]
Blocks == {Block(p) : p \in Recorded}

\* what the drive delivers between a block and the next gap's zeros
Garbage == UNION {[1 .. n -> 0 .. 3] : n \in 0 .. MaxGarbage}

MCHeader == <<1, 2, 2>>
First == Block(<<2, 2>>)

At(block, k) ==
    [first |-> k, last |-> k + Len(block.pulses) - 1, bits |-> block.bits, run |-> block.run]

\* lead-in, gap and gap end, first block, garbage, gap and gap end, block, garbage, zeros
Disk(second, lead, garbage, last, gap, rest) ==
    LET head == lead \o Zeros(gap) \o <<1>>
        middle == garbage \o Zeros(gap) \o <<1>>
        at == Len(head) + Len(First.pulses) + Len(middle)
    IN  [pulses |-> head \o First.pulses \o middle \o second.pulses \o last \o Zeros(rest),
         blocks |-> <<At(First, Len(head)), At(second, at)>>]

\* nothing in a block, or just behind it, looks like the end of a gap
NoGapIn(p) == \A k \in MinGap + 1 .. Len(p) :
    ~(p[k] = 1 /\ \A j \in k - MinGap .. k - 1 : p[j] = 0)

\* where the CRC of the second block holds by chance, nothing looks like its end
NoFalseEnd(d) ==
    LET block == d.blocks[2]
    IN  \A i \in 1 .. block.last - block.first :
            LET new == Bits(block.run[i - 1].bit, d.pulses[block.first + i])
            IN  Holds(block.run[i - 1].crc, block.run[i - 1].out, new)
                    => ~LooksLikeFileEnd(Pulses(d), block.first + i, Len(d.pulses))

Last == <<3, 1>>
MCDisks ==
    {d \in {Disk(b, lead, g, Last, gap, gap) :
                b \in Blocks, lead \in {<<>>, <<1, 3>>, <<1, 1, 1, 1, 1>>},
                g \in Garbage, gap \in Gaps}
           \cup {Disk(b, <<>>, <<>>, last, gap, MaxGap) :
                b \in {c \in Blocks : NoGapIn(c.pulses \o Last)}, last \in {<<>>, Last}, gap \in Gaps} :
        NoFalseEnd(d)}
=============================================================================
