------------------------------ MODULE PulseCode ------------------------------
(***************************************************************************)
(* From bits to pulse widths and back.  bin_to_raw03 turns the bits of a   *)
(* flash image into the pulses a disk drive would have delivered, and      *)
(* block_decode turns pulses into the bits of a block: it finds the end of *)
(* the gap before the block, then decodes as many bits as the block has.   *)
(*                                                                         *)
(* Every iteration of a loop is a step.  Bits are numbered from 1, pulses  *)
(* from 0.                                                                 *)
(***************************************************************************)
EXTENDS Integers

CONSTANTS
    L,              \* bits of the image, and the size of the pulse buffer
    Images,         \* the images that are considered
    MinGap,         \* MIN_GAP_SIZE
    N               \* bits of the block, its CRC included

ASSUME PulseAssumption ==
    /\ L \in Nat \ {0}
    /\ Images \subseteq [1 .. L -> {0, 1}]
    /\ MinGap \in Nat \ {0}
    /\ N \in Nat \ {0}

VARIABLES
    phase,      \* encode, ready, scan, decode, done, failed
    bits,       \* the image
    i,          \* bits encoded
    bit,        \* the last of them
    raw, out,   \* the pulses, and the number of the one being measured
    in,         \* the pulse to be decoded next
    zeros,      \* the length of the run of zeros before it
    bitval,     \* the last bit decoded
    dst, got,   \* the block, and the bits it has so far
    used,       \* (observability) bits a pulse and those before it stand for
    mark        \* (observability) the bit that ends the gap

vars == <<phase, bits, i, bit, raw, out, in, zeros, bitval, dst, got, used, mark>>
encoder == <<bits, i, bit, raw, out, used>>
decoder == <<in, zeros, bitval, dst, got, mark>>

PulseNumbers == 0 .. L - 1
Byte == 0 .. 255

Init ==
    /\ phase = "encode"
    /\ bits \in Images
    /\ i = 0 /\ bit = 1
    /\ raw = [j \in PulseNumbers |-> 255] /\ out = 0
    /\ in = 0 /\ zeros = 0 /\ bitval = 1
    /\ dst = [k \in 1 .. N + 1 |-> 0] /\ got = 0
    /\ used = [j \in PulseNumbers |-> 0]
    /\ mark = 0

-----------------------------------------------------------------------------
(* bin_to_raw03 *)

\* raw[out] += 2 on a byte
Widen(n) == (n + 2) % 256
Plus1(n) == (n + 1) % 256

\* the next bit; a pulse ends with every 1 and with a 0 after a 0
Encode ==
    /\ phase = "encode" /\ i < L
    /\ LET new == bits[i + 1]
       IN  /\ bit' = new
           /\ \/ /\ bit = 0 /\ new = 0
                 /\ raw' = [raw EXCEPT ![out + 1] = Plus1(@)]
                 /\ out' = out + 1
                 /\ used' = [used EXCEPT ![out] = i + 1]
              \/ /\ new = 1
                 /\ raw' = [raw EXCEPT ![out] = Plus1(@)]
                 /\ out' = out + 1
                 /\ used' = [used EXCEPT ![out] = i + 1]
              \/ /\ bit = 1 /\ new = 0
                 /\ raw' = [raw EXCEPT ![out] = Widen(@)]
                 /\ UNCHANGED <<out, used>>
    /\ i' = i + 1
    /\ UNCHANGED <<phase, bits>> /\ UNCHANGED decoder

\* "fill remainder with (undefined)"
EndEncode ==
    /\ phase = "encode" /\ i = L
    /\ phase' = "ready"
    /\ raw' = [j \in PulseNumbers |-> IF j < out THEN raw[j] ELSE 3]
    /\ UNCHANGED <<bits, i, bit, out, used>> /\ UNCHANGED decoder

-----------------------------------------------------------------------------
(* block_decode *)

\* bits that the first p pulses stand for
Used(p) == IF p = 0 THEN 0 ELSE used[p - 1]
\* The bit before the first is taken to be 1.
BitAt(n) == IF n = 0 THEN 1 ELSE bits[n]

\* Pulse p is where a gap begins, or is in one: nothing but zeros up to bit m, a
\* 1, and enough of them.  After a 1 the first two zeros make one long pulse.
InGap(p, m) ==
    /\ m \in Used(p) + 1 .. L /\ bits[m] = 1
    /\ \A n \in Used(p) + 1 .. m - 1 : bits[n] = 0
    /\ m - 1 - Used(p) >= MinGap + (IF BitAt(Used(p)) = 1 THEN 2 ELSE 0)

\* The caller is between two blocks: fds_to_bin puts a gap before each of them.
BeginBlock(p, m) ==
    /\ phase = "ready"
    /\ InGap(p, m)
    /\ phase' = "scan"
    /\ in' = p /\ mark' = m
    /\ UNCHANGED <<zeros, bitval, dst, got>> /\ UNCHANGED encoder

\* "scan for gap end": a pulse of length 1 after enough of length 0
GapEnds == raw[in] = 1 /\ zeros >= MinGap

\* (mutant) the bit that ends the gap is taken for a 0
ZeroMark == 0
\* the bit that ends the gap
MarkBit == 1

Scan ==
    /\ phase = "scan"
    /\ IF GapEnds
       THEN /\ phase' = "decode"
            /\ in' = in + 1 /\ bitval' = MarkBit
            /\ UNCHANGED zeros
       ELSE /\ zeros' = IF raw[in] = 0 THEN zeros + 1 ELSE 0
            /\ IF in >= L - 2 THEN phase' = "failed" /\ in' = in
               ELSE phase' = phase /\ in' = in + 1
            /\ UNCHANGED bitval
    /\ UNCHANGED <<dst, got, mark>> /\ UNCHANGED encoder

\* what a pulse adds to the block, by its length and the bit before it
Meaning(length, before) ==
    CASE length = 1 /\ before = 1 -> <<0, 0>>
      [] length = 0 /\ before = 0 -> <<0>>
      [] length = 2 /\ before = 1 -> <<0, 1>>
      [] length = 1 /\ before = 0 -> <<1>>
      [] length = 0 /\ before = 1 -> <<1>>
      [] OTHER -> <<0>>                     \* "Unexpected value.  Keep going"

\* (mutant) one bit more than the block has
RunsOver(n) == n > N
BlockFull(n) == n >= N

Decode ==
    /\ phase = "decode"
    /\ IF in >= L
       THEN phase' = "failed" /\ UNCHANGED <<in, bitval, dst, got>>
       ELSE LET new == Meaning(raw[in], bitval)
                two == raw[in] \in {1, 2} /\ bitval = 1
                last == IF two THEN new[2] ELSE new[1]
                total == got + (IF two THEN 2 ELSE 1)
            IN  /\ dst' = [dst EXCEPT ![total] = last]
                /\ got' = total
                /\ bitval' = last
                /\ in' = in + 1
                /\ phase' = IF BlockFull(total) THEN "done" ELSE phase
    /\ UNCHANGED <<zeros, mark>> /\ UNCHANGED encoder

Next ==
    \/ Encode \/ EndEncode
    \/ \E p \in 0 .. out, m \in 1 .. L : BeginBlock(p, m)
    \/ Scan \/ Decode

Spec == Init /\ [][Next]_vars

-----------------------------------------------------------------------------
\* The variables have the values the code can give them.
TypeOK ==
    /\ phase \in {"encode", "ready", "scan", "decode", "done", "failed"}
    /\ bits \in [1 .. L -> {0, 1}]
    /\ i \in 0 .. L /\ bit \in {0, 1}
    /\ raw \in [PulseNumbers -> Byte] /\ out \in 0 .. L
    /\ in \in 0 .. L /\ zeros \in Nat /\ bitval \in {0, 1}
    /\ dst \in [1 .. N + 1 -> {0, 1}] /\ got \in 0 .. N + 1
    /\ used \in [PulseNumbers -> 0 .. L] /\ mark \in 0 .. L

\* The image goes on after the block: its bits are all in pulses that have ended.
Complete == mark + N <= Used(out)

(***************************************************************************)
(* What -s reads back is what -f wrote, bit for bit: a block after a gap   *)
(* is found at the first bit behind the gap's end and decoded to the bits  *)
(* the image has there, whatever they are, and whether or not the last     *)
(* pulse carries one bit more than the block needs.                        *)
(***************************************************************************)
BlockComesBack ==
    Complete =>
        /\ phase # "failed"
        /\ phase = "done" => \A k \in 1 .. N : dst[k] = bits[mark + k]
=============================================================================
