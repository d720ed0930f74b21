------------------------------ MODULE DiskRead ------------------------------
(***************************************************************************)
(* -r and -R: FDS_readDisk asks the adapter for the pulses of a disk, one  *)
(* packet per feature report, until a packet is not full, and saves them.  *)
(*                                                                         *)
(* The drive does not wait for the host: the adapter loses packets when it *)
(* is not asked in time, and only their numbers, of one byte, tell.  A     *)
(* packet's pulses are its position on the disk here.                      *)
(***************************************************************************)
EXTENDS Naturals, Sequences

CONSTANTS
    ReadMax,        \* bytes in a full packet (DISK_READMAX)
    BufSize,        \* bytes in the buffer (READBUFSIZE)
    SeqNumbers,     \* packet numbers before they repeat (256)
    MaxLost         \* bound: packets lost one after another

ASSUME ReadAssumption ==
    /\ ReadMax \in Nat \ {0}
    /\ BufSize \in Nat /\ BufSize >= ReadMax
    /\ SeqNumbers \in Nat \ {0}
    /\ MaxLost \in Nat

VARIABLES
    reading,        \* where FDS_readDisk is; "ok" and "failed" are its results
    read_sequence,  \* the number the host expects
    bytesIn,        \* bytes in the buffer
    readBuf,        \* the packets in it
    number,         \* the number of the adapter's next packet
    passed,         \* packets that have passed the head
    lost,           \* those of them lost since the last one handed over
    ended,          \* the disk has no full packet left
    saved           \* what the file holds

reader == <<read_sequence, bytesIn, readBuf, saved>>
source == <<number, passed, lost, ended>>
readVars == <<reading, reader, source>>

\* (mutant) the numbers are not kept in a byte
Widened(n) == n + 1
\* uint8_t
After(n) == (n + 1) % SeqNumbers

ReadInit ==
    /\ reading = "start"
    /\ read_sequence = 0 /\ bytesIn = 0 /\ readBuf = <<>>
    /\ number = After(0) /\ passed = 0 /\ lost = 0 /\ ended = FALSE
    /\ saved = "nothing"

-----------------------------------------------------------------------------
(* the adapter and the drive *)

Overrun ==
    /\ reading = "read" /\ ~ended
    /\ lost < MaxLost
    /\ number' = After(number)
    /\ passed' = passed + 1 /\ lost' = lost + 1
    /\ UNCHANGED <<reading, reader, ended>>

DiskEnds ==
    /\ reading = "read" /\ ~ended
    /\ ended' = TRUE
    /\ UNCHANGED <<reading, reader, number, passed, lost>>

\* sizes of the packet the adapter has now: full ones until the disk ends
Sizes == IF ended THEN 1 .. ReadMax - 1 ELSE {ReadMax}

-----------------------------------------------------------------------------
(* FDS_readDisk *)

\* dev_readStart; the adapter begins to read when the report arrives
ReadStart ==
    /\ reading = "start"
    /\ read_sequence' = After(0)
    /\ reading' \in {"read", "failed"}
    /\ UNCHANGED <<bytesIn, readBuf, saved, source>>

\* (mutants) any packet will do; the buffer is filled to its end
AnyNumber == TRUE
WhileRoom(size) == size = ReadMax /\ bytesIn + size < BufSize
\* while(result==DISK_READMAX && bytesIn<READBUFSIZE-DISK_READMAX)
More(size) == size = ReadMax /\ bytesIn + size < BufSize - ReadMax
InSequence == number = read_sequence

\* dev_readDisk with a result above 2: the packet is copied and its number seen.
\* The -1 a failed read adds to bytesIn is not used again.
ReadPacket ==
    /\ reading = "read"
    /\ read_sequence' = After(read_sequence)
    /\ number' = After(number)
    /\ passed' = passed + 1 /\ lost' = 0
    /\ \E size \in Sizes :
        IF InSequence
        THEN /\ readBuf' = Append(readBuf, passed + 1)
             /\ bytesIn' = bytesIn + size
             /\ reading' = IF More(size) THEN "read" ELSE "save"
        ELSE /\ reading' = "failed"
             /\ UNCHANGED <<readBuf, bytesIn>>
    /\ UNCHANGED <<saved, ended>>

\* an empty packet: its number is not looked at
ReadNothing ==
    /\ reading = "read" /\ ended
    /\ reading' = "save"
    /\ UNCHANGED <<reader, source>>

\* "timed out / bad read"
ReadFails ==
    /\ reading = "read"
    /\ reading' = "failed"
    /\ UNCHANGED <<reader, source>>

\* The pulses are decoded, or not (raw03_to_fds), and the file is written, or
\* not (fopen).  Neither result is looked at.
Save ==
    /\ reading = "save"
    /\ saved' \in {"nothing", "zeros", "side"}
    /\ reading' = "ok"
    /\ UNCHANGED <<read_sequence, bytesIn, readBuf, source>>

ReadNext ==
    \/ Overrun \/ DiskEnds
    \/ ReadStart \/ ReadPacket \/ ReadNothing \/ ReadFails \/ Save

ReadSpec == ReadInit /\ [][ReadNext]_readVars

-----------------------------------------------------------------------------
\* The variables have the values the code can give them.
ReadTypeOK ==
    /\ reading \in {"start", "read", "save", "ok", "failed"}
    /\ read_sequence \in 0 .. SeqNumbers - 1
    /\ bytesIn \in Nat
    /\ readBuf \in Seq(Nat)
    /\ number \in 0 .. SeqNumbers - 1
    /\ passed \in Nat
    /\ lost \in 0 .. MaxLost
    /\ ended \in BOOLEAN
    /\ saved \in {"nothing", "zeros", "side"}

(***************************************************************************)
(* What is read is the beginning of the disk, without a packet missing or  *)
(* twice, as long as the adapter does not lose a whole cycle of numbers in *)
(* a row: dev_readDisk sees every loss in front of a packet.               *)
(***************************************************************************)
ReadIsPrefix ==
    MaxLost < SeqNumbers => \A i \in DOMAIN readBuf : readBuf[i] = i

(***************************************************************************)
(* dev_readDisk copies a packet before anything is checked: whenever it is *)
(* called the largest packet fits in what is left of the buffer.           *)
(***************************************************************************)
RoomForPacket ==
    /\ reading = "read" => bytesIn + ReadMax <= BufSize
    /\ bytesIn <= BufSize
=============================================================================
