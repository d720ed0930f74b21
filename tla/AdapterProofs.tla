----------------------------- MODULE AdapterProofs ----------------------------
(***************************************************************************)
(* Between the program and the adapter: a disk is written, a disk is read, *)
(* and the blocks are found in what was read.                              *)
(*                                                                         *)
(* DiskWrite, and why a disk holds its side: the host only changes the     *)
(* SRAM while nothing is being written, so a writing adapter copies the    *)
(* image it was started with, and that image was complete when every       *)
(* report of it went well.                                                 *)
(*                                                                         *)
(* DiskRead, and why the buffer is a prefix of the disk: packets come in   *)
(* order, and a number that is not the expected one ends the reading.      *)
(*                                                                         *)
(* BinRecovery, and why every block comes out: each pass leaves the blocks *)
(* and the gaps before them alone, but for the marks it promises; so the   *)
(* next pass finds the gap ends it looks for, and no others.               *)
(***************************************************************************)
EXTENDS DiskWrite, DiskRead, BinRecovery, WellFoundedInduction, TLAPS

Waiting == Waits = {"enter", "run"}

\* an image that is being sent, and the adapter meanwhile
Sending ==
    Waiting /\ pc \in {"clear", "fill", "start"} => ~Writing

Progress ==
    /\ pc = "clear" /\ intact => \A k \in Cell : k < pos => sram[k] = Zero
    /\ pc = "fill" =>
        /\ game[side] = Bad => pos = 0
        /\ game[side] # Bad => pos < Length[game[side]]
        /\ intact => \A k \in Cell :
                        sram[k] = IF k < pos THEN game[side] ELSE Zero
    /\ pc = "start" =>
        /\ game[side] \in Sides
        /\ intact => sram = ImageOf(game[side])

\* what is written is the side, and so is what is still to be written
Copied ==
    Waiting /\ target # Nothing =>
        \A k \in Cell :
            /\ k < head => disk[k] = ImageOf(target)[k]
            /\ k >= head => sram[k] = ImageOf(target)[k]

Asking == pc = "prompt" => side < Len(game)

Inv == TypeOK /\ Asking /\ Progress /\ Sending /\ Copied

LEMMA Facts ==
    /\ Cells \in Nat /\ Cells > 0
    /\ 0 \in Cell
    /\ \A s \in Sides : /\ Length[s] \in Nat /\ 0 < Length[s] /\ Length[s] <= Cells
                        /\ s # Bad /\ ImageOf(s) \in [Cell -> Content]
    /\ \A g \in Games : /\ g # <<>> /\ Len(g) \in Nat /\ Len(g) >= 1
                        /\ \A i \in 1 .. Len(g) : g[i] \in Sides \cup {Bad}
<1>1. Cells \in Nat /\ Cells > 0 /\ 0 \in Cell
  BY WriteAssumption DEF Cell
<1>2. \A s \in Sides : Length[s] \in Nat /\ 0 < Length[s] /\ Length[s] <= Cells
  BY WriteAssumption
<1>3. \A s \in Sides : s # Bad /\ ImageOf(s) \in [Cell -> Content]
  BY WriteAssumption DEF ImageOf, Content
<1>4. \A g \in Games : g # <<>> /\ g \in Seq(Sides \cup {Bad})
  BY WriteAssumption
<1>5. \A g \in Games : /\ Len(g) \in Nat /\ Len(g) >= 1
                       /\ \A i \in 1 .. Len(g) : g[i] \in Sides \cup {Bad}
  BY <1>4
<1>6. QED
  BY <1>1, <1>2, <1>3, <1>4, <1>5

LEMMA InvInit == Init => Inv
<1> SUFFICES ASSUME Init PROVE Inv
  OBVIOUS
<1>1. TypeOK
  <2>1. side \in 1 .. Len(game) /\ pos \in Cell /\ head \in 0 .. Cells
    BY Facts DEF Init
  <2>2. sram \in [Cell -> Content] /\ disk \in [Cell -> Content]
    BY DEF Init, Content
  <2>3. QED
    BY <2>1, <2>2 DEF Init, TypeOK
<1>2. Asking /\ Progress /\ Sending /\ Copied
  BY DEF Init, Asking, Progress, Sending, Copied
<1>3. QED
  BY <1>1, <1>2 DEF Inv

LEMMA BeginKeeps ==
    ASSUME Inv, NEW s \in Nat, BeginSide(s), game' \in Games, s \in 1 .. Len(game'),
           exit' \in {"none", "ok"}, UNCHANGED adapter, Waiting => ~Writing
    PROVE  Inv'
<1>1. TypeOK'
  BY Facts DEF Inv, TypeOK, BeginSide, FirstPart, adapter
<1>2. Asking' /\ Progress' /\ Sending'
  BY DEF Inv, TypeOK, BeginSide, FirstPart, adapter, Asking, Progress, Sending,
         Writing, Cell
<1>3. Copied'
  BY DEF Inv, Copied, adapter, Waiting
<1>4. QED
  BY <1>1, <1>2, <1>3 DEF Inv

LEMMA ExitKeeps ==
    ASSUME Inv, Exit, UNCHANGED adapter
    PROVE  Inv'
BY DEF Inv, TypeOK, Exit, adapter, Asking, Progress, Sending, Copied

\* Sending a report touches nothing of what has been written.
LEMMA SentTyped ==
    ASSUME Inv, NEW v \in Content, NEW n \in Nat, NEW next \in {"fill", "start"},
           pos < n, n <= Cells, pc \in {"clear", "fill"}, Send(v, n, next)
    PROVE  TypeOK' /\ Asking' /\ Sending' /\ Copied'
<1>1. [sram EXCEPT ![pos] = v] \in [Cell -> Content]
  BY DEF Inv, TypeOK
<1>2. sram' \in [Cell -> Content] /\ pos' \in Cell
  BY <1>1, Facts DEF Inv, TypeOK, Send, LastCell, Cell
<1>3. TypeOK'
  BY <1>2 DEF Inv, TypeOK, Send
<1>4. Asking' /\ Sending'
  BY DEF Inv, Asking, Sending, Send, Writing
<1>5. Copied'
  <2>1. Waiting => ~(head < Cells)
    BY DEF Inv, Sending, Writing
  <2>2. Waiting => \A k \in Cell : k < head
    BY <2>1, Facts DEF Inv, TypeOK, Cell
  <2>3. UNCHANGED <<disk, head, target>>
    BY DEF Send
  <2>4. SUFFICES ASSUME Waiting, target # Nothing, NEW k \in Cell
                 PROVE  disk[k] = ImageOf(target)[k] /\ ~(k >= head)
    BY <2>3 DEF Copied
  <2>5. k < head /\ k \in Nat /\ head \in Nat
    BY <2>2, <2>4, Facts DEF Inv, TypeOK, Cell
  <2>6. disk[k] = ImageOf(target)[k]
    BY <2>4, <2>5 DEF Inv, Copied
  <2>7. QED
    BY <2>5, <2>6
<1>6. QED
  BY <1>3, <1>4, <1>5

LEMMA ClearKeeps == Inv /\ Clear => Inv'
<1> SUFFICES ASSUME Inv, Clear PROVE Inv'
  OBVIOUS
<1>1. Send(Zero, Cells, "fill") /\ pc = "clear"
  BY DEF Clear
<1>2. TypeOK' /\ Asking' /\ Sending' /\ Copied'
  BY <1>1, Facts, SentTyped DEF Inv, TypeOK, Content, Cell
<1>3. UNCHANGED <<game, side>> /\ pc' \in {"clear", "fill"}
  BY <1>1 DEF Send
<1>4. pc' = "fill" => pos' = 0 /\ (game[side] # Bad => 0 < Length[game[side]])
  BY <1>1, Facts DEF Send, LastCell, Inv, TypeOK
<1>5. ASSUME intact' PROVE
        /\ intact /\ sram' = [sram EXCEPT ![pos] = Zero]
        /\ IF pos + 1 = Cells THEN pc' = "fill" /\ pos' = 0
           ELSE pc' = "clear" /\ pos' = pos + 1
  BY <1>1, <1>5 DEF Send, LastCell
<1>6. ASSUME intact' PROVE
        /\ pc' = "clear" => \A k \in Cell : k < pos' => sram'[k] = Zero
        /\ pc' = "fill" => \A k \in Cell : sram'[k] = Zero
  BY <1>1, <1>5, <1>6, Facts DEF Inv, TypeOK, Progress, Cell
<1>7. Progress'
  BY <1>3, <1>4, <1>6, Facts DEF Progress, Cell
<1>8. QED
  BY <1>2, <1>7 DEF Inv

LEMMA FillKeeps == Inv /\ Fill => Inv'
<1> SUFFICES ASSUME Inv, Fill PROVE Inv'
  OBVIOUS
<1> DEFINE s == game[side]
           n == Length[s]
<1>1. Send(s, n, "start") /\ pc = "fill" /\ s # Bad
  BY DEF Fill
<1>2. s \in Sides /\ n \in Nat /\ n <= Cells /\ pos < n
  BY <1>1, Facts DEF Inv, TypeOK, Progress
<1>3. TypeOK' /\ Asking' /\ Sending' /\ Copied'
  BY <1>1, <1>2, SentTyped DEF Content
<1>4. UNCHANGED <<game, side>> /\ pc' \in {"fill", "start"}
  BY <1>1 DEF Send
<1>5. ASSUME intact' PROVE
        /\ intact /\ sram' = [sram EXCEPT ![pos] = s]
        /\ IF pos + 1 = n THEN pc' = "start"
           ELSE pc' = "fill" /\ pos' = pos + 1
  BY <1>1, <1>5 DEF Send, LastCell
<1>6. ASSUME intact' PROVE
        \A k \in Cell : sram'[k] = IF k < pos + 1 THEN s ELSE Zero
  BY <1>1, <1>5, <1>6, Facts DEF Inv, TypeOK, Progress, Cell
<1>7. pc' = "fill" => pos' < n
  BY <1>1, <1>2 DEF Send, LastCell, Inv, TypeOK, Cell
<1>8. ASSUME intact', pc' = "start" PROVE sram' = ImageOf(s)
  BY <1>3, <1>5, <1>6, <1>8 DEF TypeOK, ImageOf
<1>9. Progress'
  BY <1>1, <1>2, <1>4, <1>5, <1>6, <1>7, <1>8 DEF Progress
<1>10. QED
  BY <1>3, <1>9 DEF Inv

LEMMA StartKeeps == Inv /\ (WriteStart \/ StartFails) => Inv'
<1> SUFFICES ASSUME Inv, WriteStart \/ StartFails PROVE Inv'
  OBVIOUS
<1>1. CASE UNCHANGED adapter /\ Exit
  BY <1>1, ExitKeeps
<1>2. CASE StartWriting /\ pc = "start"
  <2>1. game[side] \in Sides /\ (intact => sram = ImageOf(game[side]))
    BY <1>2 DEF Inv, Progress
  <2>2. UNCHANGED <<game, side, pos, intact>> /\ pc' \in {"idle", "prompt"}
        /\ exit' \in {"none", "ok"} /\ (pc' = "prompt" => side < Len(game))
    BY <1>2 DEF WriteStart, StartFails, Exit, Inv, TypeOK
  <2>3. TypeOK'
    BY <1>2, <2>1, <2>2, Facts DEF Inv, TypeOK, StartWriting
  <2>4. Asking' /\ Progress' /\ Sending'
    BY <2>2 DEF Asking, Progress, Sending
  <2>5. Copied'
    BY <1>2, <2>1 DEF Copied, StartWriting, Cell, Nothing
  <2>6. QED
    BY <2>3, <2>4, <2>5 DEF Inv
<1>3. QED
  BY <1>1, <1>2 DEF WriteStart, StartFails

LEMMA WriteCellKeeps == Inv /\ WriteCell => Inv'
<1> SUFFICES ASSUME Inv, WriteCell PROVE Inv'
  OBVIOUS
<1>1. /\ head \in Cell /\ head' = head + 1 /\ UNCHANGED <<host, sram, target>>
      /\ disk' = [disk EXCEPT ![head] = sram[head]]
  BY Facts DEF WriteCell, Writing, Inv, TypeOK, Cell
<1>2. TypeOK'
  BY <1>1, Facts DEF Inv, TypeOK, host, Cell
<1>3. Asking' /\ Progress' /\ Sending'
  BY <1>1 DEF WriteCell, host, Inv, Asking, Progress, Sending, Writing
<1>4. Copied'
  <2> SUFFICES ASSUME Waiting, target # Nothing, NEW k \in Cell
               PROVE  /\ k < head + 1 => disk'[k] = ImageOf(target)[k]
                      /\ k >= head + 1 => sram[k] = ImageOf(target)[k]
    BY <1>1 DEF Copied
  <2>1. /\ k < head => disk[k] = ImageOf(target)[k]
        /\ k >= head => sram[k] = ImageOf(target)[k]
    BY DEF Inv, Copied
  <2>2. QED
    BY <1>1, <2>1 DEF Inv, TypeOK, Cell
<1>5. QED
  BY <1>2, <1>3, <1>4 DEF Inv

LEMMA InvNext == Inv /\ [Next]_vars => Inv'
<1> SUFFICES ASSUME Inv, [Next]_vars PROVE Inv'
  OBVIOUS
<1>1. CASE Start
  BY <1>1, Facts, BeginKeeps DEF Start, Waiting
<1>2. CASE PressEnter
  <2>1. side + 1 \in 1 .. Len(game) /\ game' \in Games /\ exit' \in {"none", "ok"}
    BY <1>2, Facts DEF PressEnter, Inv, Asking, TypeOK
  <2>2. side + 1 \in Nat /\ BeginSide(side + 1) /\ game' = game /\ UNCHANGED adapter
    BY <1>2, <2>1, Facts DEF PressEnter, Inv, TypeOK
  <2>3. Waiting => ~Writing
    BY <1>2 DEF PressEnter, Waiting
  <2>4. QED
    BY <2>1, <2>2, <2>3, BeginKeeps
<1>3. CASE Clear
  BY <1>3, ClearKeeps
<1>4. CASE Fill
  BY <1>4, FillKeeps
<1>5. CASE RejectSide \/ OtherKey
  BY <1>5, ExitKeeps DEF RejectSide, OtherKey
<1>6. CASE WriteStart \/ StartFails
  BY <1>6, StartKeeps
<1>7. CASE Kill
  BY <1>7 DEF Kill, adapter, Inv, TypeOK, Asking, Progress, Sending, Copied
<1>8. CASE WriteCell
  BY <1>8, WriteCellKeeps
<1>9. CASE UNCHANGED vars
  BY <1>9 DEF vars, host, adapter, Inv, TypeOK, Asking, Progress, Sending, Copied, Writing
<1>10. QED
  BY <1>1, <1>2, <1>3, <1>4, <1>5, <1>6, <1>7, <1>8, <1>9 DEF Next

\* Positions in the SRAM and on the disk stay within them, for every size.
THEOREM TypeCorrect == Spec => []TypeOK
BY InvInit, InvNext, PTL DEF Spec, Inv

\* For every number of sides and every size of the SRAM, a disk written from a
\* complete image holds that side.
THEOREM DisksHoldSides == Spec => []DiskHoldsSide
<1>1. Inv => DiskHoldsSide
  <2> SUFFICES ASSUME Inv, Waiting, ~Writing, target # Nothing
               PROVE  disk = ImageOf(target)
    BY DEF DiskHoldsSide, Waiting
  <2>1. \A k \in Cell : k < head
    BY Facts DEF Inv, TypeOK, Writing, Cell
  <2>2. \A k \in Cell : disk[k] = ImageOf(target)[k]
    BY <2>1 DEF Inv, Copied
  <2>3. QED
    BY <2>2 DEF Inv, TypeOK, ImageOf
<1>2. QED
  BY <1>1, InvInit, InvNext, PTL DEF Spec
-----------------------------------------------------------------------------
(***************************************************************************)
(* The other way, DiskRead.  Why the packets read are the beginning of the *)
(* disk: while the host reads, it has every packet but those lost since    *)
(* the last one, and the adapter's number is ahead of the host's by as     *)
(* many.                                                                   *)
(***************************************************************************)
Ahead(n, k) == IF n + k < SeqNumbers THEN n + k ELSE n + k - SeqNumbers

InStep ==
    MaxLost < SeqNumbers /\ reading = "read" =>
        /\ passed = Len(readBuf) + lost
        /\ number = Ahead(read_sequence, lost)

Before == reading = "start" => bytesIn = 0 /\ readBuf = <<>> /\ passed = 0 /\ lost = 0
                          /\ number = After(0)

ReadInv == ReadTypeOK /\ Before /\ InStep /\ ReadIsPrefix /\ RoomForPacket

\* the next number, without the remainder
LEMMA Wraps ==
    ASSUME NEW n \in 0 .. SeqNumbers - 1
    PROVE  /\ After(n) = IF n = SeqNumbers - 1 THEN 0 ELSE n + 1
           /\ After(n) \in 0 .. SeqNumbers - 1
<1>1. SeqNumbers \in Nat /\ SeqNumbers > 0 /\ n \in Nat
  BY ReadAssumption
<1>2. CASE n = SeqNumbers - 1
  BY <1>1, <1>2 DEF After
<1>3. CASE n < SeqNumbers - 1
  BY <1>1, <1>3 DEF After
<1>4. QED
  BY <1>1, <1>2, <1>3

LEMMA ReadBegins ==
    ASSUME ReadInit
    PROVE  ReadInv
<1>1. 0 \in 0 .. SeqNumbers - 1
  BY ReadAssumption
<1>2. ReadTypeOK
  <2>1. number \in 0 .. SeqNumbers - 1
    BY <1>1, Wraps DEF ReadInit
  <2>2. readBuf \in Seq(Nat) /\ lost \in 0 .. MaxLost
    BY ReadAssumption DEF ReadInit
  <2>3. QED
    BY <1>1, <2>1, <2>2 DEF ReadInit, ReadTypeOK
<1>3. Before /\ InStep /\ ReadIsPrefix /\ RoomForPacket
  BY ReadAssumption DEF ReadInit, Before, InStep, ReadIsPrefix, RoomForPacket
<1>4. QED
  BY <1>2, <1>3 DEF ReadInv

\* With fewer losses in a row than numbers, a packet that is not the next one on
\* the disk does not have the next number.
LEMMA NextNumber ==
    ASSUME ReadInv, reading = "read", MaxLost < SeqNumbers, InSequence
    PROVE  lost = 0
BY ReadAssumption DEF ReadInv, ReadTypeOK, InStep, InSequence, Ahead

\* A packet read keeps all of it; the largest step.
LEMMA PacketKeeps ==
    ASSUME ReadInv, ReadPacket
    PROVE  ReadInv'
<1> USE ReadAssumption
<1>1. /\ read_sequence' \in 0 .. SeqNumbers - 1
      /\ number' \in 0 .. SeqNumbers - 1
  BY Wraps DEF ReadInv, ReadTypeOK, ReadPacket
<1>2. PICK size \in Sizes :
        IF InSequence
        THEN /\ readBuf' = Append(readBuf, passed + 1)
             /\ bytesIn' = bytesIn + size
             /\ reading' = IF More(size) THEN "read" ELSE "save"
        ELSE reading' = "failed" /\ UNCHANGED <<readBuf, bytesIn>>
  BY DEF ReadPacket
<1>3. size \in Nat /\ size <= ReadMax
  BY DEF Sizes
<1>4. reading' # "start" /\ reading = "read" /\ lost' = 0 /\ passed' = passed + 1
  BY <1>2 DEF ReadPacket
<1>5. ReadTypeOK'
  <2>1. readBuf' \in Seq(Nat) /\ bytesIn' \in Nat
    <3>1. Append(readBuf, passed + 1) \in Seq(Nat) /\ bytesIn + size \in Nat
      BY <1>3 DEF ReadInv, ReadTypeOK
    <3>2. CASE InSequence
      BY <1>2, <3>1, <3>2
    <3>3. CASE ~InSequence
      BY <1>2, <3>3 DEF ReadInv, ReadTypeOK
    <3>4. QED
      BY <3>2, <3>3
  <2>2. reading' \in {"read", "save", "failed"}
    BY <1>2
  <2>3. passed' \in Nat /\ lost' \in 0 .. MaxLost
    BY <1>4 DEF ReadInv, ReadTypeOK
  <2>4. QED
    BY <1>1, <2>1, <2>2, <2>3 DEF ReadInv, ReadTypeOK, ReadPacket
<1>6. RoomForPacket'
  BY <1>2, <1>3, <1>4 DEF ReadInv, ReadTypeOK, RoomForPacket, More
<1>7. InStep' /\ ReadIsPrefix'
  <2>1. CASE ~InSequence
    BY <1>2, <2>1 DEF ReadInv, InStep, ReadIsPrefix
  <2>2. CASE InSequence
    <3> SUFFICES ASSUME MaxLost < SeqNumbers
                 PROVE  InStep' /\ ReadIsPrefix'
      BY DEF InStep, ReadIsPrefix
    <3>1. lost = 0 /\ passed = Len(readBuf) /\ number = read_sequence
      BY <1>4, <2>2, NextNumber DEF ReadInv, ReadTypeOK, InStep, InSequence
    <3>2. readBuf' = Append(readBuf, Len(readBuf) + 1) /\ readBuf \in Seq(Nat)
      BY <1>2, <2>2, <3>1 DEF ReadInv, ReadTypeOK
    <3>3. Len(readBuf') = Len(readBuf) + 1
      BY <3>2
    <3>4. ReadIsPrefix'
      BY <3>2, <3>3 DEF ReadInv, ReadIsPrefix
    <3>5. number' = read_sequence'
      BY <3>1 DEF ReadPacket
    <3>6. InStep'
      <4>1. passed' = Len(readBuf')
        BY <1>4, <3>1, <3>3
      <4>2. Len(readBuf') \in Nat
        BY <3>2
      <4>3. \A n \in 0 .. SeqNumbers - 1 : Ahead(n, 0) = n
        BY DEF Ahead
      <4>4. number' = Ahead(read_sequence', lost')
        <5>1. Ahead(read_sequence', 0) = read_sequence'
          BY <1>1, <4>3
        <5>2. QED
          BY <1>4, <3>5, <5>1
      <4>5. passed' = Len(readBuf') + lost'
        BY <1>4, <4>1, <4>2
      <4>6. QED
        BY <4>4, <4>5 DEF InStep
    <3>7. QED
      BY <3>4, <3>6
  <2>3. QED
    BY <2>1, <2>2
<1>8. QED
  BY <1>4, <1>5, <1>6, <1>7 DEF ReadInv, Before

\* So does a packet lost.
LEMMA OverrunKeeps ==
    ASSUME ReadInv, Overrun
    PROVE  ReadInv'
<1> USE ReadAssumption
<1>1. number' = IF number = SeqNumbers - 1 THEN 0 ELSE number + 1
  BY Wraps DEF ReadInv, ReadTypeOK, Overrun
<1>2. ReadTypeOK'
  BY <1>1 DEF ReadInv, ReadTypeOK, Overrun, reader
<1>3. InStep'
  BY <1>1 DEF ReadInv, ReadTypeOK, InStep, Overrun, reader, Ahead
<1>4. ReadIsPrefix' /\ RoomForPacket' /\ Before'
  BY DEF ReadInv, ReadIsPrefix, RoomForPacket, Before, Overrun, reader
<1>5. QED
  BY <1>2, <1>3, <1>4 DEF ReadInv

LEMMA ReadKeeps ==
    ASSUME ReadInv, [ReadNext]_readVars
    PROVE  ReadInv'
<1> USE ReadAssumption
<1>1. CASE Overrun
  BY <1>1, OverrunKeeps
<1>2. CASE ReadPacket
  BY <1>2, PacketKeeps
<1>3. CASE ReadStart
  <2>1. read_sequence' = After(0) /\ After(0) \in 0 .. SeqNumbers - 1
    BY <1>3, Wraps DEF ReadStart
  <2>2. ReadTypeOK' /\ RoomForPacket' /\ Before' /\ ReadIsPrefix'
    BY <1>3, <2>1 DEF ReadStart, source, ReadInv, ReadTypeOK, RoomForPacket, Before, ReadIsPrefix
  <2>3. InStep'
    BY <1>3, <2>1 DEF ReadStart, source, ReadInv, Before, InStep, Ahead
  <2>4. QED
    BY <2>2, <2>3 DEF ReadInv
<1>4. CASE DiskEnds
  BY <1>4 DEF DiskEnds, reader, ReadInv, ReadTypeOK, Before, InStep, ReadIsPrefix, RoomForPacket
<1>5. CASE ReadNothing \/ ReadFails
  BY <1>5 DEF ReadNothing, ReadFails, reader, source,
              ReadInv, ReadTypeOK, Before, InStep, ReadIsPrefix, RoomForPacket
<1>6. CASE Save
  BY <1>6 DEF Save, source, ReadInv, ReadTypeOK, Before, InStep, ReadIsPrefix, RoomForPacket
<1>7. CASE UNCHANGED readVars
  BY <1>7 DEF readVars, reader, source, ReadInv, ReadTypeOK, Before, InStep, ReadIsPrefix, RoomForPacket
<1>8. QED
  BY <1>1, <1>2, <1>3, <1>4, <1>5, <1>6, <1>7 DEF ReadNext

LEMMA AlwaysRead == ReadSpec => []ReadInv
<1>1. ReadInit => ReadInv
  BY ReadBegins
<1>2. ReadInv /\ [ReadNext]_readVars => ReadInv'
  BY ReadKeeps
<1>3. QED
  BY <1>1, <1>2, PTL DEF ReadSpec

\* Packet numbers, counts and the buffer keep their types, for every cycle of
\* numbers and every size of the buffer.
THEOREM ReadTypeCorrect == ReadSpec => []ReadTypeOK
<1>1. ReadInv => ReadTypeOK
  BY DEF ReadInv
<1>2. QED
  BY <1>1, AlwaysRead, PTL

\* Whatever the adapter loses short of a whole cycle of packet numbers, what
\* FDS_readDisk has in its buffer is the beginning of the disk.
THEOREM ReadsThePrefix == ReadSpec => []ReadIsPrefix
<1>1. ReadInv => ReadIsPrefix
  BY DEF ReadInv
<1>2. QED
  BY <1>1, AlwaysRead, PTL

\* No packet is copied past the end of FDS_readDisk's buffer.
THEOREM StaysInBuffer == ReadSpec => []RoomForPacket
<1>1. ReadInv => RoomForPacket
  BY DEF ReadInv
<1>2. QED
  BY <1>1, AlwaysRead, PTL

-----------------------------------------------------------------------------
(***************************************************************************)
(* The recordings.  Size, Many, First and Last abbreviate what             *)
(* WellRecorded says; the lemmas on them are used by every pass.           *)
(***************************************************************************)

Size(d) == Len(d.pulses)
Many(d) == Len(d.blocks)
First(d, b) == d.blocks[b].first
Last(d, b) == d.blocks[b].last

LEMMA Lengths ==
    /\ ShortGap \in Nat /\ PostGlitch \in Nat /\ LongGap \in Nat /\ LongPostGlitch \in Nat
    /\ MinGap \in Nat /\ MaxGap \in Nat /\ ByteBits \in Nat \ {0} /\ Width \in Nat \ {0}
    /\ ShortGap <= LongGap /\ PostGlitch <= LongGap /\ LongPostGlitch <= LongGap
    /\ MinGap <= LongGap /\ ByteBits <= LongGap
    /\ 2 <= LongPostGlitch /\ LongPostGlitch <= MinGap
BY RecoveryAssumption, RecordingAssumption

LEMMA PulsesOf ==
    ASSUME NEW d \in Disks
    PROVE  /\ Size(d) \in Nat \ {0}
           /\ Pulses(d) \in [0 .. Size(d) - 1 -> 0 .. 3]
           /\ \A k \in 0 .. Size(d) - 1 : Pulses(d)[k] = d.pulses[k + 1]
<1>1. d.pulses \in Seq(0 .. 3) /\ d.pulses # <<>>
  BY RecoveryAssumption
<1>2. Size(d) \in Nat \ {0}
  BY <1>1 DEF Size
<1>3. \A k \in 0 .. Size(d) - 1 : d.pulses[k + 1] \in 0 .. 3
  BY <1>1, <1>2 DEF Size
<1>4. QED
  BY <1>2, <1>3 DEF Size, Pulses

LEMMA BlockAt ==
    ASSUME NEW d \in Disks
    PROVE  /\ Many(d) \in Nat \ {0}
           /\ \A b \in 1 .. Many(d) :
                /\ First(d, b) \in Nat /\ Last(d, b) \in Nat
                /\ LongGap + 4 <= First(d, b) /\ First(d, b) <= Last(d, b)
                /\ Last(d, b) < Size(d)
                /\ \A k \in First(d, b) - LongGap - 4 .. First(d, b) - 2 : Pulses(d)[k] = 0
                /\ Pulses(d)[First(d, b) - 1] = 1
                /\ IsRun(Pulses(d), d.blocks[b], Size(d))
<1>1. WellRecorded(d)
  BY RecordingAssumption
<1>2. Many(d) \in Nat \ {0}
  BY <1>1 DEF WellRecorded, Many
<1>3. ASSUME NEW b \in 1 .. Many(d)
      PROVE  /\ First(d, b) \in Nat /\ Last(d, b) \in Nat
             /\ 0 <= GapFrom(d.blocks[b])
             /\ First(d, b) <= Last(d, b) /\ Last(d, b) < Size(d)
             /\ \A k \in GapFrom(d.blocks[b]) .. First(d, b) - 2 : Pulses(d)[k] = 0
             /\ Pulses(d)[First(d, b) - 1] = 1
             /\ IsRun(Pulses(d), d.blocks[b], Size(d))
  BY <1>1 DEF WellRecorded, Many, First, Last, Size
<1>4. ASSUME NEW b \in 1 .. Many(d)
      PROVE  GapFrom(d.blocks[b]) = First(d, b) - LongGap - 4
  BY DEF GapFrom, First
<1>5. QED
  BY <1>2, <1>3, <1>4, Lengths

LEMMA InOrder ==
    ASSUME NEW d \in Disks
    PROVE  /\ \A b, c \in 1 .. Many(d) : b < c => Last(d, b) < First(d, c) - LongGap - 4
           /\ \A b \in 1 .. Many(d) - 1 :
                /\ \A k \in Last(d, b) + LongPostGlitch .. First(d, b + 1) - 2 : Pulses(d)[k] = 0
                /\ First(d, b + 1) <= Last(d, b) + MaxGap + 1
<1>1. WellRecorded(d)
  BY RecordingAssumption
<1>2. \A b \in 1 .. Many(d) : GapFrom(d.blocks[b]) = First(d, b) - LongGap - 4
  BY DEF GapFrom, First
<1>3. \A b, c \in 1 .. Many(d) : b < c => Last(d, b) < GapFrom(d.blocks[c])
  BY <1>1 DEF WellRecorded, Many, Last
<1>4. \A b \in 1 .. Many(d) - 1 :
        /\ \A k \in Last(d, b) + LongPostGlitch .. First(d, b + 1) - 2 : Pulses(d)[k] = 0
        /\ First(d, b + 1) <= Last(d, b) + MaxGap + 1
  BY <1>1 DEF WellRecorded, Many, Last, First
<1>5. QED
  BY <1>2, <1>3, <1>4

LEMMA AroundBlocks ==
    ASSUME NEW d \in Disks
    PROVE  /\ HeaderAt(Pulses(d), First(d, 1) - 1)
           /\ Len(Header) <= Last(d, 1) - First(d, 1) + 2
           /\ First(d, 1) - 1 + Len(Header) <= SearchLimit
           /\ \A k \in 0 .. First(d, 1) - 2 : ~HeaderAt(Pulses(d), k)
           /\ GapEnds(Pulses(d), 0, First(d, 1) - 2) = {}
           /\ GapEnds(Pulses(d), Last(d, Many(d)) + 1, Size(d) - 1) = {}
           /\ \/ Size(d) <= Last(d, Many(d)) + 1 + MaxGap
              \/ GapEnds(Pulses(d), First(d, Many(d)), Size(d) - 1) = {}
<1>1. WellRecorded(d)
  BY RecordingAssumption
<1>2. QED
  BY <1>1, Zenon DEF WellRecorded, Many, Last, First, Size

\* what a pulse of a block does
LEMMA InBlock ==
    ASSUME NEW d \in Disks, NEW b \in 1 .. Many(d), NEW k \in First(d, b) .. Last(d, b)
    PROVE  LET block == d.blocks[b]
               last == block.run[k - First(d, b)]
               new == Bits(last.bit, Pulses(d)[k])
           IN  /\ last.bit \in {0, 1} /\ last.out \in Nat /\ last.crc \subseteq 0 .. Width - 1
               /\ new # <<>>
               /\ block.run[k + 1 - First(d, b)] =
                    [bit |-> new[Len(new)], out |-> last.out + Len(new),
                     crc |-> Register(last.crc, new)]
               /\ \A j \in 1 .. Len(new) :
                    last.out + j <= Len(block.bits) => block.bits[last.out + j] = new[j]
               /\ IF k = Last(d, b)
                  THEN Holds(last.crc, last.out, new)
                  ELSE ~(/\ Holds(last.crc, last.out, new)
                         /\ LooksLikeFileEnd(Pulses(d), k + 1, Size(d)))
<1> DEFINE block == d.blocks[b]
           i == k + 1 - First(d, b)
           size == Last(d, b) - First(d, b) + 1
           last == block.run[k - First(d, b)]
           new == Bits(last.bit, Pulses(d)[k])
<1>1. /\ IsRun(Pulses(d), block, Size(d))
      /\ First(d, b) \in Nat /\ Last(d, b) \in Nat
  BY BlockAt
<1>2. /\ i \in 1 .. size /\ i - 1 = k - First(d, b) /\ First(d, b) + i = k + 1
      /\ First(d, b) + i - 1 = k /\ (i = size <=> k = Last(d, b))
  BY <1>1, SMTT(30)
<1>3. block.run \in [0 .. size -> [bit : {0, 1}, out : Nat, crc : SUBSET (0 .. Width - 1)]]
  BY <1>1 DEF IsRun, First, Last
<1>4. last \in [bit : {0, 1}, out : Nat, crc : SUBSET (0 .. Width - 1)]
  <2>1. k - First(d, b) \in 0 .. size
    BY <1>1
  <2>2. QED
    BY <2>1, <1>3, Zenon
<1>5. LET l == block.run[i - 1]
          n == Bits(l.bit, Pulses(d)[block.first + i - 1])
      IN  /\ n # <<>>
          /\ block.run[i] = [bit |-> n[Len(n)], out |-> l.out + Len(n),
                             crc |-> Register(l.crc, n)]
          /\ \A j \in 1 .. Len(n) :
                l.out + j <= Len(block.bits) => block.bits[l.out + j] = n[j]
          /\ IF i = size THEN Holds(l.crc, l.out, n)
             ELSE ~(/\ Holds(l.crc, l.out, n)
                    /\ LooksLikeFileEnd(Pulses(d), block.first + i, Size(d)))
  BY <1>1, <1>2, Zenon DEF IsRun, First, Last
<1>6. block.first + (i - 1) = k /\ block.first + i = k + 1 /\ block.run[i - 1] = last
  BY <1>1, <1>2 DEF First
<1>7. /\ new # <<>>
      /\ block.run[i] = [bit |-> new[Len(new)], out |-> last.out + Len(new),
                         crc |-> Register(last.crc, new)]
      /\ \A j \in 1 .. Len(new) :
            last.out + j <= Len(block.bits) => block.bits[last.out + j] = new[j]
      /\ IF i = size THEN Holds(last.crc, last.out, new)
         ELSE ~(/\ Holds(last.crc, last.out, new)
                /\ LooksLikeFileEnd(Pulses(d), k + 1, Size(d)))
  <2> HIDE DEF i, size, block
  <2>1. QED
    BY <1>5, <1>6, Zenon
<1>8. QED
  BY <1>2, <1>4, <1>7, Zenon

LEMMA BlockStarts ==
    ASSUME NEW d \in Disks, NEW b \in 1 .. Many(d)
    PROVE  /\ d.blocks[b].run[0] = [bit |-> 1, out |-> 0, crc |-> CrcStart]
           /\ d.blocks[b].bits \in Seq({0, 1})
           /\ Len(d.blocks[b].bits) <= d.blocks[b].run[Last(d, b) - First(d, b) + 1].out
BY BlockAt, Zenon DEF IsRun, First, Last

\* what a block's pulses are
LEMMA NoMark ==
    ASSUME NEW d \in Disks, NEW b \in 1 .. Many(d), NEW k \in First(d, b) .. Last(d, b)
    PROVE  Pulses(d)[k] \in 0 .. 2
<1>1. /\ k \in 0 .. Size(d) - 1
      /\ First(d, b) \in Nat /\ Last(d, b) \in Nat
  BY BlockAt, PulsesOf
<1>2. Pulses(d)[k] \in 0 .. 3
  BY <1>1, PulsesOf, SMTT(30)
<1>3. Bits(d.blocks[b].run[k - First(d, b)].bit, Pulses(d)[k]) # <<>>
  BY InBlock
<1>4. QED
  BY <1>2, <1>3 DEF Bits

-----------------------------------------------------------------------------
(* numbers *)

LEMMA Least ==
    ASSUME NEW S \in SUBSET Nat, S # {}
    PROVE  \E m \in S : \A k \in S : m <= k
<1> DEFINE R == {ss \in Nat \X Nat : ss[1] < ss[2]}
<1>1. IsWellFoundedOn(R, Nat)
  BY NatLessThanWellFounded DEF OpToRel
<1> HIDE DEF R
<1>2. PICK m \in S : \A k \in S : ~(<<k, m>> \in R)
  BY <1>1, WFMin
<1>3. \A k \in S : ~(k < m)
  BY <1>2 DEF R
<1>4. QED
  BY <1>3

LEMMA LeastIs ==
    ASSUME NEW S \in SUBSET Nat, NEW m \in S, \A k \in S : m <= k
    PROVE  (CHOOSE k \in S : \A j \in S : k <= j) = m
<1>1. \A k \in S : (\A j \in S : k <= j) => k = m
  OBVIOUS
<1>2. QED
  BY <1>1

LEMMA LeastIn ==
    ASSUME NEW S \in SUBSET Nat, S # {}
    PROVE  (CHOOSE k \in S : \A j \in S : k <= j) \in S
BY Least

\* a pulse is behind the last block, or in the first one that does not end before it,
\* or in front of that one
LEMMA Where ==
    ASSUME NEW d \in Disks, NEW i \in Nat
    PROVE  \/ i > Last(d, Many(d))
           \/ \E c \in 1 .. Many(d) : i <= Last(d, c) /\ (c = 1 \/ i > Last(d, c - 1))
<1> SUFFICES ASSUME i <= Last(d, Many(d))
             PROVE  \E c \in 1 .. Many(d) : i <= Last(d, c) /\ (c = 1 \/ i > Last(d, c - 1))
  BY BlockAt
<1> DEFINE S == {c \in 1 .. Many(d) : i <= Last(d, c)}
<1>1. Many(d) \in S /\ S \in SUBSET Nat
  BY BlockAt
<1>2. PICK c \in S : \A k \in S : c <= k
  BY <1>1, Least
<1>3. c = 1 \/ c - 1 \in 1 .. Many(d)
  BY <1>2, BlockAt
<1>4. c - 1 \notin S
  BY <1>2
<1>5. c = 1 \/ i > Last(d, c - 1)
  BY <1>3, <1>4, BlockAt
<1>6. QED
  BY <1>2, <1>5

-----------------------------------------------------------------------------
(* helpers on the pulses *)

LEMMA GapStartIs ==
    ASSUME NEW r, NEW end \in Nat, NEW k \in 0 .. end,
           \A j \in k .. end - 1 : r[j] = 0,
           k = 0 \/ r[k - 1] # 0
    PROVE  GapStart(r, end) = k
<1> DEFINE Starts(i) == (\A j \in i .. end - 1 : r[j] = 0) /\ (i = 0 \/ r[i - 1] # 0)
<1>1. ASSUME NEW i \in 0 .. end, Starts(i)
      PROVE  i = k
  <2>1. ~(i < k)
    <3>1. SUFFICES ASSUME i < k PROVE FALSE
      OBVIOUS
    <3>2. k - 1 \in i .. end - 1 /\ k # 0
      BY <3>1
    <3>3. QED
      BY <1>1, <3>2
  <2>2. ~(k < i)
    <3>1. SUFFICES ASSUME k < i PROVE FALSE
      OBVIOUS
    <3>2. i - 1 \in k .. end - 1 /\ i # 0
      BY <3>1
    <3>3. QED
      BY <1>1, <3>2
  <2>3. QED
    BY <2>1, <2>2
<1>2. Starts(k)
  OBVIOUS
<1>3. GapStart(r, end) = CHOOSE i \in 0 .. end : Starts(i)
  BY DEF GapStart
<1> HIDE DEF Starts
<1>4. QED
  BY <1>1, <1>2, <1>3

\* the gap that ends before end begins at k or earlier
LEMMA GapStartBefore ==
    ASSUME NEW r, NEW end \in Nat, NEW k \in 0 .. end,
           \A j \in k .. end - 1 : r[j] = 0
    PROVE  GapStart(r, end) \in 0 .. k /\ \A j \in GapStart(r, end) .. end - 1 : r[j] = 0
<1> DEFINE S == {i \in 0 .. end : \A j \in i .. end - 1 : r[j] = 0}
<1>1. k \in S /\ S \in SUBSET Nat
  OBVIOUS
<1>2. PICK m \in S : \A i \in S : m <= i
  BY <1>1, Least
<1>3. m \in 0 .. k
  BY <1>1, <1>2
<1>4. m = 0 \/ r[m - 1] # 0
  <2>1. SUFFICES ASSUME m # 0, r[m - 1] = 0 PROVE FALSE
    OBVIOUS
  <2>2. m - 1 \in 0 .. end /\ \A j \in m - 1 .. end - 1 : j = m - 1 \/ j \in m .. end - 1
    BY <1>3, <2>1
  <2>3. m - 1 \in S
    BY <1>2, <2>1, <2>2
  <2>4. QED
    BY <1>2, <1>3, <2>3
<1>5. GapStart(r, end) = m
  BY <1>2, <1>3, <1>4, GapStartIs
<1>6. QED
  BY <1>2, <1>3, <1>5

-----------------------------------------------------------------------------
(* marks, and the blocks without them *)

OnlyMarks(d, r) == \A k \in 0 .. Size(d) - 1 : r[k] \in {Pulses(d)[k], 3}

Kept(d, r, lead) ==
    \A b \in 1 .. Many(d) : \A k \in First(d, b) - lead .. Last(d, b) : r[k] = Pulses(d)[k]

\* The gap before the first block begins with a mark.
Lead(d, r) == \E k \in 0 .. First(d, 1) - 2 :
    r[k] = 3 /\ \A j \in k + 1 .. First(d, 1) - 2 : r[j] = 0

\* The first c blocks end with a mark.
EndsMarked(d, r, c) == \A b \in 1 .. c : Last(d, b) + 1 < Size(d) => r[Last(d, b) + 1] = 3

\* Behind the last block, and in it, nothing looks like the end of a gap.
NoGapBehind(d) == GapEnds(Pulses(d), First(d, Many(d)), Size(d) - 1) = {}

LEMMA StillZeros ==
    ASSUME NEW d \in Disks, NEW r, OnlyMarks(d, r), NEW f \in Nat, NEW k \in Nat, k <= Size(d),
           NEW n \in Nat, ZerosBefore(r, f, k, n)
    PROVE  ZerosBefore(Pulses(d), f, k, n)
<1>1. \A j \in k - n .. k - 1 : j \in 0 .. Size(d) - 1
  BY PulsesOf DEF ZerosBefore
<1>2. QED
  BY <1>1 DEF ZerosBefore, OnlyMarks

\* Marks neither make what looks like the end of a file nor the end of a gap.
LEMMA NoNewFileEnd ==
    ASSUME NEW d \in Disks, NEW r, OnlyMarks(d, r), NEW k \in Nat,
           LooksLikeFileEnd(r, k, Size(d))
    PROVE  LooksLikeFileEnd(Pulses(d), k, Size(d))
<1>1. SUFFICES ASSUME NEW j \in k .. Size(d) - 1,
                      j < k + MaxGap, r[j] = 1, ZerosBefore(r, k, j, MinGap + 1)
               PROVE  LooksLikeFileEnd(Pulses(d), k, Size(d))
  BY DEF LooksLikeFileEnd
<1>2. j \in 0 .. Size(d) - 1 /\ MinGap + 1 \in Nat
  BY <1>1, PulsesOf, Lengths
<1>3. Pulses(d)[j] = 1
  BY <1>1, <1>2 DEF OnlyMarks
<1>4. ZerosBefore(Pulses(d), k, j, MinGap + 1)
  BY <1>1, <1>2, PulsesOf, StillZeros
<1>5. QED
  BY <1>1, <1>3, <1>4 DEF LooksLikeFileEnd

LEMMA NoNewGapEnd ==
    ASSUME NEW d \in Disks, NEW r, OnlyMarks(d, r), NEW f \in Nat, NEW k \in Nat, f <= k
    PROVE  GapEnds(r, k, Size(d) - 1) \subseteq GapEnds(Pulses(d), f, Size(d) - 1)
<1>1. SUFFICES ASSUME NEW j \in k .. Size(d) - 1, r[j] = 1, ZerosBefore(r, k, j, MinGap)
               PROVE  j \in GapEnds(Pulses(d), f, Size(d) - 1)
  BY DEF GapEnds
<1>2. j \in 0 .. Size(d) - 1 /\ j \in f .. Size(d) - 1 /\ MinGap \in Nat
  BY <1>1, PulsesOf, Lengths
<1>3. Pulses(d)[j] = 1
  BY <1>1, <1>2 DEF OnlyMarks
<1>4. ZerosBefore(Pulses(d), k, j, MinGap)
  BY <1>1, <1>2, PulsesOf, StillZeros
<1>5. ZerosBefore(Pulses(d), f, j, MinGap)
  BY <1>2, <1>4 DEF ZerosBefore
<1>6. QED
  BY <1>2, <1>3, <1>5 DEF GapEnds

-----------------------------------------------------------------------------
(* bytes *)

LEMMA Quotient ==
    ASSUME NEW n \in Nat, NEW m \in Nat \ {0}
    PROVE  /\ n \div m \in Nat /\ n % m \in 0 .. m - 1
           /\ n = m * (n \div m) + (n % m)
OBVIOUS

LEMMA QuotientOfMultiple ==
    ASSUME NEW q \in Nat, NEW m \in Nat \ {0}
    PROVE  q * m \in Nat /\ (q * m) \div m = q
<1> DEFINE n == q * m
           p == n \div m
           r == n % m
<1>1. n \in Nat /\ n = m * q
  OBVIOUS
<1>2. p \in Nat /\ r \in 0 .. m - 1 /\ n = m * p + r
  BY <1>1, Quotient
<1>3. m * (q - p) = m * q - m * p /\ m * (q - p) = r
  BY <1>1, <1>2
<1> HIDE DEF n, p, r
<1>4. ~(q - p >= 1)
  <2>1. \A x \in Int : x >= 1 => m * x >= m
    OBVIOUS
  <2>2. QED
    BY <1>2, <1>3, <2>1
<1>5. ~(q - p <= -1)
  <2>1. \A x \in Int : x <= -1 => m * x <= -m
    OBVIOUS
  <2>2. QED
    BY <1>2, <1>3, <2>1
<1>6. q = p
  BY <1>2, <1>4, <1>5
<1>7. QED
  BY <1>1, <1>6 DEF p, n

LEMMA Aligned ==
    ASSUME NEW n \in Nat
    PROVE  /\ Align(n) \in Nat /\ n < Align(n) /\ Align(n) <= n + ByteBits
           /\ Align(n) \div ByteBits \in Nat
           /\ (Align(n) \div ByteBits) * ByteBits = Align(n)
           /\ n % ByteBits \in 0 .. ByteBits - 1
<1> DEFINE q == n \div ByteBits
           r == n % ByteBits
<1>1. ByteBits \in Nat \ {0}
  BY Lengths
<1>2. q \in Nat /\ r \in 0 .. ByteBits - 1 /\ n = ByteBits * q + r
  BY <1>1, Quotient
<1>3. Align(n) = (q + 1) * ByteBits
  BY DEF Align
<1> HIDE DEF q, r
<1>4. (q + 1) * ByteBits = ByteBits * q + ByteBits /\ ByteBits * q \in Nat
  BY <1>1, <1>2
<1>5. Align(n) \in Nat /\ n < Align(n) /\ Align(n) <= n + ByteBits
  BY <1>1, <1>2, <1>3, <1>4
<1>6. Align(n) \div ByteBits = q + 1
  BY <1>1, <1>2, <1>3, QuotientOfMultiple
<1>7. QED
  BY <1>2, <1>3, <1>5, <1>6 DEF r

-----------------------------------------------------------------------------
(* bits *)

LEMMA NewBits ==
    ASSUME NEW b \in {0, 1}, NEW pulse, Bits(b, pulse) # <<>>
    PROVE  LET new == Bits(b, pulse)
           IN  /\ Len(new) \in {1, 2}
               /\ new[Len(new)] \in {0, 1}
               /\ \A j \in 1 .. Len(new) : new[j] \in {0, 1}
               /\ Len(new) = 2 => new[1] = 0
               /\ pulse \in 0 .. 2
<1> DEFINE new == Bits(b, pulse)
<1>1. new \in {<<0>>, <<1>>, <<0, 0>>, <<0, 1>>} /\ pulse \in 0 .. 2
  BY DEF Bits
<1>2. \A s \in {<<0>>, <<1>>, <<0, 0>>, <<0, 1>>} :
        /\ Len(s) \in {1, 2} /\ s[Len(s)] \in {0, 1}
        /\ \A j \in 1 .. Len(s) : s[j] \in {0, 1}
        /\ Len(s) = 2 => s[1] = 0
  OBVIOUS
<1> HIDE DEF new
<1>3. QED
  BY <1>1, <1>2 DEF new

LEMMA ShiftTyped ==
    ASSUME NEW c \in SUBSET (0 .. Width - 1), NEW b
    PROVE  Shift(c, b) \subseteq 0 .. Width - 1
<1> DEFINE low == c \cup (IF b = 1 THEN {Width} ELSE {})
           e == IF 0 \in low THEN (low \ Poly) \cup (Poly \ low) ELSE low
<1>1. Width \in Nat \ {0} /\ Poly \subseteq 1 .. Width
  BY RecoveryAssumption
<1>2. low \subseteq 0 .. Width
  BY <1>1
<1>3. e \subseteq 0 .. Width
  BY <1>1, <1>2
<1>4. Shift(c, b) = {k - 1 : k \in e \ {0}}
  BY DEF Shift
<1> HIDE DEF low, e
<1>5. \A k \in e \ {0} : k - 1 \in 0 .. Width - 1
  BY <1>1, <1>3
<1>6. QED
  BY <1>4, <1>5

LEMMA RegisterTyped ==
    ASSUME NEW c \in SUBSET (0 .. Width - 1), NEW new
    PROVE  Register(c, new) \subseteq 0 .. Width - 1
<1>1. Shift(c, new[1]) \in SUBSET (0 .. Width - 1)
  BY ShiftTyped
<1>2. Shift(Shift(c, new[1]), new[2]) \subseteq 0 .. Width - 1
  BY <1>1, ShiftTyped
<1>3. QED
  BY <1>1, <1>2 DEF Register

-----------------------------------------------------------------------------
(* types *)

Typed ==
    /\ RecoveryTypeOK
    /\ recording \in Disks
    /\ pass \in {"glitches", "gaps"} => zeros <= in
    /\ pass = "detect" => from <= in /\ in < rawSize /\ out + 2 * from <= 2 * in
    /\ pass = "output" => out <= 2 * in + ByteBits * Len(starts)
    /\ pass \notin {"output", "done"} => bin = {} /\ starts = <<>>

LEMMA SizeIs ==
    ASSUME recording \in Disks
    PROVE  rawSize = Size(recording) /\ rawSize \in Nat \ {0}
BY PulsesOf DEF rawSize, Size

LEMMA MarkTyped ==
    ASSUME NEW n, NEW r \in [n -> (0 .. 3) \cup {GapEnd}], NEW end
    PROVE  MarkGapStart(r, end) \in [n -> (0 .. 3) \cup {GapEnd}]
<1>1. 3 \in (0 .. 3) \cup {GapEnd}
  OBVIOUS
<1> DEFINE V == (0 .. 3) \cup {GapEnd}
<1> HIDE DEF V
<1>2. QED
  BY <1>1 DEF MarkGapStart, V

LEMMA FirstBlockTyped ==
    ASSUME recording \in Disks, FirstBlock # -1
    PROVE  FirstBlock \in Nat /\ FirstBlock + 1 < rawSize
<1> DEFINE places == {k \in 0 .. rawSize - Len(Header) :
                        k + Len(Header) <= SearchLimit /\ HeaderAt(raw, k)}
<1>1. /\ FirstBlock = CHOOSE k \in places : \A j \in places : k <= j
      /\ places # {}
  BY DEF FirstBlock
<1>2. rawSize \in Nat /\ Len(Header) \in Nat /\ Len(Header) >= 2
  BY SizeIs, RecoveryAssumption
<1>3. places \in SUBSET Nat
  BY <1>2
<1> HIDE DEF places
<1>4. FirstBlock \in places
  BY <1>1, <1>3, LeastIn
<1>5. QED
  BY <1>2, <1>4 DEF places

LEMMA NextGapEndTyped ==
    ASSUME recording \in Disks, NEW k \in Nat, NextGapEnd(k) < rawSize
    PROVE  NextGapEnd(k) \in Nat
<1> DEFINE ends == GapEnds(raw, k, rawSize - 1)
<1>1. rawSize \in Nat
  BY SizeIs
<1>2. /\ NextGapEnd(k) = 1 + CHOOSE j \in ends : \A i \in ends : j <= i
      /\ ends # {}
  BY <1>1 DEF NextGapEnd
<1>3. ends \in SUBSET Nat
  BY <1>1 DEF GapEnds
<1>4. (CHOOSE j \in ends : \A i \in ends : j <= i) \in Nat
  BY <1>2, <1>3, LeastIn
<1>5. QED
  BY <1>2, <1>4

LEMMA TypedInit == RecoveryInit => Typed
<1> SUFFICES ASSUME RecoveryInit PROVE Typed
  OBVIOUS
<1> USE DEF RecoveryInit
<1>1. recording \in Disks /\ rawSize \in Nat \ {0} /\ rawSize = Size(recording)
  BY SizeIs
<1>2. raw \in [0 .. rawSize - 1 -> (0 .. 3) \cup {GapEnd}]
  BY <1>1, PulsesOf
<1>3. 0 \in 0 .. 2 * rawSize + ByteBits * Len(starts)
  BY <1>1, Lengths
<1>4. QED
  BY <1>1, <1>2, <1>3 DEF Typed, RecoveryTypeOK

LEMMA TypedGlitches == Typed /\ FindGlitches => Typed'
<1> SUFFICES ASSUME Typed, FindGlitches PROVE Typed'
  OBVIOUS
<1>1. rawSize \in Nat \ {0} /\ rawSize' = rawSize /\ recording' = recording /\ recording \in Disks
  BY SizeIs DEF Typed, FindGlitches, rawSize
<1>2. raw' \in [0 .. rawSize - 1 -> (0 .. 3) \cup {GapEnd}]
  <2>1. raw \in [0 .. rawSize - 1 -> (0 .. 3) \cup {GapEnd}]
    BY DEF Typed, RecoveryTypeOK
  <2>2. raw' = raw \/ raw' = MarkGapStart(raw, in)
    BY DEF FindGlitches
  <2>3. MarkGapStart(raw, in) \in [0 .. rawSize - 1 -> (0 .. 3) \cup {GapEnd}]
    BY <2>1, MarkTyped, Zenon
  <2>4. QED
    BY <2>1, <2>2, <2>3, Zenon
<1>3. /\ in' \in 0 .. rawSize
      /\ glitch' \in 0 .. rawSize - 1 /\ junk' \in 0 .. rawSize - 1
      /\ zeros' \in 0 .. rawSize /\ zeros' <= in'
  BY <1>1 DEF Typed, RecoveryTypeOK, FindGlitches
<1>4. QED
  BY <1>1, <1>2, <1>3 DEF Typed, RecoveryTypeOK, FindGlitches, detecting, decoding, result

LEMMA TypedHeader == Typed /\ FindHeader => Typed'
<1> SUFFICES ASSUME Typed, FindHeader PROVE Typed'
  OBVIOUS
<1>1. rawSize \in Nat \ {0} /\ rawSize' = rawSize /\ recording' = recording /\ recording \in Disks
  BY SizeIs DEF Typed, FindHeader, rawSize
<1>2. raw' \in [0 .. rawSize - 1 -> (0 .. 3) \cup {GapEnd}]
  BY MarkTyped DEF Typed, RecoveryTypeOK, FindHeader, MarkLeadIn
<1>3. /\ pass' \in {"detect", "gaps"} /\ in' \in 0 .. rawSize /\ from' \in 0 .. rawSize
      /\ zeros' \in 0 .. rawSize /\ (pass' = "gaps" => zeros' <= in')
      /\ pass' = "detect" => in' = from' /\ in' < rawSize
  BY <1>1, FirstBlockTyped DEF Typed, RecoveryTypeOK, FindHeader
<1>4. CrcStart \subseteq 0 .. Width - 1
  BY Lengths DEF CrcStart
<1>5. starts = <<>> /\ Len(starts) = 0
  BY DEF Typed, FindHeader
<1>6. /\ glitch' \in 0 .. rawSize - 1 /\ out' = 0 /\ bitval' = 1
      /\ crc' \subseteq 0 .. Width - 1 /\ match' = FALSE
      /\ junk' = junk /\ bin' = bin /\ starts' = starts /\ bin = {}
  BY <1>1, <1>4, <1>5 DEF Typed, FindHeader, result
<1>7. out' \in 0 .. 2 * rawSize' + ByteBits * Len(starts')
  BY <1>1, <1>5, <1>6, Lengths
<1>8. junk' \in 0 .. rawSize' - 1
  BY <1>1, <1>6 DEF Typed, RecoveryTypeOK, FindHeader
<1>9. /\ pass' \in {"glitches", "detect", "next", "gaps", "output", "done"}
      /\ in' \in 0 .. rawSize' /\ from' \in 0 .. rawSize' /\ zeros' \in 0 .. rawSize'
  BY <1>1, <1>3
<1>10. /\ glitch' \in 0 .. rawSize' - 1
       /\ crc' \subseteq 0 .. Width - 1 /\ match' \in BOOLEAN /\ bitval' \in {0, 1}
  BY <1>1, <1>6
<1>11. bin' = {} /\ starts' = <<>> /\ starts' \in Seq(Nat)
  BY <1>5, <1>6
<1>12. raw' \in [0 .. rawSize' - 1 -> (0 .. 3) \cup {GapEnd}]
  BY <1>1, <1>2, Zenon
<1>13. RecoveryTypeOK'
  BY <1>7, <1>8, <1>9, <1>10, <1>11, <1>12 DEF RecoveryTypeOK
<1>14. pass' = "detect" => from' <= in' /\ in' < rawSize' /\ out' + 2 * from' <= 2 * in'
  <2> SUFFICES ASSUME pass' = "detect"
               PROVE  from' <= in' /\ in' < rawSize' /\ out' + 2 * from' <= 2 * in'
    OBVIOUS
  <2>1. in' = from' /\ in' < rawSize' /\ out' = 0 /\ in' \in Nat
    BY <1>1, <1>3, <1>6
  <2>2. \A n \in Nat : n <= n /\ 0 + 2 * n <= 2 * n
    OBVIOUS
  <2>3. QED
    BY <2>1, <2>2, Zenon
<1>15. QED
  BY <1>1, <1>3, <1>11, <1>13, <1>14 DEF Typed

LEMMA TypedDetect == Typed /\ Detect => Typed'
<1> SUFFICES ASSUME Typed, Detect PROVE Typed'
  OBVIOUS
<1> DEFINE new == Bits(bitval, raw[in])
<1>1. /\ rawSize \in Nat \ {0} /\ rawSize' = rawSize /\ recording' = recording
      /\ recording \in Disks
  BY SizeIs DEF Typed, Detect, rawSize
<1>2. /\ pass = "detect" /\ raw \in [0 .. rawSize - 1 -> (0 .. 3) \cup {GapEnd}]
      /\ in \in 0 .. rawSize - 1 /\ from \in 0 .. rawSize /\ from <= in
      /\ out \in Nat /\ out + 2 * from <= 2 * in
      /\ crc \in SUBSET (0 .. Width - 1) /\ match \in BOOLEAN /\ bitval \in {0, 1}
      /\ bin = {} /\ starts = <<>> /\ Len(starts) = 0
  BY <1>1, Lengths DEF Typed, RecoveryTypeOK, Detect
<1>3. /\ glitch' \in 0 .. rawSize - 1 /\ junk' \in 0 .. rawSize - 1 /\ zeros' \in 0 .. rawSize
      /\ bin' = {} /\ starts' = <<>> /\ Len(starts') = 0 /\ starts' \in Seq(Nat)
  BY <1>2 DEF Typed, RecoveryTypeOK, Detect, marking, result
<1>4. /\ pass' \in {"detect", "next"}
      /\ raw' = raw \/ raw' = MarkFileEnd(raw, in')
      /\ from' \in {from, in'}
  BY <1>2 DEF Detect, Detected
<1>5. raw' \in [0 .. rawSize - 1 -> (0 .. 3) \cup {GapEnd}]
  <2>1. 3 \in (0 .. 3) \cup {GapEnd}
    OBVIOUS
  <2> DEFINE V == (0 .. 3) \cup {GapEnd}
  <2> HIDE DEF V
  <2>2. QED
    BY <1>2, <1>4, <2>1 DEF MarkFileEnd, V
<1>6. /\ in' \in 0 .. rawSize /\ out' \in Nat
      /\ crc' \subseteq 0 .. Width - 1 /\ match' \in BOOLEAN /\ bitval' \in {0, 1}
      /\ out' <= 2 * rawSize
      /\ pass' = "detect" => from' = from /\ in' < rawSize /\ in <= in' /\ out' + 2 * from <= 2 * in'
  <2>1. CASE new = <<>>
    <3>1. /\ pass' = "next" /\ in' = in /\ crc' = crc /\ out' = out /\ bitval' = bitval
          /\ match' = match
      BY <1>2, <2>1 DEF Detect, Detected, decoding
    <3>2. QED
      BY <1>1, <1>2, <3>1
  <2>2. CASE new # <<>>
    <3>1. Len(new) \in {1, 2} /\ new[Len(new)] \in {0, 1}
      BY <1>2, <2>2, NewBits
    <3>2. /\ in' = in + 1 /\ out' = out + Len(new) /\ bitval' = new[Len(new)]
          /\ crc' = Register(crc, new) /\ match' = Holds(crc, out, new)
          /\ pass' = "next" \/ (in' < rawSize /\ from' = from)
      BY <2>2 DEF Detect, Detected
    <3>3. Register(crc, new) \subseteq 0 .. Width - 1
      BY <1>2, RegisterTyped
    <3>4. Holds(crc, out, new) \in BOOLEAN
      BY DEF Holds
    <3> HIDE DEF new
    <3>5. QED
      BY <1>1, <1>2, <1>4, <3>1, <3>2, <3>3, <3>4
  <2>3. QED
    BY <2>1, <2>2
<1>7. out' \in 0 .. 2 * rawSize + ByteBits * Len(starts')
  BY <1>1, <1>3, <1>6, Lengths
<1>8. from' \in 0 .. rawSize
  BY <1>2, <1>4, <1>6
<1>9. RecoveryTypeOK'
  BY <1>1, <1>3, <1>4, <1>5, <1>6, <1>7, <1>8 DEF RecoveryTypeOK
<1>10. pass' = "detect" => from' <= in' /\ in' < rawSize' /\ out' + 2 * from' <= 2 * in'
  <2> SUFFICES ASSUME pass' = "detect"
               PROVE  from' <= in' /\ in' < rawSize' /\ out' + 2 * from' <= 2 * in'
    OBVIOUS
  <2>1. from' = from /\ in' < rawSize /\ in <= in' /\ out' + 2 * from <= 2 * in' /\ in' \in Nat
    BY <1>1, <1>6
  <2>2. from <= in'
    BY <1>2, <2>1
  <2>3. QED
    BY <1>1, <2>1, <2>2, Zenon
<1>11. QED
  BY <1>1, <1>3, <1>4, <1>9, <1>10 DEF Typed

LEMMA TypedNext == Typed /\ ToNextGap => Typed'
<1> SUFFICES ASSUME Typed, ToNextGap PROVE Typed'
  OBVIOUS
<1>1. /\ rawSize \in Nat \ {0} /\ rawSize' = rawSize /\ recording' = recording
      /\ recording \in Disks
  BY SizeIs DEF Typed, ToNextGap, rawSize
<1>2. /\ pass' \in {"detect", "gaps"} /\ in' \in 0 .. rawSize /\ from' \in 0 .. rawSize
      /\ zeros' \in 0 .. rawSize /\ (pass' = "gaps" => zeros' <= in')
      /\ pass' = "detect" => in' = from' /\ in' < rawSize
  BY <1>1, NextGapEndTyped DEF Typed, RecoveryTypeOK, ToNextGap
<1>3. starts = <<>> /\ Len(starts) = 0 /\ bin = {}
  BY DEF Typed, ToNextGap
<1>4. CrcStart \subseteq 0 .. Width - 1
  BY Lengths DEF CrcStart
<1>5. /\ glitch' \in 0 .. rawSize - 1 /\ out' = 0 /\ bitval' = 1 /\ raw' = raw
      /\ crc' \subseteq 0 .. Width - 1 /\ match' = FALSE /\ junk' = junk
      /\ bin' = {} /\ starts' = <<>> /\ starts' \in Seq(Nat) /\ Len(starts') = 0
  BY <1>1, <1>3, <1>4 DEF Typed, ToNextGap, result
<1>6. out' \in 0 .. 2 * rawSize' + ByteBits * Len(starts')
  BY <1>1, <1>5, Lengths
<1>7. /\ junk' \in 0 .. rawSize' - 1
      /\ raw' \in [0 .. rawSize' - 1 -> (0 .. 3) \cup {GapEnd}]
  BY <1>1, <1>5 DEF Typed, RecoveryTypeOK
<1>8. RecoveryTypeOK'
  BY <1>1, <1>2, <1>5, <1>6, <1>7 DEF RecoveryTypeOK
<1>9. pass' = "detect" => from' <= in' /\ in' < rawSize' /\ out' + 2 * from' <= 2 * in'
  <2> SUFFICES ASSUME pass' = "detect"
               PROVE  from' <= in' /\ in' < rawSize' /\ out' + 2 * from' <= 2 * in'
    OBVIOUS
  <2>1. in' = from' /\ in' < rawSize' /\ out' = 0 /\ in' \in Nat
    BY <1>1, <1>2, <1>5
  <2>2. \A n \in Nat : n <= n /\ 0 + 2 * n <= 2 * n
    OBVIOUS
  <2>3. QED
    BY <2>1, <2>2, Zenon
<1>10. QED
  BY <1>1, <1>2, <1>5, <1>8, <1>9 DEF Typed

LEMMA TypedGaps == Typed /\ MarkGaps => Typed'
<1> SUFFICES ASSUME Typed, MarkGaps PROVE Typed'
  OBVIOUS
<1>1. /\ rawSize \in Nat \ {0} /\ rawSize' = rawSize /\ recording' = recording
      /\ recording \in Disks
  BY SizeIs DEF Typed, MarkGaps, rawSize
<1>2. raw' \in [0 .. rawSize - 1 -> (0 .. 3) \cup {GapEnd}]
  <2>1. raw \in [0 .. rawSize - 1 -> (0 .. 3) \cup {GapEnd}]
    BY DEF Typed, RecoveryTypeOK
  <2>2. MarkGapStart(raw, in) \in [0 .. rawSize - 1 -> (0 .. 3) \cup {GapEnd}]
    BY <2>1, MarkTyped, Zenon
  <2>3. raw' = raw \/ raw' = [MarkGapStart(raw, in) EXCEPT ![in] = GapEnd]
    BY DEF MarkGaps
  <2>4. GapEnd \in (0 .. 3) \cup {GapEnd}
    OBVIOUS
  <2> DEFINE V == (0 .. 3) \cup {GapEnd}
             r == MarkGapStart(raw, in)
  <2> HIDE DEF V, r
  <2>5. raw \in [0 .. rawSize - 1 -> V] /\ r \in [0 .. rawSize - 1 -> V] /\ GapEnd \in V
    BY <2>1, <2>2, <2>4 DEF V, r
  <2>6. raw' = raw \/ raw' = [r EXCEPT ![in] = GapEnd]
    BY <2>3 DEF r
  <2>7. raw' \in [0 .. rawSize - 1 -> V]
    BY <2>5, <2>6
  <2>8. QED
    BY <2>7 DEF V
<1>3. /\ in' \in 0 .. rawSize /\ glitch' \in 0 .. rawSize - 1
      /\ zeros' \in 0 .. rawSize /\ zeros' <= in'
  BY <1>1 DEF Typed, RecoveryTypeOK, MarkGaps
<1>4. QED
  BY <1>1, <1>2, <1>3 DEF Typed, RecoveryTypeOK, MarkGaps, detecting, decoding, result

LEMMA TypedStart == Typed /\ StartOutput => Typed'
<1> SUFFICES ASSUME Typed, StartOutput PROVE Typed'
  OBVIOUS
<1>1. /\ rawSize \in Nat \ {0} /\ rawSize' = rawSize /\ recording' = recording
      /\ recording \in Disks
  BY SizeIs DEF Typed, StartOutput, rawSize
<1>2. bin = {} /\ starts = <<>> /\ Len(starts) = 0
  BY DEF Typed, StartOutput
<1>3. /\ pass' = "output" /\ in' = 0 /\ out' = 0 /\ bitval' = 0 /\ bin' = bin
      /\ starts' = starts /\ Len(starts') = 0
  BY <1>2 DEF StartOutput, result
<1>4. out' \in 0 .. 2 * rawSize' + ByteBits * Len(starts')
  BY <1>1, <1>3, Lengths
<1>5. out' <= 2 * in' + ByteBits * Len(starts')
  BY <1>3, Lengths
<1>6. RecoveryTypeOK'
  BY <1>1, <1>2, <1>3, <1>4 DEF Typed, RecoveryTypeOK, StartOutput, marking, detecting
<1>7. QED
  BY <1>1, <1>3, <1>5, <1>6 DEF Typed

LEMMA TypedOutput == Typed /\ Output => Typed'
<1> SUFFICES ASSUME Typed, Output PROVE Typed'
  OBVIOUS
<1>1. /\ rawSize \in Nat \ {0} /\ rawSize' = rawSize /\ recording' = recording
      /\ recording \in Disks
  BY SizeIs DEF Typed, Output, rawSize
<1>2. /\ pass = "output" /\ pass' = pass /\ in \in 0 .. rawSize - 1 /\ in' = in + 1
      /\ out \in Nat /\ out <= 2 * in + ByteBits * Len(starts)
      /\ bitval \in {0, 1} /\ starts \in Seq(Nat) /\ Len(starts) \in Nat
      /\ \A k \in bin : k \in 0 .. out - 1
  BY <1>1 DEF Typed, RecoveryTypeOK, Output
<1> DEFINE most == ByteBits * Len(starts)
<1>3. most \in Nat
  BY <1>2, Lengths
<1>4. /\ bitval' \in {0, 1} /\ starts' \in Seq(Nat) /\ out' \in Nat
      /\ out' <= 2 * in' + ByteBits * Len(starts')
      /\ 2 * in' + ByteBits * Len(starts') <= 2 * rawSize + ByteBits * Len(starts')
      /\ ByteBits * Len(starts') \in Nat
      /\ \A k \in bin' : k \in 0 .. out' - 1
  <2>1. CASE BlockBegins
    <3>1. /\ out' = Align(out) /\ bitval' = 1
          /\ bin' \subseteq bin \cup {out' - 1}
          /\ starts' = Append(starts, out' \div ByteBits)
      BY <2>1 DEF BlockBegins
    <3>2. /\ out' \in Nat /\ out < out' /\ out' <= out + ByteBits
          /\ out' \div ByteBits \in Nat
      BY <1>2, <3>1, Aligned
    <3>3. starts' \in Seq(Nat) /\ Len(starts') = Len(starts) + 1
      BY <1>2, <3>1, <3>2
    <3>4. ByteBits * Len(starts') = most + ByteBits
      BY <1>2, <3>3, Lengths
    <3> HIDE DEF most
    <3>5. out' <= 2 * in' + (most + ByteBits) /\ most + ByteBits \in Nat
      BY <1>2, <1>3, <3>2, Lengths DEF most
    <3>6. \A k \in bin' : k \in 0 .. out' - 1
      BY <1>2, <3>1, <3>2, SMTT(30)
    <3>7. 2 * in' + (most + ByteBits) <= 2 * rawSize + (most + ByteBits)
      BY <1>1, <1>2, <3>5
    <3>8. QED
      BY <3>1, <3>2, <3>3, <3>4, <3>5, <3>6, <3>7
  <2>2. CASE BitsFollow
    <3> DEFINE new == Bits(bitval, raw[in])
    <3>1. /\ starts' = starts
          /\ IF new = <<>>
             THEN out' = out + 1 /\ bitval' = 0 /\ bin' = bin
             ELSE /\ out' = out + Len(new) /\ bitval' = new[Len(new)]
                  /\ bin' \subseteq bin \cup {out' - 1}
      BY <2>2 DEF BitsFollow, LastBit
    <3>2. new # <<>> => Len(new) \in {1, 2} /\ new[Len(new)] \in {0, 1}
      BY <1>2, NewBits
    <3> HIDE DEF new, most
    <3>3. /\ out' \in Nat /\ out < out' /\ out' <= out + 2 /\ bitval' \in {0, 1}
          /\ bin' \subseteq bin \cup {out' - 1}
      BY <1>2, <3>1, <3>2
    <3>4. out' <= 2 * in' + most /\ 2 * in' + most <= 2 * rawSize + most
      BY <1>1, <1>2, <1>3, <3>3 DEF most
    <3>5. \A k \in bin' : k \in 0 .. out' - 1
      BY <1>2, <3>3
    <3>6. QED
      BY <1>2, <1>3, <3>1, <3>3, <3>4, <3>5 DEF most
  <2>3. QED
    BY <2>1, <2>2 DEF Output
<1> HIDE DEF most
<1>5. out' \in 0 .. 2 * rawSize + ByteBits * Len(starts')
  <2> DEFINE more == ByteBits * Len(starts')
  <2>1. more \in Nat /\ out' <= 2 * in' + more /\ 2 * in' + more <= 2 * rawSize + more
    BY <1>4
  <2> HIDE DEF more
  <2>2. out' \in 0 .. 2 * rawSize + more
    BY <1>1, <1>2, <1>4, <2>1
  <2>3. QED
    BY <2>2 DEF more
<1>6. in' \in 0 .. rawSize
  BY <1>1, <1>2
<1>7. RecoveryTypeOK'
  BY <1>1, <1>2, <1>4, <1>5, <1>6 DEF Typed, RecoveryTypeOK, Output, marking, detecting
<1>8. QED
  BY <1>1, <1>2, <1>4, <1>7 DEF Typed

LEMMA TypedFinish == Typed /\ Finish => Typed'
<1> SUFFICES ASSUME Typed, Finish PROVE Typed'
  OBVIOUS
<1> QED
  BY DEF Typed, RecoveryTypeOK, Finish, rawSize, marking, detecting, decoding, result

LEMMA AlwaysTyped == RecoverySpec => []Typed
<1>1. ASSUME Typed, [RecoveryNext]_recoveryVars
      PROVE  Typed'
  <2>1. CASE UNCHANGED recoveryVars
    BY <1>1, <2>1 DEF Typed, RecoveryTypeOK, rawSize, recoveryVars
  <2>2. QED
    BY <1>1, <2>1, TypedGlitches, TypedHeader, TypedDetect, TypedNext, TypedGaps, TypedStart,
       TypedOutput, TypedFinish DEF RecoveryNext
<1>2. QED
  BY <1>1, TypedInit, PTL DEF RecoverySpec

\* Every position that raw03_to_bin goes to is in the recording or just behind it, and it
\* writes no more than two bits for each pulse and a byte for each block.
THEOREM RecoveryTypeCorrect == RecoverySpec => []RecoveryTypeOK
<1>1. Typed => RecoveryTypeOK
  BY DEF Typed
<1>2. QED
  BY <1>1, AlwaysTyped, PTL

-----------------------------------------------------------------------------
(* the first pass marks gaps near glitches only *)

\* the run of zeros that ends at in
RunOf(r) ==
    /\ \A k \in in - zeros .. in - 1 : r[k] = 0
    /\ zeros < in => r[in - zeros - 1] # 0

Glitches ==
    pass = "glitches" =>
        /\ OnlyMarks(recording, raw) /\ Kept(recording, raw, LongGap + 3)
        /\ \A k \in in .. Size(recording) - 1 : raw[k] = Pulses(recording)[k]
        /\ RunOf(Pulses(recording))
        /\ glitch # 0 =>
            /\ glitch < in /\ Pulses(recording)[glitch] = 3
            /\ \A k \in in - zeros .. in - 1 : raw[k] = 0
            /\ \A k \in glitch + 1 .. in - 1 : Pulses(recording)[k] = 1 => k <= junk

\* the zeros from s to i, soon after the glitch g, are neither a block's nor in the gap before it
LEMMA GlitchGap ==
    ASSUME NEW d \in Disks, NEW i \in 0 .. Size(d) - 1, NEW s \in 0 .. i,
           \A k \in s .. i : Pulses(d)[k] = 0,
           s > 0 => Pulses(d)[s - 1] # 0,
           NEW g \in 1 .. i - 1, Pulses(d)[g] = 3,
           NEW j \in Nat, \A k \in g + 1 .. i - 1 : Pulses(d)[k] = 1 => k <= j,
           j - g < PostGlitch
    PROVE  \A b \in 1 .. Many(d) : s \notin First(d, b) - (LongGap + 3) .. Last(d, b)
<1> SUFFICES ASSUME NEW b \in 1 .. Many(d), s \in First(d, b) - (LongGap + 3) .. Last(d, b)
             PROVE  FALSE
  OBVIOUS
<1> DEFINE first == First(d, b)
           last == Last(d, b)
<1>1. /\ first \in Nat /\ last \in Nat /\ LongGap + 4 <= first /\ first <= last
      /\ \A k \in first - LongGap - 4 .. first - 2 : Pulses(d)[k] = 0
      /\ Pulses(d)[first - 1] = 1
      /\ \A k \in first .. last : Pulses(d)[k] # 3
      /\ LongGap \in Nat /\ PostGlitch \in Nat /\ PostGlitch <= LongGap
  BY BlockAt, NoMark, Lengths
<1> HIDE DEF first, last
<1>2. s \in first - (LongGap + 3) .. last
  BY DEF first, last
<1>3. s > 0 /\ s - 1 \in Nat /\ Pulses(d)[s] = 0
  BY <1>1, <1>2
<1>4. ~(s - 1 \in first - LongGap - 4 .. first - 2)
  BY <1>1, <1>3
<1>5. s >= first
  BY <1>1, <1>2, <1>3, <1>4
<1>6. g < s
  BY <1>3
<1>7. ~(g \in first .. last)
  BY <1>1
<1>8. g < first
  BY <1>1, <1>2, <1>6, <1>7
<1>9. g # first - 1 /\ ~(g \in first - LongGap - 4 .. first - 2)
  BY <1>1
<1>10. g < first - LongGap - 4
  BY <1>1, <1>8, <1>9
<1>11. first - 1 \in g + 1 .. i - 1
  BY <1>1, <1>5, <1>10
<1>12. first - 1 <= j
  BY <1>1, <1>11
<1>13. QED
  BY <1>1, <1>10, <1>12

LEMMA GlitchesBegin == RecoveryInit => Glitches
<1> SUFFICES ASSUME RecoveryInit PROVE Glitches
  OBVIOUS
<1>1. recording \in Disks /\ raw = Pulses(recording) /\ in = 0 /\ zeros = 0 /\ glitch = 0
  BY DEF RecoveryInit
<1>2. QED
  BY <1>1 DEF Glitches, OnlyMarks, Kept, RunOf

LEMMA GlitchesKeep == Typed /\ Glitches /\ FindGlitches => Glitches'
<1> SUFFICES ASSUME Typed, Glitches, FindGlitches PROVE Glitches'
  OBVIOUS
<1> DEFINE d == recording
           P == Pulses(d)
           N == Size(d)
           V == (0 .. 3) \cup {GapEnd}
<1>1. /\ d \in Disks /\ N \in Nat \ {0} /\ P \in [0 .. N - 1 -> 0 .. 3]
      /\ pass = "glitches" /\ pass' = pass /\ recording' = d
      /\ raw \in [0 .. N - 1 -> V] /\ 3 \in V
      /\ in \in 0 .. N - 1 /\ in' = in + 1 /\ zeros \in 0 .. in
      /\ glitch \in 0 .. N - 1 /\ junk \in 0 .. N - 1
  BY SizeIs, PulsesOf DEF Typed, RecoveryTypeOK, FindGlitches
<1>2. /\ OnlyMarks(d, raw) /\ Kept(d, raw, LongGap + 3)
      /\ \A k \in in .. N - 1 : raw[k] = P[k]
      /\ \A k \in in - zeros .. in - 1 : P[k] = 0
      /\ zeros < in => P[in - zeros - 1] # 0
      /\ glitch # 0 =>
            /\ glitch < in /\ P[glitch] = 3
            /\ \A k \in in - zeros .. in - 1 : raw[k] = 0
            /\ \A k \in glitch + 1 .. in - 1 : P[k] = 1 => k <= junk
  BY <1>1 DEF Glitches, RunOf
<1>3. raw[in] = P[in]
  BY <1>1, <1>2
<1> SUFFICES
      /\ OnlyMarks(d, raw') /\ Kept(d, raw', LongGap + 3)
      /\ \A k \in in + 1 .. N - 1 : raw'[k] = P[k]
      /\ \A k \in in + 1 - zeros' .. in : P[k] = 0
      /\ zeros' < in + 1 => P[in - zeros'] # 0
      /\ glitch' # 0 =>
            /\ glitch' < in + 1 /\ P[glitch'] = 3
            /\ \A k \in in + 1 - zeros' .. in : raw'[k] = 0
            /\ \A k \in glitch' + 1 .. in : P[k] = 1 => k <= junk'
  <2>1. /\ recording' = recording /\ in' = in + 1 /\ in \in Nat
        /\ zeros' \in Nat
    BY <1>1 DEF FindGlitches
  <2>2. in' - 1 = in /\ in' - zeros' - 1 = in - zeros' /\ in' - zeros' = in + 1 - zeros'
    BY <2>1
  <2>3. OnlyMarks(recording', raw') /\ Kept(recording', raw', LongGap + 3)
    BY <2>1
  <2>4. \A k \in in' .. Size(recording') - 1 : raw'[k] = Pulses(recording')[k]
    BY <2>1
  <2>5. RunOf(Pulses(recording))'
    BY <2>1, <2>2 DEF RunOf
  <2>6. glitch' # 0 =>
            /\ glitch' < in' /\ Pulses(recording')[glitch'] = 3
            /\ \A k \in in' - zeros' .. in' - 1 : raw'[k] = 0
            /\ \A k \in glitch' + 1 .. in' - 1 : Pulses(recording')[k] = 1 => k <= junk'
    BY <2>1, <2>2
  <2>7. QED
    BY <2>3, <2>4, <2>5, <2>6 DEF Glitches
<1> HIDE DEF P, N, d, V
<1>4. CASE raw[in] = 3 /\ glitch' = in /\ junk' = 0 /\ zeros' = 0 /\ UNCHANGED raw
  BY <1>1, <1>2, <1>3, <1>4
<1>5. CASE raw[in] \in {1, 2} /\ junk' = in /\ zeros' = 0 /\ UNCHANGED <<raw, glitch>>
  BY <1>1, <1>2, <1>3, <1>5
<1>6. CASE raw[in] = 0 /\ zeros' = zeros + 1 /\ UNCHANGED <<raw, glitch>> /\ UNCHANGED junk
  BY <1>1, <1>2, <1>3, <1>6
<1>7. CASE /\ raw[in] = 0 /\ zeros' = zeros + 1 /\ NearGlitch
           /\ raw' = MarkGapStart(raw, in) /\ glitch' = 0 /\ UNCHANGED junk
  <2>1. GapStart(raw, in) = in - zeros
    <3>1. in - zeros \in 0 .. in /\ in \in Nat
      BY <1>1
    <3>2. \A k \in in - zeros .. in - 1 : raw[k] = 0
      BY <1>2, <1>7 DEF NearGlitch
    <3>3. in - zeros = 0 \/ raw[in - zeros - 1] # 0
      BY <1>1, <1>2 DEF OnlyMarks, N, P, d
    <3>4. QED
      BY <3>1, <3>2, <3>3, GapStartIs
  <2>2. \A k \in 0 .. N - 1 : raw'[k] = IF k = in - zeros THEN 3 ELSE raw[k]
    <3>1. \A k \in 0 .. N - 1 :
            MarkGapStart(raw, in)[k] = IF k = GapStart(raw, in) THEN 3 ELSE raw[k]
      BY <1>1 DEF MarkGapStart
    <3>2. QED
      BY <1>7, <2>1, <3>1
  <2>3. \A b \in 1 .. Many(d) : in - zeros \notin First(d, b) - (LongGap + 3) .. Last(d, b)
    <3>1. in \in 0 .. Size(d) - 1 /\ in - zeros \in 0 .. in
      BY <1>1 DEF N
    <3>2. \A k \in in - zeros .. in : Pulses(d)[k] = 0
      BY <1>1, <1>2, <1>3, <1>7 DEF P
    <3>3. in - zeros > 0 => Pulses(d)[in - zeros - 1] # 0
      BY <1>1, <1>2 DEF P
    <3>4. /\ glitch \in 1 .. in - 1 /\ Pulses(d)[glitch] = 3
          /\ junk \in Nat /\ \A k \in glitch + 1 .. in - 1 : Pulses(d)[k] = 1 => k <= junk
          /\ junk - glitch < PostGlitch
      BY <1>1, <1>2, <1>7 DEF NearGlitch, P
    <3>5. d \in Disks
      BY <1>1
    <3>6. QED
      BY <3>1, <3>2, <3>3, <3>4, <3>5, GlitchGap
  <2>4. OnlyMarks(d, raw')
    BY <1>2, <2>2 DEF OnlyMarks, N
  <2>5. Kept(d, raw', LongGap + 3)
    <3>1. ASSUME NEW b \in 1 .. Many(d), NEW k \in First(d, b) - (LongGap + 3) .. Last(d, b)
          PROVE  raw'[k] = Pulses(d)[k]
      <4>1. k \in 0 .. N - 1
        <5>1. /\ First(d, b) \in Nat /\ Last(d, b) \in Nat
              /\ LongGap + 4 <= First(d, b) /\ Last(d, b) < N
          BY <1>1, BlockAt DEF N
        <5>2. LongGap \in Nat /\ N \in Nat
          BY <1>1, Lengths, PulsesOf DEF N
        <5>3. QED
          BY <5>1, <5>2
      <4>2. raw[k] = Pulses(d)[k] /\ k # in - zeros
        BY <1>2, <2>3 DEF Kept
      <4>3. QED
        BY <2>2, <4>1, <4>2
    <3>2. QED
      BY <3>1 DEF Kept
  <2>6. QED
    BY <1>1, <1>2, <1>3, <1>7, <2>2, <2>4, <2>5
<1>8. QED
  BY <1>4, <1>5, <1>6, <1>7 DEF FindGlitches

-----------------------------------------------------------------------------
(* the header that is found is the first block's *)

LEMMA HeaderPlaces ==
    ASSUME NEW d \in Disks, NEW r, OnlyMarks(d, r), Kept(d, r, LongGap + 3)
    PROVE  /\ First(d, 1) - 1 \in 0 .. Size(d) - Len(Header)
           /\ First(d, 1) - 1 + Len(Header) <= SearchLimit
           /\ HeaderAt(r, First(d, 1) - 1)
           /\ \A k \in 0 .. Size(d) - Len(Header) : HeaderAt(r, k) => First(d, 1) - 1 <= k
<1> DEFINE first == First(d, 1)
           last == Last(d, 1)
           n == Len(Header)
<1>1. /\ n \in Nat /\ n >= 2 /\ \A j \in 1 .. n : Header[j] \in 0 .. 2
      /\ Size(d) \in Nat /\ LongGap \in Nat
  BY RecoveryAssumption, PulsesOf, Lengths
<1>2. /\ first \in Nat /\ last \in Nat /\ LongGap + 4 <= first /\ first <= last /\ last < Size(d)
      /\ 1 \in 1 .. Many(d)
  BY BlockAt
<1>3. /\ HeaderAt(Pulses(d), first - 1) /\ n <= last - first + 2
      /\ first - 1 + n <= SearchLimit
      /\ \A k \in 0 .. first - 2 : ~HeaderAt(Pulses(d), k)
  BY AroundBlocks
<1>4. \A k \in first - (LongGap + 3) .. last : r[k] = Pulses(d)[k]
  BY <1>2 DEF Kept
<1> HIDE DEF first, last, n
<1>5. first - 1 \in 0 .. Size(d) - n
  BY <1>1, <1>2, <1>3
<1>6. HeaderAt(r, first - 1)
  <2>1. SUFFICES ASSUME NEW j \in 1 .. n PROVE r[(first - 1) + j - 1] = Header[j]
    BY DEF HeaderAt, n
  <2>2. (first - 1) + (j - 1) \in first - (LongGap + 3) .. last
    BY <1>1, <1>2, <1>3
  <2>3. r[(first - 1) + (j - 1)] = Pulses(d)[(first - 1) + (j - 1)]
    BY <1>4, <2>2
  <2>4. Pulses(d)[(first - 1) + (j - 1)] = Header[j]
    BY <1>3 DEF HeaderAt, n
  <2>5. QED
    BY <2>3, <2>4
<1>7. ASSUME NEW k \in 0 .. Size(d) - n, HeaderAt(r, k), k < first - 1
      PROVE  FALSE
  <2>1. ASSUME NEW j \in 1 .. n PROVE Pulses(d)[k + (j - 1)] = Header[j]
    <3>1. k + (j - 1) \in 0 .. Size(d) - 1
      BY <1>1
    <3>2. r[k + (j - 1)] = Header[j]
      BY <1>7 DEF HeaderAt, n
    <3>3. QED
      BY <1>1, <3>1, <3>2 DEF OnlyMarks
  <2>2. HeaderAt(Pulses(d), k)
    BY <2>1 DEF HeaderAt, n
  <2>3. k \in 0 .. first - 2
    BY <1>1, <1>2, <1>7
  <2>4. QED
    BY <1>3, <2>2, <2>3
<1>8. QED
  BY <1>1, <1>2, <1>3, <1>5, <1>6, <1>7 DEF first, n

LEMMA HeaderIsFirst ==
    ASSUME recording \in Disks, OnlyMarks(recording, raw), Kept(recording, raw, LongGap + 3)
    PROVE  FirstBlock = First(recording, 1) - 1
<1> DEFINE places == {k \in 0 .. rawSize - Len(Header) :
                        k + Len(Header) <= SearchLimit /\ HeaderAt(raw, k)}
           first == First(recording, 1) - 1
<1>1. rawSize = Size(recording) /\ rawSize \in Nat /\ Len(Header) \in Nat
  BY SizeIs, RecoveryAssumption
<1>2. places \in SUBSET Nat
  BY <1>1
<1>3. first \in places /\ \A k \in places : first <= k
  BY <1>1, HeaderPlaces
<1>4. FirstBlock = CHOOSE k \in places : \A j \in places : k <= j
  BY <1>3 DEF FirstBlock
<1> HIDE DEF places, first
<1>5. FirstBlock = first
  BY <1>2, <1>3, <1>4, LeastIs
<1>6. QED
  BY <1>5 DEF first

\* the lead-in gets its mark, far enough before the block
LEMMA LeadMarked ==
    ASSUME NEW d \in Disks, NEW V, NEW r \in [0 .. Size(d) - 1 -> V],
           OnlyMarks(d, r), Kept(d, r, LongGap + 3)
    PROVE  LET marked == MarkLeadIn(r, First(d, 1) - 2)
           IN  OnlyMarks(d, marked) /\ Kept(d, marked, LongGap + 2) /\ Lead(d, marked)
<1> DEFINE first == First(d, 1)
           end == first - 2
           s == GapStart(r, end)
           marked == MarkLeadIn(r, end)
<1>1. /\ first \in Nat /\ LongGap \in Nat /\ LongGap + 4 <= first /\ first < Size(d)
      /\ Size(d) \in Nat /\ 1 \in 1 .. Many(d) /\ first <= Last(d, 1) /\ Last(d, 1) \in Nat
      /\ \A k \in first - LongGap - 4 .. first - 2 : Pulses(d)[k] = 0
  BY BlockAt, PulsesOf, Lengths
<1>2. \A k \in first - (LongGap + 3) .. Last(d, 1) : r[k] = Pulses(d)[k]
  BY <1>1 DEF Kept
<1> HIDE DEF first
<1>3. \A k \in first - (LongGap + 3) .. first - 2 : r[k] = 0
  BY <1>1, <1>2
<1>4. s \in 0 .. first - (LongGap + 3) /\ \A j \in s .. end - 1 : r[j] = 0
  <2>1. end \in Nat /\ first - (LongGap + 3) \in 0 .. end
    BY <1>1
  <2>2. \A j \in first - (LongGap + 3) .. end - 1 : r[j] = 0
    BY <1>1, <1>3
  <2> HIDE DEF end
  <2>3. QED
    BY <2>1, <2>2, GapStartBefore
<1>5. \A k \in 0 .. Size(d) - 1 : marked[k] = IF k = s THEN 3 ELSE r[k]
  BY DEF MarkLeadIn, MarkGapStart
<1> HIDE DEF s, marked
<1>6. OnlyMarks(d, marked)
  BY <1>5 DEF OnlyMarks
<1>7. Kept(d, marked, LongGap + 2)
  <2>1. ASSUME NEW b \in 1 .. Many(d), NEW k \in First(d, b) - (LongGap + 2) .. Last(d, b)
        PROVE  marked[k] = Pulses(d)[k]
    <3>1. /\ First(d, b) \in Nat /\ Last(d, b) \in Nat /\ LongGap + 4 <= First(d, b)
          /\ Last(d, b) < Size(d) /\ First(d, b) >= first
      <4>1. b = 1 \/ 1 < b
        OBVIOUS
      <4>2. b = 1 \/ Last(d, 1) < First(d, b) - LongGap - 4
        BY <1>1, <4>1, InOrder
      <4>3. QED
        BY <1>1, <4>2, BlockAt, SMTT(30) DEF first
    <3>2. k \in 0 .. Size(d) - 1 /\ k # s
      BY <1>1, <1>4, <3>1
    <3>3. k \in First(d, b) - (LongGap + 3) .. Last(d, b)
      BY <1>1, <3>1
    <3>4. r[k] = Pulses(d)[k]
      BY <3>3 DEF Kept
    <3>5. QED
      BY <1>5, <3>2, <3>4
  <2>2. QED
    BY <2>1 DEF Kept
<1>8. Lead(d, marked)
  <2>1. s \in 0 .. first - 2 /\ s \in 0 .. Size(d) - 1
    BY <1>1, <1>4
  <2>2. marked[s] = 3
    BY <1>5, <2>1
  <2>3. ASSUME NEW j \in s + 1 .. first - 2 PROVE marked[j] = 0
    <3>1. j \in 0 .. Size(d) - 1 /\ j # s
      BY <1>1, <2>1
    <3>2. r[j] = 0
      <4>1. j \in s .. end - 1 \/ j \in first - (LongGap + 3) .. first - 2
        BY <1>1, <2>1
      <4>2. QED
        BY <1>3, <1>4, <4>1
    <3>3. QED
      BY <1>5, <3>1, <3>2
  <2>4. QED
    BY <2>1, <2>2, <2>3 DEF Lead, first
<1>9. QED
  BY <1>6, <1>7, <1>8 DEF marked, end, first

-----------------------------------------------------------------------------
(* what is taken for the end of a file is one, or lies behind the last block *)

Detecting ==
    pass \in {"detect", "next"} =>
        /\ OnlyMarks(recording, raw) /\ Kept(recording, raw, LongGap + 2)
        /\ Lead(recording, raw)

\* crc_detect is in the block it was started at, or has missed the end of the last one
InBlockAt(d, c) ==
    \/ /\ in \in First(d, c) .. Last(d, c)
       /\ d.blocks[c].run[in - First(d, c)] = [bit |-> bitval, out |-> out, crc |-> crc]
    \/ c = Many(d) /\ in > Last(d, c) /\ NoGapBehind(d)

AtBlock ==
    pass = "detect" => \E c \in 1 .. Many(recording) :
        /\ from = First(recording, c) /\ EndsMarked(recording, raw, c - 1)
        /\ InBlockAt(recording, c)

BetweenBlocks ==
    pass = "next" =>
        \/ \E c \in 1 .. Many(recording) - 1 :
            EndsMarked(recording, raw, c) /\ from = Last(recording, c) + 1
        \/ /\ EndsMarked(recording, raw, Many(recording) - 1)
           /\ \/ from > Last(recording, Many(recording))
              \/ from = First(recording, Many(recording)) /\ NoGapBehind(recording)

Detections == Detecting /\ AtBlock /\ BetweenBlocks

LEMMA HeaderKeeps == Typed /\ Glitches /\ FindHeader => pass' = "detect" /\ Detections'
<1> SUFFICES ASSUME Typed, Glitches, FindHeader PROVE pass' = "detect" /\ Detections'
  OBVIOUS
<1> DEFINE d == recording
           first == First(d, 1)
<1>1. /\ d \in Disks /\ raw \in [0 .. Size(d) - 1 -> (0 .. 3) \cup {GapEnd}]
      /\ OnlyMarks(d, raw) /\ Kept(d, raw, LongGap + 3) /\ recording' = d
  BY SizeIs DEF Typed, RecoveryTypeOK, Glitches, FindHeader
<1>2. FirstBlock = first - 1
  BY <1>1, HeaderIsFirst
<1>3. /\ first \in Nat /\ first > 2 /\ first <= Last(d, 1) /\ Last(d, 1) \in Nat
      /\ 1 \in 1 .. Many(d) /\ first < Size(d)
  <2>1. 1 \in 1 .. Many(d)
    BY <1>1, BlockAt
  <2>2. /\ first \in Nat /\ Last(d, 1) \in Nat /\ LongGap + 4 <= first
        /\ first <= Last(d, 1) /\ Last(d, 1) < Size(d)
    BY <1>1, <2>1, BlockAt
  <2>3. LongGap \in Nat /\ Size(d) \in Nat
    BY <1>1, Lengths, PulsesOf
  <2>4. QED
    BY <2>1, <2>2, <2>3
<1>4. /\ FirstBlock > 0 /\ FirstBlock + 1 > 0 /\ FirstBlock - 1 = first - 2
      /\ FirstBlock + 1 = first
  BY <1>2, <1>3
<1>5. /\ pass' = "detect" /\ in' = first /\ from' = first
      /\ raw' = MarkLeadIn(raw, first - 2)
      /\ crc' = CrcStart /\ bitval' = 1 /\ out' = 0
  BY <1>4 DEF FindHeader
<1>6. OnlyMarks(d, raw') /\ Kept(d, raw', LongGap + 2) /\ Lead(d, raw')
  BY <1>1, <1>5, LeadMarked
<1>7. d.blocks[1].run[0] = [bit |-> 1, out |-> 0, crc |-> CrcStart]
  BY <1>1, <1>3, BlockStarts
<1>8. in' - first = 0 /\ in' \in first .. Last(d, 1)
  BY <1>3, <1>5
<1>9. EndsMarked(d, raw', 0)
  BY DEF EndsMarked
<1>10. InBlockAt(d, 1)'
  BY <1>1, <1>5, <1>7, <1>8 DEF InBlockAt
<1>11. Detecting'
  BY <1>1, <1>6 DEF Detecting
<1>12. AtBlock'
  BY <1>1, <1>3, <1>5, <1>9, <1>10 DEF AtBlock
<1>13. BetweenBlocks'
  BY <1>5 DEF BetweenBlocks
<1>14. QED
  BY <1>5, <1>11, <1>12, <1>13 DEF Detections

LEMMA EndMarked ==
    ASSUME NEW d \in Disks, NEW V, NEW r \in [0 .. Size(d) - 1 -> V],
           OnlyMarks(d, r), Kept(d, r, LongGap + 2), Lead(d, r),
           NEW c \in 1 .. Many(d), EndsMarked(d, r, c - 1),
           NEW q \in Nat, q > Last(d, c), c = Many(d) \/ q = Last(d, c) + 1,
           NEW s \in [0 .. Size(d) - 1 -> V],
           \A k \in 0 .. Size(d) - 1 : s[k] = IF k = q THEN 3 ELSE r[k]
    PROVE  /\ OnlyMarks(d, s) /\ Kept(d, s, LongGap + 2) /\ Lead(d, s)
           /\ EndsMarked(d, s, c - 1)
           /\ q = Last(d, c) + 1 => EndsMarked(d, s, c)
<1>1. Size(d) \in Nat /\ LongGap \in Nat /\ Many(d) \in Nat
  BY PulsesOf, Lengths, BlockAt
<1>2. ASSUME NEW b \in 1 .. Many(d)
      PROVE  /\ First(d, b) \in Nat /\ Last(d, b) \in Nat /\ LongGap + 4 <= First(d, b)
             /\ First(d, b) <= Last(d, b) /\ Last(d, b) < Size(d)
             /\ b < c => Last(d, b) < First(d, c) - LongGap - 4
             /\ c < b => Last(d, c) < First(d, b) - LongGap - 4
             /\ q \notin First(d, b) - (LongGap + 2) .. Last(d, b)
  <2>1. /\ First(d, b) \in Nat /\ Last(d, b) \in Nat /\ LongGap + 4 <= First(d, b)
        /\ First(d, b) <= Last(d, b) /\ Last(d, b) < Size(d)
        /\ First(d, c) \in Nat /\ Last(d, c) \in Nat /\ First(d, c) <= Last(d, c)
    BY BlockAt
  <2>2. /\ b < c => Last(d, b) < First(d, c) - LongGap - 4
        /\ c < b => Last(d, c) < First(d, b) - LongGap - 4
    BY InOrder
  <2>3. b < c \/ b = c \/ c < b
    BY <1>1
  <2>4. q > Last(d, b) \/ (c < b /\ q = Last(d, c) + 1)
    BY <1>1, <2>1, <2>2, <2>3, SMTT(30)
  <2>5. QED
    BY <1>1, <2>1, <2>2, <2>4, SMTT(30)
<1>3. OnlyMarks(d, s)
  BY DEF OnlyMarks
<1>4. Kept(d, s, LongGap + 2)
  <2>1. ASSUME NEW b \in 1 .. Many(d), NEW k \in First(d, b) - (LongGap + 2) .. Last(d, b)
        PROVE  s[k] = Pulses(d)[k]
    <3>1. k \in 0 .. Size(d) - 1 /\ k # q
      BY <1>1, <1>2, SMTT(30)
    <3>2. r[k] = Pulses(d)[k]
      BY DEF Kept
    <3>3. QED
      BY <3>1, <3>2
  <2>2. QED
    BY <2>1 DEF Kept
<1>5. Lead(d, s)
  <2>1. 1 \in 1 .. Many(d) /\ (c = 1 \/ 1 < c)
    BY BlockAt
  <2>2. /\ First(d, 1) \in Nat /\ First(d, 1) < Size(d) /\ First(d, 1) < q
    BY <1>1, <1>2, <2>1, SMTT(30)
  <2>3. \A k \in 0 .. First(d, 1) - 2 : k \in 0 .. Size(d) - 1 /\ k # q
    BY <1>1, <2>2
  <2>4. \A k \in 0 .. First(d, 1) - 2 : s[k] = r[k]
    BY <2>3
  <2>5. PICK k \in 0 .. First(d, 1) - 2 : r[k] = 3 /\ \A j \in k + 1 .. First(d, 1) - 2 : r[j] = 0
    BY DEF Lead
  <2>6. \A j \in k + 1 .. First(d, 1) - 2 : j \in 0 .. First(d, 1) - 2
    BY <2>2
  <2>7. QED
    BY <2>4, <2>5, <2>6 DEF Lead
<1>6. \A b \in 1 .. Many(d) : Last(d, b) + 1 \in Nat
  BY <1>2
<1>7. EndsMarked(d, s, c - 1)
  <2>1. \A b \in 1 .. c - 1 : b \in 1 .. Many(d)
    BY <1>1
  <2>2. QED
    BY <1>1, <1>6, <2>1 DEF EndsMarked
<1>8. q = Last(d, c) + 1 => EndsMarked(d, s, c)
  <2>1. \A b \in 1 .. c : b = c \/ b \in 1 .. c - 1
    OBVIOUS
  <2>2. QED
    BY <1>1, <1>6, <1>7, <2>1 DEF EndsMarked
<1>9. QED
  BY <1>3, <1>4, <1>5, <1>7, <1>8

\* The end of a block that is not the last looks like the end of a file.
LEMMA EndsWithin ==
    ASSUME NEW d \in Disks, NEW r, Kept(d, r, LongGap + 2), NEW c \in 1 .. Many(d) - 1
    PROVE  LooksLikeFileEnd(r, Last(d, c) + 1, Size(d))
<1> DEFINE j == First(d, c + 1) - 1
           k == Last(d, c) + 1
<1>1. /\ c \in 1 .. Many(d) /\ c + 1 \in 1 .. Many(d) /\ c < c + 1
  BY BlockAt
<1>2. /\ First(d, c + 1) \in Nat /\ Last(d, c) \in Nat /\ Last(d, c + 1) \in Nat
      /\ Last(d, c) < First(d, c + 1) - LongGap - 4
      /\ First(d, c + 1) <= Last(d, c) + MaxGap + 1
      /\ First(d, c + 1) <= Last(d, c + 1) /\ Last(d, c + 1) < Size(d)
      /\ \A i \in First(d, c + 1) - LongGap - 4 .. First(d, c + 1) - 2 : Pulses(d)[i] = 0
      /\ Pulses(d)[First(d, c + 1) - 1] = 1
  BY <1>1, BlockAt, InOrder
<1>3. \A i \in First(d, c + 1) - (LongGap + 2) .. Last(d, c + 1) : r[i] = Pulses(d)[i]
  BY <1>1 DEF Kept
<1>4. /\ LongGap \in Nat /\ MinGap \in Nat /\ MinGap <= LongGap /\ MaxGap \in Nat
      /\ Size(d) \in Nat
  BY Lengths, PulsesOf
<1>5. j \in k .. Size(d) - 1 /\ j < k + MaxGap /\ j - (MinGap + 1) >= k
  BY <1>2, <1>4
<1>6. r[j] = 1
  BY <1>2, <1>3, <1>4
<1>7. \A i \in j - (MinGap + 1) .. j - 1 : r[i] = 0
  BY <1>2, <1>3, <1>4
<1> HIDE DEF j, k
<1>8. LooksLikeFileEnd(r, k, Size(d))
  BY <1>5, <1>6, <1>7 DEF LooksLikeFileEnd, ZerosBefore
<1>9. QED
  BY <1>8 DEF k

\* where crc_detect is has a state it can go on from, or it returns
LEMMA DetectKeeps == Typed /\ Detections /\ Detect => Detections'
<1> SUFFICES ASSUME Typed, Detections, Detect PROVE Detections'
  OBVIOUS
<1> DEFINE d == recording
           N == Size(d)
           V == (0 .. 3) \cup {GapEnd}
           new == Bits(bitval, raw[in])
<1>1. /\ d \in Disks /\ N \in Nat \ {0} /\ rawSize = N /\ recording' = d
      /\ raw \in [0 .. N - 1 -> V] /\ 3 \in V /\ pass = "detect"
      /\ in \in 0 .. N - 1
  BY SizeIs, PulsesOf DEF Typed, RecoveryTypeOK, Detect
<1>2. OnlyMarks(d, raw) /\ Kept(d, raw, LongGap + 2) /\ Lead(d, raw)
  BY <1>1 DEF Detections, Detecting
<1>3. PICK c \in 1 .. Many(d) :
        from = First(d, c) /\ EndsMarked(d, raw, c - 1) /\ InBlockAt(d, c)
  BY <1>1 DEF Detections, AtBlock
<1> DEFINE first == First(d, c)
           last == Last(d, c)
<1>4. /\ first \in Nat /\ last \in Nat /\ first <= last /\ last < N /\ Many(d) \in Nat
      /\ LongGap + 4 <= first
  BY <1>1, <1>3, BlockAt
\* a file's end is marked
<1>5. ASSUME in' \in Nat, in' > last, c = Many(d) \/ in' = last + 1,
             Detected(MarkFileEnd(raw, in'), in')
      PROVE  Detections'
  <2>1. pass' = "next" /\ raw' = MarkFileEnd(raw, in') /\ from' = in'
    BY <1>5 DEF Detected
  <2>2. /\ raw' \in [0 .. N - 1 -> V]
        /\ \A k \in 0 .. N - 1 : raw'[k] = IF k = in' THEN 3 ELSE raw[k]
    <3> HIDE DEF V, N, d
    <3>1. QED
      BY <1>1, <1>5, <2>1 DEF MarkFileEnd
  <2>3. /\ OnlyMarks(d, raw') /\ Kept(d, raw', LongGap + 2) /\ Lead(d, raw')
        /\ EndsMarked(d, raw', c - 1)
        /\ in' = last + 1 => EndsMarked(d, raw', c)
    <3> HIDE DEF d, V
    <3>1. QED
      BY <1>1, <1>2, <1>3, <1>5, <2>2, EndMarked
  <2>4. Detecting'
    BY <1>1, <2>3 DEF Detecting
  <2>5. AtBlock'
    BY <2>1 DEF AtBlock
  <2>6. BetweenBlocks'
    <3>1. CASE c = Many(d)
      BY <1>1, <1>5, <2>1, <2>3, <3>1 DEF BetweenBlocks
    <3>2. CASE c # Many(d)
      <4>1. c \in 1 .. Many(d) - 1
        BY <1>3, <1>4, <3>2
      <4>2. QED
        BY <1>1, <1>5, <2>1, <2>3, <3>2, <4>1 DEF BetweenBlocks
    <3>3. QED
      BY <3>1, <3>2
  <2>7. QED
    BY <2>4, <2>5, <2>6 DEF Detections
\* nothing is
<1>6. ASSUME raw' = raw, from' = from,
             \/ pass' = "next" /\ c = Many(d) /\ NoGapBehind(d)
             \/ pass' = "detect" /\ InBlockAt(d, c)'
      PROVE  Detections'
  <2>1. Detecting'
    BY <1>1, <1>2, <1>6 DEF Detecting
  <2>2. AtBlock'
    BY <1>1, <1>3, <1>6 DEF AtBlock
  <2>3. BetweenBlocks'
    BY <1>1, <1>3, <1>6 DEF BetweenBlocks
  <2>4. QED
    BY <2>1, <2>2, <2>3 DEF Detections
<1>7. CASE /\ in \in first .. last
           /\ d.blocks[c].run[in - first] = [bit |-> bitval, out |-> out, crc |-> crc]
  <2>1. raw[in] = Pulses(d)[in]
    <3>1. in \in first - (LongGap + 2) .. last
      BY <1>4, <1>7, Lengths
    <3>2. QED
      BY <1>2, <3>1 DEF Kept
  <2> DEFINE state == d.blocks[c].run[in - first]
  <2>2. state.bit = bitval /\ state.out = out /\ state.crc = crc
    BY <1>7
  <2>3. /\ new # <<>>
        /\ d.blocks[c].run[in + 1 - first] =
            [bit |-> new[Len(new)], out |-> out + Len(new), crc |-> Register(crc, new)]
        /\ IF in = last
           THEN Holds(crc, out, new)
           ELSE ~(Holds(crc, out, new) /\ LooksLikeFileEnd(Pulses(d), in + 1, N))
    <3>1. LET l == d.blocks[c].run[in - first]
              n == Bits(l.bit, Pulses(d)[in])
          IN  /\ n # <<>>
              /\ d.blocks[c].run[in + 1 - first] =
                    [bit |-> n[Len(n)], out |-> l.out + Len(n), crc |-> Register(l.crc, n)]
              /\ IF in = last
                 THEN Holds(l.crc, l.out, n)
                 ELSE ~(Holds(l.crc, l.out, n) /\ LooksLikeFileEnd(Pulses(d), in + 1, N))
      BY <1>1, <1>3, <1>7, InBlock, Zenon
    <3>2. Bits(state.bit, Pulses(d)[in]) = new
      BY <2>1, <2>2
    <3>3. /\ new # <<>>
          /\ d.blocks[c].run[in + 1 - first] =
                [bit |-> new[Len(new)], out |-> state.out + Len(new),
                 crc |-> Register(state.crc, new)]
          /\ IF in = last
             THEN Holds(state.crc, state.out, new)
             ELSE ~(Holds(state.crc, state.out, new)
                    /\ LooksLikeFileEnd(Pulses(d), in + 1, N))
      BY <3>1, <3>2, Zenon
    <3>4. QED
      BY <2>2, <3>3, Zenon
  <2>4. /\ in' = in + 1 /\ out' = out + Len(new) /\ bitval' = new[Len(new)]
        /\ crc' = Register(crc, new) /\ match' = Holds(crc, out, new)
        /\ \/ match' /\ EndsHere(in') /\ Detected(MarkFileEnd(raw, in'), in')
           \/ ~match' /\ in' >= rawSize /\ Detected(raw, from)
           \/ /\ ~(match' /\ EndsHere(in')) /\ in' < rawSize
              /\ UNCHANGED <<pass, raw, from>>
    BY <2>3 DEF Detect
  <2>5. in \in Nat /\ in' \in Nat /\ in' \in first + 1 .. last + 1
    BY <1>4, <1>7, <2>4
  <2>6. EndsHere(in') <=> LooksLikeFileEnd(raw, in', N)
    BY <1>1 DEF EndsHere
  <2>7. ASSUME NEW k \in Nat, LooksLikeFileEnd(raw, k, N)
        PROVE  LooksLikeFileEnd(Pulses(d), k, N)
    BY <1>1, <1>2, <2>7, NoNewFileEnd
  <2> HIDE DEF new, state
  <2>8. CASE in = last
    <3>1. match' /\ in' = last + 1 /\ in' > last
      BY <1>4, <2>3, <2>4, <2>8
    <3>2. CASE EndsHere(in')
      BY <1>5, <2>4, <2>5, <3>1, <3>2
    <3>3. CASE ~EndsHere(in')
      <4>1. in' < rawSize /\ UNCHANGED <<pass, raw, from>>
        BY <2>4, <3>1, <3>3
      <4>2. c = Many(d)
        <5>1. SUFFICES ASSUME c # Many(d) PROVE FALSE
          OBVIOUS
        <5>2. c \in 1 .. Many(d) - 1
          BY <1>3, <1>4, <5>1
        <5>3. QED
          BY <1>1, <1>2, <2>6, <3>1, <3>3, <5>2, EndsWithin
      <4>3. NoGapBehind(d)
        <5>1. N <= last + 1 + MaxGap \/ NoGapBehind(d)
          BY <1>1, <4>2, AroundBlocks DEF NoGapBehind
        <5>2. ~(N <= last + 1 + MaxGap)
          BY <1>1, <1>4, <2>6, <3>1, <3>3, Lengths DEF LooksLikeFileEnd
        <5>3. QED
          BY <5>1, <5>2
      <4>4. InBlockAt(d, c)'
        BY <1>1, <3>1, <4>2, <4>3 DEF InBlockAt
      <4>5. QED
        BY <1>1, <1>6, <4>1, <4>4
    <3>4. QED
      BY <3>2, <3>3
  <2>9. CASE in # last
    <3>1. in' \in first .. last /\ in' < N
      BY <1>1, <1>4, <1>7, <2>4, <2>9
    <3>2. ~(match' /\ EndsHere(in'))
      BY <2>3, <2>4, <2>5, <2>6, <2>7, <2>9
    <3>3. UNCHANGED <<pass, raw, from>>
      BY <1>1, <1>4, <2>4, <3>1, <3>2
    <3>4. d.blocks[c].run[in' - first] = [bit |-> bitval', out |-> out', crc |-> crc']
      <4>1. /\ in' = in + 1 /\ out' = out + Len(new) /\ bitval' = new[Len(new)]
            /\ crc' = Register(crc, new)
        BY <2>4
      <4>2. in + 1 - first = (in + 1) - first
        BY <1>4, <2>5
      <4>3. QED
        BY <2>3, <4>1, <4>2, Zenon
    <3>5. InBlockAt(d, c)'
      BY <1>1, <3>1, <3>4 DEF InBlockAt
    <3>6. QED
      BY <1>1, <1>6, <3>3, <3>5
  <2>10. QED
    BY <2>8, <2>9
<1>8. CASE c = Many(d) /\ in > last /\ NoGapBehind(d)
  <2>1. CASE new = <<>>
    <3>1. Detected(raw, from)
      BY <2>1 DEF Detect
    <3>2. raw' = raw /\ from' = from /\ pass' = "next"
      BY <3>1 DEF Detected
    <3>3. QED
      BY <1>6, <1>8, <3>2
  <2>2. CASE new # <<>>
    <3>1. /\ in' = in + 1
          /\ \/ match' /\ EndsHere(in') /\ Detected(MarkFileEnd(raw, in'), in')
             \/ ~match' /\ in' >= rawSize /\ Detected(raw, from)
             \/ /\ ~(match' /\ EndsHere(in')) /\ in' < rawSize
                /\ UNCHANGED <<pass, raw, from>>
      BY <2>2 DEF Detect
    <3>2. in' \in Nat /\ in' > last
      BY <1>1, <1>4, <1>8, <3>1
    <3>3. CASE Detected(MarkFileEnd(raw, in'), in')
      BY <1>5, <1>8, <3>2, <3>3
    <3>4. CASE Detected(raw, from)
      <4>1. raw' = raw /\ from' = from /\ pass' = "next"
        BY <3>4 DEF Detected
      <4>2. QED
        BY <1>6, <1>8, <4>1
    <3>5. CASE UNCHANGED <<pass, raw, from>>
      <4>1. InBlockAt(d, c)'
        BY <1>1, <1>8, <3>2 DEF InBlockAt
      <4>2. QED
        BY <1>1, <1>6, <3>5, <4>1
    <3>6. QED
      BY <3>1, <3>3, <3>4, <3>5
  <2>3. QED
    BY <2>1, <2>2
<1>9. QED
  BY <1>3, <1>7, <1>8 DEF InBlockAt

-----------------------------------------------------------------------------
(* behind a file the next gap that ends is the one before the next block *)

IsGapEnd(d, k) == \E b \in 1 .. Many(d) : k = First(d, b) - 1

\* Block b has a mark and zeros before its gap end.
Opened(d, r, b) ==
    \E k \in 0 .. First(d, b) - (LongGap + 2) :
        r[k] = 3 /\ \A j \in k + 1 .. First(d, b) - 2 : r[j] = 0

\* the gaps that end before i, and no other, are marked as gaps
MarkedTo(d, r, i) ==
    /\ \A k \in 0 .. Size(d) - 1 :
        IF k < i /\ IsGapEnd(d, k) THEN r[k] = GapEnd ELSE r[k] \in {Pulses(d)[k], 3}
    /\ EndsMarked(d, r, Many(d) - 1)
    /\ \A b \in 1 .. Many(d) :
        /\ \A k \in First(d, b) .. Last(d, b) : r[k] = Pulses(d)[k]
        /\ First(d, b) > i =>
            \A k \in First(d, b) - (LongGap + 2) .. Last(d, b) : r[k] = Pulses(d)[k]
        /\ First(d, b) <= i => Opened(d, r, b)

\* At pulse i the run of zeros before it has z, and g is the last mark that counts.
GapState(d, r, i, z, g) ==
    /\ MarkedTo(d, r, i)
    /\ i < First(d, 1) => Lead(d, r)
    /\ \A k \in i - z .. i - 1 : r[k] = 0
    /\ z < i => r[i - z - 1] # 0
    /\ g # 0 => g < i /\ r[g] = 3
    /\ \A b \in 1 .. Many(d) : g \notin First(d, b) - (LongGap + 2) .. Last(d, b)
    /\ \A k \in 0 .. i - 1 : r[k] = 3 =>
        k <= g \/ \E b \in 1 .. Many(d) : k < First(d, b) /\ First(d, b) <= i

GapMarks == pass = "gaps" => GapState(recording, raw, in, zeros, glitch)

LEMMA NextIsBlock ==
    ASSUME recording \in Disks, OnlyMarks(recording, raw), Kept(recording, raw, LongGap + 2),
           NEW c \in 1 .. Many(recording) - 1
    PROVE  NextGapEnd(Last(recording, c) + 1) = First(recording, c + 1)
<1> DEFINE d == recording
           k == Last(d, c) + 1
           last == Last(d, c)
           first == First(d, c + 1)
           ends == GapEnds(raw, k, rawSize - 1)
<1>1. /\ rawSize = Size(d) /\ Size(d) \in Nat /\ LongGap \in Nat /\ MinGap \in Nat
      /\ LongPostGlitch \in Nat /\ MinGap <= LongGap /\ LongPostGlitch <= MinGap
  BY SizeIs, PulsesOf, Lengths
<1>2. c \in 1 .. Many(d) /\ c + 1 \in 1 .. Many(d) /\ c < c + 1
  BY BlockAt
<1>3. /\ first \in Nat /\ last \in Nat /\ last < first - LongGap - 4
      /\ first <= Last(d, c + 1) /\ Last(d, c + 1) < Size(d) /\ Last(d, c + 1) \in Nat
      /\ \A i \in first - LongGap - 4 .. first - 2 : Pulses(d)[i] = 0
      /\ \A i \in last + LongPostGlitch .. first - 2 : Pulses(d)[i] = 0
      /\ Pulses(d)[first - 1] = 1
  BY <1>2, BlockAt, InOrder
<1>4. \A i \in first - (LongGap + 2) .. Last(d, c + 1) : raw[i] = Pulses(d)[i]
  BY <1>2 DEF Kept
<1>5. first - 1 \in ends
  <2>1. first - 1 \in k .. rawSize - 1 /\ first - 1 - MinGap >= k
    BY <1>1, <1>3
  <2>2. raw[first - 1] = 1
    BY <1>1, <1>3, <1>4
  <2>3. \A j \in (first - 1) - MinGap .. (first - 1) - 1 : raw[j] = 0
    BY <1>1, <1>3, <1>4
  <2> HIDE DEF first, k
  <2>4. QED
    BY <2>1, <2>2, <2>3 DEF GapEnds, ZerosBefore
<1>6. ASSUME NEW j \in ends PROVE first - 1 <= j
  <2>1. SUFFICES ASSUME j < first - 1 PROVE FALSE
    BY <1>1, <1>3 DEF GapEnds
  <2>2. /\ j \in k .. rawSize - 1 /\ raw[j] = 1
        /\ j - MinGap >= k /\ \A i \in j - MinGap .. j - 1 : raw[i] = 0
    BY <1>6 DEF GapEnds, ZerosBefore
  <2>3. j \in 0 .. Size(d) - 1
    BY <1>1, <1>3, <2>2
  <2>4. Pulses(d)[j] = 1
    BY <2>2, <2>3 DEF OnlyMarks
  <2>5. j \in last + LongPostGlitch .. first - 2
    BY <1>1, <1>3, <2>1, <2>2
  <2>6. QED
    BY <1>3, <2>4, <2>5
<1>7. ends \in SUBSET Nat
  BY <1>1, <1>3 DEF GapEnds
<1>8. NextGapEnd(k) = 1 + CHOOSE j \in ends : \A i \in ends : j <= i
  BY <1>5 DEF NextGapEnd
<1> HIDE DEF ends, k, first
<1>9. (CHOOSE j \in ends : \A i \in ends : j <= i) = first - 1
  BY <1>5, <1>6, <1>7, LeastIs
<1>10. NextGapEnd(k) = first
  <2>1. first \in Nat
    BY <1>3
  <2>2. 1 + (first - 1) = first
    BY <2>1
  <2>3. QED
    BY <1>8, <1>9, <2>2, Zenon
<1>11. QED
  BY <1>10 DEF k, first, d

LEMMA NoNext ==
    ASSUME recording \in Disks, OnlyMarks(recording, raw), NEW k \in Nat,
           \/ k > Last(recording, Many(recording))
           \/ k = First(recording, Many(recording)) /\ NoGapBehind(recording)
    PROVE  ~(NextGapEnd(k) < rawSize)
<1> DEFINE d == recording
           ends == GapEnds(raw, k, rawSize - 1)
<1>1. rawSize = Size(d) /\ Size(d) \in Nat /\ Many(d) \in 1 .. Many(d)
  BY SizeIs, PulsesOf, BlockAt
<1>2. Last(d, Many(d)) \in Nat /\ First(d, Many(d)) \in Nat
  BY <1>1, BlockAt
<1>3. CASE k > Last(d, Many(d))
  <2>1. Last(d, Many(d)) + 1 \in Nat /\ Last(d, Many(d)) + 1 <= k
    BY <1>2, <1>3
  <2>2. ends \subseteq GapEnds(Pulses(d), Last(d, Many(d)) + 1, Size(d) - 1)
    BY <1>1, <2>1, NoNewGapEnd
  <2>3. ends = {}
    BY <2>2, AroundBlocks
  <2>4. QED
    BY <1>1, <2>3 DEF NextGapEnd
<1>4. CASE k = First(d, Many(d)) /\ NoGapBehind(d)
  <2>1. ends \subseteq GapEnds(Pulses(d), k, Size(d) - 1)
    BY <1>1, NoNewGapEnd
  <2>2. ends = {}
    BY <1>4, <2>1 DEF NoGapBehind
  <2>3. QED
    BY <1>1, <2>2 DEF NextGapEnd
<1>5. QED
  BY <1>3, <1>4

\* the gaps' pass begins with nothing but the marks of the passes before it
LEMMA GapsBegin ==
    ASSUME NEW d \in Disks, NEW r, OnlyMarks(d, r), Kept(d, r, LongGap + 2),
           EndsMarked(d, r, Many(d) - 1)
    PROVE  MarkedTo(d, r, 0)
<1>1. \A k \in 0 .. Size(d) - 1 : ~(k < 0)
  OBVIOUS
<1>2. ASSUME NEW b \in 1 .. Many(d)
      PROVE  /\ First(d, b) > 0 /\ ~(First(d, b) <= 0)
             /\ \A k \in First(d, b) - (LongGap + 2) .. Last(d, b) : r[k] = Pulses(d)[k]
             /\ \A k \in First(d, b) .. Last(d, b) : k \in First(d, b) - (LongGap + 2) .. Last(d, b)
  BY BlockAt, Lengths DEF Kept
<1>3. \A b \in 1 .. Many(d) : \A k \in First(d, b) .. Last(d, b) : r[k] = Pulses(d)[k]
  BY <1>2
<1>4. QED
  BY <1>1, <1>2, <1>3 DEF MarkedTo, OnlyMarks

LEMMA NextKeeps == Typed /\ Detections /\ ToNextGap => Detections' /\ GapMarks'
<1> SUFFICES ASSUME Typed, Detections, ToNextGap PROVE Detections' /\ GapMarks'
  OBVIOUS
<1> DEFINE d == recording
<1>1. /\ d \in Disks /\ recording' = d /\ raw' = raw /\ pass = "next"
      /\ from \in Nat /\ glitch' = 0 /\ rawSize = Size(d) /\ Size(d) \in Nat
      /\ crc' = CrcStart /\ bitval' = 1 /\ out' = 0
  BY SizeIs DEF Typed, RecoveryTypeOK, ToNextGap
<1>2. /\ OnlyMarks(d, raw) /\ Kept(d, raw, LongGap + 2) /\ Lead(d, raw)
  BY <1>1 DEF Detections, Detecting
<1>3. CASE \E c \in 1 .. Many(d) - 1 : EndsMarked(d, raw, c) /\ from = Last(d, c) + 1
  <2>1. PICK c \in 1 .. Many(d) - 1 : EndsMarked(d, raw, c) /\ from = Last(d, c) + 1
    BY <1>3
  <2>2. c + 1 \in 1 .. Many(d) /\ (c + 1) - 1 = c
    BY <1>1, BlockAt
  <2>3. /\ First(d, c + 1) \in Nat /\ Last(d, c + 1) \in Nat
        /\ First(d, c + 1) <= Last(d, c + 1) /\ Last(d, c + 1) < Size(d)
    BY <1>1, <2>2, BlockAt
  <2>4. NextGapEnd(from) = First(d, c + 1) /\ NextGapEnd(from) < rawSize
    BY <1>1, <1>2, <2>1, <2>3, NextIsBlock
  <2>5. pass' = "detect" /\ in' = First(d, c + 1) /\ from' = First(d, c + 1)
    BY <2>4 DEF ToNextGap
  <2>6. d.blocks[c + 1].run[0] = [bit |-> 1, out |-> 0, crc |-> CrcStart]
    BY <1>1, <2>2, BlockStarts
  <2>7. in' - First(d, c + 1) = 0 /\ in' \in First(d, c + 1) .. Last(d, c + 1)
    BY <2>3, <2>5
  <2>8. InBlockAt(d, c + 1)'
    BY <1>1, <2>5, <2>6, <2>7 DEF InBlockAt
  <2>9. EndsMarked(d, raw', (c + 1) - 1)
    BY <1>1, <2>1, <2>2
  <2>10. Detecting' /\ BetweenBlocks' /\ GapMarks'
    BY <1>1, <1>2, <2>5 DEF Detecting, BetweenBlocks, GapMarks
  <2>11. AtBlock'
    BY <1>1, <2>2, <2>5, <2>8, <2>9 DEF AtBlock
  <2>12. QED
    BY <2>10, <2>11 DEF Detections
<1>4. CASE /\ EndsMarked(d, raw, Many(d) - 1)
           /\ from > Last(d, Many(d)) \/ (from = First(d, Many(d)) /\ NoGapBehind(d))
  <2>1. ~(NextGapEnd(from) < rawSize)
    BY <1>1, <1>2, <1>4, NoNext
  <2>2. pass' = "gaps" /\ in' = 0 /\ zeros' = 0
    BY <2>1 DEF ToNextGap
  <2>3. MarkedTo(d, raw, 0)
    BY <1>1, <1>2, <1>4, GapsBegin
  <2>4. \A b \in 1 .. Many(d) : 0 \notin First(d, b) - (LongGap + 2) .. Last(d, b)
    BY <1>1, BlockAt, Lengths
  <2>5. GapState(d, raw, 0, 0, 0)
    BY <1>2, <2>3, <2>4 DEF GapState
  <2>6. GapState(recording', raw', in', zeros', glitch')
    BY <1>1, <2>2, <2>5
  <2>7. GapMarks'
    BY <2>6 DEF GapMarks
  <2>8. QED
    BY <2>2, <2>7 DEF Detections, Detecting, AtBlock, BetweenBlocks
<1>5. QED
  BY <1>1, <1>3, <1>4 DEF Detections, BetweenBlocks

-----------------------------------------------------------------------------
(* the last pass marks the gaps before the blocks, and no other *)

\* all that the order of the blocks says of two of them
LEMMA TwoBlocks ==
    ASSUME NEW d \in Disks, NEW b \in 1 .. Many(d), NEW c \in 1 .. Many(d)
    PROVE  /\ First(d, b) \in Nat /\ Last(d, b) \in Nat /\ First(d, c) \in Nat /\ Last(d, c) \in Nat
           /\ LongGap + 4 <= First(d, b) /\ First(d, b) <= Last(d, b) /\ Last(d, b) < Size(d)
           /\ LongGap + 4 <= First(d, c) /\ First(d, c) <= Last(d, c) /\ Last(d, c) < Size(d)
           /\ b < c => Last(d, b) < First(d, c) - LongGap - 4
           /\ c < b => Last(d, c) < First(d, b) - LongGap - 4
           /\ First(d, b) <= First(d, c) <=> b <= c
           /\ First(d, b) = First(d, c) <=> b = c
           /\ LongGap \in Nat /\ Size(d) \in Nat
<1>1. /\ First(d, b) \in Nat /\ Last(d, b) \in Nat /\ First(d, c) \in Nat /\ Last(d, c) \in Nat
      /\ LongGap + 4 <= First(d, b) /\ First(d, b) <= Last(d, b) /\ Last(d, b) < Size(d)
      /\ LongGap + 4 <= First(d, c) /\ First(d, c) <= Last(d, c) /\ Last(d, c) < Size(d)
      /\ LongGap \in Nat /\ Size(d) \in Nat
  BY BlockAt, Lengths, PulsesOf
<1>2. /\ b < c => Last(d, b) < First(d, c) - LongGap - 4
      /\ c < b => Last(d, c) < First(d, b) - LongGap - 4
  BY InOrder
<1>3. b < c \/ b = c \/ c < b
  OBVIOUS
<1>4. QED
  BY <1>1, <1>2, <1>3

\* where a block's gap ends, the pass sees the end of a gap near a mark
LEMMA GapEndsHere ==
    ASSUME NEW d \in Disks, NEW r, NEW i \in 0 .. Size(d) - 1, NEW z \in 0 .. i, NEW g \in Nat,
           GapState(d, r, i, z, g), NEW b \in 1 .. Many(d), i = First(d, b) - 1
    PROVE  /\ r[i] = 1 /\ z > LongGap /\ i - z - LongPostGlitch < g
           /\ i - z <= First(d, b) - (LongGap + 2)
           /\ \A c \in 1 .. b - 1 : Last(d, c) + 1 < i - z
<1> DEFINE first == First(d, b)
           s == i - z
<1>1. /\ first \in Nat /\ LongGap + 4 <= first /\ first <= Last(d, b) /\ first > i
      /\ Last(d, b) \in Nat /\ LongGap \in Nat /\ LongPostGlitch \in Nat /\ 2 <= LongPostGlitch
      /\ \A k \in first - LongGap - 4 .. first - 2 : Pulses(d)[k] = 0
      /\ Pulses(d)[first - 1] = 1 /\ i = first - 1 /\ s \in 0 .. i
  BY BlockAt, Lengths
<1>2. \A k \in first - (LongGap + 2) .. Last(d, b) : r[k] = Pulses(d)[k]
  BY <1>1 DEF GapState, MarkedTo
<1>3. /\ \A k \in s .. i - 1 : r[k] = 0
      /\ s > 0 => r[s - 1] # 0
      /\ \A k \in 0 .. i - 1 : r[k] = 3 =>
            k <= g \/ \E c \in 1 .. Many(d) : k < First(d, c) /\ First(d, c) <= i
  BY DEF GapState
<1> HIDE DEF first
<1>4. r[i] = 1
  BY <1>1, <1>2
<1>5. \A k \in first - (LongGap + 2) .. first - 2 : r[k] = 0
  BY <1>1, <1>2
<1> HIDE DEF s
<1>6. s <= first - (LongGap + 2)
  <2>1. SUFFICES ASSUME s > first - (LongGap + 2) PROVE FALSE
    BY <1>1
  <2>2. s > 0 /\ s - 1 \in first - (LongGap + 2) .. first - 2
    BY <1>1, <2>1
  <2>3. QED
    BY <1>3, <1>5, <2>2
<1>7. ASSUME NEW c \in 1 .. b - 1
      PROVE  Last(d, c) + 1 < s
  <2>1. /\ c \in 1 .. Many(d) - 1 /\ c \in 1 .. Many(d) /\ c < b
    BY BlockAt
  <2>2. /\ Last(d, c) \in Nat /\ Last(d, c) < first - LongGap - 4 /\ first < Size(d)
        /\ Size(d) \in Nat
    BY <2>1, TwoBlocks DEF first
  <2>3. r[Last(d, c) + 1] = 3
    BY <1>1, <2>1, <2>2 DEF GapState, MarkedTo, EndsMarked
  <2>4. ~(Last(d, c) + 1 \in s .. i - 1)
    BY <1>3, <2>3
  <2>5. QED
    BY <1>1, <2>2, <2>4
\* behind the block before this one, or before the first one, a mark still counts
<1>8. ASSUME NEW k \in 0 .. i - 1, r[k] = 3,
             \A c \in 1 .. Many(d) : k < First(d, c) => b <= c
      PROVE  k <= g
  <2>1. SUFFICES ASSUME NEW c \in 1 .. Many(d), k < First(d, c), First(d, c) <= i PROVE FALSE
    BY <1>3, <1>8
  <2>2. First(d, b) <= First(d, c)
    BY <1>8, <2>1, TwoBlocks
  <2>3. First(d, c) \in Nat
    BY BlockAt
  <2>4. QED
    BY <1>1, <2>1, <2>2, <2>3 DEF first
<1>9. s - LongPostGlitch < g
  <2>1. CASE b = 1
    <3>1. i < First(d, 1)
      BY <1>1, <2>1 DEF first
    <3>2. PICK k \in 0 .. first - 2 : r[k] = 3 /\ \A j \in k + 1 .. first - 2 : r[j] = 0
      BY <2>1, <3>1 DEF GapState, Lead, first
    <3>3. k \in 0 .. i - 1 /\ \A c \in 1 .. Many(d) : b <= c
      BY <1>1, <2>1, BlockAt
    <3>4. k <= g
      BY <1>8, <3>2, <3>3
    <3>5. s <= k + 1
      <4>1. SUFFICES ASSUME s > k + 1 PROVE FALSE
        BY <1>1
      <4>2. s > 0 /\ s - 1 \in k + 1 .. first - 2
        BY <1>1, <4>1
      <4>3. QED
        BY <1>3, <3>2, <4>2
    <3>6. QED
      BY <1>1, <3>4, <3>5
  <2>2. CASE b # 1
    <3> DEFINE a == b - 1
               last == Last(d, a)
    <3>1. /\ a \in 1 .. Many(d) /\ a \in 1 .. Many(d) - 1 /\ a < b /\ b = a + 1
      BY <2>2, BlockAt
    <3> HIDE DEF a
    <3>2. /\ last \in Nat /\ last < first - LongGap - 4 /\ first < Size(d) /\ Size(d) \in Nat
      BY <3>1, TwoBlocks DEF first
    <3>3. \A k \in last + LongPostGlitch .. first - 2 : Pulses(d)[k] = 0
      BY <3>1, InOrder DEF first
    <3> HIDE DEF last
    <3>4. r[last + 1] = 3
      <4>1. EndsMarked(d, r, Many(d) - 1)
        BY DEF GapState, MarkedTo
      <4>2. last + 1 < Size(d)
        BY <1>1, <3>2
      <4>3. QED
        BY <3>1, <4>1, <4>2 DEF EndsMarked, last
    <3>5. ASSUME NEW k \in Nat, k > last, NEW c \in 1 .. Many(d), k < First(d, c)
          PROVE  b <= c
      <4>1. a < c
        <5>1. SUFFICES ASSUME c <= a PROVE FALSE
          BY <3>1
        <5>2. First(d, c) <= First(d, a) /\ First(d, a) <= last /\ First(d, c) \in Nat
              /\ First(d, a) \in Nat
          BY <3>1, <5>1, TwoBlocks DEF last
        <5>3. QED
          BY <3>2, <3>5, <5>2
      <4>2. QED
        BY <3>1, <4>1
    <3>6. last + 1 <= g
      BY <1>1, <1>8, <3>2, <3>4, <3>5
    <3>7. CASE s <= last + LongPostGlitch
      BY <1>1, <3>2, <3>6, <3>7
    <3>8. CASE s > last + LongPostGlitch
      <4>1. s > 0 /\ s - 1 \in last + LongPostGlitch .. first - 2 /\ s - 1 \in 0 .. i - 1
            /\ s - 1 \in Nat /\ s - 1 > last /\ s - 1 \in 0 .. Size(d) - 1
        BY <1>1, <1>6, <3>2, <3>8
      <4>2. r[s - 1] # 0 /\ Pulses(d)[s - 1] = 0
        BY <1>3, <3>3, <4>1
      <4>3. r[s - 1] = 3
        <5>1. ~IsGapEnd(d, s - 1)
          <6>1. SUFFICES ASSUME NEW c \in 1 .. Many(d), s - 1 = First(d, c) - 1 PROVE FALSE
            BY DEF IsGapEnd
          <6>2. First(d, c) \in Nat /\ Pulses(d)[First(d, c) - 1] = 1
            BY BlockAt
          <6>3. QED
            BY <4>2, <6>1, <6>2
        <5>2. r[s - 1] \in {Pulses(d)[s - 1], 3}
          BY <4>1, <5>1 DEF GapState, MarkedTo
        <5>3. QED
          BY <4>2, <5>2
      <4>4. s - 1 <= g
        BY <1>8, <3>5, <4>1, <4>3
      <4>5. QED
        BY <1>1, <4>4
    <3>9. QED
      BY <1>1, <3>2, <3>7, <3>8
  <2>3. QED
    BY <2>1, <2>2
<1>10. z > LongGap
  BY <1>1, <1>6 DEF s
<1>11. QED
  BY <1>4, <1>6, <1>7, <1>9, <1>10 DEF first, s

\* elsewhere no gap that ends is long and near a mark
LEMMA NoGapEndsHere ==
    ASSUME NEW d \in Disks, NEW r, NEW i \in 0 .. Size(d) - 1, NEW z \in 0 .. i, NEW g \in Nat,
           GapState(d, r, i, z, g), ~IsGapEnd(d, i), r[i] = 1,
           z > LongGap, i - z - LongPostGlitch < g
    PROVE  FALSE
<1> DEFINE s == i - z
<1>1. /\ LongGap \in Nat /\ LongPostGlitch \in Nat /\ MinGap \in Nat /\ 2 <= LongPostGlitch
      /\ LongPostGlitch <= MinGap /\ MinGap <= LongGap /\ Size(d) \in Nat
      /\ s \in Nat /\ s < i - LongGap /\ s - LongPostGlitch < g /\ i < Size(d) /\ i \in Nat
  BY Lengths, PulsesOf
<1>2. /\ \A k \in s .. i - 1 : r[k] = 0
      /\ g # 0 => g < i /\ r[g] = 3
      /\ \A b \in 1 .. Many(d) : g \notin First(d, b) - (LongGap + 2) .. Last(d, b)
  BY DEF GapState
<1>3. \A k \in 0 .. Size(d) - 1 :
        \/ r[k] = GapEnd /\ IsGapEnd(d, k) /\ k < i
        \/ r[k] \in {Pulses(d)[k], 3}
  BY DEF GapState, MarkedTo
<1>4. Pulses(d)[i] = 1 /\ \A k \in s .. i - 1 : Pulses(d)[k] = 0
  <2>1. \A k \in s .. i - 1 : k \in 0 .. Size(d) - 1
    BY <1>1
  <2>2. GapEnd # 0 /\ GapEnd # 1
    BY DEF GapEnd
  <2>3. QED
    BY <1>2, <1>3, <2>1, <2>2
<1> HIDE DEF s
\* not in a block or behind it, with its zeros from there
<1>5. ASSUME NEW b \in 1 .. Many(d), First(d, b) <= i, s <= Last(d, b)
      PROVE  FALSE
  <2> DEFINE first == First(d, b)
             last == Last(d, b)
  <2>1. first \in Nat /\ last \in Nat /\ LongGap + 4 <= first /\ first <= last /\ last < Size(d)
    BY BlockAt
  <2>2. r[first - 1] = GapEnd
    <3>1. first - 1 \in 0 .. Size(d) - 1 /\ first - 1 < i /\ IsGapEnd(d, first - 1)
      BY <1>1, <1>5, <2>1 DEF IsGapEnd
    <3>2. QED
      BY <3>1 DEF GapState, MarkedTo
  <2>3. ~(first - 1 \in s .. i - 1)
    BY <1>2, <2>2 DEF GapEnd
  <2> HIDE DEF first, last
  <2>4. s >= first
    BY <1>1, <1>5, <2>1, <2>3 DEF first
  <2>5. g >= first - (LongGap + 2)
    BY <1>1, <2>1, <2>4
  <2>6. g > last
    <3>1. ~(g \in first - (LongGap + 2) .. last)
      BY <1>2 DEF first, last
    <3>2. QED
      BY <1>1, <2>1, <2>5, <3>1
  <2>7. g \in s .. i - 1 /\ r[g] = 3
    BY <1>1, <1>2, <1>5, <2>1, <2>6 DEF last
  <2>8. QED
    BY <1>2, <2>7
\* not where nothing looks like the end of a gap
<1>6. ASSUME NEW f \in Nat, NEW last \in Nat, f + MinGap <= i, i <= last,
             GapEnds(Pulses(d), f, last) = {}
      PROVE  FALSE
  <2>1. i \in f .. last /\ i - MinGap >= f
    BY <1>1, <1>6
  <2>2. \A j \in i - MinGap .. i - 1 : Pulses(d)[j] = 0
    BY <1>1, <1>4
  <2>3. i \in GapEnds(Pulses(d), f, last)
    BY <1>4, <2>1, <2>2 DEF GapEnds, ZerosBefore
  <2>4. QED
    BY <1>6, <2>3
<1>7. CASE i > Last(d, Many(d))
  <2>1. /\ Many(d) \in 1 .. Many(d)
    BY BlockAt
  <2>2. First(d, Many(d)) \in Nat /\ Last(d, Many(d)) \in Nat /\ First(d, Many(d)) <= Last(d, Many(d))
    BY <2>1, BlockAt
  <2>3. s > Last(d, Many(d))
    BY <1>1, <1>5, <1>7, <2>1, <2>2
  <2>4. GapEnds(Pulses(d), Last(d, Many(d)) + 1, Size(d) - 1) = {}
    BY AroundBlocks
  <2>5. /\ Last(d, Many(d)) + 1 \in Nat /\ Size(d) - 1 \in Nat
        /\ Last(d, Many(d)) + 1 + MinGap <= i /\ i <= Size(d) - 1
    BY <1>1, <2>2, <2>3
  <2>6. QED
    BY <1>6, <2>4, <2>5
<1>8. CASE \E c \in 1 .. Many(d) : i <= Last(d, c) /\ (c = 1 \/ i > Last(d, c - 1))
  <2>1. PICK c \in 1 .. Many(d) : i <= Last(d, c) /\ (c = 1 \/ i > Last(d, c - 1))
    BY <1>8
  <2> DEFINE first == First(d, c)
  <2>2. /\ first \in Nat /\ Last(d, c) \in Nat /\ LongGap + 4 <= first /\ first <= Last(d, c)
        /\ Last(d, c) < Size(d)
    BY BlockAt
  <2>3. i # first - 1
    BY DEF IsGapEnd
  <2> HIDE DEF first
  <2>4. CASE first <= i
    <3>1. s <= Last(d, c)
      BY <1>1, <2>1, <2>2
    <3>2. QED
      BY <1>5, <2>4, <3>1 DEF first
  <2>5. CASE i < first - 1 /\ c = 1
    <3>1. GapEnds(Pulses(d), 0, first - 2) = {}
      BY <2>5, AroundBlocks DEF first
    <3>2. first - 2 \in Nat /\ 0 + MinGap <= i /\ i <= first - 2
      BY <1>1, <2>2, <2>5
    <3>3. QED
      BY <1>6, <3>1, <3>2
  <2>6. CASE i < first - 1 /\ c # 1
    <3> DEFINE a == c - 1
               last == Last(d, a)
    <3>1. a \in 1 .. Many(d) /\ a \in 1 .. Many(d) - 1 /\ a < c /\ c = a + 1
      BY <2>6, BlockAt
    <3>2. i > last
      BY <2>1, <2>6
    <3> HIDE DEF a
    <3>3. last \in Nat /\ last < first - LongGap - 4 /\ last < Size(d) - 1
      BY <1>1, <2>2, <3>1, TwoBlocks DEF first
    <3>4. \A k \in last + LongPostGlitch .. first - 2 : Pulses(d)[k] = 0
      BY <3>1, InOrder DEF first
    <3>5. r[last + 1] = 3
      <4>1. EndsMarked(d, r, Many(d) - 1)
        BY DEF GapState, MarkedTo
      <4>2. last + 1 < Size(d)
        BY <1>1, <3>3
      <4>3. QED
        BY <3>1, <4>1, <4>2 DEF EndsMarked
    <3> HIDE DEF last
    <3>6. i < last + LongPostGlitch
      BY <1>1, <1>4, <2>2, <2>6, <3>3, <3>4
    <3>7. s <= last + 1
      BY <1>1, <3>3, <3>6
    <3>8. i # last + 1
      BY <3>5
    <3>9. last + 1 \in s .. i - 1
      BY <1>1, <3>2, <3>3, <3>7, <3>8
    <3>10. QED
      BY <1>2, <3>5, <3>9
  <2>7. QED
    BY <1>1, <2>2, <2>3, <2>4, <2>5, <2>6
<1>9. QED
  BY <1>1, <1>7, <1>8, Where

LEMMA GapMarked ==
    ASSUME NEW d \in Disks, NEW r, NEW i \in 0 .. Size(d) - 1, NEW z \in 0 .. i, NEW g \in Nat,
           GapState(d, r, i, z, g), NEW b \in 1 .. Many(d), i = First(d, b) - 1,
           NEW s, \A k \in 0 .. Size(d) - 1 :
                    s[k] = IF k = i THEN GapEnd ELSE IF k = i - z THEN 3 ELSE r[k]
    PROVE  GapState(d, s, i + 1, 0, g)
<1> DEFINE first == First(d, b)
           m == i - z
           N == Size(d)
<1>1. /\ first \in Nat /\ LongGap + 4 <= first /\ i = first - 1 /\ LongGap \in Nat /\ N \in Nat
      /\ m \in Nat /\ i < N /\ first < N
  BY TwoBlocks
<1>2. /\ r[i] = 1 /\ z > LongGap /\ m <= first - (LongGap + 2)
      /\ \A c \in 1 .. b - 1 : Last(d, c) + 1 < m
  BY GapEndsHere
<1>3. m < i /\ r[m] = 0 /\ \A k \in m .. i - 1 : r[k] = 0
  BY <1>1, <1>2 DEF GapState
<1>4. \A k \in 0 .. N - 1 : s[k] = IF k = i THEN GapEnd ELSE IF k = m THEN 3 ELSE r[k]
  OBVIOUS
<1>5. s[i] = GapEnd /\ s[m] = 3
  BY <1>1, <1>3, <1>4
<1> HIDE DEF first, m, N
\* the other blocks are not touched
<1>6. ASSUME NEW c \in 1 .. Many(d)
      PROVE  /\ First(d, c) \in Nat /\ Last(d, c) \in Nat /\ LongGap + 4 <= First(d, c)
             /\ First(d, c) <= Last(d, c) /\ Last(d, c) < N
             /\ c < b => Last(d, c) + 1 < m
             /\ c = b => First(d, c) = first
             /\ b < c => Last(d, b) < First(d, c) - LongGap - 4
             /\ First(d, c) <= i <=> c < b
             /\ First(d, c) <= i + 1 <=> c <= b
             /\ c \in Nat /\ b \in Nat /\ Last(d, b) \in Nat /\ first <= Last(d, b)
  <2>1. c \in Nat /\ b \in Nat /\ (c < b => c \in 1 .. b - 1)
    OBVIOUS
  <2>2. c < b => First(d, c) < first
    BY TwoBlocks DEF first
  <2>3. ~(c < b) => First(d, c) >= first
    BY TwoBlocks DEF first
  <2>4. c <= b <=> First(d, c) <= first
    BY TwoBlocks DEF first
  <2>5. First(d, c) <= i <=> c < b
    BY <1>1, <2>2, <2>3, BlockAt
  <2>6. First(d, c) <= i + 1 <=> c <= b
    BY <1>1, <2>4
  <2>7. QED
    BY <1>2, <2>1, <2>5, <2>6, TwoBlocks DEF first, N
<1>7. \A k \in 0 .. N - 1 :
        IF k < i + 1 /\ IsGapEnd(d, k) THEN s[k] = GapEnd ELSE s[k] \in {Pulses(d)[k], 3}
  <2>1. SUFFICES ASSUME NEW k \in 0 .. N - 1
                 PROVE  IF k < i + 1 /\ IsGapEnd(d, k) THEN s[k] = GapEnd
                        ELSE s[k] \in {Pulses(d)[k], 3}
    OBVIOUS
  <2>2. IF k < i /\ IsGapEnd(d, k) THEN r[k] = GapEnd ELSE r[k] \in {Pulses(d)[k], 3}
    BY DEF GapState, MarkedTo, N
  <2>3. CASE k = i
    <3>1. IsGapEnd(d, i)
      BY DEF IsGapEnd
    <3>2. QED
      BY <1>1, <1>5, <2>3, <3>1
  <2>4. CASE k = m
    <3>1. ~(k < i /\ IsGapEnd(d, k))
      BY <1>3, <2>2, <2>4 DEF GapEnd
    <3>2. ~(k < i + 1 /\ IsGapEnd(d, k)) /\ s[k] = 3
      BY <1>1, <1>3, <1>5, <2>4, <3>1
    <3>3. QED
      BY <3>2
  <2>5. CASE k # i /\ k # m
    <3>1. s[k] = r[k] /\ (k < i + 1 <=> k < i)
      BY <1>1, <1>4, <2>5
    <3>2. QED
      BY <2>2, <3>1
  <2>6. QED
    BY <2>3, <2>4, <2>5
<1>8. EndsMarked(d, s, Many(d) - 1)
  <2>1. SUFFICES ASSUME NEW c \in 1 .. Many(d) - 1, Last(d, c) + 1 < N PROVE s[Last(d, c) + 1] = 3
    BY DEF EndsMarked, N
  <2>2. c \in 1 .. Many(d)
    BY BlockAt
  <2>3. r[Last(d, c) + 1] = 3
    BY <2>1 DEF GapState, MarkedTo, EndsMarked, N
  <2>4. Last(d, c) + 1 \in 0 .. N - 1
    BY <1>1, <1>6, <2>1, <2>2
  <2>5. QED
    BY <1>2, <1>3, <1>4, <2>3, <2>4
<1>9. ASSUME NEW c \in 1 .. Many(d)
      PROVE  /\ \A k \in First(d, c) .. Last(d, c) : s[k] = Pulses(d)[k]
             /\ First(d, c) > i + 1 =>
                    \A k \in First(d, c) - (LongGap + 2) .. Last(d, c) : s[k] = Pulses(d)[k]
             /\ First(d, c) <= i + 1 => Opened(d, s, c)
  <2>1. /\ \A k \in First(d, c) .. Last(d, c) : r[k] = Pulses(d)[k]
        /\ First(d, c) > i =>
            \A k \in First(d, c) - (LongGap + 2) .. Last(d, c) : r[k] = Pulses(d)[k]
        /\ First(d, c) <= i => Opened(d, r, c)
    BY DEF GapState, MarkedTo
  <2>2. \A k \in First(d, c) .. Last(d, c) : s[k] = r[k]
    <3>1. SUFFICES ASSUME NEW k \in First(d, c) .. Last(d, c) PROVE s[k] = r[k]
      OBVIOUS
    <3>2. k \in 0 .. N - 1 /\ k # i /\ k # m
      BY <1>1, <1>2, <1>6
    <3>3. QED
      BY <1>4, <3>2
  <2>3. ASSUME First(d, c) > i + 1, NEW k \in First(d, c) - (LongGap + 2) .. Last(d, c)
        PROVE  s[k] = Pulses(d)[k]
    <3>1. b < c
      BY <1>1, <1>6, <2>3
    <3>2. k \in 0 .. N - 1 /\ k # i /\ k # m
      BY <1>1, <1>2, <1>6, <3>1
    <3>3. First(d, c) > i
      BY <1>1, <1>6, <2>3
    <3>4. QED
      BY <1>4, <2>1, <3>2, <3>3
  <2>4. ASSUME First(d, c) <= i + 1
        PROVE  Opened(d, s, c)
    <3>1. CASE c = b
      <4>1. m \in 0 .. first - (LongGap + 2)
        BY <1>1, <1>2
      <4>2. ASSUME NEW j \in m + 1 .. first - 2 PROVE s[j] = 0
        <5>1. j \in 0 .. N - 1 /\ j # i /\ j # m /\ j \in m .. i - 1
          BY <1>1
        <5>2. QED
          BY <1>3, <1>4, <5>1
      <4>3. QED
        BY <1>5, <3>1, <4>1, <4>2 DEF Opened, first
    <3>2. CASE c # b
      <4>1. c < b /\ First(d, c) <= i /\ Last(d, c) + 1 < m
        BY <1>6, <2>4, <3>2
      <4>2. PICK k \in 0 .. First(d, c) - (LongGap + 2) :
                r[k] = 3 /\ \A j \in k + 1 .. First(d, c) - 2 : r[j] = 0
        BY <2>1, <4>1 DEF Opened
      <4>3. \A j \in 0 .. First(d, c) - 2 : j \in 0 .. N - 1 /\ j # i /\ j # m
        BY <1>1, <1>3, <1>6, <4>1
      <4>4. \A j \in 0 .. First(d, c) - 2 : s[j] = r[j]
        BY <1>4, <4>3
      <4>5. k \in 0 .. First(d, c) - 2 /\ \A j \in k + 1 .. First(d, c) - 2 : j \in 0 .. First(d, c) - 2
        BY <1>1, <1>6
      <4>6. QED
        BY <4>2, <4>4, <4>5 DEF Opened
    <3>3. QED
      BY <3>1, <3>2
  <2>5. QED
    BY <2>1, <2>2, <2>3, <2>4
<1>10. MarkedTo(d, s, i + 1)
  BY <1>7, <1>8, <1>9 DEF MarkedTo, N
<1>11. ~(i + 1 < First(d, 1))
  <2>1. 1 \in 1 .. Many(d) /\ 1 <= b
    BY BlockAt
  <2>2. First(d, 1) <= i + 1 /\ First(d, 1) \in Nat
    BY <1>6, <2>1
  <2>3. QED
    BY <1>1, <2>2
<1>12. g # 0 => g < i + 1 /\ s[g] = 3
  <2>1. SUFFICES ASSUME g # 0 PROVE g < i + 1 /\ s[g] = 3
    OBVIOUS
  <2>2. g < i /\ r[g] = 3
    BY <2>1 DEF GapState
  <2>3. g \in 0 .. N - 1 /\ g # i /\ g # m
    BY <1>1, <1>3, <2>2
  <2>4. QED
    BY <1>1, <1>4, <2>2, <2>3
<1>13. ASSUME NEW k \in 0 .. i, s[k] = 3
       PROVE  k <= g \/ \E c \in 1 .. Many(d) : k < First(d, c) /\ First(d, c) <= i + 1
  <2>1. CASE k = m
    BY <1>1, <1>3, <2>1 DEF first
  <2>2. CASE k # m
    <3>1. k # i
      BY <1>5, <1>13 DEF GapEnd
    <3>2. k \in 0 .. N - 1 /\ k \in 0 .. i - 1
      BY <1>1, <3>1
    <3>3. r[k] = 3
      BY <1>4, <1>13, <2>2, <3>1, <3>2
    <3>4. k <= g \/ \E c \in 1 .. Many(d) : k < First(d, c) /\ First(d, c) <= i
      BY <3>2, <3>3 DEF GapState
    <3>5. \A c \in 1 .. Many(d) : First(d, c) <= i => First(d, c) <= i + 1
      BY <1>1, <1>6
    <3>6. QED
      BY <3>4, <3>5
  <2>3. QED
    BY <2>1, <2>2
<1>14. /\ (i + 1) - 0 - 1 = i /\ (i + 1) - 1 = i /\ (i + 1) - 0 = i + 1 /\ s[i] # 0
       /\ \A k \in i + 1 .. i : FALSE
  BY <1>1, <1>5 DEF GapEnd
<1>15. \A c \in 1 .. Many(d) : g \notin First(d, c) - (LongGap + 2) .. Last(d, c)
  BY DEF GapState
<1>16. QED
  BY <1>10, <1>11, <1>12, <1>13, <1>14, <1>15 DEF GapState

LEMMA NotMarked ==
    ASSUME NEW d \in Disks, NEW r, NEW i \in 0 .. Size(d) - 1, NEW z \in 0 .. i, NEW g \in Nat,
           GapState(d, r, i, z, g), ~IsGapEnd(d, i),
           NEW y, y = IF r[i] = 0 THEN z + 1 ELSE 0,
           NEW h, h = IF r[i] = 3 THEN i ELSE g
    PROVE  GapState(d, r, i + 1, y, h)
<1> DEFINE N == Size(d)
<1>1. N \in Nat /\ i \in Nat /\ i < N /\ z \in Nat /\ z <= i /\ LongGap \in Nat
  BY PulsesOf, Lengths
<1>2. /\ MarkedTo(d, r, i) /\ (i < First(d, 1) => Lead(d, r))
      /\ \A k \in i - z .. i - 1 : r[k] = 0
      /\ z < i => r[i - z - 1] # 0
      /\ g # 0 => g < i /\ r[g] = 3
      /\ \A b \in 1 .. Many(d) : g \notin First(d, b) - (LongGap + 2) .. Last(d, b)
      /\ \A k \in 0 .. i - 1 : r[k] = 3 =>
            k <= g \/ \E b \in 1 .. Many(d) : k < First(d, b) /\ First(d, b) <= i
  BY DEF GapState
<1>3. ASSUME NEW b \in 1 .. Many(d)
      PROVE  /\ First(d, b) \in Nat /\ Last(d, b) \in Nat /\ LongGap + 4 <= First(d, b)
             /\ First(d, b) <= Last(d, b)
             /\ First(d, b) <= i + 1 <=> First(d, b) <= i
             /\ First(d, b) > i + 1 => First(d, b) > i
  <2>1. i # First(d, b) - 1
    BY DEF IsGapEnd
  <2>2. /\ First(d, b) \in Nat /\ Last(d, b) \in Nat /\ LongGap + 4 <= First(d, b)
        /\ First(d, b) <= Last(d, b)
    BY BlockAt
  <2>3. QED
    BY <1>1, <2>1, <2>2
<1>4. MarkedTo(d, r, i + 1)
  <2>1. ASSUME NEW k \in 0 .. N - 1
        PROVE  IF k < i + 1 /\ IsGapEnd(d, k) THEN r[k] = GapEnd ELSE r[k] \in {Pulses(d)[k], 3}
    <3>1. k < i + 1 /\ IsGapEnd(d, k) <=> k < i /\ IsGapEnd(d, k)
      BY <1>1
    <3>2. IF k < i /\ IsGapEnd(d, k) THEN r[k] = GapEnd ELSE r[k] \in {Pulses(d)[k], 3}
      BY <1>2 DEF MarkedTo
    <3>3. QED
      BY <3>1, <3>2
  <2>2. \A b \in 1 .. Many(d) :
            /\ \A k \in First(d, b) .. Last(d, b) : r[k] = Pulses(d)[k]
            /\ First(d, b) > i + 1 =>
                \A k \in First(d, b) - (LongGap + 2) .. Last(d, b) : r[k] = Pulses(d)[k]
            /\ First(d, b) <= i + 1 => Opened(d, r, b)
    BY <1>2, <1>3 DEF MarkedTo
  <2>3. QED
    BY <1>2, <2>1, <2>2 DEF MarkedTo
<1>5. i + 1 < First(d, 1) => Lead(d, r)
  <2>1. 1 \in 1 .. Many(d)
    BY BlockAt
  <2>2. First(d, 1) \in Nat
    BY <2>1, BlockAt
  <2>3. QED
    BY <1>1, <1>2, <2>2
<1>6. /\ \A k \in (i + 1) - y .. (i + 1) - 1 : r[k] = 0
      /\ y < i + 1 => r[(i + 1) - y - 1] # 0
  <2>1. CASE r[i] = 0
    <3>1. y = z + 1 /\ (i + 1) - y = i - z /\ (i + 1) - y - 1 = i - z - 1 /\ (i + 1) - 1 = i
          /\ (y < i + 1 => z < i)
      BY <1>1, <2>1
    <3>2. \A k \in i - z .. i : k = i \/ k \in i - z .. i - 1
      BY <1>1
    <3>3. QED
      BY <1>2, <2>1, <3>1, <3>2
  <2>2. CASE r[i] # 0
    <3>1. y = 0 /\ (i + 1) - y = i + 1 /\ (i + 1) - y - 1 = i /\ (i + 1) - 1 = i
      BY <1>1, <2>2
    <3>2. QED
      BY <1>1, <2>2, <3>1
  <2>3. QED
    BY <2>1, <2>2
<1>7. h # 0 => h < i + 1 /\ r[h] = 3
  BY <1>1, <1>2
<1>8. ASSUME NEW b \in 1 .. Many(d)
      PROVE  h \notin First(d, b) - (LongGap + 2) .. Last(d, b)
  <2>1. CASE r[i] = 3
    <3>1. SUFFICES ASSUME i \in First(d, b) - (LongGap + 2) .. Last(d, b) PROVE FALSE
      BY <2>1
    <3>2. r[i] = Pulses(d)[i]
      <4>1. First(d, b) > i \/ i \in First(d, b) .. Last(d, b)
        BY <1>1, <1>3, <3>1
      <4>2. QED
        BY <1>2, <3>1, <4>1 DEF MarkedTo
    <3>3. i \in First(d, b) .. Last(d, b) \/ i = First(d, b) - 1
          \/ i \in First(d, b) - LongGap - 4 .. First(d, b) - 2
      BY <1>1, <1>3, <3>1
    <3>4. Pulses(d)[i] # 3
      BY <3>3, BlockAt, NoMark
    <3>5. QED
      BY <2>1, <3>2, <3>4
  <2>2. CASE r[i] # 3
    BY <1>2, <2>2
  <2>3. QED
    BY <2>1, <2>2
<1>9. ASSUME NEW k \in 0 .. (i + 1) - 1, r[k] = 3
      PROVE  k <= h \/ \E b \in 1 .. Many(d) : k < First(d, b) /\ First(d, b) <= i + 1
  <2>1. CASE k = i
    BY <1>1, <1>9, <2>1
  <2>2. CASE k # i
    <3>1. k \in 0 .. i - 1 /\ k <= i
      BY <1>1, <2>2
    <3>2. k <= g \/ \E b \in 1 .. Many(d) : k < First(d, b) /\ First(d, b) <= i
      BY <1>2, <1>9, <3>1
    <3>3. \A b \in 1 .. Many(d) : First(d, b) <= i => First(d, b) <= i + 1
      BY <1>3
    <3>4. QED
      BY <3>1, <3>2, <3>3
  <2>3. QED
    BY <2>1, <2>2
<1>10. QED
  BY <1>4, <1>5, <1>6, <1>7, <1>8, <1>9 DEF GapState

LEMMA GapsKeep == Typed /\ GapMarks /\ MarkGaps => GapMarks'
<1> SUFFICES ASSUME Typed, GapMarks, MarkGaps PROVE GapMarks'
  OBVIOUS
<1> DEFINE d == recording
           V == (0 .. 3) \cup {GapEnd}
<1>1. /\ d \in Disks /\ recording' = d /\ rawSize = Size(d) /\ Size(d) \in Nat
      /\ raw \in [0 .. Size(d) - 1 -> V]
      /\ in \in 0 .. Size(d) - 1 /\ zeros \in 0 .. in /\ glitch \in Nat
      /\ pass = "gaps" /\ in' = in + 1
  BY SizeIs, PulsesOf DEF Typed, RecoveryTypeOK, MarkGaps
<1>2. GapState(d, raw, in, zeros, glitch)
  BY <1>1 DEF GapMarks
<1>3. /\ glitch' = IF raw[in] = 3 THEN in ELSE glitch
      /\ zeros' = IF raw[in] = 0 THEN zeros + 1 ELSE 0
      /\ raw' = IF raw[in] = 1 /\ EndsGap
                THEN [MarkGapStart(raw, in) EXCEPT ![in] = GapEnd] ELSE raw
  BY DEF MarkGaps
<1>4. in - zeros - LongPostGlitch < glitch <=> in - zeros - LongPostGlitch < glitch
  OBVIOUS
<1>5. GapState(d, raw', in + 1, zeros', glitch')
  <2>1. CASE IsGapEnd(d, in)
    <3>1. PICK b \in 1 .. Many(d) : in = First(d, b) - 1
      BY <2>1 DEF IsGapEnd
    <3>2. raw[in] = 1 /\ EndsGap
      <4> HIDE DEF d, V
      <4>1. raw[in] = 1 /\ zeros > LongGap /\ in - zeros - LongPostGlitch < glitch
        BY <1>1, <1>2, <3>1, GapEndsHere
      <4>2. QED
        BY <4>1 DEF EndsGap
    <3>3. GapStart(raw, in) = in - zeros
      <4>1. /\ in - zeros \in 0 .. in /\ in \in Nat
            /\ \A k \in in - zeros .. in - 1 : raw[k] = 0
            /\ in - zeros = 0 \/ raw[in - zeros - 1] # 0
        BY <1>1, <1>2 DEF GapState
      <4>2. QED
        BY <4>1, GapStartIs
    <3>4. \A k \in 0 .. Size(d) - 1 :
            raw'[k] = IF k = in THEN GapEnd ELSE IF k = in - zeros THEN 3 ELSE raw[k]
      <4> HIDE DEF d, V
      <4>1. raw' = [MarkGapStart(raw, in) EXCEPT ![in] = GapEnd]
        BY <1>3, <3>2
      <4>2. QED
        BY <1>1, <3>3, <4>1 DEF MarkGapStart
    <3>5. zeros' = 0 /\ glitch' = glitch
      BY <1>3, <3>2
    <3>6. GapState(d, raw', in + 1, 0, glitch)
      <4> HIDE DEF d, V
      <4>1. QED
        BY <1>1, <1>2, <3>1, <3>4, GapMarked
    <3>7. QED
      BY <3>5, <3>6
  <2>2. CASE ~IsGapEnd(d, in)
    <3>1. ~(raw[in] = 1 /\ EndsGap)
      <4> HIDE DEF d, V
      <4>1. SUFFICES ASSUME raw[in] = 1, zeros > LongGap, in - zeros - LongPostGlitch < glitch
                     PROVE  FALSE
        BY DEF EndsGap
      <4>2. QED
        BY <1>1, <1>2, <2>2, <4>1, NoGapEndsHere
    <3>2. raw' = raw
      BY <1>3, <3>1
    <3>3. GapState(d, raw, in + 1, zeros', glitch')
      <4> HIDE DEF d, V
      <4>1. QED
        BY <1>1, <1>2, <1>3, <2>2, NotMarked
    <3>4. QED
      BY <3>2, <3>3
  <2>3. QED
    BY <2>1, <2>2
<1>6. QED
  BY <1>1, <1>5 DEF GapMarks

-----------------------------------------------------------------------------
(* the output *)

\* behind a mark and zeros only zeros come out
Quiet(r, i, b, n, bits) ==
    \A k \in 0 .. i - 1 : r[k] = 3 /\ (\A j \in k + 1 .. i - 1 : r[j] = 0) =>
        /\ b = 0 /\ i - 1 - k <= n
        /\ \A m \in n - (i - 1 - k) .. n - 1 : m \notin bits

\* the block's gap and its first bits are where they belong
Placed(block, count, at, bits) ==
    /\ at \in Nat /\ at - 1 \in bits
    /\ \A k \in at - LongGap .. at - 2 : k \notin bits
    /\ \A k \in 1 .. Len(block.bits) :
        k <= count => (at + k - 1 \in bits <=> block.bits[k] = 1)

\* what is out of block c, after pulse i - 1
SoFar(d, c, i, b, n, bits, at) ==
    LET block == d.blocks[c]
        state == block.run[i - First(d, c)]
    IN  /\ at <= n
        /\ i <= Last(d, c) =>
            b = state.bit /\ n = at + state.out /\ Placed(block, state.out, at, bits)
        /\ i > Last(d, c) =>
            /\ at + Len(block.bits) + (i - Last(d, c) - 1) <= n
            /\ Placed(block, Len(block.bits), at, bits)

OutState(d, r, i, b, n, bits, places) ==
    /\ MarkedTo(d, r, Size(d))
    /\ bits \subseteq 0 .. n - 1
    /\ \A c \in 1 .. Many(d) : c <= Len(places) <=> First(d, c) <= i
    /\ Len(places) <= Many(d)
    /\ Quiet(r, i, b, n, bits)
    /\ \A c \in 1 .. Len(places) : SoFar(d, c, i, b, n, bits, places[c] * ByteBits)

Written ==
    pass \in {"output", "done"} =>
        /\ OutState(recording, raw, in, bitval, out, bin, starts)
        /\ pass = "done" => in >= Size(recording)

LEMMA OutBegins ==
    ASSUME NEW d \in Disks, NEW r, MarkedTo(d, r, Size(d))
    PROVE  OutState(d, r, 0, 0, 0, {}, <<>>)
<1>1. Quiet(r, 0, 0, 0, {})
  BY DEF Quiet
<1>2. \A c \in 1 .. Many(d) : ~(c <= 0) /\ ~(First(d, c) <= 0)
  BY BlockAt, Lengths
<1>3. Len(<<>>) = 0 /\ 0 <= Many(d)
  BY BlockAt
<1>4. QED
  BY <1>1, <1>2, <1>3 DEF OutState

\* a finished block stays as it is
LEMMA StillPlaced ==
    ASSUME NEW block, block.bits \in Seq({0, 1}), NEW count, NEW at \in Nat, NEW bits,
           Placed(block, count, at, bits),
           NEW more, NEW limit \in Nat, at + Len(block.bits) <= limit,
           \A k \in Int : k < limit => (k \in more <=> k \in bits)
    PROVE  Placed(block, count, at, more)
<1>1. Len(block.bits) \in Nat /\ LongGap \in Nat
  BY Lengths
<1>2. at - 1 < limit /\ at - 1 \in Int
  BY <1>1
<1>3. \A k \in at - LongGap .. at - 2 : k \in Int /\ k < limit
  BY <1>1
<1>4. \A k \in 1 .. Len(block.bits) : at + k - 1 \in Int /\ at + k - 1 < limit
  BY <1>1
<1>5. QED
  BY <1>2, <1>3, <1>4 DEF Placed

LEMMA PastBlock ==
    ASSUME NEW d \in Disks, NEW c \in 1 .. Many(d), NEW i \in Nat, i > Last(d, c),
           NEW b, NEW n \in Nat, NEW bits, NEW at \in Nat, SoFar(d, c, i, b, n, bits, at),
           NEW a, NEW m \in Nat, n < m, NEW more, NEW limit \in Nat,
           n - (i - Last(d, c) - 1) <= limit,
           \A k \in Int : k < limit => (k \in more <=> k \in bits)
    PROVE  SoFar(d, c, i + 1, a, m, more, at)
<1> DEFINE block == d.blocks[c]
           last == Last(d, c)
           size == Len(block.bits)
<1>1. last \in Nat /\ block.bits \in Seq({0, 1}) /\ size \in Nat
  <2>1. last \in Nat
    BY BlockAt
  <2>2. block.bits \in Seq({0, 1})
    BY BlockStarts
  <2>3. QED
    BY <2>1, <2>2, SMTT(30)
<1>2. at + size + (i - last - 1) <= n /\ Placed(block, size, at, bits) /\ at <= n
  BY DEF SoFar
<1> HIDE DEF block, last, size
<1>3. at + size <= limit
  BY <1>1, <1>2 DEF last
<1>4. Placed(block, size, at, more)
  BY <1>1, <1>2, <1>3, StillPlaced DEF size
<1>5. /\ at + size + ((i + 1) - last - 1) <= m /\ at <= m /\ ~(i + 1 <= last)
  BY <1>1, <1>2, SMTT(30) DEF last
<1>6. QED
  BY <1>4, <1>5 DEF SoFar, block, size, last

\* the next bits of a block
LEMMA BlockGoesOn ==
    ASSUME NEW d \in Disks, NEW c \in 1 .. Many(d), NEW i \in First(d, c) .. Last(d, c),
           NEW b, NEW n \in Nat, NEW bits \in SUBSET (0 .. n - 1), NEW at \in Nat,
           SoFar(d, c, i, b, n, bits, at),
           NEW a, NEW m, NEW more,
           LET new == Bits(b, Pulses(d)[i])
           IN  /\ m = n + Len(new) /\ a = new[Len(new)]
               /\ more = IF a = 1 THEN bits \cup {m - 1} ELSE bits
    PROVE  SoFar(d, c, i + 1, a, m, more, at)
<1> DEFINE block == d.blocks[c]
           first == First(d, c)
           last == Last(d, c)
           state == block.run[i - first]
           new == Bits(b, Pulses(d)[i])
           then == block.run[i + 1 - first]
           got == state.out
           size == Len(new)
           all == then.out
           length == Len(block.bits)
<1>1. /\ i \in Nat /\ last \in Nat /\ first \in Nat /\ i <= last
      /\ block.bits \in Seq({0, 1}) /\ Len(block.bits) \in Nat
      /\ Len(block.bits) <= block.run[last - first + 1].out
  <2>1. /\ i \in Nat /\ last \in Nat /\ first \in Nat /\ i <= last
    BY BlockAt
  <2>2. /\ block.bits \in Seq({0, 1})
        /\ Len(block.bits) <= block.run[last - first + 1].out
    BY BlockStarts
  <2>3. QED
    BY <2>1, <2>2
<1>2. b = state.bit /\ n = at + state.out /\ Placed(block, state.out, at, bits)
  BY <1>1, Zenon DEF SoFar
<1>3. LET l == block.run[i - first]
          s == Bits(l.bit, Pulses(d)[i])
      IN  /\ l.bit \in {0, 1} /\ l.out \in Nat
          /\ s # <<>>
          /\ block.run[i + 1 - first] =
                [bit |-> s[Len(s)], out |-> l.out + Len(s), crc |-> Register(l.crc, s)]
          /\ \A j \in 1 .. Len(s) :
                l.out + j <= Len(block.bits) => block.bits[l.out + j] = s[j]
  BY InBlock, Zenon
<1>4. Bits(state.bit, Pulses(d)[i]) = new
  BY <1>2, Zenon
<1>5. /\ b \in {0, 1} /\ state.out \in Nat /\ new # <<>>
      /\ then.bit = new[Len(new)] /\ then.out = state.out + Len(new)
      /\ \A j \in 1 .. Len(new) :
            state.out + j <= Len(block.bits) => block.bits[state.out + j] = new[j]
  <2>1. /\ state.bit \in {0, 1} /\ state.out \in Nat /\ new # <<>>
        /\ then = [bit |-> new[Len(new)], out |-> state.out + Len(new),
                   crc |-> Register(state.crc, new)]
        /\ \A j \in 1 .. Len(new) :
              state.out + j <= Len(block.bits) => block.bits[state.out + j] = new[j]
    BY <1>3, <1>4, Zenon
  <2> HIDE DEF state, new, then
  <2>2. QED
    BY <1>2, <2>1
<1>6. /\ Len(new) \in {1, 2} /\ new[Len(new)] \in {0, 1}
      /\ Len(new) = 2 => new[1] = 0
  BY <1>5, NewBits, SMTT(30)
<1>7. /\ m = n + size /\ a = new[size]
      /\ more = IF a = 1 THEN bits \cup {m - 1} ELSE bits
  OBVIOUS
<1>8. /\ got \in Nat /\ size \in {1, 2} /\ all = got + size /\ length \in Nat
      /\ n = at + got /\ a = then.bit /\ a \in {0, 1}
      /\ size = 2 => new[1] = 0
      /\ \A j \in 1 .. size : got + j <= length => block.bits[got + j] = new[j]
      /\ b = state.bit /\ Placed(block, got, at, bits)
  BY <1>1, <1>2, <1>5, <1>6, <1>7, Zenon
<1>9. i + 1 > last => length <= all
  <2>1. SUFFICES ASSUME i + 1 > last PROVE length <= all
    OBVIOUS
  <2>2. i + 1 - first = last - first + 1
    BY <1>1, <2>1
  <2>3. QED
    BY <1>1, <2>2
<1> HIDE DEF got, size, all, length, state, new, then, block, first, last
<1>10. m \in Nat /\ m > n /\ at <= n /\ m = at + all /\ all \in Nat /\ n <= m - 1
  BY <1>7, <1>8
<1>11. \A k \in Int : k < n => (k \in more <=> k \in bits)
  BY <1>7, <1>10
<1>12. n \notin bits /\ m - 1 \notin bits
  BY <1>10
<1>13. Placed(block, all, at, more)
  <2>1. at - 1 \in more
    BY <1>8, <1>10, <1>11 DEF Placed
  <2>2. \A k \in at - LongGap .. at - 2 : k \notin more
    BY <1>8, <1>10, <1>11, Lengths DEF Placed
  <2>3. ASSUME NEW k \in 1 .. length, k <= all
        PROVE  at + k - 1 \in more <=> block.bits[k] = 1
    <3>1. CASE k <= got
      <4>1. at + k - 1 \in bits <=> block.bits[k] = 1
        BY <1>8, <3>1 DEF Placed, length
      <4>2. at + k - 1 \in Int /\ at + k - 1 < n
        BY <1>8, <3>1
      <4>3. QED
        BY <1>11, <4>1, <4>2
    <3>2. CASE k = got + 1 /\ size = 2
      <4>1. block.bits[k] = 0
        BY <1>8, <2>3, <3>2
      <4>2. at + k - 1 = n /\ n # m - 1
        BY <1>7, <1>8, <3>2
      <4>3. n \notin more
        BY <1>7, <1>12, <4>2
      <4>4. QED
        BY <4>1, <4>2, <4>3
    <3>3. CASE k = got + size
      <4>1. block.bits[k] = a
        <5>1. size \in 1 .. size /\ got + size <= length
          BY <1>8, <2>3, <3>3
        <5>2. block.bits[got + size] = new[size]
          BY <1>8, <5>1
        <5>3. QED
          BY <1>7, <3>3, <5>2
      <4>2. at + k - 1 = m - 1
        BY <1>7, <1>8, <3>3
      <4>3. m - 1 \in more <=> a = 1
        BY <1>7, <1>12
      <4>4. QED
        BY <4>1, <4>2, <4>3
    <3>4. k <= got \/ (k = got + 1 /\ size = 2) \/ k = got + size
      BY <1>8, <2>3, SMTT(30)
    <3>5. QED
      BY <3>1, <3>2, <3>3, <3>4
  <2>4. QED
    BY <2>1, <2>2, <2>3, Lengths DEF Placed, length
<1>14. CASE i + 1 <= last
  <2>1. i \in Nat /\ last \in Nat /\ first \in Nat
    BY <1>1
  <2>2. ~(i + 1 > last)
    BY <1>14, <2>1
  <2>3. (i + 1) - first = i + 1 - first
    BY <2>1
  <2>4. at <= m
    BY <1>8, <1>10
  <2>5. QED
    BY <1>8, <1>10, <1>13, <1>14, <2>2, <2>3, <2>4 DEF SoFar, block, then, first, last, all
<1>15. CASE ~(i + 1 <= last)
  <2>1. i = last /\ (i + 1) - last - 1 = 0 /\ i + 1 > last
    BY <1>1, <1>15
  <2>2. length <= all
    BY <1>9, <2>1
  <2>3. at + length + ((i + 1) - last - 1) <= m /\ at <= m
    <3>1. at <= m /\ at + length <= m /\ at + length + 0 = at + length
      BY <1>8, <1>10, <2>2
    <3>2. QED
      BY <2>1, <3>1
  <2>4. Placed(block, length, at, more)
    BY <1>8, <1>10, <1>13, <2>2, SMTT(30) DEF Placed, length
  <2>5. QED
    BY <1>8, <1>15, <2>3, <2>4 DEF SoFar, block, last, length
<1>16. QED
  BY <1>14, <1>15

\* a gap's end is where a block follows
LEMMA MarkedEnd ==
    ASSUME NEW d \in Disks, NEW r, MarkedTo(d, r, Size(d)), NEW i \in 0 .. Size(d) - 1
    PROVE  r[i] = GapEnd <=> IsGapEnd(d, i)
<1>1. i < Size(d) /\ Pulses(d)[i] \in 0 .. 3
  BY PulsesOf
<1>2. IF IsGapEnd(d, i) THEN r[i] = GapEnd ELSE r[i] \in {Pulses(d)[i], 3}
  BY <1>1 DEF MarkedTo
<1>3. QED
  BY <1>1, <1>2 DEF GapEnd

LEMMA BlockOut ==
    ASSUME NEW d \in Disks, NEW r, NEW i \in 0 .. Size(d) - 1, NEW b, NEW n \in Nat, NEW bits,
           NEW places \in Seq(Nat), OutState(d, r, i, b, n, bits, places), r[i] = GapEnd,
           NEW m, m = Align(n),
           NEW more, more = (bits \ (n - (n % ByteBits) .. m - 1)) \cup {m - 1}
    PROVE  OutState(d, r, i + 1, 1, m, more, Append(places, m \div ByteBits))
<1> DEFINE L == Len(places)
           q == m \div ByteBits
           rest == n % ByteBits
           next == Append(places, q)
<1>1. /\ MarkedTo(d, r, Size(d)) /\ bits \subseteq 0 .. n - 1 /\ Quiet(r, i, b, n, bits)
      /\ \A e \in 1 .. Many(d) : e <= L <=> First(d, e) <= i
      /\ \A e \in 1 .. L : SoFar(d, e, i, b, n, bits, places[e] * ByteBits)
      /\ L \in Nat /\ L <= Many(d)
  BY DEF OutState
<1>2. /\ Size(d) \in Nat /\ LongGap \in Nat /\ ByteBits \in Nat \ {0} /\ ByteBits <= LongGap
      /\ Many(d) \in Nat
  BY PulsesOf, Lengths, BlockAt
<1>3. /\ m \in Nat /\ n < m /\ m <= n + ByteBits /\ q \in Nat /\ q * ByteBits = m
      /\ rest \in 0 .. ByteBits - 1
  BY Aligned
<1>4. more = (bits \ (n - rest .. m - 1)) \cup {m - 1}
  OBVIOUS
<1>5. PICK c \in 1 .. Many(d) : i = First(d, c) - 1
  BY <1>1, MarkedEnd DEF IsGapEnd
<1>6. /\ First(d, c) \in Nat /\ Last(d, c) \in Nat /\ LongGap + 4 <= First(d, c)
      /\ First(d, c) <= Last(d, c) /\ First(d, c) <= Size(d)
  BY <1>2, BlockAt
<1>7. c = L + 1
  <2>1. ~(First(d, c) <= i)
    BY <1>5, <1>6
  <2>2. ~(c <= L)
    BY <1>1, <2>1
  <2>3. c # 1 => c - 1 <= L
    <3>1. SUFFICES ASSUME c # 1 PROVE c - 1 <= L
      OBVIOUS
    <3>2. c - 1 \in 1 .. Many(d) /\ c - 1 < c
      BY <1>2, <3>1
    <3>3. /\ Last(d, c - 1) < First(d, c) - LongGap - 4 /\ First(d, c - 1) <= Last(d, c - 1)
          /\ First(d, c - 1) \in Nat /\ Last(d, c - 1) \in Nat
      BY <3>2, TwoBlocks
    <3>4. First(d, c - 1) <= i
      BY <1>2, <1>5, <1>6, <3>3, SMTT(30)
    <3>5. QED
      BY <1>1, <3>2, <3>4
  <2>4. QED
    BY <1>1, <1>2, <2>2, <2>3
\* the gap before it has come out as zeros
<1>8. LongGap <= n /\ \A k \in n - LongGap .. n - 1 : k \notin bits
  <2>1. PICK k \in 0 .. First(d, c) - (LongGap + 2) :
            r[k] = 3 /\ \A j \in k + 1 .. First(d, c) - 2 : r[j] = 0
    BY <1>1, <1>6 DEF MarkedTo, Opened
  <2>2. k \in 0 .. i - 1 /\ i - 1 = First(d, c) - 2 /\ i - 1 - k >= LongGap /\ k \in Nat
    BY <1>2, <1>5, <1>6, SMTT(30)
  <2>3. i - 1 - k <= n /\ \A j \in n - (i - 1 - k) .. n - 1 : j \notin bits
    BY <1>1, <2>1, <2>2 DEF Quiet
  <2>4. QED
    BY <1>2, <2>2, <2>3
<1> HIDE DEF q, rest, next, L
<1>9. ASSUME NEW k \in Int, k < n - rest
      PROVE  k \in more <=> k \in bits
  <2>1. k # m - 1 /\ k \notin n - rest .. m - 1
    BY <1>2, <1>3, <1>9
  <2>2. QED
    BY <1>4, <2>1
<1>10. more \subseteq 0 .. m - 1
  <2>1. SUFFICES ASSUME NEW k \in more PROVE k \in 0 .. m - 1
    OBVIOUS
  <2>2. k = m - 1 \/ k \in 0 .. n - 1
    BY <1>1, <1>4
  <2>3. QED
    BY <1>3, <2>2
<1>11. Placed(d.blocks[c], 0, m, more)
  <2>1. m - 1 \in more
    BY <1>4
  <2>2. ASSUME NEW k \in m - LongGap .. m - 2 PROVE k \notin more
    <3>1. k # m - 1
      BY <1>2, <1>3
    <3>2. k \in n - LongGap .. n - 1 \/ k >= n
      BY <1>2, <1>3, SMTT(30)
    <3>3. k \notin bits
      BY <1>1, <1>8, <3>2
    <3>4. QED
      BY <1>4, <3>1, <3>3
  <2>3. QED
    BY <1>3, <2>1, <2>2 DEF Placed
<1>12. SoFar(d, c, i + 1, 1, m, more, m)
  <2>1. d.blocks[c].run[0] = [bit |-> 1, out |-> 0, crc |-> CrcStart]
    BY BlockStarts
  <2>2. (i + 1) - First(d, c) = 0 /\ i + 1 <= Last(d, c) /\ ~(i + 1 > Last(d, c))
    BY <1>5, <1>6
  <2>3. m = m + 0 /\ m <= m
    BY <1>3
  <2>4. QED
    BY <1>11, <2>1, <2>2, <2>3 DEF SoFar
<1>13. ASSUME NEW e \in 1 .. L
       PROVE  SoFar(d, e, i + 1, 1, m, more, places[e] * ByteBits)
  <2>1. e \in 1 .. Many(d) /\ e < c
    BY <1>1, <1>2, <1>7
  <2>2. Last(d, e) \in Nat /\ Last(d, e) < First(d, c) - LongGap - 4
    BY <2>1, TwoBlocks
  <2>3. places[e] \in Nat
    BY DEF L
  <2>4. places[e] * ByteBits \in Nat
    BY <1>2, <2>3
  <2> DEFINE last == Last(d, e)
             first == First(d, c)
  <2>5. i > Last(d, e) /\ i \in Nat /\ n - rest \in Nat
        /\ n - (i - Last(d, e) - 1) <= n - rest
    <3>1. last \in Nat /\ first \in Nat /\ i = first - 1 /\ last < first - LongGap - 4
      BY <1>5, <1>6, <2>2
    <3> HIDE DEF last, first
    <3>2. i > last /\ i \in Nat
      BY <1>2, <3>1
    <3>3. rest \in Nat /\ rest <= LongGap /\ rest <= n
      BY <1>2, <1>3, <1>8
    <3>4. n - rest \in Nat
      BY <3>3
    <3>5. rest <= i - last - 1
      BY <1>2, <3>1, <3>3
    <3>6. n - (i - last - 1) <= n - rest
      BY <3>1, <3>3, <3>5
    <3>7. QED
      BY <3>2, <3>4, <3>6 DEF last
  <2>6. SoFar(d, e, i, b, n, bits, places[e] * ByteBits)
    BY <1>1
  <2>7. QED
    BY <1>3, <1>9, <2>1, <2>4, <2>5, <2>6, PastBlock
<1>14. \A e \in 1 .. Many(d) : e <= L + 1 <=> First(d, e) <= i + 1
  <2>1. First(d, c) = i + 1
    BY <1>5, <1>6
  <2>2. QED
    BY <1>7, <2>1, TwoBlocks
<1>15. Quiet(r, i + 1, 1, m, more)
  <2>1. \A k \in 0 .. (i + 1) - 1 : k = i \/ i \in k + 1 .. (i + 1) - 1
    OBVIOUS
  <2>2. r[i] # 3 /\ r[i] # 0
    BY DEF GapEnd
  <2>3. QED
    BY <2>1, <2>2 DEF Quiet
<1>16. next \in Seq(Nat) /\ Len(next) = L + 1 /\ next[L + 1] = q
       /\ \A e \in 1 .. L : next[e] = places[e]
  BY <1>3 DEF next, L
<1>17. ASSUME NEW e \in 1 .. Len(next)
       PROVE  SoFar(d, e, i + 1, 1, m, more, next[e] * ByteBits)
  <2>1. e \in 1 .. L \/ e = c
    BY <1>1, <1>7, <1>16
  <2>2. CASE e = c
    BY <1>3, <1>7, <1>12, <1>16, <2>2
  <2>3. CASE e \in 1 .. L
    BY <1>13, <1>16, <2>3
  <2>4. QED
    BY <2>1, <2>2, <2>3
<1>18. Len(next) <= Many(d)
  BY <1>2, <1>7, <1>16
<1>19. OutState(d, r, i + 1, 1, m, more, next)
  BY <1>1, <1>10, <1>14, <1>15, <1>16, <1>17, <1>18 DEF OutState
<1>20. QED
  BY <1>19 DEF next, q

LEMMA BitsOut ==
    ASSUME NEW d \in Disks, NEW r, NEW i \in 0 .. Size(d) - 1, NEW b \in {0, 1}, NEW n \in Nat,
           NEW bits, NEW places \in Seq(Nat), OutState(d, r, i, b, n, bits, places),
           r[i] # GapEnd, NEW a, NEW m, NEW more,
           LET new == Bits(b, r[i])
           IN  IF new = <<>> THEN m = n + 1 /\ a = 0 /\ more = bits
               ELSE /\ m = n + Len(new) /\ a = new[Len(new)]
                    /\ more = IF a = 1 THEN bits \cup {m - 1} ELSE bits
    PROVE  OutState(d, r, i + 1, a, m, more, places)
<1> DEFINE new == Bits(b, r[i])
           L == Len(places)
<1>1. /\ MarkedTo(d, r, Size(d)) /\ bits \in SUBSET (0 .. n - 1) /\ Quiet(r, i, b, n, bits)
      /\ \A e \in 1 .. Many(d) : e <= L <=> First(d, e) <= i
      /\ \A e \in 1 .. L : SoFar(d, e, i, b, n, bits, places[e] * ByteBits)
      /\ L \in Nat /\ L <= Many(d)
  BY DEF OutState
<1>2. /\ Size(d) \in Nat /\ LongGap \in Nat /\ ByteBits \in Nat \ {0} /\ Many(d) \in Nat
  BY PulsesOf, Lengths, BlockAt
<1>3. ~IsGapEnd(d, i)
  BY <1>1, MarkedEnd
<1>4. new # <<>> => Len(new) \in {1, 2} /\ new[Len(new)] \in {0, 1}
  BY NewBits
<1>5. IF new = <<>> THEN m = n + 1 /\ a = 0 /\ more = bits
      ELSE /\ m = n + Len(new) /\ a = new[Len(new)]
           /\ more = IF a = 1 THEN bits \cup {m - 1} ELSE bits
  OBVIOUS
<1> HIDE DEF L
<1>6. /\ m \in Nat /\ n < m /\ a \in {0, 1} /\ more \subseteq 0 .. m - 1
      /\ \A k \in Int : k < n => (k \in more <=> k \in bits)
  <2> DEFINE size == Len(new)
             bit == new[Len(new)]
  <2>1. CASE new = <<>>
    <3>1. m = n + 1 /\ a = 0 /\ more = bits
      BY <1>5, <2>1
    <3> HIDE DEF new
    <3>2. QED
      BY <1>1, <3>1
  <2>2. CASE new # <<>>
    <3>1. /\ m = n + size /\ a = bit /\ size \in {1, 2} /\ bit \in {0, 1}
          /\ more = IF a = 1 THEN bits \cup {m - 1} ELSE bits
      BY <1>4, <1>5, <2>2
    <3> HIDE DEF size, bit, new
    <3>2. m \in Nat /\ n < m /\ a \in {0, 1}
      BY <3>1
    <3>3. ASSUME NEW k \in more PROVE k \in 0 .. m - 1
      <4>1. k = m - 1 \/ k \in 0 .. n - 1
        BY <1>1, <3>1
      <4>2. QED
        BY <3>2, <4>1
    <3>4. ASSUME NEW k \in Int, k < n PROVE k \in more <=> k \in bits
      BY <3>1, <3>2, <3>4
    <3>5. QED
      BY <3>2, <3>3, <3>4
  <2>3. QED
    BY <2>1, <2>2
<1>7. \A e \in 1 .. Many(d) : e <= L <=> First(d, e) <= i + 1
  <2>1. SUFFICES ASSUME NEW e \in 1 .. Many(d) PROVE First(d, e) <= i <=> First(d, e) <= i + 1
    BY <1>1
  <2>2. First(d, e) \in Nat /\ i # First(d, e) - 1
    BY <1>3, BlockAt DEF IsGapEnd
  <2>3. QED
    BY <2>2
<1>8. Quiet(r, i + 1, a, m, more)
  <2>1. SUFFICES ASSUME NEW k \in 0 .. i, r[k] = 3, \A j \in k + 1 .. i : r[j] = 0
                 PROVE  /\ a = 0 /\ i - k <= m
                        /\ \A j \in m - (i - k) .. m - 1 : j \notin more
    <3>1. (i + 1) - 1 = i
      OBVIOUS
    <3>2. QED
      BY <2>1, <3>1 DEF Quiet
  <2>2. CASE k = i
    <3>1. new = <<>>
      BY <2>1, <2>2 DEF Bits
    <3>2. a = 0 /\ i - k = 0
      BY <1>5, <2>2, <3>1
    <3>3. QED
      BY <1>6, <3>2
  <2>3. CASE k # i
    <3>1. r[i] = 0 /\ k \in 0 .. i - 1 /\ \A j \in k + 1 .. i - 1 : r[j] = 0
      BY <2>1, <2>3
    <3>2. /\ b = 0 /\ i - 1 - k <= n
          /\ \A j \in n - (i - 1 - k) .. n - 1 : j \notin bits
      BY <1>1, <2>1, <3>1 DEF Quiet
    <3>3. new = <<0>>
      BY <3>1, <3>2 DEF Bits
    <3>4. m = n + 1 /\ a = 0 /\ more = bits
      BY <1>5, <3>3
    <3>5. i - k <= m
      BY <3>2, <3>4
    <3>6. ASSUME NEW j \in m - (i - k) .. m - 1 PROVE j \notin bits
      <4>1. j = n \/ j \in n - (i - 1 - k) .. n - 1
        BY <3>4
      <4>2. QED
        BY <1>1, <3>2, <4>1
    <3>7. QED
      BY <3>4, <3>5, <3>6
  <2>4. QED
    BY <2>2, <2>3
<1>9. ASSUME NEW e \in 1 .. L
      PROVE  SoFar(d, e, i + 1, a, m, more, places[e] * ByteBits)
  <2>1. e \in 1 .. Many(d) /\ First(d, e) <= i
    BY <1>1, <1>2
  <2>2. First(d, e) \in Nat /\ Last(d, e) \in Nat
    BY <2>1, BlockAt
  <2>3. places[e] \in Nat
    BY DEF L
  <2>4. places[e] * ByteBits \in Nat
    BY <1>2, <2>3
  <2>5. SoFar(d, e, i, b, n, bits, places[e] * ByteBits)
    BY <1>1
  <2>6. CASE i > Last(d, e)
    <3>1. n - (i - Last(d, e) - 1) <= n /\ i \in Nat
      BY <2>2, <2>6
    <3>2. QED
      BY <1>6, <2>1, <2>4, <2>5, <2>6, <3>1, PastBlock
  <2>7. CASE ~(i > Last(d, e))
    <3>1. i \in First(d, e) .. Last(d, e) /\ i <= Last(d, e)
      BY <2>1, <2>2, <2>7
    <3>2. r[i] = Pulses(d)[i]
      BY <1>1, <2>1, <3>1, SMTT(30) DEF MarkedTo
    <3>3. Bits(d.blocks[e].run[i - First(d, e)].bit, Pulses(d)[i]) # <<>>
      BY <2>1, <3>1, InBlock
    <3>4. b = d.blocks[e].run[i - First(d, e)].bit
      BY <2>5, <3>1 DEF SoFar
    <3>5. Bits(b, Pulses(d)[i]) = new /\ new # <<>>
      BY <3>2, <3>3, <3>4
    <3>6. LET s == Bits(b, Pulses(d)[i])
          IN  /\ m = n + Len(s) /\ a = s[Len(s)]
              /\ more = IF a = 1 THEN bits \cup {m - 1} ELSE bits
      BY <1>5, <3>5
    <3> HIDE DEF new
    <3>7. QED
      BY <1>1, <2>1, <2>4, <2>5, <3>1, <3>6, BlockGoesOn
  <2>8. QED
    BY <2>6, <2>7
<1>10. QED
  BY <1>1, <1>6, <1>7, <1>8, <1>9 DEF OutState, L

LEMMA OutputStarts == Typed /\ GapMarks /\ StartOutput => Written'
<1> SUFFICES ASSUME Typed, GapMarks, StartOutput PROVE Written'
  OBVIOUS
<1> DEFINE d == recording
<1>1. /\ d \in Disks /\ recording' = d /\ rawSize = Size(d) /\ Size(d) \in Nat
      /\ pass = "gaps" /\ in \in 0 .. Size(d) /\ in >= Size(d) /\ bin = {} /\ starts = <<>>
  BY SizeIs, PulsesOf DEF Typed, RecoveryTypeOK, StartOutput
<1>2. /\ raw' = raw /\ pass' = "output" /\ in' = 0 /\ out' = 0 /\ bitval' = 0
      /\ bin' = {} /\ starts' = <<>>
  BY <1>1 DEF StartOutput, result
<1>3. in = Size(d)
  BY <1>1
<1>4. MarkedTo(d, raw, Size(d))
  BY <1>1, <1>3 DEF GapMarks, GapState
<1>5. OutState(d, raw, 0, 0, 0, {}, <<>>)
  BY <1>1, <1>4, OutBegins
<1>6. QED
  BY <1>1, <1>2, <1>5 DEF Written

LEMMA OutputKeeps == Typed /\ Written /\ Output => Written'
<1> SUFFICES ASSUME Typed, Written, Output PROVE Written'
  OBVIOUS
<1> DEFINE d == recording
<1>1. /\ d \in Disks /\ recording' = d /\ raw' = raw
      /\ pass = "output" /\ pass' = "output" /\ in \in 0 .. Size(d) - 1 /\ in' = in + 1
      /\ bitval \in {0, 1} /\ out \in Nat /\ starts \in Seq(Nat)
  BY SizeIs, PulsesOf DEF Typed, RecoveryTypeOK, Output
<1>2. OutState(d, raw, in, bitval, out, bin, starts)
  BY <1>1 DEF Written
<1>3. OutState(d, raw, in + 1, bitval', out', bin', starts')
  <2>1. CASE BlockBegins
    <3>1. /\ raw[in] = GapEnd /\ out' = Align(out) /\ bitval' = 1
          /\ bin' = (bin \ (out - (out % ByteBits) .. out' - 1)) \cup {out' - 1}
          /\ starts' = Append(starts, out' \div ByteBits)
      BY <2>1 DEF BlockBegins
    <3> HIDE DEF d
    <3>2. OutState(d, raw, in + 1, 1, out', bin', Append(starts, out' \div ByteBits))
      BY <1>1, <1>2, <3>1, BlockOut
    <3>3. QED
      BY <3>1, <3>2
  <2>2. CASE BitsFollow
    <3>1. /\ raw[in] # GapEnd /\ starts' = starts
          /\ LET new == Bits(bitval, raw[in])
             IN  IF new = <<>> THEN out' = out + 1 /\ bitval' = 0 /\ bin' = bin
                 ELSE /\ out' = out + Len(new) /\ bitval' = new[Len(new)]
                      /\ bin' = IF bitval' = 1 THEN bin \cup {out' - 1} ELSE bin
      BY <2>2 DEF BitsFollow, LastBit
    <3> HIDE DEF d
    <3>2. OutState(d, raw, in + 1, bitval', out', bin', starts)
      BY <1>1, <1>2, <3>1, BitsOut
    <3>3. QED
      BY <3>1, <3>2
  <2>3. QED
    BY <2>1, <2>2 DEF Output
<1>4. QED
  BY <1>1, <1>3 DEF Written

LEMMA FinishKeeps == Typed /\ Written /\ Finish => Written'
<1> SUFFICES ASSUME Typed, Written, Finish PROVE Written'
  OBVIOUS
<1>1. /\ pass = "output" /\ in >= Size(recording)
  BY SizeIs DEF Typed, Finish
<1>2. /\ pass' = "done" /\ recording' = recording /\ raw' = raw /\ in' = in
      /\ bitval' = bitval /\ out' = out /\ bin' = bin /\ starts' = starts
  BY DEF Finish, decoding, result
<1>3. OutState(recording, raw, in, bitval, out, bin, starts)
  BY <1>1 DEF Written
<1>4. QED
  BY <1>1, <1>2, <1>3 DEF Written

-----------------------------------------------------------------------------
(* the passes in turn *)

\* Each conjunct is about the pass it names; together they are inductive.
Recovering == Typed /\ Glitches /\ Detections /\ GapMarks /\ Written

\* What is not being done now says nothing of the state.
LEMMA NotNow ==
    /\ pass # "glitches" => Glitches
    /\ pass \notin {"detect", "next"} => Detections
    /\ pass # "gaps" => GapMarks
    /\ pass \notin {"output", "done"} => Written
BY DEF Glitches, Detections, Detecting, AtBlock, BetweenBlocks, GapMarks, Written

LEMMA NotThen ==
    /\ pass' # "glitches" => Glitches'
    /\ pass' \notin {"detect", "next"} => Detections'
    /\ pass' # "gaps" => GapMarks'
    /\ pass' \notin {"output", "done"} => Written'
BY DEF Glitches, Detections, Detecting, AtBlock, BetweenBlocks, GapMarks, Written

LEMMA RecoveringBegins == RecoveryInit => Recovering
<1>1. SUFFICES ASSUME RecoveryInit PROVE Recovering
  OBVIOUS
<1>2. pass = "glitches"
  BY <1>1 DEF RecoveryInit
<1>3. QED
  BY <1>1, <1>2, TypedInit, GlitchesBegin, NotNow DEF Recovering

LEMMA RecoveringKeeps == Recovering /\ [RecoveryNext]_recoveryVars => Recovering'
<1> SUFFICES ASSUME Recovering, [RecoveryNext]_recoveryVars PROVE Recovering'
  OBVIOUS
<1>1. Typed /\ Glitches /\ Detections /\ GapMarks /\ Written
  BY DEF Recovering
<1>2. CASE FindGlitches
  <2>1. pass' = "glitches"
    BY <1>2 DEF FindGlitches
  <2>2. QED
    BY <1>1, <1>2, <2>1, TypedGlitches, GlitchesKeep, NotThen DEF Recovering
<1>3. CASE FindHeader
  <2>1. pass' = "detect"
    BY <1>1, <1>3, HeaderKeeps
  <2>2. QED
    BY <1>1, <1>3, <2>1, TypedHeader, HeaderKeeps, NotThen DEF Recovering
<1>4. CASE Detect
  <2>1. pass' \in {"detect", "next"}
    BY <1>4 DEF Detect, Detected
  <2>2. QED
    BY <1>1, <1>4, <2>1, TypedDetect, DetectKeeps, NotThen DEF Recovering
<1>5. CASE ToNextGap
  <2>1. pass' \in {"detect", "gaps"}
    BY <1>5 DEF ToNextGap
  <2>2. QED
    BY <1>1, <1>5, <2>1, TypedNext, NextKeeps, NotThen DEF Recovering
<1>6. CASE MarkGaps
  <2>1. pass' = "gaps"
    BY <1>6 DEF MarkGaps
  <2>2. QED
    BY <1>1, <1>6, <2>1, TypedGaps, GapsKeep, NotThen DEF Recovering
<1>7. CASE StartOutput
  <2>1. pass' = "output"
    BY <1>7 DEF StartOutput
  <2>2. QED
    BY <1>1, <1>7, <2>1, TypedStart, OutputStarts, NotThen DEF Recovering
<1>8. CASE Output
  <2>1. pass' = "output"
    BY <1>8 DEF Output
  <2>2. QED
    BY <1>1, <1>8, <2>1, TypedOutput, OutputKeeps, NotThen DEF Recovering
<1>9. CASE Finish
  <2>1. pass' = "done"
    BY <1>9 DEF Finish
  <2>2. QED
    BY <1>1, <1>9, <2>1, TypedFinish, FinishKeeps, NotThen DEF Recovering
<1>10. CASE UNCHANGED recoveryVars
  <2>1. /\ pass' = pass /\ recording' = recording /\ raw' = raw /\ in' = in /\ from' = from
        /\ glitch' = glitch /\ junk' = junk /\ zeros' = zeros /\ crc' = crc /\ match' = match
        /\ bitval' = bitval /\ out' = out /\ bin' = bin /\ starts' = starts
    BY <1>10 DEF recoveryVars
  <2>2. Typed'
    BY <1>1, <2>1 DEF Typed, RecoveryTypeOK, rawSize
  <2>3. Glitches'
    BY <1>1, <2>1 DEF Glitches, RunOf
  <2>4. Detections'
    BY <1>1, <2>1 DEF Detections, Detecting, AtBlock, BetweenBlocks, InBlockAt
  <2>5. GapMarks' /\ Written'
    BY <1>1, <2>1 DEF GapMarks, Written
  <2>6. QED
    BY <2>2, <2>3, <2>4, <2>5 DEF Recovering
<1>11. QED
  BY <1>2, <1>3, <1>4, <1>5, <1>6, <1>7, <1>8, <1>9, <1>10 DEF RecoveryNext

LEMMA AlwaysRecovering == RecoverySpec => []Recovering
BY RecoveringBegins, RecoveringKeeps, PTL DEF RecoverySpec

LEMMA NoMarkInBlocks == Recovering => BlocksIntact
<1> SUFFICES ASSUME Recovering, NEW b \in 1 .. Len(recording.blocks),
                    NEW k \in recording.blocks[b].first .. recording.blocks[b].last
             PROVE  raw[k] = recording.pulses[k + 1]
  BY DEF BlocksIntact
<1> DEFINE d == recording
<1>1. /\ d \in Disks /\ b \in 1 .. Many(d) /\ k \in First(d, b) .. Last(d, b)
      /\ pass \in {"glitches", "detect", "next", "gaps", "output", "done"}
  BY DEF Recovering, Typed, RecoveryTypeOK, Many, First, Last
<1>2. /\ First(d, b) \in Nat /\ Last(d, b) \in Nat /\ Last(d, b) < Size(d) /\ Size(d) \in Nat
  BY <1>1, BlockAt, PulsesOf
<1>3. Pulses(d)[k] = d.pulses[k + 1]
  <2>1. k \in 0 .. Size(d) - 1
    BY <1>1, <1>2
  <2>2. QED
    BY <1>1, <2>1, PulsesOf
<1>4. raw[k] = Pulses(d)[k]
  <2>1. CASE pass = "glitches"
    <3>1. k \in First(d, b) - (LongGap + 3) .. Last(d, b)
      BY <1>1, <1>2, Lengths
    <3>2. Kept(d, raw, LongGap + 3)
      BY <2>1 DEF Recovering, Glitches
    <3>3. QED
      BY <1>1, <3>1, <3>2 DEF Kept
  <2>2. CASE pass \in {"detect", "next"}
    <3>1. k \in First(d, b) - (LongGap + 2) .. Last(d, b)
      BY <1>1, <1>2, Lengths
    <3>2. Kept(d, raw, LongGap + 2)
      BY <2>2 DEF Recovering, Detections, Detecting
    <3>3. QED
      BY <1>1, <3>1, <3>2 DEF Kept
  <2>3. CASE pass = "gaps"
    <3>1. MarkedTo(d, raw, in)
      BY <2>3 DEF Recovering, GapMarks, GapState
    <3>2. QED
      BY <1>1, <3>1 DEF MarkedTo
  <2>4. CASE pass \in {"output", "done"}
    <3>1. MarkedTo(d, raw, Size(d))
      BY <2>4 DEF Recovering, Written, OutState
    <3>2. QED
      BY <1>1, <3>1 DEF MarkedTo
  <2>5. QED
    BY <1>1, <2>1, <2>2, <2>3, <2>4
<1>5. QED
  BY <1>3, <1>4

\* raw03_to_bin marks no pulse of a block: its passes take nothing in a block for a gap.
THEOREM BlocksStayIntact == RecoverySpec => []BlocksIntact
BY NoMarkInBlocks, AlwaysRecovering, PTL

LEMMA AllOut == Recovering => BlocksComeOut
<1> SUFFICES ASSUME Recovering, pass = "done"
             PROVE  /\ Len(starts) = Len(recording.blocks)
                    /\ \A b \in 1 .. Len(starts) : ComesOut(recording.blocks[b], starts[b])
  BY DEF BlocksComeOut
<1> DEFINE d == recording
           L == Len(starts)
<1>1. /\ d \in Disks /\ starts \in Seq(Nat) /\ in \in Nat /\ out \in Nat /\ L \in Nat
      /\ OutState(d, raw, in, bitval, out, bin, starts) /\ in >= Size(d)
  BY DEF Recovering, Typed, RecoveryTypeOK, Written
<1>2. Many(d) \in Nat /\ Size(d) \in Nat
  BY <1>1, BlockAt, PulsesOf
<1>3. /\ \A b \in 1 .. Many(d) : b <= L <=> First(d, b) <= in
      /\ L <= Many(d)
      /\ \A b \in 1 .. L : SoFar(d, b, in, bitval, out, bin, starts[b] * ByteBits)
  BY <1>1 DEF OutState
<1>4. ASSUME NEW b \in 1 .. Many(d)
      PROVE  b <= L /\ in > Last(d, b)
  <2>1. /\ First(d, b) \in Nat /\ Last(d, b) \in Nat
        /\ First(d, b) <= Last(d, b) /\ Last(d, b) < Size(d)
    BY <1>1, BlockAt
  <2>2. First(d, b) <= in /\ in > Last(d, b)
    BY <1>1, <1>2, <2>1
  <2>3. QED
    BY <1>3, <2>2
<1>5. L = Many(d)
  <2>1. Many(d) # 0 => Many(d) <= L
    BY <1>2, <1>4
  <2>2. QED
    BY <1>1, <1>2, <1>3, <2>1
<1>6. ASSUME NEW b \in 1 .. L
      PROVE  ComesOut(d.blocks[b], starts[b])
  <2>1. in > Last(d, b)
    BY <1>4, <1>5
  <2>2. Placed(d.blocks[b], Len(d.blocks[b].bits), starts[b] * ByteBits, bin)
    BY <1>3, <2>1 DEF SoFar
  <2>3. \A k \in 1 .. Len(d.blocks[b].bits) : k <= Len(d.blocks[b].bits)
    <3>1. d.blocks[b].bits \in Seq({0, 1})
      BY <1>1, <1>5, BlockStarts
    <3>2. QED
      BY <3>1
  <2>4. QED
    BY <2>2, <2>3 DEF Placed, ComesOut
<1>7. QED
  BY <1>5, <1>6 DEF Many

\* Every block of a recording becomes a block of the .bin, in order and bit for bit, behind
\* a gap and a gap end (raw03_to_bin, once the output is written).
THEOREM AllBlocksComeOut == RecoverySpec => []BlocksComeOut
BY AllOut, AlwaysRecovering, PTL

=============================================================================
