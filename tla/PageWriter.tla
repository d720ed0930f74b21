----------------------------- MODULE PageWriter -----------------------------
(***************************************************************************)
(* One call of spi_writeFlash or spi_writeFlash2 by the byte: the block is *)
(* erased and the file is cut into pieces that stay in their pages, each   *)
(* of which pageProgram cuts again into USB reports.  -W passes any        *)
(* address and size.                                                       *)
(*                                                                         *)
(* The chip is as quick as the program wants: what a busy one does is      *)
(* SpiFlash's, where addresses are whole pages.                            *)
(***************************************************************************)
EXTENDS Integers, Sequences

CONSTANTS
    PageSize, FlashSize,
    WriteMax,       \* bytes a report carries (SPI_WRITEMAX)
    CmdSize,        \* bytes of a command and its address (4)
    Writes,         \* the calls: address, size, and the unit that is erased
    Contents,       \* what the flash may hold at the beginning
    Erased, Garbled \* contents of a byte that are no byte of the file

ASSUME PagesAssumption ==
    /\ {PageSize, FlashSize, WriteMax, CmdSize} \subseteq Nat \ {0}
    /\ FlashSize % PageSize = 0 /\ CmdSize <= WriteMax
    /\ Writes \subseteq [addr : Nat, size : 0 .. FlashSize, unit : 1 .. FlashSize]
    /\ \A w \in Writes : w.unit % PageSize = 0 /\ FlashSize % w.unit = 0
    /\ Contents \subseteq [0 .. FlashSize - 1 -> Nat \cup {Erased, Garbled}]

VARIABLES
    pc,             \* erase, page, send, done
    call,           \* the call, one of Writes
    wrote, size,    \* bytes of the file programmed; bytes of the frame to send
    flash,          \* the bytes; those of the file by their place in it
    frame,          \* the bytes of the file the chip has been sent
    ok,
    before,         \* (observability) the flash before the call
    failed          \* (observability) a report has failed

vars == <<pc, call, wrote, size, flash, frame, ok, before, failed>>
Bytes == 0 .. FlashSize - 1

Init ==
    /\ pc = "erase"
    /\ call \in Writes
    /\ wrote = 0 /\ size = 0
    /\ flash \in Contents /\ frame = <<>>
    /\ ok = FALSE
    /\ before = flash /\ failed = FALSE

-----------------------------------------------------------------------------
(* the chip *)

\* The chip ignores address bits it has no use for.
Cell(k) == (call.addr + k) % FlashSize
\* the unit an erase command's address falls in; the bytes below it are not sent
Unit == {c \in Bytes : c \div call.unit = Cell(0) \div call.unit}

\* Programming can only clear bits.
Programmed(old, new) == IF old \in {Erased, new} THEN new ELSE Garbled

\* A frame that runs over the end of its page goes on at its beginning.
InPage(i) == LET c == Cell(wrote) IN c - (c % PageSize) + ((c + i - 1) % PageSize)
ProgramFrame(f) ==
    [c \in Bytes |->
        IF \E i \in DOMAIN f : InPage(i) = c
        THEN Programmed(flash[c], f[CHOOSE i \in DOMAIN f : InPage(i) = c])
        ELSE flash[c]]

-----------------------------------------------------------------------------
(* spi_writeFlash *)

Returns(result) ==
    /\ pc' = "done"
    /\ ok' = result

\* A report fails, carried out or not; whatever it is part of may have begun.
Fails ==
    /\ Returns(FALSE)
    /\ failed' = TRUE

EraseBlock ==
    /\ pc = "erase"
    /\ \/ /\ flash' = [c \in Bytes |-> IF c \in Unit THEN Erased ELSE flash[c]]
          /\ \/ pc' = "page" /\ UNCHANGED <<ok, failed>>
             \/ Fails
       \/ UNCHANGED flash /\ Fails
    /\ UNCHANGED <<call, wrote, size, frame, before>>

\* (mutants) a whole page; not cut at the end of the file
WholePage == PageSize
Uncut(n) == n
\* "bytes left in page", of the page of the first byte whichever is written
LeftInPage == PageSize - (call.addr % PageSize)
Cut(n) == IF n > call.size - wrote THEN call.size - wrote ELSE n
pageWriteSize == Cut(LeftInPage)

\* "Page write overflow."
Overflows == ((call.addr + wrote) % PageSize) + pageWriteSize > PageSize

BeginPage ==
    /\ pc = "page" /\ wrote < call.size
    /\ \/ /\ ~Overflows
          /\ pc' = "send" /\ size' = pageWriteSize + CmdSize
          /\ frame' = <<>>
          /\ UNCHANGED <<ok, failed>>
       \/ Overflows /\ Returns(FALSE) /\ UNCHANGED <<size, frame, failed>>
       \/ ~Overflows /\ Fails /\ UNCHANGED <<size, frame>>
    /\ UNCHANGED <<call, wrote, flash, before>>

AllWritten ==
    /\ pc = "page" /\ wrote >= call.size
    /\ Returns(wrote = call.size)
    /\ UNCHANGED <<call, wrote, size, flash, frame, before, failed>>

\* (mutant) a full last report keeps the frame open
HoldsLast == size >= WriteMax
holdCS == size > WriteMax

\* the bytes of the file in the next report, which has the command as well if
\* it is the first
InReport ==
    LET full == IF size > WriteMax THEN WriteMax ELSE size
        n == IF size = pageWriteSize + CmdSize THEN full - CmdSize ELSE full
    IN  [k \in 1 .. n |-> wrote + Len(frame) + k - 1]

SendReport ==
    /\ pc = "send" /\ size > 0
    /\ frame' = frame \o InReport
    /\ size' = size - WriteMax
    /\ flash' = IF holdCS THEN flash ELSE ProgramFrame(frame')
    /\ UNCHANGED <<pc, call, wrote, ok, before, failed>>

\* for (; size>0; size -= SPI_WRITEMAX), then writeWait and the next page
PageSent ==
    /\ pc = "send" /\ size <= 0
    /\ pc' = "page"
    /\ wrote' = wrote + pageWriteSize
    /\ UNCHANGED <<call, size, flash, frame, ok, before, failed>>

\* What has been sent of a frame may be programmed.
SendFails ==
    /\ pc = "send"
    /\ Fails
    /\ flash' \in {flash, ProgramFrame(frame), ProgramFrame(frame \o InReport)}
    /\ UNCHANGED <<call, wrote, size, frame, before>>

-----------------------------------------------------------------------------
Next == EraseBlock \/ BeginPage \/ AllWritten \/ SendReport \/ PageSent \/ SendFails

Spec == Init /\ [][Next]_vars

-----------------------------------------------------------------------------
\* The variables have the values the code can give them.
TypeOK ==
    /\ pc \in {"erase", "page", "send", "done"}
    /\ call \in Writes
    /\ wrote \in 0 .. call.size
    /\ size \in 1 - WriteMax .. PageSize + CmdSize
    /\ flash \in [Bytes -> Nat \cup {Erased, Garbled}]
    /\ frame \in Seq(0 .. FlashSize) /\ Len(frame) <= PageSize
    /\ ok \in BOOLEAN /\ failed \in BOOLEAN

\* what a byte has become when the first n bytes of the file are written
Written(c, n) ==
    LET base == IF c \in Unit THEN Erased ELSE before[c]
    IN  IF \E k \in 0 .. n - 1 : Cell(k) = c
        THEN Programmed(base, CHOOSE k \in 0 .. n - 1 : Cell(k) = c)
        ELSE base

(***************************************************************************)
(* A call that returns true has programmed every byte of the file once, at *)
(* its address, whatever pages and reports it is cut into: over an erased  *)
(* byte in the block that was erased, over the old one behind it.          *)
(***************************************************************************)
FileWritten == ok => \A c \in Bytes : flash[c] = Written(c, call.size)

(***************************************************************************)
(* A call that fails half way has changed the block it erases and bytes it *)
(* was to write, and no others: no piece runs over the end of its page.    *)
(***************************************************************************)
OnlyOwnBytes ==
    \A c \in Bytes :
        c \in Unit \/ (\E k \in 0 .. call.size - 1 : Cell(k) = c) \/ flash[c] = before[c]

\* the bytes of the file from one piece to the next
PieceLength == PageSize - (call.addr % PageSize)
\* the piece that begins with byte n of the file has its last byte in another page
CrossesAt(n) ==
    LET last == IF n + PieceLength < call.size THEN n + PieceLength - 1 ELSE call.size - 1
    IN  /\ n % PieceLength = 0
        /\ (call.addr + n) \div PageSize # (call.addr + last) \div PageSize

(***************************************************************************)
(* As the size of every piece is reckoned from the address of the first    *)
(* one, a later piece may run over the end of its page, and pageProgram    *)
(* refuses it.  A call in which no report fails returns true exactly when  *)
(* no piece of the file does; none does if the first piece is a whole      *)
(* fraction of a page.                                                     *)
(***************************************************************************)
FailsForReason ==
    pc = "done" /\ ~failed =>
        /\ ok <=> \A n \in 0 .. call.size - 1 : ~CrossesAt(n)
        /\ PageSize % PieceLength = 0 => ok
=============================================================================
