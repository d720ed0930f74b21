------------------------------ MODULE FlashChip ------------------------------
(***************************************************************************)
(* The serial flash behind the adapter, as src/spi.cpp relies on it.  The  *)
(* chip and the adapter firmware are not in this repository: the operators *)
(* below describe only what the commands of spi.cpp presuppose.            *)
(*                                                                         *)
(* A chip is a record                                                      *)
(*   mem    what each page holds                                           *)
(*   op     the operation in progress (status bit 0, WIP, is op # NoOp)    *)
(*   wel    the write-enable latch                                         *)
(*   prot   TRUE while the block-protect bits cover the array              *)
(*   frame  the command being shifted in or out while chip select is low   *)
(*                                                                         *)
(* Every operator takes a chip and returns the chip afterwards.            *)
(***************************************************************************)
EXTENDS Integers

CONSTANTS
    NPages,         \* pages of the array (dev_flashSize / PAGESIZE)
    Images,         \* what a page can be asked to hold
    Erased,         \* a page of 0xff
    Garbled,        \* a page no one asked for: ANDed images, a torn write
    Chunks          \* USB reports that carry one page-program frame

ASSUME ChipAssumption ==
    /\ NPages \in Nat \ {0}
    /\ Chunks \in Nat \ {0}
    /\ Erased \notin Images
    /\ Garbled \notin Images
    /\ Erased # Garbled

Pages == 0 .. NPages - 1
Content == Images \cup {Erased, Garbled}

Op == [kind : {"none", "unprotect", "erase", "program"},
       pages : SUBSET Pages, img : Content]
Frame == [cmd : {"none", "ignored", "status", "id", "wren", "write"},
          op : Op, got : 0 .. Chunks]
Chip == [mem : [Pages -> Content], op : Op, wel : BOOLEAN, prot : BOOLEAN,
         frame : Frame]

NoOp == [kind |-> "none", pages |-> {}, img |-> Erased]
Command(c) == [cmd |-> c, op |-> NoOp, got |-> 0]
WriteOf(op) == [cmd |-> "write", op |-> op, got |-> 1]
NoFrame == Command("none")

Busy(c) == c.op.kind # "none"

\* reports that make up the frame of an operation
Reports(op) == IF op.kind = "program" THEN Chunks ELSE 1

\* Only a latched write enable lets an operation start, and protection stops
\* every operation but the one that removes it.
Accepts(c, op) == c.wel /\ (op.kind = "unprotect" \/ ~c.prot)

\* An operation whose frame was cut short programs part of its page.
Begun(f) == IF f.got = Reports(f.op) THEN f.op ELSE [f.op EXCEPT !.img = Garbled]

\* Chip select goes high: a write-enable or a write command takes effect now.
Deselect(c) ==
    [c EXCEPT
        !.frame = NoFrame,
        !.wel = @ \/ c.frame.cmd = "wren",
        !.op = IF c.frame.cmd = "write" /\ Accepts(c, c.frame.op)
               THEN Begun(c.frame) ELSE @]

\* A report with initCS: chip select is pulsed and a new frame begins.  A busy
\* chip answers nothing but the status command.
Select(c, f) ==
    LET d == Deselect(c)
    IN  [d EXCEPT !.frame = IF Busy(d) /\ f.cmd # "status"
                            THEN Command("ignored") ELSE f]

\* A report without initCS carries the next part of the frame.
Shift(c) ==
    [c EXCEPT !.frame.got = IF c.frame.cmd = "write" THEN @ + 1 ELSE @]

\* Programming can only clear bits: a page that held something else is spoilt.
Programmed(old, img) == IF old \in {Erased, img} THEN img ELSE Garbled

Effect(mem, op) ==
    [p \in Pages |->
        IF p \notin op.pages THEN mem[p]
        ELSE IF op.kind = "program" THEN Programmed(mem[p], op.img)
        ELSE Erased]

\* The operation in progress ends.
Finish(c) ==
    [c EXCEPT
        !.mem = Effect(@, c.op),
        !.prot = @ /\ c.op.kind # "unprotect",
        !.wel = FALSE,
        !.op = NoOp]

\* Power fails: pages being written are left in no known state, and half a
\* status-register write may or may not have removed the protection.
PowerCycle(c) ==
    {[mem |-> [p \in Pages |-> IF p \in c.op.pages THEN Garbled ELSE c.mem[p]],
      op |-> NoOp, wel |-> FALSE, prot |-> protected, frame |-> NoFrame]
        : protected \in IF c.op.kind = "unprotect" THEN {c.prot, FALSE}
                        ELSE {c.prot}}
=============================================================================
