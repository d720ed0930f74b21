----------------------------- MODULE DiskWrite ------------------------------
(***************************************************************************)
(* -w: FDS_writeDisk sends one side after the other to the adapter's SRAM  *)
(* and tells the adapter to write it to the disk.  Nothing tells the       *)
(* program when the adapter has done so; the user does, by pressing ENTER  *)
(* or by starting the next run.                                            *)
(*                                                                         *)
(* A cell is what one report carries.  The image of a side is its cells,   *)
(* and zeros up to the end of the SRAM.                                    *)
(***************************************************************************)
EXTENDS Naturals, Sequences

CONSTANTS
    Cells,      \* cells of the SRAM
    Sides,      \* disk sides that fds_to_bin can convert
    Bad,        \* one it cannot
    Zero, Old,  \* what a cell can hold besides a side's bytes
    Length,     \* cells of each side's image
    Games,      \* files: sequences of sides
    Waits       \* where the user waits for the drive: at "enter", before a "run"

Cell == 0 .. Cells - 1
Content == Sides \cup {Zero, Old}

ASSUME WriteAssumption ==
    /\ Cells \in Nat \ {0}
    /\ Length \in [Sides -> 1 .. Cells]
    /\ Bad \notin Sides
    /\ Games \subseteq Seq(Sides \cup {Bad})
    /\ \A g \in Games : g # <<>>
    /\ Waits \subseteq {"enter", "run"}

VARIABLES
    pc,         \* where FDS_writeDisk is; "idle" between two runs
    game,       \* the file of this run, or of the last one
    side,       \* the side at hand
    pos,        \* the next cell to send
    exit,       \* what the program said last
    sram,       \* the adapter's SRAM
    head,       \* the next cell the adapter writes; Cells when it is done
    disk,       \* the disk in the drive
    intact,     \* (history) every report of this side's image was carried out
    target      \* (history) the side this disk is to hold, if its image was sent

host == <<pc, game, side, pos, exit, intact>>
adapter == <<sram, head, disk, target>>
vars == <<host, adapter>>

Writing == head < Cells
ImageOf(s) == [k \in Cell |-> IF k < Length[s] THEN s ELSE Zero]

\* nothing the host sent in full
Nothing == Bad

Init ==
    /\ pc = "idle"
    /\ game \in Games
    /\ side = 1 /\ pos = 0
    /\ exit = "none"
    /\ sram = [k \in Cell |-> Old]
    /\ head = Cells
    /\ disk = [k \in Cell |-> Old]
    /\ intact = FALSE /\ target = Nothing

-----------------------------------------------------------------------------
(* FDS_writeDisk *)

\* (mutant) the SRAM is not cleared for each side
Uncleared == "fill"
FirstPart == "clear"

\* the loop's next turn
BeginSide(s) ==
    /\ side' = s
    /\ pc' = FirstPart
    /\ pos' = 0
    /\ intact' = TRUE

\* every way out of the loop returns true
Exit ==
    /\ pc' = "idle"
    /\ exit' = "ok"
    /\ UNCHANGED <<game, side, pos, intact>>

Start ==
    /\ pc = "idle"
    /\ "run" \in Waits => ~Writing
    /\ game' \in Games
    /\ exit' = "none"
    /\ BeginSide(1)
    /\ UNCHANGED adapter

\* (mutant) one cell more than there is to send
TooFar(n) == pos = n
LastCell(n) == pos + 1 = n

\* A report of spi_writeSram.  When one fails, carried out or not, the others are
\* not sent; the caller goes on all the same.
Send(value, size, next) ==
    \/ /\ sram' = [sram EXCEPT ![pos] = value]
       /\ IF LastCell(size) THEN pc' = next /\ pos' = 0
          ELSE pc' = pc /\ pos' = pos + 1
       /\ UNCHANGED <<game, side, exit, intact, head, disk, target>>
    \/ /\ sram' \in {sram, [sram EXCEPT ![pos] = value]}
       /\ pc' = next /\ pos' = 0
       /\ intact' = FALSE
       /\ UNCHANGED <<game, side, exit, head, disk, target>>

Clear == pc = "clear" /\ Send(Zero, Cells, "fill")

\* fds_to_bin returns 0
RejectSide ==
    /\ pc = "fill" /\ game[side] = Bad
    /\ Exit
    /\ UNCHANGED adapter

Fill ==
    /\ pc = "fill" /\ game[side] # Bad
    /\ Send(game[side], Length[game[side]], "start")

\* the adapter puts its head at the beginning of the disk
StartWriting ==
    /\ head' = 0
    /\ target' = IF intact THEN game[side] ELSE Nothing
    /\ UNCHANGED <<sram, disk>>

\* dev_writeStart, and the prompt if there is another side
WriteStart ==
    /\ pc = "start"
    /\ StartWriting
    /\ IF side < Len(game)
       THEN pc' = "prompt" /\ UNCHANGED <<game, side, pos, exit, intact>>
       ELSE Exit

\* its report failed, carried out or not
StartFails ==
    /\ pc = "start"
    /\ StartWriting \/ UNCHANGED adapter
    /\ Exit

PressEnter ==
    /\ pc = "prompt"
    /\ "enter" \in Waits => ~Writing
    /\ BeginSide(side + 1)
    /\ UNCHANGED <<game, exit, adapter>>

OtherKey ==
    /\ pc = "prompt"
    /\ Exit
    /\ UNCHANGED adapter

-----------------------------------------------------------------------------
(* what the program does not control *)

Kill ==
    /\ pc # "idle"
    /\ pc' = "idle"
    /\ UNCHANGED <<game, side, pos, exit, intact, adapter>>

WriteCell ==
    /\ Writing
    /\ disk' = [disk EXCEPT ![head] = sram[head]]
    /\ head' = head + 1
    /\ UNCHANGED <<host, sram, target>>

Next ==
    \/ Start \/ Clear \/ RejectSide \/ Fill \/ WriteStart \/ StartFails
    \/ PressEnter \/ OtherKey \/ Kill \/ WriteCell

Spec == Init /\ [][Next]_vars

-----------------------------------------------------------------------------
\* The variables have the values the code can give them.
TypeOK ==
    /\ pc \in {"idle", "clear", "fill", "start", "prompt"}
    /\ game \in Games
    /\ side \in 1 .. Len(game)
    /\ pos \in Cell
    /\ exit \in {"none", "ok"}
    /\ sram \in [Cell -> Content]
    /\ head \in 0 .. Cells
    /\ disk \in [Cell -> Content]
    /\ intact \in BOOLEAN
    /\ target \in Sides \cup {Nothing}

(***************************************************************************)
(* A disk the adapter has written from a side's complete image holds that  *)
(* side and nothing of the one before it, whichever runs were interrupted  *)
(* or had reports fail before, if the user always waits for the drive.     *)
(***************************************************************************)
DiskHoldsSide ==
    Waits = {"enter", "run"} /\ ~Writing /\ target # Nothing =>
        disk = ImageOf(target)
=============================================================================
