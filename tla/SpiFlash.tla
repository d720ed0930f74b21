------------------------------- MODULE SpiFlash -------------------------------
(***************************************************************************)
(* The commands of main.cpp that change the flash: -f and -L               *)
(* (FDS_writeFlash), -W (spi_writeFile), -U (FW_writeFlash) and -e         *)
(* (spi_erasePage).  A command is one run of the program: it opens the     *)
(* device, makes its calls of spi.cpp one USB report at a time, and exits. *)
(*                                                                         *)
(* The chip works on its own, any report may fail (delivered or not), the  *)
(* user may interrupt the program between two reports or pull the stick,   *)
(* and the next run meets the chip as the last one left it.                *)
(*                                                                         *)
(* Addresses are whole pages here; a page's bytes are one value.           *)
(***************************************************************************)
EXTENDS FlashChip, Sequences, FiniteSets

CONSTANTS
    HalfPages,      \* pages blockErase32 erases (32K)
    Commands        \* the runs of the program that are considered

\* pages blockErase erases, which is also a disk slot (64K, SLOTSIZE)
BlockPages == 2 * HalfPages

(***************************************************************************)
(* A command: its kind, the page it starts at and, for each of its calls,  *)
(* the pages to write.  -e makes its calls with nothing to write; a side   *)
(* of -f that fds_to_bin cannot convert is the empty sequence.             *)
(***************************************************************************)
Kinds == {"flash", "file", "firmware", "erase", "eraseall"}

ASSUME HostAssumption ==
    /\ HalfPages \in Nat \ {0}
    /\ NPages % BlockPages = 0
    /\ Commands \subseteq [kind : Kinds, page : Pages, data : Seq(Seq(Images))]
    /\ Commands # {}

Erases(c) == c.kind \in {"erase", "eraseall"}
Skipped(c, s) == c.kind = "flash" /\ c.data[s] = <<>>
Calls(c) == {s \in DOMAIN c.data : ~Skipped(c, s)}

\* addr+wrote in spi_writeFlash; the chip ignores address bits it has no use for
PageAt(c, s, k) == (c.page + (s - 1) * BlockPages + k) % NPages

\* what the erase command of call s erases: the unit its address falls in
UnitPages(c) == IF c.kind = "firmware" THEN HalfPages ELSE BlockPages
EraseUnit(c, s) ==
    LET addr == c.page + (s - 1) * BlockPages
        first == addr - (addr % UnitPages(c))
    IN  {(first + k) % NPages : k \in 0 .. UnitPages(c) - 1}

PagesOf(c, s) == {PageAt(c, s, k) : k \in 0 .. Len(c.data[s]) - 1}

\* every page a command may have reason to change
Footprint(c) ==
    UNION {EraseUnit(c, s) \cup PagesOf(c, s) : s \in Calls(c)}

-----------------------------------------------------------------------------
VARIABLES
    chip,       \* the flash chip
    pc,         \* where the program is; "idle" between two runs
    cmd,        \* the command of this run, or of the last one
    side,       \* the call being made, 1 .. Len(cmd.data) + 1
    stage,      \* what the call is at: unprotect, erase, program; reboot
                \* once the firmware update has been asked for
    wrote,      \* pages of the call already programmed
    sent,       \* reports of the operation's frame already sent
    clean,      \* every call so far has succeeded
    exit,       \* what the program said last: "ok" is exit code 0
    linked      \* the HID handle works

vars == <<chip, pc, cmd, side, stage, wrote, sent, clean, exit, linked>>

Working == {"next", "wren", "send", "status", "poll", "release", "timeout"}
Stages == {"unprotect", "erase", "program", "reboot"}

Init ==
    /\ \E content \in Content, protected \in BOOLEAN :
        chip = [mem |-> [p \in Pages |-> content], op |-> NoOp, wel |-> FALSE,
                prot |-> protected, frame |-> NoFrame]
    /\ pc = "idle"
    /\ cmd \in Commands
    /\ side = 1 /\ stage = "erase" /\ wrote = 0 /\ sent = 0
    /\ clean = FALSE
    /\ exit = "none"
    /\ linked = FALSE

-----------------------------------------------------------------------------
(* ends of a run and of a call *)

\* the process ends, and its variables with it
Exit(result) ==
    /\ pc' = "idle"
    /\ exit' = result
    /\ linked' = FALSE
    /\ side' = 1 /\ stage' = "erase" /\ wrote' = 0 /\ sent' = 0
    /\ UNCHANGED <<cmd, clean>>

\* a call of spi.cpp returns
CallEnds(ok) ==
    /\ pc' = "next"
    /\ side' = side + 1
    /\ stage' = "erase" /\ wrote' = 0 /\ sent' = 0
    /\ clean' = (clean /\ ok)
    /\ UNCHANGED <<cmd, exit, linked>>

\* nothing but pc changes
GoTo(label) ==
    /\ pc' = label
    /\ UNCHANGED <<cmd, side, stage, wrote, sent, clean, exit, linked>>

-----------------------------------------------------------------------------
(* reports *)

CurrentOp ==
    IF stage = "program"
    THEN [kind |-> stage, pages |-> {PageAt(cmd, side, wrote)},
          img |-> cmd.data[side][wrote + 1]]
    ELSE [kind |-> stage,
          pages |-> IF stage = "erase" THEN EraseUnit(cmd, side) ELSE {},
          img |-> Erased]

\* (mutant) holdCS is dropped one report late
LateLastReport == sent = Reports(CurrentOp)
\* the report that lets chip select go
LastReport == sent + 1 = Reports(CurrentOp)

\* The first report of an operation has initCS set.
SentPart == IF sent = 0 THEN Select(chip, WriteOf(CurrentOp)) ELSE Shift(chip)

\* the chip once the report the program is about to make has been carried out
AfterReport ==
    CASE pc = "readid" -> Select(chip, Command("id"))
      [] pc = "wren" -> Deselect(Select(chip, Command("wren")))
      [] pc = "send" -> IF LastReport THEN Deselect(SentPart) ELSE SentPart
      [] pc = "status" -> Select(chip, Command("status"))
      [] pc = "poll" -> chip
      [] OTHER -> Deselect(chip)

Reported == linked /\ chip' = AfterReport

Opening == {"readid", "gotid"}
Reporting == {"wren", "send", "status", "poll", "release", "timeout"}

\* hid_send_feature_report and hid_get_feature_report return an error both when
\* the report was lost and when only its answer was.  The call gives up.
ReportFails ==
    /\ chip' = chip \/ Reported
    /\ \/ pc \in Opening /\ Exit("failed")
       \/ pc \in Reporting /\ CallEnds(FALSE)

-----------------------------------------------------------------------------
(* dev_open *)

Start ==
    /\ pc = "idle"
    /\ cmd' \in Commands
    /\ pc' = "open"
    /\ clean' = TRUE
    /\ exit' = "none"
    /\ UNCHANGED <<chip, side, stage, wrote, sent, linked>>

OpenHandle ==
    /\ pc = "open"
    /\ pc' = "readid"
    /\ linked' = TRUE
    /\ UNCHANGED <<chip, cmd, side, stage, wrote, sent, clean, exit>>

NoDevice ==
    /\ pc = "open"
    /\ Exit("failed")
    /\ UNCHANGED chip

ReadId == pc = "readid" /\ Reported /\ GoTo("gotid")

\* (mutant) dev_open does not look at the ID
AnyAnswer == TRUE
\* A chip that ignored the command returns no known ID: dev_flashSize is 0.
Identified == chip.frame.cmd = "id"

GotId ==
    /\ pc = "gotid" /\ Reported
    /\ IF Identified THEN GoTo("next") ELSE Exit("failed")

-----------------------------------------------------------------------------
(* the loops over sides and slots, and what main makes of their results *)

\* "cannot erase the loader"
RefusedSlot == cmd.kind = "erase" /\ cmd.page < BlockPages

\* that, or a file that cannot be read
Refuse ==
    /\ pc = "next" /\ side = 1
    /\ RefusedSlot \/ ~Erases(cmd)
    /\ Exit("failed")
    /\ UNCHANGED chip

SkipSide ==
    /\ pc = "next" /\ side <= Len(cmd.data)
    /\ Skipped(cmd, side)
    /\ side' = side + 1
    /\ UNCHANGED <<chip, pc, cmd, stage, wrote, sent, clean, exit, linked>>

\* (mutant) the check of unWriteProtect, taken for the command itself
NoUnprotect == "erase"
FirstStage == IF Erases(cmd) THEN "unprotect" ELSE "erase"

BeginCall ==
    /\ pc = "next" /\ side <= Len(cmd.data)
    /\ ~Skipped(cmd, side) /\ ~RefusedSlot
    /\ pc' = "wren"
    /\ stage' = FirstStage
    /\ UNCHANGED <<chip, cmd, side, wrote, sent, clean, exit, linked>>

\* FW_writeFlash has its image in the flash and has not asked for the update
Staged == cmd.kind = "firmware" /\ clean /\ stage # "reboot"

\* The adapter installs the image and resets; whether the report arrives is not
\* looked at.  After a fixed sleep the program opens the device again.
UpdateFirmware ==
    /\ pc = "next" /\ side > Len(cmd.data)
    /\ Staged
    /\ pc' = "open"
    /\ stage' = "reboot"
    /\ linked' = FALSE
    /\ UNCHANGED <<chip, cmd, side, wrote, sent, clean, exit>>

\* FDS_writeFlash returns true whatever its calls returned
Finished ==
    /\ pc = "next" /\ side > Len(cmd.data)
    /\ ~Staged
    /\ Exit(IF cmd.kind = "flash" \/ clean THEN "ok" ELSE "failed")
    /\ UNCHANGED chip

-----------------------------------------------------------------------------
(* one operation: writeEnable, its frame, writeWait *)

WriteEnable == pc = "wren" /\ Reported /\ GoTo("send")

SendReport ==
    /\ pc = "send" /\ Reported
    /\ IF LastReport THEN pc' = "status" /\ sent' = 0
       ELSE pc' = pc /\ sent' = sent + 1
    /\ UNCHANGED <<cmd, side, stage, wrote, clean, exit, linked>>

ReadStatus == pc = "status" /\ Reported /\ GoTo("poll")

\* (mutants) writeWait returns true when its time is up; it has no time limit
NeverTimesOut == "release"
WaitsForever == IF Busy(chip) THEN pc ELSE "release"
\* The last turn of writeWait's loop: WIP is clear, or the time is up.  The
\* turns before it read the same busy chip again and change nothing.
AfterPoll == IF Busy(chip) THEN "timeout" ELSE "release"
Poll == pc = "poll" /\ Reported /\ GoTo(AfterPoll)

\* the operation succeeded: go on with the call
NextOperation ==
    \/ /\ stage = "unprotect"
       /\ stage' = "erase" /\ pc' = "wren"
       /\ UNCHANGED <<cmd, side, wrote, sent, clean, exit, linked>>
    \/ /\ stage = "erase" /\ cmd.data[side] # <<>>
       /\ stage' = "program" /\ pc' = "wren"
       /\ UNCHANGED <<cmd, side, wrote, sent, clean, exit, linked>>
    \/ /\ stage = "erase" /\ cmd.data[side] = <<>>
       /\ CallEnds(TRUE)
    \/ /\ stage = "program" /\ wrote + 1 < Len(cmd.data[side])
       /\ wrote' = wrote + 1 /\ pc' = "wren"
       /\ UNCHANGED <<cmd, side, stage, sent, clean, exit, linked>>
    \/ /\ stage = "program" /\ wrote + 1 = Len(cmd.data[side])
       /\ CallEnds(TRUE)

Release == pc = "release" /\ Reported /\ NextOperation

TimedOut == pc = "timeout" /\ Reported /\ CallEnds(FALSE)

-----------------------------------------------------------------------------
(* what the program does not control *)

\* an interrupt from the keyboard
Kill ==
    /\ pc # "idle"
    /\ Exit("none")
    /\ UNCHANGED chip

\* The stick is pulled (and may be back before the next run).
Unplug ==
    /\ chip' \in PowerCycle(chip)
    /\ linked' = FALSE
    /\ UNCHANGED <<pc, cmd, side, stage, wrote, sent, clean, exit>>

OperationEnds ==
    /\ Busy(chip)
    /\ chip' = Finish(chip)
    /\ UNCHANGED <<pc, cmd, side, stage, wrote, sent, clean, exit, linked>>

-----------------------------------------------------------------------------
\* the steps of a run of the program when its reports are carried out
Proceed ==
    \/ OpenHandle \/ NoDevice \/ ReadId \/ GotId
    \/ Refuse \/ SkipSide \/ BeginCall \/ UpdateFirmware \/ Finished
    \/ WriteEnable \/ SendReport \/ ReadStatus \/ Poll \/ Release \/ TimedOut

Next == Start \/ Proceed \/ ReportFails \/ Kill \/ Unplug \/ OperationEnds

Spec == Init /\ [][Next]_vars

(***************************************************************************)
(* The operating system schedules the program, every USB request ends (if  *)
(* only with its timeout) and writeWait gives up by the clock: a program   *)
(* that can go on does, and on a dead handle what goes on is the failure.  *)
(* No report has to fail for a run to end, and nothing is assumed of the   *)
(* chip or of the user.                                                    *)
(***************************************************************************)
FairSpec == Spec /\ WF_vars(Proceed \/ (~linked /\ ReportFails))

-----------------------------------------------------------------------------
\* The variables have the values the code can give them.
TypeOK ==
    /\ chip \in Chip
    /\ pc \in {"idle", "open", "readid", "gotid"} \cup Working
    /\ cmd \in Commands
    /\ side \in 1 .. Len(cmd.data) + 1
    /\ stage \in Stages
    /\ wrote \in Nat
    /\ sent \in 0 .. Chunks - 1
    /\ clean \in BOOLEAN
    /\ exit \in {"none", "ok", "failed"}
    /\ linked \in BOOLEAN

\* A command a slot-sized erase serves: every call writes pages of the unit it
\* erased, each once, and no two calls share a unit.
Fits(c) ==
    /\ \A s \in Calls(c) :
        /\ PagesOf(c, s) \subseteq EraseUnit(c, s)
        /\ \A j, k \in 0 .. Len(c.data[s]) - 1 :
            PageAt(c, s, j) = PageAt(c, s, k) => j = k
    /\ \A s, t \in Calls(c) :
        s # t => EraseUnit(c, s) \cap EraseUnit(c, t) = {}

\* what the flash must hold once call s has done its work
Asked(c, s) ==
    {<<PageAt(c, s, k - 1), c.data[s][k]>> : k \in 1 .. Len(c.data[s])}
    \cup (EraseUnit(c, s) \ PagesOf(c, s)) \X {Erased}
CallDone(c, s) == \A w \in Asked(c, s) : chip.mem[w[1]] = w[2]

\* The array accepts what the command asks of it: -e removes the protection
\* itself, the writing commands rely on it being off.
Writable == Erases(cmd) \/ ~chip.prot

(***************************************************************************)
(* When the program says Ok and none of its calls failed, every call's     *)
(* unit holds exactly what was asked, and nothing is still running in the  *)
(* chip that could change it: not an operation a killed or failed earlier  *)
(* run left behind, not a frame that waits for chip select to go high.     *)
(***************************************************************************)
OkIsTrue ==
    exit = "ok" /\ clean /\ Writable /\ Fits(cmd) =>
        /\ ~Busy(chip) /\ chip.frame.cmd = "none"
        /\ \A s \in Calls(cmd) : CallDone(cmd, s)

(***************************************************************************)
(* Until a call has failed, every operation the program is about to start  *)
(* finds a chip that listens and, from its own writeEnable on, accepts     *)
(* writes: writeWait and the ID check of dev_open are the only things that *)
(* keep the chip's work and the program's commands apart.                  *)
(***************************************************************************)
Heard ==
    clean /\ linked =>
        /\ pc \in {"wren", "send"} /\ sent = 0 => ~Busy(Deselect(chip))
        /\ pc = "send" => chip.wel

(***************************************************************************)
(* Once dev_open has succeeded only the run's own pages change.  What an   *)
(* interrupted run left in the chip or in an open frame is over before     *)
(* that: the device does not open while it goes on.                        *)
(***************************************************************************)
OnlyOwnPages ==
    [][\A p \in Pages :
        pc \in Working /\ chip'.mem[p] # chip.mem[p] => p \in Footprint(cmd)]_vars

(***************************************************************************)
(* SpiFlash implements FlashStore.  A run claims its footprint when the    *)
(* device has opened; until then, and once it has ended, what may change   *)
(* is what the chip is doing or has pending.                               *)
(***************************************************************************)
Pending == chip.op.pages \cup chip.frame.op.pages
Loose == IF pc \in Working THEN Footprint(cmd) ELSE Pending

Request(c) ==
    [foot |-> Footprint(c),
     want |-> IF Fits(c) THEN UNION {Asked(c, s) : s \in Calls(c)} ELSE {}]

Confirmed ==
    IF exit = "ok" /\ clean /\ Writable /\ Fits(cmd) THEN {Request(cmd)} ELSE {}

Store == INSTANCE FlashStore WITH
    Locations <- Pages, Values <- Content,
    Requests <- {Request(c) : c \in Commands},
    store <- chip.mem, loose <- Loose, confirmed <- Confirmed

\* Every behaviour of the flash commands is one of the abstract store: claims
\* never overlap, foreign pages keep, and what "Ok." confirmed is in the array.
ImplementsStore == Store!StoreSpec

(***************************************************************************)
(* Every run ends, however long the chip stays busy and whichever reports  *)
(* fail: no loop of spi.cpp waits for the chip without a limit.            *)
(***************************************************************************)
RunsEnd == pc # "idle" ~> pc = "idle"
=============================================================================
