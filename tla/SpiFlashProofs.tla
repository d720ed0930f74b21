---------------------------- MODULE SpiFlashProofs ----------------------------
(***************************************************************************)
(* Theorems about SpiFlash for every chip size, block size, frame length   *)
(* and set of commands, and the inductive invariant they follow from.      *)
(***************************************************************************)
EXTENDS SpiFlash, FlashStore, TLAPS

-----------------------------------------------------------------------------
(***************************************************************************)
(* Why OkIsTrue, Heard and OnlyOwnPages hold: the parts of an inductive    *)
(* invariant.                                                              *)
(***************************************************************************)

\* where each value of pc leaves the counters
Position ==
    /\ stage = "reboot" => pc \in {"open", "readid", "gotid", "next"}
    /\ pc \notin Working /\ stage # "reboot" => side = 1
    /\ pc # "send" => sent = 0
    /\ pc \notin Reporting => wrote = 0
    /\ pc \in Reporting =>
        /\ side \in Calls(cmd)
        /\ stage = "unprotect" => Erases(cmd)
        /\ stage = "program" => wrote + 1 \in DOMAIN cmd.data[side]
        /\ stage # "program" => wrote = 0
    /\ pc = "send" => /\ sent < Reports(CurrentOp)
                      /\ chip.frame.got <= sent

TypeInv == TypeOK /\ Position

\* A chip at rest has no operation, only a write frame carries one, and a frame
\* other than a status read is only taken by a chip at rest.
Sound(c) ==
    /\ ~Busy(c) => c.op = NoOp
    /\ c.frame.cmd # "write" => c.frame.op = NoOp
    /\ c.frame.cmd = "write" => c.frame.op.kind # "none"
    /\ c.frame.cmd \in {"id", "wren", "write"} => ~Busy(c)
ChipOK == Sound(chip)

\* what is running or waiting in the chip belongs to the run that has it open
Own == pc \in Working => Pending \subseteq Footprint(cmd)

AtRest == chip.op = NoOp /\ chip.frame = NoFrame

\* Pulling the stick leaves nothing running and nothing half sent.
Pulled == ~linked /\ pc \in Working \cup Opening => AtRest

\* While the program waits for the adapter to install its image.
Rebooting ==
    stage = "reboot" =>
        /\ cmd.kind = "firmware" /\ clean /\ side > Len(cmd.data)
        /\ chip.op = NoOp
        /\ chip.frame = NoFrame \/ (pc = "gotid" /\ chip.frame = Command("id"))

\* A run that ended well left the chip at rest.
Over ==
    /\ exit = "ok" => pc = "idle"
    /\ exit = "ok" /\ clean => AtRest

\* While no call has failed the chip and the program are in step.
InStep ==
    clean /\ linked /\ pc \in Working =>
        /\ pc \in {"next", "wren"} => AtRest
        /\ pc = "send" =>
            /\ chip.op = NoOp /\ chip.wel
            /\ chip.frame = IF sent = 0 THEN NoFrame
                            ELSE [WriteOf(CurrentOp) EXCEPT !.got = sent]
        /\ pc = "status" => chip.frame = NoFrame
        /\ pc \in {"poll", "release", "timeout"} => chip.frame = Command("status")
        /\ pc \in {"status", "poll", "timeout"} => chip.op \in {NoOp, CurrentOp}
        /\ pc = "release" => chip.op = NoOp

\* The unit of call s holds the first n pages of the call and is erased beyond.
Holding(mem, c, s, n) ==
    /\ \A k \in 1 .. n : mem[PageAt(c, s, k - 1)] = c.data[s][k]
    /\ \A p \in EraseUnit(c, s) :
        (\A k \in 1 .. n : p # PageAt(c, s, k - 1)) => mem[p] = Erased

\* the operation of this stage is still to be carried out
Before == pc \in {"wren", "send"} \/ Busy(chip)
Programs == IF Before THEN wrote ELSE wrote + 1
CallProgress ==
    clean /\ linked /\ pc \in Reporting \ {"timeout"} /\ Writable /\ Fits(cmd) =>
        /\ stage = "unprotect" /\ ~Before => ~chip.prot
        /\ stage \in {"erase", "program"} => ~chip.prot
        /\ stage = "erase" /\ ~Before => Holding(chip.mem, cmd, side, 0)
        /\ stage = "program" => Holding(chip.mem, cmd, side, Programs)

CallsDone ==
    clean /\ (pc \in Working \/ stage = "reboot") /\ Writable /\ Fits(cmd) =>
        \A s \in Calls(cmd) : s < side => CallDone(cmd, s)

Inv == /\ TypeInv /\ ChipOK /\ Own /\ Pulled /\ Rebooting /\ Over
       /\ InStep /\ CallProgress /\ CallsDone /\ OkIsTrue

-----------------------------------------------------------------------------
(* the chip's operators return chips *)

LEMMA NoFrameType == NoOp \in Op /\ NoFrame \in Frame
BY ChipAssumption DEF NoOp, Op, NoFrame, Frame, Command, Content

LEMMA BegunType ==
    ASSUME NEW f \in Frame
    PROVE  Begun(f) \in Op
BY DEF Begun, Frame, Op, Content

LEMMA DeselectFields ==
    ASSUME NEW c \in Chip
    PROVE  /\ Deselect(c).mem = c.mem
           /\ Deselect(c).prot = c.prot
           /\ Deselect(c).frame = NoFrame
           /\ Deselect(c).wel = (c.wel \/ c.frame.cmd = "wren")
           /\ Deselect(c).op = IF c.frame.cmd = "write" /\ Accepts(c, c.frame.op)
                               THEN Begun(c.frame) ELSE c.op
BY DEF Deselect, Chip

LEMMA DeselectType ==
    ASSUME NEW c \in Chip
    PROVE  Deselect(c) \in Chip
<1>1. Begun(c.frame) \in Op
  BY BegunType DEF Chip
<1>2. (c.wel \/ c.frame.cmd = "wren") \in BOOLEAN
  OBVIOUS
<1>3. QED
  BY <1>1, <1>2, NoFrameType DEF Deselect, Chip

LEMMA SelectType ==
    ASSUME NEW c \in Chip, NEW f \in Frame
    PROVE  Select(c, f) \in Chip
<1>1. Command("ignored") \in Frame
  BY ChipAssumption, NoFrameType DEF Command, Frame
<1>2. QED
  BY <1>1, DeselectType DEF Select, Chip

LEMMA ShiftType ==
    ASSUME NEW c \in Chip, c.frame.got < Chunks
    PROVE  Shift(c) \in Chip
BY ChipAssumption DEF Shift, Chip, Frame

LEMMA FinishType ==
    ASSUME NEW c \in Chip
    PROVE  Finish(c) \in Chip
<1>1. Effect(c.mem, c.op) \in [Pages -> Content]
  BY DEF Effect, Programmed, Chip, Op, Content
<1>2. QED
  BY <1>1, NoFrameType DEF Finish, Chip

LEMMA PowerCycleFields ==
    ASSUME NEW c \in Chip, NEW d \in PowerCycle(c)
    PROVE  /\ d \in Chip
           /\ d.mem = [p \in Pages |-> IF p \in c.op.pages THEN Garbled ELSE c.mem[p]]
           /\ d.op = NoOp /\ d.frame = NoFrame
           /\ d.prot # c.prot => c.op.kind = "unprotect" /\ d.prot = FALSE
<1> DEFINE torn == [p \in Pages |-> IF p \in c.op.pages THEN Garbled ELSE c.mem[p]]
<1>1. PICK protected \in IF c.op.kind = "unprotect" THEN {c.prot, FALSE} ELSE {c.prot} :
        d = [mem |-> torn, op |-> NoOp, wel |-> FALSE, prot |-> protected,
             frame |-> NoFrame]
  BY DEF PowerCycle
<1>2. torn \in [Pages -> Content]
  BY DEF Chip, Content
<1>3. protected \in BOOLEAN
  BY DEF Chip
<1> HIDE DEF torn
<1>4. d \in Chip
  BY <1>1, <1>2, <1>3, NoFrameType DEF Chip
<1>5. d.mem = torn /\ d.op = NoOp /\ d.frame = NoFrame /\ d.prot = protected
  BY <1>1
<1>6. QED
  BY <1>1, <1>4, <1>5 DEF torn

(* addresses *)

LEMMA CmdType ==
    ASSUME NEW c \in Commands
    PROVE  /\ c.page \in Pages
           /\ c.data \in Seq(Seq(Images))
           /\ Len(c.data) \in Nat
           /\ DOMAIN c.data = 1 .. Len(c.data)
           /\ \A s \in DOMAIN c.data :
                /\ c.data[s] \in Seq(Images)
                /\ Len(c.data[s]) \in Nat
                /\ DOMAIN c.data[s] = 1 .. Len(c.data[s])
                /\ \A k \in 1 .. Len(c.data[s]) : c.data[s][k] \in Images
BY HostAssumption

LEMMA Wraps ==
    ASSUME NEW n \in Int
    PROVE  n % NPages \in Pages
BY ChipAssumption DEF Pages

LEMMA AddrType ==
    ASSUME NEW c \in Commands, NEW s \in DOMAIN c.data
    PROVE  c.page + (s - 1) * BlockPages \in Int
<1>1. c.page \in Int /\ s - 1 \in Int
  BY CmdType DEF Pages
<1>2. BlockPages \in Int
  BY HostAssumption DEF BlockPages
<1>3. (s - 1) * BlockPages \in Int
  BY <1>1, <1>2
<1>4. QED
  BY <1>1, <1>3

LEMMA PageAtType ==
    ASSUME NEW c \in Commands, NEW s \in DOMAIN c.data, NEW k \in Int
    PROVE  PageAt(c, s, k) \in Pages
BY Wraps, AddrType DEF PageAt

LEMMA EraseUnitType ==
    ASSUME NEW c \in Commands, NEW s \in DOMAIN c.data
    PROVE  EraseUnit(c, s) \subseteq Pages
<1> DEFINE addr == c.page + (s - 1) * BlockPages
           first == addr - (addr % UnitPages(c))
<1>1. addr \in Int
  BY AddrType
<1>2. UnitPages(c) \in Nat \ {0}
  BY HostAssumption DEF UnitPages, BlockPages
<1>3. addr % UnitPages(c) \in Int
  BY <1>1, <1>2
<1>4. first \in Int
  BY <1>1, <1>3
<1>5. \A k \in 0 .. UnitPages(c) - 1 : (first + k) % NPages \in Pages
  BY <1>2, <1>4, Wraps
<1>6. QED
  BY <1>5 DEF EraseUnit

-----------------------------------------------------------------------------
(* type correctness *)

LEMMA CurrentOpType ==
    ASSUME TypeInv, pc \in Reporting
    PROVE  /\ CurrentOp \in Op
           /\ CurrentOp.kind = stage
           /\ stage \in {"unprotect", "erase", "program"}
<1>1. side \in DOMAIN cmd.data /\ cmd \in Commands
  BY DEF TypeInv, TypeOK, Position, Calls
<1>2. stage \in {"unprotect", "erase", "program"}
  BY DEF TypeInv, TypeOK, Position, Reporting, Stages
<1>3. CASE stage = "program"
  <2>1. wrote + 1 \in DOMAIN cmd.data[side] /\ wrote \in Int
    BY <1>3 DEF TypeInv, TypeOK, Position
  <2>2. cmd.data[side][wrote + 1] \in Images
    BY <2>1, <1>1, CmdType
  <2>3. PageAt(cmd, side, wrote) \in Pages
    BY <2>1, <1>1, PageAtType
  <2>4. QED
    BY <1>3, <2>2, <2>3 DEF CurrentOp, Op, Content
<1>4. CASE stage = "erase"
  BY <1>4, <1>1, EraseUnitType DEF CurrentOp, Op, Content
<1>5. CASE stage = "unprotect"
  BY <1>5 DEF CurrentOp, Op, Content
<1>6. QED
  BY <1>2, <1>3, <1>4, <1>5

LEMMA ReportsType ==
    ASSUME NEW op \in Op
    PROVE  Reports(op) \in 1 .. Chunks
BY ChipAssumption DEF Reports

LEMMA FramesType ==
    /\ \A c \in {"none", "ignored", "status", "id", "wren"} : Command(c) \in Frame
    /\ \A op \in Op : WriteOf(op) \in Frame
BY ChipAssumption, NoFrameType DEF Command, WriteOf, Frame

LEMMA SentPartType ==
    ASSUME TypeInv, pc = "send"
    PROVE  /\ SentPart \in Chip
           /\ SentPart.frame.got <= sent + 1
<1>1. CurrentOp \in Op
  BY CurrentOpType DEF Reporting
<1>2. chip \in Chip /\ sent \in Nat /\ sent < Chunks /\ chip.frame.got <= sent
  BY <1>1, ReportsType, ChipAssumption DEF TypeInv, TypeOK, Position
<1>3. CASE sent = 0
  <2>1. SentPart = Select(chip, WriteOf(CurrentOp)) /\ WriteOf(CurrentOp) \in Frame
    BY <1>1, <1>3, FramesType DEF SentPart
  <2>2. Deselect(chip) \in Chip
    BY <1>2, DeselectType
  <2>3. SentPart.frame \in {WriteOf(CurrentOp), Command("ignored")}
    BY <2>1, <2>2 DEF Select, Chip
  <2>4. SentPart.frame.got <= sent + 1
    BY <1>3, <2>3 DEF WriteOf, Command
  <2>5. QED
    BY <1>2, <2>1, <2>4, SelectType
<1>4. CASE sent # 0
  <2>1. SentPart = Shift(chip)
    BY <1>4 DEF SentPart
  <2>2. chip.frame.got \in Nat
    BY <1>2 DEF Chip, Frame
  <2>3. SentPart.frame.got <= sent + 1
    BY <1>2, <2>1, <2>2 DEF Shift, Chip, Frame
  <2>4. chip.frame.got < Chunks
    BY <1>2, <2>2, ChipAssumption
  <2>5. QED
    BY <1>2, <2>1, <2>3, <2>4, ShiftType
<1>5. QED
  BY <1>3, <1>4

LEMMA AfterReportType ==
    ASSUME TypeInv, pc \in Opening \cup Reporting
    PROVE  AfterReport \in Chip
<1>1. chip \in Chip
  BY DEF TypeInv, TypeOK
<1>2. CASE pc = "send"
  BY <1>2, SentPartType, DeselectType DEF AfterReport
<1>3. CASE pc # "send"
  BY <1>1, <1>3, FramesType, SelectType, DeselectType
     DEF AfterReport, Opening, Reporting
<1>4. QED
  BY <1>2, <1>3

LEMMA ExitTyped ==
    ASSUME TypeInv, NEW r \in {"none", "ok", "failed"}, Exit(r), chip' \in Chip
    PROVE  TypeInv'
<1>1. cmd \in Commands /\ Len(cmd.data) \in Nat
  BY CmdType DEF TypeInv, TypeOK
<1>2. side' \in 1 .. Len(cmd'.data) + 1
  BY <1>1 DEF Exit
<1>3. TypeOK'
  <2>1. clean' \in BOOLEAN /\ linked' \in BOOLEAN
    BY DEF TypeInv, TypeOK, Exit
  <2>2. sent' \in 0 .. Chunks - 1 /\ wrote' \in Nat /\ stage' \in Stages
    BY ChipAssumption DEF Exit, Stages
  <2>3. cmd' \in Commands /\ exit' \in {"none", "ok", "failed"} /\ pc' = "idle"
    BY <1>1 DEF Exit
  <2>4. QED
    BY <1>2, <2>1, <2>2, <2>3 DEF TypeOK
<1>4. Position'
  BY DEF Position, Exit, Working, Reporting
<1>5. QED
  BY <1>3, <1>4 DEF TypeInv

LEMMA CallEndsTyped ==
    ASSUME TypeInv, pc \in Reporting, NEW ok \in BOOLEAN, CallEnds(ok), chip' \in Chip
    PROVE  TypeInv'
<1>1. side \in 1 .. Len(cmd.data) /\ cmd \in Commands /\ Len(cmd.data) \in Nat
  BY CmdType DEF TypeInv, TypeOK, Position, Calls
<1>2. side' \in 1 .. Len(cmd'.data) + 1
  BY <1>1 DEF CallEnds
<1>3. clean' \in BOOLEAN
  BY DEF CallEnds
<1>4. TypeOK'
  BY <1>1, <1>2, <1>3, ChipAssumption DEF TypeInv, TypeOK, CallEnds, Stages, Working
<1>5. Position'
  BY DEF Position, CallEnds, Working, Reporting
<1>6. QED
  BY <1>4, <1>5 DEF TypeInv

LEMMA TypeInit == Init => TypeInv
<1> SUFFICES ASSUME Init PROVE TypeInv
  OBVIOUS
<1>1. chip \in Chip
  BY NoFrameType DEF Init, Chip, Content
<1>2. cmd \in Commands /\ Len(cmd.data) \in Nat
  BY CmdType DEF Init
<1>3. TypeOK
  <2>1. clean \in BOOLEAN /\ linked \in BOOLEAN
    BY DEF Init
  <2>2. sent \in 0 .. Chunks - 1 /\ wrote \in Nat /\ stage \in Stages
    BY ChipAssumption DEF Init, Stages
  <2>3. exit \in {"none", "ok", "failed"} /\ pc = "idle" /\ side = 1
    BY DEF Init
  <2>4. QED
    BY <1>1, <1>2, <2>1, <2>2, <2>3 DEF TypeOK
<1>4. Position
  BY DEF Init, Position, Working, Reporting
<1>5. QED
  BY <1>3, <1>4 DEF TypeInv

\* A report that goes well within an operation keeps the side and the stage.
LEMMA GoToTyped ==
    ASSUME TypeInv, chip' \in Chip,
           NEW label \in {"gotid", "next", "send", "poll", "timeout", "release"},
           GoTo(label),
           label \in {"send", "poll", "timeout", "release"} => pc \in Reporting,
           label \in {"gotid", "next"} => pc \in Opening,
           label = "send" => chip'.frame.got = 0,
           pc # "send"
    PROVE  TypeInv'
<1>1. TypeOK'
  BY DEF TypeInv, TypeOK, GoTo, Working
<1>2. Position'
  <2>1. (label = "send") => (0 < Reports(CurrentOp)')
    <3>1. (label = "send") => (CurrentOp \in Op)
      BY CurrentOpType
    <3>2. (label = "send") => (CurrentOp' = CurrentOp)
      BY DEF GoTo, CurrentOp
    <3>3. QED
      BY <3>1, <3>2, ReportsType, ChipAssumption DEF Reports
  <2>2. QED
    BY <2>1 DEF TypeInv, Position, GoTo, Working, Reporting, Opening
<1>3. QED
  BY <1>1, <1>2 DEF TypeInv

LEMMA NextOperationTyped ==
    ASSUME TypeInv, pc = "release", NextOperation, chip' \in Chip
    PROVE  TypeInv'
<1>1. side \in DOMAIN cmd.data /\ cmd \in Commands /\ wrote \in Nat
  BY DEF TypeInv, TypeOK, Position, Calls, Reporting
<1>2. Len(cmd.data[side]) \in Nat /\ DOMAIN cmd.data[side] = 1 .. Len(cmd.data[side])
  BY <1>1, CmdType
<1>3. CASE CallEnds(TRUE)
  BY <1>3, CallEndsTyped DEF Reporting
<1>4. CASE ~CallEnds(TRUE)
  <2>1. /\ pc' = "wren" /\ UNCHANGED <<cmd, side, sent, clean, exit, linked>>
        /\ \/ stage = "unprotect" /\ stage' = "erase" /\ wrote' = wrote
           \/ /\ stage = "erase" /\ cmd.data[side] # <<>>
              /\ stage' = "program" /\ wrote' = wrote
           \/ /\ stage = "program" /\ wrote + 1 < Len(cmd.data[side])
              /\ stage' = stage /\ wrote' = wrote + 1
    BY <1>4 DEF NextOperation
  <2>2. TypeOK'
    BY <1>1, <2>1 DEF TypeInv, TypeOK, Stages, Working
  <2>3. (cmd.data[side] # <<>>) => (1 \in DOMAIN cmd.data[side])
    BY <1>1, <1>2, CmdType
  <2>4. Position'
    BY <1>1, <1>2, <2>1, <2>3 DEF TypeInv, Position, Working, Reporting
  <2>5. QED
    BY <2>2, <2>4 DEF TypeInv
<1>5. QED
  BY <1>3, <1>4

LEMMA TypeNext == TypeInv /\ [Next]_vars => TypeInv'
<1> SUFFICES ASSUME TypeInv, [Next]_vars PROVE TypeInv'
  OBVIOUS
<1>1. chip \in Chip /\ cmd \in Commands /\ Len(cmd.data) \in Nat /\ side \in Int
  BY CmdType DEF TypeInv, TypeOK
<1>2. CASE Start
  <2>1. cmd' \in Commands /\ Len(cmd'.data) \in Nat /\ side' = 1
    BY <1>2, CmdType DEF Start, TypeInv, Position, Working
  <2>2. TypeOK'
    BY <1>2, <2>1 DEF Start, TypeInv, TypeOK
  <2>3. Position'
    BY <1>2, <2>1 DEF Start, TypeInv, Position, Working, Reporting
  <2>4. QED
    BY <2>2, <2>3 DEF TypeInv
<1>3. CASE OpenHandle
  <2>1. TypeOK'
    BY <1>3 DEF OpenHandle, TypeInv, TypeOK
  <2>2. Position'
    BY <1>3 DEF OpenHandle, TypeInv, Position, Working, Reporting
  <2>3. QED
    BY <2>1, <2>2 DEF TypeInv
<1>4. CASE NoDevice
  BY <1>1, <1>4, ExitTyped DEF NoDevice
<1>5. CASE ReadId
  BY <1>5, AfterReportType, GoToTyped DEF ReadId, Reported, Opening
<1>6. CASE GotId
  BY <1>6, AfterReportType, GoToTyped, ExitTyped DEF GotId, Reported, Opening
<1>7. CASE Refuse
  BY <1>1, <1>7, ExitTyped DEF Refuse
<1>8. CASE SkipSide
  <2>1. TypeOK'
    BY <1>1, <1>8 DEF SkipSide, TypeInv, TypeOK
  <2>2. Position'
    BY <1>8 DEF SkipSide, TypeInv, Position, Working, Reporting
  <2>3. QED
    BY <2>1, <2>2 DEF TypeInv
<1>9. CASE BeginCall
  <2>1. side \in Calls(cmd)
    BY <1>1, <1>9, CmdType DEF BeginCall, Calls, TypeInv, TypeOK
  <2>2. TypeOK'
    BY <1>9 DEF BeginCall, FirstStage, TypeInv, TypeOK, Stages, Working
  <2>3. Position'
    BY <1>9, <2>1
       DEF BeginCall, FirstStage, TypeInv, Position, Working, Reporting, Erases
  <2>4. QED
    BY <2>2, <2>3 DEF TypeInv
<1>10. CASE UpdateFirmware
  <2>1. TypeOK'
    BY <1>10 DEF UpdateFirmware, TypeInv, TypeOK, Stages
  <2>2. Position'
    BY <1>10 DEF UpdateFirmware, TypeInv, Position, Working, Reporting
  <2>3. QED
    BY <2>1, <2>2 DEF TypeInv
<1>11. CASE Finished
  BY <1>1, <1>11, ExitTyped DEF Finished
<1>12. CASE WriteEnable
  <2>1. Select(chip, Command("wren")) \in Chip
    BY <1>1, SelectType, FramesType
  <2>2. chip'.frame.got = 0
    BY <1>12, <2>1, DeselectFields
       DEF WriteEnable, Reported, AfterReport, NoFrame, Command
  <2>3. QED
    BY <1>12, <2>2, AfterReportType, GoToTyped DEF WriteEnable, Reported, Reporting
<1>13. CASE SendReport
  <2>1. chip' \in Chip
    BY <1>13, AfterReportType DEF SendReport, Reported, Reporting
  <2>2. CurrentOp \in Op /\ Reports(CurrentOp) \in 1 .. Chunks /\ CurrentOp' = CurrentOp
    BY <1>13, CurrentOpType, ReportsType DEF SendReport, Reporting, CurrentOp
  <2>3. sent \in Nat /\ sent < Reports(CurrentOp)
    BY <1>13 DEF SendReport, TypeInv, TypeOK, Position
  <2>4. CASE LastReport
    <3>1. TypeOK'
      BY <1>13, <2>1, <2>4, ChipAssumption
         DEF SendReport, TypeInv, TypeOK, Working
    <3>2. Position'
      BY <1>13, <2>4 DEF SendReport, TypeInv, Position, Working, Reporting
    <3>3. QED
      BY <3>1, <3>2 DEF TypeInv
  <2>5. CASE ~LastReport
    <3>1. sent' = sent + 1 /\ sent' < Reports(CurrentOp) /\ pc' = "send"
      BY <1>13, <2>2, <2>3, <2>5 DEF SendReport, LastReport
    <3>2. chip'.frame.got <= sent'
      BY <1>13, <2>5, <3>1, SentPartType DEF SendReport, Reported, AfterReport
    <3>3. TypeOK'
      BY <1>13, <2>1, <2>2, <2>3, <3>1, ChipAssumption
         DEF SendReport, TypeInv, TypeOK, Working
    <3>4. (sent < Reports(CurrentOp))'
      BY <2>2, <3>1 DEF Reports
    <3>5. Position'
      BY <1>13, <2>5, <3>1, <3>2, <3>4
         DEF SendReport, TypeInv, Position, Working, Reporting
    <3>6. QED
      BY <3>3, <3>5 DEF TypeInv
  <2>6. QED
    BY <2>4, <2>5
<1>14. CASE ReadStatus
  BY <1>14, AfterReportType, GoToTyped DEF ReadStatus, Reported, Reporting
<1>15. CASE Poll
  BY <1>15, AfterReportType, GoToTyped DEF Poll, AfterPoll, Reported, Reporting
<1>16. CASE Release
  BY <1>16, AfterReportType, NextOperationTyped DEF Release, Reported, Reporting
<1>17. CASE TimedOut
  BY <1>17, AfterReportType, CallEndsTyped DEF TimedOut, Reported, Reporting
<1>18. CASE ReportFails
  <2>1. chip' \in Chip
    BY <1>1, <1>18, AfterReportType DEF ReportFails, Reported
  <2>2. QED
    BY <1>18, <2>1, ExitTyped, CallEndsTyped DEF ReportFails
<1>19. CASE Kill
  BY <1>1, <1>19, ExitTyped DEF Kill
<1>20. CASE Unplug
  <2>1. chip' \in Chip /\ chip'.frame.got = 0
    <3>1. NoFrame.got = 0
      BY DEF NoFrame, Command
    <3>2. chip' \in PowerCycle(chip)
      BY <1>20 DEF Unplug
    <3>3. QED
      BY <1>1, <3>1, <3>2, PowerCycleFields
  <2>2. TypeOK'
    BY <1>20, <2>1 DEF Unplug, TypeInv, TypeOK
  <2>3. CurrentOp' = CurrentOp
    BY <1>20 DEF Unplug, CurrentOp
  <2>4. (Reports(CurrentOp))' = Reports(CurrentOp)
    BY <2>3 DEF Reports
  <2>5. Position'
    BY <1>20, <2>1, <2>4 DEF Unplug, TypeInv, TypeOK, Position
  <2>6. QED
    BY <2>2, <2>5 DEF TypeInv
<1>21. CASE OperationEnds
  <2>1. chip' \in Chip /\ chip'.frame = chip.frame
    BY <1>1, <1>21, FinishType DEF OperationEnds, Finish, Chip
  <2>2. TypeOK'
    BY <1>21, <2>1 DEF OperationEnds, TypeInv, TypeOK
  <2>3. CurrentOp' = CurrentOp
    BY <1>21 DEF OperationEnds, CurrentOp
  <2>4. (Reports(CurrentOp))' = Reports(CurrentOp)
    BY <2>3 DEF Reports
  <2>5. Position'
    BY <1>21, <2>1, <2>4 DEF OperationEnds, TypeInv, Position
  <2>6. QED
    BY <2>2, <2>5 DEF TypeInv
<1>22. CASE UNCHANGED vars
  BY <1>22 DEF vars, TypeInv, TypeOK, Position, CurrentOp, Reports
<1>23. QED
  BY <1>2, <1>3, <1>4, <1>5, <1>6, <1>7, <1>8, <1>9, <1>10, <1>11, <1>12, <1>13,
     <1>14, <1>15, <1>16, <1>17, <1>18, <1>19, <1>20, <1>21, <1>22
  DEF Next, Proceed

\* Every variable always has a value of its type, and the counters are where
\* the control state says: the frame sent so far never exceeds its reports.
THEOREM TypeCorrect == Spec => [](TypeOK /\ Position)
<1>1. Init => TypeInv
  BY TypeInit
<1>2. TypeInv /\ [Next]_vars => TypeInv'
  BY TypeNext
<1>3. TypeInv => TypeOK /\ Position
  BY DEF TypeInv
<1>4. QED
  BY <1>1, <1>2, <1>3, PTL DEF Spec

-----------------------------------------------------------------------------
(* whose operation the chip is carrying out *)

PagesPending(c) == c.op.pages \cup c.frame.op.pages

LEMMA BegunFields ==
    ASSUME NEW f \in Frame
    PROVE  Begun(f).kind = f.op.kind /\ Begun(f).pages = f.op.pages
BY DEF Begun, Frame, Op

LEMMA NoFrameFields ==
    ASSUME NEW x
    PROVE  /\ Command(x).cmd = x /\ Command(x).op = NoOp /\ Command(x).got = 0
           /\ NoFrame.cmd = "none" /\ NoFrame.op = NoOp /\ NoFrame.got = 0
           /\ NoOp.kind = "none" /\ NoOp.pages = {}
           /\ WriteOf(x).cmd = "write" /\ WriteOf(x).op = x /\ WriteOf(x).got = 1
BY DEF Command, NoFrame, NoOp, WriteOf

LEMMA DeselectSound ==
    ASSUME NEW c \in Chip, Sound(c)
    PROVE  /\ Sound(Deselect(c))
           /\ PagesPending(Deselect(c)) \subseteq PagesPending(c)
<1>1. c.frame \in Frame /\ Begun(c.frame) \in Op
  BY BegunType DEF Chip
<1>2. CASE c.frame.cmd = "write" /\ Accepts(c, c.frame.op)
  BY <1>1, <1>2, DeselectFields, BegunFields, NoFrameFields
     DEF Sound, Busy, PagesPending
<1>3. CASE ~(c.frame.cmd = "write" /\ Accepts(c, c.frame.op))
  BY <1>3, DeselectFields, NoFrameFields DEF Sound, Busy, PagesPending
<1>4. QED
  BY <1>2, <1>3

LEMMA SelectFields ==
    ASSUME NEW c \in Chip, NEW f \in Frame
    PROVE  /\ Select(c, f).mem = c.mem
           /\ Select(c, f).prot = c.prot
           /\ Select(c, f).wel = Deselect(c).wel
           /\ Select(c, f).op = Deselect(c).op
           /\ Select(c, f).frame = IF Busy(Deselect(c)) /\ f.cmd # "status"
                                   THEN Command("ignored") ELSE f
<1>1. Deselect(c) \in Chip
  BY DeselectType
<1>2. QED
  BY <1>1, DeselectFields DEF Select, Chip

LEMMA SelectSound ==
    ASSUME NEW c \in Chip, Sound(c), NEW f \in Frame,
           f.cmd # "write" => f.op = NoOp,
           f.cmd = "write" => f.op.kind # "none"
    PROVE  /\ Sound(Select(c, f))
           /\ PagesPending(Select(c, f)) \subseteq PagesPending(c) \cup f.op.pages
<1>1. Sound(Deselect(c)) /\ PagesPending(Deselect(c)) \subseteq PagesPending(c)
  BY DeselectSound
<1>2. QED
  BY <1>1, SelectFields, NoFrameFields DEF Sound, Busy, PagesPending

LEMMA ShiftFields ==
    ASSUME NEW c \in Chip
    PROVE  /\ Shift(c).mem = c.mem /\ Shift(c).prot = c.prot
           /\ Shift(c).wel = c.wel /\ Shift(c).op = c.op
           /\ Shift(c).frame.cmd = c.frame.cmd /\ Shift(c).frame.op = c.frame.op
           /\ Shift(c).frame = [c.frame EXCEPT !.got =
                                  IF c.frame.cmd = "write" THEN @ + 1 ELSE @]
BY DEF Shift, Chip, Frame

LEMMA ShiftSound ==
    ASSUME NEW c \in Chip, Sound(c)
    PROVE  Sound(Shift(c)) /\ PagesPending(Shift(c)) = PagesPending(c)
BY ShiftFields DEF Sound, Busy, PagesPending

LEMMA FinishFields ==
    ASSUME NEW c \in Chip
    PROVE  /\ Finish(c).mem = Effect(c.mem, c.op)
           /\ Finish(c).op = NoOp
           /\ Finish(c).frame = c.frame
           /\ Finish(c).prot = (c.prot /\ c.op.kind # "unprotect")
BY DEF Finish, Chip

LEMMA CurrentPages ==
    ASSUME TypeInv, pc \in Reporting
    PROVE  CurrentOp.pages \subseteq Footprint(cmd)
<1>1. side \in Calls(cmd) /\ side \in DOMAIN cmd.data /\ cmd \in Commands
  BY DEF TypeInv, TypeOK, Position, Calls
<1>2. CASE stage = "program"
  <2>1. wrote + 1 \in DOMAIN cmd.data[side] /\ wrote \in Nat
    BY <1>2 DEF TypeInv, TypeOK, Position
  <2>2. wrote \in 0 .. Len(cmd.data[side]) - 1
    BY <1>1, <2>1, CmdType
  <2>3. PageAt(cmd, side, wrote) \in PagesOf(cmd, side)
    BY <2>2 DEF PagesOf
  <2>4. QED
    BY <1>1, <1>2, <2>3 DEF CurrentOp, Footprint
<1>3. CASE stage # "program"
  BY <1>1, <1>3 DEF CurrentOp, Footprint
<1>4. QED
  BY <1>2, <1>3

\* A report changes no page and puts only the run's own pages at stake.
LEMMA AfterReportSound ==
    ASSUME TypeInv, ChipOK, pc \in Opening \cup Reporting
    PROVE  /\ Sound(AfterReport)
           /\ AfterReport.mem = chip.mem
           /\ AfterReport.prot = chip.prot
           /\ PagesPending(AfterReport)
                \subseteq PagesPending(chip)
                          \cup (IF pc \in Reporting THEN Footprint(cmd) ELSE {})
<1>1. chip \in Chip /\ Sound(chip)
  BY DEF TypeInv, TypeOK, ChipOK
<1>2. CASE pc \in {"readid", "status"}
  BY <1>1, <1>2, SelectSound, SelectFields, FramesType, NoFrameFields DEF AfterReport
<1>3. CASE pc = "wren"
  <2> DEFINE d == Select(chip, Command("wren"))
  <2>1. d \in Chip /\ Sound(d) /\ d.mem = chip.mem /\ d.prot = chip.prot
        /\ PagesPending(d) \subseteq PagesPending(chip)
    <3>1. Command("wren") \in Frame /\ Command("wren").cmd # "write"
          /\ Command("wren").op = NoOp /\ NoOp.pages = {}
      BY FramesType, NoFrameFields
    <3>2. d \in Chip /\ d.mem = chip.mem /\ d.prot = chip.prot
      BY <1>1, <3>1, SelectFields, SelectType
    <3>3. Sound(d) /\ PagesPending(d) \subseteq PagesPending(chip)
      BY <1>1, <3>1, SelectSound
    <3>4. QED
      BY <3>2, <3>3
  <2>2. AfterReport = Deselect(d)
    BY <1>3 DEF AfterReport
  <2>3. QED
    BY <1>3, <2>1, <2>2, DeselectSound, DeselectFields
<1>4. CASE pc = "send"
  <2>1. CurrentOp \in Op /\ CurrentOp.kind # "none"
        /\ CurrentOp.pages \subseteq Footprint(cmd)
    BY <1>4, CurrentOpType, CurrentPages DEF Reporting
  <2>2. WriteOf(CurrentOp) \in Frame
    BY <2>1, FramesType
  <2>3. SentPart \in Chip
    BY <1>4, SentPartType
  <2>4. /\ Sound(SentPart) /\ SentPart.mem = chip.mem /\ SentPart.prot = chip.prot
        /\ PagesPending(SentPart) \subseteq PagesPending(chip) \cup Footprint(cmd)
    <3>1. CASE sent = 0
      BY <1>1, <2>1, <2>2, <3>1, SelectSound, SelectFields, NoFrameFields DEF SentPart
    <3>2. CASE sent # 0
      BY <1>1, <3>2, ShiftSound, ShiftFields DEF SentPart
    <3>3. QED
      BY <3>1, <3>2
  <2>5. AfterReport \in {SentPart, Deselect(SentPart)}
    BY <1>4 DEF AfterReport
  <2>6. pc \in Reporting
    BY <1>4 DEF Reporting
  <2>7. QED
    BY <2>3, <2>4, <2>5, <2>6, DeselectSound, DeselectFields
<1>5. CASE pc = "poll"
  BY <1>1, <1>5 DEF AfterReport
<1>6. CASE pc \in {"gotid", "release", "timeout"}
  BY <1>1, <1>6, DeselectSound, DeselectFields DEF AfterReport
<1>7. QED
  BY <1>2, <1>3, <1>4, <1>5, <1>6 DEF Opening, Reporting

\* an invariant that needs no promise about the course of the run
SafeInv == TypeInv /\ ChipOK /\ Own

LEMMA SafeInit == Init => SafeInv
<1> SUFFICES ASSUME Init PROVE SafeInv
  OBVIOUS
<1>1. chip.op = NoOp /\ chip.frame = NoFrame
  BY DEF Init
<1>2. ChipOK
  BY <1>1, NoFrameFields DEF ChipOK, Sound, Busy
<1>3. Own
  BY DEF Init, Own, Working
<1>4. QED
  BY <1>2, <1>3, TypeInit DEF SafeInv

LEMMA SafeNext == SafeInv /\ [Next]_vars => SafeInv'
<1> SUFFICES ASSUME SafeInv, [Next]_vars PROVE ChipOK' /\ Own'
  BY TypeNext DEF SafeInv
<1>1. /\ TypeInv /\ ChipOK /\ Own /\ Sound(chip) /\ chip \in Chip
      /\ Pending = PagesPending(chip) /\ Pending' = PagesPending(chip')
  BY DEF SafeInv, ChipOK, TypeInv, TypeOK, Pending, PagesPending
\* the steps that leave the chip alone and do not begin to work
<1>2. ASSUME UNCHANGED chip, pc' \in Working => pc \in Working /\ cmd' = cmd
      PROVE  ChipOK' /\ Own'
  BY <1>1, <1>2 DEF ChipOK, Own
\* the reports
<1>3. ASSUME Reported, pc \in Opening \cup Reporting, cmd' = cmd,
             pc' \in Working => pc \in Working
      PROVE  ChipOK' /\ Own'
  <2>1. chip' = AfterReport
    BY <1>3 DEF Reported
  <2>2. ChipOK'
    BY <1>1, <1>3, <2>1, AfterReportSound DEF ChipOK
  <2>3. pc' \in Working => Pending' \subseteq Footprint(cmd)
    BY <1>1, <1>3, <2>1, AfterReportSound DEF Own
  <2>4. QED
    BY <1>3, <2>2, <2>3 DEF Own
<1>4. CASE Start \/ OpenHandle \/ NoDevice \/ Refuse \/ UpdateFirmware \/ Finished \/ Kill
  BY <1>2, <1>4 DEF Start, OpenHandle, NoDevice, Refuse, UpdateFirmware, Finished,
                    Kill, Exit, Working
<1>5. CASE SkipSide \/ BeginCall
  BY <1>2, <1>5 DEF SkipSide, BeginCall, Working
<1>6. CASE ReadId
  BY <1>3, <1>6 DEF ReadId, GoTo, Opening, Working
<1>7. CASE GotId
  <2>1. CASE Identified
    <3>1. PagesPending(chip) = {}
      BY <1>1, <2>1, NoFrameFields DEF Identified, Sound, PagesPending
    <3>2. PagesPending(AfterReport) = {} /\ Sound(AfterReport)
      BY <1>1, <1>7, <3>1, AfterReportSound DEF GotId, Opening, Reporting
    <3>3. QED
      BY <1>1, <1>7, <3>2 DEF GotId, Reported, ChipOK, Own
  <2>2. CASE ~Identified
    BY <1>3, <1>7, <2>2 DEF GotId, Exit, Opening, Working
  <2>3. QED
    BY <2>1, <2>2
<1>8. CASE WriteEnable \/ SendReport \/ ReadStatus \/ Poll
  <2>1. Reported /\ pc \in Reporting /\ cmd' = cmd
    BY <1>8 DEF WriteEnable, SendReport, ReadStatus, Poll, GoTo, Reporting
  <2>2. QED
    BY <1>3, <2>1 DEF Reporting, Working
<1>9. CASE Release \/ TimedOut
  <2>1. Reported /\ pc \in Reporting /\ cmd' = cmd
    BY <1>9 DEF Release, TimedOut, NextOperation, CallEnds, Reporting
  <2>2. QED
    BY <1>3, <2>1 DEF Reporting, Working
<1>10. CASE ReportFails
  <2>1. /\ pc \in Opening \cup Reporting /\ cmd' = cmd
        /\ pc' \in Working => pc \in Working
        /\ UNCHANGED chip \/ Reported
    BY <1>10 DEF ReportFails, Exit, CallEnds, Working, Reporting
  <2>2. QED
    BY <1>2, <1>3, <2>1
<1>11. CASE Unplug
  <2>1. chip' \in PowerCycle(chip) /\ UNCHANGED <<pc, cmd>>
    BY <1>11 DEF Unplug
  <2>2. chip'.op = NoOp /\ chip'.frame = NoFrame
    BY <1>1, <2>1, PowerCycleFields
  <2>3. Sound(chip') /\ PagesPending(chip') = {}
    BY <2>2, NoFrameFields DEF Sound, Busy, PagesPending
  <2>4. QED
    BY <1>1, <2>3 DEF ChipOK, Own
<1>12. CASE OperationEnds
  <2>1. chip' = Finish(chip) /\ UNCHANGED <<pc, cmd>> /\ Busy(chip)
    BY <1>12 DEF OperationEnds
  <2>2. chip'.op = NoOp /\ chip'.frame = chip.frame
    BY <1>1, <2>1, FinishFields
  <2>3. Sound(chip')
    BY <1>1, <2>1, <2>2, NoFrameFields DEF Sound, Busy
  <2>4. PagesPending(chip') \subseteq PagesPending(chip)
    BY <2>2, NoFrameFields DEF PagesPending
  <2>5. QED
    BY <1>1, <2>1, <2>3, <2>4 DEF ChipOK, Own
<1>13. CASE UNCHANGED vars
  BY <1>2, <1>13 DEF vars
<1>14. QED
  BY <1>4, <1>5, <1>6, <1>7, <1>8, <1>9, <1>10, <1>11, <1>12, <1>13 DEF Next, Proceed

\* The flash only changes where the chip is at work.
LEMMA ChangedPages ==
    ASSUME SafeInv, [Next]_vars, NEW p \in Pages, chip'.mem[p] # chip.mem[p]
    PROVE  p \in chip.op.pages
<1>1. chip \in Chip /\ TypeInv /\ ChipOK
  BY DEF SafeInv, TypeInv, TypeOK
<1>2. ASSUME Reported, pc \in Opening \cup Reporting
      PROVE  FALSE
  BY <1>1, <1>2, AfterReportSound DEF Reported
<1>3. CASE Unplug
  <2>1. chip' \in PowerCycle(chip)
    BY <1>3 DEF Unplug
  <2>2. chip'.mem = [q \in Pages |-> IF q \in chip.op.pages THEN Garbled ELSE chip.mem[q]]
    BY <1>1, <2>1, PowerCycleFields
  <2>3. QED
    BY <2>2
<1>4. CASE OperationEnds
  <2>1. chip'.mem = Effect(chip.mem, chip.op)
    BY <1>1, <1>4, FinishFields DEF OperationEnds
  <2>2. QED
    BY <2>1 DEF Effect
<1>5. CASE ReadId \/ GotId \/ WriteEnable \/ SendReport \/ ReadStatus \/ Poll
           \/ Release \/ TimedOut
  BY <1>2, <1>5 DEF ReadId, GotId, WriteEnable, SendReport, ReadStatus, Poll,
                    Release, TimedOut, Opening, Reporting
<1>6. CASE ReportFails
  <2>1. pc \in Opening \cup Reporting /\ (chip' = chip \/ Reported)
    BY <1>6 DEF ReportFails
  <2>2. QED
    BY <1>2, <2>1
<1>7. CASE Start \/ OpenHandle \/ NoDevice \/ Refuse \/ SkipSide \/ BeginCall
           \/ UpdateFirmware \/ Finished \/ Kill \/ UNCHANGED vars
  BY <1>7 DEF Start, OpenHandle, NoDevice, Refuse, SkipSide, BeginCall,
              UpdateFirmware, Finished, Kill, vars
<1>8. QED
  BY <1>3, <1>4, <1>5, <1>6, <1>7 DEF Next, Proceed

\* While a run has the device open, only pages its own command erases or writes
\* change: an operation an interrupted run left in the chip never does, and no
\* address of spi.cpp leads outside.
THEOREM OwnPagesOnly == Spec => OnlyOwnPages
<1> DEFINE Kept == \A p \in Pages :
             pc \in Working /\ chip'.mem[p] # chip.mem[p] => p \in Footprint(cmd)
<1>1. Init => SafeInv
  BY SafeInit
<1>2. SafeInv /\ [Next]_vars => SafeInv'
  BY SafeNext
<1>3. SafeInv /\ [Next]_vars => [Kept]_vars
  <2> SUFFICES ASSUME SafeInv, [Next]_vars, NEW p \in Pages,
                      pc \in Working, chip'.mem[p] # chip.mem[p]
               PROVE  p \in Footprint(cmd)
    OBVIOUS
  <2>1. p \in chip.op.pages
    BY ChangedPages
  <2>2. QED
    BY <2>1 DEF SafeInv, Own, Pending
<1>4. QED
  BY <1>1, <1>2, <1>3, PTL DEF Spec, OnlyOwnPages

-----------------------------------------------------------------------------
(* the program and the chip in step *)

StepInv == SafeInv /\ Pulled /\ Rebooting /\ Over /\ InStep

LEMMA DeselectIdle ==
    ASSUME NEW c \in Chip, c.frame.cmd \notin {"write", "wren"}
    PROVE  /\ Deselect(c).op = c.op /\ Deselect(c).wel = c.wel
           /\ Deselect(c).frame = NoFrame
BY DeselectFields DEF Chip

\* at rest, a chip takes any frame
LEMMA SelectAtRest ==
    ASSUME NEW c \in Chip, c.op = NoOp, c.frame = NoFrame, NEW f \in Frame
    PROVE  /\ Select(c, f).op = NoOp /\ Select(c, f).frame = f
           /\ Select(c, f).wel = c.wel
BY SelectFields, DeselectIdle, NoFrameFields DEF Busy

LEMMA StepInit == Init => StepInv
<1> SUFFICES ASSUME Init PROVE StepInv
  OBVIOUS
<1>1. SafeInv
  BY SafeInit
<1>2. Pulled /\ Rebooting /\ Over /\ InStep
  BY DEF Init, Pulled, Rebooting, Over, InStep, Working, Opening
<1>3. QED
  BY <1>1, <1>2 DEF StepInv

\* Between two calls of a clean run the chip is at rest.
LEMMA RestBetweenCalls ==
    ASSUME StepInv, pc = "next", clean
    PROVE  AtRest
BY DEF StepInv, Pulled, InStep, Working, SafeInv, TypeInv, TypeOK

\* Every report of a clean run is heard, and does what the program means.
LEMMA ReportInStep ==
    ASSUME StepInv, clean, Reported, pc \in Reporting
    PROVE  /\ pc = "wren" => AtRest' /\ chip'.wel
           /\ pc = "send" /\ ~LastReport =>
                /\ chip'.op = NoOp /\ chip'.wel
                /\ chip'.frame = [WriteOf(CurrentOp) EXCEPT !.got = sent + 1]
           /\ pc = "send" /\ LastReport =>
                /\ chip'.frame = NoFrame
                /\ chip'.op = IF CurrentOp.kind = "unprotect" \/ ~chip.prot
                              THEN CurrentOp ELSE NoOp
           /\ pc = "status" => chip'.frame = Command("status") /\ chip'.op = chip.op
           /\ pc = "poll" => chip' = chip
           /\ pc = "release" => AtRest'
<1>1. chip \in Chip /\ linked /\ chip' = AfterReport /\ TypeInv /\ InStep /\ pc \in Working
  BY DEF Reported, StepInv, SafeInv, TypeInv, TypeOK, Reporting, Working
<1>2. CASE pc = "wren"
  <2> DEFINE d == Select(chip, Command("wren"))
  <2>1. Command("wren") \in Frame /\ Command("wren").cmd = "wren"
    BY FramesType, NoFrameFields
  <2>2. d \in Chip /\ d.op = NoOp /\ d.frame = Command("wren")
    BY <1>1, <1>2, <2>1, SelectType, SelectAtRest DEF InStep, AtRest
  <2>3. chip' = Deselect(d)
    BY <1>1, <1>2 DEF AfterReport
  <2>4. QED
    BY <1>2, <2>1, <2>2, <2>3, DeselectFields DEF AtRest
<1>3. CASE pc = "send"
  <2>1. CurrentOp \in Op /\ CurrentOp.kind = stage
        /\ stage \in {"unprotect", "erase", "program"}
    BY <1>1, <1>3, CurrentOpType DEF Reporting
  <2>2. WriteOf(CurrentOp) \in Frame
    BY <2>1, FramesType
  <2>3. chip.op = NoOp /\ chip.wel /\ sent \in Nat
    BY <1>1, <1>3 DEF InStep, TypeInv, TypeOK
  <2>4. /\ SentPart.op = NoOp /\ SentPart.wel /\ SentPart.prot = chip.prot
        /\ SentPart.frame = [WriteOf(CurrentOp) EXCEPT !.got = sent + 1]
    <3>1. CASE sent = 0
      <4>1. SentPart = Select(chip, WriteOf(CurrentOp)) /\ chip.frame = NoFrame
        BY <1>1, <1>3, <3>1 DEF SentPart, InStep
      <4>2. SentPart.frame = WriteOf(CurrentOp)
        BY <1>1, <2>2, <2>3, <4>1, SelectAtRest
      <4>3. WriteOf(CurrentOp) = [WriteOf(CurrentOp) EXCEPT !.got = sent + 1]
        BY <3>1 DEF WriteOf
      <4>4. QED
        BY <1>1, <2>2, <2>3, <4>1, <4>2, <4>3, SelectAtRest, SelectFields
    <3>2. CASE sent # 0
      <4>1. SentPart = Shift(chip)
        BY <3>2 DEF SentPart
      <4>2. chip.frame = [WriteOf(CurrentOp) EXCEPT !.got = sent]
        BY <1>1, <1>3, <3>2 DEF InStep
      <4>3. [chip.frame EXCEPT !.got = IF chip.frame.cmd = "write" THEN @ + 1 ELSE @]
              = [WriteOf(CurrentOp) EXCEPT !.got = sent + 1]
        BY <4>2 DEF WriteOf
      <4>4. QED
        BY <1>1, <2>3, <4>1, <4>3, ShiftFields
    <3>3. QED
      BY <3>1, <3>2
  <2>5. CASE ~LastReport
    BY <1>1, <1>3, <2>4, <2>5 DEF AfterReport
  <2>6. CASE LastReport
    <3>1. chip' = Deselect(SentPart) /\ SentPart \in Chip
      BY <1>1, <1>3, <2>6, SentPartType DEF AfterReport
    <3>2. /\ SentPart.frame.cmd = "write" /\ SentPart.frame.op = CurrentOp
          /\ SentPart.frame.got = Reports(CurrentOp)
      BY <2>4, <2>6 DEF WriteOf, LastReport
    <3>3. Begun(SentPart.frame) = CurrentOp
      BY <3>2 DEF Begun
    <3>4. QED
      BY <1>3, <2>4, <2>6, <3>1, <3>2, <3>3, DeselectFields DEF Accepts
  <2>7. QED
    BY <2>5, <2>6
<1>4. CASE pc = "status"
  <2>1. chip.frame = NoFrame /\ chip' = Select(chip, Command("status"))
    BY <1>1, <1>4 DEF InStep, AfterReport
  <2>2. Deselect(chip).op = chip.op
    BY <1>1, <2>1, DeselectIdle, NoFrameFields
  <2>3. Command("status") \in Frame /\ Command("status").cmd = "status"
    BY FramesType, NoFrameFields
  <2>4. QED
    BY <1>1, <1>4, <2>1, <2>2, <2>3, SelectFields
<1>5. CASE pc = "poll"
  BY <1>1, <1>5 DEF AfterReport
<1>6. CASE pc = "release"
  <2>1. chip.frame.cmd = "status" /\ chip.op = NoOp /\ chip' = Deselect(chip)
    BY <1>1, <1>6, NoFrameFields DEF InStep, AfterReport
  <2>2. QED
    BY <1>1, <1>6, <2>1, DeselectIdle DEF AtRest
<1>7. CASE pc = "timeout"
  BY <1>7
<1>8. QED
  BY <1>2, <1>3, <1>4, <1>5, <1>6, <1>7 DEF Reporting

\* what an end of the process and of a failed call leaves to show
LEMMA ExitInStep ==
    ASSUME Exit("none") \/ Exit("failed")
    PROVE  Pulled' /\ Rebooting' /\ Over' /\ InStep'
BY DEF Exit, Pulled, Rebooting, Over, InStep, Working, Opening

LEMMA FailInStep ==
    ASSUME StepInv, pc \in Reporting, CallEnds(FALSE), ~linked => chip' = chip
    PROVE  Pulled' /\ Rebooting' /\ Over' /\ InStep'
<1>1. Pulled' 
  BY DEF StepInv, Pulled, CallEnds, Reporting, Working, Opening, AtRest
<1>2. Rebooting' /\ Over' /\ InStep'
  BY DEF StepInv, CallEnds, Rebooting, Over, InStep, Reporting
<1>3. QED
  BY <1>1, <1>2

LEMMA StepNext == StepInv /\ [Next]_vars => StepInv'
<1> SUFFICES ASSUME StepInv, [Next]_vars
             PROVE  Pulled' /\ Rebooting' /\ Over' /\ InStep'
  BY SafeNext DEF StepInv
<1>1. /\ chip \in Chip /\ TypeInv /\ Position /\ SafeInv /\ Sound(chip)
      /\ Pulled /\ Rebooting /\ Over /\ InStep
  BY DEF StepInv, SafeInv, TypeInv, TypeOK, ChipOK
<1>2. CASE Start
  BY <1>1, <1>2 DEF Start, Pulled, Rebooting, Over, InStep, Working, Opening, Position
<1>3. CASE OpenHandle
  BY <1>1, <1>3 DEF OpenHandle, Pulled, Rebooting, Over, InStep, Working, Opening
<1>4. CASE NoDevice \/ Refuse \/ Kill
  BY <1>4, ExitInStep DEF NoDevice, Refuse, Kill
<1>5. CASE ReadId
  <2>1. /\ pc = "readid" /\ pc' = "gotid" /\ linked /\ chip' = AfterReport
        /\ UNCHANGED <<cmd, side, stage, clean, exit, linked>>
    BY <1>5 DEF ReadId, Reported, GoTo
  <2>2. stage = "reboot" => chip'.op = NoOp /\ chip'.frame = Command("id")
    BY <1>1, <2>1, SelectAtRest, FramesType DEF AfterReport, Rebooting
  <2>3. QED
    BY <1>1, <2>1, <2>2 DEF Pulled, Rebooting, Over, InStep, Working, Opening
<1>6. CASE GotId
  <2>1. CASE Identified
    <3>1. /\ pc = "gotid" /\ pc' = "next" /\ linked /\ chip' = Deselect(chip)
          /\ UNCHANGED <<cmd, side, stage, sent, clean, exit, linked>>
      BY <1>6, <2>1 DEF GotId, Reported, GoTo, AfterReport
    <3>2. chip.op = NoOp /\ chip.frame.cmd = "id"
      BY <1>1, <2>1 DEF Identified, Sound
    <3>3. AtRest'
      BY <1>1, <3>1, <3>2, DeselectIdle DEF AtRest
    <3>4. QED
      <4>1. Rebooting'
        <5>1. (stage = "reboot") => clean'
          BY <1>1, <3>1 DEF Rebooting
        <5>2. QED
          BY <1>1, <3>1, <3>3, <5>1 DEF Rebooting, AtRest
      <4>2. Pulled' /\ Over' /\ InStep'
        BY <1>1, <3>1, <3>3 DEF Pulled, Over, InStep
      <4>3. QED
        BY <4>1, <4>2
  <2>2. CASE ~Identified
    BY <1>6, <2>2, ExitInStep DEF GotId
  <2>3. QED
    BY <2>1, <2>2
<1>7. CASE SkipSide
  BY <1>1, <1>7
     DEF SkipSide, Pulled, Rebooting, Over, InStep, Working, TypeInv, TypeOK, AtRest
<1>8. CASE BeginCall
  <2>1. stage # "reboot"
    BY <1>1, <1>8, CmdType DEF BeginCall, Rebooting, TypeInv, TypeOK
  <2>2. QED
    BY <1>1, <1>8, <2>1
       DEF BeginCall, FirstStage, Pulled, Rebooting, Over, InStep, Working, AtRest
<1>9. CASE UpdateFirmware
  <2>1. AtRest
    BY <1>9, RestBetweenCalls DEF UpdateFirmware, Staged
  <2>2. QED
    <3>1. chip' = chip /\ pc = "next" /\ pc' = "open" /\ exit' = exit
          /\ cmd' = cmd /\ cmd.kind = "firmware" /\ side' = side
          /\ side > Len(cmd.data)
      BY <1>9 DEF UpdateFirmware, Staged
    <3>2. Rebooting'
      <4>1. clean'
        BY <1>9 DEF UpdateFirmware, Staged
      <4>2. QED
        BY <2>1, <3>1, <4>1 DEF Rebooting, AtRest
    <3>3. Pulled' /\ Over' /\ InStep'
      BY <1>1, <3>1 DEF Pulled, Over, InStep, Working, Opening
    <3>4. QED
      BY <3>2, <3>3
<1>10. CASE Finished
  <2>1. clean => AtRest
    BY <1>10, RestBetweenCalls DEF Finished
  <2>2. QED
    BY <1>10, <2>1
       DEF Finished, Exit, Pulled, Rebooting, Over, InStep, Working, Opening, AtRest
<1>11. CASE WriteEnable \/ SendReport \/ ReadStatus \/ Poll
  <2>1. /\ pc \in Reporting /\ Reported /\ linked /\ linked' = linked
        /\ pc' \in {"send", "status", "poll", "timeout", "release"}
        /\ UNCHANGED <<cmd, side, stage, wrote, clean, exit>>
    BY <1>11 DEF WriteEnable, SendReport, ReadStatus, Poll, AfterPoll, Reported, GoTo, Reporting
  <2>2. Pulled' /\ Rebooting' /\ Over'
    BY <1>1, <2>1 DEF Pulled, Rebooting, Over, Reporting, Position
  <2>3. CurrentOp' = CurrentOp
    BY <2>1 DEF CurrentOp
  <2>4. CurrentOp.kind # "none"
    BY <1>1, <2>1, CurrentOpType
  <2>5. ASSUME clean PROVE InStep'
    <3>1. CASE WriteEnable
      <4>1. AtRest' /\ chip'.wel /\ sent' = 0 /\ pc' = "send"
        BY <1>1, <2>1, <2>5, <3>1, ReportInStep DEF WriteEnable, GoTo, Position
      <4>2. QED
        BY <4>1 DEF InStep, AtRest
    <3>2. CASE SendReport /\ ~LastReport
      <4>1. /\ chip'.op = NoOp /\ chip'.wel
            /\ chip'.frame = [WriteOf(CurrentOp) EXCEPT !.got = sent + 1]
            /\ sent' = sent + 1 /\ pc' = "send" /\ sent + 1 # 0
        BY <1>1, <2>1, <2>5, <3>2, ReportInStep DEF SendReport, TypeInv, TypeOK
      <4>2. QED
        BY <2>3, <4>1 DEF InStep
    <3>3. CASE SendReport /\ LastReport
      <4>1. chip'.frame = NoFrame /\ chip'.op \in {NoOp, CurrentOp} /\ pc' = "status"
        BY <2>1, <2>5, <3>3, ReportInStep DEF SendReport
      <4>2. QED
        BY <2>3, <4>1 DEF InStep
    <3>4. CASE ReadStatus
      <4>1. /\ chip'.frame = Command("status") /\ chip'.op = chip.op /\ pc' = "poll"
            /\ chip.op \in {NoOp, CurrentOp}
        BY <1>1, <2>1, <2>5, <3>4, ReportInStep DEF ReadStatus, GoTo, InStep, Working
      <4>2. QED
        BY <2>3, <4>1 DEF InStep
    <3>5. CASE Poll
      <4>1. /\ chip' = chip /\ pc' = AfterPoll /\ chip.frame = Command("status")
            /\ pc = "poll" /\ chip.op \in {NoOp, CurrentOp}
        BY <1>1, <2>1, <2>5, <3>5, ReportInStep DEF Poll, GoTo, InStep, Working
      <4>2. pc' = "release" => chip.op = NoOp
        BY <1>1, <4>1 DEF AfterPoll, Sound
      <4>3. QED
        BY <2>3, <4>1, <4>2 DEF InStep, AfterPoll
    <3>6. QED
      BY <1>11, <3>1, <3>2, <3>3, <3>4, <3>5
  <2>6. QED
    BY <2>1, <2>2, <2>5 DEF InStep
<1>12. CASE Release
  <2>1. /\ pc = "release" /\ pc \in Reporting /\ Reported /\ linked /\ linked' = linked
        /\ pc' \in {"wren", "next"} /\ stage' # "reboot" /\ exit' = exit
        /\ clean' = clean
    BY <1>1, <1>12
       DEF Release, Reported, NextOperation, CallEnds, Reporting, Rebooting, TypeInv, TypeOK
  <2>2. clean => AtRest'
    BY <2>1, ReportInStep
  <2>3. QED
    BY <1>1, <2>1, <2>2 DEF Pulled, Rebooting, Over, InStep, AtRest
<1>13. CASE TimedOut
  BY <1>13, FailInStep DEF TimedOut, Reported, Reporting
<1>14. CASE ReportFails
  BY <1>14, FailInStep, ExitInStep DEF ReportFails, Reported
<1>15. CASE Unplug
  <2>1. chip' \in PowerCycle(chip) /\ linked' = FALSE
        /\ UNCHANGED <<pc, cmd, side, stage, clean, exit>>
    BY <1>15 DEF Unplug
  <2>2. chip'.op = NoOp /\ chip'.frame = NoFrame
    BY <1>1, <2>1, PowerCycleFields
  <2>3. QED
    <3>1. Pulled' /\ Over' /\ InStep'
      BY <1>1, <2>1, <2>2 DEF Pulled, Over, InStep, AtRest
    <3>2. Rebooting'
      <4>1. (stage = "reboot") => clean'
        BY <1>1, <2>1 DEF Rebooting
      <4>2. QED
        BY <1>1, <2>1, <2>2, <4>1 DEF Rebooting
    <3>3. QED
      BY <3>1, <3>2
<1>16. CASE OperationEnds
  <2>1. /\ Busy(chip) /\ chip' = Finish(chip)
        /\ UNCHANGED <<pc, cmd, side, stage, wrote, sent, clean, exit, linked>>
    BY <1>16 DEF OperationEnds
  <2>2. chip'.op = NoOp /\ chip'.frame = chip.frame /\ chip.op # NoOp
    BY <1>1, <2>1, FinishFields, NoFrameFields DEF Busy
  <2>3. Pulled' /\ Rebooting' /\ Over'
    BY <1>1, <2>1, <2>2 DEF Pulled, Rebooting, Over, AtRest
  <2>4. InStep'
    BY <1>1, <2>1, <2>2 DEF InStep, AtRest
  <2>5. QED
    BY <2>3, <2>4
<1>17. CASE UNCHANGED vars
  BY <1>1, <1>17 DEF vars, Pulled, Rebooting, Over, InStep, AtRest, CurrentOp
<1>18. QED
  BY <1>2, <1>3, <1>4, <1>5, <1>6, <1>7, <1>8, <1>9, <1>10, <1>11, <1>12, <1>13,
     <1>14, <1>15, <1>16, <1>17 DEF Next, Proceed

\* No operation of a run goes unheard before one of its calls has failed: the
\* waiting of writeWait and the ID check of dev_open are enough for that.
THEOREM AlwaysHeard == Spec => []Heard
<1>1. StepInv => Heard
  <2> SUFFICES ASSUME StepInv, clean, linked, pc \in {"wren", "send"}
               PROVE  /\ sent = 0 => ~Busy(Deselect(chip))
                      /\ pc = "send" => chip.wel
    BY DEF Heard
  <2>1. chip \in Chip /\ chip.op = NoOp /\ (pc = "send" => chip.wel)
    BY DEF StepInv, SafeInv, TypeInv, TypeOK, InStep, AtRest, Working
  <2>2. sent = 0 => chip.frame = NoFrame
    BY DEF StepInv, InStep, AtRest, Working
  <2>3. sent = 0 => Deselect(chip).op = NoOp
    BY <2>1, <2>2, NoFrameFields, DeselectIdle
  <2>4. QED
    BY <2>1, <2>3 DEF Busy, NoOp
<1>2. QED
  BY <1>1, StepInit, StepNext, PTL DEF Spec

-----------------------------------------------------------------------------
(* what the pages hold *)

LEMMA HoldingAll ==
    ASSUME NEW c \in Commands, NEW s \in DOMAIN c.data, NEW mem,
           Holding(mem, c, s, Len(c.data[s]))
    PROVE  \A w \in Asked(c, s) : mem[w[1]] = w[2]
<1>1. Len(c.data[s]) \in Nat
  BY CmdType
<1>2. ASSUME NEW k \in 1 .. Len(c.data[s])
      PROVE  mem[PageAt(c, s, k - 1)] = c.data[s][k]
  BY <1>2 DEF Holding
<1>3. ASSUME NEW p \in EraseUnit(c, s) \ PagesOf(c, s)
      PROVE  mem[p] = Erased
  <2>1. \A k \in 1 .. Len(c.data[s]) : k - 1 \in 0 .. Len(c.data[s]) - 1
    BY <1>1
  <2>2. \A k \in 1 .. Len(c.data[s]) : p # PageAt(c, s, k - 1)
    BY <1>3, <2>1 DEF PagesOf
  <2>3. QED
    BY <1>3, <2>2 DEF Holding
<1>4. QED
  BY <1>2, <1>3 DEF Asked

LEMMA EraseHolds ==
    ASSUME NEW c \in Commands, NEW s \in DOMAIN c.data, NEW mem, NEW op,
           op.kind = "erase", op.pages = EraseUnit(c, s)
    PROVE  Holding(Effect(mem, op), c, s, 0)
<1>1. \A p \in EraseUnit(c, s) : Effect(mem, op)[p] = Erased
  BY EraseUnitType DEF Effect
<1>2. QED
  BY <1>1 DEF Holding

LEMMA ProgramHolds ==
    ASSUME NEW c \in Commands, Fits(c), NEW s \in Calls(c), NEW mem,
           NEW n \in 0 .. Len(c.data[s]) - 1, NEW op,
           op.kind = "program", op.pages = {PageAt(c, s, n)},
           op.img = c.data[s][n + 1],
           Holding(mem, c, s, n)
    PROVE  Holding(Effect(mem, op), c, s, n + 1)
<1> DEFINE p0 == PageAt(c, s, n)
           after == Effect(mem, op)
<1>1. s \in DOMAIN c.data /\ Len(c.data[s]) \in Nat /\ n \in Nat
  BY CmdType DEF Calls
<1>2. p0 \in EraseUnit(c, s) /\ p0 \in Pages
  <2>1. p0 \in PagesOf(c, s)
    BY DEF PagesOf
  <2>2. QED
    BY <1>1, <2>1, EraseUnitType DEF Fits
<1>3. ASSUME NEW k \in 1 .. n
      PROVE  PageAt(c, s, k - 1) # p0
  <2>1. k - 1 \in 0 .. Len(c.data[s]) - 1 /\ k - 1 # n
    BY <1>1, <1>3
  <2>2. QED
    BY <2>1 DEF Fits
<1>4. mem[p0] = Erased
  BY <1>2, <1>3 DEF Holding
<1>5. after[p0] = c.data[s][n + 1]
  BY <1>2, <1>4 DEF Effect, Programmed
<1>6. ASSUME NEW p \in Pages, p # p0
      PROVE  after[p] = mem[p]
  BY <1>6 DEF Effect
<1>7. ASSUME NEW k \in 1 .. n + 1
      PROVE  after[PageAt(c, s, k - 1)] = c.data[s][k]
  <2>1. CASE k = n + 1
    <3>1. k - 1 = n
      BY <1>1, <2>1
    <3>2. QED
      BY <1>5, <2>1, <3>1
  <2>2. CASE k # n + 1
    <3>1. k \in 1 .. n /\ k - 1 \in Int
      BY <1>1, <1>7, <2>2
    <3>2. PageAt(c, s, k - 1) \in Pages
      BY <1>1, <3>1, PageAtType
    <3>3. QED
      BY <1>3, <1>6, <3>1, <3>2 DEF Holding
  <2>3. QED
    BY <2>1, <2>2
<1>8. ASSUME NEW p \in EraseUnit(c, s), \A k \in 1 .. n + 1 : p # PageAt(c, s, k - 1)
      PROVE  after[p] = Erased
  <2>1. n + 1 \in 1 .. n + 1 /\ (n + 1) - 1 = n /\ 1 .. n \subseteq 1 .. n + 1
    BY <1>1
  <2>2. p # p0 /\ \A k \in 1 .. n : p # PageAt(c, s, k - 1)
    BY <1>8, <2>1
  <2>3. p \in Pages
    BY <1>1, EraseUnitType
  <2>4. QED
    BY <1>6, <2>2, <2>3 DEF Holding
<1>9. QED
  BY <1>7, <1>8 DEF Holding

HoldsAsked(mem, c, s) == \A w \in Asked(c, s) : mem[w[1]] = w[2]
SameOutside(mem, new, unit) == \A p \in Pages \ unit : new[p] = mem[p]

\* A change inside the unit of one call leaves the other calls' pages alone.
LEMMA OtherCallsKept ==
    ASSUME NEW c \in Commands, Fits(c), NEW s \in Calls(c), NEW t \in Calls(c), s # t,
           NEW mem, NEW new,
           SameOutside(mem, new, EraseUnit(c, s)), HoldsAsked(mem, c, t)
    PROVE  HoldsAsked(new, c, t)
<1>1. t \in DOMAIN c.data /\ Len(c.data[t]) \in Nat
  BY CmdType DEF Calls
<1>2. ASSUME NEW w \in Asked(c, t)
      PROVE  w[1] \in EraseUnit(c, t)
  <2>1. CASE \E k \in 1 .. Len(c.data[t]) : w = <<PageAt(c, t, k - 1), c.data[t][k]>>
    <3>1. PICK k \in 1 .. Len(c.data[t]) : w[1] = PageAt(c, t, k - 1)
      BY <2>1
    <3>2. k - 1 \in 0 .. Len(c.data[t]) - 1
      BY <1>1
    <3>3. QED
      BY <3>1, <3>2 DEF PagesOf, Fits
  <2>2. CASE w \in (EraseUnit(c, t) \ PagesOf(c, t)) \X {Erased}
    BY <2>2
  <2>3. QED
    BY <1>2, <2>1, <2>2 DEF Asked
<1>3. EraseUnit(c, t) \cap EraseUnit(c, s) = {} /\ EraseUnit(c, t) \subseteq Pages
  BY <1>1, EraseUnitType DEF Fits
<1>4. QED
  BY <1>2, <1>3 DEF HoldsAsked, SameOutside

-----------------------------------------------------------------------------
(* what "Ok." means *)

DataInv == StepInv /\ CallProgress /\ CallsDone /\ OkIsTrue

LEMMA DataInit == Init => DataInv
<1> SUFFICES ASSUME Init PROVE DataInv
  OBVIOUS
<1>1. CallProgress /\ CallsDone /\ OkIsTrue
  BY DEF Init, CallProgress, CallsDone, OkIsTrue, Reporting
<1>2. QED
  BY <1>1, StepInit DEF DataInv

\* where a clean run stands when the chip is still carrying something out
LEMMA OnlyCurrentOpRuns ==
    ASSUME StepInv, clean, Busy(chip),
           pc \in Working \/ stage = "reboot" \/ exit = "ok"
    PROVE  /\ linked /\ pc \in {"status", "poll", "timeout"}
           /\ chip.op = CurrentOp /\ stage \in {"unprotect", "erase", "program"}
           /\ CurrentOp.kind = stage
           /\ side \in Calls(cmd) /\ cmd \in Commands
<1>1. chip.op # NoOp
  BY NoFrameFields DEF Busy
<1>2. pc \in Working /\ linked
  BY <1>1 DEF StepInv, Pulled, Rebooting, Over, AtRest, SafeInv, TypeInv, TypeOK
<1>3. pc \in {"status", "poll", "timeout"} /\ chip.op = CurrentOp
  BY <1>1, <1>2 DEF StepInv, InStep, AtRest, Working
<1>4. QED
  BY <1>2, <1>3, CurrentOpType
     DEF StepInv, SafeInv, TypeInv, TypeOK, Position, Reporting

\* Of the protection a clean run only learns what it did itself.
LEMMA WritableBefore ==
    ASSUME StepInv, [Next]_vars, clean, cmd' = cmd, Writable',
           pc \in Working \/ stage = "reboot" \/ exit = "ok"
    PROVE  Writable
<1> SUFFICES ASSUME chip.prot # chip'.prot PROVE Erases(cmd)
  BY DEF Writable
<1>1. chip \in Chip /\ SafeInv /\ TypeInv /\ ChipOK /\ Position
  BY DEF StepInv, SafeInv, TypeInv, TypeOK
<1>2. ~(Reported /\ pc \in Opening \cup Reporting)
  BY <1>1, AfterReportSound DEF Reported
<1>3. CASE Unplug \/ OperationEnds
  <2>1. chip.op.kind = "unprotect"
    <3>1. CASE Unplug
      BY <1>1, <3>1, PowerCycleFields DEF Unplug
    <3>2. CASE OperationEnds
      BY <1>1, <3>2, FinishFields DEF OperationEnds, Chip
    <3>3. QED
      BY <1>3, <3>1, <3>2
  <2>2. stage = "unprotect" /\ pc \in {"status", "poll", "timeout"}
    BY <2>1, OnlyCurrentOpRuns DEF Busy
  <2>3. QED
    BY <1>1, <2>2 DEF Position, Reporting
<1>4. CASE ReportFails
  BY <1>2, <1>4 DEF ReportFails
<1>5. CASE ReadId \/ GotId \/ WriteEnable \/ SendReport \/ ReadStatus \/ Poll
           \/ Release \/ TimedOut
  BY <1>2, <1>5 DEF ReadId, GotId, WriteEnable, SendReport, ReadStatus, Poll,
                    Release, TimedOut, Opening, Reporting
<1>6. CASE Start \/ OpenHandle \/ NoDevice \/ Refuse \/ SkipSide \/ BeginCall
           \/ UpdateFirmware \/ Finished \/ Kill \/ UNCHANGED vars
  BY <1>6 DEF Start, OpenHandle, NoDevice, Refuse, SkipSide, BeginCall,
              UpdateFirmware, Finished, Kill, vars
<1>7. QED
  BY <1>3, <1>4, <1>5, <1>6 DEF Next, Proceed

\* In a clean run only the unit of the current call changes.
LEMMA OnlyCurrentUnit ==
    ASSUME StepInv, [Next]_vars, clean, Fits(cmd),
           pc \in Working \/ stage = "reboot" \/ exit = "ok",
           NEW p \in Pages, chip'.mem[p] # chip.mem[p]
    PROVE  /\ Busy(chip)
           /\ side \in Calls(cmd)
           /\ p \in EraseUnit(cmd, side)
<1>1. p \in chip.op.pages /\ Sound(chip) /\ TypeInv
  BY ChangedPages DEF StepInv, SafeInv, ChipOK
<1>2. Busy(chip)
  BY <1>1, NoFrameFields DEF Sound
<1>3. /\ p \in CurrentOp.pages /\ side \in Calls(cmd) /\ cmd \in Commands
      /\ pc \in Reporting /\ stage \in {"unprotect", "erase", "program"}
  BY <1>1, <1>2, OnlyCurrentOpRuns DEF Reporting
<1>4. CASE stage = "program"
  <2>1. wrote + 1 \in DOMAIN cmd.data[side] /\ wrote \in Nat /\ side \in DOMAIN cmd.data
    BY <1>1, <1>3, <1>4 DEF TypeInv, TypeOK, Position, Calls
  <2>2. wrote \in 0 .. Len(cmd.data[side]) - 1
    BY <1>3, <2>1, CmdType
  <2>3. p \in PagesOf(cmd, side)
    BY <1>3, <1>4, <2>2 DEF CurrentOp, PagesOf
  <2>4. QED
    BY <1>2, <1>3, <2>3 DEF Fits
<1>5. CASE stage # "program"
  BY <1>2, <1>3, <1>5 DEF CurrentOp
<1>6. QED
  BY <1>4, <1>5

\* what a call that returns true has written
LEMMA CallWritten ==
    ASSUME DataInv, clean, Release, CallEnds(TRUE), pc' = "next", NextOperation,
           stage # "unprotect", Writable, Fits(cmd),
           (stage = "erase") => cmd.data[side] = <<>>,
           (stage = "program") => wrote + 1 = Len(cmd.data[side])
    PROVE  CallDone(cmd, side)
<1>1. /\ pc = "release" /\ linked /\ StepInv /\ CallProgress /\ TypeInv
      /\ side \in DOMAIN cmd.data /\ cmd \in Commands
      /\ pc \in Reporting \ {"timeout"}
  BY DEF Release, Reported, DataInv, StepInv, SafeInv, TypeInv, TypeOK, Position,
         Reporting, Calls
<1>2. chip.op = NoOp
  BY <1>1 DEF StepInv, InStep, Working
<1>3. ~Before
  BY <1>1, <1>2, NoFrameFields DEF Before, Busy
<1>4. stage \in {"erase", "program"}
  BY <1>1, CurrentOpType
<1>5. Holding(chip.mem, cmd, side, Len(cmd.data[side]))
  <2>1. CASE stage = "erase"
    <3>1. Len(cmd.data[side]) = 0
      BY <2>1
    <3>2. QED
      BY <1>1, <1>3, <2>1, <3>1 DEF CallProgress
  <2>2. CASE stage = "program"
    BY <1>1, <1>3, <2>2 DEF CallProgress, Programs
  <2>3. QED
    BY <1>4, <2>1, <2>2
<1>6. QED
  BY <1>1, <1>5, HoldingAll DEF CallDone

LEMMA ChipTyped ==
    ASSUME StepInv, [Next]_vars
    PROVE  /\ chip \in Chip /\ chip' \in Chip
           /\ cmd \in Commands /\ TypeInv /\ Position
           /\ (\A p \in Pages : chip'.mem[p] = chip.mem[p]) => chip'.mem = chip.mem
<1>1. TypeInv /\ TypeInv'
  BY TypeNext DEF StepInv, SafeInv
<1>2. chip \in Chip /\ chip' \in Chip
  BY <1>1 DEF TypeInv, TypeOK
<1>3. chip.mem \in [Pages -> Content] /\ chip'.mem \in [Pages -> Content]
  BY <1>2 DEF Chip
<1>4. QED
  BY <1>1, <1>2, <1>3 DEF TypeInv, TypeOK

LEMMA OkNext == DataInv /\ [Next]_vars => OkIsTrue'
<1> SUFFICES ASSUME DataInv, [Next]_vars, exit' = "ok", clean', Writable', Fits(cmd')
             PROVE  /\ ~Busy(chip') /\ chip'.frame.cmd = "none"
                    /\ \A s \in Calls(cmd') : CallDone(cmd, s)'
  BY DEF OkIsTrue
<1>1. StepInv /\ TypeInv /\ Position /\ Over /\ chip \in Chip /\ cmd \in Commands
  BY ChipTyped DEF DataInv, StepInv
<1>2. CASE Finished
  <2>1. /\ clean /\ pc = "next" /\ cmd' = cmd /\ chip' = chip
        /\ side > Len(cmd.data)
    BY <1>2 DEF Finished, Exit
  <2>2. AtRest
    BY <1>1, <2>1, RestBetweenCalls
  <2>3. Writable /\ Fits(cmd)
    BY <2>1 DEF Writable
  <2>4. \A s \in Calls(cmd) : s < side
    <3>1. side \in Int /\ Len(cmd.data) \in Nat
      BY <1>1, CmdType DEF TypeInv, TypeOK
    <3>2. QED
      BY <1>1, <2>1, <3>1, CmdType DEF Calls
  <2>5. \A s \in Calls(cmd) : CallDone(cmd, s)
    BY <2>1, <2>3, <2>4 DEF DataInv, CallsDone, Working
  <2>6. QED
    BY <2>1, <2>2, <2>5, NoFrameFields DEF AtRest, Busy, CallDone
<1>3. CASE ~Finished
  <2>1. exit = "ok" /\ pc = "idle"
    <3>1. exit = "ok"
      BY <1>3 DEF Next, Proceed, vars, Start, OpenHandle, NoDevice, ReadId, GotId, Refuse,
                  SkipSide, BeginCall, UpdateFirmware, WriteEnable, SendReport,
                  ReadStatus, Poll, Release, NextOperation, TimedOut, ReportFails,
                  Kill, Unplug, OperationEnds, Exit, CallEnds, GoTo
    <3>2. QED
      BY <1>1, <3>1 DEF Over
  <2>2. Unplug \/ OperationEnds \/ UNCHANGED vars
    BY <2>1 DEF Next, Proceed, Start, OpenHandle, NoDevice, ReadId, GotId, Refuse,
                SkipSide, BeginCall, UpdateFirmware, Finished, WriteEnable, SendReport,
                ReadStatus, Poll, Release, TimedOut, ReportFails, Opening, Reporting,
                Kill
  <2>3. cmd' = cmd /\ clean
    BY <2>2 DEF Unplug, OperationEnds, vars
  <2>4. AtRest
    BY <1>1, <2>1, <2>3 DEF Over
  <2>5. ~Busy(chip)
    BY <2>4, NoFrameFields DEF AtRest, Busy
  <2>6. chip'.mem = chip.mem
    BY <1>1, <2>1, <2>3, <2>5, OnlyCurrentUnit, ChipTyped
  <2>7. Writable
    BY <1>1, <2>1, <2>3, WritableBefore
  <2>8. \A s \in Calls(cmd) : CallDone(cmd, s)
    BY <2>1, <2>3, <2>7 DEF DataInv, OkIsTrue
  <2>9. AtRest'
    <3>1. CASE Unplug
      BY <1>1, <3>1, PowerCycleFields DEF Unplug, AtRest
    <3>2. CASE UNCHANGED vars
      BY <2>4, <3>2 DEF vars, AtRest
    <3>3. QED
      BY <2>2, <2>5, <3>1, <3>2 DEF OperationEnds
  <2>10. QED
    BY <2>3, <2>6, <2>8, <2>9, NoFrameFields DEF AtRest, Busy, CallDone
<1>4. QED
  BY <1>2, <1>3

LEMMA DoneNext == DataInv /\ [Next]_vars => CallsDone'
<1> SUFFICES ASSUME DataInv, [Next]_vars, clean', Writable', Fits(cmd'),
                    pc' \in Working \/ stage' = "reboot",
                    NEW s \in Calls(cmd'), s < side'
             PROVE  CallDone(cmd, s)'
  BY DEF CallsDone
<1>1. StepInv /\ TypeInv /\ Position /\ cmd \in Commands /\ side \in Int
  BY ChipTyped DEF DataInv, TypeInv, TypeOK
\* a finished call stays done
<1>2. ASSUME cmd' = cmd, clean, pc \in Working \/ stage = "reboot", s < side
      PROVE  CallDone(cmd, s)'
  <2>1. Writable /\ Fits(cmd)
    BY <1>1, <1>2, WritableBefore
  <2>2. \A w \in Asked(cmd, s) : chip.mem[w[1]] = w[2]
    BY <1>2, <2>1 DEF DataInv, CallsDone, CallDone
  <2>3. \A w \in Asked(cmd, s) : chip'.mem[w[1]] = w[2]
    <3>1. CASE chip'.mem = chip.mem
      BY <2>2, <3>1
    <3>2. CASE chip'.mem # chip.mem
      <4>1. side \in Calls(cmd)
        BY <1>1, <1>2, <2>1, <3>2, OnlyCurrentUnit, ChipTyped
      <4>2. \A p \in Pages \ EraseUnit(cmd, side) : chip'.mem[p] = chip.mem[p]
        BY <1>1, <1>2, <2>1, OnlyCurrentUnit
      <4>3. s \in Calls(cmd) /\ side # s
        BY <1>1, <1>2 DEF Calls
      <4>4. /\ SameOutside(chip.mem, chip'.mem, EraseUnit(cmd, side))
            /\ HoldsAsked(chip.mem, cmd, s)
        BY <2>2, <4>2 DEF SameOutside, HoldsAsked
      <4>5. HoldsAsked(chip'.mem, cmd, s)
        BY <1>1, <2>1, <4>1, <4>3, <4>4, OtherCallsKept
      <4>6. QED
        BY <4>5 DEF HoldsAsked
    <3>3. QED
      BY <3>1, <3>2
  <2>4. QED
    BY <1>2, <2>3 DEF CallDone
<1>3. CASE GotId
  <2>1. cmd' = cmd /\ clean /\ side' = side /\ stage' = stage /\ pc = "gotid"
    BY <1>3 DEF GotId, GoTo, Exit, Working
  <2>2. CASE stage = "reboot"
    BY <1>2, <2>1, <2>2
  <2>3. CASE stage # "reboot"
    <3>1. side' = 1
      BY <1>1, <2>1, <2>3 DEF Position, Working
    <3>2. s \in 1 .. Len(cmd.data) /\ Len(cmd.data) \in Nat
      BY <1>1, <2>1, CmdType DEF Calls
    <3>3. QED
      BY <3>1, <3>2
  <2>4. QED
    BY <2>2, <2>3
<1>4. CASE Release /\ CallEnds(TRUE)
  <2>1. /\ cmd' = cmd /\ clean /\ side' = side + 1 /\ pc' = "next" /\ NextOperation
        /\ pc = "release" /\ Reported
    BY <1>4 DEF Release, CallEnds
  <2>2. CASE s < side
    BY <1>2, <2>1, <2>2 DEF Working
  <2>3. CASE s = side
    <3>1. Writable /\ Fits(cmd)
      BY <1>1, <2>1, WritableBefore DEF Working
    <3>2. /\ stage # "unprotect"
          /\ (stage = "erase") => cmd.data[side] = <<>>
          /\ (stage = "program") => wrote + 1 = Len(cmd.data[side])
      BY <2>1 DEF NextOperation
    <3>3. CallDone(cmd, side)
      BY <1>4, <2>1, <3>1, <3>2, CallWritten
    <3>4. chip'.mem = chip.mem
      BY <1>1, <2>1, AfterReportSound DEF StepInv, SafeInv, Reported, Reporting
    <3>5. QED
      BY <2>1, <2>3, <3>3, <3>4 DEF CallDone
  <2>4. QED
    BY <1>1, <2>1, <2>2, <2>3, CmdType DEF Calls
<1>5. CASE SkipSide
  <2>1. /\ cmd' = cmd /\ clean /\ side' = side + 1 /\ pc = "next" /\ Skipped(cmd, side)
    BY <1>5 DEF SkipSide
  <2>2. s \in DOMAIN cmd.data /\ s # side
    BY <2>1 DEF Calls
  <2>3. s < side
    BY <1>1, <2>1, <2>2, CmdType
  <2>4. QED
    BY <1>2, <2>1, <2>3 DEF Working
<1>6. CASE ~GotId /\ ~(Release /\ CallEnds(TRUE)) /\ ~SkipSide
  <2>1. CASE Start \/ NoDevice \/ Refuse \/ Finished \/ Kill
    BY <1>1, <2>1
       DEF Start, NoDevice, Refuse, Finished, Kill, Exit, Working, Position
  <2>2. CASE OpenHandle \/ ReadId
    BY <1>2, <2>2 DEF OpenHandle, ReadId, GoTo, Working
  <2>3. CASE BeginCall \/ UpdateFirmware
    BY <1>2, <2>3 DEF BeginCall, UpdateFirmware, Working
  <2>4. CASE WriteEnable \/ SendReport \/ ReadStatus \/ Poll
    BY <1>2, <2>4 DEF WriteEnable, SendReport, ReadStatus, Poll, GoTo, Working
  <2>5. CASE Release
    BY <1>2, <1>6, <2>5 DEF Release, NextOperation, Working
  <2>6. CASE TimedOut \/ ReportFails
    BY <2>6 DEF TimedOut, ReportFails, CallEnds, Exit, Working
  <2>7. CASE Unplug \/ OperationEnds
    BY <1>2, <2>7 DEF Unplug, OperationEnds
  <2>8. CASE UNCHANGED vars
    BY <1>2, <2>8 DEF vars
  <2>9. QED
    BY <1>6, <2>1, <2>2, <2>3, <2>4, <2>5, <2>6, <2>7, <2>8 DEF Next, Proceed
<1>7. QED
  BY <1>3, <1>4, <1>5, <1>6

LEMMA ProgressNext == DataInv /\ [Next]_vars => CallProgress'
<1> DEFINE Goal ==
      /\ stage' = "unprotect" /\ ~Before' => ~chip'.prot
      /\ stage' \in {"erase", "program"} => ~chip'.prot
      /\ stage' = "erase" /\ ~Before' => Holding(chip'.mem, cmd', side', 0)
      /\ stage' = "program" => Holding(chip'.mem, cmd', side', Programs')
<1> SUFFICES ASSUME DataInv, [Next]_vars, clean', linked', Writable', Fits(cmd'),
                    pc' \in Reporting \ {"timeout"}
             PROVE  Goal
  BY DEF CallProgress
<1>1. /\ StepInv /\ TypeInv /\ Position /\ InStep /\ CallProgress /\ chip \in Chip
      /\ cmd \in Commands
  BY ChipTyped DEF DataInv, StepInv
<1>2. CASE BeginCall
  <2>1. /\ cmd' = cmd /\ chip' = chip /\ pc' = "wren"
        /\ stage' = IF Erases(cmd) THEN "unprotect" ELSE "erase"
    BY <1>2 DEF BeginCall, FirstStage
  <2>2. Before'
    BY <2>1 DEF Before
  <2>3. QED
    BY <2>1, <2>2 DEF Writable
\* the operation in hand goes on, or does not yet go on
<1>3. ASSUME UNCHANGED <<cmd, side, stage, wrote>>, clean, linked,
             pc \in Reporting \ {"timeout"}, chip'.mem = chip.mem, chip'.prot = chip.prot,
             Before' = Before
      PROVE  Goal
  <2>1. Writable /\ Fits(cmd)
    BY <1>3 DEF Writable
  <2>2. Programs' = Programs
    BY <1>3 DEF Programs
  <2>3. QED
    BY <1>1, <1>3, <2>1, <2>2 DEF CallProgress
<1>4. CASE WriteEnable \/ SendReport \/ ReadStatus \/ Poll
  <2>1. /\ Reported /\ linked /\ clean
        /\ pc \in {"wren", "send", "status", "poll"}
        /\ UNCHANGED <<cmd, side, stage, wrote>>
    BY <1>4 DEF WriteEnable, SendReport, ReadStatus, Poll, Reported, GoTo
  <2>2. pc \in Reporting \ {"timeout"}
    BY <2>1 DEF Reporting
  <2>3. chip'.mem = chip.mem /\ chip'.prot = chip.prot
    BY <1>1, <2>1, <2>2, AfterReportSound DEF Reported, StepInv, SafeInv
  <2>4. Writable /\ Fits(cmd)
    BY <2>1, <2>3 DEF Writable
  <2>5. Before' = Before
    <3>1. CASE WriteEnable \/ (SendReport /\ ~LastReport)
      BY <3>1 DEF WriteEnable, SendReport, GoTo, Before
    <3>2. CASE SendReport /\ LastReport
      <4>1. stage \in {"unprotect", "erase", "program"} /\ CurrentOp.kind = stage
        BY <1>1, <2>2, CurrentOpType
      <4>2. (stage # "unprotect") => ~chip.prot
        BY <1>1, <2>1, <2>2, <2>4, <4>1 DEF CallProgress
      <4>3. chip'.op = CurrentOp
        BY <1>1, <2>1, <2>2, <3>2, <4>1, <4>2, ReportInStep DEF SendReport
      <4>4. Busy(chip')
        BY <4>1, <4>3 DEF Busy
      <4>5. QED
        BY <3>2, <4>4 DEF Before, SendReport
    <3>3. CASE ReadStatus
      BY <1>1, <2>1, <2>2, <3>3, ReportInStep DEF ReadStatus, GoTo, Before, Busy
    <3>4. CASE Poll
      BY <1>1, <2>1, <2>2, <3>4, ReportInStep
         DEF Poll, AfterPoll, GoTo, Before, Busy
    <3>5. QED
      BY <1>4, <3>1, <3>2, <3>3, <3>4
  <2>6. QED
    BY <1>3, <2>1, <2>2, <2>3, <2>5
<1>5. CASE Release
  <2>1. /\ Reported /\ linked /\ clean /\ pc = "release" /\ NextOperation /\ pc' = "wren"
        /\ cmd' = cmd /\ side' = side
    BY <1>5 DEF Release, Reported, NextOperation, CallEnds, Reporting
  <2>2. pc \in Reporting \ {"timeout"}
    BY <2>1 DEF Reporting
  <2>3. chip'.mem = chip.mem /\ chip'.prot = chip.prot
    BY <1>1, <2>1, <2>2, AfterReportSound DEF Reported, StepInv, SafeInv
  <2>4. Writable /\ Fits(cmd)
    BY <2>1, <2>3 DEF Writable
  <2>5. ~Before /\ Before'
    BY <1>1, <2>1, NoFrameFields DEF Before, Busy, InStep, Working
  <2>6. Programs = wrote + 1 /\ Programs' = wrote'
    BY <2>5 DEF Programs
  <2>7. /\ (stage = "unprotect") => ~chip.prot
        /\ (stage \in {"erase", "program"}) => ~chip.prot
        /\ (stage = "erase") => Holding(chip.mem, cmd, side, 0)
        /\ (stage = "program") => Holding(chip.mem, cmd, side, wrote + 1)
    BY <1>1, <2>1, <2>2, <2>4, <2>5, <2>6 DEF CallProgress
  <2>8. \/ stage = "unprotect" /\ stage' = "erase"
        \/ stage = "erase" /\ stage' = "program" /\ wrote' = wrote
        \/ stage = "program" /\ stage' = stage /\ wrote' = wrote + 1
    BY <2>1 DEF NextOperation, CallEnds
  <2>9. (stage # "program") => wrote = 0
    BY <1>1, <2>2 DEF Position
  <2>10. QED
    BY <2>1, <2>3, <2>5, <2>6, <2>7, <2>8, <2>9
<1>6. CASE OperationEnds
  <2>1. /\ Busy(chip) /\ chip' = Finish(chip) /\ clean /\ linked
        /\ UNCHANGED <<pc, cmd, side, stage, wrote>>
        /\ pc \in Reporting \ {"timeout"}
    BY <1>6 DEF OperationEnds
  <2>2. pc \in Working
    BY <2>1 DEF Reporting, Working
  <2>3. /\ chip.op = CurrentOp /\ CurrentOp.kind = stage /\ side \in Calls(cmd)
        /\ pc \in {"status", "poll"} /\ stage \in {"unprotect", "erase", "program"}
    BY <1>1, <2>1, <2>2, OnlyCurrentOpRuns
  <2>4. /\ chip'.mem = Effect(chip.mem, CurrentOp) /\ chip'.op = NoOp
        /\ chip'.prot = (chip.prot /\ stage # "unprotect")
    BY <1>1, <2>1, <2>3, FinishFields
  <2>5. Writable /\ Fits(cmd)
    BY <1>1, <2>1, <2>2, WritableBefore
  <2>6. Before /\ ~Before'
    BY <2>1, <2>3, <2>4, NoFrameFields DEF Before, Busy
  <2>7. side \in DOMAIN cmd.data
    BY <2>3 DEF Calls
  <2>8. CASE stage = "unprotect"
    BY <2>1, <2>4, <2>8
  <2>9. CASE stage = "erase"
    <3>1. CurrentOp.pages = EraseUnit(cmd, side) /\ CurrentOp.kind = "erase"
      BY <2>9 DEF CurrentOp
    <3>2. Holding(chip'.mem, cmd, side, 0)
      BY <1>1, <2>4, <2>7, <3>1, EraseHolds
    <3>3. ~chip.prot
      BY <1>1, <2>1, <2>5, <2>9 DEF CallProgress
    <3>4. QED
      BY <2>1, <2>4, <2>9, <3>2, <3>3
  <2>10. CASE stage = "program"
    <3>1. /\ CurrentOp.pages = {PageAt(cmd, side, wrote)} /\ CurrentOp.kind = "program"
          /\ CurrentOp.img = cmd.data[side][wrote + 1]
      BY <2>10 DEF CurrentOp
    <3>2. wrote + 1 \in DOMAIN cmd.data[side] /\ wrote \in Nat
      BY <1>1, <2>1, <2>10 DEF Position, TypeInv, TypeOK
    <3>3. wrote \in 0 .. Len(cmd.data[side]) - 1
      BY <1>1, <2>7, <3>2, CmdType
    <3>4. Holding(chip.mem, cmd, side, wrote) /\ ~chip.prot
      BY <1>1, <2>1, <2>5, <2>6, <2>10 DEF CallProgress, Programs
    <3>5. Holding(chip'.mem, cmd, side, wrote + 1)
      BY <1>1, <2>3, <2>4, <2>5, <3>1, <3>3, <3>4, ProgramHolds
    <3>6. Programs' = wrote + 1
      BY <2>1, <2>6 DEF Programs
    <3>7. QED
      BY <2>1, <2>4, <2>10, <3>4, <3>5, <3>6
  <2>11. QED
    BY <2>3, <2>8, <2>9, <2>10
<1>7. CASE UNCHANGED vars
  <2>1. /\ UNCHANGED <<pc, cmd, side, stage, wrote, chip>> /\ clean /\ linked
    BY <1>7 DEF vars
  <2>2. Before' = Before
    BY <2>1 DEF Before
  <2>3. QED
    BY <1>3, <2>1, <2>2
<1>8. CASE Start \/ OpenHandle \/ NoDevice \/ ReadId \/ GotId \/ Refuse \/ SkipSide
           \/ UpdateFirmware \/ Finished \/ TimedOut \/ ReportFails \/ Kill \/ Unplug
  BY <1>8 DEF Start, OpenHandle, NoDevice, ReadId, GotId, Refuse, SkipSide,
              UpdateFirmware, Finished, TimedOut, ReportFails, Kill, Unplug,
              GoTo, Exit, CallEnds, Reporting
<1>9. QED
  BY <1>2, <1>4, <1>5, <1>6, <1>7, <1>8 DEF Next, Proceed

\* "Ok." after a run none of whose calls failed is true, and stays true until
\* the next run: every unit the command names holds what was asked, and the
\* chip has nothing left to do.
THEOREM OkHolds == Spec => []OkIsTrue
<1>1. Init => DataInv
  BY DataInit
<1>2. DataInv /\ [Next]_vars => DataInv'
  BY StepNext, ProgressNext, DoneNext, OkNext DEF DataInv
<1>3. DataInv => OkIsTrue
  BY DEF DataInv
<1>4. QED
  BY <1>1, <1>2, <1>3, PTL DEF Spec

-----------------------------------------------------------------------------
(***************************************************************************)
(* SpiFlash implements FlashStore, for every value of the constants.       *)
(***************************************************************************)

\* A step puts no page at stake but those of the run that has the device open.
LEMMA PendingKept ==
    ASSUME SafeInv, [Next]_vars
    PROVE  Pending' \subseteq Loose
<1>1. /\ chip \in Chip /\ TypeInv /\ ChipOK /\ Own
      /\ Pending = PagesPending(chip) /\ Pending' = PagesPending(chip')
  BY DEF SafeInv, TypeInv, TypeOK, Pending, PagesPending
<1>2. Pending \subseteq Loose
  BY <1>1 DEF Loose, Own
<1>3. ASSUME Reported, pc \in Opening \cup Reporting
      PROVE  Pending' \subseteq Loose
  <2>1. Pending' \subseteq Pending \cup (IF pc \in Reporting THEN Footprint(cmd) ELSE {})
    BY <1>1, <1>3, AfterReportSound DEF Reported
  <2>2. pc \in Reporting => Loose = Footprint(cmd)
    BY DEF Loose, Reporting, Working
  <2>3. QED
    BY <1>2, <2>1, <2>2
<1>4. CASE Unplug
  <2>1. chip'.op = NoOp /\ chip'.frame = NoFrame
    BY <1>1, <1>4, PowerCycleFields DEF Unplug
  <2>2. QED
    BY <1>1, <2>1, NoFrameFields DEF PagesPending
<1>5. CASE OperationEnds
  <2>1. chip'.op = NoOp /\ chip'.frame = chip.frame
    BY <1>1, <1>5, FinishFields DEF OperationEnds
  <2>2. QED
    BY <1>1, <1>2, <2>1, NoFrameFields DEF PagesPending
<1>6. CASE ReadId \/ GotId \/ WriteEnable \/ SendReport \/ ReadStatus \/ Poll
           \/ Release \/ TimedOut
  BY <1>3, <1>6 DEF ReadId, GotId, WriteEnable, SendReport, ReadStatus, Poll,
                    Release, TimedOut, Opening, Reporting
<1>7. CASE ReportFails
  <2>1. pc \in Opening \cup Reporting /\ (chip' = chip \/ Reported)
    BY <1>7 DEF ReportFails
  <2>2. QED
    BY <1>1, <1>2, <1>3, <2>1
<1>8. CASE Start \/ OpenHandle \/ NoDevice \/ Refuse \/ SkipSide \/ BeginCall
           \/ UpdateFirmware \/ Finished \/ Kill \/ UNCHANGED vars
  <2>1. chip' = chip
    BY <1>8 DEF Start, OpenHandle, NoDevice, Refuse, SkipSide, BeginCall,
                UpdateFirmware, Finished, Kill, vars
  <2>2. QED
    BY <1>1, <1>2, <2>1
<1>9. QED
  BY <1>4, <1>5, <1>6, <1>7, <1>8 DEF Next, Proceed

\* A device that has opened is one whose chip has nothing left to do.
LEMMA OpensAtRest ==
    ASSUME SafeInv, Identified
    PROVE  Pending = {}
<1>1. chip.op = NoOp /\ chip.frame.op = NoOp
  BY DEF SafeInv, ChipOK, Sound, Identified
<1>2. QED
  BY <1>1, NoFrameFields DEF Pending

\* Only opening the device begins to work, and only the end of a run says "ok".
LEMMA WorkBegins ==
    ASSUME [Next]_vars, ~(GotId /\ Identified), pc' \in Working
    PROVE  pc \in Working /\ cmd' = cmd
<1>1. CASE Start \/ OpenHandle \/ NoDevice \/ ReadId \/ GotId \/ Refuse \/ UpdateFirmware
           \/ Finished \/ Kill
  BY <1>1 DEF Start, OpenHandle, NoDevice, ReadId, GotId, Refuse, UpdateFirmware,
              Finished, Kill, Exit, GoTo, Working
<1>2. CASE SkipSide \/ BeginCall \/ Unplug \/ OperationEnds \/ UNCHANGED vars
  BY <1>2 DEF SkipSide, BeginCall, Unplug, OperationEnds, vars, Working
<1>3. CASE WriteEnable \/ SendReport \/ ReadStatus \/ Poll \/ Release \/ TimedOut
  BY <1>3 DEF WriteEnable, SendReport, ReadStatus, Poll, Release, NextOperation,
              TimedOut, CallEnds, GoTo, Working
<1>4. CASE ReportFails
  BY <1>4 DEF ReportFails, Exit, CallEnds, Reporting, Working
<1>5. QED
  BY <1>1, <1>2, <1>3, <1>4 DEF Next, Proceed

LEMMA OkStays ==
    ASSUME [Next]_vars, Over, ~Finished, exit' = "ok"
    PROVE  exit = "ok" /\ pc = "idle" /\ cmd' = cmd /\ clean' = clean
<1>1. exit = "ok"
  BY DEF Next, Proceed, vars, Start, OpenHandle, NoDevice, ReadId, GotId, Refuse,
         SkipSide, BeginCall, UpdateFirmware, WriteEnable, SendReport,
         ReadStatus, Poll, Release, NextOperation, TimedOut, ReportFails,
         Kill, Unplug, OperationEnds, Exit, CallEnds, GoTo
<1>2. pc = "idle"
  BY <1>1 DEF Over
<1>3. Unplug \/ OperationEnds \/ UNCHANGED vars
  BY <1>2 DEF Next, Proceed, Start, OpenHandle, NoDevice, ReadId, GotId, Refuse,
              SkipSide, BeginCall, UpdateFirmware, Finished, WriteEnable, SendReport,
              ReadStatus, Poll, Release, TimedOut, ReportFails, Opening, Reporting,
              Kill
<1>4. QED
  BY <1>1, <1>2, <1>3 DEF Unplug, OperationEnds, vars

-----------------------------------------------------------------------------
(* the steps of SpiFlash as steps of the store *)

LEMMA ClaimStep ==
    ASSUME DataInv, [Next]_vars, GotId, Identified
    PROVE  Store!StoreNext
<1>1. /\ SafeInv /\ Over /\ cmd \in Commands
      /\ (\A p \in Pages : chip'.mem[p] = chip.mem[p]) => chip'.mem = chip.mem
  BY ChipTyped DEF DataInv, StepInv
<1>2. pc = "gotid" /\ pc' = "next" /\ cmd' = cmd /\ exit' = exit
  BY DEF GotId, GoTo
<1>3. Loose = {}
  BY <1>1, <1>2, OpensAtRest DEF Loose, Working
<1>4. Loose' = Request(cmd).foot
  BY <1>2 DEF Loose, Working, Request
<1>5. Confirmed' = {}
  BY <1>1, <1>2 DEF Over, Confirmed
<1>6. chip'.mem = chip.mem
  <2>1. chip.op.pages = {}
    BY <1>1, OpensAtRest DEF Pending
  <2>2. QED
    BY <1>1, <2>1, ChangedPages
<1>7. Store!Claim(Request(cmd))
  BY <1>3, <1>4, <1>5, <1>6 DEF Store!Claim
<1>8. Request(cmd) \in {Request(c) : c \in Commands}
  BY <1>1
<1>9. QED
  BY <1>7, <1>8 DEF Store!StoreNext

LEMMA ConfirmStep ==
    ASSUME DataInv, [Next]_vars, Finished, Confirmed' # {}
    PROVE  Store!StoreNext
<1>1. /\ pc = "next" /\ clean /\ cmd' = cmd /\ chip' = chip /\ pc' = "idle"
      /\ side > Len(cmd.data) /\ cmd \in Commands
      /\ Writable /\ Fits(cmd) /\ Confirmed' = {Request(cmd)}
  BY ChipTyped DEF Finished, Exit, Confirmed, Writable, DataInv
<1>2. Loose = Request(cmd).foot
  BY <1>1 DEF Loose, Working, Request
<1>3. AtRest
  BY <1>1, RestBetweenCalls DEF DataInv
<1>4. Loose' = {}
  BY <1>1, <1>3, NoFrameFields DEF Loose, Working, Pending, AtRest
<1>5. ASSUME NEW w \in Request(cmd).want
      PROVE  chip.mem[w[1]] = w[2]
  <2>1. PICK s \in Calls(cmd) : w \in Asked(cmd, s)
    BY <1>1, <1>5 DEF Request
  <2>2. s < side
    <3>1. side \in Int
      BY DEF DataInv, StepInv, SafeInv, TypeInv, TypeOK
    <3>2. QED
      BY <1>1, <2>1, <3>1, CmdType DEF Calls
  <2>3. CallDone(cmd, s)
    BY <1>1, <2>2 DEF DataInv, CallsDone, Working
  <2>4. QED
    BY <2>1, <2>3 DEF CallDone
<1>6. Store!Confirm(Request(cmd))
  BY <1>1, <1>2, <1>4, <1>5 DEF Store!Confirm, Store!Holds
<1>7. Request(cmd) \in {Request(c) : c \in Commands}
  BY <1>1
<1>8. QED
  BY <1>6, <1>7 DEF Store!StoreNext

LEMMA ChangeStep ==
    ASSUME DataInv, [Next]_vars, ~(GotId /\ Identified), ~(Finished /\ Confirmed' # {})
    PROVE  Store!StoreNext
<1>1. SafeInv /\ Own /\ StepInv /\ Over /\ chip' \in Chip
  BY ChipTyped DEF DataInv, StepInv, SafeInv
<1>2. \A p \in Pages \ Loose : chip'.mem[p] = chip.mem[p]
  BY <1>1, ChangedPages DEF Loose, Own, Pending
<1>3. Loose' \subseteq Loose
  <2>1. CASE pc' \in Working
    BY <2>1, WorkBegins DEF Loose
  <2>2. CASE pc' \notin Working
    BY <1>1, <2>2, PendingKept DEF Loose
  <2>3. QED
    BY <2>1, <2>2
<1>4. Confirmed' \subseteq Confirmed
  <2>1. SUFFICES ASSUME Confirmed' # {} PROVE Confirmed' = Confirmed
    OBVIOUS
  <2>2. exit' = "ok" /\ clean' /\ Writable' /\ Fits(cmd')
        /\ Confirmed' = {Request(cmd')}
    BY <2>1 DEF Confirmed
  <2>3. exit = "ok" /\ pc = "idle" /\ cmd' = cmd /\ clean
    BY <1>1, <2>1, <2>2, OkStays
  <2>4. Writable
    BY <1>1, <2>2, <2>3, WritableBefore
  <2>5. QED
    BY <2>2, <2>3, <2>4 DEF Confirmed
<1>5. chip'.mem \in [Pages -> Content]
  BY <1>1 DEF Chip
<1>6. Store!Change
  BY <1>2, <1>3, <1>4, <1>5 DEF Store!Change
<1>7. QED
  BY <1>6 DEF Store!StoreNext

\* What the flash commands do is what FlashStore promises: a run changes no page
\* it has not claimed, no two claims overlap, and what "Ok." confirms is in the
\* array and stays there until another run claims it.
THEOREM Refinement == Spec => ImplementsStore
<1>1. Init => DataInv
  BY DataInit
<1>2. DataInv /\ [Next]_vars => DataInv'
  BY StepNext, ProgressNext, DoneNext, OkNext DEF DataInv
<1>3. Init => Store!StoreInit
  <2> SUFFICES ASSUME Init PROVE Store!StoreInit
    OBVIOUS
  <2>1. chip.mem \in [Pages -> Content]
    BY DEF Init, Content
  <2>2. Loose = {}
    BY NoFrameFields DEF Init, Loose, Pending, Working
  <2>3. Confirmed = {}
    BY DEF Init, Confirmed
  <2>4. QED
    BY <2>1, <2>2, <2>3 DEF Store!StoreInit
<1>4. DataInv /\ [Next]_vars => [Store!StoreNext]_(Store!storeVars)
  BY ClaimStep, ConfirmStep, ChangeStep
<1>5. QED
  BY <1>1, <1>2, <1>3, <1>4, PTL DEF Spec, ImplementsStore, Store!StoreSpec

\* The runs of the flash commands are requests of FlashStore, so that what it
\* promises below is promised to them.
LEMMA RequestsOfRuns == Store!RequestsFit
<1> SUFFICES ASSUME NEW c \in Commands
             PROVE  /\ Request(c).foot \subseteq Pages
                    /\ Request(c).want \subseteq Request(c).foot \X Content
  BY DEF Store!RequestsFit
<1>1. Request(c).foot = Footprint(c)
      /\ Request(c).want = IF Fits(c) THEN UNION {Asked(c, s) : s \in Calls(c)} ELSE {}
  BY DEF Request
<1>2. ASSUME NEW s \in Calls(c)
      PROVE  /\ EraseUnit(c, s) \cup PagesOf(c, s) \subseteq Pages
             /\ Asked(c, s) \subseteq (EraseUnit(c, s) \cup PagesOf(c, s)) \X Content
  <2>1. s \in DOMAIN c.data /\ Len(c.data[s]) \in Nat
        /\ \A k \in 1 .. Len(c.data[s]) : c.data[s][k] \in Images
    BY CmdType DEF Calls
  <2>2. EraseUnit(c, s) \subseteq Pages
    BY <2>1, EraseUnitType
  <2>3. \A k \in 0 .. Len(c.data[s]) - 1 : PageAt(c, s, k) \in Pages
    BY <2>1, PageAtType
  <2>4. PagesOf(c, s) \subseteq Pages
    BY <2>3 DEF PagesOf
  <2>5. ASSUME NEW k \in 1 .. Len(c.data[s])
        PROVE  PageAt(c, s, k - 1) \in PagesOf(c, s) /\ c.data[s][k] \in Content
    <3>1. k - 1 \in 0 .. Len(c.data[s]) - 1
      BY <2>1
    <3>2. QED
      BY <2>1, <3>1 DEF PagesOf, Content
  <2>6. Erased \in Content
    BY DEF Content
  <2>7. QED
    BY <2>2, <2>4, <2>5, <2>6 DEF Asked
<1>3. Footprint(c) = UNION {EraseUnit(c, s) \cup PagesOf(c, s) : s \in Calls(c)}
  BY DEF Footprint
<1>4. Footprint(c) \subseteq Pages
  BY <1>2, <1>3
<1>5. \A s \in Calls(c) : Asked(c, s) \subseteq Footprint(c) \X Content
  BY <1>2, <1>3
<1>6. QED
  BY <1>1, <1>4, <1>5

-----------------------------------------------------------------------------
(***************************************************************************)
(* What the refinement is worth: any store keeps what it confirms.  The    *)
(* invariant needs its other half: nothing is loose while a confirmation   *)
(* stands.                                                                 *)
(***************************************************************************)
\* Nothing may change while the last run's confirmation stands.
Settled == confirmed # {} => loose = {}

StoreInv == StoreTypeOK /\ Settled /\ ConfirmedHolds

LEMMA StoreBegins == StoreInit => StoreInv
BY DEF StoreInit, StoreInv, StoreTypeOK, Settled, ConfirmedHolds

LEMMA StoreKeeps ==
    ASSUME RequestsFit, StoreInv, [StoreNext]_storeVars
    PROVE  StoreInv'
<1>1. ASSUME NEW r \in Requests, Claim(r) PROVE StoreInv'
  BY <1>1 DEF RequestsFit, Claim, StoreInv, StoreTypeOK, Settled, ConfirmedHolds
<1>2. ASSUME NEW r \in Requests, Confirm(r) PROVE StoreInv'
  <2>1. StoreTypeOK' /\ Settled'
    BY <1>2 DEF Confirm, StoreInv, StoreTypeOK, Settled
  <2>2. ConfirmedHolds'
    BY <1>2 DEF Confirm, ConfirmedHolds, Holds
  <2>3. QED
    BY <2>1, <2>2 DEF StoreInv
<1>3. CASE Change
  <2>1. StoreTypeOK' /\ Settled'
    BY <1>3 DEF Change, StoreInv, StoreTypeOK, Settled
  <2>2. ASSUME NEW r \in confirmed' PROVE Holds(r)'
    <3>1. r \in confirmed /\ r \in Requests /\ loose = {} /\ Holds(r)
      BY <1>3, <2>2 DEF Change, StoreInv, StoreTypeOK, Settled,
                        ConfirmedHolds
    <3>2. \A w \in r.want : w[1] \in Locations
      BY <3>1 DEF RequestsFit
    <3>3. \A p \in Locations : store'[p] = store[p]
      BY <1>3, <3>1 DEF Change
    <3>4. QED
      BY <3>1, <3>2, <3>3 DEF Holds
  <2>3. QED
    BY <2>1, <2>2 DEF StoreInv, ConfirmedHolds
<1>4. CASE UNCHANGED storeVars
  BY <1>4 DEF storeVars, StoreInv, StoreTypeOK, Settled, ConfirmedHolds, Holds
<1>5. QED
  BY <1>1, <1>2, <1>3, <1>4 DEF StoreNext

(***************************************************************************)
(* FlashStore keeps what it confirms, whatever its pages, contents and     *)
(* requests: "Ok." in main is about the flash, not about the reports that  *)
(* were sent.                                                              *)
(***************************************************************************)
THEOREM StoreKeepsPromises ==
    ASSUME RequestsFit
    PROVE  StoreSpec => []ConfirmedHolds
<1>1. StoreInv /\ [StoreNext]_storeVars => StoreInv'
  BY StoreKeeps
<1>2. StoreInv => ConfirmedHolds
  BY DEF StoreInv
<1>3. QED
  BY <1>1, <1>2, StoreBegins, PTL DEF StoreSpec
=============================================================================
