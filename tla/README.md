# A verification model of FDSStick

FDSStick is the host program of a USB adapter ("FDSStick", "FDSemu") for the
Famicom Disk System. One run of the program executes one command: it writes
`.fds` games to the adapter's serial flash, erases and lists them, reads them
back, reads and writes real disks, and updates the adapter's firmware. The
adapter firmware and the flash chip are not in the repository.

This directory holds TLA+ modules that model the program, TLC configurations
that check them on small instances, and TLAPS proofs of what matters most for
every value of the constants.

    tlasany M.tla                    parse
    tlc -config X.cfg MCM            check (runs are listed below)
    tlapm MProofs.tla                prove

## 1. Inventory

### Components, their state and how they interact

| Component | State | Operations | Talks to |
|---|---|---|---|
| `main.cpp` dispatch | none but `success` | one command per process, exit code, "Ok." / "Failed." | everything below |
| `main.cpp` FW_writeFlash | image buffer | stage at 0x8000, reset, sleep 5 s, reopen | spi.cpp, device.cpp |
| `main.cpp` WriteLoader | file buffer | look for the loader's marker, flash slot 0 | fds.cpp |
| `device.cpp` | `handle`, `dev_flashSize`, `dev_slots`, `read_sequence` | open, close, one HID feature report per call | hidapi |
| `spi.cpp` | none (the chip has it) | command frames: write enable, erase, program, status, read ID | device.cpp reports |
| `fds.cpp` slots | none (the flash has it) | FDS_writeFlash, FDS_list, FDS_readFlashToFDS | spi.cpp |
| `fds.cpp` layout | buffers | fds_to_bin, raw03_to_fds, findFirstBlock | pulse code |
| `fds.cpp` pulse code | buffers, positions | bin_to_raw03, block_decode, raw_to_raw03 | - |
| `fds.cpp` bin recovery | buffers | raw03_to_bin, verify_block, crc_detect | - |
| `fds.cpp` disk reading | buffer, count | FDS_readDisk over numbered packets | device.cpp |
| `fds.cpp` disk writing | buffer, side | FDS_writeDisk: SRAM, start, prompt | spi_writeSram, device.cpp, the user |
| `fds.cpp` conversions | buffers | FDS_convertDisk, FDS_convertDiskraw03, FDS_bintofds | layout, pulse code |
| `os.cpp` | none | ticks, sleep, keyboard, files | operating system |
| `hidapi/hid-linux.c` | device, transfer, read thread, queue of reports, mutex and condition | enumerate, open, close, read, feature reports (control transfers), a thread that reads input, a callback in either thread | libusb |
| `hidapi/hid-mac.c` | device, run loop and its thread, queue, two barriers of its own | the same interface | IOKit |
| `hidapi/hid-windows.c` | device, one overlapped read | the same interface, without a thread | kernel |
| flash chip (external) | array, busy, write enable latch, protection, frame | - | reports |
| adapter firmware (external) | SRAM, disk state | - | reports |
| dead code | - | `firmware.cpp`, gameDoctor_to_bin, writeDisk, pageWrite, sectorErase, readStatus | never called |

The program has one thread of its own; the read thread that hidapi starts on
Linux and macOS is the only other one. It queues input reports of which the
program never asks for one, but it is started by dev_open and has to be stopped
by dev_close, and on Linux its transfer's callback also runs inside the
program's own feature reports. What else runs concurrently with the program is the hardware: the
chip finishes an erase when it pleases, the user pulls the stick or presses
Ctrl-C, and *the next run of the program* meets whatever the last one left.

### What is hard here

* An operation of the chip takes several USB reports, any of which may fail, be
  lost or be carried out without an answer; the error paths return with chip
  select low or with an operation in progress.
* A busy chip ignores commands without saying so. The program only ever learns
  the busy bit, so it can take the end of one operation for the success of
  another.
* Nothing in the flash says which game a slot belongs to; -l and -s each
  conclude it from the first bytes of the slots in order.
* Addresses are computed from what the user types, and the chip ignores the
  address bits it has no use for.
* The pulse code measures the pulse it has not finished, in a byte that starts
  at 255, and its last pulse may carry a bit that is not the block's.
* An image has more room than a slot, the check for room counts fewer gaps than
  are written, one buffer serves all sides, and -F reads behind what it loaded.
* Nobody says where a block of a real disk begins or ends: four passes mark
  gaps, each led by the marks of the one before.
* hidapi's flags are set without its mutex, its one broadcast comes from a thread
  that itself waits, and hid_close frees what libusb may still use.
* Disk reading relies on one-byte packet numbers; disk writing on a user who
  waits; the firmware update on five seconds.

`PROJECT.json` lists each of these as a hazard at the line where it bites, with
the property that would catch it, or why there is none.

### What makes each component correct

| Component | Property |
|---|---|
| flash commands | Ok is true (`OkIsTrue`); nothing else changes (`OnlyOwnPages`); no operation goes unheard (`Heard`); every run ends (`RunsEnd`); together they implement the store of `FlashStore`; each byte of a file is programmed once, at its address (`FileWritten`, `OnlyOwnBytes`), and a call is refused exactly when a piece runs over the end of its page (`FailsForReason`) |
| slots | a game that was flashed comes back, or -s says Failed at a side that does not (`ComesBack`); -l and -s agree on what a game is (`ListedLikeSaved`) |
| pulse code | a block comes back bit for bit (`BlockComesBack`) without an overrun (`TypeOK`) |
| layout | an output is one whole side and nothing else (`OneWholeSide`); what fits into a slot comes back (`SideComesBack`); an image stays in its buffer, a decoded side sets no more than three bytes behind its own (`TypeOK`) |
| bin recovery | no mark is set inside a block (`BlocksIntact`); each block comes out whole, aligned and in order (`BlocksComeOut`); indices and bits stay in bounds (`RecoveryTypeOK`) |
| disk reading | what is read is the beginning of the disk (`ReadIsPrefix`) and fits the buffer (`RoomForPacket`) |
| disk writing | a disk written from a complete image holds that side (`DiskHoldsSide`) |
| hidapi | nothing is freed in use (`FreedAtRest`); no wakeup is lost (`NeverSleepsOnReport`, `SleepersHaveNothing`); the end is the end (`EndIsFinal`); reports keep their order (`ImplementsQueue`); hid_close and hid_read return (`CloseReturns`, `EndReachesReader`); macOS's barriers keep the run loop alive for hid_close (`WakesLiveLoop`) |
| firmware update (planned) | "Updated to build n" names a device that has restarted |

## 2. Modules

    FlashChip            the chip, as operators on a record
      SpiFlash           -f -L -W -U -e, one USB report per step
        MCSpiFlash       instance
        SpiFlashProofs   inductive invariant, the refinement, FlashStore's promise
    PageWriter           one write by the byte, in pages and reports
      MCPageWriter       instances, and a comment that does not hold
      PageWriterProofs
    FlashStore           abstract: claims, changes, confirmations
    GameSlots            slots of games under -f -L -e, seen by -l and -s
      MCGameSlots
      GameSlotsProofs
    PulseCode            bits to pulses and back
      MCPulseCode
      PulseCodeProofs
    DiskRead             -r -R, packets from an adapter that does not wait
      MCDiskRead
    DiskWrite            -w, sides through the SRAM to disks
      MCDiskWrite
    DiskLayout           -c -C -F, sides of .fds files and their images
      MCDiskLayout
      DiskLayoutProofs
    BinRecovery          the .bin of -R, blocks found among pulses
      MCBinRecovery
      AdapterProofs      theorems about DiskRead, DiskWrite and BinRecovery
    ReportQueue          abstract: input reports, kept in order
    HidLinux             hidapi on Linux, two threads; implements ReportQueue
      MCHidLinux
      HidLinuxProofs
    HidMac               hidapi on macOS, a run loop's thread and readers; the same
      MCHidMac
      HidMacProofs

FlashStore, DiskRead and BinRecovery have names of their own for what every module has
(`StoreSpec`, `ReadSpec`, `RecoverySpec`), because SpiFlashProofs and AdapterProofs
extend more than one model each.

Names after "(mutants)" in a module are variations of the definition that
follows them, kept to show that a property notices the difference; no
specification uses them.

### FlashChip

What `spi.cpp` presupposes of the serial flash: a record of the array, the
operation in progress, the write enable latch, the protection and the command
frame being shifted. `Select` is a report with `initCS`, `Shift` one without,
`Deselect` the end of a frame (`holdCS` 0). Write enable and write commands take
effect when chip select goes high; a frame cut short programs part of its page
(`Garbled`); programming only clears bits, so a page that was not erased is
spoilt; a busy chip hears nothing but the status command; protection stops
everything but the command that removes it. A report with `initCS` pulses chip
select, whatever the frame before it was.

### SpiFlash

State: the chip, and the program: `pc`, the command (`cmd`), the call of spi.cpp
being made (`side`), the operation of that call (`stage`), pages written
(`wrote`), reports sent (`sent`), whether every call succeeded (`clean`), the
exit (`exit`), the handle (`linked`).

| Code | Actions |
|---|---|
| `dev_open`, `spi_readID`, `spi_readFlashSize` | Start, OpenHandle, NoDevice, ReadId, GotId |
| loops of main and FDS_writeFlash | BeginCall, SkipSide, Refuse, Finished |
| FW_writeFlash | UpdateFirmware (then dev_open again) |
| `writeEnable` | WriteEnable |
| `blockErase`, `blockErase32`, `pageProgram`, status write | SendReport, once per report |
| `writeWait` | ReadStatus, Poll, Release, TimedOut |
| any `dev_spiWrite`/`dev_spiRead` that fails | ReportFails: done or not done, the call returns false |
| outside | Kill, Unplug, OperationEnds |

`clean` is a bookkeeping of the model: FDS_writeFlash drops the results of its
calls, and the properties separate what the program says from what it knows.

Simplifications: addresses are whole pages and a page has one value; the turns
of writeWait's loop are one step, because a turn that reads a busy chip again
changes nothing; the adapter's installation of a firmware image is not modelled;
files are whole pages (PageWriter has the bytes).

### PageWriter

One call of spi_writeFlash or spi_writeFlash2 by the byte, over a chip that is
ready when the program is: `EraseBlock`; `BeginPage`, a turn of the loop with
pageProgram's refusal; `SendReport`, a turn of its loop, `PageSent`, `AllWritten`;
`SendFails` for a report that fails. `wrote` and `size` are the counts of the two
loops, `frame` the bytes of the file (by their place in it) the chip has been sent.
`before` and `failed` are observability variables. A call is one behaviour, over
whatever the flash holds (CHECK_DEADLOCK FALSE at its end).

### FlashStore

The promise behind the commands, without reports: a run claims pages, changes
those and no others, and may confirm its request once and for all. Pages left
loose by a run that died go on changing until they settle, and no other run gets
its claim before. `RequestsFit` is what a request must be for that to be worth
anything: it wants nothing of pages it does not claim. SpiFlash implements the store
(`ImplementsStore`) with the mapping

    store     <- the chip's array
    loose     <- the footprint of a working run, else what the chip has pending
    confirmed <- the request of a run that said Ok with every call successful

### GameSlots

A slot is its first byte (0xff, 0, a name), whether raw03_to_fds decodes it and,
for the properties, which side of which game was written there. A side of a game is
one that fds_to_bin rejects, one that it takes though raw03_to_fds does not decode it
("odd": its second block is of another type), or a good one. -f is one step per side,
-e all one per slot; a step may fail and then leaves any contents or the old ones,
that decode or do not, and the run may be killed between steps. -s and -l read, so
they are operators (`Saved` and `SaveFails`, `Listed`) evaluated in every state, those
of -s for every number of slots it manages to read (`reads`). -s stops with Failed at
a slot it cannot read or decode; -l looks at the first bytes only. `placed` and `sound` are observability variables: they
record which game was flashed without a fault and not touched since, and guard
nothing.

### PulseCode

bin_to_raw03 and block_decode as they are, one loop iteration per step. `used`
and `mark` are observability variables: how many bits the pulses so far stand
for, and where the gap ends. A block may begin at any pulse in front of a long
enough run of zeros, which is what fds_to_bin puts in front of every block
(`GAP` is 968 bits, `MIN_GAP_SIZE` 768). The check of the block's type comes after
the loop and is in DiskLayout; a bad CRC is only reported.

### DiskRead

The host (`reading`, `read_sequence`, `bytesIn`, `readBuf`) and the adapter (`number`
of the next packet, packets `passed`, `lost` since the last one handed over,
`ended`). `ReadPacket` is dev_readDisk with data, one turn of FDS_readDisk's
loop; `ReadNothing` an empty packet, whose number the code does not compare;
`ReadFails` a report that failed; `Overrun` a packet the adapter could not keep.
A packet's contents are its place on the disk. Decoding and opening the file can
go either way in `Save`, and neither changes the result. The process reads once,
so the module ends there (CHECK_DEADLOCK FALSE).

That the adapter numbers packets from 1, counts the lost ones and sends full
packets until the disk ends is what device.cpp's comments and checks presuppose.

### DiskWrite

One report of spi_writeSram per step (`Clear`, `Fill`), each of which may fail
with the rest of the image not sent and the failure ignored; `WriteStart` starts
the adapter; `PressEnter` and `OtherKey` answer the prompt. The adapter copies
the SRAM to the disk cell by cell meanwhile (`WriteCell`). `Waits` says where the
user waits for the drive to stop: before ENTER, before another run. `intact` and
`target` are history variables: whether every report of the image at hand was
carried out, and which side a disk started from such an image is to hold. They
guard nothing. A file that cannot be read ends the run before it has begun and is
left out, as is a side larger than the SRAM, whose size is not in the repository.

### DiskLayout

State: the command and the .fds file it converts (`command`, `game`, `side`), the
image being laid out (`bin`, `o`, the files in it `laid`), the output file
(`file`), and for -F the pulses and the .fds side made of them (`raw`, `in`,
`fds`, `out`, the blocks in it `got`).

| Code | Actions |
|---|---|
| `FDS_convertDisk`, `FDS_convertDiskraw03` | Convert, WriteOutput, NextSide, LastSide, CannotConvert |
| `fds_to_bin`, `copy_block` | BeginSide, LayFile (a turn of its loop, with the check for room) |
| `FDS_bintofds`, `findFirstBlock` | BinToFds, CannotConvert |
| `raw03_to_fds`, `block_decode` | DecodeBlock, DecodeEnds |

A byte is the place it comes from, `<<block, offset>>`, or one of a few others: a
zero, a gap end, a CRC, memory behind a buffer, pulses that are none. The pulses
of a byte are that byte, because PulseCode's theorem is what says that they give
it back. -F reads a slot's worth from a buffer of the file's size; what lies
behind is zeros for a while and then anything, and whether such a byte passes for
a block's type is a choice of the step. `fds` has the side's FDSSIZE bytes and, when
they are set, those behind it: block_decode is told that there are two more, and clears
the two of the CRC and one after them (`Decoded`, `CrcCleared`, `SpareBit`). A decoded
byte behind the side is any value. `file.side` is an observability variable:
the side an output was made of. Sides hold the blocks their headers announce.
Left out: files without a whole side, and a full disk of the host.

### BinRecovery

raw03_to_bin, one loop iteration per step, with the helpers that only look
(findFirstBlock, looks_like_file_end, nextGapEnd) as operators. `pass` names the
pass over the pulses:

| Code | `pass` | Actions |
|---|---|---|
| a run of zeros near a glitch is a gap | `glitches` | FindGlitches, FindHeader (findFirstBlock, and the gap before it) |
| crc_detect from each gap end, and what its result marks | `detect`, `next` | Detect, ToNextGap |
| long gaps near a mark end a block | `gaps` | MarkGaps, StartOutput |
| the bits of the result | `output`, `done` | Output (BlockBegins, BitsFollow), Finish |

`crc` is the set of the bits of the register that are 1, so that a shift is a set of
numbers less one and the polynomial a symmetric difference; its width and polynomial
are constants. `recording` says what was recorded and where its blocks are; only the
assumption and the properties look at the latter.

What is taken for granted of a recording is `RecordingAssumption`, of any number of
blocks: before each block are a gap of at least LONG_GAP zeros and four more, and a gap
end; the first block is the one findFirstBlock looks for, and its header lies within the
first `SearchLimit` pulses (0x10000), which are all it looks at; between a block and the next gap's zeros come fewer
than LONG_POST_GLITCH_GARBAGE pulses of anything, and the gap ends within MAX_GAP of the
block; nothing else outside the blocks looks like a gap's end. A block can be
decoded, and its CRC holds at its end. It may also hold by chance at a byte before, but
not where what follows looks like the end of a file: that would pass for the end of the
block. The recording ends within MAX_GAP of the last block, or that block has nothing
in it that looks like the end of a gap; otherwise crc_detect, which misses the end of
that block then, is started again inside it. verify_block is left out: it reports on the
result and changes nothing in it.

### ReportQueue

What hidapi does with input reports on either system: kept in the order they
came, so many at most, the oldest dropped for a new one, each returned once, all
dropped at the end.

### HidLinux

The program's thread (`pc`), the read thread (`thread`) and the transfer's callback
(`callback`, run by `runner`). `usb` is the transfer: not allocated, idle, flying,
or ended in one of five ways that the callback has not seen. A step ends where
another thread can see or change something it uses; the flags are plain ints and
each test of one is a step of its own.

| Code | Actions |
|---|---|
| `hid_enumerate`, dev_open's use of it | Enumerate, NullName |
| `hid_open_path` | NewDevice, LibusbOpen, DetachKernelDriver, ClaimInterface, Meet (the barrier) |
| `read_thread` | ThreadStarts, ThreadLoops, HandlesNothing, HandleFails, ThreadCancels, ThreadDrained, ThreadBroadcasts |
| `read_callback` | TransferIsOver, CallbackBegins, QueueReport, Resubmit |
| `hid_read_timeout` and its callers | ReadCall, ReadLocks, ReadChecks, ReadWaits, WakesUp, ReadRelocks, ReadTimesOut |
| feature reports, hid_write | ControlCall, ControlEnds (the callback may run in between) |
| `hid_close` | Close, CloseCancels, Joined, Release |
| the device and libusb | TransferEnds, Unplug, Replug |

`arrived` and `taken` number the reports; `stray` records that the first submission
was refused or that the last cancel came when the transfer was not flying: then
the callback never sees it cancelled. They guard nothing, except that no more than `MaxReports`
reports arrive. The program closes from the thread that reads, so no read is in
progress when it does. String descriptors and paths are data nothing here depends
on.

### HidMac

The same interface on a run loop: `thread` is the run loop's thread, `reader` any
number of threads that read, `pc` the one that opens and closes. The file's own
barriers (`count`) wait on their condition once, without a loop; `early` records
that a wakeup without a reason has let a thread through (`MainEarly`,
`ThreadEarly`). `registered` and `source` are what hid_close takes away and signals;
a signal to a source or a loop that is not there is the program counter
`crashed`. `CloseHandle` is hid_close's call of IOHIDDeviceClose, made unless the removal
has been noticed; on a stick that is gone all the same it is the program counter
`pulled`, where nothing more is said of the program. Feature reports are one synchronous call and have no state.

## 3. Runs

| Run | Instance | What it shows |
|---|---|---|
| spiflash | 2 slots of 2 pages, 2 reports per page, 6 commands | OkIsTrue, Heard, OnlyOwnPages, ImplementsStore, RunsEnd, TypeOK |
| page_writer | every address, size and unit on 4 pages of 4 bytes, reports of 2 | FileWritten, OnlyOwnBytes, FailsForReason, TypeOK |
| game_slots | 4 slots, 4 games, 6 ways to flash, up to 5 slots read | ComesBack, ListedLikeSaved |
| pulse_code | all 4096 images of 12 bits, gap 2, block 3 | BlockComesBack, TypeOK |
| disk_read | packets of 3 bytes, buffer of 26, 3 packet numbers, up to 2 losses in a row | ReadIsPrefix, RoomForPacket, ReadTypeOK |
| disk_write | SRAM of 3 cells, a side of 3 and one of 1, a game of both and one with a bad side | DiskHoldsSide, TypeOK |
| disk_layout | sides of up to 2 files of 1 to 3 bytes and five kinds of bad ones, image of 42, slot of 40, .fds of 12 | OneWholeSide, SideComesBack, TypeOK |
| bin_recovery | bytes and a CRC of 2 bits, a block of up to 7 pulses behind a first one, what a drive may deliver around them, 15 pulses searched for the header | BlocksIntact, BlocksComeOut, RecoveryTypeOK |
| hid_linux | a queue of 2, 4 reports | FreedAtRest, NeverSleepsOnReport, EndIsFinal, ImplementsQueue, CloseReturns, EndReachesReader, TypeOK |
| hid_mac | two readers, a queue of 2, 3 reports | WakesLiveLoop, SleepersHaveNothing, FreedAtRest, ImplementsQueue, CloseReturns, EndReachesReaders, TypeOK |
| piece_overflows | page_writer | violated: see 6 |
| layout_overrun | disk_layout | violated: see 6 |

Why the bounds are enough. Two slots are the fewest with a neighbour to damage
and an address that wraps. Two pages per slot and two reports per page are the
fewest with a page that is half sent and a call that is half done (the firmware's
erase unit is then one page). The length of a run is not bounded, nor is the
number of runs: the chip carries over. Four slots hold a game of two sides beside
another, across another and cut off by the end. Twelve bits hold a gap that
starts after a 1 and after a 0, a block, and what follows it; every block
contents and both phases of the pulse at its end occur. Larger instances are the
business of the proofs, which have no bounds. The buffer of disk_read takes eight
packets, so the numbers wrap more than twice, and its size is no multiple of a
packet. The sides of disk_write are the shortest and the longest the SRAM takes.
Every chip of spiflash begins with any one contents in all pages, protected or
not.

The sizes of disk_layout are chosen so that a side of two files may fit, may be
cut off by the slot, may be longer than a .fds side and may not fit into an image
at all, and so that the last gap of an image may lie behind its buffer. The
sides are numbered no higher than two: the buffer of one is reused once. The
glitches of bin_recovery are a pulse that is none, close to a gap or far from it,
and the two gaps are just longer than LONG_GAP and longer than that; the lead-in
is clean, glitched or has a run of pulses. The longest lead-in puts the header at the
very end of what findFirstBlock looks at. A CRC of two bits holds by chance at one byte
in four: there are recordings with one or more such bytes inside the second block, of
all that `RecordingAssumption` allows (`NoFalseEnd` of MCBinRecovery takes out those
whose CRC holds where a gap ends near it, which no decoder could tell from an end).

A queue of two (`MaxHops` 0, for the code's 30) with three or four reports drops the
oldest in every position; no counter other than the reports is bounded in
hid_linux or hid_mac, and the device is opened, unplugged, closed and opened again
without limit. Two readers are the fewest of which one can take what the other
was woken for.

The frames of page_writer take one to three reports, of which the last may be full
or not; its addresses reach beyond the end of the flash, its files across it.

Deadlock is checked except where the system stops: in page_writer, pulse_code,
disk_read and bin_recovery when the call returns, the block is decoded, the disk
read, the file recovered; in piece_overflows as in page_writer; in
hid_linux and hid_mac when a call waits for a report that never
comes, and where hid_close hangs, signals a loop that is gone or closes a stick that
is (6).

Fairness. RunsEnd assumes weak fairness of the program's own next step (with the
failure of a report as that step on a dead handle). The operating system
schedules the process, every USB request returns (if only with its timeout), and
writeWait's loop ends by the clock. Nothing is assumed of the chip, which may be
busy for ever, nor of the user.

FairSpec of HidLinux assumes that both threads are scheduled, that a thread which
waits for the mutex gets it if it is free again and again (strong fairness of the
two steps that lock it in the read thread and the callback), that a transfer
which has ended is handed to whoever handles libusb's events, and that a control
transfer ends, with its timeout of a second. FairSpec of HidMac assumes the same
of its threads and that a run loop run again and again notices a removal. Neither
assumes anything of the device, of the calls the program makes or of wakeups
without a reason.

## 4. Theorems

Each holds for every value of the constants that its module's named assumption allows:
sizes are positive, slots are whole, commands are of the right type, limits are natural
numbers. Three say more. `PagesAssumption`: a page is not cut by the end of the flash or
of what an erase covers, and a report holds at least its command. `LayoutAssumption`:
a file has whole sides with the blocks their headers announce, a file's header has
its size behind its type, gaps are no shorter than findFirstBlock and block_decode need them,
the lead-in ends where findFirstBlock still looks, and the first two blocks fit into a
slot, as in the code they do many times over.
`RecordingAssumption`: what BinRecovery takes for granted of a recording (2), and that
the lengths of the code are ordered as they are there (LONG_GAP is the largest but
MAX_GAP). TLC evaluates every assumption in the runs. StoreKeepsPromises is about any
store whose requests are as `RequestsFit` says, and the lemma RequestsOfRuns shows that
those of SpiFlash are.

| Theorem | Statement |
|---|---|
| SpiFlashProofs!TypeCorrect | `Spec => []TypeOK` |
| SpiFlashProofs!OwnPagesOnly | `Spec => OnlyOwnPages` |
| SpiFlashProofs!AlwaysHeard | `Spec => []Heard` |
| SpiFlashProofs!OkHolds | `Spec => []OkIsTrue` |
| SpiFlashProofs!Refinement | `Spec => ImplementsStore` |
| SpiFlashProofs!StoreKeepsPromises | `RequestsFit` gives `StoreSpec => []ConfirmedHolds` |
| PageWriterProofs!TypeCorrect | `Spec => []TypeOK` |
| PageWriterProofs!WritesTheFile | `Spec => []FileWritten` |
| PageWriterProofs!OthersKept | `Spec => []OnlyOwnBytes` |
| PageWriterProofs!FailureHasReason | `Spec => []FailsForReason` |
| GameSlotsProofs!GamesComeBack | `Spec => []ComesBack` |
| GameSlotsProofs!ListsWhatItSaves | `Spec => []ListedLikeSaved` |
| PulseCodeProofs!BlocksComeBack | `Spec => []BlockComesBack` |
| PulseCodeProofs!StaysInBuffers | `Spec => []TypeOK` |
| DiskLayoutProofs!TypeCorrect | `Spec => []TypeOK` |
| DiskLayoutProofs!OneSideWritten | `Spec => []OneWholeSide` |
| DiskLayoutProofs!WhatWasLaidComesBack | `Spec => []SideComesBack` |
| AdapterProofs!ReadTypeCorrect | `ReadSpec => []ReadTypeOK` |
| AdapterProofs!ReadsThePrefix | `ReadSpec => []ReadIsPrefix` |
| AdapterProofs!StaysInBuffer | `ReadSpec => []RoomForPacket` |
| AdapterProofs!TypeCorrect | `Spec => []TypeOK` (of DiskWrite) |
| AdapterProofs!DisksHoldSides | `Spec => []DiskHoldsSide` |
| AdapterProofs!RecoveryTypeCorrect | `RecoverySpec => []RecoveryTypeOK` |
| AdapterProofs!BlocksStayIntact | `RecoverySpec => []BlocksIntact` |
| AdapterProofs!AllBlocksComeOut | `RecoverySpec => []BlocksComeOut` |
| HidLinuxProofs!TypeCorrect | `Spec => []TypeOK` |
| HidLinuxProofs!FreesAtRest | `Spec => []FreedAtRest` |
| HidLinuxProofs!NoLostWakeup | `Spec => []NeverSleepsOnReport` |
| HidLinuxProofs!GoneIsFinal | `Spec => EndIsFinal` |
| HidLinuxProofs!QueueRefinement | `Spec => ImplementsQueue` |
| HidMacProofs!TypeCorrect | `Spec => []TypeOK` |
| HidMacProofs!LoopOutlivesClose | `Spec => []WakesLiveLoop` |
| HidMacProofs!NoReportForSleepers | `Spec => []SleepersHaveNothing` |
| HidMacProofs!FreesAtRest | `Spec => []FreedAtRest` |
| HidMacProofs!QueueRefinement | `Spec => ImplementsQueue` |

The arguments:

* **SpiFlash.** `OkIsTrue` speaks of the last step of a run and is not inductive.
  `Inv` adds what holds on the way: the chip is sound (a frame other than a
  status read is only taken at rest), what is pending belongs to the run that has
  the device open (`Own`), and as long as no call has failed the chip and the
  program are in step (`InStep`) and the pages written so far are there
  (`CallProgress`, `CallsDone`). `Own` is established where a run begins: a chip
  with something pending gives no identification, so dev_open fails. That is the
  one thing that makes one run independent of the last.
* **Refinement.** Every step is a claim (GotId), a change, a confirmation
  (Finished) or a stutter; the changes stay within `Loose` by `Own`, and a
  confirmation is possible by `OkIsTrue`.
* **FlashStore.** Nothing is loose while a confirmation stands (`Settled`).
* **PageWriter.** The pieces written so far and the reports of the one at hand add up
  to a prefix of the file, each byte of which is at its address (`Progress`), and the
  chip's frame holds what comes next (`Sending`). The rest is division: pieces begin at
  multiples of the first one's length (`Whole`), pageProgram refuses exactly those whose
  last byte is in another page (`Crossing`), so none behind the one at hand does
  (`Fitting`); and an address at a whole fraction of the page goes on at one.
* **GameSlots.** A placed game lies within the flash and each of its slots holds
  its side (`Intact`), which decodes if the game's side does; a write forgets the games it
  touches. That -l and -s agree
  needs no invariant but an induction over the slots: the number -l has
  after n slots says that a game is named so many slots before and goes on to here, or
  that none does (`Tells`).
  It is an induction in the form of a set, of the n for which this holds: 0 is in it,
  and with n also n + 1 (`Induct`, from the well-foundedness of the numbers).
* **PulseCode.** A pulse that has ended stands for the one or two bits after the
  pulses before it (`Closed`), and the open one for what the encoder has seen of
  it (`Open`). In a gap the zeros counted and the zeros left add up
  (`Scanning`); in a block the decoder has exactly the bits of the pulses it has
  consumed (`Decoding`).
* **DiskLayout.** The blocks of an image follow each other (`BlockOrder`), so no place
  in it belongs to two of them, and a turn of fds_to_bin turns the image of n blocks
  into that of two more (`Laying`); the output is the image of all (`Output`). What
  -F decodes is an image as far as a slot goes, then memory, then no pulses at all
  (`RawIs`). As long as blocks come back, each is in its place, and where the decoder
  stands the next gap's end is the next block's (`OnTrack`): the type that DecodeBlock
  looks at is that block's. After the last that fits, only memory is decoded, and what
  has come back stays (`OffTrack`).
* **DiskRead.** The adapter's number is ahead of the host's by the packets lost
  since the last one (`InStep`), so with fewer losses than numbers equal numbers
  mean no loss (`NextNumber`).
* **DiskWrite.** What has been written is the side and what is still to be
  written is the side in the SRAM (`Copied`); the host changes the SRAM only when
  nothing is being written (`Sending`), and a started image is complete
  (`Progress`).
* **BinRecovery.** The invariant (`Recovering`) has a part for each pass, which says what
  the pass hands on to the next. Glitches: marks are the only change, and none comes
  within LONG_GAP and three pulses of a block, because behind a block's gap end a glitch
  is no longer near, and before it the gap has begun (`Glitches`). Header: the first
  header is the first block's, so the gap before that begins with a mark. Detection:
  crc_detect has in its register what the block's CRC is up to there (`InBlockAt`), so
  it ends where the block does, every block but the last gets its mark behind its last
  pulse, and the next gap end from there on is the next block's (`AtBlock`,
  `BetweenBlocks`). Gaps: the run of zeros before a block's gap end begins soon after
  the mark that was set behind the block before; a run in a block begins too far from
  the last mark (`GapState`), and nothing between two blocks but their gap ends one. So
  what is marked as a gap end is one and each is (`MarkedTo`). Output: behind a mark
  only zeros come out (`Quiet`), the decoder's bit is the block's at each of its
  pulses, and what is written later leaves a block that is out alone (`SoFar`).

* **HidLinux.** That hid_close frees nothing in use follows from what the last
  callback leaves: once `cancelled` is set the transfer is idle and no callback
  runs (`CancelledIsOver`), and the read thread does not end before. For that the
  callback must be tied to the thread it runs in (`CallbackRuns`) and what is held
  of libusb to where the two threads are (`Held`). The flag is set by the end of
  the transfer only, as long as the program has not begun to close, and then
  nothing is queued any more (`EndReported`, `Fresh`): that is `EndIsFinal`, and with
  the mutex (`Locked`) it is why no reader sleeps on. Every step is then an arrival,
  a removal, the end of the queue, or a stutter.

* **HidMac.** Both threads pass each barrier together, so its count says which of them
  is there already, and hid_close is at its last barrier with a thread that has not
  ended (`Ordered`, for as long as no barrier was passed early). What is freed when
  does not need that: pthread_join waits for the thread (`Held`). For the readers two
  numbers are kept in step, of the reports and of those that have been woken: a report
  adds one to both or finds nobody asleep, a woken reader takes one off both, and who
  goes to sleep holds the mutex and has found the queue empty (`Locked`).

TLC has checked each inductive invariant on the instances above as well.

Only model-checked:

* liveness (`RunsEnd`, `CloseReturns`, `EndReachesReader`, `EndReachesReaders`), which
  is out of the prover's reach.

Induction over data with an operator as its parameter is out of reach too; where a
proof needs one it is made over a set of numbers, as for GameSlots and DiskLayout.

## 5. Not modelled

* `hid-windows.c`: it has no thread; reads are the kernel's overlapped I/O, of
  which the program starts none, and a feature report is one synchronous call.
* `os.cpp` is pure I/O; its results are choices of the models.
* `verify_block` and everything else that only reports: formatting, progress
  output, and file errors after the first open. `-D` and `-T` change nothing.
* The adapter's own firmware is not in the repository: what it does with a staged
  image, and for how long, is not modelled (7).
* Dead code: gameDoctor_to_bin, writeDisk, `firmware.cpp`, pageWrite, sectorErase,
  readStatus, hid_open, hid_exit, hid_get_*_string.

## 6. Disagreements between code and documentation

Two have a run that TLC finds violated, and an entry under "findings":

* A write at an address inside a page gives up at "Page write overflow.", because the
  size of every piece is reckoned from the address of the first, where the comment says
  "bytes left in page" (spi.cpp:250; run piece_overflows). `FailsForReason` says exactly
  which calls are refused; `FileWritten` holds for all.
* -F and -s decode a side into a buffer of FDSSIZE bytes (fds.cpp:1235, 1042), where
  FDS_readDisk has "extra room for CRC junk" (fds.cpp:347) and block_decode uses it: a
  block that ends with the side has its CRC decoded behind the buffer, and a third byte
  cleared (fds.cpp:252-254; run layout_overrun). A side gets there whose files fill it
  to its last bytes, which an image has room for, and -F goes on past the end of a slot
  into pulses that are none. `TypeOK` of DiskLayout says that it is never more than
  three bytes.

Others are plain in the code and in the actions of the models, and have no run of
their own:

* writeWait gives up after its timeout (its comment: "fail on timeout or read
  failure", spi.cpp:118-119), and a call that follows a timed-out one may return true
  with nothing written: the busy chip ignores its operations, and its writeWait sees
  the old one end (`TimedOut`, `ReadStatus`; `clean` of SpiFlash tells such runs from
  the others).
* hid_close on Linux waits for ever if the transfer ended, in any way but one, just
  before the read thread cancelled it for the last time (hid-linux.c:757), or was
  refused when it was first submitted (`stray` of HidLinux). Its comment says "Cause
  read_thread() to stop." (hid-linux.c:1153). `CloseReturns` shows that nothing else
  makes it hang.
* `-f` says Ok whatever its writes returned (`Finished` of SpiFlash).
* `-f` takes a side whose second block is of another type, at which `-s` stops with
  Failed; `-l` shows it, and whatever else does not decode (`Takings`, `SaveFails` of
  GameSlots).
* `-f` beyond the last slot goes on in the loader's (`WriteSide` of GameSlots).
* `-s` appends the sides an older game left behind (`Saved`).
* A run of `-w` clears the SRAM the last one is being written from (`Waits`).
* `-W` says Ok on a protected chip that took nothing (`Accepts`; only `-e` removes
  the protection).
* `-W` of a file longer than a block erases only the first and programs over what the
  others hold (`EraseUnit`; `FileWritten` says what becomes of it).
* `-e 8` on a chip of eight slots erases the loader (`EraseSlot`).
* Packets lost just before the end of a disk are not noticed (`ReadNothing`).
* `-r` says Ok without a decoded disk or without a file (`Save`).
* `-w` says Ok whatever was sent (`Exit` of DiskWrite).
* `-c` and `-C` say Ok when a side was rejected or the output could not be opened,
  and write each side over the one before (`BeginSide`, `WriteOutput`).
* `-C`, `-f` and `-F` take only a slot's worth of an image, which may be longer: the
  files at its end are lost (`SideComesBack` is stated for what fits).
* dev_open passes a product string that may be NULL to a conversion (`NullName`).
* On macOS a reader that wakes looks at the flag before the queue and leaves reports
  unread that came before the stick went; on Linux it returns them (`ReadRelocks`).
* hid_close on macOS closes the device "only if it's not been unplugged", as
  "IOHIDDeviceClose() will crash" otherwise (hid-mac.c:997-999), but looks at a flag that
  is set only when the run loop has noticed the removal; hid_close has taken its removal
  callback away by then (`CloseHandle` of HidMac, `pulled`). `CloseReturns` shows that
  nothing else, but for an early barrier, keeps hid_close from returning.
* The queue of reports keeps `MaxHops` + 2 = 32 of them, on Linux and on macOS, where the
  comments say "Pop one off if we've reached 30 in the queue" (hid-linux.c:676,
  hid-mac.c:596): the hops are counted to the last report before the new one, and
  compared with > (`Keep`; `TypeOK` and `ImplementsQueue` are stated for what the code
  keeps).
* On macOS a wakeup without a reason at one of the barriers lets hid_close signal a
  run loop that is gone, or leaves it waiting (`early`).

The invariants that hold are stated for what remains: every call successful, a
chip that accepts the command, a command that fits its slots, a transfer whose
last cancel was not too late, barriers that were not passed early, a removal that was
noticed before hid_close.

## 7. Plan

Done: FlashChip, SpiFlash, FlashStore, their refinement, PageWriter, GameSlots,
PulseCode, DiskLayout, DiskRead, DiskWrite and BinRecovery, with their proofs; ReportQueue,
HidLinux and HidMac, with theirs. What is left, in order of importance:

1. **FirmwareUpdate**: FW_writeFlash with the adapter's installation, reset and
   the slot it shares with the loader.
2. DiskRead and DiskWrite as one adapter, with an abstract disk that both
   implement.
