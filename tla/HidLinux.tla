------------------------------ MODULE HidLinux ------------------------------
(***************************************************************************)
(* hidapi on Linux (hid-linux.c): a device is opened with libusb, a thread *)
(* of its own keeps one input transfer going and queues what it brings,    *)
(* and the program's thread opens, reads, sends feature reports and closes.*)
(*                                                                         *)
(* A step of a thread ends where the other can see or change something it  *)
(* uses.  The callback of the transfer runs in whichever thread handles    *)
(* libusb's events: the read thread, or the program's while it waits for a *)
(* control transfer.  The plain int flags are read again at every call of  *)
(* an external function, so they are variables like any other.             *)
(***************************************************************************)
EXTENDS Naturals, Sequences

CONSTANTS
    MaxHops,        \* list hops after which the oldest report goes (30)
    MaxReports      \* bound: reports the device sends

ASSUME LinuxAssumption == MaxHops \in Nat /\ MaxReports \in Nat

VARIABLES
    plugged,        \* the device behind the handle is on the bus
    pc,             \* where the program's thread is
    owned,          \* what is held of libusb: "handle", "interface"
    shutdown_thread, cancelled,
    usb,            \* the transfer: what the kernel or libusb do with it
    input_reports,  \* the queue, by number of the report
    mutex,          \* "free" or the thread that holds it
    thread,         \* where the read thread is
    callback,       \* where read_callback is
    runner,         \* the thread it runs in
    timeout,        \* of the hid_read being made: "blocking", "timed", "poll"
    result,         \* of the last hid_read: "data", "nothing", "gone"
    arrived, taken, \* (observability) the last one queued, and returned
    stray           \* (observability) the transfer goes on after its last cancel,
                    \* or has never gone

flags == <<shutdown_thread, cancelled>>
reading == <<timeout, result, taken>>
report == <<input_reports, arrived>>
vars == <<plugged, pc, owned, flags, usb, report, mutex, thread,
          callback, runner, reading, stray>>

\* results of a transfer that read_callback has not seen yet
Ends == {"COMPLETED", "TIMED_OUT", "ERROR"}
Finished == Ends \cup {"CANCELLED", "NO_DEVICE"}

Init ==
    /\ plugged = TRUE
    /\ pc = "closed" /\ owned = {}
    /\ shutdown_thread = FALSE /\ cancelled = FALSE
    /\ usb = "none" /\ input_reports = <<>> /\ mutex = "free"
    /\ thread = "none" /\ callback = "none" /\ runner = "read_thread"
    /\ timeout = "poll" /\ result = "nothing" /\ taken = 0
    /\ arrived = 0
    /\ stray = FALSE

-----------------------------------------------------------------------------
(* the device and the kernel *)

\* a transfer in flight ends: with a report, with its timeout, with an error
TransferEnds(end) ==
    /\ usb = "flying"
    /\ end = "COMPLETED" => arrived < MaxReports
    /\ usb' = end
    /\ UNCHANGED <<plugged, pc, owned, flags, report, mutex, thread,
                   callback, runner, reading, stray>>

Unplug ==
    /\ plugged
    /\ plugged' = FALSE
    /\ usb' = IF usb = "flying" THEN "NO_DEVICE" ELSE usb
    /\ UNCHANGED <<pc, owned, flags, report, mutex, thread,
                   callback, runner, reading, stray>>

\* a device plugged in again is another one to a handle that is still open
Replug ==
    /\ ~plugged /\ pc = "closed"
    /\ plugged' = TRUE
    /\ UNCHANGED <<pc, owned, flags, usb, report, mutex, thread,
                   callback, runner, reading, stray>>

\* libusb_cancel_transfer: no effect on a transfer that is not in flight
Cancelled(u) == IF u = "flying" THEN "CANCELLED" ELSE u

\* libusb_submit_transfer may fail, and does without a device
Submitted == IF plugged THEN {"flying", "idle"} ELSE {"idle"}

-----------------------------------------------------------------------------
(* hid_enumerate and hid_open_path, as dev_open calls them *)

\* An entry's strings are read through a handle, which may not be had.
Enumerate ==
    /\ pc = "closed" /\ plugged
    /\ pc' \in {"listed", "nameless"}
    /\ UNCHANGED <<plugged, owned, flags, usb, report, mutex, thread,
                   callback, runner, reading, stray>>

\* dev_open converts product_string before it opens: NULL ends the program.
NullName ==
    /\ pc = "nameless"
    /\ pc' = "closed"
    /\ UNCHANGED <<plugged, owned, flags, usb, report, mutex, thread,
                   callback, runner, reading, stray>>

\* new_hid_device
NewDevice ==
    /\ pc = "listed"
    /\ pc' = "open"
    /\ shutdown_thread' = FALSE /\ cancelled' = FALSE
    /\ result' = "nothing" /\ stray' = FALSE
    /\ UNCHANGED <<plugged, owned, usb, report, mutex, thread,
                   callback, runner, timeout, taken>>

\* A step of opening that fails gives back what the ones before it took.
LibusbOpen ==
    /\ pc = "open"
    /\ \/ plugged /\ pc' = "detach" /\ owned' = {"handle"}
       \/ pc' = "closed" /\ owned' = {}
    /\ UNCHANGED <<plugged, flags, usb, report, mutex, thread,
                   callback, runner, reading, stray>>

DetachKernelDriver ==
    /\ pc = "detach"
    /\ \/ pc' = "claim" /\ UNCHANGED owned
       \/ pc' = "closed" /\ owned' = owned \ {"handle"}
    /\ UNCHANGED <<plugged, flags, usb, report, mutex, thread,
                   callback, runner, reading, stray>>

\* the interface, then pthread_create
ClaimInterface ==
    /\ pc = "claim"
    /\ \/ /\ plugged
          /\ pc' = "meet" /\ owned' = owned \cup {"interface"}
          /\ thread' = "start"
       \/ /\ pc' = "closed" /\ owned' = owned \ {"handle"}
          /\ UNCHANGED thread
    /\ UNCHANGED <<plugged, flags, usb, report, mutex,
                   callback, runner, reading, stray>>

\* both threads at the barrier
Meet ==
    /\ pc = "meet" /\ thread = "barrier"
    /\ pc' = "ready" /\ thread' = "loop"
    /\ UNCHANGED <<plugged, owned, flags, usb, report, mutex,
                   callback, runner, reading, stray>>

-----------------------------------------------------------------------------
(* read_thread *)

\* The result of the first libusb_submit_transfer is not looked at.
ThreadStarts ==
    /\ thread = "start"
    /\ thread' = "barrier"
    /\ usb' \in Submitted
    /\ stray' = (usb' = "idle")
    /\ UNCHANGED <<plugged, pc, owned, flags, report, mutex,
                   callback, runner, reading>>

\* while (!dev->shutdown_thread)
ThreadLoops ==
    /\ thread = "loop"
    /\ thread' = IF shutdown_thread THEN "cancel" ELSE "handle"
    /\ UNCHANGED <<plugged, pc, owned, flags, usb, report, mutex,
                   callback, runner, reading, stray>>

\* libusb_handle_events without an event, interrupted, or with a fatal error
HandlesNothing ==
    /\ thread = "handle"
    /\ callback = "none" => usb \notin Finished
    /\ runner = "main" \/ callback = "none"
    /\ thread' = "loop"
    /\ UNCHANGED <<plugged, pc, owned, flags, usb, report, mutex,
                   callback, runner, reading, stray>>

HandleFails ==
    /\ thread = "handle"
    /\ runner = "main" \/ callback = "none"
    /\ thread' = "cancel"
    /\ UNCHANGED <<plugged, pc, owned, flags, usb, report, mutex,
                   callback, runner, reading, stray>>

\* (mutant) the thread relies on hid_close's cancel
NoCancel(u) == u
LastCancel(u) == Cancelled(u)

\* A transfer that has ended, or whose callback runs, is not cancelled.
ThreadCancels ==
    /\ thread = "cancel"
    /\ thread' = "drain"
    /\ usb' = LastCancel(usb)
    /\ stray' = (stray \/ (~cancelled /\ usb \in Ends \cup {"idle"}))
    /\ UNCHANGED <<plugged, pc, owned, flags, report, mutex,
                   callback, runner, reading>>

\* (mutants) without waiting for the transfer; without the mutex
AnyTime == TRUE
TransferStopped == cancelled
MutexFree == mutex = "free"

ThreadDrained ==
    /\ thread = "drain"
    /\ TransferStopped
    /\ thread' = "broadcast"
    /\ UNCHANGED <<plugged, pc, owned, flags, usb, report, mutex,
                   callback, runner, reading, stray>>

\* (mutant) nobody is told
Never == FALSE
Broadcasts == TRUE

ThreadBroadcasts ==
    /\ thread = "broadcast" /\ MutexFree
    /\ thread' = "ended"
    /\ pc' = IF pc = "asleep" /\ Broadcasts THEN "woken" ELSE pc
    /\ UNCHANGED <<plugged, owned, flags, usb, report, mutex,
                   callback, runner, reading, stray>>

-----------------------------------------------------------------------------
(* read_callback *)

\* libusb's events are handled by one thread at a time.
Handling(x) ==
    /\ callback = "none"
    /\ \/ x = "read_thread" /\ thread \in {"handle", "drain"}
       \/ x = "main" /\ pc = "control"
\* back to the loop that called libusb, if it was the read thread's first one
Handled(x) == IF x = "read_thread" /\ thread = "handle" THEN "loop" ELSE thread

Fatal == {"CANCELLED", "NO_DEVICE"}

TransferIsOver(x) ==
    /\ Handling(x) /\ usb \in Fatal
    /\ shutdown_thread' = TRUE /\ cancelled' = TRUE
    /\ usb' = "idle"
    /\ thread' = Handled(x)
    /\ UNCHANGED <<plugged, pc, owned, report, mutex, callback, runner, reading, stray>>

CallbackBegins(x) ==
    /\ Handling(x) /\ usb \in Finished \ Fatal
    /\ callback' = IF usb = "COMPLETED" THEN "append" ELSE "resubmit"
    /\ runner' = x
    /\ usb' = "idle"
    /\ UNCHANGED <<plugged, pc, owned, flags, report, mutex, thread, reading, stray>>

\* (mutants) the limit one later; the newest report goes instead of the oldest
KeepLate(q) == IF Len(q) - 3 > MaxHops THEN Tail(q) ELSE q
KeepOld(q) == IF Len(q) - 2 > MaxHops THEN SubSeq(q, 1, Len(q) - 1) ELSE q
\* The hops are counted to the last report before the new one: the queue keeps two
\* more than the 30 of the comment.
Keep(q) == IF Len(q) - 2 > MaxHops THEN Tail(q) ELSE q

\* (mutant) only a report that joins others wakes
WakesLate(was) == was # <<>>
Signals(was) == was = <<>>

\* A signal wakes a thread that waits, if the queue was empty.
QueueReport ==
    /\ callback = "append" /\ MutexFree
    /\ callback' = "resubmit"
    /\ arrived' = arrived + 1
    /\ input_reports' = Keep(Append(input_reports, arrived'))
    /\ pc' = IF pc = "asleep" /\ Signals(input_reports) THEN "woken" ELSE pc
    /\ UNCHANGED <<plugged, owned, flags, usb, mutex, thread, runner, reading, stray>>

Resubmit ==
    /\ callback = "resubmit"
    /\ callback' = "none"
    /\ usb' \in Submitted
    /\ IF usb' = "idle"
       THEN shutdown_thread' = TRUE /\ cancelled' = TRUE
       ELSE UNCHANGED flags
    /\ thread' = Handled(runner)
    /\ UNCHANGED <<plugged, pc, owned, report, mutex, runner, reading, stray>>

-----------------------------------------------------------------------------
(* hid_read_timeout, and hid_read with or without blocking *)

background == <<plugged, owned, flags, usb, arrived, thread, callback, runner, stray>>

ReadCall(ms) ==
    /\ pc = "ready"
    /\ pc' = "read"
    /\ timeout' = ms
    /\ UNCHANGED <<input_reports, mutex, result, taken>> /\ UNCHANGED background

Returns(r) ==
    /\ pc' = "ready"
    /\ result' = r
    /\ mutex' = "free"
    /\ UNCHANGED timeout

\* return_data
ReturnsReport ==
    /\ Returns("data")
    /\ taken' = Head(input_reports)
    /\ input_reports' = Tail(input_reports)

ReturnsNone(r) == Returns(r) /\ UNCHANGED <<taken, input_reports>>

HasReport == input_reports # <<>>

ReadLocks ==
    /\ pc = "read" /\ MutexFree
    /\ \/ HasReport /\ ReturnsReport
       \/ ~HasReport /\ shutdown_thread /\ ReturnsNone("gone")
       \/ ~HasReport /\ ~shutdown_thread /\ timeout = "poll" /\ ReturnsNone("nothing")
       \/ /\ ~HasReport /\ ~shutdown_thread /\ timeout # "poll"
          /\ pc' = "check" /\ mutex' = "main"
          /\ UNCHANGED <<input_reports, timeout, result, taken>>
    /\ UNCHANGED background

\* (mutant) after a wait, the flag is looked at before the queue
EndFirst == HasReport /\ ~shutdown_thread
ReportFirst == HasReport

\* while (!dev->input_reports && !dev->shutdown_thread), with the mutex
ReadChecks ==
    /\ pc = "check"
    /\ \/ ReportFirst /\ ReturnsReport
       \/ ~ReportFirst /\ shutdown_thread /\ ReturnsNone("gone")
       \/ /\ ~ReportFirst /\ ~shutdown_thread
          /\ pc' = "wait"
          /\ UNCHANGED <<input_reports, mutex, timeout, result, taken>>
    /\ UNCHANGED background

\* pthread_cond_wait and pthread_cond_timedwait: the mutex is released ...
ReadWaits ==
    /\ pc = "wait"
    /\ pc' = "asleep" /\ mutex' = "free"
    /\ UNCHANGED <<input_reports, timeout, result, taken>> /\ UNCHANGED background

\* ... also without a reason ...
WakesUp ==
    /\ pc = "asleep"
    /\ pc' = "woken"
    /\ UNCHANGED <<input_reports, mutex, timeout, result, taken>> /\ UNCHANGED background

\* ... and taken again.
ReadRelocks ==
    /\ pc = "woken" /\ MutexFree
    /\ pc' = "check" /\ mutex' = "main"
    /\ UNCHANGED <<input_reports, timeout, result, taken>> /\ UNCHANGED background

\* ETIMEDOUT, whatever has arrived
ReadTimesOut ==
    /\ pc \in {"asleep", "woken"} /\ timeout = "timed" /\ MutexFree
    /\ ReturnsNone("nothing")
    /\ UNCHANGED background

-----------------------------------------------------------------------------
(* control transfers, and hid_close *)

foreground == <<report, mutex, reading>>

\* hid_send_feature_report, hid_get_feature_report, hid_write without an output
\* endpoint: libusb_control_transfer handles events until its own has come.
ControlCall ==
    /\ pc = "ready"
    /\ pc' = "control"
    /\ UNCHANGED <<plugged, owned, flags, usb, thread, callback, runner, stray>>
    /\ UNCHANGED foreground

ControlEnds ==
    /\ pc = "control"
    /\ callback = "none" \/ runner = "read_thread"
    /\ pc' = "ready"
    /\ UNCHANGED <<plugged, owned, flags, usb, thread, callback, runner, stray>>
    /\ UNCHANGED foreground

Close ==
    /\ pc = "ready"
    /\ pc' = "stop"
    /\ shutdown_thread' = TRUE
    /\ UNCHANGED <<plugged, owned, cancelled, usb, thread, callback, runner, stray>>
    /\ UNCHANGED foreground

CloseCancels ==
    /\ pc = "stop"
    /\ pc' = "join"
    /\ usb' = Cancelled(usb)
    /\ UNCHANGED <<plugged, owned, flags, thread, callback, runner, stray>>
    /\ UNCHANGED foreground

\* (mutant) the read thread is not waited for
ThreadEnded == thread = "ended"

Joined ==
    /\ pc = "join" /\ ThreadEnded
    /\ pc' = "release"
    /\ UNCHANGED <<plugged, owned, flags, usb, thread, callback, runner, stray>>
    /\ UNCHANGED foreground

\* the transfer, the interface, the handle, the reports, the device
Release ==
    /\ pc = "release"
    /\ pc' = "closed"
    /\ usb' = "none" /\ owned' = {} /\ thread' = "none"
    /\ input_reports' = <<>>
    /\ UNCHANGED <<plugged, flags, arrived, mutex, callback, runner, reading, stray>>

-----------------------------------------------------------------------------
Callback(x) == TransferIsOver(x) \/ CallbackBegins(x)

ThreadStep ==
    \/ ThreadStarts \/ ThreadLoops \/ HandlesNothing \/ HandleFails
    \/ ThreadCancels \/ ThreadDrained \/ ThreadBroadcasts
    \/ Callback("read_thread")
CallbackStep == QueueReport \/ Resubmit
ReadStep == ReadLocks \/ ReadChecks \/ ReadWaits \/ ReadRelocks
CloseStep == CloseCancels \/ Joined \/ Release
Device == Unplug \/ Replug \/ (\E end \in Ends : TransferEnds(end))
Open == Enumerate \/ NullName \/ NewDevice \/ LibusbOpen
        \/ DetachKernelDriver \/ ClaimInterface \/ Meet

Next ==
    \/ Device \/ Open \/ ThreadStep \/ CallbackStep \/ Callback("main")
    \/ (\E ms \in {"blocking", "timed", "poll"} : ReadCall(ms))
    \/ ReadStep \/ WakesUp \/ ReadTimesOut
    \/ ControlCall \/ ControlEnds
    \/ Close \/ CloseStep

Spec == Init /\ [][Next]_vars

(***************************************************************************)
(* The system schedules both threads and lets one that waits for the mutex *)
(* have it if it is free again and again; a finished transfer is handed to *)
(* whoever handles events, and a control transfer ends (it has a timeout   *)
(* of a second).  Nothing is assumed of the device, of the user or of      *)
(* wakeups for no reason.                                                  *)
(***************************************************************************)
FairSpec ==
    /\ Spec
    /\ WF_vars(ThreadStep \/ Meet) /\ WF_vars(CallbackStep)
    /\ SF_vars(QueueReport) /\ SF_vars(ThreadBroadcasts)
    /\ WF_vars(ReadStep) /\ WF_vars(CloseStep) /\ WF_vars(ControlEnds)

-----------------------------------------------------------------------------
\* The variables have the values the code can give them.
TypeOK ==
    /\ plugged \in BOOLEAN
    /\ pc \in {"closed", "listed", "nameless", "open", "detach", "claim", "meet",
               "ready", "read", "check", "wait", "asleep", "woken", "control",
               "stop", "join", "release"}
    /\ owned \subseteq {"handle", "interface"}
    /\ shutdown_thread \in BOOLEAN /\ cancelled \in BOOLEAN
    /\ usb \in {"none", "idle", "flying"} \cup Finished
    /\ input_reports \in Seq(Nat) /\ Len(input_reports) <= MaxHops + 2
    /\ mutex \in {"free", "main"}
    /\ thread \in {"none", "start", "barrier", "loop", "handle", "cancel", "drain",
                   "broadcast", "ended"}
    /\ callback \in {"none", "append", "resubmit"}
    /\ runner \in {"read_thread", "main"}
    /\ timeout \in {"blocking", "timed", "poll"}
    /\ result \in {"data", "nothing", "gone"}
    /\ arrived \in Nat /\ taken \in Nat
    /\ stray \in BOOLEAN

(***************************************************************************)
(* hid_close frees the transfer and the device only when libusb and the    *)
(* read thread are done with them: whatever ended the read thread, an      *)
(* unplugged stick, an error, a refused submission or hid_close itself, no *)
(* transfer is in flight or waits for its callback and no callback runs.   *)
(* After every way of not opening a device, nothing of libusb is held.     *)
(***************************************************************************)
FreedAtRest ==
    /\ pc = "release" => usb = "idle" /\ callback = "none" /\ thread = "ended"
    /\ pc \in {"closed", "listed"} => usb = "none" /\ owned = {} /\ thread = "none"

(***************************************************************************)
(* A hid_read that sleeps has nothing to return, and somebody is left who  *)
(* will wake it: the callback signals only when the queue was empty, the   *)
(* flag is set without the mutex, and the broadcast is sent once.          *)
(***************************************************************************)
NeverSleepsOnReport ==
    pc \in {"wait", "asleep"} => input_reports = <<>> /\ thread # "ended"

(***************************************************************************)
(* Once hid_read has said that the device is gone, no report of it comes   *)
(* up any more: everything that was queued has been returned before.       *)
(***************************************************************************)
EndIsFinal ==
    [][result = "gone" /\ pc \notin {"closed", "listed"} => result' # "data"]_vars

\* The queue keeps what ReportQueue promises.
Queue == INSTANCE ReportQueue WITH queue <- input_reports, Kept <- MaxHops + 2
ImplementsQueue == Queue!Spec

(***************************************************************************)
(* hid_close returns, unless the first submission of the transfer was      *)
(* refused or the transfer was ending just when the read thread cancelled  *)
(* it for the last time: then it is never seen to be cancelled, and the    *)
(* read thread, for which hid_close waits, handles events for ever.        *)
(***************************************************************************)
CloseReturns == pc = "stop" ~> pc = "closed" \/ stray

\* A hid_read that sleeps returns when the stick has been pulled out.
EndReachesReader == pc = "asleep" /\ ~plugged ~> pc = "ready" \/ stray
=============================================================================
