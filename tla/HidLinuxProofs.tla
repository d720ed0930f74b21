--------------------------- MODULE HidLinuxProofs ---------------------------
(***************************************************************************)
(* Proofs about HidLinux.                                                  *)
(*                                                                         *)
(* Whatever the two threads do, the transfer is in the hands of libusb, of *)
(* its callback or of nobody.  `cancelled' is set by the last callback, so *)
(* it says that neither of the first two is the case, and the read thread  *)
(* does not get past its second loop without it.                           *)
(***************************************************************************)
EXTENDS HidLinux, TLAPS

Before == {"closed", "listed", "nameless", "open"}
Opening == {"detach", "claim"}
Session == {"ready", "read", "check", "wait", "asleep", "woken", "control"}
Closing == {"stop", "join", "release"}

\* what is held while a device is opened and closed
Held ==
    /\ thread = "none" <=> pc \in Before \cup Opening
    /\ usb = "none" <=> thread \in {"none", "start"}
    /\ pc \in Before => owned = {}
    /\ pc \in Opening => owned = {"handle"}
    /\ pc = "meet" <=> thread \in {"start", "barrier"}
    /\ pc = "release" => thread = "ended"

\* the transfer's callback and the thread it runs in
CallbackRuns ==
    /\ callback # "none" =>
        /\ usb = "idle"
        /\ thread \notin {"none", "start", "barrier"}
        /\ runner = "read_thread" => thread \in {"handle", "drain"}
        /\ runner = "main" => pc = "control"
    /\ callback = "append" \/ usb = "COMPLETED" => arrived < MaxReports

\* after the last callback nothing is left of the transfer
CancelledIsOver ==
    /\ cancelled =>
        /\ shutdown_thread
        /\ callback = "none"
        /\ usb \in {"idle", "none"}
    /\ thread \in {"broadcast", "ended"} => cancelled

\* before hid_close only the end of the transfer sets the flag
EndReported ==
    /\ pc \in Session /\ shutdown_thread => cancelled
    /\ pc \in Session /\ result = "gone" => cancelled /\ input_reports = <<>>

\* new_hid_device has cleared the flags
Fresh ==
    pc \in {"open", "detach", "claim", "meet"} =>
        ~shutdown_thread /\ ~cancelled /\ result = "nothing"

Locked == mutex = "main" <=> pc \in {"check", "wait"}

IInv ==
    /\ TypeOK /\ Held /\ CallbackRuns /\ CancelledIsOver
    /\ EndReported /\ Fresh /\ Locked /\ NeverSleepsOnReport

USE LinuxAssumption

-----------------------------------------------------------------------------
\* The queue stays a queue of numbers with the new report in it.
LEMMA KeepsType ==
    ASSUME NEW q \in Seq(Nat), Len(q) <= MaxHops + 2, NEW n \in Nat
    PROVE  /\ Keep(Append(q, n)) \in Seq(Nat)
           /\ Len(Keep(Append(q, n))) <= MaxHops + 2
<1>1. Append(q, n) \in Seq(Nat) /\ Len(Append(q, n)) = Len(q) + 1
  OBVIOUS
<1>2. Append(q, n) # <<>> /\ Len(Tail(Append(q, n))) = Len(q)
  BY <1>1
<1>3. Tail(Append(q, n)) \in Seq(Nat)
  BY <1>1, <1>2
<1> QED
  BY <1>1, <1>2, <1>3 DEF Keep

LEMMA TakesType ==
    ASSUME NEW q \in Seq(Nat), Len(q) <= MaxHops + 2, q # <<>>
    PROVE  /\ Head(q) \in Nat /\ Tail(q) \in Seq(Nat)
           /\ Len(Tail(q)) <= MaxHops + 2
  OBVIOUS

\* What happens to a transfer has a result.
LEMMA UnplugType == TypeOK /\ Unplug => TypeOK'
<1> SUFFICES ASSUME TypeOK, Unplug PROVE TypeOK'
  OBVIOUS
<1>1. usb' \in {"none", "idle", "flying"} \cup Finished
  BY DEF TypeOK, Unplug, Finished
<1>2. plugged' \in BOOLEAN
  BY DEF Unplug
<1>3. UNCHANGED <<pc, owned, shutdown_thread, cancelled, mutex, thread>>
  BY DEF Unplug, flags
<1>4. UNCHANGED <<input_reports, arrived, callback, runner, timeout, result, taken, stray>>
  BY DEF Unplug, report, reading
<1> QED
  BY <1>1, <1>2, <1>3, <1>4 DEF TypeOK

-----------------------------------------------------------------------------
LEMMA Initially == Init => IInv
<1> SUFFICES ASSUME Init PROVE IInv
  OBVIOUS
<1>1. input_reports \in Seq(Nat) /\ Len(input_reports) <= MaxHops + 2
  BY DEF Init
<1> QED
  BY <1>1 DEF Init, IInv, TypeOK, Held, CallbackRuns, CancelledIsOver, EndReported, Fresh, Locked,
         NeverSleepsOnReport, Before, Opening, Session, Finished, Ends

\* the device
LEMMA DeviceStep == IInv /\ Device => IInv'
<1> USE DEF IInv, TypeOK, Held, CallbackRuns, CancelledIsOver, EndReported, Fresh, Locked,
            NeverSleepsOnReport, Before, Opening, Session, Finished, Ends, report, reading,
            flags
<1> SUFFICES ASSUME IInv, Device PROVE IInv'
  OBVIOUS
<1>1. CASE Unplug
  <2>1. TypeOK'
    BY <1>1, UnplugType
  <2>2. Held' /\ CallbackRuns' /\ CancelledIsOver'
    BY <1>1 DEF Unplug
  <2>3. EndReported' /\ Fresh' /\ Locked' /\ NeverSleepsOnReport'
    BY <1>1 DEF Unplug
  <2> QED
    BY <2>1, <2>2, <2>3
<1>2. CASE Replug
  BY <1>2 DEF Replug
<1>3. ASSUME NEW end \in Ends, TransferEnds(end) PROVE IInv'
  BY <1>3 DEF TransferEnds
<1> QED
  BY <1>1, <1>2, <1>3 DEF Device

\* hid_open_path
LEMMA OpenStep == IInv /\ Open => IInv'
<1> USE DEF IInv, TypeOK, Held, CallbackRuns, CancelledIsOver, EndReported, Fresh, Locked,
            NeverSleepsOnReport, Before, Opening, Session, Finished, Ends, report, reading,
            flags
<1> SUFFICES ASSUME IInv, Open PROVE IInv'
  OBVIOUS
<1>1. CASE Enumerate
  BY <1>1 DEF Enumerate
<1>2. CASE NullName
  BY <1>2 DEF NullName
<1>3. CASE NewDevice
  BY <1>3 DEF NewDevice
<1>4. CASE LibusbOpen
  BY <1>4 DEF LibusbOpen
<1>5. CASE DetachKernelDriver
  <2>1. owned = {"handle"}
    BY <1>5 DEF DetachKernelDriver
  <2> QED
    BY <1>5, <2>1 DEF DetachKernelDriver
<1>6. CASE ClaimInterface
  <2>1. owned = {"handle"}
    BY <1>6 DEF ClaimInterface
  <2> QED
    BY <1>6, <2>1 DEF ClaimInterface
<1>7. CASE Meet
  BY <1>7 DEF Meet
<1> QED
  BY <1>1, <1>2, <1>3, <1>4, <1>5, <1>6, <1>7 DEF Open

\* the callback, in either thread
LEMMA CallbackOver == ASSUME NEW x \in {"read_thread", "main"}
                      PROVE  IInv /\ Callback(x) => IInv'
<1> USE DEF IInv, TypeOK, Held, CallbackRuns, CancelledIsOver, EndReported, Fresh, Locked,
            NeverSleepsOnReport, Before, Opening, Session, Finished, Ends, report, reading,
            flags, Handling, Handled, Fatal
<1> SUFFICES ASSUME IInv, Callback(x) PROVE IInv'
  OBVIOUS
<1>1. CASE TransferIsOver(x)
  BY <1>1 DEF TransferIsOver
<1>2. CASE CallbackBegins(x)
  BY <1>2 DEF CallbackBegins
<1> QED
  BY <1>1, <1>2 DEF Callback

LEMMA CallbackGoesOn == IInv /\ CallbackStep => IInv'
<1> USE DEF IInv, TypeOK, Held, CallbackRuns, CancelledIsOver, EndReported, Fresh, Locked,
            NeverSleepsOnReport, Before, Opening, Session, Finished, Ends, report, reading,
            flags, Handled
<1> SUFFICES ASSUME IInv, CallbackStep PROVE IInv'
  OBVIOUS
<1>1. CASE QueueReport
  <2>1. /\ arrived' \in Nat /\ input_reports' \in Seq(Nat)
        /\ Len(input_reports') <= MaxHops + 2
    BY <1>1, KeepsType DEF QueueReport
  <2>2. pc' \in {"wait", "asleep"} => FALSE
    BY <1>1 DEF QueueReport, Signals, MutexFree
  <2> QED
    BY <1>1, <2>1, <2>2 DEF QueueReport, MutexFree
<1>2. CASE Resubmit
  <2>1. CASE usb' = "idle"
    BY <1>2, <2>1 DEF Resubmit
  <2>2. CASE usb' = "flying"
    BY <1>2, <2>2 DEF Resubmit
  <2> QED
    BY <1>2, <2>1, <2>2 DEF Resubmit, Submitted
<1> QED
  BY <1>1, <1>2 DEF CallbackStep

\* the read thread
LEMMA ThreadGoesOn == IInv /\ ThreadStep => IInv'
<1> USE DEF IInv, TypeOK, Held, CallbackRuns, CancelledIsOver, EndReported, Fresh, Locked,
            NeverSleepsOnReport, Before, Opening, Session, Finished, Ends, report, reading,
            flags
<1> SUFFICES ASSUME IInv, ThreadStep PROVE IInv'
  OBVIOUS
<1>1. CASE ThreadStarts
  BY <1>1 DEF ThreadStarts, Submitted
<1>2. CASE ThreadLoops
  BY <1>2 DEF ThreadLoops
<1>3. CASE HandlesNothing
  BY <1>3 DEF HandlesNothing
<1>4. CASE HandleFails
  BY <1>4 DEF HandleFails
<1>5. CASE ThreadCancels
  BY <1>5 DEF ThreadCancels, LastCancel, Cancelled
<1>6. CASE ThreadDrained
  BY <1>6 DEF ThreadDrained, TransferStopped
<1>7. CASE ThreadBroadcasts
  BY <1>7 DEF ThreadBroadcasts, Broadcasts, MutexFree
<1>8. CASE Callback("read_thread")
  BY <1>8, CallbackOver
<1> QED
  BY <1>1, <1>2, <1>3, <1>4, <1>5, <1>6, <1>7, <1>8 DEF ThreadStep

\* hid_read
LEMMA ReadGoesOn ==
    ASSUME IInv, \/ \E ms \in {"blocking", "timed", "poll"} : ReadCall(ms)
                 \/ ReadStep \/ WakesUp \/ ReadTimesOut
    PROVE  IInv'
<1> USE DEF IInv, TypeOK, Held, CallbackRuns, CancelledIsOver, EndReported, Fresh, Locked,
            NeverSleepsOnReport, Before, Opening, Session, Finished, Ends, background, flags,
            Returns, ReturnsNone, MutexFree, HasReport, ReportFirst
<1>1. ASSUME ReturnsReport, input_reports # <<>>, UNCHANGED background, pc \in {"read", "check"}
      PROVE  IInv'
  <2>1. /\ taken' \in Nat /\ input_reports' \in Seq(Nat)
        /\ Len(input_reports') <= MaxHops + 2
    BY <1>1, TakesType DEF ReturnsReport
  <2> QED
    BY <1>1, <2>1 DEF ReturnsReport
<1>9. ASSUME NEW r \in {"nothing", "gone"}, ReturnsNone(r), UNCHANGED background,
             pc \in {"read", "check"}, r = "gone" => input_reports = <<>> /\ shutdown_thread
      PROVE  IInv'
  <2>1. (cancelled /\ r = "gone") \/ r = "nothing"
    BY <1>9
  <2>2. TypeOK'
    BY <1>9
  <2>3. Held' /\ CallbackRuns' /\ CancelledIsOver'
    BY <1>9
  <2>4. EndReported' /\ Fresh' /\ Locked' /\ NeverSleepsOnReport'
    BY <1>9, <2>1
  <2> QED
    BY <2>2, <2>3, <2>4
<1>10. ASSUME pc \in {"read", "check"}, pc' \in {"check", "wait"}, mutex' = "main",
              UNCHANGED <<input_reports, timeout, result, taken>>, UNCHANGED background,
              input_reports = <<>>, ~shutdown_thread
       PROVE  IInv'
  BY <1>10
<1>2. ASSUME NEW ms \in {"blocking", "timed", "poll"}, ReadCall(ms) PROVE IInv'
  BY <1>2 DEF ReadCall
<1>3. CASE ReadLocks
  <2>1. CASE HasReport
    BY <1>1, <1>3, <2>1 DEF ReadLocks
  <2>2. CASE ~HasReport
    BY <1>3, <1>9, <1>10, <2>2 DEF ReadLocks
  <2> QED
    BY <2>1, <2>2
<1>4. CASE ReadChecks
  <2>1. CASE HasReport
    BY <1>1, <1>4, <2>1 DEF ReadChecks
  <2>2. CASE ~HasReport
    BY <1>4, <1>9, <1>10, <2>2 DEF ReadChecks
  <2> QED
    BY <2>1, <2>2
<1>5. CASE ReadWaits
  BY <1>5 DEF ReadWaits
<1>6. CASE ReadRelocks
  BY <1>6 DEF ReadRelocks
<1>7. CASE WakesUp
  BY <1>7 DEF WakesUp
<1>8. CASE ReadTimesOut
  BY <1>8 DEF ReadTimesOut
<1> QED
  BY <1>2, <1>3, <1>4, <1>5, <1>6, <1>7, <1>8 DEF ReadStep

\* control transfers, hid_close
LEMMA CloseGoesOn ==
    ASSUME IInv, ControlCall \/ ControlEnds \/ Close \/ CloseStep
    PROVE  IInv'
<1> USE DEF IInv, TypeOK, Held, CallbackRuns, CancelledIsOver, EndReported, Fresh, Locked,
            NeverSleepsOnReport, Before, Opening, Session, Finished, Ends, foreground, report,
            reading, flags
<1>1. CASE ControlCall
  BY <1>1 DEF ControlCall
<1>2. CASE ControlEnds
  BY <1>2 DEF ControlEnds
<1>3. CASE Close
  BY <1>3 DEF Close
<1>4. CASE CloseCancels
  BY <1>4 DEF CloseCancels, Cancelled
<1>5. CASE Joined
  BY <1>5 DEF Joined, ThreadEnded
<1>6. CASE Release
  BY <1>6 DEF Release
<1> QED
  BY <1>1, <1>2, <1>3, <1>4, <1>5, <1>6 DEF CloseStep

LEMMA Inductive == IInv /\ [Next]_vars => IInv'
<1> SUFFICES ASSUME IInv, [Next]_vars PROVE IInv'
  OBVIOUS
<1>1. CASE UNCHANGED vars
  BY <1>1 DEF IInv, TypeOK, Held, CallbackRuns, CancelledIsOver, EndReported, Fresh, Locked,
              NeverSleepsOnReport, vars, report, reading, flags
<1>2. CASE Next
  BY <1>2, DeviceStep, OpenStep, ThreadGoesOn, CallbackGoesOn, CallbackOver, ReadGoesOn,
     CloseGoesOn
     DEF Next
<1> QED
  BY <1>1, <1>2

LEMMA Invariance == Spec => []IInv
  BY Initially, Inductive, PTL DEF Spec

-----------------------------------------------------------------------------
(***************************************************************************)
(* The variables keep their types, and the queue its limit.                *)
(***************************************************************************)
THEOREM TypeCorrect == Spec => []TypeOK
<1>1. IInv => TypeOK
  BY DEF IInv
<1> QED
  BY <1>1, Invariance, PTL

(***************************************************************************)
(* hid_close frees nothing that libusb, a callback or the read thread      *)
(* still uses, and a device that is not opened after all keeps nothing.    *)
(***************************************************************************)
THEOREM FreesAtRest == Spec => []FreedAtRest
<1>1. IInv => FreedAtRest
  BY DEF IInv, FreedAtRest, TypeOK, Held, CallbackRuns, CancelledIsOver, Before, Opening
<1> QED
  BY <1>1, Invariance, PTL

(***************************************************************************)
(* No wakeup is lost: a hid_read that sleeps has nothing to return, and    *)
(* the read thread has not sent its broadcast yet.                         *)
(***************************************************************************)
THEOREM NoLostWakeup == Spec => []NeverSleepsOnReport
<1>1. IInv => NeverSleepsOnReport
  BY DEF IInv
<1> QED
  BY <1>1, Invariance, PTL

(***************************************************************************)
(* When hid_read says that the device is gone it has nothing left: what    *)
(* comes after `gone' is never a report.                                   *)
(***************************************************************************)
THEOREM GoneIsFinal == Spec => EndIsFinal
<1> DEFINE Final == result = "gone" /\ pc \notin {"closed", "listed"} => result' # "data"
<1>1. IInv /\ [Next]_vars => [Final]_vars
  <2> SUFFICES ASSUME IInv, [Next]_vars, result = "gone", pc \notin {"closed", "listed"}
               PROVE  result' # "data"
    OBVIOUS
  <2> USE DEF IInv, EndReported, Session, HasReport, ReportFirst
  <2>1. CASE UNCHANGED vars
    BY <2>1 DEF vars, reading
  <2>2. CASE Device
    BY <2>2 DEF Device, Unplug, Replug, TransferEnds, reading
  <2>3. CASE Open
    BY <2>3 DEF Open, Enumerate, NullName, NewDevice, LibusbOpen, DetachKernelDriver,
                ClaimInterface, Meet, reading
  <2>4. CASE ThreadStep \/ Callback("main") \/ CallbackStep
    BY <2>4 DEF ThreadStep, ThreadStarts, ThreadLoops, HandlesNothing, HandleFails,
                ThreadCancels, ThreadDrained, ThreadBroadcasts, Callback, TransferIsOver,
                CallbackBegins, CallbackStep, QueueReport, Resubmit, reading
  <2>5. CASE (\E ms \in {"blocking", "timed", "poll"} : ReadCall(ms)) \/ ReadWaits
             \/ ReadRelocks \/ WakesUp \/ ReadTimesOut
    BY <2>5 DEF ReadCall, ReadWaits, ReadRelocks, WakesUp, ReadTimesOut, ReturnsNone, Returns
  <2>6. CASE ReadLocks \/ ReadChecks
    BY <2>6 DEF ReadLocks, ReadChecks, ReturnsNone, Returns
  <2>7. CASE ControlCall \/ ControlEnds \/ Close \/ CloseStep
    BY <2>7 DEF ControlCall, ControlEnds, Close, CloseStep, CloseCancels, Joined, Release,
                foreground, reading
  <2> QED
    BY <2>1, <2>2, <2>3, <2>4, <2>5, <2>6, <2>7 DEF Next, ReadStep
<1> QED
  BY <1>1, Invariance, PTL DEF Spec, EndIsFinal

(***************************************************************************)
(* The list that the two threads share is the queue of ReportQueue: every  *)
(* step of theirs is an arrival, a removal, the end, or none of them.      *)
(***************************************************************************)
THEOREM QueueRefinement == Spec => ImplementsQueue
<1> USE DEF Queue!vars, Queue!Arrive, Queue!Take, Queue!DropAll, Queue!Trim, report, reading
<1>1. Init => Queue!Init
  BY DEF Init, Queue!Init
<1>2. IInv /\ [Next]_vars => [Queue!Next]_(Queue!vars)
  <2> SUFFICES ASSUME IInv, [Next]_vars PROVE Queue!Next \/ UNCHANGED Queue!vars
    OBVIOUS
  <2>1. CASE UNCHANGED vars
    BY <2>1 DEF vars
  <2>2. CASE Device
    BY <2>2 DEF Device, Unplug, Replug, TransferEnds
  <2>3. CASE Open
    BY <2>3 DEF Open, Enumerate, NullName, NewDevice, LibusbOpen, DetachKernelDriver,
                ClaimInterface, Meet
  <2>4. CASE ThreadStep \/ Callback("main") \/ Resubmit
    BY <2>4 DEF ThreadStep, ThreadStarts, ThreadLoops, HandlesNothing, HandleFails,
                ThreadCancels, ThreadDrained, ThreadBroadcasts, Callback, TransferIsOver,
                CallbackBegins, Resubmit
  <2>5. CASE QueueReport
    <3>1. arrived < MaxReports /\ arrived' = arrived + 1 /\ taken' = taken
      BY <2>5 DEF QueueReport, IInv, CallbackRuns
    <3>2. Len(Append(input_reports, arrived')) \in Nat
      BY <2>5 DEF QueueReport, IInv, TypeOK
    <3>3. input_reports' = Queue!Trim(Append(input_reports, arrived'))
      BY <2>5, <3>2 DEF QueueReport, Keep
    <3> QED
      BY <3>1, <3>3 DEF Queue!Next
  <2>6. CASE (\E ms \in {"blocking", "timed", "poll"} : ReadCall(ms)) \/ ReadWaits
             \/ ReadRelocks \/ WakesUp \/ ReadTimesOut
    BY <2>6 DEF ReadCall, ReadWaits, ReadRelocks, WakesUp, ReadTimesOut, ReturnsNone, Returns,
                background
  <2>7. CASE ReadLocks \/ ReadChecks
    BY <2>7 DEF ReadLocks, ReadChecks, ReturnsNone, ReturnsReport, Returns, HasReport,
                ReportFirst, background, Queue!Next
  <2>8. CASE ControlCall \/ ControlEnds \/ Close \/ CloseCancels \/ Joined
    BY <2>8 DEF ControlCall, ControlEnds, Close, CloseCancels, Joined, foreground
  <2>9. CASE Release
    BY <2>9 DEF Release, Queue!Next
  <2> QED
    BY <2>1, <2>2, <2>3, <2>4, <2>5, <2>6, <2>7, <2>8, <2>9
       DEF Next, ReadStep, CloseStep, CallbackStep
<1> QED
  BY <1>1, <1>2, Invariance, PTL DEF Spec, ImplementsQueue, Queue!Spec
=============================================================================
