------------------------------- MODULE HidMac -------------------------------
(***************************************************************************)
(* hidapi on macOS (hid-mac.c): the device is scheduled on the run loop of *)
(* a thread of its own, whose callbacks queue the reports and notice the   *)
(* removal; threads of the program read, and one of them opens and closes. *)
(* Two barriers, which the file brings with it, order the start and the    *)
(* end of the read thread.                                                 *)
(*                                                                         *)
(* The file's barrier waits on its condition once, without a loop: a       *)
(* wakeup for no reason lets a thread through early, which `early' records.*)
(***************************************************************************)
EXTENDS Naturals, Sequences, FiniteSets

CONSTANTS
    Readers,        \* threads of the program that call hid_read
    MaxHops,        \* list hops after which the oldest report goes (30)
    MaxReports      \* bound: reports the device sends

ASSUME MacAssumption ==
    /\ IsFiniteSet(Readers) /\ "free" \notin Readers
    /\ MaxHops \in Nat /\ MaxReports \in Nat

VARIABLES
    plugged,        \* the device behind the handle is on the bus
    pc,             \* where the thread that opens and closes is
    disconnected, shutdown_thread,
    registered,     \* the device's callbacks are registered, on the thread's loop
    source,         \* the source that ends the run loop: "none", "set", "signaled"
    input_reports,  \* the queue, by number of the report
    mutex,          \* "free" or the reader that holds it
    thread,         \* where the read thread is
    reader,         \* where each reader is
    timed,          \* the readers whose hid_read has a timeout
    count,          \* of each barrier
    arrived, taken, \* (observability) the last report queued, and returned
    early           \* (observability) a barrier has let a thread through early

flags == <<disconnected, shutdown_thread>>
report == <<input_reports, arrived, taken>>
reading == <<mutex, reader, timed>>
loop == <<registered, source>>
vars == <<plugged, pc, flags, loop, report, reading, thread, count, early>>

Barriers == {"barrier", "shutdown_barrier"}
NoReader == \A r \in Readers : reader[r] = "out"

Init ==
    /\ plugged = TRUE
    /\ pc = "closed"
    /\ disconnected = FALSE /\ shutdown_thread = FALSE
    /\ registered = FALSE /\ source = "none"
    /\ input_reports = <<>> /\ arrived = 0 /\ taken = 0
    /\ mutex = "free" /\ reader = [r \in Readers |-> "out"] /\ timed = {}
    /\ thread = "none"
    /\ count = [b \in Barriers |-> 0]
    /\ early = FALSE

-----------------------------------------------------------------------------
(* pthread_barrier_wait, on the file's own barriers for two threads *)

\* the second one to come
Trips(b) == count[b] + 1 >= 2
Arrive(b) == count' = [count EXCEPT ![b] = IF Trips(b) THEN 0 ELSE @ + 1]

-----------------------------------------------------------------------------
(* the device *)

Unplug ==
    /\ plugged
    /\ plugged' = FALSE
    /\ UNCHANGED <<pc, flags, loop, report, reading, thread, count, early>>

\* a device plugged in again is another one to a handle that is still open
Replug ==
    /\ ~plugged /\ pc = "closed"
    /\ plugged' = TRUE
    /\ UNCHANGED <<pc, flags, loop, report, reading, thread, count, early>>

-----------------------------------------------------------------------------
(* hid_enumerate, hid_open_path *)

Enumerate ==
    /\ pc = "closed" /\ plugged
    /\ pc' = "listed"
    /\ UNCHANGED <<plugged, flags, loop, report, reading, thread, count, early>>

\* new_hid_device, IOHIDDeviceOpen, the callbacks, pthread_create
OpenPath ==
    /\ pc = "listed"
    /\ \/ /\ plugged
          /\ pc' = "create" /\ thread' = "start"
          /\ registered' = TRUE
       \/ pc' = "closed" /\ UNCHANGED <<thread, registered>>
    /\ disconnected' = FALSE /\ shutdown_thread' = FALSE
    /\ count' = [b \in Barriers |-> 0]
    /\ early' = FALSE
    /\ UNCHANGED <<plugged, source, report, reading>>

\* the opening thread comes to the barrier
OpenArrives ==
    /\ pc = "create"
    /\ Arrive("barrier")
    /\ IF Trips("barrier")
       THEN pc' = "ready" /\ thread' = IF thread = "meet" THEN "loop" ELSE thread
       ELSE pc' = "meet" /\ UNCHANGED thread
    /\ UNCHANGED <<plugged, flags, loop, report, reading, early>>

-----------------------------------------------------------------------------
(* read_thread and the callbacks of its run loop *)

\* The run loop and its source are there, then the barrier.
ThreadStarts ==
    /\ thread = "start"
    /\ source' = "set"
    /\ Arrive("barrier")
    /\ IF Trips("barrier")
       THEN /\ thread' = "loop"
            /\ pc' = IF pc = "meet" THEN "ready" ELSE pc
       ELSE thread' = "meet" /\ UNCHANGED pc
    /\ UNCHANGED <<plugged, flags, registered, report, reading, early>>

\* while (!dev->shutdown_thread && !dev->disconnected)
ThreadLoops ==
    /\ thread = "loop"
    /\ thread' = IF shutdown_thread \/ disconnected THEN "broadcast" ELSE "running"
    /\ UNCHANGED <<plugged, pc, flags, loop, report, reading, count, early>>

\* CFRunLoopRunInMode returns after its 1000 seconds.
LoopTimesOut ==
    /\ thread = "running" /\ source # "signaled"
    /\ thread' = "loop"
    /\ UNCHANGED <<plugged, pc, flags, loop, report, reading, count, early>>

\* a report comes; its callback waits for the mutex
ReportComes ==
    /\ thread = "running" /\ registered /\ plugged
    /\ arrived < MaxReports
    /\ thread' = "callback"
    /\ UNCHANGED <<plugged, pc, flags, loop, report, reading, count, early>>

Asleep == {r \in Readers : reader[r] = "asleep"}
Woken == {r \in Readers : reader[r] = "woken"}

\* (mutants) the limit one later; the newest report goes instead of the oldest
KeepLate(q) == IF Len(q) - 3 > MaxHops THEN Tail(q) ELSE q
KeepOld(q) == IF Len(q) - 2 > MaxHops THEN SubSeq(q, 1, Len(q) - 1) ELSE q
\* The hops are counted to the last report before the new one: the queue keeps two
\* more than the 30 of the comment.
Keep(q) == IF Len(q) - 2 > MaxHops THEN Tail(q) ELSE q

\* (mutants) as on Linux; not when the thread ends
IfEmpty == input_reports = <<>>
Never == FALSE
\* pthread_cond_signal at every report, pthread_cond_broadcast at the end
Signals == TRUE
Broadcasts == TRUE

\* hid_report_callback; a signal wakes one of those that wait
QueueReport ==
    /\ thread = "callback" /\ mutex = "free"
    /\ thread' = "running"
    /\ arrived' = arrived + 1
    /\ input_reports' = Keep(Append(input_reports, arrived'))
    /\ IF Signals /\ Asleep # {}
       THEN \E r \in Asleep : reader' = [reader EXCEPT ![r] = "woken"]
       ELSE UNCHANGED reader
    /\ UNCHANGED <<plugged, pc, flags, loop, taken, mutex, timed, count, early>>

\* hid_device_removal_callback: the run loop is stopped
Removed ==
    /\ thread = "running" /\ registered /\ ~plugged
    /\ disconnected' = TRUE
    /\ thread' = "stopped"
    /\ UNCHANGED <<plugged, pc, shutdown_thread, loop, report, reading, count, early>>

\* perform_signal_callback, for hid_close
Performed ==
    /\ thread = "running" /\ source = "signaled"
    /\ source' = "set"
    /\ thread' = "stopped"
    /\ UNCHANGED <<plugged, pc, flags, registered, report, reading, count, early>>

\* A run loop that was stopped counts as an error.
LoopStopped ==
    /\ thread = "stopped"
    /\ shutdown_thread' = TRUE
    /\ thread' = "broadcast"
    /\ UNCHANGED <<plugged, pc, disconnected, loop, report, reading, count, early>>

ThreadBroadcasts ==
    /\ thread = "broadcast" /\ mutex = "free"
    /\ thread' = "finish"
    /\ reader' = IF Broadcasts
                 THEN [r \in Readers |-> IF r \in Asleep THEN "woken" ELSE reader[r]]
                 ELSE reader
    /\ UNCHANGED <<plugged, pc, flags, loop, report, mutex, timed, count, early>>

\* (mutant) the thread ends on its own
Alone(b) == TRUE
LastAt(b) == Trips(b)

\* "Wait here until hid_close() is called and makes it past the call to
\* CFRunLoopWakeUp()."
ThreadArrives ==
    /\ thread = "finish"
    /\ Arrive("shutdown_barrier")
    /\ IF LastAt("shutdown_barrier")
       THEN /\ thread' = "ended"
            /\ pc' = IF pc = "parked" THEN "join" ELSE pc
       ELSE thread' = "parked" /\ UNCHANGED pc
    /\ UNCHANGED <<plugged, flags, loop, report, reading, early>>

-----------------------------------------------------------------------------
(* hid_read_timeout *)

background == <<plugged, pc, flags, loop, arrived, thread, count, early>>
At(r, place) == reader' = [reader EXCEPT ![r] = place]

\* hid_read blocks, or polls; hid_read_timeout has a timeout
ReadCall(r, ms) ==
    /\ pc = "ready" /\ reader[r] = "out"
    /\ At(r, IF ms = "poll" THEN "poll" ELSE "read")
    /\ timed' = IF ms = "timed" THEN timed \cup {r} ELSE timed \ {r}
    /\ UNCHANGED <<input_reports, taken, mutex>> /\ UNCHANGED background

\* return_data, then the mutex is unlocked
ReturnsReport(r) ==
    /\ taken' = Head(input_reports)
    /\ input_reports' = Tail(input_reports)
    /\ At(r, "out")
    /\ mutex' = "free"

ReturnsNone(r) ==
    /\ At(r, "out")
    /\ mutex' = "free"
    /\ UNCHANGED <<input_reports, taken>>

\* the mutex is kept until the thread sleeps
Waits(r) ==
    /\ At(r, "wait")
    /\ mutex' = r
    /\ UNCHANGED <<input_reports, taken>>

Over == disconnected \/ shutdown_thread

ReadLocks(r) ==
    /\ reader[r] \in {"read", "poll"} /\ mutex = "free"
    /\ \/ input_reports # <<>> /\ ReturnsReport(r)
       \/ input_reports = <<>> /\ (Over \/ reader[r] = "poll") /\ ReturnsNone(r)
       \/ input_reports = <<>> /\ ~Over /\ reader[r] = "read" /\ Waits(r)
    /\ UNCHANGED timed /\ UNCHANGED background

\* pthread_cond_wait and pthread_cond_timedwait: the mutex is released ...
ReadWaits(r) ==
    /\ reader[r] = "wait"
    /\ At(r, "asleep") /\ mutex' = "free"
    /\ UNCHANGED <<input_reports, taken, timed>> /\ UNCHANGED background

\* ... also without a reason, or because of the time ...
WakesUp(r) ==
    /\ reader[r] = "asleep"
    /\ \/ At(r, "woken")
       \/ r \in timed /\ At(r, "late")
    /\ UNCHANGED <<input_reports, taken, mutex, timed>> /\ UNCHANGED background

\* ... and taken again: the flags are looked at before the queue.
ReadRelocks(r) ==
    /\ reader[r] \in {"woken", "late"} /\ mutex = "free"
    /\ \/ (reader[r] = "late" \/ Over) /\ ReturnsNone(r)
       \/ reader[r] = "woken" /\ ~Over /\ input_reports # <<>> /\ ReturnsReport(r)
       \/ reader[r] = "woken" /\ ~Over /\ input_reports = <<>> /\ Waits(r)
    /\ UNCHANGED timed /\ UNCHANGED background

-----------------------------------------------------------------------------
(* hid_close, when no other thread is in a call with the device *)

\* The callbacks go, if the removal has not been noticed; the device is then
\* no longer on the thread's run loop.
Close ==
    /\ pc = "ready" /\ NoReader
    /\ pc' = IF disconnected THEN "stop" ELSE "unregister"
    /\ UNCHANGED <<plugged, flags, loop, report, reading, thread, count, early>>

Unregister ==
    /\ pc = "unregister"
    /\ pc' = "stop"
    /\ registered' = FALSE
    /\ UNCHANGED <<plugged, flags, source, report, reading, thread, count, early>>

CloseStops ==
    /\ pc = "stop"
    /\ pc' = "wake"
    /\ shutdown_thread' = TRUE
    /\ UNCHANGED <<plugged, disconnected, loop, report, reading, thread, count, early>>

\* (mutant) the flag is to do
Unsignaled == source
Signaled == "signaled"

\* CFRunLoopSourceSignal and CFRunLoopWakeUp need the thread's source and loop.
CloseWakes ==
    /\ pc = "wake"
    /\ IF source = "none" \/ thread = "ended"
       THEN pc' = "crashed" /\ UNCHANGED source
       ELSE pc' = "arrive" /\ source' = Signaled
    /\ UNCHANGED <<plugged, flags, registered, report, reading, thread, count, early>>

CloseArrives ==
    /\ pc = "arrive"
    /\ Arrive("shutdown_barrier")
    /\ IF Trips("shutdown_barrier")
       THEN pc' = "join" /\ thread' = IF thread = "parked" THEN "ended" ELSE thread
       ELSE pc' = "parked" /\ UNCHANGED thread
    /\ UNCHANGED <<plugged, flags, loop, report, reading, early>>

\* (mutant) the thread is not waited for
AnyTime == TRUE
ThreadEnded == thread = "ended"

Joined ==
    /\ pc = "join" /\ ThreadEnded
    /\ pc' = "release"
    /\ UNCHANGED <<plugged, flags, loop, report, reading, thread, count, early>>

\* "Close the OS handle to the device, but only if it's not been unplugged": what
\* is looked at is whether the removal has been noticed.  On a device that is gone
\* IOHIDDeviceClose crashes.
CloseHandle ==
    /\ pc = "release"
    /\ pc' = IF ~disconnected /\ ~plugged THEN "pulled" ELSE "clear"
    /\ UNCHANGED <<plugged, flags, loop, report, reading, thread, count, early>>

\* the reports, the source, the device
Release ==
    /\ pc = "clear" /\ mutex = "free"
    /\ pc' = "closed"
    /\ thread' = "none" /\ source' = "none" /\ registered' = FALSE
    /\ input_reports' = <<>>
    /\ UNCHANGED <<plugged, flags, arrived, taken, reading, count, early>>

-----------------------------------------------------------------------------
(* a wakeup for no reason at a barrier, which keeps its count *)

MainEarly ==
    /\ \/ pc = "meet" /\ pc' = "ready"
       \/ pc = "parked" /\ pc' = "join"
    /\ early' = TRUE
    /\ UNCHANGED <<plugged, flags, loop, report, reading, thread, count>>

ThreadEarly ==
    /\ \/ thread = "meet" /\ thread' = "loop"
       \/ thread = "parked" /\ thread' = "ended"
    /\ early' = TRUE
    /\ UNCHANGED <<plugged, pc, flags, loop, report, reading, count>>

-----------------------------------------------------------------------------
ThreadStep ==
    \/ ThreadStarts \/ ThreadLoops \/ QueueReport \/ Removed \/ Performed
    \/ LoopStopped \/ ThreadBroadcasts \/ ThreadArrives
ReadStep(r) == ReadLocks(r) \/ ReadWaits(r) \/ ReadRelocks(r)
CloseStep ==
    \/ Unregister \/ CloseStops \/ CloseWakes \/ CloseArrives \/ Joined
    \/ CloseHandle \/ Release

Next ==
    \/ Unplug \/ Replug \/ Enumerate \/ OpenPath \/ OpenArrives
    \/ ThreadStep \/ LoopTimesOut \/ ReportComes
    \/ (\E r \in Readers, ms \in {"blocking", "timed", "poll"} : ReadCall(r, ms))
    \/ (\E r \in Readers : ReadStep(r) \/ WakesUp(r))
    \/ Close \/ CloseStep
    \/ MainEarly \/ ThreadEarly

Spec == Init /\ [][Next]_vars

(***************************************************************************)
(* The system schedules every thread, lets one that waits for the mutex    *)
(* have it if it is free again and again, and a run loop that is run again *)
(* and again notices a removal.  Nothing is assumed of the device, of the  *)
(* calls the program makes, of the clock (a run loop comes back after a    *)
(* thousand seconds) or of wakeups for no reason.                          *)
(***************************************************************************)
FairSpec ==
    /\ Spec
    /\ WF_vars(OpenArrives) /\ WF_vars(ThreadStep) /\ WF_vars(CloseStep)
    /\ SF_vars(Removed) /\ SF_vars(QueueReport) /\ SF_vars(ThreadBroadcasts)
    /\ \A r \in Readers : WF_vars(ReadStep(r))

-----------------------------------------------------------------------------
\* The variables have the values the code can give them.
TypeOK ==
    /\ plugged \in BOOLEAN
    /\ pc \in {"closed", "listed", "create", "meet", "ready", "unregister", "stop",
               "wake", "arrive", "parked", "join", "release", "clear", "crashed", "pulled"}
    /\ disconnected \in BOOLEAN /\ shutdown_thread \in BOOLEAN
    /\ registered \in BOOLEAN
    /\ source \in {"none", "set", "signaled"}
    /\ input_reports \in Seq(Nat) /\ Len(input_reports) <= MaxHops + 2
    /\ mutex \in Readers \cup {"free"}
    /\ thread \in {"none", "start", "meet", "loop", "running", "callback", "stopped",
                   "broadcast", "finish", "parked", "ended"}
    /\ reader \in [Readers -> {"out", "read", "poll", "wait", "asleep", "woken", "late"}]
    /\ timed \subseteq Readers
    /\ count \in [Barriers -> 0..1]
    /\ arrived \in Nat /\ taken \in Nat
    /\ early \in BOOLEAN

(***************************************************************************)
(* hid_close never signals a source that is not there yet and never wakes  *)
(* the run loop of a thread that has ended, though that thread may stop on *)
(* its own at any time: the two barriers see to it, as long as none of     *)
(* them lets a thread through early.                                       *)
(***************************************************************************)
WakesLiveLoop == pc = "crashed" => early

(***************************************************************************)
(* While the device is there, reports are not left lying for a reader that *)
(* sleeps: of the readers that wait, as many have been woken as there are  *)
(* reports, whichever of them the signals went to.                         *)
(***************************************************************************)
SleepersHaveNothing ==
    Asleep # {} /\ ~Over => Len(input_reports) <= Cardinality(Woken)

(***************************************************************************)
(* The device is closed and freed when its thread has ended, no callback   *)
(* of it runs and no thread is in a read; its callbacks are gone unless    *)
(* the device is known to be.                                              *)
(***************************************************************************)
FreedAtRest ==
    pc \in {"release", "clear"} =>
        /\ thread = "ended" /\ NoReader
        /\ registered => disconnected

\* The queue keeps what ReportQueue promises.
Queue == INSTANCE ReportQueue WITH queue <- input_reports, Kept <- MaxHops + 2
ImplementsQueue == Queue!Spec

(***************************************************************************)
(* hid_close returns, whatever the run loop is doing when it is called,    *)
(* as long as no barrier lets a thread through early and the stick is not  *)
(* pulled out without the run loop noticing: then it comes as far as       *)
(* IOHIDDeviceClose.                                                       *)
(***************************************************************************)
CloseReturns == pc = "stop" ~> pc \in {"closed", "pulled"} \/ early

\* Every hid_read that sleeps returns when the stick has been pulled out.
EndReachesReaders ==
    \A r \in Readers : reader[r] = "asleep" /\ ~plugged ~> reader[r] = "out"
=============================================================================
