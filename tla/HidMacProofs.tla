---------------------------- MODULE HidMacProofs ----------------------------
(***************************************************************************)
(* Proofs about HidMac.                                                    *)
(*                                                                         *)
(* As long as the barriers hold, each is passed by both threads together,  *)
(* and its count says who is there already (Ordered): that alone keeps the *)
(* run loop's thread alive for hid_close.  Apart from that, a report wakes *)
(* one sleeper and a reader that has been woken takes one, so the two      *)
(* numbers stay in step (SleepersHaveNothing).                             *)
(***************************************************************************)
EXTENDS HidMac, FiniteSetTheorems, TLAPS

Rest == {"closed", "listed"}
Releasing == {"release", "clear", "pulled"}
Stopping == {"stop", "wake", "arrive", "parked", "join"} \cup Releasing

\* what there is of the thread and of the device
Held ==
    /\ thread = "none" <=> pc \in Rest
    /\ pc \in Rest => source = "none" /\ ~registered
    /\ pc \in Releasing => thread = "ended"
    /\ pc \in Stopping /\ registered => disconnected
    /\ pc # "ready" => NoReader
    /\ thread = "callback" => arrived < MaxReports

\* where the two threads are with respect to the barriers
Ordered ==
    ~early /\ pc \notin Rest =>
        /\ source = "none" <=> thread = "start"
        /\ pc = "create" => thread \in {"start", "meet"}
        /\ pc = "meet" => thread = "start"
        /\ thread = "start" => pc \in {"create", "meet"}
        /\ thread = "meet" => pc = "create"
        /\ thread = "ended" <=> pc \in {"join"} \cup Releasing
        /\ pc = "parked" => thread # "parked"
        /\ pc # "crashed"
        /\ count["barrier"] = IF pc = "meet" \/ thread = "meet" THEN 1 ELSE 0
        /\ count["shutdown_barrier"] = IF pc = "parked" \/ thread = "parked" THEN 1 ELSE 0

\* a reader on its way to sleep has the mutex and has found nothing
Locked ==
    \A r \in Readers :
        /\ mutex = r <=> reader[r] = "wait"
        /\ reader[r] = "wait" => input_reports = <<>>

Safe == TypeOK /\ Held /\ Ordered /\ Locked
IInv == Safe /\ SleepersHaveNothing

\* The limits are numbers, and no reader is the mark of a free mutex.
LEMMA Limits == "free" \notin Readers /\ MaxHops \in Nat /\ MaxReports \in Nat
  BY MacAssumption

USE Limits

-----------------------------------------------------------------------------
\* The queue stays a queue of numbers, and one report longer at most.
LEMMA KeepsType ==
    ASSUME NEW q \in Seq(Nat), Len(q) <= MaxHops + 2, NEW n \in Nat
    PROVE  /\ Keep(Append(q, n)) \in Seq(Nat)
           /\ Len(Keep(Append(q, n))) <= MaxHops + 2
           /\ Len(Keep(Append(q, n))) <= Len(q) + 1
<1>1. Append(q, n) \in Seq(Nat) /\ Len(Append(q, n)) = Len(q) + 1
  OBVIOUS
<1>2. Append(q, n) # <<>> /\ Len(Tail(Append(q, n))) = Len(q)
  BY <1>1
<1>3. Tail(Append(q, n)) \in Seq(Nat)
  BY <1>1, <1>2
<1>4. Len(q) \in Nat
  OBVIOUS
<1> QED
  BY <1>1, <1>2, <1>3, <1>4 DEF Keep

\* Without its oldest report the queue is one report shorter.
LEMMA TakesType ==
    ASSUME NEW q \in Seq(Nat), Len(q) <= MaxHops + 2, q # <<>>
    PROVE  /\ Head(q) \in Nat /\ Tail(q) \in Seq(Nat)
           /\ Len(Tail(q)) <= MaxHops + 2 /\ Len(Tail(q)) = Len(q) - 1
  OBVIOUS

\* There are only finitely many readers to wake.
LEMMA FewReaders ==
    ASSUME NEW S \in SUBSET Readers
    PROVE  IsFiniteSet(S) /\ Cardinality(S) \in Nat
<1>1. IsFiniteSet(S)
  BY FS_Subset, MacAssumption
<1> QED
  BY <1>1, FS_CardinalityType

\* ... before and after a step.
LEMMA WokenFinite ==
    /\ IsFiniteSet(Woken) /\ Cardinality(Woken) \in Nat
    /\ IsFiniteSet(Woken') /\ Cardinality(Woken') \in Nat
<1>1. Woken \in SUBSET Readers /\ Woken' \in SUBSET Readers
  BY DEF Woken
<1> QED
  BY <1>1, FewReaders

\* One reader goes to another place: what becomes of those that wait.
LEMMA Moves ==
    ASSUME TypeOK, NEW r \in Readers, NEW place, At(r, place)
    PROVE  /\ Asleep' \subseteq Asleep \cup (IF place = "asleep" THEN {r} ELSE {})
           /\ Woken' = IF place = "woken" THEN Woken \cup {r} ELSE Woken \ {r}
           /\ \A x \in Readers \ {r} : reader'[x] = reader[x]
           /\ reader'[r] = place
  BY DEF TypeOK, At, Asleep, Woken

\* One more or one less of those that were woken.
LEMMA WokenCount ==
    ASSUME NEW r, IsFiniteSet(Woken)
    PROVE  /\ r \notin Woken => Cardinality(Woken \cup {r}) = Cardinality(Woken) + 1
           /\ r \notin Woken => Woken \ {r} = Woken
           /\ Cardinality(Woken \ {r}) >= Cardinality(Woken) - 1
           /\ Cardinality(Woken \cup {r}) >= Cardinality(Woken)
<1>1. Cardinality(Woken) \in Nat
  BY FS_CardinalityType
<1>2. Cardinality(Woken \cup {r}) =
        IF r \in Woken THEN Cardinality(Woken) ELSE Cardinality(Woken) + 1
  BY FS_AddElement
<1>3. Cardinality(Woken \ {r}) =
        IF r \in Woken THEN Cardinality(Woken) - 1 ELSE Cardinality(Woken)
  BY FS_RemoveElement
<1> QED
  BY <1>1, <1>2, <1>3

-----------------------------------------------------------------------------
\* Nothing is open and nobody reads.
LEMMA Initially == Init => IInv
<1> SUFFICES ASSUME Init PROVE IInv
  OBVIOUS
<1>1. input_reports \in Seq(Nat) /\ Len(input_reports) <= MaxHops + 2
  BY DEF Init
<1>2. Asleep = {}
  BY DEF Init, Asleep
<1>3. TypeOK
  <2>1. reader \in [Readers -> {"out", "read", "poll", "wait", "asleep", "woken", "late"}]
    BY DEF Init
  <2>2. count \in [Barriers -> 0..1]
    BY DEF Init
  <2> QED
    BY <1>1, <2>1, <2>2 DEF Init, TypeOK
<1>4. Held /\ Ordered /\ Locked
  BY DEF Init, Held, Ordered, Locked, Rest, Releasing, Stopping, NoReader
<1> QED
  BY <1>2, <1>3, <1>4 DEF IInv, Safe, SleepersHaveNothing

\* A step that does not touch the readers or the queue leaves them in step.
LEMMA OthersSleepOn ==
    ASSUME SleepersHaveNothing, UNCHANGED <<reader, input_reports>>,
           Over => Over' \/ Asleep = {}
    PROVE  SleepersHaveNothing'
<1>1. Asleep' = Asleep /\ Woken' = Woken
  BY DEF Asleep, Woken
<1> QED
  BY <1>1 DEF SleepersHaveNothing

\* the types under hid_open_path and a removal, with the counts of the barriers
LEMMA DeviceTypes == ASSUME TypeOK, Unplug \/ OpenPath PROVE TypeOK'
<1>1. CASE Unplug
  <2>1. plugged' \in BOOLEAN
    BY <1>1 DEF Unplug
  <2>2. UNCHANGED <<pc, disconnected, shutdown_thread, registered, source, input_reports>>
    BY <1>1 DEF Unplug, flags, loop, report
  <2>3. UNCHANGED <<mutex, thread, reader, timed, count, arrived, taken, early>>
    BY <1>1 DEF Unplug, report, reading
  <2> QED
    BY <2>1, <2>2, <2>3 DEF TypeOK
<1>2. CASE OpenPath
  <2>1. count' \in [Barriers -> 0..1]
    BY <1>2 DEF OpenPath
  <2>2. disconnected' \in BOOLEAN /\ shutdown_thread' \in BOOLEAN /\ early' \in BOOLEAN
        /\ registered' \in BOOLEAN
    BY <1>2 DEF OpenPath, TypeOK
  <2>3. pc' \in {"create", "closed"} /\ thread' \in {"start", thread}
    BY <1>2 DEF OpenPath
  <2>4. UNCHANGED <<plugged, source, input_reports, mutex, reader, timed, arrived, taken>>
    BY <1>2 DEF OpenPath, report, reading
  <2> QED
    BY <2>1, <2>2, <2>3, <2>4 DEF TypeOK
<1> QED
  BY <1>1, <1>2

\* the device, hid_open_path and hid_close
LEMMA MainStep ==
    ASSUME IInv,
           \/ Unplug \/ Replug \/ Enumerate \/ OpenPath \/ OpenArrives
           \/ Close \/ CloseStep \/ MainEarly
    PROVE  IInv'
<1> USE DEF IInv, Safe, TypeOK, Held, Ordered, Locked, Rest, Releasing, Stopping, NoReader, Barriers,
            flags, report, reading, loop
<1>1. Safe'
  <2>1. CASE Unplug
    <3>1. TypeOK'
      BY <2>1, DeviceTypes
    <3>2. Held' /\ Locked'
      BY <2>1 DEF Unplug
    <3>3. Ordered'
      BY <2>1 DEF Unplug
    <3> QED
      BY <3>1, <3>2, <3>3
  <2>2. CASE Replug
    <3>1. TypeOK'
      BY <2>2 DEF Replug
    <3>2. Held' /\ Locked'
      BY <2>2 DEF Replug
    <3>3. Ordered'
      BY <2>2 DEF Replug
    <3> QED
      BY <3>1, <3>2, <3>3
  <2>3. CASE Enumerate
    <3>1. TypeOK'
      BY <2>3 DEF Enumerate
    <3>2. Held' /\ Locked'
      BY <2>3 DEF Enumerate
    <3>3. Ordered'
      BY <2>3 DEF Enumerate
    <3> QED
      BY <3>1, <3>2, <3>3
  <2>4. CASE OpenPath
    <3>1. TypeOK'
      BY <2>4, DeviceTypes
    <3>2. Held' /\ Locked'
      BY <2>4 DEF OpenPath
    <3>3. Ordered'
      BY <2>4 DEF OpenPath
    <3> QED
      BY <3>1, <3>2, <3>3
  <2>5. CASE OpenArrives
    <3>1. TypeOK'
      BY <2>5 DEF OpenArrives, Arrive, Trips
    <3>2. Held' /\ Locked'
      BY <2>5 DEF OpenArrives, Arrive, Trips
    <3>3. Ordered'
      BY <2>5 DEF OpenArrives, Arrive, Trips
    <3> QED
      BY <3>1, <3>2, <3>3
  <2>6. CASE Close
    <3>1. TypeOK'
      BY <2>6 DEF Close
    <3>2. Held' /\ Locked'
      BY <2>6 DEF Close
    <3>3. Ordered'
      BY <2>6 DEF Close
    <3> QED
      BY <3>1, <3>2, <3>3
  <2>7. CASE Unregister
    <3>1. TypeOK'
      BY <2>7 DEF Unregister
    <3>2. Held' /\ Locked'
      BY <2>7 DEF Unregister
    <3>3. Ordered'
      BY <2>7 DEF Unregister
    <3> QED
      BY <3>1, <3>2, <3>3
  <2>8. CASE CloseStops
    <3>1. TypeOK'
      BY <2>8 DEF CloseStops
    <3>2. Held' /\ Locked'
      BY <2>8 DEF CloseStops
    <3>3. Ordered'
      BY <2>8 DEF CloseStops
    <3> QED
      BY <3>1, <3>2, <3>3
  <2>9. CASE CloseWakes
    <3>1. TypeOK'
      BY <2>9 DEF CloseWakes, Signaled
    <3>2. Held' /\ Locked'
      BY <2>9 DEF CloseWakes, Signaled
    <3>3. Ordered'
      BY <2>9 DEF CloseWakes, Signaled
    <3> QED
      BY <3>1, <3>2, <3>3
  <2>10. CASE CloseArrives
    <3>1. TypeOK'
      BY <2>10 DEF CloseArrives, Arrive, Trips
    <3>2. Held' /\ Locked'
      BY <2>10 DEF CloseArrives, Arrive, Trips
    <3>3. Ordered'
      BY <2>10 DEF CloseArrives, Arrive, Trips
    <3> QED
      BY <3>1, <3>2, <3>3
  <2>11. CASE Joined
    <3>1. TypeOK'
      BY <2>11 DEF Joined, ThreadEnded
    <3>2. Held' /\ Locked'
      BY <2>11 DEF Joined, ThreadEnded
    <3>3. Ordered'
      BY <2>11 DEF Joined, ThreadEnded
    <3> QED
      BY <3>1, <3>2, <3>3
  <2>12. CASE CloseHandle
    <3>1. TypeOK'
      BY <2>12 DEF CloseHandle
    <3>2. Held' /\ Locked'
      BY <2>12 DEF CloseHandle
    <3>3. Ordered'
      BY <2>12 DEF CloseHandle
    <3> QED
      BY <3>1, <3>2, <3>3
  <2>13. CASE Release
    <3>1. TypeOK'
      <4>1. input_reports' \in Seq(Nat) /\ Len(input_reports') <= MaxHops + 2
        BY <2>13 DEF Release
      <4> QED
        BY <2>13, <4>1 DEF Release
    <3>2. Held' /\ Locked'
      BY <2>13 DEF Release
    <3>3. Ordered'
      BY <2>13 DEF Release
    <3> QED
      BY <3>1, <3>2, <3>3
  <2>14. CASE MainEarly
    <3>1. TypeOK'
      BY <2>14 DEF MainEarly
    <3>2. Held' /\ Locked'
      BY <2>14 DEF MainEarly
    <3>3. Ordered'
      BY <2>14 DEF MainEarly
    <3> QED
      BY <3>1, <3>2, <3>3
  <2> QED
    BY <2>1, <2>2, <2>3, <2>4, <2>5, <2>6, <2>7,
       <2>8, <2>9, <2>10, <2>11, <2>12, <2>13, <2>14 DEF CloseStep
<1>2. SleepersHaveNothing'
  <2>1. CASE OpenPath \/ Release
    <3>1. Asleep' = {}
      BY <2>1 DEF OpenPath, Release, Asleep
    <3> QED
      BY <3>1 DEF SleepersHaveNothing
  <2>2. CASE ~(OpenPath \/ Release)
    BY <2>2, OthersSleepOn
       DEF Over, Unplug, Replug, Enumerate, OpenArrives, Close, CloseStep, Unregister,
           CloseStops, CloseWakes, CloseArrives, Joined, CloseHandle, MainEarly
  <2> QED
    BY <2>1, <2>2
<1> QED
  BY <1>1, <1>2

\* the read thread and its run loop
LEMMA LoopStep ==
    ASSUME IInv, ThreadStep \/ LoopTimesOut \/ ReportComes \/ ThreadEarly
    PROVE  IInv'
<1> USE DEF IInv, Safe, TypeOK, Held, Ordered, Locked, Rest, Releasing, Stopping, NoReader, Barriers,
            flags, report, reading, loop
<1>1. CASE QueueReport
  <2>1. /\ arrived' \in Nat /\ input_reports' \in Seq(Nat)
        /\ Len(input_reports') <= MaxHops + 2
        /\ Len(input_reports') <= Len(input_reports) + 1
    BY <1>1, KeepsType DEF QueueReport
  <2>2. \A r \in Readers : reader[r] # "wait"
    BY <1>1 DEF QueueReport
  <2>3. CASE Asleep = {}
    <3>1. UNCHANGED reader
      BY <1>1, <2>3 DEF QueueReport
    <3>2. Asleep' = {}
      BY <2>3, <3>1 DEF Asleep
    <3> QED
      BY <1>1, <2>1, <2>2, <3>1, <3>2 DEF QueueReport, SleepersHaveNothing
  <2>4. CASE Asleep # {}
    <3>1. PICK r \in Asleep : At(r, "woken")
      BY <1>1, <2>4 DEF QueueReport, Signals, At
    <3>2. r \in Readers /\ reader[r] = "asleep" /\ r \notin Woken
      BY <3>1 DEF Asleep, Woken
    <3>3. Safe'
      BY <1>1, <2>1, <2>2, <3>1, <3>2 DEF QueueReport, At
    <3>4. Woken' = Woken \cup {r}
      BY <3>1, <3>2, Moves
    <3>5. Cardinality(Woken') = Cardinality(Woken) + 1 /\ Cardinality(Woken) \in Nat
      BY <3>2, <3>4, WokenFinite, WokenCount
    <3>6. ~Over' => Len(input_reports) <= Cardinality(Woken)
      BY <1>1, <2>4 DEF QueueReport, Over, SleepersHaveNothing
    <3>7. SleepersHaveNothing'
      BY <2>1, <3>5, <3>6 DEF SleepersHaveNothing
    <3> QED
      BY <3>3, <3>7
  <2> QED
    BY <2>3, <2>4
<1>2. CASE ThreadBroadcasts
  <2>1. Asleep' = {}
    BY <1>2 DEF ThreadBroadcasts, Broadcasts, Asleep
  <2>2. Safe'
    BY <1>2 DEF ThreadBroadcasts, Broadcasts, Asleep
  <2> QED
    BY <2>1, <2>2 DEF SleepersHaveNothing
<1>3. CASE ThreadStarts \/ ThreadArrives
  <2>1. Safe'
    BY <1>3 DEF ThreadStarts, ThreadArrives, Arrive, Trips, LastAt
  <2>2. SleepersHaveNothing'
    BY <1>3, OthersSleepOn DEF ThreadStarts, ThreadArrives, Over
  <2> QED
    BY <2>1, <2>2
<1>4. CASE ThreadLoops \/ Removed \/ Performed \/ LoopStopped
           \/ LoopTimesOut \/ ReportComes \/ ThreadEarly
  <2>1. Safe'
    <3>1. CASE ThreadLoops
      BY <3>1 DEF ThreadLoops
    <3>2. CASE Removed
      BY <3>2 DEF Removed
    <3>3. CASE Performed
      BY <3>3 DEF Performed
    <3>7. CASE LoopStopped
      BY <3>7 DEF LoopStopped
    <3>4. CASE LoopTimesOut
      BY <3>4 DEF LoopTimesOut
    <3>6. CASE ReportComes
      BY <3>6 DEF ReportComes
    <3>5. CASE ThreadEarly
      BY <3>5 DEF ThreadEarly
    <3> QED
      BY <1>4, <3>1, <3>2, <3>3, <3>4, <3>5, <3>6, <3>7
  <2>2. SleepersHaveNothing'
    BY <1>4, OthersSleepOn
       DEF ThreadLoops, Removed, Performed, LoopStopped, LoopTimesOut, ReportComes,
           ThreadEarly, Over
  <2> QED
    BY <2>1, <2>2
<1> QED
  BY <1>1, <1>2, <1>3, <1>4 DEF ThreadStep

\* a reader moves and takes the mutex, gives it back or leaves it alone
LEMMA LockedMove ==
    ASSUME TypeOK, Locked, NEW r \in Readers, NEW place, At(r, place),
           \/ place = "wait" /\ mutex' = r /\ mutex = "free" /\ input_reports' = <<>>
           \/ place # "wait" /\ mutex' = "free" /\ mutex \in {r, "free"}
           \/ /\ place # "wait" /\ reader[r] # "wait"
              /\ UNCHANGED <<mutex, input_reports>>
    PROVE  Locked'
<1>1. reader'[r] = place /\ \A x \in Readers \ {r} : reader'[x] = reader[x]
  BY Moves
<1>2. CASE place = "wait"
  BY <1>1, <1>2 DEF Locked
<1>3. CASE place # "wait" /\ mutex' = "free"
  BY <1>1, <1>3 DEF Locked
<1>4. CASE place # "wait" /\ mutex' # "free"
  BY <1>1, <1>4 DEF Locked
<1> QED
  BY <1>2, <1>3, <1>4

\* hid_read, in any of the threads
LEMMA ReadSafe ==
    ASSUME IInv, NEW r \in Readers,
           \/ \E ms \in {"blocking", "timed", "poll"} : ReadCall(r, ms)
           \/ ReadStep(r) \/ WakesUp(r)
    PROVE  Safe'
<1> DEFINE Places == {"out", "read", "poll", "wait", "asleep", "woken", "late"}
<1>1. pc = "ready" /\ timed' \subseteq Readers /\ UNCHANGED background
  BY DEF IInv, Safe, TypeOK, Held, NoReader, ReadCall, ReadStep, ReadLocks, ReadWaits,
         ReadRelocks, WakesUp
<1>2. UNCHANGED <<plugged, pc, disconnected, shutdown_thread, registered, source, arrived,
                  thread, count, early>>
  BY <1>1 DEF background, flags, loop
<1>3. TypeOK /\ Held /\ Ordered /\ Locked
  BY DEF IInv, Safe
<1>4. Held' /\ Ordered'
  <2>1. Held'
    BY <1>1, <1>2, <1>3 DEF Held, Rest, Releasing, Stopping
  <2>2. Ordered'
    BY <1>2, <1>3 DEF Ordered, Rest, Releasing
  <2> QED
    BY <2>1, <2>2
<1>5. ASSUME NEW place \in Places, At(r, place), mutex' \in Readers \cup {"free"},
             taken' \in Nat, input_reports' \in Seq(Nat), Len(input_reports') <= MaxHops + 2
      PROVE  TypeOK'
  <2>1. reader' \in [Readers -> Places]
    BY <1>3, <1>5 DEF TypeOK, At
  <2> QED
    BY <1>1, <1>2, <1>3, <1>5, <2>1 DEF TypeOK
<1>6. taken \in Nat /\ input_reports \in Seq(Nat) /\ Len(input_reports) <= MaxHops + 2
  BY <1>3 DEF TypeOK
<1>7. mutex \in Readers \cup {"free"} /\ (reader[r] = "wait" <=> mutex = r)
  BY <1>3 DEF TypeOK, Locked
<1>8. TypeOK' /\ Locked'
  <2>1. ASSUME ReturnsReport(r), input_reports # <<>>, mutex = "free"
        PROVE  TypeOK' /\ Locked'
    <3>1. /\ taken' \in Nat /\ input_reports' \in Seq(Nat)
          /\ Len(input_reports') <= MaxHops + 2
      BY <1>6, <2>1, TakesType DEF ReturnsReport
    <3> QED
      BY <1>3, <1>5, <2>1, <3>1, LockedMove DEF ReturnsReport
  <2>2. ASSUME ReturnsNone(r), mutex = "free"
        PROVE  TypeOK' /\ Locked'
    BY <1>3, <1>5, <1>6, <2>2, LockedMove DEF ReturnsNone
  <2>3. ASSUME Waits(r), input_reports = <<>>, mutex = "free"
        PROVE  TypeOK' /\ Locked'
    BY <1>3, <1>5, <1>6, <2>3, LockedMove DEF Waits
  <2>4. ASSUME NEW ms \in {"blocking", "timed", "poll"}, ReadCall(r, ms)
        PROVE  TypeOK' /\ Locked'
    <3>1. /\ \E place \in {"poll", "read"} : At(r, place)
          /\ reader[r] = "out" /\ UNCHANGED <<input_reports, taken, mutex>>
      BY <2>4 DEF ReadCall
    <3> QED
      BY <1>3, <1>5, <1>6, <1>7, <3>1, LockedMove
  <2>5. CASE ReadLocks(r)
    BY <2>1, <2>2, <2>3, <2>5 DEF ReadLocks
  <2>6. CASE ReadRelocks(r)
    BY <2>1, <2>2, <2>3, <2>6 DEF ReadRelocks
  <2>7. CASE ReadWaits(r)
    <3>1. At(r, "asleep") /\ mutex' = "free" /\ mutex = r
          /\ UNCHANGED <<input_reports, taken>>
      BY <1>7, <2>7 DEF ReadWaits
    <3> QED
      BY <1>3, <1>5, <1>6, <3>1, LockedMove
  <2>8. CASE WakesUp(r)
    <3>1. /\ \E place \in {"woken", "late"} : At(r, place)
          /\ reader[r] = "asleep" /\ UNCHANGED <<input_reports, taken, mutex>>
      BY <2>8 DEF WakesUp
    <3> QED
      BY <1>3, <1>5, <1>6, <1>7, <3>1, LockedMove
  <2> QED
    BY <2>4, <2>5, <2>6, <2>7, <2>8 DEF ReadStep
<1> QED
  BY <1>4, <1>8 DEF Safe

\* Who takes a report was woken, or the queue is empty, or nobody sleeps.
LEMMA ReadInStep ==
    ASSUME IInv, NEW r \in Readers,
           \/ \E ms \in {"blocking", "timed", "poll"} : ReadCall(r, ms)
           \/ ReadStep(r) \/ WakesUp(r)
    PROVE  SleepersHaveNothing'
<1>1. TypeOK /\ TypeOK' /\ Locked /\ SleepersHaveNothing
  BY ReadSafe DEF IInv, Safe
<1>2. Over' = Over
  BY DEF Over, ReadCall, ReadStep, ReadLocks, ReadWaits, ReadRelocks, WakesUp, background, flags
<1>3. /\ Len(input_reports) \in Nat /\ Len(input_reports') \in Nat
      /\ Cardinality(Woken) \in Nat /\ Cardinality(Woken') \in Nat
      /\ IsFiniteSet(Woken)
  BY <1>1, WokenFinite DEF TypeOK
<1>4. ASSUME ~Over, Len(input_reports') = 0
      PROVE  SleepersHaveNothing'
  BY <1>3, <1>4 DEF SleepersHaveNothing
\* Whoever was not woken goes where nobody sleeps, and no report comes
<1>5. ASSUME NEW place, At(r, place), place # "asleep", r \notin Woken,
             Len(input_reports') <= Len(input_reports)
      PROVE  SleepersHaveNothing'
  <2>1. /\ Asleep' \subseteq Asleep
        /\ (Woken' = Woken \cup {r}) \/ (Woken' = Woken)
    <3>1. Asleep' \subseteq Asleep /\ (place = "woken" => Woken' = Woken \cup {r})
      BY <1>1, <1>5, Moves
    <3>2. place # "woken" => Woken' = Woken \ {r}
      BY <1>1, <1>5, Moves
    <3>3. Woken \ {r} = Woken
      BY <1>5
    <3> QED
      BY <3>1, <3>2, <3>3
  <2>2. Cardinality(Woken') >= Cardinality(Woken)
    <3>1. Cardinality(Woken \cup {r}) >= Cardinality(Woken)
      BY <1>3, WokenCount
    <3>2. CASE Woken' = Woken \cup {r}
      BY <3>1, <3>2
    <3>3. CASE Woken' = Woken
      BY <1>3, <3>3
    <3> QED
      BY <2>1, <3>2, <3>3
  <2> QED
    BY <1>1, <1>2, <1>3, <1>5, <2>1, <2>2 DEF SleepersHaveNothing
<1>6. ASSUME ReturnsReport(r), reader[r] = "woken", input_reports # <<>>
      PROVE  SleepersHaveNothing'
  <2>1. Asleep' \subseteq Asleep /\ Woken' = Woken \ {r}
    BY <1>1, <1>6, Moves DEF ReturnsReport
  <2>2. Cardinality(Woken') >= Cardinality(Woken) - 1
    BY <1>3, <2>1, WokenCount
  <2>3. Len(input_reports') = Len(input_reports) - 1
    BY <1>1, <1>6, TakesType DEF ReturnsReport, TypeOK
  <2> QED
    BY <1>1, <1>2, <1>3, <2>1, <2>2, <2>3 DEF SleepersHaveNothing
<1>7. CASE \E ms \in {"blocking", "timed", "poll"} : ReadCall(r, ms)
  <2>1. \E place \in {"poll", "read"} : At(r, place)
    BY <1>7 DEF ReadCall
  <2> QED
    BY <1>3, <1>5, <1>7, <2>1 DEF ReadCall, Woken
<1>8. CASE ReadLocks(r)
  <2>1. r \notin Woken
    BY <1>8 DEF ReadLocks, Woken
  <2>2. CASE ReturnsReport(r) /\ input_reports # <<>>
    <3>1. Len(input_reports') = Len(input_reports) - 1
      BY <1>1, <2>2, TakesType DEF ReturnsReport, TypeOK
    <3> QED
      BY <1>3, <1>5, <2>1, <2>2, <3>1 DEF ReturnsReport
  <2>3. CASE ReturnsNone(r) \/ Waits(r)
    BY <1>3, <1>5, <2>1, <2>3 DEF ReturnsNone, Waits
  <2> QED
    BY <1>8, <2>2, <2>3 DEF ReadLocks
<1>9. CASE ReadRelocks(r)
  <2>1. CASE ~Over /\ reader[r] = "woken" /\ ReturnsReport(r) /\ input_reports # <<>>
    BY <1>6, <2>1
  <2>2. CASE ~Over /\ Waits(r) /\ input_reports = <<>>
    BY <1>4, <2>2 DEF Waits
  <2>3. CASE ReturnsNone(r) /\ reader[r] = "late"
    BY <1>3, <1>5, <2>3 DEF ReturnsNone, Woken
  <2>4. CASE Over
    BY <1>2, <2>4 DEF SleepersHaveNothing
  <2> QED
    BY <1>9, <2>1, <2>2, <2>3, <2>4 DEF ReadRelocks
<1>10. CASE ReadWaits(r)
  <2>1. input_reports = <<>> /\ UNCHANGED input_reports
    BY <1>1, <1>10 DEF ReadWaits, Locked
  <2>2. CASE ~Over
    BY <1>4, <2>1, <2>2
  <2>3. CASE Over
    BY <1>2, <2>3 DEF SleepersHaveNothing
  <2> QED
    BY <2>2, <2>3
<1>11. CASE WakesUp(r)
  <2>1. \E place \in {"woken", "late"} : At(r, place)
    BY <1>11 DEF WakesUp
  <2> QED
    BY <1>3, <1>5, <1>11, <2>1 DEF WakesUp, Woken
<1> QED
  BY <1>7, <1>8, <1>9, <1>10, <1>11 DEF ReadStep

\* Each step of either thread or of a reader keeps the invariant.
LEMMA Inductive == IInv /\ [Next]_vars => IInv'
<1> SUFFICES ASSUME IInv, [Next]_vars PROVE IInv'
  OBVIOUS
<1>1. CASE UNCHANGED vars
  <2>1. Safe'
    BY <1>1 DEF IInv, Safe, TypeOK, Held, Ordered, Locked, NoReader, vars, flags, report,
                reading, loop
  <2>2. SleepersHaveNothing'
    BY <1>1, OthersSleepOn DEF IInv, Over, vars, flags, report, reading
  <2> QED
    BY <2>1, <2>2 DEF IInv
<1>2. ASSUME NEW r \in Readers,
             \/ \E ms \in {"blocking", "timed", "poll"} : ReadCall(r, ms)
             \/ ReadStep(r) \/ WakesUp(r)
      PROVE  IInv'
  BY <1>2, ReadSafe, ReadInStep DEF IInv
<1>3. CASE Next
  BY <1>2, <1>3, MainStep, LoopStep DEF Next
<1> QED
  BY <1>1, <1>3

LEMMA Invariance == Spec => []IInv
  BY Initially, Inductive, PTL DEF Spec

-----------------------------------------------------------------------------
(***************************************************************************)
(* The variables keep their types, the queue its limit and the barriers    *)
(* their counts.                                                           *)
(***************************************************************************)
THEOREM TypeCorrect == Spec => []TypeOK
<1>1. IInv => TypeOK
  BY DEF IInv, Safe
<1> QED
  BY <1>1, Invariance, PTL

(***************************************************************************)
(* hid_close never wakes a run loop that is gone, whenever the read thread *)
(* stops, unless a barrier was passed early.                               *)
(***************************************************************************)
THEOREM LoopOutlivesClose == Spec => []WakesLiveLoop
<1>1. IInv => WakesLiveLoop
  BY DEF IInv, Safe, Ordered, WakesLiveLoop, Rest
<1> QED
  BY <1>1, Invariance, PTL

(***************************************************************************)
(* However many readers there are and whichever of them a signal wakes, no *)
(* report stays in the queue for one that sleeps on.                       *)
(***************************************************************************)
THEOREM NoReportForSleepers == Spec => []SleepersHaveNothing
<1>1. IInv => SleepersHaveNothing
  BY DEF IInv
<1> QED
  BY <1>1, Invariance, PTL

(***************************************************************************)
(* The device is freed when nobody uses it any more, early barriers or     *)
(* not: pthread_join sees to that, not the barriers.                       *)
(***************************************************************************)
THEOREM FreesAtRest == Spec => []FreedAtRest
<1>1. IInv => FreedAtRest
  BY DEF IInv, Safe, Held, FreedAtRest, Releasing, Stopping
<1> QED
  BY <1>1, Invariance, PTL

(***************************************************************************)
(* The list that the callback and the readers share is the queue of        *)
(* ReportQueue.                                                            *)
(***************************************************************************)
THEOREM QueueRefinement == Spec => ImplementsQueue
<1> USE DEF Queue!vars, Queue!Arrive, Queue!Take, Queue!DropAll, Queue!Trim, report, reading
<1>1. Init => Queue!Init
  BY DEF Init, Queue!Init
<1>2. IInv /\ [Next]_vars => [Queue!Next]_(Queue!vars)
  <2> SUFFICES ASSUME IInv, [Next]_vars PROVE Queue!Next \/ UNCHANGED Queue!vars
    OBVIOUS
  <2>1. CASE UNCHANGED vars
    BY <2>1 DEF vars
  <2>2. CASE Unplug \/ Replug \/ Enumerate \/ OpenPath \/ OpenArrives
             \/ MainEarly \/ ThreadEarly
    BY <2>2 DEF Unplug, Replug, Enumerate, OpenPath, OpenArrives, MainEarly, ThreadEarly
  <2>3. CASE QueueReport
    <3>1. arrived < MaxReports /\ arrived' = arrived + 1 /\ taken' = taken
      BY <2>3 DEF QueueReport, IInv, Safe, Held
    <3>2. Len(Append(input_reports, arrived')) \in Nat
      BY <2>3 DEF QueueReport, IInv, Safe, TypeOK
    <3>3. input_reports' = Queue!Trim(Append(input_reports, arrived'))
      BY <2>3, <3>2 DEF QueueReport, Keep
    <3> QED
      BY <3>1, <3>3 DEF Queue!Next
  <2>4. CASE LoopTimesOut \/ ReportComes \/ (ThreadStep /\ ~QueueReport)
    BY <2>4 DEF LoopTimesOut, ReportComes, ThreadStep, ThreadStarts, ThreadLoops, Removed,
                Performed, LoopStopped, ThreadBroadcasts, ThreadArrives
  <2>5. ASSUME NEW r \in Readers,
               \/ \E ms \in {"blocking", "timed", "poll"} : ReadCall(r, ms)
               \/ ReadStep(r) \/ WakesUp(r)
        PROVE  Queue!Next \/ UNCHANGED Queue!vars
    BY <2>5 DEF ReadCall, ReadStep, ReadLocks, ReadWaits, ReadRelocks, WakesUp, ReturnsReport,
                ReturnsNone, Waits, background, Queue!Next
  <2>6. CASE Close \/ (CloseStep /\ ~Release)
    BY <2>6 DEF Close, CloseStep, Unregister, CloseStops, CloseWakes, CloseArrives, Joined,
                CloseHandle
  <2>7. CASE Release
    BY <2>7 DEF Release, Queue!Next
  <2> QED
    BY <2>1, <2>2, <2>3, <2>4, <2>5, <2>6, <2>7 DEF Next, ThreadStep, CloseStep
<1> QED
  BY <1>1, <1>2, Invariance, PTL DEF Spec, ImplementsQueue, Queue!Spec
=============================================================================
