----------------------------- MODULE ReportQueue -----------------------------
(***************************************************************************)
(* What the three hidapi implementations promise of input reports: they    *)
(* are kept in the order of their arrival, at most so many of them, of     *)
(* which the oldest goes first when there is no room; each is returned     *)
(* once, and those that are left when the device is closed are dropped.    *)
(***************************************************************************)
EXTENDS Naturals, Sequences

CONSTANTS
    Kept,           \* reports kept for a reader
    MaxReports      \* bound: reports that arrive

VARIABLES
    queue,          \* the reports, by number
    arrived,        \* reports put into the queue so far
    taken           \* the report returned last

vars == <<queue, arrived, taken>>

Init == queue = <<>> /\ arrived = 0 /\ taken = 0

\* without the oldest if there are too many
Trim(q) == IF Len(q) > Kept THEN Tail(q) ELSE q

Arrive ==
    /\ arrived < MaxReports
    /\ arrived' = arrived + 1
    /\ queue' = Trim(Append(queue, arrived'))
    /\ UNCHANGED taken

Take ==
    /\ queue # <<>>
    /\ taken' = Head(queue)
    /\ queue' = Tail(queue)
    /\ UNCHANGED arrived

DropAll ==
    /\ queue' = <<>>
    /\ UNCHANGED <<arrived, taken>>

Next == Arrive \/ Take \/ DropAll

Spec == Init /\ [][Next]_vars
=============================================================================
