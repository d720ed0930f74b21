------------------------------ MODULE GameSlots ------------------------------
(***************************************************************************)
(* The disk slots of the flash and the commands that work on whole games:  *)
(* -f (FDS_writeFlash) and -e write slots, -l (FDS_list) and -s            *)
(* (FDS_readFlashToFDS) find games again by the first byte of each slot's  *)
(* header, and -s decodes what it finds there (raw03_to_fds).  A side is   *)
(* one slot; only a game's first side has a file name.                     *)
(*                                                                         *)
(* A write of a slot is one step here.  SpiFlash has its reports, and all  *)
(* that can go wrong between them.                                         *)
(***************************************************************************)
EXTENDS Integers, Sequences, FiniteSets

CONSTANTS
    NSlots,         \* dev_slots
    Games,          \* the .fds files: for each side, how it is taken
    Flashes,        \* pairs of a game and the slot given to -f
    Erasures        \* the slots given to -e

\* fds_to_bin rejects a side, or accepts one that raw03_to_fds does not decode
\* (its second block is of another type), or one that it does.
Takings == {"rejected", "odd", "good"}

ASSUME SlotsAssumption ==
    /\ NSlots \in Nat \ {0}
    /\ Games \subseteq Seq(Takings)
    /\ Flashes \subseteq Games \X Nat
    /\ Erasures \subseteq Nat

NoGame == <<>>

\* The first byte of a slot: 0xff, 0, or a character of the file name.
Heads == {"blank", "zero", "name"}

\* what a slot holds: a side of a game, or nothing anyone asked for (game NoGame),
\* and whether raw03_to_fds decodes it; an empty slot is not given to it
Slot == [head : Heads, game : Games \cup {NoGame}, side : Nat, decodes : BOOLEAN]
Blank == [head |-> "blank", game |-> NoGame, side |-> 0, decodes |-> FALSE]
Junk == {Blank} \cup [head : {"zero", "name"}, game : {NoGame}, side : {0}, decodes : BOOLEAN]

\* outbuf of side k with this head
SideImage(h, g, k) == [head |-> h, game |-> g, side |-> k, decodes |-> g[k] = "good"]
\* (mutant) every side gets the name
NamedImage(g, k) == SideImage("name", g, k)
\* outbuf of side k: the header is zero but for the first side's name
Image(g, k) == SideImage(IF k = 1 THEN "name" ELSE "zero", g, k)

\* the slot an address falls in; the chip ignores address bits it has no use for
SlotAt(n) == n % NSlots

-----------------------------------------------------------------------------
(* what -s reads back *)

\* "stop on empty slot or next game"
Stops(sl, s, j) ==
    \/ sl[SlotAt(s + j)].head = "blank"
    \/ sl[SlotAt(s + j)].head = "name" /\ j # 0

\* The loop of -s from slot s on also tries slot dev_slots, which is not there.
Offsets(s) == 0 .. NSlots - s

\* The slots it writes to the .fds file, as offsets, if only so many reads of a
\* slot succeed: up to one that stops it or is not decoded.
Saved(sl, s, reads) ==
    {j \in Offsets(s) :
        \A i \in 0 .. j : i < reads /\ ~Stops(sl, s, i) /\ sl[SlotAt(s + i)].decodes}

\* Failed.: the slot after those could not be read, or not decoded.
SaveFails(sl, s, reads) ==
    \E j \in Offsets(s) :
        /\ 0 .. j - 1 \subseteq Saved(sl, s, reads)
        /\ j < reads => ~Stops(sl, s, j) /\ ~sl[SlotAt(s + j)].decodes

-----------------------------------------------------------------------------
(* what -l shows *)

\* (mutant) an empty slot does not end the game before it
BlankKeepsSide(head, side) ==
    CASE head = "name" -> 1
      [] head = "zero" /\ side # 0 -> side + 1
      [] OTHER -> side
\* FDS_list's variable "side" after a slot with this head
NextSide(head, side) ==
    CASE head = "blank" -> 0
      [] head = "name" -> 1
      [] head = "zero" /\ side = 0 -> 0
      [] head = "zero" /\ side # 0 -> side + 1

\* Slot 0 is not listed.
Listed(sl) ==
    LET side[s \in 0 .. NSlots - 1] ==
            IF s = 0 THEN 0 ELSE NextSide(sl[s].head, side[s - 1])
    IN  side

-----------------------------------------------------------------------------
VARIABLES
    slots,      \* what the flash holds
    pc,         \* "idle", or the command that is running
    game,       \* the game being flashed
    first,      \* its slot
    side,       \* the side, or the slot of -e all, that is next
    sound,      \* (observability) every side so far was accepted and written
    placed      \* (observability) what -f last put at each slot, if it did so
                \* without a fault and no other command has touched it since

vars == <<slots, pc, game, first, side, sound, placed>>

SlotNumbers == 0 .. NSlots - 1

Init ==
    /\ slots = [s \in SlotNumbers |-> Blank]
    /\ pc = "idle"
    /\ game = NoGame /\ first = 0 /\ side = 1 /\ sound = FALSE
    /\ placed = [s \in SlotNumbers |-> NoGame]

-----------------------------------------------------------------------------
Covers(s, g, t) == t \in s .. s + Len(g) - 1

\* slot t changes: no game that has a side there is intact any more
Touch(t) ==
    placed' = [s \in SlotNumbers |->
                  IF Covers(s, placed[s], t) THEN NoGame ELSE placed[s]]

\* A write that fails has not begun to erase, or leaves the slot in no known state.
WriteSlot(t, content, ok) ==
    /\ Touch(t)
    /\ IF ok THEN slots' = [slots EXCEPT ![t] = content]
       ELSE \E c \in Junk \cup {slots[t]} : slots' = [slots EXCEPT ![t] = c]

-----------------------------------------------------------------------------
(* -f and -L *)

BeginFlash(g, s) ==
    /\ pc = "idle"
    /\ pc' = "flash"
    /\ game' = g /\ first' = s /\ side' = 1 /\ sound' = TRUE
    /\ UNCHANGED <<slots, placed>>

\* The result of spi_writeFlash is not looked at.
WriteSide(ok) ==
    /\ pc = "flash" /\ side <= Len(game)
    /\ game[side] # "rejected"
    /\ WriteSlot(SlotAt(first + side - 1), Image(game, side), ok)
    /\ side' = side + 1
    /\ sound' = (sound /\ ok)
    /\ UNCHANGED <<pc, game, first>>

SkipSide ==
    /\ pc = "flash" /\ side <= Len(game)
    /\ game[side] = "rejected"
    /\ side' = side + 1
    /\ sound' = FALSE
    /\ UNCHANGED <<slots, pc, game, first, placed>>

Fits == first + Len(game) <= NSlots

EndFlash ==
    /\ pc = "flash" /\ side > Len(game)
    /\ pc' = "idle"
    /\ placed' = IF sound /\ Fits /\ first < NSlots
                 THEN [placed EXCEPT ![first] = game] ELSE placed
    /\ UNCHANGED <<slots, game, first, side, sound>>

-----------------------------------------------------------------------------
(* -e *)

\* "cannot erase the loader"
EraseSlot(s, ok) ==
    /\ pc = "idle"
    /\ s > 0
    /\ WriteSlot(SlotAt(s), Blank, ok)
    /\ UNCHANGED <<pc, game, first, side, sound>>

BeginEraseAll ==
    /\ pc = "idle"
    /\ pc' = "eraseall"
    /\ side' = 0
    /\ UNCHANGED <<slots, game, first, sound, placed>>

\* success &= ...: the loop goes on after a failure
EraseNext(ok) ==
    /\ pc = "eraseall" /\ side < NSlots
    /\ WriteSlot(side, Blank, ok)
    /\ side' = side + 1
    /\ UNCHANGED <<pc, game, first, sound>>

EndEraseAll ==
    /\ pc = "eraseall" /\ side = NSlots
    /\ pc' = "idle"
    /\ UNCHANGED <<slots, game, first, side, sound, placed>>

\* An interrupt; the slot being written is WriteSide(FALSE) before it.
Kill ==
    /\ pc # "idle"
    /\ pc' = "idle"
    /\ UNCHANGED <<slots, game, first, side, sound, placed>>

-----------------------------------------------------------------------------
Next ==
    \/ \E f \in Flashes : BeginFlash(f[1], f[2])
    \/ \E ok \in BOOLEAN : WriteSide(ok) \/ EraseNext(ok)
    \/ SkipSide \/ EndFlash
    \/ \E s \in Erasures, ok \in BOOLEAN : EraseSlot(s, ok)
    \/ BeginEraseAll \/ EndEraseAll
    \/ Kill

Spec == Init /\ [][Next]_vars

-----------------------------------------------------------------------------
\* The variables have the values the code can give them.
TypeOK ==
    /\ slots \in [SlotNumbers -> Slot]
    /\ pc \in {"idle", "flash", "eraseall"}
    /\ game \in Games \cup {NoGame}
    /\ first \in Nat /\ side \in Nat
    /\ sound \in BOOLEAN
    /\ placed \in [SlotNumbers -> Games \cup {NoGame}]

(***************************************************************************)
(* A game that -f wrote without a fault comes back: from its slot on, -s   *)
(* writes each of its sides, in order, unless that side or one before it   *)
(* cannot be read or is one that does not decode, and then it says Failed; *)
(* whatever was done to the other slots since and whatever a failed write  *)
(* left in them.                                                           *)
(***************************************************************************)
ComesBack ==
    \A s \in SlotNumbers, reads \in 0 .. NSlots + 1 :
        \A k \in 1 .. Len(placed[s]) :
            /\ slots[SlotAt(s + k - 1)] = Image(placed[s], k)
            /\ k - 1 \in Saved(slots, s, reads) <=>
                    k <= reads /\ \A i \in 1 .. k : placed[s][i] = "good"
            /\ k - 1 \in Saved(slots, s, reads) \/ SaveFails(slots, s, reads)

(***************************************************************************)
(* -l and -s agree on what a game is, though each finds out in its own     *)
(* way: what -l shows as "Side k" (its name, for k = 1) is the k-th slot   *)
(* from a name, and -s either writes it from there on as side k or has     *)
(* said Failed; what -s writes of a game that has a name, -l shows under   *)
(* the same number.                                                        *)
(***************************************************************************)
ListedLikeSaved ==
    \A t \in 1 .. NSlots - 1, reads \in 0 .. NSlots + 1 :
        LET k == Listed(slots)[t]
        IN  /\ k # 0 =>
                /\ slots[t - k + 1].head = "name"
                /\ \/ k - 1 \in Saved(slots, t - k + 1, reads)
                   \/ SaveFails(slots, t - k + 1, reads)
            /\ \A s \in 1 .. t :
                slots[s].head = "name" /\ t - s \in Saved(slots, s, reads)
                    => k = t - s + 1
=============================================================================
