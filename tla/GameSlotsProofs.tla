--------------------------- MODULE GameSlotsProofs ---------------------------
(***************************************************************************)
(* Games come back: for every number of slots, every set of games and      *)
(* every sequence of -f and -e, with failed writes anywhere.               *)
(***************************************************************************)
EXTENDS GameSlots, WellFoundedInduction, TLAPS

\* The first n sides of game g are in the slots from s on.
Holds(sl, s, g, n) == \A k \in 1 .. n : sl[s + k - 1] = Image(g, k)

\* A placed game lies within the flash and is there with all its sides.
Intact ==
    \A s \in SlotNumbers :
        /\ s + Len(placed[s]) <= NSlots
        /\ Holds(slots, s, placed[s], Len(placed[s]))

\* So far the game being flashed is there too.
Flashing ==
    pc = "flash" =>
        /\ side \in 1 .. Len(game) + 1
        /\ sound /\ Fits => Holds(slots, first, game, side - 1)

SlotsInv == TypeOK /\ Intact /\ Flashing

-----------------------------------------------------------------------------
LEMMA GameType ==
    ASSUME NEW g \in Games \cup {NoGame}
    PROVE  /\ g \in Seq(Takings)
           /\ Len(g) \in Nat
           /\ DOMAIN g = 1 .. Len(g)
           /\ g = NoGame => Len(g) = 0
<1>1. g \in Seq(Takings)
  <2>1. <<>> \in Seq(Takings)
    OBVIOUS
  <2>2. QED
    BY <2>1, SlotsAssumption DEF NoGame
<1>2. Len(g) \in Nat /\ DOMAIN g = 1 .. Len(g)
  BY <1>1
<1>3. g = NoGame => Len(g) = 0
  BY DEF NoGame
<1>4. QED
  BY <1>1, <1>2, <1>3

LEMMA SlotAtSlot ==
    ASSUME NEW n \in Nat
    PROVE  SlotAt(n) \in SlotNumbers /\ (n < NSlots => SlotAt(n) = n)
BY SlotsAssumption DEF SlotAt, SlotNumbers

LEMMA ImageType ==
    ASSUME NEW g \in Games \cup {NoGame}, NEW k \in Nat
    PROVE  Image(g, k) \in Slot
BY DEF Image, SideImage, Slot, Heads

LEMMA ImageHead ==
    ASSUME NEW g, NEW k
    PROVE  /\ Image(g, k).head = IF k = 1 THEN "name" ELSE "zero"
           /\ Image(g, k).decodes <=> g[k] = "good"
BY DEF Image, SideImage

\* A write changes one slot and forgets the games that have a side there.
LEMMA WriteKeepsRest ==
    ASSUME SlotsInv, NEW t \in SlotNumbers, NEW content \in Slot, NEW ok \in BOOLEAN,
           WriteSlot(t, content, ok)
    PROVE  /\ slots' \in [SlotNumbers -> Slot]
           /\ placed' \in [SlotNumbers -> Games \cup {NoGame}]
           /\ \A u \in SlotNumbers \ {t} : slots'[u] = slots[u]
           /\ ok => slots'[t] = content
           /\ Intact'
<1>1. slots \in [SlotNumbers -> Slot] /\ placed \in [SlotNumbers -> Games \cup {NoGame}]
  BY DEF SlotsInv, TypeOK
<1>2. PICK c \in Slot : slots' = [slots EXCEPT ![t] = c] /\ (ok => c = content)
  <2>1. Junk \subseteq Slot
    <3>1. Blank \in Slot
      BY DEF Blank, Slot, Heads
    <3>2. [head : {"zero", "name"}, game : {NoGame}, side : {0}, decodes : BOOLEAN] \subseteq Slot
      BY DEF Slot, Heads
    <3>3. QED
      BY <3>1, <3>2 DEF Junk
  <2>2. QED
    BY <1>1, <2>1 DEF WriteSlot
<1>3. /\ slots' \in [SlotNumbers -> Slot]
      /\ \A u \in SlotNumbers \ {t} : slots'[u] = slots[u]
      /\ ok => slots'[t] = content
  BY <1>1, <1>2
<1>4. placed' = [s \in SlotNumbers |->
                    IF Covers(s, placed[s], t) THEN NoGame ELSE placed[s]]
  BY DEF WriteSlot, Touch
<1>5. placed' \in [SlotNumbers -> Games \cup {NoGame}]
  BY <1>1, <1>4
<1>6. ASSUME NEW s \in SlotNumbers
      PROVE  /\ s + Len(placed'[s]) <= NSlots
             /\ Holds(slots', s, placed'[s], Len(placed'[s]))
  <2>1. CASE Covers(s, placed[s], t)
    <3>1. placed'[s] = NoGame /\ Len(placed'[s]) = 0
      BY <1>4, <2>1 DEF NoGame
    <3>2. s \in Nat /\ s <= NSlots
      BY SlotsAssumption DEF SlotNumbers
    <3>3. QED
      BY <3>1, <3>2 DEF Holds
  <2>2. CASE ~Covers(s, placed[s], t)
    <3>1. placed'[s] = placed[s]
      BY <1>4, <2>2
    <3>2. s + Len(placed[s]) <= NSlots /\ Holds(slots, s, placed[s], Len(placed[s]))
      BY DEF SlotsInv, Intact
    <3>3. Len(placed[s]) \in Nat
      BY <1>1, GameType
    <3>4. ASSUME NEW k \in 1 .. Len(placed[s])
          PROVE  slots'[s + k - 1] = slots[s + k - 1]
      <4>1. s + k - 1 \in SlotNumbers \ {t}
        BY <2>2, <3>2, <3>3, SlotsAssumption DEF Covers, SlotNumbers
      <4>2. QED
        BY <1>3, <4>1
    <3>5. QED
      BY <3>1, <3>2, <3>4 DEF Holds
  <2>3. QED
    BY <2>1, <2>2
<1>7. QED
  BY <1>3, <1>5, <1>6 DEF Intact

LEMMA SlotsInit == Init => SlotsInv
<1> SUFFICES ASSUME Init PROVE SlotsInv
  OBVIOUS
<1>1. TypeOK
  BY DEF Init, TypeOK, Slot, Blank, Heads
<1>2. ASSUME NEW s \in SlotNumbers
      PROVE  /\ s + Len(placed[s]) <= NSlots
             /\ Holds(slots, s, placed[s], Len(placed[s]))
  <2>1. placed[s] = NoGame /\ Len(placed[s]) = 0
    BY GameType DEF Init
  <2>2. s \in Nat /\ s <= NSlots
    BY SlotsAssumption DEF SlotNumbers
  <2>3. QED
    BY <2>1, <2>2 DEF Holds
<1>3. Flashing
  BY DEF Init, Flashing
<1>4. QED
  BY <1>1, <1>2, <1>3 DEF SlotsInv, Intact

\* A side that is written well joins those before it, and disturbs none of them.
LEMMA SideWritten ==
    ASSUME SlotsInv, NEW ok \in BOOLEAN, WriteSide(ok)
    PROVE  SlotsInv'
<1>1. /\ pc = "flash" /\ pc' = "flash" /\ side' = side + 1
      /\ sound' = (sound /\ ok) /\ game' = game /\ first' = first
      /\ WriteSlot(SlotAt(first + side - 1), Image(game, side), ok)
  BY DEF WriteSide
<1>2. /\ side \in 1 .. Len(game) /\ Len(game) \in Nat /\ first \in Nat
      /\ game \in Games \cup {NoGame} /\ side \in Nat
  BY GameType DEF SlotsInv, TypeOK, Flashing, WriteSide
<1> DEFINE t == SlotAt(first + side - 1)
<1>3. first + side - 1 \in Nat /\ t \in SlotNumbers
  BY <1>2, SlotAtSlot
<1>4. Image(game, side) \in Slot
  BY <1>2, ImageType
<1>5. /\ slots' \in [SlotNumbers -> Slot]
      /\ placed' \in [SlotNumbers -> Games \cup {NoGame}]
      /\ \A u \in SlotNumbers \ {t} : slots'[u] = slots[u]
      /\ ok => slots'[t] = Image(game, side)
      /\ Intact'
  BY <1>1, <1>3, <1>4, WriteKeepsRest
<1>6. sound' \in BOOLEAN
  BY <1>1 DEF SlotsInv, TypeOK
<1>7. TypeOK'
  BY <1>1, <1>2, <1>5, <1>6 DEF TypeOK
<1>8. ASSUME sound', Fits' PROVE Holds(slots', first, game, side)
  <2>1. ok /\ first + Len(game) <= NSlots /\ Holds(slots, first, game, side - 1)
    BY <1>1, <1>8 DEF SlotsInv, Flashing, Fits
  <2>2. t = first + side - 1
    BY <1>2, <1>3, <2>1, SlotAtSlot, SlotsAssumption
  <2>3. ASSUME NEW k \in 1 .. side
        PROVE  slots'[first + k - 1] = Image(game, k)
    <3>1. CASE k = side
      BY <1>5, <2>1, <2>2, <3>1
    <3>2. CASE k # side
      <4>1. k \in 1 .. side - 1
        BY <1>2, <3>2
      <4>2. first + k - 1 \in SlotNumbers \ {t}
        BY <1>2, <2>1, <2>2, <4>1, SlotsAssumption DEF SlotNumbers
      <4>3. QED
        BY <1>5, <2>1, <4>1, <4>2 DEF Holds
    <3>3. QED
      BY <3>1, <3>2
  <2>4. QED
    BY <2>3 DEF Holds
<1>9. side' \in 1 .. Len(game) + 1 /\ side' - 1 = side
  BY <1>1, <1>2
<1>10. Flashing'
  BY <1>1, <1>8, <1>9 DEF Flashing
<1>11. QED
  BY <1>5, <1>7, <1>10 DEF SlotsInv

\* An erase, outside a -f.
LEMMA SlotErased ==
    ASSUME SlotsInv, NEW t \in SlotNumbers, NEW ok \in BOOLEAN, WriteSlot(t, Blank, ok),
           pc # "flash", UNCHANGED <<pc, game, first, sound>>, side' \in Nat
    PROVE  SlotsInv'
<1>1. Blank \in Slot
  BY DEF Blank, Slot, Heads
<1>2. /\ slots' \in [SlotNumbers -> Slot]
      /\ placed' \in [SlotNumbers -> Games \cup {NoGame}] /\ Intact'
  BY <1>1, WriteKeepsRest
<1>3. TypeOK'
  BY <1>2 DEF SlotsInv, TypeOK
<1>4. QED
  BY <1>2, <1>3 DEF SlotsInv, Flashing

\* When -f has ended the game it wrote is one more that is intact.
LEMMA GamePlaced ==
    ASSUME SlotsInv, EndFlash
    PROVE  SlotsInv'
<1>1. /\ pc = "flash" /\ pc' = "idle" /\ side = Len(game) + 1
      /\ game \in Games \cup {NoGame} /\ Len(game) \in Nat /\ first \in Nat
      /\ UNCHANGED <<slots, game, first, side, sound>>
  BY GameType DEF SlotsInv, Flashing, TypeOK, EndFlash
<1>2. CASE sound /\ Fits /\ first < NSlots
  <2>1. placed' = [placed EXCEPT ![first] = game] /\ first \in SlotNumbers
    BY <1>1, <1>2, SlotsAssumption DEF EndFlash, SlotNumbers
  <2>2. first + Len(game) <= NSlots /\ Holds(slots, first, game, Len(game))
    BY <1>1, <1>2 DEF SlotsInv, Flashing, Fits
  <2>3. TypeOK'
    BY <1>1, <2>1 DEF SlotsInv, TypeOK
  <2>4. Intact'
    BY <1>1, <2>1, <2>2 DEF SlotsInv, TypeOK, Intact
  <2>5. QED
    BY <1>1, <2>3, <2>4 DEF SlotsInv, Flashing
<1>3. CASE ~(sound /\ Fits /\ first < NSlots)
  BY <1>1, <1>3 DEF EndFlash, SlotsInv, TypeOK, Intact, Flashing
<1>4. QED
  BY <1>2, <1>3

LEMMA SlotsNext == SlotsInv /\ [Next]_vars => SlotsInv'
<1> SUFFICES ASSUME SlotsInv, [Next]_vars PROVE SlotsInv'
  OBVIOUS
<1>1. ASSUME NEW f \in Flashes, BeginFlash(f[1], f[2]) PROVE SlotsInv'
  <2>1. f[1] \in Games /\ f[2] \in Nat /\ Len(f[1]) \in Nat
    BY SlotsAssumption, GameType
  <2>2. QED
    BY <1>1, <2>1 DEF BeginFlash, SlotsInv, TypeOK, Intact, Flashing, Holds
<1>2. ASSUME NEW ok \in BOOLEAN, WriteSide(ok) PROVE SlotsInv'
  BY <1>2, SideWritten
<1>3. ASSUME NEW ok \in BOOLEAN, EraseNext(ok) PROVE SlotsInv'
  <2>1. side \in SlotNumbers /\ side' \in Nat
    BY <1>3, SlotsAssumption DEF EraseNext, SlotsInv, TypeOK, SlotNumbers
  <2>2. QED
    BY <1>3, <2>1, SlotErased DEF EraseNext
<1>4. CASE SkipSide
  <2>1. side' \in 1 .. Len(game) + 1 /\ side' \in Nat
    BY <1>4, GameType DEF SkipSide, SlotsInv, TypeOK, Flashing
  <2>2. QED
    BY <1>4, <2>1 DEF SkipSide, SlotsInv, TypeOK, Intact, Flashing
<1>5. CASE EndFlash
  BY <1>5, GamePlaced
<1>6. ASSUME NEW s \in Erasures, NEW ok \in BOOLEAN, EraseSlot(s, ok) PROVE SlotsInv'
  <2>1. SlotAt(s) \in SlotNumbers
    BY SlotsAssumption, SlotAtSlot
  <2>2. side' \in Nat /\ pc # "flash"
    BY <1>6 DEF EraseSlot, SlotsInv, TypeOK
  <2>3. QED
    BY <1>6, <2>1, <2>2, SlotErased DEF EraseSlot
<1>7. CASE BeginEraseAll \/ EndEraseAll \/ Kill
  BY <1>7 DEF BeginEraseAll, EndEraseAll, Kill, SlotsInv, TypeOK, Intact, Flashing
<1>8. CASE UNCHANGED vars
  BY <1>8 DEF vars, SlotsInv, TypeOK, Intact, Flashing, Fits
<1>9. QED
  BY <1>1, <1>2, <1>3, <1>4, <1>5, <1>6, <1>7, <1>8 DEF Next

-----------------------------------------------------------------------------
(* -s: how far it comes *)

LEMMA Least ==
    ASSUME NEW S \in SUBSET Nat, S # {}
    PROVE  \E m \in S : \A k \in S : m <= k
<1> DEFINE R == {ss \in Nat \X Nat : ss[1] < ss[2]}
<1>1. IsWellFoundedOn(R, Nat)
  BY NatLessThanWellFounded DEF OpToRel
<1> HIDE DEF R
<1>2. PICK m \in S : \A k \in S : ~(<<k, m>> \in R)
  BY <1>1, WFMin
<1>3. \A k \in S : ~(k < m)
  BY <1>2 DEF R
<1>4. QED
  BY <1>3

LEMMA Induct ==
    ASSUME NEW S, 0 \in S, \A n \in Nat : n \in S => n + 1 \in S
    PROVE  Nat \subseteq S
<1> SUFFICES ASSUME Nat \ S # {} PROVE FALSE
  OBVIOUS
<1>1. PICK m \in Nat \ S : \A k \in Nat \ S : m <= k
  BY Least
<1>2. m - 1 \in Nat \ S
  BY <1>1
<1>3. QED
  BY <1>1, <1>2

\* Where nothing stops it, -s has written the slot or said Failed.
LEMMA SavedOrFailed ==
    ASSUME NEW sl, NEW s \in Nat, NEW reads \in Nat, NEW j \in Offsets(s),
           \A i \in 0 .. j : ~Stops(sl, s, i)
    PROVE  j \in Saved(sl, s, reads) \/ SaveFails(sl, s, reads)
<1> SUFFICES ASSUME j \notin Saved(sl, s, reads) PROVE SaveFails(sl, s, reads)
  OBVIOUS
<1> DEFINE Missing == {i \in Offsets(s) : i \notin Saved(sl, s, reads)}
<1>1. Offsets(s) \subseteq Nat
  BY SlotsAssumption DEF Offsets
<1>2. PICK m \in Missing : \A i \in Missing : m <= i
  BY <1>1, Least
<1>3. m \in Offsets(s) /\ m \in Nat /\ m <= j
  BY <1>1, <1>2
<1>4. ASSUME NEW i \in 0 .. m - 1 PROVE i \in Saved(sl, s, reads)
  <2>1. i \in Offsets(s) /\ ~(m <= i)
    BY <1>3, SlotsAssumption DEF Offsets
  <2>2. QED
    BY <1>2, <2>1
<1> HIDE DEF Missing
<1>5. m \notin Saved(sl, s, reads)
  BY <1>2 DEF Missing
<1>6. PICK i \in 0 .. m :
        ~(i < reads /\ ~Stops(sl, s, i) /\ sl[SlotAt(s + i)].decodes)
  BY <1>3, <1>5 DEF Saved
<1>7. i = m
  <2>1. i \in 0 .. m - 1 => i \in 0 .. i /\ i \in Saved(sl, s, reads)
    BY <1>4
  <2>2. i \notin 0 .. m - 1
    BY <1>6, <2>1 DEF Saved
  <2>3. QED
    BY <1>3, <2>2
<1>8. m \in 0 .. j
  BY <1>1, <1>3
<1>9. m < reads => ~Stops(sl, s, m) /\ ~sl[SlotAt(s + m)].decodes
  BY <1>6, <1>7, <1>8
<1>10. QED
  BY <1>3, <1>4, <1>9 DEF SaveFails

\* The sides of an intact game do not stop the loop of -s.
LEMMA IntactIsSaved == SlotsInv => ComesBack
<1> SUFFICES ASSUME SlotsInv, NEW s \in SlotNumbers, NEW reads \in 0 .. NSlots + 1,
                    NEW k \in 1 .. Len(placed[s])
             PROVE  /\ slots[SlotAt(s + k - 1)] = Image(placed[s], k)
                    /\ k - 1 \in Saved(slots, s, reads) <=>
                            k <= reads /\ \A i \in 1 .. k : placed[s][i] = "good"
                    /\ k - 1 \in Saved(slots, s, reads) \/ SaveFails(slots, s, reads)
  BY DEF ComesBack
<1>1. /\ Len(placed[s]) \in Nat /\ s \in Nat /\ s + Len(placed[s]) <= NSlots
      /\ Holds(slots, s, placed[s], Len(placed[s])) /\ reads \in Nat
  BY GameType, SlotsAssumption DEF SlotsInv, TypeOK, Intact, SlotNumbers
<1>2. ASSUME NEW i \in 0 .. k - 1
      PROVE  slots[SlotAt(s + i)] = Image(placed[s], i + 1)
  <2>1. i + 1 \in 1 .. Len(placed[s]) /\ s + i \in Nat /\ s + i < NSlots
    BY <1>1, SlotsAssumption
  <2>2. slots[s + (i + 1) - 1] = Image(placed[s], i + 1)
    BY <1>1, <2>1 DEF Holds
  <2>3. SlotAt(s + i) = s + (i + 1) - 1
    BY <2>1, SlotAtSlot
  <2>4. QED
    BY <2>2, <2>3
<1>3. ASSUME NEW i \in 0 .. k - 1
      PROVE  ~Stops(slots, s, i) /\ (slots[SlotAt(s + i)].decodes <=> placed[s][i + 1] = "good")
  <2>1. slots[SlotAt(s + i)] = Image(placed[s], i + 1)
    BY <1>2, <1>3
  <2>2. i + 1 = 1 => i = 0
    BY <1>1, <1>3
  <2>3. QED
    BY <2>1, <2>2, ImageHead DEF Stops
<1>4. k - 1 \in Offsets(s)
  BY <1>1, SlotsAssumption DEF Offsets
<1>5. slots[SlotAt(s + k - 1)] = Image(placed[s], k)
  <2>1. k - 1 \in 0 .. k - 1 /\ s + (k - 1) = s + k - 1 /\ (k - 1) + 1 = k
    BY <1>1
  <2>2. QED
    BY <1>2, <2>1
<1>6. k - 1 \in Saved(slots, s, reads) <=>
          \A i \in 0 .. k - 1 : i < reads /\ placed[s][i + 1] = "good"
  BY <1>3, <1>4 DEF Saved
<1>7. (\A i \in 0 .. k - 1 : i < reads /\ placed[s][i + 1] = "good") <=>
          k <= reads /\ \A i \in 1 .. k : placed[s][i] = "good"
  <2>1. ASSUME \A i \in 0 .. k - 1 : i < reads /\ placed[s][i + 1] = "good"
        PROVE  k <= reads /\ \A i \in 1 .. k : placed[s][i] = "good"
    <3>1. k - 1 \in 0 .. k - 1 /\ k - 1 < reads
      BY <1>1, <2>1
    <3>2. ASSUME NEW i \in 1 .. k PROVE placed[s][i] = "good"
      <4>1. i - 1 \in 0 .. k - 1 /\ (i - 1) + 1 = i
        BY <1>1
      <4>2. QED
        BY <2>1, <4>1
    <3>3. QED
      BY <1>1, <3>1, <3>2
  <2>2. ASSUME k <= reads, \A i \in 1 .. k : placed[s][i] = "good", NEW i \in 0 .. k - 1
        PROVE  i < reads /\ placed[s][i + 1] = "good"
    <3>1. i + 1 \in 1 .. k
      BY <1>1
    <3>2. QED
      BY <1>1, <2>2, <3>1
  <2>3. QED
    BY <2>1, <2>2
<1>8. k - 1 \in Saved(slots, s, reads) \/ SaveFails(slots, s, reads)
  BY <1>1, <1>3, <1>4, SavedOrFailed
<1>9. QED
  BY <1>5, <1>6, <1>7, <1>8

\* Whatever is flashed and erased elsewhere, and wherever writes fail, a game that -f
\* wrote without a fault is written by -s with every side in order, up to the first
\* that it cannot read or does not decode; and -s says Failed if there is one.
THEOREM GamesComeBack == Spec => []ComesBack
BY SlotsInit, SlotsNext, IntactIsSaved, PTL DEF Spec
-----------------------------------------------------------------------------
(* -l: induction over the slots *)

\* The function of the slots up to n that FDS_list computes.
ListedUpTo(sl, n, f) ==
    f = [s \in 0 .. n |-> IF s = 0 THEN 0 ELSE NextSide(sl[s].head, f[s - 1])]

\* There is such a function, so the recursion defines one.
LEMMA ListedExists ==
    ASSUME NEW sl, NEW m \in Nat
    PROVE  \E f : ListedUpTo(sl, m, f)
<1> DEFINE S == {n \in Nat : \E f : ListedUpTo(sl, n, f)}
<1>1. 0 \in S
  <2>1. ListedUpTo(sl, 0, [s \in 0 .. 0 |-> 0])
    BY DEF ListedUpTo
  <2>2. QED
    BY <2>1
<1>2. ASSUME NEW n \in Nat, n \in S PROVE n + 1 \in S
  <2>1. PICK f : ListedUpTo(sl, n, f)
    BY <1>2
  <2> DEFINE g == [s \in 0 .. n + 1 |->
                     IF s = 0 THEN 0 ELSE NextSide(sl[s].head, f[s - 1])]
  <2>2. ASSUME NEW s \in 0 .. n PROVE g[s] = f[s]
    BY <2>1 DEF ListedUpTo
  <2>3. ASSUME NEW s \in 0 .. n + 1, s # 0 PROVE f[s - 1] = g[s - 1]
    <3>1. s - 1 \in 0 .. n
      BY <2>3
    <3>2. QED
      BY <2>2, <3>1
  <2>4. ListedUpTo(sl, n + 1, g)
    BY <2>3 DEF ListedUpTo
  <2>5. QED
    BY <2>4
<1>3. Nat \subseteq S
  <2> HIDE DEF S
  <2>1. QED
    BY <1>1, <1>2, Induct
<1>4. QED
  BY <1>3

LEMMA ListedRec ==
    ASSUME NEW sl
    PROVE  ListedUpTo(sl, NSlots - 1, Listed(sl))
<1>1. \E f : ListedUpTo(sl, NSlots - 1, f)
  <2>1. NSlots - 1 \in Nat
    BY SlotsAssumption
  <2>2. QED
    BY <2>1, ListedExists
<1>2. Listed(sl) = CHOOSE f : ListedUpTo(sl, NSlots - 1, f)
  BY DEF Listed, ListedUpTo
<1>3. QED
  BY <1>1, <1>2

LEMMA ListedNext ==
    ASSUME NEW sl
    PROVE  /\ Listed(sl)[0] = 0
           /\ \A s \in 1 .. NSlots - 1 :
                Listed(sl)[s] = NextSide(sl[s].head, Listed(sl)[s - 1])
<1> DEFINE f == Listed(sl)
<1>1. ListedUpTo(sl, NSlots - 1, f)
  BY ListedRec
<1> HIDE DEF f
<1>2. f[0] = 0 /\ \A s \in 1 .. NSlots - 1 : f[s] = NextSide(sl[s].head, f[s - 1])
  BY <1>1, SlotsAssumption DEF ListedUpTo
<1>3. QED
  BY <1>2 DEF f

\* What the number at slot t says of the slots up to it: a game is named so
\* many slots before and goes on to t, or none that is named does.
Tells(sl, t, v) ==
    /\ v \in 0 .. t
    /\ v # 0 => /\ sl[t - v + 1].head = "name"
                /\ \A u \in t - v + 2 .. t : sl[u].head = "zero"
    /\ v = 0 => \A s \in 1 .. t :
                    sl[s].head = "name" => \E u \in s + 1 .. t : sl[u].head # "zero"

LEMMA ListedTells ==
    ASSUME NEW sl \in [SlotNumbers -> Slot], NEW t \in SlotNumbers
    PROVE  Tells(sl, t, Listed(sl)[t])
<1> DEFINE f == Listed(sl)
           S == {n \in Nat : n < NSlots => Tells(sl, n, f[n])}
<1>1. /\ f[0] = 0
      /\ \A s \in 1 .. NSlots - 1 : f[s] = NextSide(sl[s].head, f[s - 1])
  BY ListedNext
<1> HIDE DEF f
<1>2. 0 \in S
  BY <1>1 DEF Tells
<1>3. ASSUME NEW n \in Nat, n \in S PROVE n + 1 \in S
  <2> SUFFICES ASSUME n + 1 < NSlots PROVE Tells(sl, n + 1, f[n + 1])
    OBVIOUS
  <2>1. Tells(sl, n, f[n]) /\ f[n] \in 0 .. n
    BY <1>3, SlotsAssumption DEF Tells
  <2>2. n + 1 \in 1 .. NSlots - 1 /\ (n + 1) - 1 = n
    BY SlotsAssumption
  <2> DEFINE h == sl[n + 1].head
             v == f[n]
  <2>3. f[n + 1] = NextSide(h, v)
    BY <1>1, <2>2
  <2>4. h \in Heads
    BY <2>2 DEF SlotNumbers, Slot
  <2> HIDE DEF v
  <2>5. CASE h = "blank"
    <3>1. f[n + 1] = 0
      BY <2>3, <2>5 DEF NextSide
    <3>2. ASSUME NEW s \in 1 .. n + 1, sl[s].head = "name"
          PROVE  \E u \in s + 1 .. n + 1 : sl[u].head # "zero"
      <4>1. s # n + 1 /\ n + 1 \in s + 1 .. n + 1
        BY <2>5, <3>2
      <4>2. QED
        BY <2>5, <4>1
    <3>3. QED
      BY <3>1, <3>2 DEF Tells
  <2>6. CASE h = "name"
    <3>1. f[n + 1] = 1
      BY <2>3, <2>6 DEF NextSide
    <3>2. QED
      BY <2>6, <3>1 DEF Tells
  <2>7. CASE h = "zero" /\ v = 0
    <3>1. f[n + 1] = 0
      BY <2>3, <2>7 DEF NextSide
    <3>2. ASSUME NEW s \in 1 .. n + 1, sl[s].head = "name"
          PROVE  \E u \in s + 1 .. n + 1 : sl[u].head # "zero"
      <4>1. s \in 1 .. n
        BY <2>7, <3>2
      <4>2. PICK u \in s + 1 .. n : sl[u].head # "zero"
        BY <2>1, <2>7, <3>2, <4>1 DEF Tells, v
      <4>3. u \in s + 1 .. n + 1
        BY <4>1, <4>2
      <4>4. QED
        BY <4>2, <4>3
    <3>3. QED
      BY <3>1, <3>2 DEF Tells
  <2>8. CASE h = "zero" /\ v # 0
    <3>1. f[n + 1] = v + 1 /\ v \in 1 .. n
      BY <2>1, <2>3, <2>8 DEF NextSide, v
    <3>2. (n + 1) - (v + 1) + 1 = n - v + 1 /\ (n + 1) - (v + 1) + 2 = n - v + 2
      BY <3>1
    <3>3. /\ sl[n - v + 1].head = "name"
          /\ \A u \in n - v + 2 .. n : sl[u].head = "zero"
      BY <2>1, <2>8 DEF Tells, v
    <3>4. ASSUME NEW u \in n - v + 2 .. n + 1 PROVE sl[u].head = "zero"
      <4>1. CASE u = n + 1
        BY <2>8, <4>1
      <4>2. CASE u # n + 1
        BY <3>1, <3>3, <4>2
      <4>3. QED
        BY <4>1, <4>2
    <3>5. v + 1 \in 0 .. n + 1 /\ v + 1 # 0
      BY <3>1
    <3>6. Tells(sl, n + 1, v + 1)
      BY <3>2, <3>3, <3>4, <3>5 DEF Tells
    <3>7. QED
      BY <3>1, <3>6
  <2>9. QED
    BY <2>4, <2>5, <2>6, <2>7, <2>8 DEF Heads
<1>4. Nat \subseteq S
  <2> HIDE DEF S
  <2>1. QED
    BY <1>2, <1>3, Induct
<1>5. t \in Nat /\ t < NSlots
  BY SlotsAssumption DEF SlotNumbers
<1>6. QED
  BY <1>4, <1>5 DEF f

\* From a name on, only what is no further side stops -s.
LEMMA StopsAt ==
    ASSUME NEW sl \in [SlotNumbers -> Slot], NEW t \in 1 .. NSlots - 1, NEW s \in 1 .. t,
           sl[s].head = "name", NEW i \in 0 .. t - s
    PROVE  Stops(sl, s, i) <=> i # 0 /\ sl[s + i].head # "zero"
<1>1. s + i \in SlotNumbers /\ SlotAt(s + i) = s + i
  BY SlotAtSlot, SlotsAssumption DEF SlotNumbers
<1>2. sl[s + i].head \in Heads
  BY <1>1 DEF Slot
<1>3. i = 0 => s + i = s
  OBVIOUS
<1>4. QED
  BY <1>1, <1>2, <1>3 DEF Stops, Heads

LEMMA SavedIsListed ==
    ASSUME SlotsInv, NEW t \in 1 .. NSlots - 1, NEW reads \in 0 .. NSlots + 1,
           NEW k, k = Listed(slots)[t]
    PROVE  /\ k # 0 => /\ slots[t - k + 1].head = "name"
                       /\ \/ k - 1 \in Saved(slots, t - k + 1, reads)
                          \/ SaveFails(slots, t - k + 1, reads)
           /\ \A s \in 1 .. t :
                slots[s].head = "name" /\ t - s \in Saved(slots, s, reads)
                    => k = t - s + 1
<1>1. slots \in [SlotNumbers -> Slot] /\ t \in SlotNumbers /\ reads \in Nat
  BY SlotsAssumption DEF SlotsInv, TypeOK, SlotNumbers
<1>2. Tells(slots, t, k) /\ k \in 0 .. t
  BY <1>1, ListedTells DEF Tells
<1>3. ASSUME k # 0
      PROVE  /\ slots[t - k + 1].head = "name"
             /\ \/ k - 1 \in Saved(slots, t - k + 1, reads)
                \/ SaveFails(slots, t - k + 1, reads)
  <2>1. /\ t - k + 1 \in 1 .. t /\ slots[t - k + 1].head = "name"
        /\ \A u \in t - k + 2 .. t : slots[u].head = "zero"
    BY <1>2, <1>3 DEF Tells
  <2>2. ASSUME NEW i \in 0 .. k - 1 PROVE ~Stops(slots, t - k + 1, i)
    <3>1. i \in 0 .. t - (t - k + 1)
      BY <1>2
    <3>2. i # 0 => (t - k + 1) + i \in t - k + 2 .. t
      BY <1>2
    <3>3. QED
      BY <1>1, <2>1, <3>1, <3>2, StopsAt
  <2>3. k - 1 \in Offsets(t - k + 1) /\ t - k + 1 \in Nat
    BY <1>2, <1>3, SlotsAssumption DEF Offsets
  <2>4. QED
    BY <1>1, <2>1, <2>2, <2>3, SavedOrFailed
<1>4. ASSUME NEW s \in 1 .. t, slots[s].head = "name", t - s \in Saved(slots, s, reads)
      PROVE  k = t - s + 1
  <2>1. ASSUME NEW u \in s + 1 .. t PROVE slots[u].head = "zero"
    <3>1. u - s \in 0 .. t - s /\ u - s # 0 /\ s + (u - s) = u
      OBVIOUS
    <3>2. ~Stops(slots, s, u - s)
      BY <1>4, <3>1 DEF Saved
    <3>3. QED
      BY <1>1, <1>4, <3>1, <3>2, StopsAt
  <2>2. k # 0
    BY <1>2, <1>4, <2>1 DEF Tells
  <2>3. /\ t - k + 1 \in 1 .. t /\ slots[t - k + 1].head = "name"
        /\ \A u \in t - k + 2 .. t : slots[u].head = "zero"
    BY <1>2, <2>2 DEF Tells
  <2>4. ~(s < t - k + 1)
    BY <2>1, <2>3
  <2>5. ~(s > t - k + 1)
    <3>1. s > t - k + 1 => s \in t - k + 2 .. t
      BY <1>2
    <3>2. QED
      BY <1>4, <2>3, <3>1
  <2>6. QED
    BY <1>2, <2>3, <2>4, <2>5
<1>5. QED
  BY <1>3, <1>4

\* -l and -s never disagree, in the state of no run of the commands, even after
\* writes that failed: the side -l shows is the one -s writes, unless it says Failed.
THEOREM ListsWhatItSaves == Spec => []ListedLikeSaved
<1>1. SlotsInv => ListedLikeSaved
  BY SavedIsListed DEF ListedLikeSaved
<1>2. QED
  BY <1>1, SlotsInit, SlotsNext, PTL DEF Spec
=============================================================================
