--------------------------- MODULE PageWriterProofs ---------------------------
(***************************************************************************)
(* spi_writeFlash programs every byte of the file once and no other, for   *)
(* every size of pages, reports and flash and every address: pieces that   *)
(* do not run over the end of a page, and reports that add up to a piece.  *)
(***************************************************************************)
EXTENDS PageWriter, SequenceTheorems, TLAPS

\* the first n bytes of the file from byte w on
Part(w, n) == [k \in 1 .. n |-> w + k - 1]

\* The first n bytes of the file are in the flash.
Holds(n) == flash = [c \in Bytes |-> Written(c, n)]

\* a whole number of pieces, or the end of the file
Whole(n) == n = call.size \/ n % LeftInPage = 0

\* What the chip has been sent of a piece, and what is still to be sent, add up
\* to the piece, which goes into its page.
Sending ==
    pc = "send" =>
        /\ wrote < call.size /\ ~Overflows
        /\ frame = Part(wrote, Len(frame))
        /\ \/ size = pageWriteSize + CmdSize /\ Len(frame) = 0
           \/ size \in 1 .. pageWriteSize /\ Len(frame) + size = pageWriteSize
           \/ size <= 0 /\ Len(frame) = pageWriteSize
        /\ Holds(IF size > 0 THEN wrote ELSE wrote + pageWriteSize)

Progress ==
    /\ before \in [Bytes -> Nat \cup {Erased, Garbled}]
    /\ pc = "erase" => wrote = 0 /\ flash = before
    /\ pc = "page" => Holds(wrote)
    /\ pc \in {"page", "send"} => Whole(wrote)
    /\ ok => pc = "done" /\ Holds(call.size)

\* No piece up to here runs over the end of its page.
Fitting == pc \in {"page", "send"} => \A n \in 0 .. wrote - 1 : ~CrossesAt(n)

PagesInv == TypeOK /\ Sending /\ Progress /\ Fitting /\ OnlyOwnBytes /\ FailsForReason

-----------------------------------------------------------------------------
(* arithmetic *)

LEMMA DivMod ==
    ASSUME NEW n \in Nat, NEW d \in Nat \ {0}
    PROVE  /\ n \div d \in Nat /\ n % d \in 0 .. d - 1
           /\ n = d * (n \div d) + (n % d)
OBVIOUS

LEMMA Multiple ==
    ASSUME NEW n \in Nat, NEW d \in Nat \ {0}, n % d = 0
    PROVE  n \div d \in Nat /\ n = d * (n \div d)
<1>1. n \div d \in Nat /\ n = d * (n \div d) + (n % d)
  BY DivMod
<1> DEFINE q == n \div d
<1> HIDE DEF q
<1>2. n = d * q + 0 /\ q \in Nat
  BY <1>1 DEF q
<1>3. QED
  BY <1>2 DEF q

LEMMA SmallMultiple ==
    ASSUME NEW d \in Nat \ {0}, NEW j \in Int, d * j < d, -d < d * j
    PROVE  j = 0
OBVIOUS

LEMMA DivModUnique ==
    ASSUME NEW d \in Nat \ {0}, NEW q \in Nat, NEW r \in 0 .. d - 1
    PROVE  (d * q + r) \div d = q /\ (d * q + r) % d = r
<1> DEFINE n == d * q + r
<1>1. n \in Nat
  OBVIOUS
<1>2. /\ n \div d \in Nat /\ n % d \in 0 .. d - 1
      /\ n = d * (n \div d) + (n % d)
  BY <1>1, DivMod
<1>3. d * (q - n \div d) = d * q - d * (n \div d)
  BY <1>1, <1>2
<1>4. q - n \div d = 0
  <2>1. d * (q - n \div d) < d /\ -d < d * (q - n \div d)
    BY <1>2, <1>3
  <2>2. q - n \div d \in Int
    BY <1>2
  <2>3. QED
    BY <2>1, <2>2, SmallMultiple
<1>5. QED
  BY <1>2, <1>4

\* A step that stays within a unit of d.
LEMMA StepInUnit ==
    ASSUME NEW n \in Nat, NEW d \in Nat \ {0}, NEW i \in Nat, (n % d) + i < d
    PROVE  (n + i) % d = (n % d) + i /\ (n + i) \div d = n \div d
<1> DEFINE q == n \div d
           r == n % d
<1>1. q \in Nat /\ r \in 0 .. d - 1 /\ n = d * q + r
  BY DivMod
<1> HIDE DEF q, r
<1>2. n + i = d * q + (r + i) /\ r + i \in 0 .. d - 1
  BY <1>1 DEF r
<1>3. (n + i) % d = r + i /\ (n + i) \div d = q
  BY <1>1, <1>2, DivModUnique
<1>4. QED
  BY <1>3 DEF q, r

\* A unit that begins below a multiple of its size ends there.
LEMMA UnitFits ==
    ASSUME NEW d \in Nat \ {0}, NEW f \in Nat \ {0}, f % d = 0, NEW n \in 0 .. f - 1
    PROVE  n - (n % d) + d <= f
<1>1. /\ f \div d \in Nat /\ f = d * (f \div d)
      /\ n \div d \in Nat /\ n % d \in 0 .. d - 1 /\ n = d * (n \div d) + (n % d)
  <2>1. f = d * (f \div d) /\ f \div d \in Nat
    BY Multiple
  <2>2. n \in Nat
    OBVIOUS
  <2>3. n \div d \in Nat /\ n % d \in 0 .. d - 1 /\ n = d * (n \div d) + (n % d)
    BY <2>2, DivMod
  <2>4. QED
    BY <2>1, <2>3
<1> DEFINE g == f \div d
           q == n \div d
<1> HIDE DEF g, q
<1>2. g \in Nat /\ q \in Nat /\ f = d * g /\ n - (n % d) = d * q /\ d * q < d * g
  BY <1>1 DEF g, q
<1>3. q < g
  BY <1>2
<1>4. d * q + d <= d * g
  BY <1>2, <1>3
<1>5. QED
  BY <1>2, <1>4

\* Addresses that wrap at a multiple of d keep their place in units of d.
LEMMA ModMod ==
    ASSUME NEW d \in Nat \ {0}, NEW f \in Nat \ {0}, f % d = 0, NEW n \in Nat
    PROVE  (n % f) % d = n % d
<1> DEFINE g == f \div d
           q == n \div f
           r == n % f
           s == r \div d
           t == r % d
<1>1. g \in Nat /\ f = d * g
  BY Multiple
<1>2. q \in Nat /\ r \in Nat /\ n = f * q + r
  BY DivMod
<1>3. s \in Nat /\ t \in 0 .. d - 1 /\ r = d * s + t
  BY <1>2, DivMod
<1> HIDE DEF g, q, r, s, t
<1>4. g * q + s \in Nat /\ n = d * (g * q + s) + t
  <2>1. n = (d * g) * q + (d * s + t)
    BY <1>1, <1>2, <1>3
  <2>2. (d * g) * q = d * (g * q) /\ g * q \in Nat
    BY <1>1, <1>2
  <2>3. d * (g * q + s) = d * (g * q) + d * s
    BY <1>3, <2>2
  <2>4. QED
    BY <1>3, <2>1, <2>2, <2>3
<1>5. n % d = t
  BY <1>3, <1>4, DivModUnique
<1>6. QED
  BY <1>5 DEF r, t

\* Numbers closer than d have different places in units of d.
LEMMA ModDiffers ==
    ASSUME NEW d \in Nat \ {0}, NEW m \in Nat, NEW n \in Nat, m < n, n - m < d
    PROVE  m % d # n % d
<1> DEFINE q == m \div d
           p == n \div d
<1>1. q \in Nat /\ m = d * q + (m % d) /\ p \in Nat /\ n = d * p + (n % d) /\ n % d \in Nat
  <2>1. q \in Nat /\ m = d * q + (m % d)
    BY DivMod
  <2>2. p \in Nat /\ n = d * p + (n % d) /\ n % d \in Nat
    BY DivMod
  <2>3. QED
    BY <2>1, <2>2
<1> HIDE DEF q, p
<1> SUFFICES ASSUME m % d = n % d PROVE FALSE
  OBVIOUS
<1>2. d * (p - q) = d * p - d * q /\ p - q \in Int
  BY <1>1
<1>3. n - m = d * (p - q)
  BY <1>1, <1>2
<1>4. p - q = 0
  BY <1>2, <1>3, SmallMultiple
<1>5. QED
  BY <1>3, <1>4

\* Multiples of l have multiples of l as their places in units of k of them.
LEMMA MultipleFits ==
    ASSUME NEW l \in Nat \ {0}, NEW d \in Nat \ {0}, d % l = 0, NEW n \in Nat, n % l = 0
    PROVE  (n % d) + l <= d
<1>1. n % d \in 0 .. d - 1 /\ (n % d) % l = 0
  BY DivMod, ModMod
<1>2. (n % d) - ((n % d) % l) + l <= d
  BY <1>1, UnitFits
<1>3. QED
  BY <1>1, <1>2

LEMMA MultipleAdd ==
    ASSUME NEW l \in Nat \ {0}, NEW m \in Nat, m % l = 0, NEW n \in Nat, n % l = 0
    PROVE  (m + n) % l = 0
<1> DEFINE p == m \div l
           q == n \div l
<1>1. p \in Nat /\ m = l * p /\ q \in Nat /\ n = l * q
  BY DivMod
<1> HIDE DEF p, q
<1>2. m + n = l * (p + q) + 0 /\ p + q \in Nat /\ 0 \in 0 .. l - 1
  BY <1>1
<1>3. QED
  BY <1>2, DivModUnique

\* A step of i from x is the same in a flash of f bytes and in a page of d.
InStep(d, f, x, i) ==
    /\ (x + i) % f = (x % f) + i
    /\ (x % f) - ((x % f) % d) + (((x % f) + i) % d) = (x % f) + i

\* A step within a unit of d does not wrap at a multiple f of d either.
LEMMA WrapInPage ==
    ASSUME NEW d \in Nat \ {0}, NEW f \in Nat \ {0}, f % d = 0,
           NEW x \in Nat, NEW i \in Nat, (x % d) + i < d
    PROVE  InStep(d, f, x, i)
<1>1. PICK c \in 0 .. f - 1 : c = x % f
  BY DivMod
<1>2. c % d = x % d
  BY <1>1, ModMod
<1>3. c \in Nat /\ (c % d) + i < d
  BY <1>1, <1>2
<1>4. (c + i) % d = (c % d) + i
  BY <1>3, StepInUnit
<1>5. c % d \in 0 .. d - 1
  BY <1>3, DivMod
<1>6. c + i < f
  <2>1. c - (c % d) + d <= f
    BY UnitFits
  <2>2. QED
    BY <1>3, <1>5, <2>1
<1>7. (x + i) % f = (x % f) + i
  BY <1>1, <1>6, StepInUnit
<1>8. c - (c % d) + ((c + i) % d) = c + i
  BY <1>3, <1>4, <1>5
<1>9. QED
  BY <1>1, <1>7, <1>8 DEF InStep

-----------------------------------------------------------------------------
(* cells and pieces *)

LEMMA Sizes ==
    /\ PageSize \in Nat \ {0} /\ FlashSize \in Nat \ {0}
    /\ WriteMax \in Nat \ {0} /\ CmdSize \in Nat \ {0}
    /\ CmdSize <= WriteMax /\ FlashSize % PageSize = 0
BY PagesAssumption

LEMMA CallType ==
    ASSUME call \in Writes
    PROVE  /\ call.addr \in Nat /\ call.size \in 0 .. FlashSize /\ call.unit \in 1 .. FlashSize
           /\ \A k \in Nat : Cell(k) \in Bytes
           /\ LeftInPage \in 1 .. PageSize
<1>1. call.addr \in Nat /\ call.size \in 0 .. FlashSize /\ call.unit \in 1 .. FlashSize
  BY PagesAssumption
<1>2. ASSUME NEW k \in Nat PROVE Cell(k) \in Bytes
  <2>1. call.addr + k \in Nat
    BY <1>1
  <2>2. QED
    BY <2>1, Sizes, DivMod DEF Cell, Bytes
<1>3. LeftInPage \in 1 .. PageSize
  <2>1. call.addr % PageSize \in 0 .. PageSize - 1
    BY <1>1, Sizes, DivMod
  <2>2. QED
    BY <2>1, Sizes DEF LeftInPage
<1>4. QED
  BY <1>1, <1>2, <1>3

LEMMA PieceSize ==
    ASSUME call \in Writes, NEW w \in Nat, w = wrote, w < call.size
    PROVE  /\ pageWriteSize \in 1 .. PageSize /\ pageWriteSize <= LeftInPage
           /\ wrote + pageWriteSize <= call.size
           /\ pageWriteSize = LeftInPage \/ wrote + pageWriteSize = call.size
BY CallType, Sizes DEF pageWriteSize, Cut

\* No two bytes of the file have the same place in the flash.
LEMMA CellsDiffer ==
    ASSUME call \in Writes, NEW j \in 0 .. call.size - 1, NEW k \in 0 .. call.size - 1,
           Cell(j) = Cell(k)
    PROVE  j = k
<1>1. call.addr \in Nat /\ call.size \in 0 .. FlashSize
  BY CallType
<1>2. /\ call.addr + j \in Nat /\ call.addr + k \in Nat
      /\ (call.addr + j) - (call.addr + k) < FlashSize
      /\ (call.addr + k) - (call.addr + j) < FlashSize
  BY <1>1, Sizes
<1>3. ~(call.addr + j < call.addr + k)
  BY <1>2, Sizes, ModDiffers DEF Cell
<1>4. ~(call.addr + k < call.addr + j)
  BY <1>2, Sizes, ModDiffers DEF Cell
<1>5. QED
  BY <1>1, <1>3, <1>4

\* A frame that does not run over the end of its page puts each byte of the
\* piece at its own place.
LEMMA FrameCells ==
    ASSUME call \in Writes, wrote \in Nat, wrote < call.size, ~Overflows,
           NEW i \in 1 .. pageWriteSize
    PROVE  InPage(i) = Cell(wrote + i - 1)
<1> DEFINE x == call.addr + wrote
<1>1. x \in Nat
  BY CallType
<1>2. (x % PageSize) + (i - 1) < PageSize /\ i - 1 \in Nat
  <2>1. x % PageSize \in 0 .. PageSize - 1
    BY <1>1, Sizes, DivMod
  <2>2. (x % PageSize) + pageWriteSize <= PageSize
    BY PieceSize, <2>1, Sizes DEF Overflows
  <2>3. QED
    BY PieceSize, <2>1, <2>2, Sizes
<1> HIDE DEF x
<1>3. /\ (x + (i - 1)) % FlashSize = (x % FlashSize) + (i - 1)
      /\ (x % FlashSize) - ((x % FlashSize) % PageSize)
           + (((x % FlashSize) + (i - 1)) % PageSize) = (x % FlashSize) + (i - 1)
  <2>1. PICK j \in Nat : j = i - 1
    BY <1>2
  <2>2. (x % PageSize) + j < PageSize
    BY <1>2, <2>1
  <2>3. PageSize \in Nat \ {0} /\ FlashSize \in Nat \ {0} /\ FlashSize % PageSize = 0
    BY Sizes
  <2>4. InStep(PageSize, FlashSize, x, j)
    BY <1>1, <2>2, <2>3, WrapInPage
  <2>5. QED
    BY <2>1, <2>4 DEF InStep
<1>4. Cell(wrote) = x % FlashSize /\ Cell(wrote) \in Nat
  BY CallType DEF Cell, x, Bytes
<1>5. InPage(i) = Cell(wrote) + (i - 1)
  <2>1. Cell(wrote) + i - 1 = Cell(wrote) + (i - 1)
    BY <1>4
  <2>2. QED
    BY <1>3, <1>4, <2>1 DEF InPage
<1>6. Cell(wrote + i - 1) = (x + (i - 1)) % FlashSize
  <2>1. call.addr + (wrote + i - 1) = x + (i - 1)
    BY CallType DEF x
  <2>2. QED
    BY <2>1 DEF Cell
<1>7. QED
  BY <1>3, <1>4, <1>5, <1>6

\* pageProgram refuses exactly the pieces that run over the end of their pages.
LEMMA Crossing ==
    ASSUME call \in Writes, wrote \in Nat, wrote < call.size, Whole(wrote)
    PROVE  CrossesAt(wrote) <=> Overflows
<1> DEFINE m == pageWriteSize
           x == call.addr + wrote
           q == x \div PageSize
           r == x % PageSize
           last == IF wrote + PieceLength < call.size THEN wrote + PieceLength - 1
                   ELSE call.size - 1
<1>1. /\ m \in 1 .. PageSize /\ call.addr \in Nat /\ call.size \in Nat
      /\ LeftInPage \in 1 .. PageSize
  BY PieceSize, CallType
<1>2. last = wrote + (m - 1)
  BY <1>1 DEF pageWriteSize, Cut, LeftInPage, PieceLength
<1>3. wrote % PieceLength = 0
  BY <1>1 DEF Whole, LeftInPage, PieceLength
<1>4. CrossesAt(wrote) <=> q # (call.addr + last) \div PageSize
  BY <1>3 DEF CrossesAt
<1>5. Overflows <=> r + m > PageSize
  BY DEF Overflows
<1>6. x \in Nat /\ q \in Nat /\ r \in 0 .. PageSize - 1 /\ x = PageSize * q + r
  <2>1. x \in Nat
    BY <1>1
  <2>2. QED
    BY <2>1, Sizes, DivMod
<1>7. call.addr + last = x + (m - 1)
  BY <1>1, <1>2
<1> HIDE DEF m, x, last
<1>8. CASE r + m <= PageSize
  <2>1. PICK i \in Nat : i = m - 1 /\ r + i < PageSize
    BY <1>1, <1>6, <1>8, Sizes
  <2>2. (x + i) \div PageSize = q
    <3>1. PageSize \in Nat \ {0} /\ (x % PageSize) + i < PageSize /\ x \in Nat /\ i \in Nat
      BY <1>6, <2>1, Sizes
    <3>2. (x + i) \div PageSize = x \div PageSize
      BY <3>1, StepInUnit
    <3>3. QED
      BY <3>2
  <2> HIDE DEF q, r
  <2>3. ~CrossesAt(wrote)
    BY <1>4, <1>7, <2>1, <2>2, Zenon
  <2>4. r \in Nat /\ m \in Nat /\ PageSize \in Nat
    BY <1>1, <1>6, Sizes
  <2>5. ~Overflows
    BY <1>5, <1>8, <2>4
  <2>6. QED
    BY <2>3, <2>5
<1>9. CASE r + m > PageSize
  <2> HIDE DEF q, r
  <2>1. PICK j \in 0 .. PageSize - 1 : j = r + (m - 1) - PageSize
    BY <1>1, <1>6, <1>9, Sizes
  <2>2. x + (m - 1) = PageSize * (q + 1) + j /\ q + 1 \in Nat
    <3>1. PageSize * (q + 1) = PageSize * q + PageSize
      BY <1>6, Sizes
    <3>2. QED
      BY <1>1, <1>6, <2>1, <3>1, Sizes
  <2>3. (x + (m - 1)) \div PageSize = q + 1
    BY <2>1, <2>2, Sizes, DivModUnique
  <2>4. QED
    BY <1>4, <1>5, <1>6, <1>7, <1>9, <2>3
<1>10. QED
  BY <1>1, <1>6, <1>8, <1>9, Sizes

\* Between two pieces no piece begins.
LEMMA NoneBetween ==
    ASSUME call \in Writes, wrote \in Nat, wrote < call.size, Whole(wrote),
           NEW n \in Nat, wrote < n, n < wrote + LeftInPage
    PROVE  ~CrossesAt(n)
<1>1. PICK l \in Nat \ {0} : l = LeftInPage
  BY CallType, Sizes
<1>2. wrote % l = 0
  BY <1>1, CallType DEF Whole
<1>3. n - wrote < l
  BY <1>1
<1>4. n % l # 0
  BY <1>2, <1>3, ModDiffers
<1>5. QED
  BY <1>1, <1>4 DEF CrossesAt, LeftInPage, PieceLength

-----------------------------------------------------------------------------
(* what a frame does to the flash *)

Values == Nat \cup {Erased, Garbled}

LEMMA PieceCells ==
    ASSUME call \in Writes, wrote \in Nat, wrote < call.size, ~Overflows,
           NEW n \in 0 .. pageWriteSize
    PROVE  /\ DOMAIN Part(wrote, n) = 1 .. n
           /\ \A i \in 1 .. n :
                /\ Part(wrote, n)[i] = wrote + i - 1
                /\ wrote + i - 1 \in 0 .. call.size - 1
                /\ InPage(i) = Cell(wrote + i - 1)
<1>1. pageWriteSize \in Nat /\ wrote + pageWriteSize <= call.size /\ call.size \in Nat
  BY PieceSize, CallType
<1>2. n \in Nat /\ n <= pageWriteSize
  BY <1>1
<1>3. ASSUME NEW i \in 1 .. n PROVE InPage(i) = Cell(wrote + i - 1)
  <2>1. i \in 1 .. pageWriteSize
    BY <1>1, <1>2
  <2>2. QED
    BY <2>1, FrameCells
<1>4. ASSUME NEW i \in 1 .. n PROVE wrote + i - 1 \in 0 .. call.size - 1
  BY <1>1, <1>2
<1>5. QED
  BY <1>3, <1>4 DEF Part

LEMMA ProgramPart ==
    ASSUME call \in Writes, wrote \in Nat, wrote < call.size, ~Overflows,
           NEW n \in 0 .. pageWriteSize, flash \in [Bytes -> Values]
    PROVE  /\ ProgramFrame(Part(wrote, n)) \in [Bytes -> Values]
           /\ \A c \in Bytes :
                (\A k \in wrote .. wrote + n - 1 : Cell(k) # c)
                    => ProgramFrame(Part(wrote, n))[c] = flash[c]
           /\ \A k \in wrote .. wrote + n - 1 :
                ProgramFrame(Part(wrote, n))[Cell(k)] = Programmed(flash[Cell(k)], k)
<1> DEFINE p == Part(wrote, n)
<1>1. /\ DOMAIN p = 1 .. n
      /\ \A i \in 1 .. n : /\ p[i] = wrote + i - 1
                           /\ wrote + i - 1 \in 0 .. call.size - 1
                           /\ InPage(i) = Cell(wrote + i - 1)
  BY PieceCells
<1>2. n \in Nat /\ call.size \in Nat
  BY PieceSize, CallType
<1> HIDE DEF p
<1>3. ASSUME NEW c \in Bytes
      PROVE  ProgramFrame(p)[c] =
                IF \E i \in 1 .. n : InPage(i) = c
                THEN Programmed(flash[c], p[CHOOSE i \in 1 .. n : InPage(i) = c])
                ELSE flash[c]
  BY <1>1 DEF ProgramFrame
<1>4. ASSUME NEW c \in Bytes PROVE ProgramFrame(p)[c] \in Values
  <2>1. CASE \E i \in 1 .. n : InPage(i) = c
    <3>1. PICK i \in 1 .. n : i = CHOOSE j \in 1 .. n : InPage(j) = c
      BY <2>1
    <3>2. ProgramFrame(p)[c] = Programmed(flash[c], p[i])
      BY <1>3, <2>1, <3>1
    <3>3. p[i] \in Nat
      BY <1>1, <1>2
    <3>4. QED
      BY <3>2, <3>3 DEF Programmed, Values
  <2>2. CASE ~ \E i \in 1 .. n : InPage(i) = c
    BY <1>3, <2>2
  <2>3. QED
    BY <2>1, <2>2
<1>5. ProgramFrame(p) \in [Bytes -> Values]
  BY <1>4 DEF ProgramFrame
<1>6. ASSUME NEW c \in Bytes, \A k \in wrote .. wrote + n - 1 : Cell(k) # c
      PROVE  ProgramFrame(p)[c] = flash[c]
  <2>1. ASSUME NEW i \in 1 .. n PROVE InPage(i) # c
    <3>1. wrote + i - 1 \in wrote .. wrote + n - 1
      BY <1>2
    <3>2. QED
      BY <1>1, <1>6, <3>1
  <2>2. QED
    BY <1>3, <2>1
<1>7. ASSUME NEW k \in wrote .. wrote + n - 1
      PROVE  ProgramFrame(p)[Cell(k)] = Programmed(flash[Cell(k)], k)
  <2>1. k - wrote + 1 \in 1 .. n /\ wrote + (k - wrote + 1) - 1 = k
    BY <1>2
  <2>2. InPage(k - wrote + 1) = Cell(k) /\ p[k - wrote + 1] = k /\ k \in 0 .. call.size - 1
    BY <1>1, <2>1
  <2>3. ASSUME NEW i \in 1 .. n, InPage(i) = Cell(k) PROVE i = k - wrote + 1
    <3>1. Cell(wrote + i - 1) = Cell(k) /\ wrote + i - 1 \in 0 .. call.size - 1
      BY <1>1, <2>3
    <3>2. wrote + i - 1 = k
      BY <2>2, <3>1, CellsDiffer
    <3>3. QED
      BY <1>2, <3>2
  <2>4. (CHOOSE i \in 1 .. n : InPage(i) = Cell(k)) = k - wrote + 1
    BY <2>1, <2>2, <2>3
  <2>5. Cell(k) \in Bytes
    BY <2>2, <1>2, CallType
  <2>6. QED
    BY <1>3, <2>1, <2>2, <2>4, <2>5
<1>8. QED
  BY <1>5, <1>6, <1>7 DEF p

\* what a byte is when it is programmed
Base(c) == IF c \in Unit THEN Erased ELSE before[c]

LEMMA WrittenPart ==
    ASSUME call \in Writes, NEW n \in 0 .. call.size
    PROVE  /\ \A c \in Bytes :
                (\A k \in 0 .. n - 1 : Cell(k) # c) => Written(c, n) = Base(c)
           /\ \A k \in 0 .. n - 1 : Written(Cell(k), n) = Programmed(Base(Cell(k)), k)
<1>1. call.size \in Nat
  BY CallType
<1>2. ASSUME NEW c \in Bytes, \A k \in 0 .. n - 1 : Cell(k) # c
      PROVE  Written(c, n) = Base(c)
  BY <1>2 DEF Written, Base
<1>3. ASSUME NEW k \in 0 .. n - 1
      PROVE  Written(Cell(k), n) = Programmed(Base(Cell(k)), k)
  <2>1. ASSUME NEW j \in 0 .. n - 1, Cell(j) = Cell(k) PROVE j = k
    <3>1. j \in 0 .. call.size - 1 /\ k \in 0 .. call.size - 1
      BY <1>1
    <3>2. QED
      BY <2>1, <3>1, CellsDiffer
  <2>2. (CHOOSE j \in 0 .. n - 1 : Cell(j) = Cell(k)) = k
    BY <2>1
  <2>3. QED
    BY <2>2 DEF Written, Base
<1>4. QED
  BY <1>2, <1>3

\* A whole piece in its page, behind those written before it.
LEMMA PieceJoins ==
    ASSUME call \in Writes, wrote \in Nat, wrote < call.size, ~Overflows,
           flash \in [Bytes -> Values], Holds(wrote)
    PROVE  ProgramFrame(Part(wrote, pageWriteSize))
                = [c \in Bytes |-> Written(c, wrote + pageWriteSize)]
<1> DEFINE n == pageWriteSize
           f == ProgramFrame(Part(wrote, n))
           m == wrote + n
<1>1. n \in Nat /\ m \in 0 .. call.size /\ wrote \in 0 .. call.size /\ call.size \in Nat
  BY PieceSize, CallType
<1>2. /\ f \in [Bytes -> Values]
      /\ \A c \in Bytes : (\A k \in wrote .. m - 1 : Cell(k) # c) => f[c] = flash[c]
      /\ \A k \in wrote .. m - 1 : f[Cell(k)] = Programmed(flash[Cell(k)], k)
  <2>1. n \in 0 .. pageWriteSize
    BY <1>1
  <2>2. QED
    BY <2>1, ProgramPart
<1>3. \A c \in Bytes : flash[c] = Written(c, wrote)
  BY DEF Holds
<1> HIDE DEF n, f, m
<1>4. ASSUME NEW c \in Bytes PROVE f[c] = Written(c, m)
  <2>1. CASE \A k \in 0 .. m - 1 : Cell(k) # c
    <3>1. Written(c, m) = Base(c) /\ Written(c, wrote) = Base(c)
      <4>1. \A k \in 0 .. wrote - 1 : Cell(k) # c
        BY <1>1, <2>1 DEF m
      <4>2. QED
        BY <1>1, <2>1, <4>1, WrittenPart
    <3>2. f[c] = flash[c]
      BY <1>1, <1>2, <2>1
    <3>3. QED
      BY <1>3, <3>1, <3>2
  <2>2. ASSUME NEW k \in 0 .. wrote - 1, Cell(k) = c PROVE f[c] = Written(c, m)
    <3>1. k \in 0 .. m - 1 /\ k \in 0 .. call.size - 1
      BY <1>1 DEF m
    <3>2. Written(c, m) = Programmed(Base(c), k) /\ Written(c, wrote) = Programmed(Base(c), k)
      BY <1>1, <2>2, <3>1, WrittenPart
    <3>3. ASSUME NEW j \in wrote .. m - 1 PROVE Cell(j) # c
      <4>1. j \in 0 .. call.size - 1 /\ j # k
        BY <1>1
      <4>2. QED
        BY <2>2, <3>1, <4>1, CellsDiffer
    <3>4. f[c] = flash[c]
      BY <1>2, <3>3
    <3>5. QED
      BY <1>3, <3>2, <3>4
  <2>3. ASSUME NEW k \in wrote .. m - 1, Cell(k) = c PROVE f[c] = Written(c, m)
    <3>1. k \in 0 .. m - 1 /\ k \in 0 .. call.size - 1
      BY <1>1
    <3>2. Written(c, m) = Programmed(Base(c), k)
      BY <1>1, <2>3, <3>1, WrittenPart
    <3>3. ASSUME NEW j \in 0 .. wrote - 1 PROVE Cell(j) # c
      <4>1. j \in 0 .. call.size - 1 /\ j # k
        BY <1>1
      <4>2. QED
        BY <2>3, <3>1, <4>1, CellsDiffer
    <3>4. Written(c, wrote) = Base(c)
      BY <1>1, <3>3, WrittenPart
    <3>5. QED
      BY <1>2, <1>3, <2>3, <3>2, <3>4
  <2>4. \A k \in 0 .. m - 1 : k \in 0 .. wrote - 1 \/ k \in wrote .. m - 1
    BY <1>1
  <2>5. QED
    BY <2>1, <2>2, <2>3, <2>4
<1>5. f = [c \in Bytes |-> Written(c, m)]
  BY <1>2, <1>4
<1>6. QED
  BY <1>5 DEF f, m, n

-----------------------------------------------------------------------------
(* reports *)

LEMMA PartJoins ==
    ASSUME NEW w \in Nat, NEW m \in Nat, NEW n \in Nat
    PROVE  Part(w, m) \o [k \in 1 .. n |-> w + m + k - 1] = Part(w, m + n)
<1> DEFINE p == Part(w, m)
           r == [k \in 1 .. n |-> w + m + k - 1]
           q == Part(w, m + n)
<1>1. p \in Seq(Nat) /\ Len(p) = m /\ \A k \in 1 .. m : p[k] = w + k - 1
  BY DEF Part
<1>2. r \in Seq(Nat) /\ Len(r) = n /\ \A k \in 1 .. n : r[k] = w + m + k - 1
  OBVIOUS
<1>3. q \in Seq(Nat) /\ Len(q) = m + n /\ \A k \in 1 .. m + n : q[k] = w + k - 1
  BY DEF Part
<1> HIDE DEF p, r, q
<1>4. /\ p \o r \in Seq(Nat) /\ Len(p \o r) = m + n
      /\ \A k \in 1 .. m + n : (p \o r)[k] = IF k <= m THEN p[k] ELSE r[k - m]
  BY <1>1, <1>2, ConcatProperties
<1>5. ASSUME NEW k \in 1 .. m + n
      PROVE  (IF k <= m THEN p[k] ELSE r[k - m]) = w + k - 1
  <2>1. CASE k <= m
    BY <1>1, <2>1
  <2>2. CASE ~(k <= m)
    <3>1. k - m \in 1 .. n /\ w + m + (k - m) - 1 = w + k - 1
      BY <2>2
    <3>2. QED
      BY <1>2, <2>2, <3>1
  <2>3. QED
    BY <2>1, <2>2
<1>6. \A k \in 1 .. m + n : (p \o r)[k] = q[k]
  BY <1>3, <1>4, <1>5
<1>7. p \o r = q
  BY <1>3, <1>4, <1>6, SeqEqual
<1>8. QED
  BY <1>7 DEF p, r, q

\* A report has the next bytes of the piece; the last one has all the rest.
LEMMA NextReport ==
    ASSUME TypeOK, Sending, pc = "send"
    PROVE  \E n \in Nat :
              /\ frame \o InReport = Part(wrote, Len(frame) + n)
              /\ Len(frame) + n <= pageWriteSize
              /\ size > 0 =>
                   IF size > WriteMax
                   THEN size - WriteMax \in 1 .. pageWriteSize
                        /\ Len(frame) + n + (size - WriteMax) = pageWriteSize
                   ELSE Len(frame) + n = pageWriteSize
<1>1. /\ call \in Writes /\ wrote \in Nat /\ wrote < call.size /\ size \in Int
      /\ Len(frame) \in Nat /\ frame = Part(wrote, Len(frame))
      /\ \/ size = pageWriteSize + CmdSize /\ Len(frame) = 0
         \/ size \in 1 .. pageWriteSize /\ Len(frame) + size = pageWriteSize
         \/ size <= 0 /\ Len(frame) = pageWriteSize
  BY CallType, Sizes DEF TypeOK, Sending
<1>2. pageWriteSize \in 1 .. PageSize
  BY <1>1, PieceSize
<1> DEFINE full == IF size > WriteMax THEN WriteMax ELSE size
           i == IF size = pageWriteSize + CmdSize THEN full - CmdSize ELSE full
           n == IF i > 0 THEN i ELSE 0
<1>3. i \in Int /\ n \in Nat
  BY <1>1, <1>2, Sizes
<1>4. InReport = [k \in 1 .. n |-> wrote + Len(frame) + k - 1]
  <2>1. 1 .. i = 1 .. n
    BY <1>3
  <2>2. InReport = [k \in 1 .. i |-> wrote + Len(frame) + k - 1]
    BY DEF InReport
  <2> HIDE DEF i, n
  <2>3. QED
    BY <2>1, <2>2
<1>5. frame \o InReport = Part(wrote, Len(frame) + n)
  <2> HIDE DEF n
  <2>1. PICK m \in Nat : m = Len(frame)
    BY <1>1
  <2>2. Part(wrote, m) \o [k \in 1 .. n |-> wrote + m + k - 1] = Part(wrote, m + n)
    BY <1>1, <1>3, PartJoins
  <2>3. QED
    BY <1>1, <1>4, <2>1, <2>2
<1>6. CASE size = pageWriteSize + CmdSize
  <2>1. n = IF size > WriteMax THEN WriteMax - CmdSize ELSE size - CmdSize
    BY <1>1, <1>2, <1>6, Sizes
  <2> HIDE DEF n
  <2>2. Len(frame) + n <= pageWriteSize
    BY <1>1, <1>2, <1>6, <2>1, Sizes
  <2>3. size > WriteMax => /\ size - WriteMax \in 1 .. pageWriteSize
                           /\ Len(frame) + n + (size - WriteMax) = pageWriteSize
    BY <1>1, <1>2, <1>6, <2>1, Sizes
  <2>4. ~(size > WriteMax) => Len(frame) + n = pageWriteSize
    BY <1>1, <1>2, <1>6, <2>1, Sizes
  <2>5. QED
    BY <1>3, <1>5, <2>2, <2>3, <2>4
<1>7. CASE size # pageWriteSize + CmdSize
  <2>1. n = IF size > WriteMax THEN WriteMax ELSE IF size > 0 THEN size ELSE 0
    BY <1>1, <1>2, <1>7, Sizes
  <2> HIDE DEF n
  <2>2. Len(frame) + n <= pageWriteSize
    BY <1>1, <1>2, <1>7, <2>1, Sizes
  <2>3. size > WriteMax => /\ size - WriteMax \in 1 .. pageWriteSize
                           /\ Len(frame) + n + (size - WriteMax) = pageWriteSize
    BY <1>1, <1>2, <1>7, <2>1, Sizes
  <2>4. size > 0 /\ ~(size > WriteMax) => Len(frame) + n = pageWriteSize
    BY <1>1, <1>2, <1>7, <2>1, Sizes
  <2>5. QED
    BY <1>3, <1>5, <2>2, <2>3, <2>4
<1>8. QED
  BY <1>6, <1>7

-----------------------------------------------------------------------------
(* the invariant *)

LEMMA PagesInit == Init => PagesInv
<1> SUFFICES ASSUME Init PROVE PagesInv
  OBVIOUS
<1>1. call \in Writes /\ call.size \in Nat
  BY CallType DEF Init
<1>2. flash \in [Bytes -> Nat \cup {Erased, Garbled}] /\ before = flash
  BY PagesAssumption DEF Init, Bytes
<1>3. TypeOK
  <2>1. frame = <<>> /\ frame \in Seq(0 .. FlashSize) /\ Len(frame) <= PageSize
    BY Sizes DEF Init
  <2>2. 0 \in 1 - WriteMax .. PageSize + CmdSize /\ 0 \in 0 .. call.size
    BY <1>1, Sizes
  <2>3. QED
    BY <1>1, <1>2, <2>1, <2>2 DEF Init, TypeOK
<1>4. Sending /\ Progress
  BY <1>2 DEF Init, Sending, Progress
<1>5. Fitting /\ OnlyOwnBytes /\ FailsForReason
  BY <1>2 DEF Init, Fitting, OnlyOwnBytes, FailsForReason
<1>6. QED
  BY <1>3, <1>4, <1>5 DEF PagesInv

\* Nothing of what the invariant says depends on anything that a step of the
\* same call changes, but for the bytes.
LEMMA SameCall ==
    ASSUME UNCHANGED <<call, before>>, call \in Writes
    PROVE  /\ \A c : Written(c, call.size)' = Written(c, call.size)
           /\ \A c, n : Written(c, n)' = Written(c, n)
           /\ Unit' = Unit /\ LeftInPage' = LeftInPage
           /\ \A k : Cell(k)' = Cell(k)
BY DEF Written, Unit, Cell, Programmed, LeftInPage

LEMMA SameCrossing ==
    ASSUME UNCHANGED call
    PROVE  \A n : CrossesAt(n)' = CrossesAt(n)
BY DEF CrossesAt, PieceLength

LEMMA EraseKeeps == PagesInv /\ EraseBlock => PagesInv'
<1> SUFFICES ASSUME PagesInv, EraseBlock PROVE PagesInv'
  OBVIOUS
<1>1. /\ pc = "erase" /\ wrote = 0 /\ flash = before /\ ok = FALSE /\ failed \in BOOLEAN
      /\ call \in Writes /\ call.size \in Nat /\ flash \in [Bytes -> Nat \cup {Erased, Garbled}]
      /\ UNCHANGED <<call, wrote, size, frame, before>>
  BY CallType DEF PagesInv, TypeOK, Progress, EraseBlock
<1>2. \/ pc' = "page" /\ ok' = FALSE /\ failed' = failed
      \/ pc' = "done" /\ ok' = FALSE /\ failed' = TRUE
  BY <1>1 DEF EraseBlock, Fails, Returns
<1>3. \/ flash' = flash /\ pc' = "done"
      \/ flash' = [c \in Bytes |-> IF c \in Unit THEN Erased ELSE flash[c]]
  BY DEF EraseBlock, Fails, Returns
<1>4. TypeOK'
  <2>1. flash' \in [Bytes -> Nat \cup {Erased, Garbled}]
    BY <1>1, <1>3
  <2>2. QED
    BY <1>1, <1>2, <2>1 DEF PagesInv, TypeOK
<1>5. Sending'
  BY <1>2 DEF Sending
<1>6. ASSUME pc' = "page" PROVE Holds(wrote)'
  <2>1. flash' = [c \in Bytes |-> IF c \in Unit THEN Erased ELSE before[c]]
    BY <1>1, <1>2, <1>3, <1>6
  <2>2. \A c \in Bytes : Written(c, 0) = IF c \in Unit THEN Erased ELSE before[c]
    BY DEF Written
  <2>3. flash' = [c \in Bytes |-> Written(c, 0)]
    BY <2>1, <2>2
  <2>4. \A c : Written(c, wrote)' = Written(c, 0)
    BY <1>1, SameCall
  <2>5. QED
    BY <2>3, <2>4 DEF Holds
<1>7. Whole(wrote)'
  <2>1. LeftInPage \in Nat \ {0}
    BY <1>1, CallType, Sizes
  <2>2. 0 % LeftInPage = 0
    BY <2>1
  <2>3. LeftInPage' = LeftInPage
    BY <1>1, SameCall
  <2>4. QED
    BY <1>1, <2>2, <2>3 DEF Whole
<1>8. Progress'
  BY <1>1, <1>2, <1>6, <1>7 DEF PagesInv, Progress
<1>9. OnlyOwnBytes'
  <2>1. Unit' = Unit
    BY <1>1, SameCall
  <2>2. ASSUME NEW c \in Bytes PROVE c \in Unit \/ flash'[c] = before[c]
    BY <1>1, <1>3
  <2>3. QED
    BY <1>1, <2>1, <2>2 DEF OnlyOwnBytes
<1>10. FailsForReason' /\ Fitting'
  BY <1>1, <1>2 DEF FailsForReason, Fitting
<1>11. QED
  BY <1>4, <1>5, <1>8, <1>9, <1>10 DEF PagesInv

\* A piece of the right size does not run over the end of its page.
LEMMA WholePieceFits ==
    ASSUME call \in Writes, wrote \in Nat, wrote < call.size, Whole(wrote),
           PageSize % LeftInPage = 0
    PROVE  ~Overflows
<1>1. /\ call.addr \in Nat /\ LeftInPage \in Nat \ {0} /\ LeftInPage <= PageSize
      /\ wrote % LeftInPage = 0
      /\ pageWriteSize \in Nat /\ pageWriteSize <= LeftInPage
  BY CallType, PieceSize, Sizes DEF Whole
<1> DEFINE l == LeftInPage
           s == call.addr + l
<1>2. s % PageSize = 0
  <2> DEFINE q == call.addr \div PageSize
             t == call.addr % PageSize
  <2>1. q \in Nat /\ t \in 0 .. PageSize - 1 /\ call.addr = PageSize * q + t
    BY <1>1, Sizes, DivMod
  <2>2. s = PageSize * (q + 1) + 0
    <3>1. s = call.addr + (PageSize - t)
      BY DEF LeftInPage
    <3> HIDE DEF q, t, s
    <3>2. PageSize * (q + 1) = PageSize * q + PageSize
      BY <2>1, Sizes
    <3>3. QED
      BY <2>1, <3>1, <3>2, Sizes
  <2> HIDE DEF q, t
  <2>3. q + 1 \in Nat /\ 0 \in 0 .. PageSize - 1
    BY <2>1, Sizes
  <2>4. (PageSize * (q + 1) + 0) % PageSize = 0
    BY <2>3, Sizes, DivModUnique
  <2>5. QED
    BY <2>2, <2>4
<1> HIDE DEF l, s
<1>3. s \in Nat /\ l \in Nat \ {0} /\ PageSize % l = 0 /\ s = call.addr + l
  BY <1>1 DEF s, l
<1>4. s % l = 0
  <2>1. (s % PageSize) % l = s % l
    BY <1>3, Sizes, ModMod
  <2>2. 0 % l = 0
    BY <1>3
  <2>3. QED
    BY <1>2, <2>1, <2>2
<1>5. call.addr % l = 0
  <2>1. s \div l \in Nat /\ s = l * (s \div l)
    BY <1>3, <1>4, Multiple
  <2>2. PICK m \in Nat : s = l * m
    BY <2>1
  <2>3. m >= 1
    BY <1>1, <1>3, <2>2
  <2>4. m - 1 \in Nat /\ call.addr = l * (m - 1) + 0 /\ 0 \in 0 .. l - 1
    BY <1>1, <1>3, <2>2, <2>3
  <2>5. (l * (m - 1) + 0) % l = 0
    BY <1>3, <2>4, DivModUnique
  <2>6. QED
    BY <2>4, <2>5
<1>6. (call.addr + wrote) % l = 0
  <2>1. wrote % l = 0
    BY <1>1 DEF l
  <2>2. QED
    BY <1>1, <1>3, <1>5, <2>1, MultipleAdd
<1>7. ((call.addr + wrote) % PageSize) + l <= PageSize
  <2>1. call.addr + wrote \in Nat
    BY <1>1
  <2>2. QED
    BY <1>3, <1>6, <2>1, Sizes, MultipleFits
<1>8. (call.addr + wrote) % PageSize \in Nat
  <2>1. call.addr + wrote \in Nat
    BY <1>1
  <2>2. (call.addr + wrote) % PageSize \in 0 .. PageSize - 1
    BY <2>1, Sizes, DivMod
  <2>3. QED
    BY <2>2, Sizes
<1>9. QED
  BY <1>1, <1>3, <1>7, <1>8, Sizes DEF Overflows, l

LEMMA BeginKeeps == PagesInv /\ BeginPage => PagesInv'
<1> SUFFICES ASSUME PagesInv, BeginPage PROVE PagesInv'
  OBVIOUS
<1>1. /\ pc = "page" /\ wrote \in Nat /\ wrote < call.size /\ Holds(wrote) /\ Whole(wrote)
      /\ call \in Writes /\ call.size \in Nat /\ ok = FALSE
      /\ UNCHANGED <<call, wrote, flash, before>>
  BY CallType DEF PagesInv, TypeOK, Progress, BeginPage
<1>2. pageWriteSize \in 1 .. PageSize
  BY <1>1, PieceSize
<1>3. /\ pageWriteSize' = pageWriteSize /\ LeftInPage' = LeftInPage /\ Overflows' = Overflows
      /\ Whole(wrote)' /\ OnlyOwnBytes' /\ Holds(wrote)'
  <2>1. /\ pageWriteSize' = pageWriteSize /\ LeftInPage' = LeftInPage /\ Overflows' = Overflows
        /\ Whole(wrote)'
    BY <1>1 DEF pageWriteSize, Cut, LeftInPage, Overflows, Whole
  <2>2. OnlyOwnBytes'
    BY <1>1 DEF PagesInv, OnlyOwnBytes, Unit, Cell
  <2>3. Holds(wrote)'
    BY <1>1, SameCall DEF Holds
  <2>4. QED
    BY <2>1, <2>2, <2>3
<1>4. CASE ~Overflows /\ pc' = "send"
  <2>1. size' = pageWriteSize + CmdSize /\ frame' = <<>> /\ ok' = FALSE /\ failed' = failed
    BY <1>1, <1>4 DEF BeginPage, Returns, Fails
  <2>2. frame' \in Seq(0 .. FlashSize) /\ Len(frame') = 0 /\ frame' = Part(wrote, 0)
    BY <2>1 DEF Part
  <2>3. size' \in 1 - WriteMax .. PageSize + CmdSize /\ size' > 0
    BY <1>2, <2>1, Sizes
  <2>4. TypeOK'
    <3>1. Len(frame') <= PageSize
      BY <2>2, Sizes
    <3>2. QED
      BY <1>1, <1>4, <2>1, <2>2, <2>3, <3>1 DEF PagesInv, TypeOK
  <2>5. Sending'
    BY <1>1, <1>3, <1>4, <2>1, <2>2, <2>3 DEF Sending
  <2>6. Progress'
    BY <1>1, <1>3, <1>4, <2>1 DEF PagesInv, Progress
  <2>7. FailsForReason' /\ Fitting'
    BY <1>1, <1>4, SameCrossing DEF PagesInv, FailsForReason, Fitting
  <2>8. QED
    BY <1>3, <2>4, <2>5, <2>6, <2>7 DEF PagesInv
<1>5. CASE pc' # "send"
  <2>1. /\ pc' = "done" /\ ok' = FALSE /\ size' = size /\ frame' = frame
        /\ failed' = failed \/ failed' = TRUE
        /\ failed' = TRUE \/ Overflows
    BY <1>5 DEF BeginPage, Returns, Fails
  <2>2. TypeOK'
    BY <1>1, <2>1 DEF PagesInv, TypeOK
  <2>3. Sending' /\ Progress' /\ Fitting'
    BY <1>1, <2>1 DEF PagesInv, Sending, Progress, Fitting
  <2>4. FailsForReason'
    <3>1. ASSUME ~failed' PROVE CrossesAt(wrote) /\ wrote \in 0 .. call.size - 1
      BY <1>1, <2>1, <3>1, Crossing
    <3>2. ASSUME ~failed' PROVE PageSize % LeftInPage # 0
      BY <1>1, <2>1, <3>2, WholePieceFits
    <3>3. ~failed' => \E n \in 0 .. call'.size - 1 : CrossesAt(n)'
      BY <1>1, <3>1, SameCrossing
    <3>4. LeftInPage = PieceLength'
      BY <1>1 DEF LeftInPage, PieceLength
    <3>5. QED
      BY <2>1, <3>2, <3>3, <3>4 DEF FailsForReason
  <2>5. QED
    BY <1>3, <2>2, <2>3, <2>4 DEF PagesInv
<1>6. QED
  BY <1>4, <1>5 DEF BeginPage, Returns, Fails

LEMMA AllWrittenKeeps == PagesInv /\ AllWritten => PagesInv'
<1> SUFFICES ASSUME PagesInv, AllWritten PROVE PagesInv'
  OBVIOUS
<1>1. /\ pc = "page" /\ wrote = call.size /\ Holds(wrote) /\ call \in Writes
      /\ UNCHANGED <<call, wrote, size, flash, frame, before, failed>>
      /\ pc' = "done" /\ ok' = TRUE
  <2>1. /\ pc = "page" /\ Holds(wrote) /\ call \in Writes
        /\ wrote \in 0 .. call.size /\ wrote >= call.size
        /\ UNCHANGED <<call, wrote, size, flash, frame, before, failed>>
        /\ pc' = "done" /\ ok' = (wrote = call.size)
    BY DEF PagesInv, TypeOK, Progress, AllWritten, Returns
  <2>2. call.size \in Nat
    BY <2>1, CallType
  <2>3. wrote = call.size
    BY <2>1, <2>2
  <2>4. QED
    BY <2>1, <2>3
<1>2. TypeOK'
  BY <1>1 DEF PagesInv, TypeOK
<1>3. Holds(call.size)'
  BY <1>1, SameCall DEF Holds
<1>4. Sending' /\ Progress' /\ Fitting'
  BY <1>1, <1>3 DEF PagesInv, Sending, Progress, Fitting
<1>5. FailsForReason'
  <2>1. \A n \in 0 .. call'.size - 1 : ~CrossesAt(n)'
    BY <1>1, SameCrossing DEF PagesInv, Fitting
  <2>2. QED
    BY <1>1, <2>1 DEF FailsForReason
<1>6. OnlyOwnBytes'
  BY <1>1 DEF PagesInv, OnlyOwnBytes, Unit, Cell
<1>7. QED
  BY <1>2, <1>4, <1>5, <1>6 DEF PagesInv

\* Programming a part of the piece changes own bytes only.
LEMMA ProgramOwn ==
    ASSUME PagesInv, pc = "send", NEW n \in 0 .. pageWriteSize,
           flash' \in {flash, ProgramFrame(Part(wrote, n))}, UNCHANGED <<call, before>>
    PROVE  flash' \in [Bytes -> Nat \cup {Erased, Garbled}] /\ OnlyOwnBytes'
<1>1. /\ call \in Writes /\ wrote \in Nat /\ wrote < call.size /\ ~Overflows
      /\ flash \in [Bytes -> Values] /\ call.size \in Nat
  BY CallType DEF PagesInv, TypeOK, Sending, Values
<1>2. CASE flash' = flash
  BY <1>1, <1>2 DEF PagesInv, OnlyOwnBytes, Unit, Cell, Values
<1>3. CASE flash' = ProgramFrame(Part(wrote, n))
  <2>1. /\ flash' \in [Bytes -> Values]
        /\ \A c \in Bytes : (\A k \in wrote .. wrote + n - 1 : Cell(k) # c) => flash'[c] = flash[c]
    BY <1>1, <1>3, ProgramPart
  <2>2. \A k \in wrote .. wrote + n - 1 : k \in 0 .. call.size - 1
    BY <1>1, PieceSize
  <2>3. ASSUME NEW c \in Bytes
        PROVE  c \in Unit \/ (\E k \in 0 .. call.size - 1 : Cell(k) = c) \/ flash'[c] = before[c]
    <3>1. c \in Unit \/ (\E k \in 0 .. call.size - 1 : Cell(k) = c) \/ flash[c] = before[c]
      BY DEF PagesInv, OnlyOwnBytes
    <3>2. QED
      BY <2>1, <2>2, <3>1
  <2>4. Unit' = Unit /\ \A k : Cell(k)' = Cell(k)
    BY <1>1, SameCall
  <2>5. OnlyOwnBytes'
    BY <2>3, <2>4 DEF OnlyOwnBytes
  <2>6. QED
    BY <2>1, <2>5 DEF Values
<1>4. QED
  BY <1>2, <1>3

LEMMA PartType ==
    ASSUME call \in Writes, wrote \in Nat, wrote < call.size, NEW n \in 0 .. pageWriteSize
    PROVE  /\ Part(wrote, n) \in Seq(0 .. FlashSize) /\ Len(Part(wrote, n)) = n
           /\ n \in Nat /\ n <= PageSize
<1>1. /\ n \in Nat /\ n <= PageSize /\ wrote + n <= call.size /\ call.size \in 0 .. FlashSize
  BY PieceSize, CallType, Sizes
<1>2. ASSUME NEW k \in 1 .. n PROVE wrote + k - 1 \in 0 .. FlashSize
  BY <1>1, Sizes
<1>3. QED
  BY <1>1, <1>2 DEF Part

LEMMA SendKeeps == PagesInv /\ SendReport => PagesInv'
<1> SUFFICES ASSUME PagesInv, SendReport PROVE PagesInv'
  OBVIOUS
<1>1. /\ pc = "send" /\ size > 0 /\ wrote \in Nat /\ wrote < call.size /\ Holds(wrote)
      /\ call \in Writes /\ ~Overflows /\ Whole(wrote) /\ flash \in [Bytes -> Values]
      /\ Len(frame) \in Nat /\ size \in Int /\ wrote \in 0 .. call.size /\ size <= PageSize + CmdSize
      /\ UNCHANGED <<pc, call, wrote, ok, before, failed>> /\ ok = FALSE
  BY CallType, Sizes DEF PagesInv, TypeOK, Sending, Progress, SendReport, Values
<1>2. pageWriteSize \in 1 .. PageSize
  BY <1>1, PieceSize
<1>3. PICK n \in Nat :
        /\ frame \o InReport = Part(wrote, Len(frame) + n)
        /\ Len(frame) + n <= pageWriteSize
        /\ size > 0 =>
             IF size > WriteMax
             THEN size - WriteMax \in 1 .. pageWriteSize
                  /\ Len(frame) + n + (size - WriteMax) = pageWriteSize
             ELSE Len(frame) + n = pageWriteSize
  BY <1>1, NextReport DEF PagesInv
<1>4. PICK m \in 0 .. pageWriteSize : m = Len(frame) + n
  BY <1>1, <1>2, <1>3
<1>5. /\ frame' = Part(wrote, m) /\ size' = size - WriteMax
      /\ flash' = IF size > WriteMax THEN flash ELSE ProgramFrame(Part(wrote, m))
  BY <1>3, <1>4 DEF SendReport, holdCS
<1>6. frame' \in Seq(0 .. FlashSize) /\ Len(frame') = m /\ m <= PageSize /\ m \in Nat
  BY <1>1, <1>5, PartType
<1>7. flash' \in [Bytes -> Nat \cup {Erased, Garbled}] /\ OnlyOwnBytes'
  <2>1. flash' \in {flash, ProgramFrame(Part(wrote, m))} /\ UNCHANGED <<call, before>>
    BY <1>1, <1>5
  <2>2. QED
    BY <1>1, <2>1, ProgramOwn
<1>8. TypeOK'
  <2>1. size' \in 1 - WriteMax .. PageSize + CmdSize
    BY <1>1, <1>5, Sizes
  <2>2. QED
    BY <1>1, <1>6, <1>7, <2>1 DEF PagesInv, TypeOK
<1>9. /\ pageWriteSize' = pageWriteSize /\ Overflows' = Overflows /\ Whole(wrote)'
  BY <1>1 DEF pageWriteSize, Cut, LeftInPage, Overflows, Whole
<1>10. Sending'
  <2>1. CASE size > WriteMax
    <3>1. size' \in 1 .. pageWriteSize /\ Len(frame') + size' = pageWriteSize
      BY <1>1, <1>3, <1>4, <1>5, <1>6, <2>1
    <3>2. Holds(wrote)' /\ size' > 0
      BY <1>1, <1>2, <1>5, <2>1, <3>1, SameCall DEF Holds
    <3>3. QED
      BY <1>1, <1>5, <1>6, <1>9, <3>1, <3>2 DEF Sending
  <2>2. CASE ~(size > WriteMax)
    <3>1. size' <= 0 /\ m = pageWriteSize /\ ~(size' > 0)
      BY <1>1, <1>3, <1>4, <1>5, <2>2, Sizes
    <3>2. flash' = [c \in Bytes |-> Written(c, wrote + pageWriteSize)]
      BY <1>1, <1>5, <2>2, <3>1, PieceJoins
    <3>3. Holds(wrote + pageWriteSize)'
      BY <1>1, <1>9, <3>2, SameCall DEF Holds
    <3>4. QED
      BY <1>1, <1>5, <1>6, <1>9, <3>1, <3>3 DEF Sending
  <2>3. QED
    BY <2>1, <2>2
<1>11. Progress' /\ FailsForReason' /\ Fitting'
  BY <1>1, <1>9, SameCrossing DEF PagesInv, Progress, FailsForReason, Fitting
<1>12. QED
  BY <1>7, <1>8, <1>10, <1>11 DEF PagesInv

LEMMA PageSentKeeps == PagesInv /\ PageSent => PagesInv'
<1> SUFFICES ASSUME PagesInv, PageSent PROVE PagesInv'
  OBVIOUS
<1>1. /\ pc = "send" /\ ~(size > 0) /\ wrote \in Nat /\ wrote < call.size
      /\ Holds(wrote + pageWriteSize) /\ Whole(wrote) /\ call \in Writes /\ ok = FALSE
      /\ pc' = "page" /\ wrote' = wrote + pageWriteSize
      /\ UNCHANGED <<call, size, flash, frame, ok, before, failed>>
  <2>1. size \in Int
    BY Sizes DEF PagesInv, TypeOK
  <2>2. QED
    BY <2>1, CallType DEF PagesInv, TypeOK, Sending, Progress, PageSent
<1>2. /\ pageWriteSize \in 1 .. PageSize /\ wrote' <= call.size /\ call.size \in Nat
      /\ pageWriteSize = LeftInPage \/ wrote' = call.size
      /\ LeftInPage \in Nat \ {0}
  BY <1>1, PieceSize, CallType, Sizes
<1>3. TypeOK'
  BY <1>1, <1>2 DEF PagesInv, TypeOK
<1>4. Holds(wrote)'
  BY <1>1, SameCall DEF Holds
<1>5. Whole(wrote)'
  <2>1. CASE wrote' = call.size
    BY <1>1, <2>1 DEF Whole
  <2>2. CASE pageWriteSize = LeftInPage
    <3>1. PICK l \in Nat \ {0} : l = LeftInPage
      BY <1>2
    <3>2. wrote % l = 0
      BY <1>1, <3>1 DEF Whole
    <3>3. l % l = 0
      <4>1. l = l * 1 + 0 /\ 1 \in Nat /\ 0 \in 0 .. l - 1
        OBVIOUS
      <4>2. (l * 1 + 0) % l = 0
        BY <4>1, DivModUnique
      <4>3. QED
        BY <4>1, <4>2
    <3>4. (wrote + l) % l = 0
      BY <1>1, <3>2, <3>3, MultipleAdd
    <3>5. wrote' = wrote + l /\ LeftInPage' = l
      BY <1>1, <2>2, <3>1, SameCall
    <3>6. QED
      BY <3>4, <3>5 DEF Whole
  <2>3. QED
    BY <1>2, <2>1, <2>2
<1>6. Sending' /\ Progress' /\ FailsForReason'
  BY <1>1, <1>4, <1>5 DEF PagesInv, Sending, Progress, FailsForReason
<1>7. Fitting'
  <2>1. pageWriteSize <= LeftInPage
    BY <1>1, PieceSize
  <2>2. ~Overflows /\ \A n \in 0 .. wrote - 1 : ~CrossesAt(n)
    BY <1>1 DEF PagesInv, Sending, Fitting
  <2>3. ASSUME NEW n \in 0 .. wrote' - 1 PROVE ~CrossesAt(n)
    <3>1. CASE n < wrote
      BY <1>1, <2>2, <3>1
    <3>2. CASE n = wrote
      BY <1>1, <2>2, <3>2, Crossing
    <3>3. CASE n > wrote
      <4>1. n \in Nat /\ n < wrote + LeftInPage
        BY <1>1, <1>2, <2>1
      <4>2. QED
        BY <1>1, <3>3, <4>1, NoneBetween
    <3>4. QED
      BY <1>1, <1>2, <3>1, <3>2, <3>3
  <2>4. QED
    BY <1>1, <2>3, SameCrossing DEF Fitting
<1>8. OnlyOwnBytes'
  BY <1>1 DEF PagesInv, OnlyOwnBytes, Unit, Cell
<1>9. QED
  BY <1>3, <1>6, <1>7, <1>8 DEF PagesInv

LEMMA SendFailsKeeps == PagesInv /\ SendFails => PagesInv'
<1> SUFFICES ASSUME PagesInv, SendFails PROVE PagesInv'
  OBVIOUS
<1>1. /\ pc = "send" /\ wrote \in Nat /\ wrote < call.size /\ call \in Writes
      /\ frame = Part(wrote, Len(frame)) /\ Len(frame) \in Nat
      /\ pc' = "done" /\ ok' = FALSE /\ failed' = TRUE
      /\ flash' \in {flash, ProgramFrame(frame), ProgramFrame(frame \o InReport)}
      /\ UNCHANGED <<call, wrote, size, frame, before>>
  BY CallType DEF PagesInv, TypeOK, Sending, SendFails, Fails, Returns
<1>2. pageWriteSize \in 1 .. PageSize
  BY <1>1, PieceSize
<1>3. PICK n \in Nat : /\ frame \o InReport = Part(wrote, Len(frame) + n)
                       /\ Len(frame) + n <= pageWriteSize
  BY <1>1, NextReport DEF PagesInv
<1>4. \E m \in 0 .. pageWriteSize : flash' \in {flash, ProgramFrame(Part(wrote, m))}
  <2>1. Len(frame) \in 0 .. pageWriteSize /\ Len(frame) + n \in 0 .. pageWriteSize
    BY <1>1, <1>2, <1>3
  <2>2. flash' \in {flash, ProgramFrame(Part(wrote, Len(frame))),
                    ProgramFrame(Part(wrote, Len(frame) + n))}
    BY <1>1, <1>3
  <2>3. QED
    BY <2>1, <2>2
<1>5. flash' \in [Bytes -> Nat \cup {Erased, Garbled}] /\ OnlyOwnBytes'
  BY <1>1, <1>4, ProgramOwn
<1>6. TypeOK'
  BY <1>1, <1>5 DEF PagesInv, TypeOK
<1>7. Sending' /\ Progress' /\ FailsForReason' /\ Fitting'
  BY <1>1 DEF PagesInv, Sending, Progress, FailsForReason, Fitting
<1>8. QED
  BY <1>5, <1>6, <1>7 DEF PagesInv

LEMMA PagesNext == PagesInv /\ [Next]_vars => PagesInv'
<1> SUFFICES ASSUME PagesInv, [Next]_vars PROVE PagesInv'
  OBVIOUS
<1>1. CASE UNCHANGED vars
  BY <1>1 DEF vars, PagesInv, TypeOK, Sending, Progress, OnlyOwnBytes, FailsForReason,
              Holds, Whole, Written, Unit, Cell, Programmed, Overflows, pageWriteSize,
              Cut, LeftInPage, Fitting, CrossesAt, PieceLength
<1>2. QED
  BY <1>1, EraseKeeps, BeginKeeps, AllWrittenKeeps, SendKeeps, PageSentKeeps,
     SendFailsKeeps DEF Next

-----------------------------------------------------------------------------
\* The lengths and numbers of a call stay in their bounds for every size of
\* pages, reports and flash: a frame never has more than a page.
THEOREM TypeCorrect == Spec => []TypeOK
<1>1. PagesInv => TypeOK
  BY DEF PagesInv
<1>2. QED
  BY <1>1, PagesInit, PagesNext, PTL DEF Spec

\* spi_writeFlash returns true only when each byte of the file has been
\* programmed once, at its own address.
THEOREM WritesTheFile == Spec => []FileWritten
<1>1. PagesInv => FileWritten
  BY DEF PagesInv, Progress, Holds, FileWritten
<1>2. QED
  BY <1>1, PagesInit, PagesNext, PTL DEF Spec

\* Whenever it stops, bytes that are neither erased nor the file's are as before.
THEOREM OthersKept == Spec => []OnlyOwnBytes
<1>1. PagesInv => OnlyOwnBytes
  BY DEF PagesInv
<1>2. QED
  BY <1>1, PagesInit, PagesNext, PTL DEF Spec

\* At every address, a call whose reports all pass succeeds exactly when none
\* of its pieces, all reckoned from the first address, runs over the end of its
\* page; "Page write overflow." is for the others.
THEOREM FailureHasReason == Spec => []FailsForReason
<1>1. PagesInv => FailsForReason
  BY DEF PagesInv
<1>2. QED
  BY <1>1, PagesInit, PagesNext, PTL DEF Spec
=============================================================================
