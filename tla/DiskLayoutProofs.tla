--------------------------- MODULE DiskLayoutProofs ---------------------------
(***************************************************************************)
(* An image is that of one whole side, and a side comes back from its      *)
(* image: for every side, every size of the blocks and gaps, and whatever  *)
(* is in the memory behind the buffers.                                    *)
(***************************************************************************)
EXTENDS DiskLayout, FiniteSetTheorems, WellFoundedInduction, TLAPS

ThisSide == game[side]

\* Where the program is in the .fds file; while it converts, nothing is decoded.
Position ==
    /\ pc \in {"side", "files", "written"} => game \in Games /\ raw = <<>>
    /\ pc \in {"side", "files"} => side \in 1 .. Len(game)
    /\ game \in Games \cup {<<>>}

\* the image of the first n blocks, in the buffer
IsImage(b, s, n) ==
    /\ b \in [0 .. DiskSize - 1 -> Bytes]
    /\ \A k \in 0 .. DiskSize - 1 : b[k] = ImageByte(s, n, k)

\* The image so far is that of the blocks so far.
Laying ==
    pc = "files" =>
        /\ laid \in 0 .. Len(ThisSide.files)
        /\ o = ImagePlace(ThisSide, 3 + 2 * laid)
        /\ IsImage(bin, ThisSide, 2 + 2 * laid)

\* the size of an image with its last gap
ImageSize(s) == ImagePlace(s, Blocks(s) + 1)

\* The output is one image.
Output ==
    \/ file = Nothing
    \/ /\ file.side \in Sides
       /\ file.kind \in {"bin", "raw"}
       /\ DOMAIN file.bytes = 0 .. (IF file.kind = "bin" THEN ImageSize(file.side) ELSE SlotSize) - 1
       /\ \A k \in DOMAIN file.bytes :
            file.bytes[k] = ImageByte(file.side, Blocks(file.side), k)

LaidInv ==
    /\ pc \in {"idle", "side", "files", "written", "decode"}
    /\ command \in {"-c", "-C", "-F"}
    /\ side \in 1 .. Len(game) + 1
    /\ bin \in [0 .. DiskSize - 1 -> Bytes]
    /\ o \in 0 .. DiskSize + Gap /\ laid \in Nat
    /\ exit \in {"Ok.", "Failed."}
    /\ Position /\ Laying /\ Output

\* What is decoded: the image, as much of it as fits into a slot, then memory,
\* then pulses that are none.
RawIs(r, s, size) ==
    /\ r \in [0 .. size - 1 -> Bytes]
    /\ \A k \in 0 .. size - 1 :
        IF k >= SlotSize THEN r[k] = Undefined
        ELSE IF k >= ImageSize(s) THEN r[k] \in {Zero, Other}
        ELSE r[k] = ImageByte(s, Blocks(s), k)

Reading ==
    raw # <<>> =>
        /\ file # Nothing /\ file.kind = "bin"
        /\ \E size \in SlotSize .. SlotSize + MaxFill : RawIs(raw, file.side, size)

\* Block b of a side is in its place.
InPlace(s, b) == \A k \in 0 .. Size(s, b) - 1 : fds[PlaceOf(s, b) + k] = <<b, k>>

\* Every block so far has come back, and the next one is where the decoder is.
OnTrack ==
    /\ got \in 0 .. Blocks(file.side)
    /\ out = PlaceOf(file.side, got + 1)
    /\ in = IF got = 0 THEN LeadIn - MinGap ELSE ImagePlace(file.side, got + 1) - Gap
    /\ \A b \in 1 .. got : b \in Readable(file.side) /\ InPlace(file.side, b)

\* Behind the last block that can come back nothing but memory is decoded.
OffTrack ==
    /\ got > 2
    /\ {1, 2} \subseteq Readable(file.side)
    /\ \A b \in Readable(file.side) :
        InPlace(file.side, b) /\ PlaceOf(file.side, b + 1) <= out
    /\ \/ in >= SlotSize
       \/ /\ in >= ImageSize(file.side)
          /\ got % 2 = 1 => fds[out - FileSize + 1] \in {Zero, Other}

Decoding == pc = "decode" => raw # <<>> /\ (OnTrack \/ OffTrack)

\* a .fds side, and what else was set behind it
IsFds(f) ==
    /\ 0 .. FdsSize - 1 \subseteq DOMAIN f /\ DOMAIN f \subseteq 0 .. FdsSize + 2
    /\ f \in [DOMAIN f -> Bytes]

DecodeInv ==
    /\ in \in 0 .. Cardinality(DOMAIN raw)
    /\ out \in 0 .. FdsSize /\ got \in Nat
    /\ IsFds(fds)
    /\ Reading /\ Decoding /\ SideComesBack

-----------------------------------------------------------------------------
(* numbers and sets of them *)

LEMMA Least ==
    ASSUME NEW S \in SUBSET Nat, S # {}
    PROVE  \E m \in S : \A k \in S : m <= k
<1> DEFINE R == {ss \in Nat \X Nat : ss[1] < ss[2]}
<1>1. IsWellFoundedOn(R, Nat)
  BY NatLessThanWellFounded DEF OpToRel
<1> HIDE DEF R
<1>2. PICK m \in S : \A k \in S : ~(<<k, m>> \in R)
  BY <1>1, WFMin
<1>3. \A k \in S : ~(k < m)
  BY <1>2 DEF R
<1>4. QED
  BY <1>3

LEMMA Induct ==
    ASSUME NEW S, 0 \in S, \A n \in Nat : n \in S => n + 1 \in S
    PROVE  Nat \subseteq S
<1> SUFFICES ASSUME Nat \ S # {} PROVE FALSE
  OBVIOUS
<1>1. PICK m \in Nat \ S : \A k \in Nat \ S : m <= k
  BY Least
<1>2. m - 1 \in Nat \ S
  BY <1>1
<1>3. QED
  BY <1>1, <1>2

LEMMA ProductNat ==
    ASSUME NEW m \in Nat, NEW n \in Nat
    PROVE  m * n \in Nat
OBVIOUS

LEMMA MinOf ==
    ASSUME NEW S \in SUBSET Nat, NEW m \in S, \A k \in S : m <= k
    PROVE  Min(S) = m
<1>1. \E x \in S : \A y \in S : x =< y
  OBVIOUS
<1>2. Min(S) \in S /\ \A y \in S : Min(S) =< y
  BY <1>1 DEF Min
<1>3. m \in Nat /\ Min(S) \in Nat
  BY <1>2
<1>4. m <= Min(S) /\ Min(S) <= m
  BY <1>2
<1>5. QED
  BY <1>3, <1>4

LEMMA MinIn ==
    ASSUME NEW S \in SUBSET Nat, S # {}
    PROVE  Min(S) \in S /\ \A k \in S : Min(S) <= k
<1>1. \E m \in S : \A k \in S : m <= k
  BY Least
<1>2. QED
  BY <1>1 DEF Min

-----------------------------------------------------------------------------
(* sides, and the places of their blocks *)

LEMMA Lengths ==
    /\ HeadSize \in Nat \ {0} /\ InfoSize \in Nat \ {0} /\ FileSize \in Nat /\ FileSize >= 2
    /\ MinGap \in Nat \ {0} /\ Gap \in Nat /\ MinGap <= Gap
    /\ LeadIn \in Nat /\ MinGap <= LeadIn
    /\ DiskSize \in Nat /\ SlotSize \in Nat /\ SlotSize <= DiskSize
    /\ SearchSize \in Nat /\ LeadIn < SearchSize
    /\ FdsSize \in Nat /\ MaxFill \in Nat
    /\ LeadIn + HeadSize + 3 + Gap + InfoSize + 3 <= SlotSize
BY LayoutAssumption

LEMMA GameType ==
    ASSUME NEW g \in Games
    PROVE  Len(g) \in Nat \ {0} /\ \A k \in 1 .. Len(g) : g[k] \in Sides
BY LayoutAssumption

LEMMA SideType ==
    ASSUME NEW s \in Sides
    PROVE  /\ Len(s.files) \in Nat /\ Blocks(s) \in Nat /\ Blocks(s) >= 2
           /\ \A b \in 1 .. Blocks(s) : Size(s, b) \in Nat \ {0}
           /\ Size(s, 1) = HeadSize /\ Size(s, 2) = InfoSize
           /\ \A i \in 1 .. Len(s.files) :
                /\ 2 + 2 * i \in 1 .. Blocks(s)
                /\ Size(s, 1 + 2 * i) = FileSize
                /\ Size(s, 2 + 2 * i) = s.files[i].size
<1>1. /\ s.files \in Seq([size : Nat \ {0}, type : Nat])
      /\ Len(s.files) \in Nat /\ Blocks(s) \in Nat /\ Blocks(s) >= 2
  BY DEF Sides, Blocks
<1>2. ASSUME NEW i \in 1 .. Len(s.files)
      PROVE  /\ 2 + 2 * i \in 1 .. Blocks(s) /\ (2 + 2 * i) % 2 = 0
             /\ ((2 + 2 * i) - 1) \div 2 = i
             /\ (1 + 2 * i) % 2 = 1
  BY <1>1 DEF Blocks
<1>3. ASSUME NEW i \in 1 .. Len(s.files)
      PROVE  Size(s, 1 + 2 * i) = FileSize
  <2>1. 1 + 2 * i > 2 /\ (1 + 2 * i) % 2 = 1 /\ 1 + 2 * i # 1 /\ 1 + 2 * i # 2
    BY <1>1, <1>2
  <2>2. QED
    BY <2>1 DEF Size
<1>4. ASSUME NEW i \in 1 .. Len(s.files)
      PROVE  Size(s, 2 + 2 * i) = s.files[i].size /\ s.files[i].size \in Nat \ {0}
  <2>1. 2 + 2 * i > 2 /\ (2 + 2 * i) % 2 # 1
    BY <1>1, <1>2
  <2>2. Size(s, 2 + 2 * i) = FileOf(s, 2 + 2 * i).size
    BY <2>1 DEF Size
  <2>3. s.files[i] \in [size : Nat \ {0}, type : Nat]
    <3> DEFINE R == [size : Nat \ {0}, type : Nat]
    <3>1. s.files \in Seq(R)
      BY <1>1
    <3> HIDE DEF R
    <3>2. s.files[i] \in R
      BY <3>1
    <3>3. QED
      BY <3>2 DEF R
  <2>4. QED
    BY <1>2, <2>2, <2>3 DEF FileOf
<1>5. Size(s, 1) = HeadSize /\ Size(s, 2) = InfoSize
  BY DEF Size
<1>6. ASSUME NEW b \in 1 .. Blocks(s) PROVE Size(s, b) \in Nat \ {0}
  <2>1. CASE b <= 2
    BY <1>5, <2>1, Lengths
  <2>2. CASE b > 2 /\ b % 2 = 1
    BY <2>2, Lengths DEF Size
  <2>3. CASE b > 2 /\ b % 2 = 0
    <3> DEFINE j == (b - 2) \div 2
    <3>1. b = 2 + 2 * j /\ j \in Nat
      BY <1>1, <2>3
    <3> HIDE DEF j
    <3>2. j \in 1 .. Len(s.files)
      BY <1>1, <2>3, <3>1 DEF Blocks
    <3>3. QED
      BY <1>4, <3>1, <3>2
  <2>4. b % 2 = 0 \/ b % 2 = 1
    OBVIOUS
  <2>5. QED
    BY <2>1, <2>2, <2>3, <2>4
<1>7. QED
  BY <1>1, <1>2, <1>3, <1>4, <1>5, <1>6

\* The function of the first n + 1 blocks that PlaceOf looks up.
Places(s, n, f) == f = [c \in 1 .. n + 1 |-> IF c = 1 THEN 0 ELSE f[c - 1] + Size(s, c - 1)]

LEMMA PlacesExist ==
    ASSUME NEW s, NEW m \in Nat
    PROVE  \E f : Places(s, m, f)
<1> DEFINE S == {n \in Nat : \E f : Places(s, n, f)}
<1>1. 0 \in S
  <2>1. Places(s, 0, [c \in 1 .. 1 |-> 0])
    BY DEF Places
  <2>2. QED
    BY <2>1
<1>2. ASSUME NEW n \in Nat, n \in S PROVE n + 1 \in S
  <2>1. PICK f : Places(s, n, f)
    BY <1>2
  <2> DEFINE g == [c \in 1 .. (n + 1) + 1 |-> IF c = 1 THEN 0 ELSE f[c - 1] + Size(s, c - 1)]
  <2>2. ASSUME NEW c \in 1 .. n + 1 PROVE g[c] = f[c]
    BY <2>1 DEF Places
  <2>3. ASSUME NEW c \in 1 .. (n + 1) + 1, c # 1 PROVE f[c - 1] = g[c - 1]
    <3>1. c - 1 \in 1 .. n + 1
      BY <2>3
    <3>2. QED
      BY <2>2, <3>1
  <2>4. Places(s, n + 1, g)
    BY <2>3 DEF Places
  <2>5. QED
    BY <2>4
<1>3. Nat \subseteq S
  <2> HIDE DEF S
  <2>1. QED
    BY <1>1, <1>2, Induct
<1>4. QED
  BY <1>3

LEMMA PlaceNext ==
    ASSUME NEW s \in Sides
    PROVE  /\ PlaceOf(s, 1) = 0
           /\ \A b \in 1 .. Blocks(s) : PlaceOf(s, b + 1) = PlaceOf(s, b) + Size(s, b)
<1> DEFINE f == CHOOSE g : Places(s, Blocks(s), g)
<1>1. Blocks(s) \in Nat
  BY SideType
<1>2. Places(s, Blocks(s), f)
  BY <1>1, PlacesExist
<1>3. \A b : PlaceOf(s, b) = f[b]
  BY DEF PlaceOf, Places
<1> HIDE DEF f
<1>4. f[1] = 0 /\ \A b \in 1 .. Blocks(s) : f[b + 1] = f[b] + Size(s, b)
  BY <1>1, <1>2 DEF Places
<1>5. QED
  BY <1>3, <1>4

LEMMA PlaceType ==
    ASSUME NEW s \in Sides
    PROVE  \A b \in 1 .. Blocks(s) + 1 : PlaceOf(s, b) \in Nat
<1> DEFINE S == {n \in Nat : n <= Blocks(s) => PlaceOf(s, n + 1) \in Nat}
<1>1. 0 \in S
  BY PlaceNext
<1>2. ASSUME NEW n \in Nat, n \in S PROVE n + 1 \in S
  <2> SUFFICES ASSUME n + 1 <= Blocks(s) PROVE PlaceOf(s, (n + 1) + 1) \in Nat
    OBVIOUS
  <2>1. n + 1 \in 1 .. Blocks(s) /\ PlaceOf(s, n + 1) \in Nat
    BY <1>2, SideType
  <2>2. QED
    BY <2>1, PlaceNext, SideType
<1>3. Nat \subseteq S
  <2> HIDE DEF S
  <2>1. QED
    BY <1>1, <1>2, Induct
<1>4. ASSUME NEW b \in 1 .. Blocks(s) + 1 PROVE PlaceOf(s, b) \in Nat
  <2>1. b - 1 \in Nat /\ b - 1 <= Blocks(s) /\ (b - 1) + 1 = b
    BY SideType
  <2>2. QED
    BY <1>3, <2>1
<1>5. QED
  BY <1>4

LEMMA ImageNext ==
    ASSUME NEW s \in Sides
    PROVE  /\ ImagePlace(s, 1) = LeadIn
           /\ \A b \in 1 .. Blocks(s) + 1 : ImagePlace(s, b) \in Nat /\ ImagePlace(s, b) >= LeadIn
           /\ \A b \in 1 .. Blocks(s) :
                ImagePlace(s, b + 1) = ImagePlace(s, b) + Size(s, b) + 3 + Gap
<1>1. ImagePlace(s, 1) = LeadIn
  BY PlaceNext, Lengths DEF ImagePlace
<1>2. ASSUME NEW b \in 1 .. Blocks(s) + 1
      PROVE  ImagePlace(s, b) \in Nat /\ ImagePlace(s, b) >= LeadIn
  <2>1. (b - 1) * (3 + Gap) \in Nat
    <3>1. b - 1 \in Nat /\ 3 + Gap \in Nat
      BY SideType, Lengths
    <3>2. QED
      BY <3>1, ProductNat
  <2>2. QED
    BY <2>1, PlaceType, Lengths DEF ImagePlace
<1>3. ASSUME NEW b \in 1 .. Blocks(s)
      PROVE  ImagePlace(s, b + 1) = ImagePlace(s, b) + Size(s, b) + 3 + Gap
  <2>1. ((b + 1) - 1) * (3 + Gap) = (b - 1) * (3 + Gap) + 3 + Gap
    BY SideType, Lengths
  <2>2. PlaceOf(s, b + 1) = PlaceOf(s, b) + Size(s, b)
    BY PlaceNext
  <2>3. PlaceOf(s, b) \in Nat /\ Size(s, b) \in Nat /\ (b - 1) * (3 + Gap) \in Nat
    <3>1. b - 1 \in Nat /\ 3 + Gap \in Nat /\ b \in 1 .. Blocks(s) + 1
      BY SideType, Lengths
    <3>2. QED
      BY <3>1, PlaceType, SideType, ProductNat
  <2>4. QED
    BY <2>1, <2>2, <2>3, Lengths DEF ImagePlace
<1>4. QED
  BY <1>1, <1>2, <1>3

\* Blocks follow each other, in an image and in a .fds side.
LEMMA BlockOrder ==
    ASSUME NEW s \in Sides, NEW b \in 1 .. Blocks(s), NEW c \in 1 .. Blocks(s) + 1, b < c
    PROVE  /\ ImagePlace(s, b) + Size(s, b) + 3 + Gap <= ImagePlace(s, c)
           /\ PlaceOf(s, b) + Size(s, b) <= PlaceOf(s, c)
<1> DEFINE P(m) == /\ ImagePlace(s, b) + Size(s, b) + 3 + Gap <= ImagePlace(s, m)
                   /\ PlaceOf(s, b) + Size(s, b) <= PlaceOf(s, m)
           S == {n \in Nat : b + 1 + n <= Blocks(s) + 1 => P(b + 1 + n)}
<1>1. 0 \in S
  <2>1. b + 1 + 0 = b + 1
    OBVIOUS
  <2>2. ImagePlace(s, b + 1) = ImagePlace(s, b) + Size(s, b) + 3 + Gap
    BY ImageNext
  <2>3. PlaceOf(s, b + 1) = PlaceOf(s, b) + Size(s, b)
    BY PlaceNext
  <2>4. b \in 1 .. Blocks(s) + 1 /\ Size(s, b) \in Nat /\ Gap \in Nat
    BY SideType, Lengths
  <2>5. ImagePlace(s, b) \in Nat /\ PlaceOf(s, b) \in Nat
    BY <2>4, ImageNext, PlaceType
  <2>6. QED
    BY <2>1, <2>2, <2>3, <2>4, <2>5
<1>2. ASSUME NEW n \in Nat, n \in S PROVE n + 1 \in S
  <2> SUFFICES ASSUME b + 1 + (n + 1) <= Blocks(s) + 1 PROVE P(b + 1 + (n + 1))
    OBVIOUS
  <2> DEFINE d == b + 1 + n
  <2>1. d \in 1 .. Blocks(s) /\ d \in 1 .. Blocks(s) + 1 /\ b + 1 + (n + 1) = d + 1
    BY SideType
  <2>2. P(d)
    BY <1>2, <2>1, SideType
  <2> HIDE DEF d
  <2>3. /\ ImagePlace(s, d + 1) = ImagePlace(s, d) + Size(s, d) + 3 + Gap
        /\ PlaceOf(s, d + 1) = PlaceOf(s, d) + Size(s, d)
    BY <2>1, ImageNext, PlaceNext
  <2>4. /\ ImagePlace(s, d) \in Nat /\ PlaceOf(s, d) \in Nat /\ Size(s, d) \in Nat /\ Gap \in Nat
    BY <2>1, ImageNext, PlaceType, SideType, Lengths
  <2>5. /\ ImagePlace(s, b) \in Nat /\ PlaceOf(s, b) \in Nat /\ Size(s, b) \in Nat
    <3>1. b \in 1 .. Blocks(s) + 1
      BY SideType
    <3>2. QED
      BY <3>1, ImageNext, PlaceType, SideType
  <2>6. QED
    BY <2>1, <2>2, <2>3, <2>4, <2>5
<1>3. Nat \subseteq S
  <2> HIDE DEF S
  <2>1. QED
    BY <1>1, <1>2, Induct
<1>4. c - b - 1 \in Nat /\ b + 1 + (c - b - 1) = c /\ c <= Blocks(s) + 1
  BY SideType
<1>5. QED
  BY <1>3, <1>4

-----------------------------------------------------------------------------
(* images *)

\* where a block, its gap end and its CRC are, and what is there
Span(s, b) == ImagePlace(s, b) .. ImagePlace(s, b) + Size(s, b) + 2
ByteIn(s, b, k) ==
    IF k = ImagePlace(s, b) THEN Mark
    ELSE IF k - ImagePlace(s, b) \in 1 .. Size(s, b) THEN <<b, k - ImagePlace(s, b) - 1>>
    ELSE Crc
Blank(k) == IF k < DiskSize THEN Zero ELSE Other

\* A block's place in an image and its size are numbers.
LEMMA SpanType ==
    ASSUME NEW s \in Sides, NEW b \in 1 .. Blocks(s)
    PROVE  ImagePlace(s, b) \in Nat /\ Size(s, b) \in Nat \ {0} /\ b \in Nat
<1>1. b \in 1 .. Blocks(s) + 1 /\ b \in Nat
  BY SideType
<1>2. QED
  BY <1>1, ImageNext, SideType

\* No byte is in two blocks.
LEMMA OneBlock ==
    ASSUME NEW s \in Sides, NEW b \in 1 .. Blocks(s), NEW c \in 1 .. Blocks(s),
           NEW k, k \in Span(s, b), k \in Span(s, c)
    PROVE  b = c
<1>1. b \in 1 .. Blocks(s) + 1 /\ c \in 1 .. Blocks(s) + 1 /\ b \in Nat /\ c \in Nat
  BY SideType
<1>2. ImagePlace(s, b) \in Nat /\ Size(s, b) \in Nat /\ ImagePlace(s, c) \in Nat /\ Size(s, c) \in Nat /\ Gap \in Nat
  BY SpanType, Lengths
<1>3. ~(b < c)
  <2> SUFFICES ASSUME b < c PROVE FALSE
    OBVIOUS
  <2>1. ImagePlace(s, b) + Size(s, b) + 3 + Gap <= ImagePlace(s, c)
    BY <1>1, BlockOrder
  <2>2. QED
    BY <1>2, <2>1 DEF Span
<1>4. ~(c < b)
  <2> SUFFICES ASSUME c < b PROVE FALSE
    OBVIOUS
  <2>1. ImagePlace(s, c) + Size(s, c) + 3 + Gap <= ImagePlace(s, b)
    BY <1>1, BlockOrder
  <2>2. QED
    BY <1>2, <2>1 DEF Span
<1>5. QED
  BY <1>1, <1>3, <1>4

\* Where a block is, the image has it.
LEMMA LaidByte ==
    ASSUME NEW s \in Sides, NEW n \in 0 .. Blocks(s), NEW b \in 1 .. n, NEW k \in Span(s, b)
    PROVE  ImageByte(s, n, k) = ByteIn(s, b, k)
<1> n \in Nat /\ n <= Blocks(s) /\ Blocks(s) \in Nat
  BY SideType
<1>1. \A c \in 1 .. n : c \in 1 .. Blocks(s)
  OBVIOUS
<1>2. \A c \in 1 .. n : ImagePlace(s, c) \in Nat /\ Size(s, c) \in Nat \ {0}
  BY <1>1, SpanType
<1>3. \A c \in 1 .. n : k \in Span(s, c) => c = b
  BY <1>1, OneBlock
<1>4. k \in Nat /\ ImagePlace(s, b) <= k /\ k <= ImagePlace(s, b) + Size(s, b) + 2
  BY <1>2 DEF Span
<1>5. \A c \in 1 .. n : (k = ImagePlace(s, c) \/ k - ImagePlace(s, c) \in 1 .. Size(s, c)) => c = b
  <2> SUFFICES ASSUME NEW c \in 1 .. n,
                      k = ImagePlace(s, c) \/ k - ImagePlace(s, c) \in 1 .. Size(s, c)
               PROVE  c = b
    OBVIOUS
  <2>1. k \in Span(s, c)
    BY <1>2, <1>4 DEF Span
  <2>2. QED
    BY <1>3, <2>1
<1>6. CASE k = ImagePlace(s, b)
  BY <1>6 DEF ImageByte, ByteIn
<1>7. CASE k - ImagePlace(s, b) \in 1 .. Size(s, b)
  <2>1. k # ImagePlace(s, b)
    BY <1>2, <1>4, <1>7
  <2>2. ~ \E c \in 1 .. n : k = ImagePlace(s, c)
    BY <1>5, <2>1
  <2>3. (CHOOSE c \in 1 .. n : k - ImagePlace(s, c) \in 1 .. Size(s, c)) = b
    BY <1>5, <1>7
  <2>4. QED
    BY <1>7, <2>1, <2>2, <2>3 DEF ImageByte, ByteIn
<1>8. CASE k # ImagePlace(s, b) /\ ~(k - ImagePlace(s, b) \in 1 .. Size(s, b))
  <2>1. ~ \E c \in 1 .. n : k = ImagePlace(s, c)
    BY <1>5, <1>8
  <2>2. ~ \E c \in 1 .. n : k - ImagePlace(s, c) \in 1 .. Size(s, c)
    BY <1>5, <1>8
  <2>3. k - ImagePlace(s, b) - Size(s, b) \in 1 .. 2
    <3> DEFINE p == ImagePlace(s, b)
               z == Size(s, b)
    <3>1. p \in Nat /\ z \in Nat /\ k \in Nat /\ p <= k /\ k <= p + z + 2
      BY <1>2, <1>4
    <3>2. k # p /\ ~(k - p \in 1 .. z)
      BY <1>8
    <3> HIDE DEF p, z
    <3>3. k - p - z \in 1 .. 2
      BY <3>1, <3>2
    <3>4. QED
      BY <3>3 DEF p, z
  <2>4. QED
    BY <1>8, <2>1, <2>2, <2>3 DEF ImageByte, ByteIn
<1>9. QED
  BY <1>6, <1>7, <1>8

\* Where no block is, it is blank.
LEMMA UnlaidByte ==
    ASSUME NEW s \in Sides, NEW n \in 0 .. Blocks(s), NEW k \in Nat,
           \A b \in 1 .. n : k \notin Span(s, b)
    PROVE  ImageByte(s, n, k) = Blank(k)
<1>1. \A c \in 1 .. n : ImagePlace(s, c) \in Nat /\ Size(s, c) \in Nat
  <2>1. \A c \in 1 .. n : c \in 1 .. Blocks(s)
    BY SideType
  <2>2. QED
    BY <2>1, SpanType
<1>2. ~ \E c \in 1 .. n : k = ImagePlace(s, c)
  BY <1>1 DEF Span
<1>3. ~ \E c \in 1 .. n : k - ImagePlace(s, c) \in 1 .. Size(s, c)
  BY <1>1 DEF Span
<1>4. ~ \E c \in 1 .. n : k - ImagePlace(s, c) - Size(s, c) \in 1 .. 2
  BY <1>1 DEF Span
<1>5. QED
  BY <1>2, <1>3, <1>4 DEF ImageByte, Blank

\* The bytes of a block are bytes.
LEMMA ByteType ==
    ASSUME NEW s \in Sides, NEW b \in 1 .. Blocks(s), NEW k \in Span(s, b)
    PROVE  ByteIn(s, b, k) \in Bytes
<1>1. ImagePlace(s, b) \in Nat /\ Size(s, b) \in Nat /\ b \in Nat
  BY SpanType
<1>2. CASE k - ImagePlace(s, b) \in 1 .. Size(s, b) /\ k # ImagePlace(s, b)
  <2>1. k - ImagePlace(s, b) - 1 \in Nat
    BY <1>1, <1>2 DEF Span
  <2>2. QED
    BY <1>1, <1>2, <2>1 DEF ByteIn, Bytes
<1>3. QED
  BY <1>2 DEF ByteIn, Bytes

\* The next block changes nothing elsewhere.
LEMMA SameByte ==
    ASSUME NEW s \in Sides, NEW b \in 1 .. Blocks(s), NEW k \in Nat, k \notin Span(s, b)
    PROVE  ImageByte(s, b, k) = ImageByte(s, b - 1, k)
<1>1. /\ b \in 0 .. Blocks(s) /\ b - 1 \in 0 .. Blocks(s)
      /\ \A c \in 1 .. b - 1 : c \in 1 .. b
      /\ \A c \in 1 .. b : c \in 1 .. b - 1 \/ c = b
  BY SideType
<1>2. CASE \E c \in 1 .. b - 1 : k \in Span(s, c)
  <2>1. PICK c \in 1 .. b - 1 : k \in Span(s, c)
    BY <1>2
  <2>2. ImageByte(s, b, k) = ByteIn(s, c, k)
    BY <1>1, <2>1, LaidByte
  <2>3. ImageByte(s, b - 1, k) = ByteIn(s, c, k)
    BY <1>1, <2>1, LaidByte
  <2>4. QED
    BY <2>2, <2>3
<1>3. CASE ~ \E c \in 1 .. b - 1 : k \in Span(s, c)
  <2>1. \A c \in 1 .. b : k \notin Span(s, c)
    BY <1>1, <1>3
  <2>2. ImageByte(s, b, k) = Blank(k)
    BY <1>1, <2>1, UnlaidByte
  <2>3. ImageByte(s, b - 1, k) = Blank(k)
    BY <1>1, <1>3, UnlaidByte
  <2>4. QED
    BY <2>2, <2>3
<1>4. QED
  BY <1>2, <1>3

\* copy_block lays a block behind those before it.
LEMMA CopyLays ==
    ASSUME NEW s \in Sides, NEW c \in 1 .. Blocks(s), NEW b, IsImage(b, s, c - 1),
           ImagePlace(s, c) + Size(s, c) + 3 <= DiskSize
    PROVE  IsImage(CopyBlock(b, ImagePlace(s, c), c, Size(s, c)), s, c)
<1> DEFINE at == ImagePlace(s, c)
           size == Size(s, c)
           new == CopyBlock(b, at, c, size)
<1>1. at \in Nat /\ size \in Nat \ {0} /\ c \in Nat /\ DiskSize \in Nat /\ c \in 0 .. Blocks(s) /\ c \in 1 .. c
  BY SpanType, SideType, Lengths
<1>2. at + size + 3 <= DiskSize
  OBVIOUS
<1>3. /\ Span(s, c) = at .. at + size + 2
      /\ \A k : ByteIn(s, c, k) = IF k = at THEN Mark
                                  ELSE IF k - at \in 1 .. size THEN <<c, k - at - 1>> ELSE Crc
  BY DEF Span, ByteIn
<1> HIDE DEF at, size
<1>4. DOMAIN b = 0 .. DiskSize - 1 /\ b \in [0 .. DiskSize - 1 -> Bytes]
  BY DEF IsImage
<1>5. DOMAIN b \cup (at .. at + size + 2) = 0 .. DiskSize - 1
  BY <1>1, <1>2, <1>4
<1>6. new = [k \in 0 .. DiskSize - 1 |->
        CASE k = at -> Mark
          [] k \in at + 1 .. at + size -> <<c, k - at - 1>>
          [] k \in at + size + 1 .. at + size + 2 -> Crc
          [] OTHER -> b[k]]
  BY <1>5 DEF CopyBlock
<1> HIDE DEF new
<1>7. ASSUME NEW k \in 0 .. DiskSize - 1
      PROVE  new[k] = ImageByte(s, c, k) /\ new[k] \in Bytes
  <2>1. CASE k \in Span(s, c)
    <3>1. new[k] = ByteIn(s, c, k)
      <4>1. CASE k = at
        <5>1. ~(k \in at + 1 .. at + size) /\ ~(k \in at + size + 1 .. at + size + 2)
          BY <1>1, <4>1
        <5>2. new[k] = Mark
          BY <1>6, <4>1, <5>1
        <5>3. QED
          BY <1>3, <4>1, <5>2
      <4>2. CASE k \in at + 1 .. at + size
        <5>1. k # at /\ k - at \in 1 .. size
          BY <1>1, <4>2
        <5>2. ~(k \in at + size + 1 .. at + size + 2)
          BY <1>1, <4>2
        <5>3. new[k] = <<c, k - at - 1>>
          BY <1>6, <4>2, <5>1, <5>2
        <5>4. QED
          BY <1>3, <5>1, <5>3
      <4>3. CASE k \in at + size + 1 .. at + size + 2
        <5>1. k # at /\ ~(k - at \in 1 .. size) /\ ~(k \in at + 1 .. at + size)
          BY <1>1, <4>3
        <5>2. new[k] = Crc
          BY <1>6, <4>3, <5>1
        <5>3. QED
          BY <1>3, <5>1, <5>2
      <4>4. QED
        BY <1>1, <1>3, <2>1, <4>1, <4>2, <4>3
    <3>2. QED
      BY <1>1, <2>1, <3>1, LaidByte, ByteType
  <2>2. CASE k \notin Span(s, c)
    <3>1. /\ ~(k = at) /\ ~(k \in at + 1 .. at + size)
          /\ ~(k \in at + size + 1 .. at + size + 2)
      BY <1>1, <1>3, <2>2
    <3>2. new[k] = b[k]
      BY <1>6, <3>1
    <3>3. ImageByte(s, c, k) = ImageByte(s, c - 1, k)
      BY <1>1, <2>2, SameByte
    <3>4. QED
      BY <1>4, <3>2, <3>3 DEF IsImage
  <2>3. QED
    BY <2>1, <2>2
<1>8. new \in [0 .. DiskSize - 1 -> Bytes]
  BY <1>6, <1>7
<1>9. IsImage(new, s, c)
  BY <1>7, <1>8 DEF IsImage
<1>10. QED
  BY <1>9 DEF new, at, size

-----------------------------------------------------------------------------
(* the image on its way to the output *)

\* The side that is converted is one.
LEMMA SideOf ==
    ASSUME Position, side \in 1 .. Len(game) + 1, pc \in {"side", "files"}
    PROVE  ThisSide \in Sides
BY GameType DEF Position, ThisSide

LEMMA StartLays == Init => LaidInv
<1> SUFFICES ASSUME Init PROVE LaidInv
  OBVIOUS
<1>1. Unwritten \in [0 .. DiskSize - 1 -> Bytes]
  BY DEF Unwritten, Bytes, Other
<1>2. 0 \in 0 .. DiskSize + Gap
  BY Lengths
<1>3. side \in 1 .. Len(game) + 1
  BY DEF Init
<1>4. Position /\ Laying /\ Output
  BY DEF Init, Position, Laying, Output
<1>5. QED
  BY <1>1, <1>2, <1>3, <1>4 DEF Init, LaidInv

\* A command that returns leaves the output.
LEMMA ReturnLays ==
    ASSUME LaidInv, NEW result \in {"Ok.", "Failed."}, Returns(result),
           command' \in {"-c", "-C", "-F"}, UNCHANGED file
    PROVE  LaidInv'
<1>1. Unwritten \in [0 .. DiskSize - 1 -> Bytes]
  BY DEF Unwritten, Bytes, Other
<1>2. 0 \in 0 .. DiskSize + Gap
  BY Lengths
<1>3. side' \in 1 .. Len(game') + 1
  BY DEF Returns
<1>4. Position' /\ Laying'
  BY DEF Returns, Position, Laying
<1>5. Output'
  BY DEF LaidInv, Output
<1>6. QED
  BY <1>1, <1>2, <1>3, <1>4, <1>5 DEF Returns, LaidInv

LEMMA ConvertLays ==
    ASSUME LaidInv, NEW c \in {"-c", "-C"}, NEW g \in Games, Convert(c, g)
    PROVE  LaidInv'
<1>1. side' \in 1 .. Len(game')
  BY GameType DEF Convert
<1>2. Position' /\ Laying'
  BY <1>1 DEF Convert, Position, Laying
<1>3. Output'
  BY DEF LaidInv, Output, Convert
<1>4. Len(game') \in Nat /\ side' \in 1 .. Len(game') + 1
  BY <1>1, GameType DEF Convert
<1>5. QED
  BY <1>2, <1>3, <1>4 DEF Convert, LaidInv, image

\* The buffer is cleared, then the first two blocks are laid.
LEMMA BeginLays ==
    ASSUME LaidInv, BeginSide
    PROVE  LaidInv'
<1> DEFINE s == ThisSide
<1>1. s \in Sides /\ pc = "side" /\ side \in 1 .. Len(game) /\ game \in Games /\ raw = <<>>
  BY SideOf DEF LaidInv, BeginSide, Position
<1>2. CASE game[side].head # "hvc"
  BY <1>2, ReturnLays DEF LaidInv, BeginSide
<1>3. CASE game[side].head = "hvc"
  <2> DEFINE second == After(LeadIn, HeadSize)
             first == CopyBlock(Cleared(bin), LeadIn, 1, HeadSize)
  <2>1. /\ pc' = "files" /\ laid' = 0 /\ o' = After(second, InfoSize)
        /\ bin' = CopyBlock(first, second, 2, InfoSize)
        /\ UNCHANGED <<game, side, exit, command, file, raw>>
    BY <1>3 DEF BeginSide, decoder
  <2>2. /\ 1 \in 1 .. Blocks(s) /\ 2 \in 1 .. Blocks(s) /\ 0 \in 0 .. Blocks(s)
        /\ Size(s, 1) = HeadSize /\ Size(s, 2) = InfoSize
    <3> HIDE DEF s
    <3>1. QED
      BY <1>1, SideType
  <2>3. /\ ImagePlace(s, 1) = LeadIn
        /\ ImagePlace(s, 2) = second
        /\ ImagePlace(s, 3) = After(second, InfoSize)
    <3> HIDE DEF s
    <3>1. /\ ImagePlace(s, 1) = LeadIn
          /\ ImagePlace(s, 1 + 1) = ImagePlace(s, 1) + Size(s, 1) + 3 + Gap
          /\ ImagePlace(s, 2 + 1) = ImagePlace(s, 2) + Size(s, 2) + 3 + Gap
      BY <1>1, <2>2, ImageNext
    <3>2. QED
      BY <2>2, <3>1, Lengths DEF After
  <2>4. IsImage(Cleared(bin), s, 0)
    <3> HIDE DEF s
    <3>1. ASSUME NEW k \in 0 .. DiskSize - 1
          PROVE  ImageByte(s, 0, k) = Zero /\ Cleared(bin)[k] = Zero
      <4>1. k \in Nat /\ k < DiskSize
        BY Lengths
      <4>2. \A b \in 1 .. 0 : k \notin Span(s, b)
        OBVIOUS
      <4>3. ImageByte(s, 0, k) = Blank(k)
        BY <1>1, <2>2, <4>1, <4>2, UnlaidByte
      <4>4. QED
        BY <4>1, <4>3 DEF Blank, Cleared
    <3>2. Cleared(bin) \in [0 .. DiskSize - 1 -> Bytes]
      BY DEF Cleared, Bytes
    <3>3. QED
      BY <3>1, <3>2 DEF IsImage
  <2>5. IsImage(first, s, 1)
    <3> HIDE DEF s, first
    <3>1. ImagePlace(s, 1) + Size(s, 1) + 3 <= DiskSize
      BY <2>2, <2>3, Lengths
    <3>2. 1 - 1 = 0
      OBVIOUS
    <3>3. IsImage(CopyBlock(Cleared(bin), ImagePlace(s, 1), 1, Size(s, 1)), s, 1)
      BY <1>1, <2>2, <2>4, <3>1, <3>2, CopyLays
    <3>4. QED
      BY <2>2, <2>3, <3>3 DEF first
  <2>6. IsImage(bin', s, 2)
    <3>1. second + InfoSize + 3 <= DiskSize
      BY Lengths DEF After
    <3> HIDE DEF s, first, second
    <3>2. ImagePlace(s, 2) + Size(s, 2) + 3 <= DiskSize
      BY <2>2, <2>3, <3>1
    <3>3. 2 - 1 = 1
      OBVIOUS
    <3>4. IsImage(CopyBlock(first, ImagePlace(s, 2), 2, Size(s, 2)), s, 2)
      BY <1>1, <2>2, <2>5, <3>2, <3>3, CopyLays
    <3>5. QED
      BY <2>1, <2>2, <2>3, <3>4
  <2>7. o' \in 0 .. DiskSize + Gap
    BY <2>1, Lengths DEF After
  <2>8. bin' \in [0 .. DiskSize - 1 -> Bytes]
    BY <2>6 DEF IsImage
  <2>9. ThisSide' = s
    BY <2>1 DEF ThisSide
  <2>10. Laying'
    <3>1. laid' \in 0 .. Len(ThisSide.files)'
      BY <1>1, <2>1, <2>9, SideType
    <3>2. o' = ImagePlace(ThisSide, 3 + 2 * laid)'
      BY <2>1, <2>3, <2>9
    <3>3. 2 + 2 * laid' = 2
      BY <2>1
    <3>4. IsImage(bin, ThisSide, 2 + 2 * laid)'
      BY <2>6, <2>9, <3>3
    <3>5. QED
      BY <3>1, <3>2, <3>4 DEF Laying
  <2>11. Position'
    BY <1>1, <2>1 DEF Position
  <2>12. Output'
    BY <2>1 DEF LaidInv, Output
  <2>13. QED
    BY <2>1, <2>7, <2>8, <2>10, <2>11, <2>12 DEF LaidInv
<1>4. QED
  BY <1>2, <1>3

\* Both blocks of a file are laid, or none.
LEMMA FileLays ==
    ASSUME LaidInv, LayFile
    PROVE  LaidInv'
<1> DEFINE s == ThisSide
           size == s.files[laid + 1].size
           a == 3 + 2 * laid
           b == 4 + 2 * laid
           second == After(o, FileSize)
<1>1. s \in Sides /\ pc = "files" /\ side \in 1 .. Len(game) /\ game \in Games /\ raw = <<>>
  BY SideOf DEF LaidInv, LayFile, Position
<1>2. laid \in Nat /\ laid < Len(s.files) /\ o = ImagePlace(s, a) /\ IsImage(bin, s, 2 + 2 * laid)
  BY DEF LaidInv, LayFile, Laying, ThisSide
<1>3. CASE o + Needed(size) > DiskSize
  BY <1>3, ReturnLays DEF LaidInv, LayFile, ThisSide
<1>4. CASE ~(o + Needed(size) > DiskSize)
  <2>1. /\ bin' = CopyBlock(CopyBlock(bin, o, a, FileSize), second, b, size)
        /\ o' = After(second, size)
        /\ laid' = laid + 1
        /\ UNCHANGED <<pc, game, side, exit, command, file, raw>>
    BY <1>4 DEF LayFile, decoder, ThisSide
  <2> HIDE DEF s
  <2>2. /\ a \in 1 .. Blocks(s) /\ b \in 1 .. Blocks(s)
        /\ Size(s, a) = FileSize /\ Size(s, b) = size
    <3>1. laid + 1 \in 1 .. Len(s.files) /\ a = 1 + 2 * (laid + 1) /\ b = 2 + 2 * (laid + 1)
      BY <1>1, <1>2, SideType
    <3>2. Size(s, 1 + 2 * (laid + 1)) = FileSize /\ Size(s, 2 + 2 * (laid + 1)) = size
          /\ 2 + 2 * (laid + 1) \in 1 .. Blocks(s)
      BY <1>1, <3>1, SideType
    <3>3. QED
      BY <1>1, <1>2, <3>1, <3>2, SideType
  <2>3. o \in Nat /\ size \in Nat /\ ImagePlace(s, b) = second /\ ImagePlace(s, b + 1) = After(second, size)
    <3>1. /\ ImagePlace(s, a + 1) = ImagePlace(s, a) + Size(s, a) + 3 + Gap
          /\ ImagePlace(s, b + 1) = ImagePlace(s, b) + Size(s, b) + 3 + Gap
      BY <1>1, <2>2, ImageNext
    <3>2. a + 1 = b
      BY <1>2
    <3>3. ImagePlace(s, a) \in Nat /\ Size(s, b) \in Nat
      BY <1>1, <2>2, SpanType
    <3>4. QED
      BY <1>2, <2>2, <3>1, <3>2, <3>3 DEF After
  <2>4. o + FileSize + 3 + Gap + size + 3 <= DiskSize
    BY <1>4, <2>3, Lengths DEF Needed
  <2> DEFINE first == CopyBlock(bin, o, a, FileSize)
  <2>5. IsImage(first, s, a)
    <3>1. ImagePlace(s, a) + Size(s, a) + 3 <= DiskSize
      <4>1. o + FileSize + 3 <= DiskSize
        <5> HIDE DEF size
        <5>1. QED
          BY <2>3, <2>4, Lengths
      <4> HIDE DEF a
      <4>2. QED
        BY <1>2, <2>2, <4>1
    <3>2. a - 1 = 2 + 2 * laid
      BY <1>2
    <3>3. IsImage(CopyBlock(bin, ImagePlace(s, a), a, Size(s, a)), s, a)
      <4> HIDE DEF a
      <4>1. QED
        BY <1>1, <1>2, <2>2, <3>1, <3>2, CopyLays
    <3>4. QED
      BY <1>2, <2>2, <3>3
  <2>6. IsImage(bin', s, b)
    <3>1. second + size + 3 <= DiskSize
      BY <2>3, <2>4, Lengths DEF After
    <3>2. ImagePlace(s, b) + Size(s, b) + 3 <= DiskSize
      BY <2>2, <2>3, <3>1
    <3>3. b - 1 = a
      BY <1>2
    <3> HIDE DEF a, b, first, second, size
    <3>4. IsImage(CopyBlock(first, ImagePlace(s, b), b, Size(s, b)), s, b)
      BY <1>1, <2>2, <2>5, <3>2, <3>3, CopyLays
    <3>5. QED
      BY <2>1, <2>2, <2>3, <3>4 DEF first
  <2>7. o' \in 0 .. DiskSize + Gap
    BY <2>1, <2>3, <2>4, Lengths DEF After
  <2>8. bin' \in [0 .. DiskSize - 1 -> Bytes]
    BY <2>6 DEF IsImage
  <2>9. ThisSide' = s
    BY <2>1 DEF ThisSide, s
  <2>10. 3 + 2 * laid' = b + 1 /\ 2 + 2 * laid' = b /\ laid' \in Nat
    BY <1>2, <2>1
  <2>11. Laying'
    <3>1. laid' \in 0 .. Len(ThisSide.files)'
      BY <1>1, <1>2, <2>1, <2>9, SideType
    <3>2. o' = ImagePlace(ThisSide, 3 + 2 * laid)'
      BY <2>1, <2>3, <2>9, <2>10
    <3>3. IsImage(bin, ThisSide, 2 + 2 * laid)'
      BY <2>6, <2>9, <2>10
    <3>4. QED
      BY <3>1, <3>2, <3>3 DEF Laying
  <2>12. Position'
    BY <1>1, <2>1 DEF Position
  <2>13. Output'
    BY <2>1 DEF LaidInv, Output
  <2>14. QED
    BY <2>1, <2>7, <2>8, <2>10, <2>11, <2>12, <2>13 DEF LaidInv
<1>5. QED
  BY <1>3, <1>4

\* What is written is the image of all blocks: with its last gap, which may
\* reach behind the buffer, or as much of it as becomes pulses.
LEMMA WriteLays ==
    ASSUME LaidInv, WriteOutput
    PROVE  LaidInv'
<1> DEFINE s == ThisSide
<1>1. s \in Sides /\ pc = "files" /\ side \in 1 .. Len(game) /\ game \in Games /\ raw = <<>>
  BY SideOf DEF LaidInv, WriteOutput, Position
<1>2. laid = Len(s.files) /\ o = ImagePlace(s, 3 + 2 * laid) /\ IsImage(bin, s, 2 + 2 * laid)
      /\ o \in 0 .. DiskSize + Gap
  BY DEF LaidInv, WriteOutput, Laying, ThisSide
<1>3. CASE Returns("Ok.") /\ UNCHANGED file
  BY <1>3, ReturnLays DEF LaidInv, WriteOutput
<1>4. CASE /\ file' = IF command = "-c"
                      THEN [kind |-> "bin", side |-> game[side], bytes |-> FirstBytes(bin, o)]
                      ELSE [kind |-> "raw", side |-> game[side], bytes |-> FirstBytes(bin, SlotSize)]
           /\ pc' = "written" /\ side' = side + 1
           /\ UNCHANGED <<game, image, exit>>
  <2>1. UNCHANGED <<game, bin, o, laid, exit, command, raw>> /\ pc' = "written" /\ side' = side + 1
    BY <1>4 DEF image, WriteOutput, decoder
  <2>2. s = game[side]
    BY DEF ThisSide
  <2> HIDE DEF s
  <2>3. o = ImageSize(s) /\ IsImage(bin, s, Blocks(s)) /\ Blocks(s) \in Nat
        /\ Blocks(s) \in 0 .. Blocks(s) /\ Blocks(s) + 1 \in 1 .. Blocks(s) + 1
    <3>1. laid \in Nat /\ 3 + 2 * laid = Blocks(s) + 1 /\ 2 + 2 * laid = Blocks(s)
      BY <1>1, <1>2, SideType DEF Blocks
    <3>2. QED
      BY <1>2, <3>1 DEF ImageSize
  <2>4. ASSUME NEW k \in Nat, k >= DiskSize
        PROVE  ImageByte(s, Blocks(s), k) = Other
    <3>1. ASSUME NEW b \in 1 .. Blocks(s) PROVE k \notin Span(s, b)
      <4>1. ImagePlace(s, b) + Size(s, b) + 3 + Gap <= ImagePlace(s, Blocks(s) + 1)
        <5>1. b < Blocks(s) + 1
          BY <2>3
        <5>2. QED
          BY <1>1, <2>3, <5>1, BlockOrder
      <4>2. ImagePlace(s, b) \in Nat /\ Size(s, b) \in Nat
        BY <1>1, SpanType
      <4>3. ImagePlace(s, b) + Size(s, b) + 3 + Gap <= DiskSize + Gap
        BY <1>2, <2>3, <4>1, <4>2, Lengths DEF ImageSize
      <4>4. QED
        BY <2>4, <4>2, <4>3, Lengths DEF Span
    <3>2. ImageByte(s, Blocks(s), k) = Blank(k)
      BY <1>1, <2>3, <3>1, UnlaidByte
    <3>3. QED
      BY <2>4, <3>2, Lengths DEF Blank
  <2>5. ASSUME NEW n \in Nat, NEW k \in 0 .. n - 1
        PROVE  FirstBytes(bin, n)[k] = ImageByte(s, Blocks(s), k)
    <3>1. k \in Nat /\ (k < DiskSize => k \in 0 .. DiskSize - 1)
      BY Lengths
    <3>2. DOMAIN bin = 0 .. DiskSize - 1
      BY <2>3 DEF IsImage
    <3>3. CASE k < DiskSize
      BY <2>3, <3>1, <3>2, <3>3 DEF FirstBytes, IsImage
    <3>4. CASE k >= DiskSize
      <4>1. k \notin DOMAIN bin
        BY <3>1, <3>2, <3>4, Lengths
      <4>2. QED
        BY <2>4, <3>1, <3>4, <4>1 DEF FirstBytes
    <3>5. QED
      BY <3>1, <3>3, <3>4, Lengths
  <2>6. \A n : DOMAIN FirstBytes(bin, n) = 0 .. n - 1
    BY DEF FirstBytes
  <2>7. Output'
    <3>1. CASE command = "-c"
      <4>1. file' = [kind |-> "bin", side |-> s, bytes |-> FirstBytes(bin, o)]
        BY <1>4, <2>2, <3>1
      <4>2. o \in Nat
        BY <1>2, Lengths
      <4>3. \A k \in 0 .. o - 1 : FirstBytes(bin, o)[k] = ImageByte(s, Blocks(s), k)
        BY <2>5, <4>2
      <4>4. QED
        BY <1>1, <2>3, <2>6, <4>1, <4>3 DEF Output
    <3>2. CASE command # "-c"
      <4>1. file' = [kind |-> "raw", side |-> s, bytes |-> FirstBytes(bin, SlotSize)]
        BY <1>4, <2>2, <3>2
      <4>2. \A k \in 0 .. SlotSize - 1 : FirstBytes(bin, SlotSize)[k] = ImageByte(s, Blocks(s), k)
        BY <2>5, Lengths
      <4>3. QED
        BY <1>1, <2>6, <4>1, <4>2 DEF Output
    <3>3. QED
      BY <3>1, <3>2
  <2>8. Position' /\ Laying'
    BY <1>1, <2>1 DEF Position, Laying
  <2>9. side' \in 1 .. Len(game') + 1
    BY <1>1, <2>1, GameType
  <2>10. QED
    BY <2>1, <2>7, <2>8, <2>9 DEF LaidInv
<1>5. QED
  BY <1>3, <1>4 DEF WriteOutput

\* Every step leaves the image and the output as they should be.
LEMMA StepLays == LaidInv /\ [Next]_vars => LaidInv'
<1> SUFFICES ASSUME LaidInv, [Next]_vars PROVE LaidInv'
  OBVIOUS
<1>1. ASSUME NEW c \in {"-c", "-C"}, NEW g \in Games, Convert(c, g) PROVE LaidInv'
  BY <1>1, ConvertLays
<1>2. CASE BeginSide
  BY <1>2, BeginLays
<1>3. CASE LayFile
  BY <1>3, FileLays
<1>4. CASE WriteOutput
  BY <1>4, WriteLays
<1>5. CASE NextSide
  <2>1. /\ UNCHANGED <<command, game, side, bin, o, laid, file, raw, exit>>
        /\ pc = "written" /\ pc' = "side" /\ side <= Len(game)
    BY <1>5 DEF NextSide, image, decoder
  <2>2. game \in Games /\ raw = <<>> /\ side \in 1 .. Len(game) + 1
    BY <2>1 DEF LaidInv, Position
  <2>3. Position' /\ Laying'
    <3>1. side \in 1 .. Len(game)
      BY <2>1, <2>2, GameType
    <3>2. QED
      BY <2>1, <2>2, <3>1 DEF Position, Laying
  <2>4. Output'
    BY <2>1 DEF LaidInv, Output
  <2>5. QED
    BY <2>1, <2>3, <2>4 DEF LaidInv
<1>6. CASE LastSide
  BY <1>6, ReturnLays DEF LastSide, LaidInv
<1>7. ASSUME NEW zeros \in 0 .. MinGap, NEW fill \in 0 .. MaxFill, BinToFds(zeros, fill)
      PROVE  LaidInv'
  <2>1. CASE Returns("Failed.")
    BY <1>7, <2>1, ReturnLays DEF BinToFds
  <2>2. CASE pc' = "decode" /\ exit' = "Failed." /\ UNCHANGED <<game, side, image>>
    <3>1. UNCHANGED <<game, side, bin, o, laid, file>> /\ command' = "-F"
      BY <1>7, <2>2 DEF BinToFds, image
    <3>2. Position' /\ Laying'
      BY <2>2, <3>1 DEF LaidInv, Position, Laying
    <3>3. Output'
      BY <3>1 DEF LaidInv, Output
    <3>4. QED
      BY <2>2, <3>1, <3>2, <3>3 DEF LaidInv
  <2>3. QED
    BY <1>7, <2>1, <2>2 DEF BinToFds
<1>8. CASE CannotConvert
  BY <1>8, ReturnLays DEF CannotConvert
<1>9. ASSUME NEW size \in NextSizes, DecodeBlock(size) PROVE LaidInv'
  <2>1. UNCHANGED <<command, file, raw>> /\ pc = "decode"
    BY <1>9 DEF DecodeBlock
  <2>2. CASE Returns("Failed.") \/ Returns("Ok.")
    BY <2>1, <2>2, ReturnLays DEF LaidInv
  <2>3. CASE UNCHANGED <<pc, game, side, image, exit>>
    <3>1. UNCHANGED <<pc, game, side, exit, bin, o, laid>>
      BY <2>3 DEF image
    <3>2. Position' /\ Laying'
      BY <2>1, <3>1 DEF LaidInv, Position, Laying
    <3>3. Output'
      BY <2>1 DEF LaidInv, Output
    <3>4. QED
      BY <2>1, <3>1, <3>2, <3>3 DEF LaidInv
  <2>4. QED
    BY <1>9, <2>2, <2>3 DEF DecodeBlock
<1>10. ASSUME NEW size \in NextSizes, DecodeEnds(size) PROVE LaidInv'
  <2>1. UNCHANGED <<command, file, raw>>
    BY <1>10 DEF DecodeEnds
  <2>2. Returns("Failed.") \/ Returns("Ok.")
    BY <1>10 DEF DecodeEnds
  <2>3. QED
    BY <2>1, <2>2, ReturnLays DEF LaidInv
<1>11. CASE UNCHANGED vars
  <2>1. UNCHANGED <<pc, command, game, side, bin, o, laid, file, raw, exit>>
    BY <1>11 DEF vars
  <2>2. Position' /\ Laying' /\ Output'
    BY <2>1 DEF LaidInv, Position, Laying, Output, ThisSide
  <2>3. QED
    BY <2>1, <2>2 DEF LaidInv
<1>12. QED
  BY <1>1, <1>2, <1>3, <1>4, <1>5, <1>6, <1>7, <1>8, <1>9, <1>10, <1>11 DEF Next

\* Whatever the sides and the buffers, the output is the image of one whole side.
THEOREM OneSideWritten == Spec => []OneWholeSide
<1>1. LaidInv => OneWholeSide
  BY DEF LaidInv, Output, OneWholeSide
<1>2. QED
  BY <1>1, StartLays, StepLays, PTL DEF Spec

-----------------------------------------------------------------------------
(* what is decoded *)

\* An image ends behind its blocks.
LEMMA SpanEnds ==
    ASSUME NEW s \in Sides, NEW b \in 1 .. Blocks(s)
    PROVE  /\ ImageSize(s) \in Nat
           /\ ImagePlace(s, b) + Size(s, b) + 3 + Gap <= ImageSize(s)
<1>1. b < Blocks(s) + 1 /\ Blocks(s) + 1 \in 1 .. Blocks(s) + 1
  BY SideType
<1>2. QED
  BY <1>1, BlockOrder, ImageNext DEF ImageSize

\* All that is in an image are bytes.
LEMMA ImageType ==
    ASSUME NEW s \in Sides, NEW k \in Nat
    PROVE  ImageByte(s, Blocks(s), k) \in Bytes
<1>1. Blocks(s) \in 0 .. Blocks(s)
  BY SideType
<1>2. CASE \E b \in 1 .. Blocks(s) : k \in Span(s, b)
  BY <1>1, <1>2, LaidByte, ByteType
<1>3. CASE ~ \E b \in 1 .. Blocks(s) : k \in Span(s, b)
  BY <1>1, <1>3, UnlaidByte DEF Blank, Bytes
<1>4. QED
  BY <1>2, <1>3

\* Within a slot the blocks are there; elsewhere nothing is that could pass for one.
RawBytes(r, s, size) ==
    \A k \in 0 .. size - 1 :
        /\ r[k] \in Bytes
        /\ k >= SlotSize => r[k] = Undefined
        /\ k < SlotSize => \A b \in 1 .. Blocks(s) : k \in Span(s, b) => r[k] = ByteIn(s, b, k)
        /\ (\A b \in 1 .. Blocks(s) : k \notin Span(s, b)) => r[k] \in {Zero, Other, Undefined}
        /\ (/\ k < SlotSize /\ k < ImageSize(s)
            /\ \A b \in 1 .. Blocks(s) : k \notin Span(s, b)) => r[k] = Zero

LEMMA RawHas ==
    ASSUME NEW s \in Sides, NEW r, NEW size \in Nat, RawIs(r, s, size)
    PROVE  RawBytes(r, s, size) /\ Cardinality(DOMAIN r) = size /\ DOMAIN r = 0 .. size - 1
<1>1. s \in Sides /\ Blocks(s) \in 0 .. Blocks(s)
  BY SideType
<1>2. DOMAIN r = 0 .. size - 1 /\ Cardinality(DOMAIN r) = size
  <2>1. DOMAIN r = 0 .. size - 1
    BY DEF RawIs
  <2>2. Cardinality(0 .. size - 1) = size
    <3>1. Cardinality(0 .. size - 1) = IF 0 > size - 1 THEN 0 ELSE (size - 1) - 0 + 1
      <4>1. 0 \in Int /\ size - 1 \in Int
        OBVIOUS
      <4>2. QED
        BY <4>1, FS_Interval
    <3>2. QED
      BY <3>1
  <2>3. QED
    BY <2>1, <2>2
<1>3. ASSUME NEW k \in 0 .. size - 1
      PROVE  /\ r[k] \in Bytes
             /\ k >= SlotSize => r[k] = Undefined
             /\ k < SlotSize => \A b \in 1 .. Blocks(s) : k \in Span(s, b) => r[k] = ByteIn(s, b, k)
             /\ (\A b \in 1 .. Blocks(s) : k \notin Span(s, b)) => r[k] \in {Zero, Other, Undefined}
             /\ (/\ k < SlotSize /\ k < ImageSize(s)
                 /\ \A b \in 1 .. Blocks(s) : k \notin Span(s, b)) => r[k] = Zero
  <2>1. k \in Nat /\ r[k] \in Bytes
    BY DEF RawIs
  <2>2. IF k >= SlotSize THEN r[k] = Undefined
        ELSE IF k >= ImageSize(s) THEN r[k] \in {Zero, Other}
        ELSE r[k] = ImageByte(s, Blocks(s), k)
    BY DEF RawIs
  <2>3. ImageSize(s) \in Nat
    BY <1>1, SideType, ImageNext DEF ImageSize
  <2>4. ASSUME NEW b \in 1 .. Blocks(s), k \in Span(s, b)
        PROVE  k < ImageSize(s) /\ ImageByte(s, Blocks(s), k) = ByteIn(s, b, k)
    <3>1. ImagePlace(s, b) + Size(s, b) + 3 + Gap <= ImageSize(s)
          /\ ImagePlace(s, b) \in Nat /\ Size(s, b) \in Nat
      BY <1>1, SpanEnds, SpanType
    <3>2. k < ImageSize(s)
      BY <2>3, <2>4, <3>1, Lengths DEF Span
    <3>3. QED
      BY <1>1, <2>4, <3>2, LaidByte
  <2>5. ASSUME \A b \in 1 .. Blocks(s) : k \notin Span(s, b)
        PROVE  ImageByte(s, Blocks(s), k) = Blank(k)
    BY <1>1, <2>1, <2>5, UnlaidByte
  <2>6. k < SlotSize => k < DiskSize
    BY <2>1, Lengths
  <2>7. k < SlotSize <=> ~(k >= SlotSize)
    BY <2>1, Lengths
  <2>8. k < ImageSize(s) <=> ~(k >= ImageSize(s))
    BY <2>1, <2>3
  <2>9. QED
    BY <2>1, <2>2, <2>4, <2>5, <2>6, <2>7, <2>8 DEF Blank
<1>4. QED
  BY <1>2, <1>3 DEF RawBytes

\* The first block is found where it is, and nowhere else.
LEMMA FirstFound ==
    ASSUME NEW s \in Sides, NEW r, NEW size \in Nat, RawIs(r, s, size), SlotSize <= size
    PROVE  FirstBlock(r) = {LeadIn}
<1>1. RawBytes(r, s, size) /\ DOMAIN r = 0 .. size - 1
  BY RawHas
<1>2. s \in Sides /\ 1 \in 1 .. Blocks(s) /\ ImagePlace(s, 1) = LeadIn /\ Size(s, 1) = HeadSize
  BY SideType, ImageNext
<1>3. LeadIn \in FirstBlock(r)
  <2>1. LeadIn \in 0 .. size - 1 /\ LeadIn + 1 \in 0 .. size - 1
        /\ LeadIn < SlotSize /\ LeadIn + 1 < SlotSize /\ LeadIn < SearchSize
    BY Lengths
  <2>2. LeadIn \in Span(s, 1) /\ LeadIn + 1 \in Span(s, 1)
    BY <1>2, Lengths DEF Span
  <2>3. r[LeadIn] = ByteIn(s, 1, LeadIn) /\ r[LeadIn + 1] = ByteIn(s, 1, LeadIn + 1)
    BY <1>1, <1>2, <2>1, <2>2 DEF RawBytes
  <2>4. ByteIn(s, 1, LeadIn) = Mark /\ ByteIn(s, 1, LeadIn + 1) = <<1, 0>>
    BY <1>2, Lengths DEF ByteIn
  <2>5. QED
    BY <1>1, <2>1, <2>3, <2>4 DEF FirstBlock
<1>4. ASSUME NEW k \in FirstBlock(r) PROVE k = LeadIn
  <2>1. k \in 0 .. size - 1 /\ k + 1 \in 0 .. size - 1 /\ r[k + 1] = <<1, 0>>
    BY <1>1 DEF FirstBlock
  <2>2. r[k + 1] \notin {Zero, Other, Undefined}
    BY <2>1 DEF Zero, Other, Undefined
  <2>3. k + 1 < SlotSize
    <3>1. k + 1 >= SlotSize => r[k + 1] = Undefined
      BY <1>1, <2>1 DEF RawBytes
    <3>2. QED
      BY <2>1, <2>2, <3>1, Lengths
  <2>4. PICK b \in 1 .. Blocks(s) : k + 1 \in Span(s, b)
    BY <1>1, <2>1, <2>2 DEF RawBytes
  <2>5. ByteIn(s, b, k + 1) = <<1, 0>>
    BY <1>1, <2>1, <2>3, <2>4 DEF RawBytes
  <2>6. b = 1 /\ (k + 1) - ImagePlace(s, b) - 1 = 0
    BY <2>5 DEF ByteIn, Mark, Crc
  <2>7. QED
    BY <1>2, <2>1, <2>6, Lengths
<1>5. QED
  BY <1>3, <1>4

-----------------------------------------------------------------------------
(* gap ends *)

\* Between the last block read and the next there is no block.
LEMMA NoBlockBetween ==
    ASSUME NEW s \in Sides, NEW g \in 1 .. Blocks(s) + 1, NEW k \in Nat,
           k < ImagePlace(s, g), g # 1 => ImagePlace(s, g) - Gap <= k
    PROVE  \A b \in 1 .. Blocks(s) : k \notin Span(s, b)
<1> SUFFICES ASSUME NEW b \in 1 .. Blocks(s), k \in Span(s, b) PROVE FALSE
  OBVIOUS
<1>1. /\ ImagePlace(s, b) \in Nat /\ Size(s, b) \in Nat /\ b \in Nat /\ g \in Nat
      /\ ImagePlace(s, g) \in Nat /\ Gap \in Nat
  BY SideType, SpanType, ImageNext, Lengths
<1>2. ImagePlace(s, b) <= k /\ k <= ImagePlace(s, b) + Size(s, b) + 2
  BY <1>1 DEF Span
<1>3. CASE b < g
  <2>1. ImagePlace(s, b) + Size(s, b) + 3 + Gap <= ImagePlace(s, g) /\ g # 1
    BY <1>1, <1>3, BlockOrder
  <2>2. QED
    BY <1>1, <1>2, <2>1
<1>4. CASE b = g
  BY <1>1, <1>2, <1>4
<1>5. CASE g < b
  <2>1. g \in 1 .. Blocks(s) /\ b \in 1 .. Blocks(s) + 1 /\ Size(s, g) \in Nat
    BY <1>1, <1>5, SideType
  <2>2. ImagePlace(s, g) + Size(s, g) + 3 + Gap <= ImagePlace(s, b)
    BY <1>5, <2>1, BlockOrder
  <2>3. QED
    BY <1>1, <1>2, <2>1, <2>2
<1>6. QED
  BY <1>1, <1>3, <1>4, <1>5

\* The next gap end is that of the next block, if it is within a slot.
LEMMA GapEndNext ==
    ASSUME file.side \in Sides, NEW size \in Nat, RawIs(raw, file.side, size), SlotSize <= size,
           OnTrack, got < Blocks(file.side)
    PROVE  IF ImagePlace(file.side, got + 1) < SlotSize
           THEN GapEnds # {} /\ Min(GapEnds) = ImagePlace(file.side, got + 1)
           ELSE GapEnds = {}
<1> DEFINE s == file.side
           at == ImagePlace(s, got + 1)
<1>1. RawBytes(raw, s, size) /\ Cardinality(DOMAIN raw) = size
  BY RawHas
<1>2. s \in Sides /\ got + 1 \in 1 .. Blocks(s) /\ got + 1 \in 1 .. Blocks(s) + 1 /\ got \in Nat
  BY SideType DEF OnTrack
<1>3. in = IF got = 0 THEN LeadIn - MinGap ELSE at - Gap
  BY DEF OnTrack
<1> HIDE DEF s
<1>4. at \in Nat /\ in \in Nat /\ in + MinGap <= at /\ (got = 0 => at = LeadIn)
  <2>1. at \in Nat /\ at >= LeadIn
    BY <1>2, ImageNext
  <2>2. got = 0 => at = LeadIn
    BY <1>2, ImageNext
  <2>3. got # 0 => at >= Gap
    <3> SUFFICES ASSUME got # 0 PROVE at >= Gap
      OBVIOUS
    <3>1. got \in 1 .. Blocks(s) /\ ImagePlace(s, got) \in Nat /\ Size(s, got) \in Nat
      BY <1>2, SideType, SpanType
    <3>2. at = ImagePlace(s, got) + Size(s, got) + 3 + Gap
      BY <1>2, <3>1, ImageNext
    <3>3. QED
      BY <3>1, <3>2, Lengths
  <2> HIDE DEF at
  <2>4. QED
    BY <1>3, <2>1, <2>2, <2>3, Lengths
<1>5. at < ImageSize(s) /\ ImageSize(s) \in Nat
  BY <1>2, <1>4, SpanEnds, SpanType, Lengths
<1>6. ASSUME NEW k \in Nat, in <= k, k < at, k < SlotSize, k < size
      PROVE  raw[k] = Zero
  <2>1. got + 1 # 1 => at - Gap <= k
    BY <1>2, <1>3, <1>6
  <2>2. \A b \in 1 .. Blocks(s) : k \notin Span(s, b)
    BY <1>2, <1>6, <2>1, NoBlockBetween
  <2>3. k \in 0 .. size - 1 /\ k < ImageSize(s)
    BY <1>4, <1>5, <1>6
  <2>4. QED
    BY <1>1, <1>6, <2>2, <2>3 DEF RawBytes
<1>7. CASE at < SlotSize
  <2>1. at \in 0 .. size - 1
    BY <1>4, <1>7, Lengths
  <2>2. raw[at] = Mark
    <3>1. at \in Span(s, got + 1)
      BY <1>2, SpanType DEF Span
    <3>2. QED
      BY <1>1, <1>2, <1>7, <2>1, <3>1 DEF RawBytes, ByteIn
  <2> HIDE DEF at
  <2>3. \A j \in at - MinGap .. at - 1 : raw[j] = Zero
    BY <1>4, <1>6, <1>7, <2>1, Lengths
  <2>4. at \in GapEnds
    BY <1>1, <1>4, <2>1, <2>2, <2>3, Lengths DEF GapEnds, Mark, Zero, Undefined
  <2>5. ASSUME NEW k \in GapEnds PROVE at <= k /\ k \in Nat
    <3>1. k \in in + MinGap .. size - 1 /\ raw[k] # Zero
      BY <1>1 DEF GapEnds
    <3>2. k \in Nat /\ in <= k /\ k < size
      BY <1>4, <3>1, Lengths
    <3>3. QED
      BY <1>4, <1>6, <1>7, <3>1, <3>2, Lengths
  <2>6. Min(GapEnds) = at
    BY <2>4, <2>5, MinOf
  <2>7. QED
    BY <1>7, <2>4, <2>6 DEF at, s
<1>8. CASE ~(at < SlotSize)
  <2> HIDE DEF at
  <2>1. ASSUME NEW k \in GapEnds PROVE FALSE
    <3>1. k \in in + MinGap .. size - 1 /\ raw[k] # Zero /\ raw[k] # Undefined
      BY <1>1 DEF GapEnds
    <3>2. k \in Nat /\ in <= k /\ k < size /\ k \in 0 .. size - 1
      BY <1>4, <3>1, Lengths
    <3>3. CASE k >= SlotSize
      BY <1>1, <3>1, <3>2, <3>3 DEF RawBytes
    <3>4. CASE k < SlotSize
      BY <1>4, <1>6, <1>8, <3>1, <3>2, <3>4, Lengths
    <3>5. QED
      BY <3>2, <3>3, <3>4, Lengths
  <2>2. QED
    BY <1>8, <2>1 DEF at, s
<1>9. QED
  BY <1>7, <1>8

\* Behind the blocks what passes for a gap end is memory, and so is what follows.
LEMMA GapEndBehind ==
    ASSUME file.side \in Sides, NEW size \in Nat, RawIs(raw, file.side, size), SlotSize <= size,
           in \in Nat,
           (OnTrack /\ got = Blocks(file.side)) \/ in >= SlotSize \/ in >= ImageSize(file.side)
    PROVE  \A k \in GapEnds :
                /\ k >= ImageSize(file.side) /\ k < SlotSize
                /\ \A j \in k .. size - 1 : raw[j] \in {Zero, Other, Undefined}
<1> DEFINE s == file.side
<1>1. RawBytes(raw, s, size) /\ Cardinality(DOMAIN raw) = size
  BY RawHas
<1>2. s \in Sides /\ Blocks(s) + 1 \in 1 .. Blocks(s) + 1 /\ Blocks(s) \in Nat /\ Blocks(s) >= 2
  BY SideType
<1>3. (OnTrack /\ got = Blocks(s)) \/ in >= SlotSize \/ in >= ImageSize(s)
  OBVIOUS
<1>4. OnTrack /\ got = Blocks(s) => in = ImageSize(s) - Gap
  BY <1>2 DEF OnTrack, ImageSize
<1> HIDE DEF s
<1>5. ImageSize(s) \in Nat
  BY <1>2, ImageNext DEF ImageSize
<1>6. ASSUME NEW k \in Nat, k >= ImageSize(s), NEW b \in 1 .. Blocks(s) PROVE k \notin Span(s, b)
  <2>1. ImagePlace(s, b) + Size(s, b) + 3 + Gap <= ImageSize(s)
    BY <1>2, SpanEnds
  <2>2. ImagePlace(s, b) \in Nat /\ Size(s, b) \in Nat
    BY <1>2, SpanType
  <2>3. QED
    BY <1>5, <1>6, <2>1, <2>2, Lengths DEF Span
<1>7. ASSUME NEW k \in GapEnds
      PROVE  /\ k >= ImageSize(s) /\ k < SlotSize
             /\ \A j \in k .. size - 1 : raw[j] \in {Zero, Other, Undefined}
  <2>1. k \in in + MinGap .. size - 1 /\ raw[k] # Zero /\ raw[k] # Undefined
    BY <1>1 DEF GapEnds
  <2>2. k \in Nat /\ in <= k /\ k < size /\ k \in 0 .. size - 1
    BY <2>1, Lengths
  <2>3. k < SlotSize
    <3>1. k >= SlotSize => raw[k] = Undefined
      BY <1>1, <2>2 DEF RawBytes
    <3>2. QED
      BY <2>1, <2>2, <3>1, Lengths
  <2>4. k >= ImageSize(s)
    <3>1. CASE OnTrack /\ got = Blocks(s)
      <4> SUFFICES ASSUME k < ImageSize(s) PROVE FALSE
        BY <1>5, <2>2
      <4>1. ImageSize(s) - Gap <= k
        BY <1>4, <2>2, <3>1
      <4>2. \A b \in 1 .. Blocks(s) : k \notin Span(s, b)
        BY <1>2, <2>2, <4>1, NoBlockBetween DEF ImageSize
      <4>3. QED
        BY <1>1, <2>1, <2>2, <2>3, <4>2 DEF RawBytes
    <3>2. CASE in >= SlotSize
      BY <2>2, <2>3, <3>2, Lengths
    <3>3. CASE in >= ImageSize(s)
      BY <1>5, <2>2, <3>3
    <3>4. QED
      BY <1>3, <3>1, <3>2, <3>3
  <2>5. ASSUME NEW j \in k .. size - 1 PROVE raw[j] \in {Zero, Other, Undefined}
    <3>1. j \in 0 .. size - 1 /\ j \in Nat /\ j >= ImageSize(s)
      BY <1>5, <2>2, <2>4
    <3>2. \A b \in 1 .. Blocks(s) : j \notin Span(s, b)
      BY <1>6, <3>1
    <3>3. QED
      BY <1>1, <3>1, <3>2 DEF RawBytes
  <2>6. QED
    BY <2>3, <2>4, <2>5
<1>8. QED
  BY <1>7 DEF s

-----------------------------------------------------------------------------
(* decoding *)

\* a block that -F can read, if it can read those before it
Fits(s, b) ==
    /\ Type(s, b) = Expected(b)
    /\ ImagePlace(s, b) + Size(s, b) + 3 <= SlotSize
    /\ PlaceOf(s, b + 1) <= FdsSize

LEMMA ReadableIs ==
    ASSUME NEW s, NEW b
    PROVE  b \in Readable(s) <=> b \in 1 .. Blocks(s) /\ \A c \in 1 .. b : Fits(s, c)
BY DEF Readable, Fits

\* Behind what has been read, a block is readable if it fits.
LEMMA ReadableNext ==
    ASSUME NEW s \in Sides, NEW g \in 1 .. Blocks(s), \A b \in 1 .. g - 1 : b \in Readable(s)
    PROVE  /\ Fits(s, g) => g \in Readable(s)
           /\ ~Fits(s, g) => \A b \in Readable(s) : b \in 1 .. g - 1
<1> Blocks(s) \in Nat
  BY SideType
<1>1. ASSUME Fits(s, g) PROVE g \in Readable(s)
  <2>1. \A c \in 1 .. g - 1 : Fits(s, c)
    BY ReadableIs
  <2>2. \A c \in 1 .. g : Fits(s, c)
    BY <1>1, <2>1
  <2>3. QED
    BY <2>2, ReadableIs
<1>2. ASSUME ~Fits(s, g), NEW b \in Readable(s) PROVE b \in 1 .. g - 1
  <2>1. b \in 1 .. Blocks(s) /\ (g \in 1 .. b => Fits(s, g))
    BY ReadableIs
  <2>2. QED
    BY <1>2, <2>1
<1>3. QED
  BY <1>1, <1>2

\* What is readable has come back, and stays behind what is written next.
Kept ==
    /\ \A b \in Readable(file.side) :
        InPlace(file.side, b) /\ PlaceOf(file.side, b + 1) <= out
    /\ got >= 2 => {1, 2} \subseteq Readable(file.side)

LEMMA OnTrackKept ==
    ASSUME file.side \in Sides, OnTrack, got < Blocks(file.side) => ~Fits(file.side, got + 1)
    PROVE  Kept
<1> DEFINE s == file.side
<1>1. s \in Sides /\ Blocks(s) \in Nat /\ got \in 0 .. Blocks(s) /\ out = PlaceOf(s, got + 1)
      /\ \A b \in 1 .. got : b \in Readable(s) /\ InPlace(s, b)
  BY SideType DEF OnTrack
<1>2. got < Blocks(s) => ~Fits(s, got + 1)
  OBVIOUS
<1> HIDE DEF s
<1>3. ASSUME NEW b \in Readable(s) PROVE b \in 1 .. got
  <2>1. CASE got < Blocks(s)
    <3>1. got + 1 \in 1 .. Blocks(s) /\ (got + 1) - 1 = got
      BY <1>1, <2>1
    <3>2. QED
      BY <1>1, <1>2, <2>1, <3>1, ReadableNext
  <2>2. CASE got = Blocks(s)
    BY <1>1, <2>2, ReadableIs
  <2>3. QED
    BY <1>1, <2>1, <2>2
<1>4. ASSUME NEW b \in Readable(s) PROVE InPlace(s, b) /\ PlaceOf(s, b + 1) <= out
  <2>1. b \in 1 .. got /\ b \in 1 .. Blocks(s) /\ got + 1 \in 1 .. Blocks(s) + 1 /\ b < got + 1
    BY <1>1, <1>3
  <2>2. PlaceOf(s, b) + Size(s, b) <= PlaceOf(s, got + 1)
    BY <1>1, <2>1, BlockOrder
  <2>3. PlaceOf(s, b + 1) = PlaceOf(s, b) + Size(s, b)
    BY <1>1, <2>1, PlaceNext
  <2>4. QED
    BY <1>1, <2>1, <2>2, <2>3
<1>5. got >= 2 => {1, 2} \subseteq Readable(s)
  BY <1>1
<1>6. QED
  BY <1>4, <1>5 DEF Kept, s

LEMMA OffTrackKept == OffTrack => Kept
BY DEF OffTrack, Kept

\* What is written behind the last block leaves those that have come back.
LEMMA InPlaceStays ==
    ASSUME NEW s \in Sides, NEW b \in 1 .. Blocks(s), InPlace(s, b), PlaceOf(s, b + 1) <= out,
           out \in 0 .. FdsSize,
           \A k \in 0 .. FdsSize - 1 : k < out => fds'[k] = fds[k]
    PROVE  \A k \in 0 .. Size(s, b) - 1 :
                fds'[PlaceOf(s, b) + k] = <<b, k>> /\ PlaceOf(s, b) + k \in 0 .. FdsSize - 1
<1>1. b \in 1 .. Blocks(s) + 1 /\ PlaceOf(s, b) \in Nat /\ Size(s, b) \in Nat
  BY SideType, PlaceType
<1>2. PlaceOf(s, b) + Size(s, b) <= out
  BY PlaceNext
<1>3. ASSUME NEW k \in 0 .. Size(s, b) - 1
      PROVE  fds'[PlaceOf(s, b) + k] = <<b, k>> /\ PlaceOf(s, b) + k \in 0 .. FdsSize - 1
  <2>1. fds[PlaceOf(s, b) + k] = <<b, k>>
    BY DEF InPlace
  <2>2. PlaceOf(s, b) + k \in 0 .. FdsSize - 1 /\ PlaceOf(s, b) + k < out
    BY <1>1, <1>2, Lengths
  <2>3. QED
    BY <2>1, <2>2
<1>4. QED
  BY <1>3

\* When decoding ends all that is readable has come back.
LEMMA Ended ==
    ASSUME file.side \in Sides, Kept, got \in Nat, out \in 0 .. FdsSize,
           \A k \in 0 .. FdsSize - 1 : k < out => fds'[k] = fds[k],
           Returns(IF got < 2 THEN "Failed." ELSE "Ok."), UNCHANGED file
    PROVE  SideComesBack'
<1> DEFINE s == file.side
<1>1. s \in Sides /\ s' = s
  OBVIOUS
<1>2. \A b \in Readable(s) : InPlace(s, b) /\ PlaceOf(s, b + 1) <= out
  BY DEF Kept
<1>3. exit' = "Ok." => {1, 2} \subseteq Readable(s)
  <2>1. exit' = IF got < 2 THEN "Failed." ELSE "Ok."
    BY DEF Returns
  <2>2. exit' = "Ok." => got >= 2
    BY <2>1
  <2>3. QED
    BY <2>2 DEF Kept
<1> HIDE DEF s
<1>4. ASSUME NEW b \in Readable(s), NEW k \in 0 .. FdsSize - 1,
             k - PlaceOf(s, b) \in 0 .. Size(s, b) - 1
      PROVE  fds'[k] = <<b, k - PlaceOf(s, b)>>
  <2>1. b \in 1 .. Blocks(s) /\ InPlace(s, b) /\ PlaceOf(s, b + 1) <= out
    BY <1>2, ReadableIs
  <2>2. \A j \in 0 .. Size(s, b) - 1 : fds'[PlaceOf(s, b) + j] = <<b, j>>
    BY <1>1, <2>1, InPlaceStays
  <2>3. b \in 1 .. Blocks(s) + 1 /\ PlaceOf(s, b) \in Nat
    BY <1>1, <2>1, SideType, PlaceType
  <2>4. PICK j \in 0 .. Size(s, b) - 1 : j = k - PlaceOf(s, b)
    BY <1>4
  <2>5. PlaceOf(s, b) + j = k
    BY <2>3, <2>4, Lengths
  <2>6. QED
    BY <2>2, <2>4, <2>5
<1>5. QED
  BY <1>1, <1>3, <1>4 DEF SideComesBack, s

\* block_decode writes from out on, and bytes that are on the disk.
LEMMA DecodedType ==
    ASSUME file.side \in Sides, NEW size \in Nat, RawIs(raw, file.side, size),
           IsFds(fds), out \in 0 .. FdsSize, in \in Nat,
           GapEnds # {}, NEW n \in Nat, Min(GapEnds) + n < size, out + n <= FdsSize + 2
    PROVE  /\ IsFds(Decoded(n))
           /\ \A k \in 0 .. FdsSize - 1 : k < out => Decoded(n)[k] = fds[k]
           /\ \A k \in 0 .. FdsSize - 1 : k \in out .. out + n - 1 =>
                Decoded(n)[k] = LET b == raw[Min(GapEnds) + 1 + k - out]
                                IN  IF b = Undefined THEN Zero ELSE b
<1> DEFINE m == Min(GapEnds)
           D == DOMAIN fds \cup (out .. out + n - 1)
<1>1. m \in Nat /\ m + n < size
  <2>1. GapEnds \in SUBSET Nat
    BY Lengths DEF GapEnds
  <2>2. QED
    BY <2>1, MinIn
<1> HIDE DEF m
<1>2. /\ 0 .. FdsSize - 1 \subseteq DOMAIN fds /\ DOMAIN fds \subseteq 0 .. FdsSize + 2
      /\ \A k \in DOMAIN fds : fds[k] \in Bytes
  BY DEF IsFds
<1>3. Decoded(n) = [k \in D |->
                        IF k \in out .. out + n - 1 THEN
                            LET b == raw[m + 1 + k - out]
                            IN  IF k >= FdsSize THEN Other ELSE IF b = Undefined THEN Zero ELSE b
                        ELSE fds[k]]
  BY DEF Decoded, m
<1>4. \A k \in 0 .. size - 1 : raw[k] \in Bytes
  BY RawHas DEF RawBytes
<1>5. Zero \in Bytes /\ Other \in Bytes
  BY DEF Bytes
<1>6. out \in Nat /\ FdsSize \in Nat /\ out .. out + n - 1 \subseteq 0 .. FdsSize + 2
  BY Lengths
<1>7. 0 .. FdsSize - 1 \subseteq D /\ D \subseteq 0 .. FdsSize + 2
  BY <1>2, <1>6
<1>8. ASSUME NEW k \in D, k \in out .. out + n - 1
      PROVE  /\ k < FdsSize =>
                    Decoded(n)[k] = (LET b == raw[m + 1 + k - out] IN IF b = Undefined THEN Zero ELSE b)
             /\ Decoded(n)[k] \in Bytes
  <2>1. m + 1 + k - out \in 0 .. size - 1 /\ k \in Nat
    BY <1>1, <1>6, <1>8
  <2>2. raw[m + 1 + k - out] \in Bytes
    BY <1>4, <2>1
  <2>3. Decoded(n)[k] = LET b == raw[m + 1 + k - out]
                        IN  IF k >= FdsSize THEN Other ELSE IF b = Undefined THEN Zero ELSE b
    BY <1>3, <1>8, Zenon
  <2>4. k < FdsSize => ~(k >= FdsSize)
    BY <1>6, <2>1
  <2>5. QED
    BY <1>5, <2>2, <2>3, <2>4
<1>9. ASSUME NEW k \in D, k \notin out .. out + n - 1
      PROVE  Decoded(n)[k] = fds[k] /\ Decoded(n)[k] \in Bytes
  <2>1. Decoded(n)[k] = fds[k]
    BY <1>3, <1>9, Zenon
  <2>2. k \in DOMAIN fds
    BY <1>9
  <2>3. QED
    BY <1>2, <2>1, <2>2
<1>10. IsFds(Decoded(n))
  <2> DEFINE f == Decoded(n)
  <2>1. DOMAIN f = D /\ f = [k \in D |-> f[k]]
    BY <1>3
  <2>2. \A k \in D : f[k] \in Bytes
    BY <1>8, <1>9
  <2> HIDE DEF f, D
  <2>3. f \in [D -> Bytes]
    BY <2>1, <2>2
  <2>4. QED
    BY <1>7, <2>1, <2>3 DEF IsFds, f
<1>11. ASSUME NEW k \in 0 .. FdsSize - 1
       PROVE  /\ k < out => Decoded(n)[k] = fds[k]
              /\ k \in out .. out + n - 1 =>
                    Decoded(n)[k] = LET b == raw[m + 1 + k - out] IN IF b = Undefined THEN Zero ELSE b
  <2>1. k \in D /\ k < FdsSize
    BY <1>6, <1>7
  <2>2. k < out => k \notin out .. out + n - 1
    BY <1>6
  <2>3. QED
    BY <1>8, <1>9, <2>1, <2>2
<1>12. QED
  BY <1>10, <1>11 DEF m

\* The CRC of a block and the bit behind it are cleared in memory, if not in the side.
LEMMA ClearedType ==
    ASSUME NEW f, IsFds(f), NEW at \in 0 .. FdsSize
    PROVE  /\ IsFds(CrcCleared(f, at))
           /\ \A k \in 0 .. FdsSize - 1 : k < at => CrcCleared(f, at)[k] = f[k]
<1> DEFINE D == DOMAIN f \cup (at .. at + 2)
           g == CrcCleared(f, at)
<1>1. g = [k \in D |-> IF k \in at .. at + 2 THEN Zero ELSE f[k]]
  BY DEF CrcCleared
<1>2. /\ 0 .. FdsSize - 1 \subseteq DOMAIN f /\ DOMAIN f \subseteq 0 .. FdsSize + 2
      /\ \A k \in DOMAIN f : f[k] \in Bytes
  BY DEF IsFds
<1>3. 0 .. FdsSize - 1 \subseteq D /\ D \subseteq 0 .. FdsSize + 2
  <2>1. at .. at + 2 \subseteq 0 .. FdsSize + 2
    BY Lengths
  <2>2. QED
    BY <1>2, <2>1
<1>4. DOMAIN g = D /\ g = [k \in D |-> g[k]]
  BY <1>1
<1>5. \A k \in D : g[k] \in Bytes
  <2>1. Zero \in Bytes
    BY DEF Bytes
  <2>2. \A k \in D : g[k] = IF k \in at .. at + 2 THEN Zero ELSE f[k]
    BY <1>1, Zenon
  <2> HIDE DEF g
  <2>3. QED
    BY <1>2, <2>1, <2>2
<1>6. \A k \in 0 .. FdsSize - 1 : k < at => g[k] = f[k]
  <2> SUFFICES ASSUME NEW k \in 0 .. FdsSize - 1, k < at PROVE g[k] = f[k]
    OBVIOUS
  <2>1. k \in D /\ k \notin at .. at + 2
    BY <1>3, Lengths
  <2>2. QED
    BY <1>1, <2>1, Zenon
<1> HIDE DEF g, D
<1>7. g \in [D -> Bytes]
  BY <1>4, <1>5
<1>8. QED
  BY <1>3, <1>4, <1>6, <1>7 DEF IsFds, g

LEMMA SpareType ==
    ASSUME NEW f, IsFds(f), NEW at \in 0 .. FdsSize + 2
    PROVE  /\ IsFds(SpareBit(f, at))
           /\ \A k \in 0 .. FdsSize - 1 : k < at => SpareBit(f, at)[k] = f[k]
<1> DEFINE D == DOMAIN f \cup {at}
           g == SpareBit(f, at)
<1>1. g = [k \in D |-> IF k = at THEN Other ELSE f[k]]
  BY DEF SpareBit
<1>2. /\ 0 .. FdsSize - 1 \subseteq DOMAIN f /\ DOMAIN f \subseteq 0 .. FdsSize + 2
      /\ \A k \in DOMAIN f : f[k] \in Bytes
  BY DEF IsFds
<1>3. 0 .. FdsSize - 1 \subseteq D /\ D \subseteq 0 .. FdsSize + 2
  BY <1>2
<1>4. DOMAIN g = D /\ g = [k \in D |-> g[k]]
  BY <1>1
<1>5. \A k \in D : g[k] \in Bytes
  <2>1. Other \in Bytes
    BY DEF Bytes
  <2>2. \A k \in D : g[k] = IF k = at THEN Other ELSE f[k]
    BY <1>1, Zenon
  <2> HIDE DEF g
  <2>3. QED
    BY <1>2, <2>1, <2>2
<1>6. \A k \in 0 .. FdsSize - 1 : k < at => g[k] = f[k]
  <2> SUFFICES ASSUME NEW k \in 0 .. FdsSize - 1, k < at PROVE g[k] = f[k]
    OBVIOUS
  <2>1. k \in D /\ k # at
    BY <1>3, Lengths
  <2>2. QED
    BY <1>1, <2>1, Zenon
<1> HIDE DEF g, D
<1>7. g \in [D -> Bytes]
  BY <1>4, <1>5
<1>8. QED
  BY <1>3, <1>4, <1>6, <1>7 DEF IsFds, g

\* what of a block that block_decode takes is in the side: its bytes
LEMMA TakenType ==
    ASSUME file.side \in Sides, NEW size \in Nat, RawIs(raw, file.side, size),
           IsFds(fds), out \in 0 .. FdsSize, in \in Nat, GapEnds # {},
           NEW n \in Nat, Min(GapEnds) \in Nat, Min(GapEnds) + n + 2 < size, out + n <= FdsSize,
           NEW f, f = CrcCleared(Decoded(n + 2), out + n)
    PROVE  /\ IsFds(f)
           /\ \A k \in 0 .. FdsSize - 1 : k < out => f[k] = fds[k]
           /\ \A k \in 0 .. FdsSize - 1 : k \in out .. out + n - 1 =>
                f[k] = LET b == raw[Min(GapEnds) + 1 + k - out]
                       IN  IF b = Undefined THEN Zero ELSE b
<1> DEFINE d == Decoded(n + 2)
<1>1. out \in Nat /\ FdsSize \in Nat
  BY Lengths
<1>2. n + 2 \in Nat /\ Min(GapEnds) + (n + 2) < size /\ out + (n + 2) <= FdsSize + 2
      /\ out + n \in 0 .. FdsSize
  BY <1>1
<1>3. /\ IsFds(d)
      /\ \A k \in 0 .. FdsSize - 1 : k < out => d[k] = fds[k]
      /\ \A k \in 0 .. FdsSize - 1 : k \in out .. out + (n + 2) - 1 =>
            d[k] = LET b == raw[Min(GapEnds) + 1 + k - out]
                   IN  IF b = Undefined THEN Zero ELSE b
  BY <1>2, DecodedType
<1> HIDE DEF d
<1>4. f = CrcCleared(d, out + n)
  BY DEF d
<1>5. IsFds(f) /\ \A k \in 0 .. FdsSize - 1 : k < out + n => f[k] = d[k]
  BY <1>2, <1>3, <1>4, ClearedType
<1>6. \A k \in 0 .. FdsSize - 1 :
        /\ k < out => k < out + n
        /\ k \in out .. out + n - 1 => k < out + n /\ k \in out .. out + (n + 2) - 1
  BY <1>1
<1>7. QED
  BY <1>3, <1>5, <1>6

\* A file's header has come back, and with it the size of its data.
LEMMA NextSizeKnown ==
    ASSUME file.side \in Sides, OnTrack, got < Blocks(file.side)
    PROVE  NextSizes = {Size(file.side, got + 1)}
<1> DEFINE s == file.side
<1>1. s \in Sides /\ Blocks(s) \in Nat /\ got \in 0 .. Blocks(s) /\ out = PlaceOf(s, got + 1)
      /\ \A b \in 1 .. got : InPlace(s, b)
  BY SideType DEF OnTrack
<1>2. got < Blocks(s)
  OBVIOUS
<1>3. Size(file.side, got + 1) = Size(s, got + 1)
  OBVIOUS
<1>4. CASE got = 0
  <2>1. NextSizes = {HeadSize} /\ Size(s, got + 1) = HeadSize
    BY <1>4 DEF NextSizes, Size
  <2>2. QED
    BY <2>1
<1>5. CASE got = 1
  <2>1. NextSizes = {InfoSize} /\ Size(s, got + 1) = InfoSize
    BY <1>5 DEF NextSizes, Size
  <2>2. QED
    BY <2>1
<1>6. CASE got > 1 /\ got % 2 = 0
  <2>1. NextSizes = {FileSize}
    BY <1>1, <1>6 DEF NextSizes
  <2>2. got + 1 # 1 /\ got + 1 # 2 /\ got + 1 > 2 /\ (got + 1) % 2 = 1
    BY <1>1, <1>6
  <2>3. Size(s, got + 1) = FileSize
    BY <2>2 DEF Size
  <2>4. QED
    BY <2>1, <2>3
<1>7. CASE got > 1 /\ got % 2 = 1
  <2> DEFINE b == fds[out - FileSize + 1]
  <2>1. got # 0 /\ got # 1 /\ ~(got > 1 /\ got % 2 = 0)
    BY <1>7
  <2>2. NextSizes = IF b[1] # 0 THEN {Size(s, b[1] + 1)}
                    ELSE IF b = Zero THEN {1} ELSE 1 .. FdsSize + 1
    BY <2>1 DEF NextSizes
  <2> HIDE DEF s, b
  <2>3. got \in 1 .. Blocks(s) /\ got \in 1 .. got /\ got # 2 /\ got > 2 /\ got \in 1 .. Blocks(s) + 1
    BY <1>1, <1>7
  <2>4. Size(s, got) = FileSize
    BY <1>7, <2>1, <2>3 DEF Size
  <2>5. out - FileSize + 1 = PlaceOf(s, got) + 1
    <3>1. out = PlaceOf(s, got) + FileSize /\ PlaceOf(s, got) \in Nat
      BY <1>1, <2>3, <2>4, PlaceNext, PlaceType
    <3>2. QED
      BY <3>1, Lengths
  <2>6. fds[PlaceOf(s, got) + 1] = <<got, 1>>
    <3>1. InPlace(s, got)
      BY <1>1, <2>3
    <3>2. 1 \in 0 .. Size(s, got) - 1
      BY <2>4, Lengths
    <3>3. QED
      BY <3>1, <3>2 DEF InPlace
  <2>7. b = <<got, 1>>
    BY <2>5, <2>6 DEF b
  <2>8. b[1] = got
    BY <2>7
  <2>9. QED
    BY <2>1, <2>2, <2>8 DEF s
<1>8. got = 0 \/ got = 1 \/ (got > 1 /\ (got % 2 = 0 \/ got % 2 = 1))
  BY <1>1
<1>9. QED
  BY <1>4, <1>5, <1>6, <1>7, <1>8

\* what block_decode found of a block: all of it
Found(n, size) ==
    /\ n \in NextSizes
    /\ GapEnds # {} /\ out + n <= FdsSize
    /\ Min(GapEnds) + n + 2 < size

\* The next block is where the decoder is, and its type is its own.
LEMMA NextFound ==
    ASSUME file.side \in Sides, NEW size \in Nat, RawIs(raw, file.side, size), SlotSize <= size,
           OnTrack, got < Blocks(file.side), NEW n, Found(n, size)
    PROVE  LET s == file.side
               at == ImagePlace(s, got + 1)
           IN  /\ Min(GapEnds) = at /\ n = Size(s, got + 1) /\ at < SlotSize
               /\ at + n + 3 <= SlotSize =>
                    /\ RightType(raw[at + 1]) = {Type(s, got + 1) = Expected(got + 1)}
                    /\ \A j \in 0 .. n - 1 : raw[at + 1 + j] = <<got + 1, j>>
<1> DEFINE s == file.side
           at == ImagePlace(s, got + 1)
<1>1. s \in Sides /\ Blocks(s) \in Nat /\ got \in Nat /\ got + 1 \in 1 .. Blocks(s)
  BY SideType DEF OnTrack
<1>2. GapEnds # {} /\ n \in NextSizes
  BY DEF Found
<1>3. Min(GapEnds) = at /\ at < SlotSize
  BY <1>2, GapEndNext
<1>4. n = Size(s, got + 1)
  BY <1>2, NextSizeKnown
<1>5. RawBytes(raw, s, size)
  BY RawHas
<1>6. \A t : RightType(t) = IF t[1] # 0 THEN {t[2] = 0 /\ Type(s, t[1]) = Expected(got + 1)}
                            ELSE IF t = Other THEN BOOLEAN ELSE {FALSE}
  BY DEF RightType
<1> HIDE DEF s
<1>7. at \in Nat /\ n \in Nat \ {0} /\ Span(s, got + 1) = at .. at + n + 2
  BY <1>1, <1>4, SpanType DEF Span
<1>8. ASSUME at + n + 3 <= SlotSize, NEW j \in 0 .. n - 1
      PROVE  raw[at + 1 + j] = <<got + 1, j>>
  <2> DEFINE k == at + 1 + j
  <2>1. k \in Span(s, got + 1) /\ k < SlotSize /\ k \in 0 .. size - 1
    <3> HIDE DEF at
    <3>1. QED
      BY <1>7, <1>8, Lengths
  <2>2. raw[k] = ByteIn(s, got + 1, k)
    BY <1>1, <1>5, <2>1 DEF RawBytes
  <2>3. ByteIn(s, got + 1, k) = <<got + 1, k - at - 1>>
    <3>1. k # at /\ k - at \in 1 .. n
      <4> HIDE DEF at
      <4>1. QED
        BY <1>7
    <3>2. QED
      BY <1>4, <3>1 DEF ByteIn
  <2>4. k - at - 1 = j
    <3> HIDE DEF at
    <3>1. QED
      BY <1>7
  <2>5. QED
    BY <2>2, <2>3, <2>4
<1>9. ASSUME at + n + 3 <= SlotSize
      PROVE  RightType(raw[at + 1]) = {Type(s, got + 1) = Expected(got + 1)}
  <2>1. raw[at + 1 + 0] = <<got + 1, 0>>
    BY <1>7, <1>8, <1>9
  <2>2. at + 1 + 0 = at + 1
    BY <1>7
  <2>3. raw[at + 1] = <<got + 1, 0>> /\ got + 1 # 0
    BY <1>1, <2>1, <2>2
  <2> HIDE DEF at
  <2>4. raw[at + 1][1] = got + 1 /\ raw[at + 1][2] = 0
    BY <2>3
  <2>5. RightType(raw[at + 1]) = {0 = 0 /\ Type(s, got + 1) = Expected(got + 1)}
    BY <1>6, <2>3, <2>4
  <2>6. QED
    BY <2>5
<1>10. QED
  BY <1>3, <1>4, <1>8, <1>9 DEF s

\* A block of the right type comes back, if all of it is in the slot; what is
\* taken for one at the end of the slot is the last.
LEMMA TrackGoesOn ==
    ASSUME file.side \in Sides, NEW size \in Nat, RawIs(raw, file.side, size), SlotSize <= size,
           OnTrack, got < Blocks(file.side), NEW n, Found(n, size),
           IsFds(fds), out \in 0 .. FdsSize, in \in Nat,
           TRUE \in RightType(raw[Min(GapEnds) + 1]),
           fds' = CrcCleared(Decoded(n + 2), out + n), out' = out + n, got' = got + 1, in' = Min(GapEnds) + n + 3,
           UNCHANGED file
    PROVE  OnTrack' \/ OffTrack'
<1> DEFINE s == file.side
           g == got + 1
           at == ImagePlace(s, g)
<1>1. /\ s \in Sides /\ Blocks(s) \in Nat /\ got \in Nat /\ g \in 1 .. Blocks(s)
      /\ g \in 1 .. Blocks(s) + 1 /\ s' = s
  BY SideType DEF OnTrack
<1>2. /\ out = PlaceOf(s, g)
      /\ \A b \in 1 .. got : b \in Readable(s) /\ InPlace(s, b)
  BY DEF OnTrack
<1>3. /\ Min(GapEnds) = at /\ n = Size(s, g) /\ at < SlotSize
      /\ at + n + 3 <= SlotSize =>
            /\ RightType(raw[at + 1]) = {Type(s, g) = Expected(g)}
            /\ \A j \in 0 .. n - 1 : raw[at + 1 + j] = <<g, j>>
  BY NextFound
<1>4. at \in Nat /\ n \in Nat \ {0} /\ out + n <= FdsSize /\ at + n + 2 < size /\ GapEnds # {}
  BY <1>1, <1>3, SpanType DEF Found
<1>5. /\ PlaceOf(s, g + 1) = out + n
      /\ ImagePlace(s, g + 1) - Gap = at + n + 3
  <2>1. PlaceOf(s, g + 1) = PlaceOf(s, g) + Size(s, g)
    BY <1>1, PlaceNext
  <2>2. ImagePlace(s, g + 1) = at + Size(s, g) + 3 + Gap
    BY <1>1, ImageNext
  <2> HIDE DEF at, g
  <2>3. QED
    BY <1>2, <1>3, <1>4, <2>1, <2>2, Lengths
<1>6. /\ \A k \in 0 .. FdsSize - 1 : k < out => fds'[k] = fds[k]
      /\ \A k \in 0 .. FdsSize - 1 : k \in out .. out + n - 1 =>
            fds'[k] = LET b == raw[at + 1 + k - out] IN IF b = Undefined THEN Zero ELSE b
  <2>1. n \in Nat /\ Min(GapEnds) \in Nat /\ Min(GapEnds) + n + 2 < size
    <3>1. at + n + 2 < size /\ n \in Nat
      BY <1>4
    <3> HIDE DEF at
    <3>2. QED
      BY <1>3, <1>4, <3>1
  <2>2. /\ \A k \in 0 .. FdsSize - 1 : k < out => fds'[k] = fds[k]
        /\ \A k \in 0 .. FdsSize - 1 : k \in out .. out + n - 1 =>
            fds'[k] = LET b == raw[Min(GapEnds) + 1 + k - out]
                      IN  IF b = Undefined THEN Zero ELSE b
    BY <1>4, <2>1, TakenType
  <2> HIDE DEF at
  <2>3. QED
    BY <1>3, <2>2
<1>7. in' = at + n + 3
  BY <1>3
<1> HIDE DEF s
\* those that have come back stay
<1>8. ASSUME NEW b \in 1 .. got PROVE InPlace(s, b)' /\ PlaceOf(s, b + 1) <= out
  <2>1. b \in 1 .. Blocks(s) /\ b < g /\ InPlace(s, b)
    BY <1>1, <1>2
  <2>2. PlaceOf(s, b + 1) <= out
    <3>1. PlaceOf(s, b) + Size(s, b) <= PlaceOf(s, g)
      BY <1>1, <2>1, BlockOrder
    <3>2. PlaceOf(s, b + 1) = PlaceOf(s, b) + Size(s, b)
      BY <1>1, <2>1, PlaceNext
    <3>3. QED
      BY <1>2, <3>1, <3>2
  <2>3. \A k \in 0 .. Size(s, b) - 1 : fds'[PlaceOf(s, b) + k] = <<b, k>>
    BY <1>1, <1>6, <2>1, <2>2, InPlaceStays
  <2>4. QED
    BY <1>1, <2>2, <2>3 DEF InPlace
<1>9. CASE at + n + 3 <= SlotSize
  <2>1. Type(s, g) = Expected(g)
    BY <1>3, <1>9
  <2>2. g \in Readable(s)
    <3>1. Fits(s, g)
      BY <1>3, <1>4, <1>5, <1>9, <2>1 DEF Fits
    <3>2. \A b \in 1 .. g - 1 : b \in Readable(s)
      BY <1>1, <1>2
    <3>3. QED
      BY <1>1, <3>1, <3>2, ReadableNext
  <2>3. \A k \in 0 .. Size(s, g) - 1 : fds'[PlaceOf(s, g) + k] = <<g, k>>
    <3> SUFFICES ASSUME NEW k \in 0 .. Size(s, g) - 1 PROVE fds'[PlaceOf(s, g) + k] = <<g, k>>
      OBVIOUS
    <3>1. raw[at + 1 + k] = <<g, k>>
      BY <1>3, <1>9
    <3>2. <<g, k>> # Undefined
      BY <1>1 DEF Undefined
    <3>3. out + k \in 0 .. FdsSize - 1 /\ out + k \in out .. out + n - 1
          /\ at + 1 + (out + k) - out = at + 1 + k
      <4>1. k \in 0 .. n - 1 /\ n \in Nat /\ out \in Nat /\ at \in Nat /\ out + n <= FdsSize
        BY <1>3, <1>4, Lengths
      <4> HIDE DEF at, g
      <4>2. QED
        BY <4>1, Lengths
    <3>4. fds'[out + k] = <<g, k>>
      BY <1>6, <3>1, <3>2, <3>3
    <3>5. QED
      BY <1>2, <3>4
  <2>4. \A b \in 1 .. g : b \in Readable(s) /\ InPlace(s, b)'
    <3> SUFFICES ASSUME NEW b \in 1 .. g PROVE b \in Readable(s) /\ InPlace(s, b)'
      OBVIOUS
    <3>1. CASE b = g
      BY <1>1, <2>2, <2>3, <3>1 DEF InPlace
    <3>2. CASE b \in 1 .. got
      BY <1>2, <1>8, <3>2
    <3>3. QED
      BY <1>1, <3>1, <3>2
  <2>5. got' \in 0 .. Blocks(s) /\ got' # 0 /\ got' = g
    BY <1>1
  <2> HIDE DEF g, at
  <2>6. OnTrack'
    BY <1>1, <1>5, <1>7, <2>4, <2>5 DEF OnTrack, s
  <2>7. QED
    BY <2>6
<1>10. CASE ~(at + n + 3 <= SlotSize)
  <2>1. ~Fits(s, g)
    BY <1>3, <1>10 DEF Fits
  <2>2. got >= 2
    <3>1. /\ ImagePlace(s, 1) = LeadIn /\ Size(s, 1) = HeadSize /\ Size(s, 2) = InfoSize
          /\ 1 \in 1 .. Blocks(s)
      BY <1>1, ImageNext, SideType
    <3>2. ImagePlace(s, 1 + 1) = LeadIn + HeadSize + 3 + Gap
      BY <1>1, <3>1, ImageNext
    <3>3. g # 1
      BY <1>3, <1>10, <3>1, Lengths
    <3>4. g # 2
      BY <1>3, <1>10, <3>1, <3>2, Lengths
    <3>5. QED
      BY <1>1, <3>3, <3>4
  <2>3. \A b \in Readable(s) : b \in 1 .. got
    <3>1. \A b \in 1 .. g - 1 : b \in Readable(s)
      BY <1>1, <1>2
    <3>2. g - 1 = got
      BY <1>1
    <3>3. QED
      BY <1>1, <2>1, <3>1, <3>2, ReadableNext
  <2>4. {1, 2} \subseteq Readable(s)
    BY <1>1, <1>2, <2>2
  <2>5. \A b \in Readable(s) : InPlace(s, b)' /\ PlaceOf(s, b + 1) <= out'
    <3> SUFFICES ASSUME NEW b \in Readable(s) PROVE InPlace(s, b)' /\ PlaceOf(s, b + 1) <= out'
      OBVIOUS
    <3>1. InPlace(s, b)' /\ PlaceOf(s, b + 1) <= out
      BY <1>8, <2>3
    <3>2. PlaceOf(s, b + 1) \in Nat
      <4>1. b + 1 \in 1 .. Blocks(s) + 1
        BY <1>1, <2>3
      <4>2. QED
        BY <1>1, <4>1, PlaceType
    <3>3. QED
      BY <1>4, <3>1, <3>2, Lengths
  <2>6. in' >= SlotSize /\ got' > 2
    <3> HIDE DEF at
    <3>1. QED
      BY <1>1, <1>4, <1>7, <1>10, <2>2, Lengths
  <2>7. OffTrack'
    BY <1>1, <2>4, <2>5, <2>6 DEF OffTrack, s
  <2>8. QED
    BY <2>7
<1>11. QED
  BY <1>9, <1>10

\* Behind the last block the size of what follows is taken from memory.
LEMMA BehindSize ==
    ASSUME file.side \in Sides, NEW size \in Nat, RawIs(raw, file.side, size), SlotSize <= size,
           (OnTrack /\ got = Blocks(file.side)) \/ OffTrack,
           NEW n, n \in NextSizes, GapEnds # {}, in \in Nat, got \in Nat
    PROVE  /\ Kept /\ got >= 2
           /\ n \in Nat /\ (got % 2 = 0 => n = FileSize)
           /\ Min(GapEnds) \in Nat /\ Min(GapEnds) >= ImageSize(file.side)
           /\ \A j \in Min(GapEnds) .. size - 1 : raw[j] \in {Zero, Other, Undefined}
<1> DEFINE s == file.side
           m == Min(GapEnds)
<1>1. s \in Sides /\ Blocks(s) \in Nat /\ Blocks(s) >= 2 /\ Blocks(s) % 2 = 0
      /\ ImageSize(s) \in Nat
  <2>1. s \in Sides
    OBVIOUS
  <2> HIDE DEF s
  <2>2. Len(s.files) \in Nat /\ Blocks(s) + 1 \in 1 .. Blocks(s) + 1
    BY <2>1, SideType
  <2>3. Blocks(s) \in Nat /\ Blocks(s) >= 2 /\ Blocks(s) % 2 = 0
    <3>1. \A l \in Nat : 2 + 2 * l \in Nat /\ 2 + 2 * l >= 2 /\ (2 + 2 * l) % 2 = 0
      OBVIOUS
    <3>2. QED
      BY <2>2, <3>1 DEF Blocks
  <2>4. ImageSize(s) \in Nat
    BY <2>1, <2>2, ImageNext DEF ImageSize
  <2>5. QED
    BY <2>1, <2>3, <2>4 DEF s
<1>2. Kept /\ got >= 2
  <2>1. CASE OffTrack
    BY <2>1, OffTrackKept DEF OffTrack
  <2>2. CASE OnTrack /\ got = Blocks(s)
    <3>1. ~(got < Blocks(file.side))
      BY <1>1, <2>2
    <3>2. Kept
      BY <2>2, <3>1, OnTrackKept
    <3>3. QED
      BY <1>1, <2>2, <3>2
  <2>3. QED
    BY <2>1, <2>2
<1>3. GapEnds # {} /\ n \in NextSizes
  OBVIOUS
<1>4. m \in GapEnds /\ m \in Nat
  <2>1. GapEnds \in SUBSET Nat
    BY Lengths DEF GapEnds
  <2>2. QED
    BY <1>3, <2>1, MinIn
<1>5. (OnTrack /\ got = Blocks(file.side)) \/ in >= SlotSize \/ in >= ImageSize(file.side)
  BY DEF OffTrack
<1>6. /\ m >= ImageSize(s) /\ m < SlotSize
      /\ \A j \in m .. size - 1 : raw[j] \in {Zero, Other, Undefined}
  BY <1>4, <1>5, GapEndBehind
<1>7. in < SlotSize
  <2>1. m >= in + MinGap
    BY <1>4, Lengths DEF GapEnds
  <2> HIDE DEF m
  <2>2. QED
    BY <1>4, <1>6, <2>1, Lengths
<1>8. n \in Nat /\ (got % 2 = 0 => n = FileSize)
  <2>1. CASE got % 2 = 0
    <3>1. NextSizes = {FileSize}
      BY <1>2, <2>1 DEF NextSizes
    <3>2. QED
      BY <1>3, <3>1, Lengths
  <2>2. CASE got % 2 = 1
    <3>1. OffTrack /\ got % 2 = 1
      BY <1>1, <2>2
    <3>2. fds[out - FileSize + 1] \in {Zero, Other}
      BY <1>7, <3>1, Lengths DEF OffTrack
    <3>3. fds[out - FileSize + 1][1] = 0
      BY <3>2 DEF Zero, Other
    <3>4. got # 0 /\ got # 1 /\ ~(got > 1 /\ got % 2 = 0)
      BY <1>2, <2>2
    <3>5. NextSizes = IF fds[out - FileSize + 1] = Zero THEN {1} ELSE 1 .. FdsSize + 1
      BY <3>3, <3>4 DEF NextSizes
    <3>6. n \in {1} \cup 1 .. FdsSize + 1
      BY <1>3, <3>5
    <3>7. QED
      BY <2>2, <3>6, Lengths
  <2>3. QED
    BY <2>1, <2>2
<1>9. QED
  BY <1>2, <1>4, <1>6, <1>8

\* Whatever is taken for a block there leaves those that have come back.
LEMMA BehindGoesOn ==
    ASSUME file.side \in Sides, NEW size \in Nat, RawIs(raw, file.side, size), SlotSize <= size,
           (OnTrack /\ got = Blocks(file.side)) \/ OffTrack,
           NEW n, Found(n, size),
           IsFds(fds), out \in 0 .. FdsSize, in \in Nat, got \in Nat,
           fds' = CrcCleared(Decoded(n + 2), out + n), out' = out + n, got' = got + 1, in' = Min(GapEnds) + n + 3,
           UNCHANGED file
    PROVE  n \in Nat /\ OffTrack'
<1> DEFINE s == file.side
           m == Min(GapEnds)
<1>1. s \in Sides /\ Blocks(s) \in Nat /\ Blocks(s) >= 2 /\ Blocks(s) % 2 = 0 /\ s' = s
      /\ ImageSize(s) \in Nat
  <2>1. s \in Sides
    OBVIOUS
  <2> HIDE DEF s
  <2>2. Len(s.files) \in Nat /\ Blocks(s) + 1 \in 1 .. Blocks(s) + 1
    BY <2>1, SideType
  <2>3. Blocks(s) \in Nat /\ Blocks(s) >= 2 /\ Blocks(s) % 2 = 0
    <3>1. \A l \in Nat : 2 + 2 * l \in Nat /\ 2 + 2 * l >= 2 /\ (2 + 2 * l) % 2 = 0
      OBVIOUS
    <3>2. QED
      BY <2>2, <3>1 DEF Blocks
  <2>4. ImageSize(s) \in Nat
    BY <2>1, <2>2, ImageNext DEF ImageSize
  <2>5. QED
    BY <2>1, <2>3, <2>4 DEF s
<1>2. Kept /\ got >= 2
  BY BehindSize DEF Found
<1>3. GapEnds # {} /\ n \in NextSizes /\ out + n <= FdsSize /\ m + n + 2 < size
  BY DEF Found
<1>4. m \in Nat
  BY <1>3, BehindSize
<1>5. /\ m >= ImageSize(s)
      /\ \A j \in m .. size - 1 : raw[j] \in {Zero, Other, Undefined}
  BY <1>3, BehindSize
<1>6. n \in Nat /\ (got % 2 = 0 => n = FileSize)
  BY <1>3, BehindSize
<1>7. /\ \A k \in 0 .. FdsSize - 1 : k < out => fds'[k] = fds[k]
      /\ \A k \in 0 .. FdsSize - 1 : k \in out .. out + n - 1 =>
            fds'[k] = LET b == raw[m + 1 + k - out] IN IF b = Undefined THEN Zero ELSE b
  <2>1. Min(GapEnds) \in Nat /\ Min(GapEnds) + n + 2 < size
    BY <1>3, <1>4
  <2>2. QED
    BY <1>3, <1>6, <2>1, TakenType
<1> HIDE DEF s, m
<1>8. ASSUME NEW b \in Readable(s) PROVE InPlace(s, b)' /\ PlaceOf(s, b + 1) <= out'
  <2>1. InPlace(s, b) /\ PlaceOf(s, b + 1) <= out
    BY <1>2 DEF Kept, s
  <2>2. b \in 1 .. Blocks(s)
    BY ReadableIs
  <2>3. \A k \in 0 .. Size(s, b) - 1 : fds'[PlaceOf(s, b) + k] = <<b, k>>
    BY <1>1, <1>7, <2>1, <2>2, InPlaceStays
  <2>4. PlaceOf(s, b + 1) \in Nat
    <3>1. b + 1 \in 1 .. Blocks(s) + 1
      BY <1>1, <2>2
    <3>2. QED
      BY <1>1, <3>1, PlaceType
  <2>5. PlaceOf(s, b + 1) <= out'
    BY <1>6, <2>1, <2>4, Lengths
  <2>6. QED
    BY <1>1, <2>3, <2>5 DEF InPlace
<1>9. {1, 2} \subseteq Readable(s)
  BY <1>2 DEF Kept, s
<1>10. in' >= ImageSize(s) /\ got' > 2
  <2>1. in' = m + n + 3
    BY DEF m
  <2>2. QED
    BY <1>1, <1>2, <1>4, <1>5, <1>6, <2>1
<1>11. ASSUME got' % 2 = 1 PROVE fds'[out' - FileSize + 1] \in {Zero, Other}
  <2>1. n = FileSize
    <3>1. got % 2 = 0
      BY <1>11
    <3>2. QED
      BY <1>6, <3>1
  <2>2. out' - FileSize + 1 = out + 1 /\ out + 1 \in 0 .. FdsSize - 1 /\ out + 1 \in out .. out + n - 1
        /\ m + 1 + (out + 1) - out = m + 2 /\ m + 2 \in m .. size - 1
    BY <1>3, <1>4, <1>6, <2>1, Lengths
  <2>3. raw[m + 2] \in {Zero, Other, Undefined}
    BY <1>5, <2>2
  <2>4. fds'[out + 1] = IF raw[m + 2] = Undefined THEN Zero ELSE raw[m + 2]
    BY <1>7, <2>2
  <2>5. QED
    BY <2>2, <2>3, <2>4
<1>12. OffTrack'
  BY <1>1, <1>8, <1>9, <1>10, <1>11 DEF OffTrack, s
<1>13. QED
  BY <1>6, <1>12

\* Decoding ends where nothing readable follows.
LEMMA TrackEnds ==
    ASSUME file.side \in Sides, NEW size \in Nat, RawIs(raw, file.side, size), SlotSize <= size,
           OnTrack, NEW n \in NextSizes,
           NoBlock(n) \/ CutShort(n) \/ FALSE \in RightType(raw[Min(GapEnds) + 1])
    PROVE  Kept
<1> DEFINE s == file.side
           g == got + 1
           at == ImagePlace(s, g)
<1>1. s \in Sides /\ Blocks(s) \in Nat /\ got \in 0 .. Blocks(s) /\ got \in Nat /\ out = PlaceOf(s, g)
  BY SideType DEF OnTrack
<1>2. CASE got = Blocks(s)
  <2>1. ~(got < Blocks(file.side))
    BY <1>1, <1>2
  <2>2. QED
    BY <2>1, OnTrackKept
<1>3. CASE got < Blocks(s)
  <2>1. g \in 1 .. Blocks(s) /\ n = Size(s, g) /\ n \in Nat /\ at \in Nat
    <3>1. n = Size(file.side, got + 1)
      BY <1>3, NextSizeKnown
    <3>2. g \in 1 .. Blocks(s)
      BY <1>1, <1>3
    <3>3. QED
      BY <1>1, <3>1, <3>2, SpanType
  <2>2. IF at < SlotSize THEN GapEnds # {} /\ Min(GapEnds) = at ELSE GapEnds = {}
    BY <1>3, GapEndNext
  <2>3. Cardinality(DOMAIN raw) = size
    BY RawHas
  <2>4. PlaceOf(s, g + 1) = out + n /\ out \in Nat
    <3>1. g \in 1 .. Blocks(s) + 1
      BY <1>1, <2>1
    <3>2. PlaceOf(s, g + 1) = PlaceOf(s, g) + Size(s, g) /\ PlaceOf(s, g) \in Nat
      BY <1>1, <2>1, <3>1, PlaceNext, PlaceType
    <3>3. QED
      BY <1>1, <2>1, <3>2
  <2>5. Fits(s, g) => at + n + 3 <= SlotSize /\ out + n <= FdsSize /\ Type(s, g) = Expected(g)
    BY <2>1, <2>4 DEF Fits
  <2>6. ASSUME Fits(s, g) PROVE FALSE
    <3>1. at < SlotSize /\ GapEnds # {} /\ Min(GapEnds) = at /\ at + n + 3 <= SlotSize
      <4>1. at + n + 3 <= SlotSize
        BY <2>5, <2>6
      <4>2. at < SlotSize
        <5> HIDE DEF at
        <5>1. QED
          BY <2>1, <4>1, Lengths
      <4>3. QED
        BY <2>2, <4>1, <4>2
    <3>2. ~NoBlock(n)
      BY <2>1, <2>4, <2>5, <2>6, <3>1, Lengths DEF NoBlock
    <3>3. Min(GapEnds) + n + 2 < size
      <4>1. at + n + 2 < size
        <5> HIDE DEF at
        <5>1. QED
          BY <2>1, <3>1, Lengths
      <4>2. QED
        BY <3>1, <4>1
    <3>4. ~CutShort(n)
      <4>1. Min(GapEnds) + n + 2 \in Nat
        <5> HIDE DEF at
        <5>1. QED
          BY <2>1, <3>1
      <4>2. QED
        BY <2>3, <3>3, <4>1 DEF CutShort
    <3>5. Found(n, size)
      BY <2>5, <2>6, <3>1, <3>3 DEF Found
    <3>6. RightType(raw[at + 1]) = {Type(s, g) = Expected(g)}
      BY <1>3, <3>1, <3>5, NextFound
    <3>7. FALSE \in RightType(raw[at + 1])
      BY <3>1, <3>2, <3>4
    <3>8. QED
      BY <2>5, <2>6, <3>6, <3>7
  <2>7. QED
    BY <2>6, OnTrackKept
<1>4. QED
  BY <1>1, <1>2, <1>3

\* What is decoded is the output of -c, and ends behind the slot.
LEMMA DecodesFile ==
    ASSUME LaidInv, DecodeInv, pc = "decode"
    PROVE  /\ file # Nothing /\ file.side \in Sides /\ in \in Nat
           /\ raw # <<>> /\ (OnTrack \/ OffTrack)
           /\ \E size \in Nat : RawIs(raw, file.side, size) /\ SlotSize <= size
<1>1. raw # <<>> /\ (OnTrack \/ OffTrack)
  BY DEF DecodeInv, Decoding
<1>2. file # Nothing /\ \E size \in SlotSize .. SlotSize + MaxFill : RawIs(raw, file.side, size)
  BY <1>1 DEF DecodeInv, Reading
<1>3. file.side \in Sides
  BY <1>2 DEF LaidInv, Output
<1>4. PICK size \in SlotSize .. SlotSize + MaxFill : RawIs(raw, file.side, size)
  BY <1>2
<1>5. size \in Nat /\ SlotSize <= size
  BY Lengths
<1>6. Cardinality(DOMAIN raw) = size
  BY <1>3, <1>4, <1>5, RawHas
<1>7. in \in Nat
  BY <1>5, <1>6 DEF DecodeInv
<1>8. QED
  BY <1>1, <1>2, <1>3, <1>4, <1>5, <1>7

\* A block is found whole, unless there is none or the disk ends in it.
LEMMA WholeFound ==
    ASSUME LaidInv, DecodeInv, pc = "decode", NEW size \in Nat, RawIs(raw, file.side, size), SlotSize <= size,
           NEW n \in NextSizes, ~NoBlock(n)
    PROVE  /\ n \in Nat /\ Min(GapEnds) \in Nat /\ GapEnds # {}
           /\ Min(GapEnds) \in 0 .. size - 1
           /\ IF CutShort(n) THEN Min(GapEnds) + n + 2 >= size ELSE Found(n, size)
<1>1. file.side \in Sides /\ in \in Nat /\ (OnTrack \/ OffTrack) /\ got \in Nat /\ out \in Nat
  BY DecodesFile, Lengths DEF DecodeInv
<1>2. GapEnds # {} /\ ~(out + n > FdsSize)
  BY DEF NoBlock
<1>3. Cardinality(DOMAIN raw) = size
  BY <1>1, RawHas
<1>4. Min(GapEnds) \in 0 .. size - 1
  <2>1. GapEnds \in SUBSET Nat
    BY <1>1, Lengths DEF GapEnds
  <2>2. Min(GapEnds) \in GapEnds
    BY <1>2, <2>1, MinIn
  <2>3. QED
    BY <1>1, <1>3, <2>2, Lengths DEF GapEnds
<1>5. n \in Nat
  <2>1. CASE OnTrack /\ got < Blocks(file.side)
    <3>1. n = Size(file.side, got + 1) /\ got + 1 \in 1 .. Blocks(file.side)
      BY <1>1, <2>1, NextSizeKnown, SideType
    <3>2. QED
      BY <1>1, <3>1, SpanType
  <2>2. CASE (OnTrack /\ got = Blocks(file.side)) \/ OffTrack
    BY <1>1, <1>2, <2>2, BehindSize
  <2>3. OnTrack => got < Blocks(file.side) \/ got = Blocks(file.side)
    BY <1>1, SideType DEF OnTrack
  <2>4. QED
    BY <1>1, <2>1, <2>2, <2>3
<1>6. out + n <= FdsSize
  BY <1>1, <1>2, <1>5, Lengths
<1>7. CASE CutShort(n)
  BY <1>2, <1>3, <1>4, <1>5, <1>7 DEF CutShort
<1>8. CASE ~CutShort(n)
  <2>1. Min(GapEnds) + n + 2 < size
    BY <1>3, <1>4, <1>5, <1>8 DEF CutShort
  <2>2. QED
    BY <1>2, <1>4, <1>5, <1>6, <1>8, <2>1 DEF Found
<1>9. QED
  BY <1>7, <1>8

\* What a command that decodes leaves when it returns.
LEMMA ReturnDecodes ==
    ASSUME LaidInv, DecodeInv, pc = "decode", Kept,
           Returns(IF got < 2 THEN "Failed." ELSE "Ok."),
           UNCHANGED <<command, file, raw, in, out, got>>,
           IsFds(fds'),
           \A k \in 0 .. FdsSize - 1 : k < out => fds'[k] = fds[k]
    PROVE  DecodeInv'
<1>1. file.side \in Sides /\ got \in Nat /\ out \in 0 .. FdsSize
  BY DecodesFile DEF DecodeInv
<1>2. SideComesBack'
  BY <1>1, Ended
<1>3. Reading'
  BY DEF DecodeInv, Reading, RawIs
<1>4. Decoding'
  BY DEF Returns, Decoding
<1>5. QED
  BY <1>2, <1>3, <1>4 DEF DecodeInv

LEMMA BlockDecodes ==
    ASSUME LaidInv, DecodeInv, NEW n \in NextSizes, DecodeBlock(n)
    PROVE  DecodeInv'
<1>1. pc = "decode" /\ ~NoBlock(n) /\ ~CutShort(n) /\ UNCHANGED <<command, file, raw>>
  BY DEF DecodeBlock
<1>2. /\ file.side \in Sides /\ in \in Nat /\ (OnTrack \/ OffTrack) /\ raw # <<>>
      /\ got \in Nat /\ out \in 0 .. FdsSize /\ out \in Nat /\ IsFds(fds)
  BY <1>1, DecodesFile, Lengths DEF DecodeInv
<1>3. PICK size \in Nat : RawIs(raw, file.side, size) /\ SlotSize <= size
  BY <1>1, DecodesFile
<1>4. n \in Nat /\ Min(GapEnds) \in Nat /\ GapEnds # {} /\ Found(n, size)
  BY <1>1, <1>3, WholeFound
<1>5. out + n <= FdsSize /\ Min(GapEnds) + n + 2 < size
  BY <1>4 DEF Found
<1>6. CASE /\ TRUE \in RightType(raw[Min(GapEnds) + 1])
           /\ fds' = CrcCleared(Decoded(n + 2), out + n)
           /\ out' = out + n /\ got' = got + 1
           /\ in' = Min(GapEnds) + n + 3
           /\ UNCHANGED <<pc, game, side, image, exit>>
  <2>1. OnTrack' \/ OffTrack'
    <3>1. CASE OnTrack /\ got < Blocks(file.side)
      BY <1>1, <1>2, <1>3, <1>4, <1>6, <3>1, TrackGoesOn
    <3>2. CASE (OnTrack /\ got = Blocks(file.side)) \/ OffTrack
      BY <1>1, <1>2, <1>3, <1>4, <1>6, <3>2, BehindGoesOn
    <3>3. OnTrack => got < Blocks(file.side) \/ got = Blocks(file.side)
      BY <1>2, SideType DEF OnTrack
    <3>4. QED
      BY <1>2, <3>1, <3>2, <3>3
  <2>2. IsFds(fds')
    BY <1>2, <1>3, <1>4, <1>5, <1>6, TakenType
  <2>3. in' \in 0 .. Cardinality(DOMAIN raw)'
    <3>1. Cardinality(DOMAIN raw) = size
      BY <1>2, <1>3, RawHas
    <3>2. in' \in 0 .. size
      BY <1>4, <1>5, <1>6
    <3>3. QED
      BY <1>1, <3>1, <3>2
  <2>4. out' \in 0 .. FdsSize /\ got' \in Nat
    BY <1>2, <1>4, <1>5, <1>6, Lengths
  <2>5. Reading'
    BY <1>1 DEF DecodeInv, Reading, RawIs
  <2>6. pc' = "decode" /\ raw' # <<>>
    BY <1>1, <1>2, <1>6
  <2>7. Decoding' /\ SideComesBack'
    BY <2>1, <2>6 DEF Decoding, SideComesBack
  <2>8. QED
    BY <2>2, <2>3, <2>4, <2>5, <2>7 DEF DecodeInv
<1>7. CASE /\ FALSE \in RightType(raw[Min(GapEnds) + 1])
           /\ \/ fds' = Decoded(n + 2)
              \/ HasSpareBit(n) /\ fds' = SpareBit(Decoded(n + 2), out + n + 2)
           /\ Returns(IF got < 2 THEN "Failed." ELSE "Ok.")
           /\ UNCHANGED <<in, out, got>>
  <2> DEFINE d == Decoded(n + 2)
             at == out + n + 2
  <2>1. Kept
    <3>1. CASE OnTrack
      BY <1>2, <1>3, <1>7, <3>1, TrackEnds
    <3>2. CASE OffTrack
      BY <3>2, OffTrackKept
    <3>3. QED
      BY <1>2, <3>1, <3>2
  <2>2. n + 2 \in Nat /\ Min(GapEnds) + (n + 2) < size /\ out + (n + 2) <= FdsSize + 2
        /\ at \in 0 .. FdsSize + 2 /\ out < at
    BY <1>2, <1>4, <1>5, Lengths
  <2>3. IsFds(d) /\ \A k \in 0 .. FdsSize - 1 : k < out => d[k] = fds[k]
    BY <1>2, <1>3, <1>4, <2>2, DecodedType
  <2>4. fds' = d \/ fds' = SpareBit(d, at)
    BY <1>7
  <2> HIDE DEF d, at
  <2>5. IsFds(SpareBit(d, at)) /\ \A k \in 0 .. FdsSize - 1 : k < at => SpareBit(d, at)[k] = d[k]
    BY <2>2, <2>3, SpareType
  <2>6. IsFds(fds') /\ \A k \in 0 .. FdsSize - 1 : k < out => fds'[k] = fds[k]
    <3>1. \A k \in 0 .. FdsSize - 1 : k < out => k < at
      BY <1>2, <2>2, Lengths
    <3>2. QED
      BY <2>3, <2>4, <2>5, <3>1
  <2>7. QED
    BY <1>1, <1>7, <2>1, <2>6, ReturnDecodes
<1>8. QED
  BY <1>6, <1>7 DEF DecodeBlock

LEMMA EndDecodes ==
    ASSUME LaidInv, DecodeInv, NEW n \in NextSizes, DecodeEnds(n)
    PROVE  DecodeInv'
<1>1. /\ pc = "decode" /\ UNCHANGED <<command, file, raw, in, out, got>>
      /\ Returns(IF got < 2 THEN "Failed." ELSE "Ok.")
  BY DEF DecodeEnds
<1>2. /\ file.side \in Sides /\ in \in Nat /\ (OnTrack \/ OffTrack)
      /\ got \in Nat /\ out \in 0 .. FdsSize /\ IsFds(fds)
  BY <1>1, DecodesFile DEF DecodeInv
<1>3. PICK size \in Nat : RawIs(raw, file.side, size) /\ SlotSize <= size
  BY <1>1, DecodesFile
<1>4. Kept
  <2>1. CASE OnTrack
    BY <1>2, <1>3, <2>1, TrackEnds DEF DecodeEnds
  <2>2. CASE OffTrack
    BY <2>2, OffTrackKept
  <2>3. QED
    BY <1>2, <2>1, <2>2
<1>5. CASE NoBlock(n) /\ UNCHANGED fds
  BY <1>1, <1>2, <1>4, <1>5, ReturnDecodes
<1>6. CASE /\ ~NoBlock(n) /\ CutShort(n)
           /\ fds' = Decoded(Cardinality(DOMAIN raw) - Min(GapEnds) - 1)
  <2> DEFINE m == size - Min(GapEnds) - 1
  <2>1. /\ GapEnds # {} /\ Min(GapEnds) \in 0 .. size - 1 /\ n \in Nat
        /\ Min(GapEnds) + n + 2 >= size
    BY <1>1, <1>3, <1>6, WholeFound
  <2>2. out + n <= FdsSize
    <3>1. ~(out + n > FdsSize)
      BY <1>6 DEF NoBlock
    <3>2. QED
      BY <1>2, <2>1, <3>1, Lengths
  <2>3. m \in Nat /\ Min(GapEnds) + m < size /\ out + m <= FdsSize + 2
    BY <1>2, <2>1, <2>2, Lengths
  <2>4. fds' = Decoded(m)
    BY <1>2, <1>3, <1>6, RawHas
  <2> HIDE DEF m
  <2>5. IsFds(Decoded(m)) /\ \A k \in 0 .. FdsSize - 1 : k < out => Decoded(m)[k] = fds[k]
    BY <1>2, <1>3, <2>1, <2>3, DecodedType
  <2>6. QED
    BY <1>1, <1>4, <2>4, <2>5, ReturnDecodes
<1>7. QED
  BY <1>5, <1>6 DEF DecodeEnds

\* the pulses -F takes from the output of -c
LEMMA RawTaken ==
    ASSUME NEW zeros, NEW fill, BinToFds(zeros, fill)
    PROVE  raw' = [k \in 0 .. SlotSize + fill - 1 |->
                IF k >= SlotSize THEN Undefined
                ELSE IF k \in DOMAIN file.bytes THEN file.bytes[k]
                ELSE IF k < Cardinality(DOMAIN file.bytes) + zeros THEN Zero ELSE Other]
BY DEF BinToFds

LEMMA ClearedSide == IsFds(NoBytes)
<1>1. NoBytes = [k \in 0 .. FdsSize - 1 |-> Zero] /\ Zero \in Bytes
  BY DEF NoBytes, Bytes
<1>2. 0 .. FdsSize - 1 \subseteq 0 .. FdsSize + 2
  BY Lengths
<1>3. QED
  BY <1>1, <1>2 DEF IsFds

\* -F begins with the output of -c and whatever is behind it in memory.
LEMMA BeginDecodes ==
    ASSUME LaidInv, DecodeInv, NEW zeros \in 0 .. MinGap, NEW fill \in 0 .. MaxFill,
           BinToFds(zeros, fill)
    PROVE  DecodeInv'
<1> DEFINE s == file.side
           r == raw'
           size == SlotSize + fill
<1>1. /\ file.kind = "bin" /\ UNCHANGED file
      /\ fds' = NoBytes /\ out' = 0 /\ got' = 0
  BY DEF BinToFds
<1>2. raw' = [k \in 0 .. size - 1 |->
                IF k >= SlotSize THEN Undefined
                ELSE IF k \in DOMAIN file.bytes THEN file.bytes[k]
                ELSE IF k < Cardinality(DOMAIN file.bytes) + zeros THEN Zero ELSE Other]
  <2>1. SlotSize + fill - 1 = size - 1
    BY Lengths
  <2> HIDE DEF size
  <2>2. QED
    BY <2>1, RawTaken
<1>3. /\ s \in Sides /\ file # Nothing
      /\ DOMAIN file.bytes = 0 .. ImageSize(s) - 1
      /\ \A k \in DOMAIN file.bytes : file.bytes[k] = ImageByte(s, Blocks(s), k)
  <2>1. file # Nothing
    BY <1>1 DEF Nothing
  <2>2. QED
    BY <1>1, <2>1 DEF LaidInv, Output
<1>4. size \in Nat /\ SlotSize <= size /\ size \in SlotSize .. SlotSize + MaxFill /\ 0 < size
      /\ ImageSize(s) \in Nat
  <2>1. ImageSize(s) \in Nat
    <3> HIDE DEF s
    <3>1. Blocks(s) + 1 \in 1 .. Blocks(s) + 1
      BY <1>3, SideType
    <3>2. QED
      BY <1>3, <3>1, ImageNext DEF ImageSize
  <2>2. QED
    BY <2>1, Lengths
<1>5. RawIs(r, s, size)
  <2> HIDE DEF s, r
  <2>1. ASSUME NEW k \in 0 .. size - 1
        PROVE  /\ r[k] \in Bytes
               /\ IF k >= SlotSize THEN r[k] = Undefined
                  ELSE IF k >= ImageSize(s) THEN r[k] \in {Zero, Other}
                  ELSE r[k] = ImageByte(s, Blocks(s), k)
    <3>1. k \in Nat /\ (k \in DOMAIN file.bytes <=> k < ImageSize(s))
      BY <1>3, <1>4
    <3>2. k < ImageSize(s) <=> ~(k >= ImageSize(s))
      BY <1>4, <3>1
    <3>3. ImageByte(s, Blocks(s), k) \in Bytes
      BY <1>3, <3>1, ImageType
    <3>4. {Zero, Other, Undefined} \subseteq Bytes
      BY DEF Bytes
    <3>5. r[k] = IF k >= SlotSize THEN Undefined
                 ELSE IF k \in DOMAIN file.bytes THEN file.bytes[k]
                 ELSE IF k < Cardinality(DOMAIN file.bytes) + zeros THEN Zero ELSE Other
      BY <1>2 DEF r
    <3>6. QED
      BY <1>3, <3>1, <3>2, <3>3, <3>4, <3>5
  <2>2. r = [k \in 0 .. size - 1 |-> r[k]]
    BY <1>2 DEF r
  <2> HIDE DEF size
  <2>3. r \in [0 .. size - 1 -> Bytes]
    BY <2>1, <2>2
  <2>4. QED
    BY <2>1, <2>3 DEF RawIs
<1>6. FirstBlock(raw') = {LeadIn} /\ Min({LeadIn}) = LeadIn /\ Start(LeadIn) = LeadIn - MinGap
      /\ ~(Start(LeadIn) < 0)
  <2>1. FirstBlock(r) = {LeadIn}
    <3> HIDE DEF s, r, size
    <3>1. QED
      BY <1>3, <1>4, <1>5, FirstFound
  <2>2. Min({LeadIn}) = LeadIn
    <3>1. {LeadIn} \in SUBSET Nat /\ \A k \in {LeadIn} : LeadIn <= k
      BY Lengths
    <3>2. QED
      BY <3>1, MinOf
  <2>3. QED
    BY <2>1, <2>2, Lengths DEF Start
<1>7. pc' = "decode" /\ in' = LeadIn - MinGap
  BY <1>6 DEF BinToFds
<1>8. DOMAIN raw' = 0 .. size - 1 /\ Cardinality(DOMAIN raw') = size
  <2> HIDE DEF s, size
  <2>1. DOMAIN r = 0 .. size - 1 /\ Cardinality(DOMAIN r) = size
    <3> HIDE DEF r
    <3>1. QED
      BY <1>3, <1>4, <1>5, RawHas
  <2>2. QED
    BY <2>1
<1>9. raw' # <<>>
  <2>1. 0 \in DOMAIN raw'
    BY <1>4, <1>8
  <2>2. 0 \notin DOMAIN <<>>
    OBVIOUS
  <2>3. QED
    BY <2>1, <2>2
<1>10. OnTrack'
  <2>1. PlaceOf(s, 1) = 0 /\ Blocks(s) \in Nat
    <3> HIDE DEF s
    <3>1. QED
      BY <1>3, PlaceNext, SideType
  <2>2. 0 + 1 = 1 /\ 0 \in 0 .. Blocks(s)
    BY <2>1
  <2>3. QED
    BY <1>1, <1>7, <2>1, <2>2 DEF OnTrack
<1>11. Reading'
  <2>1. RawIs(raw, file.side, size)'
    BY <1>1, <1>5
  <2>2. QED
    BY <1>1, <1>3, <1>4, <2>1 DEF Reading
<1>12. IsFds(fds')
  BY <1>1, ClearedSide
<1>13. in' \in 0 .. Cardinality(DOMAIN raw)'
  BY <1>4, <1>7, <1>8, Lengths
<1>14. out' \in 0 .. FdsSize /\ got' \in Nat
  BY <1>1, Lengths
<1>15. Decoding' /\ SideComesBack'
  BY <1>7, <1>9, <1>10 DEF Decoding, SideComesBack
<1>16. QED
  BY <1>11, <1>12, <1>13, <1>14, <1>15 DEF DecodeInv

\* Nothing is decoded any more, or yet.
LEMMA NothingDecodes ==
    ASSUME raw' = <<>>, in' = 0, out' \in 0 .. FdsSize, got' \in Nat,
           IsFds(fds'), pc' # "decode"
    PROVE  DecodeInv'
<1>1. Cardinality(DOMAIN raw') = 0
  <2>1. DOMAIN raw' = {}
    OBVIOUS
  <2>2. QED
    BY <2>1, FS_EmptySet
<1>2. in' \in 0 .. Cardinality(DOMAIN raw)'
  BY <1>1
<1>3. QED
  BY <1>2 DEF DecodeInv, Reading, Decoding, SideComesBack

LEMMA StartDecodes == Init => DecodeInv
<1> SUFFICES ASSUME Init PROVE DecodeInv
  OBVIOUS
<1>1. raw = <<>> /\ in = 0 /\ out = 0 /\ got = 0 /\ fds = NoBytes /\ pc = "idle"
  BY DEF Init
<1>2. Cardinality(DOMAIN raw) = 0
  <2>1. DOMAIN raw = {}
    BY <1>1
  <2>2. QED
    BY <2>1, FS_EmptySet
<1>3. in \in 0 .. Cardinality(DOMAIN raw)
  BY <1>1, <1>2
<1>4. IsFds(fds) /\ out \in 0 .. FdsSize
  BY <1>1, Lengths, ClearedSide
<1>5. QED
  BY <1>1, <1>3, <1>4 DEF DecodeInv, Reading, Decoding, SideComesBack

LEMMA StepDecodes == LaidInv /\ DecodeInv /\ [Next]_vars => DecodeInv'
<1> SUFFICES ASSUME LaidInv, DecodeInv, [Next]_vars PROVE DecodeInv'
  OBVIOUS
<1>1. IsFds(NoBytes) /\ 0 \in 0 .. FdsSize
  BY Lengths, ClearedSide
<1>2. ASSUME NEW c \in {"-c", "-C"}, NEW g \in Games, Convert(c, g) PROVE DecodeInv'
  BY <1>1, <1>2, NothingDecodes DEF Convert
\* while a side is converted nothing is decoded
<1>3. ASSUME UNCHANGED decoder, pc \in {"side", "files", "written"}, pc' # "decode"
      PROVE  DecodeInv'
  <2>1. raw = <<>> /\ UNCHANGED <<raw, in, fds, out, got>>
    BY <1>3 DEF LaidInv, Position, decoder
  <2>2. Cardinality(DOMAIN raw) = 0
    <3>1. DOMAIN raw = {}
      BY <2>1
    <3>2. QED
      BY <3>1, FS_EmptySet
  <2>3. in = 0
    BY <2>2 DEF DecodeInv
  <2>4. QED
    BY <1>3, <2>1, <2>3, NothingDecodes DEF DecodeInv
<1>4. CASE BeginSide
  BY <1>3, <1>4 DEF BeginSide, Returns
<1>5. CASE LayFile
  BY <1>3, <1>5 DEF LayFile, Returns
<1>6. CASE WriteOutput
  BY <1>3, <1>6 DEF WriteOutput, Returns
<1>7. CASE NextSide
  BY <1>3, <1>7 DEF NextSide
<1>8. CASE LastSide
  BY <1>3, <1>8 DEF LastSide, Returns
<1>9. ASSUME NEW zeros \in 0 .. MinGap, NEW fill \in 0 .. MaxFill, BinToFds(zeros, fill)
      PROVE  DecodeInv'
  BY <1>9, BeginDecodes
<1>10. CASE CannotConvert
  BY <1>1, <1>10, NothingDecodes DEF CannotConvert, Returns
<1>11. ASSUME NEW size \in NextSizes, DecodeBlock(size) \/ DecodeEnds(size)
       PROVE  DecodeInv'
  BY <1>11, BlockDecodes, EndDecodes
<1>12. CASE UNCHANGED vars
  <2>1. UNCHANGED <<pc, command, file, raw, in, fds, out, got, exit>>
    BY <1>12 DEF vars
  <2>2. Reading'
    BY <2>1 DEF DecodeInv, Reading, RawIs
  <2>3. Decoding' /\ SideComesBack'
    BY <2>1 DEF DecodeInv, Decoding, OnTrack, OffTrack, InPlace, SideComesBack
  <2>4. QED
    BY <2>1, <2>2, <2>3 DEF DecodeInv
<1>13. QED
  BY <1>2, <1>4, <1>5, <1>6, <1>7, <1>8, <1>9, <1>10, <1>11, <1>12 DEF Next

LEMMA AlwaysLaid == Spec => [](LaidInv /\ DecodeInv)
<1>1. Init => LaidInv /\ DecodeInv
  BY StartLays, StartDecodes
<1>2. LaidInv /\ DecodeInv /\ [Next]_vars => (LaidInv /\ DecodeInv)'
  BY StepLays, StepDecodes
<1>3. QED
  BY <1>1, <1>2, PTL DEF Spec

\* No block is copied beyond its buffer; one that is decoded goes no more than
\* three bytes beyond the .fds side, for its CRC and the bit behind it.
THEOREM TypeCorrect == Spec => []TypeOK
<1>1. LaidInv /\ DecodeInv => TypeOK
  <2> SUFFICES ASSUME LaidInv, DecodeInv PROVE TypeOK
    OBVIOUS
  <2>1. file.kind \in {"none", "bin", "raw"}
    BY DEF LaidInv, Output, Nothing
  <2>2. QED
    BY <2>1 DEF LaidInv, DecodeInv, TypeOK, IsFds
<1>2. QED
  BY <1>1, AlwaysLaid, PTL

\* -F brings back what -c was given, and says Failed if the first two blocks
\* are not among it.
THEOREM WhatWasLaidComesBack == Spec => []SideComesBack
<1>1. LaidInv /\ DecodeInv => SideComesBack
  BY DEF DecodeInv
<1>2. QED
  BY <1>1, AlwaysLaid, PTL
=============================================================================
