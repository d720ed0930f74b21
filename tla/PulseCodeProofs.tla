--------------------------- MODULE PulseCodeProofs ---------------------------
(***************************************************************************)
(* PulseCode: a block behind a long enough gap is read back bit for bit,   *)
(* for every image, gap length and block length.                           *)
(*                                                                         *)
(* The argument: a pulse that has ended stands for the one or two bits     *)
(* after those of the pulses before it, and its length and the bit before  *)
(* it determine them.  While the gap is scanned, the zeros counted and the *)
(* zeros left make up the length demanded; while the block is decoded, the *)
(* decoder has exactly the bits that the pulses so far stand for.          *)
(***************************************************************************)
EXTENDS PulseCode, TLAPS

\* Pulse j stands for the bits after the first e, of which the last is x.
Stands(j, e, x) ==
    \/ /\ x = 0 /\ used[j] = e + 1
       /\ raw[j] = bits[e + 1]
    \/ /\ x = 1 /\ used[j] = e + 1
       /\ raw[j] = 0 /\ bits[e + 1] = 1
    \/ /\ x = 1 /\ used[j] = e + 2
       /\ raw[j] = 1 + bits[e + 2] /\ bits[e + 1] = 0

\* the pulses that have ended
Closed ==
    \A j \in 0 .. out - 1 :
        /\ Used(j) \in j .. i /\ used[j] \in j + 1 .. i
        /\ Stands(j, Used(j), BitAt(Used(j)))

\* the buffer as it was initialised
Untouched(n) == \A j \in n .. L - 1 : raw[j] = 255

\* the pulse being measured, and the buffer behind it
Open ==
    /\ bit = BitAt(i)
    /\ out <= Used(out) /\ Used(out) <= i
    /\ bit = 1 => /\ Used(out) = i
                  /\ Untouched(out)
    /\ bit = 0 => /\ out <= i - 1
                  /\ \/ Used(out) = i /\ raw[out] = 0
                     \/ Used(out) = i - 1 /\ BitAt(i - 1) = 1 /\ raw[out] = 1
                  /\ Untouched(out + 1)

\* the rest of the block is still empty
Empty(n) == \A k \in n .. N + 1 : dst[k] = 0

\* the first n bits of the block are there
Agrees(n) == \A k \in 1 .. n : dst[k] = bits[mark + k]

\* the decoder before a block
Idle == got = 0 /\ Empty(1)

ZerosBetween(from, to) == \A n \in from .. to : bits[n] = 0

\* the gap: what has been counted and what is left of it are enough
Scanning ==
    /\ in <= out /\ bits[mark] = 1
    /\ Used(in) < mark
    /\ ZerosBetween(Used(in) + 1, mark - 1)
    /\ BitAt(Used(in)) = 0 => zeros + mark - 1 - Used(in) >= MinGap
    /\ BitAt(Used(in)) = 1 => zeros = 0 /\ mark - 3 - Used(in) >= MinGap

\* the block: it has the bits of the pulses decoded
Decoding ==
    /\ in <= out /\ mark + got = Used(in) /\ got < N
    /\ mark >= 1 /\ bitval = bits[mark + got]
    /\ Agrees(got) /\ Empty(got + 1)

Found ==
    Complete =>
        /\ phase # "failed"
        /\ phase = "scan" => Scanning
        /\ phase = "decode" => Decoding
        /\ phase = "done" => Agrees(N)

IInv ==
    /\ TypeOK
    /\ out <= Used(out)
    /\ Closed
    /\ phase = "encode" => Open
    /\ phase \in {"encode", "ready"} => zeros = 0 /\ Idle
    /\ phase = "scan" => in < L /\ Idle
    /\ phase = "decode" => got < N
    /\ Found

-----------------------------------------------------------------------------
THEOREM Initially == Init => IInv
BY PulseAssumption, SMT DEF Init, IInv, TypeOK, PulseNumbers, Byte, Closed, Open, Used, BitAt, Idle,
       Found, Complete, Empty, Untouched

(***************************************************************************)
(* The encoder                                                             *)
(***************************************************************************)
\* what adding to a byte gives
LEMMA Bytes ==
    /\ \A n \in Byte : Plus1(n) \in Byte /\ Widen(n) \in Byte
    /\ Plus1(255) = 0 /\ Plus1(0) = 1 /\ Plus1(1) = 2 /\ Widen(255) = 1
BY SMT DEF Byte, Plus1, Widen

\* what a step of the encoder does, by the last bit and the new one
LEMMA EncodeCases ==
    ASSUME IInv, Encode
    PROVE  /\ TypeOK /\ Open /\ Closed /\ i \in 0 .. L - 1 /\ i' = i + 1 /\ phase' = "encode"
           /\ bits' = bits /\ bit' = bits[i + 1] /\ bits[i + 1] \in {0, 1}
           /\ zeros = 0 /\ Idle /\ UNCHANGED decoder
           /\ out \in PulseNumbers /\ out <= i
           /\ \/ /\ bit = 0 /\ bits[i + 1] = 0 /\ out + 1 \in PulseNumbers
                 /\ raw' = [raw EXCEPT ![out + 1] = 0] /\ out' = out + 1
                 /\ used' = [used EXCEPT ![out] = i + 1]
              \/ /\ bits[i + 1] = 1
                 /\ raw' = [raw EXCEPT ![out] = Plus1(raw[out])] /\ out' = out + 1
                 /\ used' = [used EXCEPT ![out] = i + 1]
              \/ /\ bit = 1 /\ bits[i + 1] = 0
                 /\ raw' = [raw EXCEPT ![out] = 1] /\ out' = out /\ used' = used
<1>1. TypeOK /\ phase = "encode" /\ i < L /\ i' = i + 1 /\ Open /\ Closed /\ zeros = 0 /\ Idle
  BY DEF IInv, Encode
<1>2. i + 1 \in 1 .. L /\ i \in 0 .. L - 1
  BY <1>1, PulseAssumption, SMT DEF TypeOK
<1>3. bits[i + 1] \in {0, 1}
  BY <1>1, <1>2 DEF TypeOK
<1>4. out \in PulseNumbers /\ out <= i
  <2>1. Used(out) \in 0 .. i
    BY <1>1, <1>2, PulseAssumption, SMT DEF Open, TypeOK, PulseNumbers, Used
  <2> QED BY <2>1, <1>1, <1>2, PulseAssumption, SMT DEF Open, TypeOK, PulseNumbers
<1>5. CASE bit = 0 /\ bits[i + 1] = 0
  <2>1. out + 1 \in PulseNumbers
    BY <1>1, <1>2, <1>4, <1>5, PulseAssumption, SMT DEF Open, PulseNumbers
  <2>2. raw[out + 1] = 255
    BY <1>1, <1>5, <2>1, <1>4, PulseAssumption, SMT DEF Open, PulseNumbers, Untouched
  <2>3. /\ raw' = [raw EXCEPT ![out + 1] = Plus1(raw[out + 1])] /\ out' = out + 1
        /\ used' = [used EXCEPT ![out] = i + 1]
    BY <1>5, SMT DEF Encode
  <2> QED BY <1>1, <1>2, <1>3, <1>4, <1>5, <2>1, <2>2, <2>3, Bytes DEF Encode
<1>6. CASE bits[i + 1] = 1
  <2>1. /\ raw' = [raw EXCEPT ![out] = Plus1(raw[out])] /\ out' = out + 1
        /\ used' = [used EXCEPT ![out] = i + 1]
    BY <1>6, SMT DEF Encode
  <2> QED BY <1>1, <1>2, <1>3, <1>4, <1>6, <2>1 DEF Encode
<1>7. CASE bit = 1 /\ bits[i + 1] = 0
  <2>1. raw[out] = 255
    BY <1>1, <1>7, <1>4, PulseAssumption, SMT DEF Open, PulseNumbers, Untouched
  <2>2. raw' = [raw EXCEPT ![out] = Widen(raw[out])] /\ out' = out /\ used' = used
    BY <1>7, SMT DEF Encode
  <2> QED BY <1>1, <1>2, <1>3, <1>4, <1>7, <2>1, <2>2, Bytes DEF Encode
<1> QED BY <1>1, <1>3, <1>5, <1>6, <1>7 DEF TypeOK

LEMMA EncodeType == IInv /\ Encode => TypeOK'
<1> SUFFICES ASSUME IInv, Encode PROVE TypeOK'
  OBVIOUS
<1>1. /\ i + 1 \in 0 .. L /\ out + 1 \in 0 .. L /\ 0 \in Byte /\ 1 \in Byte /\ 255 \in Byte
      /\ Plus1(raw[out]) \in Byte
  <2>1. raw[out] \in Byte /\ i \in 0 .. L - 1 /\ out \in 0 .. L - 1
    BY EncodeCases DEF TypeOK, PulseNumbers
  <2>2. Plus1(raw[out]) \in Byte
    BY <2>1, Bytes
  <2> QED BY <2>1, <2>2, PulseAssumption, SMT DEF Byte
<1>2. raw' \in [PulseNumbers -> Byte]
  <2>1. raw \in [PulseNumbers -> Byte]
    BY EncodeCases DEF TypeOK
  <2>2. PICK p \in PulseNumbers, v \in Byte : raw' = [raw EXCEPT ![p] = v]
    BY <1>1, EncodeCases
  <2> QED BY <2>1, <2>2
<1>3. used' \in [PulseNumbers -> 0 .. L] /\ out' \in 0 .. L
  BY <1>1, EncodeCases DEF TypeOK
<1> QED BY <1>1, <1>2, <1>3, EncodeCases DEF TypeOK, decoder, Encode

\* the pulses that have ended are not changed
LEMMA EncodeKeeps ==
    ASSUME IInv, Encode
    PROVE  /\ \A j \in 0 .. out - 1 : used'[j] = used[j] /\ raw'[j] = raw[j]
           /\ \A j \in 0 .. out : Used(j)' = Used(j)
           /\ \A n \in 0 .. i : BitAt(n)' = BitAt(n)
<1>1. \A j \in 0 .. out - 1 : used'[j] = used[j] /\ raw'[j] = raw[j]
  <2> TAKE j \in 0 .. out - 1
  <2>1. j \in PulseNumbers /\ j # out /\ j # out + 1
    BY EncodeCases, PulseAssumption, SMT DEF PulseNumbers
  <2> QED BY <2>1, EncodeCases DEF TypeOK
<1>2. \A j \in 0 .. out : Used(j)' = Used(j)
  <2> TAKE j \in 0 .. out
  <2>1. j = 0 \/ j - 1 \in 0 .. out - 1
    BY EncodeCases, SMT DEF PulseNumbers
  <2> QED BY <2>1, <1>1 DEF Used
<1> QED BY <1>1, <1>2, EncodeCases DEF BitAt

\* a pulse that ends with the new bit stands for what it should
LEMMA EncodeEnds ==
    ASSUME IInv, Encode, out' = out + 1
    PROVE  LET e == Used(out)
           IN  /\ e \in out .. i /\ used'[out] = i + 1
               /\ \/ BitAt(e) = 0 /\ i = e /\ raw'[out] = bits[e + 1]
                  \/ BitAt(e) = 1 /\ i = e /\ raw'[out] = 0 /\ bits[e + 1] = 1
                  \/ BitAt(e) = 1 /\ i = e + 1 /\ raw'[out] = 1 + bits[e + 2] /\ bits[e + 1] = 0
<1> DEFINE e == Used(out)
<1>1. /\ i \in 0 .. L - 1 /\ out \in 0 .. L - 1 /\ out <= i /\ bits[i + 1] \in {0, 1}
      /\ raw \in [PulseNumbers -> Byte] /\ used \in [PulseNumbers -> 0 .. L] /\ out \in PulseNumbers
      /\ bit \in {0, 1}
  BY EncodeCases DEF PulseNumbers, TypeOK
<1>2. e \in out .. i
  <2>1. out <= Used(out) /\ Used(out) <= i
    BY EncodeCases DEF Open
  <2>2. Used(out) \in 0 .. L
    BY <1>1, PulseAssumption, SMT DEF PulseNumbers, Used
  <2> QED BY <1>1, <2>1, <2>2, SMT
<1>3. used'[out] = i + 1
  <2>1. used' = [used EXCEPT ![out] = i + 1]
    BY EncodeCases, <1>1, SMT
  <2> QED BY <2>1, <1>1
<1>4. CASE bit = 0
  <2>1. raw'[out] = raw[out] + bits[i + 1] /\ raw[out] \in {0, 1}
    <3>1. raw[out] \in {0, 1}
      BY <1>4, EncodeCases DEF Open
    <3>2. \/ bits[i + 1] = 0 /\ raw' = [raw EXCEPT ![out + 1] = 0]
          \/ bits[i + 1] = 1 /\ raw' = [raw EXCEPT ![out] = Plus1(raw[out])]
      BY <1>4, EncodeCases
    <3>3. Plus1(raw[out]) = raw[out] + 1
      BY <3>1, Bytes, SMT
    <3> QED BY <3>1, <3>2, <3>3, <1>1, SMT
  <2>2. \/ e = i /\ raw[out] = 0
        \/ e = i - 1 /\ BitAt(i - 1) = 1 /\ raw[out] = 1
    BY <1>4, EncodeCases DEF Open
  <2>3. BitAt(i) = 0 /\ i # 0
    BY <1>4, <1>1, EncodeCases, SMT DEF Open
  <2>4. bits[i] = 0
    BY <2>3 DEF BitAt
  <2> QED BY <2>1, <2>2, <2>3, <2>4, <1>1, <1>2, <1>3, SMT
<1>5. CASE bit = 1
  <2>1. bits[i + 1] = 1 /\ raw' = [raw EXCEPT ![out] = Plus1(raw[out])]
    BY <1>5, <1>1, EncodeCases, SMT
  <2>2. e = i /\ BitAt(i) = 1
    BY <1>5, EncodeCases DEF Open
  <2>3. raw[out] = 255
    BY <1>5, <1>1, EncodeCases, PulseAssumption, SMT DEF Open, Untouched
  <2> QED BY <2>1, <2>2, <2>3, Bytes, <1>1, <1>2, <1>3, SMT
<1> QED BY <1>1, <1>4, <1>5

LEMMA EncodeClosed == IInv /\ Encode => Closed'
<1> SUFFICES ASSUME IInv, Encode PROVE Closed'
  OBVIOUS
<1>1. i \in Nat /\ i' = i + 1 /\ bits' = bits /\ out \in Nat /\ out' \in {out, out + 1}
  BY EncodeCases, PulseAssumption, SMT DEF PulseNumbers
<1>2. ASSUME NEW j \in 0 .. out - 1
      PROVE  /\ Used(j)' \in j .. i' /\ used'[j] \in j + 1 .. i'
             /\ Stands(j, Used(j), BitAt(Used(j)))'
  <2>1. /\ Used(j) \in j .. i /\ used[j] \in j + 1 .. i
        /\ Stands(j, Used(j), BitAt(Used(j)))
    BY EncodeCases DEF Closed
  <2>2. used'[j] = used[j] /\ raw'[j] = raw[j]
    BY EncodeKeeps
  <2>3. Used(j)' = Used(j)
    BY EncodeKeeps, <1>1, SMT
  <2>4. BitAt(Used(j))' = BitAt(Used(j))
    BY <1>1, <2>3 DEF BitAt
  <2>5. Stands(j, Used(j), BitAt(Used(j)))'
    BY <2>1, <2>2, <2>3, <2>4, <1>1 DEF Stands
  <2> QED BY <1>1, <2>1, <2>2, <2>3, <2>5, SMT
<1>3. ASSUME NEW j, j = out, out' = out + 1
      PROVE  /\ Used(j)' \in j .. i' /\ used'[j] \in j + 1 .. i'
             /\ Stands(j, Used(j), BitAt(Used(j)))'
  <2>1. /\ Used(j) \in j .. i /\ used'[j] = i + 1
        /\ \/ BitAt(Used(j)) = 0 /\ i = Used(j) /\ raw'[j] = bits[Used(j) + 1]
           \/ BitAt(Used(j)) = 1 /\ i = Used(j) /\ raw'[j] = 0 /\ bits[Used(j) + 1] = 1
           \/ /\ BitAt(Used(j)) = 1 /\ i = Used(j) + 1
              /\ raw'[j] = 1 + bits[Used(j) + 2] /\ bits[Used(j) + 1] = 0
    BY <1>3, EncodeEnds
  <2>2. Used(j)' = Used(j)
    BY EncodeKeeps, <1>1, <1>3, SMT
  <2>3. BitAt(Used(j))' = BitAt(Used(j))
    BY <1>1, <2>2 DEF BitAt
  <2>4. Stands(j, Used(j), BitAt(Used(j)))'
    BY <1>1, <2>1, <2>2, <2>3, SMT DEF Stands
  <2> QED BY <1>1, <1>3, <2>1, <2>2, <2>4, SMT
<1>4. CASE out' = out
  BY <1>2, <1>4 DEF Closed
<1>5. CASE out' = out + 1
  <2>1. \A j \in 0 .. out' - 1 : j = out \/ j \in 0 .. out - 1
    BY <1>1, <1>5, SMT
  <2> QED BY <2>1, <1>2, <1>3, <1>5 DEF Closed
<1> QED BY <1>1, <1>4, <1>5

LEMMA EncodeOpen == IInv /\ Encode => Open' /\ (out <= Used(out))'
<1> SUFFICES ASSUME IInv, Encode PROVE Open' /\ (out <= Used(out))'
  OBVIOUS
<1>1. /\ i \in 0 .. L - 1 /\ out \in 0 .. L - 1 /\ out <= i /\ bits[i + 1] \in {0, 1} /\ L \in Nat
      /\ i' = i + 1 /\ bits' = bits /\ bit' = bits[i + 1] /\ bit \in {0, 1}
      /\ raw \in [PulseNumbers -> Byte] /\ used \in [PulseNumbers -> 0 .. L]
  BY EncodeCases, PulseAssumption DEF PulseNumbers, TypeOK
<1>2. bit' = BitAt(i)'
  BY <1>1, SMT DEF BitAt
<1>3. CASE out' = out + 1
  <2>1. Used(out)' = i + 1
    BY <1>1, <1>3, EncodeEnds, SMT DEF Used
  <2>2. CASE bits[i + 1] = 1
    <3>1. raw' = [raw EXCEPT ![out] = Plus1(raw[out])]
      BY <2>2, EncodeCases
    <3>2. \A j \in out + 1 .. L - 1 : raw[j] = 255
      BY <1>1, EncodeCases, SMT DEF Open, Untouched
    <3>3. \A j \in out + 1 .. L - 1 : j # out /\ j \in PulseNumbers
      BY <1>1, SMT DEF PulseNumbers
    <3>4. Untouched(out)'
      BY <1>1, <1>3, <3>1, <3>2, <3>3 DEF Untouched
    <3>5. /\ out' <= Used(out)' /\ Used(out)' <= i' /\ Used(out)' = i'
          /\ bit' = 1 /\ bit' # 0
      BY <1>1, <1>3, <2>1, <2>2, SMT
    <3> QED BY <1>2, <3>4, <3>5 DEF Open
  <2>3. CASE bits[i + 1] = 0
    <3>1. bit = 0 /\ out + 1 \in PulseNumbers /\ raw' = [raw EXCEPT ![out + 1] = 0]
      BY <2>3, <1>1, <1>3, EncodeCases, SMT
    <3>2. out <= i - 1 /\ Untouched(out + 1)
      BY <3>1, EncodeCases DEF Open
    <3>3. \A j \in out + 2 .. L - 1 : j # out + 1 /\ j \in PulseNumbers /\ j \in out + 1 .. L - 1
      BY <1>1, SMT DEF PulseNumbers
    <3>4. raw'[out'] = 0 /\ \A j \in out + 2 .. L - 1 : raw'[j] = 255
      BY <1>1, <1>3, <3>1, <3>2, <3>3 DEF Untouched
    <3>5. Untouched(out + 1)' /\ (out + 1)' = out + 2
      BY <1>1, <1>3, <3>4, SMT DEF Untouched
    <3>6. /\ out' <= Used(out)' /\ Used(out)' <= i' /\ Used(out)' = i' /\ out' <= (i - 1)'
          /\ bit' = 0 /\ bit' # 1
      BY <1>1, <1>3, <2>1, <2>3, <3>2, SMT
    <3> QED BY <1>2, <3>4, <3>5, <3>6 DEF Open
  <2> QED BY <1>1, <2>2, <2>3
<1>4. CASE out' = out
  <2>1. bit = 1 /\ bits[i + 1] = 0 /\ raw' = [raw EXCEPT ![out] = 1]
    BY <1>1, <1>4, EncodeCases, SMT
  <2>2. Used(out) = i /\ BitAt(i) = 1 /\ Untouched(out)
    BY <2>1, EncodeCases DEF Open
  <2>3. Used(out)' = i
    BY <1>1, <1>4, <2>2, EncodeKeeps, SMT DEF Used
  <2>4. BitAt(i - 1)' = 1
    <3>1. (i - 1)' = i
      BY <1>1, SMT
    <3> QED BY <1>1, <2>2, <3>1 DEF BitAt
  <2>5. /\ \A j \in out + 1 .. L - 1 : j # out /\ j \in PulseNumbers /\ j \in out .. L - 1
        /\ out \in PulseNumbers
    BY <1>1, SMT DEF PulseNumbers
  <2>6. raw'[out] = 1 /\ \A j \in out + 1 .. L - 1 : raw'[j] = 255
    BY <1>1, <2>1, <2>2, <2>5 DEF Untouched
  <2>7. Untouched(out + 1)' /\ raw'[out'] = 1
    BY <2>6, <1>4 DEF Untouched
  <2>8. /\ out' <= Used(out)' /\ Used(out)' <= i' /\ Used(out)' = (i - 1)' /\ out' <= (i - 1)'
        /\ bit' = 0 /\ bit' # 1
    BY <1>1, <1>4, <2>1, <2>3, EncodeEnds, SMT
  <2> QED BY <1>2, <2>4, <2>7, <2>8 DEF Open
<1> QED BY <1>3, <1>4, EncodeCases

LEMMA EncodeInv == IInv /\ Encode => IInv'
<1> SUFFICES ASSUME IInv, Encode PROVE IInv'
  OBVIOUS
<1>1. phase' = "encode" /\ zeros' = 0 /\ Idle'
  BY EncodeCases DEF Idle, Empty, decoder
<1>2. Found'
  BY <1>1 DEF Found
<1> QED BY <1>1, <1>2, EncodeType, EncodeClosed, EncodeOpen, SMT DEF IInv

LEMMA EndEncodeInv == IInv /\ EndEncode => IInv'
<1> SUFFICES ASSUME IInv, EndEncode PROVE IInv'
  OBVIOUS
<1>1. TypeOK'
  BY PulseAssumption, SMT DEF IInv, EndEncode, TypeOK, decoder, PulseNumbers, Byte
<1>2. \A j \in 0 .. out - 1 : raw'[j] = raw[j]
  BY PulseAssumption, SMT DEF IInv, EndEncode, TypeOK, PulseNumbers
<1>3. Closed' /\ out' <= Used(out)'
  <2>1. /\ Closed /\ out <= Used(out)
        /\ bits' = bits /\ i' = i /\ out' = out /\ used' = used
    BY DEF IInv, EndEncode
  <2>2. Used(out)' = Used(out) /\ \A j \in 0 .. out - 1 : Used(j)' = Used(j)
    BY <2>1 DEF Used
  <2>3. \A j \in 0 .. out - 1 : BitAt(Used(j))' = BitAt(Used(j))
    BY <2>1, <2>2 DEF BitAt
  <2>4. \A j \in 0 .. out - 1 : Stands(j, Used(j), BitAt(Used(j)))'
    <3> TAKE j \in 0 .. out - 1
    <3>1. Stands(j, Used(j), BitAt(Used(j)))
      BY <2>1 DEF Closed
    <3> QED BY <1>2, <2>1, <2>2, <2>3, <3>1 DEF Stands
  <2> QED BY <2>1, <2>2, <2>4 DEF Closed
<1>4. (zeros = 0 /\ Idle)' /\ Found' /\ phase' = "ready"
  BY DEF IInv, EndEncode, decoder, Idle, Empty, Found
<1> QED BY <1>1, <1>3, <1>4, SMT DEF IInv

(***************************************************************************)
(* The decoder                                                             *)
(***************************************************************************)
\* The image and its pulses stay as they are.
LEMMA EncoderKept ==
    ASSUME IInv, UNCHANGED encoder
    PROVE  /\ Closed' /\ (out <= Used(out))'
           /\ bits' = bits /\ out' = out /\ Complete' = (mark' + N <= Used(out))
           /\ \A n : BitAt(n)' = BitAt(n)
BY SMT DEF IInv, encoder, Closed, Stands, Used, BitAt, TypeOK, Complete

\* where the pulses that have ended are, and what they stand for
LEMMA Pulses ==
    ASSUME IInv, NEW p \in 0 .. out
    PROVE  /\ p \in Nat /\ Used(p) \in p .. L /\ out \in 0 .. L
           /\ p < out => /\ Used(p + 1) = used[p] /\ used[p] \in p + 1 .. L
                         /\ Stands(p, Used(p), BitAt(Used(p)))
                         /\ p \in PulseNumbers /\ raw[p] \in Byte
           /\ BitAt(Used(p)) \in {0, 1}
<1>1. /\ p \in Nat /\ out \in 0 .. L /\ out <= Used(out) /\ i \in 0 .. L /\ L \in Nat
      /\ used \in [PulseNumbers -> 0 .. L] /\ raw \in [PulseNumbers -> Byte]
      /\ bits \in [1 .. L -> {0, 1}]
  BY PulseAssumption, SMT DEF IInv, TypeOK
<1>2. Used(p) \in 0 .. L
  BY <1>1, SMT DEF Used, PulseNumbers
<1>3. ASSUME p < out
      PROVE  /\ Used(p) \in p .. i /\ used[p] \in p + 1 .. i
             /\ Stands(p, Used(p), BitAt(Used(p)))
  <2>1. p \in 0 .. out - 1
    BY <1>1, <1>3, SMT
  <2> QED BY <2>1 DEF IInv, Closed
<1>4. Used(p) >= p
  BY <1>1, <1>2, <1>3, SMT
<1>5. p < out => p \in PulseNumbers /\ Used(p + 1) = used[p]
  BY <1>1, SMT DEF PulseNumbers, Used
<1>6. BitAt(Used(p)) \in {0, 1}
  BY <1>1, <1>2, SMT DEF BitAt
<1>7. p < out => used[p] \in p + 1 .. L
  BY <1>1, <1>3, SMT
<1> QED BY <1>1, <1>2, <1>3, <1>4, <1>5, <1>6, <1>7, SMT

LEMMA BeginBlockInv ==
    ASSUME IInv, NEW p \in 0 .. out, NEW m \in 1 .. L, BeginBlock(p, m)
    PROVE  IInv'
<1>1. /\ phase = "ready" /\ phase' = "scan" /\ in' = p /\ mark' = m /\ zeros = 0 /\ Idle /\ TypeOK
      /\ UNCHANGED <<zeros, bitval, dst, got>> /\ UNCHANGED encoder
      /\ InGap(p, m)
  BY DEF BeginBlock, IInv
<1>2. Used(p) \in p .. L /\ p \in Nat /\ Used(p) < m /\ L \in Nat /\ m \in Nat
  BY <1>1, Pulses, PulseAssumption, SMT DEF InGap
<1>3. TypeOK' /\ in' < L
  BY <1>1, <1>2, PulseAssumption, SMT DEF TypeOK, encoder
<1>4. Idle'
  BY <1>1 DEF Idle, Empty
<1>5. Used(in)' = Used(p) /\ BitAt(Used(in))' = BitAt(Used(p))
  BY <1>1 DEF Used, BitAt, encoder
<1>6. ZerosBetween(Used(in) + 1, mark - 1)' /\ bits'[mark'] = 1
  <2>1. bits' = bits /\ (Used(in) + 1)' = Used(p) + 1 /\ (mark - 1)' = m - 1
    BY <1>1, <1>5 DEF encoder
  <2> QED BY <1>1, <2>1 DEF ZerosBetween, InGap
<1>7. /\ BitAt(Used(p)) = 0 => m - 1 - Used(p) >= MinGap
      /\ BitAt(Used(p)) = 1 => m - 3 - Used(p) >= MinGap
  BY <1>1, <1>2, PulseAssumption, SMT DEF InGap
<1>8. in' <= out'
  BY <1>1, <1>2, SMT DEF TypeOK, encoder
<1>9. Scanning'
  BY <1>1, <1>2, <1>5, <1>6, <1>7, <1>8, PulseAssumption, SMT DEF Scanning
<1> QED BY <1>1, <1>3, <1>4, <1>9, EncoderKept, SMT DEF IInv, Found

\* The scan goes on until the bit that ends the gap, and then ends.
LEMMA ScanFinds ==
    ASSUME IInv, Scan, Complete, Scanning
    PROVE  \/ phase' = "scan" /\ Scanning'
           \/ phase' = "decode" /\ Decoding'
<1> DEFINE e == Used(in)
<1>1. /\ phase = "scan" /\ UNCHANGED <<dst, got, mark>> /\ UNCHANGED encoder /\ bits' = bits /\ out' = out
      /\ in \in 0 .. out /\ mark \in 0 .. L /\ zeros \in Nat /\ L \in Nat /\ N >= 1 /\ N \in Nat
      /\ MinGap \in Nat /\ MinGap >= 1 /\ out \in 0 .. L /\ got = 0 /\ Empty(1) /\ in \in Nat
      /\ bits \in [1 .. L -> {0, 1}]
  BY PulseAssumption, SMT DEF IInv, Scan, TypeOK, Scanning, encoder, Idle
<1>2. in < out
  <2>1. Used(out) \in 0 .. L /\ e \in 0 .. L
    BY <1>1, Pulses, SMT
  <2>2. e < mark /\ mark + N <= Used(out)
    BY DEF Scanning, Complete
  <2>3. e # Used(out)
    BY <1>1, <2>1, <2>2, SMT
  <2> QED BY <1>1, <2>3, SMT
<1>3. /\ e \in in .. L /\ Used(in + 1) = used[in] /\ Stands(in, e, BitAt(e)) /\ BitAt(e) \in {0, 1}
  BY <1>1, <1>2, Pulses
<1>4. e < mark /\ mark + N <= L /\ bits[mark] = 1
  <2>1. Used(out) \in 0 .. L
    BY <1>1, Pulses, SMT
  <2> QED BY <1>1, <2>1, SMT DEF Scanning, Complete
<1>5. ASSUME in' = in + 1 PROVE Used(in)' = used[in] /\ BitAt(Used(in))' = BitAt(used[in]) /\ in' <= out'
  <2>1. Used(in)' = used[in]
    BY <1>1, <1>5, SMT DEF Used, encoder
  <2> QED BY <1>1, <1>2, <1>5, <2>1, SMT DEF BitAt
<1>6. ASSUME NEW n \in e + 1 .. mark - 1 PROVE bits[n] = 0
  BY <1>6 DEF Scanning, ZerosBetween
<1>7. CASE BitAt(e) = 0 /\ e + 1 < mark
  <2>1. e + 1 \in e + 1 .. mark - 1 /\ e + 1 # 0
    BY <1>1, <1>3, <1>7, SMT
  <2>2. raw[in] = 0 /\ used[in] = e + 1 /\ BitAt(e + 1) = 0
    BY <1>3, <1>6, <1>7, <2>1 DEF Stands, BitAt
  <2>3. phase' = "scan" /\ in' = in + 1 /\ zeros' = zeros + 1
    BY <1>1, <1>3, <1>4, <1>7, <2>2, SMT DEF Scan, GapEnds
  <2>4. ZerosBetween(Used(in) + 1, mark - 1)'
    <3>1. \A n \in e + 2 .. mark - 1 : n \in e + 1 .. mark - 1
      BY <1>1, <1>3, SMT
    <3>2. (Used(in) + 1)' = e + 2 /\ (mark - 1)' = mark - 1
      BY <1>1, <1>3, <1>5, <2>2, <2>3, SMT
    <3> QED BY <1>1, <1>6, <3>1, <3>2 DEF ZerosBetween
  <2>5. zeros + mark - 1 - e >= MinGap
    BY <1>7 DEF Scanning
  <2> QED BY <1>1, <1>3, <1>4, <1>5, <1>7, <2>2, <2>3, <2>4, <2>5, SMT DEF Scanning
<1>8. CASE BitAt(e) = 0 /\ e + 1 = mark
  <2>1. raw[in] = 1 /\ used[in] = mark /\ zeros >= MinGap
    <3>1. raw[in] = 1 /\ used[in] = mark
      BY <1>3, <1>4, <1>8 DEF Stands
    <3>2. zeros + mark - 1 - e >= MinGap
      BY <1>8 DEF Scanning
    <3> QED BY <1>1, <1>3, <1>8, <3>1, <3>2, SMT
  <2>2. phase' = "decode" /\ in' = in + 1 /\ bitval' = 1
    BY <2>1, SMT DEF Scan, GapEnds, MarkBit
  <2>3. Agrees(got)' /\ Empty(got + 1)'
    BY <1>1, SMT DEF Agrees, Empty
  <2>4. Used(in)' = mark /\ mark >= 1
    BY <1>1, <1>3, <1>5, <1>8, <2>1, <2>2, SMT
  <2> QED BY <1>1, <1>4, <1>5, <2>2, <2>3, <2>4, SMT DEF Decoding
<1>9. CASE BitAt(e) = 1
  <2>1. zeros = 0 /\ mark - 3 - e >= MinGap
    BY <1>9 DEF Scanning
  <2>2. e + 1 \in e + 1 .. mark - 1 /\ e + 2 \in e + 1 .. mark - 1 /\ e + 2 # 0
    BY <1>1, <1>3, <2>1, SMT
  <2>3. bits[e + 1] = 0 /\ bits[e + 2] = 0
    BY <1>6, <2>2
  <2>4. raw[in] = 1 /\ used[in] = e + 2 /\ BitAt(e + 2) = 0
    BY <1>3, <1>9, <2>2, <2>3, SMT DEF Stands, BitAt
  <2>5. phase' = "scan" /\ in' = in + 1 /\ zeros' = 0
    BY <1>1, <1>3, <1>4, <1>9, <2>1, <2>4, SMT DEF Scan, GapEnds
  <2>6. ZerosBetween(Used(in) + 1, mark - 1)'
    <3>1. \A n \in e + 3 .. mark - 1 : n \in e + 1 .. mark - 1
      BY <1>1, <1>3, SMT
    <3>2. (Used(in) + 1)' = e + 3 /\ (mark - 1)' = mark - 1
      BY <1>1, <1>3, <1>5, <2>4, <2>5, SMT
    <3> QED BY <1>1, <1>6, <3>1, <3>2 DEF ZerosBetween
  <2> QED BY <1>1, <1>3, <1>4, <1>5, <2>1, <2>4, <2>5, <2>6, SMT DEF Scanning
<1> QED BY <1>1, <1>3, <1>4, <1>7, <1>8, <1>9, SMT

LEMMA ScanInv == IInv /\ Scan => IInv'
<1> SUFFICES ASSUME IInv, Scan PROVE IInv'
  OBVIOUS
<1>1. /\ phase = "scan" /\ UNCHANGED <<dst, got, mark>> /\ UNCHANGED encoder /\ TypeOK /\ Idle
      /\ in < L /\ got = 0
  BY DEF Scan, IInv, Idle
<1>2. raw[in] \in Byte /\ in \in Nat /\ L \in Nat /\ N >= 1
  BY <1>1, PulseAssumption, SMT DEF TypeOK, PulseNumbers
<1>3. /\ phase' \in {"scan", "decode", "failed"} /\ in' \in 0 .. L /\ zeros' \in Nat /\ bitval' \in {0, 1}
      /\ phase' = "scan" => in' < L
  BY <1>1, <1>2, SMT DEF Scan, GapEnds, MarkBit, TypeOK
<1>4. TypeOK'
  BY <1>1, <1>3 DEF TypeOK, encoder
<1>5. Idle' /\ got' < N
  BY <1>1, <1>2, PulseAssumption, SMT DEF Idle, Empty
<1>6. Complete' = Complete
  BY <1>1, EncoderKept DEF Complete
<1>7. Found'
  BY <1>1, <1>3, <1>6, ScanFinds DEF Found, IInv
<1> QED BY <1>1, <1>3, <1>4, <1>5, <1>7, EncoderKept DEF IInv

\* The pulse adds to the block the bits it stands for.
LEMMA DecodeFinds ==
    ASSUME IInv, Decode, Complete, Decoding
    PROVE  \/ phase' = "decode" /\ Decoding'
           \/ phase' = "done" /\ Agrees(N)'
<1> DEFINE e == Used(in)
<1>1. /\ phase = "decode" /\ UNCHANGED <<zeros, mark>> /\ UNCHANGED encoder /\ bits' = bits /\ out' = out
      /\ in \in 0 .. out /\ mark \in 1 .. L /\ L \in Nat /\ N >= 1 /\ N \in Nat /\ in \in Nat
      /\ out \in 0 .. L /\ got \in 0 .. N - 1 /\ dst \in [1 .. N + 1 -> {0, 1}]
      /\ bits \in [1 .. L -> {0, 1}]
  BY PulseAssumption, SMT DEF IInv, Decode, TypeOK, Decoding, encoder
<1>2. mark + got = e /\ bitval = bits[e] /\ Agrees(got) /\ Empty(got + 1)
  BY DEF Decoding
<1>3. in < out
  <2>1. Used(out) \in 0 .. L /\ e \in 0 .. L
    BY <1>1, Pulses, SMT
  <2>2. mark + N <= Used(out)
    BY DEF Complete
  <2>3. e # Used(out)
    BY <1>1, <1>2, <2>1, <2>2, SMT
  <2> QED BY <1>1, <2>3, SMT
<1>4. /\ e \in in .. L /\ Used(in + 1) = used[in] /\ Stands(in, e, BitAt(e)) /\ BitAt(e) \in {0, 1}
  BY <1>1, <1>3, Pulses
<1>5. BitAt(e) = bitval /\ bitval \in {0, 1}
  BY <1>1, <1>2, <1>4, SMT DEF BitAt
<1>6. ASSUME in' = in + 1 PROVE Used(in)' = used[in] /\ in' <= out'
  BY <1>1, <1>3, <1>6, SMT DEF Used, encoder
<1>7. CASE used[in] = e + 1
  <2>1. bits[e + 1] \in {0, 1} /\ ~(raw[in] \in {1, 2} /\ bitval = 1) /\ Meaning(raw[in], bitval)[1] = bits[e + 1]
    <3>1. e + 1 \in 1 .. L
      BY <1>1, <1>3, <1>4, <1>7, Pulses, SMT
    <3>2. \/ bitval = 0 /\ raw[in] = bits[e + 1]
          \/ bitval = 1 /\ raw[in] = 0 /\ bits[e + 1] = 1
      BY <1>4, <1>5, <1>7, SMT DEF Stands
    <3>3. bits[e + 1] \in {0, 1}
      BY <1>1, <3>1
    <3> QED BY <3>2, <3>3, <1>5, SMT DEF Meaning
  <2>2. /\ dst' = [dst EXCEPT ![got + 1] = bits[e + 1]] /\ got' = got + 1
        /\ bitval' = bits[e + 1] /\ in' = in + 1
        /\ phase' = IF got + 1 >= N THEN "done" ELSE "decode"
    BY <1>1, <1>3, <2>1, SMT DEF Decode, BlockFull
  <2>3. Agrees(got)' /\ Empty(got + 1)'
    <3>1. got + 1 \in 1 .. N + 1 /\ mark + (got + 1) = e + 1 /\ (got + 1)' = got + 2
      BY <1>1, <1>2, <2>2, SMT
    <3>2. \A k \in 1 .. got + 1 : k = got + 1 \/ (k \in 1 .. got /\ k # got + 1 /\ k \in 1 .. N + 1)
      BY <1>1, SMT
    <3>3. \A k \in got + 2 .. N + 1 : k \in got + 1 .. N + 1 /\ k # got + 1 /\ k \in 1 .. N + 1
      BY <1>1, SMT
    <3>4. Agrees(got)'
      BY <1>1, <1>2, <2>2, <3>1, <3>2 DEF Agrees
    <3> QED BY <1>1, <1>2, <2>2, <3>1, <3>3, <3>4 DEF Empty
  <2> QED BY <1>1, <1>2, <1>4, <1>6, <1>7, <2>2, <2>3, SMT DEF Decoding, Agrees
<1>8. CASE used[in] = e + 2
  <2>1. /\ bits[e + 1] = 0 /\ bits[e + 2] \in {0, 1} /\ raw[in] \in {1, 2} /\ bitval = 1
        /\ Meaning(raw[in], bitval)[2] = bits[e + 2]
    <3>1. e + 2 \in 1 .. L
      BY <1>1, <1>3, <1>4, <1>8, Pulses, SMT
    <3>2. bitval = 1 /\ raw[in] = 1 + bits[e + 2] /\ bits[e + 1] = 0
      BY <1>4, <1>5, <1>8, SMT DEF Stands
    <3>3. bits[e + 2] \in {0, 1}
      BY <1>1, <3>1
    <3> QED BY <3>2, <3>3, SMT DEF Meaning
  <2>2. /\ dst' = [dst EXCEPT ![got + 2] = bits[e + 2]] /\ got' = got + 2
        /\ bitval' = bits[e + 2] /\ in' = in + 1
        /\ phase' = IF got + 2 >= N THEN "done" ELSE "decode"
    BY <1>1, <1>3, <2>1, SMT DEF Decode, BlockFull
  <2>3. Agrees(got)' /\ Empty(got + 1)'
    <3>1. /\ got + 1 \in 1 .. N + 1 /\ got + 2 \in 1 .. N + 1 /\ got + 1 \in got + 1 .. N + 1
          /\ mark + (got + 1) = e + 1 /\ mark + (got + 2) = e + 2 /\ (got + 1)' = got + 3
          /\ got + 1 # got + 2
      BY <1>1, <1>2, <2>2, SMT
    <3>2. \A k \in 1 .. got + 2 : \/ k = got + 2
                                  \/ k = got + 1
                                  \/ k \in 1 .. got /\ k # got + 2 /\ k \in 1 .. N + 1
      BY <1>1, SMT
    <3>3. \A k \in got + 3 .. N + 1 : k \in got + 1 .. N + 1 /\ k # got + 2 /\ k \in 1 .. N + 1
      BY <1>1, SMT
    <3>4. dst[got + 1] = bits[mark + (got + 1)]
      BY <1>2, <2>1, <3>1 DEF Empty
    <3>5. Agrees(got)'
      BY <1>1, <1>2, <2>2, <3>1, <3>2, <3>4 DEF Agrees
    <3> QED BY <1>1, <1>2, <2>2, <3>1, <3>3, <3>5 DEF Empty
  <2> QED BY <1>1, <1>2, <1>4, <1>6, <1>8, <2>2, <2>3, SMT DEF Decoding, Agrees
<1> QED BY <1>4, <1>7, <1>8 DEF Stands

LEMMA DecodeInv == IInv /\ Decode => IInv'
<1> SUFFICES ASSUME IInv, Decode PROVE IInv'
  OBVIOUS
<1>1. /\ phase = "decode" /\ UNCHANGED <<zeros, mark>> /\ UNCHANGED encoder /\ TypeOK /\ got < N
      /\ got \in 0 .. N + 1 /\ N \in Nat /\ N >= 1 /\ in \in 0 .. L /\ L \in Nat
  BY PulseAssumption, SMT DEF Decode, IInv, TypeOK
<1>2. /\ phase' \in {"decode", "done", "failed"} /\ in' \in 0 .. L /\ got' \in 0 .. N + 1
      /\ phase' = "decode" => got' < N
  BY <1>1, SMT DEF Decode, BlockFull
<1>3. bitval' \in {0, 1} /\ dst' \in [1 .. N + 1 -> {0, 1}]
  <2>1. CASE in >= L
    BY <1>1, <2>1 DEF Decode, TypeOK
  <2>2. CASE ~(in >= L)
    <3>1. raw[in] \in Byte /\ bitval \in {0, 1}
      BY <1>1, <2>2, SMT DEF TypeOK, PulseNumbers
    <3>2. /\ Meaning(raw[in], bitval)[1] \in {0, 1}
          /\ raw[in] \in {1, 2} /\ bitval = 1 => Meaning(raw[in], bitval)[2] \in {0, 1}
      BY <3>1, SMT DEF Meaning, Byte
    <3>3. PICK t \in 1 .. N + 1, v \in {0, 1} : dst' = [dst EXCEPT ![t] = v] /\ bitval' = v
      BY <1>1, <2>2, <3>2, SMT DEF Decode
    <3> QED BY <1>1, <3>3 DEF TypeOK
  <2> QED BY <2>1, <2>2
<1>4. TypeOK'
  BY <1>1, <1>2, <1>3 DEF TypeOK, encoder
<1>5. Complete' = Complete
  BY <1>1, EncoderKept DEF Complete
<1>6. Found'
  BY <1>1, <1>2, <1>5, DecodeFinds DEF Found, IInv
<1> QED BY <1>1, <1>2, <1>4, <1>6, EncoderKept DEF IInv

-----------------------------------------------------------------------------
LEMMA Inductive == IInv /\ [Next]_vars => IInv'
<1> SUFFICES ASSUME IInv, [Next]_vars PROVE IInv'
  OBVIOUS
<1>1. CASE UNCHANGED vars
  BY <1>1 DEF vars, IInv, TypeOK, Closed, Stands, Open, Used, BitAt, Idle, Found, Complete,
     Scanning, Decoding, Untouched, Empty, Agrees, ZerosBetween
<1> QED BY <1>1, EncodeInv, EndEncodeInv, BeginBlockInv, ScanInv, DecodeInv DEF Next

(***************************************************************************)
(* Whatever the image, a block behind a long enough gap is found and read  *)
(* back bit for bit: block_decode inverts bin_to_raw03.                    *)
(***************************************************************************)
THEOREM BlocksComeBack == Spec => []BlockComesBack
<1>1. IInv => BlockComesBack
  BY DEF IInv, Found, Agrees, BlockComesBack
<1> QED BY <1>1, Initially, Inductive, PTL DEF Spec

(***************************************************************************)
(* The block has at most one bit more than it should: block_decode never   *)
(* writes past the spare byte behind the CRC, nor reads past the pulses.   *)
(***************************************************************************)
THEOREM StaysInBuffers == Spec => []TypeOK
<1>1. IInv => TypeOK
  BY DEF IInv
<1> QED BY <1>1, Initially, Inductive, PTL DEF Spec
=============================================================================
