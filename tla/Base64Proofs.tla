---------------------------- MODULE Base64Proofs ----------------------------
(***************************************************************************)
(* Proofs about Base64Decode, for texts and byte strings of any length:    *)
(* the loop of decode stays within the result that was allocated for it,   *)
(* what was encoded comes back, the loop comes to its closed form, and     *)
(* encode writes the bits of the bytes six at a time.                      *)
(***************************************************************************)
EXTENDS Base64Decode, TLAPS

-----------------------------------------------------------------------------
(* What the conversions return. *)

\* The alphabet is bytes.
LEMMA LookupIsByte ==
  ASSUME NEW n \in 0 .. 63
  PROVE  Lookup(n) \in Byte
<1>1. CASE n < 26
  BY <1>1 DEF Lookup, Byte
<1>2. CASE n \in 26 .. 51
  BY <1>2 DEF Lookup, Byte
<1>3. CASE n \in 52 .. 61
  BY <1>3 DEF Lookup, Byte
<1>4. CASE n = 62
  BY <1>4 DEF Lookup, Byte
<1>5. CASE n = 63
  BY <1>5 DEF Lookup, Byte
<1>6. QED
  BY <1>1, <1>2, <1>3, <1>4, <1>5

\* A symbol of any kind adds six bits at most.
LEMMA DigitIsSmall ==
  ASSUME NEW c \in Byte
  PROVE  Digit(c) \in 0 .. 63
BY DEF Digit, Byte

\* Padding is that of the last two symbols.
LEMMA PaddingIsSmall ==
  ASSUME NEW t \in Seq(Byte)
  PROVE  Padding(t) \in 0 .. 2
BY DEF Padding

\* A byte is a number.
LEMMA ByteIsNat == \A x \in Byte : x \in Nat
BY DEF Byte

\* Three bytes are a number.
LEMMA BlockIsNat ==
  ASSUME NEW bytes \in Seq(Byte), NEW first \in Nat \ {0}
  PROVE  BlockOf(bytes, first) \in Nat
<1> DEFINE at(k) == IF k <= Len(bytes) THEN bytes[k] ELSE 0
<1>1. ASSUME NEW k \in Nat \ {0}
      PROVE  at(k) \in Nat
  <2>1. CASE k <= Len(bytes)
    <3>1. k \in 1 .. Len(bytes)
      BY <1>1, <2>1
    <3>2. bytes[k] \in Byte
      BY <3>1
    <3>3. at(k) = bytes[k]
      BY <2>1
    <3>4. bytes[k] \in Nat
      BY <3>2, ByteIsNat
    <3> HIDE DEF at
    <3>5. QED
      BY <3>3, <3>4
  <2>2. CASE ~ (k <= Len(bytes))
    BY <2>2
  <2>3. QED
    BY <2>1, <2>2
<1>2. BlockOf(bytes, first) = 65536 * at(first) + 256 * at(first + 1) + at(first + 2)
  BY DEF BlockOf
<1>3. at(first) \in Nat /\ at(first + 1) \in Nat /\ at(first + 2) \in Nat
  BY <1>1
<1> HIDE DEF at
<1>4. QED
  BY <1>2, <1>3

\* Six bits of a number are a number below 64.
LEMMA SixBits ==
  ASSUME NEW n \in Nat, NEW d \in 0 .. 3
  PROVE  (n \div Units[d + 1]) % 64 \in 0 .. 63
<1>1. CASE d = 0
  BY <1>1 DEF Units
<1>2. CASE d = 1
  BY <1>2 DEF Units
<1>3. CASE d = 2
  BY <1>3 DEF Units
<1>4. CASE d = 3
  BY <1>4 DEF Units
<1>5. QED
  BY <1>1, <1>2, <1>3, <1>4

\* encode writes a text of bytes.
LEMMA EncodedIsText ==
  ASSUME NEW bytes \in Seq(Byte)
  PROVE  Encoded(bytes) \in Seq(Byte)
<1> DEFINE size     == 4 * ((Len(bytes) + 2) \div 3)
           group(p) == (p - 1) \div 4
           digit(p) == (p - 1) % 4
           six(p)   == (BlockOf(bytes, 3 * group(p) + 1) \div Units[digit(p) + 1]) % 64
           at(p)    == IF digit(p) >= 2 /\ 3 * group(p) + digit(p) > Len(bytes)
                       THEN Pad ELSE Lookup(six(p))
<1>1. size \in Nat
  OBVIOUS
<1>2. ASSUME NEW p \in 1 .. size
      PROVE  at(p) \in Byte
  <2>1. group(p) \in Nat /\ digit(p) \in 0 .. 3
    BY <1>1
  <2>2. BlockOf(bytes, 3 * group(p) + 1) \in Nat
    <3> HIDE DEF group
    <3>1. 3 * group(p) + 1 \in Nat \ {0}
      BY <2>1
    <3>2. QED
      BY <3>1, BlockIsNat
  <2>3. six(p) \in 0 .. 63
    <3> HIDE DEF group, digit
    <3>1. QED
      BY <2>1, <2>2, SixBits
  <2>4. Lookup(six(p)) \in Byte
    BY <2>3, LookupIsByte
  <2>5. Pad \in Byte
    BY DEF Pad, Byte
  <2>6. QED
    BY <2>4, <2>5
<1>3. Encoded(bytes) = [p \in 1 .. size |-> at(p)]
  BY DEF Encoded
<1> HIDE DEF size, at
<1>4. QED
  BY <1>1, <1>2, <1>3

-----------------------------------------------------------------------------
(***************************************************************************)
(* The inductive invariant: while the loop runs there has been no padding, *)
(* so that three bytes have been written for each full block, and a block  *)
(* that is still to come has its three bytes less the padding.             *)
(***************************************************************************)
LoopInv ==
  /\ phase = "start" => i = 0 /\ j = 0 /\ r = 0
  /\ phase = "decode" =>
       /\ Len(text) % 4 = 0 /\ Len(text) > 0
       /\ 4 * i + j <= Len(text)
       /\ r = 3 * i
       /\ Len(result) = ResultSize(text)
       /\ \A k \in 1 .. 4 * i + j : text[k] # Pad

IInv == TypeOK /\ LoopInv /\ InBounds

\* Writing bytes keeps the result's length, and its elements bytes.
LEMMA WriteKeeps ==
  ASSUME TypeOK, NEW bytes \in Seq(Byte), Write(bytes)
  PROVE  /\ r' = r + Len(bytes) /\ r' \in Nat
         /\ result' \in Seq(Byte)
         /\ Len(result') = Len(result)
<1>1. result \in Seq(Byte) /\ r \in Nat
  BY DEF TypeOK
<1>2. result' = [k \in 1 .. Len(result) |->
                   IF k - r \in DOMAIN bytes THEN bytes[k - r] ELSE result[k]]
  BY <1>1 DEF Write
<1>3. \A k \in 1 .. Len(result) :
        (IF k - r \in DOMAIN bytes THEN bytes[k - r] ELSE result[k]) \in Byte
  BY <1>1
<1>4. QED
  BY <1>1, <1>2, <1>3 DEF Write

\* Parts of a number are bytes.
LEMMA PartIsByte ==
  ASSUME NEW n \in Nat
  PROVE  /\ n % 256 \in Byte
         /\ (n \div 256) % 256 \in Byte
         /\ (n \div 1024) % 256 \in Byte
         /\ (n \div 65536) % 256 \in Byte
BY DEF Byte

LEMMA InitKeeps == Init => IInv
<1> SUFFICES ASSUME Init PROVE IInv
  OBVIOUS
<1>1. text \in Seq(Byte)
  BY EncodedIsText, TextsAssumption, SourcesAssumption DEF Init
<1>2. QED
  BY <1>1 DEF Init, IInv, TypeOK, LoopInv, InBounds

LEMMA StartKeeps == IInv /\ Start => IInv'
<1> SUFFICES ASSUME IInv, Start PROVE IInv'
  OBVIOUS
<1>1. /\ text \in Seq(Byte) /\ Len(text) \in Nat
      /\ i = 0 /\ j = 0 /\ r = 0 /\ block \in Nat
      /\ result \in Seq(Byte) /\ Len(result) \in Nat
  BY DEF IInv, TypeOK, LoopInv, Start
<1>2. CASE text = <<>> \/ Len(text) % 4 # 0
  BY <1>1, <1>2 DEF Start, IInv, TypeOK, LoopInv, InBounds
<1>3. CASE text # <<>> /\ Len(text) % 4 = 0
  <2>1. /\ result' = [k \in 1 .. ResultSize(text) |-> 0] /\ phase' = "decode"
        /\ UNCHANGED <<source, text, i, j, block, r>>
    BY <1>3 DEF Start
  <2>2. Len(text) > 0
    BY <1>1, <1>3
  <2>3. ResultSize(text) \in Nat
    BY <2>2, <1>1, <1>3, PaddingIsSmall DEF ResultSize
  <2>4. result' \in Seq(Byte) /\ Len(result') = ResultSize(text)
    BY <2>1, <2>3 DEF Byte
  <2>5. ResultSize(text)' = ResultSize(text)
    BY <2>1 DEF ResultSize, Padding
  <2>6. TypeOK'
    BY <1>1, <2>1, <2>4 DEF TypeOK
  <2>7. LoopInv'
    <3>1. Len(text') % 4 = 0 /\ Len(text') > 0 /\ 4 * i' + j' <= Len(text') /\ r' = 3 * i'
      BY <1>1, <1>3, <2>1, <2>2
    <3>2. Len(result') = ResultSize(text)'
      BY <2>4, <2>5
    <3>3. 4 * i' + j' = 0
      BY <1>1, <2>1
    <3>4. \A k \in 1 .. 4 * i' + j' : text'[k] # Pad
      BY <3>3
    <3>5. QED
      BY <2>1, <3>1, <3>2, <3>4 DEF LoopInv
  <2>8. InBounds'
    BY <1>1, <2>1, <2>3, <2>4 DEF InBounds
  <2>9. QED
    BY <2>6, <2>7, <2>8 DEF IInv
<1>4. QED
  BY <1>2, <1>3

\* What is known in the loop, about the symbol that comes next.
LEMMA InLoop ==
  ASSUME IInv, InText
  PROVE  /\ text \in Seq(Byte) /\ Len(text) \in Nat /\ Symbol \in Byte
         /\ i \in Nat /\ j \in 0 .. 3 /\ block \in Nat /\ r = 3 * i
         /\ Len(text) % 4 = 0 /\ 4 * i + 4 <= Len(text)
         /\ result \in Seq(Byte) /\ Len(result) = 3 * (Len(text) \div 4) - Padding(text)
         /\ Padding(text) \in 0 .. 2
         /\ \A k \in 1 .. 4 * i + j : text[k] # Pad
<1>1. /\ text \in Seq(Byte) /\ Len(text) \in Nat
      /\ i \in Nat /\ j \in 0 .. 3 /\ block \in Nat /\ r = 3 * i
      /\ Len(text) % 4 = 0 /\ 4 * i + j < Len(text)
      /\ result \in Seq(Byte) /\ Len(result) = ResultSize(text)
      /\ \A k \in 1 .. 4 * i + j : text[k] # Pad
  BY DEF IInv, TypeOK, LoopInv, InText
<1>2. 4 * i + 4 <= Len(text)
  BY <1>1
<1>3. 4 * i + j + 1 \in 1 .. Len(text)
  BY <1>1
<1>4. Symbol \in Byte
  BY <1>1, <1>3 DEF Symbol
<1>5. QED
  BY <1>1, <1>2, <1>4, PaddingIsSmall DEF ResultSize

LEMMA ReadDigitKeeps == IInv /\ ReadDigit => IInv'
<1> SUFFICES ASSUME IInv, ReadDigit PROVE IInv'
  OBVIOUS
<1> DEFINE bits == 64 * block + Digit(Symbol)
<1>1. InText /\ Symbol # Pad /\ phase = "decode" /\ UNCHANGED <<phase, source, text>>
  BY DEF ReadDigit, InText
<1>2. /\ text \in Seq(Byte) /\ Len(text) \in Nat /\ Symbol \in Byte
      /\ i \in Nat /\ j \in 0 .. 3 /\ block \in Nat /\ r = 3 * i
      /\ Len(text) % 4 = 0 /\ 4 * i + 4 <= Len(text)
      /\ result \in Seq(Byte) /\ Len(result) = 3 * (Len(text) \div 4) - Padding(text)
      /\ Padding(text) \in 0 .. 2
      /\ \A k \in 1 .. 4 * i + j : text[k] # Pad
  BY <1>1, InLoop
<1>3. \A k \in 1 .. 4 * i + j + 1 : text[k] # Pad
  BY <1>1, <1>2 DEF Symbol
<1>4. bits \in Nat
  <2>1. Digit(Symbol) \in 0 .. 63
    BY <1>2, DigitIsSmall
  <2>2. block \in Nat
    BY <1>2
  <2>3. ASSUME NEW n \in Nat, NEW d \in 0 .. 63
        PROVE  64 * n + d \in Nat
    OBVIOUS
  <2>4. QED
    BY <2>1, <2>2, <2>3
<1>5. Padding(text)' = Padding(text) /\ ResultSize(text)' = ResultSize(text)
  BY <1>1 DEF Padding, ResultSize
<1> HIDE DEF bits
<1>6. CASE j < 3
  <2>1. j' = j + 1 /\ block' = bits /\ UNCHANGED <<i, r, result>>
    BY <1>6 DEF ReadDigit, bits
  <2>2. TypeOK'
    BY <1>1, <1>2, <1>4, <1>6, <2>1 DEF TypeOK
  <2>3. LoopInv'
    BY <1>1, <1>2, <1>3, <1>5, <1>6, <2>1 DEF LoopInv, ResultSize
  <2>4. InBounds'
    BY <2>1 DEF IInv, InBounds
  <2>5. QED
    BY <2>2, <2>3, <2>4 DEF IInv
<1>7. CASE j = 3
  <2> DEFINE bytes == <<(bits \div 65536) % 256, (bits \div 256) % 256, bits % 256>>
  <2>1. i' = i + 1 /\ j' = 0 /\ block' = 0 /\ Write(bytes)
    BY <1>7 DEF ReadDigit, bits
  <2>2. bytes \in Seq(Byte) /\ Len(bytes) = 3
    BY <1>4, PartIsByte
  <2> HIDE DEF bytes
  <2>3. r' = r + 3 /\ result' \in Seq(Byte) /\ Len(result') = Len(result)
    BY <2>1, <2>2, WriteKeeps DEF IInv
  <2>4. TypeOK'
    BY <1>1, <1>2, <2>1, <2>3 DEF TypeOK
  <2>5. LoopInv'
    BY <1>1, <1>2, <1>3, <1>5, <1>7, <2>1, <2>3 DEF LoopInv, ResultSize
  <2>6. CASE 4 * i + 4 = Len(text)
    <3>1. Padding(text) = 0
      BY <1>2, <1>3, <1>7, <2>6 DEF Padding
    <3>2. QED
      BY <1>2, <2>3, <2>6, <2>4, <2>5, <3>1 DEF IInv, InBounds
  <2>7. CASE 4 * i + 4 < Len(text)
    BY <1>2, <2>3, <2>7, <2>4, <2>5 DEF IInv, InBounds
  <2>8. QED
    BY <1>2, <2>6, <2>7
<1>8. QED
  BY <1>2, <1>6, <1>7

LEMMA ReadPadKeeps == IInv /\ ReadPad => IInv'
<1> SUFFICES ASSUME IInv, ReadPad PROVE IInv'
  OBVIOUS
<1> DEFINE bits == 64 * block
           two  == <<(bits \div 65536) % 256, (bits \div 256) % 256>>
           one  == <<(bits \div 1024) % 256>>
<1>1. /\ InText /\ phase' \in {"error", "done"}
      /\ UNCHANGED <<source, text, i, j, block>>
  BY DEF ReadPad
<1>2. /\ text \in Seq(Byte) /\ Len(text) \in Nat
      /\ i \in Nat /\ j \in 0 .. 3 /\ block \in Nat /\ r = 3 * i
      /\ Len(text) % 4 = 0 /\ 4 * i + 4 <= Len(text)
      /\ result \in Seq(Byte) /\ Len(result) = 3 * (Len(text) \div 4) - Padding(text)
      /\ Padding(text) \in 0 .. 2
  BY <1>1, InLoop
<1>3. bits \in Nat
  BY <1>2
<1>4. two \in Seq(Byte) /\ Len(two) = 2 /\ one \in Seq(Byte) /\ Len(one) = 1
  BY <1>3, PartIsByte
<1>5. \/ Padding(text) = 1 /\ Write(two)
      \/ Padding(text) = 2 /\ Write(one)
      \/ Padding(text) = 0 /\ UNCHANGED <<r, result>>
  <2>1. CASE Padding(text) = 1
    BY <2>1 DEF ReadPad
  <2>2. CASE Padding(text) = 2
    BY <2>2 DEF ReadPad
  <2>3. CASE Padding(text) = 0
    BY <2>3 DEF ReadPad
  <2>4. QED
    BY <1>2, <2>1, <2>2, <2>3
<1> HIDE DEF two, one
<1>6. /\ r' \in Nat /\ result' \in Seq(Byte) /\ Len(result') = Len(result)
      /\ r' \in {r, r + 3 - Padding(text)}
  <2>1. TypeOK
    BY DEF IInv
  <2>2. CASE Padding(text) = 1 /\ Write(two)
    <3>1. r' = r + 2 /\ r' \in Nat /\ result' \in Seq(Byte) /\ Len(result') = Len(result)
      BY <1>4, <2>1, <2>2, WriteKeeps
    <3>2. QED
      BY <1>2, <2>2, <3>1
  <2>3. CASE Padding(text) = 2 /\ Write(one)
    <3>1. r' = r + 1 /\ r' \in Nat /\ result' \in Seq(Byte) /\ Len(result') = Len(result)
      BY <1>4, <2>1, <2>3, WriteKeeps
    <3>2. QED
      BY <1>2, <2>3, <3>1
  <2>4. CASE Padding(text) = 0 /\ UNCHANGED <<r, result>>
    BY <1>2, <2>4
  <2>5. QED
    BY <1>5, <2>2, <2>3, <2>4
<1>7. r' <= Len(result')
  BY <1>2, <1>6
<1>8. QED
  BY <1>1, <1>2, <1>6, <1>7 DEF IInv, TypeOK, LoopInv, InBounds

LEMMA NextKeeps == IInv /\ [Next]_vars => IInv'
<1> SUFFICES ASSUME IInv, [Next]_vars PROVE IInv'
  OBVIOUS
<1>1. CASE Start
  BY <1>1, StartKeeps
<1>2. CASE ReadDigit
  BY <1>2, ReadDigitKeeps
<1>3. CASE ReadPad
  BY <1>3, ReadPadKeeps
<1>4. CASE Finish
  BY <1>4 DEF Finish, IInv, TypeOK, LoopInv, InBounds
<1>5. CASE UNCHANGED vars
  BY <1>5 DEF vars, IInv, TypeOK, LoopInv, InBounds, ResultSize, Padding
<1>6. QED
  BY <1>1, <1>2, <1>3, <1>4, <1>5 DEF Next

(***************************************************************************)
(* Every variable keeps its type (base64.hpp:63-118), in particular what   *)
(* is written into the result are bytes.                                   *)
(***************************************************************************)
THEOREM TypeCorrect == Spec => []TypeOK
<1>1. IInv => TypeOK
  BY DEF IInv
<1>2. QED
  BY <1>1, InitKeeps, NextKeeps, PTL DEF Spec

(***************************************************************************)
(* decode never writes beyond the result it has allocated, whatever text   *)
(* it is given, of whatever length (base64.hpp:83-114).                    *)
(***************************************************************************)
THEOREM StaysInBounds == Spec => []InBounds
<1>1. IInv => InBounds
  BY DEF IInv
<1>2. QED
  BY <1>1, InitKeeps, NextKeeps, PTL DEF Spec

-----------------------------------------------------------------------------
(* What was encoded is decoded to what it was. *)

\* The alphabet has each symbol once, and padding is not in it.
LEMMA DigitOfLookup ==
  ASSUME NEW n \in 0 .. 63
  PROVE  Digit(Lookup(n)) = n /\ Lookup(n) # Pad
<1>1. CASE n < 26
  <2>1. Lookup(n) = 65 + n
    BY <1>1 DEF Lookup
  <2>2. QED
    BY <1>1, <2>1 DEF Digit, Pad
<1>2. CASE n \in 26 .. 51
  <2>1. Lookup(n) = 71 + n
    BY <1>2 DEF Lookup
  <2>2. QED
    BY <1>2, <2>1 DEF Digit, Pad
<1>3. CASE n \in 52 .. 61
  <2>1. Lookup(n) = n - 4
    BY <1>3 DEF Lookup
  <2>2. QED
    BY <1>3, <2>1 DEF Digit, Pad
<1>4. CASE n = 62
  BY <1>4 DEF Lookup, Digit, Pad
<1>5. CASE n = 63
  BY <1>5 DEF Lookup, Digit, Pad
<1>6. QED
  BY <1>1, <1>2, <1>3, <1>4, <1>5

\* n is three bytes as one number.
Joined(n, a, b, c) == n = 65536 * a + 256 * b + c

\* The three bytes that n is decoded to, and those of what is left of it after
\* two or three of its digits.
Bytes(n, a, b, c) ==
  (n \div 65536) % 256 = a /\ (n \div 256) % 256 = b /\ n % 256 = c

BytesOfRest(n, a, b) ==
  /\ ((64 * (n \div 4096)) \div 1024) % 256 = a
  /\ ((64 * (n \div 64)) \div 65536) % 256 = a
  /\ ((64 * (n \div 64)) \div 256) % 256 = b

LEMMA BytesOfBlock ==
  ASSUME NEW a \in Byte, NEW b \in Byte, NEW c \in Byte, NEW n,
         Joined(n, a, b, c)
  PROVE  n \in Nat /\ Bytes(n, a, b, c) /\ BytesOfRest(n, a, b)
<1> USE DEF Joined, Byte
<1>1. n \in Nat
  OBVIOUS
<1>2. n \div 65536 = a /\ n \div 256 = 256 * a + b /\ n % 256 = c
  OBVIOUS
<1>3. a % 256 = a /\ (256 * a + b) % 256 = b
  OBVIOUS
<1>4. Bytes(n, a, b, c)
  BY <1>2, <1>3 DEF Bytes
<1>5. ((64 * (n \div 4096)) \div 1024) % 256 = a
  OBVIOUS
<1>6. ((64 * (n \div 64)) \div 65536) % 256 = a
  OBVIOUS
<1>7. (64 * (n \div 64)) \div 256 = n \div 256
  OBVIOUS
<1>8. ((64 * (n \div 64)) \div 256) % 256 = b
  BY <1>2, <1>3, <1>7
<1>9. QED
  BY <1>1, <1>4, <1>5, <1>6, <1>8 DEF BytesOfRest

\* Digit d of a block, and what the first d of its four digits come to.
DigitAt(n, d) == (n \div Units[d + 1]) % 64

Leading(n, d) ==
  IF d = 0 THEN 0 ELSE IF d = 1 THEN n \div 262144
  ELSE IF d = 2 THEN n \div 4096 ELSE IF d = 3 THEN n \div 64 ELSE n

\* A digit that is added to the leading ones makes them one more.
NextIs(n, d) == 64 * Leading(n, d) + DigitAt(n, d) = Leading(n, d + 1)

LEMMA NextDigit ==
  ASSUME NEW a \in Byte, NEW b \in Byte, NEW c \in Byte, NEW n,
         Joined(n, a, b, c), NEW d \in 0 .. 3
  PROVE  NextIs(n, d)
<1>1. n \in Nat
  BY DEF Joined, Byte
<1>2. n < 16777216
  BY DEF Joined, Byte
<1>3. CASE d = 0
  <2>1. Units[d + 1] = 262144 /\ Leading(n, d) = 0 /\ Leading(n, d + 1) = n \div 262144
    BY <1>3 DEF Units, Leading
  <2>2. 64 * 0 + ((n \div 262144) % 64) = n \div 262144
    BY <1>1, <1>2
  <2>3. QED
    BY <2>1, <2>2 DEF NextIs, DigitAt
<1>4. CASE d = 1
  <2>1. Units[d + 1] = 4096 /\ Leading(n, d) = n \div 262144 /\ Leading(n, d + 1) = n \div 4096
    BY <1>4 DEF Units, Leading
  <2>2. 64 * (n \div 262144) + ((n \div 4096) % 64) = n \div 4096
    BY <1>1
  <2>3. QED
    BY <2>1, <2>2 DEF NextIs, DigitAt
<1>5. CASE d = 2
  <2>1. Units[d + 1] = 64 /\ Leading(n, d) = n \div 4096 /\ Leading(n, d + 1) = n \div 64
    BY <1>5 DEF Units, Leading
  <2>2. 64 * (n \div 4096) + ((n \div 64) % 64) = n \div 64
    BY <1>1
  <2>3. QED
    BY <2>1, <2>2 DEF NextIs, DigitAt
<1>6. CASE d = 3
  <2>1. Units[d + 1] = 1 /\ Leading(n, d) = n \div 64 /\ Leading(n, d + 1) = n
    BY <1>6 DEF Units, Leading
  <2>2. 64 * (n \div 64) + ((n \div 1) % 64) = n
    BY <1>1
  <2>3. QED
    BY <2>1, <2>2 DEF NextIs, DigitAt
<1>7. d = 0 \/ d = 1 \/ d = 2 \/ d = 3
  OBVIOUS
<1>8. QED
  BY <1>3, <1>4, <1>5, <1>6, <1>7, Zenon

\* The byte at a position, where those beyond the end count as zero.
ByteAt(bytes, k) == IF k <= Len(bytes) THEN bytes[k] ELSE 0

LEMMA ByteAtIsByte ==
  ASSUME NEW bytes \in Seq(Byte), NEW k \in Nat \ {0}
  PROVE  ByteAt(bytes, k) \in Byte
<1>1. CASE k <= Len(bytes)
  <2>1. k \in 1 .. Len(bytes)
    BY <1>1
  <2>2. bytes[k] \in Byte
    BY <2>1
  <2>3. QED
    BY <1>1, <2>2 DEF ByteAt, Byte
<1>2. CASE ~ (k <= Len(bytes))
  BY <1>2 DEF ByteAt, Byte
<1>3. QED
  BY <1>1, <1>2

LEMMA BlockIs ==
  ASSUME NEW bytes \in Seq(Byte), NEW k \in Nat \ {0}
  PROVE  BlockOf(bytes, k) = 65536 * ByteAt(bytes, k)
                               + 256 * ByteAt(bytes, k + 1)
                               + ByteAt(bytes, k + 2)
BY DEF BlockOf, ByteAt

\* The symbols of an encoding.
LEMMA SymbolOf ==
  ASSUME NEW bytes \in Seq(Byte), NEW g \in Nat, NEW d \in 0 .. 3,
         4 * g + d < Len(Encoded(bytes))
  PROVE  Encoded(bytes)[4 * g + d + 1] =
           IF d >= 2 /\ 3 * g + d > Len(bytes)
           THEN Pad
           ELSE Lookup((BlockOf(bytes, 3 * g + 1) \div Units[d + 1]) % 64)
<1> DEFINE size     == 4 * ((Len(bytes) + 2) \div 3)
           at(m, e) == IF e >= 2 /\ 3 * m + e > Len(bytes)
                       THEN Pad
                       ELSE Lookup((BlockOf(bytes, 3 * m + 1) \div Units[e + 1]) % 64)
<1>1. size \in Nat
  OBVIOUS
<1>2. Encoded(bytes) = [p \in 1 .. size |-> at((p - 1) \div 4, (p - 1) % 4)]
  BY DEF Encoded
<1>3. 4 * g + d + 1 - 1 = 4 * g + d
  OBVIOUS
<1>4. (4 * g + d) \div 4 = g /\ (4 * g + d) % 4 = d
  OBVIOUS
<1> HIDE DEF size, at
<1>5. Len(Encoded(bytes)) = size
  BY <1>1, <1>2
<1>6. 4 * g + d + 1 \in 1 .. size
  BY <1>1, <1>5
<1>7. Encoded(bytes)[4 * g + d + 1] = at(g, d)
  BY <1>2, <1>3, <1>4, <1>6
<1>8. QED
  BY <1>7 DEF at

LEMMA LengthOfEncoded ==
  ASSUME NEW bytes \in Seq(Byte)
  PROVE  /\ Len(Encoded(bytes)) = 4 * ((Len(bytes) + 2) \div 3)
         /\ Len(bytes) \in Nat
<1>1. 4 * ((Len(bytes) + 2) \div 3) \in Nat /\ Len(bytes) \in Nat
  OBVIOUS
<1>2. QED
  BY <1>1 DEF Encoded

\* A symbol is padding only where the bytes have come to their end.
LEMMA PaddingOf ==
  ASSUME NEW bytes \in Seq(Byte), NEW g \in Nat, NEW d \in 0 .. 3,
         4 * g + d < Len(Encoded(bytes))
  PROVE  LET c == Encoded(bytes)[4 * g + d + 1]
         IN  /\ c = Pad <=> d >= 2 /\ 3 * g + d > Len(bytes)
             /\ c # Pad =>
                  Digit(c) = (BlockOf(bytes, 3 * g + 1) \div Units[d + 1]) % 64
<1> DEFINE six == (BlockOf(bytes, 3 * g + 1) \div Units[d + 1]) % 64
<1>1. BlockOf(bytes, 3 * g + 1) \in Nat
  BY BlockIsNat
<1>2. six \in 0 .. 63
  BY <1>1, SixBits
<1>3. Encoded(bytes)[4 * g + d + 1] =
        IF d >= 2 /\ 3 * g + d > Len(bytes) THEN Pad ELSE Lookup(six)
  BY SymbolOf
<1> HIDE DEF six
<1>4. Digit(Lookup(six)) = six /\ Lookup(six) # Pad
  BY <1>2, DigitOfLookup
<1>5. QED
  BY <1>3, <1>4 DEF six

\* decode allocates as many bytes as were encoded.
LEMMA SizeOfEncoded ==
  ASSUME NEW bytes \in Seq(Byte), bytes # <<>>
  PROVE  /\ ResultSize(Encoded(bytes)) = Len(bytes)
         /\ Padding(Encoded(bytes)) \in 0 .. 2
         /\ Len(Encoded(bytes)) > 0 /\ Len(Encoded(bytes)) % 4 = 0
<1> DEFINE t == Encoded(bytes)
<1>1. PICK n \in Nat : n = Len(bytes)
  OBVIOUS
<1>2. n > 0
  BY <1>1
<1>3. PICK m \in Nat : m = (n + 2) \div 3
  BY <1>1
<1>4. n <= 3 * m /\ 3 * m <= n + 2 /\ m > 0
  BY <1>2, <1>3
<1>5. Len(t) = 4 * m
  BY <1>1, <1>3, LengthOfEncoded
<1>6. t[4 * m] = Pad <=> 3 * m > n
  <2>1. m - 1 \in Nat /\ 3 \in 0 .. 3 /\ 4 * (m - 1) + 3 < Len(t)
    BY <1>4, <1>5
  <2>2. t[4 * (m - 1) + 3 + 1] = Pad <=> 3 >= 2 /\ 3 * (m - 1) + 3 > n
    BY <1>1, <2>1, PaddingOf
  <2>3. 4 * (m - 1) + 3 + 1 = 4 * m /\ 3 * (m - 1) + 3 = 3 * m
    OBVIOUS
  <2>4. QED
    BY <2>2, <2>3
<1>7. t[4 * m - 1] = Pad <=> 3 * m > n + 1
  <2>1. m - 1 \in Nat /\ 2 \in 0 .. 3 /\ 4 * (m - 1) + 2 < Len(t)
    BY <1>4, <1>5
  <2>2. t[4 * (m - 1) + 2 + 1] = Pad <=> 2 >= 2 /\ 3 * (m - 1) + 2 > n
    BY <1>1, <2>1, PaddingOf
  <2>3. 4 * (m - 1) + 2 + 1 = 4 * m - 1 /\ 3 * (m - 1) + 2 = 3 * m - 1
    OBVIOUS
  <2>4. QED
    BY <2>2, <2>3, <1>1
<1> HIDE DEF t
<1>8. Padding(t) = 3 * m - n
  BY <1>4, <1>5, <1>6, <1>7 DEF Padding
<1>9. (4 * m) \div 4 = m /\ (4 * m) % 4 = 0
  OBVIOUS
<1>10. ResultSize(t) = n
  BY <1>5, <1>8, <1>9 DEF ResultSize
<1>11. QED
  BY <1>1, <1>4, <1>5, <1>8, <1>9, <1>10 DEF t

\* Bytes that come next in s are written behind those that are there already.
LEMMA WriteContinues ==
  ASSUME TypeOK, NEW bytes \in Seq(Byte), Write(bytes), NEW s,
         r + Len(bytes) <= Len(result),
         \A k \in 1 .. r : result[k] = s[k],
         \A k \in 1 .. Len(bytes) : bytes[k] = s[r + k]
  PROVE  \A k \in 1 .. r + Len(bytes) : result'[k] = s[k]
<1>1. /\ result \in Seq(Byte) /\ Len(result) \in Nat /\ r \in Nat
      /\ DOMAIN result = 1 .. Len(result)
      /\ DOMAIN bytes = 1 .. Len(bytes) /\ Len(bytes) \in Nat
  BY DEF TypeOK
<1>2. SUFFICES ASSUME NEW k \in 1 .. r + Len(bytes)
               PROVE  result'[k] = s[k]
  OBVIOUS
<1>3. k \in DOMAIN result
  BY <1>1
<1>4. result'[k] = IF k - r \in DOMAIN bytes THEN bytes[k - r] ELSE result[k]
  BY <1>3 DEF Write
<1>5. CASE k <= r
  <2>1. k \in 1 .. r /\ k - r \notin DOMAIN bytes
    BY <1>1, <1>5
  <2>2. QED
    BY <1>4, <2>1
<1>6. CASE k > r
  <2>1. k - r \in 1 .. Len(bytes) /\ r + (k - r) = k
    BY <1>1, <1>6
  <2>2. QED
    BY <1>1, <1>4, <2>1
<1>7. QED
  BY <1>1, <1>5, <1>6

(***************************************************************************)
(* While the text is an encoding that is decoded, what has been written is *)
(* what was encoded, and block holds the first digits of the next block.   *)
(* The third digit of a block is only read when there is a second byte.    *)
(***************************************************************************)
SourceInv ==
  source # Unsourced =>
    /\ source \in Seq(Byte) /\ text = Encoded(source)
    /\ phase # "error"
    /\ phase = "start" => result = <<>> /\ block = 0
    /\ phase = "decode" =>
         /\ source # <<>>
         /\ j = 3 => 3 * i + 2 <= Len(source)
         /\ block = Leading(BlockOf(source, 3 * i + 1), j)
         /\ \A k \in 1 .. r : result[k] = source[k]
    /\ phase = "done" => result = source

LEMMA SourceInit == Init => SourceInv
<1> SUFFICES ASSUME Init, source # Unsourced PROVE SourceInv
  BY DEF SourceInv
<1>1. source \in Sources /\ text = Encoded(source)
  BY DEF Init
<1>2. QED
  BY <1>1, SourcesAssumption DEF Init, SourceInv

LEMMA SourceStart == IInv /\ SourceInv /\ Start => SourceInv'
<1> SUFFICES ASSUME IInv, SourceInv, Start, source # Unsourced
             PROVE  SourceInv'
  BY DEF Start, SourceInv
<1>1. /\ source \in Seq(Byte) /\ text = Encoded(source)
      /\ result = <<>> /\ block = 0
      /\ UNCHANGED <<source, text, i, j, block, r>>
      /\ i = 0 /\ j = 0 /\ r = 0
  BY DEF IInv, LoopInv, SourceInv, Start
<1>2. CASE source = <<>>
  <2>1. Len(text) = 0
    <3>1. Len(text) = 4 * ((Len(source) + 2) \div 3)
      BY <1>1, LengthOfEncoded
    <3>2. Len(source) = 0
      BY <1>2
    <3>3. 4 * ((0 + 2) \div 3) = 0
      OBVIOUS
    <3>4. QED
      BY <3>1, <3>2, <3>3
  <2>2. text \in Seq(Byte)
    BY DEF IInv, TypeOK
  <2>3. text = <<>>
    BY <2>1, <2>2
  <2>4. phase' = "done" /\ result' = result
    BY <2>3 DEF Start
  <2>5. QED
    BY <1>1, <1>2, <2>4 DEF SourceInv
<1>3. CASE source # <<>>
  <2>1. Len(text) > 0 /\ Len(text) % 4 = 0
    BY <1>1, <1>3, SizeOfEncoded
  <2>2. text # <<>>
    BY <2>1
  <2>3. phase' = "decode"
    BY <2>1, <2>2 DEF Start
  <2>4. QED
    BY <1>1, <1>3, <2>3 DEF SourceInv, Leading
<1>4. QED
  BY <1>2, <1>3

\* What is known in the loop when the text is an encoding: where in the block
\* the next symbol is, and what it stands for.
LEMMA InSource ==
  ASSUME IInv, SourceInv, InText, source # Unsourced
  PROVE  /\ source \in Seq(Byte) /\ Len(source) \in Nat /\ text = Encoded(source)
         /\ Len(result) = Len(source) /\ result \in Seq(Byte)
         /\ i \in Nat /\ j \in 0 .. 3 /\ r = 3 * i
         /\ 3 * i < Len(source)
         /\ 3 * ((Len(source) + 2) \div 3) - Padding(text) = Len(source)
         /\ 4 * i + 4 <= 4 * ((Len(source) + 2) \div 3)
         /\ j = 3 => 3 * i + 2 <= Len(source)
         /\ block = Leading(BlockOf(source, 3 * i + 1), j)
         /\ \A k \in 1 .. r : result[k] = source[k]
         /\ Symbol = Pad <=> j >= 2 /\ 3 * i + j > Len(source)
         /\ Symbol # Pad =>
              Digit(Symbol) = (BlockOf(source, 3 * i + 1) \div Units[j + 1]) % 64
<1>1. /\ source \in Seq(Byte) /\ text = Encoded(source) /\ source # <<>>
      /\ j = 3 => 3 * i + 2 <= Len(source)
      /\ block = Leading(BlockOf(source, 3 * i + 1), j)
      /\ \A k \in 1 .. r : result[k] = source[k]
  BY DEF SourceInv, InText
<1>2. /\ i \in Nat /\ j \in 0 .. 3 /\ r = 3 * i
      /\ Len(text) % 4 = 0 /\ 4 * i + 4 <= Len(text)
      /\ result \in Seq(Byte)
      /\ Len(result) = 3 * (Len(text) \div 4) - Padding(text)
  BY InLoop
<1>3. Len(text) = 4 * ((Len(source) + 2) \div 3) /\ Len(source) \in Nat
  BY <1>1, LengthOfEncoded
<1>4. ResultSize(text) = Len(source) /\ Padding(text) \in 0 .. 2
  BY <1>1, SizeOfEncoded
<1>5. 3 * i < Len(source)
  BY <1>2, <1>3
<1>6. (4 * ((Len(source) + 2) \div 3)) \div 4 = (Len(source) + 2) \div 3
  BY <1>3
<1>7. 4 * i + j < Len(Encoded(source))
  BY <1>1 DEF InText
<1>8. Symbol = Encoded(source)[4 * i + j + 1]
  BY <1>1 DEF Symbol
<1>9. /\ Symbol = Pad <=> j >= 2 /\ 3 * i + j > Len(source)
      /\ Symbol # Pad =>
           Digit(Symbol) = (BlockOf(source, 3 * i + 1) \div Units[j + 1]) % 64
  BY <1>1, <1>2, <1>7, <1>8, PaddingOf
<1>10. /\ Len(result) = Len(source)
       /\ 3 * ((Len(source) + 2) \div 3) - Padding(text) = Len(source)
  BY <1>2, <1>3, <1>4, <1>6 DEF ResultSize
<1>11. QED
  BY <1>1, <1>2, <1>3, <1>5, <1>9, <1>10

LEMMA SourceReadDigit == IInv /\ SourceInv /\ ReadDigit => SourceInv'
<1> SUFFICES ASSUME IInv, SourceInv, ReadDigit, source # Unsourced
             PROVE  SourceInv'
  BY DEF ReadDigit, SourceInv
<1>1. PICK a, b, c, n :
        /\ a = ByteAt(source, 3 * i + 1)
        /\ b = ByteAt(source, 3 * i + 2)
        /\ c = ByteAt(source, 3 * i + 3)
        /\ n = BlockOf(source, 3 * i + 1)
  OBVIOUS
<1>2. /\ source \in Seq(Byte) /\ Len(source) \in Nat /\ text = Encoded(source)
      /\ Len(result) = Len(source) /\ result \in Seq(Byte)
      /\ i \in Nat /\ j \in 0 .. 3 /\ r = 3 * i
      /\ 3 * i < Len(source)
      /\ j = 3 => 3 * i + 2 <= Len(source)
      /\ block = Leading(n, j)
      /\ \A k \in 1 .. r : result[k] = source[k]
      /\ Symbol = Pad <=> j >= 2 /\ 3 * i + j > Len(source)
      /\ Symbol # Pad => Digit(Symbol) = (n \div Units[j + 1]) % 64
  BY <1>1, InSource DEF ReadDigit
<1>3. /\ a \in Byte /\ b \in Byte /\ c \in Byte
      /\ Joined(n, a, b, c)
  <2>1. /\ 3 * i + 1 \in Nat \ {0} /\ 3 * i + 2 \in Nat \ {0}
        /\ 3 * i + 3 \in Nat \ {0}
        /\ 3 * i + 1 + 1 = 3 * i + 2 /\ 3 * i + 1 + 2 = 3 * i + 3
    BY <1>2
  <2>2. a \in Byte /\ b \in Byte /\ c \in Byte
    BY <1>1, <1>2, <2>1, ByteAtIsByte
  <2>3. n = 65536 * ByteAt(source, 3 * i + 1)
              + 256 * ByteAt(source, 3 * i + 1 + 1)
              + ByteAt(source, 3 * i + 1 + 2)
    BY <1>1, <1>2, <2>1, BlockIs
  <2>4. QED
    BY <1>1, <2>1, <2>2, <2>3 DEF Joined
<1>4. /\ Symbol # Pad /\ InText /\ phase = "decode"
      /\ UNCHANGED <<phase, source, text>>
  BY DEF ReadDigit, InText
<1>5. PICK bits : bits = 64 * block + Digit(Symbol)
  OBVIOUS
<1>6. bits = Leading(n, j + 1)
  <2>1. bits = 64 * Leading(n, j) + DigitAt(n, j)
    BY <1>2, <1>4, <1>5 DEF DigitAt
  <2>2. j \in 0 .. 3
    BY <1>2
  <2>3. NextIs(n, j)
    BY <1>3, <2>2, NextDigit
  <2>4. QED
    BY <2>1, <2>3 DEF NextIs
<1>7. CASE j < 3
  <2>1. /\ i' = i /\ j' = j + 1 /\ block' = bits
        /\ UNCHANGED <<r, result>>
    BY <1>5, <1>7 DEF ReadDigit
  <2>2. j + 1 = 3 => 3 * i + 2 <= Len(source)
    BY <1>2, <1>4
  <2>3. BlockOf(source, 3 * i + 1)' = n
    BY <1>1, <1>4, <2>1 DEF BlockOf
  <2>4. QED
    BY <1>1, <1>2, <1>4, <1>6, <2>1, <2>2, <2>3 DEF SourceInv
<1>8. CASE j = 3
  <2> DEFINE bytes == <<(bits \div 65536) % 256, (bits \div 256) % 256, bits % 256>>
  <2>1. i' = i + 1 /\ j' = 0 /\ block' = 0 /\ Write(bytes)
    BY <1>5, <1>8 DEF ReadDigit
  <2>2. bits = n
    BY <1>6, <1>8 DEF Leading
  <2>3. bytes = <<a, b, c>>
    <3>1. Bytes(n, a, b, c)
      BY <1>3, BytesOfBlock
    <3>2. QED
      BY <2>2, <3>1 DEF Bytes
  <2>4. 3 * i + 3 <= Len(source)
    BY <1>2, <1>4, <1>8
  <2>5. a = source[r + 1] /\ b = source[r + 2] /\ c = source[r + 3]
    BY <1>1, <1>2, <2>4 DEF ByteAt
  <2>6. PICK three \in Seq(Byte) :
          /\ three = <<a, b, c>> /\ Len(three) = 3
          /\ \A k \in 1 .. 3 : three[k] = source[r + k]
    <3>1. PICK three : three = <<a, b, c>>
      OBVIOUS
    <3>2. a \in Byte /\ b \in Byte /\ c \in Byte
      BY <1>3
    <3>3. three \in Seq(Byte) /\ Len(three) = 3
      BY <3>1, <3>2
    <3>4. three[1] = source[r + 1] /\ three[2] = source[r + 2] /\ three[3] = source[r + 3]
      BY <2>5, <3>1
    <3>5. \A k \in 1 .. 3 : three[k] = source[r + k]
      BY <3>4
    <3>6. QED
      BY <3>1, <3>3, <3>5
  <2>7. Write(three)
    BY <2>1, <2>3, <2>6
  <2> HIDE DEF bytes
  <2>8. /\ r' = r + 3
        /\ \A k \in 1 .. r + 3 : result'[k] = source[k]
    <3>1. TypeOK /\ r + Len(three) <= Len(result)
      BY <1>2, <2>4, <2>6 DEF IInv
    <3>2. r' = r + Len(three)
      BY <2>7 DEF Write
    <3>3. \A k \in 1 .. Len(three) : three[k] = source[r + k]
      BY <2>6
    <3>4. \A k \in 1 .. r : result[k] = source[k]
      BY <1>2
    <3>5. \A k \in 1 .. r + Len(three) : result'[k] = source[k]
      BY <2>7, <3>1, <3>3, <3>4, WriteContinues, Zenon
    <3>6. QED
      BY <2>6, <3>2, <3>5
  <2>9. QED
    BY <1>2, <1>4, <2>1, <2>8 DEF SourceInv, Leading
<1>9. QED
  BY <1>2, <1>7, <1>8

\* Two sequences of one length that agree are one.
LEMMA SameSequence ==
  ASSUME NEW s \in Seq(Byte), NEW t \in Seq(Byte), Len(s) = Len(t),
         \A k \in 1 .. Len(s) : s[k] = t[k]
  PROVE  s = t
OBVIOUS

LEMMA SourceReadPad == IInv /\ SourceInv /\ ReadPad => SourceInv'
<1> SUFFICES ASSUME IInv, SourceInv, ReadPad, source # Unsourced
             PROVE  SourceInv'
  BY DEF ReadPad, SourceInv
<1>1. PICK a, b, c, n, p, m :
        /\ a = ByteAt(source, 3 * i + 1)
        /\ b = ByteAt(source, 3 * i + 2)
        /\ c = ByteAt(source, 3 * i + 3)
        /\ n = BlockOf(source, 3 * i + 1)
        /\ p = Padding(text)
        /\ m = (Len(source) + 2) \div 3
  OBVIOUS
<1>2. /\ source \in Seq(Byte) /\ Len(source) \in Nat /\ text = Encoded(source)
      /\ Len(result) = Len(source) /\ result \in Seq(Byte)
      /\ i \in Nat /\ j \in 0 .. 3 /\ r = 3 * i
      /\ 3 * i < Len(source)
      /\ 3 * m - p = Len(source)
      /\ 4 * i + 4 <= 4 * m
      /\ j = 3 => 3 * i + 2 <= Len(source)
      /\ block = Leading(n, j)
      /\ \A k \in 1 .. r : result[k] = source[k]
      /\ Symbol = Pad <=> j >= 2 /\ 3 * i + j > Len(source)
  BY <1>1, InSource DEF ReadPad
<1>3. p \in 0 .. 2
  BY <1>1, <1>2, PaddingIsSmall DEF IInv, TypeOK
<1>4. m \in Nat
  BY <1>1, <1>2
<1>5. /\ a \in Byte /\ b \in Byte /\ c \in Byte
      /\ Joined(n, a, b, c)
  <2>1. /\ 3 * i + 1 \in Nat \ {0} /\ 3 * i + 2 \in Nat \ {0}
        /\ 3 * i + 3 \in Nat \ {0}
        /\ 3 * i + 1 + 1 = 3 * i + 2 /\ 3 * i + 1 + 2 = 3 * i + 3
    BY <1>2
  <2>2. a \in Byte /\ b \in Byte /\ c \in Byte
    BY <1>1, <1>2, <2>1, ByteAtIsByte
  <2>3. n = 65536 * ByteAt(source, 3 * i + 1)
              + 256 * ByteAt(source, 3 * i + 1 + 1)
              + ByteAt(source, 3 * i + 1 + 2)
    BY <1>1, <1>2, <2>1, BlockIs
  <2>4. QED
    BY <1>1, <2>1, <2>2, <2>3 DEF Joined
<1>6. BytesOfRest(n, a, b)
  BY <1>5, BytesOfBlock
<1>7. Symbol = Pad /\ UNCHANGED <<source, text>> /\ TypeOK
  BY DEF ReadPad, IInv
<1>8. CASE j = 2
  <2>1. 3 * i + 1 = Len(source) /\ p = 2
    BY <1>2, <1>3, <1>4, <1>7, <1>8
  <2>2. phase' = "done" /\ Write(<<((64 * block) \div 1024) % 256>>)
    BY <1>1, <2>1 DEF ReadPad
  <2>3. ((64 * block) \div 1024) % 256 = a
    BY <1>2, <1>6, <1>8 DEF Leading, BytesOfRest
  <2>4. a = source[r + 1]
    BY <1>1, <1>2, <2>1 DEF ByteAt
  <2>5. PICK one \in Seq(Byte) :
          one = <<a>> /\ Len(one) = 1 /\ one[1] = source[r + 1]
    <3>1. PICK one : one = <<a>>
      OBVIOUS
    <3>2. one \in Seq(Byte) /\ Len(one) = 1
      BY <1>5, <3>1
    <3>3. one[1] = source[r + 1]
      BY <2>4, <3>1
    <3>4. QED
      BY <3>1, <3>2, <3>3
  <2>6. Write(one)
    BY <2>2, <2>3, <2>5
  <2>7. \A k \in 1 .. Len(one) : one[k] = source[r + k]
    BY <2>5
  <2>8. r + Len(one) = Len(source)
    BY <1>2, <2>1, <2>5
  <2>9. \A k \in 1 .. r + Len(one) : result'[k] = source[k]
    <3>1. r + Len(one) <= Len(result)
      BY <1>2, <2>8
    <3>2. QED
      BY <1>2, <1>7, <2>6, <2>7, <3>1, WriteContinues, ZenonT(60)
  <2>10. result' \in Seq(Byte) /\ Len(result') = Len(result)
    BY <1>7, <2>6, WriteKeeps
  <2>11. result' = source
    BY <1>2, <2>8, <2>9, <2>10, SameSequence
  <2>12. QED
    BY <1>2, <1>7, <2>2, <2>11 DEF SourceInv
<1>9. CASE j = 3
  <2>1. 3 * i + 2 = Len(source) /\ p = 1
    BY <1>2, <1>3, <1>4, <1>7, <1>9
  <2>2. /\ phase' = "done"
        /\ Write(<<((64 * block) \div 65536) % 256, ((64 * block) \div 256) % 256>>)
    BY <1>1, <2>1 DEF ReadPad
  <2>3. /\ ((64 * block) \div 65536) % 256 = a
        /\ ((64 * block) \div 256) % 256 = b
    BY <1>2, <1>6, <1>9 DEF Leading, BytesOfRest
  <2>4. a = source[r + 1] /\ b = source[r + 2]
    BY <1>1, <1>2, <2>1 DEF ByteAt
  <2>5. PICK two \in Seq(Byte) :
          /\ two = <<a, b>> /\ Len(two) = 2
          /\ two[1] = source[r + 1] /\ two[2] = source[r + 2]
    <3>1. PICK two : two = <<a, b>>
      OBVIOUS
    <3>2. two \in Seq(Byte) /\ Len(two) = 2
      BY <1>5, <3>1
    <3>3. two[1] = source[r + 1] /\ two[2] = source[r + 2]
      BY <2>4, <3>1
    <3>4. QED
      BY <3>1, <3>2, <3>3
  <2>6. Write(two)
    BY <2>2, <2>3, <2>5
  <2>7. \A k \in 1 .. Len(two) : two[k] = source[r + k]
    BY <2>5
  <2>8. r + Len(two) = Len(source)
    BY <1>2, <2>1, <2>5
  <2>9. \A k \in 1 .. r + Len(two) : result'[k] = source[k]
    <3>1. r + Len(two) <= Len(result)
      BY <1>2, <2>8
    <3>2. QED
      BY <1>2, <1>7, <2>6, <2>7, <3>1, WriteContinues, ZenonT(60)
  <2>10. result' \in Seq(Byte) /\ Len(result') = Len(result)
    BY <1>7, <2>6, WriteKeeps
  <2>11. result' = source
    BY <1>2, <2>8, <2>9, <2>10, SameSequence
  <2>12. QED
    BY <1>2, <1>7, <2>2, <2>11 DEF SourceInv
<1>10. QED
  BY <1>2, <1>7, <1>8, <1>9

LEMMA SourceFinish == IInv /\ SourceInv /\ Finish => SourceInv'
<1> SUFFICES ASSUME IInv, SourceInv, Finish, source # Unsourced
             PROVE  SourceInv'
  BY DEF Finish, SourceInv
<1>1. /\ source \in Seq(Byte) /\ text = Encoded(source) /\ source # <<>>
      /\ \A k \in 1 .. r : result[k] = source[k]
      /\ phase' = "done" /\ UNCHANGED <<source, text, result>>
  BY DEF SourceInv, Finish
<1>2. /\ i \in Nat /\ j \in 0 .. 3 /\ r = 3 * i
      /\ 4 * i + j = Len(text) /\ Len(result) = ResultSize(text)
      /\ result \in Seq(Byte) /\ r <= Len(result)
  BY DEF IInv, TypeOK, LoopInv, InBounds, Finish
<1>3. Len(text) = 4 * ((Len(source) + 2) \div 3) /\ Len(source) \in Nat
  BY <1>1, LengthOfEncoded
<1>4. Len(result) = Len(source)
  BY <1>1, <1>2, SizeOfEncoded
<1>5. r = Len(source)
  BY <1>2, <1>3, <1>4
<1>6. result = source
  BY <1>1, <1>2, <1>4, <1>5, SameSequence
<1>7. QED
  BY <1>1, <1>6 DEF SourceInv

LEMMA SourceKept == IInv /\ SourceInv /\ [Next]_vars => SourceInv'
<1>1. SourceInv /\ UNCHANGED vars => SourceInv'
  BY DEF vars, SourceInv, BlockOf
<1>2. QED
  BY <1>1, SourceStart, SourceReadDigit, SourceReadPad, SourceFinish DEF Next

(***************************************************************************)
(* Bytes of any number that were encoded are decoded to what they were     *)
(* (base64.hpp:17-118): decode never refuses what encode wrote, and comes  *)
(* to the same bytes with or without padding.                              *)
(***************************************************************************)
THEOREM ComesBack == Spec => []RoundTrip
<1>1. SourceInv => RoundTrip
  BY DEF SourceInv, RoundTrip
<1>2. QED
  BY <1>1, InitKeeps, NextKeeps, SourceInit, SourceKept, PTL DEF Spec

-----------------------------------------------------------------------------
(* The loop and its closed form. *)

\* Where there is no padding before position n, and some at it if the text
\* goes on, n is the length up to the first padding.
LEMMA UnpaddedIs ==
  ASSUME NEW t, NEW n \in 0 .. Len(t),
         n < Len(t) => t[n + 1] = Pad,
         \A k \in 1 .. n : t[k] # Pad, Len(t) \in Nat
  PROVE  Unpadded(t) = n
<1> DEFINE Is(m) == /\ m < Len(t) => t[m + 1] = Pad
                    /\ \A k \in 1 .. m : t[k] # Pad
<1>1. Is(n)
  OBVIOUS
<1>2. ASSUME NEW m \in 0 .. Len(t), Is(m)
      PROVE  m = n
  <2>1. CASE m < n
    <3>1. m + 1 \in 1 .. n /\ m < Len(t)
      BY <2>1
    <3>2. QED
      BY <1>2, <3>1
  <2>2. CASE n < m
    <3>1. n + 1 \in 1 .. m /\ n < Len(t)
      BY <2>2
    <3>2. QED
      BY <1>2, <3>1
  <2>3. QED
    BY <2>1, <2>2
<1>3. Unpadded(t) = CHOOSE m \in 0 .. Len(t) : Is(m)
  BY DEF Unpadded
<1> HIDE DEF Is
<1>4. QED
  BY <1>1, <1>2, <1>3, Zenon

\* No symbol yet, and one more.
LEMMA NoBits ==
  ASSUME NEW t, NEW f \in Nat
  PROVE  Bits(t, f, f) = 0
<1>1. f - f = 0 /\ ~ (1 <= 0) /\ ~ (2 <= 0) /\ ~ (3 <= 0) /\ ~ (4 <= 0)
  OBVIOUS
<1>2. QED
  BY <1>1 DEF Bits

\* Each symbol of a block adds its six bits to those before it.
Adds(t, f, n) ==
  /\ Bits(t, f, f + n + 1) = 64 * Bits(t, f, f + n) + Digit(t[f + n + 1])
  /\ Bits(t, f, f + n) \in Nat

Four(t, f, d1, d2, d3, d4) ==
  /\ d1 = Digit(t[f + 1]) /\ d2 = Digit(t[f + 2])
  /\ d3 = Digit(t[f + 3]) /\ d4 = Digit(t[f + 4])
  /\ d1 \in 0 .. 63 /\ d2 \in 0 .. 63 /\ d3 \in 0 .. 63 /\ d4 \in 0 .. 63

LEMMA BitsOf ==
  ASSUME NEW t, NEW f \in Nat, NEW d1, NEW d2, NEW d3, NEW d4,
         Four(t, f, d1, d2, d3, d4)
  PROVE  \A n \in 0 .. 3 : Adds(t, f, n)
<1> USE DEF Four
<1>1. /\ (f + 1) - f = 1 /\ (f + 2) - f = 2 /\ (f + 3) - f = 3 /\ (f + 4) - f = 4
      /\ Units[1] = 262144 /\ Units[2] = 4096 /\ Units[3] = 64 /\ Units[4] = 1
  BY DEF Units
<1>2. Bits(t, f, f + 1) = d1
  BY <1>1 DEF Bits
<1>3. Bits(t, f, f + 2) = 64 * d1 + d2
  BY <1>1 DEF Bits
<1>4. Bits(t, f, f + 3) = 4096 * d1 + 64 * d2 + d3
  BY <1>1 DEF Bits
<1>5. Bits(t, f, f + 4) = 262144 * d1 + 4096 * d2 + 64 * d3 + d4
  BY <1>1 DEF Bits
<1>6. Bits(t, f, f) = 0
  BY NoBits
<1> HIDE DEF Four
<1>7. /\ f + 0 = f /\ f + 0 + 1 = f + 1 /\ f + 1 + 1 = f + 2
      /\ f + 2 + 1 = f + 3 /\ f + 3 + 1 = f + 4
  OBVIOUS
<1>8. /\ d1 \in 0 .. 63 /\ d2 \in 0 .. 63 /\ d3 \in 0 .. 63 /\ d4 \in 0 .. 63
  BY DEF Four
<1>9. Adds(t, f, 0) /\ Adds(t, f, 1) /\ Adds(t, f, 2) /\ Adds(t, f, 3)
  <2>1. Adds(t, f, 0)
    <3>1. Bits(t, f, f + 0 + 1) = Bits(t, f, f + 1) /\ t[f + 0 + 1] = t[f + 1]
      BY <1>7, Zenon
    <3>2. Bits(t, f, f + 1) = 64 * Bits(t, f, f) + Digit(t[f + 1])
      BY <1>6, <1>2, <1>8, SMT DEF Four
    <3>3. Bits(t, f, f) \in Nat
      BY <1>6, <1>8, SMT
    <3>4. QED
      BY <1>7, <3>1, <3>2, <3>3, Zenon DEF Adds
  <2>2. Adds(t, f, 1)
    <3>1. Bits(t, f, f + 1 + 1) = Bits(t, f, f + 2) /\ t[f + 1 + 1] = t[f + 2]
      BY <1>7, Zenon
    <3>2. Bits(t, f, f + 2) = 64 * Bits(t, f, f + 1) + Digit(t[f + 2])
      BY <1>2, <1>3, <1>8, SMT DEF Four
    <3>3. Bits(t, f, f + 1) \in Nat
      BY <1>2, <1>8, SMT
    <3>4. QED
      BY <1>7, <3>1, <3>2, <3>3, Zenon DEF Adds
  <2>3. Adds(t, f, 2)
    <3>1. Bits(t, f, f + 2 + 1) = Bits(t, f, f + 3) /\ t[f + 2 + 1] = t[f + 3]
      BY <1>7, Zenon
    <3>2. Bits(t, f, f + 3) = 64 * Bits(t, f, f + 2) + Digit(t[f + 3])
      BY <1>3, <1>4, <1>8, SMT DEF Four
    <3>3. Bits(t, f, f + 2) \in Nat
      BY <1>3, <1>8, SMT
    <3>4. QED
      BY <1>7, <3>1, <3>2, <3>3, Zenon DEF Adds
  <2>4. Adds(t, f, 3)
    <3>1. Bits(t, f, f + 3 + 1) = Bits(t, f, f + 4) /\ t[f + 3 + 1] = t[f + 4]
      BY <1>7, Zenon
    <3>2. Bits(t, f, f + 4) = 64 * Bits(t, f, f + 3) + Digit(t[f + 4])
      BY <1>4, <1>5, <1>8, SMT DEF Four
    <3>3. Bits(t, f, f + 3) \in Nat
      BY <1>4, <1>8, SMT
    <3>4. QED
      BY <1>7, <3>1, <3>2, <3>3, Zenon DEF Adds
  <2>5. QED
    BY <2>1, <2>2, <2>3, <2>4
<1>10. \A n \in 0 .. 3 : n = 0 \/ n = 1 \/ n = 2 \/ n = 3
  OBVIOUS
<1>11. QED
  BY <1>9, <1>10, Zenon

LEMMA NextBits ==
  ASSUME NEW t \in Seq(Byte), NEW f \in Nat, NEW n \in 0 .. 3,
         f + 4 <= Len(t)
  PROVE  Adds(t, f, n)
<1>1. PICK d1, d2, d3, d4 :
        /\ d1 = Digit(t[f + 1]) /\ d2 = Digit(t[f + 2])
        /\ d3 = Digit(t[f + 3]) /\ d4 = Digit(t[f + 4])
  OBVIOUS
<1>2. \A k \in 1 .. 4 : t[f + k] \in Byte
  OBVIOUS
<1>3. /\ t[f + 1] \in Byte /\ t[f + 2] \in Byte
      /\ t[f + 3] \in Byte /\ t[f + 4] \in Byte
  BY <1>2
<1>4. /\ d1 \in 0 .. 63 /\ d2 \in 0 .. 63
      /\ d3 \in 0 .. 63 /\ d4 \in 0 .. 63
  BY <1>1, <1>3, DigitIsSmall
<1>5. QED
  BY <1>1, <1>4, BitsOf, Zenon DEF Four

\* The bytes of a full block.
LEMMA FullBytesAre ==
  ASSUME NEW t, NEW g \in Nat, Bits(t, 4 * g, 4 * g + 4) \in Nat
  PROVE  /\ FullByte(t, 3 * g + 1) = (Bits(t, 4 * g, 4 * g + 4) \div 65536) % 256
         /\ FullByte(t, 3 * g + 2) = (Bits(t, 4 * g, 4 * g + 4) \div 256) % 256
         /\ FullByte(t, 3 * g + 3) = Bits(t, 4 * g, 4 * g + 4) % 256
<1> DEFINE n == Bits(t, 4 * g, 4 * g + 4)
<1>1. /\ ((3 * g + 1) - 1) \div 3 = g /\ (((3 * g + 1) - 1) % 3) + 1 = 1
      /\ ((3 * g + 2) - 1) \div 3 = g /\ (((3 * g + 2) - 1) % 3) + 1 = 2
      /\ ((3 * g + 3) - 1) \div 3 = g /\ (((3 * g + 3) - 1) % 3) + 1 = 3
  OBVIOUS
<1>2. /\ FullByte(t, 3 * g + 1) = (n \div Shifts[1]) % 256
      /\ FullByte(t, 3 * g + 2) = (n \div Shifts[2]) % 256
      /\ FullByte(t, 3 * g + 3) = (n \div Shifts[3]) % 256
  BY <1>1, Zenon DEF FullByte
<1> HIDE DEF n
<1>3. Shifts[1] = 65536 /\ Shifts[2] = 256 /\ Shifts[3] = 1
  BY SMT DEF Shifts
<1>4. n \in Nat
  BY DEF n
<1>5. n \div 1 = n
  BY <1>4, SMT
<1>6. QED
  BY <1>2, <1>3, <1>5, SMT DEF n

\* What is not written stays as it was.
LEMMA WriteLeaves ==
  ASSUME TypeOK, NEW bytes \in Seq(Byte), Write(bytes)
  PROVE  \A k \in r + Len(bytes) + 1 .. Len(result) : result'[k] = result[k]
<1>1. /\ result \in Seq(Byte) /\ Len(result) \in Nat /\ r \in Nat
      /\ DOMAIN result = 1 .. Len(result)
      /\ DOMAIN bytes = 1 .. Len(bytes) /\ Len(bytes) \in Nat
  BY DEF TypeOK
<1>2. SUFFICES ASSUME NEW k \in r + Len(bytes) + 1 .. Len(result)
               PROVE  result'[k] = result[k]
  OBVIOUS
<1>3. k \in DOMAIN result /\ k - r \notin DOMAIN bytes
  BY <1>1
<1>4. QED
  BY <1>3 DEF Write

(***************************************************************************)
(* In the loop, what has been written is what the full blocks so far stand *)
(* for, the rest of the result is still zero, and block holds the symbols  *)
(* of the next block.                                                      *)
(***************************************************************************)
FormInv ==
  /\ phase = "start" => result = <<>> /\ block = 0
  /\ phase = "decode" =>
       /\ block = Bits(text, 4 * i, 4 * i + j)
       /\ \A k \in 1 .. r : result[k] = FullByte(text, k)
       /\ \A k \in r + 1 .. Len(result) : result[k] = 0
  /\ LoopIsDecoded

LEMMA FormInit == Init => FormInv
BY DEF Init, FormInv, LoopIsDecoded

LEMMA FormStart == IInv /\ FormInv /\ Start => FormInv'
<1> SUFFICES ASSUME IInv, FormInv, Start PROVE FormInv'
  OBVIOUS
<1>1. /\ text \in Seq(Byte) /\ Len(text) \in Nat
      /\ i = 0 /\ j = 0 /\ r = 0 /\ block = 0 /\ result = <<>>
      /\ UNCHANGED <<source, text, i, j, block, r>>
  BY DEF IInv, TypeOK, LoopInv, FormInv, Start
<1>2. CASE text = <<>>
  <2>1. phase' = "done" /\ result' = <<>>
    BY <1>1, <1>2 DEF Start
  <2>2. QED
    BY <1>1, <1>2, <2>1 DEF FormInv, LoopIsDecoded, Decoded, Undecodable
<1>3. CASE text # <<>> /\ Len(text) % 4 # 0
  <2>1. phase' = "error"
    BY <1>3 DEF Start
  <2>2. Undecodable(text)
    BY <1>3 DEF Undecodable
  <2>3. Undecodable(text)'
    BY <1>1, <2>2
  <2>4. QED
    BY <2>1, <2>3 DEF FormInv, LoopIsDecoded
<1>4. CASE text # <<>> /\ Len(text) % 4 = 0
  <2>1. phase' = "decode" /\ result' = [k \in 1 .. ResultSize(text) |-> 0]
    BY <1>4 DEF Start
  <2>2. Len(text) > 0
    BY <1>1, <1>4
  <2>3. ResultSize(text) \in Nat
    BY <1>1, <1>4, <2>2, PaddingIsSmall DEF ResultSize
  <2>4. Len(result') = ResultSize(text)
    BY <2>1, <2>3
  <2>5. \A k \in 1 .. Len(result') : result'[k] = 0
    BY <2>1, <2>4
  <2>6. Bits(text, 4 * 0, 4 * 0) = 0
    BY NoBits
  <2>7. Bits(text', 4 * i', 4 * i' + j') = block'
    <3>1. 4 * 0 + 0 = 4 * 0
      OBVIOUS
    <3>2. QED
      BY <1>1, <2>6, <3>1, Zenon
  <2>8. r' = 0
    BY <1>1
  <2>9. /\ \A k \in 1 .. r' : result'[k] = FullByte(text, k)'
        /\ \A k \in r' + 1 .. Len(result') : result'[k] = 0
    BY <2>5, <2>8
  <2>10. QED
    BY <2>1, <2>7, <2>9, Zenon DEF FormInv, LoopIsDecoded
<1>5. QED
  BY <1>2, <1>3, <1>4

LEMMA FormReadDigit == IInv /\ FormInv /\ ReadDigit => FormInv'
<1> SUFFICES ASSUME IInv, FormInv, ReadDigit PROVE FormInv'
  OBVIOUS
<1>1. /\ InText /\ phase = "decode" /\ TypeOK
      /\ UNCHANGED <<phase, source, text>>
  BY DEF ReadDigit, InText, IInv
<1>2. /\ text \in Seq(Byte) /\ Len(text) \in Nat
      /\ i \in Nat /\ j \in 0 .. 3 /\ r = 3 * i
      /\ 4 * i + 4 <= Len(text)
      /\ result \in Seq(Byte)
  BY <1>1, InLoop
<1>3. /\ block = Bits(text, 4 * i, 4 * i + j)
      /\ \A k \in 1 .. r : result[k] = FullByte(text, k)
      /\ \A k \in r + 1 .. Len(result) : result[k] = 0
  BY <1>1 DEF FormInv
<1>4. PICK bits : bits = 64 * block + Digit(Symbol)
  BY Zenon
<1>5. bits = Bits(text, 4 * i, 4 * i + j + 1)
  <2>1. 4 * i \in Nat
    BY <1>2
  <2>2. Adds(text, 4 * i, j)
    BY <1>2, <2>1, NextBits
  <2>3. QED
    BY <1>3, <1>4, <2>2, Zenon DEF Adds, Symbol
<1>6. CASE j < 3
  <2>1. j' = j + 1 /\ block' = bits /\ UNCHANGED <<i, r, result>>
    BY <1>4, <1>6 DEF ReadDigit
  <2>2. 4 * i + j + 1 = 4 * i + (j + 1)
    BY <1>2
  <2>3. block' = Bits(text', 4 * i', 4 * i' + j')
    BY <1>1, <1>5, <2>1, <2>2, Zenon
  <2>4. QED
    BY <1>1, <1>3, <2>1, <2>3 DEF FormInv, LoopIsDecoded
<1>7. CASE j = 3
  <2> DEFINE bytes == <<(bits \div 65536) % 256, (bits \div 256) % 256, bits % 256>>
  <2>1. i' = i + 1 /\ j' = 0 /\ block' = 0 /\ Write(bytes)
    BY <1>4, <1>7, SMT DEF ReadDigit
  <2>2. /\ bytes[1] = (bits \div 65536) % 256 /\ bytes[2] = (bits \div 256) % 256
        /\ bytes[3] = bits % 256
    BY SMT
  <2>3. 4 * i + j + 1 = 4 * i + 4
    BY <1>2, <1>7
  <2>4. bits = Bits(text, 4 * i, 4 * i + 4)
    BY <1>5, <2>3, Zenon
  <2>5. bits \in Nat
    <3>1. block \in Nat /\ Digit(Symbol) \in 0 .. 63
      BY <1>1, InLoop, DigitIsSmall
    <3>2. QED
      BY <1>4, <3>1, SMT
  <2>6. /\ FullByte(text, 3 * i + 1) = (bits \div 65536) % 256
        /\ FullByte(text, 3 * i + 2) = (bits \div 256) % 256
        /\ FullByte(text, 3 * i + 3) = bits % 256
    BY <1>2, <2>4, <2>5, FullBytesAre, SMT
  <2>7. bytes \in Seq(Byte) /\ Len(bytes) = 3
    <3>1. /\ (bits \div 65536) % 256 \in Byte /\ (bits \div 256) % 256 \in Byte
          /\ bits % 256 \in Byte
      BY <2>5, PartIsByte, SMT
    <3>2. QED
      BY <3>1, SMT
  <2> HIDE DEF bytes
  <2>8. /\ bytes[1] = FullByte(text, r + 1) /\ bytes[2] = FullByte(text, r + 2)
        /\ bytes[3] = FullByte(text, r + 3)
    BY <1>2, <2>2, <2>6, SMT
  <2>9. r + 3 <= Len(result) /\ r' = r + 3
    <3>1. InBounds'
      BY ReadDigitKeeps DEF IInv
    <3>2. r' = r + 3 /\ Len(result') = Len(result)
      BY <1>1, <2>1, <2>7, WriteKeeps
    <3>3. QED
      BY <3>1, <3>2 DEF InBounds
  <2>10. \A k \in 1 .. r' : result'[k] = FullByte(text, k)
    <3>1. PICK s : s = [k \in 1 .. r + 3 |-> FullByte(text, k)]
      OBVIOUS
    <3>2. r \in Nat
      BY <1>2
    <3>3. \A k \in 1 .. r + 3 : s[k] = FullByte(text, k)
      BY <3>1
    <3>4. \A k \in 1 .. r : result[k] = s[k]
      BY <1>3, <3>2, <3>3
    <3>5. \A k \in 1 .. Len(bytes) : bytes[k] = s[r + k]
      <4>1. \A k \in 1 .. Len(bytes) : k = 1 \/ k = 2 \/ k = 3
        BY <2>7
      <4>2. s[r + 1] = bytes[1] /\ s[r + 2] = bytes[2] /\ s[r + 3] = bytes[3]
        BY <2>8, <3>2, <3>3
      <4>3. QED
        BY <4>1, <4>2
    <3>6. \A k \in 1 .. r + Len(bytes) : result'[k] = s[k]
      BY <1>1, <2>1, <2>7, <2>9, <3>4, <3>5, WriteContinues, ZenonT(60)
    <3>7. QED
      BY <2>7, <2>9, <3>3, <3>6
  <2>11. \A k \in r' + 1 .. Len(result') : result'[k] = 0
    <3>1. Len(result') = Len(result)
      BY <1>1, <2>1, <2>7, WriteKeeps
    <3>2. \A k \in r + 3 + 1 .. Len(result) : result'[k] = result[k]
      BY <1>1, <2>1, <2>7, WriteLeaves
    <3>3. r \in Nat
      BY <1>2
    <3>4. QED
      BY <1>3, <2>9, <3>1, <3>2, <3>3
  <2>12. block' = Bits(text', 4 * i', 4 * i' + j')
    <3>1. 4 * (i + 1) \in Nat /\ 4 * (i + 1) + 0 = 4 * (i + 1)
      BY <1>2
    <3>2. Bits(text, 4 * (i + 1), 4 * (i + 1)) = 0
      BY <3>1, NoBits
    <3>3. QED
      BY <1>1, <2>1, <3>1, <3>2, Zenon
  <2>13. QED
    BY <1>1, <2>10, <2>11, <2>12 DEF FormInv, LoopIsDecoded
<1>8. QED
  BY <1>2, <1>6, <1>7

\* Behind the full blocks, the block that padding cuts short ends the result.
LEMMA CutShortEnds ==
  ASSUME IInv, FormInv, phase = "decode", text # <<>>,
         NEW cut \in Seq(Byte), cut = CutShort(text), Write(cut),
         3 * (Unpadded(text) \div 4) = r
  PROVE  result' = Decoded(text)
<1>1. /\ r \in Nat /\ Len(cut) \in Nat /\ DOMAIN cut = 1 .. Len(cut)
      /\ DOMAIN result = 1 .. Len(result) /\ Len(result) = ResultSize(text)
      /\ Len(result) \in Nat
  BY DEF IInv, TypeOK, LoopInv
<1>2. /\ \A k \in 1 .. r : result[k] = FullByte(text, k)
      /\ \A k \in r + 1 .. Len(result) : result[k] = 0
  BY DEF FormInv
<1>3. result' = [k \in 1 .. Len(result) |->
                   IF k - r \in DOMAIN cut THEN cut[k - r] ELSE result[k]]
  BY <1>1 DEF Write
<1>4. Decoded(text) = [k \in 1 .. Len(result) |->
                         IF k <= r THEN FullByte(text, k)
                         ELSE IF k - r <= Len(cut) THEN cut[k - r] ELSE 0]
  BY <1>1 DEF Decoded
<1>5. ASSUME NEW k \in 1 .. Len(result)
      PROVE  (IF k - r \in DOMAIN cut THEN cut[k - r] ELSE result[k]) =
               (IF k <= r THEN FullByte(text, k)
                ELSE IF k - r <= Len(cut) THEN cut[k - r] ELSE 0)
  <2>1. CASE k <= r
    <3>1. k - r \notin DOMAIN cut /\ k \in 1 .. r
      BY <1>1, <2>1
    <3>2. QED
      BY <1>2, <2>1, <3>1
  <2>2. CASE ~ (k <= r) /\ k - r <= Len(cut)
    <3>1. k - r \in DOMAIN cut
      BY <1>1, <2>2
    <3>2. QED
      BY <2>2, <3>1
  <2>3. CASE ~ (k <= r) /\ ~ (k - r <= Len(cut))
    <3>1. k - r \notin DOMAIN cut /\ k \in r + 1 .. Len(result)
      BY <1>1, <2>3
    <3>2. QED
      BY <1>2, <2>3, <3>1
  <2>4. QED
    BY <2>1, <2>2, <2>3
<1>6. QED
  BY <1>3, <1>4, <1>5, Zenon

LEMMA FormReadPad == IInv /\ FormInv /\ ReadPad => FormInv'
<1> SUFFICES ASSUME IInv, FormInv, ReadPad PROVE FormInv'
  OBVIOUS
<1>1. /\ InText /\ phase = "decode" /\ TypeOK /\ Symbol = Pad
      /\ UNCHANGED <<source, text, i, j, block>>
      /\ phase' = IF Padding(text) = 0 THEN "error" ELSE "done"
  BY DEF ReadPad, InText, IInv
<1>2. /\ text \in Seq(Byte) /\ Len(text) \in Nat
      /\ i \in Nat /\ j \in 0 .. 3 /\ block \in Nat /\ r = 3 * i
      /\ 4 * i + 4 <= Len(text) /\ Len(text) % 4 = 0
      /\ Padding(text) \in 0 .. 2
      /\ \A k \in 1 .. 4 * i + j : text[k] # Pad
  BY <1>1, InLoop
<1>3. text # <<>>
  BY <1>2
<1>4. Unpadded(text) = 4 * i + j /\ 4 * i + j < Len(text)
  <2>1. 4 * i + j \in 0 .. Len(text) /\ 4 * i + j < Len(text)
    BY <1>2
  <2>2. text[4 * i + j + 1] = Pad
    BY <1>1 DEF Symbol
  <2>3. QED
    BY <1>2, <2>1, <2>2, UnpaddedIs
<1>5. (4 * i + j) \div 4 = i
  BY <1>2
<1>6. 3 * (Unpadded(text) \div 4) = r
  BY <1>2, <1>4, <1>5
<1>7. block = Bits(text, 4 * (Unpadded(text) \div 4), Unpadded(text))
  BY <1>1, <1>4, <1>5 DEF FormInv
<1>8. CASE Padding(text) = 0
  <2>1. Undecodable(text)
    BY <1>3, <1>4, <1>8, Zenon DEF Undecodable
  <2>2. phase' = "error" /\ Undecodable(text)'
    BY <1>1, <1>8, <2>1
  <2>3. QED
    BY <2>2 DEF FormInv, LoopIsDecoded
<1>9. CASE Padding(text) # 0
  <2>1. Unpadded(text) # Len(text)
    BY <1>2, <1>4
  <2>2. ~ Undecodable(text)
    BY <1>2, <1>9 DEF Undecodable
  <2>3. CutShort(text) \in Seq(Byte) /\ Write(CutShort(text))
    <3>1. PICK n \in Nat : n = 64 * block
      BY <1>2
    <3>2. PICK a, b, c : /\ a = (n \div 65536) % 256 /\ b = (n \div 256) % 256
                         /\ c = (n \div 1024) % 256
      BY SMT
    <3>3. a \in Byte /\ b \in Byte /\ c \in Byte
      BY <3>1, <3>2, PartIsByte, SMT
    <3>4. <<a, b>> \in Seq(Byte) /\ <<c>> \in Seq(Byte)
      BY <3>3
    <3>5. CASE Padding(text) = 1
      <4>1. CutShort(text) = <<a, b>>
        BY <1>7, <2>1, <3>1, <3>2, <3>5, SMT DEF CutShort
      <4>2. Write(<<a, b>>)
        BY <3>1, <3>2, <3>5, SMT DEF ReadPad
      <4>3. QED
        BY <3>4, <4>1, <4>2, Zenon
    <3>6. CASE Padding(text) = 2
      <4>1. CutShort(text) = <<c>>
        BY <1>7, <2>1, <3>1, <3>2, <3>6, SMT DEF CutShort
      <4>2. Write(<<c>>)
        BY <3>1, <3>2, <3>6, SMT DEF ReadPad
      <4>3. QED
        BY <3>4, <4>1, <4>2, Zenon
    <3>7. QED
      BY <1>2, <1>9, <3>5, <3>6
  <2>4. result' = Decoded(text)
    BY <1>1, <1>3, <1>6, <2>3, CutShortEnds
  <2>5. phase' = "done"
    BY <1>1, <1>9
  <2>6. ~ Undecodable(text') /\ result' = Decoded(text')
    BY <1>1, <2>2, <2>4
  <2>7. QED
    BY <2>5, <2>6, Zenon DEF FormInv, LoopIsDecoded
<1>10. QED
  BY <1>8, <1>9

LEMMA FormFinish == IInv /\ FormInv /\ Finish => FormInv'
<1> SUFFICES ASSUME IInv, FormInv, Finish PROVE FormInv'
  OBVIOUS
<1>1. /\ phase = "decode" /\ 4 * i + j = Len(text) /\ phase' = "done"
      /\ UNCHANGED <<source, text, i, j, block, result, r>>
  BY DEF Finish
<1>2. /\ text \in Seq(Byte) /\ Len(text) \in Nat
      /\ i \in Nat /\ j \in 0 .. 3 /\ r = 3 * i
      /\ Len(text) % 4 = 0 /\ Len(text) > 0
      /\ Len(result) = ResultSize(text) /\ result \in Seq(Byte)
      /\ \A k \in 1 .. 4 * i + j : text[k] # Pad
  BY <1>1 DEF IInv, TypeOK, LoopInv
<1>3. /\ text # <<>> /\ j = 0 /\ Len(text) = 4 * i /\ Len(text) \div 4 = i
      /\ Len(text) - 1 \in 1 .. Len(text)
  BY <1>1, <1>2
<1>4. Unpadded(text) = Len(text)
  <2>1. \A k \in 1 .. Len(text) : text[k] # Pad
    BY <1>1, <1>2
  <2>2. Len(text) \in 0 .. Len(text) /\ ~ (Len(text) < Len(text))
    BY <1>2
  <2>3. QED
    BY <1>2, <2>1, <2>2, UnpaddedIs
<1>5. Padding(text) = 0
  BY <1>1, <1>2, <1>3 DEF Padding
<1>6. ~ Undecodable(text)
  BY <1>2, <1>4 DEF Undecodable
<1>7. 3 * (Unpadded(text) \div 4) = r /\ ResultSize(text) = r
  BY <1>2, <1>3, <1>4, <1>5 DEF ResultSize
<1>8. result = Decoded(text)
  <2>1. \A k \in 1 .. r : result[k] = FullByte(text, k)
    BY <1>1 DEF FormInv
  <2>2. result = [k \in 1 .. r |-> result[k]]
    BY <1>2, <1>7
  <2>3. r \in Nat
    BY <1>2
  <2>4. Decoded(text) = [k \in 1 .. r |->
                           IF k <= r THEN FullByte(text, k)
                           ELSE IF k - r <= Len(CutShort(text))
                                THEN CutShort(text)[k - r] ELSE 0]
    BY <1>3, <1>7 DEF Decoded
  <2>5. \A k \in 1 .. r : k <= r
    BY <2>3
  <2>6. Decoded(text) = [k \in 1 .. r |-> FullByte(text, k)]
    BY <2>4, <2>5, Zenon
  <2>7. QED
    BY <2>1, <2>2, <2>6, Zenon
<1>9. ~ Undecodable(text') /\ result' = Decoded(text')
  BY <1>1, <1>6, <1>8
<1>10. QED
  BY <1>1, <1>9, Zenon DEF FormInv, LoopIsDecoded

LEMMA FormKept == IInv /\ FormInv /\ [Next]_vars => FormInv'
<1>1. FormInv /\ UNCHANGED vars => FormInv'
  BY DEF vars, FormInv, LoopIsDecoded
<1>2. QED
  BY <1>1, FormStart, FormReadDigit, FormReadPad, FormFinish DEF Next

(***************************************************************************)
(* decode's loop comes to its closed form for every text, whether an       *)
(* encoder has written it or not, and throws exactly for those that the    *)
(* closed form excludes (base64.hpp:63-118).                               *)
(***************************************************************************)
THEOREM LoopIsClosedForm == Spec => []LoopIsDecoded
<1>1. FormInv => LoopIsDecoded
  BY DEF FormInv
<1>2. QED
  BY <1>1, InitKeeps, NextKeeps, FormInit, FormKept, PTL DEF Spec

-----------------------------------------------------------------------------
(* The encoding and the bits of the bytes. *)

\* The bits of a byte, the first one first.
BitAt(x, q) == (x \div Masks[q + 1]) % 2

LEMMA BitsOfByte ==
  ASSUME NEW x \in Byte
  PROVE  /\ BitAt(x, 0) = x \div 128 /\ BitAt(x, 1) = (x \div 64) % 2
         /\ BitAt(x, 2) = (x \div 32) % 2 /\ BitAt(x, 3) = (x \div 16) % 2
         /\ BitAt(x, 4) = (x \div 8) % 2 /\ BitAt(x, 5) = (x \div 4) % 2
         /\ BitAt(x, 6) = (x \div 2) % 2 /\ BitAt(x, 7) = x % 2
<1>1. /\ Masks[0 + 1] = 128 /\ Masks[1 + 1] = 64 /\ Masks[2 + 1] = 32
      /\ Masks[3 + 1] = 16 /\ Masks[4 + 1] = 8 /\ Masks[5 + 1] = 4
      /\ Masks[6 + 1] = 2 /\ Masks[7 + 1] = 1
  BY SMT DEF Masks
<1>2. x \in Nat /\ x <= 255
  BY SMT DEF Byte
<1>3. (x \div 128) % 2 = x \div 128 /\ x \div 1 = x
  BY <1>2, SMT
<1>4. QED
  BY <1>1, <1>3, SMT DEF BitAt

\* What the bits of a byte come to that are in one symbol.
Sixes(x) ==
  /\ 32 * BitAt(x, 0) + 16 * BitAt(x, 1) + 8 * BitAt(x, 2)
       + 4 * BitAt(x, 3) + 2 * BitAt(x, 4) + BitAt(x, 5) = x \div 4
  /\ 8 * BitAt(x, 0) + 4 * BitAt(x, 1) + 2 * BitAt(x, 2)
       + BitAt(x, 3) = x \div 16
  /\ 2 * BitAt(x, 0) + BitAt(x, 1) = x \div 64
  /\ 32 * BitAt(x, 6) + 16 * BitAt(x, 7) = 16 * (x % 4)
  /\ 32 * BitAt(x, 4) + 16 * BitAt(x, 5) + 8 * BitAt(x, 6)
       + 4 * BitAt(x, 7) = 4 * (x % 16)
  /\ 32 * BitAt(x, 2) + 16 * BitAt(x, 3) + 8 * BitAt(x, 4)
       + 4 * BitAt(x, 5) + 2 * BitAt(x, 6) + BitAt(x, 7) = x % 64

LEMMA FirstBits ==
  ASSUME NEW x \in Byte
  PROVE  Sixes(x)
<1>1. x \in Nat /\ x <= 255
  BY SMT DEF Byte
<1>2. PICK b0, b1, b2, b3, b4, b5, b6, b7 :
        /\ b0 = BitAt(x, 0) /\ b1 = BitAt(x, 1) /\ b2 = BitAt(x, 2)
        /\ b3 = BitAt(x, 3) /\ b4 = BitAt(x, 4) /\ b5 = BitAt(x, 5)
        /\ b6 = BitAt(x, 6) /\ b7 = BitAt(x, 7)
  BY Zenon
<1>3. /\ b0 = x \div 128 /\ b1 = (x \div 64) % 2 /\ b2 = (x \div 32) % 2
      /\ b3 = (x \div 16) % 2 /\ b4 = (x \div 8) % 2 /\ b5 = (x \div 4) % 2
      /\ b6 = (x \div 2) % 2 /\ b7 = x % 2
  BY <1>2, BitsOfByte, SMT
<1>4. /\ x \div 64 = 2 * b0 + b1
      /\ x \div 32 = 4 * b0 + 2 * b1 + b2
      /\ x \div 16 = 8 * b0 + 4 * b1 + 2 * b2 + b3
      /\ x \div 8 = 16 * b0 + 8 * b1 + 4 * b2 + 2 * b3 + b4
      /\ x \div 4 = 32 * b0 + 16 * b1 + 8 * b2 + 4 * b3 + 2 * b4 + b5
      /\ x \div 2 = 64 * b0 + 32 * b1 + 16 * b2 + 8 * b3 + 4 * b4 + 2 * b5 + b6
  BY <1>1, <1>3, SMT
<1>5. 16 * (x % 4) = 32 * b6 + 16 * b7
  BY <1>1, <1>3, SMT
<1>6. 4 * (x % 16) = 32 * b4 + 16 * b5 + 8 * b6 + 4 * b7
  BY <1>1, <1>3, <1>4, SMT
<1>7. x % 64 = 32 * b2 + 16 * b3 + 8 * b4 + 4 * b5 + 2 * b6 + b7
  BY <1>1, <1>3, <1>4, SMT
<1>8. QED
  BY <1>2, <1>4, <1>5, <1>6, <1>7, SMT DEF Sixes

\* The digits of a block, by the bytes.
DigitsAre(n, a, b, c) ==
  /\ DigitAt(n, 0) = a \div 4
  /\ DigitAt(n, 1) = 16 * (a % 4) + (b \div 16)
  /\ DigitAt(n, 2) = 4 * (b % 16) + (c \div 64)
  /\ DigitAt(n, 3) = c % 64

LEMMA DigitsOfBlock ==
  ASSUME NEW a \in Byte, NEW b \in Byte, NEW c \in Byte, NEW n,
         Joined(n, a, b, c)
  PROVE  DigitsAre(n, a, b, c)
<1>1. /\ a \in 0 .. 255 /\ b \in 0 .. 255 /\ c \in 0 .. 255
      /\ n = 65536 * a + 256 * b + c
  BY SMT DEF Joined, Byte
<1>2. Units[0 + 1] = 262144 /\ Units[1 + 1] = 4096 /\ Units[2 + 1] = 64 /\ Units[3 + 1] = 1
  BY SMT DEF Units
<1>3. (n \div 262144) % 64 = a \div 4
  BY <1>1, SMT
<1>4. (n \div 4096) % 64 = 16 * (a % 4) + (b \div 16)
  <2>1. n \div 4096 = 16 * a + (b \div 16)
    BY <1>1, SMT
  <2>2. b \div 16 \in 0 .. 15
    BY <1>1, SMT
  <2>3. ASSUME NEW h \in 0 .. 15
        PROVE  (16 * a + h) % 64 = 16 * (a % 4) + h
    BY <1>1, SMT
  <2>4. QED
    BY <2>1, <2>2, <2>3, SMT
<1>5. (n \div 64) % 64 = 4 * (b % 16) + (c \div 64)
  BY <1>1, SMT
<1>6. (n \div 1) % 64 = c % 64
  BY <1>1, SMT
<1>7. QED
  BY <1>2, <1>3, <1>4, <1>5, <1>6, SMT DEF DigitAt, DigitsAre

\* The property's words: bit k of the bytes, and the six bits of symbol n.
BitOf(bytes, k) ==
  IF k < 8 * Len(bytes)
  THEN (bytes[(k \div 8) + 1] \div Masks[(k % 8) + 1]) % 2 ELSE 0

SixOf(bytes, n) ==
  32 * BitOf(bytes, 6 * n) + 16 * BitOf(bytes, 6 * n + 1)
    + 8 * BitOf(bytes, 6 * n + 2) + 4 * BitOf(bytes, 6 * n + 3)
    + 2 * BitOf(bytes, 6 * n + 4) + BitOf(bytes, 6 * n + 5)

UsedOf(bytes) == (8 * Len(bytes) + 5) \div 6

\* A bit of the bytes is one of its byte's.
LEMMA BitIs ==
  ASSUME NEW bytes \in Seq(Byte), NEW p \in Nat, NEW q \in 0 .. 7
  PROVE  BitOf(bytes, 8 * p + q) = BitAt(ByteAt(bytes, p + 1), q)
<1>1. /\ (8 * p + q) \div 8 = p /\ (8 * p + q) % 8 = q
      /\ (8 * p + q < 8 * Len(bytes)) <=> p + 1 <= Len(bytes)
  BY SMT
<1>2. CASE p + 1 <= Len(bytes)
  BY <1>1, <1>2, Zenon DEF BitOf, BitAt, ByteAt
<1>3. CASE ~ (p + 1 <= Len(bytes))
  <2>1. BitOf(bytes, 8 * p + q) = 0 /\ ByteAt(bytes, p + 1) = 0
    BY <1>1, <1>3, Zenon DEF BitOf, ByteAt
  <2>2. 0 \in Byte
    BY SMT DEF Byte
  <2>3. q = 0 \/ q = 1 \/ q = 2 \/ q = 3 \/ q = 4 \/ q = 5 \/ q = 6 \/ q = 7
    BY SMT
  <2>4. BitAt(0, q) = 0
    BY <2>2, <2>3, BitsOfByte, SMT
  <2>5. QED
    BY <2>1, <2>4, Zenon
<1>4. QED
  BY <1>2, <1>3, Zenon

LEMMA BitIsNat ==
  ASSUME NEW x \in Byte, NEW q \in 0 .. 7
  PROVE  BitAt(x, q) \in Nat
<1>1. Masks[q + 1] \in Nat \ {0}
  BY SMT DEF Masks
<1>2. x \in Nat
  BY SMT DEF Byte
<1>3. ASSUME NEW k \in Nat \ {0}
      PROVE  (x \div k) % 2 \in Nat
  BY <1>2, SMT
<1>4. QED
  BY <1>1, <1>3 DEF BitAt

\* The six bits of a symbol are its digit of the block.
LEMMA SixIsDigit ==
  ASSUME NEW bytes \in Seq(Byte), NEW g \in Nat, NEW d \in 0 .. 3
  PROVE  SixOf(bytes, 4 * g + d) = DigitAt(BlockOf(bytes, 3 * g + 1), d)
<1>1. PICK a, b, c, n :
        /\ a = ByteAt(bytes, 3 * g + 1) /\ b = ByteAt(bytes, (3 * g + 1) + 1)
        /\ c = ByteAt(bytes, (3 * g + 2) + 1) /\ n = BlockOf(bytes, 3 * g + 1)
  BY Zenon
<1>2. /\ 3 * g \in Nat /\ 3 * g + 1 \in Nat /\ 3 * g + 2 \in Nat
      /\ 3 * g + 1 \in Nat \ {0} /\ (3 * g + 1) + 1 \in Nat \ {0}
      /\ (3 * g + 2) + 1 \in Nat \ {0}
      /\ (3 * g + 1) + 2 = (3 * g + 2) + 1
  BY SMT
<1>3. a \in Byte /\ b \in Byte /\ c \in Byte
  BY <1>1, <1>2, ByteAtIsByte, Zenon
<1>4. Joined(n, a, b, c)
  <2>1. BlockOf(bytes, 3 * g + 1) =
          65536 * ByteAt(bytes, 3 * g + 1)
            + 256 * ByteAt(bytes, (3 * g + 1) + 1)
            + ByteAt(bytes, (3 * g + 1) + 2)
    BY <1>2, BlockIs, SMT
  <2>2. QED
    BY <1>1, <1>2, <2>1, SMT DEF Joined
<1>5. \A q \in 0 .. 7 :
        /\ BitOf(bytes, 8 * (3 * g) + q) = BitAt(a, q)
        /\ BitOf(bytes, 8 * (3 * g + 1) + q) = BitAt(b, q)
        /\ BitOf(bytes, 8 * (3 * g + 2) + q) = BitAt(c, q)
  BY <1>1, <1>2, BitIs, Zenon
<1>6. /\ 0 \in 0 .. 7 /\ 1 \in 0 .. 7 /\ 2 \in 0 .. 7 /\ 3 \in 0 .. 7
      /\ 4 \in 0 .. 7 /\ 5 \in 0 .. 7 /\ 6 \in 0 .. 7 /\ 7 \in 0 .. 7
  BY SMT
<1>7. DigitsAre(n, a, b, c)
  BY <1>3, <1>4, DigitsOfBlock, Zenon
<1>8. Sixes(a) /\ Sixes(b) /\ Sixes(c)
  BY <1>3, FirstBits, Zenon
<1>9. \A q \in 0 .. 7 : BitAt(a, q) \in Nat /\ BitAt(b, q) \in Nat /\ BitAt(c, q) \in Nat
  BY <1>3, BitIsNat, Zenon
<1>10. CASE d = 0
  <2>1. /\ 6 * (4 * g + d) = 8 * (3 * g) + 0
        /\ 6 * (4 * g + d) + 1 = 8 * (3 * g) + 1
        /\ 6 * (4 * g + d) + 2 = 8 * (3 * g) + 2
        /\ 6 * (4 * g + d) + 3 = 8 * (3 * g) + 3
        /\ 6 * (4 * g + d) + 4 = 8 * (3 * g) + 4
        /\ 6 * (4 * g + d) + 5 = 8 * (3 * g) + 5
    BY <1>10, SMT
  <2>2. SixOf(bytes, 4 * g + d) =
          32 * BitAt(a, 0) + 16 * BitAt(a, 1) + 8 * BitAt(a, 2)
            + 4 * BitAt(a, 3) + 2 * BitAt(a, 4) + BitAt(a, 5)
    BY <1>5, <1>6, <2>1, ZenonT(60) DEF SixOf
  <2>3. QED
    BY <1>1, <1>7, <1>8, <1>10, <2>2, Zenon DEF DigitsAre, Sixes
<1>11. CASE d = 1
  <2>1. /\ 6 * (4 * g + d) = 8 * (3 * g) + 6
        /\ 6 * (4 * g + d) + 1 = 8 * (3 * g) + 7
        /\ 6 * (4 * g + d) + 2 = 8 * (3 * g + 1) + 0
        /\ 6 * (4 * g + d) + 3 = 8 * (3 * g + 1) + 1
        /\ 6 * (4 * g + d) + 4 = 8 * (3 * g + 1) + 2
        /\ 6 * (4 * g + d) + 5 = 8 * (3 * g + 1) + 3
    BY <1>11, SMT
  <2>2. SixOf(bytes, 4 * g + d) =
          32 * BitAt(a, 6) + 16 * BitAt(a, 7) + 8 * BitAt(b, 0)
            + 4 * BitAt(b, 1) + 2 * BitAt(b, 2) + BitAt(b, 3)
    BY <1>5, <1>6, <2>1, ZenonT(60) DEF SixOf
  <2>3. DigitAt(n, 1) = 16 * (a % 4) + (b \div 16)
    BY <1>7, Zenon DEF DigitsAre
  <2>4. /\ 32 * BitAt(a, 6) + 16 * BitAt(a, 7) = 16 * (a % 4)
        /\ 8 * BitAt(b, 0) + 4 * BitAt(b, 1) + 2 * BitAt(b, 2)
             + BitAt(b, 3) = b \div 16
    BY <1>8, Zenon DEF Sixes
  <2>5. /\ BitAt(a, 6) \in Nat /\ BitAt(a, 7) \in Nat /\ BitAt(b, 0) \in Nat
        /\ BitAt(b, 1) \in Nat /\ BitAt(b, 2) \in Nat /\ BitAt(b, 3) \in Nat
    BY <1>6, <1>9, Zenon
  <2>6. SixOf(bytes, 4 * g + d) = DigitAt(n, 1)
    <3>1. PICK p, q, s, t, u, v :
            /\ p = BitAt(a, 6) /\ q = BitAt(a, 7) /\ s = BitAt(b, 0)
            /\ t = BitAt(b, 1) /\ u = BitAt(b, 2) /\ v = BitAt(b, 3)
      BY Zenon
    <3>2. /\ p \in Nat /\ q \in Nat /\ s \in Nat
          /\ t \in Nat /\ u \in Nat /\ v \in Nat
      BY <2>5, <3>1, Zenon
    <3>3. 32 * p + 16 * q = 16 * (a % 4) /\ 8 * s + 4 * t + 2 * u + v = b \div 16
      BY <2>4, <3>1, Zenon
    <3>4. SixOf(bytes, 4 * g + d) = 32 * p + 16 * q + 8 * s + 4 * t + 2 * u + v
      BY <2>2, <3>1, Zenon
    <3>5. 32 * p + 16 * q + 8 * s + 4 * t + 2 * u + v =
            (32 * p + 16 * q) + (8 * s + 4 * t + 2 * u + v)
      BY <3>2, SMT
    <3>6. QED
      BY <2>3, <3>3, <3>4, <3>5, Zenon
  <2>7. QED
    BY <1>1, <1>11, <2>6, Zenon
<1>12. CASE d = 2
  <2>1. /\ 6 * (4 * g + d) = 8 * (3 * g + 1) + 4
        /\ 6 * (4 * g + d) + 1 = 8 * (3 * g + 1) + 5
        /\ 6 * (4 * g + d) + 2 = 8 * (3 * g + 1) + 6
        /\ 6 * (4 * g + d) + 3 = 8 * (3 * g + 1) + 7
        /\ 6 * (4 * g + d) + 4 = 8 * (3 * g + 2) + 0
        /\ 6 * (4 * g + d) + 5 = 8 * (3 * g + 2) + 1
    BY <1>12, SMT
  <2>2. SixOf(bytes, 4 * g + d) =
          32 * BitAt(b, 4) + 16 * BitAt(b, 5) + 8 * BitAt(b, 6)
            + 4 * BitAt(b, 7) + 2 * BitAt(c, 0) + BitAt(c, 1)
    BY <1>5, <1>6, <2>1, ZenonT(60) DEF SixOf
  <2>3. DigitAt(n, 2) = 4 * (b % 16) + (c \div 64)
    BY <1>7, Zenon DEF DigitsAre
  <2>4. /\ 32 * BitAt(b, 4) + 16 * BitAt(b, 5) + 8 * BitAt(b, 6)
             + 4 * BitAt(b, 7) = 4 * (b % 16)
        /\ 2 * BitAt(c, 0) + BitAt(c, 1) = c \div 64
    BY <1>8, Zenon DEF Sixes
  <2>5. /\ BitAt(b, 4) \in Nat /\ BitAt(b, 5) \in Nat /\ BitAt(b, 6) \in Nat
        /\ BitAt(b, 7) \in Nat /\ BitAt(c, 0) \in Nat /\ BitAt(c, 1) \in Nat
    BY <1>6, <1>9, Zenon
  <2>6. SixOf(bytes, 4 * g + d) = DigitAt(n, 2)
    <3>1. PICK p, q, s, t, u, v :
            /\ p = BitAt(b, 4) /\ q = BitAt(b, 5) /\ s = BitAt(b, 6)
            /\ t = BitAt(b, 7) /\ u = BitAt(c, 0) /\ v = BitAt(c, 1)
      BY Zenon
    <3>2. /\ p \in Nat /\ q \in Nat /\ s \in Nat
          /\ t \in Nat /\ u \in Nat /\ v \in Nat
      BY <2>5, <3>1, Zenon
    <3>3. 32 * p + 16 * q + 8 * s + 4 * t = 4 * (b % 16) /\ 2 * u + v = c \div 64
      BY <2>4, <3>1, Zenon
    <3>4. SixOf(bytes, 4 * g + d) = 32 * p + 16 * q + 8 * s + 4 * t + 2 * u + v
      BY <2>2, <3>1, Zenon
    <3>5. 32 * p + 16 * q + 8 * s + 4 * t + 2 * u + v =
            (32 * p + 16 * q + 8 * s + 4 * t) + (2 * u + v)
      BY <3>2, SMT
    <3>6. QED
      BY <2>3, <3>3, <3>4, <3>5, Zenon
  <2>7. QED
    BY <1>1, <1>12, <2>6, Zenon
<1>13. CASE d = 3
  <2>1. /\ 6 * (4 * g + d) = 8 * (3 * g + 2) + 2
        /\ 6 * (4 * g + d) + 1 = 8 * (3 * g + 2) + 3
        /\ 6 * (4 * g + d) + 2 = 8 * (3 * g + 2) + 4
        /\ 6 * (4 * g + d) + 3 = 8 * (3 * g + 2) + 5
        /\ 6 * (4 * g + d) + 4 = 8 * (3 * g + 2) + 6
        /\ 6 * (4 * g + d) + 5 = 8 * (3 * g + 2) + 7
    BY <1>13, SMT
  <2>2. SixOf(bytes, 4 * g + d) =
          32 * BitAt(c, 2) + 16 * BitAt(c, 3) + 8 * BitAt(c, 4)
            + 4 * BitAt(c, 5) + 2 * BitAt(c, 6) + BitAt(c, 7)
    BY <1>5, <1>6, <2>1, ZenonT(60) DEF SixOf
  <2>3. QED
    BY <1>1, <1>7, <1>8, <1>13, <2>2, Zenon DEF DigitsAre, Sixes
<1>14. QED
  <2>1. d = 0 \/ d = 1 \/ d = 2 \/ d = 3
    BY SMT
  <2>2. QED
    BY <1>10, <1>11, <1>12, <1>13, <2>1, Zenon

\* The encoding is the bits of the bytes, six at a time, and padding.
LEMMA EncodedIs ==
  ASSUME NEW bytes \in Seq(Byte)
  PROVE  /\ Len(Encoded(bytes)) % 4 = 0
         /\ Len(Encoded(bytes)) - UsedOf(bytes) \in 0 .. 2
         /\ \A n \in DOMAIN Encoded(bytes) :
              IF n <= UsedOf(bytes)
              THEN /\ Encoded(bytes)[n] # Pad
                   /\ Digit(Encoded(bytes)[n]) = SixOf(bytes, n - 1)
              ELSE Encoded(bytes)[n] = Pad
<1>1. PICK l \in Nat : l = Len(bytes)
  BY SMT
<1>2. PICK m \in Nat : m = (l + 2) \div 3
  BY <1>1, SMT
<1>3. 3 * m <= l + 2 /\ l <= 3 * m
  BY <1>1, <1>2, SMT
<1>4. Len(Encoded(bytes)) = 4 * m /\ DOMAIN Encoded(bytes) = 1 .. 4 * m
  BY <1>1, <1>2, LengthOfEncoded, SMT DEF Encoded
<1>5. PICK u \in Nat : u = UsedOf(bytes)
  BY <1>1, SMT DEF UsedOf
<1>6. 6 * u <= 8 * l + 5 /\ 8 * l <= 6 * u
  BY <1>1, <1>5, SMT DEF UsedOf
<1>7. 4 * m - u \in 0 .. 2 /\ (4 * m) % 4 = 0
  BY <1>3, <1>6, SMT
<1>8. ASSUME NEW n \in 1 .. 4 * m
      PROVE  IF n <= u
             THEN /\ Encoded(bytes)[n] # Pad
                  /\ Digit(Encoded(bytes)[n]) = SixOf(bytes, n - 1)
             ELSE Encoded(bytes)[n] = Pad
  <2>1. PICK g \in Nat, d \in 0 .. 3 : n = 4 * g + d + 1
    <3>1. /\ (n - 1) \div 4 \in Nat /\ (n - 1) % 4 \in 0 .. 3
          /\ n = 4 * ((n - 1) \div 4) + ((n - 1) % 4) + 1
      BY <1>2, SMT
    <3>2. QED
      BY <3>1, Zenon
  <2>2. 4 * g + d < Len(Encoded(bytes)) /\ n - 1 = 4 * g + d
    BY <1>2, <1>4, <2>1, SMT
  <2>3. /\ Encoded(bytes)[n] = Pad <=> d >= 2 /\ 3 * g + d > l
        /\ Encoded(bytes)[n] # Pad =>
             Digit(Encoded(bytes)[n]) = DigitAt(BlockOf(bytes, 3 * g + 1), d)
    BY <1>1, <2>1, <2>2, PaddingOf, ZenonT(60) DEF DigitAt
  <2>4. n <= u <=> ~ (d >= 2 /\ 3 * g + d > l)
    <3>1. g + 1 <= m
      BY <1>2, <1>4, <2>1, <2>2, SMT
    <3>2. 3 * g + 1 <= l
      BY <1>2, <1>3, <2>1, <3>1, SMT
    <3>3. QED
      BY <1>6, <2>1, <3>2, SMT
  <2>5. SixOf(bytes, n - 1) = DigitAt(BlockOf(bytes, 3 * g + 1), d)
    BY <2>1, <2>2, SixIsDigit, Zenon
  <2>6. QED
    BY <2>3, <2>4, <2>5, Zenon
<1>9. QED
  BY <1>4, <1>5, <1>7, <1>8, Zenon

(***************************************************************************)
(* base64::encode is RFC 4648's for byte strings of any length: their bits *)
(* six at a time, and padding up to a multiple of four (base64.hpp:17-60). *)
(***************************************************************************)
THEOREM EncodesBitGroups == Spec => []EncodingIsBitGroups
<1>1. SourceInv => EncodingIsBitGroups
  <2> SUFFICES ASSUME SourceInv, source # Unsourced
               PROVE  EncodingIsBitGroups
    BY DEF EncodingIsBitGroups
  <2>1. source \in Seq(Byte) /\ text = Encoded(source)
    BY DEF SourceInv
  <2>2. QED
    BY <2>1, EncodedIs, Zenon DEF EncodingIsBitGroups, BitOf, SixOf, UsedOf
<1>2. QED
  BY <1>1, InitKeeps, NextKeeps, SourceInit, SourceKept, PTL DEF Spec
=============================================================================
