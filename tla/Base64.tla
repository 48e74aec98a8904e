------------------------------- MODULE Base64 -------------------------------
(***************************************************************************)
(* Base64 (utilities/base64.hpp) as operators on texts and bytes: what     *)
(* encode writes, and what decode comes to.  Base64Decode has its loop.    *)
(*                                                                         *)
(* Symbols are their ASCII codes.                                          *)
(***************************************************************************)
EXTENDS Integers, Sequences, SequencesExt

Byte == 0 .. 255
Pad  == 61

-----------------------------------------------------------------------------
(* Encoding. *)

\* The lookup string: A-Z, a-z, 0-9, + and /.
Lookup(n) ==
  CASE n < 26 -> 65 + n
    [] n \in 26 .. 51 -> 71 + n
    [] n \in 52 .. 61 -> n - 4
    [] n = 62 -> 43
    [] n = 63 -> 47

\* Three bytes as one number; those beyond the end count as zero.
BlockOf(bytes, first) ==
  LET at(k) == IF k <= Len(bytes) THEN bytes[k] ELSE 0
  IN  65536 * at(first) + 256 * at(first + 1) + at(first + 2)

\* What the four digits of a block count: block >> 18, >> 12, >> 6, >> 0.
Units == <<262144, 4096, 64, 1>>

\* Mutant of Encoded: the block of a short rest is not padded in full.
EncodedOnePad(bytes) ==
  [p \in 1 .. 4 * ((Len(bytes) + 2) \div 3) |->
     LET group == (p - 1) \div 4
         digit == (p - 1) % 4
     IN  IF digit = 3 /\ 3 * group + digit > Len(bytes)
         THEN Pad
         ELSE Lookup((BlockOf(bytes, 3 * group + 1) \div Units[digit + 1]) % 64)]

\* encode: four symbols for each block of three bytes, the last one padded.
Encoded(bytes) ==
  [p \in 1 .. 4 * ((Len(bytes) + 2) \div 3) |->
     LET group == (p - 1) \div 4
         digit == (p - 1) % 4
     IN  IF digit >= 2 /\ 3 * group + digit > Len(bytes)
         THEN Pad
         ELSE Lookup((BlockOf(bytes, 3 * group + 1) \div Units[digit + 1]) % 64)]

-----------------------------------------------------------------------------
(* What decode comes to, in closed form. *)

\* The six bits of a symbol.  A symbol that is not in the alphabet adds none.
Digit(c) ==
  CASE c \in 65 .. 90  -> c - 65
    [] c \in 97 .. 122 -> c - 71
    [] c \in 48 .. 57  -> c + 4
    [] c = 43 -> 62
    [] c = 47 -> 63
    [] OTHER  -> 0

\* How many of the last two symbols are padding, in whatever order.
Padding(text) ==
  (IF text[Len(text)] = Pad THEN 1 ELSE 0)
    + (IF text[Len(text) - 1] = Pad THEN 1 ELSE 0)

ResultSize(text) == 3 * (Len(text) \div 4) - Padding(text)

\* The length of the text up to its first padding.
Unpadded(text) ==
  CHOOSE n \in 0 .. Len(text) :
    /\ n < Len(text) => text[n + 1] = Pad
    /\ \A k \in 1 .. n : text[k] # Pad

\* decode throws: the length is wrong, or padding turns up without any at
\* the end.
Undecodable(text) ==
  /\ text # <<>>
  /\ \/ Len(text) % 4 # 0
     \/ Padding(text) = 0 /\ Unpadded(text) < Len(text)

\* The number that the symbols after position from, up to to, stand for: those
\* of one block, or the first of them.
Bits(text, from, to) ==
  LET term(k) == IF k <= to - from
                 THEN Units[4 + k - (to - from)] * Digit(text[from + k])
                 ELSE 0
  IN  term(1) + term(2) + term(3) + term(4)

\* What the three bytes of a block count: block >> 16, >> 8, >> 0.
Shifts == <<65536, 256, 1>>

\* Byte k of the result, where it comes from a full block.
FullByte(text, k) ==
  LET first == 4 * ((k - 1) \div 3)
  IN  (Bits(text, first, first + 4) \div Shifts[((k - 1) % 3) + 1]) % 256

\* The bytes of the block that padding cuts short, shifted once too often.
CutShort(text) ==
  LET open == Unpadded(text)
      rest == 64 * Bits(text, 4 * (open \div 4), open)
  IN  IF open = Len(text) THEN <<>>
      ELSE IF Padding(text) = 1
      THEN <<(rest \div 65536) % 256, (rest \div 256) % 256>>
      ELSE <<(rest \div 1024) % 256>>

(***************************************************************************)
(* The bytes decode returns: three for each block before the first         *)
(* padding, one or two for the block that padding cuts short, and zeros    *)
(* for what it has allocated beyond that.                                  *)
(***************************************************************************)
Decoded(text) ==
  IF text = <<>> THEN <<>>
  ELSE LET full == 3 * (Unpadded(text) \div 4)
           cut  == CutShort(text)
       IN  [k \in 1 .. ResultSize(text) |->
              IF k <= full THEN FullByte(text, k)
              ELSE IF k - full <= Len(cut) THEN cut[k - full] ELSE 0]
=============================================================================
