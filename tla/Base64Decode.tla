---------------------------- MODULE Base64Decode ----------------------------
(***************************************************************************)
(* The loop of base64::decode (utilities/base64.hpp:63): it reads a text   *)
(* symbol by symbol and writes through a raw pointer into a result whose   *)
(* size it has worked out from the last two symbols alone.                 *)
(***************************************************************************)
EXTENDS Base64

CONSTANTS
  Texts,    \* texts to decode, from any source
  Sources   \* byte strings that are encoded, and then decoded

ASSUME TextsAssumption   == Texts \subseteq Seq(Byte)
ASSUME SourcesAssumption == Sources \subseteq Seq(Byte)

VARIABLES
  phase,    \* "start", "decode", "done" or "error"
  source,   \* the bytes that text is the encoding of, or <<-1>> (history)
  text,     \* value, the text that is decoded
  i, j,     \* the loops over the blocks and over the symbols of one block
  block,    \* the bits of the block so far
  result,   \* the bytes allocated for the result
  r         \* how many bytes have been written through the pointer

vars == <<phase, source, text, i, j, block, result, r>>

Unsourced == <<-1>>

\* *r++ = ... for each of these bytes; what lies beyond the result is not ours.
Write(bytes) ==
  /\ r' = r + Len(bytes)
  /\ result' = [k \in DOMAIN result |->
                  IF k - r \in DOMAIN bytes THEN bytes[k - r] ELSE result[k]]

\* Mutant of Start: a text of the wrong length is not refused.
StartAnyLength ==
  /\ phase = "start"
  /\ phase' = IF text = <<>> THEN "done" ELSE "decode"
  /\ result' = IF text = <<>> THEN <<>> ELSE [k \in 1 .. ResultSize(text) |-> 0]
  /\ UNCHANGED <<source, text, i, j, block, r>>

\* The early returns, and the allocation.
Start ==
  /\ phase = "start"
  /\ IF text = <<>> \/ Len(text) % 4 # 0
     THEN /\ phase' = IF text = <<>> THEN "done" ELSE "error"
          /\ UNCHANGED result
     ELSE /\ phase' = "decode"
          /\ result' = [k \in 1 .. ResultSize(text) |-> 0]
  /\ UNCHANGED <<source, text, i, j, block, r>>

\* The next symbol, *c.
Symbol == text[4 * i + j + 1]

InText == phase = "decode" /\ 4 * i + j < Len(text)

\* Mutant of ReadDigit: j is not set back.
ReadDigitCountsOn ==
  /\ InText
  /\ Symbol # Pad
  /\ \E bits \in {64 * block + Digit(Symbol)} :
       IF j < 3
       THEN /\ j' = j + 1 /\ block' = bits
            /\ UNCHANGED <<i, r, result>>
       ELSE /\ i' = i + 1 /\ j' = j + 1 /\ block' = 0
            /\ Write(<<(bits \div 65536) % 256, (bits \div 256) % 256, bits % 256>>)
  /\ UNCHANGED <<phase, source, text>>

\* A symbol of the block; the fourth one writes the block's three bytes.
ReadDigit ==
  /\ InText
  /\ Symbol # Pad
  /\ \E bits \in {64 * block + Digit(Symbol)} :
       IF j < 3
       THEN /\ j' = j + 1 /\ block' = bits
            /\ UNCHANGED <<i, r, result>>
       ELSE /\ i' = i + 1 /\ j' = 0 /\ block' = 0
            /\ Write(<<(bits \div 65536) % 256, (bits \div 256) % 256, bits % 256>>)
  /\ UNCHANGED <<phase, source, text>>

\* Mutant of ReadPad: the block is shifted for symbols of the alphabet only.
ReadPadUnshifted ==
  /\ InText
  /\ Symbol = Pad
  /\ CASE Padding(text) = 1 ->
            Write(<<(block \div 65536) % 256, (block \div 256) % 256>>)
       [] Padding(text) = 2 -> Write(<<(block \div 1024) % 256>>)
       [] OTHER -> UNCHANGED <<r, result>>
  /\ phase' = IF Padding(text) = 0 THEN "error" ELSE "done"
  /\ UNCHANGED <<source, text, i, j, block>>

\* Mutant of ReadPad: the first case of the switch falls through to the next.
ReadPadFallsThrough ==
  /\ InText
  /\ Symbol = Pad
  /\ CASE Padding(text) = 1 ->
            Write(<<((64 * block) \div 65536) % 256, ((64 * block) \div 256) % 256,
                    ((64 * block) \div 1024) % 256>>)
       [] Padding(text) = 2 -> Write(<<((64 * block) \div 1024) % 256>>)
       [] OTHER -> UNCHANGED <<r, result>>
  /\ phase' = IF Padding(text) = 0 THEN "error" ELSE "done"
  /\ UNCHANGED <<source, text, i, j, block>>

\* Padding ends the text wherever it is.  The block has been shifted once more.
ReadPad ==
  /\ InText
  /\ Symbol = Pad
  /\ CASE Padding(text) = 1 ->
            Write(<<((64 * block) \div 65536) % 256, ((64 * block) \div 256) % 256>>)
       [] Padding(text) = 2 -> Write(<<((64 * block) \div 1024) % 256>>)
       [] OTHER -> UNCHANGED <<r, result>>
  /\ phase' = IF Padding(text) = 0 THEN "error" ELSE "done"
  /\ UNCHANGED <<source, text, i, j, block>>

Finish ==
  /\ phase = "decode" /\ 4 * i + j = Len(text)
  /\ phase' = "done"
  /\ UNCHANGED <<source, text, i, j, block, result, r>>

Init ==
  /\ phase = "start"
  /\ \/ text \in Texts /\ source = Unsourced
     \/ source \in Sources /\ text = Encoded(source)
  /\ i = 0 /\ j = 0 /\ block = 0 /\ result = <<>> /\ r = 0

Next == Start \/ ReadDigit \/ ReadPad \/ Finish

Spec == Init /\ [][Next]_vars

-----------------------------------------------------------------------------
(* Properties. *)

TypeOK ==
  /\ phase \in {"start", "decode", "done", "error"}
  /\ text \in Seq(Byte) /\ result \in Seq(Byte)
  /\ i \in Nat /\ j \in 0 .. 3 /\ block \in Nat /\ r \in Nat

(***************************************************************************)
(* Whatever text is decoded, the loop never writes beyond the result it    *)
(* has allocated (base64.hpp:83-114): the size comes from the last two     *)
(* symbols only, the writes from each symbol on the way there.             *)
(***************************************************************************)
InBounds == r <= Len(result)

(***************************************************************************)
(* Bytes that were encoded are decoded to what they were, whatever their   *)
(* number (base64.hpp:17-118).                                             *)
(***************************************************************************)
RoundTrip ==
  source # Unsourced =>
    /\ phase # "error"
    /\ phase = "done" => result = source

(***************************************************************************)
(* The loop implements the closed form for every text, those that no       *)
(* encoder has written included: padding in the middle, one padding symbol *)
(* before the last one, symbols outside the alphabet (base64.hpp:88-117).  *)
(***************************************************************************)
LoopIsDecoded ==
  /\ phase = "done"  => ~ Undecodable(text) /\ result = Decoded(text)
  /\ phase = "error" => Undecodable(text)

\* What the bits of a byte count, the first one first.
Masks == <<128, 64, 32, 16, 8, 4, 2, 1>>

(***************************************************************************)
(* The encoding is what RFC 4648 says, and the test vectors of             *)
(* utilities.cpp:10-36 show: the bits of the bytes, six at a time, the     *)
(* rest filled with zeros, and padding up to a multiple of four.           *)
(***************************************************************************)
EncodingIsBitGroups ==
  source # Unsourced =>
    LET bit(k)   == IF k < 8 * Len(source)
                    THEN (source[(k \div 8) + 1] \div Masks[(k % 8) + 1]) % 2 ELSE 0
        six(n)   == 32 * bit(6 * n) + 16 * bit(6 * n + 1) + 8 * bit(6 * n + 2)
                      + 4 * bit(6 * n + 3) + 2 * bit(6 * n + 4) + bit(6 * n + 5)
        used     == (8 * Len(source) + 5) \div 6
    IN  /\ Len(text) % 4 = 0 /\ Len(text) - used \in 0 .. 2
        /\ \A n \in DOMAIN text :
             IF n <= used THEN text[n] # Pad /\ Digit(text[n]) = six(n - 1)
                          ELSE text[n] = Pad
=============================================================================
