--------------------------- MODULE MCBase64Decode ---------------------------
(***************************************************************************)
(* Texts of up to two blocks over an alphabet symbol of all ones, one of   *)
(* mixed bits, padding and, for one block, a symbol that is in no          *)
(* alphabet; lengths that are no multiple of four.  Byte strings of up to  *)
(* four bytes, so that each rest (0, 1, 2) comes after a full block, and   *)
(* each symbol of the alphabet as the first of a text.                     *)
(***************************************************************************)
EXTENDS Base64Decode

Strings(symbols, n) == [1 .. n -> symbols]

MCTexts ==
  UNION {Strings({47, 81, Pad}, n) : n \in {0, 3, 4, 8}}
    \union Strings({47, 81, 33, Pad}, 4)

MCSources ==
  UNION {Strings({0, 77, 255}, n) : n \in 0 .. 4} \union {<<4 * n + 1>> : n \in 0 .. 63}
=============================================================================
