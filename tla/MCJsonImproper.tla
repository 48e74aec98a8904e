--------------------------- MODULE MCJsonImproper ---------------------------
(***************************************************************************)
(* JsonCodec as encode lays its texts out, with keys and contents that     *)
(* JsonProper leaves out.                                                  *)
(***************************************************************************)
EXTENDS JsonCodec

MCPlain == {[gap |-> <<>>, trailing |-> FALSE, pretty |-> FALSE]}

MCNames   == {<<"a">>}
MCWords   == {<<"null">>, <<"1", "0">>}
MCStrings == {<<>>, <<"a", "\n">>}

\* A content that ends in a backslash.
MCBackslash == {<<"a", Escape>>}

MCEmptyName == {<<>>}
=============================================================================
