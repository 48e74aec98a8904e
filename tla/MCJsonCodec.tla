---------------------------- MODULE MCJsonCodec ----------------------------
(***************************************************************************)
(* JsonCodec on texts of up to four values, documents included, laid out   *)
(* by json, by prettyjson, with spaces and a trailing comma, and with      *)
(* comments.                                                               *)
(***************************************************************************)
EXTENDS JsonProper

Layout(gap, trailing) == [gap |-> gap, trailing |-> trailing, pretty |-> FALSE]

Pretty == [gap |-> <<>>, trailing |-> FALSE, pretty |-> TRUE]

MCNames == {<<"a">>}
MCWords == {<<"null">>, <<"1", "0">>}

\* Contents that need escaping, that look like structure or like a comment,
\* and a backslash before another character.
MCStrings ==
  {<<>>, <<"a", "\n">>, <<Quote, "}">>, <<"/", "/">>, <<Escape, Quote>>}

\* The characters of all of them, and those the codec writes.
MCSymbols ==
  {Quote, Escape, " ", "\t", "\n", "\r", "\f", "BS", ",", ":", "{", "}", "[", "]",
   "t", "n", "r", "f", "b", "u", "a", "/", "*", "1", "0", "null"}

MCStyles ==
  {Layout(<<>>, FALSE), Pretty,
   Layout(<<"\n", " ">>, TRUE),
   Layout(<<"/", "/", "a", "\n">>, TRUE),
   Layout(<<"/", "*", "}", "*", "/">>, FALSE)}
=============================================================================
