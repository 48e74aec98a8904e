---------------------------- MODULE MCBsonCodec ----------------------------
(***************************************************************************)
(* BsonCodec with up to four values, documents included, one inside the    *)
(* other or side by side, and scalars of every shape that get() and skip() *)
(* tell apart: empty and not, of a fixed width and with a length, and      *)
(* integers on both sides of what an int32_t can hold.                     *)
(***************************************************************************)
EXTENDS BsonCodec

MCNames == {<<97>>}

Val(type, value) == [type |-> type, value |-> value]

MCScalars ==
  {Val(Null, <<>>),
   Val(String, <<>>),
   Val(String, <<104, 105>>),
   Val(Binary, <<7>>),
   Val(Integer, <<255, 255, 255, 127, 0, 0, 0, 0>>),
   Val(Integer, <<0, 0, 0, 128, 0, 0, 0, 0>>),
   Val(Double, <<31, 133, 235, 81, 184, 30, 9, 64>>),
   Val(RegEx, <<97, 0, 105, 0>>),
   Val(Javascript, <<59>>),
   Val(JsScope, <<1, 2, 3>>)}
=============================================================================
