--------------------------- MODULE MCPointerWalk ---------------------------
(***************************************************************************)
(* PointerWalk on every graph of three objects with two pointers each:     *)
(* chains, shared objects, self references, cycles through and beside the  *)
(* object the call starts from.                                            *)
(***************************************************************************)
EXTENDS PointerWalk

CONSTANTS o1, o2, o3

MCObjects == {o1, o2, o3}
=============================================================================
