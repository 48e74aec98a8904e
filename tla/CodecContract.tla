--------------------------- MODULE CodecContract ---------------------------
(***************************************************************************)
(* What a codec (codec.hpp) promises, whatever its text looks like.  The   *)
(* callers' loops write a sequence of tokens: a document starts, a value,  *)
(* a document ends.  The loops that read it come to the same tokens in the *)
(* same order; they take a value, enter a document, or skip either of them *)
(* as a whole.  A text that did not arrive as it was written is refused    *)
(* before anything is read from it.                                        *)
(*                                                                         *)
(* Some values are fragile: for those the codec at hand does not keep this *)
(* promise, and once one of them has been passed nothing is promised.      *)
(***************************************************************************)
EXTENDS Integers, Sequences, FiniteSets

CONSTANTS
  Tokens   \* records of a kind, a name, a value and whether it is fragile

VARIABLES
  stage,    \* "write", "sent", "read", "done", "failed" or "lost"
  written,  \* the tokens, in the order in which they were written
  intact,   \* the text has arrived as it was written
  passed,   \* how many tokens the reader has come past
  given     \* what the reader was given last, or <<>>

vars == <<stage, written, intact, passed, given>>

Nothing == <<>>

CountOf(tokens, kind) == Cardinality({k \in DOMAIN tokens : tokens[k].kind = kind})

\* How many documents are open after these tokens.
Open(tokens) == CountOf(tokens, "start") - CountOf(tokens, "end")

Coming == written[passed + 1]

\* The last token of the value that starts with token k.
EndOf(k) ==
  CHOOSE e \in k .. Len(written) :
    /\ Open(SubSeq(written, k, e)) = 0
    /\ \A m \in k .. e - 1 : Open(SubSeq(written, k, m)) > 0

-----------------------------------------------------------------------------
Write ==
  /\ stage = "write"
  /\ \E token \in Tokens :
       /\ IF written = <<>> THEN token.kind = "start" ELSE Open(written) > 0
       /\ written' = Append(written, token)
  /\ UNCHANGED <<stage, intact, passed, given>>

Send ==
  /\ stage = "write"
  /\ written # <<>> /\ Open(written) = 0
  /\ intact' \in BOOLEAN
  /\ stage' = "sent"
  /\ UNCHANGED <<written, passed, given>>

Begin ==
  /\ stage = "sent" /\ intact
  /\ stage' = "read"
  /\ passed' = 1
  /\ UNCHANGED <<written, intact, given>>

Refuse ==
  /\ stage = "sent" /\ ~ intact
  /\ stage' = "failed"
  /\ UNCHANGED <<written, intact, passed, given>>

Reading == stage = "read" /\ UNCHANGED <<written, intact>>

Enter ==
  /\ Reading
  /\ Coming.kind = "start"
  /\ passed' = passed + 1
  /\ given' = Nothing
  /\ UNCHANGED stage

Take ==
  /\ Reading
  /\ Coming.kind = "item"
  /\ passed' = passed + 1
  /\ given' = [name |-> Coming.name, value |-> Coming.value]
  /\ UNCHANGED stage

Skip ==
  /\ Reading
  /\ Coming.kind # "end" /\ ~ Coming.fragile
  /\ passed' = EndOf(passed + 1)
  /\ given' = Nothing
  /\ UNCHANGED stage

End ==
  /\ Reading
  /\ Coming.kind = "end"
  /\ passed' = passed + 1
  /\ given' = Nothing
  /\ stage' = IF passed + 1 = Len(written) THEN "done" ELSE "read"

\* A fragile value is skipped, or the whole text is one.
Lose ==
  /\ stage \in {"sent", "read"}
  /\ Coming.fragile
  /\ stage' = "lost"
  /\ passed' = 0
  /\ given' = Nothing
  /\ UNCHANGED <<written, intact>>

Init ==
  /\ stage = "write"
  /\ written = <<>>
  /\ intact = TRUE
  /\ passed = 0
  /\ given = Nothing

Next ==
  \/ Write \/ Send
  \/ Begin \/ Refuse
  \/ Enter \/ Take \/ Skip \/ End
  \/ Lose

Spec == Init /\ [][Next]_vars

-----------------------------------------------------------------------------
(* What follows for a reader of any codec that keeps the contract. *)

\* How many documents are open behind token k.
Level(k) == Open(SubSeq(written, 1, k))

(***************************************************************************)
(* The reader never leaves the document it has begun before that document  *)
(* ends: as long as it reads, one is open and a token is to come, and it   *)
(* is done at the last token and nowhere else.  The callers' loops         *)
(* (entity.hpp:78-96, vref/tree.hpp:76-103) rely on that when they end at  *)
(* an end that they take for their own.                                    *)
(***************************************************************************)
InsideDocument ==
  /\ stage \in {"read", "done"} => intact
  /\ stage = "read" => passed \in 1 .. Len(written) - 1 /\ Level(passed) > 0
  /\ stage = "done" => passed = Len(written) /\ Level(passed) = 0

(***************************************************************************)
(* What the reader holds is what was written at the place it has come to,  *)
(* never what an earlier or a skipped value left (codec.hpp, get).         *)
(***************************************************************************)
GivenWasWritten ==
  given # Nothing =>
    /\ passed \in DOMAIN written /\ written[passed].kind = "item"
    /\ given = [name |-> written[passed].name, value |-> written[passed].value]

(***************************************************************************)
(* A step of the reader passes one token, or one document with all that is *)
(* in it: skip() comes out at the level it went in at, and was above that  *)
(* level all the way.                                                      *)
(***************************************************************************)
PassesOne ==
  stage = "read" /\ stage' \in {"read", "done"} =>
    \/ passed' = passed + 1
    \/ /\ Coming.kind = "start" /\ passed' \in passed + 2 .. Len(written)
       /\ Level(passed') = Level(passed)
       /\ \A k \in passed + 1 .. passed' - 1 : Level(k) > Level(passed)

PassesOneValue == [][PassesOne]_vars
=============================================================================
