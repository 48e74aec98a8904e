----------------------------- MODULE BsonCodec -----------------------------
(***************************************************************************)
(* The BSON codec (bson.hpp) byte for byte: a document is written through  *)
(* the codec's calls, its lengths patched in afterwards, and read back by  *)
(* the loops of codec.hpp and of the vrefs, which take or skip each value. *)
(*                                                                         *)
(* Positions are offsets as in the C++ code: the byte at offset p of s is  *)
(* s[p + 1].  Names have no NUL.                                           *)
(***************************************************************************)
EXTENDS Integers, Sequences, FiniteSets

CONSTANTS
  Names,      \* member names, as bytes
  Scalars,    \* values to write: records of a type and its bytes
  MaxValues   \* bound: values that are written, documents included

Byte == 0 .. 255

ASSUME NamesAssumption  == Names \subseteq Seq(1 .. 255)
ASSUME MaxValuesAssumption == MaxValues \in Nat

\* bson::Type.  Integer is no type on the wire: item() picks Int32 or Int64.
Double     == 1
String     == 2
Object     == 3
Array      == 4
Binary     == 5
ObjectId   == 7
Boolean    == 8
UTC        == 9
Null       == 10
RegEx      == 11
Javascript == 13
JsScope    == 15
Int32      == 16
Timestamp  == 17
Int64      == 18
Integer    == 256

\* What libentity names but does not support: other programs write these.
Foreign == {ObjectId, UTC, RegEx, Javascript, JsScope, Timestamp}

\* How many bytes a value of these types has, on the wire or before item().
Width ==
  [type \in {Null, Boolean, ObjectId, Double, UTC, Timestamp, Integer} |->
     CASE type = Null -> 0 [] type = Boolean -> 1 [] type = ObjectId -> 12
       [] OTHER -> 8]

\* A regular expression is two cstrings: a NUL at m and another at the end.
IsRegEx(bytes) ==
  \E m \in 1 .. Len(bytes) - 1 :
    \A k \in DOMAIN bytes : bytes[k] = 0 <=> k \in {m, Len(bytes)}

\* The values item() is called with, and those of other programs.
IsScalar(v) ==
  /\ v.type \in {Double, String, Binary, Boolean, Null, Integer} \union Foreign
  /\ v.value \in Seq(Byte)
  /\ v.type \in DOMAIN Width => Len(v.value) = Width[v.type]
  /\ v.type = RegEx => IsRegEx(v.value)

ASSUME ScalarsAssumption == \A v \in Scalars : IsScalar(v)

VARIABLES
  phase,    \* "write", "sent", "read", "done", "ignored" or "error"
  dst,      \* the bytes written so far
  stack,    \* where the open documents start, the codec's stack
  loops,    \* the callers' loops: type of the document and next array index
  events,   \* what has been written and where (history)
  data,     \* the bytes that are read
  i,        \* the position of the reader
  depth,    \* how many documents the reader has open
  cursor,   \* the event the reader should be at (history)
  got,      \* the value it has just taken, or <<>> (history)
  lost      \* it has skipped a value that skip() measures wrongly (history)

writer == <<dst, stack, loops, events>>
reader == <<data, i, depth, cursor, got, lost>>
vars   == <<phase, writer, reader>>

Last(s) == s[Len(s)]
Front(s) == SubSeq(s, 1, Len(s) - 1)

\* write(os, int32_t) and int32(): four bytes, least significant first.
LE32(n) == [k \in 1 .. 4 |-> (n \div 256 ^ (k - 1)) % 256]

Signed(b) == IF b < 128 THEN b ELSE b - 256

Read32(s, p) ==
  s[p + 1] + 256 * s[p + 2] + 65536 * s[p + 3] + 16777216 * Signed(s[p + 4])

\* The bytes of a 64-bit integer that an int32_t can hold repeat its sign.
Sign(b)   == IF b >= 128 THEN 255 ELSE 0

\* Mutant of Fits32: what an unsigned 32-bit integer can hold is narrowed.
FitsUnsigned32(n) == \A k \in 5 .. 8 : n[k] = 0

Fits32(n) == \A k \in 5 .. 8 : n[k] = Sign(n[4])
Widen(n)  == n \o [k \in 1 .. 4 |-> Sign(n[4])]

-----------------------------------------------------------------------------
(* Writing. *)

Header(type, name) == <<type>> \o name \o <<0>>

\* The type byte item() writes, and the bytes after the name.
WireType(v) ==
  IF v.type # Integer THEN v.type ELSE IF Fits32(v.value) THEN Int32 ELSE Int64

Payload(v) ==
  CASE v.type \in {String, Javascript} ->
         LE32(Len(v.value) + 1) \o v.value \o <<0>>
    [] v.type = Binary  -> LE32(Len(v.value)) \o <<0>> \o v.value
    [] v.type = JsScope -> LE32(Len(v.value) + 4) \o v.value
    [] v.type = Integer /\ Fits32(v.value) -> SubSeq(v.value, 1, 4)
    [] OTHER -> v.value

\* The bytes each item() writes: type, name and value.
Encoded(name, v) == Header(WireType(v), name) \o Payload(v)

Event(kind, type, name, value, at, start) ==
  [kind |-> kind, type |-> type, name |-> name, value |-> value,
   at |-> at, start |-> start, depth |-> Len(stack)]

\* array_item_name: the decimal digits of the index.
Digits(n) == Cardinality({e \in 1 .. n : 10 ^ e <= n}) + 1

IndexName(n) ==
  [k \in 1 .. Digits(n) |-> 48 + ((n \div 10 ^ (Digits(n) - k)) % 10)]

\* Array items are called by their index, object members by their name.
MemberNames ==
  IF Last(loops).type = Array THEN {IndexName(Last(loops).next)} ELSE Names

NextIndex == [loops EXCEPT ![Len(loops)].next = @ + 1]

MoreValues ==
  Cardinality({k \in DOMAIN events : events[k].kind # "end"}) < MaxValues

WriterStep == phase = "write" /\ UNCHANGED <<phase, reader>>

\* object_start and array_start: room for the length, its place on the stack.
\* The document has a header unless its name is empty.
Start(type, name) ==
  LET start == Len(dst) + (IF name = <<>> THEN 0 ELSE Len(Header(type, name)))
  IN  /\ dst' = (IF name = <<>> THEN dst ELSE dst \o Header(type, name))
                  \o LE32(0)
      /\ stack' = Append(stack, start)
      /\ events' = Append(events,
                     Event("start", type, name, <<>>, Len(dst), start))

\* encode of a top-level entity, map, vector or tree.
WriteTop ==
  /\ WriterStep
  /\ events = <<>>
  /\ \E type \in {Object, Array} :
       /\ Start(type, <<>>)
       /\ loops' = <<[type |-> type, next |-> 0]>>

WriteDocument ==
  /\ WriterStep
  /\ stack # <<>>
  /\ MoreValues
  /\ \E type \in {Object, Array}, name \in MemberNames :
       /\ Start(type, name)
       /\ loops' = Append(NextIndex, [type |-> type, next |-> 0])

WriteItem ==
  /\ WriterStep
  /\ stack # <<>>
  /\ MoreValues
  /\ \E v \in Scalars, name \in MemberNames :
       /\ dst' = dst \o Encoded(name, v)
       /\ events' = Append(events,
                      Event("item", v.type, name, v.value, Len(dst), Len(dst)))
  /\ loops' = NextIndex
  /\ UNCHANGED stack

\* Mutant of Patch: the length is written over the byte before, too.
PatchOneEarly(s, p, bytes) ==
  [k \in DOMAIN s |-> IF k + 1 - p \in 1 .. 4 THEN bytes[k + 1 - p] ELSE s[k]]

\* s with the four bytes at p overwritten: seekp to p, write, seekp to the end.
Patch(s, p, bytes) ==
  [k \in DOMAIN s |-> IF k - p \in 1 .. 4 THEN bytes[k - p] ELSE s[k]]

\* Mutant of WriteEnd: the stack is not popped.
WriteEndKeepsStack ==
  /\ WriterStep
  /\ stack # <<>>
  /\ loops # <<>>
  /\ LET ended == Append(dst, 0)
         start == Last(stack)
     IN  dst' = Patch(ended, start, LE32(Len(ended) - start))
  /\ loops' = Front(loops)
  /\ events' = Append(events,
                 Event("end", Last(loops).type, <<>>, <<>>, Len(dst), Len(dst)))
  /\ UNCHANGED stack

\* object_end and array_end: the footer, then the length where it starts.
WriteEnd ==
  /\ WriterStep
  /\ stack # <<>>
  /\ LET ended == Append(dst, 0)
         start == Last(stack)
     IN  dst' = Patch(ended, start, LE32(Len(ended) - start))
  /\ stack' = Front(stack)
  /\ loops' = Front(loops)
  /\ events' = Append(events,
                 Event("end", Last(loops).type, <<>>, <<>>, Len(dst), Len(dst)))

-----------------------------------------------------------------------------
(* Reading. *)

\* The document reaches the reader, whole or cut short.
Deliver ==
  /\ phase = "write"
  /\ events # <<>> /\ stack = <<>>
  /\ \E size \in 0 .. Len(dst) : data' = SubSeq(dst, 1, size)
  /\ phase' = "sent"
  /\ UNCHANGED <<writer, i, depth, cursor, got, lost>>

Size == Len(data)

HasInt32(p) == p < Size - 3

\* The position after the cstring at p; beyond Size there is no NUL.
AfterCString(p) ==
  CHOOSE e \in p + 1 .. Size + 1 :
    /\ e <= Size => data[e] = 0
    /\ \A k \in p + 1 .. e - 1 : data[k] # 0

\* Mutant of AfterSkip: the four bytes of the length are taken off twice.
AfterSkipBackwards(type, p) ==
  CASE type \in {String, Object, Array, Binary, JsScope, Javascript} ->
         p + Read32(data, p) - 4
    [] type = RegEx -> AfterCString(AfterCString(p))
    [] type = Boolean -> p + 1
    [] type = Int32 -> p + 4
    [] type \in {Int64, Double, UTC, Timestamp} -> p + 8
    [] type = ObjectId -> p + 12
    [] OTHER -> p

\* The position after skip() of a value of this type at p.
AfterSkip(type, p) ==
  CASE type \in {String, Object, Array, Binary, JsScope, Javascript} ->
         p + 4 + (Read32(data, p) - 4)
    [] type = RegEx -> AfterCString(AfterCString(p))
    [] type = Boolean -> p + 1
    [] type = Int32 -> p + 4
    [] type \in {Int64, Double, UTC, Timestamp} -> p + 8
    [] type = ObjectId -> p + 12
    [] OTHER -> p

\* skip() throws for a length or a cstring that is cut off.
CanSkip(type, p) ==
  /\ type \in {String, Object, Array, Binary, JsScope, Javascript} => HasInt32(p)
  /\ type = RegEx => p < Size /\ AfterCString(p) < Size
                              /\ AfterCString(AfterCString(p)) <= Size

\* The position after get() or item() of a value of this type at p.
AfterGet(type, p) ==
  CASE type = String -> p + 4 + Read32(data, p)
    [] type = Binary -> p + 4 + 1 + Read32(data, p)
    [] OTHER -> AfterSkip(type, p)

\* get() throws when the value is not all there or its length makes no sense.
CanGet(type, p) ==
  CASE type = String ->
         HasInt32(p) /\ Read32(data, p) > 0 /\ AfterGet(String, p) <= Size
    [] type = Binary ->
         /\ HasInt32(p) /\ Read32(data, p) >= 0
         /\ p + 4 + Read32(data, p) < Size
         /\ data[p + 5] = 0
    [] type \in {Boolean, Int32, Int64, Double} -> AfterSkip(type, p) <= Size
    [] OTHER -> CanSkip(type, p)

\* What get() or item() returns: the tree's type and its bytes.  Unsupported
\* types give an empty tree, which is an Object.
Value(type, p) ==
  LET bytes == SubSeq(data, p + 1, AfterGet(type, p))
  IN  CASE type = String ->
             [type |-> String, value |-> SubSeq(bytes, 5, Len(bytes) - 1)]
        [] type = Binary ->
             [type |-> Binary, value |-> SubSeq(bytes, 6, Len(bytes))]
        [] type = Int32  -> [type |-> Integer, value |-> Widen(bytes)]
        [] type = Int64  -> [type |-> Integer, value |-> bytes]
        [] type \in {Double, Boolean} -> [type |-> type, value |-> bytes]
        [] type = Null -> [type |-> Null, value |-> <<>>]
        [] OTHER -> [type |-> Object, value |-> <<>>]

\* Mutant of DocumentFits: the length is not compared with the data.
DocumentFitsAlways(p) == HasInt32(p)

\* Mutant of DocumentFits: a document may not end where the data does.
DocumentFitsStrictly(p) == HasInt32(p) /\ p + Read32(data, p) < Size

\* object_start and array_start at p: the document must fit into the data.
DocumentFits(p) == HasInt32(p) /\ p + Read32(data, p) <= Size

\* Where the document that starts with event k ends: the next event at its
\* level that is an end.  An item is its own end.
EndOf(k) ==
  IF events[k].kind = "item" THEN k
  ELSE CHOOSE e \in k + 1 .. Len(events) :
         /\ events[e].kind = "end" /\ events[e].depth = events[k].depth + 1
         /\ \A m \in k + 1 .. e - 1 : events[m].depth > events[k].depth + 1
                                        \/ events[m].kind # "end"

\* decode at the top level: object() of an entity, a map or a tree.
ReadTop ==
  /\ phase = "sent"
  /\ DocumentFits(0)
  /\ phase' = "read"
  /\ i' = 4
  /\ depth' = 1
  /\ cursor' = 2
  /\ UNCHANGED <<writer, data, got, lost>>

\* decode of a vector that was encoded: array_start is false for the type -1
\* of a top-level document, and skip() of that type does nothing.
ReadTopArray ==
  /\ phase = "sent"
  /\ events[1].type = Array
  /\ phase' = "ignored"
  /\ UNCHANGED <<writer, reader>>

(***************************************************************************)
(* One round of a reader's loop: item() or array_item() reads a type and a *)
(* name, then the value is taken, entered or skipped.                      *)
(***************************************************************************)
Type    == data[i + 1]
ValueAt == AfterCString(i + 1)
InData  == phase = "read" /\ 0 <= i /\ i < Size
AtEnd   == InData /\ Type = 0
AtItem  == InData /\ Type # 0 /\ ValueAt <= Size

ReadEnd ==
  /\ AtEnd
  /\ i' = i + 1
  /\ depth' = depth - 1
  /\ phase' = IF depth = 1 THEN "done" ELSE "read"
  /\ cursor' = cursor + 1
  /\ got' = <<>>
  /\ UNCHANGED <<writer, data, lost>>

\* skip() moves by the length less four, as item() does over a type that is not
\* supported, but only the lengths of documents count their own four bytes.
Mismeasured == {String, Binary, Javascript}

\* The value has the type that is asked for, or any type can be taken.
TakeValue ==
  /\ AtItem
  /\ Type \notin {Object, Array}
  /\ CanGet(Type, ValueAt)
  /\ i' = AfterGet(Type, ValueAt)
  /\ got' = [name  |-> SubSeq(data, i + 2, ValueAt - 1),
             value |-> Value(Type, ValueAt)]
  /\ lost' = (lost \/ Type = Javascript)
  /\ cursor' = cursor + 1
  /\ UNCHANGED <<phase, writer, data, depth>>

TakeDocument ==
  /\ AtItem
  /\ Type \in {Object, Array}
  /\ DocumentFits(ValueAt)
  /\ i' = ValueAt + 4
  /\ depth' = depth + 1
  /\ cursor' = cursor + 1
  /\ got' = <<>>
  /\ UNCHANGED <<phase, writer, data, lost>>

\* The entity has no such member, or one of another type.
SkipValue ==
  /\ AtItem
  /\ CanSkip(Type, ValueAt)
  /\ i' = AfterSkip(Type, ValueAt)
  /\ lost' = (lost \/ Type \in Mismeasured)
  /\ cursor' = IF lost' THEN cursor ELSE EndOf(cursor) + 1
  /\ got' = <<>>
  /\ UNCHANGED <<phase, writer, data, depth>>

\* error() throws, and decode is left with what it has read so far.  A reader
\* that has lost its place may come to a negative length and go back by it, to a
\* position before the data (i is an int): what the code reads there is undefined,
\* and the model ends as well.
ReadError ==
  /\ \/ phase = "sent" /\ ~ DocumentFits(0)
     \/ phase = "read" /\ ~ AtEnd /\ ~ AtItem
     \/ AtItem /\ Type \notin {Object, Array} /\ ~ CanGet(Type, ValueAt)
     \/ AtItem /\ Type \in {Object, Array} /\ ~ DocumentFits(ValueAt)
     \/ AtItem /\ ~ CanSkip(Type, ValueAt)
  /\ phase' = "error"
  /\ UNCHANGED <<writer, reader>>

-----------------------------------------------------------------------------
Init ==
  /\ phase = "write"
  /\ dst = <<>> /\ stack = <<>> /\ loops = <<>> /\ events = <<>>
  /\ data = <<>> /\ i = 0 /\ depth = 0
  /\ cursor = 1 /\ got = <<>> /\ lost = FALSE

Next ==
  \/ WriteTop \/ WriteDocument \/ WriteItem \/ WriteEnd
  \/ Deliver
  \/ ReadTop \/ ReadTopArray
  \/ ReadEnd \/ TakeValue \/ TakeDocument \/ SkipValue
  \/ ReadError

Spec == Init /\ [][Next]_vars

-----------------------------------------------------------------------------
(* Properties. *)

\* Everything written is bytes, and each open document has its place.
TypeOK ==
  /\ phase \in {"write", "sent", "read", "done", "ignored", "error"}
  /\ dst \in Seq(Byte) /\ data \in Seq(Byte)
  /\ Len(stack) = Len(loops)
  /\ \A k \in DOMAIN stack : stack[k] \in 0 .. Len(dst) - 4
  /\ i \in Int /\ depth \in Nat /\ cursor \in Nat /\ lost \in BOOLEAN

(***************************************************************************)
(* Back-patching works at every depth (bson.hpp:44-53, 70-79): at any      *)
(* moment the length of a document that has been closed is the distance    *)
(* from its first byte to its footer, whatever was written before, inside  *)
(* and after it, and the length of an open document is still blank.        *)
(***************************************************************************)
LengthsPatched ==
  \A k \in DOMAIN events :
    events[k].kind = "start" =>
      LET start == events[k].start
          ends  == {e \in k + 1 .. Len(events) :
                      /\ events[e].kind = "end"
                      /\ events[e].depth = events[k].depth + 1}
      IN  Read32(dst, start) =
            IF ends = {} THEN 0 ELSE events[EndOf(k)].at + 1 - start

\* What a reader must be given for an item that was written: an unsupported
\* type comes out as an empty tree, an Object.
Promised(e) ==
  [name  |-> e.name,
   value |-> IF e.type \in Foreign
             THEN [type |-> Object, value |-> <<>>]
             ELSE [type |-> e.type, value |-> e.value]]

(***************************************************************************)
(* The reader stays in step with the writer: before each round it is at    *)
(* the first byte of the very item that comes next, whichever values it    *)
(* has taken and whichever it has skipped, what it takes is what was       *)
(* written (name, type and value, a 64-bit integer also when it was        *)
(* narrowed), and at the end nothing is left (bson.hpp:142-294,            *)
(* codec.hpp:128-165).  Only values that skip() mismeasures are excepted.  *)
(***************************************************************************)
InStep ==
  ~ lost =>
    /\ phase = "read" => i = events[cursor].at
    /\ phase = "done" => cursor = Len(events) + 1 /\ i = Size
    /\ got # <<>> => got = Promised(events[cursor - 1])

\* A document that arrives whole is read without an error.
NoFalseError == phase = "error" => lost \/ Len(data) < Len(dst)

(***************************************************************************)
(* Every round brings the reader nearer to the end as long as skip() has   *)
(* not lost the place, the round that loses it included: no loop of decode *)
(* goes on for ever over a document that it reads in step.                 *)
(***************************************************************************)
ReaderAdvances ==
  [][phase = "read" /\ phase' = "read" /\ ~ lost => i' > i]_vars

(***************************************************************************)
(* What vref/entity.hpp:44-56 means to do and entity.cpp:303 tests for     *)
(* JSON, "an entity can be decoded from JSON containing unused             *)
(* information": values the entity has no member for do not disturb the    *)
(* others.  With BSON they do.                                             *)
(***************************************************************************)
SkipIsHarmless ==
  phase = "read" =>
    \/ \E k \in DOMAIN events : i = events[k].at
    \/ Len(data) < Len(dst)

\* The text as the loops see it.  skip() makes strings, binary values and code
\* fragile, and a top-level array is.
TokenOf(e) ==
  [kind |-> e.kind, name |-> e.name,
   value |-> IF e.kind = "item" THEN Promised(e).value ELSE <<>>,
   fragile |-> e.type \in Mismeasured \/ (e.type = Array /\ e.at = 0)]

Tokens ==
  {[kind |-> kind, name |-> name, value |-> value, fragile |-> fragile] :
     kind \in {"start", "item", "end"},
     name \in Names \union {<<>>} \union {IndexName(k) : k \in 0 .. MaxValues},
     value \in {Promised([type |-> v.type, name |-> <<>>, value |-> v.value]).value :
                  v \in Scalars} \union {<<>>},
     fragile \in BOOLEAN}

Contract ==
  INSTANCE CodecContract WITH
    stage   <- CASE lost \/ phase = "ignored" -> "lost"
                 [] ~ lost /\ phase = "error" -> "failed"
                 [] OTHER -> phase,
    written <- [k \in DOMAIN events |-> TokenOf(events[k])],
    intact  <- Len(data) = Len(dst) \/ phase = "write",
    passed  <- IF lost THEN 0 ELSE cursor - 1,
    given   <- IF lost THEN <<>> ELSE got

(***************************************************************************)
(* The codec keeps the contract of codec.hpp: whatever is taken, entered   *)
(* or skipped, the loops are given the tokens that were written, in their  *)
(* order and with the values that went in, and only what was cut short is  *)
(* refused, before anything is read.                                       *)
(***************************************************************************)
KeepsContract == Contract!Spec

(***************************************************************************)
(* What changelog:84 says of 1.1.4, "Top-level arrays now supported in     *)
(* BSON": a vector that was encoded can be decoded.  The code ignores it.  *)
(***************************************************************************)
TopLevelArraysSupported == phase # "ignored"
=============================================================================
