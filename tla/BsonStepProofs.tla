--------------------------- MODULE BsonStepProofs ---------------------------
(***************************************************************************)
(* The steps of BsonCodec's reader keep the invariant, and what follows    *)
(* for every behaviour.                                                    *)
(***************************************************************************)
EXTENDS BsonCodecProofs

-----------------------------------------------------------------------------
(* What every step of the reader keeps. *)

\* What was written stays as it is.
LEMMA WriterSame ==
  ASSUME Layout, Levels, Brackets, UNCHANGED writer
  PROVE  Layout' /\ Levels' /\ Brackets' /\ (Regular' <=> Regular)
<1>1. dst' = dst /\ stack' = stack /\ loops' = loops /\ events' = events
  BY DEF writer
<1>2. Layout'
  BY <1>1, Zenon DEF Layout, Placed, Holds
<1>3. Levels'
  BY <1>1, Zenon DEF Levels, Deeper
<1>4. Brackets'
  <2>1. \A k, s : OpenAt(k, s)' <=> OpenAt(k, s)
    BY <1>1, Zenon DEF OpenAt
  <2>2. \A k, e : Closes(k, e)' <=> Closes(k, e)
    BY <1>1, Zenon DEF Closes
  <2>3. \A s : Opened(s)' <=> Opened(s)
    BY <1>1, <2>1, Zenon DEF Opened
  <2>4. \A k : StillOpen(k)' <=> StillOpen(k)
    BY <1>1, <2>1, Zenon DEF StillOpen
  <2>5. \A k : Closed(k)' <=> Closed(k)
    BY <1>1, <2>2, Zenon DEF Closed
  <2>6. QED
    BY <1>1, <2>3, <2>4, <2>5, Zenon DEF Brackets
<1>5. Regular' <=> Regular
  BY <1>1, Zenon DEF Regular
<1>6. QED
  BY <1>2, <1>3, <1>4, <1>5

LEMMA StepKeeps ==
  ASSUME IInv, UNCHANGED writer, data' \in Seq(Byte), i' \in Int,
         lost' \in BOOLEAN, depth' \in Nat,
         phase' \in {"write", "sent", "read", "done", "ignored", "error"},
         phase' = "read" => depth' >= 1, Reader'
  PROVE  IInv'
<1>1. dst' = dst /\ stack' = stack /\ loops' = loops /\ events' = events
  BY DEF writer
<1>2. Types'
  BY <1>1, Zenon DEF IInv, Types
<1>3. QED
  BY <1>2, WriterSame, Zenon DEF IInv

-----------------------------------------------------------------------------
(* Where a reader that has its place is. *)

\* Its place is that of the next event of the whole document.
LEMMA Reading ==
  ASSUME IInv, Regular, ~ lost, phase = "read"
  PROVE  /\ data = dst /\ stack = <<>> /\ Size <= MaxInt32
         /\ data \in Seq(Byte) /\ Size = Len(dst) /\ Size \in Nat
         /\ cursor \in DOMAIN events /\ cursor \in Nat /\ cursor >= 2
         /\ Len(events) \in Nat /\ DOMAIN events = 1 .. Len(events)
         /\ i = events[cursor].at /\ depth = events[cursor].depth
         /\ depth >= 1 /\ depth \in Nat
         /\ events[cursor].kind \in {"start", "item", "end"}
         /\ events[cursor].kind = "start" => events[cursor].name # <<>>
<1>1. /\ data = dst /\ stack = <<>> /\ cursor \in 2 .. Len(events)
      /\ i = events[cursor].at /\ depth = events[cursor].depth
  BY Zenon DEF IInv, Reader
<1>2. events \in Seq(EventSet) /\ data \in Seq(Byte) /\ depth >= 1
      /\ depth \in Nat
  BY DEF IInv, Types
<1>3. /\ cursor \in DOMAIN events /\ cursor \in Nat /\ cursor >= 2
      /\ Len(events) \in Nat /\ DOMAIN events = 1 .. Len(events)
      /\ events[cursor] \in EventSet
  BY <1>1, <1>2
<1>4. Size = Len(dst) /\ Size \in Nat
  BY <1>1, <1>2 DEF Size
<1>5. Size <= MaxInt32
  BY <1>4, Zenon DEF Regular
<1>6. events[cursor].kind = "start" => events[cursor].name # <<>>
  <2>1. cursor > 1
    BY <1>3
  <2>2. QED
    BY <1>3, <2>1, Zenon DEF Regular
<1>7. events[cursor].kind \in {"start", "item", "end"}
  BY <1>3 DEF EventSet
<1>8. QED
  BY <1>1, <1>2, <1>3, <1>4, <1>5, <1>6, <1>7, Zenon

\* At an item, it finds what was written.
LEMMA AtAnItem ==
  ASSUME IInv, Regular, ~ lost, phase = "read", events[cursor].kind = "item"
  PROVE  /\ AtItem /\ ~ AtEnd /\ Type \notin {Object, Array} /\ Type # 0
         /\ ValueAt \in Nat /\ ValueAt > i
         /\ CanGet(Type, ValueAt) /\ CanSkip(Type, ValueAt)
         /\ Type \notin Mismeasured =>
              AfterSkip(Type, ValueAt) = Stop(events[cursor])
         /\ AfterSkip(Type, ValueAt) >= ValueAt
         /\ Type # Javascript =>
              /\ AfterGet(Type, ValueAt) = Stop(events[cursor])
              /\ [name  |-> SubSeq(data, i + 2, ValueAt - 1),
                  value |-> Value(Type, ValueAt)] = Promised(events[cursor])
         /\ Type = Javascript => AfterGet(Type, ValueAt) >= ValueAt
<1>1. /\ data = dst /\ data \in Seq(Byte) /\ Size <= MaxInt32
      /\ Size = Len(dst) /\ Size \in Nat
      /\ cursor \in DOMAIN events /\ i = events[cursor].at
  BY Reading, Zenon
<1>2. /\ Type = WireType(events[cursor]) /\ 0 <= i /\ i < Size
      /\ ValueAt \in Nat /\ ValueAt <= Size
      /\ SubSeq(data, i + 2, ValueAt - 1) = events[cursor].name
      /\ IsScalar(events[cursor])
      /\ ValueAt + Len(Payload(events[cursor])) = Stop(events[cursor])
      /\ \A q \in 1 .. Len(Payload(events[cursor])) :
           data[ValueAt + q] = Payload(events[cursor])[q]
  BY <1>1, ItemFound, Zenon
<1>3. There(events[cursor], ValueAt)
  <2>1. Stop(events[cursor]) <= Size
    BY <1>1, EventIs, Zenon
  <2>2. QED
    BY <1>2, <2>1, Zenon DEF There
<1>4. /\ CanGet(Type, ValueAt) /\ Skipped(events[cursor], ValueAt)
      /\ Type # Javascript => Taken(events[cursor], ValueAt)
      /\ AfterSkip(Type, ValueAt) >= ValueAt
  BY <1>1, <1>2, <1>3, ScalarRead, Zenon
<1>5. Type \notin {Object, Array} /\ Type # 0
  <2>1. Type \in 1 .. 255 /\ Type \notin {Object, Array}
    BY <1>2, WireTypeIs, Zenon
  <2>2. QED
    BY <2>1, Sums, Zenon
<1>6. AtItem /\ ~ AtEnd
  BY <1>2, <1>5, Zenon DEF AtItem, AtEnd, InData
<1>7. ValueAt > i
  <2>1. PICK a \in Nat, z \in Nat : a = i /\ z = Size /\ a + 1 <= z
    <3>1. i \in Nat
      BY <1>1, EventIs
    <3>2. i + 1 <= Size
      BY <1>1, <1>2, <3>1
    <3>3. QED
      BY <1>1, <3>1, <3>2
  <2>2. a + 1 \in Nat /\ a + 1 <= Size
    BY <2>1
  <2>3. ValueAt \in (a + 1) + 1 .. Size + 1
    BY <1>1, <2>1, <2>2, CStringEnds, Zenon DEF ValueAt
  <2>4. QED
    BY <1>1, <1>2, <2>1, <2>3
<1>8. /\ Type \notin Mismeasured =>
           AfterSkip(Type, ValueAt) = Stop(events[cursor])
      /\ CanSkip(Type, ValueAt)
  BY <1>2, <1>4, Zenon DEF Skipped
<1>9. ASSUME Type # Javascript
      PROVE  /\ AfterGet(Type, ValueAt) = Stop(events[cursor])
             /\ [name  |-> SubSeq(data, i + 2, ValueAt - 1),
                 value |-> Value(Type, ValueAt)] = Promised(events[cursor])
  <2>1. /\ AfterGet(Type, ValueAt) = Stop(events[cursor])
        /\ Value(Type, ValueAt) = Promised(events[cursor]).value
    BY <1>2, <1>4, <1>9, Zenon DEF Taken
  <2>2. Promised(events[cursor]) =
          [name  |-> events[cursor].name,
           value |-> Promised(events[cursor]).value]
    BY DEF Promised
  <2>3. QED
    BY <1>2, <2>1, <2>2, Zenon
<1>10. Type = Javascript => AfterGet(Type, ValueAt) >= ValueAt
  <2>1. Javascript \notin {String, Binary}
    BY DEF Javascript, String, Binary
  <2>2. Type = Javascript => AfterGet(Type, ValueAt) = AfterSkip(Type, ValueAt)
    BY <2>1, AfterGetOf, Zenon
  <2>3. QED
    BY <1>4, <2>2, Zenon
<1>11. QED
  BY <1>2, <1>4, <1>5, <1>6, <1>7, <1>8, <1>9, <1>10, Zenon

\* At a document, it finds its type, where it starts and where it ends.
LEMMA AtADocument ==
  ASSUME IInv, Regular, ~ lost, phase = "read", events[cursor].kind = "start"
  PROVE  /\ AtItem /\ ~ AtEnd /\ Type \in {Object, Array} /\ Type # 0
         /\ ValueAt + 4 = Stop(events[cursor])
         /\ DocumentFits(ValueAt) /\ CanSkip(Type, ValueAt)
         /\ \E x \in DOMAIN events :
              /\ EndOf(cursor) = x /\ x > cursor
              /\ After(events[x]) = depth
              /\ AfterSkip(Type, ValueAt) = Stop(events[x])
<1>1. /\ data = dst /\ stack = <<>> /\ Size = Len(dst) /\ Size \in Nat
      /\ cursor \in DOMAIN events /\ cursor \in Nat /\ i = events[cursor].at
      /\ events[cursor].name # <<>> /\ depth = events[cursor].depth
      /\ Len(events) \in Nat
  BY Reading, Zenon
<1>2. /\ Type = events[cursor].type /\ Type \in {Object, Array}
      /\ 0 <= i /\ i < Size
      /\ ValueAt = events[cursor].start /\ ValueAt + 4 = Stop(events[cursor])
      /\ ValueAt \in Nat /\ ValueAt <= Size
  BY <1>1, StartFound, Zenon
<1>3. PICK x \in DOMAIN events :
        /\ x \in cursor + 1 .. Len(events) /\ Closes(cursor, x)
        /\ After(events[x]) = depth
        /\ Read32(data, ValueAt) = Stop(events[x]) - ValueAt
  BY <1>1, <1>2, DocumentEnds, Zenon
<1>4. EndOf(cursor) = x /\ x > cursor
  <2>1. EndOf(cursor) = x
    BY <1>1, <1>3, EndOfIs, Zenon
  <2>2. QED
    BY <1>1, <1>3, <2>1
<1>5. PICK a \in Nat, s \in Nat, t \in Nat, z \in Nat :
        /\ a = ValueAt /\ s = Stop(events[x]) /\ t = Stop(events[cursor])
        /\ z = Size /\ s <= z /\ t <= z
  BY <1>1, <1>2, EventIs, Zenon
<1>6. a + 4 <= z /\ a < z - 3 /\ a + (s - a) <= z /\ a + 4 + ((s - a) - 4) = s
  <2>1. a + 4 = t
    BY <1>2, <1>5, Zenon
  <2>2. QED
    BY <1>5, <2>1
<1>7. HasInt32(ValueAt) /\ DocumentFits(ValueAt)
  BY <1>3, <1>5, <1>6, Zenon DEF HasInt32, DocumentFits
<1>8. AfterSkip(Type, ValueAt) = Stop(events[x])
  <2>1. AfterSkip(Type, ValueAt) = ValueAt + 4 + (Read32(data, ValueAt) - 4)
    BY <1>2, AfterSkipOf, ZenonT(60)
  <2>2. QED
    BY <1>3, <1>5, <1>6, <2>1, Zenon
<1>9. CanSkip(Type, ValueAt) /\ Type # 0
  BY <1>2, <1>7 DEF CanSkip, Object, Array, RegEx
<1>10. AtItem /\ ~ AtEnd
  BY <1>2, <1>9, Zenon DEF AtItem, AtEnd, InData
<1>11. QED
  BY <1>2, <1>3, <1>4, <1>7, <1>8, <1>9, <1>10, Zenon

\* At an end, it finds it.
LEMMA AtAnEnd ==
  ASSUME IInv, Regular, ~ lost, phase = "read", events[cursor].kind = "end"
  PROVE  AtEnd /\ ~ AtItem /\ Type = 0 /\ Stop(events[cursor]) = i + 1
<1>1. data = dst /\ cursor \in DOMAIN events /\ i = events[cursor].at
  BY Reading, Zenon
<1>2. Type = 0 /\ 0 <= i /\ i < Size /\ Stop(events[cursor]) = i + 1
  BY <1>1, EndFound, Zenon
<1>3. QED
  BY <1>2, Zenon DEF AtEnd, AtItem, InData

\* Wherever a value is, and wherever it ends, is a number.
LEMMA Positions ==
  ASSUME Types, AtItem
  PROVE  /\ ValueAt \in Nat
         /\ CanSkip(Type, ValueAt) => AfterSkip(Type, ValueAt) \in Int
         /\ CanGet(Type, ValueAt) => AfterGet(Type, ValueAt) \in Int
<1>1. PICK z \in Nat : z = Size /\ z = Len(data)
  BY DEF Types, Size
<1>2. data \in Seq(Byte) /\ i \in Int /\ 0 <= i /\ i < z /\ ValueAt <= z
  BY <1>1 DEF Types, AtItem, InData
<1>3. ValueAt \in Nat
  <2>1. i + 1 \in Nat /\ i + 1 <= Size
    BY <1>1, <1>2
  <2>2. ValueAt \in (i + 1) + 1 .. Size + 1
    BY <1>2, <2>1, CStringEnds, Zenon DEF ValueAt
  <2>3. QED
    BY <1>1, <2>1, <2>2
<1>4. PICK p \in Nat : p = ValueAt
  BY <1>3
<1>5. ASSUME HasInt32(p)
      PROVE  Read32(data, p) \in Int
  <2>1. p + 4 <= Len(data)
    BY <1>1, <1>5 DEF HasInt32
  <2>2. QED
    BY <1>2, <2>1, Read32IsInt, Zenon
<1>6. ASSUME NEW type, CanSkip(type, p)
      PROVE  AfterSkip(type, p) \in Int
  <2>1. CASE type \in {String, Object, Array, Binary, JsScope, Javascript}
    <3>1. AfterSkip(type, p) = p + 4 + (Read32(data, p) - 4)
      BY <2>1, AfterSkipOf, Zenon
    <3>2. HasInt32(p)
      BY <1>6, <2>1, Zenon DEF CanSkip
    <3>3. PICK n \in Int : n = Read32(data, p)
      BY <1>5, <3>2
    <3>4. p + 4 + (n - 4) \in Int
      OBVIOUS
    <3>5. QED
      BY <3>1, <3>3, <3>4, Zenon
  <2>2. CASE type = RegEx
    <3>1. p < Size /\ AfterCString(p) < Size
      BY <1>6, <2>2, Zenon DEF CanSkip
    <3>2. AfterCString(p) \in p + 1 .. Size + 1
      BY <1>1, <1>2, <3>1, CStringEnds
    <3>3. PICK m \in Nat : m = AfterCString(p) /\ m <= Size
      BY <1>1, <3>1, <3>2
    <3>4. AfterCString(m) \in m + 1 .. Size + 1
      BY <1>2, <3>3, CStringEnds, Zenon
    <3>5. AfterCString(m) \in Int
      BY <1>1, <3>3, <3>4
    <3>6. AfterSkip(type, p) = AfterCString(AfterCString(p))
      BY <2>2, AfterSkipOf, Zenon
    <3>7. QED
      BY <3>3, <3>5, <3>6, Zenon
  <2>3. CASE type \notin {String, Object, Array, Binary, JsScope, Javascript,
                          RegEx}
    <3>1. AfterSkip(type, p) \in {p, p + 1, p + 4, p + 8, p + 12}
      BY <2>3 DEF AfterSkip
    <3>2. QED
      BY <3>1
  <2>4. QED
    BY <2>1, <2>2, <2>3
<1>7. ASSUME NEW type, CanGet(type, p)
      PROVE  AfterGet(type, p) \in Int
  <2>1. CASE type \in {String, Binary}
    <3>1. HasInt32(p)
      BY <1>7, <2>1, CanGetOf, Zenon
    <3>2. PICK n \in Int : n = Read32(data, p)
      BY <1>5, <3>1
    <3>3. AfterGet(type, p) \in {p + 4 + n, p + 4 + 1 + n}
      BY <2>1, <3>2, AfterGetOf, Zenon
    <3>4. QED
      BY <3>3
  <2>2. CASE type \notin {String, Binary}
    <3>1. AfterGet(type, p) = AfterSkip(type, p)
      BY <2>2, AfterGetOf, Zenon
    <3>2. CASE type \in {Boolean, Int32, Int64, Double}
      <4>1. AfterSkip(type, p) \in {p + 1, p + 4, p + 8}
        BY <3>2, AfterSkipOf, Zenon
      <4>2. QED
        BY <3>1, <4>1
    <3>3. CASE type \notin {Boolean, Int32, Int64, Double}
      <4>1. CanSkip(type, p)
        BY <1>7, <2>2, <3>3, CanGetOf, Zenon
      <4>2. QED
        BY <1>6, <3>1, <4>1, Zenon
    <3>4. QED
      BY <3>2, <3>3
  <2>3. QED
    BY <2>1, <2>2
<1>8. QED
  BY <1>4, <1>6, <1>7, Zenon


-----------------------------------------------------------------------------
(* The steps. *)

\* What reaches the reader is the document or a part of it from its start.
LEMMA DeliverKeeps ==
  ASSUME IInv, Deliver
  PROVE  IInv'
<1>1. PICK n \in Nat : n = Len(dst)
  BY DEF IInv, Types
<1>2. /\ phase = "write" /\ phase' = "sent" /\ events # <<>> /\ stack = <<>>
      /\ UNCHANGED writer /\ i' = i /\ depth' = depth /\ lost' = lost
      /\ got' = got /\ cursor' = cursor
      /\ \E size \in 0 .. n : data' = SubSeq(dst, 1, size)
  BY <1>1, Zenon DEF Deliver
<1>3. dst' = dst /\ stack' = stack /\ events' = events
  BY <1>2 DEF writer
<1>4. data' \in Seq(Byte)
  <2>1. dst \in Seq(Byte)
    BY DEF IInv, Types
  <2>2. \A size \in 0 .. n : SubSeq(dst, 1, size) \in Seq(Byte)
    BY <1>1, <2>1
  <2>3. QED
    BY <1>2, <2>2, Zenon
<1>5. got = <<>> /\ ~ lost /\ cursor = 1
  BY <1>2, Zenon DEF IInv, Reader
<1>6. Reader'
  <2>1. cursor' \in Nat
    BY <1>2, <1>5
  <2>2. phase' \notin {"write", "read", "done", "error"} /\ phase' = "sent"
    BY <1>2
  <2>3. QED
    BY <1>1, <1>2, <1>3, <1>5, <2>1, <2>2, Zenon DEF Reader
<1>7. /\ i' \in Int /\ lost' \in BOOLEAN /\ depth' \in Nat
      /\ phase' \in {"write", "sent", "read", "done", "ignored", "error"}
      /\ phase' # "read"
  BY <1>2 DEF IInv, Types
<1>8. QED
  BY <1>2, <1>4, <1>6, <1>7, StepKeeps, Zenon

\* The length of the whole document lets the whole document in, and no less.
LEMMA Whole ==
  ASSUME IInv, Regular, phase = "sent"
  PROVE  /\ DocumentFits(0) => data = dst
         /\ ~ DocumentFits(0) => Len(data) < Len(dst)
         /\ 2 \in 2 .. Len(events)
         /\ events[2].at = 4 /\ events[2].depth = 1
<1>1. /\ events # <<>> /\ stack = <<>>
      /\ \E size \in 0 .. Len(dst) : data = SubSeq(dst, 1, size)
  BY Zenon DEF IInv, Reader
<1>2. events \in Seq(EventSet) /\ dst \in Seq(Byte) /\ Len(dst) \in Nat
  BY DEF IInv, Types
<1>3. 1 \in DOMAIN events
  BY <1>1, <1>2
<1>4. /\ events[1].kind = "start" /\ events[1].name = <<>>
      /\ events[1].depth = 0 /\ events[1].at = 0
  BY <1>1, Zenon DEF IInv, Levels, Layout
<1>5. Code(events[1]) = <<>>
  BY <1>4 DEF Code
<1>6. events[1].start = 0 /\ Stop(events[1]) = 4 /\ After(events[1]) = 1
  <2>1. EventOK(events[1])
    BY <1>3, EventIs, Zenon
  <2>2. QED
    BY <1>4, <1>5, <2>1 DEF EventOK, Stop, After
<1>7. PICK x \in DOMAIN events :
        /\ After(events[x]) = 0
        /\ Read32(dst, 0) = Stop(events[x]) - 0
  BY <1>1, <1>3, <1>4, <1>6, DocumentEnds, Zenon
<1>8. Stop(events[x]) = Len(dst)
  BY <1>1, <1>7, NextEvent, Zenon
<1>9. Read32(dst, 0) = Len(dst)
  <2>1. Len(dst) - 0 = Len(dst)
    BY <1>2
  <2>2. QED
    BY <1>7, <1>8, <2>1, Zenon
<1>10. 1 + 1 \in DOMAIN events /\ events[2].at = 4 /\ events[2].depth = 1
  <2>1. 1 + 1 = 2 /\ 1 >= 1
    OBVIOUS
  <2>2. QED
    BY <1>1, <1>3, <1>6, <2>1, NextEvent, Zenon
<1>11. 2 \in 2 .. Len(events)
  BY <1>2, <1>10
<1>n. PICK n \in Nat : n = Len(dst)
  BY <1>2
<1>s. PICK size \in 0 .. n : data = SubSeq(dst, 1, size)
  BY <1>1, <1>n, Zenon
<1>12. n = Len(dst) /\ data = SubSeq(dst, 1, size)
  BY <1>n, <1>s
<1>13. /\ data \in Seq(Byte) /\ Len(data) = size
       /\ \A q \in 1 .. size : data[q] = dst[q]
  BY <1>2, <1>12
<1>14. size = n => data = dst
  <2>1. ASSUME size = n
        PROVE  data = dst
    <3>1. Len(data) = Len(dst) /\ \A q \in 1 .. Len(data) : data[q] = dst[q]
      BY <1>12, <1>13, <2>1, Zenon
    <3>2. QED
      BY <1>2, <1>13, <3>1, SeqEqual, Zenon
  <2>2. QED
    BY <2>1
<1>15. Size = size
  BY <1>13 DEF Size
<1>16. ASSUME size >= 4
       PROVE  Read32(data, 0) = n
  <2>1. \A q \in 1 .. 4 : data[0 + q] = dst[0 + q]
    BY <1>12, <1>13, <1>16
  <2>2. Read32(data, 0) = Read32(dst, 0)
    <3>1. 0 \in Nat
      OBVIOUS
    <3>2. QED
      BY <2>1, <3>1, Read32Same, Zenon
  <2>3. QED
    BY <1>9, <1>12, <2>2, Zenon
<1>17. ASSUME DocumentFits(0)
       PROVE  data = dst
  <2>1. 0 < size - 3 /\ 0 + Read32(data, 0) <= size
    BY <1>15, <1>17, Zenon DEF DocumentFits, HasInt32
  <2>2. size >= 4
    BY <2>1
  <2>3. 0 + n <= size
    BY <1>16, <2>1, <2>2, Zenon
  <2>4. size = n
    BY <2>3
  <2>5. QED
    BY <1>14, <2>4, Zenon
<1>18. ASSUME ~ DocumentFits(0)
       PROVE  Len(data) < Len(dst)
  <2>1. SUFFICES ASSUME size = n
                 PROVE  FALSE
    BY <1>12, <1>13
  <2>2. n >= 4
    <3>1. PICK t \in Nat : t = Stop(events[1]) /\ t <= Len(dst)
      BY <1>3, EventIs, Zenon
    <3>2. QED
      BY <1>6, <1>12, <3>1
  <2>3. 0 < size - 3 /\ 0 + n <= size
    BY <2>1, <2>2
  <2>4. Read32(data, 0) = n
    BY <1>16, <2>1, <2>2
  <2>5. QED
    BY <1>15, <1>18, <2>3, <2>4, Zenon DEF DocumentFits, HasInt32
<1>19. QED
  BY <1>10, <1>11, <1>17, <1>18, Zenon

LEMMA ReadTopKeeps ==
  ASSUME IInv, ReadTop
  PROVE  IInv'
<1>1. /\ phase = "sent" /\ DocumentFits(0) /\ phase' = "read" /\ i' = 4
      /\ depth' = 1 /\ cursor' = 2 /\ UNCHANGED writer /\ data' = data
      /\ got' = got /\ lost' = lost
  BY Zenon DEF ReadTop
<1>2. dst' = dst /\ stack' = stack /\ events' = events
  BY <1>1 DEF writer
<1>3. /\ events # <<>> /\ stack = <<>> /\ got = <<>> /\ ~ lost
  BY <1>1, Zenon DEF IInv, Reader
<1>4. Regular' <=> Regular
  BY <1>2, Zenon DEF Regular
<1>5. ASSUME Regular
      PROVE  /\ data = dst /\ 2 \in 2 .. Len(events)
             /\ 4 = events[2].at /\ 1 = events[2].depth
  BY <1>1, <1>5, Whole, Zenon
<1>6. Reader'
  <2>1. phase' \notin {"write", "sent", "done", "error"} /\ phase' = "read"
        /\ 2 \in Nat
    BY <1>1
  <2>2. QED
    BY <1>1, <1>2, <1>3, <1>4, <1>5, <2>1, Zenon DEF Reader
<1>7. /\ data' \in Seq(Byte) /\ i' \in Int /\ lost' \in BOOLEAN
      /\ depth' \in Nat /\ depth' >= 1
      /\ phase' \in {"write", "sent", "read", "done", "ignored", "error"}
  BY <1>1 DEF IInv, Types
<1>8. QED
  BY <1>1, <1>6, <1>7, StepKeeps, Zenon

LEMMA ReadTopArrayKeeps ==
  ASSUME IInv, ReadTopArray
  PROVE  IInv'
<1>1. /\ phase = "sent" /\ phase' = "ignored" /\ UNCHANGED writer
      /\ data' = data /\ i' = i /\ depth' = depth /\ cursor' = cursor
      /\ got' = got /\ lost' = lost
  BY Zenon DEF ReadTopArray, reader
<1>2. dst' = dst /\ stack' = stack /\ events' = events
  BY <1>1 DEF writer
<1>3. events # <<>> /\ stack = <<>> /\ got = <<>> /\ ~ lost /\ cursor = 1
  BY <1>1, Zenon DEF IInv, Reader
<1>4. Reader'
  <2>1. phase' \notin {"write", "sent", "read", "done", "error"} /\ 1 \in Nat
    BY <1>1
  <2>2. QED
    BY <1>1, <1>2, <1>3, <2>1, Zenon DEF Reader
<1>5. /\ data' \in Seq(Byte) /\ i' \in Int /\ lost' \in BOOLEAN
      /\ depth' \in Nat /\ phase' # "read"
      /\ phase' \in {"write", "sent", "read", "done", "ignored", "error"}
  BY <1>1 DEF IInv, Types
<1>6. QED
  BY <1>1, <1>4, <1>5, StepKeeps, Zenon


\* After event x the reader is where the next one is.
Behind(x) ==
  /\ x \in DOMAIN events /\ After(events[x]) >= 1
  /\ cursor' = x + 1 /\ i' = Stop(events[x]) /\ depth' = After(events[x])
  /\ got' # <<>> => x = cursor /\ got' = Promised(events[cursor])

\* A round that ends behind an event, or out of step.
LEMMA RoundKeeps ==
  ASSUME IInv, phase = "read", phase' = "read", UNCHANGED writer, data' = data,
         i' \in Int, lost' \in BOOLEAN, depth' \in Nat, depth' >= 1,
         lost => lost', Regular => cursor' \in Nat,
         Regular /\ ~ lost' => \E x : Behind(x)
  PROVE  IInv'
<1>1. dst' = dst /\ stack' = stack /\ events' = events
  BY DEF writer
<1>2. Regular' <=> Regular
  BY <1>1, Zenon DEF Regular
<1>3. events # <<>> /\ stack = <<>>
  BY Zenon DEF IInv, Reader
<1>4. ASSUME Regular, ~ lost'
      PROVE  /\ data = dst /\ cursor' \in 2 .. Len(events)
             /\ i' = events[cursor'].at /\ depth' = events[cursor'].depth
             /\ got' # <<>> => /\ cursor' - 1 \in DOMAIN events
                               /\ got' = Promised(events[cursor' - 1])
  <2>1. PICK x : Behind(x)
    BY <1>4
  <2>2. x + 1 \in DOMAIN events /\ events[x + 1].at = Stop(events[x])
        /\ events[x + 1].depth = After(events[x])
    BY <1>3, <2>1, NextEvent, Zenon DEF Behind
  <2>3. data = dst /\ Len(events) \in Nat /\ DOMAIN events = 1 .. Len(events)
    BY <1>4, Reading, Zenon
  <2>4. x + 1 \in 2 .. Len(events) /\ (x + 1) - 1 = x /\ x \in DOMAIN events
    <3>1. PICK n \in Nat : n = Len(events)
      BY <2>3, Zenon
    <3>2. x \in 1 .. n /\ x + 1 \in 1 .. n
      BY <2>1, <2>2, <2>3, <3>1, Zenon DEF Behind
    <3>3. x + 1 \in 2 .. n /\ (x + 1) - 1 = x
      BY <3>2
    <3>4. QED
      BY <2>1, <3>1, <3>3, Zenon DEF Behind
  <2>5. QED
    BY <2>1, <2>2, <2>3, <2>4, Zenon DEF Behind
<1>5. Reader'
  <2>1. phase' \notin {"write", "sent", "done", "error"}
    OBVIOUS
  <2>2. QED
    BY <1>1, <1>2, <1>3, <1>4, <2>1, Zenon DEF Reader
<1>6. data' \in Seq(Byte)
  BY DEF IInv, Types
<1>7. phase' \in {"write", "sent", "read", "done", "ignored", "error"}
  OBVIOUS
<1>8. QED
  BY <1>5, <1>6, <1>7, StepKeeps, Zenon

LEMMA ReadEndKeeps ==
  ASSUME IInv, ReadEnd
  PROVE  IInv'
<1>1. /\ AtEnd /\ phase = "read" /\ Type = 0
      /\ i' = i + 1 /\ depth' = depth - 1
      /\ phase' = (IF depth = 1 THEN "done" ELSE "read")
      /\ cursor' = cursor + 1 /\ got' = <<>>
      /\ UNCHANGED writer /\ data' = data /\ lost' = lost
  BY Zenon DEF ReadEnd, AtEnd, InData
<1>2. dst' = dst /\ stack' = stack /\ events' = events
  BY <1>1 DEF writer
<1>3. /\ depth \in Nat /\ depth >= 1 /\ i \in Int /\ lost \in BOOLEAN
      /\ data \in Seq(Byte)
  BY <1>1 DEF IInv, Types
<1>4. events # <<>> /\ stack = <<>> /\ (Regular => cursor \in Nat)
  BY <1>1, Zenon DEF IInv, Reader
<1>5. /\ i' \in Int /\ lost' \in BOOLEAN /\ depth' \in Nat
      /\ depth # 1 => depth' >= 1
      /\ Regular => cursor' \in Nat
  BY <1>1, <1>3, <1>4
<1>6. Regular' <=> Regular
  BY <1>2, Zenon DEF Regular
<1>7. ASSUME Regular, ~ lost
      PROVE  /\ cursor \in DOMAIN events /\ i' = Stop(events[cursor])
             /\ depth' = After(events[cursor]) /\ data = dst
  <2>1. events[cursor].kind = "end"
    <3>1. ~ AtItem
      BY <1>1, Zenon DEF AtItem
    <3>2. events[cursor].kind # "item" /\ events[cursor].kind # "start"
      BY <1>1, <1>7, <3>1, AtAnItem, AtADocument, Zenon
    <3>3. QED
      BY <1>1, <1>7, <3>2, Reading, Zenon
  <2>2. Stop(events[cursor]) = i + 1
    BY <1>1, <1>7, <2>1, AtAnEnd, Zenon
  <2>3. After(events[cursor]) = depth - 1
    <3>1. depth = events[cursor].depth
      BY <1>1, <1>7, Reading, Zenon
    <3>2. QED
      BY <2>1, <3>1 DEF After
  <2>4. QED
    BY <1>1, <1>7, <2>2, <2>3, Reading, Zenon
<1>8. CASE depth # 1
  <2>1. phase' = "read" /\ depth' >= 1
    BY <1>1, <1>5, <1>8
  <2>2. ASSUME Regular, ~ lost'
        PROVE  Behind(cursor)
    BY <1>1, <1>7, <2>1, <2>2, Zenon DEF Behind
  <2>3. QED
    BY <1>1, <1>5, <2>1, <2>2, RoundKeeps, Zenon
<1>9. CASE depth = 1
  <2>1. phase' = "done"
    BY <1>1, <1>9
  <2>2. ASSUME Regular, ~ lost
        PROVE  data = dst /\ cursor' = Len(events) + 1 /\ i' = Size
    <3>1. After(events[cursor]) = 0
      BY <1>1, <1>7, <1>9, <2>2
    <3>2. cursor = Len(events) /\ Stop(events[cursor]) = Len(dst)
      BY <1>4, <1>7, <2>2, <3>1, NextEvent, Zenon
    <3>3. QED
      BY <1>1, <1>7, <2>2, <3>2, Zenon DEF Size
  <2>3. Size' = Size
    BY <1>1 DEF Size
  <2>4. Reader'
    <3>1. phase' \notin {"write", "sent", "read", "error"}
      BY <2>1
    <3>2. QED
      BY <1>1, <1>2, <1>4, <1>5, <1>6, <2>1, <2>2, <2>3, <3>1, Zenon DEF Reader
  <2>5. phase' \in {"write", "sent", "read", "done", "ignored", "error"}
        /\ phase' # "read"
    BY <2>1
  <2>6. QED
    BY <1>1, <1>3, <1>5, <2>4, <2>5, StepKeeps, Zenon
<1>10. QED
  BY <1>8, <1>9

\* Before a value there is no end; the place is that of an item, or a document.
LEMMA AtWhich ==
  ASSUME IInv, Regular, ~ lost, AtItem
  PROVE  /\ Type \notin {Object, Array} => events[cursor].kind = "item"
         /\ Type \in {Object, Array} => events[cursor].kind = "start"
<1>1. phase = "read"
  BY Zenon DEF AtItem, InData
<1>2. events[cursor].kind # "end"
  BY <1>1, AtAnEnd, Zenon
<1>3. events[cursor].kind \in {"start", "item", "end"}
  BY <1>1, Reading, Zenon
<1>4. events[cursor].kind = "item" => Type \notin {Object, Array}
  BY <1>1, AtAnItem, Zenon
<1>5. events[cursor].kind = "start" => Type \in {Object, Array}
  BY <1>1, AtADocument, Zenon
<1>6. QED
  BY <1>2, <1>3, <1>4, <1>5

LEMMA TakeValueKeeps ==
  ASSUME IInv, TakeValue
  PROVE  IInv'
<1>1. /\ AtItem /\ phase = "read" /\ phase' = phase
      /\ Type \notin {Object, Array} /\ CanGet(Type, ValueAt)
      /\ i' = AfterGet(Type, ValueAt)
      /\ got' = [name  |-> SubSeq(data, i + 2, ValueAt - 1),
                 value |-> Value(Type, ValueAt)]
      /\ lost' = (lost \/ Type = Javascript)
      /\ cursor' = cursor + 1 /\ UNCHANGED writer /\ data' = data
      /\ depth' = depth
  BY Zenon DEF TakeValue, AtItem, InData
<1>2. Types /\ (Regular => cursor \in Nat)
  BY <1>1, Zenon DEF IInv, Reader
<1>3. i' \in Int
  BY <1>1, <1>2, Positions, Zenon
<1>4. lost' \in BOOLEAN /\ (lost => lost') /\ (Regular => cursor' \in Nat)
  <2>1. lost' \in BOOLEAN /\ (lost => lost')
    BY <1>1, Zenon
  <2>2. \A n \in Nat : n + 1 \in Nat
    OBVIOUS
  <2>3. QED
    BY <1>1, <1>2, <2>1, <2>2, Zenon
<1>5. depth' \in Nat /\ depth' >= 1
  BY <1>1, <1>2 DEF Types
<1>6. ASSUME Regular, ~ lost'
      PROVE  Behind(cursor)
  <2>1. ~ lost /\ Type # Javascript
    BY <1>1, <1>6
  <2>2. events[cursor].kind = "item"
    BY <1>1, <1>6, <2>1, AtWhich, Zenon
  <2>3. i' = Stop(events[cursor]) /\ got' = Promised(events[cursor])
    BY <1>1, <1>6, <2>1, <2>2, AtAnItem, Zenon
  <2>4. /\ cursor \in DOMAIN events /\ depth = events[cursor].depth
        /\ depth >= 1
    BY <1>1, <1>6, <2>1, Reading, Zenon
  <2>5. After(events[cursor]) = depth
    BY <2>2, <2>4 DEF After
  <2>6. QED
    BY <1>1, <2>3, <2>4, <2>5, Zenon DEF Behind
<1>7. QED
  BY <1>1, <1>3, <1>4, <1>5, <1>6, RoundKeeps, Zenon

LEMMA TakeDocumentKeeps ==
  ASSUME IInv, TakeDocument
  PROVE  IInv'
<1>1. /\ AtItem /\ phase = "read" /\ phase' = phase
      /\ Type \in {Object, Array} /\ i' = ValueAt + 4
      /\ got' = <<>> /\ lost' = lost
      /\ cursor' = cursor + 1 /\ UNCHANGED writer /\ data' = data
      /\ depth' = depth + 1
  BY Zenon DEF TakeDocument, AtItem, InData
<1>2. Types /\ (Regular => cursor \in Nat)
  BY <1>1, Zenon DEF IInv, Reader
<1>3. ValueAt \in Nat
  BY <1>1, <1>2, Positions, Zenon
<1>4. lost' \in BOOLEAN /\ i' \in Int /\ (Regular => cursor' \in Nat)
  BY <1>1, <1>2, <1>3 DEF Types
<1>5. depth' \in Nat /\ depth' >= 1
  BY <1>1, <1>2 DEF Types
<1>6. ASSUME Regular, ~ lost'
      PROVE  Behind(cursor)
  <2>1. ~ lost
    BY <1>1, <1>6
  <2>2. events[cursor].kind = "start"
    BY <1>1, <1>6, <2>1, AtWhich, Zenon
  <2>3. i' = Stop(events[cursor])
    BY <1>1, <1>6, <2>1, <2>2, AtADocument, Zenon
  <2>4. /\ cursor \in DOMAIN events /\ depth = events[cursor].depth
        /\ depth >= 1 /\ depth \in Nat
    BY <1>1, <1>6, <2>1, Reading, Zenon
  <2>5. After(events[cursor]) = depth + 1
    BY <2>2, <2>4 DEF After
  <2>6. depth + 1 >= 1
    BY <2>4
  <2>7. QED
    BY <1>1, <2>3, <2>4, <2>5, <2>6, Zenon DEF Behind
<1>7. QED
  BY <1>1, <1>4, <1>5, <1>6, RoundKeeps, Zenon

LEMMA SkipValueKeeps ==
  ASSUME IInv, SkipValue
  PROVE  IInv'
<1>1. /\ AtItem /\ phase = "read" /\ phase' = phase
      /\ CanSkip(Type, ValueAt) /\ i' = AfterSkip(Type, ValueAt)
      /\ got' = <<>> /\ lost' = (lost \/ Type \in Mismeasured)
      /\ cursor' = (IF lost' THEN cursor ELSE EndOf(cursor) + 1)
      /\ UNCHANGED writer /\ data' = data /\ depth' = depth
  BY Zenon DEF SkipValue, AtItem, InData
<1>2. Types /\ (Regular => cursor \in Nat)
  BY <1>1, Zenon DEF IInv, Reader
<1>3. i' \in Int
  BY <1>1, <1>2, Positions, Zenon
<1>4. lost' \in BOOLEAN /\ (lost => lost')
  BY <1>1
<1>5. depth' \in Nat /\ depth' >= 1
  BY <1>1, <1>2 DEF Types
<1>6. ASSUME Regular, ~ lost'
      PROVE  \E x : Behind(x)
  <2>1. ~ lost /\ Type \notin Mismeasured /\ cursor' = EndOf(cursor) + 1
    BY <1>1, <1>6
  <2>2. /\ cursor \in DOMAIN events /\ depth = events[cursor].depth
        /\ depth >= 1
    BY <1>1, <1>6, <2>1, Reading, Zenon
  <2>3. CASE Type \notin {Object, Array}
    <3>1. events[cursor].kind = "item"
      BY <1>1, <1>6, <2>1, <2>3, AtWhich, Zenon
    <3>2. i' = Stop(events[cursor])
      BY <1>1, <1>6, <2>1, <3>1, AtAnItem, Zenon
    <3>3. After(events[cursor]) = depth /\ EndOf(cursor) = cursor
      BY <2>2, <3>1 DEF After, EndOf
    <3>4. Behind(cursor)
      BY <1>1, <2>1, <2>2, <3>2, <3>3, Zenon DEF Behind
    <3>5. QED
      BY <3>4
  <2>4. CASE Type \in {Object, Array}
    <3>1. events[cursor].kind = "start"
      BY <1>1, <1>6, <2>1, <2>4, AtWhich, Zenon
    <3>2. PICK x \in DOMAIN events :
            /\ EndOf(cursor) = x /\ After(events[x]) = depth
            /\ AfterSkip(Type, ValueAt) = Stop(events[x])
      BY <1>1, <1>6, <2>1, <3>1, AtADocument, Zenon
    <3>3. Behind(x)
      BY <1>1, <2>1, <2>2, <3>2, Zenon DEF Behind
    <3>4. QED
      BY <3>3
  <2>5. QED
    BY <2>3, <2>4
<1>7. Regular => cursor' \in Nat
  <2>1. ASSUME Regular
        PROVE  cursor' \in Nat
    <3>1. CASE lost'
      BY <1>1, <1>2, <2>1, <3>1
    <3>2. CASE ~ lost'
      <4>1. PICK x : Behind(x)
        BY <1>6, <2>1, <3>2
      <4>2. x \in DOMAIN events /\ cursor' = x + 1
        BY <4>1 DEF Behind
      <4>3. x \in Nat
        <5>1. events \in Seq(EventSet)
          BY <1>2 DEF Types
        <5>2. QED
          BY <4>2, <5>1
      <4>4. QED
        BY <4>2, <4>3
    <3>3. QED
      BY <3>1, <3>2
  <2>2. QED
    BY <2>1
<1>8. QED
  BY <1>1, <1>3, <1>4, <1>5, <1>6, <1>7, RoundKeeps, Zenon

\* Nothing that arrived whole is refused.
LEMMA NoError ==
  ASSUME IInv, Regular, ~ lost, ReadError
  PROVE  Len(data) < Len(dst)
<1>1. \/ phase = "sent" /\ ~ DocumentFits(0)
      \/ phase = "read" /\ ~ AtEnd /\ ~ AtItem
      \/ AtItem /\ Type \notin {Object, Array} /\ ~ CanGet(Type, ValueAt)
      \/ AtItem /\ Type \in {Object, Array} /\ ~ DocumentFits(ValueAt)
      \/ AtItem /\ ~ CanSkip(Type, ValueAt)
  BY Zenon DEF ReadError
<1>2. AtItem => phase = "read"
  BY Zenon DEF AtItem, InData
<1>3. CASE phase = "sent" /\ ~ DocumentFits(0)
  BY <1>3, Whole, Zenon
<1>4. CASE phase = "read" /\ ~ AtEnd /\ ~ AtItem
  <2>1. events[cursor].kind \in {"start", "item", "end"}
    BY <1>4, Reading, Zenon
  <2>2. QED
    BY <1>4, <2>1, AtAnItem, AtADocument, AtAnEnd, Zenon
<1>5. CASE AtItem /\ Type \notin {Object, Array}
  <2>1. events[cursor].kind = "item"
    BY <1>5, AtWhich, Zenon
  <2>2. CanGet(Type, ValueAt) /\ CanSkip(Type, ValueAt)
    BY <1>2, <1>5, <2>1, AtAnItem, Zenon
  <2>3. QED
    BY <1>1, <1>2, <1>3, <1>5, <2>2, Zenon
<1>6. CASE AtItem /\ Type \in {Object, Array}
  <2>1. events[cursor].kind = "start"
    BY <1>6, AtWhich, Zenon
  <2>2. DocumentFits(ValueAt) /\ CanSkip(Type, ValueAt)
    BY <1>2, <1>6, <2>1, AtADocument, Zenon
  <2>3. QED
    BY <1>1, <1>2, <1>3, <1>6, <2>2, Zenon
<1>7. QED
  BY <1>1, <1>3, <1>4, <1>5, <1>6

LEMMA ReadErrorKeeps ==
  ASSUME IInv, ReadError
  PROVE  IInv'
<1>1. /\ phase \in {"sent", "read"} /\ phase' = "error" /\ UNCHANGED writer
      /\ data' = data /\ i' = i /\ depth' = depth /\ cursor' = cursor
      /\ got' = got /\ lost' = lost
  BY Zenon DEF ReadError, AtItem, InData, reader
<1>2. dst' = dst /\ stack' = stack /\ events' = events
  BY <1>1 DEF writer
<1>3. phase # "write"
  BY <1>1
<1>4. /\ events # <<>> /\ stack = <<>> /\ (Regular => cursor \in Nat)
      /\ Regular /\ ~ lost /\ got # <<>> =>
           /\ cursor - 1 \in DOMAIN events
           /\ got = Promised(events[cursor - 1])
  BY <1>3, Zenon DEF IInv, Reader
<1>5. Regular' <=> Regular
  BY <1>2, Zenon DEF Regular
<1>6. Regular /\ ~ lost => Len(data) < Len(dst)
  BY NoError, Zenon
<1>7. Reader'
  <2>1. phase' \notin {"write", "sent", "read", "done"}
    BY <1>1
  <2>2. QED
    BY <1>1, <1>2, <1>4, <1>5, <1>6, <2>1, Zenon DEF Reader
<1>8. /\ data' \in Seq(Byte) /\ i' \in Int /\ lost' \in BOOLEAN
      /\ depth' \in Nat /\ phase' # "read"
      /\ phase' \in {"write", "sent", "read", "done", "ignored", "error"}
  BY <1>1 DEF IInv, Types
<1>9. QED
  BY <1>1, <1>7, <1>8, StepKeeps, Zenon


-----------------------------------------------------------------------------
(* What holds of every behaviour. *)

LEMMA InitKeeps == Init => IInv
<1> SUFFICES ASSUME Init
             PROVE  IInv
  OBVIOUS
<1>1. /\ phase = "write" /\ dst = <<>> /\ stack = <<>> /\ loops = <<>>
      /\ events = <<>> /\ data = <<>> /\ i = 0 /\ depth = 0 /\ cursor = 1
      /\ got = <<>> /\ lost = FALSE
  BY DEF Init
<1>2. Types
  <2>1. \A S : <<>> \in Seq(S)
    OBVIOUS
  <2>2. /\ Len(stack) = Len(loops) /\ DOMAIN stack = {} /\ i \in Int
        /\ lost \in BOOLEAN /\ depth \in Nat
        /\ phase \in {"write", "sent", "read", "done", "ignored", "error"}
        /\ phase # "read"
    <3>1. DOMAIN stack = {} /\ i \in Int /\ depth \in Nat
      BY <1>1
    <3>2. /\ phase \in {"write", "sent", "read", "done", "ignored", "error"}
          /\ phase # "read"
      BY <1>1
    <3>3. QED
      BY <1>1, <3>1, <3>2, Zenon
  <2>3. QED
    BY <1>1, <2>1, <2>2, Zenon DEF Types
<1>3. Layout /\ Levels
  BY <1>1 DEF Layout, Levels
<1>4. Brackets
  BY <1>1 DEF Brackets
<1>5. Reader
  BY <1>1 DEF Reader
<1>6. QED
  BY <1>2, <1>3, <1>4, <1>5 DEF IInv

LEMMA NextKeeps == IInv /\ [Next]_vars => IInv'
<1> SUFFICES ASSUME IInv, [Next]_vars
             PROVE  IInv'
  OBVIOUS
<1>1. CASE WriteTop \/ WriteDocument \/ WriteItem \/ WriteEnd
  BY <1>1, WriterKeeps, Zenon
<1>2. CASE Deliver
  BY <1>2, DeliverKeeps, Zenon
<1>3. CASE ReadTop
  BY <1>3, ReadTopKeeps, Zenon
<1>4. CASE ReadTopArray
  BY <1>4, ReadTopArrayKeeps, Zenon
<1>5. CASE ReadEnd
  BY <1>5, ReadEndKeeps, Zenon
<1>6. CASE TakeValue
  BY <1>6, TakeValueKeeps, Zenon
<1>7. CASE TakeDocument
  BY <1>7, TakeDocumentKeeps, Zenon
<1>8. CASE SkipValue
  BY <1>8, SkipValueKeeps, Zenon
<1>9. CASE ReadError
  BY <1>9, ReadErrorKeeps, Zenon
<1>10. CASE UNCHANGED vars
  <2>1. UNCHANGED writer /\ UNCHANGED reader /\ phase' = phase
    BY <1>10 DEF vars
  <2>2. /\ dst' = dst /\ stack' = stack /\ loops' = loops /\ events' = events
        /\ data' = data /\ i' = i /\ depth' = depth /\ cursor' = cursor
        /\ got' = got /\ lost' = lost
    BY <2>1 DEF writer, reader
  <2>3. Regular' <=> Regular
    BY <2>2, Zenon DEF Regular
  <2>4. Size' = Size
    BY <2>2 DEF Size
  <2>5. Reader'
    BY <2>1, <2>2, <2>3, <2>4, Zenon DEF IInv, Reader
  <2>6. Types'
    BY <2>1, <2>2, Zenon DEF IInv, Types
  <2>7. QED
    BY <2>1, <2>5, <2>6, WriterSame, Zenon DEF IInv
<1>11. QED
  BY <1>1, <1>2, <1>3, <1>4, <1>5, <1>6, <1>7, <1>8, <1>9, <1>10, Zenon
     DEF Next

\* The invariant: the layout of the bytes, the nesting of the documents, their
\* lengths, and the place of the reader (bson.hpp:28-79, 142-294).
THEOREM Invariant == Spec => []IInv
<1>1. QED
  BY InitKeeps, NextKeeps, PTL DEF Spec

\* Everything the codec writes is bytes, each open document has its place with
\* four bytes for its length (bson.hpp:28-53), and the counters are numbers.
THEOREM TypesAreRight == Spec => [](Regular => TypeOK)
<1>1. IInv => (Regular => TypeOK)
  <2> SUFFICES ASSUME IInv, Regular
               PROVE  TypeOK
    OBVIOUS
  <2>1. cursor \in Nat
    <3>1. CASE phase = "write"
      BY <3>1 DEF IInv, Reader
    <3>2. CASE phase # "write"
      BY <3>2, Zenon DEF IInv, Reader
    <3>3. QED
      BY <3>1, <3>2
  <2>2. ASSUME NEW k \in DOMAIN stack
        PROVE  stack[k] \in 0 .. Len(dst) - 4
    <3>1. dst \in Seq(Byte) /\ stack \in Seq(Nat) /\ stack[k] + 4 <= Len(dst)
      BY Zenon DEF IInv, Types
    <3>2. PICK n \in Nat, s \in Nat : n = Len(dst) /\ s = stack[k]
      BY <3>1
    <3>3. s + 4 <= n
      BY <3>1, <3>2, Zenon
    <3>4. s \in 0 .. n - 4
      BY <3>3
    <3>5. QED
      BY <3>2, <3>4, Zenon
  <2>3. QED
    BY <2>1, <2>2, Zenon DEF IInv, Types, TypeOK
<1>2. QED
  BY <1>1, Invariant, PTL

\* The lengths that object_end and array_end patch in are right at every depth
\* and at every moment (bson.hpp:44-53, 70-79), up to the 2^31 - 1 bytes that
\* an int can count: no deeper document and no later value disturbs them.
THEOREM LengthsAreRight == Spec => [](Len(dst) <= MaxInt32 => LengthsPatched)
<1>1. IInv => (Len(dst) <= MaxInt32 => LengthsPatched)
  <2> SUFFICES ASSUME IInv, Len(dst) <= MaxInt32,
                      NEW k \in DOMAIN events, events[k].kind = "start"
               PROVE  LET start == events[k].start
                          ends  == {e \in k + 1 .. Len(events) :
                                      /\ events[e].kind = "end"
                                      /\ events[e].depth = events[k].depth + 1}
                      IN  Read32(dst, start) =
                            IF ends = {} THEN 0
                            ELSE events[EndOf(k)].at + 1 - start
    BY Zenon DEF LengthsPatched
  <2> DEFINE ends == {e \in k + 1 .. Len(events) :
                        /\ events[e].kind = "end"
                        /\ events[e].depth = events[k].depth + 1}
  <2>1. CASE StillOpen(k)
    <3>1. PICK s \in DOMAIN stack : OpenAt(k, s)
      BY <2>1 DEF StillOpen
    <3>2. ends = {}
      <4>1. /\ s = events[k].depth + 1
            /\ \A m \in k + 1 .. Len(events) :
                 events[m].kind = "end" => events[m].depth > s
        BY <3>1, Zenon DEF OpenAt
      <4>2. s \in Nat
        BY <4>1, EventIs
      <4>3. ~ (s > s)
        BY <4>2
      <4>4. QED
        BY <4>1, <4>3, Zenon
    <3>3. QED
      BY <2>1, <3>2, Zenon DEF StillOpen
  <2>2. CASE Closed(k)
    <3>1. PICK x \in k + 1 .. Len(events) :
            /\ Closes(k, x)
            /\ Read32(dst, events[k].start) = events[x].at + 1 - events[k].start
      BY <2>2, Zenon DEF Closed
    <3>2. EndOf(k) = x
      BY <3>1, EndOfIs, Zenon
    <3>3. x \in ends
      BY <3>1, Zenon DEF Closes
    <3>4. ends # {}
      BY <3>3
    <3>5. QED
      BY <3>1, <3>2, <3>4, Zenon
  <2>3. QED
    BY <2>1, <2>2, Zenon DEF IInv, Brackets
<1>2. QED
  BY <1>1, Invariant, PTL

\* Whatever has been written and whichever values the reader takes or skips, it
\* is where the next value starts, is given what was written, and ends where
\* the data ends (bson.hpp:142-294, codec.hpp:128-165).
THEOREM ReaderIsInStep == Spec => [](Regular => InStep)
<1>1. IInv => (Regular => InStep)
  BY Zenon DEF IInv, Reader, InStep
<1>2. QED
  BY <1>1, Invariant, PTL

\* A document that arrives whole is not refused (bson.hpp:142-160, 243-294).
THEOREM NoErrorIsFalse == Spec => [](Regular => NoFalseError)
<1>1. IInv => (Regular => NoFalseError)
  BY Zenon DEF IInv, Reader, NoFalseError
<1>2. QED
  BY <1>1, Invariant, PTL

LEMMA RoundAdvances ==
  ASSUME IInv, Regular, Next, phase = "read", phase' = "read", ~ lost
  PROVE  i' > i
<1>1. /\ data = dst /\ cursor \in DOMAIN events /\ i = events[cursor].at
      /\ cursor \in Nat /\ Len(events) \in Nat
      /\ DOMAIN events = 1 .. Len(events)
  BY Reading, Zenon
<1>2. PICK a \in Nat, s \in Nat :
        a = i /\ s = Stop(events[cursor]) /\ s >= a + 1
  BY <1>1, EventIs, Zenon
<1>3. s > a
  BY <1>2
<1>4. ReadEnd \/ TakeValue \/ TakeDocument \/ SkipValue
  BY DEF Next, WriteTop, WriteDocument, WriteItem, WriteEnd, WriterStep,
         Deliver, ReadTop, ReadTopArray, ReadError
<1>5. CASE ReadEnd
  <2>1. i' = a + 1
    BY <1>2, <1>5, Zenon DEF ReadEnd
  <2>2. QED
    BY <1>2, <2>1
<1>6. CASE TakeDocument
  <2>1. AtItem /\ Type \in {Object, Array} /\ i' = ValueAt + 4
    BY <1>6, Zenon DEF TakeDocument
  <2>2. ValueAt + 4 = Stop(events[cursor])
    BY <2>1, AtWhich, AtADocument, Zenon
  <2>3. QED
    BY <1>2, <1>3, <2>1, <2>2, Zenon
<1>7. CASE TakeValue
  <2>1. /\ AtItem /\ Type \notin {Object, Array}
        /\ i' = AfterGet(Type, ValueAt) /\ CanGet(Type, ValueAt)
    BY <1>7, Zenon DEF TakeValue
  <2>2. events[cursor].kind = "item"
    BY <2>1, AtWhich, Zenon
  <2>3. CASE Type # Javascript
    <3>1. AfterGet(Type, ValueAt) = Stop(events[cursor])
      BY <2>2, <2>3, AtAnItem, Zenon
    <3>2. QED
      BY <1>2, <1>3, <2>1, <3>1, Zenon
  <2>4. CASE Type = Javascript
    <3>1. PICK p \in Nat : p = ValueAt /\ p > i /\ i' >= p
      BY <2>1, <2>2, <2>4, AtAnItem, Zenon
    <3>2. i' \in Int
      BY <2>1, Positions, Zenon DEF IInv
    <3>3. QED
      BY <1>2, <3>1, <3>2
  <2>5. QED
    BY <2>3, <2>4
<1>8. CASE SkipValue
  <2>1. /\ AtItem /\ i' = AfterSkip(Type, ValueAt) /\ CanSkip(Type, ValueAt)
    BY <1>8, Zenon DEF SkipValue
  <2>2. i' \in Int
    BY <2>1, Positions, Zenon DEF IInv
  <2>3. CASE Type \notin {Object, Array}
    <3>1. events[cursor].kind = "item"
      BY <2>1, <2>3, AtWhich, Zenon
    <3>2. PICK p \in Nat : p = ValueAt /\ p > i /\ i' >= p
      BY <2>1, <3>1, AtAnItem, Zenon
    <3>3. QED
      BY <1>2, <2>2, <3>2
  <2>4. CASE Type \in {Object, Array}
    <3>1. events[cursor].kind = "start"
      BY <2>1, <2>4, AtWhich, Zenon
    <3>2. PICK x \in DOMAIN events : x > cursor /\ i' = Stop(events[x])
      BY <2>1, <3>1, AtADocument, Zenon
    <3>3. PICK b \in Nat, t \in Nat :
            b = events[x].at /\ t = Stop(events[x]) /\ t >= b + 1
      BY <3>2, EventIs, Zenon
    <3>4. s <= b
      <4>1. cursor \in 1 .. x - 1
        BY <1>1, <3>2
      <4>2. Placed(x)
        BY DEF IInv, Layout
      <4>3. QED
        BY <1>2, <3>3, <4>1, <4>2, Zenon DEF Placed
    <3>5. t > a
      BY <1>3, <3>3, <3>4
    <3>6. QED
      BY <1>2, <3>2, <3>3, <3>5, Zenon
  <2>5. QED
    BY <2>3, <2>4
<1>9. QED
  BY <1>4, <1>5, <1>6, <1>7, <1>8

\* Every round over such a document goes forward, even the one that skip()
\* mismeasures (bson.hpp:110-140): the loops of codec.hpp:128-165 come to an
\* end or lose their place.
THEOREM ReaderGoesForward == Spec /\ []Regular => ReaderAdvances
<1>1. IInv /\ Regular /\ [Next]_vars =>
        [phase = "read" /\ phase' = "read" /\ ~ lost => i' > i]_vars
  <2> SUFFICES ASSUME IInv, Regular, Next, phase = "read", phase' = "read",
                      ~ lost
               PROVE  i' > i
    BY Zenon
  <2>1. QED
    BY RoundAdvances, Zenon
<1>2. QED
  BY <1>1, Invariant, PTL DEF Spec, ReaderAdvances

-----------------------------------------------------------------------------
(***************************************************************************)
(* BsonCodec implements CodecContract: each of its steps is one of the     *)
(* contract's, or none, for every set of names and of values.              *)
(***************************************************************************)

(* The contract's variables, as BsonCodec's instance maps them. *)

Stage ==
  CASE lost \/ phase = "ignored" -> "lost"
    [] ~ lost /\ phase = "error" -> "failed"
    [] OTHER -> phase

Written == [k \in DOMAIN events |-> TokenOf(events[k])]
Intact  == Len(data) = Len(dst) \/ phase = "write"
Passed  == IF lost THEN 0 ELSE cursor - 1
Given   == IF lost THEN <<>> ELSE got

Mapped == <<Stage, Written, Intact, Passed, Given>>

\* A stage while the reader has its place.
LEMMA StageIs ==
  /\ lost => Stage = "lost"
  /\ phase = "ignored" => Stage = "lost"
  /\ ~ lost /\ phase = "error" => Stage = "failed"
  /\ ~ lost /\ phase \in {"write", "sent", "read", "done"} => Stage = phase
BY DEF Stage

-----------------------------------------------------------------------------
(* How many documents a sequence of tokens leaves open. *)

\* The contract counts as BsonCodec does.
LEMMA SameCardinality ==
  ASSUME NEW S
  PROVE  Contract!Cardinality(S) = Cardinality(S)
BY Zenon DEF Cardinality, Contract!Cardinality

LEMMA CountGrows ==
  ASSUME NEW s, NEW t, NEW kind, NEW n \in Nat,
         DOMAIN s = 1 .. n, DOMAIN t = 1 .. n + 1,
         \A k \in 1 .. n : t[k] = s[k]
  PROVE  /\ Contract!CountOf(s, kind) \in Nat
         /\ Contract!CountOf(t, kind) =
              Contract!CountOf(s, kind) + (IF t[n + 1].kind = kind THEN 1 ELSE 0)
<1> DEFINE A == {k \in DOMAIN s : s[k].kind = kind}
           B == {k \in DOMAIN t : t[k].kind = kind}
<1>1. IsFiniteSet(A)
  <2>1. IsFiniteSet(1 .. n) /\ A \subseteq 1 .. n
    <3>1. IsFiniteSet(1 .. n)
      BY FS_Interval
    <3>2. QED
      BY <3>1
  <2>2. QED
    BY <2>1, FS_Subset
<1>2. Cardinality(A) \in Nat
  BY <1>1, FS_CardinalityType
<1>3. CASE t[n + 1].kind = kind
  <2>1. B = A \union {n + 1} /\ n + 1 \notin A
    BY <1>3
  <2>2. Cardinality(B) = Cardinality(A) + 1
    BY <1>1, <2>1, FS_AddElement
  <2>3. QED
    BY <1>2, <1>3, <2>2, SameCardinality DEF Contract!CountOf
<1>4. CASE t[n + 1].kind # kind
  <2>1. B = A
    BY <1>4
  <2>2. QED
    BY <1>2, <1>4, <2>1, SameCardinality DEF Contract!CountOf
<1>5. QED
  BY <1>3, <1>4

\* One token more opens a document, closes one, or does neither.
LEMMA OpenGrows ==
  ASSUME NEW s, NEW t, NEW n \in Nat,
         DOMAIN s = 1 .. n, DOMAIN t = 1 .. n + 1,
         \A k \in 1 .. n : t[k] = s[k]
  PROVE  /\ Contract!Open(s) \in Int
         /\ t[n + 1].kind = "start" => Contract!Open(t) = Contract!Open(s) + 1
         /\ t[n + 1].kind = "end"   => Contract!Open(t) = Contract!Open(s) - 1
         /\ t[n + 1].kind = "item"  => Contract!Open(t) = Contract!Open(s)
<1>1. PICK a \in Nat, b \in Nat :
        a = Contract!CountOf(s, "start") /\ b = Contract!CountOf(s, "end")
  BY CountGrows
<1>2. Contract!CountOf(t, "start") = a + (IF t[n + 1].kind = "start" THEN 1 ELSE 0)
  BY <1>1, CountGrows
<1>3. Contract!CountOf(t, "end") = b + (IF t[n + 1].kind = "end" THEN 1 ELSE 0)
  BY <1>1, CountGrows
<1>4. QED
  BY <1>1, <1>2, <1>3 DEF Contract!Open

LEMMA NoneOpen ==
  ASSUME NEW s, DOMAIN s = {}
  PROVE  Contract!Open(s) = 0
<1>1. \A kind : Contract!CountOf(s, kind) = 0
  BY FS_EmptySet, SameCardinality DEF Contract!CountOf
<1>2. QED
  BY <1>1 DEF Contract!Open

-----------------------------------------------------------------------------
(* The tokens are the events. *)

SomeTokens == {TokenOf(e) : e \in EventSet}

LEMMA WrittenIs ==
  ASSUME Types
  PROVE  /\ DOMAIN events = 1 .. Len(events) /\ Len(events) \in Nat
         /\ Written \in Seq(SomeTokens) /\ Len(Written) = Len(events)
         /\ Written = <<>> <=> events = <<>>
         /\ \A k \in DOMAIN events :
              /\ events[k] \in EventSet
              /\ Written[k] = TokenOf(events[k])
              /\ Written[k].kind = events[k].kind
<1>1. events \in Seq(EventSet)
  BY DEF Types
<1>2. DOMAIN events = 1 .. Len(events) /\ Len(events) \in Nat
  BY <1>1
<1>3. \A k \in DOMAIN events : Written[k] = TokenOf(events[k])
  BY DEF Written
<1> DEFINE token(k) == TokenOf(events[k])
<1>4. \A k \in 1 .. Len(events) : token(k) \in SomeTokens
  BY <1>1 DEF SomeTokens
<1>5. Written = [k \in 1 .. Len(events) |-> token(k)]
  BY <1>2 DEF Written
<1> HIDE DEF token
<1>6. Written \in [1 .. Len(events) -> SomeTokens]
  BY <1>4, <1>5
<1>7. Written \in Seq(SomeTokens) /\ Len(Written) = Len(events)
  BY <1>2, <1>6, FunctionIsSeq
<1>8. Written = <<>> <=> events = <<>>
  BY <1>1, <1>7
<1>9. \A k : TokenOf(events[k]).kind = events[k].kind
  BY DEF TokenOf
<1>10. \A k \in DOMAIN events : events[k] \in EventSet
  BY <1>1
<1>11. QED
  BY <1>2, <1>3, <1>7, <1>8, <1>9, <1>10, Zenon

\* A part of a sequence, and the part that has one element less.
LEMMA PartGrows ==
  ASSUME NEW S, NEW w \in Seq(S), NEW k \in 1 .. Len(w), NEW m \in k .. Len(w),
         NEW n \in Nat, n = m - k
  PROVE  /\ DOMAIN SubSeq(w, k, m - 1) = 1 .. n
         /\ DOMAIN SubSeq(w, k, m) = 1 .. n + 1
         /\ \A j \in 1 .. n : SubSeq(w, k, m)[j] = SubSeq(w, k, m - 1)[j]
         /\ SubSeq(w, k, m)[n + 1] = w[m]
<1>1. /\ SubSeq(w, k, m) \in Seq(S) /\ Len(SubSeq(w, k, m)) = n + 1
      /\ \A j \in 1 .. n + 1 : SubSeq(w, k, m)[j] = w[k + j - 1]
  OBVIOUS
<1>2. /\ SubSeq(w, k, m - 1) \in Seq(S) /\ Len(SubSeq(w, k, m - 1)) = n
      /\ \A j \in 1 .. n : SubSeq(w, k, m - 1)[j] = w[k + j - 1]
  OBVIOUS
<1>3. k + (n + 1) - 1 = m
  OBVIOUS
<1>4. QED
  BY <1>1, <1>2, <1>3

\* How many more documents are open behind token m than before token k.
Opens(k, m) == Contract!Open(SubSeq(Written, k, m))

LEMMA OpensGrow ==
  ASSUME Types, NEW k \in DOMAIN events, NEW m \in DOMAIN events, k <= m
  PROVE  /\ Opens(k, m - 1) \in Int
         /\ m = k => Opens(k, m - 1) = 0
         /\ events[m].kind = "start" => Opens(k, m) = Opens(k, m - 1) + 1
         /\ events[m].kind = "end"   => Opens(k, m) = Opens(k, m - 1) - 1
         /\ events[m].kind = "item"  => Opens(k, m) = Opens(k, m - 1)
<1>1. PICK l \in Nat : l = Len(events) /\ DOMAIN events = 1 .. l
  BY WrittenIs, Zenon
<1>2. PICK n \in Nat : n = m - k
  BY <1>1
<1>3. Written \in Seq(SomeTokens) /\ k \in 1 .. Len(Written)
      /\ m \in k .. Len(Written) /\ Written[m].kind = events[m].kind
  BY <1>1, WrittenIs
<1>4. PICK s, t : s = SubSeq(Written, k, m - 1) /\ t = SubSeq(Written, k, m)
  OBVIOUS
<1>5. /\ DOMAIN s = 1 .. n /\ DOMAIN t = 1 .. n + 1
      /\ \A j \in 1 .. n : t[j] = s[j]
      /\ t[n + 1] = Written[m]
  <2>1. /\ DOMAIN SubSeq(Written, k, m - 1) = 1 .. n
        /\ DOMAIN SubSeq(Written, k, m) = 1 .. n + 1
        /\ \A j \in 1 .. n :
             SubSeq(Written, k, m)[j] = SubSeq(Written, k, m - 1)[j]
        /\ SubSeq(Written, k, m)[n + 1] = Written[m]
    BY <1>2, <1>3, PartGrows
  <2>2. QED
    BY <1>4, <2>1, Zenon
<1>6. /\ Contract!Open(s) \in Int
      /\ t[n + 1].kind = "start" => Contract!Open(t) = Contract!Open(s) + 1
      /\ t[n + 1].kind = "end"   => Contract!Open(t) = Contract!Open(s) - 1
      /\ t[n + 1].kind = "item"  => Contract!Open(t) = Contract!Open(s)
  BY <1>5, OpenGrows
<1>7. m = k => Contract!Open(s) = 0
  <2>1. m = k => DOMAIN s = {}
    BY <1>1, <1>2, <1>5
  <2>2. QED
    BY <2>1, NoneOpen, Zenon
<1>8. QED
  BY <1>3, <1>4, <1>5, <1>6, <1>7, Zenon DEF Opens

\* What the tokens leave open is what the stack and the levels say.
LEMMA OpensIs ==
  ASSUME IInv, NEW k \in DOMAIN events, NEW m \in DOMAIN events, k <= m
  PROVE  Opens(k, m) = After(events[m]) - events[k].depth
<1> DEFINE Bad == {j \in Nat : /\ j \in DOMAIN events /\ k <= j
                               /\ Opens(k, j) # After(events[j]) - events[k].depth}
<1>1. DOMAIN events = 1 .. Len(events) /\ Len(events) \in Nat
      /\ k \in Nat /\ m \in Nat
  BY EventIs
<1>2. SUFFICES ASSUME Bad # {}
               PROVE  FALSE
  BY <1>1
<1>3. PICK j \in Bad : \A x \in Bad : j <= x
  BY <1>2, LeastElement
<1>4. j \in DOMAIN events /\ j \in Nat /\ k <= j
      /\ Opens(k, j) # After(events[j]) - events[k].depth
  BY <1>3
<1>5. PICK d \in Nat : d = events[k].depth
  BY EventIs
<1>6. PICK c \in Nat : c = events[j].depth
  BY <1>4, EventIs
<1>7. events[j].kind \in {"start", "item", "end"}
  <2>1. events[j] \in EventSet
    BY <1>4, EventIs
  <2>2. QED
    BY <2>1 DEF EventSet
<1>8. Opens(k, j - 1) = c - d
  <2>1. CASE j = k
    BY <1>4, <1>5, <1>6, <2>1, OpensGrow DEF IInv
  <2>2. CASE j # k
    <3>1. j - 1 \in DOMAIN events /\ j - 1 \in Nat /\ k <= j - 1 /\ j > 1
          /\ ~ (j <= j - 1)
      BY <1>1, <1>4, <2>2
    <3>2. Opens(k, j - 1) = After(events[j - 1]) - events[k].depth
      BY <1>3, <3>1
    <3>3. events[j].depth = After(events[j - 1])
      BY <1>4, <3>1, Zenon DEF IInv, Levels, Deeper
    <3>4. QED
      BY <1>5, <1>6, <3>2, <3>3
  <2>3. QED
    BY <2>1, <2>2
<1>9. /\ events[j].kind = "start" => Opens(k, j) = Opens(k, j - 1) + 1
      /\ events[j].kind = "end"   => Opens(k, j) = Opens(k, j - 1) - 1
      /\ events[j].kind = "item"  => Opens(k, j) = Opens(k, j - 1)
  BY <1>4, OpensGrow DEF IInv
<1>10. /\ events[j].kind = "start" => After(events[j]) = c + 1
       /\ events[j].kind = "end"   => After(events[j]) = c - 1
       /\ events[j].kind = "item"  => After(events[j]) = c
  BY <1>6 DEF After
<1>11. Opens(k, j) = After(events[j]) - d
  BY <1>5, <1>6, <1>7, <1>8, <1>9, <1>10
<1>12. QED
  BY <1>4, <1>5, <1>11

\* The contract's writer has as many documents open as the codec's stack has.
LEMMA OpenIsStack ==
  ASSUME IInv
  PROVE  /\ Written = <<>> <=> events = <<>>
         /\ events # <<>> => Contract!Open(Written) = Len(stack)
<1>1. Types
  BY DEF IInv
<1>2. SUFFICES ASSUME events # <<>>
               PROVE  Contract!Open(Written) = Len(stack)
  BY <1>1, WrittenIs, Zenon
<1>3. PICK n \in Nat : n = Len(events) /\ DOMAIN events = 1 .. n /\ n >= 1
  <2>1. events \in Seq(EventSet)
    BY <1>1 DEF Types
  <2>2. QED
    BY <1>2, <2>1
<1>4. SubSeq(Written, 1, n) = Written
  <2>1. Written \in Seq(SomeTokens) /\ Len(Written) = n
    BY <1>1, <1>3, WrittenIs, Zenon
  <2>2. QED
    BY <2>1, SubSeqFull
<1>5. Opens(1, n) = After(events[n]) - events[1].depth
  BY <1>3, OpensIs
<1>6. events[1].depth = 0 /\ After(events[n]) = Len(stack)
  BY <1>2, <1>3, Zenon DEF IInv, Levels
<1>7. Len(stack) \in Nat
  BY <1>1 DEF Types
<1>8. Opens(1, n) = Contract!Open(Written)
  BY <1>4, Zenon DEF Opens
<1>9. QED
  BY <1>5, <1>6, <1>7, <1>8

\* Both say of the same token that it ends what token k starts.
LEMMA SameEnd ==
  ASSUME IInv, stack = <<>>, Regular, NEW k \in DOMAIN events,
         events[k].kind \in {"start", "item"}
  PROVE  Contract!EndOf(k) = EndOf(k)
<1>1. PICK n \in Nat : n = Len(events) /\ DOMAIN events = 1 .. n
  BY EventIs
<1>2. PICK d \in Nat : d = events[k].depth
  BY EventIs
<1> DEFINE P(e) == /\ Opens(k, e) = 0
                   /\ \A m \in k .. e - 1 : Opens(k, m) > 0
<1>3. Contract!EndOf(k) = CHOOSE e \in k .. n : P(e)
  <2>1. Len(Written) = n
    BY <1>1, WrittenIs, Zenon DEF IInv
  <2>2. Contract!EndOf(k) = CHOOSE e \in k .. Len(Written) : P(e)
    BY Zenon DEF Contract!EndOf, Opens, Written
  <2>3. QED
    BY <2>1, <2>2
<1>4. PICK x \in k .. n : EndOf(k) = x /\ P(x)
  <2>1. CASE events[k].kind = "item"
    <3>1. EndOf(k) = k
      BY <2>1 DEF EndOf
    <3>2. Opens(k, k) = 0
      <4>1. After(events[k]) = d
        BY <1>2, <2>1 DEF After
      <4>2. k \in Nat /\ k <= k
        BY <1>1
      <4>3. QED
        BY <1>2, <4>1, <4>2, OpensIs
    <3>3. k \in k .. n /\ P(k)
      BY <1>1, <3>2
    <3>4. QED
      BY <3>1, <3>3
  <2>2. CASE events[k].kind = "start"
    <3>1. PICK x \in DOMAIN events :
            /\ x \in k + 1 .. Len(events) /\ Closes(k, x)
            /\ After(events[x]) = events[k].depth
      BY <2>2, DocumentEnds, Zenon
    <3>2. EndOf(k) = x
      BY <2>2, <3>1, EndOfIs, Zenon
    <3>3. x \in k .. n /\ k <= x
      BY <1>1, <3>1
    <3>4. Opens(k, x) = 0
      BY <1>2, <3>1, <3>3, OpensIs
    <3>5. ASSUME NEW m \in k .. x - 1
          PROVE  Opens(k, m) > 0
      <4>1. m \in DOMAIN events /\ m \in Nat /\ k <= m
        BY <1>1, <3>3, <3>5
      <4>2. PICK c \in Nat : c = events[m].depth
        BY <4>1, EventIs
      <4>3. events[m].kind \in {"start", "item", "end"}
        <5>1. events[m] \in EventSet
          BY <4>1, EventIs
        <5>2. QED
          BY <5>1 DEF EventSet
      <4>4. m = k \/ m \in k + 1 .. x - 1
        BY <1>1, <3>5, <4>1
      <4>5. m = k \/ (c > d /\ (events[m].kind = "end" => c > d + 1))
        BY <1>2, <3>1, <4>2, <4>4 DEF Closes
      <4>6. After(events[m]) >= d + 1 /\ After(events[m]) \in Int
        BY <1>2, <2>2, <4>2, <4>3, <4>5 DEF After
      <4>7. Opens(k, m) = After(events[m]) - d
        BY <1>2, <4>1, OpensIs
      <4>8. QED
        BY <4>6, <4>7
    <3>6. QED
      BY <3>2, <3>3, <3>4, <3>5
  <2>3. QED
    BY <2>1, <2>2
<1>5. ASSUME NEW e \in k .. n, P(e)
      PROVE  e = x
  <2>1. e < x \/ x < e \/ e = x
    BY <1>1
  <2>2. ~ (e < x)
    <3>1. e < x => e \in k .. x - 1
      BY <1>1
    <3>2. QED
      BY <1>4, <1>5, <3>1
  <2>3. ~ (x < e)
    <3>1. x < e => x \in k .. e - 1
      BY <1>1
    <3>2. QED
      BY <1>4, <1>5, <3>1
  <2>4. QED
    BY <2>1, <2>2, <2>3
<1> HIDE DEF P
<1>6. QED
  BY <1>3, <1>4, <1>5, Zenon


-----------------------------------------------------------------------------
(* The contract's actions, said of the mapped variables. *)

LEMMA WriteMaps ==
  ASSUME Stage = "write", NEW token \in Tokens,
         IF Written = <<>> THEN token.kind = "start" ELSE Contract!Open(Written) > 0,
         Written' = Append(Written, token),
         Stage' = Stage, Intact' = Intact, Passed' = Passed, Given' = Given
  PROVE  Contract!Write
BY Zenon DEF Contract!Write, Stage, Written, Intact, Passed, Given

LEMMA SendMaps ==
  ASSUME Stage = "write", Written # <<>>, Contract!Open(Written) = 0,
         Intact' \in BOOLEAN, Stage' = "sent",
         Written' = Written, Passed' = Passed, Given' = Given
  PROVE  Contract!Send
BY Zenon DEF Contract!Send, Stage, Written, Intact, Passed, Given

LEMMA BeginMaps ==
  ASSUME Stage = "sent", Intact, Stage' = "read", Passed' = 1,
         Written' = Written, Intact' = Intact, Given' = Given
  PROVE  Contract!Begin
BY Zenon DEF Contract!Begin, Stage, Written, Intact, Passed, Given

LEMMA RefuseMaps ==
  ASSUME Stage = "sent", ~ Intact, Stage' = "failed",
         Written' = Written, Intact' = Intact, Passed' = Passed, Given' = Given
  PROVE  Contract!Refuse
BY Zenon DEF Contract!Refuse, Stage, Written, Intact, Passed, Given

LEMMA LoseMaps ==
  ASSUME Stage \in {"sent", "read"}, Written[Passed + 1].fragile,
         Stage' = "lost", Passed' = 0, Given' = <<>>,
         Written' = Written, Intact' = Intact
  PROVE  Contract!Lose
BY Zenon DEF Contract!Lose, Contract!Coming, Contract!Nothing,
   Stage, Written, Intact, Passed, Given

\* What each round of the reader leaves as it is.
Round == Stage = "read" /\ Written' = Written /\ Intact' = Intact

LEMMA EnterMaps ==
  ASSUME Round, Written[Passed + 1].kind = "start",
         Passed' = Passed + 1, Given' = <<>>, Stage' = Stage
  PROVE  Contract!Enter
BY Zenon DEF Round, Contract!Enter, Contract!Reading, Contract!Coming,
   Contract!Nothing, Stage, Written, Intact, Passed, Given

LEMMA TakeMaps ==
  ASSUME Round, Written[Passed + 1].kind = "item", Passed' = Passed + 1,
         Given' = [name  |-> Written[Passed + 1].name,
                   value |-> Written[Passed + 1].value],
         Stage' = Stage
  PROVE  Contract!Take
BY Zenon DEF Round, Contract!Take, Contract!Reading, Contract!Coming,
   Stage, Written, Intact, Passed, Given

LEMMA SkipMaps ==
  ASSUME Round, Written[Passed + 1].kind # "end", ~ Written[Passed + 1].fragile,
         Passed' = Contract!EndOf(Passed + 1), Given' = <<>>, Stage' = Stage
  PROVE  Contract!Skip
BY Zenon DEF Round, Contract!Skip, Contract!Reading, Contract!Coming,
   Contract!Nothing, Stage, Written, Intact, Passed, Given

LEMMA EndMaps ==
  ASSUME Round, Written[Passed + 1].kind = "end",
         Passed' = Passed + 1, Given' = <<>>,
         Stage' = IF Passed + 1 = Len(Written) THEN "done" ELSE "read"
  PROVE  Contract!End
BY Zenon DEF Round, Contract!End, Contract!Reading, Contract!Coming,
   Contract!Nothing, Stage, Written, Intact, Passed, Given

LEMMA StutterMaps ==
  ASSUME Stage' = Stage, Written' = Written, Intact' = Intact,
         Passed' = Passed, Given' = Given
  PROVE  UNCHANGED Contract!vars
BY Zenon DEF Contract!vars, Stage, Written, Intact, Passed, Given


-----------------------------------------------------------------------------
(* Writing. *)

\* How many values have been written, documents included.
Values == Cardinality({k \in DOMAIN events : events[k].kind # "end"})

\* No document has more items than there are values.
Indices == \A s \in DOMAIN loops : loops[s].next <= Values

LEMMA ValuesGrow ==
  ASSUME Types, NEW e \in EventSet, events' = Append(events, e)
  PROVE  /\ Values \in Nat
         /\ e.kind # "end" => Values' = Values + 1
         /\ e.kind = "end" => Values' = Values
<1> DEFINE A == {k \in DOMAIN events : events[k].kind # "end"}
           B == {k \in DOMAIN events' : events'[k].kind # "end"}
<1>1. PICK n \in Nat : n = Len(events)
  BY EventsGrow
<1>2. /\ DOMAIN events = 1 .. n /\ DOMAIN events' = 1 .. n + 1
      /\ \A k \in 1 .. n : events'[k] = events[k]
      /\ events'[n + 1] = e
  BY <1>1, EventsGrow
<1>3. IsFiniteSet(A)
  <2>1. IsFiniteSet(1 .. n)
    BY FS_Interval
  <2>2. A \subseteq 1 .. n
    BY <1>2
  <2>3. QED
    BY <2>1, <2>2, FS_Subset
<1>4. Values = Cardinality(A) /\ Values' = Cardinality(B)
  BY Zenon DEF Values
<1>5. Cardinality(A) \in Nat
  BY <1>3, FS_CardinalityType
<1>6. CASE e.kind # "end"
  <2>1. B = A \union {n + 1} /\ n + 1 \notin A
    BY <1>2, <1>6
  <2>2. Cardinality(B) = Cardinality(A) + 1
    BY <1>3, <2>1, FS_AddElement
  <2>3. QED
    BY <1>4, <1>5, <1>6, <2>2
<1>7. CASE e.kind = "end"
  <2>1. B = A
    BY <1>2, <1>7
  <2>2. QED
    BY <1>4, <1>5, <1>7, <2>1
<1>8. QED
  BY <1>6, <1>7

\* The names that a caller's loop can give are those of the contract's tokens.
LEMMA NamesOfTokens ==
  ASSUME Types, Indices, stack # <<>>, MoreValues, Values \in Nat,
         NEW name \in MemberNames
  PROVE  name \in Names \union {IndexName(k) : k \in 0 .. MaxValues}
<1>1. CASE name \in Names
  BY <1>1
<1>2. CASE name \notin Names
  <2>1. name = IndexName(Last(loops).next)
    BY <1>2 DEF MemberNames
  <2>2. Last(loops).next \in Nat /\ Last(loops).next <= Values
    <3>1. /\ loops \in Seq([type : {Object, Array}, next : Nat])
          /\ Len(loops) = Len(stack) /\ stack \in Seq(Nat)
      BY DEF Types
    <3>2. Len(loops) \in DOMAIN loops
      BY <3>1
    <3>3. loops \in Seq(Loop)
      BY <3>1 DEF Loop
    <3>4. loops[Len(loops)].next \in Nat
      <4>1. loops[Len(loops)] \in Loop
        BY <3>2, <3>3
      <4>2. QED
        BY <4>1 DEF Loop
    <3>5. QED
      BY <3>2, <3>4, Zenon DEF Indices, Last
  <2>3. Values < MaxValues
    BY Zenon DEF MoreValues, Values
  <2>4. Last(loops).next \in 0 .. MaxValues
    BY <2>2, <2>3, MaxValuesAssumption
  <2>5. QED
    BY <2>1, <2>4
<1>3. QED
  BY <1>1, <1>2

NamesThere ==
  Names \union {<<>>} \union {IndexName(k) : k \in 0 .. MaxValues}

ValuesThere ==
  {Promised([type |-> v.type, name |-> <<>>, value |-> v.value]).value :
     v \in Scalars} \union {<<>>}

LEMMA IsToken ==
  ASSUME NEW e, e.kind \in {"start", "item", "end"}, e.name \in NamesThere,
         e.kind = "item" => Promised(e).value \in ValuesThere
  PROVE  TokenOf(e) \in Tokens
<1> DEFINE val == IF e.kind = "item" THEN Promised(e).value ELSE <<>>
           frag == e.type \in Mismeasured \/ (e.type = Array /\ e.at = 0)
<1>1. val \in ValuesThere
  BY DEF ValuesThere
<1>2. frag \in BOOLEAN
  OBVIOUS
<1>3. TokenOf(e) = [kind |-> e.kind, name |-> e.name, value |-> val,
                    fragile |-> frag]
  BY DEF TokenOf
<1> HIDE DEF val, frag
<1>4. PICK k, n, v, f :
        /\ k = e.kind /\ n = e.name /\ v = val /\ f = frag
        /\ TokenOf(e) = [kind |-> k, name |-> n, value |-> v, fragile |-> f]
  BY <1>3, Zenon
<1>5. Tokens = {[kind |-> kind, name |-> name, value |-> value,
                  fragile |-> fragile] :
                  kind \in {"start", "item", "end"}, name \in NamesThere,
                  value \in ValuesThere, fragile \in BOOLEAN}
  BY DEF Tokens, NamesThere, ValuesThere
<1>6. k \in {"start", "item", "end"} /\ n \in NamesThere /\ v \in ValuesThere
      /\ f \in BOOLEAN
  BY <1>1, <1>2, <1>4, Zenon
<1>7. [kind |-> k, name |-> n, value |-> v, fragile |-> f] \in Tokens
  BY <1>5, <1>6
<1>8. QED
  BY <1>4, <1>7, Zenon

\* One event more is one token more.
LEMMA WrittenGrows ==
  ASSUME Types, NEW e \in EventSet, events' = Append(events, e)
  PROVE  Written' = Append(Written, TokenOf(e))
<1>1. PICK n \in Nat : n = Len(events)
  BY EventsGrow
<1>2. /\ DOMAIN events = 1 .. n /\ DOMAIN events' = 1 .. n + 1
      /\ \A k \in 1 .. n : events'[k] = events[k]
      /\ events'[n + 1] = e
  BY <1>1, EventsGrow
<1>3. PICK t : t = TokenOf(e)
  OBVIOUS
<1>4. t \in SomeTokens
  BY <1>3 DEF SomeTokens
<1>5. /\ Written \in Seq(SomeTokens) /\ Len(Written) = n
      /\ \A k \in 1 .. n : Written[k] = TokenOf(events[k])
  BY <1>1, <1>2, WrittenIs, Zenon
<1>6. PICK w : w = Append(Written, t)
  OBVIOUS
<1>7. /\ w \in Seq(SomeTokens) /\ Len(w) = n + 1
      /\ \A k \in 1 .. n : w[k] = Written[k]
      /\ w[n + 1] = t
  BY <1>4, <1>5, <1>6, AppendIs
<1>8. w = [k \in 1 .. n + 1 |-> w[k]]
  BY <1>7
<1>9. \A k \in 1 .. n + 1 : w[k] = TokenOf(events'[k])
  <2>1. \A k \in 1 .. n + 1 : k \in 1 .. n \/ k = n + 1
    BY <1>1
  <2>2. QED
    BY <1>2, <1>3, <1>5, <1>7, <2>1, Zenon
<1>10. Written' = [k \in 1 .. n + 1 |-> TokenOf(events'[k])]
  BY <1>2, Zenon DEF Written
<1>11. w = Written'
  BY <1>8, <1>9, <1>10, Zenon
<1>12. QED
  BY <1>3, <1>6, <1>11

\* A step of the writer writes the token of its event.
LEMMA EventMaps ==
  ASSUME IInv, WriterStep, NEW e \in EventSet, events' = Append(events, e),
         e.name \in NamesThere,
         e.kind = "item" => Promised(e).value \in ValuesThere,
         events = <<>> => e.kind = "start",
         events # <<>> => stack # <<>>
  PROVE  Contract!Write
<1>1. phase = "write" /\ phase' = "write" /\ UNCHANGED reader
  BY DEF WriterStep
<1>2. /\ data' = data /\ cursor' = cursor /\ got' = got /\ lost' = lost
  BY <1>1 DEF reader
<1>3. ~ lost
  BY <1>1, Zenon DEF IInv, Reader
<1>4. Stage = "write" /\ Stage' = Stage
  BY <1>1, <1>2, <1>3 DEF Stage
<1>5. Intact' = Intact
  BY <1>1 DEF Intact
<1>6. Passed' = Passed /\ Given' = Given
  BY <1>2, Zenon DEF Passed, Given
<1>7. Written' = Append(Written, TokenOf(e))
  BY WrittenGrows, Zenon DEF IInv
<1>8. TokenOf(e) \in Tokens /\ TokenOf(e).kind = e.kind
  <2>1. e.kind \in {"start", "item", "end"}
    BY DEF EventSet
  <2>2. TokenOf(e).kind = e.kind
    BY DEF TokenOf
  <2>3. TokenOf(e) \in Tokens
    BY <2>1, IsToken
  <2>4. QED
    BY <2>2, <2>3
<1>9. IF Written = <<>> THEN TokenOf(e).kind = "start"
      ELSE Contract!Open(Written) > 0
  <2>1. CASE events = <<>>
    BY <1>8, <2>1, OpenIsStack
  <2>2. CASE events # <<>>
    <3>1. Written # <<>> /\ Contract!Open(Written) = Len(stack)
      BY <2>2, OpenIsStack, Zenon
    <3>2. Len(stack) > 0
      BY <2>2 DEF IInv, Types
    <3>3. QED
      BY <3>1, <3>2
  <2>3. QED
    BY <2>1, <2>2
<1>10. QED
  BY <1>4, <1>5, <1>6, <1>7, <1>8, <1>9, WriteMaps, Zenon

LEMMA ValuesAreNat ==
  ASSUME Types
  PROVE  Values \in Nat
<1> DEFINE A == {k \in DOMAIN events : events[k].kind # "end"}
<1>1. PICK n \in Nat : n = Len(events) /\ DOMAIN events = 1 .. n
  BY WrittenIs, Zenon
<1>2. IsFiniteSet(1 .. n) /\ A \subseteq 1 .. n
  <2>1. IsFiniteSet(1 .. n)
    BY FS_Interval
  <2>2. QED
    BY <1>1, <2>1
<1>3. IsFiniteSet(A)
  BY <1>2, FS_Subset
<1>4. QED
  BY <1>3, FS_CardinalityType DEF Values

\* What is appended to the events is an event.
LEMMA NewEvent ==
  ASSUME Types, Types', NEW e, events' = Append(events, e)
  PROVE  e \in EventSet
<1>1. events \in Seq(EventSet) /\ events' \in Seq(EventSet)
  BY DEF Types
<1>2. PICK n \in Nat : n = Len(events)
  BY <1>1
<1>3. Len(events') = n + 1 /\ events'[n + 1] = e
  BY <1>1, <1>2
<1>4. QED
  BY <1>1, <1>2, <1>3


\* Each document's items are counted on, by one for each value.
LEMMA NextIndexCounts ==
  ASSUME Types, Indices, stack # <<>>, Values \in Nat
  PROVE  /\ NextIndex \in Seq(Loop)
         /\ \A s \in DOMAIN NextIndex : NextIndex[s].next <= Values + 1
<1>1. /\ loops \in Seq(Loop) /\ Len(loops) = Len(stack) /\ stack \in Seq(Nat)
  BY DEF Types, Loop
<1>2. PICK n \in Nat : n = Len(loops) /\ n >= 1 /\ DOMAIN loops = 1 .. n
  BY <1>1
<1>3. NextIndex \in Seq(Loop) /\ Len(NextIndex) = n
  BY <1>2, NextIndexIs, Zenon
<1>4. DOMAIN NextIndex = 1 .. n
  BY <1>2, <1>3
<1>5. ASSUME NEW s \in 1 .. n
      PROVE  NextIndex[s].next <= Values + 1
  <2>1. loops[s] \in Loop /\ loops[s].next <= Values
    BY <1>1, <1>2 DEF Indices
  <2>2. loops[s].next \in Nat
    BY <2>1 DEF Loop
  <2>3. CASE s = n
    <3>1. NextIndex[s] = [loops[s] EXCEPT !.next = @ + 1]
      BY <1>2, <2>3 DEF NextIndex
    <3>2. NextIndex[s].next = loops[s].next + 1
      BY <2>1, <3>1 DEF Loop
    <3>3. QED
      BY <2>1, <2>2, <3>2
  <2>4. CASE s # n
    <3>1. NextIndex[s] = loops[s]
      BY <1>2, <2>4 DEF NextIndex
    <3>2. QED
      BY <2>1, <2>2, <3>1
  <2>5. QED
    BY <2>3, <2>4
<1>6. QED
  BY <1>3, <1>4, <1>5

\* object_start and array_start write the token of a document.
LEMMA StartMaps ==
  ASSUME IInv, IInv', WriterStep, NEW type, NEW name, Start(type, name),
         name \in NamesThere,
         events # <<>> => stack # <<>>
  PROVE  /\ Contract!Write
         /\ Values \in Nat /\ Values' = Values + 1
<1>1. PICK e : /\ events' = Append(events, e)
               /\ e.kind = "start" /\ e.name = name
  <2>1. PICK a, b, c : events' = Append(events,
                         Event("start", type, name, a, b, c))
    BY Zenon DEF Start
  <2>2. /\ Event("start", type, name, a, b, c).kind = "start"
        /\ Event("start", type, name, a, b, c).name = name
    BY DEF Event
  <2>3. QED
    BY <2>1, <2>2
<1>2. e \in EventSet
  BY <1>1, NewEvent DEF IInv
<1>3. "start" # "end" /\ "start" # "item"
  OBVIOUS
<1>4. Contract!Write
  BY <1>1, <1>2, <1>3, EventMaps, Zenon
<1>5. Values \in Nat /\ Values' = Values + 1
  BY <1>1, <1>2, <1>3, ValuesGrow, Zenon DEF IInv
<1>6. QED
  BY <1>4, <1>5

LEMMA WriterMaps ==
  ASSUME IInv, Indices, WriteTop \/ WriteDocument \/ WriteItem \/ WriteEnd
  PROVE  Contract!Write /\ Indices'
<1>0. IInv'
  BY WriterKeeps, Zenon
<1>1. CASE WriteTop
  <2>1. PICK type \in {Object, Array} :
          /\ Start(type, <<>>)
          /\ loops' = <<[type |-> type, next |-> 0]>>
    BY <1>1 DEF WriteTop
  <2>2. WriterStep /\ events = <<>> /\ <<>> \in NamesThere
    BY <1>1 DEF WriteTop, NamesThere
  <2>3. Contract!Write /\ Values \in Nat /\ Values' = Values + 1
    BY <1>0, <2>1, <2>2, StartMaps
  <2>4. Indices'
    BY <2>1, <2>3 DEF Indices
  <2>5. QED
    BY <2>3, <2>4
<1>2. CASE WriteDocument
  <2>1. PICK type \in {Object, Array}, name \in MemberNames :
          /\ Start(type, name)
          /\ loops' = Append(NextIndex, [type |-> type, next |-> 0])
    BY <1>2 DEF WriteDocument
  <2>2. stack # <<>> /\ WriterStep /\ MoreValues
    BY <1>2 DEF WriteDocument
  <2>3. Values \in Nat
    BY ValuesAreNat DEF IInv
  <2>4. name \in NamesThere
    BY <2>1, <2>2, <2>3, NamesOfTokens DEF IInv, NamesThere
  <2>5. Contract!Write /\ Values' = Values + 1
    BY <1>0, <2>1, <2>2, <2>4, StartMaps
  <2>6. /\ NextIndex \in Seq(Loop)
        /\ \A s \in DOMAIN NextIndex : NextIndex[s].next <= Values + 1
    BY <2>2, <2>3, NextIndexCounts, Zenon DEF IInv
  <2>7. PICK e \in Loop : e = [type |-> type, next |-> 0] /\ e.next = 0
    BY <2>1 DEF Loop
  <2>8. PICK n \in Nat, f \in Seq(Loop) : f = NextIndex /\ n = Len(f)
    BY <2>6
  <2>9. /\ loops' = Append(f, e) /\ Len(loops') = n + 1
        /\ DOMAIN loops' = 1 .. n + 1
        /\ \A s \in 1 .. n : loops'[s] = f[s]
        /\ loops'[n + 1] = e
    BY <2>1, <2>7, <2>8
  <2>10. \A s \in 1 .. n : f[s].next <= Values + 1
    BY <2>6, <2>8
  <2>11. Indices'
    BY <2>3, <2>5, <2>7, <2>9, <2>10 DEF Indices
  <2>12. QED
    BY <2>5, <2>11
<1>3. CASE WriteItem
  <2>1. PICK v \in Scalars, name \in MemberNames :
          events' = Append(events,
                      Event("item", v.type, name, v.value, Len(dst), Len(dst)))
    BY <1>3 DEF WriteItem
  <2>2. /\ stack # <<>> /\ WriterStep /\ MoreValues
        /\ loops' = NextIndex
    BY <1>3 DEF WriteItem
  <2>3. PICK e : /\ events' = Append(events, e)
                 /\ e.kind = "item" /\ e.name = name
                 /\ e.type = v.type /\ e.value = v.value
    BY <2>1 DEF Event
  <2>4. e \in EventSet
    BY <1>0, <2>3, NewEvent DEF IInv
  <2>5. Values \in Nat /\ Values' = Values + 1
    BY <2>3, <2>4, ValuesGrow DEF IInv
  <2>6. name \in NamesThere
    BY <2>1, <2>2, <2>5, NamesOfTokens DEF IInv, NamesThere
  <2>7. Promised(e).value \in ValuesThere
    <3>1. Promised(e).value =
            Promised([type |-> v.type, name |-> <<>>, value |-> v.value]).value
      BY <2>3 DEF Promised
    <3>2. QED
      BY <3>1 DEF ValuesThere
  <2>8. events # <<>>
    BY <2>2, Zenon DEF IInv, Levels
  <2>9. Contract!Write
    BY <2>2, <2>3, <2>4, <2>6, <2>7, <2>8, EventMaps
  <2>10. \A s \in DOMAIN NextIndex : NextIndex[s].next <= Values + 1
    BY <2>2, <2>5, NextIndexCounts, Zenon DEF IInv
  <2>11. Indices'
    BY <2>2, <2>5, <2>10, Zenon DEF Indices
  <2>12. QED
    BY <2>9, <2>11
<1>4. CASE WriteEnd
  <2>1. PICK e : /\ events' = Append(events, e)
                 /\ e.kind = "end" /\ e.name = <<>>
    BY <1>4 DEF WriteEnd, Event
  <2>2. stack # <<>> /\ WriterStep /\ loops' = Front(loops)
    BY <1>4 DEF WriteEnd
  <2>3. e \in EventSet
    BY <1>0, <2>1, NewEvent DEF IInv
  <2>4. Values \in Nat /\ Values' = Values
    BY <2>1, <2>3, ValuesGrow DEF IInv
  <2>5. events # <<>> /\ e.name \in NamesThere
    BY <2>1, <2>2 DEF IInv, Levels, NamesThere
  <2>6. Contract!Write
    BY <2>1, <2>2, <2>3, <2>5, EventMaps
  <2>7. Indices'
    <3>1. /\ loops \in Seq(Loop) /\ Len(loops) = Len(stack)
          /\ stack \in Seq(Nat)
      BY DEF IInv, Types, Loop
    <3>2. PICK n \in Nat : n = Len(loops) /\ n >= 1 /\ DOMAIN loops = 1 .. n
      BY <2>2, <3>1
    <3>3. /\ Front(loops) \in Seq(Loop) /\ Len(Front(loops)) = n - 1
          /\ \A s \in 1 .. n - 1 : Front(loops)[s] = loops[s]
      BY <3>1, <3>2, FrontIs
    <3>4. DOMAIN loops' = 1 .. n - 1
      BY <2>2, <3>2, <3>3
    <3>5. \A s \in 1 .. n - 1 : s \in 1 .. n
      BY <3>2
    <3>6. QED
      BY <2>2, <2>4, <3>2, <3>3, <3>4, <3>5, Zenon DEF Indices
  <2>8. QED
    BY <2>6, <2>7
<1>5. QED
  BY <1>1, <1>2, <1>3, <1>4


-----------------------------------------------------------------------------
(* Reading. *)

\* What was written stays as it is while the reader reads.
LEMMA TextSame ==
  ASSUME UNCHANGED writer
  PROVE  /\ Written' = Written /\ (Indices => Indices')
         /\ data' = data /\ phase # "write" /\ phase' # "write" =>
              Intact' = Intact
<1>1. dst' = dst /\ loops' = loops /\ events' = events
  BY DEF writer
<1>2. Written' = Written
  BY <1>1, Zenon DEF Written
<1>3. Indices => Indices'
  <2>1. Values' = Values
    BY <1>1, Zenon DEF Values
  <2>2. QED
    BY <1>1, <2>1, Zenon DEF Indices
<1>4. data' = data /\ phase # "write" /\ phase' # "write" => Intact' = Intact
  BY <1>1 DEF Intact
<1>5. QED
  BY <1>2, <1>3, <1>4

\* Once the reader has lost its place, the contract promises nothing.
LEMMA LostMaps ==
  ASSUME lost, lost', UNCHANGED writer, data' = data,
         phase # "write", phase' # "write"
  PROVE  UNCHANGED Contract!vars
<1>1. Written' = Written /\ Intact' = Intact
  BY TextSame, Zenon
<1>2. Stage = "lost" /\ Stage' = "lost"
  BY DEF Stage
<1>3. Passed = 0 /\ Passed' = 0 /\ Given = <<>> /\ Given' = <<>>
  BY Zenon DEF Passed, Given
<1>4. QED
  BY <1>1, <1>2, <1>3, StutterMaps, Zenon

LEMMA DeliverMaps ==
  ASSUME IInv, Deliver
  PROVE  Contract!Send
<1>1. /\ phase = "write" /\ phase' = "sent" /\ events # <<>> /\ stack = <<>>
      /\ UNCHANGED <<writer, i, depth, cursor, got, lost>>
  BY DEF Deliver
<1>2. ~ lost /\ ~ lost'
  BY <1>1, Zenon DEF IInv, Reader
<1>3. Stage = "write" /\ Stage' = "sent"
  BY <1>1, <1>2 DEF Stage
<1>4. Written' = Written
  BY <1>1, TextSame, Zenon
<1>5. Passed' = Passed /\ Given' = Given
  BY <1>1, Zenon DEF Passed, Given
<1>6. Intact' \in BOOLEAN
  BY DEF Intact
<1>7. Written # <<>> /\ Contract!Open(Written) = 0
  BY <1>1, OpenIsStack
<1>8. QED
  BY <1>3, <1>4, <1>5, <1>6, <1>7, SendMaps, Zenon

LEMMA ReadTopMaps ==
  ASSUME IInv, Regular, ReadTop
  PROVE  Contract!Begin
<1>1. /\ phase = "sent" /\ phase' = "read" /\ DocumentFits(0) /\ cursor' = 2
      /\ UNCHANGED writer /\ data' = data /\ got' = got /\ lost' = lost
  BY DEF ReadTop
<1>2. ~ lost /\ ~ lost'
  BY <1>1, Zenon DEF IInv, Reader
<1>3. Stage = "sent" /\ Stage' = "read"
  BY <1>1, <1>2 DEF Stage
<1>4. Written' = Written /\ Intact' = Intact
  <2>1. phase # "write" /\ phase' # "write"
    BY <1>1
  <2>2. QED
    BY <1>1, <2>1, TextSame, Zenon
<1>5. Intact
  <2>1. data = dst
    BY <1>1, Whole, Zenon
  <2>2. QED
    BY <2>1 DEF Intact
<1>6. Passed' = 1 /\ Given' = Given
  <2>1. Passed' = 2 - 1
    BY <1>1, <1>2, Zenon DEF Passed
  <2>2. Given' = Given
    BY <1>1, Zenon DEF Given
  <2>3. QED
    BY <2>1, <2>2
<1>7. QED
  BY <1>3, <1>4, <1>5, <1>6, BeginMaps, Zenon

LEMMA ReadTopArrayMaps ==
  ASSUME IInv, ReadTopArray
  PROVE  Contract!Lose
<1>1. /\ phase = "sent" /\ phase' = "ignored" /\ events[1].type = Array
      /\ UNCHANGED writer /\ UNCHANGED reader
  BY DEF ReadTopArray
<1>2. data' = data /\ cursor' = cursor /\ got' = got /\ lost' = lost
  BY <1>1 DEF reader
<1>3. ~ lost /\ got = <<>> /\ cursor = 1 /\ events # <<>>
  BY <1>1, Zenon DEF IInv, Reader
<1>4. Stage = "sent" /\ Stage' = "lost"
  BY <1>1, <1>3 DEF Stage
<1>5. Written' = Written /\ Intact' = Intact
  <2>1. phase # "write" /\ phase' # "write"
    BY <1>1
  <2>2. QED
    BY <1>1, <1>2, <2>1, TextSame, Zenon
<1>6. Passed + 1 = 1 /\ Passed' = 0 /\ Given' = <<>>
  <2>1. Passed = 1 - 1 /\ Passed' = 1 - 1
    BY <1>2, <1>3, Zenon DEF Passed
  <2>2. Given' = <<>>
    BY <1>2, <1>3, Zenon DEF Given
  <2>3. QED
    BY <2>1, <2>2
<1>7. Written[1].fragile
  <2>1. 1 \in DOMAIN events
    <3>1. events \in Seq(EventSet)
      BY DEF IInv, Types
    <3>2. QED
      BY <1>3, <3>1
  <2>2. Written[1] = TokenOf(events[1]) /\ events[1].at = 0
    BY <1>3, <2>1, WrittenIs, Zenon DEF IInv, Layout
  <2>3. TokenOf(events[1]).fragile
    BY <1>1, <2>2 DEF TokenOf
  <2>4. QED
    BY <2>2, <2>3, Zenon
<1>8. Stage \in {"sent", "read"}
  BY <1>4
<1>9. QED
  BY <1>4, <1>5, <1>6, <1>7, <1>8, LoseMaps, Zenon

\* A round of a reader that has its place: its token is that of the next event.
LEMMA RoundMaps ==
  ASSUME IInv, Regular, ~ lost, phase = "read", phase' # "write",
         UNCHANGED writer, data' = data
  PROVE  /\ Round
         /\ Passed + 1 = cursor /\ cursor \in DOMAIN events /\ cursor \in Nat
         /\ Written[Passed + 1] = TokenOf(events[cursor])
         /\ Written[Passed + 1].kind = events[cursor].kind
         /\ Written[Passed + 1].fragile <=> events[cursor].type \in Mismeasured
         /\ Len(Written) = Len(events)
<1>1. /\ cursor \in DOMAIN events /\ cursor \in Nat /\ cursor >= 2
      /\ stack = <<>> /\ DOMAIN events = 1 .. Len(events) /\ Len(events) \in Nat
  BY Reading, Zenon
<1>2. Stage = "read"
  BY DEF Stage
<1>3. Written' = Written /\ Intact' = Intact
  BY TextSame
<1>4. Passed + 1 = cursor
  <2>1. Passed = cursor - 1
    BY Zenon DEF Passed
  <2>2. QED
    BY <1>1, <2>1
<1>5. /\ Written[cursor] = TokenOf(events[cursor])
      /\ Written[cursor].kind = events[cursor].kind
      /\ Len(Written) = Len(events)
  BY <1>1, WrittenIs, Zenon DEF IInv
<1>6. events[cursor].at # 0
  <2>1. 1 \in DOMAIN events /\ 1 \in 1 .. cursor - 1 /\ events # <<>>
    BY <1>1
  <2>2. Stop(events[1]) <= events[cursor].at
    BY <1>1, <2>1, Zenon DEF IInv, Layout, Placed
  <2>3. /\ Stop(events[1]) \in Nat /\ Stop(events[1]) >= events[1].at + 1
        /\ events[1].at = 0 /\ events[cursor].at \in Nat
    BY <1>1, <2>1, EventIs, Zenon DEF IInv, Layout
  <2>4. QED
    BY <2>2, <2>3
<1>7. TokenOf(events[cursor]).fragile <=> events[cursor].type \in Mismeasured
  BY <1>6 DEF TokenOf
<1>8. QED
  BY <1>1, <1>2, <1>3, <1>4, <1>5, <1>7, Zenon DEF Round

LEMMA ReadEndMaps ==
  ASSUME IInv, Regular, ~ lost, ReadEnd
  PROVE  Contract!End
<1>1. /\ AtEnd /\ phase = "read"
      /\ phase' = (IF depth = 1 THEN "done" ELSE "read")
      /\ cursor' = cursor + 1 /\ got' = <<>>
      /\ UNCHANGED writer /\ data' = data /\ lost' = lost
  BY Zenon DEF ReadEnd, AtEnd, InData
<1>2. phase' # "write" /\ phase' \in {"read", "done"}
  BY <1>1
<1>3. /\ Round /\ Passed + 1 = cursor /\ cursor \in DOMAIN events
      /\ cursor \in Nat
      /\ Written[Passed + 1].kind = events[cursor].kind
      /\ Len(Written) = Len(events)
  BY <1>1, <1>2, RoundMaps, Zenon
<1>4. events[cursor].kind = "end"
  <2>1. events[cursor].kind \in {"start", "item", "end"}
    BY <1>1, Reading, Zenon
  <2>2. QED
    BY <1>1, <2>1, AtAnItem, AtADocument
<1>5. Passed' = Passed + 1 /\ Given' = <<>>
  <2>1. Passed' = (cursor + 1) - 1
    BY <1>1, Zenon DEF Passed
  <2>2. (cursor + 1) - 1 = cursor
    BY <1>3
  <2>3. Given' = <<>>
    BY <1>1, Zenon DEF Given
  <2>4. QED
    BY <1>3, <2>1, <2>2, <2>3, Zenon
<1>6. depth = 1 <=> cursor = Len(events)
  <2>1. /\ stack = <<>> /\ depth = events[cursor].depth /\ depth \in Nat
        /\ depth >= 1 /\ Len(events) \in Nat /\ DOMAIN events = 1 .. Len(events)
    BY <1>1, Reading, Zenon
  <2>2. After(events[cursor]) = depth - 1
    BY <1>4, <2>1 DEF After
  <2>3. /\ After(events[cursor]) >= 1 => cursor + 1 \in DOMAIN events
        /\ After(events[cursor]) = 0 => cursor = Len(events)
    BY <1>3, <2>1, NextEvent, Zenon
  <2>4. QED
    BY <1>3, <2>1, <2>2, <2>3
<1>7. Stage' = phase'
  BY <1>1, <1>2 DEF Stage
<1>8. Stage' = IF Passed + 1 = Len(Written) THEN "done" ELSE "read"
  BY <1>1, <1>3, <1>6, <1>7, Zenon
<1>9. QED
  BY <1>3, <1>4, <1>5, <1>8, EndMaps, Zenon

LEMMA TakeDocumentMaps ==
  ASSUME IInv, Regular, ~ lost, TakeDocument
  PROVE  Contract!Enter
<1>1. /\ AtItem /\ phase = "read" /\ phase' = phase /\ Type \in {Object, Array}
      /\ got' = <<>> /\ lost' = lost /\ cursor' = cursor + 1
      /\ UNCHANGED writer /\ data' = data
  BY Zenon DEF TakeDocument, AtItem, InData
<1>2. phase' # "write"
  BY <1>1
<1>3. /\ Round /\ Passed + 1 = cursor /\ cursor \in Nat
      /\ Written[Passed + 1].kind = events[cursor].kind
  BY <1>1, <1>2, RoundMaps, Zenon
<1>4. events[cursor].kind = "start"
  BY <1>1, AtWhich, Zenon
<1>5. Passed' = Passed + 1 /\ Given' = <<>>
  <2>1. Passed' = (cursor + 1) - 1
    BY <1>1, Zenon DEF Passed
  <2>2. (cursor + 1) - 1 = cursor
    BY <1>3
  <2>3. Given' = <<>>
    BY <1>1, Zenon DEF Given
  <2>4. QED
    BY <1>3, <2>1, <2>2, <2>3, Zenon
<1>6. Stage' = Stage
  BY <1>1, Zenon DEF Stage
<1>7. QED
  BY <1>3, <1>4, <1>5, <1>6, EnterMaps, Zenon

\* What skip() mismeasures is fragile for the contract.
LEMMA FragileIs ==
  ASSUME IInv, Regular, ~ lost, AtItem
  PROVE  Type \in Mismeasured <=> events[cursor].type \in Mismeasured
<1>1. phase = "read"
  BY Zenon DEF AtItem, InData
<1>2. data = dst /\ cursor \in DOMAIN events /\ i = events[cursor].at
  BY <1>1, Reading, Zenon
<1>3. CASE Type \in {Object, Array}
  <2>1. events[cursor].kind = "start"
    BY <1>3, AtWhich, Zenon
  <2>2. events[cursor].type \in {Object, Array}
    <3>1. EventOK(events[cursor])
      BY <1>2, EventIs
    <3>2. QED
      BY <2>1, <3>1 DEF EventOK
  <2>3. \A type \in {Object, Array} : type \notin Mismeasured
    BY DEF Mismeasured, Object, Array, String, Binary, Javascript
  <2>4. QED
    BY <1>3, <2>2, <2>3, Zenon
<1>4. CASE Type \notin {Object, Array}
  <2>1. events[cursor].kind = "item"
    BY <1>4, AtWhich, Zenon
  <2>2. Type = WireType(events[cursor])
    BY <1>2, <2>1, ItemFound, Zenon
  <2>3. \A v : WireType(v) \in Mismeasured <=> v.type \in Mismeasured
    BY DEF WireType, Mismeasured, Integer, Int32, Int64, String, Binary,
       Javascript
  <2>4. QED
    BY <2>2, <2>3, Zenon
<1>5. QED
  BY <1>3, <1>4

\* The round that loses the place.
LEMMA LosingMaps ==
  ASSUME IInv, Regular, ~ lost, AtItem, Type \in Mismeasured, lost',
         phase' = phase, UNCHANGED writer, data' = data
  PROVE  Contract!Lose
<1>1. phase = "read" /\ phase' # "write"
  <2>1. phase = "read"
    BY Zenon DEF AtItem, InData
  <2>2. QED
    BY <2>1
<1>2. /\ Round
      /\ Written[Passed + 1].fragile <=> events[cursor].type \in Mismeasured
  BY <1>1, RoundMaps, Zenon
<1>3. Written[Passed + 1].fragile
  BY <1>2, FragileIs, Zenon
<1>4. Stage \in {"sent", "read"} /\ Stage' = "lost"
  BY <1>1 DEF Stage
<1>5. Passed' = 0 /\ Given' = <<>>
  BY Zenon DEF Passed, Given
<1>6. QED
  BY <1>2, <1>3, <1>4, <1>5, LoseMaps, Zenon DEF Round

LEMMA TakeValueMaps ==
  ASSUME IInv, Regular, ~ lost, TakeValue
  PROVE  Contract!Take \/ Contract!Lose
<1>1. /\ AtItem /\ phase = "read" /\ phase' = phase
      /\ Type \notin {Object, Array}
      /\ got' = [name  |-> SubSeq(data, i + 2, ValueAt - 1),
                 value |-> Value(Type, ValueAt)]
      /\ lost' = (lost \/ Type = Javascript)
      /\ cursor' = cursor + 1 /\ UNCHANGED writer /\ data' = data
  BY Zenon DEF TakeValue, AtItem, InData
<1>2. phase' # "write"
  BY <1>1
<1>3. /\ Round /\ Passed + 1 = cursor /\ cursor \in Nat
      /\ Written[Passed + 1] = TokenOf(events[cursor])
      /\ Written[Passed + 1].kind = events[cursor].kind
  BY <1>1, <1>2, RoundMaps, Zenon
<1>4. events[cursor].kind = "item"
  BY <1>1, AtWhich, Zenon
<1>5. CASE Type = Javascript
  <2>1. Type \in Mismeasured
    BY <1>5 DEF Mismeasured
  <2>2. QED
    BY <1>1, <1>5, <2>1, LosingMaps, Zenon
<1>6. CASE Type # Javascript
  <2>1. ~ lost' /\ got' = Promised(events[cursor])
    BY <1>1, <1>4, <1>6, AtAnItem, Zenon
  <2>2. Given' = [name  |-> TokenOf(events[cursor]).name,
                  value |-> TokenOf(events[cursor]).value]
    <3>1. Given' = Promised(events[cursor])
      BY <2>1, Zenon DEF Given
    <3>2. /\ TokenOf(events[cursor]).name = events[cursor].name
          /\ TokenOf(events[cursor]).value = Promised(events[cursor]).value
      BY <1>4 DEF TokenOf
    <3>3. Promised(events[cursor]) =
            [name  |-> events[cursor].name,
             value |-> Promised(events[cursor]).value]
      BY DEF Promised
    <3>4. QED
      BY <3>1, <3>2, <3>3, Zenon
  <2>3. Passed' = Passed + 1
    <3>1. Passed' = (cursor + 1) - 1
      BY <1>1, <2>1, Zenon DEF Passed
    <3>2. (cursor + 1) - 1 = cursor
      BY <1>3
    <3>3. QED
      BY <1>3, <3>1, <3>2, Zenon
  <2>4. Stage' = Stage
    BY <1>1, <2>1 DEF Stage
  <2>5. QED
    BY <1>3, <1>4, <2>2, <2>3, <2>4, TakeMaps, Zenon
<1>7. QED
  BY <1>5, <1>6

LEMMA SkipValueMaps ==
  ASSUME IInv, Regular, ~ lost, SkipValue
  PROVE  Contract!Skip \/ Contract!Lose
<1>1. /\ AtItem /\ phase = "read" /\ phase' = phase
      /\ got' = <<>> /\ lost' = (lost \/ Type \in Mismeasured)
      /\ cursor' = (IF lost' THEN cursor ELSE EndOf(cursor) + 1)
      /\ UNCHANGED writer /\ data' = data
  BY Zenon DEF SkipValue, AtItem, InData
<1>2. phase' # "write"
  BY <1>1
<1>3. /\ Round /\ Passed + 1 = cursor /\ cursor \in DOMAIN events
      /\ Written[Passed + 1].kind = events[cursor].kind
      /\ Written[Passed + 1].fragile <=> events[cursor].type \in Mismeasured
  BY <1>1, <1>2, RoundMaps, Zenon
<1>4. CASE Type \in Mismeasured
  BY <1>1, <1>4, LosingMaps, Zenon
<1>5. CASE Type \notin Mismeasured
  <2>1. ~ lost' /\ cursor' = EndOf(cursor) + 1
    BY <1>1, <1>5, Zenon
  <2>2. ~ Written[Passed + 1].fragile
    BY <1>1, <1>3, <1>5, FragileIs, Zenon
  <2>3. events[cursor].kind \in {"start", "item"}
    BY <1>1, AtWhich
  <2>4. Contract!EndOf(cursor) = EndOf(cursor) /\ EndOf(cursor) \in Int
    <3>1. stack = <<>> /\ DOMAIN events = 1 .. Len(events)
      BY <1>1, Reading, Zenon
    <3>2. Contract!EndOf(cursor) = EndOf(cursor)
      BY <1>3, <2>3, <3>1, SameEnd, Zenon
    <3>3. EndOf(cursor) \in DOMAIN events
      <4>1. CASE events[cursor].kind = "item"
        BY <1>3, <4>1 DEF EndOf
      <4>2. CASE events[cursor].kind = "start"
        BY <1>1, <4>2, AtADocument, Zenon
      <4>3. QED
        BY <2>3, <4>1, <4>2
    <3>4. QED
      BY <3>1, <3>2, <3>3
  <2>5. Passed' = Contract!EndOf(Passed + 1)
    <3>1. Passed' = (EndOf(cursor) + 1) - 1
      BY <2>1, Zenon DEF Passed
    <3>2. (EndOf(cursor) + 1) - 1 = EndOf(cursor)
      BY <2>4
    <3>3. QED
      BY <1>3, <2>4, <3>1, <3>2, Zenon
  <2>6. Given' = <<>> /\ Stage' = Stage
    <3>1. Given' = <<>>
      BY <1>1, Zenon DEF Given
    <3>2. Stage' = Stage
      BY <1>1, <2>1 DEF Stage
    <3>3. QED
      BY <3>1, <3>2
  <2>7. Written[Passed + 1].kind # "end"
    BY <1>3, <2>3
  <2>8. QED
    BY <1>3, <2>2, <2>5, <2>6, <2>7, SkipMaps, Zenon
<1>6. QED
  BY <1>4, <1>5

\* Only what was cut short is refused, and before anything is read of it.
LEMMA ReadErrorMaps ==
  ASSUME IInv, Regular, ~ lost, ReadError
  PROVE  Contract!Refuse
<1>1. /\ phase \in {"sent", "read"} /\ phase' = "error" /\ UNCHANGED writer
      /\ data' = data /\ cursor' = cursor /\ got' = got /\ lost' = lost
  BY Zenon DEF ReadError, AtItem, InData, reader
<1>2. Len(data) < Len(dst)
  BY NoError, Zenon
<1>3. Len(data) # Len(dst)
  <2>1. Len(data) \in Nat /\ Len(dst) \in Nat
    BY DEF IInv, Types
  <2>2. QED
    BY <1>2, <2>1
<1>4. phase = "sent"
  <2>1. phase # "read"
    BY <1>3, Reading, Zenon
  <2>2. QED
    BY <1>1, <2>1
<1>5. Stage = "sent" /\ Stage' = "failed"
  BY <1>1, <1>4 DEF Stage
<1>6. Written' = Written /\ Intact' = Intact
  <2>1. phase # "write" /\ phase' # "write"
    BY <1>1
  <2>2. QED
    BY <1>1, <2>1, TextSame, Zenon
<1>7. ~ Intact
  BY <1>3, <1>4 DEF Intact
<1>8. Passed' = Passed /\ Given' = Given
  BY <1>1, Zenon DEF Passed, Given
<1>9. QED
  BY <1>5, <1>6, <1>7, <1>8, RefuseMaps, Zenon


-----------------------------------------------------------------------------
(* What holds of every behaviour. *)

LEMMA InitMaps == Init => Contract!Init /\ Indices
<1> SUFFICES ASSUME Init
             PROVE  Contract!Init /\ Indices
  OBVIOUS
<1>1. /\ phase = "write" /\ events = <<>> /\ loops = <<>> /\ cursor = 1
      /\ got = <<>> /\ ~ lost
  BY DEF Init
<1>2. Stage = "write" /\ Intact
  BY <1>1 DEF Stage, Intact
<1>3. Written = <<>>
  BY <1>1 DEF Written
<1>4. Passed = 0 /\ Given = <<>>
  <2>1. Passed = 1 - 1
    BY <1>1, Zenon DEF Passed
  <2>2. Given = <<>>
    BY <1>1, Zenon DEF Given
  <2>3. QED
    BY <2>1, <2>2
<1>5. Intact = TRUE
  BY <1>2 DEF Intact
<1>6. Contract!Init
  BY <1>2, <1>3, <1>4, <1>5, Zenon
     DEF Contract!Init, Contract!Nothing, Stage, Written, Intact, Passed, Given
<1>7. Indices
  BY <1>1 DEF Indices
<1>8. QED
  BY <1>6, <1>7

LEMMA IndicesKept == IInv /\ Indices /\ [Next]_vars => Indices'
<1> SUFFICES ASSUME IInv, Indices, [Next]_vars
             PROVE  Indices'
  OBVIOUS
<1>1. CASE WriteTop \/ WriteDocument \/ WriteItem \/ WriteEnd
  BY <1>1, WriterMaps, Zenon
<1>2. CASE Deliver \/ ReadTop \/ ReadTopArray \/ ReadEnd \/ TakeValue
             \/ TakeDocument \/ SkipValue \/ ReadError \/ UNCHANGED vars
  <2>1. UNCHANGED writer
    BY <1>2, Zenon DEF Deliver, ReadTop, ReadTopArray, ReadEnd, TakeValue,
       TakeDocument, SkipValue, ReadError, vars
  <2>2. QED
    BY <2>1, TextSame, Zenon
<1>3. QED
  BY <1>1, <1>2, Zenon DEF Next

LEMMA StepMaps ==
  ASSUME IInv, Indices, Regular, [Next]_vars
  PROVE  [Contract!Next]_(Contract!vars)
<1>1. CASE WriteTop \/ WriteDocument \/ WriteItem \/ WriteEnd
  BY <1>1, WriterMaps, Zenon DEF Contract!Next
<1>2. CASE Deliver
  BY <1>2, DeliverMaps, Zenon DEF Contract!Next
<1>3. CASE ReadTop
  BY <1>3, ReadTopMaps, Zenon DEF Contract!Next
<1>4. CASE ReadTopArray
  BY <1>4, ReadTopArrayMaps, Zenon DEF Contract!Next
<1>5. CASE ReadEnd \/ TakeValue \/ TakeDocument \/ SkipValue \/ ReadError
  <2>1. CASE lost
    <3>1. phase # "write"
      BY <2>1, Zenon DEF IInv, Reader
    <3>2. /\ UNCHANGED writer /\ data' = data /\ lost'
      BY <1>5, <2>1, Zenon DEF ReadEnd, TakeValue, TakeDocument, SkipValue,
         ReadError, reader
    <3>3. phase' # "write"
      <4>1. phase' \in {phase, "read", "done", "error"}
        BY <1>5 DEF ReadEnd, TakeValue, TakeDocument, SkipValue, ReadError
      <4>2. QED
        BY <3>1, <4>1
    <3>4. QED
      BY <2>1, <3>1, <3>2, <3>3, LostMaps, Zenon
  <2>2. CASE ~ lost
    BY <1>5, <2>2, ReadEndMaps, TakeValueMaps, TakeDocumentMaps, SkipValueMaps,
       ReadErrorMaps, Zenon DEF Contract!Next
  <2>3. QED
    BY <2>1, <2>2
<1>6. CASE UNCHANGED vars
  <2>1. /\ phase' = phase /\ UNCHANGED writer /\ UNCHANGED reader
    BY <1>6 DEF vars
  <2>2. /\ dst' = dst /\ data' = data /\ cursor' = cursor /\ got' = got
        /\ lost' = lost
    BY <2>1 DEF writer, reader
  <2>3. Written' = Written
    BY <2>1, TextSame, Zenon
  <2>4. Stage' = Stage /\ Intact' = Intact /\ Passed' = Passed /\ Given' = Given
    BY <2>1, <2>2, Zenon DEF Stage, Intact, Passed, Given
  <2>5. QED
    BY <2>3, <2>4, StutterMaps, Zenon
<1>7. QED
  BY <1>1, <1>2, <1>3, <1>4, <1>5, <1>6, Zenon DEF Next

(***************************************************************************)
(* The codec keeps the contract of codec.hpp (bson.hpp:28-260): whatever   *)
(* is taken, entered or skipped, at any depth, the loops are given the     *)
(* tokens that were written, in their order and with their values, and     *)
(* only what was cut short is refused, before anything is read of it.      *)
(***************************************************************************)
THEOREM ContractIsKept == Spec /\ []Regular => KeepsContract
<1>1. Init => Contract!Init /\ Indices
  BY InitMaps
<1>2. IInv /\ Indices /\ [Next]_vars => Indices'
  BY IndicesKept
<1>3. IInv /\ Indices /\ Regular /\ [Next]_vars
        => [Contract!Next]_(Contract!vars)
  BY StepMaps
<1>4. QED
  BY <1>1, <1>2, <1>3, Invariant, PTL DEF Spec, KeepsContract, Contract!Spec

-----------------------------------------------------------------------------
(* What CodecContractProofs proves of a reader holds of this one.          *)

AnyReader ==
  INSTANCE CodecContractProofs WITH
    stage   <- CASE lost \/ phase = "ignored" -> "lost"
                 [] ~ lost /\ phase = "error" -> "failed"
                 [] OTHER -> phase,
    written <- [k \in DOMAIN events |-> TokenOf(events[k])],
    intact  <- Len(data) = Len(dst) \/ phase = "write",
    passed  <- IF lost THEN 0 ELSE cursor - 1,
    given   <- IF lost THEN <<>> ELSE got

\* Both instances of the contract count, and find ends, alike.
LEMMA SameOpen ==
  ASSUME NEW s
  PROVE  Contract!Open(s) = AnyReader!Open(s)
BY Zenon DEF Contract!Open, AnyReader!Open, Contract!CountOf, AnyReader!CountOf,
   Contract!Cardinality, AnyReader!Cardinality

LEMMA SameEndOf ==
  ASSUME NEW k
  PROVE  Contract!EndOf(k) = AnyReader!EndOf(k)
BY SameOpen, Zenon DEF Contract!EndOf, AnyReader!EndOf

LEMMA SameLevel ==
  ASSUME NEW k
  PROVE  Contract!Level(k) = AnyReader!Level(k)
BY SameOpen, Zenon DEF Contract!Level, AnyReader!Level

\* They start alike, and take the same steps.
LEMMA SameInit == Contract!Init => AnyReader!Init
BY Zenon DEF Contract!Init, AnyReader!Init, Contract!Nothing, AnyReader!Nothing

LEMMA SameSteps ==
  [Contract!Next]_(Contract!vars) => [AnyReader!Next]_(AnyReader!vars)
<1>1. Contract!Write => AnyReader!Write
  BY SameOpen, Zenon DEF Contract!Write, AnyReader!Write
<1>2. Contract!Send => AnyReader!Send
  BY SameOpen, Zenon DEF Contract!Send, AnyReader!Send
<1>3. Contract!Begin => AnyReader!Begin
  BY Zenon DEF Contract!Begin, AnyReader!Begin
<1>4. Contract!Refuse => AnyReader!Refuse
  BY Zenon DEF Contract!Refuse, AnyReader!Refuse
<1>5. Contract!Enter => AnyReader!Enter
  BY Zenon DEF Contract!Enter, AnyReader!Enter, Contract!Reading,
     AnyReader!Reading, Contract!Coming, AnyReader!Coming, Contract!Nothing,
     AnyReader!Nothing
<1>6. Contract!Take => AnyReader!Take
  BY Zenon DEF Contract!Take, AnyReader!Take, Contract!Reading,
     AnyReader!Reading, Contract!Coming, AnyReader!Coming
<1>7. Contract!Skip => AnyReader!Skip
  BY SameEndOf, Zenon DEF Contract!Skip, AnyReader!Skip, Contract!Reading,
     AnyReader!Reading, Contract!Coming, AnyReader!Coming, Contract!Nothing,
     AnyReader!Nothing
<1>8. Contract!End => AnyReader!End
  BY Zenon DEF Contract!End, AnyReader!End, Contract!Reading,
     AnyReader!Reading, Contract!Coming, AnyReader!Coming, Contract!Nothing,
     AnyReader!Nothing
<1>9. Contract!Lose => AnyReader!Lose
  BY Zenon DEF Contract!Lose, AnyReader!Lose, Contract!Coming,
     AnyReader!Coming, Contract!Nothing, AnyReader!Nothing
<1>10. UNCHANGED Contract!vars => UNCHANGED AnyReader!vars
  BY Zenon DEF Contract!vars, AnyReader!vars
<1>11. QED
  BY <1>1, <1>2, <1>3, <1>4, <1>5, <1>6, <1>7, <1>8, <1>9, <1>10, Zenon
     DEF Contract!Next, AnyReader!Next

(***************************************************************************)
(* Reading BSON, whichever fields an entity takes, enters or skips: the    *)
(* reader stays inside the document it has begun until that ends, is given *)
(* what was written at the place it has come to, and passes one token or   *)
(* one whole document at a time (bson.hpp:64-260).                         *)
(***************************************************************************)
THEOREM ReaderKeepsItsPlace ==
  Spec /\ []Regular =>
    /\ []Contract!InsideDocument
    /\ []Contract!GivenWasWritten
    /\ Contract!PassesOneValue
<1>1. AnyReader!InsideDocument => Contract!InsideDocument
  BY SameLevel, Zenon DEF Contract!InsideDocument, AnyReader!InsideDocument
<1>2. AnyReader!GivenWasWritten => Contract!GivenWasWritten
  BY Zenon DEF Contract!GivenWasWritten, AnyReader!GivenWasWritten,
     Contract!Nothing, AnyReader!Nothing
<1>3. Contract!Spec => AnyReader!Spec
  BY SameInit, SameSteps, PTL DEF Contract!Spec, AnyReader!Spec
<1>4. AnyReader!PassesOneValue => Contract!PassesOneValue
  <2>1. UNCHANGED Contract!vars <=> UNCHANGED AnyReader!vars
    BY Zenon DEF Contract!vars, AnyReader!vars
  <2>2. Contract!Coming = AnyReader!Coming /\ \A k : Contract!Level(k) = AnyReader!Level(k)
    BY SameLevel, Zenon DEF Contract!Coming, AnyReader!Coming
  <2>3. AnyReader!PassesOne => Contract!PassesOne
    BY <2>2, Zenon DEF Contract!PassesOne, AnyReader!PassesOne
  <2>4. [AnyReader!PassesOne]_(AnyReader!vars) => [Contract!PassesOne]_(Contract!vars)
    BY <2>1, <2>3, Zenon
  <2>5. QED
    BY <2>4, PTL DEF Contract!PassesOneValue, AnyReader!PassesOneValue
<1>5. QED
  BY <1>1, <1>2, <1>3, <1>4, ContractIsKept, AnyReader!ReaderStaysInside,
     AnyReader!ReaderIsGivenWhatWasWritten, AnyReader!ReaderPassesOneValue, PTL DEF KeepsContract
=============================================================================
