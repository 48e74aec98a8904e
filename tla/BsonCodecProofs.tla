-------------------------- MODULE BsonCodecProofs --------------------------
(***************************************************************************)
(* Proofs about BsonCodec, for any names, any values of the types that     *)
(* item() writes or skip() knows, and any number of them.                  *)
(***************************************************************************)
EXTENDS BsonCodec, FiniteSetTheorems, SequenceTheorems, WellFoundedInduction,
        TLAPS

-----------------------------------------------------------------------------
(* Numbers and sequences. *)

\* Every nonempty set of natural numbers has a least element.
LEMMA LeastElement ==
  ASSUME NEW T \in SUBSET Nat, T # {}
  PROVE  \E x \in T : \A y \in T : x <= y
<1> DEFINE R == {ss \in Nat \X Nat : ss[1] < ss[2]}
<1>1. IsWellFoundedOn(R, Nat)
  BY NatLessThanWellFounded, Zenon DEF OpToRel
<1>2. \A x, y \in Nat : <<y, x>> \in R <=> y < x
  OBVIOUS
<1> HIDE DEF R
<1>3. PICK x \in T : \A y \in T : ~ (<<y, x>> \in R)
  BY <1>1, WFMin, Zenon
<1>4. \A y \in T : ~ (y < x)
  BY <1>2, <1>3, Zenon
<1>5. QED
  BY <1>4

\* Sums, where a step has too much else to look at.
LEMMA Sums ==
  /\ \A a, b, c \in Nat : a + 4 <= b /\ b <= c => a + 4 <= c
  /\ \A a, l, m \in Nat : a + 4 <= l => a + 4 <= l + m + 4
  /\ \A l, m \in Nat : l + m + 4 \in Nat /\ l + m + 4 >= l
  /\ \A c \in 1 .. 255 : c # 0
  /\ \A n \in Nat : \A k \in 1 .. n + 1 : k # n + 1 => k \in 1 .. n
  /\ \A p, b, l \in Nat :
       b + 4 <= l /\ (b + 4 <= p \/ p + 4 <= b) =>
         \A q \in 1 .. 4 : b + q \in 1 .. l /\ b + q \notin p + 1 .. p + 4
OBVIOUS

\* An element more.
LEMMA AppendIs ==
  ASSUME NEW S, NEW s \in Seq(S), NEW e \in S
  PROVE  /\ Append(s, e) \in Seq(S)
         /\ Len(Append(s, e)) = Len(s) + 1
         /\ \A k \in 1 .. Len(s) : Append(s, e)[k] = s[k]
         /\ Append(s, e)[Len(s) + 1] = e
OBVIOUS

\* One sequence after another.
LEMMA ConcatIs ==
  ASSUME NEW S, NEW s \in Seq(S), NEW t \in Seq(S)
  PROVE  /\ s \o t \in Seq(S)
         /\ Len(s \o t) = Len(s) + Len(t)
         /\ \A q \in 1 .. Len(s) : (s \o t)[q] = s[q]
         /\ \A q \in 1 .. Len(t) : (s \o t)[Len(s) + q] = t[q]
OBVIOUS

\* A function on the first n numbers is a sequence of length n.
LEMMA FunctionIsSeq ==
  ASSUME NEW S, NEW n \in Nat, NEW f \in [1 .. n -> S]
  PROVE  f \in Seq(S) /\ Len(f) = n
OBVIOUS

\* The largest length an int can hold.
MaxInt32 == 2147483647

LEMMA DigitsOf256 ==
  \A n \in Nat :
    n <= MaxInt32 =>
      /\ n = (n % 256) + 256 * ((n \div 256) % 256)
               + 65536 * ((n \div 65536) % 256)
               + 16777216 * ((n \div 16777216) % 256)
      /\ (n \div 16777216) % 256 < 128
BY SMT DEF MaxInt32

\* The four bytes of a length give it back, and they are bytes in any case.
LEMMA LE32IsBytes ==
  ASSUME NEW n \in Nat
  PROVE  /\ LE32(n) \in Seq(Byte)
         /\ Len(LE32(n)) = 4
<1>1. LE32(n) = <<n % 256, (n \div 256) % 256, (n \div 65536) % 256,
                  (n \div 16777216) % 256>>
  BY SMT DEF LE32
<1>2. /\ n % 256 \in Byte /\ (n \div 256) % 256 \in Byte
      /\ (n \div 65536) % 256 \in Byte /\ (n \div 16777216) % 256 \in Byte
  BY SMT DEF Byte
<1>3. QED
  BY <1>1, <1>2, SMT

LEMMA ReadLE32 ==
  ASSUME NEW n \in Nat, n <= MaxInt32, NEW s, NEW p \in Nat,
         \A q \in 1 .. 4 : s[p + q] = LE32(n)[q]
  PROVE  Read32(s, p) = n
<1>1. LE32(n) = <<n % 256, (n \div 256) % 256, (n \div 65536) % 256,
                  (n \div 16777216) % 256>>
  BY SMT DEF LE32
<1>2. /\ s[p + 1] = n % 256 /\ s[p + 2] = (n \div 256) % 256
      /\ s[p + 3] = (n \div 65536) % 256 /\ s[p + 4] = (n \div 16777216) % 256
  BY <1>1, SMT
<1>3. Signed((n \div 16777216) % 256) = (n \div 16777216) % 256
  BY DigitsOf256, SMT DEF Signed
<1>4. Read32(s, p) = (n % 256) + 256 * ((n \div 256) % 256)
                       + 65536 * ((n \div 65536) % 256)
                       + 16777216 * ((n \div 16777216) % 256)
  BY <1>2, <1>3, SMT DEF Read32
<1>5. QED
  BY <1>4, DigitsOf256, SMT

\* A length is an integer wherever four bytes are read.
LEMMA Read32IsInt ==
  ASSUME NEW s \in Seq(Byte), NEW p \in Nat, p + 4 <= Len(s)
  PROVE  Read32(s, p) \in Int
<1>1. /\ p + 1 \in 1 .. Len(s) /\ p + 2 \in 1 .. Len(s)
      /\ p + 3 \in 1 .. Len(s) /\ p + 4 \in 1 .. Len(s)
  OBVIOUS
<1>2. /\ s[p + 1] \in Byte /\ s[p + 2] \in Byte
      /\ s[p + 3] \in Byte /\ s[p + 4] \in Byte
  BY <1>1, ElementOfSeq, Zenon
<1>3. \A b \in Byte : b \in Int /\ Signed(b) \in Int
  BY SMT DEF Signed, Byte
<1>4. PICK a \in Int, b \in Int, c \in Int, d \in Int :
        /\ a = s[p + 1] /\ b = s[p + 2] /\ c = s[p + 3]
        /\ d = Signed(s[p + 4])
  BY <1>2, <1>3, Zenon
<1>5. Read32(s, p) = a + 256 * b + 65536 * c + 16777216 * d
  BY <1>4, SMT DEF Read32
<1>6. QED
  BY <1>5, SMT

\* It depends on those four bytes only.
LEMMA Read32Same ==
  ASSUME NEW s, NEW t, NEW p \in Nat, \A q \in 1 .. 4 : s[p + q] = t[p + q]
  PROVE  Read32(s, p) = Read32(t, p)
<1>1. /\ s[p + 1] = t[p + 1] /\ s[p + 2] = t[p + 2]
      /\ s[p + 3] = t[p + 3] /\ s[p + 4] = t[p + 4]
  BY SMT
<1>2. QED
  BY <1>1, SMT DEF Read32

\* The name of an array's item is not empty, and has no NUL.
LEMMA IndexNameIsName ==
  ASSUME NEW n \in Nat
  PROVE  IndexName(n) \in Seq(1 .. 255) /\ IndexName(n) # <<>>
<1> DEFINE E == {e \in 1 .. n : 10 ^ e <= n}
<1>1. IsFiniteSet(E)
  <2>1. IsFiniteSet(1 .. n) /\ E \subseteq 1 .. n
    BY FS_Interval
  <2>2. QED
    BY <2>1, FS_Subset, Zenon
<1>2. Digits(n) \in Nat /\ Digits(n) >= 1
  BY <1>1, FS_CardinalityType DEF Digits
<1>3. ASSUME NEW k \in 1 .. Digits(n)
      PROVE  48 + ((n \div 10 ^ (Digits(n) - k)) % 10) \in 1 .. 255
  <2>1. PICK m \in Nat : m = Digits(n) - k
    BY <1>2, SMT
  <2>2. (n \div 10 ^ m) % 10 \in 0 .. 9
    BY SMT
  <2>3. QED
    BY <2>1, <2>2, SMT
<1> DEFINE digit(k) == 48 + ((n \div 10 ^ (Digits(n) - k)) % 10)
<1>4. \A k \in 1 .. Digits(n) : digit(k) \in 1 .. 255
  BY <1>3
<1> HIDE DEF digit
<1>5. IndexName(n) = [k \in 1 .. Digits(n) |-> digit(k)]
  BY DEF IndexName, digit
<1>6. IndexName(n) \in [1 .. Digits(n) -> 1 .. 255]
  BY <1>4, <1>5
<1>7. IndexName(n) \in Seq(1 .. 255) /\ Len(IndexName(n)) = Digits(n)
  BY <1>2, <1>6, FunctionIsSeq, ZenonT(60)
<1>8. QED
  BY <1>2, <1>7

-----------------------------------------------------------------------------
(* The inductive invariant. *)

EventSet ==
  [kind : {"start", "item", "end"}, type : Int, name : Seq(1 .. 255),
   value : Seq(Byte), at : Nat, start : Nat, depth : Nat]

\* Types, and that a reader that goes on has a document open.
Types ==
  /\ dst \in Seq(Byte) /\ stack \in Seq(Nat)
  /\ loops \in Seq([type : {Object, Array}, next : Nat])
  /\ events \in Seq(EventSet)
  /\ Len(stack) = Len(loops)
  /\ \A k \in DOMAIN stack : stack[k] + 4 <= Len(dst)
  /\ phase \in {"write", "sent", "read", "done", "ignored", "error"}
  /\ data \in Seq(Byte) /\ i \in Int /\ lost \in BOOLEAN
  /\ depth \in Nat /\ (phase = "read" => depth >= 1)

\* The bytes of an event that stay as they are written: all but the length of
\* a document, which follows its header.
Code(e) ==
  CASE e.kind = "item" -> Encoded(e.name, e)
    [] e.kind = "start" -> IF e.name = <<>> THEN <<>> ELSE Header(e.type, e.name)
    [] OTHER -> <<0>>

Stop(e) == e.at + Len(Code(e)) + (IF e.kind = "start" THEN 4 ELSE 0)

Holds(s, e) == \A q \in 1 .. Len(Code(e)) : s[e.at + q] = Code(e)[q]

EventOK(e) ==
  /\ e.kind = "item" => IsScalar(e)
  /\ e.kind = "start" => /\ e.type \in {Object, Array}
                         /\ e.start = e.at + Len(Code(e))

\* The events follow each other without a gap, and their bytes are there.
Placed(k) ==
  /\ EventOK(events[k]) /\ Holds(dst, events[k])
  /\ Stop(events[k]) <= Len(dst)
  /\ k > 1 => events[k].at = Stop(events[k - 1])
  /\ \A j \in 1 .. k - 1 : Stop(events[j]) <= events[k].at

Layout ==
  /\ events = <<>> => dst = <<>>
  /\ events # <<>> => events[1].at = 0 /\ Stop(events[Len(events)]) = Len(dst)
  /\ \A k \in DOMAIN events : Placed(k)

\* How many documents are open after an event.
After(e) ==
  CASE e.kind = "start" -> e.depth + 1
    [] e.kind = "end" -> e.depth - 1
    [] OTHER -> e.depth

\* Nothing follows the end of the first document.
Deeper(k) == events[k].depth = After(events[k - 1]) /\ events[k].depth >= 1

Levels ==
  /\ events = <<>> => stack = <<>>
  /\ events # <<>> =>
       /\ events[1].kind = "start" /\ events[1].name = <<>>
       /\ events[1].depth = 0
       /\ After(events[Len(events)]) = Len(stack)
  /\ \A k \in DOMAIN events : k > 1 => Deeper(k)

\* The document that event k starts is the one at level s of the stack.
OpenAt(k, s) ==
  /\ s = events[k].depth + 1 /\ stack[s] = events[k].start
  /\ loops[s].type = events[k].type
  /\ \A m \in k + 1 .. Len(events) :
       /\ events[m].depth >= s
       /\ events[m].kind = "end" => events[m].depth > s

\* Event e ends the document that event k starts.
Closes(k, e) ==
  /\ events[e].kind = "end" /\ events[e].depth = events[k].depth + 1
  /\ \A m \in k + 1 .. e - 1 :
       /\ events[m].depth > events[k].depth
       /\ events[m].kind = "end" => events[m].depth > events[k].depth + 1

Opened(s) == \E k \in DOMAIN events : events[k].kind = "start" /\ OpenAt(k, s)

StillOpen(k) ==
  (\E s \in DOMAIN stack : OpenAt(k, s)) /\ Read32(dst, events[k].start) = 0

Closed(k) ==
  \E e \in k + 1 .. Len(events) :
    /\ Closes(k, e)
    /\ Len(dst) <= MaxInt32 =>
         Read32(dst, events[k].start) = events[e].at + 1 - events[k].start

\* Every document that was started is open or has an end; while it is open its
\* length is blank, then it is the distance to the end.
Brackets ==
  /\ \A s \in DOMAIN stack : Opened(s)
  /\ \A k \in DOMAIN events :
       events[k].kind = "start" => StillOpen(k) \/ Closed(k)

\* What the lengths and the names of the codec can express: a document of at
\* most 2^31 - 1 bytes (object_end counts in an int), without an empty name for
\* a document inside another (object_start leaves the header out).
Regular ==
  /\ Len(dst) <= MaxInt32
  /\ \A k \in DOMAIN events :
       k > 1 /\ events[k].kind = "start" => events[k].name # <<>>

\* The reader that has its place is where the event it expects was written.
Reader ==
  /\ phase \in {"write", "sent"} => got = <<>> /\ ~ lost /\ cursor = 1
  /\ phase # "write" => events # <<>> /\ stack = <<>>
  /\ phase # "write" /\ Regular => cursor \in Nat
  /\ phase = "sent" => \E size \in 0 .. Len(dst) : data = SubSeq(dst, 1, size)
  /\ Regular /\ ~ lost =>
       /\ phase \in {"read", "done"} => data = dst
       /\ phase = "read" =>
            /\ cursor \in 2 .. Len(events)
            /\ i = events[cursor].at /\ depth = events[cursor].depth
       /\ phase = "done" => cursor = Len(events) + 1 /\ i = Size
       /\ phase = "error" => Len(data) < Len(dst)
       /\ got # <<>> => /\ cursor - 1 \in DOMAIN events
                        /\ got = Promised(events[cursor - 1])

IInv == Types /\ Layout /\ Levels /\ Brackets /\ Reader

-----------------------------------------------------------------------------
(* What is written for an event. *)

LEMMA HeaderIs ==
  ASSUME NEW type \in Byte, NEW name \in Seq(1 .. 255)
  PROVE  /\ Header(type, name) \in Seq(Byte)
         /\ Len(Header(type, name)) = Len(name) + 2
         /\ Header(type, name)[1] = type
         /\ \A q \in 1 .. Len(name) : Header(type, name)[1 + q] = name[q]
         /\ Header(type, name)[Len(name) + 2] = 0
<1>1. name \in Seq(Byte)
  BY DEF Byte
<1>2. <<type>> \in Seq(Byte) /\ <<0>> \in Seq(Byte)
  BY DEF Byte
<1>3. QED
  BY <1>1, <1>2 DEF Header

LEMMA WireTypeIs ==
  ASSUME NEW v, IsScalar(v)
  PROVE  /\ WireType(v) \in 1 .. 255
         /\ WireType(v) \notin {Object, Array}
BY DEF IsScalar, WireType, Foreign, Double, String, Object, Array, Binary,
       ObjectId, Boolean, UTC, Null, RegEx, Javascript, JsScope, Int32,
       Timestamp, Int64, Integer

LEMMA PayloadIsBytes ==
  ASSUME NEW v, IsScalar(v)
  PROVE  Payload(v) \in Seq(Byte)
<1>1. v.value \in Seq(Byte) /\ Len(v.value) \in Nat
  BY DEF IsScalar
<1>2. <<0>> \in Seq(Byte)
  BY DEF Byte
<1>3. \A n \in Nat : LE32(n) \in Seq(Byte)
  BY LE32IsBytes
<1>4. LE32(Len(v.value) + 1) \o v.value \o <<0>> \in Seq(Byte)
  BY <1>1, <1>2, <1>3, ConcatProperties
<1>5. LE32(Len(v.value)) \o <<0>> \o v.value \in Seq(Byte)
  BY <1>1, <1>2, <1>3, ConcatProperties
<1>6. LE32(Len(v.value) + 4) \o v.value \in Seq(Byte)
  BY <1>1, <1>3, ConcatProperties
<1>7. ASSUME v.type = Integer
      PROVE  SubSeq(v.value, 1, 4) \in Seq(Byte)
  <2>1. Len(v.value) = 8
    BY <1>7 DEF IsScalar, Width, Integer, Null, Boolean, ObjectId
  <2>2. QED
    BY <1>1, <2>1
<1>8. QED
  BY <1>1, <1>4, <1>5, <1>6, <1>7 DEF Payload

LEMMA EncodedIs ==
  ASSUME NEW v, IsScalar(v), NEW name \in Seq(1 .. 255)
  PROVE  /\ Encoded(name, v) \in Seq(Byte)
         /\ Len(Encoded(name, v)) = Len(name) + 2 + Len(Payload(v))
         /\ Encoded(name, v)[1] = WireType(v)
         /\ \A q \in 1 .. Len(name) : Encoded(name, v)[1 + q] = name[q]
         /\ Encoded(name, v)[Len(name) + 2] = 0
         /\ \A q \in 1 .. Len(Payload(v)) :
              Encoded(name, v)[Len(name) + 2 + q] = Payload(v)[q]
<1>1. WireType(v) \in Byte
  BY WireTypeIs DEF Byte
<1>2. PICK h \in Seq(Byte), w \in Seq(Byte) :
        h = Header(WireType(v), name) /\ w = Payload(v)
  BY <1>1, HeaderIs, PayloadIsBytes
<1>3. /\ Len(h) = Len(name) + 2
      /\ h[1] = WireType(v) /\ h[Len(name) + 2] = 0
      /\ \A q \in 1 .. Len(name) : h[1 + q] = name[q]
  BY <1>1, <1>2, HeaderIs
<1>4. /\ h \o w \in Seq(Byte) /\ Len(h \o w) = Len(h) + Len(w)
      /\ \A q \in 1 .. Len(h) : (h \o w)[q] = h[q]
      /\ \A q \in 1 .. Len(w) : (h \o w)[Len(h) + q] = w[q]
  BY ConcatIs
<1>5. Len(name) \in Nat
  OBVIOUS
<1>6. /\ (h \o w)[1] = h[1] /\ (h \o w)[Len(name) + 2] = h[Len(name) + 2]
      /\ \A q \in 1 .. Len(name) : (h \o w)[1 + q] = h[1 + q]
  BY <1>3, <1>4, <1>5
<1>7. QED
  BY <1>2, <1>3, <1>4, <1>6 DEF Encoded

\* Code only looks at the kind, the name, the type and the value.
LEMMA StopIs ==
  ASSUME NEW e \in EventSet, EventOK(e)
  PROVE  /\ Code(e) \in Seq(Byte) /\ Len(Code(e)) \in Nat
         /\ Stop(e) \in Nat /\ Stop(e) >= e.at + 1
         /\ e.kind = "start" => Stop(e) = e.start + 4 /\ e.at <= e.start
<1>1. Code(e) \in Seq(Byte) /\ (e.kind # "start" => Len(Code(e)) >= 1)
  <2>1. CASE e.kind = "item"
    BY <2>1, EncodedIs, PayloadIsBytes DEF EventSet, EventOK, Code
  <2>2. CASE e.kind = "start"
    <3>1. e.type \in Byte
      BY <2>2 DEF EventOK, Object, Array, Byte
    <3>2. QED
      BY <2>2, <3>1, HeaderIs DEF EventSet, Code
  <2>3. CASE e.kind = "end"
    BY <2>3 DEF Code, Byte
  <2>4. QED
    BY <2>1, <2>2, <2>3 DEF EventSet
<1>2. Len(Code(e)) \in Nat /\ e.at \in Nat
  BY <1>1 DEF EventSet
<1>3. QED
  BY <1>1, <1>2 DEF Stop, EventOK

-----------------------------------------------------------------------------
(* What each step of the writer keeps.  An event more comes at the end.    *)

LEMMA EventsGrow ==
  ASSUME Types, NEW e \in EventSet, events' = Append(events, e)
  PROVE  /\ events' \in Seq(EventSet) /\ Len(events) \in Nat
         /\ Len(events') = Len(events) + 1
         /\ DOMAIN events = 1 .. Len(events)
         /\ DOMAIN events' = 1 .. Len(events) + 1
         /\ \A k \in 1 .. Len(events) :
              events'[k] = events[k] /\ events[k] \in EventSet
         /\ events'[Len(events) + 1] = e
         /\ events' # <<>> /\ (events = <<>> <=> Len(events) = 0)
<1>1. events \in Seq(EventSet)
  BY DEF Types
<1>2. QED
  BY <1>1

\* The bytes of the events that were there have not changed, those of the new
\* one have come.
LEMMA LayoutKept ==
  ASSUME Types, Layout,
         NEW e \in EventSet, EventOK(e), e.at = Len(dst),
         events' = Append(events, e),
         Len(dst') = Stop(e), Holds(dst', e),
         \A k \in DOMAIN events : Holds(dst', events[k])
  PROVE  Layout'
<1>0. PICK n \in Nat : n = Len(events)
  BY EventsGrow
<1>1. /\ Len(events) = n /\ Len(events') = n + 1
      /\ DOMAIN events = 1 .. n /\ DOMAIN events' = 1 .. n + 1
      /\ \A k \in 1 .. n : events'[k] = events[k] /\ events[k] \in EventSet
      /\ events'[n + 1] = e
      /\ events' # <<>> /\ (events = <<>> <=> n = 0)
  BY <1>0, EventsGrow
<1>2. Stop(e) \in Nat /\ Stop(e) >= Len(dst) + 1 /\ Len(dst) \in Nat
  BY StopIs DEF Types
<1>3. ASSUME NEW k \in 1 .. n
      PROVE  Placed(k) /\ Stop(events[k]) \in Nat /\ Stop(events[k]) <= Len(dst)
  <2>1. Placed(k)
    BY <1>1 DEF Layout
  <2>2. QED
    BY <1>1, <2>1, StopIs DEF Placed
<1>4. ASSUME NEW k \in 1 .. n
      PROVE  Placed(k)'
  <2>1. Placed(k) /\ events'[k] = events[k] /\ Stop(events[k]) <= Len(dst')
    BY <1>1, <1>2, <1>3
  <2>2. k > 1 => k - 1 \in 1 .. n /\ events'[k - 1] = events[k - 1]
    BY <1>1
  <2>3. \A j \in 1 .. k - 1 : events'[j] = events[j]
    BY <1>1
  <2>4. Holds(dst', events[k])
    BY <1>1
  <2>5. QED
    BY <2>1, <2>2, <2>3, <2>4 DEF Placed
<1>5. n > 0 => e.at = Stop(events[n])
  BY <1>1 DEF Layout
<1>6. Placed(n + 1)'
  <2>1. n + 1 > 1 => events'[n + 1].at = Stop(events'[(n + 1) - 1])
    BY <1>1, <1>5
  <2>2. \A j \in 1 .. (n + 1) - 1 : Stop(events'[j]) <= events'[n + 1].at
    BY <1>1, <1>3
  <2>3. Stop(e) <= Len(dst')
    BY <1>2
  <2>4. QED
    BY <1>1, <2>1, <2>2, <2>3 DEF Placed
<1>7. \A k \in DOMAIN events' : Placed(k)'
  BY <1>1, <1>4, <1>6
<1>8. events'[1].at = 0
  <2>1. CASE n = 0
    BY <1>1, <2>1 DEF Layout
  <2>2. CASE n > 0
    BY <1>1, <2>2 DEF Layout
  <2>3. QED
    BY <1>1, <2>1, <2>2
<1>9. Stop(events'[Len(events')]) = Len(dst')
  BY <1>1
<1>10. QED
  BY <1>1, <1>7, <1>8, <1>9 DEF Layout

\* As many documents are open as the new event says.
LEMMA LevelsKept ==
  ASSUME Types, Levels,
         NEW e \in EventSet, e.depth = Len(stack),
         events' = Append(events, e),
         events = <<>> => e.kind = "start" /\ e.name = <<>>,
         events # <<>> => stack # <<>>,
         Len(stack') = After(e)
  PROVE  Levels'
<1>0. PICK n \in Nat : n = Len(events)
  BY EventsGrow
<1>1. /\ Len(events) = n /\ Len(events') = n + 1
      /\ DOMAIN events = 1 .. n /\ DOMAIN events' = 1 .. n + 1
      /\ \A k \in 1 .. n : events'[k] = events[k]
      /\ events'[n + 1] = e
      /\ events' # <<>> /\ (events = <<>> <=> n = 0)
  BY <1>0, EventsGrow
<1>2. Len(stack) \in Nat /\ (n > 0 => Len(stack) >= 1)
  BY <1>1 DEF Types
<1>3. n > 0 => After(events[n]) = Len(stack)
  BY <1>1 DEF Levels
<1>4. n = 0 => stack = <<>>
  BY <1>1 DEF Levels
<1>5. ASSUME NEW k \in 1 .. n, k > 1
      PROVE  Deeper(k)'
  <2>1. Deeper(k)
    BY <1>1, <1>5 DEF Levels
  <2>2. k - 1 \in 1 .. n
    BY <1>5
  <2>3. events'[k] = events[k] /\ events'[k - 1] = events[k - 1]
    BY <1>1, <2>2
  <2>4. QED
    BY <2>1, <2>3 DEF Deeper
<1>6. n + 1 > 1 => Deeper(n + 1)'
  BY <1>1, <1>2, <1>3 DEF Deeper
<1>7. \A k \in DOMAIN events' : k > 1 => Deeper(k)'
  BY <1>1, <1>5, <1>6
<1>8. /\ events'[1].kind = "start" /\ events'[1].name = <<>>
      /\ events'[1].depth = 0
  <2>1. CASE n = 0
    BY <1>1, <1>4, <2>1
  <2>2. CASE n > 0
    BY <1>1, <2>2 DEF Levels
  <2>3. QED
    BY <1>1, <2>1, <2>2
<1>9. QED
  BY <1>1, <1>7, <1>8 DEF Levels

\* An event at level s or deeper, that does not end level s.
Beyond(e, s) == e.depth >= s /\ (e.kind = "end" => e.depth > s)

\* An open document stays open while nothing ends it, a closed one closed.
LEMMA OpenKept ==
  ASSUME Types, NEW e \in EventSet, events' = Append(events, e),
         NEW k \in DOMAIN events, NEW s, OpenAt(k, s), Beyond(e, s),
         stack'[s] = stack[s], loops'[s].type = loops[s].type
  PROVE  OpenAt(k, s)'
<1>0. PICK n \in Nat : n = Len(events)
  BY EventsGrow
<1>1. /\ Len(events) = n /\ Len(events') = n + 1 /\ DOMAIN events = 1 .. n
      /\ \A m \in 1 .. n : events'[m] = events[m]
      /\ events'[n + 1] = e
  BY <1>0, EventsGrow
<1>2. events'[k] = events[k]
  BY <1>1
<1>3. ASSUME NEW m \in k + 1 .. n + 1
      PROVE  Beyond(events'[m], s)
  <2>1. CASE m = n + 1
    BY <1>1, <2>1
  <2>2. CASE m \in k + 1 .. n
    <3>1. m \in 1 .. n
      BY <1>1, <2>2
    <3>2. events'[m] = events[m]
      BY <1>1, <3>1
    <3>3. Beyond(events[m], s)
      BY <1>1, <2>2 DEF OpenAt, Beyond
    <3>4. QED
      BY <3>2, <3>3
  <2>3. QED
    BY <1>1, <2>1, <2>2
<1>4. QED
  BY <1>1, <1>2, <1>3 DEF OpenAt, Beyond

LEMMA ClosesKept ==
  ASSUME Types, NEW e \in EventSet, events' = Append(events, e),
         NEW k \in DOMAIN events, NEW x \in k + 1 .. Len(events), Closes(k, x)
  PROVE  x \in k + 1 .. Len(events') /\ Closes(k, x)' /\ events'[x] = events[x]
<1>0. PICK n \in Nat : n = Len(events)
  BY EventsGrow
<1>1. /\ Len(events) = n /\ Len(events') = n + 1 /\ DOMAIN events = 1 .. n
      /\ \A m \in 1 .. n : events'[m] = events[m]
  BY <1>0, EventsGrow
<1>2. k \in 1 .. n /\ x \in 1 .. n /\ \A m \in k + 1 .. x - 1 : m \in 1 .. n
  BY <1>1
<1>3. /\ events'[k] = events[k] /\ events'[x] = events[x]
      /\ \A m \in k + 1 .. x - 1 : events'[m] = events[m]
  BY <1>1, <1>2
<1>4. QED
  BY <1>1, <1>2, <1>3 DEF Closes

\* The next event ends an open document.
LEMMA OpenCloses ==
  ASSUME Types, NEW e \in EventSet, events' = Append(events, e),
         NEW k \in DOMAIN events, OpenAt(k, e.depth), e.kind = "end",
         NEW x \in Nat, x = Len(events) + 1
  PROVE  Closes(k, x)' /\ events'[x] = e /\ x \in k + 1 .. Len(events')
<1>0. PICK n \in Nat : n = Len(events)
  BY EventsGrow
<1>1. /\ Len(events) = n /\ Len(events') = n + 1 /\ DOMAIN events = 1 .. n
      /\ \A m \in 1 .. n : events'[m] = events[m] /\ events[m] \in EventSet
      /\ events'[n + 1] = e
  BY <1>0, EventsGrow
<1>2. k \in 1 .. n /\ \A m \in k + 1 .. n : m \in 1 .. n
  BY <1>1
<1>3. e.depth = events[k].depth + 1 /\ events[k].depth \in Nat
  BY <1>1, <1>2 DEF OpenAt, EventSet
<1>4. ASSUME NEW m \in k + 1 .. n
      PROVE  /\ events'[m] = events[m]
             /\ events[m].depth > events[k].depth
             /\ events[m].kind = "end" => events[m].depth > events[k].depth + 1
  <2>1. events'[m] = events[m] /\ events[m].depth \in Nat
    BY <1>1, <1>2 DEF EventSet
  <2>2. /\ events[m].depth >= e.depth
        /\ events[m].kind = "end" => events[m].depth > e.depth
    BY <1>1 DEF OpenAt
  <2>3. PICK c \in Nat, d \in Nat : c = events[k].depth /\ d = events[m].depth
    BY <1>3, <2>1
  <2>4. d >= c + 1 /\ (events[m].kind = "end" => d > c + 1)
    BY <1>3, <2>2, <2>3
  <2>5. d > c
    BY <2>4
  <2>6. QED
    BY <2>1, <2>3, <2>4, <2>5
<1>5. events'[k] = events[k]
  BY <1>1, <1>2
<1>6. Closes(k, n + 1)'
  BY <1>1, <1>2, <1>3, <1>4, <1>5 DEF Closes
<1>7. QED
  BY <1>1, <1>2, <1>6

\* Where the length of a document is.
LEMMA LengthIsThere ==
  ASSUME Types, Layout, NEW k \in DOMAIN events, events[k].kind = "start"
  PROVE  /\ events[k].start \in Nat /\ events[k].start + 4 <= Len(dst)
         /\ Len(dst) \in Nat
         /\ events[k].at <= events[k].start
         /\ Stop(events[k]) = events[k].start + 4
<1>1. events[k] \in EventSet /\ Len(dst) \in Nat
  BY DEF Types
<1>2. EventOK(events[k]) /\ Stop(events[k]) <= Len(dst)
  BY DEF Layout, Placed
<1>3. events[k].start \in Nat
  BY <1>1 DEF EventSet
<1>4. QED
  BY <1>1, <1>2, <1>3, StopIs

\* A value or a document more leaves the others as they are.
LEMMA BracketsGrow ==
  ASSUME Types, Layout, Brackets,
         NEW e \in EventSet, e.depth = Len(stack), e.kind # "end",
         events' = Append(events, e),
         \A p \in 1 .. Len(dst) : dst'[p] = dst[p],
         Len(dst') >= Len(dst), Len(dst') \in Nat,
         \A s \in DOMAIN stack :
           /\ s \in DOMAIN stack'
           /\ stack'[s] = stack[s] /\ loops'[s].type = loops[s].type,
         e.kind = "item" => DOMAIN stack' = DOMAIN stack,
         e.kind = "start" => /\ DOMAIN stack' = 1 .. Len(stack) + 1
                             /\ stack'[Len(stack) + 1] = e.start
                             /\ loops'[Len(stack) + 1].type = e.type
                             /\ Read32(dst', e.start) = 0
  PROVE  Brackets'
<1>0. PICK n \in Nat : n = Len(events)
  BY EventsGrow
<1>1. /\ Len(events) = n /\ Len(events') = n + 1
      /\ DOMAIN events = 1 .. n /\ DOMAIN events' = 1 .. n + 1
      /\ \A k \in 1 .. n : events'[k] = events[k] /\ events[k] \in EventSet
      /\ events'[n + 1] = e
  BY <1>0, EventsGrow
<1>2. DOMAIN stack = 1 .. Len(stack) /\ Len(stack) \in Nat
  BY DEF Types
<1>3. ASSUME NEW k \in 1 .. n, NEW s \in DOMAIN stack, OpenAt(k, s)
      PROVE  OpenAt(k, s)'
  <2>1. Beyond(e, s)
    BY <1>2 DEF Beyond
  <2>2. QED
    BY <1>1, <1>3, <2>1, OpenKept
<1>4. ASSUME NEW k \in 1 .. n, events[k].kind = "start"
      PROVE  (StillOpen(k) \/ Closed(k))'
  <2>1. events'[k] = events[k] /\ k \in DOMAIN events
    BY <1>1
  <2>2. Read32(dst', events[k].start) = Read32(dst, events[k].start)
    <3>1. events[k].start \in Nat /\ events[k].start + 4 <= Len(dst)
      BY <1>4, <2>1, LengthIsThere
    <3>2. \A q \in 1 .. 4 : events[k].start + q \in 1 .. Len(dst)
      BY <3>1, LengthIsThere, <1>4, <2>1, SMTT(30)
    <3>3. QED
      BY <3>1, <3>2, Read32Same
  <2>3. CASE StillOpen(k)
    <3>1. PICK s \in DOMAIN stack : OpenAt(k, s)
      BY <2>3 DEF StillOpen
    <3>2. OpenAt(k, s)' /\ s \in DOMAIN stack'
      BY <1>3, <3>1
    <3>3. Read32(dst', events'[k].start) = 0
      BY <2>1, <2>2, <2>3 DEF StillOpen
    <3>4. QED
      BY <3>2, <3>3 DEF StillOpen
  <2>4. CASE Closed(k)
    <3>1. PICK x \in k + 1 .. n :
            /\ Closes(k, x)
            /\ Len(dst) <= MaxInt32 =>
                 Read32(dst, events[k].start) =
                   events[x].at + 1 - events[k].start
      BY <1>1, <2>4 DEF Closed
    <3>2. /\ x \in k + 1 .. Len(events') /\ Closes(k, x)'
          /\ events'[x] = events[x]
      BY <1>1, <2>1, <3>1, ClosesKept
    <3>3. Len(dst') <= MaxInt32 => Len(dst) <= MaxInt32
      BY SMT DEF Types, MaxInt32
    <3>4. Len(dst') <= MaxInt32 =>
            Read32(dst', events'[k].start) =
              events'[x].at + 1 - events'[k].start
      BY <2>1, <2>2, <3>1, <3>2, <3>3
    <3>5. QED
      BY <3>2, <3>4 DEF Closed
  <2>5. QED
    BY <1>1, <1>4, <2>3, <2>4 DEF Brackets
<1> PICK t \in Nat : t = Len(stack) + 1
  BY <1>2
<1>5. ASSUME e.kind = "start"
      PROVE  OpenAt(n + 1, t)' /\ StillOpen(n + 1)'
  <2>1. /\ stack'[t] = e.start /\ loops'[t].type = e.type /\ t = e.depth + 1
        /\ t \in DOMAIN stack'
    BY <1>2, <1>5
  <2>2. OpenAt(n + 1, t)'
    BY <1>1, <2>1 DEF OpenAt
  <2>3. StillOpen(n + 1)'
    BY <1>1, <1>5, <2>1, <2>2 DEF StillOpen
  <2>4. QED
    BY <2>2, <2>3
<1>6. ASSUME NEW s \in DOMAIN stack'
      PROVE  Opened(s)'
  <2>1. CASE s \in DOMAIN stack
    <3>1. PICK k \in 1 .. n : events[k].kind = "start" /\ OpenAt(k, s)
      BY <1>1, <2>1 DEF Brackets, Opened
    <3>2. OpenAt(k, s)' /\ events'[k].kind = "start" /\ k \in DOMAIN events'
      BY <1>1, <1>3, <2>1, <3>1
    <3>3. QED
      BY <3>2 DEF Opened
  <2>2. CASE s \notin DOMAIN stack
    <3>1. e.kind = "start"
      BY <1>6, <2>2 DEF EventSet
    <3>2. s = t
      BY <1>2, <1>6, <2>2, <3>1
    <3>3. OpenAt(n + 1, s)' /\ events'[n + 1].kind = "start"
          /\ n + 1 \in DOMAIN events'
      BY <1>1, <1>5, <3>1, <3>2
    <3>4. QED
      BY <3>3 DEF Opened
  <2>3. QED
    BY <2>1, <2>2
<1>7. ASSUME NEW k \in DOMAIN events', events'[k].kind = "start"
      PROVE  (StillOpen(k) \/ Closed(k))'
  <2>1. CASE k \in 1 .. n
    BY <1>1, <1>4, <1>7, <2>1
  <2>2. CASE k = n + 1
    BY <1>1, <1>5, <1>7, <2>2
  <2>3. QED
    BY <1>1, <2>1, <2>2
<1>8. QED
  BY <1>6, <1>7 DEF Brackets

\* No two documents have their lengths in the same place.
LEMMA LengthsApart ==
  ASSUME Types, Layout, NEW j \in DOMAIN events, NEW k \in DOMAIN events,
         events[j].kind = "start", events[k].kind = "start", j # k
  PROVE  \/ events[j].start + 4 <= events[k].start
         \/ events[k].start + 4 <= events[j].start
<1> PICK n \in Nat : n = Len(events) /\ DOMAIN events = 1 .. n
  BY DEF Types
<1>1. j \in 1 .. n /\ k \in 1 .. n
  OBVIOUS
<1>2. ASSUME NEW x \in 1 .. n, events[x].kind = "start",
             NEW y \in 1 .. n, events[y].kind = "start", x < y
      PROVE  events[x].start + 4 <= events[y].start
  <2>1. /\ events[x].start \in Nat /\ events[y].start \in Nat
        /\ events[y].at <= events[y].start
        /\ Stop(events[x]) = events[x].start + 4
    BY <1>2, LengthIsThere
  <2>2. Placed(y) /\ x \in 1 .. y - 1
    BY <1>2 DEF Layout
  <2>3. Stop(events[x]) <= events[y].at
    BY <2>2 DEF Placed
  <2>4. events[y] \in EventSet
    BY DEF Types
  <2>5. events[y].at \in Nat
    BY <2>4 DEF EventSet
  <2>6. PICK a \in Nat, b \in Nat, c \in Nat :
          a = events[x].start /\ b = events[y].at /\ c = events[y].start
    BY <2>1, <2>5
  <2>7. a + 4 <= b /\ b <= c
    BY <2>1, <2>3, <2>6
  <2>8. a + 4 <= c
    BY <2>7, Sums, Zenon
  <2>9. QED
    BY <2>6, <2>8, Zenon
<1>3. QED
  BY <1>1, <1>2

\* The end of the innermost document sets its length and no other.
LEMMA BracketsShrink ==
  ASSUME Types, Layout, Brackets,
         NEW e \in EventSet, e.kind = "end", e.depth = Len(stack),
         e.at = Len(dst), events' = Append(events, e), Len(stack) >= 1,
         Len(dst') = Len(dst) + 1,
         NEW p \in Nat, p = stack[Len(stack)], p <= Len(dst),
         \A q \in 1 .. Len(dst) : q \notin p + 1 .. p + 4 => dst'[q] = dst[q],
         \A q \in 1 .. 4 : dst'[p + q] = LE32(Len(dst) + 1 - p)[q],
         DOMAIN stack' = 1 .. Len(stack) - 1,
         \A s \in 1 .. Len(stack) - 1 :
           stack'[s] = stack[s] /\ loops'[s].type = loops[s].type
  PROVE  Brackets'
<1>0. PICK n \in Nat, t \in Nat : n = Len(events) /\ t = Len(stack)
  BY EventsGrow DEF Types
<1>1. /\ Len(events) = n /\ Len(events') = n + 1
      /\ DOMAIN events = 1 .. n /\ DOMAIN events' = 1 .. n + 1
      /\ \A k \in 1 .. n : events'[k] = events[k] /\ events[k] \in EventSet
      /\ events'[n + 1] = e
  BY <1>0, EventsGrow
<1>2. DOMAIN stack = 1 .. t /\ t >= 1 /\ Len(dst) \in Nat
  BY <1>0 DEF Types
<1>3. PICK top \in 1 .. n : events[top].kind = "start" /\ OpenAt(top, t)
  <2>1. t \in DOMAIN stack
    BY <1>2
  <2>2. Opened(t)
    BY <2>1 DEF Brackets
  <2>3. QED
    BY <1>1, <2>2 DEF Opened
<1>4. events[top].start = p
  BY <1>0, <1>3 DEF OpenAt
<1>5. ASSUME NEW k \in 1 .. n, NEW s \in 1 .. t - 1, OpenAt(k, s)
      PROVE  OpenAt(k, s)'
  <2>1. Beyond(e, s)
    <3>1. e.depth = t /\ s < t
      BY <1>0, <1>2
    <3>2. e.depth >= s /\ e.depth > s
      BY <3>1
    <3>3. QED
      BY <3>2 DEF Beyond
  <2>2. stack'[s] = stack[s] /\ loops'[s].type = loops[s].type
    BY <1>0
  <2>3. QED
    BY <1>1, <1>5, <2>1, <2>2, OpenKept
<1>6. ASSUME NEW k \in 1 .. n, events[k].kind = "start", k # top
      PROVE  Read32(dst', events[k].start) = Read32(dst, events[k].start)
  <2>1. /\ events[k].start \in Nat /\ events[k].start + 4 <= Len(dst)
        /\ \/ events[k].start + 4 <= p
           \/ p + 4 <= events[k].start
    BY <1>1, <1>3, <1>4, <1>6, LengthIsThere, LengthsApart
  <2>2. PICK b \in Nat : b = events[k].start
    BY <2>1
  <2>3. PICK l \in Nat : l = Len(dst)
    BY <1>2
  <2>4. b + 4 <= l /\ (b + 4 <= p \/ p + 4 <= b)
    BY <2>1, <2>2, <2>3
  <2>5. \A q \in 1 .. 4 : b + q \in 1 .. l /\ b + q \notin p + 1 .. p + 4
    BY <2>4, Sums, Zenon
  <2>6. \A q \in 1 .. 4 : dst'[b + q] = dst[b + q]
    BY <2>3, <2>5
  <2>7. Read32(dst', b) = Read32(dst, b)
    BY <2>6, Read32Same
  <2>8. QED
    BY <2>2, <2>7
<1>7. ASSUME NEW k \in 1 .. n, events[k].kind = "start", OpenAt(k, t)
      PROVE  Closed(k)'
  <2>1. events[k].start = p /\ events'[k] = events[k]
    BY <1>0, <1>1, <1>7 DEF OpenAt
  <2>2. PICK x \in Nat : x = n + 1
    OBVIOUS
  <2>3. Closes(k, x)' /\ events'[x] = e /\ x \in k + 1 .. Len(events')
    <3>1. k \in DOMAIN events /\ OpenAt(k, e.depth) /\ x = Len(events) + 1
      BY <1>0, <1>1, <1>7, <2>2
    <3>2. QED
      BY <3>1, <2>2, OpenCloses
  <2>4. Len(dst') <= MaxInt32 => Read32(dst', p) = Len(dst) + 1 - p
    <3>1. PICK m \in Nat : m = Len(dst) + 1 - p
      BY <1>2
    <3>2. Len(dst') <= MaxInt32 => m <= MaxInt32
      BY <1>2, <3>1, SMT DEF MaxInt32
    <3>3. QED
      BY <3>1, <3>2, ReadLE32
  <2>5. Len(dst') <= MaxInt32 =>
          Read32(dst', events'[k].start) = events'[x].at + 1 - events'[k].start
    BY <2>1, <2>3, <2>4
  <2>6. QED
    BY <2>3, <2>5 DEF Closed
<1>8. ASSUME NEW k \in 1 .. n, events[k].kind = "start", k # top
      PROVE  (StillOpen(k) \/ Closed(k))'
  <2>1. events'[k] = events[k] /\ k \in DOMAIN events
    BY <1>1
  <2>2. CASE StillOpen(k)
    <3>1. PICK s \in 1 .. t : OpenAt(k, s)
      BY <1>2, <2>2 DEF StillOpen
    <3>2. CASE s = t
      BY <1>7, <1>8, <3>1, <3>2
    <3>3. CASE s \in 1 .. t - 1
      <4>1. OpenAt(k, s)' /\ s \in DOMAIN stack'
        BY <1>0, <1>5, <3>1, <3>3
      <4>2. Read32(dst', events'[k].start) = 0
        BY <1>6, <1>8, <2>1, <2>2 DEF StillOpen
      <4>3. QED
        BY <4>1, <4>2 DEF StillOpen
    <3>4. QED
      BY <1>2, <3>2, <3>3
  <2>3. CASE Closed(k)
    <3>1. PICK x \in k + 1 .. n :
            /\ Closes(k, x)
            /\ Len(dst) <= MaxInt32 =>
                 Read32(dst, events[k].start) =
                   events[x].at + 1 - events[k].start
      BY <1>1, <2>3 DEF Closed
    <3>2. /\ x \in k + 1 .. Len(events') /\ Closes(k, x)'
          /\ events'[x] = events[x]
      BY <1>1, <2>1, <3>1, ClosesKept
    <3>3. Len(dst') <= MaxInt32 => Len(dst) <= MaxInt32
      BY <1>2, SMT DEF MaxInt32
    <3>4. Len(dst') <= MaxInt32 =>
            Read32(dst', events'[k].start) =
              events'[x].at + 1 - events'[k].start
      BY <1>6, <1>8, <2>1, <3>1, <3>2, <3>3
    <3>5. QED
      BY <3>2, <3>4 DEF Closed
  <2>4. QED
    BY <1>1, <1>8, <2>2, <2>3 DEF Brackets
<1>9. ASSUME NEW s \in DOMAIN stack'
      PROVE  Opened(s)'
  <2>1. s \in 1 .. t - 1 /\ s \in DOMAIN stack
    BY <1>0, <1>2
  <2>2. PICK k \in 1 .. n : events[k].kind = "start" /\ OpenAt(k, s)
    BY <1>1, <2>1 DEF Brackets, Opened
  <2>3. OpenAt(k, s)' /\ events'[k].kind = "start" /\ k \in DOMAIN events'
    BY <1>1, <1>5, <2>1, <2>2
  <2>4. QED
    BY <2>3 DEF Opened
<1>10. ASSUME NEW k \in DOMAIN events', events'[k].kind = "start"
       PROVE  (StillOpen(k) \/ Closed(k))'
  <2>1. k \in 1 .. n /\ events[k].kind = "start"
    <3>1. k \in 1 .. n + 1 /\ k # n + 1
      BY <1>1, <1>10
    <3>2. k \in 1 .. n
      BY <3>1, Sums, Zenon
    <3>3. QED
      BY <1>1, <1>10, <3>2
  <2>2. CASE k = top
    BY <1>3, <1>7, <2>1, <2>2
  <2>3. CASE k # top
    BY <1>8, <2>1, <2>3
  <2>4. QED
    BY <2>2, <2>3
<1>11. QED
  BY <1>9, <1>10 DEF Brackets


-----------------------------------------------------------------------------
(* The steps of the writer. *)

\* The reader has not begun.
LEMMA ReaderWaits ==
  ASSUME Reader, phase = "write", UNCHANGED <<phase, reader>>
  PROVE  Reader'
BY DEF Reader, reader

Loop == [type : {Object, Array}, next : Nat]

LEMMA TypesWritten ==
  ASSUME Types, phase = "write", UNCHANGED <<phase, reader>>,
         dst' \in Seq(Byte), stack' \in Seq(Nat), loops' \in Seq(Loop),
         events' \in Seq(EventSet), Len(stack') = Len(loops'),
         \A k \in DOMAIN stack' : stack'[k] + 4 <= Len(dst')
  PROVE  Types'
BY DEF Types, reader, Loop

\* What has been written stays there when something is added.
LEMMA HoldsOn ==
  ASSUME Types, Layout, NEW s, \A q \in 1 .. Len(dst) : s[q] = dst[q],
         NEW k \in DOMAIN events
  PROVE  Holds(s, events[k])
<1>1. /\ events[k] \in EventSet /\ EventOK(events[k]) /\ Holds(dst, events[k])
      /\ Stop(events[k]) <= Len(dst) /\ Len(dst) \in Nat
  BY DEF Types, Layout, Placed
<1>2. PICK a \in Nat, l \in Nat : a = events[k].at /\ l = Len(Code(events[k]))
  BY <1>1, StopIs DEF EventSet
<1>3. a + l <= Len(dst)
  <2>1. CASE events[k].kind = "start"
    BY <1>1, <1>2, <2>1 DEF Stop
  <2>2. CASE events[k].kind # "start"
    BY <1>1, <1>2, <2>2 DEF Stop
  <2>3. QED
    BY <2>1, <2>2
<1>4. \A q \in 1 .. l : a + q \in 1 .. Len(dst)
  BY <1>1, <1>3
<1>5. \A q \in 1 .. l : s[a + q] = dst[a + q]
  BY <1>4
<1>6. QED
  BY <1>1, <1>2, <1>5 DEF Holds

\* The names of array items and of members.
LEMMA MemberNamesAreNames ==
  ASSUME Types, stack # <<>>, NEW name \in MemberNames
  PROVE  name \in Seq(1 .. 255)
<1>1. Len(loops) \in DOMAIN loops /\ loops \in Seq(Loop)
  BY DEF Types, Loop
<1>2. Last(loops) \in Loop
  BY <1>1, ElementOfSeq DEF Last
<1>3. Last(loops).next \in Nat
  BY <1>2 DEF Loop
<1>4. QED
  BY <1>3, IndexNameIsName, NamesAssumption DEF MemberNames

LEMMA NextIndexIs ==
  ASSUME Types, stack # <<>>
  PROVE  /\ NextIndex \in Seq(Loop) /\ Len(NextIndex) = Len(loops)
         /\ \A s \in DOMAIN stack : NextIndex[s].type = loops[s].type
<1>1. loops \in Seq(Loop) /\ DOMAIN stack = 1 .. Len(loops)
      /\ Len(loops) \in 1 .. Len(loops)
  BY DEF Types, Loop
<1>2. PICK l \in Nat, r \in Loop : l = Len(loops) /\ r = loops[l]
  BY <1>1, ElementOfSeq
<1> DEFINE r1 == [r EXCEPT !.next = @ + 1]
<1>3. r1 \in Loop /\ r1.type = r.type
  BY DEF Loop
<1>4. NextIndex = [loops EXCEPT ![l] = r1]
  BY <1>2 DEF NextIndex
<1> HIDE DEF r1
<1>5. /\ NextIndex \in Seq(Loop) /\ Len(NextIndex) = l
      /\ \A s \in 1 .. l : NextIndex[s] = IF s = l THEN r1 ELSE loops[s]
  BY <1>1, <1>2, <1>3, <1>4
<1>6. QED
  BY <1>1, <1>2, <1>3, <1>5

\* What is written comes after what was there.
LEMMA PartsFollow ==
  ASSUME dst \in Seq(Byte), NEW t \in Seq(Byte), NEW u \in Seq(Byte),
         dst' = (dst \o t) \o u
  PROVE  /\ dst' \in Seq(Byte) /\ Len(dst') = Len(dst) + Len(t) + Len(u)
         /\ \A q \in 1 .. Len(dst) : dst'[q] = dst[q]
         /\ \A q \in 1 .. Len(t) : dst'[Len(dst) + q] = t[q]
         /\ \A q \in 1 .. Len(u) : dst'[Len(dst) + Len(t) + q] = u[q]
<1> PICK l \in Nat, m \in Nat, k \in Nat :
      l = Len(dst) /\ m = Len(t) /\ k = Len(u)
  OBVIOUS
<1>1. PICK w \in Seq(Byte) :
        /\ w = dst \o t /\ Len(w) = l + m
        /\ \A q \in 1 .. l : w[q] = dst[q]
        /\ \A q \in 1 .. m : w[l + q] = t[q]
  <2>1. /\ dst \o t \in Seq(Byte) /\ Len(dst \o t) = l + m
        /\ \A q \in 1 .. l : (dst \o t)[q] = dst[q]
        /\ \A q \in 1 .. m : (dst \o t)[l + q] = t[q]
    OBVIOUS
  <2>2. QED
    BY <2>1, Zenon
<1>2. /\ w \o u \in Seq(Byte) /\ Len(w \o u) = l + m + k
      /\ \A q \in 1 .. l + m : (w \o u)[q] = w[q]
      /\ \A q \in 1 .. k : (w \o u)[l + m + q] = u[q]
  BY <1>1
<1>3. /\ \A q \in 1 .. l : q \in 1 .. l + m
      /\ \A q \in 1 .. m : l + q \in 1 .. l + m
  OBVIOUS
<1>4. QED
  BY <1>1, <1>2, <1>3

\* A document begins, the first one or one inside another.
LEMMA StartKeeps ==
  ASSUME IInv, WriterStep, NEW type \in {Object, Array},
         NEW name \in Seq(1 .. 255), Start(type, name),
         NEW before \in Seq(Loop), Len(before) = Len(loops),
         \A s \in DOMAIN stack : before[s].type = loops[s].type,
         loops' = Append(before, [type |-> type, next |-> 0]),
         events = <<>> => name = <<>>,
         events # <<>> => stack # <<>>
  PROVE  IInv'
<1> DEFINE e == Event("start", type, name, <<>>, Len(dst),
                  Len(dst) + (IF name = <<>> THEN 0
                              ELSE Len(Header(type, name))))
<1>1. PICK l \in Nat, t \in Nat : l = Len(dst) /\ t = Len(stack)
  BY DEF IInv, Types
<1>2. dst \in Seq(Byte) /\ stack \in Seq(Nat) /\ events \in Seq(EventSet)
  BY DEF IInv, Types
<1>3. type \in Byte
  BY DEF Object, Array, Byte
<1>4. PICK c \in Seq(Byte) :
        c = IF name = <<>> THEN <<>> ELSE Header(type, name)
  BY <1>3, HeaderIs
<1>5. /\ e.kind = "start" /\ e.type = type /\ e.name = name /\ e.at = l
      /\ e.start = l + Len(c) /\ e.depth = t
  BY <1>1, <1>4 DEF Event
<1>6. e \in EventSet
  <2>1. Len(c) \in Nat /\ type \in Int /\ <<>> \in Seq(Byte)
    BY <1>3, <1>4 DEF Byte
  <2>2. l + Len(c) = Len(dst) + (IF name = <<>> THEN 0
                                 ELSE Len(Header(type, name)))
    BY <1>1, <1>4
  <2>3. l + Len(c) \in Nat
    BY <2>1
  <2>4. QED
    BY <1>1, <2>1, <2>2, <2>3 DEF Event, EventSet
<1>7. /\ dst' = (dst \o c) \o LE32(0) /\ stack' = Append(stack, e.start)
      /\ events' = Append(events, e)
  <2>1. CASE name = <<>>
    BY <1>1, <1>2, <1>4, <1>5, <2>1 DEF Start
  <2>2. CASE name # <<>>
    BY <1>1, <1>2, <1>4, <1>5, <2>2 DEF Start
  <2>3. QED
    BY <2>1, <2>2
<1> HIDE DEF e
<1>8. Code(e) = c /\ EventOK(e) /\ Stop(e) = l + Len(c) + 4 /\ After(e) = t + 1
  BY <1>1, <1>4, <1>5 DEF Code, EventOK, Stop, After
<1>9. PICK m \in Nat, z \in Seq(Byte) : m = Len(c) /\ z = LE32(0) /\ Len(z) = 4
  BY <1>4, LE32IsBytes
<1>10. Len(dst) = l /\ Len(c) = m /\ dst' = (dst \o c) \o z
  BY <1>1, <1>7, <1>9
<1>11. /\ dst' \in Seq(Byte) /\ Len(dst') = l + m + 4
       /\ \A q \in 1 .. l : dst'[q] = dst[q]
       /\ \A q \in 1 .. m : dst'[l + q] = c[q]
       /\ \A q \in 1 .. 4 : dst'[l + m + q] = z[q]
  <2>1. /\ dst' \in Seq(Byte) /\ Len(dst') = Len(dst) + Len(c) + Len(z)
        /\ \A q \in 1 .. Len(dst) : dst'[q] = dst[q]
        /\ \A q \in 1 .. Len(c) : dst'[Len(dst) + q] = c[q]
        /\ \A q \in 1 .. Len(z) : dst'[Len(dst) + Len(c) + q] = z[q]
    BY <1>2, <1>10, PartsFollow
  <2>2. QED
    BY <1>9, <1>10, <2>1, Zenon
<1>13. Holds(dst', e)
  BY <1>5, <1>8, <1>9, <1>11 DEF Holds
<1>14. Read32(dst', e.start) = 0
  <2>1. 0 \in Nat /\ 0 <= MaxInt32
    BY SMT DEF MaxInt32
  <2>2. PICK b \in Nat : b = e.start /\ b = l + m
    BY <1>5, <1>9
  <2>3. \A q \in 1 .. 4 : dst'[b + q] = LE32(0)[q]
    BY <1>9, <1>11, <2>2, Zenon
  <2>4. Read32(dst', b) = 0
    BY <2>1, <2>3, ReadLE32, Zenon
  <2>5. QED
    BY <2>2, <2>4, Zenon
<1>15. Layout'
  <2>1. \A k \in DOMAIN events : Holds(dst', events[k])
    BY <1>1, <1>11, HoldsOn DEF IInv
  <2>2. QED
    BY <1>1, <1>5, <1>6, <1>7, <1>8, <1>9, <1>11, <1>13, <2>1, LayoutKept
    DEF IInv
<1>16. /\ stack' \in Seq(Nat) /\ Len(stack') = t + 1
       /\ \A s \in 1 .. t : stack'[s] = stack[s]
       /\ stack'[t + 1] = e.start
  BY <1>1, <1>2, <1>6, <1>7, AppendIs DEF EventSet
<1>17. /\ loops' \in Seq(Loop) /\ Len(loops') = t + 1
       /\ \A s \in 1 .. t : loops'[s].type = loops[s].type
       /\ loops'[t + 1].type = type
  <2>1. Len(before) = t /\ DOMAIN stack = 1 .. t
    BY <1>1, <1>2 DEF IInv, Types
  <2>2. [type |-> type, next |-> 0] \in Loop
    BY DEF Loop
  <2>3. /\ loops' \in Seq(Loop) /\ Len(loops') = t + 1
        /\ \A s \in 1 .. t : loops'[s] = before[s]
        /\ loops'[t + 1] = [type |-> type, next |-> 0]
    BY <2>1, <2>2, AppendIs
  <2>4. loops'[t + 1].type = type
    BY <2>3, SMT
  <2>5. ASSUME NEW s \in 1 .. t
        PROVE  loops'[s].type = loops[s].type
    BY <2>1, <2>3, <2>5, Zenon
  <2>6. QED
    BY <2>3, <2>4, <2>5
<1>18. Types'
  <2>1. \A k \in 1 .. t : stack[k] \in Nat /\ stack[k] + 4 <= l
    <3>1. DOMAIN stack = 1 .. t
      BY <1>1, <1>2
    <3>2. QED
      BY <1>1, <1>2, <3>1, ElementOfSeq, Zenon DEF IInv, Types
  <2>2. e.start + 4 <= l + m + 4
    BY <1>5, <1>9
  <2>3. ASSUME NEW k \in 1 .. t + 1
        PROVE  stack'[k] + 4 <= l + m + 4
    <3>1. CASE k \in 1 .. t
      <4>1. PICK a \in Nat : a = stack[k]
        BY <2>1, <3>1, Zenon
      <4>2. a + 4 <= l
        BY <2>1, <3>1, <4>1
      <4>3. a + 4 <= l + m + 4
        BY <1>1, <4>2, Sums, Zenon
      <4>4. QED
        BY <1>16, <3>1, <4>1, <4>3
    <3>2. CASE k = t + 1
      BY <1>16, <2>2, <3>2
    <3>3. QED
      BY <2>3, <3>1, <3>2
  <2>4. events' \in Seq(EventSet)
    BY <1>2, <1>6, <1>7, AppendIs
  <2>5. \A k \in DOMAIN stack' : stack'[k] + 4 <= Len(dst')
    BY <1>11, <1>16, <2>3, SMTT(30)
  <2>6. QED
    BY <1>11, <1>16, <1>17, <2>4, <2>5, TypesWritten DEF IInv, WriterStep
<1>19. Levels'
  BY <1>1, <1>5, <1>6, <1>7, <1>8, <1>16, LevelsKept DEF IInv
<1>20. Brackets'
  <2>1. DOMAIN stack = 1 .. t /\ DOMAIN stack' = 1 .. t + 1
    BY <1>1, <1>2, <1>16
  <2>2. \A s \in DOMAIN stack :
          /\ s \in DOMAIN stack'
          /\ stack'[s] = stack[s] /\ loops'[s].type = loops[s].type
    BY <1>16, <1>17, <2>1
  <2>3. /\ e.kind # "end" /\ e.kind # "item" /\ e.depth = Len(stack)
        /\ Len(dst') >= Len(dst) /\ Len(dst') \in Nat
        /\ \A q \in 1 .. Len(dst) : dst'[q] = dst[q]
    <3>1. l + m + 4 \in Nat /\ l + m + 4 >= l
      BY Sums, Zenon
    <3>2. "start" # "end" /\ "start" # "item"
      OBVIOUS
    <3>3. QED
      BY <1>1, <1>5, <1>11, <3>1, <3>2, Zenon
  <2>4. /\ DOMAIN stack' = 1 .. Len(stack) + 1
        /\ stack'[Len(stack) + 1] = e.start
        /\ loops'[Len(stack) + 1].type = e.type
    BY <1>1, <1>5, <1>16, <1>17, <2>1
  <2>5. QED
    BY <1>6, <1>7, <1>14, <2>2, <2>3, <2>4, BracketsGrow DEF IInv
<1>21. QED
  BY <1>15, <1>18, <1>19, <1>20, ReaderWaits DEF IInv, WriterStep

\* A value that is no document is written.
LEMMA ItemKeeps ==
  ASSUME IInv, WriterStep, stack # <<>>, NEW v, IsScalar(v),
         NEW name \in Seq(1 .. 255),
         dst' = dst \o Encoded(name, v),
         events' = Append(events,
                     Event("item", v.type, name, v.value, Len(dst), Len(dst))),
         loops' = NextIndex, UNCHANGED stack
  PROVE  IInv'
<1> DEFINE e == Event("item", v.type, name, v.value, Len(dst), Len(dst))
<1>1. PICK l \in Nat, t \in Nat : l = Len(dst) /\ t = Len(stack) /\ t >= 1
  BY DEF IInv, Types
<1>2. dst \in Seq(Byte) /\ stack \in Seq(Nat) /\ events \in Seq(EventSet)
  BY DEF IInv, Types
<1>3. PICK c \in Seq(Byte) : c = Encoded(name, v) /\ Len(c) >= 1
  BY EncodedIs, PayloadIsBytes
<1>4. /\ e.kind = "item" /\ e.type = v.type /\ e.name = name /\ e.at = l
      /\ e.value = v.value /\ e.depth = t
  BY <1>1 DEF Event
<1>5. v.type \in Int /\ v.value \in Seq(Byte)
  BY DEF IsScalar, Foreign, Double, String, Object, Array, Binary,
         ObjectId, Boolean, UTC, Null, RegEx, Javascript, JsScope, Int32,
         Timestamp, Int64, Integer
<1>6. e \in EventSet
  BY <1>1, <1>5 DEF Event, EventSet
<1>7. events' = Append(events, e) /\ events # <<>>
  BY DEF IInv, Levels
<1> HIDE DEF e
<1>8. IsScalar(e) /\ Encoded(name, e) = c
  <2>1. IsScalar(e)
    BY <1>4, Zenon DEF IsScalar
  <2>2. WireType(e) = WireType(v)
    BY <1>4, Zenon DEF WireType
  <2>3. Payload(e) = Payload(v)
    BY <1>4, Zenon DEF Payload
  <2>4. QED
    BY <1>3, <2>1, <2>2, <2>3, Zenon DEF Encoded
<1>9. PICK m \in Nat : m = Len(c)
  BY <1>3
<1>10. Code(e) = c /\ EventOK(e) /\ Stop(e) = l + m /\ After(e) = t
  BY <1>1, <1>4, <1>8, <1>9 DEF Code, EventOK, Stop, After
<1>11. /\ dst' \in Seq(Byte) /\ Len(dst') = l + m
       /\ \A q \in 1 .. l : dst'[q] = dst[q]
       /\ \A q \in 1 .. m : dst'[l + q] = c[q]
  <2>1. <<>> \in Seq(Byte) /\ dst' = (dst \o c) \o <<>>
    BY <1>2, <1>3
  <2>2. /\ dst' \in Seq(Byte) /\ Len(dst') = Len(dst) + Len(c) + Len(<<>>)
        /\ \A q \in 1 .. Len(dst) : dst'[q] = dst[q]
        /\ \A q \in 1 .. Len(c) : dst'[Len(dst) + q] = c[q]
    BY <1>2, <2>1, PartsFollow
  <2>3. l + m + Len(<<>>) = l + m
    OBVIOUS
  <2>4. QED
    BY <1>1, <1>9, <2>2, <2>3, Zenon
<1>12. Holds(dst', e)
  BY <1>4, <1>9, <1>10, <1>11 DEF Holds
<1>13. Layout'
  <2>1. \A k \in DOMAIN events : Holds(dst', events[k])
    BY <1>1, <1>11, HoldsOn DEF IInv
  <2>2. QED
    BY <1>1, <1>4, <1>6, <1>7, <1>9, <1>10, <1>11, <1>12, <2>1, LayoutKept
    DEF IInv
<1>14. /\ loops' \in Seq(Loop) /\ Len(loops') = Len(stack)
       /\ \A s \in DOMAIN stack : loops'[s].type = loops[s].type
  BY NextIndexIs DEF IInv, Types
<1>15. l + m \in Nat /\ l + m >= l
  OBVIOUS
<1>16. Types'
  <2>1. events' \in Seq(EventSet)
    BY <1>2, <1>6, <1>7, AppendIs
  <2>2. ASSUME NEW k \in DOMAIN stack'
        PROVE  stack'[k] + 4 <= Len(dst')
    <3>1. stack[k] + 4 <= l /\ stack[k] \in Nat
      <4>1. k \in DOMAIN stack
        BY <2>2
      <4>2. stack[k] + 4 <= l
        BY <1>1, <4>1, Zenon DEF IInv, Types
      <4>3. stack[k] \in Nat
        BY <1>2, <4>1
      <4>4. QED
        BY <4>2, <4>3
    <3>2. PICK a \in Nat : a = stack[k] /\ a + 4 <= l
      BY <3>1, Zenon
    <3>3. a + 4 <= l + m
      BY <3>2
    <3>4. QED
      BY <1>11, <3>2, <3>3, Zenon
  <2>3. stack' \in Seq(Nat) /\ Len(stack') = Len(loops')
    BY <1>2, <1>14
  <2>4. QED
    BY <1>11, <1>14, <2>1, <2>2, <2>3, TypesWritten DEF IInv, WriterStep
<1>17. Levels'
  BY <1>1, <1>4, <1>6, <1>7, <1>10, LevelsKept DEF IInv
<1>18. Brackets'
  <2>1. \A s \in DOMAIN stack :
          /\ s \in DOMAIN stack'
          /\ stack'[s] = stack[s] /\ loops'[s].type = loops[s].type
    BY <1>14, Zenon
  <2>2. /\ e.kind # "end" /\ e.kind # "start" /\ e.depth = Len(stack)
        /\ Len(dst') >= Len(dst) /\ Len(dst') \in Nat
        /\ \A q \in 1 .. Len(dst) : dst'[q] = dst[q]
        /\ DOMAIN stack' = DOMAIN stack
    <3>1. "item" # "end" /\ "item" # "start"
      OBVIOUS
    <3>2. QED
      BY <1>1, <1>4, <1>11, <1>15, <3>1, Zenon
  <2>3. QED
    BY <1>6, <1>7, <2>1, <2>2, BracketsGrow DEF IInv
<1>19. QED
  BY <1>13, <1>16, <1>17, <1>18, ReaderWaits DEF IInv, WriterStep

\* What is patched is four bytes, and nothing moves.
LEMMA PatchIs ==
  ASSUME NEW s \in Seq(Byte), NEW p \in Nat, NEW b \in Seq(Byte), Len(b) = 4,
         p + 4 <= Len(s)
  PROVE  /\ Patch(s, p, b) \in Seq(Byte) /\ Len(Patch(s, p, b)) = Len(s)
         /\ \A q \in 1 .. Len(s) :
              q \notin p + 1 .. p + 4 => Patch(s, p, b)[q] = s[q]
         /\ \A q \in 1 .. 4 : Patch(s, p, b)[p + q] = b[q]
<1>1. PICK n \in Nat : n = Len(s) /\ DOMAIN s = 1 .. n
  OBVIOUS
<1>2. Patch(s, p, b) =
        [k \in 1 .. n |-> IF k - p \in 1 .. 4 THEN b[k - p] ELSE s[k]]
  BY <1>1 DEF Patch
<1>3. ASSUME NEW k \in 1 .. n
      PROVE  (IF k - p \in 1 .. 4 THEN b[k - p] ELSE s[k]) \in Byte
  <2>1. CASE k - p \in 1 .. 4
    <3>1. PICK j \in 1 .. 4 : j = k - p
      BY <2>1
    <3>2. b[j] \in Byte
      BY ElementOfSeq, Zenon
    <3>3. QED
      BY <2>1, <3>1, <3>2
  <2>2. CASE k - p \notin 1 .. 4
    <3>1. s[k] \in Byte
      BY <1>1
    <3>2. QED
      BY <2>2, <3>1
  <2>3. QED
    BY <2>1, <2>2
<1>4. Patch(s, p, b) \in [1 .. n -> Byte]
  BY <1>2, <1>3
<1>5. Patch(s, p, b) \in Seq(Byte) /\ Len(Patch(s, p, b)) = n
  BY <1>4, FunctionIsSeq, Zenon
<1>6. ASSUME NEW q \in 1 .. n, q \notin p + 1 .. p + 4
      PROVE  Patch(s, p, b)[q] = s[q]
  <2>1. q - p \notin 1 .. 4
    BY <1>6
  <2>2. QED
    BY <1>2, <2>1
<1>7. ASSUME NEW q \in 1 .. 4
      PROVE  Patch(s, p, b)[p + q] = b[q]
  <2>1. p + q \in 1 .. n /\ (p + q) - p = q
    BY <1>1
  <2>2. QED
    BY <1>2, <2>1
<1>8. QED
  BY <1>1, <1>5, <1>6, <1>7

\* The codec's stack has the place of the document that is ended.
LEMMA Innermost ==
  ASSUME IInv, stack # <<>>
  PROVE  /\ Last(stack) \in Nat /\ Last(stack) + 4 <= Len(dst)
         /\ Last(loops) \in Loop
         /\ \E top \in DOMAIN events :
              /\ events[top].kind = "start"
              /\ events[top].start = Last(stack)
<1>1. PICK t \in Nat : t = Len(stack) /\ t >= 1 /\ t = Len(loops)
  BY DEF IInv, Types
<1>2. stack \in Seq(Nat) /\ loops \in Seq(Loop)
  BY DEF IInv, Types, Loop
<1>3. t \in DOMAIN stack /\ t \in DOMAIN loops
  <2>1. t \in 1 .. Len(stack) /\ t \in 1 .. Len(loops)
    BY <1>1
  <2>2. DOMAIN stack = 1 .. Len(stack) /\ DOMAIN loops = 1 .. Len(loops)
    BY <1>2
  <2>3. QED
    BY <2>1, <2>2, Zenon
<1>4. stack[t] \in Nat /\ loops[t] \in Loop
  BY <1>2, <1>3
<1>5. stack[t] + 4 <= Len(dst)
  BY <1>3, Zenon DEF IInv, Types
<1>6. Opened(t)
  BY <1>3 DEF IInv, Brackets
<1>7. PICK top \in DOMAIN events :
        events[top].kind = "start" /\ OpenAt(top, t)
  BY <1>6 DEF Opened
<1>8. events[top].start = stack[t]
  BY <1>7 DEF OpenAt
<1>9. QED
  BY <1>1, <1>4, <1>5, <1>7, <1>8 DEF Last

\* The length of a document is outside the bytes of all events.
LEMMA CodeApart ==
  ASSUME Types, Layout, NEW k \in DOMAIN events, NEW top \in DOMAIN events,
         events[top].kind = "start",
         NEW q \in 1 .. Len(Code(events[k]))
  PROVE  /\ events[k].at + q \in 1 .. Len(dst)
         /\ events[k].at + q \notin events[top].start + 1 .. events[top].start + 4
<1>1. PICK n \in Nat : n = Len(events) /\ DOMAIN events = 1 .. n
  BY DEF Types
<1>2. /\ events[k] \in EventSet /\ events[top] \in EventSet
      /\ Placed(k) /\ Placed(top) /\ k \in 1 .. n /\ top \in 1 .. n
  BY <1>1 DEF Types, Layout
<1>3. PICK a \in Nat, m \in Nat, p \in Nat, b \in Nat, l \in Nat :
        /\ a = events[k].at /\ m = Len(Code(events[k]))
        /\ p = events[top].start /\ b = events[top].at /\ l = Len(dst)
  <2>1. /\ events[k].at \in Nat /\ events[top].start \in Nat
        /\ events[top].at \in Nat /\ Len(dst) \in Nat
    BY <1>2 DEF EventSet, Types
  <2>2. Len(Code(events[k])) \in Nat
    BY <1>2, StopIs DEF Placed
  <2>3. QED
    BY <2>1, <2>2, Zenon
<1>4. PICK h \in Nat : /\ h = Stop(events[k]) /\ h <= l /\ a + m <= h
                       /\ (events[k].kind = "start" => h = a + m + 4)
  <2>1. Stop(events[k]) <= l
    BY <1>2, <1>3 DEF Placed
  <2>2. CASE events[k].kind = "start"
    <3>1. Stop(events[k]) = a + m + 4
      BY <1>3, <2>2 DEF Stop
    <3>2. QED
      BY <2>1, <2>2, <3>1
  <2>3. CASE events[k].kind # "start"
    <3>1. Stop(events[k]) = a + m
      BY <1>3, <2>3 DEF Stop
    <3>2. QED
      BY <2>1, <2>3, <3>1
  <2>4. QED
    BY <2>2, <2>3
<1>5. b <= p /\ Stop(events[top]) = p + 4
  BY <1>2, <1>3, LengthIsThere
<1>6. q \in 1 .. m
  BY <1>3
<1>7. a + q \in 1 .. l
  BY <1>4, <1>6
<1>8. a + q \notin p + 1 .. p + 4
  <2>1. CASE k < top
    <3>1. k \in 1 .. top - 1
      BY <1>2, <2>1
    <3>2. h <= b
      BY <1>2, <1>3, <1>4, <3>1 DEF Placed
    <3>3. QED
      BY <1>4, <1>5, <1>6, <3>2
  <2>2. CASE top < k
    <3>1. top \in 1 .. k - 1
      BY <1>2, <2>2
    <3>2. p + 4 <= a
      BY <1>2, <1>3, <1>5, <3>1 DEF Placed
    <3>3. QED
      BY <1>6, <3>2
  <2>3. CASE k = top
    <3>1. p = a + m
      BY <1>2, <1>3, <2>3 DEF Placed, EventOK
    <3>2. QED
      BY <1>6, <3>1
  <2>4. QED
    BY <1>2, <2>1, <2>2, <2>3
<1>9. QED
  BY <1>3, <1>7, <1>8

LEMMA FrontIs ==
  ASSUME NEW S, NEW s \in Seq(S), NEW t \in Nat, t = Len(s), t >= 1
  PROVE  /\ Front(s) \in Seq(S) /\ Len(Front(s)) = t - 1
         /\ \A k \in 1 .. t - 1 : Front(s)[k] = s[k]
BY DEF Front

\* The footer comes at the end, the length where it starts.
LEMMA FooterAndLength ==
  ASSUME dst \in Seq(Byte), NEW p \in Nat, NEW l \in Nat, l = Len(dst),
         p + 4 <= l,
         dst' = Patch(Append(dst, 0), p, LE32(Len(Append(dst, 0)) - p))
  PROVE  /\ dst' \in Seq(Byte) /\ Len(dst') = l + 1
         /\ \A q \in 1 .. l : q \notin p + 1 .. p + 4 => dst'[q] = dst[q]
         /\ \A q \in 1 .. 4 : dst'[p + q] = LE32(l + 1 - p)[q]
         /\ dst'[l + 1] = 0
<1>1. PICK ended \in Seq(Byte) :
        /\ ended = Append(dst, 0) /\ Len(ended) = l + 1
        /\ \A q \in 1 .. l : ended[q] = dst[q]
        /\ ended[l + 1] = 0
  <2>1. 0 \in Byte
    BY DEF Byte
  <2>2. QED
    BY <2>1, AppendIs
<1>2. PICK m \in Nat : m = l + 1 - p
  OBVIOUS
<1>3. PICK z \in Seq(Byte) : z = LE32(m) /\ Len(z) = 4
  BY LE32IsBytes
<1>4. dst' = Patch(ended, p, z)
  BY <1>1, <1>2, <1>3
<1>5. p + 4 <= Len(ended)
  BY <1>1
<1>6. /\ Patch(ended, p, z) \in Seq(Byte) /\ Len(Patch(ended, p, z)) = l + 1
      /\ \A q \in 1 .. l + 1 :
           q \notin p + 1 .. p + 4 => Patch(ended, p, z)[q] = ended[q]
      /\ \A q \in 1 .. 4 : Patch(ended, p, z)[p + q] = z[q]
  <2>1. Len(z) = 4
    BY <1>3
  <2>2. /\ Patch(ended, p, z) \in Seq(Byte)
        /\ Len(Patch(ended, p, z)) = Len(ended)
        /\ \A q \in 1 .. Len(ended) :
             q \notin p + 1 .. p + 4 => Patch(ended, p, z)[q] = ended[q]
        /\ \A q \in 1 .. 4 : Patch(ended, p, z)[p + q] = z[q]
    BY <1>5, <2>1, PatchIs, SMTT(30)
  <2>3. QED
    BY <1>1, <2>2, Zenon
<1>7. l + 1 \in 1 .. l + 1 /\ l + 1 \notin p + 1 .. p + 4
  OBVIOUS
<1>8. \A q \in 1 .. l : q \in 1 .. l + 1
  OBVIOUS
<1>9. QED
  BY <1>1, <1>2, <1>3, <1>4, <1>6, <1>7, <1>8, ZenonT(60)

\* The innermost document ends.
LEMMA EndKeeps ==
  ASSUME IInv, WriteEnd
  PROVE  IInv'
<1> DEFINE e == Event("end", Last(loops).type, <<>>, <<>>, Len(dst), Len(dst))
<1>1. PICK l \in Nat, t \in Nat :
        /\ l = Len(dst) /\ t = Len(stack) /\ t >= 1 /\ t = Len(loops)
  BY DEF IInv, Types, WriteEnd
<1>2. /\ dst \in Seq(Byte) /\ stack \in Seq(Nat) /\ events \in Seq(EventSet)
      /\ loops \in Seq(Loop) /\ stack # <<>> /\ DOMAIN stack = 1 .. Len(stack)
  BY DEF IInv, Types, Loop, WriteEnd
<1>3. PICK p \in Nat : p = Last(stack) /\ p + 4 <= l
  BY <1>1, <1>2, Innermost
<1>4. PICK top \in DOMAIN events :
        events[top].kind = "start" /\ events[top].start = p
  BY <1>2, <1>3, Innermost
<1>5. dst' = Patch(Append(dst, 0), p, LE32(Len(Append(dst, 0)) - p))
  BY <1>3, Zenon DEF WriteEnd
<1>6. /\ dst' \in Seq(Byte) /\ Len(dst') = l + 1
      /\ \A q \in 1 .. l : q \notin p + 1 .. p + 4 => dst'[q] = dst[q]
      /\ \A q \in 1 .. 4 : dst'[p + q] = LE32(l + 1 - p)[q]
      /\ dst'[l + 1] = 0
  BY <1>1, <1>2, <1>3, <1>5, FooterAndLength, ZenonT(60)
<1>12. /\ e.kind = "end" /\ e.at = l /\ e.depth = t
       /\ events' = Append(events, e)
  BY <1>1 DEF Event, WriteEnd
<1>13. e \in EventSet
  <2>1. Last(loops).type \in Int
    BY <1>2, Innermost DEF Loop, Object, Array
  <2>2. QED
    BY <1>1, <2>1 DEF Event, EventSet
<1> HIDE DEF e
<1>14. Code(e) = <<0>> /\ EventOK(e) /\ Stop(e) = l + 1 /\ After(e) = t - 1
  BY <1>12 DEF Code, EventOK, Stop, After
<1>15. Holds(dst', e)
  BY <1>6, <1>12, <1>14 DEF Holds
<1>16. ASSUME NEW k \in DOMAIN events
       PROVE  Holds(dst', events[k])
  <2>1. Holds(dst, events[k])
    BY DEF IInv, Layout, Placed
  <2>2. ASSUME NEW q \in 1 .. Len(Code(events[k]))
        PROVE  dst'[events[k].at + q] = dst[events[k].at + q]
    <3>1. /\ events[k].at + q \in 1 .. l
          /\ events[k].at + q \notin p + 1 .. p + 4
      BY <1>1, <1>4, CodeApart DEF IInv
    <3>2. QED
      BY <1>6, <3>1
  <2>3. QED
    BY <2>1, <2>2 DEF Holds
<1>17. Layout'
  BY <1>1, <1>6, <1>12, <1>13, <1>14, <1>15, <1>16, LayoutKept DEF IInv
<1>18. /\ stack' \in Seq(Nat) /\ Len(stack') = t - 1
       /\ loops' \in Seq(Loop) /\ Len(loops') = t - 1
       /\ \A s \in 1 .. t - 1 : stack'[s] = stack[s] /\ loops'[s] = loops[s]
  <2>1. stack' = Front(stack) /\ loops' = Front(loops)
    BY DEF WriteEnd
  <2>2. /\ Front(stack) \in Seq(Nat) /\ Len(Front(stack)) = t - 1
        /\ \A s \in 1 .. t - 1 : Front(stack)[s] = stack[s]
    BY <1>1, <1>2, FrontIs, Zenon
  <2>3. /\ Front(loops) \in Seq(Loop) /\ Len(Front(loops)) = t - 1
        /\ \A s \in 1 .. t - 1 : Front(loops)[s] = loops[s]
    BY <1>1, <1>2, FrontIs, Zenon
  <2>4. QED
    BY <2>1, <2>2, <2>3, Zenon
<1>19. UNCHANGED <<phase, reader>> /\ phase = "write"
  BY DEF WriteEnd, WriterStep
<1>20. Types'
  <2>1. events' \in Seq(EventSet)
    BY <1>2, <1>12, <1>13, AppendIs
  <2>2. ASSUME NEW k \in DOMAIN stack'
        PROVE  stack'[k] + 4 <= Len(dst')
    <3>1. k \in 1 .. t - 1
      <4>1. DOMAIN stack' = 1 .. t - 1
        BY <1>18
      <4>2. QED
        BY <4>1, Zenon
    <3>2. k \in DOMAIN stack
      <4>1. k \in 1 .. t
        BY <3>1
      <4>2. DOMAIN stack = 1 .. t
        BY <1>1, <1>2, Zenon
      <4>3. QED
        BY <4>1, <4>2, Zenon
    <3>3. stack[k] + 4 <= l
      BY <1>1, <3>2, Zenon DEF IInv, Types
    <3>4. PICK a \in Nat : a = stack[k]
      BY <1>2, <3>2
    <3>5. a + 4 <= l + 1
      BY <3>3, <3>4
    <3>6. QED
      BY <1>6, <1>18, <3>1, <3>4, <3>5, Zenon
  <2>3. QED
    BY <1>6, <1>18, <1>19, <2>1, <2>2, TypesWritten DEF IInv
<1>21. Levels'
  <2>1. events # <<>>
    BY <1>2 DEF IInv, Levels
  <2>2. QED
    BY <1>1, <1>2, <1>12, <1>13, <1>14, <1>18, <2>1, LevelsKept DEF IInv
<1>22. Brackets'
  <2>1. /\ p = stack[Len(stack)] /\ p <= Len(dst) /\ Len(dst') = Len(dst) + 1
        /\ e.depth = Len(stack) /\ e.at = Len(dst) /\ Len(stack) >= 1
    <3>1. p <= l
      BY <1>3
    <3>2. QED
      BY <1>1, <1>3, <1>6, <1>12, <3>1, Zenon DEF Last
  <2>2. \A q \in 1 .. Len(dst) : q \notin p + 1 .. p + 4 => dst'[q] = dst[q]
    BY <1>1, <1>6, Zenon
  <2>3. \A q \in 1 .. 4 : dst'[p + q] = LE32(Len(dst) + 1 - p)[q]
    BY <1>1, <1>6, Zenon
  <2>4. DOMAIN stack' = 1 .. Len(stack) - 1
    BY <1>1, <1>18
  <2>5. \A s \in 1 .. Len(stack) - 1 :
          stack'[s] = stack[s] /\ loops'[s].type = loops[s].type
    BY <1>1, <1>18, Zenon
  <2>6. QED
    BY <1>12, <1>13, <2>1, <2>2, <2>3, <2>4, <2>5, BracketsShrink DEF IInv
<1>23. QED
  BY <1>17, <1>19, <1>20, <1>21, <1>22, ReaderWaits DEF IInv

LEMMA WriterKeeps ==
  ASSUME IInv, WriteTop \/ WriteDocument \/ WriteItem \/ WriteEnd
  PROVE  IInv'
<1>1. CASE WriteTop
  <2>1. PICK type \in {Object, Array} :
          /\ Start(type, <<>>)
          /\ loops' = <<[type |-> type, next |-> 0]>>
    BY <1>1 DEF WriteTop
  <2>2. stack = <<>> /\ Len(loops) = 0 /\ events = <<>>
    BY <1>1 DEF WriteTop, IInv, Levels, Types
  <2>3. <<>> \in Seq(Loop) /\ <<>> \in Seq(1 .. 255) /\ Len(<<>>) = Len(loops)
    BY <2>2
  <2>4. loops' = Append(<<>>, [type |-> type, next |-> 0])
    BY <2>1
  <2>5. \A s \in DOMAIN stack : <<>>[s].type = loops[s].type
    BY <2>2
  <2>6. WriterStep
    BY <1>1 DEF WriteTop
  <2>7. QED
    BY <2>1, <2>2, <2>3, <2>4, <2>5, <2>6, StartKeeps, ZenonT(60)
<1>2. CASE WriteDocument
  <2>1. PICK type \in {Object, Array}, name \in MemberNames :
          /\ Start(type, name)
          /\ loops' = Append(NextIndex, [type |-> type, next |-> 0])
    BY <1>2 DEF WriteDocument
  <2>2. stack # <<>> /\ WriterStep
    BY <1>2 DEF WriteDocument
  <2>3. name \in Seq(1 .. 255)
    BY <2>2, MemberNamesAreNames DEF IInv
  <2>4. /\ NextIndex \in Seq(Loop) /\ Len(NextIndex) = Len(loops)
        /\ \A s \in DOMAIN stack : NextIndex[s].type = loops[s].type
    BY <2>2, NextIndexIs DEF IInv
  <2>5. events # <<>>
    BY <2>2 DEF IInv, Levels
  <2>6. QED
    BY <2>1, <2>2, <2>3, <2>4, <2>5, StartKeeps
<1>3. CASE WriteItem
  <2>1. PICK v \in Scalars, name \in MemberNames :
          /\ dst' = dst \o Encoded(name, v)
          /\ events' = Append(events,
                         Event("item", v.type, name, v.value, Len(dst), Len(dst)))
    BY <1>3 DEF WriteItem
  <2>2. WriterStep /\ stack # <<>> /\ loops' = NextIndex /\ UNCHANGED stack
    BY <1>3 DEF WriteItem
  <2>3. name \in Seq(1 .. 255) /\ IsScalar(v)
    BY <2>2, MemberNamesAreNames, ScalarsAssumption DEF IInv
  <2>4. QED
    BY <2>1, <2>2, <2>3, ItemKeeps
<1>4. CASE WriteEnd
  BY <1>4, EndKeeps
<1>5. QED
  BY <1>1, <1>2, <1>3, <1>4
-----------------------------------------------------------------------------
(* The reader: it stays in step with the writer, whose invariant the      *)
(* lemmas above show.                                                      *)

-----------------------------------------------------------------------------
(* The events of a document that is complete. *)

\* What every event of a document that was sent has.
LEMMA EventIs ==
  ASSUME IInv, NEW k \in DOMAIN events
  PROVE  /\ events[k] \in EventSet /\ EventOK(events[k])
         /\ events[k].at \in Nat /\ events[k].start \in Nat
         /\ events[k].depth \in Nat
         /\ Code(events[k]) \in Seq(Byte) /\ Len(Code(events[k])) \in Nat
         /\ Stop(events[k]) \in Nat /\ Stop(events[k]) >= events[k].at + 1
         /\ Stop(events[k]) <= Len(dst) /\ Len(dst) \in Nat
         /\ Holds(dst, events[k])
         /\ DOMAIN events = 1 .. Len(events) /\ Len(events) \in Nat
<1>1. events \in Seq(EventSet) /\ Len(dst) \in Nat
  BY DEF IInv, Types
<1>2. events[k] \in EventSet /\ DOMAIN events = 1 .. Len(events)
      /\ Len(events) \in Nat
  BY <1>1
<1>3. Placed(k)
  BY DEF IInv, Layout
<1>4. /\ EventOK(events[k]) /\ Holds(dst, events[k])
      /\ Stop(events[k]) <= Len(dst)
  BY <1>3 DEF Placed
<1>5. /\ events[k].at \in Nat /\ events[k].start \in Nat
      /\ events[k].depth \in Nat
  BY <1>2 DEF EventSet
<1>6. /\ Code(events[k]) \in Seq(Byte) /\ Len(Code(events[k])) \in Nat
      /\ Stop(events[k]) \in Nat /\ Stop(events[k]) >= events[k].at + 1
  BY <1>2, <1>4, StopIs
<1>7. QED
  BY <1>1, <1>2, <1>4, <1>5, <1>6, Zenon

\* While a document is open another event follows; none follows the last end.
LEMMA NextEvent ==
  ASSUME IInv, stack = <<>>, NEW k \in DOMAIN events
  PROVE  /\ After(events[k]) >= 1 =>
              /\ k + 1 \in DOMAIN events
              /\ events[k + 1].at = Stop(events[k])
              /\ events[k + 1].depth = After(events[k])
         /\ After(events[k]) = 0 =>
              k = Len(events) /\ Stop(events[k]) = Len(dst)
<1>1. PICK n \in Nat : n = Len(events) /\ DOMAIN events = 1 .. n
  BY EventIs
<1>2. k \in 1 .. n /\ events # <<>> /\ Len(stack) = 0
  <2>1. events \in Seq(EventSet) /\ stack \in Seq(Nat)
    BY DEF IInv, Types
  <2>2. QED
    BY <1>1, <2>1
<1>3. After(events[n]) = 0 /\ Stop(events[n]) = Len(dst)
  BY <1>1, <1>2 DEF IInv, Levels, Layout
<1>4. CASE k = n
  BY <1>1, <1>3, <1>4
<1>5. CASE k < n
  <2>1. k + 1 \in 1 .. n /\ k + 1 > 1 /\ (k + 1) - 1 = k
    BY <1>2, <1>5
  <2>2. Placed(k + 1) /\ Deeper(k + 1)
    BY <1>1, <2>1 DEF IInv, Layout, Levels
  <2>3. /\ events[k + 1].at = Stop(events[k])
        /\ events[k + 1].depth = After(events[k])
        /\ events[k + 1].depth >= 1
    BY <2>1, <2>2, Zenon DEF Placed, Deeper
  <2>4. After(events[k]) # 0
    BY <2>3
  <2>5. QED
    BY <1>1, <2>1, <2>3, <2>4
<1>6. QED
  BY <1>2, <1>4, <1>5

\* Every document has its end, and the length says where.
LEMMA DocumentEnds ==
  ASSUME IInv, stack = <<>>, Regular,
         NEW k \in DOMAIN events, events[k].kind = "start"
  PROVE  \E x \in DOMAIN events :
           /\ x \in k + 1 .. Len(events) /\ Closes(k, x)
           /\ Stop(events[x]) = events[x].at + 1
           /\ After(events[x]) = events[k].depth
           /\ Read32(dst, events[k].start) = Stop(events[x]) - events[k].start
<1>1. DOMAIN stack = {}
  BY DEF IInv, Types
<1>2. Closed(k)
  BY <1>1, Zenon DEF IInv, Brackets, StillOpen
<1>3. PICK x \in DOMAIN events :
        /\ x \in k + 1 .. Len(events) /\ Closes(k, x)
        /\ Read32(dst, events[k].start) = events[x].at + 1 - events[k].start
  <2>1. DOMAIN events = 1 .. Len(events) /\ Len(events) \in Nat /\ k \in Nat
    BY EventIs
  <2>2. \A x \in k + 1 .. Len(events) : x \in DOMAIN events
    BY <2>1
  <2>3. QED
    BY <1>2, <2>2, Zenon DEF Closed, Regular
<1>5. /\ events[x].kind = "end" /\ events[x].depth = events[k].depth + 1
      /\ events[k].depth \in Nat /\ events[x].at \in Nat
  BY <1>3, EventIs DEF Closes
<1>6. Stop(events[x]) = events[x].at + 1 /\ After(events[x]) = events[k].depth
  BY <1>5 DEF Stop, Code, After
<1>7. Read32(dst, events[k].start) = Stop(events[x]) - events[k].start
  <2>1. PICK a \in Nat, s \in Nat : a = events[x].at /\ s = events[k].start
    BY <1>5, EventIs, Zenon
  <2>2. Read32(dst, s) = a + 1 - s /\ Stop(events[x]) = a + 1
    BY <1>3, <1>6, <2>1, Zenon
  <2>3. a + 1 - s = (a + 1) - s
    OBVIOUS
  <2>4. QED
    BY <2>1, <2>2, <2>3, Zenon
<1>8. QED
  BY <1>3, <1>6, <1>7, Zenon

\* The model's name for it.
LEMMA EndOfIs ==
  ASSUME IInv, NEW k \in DOMAIN events, events[k].kind = "start",
         NEW x \in k + 1 .. Len(events), Closes(k, x)
  PROVE  EndOf(k) = x
<1> DEFINE P(e) == /\ events[e].kind = "end"
                   /\ events[e].depth = events[k].depth + 1
                   /\ \A m \in k + 1 .. e - 1 :
                        events[m].depth > events[k].depth + 1
                          \/ events[m].kind # "end"
<1>1. k \in Nat /\ Len(events) \in Nat /\ events[k].depth \in Nat
  BY EventIs
<1>2. P(x)
  BY DEF Closes
<1>3. ASSUME NEW e \in k + 1 .. Len(events), P(e)
      PROVE  e = x
  <2>1. CASE e < x
    <3>1. e \in k + 1 .. x - 1
      BY <1>1, <2>1
    <3>2. events[e].depth > events[k].depth + 1
      BY <1>3, <3>1 DEF Closes
    <3>3. QED
      BY <1>1, <1>3, <3>2
  <2>2. CASE x < e
    <3>1. x \in k + 1 .. e - 1
      BY <1>1, <2>2
    <3>2. events[x].depth > events[k].depth + 1 \/ events[x].kind # "end"
      BY <1>3, <3>1
    <3>3. QED
      BY <1>1, <1>2, <3>2
  <2>3. QED
    BY <1>1, <2>1, <2>2
<1>4. EndOf(k) = CHOOSE e \in k + 1 .. Len(events) : P(e)
  BY DEF EndOf
<1> HIDE DEF P
<1>5. QED
  BY <1>2, <1>3, <1>4, Zenon

-----------------------------------------------------------------------------
(* Cstrings. *)

CStringEnd(p, e) ==
  /\ e <= Size => data[e] = 0
  /\ \A k \in p + 1 .. e - 1 : data[k] # 0

\* There is always an end, beyond the data if there is no NUL.
LEMMA CStringEnds ==
  ASSUME data \in Seq(Byte), NEW p \in Nat, p <= Size
  PROVE  /\ AfterCString(p) \in p + 1 .. Size + 1
         /\ CStringEnd(p, AfterCString(p))
<1>1. PICK n \in Nat : n = Size
  BY DEF Size
<1> DEFINE T == {e \in p + 1 .. n + 1 : e <= n => data[e] = 0}
<1>2. T \in SUBSET Nat /\ n + 1 \in T
  BY <1>1
<1>3. PICK e \in T : \A y \in T : e <= y
  BY <1>2, LeastElement
<1>4. ASSUME NEW k \in p + 1 .. e - 1
      PROVE  data[k] # 0
  <2>1. k < e /\ k \in p + 1 .. n + 1 /\ k \in Nat /\ e \in Nat
    BY <1>2
  <2>2. k \notin T
    BY <1>3, <2>1
  <2>3. QED
    BY <2>1, <2>2
<1>5. e \in p + 1 .. Size + 1 /\ CStringEnd(p, e)
  BY <1>1, <1>4 DEF CStringEnd
<1>6. AfterCString(p) = CHOOSE x \in p + 1 .. Size + 1 : CStringEnd(p, x)
  BY DEF AfterCString, CStringEnd
<1>7. QED
  BY <1>5, <1>6, Zenon

\* The end is the first NUL.
LEMMA CStringAt ==
  ASSUME data \in Seq(Byte), NEW p \in Nat, NEW m \in p + 1 .. Size,
         data[m] = 0, \A k \in p + 1 .. m - 1 : data[k] # 0
  PROVE  AfterCString(p) = m
<1>1. PICK n \in Nat : n = Size
  BY DEF Size
<1>2. m \in Nat /\ p <= n /\ m <= n /\ m >= p + 1
  BY <1>1
<1>3. PICK e \in p + 1 .. n + 1 : e = AfterCString(p) /\ CStringEnd(p, e)
  BY <1>1, <1>2, CStringEnds
<1>4. CASE e < m
  <2>1. e \in p + 1 .. m - 1 /\ e <= n
    BY <1>2, <1>4
  <2>2. data[e] = 0
    BY <1>1, <1>3, <2>1 DEF CStringEnd
  <2>3. QED
    BY <2>1, <2>2
<1>5. CASE m < e
  <2>1. m \in p + 1 .. e - 1
    BY <1>2, <1>5
  <2>2. QED
    BY <1>3, <2>1 DEF CStringEnd
<1>6. QED
  BY <1>2, <1>3, <1>4, <1>5

-----------------------------------------------------------------------------
(* What the reader finds at an event. *)

\* A part of the data that is a sequence.
LEMMA PartIs ==
  ASSUME data \in Seq(Byte), NEW p \in Nat, NEW s, NEW S, s \in Seq(S),
         NEW m \in Nat, m = Len(s), p + m <= Size,
         \A q \in 1 .. m : data[p + q] = s[q]
  PROVE  SubSeq(data, p + 1, p + m) = s
<1>1. PICK n \in Nat : n = Size /\ n = Len(data) /\ p + m <= n
  BY DEF Size
<1> DEFINE t == SubSeq(data, p + 1, p + m)
<1>2. t \in Seq(Byte) /\ Len(t) = m /\ \A q \in 1 .. m : t[q] = data[p + q]
  BY <1>1
<1> HIDE DEF t
<1>3. DOMAIN t = 1 .. m /\ DOMAIN s = 1 .. m
  BY <1>2
<1>4. \A q \in 1 .. m : t[q] = s[q]
  BY <1>2
<1>5. t = s
  BY <1>2, <1>4, SeqEqual
<1>6. QED
  BY <1>5 DEF t

\* The type and the name of a header.
LEMMA HeaderRead ==
  ASSUME data \in Seq(Byte), NEW p \in Nat, NEW name \in Seq(1 .. 255),
         NEW m \in Nat, m = Len(name), p + m + 2 <= Size,
         \A q \in 1 .. m : data[p + 1 + q] = name[q],
         data[p + m + 2] = 0
  PROVE  /\ AfterCString(p + 1) = p + m + 2
         /\ SubSeq(data, p + 2, p + m + 1) = name
<1>1. PICK b \in Nat : b = p + 1
  OBVIOUS
<1>2. PICK n \in Nat : n = Size /\ p + m + 2 <= n
  BY DEF Size
<1>3. p + m + 2 \in b + 1 .. Size
  BY <1>1, <1>2
<1>4. ASSUME NEW k \in b + 1 .. (p + m + 2) - 1
      PROVE  data[k] # 0
  <2>1. PICK q \in 1 .. m : k = b + q
    <3>1. k - b \in 1 .. m /\ k = b + (k - b)
      BY <1>1
    <3>2. QED
      BY <3>1
  <2>2. name[q] \in 1 .. 255
    BY ElementOfSeq, Zenon
  <2>3. data[b + q] = name[q]
    BY <1>1, Zenon
  <2>4. name[q] # 0
    BY <2>2, Sums, Zenon
  <2>5. QED
    BY <2>1, <2>3, <2>4, Zenon
<1>5. AfterCString(b) = p + m + 2
  BY <1>3, <1>4, CStringAt
<1>6. SubSeq(data, b + 1, b + m) = name
  <2>1. b + m <= Size
    BY <1>1, <1>2
  <2>2. \A q \in 1 .. m : data[b + q] = name[q]
    BY <1>1
  <2>3. QED
    BY <2>1, <2>2, PartIs
<1>7. b + 1 = p + 2 /\ b + m = p + m + 1
  BY <1>1
<1>8. QED
  BY <1>1, <1>5, <1>6, <1>7

\* The bytes of an event are found where it was written.
LEMMA CodeFound ==
  ASSUME IInv, data = dst, NEW k \in DOMAIN events
  PROVE  /\ data \in Seq(Byte)
         /\ events[k].at + Len(Code(events[k])) <= Size
         /\ events[k].at < Size
         /\ \A q \in 1 .. Len(Code(events[k])) :
              data[events[k].at + q] = Code(events[k])[q]
<1> PICK a \in Nat, c \in Seq(Byte), n \in Nat :
      a = events[k].at /\ c = Code(events[k]) /\ n = Len(c)
  BY EventIs
<1>1. /\ Holds(dst, events[k]) /\ Stop(events[k]) \in Nat
      /\ Stop(events[k]) <= Size /\ Size \in Nat
      /\ Stop(events[k]) >= a + 1
  BY EventIs DEF Size
<1>2. data \in Seq(Byte)
  BY DEF IInv, Types
<1>3. a + n <= Stop(events[k])
  <2>1. CASE events[k].kind = "start"
    <3>1. Stop(events[k]) = a + n + 4
      BY <2>1 DEF Stop
    <3>2. QED
      BY <3>1
  <2>2. CASE events[k].kind # "start"
    <3>1. Stop(events[k]) = a + n
      BY <2>2 DEF Stop
    <3>2. QED
      BY <3>1
  <2>3. QED
    BY <2>1, <2>2
<1>4. \A q \in 1 .. n : data[a + q] = c[q]
  BY <1>1, Zenon DEF Holds
<1>5. a + n <= Size /\ a < Size
  <2>1. PICK t \in Nat, z \in Nat :
          t = Stop(events[k]) /\ z = Size /\ t <= z /\ t >= a + 1 /\ a + n <= t
    BY <1>1, <1>3, Zenon
  <2>2. a + n <= z /\ a < z
    BY <2>1
  <2>3. QED
    BY <2>1, <2>2, Zenon
<1>6. QED
  BY <1>2, <1>4, <1>5, Zenon

\* Bytes that are a header and what follows it.
Follows(c, type, name, w) ==
  /\ c \in Seq(Byte) /\ Len(c) = Len(name) + 2 + Len(w)
  /\ c[1] = type /\ c[Len(name) + 2] = 0
  /\ \A q \in 1 .. Len(name) : c[1 + q] = name[q]
  /\ \A q \in 1 .. Len(w) : c[Len(name) + 2 + q] = w[q]

LEMMA HeaderFound ==
  ASSUME IInv, data = dst, NEW k \in DOMAIN events, i = events[k].at,
         NEW type \in Byte, NEW name \in Seq(1 .. 255), NEW w \in Seq(Byte),
         Follows(Code(events[k]), type, name, w)
  PROVE  /\ Type = type /\ 0 <= i /\ i < Size
         /\ ValueAt \in Nat /\ ValueAt <= Size
         /\ SubSeq(data, i + 2, ValueAt - 1) = name
         /\ ValueAt + Len(w) = i + Len(Code(events[k]))
         /\ \A q \in 1 .. Len(w) : data[ValueAt + q] = w[q]
<1>1. PICK a \in Nat, m \in Nat, j \in Nat :
        a = i /\ m = Len(name) /\ j = Len(w)
  BY EventIs
<1>2. PICK n \in Nat : n = m + 2 + j
  OBVIOUS
<1>3. PICK c \in Seq(Byte) : c = Code(events[k])
  BY Zenon DEF Follows
<1>4. /\ Len(c) = n /\ c[1] = type /\ c[m + 2] = 0
      /\ \A q \in 1 .. m : c[1 + q] = name[q]
      /\ \A q \in 1 .. j : c[m + 2 + q] = w[q]
  BY <1>1, <1>2, <1>3, Zenon DEF Follows
<1>5. /\ data \in Seq(Byte) /\ a + n <= Size /\ a < Size
      /\ \A q \in 1 .. n : data[a + q] = c[q]
  <2>1. a = events[k].at /\ n = Len(c)
    BY <1>1, <1>4
  <2>2. QED
    BY <1>3, <2>1, CodeFound, Zenon
<1>6. /\ 1 \in 1 .. n /\ m + 2 \in 1 .. n
      /\ a + m + 2 \in Nat /\ a + (m + 2) = a + m + 2
      /\ a + m + 2 + j = a + n /\ (a + m + 2) - 1 = a + m + 1
      /\ 0 <= a
  BY <1>2
<1>7. \A q \in 1 .. m : data[a + 1 + q] = name[q]
  <2>1. ASSUME NEW q \in 1 .. m
        PROVE  data[a + 1 + q] = name[q]
    <3>1. 1 + q \in 1 .. n /\ a + (1 + q) = a + 1 + q
      BY <1>2
    <3>2. QED
      BY <1>4, <1>5, <3>1, Zenon
  <2>2. QED
    BY <2>1
<1>8. \A q \in 1 .. j : data[(a + m + 2) + q] = w[q]
  <2>1. ASSUME NEW q \in 1 .. j
        PROVE  data[(a + m + 2) + q] = w[q]
    <3>1. m + 2 + q \in 1 .. n /\ a + (m + 2 + q) = (a + m + 2) + q
      BY <1>2
    <3>2. QED
      BY <1>4, <1>5, <3>1, Zenon
  <2>2. QED
    BY <2>1
<1>9. data[a + 1] = type /\ data[a + m + 2] = 0
  BY <1>4, <1>5, <1>6, Zenon
<1>10. a + m + 2 <= Size
  <2>1. PICK z \in Nat : z = Size
    BY <1>5 DEF Size
  <2>2. a + n <= z
    BY <1>5, <2>1
  <2>3. a + m + 2 <= z
    BY <1>2, <2>2
  <2>4. QED
    BY <2>1, <2>3
<1>11. /\ AfterCString(a + 1) = a + m + 2
       /\ SubSeq(data, a + 2, a + m + 1) = name
  BY <1>1, <1>5, <1>7, <1>9, <1>10, HeaderRead, ZenonT(60)
<1>12. ValueAt = a + m + 2 /\ Type = type
  BY <1>1, <1>9, <1>11, Zenon DEF ValueAt, Type
<1>13. QED
  BY <1>1, <1>3, <1>4, <1>5, <1>6, <1>8, <1>10, <1>11, <1>12, Zenon

LEMMA ItemFound ==
  ASSUME IInv, data = dst, NEW k \in DOMAIN events, i = events[k].at,
         events[k].kind = "item"
  PROVE  /\ Type = WireType(events[k]) /\ 0 <= i /\ i < Size
         /\ ValueAt \in Nat /\ ValueAt <= Size
         /\ SubSeq(data, i + 2, ValueAt - 1) = events[k].name
         /\ IsScalar(events[k]) /\ Payload(events[k]) \in Seq(Byte)
         /\ ValueAt + Len(Payload(events[k])) = Stop(events[k])
         /\ \A q \in 1 .. Len(Payload(events[k])) :
              data[ValueAt + q] = Payload(events[k])[q]
<1>1. IsScalar(events[k]) /\ events[k].name \in Seq(1 .. 255)
  BY EventIs DEF EventOK, EventSet
<1>2. WireType(events[k]) \in Byte /\ Payload(events[k]) \in Seq(Byte)
  BY <1>1, PayloadIsBytes, WireTypeIs DEF Byte
<1>3. Follows(Code(events[k]), WireType(events[k]), events[k].name,
              Payload(events[k]))
  BY <1>1, EncodedIs, ZenonT(60) DEF Code, Follows
<1>4. Stop(events[k]) = events[k].at + Len(Code(events[k]))
  <2>1. PICK a \in Nat, n \in Nat :
          a = events[k].at /\ n = Len(Code(events[k]))
    BY EventIs
  <2>2. Stop(events[k]) = a + n + 0
    BY <2>1 DEF Stop
  <2>3. QED
    BY <2>1, <2>2
<1>5. QED
  BY <1>1, <1>2, <1>3, <1>4, HeaderFound, ZenonT(60)

LEMMA StartFound ==
  ASSUME IInv, data = dst, NEW k \in DOMAIN events, i = events[k].at,
         events[k].kind = "start", events[k].name # <<>>
  PROVE  /\ Type = events[k].type /\ Type \in {Object, Array}
         /\ 0 <= i /\ i < Size
         /\ ValueAt = events[k].start /\ ValueAt + 4 = Stop(events[k])
         /\ ValueAt \in Nat /\ ValueAt <= Size
<1>1. /\ events[k].type \in {Object, Array}
      /\ events[k].name \in Seq(1 .. 255)
      /\ events[k].start = events[k].at + Len(Code(events[k]))
      /\ Stop(events[k]) = events[k].start + 4
  BY EventIs, LengthIsThere DEF EventOK, EventSet, IInv
<1>2. events[k].type \in Byte /\ <<>> \in Seq(Byte)
  BY <1>1 DEF Object, Array, Byte
<1>3. Follows(Code(events[k]), events[k].type, events[k].name, <<>>)
  <2>1. PICK m \in Nat : m = Len(events[k].name)
    BY <1>1
  <2>2. m + 2 + Len(<<>>) = m + 2 /\ 1 .. Len(<<>>) = {}
    OBVIOUS
  <2>3. Code(events[k]) = Header(events[k].type, events[k].name)
    BY Zenon DEF Code
  <2>4. PICK c \in Seq(Byte), name \in Seq(1 .. 255), type \in Byte :
          /\ c = Code(events[k]) /\ name = events[k].name
          /\ type = events[k].type
          /\ Len(c) = Len(name) + 2
          /\ c[1] = type /\ c[Len(name) + 2] = 0
          /\ \A q \in 1 .. Len(name) : c[1 + q] = name[q]
    BY <1>1, <1>2, <2>3, HeaderIs
  <2>5. \A q \in 1 .. Len(<<>>) : c[Len(name) + 2 + q] = <<>>[q]
    OBVIOUS
  <2>6. Follows(c, type, name, <<>>)
    BY <2>1, <2>2, <2>4, <2>5, Zenon DEF Follows
  <2>7. QED
    BY <2>4, <2>6, Zenon
<1>4. /\ Type = events[k].type /\ 0 <= i /\ i < Size
      /\ ValueAt \in Nat /\ ValueAt <= Size
      /\ ValueAt + Len(<<>>) = i + Len(Code(events[k]))
  BY <1>1, <1>2, <1>3, HeaderFound, ZenonT(60)
<1>5. ValueAt = events[k].start
  <2>1. ValueAt + Len(<<>>) = ValueAt
    BY <1>4
  <2>2. QED
    BY <1>1, <1>4, <2>1, Zenon
<1>6. QED
  BY <1>1, <1>4, <1>5, Zenon

LEMMA EndFound ==
  ASSUME IInv, data = dst, NEW k \in DOMAIN events, i = events[k].at,
         events[k].kind = "end"
  PROVE  Type = 0 /\ 0 <= i /\ i < Size /\ Stop(events[k]) = i + 1
<1>1. PICK e \in EventSet, a \in Nat : e = events[k] /\ a = e.at
  BY EventIs
<1>2. Code(e) = <<0>>
  BY <1>1 DEF Code
<1>3. <<0>> \in Seq(Byte) /\ Len(<<0>>) = 1 /\ 1 \in Nat
  BY DEF Byte
<1>4. /\ a < Size /\ \A q \in 1 .. 1 : data[a + q] = <<0>>[q]
  BY <1>1, <1>2, <1>3, CodeFound, Zenon
<1>5. data[a + 1] = 0
  BY <1>4
<1>6. Stop(e) = a + 1
  BY <1>1, <1>2 DEF Stop
<1>7. i = a /\ 0 <= a
  BY <1>1
<1>8. QED
  BY <1>1, <1>4, <1>5, <1>6, <1>7, Zenon DEF Type


-----------------------------------------------------------------------------
(* What the reader makes of a value. *)

\* The value v was written at p, and the data goes on after it.
There(v, p) ==
  /\ p + Len(Payload(v)) <= Size
  /\ \A q \in 1 .. Len(Payload(v)) : data[p + q] = Payload(v)[q]


\* One sequence after another, as a predicate.
ConcatOf(s, t, S) ==
  /\ s \o t \in Seq(S)
  /\ Len(s \o t) = Len(s) + Len(t)
  /\ \A q \in 1 .. Len(s) : (s \o t)[q] = s[q]
  /\ \A q \in 1 .. Len(t) : (s \o t)[Len(s) + q] = t[q]

LEMMA ConcatIsOf ==
  ASSUME NEW S, NEW s \in Seq(S), NEW t \in Seq(S)
  PROVE  ConcatOf(s, t, S)
BY DEF ConcatOf

\* What is written for a string is its length, the string and a NUL.
LEMMA StringBytes ==
  ASSUME NEW h \in Seq(Byte), Len(h) = 4, NEW s \in Seq(Byte)
  PROVE  /\ h \o s \o <<0>> \in Seq(Byte)
         /\ Len(h \o s \o <<0>>) = Len(s) + 5
         /\ \A q \in 1 .. 4 : (h \o s \o <<0>>)[q] = h[q]
         /\ SubSeq(h \o s \o <<0>>, 5, Len(s) + 4) = s
<1>1. PICK t \in Seq(Byte) :
        /\ t = h \o s \o <<0>> /\ Len(t) = Len(s) + 5
        /\ \A q \in 1 .. 4 : t[q] = h[q]
        /\ \A q \in 1 .. Len(s) : t[4 + q] = s[q]
  <2>1. PICK n \in Nat : n = Len(s)
    OBVIOUS
  <2>2. PICK w \in Seq(Byte) :
          /\ w = h \o s /\ Len(w) = 4 + n
          /\ \A q \in 1 .. 4 : w[q] = h[q]
          /\ \A q \in 1 .. n : w[4 + q] = s[q]
    <3>1. ConcatOf(h, s, Byte)
      BY ConcatIsOf
    <3>2. /\ h \o s \in Seq(Byte) /\ Len(h \o s) = 4 + n
          /\ \A q \in 1 .. 4 : (h \o s)[q] = h[q]
          /\ \A q \in 1 .. n : (h \o s)[4 + q] = s[q]
      BY <2>1, <3>1, Zenon DEF ConcatOf
    <3>3. QED
      BY <3>2, Zenon
  <2>3. <<0>> \in Seq(Byte) /\ Len(<<0>>) = 1
    BY DEF Byte
  <2>4. ConcatOf(w, <<0>>, Byte)
    BY <2>3, ConcatIsOf
  <2>5. /\ w \o <<0>> \in Seq(Byte) /\ Len(w \o <<0>>) = Len(w) + 1
        /\ \A q \in 1 .. Len(w) : (w \o <<0>>)[q] = w[q]
    BY <2>3, <2>4, Zenon DEF ConcatOf
  <2>6. PICK t \in Seq(Byte) :
          /\ t = h \o s \o <<0>> /\ Len(t) = (4 + n) + 1
          /\ \A q \in 1 .. 4 + n : t[q] = w[q]
    BY <2>2, <2>5, Zenon
  <2>7. /\ (4 + n) + 1 = n + 5 /\ 1 .. 4 \subseteq 1 .. 4 + n
        /\ \A q \in 1 .. n : 4 + q \in 1 .. 4 + n
    OBVIOUS
  <2>8. \A q \in 1 .. 4 : t[q] = h[q]
    BY <2>2, <2>6, <2>7, Zenon
  <2>9. \A q \in 1 .. n : t[4 + q] = s[q]
    BY <2>2, <2>6, <2>7, Zenon
  <2>10. Len(t) = n + 5
    BY <2>6, <2>7, Zenon
  <2>11. QED
    BY <2>1, <2>6, <2>8, <2>9, <2>10, Zenon
<1>2. PICK u \in Seq(Byte) :
        /\ u = SubSeq(t, 5, Len(s) + 4) /\ Len(u) = Len(s)
        /\ \A q \in 1 .. Len(s) : u[q] = t[4 + q]
  <2>1. PICK n \in Nat : n = Len(s)
    OBVIOUS
  <2>2. Len(t) = n + 5
    BY <1>1, <2>1
  <2>3. /\ SubSeq(t, 5, n + 4) \in Seq(Byte) /\ Len(SubSeq(t, 5, n + 4)) = n
        /\ \A q \in 1 .. n : SubSeq(t, 5, n + 4)[q] = t[4 + q]
    BY <2>2
  <2>4. QED
    BY <2>1, <2>3, Zenon
<1>3. u = s
  BY <1>1, <1>2, SeqEqual
<1>4. QED
  BY <1>1, <1>2, <1>3, Zenon

\* For a binary value the subtype comes between.
LEMMA BinaryBytes ==
  ASSUME NEW h \in Seq(Byte), Len(h) = 4, NEW s \in Seq(Byte)
  PROVE  /\ h \o <<0>> \o s \in Seq(Byte)
         /\ Len(h \o <<0>> \o s) = Len(s) + 5
         /\ \A q \in 1 .. 4 : (h \o <<0>> \o s)[q] = h[q]
         /\ (h \o <<0>> \o s)[5] = 0
         /\ SubSeq(h \o <<0>> \o s, 6, Len(s) + 5) = s
<1>1. PICK t \in Seq(Byte) :
        /\ t = h \o <<0>> \o s /\ Len(t) = Len(s) + 5
        /\ \A q \in 1 .. 4 : t[q] = h[q]
        /\ t[5] = 0
        /\ \A q \in 1 .. Len(s) : t[5 + q] = s[q]
  <2>1. PICK n \in Nat : n = Len(s)
    OBVIOUS
  <2>2. <<0>> \in Seq(Byte) /\ Len(<<0>>) = 1 /\ <<0>>[1] = 0
    BY DEF Byte
  <2>3. ConcatOf(h, <<0>>, Byte)
    BY <2>2, ConcatIsOf
  <2>4. 4 + 1 = 5 /\ 1 \in 1 .. 1
    OBVIOUS
  <2>5. PICK w \in Seq(Byte) :
          /\ w = h \o <<0>> /\ Len(w) = 5
          /\ \A q \in 1 .. 4 : w[q] = h[q]
          /\ w[5] = 0
    BY <2>2, <2>3, <2>4, ZenonT(60) DEF ConcatOf
  <2>6. ConcatOf(w, s, Byte)
    BY ConcatIsOf
  <2>7. /\ w \o s \in Seq(Byte) /\ Len(w \o s) = 5 + n
        /\ \A q \in 1 .. 5 : (w \o s)[q] = w[q]
        /\ \A q \in 1 .. n : (w \o s)[5 + q] = s[q]
    BY <2>1, <2>5, <2>6, Zenon DEF ConcatOf
  <2>8. 5 + n = n + 5 /\ 1 .. 4 \subseteq 1 .. 5 /\ 5 \in 1 .. 5
    OBVIOUS
  <2>9. /\ \A q \in 1 .. 4 : (w \o s)[q] = h[q]
        /\ (w \o s)[5] = 0
    BY <2>5, <2>7, <2>8, Zenon
  <2>10. Len(w \o s) = n + 5
    BY <2>7, <2>8, Zenon
  <2>11. QED
    BY <2>1, <2>5, <2>7, <2>9, <2>10, Zenon
<1>2. PICK u \in Seq(Byte) :
        /\ u = SubSeq(t, 6, Len(s) + 5) /\ Len(u) = Len(s)
        /\ \A q \in 1 .. Len(s) : u[q] = t[5 + q]
  <2>1. PICK n \in Nat : n = Len(s)
    OBVIOUS
  <2>2. Len(t) = n + 5
    BY <1>1, <2>1
  <2>3. /\ SubSeq(t, 6, n + 5) \in Seq(Byte) /\ Len(SubSeq(t, 6, n + 5)) = n
        /\ \A q \in 1 .. n : SubSeq(t, 6, n + 5)[q] = t[5 + q]
    BY <2>2
  <2>4. QED
    BY <2>1, <2>3, Zenon
<1>3. u = s
  BY <1>1, <1>2, SeqEqual
<1>4. QED
  BY <1>1, <1>2, <1>3, Zenon

\* A length that was written in front of something.
Prefixed(s, n) == Len(s) >= 4 /\ \A q \in 1 .. 4 : s[q] = LE32(n)[q]

LEMMA LengthRead ==
  ASSUME data \in Seq(Byte), Size <= MaxInt32, NEW v, IsScalar(v),
         NEW p \in Nat, There(v, p),
         NEW n \in Nat, n <= Size, Prefixed(Payload(v), n)
  PROVE  HasInt32(p) /\ Read32(data, p) = n
<1>1. PICK m \in Nat, z \in Nat : m = Len(Payload(v)) /\ z = Size
  BY PayloadIsBytes DEF Size
<1>2. m >= 4 /\ p + m <= z
  BY <1>1, Zenon DEF There, Prefixed
<1>3. p < z - 3 /\ 1 .. 4 \subseteq 1 .. m
  BY <1>2
<1>4. \A q \in 1 .. 4 : data[p + q] = LE32(n)[q]
  BY <1>1, <1>3, Zenon DEF There, Prefixed
<1>5. n <= MaxInt32
  <2>1. MaxInt32 \in Nat
    BY DEF MaxInt32
  <2>2. n <= z /\ z <= MaxInt32
    BY <1>1, Zenon
  <2>3. QED
    BY <2>1, <2>2
<1>6. Read32(data, p) = n
  BY <1>4, <1>5, ReadLE32, Zenon
<1>7. QED
  BY <1>1, <1>3, <1>6, Zenon DEF HasInt32

\* The types are different numbers.
LEMMA PayloadOf ==
  ASSUME NEW v
  PROVE  /\ v.type \in {String, Javascript} =>
              Payload(v) = LE32(Len(v.value) + 1) \o v.value \o <<0>>
         /\ v.type = Binary =>
              Payload(v) = LE32(Len(v.value)) \o <<0>> \o v.value
         /\ v.type = JsScope => Payload(v) = LE32(Len(v.value) + 4) \o v.value
         /\ v.type = Integer /\ Fits32(v.value) =>
              Payload(v) = SubSeq(v.value, 1, 4)
         /\ v.type \notin {String, Javascript, Binary, JsScope}
              /\ ~ (v.type = Integer /\ Fits32(v.value)) =>
                   Payload(v) = v.value
<1> DEFINE a == LE32(Len(v.value) + 1) \o v.value \o <<0>>
           b == LE32(Len(v.value)) \o <<0>> \o v.value
           c == LE32(Len(v.value) + 4) \o v.value
           d == SubSeq(v.value, 1, 4)
           f == Fits32(v.value)
<1>1. Payload(v) =
        CASE v.type \in {String, Javascript} -> a
          [] v.type = Binary  -> b
          [] v.type = JsScope -> c
          [] v.type = Integer /\ f -> d
          [] OTHER -> v.value
  BY Zenon DEF Payload
<1> HIDE DEF a, b, c, d, f
<1>2. /\ v.type \in {String, Javascript} => Payload(v) = a
      /\ v.type = Binary => Payload(v) = b
      /\ v.type = JsScope => Payload(v) = c
      /\ v.type = Integer /\ f => Payload(v) = d
      /\ v.type \notin {String, Javascript, Binary, JsScope}
           /\ ~ (v.type = Integer /\ f) => Payload(v) = v.value
  BY <1>1 DEF String, Javascript, Binary, JsScope, Integer
<1>3. QED
  BY <1>2, Zenon DEF a, b, c, d, f


\* What AfterSkip, AfterGet, CanSkip, CanGet and Value say of each type.
LEMMA AfterSkipOf ==
  ASSUME NEW p
  PROVE  /\ \A type \in {String, Object, Array, Binary, JsScope, Javascript} :
              AfterSkip(type, p) = p + 4 + (Read32(data, p) - 4)
         /\ AfterSkip(RegEx, p) = AfterCString(AfterCString(p))
         /\ AfterSkip(Boolean, p) = p + 1
         /\ AfterSkip(Int32, p) = p + 4
         /\ \A type \in {Int64, Double, UTC, Timestamp} :
              AfterSkip(type, p) = p + 8
         /\ AfterSkip(ObjectId, p) = p + 12
         /\ AfterSkip(Null, p) = p
<1> DEFINE a == p + 4 + (Read32(data, p) - 4)
           b == AfterCString(AfterCString(p))
           c == p + 1
           d == p + 4
           e == p + 8
           f == p + 12
<1>1. \A type :
        AfterSkip(type, p) =
          CASE type \in {String, Object, Array, Binary, JsScope, Javascript} -> a
            [] type = RegEx -> b
            [] type = Boolean -> c
            [] type = Int32 -> d
            [] type \in {Int64, Double, UTC, Timestamp} -> e
            [] type = ObjectId -> f
            [] OTHER -> p
  BY Zenon DEF AfterSkip
<1> HIDE DEF a, b, c, d, e, f
<1>2. /\ \A type \in {String, Object, Array, Binary, JsScope, Javascript} :
           AfterSkip(type, p) = a
      /\ AfterSkip(RegEx, p) = b /\ AfterSkip(Boolean, p) = c
      /\ AfterSkip(Int32, p) = d
      /\ \A type \in {Int64, Double, UTC, Timestamp} : AfterSkip(type, p) = e
      /\ AfterSkip(ObjectId, p) = f /\ AfterSkip(Null, p) = p
  BY <1>1 DEF String, Object, Array, Binary, JsScope, Javascript, RegEx, Boolean,
     Int32, Int64, Double, UTC, Timestamp, ObjectId, Null
<1>3. QED
  BY <1>2, Zenon DEF a, b, c, d, e, f

LEMMA AfterGetOf ==
  ASSUME NEW p
  PROVE  /\ AfterGet(String, p) = p + 4 + Read32(data, p)
         /\ AfterGet(Binary, p) = p + 4 + 1 + Read32(data, p)
         /\ \A type : type \notin {String, Binary} =>
              AfterGet(type, p) = AfterSkip(type, p)
<1> DEFINE a == p + 4 + Read32(data, p)
           b == p + 4 + 1 + Read32(data, p)
<1>1. \A type : AfterGet(type, p) = CASE type = String -> a
                                      [] type = Binary -> b
                                      [] OTHER -> AfterSkip(type, p)
  BY Zenon DEF AfterGet
<1> HIDE DEF a, b
<1>2. /\ AfterGet(String, p) = a /\ AfterGet(Binary, p) = b
      /\ \A type : type \notin {String, Binary} =>
           AfterGet(type, p) = AfterSkip(type, p)
  BY <1>1 DEF String, Binary
<1>3. QED
  BY <1>2, Zenon DEF a, b

LEMMA CanGetOf ==
  ASSUME NEW p
  PROVE  /\ CanGet(String, p) <=>
              HasInt32(p) /\ Read32(data, p) > 0 /\ AfterGet(String, p) <= Size
         /\ CanGet(Binary, p) <=>
              /\ HasInt32(p) /\ Read32(data, p) >= 0
              /\ p + 4 + Read32(data, p) < Size
              /\ data[p + 5] = 0
         /\ \A type \in {Boolean, Int32, Int64, Double} :
              CanGet(type, p) <=> AfterSkip(type, p) <= Size
         /\ \A type : type \notin {String, Binary, Boolean, Int32, Int64, Double}
              => (CanGet(type, p) <=> CanSkip(type, p))
<1> DEFINE a == HasInt32(p) /\ Read32(data, p) > 0 /\ AfterGet(String, p) <= Size
           b == /\ HasInt32(p) /\ Read32(data, p) >= 0
                /\ p + 4 + Read32(data, p) < Size
                /\ data[p + 5] = 0
           c(type) == AfterSkip(type, p) <= Size
<1>1. \A type :
        CanGet(type, p) = CASE type = String -> a
                            [] type = Binary -> b
                            [] type \in {Boolean, Int32, Int64, Double} -> c(type)
                            [] OTHER -> CanSkip(type, p)
  BY Zenon DEF CanGet
<1>2. /\ a \in BOOLEAN /\ b \in BOOLEAN
      /\ \A type : c(type) \in BOOLEAN /\ CanSkip(type, p) \in BOOLEAN
  BY SMT DEF CanSkip
<1> HIDE DEF a, b, c
<1>3. /\ CanGet(String, p) = a /\ CanGet(Binary, p) = b
      /\ \A type \in {Boolean, Int32, Int64, Double} :
           CanGet(type, p) = c(type)
      /\ \A type : type \notin {String, Binary, Boolean, Int32, Int64, Double} =>
           CanGet(type, p) = CanSkip(type, p)
  BY <1>1, <1>2 DEF String, Binary, Boolean, Int32, Int64, Double
<1>4. QED
  BY <1>3, Zenon DEF a, b, c

LEMMA ValueOf ==
  ASSUME NEW p
  PROVE  /\ \A t : SubSeq(data, p + 1, AfterGet(String, p)) = t =>
              Value(String, p) =
                [type |-> String, value |-> SubSeq(t, 5, Len(t) - 1)]
         /\ \A t : SubSeq(data, p + 1, AfterGet(Binary, p)) = t =>
              Value(Binary, p) =
                [type |-> Binary, value |-> SubSeq(t, 6, Len(t))]
         /\ \A t : SubSeq(data, p + 1, AfterGet(Int32, p)) = t =>
              Value(Int32, p) = [type |-> Integer, value |-> Widen(t)]
         /\ \A t : SubSeq(data, p + 1, AfterGet(Int64, p)) = t =>
              Value(Int64, p) = [type |-> Integer, value |-> t]
         /\ \A type \in {Double, Boolean} : \A t :
              SubSeq(data, p + 1, AfterGet(type, p)) = t =>
                Value(type, p) = [type |-> type, value |-> t]
         /\ Value(Null, p) = [type |-> Null, value |-> <<>>]
         /\ \A type \in Foreign :
              Value(type, p) = [type |-> Object, value |-> <<>>]
<1> DEFINE a(t) == [type |-> String, value |-> SubSeq(t, 5, Len(t) - 1)]
           b(t) == [type |-> Binary, value |-> SubSeq(t, 6, Len(t))]
           c(t) == [type |-> Integer, value |-> Widen(t)]
           d(t) == [type |-> Integer, value |-> t]
           e(type, t) == [type |-> type, value |-> t]
           f == [type |-> Null, value |-> <<>>]
           g == [type |-> Object, value |-> <<>>]
           bytes(type) == SubSeq(data, p + 1, AfterGet(type, p))
<1>1. \A type :
        Value(type, p) = CASE type = String -> a(bytes(type))
                           [] type = Binary -> b(bytes(type))
                           [] type = Int32  -> c(bytes(type))
                           [] type = Int64  -> d(bytes(type))
                           [] type \in {Double, Boolean} -> e(type, bytes(type))
                           [] type = Null -> f
                           [] OTHER -> g
  BY Zenon DEF Value
<1> HIDE DEF a, b, c, d, e, f, g, bytes
<1>2. /\ Value(String, p) = a(bytes(String))
      /\ Value(Binary, p) = b(bytes(Binary))
      /\ Value(Int32, p) = c(bytes(Int32))
      /\ Value(Int64, p) = d(bytes(Int64))
      /\ Value(Double, p) = e(Double, bytes(Double))
      /\ Value(Boolean, p) = e(Boolean, bytes(Boolean))
      /\ Value(Null, p) = f
      /\ \A type \in Foreign : Value(type, p) = g
  BY <1>1 DEF String, Binary, Int32, Int64, Double, Boolean, Null, Foreign,
     ObjectId, UTC, RegEx, Javascript, JsScope, Timestamp
<1>3. QED
  BY <1>2, Zenon DEF a, b, c, d, e, f, g, bytes

LEMMA ValueBytes ==
  ASSUME data \in Seq(Byte), NEW v, IsScalar(v), NEW p \in Nat, There(v, p)
  PROVE  SubSeq(data, p + 1, p + Len(Payload(v))) = Payload(v)
<1>1. PICK s \in Seq(Byte), m \in Nat : s = Payload(v) /\ m = Len(s)
  BY PayloadIsBytes
<1>2. p + m <= Size /\ \A q \in 1 .. m : data[p + q] = s[q]
  BY <1>1, Zenon DEF There
<1>3. SubSeq(data, p + 1, p + m) = s
  BY <1>1, <1>2, PartIs, Zenon
<1>4. QED
  BY <1>1, <1>3, Zenon

\* The reader is given back the value it finds at p, and moves behind it.
Taken(v, p) ==
  /\ CanGet(WireType(v), p)
  /\ AfterGet(WireType(v), p) = p + Len(Payload(v))
  /\ Value(WireType(v), p) = Promised(v).value

\* It can skip it, and moves behind it unless skip() mismeasures it.
Skipped(v, p) ==
  /\ CanSkip(WireType(v), p)
  /\ WireType(v) \notin Mismeasured =>
       AfterSkip(WireType(v), p) = p + Len(Payload(v))

LEMMA StringTaken ==
  ASSUME data \in Seq(Byte), Size <= MaxInt32, NEW v, IsScalar(v),
         NEW p \in Nat, There(v, p), v.type = String
  PROVE  Taken(v, p) /\ Skipped(v, p) /\ AfterSkip(String, p) >= p
<1>1. PICK s \in Seq(Byte), n \in Nat, z \in Nat :
        s = v.value /\ n = Len(s) /\ z = Size
  BY DEF IsScalar, Size
<1>2. PICK h \in Seq(Byte) : h = LE32(n + 1) /\ Len(h) = 4
  <2>1. n + 1 \in Nat
    OBVIOUS
  <2>2. QED
    BY <2>1, LE32IsBytes, Zenon
<1>t. PICK t \in Seq(Byte) :
        /\ t = h \o s \o <<0>> /\ Len(t) = n + 5
        /\ \A q \in 1 .. 4 : t[q] = h[q]
        /\ SubSeq(t, 5, n + 4) = s
  <2>1. /\ h \o s \o <<0>> \in Seq(Byte)
        /\ Len(h \o s \o <<0>>) = Len(s) + 5
        /\ \A q \in 1 .. 4 : (h \o s \o <<0>>)[q] = h[q]
        /\ SubSeq(h \o s \o <<0>>, 5, Len(s) + 4) = s
    BY <1>2, StringBytes, Zenon
  <2>2. QED
    BY <1>1, <2>1, Zenon
<1>3. Payload(v) = t /\ WireType(v) = String
  <2>1. Payload(v) = LE32(n + 1) \o s \o <<0>>
    BY <1>1, PayloadOf, Zenon
  <2>2. WireType(v) = String
    BY DEF WireType, String, Integer
  <2>3. QED
    BY <1>2, <1>t, <2>1, <2>2, Zenon
<1>4. p + (n + 5) <= z
  BY <1>1, <1>t, <1>3, Zenon DEF There
<1>5. HasInt32(p) /\ Read32(data, p) = n + 1
  <2>1. n + 1 \in Nat /\ n + 1 <= z /\ n + 5 >= 4
    BY <1>4
  <2>2. Prefixed(Payload(v), n + 1)
    BY <1>2, <1>t, <1>3, <2>1, Zenon DEF Prefixed
  <2>3. QED
    BY <1>1, <2>1, <2>2, LengthRead, Zenon
<1>6. AfterGet(String, p) = p + (n + 5)
  <2>1. AfterGet(String, p) = p + 4 + (n + 1)
    BY <1>5, AfterGetOf, Zenon
  <2>2. QED
    BY <2>1
<1>7. CanGet(String, p)
  <2>1. n + 1 > 0
    OBVIOUS
  <2>2. QED
    BY <1>1, <1>4, <1>5, <1>6, <2>1, CanGetOf, Zenon
<1>8. Value(String, p) = [type |-> String, value |-> s]
  <2>1. SubSeq(data, p + 1, AfterGet(String, p)) = t
    BY <1>t, <1>3, <1>6, ValueBytes, Zenon
  <2>2. Value(String, p) =
          [type |-> String, value |-> SubSeq(t, 5, Len(t) - 1)]
    BY <2>1, ValueOf, Zenon
  <2>3. Len(t) - 1 = n + 4
    BY <1>t
  <2>4. QED
    BY <1>t, <2>2, <2>3, Zenon
<1>9. Promised(v).value = [type |-> String, value |-> s]
  BY <1>1 DEF Promised, Foreign, String, ObjectId, UTC, RegEx, Javascript,
     JsScope, Timestamp
<1>10. CanSkip(String, p) /\ String \in Mismeasured
  BY <1>5 DEF CanSkip, Mismeasured, String, RegEx
<1>11. AfterSkip(String, p) >= p
  <2>1. AfterSkip(String, p) = p + 4 + (Read32(data, p) - 4)
    BY AfterSkipOf, Zenon
  <2>2. p + 4 + ((n + 1) - 4) >= p
    OBVIOUS
  <2>3. QED
    BY <1>5, <2>1, <2>2, Zenon
<1>12. QED
  BY <1>t, <1>3, <1>6, <1>7, <1>8, <1>9, <1>10, <1>11, Zenon DEF Taken, Skipped

LEMMA BinaryTaken ==
  ASSUME data \in Seq(Byte), Size <= MaxInt32, NEW v, IsScalar(v),
         NEW p \in Nat, There(v, p), v.type = Binary
  PROVE  Taken(v, p) /\ Skipped(v, p) /\ AfterSkip(Binary, p) >= p
<1>1. PICK s \in Seq(Byte), n \in Nat, z \in Nat :
        s = v.value /\ n = Len(s) /\ z = Size
  BY DEF IsScalar, Size
<1>2. PICK h \in Seq(Byte) : h = LE32(n) /\ Len(h) = 4
  BY LE32IsBytes, Zenon
<1>t. PICK t \in Seq(Byte) :
        /\ t = h \o <<0>> \o s /\ Len(t) = n + 5
        /\ \A q \in 1 .. 4 : t[q] = h[q]
        /\ t[5] = 0
        /\ SubSeq(t, 6, n + 5) = s
  <2>1. /\ h \o <<0>> \o s \in Seq(Byte)
        /\ Len(h \o <<0>> \o s) = Len(s) + 5
        /\ \A q \in 1 .. 4 : (h \o <<0>> \o s)[q] = h[q]
        /\ (h \o <<0>> \o s)[5] = 0
        /\ SubSeq(h \o <<0>> \o s, 6, Len(s) + 5) = s
    BY <1>2, BinaryBytes, Zenon
  <2>2. QED
    BY <1>1, <2>1, Zenon
<1>3. Payload(v) = t /\ WireType(v) = Binary
  <2>1. Payload(v) = LE32(n) \o <<0>> \o s
    BY <1>1, PayloadOf, Zenon
  <2>2. WireType(v) = Binary
    BY DEF WireType, Binary, Integer
  <2>3. QED
    BY <1>2, <1>t, <2>1, <2>2, Zenon
<1>4. p + (n + 5) <= z
  BY <1>1, <1>t, <1>3, Zenon DEF There
<1>5. HasInt32(p) /\ Read32(data, p) = n
  <2>1. n <= z /\ n + 5 >= 4
    BY <1>4
  <2>2. Prefixed(Payload(v), n)
    BY <1>2, <1>t, <1>3, <2>1, Zenon DEF Prefixed
  <2>3. QED
    BY <1>1, <2>1, <2>2, LengthRead, Zenon
<1>6. AfterGet(Binary, p) = p + (n + 5)
  <2>1. AfterGet(Binary, p) = p + 4 + 1 + n
    BY <1>5, AfterGetOf, Zenon
  <2>2. QED
    BY <2>1
<1>7. CanGet(Binary, p)
  <2>1. data[p + 5] = 0
    <3>1. 5 \in 1 .. n + 5
      OBVIOUS
    <3>2. data[p + 5] = t[5]
      BY <1>t, <1>3, <3>1, Zenon DEF There
    <3>3. QED
      BY <1>t, <3>2, Zenon
  <2>2. p + 4 + n < z
    BY <1>4
  <2>3. QED
    <3>1. n >= 0
      OBVIOUS
    <3>2. QED
      BY <1>1, <1>5, <2>1, <2>2, <3>1, CanGetOf, Zenon
<1>8. Value(Binary, p) = [type |-> Binary, value |-> s]
  <2>1. SubSeq(data, p + 1, AfterGet(Binary, p)) = t
    BY <1>t, <1>3, <1>6, ValueBytes, Zenon
  <2>2. Value(Binary, p) = [type |-> Binary, value |-> SubSeq(t, 6, Len(t))]
    BY <2>1, ValueOf, Zenon
  <2>3. QED
    BY <1>t, <2>2, Zenon
<1>9. Promised(v).value = [type |-> Binary, value |-> s]
  BY <1>1 DEF Promised, Foreign, Binary, ObjectId, UTC, RegEx, Javascript,
     JsScope, Timestamp
<1>10. CanSkip(Binary, p) /\ Binary \in Mismeasured
  BY <1>5 DEF CanSkip, Mismeasured, Binary, RegEx
<1>11. AfterSkip(Binary, p) >= p
  <2>1. AfterSkip(Binary, p) = p + 4 + (Read32(data, p) - 4)
    BY AfterSkipOf, Zenon
  <2>2. p + 4 + (n - 4) >= p
    OBVIOUS
  <2>3. QED
    BY <1>5, <2>1, <2>2, Zenon
<1>12. QED
  BY <1>t, <1>3, <1>6, <1>7, <1>8, <1>9, <1>10, <1>11, Zenon DEF Taken, Skipped


\* A 64-bit integer that was narrowed is found again.
LEMMA WidenIs ==
  ASSUME NEW s \in Seq(Byte), Len(s) = 8, Fits32(s)
  PROVE  /\ SubSeq(s, 1, 4) \in Seq(Byte) /\ Len(SubSeq(s, 1, 4)) = 4
         /\ Widen(SubSeq(s, 1, 4)) = s
<1>1. /\ SubSeq(s, 1, 4) \in Seq(Byte) /\ Len(SubSeq(s, 1, 4)) = 4
      /\ \A q \in 1 .. 4 : SubSeq(s, 1, 4)[q] = s[q]
  OBVIOUS
<1>2. PICK t \in Seq(Byte) :
        /\ t = SubSeq(s, 1, 4) /\ Len(t) = 4
        /\ \A q \in 1 .. 4 : t[q] = s[q]
  BY <1>1, Zenon
<1>3. t[4] = s[4] /\ s[4] \in Byte
  BY <1>2
<1>4. Sign(t[4]) \in Byte
  BY DEF Sign, Byte
<1>5. PICK w : w = [k \in 1 .. 4 |-> Sign(t[4])]
  OBVIOUS
<1>6. w \in [1 .. 4 -> Byte] /\ \A k \in 1 .. 4 : w[k] = Sign(t[4])
  BY <1>4, <1>5
<1>7. w \in Seq(Byte) /\ Len(w) = 4
  <2>1. 4 \in Nat
    OBVIOUS
  <2>2. QED
    BY <1>6, <2>1, FunctionIsSeq, ZenonT(60)
<1>8. \A k \in 5 .. 8 : s[k] = Sign(s[4])
  BY Zenon DEF Fits32
<1>9. ConcatOf(t, w, Byte)
  BY <1>7, ConcatIsOf
<1>10. /\ t \o w \in Seq(Byte) /\ Len(t \o w) = 4 + 4
       /\ \A q \in 1 .. 4 : (t \o w)[q] = t[q]
       /\ \A q \in 1 .. 4 : (t \o w)[4 + q] = w[q]
  BY <1>2, <1>7, <1>9, Zenon DEF ConcatOf
<1>11. PICK u \in Seq(Byte) :
         /\ u = t \o w /\ Len(u) = 4 + 4
         /\ \A q \in 1 .. 4 : u[q] = t[q]
         /\ \A q \in 1 .. 4 : u[4 + q] = w[q]
  BY <1>10, Zenon
<1>12. ASSUME NEW q \in 1 .. 8
       PROVE  u[q] = s[q]
  <2>1. CASE q \in 1 .. 4
    BY <1>2, <1>11, <2>1, Zenon
  <2>2. CASE q \in 5 .. 8
    <3>1. PICK k \in 1 .. 4 : q = 4 + k
      <4>1. q - 4 \in 1 .. 4 /\ q = 4 + (q - 4)
        BY <2>2
      <4>2. QED
        BY <4>1
    <3>2. u[q] = Sign(t[4])
      BY <1>6, <1>11, <3>1, Zenon
    <3>3. QED
      BY <1>3, <1>8, <2>2, <3>2, Zenon
  <2>3. q \in 1 .. 4 \/ q \in 5 .. 8
    OBVIOUS
  <2>4. QED
    BY <2>1, <2>2, <2>3
<1>13. u = s
  <2>1. Len(u) = Len(s) /\ \A q \in 1 .. Len(u) : u[q] = s[q]
    <3>1. 4 + 4 = 8
      OBVIOUS
    <3>2. Len(u) = 8
      BY <1>11, <3>1, Zenon
    <3>3. QED
      BY <1>12, <3>2, Zenon
  <2>2. QED
    BY <2>1, SeqEqual, Zenon
<1>14. QED
  BY <1>1, <1>2, <1>5, <1>11, <1>13, Zenon DEF Widen

\* Values of a fixed width, and regular expressions, are written as they are.
LEMMA IntegerTaken ==
  ASSUME data \in Seq(Byte), NEW v, IsScalar(v), NEW p \in Nat, There(v, p),
         v.type = Integer
  PROVE  Taken(v, p) /\ Skipped(v, p)
<1>1. PICK s \in Seq(Byte), z \in Nat :
        s = v.value /\ Len(s) = 8 /\ z = Size
  BY DEF IsScalar, Width, Integer, Null, Boolean, ObjectId, Size
<1>2. Promised(v).value = [type |-> Integer, value |-> s]
  BY <1>1 DEF Promised, Foreign, Integer, ObjectId, UTC, RegEx, Javascript,
     JsScope, Timestamp
<1>3. CASE Fits32(s)
  <2>1. PICK t \in Seq(Byte) : t = SubSeq(s, 1, 4) /\ Len(t) = 4
    BY <1>1, <1>3, WidenIs, Zenon
  <2>6. Widen(t) = s
    BY <1>1, <1>3, <2>1, WidenIs, Zenon
  <2>2. Payload(v) = t /\ WireType(v) = Int32
    <3>1. Payload(v) = t
      BY <1>1, <1>3, <2>1, PayloadOf, Zenon
    <3>2. WireType(v) = Int32
      BY <1>1, <1>3 DEF WireType
    <3>3. QED
      BY <3>1, <3>2
  <2>3. p + 4 <= Size
    BY <2>1, <2>2, Zenon DEF There
  <2>4. AfterSkip(Int32, p) = p + 4 /\ AfterGet(Int32, p) = p + 4
    <3>1. Int32 \notin {String, Binary}
      BY DEF Int32, String, Binary
    <3>2. QED
      BY <3>1, AfterSkipOf, AfterGetOf, ZenonT(60)
  <2>5. CanGet(Int32, p)
    BY <2>3, <2>4, CanGetOf, Zenon
  <2>7. Value(Int32, p) = [type |-> Integer, value |-> s]
    <3>1. SubSeq(data, p + 1, AfterGet(Int32, p)) = t
      BY <2>1, <2>2, <2>4, ValueBytes, Zenon
    <3>2. QED
      BY <2>6, <3>1, ValueOf, Zenon
  <2>8. CanSkip(Int32, p)
    BY DEF CanSkip, Int32, String, Object, Array, Binary, JsScope, Javascript,
       RegEx
  <2>9. QED
    BY <1>2, <2>1, <2>2, <2>4, <2>5, <2>7, <2>8, Zenon DEF Taken, Skipped
<1>4. CASE ~ Fits32(s)
  <2>2. Payload(v) = s /\ WireType(v) = Int64
    <3>1. v.type \notin {String, Javascript, Binary, JsScope}
      BY DEF Integer, String, Javascript, Binary, JsScope
    <3>2. Payload(v) = s
      BY <1>1, <1>4, <3>1, PayloadOf, Zenon
    <3>3. WireType(v) = Int64
      BY <1>1, <1>4 DEF WireType
    <3>4. QED
      BY <3>2, <3>3
  <2>3. p + 8 <= Size
    BY <1>1, <2>2, Zenon DEF There
  <2>4. AfterSkip(Int64, p) = p + 8 /\ AfterGet(Int64, p) = p + 8
    <3>1. Int64 \notin {String, Binary}
      BY DEF Int64, String, Binary
    <3>2. QED
      BY <3>1, AfterSkipOf, AfterGetOf, ZenonT(60)
  <2>5. CanGet(Int64, p)
    BY <2>3, <2>4, CanGetOf, Zenon
  <2>7. Value(Int64, p) = [type |-> Integer, value |-> s]
    <3>1. SubSeq(data, p + 1, AfterGet(Int64, p)) = s
      BY <1>1, <2>2, <2>4, ValueBytes, Zenon
    <3>2. QED
      BY <3>1, ValueOf, Zenon
  <2>8. CanSkip(Int64, p)
    BY DEF CanSkip, Int64, String, Object, Array, Binary, JsScope, Javascript,
       RegEx
  <2>9. QED
    BY <1>1, <1>2, <2>2, <2>4, <2>5, <2>7, <2>8, Zenon DEF Taken, Skipped
<1>5. QED
  BY <1>3, <1>4


LEMMA PlainTaken ==
  ASSUME data \in Seq(Byte), NEW v, IsScalar(v), NEW p \in Nat, There(v, p),
         v.type \in {Double, Boolean, Null, ObjectId, UTC, Timestamp}
  PROVE  Taken(v, p) /\ Skipped(v, p)
<1>1. PICK s \in Seq(Byte) : s = v.value /\ Len(s) = Width[v.type]
  BY DEF IsScalar, Width
<1>2. /\ v.type \in {Double, UTC, Timestamp} => Width[v.type] = 8
      /\ v.type = Boolean => Width[v.type] = 1
      /\ v.type = Null => Width[v.type] = 0
      /\ v.type = ObjectId => Width[v.type] = 12
  BY DEF Width, Double, UTC, Timestamp, Boolean, Null, ObjectId, Integer
<1>3. /\ v.type \notin {String, Javascript, Binary, JsScope, Integer}
      /\ v.type \notin {String, Binary}
      /\ v.type \notin {String, Object, Array, Binary, JsScope, Javascript}
      /\ v.type # RegEx
  <2>1. \A type \in {Double, Boolean, Null, ObjectId, UTC, Timestamp} :
          /\ type \notin {String, Javascript, Binary, JsScope, Integer}
          /\ type \notin {String, Binary}
          /\ type \notin {String, Object, Array, Binary, JsScope, Javascript}
          /\ type # RegEx
    BY SMT DEF Double, UTC, Timestamp, Boolean, Null, ObjectId, String, Binary,
       Object, Array, JsScope, Javascript, RegEx, Integer
  <2>2. QED
    BY <2>1, Zenon
<1>4. Payload(v) = s
  BY <1>1, <1>3, PayloadOf, Zenon
<1>5. WireType(v) = v.type
  BY <1>3, Zenon DEF WireType
<1>6. AfterSkip(v.type, p) = p + Len(s)
  <2>1. CASE v.type \in {Double, UTC, Timestamp}
    <3>1. AfterSkip(v.type, p) = p + 8
      BY <2>1, AfterSkipOf, Zenon
    <3>2. QED
      BY <1>1, <1>2, <2>1, <3>1, Zenon
  <2>2. CASE v.type = Boolean
    <3>1. AfterSkip(v.type, p) = p + 1
      BY <2>2, AfterSkipOf, Zenon
    <3>2. QED
      BY <1>1, <1>2, <2>2, <3>1, Zenon
  <2>3. CASE v.type = ObjectId
    BY <1>1, <1>2, <2>3, AfterSkipOf, Zenon
  <2>4. CASE v.type = Null
    <3>1. AfterSkip(v.type, p) = p
      BY <2>4, AfterSkipOf, Zenon
    <3>2. p + 0 = p
      OBVIOUS
    <3>3. QED
      BY <1>1, <1>2, <2>4, <3>1, <3>2, Zenon
  <2>5. QED
    BY <2>1, <2>2, <2>3, <2>4, Zenon
<1>7. AfterGet(v.type, p) = p + Len(s)
  BY <1>3, <1>6, AfterGetOf, Zenon
<1>8. CanSkip(v.type, p)
  BY <1>3, Zenon DEF CanSkip
<1>9. CanGet(v.type, p)
  <2>1. p + Len(s) <= Size
    BY <1>4, Zenon DEF There
  <2>2. CASE v.type \in {Boolean, Double}
    BY <1>6, <2>1, <2>2, CanGetOf, Zenon
  <2>3. CASE v.type \in {Null, ObjectId, UTC, Timestamp}
    <3>1. v.type \notin {String, Binary, Boolean, Int32, Int64, Double}
      <4>1. \A type \in {Null, ObjectId, UTC, Timestamp} :
              type \notin {String, Binary, Boolean, Int32, Int64, Double}
        BY SMT DEF UTC, Timestamp, Null, ObjectId, String, Binary, Boolean,
           Int32, Int64, Double
      <4>2. QED
        BY <2>3, <4>1, Zenon
    <3>2. QED
      BY <1>8, <3>1, CanGetOf, Zenon
  <2>4. QED
    BY <2>2, <2>3, Zenon
<1>10. Value(v.type, p) = Promised(v).value
  <2>1. CASE v.type \in {Double, Boolean}
    <3>1. SubSeq(data, p + 1, AfterGet(v.type, p)) = s
      BY <1>4, <1>7, ValueBytes, Zenon
    <3>2. Value(v.type, p) = [type |-> v.type, value |-> s]
      BY <2>1, <3>1, ValueOf, Zenon
    <3>3. v.type \notin Foreign
      BY <2>1 DEF Foreign, Double, Boolean, ObjectId, UTC, RegEx, Javascript,
         JsScope, Timestamp
    <3>4. Promised(v).value = [type |-> v.type, value |-> s]
      BY <1>1, <3>3 DEF Promised
    <3>5. QED
      BY <3>2, <3>4, Zenon
  <2>2. CASE v.type = Null
    <3>1. Value(v.type, p) = [type |-> Null, value |-> <<>>]
      BY <2>2, ValueOf, Zenon
    <3>2. v.type \notin Foreign
      BY <2>2 DEF Foreign, Null, ObjectId, UTC, RegEx, Javascript, JsScope,
         Timestamp
    <3>3. v.value = <<>>
      BY <1>1, <1>2, <2>2
    <3>4. Promised(v).value = [type |-> Null, value |-> <<>>]
      BY <2>2, <3>2, <3>3 DEF Promised
    <3>5. QED
      BY <3>1, <3>4, Zenon
  <2>3. CASE v.type \in {ObjectId, UTC, Timestamp}
    <3>1. v.type \in Foreign
      BY <2>3 DEF Foreign
    <3>2. Value(v.type, p) = [type |-> Object, value |-> <<>>]
      BY <3>1, ValueOf, Zenon
    <3>3. Promised(v).value = [type |-> Object, value |-> <<>>]
      BY <3>1 DEF Promised
    <3>4. QED
      BY <3>2, <3>3, Zenon
  <2>4. QED
    BY <2>1, <2>2, <2>3, Zenon
<1>11. QED
  BY <1>4, <1>5, <1>6, <1>7, <1>8, <1>9, <1>10, Zenon DEF Taken, Skipped

\* Code with its scope is moved over and comes out empty, as other code does.
LEMMA JsScopeTaken ==
  ASSUME data \in Seq(Byte), Size <= MaxInt32, NEW v, IsScalar(v),
         NEW p \in Nat, There(v, p), v.type = JsScope
  PROVE  Taken(v, p) /\ Skipped(v, p)
<1>1. PICK s \in Seq(Byte), n \in Nat, z \in Nat :
        s = v.value /\ n = Len(s) /\ z = Size
  BY DEF IsScalar, Size
<1>2. PICK h \in Seq(Byte) : h = LE32(n + 4) /\ Len(h) = 4
  <2>1. n + 4 \in Nat
    OBVIOUS
  <2>2. QED
    BY <2>1, LE32IsBytes, Zenon
<1>3. PICK t \in Seq(Byte) :
        t = h \o s /\ Len(t) = 4 + n /\ \A q \in 1 .. 4 : t[q] = h[q]
  <2>1. ConcatOf(h, s, Byte)
    BY ConcatIsOf
  <2>2. /\ h \o s \in Seq(Byte) /\ Len(h \o s) = 4 + n
        /\ \A q \in 1 .. 4 : (h \o s)[q] = h[q]
    BY <1>1, <1>2, <2>1, Zenon DEF ConcatOf
  <2>3. QED
    BY <2>2, Zenon
<1>4. Payload(v) = t /\ WireType(v) = JsScope
  <2>1. Payload(v) = LE32(n + 4) \o s
    BY <1>1, PayloadOf, Zenon
  <2>2. WireType(v) = JsScope
    BY DEF WireType, JsScope, Integer
  <2>3. QED
    BY <1>2, <1>3, <2>1, <2>2, Zenon
<1>5. p + (4 + n) <= z
  BY <1>1, <1>3, <1>4, Zenon DEF There
<1>6. HasInt32(p) /\ Read32(data, p) = n + 4
  <2>1. n + 4 \in Nat /\ n + 4 <= z /\ 4 + n >= 4
    BY <1>5
  <2>2. Prefixed(Payload(v), n + 4)
    BY <1>2, <1>3, <1>4, <2>1, Zenon DEF Prefixed
  <2>3. QED
    BY <1>1, <2>1, <2>2, LengthRead, Zenon
<1>7. AfterSkip(JsScope, p) = p + (4 + n)
  <2>1. AfterSkip(JsScope, p) = p + 4 + (Read32(data, p) - 4)
    BY AfterSkipOf, Zenon
  <2>2. p + 4 + ((n + 4) - 4) = p + (4 + n)
    OBVIOUS
  <2>3. QED
    BY <1>6, <2>1, <2>2, Zenon
<1>8. CanSkip(JsScope, p)
  BY <1>6 DEF CanSkip, JsScope, RegEx
<1>9. JsScope \notin {String, Binary, Boolean, Int32, Int64, Double}
      /\ JsScope \notin {String, Binary} /\ JsScope \in Foreign
  BY DEF JsScope, String, Binary, Boolean, Int32, Int64, Double, Foreign
<1>10. CanGet(JsScope, p) /\ AfterGet(JsScope, p) = p + (4 + n)
  BY <1>7, <1>8, <1>9, CanGetOf, AfterGetOf, Zenon
<1>11. Value(JsScope, p) = [type |-> Object, value |-> <<>>]
  BY <1>9, ValueOf, Zenon
<1>12. Promised(v).value = [type |-> Object, value |-> <<>>]
  BY <1>9 DEF Promised
<1>13. QED
  BY <1>3, <1>4, <1>7, <1>8, <1>10, <1>11, <1>12, Zenon DEF Taken, Skipped


\* A regular expression is moved over cstring by cstring.
LEMMA RegExTaken ==
  ASSUME data \in Seq(Byte), NEW v, IsScalar(v), NEW p \in Nat, There(v, p),
         v.type = RegEx
  PROVE  Taken(v, p) /\ Skipped(v, p)
<1>1. PICK s \in Seq(Byte), n \in Nat, z \in Nat :
        s = v.value /\ n = Len(s) /\ z = Size /\ IsRegEx(s)
  BY DEF IsScalar, Size
<1>2. PICK m \in 1 .. n - 1 : \A k \in 1 .. n : s[k] = 0 <=> k \in {m, n}
  <2>1. DOMAIN s = 1 .. n
    BY <1>1
  <2>2. QED
    BY <1>1, <2>1, Zenon DEF IsRegEx
<1>3. Payload(v) = s /\ WireType(v) = RegEx
  <2>1. v.type \notin {String, Javascript, Binary, JsScope, Integer}
    BY DEF RegEx, String, Javascript, Binary, JsScope, Integer
  <2>2. Payload(v) = s
    BY <1>1, <2>1, PayloadOf, Zenon
  <2>3. WireType(v) = RegEx
    BY <2>1, Zenon DEF WireType
  <2>4. QED
    BY <2>2, <2>3
<1>4. p + n <= z /\ \A q \in 1 .. n : data[p + q] = s[q]
  BY <1>1, <1>3, Zenon DEF There
<1>5. m \in Nat /\ m >= 1 /\ m < n /\ p < z /\ p + m < z
  BY <1>4
<1>6. AfterCString(p) = p + m
  <2>1. p + m \in p + 1 .. Size
    BY <1>1, <1>5
  <2>2. data[p + m] = 0
    <3>1. m \in 1 .. n
      BY <1>5
    <3>2. QED
      BY <1>2, <1>4, <3>1, Zenon
  <2>3. ASSUME NEW k \in p + 1 .. (p + m) - 1
        PROVE  data[k] # 0
    <3>1. PICK q \in 1 .. n : k = p + q /\ q \notin {m, n}
      <4>1. k - p \in 1 .. n /\ k = p + (k - p) /\ k - p \notin {m, n}
        BY <1>5
      <4>2. QED
        BY <4>1
    <3>2. QED
      BY <1>2, <1>4, <3>1, Zenon
  <2>4. QED
    BY <2>1, <2>2, <2>3, CStringAt
<1>7. AfterCString(p + m) = p + n
  <2>1. PICK b \in Nat : b = p + m
    BY <1>5
  <2>2. p + n \in b + 1 .. Size
    BY <1>1, <1>4, <1>5, <2>1
  <2>3. data[p + n] = 0
    <3>1. n \in 1 .. n
      BY <1>5
    <3>2. QED
      BY <1>2, <1>4, <3>1, Zenon
  <2>4. ASSUME NEW k \in b + 1 .. (p + n) - 1
        PROVE  data[k] # 0
    <3>1. PICK q \in 1 .. n : k = p + q /\ q \notin {m, n}
      <4>1. k - p \in 1 .. n /\ k = p + (k - p) /\ k - p \notin {m, n}
        BY <1>5, <2>1
      <4>2. QED
        BY <4>1
    <3>2. QED
      BY <1>2, <1>4, <3>1, Zenon
  <2>5. AfterCString(b) = p + n
    BY <2>2, <2>3, <2>4, CStringAt
  <2>6. QED
    BY <2>1, <2>5
<1>8. AfterSkip(RegEx, p) = p + n
  <2>1. AfterSkip(RegEx, p) = AfterCString(AfterCString(p))
    BY AfterSkipOf, Zenon
  <2>2. QED
    BY <1>6, <1>7, <2>1, Zenon
<1>9. CanSkip(RegEx, p)
  BY <1>1, <1>4, <1>5, <1>6, <1>7 DEF CanSkip, RegEx, String, Object, Array,
     Binary, JsScope, Javascript
<1>10. RegEx \notin {String, Binary, Boolean, Int32, Int64, Double}
       /\ RegEx \notin {String, Binary} /\ RegEx \in Foreign
  BY DEF RegEx, String, Binary, Boolean, Int32, Int64, Double, Foreign
<1>11. CanGet(RegEx, p) /\ AfterGet(RegEx, p) = p + n
  BY <1>8, <1>9, <1>10, CanGetOf, AfterGetOf, Zenon
<1>12. Value(RegEx, p) = [type |-> Object, value |-> <<>>]
  BY <1>10, ValueOf, Zenon
<1>13. Promised(v).value = [type |-> Object, value |-> <<>>]
  BY <1>10 DEF Promised
<1>14. QED
  BY <1>1, <1>3, <1>8, <1>9, <1>11, <1>12, <1>13, Zenon DEF Taken, Skipped

\* Code is not: the reader takes a step too short, and comes out of step.
LEMMA JavascriptSkipped ==
  ASSUME data \in Seq(Byte), Size <= MaxInt32, NEW v, IsScalar(v),
         NEW p \in Nat, There(v, p), v.type = Javascript
  PROVE  /\ WireType(v) = Javascript /\ Skipped(v, p)
         /\ CanGet(WireType(v), p) /\ AfterSkip(Javascript, p) >= p
<1>1. PICK s \in Seq(Byte), n \in Nat, z \in Nat :
        s = v.value /\ n = Len(s) /\ z = Size
  BY DEF IsScalar, Size
<1>2. PICK h \in Seq(Byte) : h = LE32(n + 1) /\ Len(h) = 4
  <2>1. n + 1 \in Nat
    OBVIOUS
  <2>2. QED
    BY <2>1, LE32IsBytes, Zenon
<1>3. PICK t \in Seq(Byte) :
        /\ t = h \o s \o <<0>> /\ Len(t) = n + 5
        /\ \A q \in 1 .. 4 : t[q] = h[q]
  <2>1. /\ h \o s \o <<0>> \in Seq(Byte)
        /\ Len(h \o s \o <<0>>) = Len(s) + 5
        /\ \A q \in 1 .. 4 : (h \o s \o <<0>>)[q] = h[q]
    BY <1>2, StringBytes, Zenon
  <2>2. QED
    BY <1>1, <2>1, Zenon
<1>4. Payload(v) = t
  <2>1. Payload(v) = LE32(n + 1) \o s \o <<0>>
    BY <1>1, PayloadOf, Zenon
  <2>2. QED
    BY <1>2, <1>3, <2>1, Zenon
<1>5. p + (n + 5) <= z
  BY <1>1, <1>3, <1>4, Zenon DEF There
<1>6. HasInt32(p) /\ Read32(data, p) = n + 1
  <2>1. n + 1 \in Nat /\ n + 1 <= z /\ n + 5 >= 4
    BY <1>5
  <2>2. Prefixed(Payload(v), n + 1)
    BY <1>2, <1>3, <1>4, <2>1, Zenon DEF Prefixed
  <2>3. QED
    BY <1>1, <2>1, <2>2, LengthRead, Zenon
<1>7. WireType(v) = Javascript
  BY DEF WireType, Javascript, Integer
<1>8. CanSkip(Javascript, p) /\ Javascript \in Mismeasured
  BY <1>6 DEF CanSkip, Mismeasured, Javascript, RegEx
<1>9. CanGet(Javascript, p)
  <2>1. Javascript \notin {String, Binary, Boolean, Int32, Int64, Double}
    BY DEF Javascript, String, Binary, Boolean, Int32, Int64, Double
  <2>2. QED
    BY <1>8, <2>1, CanGetOf, Zenon
<1>10. AfterSkip(Javascript, p) >= p
  <2>1. AfterSkip(Javascript, p) = p + 4 + (Read32(data, p) - 4)
    BY AfterSkipOf, Zenon
  <2>2. p + 4 + ((n + 1) - 4) >= p
    OBVIOUS
  <2>3. QED
    BY <1>6, <2>1, <2>2, Zenon
<1>11. QED
  BY <1>7, <1>8, <1>9, <1>10, Zenon DEF Skipped

\* Together: every value that was written can be taken and skipped, and no
\* reader goes back over it.
LEMMA ScalarRead ==
  ASSUME data \in Seq(Byte), Size <= MaxInt32, NEW v, IsScalar(v),
         NEW p \in Nat, There(v, p)
  PROVE  /\ CanGet(WireType(v), p) /\ Skipped(v, p)
         /\ WireType(v) # Javascript => Taken(v, p)
         /\ AfterSkip(WireType(v), p) >= p
<1>1. v.type \in {Double, String, Binary, Boolean, Null, Integer, ObjectId, UTC,
                  RegEx, Javascript, JsScope, Timestamp}
  BY Zenon DEF IsScalar, Foreign
<1>2. CASE v.type = String
  <2>1. WireType(v) = String
    BY <1>2 DEF WireType, String, Integer
  <2>2. QED
    BY <1>2, <2>1, StringTaken, Zenon DEF Taken
<1>3. CASE v.type = Binary
  <2>1. WireType(v) = Binary
    BY <1>3 DEF WireType, Binary, Integer
  <2>2. QED
    BY <1>3, <2>1, BinaryTaken, Zenon DEF Taken
<1>4. CASE v.type = Javascript
  BY <1>4, JavascriptSkipped, Zenon
<1>5. CASE v.type \notin {String, Binary, Javascript}
  <2>1. Taken(v, p) /\ Skipped(v, p)
    <3>1. CASE v.type = Integer
      BY <3>1, IntegerTaken, Zenon
    <3>2. CASE v.type = JsScope
      BY <3>2, JsScopeTaken, Zenon
    <3>3. CASE v.type = RegEx
      BY <3>3, RegExTaken, Zenon
    <3>4. CASE v.type \in {Double, Boolean, Null, ObjectId, UTC, Timestamp}
      BY <3>4, PlainTaken, Zenon
    <3>5. QED
      BY <1>1, <1>5, <3>1, <3>2, <3>3, <3>4, Zenon
  <2>2. WireType(v) \notin Mismeasured
    <3>1. CASE v.type = Integer
      BY <3>1 DEF WireType, Mismeasured, Int32, Int64, String, Binary, Javascript
    <3>2. CASE v.type # Integer
      BY <1>5, <3>2, Zenon DEF WireType, Mismeasured
    <3>3. QED
      BY <3>1, <3>2
  <2>3. AfterSkip(WireType(v), p) = p + Len(Payload(v))
    BY <2>1, <2>2, Zenon DEF Skipped
  <2>4. p + Len(Payload(v)) >= p
    <3>1. PICK m \in Nat : m = Len(Payload(v))
      BY PayloadIsBytes
    <3>2. p + m >= p
      OBVIOUS
    <3>3. QED
      BY <3>1, <3>2, Zenon
  <2>5. QED
    BY <2>1, <2>3, <2>4, Zenon DEF Taken
<1>6. QED
  BY <1>2, <1>3, <1>4, <1>5
=============================================================================
