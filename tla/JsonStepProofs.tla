---------------------------- MODULE JsonStepProofs ----------------------------
(***************************************************************************)
(* The reader of JsonCodec comes from one event to the next, as they were  *)
(* written: its properties, and the contract it keeps.                     *)
(***************************************************************************)
EXTENDS JsonLayoutProofs

-----------------------------------------------------------------------------
(* One round of the reader. *)

\* Where there is a value it is ahead of the reader, whatever the text.
LEMMA ItemAhead ==
  ASSUME Text, i \in Nat, AtItem
  PROVE  /\ phase = "read" /\ ValueAt \in Nat /\ ValueAt < Size /\ i < ValueAt
         /\ NextAt # -1 /\ NextAt < Size /\ At(NextAt) # Last(open)
<1>1. Size \in Nat
  BY SizeIsNat
<1>2. PICK next : next = NextAt
  BY Zenon
<1>3. PICK colon : colon = SkipWhitespace(KeyEnd(next) + 1)
  BY Zenon
<1>4. PICK value : value = SkipWhitespace(colon + 1)
  BY Zenon
<1>5. ValueAt # -1
  BY DEF AtItem
<1>6. ValueAt = IF phase # "read" \/ next = -1 \/ next >= Size \/ At(next) = Last(open)
                THEN -1
                ELSE IF ~ InObject THEN next
                ELSE IF At(next) # Quote \/ colon = -1 \/ colon >= Size \/ At(colon) # ":"
                        \/ value >= Size
                THEN -1 ELSE value
  BY <1>2, <1>3, <1>4, Zenon DEF ValueAt
<1>7. phase = "read" /\ next # -1 /\ ~ (next >= Size) /\ At(next) # Last(open)
  BY <1>5, <1>6, Zenon
<1>8. next \in Nat /\ next >= i + 1 /\ next < Size
  <2>1. i + 1 \in Nat
    OBVIOUS
  <2>2. next \in Int /\ (next = -1 \/ next >= i + 1)
    BY <1>2, <2>1, SkipBounds, Zenon DEF NextAt
  <2>3. QED
    BY <1>1, <1>7, <2>2
<1>9. CASE ~ InObject
  <2>1. ValueAt = next
    BY <1>6, <1>7, <1>9, Zenon
  <2>2. i < next
    BY <1>8
  <2>3. QED
    BY <1>2, <1>7, <1>8, <2>1, <2>2, Zenon
<1>10. CASE InObject
  <2>1. ValueAt = value /\ value # -1 /\ ~ (value >= Size) /\ colon # -1 /\ ~ (colon >= Size)
    BY <1>5, <1>6, <1>7, <1>10, Zenon
  <2>2. KeyEnd(next) \in Nat /\ KeyEnd(next) > next
    BY <1>8, ScansForward, Zenon
  <2>3. KeyEnd(next) + 1 \in Nat
    BY <2>2
  <2>4. colon \in Int /\ (colon = -1 \/ colon >= KeyEnd(next) + 1)
    BY <1>3, <2>3, SkipBounds, Zenon
  <2>5. colon \in Nat /\ colon > next /\ colon + 1 \in Nat
    BY <1>8, <2>1, <2>2, <2>4
  <2>6. value \in Int /\ (value = -1 \/ value >= colon + 1)
    BY <1>4, <2>5, SkipBounds, Zenon
  <2>7. value \in Nat /\ value < Size /\ i < value
    BY <1>1, <1>8, <2>1, <2>5, <2>6
  <2>8. QED
    BY <1>2, <1>7, <1>8, <2>1, <2>7, Zenon
<1>11. QED
  BY <1>9, <1>10

\* A reader that goes on has come past a symbol.
LEMMA EndAhead ==
  ASSUME Text, i \in Nat, AtEnd
  PROVE  phase = "read" /\ NextAt \in Nat /\ NextAt > i
<1>1. phase = "read" /\ NextAt # -1
  BY Zenon DEF AtEnd
<1>2. i + 1 \in Nat
  OBVIOUS
<1>3. NextAt \in Int /\ (NextAt = -1 \/ NextAt >= i + 1)
  BY <1>2, SkipBounds, Zenon DEF NextAt
<1>4. QED
  BY <1>1, <1>3

\* What a round of the reader finds at the event e.
Round(e) ==
  /\ e.kind = "end" => AtEnd /\ NextAt = e.at /\ ~ AtItem
  /\ e.kind # "end" => ~ AtEnd /\ AtItem /\ ValueAt = e.at /\ KeyRead = e.name

\* No value starts with a symbol that the reader would pass or end at.
LEMMA FirstSymbol ==
  ASSUME NEW a, NEW e, NEW before \in Levels, NEW after, EventIs(a, e, before, after)
  PROVE  /\ At(e.at) \notin Whitespace /\ At(e.at) # "/"
         /\ e.kind # "end" => At(e.at) # "}" /\ At(e.at) # "]"
<1>1. CASE e.kind = "start" /\ \E c \in Closings : At(e.at) = Opening(c)
  <2>1. PICK c \in Closings : At(e.at) = Opening(c)
    BY <1>1
  <2>2. At(e.at) \in {"{", "["}
    BY <2>1 DEF Opening
  <2>3. QED
    BY <2>2 DEF Whitespace
<1>2. CASE e.kind = "item" /\ \E s : IsString(e.at, e.last, s)
  <2>1. At(e.at) = Quote
    BY <1>2, Zenon DEF IsString, Quoted, At
  <2>2. QED
    BY <2>1 DEF Whitespace, Quote
<1>3. CASE e.kind = "item" /\ e.at \in Nat /\ e.last \in Nat /\ e.at <= e.last
             /\ \E w : IsWord(e.at, e.last, w)
  <2>1. e.at \in e.at .. e.last
    BY <1>3
  <2>2. Plain(At(e.at))
    BY <1>3, <2>1, Zenon DEF IsWord
  <2>3. QED
    BY <2>2 DEF Plain, Whitespace
<1>4. CASE e.kind = "end" /\ before # <<>> /\ At(e.at) = Last(before)
  <2>1. PICK s \in Seq(Closings) : s = before
    BY LevelsAre, Zenon
  <2>2. s # <<>>
    BY <1>4, <2>1
  <2>3. Last(s) \in Closings
    BY <2>2, FrontIs, Zenon
  <2>4. At(e.at) \in {"}", "]"}
    BY <1>4, <2>1, <2>3, Zenon DEF Closings
  <2>5. QED
    BY <1>4, <2>4 DEF Whitespace
<1>5. QED
  BY <1>1, <1>2, <1>3, <1>4, Zenon DEF EventIs


\* The reader is behind the event before the one with the number cursor.
Reading(S) ==
  /\ cursor \in 2 .. Len(events)
  /\ open = S[cursor - 1] /\ open # <<>>
  /\ i = events[cursor - 1].last

\* Where the event that comes next starts, and what is open there.
Coming(S, e, after) ==
  /\ Text /\ i \in Nat /\ i + 1 \in Nat /\ open \in Levels /\ open # <<>>
  /\ Last(open) \in Closings
  /\ LedBy(text, MisleadingGap, i + 1, e, open) /\ EventIs(i + 1, e, open, after)

LEMMA NextIs ==
  ASSUME NEW S, Written(S), Reading(S)
  PROVE  Coming(S, events[cursor], S[cursor])
<1>1. LayoutOf(text, events, MisleadingGap, S) /\ events \in Seq(EventSet)
  BY Zenon DEF Written, LayoutOf
<1>2. cursor \in 2 .. Len(events) /\ Len(events) \in Nat
  BY <1>1 DEF Reading
<1>3. PICK k \in 1 .. Len(events) : k = cursor /\ k - 1 \in 1 .. Len(events) /\ k # 1
  BY <1>2
<1>4. /\ Text /\ S[k - 1] \in Levels /\ Start(events, k) \in Nat
      /\ Laid(text, MisleadingGap, Start(events, k), events[k], S[k - 1], S[k])
  BY <1>1, LayoutIs, Zenon
<1>5. EventIs(Start(events, k), events[k], S[k - 1], S[k])
  BY <1>4, LaidIs, Zenon
<1>6. Start(events, k) = i + 1
  BY <1>3, Zenon DEF Start, Reading
<1>7. open = S[k - 1] /\ open # <<>>
  BY <1>3, Zenon DEF Reading
<1>8. i \in Nat
  <2>1. events[k - 1] \in EventSet
    BY <1>1, <1>3
  <2>2. events[k - 1].last \in Nat
    BY <2>1 DEF EventSet
  <2>3. QED
    BY <1>3, <2>2, Zenon DEF Reading
<1>9. i + 1 \in Nat
  BY <1>8
<1>10. Last(open) \in Closings
  <2>1. PICK s \in Seq(Closings) : s = open
    BY <1>4, <1>7, LevelsAre, Zenon
  <2>2. s # <<>>
    BY <1>7, <2>1
  <2>3. QED
    BY <2>1, <2>2, FrontIs, Zenon
<1>11. LedBy(text, MisleadingGap, i + 1, events[k], open)
  BY <1>4, <1>6, <1>7, Zenon DEF Laid
<1>12. EventIs(i + 1, events[k], open, S[k]) /\ open \in Levels
  BY <1>4, <1>5, <1>6, <1>7, Zenon
<1>13. QED
  BY <1>3, <1>4, <1>7, <1>8, <1>9, <1>10, <1>11, <1>12, Zenon DEF Coming

\* Where skip_whitespace stops before an event.
LEMMA StopsBefore ==
  ASSUME Text, NEW m, NEW a \in Nat, NEW b \in Nat, b < Size, Between(text, m, a, b),
         At(b) \notin Whitespace, At(b) # "/"
  PROVE  SkipWhitespace(a) = b
<1>1. Fills(text, a, b)
  BY Zenon DEF Between
<1>2. QED
  BY <1>1, StopsAt, Zenon

LEMMA RoundIs ==
  ASSUME phase = "read", NEW S, NEW e, NEW after, Coming(S, e, after)
  PROVE  Round(e)
<1>1. /\ Text /\ i \in Nat /\ i + 1 \in Nat /\ open \in Levels /\ open # <<>>
      /\ Last(open) \in Closings
      /\ LedBy(text, MisleadingGap, i + 1, e, open) /\ EventIs(i + 1, e, open, after)
  BY Zenon DEF Coming
<1>2. /\ At(e.at) \notin Whitespace /\ At(e.at) # "/"
      /\ e.kind # "end" => At(e.at) # "}" /\ At(e.at) # "]"
  BY <1>1, FirstSymbol, Zenon
<1>3. PICK at \in Nat : at = e.at /\ at < Size
  BY <1>1, Zenon DEF EventIs
<1>4. Size \in Nat /\ at # -1 /\ ~ (at >= Size)
  BY <1>1, <1>3, InText, Zenon
<1>5. ASSUME Between(text, MisleadingGap, i + 1, at)
      PROVE  NextAt = at
  BY <1>1, <1>2, <1>3, <1>5, StopsBefore, Zenon DEF NextAt
<1>6. CASE e.kind = "end"
  <2>1. NextAt = at /\ At(at) = Last(open)
    <3>1. e.kind # "start" /\ e.kind # "item"
      BY <1>6
    <3>2. At(e.at) = Last(open)
      BY <1>1, <3>1, Zenon DEF EventIs
    <3>3. Between(text, MisleadingGap, i + 1, at)
      BY <1>1, <1>3, <1>6, Zenon DEF LedBy
    <3>4. QED
      BY <1>3, <1>5, <3>2, <3>3, Zenon
  <2>2. AtEnd
    BY <1>4, <2>1, Zenon DEF AtEnd
  <2>3. ValueAt = -1
    BY <2>1, Zenon DEF ValueAt
  <2>4. ~ AtItem
    BY <2>3, Zenon DEF AtItem
  <2>5. QED
    BY <1>3, <1>6, <2>1, <2>2, <2>4, Zenon DEF Round
<1>7. CASE e.kind # "end" /\ Last(open) = "]"
  <2>1. ~ InObject
    BY <1>7 DEF InObject
  <2>2. Last(open) # "}"
    BY <1>7
  <2>3. Between(text, MisleadingGap, i + 1, at) /\ e.name = <<>>
    BY <1>1, <1>3, <2>2, Zenon DEF LedBy
  <2>4. NextAt = at
    BY <1>5, <2>3, Zenon
  <2>5. At(at) # Last(open)
    BY <1>2, <1>3, <1>7, Zenon
  <2>6. ~ AtEnd
    <3>1. NextAt < Size
      BY <1>3, <2>4, Zenon
    <3>2. QED
      BY <2>4, <2>5, <3>1, Zenon DEF AtEnd
  <2>7. ValueAt = at
    BY <1>4, <2>1, <2>4, <2>5, Zenon DEF ValueAt
  <2>8. AtItem
    BY <1>4, <2>7, Zenon DEF AtItem
  <2>9. KeyRead = <<>>
    BY <2>1, Zenon DEF KeyRead
  <2>10. QED
    BY <1>3, <1>7, <2>3, <2>6, <2>7, <2>8, <2>9, Zenon DEF Round
<1>8. CASE e.kind # "end" /\ Last(open) # "]"
  <2>1. Last(open) = "}" /\ InObject
    BY <1>1, <1>8 DEF Closings, InObject
  <2>2. e.name \in Names /\ KeyAt(text, MisleadingGap, i + 1, at, e.name)
    BY <1>1, <1>3, <1>8, Zenon DEF LedBy
  <2>3. PICK b, q, colon : KeyFound(MisleadingGap, i + 1, at, e.name, b, q, colon)
    BY <1>1, <2>2, KeyIs, Zenon
  <2>4. /\ b \in Nat /\ q \in Nat /\ colon \in Nat
        /\ Between(text, MisleadingGap, i + 1, b) /\ b < q /\ q < colon
        /\ Quoted(text, b, q) /\ SubSeq(text, b + 2, q) = e.name
        /\ \A x \in b + 1 .. q - 1 : At(x) # Quote
        /\ Between(text, MisleadingGap, q + 1, colon) /\ At(colon) = ":" /\ colon < at
        /\ Between(text, MisleadingGap, colon + 1, at)
    BY <2>3, Zenon DEF KeyFound, IsKey
  <2>5. b < Size /\ q < Size /\ colon < Size /\ q + 1 \in Nat /\ colon + 1 \in Nat
    BY <1>3, <1>4, <2>4
  <2>6. At(b) = Quote /\ At(q) = Quote
    BY <2>4, Zenon DEF Quoted, At
  <2>7. NextAt = b
    <3>1. At(b) \notin Whitespace /\ At(b) # "/"
      BY <2>6 DEF Whitespace, Quote
    <3>2. QED
      BY <1>1, <2>4, <2>5, <3>1, StopsBefore, Zenon DEF NextAt
  <2>8. KeyEnd(b) = q
    BY <1>1, <2>4, <2>5, <2>6, QuotedKeyEnd, Zenon
  <2>9. SkipWhitespace(q + 1) = colon
    <3>1. At(colon) \notin Whitespace /\ At(colon) # "/"
      BY <2>4 DEF Whitespace
    <3>2. QED
      BY <1>1, <2>4, <2>5, <3>1, StopsBefore, Zenon
  <2>10. SkipWhitespace(colon + 1) = at
    BY <1>1, <1>2, <1>3, <2>4, <2>5, StopsBefore, Zenon
  <2>11. b # -1 /\ ~ (b >= Size) /\ colon # -1 /\ ~ (colon >= Size)
    BY <1>1, <2>4, <2>5, InText, Zenon
  <2>12. At(b) # Last(open)
    BY <2>1, <2>6 DEF Quote
  <2>13. ~ AtEnd
    BY <2>5, <2>7, <2>12, Zenon DEF AtEnd
  <2>14. ValueAt = at
    BY <1>4, <2>1, <2>4, <2>6, <2>7, <2>8, <2>9, <2>10, <2>11, <2>12, Zenon DEF ValueAt
  <2>15. AtItem
    BY <1>4, <2>14, Zenon DEF AtItem
  <2>16. KeyRead = e.name
    BY <2>1, <2>4, <2>7, <2>8, Zenon DEF KeyRead
  <2>17. QED
    BY <1>3, <1>8, <2>13, <2>14, <2>15, <2>16, Zenon DEF Round
<1>9. QED
  BY <1>6, <1>7, <1>8


-----------------------------------------------------------------------------
(* What the reader makes of a value. *)

LEMMA StartIs ==
  ASSUME NEW p, NEW c \in Closings, At(p) = Opening(c)
  PROVE  /\ At(p) \in {"{", "["} /\ At(p) # Quote /\ At(p) # "}" /\ ~ WordAt(p) /\ ~ IsNull(p)
         /\ (IF At(p) = "{" THEN "}" ELSE "]") = c
         /\ SkipEnd(p) = DocumentEnd(p, c)
<1>1. (At(p) = "{" /\ c = "}") \/ (At(p) = "[" /\ c = "]")
  BY DEF Opening, Closings
<1>2. At(p) \in {"{", "["} /\ At(p) # Quote /\ At(p) # "}" /\ ~ WordAt(p) /\ ~ IsNull(p)
        /\ (IF At(p) = "{" THEN "}" ELSE "]") = c
  BY <1>1 DEF Quote, WordAt, IsNull
<1>3. CASE At(p) = "{" /\ c = "}"
  <2>1. At(p) # "[" /\ At(p) # Quote
    BY <1>3 DEF Quote
  <2>2. SkipEnd(p) = DocumentEnd(p, "}")
    BY <1>3, <2>1, Zenon DEF SkipEnd
  <2>3. QED
    BY <1>2, <1>3, <2>2, Zenon
<1>4. CASE At(p) = "[" /\ c = "]"
  <2>1. At(p) # "{" /\ At(p) # Quote
    BY <1>4 DEF Quote
  <2>2. SkipEnd(p) = DocumentEnd(p, "]")
    BY <1>4, <2>1, Zenon DEF SkipEnd
  <2>3. QED
    BY <1>2, <1>4, <2>2, Zenon
<1>5. QED
  BY <1>1, <1>3, <1>4

StringFound(b, e, s) ==
  /\ At(b) = Quote /\ At(b) \notin {"{", "["} /\ At(b) # "}"
  /\ ~ WordAt(b) /\ ~ IsNull(b)
  /\ StringEnd(b) = e /\ SkipEnd(b) = e
  /\ Unescaped(SubSeq(text, b + 2, e)) = s

LEMMA StringIs ==
  ASSUME Text, NEW b \in Nat, NEW e \in Nat, e < Size, NEW s \in Strings, IsString(b, e, s)
  PROVE  StringFound(b, e, s)
<1>1. At(b) = Quote /\ Quoted(text, b, e) /\ SubSeq(text, b + 2, e) = Escaped(s)
  BY Zenon DEF IsString, Quoted, At
<1>2. At(b) \notin {"{", "["} /\ At(b) # "}" /\ ~ WordAt(b) /\ ~ IsNull(b)
        /\ At(b) # "{" /\ At(b) # "["
  BY <1>1 DEF Quote, WordAt, IsNull
<1>3. StringEnd(b) = e
  BY <1>1, QuotedStringEnd, Zenon
<1>4. SkipEnd(b) = e
  BY <1>1, <1>2, <1>3, Zenon DEF SkipEnd
<1>5. s \in Seq(Symbols)
  BY StringIsEscaped, Zenon
<1>6. Unescaped(Escaped(s)) = s
  BY <1>5, UnescapedEscaped, Zenon
<1>7. QED
  BY <1>1, <1>2, <1>3, <1>4, <1>6, Zenon DEF StringFound

WordFound(b, e, w) ==
  /\ At(b) # Quote /\ At(b) \notin {"{", "["} /\ At(b) # "}" /\ WordAt(b)
  /\ IsNull(b) => w = <<"null">>
  /\ WordEnd(b) = e /\ SkipEnd(b) = e /\ WordRead(b) = w

LEMMA WordIs ==
  ASSUME Text, NEW b \in Nat, NEW e \in Nat, b <= e, e + 1 < Size, At(e + 1) \in Delimiters,
         NEW w \in Words, IsWord(b, e, w)
  PROVE  WordFound(b, e, w)
<1>1. At(b) = w[1] /\ SubSeq(text, b + 1, e + 1) = w /\ \A x \in b .. e : Plain(At(x))
  BY Zenon DEF IsWord
<1>2. b \in b .. e /\ \A x \in b + 1 .. e : x \in b .. e
  OBVIOUS
<1>3. Plain(At(b)) /\ \A x \in b + 1 .. e : Plain(At(x))
  BY <1>1, <1>2, Zenon
<1>4. \A x \in b + 1 .. e : At(x) \notin Delimiters
  BY <1>3 DEF Plain, Delimiters
<1>5. At(b) # Quote /\ At(b) \notin {"{", "["} /\ At(b) # "}" /\ At(b) # "{" /\ At(b) # "["
  BY <1>3 DEF Plain
<1>6. WordAt(b)
  BY <1>5 DEF WordAt
<1>7. WordEnd(b) = e
  BY <1>4, WordEndIs, Zenon
<1>8. SkipEnd(b) = e
  BY <1>5, <1>7, Zenon DEF SkipEnd
<1>9. WordRead(b) = w
  BY <1>1, <1>7, Zenon DEF WordRead
<1>10. IsNull(b) => w = <<"null">>
  BY <1>1, WordsAssumption, Zenon DEF IsNull
<1>11. QED
  BY <1>5, <1>6, <1>7, <1>8, <1>9, <1>10, Zenon DEF WordFound

-----------------------------------------------------------------------------
(* The events one after another. *)

\* As long as documents are open there is an event to come.
LEMMA Followed ==
  ASSUME NEW S, Written(S), phase # "write", NEW k \in 1 .. Len(events)
  PROVE  /\ S[k] # <<>> <=> k # Len(events)
         /\ k = Len(events) => Len(text) = events[k].last + 1
         /\ S[k - 1] \in Levels /\ S[k] \in Levels
         /\ k # Len(events) /\ events[k].kind = "item" =>
              events[k].last + 1 < Size /\ At(events[k].last + 1) \in Delimiters
<1>1. LayoutOf(text, events, MisleadingGap, S) /\ events # <<>> /\ loops = <<>>
  BY Zenon DEF Written
<1>2. /\ text \in Seq(Symbols) /\ events \in Seq(EventSet)
      /\ \A n \in 1 .. Len(events) - 1 : S[n] # <<>>
      /\ \A n \in 1 .. Len(events) - 1 :
           events[n].kind = "item" => text[events[n].last + 2] \in Delimiters
      /\ Len(text) = Start(events, Len(events) + 1)
  BY <1>1, Zenon DEF LayoutOf
<1>3. Len(events) \in Nat \ {0}
  BY <1>1, <1>2
<1>4. S[Len(events)] = <<>>
  BY <1>1, OpenIs, Zenon
<1>5. k # Len(events) => k \in 1 .. Len(events) - 1 /\ k + 1 \in 1 .. Len(events) /\ (k + 1) - 1 = k
  BY <1>3
<1>6. S[k] # <<>> <=> k # Len(events)
  BY <1>2, <1>4, <1>5, Zenon
<1>7. \A n \in 1 .. Len(events) :
        /\ S[n - 1] \in Levels /\ S[n] \in Levels /\ Text
        /\ Start(events, n + 1) = events[n].last + 1
        /\ EventIs(Start(events, n), events[n], S[n - 1], S[n])
  BY <1>1, LayoutIs, LaidIs, Zenon
<1>8. k = Len(events) => Len(text) = events[k].last + 1
  BY <1>2, <1>7, Zenon
<1>9. ASSUME k # Len(events), events[k].kind = "item"
      PROVE  events[k].last + 1 < Size /\ At(events[k].last + 1) \in Delimiters
  <2>1. PICK x \in Nat : x = events[k].last
    BY <1>7, Zenon DEF EventIs
  <2>2. PICK y \in Nat : y = events[k + 1].at /\ Start(events, k + 1) <= y /\ y < Size
    BY <1>5, <1>7, <1>9, Zenon DEF EventIs
  <2>3. Start(events, k + 1) = x + 1
    BY <1>7, <2>1, Zenon
  <2>4. Text
    BY <1>7, Zenon
  <2>5. Size \in Nat
    BY <2>4, SizeIsNat, Zenon
  <2>6. x + 1 < Size /\ (x + 1) + 1 = x + 2
    BY <2>2, <2>3, <2>5
  <2>7. text[x + 2] \in Delimiters
    BY <1>2, <1>5, <1>9, <2>1, Zenon
  <2>8. QED
    BY <2>1, <2>6, <2>7, Zenon DEF At
<1>10. QED
  BY <1>6, <1>7, <1>8, <1>9, Zenon


-----------------------------------------------------------------------------
(* Where the reader is. *)

\* What it keeps, whatever it reads.
ReaderTypes ==
  /\ phase \in {"write", "sent", "read", "done", "error"}
  /\ i \in Nat /\ cursor \in Nat /\ open \in Levels /\ lost \in BOOLEAN
  /\ phase = "read" => open # <<>>

LEMMA LevelIs ==
  ASSUME NEW L \in Levels
  PROVE  /\ \A c \in Closings : Append(L, c) \in Levels /\ Append(L, c) # <<>>
         /\ L # <<>> => Front(L) \in Levels /\ (Len(L) = 1 <=> Front(L) = <<>>)
<1>1. PICK s \in Seq(Closings) : s = L
  BY LevelsAre, Zenon
<1>2. ASSUME NEW c \in Closings
      PROVE  Append(s, c) \in Seq(Closings) /\ Append(s, c) # <<>>
  <2>1. Append(s, c) \in Seq(Closings) /\ Len(Append(s, c)) # 0
    BY AppendIs
  <2>2. QED
    BY <2>1, EmptyLength, Zenon
<1>3. ASSUME s # <<>>
      PROVE  Front(s) \in Seq(Closings) /\ (Len(s) = 1 <=> Front(s) = <<>>)
  <2>1. /\ Front(s) \in Seq(Closings) /\ Len(Front(s)) = Len(s) - 1
        /\ Len(s) \in Nat \ {0}
    BY <1>1, <1>3, FrontIs, Zenon
  <2>2. Front(s) = <<>> <=> Len(Front(s)) = 0
    BY <2>1, EmptyLength, Zenon
  <2>3. Len(s) = 1 <=> Len(Front(s)) = 0
    BY <2>1
  <2>4. QED
    BY <2>1, <2>2, <2>3, Zenon
<1>4. QED
  BY <1>1, <1>2, <1>3, LevelsAre, Zenon

\* Each round takes it further on.
LEMMA RoundTypes ==
  ASSUME Text, ReaderTypes, phase = "read", ReaderStep, ~ lost' => cursor' \in Nat
  PROVE  /\ ReaderTypes' /\ phase' \in {"read", "done", "error"}
         /\ phase' = "read" => i' > i
<1>1. /\ i \in Nat /\ cursor \in Nat /\ open \in Levels /\ lost \in BOOLEAN
      /\ open # <<>> /\ cursor + 1 \in Nat
  BY DEF ReaderTypes
<1>2. ASSUME i' \in Nat, i' > i, cursor' \in Nat, open' \in Levels, open' # <<>>,
             lost' \in BOOLEAN, phase' = "read"
      PROVE  /\ ReaderTypes' /\ phase' \in {"read", "done", "error"}
             /\ phase' = "read" => i' > i
  BY <1>2 DEF ReaderTypes
<1>3. CASE ReadEnd
  <2>1. /\ AtEnd /\ i' = NextAt /\ open' = Front(open) /\ cursor' = cursor + 1
        /\ lost' = lost /\ phase' = IF Len(open) = 1 THEN "done" ELSE "read"
    BY <1>3, Zenon DEF ReadEnd
  <2>2. i' \in Nat /\ i' > i
    BY <1>1, <2>1, EndAhead, Zenon
  <2>3. Front(open) \in Levels /\ (Len(open) = 1 <=> Front(open) = <<>>)
    BY <1>1, LevelIs, Zenon
  <2>4. QED
    BY <1>1, <2>1, <2>2, <2>3 DEF ReaderTypes
<1>4. ASSUME AtItem
      PROVE  /\ ValueAt \in Nat /\ ValueAt < Size /\ i < ValueAt
             /\ StringEnd(ValueAt) \in Nat /\ StringEnd(ValueAt) > ValueAt
             /\ WordEnd(ValueAt) \in Nat /\ WordEnd(ValueAt) >= ValueAt
             /\ SkipEnd(ValueAt) \in Nat /\ SkipEnd(ValueAt) >= ValueAt
  BY <1>1, <1>4, ItemAhead, ScansForward, Zenon
<1>5. CASE TakeString
  <2>1. AtItem /\ i' = StringEnd(ValueAt) /\ cursor' = cursor + 1
        /\ open' = open /\ lost' = lost /\ phase' = "read"
    BY <1>5, Zenon DEF TakeString
  <2>2. i' \in Nat /\ i' > i
    BY <1>1, <1>4, <2>1
  <2>3. cursor' \in Nat /\ lost' \in BOOLEAN /\ open' \in Levels /\ open' # <<>>
    BY <1>1, <2>1, Zenon
  <2>4. QED
    BY <1>2, <2>1, <2>2, <2>3, Zenon
<1>6. CASE TakeWord
  <2>1. AtItem /\ i' = WordEnd(ValueAt) /\ cursor' = cursor + 1
        /\ open' = open /\ lost' = lost /\ phase' = "read"
    BY <1>6, Zenon DEF TakeWord
  <2>2. i' \in Nat /\ i' > i
    BY <1>1, <1>4, <2>1
  <2>3. cursor' \in Nat /\ lost' \in BOOLEAN /\ open' \in Levels /\ open' # <<>>
    BY <1>1, <2>1, Zenon
  <2>4. QED
    BY <1>2, <2>1, <2>2, <2>3, Zenon
<1>7. CASE TakeNull
  <2>1. AtItem /\ i' = SkipEnd(ValueAt) /\ cursor' = cursor + 1
        /\ open' = open /\ lost' = lost /\ phase' = "read"
    BY <1>7, Zenon DEF TakeNull
  <2>2. i' \in Nat /\ i' > i
    BY <1>1, <1>4, <2>1
  <2>3. cursor' \in Nat /\ lost' \in BOOLEAN /\ open' \in Levels /\ open' # <<>>
    BY <1>1, <2>1, Zenon
  <2>4. QED
    BY <1>2, <2>1, <2>2, <2>3, Zenon
<1>8. CASE TakeDocument
  <2>1. PICK c : c = IF At(i') = "{" THEN "}" ELSE "]"
    BY Zenon
  <2>2. AtItem /\ i' = ValueAt /\ cursor' = cursor + 1
        /\ open' = Append(open, c) /\ lost' = lost /\ phase' = "read"
    BY <1>8, <2>1, Zenon DEF TakeDocument
  <2>3. i' \in Nat /\ i' > i
    BY <1>1, <1>4, <2>2
  <2>4. c \in Closings
    BY <2>1 DEF Closings
  <2>5. Append(open, c) \in Levels /\ Append(open, c) # <<>>
    BY <1>1, <2>4, LevelIs, Zenon
  <2>6. cursor' \in Nat /\ lost' \in BOOLEAN /\ open' \in Levels /\ open' # <<>>
    BY <1>1, <2>2, <2>5, Zenon
  <2>7. QED
    BY <1>2, <2>2, <2>3, <2>6, Zenon
<1>9. CASE SkipValue
  <2>1. AtItem /\ i' = SkipEnd(ValueAt)
        /\ open' = open /\ phase' = "read"
        /\ lost' = (lost \/ (At(ValueAt) \in {"{", "["} /\ MisleadingGap))
        /\ cursor' = IF lost' THEN cursor ELSE EndOf(cursor) + 1
    BY <1>9, Zenon DEF SkipValue
  <2>2. AtItem /\ i' = SkipEnd(ValueAt)
    BY <2>1
  <2>3. i' \in Nat /\ i' > i
    BY <1>1, <1>4, <2>2
  <2>4. lost' \in BOOLEAN /\ (lost' => cursor' = cursor)
    BY <2>1, Zenon
  <2>5. cursor' \in Nat /\ open' \in Levels /\ open' # <<>>
    BY <1>1, <2>1, <2>4, Zenon
  <2>6. QED
    BY <1>2, <2>1, <2>3, <2>4, <2>5, Zenon
<1>10. CASE ReadError
  <2>1. phase' = "error" /\ i' = i /\ cursor' = cursor /\ open' = open /\ lost' = lost
    BY <1>10, Zenon DEF ReadError, reader
  <2>2. QED
    BY <1>1, <2>1 DEF ReaderTypes
<1>11. CASE ReadTop
  <2>1. phase = "sent"
    BY <1>11, Zenon DEF ReadTop
  <2>2. QED
    BY <2>1
<1>12. QED
  BY <1>3, <1>5, <1>6, <1>7, <1>8, <1>9, <1>10, <1>11, Zenon DEF ReaderStep


-----------------------------------------------------------------------------
(* What a round does where the reader has its place. *)

Given(e) == [name |-> e.name, value |-> e.value]

\* The reader has its place: behind the last event it has come to, with what
\* it has got of it.
Placed(S) ==
  /\ phase # "error"
  /\ phase = "read" => Reading(S)
  /\ phase = "done" => cursor = Len(events) + 1 /\ i = Size - 1
  /\ got # <<>> => got = Given(events[cursor - 1])

\* It comes past the k-th event.
MovesPast(S, k, value) ==
  /\ k \in 1 .. Len(events) /\ phase # "write" /\ UNCHANGED writer
  /\ phase' = IF k = Len(events) THEN "done" ELSE "read"
  /\ i' = events[k].last /\ cursor' = k + 1 /\ open' = S[k]
  /\ got' = value /\ value \in {<<>>, Given(events[k])}

LEMMA MovesIs ==
  ASSUME NEW S, Written(S), NEW k, NEW value, MovesPast(S, k, value)
  PROVE  Placed(S)' /\ cursor' \in Nat
<1>1. /\ k \in 1 .. Len(events) /\ phase # "write"
      /\ phase' = IF k = Len(events) THEN "done" ELSE "read"
      /\ i' = events[k].last /\ cursor' = k + 1 /\ open' = S[k]
      /\ got' = value /\ value \in {<<>>, Given(events[k])}
  BY Zenon DEF MovesPast
<1>2. events' = events /\ text' = text
  BY Zenon DEF MovesPast, writer
<1>3. Len(events) \in Nat /\ Len(text) \in Nat
  BY OpenIs
<1>4. k + 1 \in Nat /\ (k + 1) - 1 = k /\ (k # Len(events) => k + 1 \in 2 .. Len(events))
  BY <1>1, <1>3
<1>5. /\ S[k] # <<>> <=> k # Len(events)
      /\ k = Len(events) => Len(text) = events[k].last + 1
  BY <1>1, Followed, Zenon
<1>6. CASE k = Len(events)
  <2>1. phase' = "done"
    BY <1>1, <1>6, Zenon
  <2>2. events[k].last = Len(text) - 1
    <3>1. PICK e \in EventSet : e = events[k]
      <4>1. events \in Seq(EventSet)
        BY OpenIs
      <4>2. QED
        BY <1>1, <4>1
    <3>2. e.last \in Nat
      BY DEF EventSet
    <3>3. QED
      BY <1>3, <1>5, <1>6, <3>1, <3>2
  <2>3. cursor' = Len(events) + 1 /\ i' = Len(text) - 1
    BY <1>1, <1>6, <2>2, Zenon
  <2>4. got' # <<>> => got' = Given(events[cursor' - 1])
    BY <1>1, <1>4, Zenon
  <2>5. phase' # "error" /\ phase' # "read"
    BY <2>1
  <2>6. QED
    BY <1>1, <1>2, <1>4, <2>3, <2>4, <2>5, Zenon DEF Placed, Size, Given
<1>7. CASE k # Len(events)
  <2>1. phase' = "read"
    BY <1>1, <1>7, Zenon
  <2>2. cursor' \in 2 .. Len(events) /\ cursor' - 1 = k
    BY <1>1, <1>4, <1>7, Zenon
  <2>3. Reading(S)'
    BY <1>1, <1>2, <1>5, <1>7, <2>2, Zenon DEF Reading
  <2>4. got' # <<>> => got' = Given(events[cursor' - 1])
    BY <1>1, <2>2, Zenon
  <2>5. phase' # "error" /\ phase' # "done"
    BY <2>1
  <2>6. QED
    BY <1>1, <1>2, <1>4, <2>3, <2>4, <2>5, Zenon DEF Placed, Given
<1>8. QED
  BY <1>6, <1>7

\* What there is at the event that comes next.
Here(S, e) ==
  /\ Text /\ i \in Nat /\ cursor \in 1 .. Len(events) /\ e = events[cursor]
  /\ open \in Levels /\ open # <<>> /\ S[cursor - 1] = open
  /\ Round(e) /\ EventIs(i + 1, e, open, S[cursor])

LEMMA HereIs ==
  ASSUME NEW S, Written(S), phase = "read", Reading(S)
  PROVE  Here(S, events[cursor])
<1>1. Coming(S, events[cursor], S[cursor])
  BY NextIs, Zenon
<1>2. Round(events[cursor])
  BY <1>1, RoundIs, Zenon
<1>3. /\ Text /\ i \in Nat /\ open \in Levels /\ open # <<>>
      /\ EventIs(i + 1, events[cursor], open, S[cursor])
  BY <1>1, Zenon DEF Coming
<1>4. cursor \in 1 .. Len(events)
  <2>1. Len(events) \in Nat
    BY OpenIs
  <2>2. QED
    BY <2>1 DEF Reading
<1>5. S[cursor - 1] = open
  BY Zenon DEF Reading
<1>6. QED
  BY <1>2, <1>3, <1>4, <1>5, Zenon DEF Here

LEMMA EndMoves ==
  ASSUME NEW S, Written(S), NEW e, Here(S, e), ReadEnd
  PROVE  MovesPast(S, cursor, <<>>) /\ e.kind = "end"
<1>1. /\ AtEnd /\ i' = NextAt /\ open' = Front(open) /\ cursor' = cursor + 1 /\ got' = <<>>
      /\ phase' = (IF Len(open) = 1 THEN "done" ELSE "read") /\ UNCHANGED writer
  BY Zenon DEF ReadEnd
<1>2. /\ cursor \in 1 .. Len(events) /\ e = events[cursor] /\ open \in Levels /\ open # <<>>
      /\ Round(e) /\ EventIs(i + 1, e, open, S[cursor])
  BY Zenon DEF Here
<1>3. e.kind = "end" /\ NextAt = e.at
  BY <1>1, <1>2, Zenon DEF Round
<1>4. e.last = e.at /\ S[cursor] = Front(open)
  <2>1. e.kind # "start" /\ e.kind # "item"
    BY <1>3
  <2>2. QED
    BY <1>2, <2>1, Zenon DEF EventIs
<1>5. phase # "write"
  <2>1. phase = "read"
    BY <1>1, Zenon DEF AtEnd
  <2>2. QED
    BY <2>1
<1>6. S[cursor] # <<>> <=> cursor # Len(events)
  BY <1>2, <1>5, Followed, Zenon
<1>7. Len(open) = 1 <=> Front(open) = <<>>
  BY <1>2, LevelIs, Zenon
<1>8. phase' = IF cursor = Len(events) THEN "done" ELSE "read"
  BY <1>1, <1>4, <1>6, <1>7, Zenon
<1>9. QED
  BY <1>1, <1>2, <1>3, <1>4, <1>5, <1>8, Zenon DEF MovesPast

\* What there is at an item of a document.
StartHere(S, e) ==
  /\ e.kind = "start" /\ e.last = e.at
  /\ \E c \in Closings : At(e.at) = Opening(c) /\ S[cursor] = Append(open, c)

ItemHere(S, e) ==
  /\ e.kind = "item" /\ S[cursor] = open
  /\ \/ \E s \in Strings : e.value = Str(s) /\ StringFound(e.at, e.last, s)
     \/ \E w \in Words : e.value = Word(w) /\ WordFound(e.at, e.last, w)

ValueHere(S, e) ==
  /\ phase = "read" /\ cursor # Len(events)
  /\ ValueAt = e.at /\ KeyRead = e.name
  /\ StartHere(S, e) \/ ItemHere(S, e)

LEMMA ValueIsHere ==
  ASSUME NEW S, Written(S), NEW e, Here(S, e), AtItem
  PROVE  ValueHere(S, e)
<1>1. /\ cursor \in 1 .. Len(events) /\ e = events[cursor] /\ open \in Levels /\ open # <<>>
      /\ Round(e) /\ EventIs(i + 1, e, open, S[cursor]) /\ Text
  BY Zenon DEF Here
<1>2. phase = "read"
  BY Zenon DEF AtItem, ValueAt
<1>3. e.kind # "end" /\ ValueAt = e.at /\ KeyRead = e.name
  BY <1>1, Zenon DEF Round
<1>4. phase # "write"
  BY <1>2
<1>5. /\ S[cursor] # <<>> <=> cursor # Len(events)
      /\ cursor # Len(events) /\ e.kind = "item" =>
              e.last + 1 < Size /\ At(e.last + 1) \in Delimiters
  BY <1>1, <1>4, Followed, Zenon
<1>6. CASE e.kind = "start"
  <2>1. e.kind # "item"
    BY <1>6
  <2>2. StartHere(S, e)
    BY <1>1, <1>3, <1>6, <2>1, Zenon DEF EventIs, StartHere
  <2>3. S[cursor] # <<>>
    BY <1>1, <2>2, LevelIs, Zenon DEF StartHere
  <2>4. QED
    BY <1>2, <1>3, <1>5, <2>2, <2>3, Zenon DEF ValueHere
<1>7. CASE e.kind # "start"
  <2>1. /\ e.kind = "item" /\ S[cursor] = open
        /\ \/ \E s \in Strings : e.value = Str(s) /\ IsString(e.at, e.last, s)
           \/ \E w \in Words : e.value = Word(w) /\ IsWord(e.at, e.last, w)
        /\ e.at \in Nat /\ e.last \in Nat /\ e.at <= e.last /\ e.last < Size
    BY <1>1, <1>3, <1>7, Zenon DEF EventIs
  <2>2. cursor # Len(events) /\ e.last + 1 < Size /\ At(e.last + 1) \in Delimiters
    BY <1>1, <1>5, <2>1, Zenon
  <2>3. \/ \E s \in Strings : e.value = Str(s) /\ StringFound(e.at, e.last, s)
        \/ \E w \in Words : e.value = Word(w) /\ WordFound(e.at, e.last, w)
    BY <1>1, <2>1, <2>2, StringIs, WordIs, Zenon
  <2>4. QED
    BY <1>2, <1>3, <2>1, <2>2, <2>3, Zenon DEF ValueHere, ItemHere
<1>8. QED
  BY <1>6, <1>7


LEMMA StringMoves ==
  ASSUME NEW S, Written(S), NEW e, Here(S, e), TakeString
  PROVE  MovesPast(S, cursor, Given(e)) /\ e.kind = "item"
<1>1. /\ AtItem /\ At(ValueAt) = Quote /\ i' = StringEnd(ValueAt)
      /\ got' = [name  |-> KeyRead,
                 value |-> Str(Unescaped(SubSeq(text, ValueAt + 2, i')))]
      /\ cursor' = cursor + 1 /\ phase' = phase /\ open' = open /\ UNCHANGED writer
  BY Zenon DEF TakeString
<1>2. ValueHere(S, e)
  BY <1>1, ValueIsHere, Zenon
<1>3. /\ phase = "read" /\ cursor # Len(events) /\ ValueAt = e.at /\ KeyRead = e.name
      /\ StartHere(S, e) \/ ItemHere(S, e)
  BY <1>2, Zenon DEF ValueHere
<1>4. ItemHere(S, e)
  BY <1>1, <1>3, StartIs, Zenon DEF StartHere
<1>5. PICK s \in Strings : e.value = Str(s) /\ StringFound(e.at, e.last, s)
  BY <1>1, <1>3, <1>4, Zenon DEF ItemHere, WordFound
<1>6. StringEnd(e.at) = e.last /\ Unescaped(SubSeq(text, e.at + 2, e.last)) = s
  BY <1>5, Zenon DEF StringFound
<1>7. i' = e.last
  BY <1>1, <1>3, <1>6, Zenon
<1>8. got' = Given(e)
  BY <1>1, <1>3, <1>5, <1>6, <1>7, Zenon DEF Given
<1>9. e.kind = "item" /\ S[cursor] = open
  BY <1>4, Zenon DEF ItemHere
<1>10. cursor \in 1 .. Len(events) /\ e = events[cursor]
  BY Zenon DEF Here
<1>11. phase # "write"
  BY <1>3
<1>12. QED
  BY <1>1, <1>3, <1>7, <1>8, <1>9, <1>10, <1>11, Zenon DEF MovesPast

LEMMA WordMoves ==
  ASSUME NEW S, Written(S), NEW e, Here(S, e), TakeWord \/ TakeNull
  PROVE  MovesPast(S, cursor, Given(e)) /\ e.kind = "item"
<1>1. /\ AtItem
      /\ \/ /\ WordAt(ValueAt) /\ i' = WordEnd(ValueAt)
            /\ got' = [name |-> KeyRead, value |-> Word(WordRead(ValueAt))]
         \/ /\ IsNull(ValueAt) /\ i' = SkipEnd(ValueAt)
            /\ got' = [name |-> KeyRead, value |-> Word(<<"null">>)]
      /\ cursor' = cursor + 1 /\ phase' = phase /\ open' = open /\ UNCHANGED writer
  BY Zenon DEF TakeWord, TakeNull
<1>2. ValueHere(S, e)
  BY <1>1, ValueIsHere, Zenon
<1>3. /\ phase = "read" /\ cursor # Len(events) /\ ValueAt = e.at /\ KeyRead = e.name
      /\ StartHere(S, e) \/ ItemHere(S, e)
  BY <1>2, Zenon DEF ValueHere
<1>4. ItemHere(S, e)
  <2>1. ASSUME NEW c \in Closings, At(e.at) = Opening(c)
        PROVE  ~ WordAt(e.at) /\ ~ IsNull(e.at)
    BY <2>1, StartIs, Zenon
  <2>2. QED
    BY <1>1, <1>3, <2>1, Zenon DEF StartHere
<1>5. PICK w \in Words : e.value = Word(w) /\ WordFound(e.at, e.last, w)
  BY <1>1, <1>3, <1>4, Zenon DEF ItemHere, StringFound
<1>6. /\ IsNull(e.at) => w = <<"null">>
      /\ WordEnd(e.at) = e.last /\ SkipEnd(e.at) = e.last /\ WordRead(e.at) = w
  BY <1>5, Zenon DEF WordFound
<1>7. i' = e.last
  BY <1>1, <1>3, <1>6, Zenon
<1>8. got' = Given(e)
  BY <1>1, <1>3, <1>5, <1>6, Zenon DEF Given
<1>9. e.kind = "item" /\ S[cursor] = open
  BY <1>4, Zenon DEF ItemHere
<1>10. cursor \in 1 .. Len(events) /\ e = events[cursor]
  BY Zenon DEF Here
<1>11. phase # "write"
  BY <1>3
<1>12. QED
  BY <1>1, <1>3, <1>7, <1>8, <1>9, <1>10, <1>11, Zenon DEF MovesPast

LEMMA DocumentMoves ==
  ASSUME NEW S, Written(S), NEW e, Here(S, e), TakeDocument
  PROVE  MovesPast(S, cursor, <<>>) /\ e.kind = "start"
<1>1. /\ AtItem /\ i' = ValueAt /\ At(i') \in {"{", "["} /\ got' = <<>>
      /\ open' = Append(open, IF At(i') = "{" THEN "}" ELSE "]")
      /\ cursor' = cursor + 1 /\ phase' = phase /\ UNCHANGED writer
  BY Zenon DEF TakeDocument
<1>2. ValueHere(S, e)
  BY <1>1, ValueIsHere, Zenon
<1>3. /\ phase = "read" /\ cursor # Len(events) /\ ValueAt = e.at
      /\ StartHere(S, e) \/ ItemHere(S, e)
  BY <1>2, Zenon DEF ValueHere
<1>4. StartHere(S, e)
  <2>1. At(e.at) \in {"{", "["}
    BY <1>1, <1>3, Zenon
  <2>2. QED
    BY <1>3, <2>1, Zenon DEF ItemHere, StringFound, WordFound
<1>5. PICK c \in Closings : At(e.at) = Opening(c) /\ S[cursor] = Append(open, c)
  BY <1>4, Zenon DEF StartHere
<1>6. (IF At(e.at) = "{" THEN "}" ELSE "]") = c
  BY <1>5, StartIs, Zenon
<1>7. open' = S[cursor] /\ i' = e.last /\ e.kind = "start"
  BY <1>1, <1>3, <1>4, <1>5, <1>6, Zenon DEF StartHere
<1>8. cursor \in 1 .. Len(events) /\ e = events[cursor]
  BY Zenon DEF Here
<1>9. phase # "write"
  BY <1>3
<1>10. QED
  BY <1>1, <1>3, <1>7, <1>8, <1>9, Zenon DEF MovesPast

\* A value is skipped as a whole.
LEMMA SkipMoves ==
  ASSUME NEW S, Written(S), NEW e, Here(S, e), SkipValue, ~ lost'
  PROVE  /\ MovesPast(S, EndOf(cursor), <<>>) /\ e.kind # "end"
         /\ e.kind = "start" => ~ MisleadingGap
<1>1. /\ AtItem /\ i' = SkipEnd(ValueAt) /\ got' = <<>>
      /\ lost' = (lost \/ (At(ValueAt) \in {"{", "["} /\ MisleadingGap))
      /\ cursor' = (IF lost' THEN cursor ELSE EndOf(cursor) + 1)
      /\ open' = open /\ phase' = phase /\ UNCHANGED writer
  BY Zenon DEF SkipValue
<1>2. ValueHere(S, e)
  BY <1>1, ValueIsHere, Zenon
<1>3. /\ phase = "read" /\ cursor # Len(events) /\ ValueAt = e.at
      /\ StartHere(S, e) \/ ItemHere(S, e)
  BY <1>2, Zenon DEF ValueHere
<1>4. cursor' = EndOf(cursor) + 1
  BY <1>1, Zenon
<1>5. cursor \in 1 .. Len(events) /\ e = events[cursor] /\ S[cursor - 1] = open /\ open # <<>>
  BY Zenon DEF Here
<1>6. phase # "write"
  BY <1>3
<1>7. CASE ItemHere(S, e)
  <2>1. e.kind = "item" /\ S[cursor] = open /\ SkipEnd(e.at) = e.last
    BY <1>7, Zenon DEF ItemHere, StringFound, WordFound
  <2>2. EndOf(cursor) = cursor
    BY <1>5, <2>1, Zenon DEF EndOf
  <2>3. e.kind # "end" /\ e.kind # "start"
    BY <2>1
  <2>4. MovesPast(S, cursor, <<>>)
    BY <1>1, <1>3, <1>4, <1>5, <1>6, <2>1, <2>2, Zenon DEF MovesPast
  <2>5. QED
    BY <2>2, <2>3, <2>4, Zenon
<1>8. CASE StartHere(S, e)
  <2>1. PICK c \in Closings : At(e.at) = Opening(c)
    BY <1>8, Zenon DEF StartHere
  <2>2. At(e.at) \in {"{", "["} /\ SkipEnd(e.at) = DocumentEnd(e.at, c)
    BY <2>1, StartIs, Zenon
  <2>3. ~ MisleadingGap
    BY <1>1, <1>3, <2>2, Zenon
  <2>4. events[cursor].kind = "start"
    BY <1>5, <1>8, Zenon DEF StartHere
  <2>5. Encloses(S, cursor, EndOf(cursor))
    BY <1>5, <1>6, <2>4, EndOfIs, Zenon
  <2>6. PICK E : E = EndOf(cursor) /\ Encloses(S, cursor, E)
    BY <2>5
  <2>7. E \in cursor + 1 .. Len(events) /\ events[E].kind = "end" /\ S[E] = open
    BY <1>5, <2>6, Zenon DEF Encloses
  <2>8. E \in 1 .. Len(events)
    <3>1. Len(events) \in Nat
      BY OpenIs
    <3>2. QED
      BY <1>5, <2>7, <3>1
  <2>9. DocumentEnd(e.at, c) = events[E].at
    BY <1>5, <1>6, <2>1, <2>3, <2>4, <2>6, DocumentIs, Zenon
  <2>10. events[E].last = events[E].at
    <3>1. LayoutOf(text, events, MisleadingGap, S)
      BY Zenon DEF Written
    <3>2. PICK a, before, after : a \in Nat /\ Text /\ Laid(text, MisleadingGap, a, events[E], before, after)
      BY <2>8, <3>1, LayoutIs, Zenon
    <3>3. EventIs(a, events[E], before, after)
      BY <3>2, LaidIs, Zenon
    <3>4. events[E].kind # "start" /\ events[E].kind # "item"
      BY <2>7
    <3>5. QED
      BY <3>3, <3>4, Zenon DEF EventIs
  <2>11. E # Len(events)
    BY <1>5, <1>6, <2>7, <2>8, Followed, Zenon
  <2>12. i' = events[E].last /\ open' = S[E] /\ cursor' = E + 1
    BY <1>1, <1>3, <1>4, <2>2, <2>6, <2>7, <2>9, <2>10, Zenon
  <2>13. MovesPast(S, E, <<>>)
    BY <1>1, <1>3, <1>6, <2>8, <2>11, <2>12, Zenon DEF MovesPast
  <2>14. e.kind # "end"
    BY <1>5, <2>4
  <2>15. QED
    BY <2>3, <2>6, <2>13, <2>14, Zenon
<1>9. QED
  BY <1>3, <1>7, <1>8

\* No error is thrown.
LEMMA NoError ==
  ASSUME NEW S, Written(S), phase = "read" => Reading(S), ReadError
  PROVE  FALSE
<1>1. phase \in {"sent", "read"}
  BY DEF ReadError, AtItem, ValueAt
<1>2. CASE phase = "sent"
  <2>1. phase # "write" /\ phase # "read"
    BY <1>2
  <2>2. Validate
    BY <2>1, WrittenIsBalanced, Zenon
  <2>3. ~ AtItem
    BY <2>1, Zenon DEF AtItem, ValueAt
  <2>4. QED
    BY <2>1, <2>2, <2>3, Zenon DEF ReadError
<1>3. CASE phase = "read"
  <2>1. PICK e : e = events[cursor]
    BY Zenon
  <2>2. Here(S, e)
    BY <1>3, <2>1, HereIs, Zenon
  <2>3. AtEnd \/ AtItem
    BY <2>2, Zenon DEF Here, Round
  <2>4. phase # "sent"
    BY <1>3
  <2>5. AtItem /\ (At(ValueAt) = "}" \/ (WordAt(ValueAt) /\ WordRead(ValueAt) \notin Words))
    BY <2>3, <2>4, Zenon DEF ReadError
  <2>6. ValueHere(S, e)
    BY <2>2, <2>5, ValueIsHere, Zenon
  <2>7. ASSUME NEW c \in Closings, At(e.at) = Opening(c)
        PROVE  ~ WordAt(e.at) /\ At(e.at) # "}"
    BY <2>7, StartIs, Zenon
  <2>8. ~ StartHere(S, e)
    BY <2>5, <2>6, <2>7, Zenon DEF StartHere, ValueHere
  <2>9. ItemHere(S, e)
    BY <2>6, <2>8, Zenon DEF ValueHere
  <2>10. QED
    BY <2>5, <2>6, <2>9, Zenon DEF ItemHere, ValueHere, StringFound, WordFound
<1>4. QED
  BY <1>1, <1>2, <1>3

\* Nothing has been read.
Unread == i = 0 /\ cursor = 1 /\ open = <<>> /\ got = <<>> /\ ~ lost

LEMMA TopMoves ==
  ASSUME NEW S, Written(S), Unread, ReadTop
  PROVE  MovesPast(S, 1, <<>>) /\ phase' = "read" /\ open' \in Levels /\ open' # <<>>
<1>1. /\ phase = "sent" /\ phase' = "read" /\ i' = SkipWhitespace(0)
      /\ open' = <<IF At(i') = "{" THEN "}" ELSE "]">> /\ cursor' = 2
      /\ UNCHANGED writer /\ got' = got
  BY Zenon DEF ReadTop
<1>2. phase # "write"
  BY <1>1
<1>3. 1 \in 1 .. Len(events)
  <2>1. events \in Seq(EventSet) /\ Len(events) \in Nat
    BY OpenIs
  <2>2. events # <<>>
    BY <1>2, Zenon DEF Written
  <2>3. QED
    BY <2>1, <2>2
<1>4. LayoutOf(text, events, MisleadingGap, S)
  BY Zenon DEF Written
<1>5. PICK e : e = events[1]
  BY Zenon
<1>6. /\ Text /\ 1 - 1 = 0 /\ S[0] = <<>> /\ Start(events, 1) = 0 /\ 0 \in Nat
      /\ Laid(text, MisleadingGap, 0, e, <<>>, S[1]) /\ S[0] \in Levels
  <2>1. S[0] = <<>>
    BY <1>4, Zenon DEF LayoutOf
  <2>2. Start(events, 1) = 0
    BY DEF Start
  <2>3. 1 - 1 = 0 /\ 0 \in Nat
    OBVIOUS
  <2>4. /\ Text /\ S[1 - 1] \in Levels
        /\ Laid(text, MisleadingGap, Start(events, 1), events[1], S[1 - 1], S[1])
    BY <1>3, <1>4, LayoutIs, Zenon
  <2>5. QED
    BY <1>5, <2>1, <2>2, <2>3, <2>4, Zenon
<1>7. EventIs(0, e, <<>>, S[1]) /\ <<>> \in Levels
  BY <1>6, LaidIs, Zenon
<1>8. PICK at \in Nat : at = e.at /\ at < Size
  BY <1>7, Zenon DEF EventIs
<1>9. Between(text, MisleadingGap, 0, at) /\ At(at) \notin Whitespace /\ At(at) # "/"
  BY <1>6, <1>7, <1>8, FirstSymbol, Zenon DEF Laid, LedBy
<1>10. i' = at
  BY <1>1, <1>6, <1>8, <1>9, StopsBefore, Zenon
<1>11. PICK c \in Closings : At(at) = Opening(c) /\ S[1] = Append(<<>>, c) /\ e.last = e.at
  BY <1>7, <1>8, Zenon DEF EventIs
<1>12. (IF At(at) = "{" THEN "}" ELSE "]") = c
  BY <1>11, StartIs, Zenon
<1>13. Append(<<>>, c) = <<c>>
  OBVIOUS
<1>14. open' = S[1] /\ i' = e.last
  BY <1>1, <1>8, <1>10, <1>11, <1>12, <1>13, Zenon
<1>15. S[1] \in Levels /\ S[1] # <<>>
  BY <1>7, <1>11, LevelIs, Zenon
<1>16. 1 # Len(events)
  BY <1>2, <1>3, <1>15, Followed, Zenon
<1>17. cursor' = 1 + 1 /\ got' = <<>>
  <2>1. 1 + 1 = 2
    OBVIOUS
  <2>2. QED
    BY <1>1, <2>1, Zenon DEF Unread
<1>18. QED
  BY <1>1, <1>2, <1>3, <1>5, <1>14, <1>15, <1>16, <1>17, Zenon DEF MovesPast


-----------------------------------------------------------------------------
(* The invariant of the reader. *)

Reads(S) ==
  /\ Written(S) /\ ReaderTypes
  /\ phase \in {"write", "sent"} => Unread
  /\ ~ lost => Placed(S)

IInv == \E S : Reads(S)

LEMMA InitReads == Init => IInv
<1> SUFFICES ASSUME Init
             PROVE  IInv
  OBVIOUS
<1>1. PICK S : Written(S)
  BY InitWritten, Zenon
<1>2. /\ phase = "write" /\ i = 0 /\ open = <<>> /\ cursor = 1 /\ got = <<>> /\ lost = FALSE
  BY DEF Init
<1>3. Unread
  BY <1>2, Zenon DEF Unread
<1>4. <<>> \in Levels
  BY LevelsAre
<1>5. ReaderTypes
  BY <1>2, <1>4 DEF ReaderTypes
<1>6. phase # "error" /\ phase # "read" /\ phase # "done"
  BY <1>2
<1>7. Placed(S)
  BY <1>2, <1>6, Zenon DEF Placed
<1>8. QED
  BY <1>1, <1>3, <1>5, <1>7, Zenon DEF Reads, IInv

\* A round that does not lose the place comes past an event.
LEMMA RoundMoves ==
  ASSUME NEW S, Written(S), phase = "read", Reading(S), ReaderStep, ~ lost'
  PROVE  \E k, value : MovesPast(S, k, value)
<1>1. PICK e : e = events[cursor]
  BY Zenon
<1>2. Here(S, e)
  BY <1>1, HereIs, Zenon
<1>3. ~ ReadTop
  <2>1. phase # "sent"
    OBVIOUS
  <2>2. QED
    BY <2>1, Zenon DEF ReadTop
<1>4. ~ ReadError
  BY NoError, Zenon
<1>5. QED
  BY <1>2, <1>3, <1>4, EndMoves, StringMoves, WordMoves, DocumentMoves, SkipMoves, Zenon
     DEF ReaderStep

\* The actions that leave the reader alone.
LEMMA ReaderKept ==
  ASSUME NEW S, Reads(S), UNCHANGED reader, NEW T, Written(T)',
         phase \in {"write", "sent"}, phase' \in {"write", "sent"}
  PROVE  Reads(T)'
<1>1. Unread /\ ReaderTypes
  BY Zenon DEF Reads
<1>2. i' = i /\ open' = open /\ cursor' = cursor /\ got' = got /\ lost' = lost
  BY DEF reader
<1>3. Unread'
  BY <1>1, <1>2, Zenon DEF Unread
<1>4. phase' # "read" /\ phase' # "done" /\ phase' # "error"
  OBVIOUS
<1>5. ReaderTypes'
  BY <1>1, <1>2, <1>4 DEF ReaderTypes
<1>6. Placed(T)'
  BY <1>3, <1>4, Zenon DEF Placed, Unread
<1>7. QED
  BY <1>3, <1>5, <1>6, Zenon DEF Reads

LEMMA ReaderReads ==
  ASSUME NEW S, Reads(S), ReaderStep
  PROVE  Reads(S)'
<1>1. Written(S) /\ ReaderTypes
  BY Zenon DEF Reads
<1>2. UNCHANGED writer /\ phase # "write"
  BY ReadersPhase, Zenon
<1>3. Written(S)'
  <2>1. events # <<>> /\ loops = <<>>
    BY <1>1, <1>2, Zenon DEF Written
  <2>2. QED
    BY <1>1, <1>2, <2>1, KeepWritten, Zenon
<1>4. phase \in {"sent", "read"}
  BY DEF ReaderStep, ReadTop, ReadEnd, TakeString, TakeWord, TakeNull, TakeDocument,
     SkipValue, ReadError, AtEnd, AtItem, ValueAt
<1>5. CASE phase = "sent"
  <2>1. Unread
    BY <1>5, Zenon DEF Reads
  <2>2. phase # "read"
    BY <1>5
  <2>3. ~ AtEnd /\ ~ AtItem
    BY <2>2, Zenon DEF AtEnd, AtItem, ValueAt
  <2>4. ~ ReadError
    BY <1>1, <2>2, NoError, Zenon
  <2>5. ReadTop
    BY <2>3, <2>4, Zenon DEF ReaderStep, ReadEnd, TakeString, TakeWord, TakeNull, TakeDocument,
       SkipValue
  <2>6. /\ MovesPast(S, 1, <<>>) /\ phase' = "read" /\ open' \in Levels /\ open' # <<>>
    BY <1>1, <2>1, <2>5, TopMoves, Zenon
  <2>7. Placed(S)' /\ cursor' \in Nat
    BY <1>1, <2>6, MovesIs, Zenon
  <2>8. lost' = lost /\ i' = SkipWhitespace(0)
    BY <2>5, Zenon DEF ReadTop
  <2>9. i' \in Nat
    <3>1. 1 \in 1 .. Len(events) /\ i' = events[1].last
      BY <2>6, Zenon DEF MovesPast
    <3>2. events \in Seq(EventSet)
      BY <1>1, OpenIs, Zenon
    <3>3. PICK e \in EventSet : e = events[1]
      BY <3>1, <3>2
    <3>4. e.last \in Nat
      BY DEF EventSet
    <3>5. QED
      BY <3>1, <3>3, <3>4, Zenon
  <2>10. ReaderTypes'
    BY <1>1, <2>6, <2>7, <2>8, <2>9 DEF ReaderTypes
  <2>11. phase' \notin {"write", "sent"}
    BY <2>6
  <2>12. QED
    BY <1>3, <2>7, <2>10, <2>11, Zenon DEF Reads
<1>6. CASE phase = "read"
  <2>1. Text
    BY <1>1, <1>2, WrittenIsBalanced, Zenon
  <2>2. ~ lost => Placed(S)
    BY Zenon DEF Reads
  <2>3. lost => lost'
    BY DEF ReaderStep, ReadTop, ReadEnd, TakeString, TakeWord, TakeNull, TakeDocument,
       SkipValue, ReadError, reader
  <2>4. ~ lost' => Placed(S)' /\ cursor' \in Nat
    <3>1. SUFFICES ASSUME ~ lost'
                   PROVE  Placed(S)' /\ cursor' \in Nat
      OBVIOUS
    <3>2. Reading(S)
      BY <1>6, <2>2, <2>3, <3>1, Zenon DEF Placed
    <3>3. PICK k, value : MovesPast(S, k, value)
      BY <1>1, <1>6, <3>1, <3>2, RoundMoves, Zenon
    <3>4. QED
      BY <1>1, <3>3, MovesIs, Zenon
  <2>5. ReaderTypes' /\ phase' \in {"read", "done", "error"}
    BY <1>1, <1>6, <2>1, <2>4, RoundTypes, Zenon
  <2>6. phase' \notin {"write", "sent"}
    BY <2>5
  <2>7. QED
    BY <1>3, <2>4, <2>5, <2>6, Zenon DEF Reads
<1>7. QED
  BY <1>4, <1>5, <1>6

LEMMA StepReads == IInv /\ [Next]_vars => IInv'
<1> SUFFICES ASSUME IInv, [Next]_vars
             PROVE  IInv'
  OBVIOUS
<1>1. PICK S : Reads(S)
  BY Zenon DEF IInv
<1>2. Written(S)
  BY <1>1, Zenon DEF Reads
<1>3. CASE WriteTop \/ WriteDocument \/ WriteItem \/ WriteEnd \/ Deliver
  <2>1. PICK T : Written(T)'
    BY <1>2, StepWritten, Zenon
  <2>2. UNCHANGED reader
    BY <1>3, Zenon DEF WriteTop, WriteDocument, WriteItem, WriteEnd, WriterStep, Deliver
  <2>3. phase = "write" /\ (phase' = phase \/ phase' = "sent")
    BY <1>3, Zenon DEF WriteTop, WriteDocument, WriteItem, WriteEnd, WriterStep, Deliver
  <2>4. phase \in {"write", "sent"} /\ phase' \in {"write", "sent"}
    BY <2>3
  <2>5. Reads(T)'
    BY <1>1, <2>1, <2>2, <2>4, ReaderKept, Zenon
  <2>6. QED
    BY <2>5, Zenon DEF IInv
<1>4. CASE ReaderStep
  BY <1>1, <1>4, ReaderReads, Zenon DEF IInv
<1>5. CASE UNCHANGED vars
  <2>1. phase' = phase /\ UNCHANGED writer /\ UNCHANGED reader
    BY <1>5 DEF vars
  <2>2. /\ style' = style /\ text' = text /\ loops' = loops /\ events' = events
        /\ i' = i /\ open' = open /\ cursor' = cursor /\ got' = got /\ lost' = lost
    BY <2>1 DEF writer, reader
  <2>3. Written(S)'
    <3>1. phase' # "write" => events # <<>> /\ loops = <<>>
      BY <1>2, <2>1, Zenon DEF Written
    <3>2. QED
      BY <1>2, <2>1, <3>1, KeepWritten, Zenon
  <2>4. ReaderTypes /\ (phase \in {"write", "sent"} => Unread) /\ (~ lost => Placed(S))
    BY <1>1, Zenon DEF Reads
  <2>5. ReaderTypes'
    BY <2>1, <2>2, <2>4, Zenon DEF ReaderTypes
  <2>6. phase' \in {"write", "sent"} => Unread'
    BY <2>1, <2>2, <2>4, Zenon DEF Unread
  <2>7. ~ lost' => Placed(S)'
    BY <2>1, <2>2, <2>4, Zenon DEF Placed, Reading, Size, Given
  <2>8. QED
    BY <2>3, <2>5, <2>6, <2>7, Zenon DEF Reads, IInv
<1>6. QED
  BY <1>3, <1>4, <1>5, Zenon DEF Next, ReaderStep

LEMMA Invariant == Spec => []IInv
<1>1. QED
  BY InitReads, StepReads, PTL DEF Spec

\* What the invariant says of the properties.
LEMMA InvariantIsEnough == IInv => TypeOK /\ InStep /\ NoFalseError
<1> SUFFICES ASSUME IInv
             PROVE  TypeOK /\ InStep /\ NoFalseError
  OBVIOUS
<1>1. PICK S : Reads(S)
  BY Zenon DEF IInv
<1>2. /\ Written(S) /\ ReaderTypes
      /\ phase \in {"write", "sent"} => Unread
      /\ ~ lost => Placed(S)
  BY <1>1, Zenon DEF Reads
<1>3. /\ phase \in {"write", "sent", "read", "done", "error"}
      /\ i \in Nat /\ cursor \in Nat /\ open \in Levels /\ lost \in BOOLEAN
      /\ phase = "read" => open # <<>>
  BY <1>2, Zenon DEF ReaderTypes
<1>4. style \in Styles /\ loops \in Seq(LoopSet)
  BY <1>2, Zenon DEF Written
<1>5. \A k \in DOMAIN loops : loops[k].close \in {"}", "]"} /\ loops[k].items \in Nat
  <2>1. \A k \in DOMAIN loops : loops[k] \in LoopSet
    BY <1>4
  <2>2. \A l \in LoopSet : l.close \in {"}", "]"} /\ l.items \in Nat
    BY DEF LoopSet, Closings
  <2>3. QED
    BY <2>1, <2>2, Zenon
<1>6. \A k \in DOMAIN open : open[k] \in {"}", "]"}
  <2>1. PICK s \in Seq(Closings) : s = open
    BY <1>3, LevelsAre, Zenon
  <2>2. \A k \in DOMAIN s : s[k] \in Closings
    OBVIOUS
  <2>3. QED
    BY <2>1, <2>2, Zenon DEF Closings
<1>7. Size \in Nat /\ Len(events) \in Nat /\ events \in Seq(EventSet)
  BY <1>2, OpenIs, Zenon DEF Size
<1>8. ~ lost => i <= Size
  <2>1. SUFFICES ASSUME ~ lost
                 PROVE  i <= Size
    OBVIOUS
  <2>2. CASE phase \in {"write", "sent"}
    BY <1>2, <1>7, <2>2 DEF Unread
  <2>3. CASE phase = "read"
    <3>1. Reading(S)
      BY <1>2, <2>1, <2>3, Zenon DEF Placed
    <3>2. Coming(S, events[cursor], S[cursor])
      BY <1>2, <3>1, NextIs, Zenon
    <3>3. /\ EventIs(i + 1, events[cursor], open, S[cursor])
      BY <3>2, Zenon DEF Coming
    <3>4. PICK at \in Nat : at = events[cursor].at /\ at < Size /\ i + 1 <= at
      BY <3>3, Zenon DEF EventIs
    <3>5. QED
      BY <1>3, <1>7, <3>4
  <2>4. CASE phase = "done"
    <3>1. i = Size - 1
      BY <1>2, <2>1, <2>4, Zenon DEF Placed
    <3>2. QED
      BY <1>7, <3>1
  <2>5. CASE phase = "error"
    BY <1>2, <2>1, <2>5, Zenon DEF Placed
  <2>6. QED
    BY <1>3, <2>2, <2>3, <2>4, <2>5
<1>9. TypeOK
  BY <1>3, <1>4, <1>5, <1>6, <1>8, Zenon DEF TypeOK
<1>10. InStep
  BY <1>2, Zenon DEF InStep, Placed, Reading, Given
<1>11. NoFalseError
  BY <1>2, Zenon DEF NoFalseError, Placed
<1>12. QED
  BY <1>9, <1>10, <1>11


\* A round of the reader goes on, or ends it.
LEMMA StepAdvances ==
  IInv /\ [Next]_vars => [phase = "read" /\ phase' = "read" => i' > i]_vars
<1> SUFFICES ASSUME IInv, Next, phase = "read", phase' = "read"
             PROVE  i' > i
  OBVIOUS
<1>1. PICK S : Reads(S)
  BY Zenon DEF IInv
<1>2. Written(S) /\ ReaderTypes
  BY <1>1, Zenon DEF Reads
<1>3. phase # "write"
  OBVIOUS
<1>4. ReaderStep
  BY <1>3, Zenon DEF Next, ReaderStep, WriteTop, WriteDocument, WriteItem, WriteEnd, WriterStep,
     Deliver
<1>5. Text
  BY <1>2, <1>3, WrittenIsBalanced, Zenon
<1>6. cursor' \in Nat
  <2>1. Reads(S)'
    BY <1>1, <1>4, ReaderReads, Zenon
  <2>2. QED
    BY <2>1, Zenon DEF Reads, ReaderTypes
<1>7. QED
  BY <1>2, <1>4, <1>5, <1>6, RoundTypes

-----------------------------------------------------------------------------
(* What holds of every behaviour. *)

(***************************************************************************)
(* The positions and the stacks are what json.hpp and the callers' loops   *)
(* keep in them: the reader is in the text as long as it has its place, a  *)
(* loop that goes on has a document open (json.hpp:48-196).                *)
(***************************************************************************)
THEOREM TypesKept == Spec => []TypeOK
BY Invariant, InvariantIsEnough, PTL

(***************************************************************************)
(* The reader stays in step with the writer, for every set of keys, of     *)
(* contents, of words and of layouts that json.hpp can read back: after    *)
(* each round it is at the last symbol of the value it has taken or        *)
(* skipped, and what it takes is what was written, its escapes undone      *)
(* (json.hpp:48-67, 137-196, 250-287, 308-441).                            *)
(***************************************************************************)
THEOREM ReaderInStep == Spec => []InStep
BY Invariant, InvariantIsEnough, PTL

(***************************************************************************)
(* Whatever is written is accepted: neither validate (json.hpp:74-119) nor *)
(* the reader's loops throw anything for it, however it is laid out and    *)
(* commented, as long as skip() has not lost its place.                    *)
(***************************************************************************)
THEOREM NothingRefused == Spec => []NoFalseError
BY Invariant, InvariantIsEnough, PTL

(***************************************************************************)
(* Each round takes the reader (json.hpp:48-67, 308-441) further into the  *)
(* text, also after skip() has lost its place: no loop turns on the spot.  *)
(***************************************************************************)
THEOREM RoundsAdvance == Spec => ReaderAdvances
BY Invariant, StepAdvances, PTL DEF Spec, ReaderAdvances


-----------------------------------------------------------------------------
(***************************************************************************)
(* JsonCodec implements CodecContract.  First the contract's variables, as *)
(* the instance maps them.                                                 *)
(***************************************************************************)

Stage ==
  CASE lost -> "lost"
    [] ~ lost /\ phase = "error" -> "failed"
    [] OTHER -> phase

Sent   == [k \in DOMAIN events |-> TokenOf(events[k])]
Passed == IF lost THEN 0 ELSE cursor - 1
Taken  == IF lost THEN <<>> ELSE got

\* A stage while the reader has its place.
LEMMA StageIs ==
  /\ lost => Stage = "lost"
  /\ ~ lost /\ phase \in {"write", "sent", "read", "done"} => Stage = phase
BY DEF Stage

\* The contract's actions, said of the mapped variables.
LEMMA WriteMaps ==
  ASSUME Stage = "write", NEW token \in Tokens,
         IF Sent = <<>> THEN token.kind = "start" ELSE Contract!Open(Sent) > 0,
         Sent' = Append(Sent, token),
         Stage' = Stage, Passed' = Passed, Taken' = Taken
  PROVE  Contract!Write
BY Zenon DEF Contract!Write, Stage, Sent, Passed, Taken

LEMMA SendMaps ==
  ASSUME Stage = "write", Sent # <<>>, Contract!Open(Sent) = 0, Stage' = "sent",
         Sent' = Sent, Passed' = Passed, Taken' = Taken
  PROVE  Contract!Send
BY Zenon DEF Contract!Send, Stage, Sent, Passed, Taken

LEMMA BeginMaps ==
  ASSUME Stage = "sent", Stage' = "read", Passed' = 1, Sent' = Sent, Taken' = Taken
  PROVE  Contract!Begin
BY Zenon DEF Contract!Begin, Stage, Sent, Passed, Taken

\* What each round of the reader leaves as it is.
Kept == Stage = "read" /\ Sent' = Sent

LEMMA EnterMaps ==
  ASSUME Kept, Sent[Passed + 1].kind = "start",
         Passed' = Passed + 1, Taken' = <<>>, Stage' = Stage
  PROVE  Contract!Enter
BY Zenon DEF Kept, Contract!Enter, Contract!Reading, Contract!Coming,
   Contract!Nothing, Stage, Sent, Passed, Taken

LEMMA TakeMaps ==
  ASSUME Kept, Sent[Passed + 1].kind = "item", Passed' = Passed + 1,
         Taken' = [name  |-> Sent[Passed + 1].name, value |-> Sent[Passed + 1].value],
         Stage' = Stage
  PROVE  Contract!Take
BY Zenon DEF Kept, Contract!Take, Contract!Reading, Contract!Coming,
   Stage, Sent, Passed, Taken

LEMMA SkipMaps ==
  ASSUME Kept, Sent[Passed + 1].kind # "end", ~ Sent[Passed + 1].fragile,
         Passed' = Contract!EndOf(Passed + 1), Taken' = <<>>, Stage' = Stage
  PROVE  Contract!Skip
BY Zenon DEF Kept, Contract!Skip, Contract!Reading, Contract!Coming,
   Contract!Nothing, Stage, Sent, Passed, Taken

LEMMA EndMaps ==
  ASSUME Kept, Sent[Passed + 1].kind = "end", Passed' = Passed + 1, Taken' = <<>>,
         Stage' = IF Passed + 1 = Len(Sent) THEN "done" ELSE "read"
  PROVE  Contract!End
BY Zenon DEF Kept, Contract!End, Contract!Reading, Contract!Coming,
   Contract!Nothing, Stage, Sent, Passed, Taken

LEMMA LoseMaps ==
  ASSUME Kept, Sent[Passed + 1].fragile, Stage' = "lost", Passed' = 0, Taken' = <<>>
  PROVE  Contract!Lose
<1>1. Stage \in {"sent", "read"}
  BY DEF Kept
<1>2. QED
  BY <1>1, Zenon DEF Kept, Contract!Lose, Contract!Coming, Contract!Nothing,
     Stage, Sent, Passed, Taken

LEMMA StutterMaps ==
  ASSUME Stage' = Stage, Sent' = Sent, Passed' = Passed, Taken' = Taken
  PROVE  UNCHANGED Contract!vars
BY Zenon DEF Contract!vars, Stage, Sent, Passed, Taken

-----------------------------------------------------------------------------
(* How many documents a sequence of tokens leaves open. *)

\* The contract counts as JsonCodec does.
LEMMA SameCardinality ==
  ASSUME NEW S
  PROVE  Contract!Cardinality(S) = Cardinality(S)
BY Zenon DEF Cardinality, Contract!Cardinality

LEMMA CountGrows ==
  ASSUME NEW s, NEW t, NEW kind, NEW n \in Nat,
         DOMAIN s = 1 .. n, DOMAIN t = 1 .. n + 1,
         \A k \in 1 .. n : t[k] = s[k]
  PROVE  /\ Contract!CountOf(s, kind) \in Nat
         /\ Contract!CountOf(t, kind) =
              Contract!CountOf(s, kind) + (IF t[n + 1].kind = kind THEN 1 ELSE 0)
<1> DEFINE A == {k \in DOMAIN s : s[k].kind = kind}
           B == {k \in DOMAIN t : t[k].kind = kind}
<1>1. IsFiniteSet(A)
  <2>1. IsFiniteSet(1 .. n)
    <3>1. 1 \in Int /\ n \in Int
      OBVIOUS
    <3>2. QED
      BY <3>1, FS_Interval, Zenon
  <2>2. A \subseteq 1 .. n
    OBVIOUS
  <2>3. QED
    BY <2>1, <2>2, FS_Subset
<1>2. Cardinality(A) \in Nat
  BY <1>1, FS_CardinalityType
<1>3. CASE t[n + 1].kind = kind
  <2>1. B = A \union {n + 1} /\ n + 1 \notin A
    BY <1>3
  <2>2. Cardinality(B) = Cardinality(A) + 1
    BY <1>1, <2>1, FS_AddElement
  <2>3. QED
    BY <1>2, <1>3, <2>2, SameCardinality DEF Contract!CountOf
<1>4. CASE t[n + 1].kind # kind
  <2>1. B = A
    BY <1>4
  <2>2. QED
    BY <1>2, <1>4, <2>1, SameCardinality DEF Contract!CountOf
<1>5. QED
  BY <1>3, <1>4

\* One token more opens a document, closes one, or does neither.
LEMMA OpenGrows ==
  ASSUME NEW s, NEW t, NEW n \in Nat,
         DOMAIN s = 1 .. n, DOMAIN t = 1 .. n + 1,
         \A k \in 1 .. n : t[k] = s[k]
  PROVE  /\ Contract!Open(s) \in Int
         /\ n = 0 => Contract!Open(s) = 0
         /\ t[n + 1].kind = "start" => Contract!Open(t) = Contract!Open(s) + 1
         /\ t[n + 1].kind = "end"   => Contract!Open(t) = Contract!Open(s) - 1
         /\ t[n + 1].kind = "item"  => Contract!Open(t) = Contract!Open(s)
<1>1. PICK a \in Nat, b \in Nat :
        a = Contract!CountOf(s, "start") /\ b = Contract!CountOf(s, "end")
  <2>1. \A kind : Contract!CountOf(s, kind) \in Nat
    BY CountGrows, Zenon
  <2>2. QED
    BY <2>1, Zenon
<1>2. Contract!CountOf(t, "start") = a + (IF t[n + 1].kind = "start" THEN 1 ELSE 0)
  BY <1>1, CountGrows
<1>3. Contract!CountOf(t, "end") = b + (IF t[n + 1].kind = "end" THEN 1 ELSE 0)
  BY <1>1, CountGrows
<1>4. n = 0 => Contract!Open(s) = 0
  <2>1. SUFFICES ASSUME n = 0
                 PROVE  Contract!Open(s) = 0
    OBVIOUS
  <2>2. DOMAIN s = {}
    BY <2>1
  <2>3. \A kind : Contract!CountOf(s, kind) = 0
    BY <2>2, FS_EmptySet, SameCardinality DEF Contract!CountOf
  <2>4. QED
    BY <2>3 DEF Contract!Open
<1>5. QED
  BY <1>1, <1>2, <1>3, <1>4, SMTT(30) DEF Contract!Open

\* The tokens are the events.
SomeTokens == {TokenOf(e) : e \in EventSet}

LEMMA SentIs ==
  ASSUME events \in Seq(EventSet)
  PROVE  /\ DOMAIN events = 1 .. Len(events) /\ Len(events) \in Nat
         /\ Sent \in Seq(SomeTokens) /\ Len(Sent) = Len(events)
         /\ (Sent = <<>>) <=> (events = <<>>)
         /\ \A k \in 1 .. Len(events) :
              Sent[k] = TokenOf(events[k]) /\ Sent[k].kind = events[k].kind
<1>1. DOMAIN events = 1 .. Len(events) /\ Len(events) \in Nat
  OBVIOUS
<1>2. \A k \in DOMAIN events : Sent[k] = TokenOf(events[k])
  BY DEF Sent
<1> DEFINE token(k) == TokenOf(events[k])
<1>3. \A k \in 1 .. Len(events) : token(k) \in SomeTokens
  BY DEF SomeTokens
<1>4. Sent = [k \in 1 .. Len(events) |-> token(k)]
  BY <1>1 DEF Sent
<1> HIDE DEF token
<1>5. Sent \in [1 .. Len(events) -> SomeTokens]
  BY <1>3, <1>4
<1>6. Sent \in Seq(SomeTokens) /\ Len(Sent) = Len(events)
  BY <1>1, <1>5
<1>7. (Sent = <<>>) <=> (events = <<>>)
  BY <1>6, EmptyLength, Zenon
<1>8. \A e : TokenOf(e).kind = e.kind
  BY DEF TokenOf
<1>9. QED
  BY <1>1, <1>2, <1>6, <1>7, <1>8, Zenon


\* A part of a sequence, and the part that has one element less.
LEMMA PartGrows ==
  ASSUME NEW S, NEW w \in Seq(S), NEW k \in 1 .. Len(w), NEW m \in k .. Len(w),
         NEW n \in Nat, n = m - k
  PROVE  /\ DOMAIN SubSeq(w, k, m - 1) = 1 .. n
         /\ DOMAIN SubSeq(w, k, m) = 1 .. n + 1
         /\ \A j \in 1 .. n : SubSeq(w, k, m)[j] = SubSeq(w, k, m - 1)[j]
         /\ SubSeq(w, k, m)[n + 1] = w[m]
<1>1. /\ SubSeq(w, k, m) \in Seq(S) /\ Len(SubSeq(w, k, m)) = n + 1
      /\ \A j \in 1 .. n + 1 : SubSeq(w, k, m)[j] = w[k + j - 1]
  OBVIOUS
<1>2. /\ SubSeq(w, k, m - 1) \in Seq(S) /\ Len(SubSeq(w, k, m - 1)) = n
      /\ \A j \in 1 .. n : SubSeq(w, k, m - 1)[j] = w[k + j - 1]
  OBVIOUS
<1>3. k + (n + 1) - 1 = m
  OBVIOUS
<1>4. QED
  BY <1>1, <1>2, <1>3

\* How many more documents are open behind token m than before token k.
Opens(k, m) == Contract!Open(SubSeq(Sent, k, m))

LEMMA OpensGrow ==
  ASSUME events \in Seq(EventSet), NEW k \in 1 .. Len(events), NEW m \in k .. Len(events)
  PROVE  /\ Opens(k, m - 1) \in Int
         /\ m = k => Opens(k, m - 1) = 0
         /\ events[m].kind = "start" => Opens(k, m) = Opens(k, m - 1) + 1
         /\ events[m].kind = "end"   => Opens(k, m) = Opens(k, m - 1) - 1
         /\ events[m].kind = "item"  => Opens(k, m) = Opens(k, m - 1)
<1>1. PICK n \in Nat : n = m - k
  OBVIOUS
<1>2. m \in 1 .. Len(events)
  OBVIOUS
<1>3. /\ Sent \in Seq(SomeTokens) /\ k \in 1 .. Len(Sent) /\ m \in k .. Len(Sent)
      /\ Sent[m].kind = events[m].kind
  BY <1>2, SentIs, Zenon
<1>4. PICK s, t : s = SubSeq(Sent, k, m - 1) /\ t = SubSeq(Sent, k, m)
  OBVIOUS
<1>5. /\ DOMAIN s = 1 .. n /\ DOMAIN t = 1 .. n + 1
      /\ \A j \in 1 .. n : t[j] = s[j]
      /\ t[n + 1] = Sent[m]
  <2>1. /\ DOMAIN SubSeq(Sent, k, m - 1) = 1 .. n
        /\ DOMAIN SubSeq(Sent, k, m) = 1 .. n + 1
        /\ \A j \in 1 .. n : SubSeq(Sent, k, m)[j] = SubSeq(Sent, k, m - 1)[j]
        /\ SubSeq(Sent, k, m)[n + 1] = Sent[m]
    BY <1>1, <1>3, PartGrows
  <2>2. QED
    BY <1>4, <2>1, Zenon
<1>6. /\ Contract!Open(s) \in Int
      /\ n = 0 => Contract!Open(s) = 0
      /\ t[n + 1].kind = "start" => Contract!Open(t) = Contract!Open(s) + 1
      /\ t[n + 1].kind = "end"   => Contract!Open(t) = Contract!Open(s) - 1
      /\ t[n + 1].kind = "item"  => Contract!Open(t) = Contract!Open(s)
  BY <1>5, OpenGrows
<1>7. m = k => n = 0
  BY <1>1
<1>8. QED
  BY <1>3, <1>4, <1>5, <1>6, <1>7, Zenon DEF Opens

\* How an event changes how many documents are open.
Deepens(e, before, after) ==
  /\ Len(before) \in Nat /\ Len(after) \in Nat
  /\ e.kind \in {"start", "item", "end"}
  /\ e.kind = "start" => Len(after) = Len(before) + 1
  /\ e.kind = "item"  => Len(after) = Len(before)
  /\ e.kind = "end"   => Len(after) = Len(before) - 1

LEMMA LenTurns ==
  ASSUME NEW a, NEW e, NEW before \in Levels, NEW after \in Levels,
         EventIs(a, e, before, after)
  PROVE  Deepens(e, before, after)
<1>1. PICK s \in Seq(Closings) : s = before
  BY LevelsAre, Zenon
<1>2. PICK t \in Seq(Closings) : t = after
  BY LevelsAre, Zenon
<1>3. Len(s) \in Nat /\ Len(t) \in Nat
  OBVIOUS
<1>4. CASE e.kind = "start" /\ \E c \in Closings : after = Append(before, c)
  <2>1. PICK c \in Closings : after = Append(before, c)
    BY <1>4
  <2>2. Len(Append(s, c)) = Len(s) + 1
    BY AppendIs
  <2>3. Len(after) = Len(before) + 1
    BY <1>1, <2>1, <2>2, Zenon
  <2>4. e.kind # "item" /\ e.kind # "end" /\ e.kind \in {"start", "item", "end"}
    BY <1>4
  <2>5. QED
    BY <1>1, <1>2, <1>3, <2>3, <2>4, Zenon DEF Deepens
<1>5. CASE e.kind = "item" /\ after = before
  BY <1>1, <1>2, <1>3, <1>5 DEF Deepens
<1>6. CASE e.kind = "end" /\ before # <<>> /\ after = Front(before)
  <2>1. Len(Front(s)) = Len(s) - 1
    BY <1>1, <1>6, FrontIs, Zenon
  <2>2. Len(after) = Len(before) - 1
    BY <1>1, <1>6, <2>1, Zenon
  <2>3. e.kind # "item" /\ e.kind # "start" /\ e.kind \in {"start", "item", "end"}
    BY <1>6
  <2>4. QED
    BY <1>1, <1>2, <1>3, <2>2, <2>3, Zenon DEF Deepens
<1>7. QED
  BY <1>4, <1>5, <1>6, Zenon DEF EventIs

\* Likewise of each event of a text.
LEMMA AllTurn ==
  ASSUME NEW S, Written(S), NEW j \in 1 .. Len(events)
  PROVE  Deepens(events[j], S[j - 1], S[j])
<1>1. LayoutOf(text, events, MisleadingGap, S)
  BY Zenon DEF Written
<1>2. /\ S[j - 1] \in Levels /\ S[j] \in Levels
      /\ EventIs(Start(events, j), events[j], S[j - 1], S[j])
  BY <1>1, LayoutIs, LaidIs, Zenon
<1>3. QED
  BY <1>2, LenTurns, Zenon

\* What the tokens leave open is what the levels say.
LEMMA OpensIs ==
  ASSUME NEW S, Written(S), NEW k \in 1 .. Len(events), NEW m \in k .. Len(events)
  PROVE  Opens(k, m) = Len(S[m]) - Len(S[k - 1])
<1> DEFINE Off(j) == Opens(k, j) # Len(S[j]) - Len(S[k - 1])
           T == {j \in k .. Len(events) : Off(j)}
<1>1. events \in Seq(EventSet) /\ Len(events) \in Nat
  BY OpenIs
<1>4. \A j \in 1 .. Len(events) :
        /\ Len(S[j - 1]) \in Nat /\ Len(S[j]) \in Nat
        /\ events[j].kind \in {"start", "item", "end"}
        /\ events[j].kind = "start" => Len(S[j]) = Len(S[j - 1]) + 1
        /\ events[j].kind = "item"  => Len(S[j]) = Len(S[j - 1])
        /\ events[j].kind = "end"   => Len(S[j]) = Len(S[j - 1]) - 1
  BY AllTurn, Zenon DEF Deepens
<1>2. SUFFICES ASSUME Off(m)
               PROVE  FALSE
  BY Zenon DEF Off
<1> HIDE DEF Off
<1>3. T \in SUBSET Nat /\ m \in T
  BY <1>1, <1>2
<1>5. PICK j \in T : \A x \in T : j <= x
  <2> HIDE DEF T
  <2>1. QED
    BY <1>3, LeastElement, Zenon
<1>6. j \in k .. Len(events) /\ j \in 1 .. Len(events) /\ Off(j)
  BY <1>1, <1>5
<1>7. j \in k .. Len(events) /\ j \in 1 .. Len(events)
      /\ Opens(k, j) # Len(S[j]) - Len(S[k - 1])
  BY <1>6, Zenon DEF Off
<1>8. PICK d \in Nat : d = Len(S[k - 1])
  BY <1>4
<1>9. PICK c \in Nat : c = Len(S[j - 1])
  BY <1>4, <1>7
<1>10. Opens(k, j - 1) = c - d
  <2>1. CASE j = k
    <3>1. Opens(k, j - 1) = 0
      BY <1>1, <1>7, <2>1, OpensGrow, Zenon
    <3>2. c = d
      BY <1>8, <1>9, <2>1, Zenon
    <3>3. QED
      BY <1>8, <1>9, <3>1, <3>2
  <2>2. CASE j # k
    <3>1. j - 1 \in k .. Len(events) /\ ~ (j <= j - 1)
      BY <1>1, <1>7, <2>2
    <3>2. ~ Off(j - 1)
      BY <1>5, <3>1
    <3>3. Opens(k, j - 1) = Len(S[j - 1]) - Len(S[k - 1])
      BY <3>2, Zenon DEF Off
    <3>4. QED
      BY <1>8, <1>9, <3>3, Zenon
  <2>3. QED
    BY <2>1, <2>2
<1>11. /\ events[j].kind = "start" => Opens(k, j) = Opens(k, j - 1) + 1
       /\ events[j].kind = "end"   => Opens(k, j) = Opens(k, j - 1) - 1
       /\ events[j].kind = "item"  => Opens(k, j) = Opens(k, j - 1)
  BY <1>1, <1>7, OpensGrow, Zenon
<1>12. CASE events[j].kind = "start"
  <2>1. Opens(k, j) = (c - d) + 1 /\ Len(S[j]) = c + 1
    BY <1>4, <1>7, <1>9, <1>10, <1>11, <1>12, Zenon
  <2>2. QED
    BY <1>7, <1>8, <2>1
<1>13. CASE events[j].kind = "end"
  <2>1. Opens(k, j) = (c - d) - 1 /\ Len(S[j]) = c - 1
    BY <1>4, <1>7, <1>9, <1>10, <1>11, <1>13, Zenon
  <2>2. QED
    BY <1>7, <1>8, <2>1
<1>14. CASE events[j].kind = "item"
  <2>1. Opens(k, j) = c - d /\ Len(S[j]) = c
    BY <1>4, <1>7, <1>9, <1>10, <1>11, <1>14, Zenon
  <2>2. QED
    BY <1>7, <1>8, <2>1
<1>15. QED
  BY <1>4, <1>7, <1>12, <1>13, <1>14

\* The contract's writer has as many documents open as the callers' loops.
LEMMA OpenIsLoops ==
  ASSUME NEW S, Written(S)
  PROVE  /\ (Sent = <<>>) <=> (events = <<>>)
         /\ events # <<>> => Contract!Open(Sent) = Len(loops) /\ Len(loops) \in Nat
<1>1. events \in Seq(EventSet) /\ Len(events) \in Nat /\ Len(loops) \in Nat
  BY OpenIs
<1>2. SUFFICES ASSUME events # <<>>
               PROVE  Contract!Open(Sent) = Len(loops)
  BY <1>1, SentIs, Zenon
<1>3. PICK n \in Nat : n = Len(events) /\ 1 \in 1 .. n /\ n \in 1 .. n
  BY <1>1, <1>2
<1>4. SubSeq(Sent, 1, n) = Sent
  <2>1. PICK s \in Seq(SomeTokens) : s = Sent /\ Len(s) = n
    BY <1>1, <1>3, SentIs, Zenon
  <2>2. SubSeq(s, 1, Len(s)) = s
    OBVIOUS
  <2>3. QED
    BY <2>1, <2>2, Zenon
<1>5. Opens(1, n) = Len(S[n]) - Len(S[1 - 1])
  BY <1>3, OpensIs, Zenon
<1>6. Len(S[1 - 1]) = 0
  <2>1. 1 - 1 = 0 /\ Len(<<>>) = 0
    OBVIOUS
  <2>2. S[0] = <<>>
    BY Zenon DEF Written, LayoutOf
  <2>3. QED
    BY <2>1, <2>2, Zenon
<1>7. Len(S[n]) = Len(loops)
  BY <1>3, Zenon DEF Written
<1>8. Contract!Open(Sent) = Opens(1, n)
  BY <1>4, Zenon DEF Opens
<1>9. Opens(1, n) = Len(loops) - 0
  BY <1>5, <1>6, <1>7, Zenon
<1>10. QED
  BY <1>1, <1>8, <1>9

\* Both say of the same token that it ends what token k starts.
LEMMA SameEnd ==
  ASSUME NEW S, Written(S), phase # "write", NEW k \in 1 .. Len(events),
         events[k].kind # "end"
  PROVE  Contract!EndOf(k) = EndOf(k)
<1>1. events \in Seq(EventSet) /\ Len(events) \in Nat
  BY OpenIs
<1>4. \A j \in 1 .. Len(events) :
        /\ Len(S[j - 1]) \in Nat /\ Len(S[j]) \in Nat
        /\ events[j].kind \in {"start", "item", "end"}
        /\ events[j].kind = "start" => Len(S[j]) = Len(S[j - 1]) + 1
        /\ events[j].kind = "item"  => Len(S[j]) = Len(S[j - 1])
  BY AllTurn, Zenon DEF Deepens
<1> DEFINE P(e) == /\ Opens(k, e) = 0
                   /\ \A m \in k .. e - 1 : Opens(k, m) > 0
<1>5. Contract!EndOf(k) = CHOOSE e \in k .. Len(events) : P(e)
  <2>1. Len(Sent) = Len(events)
    BY <1>1, SentIs, Zenon
  <2>2. Contract!EndOf(k) = CHOOSE e \in k .. Len(Sent) : P(e)
    BY Zenon DEF Contract!EndOf, Opens, Sent
  <2>3. QED
    BY <2>1, <2>2, Zenon
<1>6. PICK d \in Nat : d = Len(S[k - 1])
  BY <1>4
<1>7. PICK x \in k .. Len(events) : EndOf(k) = x /\ P(x)
  <2>1. CASE events[k].kind = "item"
    <3>1. EndOf(k) = k
      BY <2>1, Zenon DEF EndOf
    <3>2. k \in k .. Len(events) /\ \A m \in k .. k - 1 : FALSE
      BY <1>1
    <3>3. Opens(k, k) = Len(S[k]) - Len(S[k - 1])
      BY <3>2, OpensIs, Zenon
    <3>4. Opens(k, k) = d - d
      BY <1>4, <1>6, <2>1, <3>3, Zenon
    <3>5. d - d = 0
      OBVIOUS
    <3>6. QED
      BY <3>1, <3>2, <3>4, <3>5, Zenon
  <2>2. CASE events[k].kind # "item"
    <3>1. events[k].kind = "start"
      BY <1>4, <2>2
    <3>2. PICK x : x = EndOf(k) /\ Encloses(S, k, x)
      BY <3>1, EndOfIs, Zenon
    <3>3. /\ x \in k + 1 .. Len(events) /\ S[x] = S[k - 1]
          /\ \A m \in k .. x - 1 : Len(S[k]) <= Len(S[m])
      BY <3>2, Zenon DEF Encloses
    <3>4. x \in k .. Len(events)
      BY <1>1, <3>3
    <3>5. Opens(k, x) = Len(S[x]) - Len(S[k - 1])
      BY <3>4, OpensIs, Zenon
    <3>6. Opens(k, x) = d - d
      BY <1>6, <3>3, <3>5, Zenon
    <3>7. Len(S[k]) = d + 1
      BY <1>4, <1>6, <3>1, Zenon
    <3>8. ASSUME NEW m \in k .. x - 1
          PROVE  Opens(k, m) > 0
      <4>1. m \in k .. Len(events) /\ m \in 1 .. Len(events)
        BY <1>1, <3>4
      <4>2. Opens(k, m) = Len(S[m]) - d
        BY <1>6, <4>1, OpensIs, Zenon
      <4>3. PICK c \in Nat : c = Len(S[m])
        BY <1>4, <4>1, Zenon
      <4>4. d + 1 <= c /\ Opens(k, m) = c - d
        BY <3>3, <3>7, <4>2, <4>3, Zenon
      <4>5. QED
        BY <4>4
    <3>9. d - d = 0
      OBVIOUS
    <3>10. QED
      BY <3>2, <3>4, <3>6, <3>8, <3>9, Zenon
  <2>3. QED
    BY <2>1, <2>2
<1>8. ASSUME NEW e \in k .. Len(events), P(e)
      PROVE  e = x
  <2>1. e < x \/ x < e \/ e = x
    BY <1>1
  <2>2. ~ (e < x)
    <3>1. e < x => e \in k .. x - 1
      BY <1>1
    <3>2. QED
      BY <1>7, <1>8, <3>1
  <2>3. ~ (x < e)
    <3>1. x < e => x \in k .. e - 1
      BY <1>1
    <3>2. QED
      BY <1>7, <1>8, <3>1
  <2>4. QED
    BY <2>1, <2>2, <2>3
<1> HIDE DEF P
<1>9. QED
  BY <1>5, <1>7, <1>8, Zenon


-----------------------------------------------------------------------------
(* The writer writes tokens. *)

\* The token of an event, with what the layout makes of documents.
Token(e, misleading) ==
  [kind |-> e.kind, name |-> e.name, value |-> e.value,
   fragile |-> e.kind = "start" /\ misleading]

Records(K, N, V, F) ==
  {[kind |-> kind, name |-> name, value |-> value, fragile |-> fragile] :
     kind \in K, name \in N, value \in V, fragile \in F}

LEMMA RecordThere ==
  ASSUME NEW K, NEW N, NEW V, NEW F, NEW k \in K, NEW n \in N, NEW v \in V, NEW f \in F
  PROVE  [kind |-> k, name |-> n, value |-> v, fragile |-> f] \in Records(K, N, V, F)
BY DEF Records

LEMMA TokensAre ==
  Tokens = Records({"start", "item", "end"}, Names \union {<<>>}, Values \union {<<>>}, BOOLEAN)
BY DEF Tokens, Records

LEMMA IsToken ==
  ASSUME NEW e \in EventSet, e.name \in Names \union {<<>>}, NEW m \in BOOLEAN
  PROVE  Token(e, m) \in Tokens
<1>1. PICK k \in {"start", "item", "end"}, n \in Names \union {<<>>},
           v \in Values \union {<<>>}, f \in BOOLEAN :
        k = e.kind /\ n = e.name /\ v = e.value /\ f = (e.kind = "start" /\ m)
  <2>1. e.kind \in {"start", "item", "end"} /\ e.value \in Values \union {<<>>}
    BY DEF EventSet
  <2>2. (e.kind = "start" /\ m) \in BOOLEAN
    OBVIOUS
  <2>3. QED
    BY <2>1, <2>2, Zenon
<1>2. [kind |-> k, name |-> n, value |-> v, fragile |-> f] \in Tokens
  BY RecordThere, TokensAre, Zenon
<1>3. QED
  BY <1>1, <1>2, Zenon DEF Token

\* What is laid out has the names that the loops can give.
LEMMA NamesThere ==
  ASSUME NEW t, NEW ev, NEW m, NEW S, LayoutOf(t, ev, m, S), NEW k \in 1 .. Len(ev)
  PROVE  ev[k] \in EventSet /\ ev[k].name \in Names \union {<<>>}
<1>1. Laid(t, m, Start(ev, k), ev[k], S[k - 1], S[k])
  BY Zenon DEF LayoutOf
<1>2. ev[k] \in EventSet /\ LedBy(t, m, Start(ev, k), ev[k], S[k - 1])
  BY <1>1, Zenon DEF Laid
<1>3. ev[k].name \in Names \/ ev[k].name = <<>>
  BY <1>2, Zenon DEF LedBy
<1>4. QED
  BY <1>2, <1>3

\* One event more is one token more.
LEMMA SentGrows ==
  ASSUME events \in Seq(EventSet), NEW e \in EventSet, events' = Append(events, e),
         style' = style
  PROVE  Sent' = Append(Sent, TokenOf(e))
<1>1. PICK n \in Nat : n = Len(events)
  OBVIOUS
<1>2. PICK ev \in Seq(EventSet) : ev = events'
  BY AppendIs
<1>3. /\ DOMAIN events = 1 .. n /\ DOMAIN ev = 1 .. n + 1
      /\ \A k \in 1 .. n : ev[k] = events[k]
      /\ ev[n + 1] = e
  BY <1>1, <1>2
<1>4. PICK m : m = MisleadingGap
  OBVIOUS
<1>5. \A d : TokenOf(d) = Token(d, m)
  BY <1>4, Zenon DEF TokenOf, Token
<1>6. Sent' = [k \in DOMAIN ev |-> Token(ev[k], m)]
  <2>1. MisleadingGap' = m
    BY <1>4, Zenon DEF MisleadingGap
  <2>2. QED
    BY <1>2, <2>1, Zenon DEF Sent, TokenOf, Token
<1>7. PICK t : t = TokenOf(e)
  OBVIOUS
<1>8. t \in SomeTokens
  BY <1>7 DEF SomeTokens
<1>9. /\ Sent \in Seq(SomeTokens) /\ Len(Sent) = n
      /\ \A k \in 1 .. n : Sent[k] = TokenOf(events[k])
  BY <1>1, SentIs, Zenon
<1>10. PICK w : w = Append(Sent, t)
  OBVIOUS
<1>11. /\ w \in Seq(SomeTokens) /\ Len(w) = n + 1
       /\ \A k \in 1 .. n : w[k] = Sent[k]
       /\ w[n + 1] = t
  BY <1>8, <1>9, <1>10, AppendIs
<1>12. w = [k \in 1 .. n + 1 |-> w[k]]
  BY <1>11
<1>13. \A k \in 1 .. n + 1 : w[k] = Token(ev[k], m)
  <2>1. \A k \in 1 .. n + 1 : k \in 1 .. n \/ k = n + 1
    BY <1>1
  <2>2. QED
    BY <1>3, <1>5, <1>7, <1>9, <1>11, <2>1, Zenon
<1>14. w = Sent'
  BY <1>3, <1>6, <1>12, <1>13, Zenon
<1>15. QED
  BY <1>7, <1>10, <1>14, Zenon

\* A step of the writer writes the token of its event.
LEMMA EventMaps ==
  ASSUME NEW S, Reads(S), NEW T, Written(T)', WriterStep,
         NEW e, events' = Append(events, e),
         events = <<>> => e.kind = "start",
         events # <<>> => loops # <<>>
  PROVE  Contract!Write
<1>1. /\ Written(S) /\ phase = "write" /\ phase' = "write" /\ Unread
      /\ style' = style /\ i' = i /\ open' = open /\ cursor' = cursor
      /\ got' = got /\ lost' = lost
  <2>1. phase = "write" /\ phase' = phase /\ style' = style /\ UNCHANGED reader
    BY DEF WriterStep
  <2>2. phase \in {"write", "sent"}
    BY <2>1
  <2>3. QED
    BY <2>1, <2>2, Zenon DEF Reads, reader
<1>2. ~ lost /\ ~ lost'
  BY <1>1, Zenon DEF Unread
<1>3. Stage = "write" /\ Stage' = Stage
  BY <1>1, <1>2 DEF Stage
<1>4. Passed' = Passed /\ Taken' = Taken
  BY <1>1, Zenon DEF Passed, Taken
<1>5. events \in Seq(EventSet) /\ Len(events) \in Nat
  BY <1>1, OpenIs, Zenon
<1>6. e \in EventSet /\ e.name \in Names \union {<<>>}
  <2>1. LayoutOf(text', events', MisleadingGap', T)
    BY Zenon DEF Written
  <2>2. PICK n \in Nat, ev \in Seq(EventSet) :
          n = Len(events) /\ ev = events' /\ n + 1 \in 1 .. Len(ev) /\ ev[n + 1] = e
    <3>1. events' \in Seq(EventSet)
      BY <2>1, Zenon DEF LayoutOf
    <3>2. Len(events') = Len(events) + 1 /\ events'[Len(events) + 1] = e
      BY <1>5
    <3>3. QED
      BY <1>5, <3>1, <3>2
  <2>3. ev[n + 1] \in EventSet /\ ev[n + 1].name \in Names \union {<<>>}
    BY <2>1, <2>2, NamesThere, Zenon
  <2>4. QED
    BY <2>2, <2>3, Zenon
<1>7. Sent' = Append(Sent, TokenOf(e))
  BY <1>1, <1>5, <1>6, SentGrows, Zenon
<1>8. TokenOf(e) \in Tokens /\ TokenOf(e).kind = e.kind
  <2>1. MisleadingGap \in BOOLEAN
    BY DEF MisleadingGap
  <2>2. TokenOf(e) = Token(e, MisleadingGap)
    BY Zenon DEF TokenOf, Token
  <2>3. TokenOf(e).kind = e.kind
    BY DEF TokenOf
  <2>4. Token(e, MisleadingGap) \in Tokens
    BY <1>6, <2>1, IsToken, Zenon
  <2>5. QED
    BY <2>2, <2>3, <2>4, Zenon
<1>9. IF Sent = <<>> THEN TokenOf(e).kind = "start" ELSE Contract!Open(Sent) > 0
  <2>1. CASE events = <<>>
    BY <1>1, <1>8, <2>1, OpenIsLoops, Zenon
  <2>2. CASE events # <<>>
    <3>1. Sent # <<>> /\ Contract!Open(Sent) = Len(loops) /\ Len(loops) \in Nat
      BY <1>1, <2>2, OpenIsLoops, Zenon
    <3>2. loops \in Seq(LoopSet) /\ loops # <<>>
      BY <1>1, <2>2, Zenon DEF Written
    <3>3. Len(loops) > 0
      BY <3>2
    <3>4. QED
      BY <3>1, <3>3
  <2>3. QED
    BY <2>1, <2>2
<1>10. QED
  BY <1>3, <1>4, <1>7, <1>8, <1>9, WriteMaps, Zenon

LEMMA WriterMaps ==
  ASSUME NEW S, Reads(S), WriteTop \/ WriteDocument \/ WriteItem \/ WriteEnd
  PROVE  Contract!Write
<1>1. PICK T : Written(T)'
  BY StepWritten, Zenon DEF Reads, Next
<1>2. CASE WriteTop
  <2>1. WriterStep /\ events = <<>>
    BY <1>2, Zenon DEF WriteTop
  <2>2. PICK at : events' = <<Event("start", <<>>, <<>>, at, at)>>
    BY <1>2, Zenon DEF WriteTop
  <2>3. PICK e : e = Event("start", <<>>, <<>>, at, at) /\ e.kind = "start"
    <3>1. Event("start", <<>>, <<>>, at, at).kind = "start"
      BY DEF Event
    <3>2. QED
      BY <3>1, Zenon
  <2>4. events' = Append(events, e)
    <3>1. \A x : Append(<<>>, x) = <<x>>
      OBVIOUS
    <3>2. QED
      BY <2>1, <2>2, <2>3, <3>1, Zenon
  <2>5. QED
    BY <1>1, <2>1, <2>3, <2>4, EventMaps, Zenon
<1>3. CASE WriteDocument \/ WriteItem \/ WriteEnd
  <2>1. WriterStep /\ loops # <<>>
    BY <1>3, Zenon DEF WriteDocument, WriteItem, WriteEnd
  <2>2. PICK e : events' = Append(events, e)
    BY <1>3, Zenon DEF WriteDocument, WriteItem, WriteEnd
  <2>3. events # <<>>
    <3>1. Written(S) /\ Len(loops) \in Nat
      BY OpenIs, Zenon DEF Reads
    <3>2. SUFFICES ASSUME events = <<>>
                   PROVE  FALSE
      BY Zenon
    <3>3. Len(events) = 0
      BY <3>2
    <3>4. Len(loops) = Len(S[0]) /\ S[0] = <<>> /\ loops \in Seq(LoopSet)
      BY <3>1, <3>3, Zenon DEF Written, LayoutOf
    <3>5. Len(loops) = 0
      BY <3>4
    <3>6. QED
      BY <2>1, <3>4, <3>5, EmptyLength, Zenon
  <2>4. QED
    BY <1>1, <2>1, <2>2, <2>3, EventMaps, Zenon
<1>4. QED
  BY <1>2, <1>3


-----------------------------------------------------------------------------
(* The reader comes past tokens. *)

\* What a reader leaves is what was written.
LEMMA SentSame ==
  ASSUME UNCHANGED writer
  PROVE  Sent' = Sent
<1>1. style' = style /\ events' = events
  BY DEF writer
<1>2. QED
  BY <1>1, Zenon DEF Sent, TokenOf, MisleadingGap

LEMMA DeliverMaps ==
  ASSUME NEW S, Reads(S), Deliver
  PROVE  Contract!Send
<1>1. /\ phase = "write" /\ events # <<>> /\ loops = <<>> /\ phase' = "sent"
      /\ UNCHANGED writer /\ UNCHANGED reader
  BY Zenon DEF Deliver
<1>2. i' = i /\ open' = open /\ cursor' = cursor /\ got' = got /\ lost' = lost
  BY <1>1 DEF reader
<1>3. Unread /\ Written(S)
  <2>1. phase \in {"write", "sent"}
    BY <1>1
  <2>2. QED
    BY <2>1, Zenon DEF Reads
<1>4. ~ lost /\ ~ lost'
  BY <1>2, <1>3, Zenon DEF Unread
<1>5. Stage = "write" /\ Stage' = "sent"
  BY <1>1, <1>4 DEF Stage
<1>6. Passed' = Passed /\ Taken' = Taken
  BY <1>2, Zenon DEF Passed, Taken
<1>7. Sent # <<>> /\ Contract!Open(Sent) = Len(loops)
  BY <1>1, <1>3, OpenIsLoops, Zenon
<1>8. Len(loops) = 0
  BY <1>1
<1>9. Sent' = Sent
  BY <1>1, SentSame, Zenon
<1>10. QED
  BY <1>5, <1>6, <1>7, <1>8, <1>9, SendMaps, Zenon

LEMMA ReadTopMaps ==
  ASSUME NEW S, Reads(S), ReadTop
  PROVE  Contract!Begin
<1>1. /\ phase = "sent" /\ phase' = "read" /\ UNCHANGED writer
      /\ cursor' = 2 /\ got' = got /\ lost' = lost
  BY Zenon DEF ReadTop
<1>2. Unread
  <2>1. phase \in {"write", "sent"}
    BY <1>1
  <2>2. QED
    BY <2>1, Zenon DEF Reads
<1>3. ~ lost /\ ~ lost'
  BY <1>1, <1>2, Zenon DEF Unread
<1>4. Stage = "sent" /\ Stage' = "read"
  BY <1>1, <1>3 DEF Stage
<1>5. Passed' = 1
  <2>1. Passed' = cursor' - 1
    BY <1>3, Zenon DEF Passed
  <2>2. QED
    BY <1>1, <2>1
<1>6. Taken' = Taken
  BY <1>1, Zenon DEF Taken
<1>7. Sent' = Sent
  BY <1>1, SentSame, Zenon
<1>8. QED
  BY <1>4, <1>5, <1>6, <1>7, BeginMaps, Zenon

\* A round while the reader has its place: the token it comes to.
TokenHere(e) ==
  /\ Kept /\ Passed + 1 = cursor /\ cursor \in 1 .. Len(events)
  /\ Sent[Passed + 1] = TokenOf(e) /\ Sent[Passed + 1].kind = e.kind
  /\ Sent[Passed + 1].name = e.name /\ Sent[Passed + 1].value = e.value
  /\ Sent[Passed + 1].fragile = (e.kind = "start" /\ MisleadingGap)
  /\ Len(Sent) = Len(events)

LEMMA TokenIsHere ==
  ASSUME NEW S, Written(S), NEW e, Here(S, e), phase = "read", ~ lost, UNCHANGED writer
  PROVE  TokenHere(e)
<1>1. cursor \in 1 .. Len(events) /\ e = events[cursor]
  BY Zenon DEF Here
<1>2. events \in Seq(EventSet) /\ Len(events) \in Nat
  BY OpenIs
<1>3. Sent' = Sent
  BY SentSame, Zenon
<1>4. Kept
  <2>1. Stage = "read"
    BY DEF Stage
  <2>2. QED
    BY <1>3, <2>1, Zenon DEF Kept
<1>5. Passed + 1 = cursor
  <2>1. Passed = cursor - 1
    BY Zenon DEF Passed
  <2>2. QED
    BY <1>1, <1>2, <2>1
<1>6. Sent[cursor] = TokenOf(e) /\ Len(Sent) = Len(events)
  BY <1>1, <1>2, SentIs, Zenon
<1>7. /\ TokenOf(e).kind = e.kind /\ TokenOf(e).name = e.name /\ TokenOf(e).value = e.value
      /\ TokenOf(e).fragile = (e.kind = "start" /\ MisleadingGap)
  BY DEF TokenOf
<1>8. QED
  BY <1>1, <1>4, <1>5, <1>6, <1>7, Zenon DEF TokenHere

\* Coming past event k is passing token k.
LEMMA PassedIs ==
  ASSUME NEW S, Written(S), NEW k, NEW value, MovesPast(S, k, value), ~ lost'
  PROVE  /\ Passed' = k /\ Taken' = value /\ k \in Nat
         /\ Stage' = IF k = Len(events) THEN "done" ELSE "read"
<1>1. /\ k \in 1 .. Len(events) /\ cursor' = k + 1 /\ got' = value
      /\ phase' = IF k = Len(events) THEN "done" ELSE "read"
  BY Zenon DEF MovesPast
<1>2. Len(events) \in Nat
  BY OpenIs
<1>3. Passed' = cursor' - 1
  BY Zenon DEF Passed
<1>4. Passed' = k /\ k \in Nat
  BY <1>1, <1>2, <1>3
<1>5. Taken' = value
  BY <1>1, Zenon DEF Taken
<1>6. phase' # "error" /\ phase' \in {"read", "done"}
  BY <1>1
<1>7. Stage' = phase'
  BY <1>6, Zenon DEF Stage
<1>8. QED
  BY <1>1, <1>4, <1>5, <1>7, Zenon

LEMMA RoundMaps ==
  ASSUME NEW S, Written(S), NEW e, Here(S, e), phase = "read", ~ lost, ~ lost', UNCHANGED writer
  PROVE  /\ MovesPast(S, cursor, <<>>) /\ e.kind = "end" => Contract!End
         /\ phase' = phase /\ MovesPast(S, cursor, Given(e)) /\ e.kind = "item" => Contract!Take
         /\ phase' = phase /\ MovesPast(S, cursor, <<>>) /\ e.kind = "start" => Contract!Enter
         /\ phase' = phase /\ MovesPast(S, EndOf(cursor), <<>>) /\ e.kind # "end"
              /\ ~ (e.kind = "start" /\ MisleadingGap) => Contract!Skip
<1>1. TokenHere(e)
  BY TokenIsHere, Zenon
<1>2. /\ Kept /\ Passed + 1 = cursor
      /\ Sent[Passed + 1].kind = e.kind
      /\ Sent[Passed + 1].name = e.name /\ Sent[Passed + 1].value = e.value
      /\ Sent[Passed + 1].fragile = (e.kind = "start" /\ MisleadingGap)
      /\ Len(Sent) = Len(events)
  BY <1>1, Zenon DEF TokenHere
<1>3. Stage = "read" /\ (phase' = phase => Stage' = Stage)
  <2>1. Stage = "read"
    BY DEF Stage
  <2>2. phase' = "read" => Stage' = "read"
    BY DEF Stage
  <2>3. QED
    BY <2>1, <2>2, Zenon
<1>4. ASSUME MovesPast(S, cursor, <<>>), e.kind = "end"
      PROVE  Contract!End
  <2>1. /\ Passed' = cursor /\ Taken' = <<>>
        /\ Stage' = IF cursor = Len(events) THEN "done" ELSE "read"
    BY <1>4, PassedIs, Zenon
  <2>2. QED
    BY <1>2, <1>4, <2>1, EndMaps, Zenon
<1>5. ASSUME phase' = phase, MovesPast(S, cursor, Given(e)), e.kind = "item"
      PROVE  Contract!Take
  <2>1. Passed' = cursor /\ Taken' = Given(e)
    BY <1>5, PassedIs, Zenon
  <2>2. Taken' = [name  |-> Sent[Passed + 1].name, value |-> Sent[Passed + 1].value]
    BY <1>2, <2>1, Zenon DEF Given
  <2>3. QED
    BY <1>2, <1>3, <1>5, <2>1, <2>2, TakeMaps, Zenon
<1>6. ASSUME phase' = phase, MovesPast(S, cursor, <<>>), e.kind = "start"
      PROVE  Contract!Enter
  <2>1. Passed' = cursor /\ Taken' = <<>>
    BY <1>6, PassedIs, Zenon
  <2>2. QED
    BY <1>2, <1>3, <1>6, <2>1, EnterMaps, Zenon
<1>7. ASSUME phase' = phase, MovesPast(S, EndOf(cursor), <<>>), e.kind # "end",
             ~ (e.kind = "start" /\ MisleadingGap)
      PROVE  Contract!Skip
  <2>1. Passed' = EndOf(cursor) /\ Taken' = <<>>
    BY <1>7, PassedIs, Zenon
  <2>2. cursor \in 1 .. Len(events) /\ e = events[cursor]
    BY Zenon DEF Here
  <2>3. phase # "write"
    OBVIOUS
  <2>4. Contract!EndOf(cursor) = EndOf(cursor)
    BY <1>7, <2>2, <2>3, SameEnd, Zenon
  <2>5. Sent[Passed + 1].kind # "end" /\ ~ Sent[Passed + 1].fragile
    BY <1>2, <1>7, Zenon
  <2>6. Passed' = Contract!EndOf(Passed + 1)
    BY <1>2, <2>1, <2>4, Zenon
  <2>7. QED
    BY <1>2, <1>3, <1>7, <2>1, <2>5, <2>6, SkipMaps, Zenon
<1>8. QED
  BY <1>4, <1>5, <1>6, <1>7


\* The round that loses the place: skip() misreads the comments of a document.
LEMMA LosingMaps ==
  ASSUME NEW S, Written(S), NEW e, Here(S, e), phase = "read", ~ lost, lost', SkipValue
  PROVE  Contract!Lose
<1>1. /\ AtItem /\ UNCHANGED writer
      /\ lost' = (lost \/ (At(ValueAt) \in {"{", "["} /\ MisleadingGap))
  BY Zenon DEF SkipValue
<1>2. At(ValueAt) \in {"{", "["} /\ MisleadingGap
  BY <1>1, Zenon
<1>3. /\ ValueAt = e.at
      /\ StartHere(S, e) \/ ItemHere(S, e)
  BY <1>1, ValueIsHere, Zenon DEF ValueHere
<1>4. StartHere(S, e)
  BY <1>2, <1>3, Zenon DEF ItemHere, StringFound, WordFound
<1>5. e.kind = "start" /\ MisleadingGap
  BY <1>2, <1>4, Zenon DEF StartHere
<1>6. Kept /\ Sent[Passed + 1].fragile
  BY <1>1, <1>5, TokenIsHere, Zenon DEF TokenHere
<1>7. Stage' = "lost" /\ Passed' = 0 /\ Taken' = <<>>
  BY Zenon DEF Stage, Passed, Taken
<1>8. QED
  BY <1>6, <1>7, LoseMaps, Zenon

\* Once the place is lost nothing is promised.
LEMMA LostMaps ==
  ASSUME lost, lost', UNCHANGED writer
  PROVE  UNCHANGED Contract!vars
<1>1. Stage = "lost" /\ Passed = 0 /\ Taken = <<>>
  BY Zenon DEF Stage, Passed, Taken
<1>2. Stage' = "lost" /\ Passed' = 0 /\ Taken' = <<>>
  BY Zenon DEF Stage, Passed, Taken
<1>3. Sent' = Sent
  BY SentSame, Zenon
<1>4. QED
  BY <1>1, <1>2, <1>3, StutterMaps, Zenon

\* A round that begins with the reader in its place.
LEMMA PlacedMaps ==
  ASSUME NEW S, Written(S), phase = "read", Reading(S), ~ lost, ReaderStep
  PROVE  Contract!Next
<1>1. PICK e : e = events[cursor]
  BY Zenon
<1>2. Here(S, e)
  BY <1>1, HereIs, Zenon
<1>3. UNCHANGED writer
  BY ReadersPhase, Zenon
<1>4. ~ ReadTop /\ ~ ReadError
  <2>1. phase # "sent"
    OBVIOUS
  <2>2. QED
    BY <2>1, NoError, Zenon DEF ReadTop
<1>5. CASE ReadEnd
  <2>1. ~ lost' /\ MovesPast(S, cursor, <<>>) /\ e.kind = "end"
    BY <1>2, <1>5, EndMoves, Zenon DEF ReadEnd
  <2>2. QED
    BY <1>2, <1>3, <2>1, RoundMaps, Zenon DEF Contract!Next
<1>6. CASE TakeString
  <2>1. ~ lost' /\ phase' = phase /\ MovesPast(S, cursor, Given(e)) /\ e.kind = "item"
    BY <1>2, <1>6, StringMoves, Zenon DEF TakeString
  <2>2. QED
    BY <1>2, <1>3, <2>1, RoundMaps, Zenon DEF Contract!Next
<1>7. CASE TakeWord \/ TakeNull
  <2>1. ~ lost' /\ phase' = phase /\ MovesPast(S, cursor, Given(e)) /\ e.kind = "item"
    <3>1. ~ lost' /\ phase' = phase
      <4>1. TakeWord => lost' = lost /\ phase' = phase
        BY Zenon DEF TakeWord
      <4>2. TakeNull => lost' = lost /\ phase' = phase
        BY Zenon DEF TakeNull
      <4>3. QED
        BY <1>7, <4>1, <4>2
    <3>2. MovesPast(S, cursor, Given(e)) /\ e.kind = "item"
      BY <1>2, <1>7, WordMoves, Zenon
    <3>3. QED
      BY <3>1, <3>2
  <2>2. QED
    BY <1>2, <1>3, <2>1, RoundMaps, Zenon DEF Contract!Next
<1>8. CASE TakeDocument
  <2>1. ~ lost' /\ phase' = phase /\ MovesPast(S, cursor, <<>>) /\ e.kind = "start"
    BY <1>2, <1>8, DocumentMoves, Zenon DEF TakeDocument
  <2>2. QED
    BY <1>2, <1>3, <2>1, RoundMaps, Zenon DEF Contract!Next
<1>9. CASE SkipValue
  <2>1. CASE lost'
    BY <1>2, <1>9, <2>1, LosingMaps, Zenon DEF Contract!Next
  <2>2. CASE ~ lost'
    <3>1. /\ phase' = phase /\ MovesPast(S, EndOf(cursor), <<>>) /\ e.kind # "end"
          /\ ~ (e.kind = "start" /\ MisleadingGap)
      BY <1>2, <1>9, <2>2, SkipMoves, Zenon DEF SkipValue
    <3>2. QED
      BY <1>2, <1>3, <2>2, <3>1, RoundMaps, Zenon DEF Contract!Next
  <2>3. QED
    BY <2>1, <2>2
<1>10. QED
  BY <1>4, <1>5, <1>6, <1>7, <1>8, <1>9, Zenon DEF ReaderStep

LEMMA ReaderMaps ==
  ASSUME NEW S, Reads(S), ReaderStep
  PROVE  [Contract!Next]_(Contract!vars)
<1>1. Written(S)
  BY Zenon DEF Reads
<1>2. UNCHANGED writer
  BY ReadersPhase, Zenon
<1>3. phase \in {"sent", "read"}
  BY DEF ReaderStep, ReadTop, ReadEnd, TakeString, TakeWord, TakeNull, TakeDocument,
     SkipValue, ReadError, AtEnd, AtItem, ValueAt
<1>4. CASE lost
  <2>1. lost'
    BY <1>4 DEF ReaderStep, ReadTop, ReadEnd, TakeString, TakeWord, TakeNull, TakeDocument,
       SkipValue, ReadError, reader
  <2>2. QED
    BY <1>2, <1>4, <2>1, LostMaps, Zenon
<1>5. CASE ~ lost /\ phase = "sent"
  <2>1. phase # "read"
    BY <1>5
  <2>2. ~ AtEnd /\ ~ AtItem
    BY <2>1, Zenon DEF AtEnd, AtItem, ValueAt
  <2>3. ~ ReadError
    BY <1>1, <2>1, NoError, Zenon
  <2>4. ReadTop
    BY <2>2, <2>3, Zenon DEF ReaderStep, ReadEnd, TakeString, TakeWord, TakeNull, TakeDocument,
       SkipValue
  <2>5. QED
    BY <2>4, ReadTopMaps, Zenon DEF Contract!Next
<1>6. CASE ~ lost /\ phase = "read"
  <2>1. Reading(S)
    BY <1>6, Zenon DEF Reads, Placed
  <2>2. QED
    BY <1>1, <1>6, <2>1, PlacedMaps, Zenon
<1>7. QED
  BY <1>3, <1>4, <1>5, <1>6

-----------------------------------------------------------------------------
(* Every behaviour is one of the contract. *)

LEMMA InitMaps == Init => Contract!Init
<1> SUFFICES ASSUME Init
             PROVE  Contract!Init
  OBVIOUS
<1>1. phase = "write" /\ events = <<>> /\ cursor = 1 /\ got = <<>> /\ ~ lost
  BY DEF Init
<1>2. Stage = "write"
  BY <1>1 DEF Stage
<1>3. Sent = <<>>
  BY <1>1 DEF Sent
<1>4. Passed = 0
  <2>1. Passed = 1 - 1
    BY <1>1, Zenon DEF Passed
  <2>2. QED
    BY <2>1
<1>5. Taken = <<>>
  BY <1>1, Zenon DEF Taken
<1>6. QED
  BY <1>2, <1>3, <1>4, <1>5, Zenon
     DEF Contract!Init, Contract!Nothing, Stage, Sent, Passed, Taken

LEMMA StepMaps == IInv /\ [Next]_vars => [Contract!Next]_(Contract!vars)
<1> SUFFICES ASSUME IInv, [Next]_vars
             PROVE  [Contract!Next]_(Contract!vars)
  OBVIOUS
<1>1. PICK S : Reads(S)
  BY Zenon DEF IInv
<1>2. CASE WriteTop \/ WriteDocument \/ WriteItem \/ WriteEnd
  BY <1>1, <1>2, WriterMaps, Zenon DEF Contract!Next
<1>3. CASE Deliver
  BY <1>1, <1>3, DeliverMaps, Zenon DEF Contract!Next
<1>4. CASE ReaderStep
  BY <1>1, <1>4, ReaderMaps, Zenon
<1>5. CASE UNCHANGED vars
  <2>1. phase' = phase /\ UNCHANGED writer /\ UNCHANGED reader
    BY <1>5 DEF vars
  <2>2. cursor' = cursor /\ got' = got /\ lost' = lost
    BY <2>1 DEF reader
  <2>3. Sent' = Sent
    BY <2>1, SentSame, Zenon
  <2>4. Stage' = Stage /\ Passed' = Passed /\ Taken' = Taken
    BY <2>1, <2>2, Zenon DEF Stage, Passed, Taken
  <2>5. QED
    BY <2>3, <2>4, StutterMaps, Zenon
<1>6. QED
  BY <1>2, <1>3, <1>4, <1>5, Zenon DEF Next, ReaderStep

(***************************************************************************)
(* The codec keeps the contract of codec.hpp (json.hpp:48-441), in every   *)
(* layout: whatever is taken, entered or skipped, at any depth, the loops  *)
(* are given the tokens that were written, in their order, with their keys *)
(* and with the values that went in, and no text is refused.               *)
(***************************************************************************)
THEOREM ContractIsKept == Spec => KeepsContract
BY InitMaps, StepMaps, Invariant, PTL DEF Spec, KeepsContract, Contract!Spec

-----------------------------------------------------------------------------
(* What CodecContractProofs proves of a reader holds of this one.          *)

AnyReader ==
  INSTANCE CodecContractProofs WITH
    stage   <- CASE lost -> "lost"
                 [] ~ lost /\ phase = "error" -> "failed"
                 [] OTHER -> phase,
    written <- [k \in DOMAIN events |-> TokenOf(events[k])],
    intact  <- TRUE,
    passed  <- IF lost THEN 0 ELSE cursor - 1,
    given   <- IF lost THEN <<>> ELSE got

\* Both instances of the contract count, and find ends, alike.
LEMMA SameOpen ==
  ASSUME NEW s
  PROVE  Contract!Open(s) = AnyReader!Open(s)
BY Zenon DEF Contract!Open, AnyReader!Open, Contract!CountOf, AnyReader!CountOf,
   Contract!Cardinality, AnyReader!Cardinality

LEMMA SameEndOf ==
  ASSUME NEW k
  PROVE  Contract!EndOf(k) = AnyReader!EndOf(k)
BY SameOpen, Zenon DEF Contract!EndOf, AnyReader!EndOf

LEMMA SameLevel ==
  ASSUME NEW k
  PROVE  Contract!Level(k) = AnyReader!Level(k)
BY SameOpen, Zenon DEF Contract!Level, AnyReader!Level

\* They start alike, and take the same steps.
LEMMA SameInit == Contract!Init => AnyReader!Init
BY Zenon DEF Contract!Init, AnyReader!Init, Contract!Nothing, AnyReader!Nothing

LEMMA SameSteps ==
  [Contract!Next]_(Contract!vars) => [AnyReader!Next]_(AnyReader!vars)
<1>1. Contract!Write => AnyReader!Write
  BY SameOpen, Zenon DEF Contract!Write, AnyReader!Write
<1>2. Contract!Send => AnyReader!Send
  BY SameOpen, Zenon DEF Contract!Send, AnyReader!Send
<1>3. Contract!Begin => AnyReader!Begin
  BY Zenon DEF Contract!Begin, AnyReader!Begin
<1>4. Contract!Refuse => AnyReader!Refuse
  BY Zenon DEF Contract!Refuse, AnyReader!Refuse
<1>5. Contract!Enter => AnyReader!Enter
  BY Zenon DEF Contract!Enter, AnyReader!Enter, Contract!Reading,
     AnyReader!Reading, Contract!Coming, AnyReader!Coming, Contract!Nothing,
     AnyReader!Nothing
<1>6. Contract!Take => AnyReader!Take
  BY Zenon DEF Contract!Take, AnyReader!Take, Contract!Reading,
     AnyReader!Reading, Contract!Coming, AnyReader!Coming
<1>7. Contract!Skip => AnyReader!Skip
  BY SameEndOf, Zenon DEF Contract!Skip, AnyReader!Skip, Contract!Reading,
     AnyReader!Reading, Contract!Coming, AnyReader!Coming, Contract!Nothing,
     AnyReader!Nothing
<1>8. Contract!End => AnyReader!End
  BY Zenon DEF Contract!End, AnyReader!End, Contract!Reading,
     AnyReader!Reading, Contract!Coming, AnyReader!Coming, Contract!Nothing,
     AnyReader!Nothing
<1>9. Contract!Lose => AnyReader!Lose
  BY Zenon DEF Contract!Lose, AnyReader!Lose, Contract!Coming,
     AnyReader!Coming, Contract!Nothing, AnyReader!Nothing
<1>10. UNCHANGED Contract!vars => UNCHANGED AnyReader!vars
  BY Zenon DEF Contract!vars, AnyReader!vars
<1>11. QED
  BY <1>1, <1>2, <1>3, <1>4, <1>5, <1>6, <1>7, <1>8, <1>9, <1>10, Zenon
     DEF Contract!Next, AnyReader!Next

(***************************************************************************)
(* Reading JSON, whichever fields an entity takes, enters or skips: the    *)
(* reader stays inside the document it has begun until that ends, is given *)
(* what was written at the place it has come to, and passes one token or   *)
(* one whole document at a time (json.hpp:91-357).                         *)
(***************************************************************************)
THEOREM ReaderKeepsItsPlace ==
  Spec =>
    /\ []Contract!InsideDocument
    /\ []Contract!GivenWasWritten
    /\ Contract!PassesOneValue
<1>1. AnyReader!InsideDocument => Contract!InsideDocument
  BY SameLevel, Zenon DEF Contract!InsideDocument, AnyReader!InsideDocument
<1>2. AnyReader!GivenWasWritten => Contract!GivenWasWritten
  BY Zenon DEF Contract!GivenWasWritten, AnyReader!GivenWasWritten,
     Contract!Nothing, AnyReader!Nothing
<1>3. Contract!Spec => AnyReader!Spec
  BY SameInit, SameSteps, PTL DEF Contract!Spec, AnyReader!Spec
<1>4. AnyReader!PassesOneValue => Contract!PassesOneValue
  <2>1. UNCHANGED Contract!vars <=> UNCHANGED AnyReader!vars
    BY Zenon DEF Contract!vars, AnyReader!vars
  <2>2. Contract!Coming = AnyReader!Coming /\ \A k : Contract!Level(k) = AnyReader!Level(k)
    BY SameLevel, Zenon DEF Contract!Coming, AnyReader!Coming
  <2>3. AnyReader!PassesOne => Contract!PassesOne
    BY <2>2, Zenon DEF Contract!PassesOne, AnyReader!PassesOne
  <2>4. [AnyReader!PassesOne]_(AnyReader!vars) => [Contract!PassesOne]_(Contract!vars)
    BY <2>1, <2>3, Zenon
  <2>5. QED
    BY <2>4, PTL DEF Contract!PassesOneValue, AnyReader!PassesOneValue
<1>5. QED
  BY <1>1, <1>2, <1>3, <1>4, ContractIsKept, AnyReader!ReaderStaysInside,
     AnyReader!ReaderIsGivenWhatWasWritten, AnyReader!ReaderPassesOneValue, PTL DEF KeepsContract
=============================================================================
