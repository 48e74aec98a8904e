--------------------------- MODULE JsonScanProofs ---------------------------
(***************************************************************************)
(* The scans of JsonCodec: what SkipWhitespace, validate, StringEnd, skip  *)
(* and the rest do over each part of a text.                               *)
(***************************************************************************)
EXTENDS JsonProper, SequenceTheorems, FiniteSetTheorems, WellFoundedInduction,
        TLAPS

-----------------------------------------------------------------------------
(* Numbers, sequences and recursive functions. *)

\* Every nonempty set of natural numbers has a least element.
LEMMA LeastElement ==
  ASSUME NEW T \in SUBSET Nat, T # {}
  PROVE  \E x \in T : \A y \in T : x <= y
<1> DEFINE R == {ss \in Nat \X Nat : ss[1] < ss[2]}
<1>1. IsWellFoundedOn(R, Nat)
  BY NatLessThanWellFounded, Zenon DEF OpToRel
<1>2. \A x, y \in Nat : <<y, x>> \in R <=> y < x
  OBVIOUS
<1> HIDE DEF R
<1>3. PICK x \in T : \A y \in T : ~ (<<y, x>> \in R)
  BY <1>1, WFMin, Zenon
<1>4. \A y \in T : ~ (y < x)
  BY <1>2, <1>3, Zenon
<1>5. QED
  BY <1>4

\* Every nonempty set of numbers up to n has a greatest element.
LEMMA GreatestElement ==
  ASSUME NEW n \in Nat, NEW T \in SUBSET (0 .. n), T # {}
  PROVE  \E x \in T : \A y \in T : y <= x
<1> DEFINE U == {z \in Nat : z <= n /\ n - z \in T}
<1>1. PICK t : t \in T
  OBVIOUS
<1>2. n - t \in U
  BY <1>1
<1>3. U \in SUBSET Nat /\ U # {}
  BY <1>2
<1>4. PICK z \in U : \A y \in U : z <= y
  BY <1>3, LeastElement
<1>5. \A y \in T : n - y \in U
  OBVIOUS
<1>6. n - z \in T
  BY <1>4
<1>7. \A y \in T : y <= n - z
  BY <1>4, <1>5
<1>8. QED
  BY <1>6, <1>7

(***************************************************************************)
(* A recursive definition of a function is met by some function when each  *)
(* of its values rests on values of a smaller measure only, and measures   *)
(* are bounded.  H[d][f] is the definition's body at d, f the function.    *)
(***************************************************************************)
Descends(D, V, N, m, H) ==
  /\ V # {} /\ N \in Nat
  /\ m \in [D -> 0 .. N]
  /\ H \in [D -> [[D -> V] -> V]]
  /\ \A d \in D : \A f, g \in [D -> V] :
       (\A c \in D : m[c] < m[d] => f[c] = g[c]) => H[d][f] = H[d][g]

Met(D, V, H) == \E f \in [D -> V] : \A d \in D : f[d] = H[d][f]

LEMMA Descent ==
  ASSUME NEW D, NEW V, NEW N, NEW m, NEW H, Descends(D, V, N, m, H)
  PROVE  Met(D, V, H)
<1> USE DEF Descends
<1>0. PICK v : v \in V
  OBVIOUS
<1> DEFINE Meets(f, k) == \A d \in D : m[d] < k => f[d] = H[d][f]
           T == {k \in Nat : \A f \in [D -> V] : ~ Meets(f, k)}
<1>1. ASSUME NEW k \in Nat, NEW f \in [D -> V], Meets(f, k)
      PROVE  \E g \in [D -> V] : Meets(g, k + 1)
  <2> DEFINE g == [d \in D |-> H[d][f]]
  <2>1. g \in [D -> V]
    OBVIOUS
  <2>2. \A d \in D : m[d] < k => f[d] = g[d]
    BY <1>1
  <2>3. ASSUME NEW d \in D, m[d] < k + 1
        PROVE  g[d] = H[d][g]
    <3>1. \A c \in D : m[c] < m[d] => m[c] < k
      BY <2>3
    <3>2. H[d][f] = H[d][g]
      BY <2>1, <2>2, <3>1
    <3>3. QED
      BY <3>2
  <2>4. QED
    BY <2>1, <2>3
<1> HIDE DEF Meets
<1>2. T = {}
  <2>1. SUFFICES ASSUME T # {}
                 PROVE  FALSE
    OBVIOUS
  <2>2. PICK k \in T : \A j \in T : k <= j
    BY <2>1, LeastElement
  <2>3. CASE k = 0
    <3>1. [d \in D |-> v] \in [D -> V]
      BY <1>0
    <3>2. Meets([d \in D |-> v], 0)
      <4>1. \A d \in D : ~ (m[d] < 0)
        OBVIOUS
      <4>2. QED
        BY <4>1 DEF Meets
    <3>3. QED
      BY <2>2, <2>3, <3>1, <3>2
  <2>4. CASE k # 0
    <3>1. PICK j \in Nat : k = j + 1
      BY <2>4
    <3>2. j \notin T
      BY <2>2, <3>1
    <3>3. PICK f \in [D -> V] : Meets(f, j)
      BY <3>2
    <3>4. \E g \in [D -> V] : Meets(g, j + 1)
      BY <1>1, <3>3
    <3>5. QED
      BY <3>1, <3>4
  <2>5. QED
    BY <2>3, <2>4
<1>3. N + 1 \in Nat
  OBVIOUS
<1>4. PICK f \in [D -> V] : Meets(f, N + 1)
  BY <1>2, <1>3, Zenon
<1>5. \A d \in D : m[d] < N + 1
  OBVIOUS
<1>6. \A d \in D : f[d] = H[d][f]
  BY <1>4, <1>5 DEF Meets
<1>7. QED
  BY <1>6 DEF Met

\* An element more, and one less.
LEMMA AppendIs ==
  ASSUME NEW S, NEW s \in Seq(S), NEW e \in S
  PROVE  /\ Append(s, e) \in Seq(S)
         /\ Len(Append(s, e)) = Len(s) + 1
         /\ \A k \in 1 .. Len(s) : Append(s, e)[k] = s[k]
         /\ Append(s, e)[Len(s) + 1] = e
OBVIOUS

LEMMA FrontIs ==
  ASSUME NEW S, NEW s \in Seq(S), s # <<>>
  PROVE  /\ Front(s) \in Seq(S)
         /\ Len(s) \in Nat \ {0} /\ Len(Front(s)) = Len(s) - 1
         /\ \A k \in 1 .. Len(s) - 1 : Front(s)[k] = s[k]
         /\ Last(s) = s[Len(s)] /\ Last(s) \in S
<1>1. Len(s) \in Nat \ {0} /\ Len(s) - 1 \in Nat
  OBVIOUS
<1>2. Front(s) = [k \in 1 .. Len(s) - 1 |-> s[k]]
  BY <1>1 DEF Front, SubSeq
<1>3. Front(s) \in Seq(S)
  BY <1>1, <1>2
<1>4. QED
  BY <1>1, <1>2, <1>3 DEF Last

\* One sequence after another.
LEMMA ConcatIs ==
  ASSUME NEW S, NEW s \in Seq(S), NEW t \in Seq(S)
  PROVE  /\ s \o t \in Seq(S)
         /\ Len(s \o t) = Len(s) + Len(t)
         /\ \A q \in 1 .. Len(s) : (s \o t)[q] = s[q]
         /\ \A q \in 1 .. Len(t) : (s \o t)[Len(s) + q] = t[q]
OBVIOUS

\* Where a scan stops.
LEMMA FirstIs ==
  ASSUME NEW S \in SUBSET Nat, NEW none
  PROVE  /\ S = {} => First(S, none) = none
         /\ S # {} => First(S, none) \in S
         /\ \A e \in S : First(S, none) \in S /\ First(S, none) <= e
<1>1. CASE S = {}
  BY <1>1 DEF First
<1>2. CASE S # {}
  <2>1. \E e \in S : \A f \in S : e <= f
    BY <1>2, LeastElement
  <2>2. First(S, none) = CHOOSE e \in S : \A f \in S : e <= f
    BY <1>2 DEF First
  <2>3. First(S, none) \in S /\ \A f \in S : First(S, none) <= f
    BY <2>1, <2>2
  <2>4. QED
    BY <1>2, <2>3
<1>3. QED
  BY <1>1, <1>2

\* The least of the positions is the one that has the others behind it.
LEMMA FirstEquals ==
  ASSUME NEW S \in SUBSET Nat, NEW none, NEW e \in S, \A f \in S : e <= f
  PROVE  First(S, none) = e
<1>1. First(S, none) \in S /\ First(S, none) <= e
  BY FirstIs, Zenon
<1>2. PICK x : x = First(S, none)
  BY Zenon
<1>3. x \in S /\ x <= e /\ e <= x
  BY <1>1, <1>2
<1>4. x \in Nat /\ e \in Nat
  BY <1>3
<1>5. QED
  BY <1>2, <1>3, <1>4

-----------------------------------------------------------------------------
(* The equations of the scans. *)

Text == text \in Seq(Symbols)

LEMMA SizeIsNat == Text => Size \in Nat
BY DEF Text, Size

\* A position in the text.
LEMMA InText ==
  ASSUME Text, NEW p \in Nat, p < Size
  PROVE  Size \in Nat /\ p # -1 /\ ~ (p >= Size) /\ p + 1 \in Nat /\ p + 1 <= Size
BY SizeIsNat

\* How much of the text is left.
Left(p) == IF p < Size THEN Size - p ELSE 0

LEMMA LeftIs ==
  ASSUME Text, NEW p \in Nat
  PROVE  /\ Left(p) \in 0 .. Size
         /\ \A q \in Nat : p < Size /\ p < q => Left(q) < Left(p)
<1>1. Size \in Nat
  BY SizeIsNat
<1>2. QED
  BY <1>1 DEF Left

\* A comment is an error or ends behind its second symbol, at the latest just
\* after the text.
LEMMA CommentEnd ==
  ASSUME Text, NEW p \in Nat, p < Size
  PROVE  /\ SkipComment(p) \in Int
         /\ SkipComment(p) # -1 => SkipComment(p) > p /\ SkipComment(p) <= Size
<1> DEFINE LineEnds  == {e \in p + 1 .. Size - 1 : At(e) \in {"\n", "\r"}}
           BlockEnds == {e \in p + 2 .. Size - 1 : At(e - 1) = "*" /\ At(e) = "/"}
           none      == IF p + 1 < Size THEN Size - 1 ELSE Size
<1>1. Size \in Nat
  BY SizeIsNat
<1>2. /\ \A e \in LineEnds : e \in p + 1 .. Size - 1
      /\ \A e \in BlockEnds : e \in p + 2 .. Size - 1
  OBVIOUS
<1>3. none \in p + 1 .. Size
  BY <1>1
<1>4. SkipComment(p) = CASE At(p) = "/" -> First(LineEnds, Size)
                         [] At(p) = "*" -> First(BlockEnds, none)
                         [] OTHER -> -1
  BY DEF SkipComment
<1> HIDE DEF LineEnds, BlockEnds, none
<1>5. LineEnds \in SUBSET Nat /\ BlockEnds \in SUBSET Nat
  BY <1>1, <1>2
<1>6. First(LineEnds, Size) = Size \/ First(LineEnds, Size) \in LineEnds
  BY <1>5, FirstIs, Zenon
<1>7. First(BlockEnds, none) = none \/ First(BlockEnds, none) \in BlockEnds
  BY <1>5, FirstIs, Zenon
<1>8. PICK l, b : l = First(LineEnds, Size) /\ b = First(BlockEnds, none)
  BY Zenon
<1>9. l \in p + 1 .. Size
  <2>1. l = Size \/ l \in LineEnds
    BY <1>6, <1>8, Zenon
  <2>2. QED
    BY <1>1, <1>2, <2>1
<1>10. b \in p + 1 .. Size
  <2>1. b = none \/ b \in BlockEnds
    BY <1>7, <1>8, Zenon
  <2>2. QED
    BY <1>1, <1>2, <1>3, <2>1
<1>11. SkipComment(p) = l \/ SkipComment(p) = b \/ SkipComment(p) = -1
  BY <1>4, <1>8
<1>12. QED
  BY <1>1, <1>9, <1>10, <1>11

\* skip_whitespace, one turn at a time.
LEMMA SkipEquation ==
  ASSUME Text, NEW p \in Nat
  PROVE  SkipWhitespace(p) =
           IF p >= Size THEN p
           ELSE IF At(p) \in Whitespace THEN SkipWhitespace(p + 1)
           ELSE IF At(p) # "/" THEN p
           ELSE IF p + 1 = Size THEN Size
           ELSE IF SkipComment(p + 1) = -1 THEN -1
           ELSE SkipWhitespace(SkipComment(p + 1) + 1)
<1> DEFINE Body(q, g) ==
             IF q >= Size THEN q
             ELSE IF At(q) \in Whitespace THEN g[q + 1]
             ELSE IF At(q) # "/" THEN q
             ELSE IF q + 1 = Size THEN Size
             ELSE IF SkipComment(q + 1) = -1 THEN -1
             ELSE g[SkipComment(q + 1) + 1]
           m == [q \in Nat |-> Left(q)]
           H == [q \in Nat |-> [g \in [Nat -> Int] |-> Body(q, g)]]
<1>1. Size \in Nat
  BY SizeIsNat
<1>2. ASSUME NEW q \in Nat, q < Size, q + 1 # Size, SkipComment(q + 1) # -1
      PROVE  SkipComment(q + 1) + 1 \in Nat /\ SkipComment(q + 1) + 1 > q
  BY <1>1, <1>2, CommentEnd
<1>3. m \in [Nat -> 0 .. Size]
  BY LeftIs
<1>4. ASSUME NEW q \in Nat, NEW g \in [Nat -> Int]
      PROVE  Body(q, g) \in Int
  BY <1>1, <1>2
<1>5. H \in [Nat -> [[Nat -> Int] -> Int]]
  BY <1>4
<1>6. ASSUME NEW q \in Nat, NEW f \in [Nat -> Int], NEW g \in [Nat -> Int],
             \A c \in Nat : m[c] < m[q] => f[c] = g[c]
      PROVE  H[q][f] = H[q][g]
  <2>1. \A c \in Nat : q < Size /\ q < c => f[c] = g[c]
    BY <1>6, LeftIs
  <2>2. Body(q, f) = Body(q, g)
    BY <1>1, <1>2, <2>1
  <2>3. QED
    BY <2>2
<1> HIDE DEF m
<1>7. PICK f \in [Nat -> Int] : \A q \in Nat : f[q] = H[q][f]
  <2> HIDE DEF H
  <2> Int # {}
    OBVIOUS
  <2>1. Descends(Nat, Int, Size, m, H)
    BY <1>1, <1>3, <1>5, <1>6, Zenon DEF Descends
  <2>2. Met(Nat, Int, H)
    BY <2>1, Descent
  <2>3. QED
    BY <2>2 DEF Met
<1>8. \A q \in Nat : f[q] = Body(q, f)
  BY <1>7
<1>9. f = [q \in Nat |-> Body(q, f)]
  BY <1>8
<1> HIDE DEF H
<1> DEFINE skip == CHOOSE g : g = [q \in Nat |-> Body(q, g)]
<1>10. skip = [q \in Nat |-> Body(q, skip)]
  BY <1>9
<1>11. \A q \in Nat : SkipWhitespace(q) = skip[q]
  BY DEF SkipWhitespace
<1> HIDE DEF skip
<1>12. \A q \in Nat : skip[q] = Body(q, skip)
  BY <1>10
<1>13. p < Size /\ p + 1 # Size /\ SkipComment(p + 1) # -1 =>
         SkipWhitespace(SkipComment(p + 1) + 1) = skip[SkipComment(p + 1) + 1]
  BY <1>2, <1>11
<1>14. QED
  BY <1>1, <1>11, <1>12, <1>13

\* skip_whitespace never goes back.
LEMMA SkipBounds ==
  ASSUME Text, NEW p \in Nat
  PROVE  SkipWhitespace(p) \in Int /\ (SkipWhitespace(p) = -1 \/ SkipWhitespace(p) >= p)
<1> DEFINE Fine(q) == SkipWhitespace(q) \in Int
                        /\ (SkipWhitespace(q) = -1 \/ SkipWhitespace(q) >= q)
           T == {q \in 0 .. Size : ~ Fine(q)}
<1>1. Size \in Nat
  BY SizeIsNat
<1>2. ASSUME NEW q \in Nat, q >= Size
      PROVE  Fine(q)
  BY <1>1, <1>2, SkipEquation
<1>3. ASSUME NEW q \in Nat, q < Size, \A r \in Nat : r > q => Fine(r)
      PROVE  Fine(q)
  <2>1. q + 1 # Size => /\ SkipComment(q + 1) \in Int
                        /\ SkipComment(q + 1) # -1 => SkipComment(q + 1) > q + 1
    BY <1>1, <1>3, CommentEnd
  <2>2. SkipWhitespace(q) =
           IF At(q) \in Whitespace THEN SkipWhitespace(q + 1)
           ELSE IF At(q) # "/" THEN q
           ELSE IF q + 1 = Size THEN Size
           ELSE IF SkipComment(q + 1) = -1 THEN -1
           ELSE SkipWhitespace(SkipComment(q + 1) + 1)
    BY <1>1, <1>3, SkipEquation
  <2>3. CASE At(q) \in Whitespace
    <3>1. Fine(q + 1)
      BY <1>3
    <3>2. SkipWhitespace(q) = SkipWhitespace(q + 1)
      BY <2>2, <2>3
    <3>3. QED
      BY <3>1, <3>2
  <2>4. CASE At(q) \notin Whitespace /\ At(q) = "/" /\ q + 1 # Size /\ SkipComment(q + 1) # -1
    <3>1. PICK c \in Nat : c = SkipComment(q + 1) + 1 /\ c > q
      BY <2>1, <2>4
    <3>2. Fine(c)
      BY <1>3, <3>1
    <3>3. SkipWhitespace(q) = SkipWhitespace(c)
      BY <2>2, <2>4, <3>1
    <3>4. QED
      BY <3>1, <3>2, <3>3
  <2>5. CASE At(q) \notin Whitespace
               /\ ~ (At(q) = "/" /\ q + 1 # Size /\ SkipComment(q + 1) # -1)
    <3>1. SkipWhitespace(q) \in {q, Size, -1}
      BY <2>2, <2>5
    <3>2. QED
      BY <1>1, <1>3, <3>1
  <2>6. QED
    BY <2>3, <2>4, <2>5
<1> HIDE DEF Fine
<1>4. T = {}
  <2>1. SUFFICES ASSUME T # {}
                 PROVE  FALSE
    OBVIOUS
  <2>2. T \in SUBSET (0 .. Size)
    OBVIOUS
  <2>3. PICK x \in T : \A y \in T : y <= x
    BY <1>1, <2>1, <2>2, GreatestElement
  <2>4. x \in Nat /\ ~ Fine(x) /\ x < Size
    BY <1>1, <1>2
  <2>5. \A r \in Nat : r > x => Fine(r)
    BY <1>1, <1>2, <2>3
  <2>6. QED
    BY <1>3, <2>4, <2>5
<1>5. Fine(p)
  BY <1>1, <1>2, <1>4
<1>6. QED
  BY <1>5 DEF Fine

\* Where validate looks next.
Place(s) == IF s.quotes THEN s.at ELSE SkipWhitespace(s.at)

Turned(s, p) == IF At(p) = Quote /\ ~ s.ignore THEN ~ s.quotes ELSE s.quotes

Deeper(s, p) ==
  CASE At(p) = "{" /\ ~ s.quotes -> Append(s.levels, "}")
    [] At(p) = "[" /\ ~ s.quotes -> Append(s.levels, "]")
    [] OTHER -> s.levels

LEMMA ChecksAre ==
  ASSUME Text, NEW s \in Checks
  PROVE  /\ s.at \in Nat /\ s.levels \in Seq({"}", "]"})
         /\ s.quotes \in BOOLEAN /\ s.ignore \in BOOLEAN
         /\ Place(s) \in Int
         /\ Place(s) # -1 => Place(s) >= s.at
         /\ \A p \in Nat : Check(p, FALSE, FALSE, s.levels) \in Checks
         /\ \A p \in Nat : s.levels # <<>> =>
              Check(p, FALSE, FALSE, Front(s.levels)) \in Checks
         /\ \A p, q \in Nat : Check(p, Turned(s, q), Turned(s, q) /\ At(q) = Escape,
                                    Deeper(s, q)) \in Checks
<1>1. s.at \in Nat /\ s.levels \in Seq({"}", "]"}) /\ s.quotes \in BOOLEAN /\ s.ignore \in BOOLEAN
  BY DEF Checks
<1>2. Place(s) \in Int /\ (Place(s) # -1 => Place(s) >= s.at)
  <2>1. SkipWhitespace(s.at) \in Int
          /\ (SkipWhitespace(s.at) = -1 \/ SkipWhitespace(s.at) >= s.at)
    BY <1>1, SkipBounds
  <2>2. CASE s.quotes
    <3>1. Place(s) = s.at
      BY <2>2, Zenon DEF Place
    <3>2. s.at \in Nat
      BY <1>1
    <3>3. QED
      BY <3>1, <3>2
  <2>3. CASE ~ s.quotes
    <3>1. Place(s) = SkipWhitespace(s.at)
      BY <2>3, Zenon DEF Place
    <3>2. QED
      BY <1>1, <2>1, <3>1
  <2>4. QED
    BY <2>2, <2>3
<1>3. \A p \in Nat : Check(p, FALSE, FALSE, s.levels) \in Checks
  BY <1>1 DEF Check, Checks
<1>4. \A p \in Nat : s.levels # <<>> => Check(p, FALSE, FALSE, Front(s.levels)) \in Checks
  <2>1. s.levels # <<>> => Front(s.levels) \in Seq({"}", "]"})
    BY <1>1, FrontIs, Zenon
  <2>2. QED
    BY <2>1 DEF Check, Checks
<1>5. \A q \in Nat : Turned(s, q) \in BOOLEAN /\ Deeper(s, q) \in Seq({"}", "]"})
  <2>1. \A q \in Nat : Turned(s, q) \in BOOLEAN
    BY <1>1, Zenon DEF Turned
  <2>2. Append(s.levels, "}") \in Seq({"}", "]"}) /\ Append(s.levels, "]") \in Seq({"}", "]"})
    BY <1>1, "}" \in {"}", "]"}, "]" \in {"}", "]"}, AppendIs, Zenon
  <2>3. \A q \in Nat : Deeper(s, q) \in Seq({"}", "]"})
    BY <1>1, <2>2 DEF Deeper
  <2>4. QED
    BY <2>1, <2>3
<1>6. \A p, q \in Nat : Check(p, Turned(s, q), Turned(s, q) /\ At(q) = Escape,
                              Deeper(s, q)) \in Checks
  <2>1. \A q \in Nat : (Turned(s, q) /\ At(q) = Escape) \in BOOLEAN
    BY Zenon
  <2>2. QED
    BY <1>5, <2>1, Zenon DEF Check, Checks
<1>7. QED
  BY <1>1, <1>2, <1>3, <1>4, <1>6

\* validate, one turn at a time.
LEMMA BalancedEquation ==
  ASSUME Text, NEW s \in Checks
  PROVE  Balanced[s] =
           IF Place(s) = -1 THEN FALSE
           ELSE IF Place(s) >= Size THEN s.levels = <<>>
           ELSE IF ~ s.quotes /\ At(Place(s)) \in {"}", "]"}
           THEN /\ s.levels # <<>> /\ Last(s.levels) = At(Place(s))
                /\ Balanced[Check(Place(s) + 1, FALSE, FALSE, Front(s.levels))]
           ELSE Balanced[Check(Place(s) + 1, Turned(s, Place(s)),
                               Turned(s, Place(s)) /\ At(Place(s)) = Escape,
                               Deeper(s, Place(s)))]
<1> DEFINE Closing(t) == Check(Place(t) + 1, FALSE, FALSE, Front(t.levels))
           Going(t)   == Check(Place(t) + 1, Turned(t, Place(t)),
                               Turned(t, Place(t)) /\ At(Place(t)) = Escape,
                               Deeper(t, Place(t)))
           Body(t, g) ==
             IF Place(t) = -1 THEN FALSE
             ELSE IF Place(t) >= Size THEN t.levels = <<>>
             ELSE IF ~ t.quotes /\ At(Place(t)) \in {"}", "]"}
             THEN /\ t.levels # <<>> /\ Last(t.levels) = At(Place(t))
                  /\ g[Closing(t)]
             ELSE g[Going(t)]
           m == [t \in Checks |-> Left(t.at)]
           H == [t \in Checks |-> [g \in [Checks -> BOOLEAN] |-> Body(t, g)]]
<1>1. Size \in Nat
  BY SizeIsNat
<1>2. ASSUME NEW t \in Checks, Place(t) # -1, ~ (Place(t) >= Size)
      PROVE  /\ t.levels # <<>> => Closing(t) \in Checks /\ m[Closing(t)] < m[t]
             /\ Going(t) \in Checks /\ m[Going(t)] < m[t]
  <2>1. t.at \in Nat /\ Place(t) \in Int /\ Place(t) >= t.at
    BY <1>2, ChecksAre
  <2>2. Place(t) \in Nat /\ Place(t) + 1 \in Nat /\ Place(t) + 1 > t.at /\ t.at < Size
    BY <1>1, <1>2, <2>1
  <2>3. t.levels # <<>> => Closing(t) \in Checks
    BY <2>2, ChecksAre
  <2>4. Going(t) \in Checks
    BY <2>2, ChecksAre
  <2>5. Closing(t).at = Place(t) + 1 /\ Going(t).at = Place(t) + 1
    BY DEF Check
  <2>6. Left(Place(t) + 1) < Left(t.at)
    BY <2>1, <2>2, LeftIs
  <2> HIDE DEF Closing, Going
  <2>7. QED
    BY <2>3, <2>4, <2>5, <2>6
<1>3. m \in [Checks -> 0 .. Size]
  BY LeftIs, ChecksAre
<1> HIDE DEF m, Closing, Going
<1>4. ASSUME NEW t \in Checks, NEW g \in [Checks -> BOOLEAN]
      PROVE  Body(t, g) \in BOOLEAN
  <2>1. Going(t) \in Checks => g[Going(t)] \in BOOLEAN
    BY Zenon
  <2>2. QED
    BY <1>2, <2>1, Zenon
<1>5. H \in [Checks -> [[Checks -> BOOLEAN] -> BOOLEAN]]
  BY <1>4, Zenon
<1>6. ASSUME NEW t \in Checks, NEW f \in [Checks -> BOOLEAN], NEW g \in [Checks -> BOOLEAN],
             \A c \in Checks : m[c] < m[t] => f[c] = g[c]
      PROVE  H[t][f] = H[t][g]
  <2>1. Place(t) # -1 /\ ~ (Place(t) >= Size) =>
          /\ t.levels # <<>> => f[Closing(t)] = g[Closing(t)]
          /\ f[Going(t)] = g[Going(t)]
    BY <1>2, <1>6, Zenon
  <2>2. Body(t, f) = Body(t, g)
    <3>1. CASE Place(t) # -1 /\ ~ (Place(t) >= Size)
      <4>1. CASE t.levels # <<>>
        BY <2>1, <3>1, <4>1, Zenon
      <4>2. CASE t.levels = <<>>
        BY <2>1, <3>1, <4>2, Zenon
      <4>3. QED
        BY <4>1, <4>2, Zenon
    <3>2. CASE ~ (Place(t) # -1 /\ ~ (Place(t) >= Size))
      BY <3>2, Zenon
    <3>3. QED
      BY <3>1, <3>2, Zenon
  <2>3. H[t][f] = Body(t, f) /\ H[t][g] = Body(t, g)
    BY Zenon
  <2>4. QED
    BY <2>2, <2>3, Zenon
<1>7. PICK f \in [Checks -> BOOLEAN] : \A t \in Checks : f[t] = H[t][f]
  <2> HIDE DEF H
  <2> BOOLEAN # {}
    OBVIOUS
  <2>1. Descends(Checks, BOOLEAN, Size, m, H)
    BY <1>1, <1>3, <1>5, <1>6, Zenon DEF Descends
  <2>2. Met(Checks, BOOLEAN, H)
    BY <2>1, Descent
  <2>3. QED
    BY <2>2 DEF Met
<1>8. \A t \in Checks : f[t] = Body(t, f)
  BY <1>7, Zenon
<1> HIDE DEF H
<1>9. f = [t \in Checks |-> Body(t, f)]
  <2> HIDE DEF Body
  <2>1. f = [t \in Checks |-> f[t]]
    BY Zenon
  <2>2. QED
    BY <1>8, <2>1, Zenon
<1>10. Balanced = CHOOSE g : g = [t \in Checks |-> Body(t, g)]
  BY Zenon DEF Balanced, Place, Turned, Deeper, Closing, Going
<1> HIDE DEF Body
<1>11. Balanced = [t \in Checks |-> Body(t, Balanced)]
  BY <1>9, <1>10, Zenon
<1>12. Balanced[s] = Body(s, Balanced)
  BY <1>11, Zenon
<1>13. QED
  BY <1>12, Zenon DEF Body, Closing, Going

LEMMA BalancedIsBoolean ==
  ASSUME Text, NEW s \in Checks
  PROVE  Balanced[s] \in BOOLEAN
<1> DEFINE T == {k \in Nat : \E x \in Checks : k = Left(x.at) /\ Balanced[x] \notin BOOLEAN}
<1>1. T = {}
  <2>1. SUFFICES ASSUME T # {}
                 PROVE  FALSE
    OBVIOUS
  <2>2. PICK k \in T : \A j \in T : k <= j
    <3>1. T \in SUBSET Nat
      OBVIOUS
    <3> HIDE DEF T
    <3>2. QED
      BY <2>1, <3>1, LeastElement, Zenon
  <2>3. PICK x \in Checks : k = Left(x.at) /\ Balanced[x] \notin BOOLEAN
    OBVIOUS
  <2>4. PICK p \in Int : p = Place(x)
    BY ChecksAre, Zenon
  <2>5. ASSUME NEW y \in Checks, y.at = p + 1, p # -1, ~ (p >= Size)
        PROVE  Balanced[y] \in BOOLEAN
    <3>1. x.at \in Nat /\ p >= x.at
      BY <2>4, <2>5, ChecksAre, Zenon
    <3>2. p + 1 \in Nat /\ x.at < p + 1 /\ x.at < Size
      BY <2>5, <3>1, SizeIsNat
    <3>3. Left(y.at) \in Nat /\ Left(y.at) < k
      BY <2>3, <2>5, <3>1, <3>2, LeftIs, SizeIsNat
    <3>4. ~ (Left(y.at) \in T)
      BY <2>2, <3>3
    <3>5. QED
      BY <3>3, <3>4
  <2>6. ASSUME p # -1, ~ (p >= Size)
        PROVE  /\ x.levels # <<>> =>
                    Balanced[Check(p + 1, FALSE, FALSE, Front(x.levels))] \in BOOLEAN
               /\ Balanced[Check(p + 1, Turned(x, p), Turned(x, p) /\ At(p) = Escape,
                                 Deeper(x, p))] \in BOOLEAN
    <3>1. p \in Nat /\ p + 1 \in Nat
      <4>1. x.at \in Nat /\ p >= x.at
        BY <2>4, <2>6, ChecksAre, Zenon
      <4>2. QED
        BY <4>1
    <3>2. \A a, b, c, d : Check(a, b, c, d).at = a
      BY DEF Check
    <3>3. x.levels # <<>> => Check(p + 1, FALSE, FALSE, Front(x.levels)) \in Checks
      BY <3>1, ChecksAre, Zenon
    <3>4. Check(p + 1, Turned(x, p), Turned(x, p) /\ At(p) = Escape, Deeper(x, p)) \in Checks
      BY <3>1, ChecksAre, Zenon
    <3>5. ASSUME NEW c, NEW d, NEW l, Check(p + 1, c, d, l) \in Checks
          PROVE  Balanced[Check(p + 1, c, d, l)] \in BOOLEAN
      <4>1. PICK y \in Checks : y = Check(p + 1, c, d, l)
        BY <3>5, Zenon
      <4>2. y.at = p + 1
        BY <3>2, <4>1, ZenonT(60)
      <4>3. QED
        BY <2>5, <2>6, <4>1, <4>2, Zenon
    <3>6. PICK no : no = FALSE
      OBVIOUS
    <3>7. x.levels # <<>> =>
            Balanced[Check(p + 1, no, no, Front(x.levels))] \in BOOLEAN
      BY <3>3, <3>5, <3>6, Zenon
    <3>8. PICK q, r : q = Turned(x, p) /\ r = (Turned(x, p) /\ At(p) = Escape)
      OBVIOUS
    <3>9. Balanced[Check(p + 1, q, r, Deeper(x, p))] \in BOOLEAN
      BY <3>4, <3>5, <3>8, Zenon
    <3>10. QED
      BY <3>6, <3>7, <3>8, <3>9, Zenon
  <2>7. Balanced[x] =
           IF p = -1 THEN FALSE
           ELSE IF p >= Size THEN x.levels = <<>>
           ELSE IF ~ x.quotes /\ At(p) \in {"}", "]"}
           THEN /\ x.levels # <<>> /\ Last(x.levels) = At(p)
                /\ Balanced[Check(p + 1, FALSE, FALSE, Front(x.levels))]
           ELSE Balanced[Check(p + 1, Turned(x, p), Turned(x, p) /\ At(p) = Escape,
                               Deeper(x, p))]
    BY <2>4, BalancedEquation, Zenon
  <2>8. Balanced[x] \in BOOLEAN
    BY <2>6, <2>7, Zenon
  <2>9. QED
    BY <2>3, <2>8
<1>2. Left(s.at) \in Nat
  <2>1. s.at \in Nat
    BY ChecksAre, Zenon
  <2>2. QED
    BY <2>1, LeftIs, SizeIsNat
<1>3. QED
  BY <1>1, <1>2

\* skip, one symbol at a time.
Counted(close, s) ==
  IF s.quotes THEN s.count
  ELSE IF At(s.at) = Opening(close) THEN s.count + 1
  ELSE IF At(s.at) = close THEN s.count - 1 ELSE s.count

OverSpace(s) == Count(s.at + 1, s.count, s.quotes, s.ignore)

OverSymbol(close, s) ==
  Count(s.at + 1, Counted(close, s), Turned(s, s.at), Turned(s, s.at) /\ At(s.at) = Escape)

DocumentTurn(close, s, g) ==
  IF s.at >= Size THEN s.at
  ELSE IF At(s.at) \in Whitespace THEN g[OverSpace(s)]
  ELSE IF Counted(close, s) = 0 THEN s.at ELSE g[OverSymbol(close, s)]

DocumentScan(close) == CHOOSE g : g = [s \in Counts |-> DocumentTurn(close, s, g)]

LEMMA CountsAre ==
  ASSUME NEW s \in Counts, NEW close
  PROVE  /\ s.at \in Nat /\ s.count \in Int
         /\ OverSpace(s) \in Counts /\ OverSpace(s).at = s.at + 1
         /\ OverSymbol(close, s) \in Counts /\ OverSymbol(close, s).at = s.at + 1
<1>1. s.at \in Nat /\ s.count \in Int /\ s.quotes \in BOOLEAN /\ s.ignore \in BOOLEAN
  BY DEF Counts
<1>2. OverSpace(s) \in Counts
  <2>1. s.at + 1 \in Nat
    BY <1>1
  <2>2. QED
    BY <1>1, <2>1, Zenon DEF OverSpace, Counts, Count
<1>3. OverSymbol(close, s) \in Counts
  <2>1. s.at + 1 \in Nat /\ s.count + 1 \in Int /\ s.count - 1 \in Int
    BY <1>1
  <2>2. Counted(close, s) \in Int
    BY <1>1, <2>1, Zenon DEF Counted
  <2>3. Turned(s, s.at) \in BOOLEAN
    BY <1>1, Zenon DEF Turned
  <2>4. (Turned(s, s.at) /\ At(s.at) = Escape) \in BOOLEAN
    BY Zenon
  <2>5. QED
    BY <2>1, <2>2, <2>3, <2>4, Zenon DEF OverSymbol, Counts, Count
<1>4. OverSpace(s).at = s.at + 1 /\ OverSymbol(close, s).at = s.at + 1
  BY DEF OverSpace, OverSymbol, Count
<1>5. QED
  BY <1>1, <1>2, <1>3, <1>4

LEMMA DocumentEquation ==
  ASSUME Text, NEW close
  PROVE  \A s \in Counts :
           DocumentScan(close)[s] = DocumentTurn(close, s, DocumentScan(close))
<1> DEFINE m == [s \in Counts |-> Left(s.at)]
           H == [s \in Counts |-> [g \in [Counts -> Nat] |-> DocumentTurn(close, s, g)]]
<1>1. Size \in Nat
  BY SizeIsNat
<1>2. ASSUME NEW s \in Counts, ~ (s.at >= Size)
      PROVE  m[OverSpace(s)] < m[s] /\ m[OverSymbol(close, s)] < m[s]
  <2>1. s.at \in Nat /\ s.at + 1 \in Nat /\ s.at < s.at + 1 /\ s.at < Size
    BY <1>1, <1>2, CountsAre
  <2>2. Left(s.at + 1) < Left(s.at)
    BY <2>1, LeftIs
  <2>3. QED
    BY <2>2, CountsAre
<1>3. m \in [Counts -> 0 .. Size]
  BY LeftIs, CountsAre
<1> HIDE DEF m
<1>4. ASSUME NEW s \in Counts, NEW g \in [Counts -> Nat]
      PROVE  DocumentTurn(close, s, g) \in Nat
  <2>1. s.at \in Nat /\ g[OverSpace(s)] \in Nat /\ g[OverSymbol(close, s)] \in Nat
    BY CountsAre, Zenon
  <2>2. QED
    BY <2>1, Zenon DEF DocumentTurn
<1>5. H \in [Counts -> [[Counts -> Nat] -> Nat]]
  BY <1>4, Zenon
<1>6. ASSUME NEW s \in Counts, NEW f \in [Counts -> Nat], NEW g \in [Counts -> Nat],
             \A c \in Counts : m[c] < m[s] => f[c] = g[c]
      PROVE  H[s][f] = H[s][g]
  <2>1. ~ (s.at >= Size) => /\ f[OverSpace(s)] = g[OverSpace(s)]
                            /\ f[OverSymbol(close, s)] = g[OverSymbol(close, s)]
    BY <1>2, <1>6, CountsAre, Zenon
  <2>2. DocumentTurn(close, s, f) = DocumentTurn(close, s, g)
    BY <2>1, Zenon DEF DocumentTurn
  <2>3. QED
    BY <2>2, Zenon
<1>7. PICK f \in [Counts -> Nat] : \A s \in Counts : f[s] = H[s][f]
  <2> HIDE DEF H
  <2> Nat # {}
    OBVIOUS
  <2>1. Descends(Counts, Nat, Size, m, H)
    BY <1>1, <1>3, <1>5, <1>6, Zenon DEF Descends
  <2>2. Met(Counts, Nat, H)
    BY <2>1, Descent
  <2>3. QED
    BY <2>2 DEF Met
<1>8. \A s \in Counts : f[s] = DocumentTurn(close, s, f)
  BY <1>7, Zenon
<1>9. f = [s \in Counts |-> DocumentTurn(close, s, f)]
  <2>1. f = [s \in Counts |-> f[s]]
    BY Zenon
  <2>2. QED
    BY <1>8, <2>1, Zenon
<1>10. DocumentScan(close) = [s \in Counts |-> DocumentTurn(close, s, DocumentScan(close))]
  BY <1>9, Zenon DEF DocumentScan
<1>11. QED
  BY <1>10, Zenon

LEMMA DocumentEndIs ==
  ASSUME NEW p, NEW close
  PROVE  DocumentEnd(p, close) = DocumentScan(close)[Count(p + 1, 1, FALSE, FALSE)]
BY Zenon DEF DocumentEnd, DocumentScan, DocumentTurn, OverSpace, OverSymbol, Counted, Turned

\* get of a string, one symbol or two at a time.
UnescapeTurn(s, k, g) ==
  IF k > Len(s) THEN <<>>
  ELSE IF s[k] # Escape THEN <<s[k]>> \o g[k + 1]
  ELSE IF k = Len(s) THEN <<>>
  ELSE MeaningOf(s[k + 1]) \o g[k + 2]

UnescapeScan(s) == CHOOSE g : g = [k \in Nat \ {0} |-> UnescapeTurn(s, k, g)]

LEMMA MeaningIs ==
  ASSUME NEW c \in Symbols
  PROVE  MeaningOf(c) \in Seq(Symbols)
<1>1. /\ "\t" \in Symbols /\ "\n" \in Symbols /\ "\r" \in Symbols /\ "\f" \in Symbols
      /\ "BS" \in Symbols /\ Escape \in Symbols /\ "u" \in Symbols
  BY SymbolsAssumption
<1>2. /\ <<"\t">> \in Seq(Symbols) /\ <<"\n">> \in Seq(Symbols)
      /\ <<"\r">> \in Seq(Symbols) /\ <<"\f">> \in Seq(Symbols)
      /\ <<"BS">> \in Seq(Symbols) /\ <<Escape, "u">> \in Seq(Symbols)
      /\ <<c>> \in Seq(Symbols) /\ <<>> \in Seq(Symbols)
  BY <1>1
<1>3. QED
  BY <1>2, Zenon DEF MeaningOf

LEMMA UnescapeEquation ==
  ASSUME NEW s \in Seq(Symbols)
  PROVE  \A k \in Nat \ {0} : UnescapeScan(s)[k] = UnescapeTurn(s, k, UnescapeScan(s))
<1> DEFINE D == Nat \ {0}
           S == Seq(Symbols)
           m == [k \in D |-> IF k <= Len(s) THEN Len(s) + 1 - k ELSE 0]
           H == [k \in D |-> [g \in [D -> S] |-> UnescapeTurn(s, k, g)]]
<1>1. Len(s) \in Nat
  OBVIOUS
<1>2. \A k \in D : /\ k + 1 \in D /\ k + 2 \in D
                   /\ ~ (k > Len(s)) => m[k + 1] < m[k] /\ m[k + 2] < m[k]
  BY <1>1
<1>3. m \in [D -> 0 .. Len(s) + 1]
  BY <1>1
<1>4. \A k \in D : /\ ~ (k > Len(s)) => <<s[k]>> \in S
                   /\ ~ (k > Len(s)) /\ k # Len(s) => MeaningOf(s[k + 1]) \in S
  <2>1. \A k \in D : /\ ~ (k > Len(s)) => s[k] \in Symbols
                     /\ ~ (k > Len(s)) /\ k # Len(s) => s[k + 1] \in Symbols
    BY <1>1
  <2>2. \A c \in Symbols : <<c>> \in S
    OBVIOUS
  <2>3. QED
    BY <2>1, <2>2, MeaningIs, Zenon
<1>5. \A x, y \in S : x \o y \in S
  OBVIOUS
<1>6. <<>> \in S
  OBVIOUS
<1> HIDE DEF m, D, S
<1>7. ASSUME NEW k \in D, NEW g \in [D -> S]
      PROVE  UnescapeTurn(s, k, g) \in S
  <2>1. g[k + 1] \in S /\ g[k + 2] \in S
    BY <1>2, Zenon
  <2>2. QED
    BY <1>4, <1>5, <1>6, <2>1, Zenon DEF UnescapeTurn
<1>8. H \in [D -> [[D -> S] -> S]]
  BY <1>7, Zenon
<1>9. ASSUME NEW k \in D, NEW f \in [D -> S], NEW g \in [D -> S],
             \A c \in D : m[c] < m[k] => f[c] = g[c]
      PROVE  H[k][f] = H[k][g]
  <2>1. ~ (k > Len(s)) => f[k + 1] = g[k + 1] /\ f[k + 2] = g[k + 2]
    BY <1>2, <1>9, Zenon
  <2>2. UnescapeTurn(s, k, f) = UnescapeTurn(s, k, g)
    BY <2>1, Zenon DEF UnescapeTurn
  <2>3. QED
    BY <2>2, Zenon
<1>10. PICK f \in [D -> S] : \A k \in D : f[k] = H[k][f]
  <2> HIDE DEF H
  <2>1. S # {} /\ Len(s) + 1 \in Nat
    BY <1>1, <1>6
  <2>2. Descends(D, S, Len(s) + 1, m, H)
    BY <1>3, <1>8, <1>9, <2>1, Zenon DEF Descends
  <2>3. Met(D, S, H)
    BY <2>2, Descent
  <2>4. QED
    BY <2>3 DEF Met
<1>11. \A k \in D : f[k] = UnescapeTurn(s, k, f)
  BY <1>10, Zenon
<1>12. f = [k \in D |-> UnescapeTurn(s, k, f)]
  <2>1. f = [k \in D |-> f[k]]
    BY Zenon
  <2>2. QED
    BY <1>11, <2>1, Zenon
<1>13. UnescapeScan(s) = [k \in D |-> UnescapeTurn(s, k, UnescapeScan(s))]
  BY <1>12, Zenon DEF UnescapeScan, D
<1>14. QED
  BY <1>13, Zenon DEF D

LEMMA UnescapedIs ==
  ASSUME NEW s
  PROVE  Unescaped(s) = UnescapeScan(s)[1]
BY Zenon DEF Unescaped, UnescapeScan, UnescapeTurn

\* The parts of a sequence one after another: E[n] is what the first n of them
\* make.
LEMMA FlattenIs ==
  ASSUME NEW S, NEW ss \in Seq(Seq(S))
  PROVE  \E E \in [0 .. Len(ss) -> Seq(S)] :
           /\ E[0] = <<>>
           /\ \A n \in 1 .. Len(ss) : E[n] = E[n - 1] \o ss[n]
           /\ FlattenSeq(ss) = E[Len(ss)]
<1>1. Len(ss) \in Nat
  OBVIOUS
<1>2. CASE Len(ss) = 0
  <2> DEFINE E == [n \in 0 .. Len(ss) |-> <<>>]
  <2>1. E \in [0 .. Len(ss) -> Seq(S)] /\ E[0] = <<>> /\ 1 .. Len(ss) = {}
    BY <1>2
  <2>2. ss = <<>>
    BY <1>2
  <2>3. FlattenSeq(ss) = <<>>
    BY <1>2, <2>2, Zenon DEF FlattenSeq
  <2> HIDE DEF E
  <2>4. QED
    BY <1>2, <2>1, <2>3
<1>3. CASE Len(ss) # 0
  <2> DEFINE D == 1 .. Len(ss)
             V == Seq(S)
             Turn(n, g) == IF n = 1 THEN ss[n] ELSE g[n - 1] \o ss[n]
             m == [n \in D |-> n]
             H == [n \in D |-> [g \in [D -> V] |-> Turn(n, g)]]
  <2>1. m \in [D -> 0 .. Len(ss)]
    OBVIOUS
  <2>2. \A n \in D : n # 1 => n - 1 \in D /\ m[n - 1] < m[n]
    OBVIOUS
  <2>3. \A n \in D : ss[n] \in V
    OBVIOUS
  <2>4. \A x, y \in V : x \o y \in V
    OBVIOUS
  <2>5. ss # <<>> /\ <<>> \in V
    BY <1>3
  <2> HIDE DEF D, V, m
  <2>6. ASSUME NEW n \in D, NEW g \in [D -> V]
        PROVE  Turn(n, g) \in V
    BY <2>2, <2>3, <2>4, Zenon
  <2>7. H \in [D -> [[D -> V] -> V]]
    BY <2>6, Zenon
  <2>8. ASSUME NEW n \in D, NEW f \in [D -> V], NEW g \in [D -> V],
               \A c \in D : m[c] < m[n] => f[c] = g[c]
        PROVE  H[n][f] = H[n][g]
    <3>1. Turn(n, f) = Turn(n, g)
      BY <2>2, <2>8, Zenon
    <3>2. QED
      BY <3>1, Zenon
  <2>9. PICK f \in [D -> V] : \A n \in D : f[n] = H[n][f]
    <3> HIDE DEF H
    <3>1. V # {}
      BY <2>5
    <3>2. Descends(D, V, Len(ss), m, H)
      BY <1>1, <2>1, <2>7, <2>8, <3>1, Zenon DEF Descends
    <3>3. Met(D, V, H)
      BY <3>2, Descent
    <3>4. QED
      BY <3>3 DEF Met
  <2>10. \A n \in D : f[n] = Turn(n, f)
    BY <2>9, Zenon
  <2>11. f = [n \in D |-> Turn(n, f)]
    <3>1. f = [n \in D |-> f[n]]
      BY Zenon
    <3>2. QED
      BY <2>10, <3>1, Zenon
  <2> DEFINE flatten == CHOOSE g : g = [n \in D |-> Turn(n, g)]
  <2>12. flatten = [n \in D |-> Turn(n, flatten)]
    BY <2>11, Zenon
  <2>13. FlattenSeq(ss) = flatten[Len(ss)]
    BY <1>3, Zenon DEF FlattenSeq, D
  <2> HIDE DEF flatten
  <2>14. \A n \in D : flatten[n] = Turn(n, flatten)
    BY <2>12, Zenon
  <2> DEFINE E == [n \in 0 .. Len(ss) |-> IF n = 0 THEN <<>> ELSE flatten[n]]
             T == {n \in D : flatten[n] \notin V}
  <2>15. T = {}
    <3>1. SUFFICES ASSUME T # {}
                   PROVE  FALSE
      OBVIOUS
    <3>2. T \in SUBSET Nat
      BY DEF D
    <3>3. PICK x \in T : \A y \in T : x <= y
      BY <3>1, <3>2, LeastElement
    <3>4. x \in D /\ x \in Nat
      BY <3>2
    <3>5. CASE x = 1
      BY <2>3, <2>14, <3>4, <3>5
    <3>6. CASE x # 1
      <4>1. x - 1 \in D
        BY <2>2, <3>4, <3>6
      <4>2. x - 1 \notin T
        BY <3>3, <3>4
      <4>3. flatten[x - 1] \in V
        BY <4>1, <4>2
      <4>4. flatten[x] = flatten[x - 1] \o ss[x]
        BY <2>14, <3>4, <3>6, Zenon
      <4>5. flatten[x] \in V
        BY <2>3, <2>4, <3>4, <4>3, <4>4, Zenon
      <4>6. QED
        BY <4>5
    <3>7. QED
      BY <3>5, <3>6
  <2>16. E \in [0 .. Len(ss) -> V]
    BY <2>5, <2>15 DEF D
  <2>17. E[0] = <<>> /\ E[Len(ss)] = flatten[Len(ss)]
    BY <1>1, <1>3
  <2>18. ASSUME NEW n \in 1 .. Len(ss)
         PROVE  E[n] = E[n - 1] \o ss[n]
    <3>1. n \in D
      BY DEF D
    <3>2. CASE n = 1
      <4>1. flatten[n] = ss[n]
        BY <2>14, <3>1, <3>2, Zenon
      <4>2. ss[n] \in V
        BY <2>3, <3>1
      <4>3. E[n] = ss[n] /\ E[n - 1] = <<>>
        BY <1>1, <3>2, <4>1
      <4>4. <<>> \o ss[n] = ss[n]
        BY <4>2 DEF V
      <4>5. QED
        BY <4>3, <4>4, Zenon
    <3>3. CASE n # 1
      <4>1. flatten[n] = flatten[n - 1] \o ss[n]
        BY <2>14, <3>1, <3>3, Zenon
      <4>2. E[n] = flatten[n] /\ E[n - 1] = flatten[n - 1]
        BY <3>3
      <4>3. QED
        BY <4>1, <4>2, Zenon
    <3>4. QED
      BY <3>2, <3>3
  <2> HIDE DEF E
  <2>19. QED
    BY <2>13, <2>16, <2>17, <2>18, Zenon DEF V
<1>4. QED
  BY <1>2, <1>3

-----------------------------------------------------------------------------
(* What item() writes for a string. *)

Code(c) == IF c \in DOMAIN EscapeOf THEN EscapeOf[c] ELSE <<c>>

Spaces == Whitespace \ DOMAIN EscapeOf

LEMMA CodeIs ==
  ASSUME NEW c \in Symbols
  PROVE  \/ Code(c) = <<c>> /\ c \notin DOMAIN EscapeOf
         \/ \E d \in Symbols : /\ Code(c) = <<Escape, d>> /\ MeaningOf(d) = <<c>>
                               /\ d \notin Whitespace /\ (d = Escape <=> c = Escape)
<1>1. DOMAIN EscapeOf = {Quote, Escape, "\t", "\n", "\r", "\f", "BS"}
  BY DEF EscapeOf
<1>2. CASE c \notin DOMAIN EscapeOf
  BY <1>2 DEF Code
<1>3. CASE c \in DOMAIN EscapeOf
  <2>1. Code(c) = <<Escape,
             CASE c = "\t" -> "t" [] c = "\n" -> "n" [] c = "\r" -> "r"
               [] c = "\f" -> "f" [] c = "BS" -> "b" [] OTHER -> c>>
    BY <1>3 DEF Code, EscapeOf
  <2>2. {"t", "n", "r", "f", "b", Quote, Escape} \subseteq Symbols
    BY SymbolsAssumption
  <2>3. CASE c = "\t"
    <3>1. Code(c) = <<Escape, "t">>
      BY <2>1, <2>3
    <3>2. MeaningOf("t") = <<c>>
      BY <2>3 DEF MeaningOf, Quote, Escape
    <3>3. QED
      BY <2>2, <2>3, <3>1, <3>2 DEF Escape, Whitespace
  <2>4. CASE c = "\n"
    <3>1. Code(c) = <<Escape, "n">>
      BY <2>1, <2>4
    <3>2. MeaningOf("n") = <<c>>
      BY <2>4 DEF MeaningOf, Quote, Escape
    <3>3. QED
      BY <2>2, <2>4, <3>1, <3>2 DEF Escape, Whitespace
  <2>5. CASE c = "\r"
    <3>1. Code(c) = <<Escape, "r">>
      BY <2>1, <2>5
    <3>2. MeaningOf("r") = <<c>>
      BY <2>5 DEF MeaningOf, Quote, Escape
    <3>3. QED
      BY <2>2, <2>5, <3>1, <3>2 DEF Escape, Whitespace
  <2>6. CASE c = "\f"
    <3>1. Code(c) = <<Escape, "f">>
      BY <2>1, <2>6
    <3>2. MeaningOf("f") = <<c>>
      BY <2>6 DEF MeaningOf, Quote, Escape
    <3>3. QED
      BY <2>2, <2>6, <3>1, <3>2 DEF Escape, Whitespace
  <2>7. CASE c = "BS"
    <3>1. Code(c) = <<Escape, "b">>
      BY <2>1, <2>7
    <3>2. MeaningOf("b") = <<c>>
      BY <2>7 DEF MeaningOf, Quote, Escape
    <3>3. QED
      BY <2>2, <2>7, <3>1, <3>2 DEF Escape, Whitespace
  <2>8. CASE c \in {Quote, Escape}
    <3>1. Code(c) = <<Escape, c>>
      BY <2>1, <2>8 DEF Quote, Escape
    <3>2. MeaningOf(c) = <<c>>
      BY <2>8 DEF MeaningOf, Quote, Escape
    <3>3. c \notin Whitespace
      BY <2>8 DEF Whitespace, Quote, Escape
    <3>4. QED
      BY <3>1, <3>2, <3>3
  <2>9. QED
    BY <1>1, <1>3, <2>3, <2>4, <2>5, <2>6, <2>7, <2>8
<1>4. QED
  BY <1>2, <1>3

\* The codes of the contents one after another.
Parts(s, E) ==
  /\ E \in [0 .. Len(s) -> Seq(Symbols)]
  /\ E[0] = <<>>
  /\ \A n \in 1 .. Len(s) : E[n] = E[n - 1] \o Code(s[n])

LEMMA EscapedIs ==
  ASSUME NEW s \in Seq(Symbols)
  PROVE  \E E : Parts(s, E) /\ Escaped(s) = E[Len(s)]
<1> DEFINE ss == [k \in DOMAIN s |-> Code(s[k])]
<1>1. Len(s) \in Nat /\ DOMAIN s = 1 .. Len(s) /\ \A k \in 1 .. Len(s) : s[k] \in Symbols
  OBVIOUS
<1>2. \A c \in Symbols : Code(c) \in Seq(Symbols)
  <2>1. \A c, d \in Symbols : <<c>> \in Seq(Symbols) /\ <<c, d>> \in Seq(Symbols)
    OBVIOUS
  <2>2. Escape \in Symbols
    BY SymbolsAssumption
  <2>3. QED
    BY <2>1, <2>2, CodeIs, Zenon
<1>3. \A k \in 1 .. Len(s) : Code(s[k]) \in Seq(Symbols)
  BY <1>1, <1>2
<1>4. ss = [k \in 1 .. Len(s) |-> Code(s[k])]
  BY <1>1
<1> HIDE DEF ss
<1>5. ss \in [1 .. Len(s) -> Seq(Symbols)]
  BY <1>3, <1>4, Zenon
<1>6. ss \in Seq(Seq(Symbols)) /\ Len(ss) = Len(s)
  BY <1>1, <1>5
<1>7. PICK E \in [0 .. Len(ss) -> Seq(Symbols)] :
        /\ E[0] = <<>>
        /\ \A n \in 1 .. Len(ss) : E[n] = E[n - 1] \o ss[n]
        /\ FlattenSeq(ss) = E[Len(ss)]
  BY <1>6, FlattenIs
<1>8. Escaped(s) = FlattenSeq(ss)
  BY Zenon DEF Escaped, ss, Code
<1>9. \A n \in 1 .. Len(s) : ss[n] = Code(s[n])
  BY <1>4
<1>10. Parts(s, E)
  BY <1>6, <1>7, <1>9, Zenon DEF Parts
<1>11. QED
  BY <1>6, <1>7, <1>8, <1>10, Zenon

\* A quote in the code of a string has a backslash before it.
QuotesEscaped(t) == \A x \in 1 .. Len(t) : t[x] = Quote => x > 1 /\ t[x - 1] = Escape

LEMMA OneCode ==
  ASSUME NEW t \in Seq(Symbols), NEW c \in Symbols, QuotesEscaped(t)
  PROVE  /\ t \o Code(c) \in Seq(Symbols)
         /\ QuotesEscaped(t \o Code(c))
         /\ \/ EndsPlain(t \o Code(c), Whitespace)
            \/ c = Escape
            \/ c \in Spaces /\ (EndsPlain(t, Whitespace) => EndsPlain(t \o Code(c), Whitespace))
<1>1. Quote \notin Whitespace /\ Escape \notin Whitespace /\ Quote # Escape
        /\ Quote \in DOMAIN EscapeOf /\ Escape \in DOMAIN EscapeOf
  BY DEF Quote, Escape, Whitespace, EscapeOf
<1>2. CASE Code(c) = <<c>> /\ c \notin DOMAIN EscapeOf
  <2> DEFINE u == t \o <<c>>
  <2>1. /\ u \in Seq(Symbols) /\ Len(u) = Len(t) + 1 /\ Len(t) \in Nat
        /\ \A x \in 1 .. Len(t) : u[x] = t[x]
        /\ u[Len(t) + 1] = c
    OBVIOUS
  <2>2. c # Quote /\ c # Escape
    BY <1>1, <1>2
  <2> HIDE DEF u
  <2>3. QuotesEscaped(u)
    BY <2>1, <2>2 DEF QuotesEscaped
  <2>4. c \notin Whitespace => EndsPlain(u, Whitespace)
    BY <2>1, <2>2 DEF EndsPlain
  <2>5. EndsPlain(t, Whitespace) => EndsPlain(u, Whitespace)
    <3>1. SUFFICES ASSUME EndsPlain(t, Whitespace), NEW k \in DOMAIN u, u[k] = Escape
                   PROVE  \E j \in k + 1 .. Len(u) : u[j] \notin Whitespace
      BY DEF EndsPlain
    <3>2. k \in 1 .. Len(t) /\ t[k] = Escape
      BY <2>1, <2>2, <3>1
    <3>3. PICK j \in k + 1 .. Len(t) : t[j] \notin Whitespace
      BY <3>1, <3>2 DEF EndsPlain
    <3>4. j \in k + 1 .. Len(u) /\ u[j] = t[j]
      BY <2>1, <3>2
    <3>5. QED
      BY <3>3, <3>4
  <2>6. u = t \o Code(c)
    BY <1>2 DEF u
  <2>7. QED
    BY <1>2, <2>1, <2>3, <2>4, <2>5, <2>6, Zenon DEF Spaces
<1>3. ASSUME NEW d \in Symbols, Code(c) = <<Escape, d>>, d \notin Whitespace,
             d = Escape <=> c = Escape
      PROVE  /\ t \o Code(c) \in Seq(Symbols)
             /\ QuotesEscaped(t \o Code(c))
             /\ EndsPlain(t \o Code(c), Whitespace) \/ c = Escape
  <2> DEFINE u == t \o <<Escape, d>>
  <2>1. Escape \in Symbols
    BY SymbolsAssumption
  <2>2. /\ u \in Seq(Symbols) /\ Len(u) = Len(t) + 2 /\ Len(t) \in Nat
        /\ \A x \in 1 .. Len(t) : u[x] = t[x]
        /\ u[Len(t) + 1] = Escape /\ u[Len(t) + 2] = d
    BY <2>1
  <2> HIDE DEF u
  <2>3. QuotesEscaped(u)
    <3>1. SUFFICES ASSUME NEW x \in 1 .. Len(u), u[x] = Quote
                   PROVE  x > 1 /\ u[x - 1] = Escape
      BY DEF QuotesEscaped
    <3>2. CASE x \in 1 .. Len(t)
      <4>1. x > 1 /\ t[x - 1] = Escape
        BY <2>2, <3>1, <3>2 DEF QuotesEscaped
      <4>2. x - 1 \in 1 .. Len(t)
        BY <3>2, <4>1
      <4>3. QED
        BY <2>2, <4>1, <4>2
    <3>3. CASE x = Len(t) + 1
      BY <1>1, <2>2, <3>1, <3>3
    <3>4. CASE x = Len(t) + 2
      BY <2>2, <3>4
    <3>5. QED
      BY <2>2, <3>2, <3>3, <3>4
  <2>4. c # Escape => EndsPlain(u, Whitespace)
    <3>1. SUFFICES ASSUME c # Escape, NEW k \in DOMAIN u, u[k] = Escape
                   PROVE  \E j \in k + 1 .. Len(u) : u[j] \notin Whitespace
      BY DEF EndsPlain
    <3>2. k \in 1 .. Len(t) + 1
      BY <1>3, <2>2, <3>1
    <3>3. Len(t) + 2 \in k + 1 .. Len(u) /\ u[Len(t) + 2] \notin Whitespace
      BY <1>3, <2>2, <3>2
    <3>4. QED
      BY <3>3
  <2>5. u = t \o Code(c)
    BY <1>3 DEF u
  <2>6. QED
    BY <2>2, <2>3, <2>4, <2>5, Zenon
<1>4. QED
  BY <1>2, <1>3, CodeIs, Zenon

\* As far as the content goes, quotes are escaped, and no backslash hangs over
\* the end but where one of the content does.
LEMMA PartsAreGood ==
  ASSUME NEW s \in Seq(Symbols), NEW E, Parts(s, E), NEW n \in 0 .. Len(s)
  PROVE  /\ QuotesEscaped(E[n])
         /\ \/ EndsPlain(E[n], Whitespace)
            \/ \E m \in 1 .. n : s[m] = Escape /\ \A j \in m + 1 .. n : s[j] \in Spaces
<1> DEFINE Hangs(k) ==
             \E m \in 1 .. k : s[m] = Escape /\ \A j \in m + 1 .. k : s[j] \in Spaces
           P(k) == QuotesEscaped(E[k]) /\ (EndsPlain(E[k], Whitespace) \/ Hangs(k))
           T == {k \in 0 .. Len(s) : ~ P(k)}
<1>1. Len(s) \in Nat /\ \A k \in 1 .. Len(s) : s[k] \in Symbols
  OBVIOUS
<1>2. P(0)
  <2>1. E[0] = <<>>
    BY DEF Parts
  <2>2. Len(E[0]) = 0 /\ DOMAIN E[0] = {}
    BY <2>1
  <2>3. QED
    BY <2>2 DEF QuotesEscaped, EndsPlain
<1>3. ASSUME NEW k \in 0 .. Len(s) - 1, P(k)
      PROVE  P(k + 1)
  <2>1. k \in 0 .. Len(s) /\ k + 1 \in 1 .. Len(s) /\ (k + 1) - 1 = k
    BY <1>1
  <2>2. E[k] \in Seq(Symbols) /\ s[k + 1] \in Symbols
    BY <1>1, <2>1, Zenon DEF Parts
  <2>3. E[k + 1] = E[k] \o Code(s[k + 1])
    BY <2>1, Zenon DEF Parts
  <2>4. /\ QuotesEscaped(E[k + 1])
        /\ \/ EndsPlain(E[k + 1], Whitespace)
           \/ s[k + 1] = Escape
           \/ s[k + 1] \in Spaces /\ (EndsPlain(E[k], Whitespace) => EndsPlain(E[k + 1], Whitespace))
    BY <1>3, <2>2, <2>3, OneCode, Zenon
  <2>5. s[k + 1] = Escape => Hangs(k + 1)
    BY <2>1
  <2>6. s[k + 1] \in Spaces /\ Hangs(k) => Hangs(k + 1)
    BY <2>1
  <2> HIDE DEF Hangs
  <2>7. QED
    BY <1>3, <2>4, <2>5, <2>6, Zenon
<1> HIDE DEF P
<1>4. T = {}
  <2>1. SUFFICES ASSUME T # {}
                 PROVE  FALSE
    OBVIOUS
  <2>2. T \in SUBSET Nat
    OBVIOUS
  <2>3. PICK x \in T : \A y \in T : x <= y
    BY <2>1, <2>2, LeastElement
  <2>4. x # 0
    BY <1>2
  <2>5. PICK k \in 0 .. Len(s) - 1 : x = k + 1
    BY <1>1, <2>3, <2>4
  <2>6. k \notin T /\ k \in 0 .. Len(s)
    BY <1>1, <2>3, <2>5
  <2>7. QED
    BY <1>3, <2>5, <2>6
<1>5. P(n)
  BY <1>4
<1>6. QED
  BY <1>5 DEF P

LEMMA StringIsEscaped ==
  ASSUME NEW s \in Strings
  PROVE  /\ s \in Seq(Symbols) /\ Escaped(s) \in Seq(Symbols)
         /\ QuotesEscaped(Escaped(s))
         /\ EndsPlain(Escaped(s), Whitespace)
<1>1. s \in Seq(Symbols) /\ EndsPlain(s, Spaces)
  BY StringsAssumption, Zenon DEF Spaces
<1>2. PICK E : Parts(s, E) /\ Escaped(s) = E[Len(s)]
  BY <1>1, EscapedIs
<1>3. Len(s) \in 0 .. Len(s) /\ DOMAIN s = 1 .. Len(s)
  BY <1>1
<1>4. ~ \E m \in 1 .. Len(s) : s[m] = Escape /\ \A j \in m + 1 .. Len(s) : s[j] \in Spaces
  BY <1>1, <1>3, Zenon DEF EndsPlain
<1>5. E[Len(s)] \in Seq(Symbols)
  BY <1>2, <1>3, Zenon DEF Parts
<1>6. QED
  BY <1>1, <1>2, <1>3, <1>4, <1>5, PartsAreGood, ZenonT(60)

\* A sequence from its n-th element on.
LEMMA RestIs ==
  ASSUME NEW S, NEW s \in Seq(S)
  PROVE  /\ \A n \in 0 .. Len(s) : SubSeq(s, n + 1, Len(s)) \in Seq(S)
         /\ \A n \in 0 .. Len(s) - 1 :
              <<s[n + 1]>> \o SubSeq(s, n + 2, Len(s)) = SubSeq(s, n + 1, Len(s))
         /\ SubSeq(s, Len(s) + 1, Len(s)) = <<>>
         /\ SubSeq(s, 1, Len(s)) = s
OBVIOUS

\* What get() makes of a string is the content that item() was given.
LEMMA UnescapedEscaped ==
  ASSUME NEW s \in Seq(Symbols)
  PROVE  Unescaped(Escaped(s)) = s
<1>1. PICK E : Parts(s, E) /\ Escaped(s) = E[Len(s)]
  BY EscapedIs
<1> DEFINE u == E[Len(s)]
           scan == UnescapeScan(u)
           P(n) == /\ Len(E[n]) <= Len(u) /\ \A k \in 1 .. Len(E[n]) : E[n][k] = u[k]
                   /\ scan[Len(E[n]) + 1] = SubSeq(s, n + 1, Len(s))
           T == {n \in 0 .. Len(s) : ~ P(n)}
<1>2. Len(s) \in Nat /\ Len(s) \in 0 .. Len(s) /\ \A k \in 1 .. Len(s) : s[k] \in Symbols
  OBVIOUS
<1>3. \A n \in 0 .. Len(s) : E[n] \in Seq(Symbols) /\ Len(E[n]) \in Nat
  <2>1. \A n \in 0 .. Len(s) : E[n] \in Seq(Symbols)
    BY <1>1, Zenon DEF Parts
  <2>2. QED
    BY <2>1
<1>4. u \in Seq(Symbols) /\ Len(u) \in Nat
  BY <1>2, <1>3
<1> HIDE DEF u
<1>5. \A k \in Nat \ {0} :
        scan[k] = IF k > Len(u) THEN <<>>
                  ELSE IF u[k] # Escape THEN <<u[k]>> \o scan[k + 1]
                  ELSE IF k = Len(u) THEN <<>>
                  ELSE MeaningOf(u[k + 1]) \o scan[k + 2]
  BY <1>4, UnescapeEquation, Zenon DEF UnescapeTurn
<1> HIDE DEF scan
<1>6. P(Len(s))
  <2>1. E[Len(s)] = u
    BY DEF u
  <2>2. scan[Len(u) + 1] = <<>>
    <3>1. Len(u) + 1 \in Nat \ {0} /\ Len(u) + 1 > Len(u)
      BY <1>4
    <3>2. QED
      BY <1>5, <3>1, Zenon
  <2>3. SubSeq(s, Len(s) + 1, Len(s)) = <<>>
    BY RestIs
  <2>4. QED
    BY <1>4, <2>1, <2>2, <2>3
<1>7. ASSUME NEW n \in 0 .. Len(s) - 1, P(n + 1)
      PROVE  P(n)
  <2>1. n \in 0 .. Len(s) /\ n + 1 \in 1 .. Len(s) /\ (n + 1) - 1 = n /\ n + 1 \in 0 .. Len(s)
    BY <1>2
  <2>2. PICK c \in Symbols : c = s[n + 1]
    BY <1>2, <2>1
  <2>3. E[n + 1] = E[n] \o Code(c)
    BY <1>1, <2>1, <2>2, Zenon DEF Parts
  <2>4. E[n] \in Seq(Symbols) /\ Len(E[n]) \in Nat
    BY <1>3, <2>1
  <2>5. SubSeq(s, n + 1, Len(s)) = <<c>> \o SubSeq(s, n + 2, Len(s))
    BY <2>2, RestIs
  <2>6. CASE Code(c) = <<c>> /\ c \notin DOMAIN EscapeOf
    <3>1. c # Escape
      BY <2>6 DEF EscapeOf
    <3>2. /\ Len(E[n + 1]) = Len(E[n]) + 1
          /\ \A k \in 1 .. Len(E[n]) : E[n + 1][k] = E[n][k]
          /\ E[n + 1][Len(E[n]) + 1] = c
      BY <2>3, <2>4, <2>6
    <3>3. u[Len(E[n]) + 1] = c /\ Len(E[n]) + 1 <= Len(u)
      BY <1>7, <2>4, <3>2
    <3>4. Len(E[n]) + 1 \in Nat \ {0} /\ ~ (Len(E[n]) + 1 > Len(u))
            /\ (Len(E[n]) + 1) + 1 = Len(E[n + 1]) + 1
      BY <1>4, <2>4, <3>2, <3>3
    <3>5. scan[Len(E[n]) + 1] = <<c>> \o scan[(Len(E[n]) + 1) + 1]
      BY <1>5, <3>1, <3>3, <3>4, Zenon
    <3>6. scan[Len(E[n]) + 1] = <<c>> \o SubSeq(s, (n + 1) + 1, Len(s))
      BY <1>7, <3>4, <3>5
    <3>7. (n + 1) + 1 = n + 2
      BY <2>1
    <3>8. scan[Len(E[n]) + 1] = SubSeq(s, n + 1, Len(s))
      BY <2>5, <3>6, <3>7
    <3>9. Len(E[n]) <= Len(u) /\ \A k \in 1 .. Len(E[n]) : E[n][k] = u[k]
      BY <1>4, <1>7, <2>4, <3>2
    <3>10. QED
      BY <3>8, <3>9
  <2>7. ASSUME NEW d \in Symbols, Code(c) = <<Escape, d>>, MeaningOf(d) = <<c>>
        PROVE  P(n)
    <3>1. Escape \in Symbols
      BY SymbolsAssumption
    <3>2. /\ Len(E[n + 1]) = Len(E[n]) + 2
          /\ \A k \in 1 .. Len(E[n]) : E[n + 1][k] = E[n][k]
          /\ E[n + 1][Len(E[n]) + 1] = Escape
          /\ E[n + 1][Len(E[n]) + 2] = d
      BY <2>3, <2>4, <2>7, <3>1
    <3>3. u[Len(E[n]) + 1] = Escape /\ u[(Len(E[n]) + 1) + 1] = d /\ Len(E[n]) + 2 <= Len(u)
      <4>1. Len(E[n + 1]) <= Len(u) /\ \A k \in 1 .. Len(E[n + 1]) : E[n + 1][k] = u[k]
        BY <1>7
      <4>2. /\ Len(E[n]) + 1 \in 1 .. Len(E[n + 1]) /\ Len(E[n]) + 2 \in 1 .. Len(E[n + 1])
            /\ (Len(E[n]) + 1) + 1 = Len(E[n]) + 2
        BY <2>4, <3>2
      <4>3. u[Len(E[n]) + 1] = Escape /\ u[Len(E[n]) + 2] = d
        BY <3>2, <4>1, <4>2
      <4>4. QED
        BY <3>2, <4>1, <4>2, <4>3
    <3>4. Len(E[n]) + 1 \in Nat \ {0} /\ ~ (Len(E[n]) + 1 > Len(u))
            /\ Len(E[n]) + 1 # Len(u) /\ (Len(E[n]) + 1) + 2 = Len(E[n + 1]) + 1
      BY <1>4, <2>4, <3>2, <3>3
    <3>5. scan[Len(E[n]) + 1] = <<c>> \o scan[(Len(E[n]) + 1) + 2]
      BY <1>5, <2>7, <3>3, <3>4, Zenon
    <3>6. scan[Len(E[n]) + 1] = <<c>> \o SubSeq(s, (n + 1) + 1, Len(s))
      BY <1>7, <3>4, <3>5
    <3>7. (n + 1) + 1 = n + 2
      BY <2>1
    <3>8. scan[Len(E[n]) + 1] = SubSeq(s, n + 1, Len(s))
      BY <2>5, <3>6, <3>7
    <3>9. Len(E[n]) <= Len(u) /\ \A k \in 1 .. Len(E[n]) : E[n][k] = u[k]
      BY <1>4, <1>7, <2>4, <3>2
    <3>10. QED
      BY <3>8, <3>9
  <2> HIDE DEF P
  <2>8. QED
    BY <2>6, <2>7, CodeIs, Zenon
<1> HIDE DEF P
<1>8. T = {}
  <2>1. SUFFICES ASSUME T # {}
                 PROVE  FALSE
    OBVIOUS
  <2>2. T \in SUBSET (0 .. Len(s))
    OBVIOUS
  <2>3. PICK x \in T : \A y \in T : y <= x
    BY <1>2, <2>1, <2>2, GreatestElement
  <2>4. x # Len(s)
    BY <1>6
  <2>5. x \in 0 .. Len(s) - 1 /\ x + 1 \in 0 .. Len(s) /\ x + 1 \notin T
    BY <1>2, <2>3, <2>4
  <2>6. QED
    BY <1>7, <2>3, <2>5
<1>9. P(0)
  BY <1>2, <1>8
<1>10. scan[1] = SubSeq(s, 1, Len(s))
  <2>1. E[0] = <<>> /\ Len(E[0]) + 1 = 1 /\ 0 + 1 = 1
    BY <1>1 DEF Parts
  <2>2. QED
    BY <1>9, <2>1 DEF P
<1>11. SubSeq(s, 1, Len(s)) = s
  BY RestIs
<1>12. QED
  BY <1>1, <1>10, <1>11, UnescapedIs DEF scan, u

-----------------------------------------------------------------------------
(* What the scans do over whitespace and comments. *)

\* At a comment the end is found.
LEMMA CommentIs ==
  ASSUME Text, NEW p \in Nat, NEW n \in Nat, n <= Size, Comment(text, p, n)
  PROVE  p + 1 < Size /\ At(p) = "/" /\ SkipComment(p + 1) = n - 1
<1>1. Size \in Nat /\ At(p) = text[p + 1] /\ At(p) = "/" /\ p + 1 \in Nat /\ (p + 1) + 1 = p + 2
  BY SizeIsNat DEF Comment, At
<1>2. CASE /\ n >= p + 3 /\ text[p + 2] = "/" /\ text[n] \in {"\n", "\r"}
           /\ \A k \in p + 3 .. n - 1 : text[k] \notin {"\n", "\r"}
  <2> DEFINE LineEnds == {e \in (p + 1) + 1 .. Size - 1 : At(e) \in {"\n", "\r"}}
  <2>1. n - 1 \in LineEnds
    BY <1>1, <1>2 DEF At
  <2>2. ASSUME NEW e \in LineEnds
        PROVE  n - 1 <= e
    <3>1. e + 1 \in p + 3 .. Size /\ text[e + 1] \in {"\n", "\r"}
      BY <1>1 DEF At
    <3>2. e + 1 \notin p + 3 .. n - 1
      BY <1>2, <3>1
    <3>3. QED
      BY <1>1, <3>1, <3>2
  <2>3. LineEnds \in SUBSET Nat
    BY <1>1
  <2>4. At(p + 1) = "/"
    BY <1>1, <1>2 DEF At
  <2>5. SkipComment(p + 1) = First(LineEnds, Size)
    BY <2>4 DEF SkipComment
  <2> HIDE DEF LineEnds
  <2>6. First(LineEnds, Size) = n - 1
    BY <2>1, <2>2, <2>3, FirstEquals
  <2>7. QED
    BY <1>1, <1>2, <2>5, <2>6
<1>3. CASE /\ n >= p + 4 /\ text[p + 2] = "*" /\ text[n - 1] = "*" /\ text[n] = "/"
           /\ \A k \in p + 4 .. n - 1 : ~ (text[k - 1] = "*" /\ text[k] = "/")
  <2> DEFINE BlockEnds == {e \in (p + 1) + 2 .. Size - 1 : At(e - 1) = "*" /\ At(e) = "/"}
             none      == IF (p + 1) + 1 < Size THEN Size - 1 ELSE Size
  <2>1. n - 1 \in BlockEnds
    BY <1>1, <1>3 DEF At
  <2>2. ASSUME NEW e \in BlockEnds
        PROVE  n - 1 <= e
    <3>1. e + 1 \in p + 4 .. Size /\ text[(e - 1) + 1] = "*" /\ text[e + 1] = "/"
      BY <1>1 DEF At
    <3>2. (e - 1) + 1 = (e + 1) - 1
      BY <1>1
    <3>3. e + 1 \notin p + 4 .. n - 1
      BY <1>3, <3>1, <3>2
    <3>4. QED
      BY <1>1, <3>1, <3>3
  <2>3. BlockEnds \in SUBSET Nat
    BY <1>1
  <2>4. At(p + 1) = "*"
    BY <1>1, <1>3 DEF At
  <2>5. SkipComment(p + 1) = First(BlockEnds, none)
    BY <2>4 DEF SkipComment
  <2> HIDE DEF BlockEnds, none
  <2>6. First(BlockEnds, none) = n - 1
    BY <2>1, <2>2, <2>3, FirstEquals
  <2>7. QED
    BY <1>1, <1>3, <2>5, <2>6
<1>4. QED
  BY <1>2, <1>3 DEF Comment

LEMMA SkipsIs ==
  ASSUME Text, NEW p \in Nat, NEW n \in Nat, n <= Size, p < n, SkipsTo(text, p, n)
  PROVE  SkipWhitespace(p) = SkipWhitespace(n)
<1>1. Size \in Nat /\ ~ (p >= Size)
  BY SizeIsNat
<1>2. CASE n = p + 1 /\ text[n] \in Whitespace
  BY <1>1, <1>2, SkipEquation DEF At
<1>3. CASE Comment(text, p, n)
  <2>1. p + 1 < Size /\ At(p) = "/" /\ SkipComment(p + 1) = n - 1
    BY <1>3, CommentIs
  <2>2. "/" \notin Whitespace /\ p + 1 # Size /\ n - 1 # -1 /\ (n - 1) + 1 = n
    BY <2>1 DEF Whitespace
  <2>3. SkipWhitespace(p) = SkipWhitespace((n - 1) + 1)
    BY <1>1, <2>1, <2>2, SkipEquation
  <2>4. QED
    BY <2>2, <2>3
<1>4. QED
  BY <1>2, <1>3 DEF SkipsTo

\* Whitespace and comments are passed as a whole.
LEMMA FillsIsSkipped ==
  ASSUME Text, NEW a \in Nat, NEW b \in Nat, b <= Size, Fills(text, a, b)
  PROVE  SkipWhitespace(a) = SkipWhitespace(b)
<1>1. PICK C \in SUBSET (a .. b) :
        /\ {a, b} \subseteq C
        /\ \A p \in C \ {b} : \E n \in C : n > p /\ SkipsTo(text, p, n)
  BY DEF Fills
<1> DEFINE T == {p \in C : SkipWhitespace(p) # SkipWhitespace(b)}
<1>2. T = {}
  <2>1. SUFFICES ASSUME T # {}
                 PROVE  FALSE
    OBVIOUS
  <2>2. T \in SUBSET (0 .. b)
    <3>1. \A p \in C : p \in 0 .. b
      OBVIOUS
    <3>2. QED
      BY <3>1
  <2>3. PICK p \in T : \A y \in T : y <= p
    BY <2>1, <2>2, GreatestElement
  <2>4. p \in C \ {b} /\ p \in 0 .. b
    BY <2>2
  <2>5. PICK n \in C : n > p /\ SkipsTo(text, p, n)
    BY <1>1, <2>4
  <2>6. n \in Nat /\ n <= b /\ n <= Size /\ p \in Nat
    BY <2>4, <2>5, SizeIsNat
  <2>7. SkipWhitespace(p) = SkipWhitespace(n)
    BY <2>5, <2>6, SkipsIs
  <2>8. n \notin T
    BY <2>3, <2>4, <2>5, <2>6
  <2>9. SkipWhitespace(n) = SkipWhitespace(b)
    BY <2>8
  <2>10. QED
    BY <2>3, <2>7, <2>9
<1>3. a \in C
  BY <1>1
<1>4. QED
  BY <1>2, <1>3

\* A symbol that counts is where skip_whitespace stops.
LEMMA StopsAt ==
  ASSUME Text, NEW a \in Nat, NEW b \in Nat, b < Size, Fills(text, a, b),
         At(b) \notin Whitespace, At(b) # "/"
  PROVE  SkipWhitespace(a) = b
<1>1. Size \in Nat
  BY SizeIsNat
<1>2. SkipWhitespace(a) = SkipWhitespace(b)
  BY <1>1, FillsIsSkipped
<1>3. SkipWhitespace(b) = b
  BY <1>1, SkipEquation
<1>4. QED
  BY <1>2, <1>3

-----------------------------------------------------------------------------
(* What the scans do over a string or a key. *)

\* A quote at b and the quote at e that closes it.
Quoted(t, b, e) ==
  /\ t[b + 1] = Quote /\ t[e + 1] = Quote /\ b < e
  /\ \A x \in b + 1 .. e - 1 : t[x + 1] = Quote => x > b + 1 /\ t[x] = Escape
  /\ \A y \in b + 1 .. e - 1 :
       t[y + 1] = Escape => \E z \in y + 1 .. e - 1 : t[z + 1] \notin Whitespace

\* The closing quote is no escaped one.
LEMMA QuotedEnd ==
  ASSUME NEW t, NEW b \in Nat, NEW e \in Nat, Quoted(t, b, e)
  PROVE  e > b + 1 => t[e] # Escape
<1>1. SUFFICES ASSUME e > b + 1, t[e] = Escape
               PROVE  FALSE
  OBVIOUS
<1>2. e - 1 \in b + 1 .. e - 1 /\ (e - 1) + 1 = e
  BY <1>1
<1>3. \E z \in (e - 1) + 1 .. e - 1 : t[z + 1] \notin Whitespace
  BY <1>1, <1>2 DEF Quoted
<1>4. QED
  BY <1>3

LEMMA QuotedStringEnd ==
  ASSUME Text, NEW b \in Nat, NEW e \in Nat, e < Size, Quoted(text, b, e)
  PROVE  StringEnd(b) = e
<1> DEFINE S == {x \in b + 1 .. Size - 1 :
                   At(x) = Quote /\ (x > b + 1 => At(x - 1) # Escape)}
<1>1. Size \in Nat
  BY SizeIsNat
<1>2. e \in S
  <2>1. e \in b + 1 .. Size - 1 /\ At(e) = Quote
    BY <1>1 DEF Quoted, At
  <2>2. At(e - 1) = text[e]
    BY DEF At
  <2>3. QED
    BY <2>1, <2>2, QuotedEnd
<1>3. ASSUME NEW x \in S, x < e
      PROVE  FALSE
  <2>1. x \in b + 1 .. e - 1 /\ text[x + 1] = Quote /\ (x > b + 1 => text[(x - 1) + 1] # Escape)
    BY <1>1, <1>3 DEF At
  <2>2. x > b + 1 /\ text[x] = Escape /\ (x - 1) + 1 = x
    BY <2>1 DEF Quoted
  <2>3. QED
    BY <2>1, <2>2
<1>4. \A x \in S : e <= x
  BY <1>1, <1>3
<1>5. S \in SUBSET Nat
  BY <1>1
<1>6. StringEnd(b) = First(S, Size)
  BY DEF StringEnd
<1> HIDE DEF S
<1>7. QED
  BY <1>2, <1>4, <1>5, <1>6, FirstEquals

\* parse_key stops at the first quote.
LEMMA QuotedKeyEnd ==
  ASSUME Text, NEW b \in Nat, NEW e \in Nat, b < e, e < Size, At(e) = Quote,
         \A x \in b + 1 .. e - 1 : At(x) # Quote
  PROVE  KeyEnd(b) = e
<1> DEFINE S == {x \in b + 1 .. Size - 1 : At(x) \in {Quote}}
<1>1. Size \in Nat
  BY SizeIsNat
<1>2. e \in S /\ S \in SUBSET Nat /\ \A x \in S : e <= x
  BY <1>1
<1>3. KeyEnd(b) = First(S, Size)
  BY DEF KeyEnd, FirstOf
<1> HIDE DEF S
<1>4. QED
  BY <1>2, <1>3, FirstEquals

\* parse_item stops before the first symbol that ends a word.
Delimiters == Whitespace \union {"}", "]", "/"}

LEMMA WordEndIs ==
  ASSUME Text, NEW b \in Nat, NEW e \in Nat, b <= e, e + 1 < Size,
         At(e + 1) \in Delimiters, \A x \in b + 1 .. e : At(x) \notin Delimiters
  PROVE  WordEnd(b) = e
<1> DEFINE S == {x \in b + 1 .. Size - 1 : At(x) \in Delimiters}
<1>1. Size \in Nat
  BY SizeIsNat
<1>2. e + 1 \in S /\ S \in SUBSET Nat
  BY <1>1
<1>3. \A x \in S : e + 1 <= x
  BY <1>1
<1>4. WordEnd(b) = First(S, Size) - 1
  BY Zenon DEF WordEnd, FirstOf, Delimiters
<1> HIDE DEF S
<1>5. First(S, Size) = e + 1
  <2>1. e + 1 \in Nat
    OBVIOUS
  <2>2. QED
    BY <1>2, <1>3, <2>1, FirstEquals
<1>6. (e + 1) - 1 = e
  OBVIOUS
<1>7. QED
  BY <1>4, <1>5, <1>6, Zenon

-----------------------------------------------------------------------------
(* What validate does over each part of a text. *)

Closings == {"}", "]"}
Levels   == Seq({"}", "]"})

\* What validate finds from p on, outside of a string and inside.
Outside(p, L)        == Balanced[Check(p, FALSE, FALSE, L)]
Inside(p, behind, L) == Balanced[Check(p, TRUE, behind, L)]

LEMMA OutsideTurn ==
  ASSUME Text, NEW p \in Nat, NEW L \in Levels, NEW r, r = SkipWhitespace(p)
  PROVE  Outside(p, L) =
           IF r = -1 THEN FALSE
           ELSE IF r >= Size THEN L = <<>>
           ELSE IF At(r) \in {"}", "]"}
           THEN /\ L # <<>> /\ Last(L) = At(r)
                /\ Outside(r + 1, Front(L))
           ELSE Balanced[Check(r + 1, At(r) = Quote, At(r) = Quote /\ At(r) = Escape,
                               CASE At(r) = "{" -> Append(L, "}")
                                 [] At(r) = "[" -> Append(L, "]")
                                 [] OTHER -> L)]
<1>0. PICK no \in BOOLEAN : no = FALSE
  OBVIOUS
<1> DEFINE s == Check(p, no, no, L)
<1>1. /\ s \in Checks /\ s.at = p /\ s.quotes = FALSE
      /\ s.ignore = FALSE /\ s.levels = L
  <2>1. /\ s \in Checks /\ s.at = p /\ s.quotes = no
        /\ s.ignore = no /\ s.levels = L
    BY Zenon DEF Check, Checks, Levels
  <2> HIDE DEF s
  <2>2. QED
    BY <1>0, <2>1, Zenon
<1>2. Outside(p, L) = Balanced[s]
  BY <1>0, Zenon DEF Outside
<1> HIDE DEF s
<1>3. Place(s) = r
  BY <1>1, Zenon DEF Place
<1>4. Turned(s, r) = (At(r) = Quote)
  BY <1>1, Zenon DEF Turned
<1>5. Deeper(s, r) = CASE At(r) = "{" -> Append(L, "}")
                       [] At(r) = "[" -> Append(L, "]")
                       [] OTHER -> L
  <2>1. (At(r) = "{" /\ ~ s.quotes <=> At(r) = "{") /\ (At(r) = "[" /\ ~ s.quotes <=> At(r) = "[")
    BY <1>1, Zenon
  <2>2. QED
    BY <1>1, <2>1, Zenon DEF Deeper
<1>6. Balanced[s] =
           IF r = -1 THEN FALSE
           ELSE IF r >= Size THEN L = <<>>
           ELSE IF ~ s.quotes /\ At(r) \in {"}", "]"}
           THEN /\ L # <<>> /\ Last(L) = At(r)
                /\ Balanced[Check(r + 1, FALSE, FALSE, Front(L))]
           ELSE Balanced[Check(r + 1, Turned(s, r), Turned(s, r) /\ At(r) = Escape,
                               Deeper(s, r))]
  <2>1. r = Place(s) /\ L = s.levels
    BY <1>1, <1>3, Zenon
  <2>2. Balanced[s] =
           IF Place(s) = -1 THEN FALSE
           ELSE IF Place(s) >= Size THEN s.levels = <<>>
           ELSE IF ~ s.quotes /\ At(Place(s)) \in {"}", "]"}
           THEN /\ s.levels # <<>> /\ Last(s.levels) = At(Place(s))
                /\ Balanced[Check(Place(s) + 1, FALSE, FALSE, Front(s.levels))]
           ELSE Balanced[Check(Place(s) + 1, Turned(s, Place(s)),
                               Turned(s, Place(s)) /\ At(Place(s)) = Escape,
                               Deeper(s, Place(s)))]
    BY <1>1, BalancedEquation, Zenon
  <2> HIDE DEF Place, Deeper, Turned
  <2>3. QED
    BY <2>1, <2>2, Zenon
<1>7. ~ s.quotes /\ At(r) \in {"}", "]"} <=> At(r) \in {"}", "]"}
  BY <1>1, Zenon
<1>8. QED
  BY <1>2, <1>4, <1>5, <1>6, <1>7, Zenon DEF Outside

LEMMA OutsideIsBoolean ==
  ASSUME Text, NEW p \in Nat, NEW L \in Levels
  PROVE  Outside(p, L) \in BOOLEAN
<1>1. PICK no \in BOOLEAN : no = FALSE
  OBVIOUS
<1>2. Check(p, no, no, L) \in Checks
  BY Zenon DEF Check, Checks, Levels
<1>3. QED
  BY <1>1, <1>2, BalancedIsBoolean, Zenon DEF Outside

LEMMA InsideTurn ==
  ASSUME Text, NEW p \in Nat, p < Size, NEW behind \in BOOLEAN, NEW L \in Levels
  PROVE  Inside(p, behind, L) =
           IF At(p) = Quote /\ ~ behind THEN Outside(p + 1, L)
           ELSE Inside(p + 1, At(p) = Escape, L)
<1>0. PICK yes \in BOOLEAN : yes = TRUE
  OBVIOUS
<1> DEFINE s == Check(p, yes, behind, L)
<1>1. /\ s \in Checks /\ s.at = p /\ s.quotes = TRUE
      /\ s.ignore = behind /\ s.levels = L
  <2>1. /\ s \in Checks /\ s.at = p /\ s.quotes = yes
        /\ s.ignore = behind /\ s.levels = L
    BY Zenon DEF Check, Checks, Levels
  <2> HIDE DEF s
  <2>2. QED
    BY <1>0, <2>1, Zenon
<1>2. Inside(p, behind, L) = Balanced[s]
  BY <1>0, Zenon DEF Inside
<1> HIDE DEF s
<1>3. Place(s) = p
  BY <1>1, Zenon DEF Place
<1>4. Turned(s, p) = ~ (At(p) = Quote /\ ~ behind)
  BY <1>1, Zenon DEF Turned
<1>5. Deeper(s, p) = L
  <2>1. ~ (At(p) = "{" /\ ~ s.quotes) /\ ~ (At(p) = "[" /\ ~ s.quotes)
    BY <1>1, Zenon
  <2>2. QED
    BY <1>1, <2>1, Zenon DEF Deeper
<1>6. p # -1 /\ ~ (p >= Size)
  BY SizeIsNat
<1>7. Balanced[s] =
        IF ~ s.quotes /\ At(p) \in {"}", "]"}
        THEN /\ L # <<>> /\ Last(L) = At(p)
             /\ Balanced[Check(p + 1, FALSE, FALSE, Front(L))]
        ELSE Balanced[Check(p + 1, Turned(s, p), Turned(s, p) /\ At(p) = Escape,
                            Deeper(s, p))]
  BY <1>1, <1>3, <1>6, BalancedEquation, ZenonT(60)
<1>8. Balanced[s] = Balanced[Check(p + 1, Turned(s, p), Turned(s, p) /\ At(p) = Escape, L)]
  BY <1>1, <1>5, <1>7, Zenon
<1>9. CASE At(p) = Quote /\ ~ behind
  <2>1. Turned(s, p) = FALSE /\ (Turned(s, p) /\ At(p) = Escape) = FALSE
    BY <1>4, <1>9, Zenon
  <2>2. QED
    BY <1>2, <1>8, <1>9, <2>1, Zenon DEF Outside
<1>10. CASE ~ (At(p) = Quote /\ ~ behind)
  <2>1. Turned(s, p) = TRUE /\ (Turned(s, p) /\ At(p) = Escape) = (At(p) = Escape)
    BY <1>4, <1>10, Zenon
  <2>2. QED
    BY <1>2, <1>8, <1>10, <2>1, Zenon DEF Inside
<1>11. QED
  BY <1>9, <1>10, Zenon

\* Whitespace and comments between the parts.
LEMMA FillBalanced ==
  ASSUME Text, NEW a \in Nat, NEW b \in Nat, b <= Size, Fills(text, a, b), NEW L \in Levels
  PROVE  Outside(a, L) = Outside(b, L)
<1>1. PICK r : r = SkipWhitespace(a) /\ r = SkipWhitespace(b)
  BY FillsIsSkipped, Zenon
<1> DEFINE found == IF r = -1 THEN FALSE
                    ELSE IF r >= Size THEN L = <<>>
                    ELSE IF At(r) \in {"}", "]"}
                    THEN /\ L # <<>> /\ Last(L) = At(r)
                         /\ Outside(r + 1, Front(L))
                    ELSE Balanced[Check(r + 1, At(r) = Quote, At(r) = Quote /\ At(r) = Escape,
                                        CASE At(r) = "{" -> Append(L, "}")
                                          [] At(r) = "[" -> Append(L, "]")
                                          [] OTHER -> L)]
<1>2. r = SkipWhitespace(a) => Outside(a, L) = found
  BY OutsideTurn, ZenonT(60)
<1>3. r = SkipWhitespace(b) => Outside(b, L) = found
  BY OutsideTurn, ZenonT(60)
<1> HIDE DEF found
<1>4. QED
  BY <1>1, <1>2, <1>3, Zenon

\* A symbol that counts.
Plain(c) == c \notin Whitespace \union {"{", "}", "[", "]", "/", Quote}

LEMMA PlainBalanced ==
  ASSUME Text, NEW p \in Nat, p < Size, Plain(At(p)), NEW L \in Levels
  PROVE  Outside(p, L) = Outside(p + 1, L)
<1>1. Size \in Nat /\ p # -1 /\ ~ (p >= Size)
  BY SizeIsNat
<1>2. p = SkipWhitespace(p)
  BY <1>1, SkipEquation DEF Plain
<1>3. /\ At(p) \notin {"}", "]"} /\ At(p) # Quote /\ At(p) # "{" /\ At(p) # "["
  BY DEF Plain
<1>4. (At(p) = Quote) = FALSE /\ (At(p) = Quote /\ At(p) = Escape) = FALSE
  BY <1>3, Zenon
<1>5. (CASE At(p) = "{" -> Append(L, "}") [] At(p) = "[" -> Append(L, "]") [] OTHER -> L) = L
  BY <1>3, Zenon
<1>6. QED
  BY <1>1, <1>2, <1>3, <1>4, <1>5, OutsideTurn, ZenonT(60) DEF Outside

LEMMA PlainsBalanced ==
  ASSUME Text, NEW a \in Nat, NEW b \in Nat, a <= b, b <= Size, NEW L \in Levels,
         \A p \in a .. b - 1 : Plain(At(p))
  PROVE  Outside(a, L) = Outside(b, L)
<1> DEFINE T == {p \in a .. b : Outside(p, L) # Outside(b, L)}
<1>1. T = {}
  <2>1. SUFFICES ASSUME T # {}
                 PROVE  FALSE
    OBVIOUS
  <2>2. T \in SUBSET (0 .. b)
    OBVIOUS
  <2>3. PICK p \in T : \A y \in T : y <= p
    BY <2>1, <2>2, GreatestElement
  <2>4. p # b
    BY <2>3
  <2>5. p \in Nat /\ p < Size /\ p \in a .. b - 1 /\ p + 1 \in a .. b /\ p + 1 \notin T
    BY <2>3, <2>4, SizeIsNat
  <2>6. Outside(p, L) = Outside(p + 1, L)
    BY <2>5, PlainBalanced
  <2>7. QED
    BY <2>3, <2>5, <2>6
<1>2. a \in a .. b
  OBVIOUS
<1>3. QED
  BY <1>1, <1>2


\* A brace opens a level, or closes the innermost one.
LEMMA OpeningBalanced ==
  ASSUME Text, NEW p \in Nat, p < Size, NEW c \in Closings, At(p) = Opening(c),
         NEW L \in Levels
  PROVE  Outside(p, L) = Outside(p + 1, Append(L, c))
<1>1. Size \in Nat /\ p # -1 /\ ~ (p >= Size)
  BY InText, Zenon
<1>2. (At(p) = "{" /\ c = "}") \/ (At(p) = "[" /\ c = "]")
  BY DEF Opening, Closings
<1>3. At(p) \notin Whitespace /\ At(p) # "/" /\ At(p) \notin {"}", "]"} /\ At(p) # Quote
  BY <1>2 DEF Whitespace, Quote
<1>4. p = SkipWhitespace(p)
  BY <1>1, <1>3, SkipEquation
<1>5. (At(p) = Quote) = FALSE /\ (At(p) = Quote /\ At(p) = Escape) = FALSE
  BY <1>3, Zenon
<1>6. (CASE At(p) = "{" -> Append(L, "}") [] At(p) = "[" -> Append(L, "]") [] OTHER -> L)
        = Append(L, c)
  BY <1>2
<1>7. Outside(p, L) =
        Balanced[Check(p + 1, At(p) = Quote, At(p) = Quote /\ At(p) = Escape,
                       CASE At(p) = "{" -> Append(L, "}")
                         [] At(p) = "[" -> Append(L, "]")
                         [] OTHER -> L)]
  BY <1>1, <1>3, <1>4, OutsideTurn, Zenon
<1>8. (At(p) = Quote) = FALSE
  BY <1>3, Zenon
<1>9. QED
  BY <1>5, <1>6, <1>7, <1>8, Zenon DEF Outside

LEMMA ClosingBalanced ==
  ASSUME Text, NEW p \in Nat, p < Size, NEW L \in Levels, L # <<>>, At(p) = Last(L)
  PROVE  Outside(p, L) = Outside(p + 1, Front(L))
<1>1. Size \in Nat /\ p # -1 /\ ~ (p >= Size)
  BY SizeIsNat
<1>2. Last(L) \in {"}", "]"}
  BY FrontIs DEF Levels
<1>3. At(p) \notin Whitespace /\ At(p) # "/" /\ At(p) \in {"}", "]"}
  BY <1>2 DEF Whitespace
<1>4. p = SkipWhitespace(p)
  BY <1>1, <1>3, SkipEquation
<1>5. Outside(p, L) <=> (L # <<>> /\ Last(L) = At(p) /\ Outside(p + 1, Front(L)))
  BY <1>1, <1>3, <1>4, OutsideTurn
<1>6. Front(L) \in Levels /\ p + 1 \in Nat
  <2>1. Front(L) \in Levels
    BY FrontIs, Zenon DEF Levels
  <2>2. QED
    BY <2>1
<1>7. Outside(p, L) \in BOOLEAN /\ Outside(p + 1, Front(L)) \in BOOLEAN
  BY <1>6, OutsideIsBoolean
<1>8. Outside(p, L) <=> Outside(p + 1, Front(L))
  BY <1>5, Zenon
<1>9. QED
  BY <1>7, <1>8

\* At the end of the text every level is closed.
LEMMA EndBalanced == ASSUME Text PROVE Outside(Size, <<>>)
<1>1. Size \in Nat /\ Size # -1 /\ Size >= Size /\ <<>> \in Levels
  BY SizeIsNat DEF Levels
<1>2. Size = SkipWhitespace(Size)
  BY <1>1, SkipEquation
<1>3. QED
  BY <1>1, <1>2, OutsideTurn, Zenon

\* What is quoted is passed as a whole.
LEMMA QuotedBalanced ==
  ASSUME Text, NEW b \in Nat, NEW e \in Nat, e < Size, Quoted(text, b, e), NEW L \in Levels
  PROVE  Outside(b, L) = Outside(e + 1, L)
<1>1. Size \in Nat /\ b # -1 /\ ~ (b >= Size) /\ b < e
  BY SizeIsNat DEF Quoted
<1>2. At(b) = Quote /\ At(e) = Quote
  BY DEF Quoted, At
<1>3. At(b) \notin Whitespace /\ At(b) # "/" /\ At(b) \notin {"}", "]"} /\ At(b) # "{"
        /\ At(b) # "[" /\ At(b) # Escape
  BY <1>2 DEF Whitespace, Quote, Escape
<1>4. b = SkipWhitespace(b)
  BY <1>1, <1>3, SkipEquation
<1>5. Outside(b, L) = Inside(b + 1, FALSE, L)
  <2>1. (At(b) = Quote) = TRUE /\ (At(b) = Quote /\ At(b) = Escape) = FALSE
    BY <1>2, <1>3, Zenon
  <2>2. (CASE At(b) = "{" -> Append(L, "}") [] At(b) = "[" -> Append(L, "]") [] OTHER -> L) = L
    BY <1>3, Zenon
  <2>3. QED
    <3>1. Outside(b, L) =
            Balanced[Check(b + 1, At(b) = Quote, At(b) = Quote /\ At(b) = Escape,
                           CASE At(b) = "{" -> Append(L, "}")
                             [] At(b) = "[" -> Append(L, "]")
                             [] OTHER -> L)]
      BY <1>1, <1>3, <1>4, OutsideTurn, Zenon
    <3>2. QED
      BY <2>1, <2>2, <3>1, Zenon DEF Inside
<1> DEFINE P(x) == Inside(x, At(x - 1) = Escape, L) = Outside(e + 1, L)
           T == {x \in b + 1 .. e : ~ P(x)}
<1>6. P(e)
  <2>1. ~ (At(e - 1) = Escape)
    <3>1. CASE e = b + 1
      <4>1. e - 1 = b
        BY <3>1
      <4>2. QED
        BY <1>3, <4>1, Zenon
    <3>2. CASE e > b + 1
      BY <3>2, QuotedEnd DEF At
    <3>3. QED
      BY <1>1, <3>1, <3>2
  <2>2. (At(e - 1) = Escape) = FALSE
    BY <2>1, Zenon
  <2>3. QED
    BY <1>2, <2>2, InsideTurn, Zenon
<1>7. ASSUME NEW x \in b + 1 .. e - 1, P(x + 1)
      PROVE  P(x)
  <2>1. x \in Nat /\ x < Size /\ (x + 1) - 1 = x /\ (x - 1) + 1 = x
    BY <1>1
  <2>2. At(x) = Quote => At(x - 1) = Escape
    BY <2>1 DEF Quoted, At
  <2>3. PICK g \in BOOLEAN : g = (At(x - 1) = Escape)
    BY Zenon
  <2>4. ~ (At(x) = Quote /\ ~ g)
    BY <2>2, <2>3, Zenon
  <2>5. Inside(x, g, L) = Inside(x + 1, At(x) = Escape, L)
    BY <2>1, <2>4, InsideTurn, Zenon
  <2>6. QED
    BY <1>7, <2>1, <2>3, <2>5, Zenon
<1> HIDE DEF P
<1>8. T = {}
  <2>1. SUFFICES ASSUME T # {}
                 PROVE  FALSE
    OBVIOUS
  <2>2. T \in SUBSET (0 .. e)
    OBVIOUS
  <2>3. PICK x \in T : \A y \in T : y <= x
    BY <2>1, <2>2, GreatestElement
  <2>4. x # e
    BY <1>6, <2>3
  <2>5. x \in b + 1 .. e - 1 /\ x + 1 \in b + 1 .. e /\ x + 1 \notin T
    BY <2>3, <2>4
  <2>6. QED
    BY <1>7, <2>3, <2>5
<1>9. P(b + 1)
  BY <1>1, <1>8
<1>10. (At((b + 1) - 1) = Escape) = FALSE
  <2>1. (b + 1) - 1 = b
    OBVIOUS
  <2>2. QED
    BY <1>3, <2>1, Zenon
<1>11. QED
  BY <1>5, <1>9, <1>10, Zenon DEF P

-----------------------------------------------------------------------------
(* What skip of a document does over each part of a text. *)

\* Where skip ends from p on, outside of a string and inside.
Doc(close, p, n)      == DocumentScan(close)[Count(p, n, FALSE, FALSE)]
DocIn(close, p, n, g) == DocumentScan(close)[Count(p, n, TRUE, g)]

Recount(close, p, n) ==
  IF At(p) = Opening(close) THEN n + 1 ELSE IF At(p) = close THEN n - 1 ELSE n

LEMMA DocTurn ==
  ASSUME Text, NEW p \in Nat, p < Size, NEW n \in Int, NEW close
  PROVE  /\ At(p) \in Whitespace => Doc(close, p, n) = Doc(close, p + 1, n)
         /\ At(p) \notin Whitespace =>
              Doc(close, p, n) =
                IF Recount(close, p, n) = 0 THEN p
                ELSE IF At(p) = Quote
                THEN DocIn(close, p + 1, Recount(close, p, n), FALSE)
                ELSE Doc(close, p + 1, Recount(close, p, n))
<1>0. PICK no \in BOOLEAN : no = FALSE
  OBVIOUS
<1> DEFINE s == Count(p, n, no, no)
<1>1. /\ s \in Counts /\ s.at = p /\ s.count = n
      /\ s.quotes = FALSE /\ s.ignore = FALSE
  <2>1. /\ s \in Counts /\ s.at = p /\ s.count = n
        /\ s.quotes = no /\ s.ignore = no
    BY Zenon DEF Count, Counts
  <2> HIDE DEF s
  <2>2. QED
    BY <1>0, <2>1, Zenon
<1>2. Doc(close, p, n) = DocumentScan(close)[s]
  BY <1>0, Zenon DEF Doc
<1> HIDE DEF s
<1>3. ~ (p >= Size)
  BY InText, Zenon
<1>4. DocumentScan(close)[s] = DocumentTurn(close, s, DocumentScan(close))
  BY <1>1, DocumentEquation, Zenon
<1>5. Counted(close, s) = Recount(close, p, n)
  BY <1>1, Zenon DEF Counted, Recount
<1>6. Turned(s, p) = (At(p) = Quote)
  BY <1>1, Zenon DEF Turned
<1>7. CASE At(p) \in Whitespace
  <2>1. DocumentScan(close)[s] = DocumentScan(close)[Count(p + 1, n, FALSE, FALSE)]
    BY <1>1, <1>3, <1>4, <1>7, Zenon DEF DocumentTurn, OverSpace
  <2>2. QED
    BY <1>2, <1>7, <2>1, Zenon DEF Doc
<1>8. CASE At(p) \notin Whitespace
  <2>1. DocumentScan(close)[s] =
          IF Recount(close, p, n) = 0 THEN p ELSE DocumentScan(close)[OverSymbol(close, s)]
    BY <1>1, <1>3, <1>4, <1>5, <1>8, Zenon DEF DocumentTurn
  <2>2. OverSymbol(close, s) =
          Count(p + 1, Recount(close, p, n), At(p) = Quote, At(p) = Quote /\ At(p) = Escape)
    BY <1>1, <1>5, <1>6, Zenon DEF OverSymbol
  <2>3. CASE At(p) = Quote
    <3>1. (At(p) = Quote) = TRUE /\ (At(p) = Quote /\ At(p) = Escape) = FALSE
      <4>1. Quote # Escape
        BY DEF Quote, Escape
      <4>2. QED
        BY <2>3, <4>1, Zenon
    <3>2. QED
      BY <1>2, <1>8, <2>1, <2>2, <2>3, <3>1, Zenon DEF DocIn
  <2>4. CASE At(p) # Quote
    <3>1. (At(p) = Quote) = FALSE /\ (At(p) = Quote /\ At(p) = Escape) = FALSE
      BY <2>4, Zenon
    <3>2. QED
      BY <1>2, <1>8, <2>1, <2>2, <2>4, <3>1, Zenon DEF Doc
  <2>5. QED
    BY <2>3, <2>4, Zenon
<1>9. QED
  BY <1>7, <1>8, Zenon

LEMMA DocInTurn ==
  ASSUME Text, NEW p \in Nat, p < Size, NEW n \in Int, n # 0, NEW g \in BOOLEAN, NEW close
  PROVE  DocIn(close, p, n, g) =
           IF At(p) \in Whitespace THEN DocIn(close, p + 1, n, g)
           ELSE IF At(p) = Quote /\ ~ g THEN Doc(close, p + 1, n)
           ELSE DocIn(close, p + 1, n, At(p) = Escape)
<1>0. PICK yes \in BOOLEAN : yes = TRUE
  OBVIOUS
<1> DEFINE s == Count(p, n, yes, g)
<1>1. /\ s \in Counts /\ s.at = p /\ s.count = n
      /\ s.quotes = TRUE /\ s.ignore = g
  <2>1. /\ s \in Counts /\ s.at = p /\ s.count = n
        /\ s.quotes = yes /\ s.ignore = g
    BY Zenon DEF Count, Counts
  <2> HIDE DEF s
  <2>2. QED
    BY <1>0, <2>1, Zenon
<1>2. DocIn(close, p, n, g) = DocumentScan(close)[s]
  BY <1>0, Zenon DEF DocIn
<1> HIDE DEF s
<1>3. ~ (p >= Size)
  BY InText, Zenon
<1>4. DocumentScan(close)[s] = DocumentTurn(close, s, DocumentScan(close))
  BY <1>1, DocumentEquation, Zenon
<1>5. Counted(close, s) = n
  BY <1>1, Zenon DEF Counted
<1>6. Turned(s, p) = ~ (At(p) = Quote /\ ~ g)
  BY <1>1, Zenon DEF Turned
<1>7. CASE At(p) \in Whitespace
  <2>1. DocumentScan(close)[s] = DocumentScan(close)[Count(p + 1, n, TRUE, g)]
    BY <1>1, <1>3, <1>4, <1>7, Zenon DEF DocumentTurn, OverSpace
  <2>2. QED
    BY <1>2, <1>7, <2>1, Zenon DEF DocIn
<1>8. CASE At(p) \notin Whitespace
  <2>1. DocumentScan(close)[s] = DocumentScan(close)[OverSymbol(close, s)]
    BY <1>1, <1>3, <1>4, <1>5, <1>8, Zenon DEF DocumentTurn
  <2>2. OverSymbol(close, s) =
          Count(p + 1, n, Turned(s, p), Turned(s, p) /\ At(p) = Escape)
    BY <1>1, <1>5, Zenon DEF OverSymbol
  <2>3. CASE At(p) = Quote /\ ~ g
    <3>1. Turned(s, p) = FALSE /\ (Turned(s, p) /\ At(p) = Escape) = FALSE
      BY <1>6, <2>3, Zenon
    <3>2. QED
      BY <1>2, <1>8, <2>1, <2>2, <2>3, <3>1, Zenon DEF Doc
  <2>4. CASE ~ (At(p) = Quote /\ ~ g)
    <3>1. Turned(s, p) = TRUE /\ (Turned(s, p) /\ At(p) = Escape) = (At(p) = Escape)
      BY <1>6, <2>4, Zenon
    <3>2. QED
      BY <1>2, <1>8, <2>1, <2>2, <2>4, <3>1, Zenon DEF DocIn
  <2>5. QED
    BY <2>3, <2>4, Zenon
<1>9. QED
  BY <1>7, <1>8, Zenon

\* No brace and no quote.
Marks == {"{", "}", "[", "]", Quote}

LEMMA NoMarkDoc ==
  ASSUME Text, NEW p \in Nat, p < Size, At(p) \notin Marks,
         NEW n \in Int, n # 0, NEW close \in Closings
  PROVE  Doc(close, p, n) = Doc(close, p + 1, n)
<1>1. At(p) # Quote /\ At(p) # close /\ At(p) # Opening(close)
  BY DEF Marks, Opening, Closings
<1>2. Recount(close, p, n) = n
  BY <1>1, Zenon DEF Recount
<1>3. QED
  BY <1>1, <1>2, DocTurn, Zenon

LEMMA NoMarksDoc ==
  ASSUME Text, NEW a \in Nat, NEW b \in Nat, a <= b, b <= Size,
         \A p \in a .. b - 1 : At(p) \notin Marks,
         NEW n \in Int, n # 0, NEW close \in Closings
  PROVE  Doc(close, a, n) = Doc(close, b, n)
<1> DEFINE T == {p \in a .. b : Doc(close, p, n) # Doc(close, b, n)}
<1>1. T = {}
  <2>1. SUFFICES ASSUME T # {}
                 PROVE  FALSE
    OBVIOUS
  <2>2. T \in SUBSET (0 .. b)
    OBVIOUS
  <2>3. PICK p \in T : \A y \in T : y <= p
    BY <2>1, <2>2, GreatestElement
  <2>4. p # b
    BY <2>3
  <2>5. p \in Nat /\ p < Size /\ p \in a .. b - 1 /\ p + 1 \in a .. b /\ p + 1 \notin T
    BY <2>3, <2>4, SizeIsNat
  <2>6. Doc(close, p, n) = Doc(close, p + 1, n)
    BY <2>5, NoMarkDoc
  <2>7. QED
    BY <2>3, <2>5, <2>6
<1>2. a \in a .. b
  OBVIOUS
<1>3. QED
  BY <1>1, <1>2

\* Braces of the document's kind, and those of the other kind.
LEMMA BraceDoc ==
  ASSUME Text, NEW p \in Nat, p < Size, NEW n \in Nat \ {0},
         NEW close \in Closings, NEW c \in Closings
  PROVE  /\ At(p) = Opening(c) =>
              Doc(close, p, n) = Doc(close, p + 1, IF c = close THEN n + 1 ELSE n)
         /\ At(p) = c /\ c # close => Doc(close, p, n) = Doc(close, p + 1, n)
         /\ At(p) = c /\ c = close /\ n # 1 => Doc(close, p, n) = Doc(close, p + 1, n - 1)
         /\ At(p) = c /\ c = close /\ n = 1 => Doc(close, p, n) = p
<1>0. n + 1 \in Int /\ n - 1 \in Int /\ n \in Int /\ n + 1 # 0 /\ (n - 1 = 0 <=> n = 1) /\ n # 0
  OBVIOUS
<1>1. PICK m, l \in Int : m = n + 1 /\ l = n - 1 /\ m # 0 /\ (l = 0 <=> n = 1) /\ n # 0
  BY <1>0, Zenon
<1>2. At(p) = Opening(c) \/ At(p) = c => At(p) \notin Whitespace /\ At(p) # Quote
  BY DEF Opening, Whitespace, Quote, Closings
<1>3. Opening(c) # close /\ c # Opening(close) /\ Opening(close) # close
        /\ (Opening(c) = Opening(close) <=> c = close)
  BY DEF Opening, Closings
<1>4. At(p) = Opening(c) => Recount(close, p, n) = IF c = close THEN m ELSE n
  BY <1>1, <1>3, Zenon DEF Recount
<1>5. At(p) = c => Recount(close, p, n) = IF c = close THEN l ELSE n
  BY <1>1, <1>3, Zenon DEF Recount
<1>6. ASSUME At(p) = Opening(c)
      PROVE  Doc(close, p, n) = Doc(close, p + 1, IF c = close THEN m ELSE n)
  <2>1. At(p) \notin Whitespace /\ At(p) # Quote
    BY <1>2, <1>6, Zenon
  <2>2. PICK k \in Int : k = Recount(close, p, n) /\ k = IF c = close THEN m ELSE n
    BY <1>0, <1>4, <1>6, Zenon
  <2>3. Doc(close, p, n) = IF k = 0 THEN p ELSE Doc(close, p + 1, k)
    <3>1. Doc(close, p, n) =
            IF Recount(close, p, n) = 0 THEN p
            ELSE IF At(p) = Quote
            THEN DocIn(close, p + 1, Recount(close, p, n), FALSE)
            ELSE Doc(close, p + 1, Recount(close, p, n))
      BY <1>0, <2>1, DocTurn, ZenonT(60)
    <3>2. QED
      BY <2>1, <2>2, <3>1, Zenon
  <2>4. k # 0
    BY <1>1, <2>2, Zenon
  <2>5. QED
    BY <2>2, <2>3, <2>4, Zenon
<1>7. ASSUME At(p) = c
      PROVE  Doc(close, p, n) = IF c = close
                                THEN IF l = 0 THEN p ELSE Doc(close, p + 1, l)
                                ELSE Doc(close, p + 1, n)
  <2>1. At(p) \notin Whitespace /\ At(p) # Quote
    BY <1>2, <1>7, Zenon
  <2>2. PICK k \in Int : k = Recount(close, p, n) /\ k = IF c = close THEN l ELSE n
    BY <1>0, <1>5, <1>7, Zenon
  <2>3. Doc(close, p, n) = IF k = 0 THEN p ELSE Doc(close, p + 1, k)
    <3>1. Doc(close, p, n) =
            IF Recount(close, p, n) = 0 THEN p
            ELSE IF At(p) = Quote
            THEN DocIn(close, p + 1, Recount(close, p, n), FALSE)
            ELSE Doc(close, p + 1, Recount(close, p, n))
      BY <1>0, <2>1, DocTurn, ZenonT(60)
    <3>2. QED
      BY <2>1, <2>2, <3>1, Zenon
  <2>4. c = close => k = l
    BY <2>2, Zenon
  <2>5. c # close => k = n /\ k # 0
    BY <1>0, <2>2, Zenon
  <2>6. QED
    BY <2>3, <2>4, <2>5, Zenon
<1>8. QED
  BY <1>1, <1>6, <1>7, Zenon

\* A backslash behind which there is nothing yet but whitespace.
Pending(b, x) ==
  \E y \in b + 1 .. x - 1 : At(y) = Escape /\ \A z \in y + 1 .. x - 1 : At(z) \in Whitespace

LEMMA PendingIs ==
  ASSUME NEW b \in Nat, NEW x \in Nat, x > b
  PROVE  /\ ~ Pending(b, b + 1)
         /\ At(x) \in Whitespace => (Pending(b, x + 1) <=> Pending(b, x))
         /\ At(x) \notin Whitespace => (Pending(b, x + 1) <=> At(x) = Escape)
<1>1. ~ Pending(b, b + 1)
  BY DEF Pending
<1>2. (x + 1) - 1 = x /\ x \in b + 1 .. x
  OBVIOUS
<1>3. ASSUME At(x) \in Whitespace, Pending(b, x)
      PROVE  Pending(b, x + 1)
  <2>1. PICK y \in b + 1 .. x - 1 : At(y) = Escape /\ \A z \in y + 1 .. x - 1 : At(z) \in Whitespace
    BY <1>3 DEF Pending
  <2>2. \A z \in y + 1 .. x : z = x \/ z \in y + 1 .. x - 1
    OBVIOUS
  <2>3. y \in b + 1 .. x /\ \A z \in y + 1 .. x : At(z) \in Whitespace
    BY <1>3, <2>1, <2>2
  <2>4. QED
    BY <1>2, <2>1, <2>3, Zenon DEF Pending
<1>4. ASSUME At(x) \in Whitespace, Pending(b, x + 1)
      PROVE  Pending(b, x)
  <2>1. PICK y \in b + 1 .. x : At(y) = Escape /\ \A z \in y + 1 .. x : At(z) \in Whitespace
    BY <1>2, <1>4, Zenon DEF Pending
  <2>2. At(x) # Escape
    BY <1>4 DEF Whitespace, Escape
  <2>3. y # x
    BY <2>1, <2>2
  <2>4. y \in b + 1 .. x - 1 /\ \A z \in y + 1 .. x - 1 : z \in y + 1 .. x
    BY <2>3
  <2>5. QED
    BY <2>1, <2>4, Zenon DEF Pending
<1>5. ASSUME At(x) \notin Whitespace, Pending(b, x + 1)
      PROVE  At(x) = Escape
  <2>1. PICK y \in b + 1 .. x : At(y) = Escape /\ \A z \in y + 1 .. x : At(z) \in Whitespace
    BY <1>2, <1>5, Zenon DEF Pending
  <2>2. y = x \/ x \in y + 1 .. x
    OBVIOUS
  <2>3. QED
    BY <1>5, <2>1, <2>2
<1>6. ASSUME At(x) = Escape
      PROVE  Pending(b, x + 1)
  <2>1. \A z \in x + 1 .. x : FALSE
    OBVIOUS
  <2>2. QED
    BY <1>2, <1>6, <2>1, Zenon DEF Pending
<1>7. QED
  BY <1>1, <1>3, <1>4, <1>5, <1>6, Zenon

\* What is quoted is passed as a whole.
LEMMA QuotedDoc ==
  ASSUME Text, NEW b \in Nat, NEW e \in Nat, e < Size, Quoted(text, b, e),
         NEW n \in Int, n # 0, NEW close \in Closings
  PROVE  Doc(close, b, n) = Doc(close, e + 1, n)
<1>1. b < Size /\ b < e /\ Size \in Nat
  BY SizeIsNat DEF Quoted
<1>2. At(b) = Quote /\ At(e) = Quote
  BY DEF Quoted, At
<1>3. Quote \notin Whitespace /\ Quote # close /\ Quote # Opening(close)
  BY DEF Whitespace, Quote, Opening, Closings
<1>4. Doc(close, b, n) = DocIn(close, b + 1, n, FALSE)
  <2>1. Recount(close, b, n) = n
    BY <1>2, <1>3, Zenon DEF Recount
  <2>2. QED
    <3>1. /\ At(b) \notin Whitespace /\ b \in Nat
      BY <1>2, <1>3, Zenon
    <3>2. Doc(close, b, n) =
            IF Recount(close, b, n) = 0 THEN b
            ELSE IF At(b) = Quote
            THEN DocIn(close, b + 1, Recount(close, b, n), FALSE)
            ELSE Doc(close, b + 1, Recount(close, b, n))
      BY <1>1, <3>1, DocTurn, Zenon
    <3>3. QED
      BY <1>2, <2>1, <3>2, Zenon
<1> DEFINE P(x) == DocIn(close, x, n, Pending(b, x)) = Doc(close, e + 1, n)
           T == {x \in b + 1 .. e : ~ P(x)}
<1>5. P(e)
  <2>1. ~ Pending(b, e)
    <3>1. SUFFICES ASSUME Pending(b, e)
                   PROVE  FALSE
      OBVIOUS
    <3>2. PICK y \in b + 1 .. e - 1 :
            At(y) = Escape /\ \A z \in y + 1 .. e - 1 : At(z) \in Whitespace
      BY <3>1, Zenon DEF Pending
    <3>3. QED
      BY <3>2, Zenon DEF Quoted, At
  <2>2. Pending(b, e) = FALSE
    BY <2>1, Zenon DEF Pending
  <2>3. FALSE \in BOOLEAN
    OBVIOUS
  <2>4. QED
    BY <1>2, <1>3, <2>2, <2>3, DocInTurn, ZenonT(60)
<1>6. ASSUME NEW x \in b + 1 .. e - 1, P(x + 1)
      PROVE  P(x)
  <2>1. x \in Nat /\ x < Size /\ x > b /\ (x - 1) + 1 = x /\ x - 1 > b - 1
    BY <1>1
  <2>2. At(x) = Quote => x > b + 1 /\ At(x - 1) = Escape
    BY <2>1 DEF Quoted, At
  <2>3. PICK g \in BOOLEAN : g = Pending(b, x)
    BY Zenon DEF Pending
  <2>4. DocIn(close, x, n, g) =
          IF At(x) \in Whitespace THEN DocIn(close, x + 1, n, g)
          ELSE IF At(x) = Quote /\ ~ g THEN Doc(close, x + 1, n)
          ELSE DocIn(close, x + 1, n, At(x) = Escape)
    BY <2>1, DocInTurn, ZenonT(60)
  <2>5. CASE At(x) \in Whitespace
    <3>1. Pending(b, x + 1) <=> Pending(b, x)
      BY <2>1, <2>5, PendingIs, Zenon
    <3>2. Pending(b, x + 1) = Pending(b, x)
      BY <3>1, Zenon DEF Pending
    <3>3. QED
      BY <1>6, <2>3, <2>4, <2>5, <3>2, Zenon
  <2>6. CASE At(x) \notin Whitespace
    <3>1. At(x) = Quote => g
      <4>1. SUFFICES ASSUME At(x) = Quote
                     PROVE  Pending(b, x)
        BY <2>3, Zenon
      <4>2. x - 1 \in Nat /\ x - 1 > b
        BY <2>1, <2>2, <4>1
      <4>3. Escape \notin Whitespace
        BY DEF Escape, Whitespace
      <4>4. Pending(b, (x - 1) + 1)
        BY <2>2, <4>1, <4>2, <4>3, PendingIs, Zenon
      <4>5. QED
        BY <2>1, <4>4, Zenon
    <3>2. Pending(b, x + 1) <=> At(x) = Escape
      BY <2>1, <2>6, PendingIs, Zenon
    <3>3. Pending(b, x + 1) = (At(x) = Escape)
      BY <3>2, Zenon DEF Pending
    <3>4. QED
      BY <1>6, <2>3, <2>4, <2>6, <3>1, <3>3, Zenon
  <2>7. QED
    BY <2>5, <2>6, Zenon
<1> HIDE DEF P
<1>7. T = {}
  <2>1. SUFFICES ASSUME T # {}
                 PROVE  FALSE
    OBVIOUS
  <2>2. T \in SUBSET (0 .. e)
    OBVIOUS
  <2>3. PICK x \in T : \A y \in T : y <= x
    BY <2>1, <2>2, GreatestElement
  <2>4. x # e
    BY <1>5, <2>3
  <2>5. x \in b + 1 .. e - 1 /\ x + 1 \in b + 1 .. e /\ x + 1 \notin T
    BY <2>3, <2>4
  <2>6. QED
    BY <1>6, <2>3, <2>5
<1>8. P(b + 1)
  BY <1>1, <1>7
<1>9. Pending(b, b + 1) = FALSE
  <2>1. ~ Pending(b, b + 1)
    BY <1>1, PendingIs, Zenon
  <2>2. QED
    BY <2>1, Zenon DEF Pending
<1>10. QED
  BY <1>4, <1>8, <1>9, Zenon DEF P

-----------------------------------------------------------------------------
(* No scan goes back. *)

LEMMA DocForward ==
  ASSUME Text, NEW close, NEW s \in Counts
  PROVE  DocumentScan(close)[s] \in Nat /\ DocumentScan(close)[s] >= s.at
<1> DEFINE Fine(x) == DocumentScan(close)[x] \in Nat /\ DocumentScan(close)[x] >= x.at
           T == {k \in Nat : \E x \in Counts : k = Left(x.at) /\ ~ Fine(x)}
<1>1. T = {}
  <2>1. SUFFICES ASSUME T # {}
                 PROVE  FALSE
    OBVIOUS
  <2>2. PICK k \in T : \A j \in T : k <= j
    <3>1. T \in SUBSET Nat
      OBVIOUS
    <3> HIDE DEF T
    <3>2. QED
      BY <2>1, <3>1, LeastElement, Zenon
  <2>3. PICK x \in Counts : k = Left(x.at) /\ ~ Fine(x)
    OBVIOUS
  <2>4. x.at \in Nat
    BY CountsAre, Zenon
  <2>5. DocumentScan(close)[x] = DocumentTurn(close, x, DocumentScan(close))
    BY DocumentEquation, Zenon
  <2>6. ~ (x.at >= Size)
    <3>1. x.at >= x.at
      BY <2>4
    <3>2. QED
      BY <2>3, <2>4, <2>5, <3>1, Zenon DEF DocumentTurn
  <2>7. ASSUME NEW y \in Counts, y.at = x.at + 1
        PROVE  DocumentScan(close)[y] \in Nat /\ DocumentScan(close)[y] >= x.at
    <3>1. x.at + 1 \in Nat /\ x.at < x.at + 1 /\ x.at < Size
      BY <2>4, <2>6, SizeIsNat
    <3>2. Left(y.at) \in Nat /\ Left(y.at) < k
      BY <2>3, <2>4, <2>7, <3>1, LeftIs, SizeIsNat
    <3>3. ~ (Left(y.at) \in T)
      BY <2>2, <3>2
    <3>4. Fine(y)
      BY <3>2, <3>3
    <3>5. QED
      BY <2>4, <2>7, <3>4
  <2>8. DocumentScan(close)[x] = x.at \/ DocumentScan(close)[x] = DocumentScan(close)[OverSpace(x)]
          \/ DocumentScan(close)[x] = DocumentScan(close)[OverSymbol(close, x)]
    BY <2>5, Zenon DEF DocumentTurn
  <2>9. Fine(x)
    BY <2>4, <2>7, <2>8, CountsAre
  <2>10. QED
    BY <2>3, <2>9
<1>2. s.at \in Nat
  BY CountsAre, Zenon
<1>3. Left(s.at) \in Nat
  BY <1>2, LeftIs, SizeIsNat
<1>4. QED
  BY <1>1, <1>3

LEMMA ScansForward ==
  ASSUME Text, NEW p \in Nat, p < Size
  PROVE  /\ KeyEnd(p) \in Nat /\ KeyEnd(p) > p
         /\ StringEnd(p) \in Nat /\ StringEnd(p) > p
         /\ WordEnd(p) \in Nat /\ WordEnd(p) >= p
         /\ \A close : DocumentEnd(p, close) \in Nat /\ DocumentEnd(p, close) > p
         /\ SkipEnd(p) \in Nat /\ SkipEnd(p) >= p
<1>1. Size \in Nat /\ p + 1 \in Nat
  BY SizeIsNat
<1>2. ASSUME NEW symbols
      PROVE  FirstOf(symbols, p + 1) \in p + 1 .. Size
  <2> DEFINE S == {e \in p + 1 .. Size - 1 : At(e) \in symbols}
  <2>1. S \in SUBSET Nat /\ \A e \in S : e \in p + 1 .. Size
    BY <1>1
  <2>2. FirstOf(symbols, p + 1) = First(S, Size)
    BY DEF FirstOf
  <2> HIDE DEF S
  <2>3. First(S, Size) = Size \/ First(S, Size) \in S
    BY <2>1, FirstIs, Zenon
  <2>4. Size \in p + 1 .. Size
    BY <1>1
  <2>5. QED
    BY <2>1, <2>2, <2>3, <2>4, Zenon
<1>3. KeyEnd(p) \in p + 1 .. Size
  BY <1>2, Zenon DEF KeyEnd
<1>4. StringEnd(p) \in p + 1 .. Size
  <2> DEFINE S == {e \in p + 1 .. Size - 1 :
                     At(e) = Quote /\ (e > p + 1 => At(e - 1) # Escape)}
  <2>1. S \in SUBSET Nat /\ \A e \in S : e \in p + 1 .. Size
    BY <1>1
  <2>2. StringEnd(p) = First(S, Size)
    BY DEF StringEnd
  <2> HIDE DEF S
  <2>3. First(S, Size) = Size \/ First(S, Size) \in S
    BY <2>1, FirstIs, Zenon
  <2>4. Size \in p + 1 .. Size
    BY <1>1
  <2>5. QED
    BY <2>1, <2>2, <2>3, <2>4, Zenon
<1>5. WordEnd(p) \in p .. Size
  <2>1. PICK e \in p + 1 .. Size : WordEnd(p) = e - 1
    BY <1>2, Zenon DEF WordEnd
  <2>2. QED
    BY <1>1, <2>1
<1>6. ASSUME NEW close
      PROVE  DocumentEnd(p, close) \in Nat /\ DocumentEnd(p, close) > p
  <2>1. PICK no \in BOOLEAN : no = FALSE
    OBVIOUS
  <2>2. PICK one \in Int : one = 1
    OBVIOUS
  <2>3. PICK s : s = Count(p + 1, one, no, no)
    OBVIOUS
  <2>4. s \in Counts /\ s.at = p + 1
    BY <1>1, <2>3, Zenon DEF Count, Counts
  <2>5. DocumentEnd(p, close) = DocumentScan(close)[s]
    BY <2>1, <2>2, <2>3, DocumentEndIs, Zenon
  <2>6. DocumentScan(close)[s] \in Nat /\ DocumentScan(close)[s] >= p + 1
    BY <2>4, DocForward
  <2>7. QED
    BY <2>5, <2>6
<1>7. SkipEnd(p) \in Nat /\ SkipEnd(p) >= p
  <2>1. PICK a, b, c, d : /\ a = DocumentEnd(p, "}") /\ b = DocumentEnd(p, "]")
                          /\ c = StringEnd(p) /\ d = WordEnd(p)
    OBVIOUS
  <2>2. SkipEnd(p) \in {a, b, c, d}
    BY <2>1 DEF SkipEnd
  <2>3. a \in Nat /\ a > p /\ b \in Nat /\ b > p
    BY <1>6, <2>1
  <2>4. c \in p + 1 .. Size /\ d \in p .. Size
    BY <1>4, <1>5, <2>1, Zenon
  <2>5. \A e \in {a, b, c, d} : e \in Nat /\ e >= p
    BY <1>1, <2>3, <2>4
  <2>6. QED
    BY <2>2, <2>5, Zenon
<1>8. QED
  BY <1>1, <1>3, <1>4, <1>5, <1>6, <1>7
=============================================================================
