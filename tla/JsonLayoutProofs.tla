-------------------------- MODULE JsonLayoutProofs --------------------------
(***************************************************************************)
(* What JsonCodec writes: every event of a text is laid out where events   *)
(* says it is, behind nothing but whitespace, comments and its key.        *)
(***************************************************************************)
EXTENDS JsonScanProofs

-----------------------------------------------------------------------------
(* Parts of a text. *)

\* t has u at the offset a.
Holds(t, a, u) == a + Len(u) <= Len(t) /\ \A k \in 1 .. Len(u) : t[a + k] = u[k]

LEMMA HoldsWhole ==
  ASSUME NEW S, NEW t \in Seq(S), NEW u \in Seq(S)
  PROVE  t \o u \in Seq(S) /\ Holds(t \o u, Len(t), u) /\ Len(t \o u) = Len(t) + Len(u)
BY ConcatIs DEF Holds

LEMMA HoldsMore ==
  ASSUME NEW S, NEW t \in Seq(S), NEW u \in Seq(S), NEW v \in Seq(S), NEW a \in Nat,
         Holds(t, a, v)
  PROVE  Holds(t \o u, a, v)
<1>1. Len(t) \in Nat /\ Len(u) \in Nat /\ Len(v) \in Nat
  OBVIOUS
<1>2. Len(t \o u) = Len(t) + Len(u) /\ \A k \in 1 .. Len(t) : (t \o u)[k] = t[k]
  BY ConcatIs
<1>3. \A k \in 1 .. Len(v) : a + k \in 1 .. Len(t)
  BY <1>1 DEF Holds
<1>4. QED
  BY <1>1, <1>2, <1>3 DEF Holds

LEMMA HoldsConcat ==
  ASSUME NEW S, NEW t \in Seq(S), NEW u \in Seq(S), NEW v \in Seq(S), NEW a \in Nat,
         Holds(t, a, u \o v)
  PROVE  Holds(t, a, u) /\ Holds(t, a + Len(u), v)
<1>1. Len(t) \in Nat /\ Len(u) \in Nat /\ Len(v) \in Nat
  OBVIOUS
<1>2. /\ Len(u \o v) = Len(u) + Len(v)
      /\ \A k \in 1 .. Len(u) : (u \o v)[k] = u[k]
      /\ \A k \in 1 .. Len(v) : (u \o v)[Len(u) + k] = v[k]
  BY ConcatIs
<1>3. a + (Len(u) + Len(v)) <= Len(t)
        /\ \A k \in 1 .. Len(u) + Len(v) : t[a + k] = (u \o v)[k]
  BY <1>2 DEF Holds
<1>4. Holds(t, a, u)
  <2>1. \A k \in 1 .. Len(u) : k \in 1 .. Len(u) + Len(v)
    BY <1>1
  <2>2. a + Len(u) <= Len(t)
    BY <1>1, <1>3
  <2>3. QED
    BY <1>2, <1>3, <2>1, <2>2, Zenon DEF Holds
<1>5. Holds(t, a + Len(u), v)
  <2>1. \A k \in 1 .. Len(v) : Len(u) + k \in 1 .. Len(u) + Len(v)
                                 /\ (a + Len(u)) + k = a + (Len(u) + k)
    BY <1>1
  <2>2. (a + Len(u)) + Len(v) <= Len(t)
    BY <1>1, <1>3
  <2>3. \A k \in 1 .. Len(v) : t[(a + Len(u)) + k] = v[k]
    BY <1>2, <1>3, <2>1, Zenon
  <2>4. QED
    BY <2>2, <2>3, Zenon DEF Holds
<1>6. QED
  BY <1>4, <1>5

\* One symbol.
LEMMA HoldsOne ==
  ASSUME NEW t, NEW a \in Nat, NEW c, Holds(t, a, <<c>>)
  PROVE  t[a + 1] = c /\ a + 1 <= Len(t)
BY DEF Holds

-----------------------------------------------------------------------------
(* Whitespace and comments. *)

\* t2 has from c on what t has between a and b.
Moved(t, a, b, t2, c) == \A k \in 1 .. b - a : t2[c + k] = t[a + k]

LEMMA CommentMoved ==
  ASSUME NEW t, NEW t2, NEW a \in Nat, NEW b \in Nat, NEW c \in Nat, Moved(t, a, b, t2, c),
         NEW p \in Nat, NEW n \in Nat, a <= p, n <= b, Comment(t, p, n)
  PROVE  Comment(t2, c + (p - a), c + (n - a))
<1> DEFINE q == c + (p - a)
           m == c + (n - a)
<1>1. q \in Nat /\ m \in Nat /\ n >= p + 3
  BY DEF Comment
<1>2. ASSUME NEW k \in q + 1 .. m
      PROVE  (k - c) + a \in p + 1 .. n /\ t2[k] = t[(k - c) + a]
  <2>1. k - c \in 1 .. b - a /\ c + (k - c) = k /\ a + (k - c) = (k - c) + a
          /\ (k - c) + a \in p + 1 .. n
    BY <1>1
  <2>2. t2[c + (k - c)] = t[a + (k - c)]
    BY <2>1, Zenon DEF Moved
  <2>3. QED
    BY <2>1, <2>2, Zenon
<1>3. t2[q + 1] = t[p + 1] /\ t2[q + 2] = t[p + 2] /\ t2[m] = t[n] /\ t2[m - 1] = t[n - 1]
  <2>1. /\ q + 1 \in q + 1 .. m /\ ((q + 1) - c) + a = p + 1
        /\ q + 2 \in q + 1 .. m /\ ((q + 2) - c) + a = p + 2
        /\ m \in q + 1 .. m /\ (m - c) + a = n
        /\ m - 1 \in q + 1 .. m /\ ((m - 1) - c) + a = n - 1
    BY <1>1
  <2>2. \A k \in q + 1 .. m : t2[k] = t[(k - c) + a]
    BY <1>2
  <2> HIDE DEF q, m
  <2>3. /\ t2[q + 1] = t[((q + 1) - c) + a] /\ t2[q + 2] = t[((q + 2) - c) + a]
        /\ t2[m] = t[(m - c) + a] /\ t2[m - 1] = t[((m - 1) - c) + a]
    BY <2>1, <2>2, Zenon
  <2>4. QED
    BY <2>1, <2>3, Zenon
<1>4. CASE /\ n >= p + 3 /\ t[p + 2] = "/" /\ t[n] \in {"\n", "\r"}
           /\ \A k \in p + 3 .. n - 1 : t[k] \notin {"\n", "\r"}
  <2>1. ASSUME NEW k \in q + 3 .. m - 1
        PROVE  t2[k] \notin {"\n", "\r"}
    <3>1. k \in q + 1 .. m /\ (k - c) + a \in p + 3 .. n - 1
      BY <1>1
    <3>2. QED
      BY <1>2, <1>4, <3>1, Zenon
  <2>2. m >= q + 3
    BY <1>4
  <2> HIDE DEF q, m
  <2>3. QED
    BY <1>3, <1>4, <2>1, <2>2, Zenon DEF Comment, q, m
<1>5. CASE /\ n >= p + 4 /\ t[p + 2] = "*" /\ t[n - 1] = "*" /\ t[n] = "/"
           /\ \A k \in p + 4 .. n - 1 : ~ (t[k - 1] = "*" /\ t[k] = "/")
  <2>1. ASSUME NEW k \in q + 4 .. m - 1
        PROVE  ~ (t2[k - 1] = "*" /\ t2[k] = "/")
    <3>1. k \in q + 1 .. m /\ (k - c) + a \in p + 4 .. n - 1
            /\ k - 1 \in q + 1 .. m /\ ((k - 1) - c) + a = ((k - c) + a) - 1
      BY <1>1
    <3>2. QED
      BY <1>2, <1>5, <3>1, Zenon
  <2>2. m >= q + 4
    BY <1>5
  <2> HIDE DEF q, m
  <2>3. QED
    BY <1>3, <1>5, <2>1, <2>2, Zenon DEF Comment, q, m
<1>6. QED
  BY <1>4, <1>5, Zenon DEF Comment

LEMMA SkipsMoved ==
  ASSUME NEW t, NEW t2, NEW a \in Nat, NEW b \in Nat, NEW c \in Nat, Moved(t, a, b, t2, c),
         NEW p \in Nat, NEW n \in Nat, a <= p, p < n, n <= b, SkipsTo(t, p, n)
  PROVE  SkipsTo(t2, c + (p - a), c + (n - a))
<1>1. CASE n = p + 1 /\ t[n] \in Whitespace
  <2>1. n - a \in 1 .. b - a /\ a + (n - a) = n /\ c + (n - a) = (c + (p - a)) + 1
    BY <1>1
  <2>2. t2[c + (n - a)] = t[a + (n - a)]
    BY <2>1, Zenon DEF Moved
  <2>3. QED
    BY <1>1, <2>1, <2>2, Zenon DEF SkipsTo
<1>2. CASE Comment(t, p, n)
  BY <1>2, CommentMoved, Zenon DEF SkipsTo
<1>3. QED
  BY <1>1, <1>2, Zenon DEF SkipsTo

LEMMA FillsMoved ==
  ASSUME NEW t, NEW t2, NEW a \in Nat, NEW b \in Nat, NEW c \in Nat, Moved(t, a, b, t2, c),
         Fills(t, a, b)
  PROVE  a <= b /\ Fills(t2, c, c + (b - a))
<1>1. PICK C \in SUBSET (a .. b) :
        /\ {a, b} \subseteq C
        /\ \A p \in C \ {b} : \E n \in C : n > p /\ SkipsTo(t, p, n)
  BY DEF Fills
<1>2. a <= b /\ \A p \in C : p \in a .. b
  <2>1. \A p \in C : p \in a .. b
    OBVIOUS
  <2>2. a \in C
    BY <1>1
  <2>3. QED
    BY <2>1, <2>2
<1> DEFINE D == {c + (p - a) : p \in C}
<1>3. D \in SUBSET (c .. c + (b - a))
  BY <1>2
<1>4. c \in D /\ c + (b - a) \in D
  <2>1. c + (a - a) = c /\ a \in C /\ b \in C
    BY <1>1
  <2>2. QED
    BY <2>1
<1>5. ASSUME NEW q \in D \ {c + (b - a)}
      PROVE  \E m \in D : m > q /\ SkipsTo(t2, q, m)
  <2>1. PICK p \in C : q = c + (p - a)
    OBVIOUS
  <2>2. p # b
    BY <2>1
  <2>3. PICK n \in C : n > p /\ SkipsTo(t, p, n)
    BY <1>1, <2>2
  <2>4. p \in Nat /\ n \in Nat /\ a <= p /\ p < n /\ n <= b
    BY <1>2, <2>3
  <2>5. SkipsTo(t2, c + (p - a), c + (n - a))
    BY <2>3, <2>4, SkipsMoved, Zenon
  <2>6. c + (n - a) \in D /\ c + (n - a) > q
    BY <2>1, <2>4
  <2>7. QED
    BY <2>1, <2>5, <2>6
<1> HIDE DEF D
<1>6. {c, c + (b - a)} \subseteq D
  BY <1>4
<1>7. QED
  BY <1>2, <1>3, <1>5, <1>6, Zenon DEF Fills

LEMMA FillsJoin ==
  ASSUME NEW t, NEW a \in Nat, NEW b \in Nat, NEW c \in Nat, Fills(t, a, b), Fills(t, b, c)
  PROVE  Fills(t, a, c)
<1>1. PICK C \in SUBSET (a .. b) :
        /\ {a, b} \subseteq C
        /\ \A p \in C \ {b} : \E n \in C : n > p /\ SkipsTo(t, p, n)
  BY DEF Fills
<1>2. PICK D \in SUBSET (b .. c) :
        /\ {b, c} \subseteq D
        /\ \A p \in D \ {c} : \E n \in D : n > p /\ SkipsTo(t, p, n)
  BY DEF Fills
<1>3. a \in C /\ b \in C /\ b \in D /\ c \in D
  BY <1>1, <1>2
<1>4. (\A p \in C : p \in a .. b) /\ (\A p \in D : p \in b .. c)
  OBVIOUS
<1>5. a <= b /\ b <= c
  BY <1>3, <1>4
<1>6. C \union D \in SUBSET (a .. c)
  BY <1>4, <1>5
<1>7. ASSUME NEW p \in (C \union D) \ {c}
      PROVE  \E n \in C \union D : n > p /\ SkipsTo(t, p, n)
  <2>1. p \in C \ {b} \/ p \in D \ {c}
    BY <1>3
  <2>2. QED
    BY <1>1, <1>2, <2>1
<1>8. {a, c} \subseteq C \union D
  BY <1>3
<1>9. QED
  BY <1>6, <1>7, <1>8, Zenon DEF Fills

LEMMA FillsWhitespace ==
  ASSUME NEW t, NEW n \in Nat, \A k \in 1 .. n : t[k] \in Whitespace
  PROVE  Fills(t, 0, n)
<1>1. ASSUME NEW p \in (0 .. n) \ {n}
      PROVE  \E m \in 0 .. n : m > p /\ SkipsTo(t, p, m)
  <2>1. p + 1 \in 0 .. n /\ p + 1 > p /\ p + 1 \in 1 .. n
    OBVIOUS
  <2>2. QED
    BY <2>1, Zenon DEF SkipsTo
<1>2. 0 .. n \in SUBSET (0 .. n) /\ {0, n} \subseteq 0 .. n
  OBVIOUS
<1>3. QED
  BY <1>1, <1>2, Zenon DEF Fills

-----------------------------------------------------------------------------
(* What is written between tokens. *)

\* Whitespace and comments, and no brace and no quote where comments do not
\* mislead.
Filler(u, misleading) ==
  /\ u \in Seq(Symbols) /\ Fills(u, 0, Len(u))
  /\ ~ misleading => \A k \in 1 .. Len(u) : u[k] \notin Marks

Between(t, misleading, a, b) ==
  /\ a <= b /\ Fills(t, a, b)
  /\ ~ misleading => \A x \in a .. b - 1 : t[x + 1] \notin Marks

LEMMA FillerSpaces ==
  ASSUME NEW u \in Seq(Symbols), \A k \in 1 .. Len(u) : u[k] \in Whitespace, NEW m
  PROVE  Filler(u, m)
<1>1. Len(u) \in Nat
  OBVIOUS
<1>2. Fills(u, 0, Len(u))
  BY <1>1, FillsWhitespace
<1>3. \A c \in Whitespace : c \notin Marks
  BY DEF Whitespace, Marks, Quote
<1>4. QED
  BY <1>2, <1>3, Zenon DEF Filler

LEMMA FillerSymbol ==
  ASSUME NEW c \in Symbols, c \in Whitespace, NEW m
  PROVE  Filler(<<c>>, m)
<1>1. <<c>> \in Seq(Symbols) /\ Len(<<c>>) = 1 /\ <<c>>[1] = c
  OBVIOUS
<1>2. \A k \in 1 .. 1 : k = 1
  OBVIOUS
<1>3. QED
  BY <1>1, <1>2, FillerSpaces, Zenon

LEMMA FillerNothing == ASSUME NEW m PROVE Filler(<<>>, m)
<1>1. <<>> \in Seq(Symbols) /\ \A k \in 1 .. Len(<<>>) : FALSE
  OBVIOUS
<1>2. QED
  BY <1>1, FillerSpaces, Zenon

LEMMA FillerMore ==
  ASSUME NEW m, NEW u, NEW v, Filler(u, m), Filler(v, m)
  PROVE  Filler(u \o v, m)
<1>1. u \in Seq(Symbols) /\ v \in Seq(Symbols)
  BY DEF Filler
<1>2. Len(u) \in Nat /\ Len(v) \in Nat
  BY <1>1
<1>3. /\ u \o v \in Seq(Symbols)
      /\ Len(u \o v) = Len(u) + Len(v)
      /\ \A q \in 1 .. Len(u) : (u \o v)[q] = u[q]
      /\ \A q \in 1 .. Len(v) : (u \o v)[Len(u) + q] = v[q]
  BY <1>1, ConcatIs
<1> DEFINE w == u \o v
<1> HIDE DEF w
<1>4. Fills(w, 0, Len(u))
  <2>1. Moved(u, 0, Len(u), w, 0)
    BY <1>2, <1>3 DEF Moved, w
  <2>2. Fills(u, 0, Len(u)) /\ 0 + (Len(u) - 0) = Len(u) /\ 0 \in Nat
    BY <1>2 DEF Filler
  <2>3. Fills(w, 0, 0 + (Len(u) - 0))
    BY <1>2, <2>1, <2>2, FillsMoved, Zenon
  <2>4. QED
    BY <2>2, <2>3, Zenon
<1>5. Fills(w, Len(u), Len(u) + Len(v))
  <2>1. Moved(v, 0, Len(v), w, Len(u))
    BY <1>2, <1>3 DEF Moved, w
  <2>2. Fills(v, 0, Len(v)) /\ Len(u) + (Len(v) - 0) = Len(u) + Len(v) /\ 0 \in Nat
    BY <1>2 DEF Filler
  <2>3. Fills(w, Len(u), Len(u) + (Len(v) - 0))
    BY <1>2, <2>1, <2>2, FillsMoved, Zenon
  <2>4. QED
    BY <2>2, <2>3, Zenon
<1>6. Len(u) + Len(v) \in Nat
  BY <1>2
<1>7. Fills(w, 0, Len(u) + Len(v))
  BY <1>2, <1>4, <1>5, <1>6, FillsJoin
<1>8. ASSUME ~ m, NEW k \in 1 .. Len(u) + Len(v)
      PROVE  w[k] \notin Marks
  <2>1. CASE k \in 1 .. Len(u)
    BY <1>3, <1>8, <2>1, Zenon DEF Filler, w
  <2>2. CASE k \notin 1 .. Len(u)
    <3>1. k - Len(u) \in 1 .. Len(v) /\ Len(u) + (k - Len(u)) = k
      BY <1>2, <2>2
    <3>2. w[Len(u) + (k - Len(u))] = v[k - Len(u)]
      BY <1>3, <3>1, Zenon DEF w
    <3>3. QED
      BY <1>8, <3>1, <3>2, Zenon DEF Filler
  <2>3. QED
    BY <2>1, <2>2
<1>9. QED
  BY <1>3, <1>7, <1>8, Zenon DEF Filler, w

\* Where there is a filler, text is filled.
LEMMA FillerBetween ==
  ASSUME NEW t, NEW m, NEW u, NEW a \in Nat, Filler(u, m), Holds(t, a, u)
  PROVE  Between(t, m, a, a + Len(u))
<1>1. Len(u) \in Nat
  BY DEF Filler
<1>2. Moved(u, 0, Len(u), t, a)
  BY <1>1 DEF Moved, Holds
<1>3. Fills(u, 0, Len(u)) /\ a + (Len(u) - 0) = a + Len(u) /\ 0 \in Nat /\ a <= a + Len(u)
  BY <1>1 DEF Filler
<1>4. Fills(t, a, a + (Len(u) - 0))
  BY <1>1, <1>2, <1>3, FillsMoved, Zenon
<1>5. ASSUME ~ m, NEW x \in a .. (a + Len(u)) - 1
      PROVE  t[x + 1] \notin Marks
  <2>1. (x + 1) - a \in 1 .. Len(u) /\ a + ((x + 1) - a) = x + 1
    BY <1>1
  <2>2. t[a + ((x + 1) - a)] = u[(x + 1) - a]
    BY <2>1, Zenon DEF Holds
  <2>3. QED
    BY <1>5, <2>1, <2>2, Zenon DEF Filler
<1>6. QED
  BY <1>3, <1>4, <1>5, Zenon DEF Between

\* A filler ends a word.
LEMMA FillerFirst ==
  ASSUME NEW m, NEW u, Filler(u, m), u # <<>>
  PROVE  u[1] \in Delimiters
<1>1. PICK C \in SUBSET (0 .. Len(u)) :
        /\ {0, Len(u)} \subseteq C
        /\ \A p \in C \ {Len(u)} : \E n \in C : n > p /\ SkipsTo(u, p, n)
  BY DEF Filler, Fills
<1>2. 0 \in C \ {Len(u)}
  BY <1>1 DEF Filler
<1>3. PICK n \in C : n > 0 /\ SkipsTo(u, 0, n)
  BY <1>1, <1>2
<1>4. 0 + 1 = 1
  OBVIOUS
<1>5. u[1] \in Whitespace \/ u[1] = "/"
  BY <1>3, <1>4, Zenon DEF SkipsTo, Comment
<1>6. QED
  BY <1>5 DEF Delimiters

\* More text at its end does not change what is filled.
LEMMA BetweenMore ==
  ASSUME NEW t \in Seq(Symbols), NEW v \in Seq(Symbols), NEW m,
         NEW a \in Nat, NEW b \in Nat, b <= Len(t), Between(t, m, a, b)
  PROVE  Between(t \o v, m, a, b)
<1>1. Len(t) \in Nat /\ a <= b
  BY DEF Between
<1>2. \A k \in 1 .. Len(t) : (t \o v)[k] = t[k]
  BY ConcatIs
<1>3. Moved(t, a, b, t \o v, a)
  BY <1>1, <1>2 DEF Moved
<1>4. a + (b - a) = b
  OBVIOUS
<1>5. Fills(t \o v, a, a + (b - a))
  BY <1>3, FillsMoved, Zenon DEF Between
<1>6. \A x \in a .. b - 1 : x + 1 \in 1 .. Len(t)
  BY <1>1
<1>7. QED
  BY <1>1, <1>2, <1>4, <1>5, <1>6, Zenon DEF Between

LEMMA Repeated ==
  ASSUME NEW S, NEW W, NEW c \in S, c \in W, NEW n \in Nat
  PROVE  /\ [k \in 1 .. n |-> c] \in Seq(S)
         /\ \A k \in 1 .. Len([l \in 1 .. n |-> c]) : [l \in 1 .. n |-> c][k] \in W
OBVIOUS

\* The gaps of a style, and the comma between two values.
LEMMA Gaps ==
  ASSUME style \in Styles
  PROVE  /\ Filler(style.gap, MisleadingGap)
         /\ \A depth \in Nat : Filler(Gap(depth), MisleadingGap)
         /\ Filler(<<",">>, MisleadingGap) /\ Filler(<<" ">>, MisleadingGap)
<1>1. style.gap \in Seq(Symbols) /\ Fills(style.gap, 0, Len(style.gap))
  BY StylesAssumption
<1>2. Filler(style.gap, MisleadingGap)
  <2>1. DOMAIN style.gap = 1 .. Len(style.gap)
    BY <1>1
  <2>2. ~ MisleadingGap => \A k \in 1 .. Len(style.gap) : style.gap[k] \notin Marks
    BY <2>1, Zenon DEF MisleadingGap, Marks
  <2>3. QED
    BY <1>1, <2>2, Zenon DEF Filler
<1>3. "," \in Symbols /\ " " \in Symbols /\ "\n" \in Symbols
        /\ "," \in Whitespace /\ " " \in Whitespace /\ "\n" \in Whitespace
  BY SymbolsAssumption DEF Whitespace
<1>4. Filler(<<",">>, MisleadingGap) /\ Filler(<<" ">>, MisleadingGap)
        /\ Filler(<<"\n">>, MisleadingGap)
  BY <1>3, FillerSymbol, Zenon
<1>5. ASSUME NEW depth \in Nat
      PROVE  Filler(Gap(depth), MisleadingGap)
  <2>0. PICK c \in Symbols : c = " " /\ c \in Whitespace
    BY <1>3, Zenon
  <2>1. PICK n \in Nat : n = 2 * depth
    OBVIOUS
  <2> DEFINE spaces == [k \in 1 .. n |-> c]
  <2>2. spaces \in Seq(Symbols) /\ \A k \in 1 .. Len(spaces) : spaces[k] \in Whitespace
    BY <2>0, Repeated, Zenon
  <2> HIDE DEF spaces
  <2>3. Filler(spaces, MisleadingGap)
    BY <2>2, FillerSpaces
  <2>4. Filler(<<"\n">> \o spaces, MisleadingGap)
    BY <1>4, <2>3, FillerMore
  <2>5. QED
    BY <1>2, <2>0, <2>1, <2>4, Zenon DEF Gap, spaces
<1>6. QED
  BY <1>2, <1>4, <1>5

-----------------------------------------------------------------------------
(* Where the events are laid out. *)

EventSet ==
  [kind : {"start", "item", "end"}, name : Seq(Symbols), value : Values \union {<<>>},
   at : Nat, last : Nat, depth : Nat]

\* A key from a on, in quotes, and a colon, up to the value at the offset at.
KeyAt(t, m, a, at, name) ==
  \E b, e, colon \in Nat :
    /\ Between(t, m, a, b) /\ t[b + 1] = Quote
    /\ Holds(t, b + 1, name) /\ e = (b + 1) + Len(name) /\ t[e + 1] = Quote
    /\ Between(t, m, e + 1, colon) /\ t[colon + 1] = ":"
    /\ Between(t, m, colon + 1, at)

\* What there is from a on before the event e, in a document that the last
\* symbol of before closes: a key in objects.
LedBy(t, m, a, e, before) ==
  \/ /\ e.kind # "end" /\ before # <<>> /\ Last(before) = "}"
     /\ e.name \in Names /\ KeyAt(t, m, a, e.at, e.name)
  \/ /\ e.kind = "end" \/ before = <<>> \/ Last(before) = "]"
     /\ e.name = <<>> /\ Between(t, m, a, e.at)

\* The event itself, which turns the open documents from before to after.
Shown(t, e, before, after) ==
  \/ /\ e.kind = "start" /\ e.value = <<>> /\ e.last = e.at
     /\ \E c \in Closings : t[e.at + 1] = Opening(c) /\ after = Append(before, c)
  \/ /\ e.kind = "item" /\ e.value \in Values /\ before # <<>> /\ after = before
     /\ Holds(t, e.at, Encoded(e.value)) /\ e.last + 1 = e.at + Len(Encoded(e.value))
  \/ /\ e.kind = "end" /\ e.value = <<>> /\ e.last = e.at /\ before # <<>>
     /\ t[e.at + 1] = Last(before) /\ after = Front(before)

Laid(t, m, a, e, before, after) ==
  /\ e \in EventSet /\ a <= e.at /\ e.at <= e.last /\ e.last < Len(t)
  /\ e.depth = Len(before)
  /\ LedBy(t, m, a, e, before)
  /\ Shown(t, e, before, after)

\* Where the k-th of these events, or what leads to it, starts.
Start(ev, k) == IF k = 1 THEN 0 ELSE ev[k - 1].last + 1

\* S[k] are the documents that are open behind the k-th event.
LayoutOf(t, ev, m, S) ==
  /\ t \in Seq(Symbols) /\ ev \in Seq(EventSet)
  /\ S \in [Nat -> Levels] /\ S[0] = <<>>
  /\ \A k \in 1 .. Len(ev) : Laid(t, m, Start(ev, k), ev[k], S[k - 1], S[k])
  /\ \A k \in 1 .. Len(ev) - 1 : S[k] # <<>>
  /\ \A k \in 1 .. Len(ev) - 1 : ev[k].kind = "item" => t[ev[k].last + 2] \in Delimiters
  /\ Len(t) = Start(ev, Len(ev) + 1)

LEMMA KeyMore ==
  ASSUME NEW t \in Seq(Symbols), NEW v \in Seq(Symbols), NEW m, NEW name \in Seq(Symbols),
         NEW a \in Nat, NEW at \in Nat, at <= Len(t), KeyAt(t, m, a, at, name)
  PROVE  KeyAt(t \o v, m, a, at, name)
<1>1. PICK b, e, colon \in Nat :
        /\ Between(t, m, a, b) /\ t[b + 1] = Quote
        /\ Holds(t, b + 1, name) /\ e = (b + 1) + Len(name) /\ t[e + 1] = Quote
        /\ Between(t, m, e + 1, colon) /\ t[colon + 1] = ":"
        /\ Between(t, m, colon + 1, at)
  BY Zenon DEF KeyAt
<1>2. a <= b /\ e + 1 <= colon /\ colon + 1 <= at
  BY <1>1, Zenon DEF Between
<1>3. Len(t) \in Nat /\ Len(name) \in Nat /\ e + 1 \in Nat /\ colon + 1 \in Nat /\ b + 1 \in Nat
  OBVIOUS
<1>4. b <= Len(t) /\ b + 1 \in 1 .. Len(t) /\ e + 1 \in 1 .. Len(t) /\ colon + 1 \in 1 .. Len(t)
        /\ colon <= Len(t)
  BY <1>1, <1>2, <1>3
<1>5. \A k \in 1 .. Len(t) : (t \o v)[k] = t[k]
  BY ConcatIs
<1>6. Between(t \o v, m, a, b) /\ Between(t \o v, m, e + 1, colon)
        /\ Between(t \o v, m, colon + 1, at)
  BY <1>1, <1>3, <1>4, BetweenMore, Zenon
<1>7. Holds(t \o v, b + 1, name)
  BY <1>1, <1>3, HoldsMore, Zenon
<1>8. QED
  BY <1>1, <1>4, <1>5, <1>6, <1>7, Zenon DEF KeyAt

\* What an event is encoded to.
LEMMA EncodedIs ==
  ASSUME NEW v \in Values
  PROVE  Encoded(v) \in Seq(Symbols) /\ Len(Encoded(v)) \in Nat \ {0}
<1>1. CASE v.kind = "word"
  <2>1. v.value \in Words
    BY <1>1 DEF Values, Str, Word
  <2>2. v.value \in Seq(Symbols) /\ v.value # <<>>
    BY <2>1, WordsAssumption
  <2>3. QED
    BY <1>1, <2>2 DEF Encoded
<1>2. CASE v.kind # "word"
  <2>1. v.value \in Strings
    BY <1>2 DEF Values, Str, Word
  <2>2. Escaped(v.value) \in Seq(Symbols) /\ Quote \in Symbols
    BY <2>1, StringIsEscaped, SymbolsAssumption
  <2>3. Encoded(v) = <<Quote>> \o Escaped(v.value) \o <<Quote>>
    BY <1>2 DEF Encoded
  <2>4. QED
    BY <2>2, <2>3
<1>3. QED
  BY <1>1, <1>2

LEMMA LaidMore ==
  ASSUME NEW t \in Seq(Symbols), NEW v \in Seq(Symbols), NEW m, NEW a \in Nat, NEW e,
         NEW before, NEW after, Laid(t, m, a, e, before, after)
  PROVE  Laid(t \o v, m, a, e, before, after)
<1>1. e \in EventSet /\ a <= e.at /\ e.at <= e.last /\ e.last < Len(t) /\ e.depth = Len(before)
  BY Zenon DEF Laid
<1>2. e.at \in Nat /\ e.last \in Nat /\ e.name \in Seq(Symbols) /\ Len(t) \in Nat /\ Len(v) \in Nat
  BY <1>1 DEF EventSet
<1>3. Len(t \o v) = Len(t) + Len(v) /\ \A k \in 1 .. Len(t) : (t \o v)[k] = t[k]
  BY ConcatIs
<1>4. e.last < Len(t \o v) /\ e.at <= Len(t) /\ e.at + 1 \in 1 .. Len(t)
  BY <1>1, <1>2, <1>3
<1>5. LedBy(t \o v, m, a, e, before)
  <2>1. LedBy(t, m, a, e, before)
    BY Zenon DEF Laid
  <2>2. KeyAt(t, m, a, e.at, e.name) => KeyAt(t \o v, m, a, e.at, e.name)
    BY <1>2, <1>4, KeyMore, Zenon
  <2>3. Between(t, m, a, e.at) => Between(t \o v, m, a, e.at)
    BY <1>2, <1>4, BetweenMore, Zenon
  <2>4. QED
    BY <2>1, <2>2, <2>3, Zenon DEF LedBy
<1>6. Shown(t \o v, e, before, after)
  <2>1. Shown(t, e, before, after)
    BY Zenon DEF Laid
  <2>2. (t \o v)[e.at + 1] = t[e.at + 1]
    BY <1>3, <1>4, Zenon
  <2>3. e.value \in Values /\ Holds(t, e.at, Encoded(e.value))
          => Holds(t \o v, e.at, Encoded(e.value))
    BY <1>2, EncodedIs, HoldsMore, Zenon
  <2>4. QED
    BY <2>1, <2>2, <2>3, Zenon DEF Shown
<1>7. QED
  BY <1>1, <1>4, <1>5, <1>6, Zenon DEF Laid

\* An event more.
LEMMA LayoutMore ==
  ASSUME NEW t, NEW ev, NEW m, NEW S, LayoutOf(t, ev, m, S),
         NEW u \in Seq(Symbols), NEW e, NEW after \in Levels,
         Laid(t \o u, m, Len(t), e, S[Len(ev)], after), e.last + 1 = Len(t \o u),
         Len(ev) > 0 => S[Len(ev)] # <<>>,
         Len(ev) > 0 /\ ev[Len(ev)].kind = "item" => u # <<>> /\ u[1] \in Delimiters
  PROVE  LayoutOf(t \o u, Append(ev, e), m, [S EXCEPT ![Len(ev) + 1] = after])
<1> DEFINE n  == Len(ev)
           w  == t \o u
           ew == Append(ev, e)
           Sw == [S EXCEPT ![n + 1] = after]
<1>1. /\ t \in Seq(Symbols) /\ ev \in Seq(EventSet) /\ S \in [Nat -> Levels] /\ S[0] = <<>>
      /\ \A k \in 1 .. n : Laid(t, m, Start(ev, k), ev[k], S[k - 1], S[k])
      /\ \A k \in 1 .. n - 1 : S[k] # <<>>
      /\ \A k \in 1 .. n - 1 : ev[k].kind = "item" => t[ev[k].last + 2] \in Delimiters
      /\ Len(t) = Start(ev, n + 1)
  BY Zenon DEF LayoutOf
<1>2. n \in Nat /\ Len(t) \in Nat /\ Len(u) \in Nat
  BY <1>1
<1>3. e \in EventSet
  BY Zenon DEF Laid
<1>4. /\ ew \in Seq(EventSet) /\ Len(ew) = n + 1
      /\ \A k \in 1 .. n : ew[k] = ev[k]
      /\ ew[n + 1] = e
  <2>1. ev \in Seq(EventSet)
    BY <1>1, Zenon
  <2>2. QED
    BY <1>3, <2>1
<1>5. /\ w \in Seq(Symbols) /\ Len(w) = Len(t) + Len(u)
      /\ \A k \in 1 .. Len(t) : w[k] = t[k]
      /\ \A k \in 1 .. Len(u) : w[Len(t) + k] = u[k]
  <2>1. t \in Seq(Symbols)
    BY <1>1, Zenon
  <2>2. QED
    BY <2>1
<1>6. /\ Sw \in [Nat -> Levels] /\ Sw[n + 1] = after
      /\ \A k \in Nat : k # n + 1 => Sw[k] = S[k]
  BY <1>1, <1>2
<1> HIDE DEF n, w, ew, Sw
<1>7. \A k \in 1 .. n + 1 : Start(ew, k) = Start(ev, k)
  <2>1. \A k \in 1 .. n + 1 : k # 1 => k - 1 \in 1 .. n
    BY <1>2
  <2>2. QED
    BY <1>4, <2>1, Zenon DEF Start
<1>8. ASSUME NEW k \in 1 .. n
      PROVE  /\ k \in Nat /\ k - 1 \in Nat /\ k # n + 1 /\ k - 1 # n + 1 /\ k \in 1 .. n + 1
             /\ Start(ev, k) \in Nat /\ ev[k] \in EventSet /\ ev[k].last \in Nat
  <2>1. k # 1 => k - 1 \in 1 .. n
    BY <1>2
  <2>2. \A j \in 1 .. n : ev[j] \in EventSet
    BY <1>1 DEF n
  <2>3. \A j \in 1 .. n : ev[j].last \in Nat
    BY <2>2, Zenon DEF EventSet
  <2>4. Start(ev, k) \in Nat
    <3>1. CASE k = 1
      BY <3>1 DEF Start
    <3>2. CASE k # 1
      BY <2>1, <2>3, <3>2 DEF Start
    <3>3. QED
      BY <3>1, <3>2
  <2>5. QED
    BY <1>2, <2>2, <2>3, <2>4
<1>9. ASSUME NEW k \in 1 .. n + 1
      PROVE  Laid(w, m, Start(ew, k), ew[k], Sw[k - 1], Sw[k])
  <2>1. CASE k \in 1 .. n
    <3>1. Laid(t, m, Start(ev, k), ev[k], S[k - 1], S[k])
      BY <1>1, <2>1, Zenon DEF n
    <3>2. Laid(w, m, Start(ev, k), ev[k], S[k - 1], S[k])
      BY <1>1, <1>8, <2>1, <3>1, LaidMore, Zenon DEF w
    <3>3. QED
      BY <1>4, <1>6, <1>7, <1>8, <2>1, <3>2, Zenon
  <2>2. CASE k = n + 1
    <3>1. Laid(w, m, Len(t), e, S[n], after)
      BY Zenon DEF n, w
    <3>2. k - 1 = n /\ n \in Nat /\ n # n + 1
      BY <1>2, <2>2
    <3>3. Start(ew, k) = Len(t)
      BY <1>1, <1>7, <2>2, Zenon DEF n
    <3>4. QED
      BY <1>4, <1>6, <2>2, <3>1, <3>2, <3>3, Zenon
  <2>3. QED
    BY <1>2, <2>1, <2>2
<1>10. ASSUME NEW k \in 1 .. (n + 1) - 1
       PROVE  Sw[k] # <<>> /\ (ew[k].kind = "item" => w[ew[k].last + 2] \in Delimiters)
  <2>1. k \in 1 .. n /\ k \in Nat /\ k # n + 1 /\ (k = n \/ k \in 1 .. n - 1)
    BY <1>2
  <2>2. Sw[k] # <<>>
    <3>1. k = n => n > 0
      BY <2>1
    <3>2. QED
      BY <1>1, <1>6, <2>1, <3>1, Zenon DEF n
  <2>3. CASE k = n
    <3>1. n > 0 /\ Start(ev, n + 1) = ev[n].last + 1
      <4>1. n + 1 # 1 /\ (n + 1) - 1 = n /\ n > 0
        BY <2>1, <2>3
      <4>2. QED
        BY <4>1, Zenon DEF Start
    <3>2. ev[n].last \in Nat
      BY <1>8, <2>1, <2>3, Zenon
    <3>3. ev[n].last + 2 = Len(t) + 1
      BY <1>1, <3>1, <3>2 DEF n
    <3>4. ev[n].kind = "item" => 1 \in 1 .. Len(u) /\ u[1] \in Delimiters
      BY <3>1 DEF n
    <3>5. ev[n].kind = "item" => w[Len(t) + 1] \in Delimiters
      BY <1>5, <3>4, Zenon
    <3>6. QED
      BY <1>4, <2>1, <2>2, <2>3, <3>3, <3>5, Zenon
  <2>4. CASE k \in 1 .. n - 1
    <3>1. Laid(t, m, Start(ev, k + 1), ev[k + 1], S[(k + 1) - 1], S[k + 1])
      <4>1. k + 1 \in 1 .. n
        BY <1>2, <2>1, <2>4
      <4>2. QED
        BY <1>1, <4>1, Zenon DEF n
    <3>2. Start(ev, k + 1) = ev[k].last + 1
      BY <2>1 DEF Start
    <3>3. ev[k].last + 1 <= ev[k + 1].at /\ ev[k + 1].at <= ev[k + 1].last
            /\ ev[k + 1].last < Len(t)
      BY <3>1, <3>2, Zenon DEF Laid
    <3>4. k + 1 \in 1 .. n
      BY <1>2, <2>1, <2>4
    <3>5. ev[k + 1].at \in Nat /\ ev[k + 1].last \in Nat /\ ev[k].last \in Nat
      <4>1. ev[k + 1] \in EventSet /\ ev[k] \in EventSet
        BY <1>8, <2>1, <3>4, Zenon
      <4>2. QED
        BY <4>1, Zenon DEF EventSet
    <3>6. ev[k].last + 2 \in 1 .. Len(t)
      <4>1. PICK x, y, z \in Nat : x = ev[k].last /\ y = ev[k + 1].at /\ z = ev[k + 1].last
        BY <3>5, Zenon
      <4>2. x + 1 <= y /\ y <= z /\ z < Len(t)
        BY <3>3, <4>1, Zenon
      <4>3. x + 2 \in 1 .. Len(t)
        BY <1>2, <4>2
      <4>4. QED
        BY <4>1, <4>3, Zenon
    <3>7. QED
      BY <1>1, <1>4, <1>5, <2>1, <2>2, <2>4, <3>6, ZenonT(60) DEF n
  <2>5. QED
    BY <2>1, <2>3, <2>4
<1>11. Len(w) = Start(ew, (n + 1) + 1)
  <2>1. (n + 1) + 1 # 1 /\ ((n + 1) + 1) - 1 = n + 1
    BY <1>2
  <2>2. QED
    BY <1>4, <2>1, Zenon DEF Start, w
<1>12. Sw[0] = <<>>
  <2>1. 0 \in Nat /\ 0 # n + 1
    BY <1>2
  <2>2. QED
    BY <1>1, <1>6, <2>1, Zenon
<1>13. LayoutOf(w, ew, m, Sw)
  BY <1>4, <1>5, <1>6, <1>9, <1>10, <1>11, <1>12, Zenon DEF LayoutOf
<1>14. QED
  BY <1>13 DEF n, w, ew, Sw

-----------------------------------------------------------------------------
(* The writer. *)

LoopSet == [close : Closings, items : Nat]

\* The text is laid out, and the callers' open documents are those of the
\* last event.
Written(S) ==
  /\ LayoutOf(text, events, MisleadingGap, S)
  /\ style \in Styles
  /\ loops \in Seq(LoopSet)
  /\ Len(loops) = Len(S[Len(events)])
  /\ \A k \in 1 .. Len(loops) : loops[k].close = S[Len(events)][k]
  /\ Len(events) > 0 /\ events[Len(events)].kind = "item" =>
       loops # <<>> /\ Last(loops).items > 0
  /\ phase # "write" => events # <<>> /\ loops = <<>>

LEMMA EmptyLength ==
  ASSUME NEW S, NEW s \in Seq(S)
  PROVE  s = <<>> <=> Len(s) = 0
OBVIOUS

\* A quoted name, and what comes before and behind it.
KeyParts(f, name, gap, g, q, c, a, x, b, e, colon) ==
  /\ f \in Seq(Symbols) /\ name \in Seq(Symbols) /\ gap \in Seq(Symbols) /\ g \in Seq(Symbols)
  /\ q \in Symbols /\ c \in Symbols /\ a \in Nat
  /\ x = f \o (<<q>> \o name \o <<q>> \o gap \o <<c>> \o g)
  /\ b = a + Len(f) /\ e = (b + 1) + Len(name) /\ colon = (e + 1) + Len(gap)

KeyFacts(f, name, gap, g, q, c, a, x, b, e, colon) ==
  /\ b \in Nat /\ e \in Nat /\ colon \in Nat
  /\ x \in Seq(Symbols) /\ a + Len(x) = (colon + 1) + Len(g)
  /\ f # <<>> => x # <<>> /\ x[1] = f[1]
  /\ \A w \in Seq(Symbols) : Holds(w, a, x) =>
       /\ Holds(w, a, f) /\ Holds(w, b + 1, name) /\ Holds(w, e + 1, gap)
       /\ Holds(w, colon + 1, g)
       /\ w[b + 1] = q /\ w[e + 1] = q /\ w[colon + 1] = c

LEMMA KeyHolds ==
  ASSUME NEW f, NEW name, NEW gap, NEW g, NEW q, NEW c, NEW a, NEW x, NEW b, NEW e, NEW colon,
         KeyParts(f, name, gap, g, q, c, a, x, b, e, colon)
  PROVE  KeyFacts(f, name, gap, g, q, c, a, x, b, e, colon)
<1>0. /\ f \in Seq(Symbols) /\ name \in Seq(Symbols) /\ gap \in Seq(Symbols) /\ g \in Seq(Symbols)
      /\ q \in Symbols /\ c \in Symbols /\ a \in Nat
  BY Zenon DEF KeyParts
<1> DEFINE X1 == <<q>> \o name
           X2 == X1 \o <<q>>
           X3 == X2 \o gap
           X4 == X3 \o <<c>>
           X5 == X4 \o g
<1>1. <<q>> \in Seq(Symbols) /\ <<c>> \in Seq(Symbols) /\ Len(<<q>>) = 1 /\ Len(<<c>>) = 1
  BY <1>0
<1>2. /\ Len(f) \in Nat /\ Len(name) \in Nat /\ Len(gap) \in Nat /\ Len(g) \in Nat
  BY <1>0
<1>3. X1 \in Seq(Symbols) /\ Len(X1) = Len(<<q>>) + Len(name)
  BY <1>0, <1>1, ConcatIs, Zenon
<1> HIDE DEF X1
<1>4. X2 \in Seq(Symbols) /\ Len(X2) = Len(X1) + Len(<<q>>)
  BY <1>1, <1>3
<1> HIDE DEF X2
<1>5. X3 \in Seq(Symbols) /\ Len(X3) = Len(X2) + Len(gap)
  BY <1>0, <1>4, ConcatIs, Zenon
<1> HIDE DEF X3
<1>6. X4 \in Seq(Symbols) /\ Len(X4) = Len(X3) + Len(<<c>>)
  BY <1>1, <1>5, ConcatIs, Zenon
<1> HIDE DEF X4
<1>7. X5 \in Seq(Symbols) /\ Len(X5) = Len(X4) + Len(g)
  BY <1>0, <1>6, ConcatIs, Zenon
<1>8. x = f \o X5
  BY Zenon DEF X1, X2, X3, X4, KeyParts
<1> HIDE DEF X5
<1>9. x \in Seq(Symbols) /\ Len(x) = Len(f) + Len(X5) /\ \A k \in 1 .. Len(f) : x[k] = f[k]
  <2>1. /\ f \o X5 \in Seq(Symbols) /\ Len(f \o X5) = Len(f) + Len(X5)
        /\ \A k \in 1 .. Len(f) : (f \o X5)[k] = f[k]
    <3>1. f \in Seq(Symbols) /\ X5 \in Seq(Symbols)
      BY <1>0, <1>7, Zenon
    <3>2. QED
      BY <3>1, ConcatIs, Zenon
  <2>2. QED
    BY <1>8, <2>1, Zenon
<1>10. f # <<>> => x # <<>> /\ x[1] = f[1]
  <2>1. SUFFICES ASSUME f # <<>>
                 PROVE  x # <<>> /\ x[1] = f[1]
    OBVIOUS
  <2>2. 1 \in 1 .. Len(f)
    BY <1>0, <2>1
  <2>3. Len(X5) \in Nat
    BY <1>7
  <2>4. Len(x) # 0
    BY <1>9, <2>2, <2>3
  <2>5. QED
    BY <1>9, <2>2, <2>4
<1>11. /\ b \in Nat /\ e \in Nat /\ colon \in Nat
       /\ b + 1 \in Nat /\ e + 1 \in Nat /\ colon + 1 \in Nat
       /\ b + Len(<<q>>) = b + 1 /\ b + Len(X1) = e /\ b + Len(X2) = e + 1
       /\ b + Len(X3) = colon /\ b + Len(X4) = colon + 1
       /\ a + Len(x) = (colon + 1) + Len(g)
  <2>1. b = a + Len(f) /\ e = (b + 1) + Len(name) /\ colon = (e + 1) + Len(gap)
    BY Zenon DEF KeyParts
  <2>2. /\ Len(X1) = 1 + Len(name) /\ Len(X2) = Len(X1) + 1 /\ Len(X3) = Len(X2) + Len(gap)
        /\ Len(X4) = Len(X3) + 1 /\ Len(X5) = Len(X4) + Len(g) /\ Len(x) = Len(f) + Len(X5)
        /\ Len(<<q>>) = 1
    BY <1>1, <1>3, <1>4, <1>5, <1>6, <1>7, <1>9, Zenon
  <2>3. QED
    BY <1>0, <1>2, <2>1, <2>2, SMTT(30)
<1>12. ASSUME NEW w \in Seq(Symbols), Holds(w, a, x)
       PROVE  /\ Holds(w, a, f) /\ Holds(w, b + 1, name) /\ Holds(w, e + 1, gap)
              /\ Holds(w, colon + 1, g)
              /\ w[b + 1] = q /\ w[e + 1] = q /\ w[colon + 1] = c
  <2>0. b = a + Len(f)
    BY Zenon DEF KeyParts
  <2>1. Holds(w, a, f) /\ Holds(w, b, X5)
    BY <1>0, <1>7, <1>8, <1>12, <2>0, HoldsConcat, Zenon
  <2>2. Holds(w, b, X4 \o g)
    BY <2>1 DEF X5
  <2>3. Holds(w, b, X4) /\ Holds(w, colon + 1, g)
    <3>1. Holds(w, b, X4) /\ Holds(w, b + Len(X4), g)
      BY <1>0, <1>6, <1>11, <2>2, HoldsConcat, Zenon
    <3>2. QED
      BY <1>11, <3>1, Zenon
  <2>4. Holds(w, b, X3) /\ Holds(w, colon, <<c>>)
    <3>1. Holds(w, b, X3 \o <<c>>)
      BY <2>3 DEF X4
    <3>2. Holds(w, b, X3) /\ Holds(w, b + Len(X3), <<c>>)
      BY <1>1, <1>5, <1>11, <3>1, HoldsConcat, Zenon
    <3>3. QED
      BY <1>11, <3>2, Zenon
  <2>5. Holds(w, b, X2) /\ Holds(w, e + 1, gap)
    <3>1. Holds(w, b, X2 \o gap)
      BY <2>4 DEF X3
    <3>2. Holds(w, b, X2) /\ Holds(w, b + Len(X2), gap)
      BY <1>0, <1>4, <1>11, <3>1, HoldsConcat, Zenon
    <3>3. QED
      BY <1>11, <3>2, Zenon
  <2>6. Holds(w, b, X1) /\ Holds(w, e, <<q>>)
    <3>1. Holds(w, b, X1 \o <<q>>)
      BY <2>5 DEF X2
    <3>2. Holds(w, b, X1) /\ Holds(w, b + Len(X1), <<q>>)
      BY <1>1, <1>3, <1>11, <3>1, HoldsConcat, Zenon
    <3>3. QED
      BY <1>11, <3>2, Zenon
  <2>7. Holds(w, b, <<q>>) /\ Holds(w, b + 1, name)
    <3>1. Holds(w, b, <<q>> \o name)
      BY <2>6 DEF X1
    <3>2. Holds(w, b, <<q>>) /\ Holds(w, b + Len(<<q>>), name)
      BY <1>0, <1>1, <1>11, <3>1, HoldsConcat, Zenon
    <3>3. QED
      BY <1>11, <3>2, Zenon
  <2>8. w[b + 1] = q /\ w[e + 1] = q /\ w[colon + 1] = c
    BY <1>11, <2>4, <2>6, <2>7, HoldsOne, Zenon
  <2>9. QED
    BY <2>1, <2>3, <2>5, <2>7, <2>8
<1>13. QED
  BY <1>9, <1>10, <1>11, <1>12, Zenon DEF KeyFacts

LEMMA ConcatTwice ==
  ASSUME NEW S, NEW s \in Seq(S), NEW t \in Seq(S), NEW u \in Seq(S)
  PROVE  (s \o t) \o u = s \o (t \o u) /\ s \o <<>> = s /\ <<>> \o s = s
OBVIOUS

\* The documents open behind the last event.
LEMMA OpenIs ==
  ASSUME NEW S, Written(S)
  PROVE  /\ S[Len(events)] \in Levels /\ text \in Seq(Symbols) /\ events \in Seq(EventSet)
         /\ Len(events) \in Nat /\ Len(loops) \in Nat /\ Len(text) \in Nat
         /\ (loops = <<>>) <=> (S[Len(events)] = <<>>)
         /\ loops # <<>> => /\ Last(loops) \in LoopSet
                            /\ Last(loops).close = Last(S[Len(events)])
<1>1. /\ text \in Seq(Symbols) /\ events \in Seq(EventSet) /\ S \in [Nat -> Levels]
  BY Zenon DEF Written, LayoutOf
<1>2. /\ loops \in Seq(LoopSet) /\ Len(loops) = Len(S[Len(events)])
      /\ \A k \in 1 .. Len(loops) : loops[k].close = S[Len(events)][k]
  BY Zenon DEF Written
<1>3. Len(events) \in Nat /\ Len(loops) \in Nat /\ Len(text) \in Nat
  BY <1>1, <1>2
<1>4. S[Len(events)] \in Levels
  BY <1>1, <1>3, Zenon
<1> DEFINE L == S[Len(events)]
<1>5. L \in Seq({"}", "]"})
  BY <1>4, Zenon DEF Levels
<1> HIDE DEF L
<1>6. (loops = <<>> <=> Len(loops) = 0) /\ (L = <<>> <=> Len(L) = 0)
  <2>1. loops = <<>> <=> Len(loops) = 0
    BY <1>2
  <2>2. L = <<>> <=> Len(L) = 0
    BY <1>5, EmptyLength, Zenon
  <2>3. QED
    BY <2>1, <2>2
<1>7. (loops = <<>>) <=> (L = <<>>)
  BY <1>2, <1>6, Zenon DEF L
<1>8. ASSUME loops # <<>>
      PROVE  Last(loops) \in LoopSet /\ Last(loops).close = Last(L)
  <2>1. Len(loops) \in 1 .. Len(loops)
    BY <1>2, <1>3, <1>8
  <2>2. Last(loops) = loops[Len(loops)] /\ Last(L) = L[Len(L)]
    BY Zenon DEF Last
  <2>3. loops[Len(loops)] \in LoopSet
    BY <1>2, <2>1
  <2>4. QED
    BY <1>2, <2>1, <2>2, <2>3, Zenon DEF L
<1>9. QED
  BY <1>1, <1>3, <1>4, <1>7, <1>8, Zenon DEF L

\* What is written before a value leads to it.
LEMMA LeadIs ==
  ASSUME NEW S, Written(S), loops # <<>>, NEW name \in MemberNames
  PROVE  /\ name \in Seq(Symbols) /\ Lead(name) \in Seq(Symbols)
         /\ Last(loops).items > 0 => Lead(name) # <<>> /\ Lead(name)[1] \in Delimiters
         /\ \A w \in Seq(Symbols) : \A e :
              /\ Holds(w, Len(text), Lead(name))
              /\ e.kind # "end" /\ e.name = name /\ e.at = Len(text) + Len(Lead(name))
              => LedBy(w, MisleadingGap, Len(text), e, S[Len(events)])
<1>1. /\ style \in Styles /\ S[Len(events)] # <<>> /\ Len(loops) \in Nat /\ Len(text) \in Nat
      /\ Last(loops) \in LoopSet /\ Last(loops).close = Last(S[Len(events)])
  BY OpenIs, Zenon DEF Written
<1> DEFINE m     == MisleadingGap
           comma == IF Last(loops).items > 0 THEN <<",">> ELSE <<>>
           f     == comma \o Gap(Len(loops))
           g     == IF style.pretty THEN <<" ">> ELSE style.gap
           a     == Len(text)
<1>2. Filler(style.gap, m) /\ Filler(Gap(Len(loops)), m) /\ Filler(comma, m) /\ Filler(g, m)
  BY <1>1, Gaps, FillerNothing, Zenon
<1>3. Filler(f, m)
  BY <1>2, FillerMore
<1>4. Lead(name) = f \o WrittenName(name)
  BY DEF Lead
<1>5. Last(loops).items > 0 => f # <<>> /\ f[1] \in Delimiters
  <2>1. SUFFICES ASSUME Last(loops).items > 0
                 PROVE  f # <<>> /\ f[1] \in Delimiters
    OBVIOUS
  <2>2. comma = <<",">>
    BY <2>1, Zenon
  <2>3. Gap(Len(loops)) \in Seq(Symbols) /\ comma \in Seq(Symbols)
    BY <1>2, Zenon DEF Filler
  <2>4. comma # <<>>
    BY <2>2
  <2> HIDE DEF comma
  <2>5. f # <<>>
    BY <2>3, <2>4
  <2>6. QED
    BY <1>3, <2>5, FillerFirst, Zenon
<1> HIDE DEF comma, f, g, m
<1>6. Len(f) \in Nat /\ f \in Seq(Symbols) /\ g \in Seq(Symbols) /\ style.gap \in Seq(Symbols)
        /\ Len(g) \in Nat /\ Len(style.gap) \in Nat
  BY <1>2, <1>3 DEF Filler
<1>7. CASE Last(loops).close = "]"
  <2>1. name = <<>>
    BY <1>7 DEF MemberNames
  <2>2. Lead(name) = f
    BY <1>4, <1>6, <2>1, ConcatTwice, Zenon DEF WrittenName
  <2>3. name \in Seq(Symbols)
    BY <2>1
  <2>4. ASSUME NEW w \in Seq(Symbols), NEW e, Holds(w, a, f), e.name = name, e.at = a + Len(f)
        PROVE  LedBy(w, m, a, e, S[Len(events)])
    <3>1. Between(w, m, a, a + Len(f))
      BY <1>1, <1>3, <2>4, FillerBetween, Zenon
    <3>2. QED
      BY <1>1, <1>7, <2>1, <2>4, <3>1, Zenon DEF LedBy
  <2>5. QED
    BY <1>5, <1>6, <2>2, <2>3, <2>4, Zenon DEF m
<1>8. CASE Last(loops).close # "]"
  <2>1. name \in Names /\ name # <<>> /\ name \in Seq(Symbols) /\ Last(S[Len(events)]) = "}"
    <3>1. name \in Names
      BY <1>8 DEF MemberNames
    <3>2. Last(loops).close \in Closings
      BY <1>1 DEF LoopSet
    <3>3. Last(loops).close = "}"
      BY <1>8, <3>2 DEF Closings
    <3>4. QED
      BY <1>1, <3>1, <3>3, NamesAssumption
  <2>2. PICK b, q, colon : /\ b = a + Len(f) /\ q = (b + 1) + Len(name)
                           /\ colon = (q + 1) + Len(style.gap)
    BY Zenon
  <2>3. PICK c : c = ":"
    BY Zenon
  <2>4. Quote \in Symbols /\ c \in Symbols
    BY <2>3, SymbolsAssumption
  <2>5. Lead(name) = f \o (<<Quote>> \o name \o <<Quote>> \o style.gap \o <<c>> \o g)
    BY <1>4, <2>1, <2>3, Zenon DEF WrittenName, g
  <2>6. /\ b \in Nat /\ q \in Nat /\ colon \in Nat
        /\ Lead(name) \in Seq(Symbols) /\ a + Len(Lead(name)) = (colon + 1) + Len(g)
        /\ f # <<>> => Lead(name) # <<>> /\ Lead(name)[1] = f[1]
        /\ \A w \in Seq(Symbols) : Holds(w, a, Lead(name)) =>
              /\ Holds(w, a, f) /\ Holds(w, b + 1, name) /\ Holds(w, q + 1, style.gap)
              /\ Holds(w, colon + 1, g)
              /\ w[b + 1] = Quote /\ w[q + 1] = Quote /\ w[colon + 1] = c
    <3>1. KeyParts(f, name, style.gap, g, Quote, c, a, Lead(name), b, q, colon)
      BY <1>1, <1>6, <2>1, <2>2, <2>4, <2>5, Zenon DEF KeyParts
    <3>2. KeyFacts(f, name, style.gap, g, Quote, c, a, Lead(name), b, q, colon)
      BY <3>1, KeyHolds, Zenon
    <3>3. QED
      BY <3>2, Zenon DEF KeyFacts
  <2>7. ASSUME NEW w \in Seq(Symbols), NEW e, Holds(w, a, Lead(name)), e.kind # "end",
               e.name = name, e.at = a + Len(Lead(name))
        PROVE  LedBy(w, m, a, e, S[Len(events)])
    <3>1. /\ Holds(w, a, f) /\ Holds(w, b + 1, name) /\ Holds(w, q + 1, style.gap)
          /\ Holds(w, colon + 1, g)
          /\ w[b + 1] = Quote /\ w[q + 1] = Quote /\ w[colon + 1] = ":"
      BY <2>3, <2>6, <2>7, Zenon
    <3>2. q + 1 \in Nat /\ colon + 1 \in Nat
      BY <2>6
    <3>3. Between(w, m, a, b)
      BY <1>1, <1>3, <2>2, <3>1, FillerBetween, Zenon
    <3>4. Between(w, m, q + 1, colon)
      BY <1>2, <2>2, <3>1, <3>2, FillerBetween, Zenon
    <3>5. Between(w, m, colon + 1, e.at)
      BY <1>2, <2>6, <2>7, <3>1, <3>2, FillerBetween, Zenon
    <3>6. KeyAt(w, m, a, e.at, name)
      BY <2>2, <2>6, <3>1, <3>3, <3>4, <3>5, Zenon DEF KeyAt
    <3>7. QED
      BY <1>1, <2>1, <2>7, <3>6, Zenon DEF LedBy
  <2>8. QED
    BY <1>5, <2>1, <2>6, <2>7, Zenon DEF m
<1>9. QED
  BY <1>7, <1>8

\* What every step of the writer does.
LEMMA WriteMore ==
  ASSUME NEW S, Written(S), WriterStep, NEW u \in Seq(Symbols), NEW e, NEW after \in Levels,
         text' = text \o u, events' = Append(events, e),
         Laid(text \o u, MisleadingGap, Len(text), e, S[Len(events)], after),
         e.last + 1 = Len(text \o u),
         Len(events) > 0 => loops # <<>>,
         Len(events) > 0 /\ events[Len(events)].kind = "item" => u # <<>> /\ u[1] \in Delimiters,
         loops' \in Seq(LoopSet), Len(loops') = Len(after),
         \A k \in 1 .. Len(loops') : loops'[k].close = after[k],
         e.kind = "item" => loops' # <<>> /\ Last(loops').items > 0
  PROVE  \E T : Written(T)'
<1> PICK T : T = [S EXCEPT ![Len(events) + 1] = after]
  BY Zenon
<1>1. LayoutOf(text, events, MisleadingGap, S) /\ style \in Styles
        /\ events \in Seq(EventSet) /\ S \in [Nat -> Levels]
  BY Zenon DEF Written, LayoutOf
<1>2. Len(events) > 0 => S[Len(events)] # <<>>
  BY OpenIs, Zenon
<1>3. LayoutOf(text \o u, Append(events, e), MisleadingGap, T)
  BY <1>1, <1>2, LayoutMore, Zenon
<1>4. style' = style /\ phase' = phase /\ phase = "write"
  BY DEF WriterStep
<1>5. MisleadingGap' = MisleadingGap
  BY <1>4, Zenon DEF MisleadingGap
<1>6. e \in EventSet
  BY Zenon DEF Laid
<1>7. Len(events') = Len(events) + 1 /\ events'[Len(events')] = e
  <2>1. events \in Seq(EventSet)
    BY <1>1, Zenon
  <2>2. /\ Len(Append(events, e)) = Len(events) + 1
        /\ Append(events, e)[Len(events) + 1] = e
    BY <1>6, <2>1, AppendIs, Zenon
  <2>3. events' = Append(events, e)
    OBVIOUS
  <2>4. QED
    BY <2>2, <2>3, Zenon
<1>8. T[Len(events) + 1] = after
  <2>1. Len(events) + 1 \in Nat
    BY <1>1
  <2>2. QED
    BY <1>1, <2>1, Zenon
<1>9. LayoutOf(text', events', MisleadingGap', T) /\ style' \in Styles
  BY <1>1, <1>3, <1>4, <1>5, Zenon
<1>10. Len(loops') = Len(T[Len(events')])
         /\ \A k \in 1 .. Len(loops') : loops'[k].close = T[Len(events')][k]
  BY <1>7, <1>8, Zenon
<1>11. Len(events') > 0 /\ events'[Len(events')].kind = "item" =>
          loops' # <<>> /\ Last(loops').items > 0
  BY <1>7, Zenon
<1>12. ~ (phase' # "write")
  BY <1>4
<1>13. Written(T)'
  <2>1. loops' \in Seq(LoopSet)
    OBVIOUS
  <2>2. LayoutOf(text, events, MisleadingGap, T)' /\ (style \in Styles)'
    BY <1>9
  <2>3. (Len(loops) = Len(T[Len(events)]))'
          /\ (\A k \in 1 .. Len(loops) : loops[k].close = T[Len(events)][k])'
    BY <1>10
  <2>4. QED
    BY <1>11, <1>12, <2>1, <2>2, <2>3 DEF Written
<1>14. QED
  BY <1>13

\* What it appends is laid out as events says.
Turns(kind, c, before, after) ==
  \/ /\ kind = "start"
     /\ \E x \in Closings : c = Opening(x) /\ after = Append(before, x)
  \/ kind = "end" /\ before # <<>> /\ c = Last(before) /\ after = Front(before)

SymbolWritten(t, v, c, m, kind, name, at, e, before, after) ==
  /\ t \in Seq(Symbols) /\ v \in Seq(Symbols) /\ c \in Symbols
  /\ kind \in {"start", "end"} /\ name \in Seq(Symbols) /\ at = Len(t \o v)
  /\ e = Event(kind, name, <<>>, at, at)
  /\ Len(before) = Len(loops) /\ Len(loops) \in Nat
  /\ LedBy(t \o (v \o <<c>>), m, Len(t), e, before) /\ Turns(kind, c, before, after)

LEMMA SymbolLaid ==
  ASSUME NEW t, NEW v, NEW c, NEW m, NEW kind, NEW name, NEW at, NEW e, NEW before, NEW after,
         SymbolWritten(t, v, c, m, kind, name, at, e, before, after)
  PROVE  /\ Laid(t \o (v \o <<c>>), m, Len(t), e, before, after)
         /\ e.last + 1 = Len(t \o (v \o <<c>>))
<1>0. /\ t \in Seq(Symbols) /\ v \in Seq(Symbols) /\ c \in Symbols
      /\ kind \in {"start", "end"} /\ name \in Seq(Symbols) /\ at = Len(t \o v)
      /\ e = Event(kind, name, <<>>, at, at)
      /\ Len(before) = Len(loops) /\ Len(loops) \in Nat
      /\ LedBy(t \o (v \o <<c>>), m, Len(t), e, before) /\ Turns(kind, c, before, after)
  BY Zenon DEF SymbolWritten
<1> DEFINE w == t \o (v \o <<c>>)
<1>1. /\ w \in Seq(Symbols) /\ Len(w) = at + 1 /\ w[at + 1] = c /\ at \in Nat /\ Len(t) <= at
  <2>1. /\ v \o <<c>> \in Seq(Symbols) /\ Len(v \o <<c>>) = Len(v) + 1
        /\ (v \o <<c>>)[Len(v) + 1] = c
    BY <1>0
  <2>2. Len(v) \in Nat /\ Len(t) \in Nat /\ at = Len(t) + Len(v)
    BY <1>0
  <2> HIDE DEF w
  <2>3. PICK x \in Seq(Symbols) : x = v \o <<c>>
    BY <2>1, Zenon
  <2>4. w = t \o x /\ Len(x) = Len(v) + 1 /\ x[Len(v) + 1] = c
    BY <2>1, <2>3, Zenon DEF w
  <2>5. /\ t \o x \in Seq(Symbols) /\ Len(t \o x) = Len(t) + Len(x)
        /\ \A q \in 1 .. Len(x) : (t \o x)[Len(t) + q] = x[q]
    BY <1>0, ConcatIs
  <2>6. Len(v) + 1 \in 1 .. Len(x) /\ Len(t) + (Len(v) + 1) = at + 1
    BY <2>2, <2>4
  <2>7. w[at + 1] = c
    BY <2>4, <2>5, <2>6, Zenon
  <2>8. Len(w) = at + 1
    BY <2>2, <2>4, <2>5
  <2>9. QED
    BY <2>2, <2>4, <2>5, <2>7, <2>8
<1>2. /\ e.kind = kind /\ e.name = name /\ e.value = <<>> /\ e.at = at /\ e.last = at
      /\ e.depth = Len(loops)
  BY <1>0, Zenon DEF Event
<1>3. e \in EventSet
  <2>1. <<>> \in Values \union {<<>>} /\ kind \in {"start", "item", "end"}
    BY <1>0
  <2>2. QED
    BY <1>1, <1>0, <2>1, Zenon DEF Event, EventSet
<1> HIDE DEF w
<1>4. at <= at /\ at < Len(w)
  BY <1>1
<1>5. Shown(w, e, before, after)
  BY <1>1, <1>2, <1>0, Zenon DEF Shown, Turns
<1>6. Laid(w, m, Len(t), e, before, after)
  BY <1>1, <1>2, <1>3, <1>4, <1>5, <1>0, Zenon DEF Laid, w
<1>7. QED
  BY <1>1, <1>2, <1>6, Zenon DEF w

ItemWritten(t, v, value, m, name, at, last, e, before) ==
  /\ t \in Seq(Symbols) /\ v \in Seq(Symbols) /\ value \in Values
  /\ name \in Seq(Symbols) /\ at = Len(t \o v)
  /\ last = Len(t \o (v \o Encoded(value))) - 1
  /\ e = Event("item", name, value, at, last)
  /\ Len(before) = Len(loops) /\ Len(loops) \in Nat /\ before # <<>>
  /\ LedBy(t \o (v \o Encoded(value)), m, Len(t), e, before)

LEMMA ItemLaid ==
  ASSUME NEW t, NEW v, NEW value, NEW m, NEW name, NEW at, NEW last, NEW e, NEW before,
         ItemWritten(t, v, value, m, name, at, last, e, before)
  PROVE  /\ Laid(t \o (v \o Encoded(value)), m, Len(t), e, before, before)
         /\ e.last + 1 = Len(t \o (v \o Encoded(value)))
<1>0. /\ t \in Seq(Symbols) /\ v \in Seq(Symbols) /\ value \in Values
      /\ name \in Seq(Symbols) /\ at = Len(t \o v)
      /\ last = Len(t \o (v \o Encoded(value))) - 1
      /\ e = Event("item", name, value, at, last)
      /\ Len(before) = Len(loops) /\ Len(loops) \in Nat /\ before # <<>>
      /\ LedBy(t \o (v \o Encoded(value)), m, Len(t), e, before)
  BY Zenon DEF ItemWritten
<1> DEFINE w == t \o (v \o Encoded(value))
           x == Encoded(value)
<1>1. x \in Seq(Symbols) /\ Len(x) \in Nat \ {0}
  BY <1>0, EncodedIs
<1> HIDE DEF x
<1>2. t \o v \in Seq(Symbols) /\ w = (t \o v) \o x
  <2>1. t \o v \in Seq(Symbols)
    BY <1>0
  <2>2. w = t \o (v \o x)
    BY Zenon DEF x
  <2> HIDE DEF w
  <2>3. t \in Seq(Symbols) /\ v \in Seq(Symbols) /\ x \in Seq(Symbols)
    BY <1>1, <1>0
  <2>4. (t \o v) \o x = t \o (v \o x)
    BY <2>3
  <2>5. QED
    BY <2>1, <2>2, <2>4, Zenon
<1>3. w \in Seq(Symbols) /\ Holds(w, at, x) /\ Len(w) = at + Len(x)
  BY <1>1, <1>2, <1>0, HoldsWhole, Zenon
<1>4. Len(t) \in Nat /\ Len(v) \in Nat /\ at \in Nat /\ Len(t) <= at
  BY <1>0
<1> HIDE DEF w
<1>5. last = Len(w) - 1
  BY <1>0 DEF w, x
<1>6. last \in Nat /\ at <= last /\ last < Len(w) /\ last + 1 = Len(w) /\ last + 1 = at + Len(x)
  BY <1>1, <1>3, <1>4, <1>5
<1>7. /\ e.kind = "item" /\ e.name = name /\ e.value = value /\ e.at = at /\ e.last = last
      /\ e.depth = Len(loops)
  BY <1>0, Zenon DEF Event
<1>8. e \in EventSet
  <2>1. value \in Values \union {<<>>} /\ "item" \in {"start", "item", "end"}
    BY <1>0
  <2>2. QED
    BY <1>4, <1>6, <1>0, <2>1, Zenon DEF Event, EventSet
<1>9. Shown(w, e, before, before)
  BY <1>3, <1>6, <1>7, <1>0, Zenon DEF Shown, x
<1>10. Laid(w, m, Len(t), e, before, before)
  BY <1>4, <1>6, <1>7, <1>8, <1>9, <1>0, Zenon DEF Laid, w, x
<1>11. QED
  BY <1>6, <1>7, <1>10, Zenon DEF w, x


LEMMA HoldsMiddle ==
  ASSUME NEW S, NEW t \in Seq(S), NEW v \in Seq(S), NEW x \in Seq(S)
  PROVE  /\ (t \o v) \o x = t \o (v \o x) /\ v \o x \in Seq(S)
         /\ Len(t \o v) = Len(t) + Len(v) /\ Len(v \o x) = Len(v) + Len(x)
         /\ Holds(t \o (v \o x), Len(t), v)
<1>1. (t \o v) \o x = t \o (v \o x) /\ v \o x \in Seq(S)
        /\ Len(t \o v) = Len(t) + Len(v) /\ Len(v \o x) = Len(v) + Len(x)
  OBVIOUS
<1>2. t \o v \in Seq(S) /\ Holds(t \o v, Len(t), v) /\ Len(t) \in Nat
  BY HoldsWhole
<1>3. Holds((t \o v) \o x, Len(t), v)
  BY <1>2, HoldsMore, Zenon
<1>4. QED
  BY <1>1, <1>3, Zenon

\* The innermost document has an item more.
LEMMA OneMoreIs ==
  ASSUME loops \in Seq(LoopSet), loops # <<>>
  PROVE  /\ OneMore \in Seq(LoopSet) /\ Len(OneMore) = Len(loops) /\ OneMore # <<>>
         /\ \A k \in 1 .. Len(loops) : OneMore[k].close = loops[k].close
         /\ Last(OneMore).items > 0
<1>1. Len(loops) \in Nat \ {0} /\ \A k \in 1 .. Len(loops) : loops[k] \in LoopSet
  OBVIOUS
<1>2. PICK more : more = [loops[Len(loops)] EXCEPT !.items = @ + 1]
  BY Zenon
<1>3. /\ more \in LoopSet /\ more.close = loops[Len(loops)].close /\ more.items > 0
  BY <1>1, <1>2 DEF LoopSet
<1>4. OneMore = [loops EXCEPT ![Len(loops)] = more]
  BY <1>2 DEF OneMore
<1>5. Len(OneMore) = Len(loops) /\ OneMore \in Seq(LoopSet) /\ OneMore[Len(loops)] = more
        /\ \A k \in 1 .. Len(loops) : k # Len(loops) => OneMore[k] = loops[k]
  BY <1>1, <1>3, <1>4
<1>6. Last(OneMore) = OneMore[Len(OneMore)]
  BY DEF Last
<1>7. QED
  BY <1>1, <1>3, <1>5, <1>6

\* What the text, the events and the loops of a document hold before a step.
LEMMA BeforeIs ==
  ASSUME NEW S, Written(S)
  PROVE  /\ text \in Seq(Symbols) /\ S[Len(events)] \in Levels /\ Len(loops) \in Nat
         /\ loops \in Seq(LoopSet) /\ style \in Styles /\ style.gap \in Seq(Symbols)
         /\ Len(S[Len(events)]) = Len(loops)
         /\ \A k \in 1 .. Len(loops) : loops[k].close = S[Len(events)][k]
         /\ Len(events) > 0 /\ events[Len(events)].kind = "item" =>
              loops # <<>> /\ Last(loops).items > 0
<1>1. style \in Styles /\ loops \in Seq(LoopSet) /\ Len(S[Len(events)]) = Len(loops)
        /\ \A k \in 1 .. Len(loops) : loops[k].close = S[Len(events)][k]
  BY Zenon DEF Written
<1>2. Len(events) > 0 /\ events[Len(events)].kind = "item" =>
              loops # <<>> /\ Last(loops).items > 0
  BY Zenon DEF Written
<1>3. style.gap \in Seq(Symbols)
  BY <1>1, StylesAssumption
<1>4. QED
  BY <1>1, <1>2, <1>3, OpenIs, Zenon

LEMMA LevelsAre == Levels = Seq(Closings)
BY DEF Levels, Closings

LEMMA OneSymbol ==
  ASSUME NEW S, NEW c \in S
  PROVE  <<c>> \in Seq(S) /\ Len(<<c>>) = 1
OBVIOUS

LEMMA OpeningIs ==
  ASSUME NEW c \in Closings
  PROVE  Opening(c) \in Symbols /\ c \in Symbols
BY SymbolsAssumption DEF Opening, Closings

LEMMA WriteTopStep ==
  ASSUME NEW S, Written(S), WriteTop
  PROVE  \E T : Written(T)'
<1> DEFINE v == style.gap
<1>1. text \in Seq(Symbols) /\ loops \in Seq(LoopSet) /\ style \in Styles /\ v \in Seq(Symbols)
  BY BeforeIs, Zenon
<1>2. events = <<>> /\ Len(events) = 0 /\ WriterStep
  BY DEF WriteTop
<1>3. S[0] = <<>> /\ S[Len(events)] = <<>> /\ Len(text) = Start(events, Len(events) + 1)
  BY <1>2, Zenon DEF Written, LayoutOf
<1>4. Start(events, Len(events) + 1) = 0
  BY <1>2 DEF Start
<1>5. text = <<>> /\ Len(text) = 0
  BY <1>1, <1>3, <1>4
<1>6. loops = <<>> /\ Len(loops) = 0 /\ Len(loops) \in Nat
  BY <1>1, <1>3, OpenIs
<1>7. PICK close \in Closings :
        /\ text' = v \o <<Opening(close)>>
        /\ events' = <<Event("start", <<>>, <<>>, Len(v), Len(v))>>
        /\ loops' = <<[close |-> close, items |-> 0]>>
  BY Zenon DEF WriteTop, Closings
<1>8. PICK c \in Symbols : c = Opening(close)
  BY OpeningIs, Zenon
<1>9. PICK x \in Seq(Symbols) : x = <<c>>
  BY OneSymbol, Zenon
<1>10. PICK e : e = Event("start", <<>>, <<>>, Len(v), Len(v))
  BY Zenon
<1> DEFINE w == text \o (v \o <<c>>)
<1>11. v \o <<c>> \in Seq(Symbols) /\ Holds(w, Len(text), v) /\ Len(text \o v) = Len(v)
         /\ Len(text) + Len(v) = Len(v)
  <2> HIDE DEF v
  <2>1. Len(v) \in Nat
    BY <1>1
  <2>2. /\ v \o x \in Seq(Symbols) /\ Holds(text \o (v \o x), Len(text), v)
        /\ Len(text \o v) = Len(text) + Len(v)
    <3>1. text \in Seq(Symbols) /\ v \in Seq(Symbols)
      BY <1>1
    <3>2. QED
      BY <3>1, HoldsMiddle
  <2>3. Len(text) + Len(v) = Len(v)
    BY <1>5, <2>1
  <2>4. QED
    BY <1>9, <2>2, <2>3, Zenon
<1>12. LedBy(w, MisleadingGap, Len(text), e, S[Len(events)])
  <2>1. Filler(v, MisleadingGap) /\ 0 \in Nat
    BY <1>1, Gaps
  <2> HIDE DEF w, v
  <2>2. Between(w, MisleadingGap, Len(text), Len(text) + Len(v))
    BY <1>5, <1>11, <2>1, FillerBetween, Zenon
  <2>3. e.at = Len(v) /\ e.name = <<>>
    BY <1>10, Zenon DEF Event
  <2>4. QED
    BY <1>3, <1>11, <2>2, <2>3, Zenon DEF LedBy
<1>13. PICK after : after = Append(S[Len(events)], close)
  BY Zenon
<1>14. /\ Laid(w, MisleadingGap, Len(text), e, S[Len(events)], after)
       /\ e.last + 1 = Len(w)
  <2>1. "start" \in {"start", "end"} /\ <<>> \in Seq(Symbols) /\ Len(S[Len(events)]) = Len(loops)
    BY <1>3, <1>6
  <2> HIDE DEF w, v
  <2>2. e = Event("start", <<>>, <<>>, Len(text \o v), Len(text \o v))
    BY <1>10, <1>11, Zenon
  <2>3. Turns("start", c, S[Len(events)], after)
    BY <1>7, <1>8, <1>13, Zenon DEF Turns
  <2>4. text \in Seq(Symbols) /\ v \in Seq(Symbols) /\ Len(S[Len(events)]) = Len(loops)
          /\ Len(loops) \in Nat
    BY <1>1, <1>6, <2>1
  <2>5. LedBy(text \o (v \o <<c>>), MisleadingGap, Len(text), e, S[Len(events)])
    BY <1>12, Zenon DEF w
  <2>6. SymbolWritten(text, v, c, MisleadingGap, "start", <<>>, Len(text \o v), e,
                      S[Len(events)], after)
    BY <1>8, <2>1, <2>2, <2>3, <2>4, <2>5, Zenon DEF SymbolWritten
  <2>7. QED
    BY <2>6, SymbolLaid, Zenon DEF w
<1>15. text' = text \o (v \o <<c>>)
  <2> HIDE DEF v
  <2>1. v \o <<c>> = text \o (v \o <<c>>)
    BY <1>5, <1>11
  <2>2. QED
    BY <1>7, <1>8, <2>1, Zenon
<1>16. events' = Append(events, e)
  <2>1. Append(<<>>, e) = <<e>>
    OBVIOUS
  <2>2. QED
    BY <1>2, <1>7, <1>10, <2>1, Zenon
<1>17. after = <<close>> /\ after \in Levels /\ Len(after) = 1
  <2>1. after = <<close>>
    BY <1>3, <1>13
  <2>2. QED
    BY <1>7, <2>1, OneSymbol, LevelsAre, Zenon
<1>18. loops' \in Seq(LoopSet) /\ Len(loops') = 1 /\ \A k \in 1 .. 1 : loops'[k].close = after[k]
  BY <1>7, <1>17 DEF LoopSet
<1>19. e.kind # "item" /\ ~ (Len(events) > 0)
  BY <1>2, <1>10 DEF Event
<1> HIDE DEF v, w
<1>20. \A k \in 1 .. Len(loops') : loops'[k].close = after[k]
  BY <1>18
<1>21. QED
  BY <1>2, <1>11, <1>14, <1>15, <1>16, <1>17, <1>18, <1>19, <1>20, WriteMore, Zenon DEF w

LEMMA WriteDocumentStep ==
  ASSUME NEW S, Written(S), WriteDocument
  PROVE  \E T : Written(T)'
<1>1. text \in Seq(Symbols) /\ loops \in Seq(LoopSet) /\ S[Len(events)] \in Levels
        /\ Len(S[Len(events)]) = Len(loops) /\ Len(loops) \in Nat /\ loops # <<>> /\ WriterStep
        /\ (\A k \in 1 .. Len(loops) : loops[k].close = S[Len(events)][k])
        /\ (Len(events) > 0 /\ events[Len(events)].kind = "item" => Last(loops).items > 0)
  BY BeforeIs, Zenon DEF WriteDocument
<1>2. PICK close \in Closings, name \in MemberNames :
        /\ text' = (text \o Lead(name)) \o <<Opening(close)>>
        /\ events' = Append(events, Event("start", name, <<>>, Len(text \o Lead(name)),
                                          Len(text \o Lead(name))))
        /\ loops' = Append(OneMore, [close |-> close, items |-> 0])
  BY Zenon DEF WriteDocument, Closings
<1>3. PICK v : v = Lead(name)
  BY Zenon
<1>4. /\ name \in Seq(Symbols) /\ v \in Seq(Symbols)
      /\ Last(loops).items > 0 => v # <<>> /\ v[1] \in Delimiters
      /\ \A w \in Seq(Symbols) : \A e :
           /\ Holds(w, Len(text), v)
           /\ e.kind # "end" /\ e.name = name /\ e.at = Len(text) + Len(v)
           => LedBy(w, MisleadingGap, Len(text), e, S[Len(events)])
  BY <1>1, <1>3, LeadIs, Zenon
<1>5. PICK c \in Symbols : c = Opening(close)
  BY OpeningIs, Zenon
<1>6. PICK x \in Seq(Symbols) : x = <<c>> /\ Len(x) = 1
  BY OneSymbol, Zenon
<1>7. PICK at : at = Len(text \o v)
  BY Zenon
<1>8. PICK e : e = Event("start", name, <<>>, at, at)
  BY Zenon
<1>9. PICK after : after = Append(S[Len(events)], close)
  BY Zenon
<1>10. /\ (text \o v) \o <<c>> = text \o (v \o <<c>>) /\ v \o <<c>> \in Seq(Symbols)
       /\ Holds(text \o (v \o <<c>>), Len(text), v) /\ at = Len(text) + Len(v)
  <2>1. text \in Seq(Symbols) /\ v \in Seq(Symbols)
    BY <1>1, <1>4
  <2>2. /\ (text \o v) \o x = text \o (v \o x) /\ v \o x \in Seq(Symbols)
        /\ Holds(text \o (v \o x), Len(text), v) /\ Len(text \o v) = Len(text) + Len(v)
    BY <2>1, HoldsMiddle, SMTT(30)
  <2>3. QED
    BY <1>6, <1>7, <2>2, Zenon
<1>11. text \o (v \o <<c>>) \in Seq(Symbols)
  BY <1>1, <1>10, ConcatIs, Zenon
<1>12. LedBy(text \o (v \o <<c>>), MisleadingGap, Len(text), e, S[Len(events)])
  <2>1. e.kind = "start" /\ e.name = name /\ e.at = at
    BY <1>8, Zenon DEF Event
  <2>2. e.kind # "end"
    BY <2>1
  <2>3. QED
    BY <1>4, <1>10, <1>11, <2>1, <2>2, Zenon
<1>13. /\ Laid(text \o (v \o <<c>>), MisleadingGap, Len(text), e, S[Len(events)], after)
       /\ e.last + 1 = Len(text \o (v \o <<c>>))
  <2>1. "start" \in {"start", "end"}
    OBVIOUS
  <2>2. text \in Seq(Symbols) /\ v \in Seq(Symbols) /\ name \in Seq(Symbols)
          /\ Len(S[Len(events)]) = Len(loops) /\ Len(loops) \in Nat
    BY <1>1, <1>4
  <2>3. Turns("start", c, S[Len(events)], after)
    BY <1>2, <1>5, <1>9, Zenon DEF Turns
  <2>4. SymbolWritten(text, v, c, MisleadingGap, "start", name, at, e, S[Len(events)], after)
    BY <1>7, <1>8, <1>12, <2>1, <2>2, <2>3, Zenon DEF SymbolWritten
  <2>5. QED
    BY <2>4, SymbolLaid, Zenon
<1>14. after \in Levels /\ Len(after) = Len(loops) + 1 /\ after[Len(loops) + 1] = close
         /\ \A k \in 1 .. Len(loops) : after[k] = loops[k].close
  <2>1. S[Len(events)] \in Seq(Closings)
    BY <1>1, LevelsAre, Zenon
  <2>2. PICK s \in Seq(Closings) : s = S[Len(events)]
    BY <2>1, Zenon
  <2>3. /\ Append(s, close) \in Seq(Closings)
        /\ Len(Append(s, close)) = Len(s) + 1
        /\ \A k \in 1 .. Len(s) : Append(s, close)[k] = s[k]
        /\ Append(s, close)[Len(s) + 1] = close
    BY AppendIs, Zenon
  <2>4. after = Append(s, close) /\ Len(s) = Len(loops)
    BY <1>1, <1>9, <2>2, Zenon
  <2>5. \A k \in 1 .. Len(loops) : s[k] = loops[k].close
    BY <1>1, <2>2, Zenon
  <2>6. QED
    BY <2>3, <2>4, <2>5, LevelsAre, Zenon
<1>15. PICK new : new = [close |-> close, items |-> 0]
  BY Zenon
<1>16. new \in LoopSet /\ new.close = close
  BY <1>15 DEF LoopSet
<1>17. /\ OneMore \in Seq(LoopSet) /\ Len(OneMore) = Len(loops)
       /\ \A k \in 1 .. Len(loops) : OneMore[k].close = loops[k].close
  BY <1>1, OneMoreIs, Zenon
<1>18. /\ loops' \in Seq(LoopSet) /\ Len(loops') = Len(loops) + 1
       /\ loops'[Len(loops) + 1] = new
       /\ \A k \in 1 .. Len(loops) : loops'[k] = OneMore[k]
  <2>1. loops' = Append(OneMore, new)
    BY <1>2, <1>15, Zenon
  <2>2. /\ Append(OneMore, new) \in Seq(LoopSet)
        /\ Len(Append(OneMore, new)) = Len(OneMore) + 1
        /\ \A k \in 1 .. Len(OneMore) : Append(OneMore, new)[k] = OneMore[k]
        /\ Append(OneMore, new)[Len(OneMore) + 1] = new
    BY <1>16, <1>17, AppendIs, ZenonT(60)
  <2>3. QED
    BY <1>17, <2>1, <2>2, Zenon
<1>19. \A k \in 1 .. Len(loops') : loops'[k].close = after[k]
  <2> TAKE k \in 1 .. Len(loops')
  <2>1. k \in 1 .. Len(loops) \/ k = Len(loops) + 1
    BY <1>1, <1>18
  <2>2. QED
    BY <1>14, <1>16, <1>17, <1>18, <2>1, Zenon
<1>20. e.kind # "item"
  <2>1. e.kind = "start"
    BY <1>8, Zenon DEF Event
  <2>2. QED
    BY <2>1
<1>21. Len(events) > 0 /\ events[Len(events)].kind = "item" =>
         v \o <<c>> # <<>> /\ (v \o <<c>>)[1] \in Delimiters
  <2> HAVE Len(events) > 0 /\ events[Len(events)].kind = "item"
  <2>1. v # <<>> /\ v[1] \in Delimiters
    BY <1>1, <1>4, Zenon
  <2>2. v \in Seq(Symbols)
    BY <1>4
  <2>3. v \o x # <<>> /\ (v \o x)[1] = v[1]
    BY <2>1, <2>2
  <2>4. QED
    BY <1>6, <2>1, <2>3, Zenon
<1>22. text' = text \o (v \o <<c>>) /\ events' = Append(events, e)
  BY <1>2, <1>3, <1>5, <1>7, <1>8, <1>10, Zenon
<1>23. Len(loops') = Len(after) /\ (Len(events) > 0 => loops # <<>>)
  BY <1>1, <1>14, <1>18, Zenon
<1>24. QED
  BY <1>1, <1>10, <1>13, <1>14, <1>18, <1>19, <1>20, <1>21, <1>22, <1>23, WriteMore, Zenon


LEMMA WriteItemStep ==
  ASSUME NEW S, Written(S), WriteItem
  PROVE  \E T : Written(T)'
<1>1. text \in Seq(Symbols) /\ loops \in Seq(LoopSet) /\ S[Len(events)] \in Levels
        /\ Len(S[Len(events)]) = Len(loops) /\ Len(loops) \in Nat /\ loops # <<>> /\ WriterStep
        /\ S[Len(events)] # <<>>
        /\ (\A k \in 1 .. Len(loops) : loops[k].close = S[Len(events)][k])
        /\ (Len(events) > 0 /\ events[Len(events)].kind = "item" => Last(loops).items > 0)
  BY BeforeIs, OpenIs, Zenon DEF WriteItem
<1>2. PICK value \in Values, name \in MemberNames :
        /\ text' = (text \o Lead(name)) \o Encoded(value)
        /\ events' = Append(events, Event("item", name, value, Len(text \o Lead(name)),
                                          Len(text') - 1))
  BY Zenon DEF WriteItem
<1>3. loops' = OneMore
  BY Zenon DEF WriteItem
<1>4. PICK v : v = Lead(name)
  BY Zenon
<1>5. /\ name \in Seq(Symbols) /\ v \in Seq(Symbols)
      /\ Last(loops).items > 0 => v # <<>> /\ v[1] \in Delimiters
      /\ \A w \in Seq(Symbols) : \A e :
           /\ Holds(w, Len(text), v)
           /\ e.kind # "end" /\ e.name = name /\ e.at = Len(text) + Len(v)
           => LedBy(w, MisleadingGap, Len(text), e, S[Len(events)])
  BY <1>1, <1>4, LeadIs, Zenon
<1>6. PICK x \in Seq(Symbols) : x = Encoded(value)
  BY EncodedIs, Zenon
<1>7. PICK at : at = Len(text \o v)
  BY Zenon
<1>8. PICK last : last = Len(text') - 1
  BY Zenon
<1>9. PICK e : e = Event("item", name, value, at, last)
  BY Zenon
<1>10. /\ (text \o v) \o x = text \o (v \o x) /\ v \o x \in Seq(Symbols)
       /\ Holds(text \o (v \o x), Len(text), v) /\ at = Len(text) + Len(v)
  <2>1. text \in Seq(Symbols) /\ v \in Seq(Symbols)
    BY <1>1, <1>5
  <2>2. QED
    BY <1>7, <2>1, HoldsMiddle, SMTT(30)
<1>11. text \o (v \o x) \in Seq(Symbols)
  BY <1>1, <1>10, ConcatIs, Zenon
<1>12. text' = text \o (v \o x) /\ events' = Append(events, e)
  BY <1>2, <1>4, <1>6, <1>7, <1>8, <1>9, <1>10, Zenon
<1>13. LedBy(text \o (v \o x), MisleadingGap, Len(text), e, S[Len(events)])
  <2>1. e.kind = "item" /\ e.name = name /\ e.at = at
    BY <1>9, Zenon DEF Event
  <2>2. e.kind # "end"
    BY <2>1
  <2>3. QED
    BY <1>5, <1>10, <1>11, <2>1, <2>2, Zenon
<1>14. /\ Laid(text \o (v \o x), MisleadingGap, Len(text), e, S[Len(events)], S[Len(events)])
       /\ e.last + 1 = Len(text \o (v \o x))
  <2>1. ItemWritten(text, v, value, MisleadingGap, name, at, last, e, S[Len(events)])
    BY <1>1, <1>5, <1>6, <1>7, <1>8, <1>9, <1>12, <1>13, Zenon DEF ItemWritten
  <2>2. QED
    BY <1>6, <2>1, ItemLaid, Zenon
<1>15. /\ OneMore \in Seq(LoopSet) /\ Len(OneMore) = Len(loops) /\ OneMore # <<>>
       /\ Last(OneMore).items > 0
       /\ \A k \in 1 .. Len(loops) : OneMore[k].close = loops[k].close
  BY <1>1, OneMoreIs, Zenon
<1>16. /\ loops' \in Seq(LoopSet) /\ Len(loops') = Len(S[Len(events)]) /\ loops' # <<>>
       /\ Last(loops').items > 0
       /\ \A k \in 1 .. Len(loops') : loops'[k].close = S[Len(events)][k]
  BY <1>1, <1>3, <1>15, Zenon
<1>17. Len(events) > 0 /\ events[Len(events)].kind = "item" =>
         v \o x # <<>> /\ (v \o x)[1] \in Delimiters
  <2> HAVE Len(events) > 0 /\ events[Len(events)].kind = "item"
  <2>1. v # <<>> /\ v[1] \in Delimiters
    BY <1>1, <1>5, Zenon
  <2>2. v \in Seq(Symbols)
    BY <1>5
  <2>3. v \o x # <<>> /\ (v \o x)[1] = v[1]
    BY <2>1, <2>2
  <2>4. QED
    BY <2>1, <2>3, Zenon
<1>18. QED
  BY <1>1, <1>10, <1>12, <1>14, <1>16, <1>17, WriteMore, Zenon

LEMMA WriteEndStep ==
  ASSUME NEW S, Written(S), WriteEnd
  PROVE  \E T : Written(T)'
<1>1. text \in Seq(Symbols) /\ loops \in Seq(LoopSet) /\ S[Len(events)] \in Levels
        /\ Len(S[Len(events)]) = Len(loops) /\ Len(loops) \in Nat /\ loops # <<>> /\ WriterStep
        /\ S[Len(events)] # <<>> /\ style \in Styles
        /\ (\A k \in 1 .. Len(loops) : loops[k].close = S[Len(events)][k])
        /\ Last(loops).close = Last(S[Len(events)]) /\ Last(loops).close \in Closings
  <2>1. Last(loops) \in LoopSet => Last(loops).close \in Closings
    BY DEF LoopSet
  <2>2. QED
    BY <2>1, BeforeIs, OpenIs, Zenon DEF WriteEnd
<1>2. PICK comma : comma = IF style.trailing /\ Last(loops).items > 0 THEN <<",">> ELSE <<>>
  BY Zenon
<1>3. PICK f : f = Gap(Len(loops) - 1)
  BY Zenon
<1>4. PICK c \in Symbols : c = Last(loops).close
  BY <1>1, OpeningIs, Zenon
<1>5. /\ text' = ((text \o comma) \o f) \o <<c>>
      /\ events' = Append(events, Event("end", <<>>, <<>>, Len((text \o comma) \o f),
                                        Len((text \o comma) \o f)))
      /\ loops' = Front(loops)
  BY <1>2, <1>3, <1>4, Zenon DEF WriteEnd
<1>6. PICK v : v = comma \o f
  BY Zenon
<1>7. Filler(v, MisleadingGap) /\ comma \in Seq(Symbols) /\ f \in Seq(Symbols) /\ v \in Seq(Symbols)
  <2>1. Len(loops) - 1 \in Nat
    BY <1>1
  <2>2. Filler(comma, MisleadingGap) /\ Filler(f, MisleadingGap)
    BY <1>1, <1>2, <1>3, <2>1, Gaps, FillerNothing, Zenon
  <2>3. Filler(v, MisleadingGap)
    BY <1>6, <2>2, FillerMore, Zenon
  <2>4. QED
    BY <2>2, <2>3, Zenon DEF Filler
<1>8. PICK x \in Seq(Symbols) : x = <<c>>
  BY OneSymbol, Zenon
<1>9. PICK at : at = Len(text \o v)
  BY Zenon
<1>10. PICK e : e = Event("end", <<>>, <<>>, at, at)
  BY Zenon
<1>11. PICK after : after = Front(S[Len(events)])
  BY Zenon
<1>12. /\ (text \o v) \o <<c>> = text \o (v \o <<c>>) /\ v \o <<c>> \in Seq(Symbols)
       /\ Holds(text \o (v \o <<c>>), Len(text), v) /\ at = Len(text) + Len(v)
       /\ (text \o comma) \o f = text \o v
  <2>1. text \in Seq(Symbols) /\ v \in Seq(Symbols) /\ comma \in Seq(Symbols) /\ f \in Seq(Symbols)
    BY <1>1, <1>7
  <2>2. /\ (text \o v) \o x = text \o (v \o x) /\ v \o x \in Seq(Symbols)
        /\ Holds(text \o (v \o x), Len(text), v) /\ Len(text \o v) = Len(text) + Len(v)
    BY <2>1, HoldsMiddle, SMTT(30)
  <2>3. (text \o comma) \o f = text \o (comma \o f)
    BY <2>1, SMTT(30)
  <2>4. QED
    BY <1>6, <1>8, <1>9, <2>2, <2>3, Zenon
<1>13. text' = text \o (v \o <<c>>) /\ events' = Append(events, e)
  BY <1>5, <1>9, <1>10, <1>12, Zenon
<1>14. LedBy(text \o (v \o <<c>>), MisleadingGap, Len(text), e, S[Len(events)])
  <2>1. Len(text) \in Nat
    BY <1>1
  <2>2. Between(text \o (v \o <<c>>), MisleadingGap, Len(text), Len(text) + Len(v))
    BY <1>7, <1>12, <2>1, FillerBetween, Zenon
  <2>3. e.kind = "end" /\ e.at = at /\ e.name = <<>>
    BY <1>10, Zenon DEF Event
  <2>4. QED
    BY <1>12, <2>2, <2>3, Zenon DEF LedBy
<1>15. /\ Laid(text \o (v \o <<c>>), MisleadingGap, Len(text), e, S[Len(events)], after)
       /\ e.last + 1 = Len(text \o (v \o <<c>>))
  <2>1. "end" \in {"start", "end"} /\ <<>> \in Seq(Symbols)
    OBVIOUS
  <2>2. Turns("end", c, S[Len(events)], after)
    BY <1>1, <1>4, <1>11, Zenon DEF Turns
  <2>3. SymbolWritten(text, v, c, MisleadingGap, "end", <<>>, at, e, S[Len(events)], after)
    BY <1>1, <1>7, <1>9, <1>10, <1>14, <2>1, <2>2, Zenon DEF SymbolWritten
  <2>4. QED
    BY <2>3, SymbolLaid, Zenon
<1>16. PICK s \in Seq(Closings) : s = S[Len(events)]
  BY <1>1, LevelsAre, Zenon
<1>17. s # <<>> /\ Len(s) = Len(loops)
  BY <1>1, <1>16, Zenon
<1>18. /\ after \in Levels /\ Len(after) = Len(loops) - 1
       /\ \A k \in 1 .. Len(loops) - 1 : after[k] = loops[k].close
  <2>1. /\ Front(s) \in Seq(Closings) /\ Len(Front(s)) = Len(s) - 1
        /\ \A k \in 1 .. Len(s) - 1 : Front(s)[k] = s[k]
    BY <1>17, FrontIs, Zenon
  <2>2. \A k \in 1 .. Len(loops) - 1 : k \in 1 .. Len(loops)
    BY <1>1
  <2>3. QED
    BY <1>1, <1>11, <1>16, <1>17, <2>1, <2>2, LevelsAre, Zenon
<1>19. /\ loops' \in Seq(LoopSet) /\ Len(loops') = Len(loops) - 1
       /\ \A k \in 1 .. Len(loops) - 1 : loops'[k] = loops[k]
  <2>1. loops \in Seq(LoopSet) /\ loops # <<>>
    BY <1>1
  <2>2. QED
    BY <1>5, <2>1, FrontIs, Zenon
<1>20. Len(loops') = Len(after) /\ \A k \in 1 .. Len(loops') : loops'[k].close = after[k]
  BY <1>18, <1>19, Zenon
<1>21. e.kind # "item"
  <2>1. e.kind = "end"
    BY <1>10, Zenon DEF Event
  <2>2. QED
    BY <2>1
<1>22. v \o <<c>> # <<>> /\ (v \o <<c>>)[1] \in Delimiters
  <2>1. CASE v = <<>>
    <3>1. v \o <<c>> = <<c>> /\ <<c>> # <<>> /\ <<c>>[1] = c
      BY <2>1
    <3>2. c \in Delimiters
      BY <1>1, <1>4 DEF Delimiters, Closings
    <3>3. QED
      BY <3>1, <3>2, Zenon
  <2>2. CASE v # <<>>
    <3>1. v[1] \in Delimiters /\ v \in Seq(Symbols)
      BY <1>7, <2>2, FillerFirst, Zenon
    <3>2. v \in Seq(Symbols)
      BY <3>1
    <3>3. v \o <<c>> # <<>> /\ (v \o <<c>>)[1] = v[1]
      BY <2>2, <3>2
    <3>4. QED
      BY <3>1, <3>3, Zenon
  <2>3. QED
    BY <2>1, <2>2
<1>23. QED
  BY <1>1, <1>12, <1>13, <1>15, <1>18, <1>19, <1>20, <1>21, <1>22, WriteMore, Zenon


LEMMA InitWritten ==
  ASSUME Init
  PROVE  \E S : Written(S)
<1>1. PICK S : S = [n \in Nat |-> <<>>]
  BY Zenon
<1>2. S \in [Nat -> Levels] /\ S[0] = <<>>
  BY <1>1 DEF Levels
<1>3. text = <<>> /\ events = <<>> /\ loops = <<>> /\ style \in Styles /\ phase = "write"
  BY DEF Init
<1>4. text \in Seq(Symbols) /\ events \in Seq(EventSet) /\ loops \in Seq(LoopSet)
        /\ Len(text) = 0 /\ Len(events) = 0 /\ Len(loops) = 0
  BY <1>3
<1>5. Start(events, Len(events) + 1) = 0
  BY <1>4 DEF Start
<1>6. LayoutOf(text, events, MisleadingGap, S)
  <2>1. \A k \in 1 .. Len(events) : FALSE
    BY <1>4
  <2>2. \A k \in 1 .. Len(events) - 1 : FALSE
    BY <1>4
  <2>3. QED
    BY <1>2, <1>4, <1>5, <2>1, <2>2, Zenon DEF LayoutOf
<1>7. Len(S[Len(events)]) = 0
  <2>1. Len(<<>>) = 0
    OBVIOUS
  <2>2. QED
    BY <1>2, <1>4, <2>1, Zenon
<1>8. \A k \in 1 .. Len(loops) : FALSE
  BY <1>4
<1>9. ~ (Len(events) > 0) /\ ~ (phase # "write")
  BY <1>3, <1>4
<1>10. QED
  BY <1>3, <1>4, <1>6, <1>7, <1>8, <1>9, Zenon DEF Written

\* The reader leaves what is written alone.
LEMMA KeepWritten ==
  ASSUME NEW S, Written(S), UNCHANGED writer,
         phase' # "write" => events # <<>> /\ loops = <<>>
  PROVE  Written(S)'
<1>1. style' = style /\ text' = text /\ loops' = loops /\ events' = events
  BY DEF writer
<1>2. MisleadingGap' = MisleadingGap
  BY <1>1, Zenon DEF MisleadingGap
<1>3. LayoutOf(text', events', MisleadingGap', S) /\ style' \in Styles /\ loops' \in Seq(LoopSet)
        /\ Len(loops') = Len(S[Len(events')])
        /\ (\A k \in 1 .. Len(loops') : loops'[k].close = S[Len(events')][k])
        /\ (Len(events') > 0 /\ events'[Len(events')].kind = "item" =>
              loops' # <<>> /\ Last(loops').items > 0)
        /\ (phase' # "write" => events' # <<>> /\ loops' = <<>>)
  BY <1>1, <1>2, Zenon DEF Written
<1>4. QED
  BY <1>3, Zenon DEF Written

\* No action but the writer's is one of phase "write", and Deliver ends it.
ReaderStep ==
  \/ ReadTop \/ ReadEnd \/ TakeString \/ TakeWord \/ TakeNull
  \/ TakeDocument \/ SkipValue
  \/ ReadError

LEMMA ReadersPhase ==
  ASSUME ReaderStep
  PROVE  UNCHANGED writer /\ phase # "write"
<1>1. AtItem => phase = "read"
  BY DEF AtItem, ValueAt
<1>2. AtEnd => phase = "read"
  BY DEF AtEnd
<1>3. phase = "sent" \/ phase = "read" => phase # "write"
  OBVIOUS
<1>4. CASE ReadTop
  BY <1>3, <1>4, Zenon DEF ReadTop
<1>5. CASE ReadEnd
  BY <1>2, <1>3, <1>5, Zenon DEF ReadEnd
<1>6. CASE TakeString
  BY <1>1, <1>3, <1>6, Zenon DEF TakeString
<1>7. CASE TakeWord
  BY <1>1, <1>3, <1>7, Zenon DEF TakeWord
<1>8. CASE TakeNull
  BY <1>1, <1>3, <1>8, Zenon DEF TakeNull
<1>9. CASE TakeDocument
  BY <1>1, <1>3, <1>9, Zenon DEF TakeDocument
<1>10. CASE SkipValue
  BY <1>1, <1>3, <1>10, Zenon DEF SkipValue
<1>11. CASE ReadError
  BY <1>1, <1>3, <1>11, Zenon DEF ReadError
<1>12. QED
  BY <1>4, <1>5, <1>6, <1>7, <1>8, <1>9, <1>10, <1>11 DEF ReaderStep

LEMMA StepWritten ==
  ASSUME NEW S, Written(S), [Next]_vars
  PROVE  \E T : Written(T)'
<1>1. phase # "write" => events # <<>> /\ loops = <<>>
  BY Zenon DEF Written
<1>2. CASE WriteTop
  BY <1>2, WriteTopStep, Zenon
<1>3. CASE WriteDocument
  BY <1>3, WriteDocumentStep, Zenon
<1>4. CASE WriteItem
  BY <1>4, WriteItemStep, Zenon
<1>5. CASE WriteEnd
  BY <1>5, WriteEndStep, Zenon
<1>6. CASE Deliver
  <2>1. UNCHANGED writer /\ events # <<>> /\ loops = <<>>
    BY <1>6 DEF Deliver
  <2>2. QED
    BY <2>1, KeepWritten, Zenon
<1>7. CASE ReaderStep
  BY <1>1, <1>7, ReadersPhase, KeepWritten, Zenon
<1>8. CASE UNCHANGED vars
  <2>1. UNCHANGED writer /\ phase' = phase
    BY <1>8 DEF vars
  <2>2. QED
    BY <1>1, <2>1, KeepWritten, Zenon
<1>9. QED
  BY <1>2, <1>3, <1>4, <1>5, <1>6, <1>7, <1>8, Zenon DEF Next, ReaderStep


-----------------------------------------------------------------------------
(* What the scans find where an event is. *)

LEMMA SubIs ==
  ASSUME NEW S, NEW t \in Seq(S), NEW u \in Seq(S), NEW a \in Nat, Holds(t, a, u)
  PROVE  SubSeq(t, a + 1, a + Len(u)) = u
<1>1. a + Len(u) <= Len(t) /\ \A k \in 1 .. Len(u) : t[a + k] = u[k]
  BY Zenon DEF Holds
<1>2. PICK s : s = SubSeq(t, a + 1, a + Len(u))
  BY Zenon
<1>3. s \in Seq(S) /\ Len(s) = Len(u) /\ \A k \in 1 .. Len(u) : s[k] = t[a + k]
  BY <1>1, <1>2
<1>4. s = u
  BY <1>1, <1>3
<1>5. QED
  BY <1>2, <1>4

\* A string's content between its quotes, a key, and a word.
IsString(b, e, s) == Quoted(text, b, e) /\ SubSeq(text, b + 2, e) = Escaped(s)

IsWord(b, e, w) ==
  /\ SubSeq(text, b + 1, e + 1) = w /\ At(b) = w[1]
  /\ \A x \in b .. e : Plain(At(x))

IsKey(b, e, name) ==
  /\ b < e /\ Quoted(text, b, e) /\ SubSeq(text, b + 2, e) = name
  /\ \A x \in b + 1 .. e - 1 : At(x) # Quote

\* What is between quotes.
LEMMA HoldsQuoted ==
  ASSUME NEW t, NEW u \in Seq(Symbols), NEW b \in Nat, NEW e \in Nat,
         t[b + 1] = Quote, Holds(t, b + 1, u), e = (b + 1) + Len(u), t[e + 1] = Quote,
         QuotesEscaped(u) \/ \A k \in 1 .. Len(u) : u[k] # Quote,
         EndsPlain(u, Whitespace)
  PROVE  Quoted(t, b, e)
<1>1. Len(u) \in Nat /\ \A k \in 1 .. Len(u) : t[(b + 1) + k] = u[k]
  BY DEF Holds
<1>2. \A x \in b + 1 .. e - 1 : x - b \in 1 .. Len(u) /\ t[x + 1] = u[x - b]
  BY <1>1
<1>3. \A x \in b + 1 .. e - 1 : t[x + 1] = Quote => x > b + 1 /\ t[x] = Escape
  <2> SUFFICES ASSUME NEW x \in b + 1 .. e - 1, t[x + 1] = Quote
               PROVE  x > b + 1 /\ t[x] = Escape
    OBVIOUS
  <2>1. PICK k \in 1 .. Len(u) : k = x - b
    BY <1>2
  <2>2. u[k] = Quote
    BY <1>2, <2>1, Zenon
  <2>3. k > 1 /\ u[k - 1] = Escape
    BY <2>2, Zenon DEF QuotesEscaped
  <2>4. k - 1 \in 1 .. Len(u) /\ (b + 1) + (k - 1) = x /\ x > b + 1
    BY <1>1, <2>1, <2>3
  <2>5. QED
    BY <1>1, <2>3, <2>4, Zenon
<1>4. \A y \in b + 1 .. e - 1 :
        t[y + 1] = Escape => \E z \in y + 1 .. e - 1 : t[z + 1] \notin Whitespace
  <2> SUFFICES ASSUME NEW y \in b + 1 .. e - 1, t[y + 1] = Escape
               PROVE  \E z \in y + 1 .. e - 1 : t[z + 1] \notin Whitespace
    OBVIOUS
  <2>1. PICK k \in 1 .. Len(u) : k = y - b
    BY <1>2
  <2>2. u[k] = Escape
    BY <1>2, <2>1, Zenon
  <2>3. k \in DOMAIN u
    BY <2>1
  <2>4. PICK j \in k + 1 .. Len(u) : u[j] \notin Whitespace
    BY <2>2, <2>3, Zenon DEF EndsPlain
  <2>5. PICK z : z = b + j
    BY Zenon
  <2>6. j \in 1 .. Len(u) /\ z \in y + 1 .. e - 1 /\ (b + 1) + j = z + 1
    BY <1>1, <2>1, <2>5
  <2>7. t[z + 1] = u[j]
    BY <1>1, <2>6, Zenon
  <2>8. QED
    BY <2>4, <2>6, <2>7, Zenon
<1>5. b < e
  BY <1>1
<1>6. QED
  BY <1>3, <1>4, <1>5, Zenon DEF Quoted

LEMMA ValueIs ==
  ASSUME NEW v \in Values
  PROVE  \/ \E s \in Strings : /\ v = Str(s)
                               /\ Encoded(v) = <<Quote>> \o Escaped(s) \o <<Quote>>
         \/ \E w \in Words : v = Word(w) /\ Encoded(v) = w
<1>1. CASE v \in {Str(s) : s \in Strings}
  <2>1. PICK s \in Strings : v = Str(s)
    BY <1>1
  <2>2. v.kind # "word" /\ v.value = s
    BY <2>1 DEF Str
  <2>3. Encoded(v) = <<Quote>> \o Escaped(s) \o <<Quote>>
    BY <2>2, Zenon DEF Encoded
  <2>4. QED
    BY <2>1, <2>3, Zenon
<1>2. CASE v \in {Word(w) : w \in Words}
  <2>1. PICK w \in Words : v = Word(w)
    BY <1>2
  <2>2. v.kind = "word" /\ v.value = w
    BY <2>1 DEF Word
  <2>3. Encoded(v) = w
    BY <2>2, Zenon DEF Encoded
  <2>4. QED
    BY <2>1, <2>3, Zenon
<1>3. QED
  BY <1>1, <1>2 DEF Values

LEMMA ItemIs ==
  ASSUME Text, NEW v \in Values, NEW b \in Nat, NEW e \in Nat,
         Holds(text, b, Encoded(v)), e + 1 = b + Len(Encoded(v))
  PROVE  \/ \E s \in Strings : v = Str(s) /\ IsString(b, e, s)
         \/ \E w \in Words : v = Word(w) /\ IsWord(b, e, w)
<1>1. text \in Seq(Symbols)
  BY DEF Text
<1>2. ASSUME NEW s \in Strings, v = Str(s),
             Encoded(v) = <<Quote>> \o Escaped(s) \o <<Quote>>
      PROVE  IsString(b, e, s)
  <2>1. PICK u \in Seq(Symbols) : u = Escaped(s) /\ QuotesEscaped(u) /\ EndsPlain(u, Whitespace)
    BY StringIsEscaped, Zenon
  <2>2. PICK q \in Seq(Symbols) : q = <<Quote>> /\ Len(q) = 1
    <3>1. Quote \in Symbols
      BY SymbolsAssumption
    <3>2. QED
      BY <3>1, OneSymbol, Zenon
  <2>3. Encoded(v) = (q \o u) \o q
    BY <1>2, <2>1, <2>2, Zenon
  <2>4. q \o u \in Seq(Symbols) /\ Len(q \o u) = 1 + Len(u) /\ Len((q \o u) \o q) = Len(u) + 2
          /\ Len(u) \in Nat
    BY <2>1, <2>2
  <2>5. Holds(text, b, q \o u) /\ Holds(text, b + Len(q \o u), q)
    BY <1>1, <1>2, <2>2, <2>3, <2>4, HoldsConcat, ZenonT(60)
  <2>6. Holds(text, b, q) /\ Holds(text, b + Len(q), u)
    BY <1>1, <2>1, <2>2, <2>5, HoldsConcat, Zenon
  <2>7. e + 1 = b + (Len(u) + 2)
    BY <2>3, <2>4, Zenon
  <2>8. b + Len(q \o u) = e /\ e = (b + 1) + Len(u) /\ b + 1 \in Nat
    BY <2>4, <2>7
  <2>9. At(b) = Quote /\ At(e) = Quote
    <3>1. Holds(text, b, <<Quote>>) /\ Holds(text, e, <<Quote>>)
      BY <2>2, <2>5, <2>6, <2>8, Zenon
    <3>2. QED
      BY <3>1, HoldsOne, Zenon DEF At
  <2>10. Holds(text, b + 1, u)
    BY <2>2, <2>6, Zenon
  <2>11. Quoted(text, b, e)
    BY <2>1, <2>8, <2>9, <2>10, HoldsQuoted, Zenon DEF At
  <2>12. SubSeq(text, (b + 1) + 1, (b + 1) + Len(u)) = u
    BY <1>1, <2>8, <2>10, SubIs, Zenon
  <2>13. (b + 1) + 1 = b + 2
    OBVIOUS
  <2>14. QED
    BY <2>1, <2>8, <2>11, <2>12, <2>13, Zenon DEF IsString
<1>3. ASSUME NEW w \in Words, v = Word(w), Encoded(v) = w
      PROVE  IsWord(b, e, w)
  <2>1. w \in Seq(Symbols) /\ w # <<>>
    BY WordsAssumption
  <2>2. \A k \in 1 .. Len(w) : Plain(w[k])
    <3>1. DOMAIN w = 1 .. Len(w)
      BY <2>1
    <3>2. QED
      BY <3>1, WordsAssumption, Zenon DEF Plain
  <2>3. Len(w) \in Nat \ {0}
    BY <2>1
  <2>4. Holds(text, b, w) /\ e + 1 = b + Len(w)
    BY <1>3, Zenon
  <2>5. SubSeq(text, b + 1, b + Len(w)) = w
    BY <1>1, <2>1, <2>4, SubIs, Zenon
  <2>6. \A x \in b .. e : Plain(At(x))
    <3> TAKE x \in b .. e
    <3>1. PICK k \in 1 .. Len(w) : b + k = x + 1
      <4>1. (x - b) + 1 \in 1 .. Len(w) /\ b + ((x - b) + 1) = x + 1
        BY <2>3, <2>4
      <4>2. QED
        BY <4>1
    <3>2. At(x) = w[k]
      BY <2>4, <3>1, Zenon DEF At, Holds
    <3>3. QED
      BY <2>2, <3>2, Zenon
  <2>7. At(b) = w[1]
    <3>1. 1 \in 1 .. Len(w)
      BY <2>3
    <3>2. QED
      BY <2>4, <3>1, Zenon DEF At, Holds
  <2>8. QED
    BY <2>4, <2>5, <2>6, <2>7, Zenon DEF IsWord
<1>4. QED
  BY <1>2, <1>3, ValueIs, Zenon

\* A key, and what is around it.
KeyFound(m, a, at, name, b, e, colon) ==
  /\ b \in Nat /\ e \in Nat /\ colon \in Nat
  /\ Between(text, m, a, b) /\ IsKey(b, e, name) /\ e < colon
  /\ Between(text, m, e + 1, colon) /\ At(colon) = ":" /\ colon < at
  /\ Between(text, m, colon + 1, at)

LEMMA KeyIs ==
  ASSUME Text, NEW m, NEW a \in Nat, NEW at \in Nat, NEW name \in Names,
         KeyAt(text, m, a, at, name)
  PROVE  \E b, e, colon : KeyFound(m, a, at, name, b, e, colon)
<1>1. PICK b \in Nat, e \in Nat, colon \in Nat :
        /\ Between(text, m, a, b) /\ text[b + 1] = Quote
        /\ Holds(text, b + 1, name) /\ e = (b + 1) + Len(name) /\ text[e + 1] = Quote
        /\ Between(text, m, e + 1, colon) /\ text[colon + 1] = ":"
        /\ Between(text, m, colon + 1, at)
  BY Zenon DEF KeyAt
<1>2. name \in Seq(Symbols) /\ \A k \in 1 .. Len(name) : name[k] # Quote
  BY NamesAssumption
<1>3. EndsPlain(name, Whitespace)
  BY NamesAssumption
<1>4. Quoted(text, b, e)
  BY <1>1, <1>2, <1>3, HoldsQuoted, Zenon
<1>5. Len(name) \in Nat /\ b + 1 \in Nat /\ (b + 1) + 1 = b + 2
  BY <1>2
<1>6. SubSeq(text, b + 2, e) = name
  BY <1>1, <1>2, <1>5, SubIs, Zenon DEF Text
<1>7. b < e
  BY <1>1, <1>5
<1>8. \A x \in b + 1 .. e - 1 : At(x) # Quote
  <2> TAKE x \in b + 1 .. e - 1
  <2>1. PICK k \in 1 .. Len(name) : (b + 1) + k = x + 1
    <3>1. x - b \in 1 .. Len(name) /\ (b + 1) + (x - b) = x + 1
      BY <1>1, <1>5
    <3>2. QED
      BY <3>1
  <2>2. At(x) = name[k]
    BY <1>1, <2>1, Zenon DEF At, Holds
  <2>3. QED
    BY <1>2, <2>2, Zenon
<1>9. e + 1 <= colon /\ colon + 1 <= at
  BY <1>1, Zenon DEF Between
<1>10. e < colon /\ colon < at
  BY <1>1, <1>9
<1>11. At(colon) = ":"
  BY <1>1, Zenon DEF At
<1>12. QED
  BY <1>1, <1>4, <1>6, <1>7, <1>8, <1>10, <1>11, Zenon DEF KeyFound, IsKey


\* What there is of an event e that is laid out between two sets of levels.
EventIs(a, e, before, after) ==
  /\ e \in EventSet /\ e.at \in Nat /\ e.last \in Nat /\ e.last + 1 \in Nat
  /\ a <= e.at /\ e.at <= e.last /\ e.at < Size /\ e.last < Size
  /\ e.depth = Len(before)
  /\ \/ /\ e.kind = "start" /\ e.value = <<>> /\ e.last = e.at
        /\ \E c \in Closings : At(e.at) = Opening(c) /\ after = Append(before, c)
     \/ /\ e.kind = "item" /\ before # <<>> /\ after = before
        /\ \/ \E s \in Strings : e.value = Str(s) /\ IsString(e.at, e.last, s)
           \/ \E w \in Words : e.value = Word(w) /\ IsWord(e.at, e.last, w)
     \/ /\ e.kind = "end" /\ e.value = <<>> /\ e.last = e.at /\ before # <<>>
        /\ At(e.at) = Last(before) /\ after = Front(before)

LEMMA LaidIs ==
  ASSUME Text, NEW m, NEW a \in Nat, NEW e, NEW before, NEW after,
         Laid(text, m, a, e, before, after)
  PROVE  EventIs(a, e, before, after)
<1>1. /\ e \in EventSet /\ a <= e.at /\ e.at <= e.last /\ e.last < Len(text)
      /\ e.depth = Len(before) /\ Shown(text, e, before, after)
  BY Zenon DEF Laid
<1>2. e.at \in Nat /\ e.last \in Nat
  BY <1>1 DEF EventSet
<1>3. Size \in Nat /\ Size = Len(text)
  BY SizeIsNat DEF Size
<1>4. PICK at \in Nat : at = e.at
  BY <1>2
<1>5. PICK last \in Nat : last = e.last
  BY <1>2
<1>6. e.last + 1 \in Nat /\ e.at < Size /\ e.last < Size
  BY <1>1, <1>3, <1>4, <1>5
<1>7. CASE e.kind = "start" /\ e.last = e.at /\ e.value = <<>>
             /\ \E c \in Closings : text[e.at + 1] = Opening(c) /\ after = Append(before, c)
  BY <1>1, <1>2, <1>6, <1>7, Zenon DEF EventIs, At
<1>8. CASE /\ e.kind = "item" /\ e.value \in Values /\ before # <<>> /\ after = before
           /\ Holds(text, e.at, Encoded(e.value)) /\ e.last + 1 = e.at + Len(Encoded(e.value))
  <2>1. \/ \E s \in Strings : e.value = Str(s) /\ IsString(e.at, e.last, s)
        \/ \E w \in Words : e.value = Word(w) /\ IsWord(e.at, e.last, w)
    BY <1>2, <1>8, ItemIs, Zenon
  <2>2. QED
    BY <1>1, <1>2, <1>6, <1>8, <2>1, Zenon DEF EventIs
<1>9. CASE e.kind = "end" /\ e.last = e.at /\ e.value = <<>> /\ before # <<>>
             /\ text[e.at + 1] = Last(before) /\ after = Front(before)
  BY <1>1, <1>2, <1>6, <1>9, Zenon DEF EventIs, At
<1>10. QED
  BY <1>1, <1>7, <1>8, <1>9, Zenon DEF Shown

LEMMA ItemBalanced ==
  ASSUME Text, NEW b \in Nat, NEW e \in Nat, b <= e, e < Size, NEW L \in Levels,
         (\E s : IsString(b, e, s)) \/ (\E w : IsWord(b, e, w))
  PROVE  Outside(b, L) = Outside(e + 1, L)
<1>1. CASE \E s : IsString(b, e, s)
  BY <1>1, QuotedBalanced, Zenon DEF IsString
<1>2. CASE \E w : IsWord(b, e, w)
  <2>1. \A x \in b .. e : Plain(At(x))
    BY <1>2, Zenon DEF IsWord
  <2>2. e + 1 \in Nat /\ b <= e + 1 /\ e + 1 <= Size /\ (e + 1) - 1 = e
    BY SizeIsNat
  <2>3. QED
    BY <2>1, <2>2, PlainsBalanced, Zenon
<1>3. QED
  BY <1>1, <1>2

LEMMA LedBalanced ==
  ASSUME Text, NEW m, NEW a \in Nat, NEW e, NEW before, NEW L \in Levels,
         LedBy(text, m, a, e, before), e.at \in Nat, e.at < Size
  PROVE  Outside(a, L) = Outside(e.at, L)
<1>1. PICK at \in Nat : at = e.at /\ at < Size
  BY Zenon
<1>2. ASSUME Between(text, m, a, at)
      PROVE  Outside(a, L) = Outside(at, L)
  <2>1. at <= Size
    BY <1>1, SizeIsNat
  <2>2. QED
    BY <1>2, <2>1, FillBalanced, Zenon DEF Between
<1>3. ASSUME e.name \in Names, KeyAt(text, m, a, at, e.name)
      PROVE  Outside(a, L) = Outside(at, L)
  <2>1. PICK b, q, colon : KeyFound(m, a, at, e.name, b, q, colon)
    BY <1>3, KeyIs, Zenon
  <2>2. /\ b \in Nat /\ q \in Nat /\ colon \in Nat
        /\ Fills(text, a, b) /\ b < q /\ Quoted(text, b, q) /\ q < colon
        /\ Fills(text, q + 1, colon) /\ At(colon) = ":" /\ colon < at
        /\ Fills(text, colon + 1, at)
    BY <2>1, Zenon DEF KeyFound, IsKey, Between
  <2>3. b <= Size /\ q < Size /\ colon <= Size /\ colon < Size /\ at <= Size
          /\ q + 1 \in Nat /\ colon + 1 \in Nat
    BY <1>1, <2>2, SizeIsNat
  <2>4. Plain(At(colon))
    BY <2>2 DEF Plain, Whitespace, Quote
  <2>5. Outside(a, L) = Outside(b, L)
    BY <2>2, <2>3, FillBalanced, ZenonT(60)
  <2>6. Outside(b, L) = Outside(q + 1, L)
    BY <2>2, <2>3, QuotedBalanced, ZenonT(60)
  <2>7. Outside(q + 1, L) = Outside(colon, L)
    BY <2>2, <2>3, FillBalanced, Zenon
  <2>8. Outside(colon, L) = Outside(colon + 1, L)
    BY <2>2, <2>3, <2>4, PlainBalanced, Zenon
  <2>9. Outside(colon + 1, L) = Outside(at, L)
    BY <2>2, <2>3, FillBalanced, ZenonT(60)
  <2>10. QED
    BY <2>5, <2>6, <2>7, <2>8, <2>9, Zenon
<1>4. QED
  BY <1>1, <1>2, <1>3, Zenon DEF LedBy

\* validate goes from one event to the next, with the levels that are open.
LEMMA EventBalanced ==
  ASSUME Text, NEW m, NEW a \in Nat, NEW e, NEW before \in Levels, NEW after,
         Laid(text, m, a, e, before, after)
  PROVE  Outside(a, before) = Outside(e.last + 1, after)
<1>1. /\ e.at \in Nat /\ e.last \in Nat /\ e.at <= e.last /\ e.at < Size /\ e.last < Size
      /\ \/ /\ e.kind = "start" /\ e.last = e.at
            /\ \E c \in Closings : At(e.at) = Opening(c) /\ after = Append(before, c)
         \/ /\ e.kind = "item" /\ after = before
            /\ \/ \E s : IsString(e.at, e.last, s)
               \/ \E w : IsWord(e.at, e.last, w)
         \/ /\ e.kind = "end" /\ e.last = e.at /\ before # <<>>
            /\ At(e.at) = Last(before) /\ after = Front(before)
  <2>1. EventIs(a, e, before, after)
    BY LaidIs, Zenon
  <2>2. QED
    BY <2>1, Zenon DEF EventIs
<1>2. Outside(a, before) = Outside(e.at, before)
  <2>1. LedBy(text, m, a, e, before)
    BY Zenon DEF Laid
  <2>2. QED
    BY <1>1, <2>1, LedBalanced, ZenonT(60)
<1>3. Outside(e.at, before) = Outside(e.last + 1, after)
  <2>1. CASE e.last = e.at
               /\ \E c \in Closings : At(e.at) = Opening(c) /\ after = Append(before, c)
    BY <1>1, <2>1, OpeningBalanced, Zenon
  <2>2. CASE after = before /\ ((\E s : IsString(e.at, e.last, s))
                                  \/ (\E w : IsWord(e.at, e.last, w)))
    BY <1>1, <2>2, ItemBalanced, Zenon
  <2>3. CASE e.last = e.at /\ before # <<>>
               /\ At(e.at) = Last(before) /\ after = Front(before)
    BY <1>1, <2>3, ClosingBalanced, Zenon
  <2>4. QED
    BY <1>1, <2>1, <2>2, <2>3, Zenon
<1>4. QED
  BY <1>2, <1>3, Zenon

\* What there is of the k-th event of a text.
LEMMA LayoutIs ==
  ASSUME NEW S, LayoutOf(text, events, MisleadingGap, S), NEW k \in 1 .. Len(events)
  PROVE  /\ Text /\ k \in Nat /\ k - 1 \in Nat /\ k + 1 \in Nat
         /\ S[k - 1] \in Levels /\ S[k] \in Levels
         /\ Start(events, k) \in Nat /\ Start(events, k + 1) = events[k].last + 1
         /\ Laid(text, MisleadingGap, Start(events, k), events[k], S[k - 1], S[k])
<1>1. /\ text \in Seq(Symbols) /\ events \in Seq(EventSet)
      /\ S \in [Nat -> Levels]
      /\ Laid(text, MisleadingGap, Start(events, k), events[k], S[k - 1], S[k])
  BY Zenon DEF LayoutOf
<1>2. k \in Nat /\ k - 1 \in Nat /\ k + 1 \in Nat /\ k + 1 # 1 /\ (k + 1) - 1 = k
  BY <1>1
<1>3. Start(events, k + 1) = events[k].last + 1
  BY <1>2, Zenon DEF Start
<1>4. Start(events, k) \in Nat
  <2>1. CASE k = 1
    BY <2>1 DEF Start
  <2>2. CASE k # 1
    <3>1. k - 1 \in 1 .. Len(events)
      BY <1>1, <2>2
    <3>2. events[k - 1] \in EventSet
      BY <1>1, <3>1
    <3>3. events[k - 1].last \in Nat
      BY <3>2 DEF EventSet
    <3>4. events[k - 1].last + 1 \in Nat
      BY <3>3
    <3>5. QED
      BY <2>2, <3>4, Zenon DEF Start
  <2>3. QED
    BY <2>1, <2>2
<1>5. QED
  BY <1>1, <1>2, <1>3, <1>4, Zenon DEF Text

\* Whatever is written is accepted by validate.
LEMMA WrittenIsBalanced ==
  ASSUME NEW S, Written(S), phase # "write"
  PROVE  Text /\ Validate
<1>1. /\ LayoutOf(text, events, MisleadingGap, S) /\ events # <<>> /\ loops = <<>>
      /\ Len(loops) = Len(S[Len(events)])
  BY Zenon DEF Written
<1>2. /\ text \in Seq(Symbols) /\ events \in Seq(EventSet) /\ S \in [Nat -> Levels]
      /\ S[0] = <<>> /\ Len(text) = Start(events, Len(events) + 1)
  BY <1>1, Zenon DEF LayoutOf
<1>3. Text /\ Len(events) \in Nat \ {0}
  BY <1>1, <1>2 DEF Text
<1>4. S[Len(events)] = <<>>
  BY <1>1, <1>2, <1>3, OpenIs, Zenon
<1> DEFINE P(k) == Outside(Start(events, k + 1), S[k])
           Bad  == {k \in 0 .. Len(events) : ~ P(k)}
<1>5. P(Len(events))
  BY <1>2, <1>3, <1>4, EndBalanced, Zenon DEF Size
<1>6. \A k \in 1 .. Len(events) : P(k) => P(k - 1)
  <2> TAKE k \in 1 .. Len(events)
  <2>1. /\ k - 1 \in Nat /\ S[k - 1] \in Levels /\ Start(events, k) \in Nat
        /\ Start(events, k + 1) = events[k].last + 1
        /\ Laid(text, MisleadingGap, Start(events, k), events[k], S[k - 1], S[k])
    BY <1>1, LayoutIs, Zenon
  <2>2. Outside(Start(events, k), S[k - 1]) = Outside(events[k].last + 1, S[k])
    BY <1>3, <2>1, EventBalanced
  <2>3. (k - 1) + 1 = k
    BY <1>3
  <2>4. QED
    BY <2>1, <2>2, <2>3, Zenon
<1>7. Bad = {}
  <2> SUFFICES ASSUME Bad # {} PROVE FALSE
    OBVIOUS
  <2>1. Bad \in SUBSET (0 .. Len(events)) /\ Len(events) \in Nat
    BY <1>3
  <2>2. PICK x \in Bad : \A y \in Bad : y <= x
    BY <2>1, GreatestElement, Zenon
  <2>3. x \in 0 .. Len(events) /\ ~ P(x)
    BY <2>2
  <2> HIDE DEF P
  <2>4. x # Len(events)
    BY <1>5, <2>3
  <2>5. x + 1 \in 1 .. Len(events) /\ (x + 1) - 1 = x
    BY <1>3, <2>3, <2>4
  <2>6. ~ P(x + 1)
    BY <1>6, <2>3, <2>5, Zenon
  <2>7. x + 1 \in 0 .. Len(events) /\ ~ (x + 1 <= x)
    BY <1>3, <2>3, <2>5
  <2>8. QED
    BY <2>2, <2>6, <2>7, Zenon DEF Bad
<1>8. P(0)
  <2>1. 0 \in 0 .. Len(events)
    BY <1>3
  <2> HIDE DEF P
  <2>2. QED
    BY <1>7, <2>1, Zenon DEF Bad
<1>9. Start(events, 0 + 1) = 0
  BY DEF Start
<1>10. QED
  BY <1>2, <1>3, <1>8, <1>9, Zenon DEF Validate, Outside


-----------------------------------------------------------------------------
(* What skip of a document finds, unless comments mislead it. *)

LEMMA ItemDoc ==
  ASSUME Text, NEW b \in Nat, NEW e \in Nat, b <= e, e < Size,
         (\E s : IsString(b, e, s)) \/ (\E w : IsWord(b, e, w)),
         NEW n \in Int, n # 0, NEW close \in Closings
  PROVE  Doc(close, b, n) = Doc(close, e + 1, n)
<1>1. CASE \E s : IsString(b, e, s)
  BY <1>1, QuotedDoc, Zenon DEF IsString
<1>2. CASE \E w : IsWord(b, e, w)
  <2>1. \A x \in b .. e : Plain(At(x))
    BY <1>2, Zenon DEF IsWord
  <2>2. \A x \in b .. e : At(x) \notin Marks
    BY <2>1 DEF Plain, Marks
  <2>3. e + 1 \in Nat /\ b <= e + 1 /\ e + 1 <= Size /\ (e + 1) - 1 = e
    BY SizeIsNat
  <2>4. QED
    BY <2>2, <2>3, NoMarksDoc, Zenon
<1>3. QED
  BY <1>1, <1>2

\* Nothing that counts for skip.
Clear(a, b) == a <= b /\ \A x \in a .. b - 1 : At(x) \notin Marks

LEMMA ClearDoc ==
  ASSUME Text, NEW a \in Nat, NEW b \in Nat, b <= Size, Clear(a, b),
         NEW n \in Int, n # 0, NEW close \in Closings
  PROVE  Doc(close, a, n) = Doc(close, b, n)
BY NoMarksDoc, Zenon DEF Clear

LEMMA LedDoc ==
  ASSUME Text, NEW a \in Nat, NEW e, NEW before,
         LedBy(text, FALSE, a, e, before), e.at \in Nat, e.at < Size,
         NEW n \in Int, n # 0, NEW close \in Closings
  PROVE  Doc(close, a, n) = Doc(close, e.at, n)
<1>1. PICK at \in Nat : at = e.at /\ at < Size
  BY Zenon
<1>2. at <= Size
  BY <1>1, SizeIsNat
<1>3. ASSUME Between(text, FALSE, a, at)
      PROVE  Doc(close, a, n) = Doc(close, at, n)
  <2>1. Clear(a, at)
    BY <1>3, Zenon DEF Clear, Between, At
  <2>2. QED
    BY <1>2, <2>1, ClearDoc, Zenon
<1>4. ASSUME e.name \in Names, KeyAt(text, FALSE, a, at, e.name)
      PROVE  Doc(close, a, n) = Doc(close, at, n)
  <2>1. PICK b, q, colon : KeyFound(FALSE, a, at, e.name, b, q, colon)
    BY <1>4, KeyIs, Zenon
  <2>2. /\ b \in Nat /\ q \in Nat /\ colon \in Nat
        /\ Clear(a, b) /\ b < q /\ Quoted(text, b, q) /\ q < colon
        /\ Clear(q + 1, colon) /\ At(colon) = ":" /\ colon < at
        /\ Clear(colon + 1, at)
    BY <2>1, Zenon DEF KeyFound, IsKey, Between, Clear, At
  <2>3. b <= Size /\ q < Size /\ colon <= Size /\ colon < Size
          /\ q + 1 \in Nat /\ colon + 1 \in Nat
    BY <1>1, <2>2, SizeIsNat
  <2>4. At(colon) \notin Marks
    BY <2>2 DEF Marks, Quote
  <2>5. Doc(close, a, n) = Doc(close, b, n)
    BY <2>2, <2>3, ClearDoc
  <2>6. Doc(close, b, n) = Doc(close, q + 1, n)
    BY <2>2, <2>3, QuotedDoc
  <2>7. Doc(close, q + 1, n) = Doc(close, colon, n)
    BY <2>2, <2>3, ClearDoc
  <2>8. Doc(close, colon, n) = Doc(close, colon + 1, n)
    BY <2>2, <2>3, <2>4, NoMarkDoc, Zenon
  <2>9. Doc(close, colon + 1, n) = Doc(close, at, n)
    BY <1>2, <2>2, <2>3, ClearDoc
  <2>10. QED
    BY <2>5, <2>6, <2>7, <2>8, <2>9, Zenon
<1>5. QED
  BY <1>1, <1>3, <1>4, Zenon DEF LedBy

\* How many of the documents from the d-th on that are open have this closing
\* symbol.
OfKind(L, d, close) == {j \in d .. Len(L) : L[j] = close}
Open(L, d, close)   == Cardinality(OfKind(L, d, close))

LEMMA OpenIsNat ==
  ASSUME NEW L \in Levels, NEW d \in Nat \ {0}, NEW close
  PROVE  /\ IsFiniteSet(OfKind(L, d, close)) /\ Open(L, d, close) \in Nat
         /\ d <= Len(L) /\ L[d] = close => Open(L, d, close) # 0
<1>1. Len(L) \in Nat
  <2>1. PICK s \in Seq(Closings) : s = L
    BY LevelsAre, Zenon
  <2>2. QED
    BY <2>1
<1>2. IsFiniteSet(d .. Len(L))
  BY <1>1, FS_Interval
<1>3. OfKind(L, d, close) \subseteq d .. Len(L)
  BY DEF OfKind
<1>4. IsFiniteSet(OfKind(L, d, close))
  BY <1>2, <1>3, FS_Subset, Zenon
<1>5. Open(L, d, close) \in Nat
  BY <1>4, FS_CardinalityType, Zenon DEF Open
<1>6. ASSUME d <= Len(L), L[d] = close
      PROVE  Open(L, d, close) # 0
  <2>1. d \in d .. Len(L)
    BY <1>1, <1>6
  <2>2. OfKind(L, d, close) # {}
    BY <1>6, <2>1, Zenon DEF OfKind
  <2>3. QED
    BY <1>4, <2>2, FS_EmptySet, Zenon DEF Open
<1>7. QED
  BY <1>4, <1>5, <1>6, Zenon

LEMMA OpenMore ==
  ASSUME NEW L \in Levels, NEW c \in Closings, NEW d \in Nat \ {0}, d <= Len(L) + 1,
         NEW close
  PROVE  Open(Append(L, c), d, close)
           = IF c = close THEN Open(L, d, close) + 1 ELSE Open(L, d, close)
<1>1. PICK s \in Seq(Closings) : s = L
  BY LevelsAre, Zenon
<1>2. PICK u \in Seq(Closings) : u = Append(s, c)
  BY AppendIs, Zenon
<1>3. /\ Len(u) = Len(s) + 1 /\ \A k \in 1 .. Len(s) : u[k] = s[k]
      /\ u[Len(s) + 1] = c
  BY <1>2
<1>4. Len(s) \in Nat /\ d <= Len(s) + 1
  BY <1>1
<1>5. ~ (Len(s) + 1 \in d .. Len(s))
  BY <1>4
<1>6. \A j : j \in d .. Len(u) <=> (j \in d .. Len(s) \/ j = Len(s) + 1)
  BY <1>3, <1>4
<1>7. \A j \in d .. Len(s) : u[j] = s[j]
  <2>1. \A j \in d .. Len(s) : j \in 1 .. Len(s)
    BY <1>4
  <2>2. QED
    BY <1>3, <2>1, Zenon
<1>8. CASE c = close
  <2>1. OfKind(u, d, close) = OfKind(s, d, close) \union {Len(s) + 1}
    BY <1>3, <1>6, <1>7, <1>8, Zenon DEF OfKind
  <2>2. Len(s) + 1 \notin OfKind(s, d, close)
    BY <1>5, Zenon DEF OfKind
  <2>3. IsFiniteSet(OfKind(s, d, close))
    BY <1>1, OpenIsNat, Zenon
  <2>4. Cardinality(OfKind(s, d, close) \union {Len(s) + 1}) = Cardinality(OfKind(s, d, close)) + 1
    BY <2>2, <2>3, FS_AddElement, Zenon
  <2>5. QED
    BY <1>1, <1>2, <1>8, <2>1, <2>4, Zenon DEF Open
<1>9. CASE c # close
  <2>1. OfKind(u, d, close) = OfKind(s, d, close)
    BY <1>3, <1>6, <1>7, <1>9, Zenon DEF OfKind
  <2>2. QED
    BY <1>1, <1>2, <1>9, <2>1, Zenon DEF Open
<1>10. QED
  BY <1>8, <1>9

LEMMA OpenLess ==
  ASSUME NEW L \in Levels, L # <<>>, NEW d \in Nat \ {0}, d <= Len(L), NEW close
  PROVE  /\ Front(L) \in Levels /\ Last(L) \in Closings
         /\ Len(L) \in Nat \ {0} /\ Len(Front(L)) = Len(L) - 1
         /\ \A k \in 1 .. Len(L) - 1 : Front(L)[k] = L[k]
         /\ Open(L, d, close)
              = IF Last(L) = close THEN Open(Front(L), d, close) + 1
                ELSE Open(Front(L), d, close)
<1>1. PICK s \in Seq(Closings) : s = L
  BY LevelsAre, Zenon
<1>2. s # <<>>
  BY <1>1
<1>3. PICK u \in Seq(Closings) : u = Front(s)
  BY <1>2, FrontIs, Zenon
<1>4. /\ Len(s) \in Nat \ {0} /\ Len(u) = Len(s) - 1
      /\ \A k \in 1 .. Len(s) - 1 : u[k] = s[k]
      /\ Last(s) = s[Len(s)] /\ Last(s) \in Closings
  BY <1>2, <1>3, FrontIs, Zenon
<1>5. PICK c \in Closings : c = Last(s)
  BY <1>4
<1>6. s = Append(u, c)
  <2>1. PICK w \in Seq(Closings) : w = Append(u, c)
    BY AppendIs, Zenon
  <2>2. /\ Len(w) = Len(u) + 1 /\ \A k \in 1 .. Len(u) : w[k] = u[k]
        /\ w[Len(u) + 1] = c
    BY <2>1
  <2>3. Len(w) = Len(s) /\ Len(u) + 1 = Len(s)
    BY <1>4, <2>2
  <2>4. \A k \in 1 .. Len(s) : k \in 1 .. Len(u) \/ k = Len(u) + 1
    BY <1>4
  <2>5. \A k \in 1 .. Len(s) : w[k] = s[k]
    BY <1>4, <1>5, <2>2, <2>3, <2>4, Zenon
  <2>6. w = s
    BY <2>3, <2>5
  <2>7. QED
    BY <2>1, <2>6
<1>7. d <= Len(u) + 1 /\ u \in Levels
  BY <1>1, <1>4, LevelsAre
<1>8. Open(s, d, close) = IF c = close THEN Open(u, d, close) + 1 ELSE Open(u, d, close)
  BY <1>6, <1>7, OpenMore
<1>9. QED
  BY <1>1, <1>3, <1>4, <1>5, <1>7, <1>8, Zenon


\* How an event changes what is open.
LevelsTo(e, before, after, d) ==
  /\ after \in Levels /\ Len(after) \in Nat
  /\ Len(after) >= d => \A j \in 1 .. d : after[j] = before[j]
  /\ Len(after) < d => e.kind = "end" /\ Len(before) = d
  /\ e.kind = "end" => Len(after) = Len(before) - 1 /\ before # <<>> /\ after = Front(before)

LEMMA EventLevels ==
  ASSUME NEW a, NEW e, NEW before \in Levels, NEW after, EventIs(a, e, before, after),
         NEW d \in Nat \ {0}, d <= Len(before)
  PROVE  LevelsTo(e, before, after, d)
<1>1. PICK s \in Seq(Closings) : s = before
  BY LevelsAre, Zenon
<1>2. Len(s) \in Nat /\ d <= Len(s)
  BY <1>1
<1>3. CASE e.kind = "start" /\ \E c \in Closings : after = Append(before, c)
  <2>1. PICK c \in Closings : after = Append(s, c)
    BY <1>1, <1>3, Zenon
  <2>2. PICK w \in Seq(Closings) : w = after /\ w = Append(s, c)
    BY <2>1, AppendIs, Zenon
  <2>3. Len(w) = Len(s) + 1 /\ \A k \in 1 .. Len(s) : w[k] = s[k]
    BY <2>2
  <2>4. \A j \in 1 .. d : j \in 1 .. Len(s)
    BY <1>2
  <2>5. Len(w) \in Nat /\ ~ (Len(w) < d)
    BY <1>2, <2>3
  <2>6. e.kind # "end"
    BY <1>3
  <2>7. QED
    BY <1>1, <2>2, <2>3, <2>4, <2>5, <2>6, LevelsAre, Zenon DEF LevelsTo
<1>4. CASE e.kind = "item" /\ after = before
  <2>1. e.kind # "end"
    BY <1>4
  <2>2. ~ (Len(s) < d)
    BY <1>2
  <2>3. QED
    BY <1>1, <1>2, <1>4, <2>1, <2>2, LevelsAre, Zenon DEF LevelsTo
<1>5. CASE e.kind = "end" /\ before # <<>> /\ after = Front(before)
  <2>1. s # <<>>
    BY <1>1, <1>5
  <2>2. PICK w \in Seq(Closings) : w = after /\ w = Front(s)
    BY <1>1, <1>5, <2>1, FrontIs, Zenon
  <2>3. Len(w) = Len(s) - 1 /\ \A k \in 1 .. Len(s) - 1 : w[k] = s[k]
    BY <2>1, <2>2, FrontIs, Zenon
  <2>4. Len(w) >= d => \A j \in 1 .. d : j \in 1 .. Len(s) - 1
    BY <1>2, <2>3
  <2>5. Len(w) \in Nat /\ (Len(w) < d => Len(s) = d)
    BY <1>2, <2>3
  <2>6. Len(w) >= d => \A j \in 1 .. d : w[j] = s[j]
    BY <2>3, <2>4, Zenon
  <2>7. QED
    BY <1>1, <1>5, <2>2, <2>3, <2>5, <2>6, LevelsAre, Zenon DEF LevelsTo
<1>6. QED
  BY <1>3, <1>4, <1>5, Zenon DEF EventIs

\* skip of a document goes from one event to the next, and stops at the one
\* that closes the document.
DocTo(a, e, before, after, close, d) ==
  /\ Len(after) >= d => Doc(close, a, Open(before, d, close))
                          = Doc(close, e.last + 1, Open(after, d, close))
  /\ Len(after) < d => Doc(close, a, Open(before, d, close)) = e.at

LEMMA EventDoc ==
  ASSUME Text, NEW a \in Nat, NEW e, NEW before \in Levels, NEW after,
         Laid(text, FALSE, a, e, before, after),
         NEW close \in Closings, NEW d \in Nat \ {0}, d <= Len(before), before[d] = close
  PROVE  DocTo(a, e, before, after, close, d)
<1>1. EventIs(a, e, before, after)
  BY LaidIs, Zenon
<1>2. /\ after \in Levels /\ Len(after) \in Nat
      /\ Len(after) >= d => \A j \in 1 .. d : after[j] = before[j]
      /\ Len(after) < d => e.kind = "end" /\ Len(before) = d
  <2>1. LevelsTo(e, before, after, d)
    BY <1>1, EventLevels
  <2>2. QED
    BY <2>1, Zenon DEF LevelsTo
<1>3. /\ e.at \in Nat /\ e.last \in Nat /\ e.at <= e.last /\ e.at < Size /\ e.last < Size
      /\ \/ /\ e.kind = "start" /\ e.last = e.at
            /\ \E c \in Closings : At(e.at) = Opening(c) /\ after = Append(before, c)
         \/ /\ e.kind = "item" /\ after = before
            /\ \/ \E s : IsString(e.at, e.last, s)
               \/ \E w : IsWord(e.at, e.last, w)
         \/ /\ e.kind = "end" /\ e.last = e.at /\ before # <<>>
            /\ At(e.at) = Last(before) /\ after = Front(before)
  BY <1>1, Zenon DEF EventIs
<1>4. Open(before, d, close) \in Nat \ {0}
  <2>1. Open(before, d, close) \in Nat /\ Open(before, d, close) # 0
    BY OpenIsNat, Zenon
  <2>2. QED
    BY <2>1
<1>5. PICK n \in Nat \ {0} : n = Open(before, d, close)
  BY <1>4
<1>6. PICK at \in Nat : at = e.at /\ at < Size
  BY <1>3
<1>7. n \in Int /\ n # 0
  OBVIOUS
<1>8. Doc(close, a, n) = Doc(close, at, n)
  <2>1. LedBy(text, FALSE, a, e, before)
    BY Zenon DEF Laid
  <2>2. QED
    BY <1>3, <1>6, <1>7, <2>1, LedDoc, ZenonT(60)
<1>9. CASE e.last = e.at /\ e.kind = "start"
             /\ \E c \in Closings : At(e.at) = Opening(c) /\ after = Append(before, c)
  <2>1. PICK c \in Closings : At(at) = Opening(c) /\ after = Append(before, c)
    BY <1>6, <1>9, Zenon
  <2>2. Doc(close, at, n) = Doc(close, at + 1, IF c = close THEN n + 1 ELSE n)
    BY <1>6, <2>1, BraceDoc
  <2>3. d <= Len(before) + 1
    <3>1. PICK s \in Seq(Closings) : s = before
      BY LevelsAre, Zenon
    <3>2. Len(s) \in Nat
      OBVIOUS
    <3>3. QED
      BY <3>1, <3>2
  <2>4. Open(after, d, close) = IF c = close THEN n + 1 ELSE n
    BY <1>5, <2>1, <2>3, OpenMore
  <2>5. e.kind # "end"
    BY <1>9
  <2>6. QED
    BY <1>2, <1>5, <1>6, <1>8, <1>9, <2>2, <2>4, <2>5, Zenon DEF DocTo
<1>10. CASE e.kind = "item" /\ after = before /\ ((\E s : IsString(e.at, e.last, s))
                                                  \/ (\E w : IsWord(e.at, e.last, w)))
  <2>1. Doc(close, at, n) = Doc(close, e.last + 1, n)
    <3>1. PICK last \in Nat : last = e.last /\ at <= last /\ last < Size
      BY <1>3, <1>6, Zenon
    <3>2. (\E s : IsString(at, last, s)) \/ (\E w : IsWord(at, last, w))
      BY <1>6, <1>10, <3>1, Zenon
    <3>3. Doc(close, at, n) = Doc(close, last + 1, n)
      BY <1>7, <3>1, <3>2, ItemDoc
    <3>4. QED
      BY <3>1, <3>3, Zenon
  <2>2. e.kind # "end"
    BY <1>10
  <2>3. QED
    BY <1>2, <1>5, <1>8, <1>10, <2>1, <2>2, Zenon DEF DocTo
<1>11. CASE e.kind = "end" /\ e.last = e.at /\ before # <<>>
              /\ At(e.at) = Last(before) /\ after = Front(before)
  <2>1. /\ Last(before) \in Closings /\ Len(before) \in Nat \ {0}
        /\ Len(after) = Len(before) - 1
        /\ n = IF Last(before) = close THEN Open(after, d, close) + 1
               ELSE Open(after, d, close)
    <3>1. /\ Last(before) \in Closings /\ Len(before) \in Nat \ {0}
          /\ Len(Front(before)) = Len(before) - 1
          /\ Open(before, d, close)
               = IF Last(before) = close THEN Open(Front(before), d, close) + 1
                 ELSE Open(Front(before), d, close)
      BY <1>11, OpenLess
    <3>2. QED
      BY <1>5, <1>11, <3>1, Zenon
  <2>2. PICK c \in Closings : c = Last(before) /\ At(at) = c
    BY <1>6, <1>11, <2>1, Zenon
  <2>3. /\ c # close => Doc(close, at, n) = Doc(close, at + 1, n)
        /\ c = close /\ n # 1 => Doc(close, at, n) = Doc(close, at + 1, n - 1)
        /\ c = close /\ n = 1 => Doc(close, at, n) = at
    BY <1>6, <2>2, BraceDoc
  <2>4. Open(after, d, close) \in Nat /\ (d <= Len(after) /\ after[d] = close => Open(after, d, close) # 0)
    BY <1>2, OpenIsNat, Zenon
  <2>5. CASE Len(after) >= d
    <3>1. d <= Len(after) /\ d \in 1 .. d
      BY <1>2, <2>5
    <3>2. Open(after, d, close) # 0
      BY <1>2, <2>4, <2>5, <3>1, Zenon
    <3>3. ~ (Len(after) < d)
      BY <1>2, <2>5
    <3>4. CASE c = close
      <4>1. n = Open(after, d, close) + 1
        BY <2>1, <2>2, <3>4, Zenon
      <4>2. n # 1 /\ n - 1 = Open(after, d, close)
        BY <2>4, <3>2, <4>1
      <4>3. QED
        BY <1>5, <1>6, <1>8, <1>11, <2>3, <3>3, <3>4, <4>2, Zenon DEF DocTo
    <3>5. CASE c # close
      <4>1. n = Open(after, d, close)
        BY <2>1, <2>2, <3>5, Zenon
      <4>2. QED
        BY <1>5, <1>6, <1>8, <1>11, <2>3, <3>3, <3>5, <4>1, Zenon DEF DocTo
    <3>6. QED
      BY <3>4, <3>5
  <2>6. CASE Len(after) < d
    <3>1. Len(before) = d /\ ~ (Len(after) >= d)
      BY <1>2, <2>6
    <3>2. c = close
      BY <2>2, <3>1 DEF Last
    <3>3. \A j : j \notin d .. Len(after)
      BY <1>2, <2>6
    <3>4. OfKind(after, d, close) = {}
      BY <3>3, Zenon DEF OfKind
    <3>5. Open(after, d, close) = 0
      BY <3>4, FS_EmptySet, Zenon DEF Open
    <3>6. n = Open(after, d, close) + 1
      BY <2>1, <2>2, <3>2, Zenon
    <3>7. n = 1
      BY <3>5, <3>6
    <3>8. QED
      BY <1>5, <1>6, <1>8, <2>3, <3>1, <3>2, <3>7, Zenon DEF DocTo
  <2>7. QED
    <3>1. Len(after) >= d \/ Len(after) < d
      BY <1>2
    <3>2. QED
      BY <2>5, <2>6, <3>1, Zenon
<1>12. QED
  BY <1>3, <1>9, <1>10, <1>11, Zenon


\* The document that the k-th event starts ends with the event E.
Encloses(S, k, E) ==
  /\ E \in k + 1 .. Len(events) /\ events[E].kind = "end"
  /\ S[E] = S[k - 1] /\ Len(S[E]) < Len(S[k])
  /\ \A m \in k .. E - 1 : /\ Len(S[k]) <= Len(S[m])
                           /\ \A j \in 1 .. Len(S[k]) : S[m][j] = S[k][j]

LEMMA EndOfIs ==
  ASSUME NEW S, Written(S), phase # "write",
         NEW k \in 1 .. Len(events), events[k].kind = "start"
  PROVE  Encloses(S, k, EndOf(k))
<1>1. /\ LayoutOf(text, events, MisleadingGap, S) /\ events # <<>> /\ loops = <<>>
      /\ events \in Seq(EventSet) /\ S \in [Nat -> Levels]
  BY Zenon DEF Written, LayoutOf
<1>2. Len(events) \in Nat /\ k \in Nat /\ k >= 1 /\ k <= Len(events)
  BY <1>1
<1>3. \A m \in 1 .. Len(events) :
        /\ S[m - 1] \in Levels /\ S[m] \in Levels
        /\ EventIs(Start(events, m), events[m], S[m - 1], S[m])
  BY <1>1, LayoutIs, LaidIs, Zenon
<1>4. S[Len(events)] = <<>>
  BY <1>1, OpenIs, Zenon
<1>5. PICK s \in Seq(Closings), c \in Closings : s = S[k - 1] /\ S[k] = Append(s, c)
  <2>1. PICK s \in Seq(Closings) : s = S[k - 1]
    BY <1>3, LevelsAre, Zenon
  <2>2. "start" # "item" /\ "start" # "end"
    OBVIOUS
  <2>3. \E c \in Closings : S[k] = Append(S[k - 1], c)
    BY <1>3, <2>2, Zenon DEF EventIs
  <2>4. QED
    BY <2>1, <2>3, Zenon
<1>6. PICK t \in Seq(Closings) : t = S[k] /\ t = Append(s, c)
  BY <1>5, AppendIs, Zenon
<1>7. PICK d \in Nat \ {0} : d = Len(t) /\ Len(s) = d - 1 /\ \A j \in 1 .. d - 1 : t[j] = s[j]
  <2>1. Len(t) = Len(s) + 1 /\ \A j \in 1 .. Len(s) : t[j] = s[j]
    BY <1>6
  <2>2. Len(s) \in Nat /\ Len(t) \in Nat \ {0} /\ Len(s) = Len(t) - 1
    BY <2>1
  <2>3. QED
    BY <2>1, <2>2, Zenon
<1>8. d = Len(S[k])
  BY <1>6, <1>7, Zenon
<1> DEFINE Low == {m \in k + 1 .. Len(events) : Len(S[m]) < d}
<1>9. PICK E \in Low : \A m \in Low : E <= m
  <2>1. Len(S[Len(events)]) = 0
    BY <1>4
  <2>2. k # Len(events)
    BY <1>7, <1>8, <2>1
  <2>3. Len(events) \in k + 1 .. Len(events) /\ 0 < d
    BY <1>2, <2>2
  <2>4. Len(events) \in Low
    BY <2>1, <2>3, Zenon
  <2>5. Low \in SUBSET Nat
    BY <1>2
  <2>6. QED
    BY <2>4, <2>5, LeastElement, Zenon
<1>10. E \in k + 1 .. Len(events) /\ Len(S[E]) < d /\ \A m \in k + 1 .. E - 1 : m \notin Low
  BY <1>2, <1>9
<1>11. \A m \in k .. E - 1 : m \in 1 .. Len(events) /\ m \in Nat
  BY <1>2, <1>10
<1>12. \A m \in k .. E - 1 : d <= Len(S[m])
  <2> TAKE m \in k .. E - 1
  <2>1. CASE m = k
    BY <1>7, <1>8, <2>1
  <2>2. CASE m # k
    <3>1. m \in k + 1 .. E - 1 /\ m \in k + 1 .. Len(events)
      BY <1>2, <1>10, <2>2
    <3>2. ~ (Len(S[m]) < d)
      BY <1>10, <3>1, Zenon
    <3>3. PICK w \in Seq(Closings) : w = S[m]
      BY <1>3, <1>11, LevelsAre, Zenon
    <3>4. Len(w) \in Nat
      OBVIOUS
    <3>5. QED
      BY <3>2, <3>3, <3>4
  <2>3. QED
    BY <2>1, <2>2
<1> HIDE DEF Low
<1> DEFINE P(m) == \A j \in 1 .. d : S[m][j] = t[j]
           Bad  == {m \in k .. E - 1 : ~ P(m)}
<1>13. Bad = {}
  <2> SUFFICES ASSUME Bad # {} PROVE FALSE
    OBVIOUS
  <2>1. Bad \in SUBSET Nat
    BY <1>2
  <2>2. PICK b \in Bad : \A m \in Bad : b <= m
    BY <2>1, LeastElement, Zenon
  <2>3. b \in k .. E - 1 /\ ~ P(b)
    BY <2>2
  <2>4. P(k)
    BY <1>6, Zenon
  <2> HIDE DEF P
  <2>5. b # k
    BY <2>3, <2>4
  <2>6. b - 1 \in k .. E - 1 /\ ~ (b <= b - 1) /\ b \in 1 .. Len(events)
    BY <1>2, <1>10, <2>3, <2>5
  <2>7. P(b - 1)
    BY <2>2, <2>6, Zenon DEF Bad
  <2>8. d <= Len(S[b - 1]) /\ d <= Len(S[b]) /\ S[b - 1] \in Levels
          /\ EventIs(Start(events, b), events[b], S[b - 1], S[b])
    BY <1>3, <1>12, <2>3, <2>6, Zenon
  <2>9. Len(S[b]) \in Nat /\ (Len(S[b]) >= d => \A j \in 1 .. d : S[b][j] = S[b - 1][j])
    <3>1. LevelsTo(events[b], S[b - 1], S[b], d)
      BY <2>8, EventLevels
    <3>2. QED
      BY <3>1, Zenon DEF LevelsTo
  <2>10. Len(S[b]) >= d
    BY <2>8, <2>9
  <2>11. P(b)
    BY <2>7, <2>9, <2>10, Zenon DEF P
  <2>12. QED
    BY <2>3, <2>11
<1>14. \A m \in k .. E - 1 : \A j \in 1 .. d : S[m][j] = t[j]
  BY <1>13, Zenon
<1> HIDE DEF P, Bad
<1>15. E - 1 \in k .. E - 1 /\ E \in 1 .. Len(events)
  BY <1>2, <1>10
<1>16. PICK u \in Seq(Closings) : u = S[E - 1] /\ d <= Len(u) /\ \A j \in 1 .. d : u[j] = t[j]
  BY <1>3, <1>12, <1>14, <1>15, LevelsAre, Zenon
<1>17. EventIs(Start(events, E), events[E], u, S[E]) /\ u \in Levels
  BY <1>3, <1>15, <1>16, Zenon
<1>18. events[E].kind = "end" /\ Len(u) = d /\ u # <<>> /\ S[E] = Front(u)
  <2>1. /\ Len(S[E]) < d => events[E].kind = "end" /\ Len(u) = d
        /\ events[E].kind = "end" => Len(S[E]) = Len(u) - 1 /\ u # <<>> /\ S[E] = Front(u)
    <3>1. LevelsTo(events[E], u, S[E], d)
      BY <1>16, <1>17, EventLevels
    <3>2. QED
      BY <3>1, Zenon DEF LevelsTo
  <2>2. QED
    BY <1>10, <2>1
<1>19. PICK f \in Seq(Closings) : f = S[E] /\ f = Front(u)
  BY <1>18, FrontIs, Zenon
<1>20. S[E] = S[k - 1]
  <2>1. Len(f) = Len(u) - 1 /\ \A j \in 1 .. Len(u) - 1 : f[j] = u[j]
    BY <1>18, <1>19, FrontIs, Zenon
  <2>2. \A j \in 1 .. d - 1 : j \in 1 .. d
    OBVIOUS
  <2>3. Len(f) = d - 1 /\ \A j \in 1 .. d - 1 : f[j] = s[j]
    BY <1>7, <1>16, <1>18, <2>1, <2>2, Zenon
  <2>4. f = s
    BY <1>7, <2>3
  <2>5. QED
    BY <1>5, <1>19, <2>4
<1>21. \A m \in 1 .. Len(events) : events[m].depth = Len(S[m - 1])
  BY <1>3, Zenon DEF EventIs
<1>22. events[E].depth = d /\ events[k].depth + 1 = d
  <2>1. events[E].depth = d
    BY <1>15, <1>16, <1>18, <1>21, Zenon
  <2>2. events[k].depth = d - 1
    BY <1>5, <1>7, <1>21, Zenon
  <2>3. QED
    BY <2>1, <2>2
<1> DEFINE Ends(e) ==
             /\ events[e].kind = "end" /\ events[e].depth = events[k].depth + 1
             /\ \A m \in k + 1 .. e - 1 : events[m].depth > events[k].depth + 1
                                            \/ events[m].kind # "end"
<1>23. \A m \in k + 1 .. E - 1 : events[m].kind = "end" => events[m].depth > d
  <2> SUFFICES ASSUME NEW m \in k + 1 .. E - 1, events[m].kind = "end"
               PROVE  events[m].depth > d
    OBVIOUS
  <2>1. m \in k .. E - 1 /\ m - 1 \in k .. E - 1 /\ m \in 1 .. Len(events)
    BY <1>2, <1>10
  <2>2. PICK x \in Nat : x = Len(S[m])
    <3>1. PICK w \in Seq(Closings) : w = S[m]
      BY <1>3, <2>1, LevelsAre, Zenon
    <3>2. Len(w) \in Nat
      OBVIOUS
    <3>3. QED
      BY <3>1, <3>2
  <2>3. d <= x /\ d <= Len(S[m - 1]) /\ S[m - 1] \in Levels
          /\ EventIs(Start(events, m), events[m], S[m - 1], S[m])
    BY <1>3, <1>12, <2>1, <2>2, Zenon
  <2>4. x = Len(S[m - 1]) - 1
    <3>1. LevelsTo(events[m], S[m - 1], S[m], d)
      BY <2>3, EventLevels
    <3>2. QED
      BY <2>2, <3>1, Zenon DEF LevelsTo
  <2>5. PICK y \in Nat : y = Len(S[m - 1])
    <3>1. PICK w \in Seq(Closings) : w = S[m - 1]
      BY <2>3, LevelsAre, Zenon
    <3>2. Len(w) \in Nat
      OBVIOUS
    <3>3. QED
      BY <3>1, <3>2
  <2>6. y > d
    BY <2>3, <2>4, <2>5
  <2>7. events[m].depth = y
    BY <1>21, <2>1, <2>5, Zenon
  <2>8. QED
    BY <2>6, <2>7
<1>24. Ends(E)
  BY <1>18, <1>22, <1>23, Zenon
<1>25. \A e \in k + 1 .. Len(events) : Ends(e) => e = E
  <2> SUFFICES ASSUME NEW e \in k + 1 .. Len(events), Ends(e)
               PROVE  e = E
    OBVIOUS
  <2>1. e \in 1 .. Len(events) /\ e \in Nat /\ E \in Nat
    BY <1>2, <1>10
  <2>2. events[e].depth = d /\ events[e].kind = "end"
    BY <1>22, Zenon
  <2>3. ~ (e \in k + 1 .. E - 1)
    <3> SUFFICES ASSUME e \in k + 1 .. E - 1 PROVE FALSE
      OBVIOUS
    <3>1. events[e].depth > d
      BY <1>23, <2>2, Zenon
    <3>2. d > d
      BY <2>2, <3>1, Zenon
    <3>3. QED
      BY <3>2
  <2>4. ~ (E \in k + 1 .. e - 1)
    <3> SUFFICES ASSUME E \in k + 1 .. e - 1 PROVE FALSE
      OBVIOUS
    <3>1. events[E].depth > events[k].depth + 1
      BY <1>18, Zenon
    <3>2. d > d
      BY <1>22, <3>1, Zenon
    <3>3. QED
      BY <3>2
  <2>5. QED
    BY <1>2, <1>10, <2>1, <2>3, <2>4
<1>26. EndOf(k) = CHOOSE e \in k + 1 .. Len(events) : Ends(e)
  <2>1. events[k].kind # "item"
    OBVIOUS
  <2>2. QED
    BY <2>1, Zenon DEF EndOf
<1> HIDE DEF Ends
<1>27. EndOf(k) = E
  BY <1>10, <1>24, <1>25, <1>26, Zenon
<1>28. Encloses(S, k, E)
  BY <1>6, <1>8, <1>10, <1>12, <1>14, <1>18, <1>20, Zenon DEF Encloses
<1>29. QED
  BY <1>27, <1>28, Zenon


\* skip of a document ends where its event ends.
LEMMA DocumentIs ==
  ASSUME NEW S, Written(S), phase # "write", ~ MisleadingGap,
         NEW k \in 1 .. Len(events), events[k].kind = "start",
         NEW c \in Closings, At(events[k].at) = Opening(c)
  PROVE  DocumentEnd(events[k].at, c) = events[EndOf(k)].at
<1>1. LayoutOf(text, events, MisleadingGap, S) /\ S \in [Nat -> Levels] /\ events \in Seq(EventSet)
  BY Zenon DEF Written, LayoutOf
<1>2. Len(events) \in Nat /\ k \in Nat /\ k >= 1 /\ k <= Len(events)
  BY <1>1
<1>3. \A m \in 1 .. Len(events) :
        /\ Text /\ S[m - 1] \in Levels /\ S[m] \in Levels
        /\ Start(events, m) \in Nat /\ Start(events, m + 1) = events[m].last + 1
        /\ Laid(text, MisleadingGap, Start(events, m), events[m], S[m - 1], S[m])
        /\ EventIs(Start(events, m), events[m], S[m - 1], S[m])
  BY <1>1, LayoutIs, LaidIs, Zenon
<1>4. MisleadingGap = FALSE
  BY DEF MisleadingGap
<1>5. PICK E : E = EndOf(k) /\ Encloses(S, k, E)
  BY EndOfIs, Zenon
<1>6. PICK s \in Seq(Closings) : s = S[k - 1] /\ S[k] = Append(s, c)
  <2>1. PICK s \in Seq(Closings) : s = S[k - 1]
    BY <1>3, LevelsAre, Zenon
  <2>2. "start" # "item" /\ "start" # "end"
    OBVIOUS
  <2>3. PICK x \in Closings : At(events[k].at) = Opening(x) /\ S[k] = Append(S[k - 1], x)
    BY <1>3, <2>2, Zenon DEF EventIs
  <2>4. Opening(x) = Opening(c)
    BY <2>3, Zenon
  <2>5. x = c
    BY <2>4 DEF Opening, Closings
  <2>6. QED
    BY <2>1, <2>3, <2>5, Zenon
<1>7. PICK t \in Seq(Closings) : t = S[k] /\ t = Append(s, c)
  BY <1>6, AppendIs, Zenon
<1>8. PICK d \in Nat \ {0} : d = Len(t) /\ d = Len(s) + 1 /\ t[d] = c
  <2>1. Len(t) = Len(s) + 1 /\ t[Len(s) + 1] = c
    BY <1>7
  <2>2. Len(t) \in Nat \ {0}
    BY <2>1
  <2>3. QED
    BY <2>1, <2>2, Zenon
<1>9. Open(t, d, c) = 1
  <2>1. s \in Levels /\ d <= Len(s) + 1
    <3>1. d <= Len(s) + 1
      BY <1>8
    <3>2. QED
      BY <3>1, LevelsAre, Zenon
  <2>2. Open(Append(s, c), d, c) = Open(s, d, c) + 1
    BY <2>1, OpenMore
  <2>3. \A j : j \notin d .. Len(s)
    BY <1>8
  <2>4. OfKind(s, d, c) = {}
    BY <2>3, Zenon DEF OfKind
  <2>5. Open(s, d, c) = 0
    BY <2>4, FS_EmptySet, Zenon DEF Open
  <2>6. Open(s, d, c) + 1 = 1
    BY <2>5
  <2>7. QED
    BY <1>7, <2>2, <2>6, Zenon
<1>10. /\ E \in k + 1 .. Len(events) /\ Len(S[E]) < d
       /\ \A m \in k .. E - 1 : d <= Len(S[m]) /\ \A j \in 1 .. d : S[m][j] = t[j]
  <2>1. S[k] = t /\ Len(S[k]) = d
    BY <1>7, <1>8, Zenon
  <2>2. /\ E \in k + 1 .. Len(events) /\ Len(S[E]) < Len(S[k])
        /\ \A m \in k .. E - 1 : Len(S[k]) <= Len(S[m])
        /\ \A m \in k .. E - 1 : \A j \in 1 .. Len(S[k]) : S[m][j] = S[k][j]
    BY <1>5, Zenon DEF Encloses
  <2>3. QED
    BY <2>1, <2>2, Zenon
<1>11. \A m \in k .. E - 1 : d <= Len(S[m]) /\ S[m][d] = c
  <2>1. d \in 1 .. d
    OBVIOUS
  <2>2. QED
    BY <1>8, <1>10, <2>1, Zenon
<1> DEFINE P(m) == Doc(c, Start(events, m + 1), Open(S[m], d, c)) = events[E].at
           Bad  == {m \in k .. E - 1 : ~ P(m)}
<1>12. \A m \in k .. E - 1 :
         /\ Len(S[m + 1]) >= d =>
              Doc(c, Start(events, m + 1), Open(S[m], d, c))
                = Doc(c, Start(events, (m + 1) + 1), Open(S[m + 1], d, c))
         /\ Len(S[m + 1]) < d =>
              Doc(c, Start(events, m + 1), Open(S[m], d, c)) = events[m + 1].at
  <2> TAKE m \in k .. E - 1
  <2>1. m + 1 \in 1 .. Len(events) /\ (m + 1) - 1 = m
    BY <1>2, <1>10
  <2>2. PICK n \in 1 .. Len(events) : n = m + 1 /\ n - 1 = m
    BY <2>1
  <2>3. /\ Start(events, n) \in Nat /\ S[n - 1] \in Levels /\ Text
        /\ Start(events, n + 1) = events[n].last + 1
        /\ Laid(text, MisleadingGap, Start(events, n), events[n], S[n - 1], S[n])
    BY <1>3, Zenon
  <2>4. PICK a \in Nat : a = Start(events, n)
    BY <2>3, Zenon
  <2>5. PICK before \in Levels : before = S[n - 1]
    BY <2>3, Zenon
  <2>6. PICK e, after : e = events[n] /\ after = S[n]
    BY Zenon
  <2>7. Laid(text, FALSE, a, e, before, after)
    BY <1>4, <2>3, <2>4, <2>5, <2>6, Zenon
  <2>8. before = S[m] /\ e = events[m + 1] /\ after = S[m + 1]
    BY <2>2, <2>5, <2>6, Zenon
  <2>9. d <= Len(before) /\ before[d] = c
    BY <1>11, <2>8, Zenon
  <2>10. DocTo(a, e, before, after, c, d)
    BY <2>3, <2>7, <2>9, EventDoc
  <2>11. a = Start(events, m + 1) /\ e.last + 1 = Start(events, (m + 1) + 1)
    BY <2>2, <2>3, <2>4, <2>6, Zenon
  <2>12. QED
    BY <2>8, <2>10, <2>11, Zenon DEF DocTo
<1>13. P(E - 1)
  <2>1. E - 1 \in k .. E - 1 /\ (E - 1) + 1 = E
    BY <1>2, <1>10
  <2>2. Len(S[E]) < d
    BY <1>10
  <2>3. QED
    BY <1>12, <2>1, <2>2, Zenon
<1>14. \A m \in k .. E - 1 : m # E - 1 /\ P(m + 1) => P(m)
  <2> SUFFICES ASSUME NEW m \in k .. E - 1, m # E - 1, P(m + 1)
               PROVE  P(m)
    OBVIOUS
  <2> HIDE DEF P
  <2>1. m + 1 \in k .. E - 1
    BY <1>2, <1>10
  <2>2. PICK x \in Nat : x = Len(S[m + 1])
    <3>1. m + 1 \in 1 .. Len(events)
      BY <1>2, <1>10, <2>1
    <3>2. PICK w \in Seq(Closings) : w = S[m + 1]
      BY <1>3, <3>1, LevelsAre, Zenon
    <3>3. Len(w) \in Nat
      OBVIOUS
    <3>4. QED
      BY <3>2, <3>3
  <2>3. d <= x
    BY <1>11, <2>1, <2>2, Zenon
  <2>4. x >= d
    BY <2>3
  <2>5. QED
    BY <1>12, <2>2, <2>4, Zenon DEF P
<1> HIDE DEF P
<1>15. Bad = {}
  <2> SUFFICES ASSUME Bad # {} PROVE FALSE
    OBVIOUS
  <2>1. Bad \in SUBSET (0 .. E - 1) /\ E - 1 \in Nat
    BY <1>2, <1>10
  <2>2. PICK b \in Bad : \A m \in Bad : m <= b
    BY <2>1, GreatestElement, Zenon
  <2>3. b \in k .. E - 1 /\ ~ P(b)
    BY <2>2
  <2>4. b # E - 1
    BY <1>13, <2>3
  <2>5. ~ P(b + 1)
    BY <1>14, <2>3, <2>4, Zenon
  <2>6. b + 1 \in k .. E - 1 /\ ~ (b + 1 <= b)
    BY <1>2, <1>10, <2>3, <2>4
  <2>7. QED
    BY <2>2, <2>5, <2>6, Zenon DEF Bad
<1>16. P(k)
  <2>1. k \in k .. E - 1
    BY <1>2, <1>10
  <2>2. QED
    BY <1>15, <2>1, Zenon DEF Bad
<1>17. Start(events, k + 1) = events[k].at + 1
  <2>1. "start" # "item"
    OBVIOUS
  <2>2. events[k].last = events[k].at
    BY <1>3, <2>1, Zenon DEF EventIs
  <2>3. QED
    BY <1>3, <2>2, Zenon
<1>18. Doc(c, events[k].at + 1, 1) = events[E].at
  BY <1>7, <1>9, <1>16, <1>17, Zenon DEF P
<1>19. QED
  BY <1>5, <1>18, DocumentEndIs, Zenon DEF Doc
=============================================================================
