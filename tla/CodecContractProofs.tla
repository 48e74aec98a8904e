------------------------ MODULE CodecContractProofs ------------------------
(***************************************************************************)
(* Proofs about CodecContract, for any tokens: what a reader may rely on,  *)
(* whichever codec it reads with.                                          *)
(***************************************************************************)
EXTENDS CodecContract, FiniteSetTheorems, SequenceTheorems,
        WellFoundedInduction, TLAPS

\* Every nonempty set of natural numbers has a least element.
LEMMA LeastElement ==
  ASSUME NEW T \in SUBSET Nat, T # {}
  PROVE  \E x \in T : \A y \in T : x <= y
<1> DEFINE Less == {pair \in Nat \X Nat : pair[1] < pair[2]}
<1>1. IsWellFoundedOn(Less, Nat)
  BY NatLessThanWellFounded, Zenon DEF OpToRel
<1>2. \A x, y \in Nat : <<y, x>> \in Less <=> y < x
  OBVIOUS
<1> HIDE DEF Less
<1>3. PICK x \in T : \A y \in T : ~ (<<y, x>> \in Less)
  BY <1>1, WFMin, Zenon
<1>4. \A y \in T : ~ (y < x)
  BY <1>2, <1>3, Zenon
<1>5. QED
  BY <1>4

-----------------------------------------------------------------------------
(* How many documents a sequence of tokens leaves open. *)

\* A count of a finite sequence is a number, and one token more adds to it if
\* it is of that kind.
LEMMA CountGrows ==
  ASSUME NEW S, NEW s \in Seq(S), NEW token \in S, NEW kind
  PROVE  /\ CountOf(s, kind) \in Nat
         /\ CountOf(Append(s, token), kind) =
              CountOf(s, kind) + (IF token.kind = kind THEN 1 ELSE 0)
<1> DEFINE n == Len(s)
           t == Append(s, token)
           A == {k \in DOMAIN s : s[k].kind = kind}
           B == {k \in DOMAIN t : t[k].kind = kind}
<1>1. /\ n \in Nat /\ DOMAIN s = 1 .. n /\ DOMAIN t = 1 .. n + 1
      /\ t[n + 1] = token /\ \A k \in 1 .. n : t[k] = s[k]
  OBVIOUS
<1> HIDE DEF n, t
<1>2. IsFiniteSet(A)
  <2>1. IsFiniteSet(1 .. n)
    BY <1>1, FS_Interval
  <2>2. A \subseteq 1 .. n
    BY <1>1
  <2>3. QED
    BY <2>1, <2>2, FS_Subset
<1>3. PICK a \in Nat : a = Cardinality(A)
  BY <1>2, FS_CardinalityType
<1>4. CountOf(s, kind) = a /\ CountOf(Append(s, token), kind) = Cardinality(B)
  BY <1>3 DEF CountOf, t
<1>5. CASE token.kind = kind
  <2>1. B = A \union {n + 1} /\ n + 1 \notin A
    BY <1>1, <1>5
  <2>2. Cardinality(B) = Cardinality(A) + 1
    BY <1>2, <2>1, FS_AddElement
  <2>3. QED
    BY <1>3, <1>5, <1>4, <2>2
<1>6. CASE token.kind # kind
  <2>1. B = A
    BY <1>1, <1>6
  <2>2. Cardinality(B) = a
    BY <1>3, <2>1
  <2> HIDE DEF B
  <2>3. QED
    BY <1>4, <1>6, <2>2
<1>7. QED
  BY <1>5, <1>6

\* What one token does to the number of open documents.
Change(token) ==
  (IF token.kind = "start" THEN 1 ELSE 0) - (IF token.kind = "end" THEN 1 ELSE 0)

LEMMA ChangeIs ==
  ASSUME NEW token
  PROVE  /\ Change(token) \in -1 .. 1
         /\ token.kind = "start" => Change(token) = 1
         /\ token.kind = "end" => Change(token) = -1
         /\ token.kind \notin {"start", "end"} => Change(token) = 0
BY DEF Change

LEMMA OpenGrows ==
  ASSUME NEW S, NEW s \in Seq(S), NEW token \in S
  PROVE  /\ Open(s) \in Int
         /\ Open(Append(s, token)) = Open(s) + Change(token)
<1>1. PICK a \in Nat, b \in Nat :
        a = CountOf(s, "start") /\ b = CountOf(s, "end")
  BY CountGrows
<1>2. CountOf(Append(s, token), "start") = a + (IF token.kind = "start" THEN 1 ELSE 0)
  BY <1>1, CountGrows
<1>3. CountOf(Append(s, token), "end") = b + (IF token.kind = "end" THEN 1 ELSE 0)
  BY <1>1, CountGrows
<1>4. QED
  BY <1>1, <1>2, <1>3 DEF Open, Change

LEMMA NoneOpen == Open(<<>>) = 0
<1>1. CountOf(<<>>, "start") = 0 /\ CountOf(<<>>, "end") = 0
  <2>1. \A kind : {k \in DOMAIN <<>> : <<>>[k].kind = kind} = {}
    OBVIOUS
  <2>2. QED
    BY <2>1, FS_EmptySet DEF CountOf
<1>2. QED
  BY <1>1 DEF Open

\* A part of a sequence is the part that is one token shorter, and that token.
LEMMA PartGrows ==
  ASSUME NEW S, NEW w \in Seq(S), NEW k \in 1 .. Len(w), NEW m \in k .. Len(w)
  PROVE  /\ SubSeq(w, k, m - 1) \in Seq(S) /\ w[m] \in S
         /\ SubSeq(w, k, m) = Append(SubSeq(w, k, m - 1), w[m])
<1>1. SubSeq(w, k, m - 1) \in Seq(S) /\ w[m] \in S
  OBVIOUS
<1>2. SubSeq(w, k, m) = Append(SubSeq(w, k, m - 1), w[m])
  OBVIOUS
<1>3. QED
  BY <1>1, <1>2

\* How many more documents are open behind token m than before token k.
LEMMA PartOpens ==
  ASSUME NEW S, NEW w \in Seq(S), NEW k \in 1 .. Len(w), NEW m \in k .. Len(w)
  PROVE  /\ Open(SubSeq(w, k, m - 1)) \in Int
         /\ m = k => Open(SubSeq(w, k, m - 1)) = 0
         /\ Open(SubSeq(w, k, m)) = Open(SubSeq(w, k, m - 1)) + Change(w[m])
<1>1. m = k => SubSeq(w, k, m - 1) = <<>>
  OBVIOUS
<1>2. PICK s \in Seq(S), token \in S :
        /\ s = SubSeq(w, k, m - 1) /\ token = w[m]
        /\ SubSeq(w, k, m) = Append(s, token)
  <2>1. /\ SubSeq(w, k, m - 1) \in Seq(S) /\ w[m] \in S
        /\ SubSeq(w, k, m) = Append(SubSeq(w, k, m - 1), w[m])
    BY PartGrows
  <2>2. QED
    BY <2>1, Zenon
<1>3. Open(s) \in Int /\ Open(Append(s, token)) = Open(s) + Change(token)
  BY OpenGrows
<1>4. m = k => Open(s) = 0
  BY <1>1, <1>2, NoneOpen, Zenon
<1>5. QED
  BY <1>2, <1>3, <1>4, Zenon

-----------------------------------------------------------------------------
(* What was written is a document, or the beginning of one. *)

\* While the writer writes, and ever after, the first token starts a document,
\* and one is open behind every token but the last.
Bracketed ==
  /\ written # <<>> => written[1].kind = "start"
  /\ \A k \in 1 .. Len(written) - 1 : Level(k) > 0

\* What is sent is one document, and all of it.
Complete == written # <<>> /\ Level(Len(written)) = 0

\* The invariant: what was written, and where the reader is in it.
IInv ==
  /\ written \in Seq(Tokens) /\ passed \in Nat
  /\ stage \in {"write", "sent", "read", "done", "failed", "lost"}
  /\ written # <<>> => Level(Len(written)) >= 0
  /\ Bracketed
  /\ stage # "write" => Complete
  /\ stage \in {"write", "sent", "failed"} => passed = 0 /\ given = Nothing
  /\ InsideDocument
  /\ GivenWasWritten

\* From one token to the next the level changes by what that token does.
LEMMA LevelGrows ==
  ASSUME written \in Seq(Tokens), NEW k \in 1 .. Len(written)
  PROVE  /\ Level(k - 1) \in Int /\ Level(k) \in Int
         /\ k = 1 => Level(k - 1) = 0
         /\ Level(k) = Level(k - 1) + Change(written[k])
<1>1. 1 \in 1 .. Len(written)
  OBVIOUS
<1>2. /\ Open(SubSeq(written, 1, k - 1)) \in Int
      /\ k = 1 => Open(SubSeq(written, 1, k - 1)) = 0
      /\ Open(SubSeq(written, 1, k)) =
           Open(SubSeq(written, 1, k - 1)) + Change(written[k])
  BY <1>1, PartOpens
<1>3. Change(written[k]) \in -1 .. 1
  BY ChangeIs
<1>4. QED
  BY <1>2, <1>3 DEF Level

\* What is open between two tokens is what their levels differ by.
LEMMA PartIsLevels ==
  ASSUME written \in Seq(Tokens),
         NEW k \in 1 .. Len(written), NEW m \in k .. Len(written)
  PROVE  Open(SubSeq(written, k, m)) = Level(m) - Level(k - 1)
<1> DEFINE Opens(j) == Open(SubSeq(written, k, j))
           Bad == {j \in k .. Len(written) : Opens(j) # Level(j) - Level(k - 1)}
<1>1. Len(written) \in Nat /\ k \in Nat
  OBVIOUS
<1>2. SUFFICES ASSUME Bad # {}
               PROVE  FALSE
  OBVIOUS
<1>3. PICK j \in Bad : \A x \in Bad : j <= x
  <2>1. Bad \in SUBSET Nat
    BY <1>1
  <2>2. QED
    BY <1>2, <2>1, LeastElement
<1>4. /\ j \in k .. Len(written) /\ j \in 1 .. Len(written)
      /\ Opens(j) # Level(j) - Level(k - 1)
  BY <1>1, <1>3
<1>5. /\ Opens(j - 1) \in Int
      /\ j = k => Opens(j - 1) = 0
      /\ Opens(j) = Opens(j - 1) + Change(written[j])
  BY <1>4, PartOpens
<1>6. /\ Level(j - 1) \in Int /\ Level(k - 1) \in Int
      /\ Level(j) = Level(j - 1) + Change(written[j])
  BY <1>4, LevelGrows
<1>7. Opens(j - 1) = Level(j - 1) - Level(k - 1)
  <2>1. CASE j = k
    BY <1>5, <1>6, <2>1
  <2>2. CASE j # k
    <3>1. j - 1 \in k .. Len(written) /\ ~ (j <= j - 1)
      BY <1>1, <1>4, <2>2
    <3>2. QED
      BY <1>3, <3>1
  <2>3. QED
    BY <2>1, <2>2
<1>8. Change(written[j]) \in -1 .. 1
  BY ChangeIs
<1> HIDE DEF Opens
<1>9. QED
  BY <1>4, <1>5, <1>6, <1>7, <1>8

\* The level behind all of it is what it leaves open.
LEMMA LevelOfAll ==
  ASSUME written \in Seq(Tokens)
  PROVE  Level(Len(written)) = Open(written) /\ Level(0) = 0
<1>1. SubSeq(written, 1, Len(written)) = written
  BY SubSeqFull
<1>2. SubSeq(written, 1, 0) = <<>>
  OBVIOUS
<1>3. QED
  BY <1>1, <1>2, NoneOpen, Zenon DEF Level

\* A writer that appends a token leaves the levels before it as they are.
LEMMA LevelsKept ==
  ASSUME written \in Seq(Tokens), NEW token \in Tokens,
         written' = Append(written, token), NEW k \in 0 .. Len(written)
  PROVE  Level(k)' = Level(k)
<1>1. SubSeq(written', 1, k) = SubSeq(written, 1, k)
  OBVIOUS
<1>2. QED
  BY <1>1, Zenon DEF Level

-----------------------------------------------------------------------------
(* Where a value ends. *)

\* A reader that is inside a document has a token to come, which it is behind
\* without having left what was written.
LEMMA TokenComes ==
  ASSUME IInv, stage = "read"
  PROVE  /\ passed \in Nat /\ passed >= 1 /\ passed + 1 \in 1 .. Len(written)
         /\ Len(written) \in Nat /\ Level(Len(written)) = 0
         /\ Level(passed) \in Int /\ Level(passed) > 0
         /\ Level(passed + 1) = Level(passed) + Change(Coming)
<1>1. /\ written \in Seq(Tokens) /\ Level(Len(written)) = 0
      /\ passed \in 1 .. Len(written) - 1 /\ Level(passed) > 0
  BY DEF IInv, InsideDocument, Complete
<1>2. PICK k \in 1 .. Len(written) : k = passed + 1 /\ k - 1 = passed
  BY <1>1
<1>3. Level(passed) \in Int /\ Level(k) = Level(passed) + Change(written[k])
  <2>1. Level(k - 1) \in Int /\ Level(k) = Level(k - 1) + Change(written[k])
    BY <1>1, LevelGrows
  <2>2. QED
    BY <1>2, <2>1
<1>4. QED
  BY <1>1, <1>2, <1>3 DEF Coming

\* EndOf names a token: the first one behind which no more documents are open
\* than before the value, which is inside the document that holds the value.
LEMMA EndOfIs ==
  ASSUME IInv, stage = "read", Coming.kind # "end", NEW e, e = EndOf(passed + 1)
  PROVE  /\ e \in passed + 1 .. Len(written) - 1
         /\ Level(e) = Level(passed)
         /\ \A k \in passed + 1 .. e - 1 : Level(k) > Level(passed)
         /\ e # passed + 1 => Coming.kind = "start"
<1>1. PICK n \in Nat, i \in Nat, p \in Int :
        /\ n = Len(written) /\ i = passed /\ p = Level(passed)
        /\ p > 0 /\ i >= 1 /\ i + 1 \in 1 .. n /\ Level(n) = 0
        /\ Level(i + 1) = p + Change(Coming)
  BY TokenComes
<1>2. /\ written \in Seq(Tokens)
      /\ \A k \in 1 .. n :
           /\ Level(k - 1) \in Int /\ Level(k) \in Int
           /\ Level(k) = Level(k - 1) + Change(written[k])
           /\ Change(written[k]) \in -1 .. 1
  <2>1. written \in Seq(Tokens)
    BY DEF IInv
  <2>2. QED
    BY <1>1, <2>1, LevelGrows, ChangeIs
<1>3. Change(Coming) \in 0 .. 1 /\ (Coming.kind # "start" => Change(Coming) = 0)
  BY ChangeIs
<1> DEFINE IsEnd(x) == Level(x) = p /\ \A m \in i + 1 .. x - 1 : Level(m) > p
<1>4. \E x \in i + 1 .. n : IsEnd(x)
  <2> DEFINE Low == {j \in i + 1 .. n : Level(j) <= p}
  <2>1. n \in Low
    BY <1>1
  <2>2. PICK j \in Low : \A x \in Low : j <= x
    <3>1. Low \in SUBSET Nat
      OBVIOUS
    <3>2. QED
      BY <2>1, <3>1, LeastElement
  <2>3. j \in i + 1 .. n /\ Level(j) <= p
    OBVIOUS
  <2>4. \A m \in i + 1 .. j - 1 : Level(m) > p
    <3> SUFFICES ASSUME NEW m \in i + 1 .. j - 1
                 PROVE  Level(m) > p
      OBVIOUS
    <3>1. m \notin Low /\ m \in i + 1 .. n /\ Level(m) \in Int
      BY <1>1, <1>2, <2>2, <2>3
    <3>2. QED
      BY <3>1
  <2>5. Level(j) = p
    <3>1. CASE j = i + 1
      BY <1>1, <1>3, <2>3, <3>1
    <3>2. CASE j # i + 1
      <4>1. j - 1 \in i + 1 .. j - 1 /\ j \in 1 .. n
        BY <1>1, <2>3, <3>2
      <4>2. Level(j - 1) > p
        BY <2>4, <4>1
      <4>3. /\ Level(j - 1) \in Int /\ Level(j) \in Int
            /\ Level(j) = Level(j - 1) + Change(written[j])
            /\ Change(written[j]) \in -1 .. 1
        BY <1>2, <4>1
      <4>4. QED
        BY <2>3, <4>2, <4>3
    <3>3. QED
      BY <3>1, <3>2
  <2>6. QED
    BY <2>3, <2>4, <2>5
<1>5. e \in i + 1 .. n /\ IsEnd(e)
  <2>1. \A x \in i + 1 .. n : Open(SubSeq(written, i + 1, x)) = Level(x) - p
    <3>1. i + 1 - 1 = i
      OBVIOUS
    <3>2. \A x \in i + 1 .. n :
            Open(SubSeq(written, i + 1, x)) = Level(x) - Level(i + 1 - 1)
      BY <1>1, <1>2, PartIsLevels
    <3>3. QED
      BY <1>1, <3>1, <3>2
  <2>2. \A x \in i + 1 .. n :
          IsEnd(x) <=> /\ Open(SubSeq(written, i + 1, x)) = 0
                       /\ \A m \in i + 1 .. x - 1 :
                            Open(SubSeq(written, i + 1, m)) > 0
    <3> SUFFICES ASSUME NEW x \in i + 1 .. n
                 PROVE  IsEnd(x) <=> /\ Open(SubSeq(written, i + 1, x)) = 0
                                     /\ \A m \in i + 1 .. x - 1 :
                                          Open(SubSeq(written, i + 1, m)) > 0
      OBVIOUS
    <3>1. /\ Level(x) \in Int
          /\ Open(SubSeq(written, i + 1, x)) = Level(x) - p
      BY <1>1, <1>2, <2>1
    <3>2. \A m \in i + 1 .. x - 1 :
            /\ Level(m) \in Int
            /\ Open(SubSeq(written, i + 1, m)) = Level(m) - p
      BY <1>1, <1>2, <2>1
    <3>3. \A m \in i + 1 .. x - 1 :
            Level(m) > p <=> Open(SubSeq(written, i + 1, m)) > 0
      BY <3>2
    <3>4. QED
      BY <3>1, <3>3
  <2>3. e = CHOOSE x \in i + 1 .. n :
              /\ Open(SubSeq(written, i + 1, x)) = 0
              /\ \A m \in i + 1 .. x - 1 : Open(SubSeq(written, i + 1, m)) > 0
    BY <1>1 DEF EndOf
  <2> HIDE DEF IsEnd
  <2>4. QED
    BY <1>4, <2>2, <2>3
<1>6. e # n
  BY <1>1, <1>5
<1>7. e # i + 1 => Coming.kind = "start"
  <2>1. e # i + 1 => i + 1 \in i + 1 .. e - 1
    BY <1>5
  <2>2. e # i + 1 => Level(i + 1) > p
    BY <1>5, <2>1
  <2>3. QED
    BY <1>1, <1>3, <2>2
<1>8. QED
  BY <1>1, <1>5, <1>6, <1>7

-----------------------------------------------------------------------------
(* Each step keeps the invariant. *)

LEMMA InitOK == Init => IInv
<1> SUFFICES ASSUME Init
             PROVE  IInv
  OBVIOUS
<1>1. written = <<>> /\ stage = "write" /\ passed = 0 /\ given = Nothing
  BY DEF Init
<1>2. Bracketed
  BY <1>1 DEF Bracketed
<1>3. InsideDocument /\ GivenWasWritten
  BY <1>1 DEF InsideDocument, GivenWasWritten
<1>4. QED
  BY <1>1, <1>2, <1>3 DEF IInv

\* The writer: the token before the new one is behind the last of them no more.
LEMMA WriteOK ==
  ASSUME IInv, Write
  PROVE  IInv'
<1>1. PICK token \in Tokens :
        /\ IF written = <<>> THEN token.kind = "start" ELSE Open(written) > 0
        /\ written' = Append(written, token)
  BY DEF Write
<1>2. /\ stage = "write" /\ stage' = "write" /\ passed' = passed /\ given' = given
      /\ intact' = intact
      /\ written \in Seq(Tokens) /\ passed = 0 /\ given = Nothing
      /\ Bracketed
  BY DEF IInv, Write
<1>3. PICK n \in Nat : n = Len(written)
  BY <1>2
<1>4. /\ written' \in Seq(Tokens) /\ Len(written') = n + 1 /\ written' # <<>>
      /\ written'[n + 1] = token
  BY <1>1, <1>2, <1>3
<1>5. \A k \in 0 .. n : Level(k)' = Level(k)
  BY <1>1, <1>2, <1>3, LevelsKept
<1>6. /\ Level(n) \in Int /\ Level(n + 1)' = Level(n) + Change(token)
  <2>1. \A k \in 1 .. n + 1 :
          Level(k - 1)' \in Int /\ Level(k)' = Level(k - 1)' + Change(written'[k])
    <3>1. ASSUME written' \in Seq(Tokens), NEW k \in 1 .. Len(written')
          PROVE  /\ Level(k - 1)' \in Int
                 /\ Level(k)' = Level(k - 1)' + Change(written'[k])
      <4>1. /\ Open(SubSeq(written', 1, k - 1)) \in Int
            /\ Open(SubSeq(written', 1, k)) =
                 Open(SubSeq(written', 1, k - 1)) + Change(written'[k])
        BY <3>1, PartOpens
      <4>2. QED
        BY <4>1, Zenon DEF Level
    <3>2. QED
      BY <1>4, <3>1
  <2>2. n + 1 \in 1 .. n + 1 /\ n + 1 - 1 = n /\ n \in 0 .. n
    OBVIOUS
  <2>3. Level(n)' \in Int /\ Level(n + 1)' = Level(n)' + Change(token)
    BY <1>4, <2>1, <2>2
  <2>4. QED
    BY <1>5, <2>2, <2>3
<1>7. Level(n + 1)' >= 0
  <2>1. CASE written = <<>>
    <3>1. n = 0 /\ Level(n) = 0
      BY <1>2, <1>3, <2>1, LevelOfAll
    <3>2. Change(token) = 1
      BY <1>1, <2>1, ChangeIs
    <3>3. QED
      BY <1>6, <3>1, <3>2
  <2>2. CASE written # <<>>
    <3>1. Level(n) > 0
      BY <1>1, <1>2, <1>3, <2>2, LevelOfAll
    <3>2. Change(token) \in -1 .. 1
      BY ChangeIs
    <3>3. QED
      BY <1>6, <3>1, <3>2
  <2>3. QED
    BY <2>1, <2>2
<1>8. Bracketed'
  <2>1. written'[1].kind = "start"
    <3>1. CASE n = 0
      BY <1>1, <1>2, <1>3, <1>4, <3>1
    <3>2. CASE n # 0
      BY <1>1, <1>2, <1>3, <3>2 DEF Bracketed
    <3>3. QED
      BY <3>1, <3>2
  <2> SUFFICES ASSUME NEW k \in 1 .. n
               PROVE  Level(k)' > 0
    BY <1>4, <2>1 DEF Bracketed
  <2>2. Level(k)' = Level(k)
    BY <1>5
  <2>3. CASE k = n
    BY <1>1, <1>2, <1>3, <2>2, <2>3, LevelOfAll
  <2>4. CASE k # n
    <3>1. k \in 1 .. Len(written) - 1
      BY <1>3, <2>4
    <3>2. Level(k) > 0
      BY <1>2, <3>1 DEF Bracketed
    <3>3. QED
      BY <2>2, <3>2
  <2>5. QED
    BY <2>3, <2>4
<1>9. InsideDocument' /\ GivenWasWritten'
  BY <1>2 DEF InsideDocument, GivenWasWritten, Nothing
<1>10. Level(Len(written))' >= 0
  BY <1>4, <1>7
<1>11. QED
  BY <1>2, <1>4, <1>8, <1>9, <1>10 DEF IInv, Nothing

\* What was written stays: so do the levels.
LEMMA SameText ==
  ASSUME IInv, UNCHANGED written, stage # "write"
  PROVE  /\ written' \in Seq(Tokens) /\ Bracketed' /\ Complete'
         /\ Level(Len(written))' >= 0
         /\ \A k : Level(k)' = Level(k)
<1>1. \A k : Level(k)' = Level(k)
  BY Zenon DEF Level
<1>2. Bracketed' /\ Complete'
  BY <1>1 DEF IInv, Bracketed, Complete
<1>3. Level(Len(written))' >= 0
  BY <1>2 DEF Complete
<1>4. written' \in Seq(Tokens)
  BY DEF IInv
<1>5. QED
  BY <1>1, <1>2, <1>3, <1>4

LEMMA SendOK ==
  ASSUME IInv, Send
  PROVE  IInv'
<1>1. /\ written' = written /\ stage' = "sent" /\ stage = "write"
      /\ passed' = 0 /\ given' = Nothing
      /\ written # <<>> /\ Open(written) = 0 /\ written \in Seq(Tokens) /\ Bracketed
  BY DEF IInv, Send, Nothing
<1>2. \A k : Level(k)' = Level(k)
  BY <1>1, Zenon DEF Level
<1>3. Bracketed'
  BY <1>1, <1>2 DEF Bracketed
<1>4. Complete'
  BY <1>1, <1>2, LevelOfAll DEF Complete
<1>5. Level(Len(written))' >= 0
  BY <1>4 DEF Complete
<1>6. InsideDocument' /\ GivenWasWritten'
  BY <1>1 DEF InsideDocument, GivenWasWritten, Nothing
<1>7. QED
  BY <1>1, <1>3, <1>4, <1>5, <1>6 DEF IInv, Nothing

\* A reader that comes to token k of a complete text is inside a document, or
\* done with it.
LEMMA Inside ==
  ASSUME IInv, stage # "write", NEW k \in 1 .. Len(written)
  PROVE  /\ Level(k) \in Int /\ Level(k) >= 0
         /\ Level(k) = 0 <=> k = Len(written)
<1>1. written \in Seq(Tokens) /\ Bracketed /\ Level(Len(written)) = 0
  BY DEF IInv, Complete
<1>2. Level(k) \in Int
  BY <1>1, LevelGrows
<1>3. k # Len(written) => Level(k) > 0
  BY <1>1 DEF Bracketed
<1>4. QED
  BY <1>1, <1>2, <1>3

LEMMA BeginOK ==
  ASSUME IInv, Begin
  PROVE  IInv'
<1>1. /\ written' = written /\ stage = "sent" /\ stage' = "read" /\ intact'
      /\ passed' = 1 /\ given' = Nothing
      /\ written # <<>> /\ written \in Seq(Tokens)
  BY DEF IInv, Begin, Complete, Nothing
<1>2. /\ written' \in Seq(Tokens) /\ Bracketed' /\ Complete'
      /\ Level(Len(written))' >= 0 /\ \A k : Level(k)' = Level(k)
  BY <1>1, SameText
<1>3. 1 \in 1 .. Len(written) /\ Len(written) \in Nat
  BY <1>1
<1>4. Level(1) = 1
  <2>1. /\ 1 - 1 = 0 /\ Level(1 - 1) = 0
        /\ Level(1) = Level(1 - 1) + Change(written[1])
    BY <1>1, <1>3, LevelGrows
  <2>2. Change(written[1]) = 1
    BY <1>1, ChangeIs DEF IInv, Bracketed
  <2>3. QED
    BY <2>1, <2>2
<1>5. 1 # Len(written)
  <2>1. Level(Len(written)) = 0
    BY <1>1 DEF IInv, Complete
  <2>2. 1 = Len(written) => Level(Len(written)) = Level(1)
    BY Zenon DEF Level
  <2>3. QED
    BY <1>4, <2>1, <2>2
<1>6. InsideDocument'
  <2>1. Level(passed)' = 1
    BY <1>1, <1>4, Zenon DEF Level
  <2>2. Level(passed)' > 0
    BY <2>1
  <2>3. passed' \in 1 .. Len(written') - 1
    <3>1. PICK n \in Nat : n = Len(written) /\ n # 1 /\ n >= 1
      <4>1. PICK n \in Nat : n = Len(written)
        BY <1>3
      <4>2. n # 1
        BY <1>5, <4>1
      <4>3. n >= 1
        BY <1>3, <4>1
      <4>4. QED
        BY <4>1, <4>2, <4>3
    <3>2. 1 \in 1 .. n - 1
      BY <3>1
    <3>3. QED
      BY <1>1, <3>1, <3>2, Zenon
  <2>4. QED
    BY <1>1, <2>2, <2>3 DEF InsideDocument
<1>7. GivenWasWritten'
  BY <1>1 DEF GivenWasWritten, Nothing
<1>8. QED
  BY <1>1, <1>2, <1>6, <1>7 DEF IInv, Nothing

LEMMA RefuseOK ==
  ASSUME IInv, Refuse
  PROVE  IInv'
<1>1. /\ written' = written /\ stage = "sent" /\ stage' = "failed"
      /\ passed' = 0 /\ given' = Nothing
  BY DEF IInv, Refuse, Nothing
<1>2. /\ written' \in Seq(Tokens) /\ Bracketed' /\ Complete'
      /\ Level(Len(written))' >= 0
  BY <1>1, SameText
<1>3. InsideDocument' /\ GivenWasWritten'
  BY <1>1 DEF InsideDocument, GivenWasWritten, Nothing
<1>4. QED
  BY <1>1, <1>2, <1>3 DEF IInv, Nothing

\* A reader that reads on is inside a document wherever it has come to.
LEMMA ReadOn ==
  ASSUME IInv, Reading, stage' = "read", passed' \in 1 .. Len(written) - 1,
         Level(passed') > 0, GivenWasWritten'
  PROVE  IInv'
<1>1. /\ stage = "read" /\ written' = written /\ intact' /\ passed' \in Nat
  BY DEF Reading, IInv, InsideDocument
<1>2. /\ written' \in Seq(Tokens) /\ Bracketed' /\ Complete'
      /\ Level(Len(written))' >= 0
  BY <1>1, SameText
<1>3. Level(passed)' > 0
  BY <1>1, Zenon DEF Level
<1>4. InsideDocument'
  BY <1>1, <1>3 DEF InsideDocument
<1>5. QED
  BY <1>1, <1>2, <1>4 DEF IInv, Nothing

\* One token further, if that does not end a document.
LEMMA OneFurther ==
  ASSUME IInv, Reading, Coming.kind # "end"
  PROVE  passed + 1 \in 1 .. Len(written) - 1 /\ Level(passed + 1) > 0
<1>1. /\ passed \in Nat /\ passed + 1 \in 1 .. Len(written)
      /\ Len(written) \in Nat /\ Level(Len(written)) = 0
      /\ Level(passed) \in Int /\ Level(passed) > 0
      /\ Level(passed + 1) = Level(passed) + Change(Coming)
  BY TokenComes DEF Reading
<1>2. Change(Coming) \in 0 .. 1
  BY ChangeIs
<1>3. Level(passed + 1) > 0
  BY <1>1, <1>2
<1>4. passed + 1 # Len(written)
  BY <1>1, <1>3
<1>5. QED
  BY <1>1, <1>3, <1>4

LEMMA EnterOK ==
  ASSUME IInv, Enter
  PROVE  IInv'
<1>1. /\ Reading /\ Coming.kind = "start" /\ stage' = "read"
      /\ passed' = passed + 1 /\ given' = Nothing
  BY DEF Enter, Reading
<1>2. GivenWasWritten'
  BY <1>1 DEF GivenWasWritten, Nothing
<1>3. QED
  BY <1>1, <1>2, OneFurther, ReadOn

LEMMA TakeOK ==
  ASSUME IInv, Take
  PROVE  IInv'
<1>1. /\ Reading /\ Coming.kind = "item" /\ stage' = "read"
      /\ passed' = passed + 1 /\ written' = written
      /\ given' = [name |-> Coming.name, value |-> Coming.value]
  BY DEF Take, Reading
<1>2. passed' \in 1 .. Len(written) - 1 /\ Level(passed') > 0
  BY <1>1, OneFurther
<1>3. passed' \in DOMAIN written'
  <2>1. written \in Seq(Tokens)
    BY DEF IInv
  <2>2. QED
    BY <1>1, <1>2, <2>1
<1>4. GivenWasWritten'
  BY <1>1, <1>3 DEF GivenWasWritten, Coming
<1>5. QED
  BY <1>1, <1>2, <1>4, ReadOn

LEMMA SkipOK ==
  ASSUME IInv, Skip
  PROVE  IInv'
<1>1. /\ Reading /\ stage = "read" /\ Coming.kind # "end" /\ stage' = "read"
      /\ passed' = EndOf(passed + 1) /\ given' = Nothing
  BY DEF Skip, Reading
<1>2. /\ passed' \in passed + 1 .. Len(written) - 1
      /\ Level(passed') = Level(passed)
  BY <1>1, EndOfIs
<1>3. passed \in Nat /\ Level(passed) > 0 /\ Len(written) \in Nat
  BY <1>1, TokenComes
<1>4. passed' \in 1 .. Len(written) - 1 /\ Level(passed') > 0
  BY <1>2, <1>3
<1>5. GivenWasWritten'
  BY <1>1 DEF GivenWasWritten, Nothing
<1>6. QED
  BY <1>1, <1>4, <1>5, ReadOn

\* The end of a document is the end of all, or it is inside the one around it.
LEMMA EndOK ==
  ASSUME IInv, End
  PROVE  IInv'
<1>1. /\ Reading /\ stage = "read" /\ Coming.kind = "end"
      /\ stage' = (IF passed + 1 = Len(written) THEN "done" ELSE "read")
      /\ passed' = passed + 1 /\ given' = Nothing /\ written' = written
      /\ intact' = intact
  BY DEF End, Reading
<1>2. passed + 1 \in 1 .. Len(written) /\ passed \in Nat /\ Len(written) \in Nat
  BY <1>1, TokenComes
<1>3. /\ Level(passed + 1) \in Int /\ Level(passed + 1) >= 0
      /\ Level(passed + 1) = 0 <=> passed + 1 = Len(written)
  BY <1>1, <1>2, Inside
<1>4. GivenWasWritten'
  BY <1>1 DEF GivenWasWritten, Nothing
<1>5. CASE passed + 1 # Len(written)
  BY <1>1, <1>2, <1>3, <1>4, <1>5, ReadOn
<1>6. CASE passed + 1 = Len(written)
  <2>1. /\ written' \in Seq(Tokens) /\ Bracketed' /\ Complete'
        /\ Level(Len(written))' >= 0
    BY <1>1, SameText
  <2>2. Level(passed)' = 0
    BY <1>1, <1>3, <1>6, Zenon DEF Level
  <2>3. InsideDocument'
    BY <1>1, <1>6, <2>2 DEF InsideDocument, IInv
  <2>4. QED
    BY <1>1, <1>2, <1>4, <1>6, <2>1, <2>3 DEF IInv
<1>7. QED
  BY <1>5, <1>6

LEMMA LoseOK ==
  ASSUME IInv, Lose
  PROVE  IInv'
<1>1. /\ written' = written /\ stage \in {"sent", "read"} /\ stage' = "lost"
      /\ passed' = 0 /\ given' = Nothing
  BY DEF Lose
<1>2. /\ written' \in Seq(Tokens) /\ Bracketed' /\ Complete'
      /\ Level(Len(written))' >= 0
  BY <1>1, SameText
<1>3. InsideDocument' /\ GivenWasWritten'
  BY <1>1 DEF InsideDocument, GivenWasWritten, Nothing
<1>4. QED
  BY <1>1, <1>2, <1>3 DEF IInv, Nothing

LEMMA StutterOK ==
  ASSUME IInv, UNCHANGED vars
  PROVE  IInv'
<1>1. /\ written' = written /\ stage' = stage /\ intact' = intact
      /\ passed' = passed /\ given' = given
  BY DEF vars
<1>2. \A k : Level(k)' = Level(k)
  BY <1>1, Zenon DEF Level
<1>3. Level(passed)' = Level(passed)
  BY <1>1, Zenon DEF Level
<1>4. Bracketed' /\ (Complete' <=> Complete)
  BY <1>1, <1>2 DEF IInv, Bracketed, Complete
<1>5. InsideDocument'
  BY <1>1, <1>3 DEF IInv, InsideDocument
<1>6. GivenWasWritten'
  BY <1>1 DEF IInv, GivenWasWritten, Nothing
<1>7. QED
  BY <1>1, <1>2, <1>4, <1>5, <1>6 DEF IInv, Nothing

LEMMA NextOK ==
  ASSUME IInv, [Next]_vars
  PROVE  IInv'
<1>1. \/ Write \/ Send \/ Begin \/ Refuse \/ Enter \/ Take \/ Skip \/ End \/ Lose
      \/ UNCHANGED vars
  BY DEF Next
<1>2. QED
  BY <1>1, WriteOK, SendOK, BeginOK, RefuseOK, EnterOK, TakeOK, SkipOK, EndOK,
     LoseOK, StutterOK, Zenon

-----------------------------------------------------------------------------
(* What holds of every behaviour. *)

LEMMA Invariant == Spec => []IInv
<1>1. QED
  BY InitOK, NextOK, PTL DEF Spec

\* A reader of any codec that keeps the contract is inside a document as long
\* as it reads, and done at the very end of what was written (the loops of
\* codec.hpp:126-165 and vref/entity.hpp:53-70).
THEOREM ReaderStaysInside == Spec => []InsideDocument
<1>1. IInv => InsideDocument
  BY DEF IInv
<1>2. QED
  BY <1>1, Invariant, PTL

\* What a reader was given is the value that was written where it has come to
\* (get, codec.hpp:50-57).
THEOREM ReaderIsGivenWhatWasWritten == Spec => []GivenWasWritten
<1>1. IInv => GivenWasWritten
  BY DEF IInv
<1>2. QED
  BY <1>1, Invariant, PTL

\* A step of the reader passes one token or one whole document (skip,
\* codec.hpp:48).
THEOREM ReaderPassesOneValue == Spec => PassesOneValue
<1>1. IInv /\ [Next]_vars => [PassesOne]_vars
  <2> SUFFICES ASSUME IInv, Next, stage = "read", passed' # passed + 1,
                      stage' \in {"read", "done"}
               PROVE  /\ Coming.kind = "start"
                      /\ passed' \in passed + 2 .. Len(written)
                      /\ Level(passed') = Level(passed)
                      /\ \A k \in passed + 1 .. passed' - 1 :
                           Level(k) > Level(passed)
    BY DEF PassesOne
  <2>1. Skip
    BY DEF Next, Write, Send, Begin, Refuse, Enter, Take, End, Lose
  <2>2. Coming.kind # "end" /\ passed' = EndOf(passed + 1)
    BY <2>1 DEF Skip
  <2>3. /\ passed' \in passed + 1 .. Len(written) - 1
        /\ Level(passed') = Level(passed)
        /\ \A k \in passed + 1 .. passed' - 1 : Level(k) > Level(passed)
        /\ Coming.kind = "start"
    BY <2>2, EndOfIs
  <2>4. passed \in Nat /\ Len(written) \in Nat
    BY TokenComes
  <2>5. passed' \in passed + 2 .. Len(written)
    BY <2>3, <2>4
  <2>6. QED
    BY <2>3, <2>5
<1>2. QED
  BY <1>1, Invariant, PTL DEF Spec, PassesOneValue
=============================================================================
