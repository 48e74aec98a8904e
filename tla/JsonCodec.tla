----------------------------- MODULE JsonCodec -----------------------------
(***************************************************************************)
(* The JSON codec (json.hpp) symbol by symbol: a text is written through   *)
(* the codec's calls, or by another program that lays it out and comments  *)
(* it in its own way, then validated and read back by the loops of         *)
(* codec.hpp and of the vrefs, which take or skip each value.              *)
(*                                                                         *)
(* A text is a sequence of symbols: one per character, except that the     *)
(* characters of a number, of true and of null are not told apart and may  *)
(* be one symbol.  Positions are offsets as in the C++ code: the symbol at *)
(* offset p of text is text[p + 1].                                        *)
(***************************************************************************)
EXTENDS Integers, Sequences, FiniteSets, SequencesExt

CONSTANTS
  Names,      \* keys, as symbols
  Strings,    \* contents of strings, as symbols
  Words,      \* numbers, true, false and null, as symbols
  Styles,     \* layouts: a gap put between tokens, a comma before an end, or
              \* prettyjson's lines
  MaxValues   \* bound: values in a text, objects and arrays included

ASSUME MaxValuesAssumption == MaxValues \in Nat

Quote      == "\""
Escape     == "\\"
Whitespace == {" ", "\t", "\n", "\r", ","}

VARIABLES
  phase,    \* "write", "sent", "read", "done" or "error"
  style,    \* the layout of the text, one of Styles
  text,     \* the symbols written so far
  loops,    \* the callers' open documents: closing symbol, number of items
  events,   \* what has been written and where (history)
  i,        \* the position of the reader
  open,     \* the closing symbols of the reader's open documents
  cursor,   \* the event the reader should come to next (history)
  got,      \* the value it has just taken, or <<>> (history)
  lost      \* it has skipped a document whose comments skip() misreads

writer == <<style, text, loops, events>>
reader == <<i, open, cursor, got, lost>>
vars   == <<phase, writer, reader>>

Opening(close) == IF close = "}" THEN "{" ELSE "["

-----------------------------------------------------------------------------
(* Writing. *)

\* What item() of a string writes for the characters it escapes.
EscapeOf ==
  [c \in {Quote, Escape, "\t", "\n", "\r", "\f", "BS"} |->
     <<Escape,
       CASE c = "\t" -> "t" [] c = "\n" -> "n" [] c = "\r" -> "r"
         [] c = "\f" -> "f" [] c = "BS" -> "b" [] OTHER -> c>>]

Escaped(content) ==
  FlattenSeq([k \in DOMAIN content |->
                IF content[k] \in DOMAIN EscapeOf
                THEN EscapeOf[content[k]] ELSE <<content[k]>>])

\* A value to write: a string's content or a word.
Str(content) == [kind |-> "string", value |-> content]
Word(w)      == [kind |-> "word", value |-> w]
Values       == {Str(s) : s \in Strings} \union {Word(w) : w \in Words}

Encoded(v) ==
  IF v.kind = "word" THEN v.value ELSE <<Quote>> \o Escaped(v.value) \o <<Quote>>

\* What comes before a value or an end: in prettyjson the line ends and the
\* next one is indented.
Gap(depth) ==
  IF style.pretty THEN <<"\n">> \o [k \in 1 .. 2 * depth |-> " "] ELSE style.gap

\* write_name: the key as it is, and nothing when it is empty.
WrittenName(name) ==
  IF name = <<>> THEN <<>>
  ELSE <<Quote>> \o name \o <<Quote>> \o style.gap \o <<":">>
         \o (IF style.pretty THEN <<" ">> ELSE style.gap)

\* Array items have no name.
MemberNames == IF Last(loops).close = "]" THEN {<<>>} ELSE Names

\* What is written before a value: separator() after the one before it, which
\* is not the last, then the name.
Lead(name) ==
  (IF Last(loops).items > 0 THEN <<",">> ELSE <<>>) \o Gap(Len(loops))
    \o WrittenName(name)

Event(kind, name, value, at, last) ==
  [kind |-> kind, name |-> name, value |-> value,
   at |-> at, last |-> last, depth |-> Len(loops)]

OneMore == [loops EXCEPT ![Len(loops)].items = @ + 1]

MoreValues ==
  Cardinality({k \in DOMAIN events : events[k].kind # "end"}) < MaxValues

WriterStep == phase = "write" /\ UNCHANGED <<phase, style, reader>>

\* encode of a top-level entity, map, vector or tree.
WriteTop ==
  /\ WriterStep
  /\ events = <<>>
  /\ \E close \in {"}", "]"} :
       /\ text' = style.gap \o <<Opening(close)>>
       /\ events' = <<Event("start", <<>>, <<>>, Len(style.gap), Len(style.gap))>>
       /\ loops' = <<[close |-> close, items |-> 0]>>

\* object_start and array_start within a document.
WriteDocument ==
  /\ WriterStep
  /\ loops # <<>>
  /\ MoreValues
  /\ \E close \in {"}", "]"}, name \in MemberNames :
       LET at == Len(text \o Lead(name))
       IN  /\ text' = text \o Lead(name) \o <<Opening(close)>>
           /\ events' = Append(events, Event("start", name, <<>>, at, at))
           /\ loops' = Append(OneMore, [close |-> close, items |-> 0])

WriteItem ==
  /\ WriterStep
  /\ loops # <<>>
  /\ MoreValues
  /\ \E v \in Values, name \in MemberNames :
       LET before == text \o Lead(name)
       IN  /\ text' = before \o Encoded(v)
           /\ events' = Append(events,
                          Event("item", name, v, Len(before), Len(text') - 1))
  /\ loops' = OneMore

\* object_end and array_end.
WriteEnd ==
  /\ WriterStep
  /\ loops # <<>>
  /\ LET comma  == IF style.trailing /\ Last(loops).items > 0 THEN <<",">> ELSE <<>>
         before == text \o comma \o Gap(Len(loops) - 1)
     IN  /\ text' = before \o <<Last(loops).close>>
         /\ events' = Append(events,
                        Event("end", <<>>, <<>>, Len(before), Len(before)))
  /\ loops' = Front(loops)

-----------------------------------------------------------------------------
(* Scanning. *)

Size == Len(text)
At(p) == text[p + 1]

\* Where a loop stops: at the first of these positions, if there is one.
First(stops, none) ==
  IF stops = {} THEN none ELSE CHOOSE e \in stops : \A f \in stops : e <= f

\* skip_comment at the symbol after the slash: to the end of the line, or to
\* the slash that ends the comment.  An error is -1.
SkipComment(p) ==
  LET LineEnds  == {e \in p + 1 .. Size - 1 : At(e) \in {"\n", "\r"}}
      BlockEnds == {e \in p + 2 .. Size - 1 : At(e - 1) = "*" /\ At(e) = "/"}
  IN  CASE At(p) = "/" -> First(LineEnds, Size)
        [] At(p) = "*" -> First(BlockEnds, IF p + 1 < Size THEN Size - 1 ELSE Size)
        [] OTHER -> -1

\* skip_whitespace: the position of the next symbol that counts.
SkipWhitespace(p) ==
  LET skip[q \in Nat] ==
        IF q >= Size THEN q
        ELSE IF At(q) \in Whitespace THEN skip[q + 1]
        ELSE IF At(q) # "/" THEN q
        ELSE IF q + 1 = Size THEN Size
        ELSE IF SkipComment(q + 1) = -1 THEN -1
        ELSE skip[SkipComment(q + 1) + 1]
  IN  skip[p]

\* Where validate has got to: in a string or not, behind a backslash there or
\* not, and the closing symbols of the levels that are open.
Checks ==
  [at : Nat, quotes : BOOLEAN, ignore : BOOLEAN, levels : Seq({"}", "]"})]

Check(p, quotes, ignore, levels) ==
  [at |-> p, quotes |-> quotes, ignore |-> ignore, levels |-> levels]

\* validate: whether what is left of the text closes the levels that are open.
Balanced[s \in Checks] ==
  LET p == IF s.quotes THEN s.at ELSE SkipWhitespace(s.at)
  IN  IF p = -1 THEN FALSE
      ELSE IF p >= Size THEN s.levels = <<>>
      ELSE IF ~ s.quotes /\ At(p) \in {"}", "]"}
      THEN /\ s.levels # <<>> /\ Last(s.levels) = At(p)
           /\ Balanced[Check(p + 1, FALSE, FALSE, Front(s.levels))]
      ELSE LET q == IF At(p) = Quote /\ ~ s.ignore THEN ~ s.quotes ELSE s.quotes
               l == CASE At(p) = "{" /\ ~ s.quotes -> Append(s.levels, "}")
                      [] At(p) = "[" /\ ~ s.quotes -> Append(s.levels, "]")
                      [] OTHER -> s.levels
           IN  Balanced[Check(p + 1, q, q /\ At(p) = Escape, l)]

Validate == Balanced[Check(0, FALSE, FALSE, <<>>)]

\* The first position from p on with one of these symbols, or Size.
FirstOf(symbols, p) == First({e \in p .. Size - 1 : At(e) \in symbols}, Size)

\* parse_key: the position of the closing quote.
KeyEnd(p) == FirstOf({Quote}, p + 1)

\* parse_string: likewise, without the quotes that follow a backslash.
StringEnd(p) ==
  First({e \in p + 1 .. Size - 1 :
           At(e) = Quote /\ (e > p + 1 => At(e - 1) # Escape)}, Size)

\* Mutant of WordEnd: does not jump back to the last symbol of the word.
WordEndPast(p) == FirstOf(Whitespace \union {"}", "]", "/"}, p + 1)

\* Mutant of WordEnd: a comment may not follow at once.
WordEndInComment(p) == FirstOf(Whitespace \union {"}", "]"}, p + 1) - 1

\* parse_item: the position of the last symbol of the word.
WordEnd(p) == FirstOf(Whitespace \union {"}", "]", "/"}, p + 1) - 1

\* Where skip has got to in a document: how many braces of its kind are open,
\* and whether it is in a string or behind a backslash there.
Counts == [at : Nat, count : Int, quotes : BOOLEAN, ignore : BOOLEAN]

Count(p, count, quotes, ignore) ==
  [at |-> p, count |-> count, quotes |-> quotes, ignore |-> ignore]

\* skip of a document at p: counts braces outside of quotes up to the one that
\* closes it.  Comments are not looked for.
DocumentEnd(p, close) ==
  LET end[s \in Counts] ==
        IF s.at >= Size THEN s.at
        ELSE IF At(s.at) \in Whitespace
        THEN end[Count(s.at + 1, s.count, s.quotes, s.ignore)]
        ELSE LET c == IF s.quotes THEN s.count
                      ELSE IF At(s.at) = Opening(close) THEN s.count + 1
                      ELSE IF At(s.at) = close THEN s.count - 1 ELSE s.count
                 q == IF At(s.at) = Quote /\ ~ s.ignore THEN ~ s.quotes ELSE s.quotes
             IN  IF c = 0 THEN s.at
                 ELSE end[Count(s.at + 1, c, q, q /\ At(s.at) = Escape)]
  IN  end[Count(p + 1, 1, FALSE, FALSE)]

\* skip: the position of the last symbol of the value at p.
SkipEnd(p) ==
  CASE At(p) = "{"   -> DocumentEnd(p, "}")
    [] At(p) = "["   -> DocumentEnd(p, "]")
    [] At(p) = Quote -> StringEnd(p)
    [] OTHER         -> WordEnd(p)

\* get of a string: what follows a backslash stands for something else.
MeaningOf(c) ==
  CASE c = "t" -> <<"\t">> [] c = "n" -> <<"\n">>
    [] c = "r" -> <<"\r">> [] c = "f" -> <<"\f">>
    [] c = "b" -> <<"BS">> [] c = "u" -> <<Escape, "u">>
    [] c \in {Quote, Escape} -> <<c>>
    [] OTHER -> <<>>

Unescaped(s) ==
  LET from[k \in Nat \ {0}] ==
        IF k > Len(s) THEN <<>>
        ELSE IF s[k] # Escape THEN <<s[k]>> \o from[k + 1]
        ELSE IF k = Len(s) THEN <<>>
        ELSE MeaningOf(s[k + 1]) \o from[k + 2]
  IN  from[1]

-----------------------------------------------------------------------------
(* Reading. *)

\* Where the event with number k ends: itself, or the end of its document.
EndOf(k) ==
  IF events[k].kind = "item" THEN k
  ELSE CHOOSE e \in k + 1 .. Len(events) :
         /\ events[e].kind = "end" /\ events[e].depth = events[k].depth + 1
         /\ \A m \in k + 1 .. e - 1 : events[m].depth > events[k].depth + 1
                                        \/ events[m].kind # "end"

Deliver ==
  /\ phase = "write"
  /\ events # <<>> /\ loops = <<>>
  /\ phase' = "sent"
  /\ UNCHANGED <<writer, reader>>

\* Mutant of ReadTop: the document is read without being entered.
ReadTopUnopened ==
  /\ phase = "sent"
  /\ Validate
  /\ phase' = "read"
  /\ i' = SkipWhitespace(0)
  /\ cursor' = 2
  /\ UNCHANGED <<writer, open, got, lost>>

\* decode validates the text and enters the top-level document.
ReadTop ==
  /\ phase = "sent"
  /\ Validate
  /\ At(SkipWhitespace(0)) \in {"{", "["}
  /\ phase' = "read"
  /\ i' = SkipWhitespace(0)
  /\ open' = <<IF At(i') = "{" THEN "}" ELSE "]">>
  /\ cursor' = 2
  /\ UNCHANGED <<writer, got, lost>>

(***************************************************************************)
(* One round of a reader's loop: item() finds the end of the object or a   *)
(* key, a colon and the start of a value, array_item() the end or a value; *)
(* then the value is taken, entered or skipped.                            *)
(***************************************************************************)
InObject == Last(open) = "}"
NextAt    == SkipWhitespace(i + 1)

AtEnd ==
  /\ phase = "read"
  /\ LET next == NextAt
     IN  next # -1 /\ (next < Size => At(next) = Last(open))

\* Where the value of the next item starts, or -1 where there is none.
ValueAt ==
  LET next  == NextAt
      colon == SkipWhitespace(KeyEnd(next) + 1)
      value == SkipWhitespace(colon + 1)
  IN  IF phase # "read" \/ next = -1 \/ next >= Size \/ At(next) = Last(open)
      THEN -1
      ELSE IF ~ InObject THEN next
      ELSE IF At(next) # Quote \/ colon = -1 \/ colon >= Size \/ At(colon) # ":"
              \/ value >= Size
      THEN -1 ELSE value

AtItem == ValueAt # -1

\* Mutant of KeyRead: the key keeps its opening quote.
KeyReadQuoted ==
  IF ~ InObject THEN <<>>
  ELSE LET next == NextAt IN SubSeq(text, next + 1, KeyEnd(next))

KeyRead ==
  IF ~ InObject THEN <<>>
  ELSE LET next == NextAt IN SubSeq(text, next + 2, KeyEnd(next))

\* The end of the object or array, or of the text.
ReadEnd ==
  /\ AtEnd
  /\ i' = NextAt
  /\ open' = Front(open)
  /\ phase' = IF Len(open) = 1 THEN "done" ELSE "read"
  /\ cursor' = cursor + 1
  /\ got' = <<>>
  /\ UNCHANGED <<writer, lost>>

TakeString ==
  /\ AtItem
  /\ LET at == ValueAt
     IN  /\ At(at) = Quote
         /\ i' = StringEnd(at)
         /\ got' = [name  |-> KeyRead,
                    value |-> Str(Unescaped(SubSeq(text, at + 2, i')))]
  /\ cursor' = cursor + 1
  /\ UNCHANGED <<phase, writer, open, lost>>

\* A number, true, false or null.
WordAt(p)   == At(p) \notin {"{", "[", "}", Quote}
WordRead(p) == SubSeq(text, p + 1, WordEnd(p) + 1)

TakeWord ==
  /\ AtItem
  /\ LET at == ValueAt
     IN  /\ WordAt(at) /\ WordRead(at) \in Words
         /\ i' = WordEnd(at)
         /\ got' = [name |-> KeyRead, value |-> Word(WordRead(at))]
  /\ cursor' = cursor + 1
  /\ UNCHANGED <<phase, writer, open, lost>>

\* is_null at a value.
IsNull(p) == At(p) = "null"

\* A pointer is cleared, and the null skipped.
TakeNull ==
  /\ AtItem
  /\ LET at == ValueAt
     IN  /\ IsNull(at)
         /\ i' = SkipEnd(at)
         /\ got' = [name |-> KeyRead, value |-> Word(<<"null">>)]
  /\ cursor' = cursor + 1
  /\ UNCHANGED <<phase, writer, open, lost>>

\* Mutant of TakeDocument: the position is not handed on to the inner loop.
TakeDocumentFromHere ==
  /\ AtItem
  /\ At(ValueAt) \in {"{", "["}
  /\ i' = i
  /\ open' = Append(open, IF At(ValueAt) = "{" THEN "}" ELSE "]")
  /\ cursor' = cursor + 1
  /\ got' = <<>>
  /\ UNCHANGED <<phase, writer, lost>>

TakeDocument ==
  /\ AtItem
  /\ i' = ValueAt
  /\ At(i') \in {"{", "["}
  /\ open' = Append(open, IF At(i') = "{" THEN "}" ELSE "]")
  /\ cursor' = cursor + 1
  /\ got' = <<>>
  /\ UNCHANGED <<phase, writer, lost>>

\* The comments of this layout hold braces or quotes.
MisleadingGap ==
  \E k \in DOMAIN style.gap : style.gap[k] \in {"{", "}", "[", "]", Quote}

\* The entity has no such member, or one of another type.
SkipValue ==
  /\ AtItem
  /\ LET at == ValueAt
     IN  /\ i' = SkipEnd(at)
         /\ lost' = (lost \/ (At(at) \in {"{", "["} /\ MisleadingGap))
  /\ cursor' = IF lost' THEN cursor ELSE EndOf(cursor) + 1
  /\ got' = <<>>
  /\ UNCHANGED <<phase, writer, open>>

\* error() throws, and decode is left with what it has read so far.
ReadError ==
  /\ \/ phase = "sent" /\ ~ Validate
     \/ phase = "read" /\ ~ AtEnd /\ ~ AtItem
     \/ /\ AtItem
        /\ LET at == ValueAt
           IN  At(at) = "}" \/ (WordAt(at) /\ WordRead(at) \notin Words)
  /\ phase' = "error"
  /\ UNCHANGED <<writer, reader>>

-----------------------------------------------------------------------------
Init ==
  /\ phase = "write"
  /\ style \in Styles
  /\ text = <<>> /\ loops = <<>> /\ events = <<>>
  /\ i = 0 /\ open = <<>> /\ cursor = 1 /\ got = <<>> /\ lost = FALSE

Next ==
  \/ WriteTop \/ WriteDocument \/ WriteItem \/ WriteEnd
  \/ Deliver
  \/ ReadTop \/ ReadEnd \/ TakeString \/ TakeWord \/ TakeNull
  \/ TakeDocument \/ SkipValue
  \/ ReadError

Spec == Init /\ [][Next]_vars

-----------------------------------------------------------------------------
(* Properties. *)

\* Positions and stacks are what the code keeps in them.
TypeOK ==
  /\ phase \in {"write", "sent", "read", "done", "error"}
  /\ style \in Styles
  /\ \A k \in DOMAIN loops :
       loops[k].close \in {"}", "]"} /\ loops[k].items \in Nat
  /\ \A k \in DOMAIN open : open[k] \in {"}", "]"}
  /\ phase = "read" => open # <<>>
  /\ i \in Nat /\ (~ lost => i <= Size)
  /\ cursor \in Nat /\ lost \in BOOLEAN

(***************************************************************************)
(* The reader stays in step with the writer: after each round it is at the *)
(* last symbol of the very value it has taken or skipped, what it takes is *)
(* what was written, its escapes undone, and at the end it has come to the *)
(* last brace (json.hpp:48-67, 137-196, 250-287, 308-441).  Only a         *)
(* document whose comments skip() misreads is excepted.                    *)
(***************************************************************************)
InStep ==
  ~ lost =>
    /\ phase = "read" => i = events[cursor - 1].last
    /\ phase = "done" => cursor = Len(events) + 1 /\ i = Size - 1
    /\ got # <<>> => got = [name  |-> events[cursor - 1].name,
                            value |-> events[cursor - 1].value]

(***************************************************************************)
(* Whatever is written is accepted: validate and the reader throw nothing  *)
(* for a text that was written properly, however it is laid out.           *)
(***************************************************************************)
NoFalseError == phase = "error" => lost

(***************************************************************************)
(* Each round of the reader takes it past at least one symbol, also after  *)
(* it has lost its place: decode of a valid text always ends.              *)
(***************************************************************************)
ReaderAdvances == [][phase = "read" /\ phase' = "read" => i' > i]_vars

\* The text as the loops see it.
TokenOf(e) ==
  [kind |-> e.kind, name |-> e.name, value |-> e.value,
   fragile |-> e.kind = "start" /\ MisleadingGap]

Tokens ==
  {[kind |-> kind, name |-> name, value |-> value, fragile |-> fragile] :
     kind \in {"start", "item", "end"}, name \in Names \union {<<>>},
     value \in Values \union {<<>>}, fragile \in BOOLEAN}

Contract ==
  INSTANCE CodecContract WITH
    stage   <- CASE lost -> "lost"
                 [] ~ lost /\ phase = "error" -> "failed"
                 [] OTHER -> phase,
    written <- [k \in DOMAIN events |-> TokenOf(events[k])],
    intact  <- TRUE,
    passed  <- IF lost THEN 0 ELSE cursor - 1,
    given   <- IF lost THEN <<>> ELSE got

(***************************************************************************)
(* The codec keeps the contract of codec.hpp, in every layout: whatever is *)
(* taken, entered or skipped, the loops are given the tokens that were     *)
(* written, in their order, with their keys and with the values that went  *)
(* in, and no text is refused.                                             *)
(***************************************************************************)
KeepsContract == Contract!Spec

(***************************************************************************)
(* What the comment at json.hpp:109-110 says, "If a backslash is found     *)
(* within a string then ignore the next character in case it is a quote":  *)
(* validate finds the end of every string that item() writes.  It does not *)
(* when the string ends in an escaped backslash, for that one is taken for *)
(* an escape, too.                                                         *)
(***************************************************************************)
ValidateAccepts == phase = "sent" => Validate

(***************************************************************************)
(* What test json.cpp:241, "empty keys are permitted", says: a value with  *)
(* an empty key is written with that key.  The code writes no key at all.  *)
(***************************************************************************)
KeysWritten ==
  \A k \in DOMAIN events :
    LET InDocument(m) == /\ m < k
                         /\ events[m].kind = "start"
                         /\ events[m].depth = events[k].depth - 1
        container == CHOOSE m \in DOMAIN events :
                       /\ InDocument(m)
                       /\ \A n \in DOMAIN events : InDocument(n) => n <= m
    IN  /\ style.gap = <<>>
        /\ events[k].kind # "end" /\ events[k].depth > 0
        /\ At(events[container].at) = "{"
        => At(events[k].at - 1) = ":"
=============================================================================
