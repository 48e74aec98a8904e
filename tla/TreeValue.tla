----------------------------- MODULE TreeValue -----------------------------
(***************************************************************************)
(* The dynamic value of libentity, class tree (tree.hpp), as a value: what *)
(* it converts to, what it equals, how it differs from another             *)
(* (utilities/compare.hpp), and what a codec makes of it and from it       *)
(* (codec.hpp).                                                            *)
(*                                                                         *)
(* Numbers are scaled down.  An int32_t holds -Int32Max - 1 .. Int32Max,   *)
(* a double every integer up to DoubleExact and every other one beyond     *)
(* that.  Doubles are counted in halves.  An ostream gives six digits of a *)
(* double: all up to PrintExact, the nearest integer from there on, and    *)
(* from ExponentFrom (a million) on an exponent, with every other integer  *)
(* in its reach.  Zero has one sign, since both are written as "0".        *)
(***************************************************************************)
EXTENDS Integers, Sequences, FiniteSets, SequencesExt, Functions, Base64

CONSTANTS
  Names,         \* the names of members, in the order of std::map
  Int32Max,      \* the greatest int32_t
  DoubleExact,   \* the greatest integer up to which doubles have them all
  PrintExact,    \* the greatest double, in halves, that is written exactly
  ExponentFrom,  \* the least double, in halves, that is written with an exponent
  IndexNames     \* the names of array items in BSON, the first of them first

ASSUME NamesAssumption == IsInjective(Names)
ASSUME WidthsAssumption ==
  /\ Int32Max \in Nat /\ DoubleExact \in Nat /\ PrintExact \in Nat
  /\ DoubleExact % 4 = 0 /\ PrintExact % 4 = 0 /\ Int32Max + 1 < DoubleExact
  /\ ExponentFrom \in Nat \ {0} /\ ExponentFrom % 4 = 0 /\ PrintExact <= ExponentFrom
ASSUME IndexNamesAssumption == IsInjective(IndexNames) /\ Range(IndexNames) \subseteq Range(Names)

Ordered(names) == SelectSeq(Names, LAMBDA n : n \in names)

-----------------------------------------------------------------------------
(***************************************************************************)
(* A tree.  leaf is the container that leaf points to: <<>> for none, or   *)
(* what the container is made for, which the program does not remember,    *)
(* and its value, which is a sequence of numbers: the number itself,       *)
(* characters, bytes, 0 or 1; a double that is no number has none.  The    *)
(* container of an Array is empty here, and items are what it holds.       *)
(***************************************************************************)
Types == {"Null", "String", "Integer", "Floating", "Boolean", "Binary",
          "Array", "Object"}

NoChildren == [n \in {} |-> 0]

Leaf(type, value) ==
  [type |-> type, leaf |-> <<type, value>>, items |-> <<>>, children |-> NoChildren]

ArrayTree(items)   == [Leaf("Array", <<>>) EXCEPT !.items = items]
ObjectTree(children) ==
  [type |-> "Object", leaf |-> <<>>, items |-> <<>>, children |-> children]

EmptyTree == ObjectTree(NoChildren)
NullTree  == [EmptyTree EXCEPT !.type = "Null"]

IntegerTree(n) == Leaf("Integer", <<n>>)
NaN            == <<>>

\* tree::set: what was there under this name is replaced.
SetChild(t, name, child) ==
  [t EXCEPT !.children =
     [n \in DOMAIN @ \union {name} |-> IF n = name THEN child ELSE @[n]]]

Kind(t)  == t.leaf[1]
Value(t) == t.leaf[2]

-----------------------------------------------------------------------------
(* Numbers. *)

Int32 == -Int32Max - 1 .. Int32Max

\* The low bits: what a cast to int, or an enum, keeps of an int64_t.
Narrowed(n) ==
  ((n + Int32Max + 1) % (2 * Int32Max + 2)) - Int32Max - 1

\* The nearest of the numbers that are all there up to exact, and every other
\* one beyond; of two as near, the one whose last bit is 0.
Nearest(n, exact) ==
  IF n \in -exact .. exact \/ n % 2 = 0 THEN n
  ELSE IF (n + 1) % 4 = 0 THEN n + 1 ELSE n - 1

ToDouble(n)   == <<2 * Nearest(n, DoubleExact)>>
Exponential(h) == Nearest(h, PrintExact) \notin 1 - ExponentFrom .. ExponentFrom - 1
Printed(h)    == IF Exponential(h) THEN 2 * Nearest(Nearest(h, PrintExact) \div 2, 0)
                 ELSE Nearest(h, PrintExact)
Truncated(h)  == IF h >= 0 THEN h \div 2 ELSE -((-h) \div 2)
\* The digits before the point of a number written with an exponent, if it is
\* less than ten times ExponentFrom: all that stoi and stoll read of it.
Leading(h)    == IF h >= 0 THEN h \div ExponentFrom ELSE -((-h) \div ExponentFrom)
\* lrint: the nearest integer, the even one of two.
RoundedInt(h) == IF h % 2 = 0 THEN h \div 2
                 ELSE IF (h \div 2) % 2 = 0 THEN h \div 2 ELSE h \div 2 + 1

\* std::to_string of an integer of one digit, and stol: a sign and digits up to
\* the first other character, <<>> when there are none.
Text(n) == IF n < 0 THEN <<45, 48 - n>> ELSE <<48 + n>>

ParsedInt(s) ==
  LET signed == s # <<>> /\ s[1] = 45
      first  == IF signed THEN 2 ELSE 1
      digits == {k \in first .. Len(s) : \A m \in first .. k : s[m] \in 48 .. 57}
      number == FoldLeft(LAMBDA v, c : 10 * v + c - 48, 0,
                         SubSeq(s, first, first + Cardinality(digits) - 1))
  IN  IF digits = {} THEN <<>> ELSE <<IF signed THEN -number ELSE number>>

True == <<116, 114, 117, 101>>

-----------------------------------------------------------------------------
(* Conversions.  The defaults are those that as() and the codecs pass. *)

AsLong(t) ==
  IF t.leaf = <<>> THEN 0
  ELSE CASE t.type = "String"  -> (ParsedInt(Value(t)) \o <<0>>)[1]
         [] t.type \in {"Integer", "Boolean"} -> Value(t)[1]
         [] t.type = "Floating" -> RoundedInt(Value(t)[1])
         [] OTHER -> 0

\* Mutant of AsDouble: by way of as_long.
AsDoubleByLong(t) == IF t.leaf # <<>> /\ Value(t) = NaN THEN NaN ELSE ToDouble(AsLong(t))

AsDouble(t) ==
  IF t.leaf = <<>> THEN <<0>>
  ELSE CASE t.type = "String"  -> ToDouble((ParsedInt(Value(t)) \o <<0>>)[1])
         [] t.type \in {"Integer", "Boolean"} -> ToDouble(Value(t)[1])
         [] t.type = "Floating" -> Value(t)
         [] OTHER -> <<0>>

AsBool(t) ==
  /\ t.leaf # <<>>
  /\ CASE t.type = "String" -> Value(t) = True
       [] t.type \in {"Integer", "Floating", "Boolean"} ->
            Value(t) # NaN /\ Value(t)[1] > 0
       [] OTHER -> FALSE

AsString(t) ==
  IF t.leaf = <<>> THEN <<>>
  ELSE CASE t.type = "String"  -> Value(t)
         [] t.type = "Integer" -> Text(Value(t)[1])
         [] t.type = "Floating" ->
              Text(Truncated(Value(t)[1]))
                \o <<46, IF Value(t)[1] % 2 = 0 THEN 48 ELSE 53, 48, 48, 48, 48, 48>>
         [] t.type = "Boolean" ->
              IF Value(t)[1] = 1 THEN True ELSE <<102, 97, 108, 115, 101>>
         [] t.type = "Binary"  -> Encoded(Value(t))
         [] OTHER -> <<>>

\* as_binary throws for a string that is not base64.
BinaryThrows(t) == t.type = "String" /\ Undecodable(Value(t))

AsBinary(t) ==
  CASE t.type = "Binary" -> Value(t)
    [] t.type = "String" -> Decoded(Value(t))
    [] OTHER -> <<>>

\* as_array: what is no array gives the vector that is static there, to which a
\* client may have added.
AsArray(t, static) == IF t.type = "Array" THEN t.items ELSE static

Numeric(t) == t.type \in {"Integer", "Floating"}

\* == on doubles.
SameDouble(a, b) == a # NaN /\ a = b

-----------------------------------------------------------------------------
(* operator==, whose operands are this and v. *)

RECURSIVE Equal(_, _)

EqualItems(a, b) ==
  Len(a) = Len(b) /\ \A k \in DOMAIN a : Equal(a[k], b[k])

EqualChildren(a, b) ==
  DOMAIN a = DOMAIN b /\ \A n \in DOMAIN a : Equal(a[n], b[n])

\* container::compare of v's leaf.
EqualLeaves(this, v) ==
  CASE this.type = "Array"    -> EqualItems(v.items, this.items)
    [] this.type = "Floating" -> SameDouble(Value(this), Value(v))
    [] OTHER -> Value(this) = Value(v)

\* Mutant of Equal: a number is compared with whatever converts to it.
EqualOneSided(this, v) ==
  IF this.type # v.type
  THEN Numeric(this) /\ SameDouble(AsDouble(this), AsDouble(v))
  ELSE \/ this.type = "Null"
       \/ this.leaf # <<>> /\ v.leaf # <<>> /\ EqualLeaves(this, v)
       \/ this.leaf = <<>> /\ EqualChildren(this.children, v.children)

Equal(this, v) ==
  IF this.type # v.type
  THEN Numeric(this) /\ Numeric(v) /\ SameDouble(AsDouble(this), AsDouble(v))
  ELSE \/ this.type = "Null"
       \/ this.leaf # <<>> /\ v.leaf # <<>> /\ EqualLeaves(this, v)
       \/ this.leaf = <<>> /\ EqualChildren(this.children, v.children)

-----------------------------------------------------------------------------
(* compare::trees: the differences, in the order of the names.  static is what
   as_array's static vector holds. *)

Diff(level, before, after) == [level |-> level, before |-> before, after |-> after]

RECURSIVE Recurse(_, _, _, _)

\* Mutant of DiffOf: within an object its name is forgotten.
DiffOfFlat(level, name, before, after, static) ==
  CASE before.type = "Object" -> Recurse(level, before, after, static)
    [] before.type = "Array"
       /\ EqualItems(AsArray(before, static), AsArray(after, static)) -> <<>>
    [] before.type \notin {"Array", "Object"} /\ Equal(before, after) -> <<>>
    [] OTHER -> <<Diff(Append(level, name), before, after)>>

DiffOf(level, name, before, after, static) ==
  CASE before.type = "Object" -> Recurse(Append(level, name), before, after, static)
    [] before.type = "Array"
       /\ EqualItems(AsArray(before, static), AsArray(after, static)) -> <<>>
    [] before.type \notin {"Array", "Object"} /\ Equal(before, after) -> <<>>
    [] OTHER -> <<Diff(Append(level, name), before, after)>>

Recurse(level, original, updated, static) ==
  FoldLeft(LAMBDA changes, name :
             changes \o DiffOf(level, name, original.children[name],
                               updated.children[name], static),
           <<>>,
           Ordered(DOMAIN original.children \intersect DOMAIN updated.children))

Diffs(original, updated, static) == Recurse(<<>>, original, updated, static)

-----------------------------------------------------------------------------
(***************************************************************************)
(* What a codec writes for a tree and makes of a document.  A document is  *)
(* what is between the braces: for each value its type, its leaf, its      *)
(* items, and its members in their order, which may repeat a name.  JSON   *)
(* has no Binary, and no Long for the integers that only 64 bits hold; it  *)
(* has numbers with an Exponent instead, which are doubles to all readers. *)
(***************************************************************************)
Doc(type, leaf) == [type |-> type, leaf |-> leaf, items |-> <<>>, members |-> <<>>]
ArrayDoc(items)    == [Doc("Array", <<>>) EXCEPT !.items = items]
ObjectDoc(members) == [Doc("Object", <<>>) EXCEPT !.members = members]
Member(name, value) == [name |-> name, value |-> value]

NullDoc == Doc("Null", <<>>)

\* bson::object_start without a type, as for the outermost document, takes an
\* array for an object whose members are the items, by their indices.
ItemsAsMembers(d) ==
  ObjectDoc([k \in DOMAIN d.items |-> Member(IndexNames[k], d.items[k])])

\* Mutant of IntegerDoc: BSON gets 32 bits of every integer.
IntegerDocNarrow(codec, n) ==
  Doc("Integer", <<IF codec = "bson" THEN Narrowed(n) ELSE n>>)

\* Mutant of DoubleDoc: doubles are written with a point.
DoubleDocPointed(codec, h) ==
  CASE codec = "bson" -> Doc("Floating", h)
    [] codec = "json" /\ h = NaN -> NullDoc
    [] OTHER -> Doc("Floating", <<Printed(h[1])>>)

\* item(int64_t), item(double) and item(vector<uint8_t>) of the codecs.
IntegerDoc(codec, n) ==
  Doc(IF codec = "bson" /\ n \notin Int32 THEN "Long" ELSE "Integer", <<n>>)

DoubleDoc(codec, h) ==
  CASE codec = "bson" -> Doc("Floating", h)
    [] codec = "json" /\ h = NaN -> NullDoc
    [] codec = "json" /\ h # NaN /\ Exponential(h[1]) -> Doc("Exponent", <<Printed(h[1])>>)
    [] codec = "json" /\ h # NaN /\ ~ Exponential(h[1]) /\ Printed(h[1]) % 2 = 0 ->
         Doc("Integer", <<Printed(h[1]) \div 2>>)
    [] OTHER -> Doc("Floating", <<Printed(h[1])>>)

BinaryDoc(codec, bytes) ==
  IF codec = "bson" THEN Doc("Binary", bytes) ELSE Doc("String", Encoded(bytes))

RECURSIVE TreeToDoc(_, _)

\* codec::item, object and array of a tree.
TreeToDoc(codec, t) ==
  CASE t.type = "Null"     -> NullDoc
    [] t.type = "String"   -> Doc("String", AsString(t))
    [] t.type = "Integer"  -> IntegerDoc(codec, AsLong(t))
    [] t.type = "Floating" -> DoubleDoc(codec, AsDouble(t))
    [] t.type = "Boolean"  -> Doc("Boolean", <<IF AsBool(t) THEN 1 ELSE 0>>)
    [] t.type = "Binary"   -> BinaryDoc(codec, AsBinary(t))
    [] t.type = "Array"    ->
         ArrayDoc([k \in DOMAIN t.items |-> TreeToDoc(codec, t.items[k])])
    [] t.type = "Object"   ->
         LET names == Ordered(DOMAIN t.children)
         IN  ObjectDoc([k \in DOMAIN names |->
                          Member(names[k], TreeToDoc(codec, t.children[names[k]]))])

RECURSIVE DocToTree(_)

\* item, object and array of a document.  What BSON does not support gives an
\* empty tree.
DocToTree(d) ==
  CASE d.type = "Null" -> NullTree
    [] d.type \in {"String", "Floating", "Boolean", "Binary", "Integer"} ->
         Leaf(d.type, d.leaf)
    [] d.type = "Long"     -> Leaf("Integer", d.leaf)
    [] d.type = "Exponent" -> Leaf("Floating", d.leaf)
    [] d.type = "Array" -> ArrayTree([k \in DOMAIN d.items |-> DocToTree(d.items[k])])
    [] d.type = "Object" ->
         FoldLeft(LAMBDA t, m : SetChild(t, m.name, DocToTree(m.value)),
                  EmptyTree, d.members)
    [] OTHER -> EmptyTree
=============================================================================
