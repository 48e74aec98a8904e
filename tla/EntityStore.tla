---------------------------- MODULE EntityStore ----------------------------
(***************************************************************************)
(* What decode, from_tree and modify leave in the client's objects, and    *)
(* what encode and to_tree make of them (vref/*.hpp).  A client has one    *)
(* entity and the objects its smart pointers lead to; it decodes documents *)
(* into it, fills it from trees, modifies it, and moves its pointers.      *)
(*                                                                         *)
(* The recursion over members and elements is one step here: PointerWalk   *)
(* has its steps.  A document is what the codec's loops see of the text:   *)
(* BsonCodec and JsonCodec have the text.                                  *)
(***************************************************************************)
EXTENDS TreeValue

CONSTANTS
  Classes,      \* the entity classes: a base class or "", and the items that
                \* each maps, with their types
  InitialHeaps, \* what the client starts with
  Documents,    \* the documents decoded into an entity, by its class
  MaxSteps      \* bound: how many calls the client makes

(***************************************************************************)
(* The kinds of vref.  of is the type of the elements, or what a pointer   *)
(* points to; the kind "const" is any type behind a const reference.       *)
(***************************************************************************)
Simple(kind)    == [kind |-> kind]
Enum            == [kind |-> "enum"]
FilePath        == [kind |-> "path"]
Dynamic         == [kind |-> "tree"]
Entity(class)   == [kind |-> "entity", class |-> class]
VectorOf(of)    == [kind |-> "vector", of |-> of]
ArrayOf(of, n)  == [kind |-> "array", of |-> of, size |-> n]
MapOf(of)       == [kind |-> "map", of |-> of]
SetOf(of)       == [kind |-> "set", of |-> of]
PointerTo(of)   == [kind |-> "pointer", of |-> of]
Const(of)       == [kind |-> "const", of |-> of]

(***************************************************************************)
(* A class and its mapping: ent_map lists the items by the names it gives  *)
(* them, ent_map_terse by their own.  ent_merge inserts them into the      *)
(* mapping of the base class, which keeps what it has.                     *)
(***************************************************************************)
Mapped(items)       == [base |-> "", items |-> items]
Terse(items)        == Mapped(items)
Merged(base, items) == [base |-> base, items |-> items]

RECURSIVE Mapping(_)

Mapping(class) ==
  LET items == Classes[class].items
  IN  IF Classes[class].base = "" THEN items ELSE Mapping(Classes[class].base) @@ items

Mappings     == [class \in DOMAIN Classes |-> Mapping(class)]
Members(T)   == Mappings[T.class]
NamesOf(T)   == Ordered(DOMAIN Members(T))
Texts        == {"string", "path"}
Lists        == {"vector", "array", "set"}

VARIABLES
  heap,   \* the objects: type and value of each; the client's entity is 1
  last,   \* how the last call ended: "ok", "throw", ...
  steps   \* how many calls there have been

vars == <<heap, last, steps>>

-----------------------------------------------------------------------------
(***************************************************************************)
(* Places.  A reference is a path: an object, its value, and from there    *)
(* the names and indices of members and elements.  A pointer is the number *)
(* of an object, or 0.                                                     *)
(***************************************************************************)
Null == 0

Object(a) == <<a, "value">>

RECURSIVE At(_, _)

At(v, place) == IF place = <<>> THEN v ELSE At(v[Head(place)], Tail(place))

RECURSIVE Put(_, _, _)

Put(v, place, x) ==
  IF place = <<>> THEN x
  ELSE [v EXCEPT ![Head(place)] = Put(@, Tail(place), x)]

RECURSIVE Default(_)

\* T(): what make_pointer, a new element and item[name] hold.
Default(T) ==
  CASE T.kind \in {"int", "long", "enum", "bool", "double"} -> <<0>>
    [] T.kind = "tree"   -> EmptyTree
    [] T.kind = "entity" ->
         FoldSet(LAMBDA n, v : (n :> Default(Members(T)[n])) @@ v,
                 NoChildren, DOMAIN Members(T))
    [] T.kind = "array"  ->
         FoldSet(LAMBDA k, v : Append(v, Default(T.of)), <<>>, 1 .. T.size)
    [] T.kind = "map"    -> NoChildren
    [] T.kind = "set"    -> {}
    [] T.kind = "pointer" -> Null
    [] T.kind = "const"  -> Default(T.of)
    [] OTHER -> <<>>

New(T) == [type |-> T, value |-> Default(T)]

(***************************************************************************)
(* A call under way: the objects, and how it ends: "ok"; "throw"; "full",  *)
(* the stack overflows; "lost", the codec has lost its place and nothing   *)
(* is certain about what it reads from there on; "undefined", the code's   *)
(* behaviour is.  Of a lost call these are the objects when it was lost.   *)
(***************************************************************************)
Call(h) == [heap |-> h, out |-> "ok"]
Ended(c, out) == [c EXCEPT !.out = out]
Store(c, place, x) == [c EXCEPT !.heap = Put(@, place, x)]
Allocated(c, T) == [c EXCEPT !.heap = Append(@, New(T))]

\* A loop, left by the first round that does not end well.
Loop(Round(_, _), c, seq) ==
  FoldLeft(LAMBDA d, x : IF d.out = "ok" THEN Round(d, x) ELSE d, c, seq)

Indices(seq) == [k \in DOMAIN seq |-> k]

-----------------------------------------------------------------------------
(* Reading the objects: is_circular, encode and to_tree. *)

Compound == Lists \union {"entity", "map"}

\* What the loops over members, entries and elements come to, in order.
MembersIn(T, v) ==
  [k \in DOMAIN NamesOf(T) |->
     LET n == NamesOf(T)[k] IN [type |-> Members(T)[n], name |-> n, value |-> v[n]]]

EntriesIn(T, v) ==
  [k \in DOMAIN Ordered(DOMAIN v) |->
     LET n == Ordered(DOMAIN v)[k] IN [type |-> T.of, name |-> n, value |-> v[n]]]

ElementsIn(T, v) == [k \in DOMAIN v |-> [type |-> T.of, value |-> v[k]]]

SetItemsIn(T, v) == SetToSeq({[type |-> T.of, value |-> x] : x \in v})

Parts(T, v) ==
  CASE T.kind = "entity" -> MembersIn(T, v)
    [] T.kind = "map"    -> EntriesIn(T, v)
    [] T.kind = "set"    -> SetItemsIn(T, v)
    [] OTHER             -> ElementsIn(T, v)

RECURSIVE IsCircular(_, _, _, _, _)

\* any_of: the first part that is not clear decides.
AnyCircular(h, parts, ancestor, depth) ==
  FoldLeft(LAMBDA found, p :
             IF found = "no" THEN IsCircular(h, p.type, p.value, ancestor, depth)
             ELSE found,
           "no", parts)

EntityCircular(h, T, v, ancestor, depth) ==
  AnyCircular(h, MembersIn(T, v), ancestor, depth)

MapCircular(h, T, v, ancestor, depth) ==
  AnyCircular(h, EntriesIn(T, v), ancestor, depth)

VectorCircular(h, T, v, ancestor, depth) ==
  AnyCircular(h, ElementsIn(T, v), ancestor, depth)

ArrayCircular(h, T, v, ancestor, depth) ==
  AnyCircular(h, ElementsIn(T, v), ancestor, depth)

SetCircular(h, T, v, ancestor, depth) ==
  AnyCircular(h, SetItemsIn(T, v), ancestor, depth)

PointerCircular(h, T, v, ancestor, depth) ==
  CASE v = Null     -> "no"
    [] v = ancestor -> "yes"
    [] v \notin {Null, ancestor} /\ depth = 0 -> "full"
    [] OTHER -> IsCircular(h, T.of, h[v].value, ancestor, depth - 1)

\* Whether there is a way from the value v of type T back to the object
\* ancestor: "yes", "no" or, when it comes deeper than depth, "full".
IsCircular(h, T, v, ancestor, depth) ==
  CASE T.kind = "pointer" -> PointerCircular(h, T, v, ancestor, depth)
    [] T.kind = "entity"  -> EntityCircular(h, T, v, ancestor, depth)
    [] T.kind = "map"     -> MapCircular(h, T, v, ancestor, depth)
    [] T.kind = "vector"  -> VectorCircular(h, T, v, ancestor, depth)
    [] T.kind = "array"   -> ArrayCircular(h, T, v, ancestor, depth)
    [] T.kind = "set"     -> SetCircular(h, T, v, ancestor, depth)
    [] T.kind = "const"   -> IsCircular(h, T.of, v, ancestor, depth)
    [] OTHER -> "no"

\* is_circular(*item, item.get()): any deeper, and it has come to an object for
\* the second time, and will again.
Circular(h, a) == IsCircular(h, h[a].type, h[a].value, a, Len(h))

Outcome == [no |-> "ok", yes |-> "throw", full |-> "full"]

RECURSIVE WalkEnds(_, _, _, _)

\* to_tree and modify come back: no way through pointers is longer than depth.
WalkEnds(h, T, v, depth) ==
  CASE T.kind = "pointer" ->
         v # Null => depth > 0 /\ WalkEnds(h, T.of, h[v].value, depth - 1)
    [] T.kind = "const"   -> WalkEnds(h, T.of, v, depth)
    [] T.kind \in Compound ->
         \A k \in DOMAIN Parts(T, v) :
           WalkEnds(h, Parts(T, v)[k].type, Parts(T, v)[k].value, depth)
    [] OTHER -> TRUE

RECURSIVE EncodeOut(_, _, _)

\* How encode ends: every pointer is checked before it is followed.
EncodeOut(h, T, v) ==
  CASE T.kind = "pointer" /\ v = Null -> "ok"
    [] T.kind = "pointer" /\ v # Null ->
         IF Circular(h, v) = "no" THEN EncodeOut(h, T.of, h[v].value)
         ELSE Outcome[Circular(h, v)]
    [] T.kind = "const" -> EncodeOut(h, T.of, v)
    [] T.kind \in Compound ->
         FoldLeft(LAMBDA out, p : IF out = "ok" THEN EncodeOut(h, p.type, p.value)
                                  ELSE out,
                  "ok", Parts(T, v))
    [] OTHER -> "ok"

RECURSIVE Encode(_, _, _, _)

EncodeNamed(codec, h, parts) ==
  ObjectDoc([k \in DOMAIN parts |->
               Member(parts[k].name, Encode(codec, h, parts[k].type, parts[k].value))])

EncodeListed(codec, h, parts) ==
  ArrayDoc([k \in DOMAIN parts |-> Encode(codec, h, parts[k].type, parts[k].value)])

EncodeEntity(codec, h, T, v) == EncodeNamed(codec, h, MembersIn(T, v))
EncodeMap(codec, h, T, v)    == EncodeNamed(codec, h, EntriesIn(T, v))
EncodeVector(codec, h, T, v) == EncodeListed(codec, h, ElementsIn(T, v))
EncodeArray(codec, h, T, v)  == EncodeListed(codec, h, ElementsIn(T, v))
EncodeSet(codec, h, T, v)    == EncodeListed(codec, h, SetItemsIn(T, v))

EncodeSimple(codec, T, v) ==
  CASE T.kind \in {"int", "long"} -> IntegerDoc(codec, v[1])
    [] T.kind = "bool"   -> Doc("Boolean", v)
    [] T.kind = "double" -> DoubleDoc(codec, v)
    [] T.kind = "string" -> Doc("String", v)
    [] T.kind = "binary" -> BinaryDoc(codec, v)

EncodeEnum(codec, v)    == IntegerDoc(codec, v[1])
EncodePath(v)           == Doc("String", v)
EncodeDynamic(codec, v) == TreeToDoc(codec, v)

EncodePointer(codec, h, T, v) ==
  IF v = Null THEN NullDoc ELSE Encode(codec, h, T.of, h[v].value)

\* The document that encode writes, when it comes to its end.
Encode(codec, h, T, v) ==
  CASE T.kind = "entity"  -> EncodeEntity(codec, h, T, v)
    [] T.kind = "map"     -> EncodeMap(codec, h, T, v)
    [] T.kind = "vector"  -> EncodeVector(codec, h, T, v)
    [] T.kind = "array"   -> EncodeArray(codec, h, T, v)
    [] T.kind = "set"     -> EncodeSet(codec, h, T, v)
    [] T.kind = "pointer" -> EncodePointer(codec, h, T, v)
    [] T.kind = "const"   -> Encode(codec, h, T.of, v)
    [] T.kind = "enum"    -> EncodeEnum(codec, v)
    [] T.kind = "path"    -> EncodePath(v)
    [] T.kind = "tree"    -> EncodeDynamic(codec, v)
    [] OTHER              -> EncodeSimple(codec, T, v)

RECURSIVE ToTree(_, _, _)

TreeOfNamed(h, parts) ==
  FoldLeft(LAMBDA t, p : SetChild(t, p.name, ToTree(h, p.type, p.value)),
           EmptyTree, parts)

TreeOfListed(h, parts) ==
  ArrayTree([k \in DOMAIN parts |-> ToTree(h, parts[k].type, parts[k].value)])

TreeOfEntity(h, T, v) == TreeOfNamed(h, MembersIn(T, v))
TreeOfMap(h, T, v)    == TreeOfNamed(h, EntriesIn(T, v))
TreeOfVector(h, T, v) == TreeOfListed(h, ElementsIn(T, v))
TreeOfArray(h, T, v)  == TreeOfListed(h, ElementsIn(T, v))
TreeOfSet(h, T, v)    == TreeOfListed(h, SetItemsIn(T, v))

TreeOfPointer(h, T, v) ==
  IF v = Null THEN NullTree ELSE ToTree(h, T.of, h[v].value)

TreeOfSimple(T, v) ==
  CASE T.kind \in {"int", "long"} -> Leaf("Integer", v)
    [] T.kind = "bool"   -> Leaf("Boolean", v)
    [] T.kind = "double" -> Leaf("Floating", v)
    [] T.kind = "string" -> Leaf("String", v)
    [] T.kind = "binary" -> Leaf("Binary", v)

ToTree(h, T, v) ==
  CASE T.kind = "entity"  -> TreeOfEntity(h, T, v)
    [] T.kind = "map"     -> TreeOfMap(h, T, v)
    [] T.kind = "vector"  -> TreeOfVector(h, T, v)
    [] T.kind = "array"   -> TreeOfArray(h, T, v)
    [] T.kind = "set"     -> TreeOfSet(h, T, v)
    [] T.kind = "pointer" -> TreeOfPointer(h, T, v)
    [] T.kind = "const"   -> ToTree(h, T.of, v)
    [] T.kind = "enum"    -> Leaf("Integer", v)
    [] T.kind = "path"    -> Leaf("String", v)
    [] T.kind = "tree"    -> v
    [] OTHER              -> TreeOfSimple(T, v)

-----------------------------------------------------------------------------
(* Decoding. *)

\* BSON's skip() measures these types wrongly (BsonCodec!Mismeasured).
Skipped(codec, c, d) ==
  IF codec = "bson" /\ d.type \in {"String", "Binary"} THEN Ended(c, "lost") ELSE c

\* Mutant of BsonTypes: a long is read from a long only.
BsonTypesStrict ==
  [bool |-> {"Boolean"}, int |-> {"Integer"}, long |-> {"Long"},
   double |-> {"Floating"}, string |-> {"String"}, binary |-> {"Binary"}]

\* The types of value that get() takes as they are, by what it is asked for.
BsonTypes ==
  [bool |-> {"Boolean"}, int |-> {"Integer"}, long |-> {"Integer", "Long"},
   double |-> {"Floating"}, string |-> {"String"}, binary |-> {"Binary"}]

\* bson::get: any other value is skipped and gives T().
BsonGet(c, place, T, d) ==
  IF d.type \in BsonTypes[T.kind] THEN Store(c, place, d.leaf)
  ELSE Skipped("bson", Store(c, place, Default(T)), d)

Numbers == {"Integer", "Floating", "Exponent"}

\* The digits that the text of a number starts with: all that stoi, stoll read.
Digits(d) ==
  CASE d.type = "Integer"  -> d.leaf[1]
    [] d.type = "Floating" -> Truncated(d.leaf[1])
    [] d.type = "Exponent" -> Leading(d.leaf[1])

\* Mutant of Parsed: every integer is read as a long, and cut to size unchecked.
ParsedUnchecked(T, d) ==
  CASE T.kind = "double" /\ d.type = "Integer" -> <<ToDouble(d.leaf[1])>>
    [] T.kind = "double" /\ d.type \in {"Floating", "Exponent"} -> <<d.leaf>>
    [] T.kind \in {"int", "long"} /\ d.type \in Numbers -> <<<<Digits(d)>>>>
    [] OTHER -> <<>>

\* What stoi, stoll and stod make of a number, <<>> when they throw.
Parsed(T, d) ==
  CASE T.kind = "double" /\ d.type = "Integer" -> <<ToDouble(d.leaf[1])>>
    [] T.kind = "double" /\ d.type \in {"Floating", "Exponent"} -> <<d.leaf>>
    [] T.kind \in {"int", "long"} /\ d.type \in Numbers ->
         IF T.kind = "long" \/ Digits(d) \in Int32 THEN <<<<Digits(d)>>>> ELSE <<>>
    [] OTHER -> <<>>

(***************************************************************************)
(* json::get: numbers and flags skip documents and strings and give T(),   *)
(* but throw for words that are no numbers; texts skip all but strings.    *)
(***************************************************************************)
JsonGet(c, place, T, d) ==
  CASE T.kind = "string" ->
         Store(c, place, IF d.type = "String" THEN d.leaf ELSE <<>>)
    [] T.kind = "binary" ->
         CASE d.type # "String"   -> Store(c, place, <<>>)
           [] d.type = "String" /\ Undecodable(d.leaf) -> Ended(c, "throw")
           [] OTHER -> Store(c, place, Decoded(d.leaf))
    [] T.kind \notin {"string", "binary"}
       /\ d.type \in {"String", "Array", "Object"} -> Store(c, place, Default(T))
    [] T.kind = "bool" /\ d.type \notin {"String", "Array", "Object"} ->
         Store(c, place, IF d.type = "Boolean" THEN d.leaf ELSE <<0>>)
    [] OTHER ->
         IF Parsed(T, d) = <<>> THEN Ended(c, "throw")
         ELSE Store(c, place, Parsed(T, d)[1])

Get(codec, c, place, T, d) ==
  IF codec = "json" THEN JsonGet(c, place, T, d) ELSE BsonGet(c, place, T, d)

\* The new element that was made for this call joins the others.
Inserted(c, place, child) ==
  Store(c, place, Append(At(c.heap, place), At(c.heap, child)))

Added(c, place, child) ==
  Store(c, place, At(c.heap, place) \union {At(c.heap, child)})

RECURSIVE Bracketed(_)

\* The text of this value holds a closing bracket, or what looks like the
\* start of a comment.
Bracketed(d) ==
  \/ d.type = "Array"
  \/ d.type = "Object" /\ \E k \in DOMAIN d.members : Bracketed(d.members[k].value)
  \/ d.type = "String" /\ \E k \in DOMAIN d.leaf : d.leaf[k] \in {93, 47}

\* Items beyond the size of an array are neither read nor skipped: in BSON the
\* reader is then inside of them, in JSON it stops at the first bracket.
Overrun(codec, c, items) ==
  IF \E k \in DOMAIN items :
       IF codec = "bson" THEN items[k].type # "Null" ELSE Bracketed(items[k])
  THEN Ended(c, "lost") ELSE c

RECURSIVE Decode(_, _, _, _, _)

\* The place of the next object that is made.
Fresh(c) == Object(Len(c.heap) + 1)

Joined(c, place, child) ==
  IF c.out = "ok" THEN Inserted(c, place, child) ELSE c

Admitted(c, place, child) ==
  IF c.out = "ok" THEN Added(c, place, child) ELSE c

DecodeEntity(codec, c, place, T, d) ==
  IF d.type # "Object" THEN Skipped(codec, c, d)
  ELSE Loop(LAMBDA e, m :
              IF m.name \in DOMAIN Members(T)
              THEN Decode(codec, e, Append(place, m.name), Members(T)[m.name], m.value)
              ELSE Skipped(codec, e, m.value),
            c, d.members)

\* Mutant of DecodeVector: whatever is there, elements are added.
DecodeVectorAppends(codec, c, place, T, d, length) ==
  IF d.type # "Array" THEN Skipped(codec, c, d)
  ELSE Loop(LAMBDA e, k :
              Joined(Decode(codec, Allocated(e, T.of), Fresh(e), T.of, d.items[k]),
                     place, Fresh(e)),
            c, Indices(d.items))

\* Mutant of DecodeVector: one new element is made for all of them.
DecodeVectorOneChild(codec, c, place, T, d, length) ==
  IF d.type # "Array" THEN Skipped(codec, c, d)
  ELSE LET child == Fresh(c)
       IN  Loop(LAMBDA e, k :
                  IF k <= length
                  THEN Decode(codec, e, Append(place, k), T.of, d.items[k])
                  ELSE Joined(Decode(codec, e, child, T.of, d.items[k]), place, child),
                Allocated(c, T.of), Indices(d.items))

\* Elements that are there are decoded in place, others made and then added.
DecodeVector(codec, c, place, T, d, length) ==
  IF d.type # "Array" THEN Skipped(codec, c, d)
  ELSE Loop(LAMBDA e, k :
              IF k <= length
              THEN Decode(codec, e, Append(place, k), T.of, d.items[k])
              ELSE Joined(Decode(codec, Allocated(e, T.of), Fresh(e), T.of, d.items[k]),
                          place, Fresh(e)),
            c, Indices(d.items))

DecodeArray(codec, c, place, T, d) ==
  IF d.type # "Array" THEN Skipped(codec, c, d)
  ELSE Loop(LAMBDA e, k :
              IF k <= T.size
              THEN Decode(codec, e, Append(place, k), T.of, d.items[k])
              ELSE Overrun(codec, e, <<d.items[k]>>),
            c, Indices(d.items))

\* item[name] is there before it is decoded into.
WithKey(c, place, T, name) ==
  Store(c, place, At(c.heap, place) @@ (name :> Default(T.of)))

DecodeMap(codec, c, place, T, d) ==
  IF d.type # "Object" THEN Skipped(codec, c, d)
  ELSE Loop(LAMBDA e, m :
              Decode(codec, WithKey(e, place, T, m.name), Append(place, m.name),
                     T.of, m.value),
            c, d.members)

\* A set is cleared whatever comes, and each item is made anew.
DecodeSet(codec, c, place, T, d) ==
  IF d.type # "Array" THEN Skipped(codec, Store(c, place, {}), d)
  ELSE Loop(LAMBDA e, k :
              Admitted(Decode(codec, Allocated(e, T.of), Fresh(e), T.of, d.items[k]),
                       place, Fresh(e)),
            Store(c, place, {}), Indices(d.items))

\* Follow the pointer at place, to what it points to or to a new object.
Followed(c, place, T) ==
  IF At(c.heap, place) = Null
  THEN Allocated(Store(c, place, Len(c.heap) + 1), T.of)
  ELSE Ended(c, Outcome[Circular(c.heap, At(c.heap, place))])

DecodeInto(codec, c, place, T, d) ==
  IF c.out # "ok" THEN c
  ELSE Decode(codec, c, Object(At(c.heap, place)), T.of, d)

DecodePointer(codec, c, place, T, d) ==
  IF d.type = "Null" THEN Store(c, place, Null)
  ELSE DecodeInto(codec, Followed(c, place, T), place, T, d)

\* An enum is got as an int, a path as a string.
DecodeEnum(codec, c, place, d) == Get(codec, c, place, Simple("int"), d)
DecodePath(codec, c, place, d) == Get(codec, c, place, Simple("string"), d)
DecodeDynamic(c, place, d)     == Store(c, place, DocToTree(d))

Decode(codec, c, place, T, d) ==
  CASE T.kind = "entity"  -> DecodeEntity(codec, c, place, T, d)
    [] T.kind = "vector"  ->
         DecodeVector(codec, c, place, T, d, Len(At(c.heap, place)))
    [] T.kind = "array"   -> DecodeArray(codec, c, place, T, d)
    [] T.kind = "map"     -> DecodeMap(codec, c, place, T, d)
    [] T.kind = "set"     -> DecodeSet(codec, c, place, T, d)
    [] T.kind = "pointer" -> DecodePointer(codec, c, place, T, d)
    [] T.kind = "const"   -> Skipped(codec, c, d)
    [] T.kind = "enum"    -> DecodeEnum(codec, c, place, d)
    [] T.kind = "path"    -> DecodePath(codec, c, place, d)
    [] T.kind = "tree"    -> DecodeDynamic(c, place, d)
    [] OTHER              -> Get(codec, c, place, T, d)

-----------------------------------------------------------------------------
(* from_tree. *)

(***************************************************************************)
(* tree::as: whatever the tree holds is converted.  Both branches of its   *)
(* ?: are doubles, so that every integer goes through a double, and one    *)
(* that then does not fit into an int is undefined behaviour.              *)
(***************************************************************************)
As(c, place, T, t) ==
  CASE T.kind = "bool"   -> Store(c, place, <<IF AsBool(t) THEN 1 ELSE 0>>)
    [] T.kind = "double" -> Store(c, place, AsDouble(t))
    [] T.kind = "long"   -> Store(c, place, <<Nearest(AsLong(t), DoubleExact)>>)
    [] T.kind = "int"    ->
         IF AsLong(t) \in Int32 THEN Store(c, place, <<AsLong(t)>>)
         ELSE Ended(c, "undefined")
    [] T.kind = "string" -> Store(c, place, AsString(t))
    [] T.kind = "binary" ->
         IF BinaryThrows(t) THEN Ended(c, "throw") ELSE Store(c, place, AsBinary(t))

RECURSIVE FromTree(_, _, _, _)

\* Mutant of FillEntity: a child that is not there is an empty one.
FillEntityAll(c, place, T, t) ==
  Loop(LAMBDA e, n :
         FromTree(e, Append(place, n), Members(T)[n],
                  IF n \in DOMAIN t.children THEN t.children[n] ELSE EmptyTree),
       c, NamesOf(T))

FillEntity(c, place, T, t) ==
  Loop(LAMBDA e, n :
         IF n \in DOMAIN t.children
         THEN FromTree(e, Append(place, n), Members(T)[n], t.children[n]) ELSE e,
       c, NamesOf(T))

FillVector(c, place, T, items, length) ==
  Loop(LAMBDA e, k :
         IF k <= length THEN FromTree(e, Append(place, k), T.of, items[k])
         ELSE Joined(FromTree(Allocated(e, T.of), Fresh(e), T.of, items[k]),
                     place, Fresh(e)),
       c, Indices(items))

FillArray(c, place, T, items) ==
  Loop(LAMBDA e, k :
         IF k <= T.size THEN FromTree(e, Append(place, k), T.of, items[k]) ELSE e,
       c, Indices(items))

FillMap(c, place, T, children) ==
  Loop(LAMBDA e, n :
         FromTree(WithKey(e, place, T, n), Append(place, n), T.of, children[n]),
       c, Ordered(DOMAIN children))

\* The one child that is made is filled from every item in turn.
FillSet(c, place, T, items, child) ==
  Loop(LAMBDA e, k :
         Admitted(FromTree(e, child, T.of, items[k]), place, child),
       Allocated(Store(c, place, {}), T.of), Indices(items))

FillInto(c, place, T, t) ==
  IF c.out # "ok" THEN c
  ELSE FromTree(c, Object(At(c.heap, place)), T.of, t)

\* Mutant of FillPointer: a null leaves the pointer as it is.
FillPointerKeeps(c, place, T, t) ==
  IF t.type = "Null" THEN c
  ELSE FillInto(Followed(c, place, T), place, T, t)

FillPointer(c, place, T, t) ==
  IF t.type = "Null" THEN Store(c, place, Null)
  ELSE FillInto(Followed(c, place, T), place, T, t)

FillSimple(c, place, T, t) == As(c, place, T, t)
FillEnum(c, place, t)    == Store(c, place, <<Narrowed(AsLong(t))>>)
FillPath(c, place, t)    == Store(c, place, AsString(t))
FillDynamic(c, place, t) == Store(c, place, t)

\* No container asks what is no array for its items.
ItemsOf(t) == IF t.type = "Array" THEN t.items ELSE <<>>

FromTree(c, place, T, t) ==
  CASE T.kind = "entity"  -> FillEntity(c, place, T, t)
    [] T.kind = "vector"  -> FillVector(c, place, T, ItemsOf(t), Len(At(c.heap, place)))
    [] T.kind = "array"   -> FillArray(c, place, T, ItemsOf(t))
    [] T.kind = "map"     -> FillMap(c, place, T, t.children)
    [] T.kind = "set"     -> FillSet(c, place, T, ItemsOf(t), Fresh(c))
    [] T.kind = "pointer" -> FillPointer(c, place, T, t)
    [] T.kind = "const"   -> c
    [] T.kind = "enum"    -> FillEnum(c, place, t)
    [] T.kind = "path"    -> FillPath(c, place, t)
    [] T.kind = "tree"    -> FillDynamic(c, place, t)
    [] OTHER              -> FillSimple(c, place, T, t)

-----------------------------------------------------------------------------
(***************************************************************************)
(* modify, with a modifier that inverts the bits of ints.  A careful one   *)
(* asks any_ref::is first, a careless one calls any_ref::cast at once.     *)
(***************************************************************************)
Modifier(c, place, T, careful) ==
  CASE T.kind = "int" -> Store(c, place, <<-1 - At(c.heap, place)[1]>>)
    [] T.kind # "int" /\ careful -> c
    [] OTHER -> Ended(c, "throw")

RECURSIVE Modify(_, _, _, _, _)

\* Mutant of ModifyPointer: what it points to is passed as a whole.
ModifyPointerWhole(c, place, T, careful, recurse) ==
  IF At(c.heap, place) = Null THEN c
  ELSE Modify(c, Object(At(c.heap, place)), T.of, careful, FALSE)

ModifyPointer(c, place, T, careful, recurse) ==
  IF At(c.heap, place) = Null THEN c
  ELSE Modify(c, Object(At(c.heap, place)), T.of, careful, recurse)

\* Without recurse a container is passed as a whole, and a set in any case: its
\* items cannot be changed.  A tree is left to the modifier.
ModifyEntity(c, place, T, careful, recurse) ==
  IF recurse
  THEN Loop(LAMBDA e, n : Modify(e, Append(place, n), Members(T)[n], careful, recurse),
            c, NamesOf(T))
  ELSE Modifier(c, place, T, careful)

ModifyMap(c, place, T, careful, recurse) ==
  IF recurse
  THEN Loop(LAMBDA e, n : Modify(e, Append(place, n), T.of, careful, recurse),
            c, Ordered(DOMAIN At(c.heap, place)))
  ELSE Modifier(c, place, T, careful)

ModifyVector(c, place, T, careful, recurse) ==
  IF recurse
  THEN Loop(LAMBDA e, k : Modify(e, Append(place, k), T.of, careful, recurse),
            c, Indices(At(c.heap, place)))
  ELSE Modifier(c, place, T, careful)

ModifyArray(c, place, T, careful, recurse) ==
  IF recurse
  THEN Loop(LAMBDA e, k : Modify(e, Append(place, k), T.of, careful, recurse),
            c, [k \in 1 .. T.size |-> k])
  ELSE Modifier(c, place, T, careful)

ModifySet(c, place, T, careful)     == Modifier(c, place, T, careful)
ModifyDynamic(c, place, T, careful) == Modifier(c, place, T, careful)

ModifySimple(c, place, T, careful)  == Modifier(c, place, T, careful)
ModifyEnum(c, place, T, careful)    == Modifier(c, place, T, careful)
ModifyPath(c, place, T, careful)    == Modifier(c, place, T, careful)

Modify(c, place, T, careful, recurse) ==
  CASE T.kind = "entity"  -> ModifyEntity(c, place, T, careful, recurse)
    [] T.kind = "map"     -> ModifyMap(c, place, T, careful, recurse)
    [] T.kind = "vector"  -> ModifyVector(c, place, T, careful, recurse)
    [] T.kind = "array"   -> ModifyArray(c, place, T, careful, recurse)
    [] T.kind = "set"     -> ModifySet(c, place, T, careful)
    [] T.kind = "pointer" -> ModifyPointer(c, place, T, careful, recurse)
    [] T.kind = "tree"    -> ModifyDynamic(c, place, T, careful)
    [] T.kind = "enum"    -> ModifyEnum(c, place, T, careful)
    [] T.kind = "path"    -> ModifyPath(c, place, T, careful)
    [] T.kind = "const"   -> c
    [] OTHER              -> ModifySimple(c, place, T, careful)

-----------------------------------------------------------------------------
(* The client. *)

RECURSIVE Refs(_, _)

\* The objects that a value points to, one for each pointer.
Refs(T, v) ==
  CASE T.kind = "pointer" -> IF v = Null THEN <<>> ELSE <<v>>
    [] T.kind = "const"   -> Refs(T.of, v)
    [] T.kind \in Compound ->
         FoldLeft(LAMBDA refs, p : refs \o Refs(p.type, p.value), <<>>, Parts(T, v))
    [] OTHER -> <<>>

RefsFrom(h, a) == Refs(h[a].type, h[a].value)

RECURSIVE Alive(_, _)

\* The objects that pointers still lead to.
Alive(h, found) ==
  LET more == found \union UNION {Range(RefsFrom(h, a)) : a \in found}
  IN  IF more = found THEN found ELSE Alive(h, more)

RECURSIVE Moved(_, _, _)

\* A value whose pointers to a are pointers to to[a].
Moved(T, v, to) ==
  CASE T.kind = "pointer" -> IF v = Null THEN Null ELSE to[v]
    [] T.kind = "entity"  -> [n \in DOMAIN v |-> Moved(Members(T)[n], v[n], to)]
    [] T.kind = "set"     -> {Moved(T.of, x, to) : x \in v}
    [] T.kind \in {"vector", "array", "map"} -> [k \in DOMAIN v |-> Moved(T.of, v[k], to)]
    [] OTHER -> v

\* The smart pointers destroy what nothing points to any more, as do the scopes
\* that new elements were made in; the others are numbered anew.
Kept(h, alive) ==
  LET to == [a \in alive |-> Cardinality({b \in alive : b <= a})]
  IN  [k \in 1 .. Cardinality(alive) |->
         LET a == CHOOSE b \in alive : to[b] = k
         IN  [h[a] EXCEPT !.value = Moved(h[a].type, @, to)]]

Tidy(h) == Kept(h, Alive(h, {1}))

Root == heap[1].type
Running == last \in {"ok", "throw"} /\ steps < MaxSteps

RECURSIVE Legal(_, _)

\* JSON has no Binary, and no integers of a width of their own; BSON has no numbers
\* with an exponent, and an int32 of 32 bits.
Legal(way, d) ==
  /\ way = "json" => d.type \in (Types \ {"Binary"}) \union {"Exponent"}
  /\ way = "bson" => d.type # "Exponent"
  /\ way = "bson" /\ d.type = "Integer" => d.leaf[1] \in Int32
  /\ \A k \in DOMAIN d.items : Legal(way, d.items[k])
  /\ \A k \in DOMAIN d.members : Legal(way, d.members[k].value)

Ways == {"bson", "json", "tree"}

\* What an entity takes the outermost document for.
Outermost(way, d) ==
  IF way = "bson" /\ d.type = "Array" THEN ItemsAsMembers(d) ELSE d

\* A document is decoded, or made a tree to fill the entity from.
Applied(way, h, d) ==
  IF way = "tree" THEN FromTree(Call(h), Object(1), h[1].type, DocToTree(d))
  ELSE Decode(way, Call(h), Object(1), h[1].type, Outermost(way, d))

LegalDocuments ==
  [way \in Ways |-> [class \in DOMAIN Documents |->
                      {d \in Documents[class] : Legal(way, d)}]]

DocumentsFor(way) == LegalDocuments[way][Root.class]

Return(c) ==
  /\ heap' = Tidy(c.heap)
  /\ last' = c.out
  /\ steps' = steps + 1

\* decode into the existing entity.
DecodeCall ==
  /\ Running
  /\ \E codec \in {"bson", "json"} :
       \E d \in DocumentsFor(codec) : Return(Applied(codec, heap, d))

FromTreeCall ==
  /\ Running
  /\ \E d \in DocumentsFor("tree") : Return(Applied("tree", heap, d))

ModifyCall ==
  /\ Running
  /\ \E careful, recurse \in BOOLEAN :
       Return(IF recurse /\ ~ WalkEnds(heap, Root, heap[1].value, Len(heap))
              THEN Ended(Call(heap), "full")
              ELSE Modify(Call(heap), Object(1), Root, careful, recurse))

\* The client points a member of one of its objects elsewhere.
PointCall ==
  /\ Running
  /\ \E a \in DOMAIN heap :
       /\ heap[a].type.kind = "entity"
       /\ \E n \in DOMAIN heap[a].value, b \in {Null} \union DOMAIN heap :
            /\ Members(heap[a].type)[n].kind = "pointer"
            /\ b # Null => Members(heap[a].type)[n].of = heap[b].type
            /\ Return(Store(Call(heap), Append(Object(a), n), b))

Init ==
  /\ heap \in InitialHeaps
  /\ last = "ok"
  /\ steps = 0

Next == DecodeCall \/ FromTreeCall \/ ModifyCall \/ PointCall

Spec == Init /\ [][Next]_vars

-----------------------------------------------------------------------------
(* Properties. *)

RECURSIVE WellTyped(_, _, _)

\* v is a value of type T, and its pointers lead to objects of their type.
WellTyped(h, T, v) ==
  CASE T.kind = "pointer" ->
         v # Null => v \in DOMAIN h /\ h[v].type = T.of
    [] T.kind = "int"     -> v[1] \in Int32
    [] T.kind = "const"   -> WellTyped(h, T.of, v)
    [] T.kind = "tree"    -> v.type \in Types
    [] T.kind = "array"   -> Len(v) = T.size /\ \A k \in DOMAIN v : WellTyped(h, T.of, v[k])
    [] T.kind = "entity"  ->
         /\ DOMAIN v = DOMAIN Members(T)
         /\ \A n \in DOMAIN v : WellTyped(h, Members(T)[n], v[n])
    [] T.kind \in {"vector", "map"} -> \A k \in DOMAIN v : WellTyped(h, T.of, v[k])
    [] T.kind = "set"     -> \A x \in v : WellTyped(h, T.of, x)
    [] OTHER -> \A k \in DOMAIN v : v[k] \in Int

(***************************************************************************)
(* Whatever a call does, and wherever it throws, the client's objects are  *)
(* values of their types, and no pointer is left dangling.                 *)
(***************************************************************************)
TypeOK ==
  /\ \A a \in DOMAIN heap : WellTyped(heap, heap[a].type, heap[a].value)
  /\ last \in {"ok", "throw", "full", "lost", "undefined"}
  /\ steps \in 0 .. MaxSteps

Fields(d) == {d.members[k].name : k \in DOMAIN d.members}

InOrder(d) ==
  [k \in DOMAIN d.members |-> d.members[k].name] = Ordered(Fields(d))

RECURSIVE Fits(_, _, _)

(***************************************************************************)
(* The document d is one for type T: no number is given for a text, names  *)
(* come once and in order, arrays have no item too many, integers survive  *)
(* the way through a double, the items of a set are complete and are no    *)
(* pointers, and BSON skips nothing that it measures wrongly.              *)
(***************************************************************************)
Fits(codec, T, d) ==
  CASE T.kind \in {"int", "enum"} -> d.type = "Integer" /\ d.leaf[1] \in Int32
    [] T.kind = "bool"   -> d.type = "Boolean"
    [] T.kind = "long"   ->
         /\ d.type \in {"Integer", "Long"}
         /\ Nearest(d.leaf[1], DoubleExact) = d.leaf[1]
    [] T.kind = "double" -> d.type \in IF codec = "json" THEN Numbers ELSE {"Floating"}
    [] T.kind \in Texts  -> d.type = "String"
    [] T.kind = "binary" -> d.type = IF codec = "bson" THEN "Binary" ELSE "String"
    [] T.kind = "tree"   -> TRUE
    [] T.kind = "const"  -> codec = "json" \/ d.type \notin {"String", "Binary"}
    [] T.kind = "pointer" -> d.type = "Null" \/ Fits(codec, T.of, d)
    [] T.kind = "entity" ->
         /\ d.type = "Object" /\ InOrder(d)
         /\ \A k \in DOMAIN d.members :
              IF d.members[k].name \in DOMAIN Members(T)
              THEN Fits(codec, Members(T)[d.members[k].name], d.members[k].value)
              ELSE codec = "json" \/ d.members[k].value.type \notin {"String", "Binary"}
    [] T.kind = "map"    ->
         /\ d.type = "Object" /\ InOrder(d)
         /\ \A k \in DOMAIN d.members : Fits(codec, T.of, d.members[k].value)
    [] T.kind \in Lists  ->
         /\ d.type = "Array"
         /\ T.kind = "array" => Len(d.items) <= T.size
         /\ \A k \in DOMAIN d.items :
              /\ Fits(codec, T.of, d.items[k])
              /\ T.kind = "set" =>
                   /\ T.of.kind # "pointer"
                   /\ T.of.kind = "entity" =>
                        DOMAIN Members(T.of) \subseteq Fields(d.items[k])

SameEnd(h, c, d) == c.out = d.out /\ Tidy(c.heap) = Tidy(d.heap)

(***************************************************************************)
(* There are two ways from a document into an entity, to decode it at once *)
(* or to make a tree of it first.  When the document fits they leave the   *)
(* same objects behind and end alike, with a throw at the same place if    *)
(* they throw.                                                             *)
(***************************************************************************)
TreeAgrees ==
  \A codec \in {"bson", "json"} :
    \A d \in DocumentsFor(codec) :
      Fits(codec, Root, d) =>
        SameEnd(heap, Applied(codec, heap, d), Applied("tree", heap, d))

SameAgain(way, c, d) ==
  c.out \in {"ok", "throw"} => SameEnd(c.heap, Applied(way, c.heap, d), c)

(***************************************************************************)
(* A call that is made again with the same document, after it came back or *)
(* threw half-way through, changes nothing more and ends in the same way.  *)
(***************************************************************************)
RetryChangesNothing ==
  \A way \in Ways :
    \A d \in DocumentsFor(way) : SameAgain(way, Applied(way, heap, d), d)

RECURSIVE Slots(_, _, _)

\* The places of the pointers in a value.
Slots(T, v, place) ==
  CASE T.kind = "pointer" -> {place}
    [] T.kind = "entity"  ->
         UNION {Slots(Members(T)[n], v[n], Append(place, n)) : n \in DOMAIN v}
    [] T.kind \in {"vector", "array", "map"} ->
         UNION {Slots(T.of, v[k], Append(place, k)) : k \in DOMAIN v}
    [] OTHER -> {}

SlotsIn(h, a) == Slots(h[a].type, h[a].value, Object(a))

\* Where all the pointers of some objects lead.
RefsOf(h, objects) ==
  FoldSet(LAMBDA a, refs : refs \o RefsFrom(h, a), <<>>, objects)

Count(seq, x) == Cardinality({k \in DOMAIN seq : seq[k] = x})

OldOrFresh(before, after, place) ==
  \/ At(after, place) \in {At(before, place), Null}
  \/ At(before, place) = Null /\ At(after, place) > Len(before)

\* No object that is alive has more pointers to it than before, and a new one
\* has one.
Unshared(size, before, after) ==
  \A b \in Range(after) :
    Count(after, b) <= IF b > size THEN 1 ELSE Count(before, b)

(***************************************************************************)
(* No decode and no from_tree points a pointer at another object that is   *)
(* there: it leaves it, clears it, or gives it an object of its own.  So   *)
(* no two pointers share an object that did not, and none closes a cycle.  *)
(* Nothing is said of a call in which BSON loses its place, which may find *)
(* any members and any values in the rest.                                 *)
(***************************************************************************)
PointersKept ==
  \A way \in Ways :
    \A d \in DocumentsFor(way) :
      \E c \in {Applied(way, heap, d)} :
        c.out # "lost" =>
          /\ \A a \in DOMAIN heap : \A place \in SlotsIn(heap, a) :
               OldOrFresh(heap, c.heap, place)
          /\ \E before \in {RefsOf(heap, DOMAIN heap)},
                after \in {RefsOf(c.heap, Alive(c.heap, {1}))} :
               Unshared(Len(heap), before, after)

(***************************************************************************)
(* A member that the document does not name stays as it is, and so does    *)
(* every object that no named member leads to.  (One that both a named     *)
(* member and another lead to does change: vref<shared_ptr>::decode goes   *)
(* through the pointer that is there.)  A call in which BSON loses its     *)
(* place may find the name of any member inside of a value: none is meant. *)
(***************************************************************************)
OnlyNamedChanges ==
  \A way \in Ways :
    \A d \in DocumentsFor(way) :
      \E c \in {Applied(way, heap, d)},
         named \in {DOMAIN Members(Root) \intersect Fields(Outermost(way, d))} :
        \E touched \in {Alive(heap, UNION {Range(Refs(Members(Root)[n], heap[1].value[n])) :
                                          n \in named})} :
          c.out # "lost" /\ 1 \notin touched =>
            /\ \A n \in DOMAIN Members(Root) \ named :
                 c.heap[1].value[n] = heap[1].value[n]
            /\ \A a \in DOMAIN heap \ (touched \union {1}) : c.heap[a] = heap[a]

RECURSIVE Preserved(_, _, _, _)

(***************************************************************************)
(* What survives the way out and in again: JSON has no NaN, six digits of  *)
(* a double and no Binary of its own; a tree sends integers through a      *)
(* double; what is const is not read, and BSON loses its place there.      *)
(***************************************************************************)
Preserved(way, h, T, v) ==
  CASE T.kind = "const"  -> FALSE
    [] T.kind = "pointer" -> v = Null \/ Preserved(way, h, T.of, h[v].value)
    [] T.kind = "double" -> way = "json" => v # NaN /\ Printed(v[1]) = v[1]
    [] T.kind = "long"   -> way = "tree" => Nearest(v[1], DoubleExact) = v[1]
    [] T.kind = "tree"   ->
         Equal(DocToTree(TreeToDoc(IF way = "tree" THEN "bson" ELSE way, v)), v)
    [] T.kind = "set"    -> T.of.kind # "pointer"
    [] T.kind \in Compound \ {"set"} ->
         \A k \in DOMAIN Parts(T, v) :
           Preserved(way, h, Parts(T, v)[k].type, Parts(T, v)[k].value)
    [] OTHER -> TRUE

Written(way, h) ==
  IF way = "tree" THEN TreeToDoc("bson", ToTree(h, h[1].type, h[1].value))
  ELSE Encode(way, h, h[1].type, h[1].value)

SameTree(h, c) ==
  /\ c.out = "ok"
  /\ \E t \in {ToTree(h, h[1].type, h[1].value)},
        r \in {ToTree(c.heap, h[1].type, c.heap[1].value)} : r = t \/ Equal(r, t)

(***************************************************************************)
(* What encode writes, decode reads: a new entity that is given what       *)
(* another one was written as has the same members.  So does one that is   *)
(* filled from the tree of another.                                        *)
(***************************************************************************)
RoundTrip ==
  EncodeOut(heap, Root, heap[1].value) = "ok" =>
    \A way \in Ways :
      Preserved(way, heap, Root, heap[1].value) =>
        SameTree(heap, Applied(way, <<New(Root)>>, Written(way, heap)))

(***************************************************************************)
(* encode of an entity and encode of its tree, two recursions of their     *)
(* own, write the same document.                                           *)
(***************************************************************************)
EncodesLikeItsTree ==
  EncodeOut(heap, Root, heap[1].value) = "ok" =>
    \A codec \in {"bson", "json"} :
      Encode(codec, heap, Root, heap[1].value)
        = TreeToDoc(codec, ToTree(heap, Root, heap[1].value))

RECURSIVE Paths(_, _, _)

\* The number of ways from one object to another, when there is no cycle.
Paths(h, a, b) ==
  IF a = b THEN 1
  ELSE FoldSet(LAMBDA place, n :
                 n + IF At(h, place) = Null THEN 0 ELSE Paths(h, At(h, place), b),
               0, SlotsIn(h, a))

(***************************************************************************)
(* modify visits a member once for every way that leads to it, not once:   *)
(* the bits of an int that is reached over two shared pointers are         *)
(* inverted twice and end as they were.                                    *)
(***************************************************************************)
ModifyFollowsEveryWay ==
  WalkEnds(heap, Root, heap[1].value, Len(heap)) =>
    \E after \in {Modify(Call(heap), Object(1), Root, TRUE, TRUE).heap} :
      \A a \in DOMAIN heap :
        heap[a].type.kind = "entity" =>
          \A n \in DOMAIN heap[a].value :
            Members(heap[a].type)[n].kind = "int" =>
              (after[a].value[n] = heap[a].value[n]) = (Paths(heap, 1, a) % 2 = 0)
=============================================================================
