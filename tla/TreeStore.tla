----------------------------- MODULE TreeStore -----------------------------
(***************************************************************************)
(* A client that keeps a few trees (tree.hpp): it assigns, moves, indexes, *)
(* changes and walks them, encodes and decodes them (entity.hpp), and      *)
(* compares them (utilities/compare.hpp).  Two values are shared by every  *)
(* tree there is, the static locals of as_array and of operator[](int).    *)
(***************************************************************************)
EXTENDS TreeValue

CONSTANTS
  Variables,    \* the client's variables
  Literals,     \* the values that the client writes down
  InitialTrees, \* what the variables start with
  MaxSteps,     \* bound: how many calls the client makes
  MaxItems      \* bound: how long the client lets an array grow

VARIABLES
  trees,   \* the tree in each variable
  shared,  \* the vector that as_array returns when the tree is no array
  empty,   \* the tree that operator[](int) returns when the tree is no array
  nested,  \* whether the client ever assigned an array to a part of it (ghost)
  last,    \* how the last call ended
  steps    \* how many calls there have been

vars == <<trees, shared, empty, nested, last, steps>>

-----------------------------------------------------------------------------
(***************************************************************************)
(* Places: a path, whose steps are names of children and numbers of items. *)
(***************************************************************************)
Named(n)  == <<"child", n>>
Item(k)   == <<"item", k>>
IsItem(s) == s[1] = "item"

Child(t, step) == IF IsItem(step) THEN t.items[step[2]] ELSE t.children[step[2]]

Children(t) == {Named(n) : n \in DOMAIN t.children}
Items(t)    == {Item(k) : k \in DOMAIN t.items}
Steps(t)    == Children(t) \union Items(t)

At(t, path) == FoldLeft(Child, t, path)

RECURSIVE Put(_, _, _)

Put(t, path, new) ==
  CASE path = <<>> -> new
    [] path # <<>> /\ IsItem(Head(path)) ->
         [t EXCEPT !.items[Head(path)[2]] = Put(@, Tail(path), new)]
    [] OTHER -> [t EXCEPT !.children[Head(path)[2]] = Put(@, Tail(path), new)]

RECURSIVE Paths(_)

Paths(t) ==
  {<<>>} \union UNION {{<<step>> \o path : path \in Paths(Child(t, step))} : step \in Steps(t)}

Places ==
  UNION {{[of |-> x, path |-> path] : path \in Paths(trees[x])} : x \in Variables}

Tree(place) == At(trees[place.of], place.path)

With(ts, place, t) == [ts EXCEPT ![place.of] = Put(@, place.path, t)]

Below(place, step) == [place EXCEPT !.path = Append(@, step)]

(***************************************************************************)
(* What a tree is left with that was moved from: its type, but no leaf,    *)
(* and its children only if a constructor moved it.  The accessors that do *)
(* not look at leaf first then follow a null pointer, and any that does    *)
(* cast takes the leaf of another type for one of the tree's own.          *)
(***************************************************************************)
Leafless(t)   == [t EXCEPT !.leaf = <<>>, !.items = <<>>]
Emptied(t)    == [Leafless(t) EXCEPT !.children = NoChildren]
Mismatched(t) == t.leaf # <<>> /\ Kind(t) # t.type
Broken(t)     == (t.leaf = <<>> /\ t.type \in {"Array", "Binary"}) \/ Mismatched(t)

-----------------------------------------------------------------------------
Running == last \in {"ok", "throw"} /\ steps < MaxSteps

Return(ts, out) ==
  /\ trees' = ts
  /\ last' = out
  /\ steps' = steps + 1

Unshared == UNCHANGED <<shared, empty, nested>>

(***************************************************************************)
(* Of two places one may lie in the other, by way of a child or of an item *)
(* of the outer one.  Assignment takes the type, then the children, then   *)
(* the leaf.  By way of a child it destroys or changes the children while  *)
(* it copies them, and its behaviour is undefined.  By way of an item it   *)
(* comes to the leaf with its source whole: a tree survives an item of its *)
(* own, and an item a copy of the array that it is in.                     *)
(***************************************************************************)
Inside(outer, inner) == outer.of = inner.of /\ IsPrefix(outer.path, inner.path)
Within(outer, inner) == Inside(outer, inner) /\ outer # inner

ByItem(outer, inner) == IsItem(inner.path[Len(outer.path) + 1])

Overlap(to, from) ==
  \/ Within(from, to) /\ ~ ByItem(from, to)
  \/ Within(to, from) /\ ~ ByItem(to, from)

\* When the leaf is cloned, the tree assigned to has its new type and children.
\* An item that is in the leaf is cloned like that, with its former leaf.
Assigned(to, from) ==
  LET half == With(trees, to, [Tree(to) EXCEPT !.type = Tree(from).type,
                                               !.children = Tree(from).children])
  IN  With(half, to, At(half[from.of], from.path))

\* operator=(const tree &), of a value the client wrote down or another tree.
Construct ==
  Running /\ \E to \in Places, value \in Literals :
    Return(With(trees, to, value), "ok") /\ Unshared

CopyAssign ==
  Running /\ \E to, from \in Places :
    /\ IF Overlap(to, from) THEN Return(trees, "undefined")
       ELSE Return(Assigned(to, from), "ok")
    /\ nested' = (nested \/ Within(from, to))
    /\ UNCHANGED <<shared, empty>>

\* Mutant of MoveAssign: the type is not taken over.
MoveAssignKeepsType ==
  Running /\ \E to, from \in Places :
    /\ ~ Inside(to, from) /\ ~ Inside(from, to)
    /\ Return(With(With(trees, from, Emptied(Tree(from))),
                   to, [Tree(from) EXCEPT !.type = Tree(to).type]), "ok")
    /\ Unshared

\* operator=(tree &&): children and leaf leave the other tree, its type stays.  A
\* part that is given what it is in takes that with itself, out of all reach.
MoveAssign ==
  Running /\ \E to, from \in Places :
    /\ to # from
    /\ CASE Within(to, from) /\ Overlap(to, from) -> Return(trees, "undefined")
         [] Within(to, from) /\ ~ Overlap(to, from) ->
              Return(With(trees, to, Tree(from)), "ok")
         [] Within(from, to) -> Return(With(trees, from, Emptied(Tree(from))), "ok")
         [] OTHER -> Return(With(With(trees, from, Emptied(Tree(from))), to, Tree(from)), "ok")
    /\ Unshared

\* tree(tree &&) copies the children, so that the other tree keeps its own.
MoveConstruct ==
  Running /\ \E x \in Variables, from \in Places :
    /\ from.of # x
    /\ Return([With(trees, from, Leafless(Tree(from))) EXCEPT ![x] = Tree(from)], "ok")
    /\ Unshared

\* operator[](name), which makes the child it does not find.
Indexed(t, name) == IF name \in DOMAIN t.children THEN t ELSE SetChild(t, name, EmptyTree)

Index ==
  Running /\ \E place \in Places, name \in Range(Names) :
    /\ Return(With(trees, place, Indexed(Tree(place), name)), "ok")
    /\ Unshared

\* set(name, value), of a literal: children[name] = value.
Set ==
  Running /\ \E place \in Places, name \in Range(Names), value \in Literals :
    /\ Return(With(trees, place, SetChild(Tree(place), name, value)), "ok")
    /\ Unshared

Erase ==
  Running /\ \E place \in Places, name \in Range(Names) :
    /\ Return(With(trees, place,
                   [Tree(place) EXCEPT !.children =
                      [n \in DOMAIN @ \ {name} |-> @[n]]]), "ok")
    /\ Unshared

\* at(name) = value.
AtName ==
  Running /\ \E place \in Places, name \in Range(Names), value \in Literals :
    /\ IF name \in DOMAIN Tree(place).children
       THEN Return(With(trees, Below(place, Named(name)), value), "ok")
       ELSE Return(trees, "throw")
    /\ Unshared

\* operator[](index) = value: one tree stands for every item of what is no array.
AssignItem ==
  Running /\ \E place \in Places, k \in 1 .. MaxItems, value \in Literals :
    IF Tree(place).type # "Array"
    THEN empty' = value /\ UNCHANGED <<shared, nested>> /\ Return(trees, "ok")
    ELSE /\ CASE Broken(Tree(place)) -> Return(trees, "undefined")
              [] ~ Broken(Tree(place)) /\ k > Len(Tree(place).items) -> Return(trees, "throw")
              [] OTHER -> Return(With(trees, Below(place, Item(k)), value), "ok")
         /\ Unshared

\* as_array().push_back(value): likewise.
Push ==
  Running /\ \E place \in Places, value \in Literals :
    IF Tree(place).type # "Array"
    THEN /\ Len(shared) < MaxItems
         /\ shared' = Append(shared, value) /\ UNCHANGED <<empty, nested>>
         /\ Return(trees, "ok")
    ELSE /\ Len(Tree(place).items) < MaxItems
         /\ IF Broken(Tree(place)) THEN Return(trees, "undefined")
            ELSE Return(With(trees, place, [Tree(place) EXCEPT !.items = Append(@, value)]), "ok")
         /\ Unshared

Looped(t) == IF t.type = "Array" THEN Items(t) ELSE Children(t)

RECURSIVE Walkable(_, _), Walked(_, _)

Walkable(t, deep) ==
  /\ t.type = "Array" => ~ Broken(t)
  /\ deep => \A step \in Looped(t) : Walkable(Child(t, step), deep)

\* A function that adds 1 to integers, and sends the walk into all or no children.
Visited(t, deep) ==
  LET u == IF t.type = "Integer" /\ t.leaf # <<>>
           THEN [t EXCEPT !.leaf[2] = <<@[1] + 1>>] ELSE t
  IN  IF deep THEN Walked(u, deep) ELSE u

Walked(t, deep) ==
  IF t.type = "Array" THEN [t EXCEPT !.items = [k \in DOMAIN @ |-> Visited(@[k], deep)]]
  ELSE [t EXCEPT !.children = [n \in DOMAIN @ |-> Visited(@[n], deep)]]

Walk ==
  Running /\ \E place \in Places, deep \in BOOLEAN :
    /\ IF Walkable(Tree(place), deep) THEN Return(With(trees, place, Walked(Tree(place), deep)), "ok")
       ELSE Return(trees, "undefined")
    /\ Unshared

-----------------------------------------------------------------------------
(* encode(const tree &) and decode<Codec>() of entity.hpp. *)

RECURSIVE Encodable(_)

Encodable(t) ==
  /\ ~ Broken(t)
  /\ t.type \in {"Array", "Object"} =>
       \A step \in Looped(t) : Encodable(Child(t, step))

\* What no object and no array is written as: nothing.
Written(codec, t) ==
  IF t.type \in {"Object", "Array"} THEN <<TreeToDoc(codec, t)>> ELSE <<>>

\* <<>> for a throw: BSON needs a length at least, JSON takes nothing for an array.
ReadBack(codec, text) ==
  CASE text = <<>> /\ codec = "bson" -> <<>>
    [] text = <<>> /\ codec = "json" -> <<ArrayTree(<<>>)>>
    [] text # <<>> /\ codec = "bson" /\ text[1].type = "Array" ->
         <<DocToTree(ItemsAsMembers(text[1]))>>
    [] OTHER -> <<DocToTree(text[1])>>

\* x = decode<Codec>(encode<Codec>(tree))
EncodeDecode ==
  Running /\ \E x \in Variables, place \in Places, codec \in {"bson", "json"} :
    /\ IF ~ Encodable(Tree(place)) THEN Return(trees, "undefined")
       ELSE IF ReadBack(codec, Written(codec, Tree(place))) = <<>> THEN Return(trees, "throw")
       ELSE Return([trees EXCEPT ![x] = ReadBack(codec, Written(codec, Tree(place)))[1]], "ok")
    /\ Unshared

Init ==
  /\ trees \in InitialTrees
  /\ shared = <<>>
  /\ empty = EmptyTree
  /\ nested = FALSE
  /\ last = "ok"
  /\ steps = 0

Next ==
  \/ Construct \/ CopyAssign \/ MoveAssign \/ MoveConstruct
  \/ Index \/ Set \/ Erase \/ AtName \/ AssignItem \/ Push
  \/ Walk \/ EncodeDecode

Spec == Init /\ [][Next]_vars

-----------------------------------------------------------------------------
(* Properties. *)

RECURSIVE WellFormed(_)

WellFormed(t) ==
  /\ t.type \in Types
  /\ t.leaf # <<>> => Kind(t) \in Types \ {"Null", "Object"}
  /\ t.items # <<>> => t.leaf # <<>> /\ Kind(t) = "Array"
  /\ Mismatched(t) => nested /\ t.type = "Array"
  /\ DOMAIN t.children \subseteq Range(Names)
  /\ \A step \in Steps(t) : WellFormed(Child(t, step))

(***************************************************************************)
(* Through every copy, move and index, the leaf of a tree is a container   *)
(* of what its type says, or none if it was moved from.  The exception is  *)
(* a client that assigns an array to a part of it: the copy has that part  *)
(* as an Array with the leaf it had before.  No other type comes to be     *)
(* with a leaf of another, and no other call makes the first such leaf.    *)
(***************************************************************************)
TypeOK ==
  /\ \A x \in Variables : WellFormed(trees[x])
  /\ WellFormed(empty) /\ \A k \in DOMAIN shared : WellFormed(shared[k])
  /\ nested \in BOOLEAN
  /\ last \in {"ok", "throw", "undefined"}
  /\ steps \in 0 .. MaxSteps

\* No part was moved from or has the leaf of another type, and every number is one
\* that doubles have, that JSON writes exactly.
Plain(t) ==
  \A path \in Paths(t) :
    \E u \in {At(t, path)} :
      /\ u.type \notin {"Null", "Object"} => u.leaf # <<>>
      /\ ~ Mismatched(u)
      /\ u.type = "Integer"  => Nearest(Value(u)[1], DoubleExact) = Value(u)[1]
      /\ u.type = "Floating" => Value(u) # NaN /\ Printed(Value(u)[1]) = Value(u)[1]

PlainTrees == {u \in {Tree(place) : place \in Places} : Plain(u)}

(***************************************************************************)
(* operator== is an equivalence, between numbers of two types too, unless  *)
(* a tree was moved from, has the leaf of another type, is not a number,   *)
(* or is beyond what doubles hold.                                         *)
(***************************************************************************)
EqualIsEquivalence ==
  \E plain \in {PlainTrees} :
    /\ \A t \in plain : Equal(t, t)
    /\ \A t, u \in plain :
         Equal(t, u) => Equal(u, t) /\ \A v \in plain : Equal(u, v) => Equal(t, v)

\* What children a tree of a type that does not use them has is not written.
RECURSIVE Tidied(_)

Tidied(t) ==
  CASE t.type = "Object" -> [t EXCEPT !.children = [n \in DOMAIN @ |-> Tidied(@[n])]]
    [] t.type = "Array"  ->
         [t EXCEPT !.children = NoChildren, !.items = [k \in DOMAIN @ |-> Tidied(@[k])]]
    [] OTHER -> [t EXCEPT !.children = NoChildren]

HasExponent(t) ==
  \E path \in Paths(t) :
    At(t, path).type = "Floating" /\ Exponential(Value(At(t, path))[1])

(***************************************************************************)
(* Trees that are equal are written as the same JSON, so that nothing that *)
(* operator== overlooks shows in it.  Not so the doubles that are written  *)
(* with an exponent: an Integer of a million is equal to such a one, and   *)
(* is written with all its digits.                                         *)
(***************************************************************************)
EqualEncodesAlike ==
  \E plain \in {{t \in PlainTrees : ~ HasExponent(t)}} :
    \A t, u \in plain :
      Equal(t, u) => TreeToDoc("json", t) = TreeToDoc("json", u)

HasType(t, type) == \E path \in Paths(Tidied(t)) : At(Tidied(t), path).type = type

(***************************************************************************)
(* A tree comes back from its own encoding, except that JSON has strings   *)
(* for binary data, and that BSON has no arrays outside of an object.      *)
(***************************************************************************)
TreesComeBack ==
  \A t \in PlainTrees :
    t.type \in {"Object", "Array"} =>
      /\ ~ HasType(t, "Binary") =>
           Equal(ReadBack("json", Written("json", t))[1], t)
      /\ t.type = "Object" => Equal(ReadBack("bson", Written("bson", t))[1], t)

\* The paths of names that two trees both have, through objects of the first.
RECURSIVE Common(_, _)

Common(t, u) ==
  UNION {{<<n>>} \union (IF t.children[n].type = "Object"
                         THEN {<<n>> \o path : path \in Common(t.children[n], u.children[n])}
                         ELSE {}) :
         n \in DOMAIN t.children \intersect DOMAIN u.children}

AtNames(t, names) == FoldLeft(LAMBDA u, n : u.children[n], t, names)

Levels(diffs) == [k \in DOMAIN diffs |-> diffs[k].level]

\* What is not equal, but an array next to what is no array goes by the static
\* vector of as_array.
Differ(before, after) ==
  IF before.type = "Array" /\ after.type # "Array" THEN ~ EqualItems(before.items, shared)
  ELSE ~ Equal(before, after)

(***************************************************************************)
(* compare::trees tells of a path once, if both trees have it and differ   *)
(* there, and of no other; but objects are only looked into, and an array  *)
(* that holds what the static vector of as_array holds (nothing, until a   *)
(* client adds to what is no array) is taken for the same as anything that *)
(* is no array.                                                            *)
(***************************************************************************)
DiffsAreChanges ==
  \A t, u \in {x \in PlainTrees : x.type = "Object"} :
    \E levels \in {Levels(Diffs(t, u, shared))} :
      /\ IsInjective(levels)
      /\ Range(levels) =
           {path \in Common(t, u) :
              /\ AtNames(t, path).type # "Object"
              /\ Differ(AtNames(t, path), AtNames(u, path))}
=============================================================================
