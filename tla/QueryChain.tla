----------------------------- MODULE QueryChain -----------------------------
(***************************************************************************)
(* Lazy queries (query.hpp): chains of links over a container.  A link is  *)
(* an object with two functions, start and next, that pull items from its  *)
(* parent.  Chaining copies the query it is called on to the heap, as the  *)
(* parent of the new one; copying a query, as begin() does, copies its     *)
(* outermost link only.  All the rest of a chain is shared, with the state *)
(* in it, by every copy and by every query that is derived from it.        *)
(*                                                                         *)
(* A predicate is the set of the values it holds for; selectors and keys   *)
(* are functions.  next is only called on a link that has been started, so *)
(* that a copy may have an iterator, a buffer and queries of its own.      *)
(***************************************************************************)
EXTENDS Integers, Sequences, FiniteSets, SequencesExt

CONSTANTS
  Values,        \* the values of the items
  Contents,      \* what the container can hold
  Literal,       \* what an initialiser list holds, the second source
  Links,         \* the links a client chains
  Calls,         \* what a client asks of a query
  ZipWith(_, _), \* the selector given to zip
  MaxQueries,    \* bound: queries a client has
  Patience,      \* bound: a loop that goes round more often never ends
  MaxSteps       \* bound: links chained, calls, iterators and changes

ASSUME SourcesAssumption ==
  Contents \subseteq Seq(Values) /\ Literal \in Seq(Values)

VARIABLES
  container,   \* the container that the first query refers to
  heap,        \* the links that are parents
  queries,     \* the client's queries
  iters,       \* the client's iterators
  gone,        \* a pull was lost: the process has gone or hangs
  uses         \* how many calls, iterators and changes there were (bounded)

vars == <<container, heap, queries, iters, gone, uses>>

NoQuery == [op |-> "none"]

\* A query object: its link, and the state that start and next keep in it.
\* aux is the copy of src that concat and zip make when they are started.
New(link, parent, src) ==
  [link |-> link, parent |-> parent, src |-> src, it |-> <<>>, counter |-> 0,
   parts |-> <<>>, aux |-> NoQuery, item |-> 0, cmp |-> <<>>]

From(n) == New([op |-> "from", p |-> {}, n |-> n, f |-> <<>>], 0, NoQuery)

Binary == {"concat", "except", "zip"}

(***************************************************************************)
(* A T* that start or next returns: null, or a place and the value found   *)
(* there.  The place is the item of a link that is reached over heap links *)
(* and, as 0, copies of src; or storage that outlives the pull.  A pull is *)
(* lost when take_while dereferences a null pointer, and when a loop never *)
(* ends because what it calls starts the link again that it reads from.    *)
(***************************************************************************)
Lasting  == <<-1>>
Null     == [kind |-> "null", place |-> Lasting, val |-> 0]
Lost     == [Null EXCEPT !.kind = "lost"]
Kept(v)  == [kind |-> "item", place |-> Lasting, val |-> v]
Own(v)   == [kind |-> "item", place |-> <<>>, val |-> v]

Via(k, at) ==
  IF at.place = Lasting THEN at ELSE [at EXCEPT !.place = <<k>> \o @]

RECURSIVE ItemAt(_, _, _)
ItemAt(h, o, place) ==
  IF place = <<>> THEN o.item
  ELSE IF Head(place) = 0 THEN ItemAt(h, o.aux, Tail(place))
  ELSE ItemAt(h, h[Head(place)], Tail(place))

\* A pull: the heap and the object afterwards, and what it returned.
Pulled(h, o, at) == [heap |-> h, self |-> o, at |-> at]

\* What an earlier pointer points to after the pull r.
Deref(r, at) ==
  IF at.place = Lasting THEN at.val ELSE ItemAt(r.heap, r.self, at.place)

-----------------------------------------------------------------------------
(* Items in order. *)

\* a comes before b by the first key that tells them apart.
Before(keys, a, b) ==
  \E k \in DOMAIN keys :
    /\ \A j \in 1 .. k - 1 : keys[j].f[a] = keys[j].f[b]
    /\ IF keys[k].desc THEN keys[k].f[a] > keys[k].f[b]
                       ELSE keys[k].f[a] < keys[k].f[b]

\* std::stable_sort.
StableSort(s, keys) ==
  LET Sooner(i, j) == \/ Before(keys, s[i], s[j])
                      \/ ~ Before(keys, s[j], s[i]) /\ i < j
      order == SortSeq([i \in DOMAIN s |-> i], Sooner)
  IN  [i \in DOMAIN s |-> s[order[i]]]

Unique(s) ==
  FoldLeft(LAMBDA seen, v : IF Contains(seen, v) THEN seen ELSE Append(seen, v),
           <<>>, s)

Ascending == <<[f |-> [v \in Values |-> v], desc |-> FALSE]>>
Key(link) == [f |-> link.f, desc |-> link.n = 1]

-----------------------------------------------------------------------------
(* Pulling: start(forward), start(backward) and next of every link. *)

RECURSIVE Pull(_, _, _)

\* o has pulled its parent, or its copy of src: r.
WithParent(o, r) ==
  Pulled([r.heap EXCEPT ![o.parent] = r.self], o, Via(o.parent, r.at))
WithAux(o, r)    == Pulled(r.heap, [o EXCEPT !.aux = r.self], Via(0, r.at))

PullParent(h, o, how) == WithParent(o, Pull(h, h[o.parent], how))
PullAux(h, o, how)    == WithAux(o, Pull(h, o.aux, how))

PullNext(r, whom) ==
  IF whom = "parent" THEN PullParent(r.heap, r.self, "next")
                     ELSE Pull(r.heap, r.self, "next")

\* for (; i && !wanted(*i); i = next): the items that are passed over are kept.
RECURSIVE Walk(_, _, _, _)
Walk(r, whom, wanted, passed) ==
  IF r.at.kind # "item" \/ r.at.val \in wanted \/ Len(passed) = Patience
  THEN [heap |-> r.heap, self |-> r.self, items |-> passed,
        at   |-> IF Len(passed) = Patience THEN Lost ELSE r.at]
  ELSE Walk(PullNext(r, whom), whom, wanted, Append(passed, r.at.val))

\* for (j = 0; i && j < n; i = next, j++)
RECURSIVE Hop(_, _, _)
Hop(r, whom, n) ==
  IF r.at.kind # "item" \/ n <= 0 THEN r ELSE Hop(PullNext(r, whom), whom, n - 1)

\* iterators::next.
NextOfIt(h, o) ==
  IF o.it = <<>> THEN Pulled(h, o, Null)
  ELSE Pulled(h, [o EXCEPT !.it = Tail(@)], Kept(Head(o.it)))

PullFrom(h, o, how) ==
  LET data == IF o.link.n = 1 THEN container ELSE Literal
      rest == CASE how = "forward"  -> data
                [] how = "backward" -> Reverse(data)
                [] OTHER            -> o.it
  IN  NextOfIt(h, [o EXCEPT !.it = rest])

PullWhere(h, o, how) == Walk(PullParent(h, o, how), "parent", o.link.p, <<>>)

\* Mutant of PullTake: start does not set the counter back.
PullTakeCountsOn(h, o, how) ==
  LET counted == [o EXCEPT !.counter = @ + 1]
  IN  IF o.counter < o.link.n THEN PullParent(h, counted, how)
                              ELSE Pulled(h, counted, Null)

PullTake(h, o, how) ==
  LET counter == IF how = "next" THEN o.counter ELSE 0
      counted == [o EXCEPT !.counter = counter + 1]
  IN  IF counter < o.link.n THEN PullParent(h, counted, how)
                            ELSE Pulled(h, counted, Null)

\* The item is dereferenced before it is known that there is one.
Until(r, p) ==
  CASE r.at.kind = "null"                       -> Pulled(r.heap, r.self, Lost)
    [] r.at.kind = "item" /\ r.at.val \notin p -> Pulled(r.heap, r.self, Null)
    [] OTHER                                    -> r

PullTakeWhile(h, o, how) == Until(PullParent(h, o, how), o.link.p)

PullSkip(h, o, how) ==
  Hop(PullParent(h, o, how), "parent", IF how = "next" THEN 0 ELSE o.link.n)

PullSkipWhile(h, o, how) ==
  Walk(PullParent(h, o, how), "parent",
       IF how = "next" THEN Values ELSE Values \ o.link.p, <<>>)

PullReverse(h, o, how) ==
  PullParent(h, o, CASE how = "forward"  -> "backward"
                     [] how = "backward" -> "forward"
                     [] OTHER            -> "next")

\* A link that makes its items returns a pointer to the one it has.
Made(r, v) == Pulled(r.heap, [r.self EXCEPT !.item = v], Own(v))

Mapped(r, f)    == IF r.at.kind = "item" THEN Made(r, f[r.at.val]) ELSE r
OrDefault(r, v) == IF r.at.kind = "null" THEN Made(r, v) ELSE r

PullSelect(h, o, how) == Mapped(PullParent(h, o, how), o.link.f)

PullDefault(h, o, how) ==
  IF how = "next" THEN PullParent(h, o, how)
                  ELSE OrDefault(PullParent(h, o, how), o.link.n)

\* start has drained the parent: w holds its items, buffer is made of them.
Buffered(w, buffer) ==
  IF w.at.kind = "lost" THEN w ELSE NextOfIt(w.heap, [w.self EXCEPT !.it = buffer])

DrainedParent(h, o, how) == Walk(PullParent(h, o, how), "parent", {}, <<>>)
DistinctOf(w)            == Buffered(w, Unique(w.items))
OrderedOf(w, keys)       == Buffered(w, StableSort(w.items, keys))
ReversedOf(w, keys)      == Buffered(w, Reverse(StableSort(w.items, keys)))

PullDistinct(h, o, how) ==
  IF how = "next" THEN NextOfIt(h, o) ELSE DistinctOf(DrainedParent(h, o, how))

PullOrderBy(h, o, how) ==
  LET keys == <<Key(o.link)>> \o o.cmp
  IN  CASE how = "next"     -> NextOfIt(h, o)
        [] how = "forward"  -> OrderedOf(DrainedParent(h, o, "forward"), keys)
        [] how = "backward" -> ReversedOf(DrainedParent(h, o, "forward"), keys)

\* The comparators are handed up the chain to order_by.
PullThenBy(h, o, how) ==
  IF how = "next" THEN PullParent(h, o, how)
  ELSE PullParent([h EXCEPT ![o.parent].cmp = <<Key(o.link)>> \o o.cmp], o, how)

PullPart(h, o, how) ==
  IF Head(o.parts) = "parent" THEN PullParent(h, o, how) ELSE PullAux(h, o, how)

\* Mutant of ConcatStart: start does not clear the parts of the last time.
ConcatStartKeepsParts(o, how) ==
  [o EXCEPT !.counter = IF how = "forward" THEN 1 ELSE 0,
            !.aux     = o.src,
            !.parts   = @ \o IF how = "forward" THEN <<"parent", "src">>
                                                ELSE <<"src", "parent">>]

\* Mutant of ConcatStart: the second part is always started forward.
ConcatStartForward(o, how) ==
  [o EXCEPT !.counter = 1,
            !.aux     = o.src,
            !.parts   = IF how = "forward" THEN <<"parent", "src">>
                                           ELSE <<"src", "parent">>]

\* start: a fresh copy of src, and the order of the two parts.
ConcatStart(o, how) ==
  [o EXCEPT !.counter = IF how = "forward" THEN 1 ELSE 0,
            !.aux     = o.src,
            !.parts   = IF how = "forward" THEN <<"parent", "src">>
                                           ELSE <<"src", "parent">>]

\* The second part is started when the first one has come to its end.
OrNextPart(r) ==
  IF r.at.kind = "null" /\ Len(r.self.parts) > 1
  THEN PullPart(r.heap, [r.self EXCEPT !.parts = Tail(@)],
                IF r.self.counter = 1 THEN "forward" ELSE "backward")
  ELSE r

PullConcat(h, o, how) ==
  OrNextPart(PullPart(h, IF how = "next" THEN o ELSE ConcatStart(o, how), how))

\* std::find in what except was given, for what at points to meanwhile.
RECURSIVE Find(_, _, _, _)
Find(r, o, at, rounds) ==
  CASE rounds = 0 -> [r EXCEPT !.at = Lost]
    [] r.at.kind # "item" \/ r.at.val = Deref([r EXCEPT !.self = o], at) -> r
    [] OTHER -> Find(Pull(r.heap, r.self, "next"), o, at, rounds - 1)

\* The parent's items that are not found: r is the parent, found the search.
RECURSIVE Sift(_, _), Sifted(_, _, _)
Sift(r, rounds) ==
  IF r.at.kind # "item" THEN r
  ELSE Sifted(r, Find(Pull(r.heap, r.self.src, "forward"), r.self, r.at, Patience),
              rounds)

Sifted(r, found, rounds) ==
  LET kept == Pulled(found.heap, r.self, r.at)
  IN  CASE found.at.kind = "lost" \/ rounds = 0 -> [kept EXCEPT !.at = Lost]
        [] found.at.kind = "item" ->
             Sift(PullParent(found.heap, r.self, "next"), rounds - 1)
        [] OTHER -> [kept EXCEPT !.at.val = Deref(kept, r.at)]

PullExcept(h, o, how) == Sift(PullParent(h, o, how), Patience)

\* i is what the parent was pulled for, j is what the copy of src was.
Zipped(i, j) ==
  CASE "lost" \in {i.at.kind, j.at.kind} -> Pulled(j.heap, j.self, Lost)
    [] "null" \in {i.at.kind, j.at.kind} -> Pulled(j.heap, j.self, Null)
    [] OTHER -> Made(j, ZipWith(Deref(j, i.at), j.at.val))

ZipAfter(i, how) == Zipped(i, PullAux(i.heap, i.self, how))

PullZip(h, o, how) ==
  ZipAfter(PullParent(h, IF how = "next" THEN o ELSE [o EXCEPT !.aux = o.src], how),
           how)

Pull(h, o, how) ==
  CASE o.link.op = "from"             -> PullFrom(h, o, how)
    [] o.link.op = "where"            -> PullWhere(h, o, how)
    [] o.link.op = "take"             -> PullTake(h, o, how)
    [] o.link.op = "take_while"       -> PullTakeWhile(h, o, how)
    [] o.link.op = "skip"             -> PullSkip(h, o, how)
    [] o.link.op = "skip_while"       -> PullSkipWhile(h, o, how)
    [] o.link.op = "reverse"          -> PullReverse(h, o, how)
    [] o.link.op = "select"           -> PullSelect(h, o, how)
    [] o.link.op = "default_if_empty" -> PullDefault(h, o, how)
    [] o.link.op = "distinct"         -> PullDistinct(h, o, how)
    [] o.link.op = "order_by"         -> PullOrderBy(h, o, how)
    [] o.link.op = "then_by"          -> PullThenBy(h, o, how)
    [] o.link.op = "concat"           -> PullConcat(h, o, how)
    [] o.link.op = "except"           -> PullExcept(h, o, how)
    [] o.link.op = "zip"              -> PullZip(h, o, how)

-----------------------------------------------------------------------------
(* What a client asks of a query o that it holds. *)

Out(kind, val) == [kind |-> kind, val |-> val]

\* The call has pulled w and comes to out, unless a pull was lost.
Finish(w, out) ==
  [heap |-> w.heap, self |-> w.self,
   out  |-> IF w.at.kind = "lost" THEN Out("lost", <<>>) ELSE out]

Started(o, how)     == Pull(heap, o, how)
Drained(o)          == Walk(Started(o, "forward"), "self", {}, <<>>)
FirstIn(o, how, p)  == Walk(Started(o, how), "self", p, <<>>)

Bool(b) == <<IF b THEN 1 ELSE 0>>

\* The item w has come to, or the error of a call that needs one.
ItemOut(w) ==
  IF w.at.kind = "item" THEN Out("value", <<w.at.val>>) ELSE Out("throw", <<>>)

\* vector, list, set, map, sum and average read all items, one by one.
Vector(w) == Finish(w, Out("value", w.items))

Count(w, p) ==
  Finish(w, Out("value", <<Len(SelectSeq(w.items, LAMBDA v : v \in p))>>))

\* any, all and contains stop at the first item that decides.
AnyOf(w) == Finish(w, Out("value", Bool(w.at.kind = "item")))

\* element_at, first and last.
OneItem(w) == Finish(w, ItemOut(w))

\* i is the first item found, n the second one.  The second search overwrites
\* an item that a link has made.
SingleOf(i, n, except) ==
  CASE i.at.kind = "lost" \/ (i.at.kind = "null" /\ except) ->
         Finish(i, Out("throw", <<>>))
    [] n.at.kind = "item" -> Finish(n, Out("throw", <<>>))
    [] i.at.kind = "null" -> Finish(n, Out("value", <<0>>))
    [] OTHER              -> Finish(n, Out("value", <<Deref(n, i.at)>>))

Single(i, p, except) ==
  SingleOf(i, Walk(PullNext(i, "self"), "self", p, <<>>), except)

MinMax(w) ==
  Finish(w, IF w.items = <<>> THEN Out("throw", <<>>)
            ELSE Out("value", <<CHOOSE m \in ToSet(w.items) :
                                  \A v \in ToSet(w.items) : m <= v>>))

\* Both sequences side by side: r pulls the one, then s the copy of the other.
RECURSIVE SameItems(_, _, _), SameAfter(_, _, _, _)
SameItems(r, s, rounds) ==
  LET kinds     == {r.at.kind, s.at.kind}
      Ends(out) == Finish([s EXCEPT !.self = r.self], out)
  IN  CASE "lost" \in kinds \/ rounds = 0 -> Ends(Out("lost", <<>>))
        [] "null" \in kinds -> Ends(Out("value", Bool(TRUE)))
        [] Deref([r EXCEPT !.heap = s.heap], r.at) # s.at.val ->
             Ends(Out("value", Bool(FALSE)))
        [] OTHER ->
             SameAfter(Pull(s.heap, r.self, "next"), s.self, "next", rounds - 1)

SameAfter(r, o, how, rounds) == SameItems(r, Pull(r.heap, o, how), rounds)

\* s has counted the items of the copy, t those of the query.
SameCounted(s, t) ==
  IF "lost" \in {s.at.kind, t.at.kind} THEN Finish(t, Out("lost", <<>>))
  ELSE IF Len(s.items) # Len(t.items) THEN Finish(t, Out("value", Bool(FALSE)))
  ELSE SameAfter(Pull(t.heap, t.self, "forward"), s.self, "forward", Patience)

DrainedAfter(w, o) == Walk(Pull(w.heap, o, "forward"), "self", {}, <<>>)
SameDrained(o, s)  == SameCounted(s, DrainedAfter(s, o))

SequenceEqual(o, src) == SameDrained(o, Drained(src))

(***************************************************************************)
(* aggregate compares begin() with end(), and then has begin() evaluated   *)
(* twice more as arguments of std::accumulate, in an order that C++ leaves *)
(* to the compiler: once for the initial value, once for the first of the  *)
(* other items.  Each begin() starts a copy of o.                          *)
(***************************************************************************)
BeginAfter(r, o) == Pull(r.heap, o, "forward")
Second(r)        == PullNext(r, "self")

\* init is the initial value, rest has come to the end of the other items.
Accumulated(o, init, rest) ==
  Finish([rest EXCEPT !.self = o], Out("value", <<init.at.val>> \o rest.items))

InitThenOthers(o, init) ==
  Accumulated(o, init, Walk(Second(BeginAfter(init, o)), "self", {}, <<>>))

\* The initial value is evaluated last and restarts the links below: what
\* other points to is read after that.
OthersThenInit(o, other, init) ==
  LET here == [other EXCEPT !.heap = init.heap]
  IN  Accumulated(o, init,
        Walk([here EXCEPT !.at.val = Deref(here, here.at)], "self", {}, <<>>))

OthersFirst(o, other) == OthersThenInit(o, other, BeginAfter(other, o))

AggregateAfter(o, test, initFirst) ==
  IF test.at.kind # "item"
  THEN Finish([test EXCEPT !.self = o], Out("value", <<>>))
  ELSE IF initFirst THEN InitThenOthers(o, BeginAfter(test, o))
  ELSE OthersFirst(o, Second(BeginAfter(test, o)))

Aggregate(o, initFirst) == AggregateAfter(o, Started(o, "forward"), initFirst)

-----------------------------------------------------------------------------
(* What a query promises: the sequence it stands for. *)

RECURSIVE ItemsBy(_, _)
Items(o) == ItemsBy(o, <<>>)

Passing(s, p)   == SelectSeq(s, LAMBDA v : v \in p)
LeadingIn(s, p) == CHOOSE n \in 0 .. Len(s) :
                     /\ \A k \in 1 .. n : s[k] \in p
                     /\ n < Len(s) => s[n + 1] \notin p
Least(m, n)     == IF m < n THEN m ELSE n

\* The items of o; those of order_by by further keys, which then_by adds.
ItemsBy(o, keys) ==
  LET link == o.link
      up   == Items(heap[o.parent])
      n    == Least(link.n, Len(up))
  IN  CASE link.op = "from"       -> IF link.n = 1 THEN container ELSE Literal
        [] link.op = "where"      -> Passing(up, link.p)
        [] link.op = "take"       -> SubSeq(up, 1, n)
        [] link.op = "take_while" -> SubSeq(up, 1, LeadingIn(up, link.p))
        [] link.op = "skip"       -> SubSeq(up, n + 1, Len(up))
        [] link.op = "skip_while" -> SubSeq(up, LeadingIn(up, link.p) + 1, Len(up))
        [] link.op = "reverse"    -> Reverse(up)
        [] link.op = "select"     -> [k \in DOMAIN up |-> link.f[up[k]]]
        [] link.op = "distinct"   -> Unique(up)
        [] link.op = "order_by"   -> StableSort(up, <<Key(link)>> \o keys)
        [] link.op = "then_by"    -> ItemsBy(heap[o.parent], <<Key(link)>> \o keys)
        [] link.op = "concat"     -> up \o Items(o.src)
        [] link.op = "except"     -> Passing(up, Int \ ToSet(Items(o.src)))
        [] link.op = "zip"        ->
             [k \in 1 .. Least(Len(up), Len(Items(o.src))) |->
                ZipWith(up[k], Items(o.src)[k])]
        [] link.op = "default_if_empty" -> IF up = <<>> THEN <<link.n>> ELSE up

\* What a call must come to, given the items of the query.
Promised(items, call, others) ==
  LET hits    == Passing(items, call.p)
      OneOf(s, k) == IF k \in DOMAIN s THEN Out("value", <<s[k]>>)
                                       ELSE Out("throw", <<>>)
      Singled(none) == CASE Len(hits) = 0 -> none
                         [] Len(hits) = 1 -> Out("value", hits)
                         [] OTHER         -> Out("throw", <<>>)
  IN  CASE call.kind \in {"vector", "aggregate"} -> Out("value", items)
        [] call.kind = "count"          -> Out("value", <<Len(hits)>>)
        [] call.kind = "any"            -> Out("value", Bool(hits # <<>>))
        [] call.kind = "element_at"     -> OneOf(items, call.n + 1)
        [] call.kind = "first"          -> OneOf(hits, 1)
        [] call.kind = "last"           -> OneOf(hits, Len(hits))
        [] call.kind = "min"            -> OneOf(StableSort(items, Ascending), 1)
        [] call.kind = "sequence_equal" -> Out("value", Bool(items = others))
        [] call.kind = "single"         -> Singled(Out("throw", <<>>))
        [] call.kind = "single_or_default" -> Singled(Out("value", <<0>>))

-----------------------------------------------------------------------------
(* The client. *)

\* The links that o shares with whatever else reaches them.
RECURSIVE Upstream(_)
Upstream(o) ==
  IF o = NoQuery \/ o.parent = 0 THEN {}
  ELSE {o.parent} \union Upstream(heap[o.parent]) \union Upstream(o.src)

Shares(o, other) == Upstream(o) \intersect Upstream(other) # {}

\* zip and except pull two queries in turns, which must not share links.
RECURSIVE Separate(_)
Separate(o) ==
  \/ o.parent = 0
  \/ /\ Separate(heap[o.parent])
     /\ o.src # NoQuery => Separate(o.src)
     /\ o.link.op \in {"zip", "except"} => ~ Shares(heap[o.parent], o.src)

\* These links have been pulled: iterators that use them have lost their place,
\* and what they have seen is of no interest any more.
Disturbed(links) ==
  [k \in DOMAIN iters |->
     IF links \intersect Upstream(iters[k].self) = {} THEN iters[k]
     ELSE [iters[k] EXCEPT !.intact = FALSE, !.seen = <<>>]]

Init ==
  /\ container \in Contents
  /\ heap = <<>>
  /\ queries = <<From(1)>>
  /\ iters = <<>>
  /\ gone = FALSE
  /\ uses = 0

\* The bound on what a client does.
MoreSteps == Len(queries) - 1 + uses < MaxSteps
Use       == MoreSteps /\ uses' = uses + 1

\* q.where(...), q.take(...), and the others: nothing is pulled yet.
Chain(q, link) ==
  /\ Len(queries) < MaxQueries /\ MoreSteps
  /\ \E src \in IF link.op \in Binary THEN 0 .. Len(queries) ELSE {-1} :
       queries' = Append(queries,
                    New(link, Len(heap) + 1,
                        CASE src = -1 -> NoQuery
                          [] src = 0  -> From(2)
                          [] OTHER    -> queries[src]))
  /\ heap' = Append(heap, queries[q])
  /\ UNCHANGED <<container, iters, gone, uses>>

\* What a call comes to: the heap, the query and the result.
Answer(o, call) ==
  CASE call.kind = "vector"     -> Vector(Drained(o))
    [] call.kind = "count"      -> Count(Drained(o), call.p)
    [] call.kind = "any"        -> AnyOf(FirstIn(o, "forward", call.p))
    [] call.kind = "element_at" ->
         OneItem(Hop(Started(o, "forward"), "self", call.n))
    [] call.kind = "first"      -> OneItem(FirstIn(o, "forward", call.p))
    [] call.kind = "last"       -> OneItem(FirstIn(o, "backward", call.p))
    [] call.kind = "min"        -> MinMax(Drained(o))
    [] call.kind \in {"single", "single_or_default"} ->
         Single(FirstIn(o, "forward", call.p), call.p, call.kind = "single")

\* The call on query q has come to r, and has pulled these links.
Called(q, r, links) ==
  /\ Use
  /\ heap' = r.heap
  /\ queries' = [queries EXCEPT ![q] = r.self]
  /\ iters' = Disturbed(links)
  /\ gone' = (r.out.kind = "lost")
  /\ UNCHANGED container

Ask(q, call) == Called(q, Answer(queries[q], call), Upstream(queries[q]))

AskAggregate(q, initFirst) ==
  Called(q, Aggregate(queries[q], initFirst), Upstream(queries[q]))

AskEqual(q, other) ==
  Called(q, SequenceEqual(queries[q], queries[other]),
         Upstream(queries[q]) \union Upstream(queries[other]))

\* begin or rbegin: an iterator holds a copy of the query and starts it.
Begin(q, how) ==
  /\ Use
  /\ \E r \in {Pull(heap, queries[q], how)} :
       /\ heap' = r.heap
       /\ iters' = Append(Disturbed(Upstream(queries[q])),
                    [self |-> r.self, how |-> how, kind |-> r.at.kind,
                     intact |-> Separate(r.self),
                     seen |-> IF r.at.kind = "item" THEN <<r.at.val>> ELSE <<>>])
       /\ gone' = (r.at.kind = "lost")
  /\ UNCHANGED <<container, queries>>

\* operator++ of an iterator that is not at its end; the client reads the item.
Advance(k) ==
  /\ iters[k].kind = "item"
  /\ \E r \in {Pull(heap, iters[k].self, "next")} :
       /\ heap' = r.heap
       /\ iters' = [Disturbed(Upstream(iters[k].self)) EXCEPT ![k] =
                     [iters[k] EXCEPT
                        !.self = r.self, !.kind = r.at.kind,
                        !.seen = IF r.at.kind = "item" /\ iters[k].intact
                                 THEN Append(@, r.at.val) ELSE @]]
       /\ gone' = (r.at.kind = "lost")
  /\ UNCHANGED <<container, queries, uses>>

\* The client changes the container, and gives up its iterators for that.
Modify ==
  /\ Use
  /\ container' \in Contents \ {container}
  /\ iters' = <<>>
  /\ UNCHANGED <<heap, queries, gone>>

Next ==
  /\ ~ gone
  /\ \/ \E q \in DOMAIN queries :
           \/ \E link \in Links : Chain(q, link)
           \/ \E call \in Calls : Ask(q, call)
           \/ \E initFirst \in BOOLEAN : AskAggregate(q, initFirst)
           \/ \E other \in DOMAIN queries : AskEqual(q, other)
           \/ \E how \in {"forward", "backward"} : Begin(q, how)
     \/ \E k \in DOMAIN iters : Advance(k)
     \/ Modify

Spec == Init /\ [][Next]_vars

-----------------------------------------------------------------------------
(* Where the code does not keep the promise. *)

\* Links that count or compare from the front do so from the back when they
\* are pulled backward: reverse and last do not see their items reversed.
RECURSIVE Orderly(_, _)
Orderly(o, how) ==
  LET op == o.link.op
      Up(way) == Orderly(heap[o.parent], way)
  IN  CASE op = "from"     -> TRUE
        [] op = "order_by" -> Up("forward")
        [] op = "reverse"  -> Up(IF how = "forward" THEN "backward" ELSE "forward")
        [] op \in {"take", "take_while", "skip", "skip_while", "distinct"} ->
             how = "forward" /\ Up(how)
        [] op = "zip"      -> how = "forward" /\ Up(how) /\ Orderly(o.src, how)
        [] op = "concat"   -> Up(how) /\ Orderly(o.src, how)
        [] op = "except"   -> Up(how) /\ Orderly(o.src, "forward")
        [] OTHER           -> Up(how)

RECURSIVE UsesTakeWhile(_)
UsesTakeWhile(o) ==
  /\ o.parent # 0
  /\ \/ o.link.op = "take_while"
     \/ UsesTakeWhile(heap[o.parent])
     \/ o.src # NoQuery /\ UsesTakeWhile(o.src)

\* take_while is asked for more when its parent has no more, or when it has
\* come to its own end.
RECURSIVE RunsOff(_)
RunsOff(o) ==
  /\ o.parent # 0
  /\ LET up == heap[o.parent]
     IN  \/ RunsOff(up)
         \/ o.src # NoQuery /\ RunsOff(o.src)
         \/ o.link.op = "take_while" /\ ToSet(Items(up)) \subseteq o.link.p
         \/ /\ o.link.op = "default_if_empty"
            /\ UsesTakeWhile(up) /\ Items(up) = <<>>

\* The items of o are made one after the other in the same place.
RECURSIVE Remakes(_)
Remakes(o) ==
  CASE o.link.op \in {"select", "zip"}                -> TRUE
    [] o.link.op \in {"from", "distinct", "order_by"} -> FALSE
    [] o.link.op = "concat" -> Remakes(heap[o.parent]) \/ Remakes(o.src)
    [] OTHER                -> Remakes(heap[o.parent])

Sound(o, how) == Orderly(o, how) /\ Separate(o) /\ ~ RunsOff(o)

-----------------------------------------------------------------------------
(* Properties. *)

\* Objects hold what the code keeps in them.
TypeOK ==
  /\ container \in Contents
  /\ \A o \in DOMAIN heap : heap[o].parent \in 0 .. o - 1
  /\ \A q \in DOMAIN queries :
       LET o == queries[q]
       IN  /\ o.it \in Seq(Values) /\ o.item \in Values /\ o.counter \in Nat
           /\ Len(o.parts) <= 2
           /\ o.parent \in 0 .. Len(heap)
  /\ \A k \in DOMAIN iters :
       /\ iters[k].kind \in {"item", "null", "lost"}
       /\ iters[k].seen \in Seq(Values) /\ iters[k].intact \in BOOLEAN
  /\ gone \in BOOLEAN /\ uses \in 0 .. MaxSteps

(***************************************************************************)
(* Whatever a client has done before, iterated half-way, asked and changed *)
(* in the container, with this query or with others that share its links,  *)
(* each call comes to what the query's items are at that moment: every     *)
(* link is set back by start, and no buffer, counter or comparator of an   *)
(* earlier pull shows (query.hpp:49-355, 376-558, 608-697).  Excepted are  *)
(* the combinations that the operators above describe, and aggregate where *)
(* the compiler has the first of the other items evaluated first.          *)
(***************************************************************************)
AnswersAreRight ==
  ~ gone =>
    \A q \in DOMAIN queries :
      LET o     == queries[q]
          items == Items(o)
          ahead == Sound(o, "forward")
          back  == Sound(o, "backward")
          Right(r, call, others) == r.out = Promised(items, call, others)
      IN  /\ \A call \in Calls :
               /\ IF call.kind = "last" THEN back ELSE ahead
               /\ call.kind \in {"single", "single_or_default"} => ~ Remakes(o)
               /\ call.kind = "single_or_default" => ~ UsesTakeWhile(o)
               => Right(Answer(o, call), call, <<>>)
          /\ \A initFirst \in BOOLEAN :
               ahead /\ (initFirst \/ o.parent = 0)
               => Right(Aggregate(o, initFirst),
                        [kind |-> "aggregate", p |-> {}], <<>>)
          /\ \A other \in DOMAIN queries :
               LET s == queries[other]
               IN  ahead /\ ~ Shares(o, s) /\ Sound(s, "forward")
                   => Right(SequenceEqual(o, s),
                            [kind |-> "sequence_equal", p |-> {}], Items(s))

(***************************************************************************)
(* Iterators do not disturb each other as long as they share no links: an  *)
(* iterator, forward or backward, whose links nothing else has pulled      *)
(* since begin(), has come past the query's items in their order, and it   *)
(* is at its end when it has come past all of them (query.hpp:520-561).    *)
(***************************************************************************)
IteratorsAreRight ==
  \A k \in DOMAIN iters :
    LET iter  == iters[k]
        items == IF iter.how = "forward" THEN Items(iter.self)
                                         ELSE Reverse(Items(iter.self))
    IN  iter.intact /\ Sound(iter.self, iter.how) =>
          /\ IsPrefix(iter.seen, items)
          /\ iter.kind # "lost"
          /\ iter.kind = "null" => iter.seen = items
=============================================================================
