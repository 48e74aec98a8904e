---------------------------- MODULE MCQueryChain ----------------------------
(***************************************************************************)
(* QueryChain on a container of three items with one that comes twice, and *)
(* on an empty one, with two links after the first query: every pair of    *)
(* links, and every query derived from the same one twice.                 *)
(***************************************************************************)
EXTENDS QueryChain

MCValues   == 0 .. 3
MCContents == {<<3, 2, 3>>, <<>>}
MCLiteral  == <<1, 2>>

MCZip(a, b) == (2 * a + b) % 4

Odd == {1, 3}

Link(op, p, n, f) == [op |-> op, p |-> p, n |-> n, f |-> f]
Same   == [v \in MCValues |-> v]
Half   == [v \in MCValues |-> v \div 2]
Other  == [v \in MCValues |-> 3 - v]

MCLinks ==
  {Link("where", Odd, 0, Same), Link("take", {}, 2, Same),
   Link("take_while", Odd, 0, Same), Link("skip", {}, 1, Same),
   Link("skip_while", {3}, 0, Same), Link("reverse", {}, 0, Same),
   Link("select", {}, 0, Other), Link("distinct", {}, 0, Same),
   Link("order_by", {}, 0, Half), Link("then_by", {}, 1, Same),
   Link("default_if_empty", {}, 2, Same),
   Link("concat", {}, 0, Same), Link("except", {}, 0, Same),
   Link("zip", {}, 0, Same)}

Call(kind, p, n) == [kind |-> kind, p |-> p, n |-> n]

MCCalls ==
  {Call("vector", {}, 0), Call("count", Odd, 0), Call("any", {3}, 0),
   Call("element_at", {}, 1), Call("first", {1, 2}, 0), Call("last", MCValues, 0),
   Call("min", {}, 0), Call("single", {2}, 0), Call("single_or_default", {3}, 0)}
=============================================================================
