---------------------------- MODULE MCTreeStore ----------------------------
(* TreeStore for TLC: two variables, a tree of each type.  The double <<8>> is 4,
   which is also an Integer there, and the first that needs an exponent. *)
EXTENDS TreeStore, TLC

MCNames      == <<"0", "x">>
MCIndexNames == <<"0", "x">>

One(t) == ObjectTree("x" :> t)

MCLiterals ==
  {IntegerTree(9), Leaf("Floating", <<2>>), Leaf("Floating", <<8>>), Leaf("Binary", <<5>>),
   ArrayTree(<<IntegerTree(1)>>)}

MCInitialTrees ==
  {"t" :> v @@ "u" :> w :
     v \in {One(IntegerTree(4)), One(ArrayTree(<<>>)), ArrayTree(<<IntegerTree(2)>>)},
     w \in {One(Leaf("Floating", <<3>>)), One(NullTree), One(One(Leaf("Boolean", <<1>>))),
            Leaf("Floating", NaN), Leaf("String", <<49>>)}}
=============================================================================
