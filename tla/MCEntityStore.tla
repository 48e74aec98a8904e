--------------------------- MODULE MCEntityStore ---------------------------
(* EntityStore for TLC: eight classes, six of them with documents of their own. *)
EXTENDS EntityStore, TLC

MCNames == <<"0", "1", "a", "m", "n", "p", "s", "v", "x", "y">>

MCIndexNames == <<"0", "1">>

Whole32 == Simple("int")
String == Simple("string")
Pair == Entity("Pair")

(***************************************************************************)
(* Node: pointers that share and cycle.  Scalar: one member of each kind   *)
(* of number or text, one of them named as the first item of an array is.  *)
(* List: containers of entities.  Owner: containers of pointers.  Mixed:   *)
(* binary, a tree, containers of texts and numbers.  Tagged: what it has   *)
(* from Label, where n is a const reference.                               *)
(***************************************************************************)
MCClasses ==
  [Node   |-> Mapped([n |-> PointerTo(Entity("Node")), p |-> PointerTo(Entity("Node")),
                      v |-> Whole32]),
   Pair   |-> Terse([x |-> Whole32, y |-> Simple("bool")]),
   Scalar |-> Mapped(("0" :> Whole32) @@
                     [a |-> Simple("bool"), m |-> Simple("double"), n |-> Enum,
                      p |-> FilePath, v |-> Simple("long"), x |-> Whole32]),
   List   |-> Mapped([a |-> ArrayOf(Pair, 2), m |-> MapOf(Pair), s |-> SetOf(Pair),
                      v |-> VectorOf(Pair)]),
   Owner  |-> Mapped([m |-> MapOf(PointerTo(Pair)), p |-> PointerTo(VectorOf(Pair)),
                      s |-> SetOf(PointerTo(Pair)), v |-> VectorOf(PointerTo(Pair))]),
   Label  |-> Mapped([n |-> Const(String), y |-> VectorOf(String)]),
   Tagged |-> Merged("Label", [n |-> Whole32, x |-> Whole32]),
   Mixed  |-> Mapped([a |-> Simple("binary"), s |-> SetOf(Whole32), v |-> Dynamic,
                      y |-> VectorOf(String)])]

NodeObject(n, p) ==
  [type |-> Entity("Node"), value |-> [n |-> n, p |-> p, v |-> <<0>>]]

\* Two nodes in every shape, three that the first one leads to.
NodeHeaps ==
  {<<NodeObject(w[1], w[2]), NodeObject(w[3], w[4])>> :
     w \in {0, 2} \X {2} \X (0 .. 2) \X {0}}
    \union
  {<<NodeObject(2, p), NodeObject(3, 3), NodeObject(0, x)>> : p \in {2, 3}, x \in {0, 3}}

MCInitialHeaps ==
  NodeHeaps \union {<<New(Entity(c))>> : c \in DOMAIN MCClasses \ {"Node", "Pair", "Label"}}

One(name, d) == ObjectDoc(<<Member(name, d)>>)
Two(name, d, other, e) == ObjectDoc(<<Member(name, d), Member(other, e)>>)

Number(n)  == Doc("Integer", <<n>>)
Halves(h)  == Doc("Floating", <<h>>)
Flag       == Doc("Boolean", <<1>>)
Word       == Doc("String", <<49>>)
Bytes      == Doc("Binary", <<5>>)
PairDoc(n) == Two("x", Number(n), "y", Flag)
Bad        == One("y", NullDoc)

Power(h)   == Doc("Exponent", <<h>>)

Nothing == ObjectDoc(<<>>)

\* For Node: each pointer left out, null, an object, or an object with a null.
NodeValues == {NullDoc, Nothing, One("v", Number(1)), One("n", Nothing),
               One("n", One("p", Nothing)), One("p", NullDoc), Word}

NodePairs == {NullDoc, One("v", Number(1)), One("n", One("p", Nothing)), One("p", NullDoc)}

NodeDocuments ==
  {One(name, d) : name \in {"n", "p"}, d \in NodeValues}
    \union {Two("n", d, "p", e) : d, e \in NodePairs}
    \union {Two("p", NullDoc, "n", One("n", Nothing)), One("y", Word), ArrayDoc(<<Word>>)}

Wide == {-5, 3, 5, 9}

ScalarDocuments ==
  {One(name, d) : name \in {"a", "m", "n", "p", "v", "x"},
                  d \in {Number(-2), Halves(3), Halves(9), Flag, Word, NullDoc, Nothing}}
    \union {One(name, Number(n)) : name \in {"m", "v", "x"}, n \in Wide}
    \union {One(name, Doc("Long", <<n>>)) : name \in {"v", "n", "m"}, n \in Wide}
    \union {One(name, Power(h)) : name \in {"m", "v", "x"}, h \in {8, 16}}
    \union {ArrayDoc(<<Number(2), Flag>>), ArrayDoc(<<Word>>), One("0", Number(1)),
            One("m", Doc("Floating", NaN)), One("m", Halves(8)), Two("x", Number(2), "a", Flag),
            Two("x", Number(9), "v", Number(2)), Two("v", Number(2), "x", Number(5)),
            One("n", Number(9)), One("p", Bytes), One("a", Doc("Other", <<>>))}

ListValues ==
  {ArrayDoc(<<>>), ArrayDoc(<<PairDoc(1)>>), ArrayDoc(<<PairDoc(1), One("x", Number(2))>>),
   ArrayDoc(<<PairDoc(1), Bad, PairDoc(2)>>), ArrayDoc(<<One("y", Flag), PairDoc(2)>>),
   ArrayDoc(<<PairDoc(1), One("x", Number(9))>>),
   ArrayDoc(<<PairDoc(1), PairDoc(2), ArrayDoc(<<>>)>>), NullDoc, Word}

MapValues == {Nothing, One("a", PairDoc(1)), Two("a", One("y", Flag), "x", Nothing),
              Two("x", Nothing, "a", One("x", Number(2))), ArrayDoc(<<>>)}

ListDocuments ==
  {One(name, d) : name \in {"a", "s", "v"}, d \in ListValues}
    \union {One("m", d) : d \in MapValues}
    \union {Two("a", ArrayDoc(<<PairDoc(2)>>), "v", d) : d \in ListValues}

OwnerDocuments ==
  {One(name, d) : name \in {"p", "s", "v"}, d \in ListValues}
    \union {One("m", d) : d \in MapValues}
    \union {One("v", ArrayDoc(<<NullDoc, PairDoc(1)>>)), One("v", ArrayDoc(<<PairDoc(1), NullDoc>>)),
            One("m", One("a", NullDoc))}

DynamicValues ==
  {NullDoc, Bytes, Power(8), Halves(4), Halves(3), Doc("Floating", NaN), Number(5), Word,
   One("a", ArrayDoc(<<Number(1), Bytes>>)), ArrayDoc(<<Nothing, Flag>>),
   Doc("Long", <<7>>), Doc("Other", <<>>)}

MixedDocuments ==
  {One("v", d) : d \in DynamicValues}
    \union {One("a", Bytes), One("a", Word), One("a", Doc("String", <<66, 81, 61, 61>>)),
            One("a", Number(1)),
            One("s", ArrayDoc(<<Number(2), Number(1), Number(2)>>)),
            One("s", ArrayDoc(<<Number(2), Word>>)), Two("s", ArrayDoc(<<Number(1)>>), "s", NullDoc),
            One("y", ArrayDoc(<<Word, Number(1)>>)), One("y", ArrayDoc(<<Word>>)),
            One("y", ArrayDoc(<<Bytes>>))}

TaggedDocuments ==
  {One("n", Word), One("n", Number(1)), One("n", Nothing), One("x", Number(1)),
   Two("n", Number(1), "x", Number(2)), Two("n", Word, "x", Number(2)),
   One("y", ArrayDoc(<<Word>>))}

MCDocuments ==
  [Node |-> NodeDocuments, Scalar |-> ScalarDocuments, List |-> ListDocuments,
   Owner |-> OwnerDocuments, Mixed |-> MixedDocuments,
   Tagged |-> TaggedDocuments, Pair |-> {Bad}, Label |-> {Bad}]
=============================================================================
