---------------------------- MODULE ObjectGraph ----------------------------
(***************************************************************************)
(* Objects that hold smart pointers to one another: the data a vref for a  *)
(* std::shared_ptr or std::unique_ptr walks over.  An object is an entity  *)
(* (its slots are its members, in the order of the mapping) or a container *)
(* (its slots are its elements); a slot holds NULL or points to an object. *)
(***************************************************************************)
EXTENDS Naturals

CONSTANTS
  Objects,    \* the objects that can be on the heap
  NULL,       \* the null pointer
  NumSlots    \* how many pointer slots an object has

ASSUME NULLAssumption     == NULL \notin Objects
ASSUME NumSlotsAssumption == NumSlots \in Nat

Slots == 1 .. NumSlots

\* Every way the slots of the objects can point to each other.
Heaps == [Objects -> [Slots -> Objects \union {NULL}]]

\* The objects that o points to directly.
Succ(heap, o) == {heap[o][s] : s \in Slots} \ {NULL}

Closed(heap, S) == \A o \in S : Succ(heap, o) \subseteq S

(***************************************************************************)
(* The objects that can be reached from o over one pointer or more: what   *)
(* every closed set that holds the successors of o holds.                  *)
(***************************************************************************)
Reach(heap, o) ==
  {q \in Objects : \A S \in SUBSET Objects :
                      Succ(heap, o) \subseteq S /\ Closed(heap, S) => q \in S}

\* o and everything that can be reached from it.
Below(heap, o) == {o} \union Reach(heap, o)

OnCycle(heap, o) == o \in Reach(heap, o)

Acyclic(heap, o) == \A q \in Below(heap, o) : ~ OnCycle(heap, q)
=============================================================================
