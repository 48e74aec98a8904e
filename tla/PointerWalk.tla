---------------------------- MODULE PointerWalk ----------------------------
(***************************************************************************)
(* The recursion of libentity over smart pointers (vref/pointer.hpp), with *)
(* the entity and container vrefs it calls back into.                      *)
(*                                                                         *)
(* One run is one top-level call: encode, to_tree or modify, on a pointer  *)
(* or on an entity.  The C++ call stack is kept explicitly: calls holds a  *)
(* frame per entity or container being walked, and while pointer.hpp asks  *)
(* is_circular about an object, check holds a frame per nested is_circular *)
(* call.  Only encode asks: to_tree and modify follow a pointer at once.   *)
(***************************************************************************)
EXTENDS ObjectGraph, Sequences, FiniteSets

CONSTANTS
  Root,        \* the object the top-level call is made on
  StackLimit   \* how many frames fit on the C++ call stack

ASSUME RootAssumption       == Root \in Objects
ASSUME StackLimitAssumption == StackLimit \in Nat \ {0}

VARIABLES
  heap,       \* the object graph, which no walk changes
  op,         \* the operation that was called
  phase,      \* "walk", "check", or how the call has ended
  calls,      \* frames of encode/to_tree/modify, innermost last
  check,      \* frames of is_circular, innermost last
  ancestor,   \* the object is_circular looks for
  visits      \* how often each object has been walked into (history)

vars == <<heap, op, phase, calls, check, ancestor, visits>>

Ops    == {"encode", "to_tree", "modify"}
Ended  == {"done", "thrown", "overflow"}
Frames == [obj : Objects, slot : 1 .. NumSlots + 1]

\* A frame for o that is about to look at its first slot.
Enter(o) == [obj |-> o, slot |-> 1]

Top(stack) == stack[Len(stack)]

NextSlot(frame) == [obj |-> frame.obj, slot |-> frame.slot + 1]

\* The top frame has dealt with its slot and goes on with the next one.
Advance(stack) == [stack EXCEPT ![Len(stack)] = NextSlot(@)]

\* Mutant of Return: the caller goes on two slots further.
ReturnSkipsSlot(stack) ==
  [i \in 1 .. Len(stack) - 1 |->
     IF i = Len(stack) - 1 THEN NextSlot(NextSlot(stack[i])) ELSE stack[i]]

\* Mutant of Return: the caller does not go on, and calls again.
ReturnRepeats(stack) == SubSeq(stack, 1, Len(stack) - 1)

\* The top frame returns to its caller, which goes on with its next slot.
Return(stack) ==
  [i \in 1 .. Len(stack) - 1 |->
     IF i = Len(stack) - 1 THEN NextSlot(stack[i]) ELSE stack[i]]

HasSlot(stack) == Top(stack).slot <= NumSlots
Pointer(stack) == heap[Top(stack).obj][Top(stack).slot]
RoomOnStack    == Len(calls) + Len(check) < StackLimit

(***************************************************************************)
(* A call on an entity starts to walk its members; an encode of a pointer  *)
(* first asks is_circular about the object it points to.                   *)
(***************************************************************************)
InitEntity ==
  /\ phase = "walk"
  /\ calls = <<Enter(Root)>>
  /\ check = <<>>
  /\ visits = [o \in Objects |-> IF o = Root THEN 1 ELSE 0]

InitPointer ==
  /\ op = "encode"
  /\ phase = "check"
  /\ calls = <<>>
  /\ check = <<Enter(Root)>>
  /\ visits = [o \in Objects |-> 0]

Init ==
  /\ heap \in Heaps
  /\ op \in Ops
  /\ ancestor = Root
  /\ InitEntity \/ InitPointer

-----------------------------------------------------------------------------
(* The walk: encode, to_tree and modify of entities and containers. *)

\* Mutant of WalkNull: a null pointer ends the loop over the members.
WalkNullStops ==
  /\ phase = "walk"
  /\ HasSlot(calls)
  /\ Pointer(calls) = NULL
  /\ Len(calls) > 1
  /\ calls' = Return(calls)
  /\ UNCHANGED <<heap, op, phase, check, ancestor, visits>>

\* A null pointer: encode writes null, to_tree makes a null tree, modify
\* does nothing.
WalkNull ==
  /\ phase = "walk"
  /\ HasSlot(calls)
  /\ Pointer(calls) = NULL
  /\ calls' = Advance(calls)
  /\ UNCHANGED <<heap, op, phase, check, ancestor, visits>>

\* to_tree and modify follow the pointer as it is.
WalkInto ==
  /\ phase = "walk"
  /\ op # "encode"
  /\ HasSlot(calls)
  /\ Pointer(calls) # NULL
  /\ RoomOnStack
  /\ calls' = Append(calls, Enter(Pointer(calls)))
  /\ visits' = [visits EXCEPT ![Pointer(calls)] = @ + 1]
  /\ UNCHANGED <<heap, op, phase, check, ancestor>>

\* Mutant of WalkCheck: is_circular is asked about the outer ancestor.
WalkCheckOldAncestor ==
  /\ phase = "walk"
  /\ op = "encode"
  /\ HasSlot(calls)
  /\ Pointer(calls) # NULL
  /\ RoomOnStack
  /\ phase' = "check"
  /\ check' = <<Enter(Pointer(calls))>>
  /\ UNCHANGED <<heap, op, calls, ancestor, visits>>

\* Mutant of WalkCheck: the search starts at the owner of the pointer.
WalkCheckFromOwner ==
  /\ phase = "walk"
  /\ op = "encode"
  /\ HasSlot(calls)
  /\ Pointer(calls) # NULL
  /\ RoomOnStack
  /\ phase' = "check"
  /\ ancestor' = Pointer(calls)
  /\ check' = <<Enter(Top(calls).obj)>>
  /\ UNCHANGED <<heap, op, calls, visits>>

\* encode first calls is_circular(*item, item.get()).
WalkCheck ==
  /\ phase = "walk"
  /\ op = "encode"
  /\ HasSlot(calls)
  /\ Pointer(calls) # NULL
  /\ RoomOnStack
  /\ phase' = "check"
  /\ ancestor' = Pointer(calls)
  /\ check' = <<Enter(Pointer(calls))>>
  /\ UNCHANGED <<heap, op, calls, visits>>

\* All slots are dealt with: the frame returns to the one that called it.
WalkReturn ==
  /\ phase = "walk"
  /\ ~ HasSlot(calls)
  /\ calls' = Return(calls)
  /\ phase' = IF Len(calls) = 1 THEN "done" ELSE "walk"
  /\ UNCHANGED <<heap, op, check, ancestor, visits>>

-----------------------------------------------------------------------------
(* The check: is_circular of entities, containers and pointers. *)

CheckNull ==
  /\ phase = "check"
  /\ HasSlot(check)
  /\ Pointer(check) = NULL
  /\ check' = Advance(check)
  /\ UNCHANGED <<heap, op, phase, calls, ancestor, visits>>

\* Mutant of CheckFound: the circular reference is left out instead.
CheckFoundLeavesOut ==
  /\ phase = "check"
  /\ HasSlot(check)
  /\ Pointer(check) = ancestor
  /\ calls # <<>>
  /\ phase' = "walk"
  /\ check' = <<>>
  /\ calls' = Advance(calls)
  /\ UNCHANGED <<heap, op, ancestor, visits>>

\* item.get() == ancestor: every pending call returns true and encode throws.
CheckFound ==
  /\ phase = "check"
  /\ HasSlot(check)
  /\ Pointer(check) = ancestor
  /\ phase' = "thrown"
  /\ UNCHANGED <<heap, op, calls, check, ancestor, visits>>

\* Mutant of CheckInto: item.get() is not compared with the ancestor.
CheckIntoAncestor ==
  /\ phase = "check"
  /\ HasSlot(check)
  /\ Pointer(check) # NULL
  /\ RoomOnStack
  /\ check' = Append(check, Enter(Pointer(check)))
  /\ UNCHANGED <<heap, op, phase, calls, ancestor, visits>>

CheckInto ==
  /\ phase = "check"
  /\ HasSlot(check)
  /\ Pointer(check) \notin {NULL, ancestor}
  /\ RoomOnStack
  /\ check' = Append(check, Enter(Pointer(check)))
  /\ UNCHANGED <<heap, op, phase, calls, ancestor, visits>>

\* An inner is_circular returns false.
CheckReturn ==
  /\ phase = "check"
  /\ ~ HasSlot(check)
  /\ Len(check) > 1
  /\ check' = Return(check)
  /\ UNCHANGED <<heap, op, phase, calls, ancestor, visits>>

\* Mutant of CheckClear: is_circular gives up after the first members.
CheckClearEarly ==
  /\ phase = "check"
  /\ Len(check) = 1
  /\ phase' = "walk"
  /\ check' = <<>>
  /\ calls' = Append(calls, Enter(ancestor))
  /\ visits' = [visits EXCEPT ![ancestor] = @ + 1]
  /\ UNCHANGED <<heap, op, ancestor>>

\* The outermost is_circular returns false: encode walks into the object.
CheckClear ==
  /\ phase = "check"
  /\ ~ HasSlot(check)
  /\ Len(check) = 1
  /\ phase' = "walk"
  /\ check' = <<>>
  /\ calls' = Append(calls, Enter(ancestor))
  /\ visits' = [visits EXCEPT ![ancestor] = @ + 1]
  /\ UNCHANGED <<heap, op, ancestor>>

-----------------------------------------------------------------------------
\* A call that no longer fits on the C++ stack kills the process.
Overflow ==
  /\ ~ RoomOnStack
  /\ \/ /\ phase = "walk"
        /\ HasSlot(calls)
        /\ Pointer(calls) # NULL
     \/ /\ phase = "check"
        /\ HasSlot(check)
        /\ Pointer(check) \notin {NULL, ancestor}
  /\ phase' = "overflow"
  /\ UNCHANGED <<heap, op, calls, check, ancestor, visits>>

Next ==
  \/ WalkNull \/ WalkInto \/ WalkCheck \/ WalkReturn
  \/ CheckNull \/ CheckFound \/ CheckInto \/ CheckReturn \/ CheckClear
  \/ Overflow

Spec == Init /\ [][Next]_vars

\* A single thread runs the call, and nothing can keep it from its next step.
FairSpec == Spec /\ WF_vars(Next)

-----------------------------------------------------------------------------
(* Properties. *)

\* Values have their types, and the phase says which stack is in use.
TypeOK ==
  /\ heap \in Heaps
  /\ op \in Ops
  /\ phase \in {"walk", "check"} \union Ended
  /\ calls \in Seq(Frames)
  /\ check \in Seq(Frames)
  /\ ancestor \in Objects
  /\ visits \in [Objects -> Nat]
  /\ phase = "walk" => calls # <<>> /\ check = <<>>
  /\ phase = "check" => op = "encode" /\ check # <<>>

(***************************************************************************)
(* "Circular reference found" is never a false alarm: when encode throws,  *)
(* the object it was about to encode can be reached from itself.  A graph  *)
(* that only shares objects, however often, is encoded                     *)
(* (pointer.hpp:30-35, 105-108).                                           *)
(***************************************************************************)
ThrowIsSound == phase = "thrown" => OnCycle(heap, ancestor)

(***************************************************************************)
(* encode never has the same object under way twice, so its own recursion  *)
(* is bounded by the number of objects whatever the graph.  Only encode    *)
(* has this: nothing in to_tree and modify notices a second entry.         *)
(***************************************************************************)
NestingIsAcyclic ==
  op = "encode" =>
    \A i, j \in DOMAIN calls : calls[i].obj = calls[j].obj => i = j

(***************************************************************************)
(* An encode that comes to its end has written a graph without a cycle:    *)
(* no circular reference is left out or cut short in silence.              *)
(***************************************************************************)
DoneMeansAcyclic ==
  op = "encode" /\ phase = "done" => Acyclic(heap, Root)

(***************************************************************************)
(* What remains of the hazard: is_circular only compares with the object   *)
(* it was first asked about and keeps no set of visited objects.  encode   *)
(* runs out of stack only inside is_circular, and only when a cycle that   *)
(* the object leads to does not go through the object itself.  (The stack  *)
(* must hold two frames per object: StackLimit > 2 * |Objects|.)           *)
(***************************************************************************)
OverflowOnlyOffCycle ==
  op = "encode" /\ phase = "overflow" =>
    /\ check # <<>>
    /\ \E q \in Reach(heap, ancestor) :
         OnCycle([heap EXCEPT ![ancestor] = [s \in Slots |-> NULL]], q)

\* The choices of slots that lead from Root to o along n pointers.
PathsOfLength(n, o) ==
  {p \in [1 .. n -> Slots] :
     \E nodes \in [0 .. n -> Objects] :
       /\ nodes[0] = Root
       /\ nodes[n] = o
       /\ \A i \in 1 .. n : heap[nodes[i - 1]][p[i]] = nodes[i]}

Paths(o) ==
  UNION {PathsOfLength(n, o) : n \in 0 .. Cardinality(Objects) - 1}

(***************************************************************************)
(* encode, to_tree and modify treat every way that leads to an object as   *)
(* an object of its own: after a successful call an object has been walked *)
(* into once per path from the root (pointer.hpp:37, :124, :170), so that  *)
(* a shared object is written, or changed by a modifier, several times.    *)
(***************************************************************************)
VisitsCountPaths ==
  phase = "done" => \A o \in Objects : visits[o] = Cardinality(Paths(o))

(***************************************************************************)
(* What test vref.cpp:492 promises, "can check for circular references     *)
(* when smart pointers are involved": encode of a graph with a cycle is    *)
(* reported, not followed until the stack is full.  The code breaks it.    *)
(***************************************************************************)
CircularIsReported == op = "encode" => phase # "overflow"

\* Every call comes to an end: a result, an exception or a stack overflow.
Terminates == <>(phase \in Ended)

\* A call on a graph without cycles, however it shares objects, succeeds.
AcyclicSucceeds == Acyclic(heap, Root) => <>(phase = "done")
=============================================================================
