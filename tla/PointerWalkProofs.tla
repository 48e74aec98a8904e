------------------------- MODULE PointerWalkProofs -------------------------
(***************************************************************************)
(* Proofs about PointerWalk, for any number of objects and slots and any   *)
(* size of the stack.                                                      *)
(***************************************************************************)
EXTENDS PointerWalk, FiniteSetTheorems, WellFoundedInduction, TLAPS

-----------------------------------------------------------------------------
(* Reachability in the object graph. *)

\* What o points to is reachable from o, and Reach is closed under pointers.
LEMMA ReachClosed ==
  ASSUME NEW h \in Heaps, NEW o \in Objects
  PROVE  /\ Reach(h, o) \subseteq Objects
         /\ Succ(h, o) \subseteq Reach(h, o)
         /\ Closed(h, Reach(h, o))
<1>1. \A q \in Objects : Succ(h, q) \subseteq Objects
  BY DEF Heaps, Succ
<1>2. Reach(h, o) \subseteq Objects
  BY DEF Reach
<1>3. Succ(h, o) \subseteq Reach(h, o)
  BY <1>1 DEF Reach
<1>4. ASSUME NEW q \in Reach(h, o), NEW r \in Succ(h, q)
      PROVE  r \in Reach(h, o)
  <2>1. r \in Objects
    BY <1>1, <1>2, <1>4
  <2>2. ASSUME NEW S \in SUBSET Objects,
               Succ(h, o) \subseteq S, Closed(h, S)
        PROVE  r \in S
    <3>1. q \in S
      BY <1>4, <2>2 DEF Reach
    <3>2. QED
      BY <3>1, <1>4, <2>2 DEF Closed
  <2>3. QED
    BY <2>1, <2>2 DEF Reach
<1>5. QED
  BY <1>2, <1>3, <1>4 DEF Closed

\* Reach(o) is the least closed set that holds the successors of o.
LEMMA ReachLeast ==
  ASSUME NEW h \in Heaps, NEW o \in Objects, NEW S \in SUBSET Objects,
         Succ(h, o) \subseteq S, Closed(h, S)
  PROVE  Reach(h, o) \subseteq S
BY DEF Reach

\* Reachability is transitive.
LEMMA ReachTransitive ==
  ASSUME NEW h \in Heaps, NEW o \in Objects, NEW q \in Reach(h, o)
  PROVE  Reach(h, q) \subseteq Reach(h, o)
<1>1. Reach(h, o) \subseteq Objects /\ Closed(h, Reach(h, o))
  BY ReachClosed
<1>2. q \in Objects /\ Succ(h, q) \subseteq Reach(h, o)
  BY <1>1 DEF Closed
<1>3. QED
  BY <1>1, <1>2, ReachLeast

\* A way from o starts with a successor of o.
LEMMA ReachSplit ==
  ASSUME NEW h \in Heaps, NEW o \in Objects, NEW q \in Reach(h, o)
  PROVE  \E s \in Succ(h, o) : q \in Below(h, s)
<1> DEFINE S == UNION {Below(h, s) : s \in Succ(h, o)}
<1>1. Succ(h, o) \subseteq Objects
  BY DEF Heaps, Succ
<1>2. S \subseteq Objects
  BY <1>1, ReachClosed DEF Below
<1>3. Succ(h, o) \subseteq S
  BY DEF Below
<1>4. ASSUME NEW r \in S
      PROVE  Succ(h, r) \subseteq S
  <2>1. PICK s \in Succ(h, o) : r \in Below(h, s)
    BY <1>4
  <2>2. s \in Objects
    BY <1>1
  <2>3. Succ(h, r) \subseteq Reach(h, s)
    BY <2>1, <2>2, ReachClosed DEF Below, Closed
  <2>4. QED
    BY <2>3 DEF Below
<1>5. Closed(h, S)
  BY <1>4 DEF Closed
<1> HIDE DEF S
<1>6. q \in S
  BY <1>2, <1>3, <1>5, ReachLeast
<1>7. QED
  BY <1>6 DEF S

\* When everything o points to is free of cycles, so is o.
LEMMA AcyclicUp ==
  ASSUME NEW h \in Heaps, NEW o \in Objects,
         \A s \in Succ(h, o) : Acyclic(h, s)
  PROVE  Acyclic(h, o)
<1>1. ASSUME NEW q \in Reach(h, o)
      PROVE  ~ OnCycle(h, q)
  <2>1. PICK s \in Succ(h, o) : q \in Below(h, s)
    BY ReachSplit
  <2>2. QED
    BY <2>1 DEF Acyclic
<1>2. ~ OnCycle(h, o)
  BY <1>1 DEF OnCycle
<1>3. QED
  BY <1>1, <1>2 DEF Acyclic, Below

-----------------------------------------------------------------------------
(* Stacks of frames. *)

\* Each frame was entered through the slot its caller is at.
Linked(h, stack) ==
  \A i \in 1 .. Len(stack) - 1 :
    /\ stack[i].slot <= NumSlots
    /\ h[stack[i].obj][stack[i].slot] = stack[i + 1].obj

\* The objects in the slots that the frames have dealt with.
Passed(h, stack) ==
  {q \in Objects : \E i \in 1 .. Len(stack), s \in Slots :
                      s < stack[i].slot /\ q = h[stack[i].obj][s]}

\* To enter an object the caller points to, or a first one.
LEMMA EnterStack ==
  ASSUME NEW h \in Heaps, NEW stack \in Seq(Frames), NEW o \in Objects,
         Linked(h, stack),
         stack # <<>> =>
           HasSlot(stack) /\ h[Top(stack).obj][Top(stack).slot] = o
  PROVE  LET new == Append(stack, Enter(o)) IN
         /\ new \in Seq(Frames)
         /\ Len(new) = Len(stack) + 1
         /\ \A i \in 1 .. Len(stack) : new[i] = stack[i]
         /\ new[Len(new)].obj = o
         /\ Linked(h, new)
         /\ Passed(h, new) \subseteq Passed(h, stack)
<1> DEFINE new == Append(stack, Enter(o))
<1>1. Enter(o) \in Frames /\ Enter(o).slot = 1 /\ Enter(o).obj = o
  BY NumSlotsAssumption DEF Enter, Frames
<1>2. new \in Seq(Frames) /\ Len(new) = Len(stack) + 1
  BY <1>1
<1>3. \A i \in 1 .. Len(stack) : new[i] = stack[i]
  BY <1>1
<1>4. new[Len(new)] = Enter(o)
  BY <1>1
<1>5. Linked(h, new)
  <2> SUFFICES ASSUME NEW i \in 1 .. Len(new) - 1
               PROVE  /\ new[i].slot <= NumSlots
                      /\ h[new[i].obj][new[i].slot] = new[i + 1].obj
    BY DEF Linked
  <2>1. i \in 1 .. Len(stack) /\ new[i] = stack[i] /\ stack # <<>>
    BY <1>2, <1>3
  <2>2. CASE i = Len(stack)
    BY <2>1, <2>2, <1>1, <1>2, <1>4 DEF HasSlot, Top
  <2>3. CASE i # Len(stack)
    <3>1. i \in 1 .. Len(stack) - 1 /\ i + 1 \in 1 .. Len(stack)
      BY <2>1, <2>3
    <3>2. QED
      BY <3>1, <1>3 DEF Linked
  <2>4. QED
    BY <2>2, <2>3
<1>6. Passed(h, new) \subseteq Passed(h, stack)
  <2> SUFFICES ASSUME NEW q \in Objects, NEW i \in 1 .. Len(new),
                      NEW s \in Slots,
                      s < new[i].slot, q = h[new[i].obj][s]
               PROVE  q \in Passed(h, stack)
    BY DEF Passed
  <2>1. i # Len(new)
    BY <1>1, <1>4, NumSlotsAssumption DEF Slots
  <2>2. i \in 1 .. Len(stack) /\ new[i] = stack[i]
    BY <2>1, <1>2, <1>3
  <2>3. QED
    BY <2>2 DEF Passed
<1> HIDE DEF new
<1>7. QED
  BY <1>1, <1>2, <1>3, <1>4, <1>5, <1>6 DEF new

\* To go on with the next slot.
LEMMA AdvanceStack ==
  ASSUME NEW h \in Heaps, NEW stack \in Seq(Frames), stack # <<>>,
         Linked(h, stack), HasSlot(stack)
  PROVE  LET new == Advance(stack) IN
         /\ new \in Seq(Frames)
         /\ Len(new) = Len(stack)
         /\ \A i \in 1 .. Len(stack) : new[i].obj = stack[i].obj
         /\ Linked(h, new)
         /\ Passed(h, new) \subseteq
              Passed(h, stack) \union {h[Top(stack).obj][Top(stack).slot]}
<1> DEFINE new == Advance(stack)
           n   == Len(stack)
<1>1. n \in Nat \ {0} /\ stack[n] \in Frames
  OBVIOUS
<1>2. /\ stack[n].slot \in 1 .. NumSlots
      /\ stack[n].obj \in Objects
  BY <1>1, NumSlotsAssumption DEF Frames, HasSlot, Top
<1>3. new = [stack EXCEPT ![n] = NextSlot(stack[n])]
  BY DEF Advance
<1>4. NextSlot(stack[n]) \in Frames
  BY <1>1, <1>2, NumSlotsAssumption DEF Frames, NextSlot
<1>5. new \in Seq(Frames) /\ Len(new) = n
  BY <1>1, <1>3, <1>4
<1>6. \A i \in 1 .. n : i # n => new[i] = stack[i]
  BY <1>1, <1>3
<1>7. new[n].obj = stack[n].obj /\ new[n].slot = stack[n].slot + 1
  BY <1>1, <1>3 DEF NextSlot
<1> HIDE DEF new
<1>8. \A i \in 1 .. n : new[i].obj = stack[i].obj
  BY <1>6, <1>7
<1>9. Linked(h, new)
  BY <1>1, <1>5, <1>6, <1>8 DEF Linked
<1>10. Passed(h, new) \subseteq
         Passed(h, stack) \union {h[stack[n].obj][stack[n].slot]}
  <2> SUFFICES ASSUME NEW q \in Objects, NEW i \in 1 .. n, NEW s \in Slots,
                      s < new[i].slot, q = h[new[i].obj][s],
                      q # h[stack[n].obj][stack[n].slot]
               PROVE  q \in Passed(h, stack)
    BY <1>5 DEF Passed
  <2>1. s < stack[i].slot
    BY <1>2, <1>6, <1>7, <1>8, NumSlotsAssumption DEF Slots
  <2>2. QED
    BY <2>1, <1>8 DEF Passed
<1>11. QED
  BY <1>5, <1>8, <1>9, <1>10 DEF new, Top

\* To return to the caller, which has then dealt with the callee's object.
LEMMA ReturnStack ==
  ASSUME NEW h \in Heaps, NEW stack \in Seq(Frames), stack # <<>>,
         Linked(h, stack)
  PROVE  LET new == Return(stack) IN
         /\ new \in Seq(Frames)
         /\ Len(new) = Len(stack) - 1
         /\ \A i \in 1 .. Len(new) : new[i].obj = stack[i].obj
         /\ Linked(h, new)
         /\ Passed(h, new) \subseteq Passed(h, stack) \union {Top(stack).obj}
<1> DEFINE new == Return(stack)
           n   == Len(stack)
<1>1. n \in Nat \ {0} /\ \A i \in 1 .. n : stack[i] \in Frames
  OBVIOUS
<1>2. \A i \in 1 .. n - 1 : stack[i].slot \in 1 .. NumSlots
  BY <1>1, NumSlotsAssumption DEF Linked, Frames
<1>3. \A i \in 1 .. n - 1 : NextSlot(stack[i]) \in Frames
  BY <1>1, <1>2, NumSlotsAssumption, SMTT(30) DEF Frames, NextSlot
<1>4. new \in Seq(Frames) /\ Len(new) = n - 1
  BY <1>1, <1>3 DEF Return
<1>5. \A i \in 1 .. n - 1 : i # n - 1 => new[i] = stack[i]
  BY <1>1 DEF Return
<1>6. n > 1 => /\ new[n - 1].obj = stack[n - 1].obj
               /\ new[n - 1].slot = stack[n - 1].slot + 1
  BY <1>1 DEF Return, NextSlot
<1> HIDE DEF new
<1>7. \A i \in 1 .. n - 1 : new[i].obj = stack[i].obj
  BY <1>1, <1>5, <1>6
<1>8. Linked(h, new)
  BY <1>1, <1>4, <1>5, <1>7 DEF Linked
<1>9. Passed(h, new) \subseteq Passed(h, stack) \union {stack[n].obj}
  <2> SUFFICES ASSUME NEW q \in Objects, NEW i \in 1 .. n - 1,
                      NEW s \in Slots,
                      s < new[i].slot, q = h[new[i].obj][s],
                      q # stack[n].obj
               PROVE  q \in Passed(h, stack)
    BY <1>4 DEF Passed
  <2>1. i \in 1 .. n
    BY <1>1
  <2>2. s < stack[i].slot
    <3>1. CASE i # n - 1
      BY <3>1, <1>5
    <3>2. CASE i = n - 1
      <4>1. n > 1 /\ new[i].slot = stack[i].slot + 1
        BY <3>2, <1>1, <1>6
      <4>2. h[stack[i].obj][stack[i].slot] = stack[n].obj
        BY <3>2, <1>1 DEF Linked
      <4>3. s # stack[i].slot
        BY <4>2, <1>7
      <4>4. QED
        BY <4>1, <4>3, <1>2, NumSlotsAssumption DEF Slots
    <3>3. QED
      BY <3>1, <3>2
  <2>3. QED
    BY <2>1, <2>2, <1>7 DEF Passed
<1>10. QED
  BY <1>4, <1>7, <1>8, <1>9 DEF new, Top

\* A frame without a slot left has dealt with everything it points to.
LEMMA AllPassed ==
  ASSUME NEW h \in Heaps, NEW stack \in Seq(Frames), stack # <<>>,
         ~ HasSlot(stack)
  PROVE  Succ(h, Top(stack).obj) \subseteq Passed(h, stack)
<1>1. Top(stack) \in Frames
  BY DEF Top
<1>2. \A s \in Slots : s < Top(stack).slot
  BY <1>1, NumSlotsAssumption DEF HasSlot, Frames, Slots
<1>3. Succ(h, Top(stack).obj) \subseteq Objects
  BY <1>1 DEF Heaps, Succ, Frames
<1>4. QED
  BY <1>2, <1>3 DEF Succ, Passed, Top

-----------------------------------------------------------------------------
(* The inductive invariant. *)

\* The frames of the walk and of the check are linked, and start at the root
\* and at the object the check is about.
StacksLinked ==
  /\ Linked(heap, calls)
  /\ calls # <<>> => calls[1].obj = Root
  /\ phase = "check" =>
       /\ Linked(heap, check)
       /\ check[1].obj = ancestor

\* A check is about the object that the innermost frame of the walk is at.
CheckPending ==
  phase = "check" =>
    IF calls = <<>>
    THEN ancestor = Root
    ELSE HasSlot(calls) /\ Pointer(calls) = ancestor

\* Inside is_circular every frame's object is below the ancestor and, but for
\* the first, not the ancestor itself; what has been dealt with does not lead
\* to the ancestor.
CheckClears ==
  phase = "check" =>
    /\ \A k \in 1 .. Len(check) : check[k].obj \in Below(heap, ancestor)
    /\ \A k \in 2 .. Len(check) : check[k].obj # ancestor
    /\ \A q \in Passed(heap, check) :
         q # ancestor /\ ancestor \notin Reach(heap, q)

\* During encode each frame's object is reachable from those of the frames
\* before it; all but the first, which may not have been checked, are known
\* to be off every cycle; what has been dealt with is free of cycles.
WalkClears ==
  op = "encode" =>
    /\ \A i, j \in 1 .. Len(calls) :
         i < j => calls[j].obj \in Reach(heap, calls[i].obj)
    /\ \A i \in 2 .. Len(calls) : ~ OnCycle(heap, calls[i].obj)
    /\ \A q \in Passed(heap, calls) : Acyclic(heap, q)

IInv ==
  /\ TypeOK
  /\ StacksLinked
  /\ CheckPending
  /\ CheckClears
  /\ WalkClears
  /\ ThrowIsSound
  /\ DoneMeansAcyclic

\* The initial states satisfy it.
LEMMA IInvInit == Init => IInv
<1> SUFFICES ASSUME Init
             PROVE  IInv
  OBVIOUS
<1>1. Enter(Root) \in Frames /\ Enter(Root).obj = Root /\ Enter(Root).slot = 1
  BY RootAssumption, NumSlotsAssumption DEF Enter, Frames
<1>2. \A h : Passed(h, <<>>) = {} /\ Passed(h, <<Enter(Root)>>) = {}
  BY <1>1 DEF Passed, Slots
<1>3. CASE InitEntity
  <2>1. TypeOK
    BY <1>1, <1>3, RootAssumption
    DEF Init, InitEntity, TypeOK, Ended
  <2>2. StacksLinked /\ WalkClears
    BY <1>1, <1>2, <1>3 DEF InitEntity, StacksLinked, WalkClears, Linked
  <2>3. QED
    BY <2>1, <2>2, <1>3
    DEF InitEntity, IInv, CheckPending, CheckClears, ThrowIsSound,
        DoneMeansAcyclic
<1>4. CASE InitPointer
  <2>1. TypeOK
    BY <1>1, <1>4, RootAssumption
    DEF Init, InitPointer, TypeOK, Ended, Ops
  <2>2. StacksLinked /\ CheckPending /\ CheckClears /\ WalkClears
    BY <1>1, <1>2, <1>4
    DEF Init, InitPointer, StacksLinked, CheckPending, CheckClears,
        WalkClears, Linked, Below
  <2>3. QED
    BY <2>1, <2>2, <1>4
    DEF InitPointer, IInv, ThrowIsSound, DoneMeansAcyclic
<1>5. QED
  BY <1>3, <1>4 DEF Init

-----------------------------------------------------------------------------
(* One lemma per group of actions. *)

\* Stepping over a null pointer during the walk.
LEMMA IInvWalkNull == IInv /\ WalkNull => IInv'
<1> SUFFICES ASSUME IInv, WalkNull
             PROVE  IInv'
  OBVIOUS
<1>1. /\ heap \in Heaps /\ calls \in Seq(Frames) /\ calls # <<>>
      /\ Linked(heap, calls) /\ HasSlot(calls)
  BY DEF IInv, TypeOK, StacksLinked, WalkNull
<1>2. /\ calls' \in Seq(Frames)
      /\ Len(calls') = Len(calls)
      /\ \A i \in 1 .. Len(calls) : calls'[i].obj = calls[i].obj
      /\ Linked(heap, calls')
      /\ Passed(heap, calls') \subseteq Passed(heap, calls) \union {NULL}
  BY <1>1, AdvanceStack DEF WalkNull, Pointer
<1>3. Passed(heap, calls') \subseteq Passed(heap, calls)
  BY <1>2, NULLAssumption DEF Passed
<1>4. TypeOK'
  BY <1>1, <1>2 DEF IInv, TypeOK, WalkNull
<1>5. StacksLinked'
  BY <1>1, <1>2 DEF IInv, StacksLinked, WalkNull
<1>6. WalkClears'
  BY <1>2, <1>3 DEF IInv, WalkClears, WalkNull
<1>7. QED
  BY <1>4, <1>5, <1>6
  DEF IInv, WalkNull, CheckPending, CheckClears, ThrowIsSound,
      DoneMeansAcyclic

\* to_tree and modify entering an object.
LEMMA IInvWalkInto == IInv /\ WalkInto => IInv'
<1> SUFFICES ASSUME IInv, WalkInto
             PROVE  IInv'
  OBVIOUS
<1> DEFINE o == Pointer(calls)
<1>1. /\ heap \in Heaps /\ calls \in Seq(Frames) /\ calls # <<>>
      /\ Linked(heap, calls) /\ HasSlot(calls)
  BY DEF IInv, TypeOK, StacksLinked, WalkInto
<1>2. Top(calls) \in Frames
  BY <1>1 DEF Top
<1>3. o \in Objects
  BY <1>1, <1>2, NumSlotsAssumption
  DEF WalkInto, Pointer, HasSlot, Heaps, Slots, Frames
<1>4. /\ calls' \in Seq(Frames)
      /\ Len(calls') = Len(calls) + 1
      /\ \A i \in 1 .. Len(calls) : calls'[i] = calls[i]
      /\ Linked(heap, calls')
  BY <1>1, <1>3, EnterStack DEF WalkInto, Pointer
<1>5. TypeOK'
  BY <1>3, <1>4 DEF IInv, TypeOK, WalkInto
<1>6. StacksLinked'
  BY <1>1, <1>4 DEF IInv, StacksLinked, WalkInto
<1>7. QED
  BY <1>5, <1>6
  DEF IInv, WalkInto, CheckPending, CheckClears, WalkClears, ThrowIsSound,
      DoneMeansAcyclic

\* encode starting to ask about an object.
LEMMA IInvWalkCheck == IInv /\ WalkCheck => IInv'
<1> SUFFICES ASSUME IInv, WalkCheck
             PROVE  IInv'
  OBVIOUS
<1> DEFINE o == Pointer(calls)
<1>1. /\ heap \in Heaps /\ calls \in Seq(Frames) /\ calls # <<>>
      /\ HasSlot(calls)
  BY DEF IInv, TypeOK, WalkCheck
<1>2. Top(calls) \in Frames
  BY <1>1 DEF Top
<1>3. o \in Objects
  BY <1>1, <1>2, NumSlotsAssumption
  DEF WalkCheck, Pointer, HasSlot, Heaps, Slots, Frames
<1>4. check' = <<Enter(o)>> /\ ancestor' = o /\ heap' = heap /\ calls' = calls
  BY DEF WalkCheck
<1> HIDE DEF o
<1>5. Enter(o) \in Frames /\ Enter(o).obj = o /\ Enter(o).slot = 1
  BY <1>3, NumSlotsAssumption DEF Enter, Frames
<1>6. Passed(heap, check') = {}
  BY <1>4, <1>5 DEF Passed, Slots
<1>7. TypeOK'
  BY <1>3, <1>4, <1>5 DEF IInv, TypeOK, WalkCheck
<1>8. StacksLinked' /\ CheckPending'
  <2>1. Linked(heap, check') /\ check'[1].obj = o
    BY <1>4, <1>5 DEF Linked
  <2>2. StacksLinked'
    BY <1>4, <2>1 DEF IInv, StacksLinked
  <2>3. HasSlot(calls') /\ Pointer(calls)' = o
    BY <1>1, <1>4 DEF o, HasSlot, Pointer
  <2>4. CheckPending'
    BY <1>1, <1>4, <2>3 DEF CheckPending
  <2>5. QED
    BY <2>2, <2>4
<1>9. CheckClears'
  BY <1>4, <1>5, <1>6 DEF CheckClears, Below
<1>10. QED
  BY <1>7, <1>8, <1>9
  DEF IInv, WalkCheck, WalkClears, ThrowIsSound, DoneMeansAcyclic

\* A frame of the walk returning: below its object there is no cycle.
LEMMA IInvWalkReturn == IInv /\ WalkReturn => IInv'
<1> SUFFICES ASSUME IInv, WalkReturn
             PROVE  IInv'
  OBVIOUS
<1> DEFINE o == Top(calls).obj
<1>1. /\ heap \in Heaps /\ calls \in Seq(Frames) /\ calls # <<>>
      /\ Linked(heap, calls) /\ ~ HasSlot(calls)
  BY DEF IInv, TypeOK, StacksLinked, WalkReturn
<1>2. o \in Objects
  <2>1. Top(calls) \in Frames
    BY <1>1 DEF Top
  <2>2. QED
    BY <2>1 DEF Frames
<1>3. /\ calls' \in Seq(Frames)
      /\ Len(calls') = Len(calls) - 1
      /\ \A i \in 1 .. Len(calls') : calls'[i].obj = calls[i].obj
      /\ Linked(heap, calls')
      /\ Passed(heap, calls') \subseteq Passed(heap, calls) \union {o}
  BY <1>1, ReturnStack DEF WalkReturn
<1>4. op = "encode" => Acyclic(heap, o)
  BY <1>1, <1>2, AllPassed, AcyclicUp DEF IInv, WalkClears
<1>5. TypeOK'
  BY <1>1, <1>3 DEF IInv, TypeOK, WalkReturn, Ended
<1>6. StacksLinked'
  BY <1>1, <1>3 DEF IInv, StacksLinked, WalkReturn
<1>7. WalkClears'
  BY <1>3, <1>4 DEF IInv, WalkClears, WalkReturn
<1>8. DoneMeansAcyclic'
  <2> SUFFICES ASSUME op = "encode", Len(calls) = 1
               PROVE  Acyclic(heap, Root)
    BY DEF DoneMeansAcyclic, WalkReturn
  <2>1. o = Root
    BY <1>1 DEF IInv, StacksLinked, Top
  <2>2. QED
    BY <2>1, <1>4
<1>9. QED
  BY <1>5, <1>6, <1>7, <1>8
  DEF IInv, WalkReturn, CheckPending, CheckClears, ThrowIsSound

\* is_circular stepping over a null pointer.
LEMMA IInvCheckNull == IInv /\ CheckNull => IInv'
<1> SUFFICES ASSUME IInv, CheckNull
             PROVE  IInv'
  OBVIOUS
<1>1. /\ heap \in Heaps /\ check \in Seq(Frames) /\ check # <<>>
      /\ Linked(heap, check) /\ HasSlot(check)
  BY DEF IInv, TypeOK, StacksLinked, CheckNull
<1>2. /\ check' \in Seq(Frames)
      /\ Len(check') = Len(check)
      /\ \A i \in 1 .. Len(check) : check'[i].obj = check[i].obj
      /\ Linked(heap, check')
      /\ Passed(heap, check') \subseteq Passed(heap, check) \union {NULL}
  BY <1>1, AdvanceStack DEF CheckNull, Pointer
<1>3. Passed(heap, check') \subseteq Passed(heap, check)
  BY <1>2, NULLAssumption DEF Passed
<1>4. TypeOK'
  BY <1>1, <1>2 DEF IInv, TypeOK, CheckNull
<1>5. StacksLinked'
  BY <1>1, <1>2 DEF IInv, StacksLinked, CheckNull
<1>6. CheckPending'
  BY DEF IInv, CheckPending, CheckNull, HasSlot, Pointer
<1>7. CheckClears'
  BY <1>2, <1>3 DEF IInv, CheckClears, CheckNull
<1>8. QED
  BY <1>4, <1>5, <1>6, <1>7
  DEF IInv, CheckNull, WalkClears, ThrowIsSound, DoneMeansAcyclic

\* is_circular finding the ancestor: the way from the ancestor down to the
\* innermost frame closes a cycle.
LEMMA IInvCheckFound == IInv /\ CheckFound => IInv'
<1> SUFFICES ASSUME IInv, CheckFound
             PROVE  IInv'
  OBVIOUS
<1> DEFINE o == Top(check).obj
<1>1. /\ heap \in Heaps /\ check \in Seq(Frames) /\ check # <<>>
      /\ HasSlot(check) /\ ancestor \in Objects
  BY DEF IInv, TypeOK, CheckFound
<1>2. Top(check) \in Frames
  BY <1>1 DEF Top
<1>3. o \in Objects /\ Top(check).slot \in Slots
  BY <1>1, <1>2, NumSlotsAssumption DEF Frames, HasSlot, Slots
<1>4. o \in Below(heap, ancestor)
  BY <1>1 DEF IInv, CheckClears, CheckFound, Top
<1>5. ancestor \in Succ(heap, o)
  BY <1>1, <1>3, NULLAssumption DEF CheckFound, Pointer, Succ
<1>6. OnCycle(heap, ancestor)
  BY <1>1, <1>4, <1>5, ReachClosed DEF Below, Closed, OnCycle
<1>7. TypeOK'
  BY DEF IInv, TypeOK, CheckFound, Ended
<1>8. QED
  BY <1>6, <1>7
  DEF IInv, CheckFound, StacksLinked, CheckPending, CheckClears, WalkClears,
      ThrowIsSound, DoneMeansAcyclic

\* is_circular calling itself for an object below.
LEMMA IInvCheckInto == IInv /\ CheckInto => IInv'
<1> SUFFICES ASSUME IInv, CheckInto
             PROVE  IInv'
  OBVIOUS
<1> DEFINE o == Pointer(check)
<1>1. /\ heap \in Heaps /\ check \in Seq(Frames) /\ check # <<>>
      /\ Linked(heap, check) /\ HasSlot(check) /\ ancestor \in Objects
  BY DEF IInv, TypeOK, StacksLinked, CheckInto
<1>2. Top(check) \in Frames
  BY <1>1 DEF Top
<1>3. Top(check).obj \in Objects /\ Top(check).slot \in Slots
  BY <1>1, <1>2, NumSlotsAssumption DEF Frames, HasSlot, Slots
<1>4. o \in Objects /\ o # ancestor /\ o \in Succ(heap, Top(check).obj)
  BY <1>1, <1>3 DEF CheckInto, Pointer, Heaps, Succ
<1>5. Top(check).obj \in Below(heap, ancestor)
  BY <1>1 DEF IInv, CheckClears, CheckInto, Top
<1>6. o \in Below(heap, ancestor)
  BY <1>1, <1>4, <1>5, ReachClosed DEF Below, Closed
<1>7. /\ check' \in Seq(Frames)
      /\ Len(check') = Len(check) + 1
      /\ \A i \in 1 .. Len(check) : check'[i] = check[i]
      /\ check'[Len(check')].obj = o
      /\ Linked(heap, check')
      /\ Passed(heap, check') \subseteq Passed(heap, check)
  BY <1>1, <1>4, EnterStack DEF CheckInto, Pointer
<1>8. TypeOK'
  BY <1>7 DEF IInv, TypeOK, CheckInto
<1>9. StacksLinked' /\ CheckPending'
  BY <1>1, <1>7
  DEF IInv, StacksLinked, CheckPending, CheckInto, HasSlot, Pointer
<1>10. CheckClears'
  <2>1. \A k \in 1 .. Len(check') :
          check'[k].obj \in Below(heap, ancestor)
    BY <1>6, <1>7 DEF IInv, CheckClears, CheckInto
  <2>2. \A k \in 2 .. Len(check') : check'[k].obj # ancestor
    BY <1>4, <1>7 DEF IInv, CheckClears, CheckInto
  <2>3. QED
    BY <2>1, <2>2, <1>7 DEF IInv, CheckClears, CheckInto
<1>11. QED
  BY <1>8, <1>9, <1>10
  DEF IInv, CheckInto, WalkClears, ThrowIsSound, DoneMeansAcyclic

\* An object whose successors all lead nowhere near a does not lead to a.
LEMMA LeadsAway ==
  ASSUME NEW h \in Heaps, NEW o \in Objects, NEW a \in Objects,
         \A s \in Succ(h, o) : s # a /\ a \notin Reach(h, s)
  PROVE  a \notin Reach(h, o)
BY ReachSplit DEF Below

\* An inner is_circular returning false.
LEMMA IInvCheckReturn == IInv /\ CheckReturn => IInv'
<1> SUFFICES ASSUME IInv, CheckReturn
             PROVE  IInv'
  OBVIOUS
<1> DEFINE o == Top(check).obj
<1>1. /\ heap \in Heaps /\ check \in Seq(Frames) /\ check # <<>>
      /\ Linked(heap, check) /\ ~ HasSlot(check) /\ ancestor \in Objects
      /\ Len(check) > 1
  BY DEF IInv, TypeOK, StacksLinked, CheckReturn
<1>2. o \in Objects
  <2>1. Top(check) \in Frames
    BY <1>1 DEF Top
  <2>2. QED
    BY <2>1 DEF Frames
<1>3. /\ check' \in Seq(Frames)
      /\ Len(check') = Len(check) - 1
      /\ \A i \in 1 .. Len(check') : check'[i].obj = check[i].obj
      /\ Linked(heap, check')
      /\ Passed(heap, check') \subseteq Passed(heap, check) \union {o}
  BY <1>1, ReturnStack DEF CheckReturn
<1>4. o # ancestor
  BY <1>1 DEF IInv, CheckClears, CheckReturn, Top
<1>5. ancestor \notin Reach(heap, o)
  BY <1>1, <1>2, AllPassed, LeadsAway DEF IInv, CheckClears, CheckReturn
<1>6. TypeOK'
  BY <1>1, <1>3 DEF IInv, TypeOK, CheckReturn
<1>7. StacksLinked' /\ CheckPending'
  BY <1>1, <1>3
  DEF IInv, StacksLinked, CheckPending, CheckReturn, HasSlot, Pointer
<1>8. CheckClears'
  BY <1>3, <1>4, <1>5 DEF IInv, CheckClears, CheckReturn
<1>9. QED
  BY <1>6, <1>7, <1>8
  DEF IInv, CheckReturn, WalkClears, ThrowIsSound, DoneMeansAcyclic

\* The outermost is_circular returning false: the object is on no cycle, and
\* the walk enters it.
LEMMA IInvCheckClear == IInv /\ CheckClear => IInv'
<1> SUFFICES ASSUME IInv, CheckClear
             PROVE  IInv'
  OBVIOUS
<1>1. /\ heap \in Heaps /\ check \in Seq(Frames) /\ check # <<>>
      /\ ~ HasSlot(check) /\ ancestor \in Objects
      /\ calls \in Seq(Frames) /\ Linked(heap, calls)
      /\ Len(check) = 1 /\ Top(check).obj = ancestor
  BY DEF IInv, TypeOK, StacksLinked, CheckClear, Top
<1>2. ~ OnCycle(heap, ancestor)
  BY <1>1, AllPassed, LeadsAway DEF IInv, CheckClears, CheckClear, OnCycle
<1>3. calls # <<>> =>
        /\ HasSlot(calls)
        /\ heap[Top(calls).obj][Top(calls).slot] = ancestor
  BY DEF IInv, CheckPending, CheckClear, Pointer
<1>4. /\ calls' \in Seq(Frames)
      /\ Len(calls') = Len(calls) + 1
      /\ \A i \in 1 .. Len(calls) : calls'[i] = calls[i]
      /\ calls'[Len(calls')].obj = ancestor
      /\ Linked(heap, calls')
      /\ Passed(heap, calls') \subseteq Passed(heap, calls)
  BY <1>1, <1>3, EnterStack DEF CheckClear
<1>5. TypeOK'
  BY <1>1, <1>4 DEF IInv, TypeOK, CheckClear
<1>6. StacksLinked'
  BY <1>1, <1>4 DEF IInv, StacksLinked, CheckPending, CheckClear
<1>7. WalkClears'
  <2>1. \A i \in 1 .. Len(calls) : ancestor \in Reach(heap, calls[i].obj)
    <3> SUFFICES ASSUME NEW i \in 1 .. Len(calls)
                 PROVE  ancestor \in Reach(heap, calls[i].obj)
      OBVIOUS
    <3> DEFINE n == Len(calls)
               t == Top(calls)
    <3>1. calls[i] \in Frames /\ t \in Frames /\ calls # <<>>
      BY <1>1 DEF Top
    <3>2. calls[i].obj \in Objects /\ t.obj \in Objects /\ t.slot \in Slots
      BY <3>1, <1>3, NumSlotsAssumption DEF Frames, HasSlot, Slots
    <3>3. ancestor \in Succ(heap, t.obj)
      BY <1>1, <1>3, <3>1, <3>2, NULLAssumption DEF Succ
    <3>4. i = n \/ t.obj \in Reach(heap, calls[i].obj)
      BY <1>1 DEF IInv, WalkClears, TypeOK, CheckClear, Top
    <3>5. QED
      BY <1>1, <3>2, <3>3, <3>4, ReachClosed DEF Closed, Top
  <2>2. \A i, j \in 1 .. Len(calls') :
          i < j => calls'[j].obj \in Reach(heap, calls'[i].obj)
    <3> SUFFICES ASSUME NEW i \in 1 .. Len(calls'), NEW j \in 1 .. Len(calls'),
                        i < j
                 PROVE  calls'[j].obj \in Reach(heap, calls'[i].obj)
      OBVIOUS
    <3>1. i \in 1 .. Len(calls) /\ calls'[i] = calls[i]
      BY <1>1, <1>4
    <3>2. CASE j = Len(calls')
      BY <1>4, <2>1, <3>1, <3>2
    <3>3. CASE j # Len(calls')
      <4>1. j \in 1 .. Len(calls) /\ calls'[j] = calls[j]
        BY <1>1, <1>4, <3>3
      <4>2. QED
        BY <3>1, <4>1 DEF IInv, WalkClears, TypeOK, CheckClear
    <3>4. QED
      BY <3>2, <3>3
  <2>3. \A i \in 2 .. Len(calls') : ~ OnCycle(heap, calls'[i].obj)
    BY <1>1, <1>2, <1>4 DEF IInv, WalkClears, TypeOK, CheckClear
  <2>4. QED
    BY <1>4, <2>2, <2>3 DEF IInv, WalkClears, TypeOK, CheckClear
<1>8. QED
  BY <1>5, <1>6, <1>7
  DEF IInv, CheckClear, CheckPending, CheckClears, ThrowIsSound,
      DoneMeansAcyclic

\* Running out of stack.
LEMMA IInvOverflow == IInv /\ Overflow => IInv'
<1> SUFFICES ASSUME IInv, Overflow
             PROVE  IInv'
  OBVIOUS
<1>1. TypeOK'
  BY DEF IInv, TypeOK, Overflow, Ended
<1>2. QED
  BY <1>1
  DEF IInv, Overflow, StacksLinked, CheckPending, CheckClears, WalkClears,
      ThrowIsSound, DoneMeansAcyclic

\* No frame of encode is at an object that an outer frame is at: the object
\* would be on a cycle.
LEMMA IInvNesting == IInv => NestingIsAcyclic
<1> SUFFICES ASSUME IInv, op = "encode",
                    NEW i \in DOMAIN calls, NEW j \in DOMAIN calls,
                    calls[i].obj = calls[j].obj, i # j
             PROVE  FALSE
  BY DEF NestingIsAcyclic
<1>1. calls \in Seq(Frames) /\ DOMAIN calls = 1 .. Len(calls)
  BY DEF IInv, TypeOK
<1>2. ASSUME NEW k \in 1 .. Len(calls), NEW m \in 1 .. Len(calls),
             k < m, calls[k].obj = calls[m].obj
      PROVE  FALSE
  <2>1. calls[m].obj \in Reach(heap, calls[m].obj)
    BY <1>2 DEF IInv, WalkClears
  <2>2. ~ OnCycle(heap, calls[m].obj)
    BY <1>1, <1>2 DEF IInv, WalkClears
  <2>3. QED
    BY <2>1, <2>2 DEF OnCycle
<1>3. i < j \/ j < i
  BY <1>1
<1>4. QED
  BY <1>1, <1>2, <1>3

-----------------------------------------------------------------------------
(* The theorems. *)

\* IInv is an invariant.
LEMMA IInvInvariant == Spec => []IInv
<1>1. IInv /\ [Next]_vars => IInv'
  <2>1. IInv /\ UNCHANGED vars => IInv'
    BY DEF vars, IInv, TypeOK, StacksLinked, CheckPending, CheckClears,
           WalkClears, ThrowIsSound, DoneMeansAcyclic, HasSlot, Pointer
  <2>2. QED
    BY <2>1, IInvWalkNull, IInvWalkInto, IInvWalkCheck, IInvWalkReturn,
       IInvCheckNull, IInvCheckFound, IInvCheckInto, IInvCheckReturn,
       IInvCheckClear, IInvOverflow
    DEF Next
<1>2. QED
  BY IInvInit, <1>1, PTL DEF Spec

\* Every state the walk reaches is well formed.
THEOREM TypeCorrect == Spec => []TypeOK
BY IInvInvariant, PTL DEF IInv

\* "Circular reference found" is only thrown for an object that really leads
\* back to itself.
THEOREM ThrowsAreSound == Spec => []ThrowIsSound
BY IInvInvariant, PTL DEF IInv

\* An encode that ends without an exception had no cycle below its root.
THEOREM DoneIsAcyclic == Spec => []DoneMeansAcyclic
BY IInvInvariant, PTL DEF IInv

\* encode never has one object under way twice: its recursion is as deep as
\* there are objects, whatever the graph.
THEOREM NestingIsBounded == Spec => []NestingIsAcyclic
BY IInvInvariant, IInvNesting, PTL

-----------------------------------------------------------------------------
(***************************************************************************)
(* The stack: where encode can run out of it.  A stack that holds two      *)
(* frames per object is full inside is_circular, which has then entered an *)
(* object twice; the way from the first of the two frames to the second    *)
(* closes a cycle beside the ancestor.                                     *)
(***************************************************************************)

(* Numbers and stacks. *)

\* Every nonempty set of natural numbers has a least element.
LEMMA LeastNumber ==
  ASSUME NEW T \in SUBSET Nat, T # {}
  PROVE  \E x \in T : \A y \in T : x <= y
<1> DEFINE R == {ss \in Nat \X Nat : ss[1] < ss[2]}
<1>1. IsWellFoundedOn(R, Nat)
  BY NatLessThanWellFounded, Zenon DEF OpToRel
<1>2. \A x, y \in Nat : <<y, x>> \in R <=> y < x
  OBVIOUS
<1> HIDE DEF R
<1>3. PICK x \in T : \A y \in T : ~ (<<y, x>> \in R)
  BY <1>1, WFMin, Zenon
<1>4. \A y \in T : ~ (y < x)
  BY <1>2, <1>3, Zenon
<1>5. QED
  BY <1>4

\* A stack of more frames than there are objects has two for the same one.
LEMMA TwoForOne ==
  ASSUME IsFiniteSet(Objects), NEW stack \in Seq(Frames),
         Len(stack) > Cardinality(Objects)
  PROVE  \E j, k \in 1 .. Len(stack) : j < k /\ stack[j].obj = stack[k].obj
<1> DEFINE f == [i \in 1 .. Len(stack) |-> stack[i].obj]
<1>1. f \in [1 .. Len(stack) -> Objects]
  <2>1. \A i \in 1 .. Len(stack) : stack[i] \in Frames
    OBVIOUS
  <2>2. \A i \in 1 .. Len(stack) : stack[i].obj \in Objects
    BY <2>1, Zenon DEF Frames
  <2>3. QED
    BY <2>2, Zenon
<1>2. /\ Len(stack) \in Nat
      /\ Cardinality(Objects) \in Nat
  BY FS_CardinalityType
<1>3. /\ IsFiniteSet(1 .. Len(stack))
      /\ Cardinality(1 .. Len(stack)) = Len(stack)
  <2>1. 1 \in Int /\ Len(stack) \in Int
    BY <1>2
  <2>2. /\ IsFiniteSet(1 .. Len(stack))
        /\ Cardinality(1 .. Len(stack)) =
             IF 1 > Len(stack) THEN 0 ELSE Len(stack) - 1 + 1
    BY <2>1, FS_Interval, Zenon
  <2>3. QED
    BY <1>2, <2>2
<1>4. \A i \in 1 .. Len(stack) : f[i] = stack[i].obj
  OBVIOUS
<1> HIDE DEF f
<1>5. PICK i, j \in 1 .. Len(stack) : i # j /\ f[i] = f[j]
  BY <1>1, <1>2, <1>3, FS_PigeonHole
<1>6. QED
  BY <1>4, <1>5

\* The graph without the pointers that the object a holds.
Without(h, a) == [h EXCEPT ![a] = [s \in Slots |-> NULL]]

LEMMA WithoutOne ==
  ASSUME NEW h \in Heaps, NEW a \in Objects
  PROVE  /\ Without(h, a) \in Heaps
         /\ \A o \in Objects : o # a => Succ(Without(h, a), o) = Succ(h, o)
BY DEF Without, Heaps, Succ

\* Frames that are linked, none of which is at a, follow each other on a way
\* that does not pass through a.
LEMMA LinkedLeads ==
  ASSUME NEW h \in Heaps, NEW stack \in Seq(Frames), Linked(h, stack),
         NEW a \in Objects, NEW j \in 1 .. Len(stack),
         NEW k \in 1 .. Len(stack), j < k,
         \A i \in j .. Len(stack) : stack[i].obj # a
  PROVE  stack[k].obj \in Reach(Without(h, a), stack[j].obj)
<1> DEFINE g    == Without(h, a)
           R    == Reach(g, stack[j].obj)
           Lost == {i \in j + 1 .. Len(stack) : stack[i].obj \notin R}
<1>1. Len(stack) \in Nat /\ \A i \in 1 .. Len(stack) : stack[i] \in Frames
  OBVIOUS
<1>2. \A i \in 1 .. Len(stack) : stack[i].obj \in Objects
  BY <1>1 DEF Frames
<1>3. g \in Heaps /\ \A o \in Objects : o # a => Succ(g, o) = Succ(h, o)
  BY WithoutOne
<1>4. \A i \in j .. Len(stack) - 1 :
        stack[i + 1].obj \in Succ(g, stack[i].obj)
  <2> SUFFICES ASSUME NEW i \in j .. Len(stack) - 1
               PROVE  stack[i + 1].obj \in Succ(g, stack[i].obj)
    OBVIOUS
  <2>1. /\ i \in 1 .. Len(stack) - 1
        /\ i \in 1 .. Len(stack)
        /\ i \in j .. Len(stack)
        /\ i + 1 \in 1 .. Len(stack)
    BY <1>1
  <2>2. stack[i].slot \in Slots
    BY <1>1, <2>1, NumSlotsAssumption DEF Linked, Frames, Slots
  <2>3. h[stack[i].obj][stack[i].slot] = stack[i + 1].obj
    BY <2>1 DEF Linked
  <2>4. stack[i + 1].obj # NULL
    BY <1>2, <2>1, NULLAssumption
  <2>5. stack[i + 1].obj \in Succ(h, stack[i].obj)
    BY <2>2, <2>3, <2>4 DEF Succ
  <2>6. QED
    BY <1>2, <1>3, <2>1, <2>5
<1>5. Succ(g, stack[j].obj) \subseteq R /\ Closed(g, R)
  BY <1>2, <1>3, ReachClosed
<1> HIDE DEF R, g
<1>6. CASE Lost # {}
  <2>1. Lost \subseteq Nat
    BY <1>1
  <2>2. PICK i \in Lost : \A m \in Lost : i <= m
    BY <1>6, <2>1, LeastNumber
  <2>3. i - 1 \in j .. Len(stack) - 1 /\ (i - 1) + 1 = i
    BY <1>1, <2>2
  <2>4. stack[i].obj \in Succ(g, stack[i - 1].obj)
    BY <1>4, <2>3
  <2>5. CASE i = j + 1
    BY <1>1, <1>5, <2>2, <2>4, <2>5
  <2>6. CASE i # j + 1
    <3>1. i - 1 \in j + 1 .. Len(stack) /\ ~ (i <= i - 1)
      BY <1>1, <2>2, <2>6
    <3>2. i - 1 \notin Lost
      BY <2>2, <3>1
    <3>3. stack[i - 1].obj \in R
      BY <3>1, <3>2
    <3>4. QED
      BY <1>5, <2>2, <2>4, <3>3 DEF Closed
  <2>7. QED
    BY <2>5, <2>6
<1>7. CASE Lost = {}
  <2>1. k \in j + 1 .. Len(stack)
    BY <1>1
  <2>2. QED
    BY <1>7, <2>1 DEF R, g
<1>8. QED
  BY <1>6, <1>7

-----------------------------------------------------------------------------
(* The inductive invariant. *)

\* When encode has run out of stack, the frames of the check are as they were:
\* linked, below the ancestor and, but for the first, not at it.
FullStackKept ==
  op = "encode" /\ phase = "overflow" =>
    /\ ~ RoomOnStack
    /\ check # <<>> =>
         /\ Linked(heap, check)
         /\ check[1].obj = ancestor
         /\ \A k \in 1 .. Len(check) : check[k].obj \in Below(heap, ancestor)
         /\ \A k \in 2 .. Len(check) : check[k].obj # ancestor

LEMMA FullStackInit == Init => FullStackKept
BY DEF Init, InitEntity, InitPointer, FullStackKept

LEMMA FullStackNext == IInv /\ FullStackKept /\ [Next]_vars => FullStackKept'
<1> SUFFICES ASSUME IInv, FullStackKept, [Next]_vars
             PROVE  FullStackKept'
  OBVIOUS
<1>1. CASE Overflow
  <2>1. CASE phase = "walk"
    BY <1>1, <2>1 DEF IInv, TypeOK, Overflow, FullStackKept, RoomOnStack
  <2>2. CASE phase = "check"
    BY <1>1, <2>2
    DEF IInv, StacksLinked, CheckClears, Overflow, FullStackKept, RoomOnStack
  <2>3. QED
    BY <1>1, <2>1, <2>2 DEF Overflow
<1>2. CASE Next /\ ~ Overflow
  <2>1. phase' # "overflow"
    BY <1>2
    DEF Next, WalkNull, WalkInto, WalkCheck, WalkReturn, CheckNull,
        CheckFound, CheckInto, CheckReturn, CheckClear
  <2>2. QED
    BY <2>1 DEF FullStackKept
<1>3. CASE UNCHANGED vars
  BY <1>3 DEF vars, FullStackKept, RoomOnStack
<1>4. QED
  BY <1>1, <1>2, <1>3

-----------------------------------------------------------------------------
(* The theorem. *)

\* What a full stack shows, when it holds two frames per object.
LEMMA FullStackShows ==
  ASSUME IsFiniteSet(Objects), StackLimit > 2 * Cardinality(Objects),
         IInv, FullStackKept
  PROVE  OverflowOnlyOffCycle
<1> SUFFICES ASSUME op = "encode", phase = "overflow"
             PROVE  /\ check # <<>>
                    /\ \E q \in Reach(heap, ancestor) :
                         OnCycle(Without(heap, ancestor), q)
  BY DEF OverflowOnlyOffCycle, Without
<1>1. /\ heap \in Heaps /\ ancestor \in Objects
      /\ calls \in Seq(Frames) /\ check \in Seq(Frames)
  BY DEF IInv, TypeOK
<1>2. Cardinality(Objects) \in Nat /\ StackLimit \in Nat
  BY FS_CardinalityType, StackLimitAssumption
<1>3. Len(calls) \in Nat /\ Len(check) \in Nat
  BY <1>1
<1>4. Len(calls) <= Cardinality(Objects)
  <2> SUFFICES ASSUME Len(calls) > Cardinality(Objects)
               PROVE  FALSE
    BY <1>2, <1>3
  <2>1. PICK j, k \in 1 .. Len(calls) :
               j < k /\ calls[j].obj = calls[k].obj
    BY <1>1, TwoForOne
  <2>2. j \in DOMAIN calls /\ k \in DOMAIN calls /\ j # k
    BY <1>1, <2>1
  <2>3. QED
    BY <2>1, <2>2, IInvNesting DEF NestingIsAcyclic
<1>5. Len(check) > Cardinality(Objects)
  BY <1>2, <1>3, <1>4 DEF FullStackKept, RoomOnStack
<1>6. check # <<>>
  BY <1>2, <1>5
<1>7. /\ Linked(heap, check)
      /\ check[1].obj = ancestor
      /\ \A i \in 1 .. Len(check) : check[i].obj \in Below(heap, ancestor)
      /\ \A i \in 2 .. Len(check) : check[i].obj # ancestor
  BY <1>6 DEF FullStackKept
<1>8. PICK j, k \in 1 .. Len(check) : j < k /\ check[j].obj = check[k].obj
  BY <1>1, <1>5, TwoForOne
<1>9. j \in 2 .. Len(check) /\ k \in 2 .. Len(check)
  <2>1. k \in 2 .. Len(check)
    BY <1>3, <1>8
  <2>2. check[k].obj # ancestor
    BY <1>7, <2>1
  <2>3. j # 1
    BY <1>7, <1>8, <2>2
  <2>4. QED
    BY <1>3, <2>1, <2>3
<1>10. check[k].obj \in Reach(Without(heap, ancestor), check[j].obj)
  <2>1. \A i \in j .. Len(check) : check[i].obj # ancestor
    BY <1>3, <1>7, <1>9
  <2>2. QED
    BY <1>1, <1>7, <1>8, <2>1, LinkedLeads
<1>11. OnCycle(Without(heap, ancestor), check[j].obj)
  BY <1>8, <1>10 DEF OnCycle
<1>12. check[j].obj \in Reach(heap, ancestor)
  BY <1>7, <1>8, <1>9 DEF Below
<1>13. QED
  BY <1>6, <1>11, <1>12

\* encode runs out of a stack that holds two frames per object only inside
\* is_circular, and only when a cycle below the object it asks about does not
\* go through that object.
THEOREM OverflowIsOffCycle ==
  ASSUME IsFiniteSet(Objects), StackLimit > 2 * Cardinality(Objects)
  PROVE  Spec => []OverflowOnlyOffCycle
<1>1. Spec => []FullStackKept
  BY IInvInvariant, FullStackInit, FullStackNext, PTL DEF Spec
<1>2. IInv /\ FullStackKept => OverflowOnlyOffCycle
  BY FullStackShows
<1>3. QED
  BY <1>1, <1>2, IInvInvariant, PTL

-----------------------------------------------------------------------------
(***************************************************************************)
(* The visits: what has been walked into.  A way from the root is the      *)
(* sequence of the slots it takes.  In the order in which the slots are    *)
(* dealt with, the stack divides all ways into those it has come past and  *)
(* those still ahead, and an object has been walked into once for each of  *)
(* the former that leads to it.                                            *)
(***************************************************************************)

(* Ways. *)

\* nodes are the objects on the way p from the root.
IsWay(h, p, nodes) ==
  /\ p \in Seq(Slots)
  /\ nodes \in [0 .. Len(p) -> Objects]
  /\ nodes[0] = Root
  /\ \A i \in 1 .. Len(p) : h[nodes[i - 1]][p[i]] = nodes[i]

WaysTo(h, o) ==
  {p \in Seq(Slots) : \E nodes : IsWay(h, p, nodes) /\ nodes[Len(p)] = o}

\* p takes the slots that the first m frames are at.
Along(stack, p, m) == \A i \in 1 .. m : p[i] = stack[i].slot

\* The stack has come past p: p leads to one of its frames, or leaves it over
\* a slot that has been dealt with.
Behind(stack, p) ==
  \/ Len(p) < Len(stack) /\ Along(stack, p, Len(p))
  \/ \E m \in 1 .. Len(p) :
       m <= Len(stack) /\ Along(stack, p, m - 1) /\ p[m] < stack[m].slot

Counted(h, stack, o) == {p \in WaysTo(h, o) : Behind(stack, p)}

\* The way to the top frame.
SlotsOf(stack) == [i \in 1 .. Len(stack) - 1 |-> stack[i].slot]

\* A way along the frames passes through their objects.
LEMMA AlongLeads ==
  ASSUME NEW h, NEW stack \in Seq(Frames), Linked(h, stack),
         stack[1].obj = Root, NEW p, NEW nodes, IsWay(h, p, nodes),
         NEW m \in 0 .. Len(p), m < Len(stack), Along(stack, p, m)
  PROVE  nodes[m] = stack[m + 1].obj
<1> DEFINE T == {i \in 0 .. m : nodes[i] # stack[i + 1].obj}
<1>1. Len(p) \in Nat /\ Len(stack) \in Nat
  BY DEF IsWay
<1>2. SUFFICES ASSUME T # {}
               PROVE  FALSE
  BY <1>1
<1>3. T \subseteq Nat
  BY <1>1
<1>4. PICK i \in T : \A j \in T : i <= j
  BY <1>2, <1>3, LeastNumber
<1>5. i \in 0 .. m /\ nodes[i] # stack[i + 1].obj
  BY <1>4
<1>6. i # 0
  BY <1>5 DEF IsWay
<1>7. i - 1 \in 0 .. m /\ i \in 1 .. m /\ i \in 1 .. Len(p)
      /\ i \in 1 .. Len(stack) - 1 /\ (i - 1) + 1 = i /\ ~ (i <= i - 1)
  BY <1>1, <1>5, <1>6
<1>8. i - 1 \notin T
  BY <1>4, <1>7
<1>9. nodes[i - 1] = stack[i].obj
  BY <1>7, <1>8
<1>10. h[nodes[i - 1]][p[i]] = nodes[i] /\ p[i] = stack[i].slot
  BY <1>7 DEF IsWay, Along
<1>11. h[stack[i].obj][stack[i].slot] = stack[i + 1].obj
  BY <1>7 DEF Linked
<1>12. QED
  BY <1>5, <1>9, <1>10, <1>11

\* The frames are a way to the object of the innermost one.
LEMMA StackIsWay ==
  ASSUME NEW h, NEW stack \in Seq(Frames), Linked(h, stack),
         stack # <<>>, stack[1].obj = Root
  PROVE  /\ SlotsOf(stack) \in WaysTo(h, Top(stack).obj)
         /\ Len(SlotsOf(stack)) = Len(stack) - 1
<1> DEFINE p == SlotsOf(stack)
           nodes == [i \in 0 .. Len(stack) - 1 |-> stack[i + 1].obj]
<1>1. Len(stack) \in Nat \ {0} /\ Len(stack) - 1 \in Nat
      /\ \A i \in 1 .. Len(stack) : stack[i] \in Frames
  OBVIOUS
<1>2. \A i \in 1 .. Len(stack) - 1 : stack[i].slot \in Slots
  BY <1>1, NumSlotsAssumption DEF Linked, Frames, Slots
<1>3. p \in Seq(Slots) /\ Len(p) = Len(stack) - 1
      /\ \A i \in 1 .. Len(p) : p[i] = stack[i].slot
  BY <1>1, <1>2 DEF SlotsOf
<1>4. \A i \in 0 .. Len(p) : nodes[i] = stack[i + 1].obj
  BY <1>3
<1>5. nodes \in [0 .. Len(p) -> Objects]
  <2>1. \A i \in 0 .. Len(stack) - 1 : i + 1 \in 1 .. Len(stack)
    BY <1>1
  <2>2. \A i \in 0 .. Len(stack) - 1 : stack[i + 1].obj \in Objects
    BY <1>1, <2>1 DEF Frames
  <2>3. QED
    BY <1>3, <2>2
<1> HIDE DEF p, nodes
<1>6. \A i \in 1 .. Len(p) : h[nodes[i - 1]][p[i]] = nodes[i]
  <2> SUFFICES ASSUME NEW i \in 1 .. Len(p)
               PROVE  h[nodes[i - 1]][p[i]] = nodes[i]
    OBVIOUS
  <2>1. i - 1 \in 0 .. Len(p) /\ i \in 0 .. Len(p) /\ (i - 1) + 1 = i
        /\ i \in 1 .. Len(stack) - 1
    BY <1>1, <1>3
  <2>2. nodes[i - 1] = stack[i].obj /\ nodes[i] = stack[i + 1].obj
    BY <1>4, <2>1
  <2>3. QED
    BY <1>3, <2>1, <2>2 DEF Linked
<1>7. nodes[0] = Root
  BY <1>1, <1>3, <1>4
<1>8. nodes[Len(p)] = Top(stack).obj
  <2>1. Len(p) \in 0 .. Len(p) /\ Len(p) + 1 = Len(stack)
    BY <1>1, <1>3
  <2>2. QED
    BY <1>4, <2>1 DEF Top
<1>9. p \in WaysTo(h, Top(stack).obj)
  BY <1>3, <1>5, <1>6, <1>7, <1>8 DEF IsWay, WaysTo
<1>10. QED
  BY <1>3, <1>9 DEF p

-----------------------------------------------------------------------------
(* What a step puts behind the stack. *)

\* Stacks that are at the same slots up to frame n.
LEMMA AlongBoth ==
  ASSUME NEW stack, NEW new, NEW p, NEW n \in Nat,
         \A i \in 1 .. n : new[i] = stack[i]
  PROVE  \A m \in Nat : m <= n => (Along(new, p, m) <=> Along(stack, p, m))
<1> SUFFICES ASSUME NEW m \in Nat, m <= n
             PROVE  Along(new, p, m) <=> Along(stack, p, m)
  OBVIOUS
<1>1. \A i \in 1 .. m : new[i].slot = stack[i].slot
  <2>1. \A i \in 1 .. m : i \in 1 .. n
    OBVIOUS
  <2>2. QED
    BY <2>1, Zenon
<1>2. QED
  BY <1>1, Zenon DEF Along

\* A frame that is entered: the way to it, and nothing else.
LEMMA EnterBehind ==
  ASSUME NEW stack \in Seq(Frames), NEW new \in Seq(Frames),
         Len(new) = Len(stack) + 1,
         \A i \in 1 .. Len(stack) : new[i] = stack[i],
         new[Len(new)].slot = 1, NEW p \in Seq(Slots)
  PROVE  /\ Behind(new, p) <=> Behind(stack, p) \/ p = SlotsOf(new)
         /\ p = SlotsOf(new) => ~ Behind(stack, p)
<1> DEFINE n == Len(stack)
<1>1. n \in Nat /\ Len(p) \in Nat /\ Len(new) = n + 1
      /\ \A i \in 1 .. Len(p) : p[i] \in Nat /\ p[i] >= 1
  BY NumSlotsAssumption DEF Slots
<1>2. \A m \in Nat : m <= n => (Along(new, p, m) <=> Along(stack, p, m))
  BY <1>1, AlongBoth
<1>3. p = SlotsOf(new) <=> Len(p) = n /\ Along(stack, p, n)
  <2>1. SlotsOf(new) = [i \in 1 .. n |-> new[i].slot]
    BY <1>1 DEF SlotsOf
  <2>2. SlotsOf(new) = [i \in 1 .. n |-> stack[i].slot]
    BY <2>1
  <2>3. p = [i \in 1 .. Len(p) |-> p[i]]
    OBVIOUS
  <2>4. ASSUME Len(p) = n, Along(stack, p, n)
        PROVE  p = SlotsOf(new)
    BY <2>2, <2>3, <2>4 DEF Along
  <2>5. ASSUME p = SlotsOf(new)
        PROVE  Len(p) = n /\ Along(stack, p, n)
    <3>1. DOMAIN p = 1 .. n /\ DOMAIN p = 1 .. Len(p)
      BY <2>2, <2>5
    <3>2. Len(p) = n
      BY <1>1, <3>1
    <3>3. \A i \in 1 .. n : p[i] = stack[i].slot
      BY <2>2, <2>5
    <3>4. QED
      BY <3>2, <3>3 DEF Along
  <2>6. QED
    BY <2>4, <2>5
<1>4. ASSUME Behind(new, p)
      PROVE  Behind(stack, p) \/ p = SlotsOf(new)
  <2>1. CASE Len(p) < n + 1 /\ Along(new, p, Len(p))
    <3>1. Along(stack, p, Len(p))
      BY <1>1, <1>2, <2>1
    <3>2. Len(p) = n \/ Len(p) < n
      BY <1>1, <2>1
    <3>3. QED
      BY <1>3, <3>1, <3>2 DEF Behind
  <2>2. ASSUME NEW m \in 1 .. Len(p), m <= n + 1, Along(new, p, m - 1),
               p[m] < new[m].slot
        PROVE  Behind(stack, p)
    <3>1. m # n + 1
      BY <1>1, <2>2
    <3>2. m <= n /\ m \in 1 .. n /\ m - 1 \in Nat /\ m - 1 <= n
      BY <1>1, <2>2, <3>1
    <3>3. Along(stack, p, m - 1) /\ p[m] < stack[m].slot
      BY <1>2, <2>2, <3>2
    <3>4. QED
      BY <3>2, <3>3 DEF Behind
  <2>3. QED
    BY <1>1, <1>4, <2>1, <2>2 DEF Behind
<1>5. ASSUME Behind(stack, p)
      PROVE  Behind(new, p) /\ p # SlotsOf(new)
  <2>1. CASE Len(p) < n /\ Along(stack, p, Len(p))
    <3>1. Len(p) < n + 1 /\ Len(p) # n /\ Along(new, p, Len(p))
      BY <1>1, <1>2, <2>1
    <3>2. QED
      BY <1>1, <1>3, <3>1 DEF Behind
  <2>2. ASSUME NEW m \in 1 .. Len(p), m <= n, Along(stack, p, m - 1),
               p[m] < stack[m].slot
        PROVE  Behind(new, p) /\ p # SlotsOf(new)
    <3>1. m \in 1 .. n /\ m <= n + 1 /\ m - 1 \in Nat /\ m - 1 <= n
      BY <1>1, <2>2
    <3>2. Along(new, p, m - 1) /\ new[m] = stack[m]
      BY <1>2, <2>2, <3>1
    <3>3. p[m] # stack[m].slot
      BY <1>1, <2>2
    <3>4. p # SlotsOf(new)
      BY <1>3, <3>1, <3>3 DEF Along
    <3>5. QED
      BY <1>1, <2>2, <3>1, <3>2, <3>4 DEF Behind
  <2>3. QED
    BY <1>5, <2>1, <2>2 DEF Behind
<1>6. ASSUME p = SlotsOf(new)
      PROVE  Behind(new, p)
  BY <1>1, <1>2, <1>3, <1>6 DEF Behind
<1>7. QED
  BY <1>4, <1>5, <1>6

\* A slot that has been dealt with: the ways that take it.
LEMMA AdvanceBehind ==
  ASSUME NEW stack \in Seq(Frames), stack # <<>>, NEW new \in Seq(Frames),
         Len(new) = Len(stack),
         \A i \in 1 .. Len(stack) - 1 : new[i] = stack[i],
         new[Len(stack)].slot = stack[Len(stack)].slot + 1,
         NEW p \in Seq(Slots)
  PROVE  Behind(new, p) <=>
           \/ Behind(stack, p)
           \/ Len(stack) <= Len(p) /\ Along(stack, p, Len(stack))
<1> DEFINE n == Len(stack)
<1>1. n \in Nat /\ n >= 1 /\ n - 1 \in Nat /\ Len(p) \in Nat /\ Len(new) = n
      /\ (\A i \in 1 .. Len(p) : p[i] \in Nat)
      /\ (\A i \in 1 .. n : stack[i].slot \in Nat)
  <2>1. \A i \in 1 .. n : stack[i] \in Frames
    OBVIOUS
  <2>2. QED
    BY <2>1, NumSlotsAssumption, SMTT(30) DEF Slots, Frames
<1>2. \A m \in Nat : m <= n - 1 => (Along(new, p, m) <=> Along(stack, p, m))
  BY <1>1, AlongBoth
<1>3. ASSUME Along(stack, p, n - 1), p[n] = stack[n].slot
      PROVE  Along(stack, p, n)
  <2>1. \A i \in 1 .. n : i \in 1 .. n - 1 \/ i = n
    BY <1>1
  <2>2. QED
    BY <1>3, <2>1 DEF Along
<1>4. ASSUME Behind(new, p)
      PROVE  Behind(stack, p) \/ (n <= Len(p) /\ Along(stack, p, n))
  <2>1. CASE Len(p) < n /\ Along(new, p, Len(p))
    <3>1. Along(stack, p, Len(p))
      BY <1>1, <1>2, <2>1
    <3>2. QED
      BY <2>1, <3>1 DEF Behind
  <2>2. ASSUME NEW m \in 1 .. Len(p), m <= n, Along(new, p, m - 1),
               p[m] < new[m].slot
        PROVE  Behind(stack, p) \/ (n <= Len(p) /\ Along(stack, p, n))
    <3>1. m - 1 \in Nat /\ m - 1 <= n - 1 /\ Along(stack, p, m - 1)
      BY <1>1, <1>2, <2>2
    <3>2. CASE m < n
      <4>1. m \in 1 .. n - 1
        BY <1>1, <2>2, <3>2
      <4>2. p[m] < stack[m].slot
        BY <2>2, <4>1
      <4>3. QED
        BY <2>2, <3>1, <4>2 DEF Behind
    <3>3. CASE m = n
      <4>1. p[n] < stack[n].slot \/ p[n] = stack[n].slot
        BY <1>1, <2>2, <3>3
      <4>2. CASE p[n] < stack[n].slot
        BY <2>2, <3>1, <3>3, <4>2 DEF Behind
      <4>3. CASE p[n] = stack[n].slot
        BY <1>1, <1>3, <2>2, <3>1, <3>3, <4>3
      <4>4. QED
        BY <4>1, <4>2, <4>3
    <3>4. QED
      BY <1>1, <2>2, <3>2, <3>3
  <2>3. QED
    BY <1>1, <1>4, <2>1, <2>2 DEF Behind
<1>5. ASSUME Behind(stack, p)
      PROVE  Behind(new, p)
  <2>1. CASE Len(p) < n /\ Along(stack, p, Len(p))
    <3>1. Along(new, p, Len(p))
      BY <1>1, <1>2, <2>1
    <3>2. QED
      BY <1>1, <2>1, <3>1 DEF Behind
  <2>2. ASSUME NEW m \in 1 .. Len(p), m <= n, Along(stack, p, m - 1),
               p[m] < stack[m].slot
        PROVE  Behind(new, p)
    <3>1. m - 1 \in Nat /\ m - 1 <= n - 1 /\ Along(new, p, m - 1)
      BY <1>1, <1>2, <2>2
    <3>2. new[m].slot = stack[m].slot \/ new[m].slot = stack[m].slot + 1
      <4>1. m \in 1 .. n - 1 \/ m = n
        BY <1>1, <2>2
      <4>2. QED
        BY <4>1
    <3>3. m \in 1 .. n
      BY <1>1, <2>2
    <3>4. p[m] < new[m].slot
      BY <1>1, <2>2, <3>2, <3>3
    <3>5. QED
      BY <1>1, <2>2, <3>1, <3>4 DEF Behind
  <2>3. QED
    BY <1>5, <2>1, <2>2 DEF Behind
<1>6. ASSUME n <= Len(p), Along(stack, p, n)
      PROVE  Behind(new, p)
  <2>1. Along(stack, p, n - 1) /\ p[n] = stack[n].slot
    BY <1>1, <1>6 DEF Along
  <2>2. Along(new, p, n - 1) /\ p[n] < new[n].slot
    BY <1>1, <1>2, <2>1
  <2>3. n \in 1 .. Len(p) /\ n <= Len(new)
    BY <1>1, <1>6
  <2>4. QED
    BY <2>2, <2>3 DEF Behind
<1>7. QED
  BY <1>4, <1>5, <1>6

\* A frame that has dealt with all its slots: nothing, when there is one below.
LEMMA ReturnBehind ==
  ASSUME NEW stack \in Seq(Frames), Len(stack) > 1, ~ HasSlot(stack),
         NEW new \in Seq(Frames), Len(new) = Len(stack) - 1,
         \A i \in 1 .. Len(stack) - 2 : new[i] = stack[i],
         new[Len(stack) - 1].slot = stack[Len(stack) - 1].slot + 1,
         NEW p \in Seq(Slots)
  PROVE  Behind(new, p) <=> Behind(stack, p)
<1> DEFINE n == Len(stack)
           low == SubSeq(stack, 1, n - 1)
<1>1. n \in Nat /\ n > 1 /\ n - 1 \in Nat /\ Len(p) \in Nat
      /\ (\A i \in 1 .. Len(p) : p[i] \in Nat /\ p[i] <= NumSlots)
      /\ (\A i \in 1 .. n : stack[i].slot \in Nat) /\ stack[n].slot > NumSlots
  <2>1. n \in Nat /\ n > 1 /\ n - 1 \in Nat /\ Len(p) \in Nat
        /\ \A i \in 1 .. n : stack[i] \in Frames
    OBVIOUS
  <2>2. \A i \in 1 .. n : stack[i].slot \in Nat
    BY <2>1, NumSlotsAssumption, SMTT(30) DEF Frames
  <2>3. \A i \in 1 .. Len(p) : p[i] \in Nat /\ p[i] <= NumSlots
    BY NumSlotsAssumption DEF Slots
  <2>4. stack[n].slot > NumSlots
    <3>1. n \in 1 .. n
      BY <2>1
    <3>2. stack[n].slot \in Nat
      BY <2>2, <3>1
    <3>3. QED
      BY <3>2, NumSlotsAssumption DEF HasSlot, Top
  <2>5. QED
    BY <2>1, <2>2, <2>3, <2>4
<1>2. low \in Seq(Frames) /\ Len(low) = n - 1
      /\ \A i \in 1 .. n - 1 : low[i] = stack[i]
  BY <1>1
<1> HIDE DEF low
<1>3. Behind(new, p) <=> Behind(low, p) \/ (n - 1 <= Len(p) /\ Along(low, p, n - 1))
  <2>1. low # <<>> /\ Len(new) = Len(low) /\ n - 2 = Len(low) - 1
        /\ n - 1 \in 1 .. n - 1 /\ \A i \in 1 .. n - 2 : i \in 1 .. n - 1
    BY <1>1, <1>2
  <2>2. \A i \in 1 .. Len(low) - 1 : new[i] = low[i]
    BY <1>2, <2>1
  <2>3. new[Len(low)].slot = low[Len(low)].slot + 1
    BY <1>2, <2>1
  <2>4. QED
    BY <1>2, <2>1, <2>2, <2>3, AdvanceBehind
<1>4. \A m \in Nat : m <= n - 1 => (Along(low, p, m) <=> Along(stack, p, m))
  BY <1>1, <1>2, AlongBoth
<1>5. ASSUME Behind(low, p)
      PROVE  Behind(stack, p)
  <2>1. CASE Len(p) < n - 1 /\ Along(low, p, Len(p))
    BY <1>1, <1>4, <2>1 DEF Behind
  <2>2. ASSUME NEW m \in 1 .. Len(p), m <= n - 1, Along(low, p, m - 1),
               p[m] < low[m].slot
        PROVE  Behind(stack, p)
    <3>1. m - 1 \in Nat /\ m - 1 <= n - 1 /\ m \in 1 .. n - 1 /\ m <= n
      BY <1>1, <2>2
    <3>2. Along(stack, p, m - 1) /\ p[m] < stack[m].slot
      BY <1>2, <1>4, <2>2, <3>1
    <3>3. QED
      BY <2>2, <3>1, <3>2 DEF Behind
  <2>3. QED
    BY <1>2, <1>5, <2>1, <2>2 DEF Behind
<1>6. ASSUME n - 1 <= Len(p), Along(low, p, n - 1)
      PROVE  Behind(stack, p)
  <2>1. Along(stack, p, n - 1)
    BY <1>1, <1>4, <1>6
  <2>2. CASE Len(p) = n - 1
    BY <1>1, <2>1, <2>2 DEF Behind
  <2>3. CASE Len(p) # n - 1
    <3>1. n \in 1 .. Len(p)
      BY <1>1, <1>6, <2>3
    <3>2. p[n] < stack[n].slot
      BY <1>1, <3>1, NumSlotsAssumption
    <3>3. QED
      BY <1>1, <2>1, <3>1, <3>2 DEF Behind
  <2>4. QED
    BY <2>2, <2>3
<1>7. ASSUME Behind(stack, p)
      PROVE  Behind(low, p) \/ (n - 1 <= Len(p) /\ Along(low, p, n - 1))
  <2>1. CASE Len(p) < n /\ Along(stack, p, Len(p))
    <3>1. Along(low, p, Len(p))
      BY <1>1, <1>4, <2>1
    <3>2. Len(p) < n - 1 \/ Len(p) = n - 1
      BY <1>1, <2>1
    <3>3. QED
      BY <1>1, <1>2, <3>1, <3>2 DEF Behind
  <2>2. ASSUME NEW m \in 1 .. Len(p), m <= n, Along(stack, p, m - 1),
               p[m] < stack[m].slot
        PROVE  Behind(low, p) \/ (n - 1 <= Len(p) /\ Along(low, p, n - 1))
    <3>1. m - 1 \in Nat /\ m - 1 <= n - 1
      BY <1>1, <2>2
    <3>2. Along(low, p, m - 1)
      BY <1>4, <2>2, <3>1
    <3>3. CASE m = n
      BY <1>1, <2>2, <3>2, <3>3
    <3>4. CASE m # n
      <4>1. m \in 1 .. n - 1 /\ m <= n - 1
        BY <1>1, <2>2, <3>4
      <4>2. p[m] < low[m].slot
        BY <1>2, <2>2, <4>1
      <4>3. QED
        BY <1>2, <2>2, <3>2, <4>1, <4>2 DEF Behind
    <3>5. QED
      BY <3>3, <3>4
  <2>3. QED
    BY <1>7, <2>1, <2>2 DEF Behind
<1>8. QED
  BY <1>3, <1>5, <1>6, <1>7

\* The outermost frame has dealt with all its slots: every way.
LEMMA LastBehind ==
  ASSUME NEW stack \in Seq(Frames), Len(stack) = 1, ~ HasSlot(stack),
         NEW p \in Seq(Slots)
  PROVE  Behind(stack, p)
<1>1. stack[1].slot \in Nat /\ stack[1].slot > NumSlots
  <2>1. stack[1] \in Frames
    OBVIOUS
  <2>2. QED
    BY <2>1, NumSlotsAssumption DEF Frames, HasSlot, Top
<1>2. CASE Len(p) = 0
  BY <1>2 DEF Behind, Along
<1>3. CASE Len(p) # 0
  <2>1. 1 \in 1 .. Len(p) /\ p[1] \in Nat /\ p[1] <= NumSlots
    BY <1>3, NumSlotsAssumption DEF Slots
  <2>2. p[1] < stack[1].slot
    BY <1>1, <2>1, NumSlotsAssumption
  <2>3. Along(stack, p, 1 - 1)
    BY DEF Along
  <2>4. QED
    BY <2>1, <2>2, <2>3 DEF Behind
<1>4. QED
  BY <1>2, <1>3

-----------------------------------------------------------------------------
(* What a step of the walk adds to the ways that are counted. *)

\* To enter an object adds one way to it, and none to another object.
LEMMA EnterCounts ==
  ASSUME NEW h \in Heaps, NEW stack \in Seq(Frames), NEW o \in Objects,
         Linked(h, stack),
         stack = <<>> => o = Root,
         stack # <<>> => /\ stack[1].obj = Root /\ HasSlot(stack)
                         /\ h[Top(stack).obj][Top(stack).slot] = o
  PROVE  LET new == Append(stack, Enter(o)) IN
         /\ Counted(h, new, o) = Counted(h, stack, o) \union {SlotsOf(new)}
         /\ SlotsOf(new) \notin Counted(h, stack, o)
         /\ \A q \in Objects \ {o} : Counted(h, new, q) = Counted(h, stack, q)
<1> DEFINE new == Append(stack, Enter(o))
           way == SlotsOf(new)
<1>1. /\ new \in Seq(Frames)
      /\ Len(new) = Len(stack) + 1
      /\ \A i \in 1 .. Len(stack) : new[i] = stack[i]
      /\ new[Len(new)].obj = o
      /\ Linked(h, new)
  BY EnterStack
<1>2. new[Len(new)].slot = 1
  BY <1>1 DEF Enter
<1> HIDE DEF new
<1>3. new # <<>> /\ new[1].obj = Root /\ Top(new).obj = o
  <2>1. Len(stack) \in Nat /\ (stack # <<>> => 1 \in 1 .. Len(stack))
    OBVIOUS
  <2>2. CASE stack = <<>>
    BY <1>1, <2>2, SMTT(30) DEF Top
  <2>3. CASE stack # <<>>
    BY <1>1, <2>1, <2>3 DEF Top
  <2>4. QED
    BY <2>2, <2>3
<1>4. way \in WaysTo(h, o) /\ Len(way) = Len(stack)
  <2>1. way \in WaysTo(h, o) /\ Len(way) = Len(new) - 1
    BY <1>1, <1>3, StackIsWay
  <2>2. QED
    BY <1>1, <2>1
<1>5. \A p \in Seq(Slots) :
        /\ Behind(new, p) <=> Behind(stack, p) \/ p = way
        /\ p = way => ~ Behind(stack, p)
  BY <1>1, <1>2, EnterBehind
<1>6. \A q \in Objects \ {o} : way \notin WaysTo(h, q)
  <2> SUFFICES ASSUME NEW q, way \in WaysTo(h, q)
               PROVE  q = o
    OBVIOUS
  <2>1. PICK nodes : IsWay(h, way, nodes) /\ nodes[Len(way)] = q
    BY DEF WaysTo
  <2>2. Along(new, way, Len(way))
    <3>1. \A i \in 1 .. Len(new) - 1 : way[i] = new[i].slot
      BY DEF SlotsOf
    <3>2. Len(way) = Len(new) - 1
      BY <1>1, <1>4
    <3>3. QED
      BY <3>1, <3>2 DEF Along
  <2>3. Len(way) \in 0 .. Len(way) /\ Len(way) < Len(new)
        /\ Len(way) + 1 = Len(new)
    BY <1>1, <1>4
  <2>4. nodes[Len(way)] = new[Len(way) + 1].obj
    BY <1>1, <1>3, <2>1, <2>2, <2>3, AlongLeads
  <2>5. QED
    BY <1>1, <2>1, <2>3, <2>4
<1> HIDE DEF way
<1>7. Counted(h, new, o) = Counted(h, stack, o) \union {way}
  BY <1>4, <1>5 DEF Counted, WaysTo
<1>8. way \notin Counted(h, stack, o)
  BY <1>4, <1>5 DEF Counted, WaysTo
<1>9. \A q \in Objects \ {o} : Counted(h, new, q) = Counted(h, stack, q)
  BY <1>5, <1>6 DEF Counted, WaysTo
<1>10. QED
  BY <1>7, <1>8, <1>9 DEF new, way

\* To step over a null pointer adds none: nothing leads over it.
LEMMA AdvanceCounts ==
  ASSUME NEW h \in Heaps, NEW stack \in Seq(Frames), stack # <<>>,
         Linked(h, stack), HasSlot(stack), stack[1].obj = Root,
         h[Top(stack).obj][Top(stack).slot] = NULL, NEW q
  PROVE  Counted(h, Advance(stack), q) = Counted(h, stack, q)
<1> DEFINE new == Advance(stack)
           n   == Len(stack)
<1>1. new \in Seq(Frames) /\ Len(new) = n
  BY AdvanceStack
<1>2. /\ \A i \in 1 .. n - 1 : new[i] = stack[i]
      /\ new[n].slot = stack[n].slot + 1
  BY DEF Advance, NextSlot
<1> HIDE DEF new
<1>3. \A p \in Seq(Slots) :
        Behind(new, p) <=> Behind(stack, p) \/ (n <= Len(p) /\ Along(stack, p, n))
  BY <1>1, <1>2, AdvanceBehind
<1>4. ASSUME NEW p \in WaysTo(h, q), n <= Len(p), Along(stack, p, n)
      PROVE  FALSE
  <2>1. PICK nodes : IsWay(h, p, nodes)
    BY <1>4 DEF WaysTo
  <2>2. n \in Nat /\ n >= 1 /\ Len(p) \in Nat
    BY <2>1 DEF IsWay
  <2>3. n - 1 \in 0 .. Len(p) /\ n - 1 < n /\ n \in 1 .. Len(p)
        /\ (n - 1) + 1 = n
    BY <1>4, <2>2
  <2>4. Along(stack, p, n - 1) /\ p[n] = stack[n].slot
    BY <1>4, <2>2 DEF Along
  <2>5. nodes[n - 1] = stack[n].obj
    BY <2>1, <2>3, <2>4, AlongLeads
  <2>6. nodes[n] = NULL
    BY <2>1, <2>3, <2>4, <2>5 DEF IsWay, Top
  <2>7. nodes[n] \in Objects
    BY <2>1, <2>2, <2>3 DEF IsWay
  <2>8. QED
    BY <2>6, <2>7, NULLAssumption
<1>5. QED
  BY <1>3, <1>4 DEF Counted, WaysTo, new

\* A frame that returns adds none: the ways through it have been come past.
LEMMA ReturnCounts ==
  ASSUME NEW h \in Heaps, NEW stack \in Seq(Frames), Len(stack) > 1,
         Linked(h, stack), ~ HasSlot(stack), NEW q
  PROVE  Counted(h, Return(stack), q) = Counted(h, stack, q)
<1> DEFINE new == Return(stack)
           n   == Len(stack)
<1>1. n \in Nat /\ n > 1 /\ stack # <<>>
  OBVIOUS
<1>2. new \in Seq(Frames) /\ Len(new) = n - 1
  BY <1>1, ReturnStack
<1>3. /\ \A i \in 1 .. n - 2 : new[i] = stack[i]
      /\ new[n - 1].slot = stack[n - 1].slot + 1
  BY <1>1 DEF Return, NextSlot
<1> HIDE DEF new
<1>4. \A p \in Seq(Slots) : Behind(new, p) <=> Behind(stack, p)
  BY <1>2, <1>3, ReturnBehind
<1>5. QED
  BY <1>4 DEF Counted, WaysTo, new

-----------------------------------------------------------------------------
(* The invariant. *)

\* The ways to o that the walk has come past.
WaysPast(o) ==
  IF phase = "done" THEN WaysTo(heap, o) ELSE Counted(heap, calls, o)

VisitsCounted ==
  \A o \in Objects :
    IsFiniteSet(WaysPast(o)) /\ visits[o] = Cardinality(WaysPast(o))

\* Nothing has been walked into on no stack.
LEMMA NoneCounted ==
  ASSUME NEW h, NEW o
  PROVE  /\ Counted(h, <<>>, o) = {}
         /\ IsFiniteSet({}) /\ Cardinality({}) = 0
<1>1. \A p \in Seq(Slots) : ~ Behind(<<>>, p)
  BY DEF Behind
<1>2. QED
  BY <1>1, FS_EmptySet DEF Counted, WaysTo

\* A walk that enters an object counts the way to it.
LEMMA EnterVisits ==
  ASSUME heap \in Heaps, calls \in Seq(Frames), visits \in [Objects -> Nat],
         NEW o \in Objects, Linked(heap, calls),
         calls = <<>> => o = Root,
         calls # <<>> =>
           calls[1].obj = Root /\ HasSlot(calls) /\ Pointer(calls) = o,
         phase # "done", phase' # "done", heap' = heap,
         calls' = Append(calls, Enter(o)),
         visits' = [visits EXCEPT ![o] = @ + 1],
         VisitsCounted
  PROVE  VisitsCounted'
<1>1. /\ Counted(heap, calls', o) =
           Counted(heap, calls, o) \union {SlotsOf(calls')}
      /\ SlotsOf(calls') \notin Counted(heap, calls, o)
      /\ \A q \in Objects \ {o} :
           Counted(heap, calls', q) = Counted(heap, calls, q)
  BY EnterCounts DEF Pointer
<1>2. \A q \in Objects :
        /\ IsFiniteSet(Counted(heap, calls, q))
        /\ visits[q] = Cardinality(Counted(heap, calls, q))
  BY DEF VisitsCounted, WaysPast
<1>3. \A q \in Objects :
        /\ IsFiniteSet(Counted(heap, calls', q))
        /\ visits'[q] = Cardinality(Counted(heap, calls', q))
  <2>1. /\ IsFiniteSet(Counted(heap, calls', o))
        /\ Cardinality(Counted(heap, calls', o)) =
             Cardinality(Counted(heap, calls, o)) + 1
    <3>1. PICK S : S = Counted(heap, calls, o)
      OBVIOUS
    <3>2. PICK x : x = SlotsOf(calls')
      OBVIOUS
    <3>3. IsFiniteSet(S) /\ x \notin S /\ Counted(heap, calls', o) = S \union {x}
      BY <1>1, <1>2, <3>1, <3>2
    <3>4. IsFiniteSet(S \union {x}) /\ Cardinality(S \union {x}) = Cardinality(S) + 1
      BY <3>3, FS_AddElement
    <3>5. QED
      BY <3>1, <3>3, <3>4
  <2>2. visits'[o] = visits[o] + 1
    OBVIOUS
  <2>3. \A q \in Objects \ {o} : visits'[q] = visits[q]
    OBVIOUS
  <2>4. QED
    BY <1>1, <1>2, <2>1, <2>2, <2>3
<1>4. QED
  BY <1>3 DEF VisitsCounted, WaysPast

LEMMA VisitsInit == Init => VisitsCounted
<1> SUFFICES ASSUME Init
             PROVE  VisitsCounted
  OBVIOUS
<1>1. heap \in Heaps
  BY DEF Init
<1>2. CASE InitPointer
  BY <1>2, NoneCounted DEF InitPointer, VisitsCounted, WaysPast
<1>3. CASE InitEntity
  <2>1. Linked(heap, <<>>) /\ <<>> \in Seq(Frames)
        /\ Append(<<>>, Enter(Root)) = <<Enter(Root)>>
    BY DEF Linked
  <2>2. /\ Counted(heap, <<Enter(Root)>>, Root) = {SlotsOf(<<Enter(Root)>>)}
        /\ \A q \in Objects \ {Root} : Counted(heap, <<Enter(Root)>>, q) = {}
    <3>1. PICK none \in Seq(Frames) : none = <<>>
      BY <2>1
    <3>2. PICK o \in Objects : o = Root
      BY RootAssumption
    <3>3. /\ Linked(heap, none)
          /\ none = <<>> => o = Root
          /\ none # <<>> => /\ none[1].obj = Root /\ HasSlot(none)
                            /\ heap[Top(none).obj][Top(none).slot] = o
      BY <2>1, <3>1, <3>2
    <3>4. /\ Counted(heap, Append(none, Enter(o)), o) =
               Counted(heap, none, o) \union {SlotsOf(Append(none, Enter(o)))}
          /\ \A q \in Objects \ {o} :
               Counted(heap, Append(none, Enter(o)), q) = Counted(heap, none, q)
      BY <1>1, <3>3, EnterCounts
    <3>5. \A q : Counted(heap, none, q) = {}
      BY <3>1, NoneCounted
    <3>6. QED
      BY <2>1, <3>1, <3>2, <3>4, <3>5
  <2>3. /\ IsFiniteSet(Counted(heap, calls, Root))
        /\ Cardinality(Counted(heap, calls, Root)) = 1
    <3>1. PICK x : Counted(heap, calls, Root) = {x}
      BY <1>3, <2>2 DEF InitEntity
    <3>2. QED
      BY <3>1, FS_Singleton
  <2>4. QED
    BY <1>3, <2>2, <2>3, NoneCounted DEF InitEntity, VisitsCounted, WaysPast
<1>4. QED
  BY <1>2, <1>3 DEF Init

LEMMA VisitsNext == IInv /\ VisitsCounted /\ [Next]_vars => VisitsCounted'
<1> SUFFICES ASSUME IInv, VisitsCounted, [Next]_vars
             PROVE  VisitsCounted'
  OBVIOUS
<1>1. /\ heap \in Heaps /\ calls \in Seq(Frames) /\ ancestor \in Objects
      /\ visits \in [Objects -> Nat] /\ Linked(heap, calls)
      /\ calls # <<>> => calls[1].obj = Root
      /\ phase = "walk" => calls # <<>>
  BY DEF IInv, TypeOK, StacksLinked
<1>2. CASE UNCHANGED <<heap, calls, visits>> /\ phase # "done" /\ phase' # "done"
  BY <1>2 DEF VisitsCounted, WaysPast
<1>3. CASE WalkNull
  <2>1. \A q : Counted(heap, calls', q) = Counted(heap, calls, q)
    BY <1>1, <1>3, AdvanceCounts DEF WalkNull, Pointer
  <2>2. QED
    BY <1>3, <2>1 DEF WalkNull, VisitsCounted, WaysPast
<1>4. CASE WalkInto
  <2>1. Pointer(calls) \in Objects
    <3>1. Top(calls) \in Frames
      BY <1>1, <1>4 DEF WalkInto, Top
    <3>2. QED
      BY <1>1, <1>4, <3>1, NumSlotsAssumption
      DEF WalkInto, Pointer, HasSlot, Heaps, Slots, Frames
  <2>2. QED
    BY <1>1, <1>4, <2>1, EnterVisits DEF WalkInto
<1>5. CASE CheckClear
  <2>1. /\ calls = <<>> => ancestor = Root
        /\ calls # <<>> =>
             calls[1].obj = Root /\ HasSlot(calls) /\ Pointer(calls) = ancestor
    BY <1>1, <1>5 DEF IInv, CheckPending, CheckClear
  <2>2. QED
    BY <1>1, <1>5, <2>1, EnterVisits DEF CheckClear
<1>6. CASE WalkReturn
  <2>1. Len(calls) \in Nat /\ Len(calls) >= 1
    BY <1>1, <1>6 DEF WalkReturn
  <2>2. CASE Len(calls) = 1
    <3>1. \A p \in Seq(Slots) : Behind(calls, p)
      BY <1>1, <1>6, <2>2, LastBehind DEF WalkReturn
    <3>2. \A o : Counted(heap, calls, o) = WaysTo(heap, o)
      BY <3>1 DEF Counted, WaysTo
    <3>3. QED
      BY <1>6, <2>2, <3>2 DEF WalkReturn, VisitsCounted, WaysPast
  <2>3. CASE Len(calls) # 1
    <3>1. Len(calls) > 1
      BY <2>1, <2>3
    <3>2. \A q : Counted(heap, calls', q) = Counted(heap, calls, q)
      BY <1>1, <1>6, <3>1, ReturnCounts DEF WalkReturn
    <3>3. QED
      BY <1>6, <2>3, <3>2 DEF WalkReturn, VisitsCounted, WaysPast
  <2>4. QED
    BY <2>2, <2>3
<1>7. CASE UNCHANGED vars
  BY <1>7 DEF vars, VisitsCounted, WaysPast
<1>8. CASE WalkCheck \/ CheckNull \/ CheckFound \/ CheckInto \/ CheckReturn \/ Overflow
  BY <1>2, <1>8
  DEF WalkCheck, CheckNull, CheckFound, CheckInto, CheckReturn, Overflow
<1>9. QED
  BY <1>3, <1>4, <1>5, <1>6, <1>7, <1>8 DEF Next

-----------------------------------------------------------------------------
(***************************************************************************)
(* When there are finitely many ways, none of them passes an object twice: *)
(* it could go round once more.  So all of them are in Paths.              *)
(***************************************************************************)

\* A finite set of sequences has a longest one.
LEMMA LongestOne ==
  ASSUME NEW U, NEW S \in SUBSET Seq(U), IsFiniteSet(S), S # {}
  PROVE  \E p \in S : \A q \in S : Len(q) <= Len(p)
<1> DEFINE Longest(V, p) == p \in V /\ \A q \in V : Len(q) <= Len(p)
           T == {n \in Nat : \E V \in SUBSET S :
                   /\ V # {} /\ IsFiniteSet(V) /\ Cardinality(V) = n
                   /\ ~ \E p : Longest(V, p)}
<1>1. SUFFICES ASSUME ~ \E p : Longest(S, p)
               PROVE  FALSE
  OBVIOUS
<1>2. Cardinality(S) \in T
  <2>1. Cardinality(S) \in Nat
    BY FS_CardinalityType
  <2>2. QED
    BY <1>1, <2>1
<1>3. PICK n \in T : \A k \in T : n <= k
  <2>1. T \in SUBSET Nat /\ T # {}
    BY <1>2
  <2>2. QED
    BY <2>1, LeastNumber, Zenon
<1>4. PICK V \in SUBSET S :
        /\ V # {} /\ IsFiniteSet(V) /\ Cardinality(V) = n
        /\ ~ \E p : Longest(V, p)
  BY <1>3
<1>5. PICK x : x \in V
  BY <1>4
<1>6. PICK W : W = V \ {x}
  OBVIOUS
<1>7. n \in Nat /\ IsFiniteSet(W) /\ Cardinality(W) = n - 1 /\ Cardinality(W) \in Nat
  <2>1. IsFiniteSet(W) /\ Cardinality(W) = Cardinality(V) - 1
    BY <1>4, <1>5, <1>6, FS_RemoveElement
  <2>2. QED
    BY <1>3, <1>4, <2>1, FS_CardinalityType
<1>8. \A q \in V : Len(q) \in Nat
  BY <1>4
<1>9. PICK p : Longest(W, p)
  <2>1. W # {}
    <3>1. SUFFICES ASSUME W = {}
                   PROVE  FALSE
      OBVIOUS
    <3>2. \A q \in V : q = x
      BY <1>6, <3>1
    <3>3. Longest(V, x)
      BY <1>5, <1>8, <3>2
    <3>4. QED
      BY <1>4, <3>3
  <2>2. Cardinality(W) \notin T
    <3>1. Cardinality(W) \in T => n <= Cardinality(W)
      BY <1>3, Zenon
    <3>2. ~ (n <= Cardinality(W))
      BY <1>7
    <3>3. QED
      BY <3>1, <3>2, Zenon
  <2>3. W \in SUBSET S
    BY <1>4, <1>6
  <2>4. QED
    BY <1>7, <2>1, <2>2, <2>3
<1>10. Longest(V, IF Len(x) <= Len(p) THEN p ELSE x)
  <2>1. p \in V /\ \A q \in V : q = x \/ q \in W
    BY <1>6, <1>9
  <2>2. \A q \in W : Len(q) <= Len(p)
    BY <1>9
  <2>3. CASE Len(x) <= Len(p)
    BY <2>1, <2>2, <2>3
  <2>4. CASE ~ (Len(x) <= Len(p))
    <3>1. \A q \in V : Len(q) <= Len(x)
      <4> SUFFICES ASSUME NEW q \in V
                   PROVE  Len(q) <= Len(x)
        OBVIOUS
      <4>1. Len(q) \in Nat /\ Len(x) \in Nat /\ Len(p) \in Nat
        BY <1>5, <1>8, <2>1
      <4>2. q = x \/ Len(q) <= Len(p)
        BY <2>1, <2>2
      <4>3. QED
        BY <2>4, <4>1, <4>2
    <3>2. QED
      BY <1>5, <2>4, <3>1
  <2>5. QED
    BY <2>3, <2>4
<1>11. QED
  BY <1>4, <1>10

\* p comes to o and passes an object twice.
Loops(h, p, o) ==
  \E nodes : \E i, j \in 0 .. Len(p) :
    i < j /\ IsWay(h, p, nodes) /\ nodes[Len(p)] = o /\ nodes[i] = nodes[j]

\* A way that loops can go round once more.
LEMMA LoopAgain ==
  ASSUME NEW h, NEW p, NEW o, Loops(h, p, o)
  PROVE  \E r \in Seq(Slots) : Loops(h, r, o) /\ Len(r) > Len(p)
<1>0. PICK nodes : \E i, j \in 0 .. Len(p) :
        i < j /\ IsWay(h, p, nodes) /\ nodes[Len(p)] = o /\ nodes[i] = nodes[j]
  BY DEF Loops
<1>1. PICK i \in 0 .. Len(p), j \in 0 .. Len(p) :
        i < j /\ IsWay(h, p, nodes) /\ nodes[Len(p)] = o /\ nodes[i] = nodes[j]
  BY <1>0
<1> DEFINE d == j - i
           r == [t \in 1 .. Len(p) + d |-> IF t <= j THEN p[t] ELSE p[t - d]]
           b == [t \in 0 .. Len(p) + d |-> IF t <= j THEN nodes[t] ELSE nodes[t - d]]
<1>2. /\ Len(p) \in Nat /\ i \in Nat /\ j \in Nat /\ d \in Nat /\ d > 0
      /\ j <= Len(p) /\ j - d = i /\ Len(p) + d \in Nat
      /\ p \in Seq(Slots) /\ nodes \in [0 .. Len(p) -> Objects]
  BY <1>1 DEF IsWay
<1> HIDE DEF d
<1>3. r \in Seq(Slots) /\ Len(r) = Len(p) + d
  <2>1. \A t \in 1 .. Len(p) + d : r[t] \in Slots
    <3> SUFFICES ASSUME NEW t \in 1 .. Len(p) + d
                 PROVE  r[t] \in Slots
      OBVIOUS
    <3>1. CASE t <= j
      <4>1. t \in 1 .. Len(p) /\ r[t] = p[t]
        BY <1>2, <3>1
      <4>2. QED
        BY <1>2, <4>1
    <3>2. CASE ~ (t <= j)
      <4>1. t - d \in 1 .. Len(p) /\ r[t] = p[t - d]
        BY <1>2, <3>2
      <4>2. QED
        BY <1>2, <4>1
    <3>3. QED
      BY <3>1, <3>2
  <2>2. QED
    BY <1>2, <2>1
<1>4. b \in [0 .. Len(r) -> Objects]
  <2>1. \A t \in 0 .. Len(p) + d : b[t] \in Objects
    <3> SUFFICES ASSUME NEW t \in 0 .. Len(p) + d
                 PROVE  b[t] \in Objects
      OBVIOUS
    <3>1. CASE t <= j
      <4>1. t \in 0 .. Len(p) /\ b[t] = nodes[t]
        BY <1>2, <3>1
      <4>2. QED
        BY <1>2, <4>1
    <3>2. CASE ~ (t <= j)
      <4>1. t - d \in 0 .. Len(p) /\ b[t] = nodes[t - d]
        BY <1>2, <3>2
      <4>2. QED
        BY <1>2, <4>1
    <3>3. QED
      BY <3>1, <3>2
  <2>2. QED
    BY <1>3, <2>1
<1>5. ASSUME NEW t \in 0 .. Len(p) + d
      PROVE  (t <= j => b[t] = nodes[t]) /\ (t >= j => b[t] = nodes[t - d])
  <2>1. CASE t = j
    <3>1. t <= j /\ t - d = i
      BY <1>2, <2>1
    <3>2. b[t] = nodes[t]
      BY <3>1
    <3>3. QED
      BY <1>1, <2>1, <3>1, <3>2
  <2>2. CASE t # j
    BY <1>2, <2>2
  <2>3. QED
    BY <2>1, <2>2
<1>6. ASSUME NEW t \in 1 .. Len(r)
      PROVE  h[b[t - 1]][r[t]] = b[t]
  <2>1. t \in 0 .. Len(p) + d /\ t - 1 \in 0 .. Len(p) + d /\ t \in 1 .. Len(p) + d
    BY <1>2, <1>3
  <2>2. CASE t <= j
    <3>1. t \in 1 .. Len(p) /\ t - 1 <= j
      BY <1>2, <2>1, <2>2
    <3>2. b[t - 1] = nodes[t - 1] /\ b[t] = nodes[t] /\ r[t] = p[t]
      BY <1>5, <2>1, <2>2, <3>1
    <3>3. QED
      BY <1>1, <3>1, <3>2 DEF IsWay
  <2>3. CASE ~ (t <= j)
    <3>1. t - d \in 1 .. Len(p) /\ t - 1 >= j /\ t >= j /\ (t - 1) - d = (t - d) - 1
      BY <1>2, <2>1, <2>3
    <3>2. b[t - 1] = nodes[(t - d) - 1] /\ b[t] = nodes[t - d] /\ r[t] = p[t - d]
      BY <1>5, <2>1, <2>3, <3>1
    <3>3. QED
      BY <1>1, <3>1, <3>2 DEF IsWay
  <2>4. QED
    BY <2>2, <2>3
<1>7. b[0] = Root /\ b[Len(r)] = o /\ b[i] = b[j]
  <2>1. 0 \in 0 .. Len(p) + d /\ 0 <= j /\ Len(r) \in 0 .. Len(p) + d
        /\ Len(r) >= j /\ Len(r) - d = Len(p)
        /\ i \in 0 .. Len(p) + d /\ i <= j /\ j \in 0 .. Len(p) + d /\ j <= j
    BY <1>1, <1>2, <1>3
  <2>2. b[0] = nodes[0] /\ b[Len(r)] = nodes[Len(p)]
        /\ b[i] = nodes[i] /\ b[j] = nodes[j]
    BY <1>5, <2>1
  <2>3. QED
    BY <1>1, <2>2 DEF IsWay
<1> HIDE DEF r, b
<1>8. IsWay(h, r, b)
  BY <1>3, <1>4, <1>6, <1>7 DEF IsWay
<1>9. i \in 0 .. Len(r) /\ j \in 0 .. Len(r) /\ Len(r) > Len(p)
  BY <1>2, <1>3
<1>10. Loops(h, r, o)
  BY <1>1, <1>7, <1>8, <1>9 DEF Loops
<1>11. QED
  BY <1>3, <1>9, <1>10

\* Among finitely many ways, each has fewer pointers than there are objects.
LEMMA WaysAreShort ==
  ASSUME IsFiniteSet(Objects), NEW h, NEW p, NEW nodes, IsWay(h, p, nodes),
         \A o \in Objects : IsFiniteSet(WaysTo(h, o))
  PROVE  Len(p) < Cardinality(Objects)
<1>1. SUFFICES ASSUME ~ (Len(p) < Cardinality(Objects))
               PROVE  FALSE
  OBVIOUS
<1>2. Len(p) \in Nat /\ Cardinality(Objects) \in Nat
  BY FS_CardinalityType DEF IsWay
<1>3. PICK o \in Objects : o = nodes[Len(p)]
  BY <1>2 DEF IsWay
<1>4. Loops(h, p, o)
  <2>1. IsFiniteSet(0 .. Len(p)) /\ Cardinality(0 .. Len(p)) = Len(p) + 1
    <3>1. 0 \in Int /\ Len(p) \in Int
      BY <1>2
    <3>2. /\ IsFiniteSet(0 .. Len(p))
          /\ Cardinality(0 .. Len(p)) =
               IF 0 > Len(p) THEN 0 ELSE Len(p) - 0 + 1
      BY <3>1, FS_Interval, Zenon
    <3>3. QED
      BY <1>2, <3>2
  <2>2. nodes \in [0 .. Len(p) -> Objects]
        /\ Cardinality(Objects) < Cardinality(0 .. Len(p))
    BY <1>1, <1>2, <2>1 DEF IsWay
  <2>3. PICK x, y \in 0 .. Len(p) : x # y /\ nodes[x] = nodes[y]
    BY <2>1, <2>2, FS_PigeonHole, Zenon
  <2>4. x < y \/ y < x
    BY <1>2, <2>3
  <2>5. QED
    BY <1>3, <2>3, <2>4 DEF Loops
<1> DEFINE L == {q \in WaysTo(h, o) : Loops(h, q, o)}
<1>5. \A q \in Seq(Slots) : Loops(h, q, o) => q \in L
  BY DEF Loops, WaysTo
<1>6. L \in SUBSET Seq(Slots) /\ IsFiniteSet(L) /\ L # {}
  <2>1. L \in SUBSET WaysTo(h, o) /\ IsFiniteSet(WaysTo(h, o))
    OBVIOUS
  <2>2. IsFiniteSet(L)
    BY <2>1, FS_Subset, Zenon
  <2>3. p \in Seq(Slots)
    BY DEF IsWay
  <2>4. QED
    BY <1>4, <1>5, <2>2, <2>3 DEF WaysTo
<1>7. \A q \in L : Loops(h, q, o)
  OBVIOUS
<1> HIDE DEF L
<1>8. PICK q \in L : \A r \in L : Len(r) <= Len(q)
  BY <1>6, LongestOne, Zenon
<1>9. PICK r \in Seq(Slots) : Loops(h, r, o) /\ Len(r) > Len(q)
  BY <1>7, LoopAgain, Zenon
<1>10. r \in L
  BY <1>5, <1>9
<1>11. Len(r) \in Nat /\ Len(q) \in Nat
  BY <1>6
<1>12. QED
  BY <1>8, <1>9, <1>10, <1>11

\* Paths are the ways, when all of them are that short.
LEMMA PathsAreWays ==
  ASSUME IsFiniteSet(Objects), NEW o \in Objects,
         \A p, nodes : IsWay(heap, p, nodes) => Len(p) < Cardinality(Objects)
  PROVE  Paths(o) = WaysTo(heap, o)
<1>1. Cardinality(Objects) \in Nat
  BY FS_CardinalityType
<1>2. ASSUME NEW n \in Nat, NEW p \in PathsOfLength(n, o)
      PROVE  p \in WaysTo(heap, o)
  <2>1. p \in Seq(Slots) /\ Len(p) = n
    BY <1>2 DEF PathsOfLength
  <2>2. PICK nodes \in [0 .. n -> Objects] :
          /\ nodes[0] = Root
          /\ nodes[n] = o
          /\ \A i \in 1 .. n : heap[nodes[i - 1]][p[i]] = nodes[i]
    BY <1>2 DEF PathsOfLength
  <2>3. QED
    BY <2>1, <2>2 DEF IsWay, WaysTo
<1>3. ASSUME NEW p \in WaysTo(heap, o)
      PROVE  Len(p) \in 0 .. Cardinality(Objects) - 1 /\ p \in PathsOfLength(Len(p), o)
  <2>1. PICK nodes : IsWay(heap, p, nodes) /\ nodes[Len(p)] = o
    BY <1>3 DEF WaysTo
  <2>2. p \in [1 .. Len(p) -> Slots] /\ Len(p) \in Nat
        /\ Len(p) < Cardinality(Objects)
    BY <2>1 DEF IsWay
  <2>3. Len(p) \in 0 .. Cardinality(Objects) - 1
    BY <1>1, <2>2
  <2>4. p \in PathsOfLength(Len(p), o)
    BY <2>1, <2>2 DEF IsWay, PathsOfLength
  <2>5. QED
    BY <2>3, <2>4
<1>4. \A n \in 0 .. Cardinality(Objects) - 1 : n \in Nat
  BY <1>1
<1>5. QED
  BY <1>2, <1>3, <1>4 DEF Paths

\* encode, to_tree and modify, when they come to their end, have walked into
\* each object once for every path of pointers that leads to it, however the
\* finitely many objects point to each other.
THEOREM VisitsArePaths ==
  ASSUME IsFiniteSet(Objects)
  PROVE  Spec => []VisitsCountPaths
<1>1. Spec => []VisitsCounted
  BY IInvInvariant, VisitsInit, VisitsNext, PTL DEF Spec
<1>2. VisitsCounted => VisitsCountPaths
  <2> SUFFICES ASSUME VisitsCounted, phase = "done"
               PROVE  \A o \in Objects : visits[o] = Cardinality(Paths(o))
    BY DEF VisitsCountPaths
  <2>1. \A o \in Objects : IsFiniteSet(WaysTo(heap, o))
                           /\ visits[o] = Cardinality(WaysTo(heap, o))
    BY DEF VisitsCounted, WaysPast
  <2>2. \A p, nodes : IsWay(heap, p, nodes) => Len(p) < Cardinality(Objects)
    BY <2>1, WaysAreShort
  <2>3. \A o \in Objects : Paths(o) = WaysTo(heap, o)
    BY <2>2, PathsAreWays
  <2>4. QED
    BY <2>1, <2>3
<1>3. QED
  BY <1>1, <1>2, PTL
=============================================================================
