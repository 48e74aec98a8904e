# A verification of libentity

libentity is a header-only C++17 library.  A class declares which of its members
belong to it (`ent_describe`), and the library encodes it to JSON or BSON, decodes
it back, converts it to and from a dynamic tree, and walks over it; beside that it
has lazy queries over containers.  This directory holds TLA+ modules that model its
core, TLC configurations that check them, and proofs for TLAPS.

All source paths below are relative to `src/include/entity/` of the repository.

## 1. Inventory

| Component | Source | State it keeps | Operations |
|---|---|---|---|
| Smart pointers | `vref/pointer.hpp` | the client's object graph, the C++ call stack | encode, decode, is_circular, to_tree, from_tree, modify |
| Entities and containers | `vref/{entity,vector,array,map,set}.hpp` | the client's objects | the same, recursing into members and elements |
| BSON codec | `bson.hpp` | output stream, stack of document starts; position of the reader | object/array start and end, item, get, skip |
| JSON codec | `json.hpp` | output stream; position of the reader; validate's levels | the same, validate, whitespace and comments |
| Codec interface | `codec.hpp` | none | encode and decode of dynamic values: the loops |
| Entry points | `entity.hpp` | none | encode, decode, to_tree, from_tree |
| Lazy queries | `query.hpp` | per link: iterator, buffer, parts, counter, item, comparator; links shared by chains | 15 links, some 40 calls, iterators |
| Dynamic tree | `tree.hpp` | type, leaf, children; two static empty values | construction, copy, move, set, as_..., walk, comparison |
| Tree comparison | `utilities/compare.hpp` | none | trees, entities |
| Base64 | `utilities/base64.hpp` | none | encode, decode |
| Leaf vrefs, any_ref | `vref/{simple,enum,path,tree}.hpp`, `any.hpp` | one reference | one get or item call each |

How they interact.  `encode` and `decode` call the vref of the type; a vref of an
entity or a container calls the codec to open and close documents and the vrefs of
what it holds in between, and hands the reader's position on **by value and by
return** (`position = ...decode(...)`), whereas the codec changes it **by
reference**.  A vref of a pointer first calls back into the vrefs below it
(`is_circular`) and then into them again.  Queries keep `std::function`s that pull
from a parent, which is held by `shared_ptr` and therefore shared by every query
that is derived from the same one.

The library is single-threaded, keeps nothing on disk and has no timeouts.  What is
hard about it is of other kinds:

* **recursion over graphs** that share objects or go round: what is found circular,
  what is not, and what never comes back (`vref/pointer.hpp:30, :107, :124`);
* **two programs that must agree without seeing each other**: where the writer puts
  a value, the reader must be after *any* choice of values taken and skipped
  (`bson.hpp:235-260`, `json.hpp:308-441`), at every depth, and after the writer
  has gone back to patch its lengths (`bson.hpp:44-53`);
* **shared mutable state behind a functional interface**: a query looks like a value,
  but its links are objects that calls and iterators restart under each other
  (`query.hpp:530-588`), and may be run again at any time;
* **legal calls in an order nobody tested**: `take` after `reverse`, `except` of
  oneself, a query iterated half-way and then counted.

What makes each component correct:

* *pointers*: a circular reference is reported if and only if there is one, and a
  call on a graph without cycles succeeds; no unbounded recursion;
* *codecs*: what was written is accepted and read back, whatever is skipped; a
  document cut short changes nothing; the reader always advances;
* *queries*: every call comes to what the sequence comes to that the query stands
  for, at that moment, whatever happened before;
* *entities, containers, leaves*: decode from text and from a tree leave the same
  objects; what is written comes back; a call that threw half-way can be made again;
  only what a document names changes, and no pointer comes to share an object;
* *trees*: a copy is independent of its original; equality is an equivalence and
  agrees with what is written; comparison tells of every change that it looks for;
* *base64*: what was encoded comes back, and decode never writes beyond its result,
  whatever text it is given.

`PROJECT.json` lists the components with their status, and the hazards, each at its
line with the properties that cover it or the reason why none does.

## 2. Modules

| Module | Models | Composed of |
|---|---|---|
| `ObjectGraph` | objects and the pointers between them; `Reach`, `OnCycle`, `Acyclic` | |
| `PointerWalk` | encode, to_tree, modify and is_circular over an object graph | `ObjectGraph` |
| `PointerWalkProofs` | theorems about `PointerWalk` and its stack | `PointerWalk`, `TLAPS` |
| `BsonCodec` | BSON writer and reader, byte for byte | `CodecContract` |
| `BsonCodecProofs` | its inductive invariant; lemmas about bytes, events and the writer, and about what `get` and `skip` find and where a document ends | `BsonCodec`, `TLAPS` |
| `BsonStepProofs` | each step keeps the invariant; theorems about `BsonCodec`, its refinement of `CodecContract` among them | `BsonCodecProofs`, `CodecContractProofs` |
| `JsonCodec` | JSON writer, validator and reader, symbol by symbol | `CodecContract` |
| `JsonProper` | which keys, contents, words and layouts the JSON codec can read back: the assumptions of the proofs | `JsonCodec` |
| `JsonScanProofs` | lemmas about the scans: whitespace and comments, validate, strings, skip, escapes | `JsonProper`, `TLAPS` |
| `JsonLayoutProofs` | where the writer puts each event; what the scans find there | `JsonScanProofs` |
| `JsonStepProofs` | the reader's invariant; theorems about `JsonCodec`, its refinement of `CodecContract` among them | `JsonLayoutProofs`, `CodecContractProofs` |
| `CodecContract` | what a codec promises the loops that write and read: an abstract specification | |
| `CodecContractProofs` | theorems about the contract: what a reader may rely on with any codec | `CodecContract`, `TLAPS` |
| `QueryChain` | queries, their links, calls and iterators | |
| `TreeValue` | a tree as a value: conversions, comparison, differences, its document | `Base64` |
| `TreeStore` | a client's trees through assignments, moves, indexing, changes, walks | `TreeValue` |
| `EntityStore` | decode, from_tree and modify into a client's objects; encode and to_tree of them | `TreeValue` |
| `Base64` | base64 as operators: encode, and the closed form of decode | |
| `Base64Decode` | the loop of base64::decode and its raw pointer | `Base64` |
| `Base64Proofs` | theorems about `Base64Decode` | `Base64Decode`, `TLAPS` |
| `MC...` | the instances that TLC checks | the module named |

### PointerWalk

One behaviour is one top-level call.  C++'s call stack is the variables `calls` (a
frame for each entity or container that is being walked) and `check` (a frame for
each nested `is_circular`).  `heap` is the client's object graph, chosen in `Init`
among *all* graphs, and never changed: the modelled operations only read it.

| Action | Code |
|---|---|
| `WalkNull` | a null pointer: `c.item(dst, name, ...)`, a null tree, or nothing |
| `WalkInto` | to_tree and modify follow the pointer (`pointer.hpp:124, :170`) |
| `WalkCheck` | encode calls `is_circular(*item, item.get())` (`:30`) |
| `CheckNull`, `CheckInto`, `CheckReturn` | the recursion of is_circular (`:105-108`, `entity.hpp:83-99`) |
| `CheckFound` | every pending is_circular returns true and encode throws (`:32`) |
| `CheckClear` | is_circular is false and encode walks into the object (`:37`) |
| `WalkReturn` | the loop over members is over, the call returns |
| `Overflow` | a call that does not fit on the stack any more |

`visits` is a history variable: how often each object has been walked into.

### BsonCodec and JsonCodec

A behaviour writes one document with the codec's calls (`WriteTop`,
`WriteDocument`, `WriteItem`, `WriteEnd`: `object_start`/`array_start`, `item`,
`object_end`/`array_end` as the loops of codec.hpp and of the vrefs call them), has
it delivered (`Deliver`; BSON also cut short at any byte), and reads it (`ReadTop`,
and for each value one of `TakeValue`/`TakeString`/`TakeWord`, `TakeDocument`,
`SkipValue`, up to `ReadEnd`).  Which values are taken and which are skipped is a
free choice at each step: that is what an entity with any set of members, of any
types, or a tree can do to the codec.  `ReadError` is every throw.

The history variable `events` records what was written and where, `cursor` which
event the reader should come to next, and `got` what it has just taken; the
properties compare them.  `lost` marks the behaviours in which a *known* defect has
put the reader out of step (section 5); the properties about staying in step
except these, and the runs about the defects state what they break.

`CodecContract` is the abstract specification of both: a sequence of tokens (a
document starts, a value, a document ends) is written, delivered intact or not, and
read back in the same order, each value taken, entered or skipped as a whole.  It
knows no text, no lengths, no quotes and no positions.  Its variables are mapped to
`events`, `cursor`, `got` and `phase` (operator `Contract` of each codec module), and
each codec implements it, checked as the property `KeepsContract` and proved
(section 4).  A token is
*fragile* where the codec at hand does not keep the promise: values that BSON's
`skip` measures wrongly, documents with misleading comments in JSON; once one of
these is skipped, the contract promises nothing.

Data is abstracted as follows.  BSON: bytes are numbers, integers on the wire are
sequences of bytes, so that 64-bit values keep their width; an array's items are
named by the decimal digits of their index (`IndexName`), of any size.  JSON: one symbol per
character, but numbers, `true` and `null` are words that are not parsed further.  The
loops that scan a text are the least position with a property (`FirstOf`, `StringEnd`,
`SkipComment`) or, where they carry a state from one symbol to the next, a recursive
function of that state (`SkipWhitespace`, `Balanced`, `DocumentEnd`, `Unescaped`).  A
JSON text may also come from another program: `style` lays it out with a gap
between any two tokens (spaces, line or block comments) and a comma before the end;
`Gap` with `style.pretty` is what `prettyjson` writes.

In `object_start` and `array_start` of BSON the expression `i + int32(data, i)`
(`bson.hpp:189, :216`) leaves the order of its operands to the compiler.
`DocumentFits` has the order under which the repository's tests pass; under the other
no document would be accepted.

### QueryChain

`heap` holds the links that are parents, `queries` the client's queries, `iters` its
iterators; a link has the members of `query<T>` (`it`, `counter`, `parts`, `aux` for
the copy of a second source, `item`, `cmp`).  `Pull(h, o, how)` is `start` (forward,
backward) or `next` of the link `o`, and returns the heap and the link as they are
afterwards and the pointer that was returned: a pointer is kept as the *place* it
points to, so that one read later gives what is there then (`Deref`), as with the
`item` that `select` overwrites.  The actions are what a client does:
`Chain` (where, take, ... zip), `Ask` (the calls), `AskAggregate` (both orders in
which a compiler may evaluate the arguments of `std::accumulate`), `AskEqual`,
`Begin` and `Advance` (iterators) and `Modify` (the container changes between
calls, as in the test "will execute the query only upon iteration").

Nothing is ever undone in this model that is not undone in the code: each `Pull...`
operator resets exactly what the link's `start` resets.  The client obeys the rules
of C++: it does not advance an iterator that is at its end, and gives up its
iterators when it changes the container.

`Items` is the reference: the sequence a query stands for, defined without any
state.  `AnswersAreRight` compares every call that a client could make in a state
with it.  Where the code does not keep the promise, an operator names the
combinations, as narrowly as TLC allows: `Orderly` (links that count from the front,
pulled from the back), `Separate` (zip and except of queries that share links),
`RunsOff` (take_while reads beyond the end), `Remakes` (single on items that are
made in place).

### TreeValue and TreeStore

A tree is a record: its type, the container that `leaf` points to (`<<>>` for
none, or the type it is a container of and its value), the items of an array, and
the children.  The code keeps `type` beside `leaf` and casts the one by the other
(`tree.hpp:318`), so that the model has both, and can tell when they disagree
(`Mismatched`).  `TreeValue` has the conversions `as_...`, `operator==`,
`compare::trees`, and the document that `codec.hpp` makes of a tree and back.
Numbers are scaled down: `Int32Max` is the greatest int32_t, doubles have every
integer up to `DoubleExact` and every other one beyond; doubles are counted in
halves.  JSON writes a double as an ostream does, with six digits (`json.hpp:34`):
exactly up to `PrintExact`, without a point when it is an integer, and from
`ExponentFrom` (a million) on with an exponent, `1e+06`, of which a double is read
back but an integer only up to the point (`Digits` of `EntityStore`).  There is one
zero, since -0.0 is written like 0, as "0": `json.hpp:33` writes so whatever is
below 1e-300.

`TreeStore` has two variables of a client, and the two static values that the code
shares between all trees (`shared`, of `as_array`; `empty`, of `operator[](int)`).
`compare::recurse` calls `as_array` of what an array is compared with, so that
`Diffs` is given `shared`.
Its actions are the constructors, `CopyAssign`, `MoveAssign`, `MoveConstruct`,
`Index`, `Set`, `Erase`, `AtName`, `AssignItem`, `Push` (through `as_array`), `Walk`
and `EncodeDecode`; a target may be any place inside a tree, its source any other,
ancestors and descendants included.  A call whose behaviour C++ does not define
(reading the leaf of a tree that was moved from, assigning a tree something in one of
its children or a child what it is in: `Overlap`) ends `"undefined"`, and the client
with it.  By way of an item it is defined, because the leaf is cloned before the old
one is destroyed (`tree.hpp:120`).  `t = t[0]` is what it says; `t[0] = t` sets the
type of the item first, then its children, and clones the array with the item in that
state (`Assigned`): the copy of the item is an Array that still has the leaf of, say,
an Integer.  `nested` records that a client has done this.

### EntityStore

`heap` is a client's objects with their types and values; the entity is object 1,
pointers are the numbers of objects.  A kind of vref is a record (`Simple`, `Enum`,
`VectorOf`, ...), a class its mapping (`Mapped`, `Merged`).  Each handler of each kind
is one operator, named for what it does and the kind: `EncodeMap`, `DecodeSet`,
`TreeOfEntity`, `FillVector` (from_tree), `ModifyPointer`, `ArrayCircular`.  A
document here is what the codec's loops see; `BsonGet` and `JsonGet` are what the
codecs' `get` makes of it, mismatches included.  A call under way is a record of the
objects and of how it ends: `"ok"`, `"throw"`, `"full"` (the stack overflows),
`"lost"` (the codec has lost its place: `BsonCodec` and `JsonCodec` say when) or
`"undefined"`.  A throw leaves what has been written so far.  A call that is lost ends
in the model where the place is lost; the code reads on, may find the name of any
member inside a value, and change it.  Of such calls every property but the type
invariant is silent.

BSON's `object_start` takes the outermost document for an object whatever it is
(`bson.hpp:187`), so that an entity finds the items of an array under the names 0, 1,
... (`Outermost`).

The actions are `DecodeCall`, `FromTreeCall`, `ModifyCall`, and `PointCall`, in which
the client points a member elsewhere; after each, objects that nothing points to are
gone (`Tidy`).  The invariants try every call on every document in every state, so
that the last call costs no step.

### Base64Decode

The variables are those of the C++ function; `r` counts what was written through
`*r++`, and `Write` drops what lies beyond `result`, so that `InBounds` is what keeps
it from happening.  A text is any text, or the encoding of `source`.

## 3. Runs

| Run | Instance | What it shows |
|---|---|---|
| `pointer` | every graph of 3 objects with 2 pointers each (4096), three operations, stack of 7 frames | exceptions are never false alarms; an encode that ends has walked an acyclic graph; encode never re-enters an object; it overflows only inside is_circular, and only off the object asked about; each object is visited once per path; every call ends, and succeeds without cycles |
| `bson` | up to 4 values, 10 scalars, one name, truncation at each byte | lengths are right at every moment; the reader is in step; the reader advances; `CodecContract` is implemented |
| `json` | up to 4 values, 5 strings, 2 words, 5 layouts | every such text is accepted and read in step; the reader advances; `CodecContract` is implemented |
| `query` | 2 links after the first query, 3 steps, two containers, 14 links, every call | calls and iterators agree with `Items` |
| `entity` | eight classes with every kind of member, 15 shapes of objects, one call before the one looked at, some 200 documents and the trees made of them | decode and from_tree agree on documents that fit; a call made again changes nothing; pointers stay or get objects of their own; what a document does not name is left alone; what is written comes back; an entity is written as its tree is; modify goes every way once |
| `tree` | two variables, 15 starts, 5 literals, 2 calls | leaves are of the type beside them through every move and alias but `t[0] = t`; equality is an equivalence and, short of exponents, agrees with JSON; trees come back; differences are complete, up to what the static vector hides |
| `base64` | every text of 0, 3, 4 and 8 symbols of 3 (4) kinds; byte strings of up to 4 of 3 bytes | decode stays within its result; round trip; the loop is its closed form; RFC 4648 |
| `pointer_circular`, `bson_skip`, `bson_top_array`, `json_backslash`, `json_empty_key` | the same instances, or with the one input in question | the disagreements of section 5 |

Each property of a passing run has a mutant in `PROJECT.json`: a definition of the
model changed as a plausible bug in the code would change it, under which TLC finds
the property violated.  The mutants' operators stand beside the definitions they
change.

**Bounds.**  `NumSlots = 2` and three objects are the least that has a shared
object, a self reference, a cycle through the root, a cycle beside it, and a cycle
behind two ways in.  `StackLimit = 7` is more than two frames per object, so that an
overflow only ever means unbounded recursion, never a deep graph.
`MaxValues = 4` allows a document in a document with something after it at both
levels, which is what patching and skipping can get wrong; the scalars cover each
shape that `get` and `skip` tell apart.  `MaxQueries = 3` and `MaxSteps = 3` give
every pair of links, every query derived from one parent twice, and a call or
iterator before and after another one; `AnswersAreRight` asks every call in every
state, so that the last call costs no step.  `Patience = 20` bounds a loop that
never ends; the longest query has twelve items (`concat` of a `concat` with itself).

`entity`: `Int32Max = 3`, `DoubleExact = 8`, `PrintExact = 4` and `ExponentFrom = 8`
put 5 between int32 and the last exact integer, and 9 beyond it; the doubles up to 2
are written exactly, those from 4 on with an exponent, whose first digit is 1 or 2.  Each kind of member meets a document
that fits, one of another type, null, a missing name, too many and too few items,
and a throw in the middle; two nodes in every shape and three with a diamond or a
cycle beside the root are what pointers can get wrong.  One call before the one that
the invariants try gives stale elements, shared objects and leftovers of a throw.
`tree`: two calls are what an alias needs, one to make it and one to write through
it, and what `t[0] = t` or a filled static vector needs to be used once.  The widths
are those of `entity`; the Integer 4 and the double 4 are equal and written
differently.  `base64`: the rests 0, 1 and 2, alone and after a full block, padding at each
place, and each of the 64 symbols.

**Fairness.**  Only `PointerWalk` has liveness properties, under `WF_vars(Next)`: a
single thread runs the call, it waits for nothing, and while a step is possible it
is taken.  The codecs need none: that each round of the reader advances is an
action property, and it bounds the number of rounds.

**Deadlock.**  All runs have `CHECK_DEADLOCK FALSE`: a call ends, a document has
been read, a client stops.  That calls do not stop *before* their end is what
`Terminates` (pointers) and `NoFalseError` with `InStep` (codecs) say.

## 4. Proofs

Every theorem holds for every value of the constants, under the named assumptions
on them and the hypotheses that its statement shows.

### Pointers

`PointerWalkProofs` proves, for every set of objects (finite or not), every number of
slots, every root and every stack limit, from the four assumptions
`NULLAssumption`, `NumSlotsAssumption`, `RootAssumption` and `StackLimitAssumption`:

| Theorem of `PointerWalkProofs` | Statement |
|---|---|
| `TypeCorrect` | `Spec => []TypeOK` |
| `ThrowsAreSound` | `Spec => []ThrowIsSound` |
| `DoneIsAcyclic` | `Spec => []DoneMeansAcyclic` |
| `NestingIsBounded` | `Spec => []NestingIsAcyclic` |

None of the last three is inductive.  The inductive invariant `IInv` adds what the
frames on the stacks mean: each frame is for the object that the slot below it
points to (`StacksLinked`); what a check has passed so far does not lead to the
ancestor except through frames that are still open (`CheckPending`,
`CheckClears`); and what a walk has passed so far lies on no cycle
(`WalkClears`).  The argument for `ThrowIsSound` is that linked frames are a path:
the top frame of a check is reachable from the ancestor, and its slot points to it.
For `DoneMeansAcyclic`: when the walk leaves an object, all of its slots were null
or led to objects that are clear, and the object was itself checked when it was
entered; at the end the root is clear.  For `NestingIsAcyclic`: two frames for one
object would put it on a cycle by `StacksLinked`, but it was checked when it was
entered.  Reachability is defined through closed sets (`ObjectGraph!Reach`), which
needs no recursion, so that the lemmas about it are plain set reasoning.

| Theorem about the stack | Statement |
|---|---|
| `OverflowIsOffCycle` | `Spec => []OverflowOnlyOffCycle`, if `IsFiniteSet(Objects)` and `StackLimit > 2 * Cardinality(Objects)` |

On a smaller stack the property is false, since a deep graph without any cycle
overflows it.  The argument counts frames.  encode has at most one frame per object,
by `NestingIsAcyclic`, so that a stack with room for more than two per object can
only fill inside is_circular, and with more frames of `check` than there are
objects: two of them are for the same object (`TwoForOne`, a pigeonhole).  The
frames between the two are a way from that object back to itself.  No frame above
the first is for the ancestor, where the check would have ended, so that the way
exists without the ancestor's own pointers (`LinkedLeads`).  `Overflow` leaves the
stacks as they were, which the inductive invariant `FullStackKept` records.

| Theorem about the visits | Statement |
|---|---|
| `VisitsArePaths` | `Spec => []VisitsCountPaths`, if `IsFiniteSet(Objects)` |

A number of paths suggests an induction over the graph, which the prover could not
use; the proof counts along the walk instead.  A way is the sequence of slots that it
takes from the root, and the slots of the frames divide all ways, in lexicographic
order, into those the stack has come past (`Behind`) and those ahead of it.  The
inductive invariant `VisitsCounted` says that an object's visits are the number of
ways to it that are behind the stack.  To enter an object puts exactly one way behind
the stack, the one along the frames (`EnterBehind`), which leads to that object only
(`AlongLeads`).  To go on after a null pointer passes only sequences of slots that
lead nowhere (`AdvanceCounts`); to return passes none, since all slots of the frame
have been dealt with (`ReturnBehind`).  When the outermost frame returns, every way
is behind (`LastBehind`).  `Paths` has the ways that are shorter than the number of
objects.  There are no others: the ways are finitely many, as they were counted, and
one that passes an object twice could go round once more and be longer than the
longest (`LoopAgain`, `LongestOne`, `WaysAreShort`).  That argument covers to_tree and
modify too, for which no check ensures that the graph is free of cycles: they simply
do not come to an end when it is not.

### BSON

The theorems hold for every set of names and of scalars and any number of values in
a document, from `NamesAssumption`, `ScalarsAssumption` and `MaxValuesAssumption`
of `BsonCodec`.

| Theorem of `BsonStepProofs` | Statement |
|---|---|
| `Invariant` | `Spec => []IInv` |
| `TypesAreRight` | `Spec => [](Regular => TypeOK)` |
| `LengthsAreRight` | `Spec => [](Len(dst) <= MaxInt32 => LengthsPatched)` |
| `ReaderIsInStep` | `Spec => [](Regular => InStep)` |
| `NoErrorIsFalse` | `Spec => [](Regular => NoFalseError)` |
| `ReaderGoesForward` | `Spec /\ []Regular => ReaderAdvances` |
| `ContractIsKept` | `Spec /\ []Regular => KeepsContract` |
| `ReaderKeepsItsPlace` | `Spec /\ []Regular =>` the properties of the contract (below) |

`Regular` is what the codec can express: at most 2^31 - 1 bytes, because
`object_end` counts in an int (`bson.hpp:48`) and a length has four bytes; and no
document *inside* another with an empty name, because `object_start` leaves the
header of such a one out (`bson.hpp:30`), as it does for the outermost one, so that
the reader finds a length where it looks for a type.  Both are limits of the code.
Every state of the run `bson` is regular, and `Invariant` itself needs neither.

`IInv` has five parts.  `Types` says what the variables are.  `Layout`: the events lie
in the text one after the other without a gap, each at its place with exactly its
bytes.  `Levels`: the depth of each event follows from the one before, and the stack
is as deep as the last one says.  `Brackets`: each document that was started is on
the stack with a blank length, or closed by an event at its own depth, with the
distance to it as its length.  `Reader`: a reader that has its place is at the
position and the depth of the event it should come to next, and the data is what was
written.  None of the properties is inductive without the others: a length
is right after `Patch` only because `Layout` says where the header lies, the four
blank bytes that are patched belong to no other event, and the document on top of
the stack is the innermost open one (`Brackets`).  The reader that skips a document
comes to the event after its end because its length is right, and finds that
event's bytes because the events have no gaps.  A document is closed by the *first* event
of its depth after it, which is how the position where `object_end` stops the
reader's loop and the end that the length gives are the same.

For the refinement each action is shown to be the contract's action or a stutter
under the mapping.  Three things carry it: the tokens that are left open
in what was written (counted by the contract) are the depth that the codec keeps
(`OpensIs`); the end of a document as the contract has it is the codec's (`SameEnd`);
and the number by which an array calls its next item never exceeds the number of
values written (`Indices`, a second invariant), so that each token has a name that the
contract knows.

### JSON

The theorems hold for every set of keys, contents, words and layouts and any number
of values, from the assumptions of `JsonProper`.

| Theorem of `JsonStepProofs` | Statement |
|---|---|
| `TypesKept` | `Spec => []TypeOK` |
| `ReaderInStep` | `Spec => []InStep` |
| `NothingRefused` | `Spec => []NoFalseError` |
| `RoundsAdvance` | `Spec => ReaderAdvances` |
| `ContractIsKept` | `Spec => KeepsContract` |
| `ReaderKeepsItsPlace` | `Spec =>` the properties of the contract (below) |

`JsonProper` says what `json.hpp` needs to be given, and where it goes wrong
otherwise.  A key is not empty (`write_name` would write none, `:19`), holds no quote
(it is not escaped, and read up to the first one, `:402`), and neither a key nor a
content ends in a backslash, for the loops would take the quote after it for an
escaped one (`EndsPlain`).  The proof of `DocumentEnd` showed that this has to be asked
of more than the last symbol: `skip` does not look at its flag on whitespace (`:319`),
so that a backslash, then blanks or commas up to the closing quote make it read on,
although `validate` and `parse_string` are content (section 5).  A word holds no
whitespace, brace, slash or quote, and only `null` begins like `null`, since `is_null`
looks no further.  A layout puts whitespace and whole comments between tokens.  The
instance `json` meets all of these, as TLC confirms; the runs `json_backslash` and
`json_empty_key` are about what they exclude.

The scans are recursive functions, and TLAPS knows no value of one until it has been
shown that some function meets its definition.  `JsonScanProofs` does that once, for
any definition whose values rest on those of a smaller measure (`Descends`), and
gives the unrolled loop for each scan.  What a scan does over a part of the text
follows from the least position where it would do otherwise.  The lemmas say what
each loop makes of each kind of part: over whitespace and whole comments
`SkipWhitespace` comes out behind them, and `validate` at the same levels; over a
quoted string `validate` and `skip` come out behind the quote that opened it, with no
backslash pending; a content comes back from its escapes (`UnescapedEscaped`).

The invariant has two parts.  `Written(S)`, of `JsonLayoutProofs`, is about the text:
each event starts where the one before ended, behind a gap and, in an object, its key
and a colon (`LedBy`); its symbols are those of its value (`Shown`); a word is
followed by a symbol that ends it; and `S[k]`, the closing symbols of the documents
that are open behind event `k`, changes as the event says, is empty behind the last
one only, and agrees with the callers' loops.  From it follow that validate accepts the
text (`WrittenIsBalanced`, level by level) and that `skip`, which counts only one kind of
brace, stops at the event that the levels pair with the one it starts at
(`DocumentIs`), unless a comment misleads it.  `Reads(S)`, of `JsonStepProofs`, is
about the reader: while it has its place, it stands at the last symbol of the event it
has come past, with `S[cursor - 1]` as its own stack.  One round then finds the next
event (`RoundIs`), and whatever it does with it leads past that event or past the end
of its document (`MovesPast`).  None of the properties is inductive alone: that a
value is found where it is needs that its predecessor was passed as a whole, and
that no error is thrown needs both.

For the refinement the same lemmas give, for each action, the contract's.  What the
contract counts as open is the length of `S` (`OpensIs`), so that both have the same end
for a document (`SameEnd`); a step that loses the place skips a document whose token is
fragile (`LosingMaps`), and after it nothing is promised.

### The contract

`CodecContractProofs` proves, of `CodecContract` and any tokens, without assumptions:

| Theorem of `CodecContractProofs` | Statement |
|---|---|
| `ReaderStaysInside` | `Spec => []InsideDocument` |
| `ReaderIsGivenWhatWasWritten` | `Spec => []GivenWasWritten` |
| `ReaderPassesOneValue` | `Spec => PassesOneValue` |

They say what the loops of `codec.hpp:126-165` and `vref/entity.hpp:53-70` rely on: that
a document is open and a token to come as long as one reads, and that reading is done
at the last token and not before; that what was given is what was written there; and
that a step passes one token or one document as a whole, at whatever depth.  `Level(k)`
is how many documents are open behind token `k`.  The invariant `IInv` adds what the
writer leaves behind (`Bracketed`, `Complete`): the first token starts a document,
and behind every token but the last one is open, so that the level is zero at the end
of the text only (`Inside`).  The contract *chooses* the end of a value; that there
is one to choose, and inside the document that holds the value, is `EndOfIs`: the
level moves by one token at a time, ends at zero, and so comes back to where the
value started, which is above zero.

By `ReaderKeepsItsPlace` these three hold of both codecs, since each implements the
contract: the theorems are instantiated with the refinement mapping (`AnyReader`).
They are stated of the contract's variables, so that nothing is promised of a reader
that has lost its place.

### Base64

`Base64Proofs` proves, for texts and byte strings of any length, from
`TextsAssumption` and `SourcesAssumption`:

| Theorem of `Base64Proofs` | Statement |
|---|---|
| `TypeCorrect` | `Spec => []TypeOK` |
| `StaysInBounds` | `Spec => []InBounds` |
| `ComesBack` | `Spec => []RoundTrip` |
| `LoopIsClosedForm` | `Spec => []LoopIsDecoded` |
| `EncodesBitGroups` | `Spec => []EncodingIsBitGroups` |

`InBounds` alone is not inductive: that a block fits says nothing of the next one
unless it is known how much was written before it.  `LoopInv` says it: while the loop
runs, no padding has been met yet (padding makes decode return), so that `r` is
three for each block that is over, and the result has the size that `ResultSize`
computed, three for each block less the padding of the last two symbols.  A full block
before the last one therefore fits, the last one writes three bytes only if neither
of its last symbols is padding, and padding that is met earlier in the text returns
at once with fewer bytes than the result has (`ReadPad`).  Symbols outside the alphabet count six bits
like any other (`DigitIsSmall`), which is why what they give are bytes
(`PartIsByte`).

`RoundTrip` speaks of the end only.  `SourceInv` says what holds on the way while the
text is the encoding of `source`: what has been written is the beginning of
`source`, `block` holds the first digits of the block of three bytes that is being
read (`Leading`), and a third digit is read only if the block has a second byte, since
`=` ends the loop otherwise.  Three lemmas tie the two directions together: `digit`
of a symbol of the alphabet is the six bits it stands for (`DigitOfLookup`), four
such digits are the three bytes again (`BytesOfBlock`), and the size that decode
computes from the padding is that of the source (`SizeOfEncoded`).

`LoopIsDecoded` is about *every* text.  Its invariant `FormInv` says that in the loop
`block` is what the symbols of the block so far stand for (`Bits`), that what has been
written is what the full blocks stand for (`FullByte`), and that the rest of the
result is zero; `LoopInv` says that no padding has been read, so that the place where
the loop meets one is the length up to the first (`UnpaddedIs`).  The block that it
cuts short ends the result (`CutShortEnds`), or the text is `Undecodable`.
`EncodingIsBitGroups` is a fact about `Encoded`: each bit of the bytes is a bit of its
byte (`BitIs`), the six bits of a symbol lie in one byte or in two, and what they come
to is that symbol's digit of the block (`SixIsDigit`).

### Only model-checked

* Liveness (`Terminates`, `AcyclicSucceeds`), which is beyond this prover.
* `QueryChain`, `TreeStore` and `EntityStore`: they use recursive operators, in
  `TreeValue` or of their own, which the prover does not support.

## 5. Where the code disagrees with what it says

Five runs expect a violation.

* `pointer_circular`: a cycle beside the object asked about makes is_circular
  recurse without end (`vref/pointer.hpp:107`).
* `bson_skip`: skipping a string or a binary value ends inside it (`bson.hpp:239`).
* `bson_top_array`: an encoded vector is ignored by decode (`bson.hpp:214`).
* `json_backslash`: a string that ends in a backslash is written and then refused
  (`json.hpp:111`).
* `json_empty_key`: an empty key is not written (`json.hpp:19`); the repository's
  own check at `json.cpp:245` fails.

Others have no run of their own; the models have them as the code does, and an
operator named here excepts them from the properties:

* comments inside a value that is skipped are counted as structure
  (`json.hpp:315`; `MisleadingGap`);
* a document that is skipped and holds a string whose content ends in a backslash and
  then blanks or commas is not left at its end: `skip` forgets a backslash only at a
  symbol that is no whitespace, and takes the closing quote for an escaped one, whereas
  `validate` accepts the text (`json.hpp:319-326` against `:87-112`; `EndsPlain`);
* a query that overwrites its items is not equal to itself (`query.hpp:406`;
  `Separate`, `Remakes`);
* items beyond the size of a std::array are neither read nor skipped, although a
  comment in `vref.cpp` expects that the first ones only are taken
  (`vref/array.hpp:54`; `Overrun`, `Fits`);
* the static values of as_array and operator[](int) keep what was written through
  them (`tree.hpp:83, :246`; `shared` and `empty` are variables of `TreeStore`);
* compare does not tell of an object that became something else, nor of an array
  that did and held what the static vector of as_array holds, nothing as a rule
  (`utilities/compare.hpp:51-62`; `DiffsAreChanges`);
* `t[0] = t` leaves an item with the type Array and a leaf of another type, which
  the comment at `tree.hpp:321` warns of: as_array takes it for a vector
  (`tree.hpp:116-122`; `Assigned`, `TypeOK`);
* trees that are equal may be written differently: an Integer of a million with all
  its digits, the double as `1e+06` (`tree.hpp:143`, `json.hpp:34`; `HasExponent`);
* int64 beyond what a double holds changes in a tree, and one beyond int32 is
  undefined when filled into an int (`tree.hpp:258`; `As`, `Preserved`);
* from_tree of a set of incomplete entities or of pointers differs from decode
  (`vref/set.hpp:115`; `FillSet`, `Fits`);
* an array that is encoded at the top comes back from BSON as an object
  (`entity.hpp:132`, `bson.hpp:187`; `ItemsAsMembers`, `Outermost`).

## 6. What is not modelled

* the digits of numbers, beyond which of them are written and read, and the wording
  of errors: no property is about them;
* JSON decoded with `skipValidation`, BSON written by anything but the library
  (beyond the types it names as unsupported);
* integers of other widths and float, which convert as those modelled do;
* copies of queries that the client makes, post-increment of iterators;
* `mapping` as a structure of the heap (shared_ptr to vrefs): a vref lives for the
  length of a call;
* the preprocessor's recursion in `ent_map_terse`, `is_container` and the other
  compile-time selection of types;
* `doctest.h`, which is vendored, the tests, build and packaging.

## 7. Plan

The modules of section 2 exist.  What is left, in this order:

1. `QuerySpec`: a query as a sequence with a position, which `QueryChain` implements
   as long as no links are shared.
2. `EntityStore` with two entities that share objects, decoded in turns.
