# x-expr in TLA+

x-expr is a C library: an object system of atoms and pairs, a mark-sweep
collector over them (`X_HEAP`), and a base object that holds an interpreter's
state. It is single-threaded. What is hard about it is not concurrency between
threads but the order in which one program's calls, the collector's walks, the
embedder's hooks and nonlocal exits touch the same chains, flags and counters.

This directory holds TLA+ modules of its core, the TLC runs that check them on
small instances, and TLAPS proofs for instances of every size. Paths below are
relative to the repository.

## Inventory

| component | state | operations | what must hold |
|---|---|---|---|
| collector (`src/x-heap.c`, `include/x-heap.h`) | allocation chain and root chain (both through the header slot `x_obj_heap`), mark flags, SHARED flags | tree mark, root-chain mark, sweep, chain clear, push/pop of stack objects, registration of hooks and roots | nothing reachable is freed; garbage is; no stale mark is trusted; the chains stay intact; every collection ends |
| allocation (`src/x-obj.c` 88-296) | count, ceiling, trip message, obj-meta-extra, free store | alloc, free, make | count is exact; ceiling holds; one report per trip; no livelock; memory goes back where it came from |
| teardown (`src/x-heap.c` 108-115) | the above while the base itself is freed | `x_heap_sweep(base, base, NONE)` | the dead base is not used; everything is freed |
| base (`src/x-base.c`) | the base tree, a stack of values per field | make, push/pop of a field, read, write | fields are found where the accessors look; overrides nest |
| dispatch (`src/x-obj.c` 298-530, 600-640) | hooks of the base, calls of hooks in progress | type name, units, length, error; debug dump (`src/x-obj.c` 640-747) | built-in types answer for themselves, foreign ones through the override in force when they were asked, however hooks nest and jump |
| helpers (`src/x-lib.c`, `src/x-stdlib.c`) | none (the caller's memory) | integer to text and back, memory and string functions | agree with the standard functions they replace; text and number determine each other; nothing is read behind an argument |
| system (`src/x-sys.c`), errors (`src/x.c`) | none | wrappers of system calls, error output | pure I/O |

Components meet in four places. `x_obj_alloc` links every object onto the
chain the sweep walks, and reads the fields of the base, which are objects of
the same heap. The sweep frees through `x_obj_free`, which reads and writes the
base's fields again, also while a teardown frees that base. The root chain's
head is itself a base field, so that the tree mark of the base runs into the
registered stack objects before the root-chain walk does. And a hook is a base
field as well, called in the middle of an operation: it is the program's own code
and may push and pop that field, call back in, or leave by longjmp.

The hazards are listed one by one, each at its line, in `PROJECT.json`.

## Modules

| module | models | notes |
|---|---|---|
| `XHeap` | the collector, and what a program does between collections | the core: one action per loop iteration |
| `XReach` | reachability as a least closed set | no recursion, so that it can be proved about |
| `XHeapInv` | the inductive invariant of `XHeap`, and the measure a collection lowers | |
| `XCollect` | what the collector promises: a collection in one step | abstract specification |
| `XHeapRefinement` | the mapping from `XHeap` to `XCollect` | |
| `XHeapBorrow` | a reader that borrows the mark walk and `x_heap_chain_clear`, around the program and collections | extends `XHeap` |
| `XHeapStatic` | a static pair as a mark root | extends `XHeap` |
| `XHeapHooks` | a free hook that allocates | extends `XHeap` |
| `XAlloc` | `x_obj_alloc`, `x_obj_free`, the ceiling | |
| `XTeardown` | the teardown sweep of a runtime `XAlloc` has been running | extends `XAlloc` |
| `XBase` | the base tree, its accessors, the operations on fields | the concrete nest of pairs |
| `XFields` | what the fields of a base promise: independent stacks | abstract specification |
| `XBaseIO` | `x_base_read`, `x_base_write`, redirection | extends `XBase` |
| `XDispatch` | type name, units, length and errors, with hooks that nest and jump | extends `XBase` |
| `XStdlib` | the eight functions of `x-stdlib.c` and `x_lib_memdup` on a memory of bytes | with what C99 promises of each |
| `XLib` | `x_lib_inttostr`, `x_lib_strtoint` at the width of `x_int_t` | extends `XStdlib`; with a reference definition of a numeral |
| `MCXHeap`, `MCXHeapFrames`, `MCXHeapBorrow`, `MCXHeapStatic`, `MCXTeardown`, `MCXBase`, `MCXBaseUse`, `MCXLib` | TLC instances | symmetry, the computed rank, bounds |
| `XFacts` | induction, sequences, laws of reachability | what several proofs rest on |
| `XHeap_proofs`, `XHeapReclaim_proofs`, `XHeapRefinement_proofs`, `XAlloc_proofs`, `XTeardown_proofs`, `XLib_proofs`, `XBase_proofs` | theorems | `XHeapReclaim_proofs` is also about `XHeapBorrow`, `XBase_proofs` about `XBaseIO` and `XDispatch` |

### XHeap

Objects are of four sorts: heap objects (`Addr`, what malloc hands out), off-chain
objects (`Off`, pairs in stack or static storage), the `Base`, and `Tree`, the
SHARED base tree contracted to one pair: `first[Tree]` is the current list of a
field such as mark-roots, `rest[Tree]` the head of the root chain, which is a
base field too. `heap[o]` is the header slot that links both chains. `kind[o]`
tells the built-in pair, an object of an embedder's type whose mark hook returns
its datum, and an atom apart.

`pc` says where a collection stands: `tree` (tree mark of the base tree), `clear`
(pass 1 of `x_heap_root_chain_mark`), `roots` and `walk` (pass 2 and the tree mark
it calls), `sweep`. `cur` and `stk` are the running and the suspended calls of
the recursive `x_heap_tree_mark`; `node` and `prev` the variables of the chain
walks. Each iteration of each loop, and each return of the recursion, is an action.
Between collections (`mutate`) the program makes objects, stores references,
pushes and pops a base field, and its C frames register stack objects
(`EnterFrame`), leave (`LeaveFrame`) or are cut away by a longjmp (`Unwind`).

Choices made in the model:

- What a program may store is nil, a heap object in existence or a registered
  stack object. A frame ends only when nothing that outlives it refers to its
  stack objects: that is the frame's duty in C, and `DropFrames` has it as a guard.
- `frames` mirrors the C stack and is never read by the collector; it says what
  the root chain *should* hold, so that `RootChainMirrorsFrames` can compare.
- An initialised local has no flags; static storage keeps the mark an earlier
  collection left on it. `EnterFrame` chooses.
- Freed memory and dead storage are reset to `NULL`. `NoDangling` shows that
  nobody looks at them; resetting only keeps the state space small.
- SHARED is given to atoms, and to the tree. A SHARED object is retained but not
  traced (x-heap.c:95), so an unreachable SHARED pair would keep a reference to
  freed memory: `SharedInert` names the discipline the base tree keeps.
- The sweep starts at the head of the chain, hooks do not allocate (see `XHeapHooks`),
  and malloc does not fail (failure is in `XAlloc`).

`XHeapBorrow` adds the reader x-heap.c:127-135 describes: a tree mark with a flag of
its own, and a walk along the chain that takes the flag back. Between the two (`reader` is
"holding") the program and collections run as they do at any other time: what has the flag
becomes garbage, is freed, its address allocated again, or survives a sweep, which clears the
collector's flag only. That is why the clear follows the chain and not the tree; with a
tree clear (`TakeBackTree`) `HeapFlagsTakenBack` fails. The two walks are C calls
that run to their end, so nothing comes in between their steps. Both users of
`x_heap_tree_mark` share `XHeap`'s actions: while the reader's walk runs, `marked` is the
reader's flag and `flagged` the collector's, at any other time the reverse.

`XHeapHooks` lets the free hook allocate: a pair that it pushes onto the list of a base
field. Nothing x-heap.h says about the hook forbids it, and `x_obj_alloc` writes to the very
link the sweep is about to relink.

### XAlloc and XTeardown

One action per way out of `x_obj_alloc`: latched, tripping, malloc failing, placed.
The ceiling is a stack of cells, since every base field is one; `x_obj_push_field`
allocates its pair under the ceiling that is on top before the push. The report
may return (the process stops) or longjmp to a handler (`ReportJumps`), and the
error hook may allocate and free while it runs. `TypeFirst` is something an embedder
may or may not do: give the base its type before allocating from it. obj-meta-extra
may change at any time (`SetExtra`), as any field may be overridden. `Free` frees any
object, also a pair a push put on the field; the chains and who refers to what are
`XHeap`'s business.

`XTeardown` lets `XAlloc` run and then, at any moment outside an error report, sweeps from
the base: the base is freed first, `p_base` becomes NULL, and the walk goes on. The
variables of `XAlloc` then stay as they are (`ctl` is "exited": no code of the program runs
any more), and `left` and `tally` go on from its objects and its count.

### XBase and XBaseIO

`tree` is the nest of pairs `x_base_make` builds, `Accessor` has a path of firsts and
rests for each macro `x_base_field_*`, written down from the header and independently of
the layout. Pushing, popping and assigning replace what is at a path; `AddTo` is the
growth of a hook or root list in the field's current value, `Extend` what the embedding
layer hangs onto the extension points. `XFields` knows no tree, only a stack per field;
`ImplementsFields` maps each field to the list at its accessor. Popping the last value of
a field would leave it without one: a program pops what it has pushed, so `Pop` asks for
two. The tree shares no nodes; who keeps and frees them is `XHeap`'s business.

`XBaseIO` numbers what is read and written, so that a gap, a repetition or a wrong order
shows. `read(2)` and `write(2)` may do less than they are asked for or fail, at every call.
The reader is the caller the comment of `x_base_read` addresses: it makes its argument list
anew, keeps what the count tells it of, takes 0 for the end and tries again after an error.
A write buffer is large enough (the code keeps no size).

### XDispatch

An object is its type: nil, untyped, one of the two built-in types, or foreign. A question
about it is answered at once where the built-in types settle it, goes to the hook on top of
the field's stack otherwise, and falls back to a default. `calls` is the stack of hooks in
progress. A running hook is the program, so that between a call and its return anything
`XBase` allows may happen, another question or error included, up to `MaxCalls` deep;
`HookReturns` answers with an object the hook owns or with NULL, `HookJumps` cuts any
number of calls off. `due` keeps what the promise (`XFields`) says should answer: the newest
value on the field's stack when the question was asked.

### XStdlib and XLib

`XStdlib` has a memory of bytes, of `CharBits` bits each, and a `size_t` of `SizeBits` bits
that wraps. A loop is the number of times its condition holds (`Iterations`), a call leaves
its value and the addresses it looked at in `call`. A caller passes what the standard lets
it pass: strings that end, blocks that are all there, and for `strncmp` and `strndup` also
blocks without an end that are as long as the count. `Promised` and `Stored` say what C99
(POSIX for `strndup`) asks for, in terms of strings and their order.

`XLib` takes characters as codes. `Wrap` is the arithmetic of an `x_int_t` of `IntBits`
bits; division goes towards zero, as in C. `IsNumeral` is the reference for reading:
spaces, a sign, a prefix, digits, and a value that is the sum of digit values times powers.
`Bases` are the bases `x_lib_strtoint` is documented for, `Texts` are ASCII (`BasesAreDocumented`,
`TextsAreASCII`). The loops are recursive functions of the number of rounds (`Rest`,
`Accumulated`), so that they can be proved about.

## What is checked

Every run has CONSTANTs small enough to finish in minutes; the bounds are named
in its `.cfg`.

| run | instance | shows |
|---|---|---|
| `HeapObjects` | 3 heap objects, no stack objects, a borrowing reader around whose passes no more than 2 of them live at a time | `ChainComplete` (the chain holds exactly the live objects, at every step of a sweep), `NoDangling`, `OnlyGarbageFreed`, `GarbageReclaimed` (what is left after a collection is reachable or SHARED), `PassSeesReachable` and `HeapFlagsTakenBack` (a borrowed pass sees what is reachable, and the clear takes the flag back from every object, the program and collections having run since the mark) |
| `HeapFrames` | 2 heap objects of every kind, SHARED atoms included, 1 stack object | `MarksClean`, `NoDangling`, `OnlyGarbageFreed`, `InductiveInvariant` (the invariant of the proofs), `MarkDepthBounded` (the mark recurses no deeper than there are pairs), `CollectionRunsDown` (every step of a collection lowers a measure), `ImplementsCollect` (refinement of `XCollect`), `TypeOK` |
| `HeapUnwind` | 1 heap object, 2 stack objects | `RootChainMirrorsFrames` through pops and longjmps, `OnlyGarbageFreed`, and `CollectionEnds` |
| `AllocCeiling` | 3 objects besides the base, ceilings 0 to 2, 2 cells, extra 0 or 1, teardown at any moment | `CountExact`, `CeilingHolds`, `OneReport`, `NoLivelock`, `NoDeadBase`, `TeardownFreesAll`, `TypeOK` |
| `BaseFields` | every two of the 20 fields and 4 extension points, 2 values deep | `ImplementsFields` (refinement of `XFields`) |
| `BaseUse` | a program that redirects 3 streams, 2 buffers, 3 units out, 2 in; or one that overrides any one hook, 2 values and 2 calls deep | `NoTruncation` (a reader sees the whole input and no end before the end), `Delivered` (what is reported as written is in the sink that was current, once, in order), `OverrideAnswers` |
| `Lib` | every memory of 3 bytes of 2 bits, every offset and size in it; every 6-bit integer in every base; 2310 texts of up to 5 characters in base 0, 8 and 16 | `AgreesWithStandard`, `NoOverread`, `ReadsLongestNumeral`, `TextReadsBack` |
| `HeapStatic` | violation | finding 1 |
| `HeapHooks` | violation | finding 2 |
| `LibExtreme` | violation | finding 3 |
| `TeardownStore` | violation | finding 4 |
| `TeardownRelease` | violation | finding 5 |

Why these bounds: three heap objects give cycles, shared substructure, and a
chain whose head, middle and end are freed in every combination, two of them in
a row included; two of the three around a borrowed pass (`MaxBorrowed` counts the base
tree too) are one that is kept and one that becomes garbage, is freed or comes back at
another address (with `MaxBorrowed = 4`, which bounds nothing, the run has 2,858,802 states
instead of 284,433 and finds nothing either); two stack objects give a nested frame, a longjmp over one or both,
and a root that refers to another root further along the chain; one stack object
across two collections is what the pre-clear pass is for. Ceilings 1 and 2 with two
cells let a tripped ceiling be covered by another and uncovered again. Two fields are what
a wrong accessor takes to show, since it makes one field's operation visible in another;
two values on a field give an override and what it hides. Three units of output in calls of
up to two give a short write between two complete ones. Two calls in progress are what it
takes for a hook to ask the question it is answering; an override below another one is the
answer that must not be given. Three bytes hold a string that ends in the middle, two that
share their end, and a block without an end; two bits are the fewest with negative plain
chars beside 0 and 1, and a `size_t` of two bits wraps where the memory ends. Integers of
six bits have up to six digits, use every letter up to "v" as one, and overflow at
two hexadecimal digits already. For safety the proofs remove the bounds of `XHeap`, `XAlloc`,
`XTeardown`, `XBase`, `XBaseIO`, `XDispatch`, `XStdlib` and `XLib`.

Symmetry is used where only safety is checked; the objects of a set are
interchangeable, the code compares pointers for equality only.

Fairness: `CollectionEnds` assumes that a collection that has begun goes on
(`WF(Collect)`), because it is a chain of C calls in one thread; nobody is obliged
to begin one. `NoLivelock` assumes that the error hook comes to an end and that
the program allocates again if it may, which is what x-obj.c:110-113 says of a
handler; nobody is obliged to tear a runtime down. Deadlock is checked except in four
runs: in `AllocCeiling`, `TeardownStore` and `TeardownRelease` the process exits or the
teardown ends, and `LibExtreme` makes one call.

The definitions a comment calls *wrong* are slips a maintainer could make, in the
definition that follows: each property is known to notice one of them.

### Findings

1. A static pair stored as a mark root (`x_heap_mark_root_add`) and not registered
   on the root chain keeps its mark after a collection: the sweep clears marks on
   the allocation chain only, and the pre-clear pass those on the root chain only.
   The next collection skips it and frees what it refers to, against x-heap.c:240-242.
2. While the newest object is freed p_prev is the base. What a free hook allocates at that
   moment becomes the head of the chain, and x-heap.c:105 overwrites the head: the new object
   is on no chain. The next collection marks it, nothing takes the mark back, and the one
   after that does not look into it and frees what it refers to, against x-heap.h:19-26.
3. `x_lib_inttostr` negates a negative number before it writes it. The least integer stays
   negative, its digits are then characters below '0', and in base 2 the text takes one byte
   more than the buffer x-lib.c:38-39 asks for. `TextReadsBack` holds for every other number.
4. In a teardown p_prev still points to the base after it was freed, and the next
   free stores to the base's link (x-heap.c:105), although the comment four lines
   below says the base is dead memory from then on.
5. In a teardown the base, and with it obj-meta-extra, is gone when the other objects
   are freed: those with X_OBJ_FLAG_META are freed at the wrong address. The mechanism
   is there without a teardown: `x_obj_free` steps back over the extra units that
   obj-meta-extra says *now* (x-obj.c:275, 291), so an override of that field between
   allocation and release frees the wrong address as well. No run shows that, it is
   what the two lines say.

## What is proved

For every number of objects and frames, any object graph and any interleaving of the
program with collections (`XHeap_proofs`, from `ObjectsAreDistinct` and `KindsAreKnown`
alone):

- `TypeCorrect`, `RootChainMirrors`, `MarksTakenBack`: `TypeOK`, `RootChainMirrorsFrames`
  and `MarksClean` hold always.
- `NothingDangles`: `NoDangling` holds always.
- `FreesOnlyGarbage`: `OnlyGarbageFreed` holds.
- `ChainIsComplete`: `ChainComplete` holds always.
- `InvariantOfChain`: `InductiveInvariant`, the form of the invariant below that TLC checks, holds
  always.
- `DepthIsBounded`: `MarkDepthBounded` holds always. An object that waits for a recursive call is
  marked, and a marked object is not entered, so that none waits twice.
- `CollectionsEnd`: `CollectionRunsDown` holds. The order it is about has no infinite descent
  (the lemma `MeasureDescends`).

`ChainComplete` follows the chain from the base by a recursion. Its proof takes the rank of the
invariant below: what the walk has yet to meet are the live objects that rank no higher than
where it stands, and of these it loses exactly one with each step, so that none is left after
as many steps as there are objects. The same walk gives the rank that `InductiveInvariant` has in
place of "there is a rank": the place on the chain. `WalkFalls` says that it meets the objects in
the order of any rank, and of a rank the invariant uses nothing but the order.

`Measure` is four numbers in lexicographic order: the phase of the collection; what the walk along
the chain has yet to pass (registered objects, or what the sweep has in front of it); whether the
next registered object is still to be marked; and twice the unmarked objects plus the suspended
calls. The pre-clear pass makes objects unmarked again and comes in an earlier phase for it. That
freeing and relinking take the sweep on needs the order of the chain.

None of these is inductive. The invariant `IInv` of `XHeapInv` is, and `InvHolds` proves
it action by action. It says:

- *Order.* There is a rank, a number per object, that falls along the allocation chain:
  new objects get the highest. With it, "what the sweep has visited" is "what ranks at
  least as high as `prev`", with no recursion along the chain.
- *Marking.* A traced object (marked, and its mark made in this collection) refers to
  marked objects only, or the walk has yet to follow the reference: it is `cur`, or
  the rest of a suspended call. In the tree mark a stack object's mark says nothing,
  as it may be an old one; from the mark pass on it does, because the pre-clear pass
  has been over all of them (`Newer(node)` are the ones it has passed).
- *Sweep.* `Keep`, the objects behind `prev` and the retained ones before it, is closed
  under reference; the sweep never changes it. What is reachable is inside `Keep` and the
  registered objects, by `ReachLeast`; what is freed is outside.

`XHeapReclaim_proofs` adds the other half, `ReclaimsGarbage`: `GarbageReclaimed` holds. Its
invariant (`Sound`) says that what is marked, and what the walk stands at or has suspended,
is reachable, and that what the sweep has passed and left is reachable or SHARED. It is
preserved by a free because what is freed is out of reach and so takes nothing else out of
reach (`ReachSame`).

`XHeapRefinement_proofs`: `CollectIsImplemented`, the refinement of `XCollect`. While the
sweep runs, what exists in the abstract sense is what is reachable or SHARED: both halves
above say that the sweep comes down to just that. The start of the sweep maps to the
abstract collection, every step of the program to the abstract program, all else to stutters.

`XHeapReclaim_proofs` is also about `XHeapBorrow`, under `BorrowSpec`: `PassIsExact`
(`PassSeesReachable` if there are no stack objects, as in the run), `FlagsTakenBack`, and that
a reader whose flag is set across collections changes nothing of the above: `BorrowingIsHarmless`,
`BorrowingDanglesNothing`, `BorrowingReclaims`, `BorrowingKeepsChain`. Both invariants above,
`IInv` and `Sound`, hold throughout, for whichever of the two flags is in `marked`: the flags
change places only while the collector's is on no object of the chain. That the tree mark is exact is the tricolour argument from one side and `Sound` from the other. What
has the reader's flag always exists (a new object begins without it, a freed one loses it), and
is therefore on the chain; while the clear walks along the chain, what still has the flag ranks
no higher than where it stands (`ClearProgress`).

`XAlloc_proofs`: `CountIsExact`, `CeilingIsHeld` under `TypeFirst`, `ReportedOnce`
and `AllocTypeCorrect` without assumptions.
The invariant adds to `OneReport` that a reported cell is latched, and to the count that an
untyped base has no objects. `TypeFirst` is needed: an object allocated while the base is
untyped and freed when it is typed takes the count below the number of objects.

`XTeardown_proofs`: `NoBaseIsDead` and `TeardownIsComplete` for any number of objects in any
order on the chain. The invariant relates `left` to the rest of the chain.

`XBase_proofs`, for every depth of the fields' stacks, every set of values and of fields in
use (`MaxDepth` at least 1, `SomeDepth`):

- `TreeIsFields`: `Spec => ImplementsFields`, the refinement of `XFields`. The invariant
  `TreeInv` says that the tree is the tree of *some* stacks, one per field: the five lists of
  `x_base_make`'s nest, each a list of the fields' cells in the order of the source, with the
  extension points free. Accessors are evaluated in that shape once and for all
  (`AccessorIs`, `FieldFacts`): each finds the list of its field's stack, and an assignment
  through it gives the tree of the same stacks with that one changed. What is left is that
  push, pop, assignment and growth of a list in the tree are those of `XFields`
  (`StackStepIsFieldsStep`).
- `NothingIsTruncated` and `EverythingIsDelivered`: `NoTruncation` and `Delivered` under
  `IOSpec`, from `Bounds` and `BufsAreNoFds` (a write buffer is a pair, a descriptor an atom).
  `Delivered` is inductive with the range of what has been sent: a new unit is larger than
  any before, which keeps every sink's order and keeps the sinks apart. That what is current in
  a field is a sink at all comes from `TreeInv`.
- `AnswersAreDue`: `OverrideAnswers` under `DispatchSpec`. `CallsInv` is about every call in progress, however deep: its hook is the
  override that was due, is not NULL, and was called for a foreign object or an error.

`IOSpec` and `DispatchSpec` are all behaviours of their module; the run `BaseUse` takes both
together but lets a program do one or the other. Each of its steps is a step of the one and
leaves the variables of the other alone.

`XLib_proofs`, for memories of every size and contents, and every width of `char` and `size_t`
with which the addresses of the memory can be counted (`WidthsArePositive`,
`SizeHoldsAddresses`): `NothingIsOverread` (`NoOverread`) and
`FreestandingAgrees` (`AgreesWithStandard`: each function returns and stores what C99 says of
strings, their lengths and their order). The invariant is that memory holds bytes; the rest is
one lemma per function, which takes the number of iterations of its loop to the length of a
string or the first difference of two.

For every width of an `x_int_t`, every set of documented bases and every set of ASCII texts:
`StrtointReads` (`ReadsLongestNumeral`) and `InttostrReadsBack` (`TextReadsBack`). What
`x_lib_strtoint` has accumulated after some digits, times the power of the base still to come, is
the sum of what those digits stand for, up to a multiple of 2^`IntBits`: wrapping at each step and
wrapping once come to the same (`AccumulatesValue`, `WrapsOnce`). In the other direction, the
quotients of `x_lib_inttostr` fall, so that the digits end within `IntBits` rounds, and what
reading them back has accumulated before the digit of a round is what was left of the number
after that round (`DigitsReadBack`); it never wraps, the number and its absolute value being in
range. The least integer is left out because it has no absolute value in range (finding 3).

Lists, paths and powers are recursive definitions, and the proofs are inductions over data. The
library states induction for a predicate that is passed as an operator, which the installed
provers cannot instantiate. `XFacts` states it for a set instead: a set of naturals that has 0
and the successor of each member has them all (`InductionOnSet`, from the well-foundedness
of the order), and a recursive function exists (`RecursionExists`). A lemma defines the set of
numbers its claim holds for.

Only model-checked:

- `CollectionEnds` and `NoLivelock`: liveness under fairness is out of the prover's reach, and so is
  ENABLED. For `CollectionEnds` the proofs leave just that: every step of a collection lowers the
  measure, and TLC finds that there is always a next step (no deadlock) and that fairness
  takes it.
- That each pass of a reader is exact with stack objects around is neither checked nor proved: an
  old flag on a stack object stops the walk (the clear follows the allocation chain).

## Not modelled

- `x-sys.c` beyond what its callers see of it (short and failing reads and writes, malloc
  that fails): one-line wrappers. That the byte 0xFF reads as the end of the input is noted
  as a hazard.
- The debug dump and debug output of DEBUG builds: formatting.
- Several bases on one chain: x_base_make takes an "existing base for allocation context",
  and a collection from either base walks over objects of the other, so that whoever collects
  has to mark the trees of both.
- Mark hooks that allocate, sweeps that start in the middle of the chain, and a mark of
  several flag bits (hazards without a property). The callables of the mark-hooks and
  free-hooks lists: x-expr keeps the lists, the layer above calls what is in them.
- `x_base_make` running out of memory: it checks none of its allocations, and what follows
  is undefined.
- A limit of the C stack for the recursive mark (its depth is bounded, see `MarkDepthBounded`); the sizes of write buffers, which the code does not
  keep; `x_heap_root_slot` addresses kept across an override of the field.
- `ctype` functions on negative plain chars: the texts of `XLib` are ASCII.

## Plan

Done: 1. `XReach`, `XHeap`, its invariant and proofs; 2. `XCollect`, the refinement and its
proof; 3. `XAlloc`, `XTeardown` and their proofs; 4. `XHeapBorrow`, `XHeapStatic`,
`XHeapHooks`; 5. `XBase` and `XFields`; 6. `XBaseIO`; 7. `XDispatch`; 8. `XStdlib`, `XLib`;
9. `GarbageReclaimed` and the borrowed pass proved; 10. the chain, the base with its
reads, writes and dispatch, and the string and memory functions proved; 11. the conversions of
`XLib`, the invariant in the form TLC checks, and that a collection runs down and how deep it
recurses.

To do, in this order:

12. Sweeps that start in the middle of the chain, a mark of several flag bits, SHARED pairs
    that refer to ordinary objects.
13. A field address kept across an override (`x_heap_root_slot`), and a retry of
    `x_base_read` with the argument list of the call before.
