# Verification of the stator compiler and runtime in TLA+

stator compiles TypeScript and JavaScript ahead of time to native programs. The
compiler (`packages/compiler`) lowers a program to a typed HIR and emits C; the
emitted C is linked with a runtime, libjsrt (`packages/runtime/src`), which
implements the parts of JavaScript that have state of their own: promises and
the microtask queue, `Map` and `Set`, objects whose layout is only known at run
time, iterators, exceptions and memory. The tests of the repository are golden
outputs compared with Node. What they reach least is, in the runtime, long-lived
mutable state that the program's own code re-enters in every order, and, in the
compiler, the meeting of features: a name shadowed and captured and inlined, a
jump out of a finally inside a walk inside a generator. The models in this
directory are about these two.

Contents: 1 the system; 2 the modules and the code; 3 the runs; 4 fairness;
5 the proofs; 6 findings; 7 what is not modelled; 8 the plan.

## 1. The system

| Component | State | Operations | Who calls it | What makes it correct |
|---|---|---|---|---|
| Promises and microtasks, `jsrt_promise.c` | per promise: state, value, reactions, `resolved`, `observed`, `unhandled`; one global job queue; one counter of unhandled rejections | resolve, reject, then/catch, finally, all, construct, async start/await/return/throw, the drain | emitted code; the emitted `main` | first resolution wins; each waiter is told once, in order; no rejection is lost, none is reported that somebody hears; awaiting code resumes |
| Map and Set, `jsrt_map.c`, half of `jsrt_iterator.c` | dense entries, an open-addressed index of them, a count of walks in progress; a cursor per walk | set/add, get/has, delete, clear; begin, step and end of a walk | emitted `for..of`, `forEach`, iterator objects | the index finds exactly the live entries; a walk skips nothing and repeats nothing; storage is bounded |
| Dynamic objects, `jsrt_shape.zig`, `jsrt_shape.c`, `jsrt_object_ops.c` | a global tree of shapes; per object a shape, a slot block and a frozen flag; per property site a one-entry inline cache | get, set, in, delete, keys, define accessor, freeze, entries | emitted property sites | caches, slots and shapes are invisible: a program sees plain ordered records; frozen means frozen |
| Arrays, `jsrt_array_ops.c`, `array_store` in `jsrt_value.c`, `jsrt_alloc.zig` | a length and a buffer of cells, some of them holes; per callback method an index, the length at entry and a partial answer | in-place builtins, callback methods, stored iterators, sort, growth | the array is the standard's list; a callback that changes it changes what is visited as the standard says; sort is stable and loses nothing |
| Iterators and generators, `jsrt_iterator.c` | a generator's resume point, done flag | next, return, throw, IteratorClose | emitted loops, spreads, destructuring | a closed iterator stays closed; the return of an abandoned one runs once |
| Exceptions, `jsrt_throw.c`, and the control the emitter writes, `codegen/index.ts` | one pending cell; while emitting: landing pads, enclosing loops, open finally blocks; while running: completion slots, the return slot, a loop's environments | throw, take; emit and run try, switch, loops, jumps, return, yield, await | everything | an exception reaches the innermost handler; finally blocks run once; every way out of a loop closes its walk |
| Memory, `jsrt_gc.zig`, `jsrt_alloc.zig`, `jsrt_stack.zig` | a shadow stack of roots over a conservative collector | push/pop frame, allocate, collect | emitted code | nothing reachable is collected |
| Module graph, `frontend/graph.ts` | the path of the walk, the order, the cycles | visit every edge, report a cycle | the compiler | a module runs once, after all it imports |
| Lowering and captures, `lower/` | chain of scopes, names of the unit, shadow counter; per function its environment and what it captures | declare, look up, lower each statement; analyse captures | the compiler | one name, one binding; a closure finds its slot |
| Passes and verifier, `passes/`, `hir/verify.ts` | the HIR | inline, fold, prune, shake; verify | the compiler | the program prints what it printed; nothing valid is refused as a compiler bug |
| Emission of expressions, `codegen/index.ts` | the slots of names and of nodes, the functions met, the lines of the unit | count; emit each statement and expression | the compiler | what C leaves open decides nothing: an operand is in its slot before the next one runs, a call is checked before its answer is used |
| Front end and mode gate, `frontend/gate.ts` and others | the program's tree and types | one pass each | the command line | what is accepted is supported |
| Standard library backings, `packages/std/zig` | one parked result buffer | read, write, args, env | emitted code | an answer is read before the next call replaces it |
| Drivers and tests: `cli/`, `ffi-gen/`, `vite-stator`, `tests/support` | files; a pool of worker slots | build, generate, run | the developer | outputs never alias inputs; every item is run once |

How they interact. The emitted `main` runs the module body on the C stack; the
body calls the promise API, which only ever *queues* reactions, and when the
body has returned `main` calls `jsrt_run_microtasks` (codegen 1010-1019), which
takes jobs off the queue and runs the program's handlers until it is dry. A
module with top-level await is itself an async body with a promise and an
observer (codegen 1108-1155, 1366-1379). A `for..of` over a Map is emitted as a
loop over `jsrt_map_iter_step` between a begin and an end that every exit of the
loop passes (codegen 2880-2950). A property site is emitted with a static cache
that it hands to `jsrt_get_prop` and `jsrt_set_prop`. Getters, setters, `forEach`
callbacks and executors are the program's own code, called in the middle of
runtime operations: they can call any other operation before they return.

The process has one thread, so what is hard is not data races: it is order
(of jobs, of settlements), re-entrance (the program changes what the runtime is
walking over), what is cached or counted apart from the thing it describes
(inline caches, the walk count, the unhandled counter), and what happens after
the last line (the drain, and the exit code). `PROJECT.json` lists each of these
hazards at the line where it bites, with the properties that would catch it.

## 2. The modules and the code

### Promises and microtasks

`PromiseHeap` is the heap of promises and the queue: one record per runtime,
with an operator for each C function (`Subscribe` is `jsrt_promise_subscribe`,
`PromiseSettle` is `jsrt_promise_settle`, and so on). The C code's reaction
callbacks (`adopt`, `then_react`, ...) are the kinds of a reaction; a reaction's
state (the derived promise, which closures it has, what a finally carries
through) is its fields.

`Promises` adds the program: a stack of frames of user code (module body, async
body, handler, executor), the API calls the top frame may make, the ways it may
end, and the drain loop that takes one job at a time when the stack is empty.
An async body is not a program text: any body may make any call in `Ops`, then
return anything it can name, throw it, or await it. `Promise.all` runs its
subscribe loop as a frame of its own, one element per step, since it allocates
and queues at each. What a program can name is modelled too (`Reachable`): the
wrapper of an awaited value and the hidden promise of a finally are not handed
out, nor is a promise whose constructor has not yet returned. Promise objects
are a finite constant; each allocation takes a free one, and nothing is
collected. `role` and `elems` are history; no guard that stands for code
reads them.

`PromiseContract` is what a promise promises with no queue in sight;
`PromisesRefine` maps the queue onto it: who waits for a promise is what it has
already queued (`Owed`, in queue order), then what is registered on it.
`MCPromises` instantiates all three.

### Map and Set

`MapStorage` is one map's storage: entries numbered from 1, the index (0 is an
empty slot), growth, compaction, deletion that leaves dead entries, and the
linear probe with its hash taken from a constant. `MapWalk` adds the program's
walks over it: a cursor each, begin, step, exhaustion, abandonment. `OrderedMap`
is what JavaScript promises (an ordered list of entries; a walk that has passed
some of them), and `MapWalk` maps the storage to it: the dead entries vanish, and
a cursor becomes the number of live entries before it. `ClearInWalk` says
whether the program may call `clear()` during a walk; see the findings.

### Dynamic objects

`ShapeTable` is `jsrt_shape.zig`: nodes with a parent, a key and an offset,
interned by transition; property order; reserve; and removal, which replays the
remaining keys from the root. `DynObjects` is the rest: get, set, `in`, delete,
keys, freeze, accessors, prototypes, object literals under construction, fixed
objects with their overflow tables, and the inline caches, filled and trusted
exactly where the C code does it (including the early paths that skip the frozen
test). An `Access` is a name in the source, whose site has a cache, or a computed
key, which has none. `answer` is what the last operation gave its caller. A getter's or
setter's body is the steps that come after it. `Records` says the same of plain
ordered records, with the answers, and `DynObjects` ends with the mapping from one
to the other: an object's record is its chain in slot order, each key with the
value in its slot. The one step that is not the record's has a name,
`InRunsGetter` (see 6). Enumeration order is stated by rank (the node in place `i + 1`
is the one that `i` others come before), which is what any sort by `before`
gives, since that is a total order. A step of a fixed object is `Elsewhere` in
`Records`: its overflow table grows the same shapes and fills the same caches,
and no record may show it. A prototype is an object that existed when its
instances were built, and is never changed after, so prototype chains have no
cycles: `ObjectAssumption` says so, and the walk up them ends because of it.
`EntriesWalk` adds `Object.entries`/`values`, the one operation that keeps
reading the object after it has called a getter: it holds the key order and the
slot block it took at the start.

### Arrays

`ArrayStore` is the buffer: a header with a length, and cells up to the
capacity, of which those past the length are spare. Growth, the sparse write
that leaves holes, every in-place builtin as the moves and clears it makes in
the buffer, and the builtins that only read. `ArrayWalks` adds the methods that
call back (with a stored iterator as "values"): one step runs from a callback's
answer to the next callback or the end, and between two steps the callback may
change the array. `sort` takes one step per element placed, and its comparator
answers by a key of the values, or anything at all, or throws. `ArrayContract`
is ECMA-262's list: what each builtin selects, which indices a walk visits, and
that a sort writes when its comparisons are over, so not at all if one throws.
`ImplementsList` maps the buffer to its live cells, and to the list a sort began
with while one is at work; the one step that is not the standard's has a name,
`SortAbandoned` (see 6).

### Control: exceptions, generators and what the emitter makes of jumps

`Completions` is the language: where a program stands in a chain of nested
statements, and what the completion of a part makes of it (ECMA-262's
completion records for loops, switches, labelled blocks, try, and iterator
closing). `EmittedControl` is the emitter: for each statement it gives the lines
of C that `codegen/index.ts` writes for it, from the stacks the emitter keeps
while it writes (`padStack`, `tryFinallyStack`, `enclosing`): landing pads,
completion codes and the dispatch after a finally, routed jumps, the return
slot, the close of a walk, the resumption states of generators and async bodies
and the environment that a loop clones per iteration and commits back.
`ControlRuns` runs the two side by side. A leaf (an opaque expression) may
complete, throw, return, jump or suspend; both sides get the same outcome, and
must then stand at the same leaf. Bodies with "bind" also assign the captured
variable and the bindings of the iterations they stand in, and make closures over
them; `astray` remembers that a loop with environments was left where nothing
commits its iteration (see 6). `generator_next` and `generator_inject` are
the calls from outside. `MCControl` lists the bodies.

### The module graph

`ModuleGraph` is `moduleOrder`, its recursion as the path it stands in and the
next edge of each file of it. Which edges a file has is TypeScript's resolution,
a constant here. Files, edges and cycles are arbitrary.

### From source to C

`Hir` is the tree, and what running it prints, in two ways. A source program is
run by the language's rules: every block a scope, every file a module (`Home`,
`RunSource`). The HIR is run as the emitted C runs: a frame per call with one
slot per name, an environment for captured ones, globals for the module's, found
in the order of `slotRef` (`RunModule`). `Lowering` is the scope chain of
`lower/scope.ts` and the walk that renames shadows and joins the files.
`Captures` is `lower/captures.ts`: which names live in an environment, and the
levels and index of each read. `Passes` is the rewriter with inlining, constant
folding, pruning and the function shake. `HirVerify` is the verifier, of which
only what these nodes need is there.

`Emission` is what the emitter does next: `countEach` gives slots to names and to
the nodes that need them, once per unit and by the identity of the node (`id`;
what a pass rebuilds is a new object), `emitExpression` leaves lines and a value
as the code does (`sequencePart`, `finishStatement`), and `emit` counts the
module, emits the functions and then the module. `EmittedC` runs the result: C
statements over frames, globals and environments, an exception that is only
pending until a check looks at it, and operands evaluated from the left or from
the right (`backwards`), which C leaves open everywhere but at a comma.

`Compile` composes all of these with
`ModuleGraph` into the order of `cli/build.ts`; `meaning` is what the source
prints, and each stage's HIR, and then the C, is compared with it.

The state of a compiler pass is the tree it holds, so one TLA+ step is one pass,
and these modules are mostly functions. What makes them worth running is the set
of programs, which `MCCompile` puts together from pieces chosen to interact.

`PROJECT.json` "map" names, for each definition, the lines it stands for.
Operators that "mutants" lists there under "as" are wrong on purpose: they are
the plausible bugs against which each property is tried, and nothing else uses
them.

## 3. The runs

| Run | Bounds | Shows |
|---|---|---|
| `promises_then` | 4 promises; construct, then, finally | the unhandled flags and counter are exact, the exit verdict is right, the hidden promise of a finally never counts as unhandled, and the first resolution wins |
| `promises_async` | 3 promises, one the module's own; reject, resolve, async, all (arrays of up to 2); fair | nothing that must settle is lost or settled twice, `Promise.all` answers in order, jobs never carry a stale settlement, a rejected module body never exits normally, awaiting code resumes, the queue implements `PromiseContract`, and the inductive invariant holds |
| `map_walk` | 3 distinct keys, one of them both zeros, and a refused one; 2 hashes; 2 values, 2 walks; capacity 2 to 4 | the index is exact, walks are exact, storage is bounded, and the whole implements `OrderedMap` |
| `map_clear_walk` | 2 keys, one walk, with `clear()` inside it | *violation*, see 6 |
| `objects_chain` | an instance and its prototype, 2 keys (one an index), 2 accessors, a shared site and computed keys | the cache is exact; shapes, slots and cache implement `Records`, but for the getter `in` runs (`InRunsGetter`, see 6) |
| `objects_walk` | a dynamic and a fixed object that share shapes, 2 keys, a site, a getter; `Object.entries` walking one | one shape per history; slots are live and inside their block; frozen stays frozen, cached or not, in the walk or not; the walk reads only what was stored; `FreezeInv`, from which the freeze theorems follow; `WalkInv`, from which all of it does |
| `objects_frozen` | a fixed object written by both paths | *violation*, see 6 |
| `entries_gets` | one object whose getter changes it | *violation*, see 6 |
| `control_exact` | over 500 bodies: every nesting two deep of 16 places in statements, cleanups three deep; plain, valueless, generator, async; loops that own environments in and around nine places and in each other; 2 iterations with captured bindings, 3 where such loops nest | the C stands where the language stands, catches and answers the same, closes every walk; the body keeps each iteration's binding, and closures do outside the cases 6 names |
| `arrays` | 2 values and undefined, length up to 3; arguments -4, -1, NaN, 2, 4 and absent; up to 2 items per call | spare cells are clear, reads and changes are those of the standard's list, the eleven callback methods visit and answer what it says under changing callbacks, a sort is seen at its end, but for `SortAbandoned` (see 6), and is exact and stable |
| `compile` | all graphs of 3 files with up to 2 imports; programs of 2 files: 10 dependencies, entries of up to 2 of 24 pieces | the module order; each stage, and the C in both orders of evaluation, prints what the source prints; no two bindings share a slot; no valid program ends in the verifier |
| `compile_shared` | one program: a function whose result names nothing, called in two places | *violation*, see 6 |

Why the bounds are enough. Every interesting promise structure needs few
promises: a finally takes three (source, derived, hidden), an adoption chain
three, an all of two pending elements three; four lets a chain and a racing
resolver coexist. One plain value is enough where a property only tells a value
from a promise, and `v` from undefined. Since promises are not reclaimed, each
run ends when they are used up: it is a bound on the length of a program, not on
its order. Promise names are interchangeable, so the safety runs are symmetric;
the fair one is not. Capacities in the map runs start at 2 instead of 8 and the
index at 4 instead of 16, so that a few operations reach growth at full load,
compaction and a probe that wraps; the growth rule itself is unchanged. With two
distinct hashes every probe chain is shared. `MaxCapacity` bounds a run only
where walks pin dead entries. Object blocks start at capacity 1 instead of 4, so
that the second key reallocates. Two keys make every parent/child relation of
shapes (four shapes, `MaxShapes`, are all there can be), and three make the
replay of a removal longer than one key; there `MaxShapes` is 5, enough for a
chain of three and the two shapes the removal of its first key makes.

Arrays: with length 3 a splice moves its tail left, right and not at all, with
and without growth (capacities 1, 2, 4 and 8), and the sort has two levels of merge.
A comparator ranks a value 0 or 1 (`MaxKey = 1`), so two values are apart or
equal, and of three values that are sorted two are equal. The arguments lie before,
at, inside and past both ends. A callback pushes,
pops, shifts, unshifts, sets or deletes, any number of times and one item at a
time; the other in-place builtins run outside callbacks only, which is a bound
(`InCallback`), as is `FindsShorten`, which says whether the callback of a find
may shorten the array; see 6.

Control: two levels show every pair of an emitted construct in each part of
another, and what a routed jump passes needs a third only where cleanups nest,
so those go three deep. The bodies with captured bindings (`Owned`) are fewer:
each kind of loop that owns environments, in and around a while, a block, a
for-of over a generator and over a Map, a clause of a switch, a try and its
handlers; a for and a generator walk around a while and a Map walk that own
environments too; and a while that does inside a try inside a loop or a block,
for the jump that a finally holds up. Other pairs of owning loops, and three of
them, are left out. `MaxCells` bounds how many bindings iterations create: two
tell a fresh binding from a kept one, and where such loops nest one more lets the
inner one iterate twice in one iteration of the outer one. Graphs of three files have
every cycle up to length three, a cycle beside an ordinary import, and repeated
edges; the theorems say the rest for any graph. Programs: a piece is one
situation (a shadow, sibling blocks with a closure that outlives one, functions
two levels inside another with and without environments, a `do` that runs once
with a jump in it, a folded condition, a variable read before and after a call or
an update that writes it, loops whose conditions call, a branch not taken, and
dependencies that add, capture, loop or throw), and two pieces over one dependency are
every pair of situations. `Fuel` bounds a run of a program at 30 calls and
iterations, which all but the deliberately endless program stay under;
`MeaningKept` speaks of programs that run without error within it.

`CHECK_DEADLOCK FALSE` stands where the system stops: in the two runs with a
fixed object, whose `delete` of a declared field aborts the program, in the
control runs, whose bodies end, and in `compile`, which ends with the build.

## 4. Fairness

Only `promises_async` needs it. `FairSpec` is weak fairness of three things:
the frame on top of the stack ends (`UserLeaves`: user code that loops for ever
without returning blocks every JavaScript engine too), a job at the head of the
queue is run (`RunJob`), and the drain ends when the queue is empty
(`DrainEnd`). The code justifies the last two: `jsrt_run_microtasks` is a plain
loop in the one thread of the process. No fairness is assumed of *which* job is
taken, since the queue is first in, first out, and none of the program's calls:
`AwaitResumes` holds although another body may await again and again for ever.

## 5. The proofs

`PromiseProofs` and `PromiseAllProofs` prove, for any finite set of promises,
any set of plain values, any subset of the API and any length of arrays:

- `Invariance`: `Spec => []Inv`, with the consequences
- `TypeCorrect` (`TypeOK`; the counter never goes below zero),
- `UnhandledCounted` (`UnhandledExact`) and `ExitReported` (`ExitReport`),
- `JobsNeverStale` (`JobsCarrySettlement`),
- `AlwaysFlat` (`NeverNested`: no promise is fulfilled with a promise), and
- `FirstWins` (`FirstResolutionWins`, an action property);
- `FullInvariance`: `Spec => []FullInv`, `Inv` with a second invariant, `OwnersInv`,
  and the consequences
- `CompletedOnce` (`OneCompleter`: no completion is lost and none happens twice),
- `ResultsInOrder` (`AllInOrder`, for `Promise.all`),
- `HiddenSilent` (`HiddenNeverUnhandled`, for the promises no program can name), and
- `ModuleFailureSeen` (`RejectedModuleFails`);
- `ContractKept` (`ImplementsContract`: the refinement of `PromiseContract`, step by
  step).

`ObjectProofs` proves, for any objects on any acyclic prototypes, any keys, values,
accessors and sites, any size of the first block and any bound on the shapes:

- `ObjectInvariance`: `Spec => []ObjectInv`, and from it
- `CachesExact` (`CacheExact`), `SlotsKept` (`SlotsLive`) and `HistoriesShared`
  (`OneShapePerHistory`);
- `RecordsImplemented` (`ImplementsRecords`: the refinement of `Records`, step by
  step and with the same answer, but for the named step `InRunsGetter`: an `in` that
  finds an accessor on the prototypes runs its getter, see 6);
- `FreezeInvariance`: `Spec => []FreezeInv`, `FrozenKept` (`FrozenStays`) and
  `LockedKept` (`LockedStays`);
- with a walk over an object's entries and getters that do anything in it,
  `WalkInvariance`: `WalkSpec => []WalkInv`, and from it `WalksReadStored`
  (`WalkReadsStored`) and `WalksKeepFrozen` (`FrozenStays` and `LockedStays` again).

`ModuleGraphProofs` proves, for any files and any imports between them:

- `GraphInvariance`: `GraphSpec => []GraphInv`,
- `NoImportLost` (`ImportsReached`), `ImportsRunFirst` (`ImportsFirst`),
  `FilesRunOnce` (`RunsOnce`: no file is in the order twice) and `CyclesAreReal` (`CyclesReal`).

`MapProofs` proves, for any keys and values, any hash of the keys, any sizes of the
first allocation and any finite set of walks:

- `StorageInvariance`: `Spec => []StoredInv`, and from it
- `LookupsExact` (`IndexExact`) and `GrowthBounded` (`StorageBounded`, an action
  property), whatever the program does, a `clear()` under a walk included;
- under `~ClearInWalk`, `MapInvariance`: `Spec => []MapInv`, and from it
- `WalksExact` (`WalkExact`) and `MapImplements` (`ImplementsOrderedMap`: the
  refinement of `OrderedMap`, step by step).

`ArrayProofs` proves, for any values, any positions and counts, any methods and
any bound on the length and on the ranks of a comparator (`MaxKey`):

- `ArrayInvariance`: `Spec => []ArrayInv`, and from it
- `StoreKept` (`StoreInv`: no spare cell holds on to a value), and
- `ReadsKept` (`ReadsExact`: the builtins that only read agree with ECMA-262's);
- `OrderInvariance`: `Spec => []OrderInv`, and from it
- `SortOrdered` (`SortExact`: a sort leaves the values in the order the comparator
  agrees with, equal ones as they stood, then undefined, then the holes);
- under `~FindsShorten`, `ListImplemented` (`ImplementsList`: the refinement of
  `ArrayContract`, step by step, sorts included; a comparator that throws is the
  step `SortAbandoned`, of which it is proved that the elements are those the sort
  began with).

The hypothesis `~FindsShorten` is that no callback of a `find` shortens the array,
the divergence named in section 6; every other callback changes it as it likes. The
hypothesis `~ClearInWalk` is that no body clears the map it walks. Without it
`WalkExact` is false, which is what `map_clear_walk` shows; every other call is
allowed at every moment.

The assumptions are the named ones of the modules: `FileAssumption` makes the
entry a file and each list of imports a sequence of files; `Promise` is finite and
disjoint from the values and sentinels, and `Ops`, `MaxAll` and `TopLevelAwait`
have their types; `ShapeAssumption` gives a first block at least one slot and index keys a
number; `ObjectAssumption` keeps dynamic and fixed objects, and values and
accessors, apart, and leaves the prototypes no cycle; `WalkAssumption` keeps
undefined and NaN apart from the numbers and the values apart from the runs of
cells that a `flatMap` callback gives (a value is not taken apart, since a
nested array that is a plain element stays one at depth zero), and asks for one value.

Why an invariant is needed. None of these is inductive alone. That the counter
is exact rests on when a flag may be set: a promise is marked unhandled when it
settles with no reactions, so one must know that reactions wait only on pending
promises and that a pending promise is `observed` exactly when it has some
(`ReactionsPending`). That a job is not stale rests on settled promises never
changing; the one settlement that does not test `resolved` is the completion of
an adoption, so one must know that a promise is adopted by at most one
continuation, registered or queued, and only while it is resolved and still
pending (`AdopterPending`, `AdoptOnce`). That fulfilments are flat rests on
every value that is carried along (in jobs, in a finally's frame, in reactions)
being flat (`Targets`, `StackInv`). `HeapInv` is these facts about the heap;
`Inv` adds the frames (`StackInv`), the names in the history (`NamesInv`) and
the halting phases (`PhaseInv`).

Who completes what is a second invariant over the first, `OwnersInv`. A promise is
settled by an adoption (`adopt`, `adopt_subscribe`) or by code (a frame on the
stack, or a reaction that will push or stand for one), and each side is counted:
`AdoptExact` counts the adopters of a promise against `resolved` and still
pending, `CodeExact` the frames and reactions against unresolved and owed by its role.
Only the two together are inductive with `RolesFit` (a frame or reaction settles
promises of its own role), since a body that returns a promise hands its debt
from the second count to the first within one step. `HiddenInv` says that the
intermediate promise of a finally is observed, or that the job which will adopt it
is queued and the thunk that settles it is not ahead of that job. `AllInv` ties the
counter of a `Promise.all` to the elements not yet counted, each of which is still
waited for by exactly the reaction of its index, and to the loop on the stack
that has not subscribed to the rest. `MainInv` keeps main's listener on the
module's promise until that settles.

The refinement of `PromiseContract` needs of the invariant that reactions wait
only on pending promises (`ReactionsPending`), that a settled promise is resolved
(`SettledIsResolved`), and that a job's source has settled (`JobsCarry`). Each
operation then only lets new waiters join behind those who wait (`Delivers`): a
subscription appends to the reactions of a pending promise, or to the queue for a
settled one on which nobody is registered any more (`DeliversRegistered`,
`DeliversQueued`); a settlement moves the reactions, as a run of jobs, to the end of
the queue and leaves the order of those who wait as it was (`DeliversMoved`, by
`OwedRun`). `Delivers` composes (`DeliversOn`), so each call delivers because
its operations do. Only the pop of a job takes anyone away: the first who waited for the job's source,
which has settled, and for no other promise anybody (`PopTells`, by `OwedTail`).

For objects, `FreezeInv` says that nothing is frozen while its literal is built
and that a frozen fixed object's overflow table, if it has one, is frozen too.
Without the second half a locked object could be written through a table the
freeze had missed: `Freeze` must mark both, and a property write must not create
the table of a locked object. The proof does not look inside shapes: a write, an
addition and a removal each replace the row of one object (`Touches`), and each
is reached only when that row is not frozen. So it holds whatever the caches and
the shape table contain.

Everything else about objects needs `ObjectInv`: the types, `TableOK`, `SlotsLive`,
`CacheExact` and `FreezeInv` together. `TableOK` says what a table is that only
transitions have built: a node comes after its parent, takes the next slot and
adds a key its parent's chain does not hold, and no parent has two children for a key. From this,
by induction along the table, the chain of a shape with `n` slots has exactly one
node for each slot and one for each key (`ChainsOK`). A cache stays exact because nodes are only ever
added (`ShapesStay`); that its offset is inside the block of the object it is
used on needs `SlotsLive`; and `SlotsLive` needs `TableOK`, since a new key is
stored at the number of slots of the old shape. A removal runs the replay,
a recursion along the kept nodes of any number: `Replays` shows by induction that it keeps
`TableOK`, adds nodes only, and ends on a chain that has the kept keys in their
order, each under its new, compacted slot. `StepRow` then reduces every action to one of five
things that can happen to the shape table and one row of `table`: nothing, a
value put in a slot, a key added, a key removed, a freeze; the rest of the
invariant is proved of these five. `OneShapePerHistory` is by induction on
the length of a history: equal histories have equal parents.

The refinement of `Records` has three parts. An object's record, the list of its
entries (`EntriesIn`), is seen through the five things: untouched for every
other object (`EntriesStay`), changed in one place by a put, longer by one after an
addition, without one place after a removal (`EntriesRemoved`). Looking up
agrees: `Find` on the chain finds the place of the key in the record, and the
nearest holder along the prototypes is the same on both sides (`HoldersAgree`, by
induction on the acyclic prototypes, `ProtoInduction`). And a hit of the cache is
what the walk would have found (`HitFinds`, from `CacheExact`). For `Keys`, the two
sides order different things, nodes and places; that ranking by `before` puts every node in one place
of its own is counting (`ChainSize`, `OrderSorted`).

For the walk over entries, `WalkInv` says of every link taken at the start, not
only of those to come, that its slot is still inside the block the walk reads
and holds a stored value. That is inductive because nothing takes it away: a put
stores a value, an addition may move to a new block but leaves the old
one to the walk, and a removal compacts downwards and leaves in the freed slot what was there
(`StepSurvives`). It says nothing about which key the value belongs to, and
could not: see `entries_gets`.

For the graph, that a file runs after its imports is not inductive: while a file
is on the path, the edges it is past are met, in the order or by a report, save
the one it is visiting now (`NeedsMet`), and no file is on the path and in the
order at once, or twice on either (`Apart`). That a cycle is one rests on each
file of the path standing just past the edge to the next (`PathLinked`). With
these, leaving a file at the end of its edges is what makes `ImportsFirst` true
of it.

For maps, that a lookup is exact rests on the chains: a live entry is found
because no slot between the home of its key and its own is empty (`OnChain`), so
the invariant must say it of every live entry, and that one slot is empty, or the
probe would not end: slots outnumber the capacity (`SlotCount`). Deletion keeps
the chains because it leaves the slot (`FewerIndexed`); insertion because the slot it fills was
empty and on no other key's chain before its end (`InsertRoomy`); growth because
it inserts the survivors one by one into an empty table (`ReindexedRoomy`). That a
walk is exact rests on nothing being renumbered under it, hence on `iterating`
counting the walks in progress, which is part of the invariant. The refinement
speaks of ranks: the entry `i` is at the place `Rank(i)`, the number of live
entries up to `i`, in what the program sees, and a walk has passed `Rank(cursor)`
of them; appending, overwriting, deleting and compacting are then statements
about ranks (`AppendPairs`, `OverwritePairs`, `DeletePairs`, `CompactPairs`).

For arrays, each builtin is first shown to do in the buffer what its name says
of the live cells (`Shows`: a fitting array with these cells): appending, growing,
the sparse write, the moves with their clears (`Overwrite`, `Pasted`), the splice
that opens or closes a gap under its own tail. A method with a callback needs
little more, since it keeps a position and a length and reads the rest again. A
sort does: it takes as many steps as it places elements, and a comparator may
contradict itself or stop it at any of them, so `ArrayInv` says that what a merge
has placed in the scratch so far comes from cells of its two runs, each used
once (`DrawnFrom`), that the merge stands inside the runs (`Merged`), and that the
merges still to do are inside the array (`MergesAre`, by induction on the length of a
run: both halves of a run that is split have an element). When the merge is
written back every cell of the run was drawn, so the array is rearranged
(`MergeKeeps`) whatever the answers were; the compaction before the first merge is
a rearrangement by a recursion of its own (`CompactStands`). For the
refinement `ListInv` adds what a method holds while it waits: its answer so far has
the form the method gives it (`OutFits`), its position is below the length at
entry, and for a find that length is not past the array's (which is what
`FindsShorten` would break). Of a sort it says that the array is a rearrangement
of the list at entry with the holes last (`Standing`), which each merge
carries on (`StandingOn`): that is what the standard asks when the sort ends, and what
there is to say when it is given up. `DueIs` then says that the emitted scan and the
standard's choice of the next index name the same one, in both directions. The
reads are compared at every position an argument can stand for (`StartIs`, `EndIs`,
`GetIs`).

That a sort is exact needs more than that it rearranges. `OrderInv` speaks of the
arrangement `g` of the cells at entry that the buffer holds now: a run is in order
when `g` goes through it by rank, and by place among equal ranks (`Before`, which
makes stability part of the order). Of the merges to do, in the order the
recursion makes them (`PostOrder`), it says what is true between two of them and
not only at the end: a run whose merge is over is in order, and in a run whose merge
is to come all of the left half stood before all of the right (`Split`), which is
what lets a merge that prefers the left half when ranks are equal be stable. Inside a
merge, what has been placed is in order and comes before all that is left of both
halves (`Woven`). A step takes the smaller of two heads, so this is kept
(`TakeOrders`); the write-back turns it into the run's order and leaves the other
runs and the splits around it alone (`BackOrders`, `OrderStays`). The compaction before
the first merge moves the values to the front in the order they stood (`PacksKept`). After the last
merge the whole array is in order, and counting says that the cell in place `i` is
the one that `i - 1` others come before (`PlaceCounted`), which is the definition
of `Sorted`. Only a comparator that answers by one order is spoken of
(`honest`); for the others, and for one that throws, `ArrayInv` says that nothing is
lost or doubled.

Induction. The library's induction theorems take an operator as a parameter,
which the provers cannot instantiate. `Induction` states what is needed with sets and
functions instead: a set of numbers that holds 0 and with `n` also `n + 1` holds
all of them (`UpTo`, from the well-foundedness of `<` on the naturals), and a
recursion by a step function defines a function (`Recursive`). So the recursive
functions of `MapStorage` (`Kept`, `Reindexed`, `SlotCount`), of `ShapeTable` (`Chain`,
`Replay`), of `PromisesRefine` (`Owed`) and of the arrays (`Doublings`, `PresentCells`,
`Merges`) are written as such, and the proofs reach what
they compute for entries, chains, queues and buffers of any length.

Layout. `PromiseHeapProofs` has one lemma per heap operator: allocation,
queueing, registering, settling and taking a job each keep `HeapInv`, under the
conditions their callers meet; its second half is about counting: how each changes
the set of waiting continuations and the number of them for one promise.
`PromiseProofs` has one lemma per action for `Inv`, built
from those, and a few that say how the stack, the names and the phase survive;
`NextInv` is the case split over `Next`; then the same for `OwnersInv`.
`PromiseAllProofs` has those of `Promise.all`, the case split, the theorems, and
the refinement, with one lemma per heap operator and then one per action. TLC
checks `FullInv` in `promises_async`. `MapProofs`, `ObjectProofs` and `ArrayProofs`
are each in the order operators, invariant, refinement.

Only model-checked:

- control, lowering, the passes and emission: their modules hold `RECURSIVE`
  operators over trees, which put them out of the prover's reach, and what such an
  operator computes is induction over data, which is too;
- `AwaitResumes`: liveness is beyond the prover.

## 6. Findings

- `map_clear_walk`: `jsrt_map_clear` resets `used` to 0 but a walk keeps its
  index (`jsrt_map.c:362`). What is added after a `clear()` in the loop body
  lands below the cursor and is not visited, against the comment at
  `jsrt_map.c:272` and `docs/SUBSET.md:117`.
- `objects_frozen`: a write to a declared field of a frozen fixed object
  through the property path is not refused (`jsrt_shape.c:924` stores before any
  test of the flag), against `jsrt_value.h:390` and `docs/SUBSET.md:185`; the typed
  path does test it.
- `entries_gets`: `Object.entries` and `values` take the order and the slot block
  once; a getter that deletes a key compacts the slots under the walk, and later
  entries carry another key's value (`jsrt_object_ops.c:112`, against the comment
  at its line 113). `objects_walk` shows that the reads stay inside the block.
- `compile_shared`: a call that is inlined becomes the candidate's own result
  node when nothing in it is substituted (`passes/inline.ts:243`). The emitter
  finds a node's slots by its identity (`codegen/index.ts:612`), counts the module
  first and emits it last (`codegen/index.ts:832`). A node that inlining has put at the top
  level and in a function has, by then, the function's slot, and the top level
  writes that global:

      let y = 5
      function g() { return true ? 1 : 2 }
      function h() { return g() }
      console.log(g()); console.log(h()); console.log(y)   // y is 1

  Any result without parameters that takes a slot has the shape. The contract is
  `tests/golden/ts/optimization.ts:3`: Node prints the same. The programs of
  `compile` have no such function.

Seen while modelling, with no run of their own; the models exclude each by a
precondition, or the property allows it as a step with a name, given here.

- An unlabelled `break` in a labelled block in a loop leaves the block instead
  of the loop (`codegen/index.ts:2603`), although `docs/HIR.md:371` says that a
  break "cannot be silently captured by the wrong construct". `Captured` leaves
  such a break out; with `MCCaptured` for `Units`, `ControlExact` fails.
- A loop with captured bindings clones the whole environment of its unit per
  iteration, so a closure made before the loop and the loop's body stop sharing
  the variables declared outside it (`codegen/index.ts:3191`), although the comment
  at `tests/golden/ts/closures.ts:66` calls a loop around such a closure fine.
  `OneBinding` is what does not hold (it fails on a body of one loop that owns an
  environment, with "bind" and "call"). `OneBindingBetween` is what does: outside
  those loops the body sees what iterations assigned, and closures made before them
  too, unless a loop was left astray.
- A loop is left astray by a throw, by a return, and by a jump that a finally or a
  walk around the loop holds up. None of them commits the iteration: only a jump
  that is not routed does (`codegen/index.ts:3668`), the dispatch after a finally
  knows only the loops around that finally (3691), a return behind no finally
  leaves at once (2746), and no pad commits. After

      lbl: { try { for (...) { x = 1; break lbl } } finally {} }

  with an iteration that is captured, `_jsrt_env` still is the clone: the body
  sees its own x, and a closure made before the loop keeps the old one. Without
  `~astray`, `OneBindingBetween` fails on such a body.
- The clone of an inner owning loop copies the bindings of the outer iteration too.
  A closure made in one inner iteration keeps that copy when the next one
  assigns the outer binding, and one made before the inner loop sees the
  assignment only when the inner iteration is committed. `IterationsKept` leaves out
  both, and loops left astray; `IterationsExact` does not, and fails on each.
- `find` and `findLast` end, or skip, where the callback has cut the array off
  (`jsrt_array_ops.c:533`), where the standard goes on with undefined: with a
  callback that shortens it, `find` may miss an undefined element.
  `FindsShorten = FALSE` leaves such callbacks out.
- `sort` works in the array itself, where the standard sorts a copy and writes it
  back when every comparison has been made. If the comparator throws, the array
  stays compacted and as far merged as it was (`jsrt_array_ops.c:843`, `858`);
  the comment at its line 821 says that "nothing may observe" that, but a program
  that catches the error may go on and read the array. `ImplementsList` allows the
  step by its name, `SortAbandoned`, and fails without it; `SortThrowUnseen` is
  what the comment says, and fails with the constants of `arrays`.
- For the same reason a comparator that reads the array finds it partly sorted,
  and `sort` takes the element buffer once (`jsrt_array_ops.c:857`): a comparator
  that makes the array grow, shrink or change diverges from the standard's sort
  of a copy. The modelled comparator does neither (`May`).
- `in` asks the prototypes by a read: where one has an accessor for the key,
  `jsrt_in` calls its getter (`jsrt_shape.c:809`, through `accessor_read` at
  462), which may do anything and may throw, although the comment at its line 805
  names OrdinaryHasProperty, which only looks. `ImplementsRecords` allows the step
  by its name, `InRunsGetter`, and fails without it; `InOnlyLooks` is what the
  comment says, and fails with the constants of `objects_chain`.
- A function has one return slot. A return behind a finally that then runs,
  and abandons, another return gives the abandoned one's value
  (`try { return 1 } finally { for (;;) { try { return 2 } finally { break } } }`
  gives 2); `codegen/index.ts:718` says returns do not nest.
  `ReturnExactUnlessNested` says it of the others.
- A bare return routed through a finally in a function without values writes
  slot 0, which may hold something else (`codegen/index.ts:2761`).
- A generator has no running mark: a body that calls its own `next` re-enters at
  the state it parked last (`jsrt_iterator.c:212`).
- The module environment is the concatenation of the files' lists
  (`lower/index.ts:669`), but the index in a file's captures counts within its
  own list, so a second file's closures over bindings of its top-level loops name
  another file's slots. `Compile` has no loops whose own bindings are captured.
- A renamed or default import captured by a function whose parameter has the
  exporter's spelling (`import { y as z }`, `function g(y) { return y + z }`):
  the alias keeps the name `y`, the parameter in its fresh unit gets it too, and
  `slotRef` finds the parameter for both. `Compile` imports names as spelled.
- `bindingCounts` (`passes/inline.ts:66`) says that it counts parameters and
  does not visit those of function declarations.
- A one-return function that updates its parameter, when inlined, updates the
  caller's variable, or stops the compiler if the argument is a literal; one
  that calls before it reads its parameter reads the argument's variable after
  the call. The dependencies in `MCCompile` do neither.
- `dropUnreachable` (`passes/dce.ts:55`) drops a `let` after a return but keeps
  the function that reads it, which the verifier then refuses (STA4002).
- A name read before its file or block declares it is a diagnostic (STA4035), or
  resolves to an outer binding of that name if there is one.

Also seen while reading `lower/` and `codegen/`, in code the models do not reach:

- `o.f(args)` loads `o.f` after the arguments have run (`codegen/index.ts:4383`),
  although the comments at 3421 and 4354 there speak of the language's order.
- `let x;` in a loop body is not reset on the next iteration
  (`lower/index.ts:2204`); `docs/SUBSET.md:55` says that the slot starts as undefined.
- Names bound by destructuring and captured by a nested function end in an
  internal error (`captures.ts:149` does not collect them), and so does a
  named function expression that names itself in a nested function.
- A destructuring assignment reads its source after it has written the first
  targets, which may include the source (`lower/index.ts:1894`).
- The statement `a[i] += f()` re-evaluates `i` after `f` has changed it
  (`isSideEffectFree`, `lower/index.ts:3194`), and `o.x ||= v` as a statement
  always writes.
- `[...xs, xs.push(2)]` concatenates `xs` after the later elements have run
  (`lower/index.ts:4040`).
- for-in takes the keys at its start and visits one deleted since.

## 7. What is not modelled, and why

- Element-wise code (strings, numbers, dates, JSON, regular expressions,
  printing, typed arrays): pure conversions, which golden tests pin against
  Node; a finite model would restate them.
- The front end and the mode gate: a test per kind of syntax, over TypeScript's
  own checker, with no state to get wrong.
- Of lowering, passes, verifier and emission: classes, generics and their
  specializations, destructuring, `var`, default and rest parameters, namespaces,
  typed arrays and every expression on them. The passes treat them node by node
  as they do the ones here; their lowering and types are the bulk of
  `lower/index.ts`. Also the environments of loops, which `EmittedControl` has, and
  of emission the slots of arrays, optional chains, templates and async units.
- Of control: for-in, `yield*` and `for await`.
- Of promises: an executor that is not a function, which throws and leaves a
  promise nobody has, and an argument of `Promise.all` that is not an array, which
  ends the program.
- Of arrays: `flat` below depth zero, `join` and `toString`, `Array.from` (which
  iterates as control does), the arguments' own conversions, and the maximal
  length.
- Of Map and Set: NaN as a key, which `same_value_zero` makes equal to itself, and the ES2025 set operations, pure functions of two sets. Of objects: property tables of arrays and functions (the same table
  under another owner), `Object.assign`, class statics, the hidden `constructor`
  key, prototypes that are not dynamic objects, the interning of key bytes. An
  object's prototype is fixed when it is built, as in the code.
- Memory: values are never collected in the present models, so the rooting of C
  locals across allocations (as in `finally_react`) is out of their sight.
- Command line, FFI generator, Node modules, Vite plug-in: input and output, run
  once and in sequence.

## 8. The plan

Done: promises (model, refinement, both proved), Map and Set (model,
refinement, both proved), dynamic objects (model, refinement, both proved), arrays (model,
refinement, both proved, the order a sort leaves included), control, the module graph (model, proofs), and the pipeline from source to C
over its core.

Next, in this order:

1. `Rooting`: frames of the shadow stack, allocation that may collect, boxed
   values in C locals. Property: what an operation still reads has not been
   freed; the hazard at `jsrt_promise.c:367` is its first question.
2. Loops in `Lowering` and `Captures` with environments per iteration, which
   joins `Compile` to `EmittedControl`; then classes and their receivers.
3. Generators that re-enter themselves, composed with `MapWalk`, whose walks
   iterator objects hold open.
4. Smaller ones: the result buffer of the standard library, the write loop, the
   worker pool of the tests, aliased outputs.

Proofs: the jumps of `EmittedControl` that pass no finally, if its tree can be numbered so
that the recursion over it becomes one over the natural numbers.
