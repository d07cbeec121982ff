# A TLA+ model of the asterius runtime

asterius compiles Haskell to WebAssembly. What GHC's runtime does in C is done
here by a small runtime of JavaScript (`asterius/rts/*.mjs`), by Cmm primitives
taken from GHC and compiled by asterius (`ghc-toolkit/boot-libs/rts/*.cmm`), by
functions the compiler generates from Haskell descriptions
(`asterius/src/Asterius/Builtins*.hs`, `JSFFI.hs`), and by C code that is compiled
along with the libraries (`asterius/libc`, `boot-libs/base/cbits`,
`boot-libs/ghc-prim/cbits`, the headers under `ghc-libdir/include`). They agree on
protocols that no type checks: which thread may run and who wakes it, who owns a
thunk, what a collection keeps, what a handle of JavaScript denotes after it,
which bits of a word count. This directory models them, model-checks them with
TLC and proves what matters most with TLAPS.

Paths below are relative to `src/`; `rts/` is short for `asterius/rts/`, `Builtins`
for `asterius/src/Asterius/Builtins`, `include/` for `ghc-toolkit/ghc-libdir/include/`;
`PrimOps.cmm` and the other `.cmm` files are in `ghc-toolkit/boot-libs/rts/`.

## 1. Inventory

| component | state | operations | talks to | hard behaviours |
| --- | --- | --- | --- | --- |
| scheduler, `rts/rts.scheduler.mjs` | the map of thread records (`ffiRet`, `ffiRetErr`, `rstat`, `returnPromise`), `blockingPromise`, the event loop's immediates, timers and promise reactions | `newTSO`, `createThread`, `enqueueTSO`, `tick`, `returnedFromTSO`, `returnFFIPromise`, `submitCmdCreateThread` | everything that blocks or wakes a thread | interleaving of threads at every return; outcomes stored in one callback and used in another; stale `why_blocked` |
| thread primitives, `PrimOps.cmm`, `HeapStackCheck.cmm`, `StgStartup.cmm`, `Exception.cmm` | `StgTSO` fields, the stack | `fork#`, `yield#`, `delay#`, `threadStatus#`, `raise#`, failed heap and stack checks, the stop frame | scheduler (the `ret` register) | a return reason that disagrees with the thread's state |
| MVars, `PrimOps.cmm` 1461-1990 | value, linked list of blocked threads, frames on their stacks | `takeMVar#`, `putMVar#`, `readMVar#`, `tryTakeMVar#`, `tryPutMVar#` | `tryWakeupThread` of `Builtins.hs` | the waker performs the sleeper's operation by writing its stack; queue order |
| lazy evaluation, `Builtins/Blackhole.hs`, `Updates.cmm`, `StgMiscClosures.cmm`, `rts/rts.exception.mjs` | indirectees, blocking queues with messages, update frames | entering thunks and black holes, `newCAF`, `messageBlackHole`, `updateThunk`, `raiseExceptionHelper` | scheduler, collector | a thunk entered while another thread evaluates it; evaluations abandoned by exceptions |
| collector, `rts/rts.gc.mjs` | live and dead megablocks, blocks and objects to scavenge | `performGC`, `evacuateClosure`, `stingyEval`, `scavengeLoop` | allocator, tables, scheduler | closures added to blocks already walked; evaluation inside the collection; partial failure |
| heap allocator, `rts/rts.heapalloc.mjs`, `rts/rts.memory.mjs`, `include/rts/storage/Block.h` | megagroups, two pools, generations, block descriptors | `allocate`, `hpAlloc`, `setGenerationNo`, `handleLiveness` | collector | pools that name freed groups; large objects |
| tables, `rts/rts.jsval.mjs`, `rts.stableptr.mjs`, `rts.stablename.mjs`, `rts.exports.mjs`, `rts.mjs` | maps from addresses or numbers to values; callbacks | make, look up, free; call a callback; the oneshot finalizer | collector, which rewrites them | entries that move or merge; addresses kept over a collection; overlapping calls |
| boxed arrays, `Cmm.h`, `ClosureMacros.h`, `PrimOps.cmm` | elements and the card table behind them | new, clone, copy, freeze, thaw, compare-and-swap | collector | overlapping copies; the last card |
| lists of descriptors, `Block.h`; thread queues, `Schedule.h` | links and back links, heads, tails, a counter | insert, remove, replace; append, push, pop, truncate | allocator; scheduler | a node that keeps the links of the list it was on |
| atomics, barriers, locks: `ghc-prim/cbits/atomic.c`, `SMP.h`, `SMPClosureOps.h`, `SpinLock.h`, `Updates.h` | bytes shared by words of several sizes; info pointers as locks | fetch-and-modify, compare-and-swap; lock, unlock, update | threads of other builds, the library's primops | read-modify-write in two steps; reordered accesses |
| character tables, `WCsubst.c`, `rts/rts.unicode.mjs` | constant tables | category, predicates, case conversion, binary search | the library | four tables that must agree; an interval that is no index range |
| waiting for input, `inputReady.c` | the time that is left, the console's events | `fdReady` | the operating system | interruptions, cut waits, events that are no keys |
| text, `libc/text_cbits.c`, `unescape_string.c`; literate scripts, `app/unlit.c` | an automaton's state between chunks; jumps between labels; modes and line counts | decode, encode, unescape; filter | the library; the compiler driver | characters cut by chunks, surrogate pairs, one character of look-ahead |
| numbers, `primFloat.c`, `itoa.c`, `md5.c`, `ghc-prim/cbits/*.c` | words | predicates, rounding, printing, digests, bit counts and moves | the library | ties, carries, the smallest number, counts that wrap |
| JSFFI imports, polyfill, stack growth, linker, code generator, drivers, other headers, libraries | | | | section 7 |

What makes them correct:

- **scheduler, thread primitives**: exactly one thing will run a live thread again, nothing will run
  an ended one; the outcome of a foreign call reaches that call; a thread's
  promise is settled once, as the thread ended; the reason with which a thread
  returns is true of it; a ready thread runs.
- **MVars**: takes, puts and reads are atomic, waiting operations are served in
  order and exactly once, values are neither lost nor duplicated.
- **lazy evaluation**: a thunk is evaluated by one thread, is assigned once,
  everybody who waits for it is told, also when the evaluation is abandoned.
- **collector**: every pointer means after a collection what it meant before, no
  closure is copied twice, everything copied is scavenged.
- **allocator, arrays, tables**: objects keep bytes of their own, pools name
  groups that exist, garbage is freed; elements and values survive; a handle
  denotes one thing as long as it is held.
- **lists, queues, atomics, barriers**: links describe one sequence, concurrent
  calls are as if made one after the other, an observer never sees half of an update.
- **pure helpers**: the answer is the one the definition of the thing gives, at the
  boundaries of widths, chunks and tables too.

`PROJECT.json` lists the components, the hazards with their lines and, for every
definition of the modules, the lines it stands for.

## 2. The modules

| module | what it is |
| --- | --- |
| `Scheduler` | the scheduler and the primitives that return to it |
| `MVar` | the MVar primitives over `Scheduler` |
| `Threads` | their composition, its fairness, its properties, and how it implements `MVarSpec` |
| `MVarSpec` | what MVars promise, without stacks, ticks or queue cells |
| `MCThreads` | instances of `Threads` for TLC |
| `Thunks`, `MCThunks` | lazy evaluation over `Scheduler`; instances |
| `Collector`, `MCCollector` | evacuation, stingy evaluation and the scavenging loop; heaps to collect |
| `BlockLayout`, `HeapAlloc` | sizes and places in megablocks; the allocator, nurseries and the sweep |
| `Callbacks`, `StableNames` | JSVals, stable pointers and callbacks; stable names |
| `Arrays` | boxed arrays and their card tables on a memory of words |
| `BlockListSpec`, `BlockList` | sequences of descriptors; the doubly linked lists that implement them |
| `MCStorage` | the parts that keep data, side by side |
| `RunQueue` | the two thread queues of `Schedule.h` |
| `AtomicObject`, `AtomicBytes` | an atomic object; the functions of `atomic.c` that implement it |
| `Barriers` | memory accesses that cores reorder, barriers, closure locks, spin locks, updates |
| `UnicodeTables`, `Unicode`, `BlockSearch` | the tables of `WCsubst.c`; its functions; the search of `rts.unicode.mjs` |
| `FdReady` | `fdReady` against a clock, a descriptor and system calls |
| `Utf8`, `TextDecode`, `JsonString` | the automaton; chunked decoding and encoding; JSON strings |
| `Unlit` | the filter for literate scripts |
| `PrimFloat`, `Decimal`, `Md5`, `Bits` | rounding and predicates, number printing, streaming digests, bit operations |
| `MCLibrary` | the helpers side by side |
| `SchedulerProofs`, `ThreadsProofs`, `OutcomeProofs`, `ThunksProofs`, `StorageProofs`, `CollectorProofs`, `DataProofs`, `LibraryProofs` | theorems and lemmas, section 5 |

`Thunks` and `Threads` extend `Scheduler`; `AtomicBytes` and `BlockList` instantiate the abstract
modules they implement; `HeapAlloc` extends `BlockLayout`; `TextDecode` and `JsonString` extend
`Utf8`. Definitions whose comment begins with "A bug" are faulty variants of a
definition that follows them; no specification uses them. `PROJECT.json` says which
property notices which.

### Threads

The runtime has no run queue of its own. `enqueueTSO` calls `setImmediate`, so the
queue is the event loop's: `immediates` is that list, one thread identifier for
each registered tick. `sleeping` holds the threads whose `delay#` timer runs,
`awaiting[t]` the promise to which `returnedFromTSO` has attached reactions for
`t`. A promise is named after the thread whose call made it, so that a result
reaching the wrong thread is visible.

`control` says where the single JavaScript stack is: `"loop"` between callbacks,
`"wasm"` while the thread `running` executes under a tick, `"returned"` when it has
come back to `tick` with the reason `rRet` and `returnedFromTSO` is about to run.
The two are separate states because what `returnedFromTSO` reads (`ret`,
`why_blocked`, `blockingPromise`) was written by somebody else.

A stack is abstracted to the frame that will be entered next (`frame`, with `arg`
for the value word in it), because that is what wakers rewrite and what decides
what the thread does when it runs. In `Thunks` the update frames, which an
exception walks over, are kept as a sequence. `whatNext`, `whyBlocked`, `blockInfo`
are the fields of `StgTSO` and, as in the code, keep old values: nothing resets
`why_blocked` when a thread is woken. An MVar is `value` and `queue`; a reader is
pushed to the front of the queue as the code does. A thunk is `state`, `owner` (the
TSO the indirectee points to), and `msgs`, the message list of its blocking queue,
newest first. The collector's reentrancy guard is `gcGuard`.

One action stands for a maximal run of code between two points at which another
callback or another operation could come in between. `Tick` is `tick` up to the
entry of the thread; every primitive is one action, with the queue, the stack of
the thread it wakes, and the tick it registers; each case of `returnedFromTSO` is
one action, with `BackToLoop` for what they share. `SubmitCmdCreateThread` may
happen in the middle of a running thread, since a foreign import may call an
export. Timers and promise reactions are callbacks of their own. `Thunks` restricts
`Finish` to a stack without update frames, and lets `raise#` stop at any depth of
the stack: where the nearest `catch#` frame lies is the program's business.

### Storage

`Collector` is the recursion of `evacuateClosure` and `stingyEval` unrolled: `pc`, the
calls that wait (`inds` for `evacuateClosure`, `path` for the closures `stingyEval` has
whiteholed) and the two work lists of `scavengeLoop`. A step is a call, a return, or
the treatment of one pointer. A closure is a constructor, another closure with
pointers, a selector thunk or an indirection; an address holds one closure and
copies take the next address, so that a megablock is a number of closures and
"behind the scan pointer" is an order of addresses. The roots are one closure at
address 0. The collection reads its heap in `heap`, which no step changes: the
meaning of a pointer is what it leads to there, through indirections and
selections, and `MeaningKept` compares it with what the collection has made of it.

`HeapAlloc` keeps the descriptors of groups, the pools and what `aligned_alloc` has
given out, and leaves open which objects a collection reaches. `Arrays` is a memory
of words of which each knows whether it is a header, a number, an element or
cards, so that a card written over a header shows. `Callbacks` and `StableNames` have
the tables as functions from addresses or entries in order of insertion, as
JavaScript's maps have them. `BlockList` is the links of descriptors; the lists they
form are computed from them and compared with `BlockListSpec`.

### Library

`BlockSearch` is one call of the recursive search on arbitrary ascending blocks.
`Unicode` runs over the rows of the real tables, which `UnicodeTables` holds as they
are in the source. `AtomicBytes` splits each function into call, the read and the
swap that its loop takes without a builtin, and return, on bytes that words of
several sizes overlap. `Barriers` lets every core perform its accesses in any order
that the barriers between them do not forbid on its platform. `FdReady` has a clock
that runs between system calls, in units small enough that rounding to milli- and
microseconds shows. `TextDecode` feeds chunks that end anywhere; `JsonString` has a
label for each label of the C function; `Unlit` reads lines by kind. In `PrimFloat`,
`Decimal` and `Md5` the widths of fields and words are constants.

## 3. What each run checks

All properties are defined in the modules and explained there.

| run | instance | states | shows |
| --- | --- | --- | --- |
| `threads` | 3 threads, 1 MVar, 1 value, 1 truthy error | 1.1 million | `TypeOK`, `OneWayToRun`, `ReturnReasonTrue`, `OutcomeMeetsCall`, `BlockingPromiseOwned`, `SettledAsEnded`, `QueueDiscipline`, `WokenWithOpPerformed`, `SettledCallHasOutcome`, `EndIsFinal` |
| `mvars` | 3 threads, 1 MVar, 2 values | 0.5 million | `NoOvertaking`, and that the code implements `MVarSpec` |
| `two_mvars` | 2 threads, 2 MVars, 2 values, a truthy and a falsy error | | a thread waits for the MVar it blocked on and for no other; falsy errors break none of it |
| `liveness` | 2 threads, 1 MVar | | `ReadyThreadsRun` under `FairSpec` |
| `thunks` | 3 threads, 2 thunks, no collection | 1.8 million | `EvaluatorsHaveOneWay`, `EvaluatedByItsOwner`, `WaitersHaveAnEvaluator`, `AssignedOnceAndTold` |
| `thunks_gc` | 2 threads, 2 thunks, collections that fail, foreign errors | | `AssignedOnceAndTold` when foreign errors and failed collections are raised in the middle of an evaluation |
| `storage` | `MCStorage`: six parts, below | 0.7 million | `CollectionSound`, `CopiedOnce`, `OnlyPoolsLeft`, `TablesSound`, `PointersKept`, `HeapSound`, `NamesSound`, `BackLinks`, `ArraysSound`, `CollectionsKeep`, `ImplementsSequences` |
| `library` | `MCLibrary`: fifteen parts, below | 0.5 million | `RunQueueLinked`, `FoundIfInside`, `UnicodeSound`, `BarriersSound`, `FdSound`, `TextSound`, `UnlitSound`, `NumbersSound`, `ImplementsAtomicObject` |
| `falsy_error`, `thread_status`, `collection` | 1 or 2 threads | | findings 1 to 3 of section 6 |
| `left_block` | trees of 7 closures, 2 in a megablock | | finding 4 of section 6 |

### The composite runs

The parts of `storage` share no variables, and those of `library` do not call one
another. What they hand over lies inside the modules: `Collector` and `Callbacks`, for
example, each have the side of a collection that they see. A product of their state
spaces would say nothing more, so a behaviour chooses one part in its initial state
(`part`), takes steps of that part only, and leaves the variables of all others as
they are. The states are the sum of those of the parts; a property `part = "..." => P`
asks of a part what its module states.

| part | module and bounds | why they are enough |
| --- | --- | --- |
| `collection` | every tree of 6 closures, 2 in a megablock; every heap of 3 movable and 1 static closure with 0 or 2 pointers in which the first is a selector, up to numbering, evaluation not circular | three megablocks are filled, left and taken up again; indirections, selectors of selectors, shared and static closures meet in every order |
| `tables` | 3 addresses, 1 plain value, 2 functions, 2 callbacks, 2 stable pointers, 1 call at a time, 1 collection | an address is used again after it was free or a collection has moved what was there; two callbacks may be confused, and a JSVal with a callback; a oneshot callback's finalizer frees nothing, a plain value or another callback |
| `heap` | megablocks of 2 blocks, 6 of them, 2 objects of 3 or 5 bytes, where the first megablock has 4 | objects larger than a megablock, groups of two, fragmentation, a nursery that overflows |
| `names` | 3 objects of which 2 are selector thunks, 2 tags, 4 names | two table entries become one, a thunk selects another |
| `arrays` | 12 words, 2 arrays of at most 2 elements, a card for 2 elements, 1 collection | an array with a part of a card, neighbours in memory, copies that overlap |
| `lists` | 4 descriptors, 2 lists | first, middle and last in a list, another list |
| `queues` | 4 threads | first, middle, last, and one in the other queue |
| `atomics` | 2 threads, 2 bytes of 1 bit, words of 1 and 2 bytes, 2 calls, without builtins | the loops run, overlap, and fail once |
| `search` | 4 blocks, characters up to 6 | all ascending tables, characters inside blocks, between and beyond them |
| `characters` | all rows of the real tables | complete |
| `barriers` | five platforms, four pieces of code; 3 cores | section 6 says which pieces are left out on arm |
| `wait` | 6 kinds of descriptor, waits up to 2 units, system calls cut after 1 | a wait is cut, interrupted, resumed and rounded |
| `text`, `json` | 10 leading and continuing bytes, 5 in all, chunks of 2 and runs of 4 ASCII bytes; 7 bytes, 2 units | each class of byte of the automaton that differs; a whole surrogate pair |
| `unlit` | 3 lines of every kind, all options | a block, its surroundings and its end |
| `float`, `decimal`, `md5`, `bits`, `deposit` | fields of a few bits, integers of 8 and 10 bits; blocks of 4 words; the widths of the code for one-word bit functions | every value, in `md5` every cut of messages up to 75 bytes of 3 bits, over which the count's low word wraps |
| `layout` | blocks of 16, megablocks of 64, words of 2 | every address, number of blocks and number of words, each boundary of sizes |

### Bounds of the thread runs

`MaxThreads` bounds the number of threads ever created, not those alive at once.
Three is the least with which two threads wait on an object while a third serves
it, which is where queue order, overtaking and the choice of whom to wake matter;
a fourth would only lengthen queues. Two values tell an MVar that hands over the
wrong value from one that does not; two MVars tell waiting for one from waiting
for another; two thunks let an exception abandon two evaluations at once and let
two threads wait for each other's thunk. Nothing else is bounded: every thread
may run for ever, and the state space is finite because a thread is in at most
one place, which is the property `OneWayToRun`. The proofs of section 5 remove the
bounds for the properties they cover.

`Interchangeable` (permutations of MVars and values, or of thunks) is a sound
symmetry: no definition tells two of them apart, and no run with it checks a
liveness property. Threads are not symmetric, since identifiers are numbers.

`CHECK_DEADLOCK` is `FALSE` everywhere: the event loop may have nothing left to do,
because every thread has ended or is parked on an MVar nobody will serve, a
collection ends, a function returns. Where stopping early would be wrong a
property says so: `BarriersSound` contains that some core can go on until all are
done, and the functions of `bits` and `deposit` have answers only in final states.

### Fairness

`FairSpec` of `Threads` assumes what the event loop and the compiled code do:

- `Tick` and `ReturnedFromTSO` are weakly fair: the loop runs its immediates, and
  `returnedFromTSO` is plain JavaScript;
- a timer is strongly fair: the loop looks at due timers in each of its rounds, and
  no timer can fire while a tick is on the stack, so that it is enabled again and
  again rather than continuously;
- a thread that runs returns to the scheduler at its next failed heap check
  (`StopAndRequeue`), or raises if that is the next thing on its stack. Code that
  loops without allocating never returns: this is the one assumption about the
  compiled program, and the hazard list names it.

Nothing is assumed about foreign promises, nor about threads ever serving an MVar.
The composite runs assume no fairness: their properties are safety properties.

## 4. Refinement

- `MVarSpec` is MVars as a Haskell programmer knows them: a cell, a line of waiting
  takers or putters, a set of waiting readers, the value a waiting putter offers and
  the value a served thread has not yet picked up. `Threads` maps the code's state to
  it (`Promised`): the line is the queue behind its readers, an offer is the value word of a
  `stg_block_putmvar` frame, a value to pick up is the word of a `stg_ret_p` frame. TLC
  checks `ImplementsMVarSpec`: every step of the scheduler is a stutter or a
  `PickUp`, every step of an MVar operation is one step of the specification. A waiter
  served twice, a value lost between queue and stack, a retry of an operation
  already performed: each would be a step the specification does not have. It is also a
  theorem (`ThreadsImplementMVars`).
- `AtomicObject` performs a call in one step. `ImplementsAtomicObject` maps a call whose
  loop has read the word and is about to swap to one that has not been performed;
  the successful swap is the step that performs it. TLC checks it in `library`, and it is
  a theorem for any threads, calls and widths.
- `BlockListSpec` has a sequence for each list. `ImplementsSequences` maps the heads and
  links to the sequences they lead through; a list that became a cycle or ran into
  another would be longer than there are descriptors. It is also a theorem
  (`ListsImplementSequences`).

## 5. What is proved

| theorem | module | for every | states |
| --- | --- | --- | --- |
| `TypeCorrect` | `ThreadsProofs` | number of threads, sets of MVars, values, errors | `Spec => []TypeOK` |
| `NoWakeupLostOrDoubled` | `ThreadsProofs` | the same | `Spec => []OneWayToRun` |
| `ReasonsCanBeTrusted` | `ThreadsProofs` | the same | `Spec => []ReturnReasonTrue` |
| `PromiseSlotOwned` | `ThreadsProofs` | the same | `Spec => []BlockingPromiseOwned` |
| `PromisesSettledAsEnded` | `OutcomeProofs` | the same | `Spec => []SettledAsEnded` |
| `OutcomesMeetTheirCalls` | `OutcomeProofs` | the same | `Spec => []OutcomeMeetsCall` |
| `EndsAreFinal` | `OutcomeProofs` | the same | `Spec => EndIsFinal` |
| `QueuesAreDisciplined` | `OutcomeProofs` | the same | `Spec => []QueueDiscipline` |
| `OperationsArePerformed` | `OutcomeProofs` | the same | `Spec => []WokenWithOpPerformed` |
| `QueuesAreFair` | `OutcomeProofs` | the same | `Spec => NoOvertaking` |
| `SettledCallsHaveOutcomes` | `OutcomeProofs` | the same, all errors truthy | `Spec => []SettledCallHasOutcome` |
| `ThreadsImplementMVars` | `OutcomeProofs` | the same | `Spec => ImplementsMVarSpec` |
| `ThunkTypes` | `ThunksProofs` | number of threads, sets of thunks, values, errors | `Spec => []TypeOK` |
| `OwnersEvaluate` | `ThunksProofs` | the same | `Spec => []EvaluatedByItsOwner` |
| `WaitersAreServed` | `ThunksProofs` | the same | `Spec => []WaitersHaveAnEvaluator` |
| `EvaluatorsNeitherLostNorDoubled` | `ThunksProofs` | the same, no collection fails | `Spec => []EvaluatorsHaveOneWay` |
| `WaitersAreTold` | `ThunksProofs` | the same | `Spec => AssignedOnceAndTold` |
| `CopiedAtMostOnce` | `CollectorProofs` | heap, size of a megablock, depth of calls | no closure is copied twice |
| `CollectionsAreSound` | `CollectorProofs` | the same, heaps without circular evaluation | `Spec => []CollectionSound`: pointers and forwarding addresses mean what they meant, what is scavenged leads nowhere into from-space |
| `CallsAreFew` | `CollectorProofs` | heap, size of a megablock, depth of calls | `Spec => [](EvaluationEnds(heap) => NotThrown)`: in a heap whose evaluation ends within `MaxCalls` steps, `evacuateClosure` does not nest deeper than that |
| `LeftUnscavengedInPools` | `CollectorProofs` | the same | what a collection leaves unscavenged lies in blocks left while they were the pool |
| `StablePointersKept` | `StorageProofs` | number of callbacks, addresses, collections | a stable pointer leads to its function until it is freed |
| `CallbacksFreedTogether` | `StorageProofs` | the same | a callback that can be called has its stable pointer |
| `ValuesAreKept` | `StorageProofs` | the same | `CallbacksSpec => []TablesSound`: a JSVal that was not freed has its value, unless a oneshot callback older than a collection has freed it |
| `CallbacksFreedByTheirOwn` | `StorageProofs` | the same | a callback is freed through its own JSVal or by its own call, or by the call of a oneshot callback older than a collection that finds its JSVal at the old address |
| `OneshotsAreFreed` | `StorageProofs` | the same | a oneshot callback is freed by its call, unless a collection has come since it was made |
| `HeapKept` | `StorageProofs` | sizes of blocks, megablocks and objects, memory | `HeapSpec => []HeapSound`: objects lie apart in their groups, a collection frees none that is reached, the pools never name a freed group |
| `PinnedObjectsStay` | `StorageProofs` | the same | a pinned object keeps its place while it is reached |
| `BackLeadsBack` | `DataProofs` | set of descriptors, set of lists | `ListsSpec => []BackLinks`: the back link of a descriptor on a list is the one before it |
| `ListsImplementSequences` | `DataProofs` | the same | the operations on links implement insertion, replacement and removal on sequences that share no descriptor |
| `ArraysStaySound` | `DataProofs` | sizes of the memory, of a card and of a word | `ArraysSpec => []ArraysSound`: until a collection, arrays lie apart with their cards, have what was put into them, and a set card for each written element |
| `ArraysKeepElements` | `DataProofs` | the same | every collection moves an intact array with header, length and elements |
| `NamesAreSound` | `DataProofs` | sets of objects, selector thunks and tags, number of names | `NamesSpec => []NamesSound`: a table entry points to an object there is, each pointer has one, and its name was made for what has become this object |
| `NamesKept` | `DataProofs` | the same | an entry stays as it is unless a collection replaces its object or puts the object in the place of a thunk |
| `RunQueueIsLinked` | `LibraryProofs` | set of threads | the run queue is a doubly linked list, the counter its length |
| `BlockedQueueIsLinked` | `LibraryProofs` | the same | the other queue is a list |
| `AppendAssertionsHold` | `LibraryProofs` | the same | the assertions at the head of the append functions |
| `AtomicBytesAreAtomic` | `LibraryProofs` | threads, calls, sizes, builds | `AtomicBytes` implements `AtomicObject` |
| `SearchFindsInside` | `LibraryProofs` | table of ascending blocks, character | a character below the number of blocks is found if it is in one |
| `SearchAnswersRight` | `LibraryProofs` | the same | an answer names the character's block |
| `SearchIntervalShrinks` | `LibraryProofs` | the same | the interval shrinks and is never empty |
| `LiteratesAreFiltered` | `LibraryProofs` | length of the input, options | `UnlitSpec => []UnlitSound`: lines keep their numbers, but for one empty line that a `#` alone in the last line may leave at the end, the code and nothing else is copied, complaints are exactly those due, success means that blocks are closed |
| `WaitsAreAnswered` | `LibraryProofs` | kinds of descriptor, timeouts, units of time, widths | `FdSpec => []FdSound`: an answer 0 only after the whole wait and after a look that found no key, unless `select` waits in pieces, an answer 1 only for input |

The assumptions are those of the modules, each named and as weak as the proofs
need: for instance `SchedulerAssumption` (there is at least one thread identifier,
truthy values are values, `undefined` is not truthy), `MVarAssumption`,
`CollectorAssumption` (heaps are well formed, a megablock has room for a closure),
`EvaluationAssumption` (below, under Collector),
`CallbacksAssumption` (memory is finite, and new memory is not in use), `HeapAssumption` and
`LayoutAssumption` (blocks divide megablocks, descriptors take some of the blocks and not
all), `UnitsAssumption` (a millisecond is a whole number of microseconds, a second of
milliseconds), `ListsAssumption` (finitely many descriptors, and `NULL` is none),
`ArraysAssumption` (every word of the memory has an address), `SelectorsAssumption` (a selector thunk is an object, a pointer may have tag 0) and `UnlitAssumption`. TLC evaluates them in every run; those of modules that are
instantiated are collected in `StorageAssumption` and `LibraryAssumption`.

**Scheduling.** `SchedulerProofs` is about the steps of `Scheduler` alone, and
`ThreadsProofs` and `ThunksProofs` both use it. Which threads are blocked is not the
scheduler's business, so its invariant `WaysInv(B)` has the set `B` of blocked threads as a
parameter: a thread that is neither in `B`, nor ended, nor running has a tick, a timer or a
reaction (`NobodyLost(B)`), none has two, and none in `B` has one (`AtMostOneWay(B)`).
That is not inductive alone. When `returnedFromTSO` registers nothing for a thread, the
thread had better be in `B`; when it registers a tick, it had better not be: that depends
on `rRet` and `why_blocked` telling the truth (`ReasonsTrue(B)`). When it attaches reactions to
`blockingPromise`, there must be a promise in that slot, or the thread is lost
(`BlockingPromiseOwned`). There is one lemma for each group of steps: `LoopStepWays` (creating
threads, `tick`, the primitives that return, timers and reactions), `ReturnedWays`,
`BlockWays` for a thread that enters `B` and `WakeWays` for those that leave it.

**Threads.** The blocked threads are those in queues of MVars, and `Inv` of `ThreadsProofs`
is the type invariant with `OneWayToRun`, `ReturnReasonTrue` and `BlockingPromiseOwned`, which
are the parts above for that set. `TakeValueInv` and `PutValueInv` are about the head of the
queue that a take wakes and the prefix that a put wakes, and rest on lemmas about
queues without duplicates. `ReadersOfQueue` shows that the `CHOOSE` in `Readers` chooses something.

**Outcomes and queues.** `OutcomeProofs` builds on `Inv`: a step touches the running thread
and the threads it finds in some place, and `Inv` says that nobody else is there.
`OInv` adds what is missing for outcomes and ends. `CallOnItsWay`: a stack that expects the
result of a foreign call belongs to a thread whose call is made, awaited or answered,
so that `returnedFromTSO` attaches its reactions to the right promise and a timer never
wakes a thread into such a frame. `EndedCreated`: an identifier not yet given out has not
ended, so that creating a thread never revives one. `QInv` adds `QueueDiscipline` and
`WokenWithOpPerformed`, which are inductive together with it: `BlockedKept` says that the
scheduler leaves blocked threads alone, `TakeWakes`, `LeftByPut`, `PutWakes` and
`BlockedDiscipline` what takes, puts and blocking do to the order of a queue, and
`AheadKept` and `SuffixAhead` who is in front of whom afterwards. `SettledCallsHaveOutcomes`
has the assumption `Errors = Truthy`; without it the property is false (finding 1).

**MVars.** `ThreadsImplementMVars` takes `QInv` as it is: with it the refinement needs no
invariant of its own. What has to be shown is what each step does to the abstract
line, which is the queue behind its readers. `ReadersAreCounted` finds the number of
readers of a queue, `LineAfter` what the line is when one more thread is appended, a
reader put in front, or a head taken away, and `LineKept` and `OneLineChanged` leave the other
MVars alone. `TakeRefines` and `PutRefines` then map a take or a put, with the thread or
the prefix of readers it serves, to one step of `MVarSpec`; `WaitsInLine` and `WaitsToRead` map
blocking; `SchedRefines` maps every step of the scheduler to a stutter, except the tick of
a thread with a value to pick up, which is `PickUp`, and returns to a loop that
`RunningIdle` shows to change nothing abstract.

**Thunks.** `EvaluatedByItsOwner` and the others are proved from `Inv`: the type invariant, the
scheduling invariant for the set of threads in blocking queues, `MessagesApart` (a thread
waits for one thunk, once), `Ownership` (update frames stand on the stack of the owner of
their thunk, each once) and `WaitersEntered` (whoever has a message on a thunk will enter
that thunk when it runs). Ownership alone is not inductive: a thread that is woken enters
the thunk it waited for again, and only `WaitersEntered` says which one that is; only with
`MessagesApart` is a woken thread in no other queue. `updateThunk` and an exception that
unwinds several frames are the steps that disturb all parts at once. `EvaluatorsNeitherLostNorDoubled`
assumes that no collection fails: a collection that throws inside `returnedFromTSO` loses the
thread that returned, and the property is false (finding 3). The other four hold
without that assumption.

**Collector.** `OnlyPoolsLeft` speaks of the end of a collection. `WalkInv` says what is
true on the way: copies lie in blocks that have been announced or are the pool, the
block being walked is scavenged up to the current place (`WalkedSoFar`), and each
block has been left as the pool, waits, is being walked, is the unannounced pool, or
is completely scavenged (`Covered`). `CopiedOnce` needs `MemInv`: a closure that has
been copied is a forwarding pointer to its copy and nothing overwrites one, although
`stingyEval` writes indirections over closures all along its path; this holds because
the closures on the path are white holes, each once, and a copy never becomes one.

`CollectionSound` is about all pointers at all times, also in the middle of nested calls,
and needs three more invariants. `StaticOnce` and `PlacesOnce`: a closure that does not
move is in the work list or scavenged but not both, and an address of to-space is in one
place of one block, so that nothing is scavenged twice; a second time would hand
`evacuateClosure` pointers into to-space, as if they led into from-space. `KeptInv`
says what each closure is on the way. `Closures`: one that moves is as it was, or an
indirection or selector with a shorter way to the same meaning, or leads to its copy; in a
closure that is kept, the pointers before the scan place lead to to-space, the others still
to from-space, and all mean what they meant. `InHand`: what a call of `evacuateClosure`
has in hand, and every indirection that a caller is going to overwrite, means what
the pointer meant. `OnWay`: each closure on the path of `stingyEval` leads to the next.
`FollowKeeps`, `UnwindingKeeps` and `SelectingKeeps` are then about one step of evaluation each.

No proof unfolds the recursion in `Meaning`. All that they use is `LeadsOn`: an indirection means
what it points to, and a selector means the component of whatever constructor its argument means.
`EvaluationAssumption` says so of the heaps; TLC evaluates it for every heap of the run. It leaves
out heaps in which an indirection leads back to itself or two selectors wait for each
other: programs that evaluated them would not end, and a pointer into such a circle means none
of its members more than another. A pair that selects from itself, as in `TiedHeap`, is allowed.

`CallsAreFew` is the other way round about such pairs: it says how deep `evacuateClosure` nests in
the heaps that have none. `EvaluationEnds` asks for ranks up to `MaxCalls` that fall along every
indirection, and from a selector to its argument and to what it selects from any constructor
its argument means. Where there are such ranks, they keep falling although `stingyEval`
overwrites what they were given for. `LeadsDown`: a shortened indirection or selector leads to
something lower. `PathFalls`: along the path of `stingyEval`, each closure that waits is higher than all that
come after it and than what the evaluation is at; a selection keeps this because what is
selected is lower than the selector, whichever way the constructor was found. `CallsLeft`: the
rank of the argument and the calls that wait add up to no more than `MaxCalls`, so that there is
always room for one more. `HeapsAssumption` of `MCStorage` shows what the condition leaves out:
of the heaps of the run, exactly those in which a selector selects itself, which are ten of
2084. In these ten `NotThrown` holds too, because the selector's argument is an indirection and
not yet the pair, and is only model-checked; in `TiedHeap` it does not hold (section 6).

**Tables.** `PointersKept` is inductive only with `OneOwner`: a stable pointer belongs to
the program or to one callback, and numbers above `last` have never been used. `ValuesInv`
adds what the finalizer of a oneshot callback relies on, `OneshotsKnown`: the number that it
keeps was that of its callback's JSVal, and while it is in use no other value has it. A
collection that moves that JSVal breaks this (section 6), and nothing in the code forbids it.
So `OneshotsKnown` is about callbacks made since the last collection only, which `made`, a
history of each callback, tells (`Unmoved`); `StraysAreOld` says that a finalizer which finds another value
is that of an older one. What it then frees goes into the history `lost`, which the next
collection empties; `HistoryKept` and `LiveKept` keep everything outside `lost` as it was made. The
three theorems assume nothing of which closures move, and the exceptions that they state are
no wider than the code's: in the run `lost` is not empty at times, and a oneshot callback
does free another's.

**Heap.** `HeapInv` is about groups first. No two share a megablock (`GoodGroups`); an object
lies in one group, behind its descriptors (`AllPlaced`); objects do not overlap
(`AllApart`), for which a pool's free place must be behind all objects in its group. What a
collection needs is in `PhaseInv`. `bdescr` finds the descriptor of the object's own group or
none (`GroupOfAddress`). `Noted` relates what has been reached to what has been noted: the
megablocks noted live or dead are in use, what is noted dead is not pinned, not noted live and
not the pool that objects are copied to, no object that is still to be copied lies in a live
group, and a reached object's group is noted live or `handleLiveness` is going to throw
because `bdescr` found no descriptor behind the first megablock. Then `Swept` frees
nothing that was reached, and the pools it leaves are among the groups it keeps.

**Queues.** `QueueInv` gives for both queues the sequence, its links and back links, and
that a thread in none has the null pointer in `_link`, on which the append
functions rely; the sequences are history variables of the specification.

**Lists of descriptors.** The refinement is about what `From` follows, a recursive function. No
induction is needed for it: that two functions agree is shown by the least number at which they
would not (`LeastNumber`). `FromIsList` says so of a list that is known, and `ListsInv` that every
head is that of a known list: `IsList` for each list with its sequence, no descriptor twice, and
none on two lists. Nothing is said of the links of loose descriptors, which are stale. Each
operation has a lemma of one list (`PushedList`, `RemovedList`, `InsertedList`, `ReplacedList`);
`OneListChanged` carries the others through, since what an operation writes is on its own list or
loose.

**Arrays.** What holds always and what ends with a collection are two things. `Headers` holds
always: each array has its header, its length and its elements in words of its own. The card tables
are between the arrays too (`Undisturbed`) until a collection copies arrays without them; from then
on a card that is set may be a word of the next array, which is why `ArraysSound` stops there and
`ArraysKeepElements` is about each array that is still intact. The arithmetic is nonlinear in the
size of a card and of a word: `CardOfElement` (the card of an element is one of the
cards, and its byte in one of their words), `MemsetCards` and `CardRange` (`setCards` reaches exactly the
cards of the elements written), `NoWrap` (no sum leaves the width of a word). `CopiedElements` has
both ways of copying, and why `memcpy` needs two arrays; `ReplaceKeeps` puts what is common to
all operations in one place. The places of a collection are a recursive function again:
`PlacesExist`, and `PlacesOrdered`, by which no place is above the old one.

**Stable names.** `stingyEval` and the object that a thunk has become are recursive functions over
data that could be circular, and a recursive function on a circle says nothing. That there is no
circle is the heart of the invariant: `NamesShape` has a rank of the objects by which every
component a thunk selects, and every pointer that has replaced a thunk, lies lower (`RankedBy`).
Evaluating a pair puts an end of chains below everything; a collection changes no rank.
`FollowExists` and `FollowEnds` say for any such relation that the function that follows it exists
and ends at something not replaced, by the least rank at which it would not. `NowLater`: what an
object is after further replacements is what its earlier stand-in is then. `TableSoFar` holds
after each entry of the table that a collection writes: one entry for a pointer, each from an old
entry whose object has become its own, and those that nothing else meets (`Alone`) as they were.
Which of two entries that meet survives is another matter: `SameNameAfterGC`, section 6.

**Search.** `BlockInInterval` says that halving keeps the block inside the interval; it
rests on `BlocksBeginLate`, that block *i* begins at character *i* or later, which is
why the interval from 0 to the character is wide enough below the number of
blocks and not above (section 6).

**Literate scripts.** The loops of `unlit` know only the line before; what the author means
depends on all lines. `ModeInv` connects the two: which of the two loops runs is
whether a `\begin{code}` is open, `this` is the last line as it stands outside the blocks, the
counter of lines is their number, and a count of code lines is never without such a line. It
holds until the first place where the reading goes astray (`Mistaken`), and
`GoesAstray` shows that a lonely `#` is one. `CodeInv` and `ComplaintsInv` say what
`CodeCopied` and `ComplaintsFit` say, line by line; `LineAdded`, `CodeAdded`, `NumbersAdded` and
`ComplaintsAdded` say what one more line changes in the meaning, the output and the complaints.

**Waiting.** `FdInv` adds to `FdSound` where the time is kept. `TimeKept`: before a
system call, `endTime` is not beyond now plus `remaining`; in the last call, whose timeout is not
cut to the widest that the call takes, it is not beyond the instant of waking, up to the slack of
`select`. That needs the rounding of three conversions: `RoundUpMSIsUp` (never less than the
time, by less than a millisecond more), `SelectSleeps` (a timeval loses less than a
microsecond) and `SleepsLongEnough` for all kinds, on lemmas about nested quotients.
`KeysKept` follows the console's records between the peek and the read. The sets of `select` are
empty only after a call that timed out and did not answer, which takes a finite wait longer
than `INT_MAX` milliseconds (`InPieces`): a wait without an end never times out.

Every safety and action property of `Threads` and `Thunks` that a passing run checks, and
the refinement of `MVarSpec`, is proved.
So are the parts of the storage for the collection, the tables and the heap, and of the library
the queues, the search, the atomics, the filter and the wait.
So are both refinements, and the properties of arrays, descriptor lists and stable names.
Only model-checked: `NotThrown`, a part of `CollectionsKeep`, where a selector selects itself, and what is
left of `library`. `BarriersSound` and `UnicodeSound` have
no constant that matters: their parts are finite, and TLC goes through all of them. Out of the
prover's reach and left to TLC for good: `ReadyThreadsRun` (liveness under fairness), and what
the definitions of the decoders and of `Unicode` compute that are declared `RECURSIVE`. That the small
heaps have `LeadsOn`, the printers, the digests and the bit functions are not attempted.

## 6. Findings and observations

### Findings

Each is a run that TLC ends with a counterexample.

1. `falsy_error`: `tick` raises an error only `if (tso_info.ffiRetErr)`. A promise that
   rejects, or an import that throws, with `undefined`, `null`, `0`, `NaN`, `false` or `""` leaves
   neither a result nor an exception, and the thread goes on with whatever its
   result register holds. `docs/jsffi.md` promises a `JSException`.
2. `thread_status`: nothing resets `why_blocked` when a thread is woken, so `threadStatus#`
   reports a thread as blocked for ever after its first wait. For the same reason the
   assertion at the head of `delay#` (`Threads.DelayedWhenNotBlocked`) is false for a thread
   that has waited before; assertions are compiled out.
3. `collection`: `evacuateClosure` has no case for `BLOCKING_QUEUE`. When a thread waits
   for a black hole, a collection throws inside `returnedFromTSO` before the thread
   that returned is registered again, and leaves the collector's guard held.
4. `left_block`: `scavengeLoop` leaves a block as completely processed when another waits,
   also when it is the pool that closures are still copied to. Those added later are
   never scavenged: `copyClosure` announces a block only with its first closure. Their
   pointers lead into the megablocks that are freed. It takes live closures of more
   than one megablock. `LeftUnscavengedInPools` proves that this is the only gap.

### Observations

The modules also state what comments and documents say where the code does
something else, or where a precondition is easily missed. The runs of section 3 are
about what holds; the constants named here, with the module's own `Spec`, show these.

| property | what happens | to see it |
| --- | --- | --- |
| `Callbacks.OneshotsFreeThemselves` | the finalizer of a oneshot callback keeps the address of its JSVal (`rts.mjs:215`); after a collection it frees nothing, or another JSVal that has taken the address, with that one's callback | the constants of `storage` |
| `Callbacks.CollectionsSucceed` | a JSVal that was freed and is still reachable makes `getJSValzh` throw in the middle of a collection (`rts.gc.mjs:367`) | `Keeps = {TRUE, FALSE}` |
| `StableNames.EqualNamesSameObject` | a collection that merges two table entries shrinks the map, and the next name gets the number of an older one (`rts.stablename.mjs:18`) | 2 objects beside 2 selectors, 4 names |
| `StableNames.SameNameAfterGC` | of two entries that become one the later overwrites the earlier (`rts.gc.mjs:1060`) | the same |
| `Arrays.ArraysIntact` after a collection | the card table is not copied (`rts.gc.mjs:439`); a later copy or compare-and-swap stores a card into the header of the next object | `MaxCollections = 1` |
| `HeapAlloc.DescriptorFound` | behind a pinned object larger than a megablock the rest of its last one serves other pinned objects, where `bdescr` (`rts.gc.mjs:15`) finds bytes of the large object | sizes 3 and 5 |
| `Collector.NotThrown` on circular selections | of a pair `p = (fst p, snd p)` whose first component was not evaluated, `stingyEval` makes the selector an indirection to itself, and `evacuateClosure` calls itself until JavaScript gives up | `Heaps <- TiedHeap` |
| `BlockSearch.FoundIfThere` | for characters above the number of blocks the interval reaches beyond the arrays and the search gives up (`rts.unicode.mjs:30`): with the 3009 blocks of the file, from U+1781 on | 3 blocks, characters up to 7 |
| `Barriers.SectionsIsolated` on arm | `write_barrier` is `dmb st`: a load of a critical section may pass the store that unlocks (`SMP.h:252` says the barriers suffice) | the locks on arm |
| `Barriers.LoadLoadSeparates` | `SMP.h:85` says that stores come before later loads; the barrier keeps loads in order only | `load_load` on x86 or powerpc |
| `FdReady.SyscallSpansEndTime` | the timeval of `select` is rounded down to microseconds (`inputReady.c:89`) | `select` |
| `FdReady.NeverWaitsForever` | a remaining time between INFINITE - 1 and INFINITE is rounded up to INFINITE (`inputReady.c:130`) | `default`, `IntMax = 2` |
| `FdReady.PeekFailureFallsThrough` | after an error of `PeekNamedPipe` nothing leaves the loop (`inputReady.c:418`, comment at 449) | `pipe` |
| `FdReady.WatchesWhileItWaits`, `FdReady.NoNewData` | `select` empties its sets on a timeout and they are not filled again (`inputReady.c:288`): a wait longer than `INT_MAX` milliseconds looks at the descriptor in its first piece only, and answers 0 with a key waiting (298-299) | `select`, `IntMax = 1`, waits of 2, `Horizon = 11` |
| `TextDecode.RejectPointsAtInvalid` | the pointer is the end of the last character of this chunk, although the ill-formed one may have begun in an earlier chunk (`text_cbits.c:121`, 144) | chunks of 2 |
| `Unlit.TextIsReplaced` | for a line that is `#` alone the character read ahead is its newline, and the next line is copied whatever it is (`unlit.c:192`) | 4 lines |
| `Unlit.NoLineAdded` | if that line is the last one, its newline is written and then another for the end of the input, two lines for one (`unlit.c:191-198`) | `ignore_shebang`, 1 line |
| `Unlit.RemovedLinesCrunched` | the newlines for a shebang line and for `\end{code}` are written whatever `crunchnl` is (`unlit.c:80`, 277, 301) | 4 lines |
| `Decimal.StaysInBuffer` with `NarrowSpec` | the comment says numbers of 31 bits are smaller than 10^9 (`itoa.c:137`); from 10^9 on a digit is written in front of the buffer | `NarrowSpec` |
| `Md5.CountHighFirst` | the count is stored low word first, as MD5 has it; the comment says the opposite (`md5.c:102`, 127) | any |

`rts.gc.mjs` has two places that the models do not reach, since they leave layouts out:
`AP_STACK` is scavenged up to its number of words taken as bytes (911-916), and bits
of a stack bitmap are converted to a floating-point number before they are tested
(484-502), which loses the lowest bit when higher ones lie more than 53 places above it.

## 7. What is not modelled, and why

- Asynchronous exceptions, masking and STM: this runtime has no implementation of
  `throwTo` behind the primitive.
- Marshalling and result types of foreign calls, and the conversions around
  `rts_apply`: data that no property tells apart. An import with several results makes
  `tick` throw; the compiler rejects it.
- Layouts in the collector: bitmaps, stack frames, info tables with SRTs and CAF
  lists, weak pointers, the remembered set of a minor collection. They decide which
  words are pointers; that a pointer keeps its meaning, once it is one, is modelled.
- Loads and stores of `rts/rts.memory.mjs`, the copying of Latin-1 and of memory in
  `text_cbits.c`, `atomic_inc`/`atomic_dec`, small arrays: single elements, no order.
- The block function of MD5 is external: the properties do not depend on what it
  computes.
- `rts/rts.setimmediate.mjs`: a vendored polyfill for hosts without `setImmediate`.
  `Scheduler` assumes the host's own order, first in, first out; the polyfill puts off by
  `setTimeout` a task that is due while another runs, which may then be overtaken.
- The linker (`Passes/GCSections.hs`, `Resolve.hs`, `Ld.hs`): a pure fold over symbol maps
  that is reachability by definition.
- Stack growth: a copy of a block of memory, whose effect on scheduling is part of
  `RequeueReturned`.
- The code generator, the WebAssembly back end, and the drivers: translations
  and input/output, without a state that interleavings could break. The Template
  Haskell runner drives a process by GHC's protocol.
- GHC's remaining headers and constants (`Stg.h`, `MachRegs.h`, `Trace.h`, `HsBase.h`,
  `ghc_constants.c`, the rest of `Cmm.h` and `ClosureMacros.h`): declarations, register
  assignments and wrappers of single calls.
- Float, integer, time, tracing and message helpers: stateless.
- The map of threads never shrinks: a thread that has ended stays a root of the
  collector. There is nothing the code promises about it.
- GHC's libraries above the primitives: vendored, and not specific to this runtime.

## 8. What could follow

1. The remembered set of minor collections over `Collector`: what old objects point to is kept.
2. Proofs for the layout of blocks and for what else is left of `library`.

## 9. Running it

    tlc -workers 2 -config Threads.cfg MCThreads.tla     # and the other .cfg files
    tlc -workers 2 -config Storage.cfg MCStorage.tla
    tlc -workers 2 -config Library.cfg MCLibrary.tla
    tlapm ThreadsProofs.tla                              # and the other *Proofs.tla

`PROJECT.json` says which configuration belongs to which module. The longest runs
take two to three minutes on two cores, the proofs some minutes together.
