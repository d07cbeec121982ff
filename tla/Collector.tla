------------------------------ MODULE Collector ------------------------------
(***************************************************************************)
(* The copying collection of rts.gc.mjs: evacuateClosure copies what a     *)
(* pointer leads to, stingyEval shortens indirections and selector thunks  *)
(* on the way, and scavengeLoop walks what was copied, megablock by        *)
(* megablock, until nothing is left.  Calls are made one after the other   *)
(* by one thread; each step of the specification is a call, a return or    *)
(* the treatment of one pointer.                                           *)
(*                                                                         *)
(* An address has a closure; the addresses from-space has are small, a     *)
(* copy takes the next one.  A megablock holds a number of closures.  The  *)
(* roots, which are in threads and tables, are the pointers of one closure *)
(* at address 0.                                                           *)
(***************************************************************************)
EXTENDS Integers, Sequences, FiniteSets

CONSTANTS
  Dynamic,       \* the addresses of from-space
  NonMoved,      \* the static and the pinned closures
  Limit,         \* the last address there is before the collection
  Heaps,         \* the heaps a collection may start with
  BlockClosures, \* how many closures fill a megablock
  MaxCalls       \* how deep calls of evacuateClosure nest before JavaScript gives up

Start == {0} \cup Dynamic \cup NonMoved
\* CON: a constructor; ARR: any other closure with pointers; SEL: a selector thunk;
\* IND: an indirection.  The others stand for headers a collection writes.
Closure(A) == [type : {"CON", "ARR", "SEL", "IND", "WHITEHOLE", "FORWARD"}, ptrs : Seq(A), offset : Nat]

WellFormed(h) ==
  /\ h \in [Start -> Closure(Dynamic \cup NonMoved)]
  /\ h[0].type = "ARR"
  /\ \A a \in NonMoved : \/ h[a].type = "ARR"
                         \/ h[a].type = "CON" /\ h[a].ptrs \in Seq(NonMoved)
  /\ \A a \in Dynamic : \/ h[a].type \in {"CON", "ARR"}
                        \/ h[a].type \in {"IND", "SEL"} /\ Len(h[a].ptrs) = 1

\* What a pointer to a closure of a heap means: where the indirections and the
\* selections lead.
Meaning(h, a) ==
  LET follow[b \in Start, seen \in SUBSET Start] ==
        IF b \in seen THEN b
        ELSE CASE h[b].type = "IND" -> follow[h[b].ptrs[1], seen \cup {b}]
               [] h[b].type = "SEL" ->
                    LET p == follow[h[b].ptrs[1], seen \cup {b}]
                    IN  IF h[p].type = "CON" /\ h[b].offset < Len(h[p].ptrs)
                        THEN follow[h[p].ptrs[h[b].offset + 1], seen \cup {b}] ELSE b
               [] OTHER -> b
  IN  follow[a, {}]

Constructed(h, p, b) ==
  /\ h[p].type = "CON" /\ h[b].offset < Len(h[p].ptrs)
  /\ Meaning(h, p) = Meaning(h, h[b].ptrs[1])

\* No indirection leads back to itself: each means what it leads to, and a selector
\* thunk what it selects from a constructor that its argument means.
LeadsOn(h) ==
  \A b \in Start :
    /\ h[b].type = "IND" => Meaning(h, b) = Meaning(h, h[b].ptrs[1])
    /\ h[b].type = "SEL" =>
         \A p \in Start : Constructed(h, p, b) => Meaning(h, b) = Meaning(h, h[p].ptrs[h[b].offset + 1])

\* Evaluation ends: what stingyEval goes on to has a smaller rank, and no rank is greater
\* than the number of calls there may be.
RankFits(rank, h) ==
  /\ rank \in [Start -> 0 .. MaxCalls]
  /\ \A b \in Start :
       /\ h[b].type \in {"IND", "SEL"} => rank[h[b].ptrs[1]] < rank[b]
       /\ h[b].type = "SEL" =>
            \A p \in Start : Constructed(h, p, b) => rank[h[p].ptrs[h[b].offset + 1]] < rank[b]

EvaluationEnds(h) == \E rank \in [Start -> 0 .. MaxCalls] : RankFits(rank, h)

ASSUME CollectorAssumption ==
  /\ Limit \in Nat /\ Dynamic \cup NonMoved \subseteq 1..Limit /\ Dynamic \cap NonMoved = {}
  /\ BlockClosures \in Nat \ {0} /\ MaxCalls \in Nat
  /\ \A h \in Heaps : WellFormed(h)

ASSUME EvaluationAssumption == \A h \in Heaps : LeadsOn(h)

VARIABLES
  heap,             \* what there was when the collection began
  mem,              \* address -> closure
  free,             \* the next address of to-space
  origin,           \* copy -> what it is a copy of
  blocks,           \* the megablocks of to-space: their closures, the last is the pool
  liveMBlocks, blocksToScavenge,
  nonMovedObjects, nonMovedObjectsToScavenge,
  currentBlock, currentObject,  \* 0: undefined; the place of a closure in its block
  scavenged,        \* the closures that have been scavenged
  poolsLeft,        \* the blocks that were the pool when scavengeLoop left them
  pc,
  x, i,             \* the closure being scavenged and the pointer of it
  c,                \* the argument, later the result of evacuateClosure
  inds,             \* calls of evacuateClosure that wait: the indirections they are for
  e, type,          \* the argument or the result of stingyEval, and its type
  path              \* calls of stingyEval that wait: the closures they have whiteholed

loopVars == <<liveMBlocks, blocksToScavenge, nonMovedObjects, nonMovedObjectsToScavenge, blocks, free, origin>>
walkVars == <<currentBlock, currentObject, scavenged, poolsLeft, x, i>>
evalVars == <<e, type, path>>
vars == <<heap, mem, loopVars, walkVars, pc, c, inds, evalVars>>

Last(s) == s[Len(s)]
Front(s) == SubSeq(s, 1, Len(s) - 1)
With(f, a, v) == [y \in DOMAIN f \cup {a} |-> IF y = a THEN v ELSE f[y]]
Ind(a) == [type |-> "IND", ptrs |-> <<a>>, offset |-> 0]
Forward(a) == [type |-> "FORWARD", ptrs |-> <<a>>, offset |-> 0]
----------------------------------------------------------------------------
\* performGC evacuates the roots first; setGenerationNo has made an empty pool.
Init ==
  /\ heap \in Heaps /\ mem = heap
  /\ free = Limit + 1 /\ origin = <<>> /\ blocks = << <<>> >>
  /\ liveMBlocks = {} /\ blocksToScavenge = <<>>
  /\ nonMovedObjects = {} /\ nonMovedObjectsToScavenge = <<>>
  /\ currentBlock = 0 /\ currentObject = 0 /\ scavenged = {} /\ poolsLeft = {}
  /\ pc = "pointer" /\ x = 0 /\ i = 1
  /\ c = 0 /\ inds = <<>> /\ e = 0 /\ type = "" /\ path = <<>>

morePointers(y, k) == k <= Len(mem[y].ptrs)

\* scavengeClosure passes the pointers of its closure to evacuateClosure, in order.
ScavengePointer ==
  /\ pc = "pointer" /\ morePointers(x, i)
  /\ c' = mem[x].ptrs[i] /\ pc' = "evacuate"
  /\ UNCHANGED <<heap, mem, loopVars, walkVars, inds, evalVars>>

Scavenged ==
  /\ pc = "pointer" /\ ~morePointers(x, i)
  /\ scavenged' = scavenged \cup {x}
  /\ IF x \in {0} \cup NonMoved
     THEN pc' = (IF x = 0 THEN "loop" ELSE "nonmoved") /\ UNCHANGED currentObject
     ELSE pc' = "loop" /\ currentObject' = currentObject + 1
  /\ UNCHANGED <<heap, mem, loopVars, currentBlock, poolsLeft, x, i, c, inds, evalVars>>
----------------------------------------------------------------------------
\* evacuateClosure has its result when the closure has been moved, or never will be.
EvacuatedBefore ==
  /\ pc = "evacuate" /\ mem[c].type = "FORWARD"
  /\ c' = mem[c].ptrs[1] /\ pc' = "return"
  /\ UNCHANGED <<heap, mem, loopVars, walkVars, inds, evalVars>>

EvacuateNonMoved ==
  /\ pc = "evacuate" /\ mem[c].type # "FORWARD" /\ c \in NonMoved
  /\ IF c \in nonMovedObjects
     THEN UNCHANGED <<nonMovedObjects, nonMovedObjectsToScavenge>>
     ELSE /\ nonMovedObjects' = nonMovedObjects \cup {c}
          /\ nonMovedObjectsToScavenge' = Append(nonMovedObjectsToScavenge, c)
  /\ pc' = "return"
  /\ UNCHANGED <<heap, mem, free, origin, blocks, liveMBlocks, blocksToScavenge, walkVars, c, inds, evalVars>>

Moves == pc = "evacuate" /\ mem[c].type # "FORWARD" /\ c \notin NonMoved

StingyEval ==
  /\ Moves /\ mem[c].type \in {"IND", "SEL"}
  /\ e' = c /\ pc' = "eval"
  /\ UNCHANGED <<heap, mem, loopVars, walkVars, c, inds, type, path>>

\* A bug: a block is not pushed while others wait.
pushOnlyOne(b) ==
  IF b \in liveMBlocks \/ blocksToScavenge # <<>> THEN liveMBlocks' = liveMBlocks \cup {b} /\ UNCHANGED blocksToScavenge
  ELSE blocksToScavenge' = Append(blocksToScavenge, b) /\ liveMBlocks' = liveMBlocks \cup {b}

\* The first closure copied into a block makes it one that has to be scavenged.
pushBlock(b) ==
  IF b \in liveMBlocks THEN UNCHANGED <<liveMBlocks, blocksToScavenge>>
  ELSE blocksToScavenge' = Append(blocksToScavenge, b) /\ liveMBlocks' = liveMBlocks \cup {b}

\* heapAlloc.allocate takes a new megablock when the pool is full.
allocateCopy(dest) ==
  IF Len(Last(blocks)) < BlockClosures
  THEN [blocks EXCEPT ![Len(blocks)] = Append(@, dest)]
  ELSE Append(blocks, <<dest>>)

\* A bug: the header keeps its info pointer.
infoKept(m, a, dest) == m

\* The header becomes the address of the copy.
forwarded(m, a, dest) == [m EXCEPT ![a] = Forward(dest)]

copyClosure(a) ==
  /\ blocks' = allocateCopy(free) /\ free' = free + 1
  /\ pushBlock(Len(blocks'))
  /\ origin' = With(origin, free, a)
  /\ mem' = forwarded(With(mem, free, mem[a]), a, free)
  /\ c' = free

Copy ==
  /\ Moves /\ mem[c].type \in {"CON", "ARR"}
  /\ copyClosure(c)
  /\ pc' = "return"
  /\ UNCHANGED <<heap, nonMovedObjects, nonMovedObjectsToScavenge, walkVars, inds, evalVars>>

\* An indirection has become what it leads to.
ReturnToIndirection ==
  /\ pc = "return" /\ inds # <<>>
  /\ mem' = [mem EXCEPT ![Last(inds)] = Forward(c)]
  /\ inds' = Front(inds)
  /\ UNCHANGED <<heap, loopVars, walkVars, pc, c, evalVars>>

ReturnToScavenge ==
  /\ pc = "return" /\ inds = <<>>
  /\ mem' = [mem EXCEPT ![x].ptrs[i] = c]
  /\ i' = i + 1 /\ pc' = "pointer"
  /\ UNCHANGED <<heap, loopVars, currentBlock, currentObject, scavenged, poolsLeft, x, c, inds, evalVars>>
----------------------------------------------------------------------------
\* stingyEval whiteholes an indirection and follows it, and a selector thunk and
\* follows the closure it selects from.
Follow ==
  /\ pc = "eval" /\ mem[e].type \in {"IND", "SEL"}
  /\ path' = Append(path, [at |-> e, type |-> mem[e].type, offset |-> mem[e].offset])
  /\ mem' = [mem EXCEPT ![e].type = "WHITEHOLE"]
  /\ e' = mem[e].ptrs[1]
  /\ UNCHANGED <<heap, loopVars, walkVars, pc, c, inds, type>>

FollowNoFurther ==
  /\ pc = "eval" /\ mem[e].type \notin {"IND", "SEL"}
  /\ type' = mem[e].type /\ pc' = "unwind"
  /\ UNCHANGED <<heap, mem, loopVars, walkVars, c, inds, e, path>>

\* The indirection leads to the result of the call.
leadsTo(a, r) == [mem EXCEPT ![a] = Ind(r)]

UnwindIndirection ==
  /\ pc = "unwind" /\ path # <<>> /\ Last(path).type = "IND"
  /\ mem' = leadsTo(Last(path).at, e)
  /\ type' = "IND" /\ path' = Front(path)
  /\ UNCHANGED <<heap, loopVars, walkVars, pc, c, inds, e>>

Selects(r) == type = "CON" /\ Last(path).offset < Len(mem[r].ptrs)

\* A bug: the neighbour is selected.
selectNext(r) == mem[r].ptrs[((Last(path).offset + 1) % Len(mem[r].ptrs)) + 1]

select(r) == mem[r].ptrs[Last(path).offset + 1]

\* The thunk becomes an indirection to the pointer it selects.
UnwindSelection ==
  /\ pc = "unwind" /\ path # <<>> /\ Last(path).type = "SEL" /\ Selects(e)
  /\ path' = Append(Front(path), [Last(path) EXCEPT !.type = "IND"])
  /\ e' = select(e) /\ pc' = "eval"
  /\ UNCHANGED <<heap, mem, loopVars, walkVars, c, inds, type>>

\* There is nothing yet to select from.
UnwindSelector ==
  /\ pc = "unwind" /\ path # <<>> /\ Last(path).type = "SEL" /\ ~Selects(e)
  /\ mem' = [mem EXCEPT ![Last(path).at] = [type |-> "SEL", ptrs |-> <<e>>, offset |-> Last(path).offset]]
  /\ e' = Last(path).at /\ type' = "SEL" /\ path' = Front(path)
  /\ UNCHANGED <<heap, loopVars, walkVars, pc, c, inds>>

\* Back in evacuateClosure: a selector thunk is copied, and for an indirection
\* evacuateClosure calls itself.
EvaluatedToSelector ==
  /\ pc = "unwind" /\ path = <<>> /\ type = "SEL"
  /\ copyClosure(c)
  /\ pc' = "return"
  /\ UNCHANGED <<heap, nonMovedObjects, nonMovedObjectsToScavenge, walkVars, inds, evalVars>>

EvaluatedToIndirection ==
  /\ pc = "unwind" /\ path = <<>> /\ type = "IND"
  /\ IF Len(inds) < MaxCalls
     THEN inds' = Append(inds, c) /\ c' = mem[c].ptrs[1] /\ pc' = "evacuate"
     ELSE pc' = "thrown" /\ UNCHANGED <<inds, c>>
  /\ UNCHANGED <<heap, mem, loopVars, walkVars, evalVars>>
----------------------------------------------------------------------------
AtLimit == IF currentBlock = 0 THEN TRUE ELSE currentObject > Len(blocks[currentBlock])

pop == currentBlock' = Last(blocksToScavenge) /\ blocksToScavenge' = Front(blocksToScavenge)

\* scavengeLoop goes on with another block when it has reached the end of one.
NextBlock ==
  /\ pc = "loop" /\ AtLimit /\ blocksToScavenge # <<>>
  /\ pop /\ currentObject' = 1
  /\ poolsLeft' = poolsLeft \cup ({currentBlock} \cap {Len(blocks)})
  /\ UNCHANGED <<heap, mem, liveMBlocks, nonMovedObjects, nonMovedObjectsToScavenge, blocks, free, origin,
                 scavenged, pc, x, i, c, inds, evalVars>>

ScavengeCopy ==
  /\ pc = "loop" /\ ~AtLimit
  /\ x' = blocks[currentBlock][currentObject] /\ i' = 1 /\ pc' = "pointer"
  /\ UNCHANGED <<heap, mem, loopVars, currentBlock, currentObject, scavenged, poolsLeft, c, inds, evalVars>>

ToNonMoved ==
  /\ pc = "loop" /\ AtLimit /\ blocksToScavenge = <<>> /\ nonMovedObjectsToScavenge # <<>>
  /\ pc' = "nonmoved"
  /\ UNCHANGED <<heap, mem, loopVars, walkVars, c, inds, evalVars>>

ScavengeNonMoved ==
  /\ pc = "nonmoved" /\ nonMovedObjectsToScavenge # <<>>
  /\ x' = Last(nonMovedObjectsToScavenge) /\ i' = 1 /\ pc' = "pointer"
  /\ nonMovedObjectsToScavenge' = Front(nonMovedObjectsToScavenge)
  /\ UNCHANGED <<heap, mem, free, origin, blocks, liveMBlocks, blocksToScavenge, nonMovedObjects,
                 currentBlock, currentObject, scavenged, poolsLeft, c, inds, evalVars>>

BackToBlocks ==
  /\ pc = "nonmoved" /\ nonMovedObjectsToScavenge = <<>>
  /\ pc' = "loop"
  /\ UNCHANGED <<heap, mem, loopVars, walkVars, c, inds, evalVars>>

Finish ==
  /\ pc = "loop" /\ AtLimit /\ blocksToScavenge = <<>> /\ nonMovedObjectsToScavenge = <<>>
  /\ pc' = "done"
  /\ UNCHANGED <<heap, mem, loopVars, walkVars, c, inds, evalVars>>

Next ==
  \/ ScavengePointer \/ Scavenged
  \/ EvacuatedBefore \/ EvacuateNonMoved \/ StingyEval \/ Copy
  \/ ReturnToIndirection \/ ReturnToScavenge
  \/ Follow \/ FollowNoFurther \/ UnwindIndirection \/ UnwindSelection \/ UnwindSelector
  \/ EvaluatedToSelector \/ EvaluatedToIndirection
  \/ NextBlock \/ ScavengeCopy \/ ToNonMoved \/ ScavengeNonMoved \/ BackToBlocks \/ Finish

Spec == Init /\ [][Next]_vars
----------------------------------------------------------------------------
Copies == DOMAIN origin

\* What an address stands for: the closure it is or is a copy of.
Original(a) == IF a \in Copies THEN origin[a] ELSE a

\* Each address of to-space has one closure in one block, and is the copy of a
\* closure of from-space; the closures of from-space keep their addresses.
TypeOK ==
  /\ DOMAIN mem = Start \cup Copies /\ Copies = Limit + 1 .. free - 1
  /\ \A a \in Copies : origin[a] \in Dynamic
  /\ \A a \in Copies : \E b \in DOMAIN blocks : \E k \in DOMAIN blocks[b] : blocks[b][k] = a
  /\ \A b \in DOMAIN blocks : Len(blocks[b]) <= BlockClosures
  /\ pc \in {"pointer", "evacuate", "eval", "unwind", "return", "loop", "nonmoved", "done", "thrown"}

\* No closure is copied twice, through whatever pointers it is met.
CopiedOnce == \A a, b \in Copies : origin[a] = origin[b] => a = b

\* Whatever a pointer was changed to, it means what it meant, and so does every
\* forwarding address.
MeaningKept ==
  /\ \A a \in (Start \cup Copies) \ {y \in Dynamic : mem[y].type # "ARR"} :
       \A k \in DOMAIN mem[a].ptrs :
         Meaning(heap, Original(mem[a].ptrs[k])) = Meaning(heap, heap[Original(a)].ptrs[k])
  /\ \A a \in Dynamic :
       mem[a].type \in {"IND", "FORWARD"} => Meaning(heap, Original(mem[a].ptrs[1])) = Meaning(heap, a)

\* A closure that has been scavenged has no pointer into from-space.
ScavengedIsClean ==
  \A a \in scavenged : \A k \in DOMAIN mem[a].ptrs : mem[a].ptrs[k] \notin Dynamic

(* Every pointer that a collection has changed means what it meant, what   *)
(* has been scavenged has no pointer into from-space, and every copy lies  *)
(* in one block (rts.gc.mjs:125-778).                                      *)
CollectionSound == TypeOK /\ MeaningKept /\ ScavengedIsClean

\* A block that scavengeLoop leaves is completely scavenged, unless it is the pool,
\* to which closures are added behind its back.
OnlyPoolsLeft ==
  pc = "done" =>
    \A b \in DOMAIN blocks : b \in poolsLeft \/ \A k \in DOMAIN blocks[b] : blocks[b][k] \in scavenged

\* "Since we have completely processed the current currentBlock, we can continue and
\* pick the next one": when the collection ends, every copy has been scavenged.
AllScavenged == pc = "done" => Copies \subseteq scavenged

\* Stingy evaluation shortens chains of indirections and selections before they are
\* followed: evacuateClosure does not call itself more often than there are closures.
NotThrown == pc # "thrown"
============================================================================
