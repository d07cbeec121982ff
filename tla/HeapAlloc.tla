------------------------------- MODULE HeapAlloc -------------------------------
(***************************************************************************)
(* The heap allocator of rts.heapalloc.mjs with the megablocks of          *)
(* rts.memory.mjs, the nurseries the program bumps, and how a collection   *)
(* of rts.gc.mjs uses them: it copies the unpinned objects it reaches into *)
(* a new generation, keeps the pinned ones, and frees every other group.   *)
(* Which objects a collection reaches is left open: those it does not      *)
(* reach are garbage.                                                      *)
(*                                                                         *)
(* A group is known by the number of its first megablock; its descriptor   *)
(* is the first of that megablock.  The sizes of objects are bytes of the  *)
(* small layout that the shifts give.                                      *)
(***************************************************************************)
EXTENDS BlockLayout, FiniteSetsExt

CONSTANTS
  Objects,    \* bound: the objects a program creates
  Sizes,      \* of the objects allocated by allocate and allocatePinned
  NumMblocks, \* bound: the megablocks of the dynamic memory
  FreePlaces,     \* bound: how many free places aligned_alloc chooses from, the lowest ones
  gcThreshold,
  NoGroup

ASSUME HeapAssumption ==
  NumMblocks \in Nat /\ FreePlaces \in Nat \ {0} /\ gcThreshold \in Nat /\ Sizes \subseteq Nat /\ W \in Nat

(* Blocks divide megablocks, and the descriptors take some blocks, but not *)
(* all of them.                                                            *)
ASSUME LayoutAssumption ==
  /\ ShiftsAssumption /\ BLOCK_SIZE \in Nat \ {0} /\ FIRST_BDESCR(0) \in 0 .. MBLOCK_SIZE - 1
  /\ \E n \in 1 .. MBLOCK_SIZE : MBLOCK_SIZE = n * BLOCK_SIZE
  /\ \E n \in 1 .. MBLOCK_SIZE : FIRST_BLOCK_OFF = n * BLOCK_SIZE /\ FIRST_BLOCK_OFF < MBLOCK_SIZE

VARIABLES
  mblocks,  \* what aligned_alloc has given out: first megablock |-> how many
  heapAlloc, \* the allocator: mgroups, a descriptor per group; pools, generations
  nursery,  \* the group that Hp points into
  obj,      \* the objects: address and size, which is 0 if there is none
  phase,    \* "program", or the part of performGC: "evacuate", "free", "thrown"
  rHpAlloc, \* the bytes that did not fit in the nursery
  live, dead,  \* liveMBlocks and deadMBlocks
  reached   \* the objects evacuated in this collection

heapVars == <<mblocks, heapAlloc, nursery, obj, phase, rHpAlloc, live, dead, reached>>

sizeof_first_mblock == MBLOCK_SIZE - FIRST_BLOCK_OFF

\* The megablock whose first descriptor bdescr, like the macro Bdescr, gives.
bdescr(a) == Bdescr(a) \div MBLOCK_SIZE

----------------------------------------------------------------------------
(* aligned_alloc gives megablocks that are free. *)
InUse(mb) == UNION {m .. m + mb[m] - 1 : m \in DOMAIN mb}

FreeRuns(mb, k) ==
  LET all == {m \in 1 .. NumMblocks - k + 1 : InUse(mb) \cap (m .. m + k - 1) = {}}
  IN  {m \in all : Cardinality({n \in all : n < m}) < FreePlaces}

Remaining(f, freed) == [m \in DOMAIN f \ freed |-> f[m]]
Added(f, m, v) == [n \in DOMAIN f \cup {m} |-> IF n = m THEN v ELSE f[n]]

(* A state of the allocator: the memory it holds, its groups and pools. *)
allocMegaGroup(h, m, k, pinned, gen_no) ==
  [h EXCEPT !.mblocks = Added(@, m, k),
            !.mgroups = Added(@, m, [free |-> FIRST_BLOCK(m * MBLOCK_SIZE), node |-> k,
                                     blocks |-> (MBLOCK_SIZE * k - FIRST_BLOCK_OFF) \div BLOCK_SIZE,
                                     pinned |-> pinned, gen_no |-> gen_no])]

mblocksFor(b) ==
  IF b <= sizeof_first_mblock THEN 1
  ELSE 1 + (b - sizeof_first_mblock + MBLOCK_SIZE - 1) \div MBLOCK_SIZE

\* The states after hpAlloc, with the group it returns.
hpAlloc(h, b, pinned, gen_no) ==
  {[h |-> allocMegaGroup(h, m, mblocksFor(b), pinned, gen_no), bd |-> m] : m \in FreeRuns(h.mblocks, mblocksFor(b))}

current_limit(h, m) == FIRST_BLOCK(m * MBLOCK_SIZE) + BLOCK_SIZE * h.mgroups[m].blocks

Fits(h, m, b) == h.mgroups[m].free + b <= current_limit(h, m)

Bump(h, m, b) == [h EXCEPT !.mgroups[m].free = @ + b]

SetPool(h, m, pinned, gen_no) ==
  IF pinned THEN [h EXCEPT !.pinnedPool = m]
  ELSE [h EXCEPT !.unpinnedPool = m, !.generations[gen_no] = m]

(* The states after allocate, with the address it returns; big objects are *)
(* pinned.                                                                 *)
allocate(h, b, askPinned) ==
  LET pinned == askPinned \/ b >= BLOCK_SIZE
      pool   == IF pinned THEN h.pinnedPool ELSE h.unpinnedPool
      gen_no == IF pinned THEN 0 ELSE h.mgroups[pool].gen_no
  IN  IF Fits(h, pool, b)
        THEN {[h |-> Bump(h, pool, b), addr |-> h.mgroups[pool].free]}
        ELSE {[h |-> Bump(SetPool(r.h, r.bd, pinned, gen_no), r.bd, b), addr |-> r.h.mgroups[r.bd].free] :
                r \in hpAlloc(h, b, pinned, gen_no)}

setGenerationNo(h, gen_no) ==
  {SetPool(allocMegaGroup(h, m, 1, FALSE, gen_no), m, FALSE, gen_no) : m \in FreeRuns(h.mblocks, 1)}

allocator == [mblocks |-> mblocks, mgroups |-> heapAlloc.mgroups, unpinnedPool |-> heapAlloc.unpinnedPool,
              pinnedPool |-> heapAlloc.pinnedPool, generations |-> heapAlloc.generations]

Pools(h) == [mgroups |-> h.mgroups, unpinnedPool |-> h.unpinnedPool, pinnedPool |-> h.pinnedPool,
             generations |-> h.generations]

Becomes(h) == mblocks' = h.mblocks /\ heapAlloc' = Pools(h)

----------------------------------------------------------------------------
NoObject == [addr |-> 0, size |-> 0]
Exists(o) == obj[o].size > 0

(* init, and hs_init, which allocates the first nursery. *)
HeapInit ==
  LET none == [mblocks |-> [m \in {} |-> 0], mgroups |-> [m \in {} |-> 0], unpinnedPool |-> NoGroup,
               pinnedPool |-> NoGroup, generations |-> [g \in {0, 1} |-> NoGroup]]
  IN  /\ \E h0 \in setGenerationNo(none, 0) : \E r1 \in hpAlloc(h0, 1, TRUE, 0) : \E r \in hpAlloc(r1.h, W, FALSE, 0) :
           LET h == SetPool(r.h, r1.bd, TRUE, 0)
           IN  mblocks = h.mblocks /\ heapAlloc = Pools(h) /\ nursery = r.bd
      /\ obj = [o \in Objects |-> NoObject]
      /\ phase = "program" /\ rHpAlloc = 0
      /\ live = {} /\ dead = {} /\ reached = {}

Allocate(o, b, pinned) ==
  /\ phase = "program" /\ ~Exists(o)
  /\ \E r \in allocate(allocator, b, pinned) :
       Becomes(r.h) /\ obj' = [obj EXCEPT ![o] = [addr |-> r.addr, size |-> b]]
  /\ UNCHANGED <<nursery, phase, rHpAlloc, live, dead, reached>>

(* Compiled code bumps Hp. *)
HpBump(o, b) ==
  /\ phase = "program" /\ ~Exists(o)
  /\ Fits(allocator, nursery, b)
  /\ obj' = [obj EXCEPT ![o] = [addr |-> heapAlloc.mgroups[nursery].free, size |-> b]]
  /\ Becomes(Bump(allocator, nursery, b))
  /\ UNCHANGED <<nursery, phase, rHpAlloc, live, dead, reached>>

(* The program fills the nursery with objects that it forgets at once. *)
HpGarbage ==
  /\ phase = "program" /\ heapAlloc.mgroups[nursery].free < current_limit(heapAlloc, nursery)
  /\ Becomes(Bump(allocator, nursery, current_limit(heapAlloc, nursery) - heapAlloc.mgroups[nursery].free))
  /\ UNCHANGED <<nursery, obj, phase, rHpAlloc, live, dead, reached>>

(* A heap check fails, and the scheduler calls performGC.  A collection is *)
(* skipped below the threshold: there is only a new nursery.               *)
liveSize == MapThenSumSet(LAMBDA m : heapAlloc.mgroups[m].node, DOMAIN heapAlloc.mgroups)

HeapOverflowSkip(b) ==
  /\ phase = "program" /\ ~Fits(allocator, nursery, b)
  /\ liveSize < gcThreshold
  /\ \E r \in hpAlloc(allocator, b, FALSE, 0) : Becomes(r.h) /\ nursery' = r.bd
  /\ UNCHANGED <<obj, phase, rHpAlloc, live, dead, reached>>

HeapOverflow(b) ==
  /\ phase = "program" /\ ~Fits(allocator, nursery, b)
  /\ liveSize >= gcThreshold
  /\ \E h \in setGenerationNo(allocator, 1) : Becomes(h)
  /\ phase' = "evacuate" /\ rHpAlloc' = b
  /\ UNCHANGED <<nursery, obj, live, dead, reached>>

(* The flags that isPinned reads: behind the first megablock of a group    *)
(* there is no descriptor, and the bytes of an object are read.            *)

isPinned(a) == IF bdescr(a) \in DOMAIN heapAlloc.mgroups THEN {heapAlloc.mgroups[bdescr(a)].pinned} ELSE BOOLEAN

EvacuatePinned(o) ==
  /\ phase = "evacuate" /\ Exists(o) /\ o \notin reached
  /\ TRUE \in isPinned(obj[o].addr)
  /\ live' = live \cup {bdescr(obj[o].addr)}
  /\ reached' = reached \cup {o}
  /\ UNCHANGED <<mblocks, heapAlloc, nursery, obj, phase, rHpAlloc, dead>>

\* A bug: the group that is copied to is not noted as live.
EvacuateForgettingLive(o) ==
  /\ phase = "evacuate" /\ Exists(o) /\ o \notin reached
  /\ FALSE \in isPinned(obj[o].addr)
  /\ \E r \in allocate(allocator, obj[o].size, FALSE) :
       Becomes(r.h) /\ obj' = [obj EXCEPT ![o].addr = r.addr]
  /\ dead' = dead \cup {bdescr(obj[o].addr)}
  /\ reached' = reached \cup {o}
  /\ UNCHANGED <<nursery, phase, rHpAlloc, live>>

EvacuateUnpinned(o) ==
  /\ phase = "evacuate" /\ Exists(o) /\ o \notin reached
  /\ FALSE \in isPinned(obj[o].addr)
  /\ \E r \in allocate(allocator, obj[o].size, FALSE) :
       /\ Becomes(r.h)
       /\ obj' = [obj EXCEPT ![o].addr = r.addr]
       /\ live' = live \cup {bdescr(r.addr)}
  /\ dead' = dead \cup {bdescr(obj[o].addr)}
  /\ reached' = reached \cup {o}
  /\ UNCHANGED <<nursery, phase, rHpAlloc>>

----------------------------------------------------------------------------
(* handleLiveness throws if it is told of a group it does not know; it     *)
(* frees the groups that were copied from and, all collections being major *)
(* ones, those that are not live; then it replaces what it has freed.      *)

Freed == {m \in DOMAIN heapAlloc.mgroups : m \in dead \/ m \notin live}

Swept(h, freed) == [h EXCEPT !.mblocks = Remaining(@, freed), !.mgroups = Remaining(@, freed)]

\* A pinned pool that was freed is replaced; a generation whose group was freed has none.
PinnedPoolKept(h) ==
  IF h.pinnedPool \in DOMAIN h.mgroups THEN {h}
  ELSE {SetPool(allocMegaGroup(h, m, 1, TRUE, 0), m, TRUE, 0) : m \in FreeRuns(h.mblocks, 1)}

GenerationsKept(h) ==
  [h EXCEPT !.generations = [g \in DOMAIN @ |-> IF @[g] \in DOMAIN h.mgroups THEN @[g] ELSE NoGroup]]

handleLiveness ==
  /\ phase = "evacuate" /\ live \cup dead \subseteq DOMAIN heapAlloc.mgroups
  /\ \E h \in PinnedPoolKept(Swept(allocator, Freed)) : Becomes(GenerationsKept(h))
  /\ obj' = [o \in Objects |-> IF o \in reached THEN obj[o] ELSE NoObject]
  /\ phase' = "free"
  /\ UNCHANGED <<nursery, rHpAlloc, live, dead, reached>>

handleLivenessThrows ==
  /\ phase = "evacuate" /\ ~(live \cup dead \subseteq DOMAIN heapAlloc.mgroups)
  /\ phase' = "thrown"
  /\ UNCHANGED <<mblocks, heapAlloc, nursery, obj, rHpAlloc, live, dead, reached>>

(* The end of performGC: generation 0 and a nursery for what did not fit. *)
FinishGC ==
  /\ phase = "free"
  /\ \E h \in setGenerationNo(allocator, 0) : \E r \in hpAlloc(h, rHpAlloc, FALSE, 0) :
       Becomes(r.h) /\ nursery' = r.bd
  /\ phase' = "program" /\ rHpAlloc' = 0
  /\ live' = {} /\ dead' = {} /\ reached' = {}
  /\ UNCHANGED obj

HeapNext ==
  \/ \E o \in Objects : \E b \in Sizes :
       (\E pinned \in BOOLEAN : Allocate(o, b, pinned)) \/ (b < BLOCK_SIZE /\ HpBump(o, b))
  \/ HpGarbage
  \/ \E b \in Sizes : b < BLOCK_SIZE /\ (HeapOverflowSkip(b) \/ HeapOverflow(b))
  \/ \E o \in Objects : EvacuatePinned(o) \/ EvacuateUnpinned(o)
  \/ handleLiveness \/ handleLivenessThrows \/ FinishGC

HeapSpec == HeapInit /\ [][HeapNext]_heapVars

----------------------------------------------------------------------------
(* Every object lies in the data of a group, below its free pointer, which *)
(* stays in the group, and no two share a byte, though collections move    *)
(* objects and free groups that pools still point to (rts.heapalloc.mjs:98-143,       *)
(* 194-242).                                                               *)
Bytes(o) == obj[o].addr .. obj[o].addr + obj[o].size - 1

GroupBytes(m) == FIRST_BLOCK(m * MBLOCK_SIZE) .. heapAlloc.mgroups[m].free - 1

ObjectsApart ==
  phase # "thrown" =>
    /\ \A o \in Objects : \E m \in DOMAIN heapAlloc.mgroups : Bytes(o) \subseteq GroupBytes(m)
    /\ \A o, q \in Objects : o # q => Bytes(o) \cap Bytes(q) = {}
    /\ \A m \in DOMAIN heapAlloc.mgroups : heapAlloc.mgroups[m].free <= current_limit(heapAlloc, m)

(* The pools and the nursery are groups that are not freed, and the        *)
(* unpinned pool is the newest one of the generation that is allocated in  *)
(* (rts.heapalloc.mjs:50-68, 231-241, rts.gc.mjs:1036-1086).     *)
PoolsAllocated ==
  phase \in {"program", "evacuate"} =>
    /\ {heapAlloc.unpinnedPool, heapAlloc.pinnedPool, nursery} \subseteq DOMAIN heapAlloc.mgroups
    /\ ~heapAlloc.mgroups[heapAlloc.unpinnedPool].pinned /\ heapAlloc.mgroups[heapAlloc.pinnedPool].pinned
    /\ heapAlloc.generations[heapAlloc.mgroups[heapAlloc.unpinnedPool].gen_no] = heapAlloc.unpinnedPool
    /\ heapAlloc.mgroups[heapAlloc.unpinnedPool].gen_no = IF phase = "program" THEN 0 ELSE 1

(* The allocator holds exactly the megablocks that it has a group for, and *)
(* its groups end where their memory ends: liveSize, which decides whether *)
(* to collect, misses nothing (rts.heapalloc.mjs:162-182, 253-258).        *)
NothingLeaks ==
  /\ DOMAIN mblocks = DOMAIN heapAlloc.mgroups
  /\ \A m \in DOMAIN mblocks : current_limit(heapAlloc, m) = (m + mblocks[m]) * MBLOCK_SIZE

(* After a collection nothing is left in the memory but what was reached,  *)
(* and the groups the allocator itself needs (rts.gc.mjs:1082-1086).       *)
GarbageIsFreed ==
  phase = "free" =>
    \A m \in DOMAIN heapAlloc.mgroups :
      m \in {heapAlloc.unpinnedPool, heapAlloc.pinnedPool} \/ \E o \in reached : Bytes(o) \subseteq GroupBytes(m)

(* What the four say together.                                             *)
HeapSound == ObjectsApart /\ PoolsAllocated /\ NothingLeaks /\ GarbageIsFreed

(* No step moves a pinned object whose descriptor is found                 *)
(* (rts.gc.mjs:103-113).                                                   *)
PinnedStay ==
  \A o \in Objects : \A m \in DOMAIN heapAlloc.mgroups :
    heapAlloc.mgroups[m].pinned /\ Exists(o) /\ Bytes(o) \subseteq GroupBytes(m) /\ bdescr(obj[o].addr) = m
      => obj'[o] \in {obj[o], NoObject}

(* bdescr gives the descriptor of the group an object is in (the comment   *)
(* rts.gc.mjs:8-12).                                                       *)
DescriptorFound ==
  \A o \in Objects : \A m \in DOMAIN heapAlloc.mgroups :
     Exists(o) /\ Bytes(o) \subseteq GroupBytes(m) => bdescr(obj[o].addr) = m
=============================================================================
