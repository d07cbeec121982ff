-------------------------------- MODULE Barriers --------------------------------
(***************************************************************************)
(* Closures and locks that several cores use at once: the barriers and     *)
(* atomic operations of SMP.h, the locking of closures of SMPClosureOps.h, *)
(* spin locks, and the update of a thunk with an indirection (Updates.h).  *)
(*                                                                         *)
(* A thread runs the memory accesses of a piece of straight code.  A core, *)
(* or the compiler, performs them in any order that keeps what depends on  *)
(* each other and what a barrier of the platform separates; an access is   *)
(* seen by all threads at once.  The list of mutated closures, to which an *)
(* update of an old closure also adds, is the thread's own and left out.   *)
(***************************************************************************)
EXTENDS Integers, Sequences

CONSTANTS
  Cases   \* pairs of a platform ("x86", "sparc", "powerpc", "arm", or
          \* "nonthreaded") and the pieces of code that run against each other

VARIABLES
  platform, scenario,
  mem,    \* location |-> value
  done,   \* the accesses a thread has performed, by their place in its code
  reg     \* what its loads have given, by their place

vars == <<platform, scenario, mem, done, reg>>

Cores == 1 .. 3

\* An access; what it stores, if it stores; the load that it depends on, or 0.
Access(op, loc, val, dep) == [op |-> op, loc |-> loc, val |-> val, dep |-> dep]
Load(loc)        == Access("load", loc, "", 0)
LoadVia(dep, loc) == Access("load", loc, "", dep)
Store(loc, val)  == Access("store", loc, val, 0)
Barrier(b)       == Access(b, "", "", 0)

write_barrier      == Barrier("write_barrier")
store_load_barrier == Barrier("store_load_barrier")
load_load_barrier  == Barrier("load_load_barrier")

----------------------------------------------------------------------------
(* What a barrier keeps in order, for an access a before it and an access  *)
(* b behind it.  Each also stops the compiler.  x86 and sparc reorder only *)
(* loads that follow stores; lwsync of powerpc allows just that, too; dmb  *)
(* st of arm orders nothing but stores, dmb everything.                    *)
Stores(a) == a.op \notin {"load"}
Loads(a)  == a.op \notin {"store"}
StoreThenLoad(a, b) == a.op = "store" /\ b.op = "load"

KeptByWriteBarrier(a, b) ==
  CASE platform \in {"x86", "sparc", "powerpc"} -> ~StoreThenLoad(a, b)
    [] platform = "arm" -> Stores(a) /\ Stores(b)
    [] OTHER -> FALSE

KeptByStoreLoadBarrier(a, b) == platform # "nonthreaded"

KeptByLoadLoadBarrier(a, b) ==
  CASE platform \in {"x86", "sparc", "powerpc"} -> ~StoreThenLoad(a, b)
    [] platform = "arm" -> TRUE
    [] OTHER -> FALSE

Keeps(barrier, a, b) ==
  CASE barrier = "write_barrier"      -> KeptByWriteBarrier(a, b)
    [] barrier = "store_load_barrier" -> KeptByStoreLoadBarrier(a, b)
    [] barrier = "load_load_barrier"  -> KeptByLoadLoadBarrier(a, b)
    [] OTHER -> FALSE

IsBarrier(a) == a.op \in {"write_barrier", "store_load_barrier", "load_load_barrier"}

\* Access i of the code must be performed before access j, which is behind it.
Before(code, i, j) ==
  \/ platform = "nonthreaded"
  \/ code[i].loc = code[j].loc
  \/ code[j].dep = i
  \/ code[i].op \in {"xchg", "try", "cas"}   \* xchg acquires; cas is a full barrier,
  \/ code[j].op = "cas"                      \* both ways
  \/ \E k \in i .. j : Keeps(code[k].op, code[i], code[j])

----------------------------------------------------------------------------
(* The code: locking and unlocking closures and spin locks.  Without       *)
(* threads, and likewise as long as there is only one capability,          *)
(* a lock only reads, or is nothing.                                       *)
WHITEHOLE == "WHITEHOLE"

xchg(loc, val)     == Access("xchg", loc, val, 0)
cas(loc, val)      == Access("cas", loc, val, 0)

reallyLockClosure(p)   == << xchg(p, WHITEHOLE) >>
lockClosure(p)         == IF platform = "nonthreaded" THEN << Load(p) >> ELSE reallyLockClosure(p)
tryLockClosure(p)      == IF platform = "nonthreaded" THEN << Load(p) >> ELSE << Access("try", p, WHITEHOLE, 0) >>
unlockClosure(p, info) == << write_barrier, Store(p, info) >>

ACQUIRE_SPIN_LOCK(l) == IF platform = "nonthreaded" THEN << >> ELSE << cas(l, "held") >>
RELEASE_SPIN_LOCK(l) == IF platform = "nonthreaded" THEN << >> ELSE << write_barrier, Store(l, "free") >>

(* Updating the thunk p with an indirection to the value q. *)
\* A bug: the barrier between the indirectee and the info pointer is gone.
UpdateWithoutBarrier(p, q) == << write_barrier, Store("indirectee", q), Store(p, "BLACKHOLE") >>

updateWithIndirection(p, q) ==
  << write_barrier, Store("indirectee", q), write_barrier, Store(p, "BLACKHOLE") >>

(* An observer enters p: it reads the info pointer, then the indirectee,   *)
(* then a field of what that points to.                                    *)
Observe(p) == << Load(p), load_load_barrier, Load("indirectee"), LoadVia(3, "field") >>

(* A store and then a load of what the other stores. *)
Flag(t) == IF t = 1 THEN "flag1" ELSE "flag2"

Announce(mine, theirs, barrier) == << Store(mine, "up"), barrier, Load(theirs) >>

Write == << Store("x", "new"), Store("y", "new") >>
Read  == << Load("x"), Load("y") >>

Code(t) ==
  CASE scenario = "update" ->
         IF t = 1 THEN << Store("field", "built") >> \o updateWithIndirection("thunk", "value") ELSE Observe("thunk")
    [] scenario = "closure_lock" ->
         IF t = 3 THEN tryLockClosure("mvar") \o Read \o unlockClosure("mvar", "MVAR")
         ELSE lockClosure("mvar") \o (IF t = 1 THEN Write ELSE Read) \o unlockClosure("mvar", "MVAR")
    [] scenario = "spin_lock" ->
         ACQUIRE_SPIN_LOCK("lock") \o (IF t = 1 THEN Write ELSE Read) \o RELEASE_SPIN_LOCK("lock")
    [] scenario = "store_load" ->
         IF t = 3 THEN << >> ELSE Announce(Flag(t), Flag(3 - t), store_load_barrier)
    [] OTHER ->  \* "load_load"
         IF t = 3 THEN << >> ELSE Announce(Flag(t), Flag(3 - t), load_load_barrier)

----------------------------------------------------------------------------
Accesses(t) == {i \in DOMAIN Code(t) : ~IsBarrier(Code(t)[i])}

Init ==
  /\ \E c \in Cases : platform = c[1] /\ scenario = c[2]
  /\ mem = [loc \in {"thunk", "indirectee", "field", "mvar", "lock", "x", "y", "flag1", "flag2"} |->
              CASE loc = "thunk" -> "THUNK" [] loc = "mvar" -> "MVAR" [] loc = "lock" -> "free" [] OTHER -> "old"]
  /\ done = [t \in Cores |-> {}]
  /\ reg = [t \in Cores |-> [i \in 1 .. 6 |-> ""]]

\* Without threads the code of another thread is not interrupted.
MayRun(t) ==
  platform = "nonthreaded" =>
    \A u \in Cores \ {t} : done[u] = {} \/ done[u] = Accesses(u)

Ready(t, i) ==
  /\ i \in Accesses(t) \ done[t] /\ MayRun(t)
  /\ \A j \in Accesses(t) : j < i /\ Before(Code(t), j, i) => j \in done[t]

Perform(t, i) == done' = [done EXCEPT ![t] = @ \cup {i}] /\ UNCHANGED <<platform, scenario>>

DoLoad(t, i) ==
  /\ Ready(t, i) /\ Code(t)[i].op = "load"
  /\ reg' = [reg EXCEPT ![t][i] = mem[Code(t)[i].loc]]
  /\ Perform(t, i) /\ UNCHANGED mem

DoStore(t, i) ==
  /\ Ready(t, i) /\ Code(t)[i].op = "store"
  /\ mem' = [mem EXCEPT ![Code(t)[i].loc] = Code(t)[i].val]
  /\ Perform(t, i) /\ UNCHANGED reg

Locked(loc) == mem[loc] \in {WHITEHOLE, "held"}

(* The exchange that finds the lock free; until then it spins. *)
Lock(t, i) ==
  /\ Ready(t, i) /\ Code(t)[i].op \in {"xchg", "try", "cas"}
  /\ ~Locked(Code(t)[i].loc)
  /\ reg' = [reg EXCEPT ![t][i] = mem[Code(t)[i].loc]]
  /\ mem' = [mem EXCEPT ![Code(t)[i].loc] = Code(t)[i].val]
  /\ Perform(t, i)

(* tryLockClosure returns NULL, and its caller does nothing. *)
LockFails(t, i) ==
  /\ Ready(t, i) /\ Code(t)[i].op = "try" /\ Locked(Code(t)[i].loc)
  /\ done' = [done EXCEPT ![t] = Accesses(t)]
  /\ UNCHANGED <<platform, scenario, mem, reg>>

Step(t) == \E i \in Accesses(t) : DoLoad(t, i) \/ DoStore(t, i) \/ Lock(t, i) \/ LockFails(t, i)

Next == \E t \in Cores : Step(t)

Spec == Init /\ [][Next]_vars

----------------------------------------------------------------------------
(* An observer that finds the black hole of an update finds its value too, *)
(* and that value complete (the pattern SMP.h:140-163 prescribes and       *)
(* Updates.h:48-92 follows).                                               *)
ObserversSafe ==
  scenario = "update" =>
    \A t \in {2, 3} : reg[t][1] = "BLACKHOLE" /\ 4 \in done[t] => reg[t][3] = "value" /\ reg[t][4] = "built"

(* One thread at a time is inside a lock (SMPClosureOps.h:56-102,          *)
(* SpinLock.h:42-59).                                                      *)
Inside(t) == 1 \in done[t] /\ Accesses(t) \ done[t] # {}

OneInside ==
  scenario \in {"closure_lock", "spin_lock"} /\ platform # "nonthreaded" =>
    \A t, u \in Cores : Inside(t) /\ Inside(u) => t = u

(* A thread reads inside a lock what one earlier holder has left, never    *)
(* half of what a later one writes (the comment SMP.h:250-254).            *)
SectionsIsolated ==
  \A t \in {2, 3} :
    scenario \in {"closure_lock", "spin_lock"} /\ done[t] = Accesses(t) =>
      \A i, j \in DOMAIN Code(t) : (Code(t)[i].loc = "x" /\ Code(t)[j].loc = "y") => reg[t][i] = reg[t][j]

(* A store and a load of another thread's store with a store_load_barrier  *)
(* between them: of two threads one sees the other (SMP.h:84, 349-369).    *)
OneSees(s) == scenario = s /\ done[1] = {1, 3} /\ done[2] = {1, 3} => "up" \in {reg[1][3], reg[2][3]}

StoreLoadSeparates == OneSees("store_load")

(* The same is said of load_load_barrier (the comment SMP.h:85). *)
LoadLoadSeparates == OneSees("load_load")

(* Nobody waits for ever: as long as code is left, some access can be      *)
(* performed, and no code is endless (SMPClosureOps.h:56-74,               *)
(* SpinLock.h:42-56).                                                      *)
NobodyIsStuck ==
  (\E t \in Cores : done[t] # Accesses(t)) =>
    \E t \in Cores : \E i \in Accesses(t) :
      Ready(t, i) /\ (Code(t)[i].op \in {"xchg", "cas"} => ~Locked(Code(t)[i].loc))
=============================================================================
