----------------------------- MODULE Callbacks -----------------------------
(***************************************************************************)
(* What Haskell knows of JavaScript values and JavaScript of Haskell       *)
(* functions: the JSVal closures of rts.jsval.mjs, the stable pointers of  *)
(* rts.stableptr.mjs, the callbacks of rts.exports.mjs and rts.mjs that    *)
(* tie the two together, and the collection of rts.gc.mjs that moves the   *)
(* closures.  A callback takes one argument, a JavaScript value; a result  *)
(* is only read.                                                           *)
(***************************************************************************)
EXTENDS Integers, Sequences, Functions, FiniteSets, TLC

CONSTANTS
  Addresses,       \* where a JSVal closure can be
  Places(_, _),    \* Places(used, n): the sets of addresses n new closures may get
  Plain,           \* JavaScript values that are not callbacks
  Fns,             \* Haskell functions
  MaxCallbacks, MaxStable, MaxRunning, MaxCollections, \* bounds
  OneShots,        \* the callbacks the program makes: may a callback be oneshot
  Keeps            \* may the program still reach a JSVal it has freed

ASSUME CallbacksAssumption ==
  /\ IsFiniteSet(Addresses) /\ MaxCallbacks \in Nat
  /\ \A u \in SUBSET Addresses :
       \A n \in 0 .. Cardinality(Addresses) : Places(u, n) \subseteq SUBSET (Addresses \ u)
  /\ OneShots \subseteq BOOLEAN /\ Keeps \subseteq BOOLEAN

VARIABLES
  used,            \* the addresses allocated since the last collection, or filled by it
  refs,            \* JSVals the program can reach: address -> what it stands for, whether freed
  closure2Val,     \* address -> value
  spt, last,       \* stable pointer -> function, and the number of the last one
  own,             \* the stable pointers the program holds itself
  callbacks,       \* the callbacks made, in order: function, stable pointer, oneshot, sn[0];
                   \* history: made, how many collections there had been
  callbackStablePtrs, \* callback -> stable pointer
  running,         \* callback -> calls of it whose thread has not ended
  collections,     \* how many there were
  thrown,          \* a collection has thrown an error
  lost             \* history: the JSVals that oneshot callbacks have freed in place of their own

jsvals == <<used, refs, closure2Val, lost>>
callbacksVars == <<jsvals, spt, last, own, callbacks, callbackStablePtrs, running, collections, thrown>>

Values == Plain \cup (1..MaxCallbacks)
Empty == <<>>
Put(f, x, y) == [z \in DOMAIN f \cup {x} |-> IF z = x THEN y ELSE f[z]]
Without(f, x) == Restrict(f, DOMAIN f \ {x})
----------------------------------------------------------------------------
CallbacksInit ==
  /\ used = {} /\ refs = Empty /\ closure2Val = Empty
  /\ spt = Empty /\ last = 0 /\ own = Empty
  /\ callbacks = Empty /\ callbackStablePtrs = Empty
  /\ running = [cb \in 1..MaxCallbacks |-> 0]
  /\ collections = 0 /\ thrown = FALSE /\ lost = {}

\* heapAlloc.allocate gives memory that nothing has had since the last collection.
newJSValzh(a, v) ==
  /\ {a} \in Places(used, 1) /\ used' = used \cup {a}
  /\ closure2Val' = Put(closure2Val, a, v)
  /\ refs' = Put(refs, a, [val |-> v, freed |-> FALSE])

\* An import returns a value.
NewJSVal(a, v) ==
  /\ v \in Plain \cup DOMAIN callbacks
  /\ newJSValzh(a, v)
  /\ UNCHANGED <<lost, spt, last, own, callbacks, callbackStablePtrs, running, collections, thrown>>

\* The program loses its last way to a JSVal.
DropJSVal(a) ==
  /\ refs' = Without(refs, a)
  /\ UNCHANGED <<used, closure2Val, lost, spt, last, own, callbacks, callbackStablePtrs, running, collections, thrown>>

\* What the program can reach when it has freed the JSVal at a.
RefsFreed(a) ==
  \E keep \in Keeps :
    refs' = IF keep THEN [refs EXCEPT ![a].freed = TRUE] ELSE Without(refs, a)

\* The program frees no JSVal twice, and leaves that of a oneshot callback to it.
FreeJSVal(a) ==
  /\ ~refs[a].freed /\ a \in DOMAIN closure2Val
  /\ refs[a].val \in DOMAIN callbacks => ~callbacks[refs[a].val].oneshot
  /\ closure2Val' = Without(closure2Val, a)
  /\ RefsFreed(a)
  /\ UNCHANGED <<used, lost, spt, last, own, callbacks, callbackStablePtrs, running, collections, thrown>>

newStablePtr(f) ==
  /\ last' = last + 1
  /\ spt' = Put(spt, last', f)

NewStablePtr(f) ==
  /\ last < MaxStable
  /\ newStablePtr(f)
  /\ own' = Put(own, last', f)
  /\ UNCHANGED <<jsvals, callbacks, callbackStablePtrs, running, collections, thrown>>

FreeStablePtr(sp) ==
  /\ spt' = Without(spt, sp) /\ own' = Without(own, sp)
  /\ UNCHANGED <<jsvals, last, callbacks, callbackStablePtrs, running, collections, thrown>>

\* A wrapper makes a stable pointer, the callback, and a JSVal for the callback;
\* the finalizer of a oneshot callback keeps the address of that JSVal.
newHaskellCallback(a, f, oneshot) ==
  /\ Len(callbacks) < MaxCallbacks /\ last < MaxStable
  /\ newStablePtr(f)
  /\ callbacks' = Append(callbacks, [f |-> f, sp |-> last', oneshot |-> oneshot, sn |-> a, made |-> collections])
  /\ LET cb == Len(callbacks) + 1
     IN  /\ callbackStablePtrs' = Put(callbackStablePtrs, cb, last')
         /\ newJSValzh(a, cb)
  /\ UNCHANGED <<lost, own, running, collections, thrown>>

\* A bug: the callback stays in the table.
freeHaskellCallbackKept(sn) ==
  LET cb == closure2Val[sn]
  IN  /\ spt' = IF cb \in DOMAIN callbackStablePtrs THEN Without(spt, callbackStablePtrs[cb]) ELSE spt
      /\ closure2Val' = Without(closure2Val, sn)
      /\ UNCHANGED callbackStablePtrs

\* For an address with a value; the value need not be a callback.
freeHaskellCallback(sn) ==
  LET cb == closure2Val[sn]
  IN  /\ spt' = IF cb \in DOMAIN callbackStablePtrs THEN Without(spt, callbackStablePtrs[cb]) ELSE spt
      /\ callbackStablePtrs' = Without(callbackStablePtrs, cb)
      /\ closure2Val' = Without(closure2Val, sn)

\* The program frees callbacks that are not oneshot.
FreeHaskellCallback(a) ==
  /\ ~refs[a].freed /\ a \in DOMAIN closure2Val
  /\ refs[a].val \in DOMAIN callbacks /\ ~callbacks[refs[a].val].oneshot
  /\ freeHaskellCallback(a)
  /\ RefsFreed(a)
  /\ UNCHANGED <<used, lost, last, own, callbacks, running, collections, thrown>>

\* A bug: the finalizer runs when the call was a success only.
finalizerUnlessShort(cb, short) ==
  IF callbacks[cb].oneshot /\ ~short /\ callbacks[cb].sn \in DOMAIN closure2Val
  THEN freeHaskellCallback(callbacks[cb].sn)
  ELSE UNCHANGED <<spt, callbackStablePtrs, closure2Val>>

\* getJSValzh throws for an address without a value, and nothing is freed.
finalizer(cb, short) ==
  IF callbacks[cb].oneshot /\ callbacks[cb].sn \in DOMAIN closure2Val
  THEN freeHaskellCallback(callbacks[cb].sn)
  ELSE UNCHANGED <<spt, callbackStablePtrs, closure2Val>>

\* What the program can reach when a oneshot callback has freed its JSVal.
RefsFinalized(cb) ==
  IF callbacks[cb].oneshot /\ callbacks[cb].sn \in DOMAIN refs /\ refs[callbacks[cb].sn].val = cb
  THEN RefsFreed(callbacks[cb].sn)
  ELSE UNCHANGED refs

\* At the address that the finalizer of a oneshot callback keeps there is another value.
Strays(cb) ==
  LET sn == callbacks[cb].sn
  IN  callbacks[cb].oneshot /\ sn \in DOMAIN closure2Val /\ closure2Val[sn] # cb

LostFinalized(cb) == lost' = IF Strays(cb) THEN lost \cup {callbacks[cb].sn} ELSE lost

\* JavaScript calls a callback that has not been freed.
Invoke(cb, a, v) ==
  /\ cb \in DOMAIN callbackStablePtrs /\ running[cb] < MaxRunning
  /\ v \in Plain \cup DOMAIN callbacks
  /\ newJSValzh(a, v)
  /\ running' = [running EXCEPT ![cb] = @ + 1]
  /\ UNCHANGED <<lost, spt, last, own, callbacks, callbackStablePtrs, collections, thrown>>

\* A call with too few arguments throws before a thread is made.
InvokeShort(cb) ==
  /\ cb \in DOMAIN callbackStablePtrs
  /\ finalizer(cb, TRUE)
  /\ RefsFinalized(cb)
  /\ LostFinalized(cb)
  /\ UNCHANGED <<used, last, own, callbacks, running, collections, thrown>>

\* The thread of a call ends, in one way or the other.
FinishCall(cb) ==
  /\ running[cb] > 0
  /\ running' = [running EXCEPT ![cb] = @ - 1]
  /\ finalizer(cb, FALSE)
  /\ RefsFinalized(cb)
  /\ LostFinalized(cb)
  /\ UNCHANGED <<used, last, own, callbacks, collections, thrown>>

\* A bug: the table of the collection does not take the place of the old one.
liveOnly(moved) == closure2Val

liveJSVals(moved) ==
  [b \in Range(moved) |-> closure2Val[CHOOSE a \in DOMAIN moved : moved[a] = b]]

\* Every JSVal the program can reach is moved to new memory.  The old memory is
\* free behind the collection.
performGC ==
  /\ collections < MaxCollections
  /\ collections' = collections + 1
  /\ IF \E a \in DOMAIN refs : a \notin DOMAIN closure2Val
     THEN thrown' = TRUE /\ UNCHANGED jsvals
     ELSE \E moved \in UNION {Bijection(DOMAIN refs, to) : to \in Places(used, Cardinality(DOMAIN refs))} :
            /\ used' = Range(moved)
            /\ refs' = [b \in Range(moved) |-> refs[CHOOSE a \in DOMAIN moved : moved[a] = b]]
            /\ closure2Val' = liveJSVals(moved)
            /\ lost' = {}
            /\ UNCHANGED thrown
  /\ UNCHANGED <<spt, last, own, callbacks, callbackStablePtrs, running>>

CallbacksNext ==
  /\ ~thrown
  /\ \/ \E a \in Addresses, v \in Values : NewJSVal(a, v)
     \/ \E a \in DOMAIN refs : DropJSVal(a) \/ FreeJSVal(a) \/ FreeHaskellCallback(a)
     \/ \E f \in Fns : NewStablePtr(f)
     \/ \E sp \in DOMAIN own : FreeStablePtr(sp)
     \/ \E a \in Addresses, f \in Fns, oneshot \in OneShots : newHaskellCallback(a, f, oneshot)
     \/ \E cb \in 1..MaxCallbacks, a \in Addresses, v \in Values : Invoke(cb, a, v)
     \/ \E cb \in 1..MaxCallbacks : InvokeShort(cb) \/ FinishCall(cb)
     \/ performGC

CallbacksSpec == CallbacksInit /\ [][CallbacksNext]_callbacksVars

----------------------------------------------------------------------------
\* What is reached and what has a value lies in memory that is in use, and the
\* tables hold values, stable pointers and callbacks there are.
CallbacksTypeOK ==
  /\ DOMAIN refs \cup DOMAIN closure2Val \subseteq used /\ used \subseteq Addresses
  /\ Range(closure2Val) \subseteq Plain \cup DOMAIN callbacks
  /\ DOMAIN spt \subseteq 1..last /\ Range(spt) \subseteq Fns
  /\ DOMAIN callbackStablePtrs \subseteq DOMAIN callbacks

\* A JSVal the program can reach and has not freed stands for the value it was made
\* for, wherever collections have moved it, unless a oneshot callback has freed it in
\* place of its own; and that can only be one that was made before a collection.
ValuesKept ==
  /\ \A a \in DOMAIN refs \ lost :
       ~refs[a].freed => a \in DOMAIN closure2Val /\ closure2Val[a] = refs[a].val
  /\ \A cb \in DOMAIN callbacks : Strays(cb) => callbacks[cb].made < collections

\* A stable pointer stands for the function it was made for: the program's own, and
\* that of a callback as long as the callback is registered, so that a call of it
\* runs its function.
PointersKept ==
  /\ \A sp \in DOMAIN own : sp \in DOMAIN spt /\ spt[sp] = own[sp]
  /\ \A cb \in DOMAIN callbackStablePtrs :
       LET sp == callbacks[cb].sp
       IN  callbackStablePtrs[cb] = sp /\ sp \in DOMAIN spt /\ spt[sp] = callbacks[cb].f

\* No stable pointer is left of a callback that has been freed.
FreedTogether ==
  DOMAIN spt = DOMAIN own \cup Range(callbackStablePtrs)

\* What the tables of the runtime say of JavaScript values and callbacks is true.
TablesSound == CallbacksTypeOK /\ ValuesKept /\ FreedTogether

Called(cb) == InvokeShort(cb) \/ FinishCall(cb)

\* A callback is freed by the program through a JSVal of its own, or, if it is
\* oneshot, by a call of it that ends, or by one of a oneshot callback whose JSVal a
\* collection has moved and that finds a JSVal for the other callback in its place.
FreedByItsOwn ==
  \A cb \in DOMAIN callbackStablePtrs :
    cb \notin DOMAIN callbackStablePtrs' =>
      \/ callbacks[cb].oneshot /\ Called(cb)
      \/ ~callbacks[cb].oneshot /\ \E a \in DOMAIN refs : refs[a].val = cb /\ FreeHaskellCallback(a)
      \/ \E other \in DOMAIN callbacks :
           /\ Strays(other) /\ callbacks[other].made < collections /\ Called(other)
           /\ closure2Val[callbacks[other].sn] = cb

\* When a call of a oneshot callback ends, the callback is not registered any more,
\* unless a collection has come since it was made.
OneshotFreed ==
  \A cb \in DOMAIN callbacks :
    callbacks[cb].oneshot /\ callbacks[cb].made = collections
      /\ (running'[cb] < running[cb] \/ InvokeShort(cb))
      => cb \notin DOMAIN callbackStablePtrs'

\* "The runtime will automatically free the resources once the exported JavaScript
\* is invoked": and no others, whatever collections there have been.
OneshotsFreeThemselves ==
  [][ \A cb \in DOMAIN callbacks :
        callbacks[cb].oneshot /\ Called(cb)
          => cb \notin DOMAIN callbackStablePtrs' /\ lost' = lost ]_callbacksVars

\* "It's also possible to call freeJSVal to explicitly free them in the runtime":
\* a collection gets through.
CollectionsSucceed == ~thrown
============================================================================
