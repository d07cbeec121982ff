------------------------------- MODULE Thunks -------------------------------
(***************************************************************************)
(* Lazy evaluation by several threads: eagerly blackholed thunks (and CAFs), *)
(* update frames, and the threads that wait for a black hole, on top of the *)
(* scheduler (Builtins/Blackhole.hs, StgMiscClosures.cmm, Updates.cmm,      *)
(* rts.exception.mjs).                                                     *)
(*                                                                         *)
(* A thunk under evaluation points to the thread that evaluates it, or, once *)
(* a second thread has entered it, to a blocking queue with that owner and  *)
(* a list of messages, one per waiting thread, newest first.                *)
(***************************************************************************)
EXTENDS Scheduler, SequencesExt

CONSTANTS
  Closures,  \* the thunks
  Yolo       \* the runtime's yolo option: it never collects garbage

ASSUME ThunksAssumption == Undefined \notin Closures /\ Yolo \in BOOLEAN

VARIABLES
  state,    \* "thunk", "eval" while it is a black hole, "value", or "raise"
  owner,    \* the thread that evaluates it, or NoThread
  msgs,     \* the waiting threads, the last to come first
  updates,  \* the update frames on a thread's stack, the topmost first
  gcGuard   \* the reentrancy guard of the collector is held

thunkVars == <<state, owner, msgs, updates, gcGuard>>
vars == <<schedVars, thunkVars>>

Init ==
  /\ SchedInit
  /\ state = [x \in Closures |-> "thunk"]
  /\ owner = [x \in Closures |-> NoThread]
  /\ msgs = [x \in Closures |-> <<>>]
  /\ updates = [t \in Tid |-> <<>>]
  /\ gcGuard = FALSE

Waiters(x) == Range(msgs[x])
Waiting(t) == \E x \in Closures : t \in Waiters(x)
Evaluated(x) == state[x] \in {"value", "raise"}

\* The running thread enters x: its code needs the value, or a stg_enter frame
\* enters again the black hole that block_info's message is about.
Entering(x) ==
  /\ control = "wasm"
  /\ \/ frame[running] = "run"
     \/ frame[running] = "enter" /\ blockInfo[running] = x

\* A bug: lazy blackholing, which leaves the thunk as it is.
EnterLazily(x) ==
  /\ Entering(x)
  /\ state[x] = "thunk"
  /\ frame' = [frame EXCEPT ![running] = "run"]
  /\ updates' = [updates EXCEPT ![running] = <<x>> \o @]
  /\ UNCHANGED <<lastTid, whatNext, whyBlocked, blockInfo, infoVars, loopVars,
                 capVars, state, owner, msgs, gcGuard>>

\* A thunk's code, or newCAF, makes it a black hole and pushes its update frame.
EnterThunk(x) ==
  /\ Entering(x)
  /\ state[x] = "thunk"
  /\ state' = [state EXCEPT ![x] = "eval"]
  /\ owner' = [owner EXCEPT ![x] = running]
  /\ frame' = [frame EXCEPT ![running] = "run"]
  /\ updates' = [updates EXCEPT ![running] = <<x>> \o @]
  /\ UNCHANGED <<lastTid, whatNext, whyBlocked, blockInfo, infoVars, loopVars,
                 capVars, msgs, gcGuard>>

\* The entry code of a black hole: messageBlackHole makes or extends the
\* blocking queue, and the thread returns to the scheduler.
EnterBlackHole(x) ==
  /\ Entering(x)
  /\ state[x] = "eval"
  /\ msgs' = [msgs EXCEPT ![x] = <<running>> \o @]
  /\ whyBlocked' = [whyBlocked EXCEPT ![running] = "OnBlackHole"]
  /\ blockInfo' = [blockInfo EXCEPT ![running] = x]
  /\ frame' = [frame EXCEPT ![running] = "enter"]
  /\ whatNext' = [whatNext EXCEPT ![running] = "RunGHC"]
  /\ ReturnToSched("ThreadBlocked")
  /\ UNCHANGED <<lastTid, infoVars, blockingPromise, loopVars, state, owner,
                 updates, gcGuard>>

\* The black hole points to a value, or to a closure that raises.
EnterEvaluated(x) ==
  /\ Entering(x)
  /\ Evaluated(x)
  /\ frame' = [frame EXCEPT ![running] =
                 IF state[x] = "value" THEN "run" ELSE "raise"]
  /\ UNCHANGED <<lastTid, whatNext, whyBlocked, blockInfo, infoVars, loopVars,
                 capVars, thunkVars>>

-----------------------------------------------------------------------------
\* The n topmost update frames of the running thread go, and updateThunk
\* stores the result in each of their thunks and wakes the waiters.
Popped(n) == SubSeq(updates[running], 1, n)

\* A bug: only the newest message of each queue is looked at.
WokenFirst(n) ==
  FlattenSeq([i \in 1..n |-> LET q == msgs[Popped(n)[i]] IN
                            IF q = <<>> THEN q ELSE <<Head(q)>>])

Woken(n) == FlattenSeq([i \in 1..n |-> msgs[Popped(n)[i]]])

\* Bugs: the blocking queue keeps its messages; the update frames stay.
ForgetsQueue(n, result) ==
  LET xs == Range(Popped(n)) IN
  /\ state' = [x \in Closures |-> IF x \in xs THEN result ELSE state[x]]
  /\ owner' = [x \in Closures |-> IF x \in xs THEN NoThread ELSE owner[x]]
  /\ updates' = [updates EXCEPT ![running] = SubSeq(@, n + 1, Len(@))]
  /\ UNCHANGED <<msgs, gcGuard>>

UpdateTwice(n, result) ==
  LET xs == Range(Popped(n)) IN
  /\ state' = [x \in Closures |-> IF x \in xs THEN result ELSE state[x]]
  /\ owner' = [x \in Closures |-> IF x \in xs THEN NoThread ELSE owner[x]]
  /\ msgs' = [x \in Closures |-> IF x \in xs THEN <<>> ELSE msgs[x]]
  /\ UNCHANGED <<updates, gcGuard>>

UpdateThunks(n, result) ==
  LET xs == Range(Popped(n)) IN
  /\ state' = [x \in Closures |-> IF x \in xs THEN result ELSE state[x]]
  /\ owner' = [x \in Closures |-> IF x \in xs THEN NoThread ELSE owner[x]]
  /\ msgs' = [x \in Closures |-> IF x \in xs THEN <<>> ELSE msgs[x]]
  /\ updates' = [updates EXCEPT ![running] = SubSeq(@, n + 1, Len(@))]
  /\ UNCHANGED gcGuard

\* The value of the thunk under evaluation returns to its update frame.
Update ==
  /\ Executing
  /\ updates[running] # <<>>
  /\ immediates' = immediates \o Woken(1)
  /\ UpdateThunks(1, "value")
  /\ UNCHANGED <<lastTid, tsoVars, infoVars, sleeping, awaiting, capVars>>

\* raiseExceptionHelper: every update frame above the handler updates its
\* thunk with a closure that raises the exception again.
RaiseToHandler ==
  \E n \in 0..Len(updates[running]) :
    /\ Catch(Woken(n))
    /\ UpdateThunks(n, "raise")

\* A bug: the stop frame is reached and the update frames are dropped.
RaiseDropsFrames ==
  /\ Die(<<>>)
  /\ updates' = [updates EXCEPT ![running] = <<>>]
  /\ UNCHANGED <<state, owner, msgs, gcGuard>>

RaiseToStopFrame ==
  LET n == Len(updates[running]) IN
  /\ Die(Woken(n))
  /\ UpdateThunks(n, "raise")

FinishThread ==
  /\ Finish
  /\ updates[running] = <<>>
  /\ UNCHANGED thunkVars

-----------------------------------------------------------------------------
\* performGC, called by returnedFromTSO, throws when it meets a blocking queue,
\* a closure type evacuateClosure does not know, or when its guard is held: the
\* tick ends there.  A collection that is skipped (yolo, or a heap below the
\* threshold) or that meets no blocking queue is part of RequeueReturned.
CannotCollect ==
  /\ ~Yolo
  /\ gcGuard \/ \E x \in Closures : msgs[x] # <<>>

CollectionThrows ==
  /\ CannotCollect
  /\ BackToLoop
  /\ rRet = "HeapOverflow"
  /\ gcGuard' = TRUE
  /\ UNCHANGED <<infoVars, blockingPromise, loopVars, state, owner, msgs, updates>>

\* performMajorGC, called by a running thread: the error is caught by tick.
MajorCollectionThrows ==
  /\ CannotCollect
  /\ ThrowSync
  /\ gcGuard' = TRUE
  /\ UNCHANGED <<state, owner, msgs, updates>>

Next ==
  \/ (LoopNext \/ ReturnedFromTSO) /\ UNCHANGED thunkVars
  \/ FinishThread
  \/ \E x \in Closures : EnterThunk(x) \/ EnterBlackHole(x) \/ EnterEvaluated(x)
  \/ Update
  \/ control = "wasm" /\ (RaiseToHandler \/ RaiseToStopFrame)
  \/ CollectionThrows
  \/ MajorCollectionThrows

Spec == Init /\ [][Next]_vars

-----------------------------------------------------------------------------
\* Every variable has its type.
TypeOK ==
  /\ SchedTypeOK(Closures)
  /\ state \in [Closures -> {"thunk", "eval", "value", "raise"}]
  /\ owner \in [Closures -> Tid \cup {NoThread}]
  /\ msgs \in [Closures -> Seq(Tid)]
  /\ updates \in [Tid -> Seq(Closures)]
  /\ gcGuard \in BOOLEAN

\* No wakeup is lost or duplicated when threads wait for black holes: a live
\* thread is running, or has one tick, one timer, one promise or one message
\* in one blocking queue, and a thread that has ended has none of them.
EvaluatorsHaveOneWay ==
  /\ \A t \in Tid : OneWay(t, Waiting(t))
  /\ IsInjective(immediates)
  /\ \A x \in Closures :
       /\ IsInjective(msgs[x])
       /\ \A y \in Closures \ {x} : Waiters(x) \cap Waiters(y) = {}

\* A thunk is evaluated by one thread at a time: it is a black hole exactly
\* while one update frame for it exists, which is on its owner's stack.  So
\* updateThunk never meets a "weird thunk" or one that is "not my thunk".
EvaluatedByItsOwner ==
  \A x \in Closures :
    LET frames == UNION {{t} \X {i \in DOMAIN updates[t] : updates[t][i] = x} : t \in Tid}
    IN
    IF state[x] = "eval"
    THEN \E i \in DOMAIN updates[owner[x]] : frames = {<<owner[x], i>>}
    ELSE frames = {} /\ owner[x] = NoThread

\* Nobody waits for a thunk that nobody evaluates: it has an owner who has
\* not ended, even when evaluations are abandoned by exceptions.
WaitersHaveAnEvaluator ==
  \A x \in Closures :
    /\ msgs[x] # <<>> => state[x] = "eval" /\ ~Ended(owner[x])
    /\ \A t \in Waiters(x) :
         frame[t] = "enter" /\ blockInfo[t] = x /\ whyBlocked[t] = "OnBlackHole"

\* A thunk is assigned once, and the step that assigns it registers a tick for
\* every thread that waits for it: a waiter leaves the queue in no other way.
AssignedOnceAndTold ==
  [][\A x \in Closures :
       /\ Evaluated(x) => state'[x] = state[x]
       /\ \A t \in Waiters(x) :
            \/ t \in Waiters(x)'
            \/ Evaluated(x)' /\ t \in Queued']_vars

\* "put the thread back into the run-queue" (rts.scheduler.mjs 116): a thread
\* that returned for a collection is registered again.
CollectedThreadRequeued ==
  [][control = "returned" /\ rRet = "HeapOverflow" /\ control' = "loop"
       => running \in Queued']_vars
=============================================================================
