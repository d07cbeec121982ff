------------------------------ MODULE Scheduler ------------------------------
(***************************************************************************)
(* The green-thread scheduler of the runtime: rts.scheduler.mjs, with the  *)
(* primitive operations and built-ins that hand control back to it.        *)
(*                                                                         *)
(* JavaScript gives the runtime one event loop.  A Haskell thread runs     *)
(* inside one callback (a "tick"): the tick enters WebAssembly, the thread *)
(* runs until one of its operations returns to the scheduler, and          *)
(* returnedFromTSO decides what will run the thread again.  There is no    *)
(* run queue of the runtime's own: the queue is the event loop's list of   *)
(* immediates, one tick per entry, plus the timers and the JavaScript      *)
(* promises that will add an entry later.                                  *)
(***************************************************************************)
EXTENDS Integers, Sequences, Functions

CONSTANTS
  MaxThreads,   \* bound on lastTid, the number of threads ever created
  Errors,       \* JavaScript values a foreign call may throw or reject with
  Truthy,       \* those of them that JavaScript takes as true
  Undefined     \* the JavaScript value undefined

ASSUME SchedulerAssumption ==
  /\ MaxThreads \in Nat \ {0}
  /\ Truthy \subseteq Errors
  /\ Undefined \notin Truthy

Tid == 1..MaxThreads
NoThread == 0

(***************************************************************************)
(* What the top of a suspended thread's stack will do when it is entered:  *)
(*   "run"    go on with the thread's own code                             *)
(*   "ffi"    go on after a foreign call, expecting its result in R1       *)
(*   "raise"  the stg_raise_ret frame tick pushes: throw a JSException     *)
(*   "take", "read", "put"   the stg_block_*mvar frames: redo the operation *)
(*   "enter"  stg_enter: enter the black hole again                        *)
(*   "ret"    stg_ret_p: return the value a waker left in the frame        *)
(***************************************************************************)
Retry == {"take", "read", "put", "enter"}
Frame == {"run", "ffi", "raise", "ret"} \cup Retry

WhatNext   == {"RunGHC", "Killed", "Complete"}
Parked     == {"OnMVar", "OnMVarRead", "OnBlackHole"}
WhyBlocked == {"NotBlocked", "OnDelay", "OnCCall"} \cup Parked
Requeued   == {"HeapOverflow", "StackOverflow", "ThreadYielding"}
Reason     == Requeued \cup {"ThreadBlocked", "ThreadFinished"}

VARIABLES
  lastTid,          \* the last thread identifier given out
  whatNext,         \* StgTSO.what_next of every thread
  whyBlocked,       \* StgTSO.why_blocked of every thread
  blockInfo,        \* StgTSO.block_info, Undefined when it is not an object
  frame,            \* the top of every thread's stack
  ffiRet,           \* the call whose result tick will pass on, or NoThread
  ffiRetErr,        \* the error tick will raise, or Undefined
  rstat,            \* -1 until the thread ends, then a SchedulerStatus
  promise,          \* the state of the thread's returnPromise
  control,          \* "loop" between callbacks, "wasm", or "returned"
  running,          \* the thread of the current tick, or NoThread
  rRet,             \* the register that says why the thread returned
  blockingPromise,  \* the promise of the foreign call being made
  immediates,       \* the ticks registered with setImmediate
  sleeping,         \* the threads with a timer
  awaiting          \* for every thread the promise it awaits, or NoThread

tsoVars   == <<whatNext, whyBlocked, blockInfo, frame>>
infoVars  == <<ffiRet, ffiRetErr, rstat, promise>>
loopVars  == <<immediates, sleeping, awaiting>>
capVars   == <<control, running, rRet, blockingPromise>>
schedVars == <<lastTid, tsoVars, infoVars, loopVars, capVars>>

SchedInit ==
  /\ lastTid = 0
  /\ whatNext   = [t \in Tid |-> "RunGHC"]
  /\ whyBlocked = [t \in Tid |-> "NotBlocked"]
  /\ blockInfo  = [t \in Tid |-> Undefined]
  /\ frame      = [t \in Tid |-> "run"]
  /\ ffiRet     = [t \in Tid |-> NoThread]
  /\ ffiRetErr  = [t \in Tid |-> Undefined]
  /\ rstat      = [t \in Tid |-> -1]
  /\ promise    = [t \in Tid |-> "pending"]
  /\ control = "loop"
  /\ running = NoThread
  /\ rRet = "ThreadFinished"
  /\ blockingPromise = NoThread
  /\ immediates = <<>>
  /\ sleeping = {}
  /\ awaiting = [t \in Tid |-> NoThread]

Created  == 1..lastTid
Queued   == Range(immediates)
Awaiting == {t \in Tid : awaiting[t] # NoThread}
Ended(t) == whatNext[t] \in {"Killed", "Complete"}

-----------------------------------------------------------------------------
(***************************************************************************)
(* Creating threads.                                                       *)
(***************************************************************************)

\* createThread fills in a fresh TSO, newTSO its JavaScript record, and
\* enqueueTSO registers the first tick: all in one run of JavaScript.
NewThread ==
  LET t == lastTid + 1 IN
  /\ lastTid < MaxThreads
  /\ lastTid' = t
  /\ whatNext'   = [whatNext EXCEPT ![t] = "RunGHC"]
  /\ whyBlocked' = [whyBlocked EXCEPT ![t] = "NotBlocked"]
  /\ frame'      = [frame EXCEPT ![t] = "run"]
  /\ ffiRet'     = [ffiRet EXCEPT ![t] = NoThread]
  /\ ffiRetErr'  = [ffiRetErr EXCEPT ![t] = Undefined]
  /\ rstat'      = [rstat EXCEPT ![t] = -1]
  /\ promise'    = [promise EXCEPT ![t] = "pending"]
  /\ immediates' = Append(immediates, t)
  /\ UNCHANGED <<blockInfo, sleeping, awaiting, capVars>>

Executing == control = "wasm" /\ frame[running] = "run"

\* JavaScript evaluates a closure: between two callbacks, or inside a foreign
\* import of the running thread whose code calls an exported function.
SubmitCmdCreateThread ==
  /\ control = "loop" \/ Executing
  /\ NewThread

\* fork# and forkOn#: the parent goes on.
Fork == Executing /\ NewThread

-----------------------------------------------------------------------------
(***************************************************************************)
(* tick: enter a thread.                                                   *)
(***************************************************************************)

\* What the stack of t does once tick has dealt with the outcome of a foreign
\* call: an error becomes a frame that raises it, a result is in R1 when the
\* frame that wants it is entered.
Resumed(t) ==
  IF ffiRetErr[t] \in Truthy THEN "raise"
  ELSE IF frame[t] \in Retry THEN frame[t]
  ELSE "run"

\* A bug: tick forgets to clear the outcome it has passed on.
TickKeepsOutcome ==
  LET t == Head(immediates) IN
  /\ control = "loop"
  /\ immediates # <<>>
  /\ immediates' = Tail(immediates)
  /\ frame' = [frame EXCEPT ![t] = Resumed(t)]
  /\ control' = "wasm"
  /\ running' = t
  /\ UNCHANGED <<lastTid, whatNext, whyBlocked, blockInfo, infoVars, rRet,
                 blockingPromise, sleeping, awaiting>>

Tick ==
  LET t == Head(immediates) IN
  /\ control = "loop"
  /\ immediates # <<>>
  /\ immediates' = Tail(immediates)
  /\ frame'     = [frame EXCEPT ![t] = Resumed(t)]
  /\ ffiRet'    = [ffiRet EXCEPT ![t] = NoThread]
  /\ ffiRetErr' = [ffiRetErr EXCEPT ![t] = Undefined]
  /\ control' = "wasm"
  /\ running' = t
  /\ UNCHANGED <<lastTid, whatNext, whyBlocked, blockInfo, rstat, promise, rRet,
                 blockingPromise, sleeping, awaiting>>

-----------------------------------------------------------------------------
(***************************************************************************)
(* Operations with which the running thread returns to the scheduler.      *)
(***************************************************************************)

ReturnToSched(why) ==
  /\ rRet' = why
  /\ control' = "returned"
  /\ UNCHANGED running

\* A failed heap or stack check, or yield#.
StopAndRequeue ==
  /\ Executing
  /\ \E why \in Requeued : ReturnToSched(why)
  /\ whatNext' = [whatNext EXCEPT ![running] = "RunGHC"]
  /\ UNCHANGED <<lastTid, whyBlocked, blockInfo, frame, infoVars,
                 blockingPromise, loopVars>>

\* delay#: block_info holds the number of microseconds.
Delay ==
  /\ Executing
  /\ blockInfo' = [blockInfo EXCEPT ![running] = Undefined]
  /\ whyBlocked' = [whyBlocked EXCEPT ![running] = "OnDelay"]
  /\ whatNext' = [whatNext EXCEPT ![running] = "RunGHC"]
  /\ ReturnToSched("ThreadBlocked")
  /\ UNCHANGED <<lastTid, frame, infoVars, blockingPromise, loopVars>>

\* A safe JavaScript import: the generated lambda hands its promise to
\* returnFFIPromise, and the wrapper blocks the thread.  A promise is named
\* after the thread whose call made it.
SafeCall ==
  /\ Executing
  /\ blockingPromise' = running
  /\ whyBlocked' = [whyBlocked EXCEPT ![running] = "OnCCall"]
  /\ frame' = [frame EXCEPT ![running] = "ffi"]
  /\ ReturnToSched("ThreadBlocked")
  /\ UNCHANGED <<lastTid, whatNext, blockInfo, infoVars, loopVars>>

\* An unsafe import, or the runtime itself, throws: tick catches the error and
\* registers another tick, which will raise it in the thread.
ThrowSync ==
  /\ Executing
  /\ frame' = [frame EXCEPT ![running] = "ffi"]
  /\ \E e \in Errors : ffiRetErr' = [ffiRetErr EXCEPT ![running] = e]
  /\ immediates' = Append(immediates, running)
  /\ control' = "loop"
  /\ running' = NoThread
  /\ UNCHANGED <<lastTid, whatNext, whyBlocked, blockInfo, ffiRet, rstat, promise, rRet,
                 blockingPromise, sleeping, awaiting>>

\* raise# finds a catch frame and goes on with the handler, or strips the whole
\* stack: the thread is dead.  The update frames it meets on its way wake the
\* threads that wait for the thunks they update.
Raising == control = "wasm" /\ frame[running] \in {"run", "raise"}

Catch(woken) ==
  /\ Raising
  /\ frame' = [frame EXCEPT ![running] = "run"]
  /\ immediates' = immediates \o woken
  /\ UNCHANGED <<lastTid, whatNext, whyBlocked, blockInfo, infoVars, capVars,
                 sleeping, awaiting>>

Die(woken) ==
  /\ Raising
  /\ whatNext' = [whatNext EXCEPT ![running] = "Killed"]
  /\ frame' = [frame EXCEPT ![running] = "run"]
  /\ ReturnToSched("ThreadFinished")
  /\ immediates' = immediates \o woken
  /\ UNCHANGED <<lastTid, whyBlocked, blockInfo, infoVars, blockingPromise,
                 sleeping, awaiting>>

\* stg_stop_thread, the last frame of every stack.
Finish ==
  /\ Executing
  /\ whatNext' = [whatNext EXCEPT ![running] = "Complete"]
  /\ ReturnToSched("ThreadFinished")
  /\ UNCHANGED <<lastTid, whyBlocked, blockInfo, frame, infoVars,
                 blockingPromise, loopVars>>

-----------------------------------------------------------------------------
(***************************************************************************)
(* returnedFromTSO: what will run the thread again.                        *)
(***************************************************************************)

BackToLoop ==
  /\ control = "returned"
  /\ control' = "loop"
  /\ running' = NoThread
  /\ UNCHANGED <<lastTid, tsoVars, rRet>>

\* Heap overflow (after a collection), stack overflow (after growing the
\* stack) and yield register a tick; so does a "finished" thread with code
\* still to run.
RequeueReturned ==
  /\ BackToLoop
  /\ \/ rRet \in Requeued
     \/ rRet = "ThreadFinished" /\ whatNext[running] = "RunGHC"
  /\ immediates' = Append(immediates, running)
  /\ UNCHANGED <<infoVars, blockingPromise, sleeping, awaiting>>

\* A bug: blockingPromise is not reset.
AwaitKeepsPromise ==
  /\ BackToLoop
  /\ rRet = "ThreadBlocked"
  /\ whyBlocked[running] = "OnCCall"
  /\ awaiting' = [awaiting EXCEPT ![running] = blockingPromise]
  /\ UNCHANGED <<blockingPromise, infoVars, immediates, sleeping>>

AwaitReturned ==
  /\ BackToLoop
  /\ rRet = "ThreadBlocked"
  /\ whyBlocked[running] = "OnCCall"
  /\ awaiting' = [awaiting EXCEPT ![running] = blockingPromise]
  /\ blockingPromise' = NoThread
  /\ UNCHANGED <<infoVars, immediates, sleeping>>

SleepReturned ==
  /\ BackToLoop
  /\ rRet = "ThreadBlocked"
  /\ whyBlocked[running] = "OnDelay"
  /\ sleeping' = sleeping \cup {running}
  /\ UNCHANGED <<infoVars, blockingPromise, immediates, awaiting>>

\* A bug: the case for MVars falls through to one that registers a tick.
ParkRequeues ==
  /\ BackToLoop
  /\ rRet = "ThreadBlocked"
  /\ whyBlocked[running] \in Parked
  /\ immediates' = Append(immediates, running)
  /\ UNCHANGED <<infoVars, blockingPromise, sleeping, awaiting>>

\* Nothing to do: the thread that ends the wait calls enqueueTSO.
ParkReturned ==
  /\ BackToLoop
  /\ rRet = "ThreadBlocked"
  /\ whyBlocked[running] \in Parked
  /\ UNCHANGED <<infoVars, blockingPromise, loopVars>>

\* Bugs: the status is the raw what_next; a killed thread resolves its
\* promise; an ended thread is registered again.
EndStoresWhatNext ==
  /\ BackToLoop
  /\ rRet = "ThreadFinished"
  /\ Ended(running)
  /\ rstat' = [rstat EXCEPT ![running] = 4]
  /\ promise' = [promise EXCEPT ![running] = "resolved"]
  /\ UNCHANGED <<ffiRet, ffiRetErr, blockingPromise, loopVars>>

EndAlwaysResolves ==
  /\ BackToLoop
  /\ rRet = "ThreadFinished"
  /\ Ended(running)
  /\ rstat' = [rstat EXCEPT ![running] =
                 IF whatNext[running] = "Killed" THEN 2 ELSE 1]
  /\ promise' = [promise EXCEPT ![running] = "resolved"]
  /\ UNCHANGED <<ffiRet, ffiRetErr, blockingPromise, loopVars>>

EndRequeues ==
  /\ BackToLoop
  /\ rRet = "ThreadFinished"
  /\ immediates' = Append(immediates, running)
  /\ UNCHANGED <<infoVars, blockingPromise, sleeping, awaiting>>

\* Settling a promise that is not pending any more does nothing.
EndReturned ==
  /\ BackToLoop
  /\ rRet = "ThreadFinished"
  /\ Ended(running)
  /\ LET killed == whatNext[running] = "Killed" IN
     /\ rstat' = [rstat EXCEPT ![running] = IF killed THEN 2 ELSE 1]
     /\ promise' = [promise EXCEPT ![running] =
                      IF @ # "pending" THEN @
                      ELSE IF killed THEN "rejected" ELSE "resolved"]
  /\ UNCHANGED <<ffiRet, ffiRetErr, blockingPromise, loopVars>>

ReturnedFromTSO ==
  \/ RequeueReturned
  \/ AwaitReturned
  \/ SleepReturned
  \/ ParkReturned
  \/ EndReturned

-----------------------------------------------------------------------------
(***************************************************************************)
(* Callbacks of the event loop other than ticks.                           *)
(***************************************************************************)

\* A bug: the timer's promise is resolved and nobody registers a tick.
TimerForgets(t) ==
  /\ control = "loop"
  /\ t \in sleeping
  /\ sleeping' = sleeping \ {t}
  /\ UNCHANGED <<lastTid, tsoVars, infoVars, capVars, immediates, awaiting>>

\* The timer of t fires.
TimerFires(t) ==
  /\ control = "loop"
  /\ t \in sleeping
  /\ sleeping' = sleeping \ {t}
  /\ immediates' = Append(immediates, t)
  /\ UNCHANGED <<lastTid, tsoVars, infoVars, capVars, awaiting>>

\* The promise t awaits is settled: its reaction stores the outcome and
\* registers a tick.
Settled(t) ==
  /\ control = "loop"
  /\ t \in Awaiting
  /\ awaiting' = [awaiting EXCEPT ![t] = NoThread]
  /\ immediates' = Append(immediates, t)
  /\ UNCHANGED <<lastTid, tsoVars, rstat, promise, capVars, sleeping>>

PromiseResolves(t) ==
  /\ Settled(t)
  /\ ffiRet' = [ffiRet EXCEPT ![t] = awaiting[t]]
  /\ UNCHANGED ffiRetErr

\* A bug: a rejection only registers the tick.
RejectionIgnored(t) == Settled(t) /\ UNCHANGED <<ffiRet, ffiRetErr>>

PromiseRejects(t) ==
  /\ Settled(t)
  /\ \E e \in Errors : ffiRetErr' = [ffiRetErr EXCEPT ![t] = e]
  /\ UNCHANGED ffiRet

-----------------------------------------------------------------------------
\* threadStatus#, as GHC.Conc shows its result.
ThreadStatus(t) ==
  CASE whatNext[t] = "Complete"      -> "ThreadFinished"
    [] whatNext[t] = "Killed"        -> "ThreadDied"
    [] ~Ended(t) /\ whyBlocked[t] = "NotBlocked" -> "ThreadRunning"
    [] OTHER                         -> "ThreadBlocked"

-----------------------------------------------------------------------------
\* The steps that have nothing to do with the rest of the stack.
LoopNext ==
  \/ SubmitCmdCreateThread
  \/ Fork
  \/ Tick
  \/ StopAndRequeue
  \/ Delay
  \/ SafeCall
  \/ ThrowSync
  \/ \E t \in Tid : TimerFires(t) \/ PromiseResolves(t) \/ PromiseRejects(t)

SchedNext ==
  \/ LoopNext
  \/ ReturnedFromTSO
  \/ Catch(<<>>)
  \/ Die(<<>>)
  \/ Finish

-----------------------------------------------------------------------------
\* A thread that still has something to do, or whose end is being recorded.
Live(t) == t \in Created /\ (~Ended(t) \/ running = t)

\* A live thread is in exactly one of the places from which it comes to run, or
\* runs already, and no other thread is in any of them.  blocked says whether t
\* is in the queue of an object; a running thread may have just entered one.
OneWay(t, blocked) ==
  /\ Live(t) <=> running = t \/ blocked \/ t \in Queued \cup sleeping \cup Awaiting
  /\ running = t \/ blocked => t \notin Queued \cup sleeping \cup Awaiting
  /\ t \in Queued => t \notin sleeping \cup Awaiting
  /\ t \notin sleeping \cap Awaiting

\* The single blockingPromise slot holds the promise of the thread that has
\* just returned, when it returned from a safe foreign call, and nothing at
\* any other time: returnedFromTSO can neither find it empty nor take another
\* thread's promise, although why_blocked keeps old values.
BlockingPromiseOwned ==
  blockingPromise =
    IF control = "returned" /\ rRet = "ThreadBlocked"
       /\ whyBlocked[running] = "OnCCall"
    THEN running ELSE NoThread

\* The types of the scheduler's variables; objects are what a thread may be
\* blocked on.
SchedTypeOK(objects) ==
  /\ lastTid \in 0..MaxThreads
  /\ whatNext \in [Tid -> WhatNext]
  /\ whyBlocked \in [Tid -> WhyBlocked]
  /\ blockInfo \in [Tid -> objects \cup {Undefined}]
  /\ frame \in [Tid -> Frame]
  /\ ffiRet \in [Tid -> Tid \cup {NoThread}]
  /\ ffiRetErr \in [Tid -> Errors \cup {Undefined}]
  /\ rstat \in [Tid -> {-1, 1, 2}]
  /\ promise \in [Tid -> {"pending", "resolved", "rejected"}]
  /\ control \in {"loop", "wasm", "returned"}
  /\ running \in Tid \cup {NoThread}
  /\ rRet \in Reason
  /\ blockingPromise \in Tid \cup {NoThread}
  /\ immediates \in Seq(Tid)
  /\ sleeping \in SUBSET Tid
  /\ awaiting \in [Tid -> Tid \cup {NoThread}]
=============================================================================
