------------------------------- MODULE Threads -------------------------------
(***************************************************************************)
(* Haskell threads that synchronise through MVars, run by the scheduler:   *)
(* the composition of Scheduler and MVar, and what is correct about it.    *)
(***************************************************************************)
EXTENDS MVar

vars == <<schedVars, mvarVars>>

Init == SchedInit /\ MVarInit

\* A scheduler step leaves the MVars alone.  The value word of a frame goes
\* with the frame: tick enters a stg_ret_p frame, which returns the value.
SchedStep ==
  /\ SchedNext
  /\ arg' = [t \in Tid |-> IF frame'[t] \in {"put", "ret"} THEN arg[t] ELSE Empty]
  /\ UNCHANGED <<value, queue>>

Next == SchedStep \/ MVarNext

Spec == Init /\ [][Next]_vars

(***************************************************************************)
(* Fairness.  The event loop runs its callbacks: the first immediate, and, *)
(* since it looks at the timers in each of its rounds, every timer that is *)
(* due (strong fairness: no timer fires while a tick is on the stack).  A  *)
(* thread that runs comes back to the scheduler, at its next failed heap   *)
(* check if nothing else brings it back; returnedFromTSO is plain          *)
(* JavaScript and returns.  Nothing is assumed about foreign promises.     *)
(***************************************************************************)
LoopFairness ==
  /\ WF_vars(Tick /\ SchedStep)
  /\ WF_vars(ReturnedFromTSO /\ SchedStep)
  /\ WF_vars((StopAndRequeue \/ Catch(<<>>)) /\ SchedStep)
  /\ \A t \in Tid : SF_vars(TimerFires(t) /\ SchedStep)

FairSpec == Spec /\ LoopFairness

-----------------------------------------------------------------------------
(***************************************************************************)
(* Type invariant.                                                         *)
(***************************************************************************)

\* Every variable has its type.
TypeOK ==
  /\ SchedTypeOK(MVars)
  /\ value \in [MVars -> Values \cup {Empty}]
  /\ queue \in [MVars -> Seq(Tid)]
  /\ arg \in [Tid -> Values \cup {Empty}]

-----------------------------------------------------------------------------
(***************************************************************************)
(* Safety.                                                                 *)
(***************************************************************************)

Blocked(t) == \E m \in MVars : t \in Waiting(m)

\* No wakeup is lost and none is duplicated.  A live thread has exactly one way
\* to run again (it is running, or has one tick registered, or a timer, or a
\* promise whose reaction it awaits, or one place in one MVar queue) and a
\* thread that has ended has none: tick is never entered for a thread that is
\* dead or still blocked.  All of tick, returnedFromTSO, enqueueTSO and the
\* callers of tryWakeupThread have to agree on this; no code checks it.
OneWayToRun ==
  /\ \A t \in Tid : OneWay(t, Blocked(t))
  /\ IsInjective(immediates)
  /\ \A m \in MVars :
       /\ IsInjective(queue[m])
       /\ \A n \in MVars \ {m} : Waiting(m) \cap Waiting(n) = {}

\* The reason with which a thread returns is the truth about it: between
\* callbacks no thread is current; a thread that executes has not ended and is
\* in no queue; one that has returned is in a queue exactly when it says that
\* it is parked on an object, and has ended only if it says so.  why_blocked
\* keeps old values, so that returnedFromTSO, which trusts it, is right only
\* if every path that returns ThreadBlocked sets it.
ReturnReasonTrue ==
  /\ control = "loop" <=> running = NoThread
  /\ control = "wasm" => ~Ended(running) /\ ~Blocked(running)
  /\ control = "returned" =>
       /\ Blocked(running) <=> rRet = "ThreadBlocked" /\ whyBlocked[running] \in Parked
       /\ Ended(running) => rRet = "ThreadFinished"

\* The outcome of a foreign call reaches the call that caused it.  A result or
\* an error is kept for a thread only while that thread's tick is registered
\* and its stack expects it (tick would hand it to whatever runs otherwise),
\* it is the thread's own, and there are never both.
OutcomeMeetsCall ==
  \A t \in Tid :
    /\ ffiRet[t] # NoThread \/ ffiRetErr[t] # Undefined
         => t \in Queued /\ frame[t] = "ffi"
    /\ ffiRet[t] # NoThread => ffiRet[t] = t /\ ffiRetErr[t] = Undefined
    /\ t \in Awaiting => awaiting[t] = t /\ frame[t] = "ffi"

\* A thread's returnPromise is settled exactly when the thread has ended, the
\* way it ended, and getTSOrstat agrees with it.
SettledAsEnded ==
  \A t \in Tid :
    LET ended == Ended(t) /\ running # t
        killed == whatNext[t] = "Killed"
    IN
    /\ promise[t] = IF ~ended THEN "pending"
                    ELSE IF killed THEN "rejected" ELSE "resolved"
    /\ rstat[t] = IF ~ended THEN -1 ELSE IF killed THEN 2 ELSE 1

\* The queue of an MVar says what its threads wait for: behind a full MVar
\* only putters, with their value on the stack; behind an empty one readers
\* first, then takers; why_blocked and block_info as the wakers' assertions
\* (PrimOps.cmm 1595, 1596, 1756, 1783) want them.  The stack slots that
\* PerformTake and PerformPut overwrite are right only if this holds.
QueueDiscipline ==
  \A m \in MVars : \A i \in 1..Len(queue[m]) :
    LET t == queue[m][i] IN
    /\ blockInfo[t] = m
    /\ IF value[m] # Empty
       THEN frame[t] = "put" /\ whyBlocked[t] = "OnMVar" /\ arg[t] \in Values
       ELSE \/ /\ frame[t] = "take"
               /\ whyBlocked[t] = "OnMVar"
            \/ /\ frame[t] = "read"
               /\ whyBlocked[t] = "OnMVarRead"
               /\ \A j \in 1..i : frame[queue[m][j]] = "read"

\* A blocked operation is woken with the operation already performed ("a
\* blocked take or put is woken up with the take/put already performed",
\* PrimOps.cmm 1469): the frame that would redo it is on the stack only while
\* the thread is in the queue, and a value handed over is not left unread.
WokenWithOpPerformed ==
  \A t \in Tid :
    /\ frame[t] \in Retry => Blocked(t)
    /\ frame[t] = "ret" => t \in Queued /\ arg[t] \in Values

\* A settled foreign call leaves the thread a result or an exception: the
\* thread never goes on behind the call with neither (docs/jsffi.md, "Error
\* handling in JSFFI imports").
SettledCallHasOutcome ==
  \A t \in Queued :
    frame[t] = "ffi" => ffiRet[t] = t \/ ffiRetErr[t] \in Truthy

\* GHC.Conc describes ThreadRunning as "the thread is currently runnable or
\* running": threadStatus# reports it for every thread with a tick registered
\* and for the one that runs.
RunnableReportedRunning ==
  \A t \in Created :
    t \in Queued \/ (running = t /\ control = "wasm" /\ ~Ended(t))
      => ThreadStatus(t) = "ThreadRunning"

-----------------------------------------------------------------------------
(***************************************************************************)
(* Action properties.                                                      *)
(***************************************************************************)

\* The takers or putters in front of t in the queue of m.
Ahead(m, t) ==
  {queue[m][i] : i \in {j \in 1..Len(queue[m]) :
     /\ ~IsReader(queue[m][j])
     /\ \E k \in j+1..Len(queue[m]) : queue[m][k] = t}}

\* MVars are fair: nobody but a reader overtakes a thread blocked on an MVar,
\* so that as many takes (or puts) later as were waiting before it, it has its
\* turn.
NoOvertaking ==
  [][\A m \in MVars : \A t \in Waiting(m) :
       t \in Waiting(m)' => Ahead(m, t)' \subseteq Ahead(m, t)]_vars

\* Once a thread has ended nothing of it changes: neither a late promise
\* reaction nor a stale queue entry touches its stack, status or promise.
EndIsFinal ==
  [][\A t \in Tid :
       Ended(t) /\ running # t =>
         /\ running' # t
         /\ <<frame[t], whatNext[t], rstat[t], promise[t], ffiRet[t]>>'
              = <<frame[t], whatNext[t], rstat[t], promise[t], ffiRet[t]>>]_vars

\* What delay# asserts (PrimOps.cmm 2171): the thread that calls it is not
\* marked as blocked.
DelayedWhenNotBlocked ==
  [][Delay /\ SchedStep => whyBlocked[running] = "NotBlocked"]_vars

-----------------------------------------------------------------------------
(***************************************************************************)
(* Liveness, under LoopFairness.                                           *)
(***************************************************************************)

\* A thread that is ready runs: whoever woke it, and whatever the others do,
\* a registered tick is reached, and a sleeping thread gets one.
ReadyThreadsRun ==
  \A t \in Tid : t \in Queued \/ t \in sleeping ~> running = t

-----------------------------------------------------------------------------
(***************************************************************************)
(* Refinement of MVarSpec: what the stacks, the block reasons and the one  *)
(* queue of the code stand for.                                            *)
(***************************************************************************)

\* The takers or putters that wait for m, and all such lines.
Line(m) == SubSeq(queue[m], Readers(m) + 1, Len(queue[m]))
Lines == [m \in MVars |-> Line(m)]

WaitingReaders(m) == {t \in Waiting(m) : frame[t] = "read"}
AllReaders == [m \in MVars |-> WaitingReaders(m)]

\* The value a thread wants to put, and the value it was handed.
Offers == [t \in Tid |-> IF frame[t] = "put" THEN arg[t] ELSE Empty]
Handed == [t \in Tid |-> IF frame[t] = "ret" THEN arg[t] ELSE Empty]

Promised == INSTANCE MVarSpec WITH
  Threads <- Tid,
  cell    <- value,
  line    <- Lines,
  readers <- AllReaders,
  offer   <- Offers,
  got     <- Handed

\* Threads on the scheduler get from the MVar operations of PrimOps.cmm what
\* MVarSpec promises.
ImplementsMVarSpec == Promised!Spec
=============================================================================
