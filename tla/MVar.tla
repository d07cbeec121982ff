-------------------------------- MODULE MVar --------------------------------
(***************************************************************************)
(* The MVar primitive operations of PrimOps.cmm, on top of the scheduler.  *)
(* An MVar is a value, or empty, and one queue of blocked threads: the     *)
(* linked list from StgMVar.head to StgMVar.tail, here a sequence.  What a *)
(* queued thread waits for is not in the queue: takers and putters are     *)
(* told apart by the MVar being empty or full, takers and readers by       *)
(* why_blocked, and the operation itself is a frame on the thread's stack, *)
(* which the waker rewrites (PerformTake, PerformPut).                     *)
(***************************************************************************)
EXTENDS Scheduler

CONSTANTS
  MVars,    \* the MVars
  Values,   \* the values put into them
  Empty     \* stg_END_TSO_QUEUE_closure in StgMVar.value: no value

ASSUME MVarAssumption == Empty \notin Values /\ Undefined \notin MVars

VARIABLES
  value,  \* StgMVar.value
  queue,  \* the blocked threads, first to be woken first
  arg     \* the value word of a thread's top frame, or Empty

mvarVars == <<value, queue, arg>>

\* newMVar#: empty, with nobody waiting.
MVarInit ==
  /\ value = [m \in MVars |-> Empty]
  /\ queue = [m \in MVars |-> <<>>]
  /\ arg = [t \in Tid |-> Empty]

Waiting(m) == Range(queue[m])

\* The running thread is at operation op on m: it calls it, or its blocked
\* frame was entered again without a waker having performed the operation.
At(op, m) ==
  /\ control = "wasm"
  /\ \/ frame[running] = "run"
     \/ frame[running] = op /\ blockInfo[running] = m

\* tryWakeupThread for the threads ts, in that order.
Wake(ts) == immediates' = immediates \o ts

\* A bug: block_info is not set.
BlockOnNothing(op, m, v, why) ==
  /\ frame' = [frame EXCEPT ![running] = op]
  /\ arg' = [arg EXCEPT ![running] = v]
  /\ whyBlocked' = [whyBlocked EXCEPT ![running] = why]
  /\ whatNext' = [whatNext EXCEPT ![running] = "RunGHC"]
  /\ ReturnToSched("ThreadBlocked")
  /\ UNCHANGED <<lastTid, blockInfo, infoVars, blockingPromise, loopVars, value>>

\* The part common to the three blocking paths: the frame that holds the
\* operation goes on the stack, and the thread returns to the scheduler.
Block(op, m, v, why) ==
  /\ frame' = [frame EXCEPT ![running] = op]
  /\ arg' = [arg EXCEPT ![running] = v]
  /\ blockInfo' = [blockInfo EXCEPT ![running] = m]
  /\ whyBlocked' = [whyBlocked EXCEPT ![running] = why]
  /\ whatNext' = [whatNext EXCEPT ![running] = "RunGHC"]
  /\ ReturnToSched("ThreadBlocked")
  /\ UNCHANGED <<lastTid, infoVars, blockingPromise, loopVars, value>>

-----------------------------------------------------------------------------
\* Bugs: the value of the putter that is woken is lost; the putter is woken
\* and stays in the queue.
TakeDropsPut(m) ==
  /\ value[m] # Empty
  /\ value' = [value EXCEPT ![m] = Empty]
  /\ IF queue[m] = <<>>
     THEN /\ frame' = [frame EXCEPT ![running] = "run"]
          /\ UNCHANGED <<queue, arg, immediates>>
     ELSE LET w == Head(queue[m]) IN
          /\ queue' = [queue EXCEPT ![m] = Tail(@)]
          /\ frame' = [frame EXCEPT ![running] = "run", ![w] = "run"]
          /\ arg' = [arg EXCEPT ![w] = Empty]
          /\ Wake(<<w>>)
  /\ UNCHANGED <<lastTid, whatNext, whyBlocked, blockInfo, infoVars, capVars,
                 sleeping, awaiting>>

TakeLeavesPutter(m) ==
  /\ value[m] # Empty
  /\ IF queue[m] = <<>>
     THEN value' = [value EXCEPT ![m] = Empty] /\ UNCHANGED immediates
     ELSE /\ value' = [value EXCEPT ![m] = arg[Head(queue[m])]]
          /\ Wake(<<Head(queue[m])>>)
  /\ frame' = [frame EXCEPT ![running] = "run"]
  /\ UNCHANGED <<lastTid, whatNext, whyBlocked, blockInfo, infoVars, capVars,
                 queue, arg, sleeping, awaiting>>

\* takeMVar# and tryTakeMVar# on a full MVar: the first blocked putter, if
\* there is one, has its put performed and is woken.
TakeValue(m) ==
  /\ value[m] # Empty
  /\ IF queue[m] = <<>>
     THEN /\ value' = [value EXCEPT ![m] = Empty]
          /\ frame' = [frame EXCEPT ![running] = "run"]
          /\ UNCHANGED <<queue, arg, immediates>>
     ELSE LET w == Head(queue[m]) IN
          /\ value' = [value EXCEPT ![m] = arg[w]]
          /\ queue' = [queue EXCEPT ![m] = Tail(@)]
          /\ frame' = [frame EXCEPT ![running] = "run", ![w] = "run"]
          /\ arg' = [arg EXCEPT ![w] = Empty]
          /\ Wake(<<w>>)
  /\ UNCHANGED <<lastTid, whatNext, whyBlocked, blockInfo, infoVars, capVars,
                 sleeping, awaiting>>

TakeMVar(m) ==
  /\ At("take", m)
  /\ TakeValue(m)

\* A bug: a taker goes to the front of the queue, as a reader does.
TakerJumpsQueue(m) ==
  /\ At("take", m)
  /\ value[m] = Empty
  /\ queue' = [queue EXCEPT ![m] = <<running>> \o @]
  /\ Block("take", m, Empty, "OnMVar")

TakeMVarBlocks(m) ==
  /\ At("take", m)
  /\ value[m] = Empty
  /\ queue' = [queue EXCEPT ![m] = Append(@, running)]
  /\ Block("take", m, Empty, "OnMVar")

TryTakeMVar(m) ==
  /\ Executing
  /\ TakeValue(m)

-----------------------------------------------------------------------------
\* How many threads a put into an empty MVar wakes: the readers at the front
\* of the queue and the first thread behind them that is not a reader.
IsReader(t) == whyBlocked[t] = "OnMVarRead"

Readers(m) ==
  CHOOSE n \in 0..Len(queue[m]) :
    /\ \A i \in 1..n : IsReader(queue[m][i])
    /\ n < Len(queue[m]) => ~IsReader(queue[m][n + 1])

\* A bug: the waiting threads are woken and the takes not performed.
PutOnlyWakes(m, v) ==
  /\ value[m] = Empty
  /\ value' = [value EXCEPT ![m] = v]
  /\ queue' = [queue EXCEPT ![m] = <<>>]
  /\ Wake(queue[m])
  /\ frame' = [frame EXCEPT ![running] = "run"]
  /\ arg' = [arg EXCEPT ![running] = Empty]
  /\ UNCHANGED <<lastTid, whatNext, whyBlocked, blockInfo, infoVars, capVars,
                 sleeping, awaiting>>

\* putMVar# and tryPutMVar# on an empty MVar.  Without a taker the value
\* stays in the MVar.
PutValue(m, v) ==
  LET r == Readers(m)
      taken == r < Len(queue[m])
      n == IF taken THEN r + 1 ELSE r
      woken == SubSeq(queue[m], 1, n)
  IN
  /\ value[m] = Empty
  /\ value' = IF taken THEN value ELSE [value EXCEPT ![m] = v]
  /\ queue' = [queue EXCEPT ![m] = SubSeq(@, n + 1, Len(@))]
  /\ frame' = [t \in Tid |-> IF t \in Range(woken) THEN "ret"
                             ELSE IF t = running THEN "run" ELSE frame[t]]
  /\ arg' = [t \in Tid |-> IF t \in Range(woken) THEN v
                           ELSE IF t = running THEN Empty ELSE arg[t]]
  /\ Wake(woken)
  /\ UNCHANGED <<lastTid, whatNext, whyBlocked, blockInfo, infoVars, capVars,
                 sleeping, awaiting>>

\* A putMVar# entered again puts the value its frame holds.
PutMVar(m, v) ==
  /\ At("put", m)
  /\ frame[running] = "put" => v = arg[running]
  /\ PutValue(m, v)

PutMVarBlocks(m, v) ==
  /\ At("put", m)
  /\ frame[running] = "put" => v = arg[running]
  /\ value[m] # Empty
  /\ queue' = [queue EXCEPT ![m] = Append(@, running)]
  /\ Block("put", m, v, "OnMVar")

TryPutMVar(m, v) ==
  /\ Executing
  /\ PutValue(m, v)

-----------------------------------------------------------------------------
\* A bug: readers queue like takers.
ReaderAtTail(m) ==
  /\ At("read", m)
  /\ value[m] = Empty
  /\ queue' = [queue EXCEPT ![m] = Append(@, running)]
  /\ Block("read", m, Empty, "OnMVarRead")

\* readMVar# on an empty MVar: readers go to the front of the queue.  On a
\* full one it returns the value and changes nothing.
ReadMVarBlocks(m) ==
  /\ At("read", m)
  /\ value[m] = Empty
  /\ queue' = [queue EXCEPT ![m] = <<running>> \o @]
  /\ Block("read", m, Empty, "OnMVarRead")

MVarNext ==
  \E m \in MVars :
    \/ TakeMVar(m)
    \/ TakeMVarBlocks(m)
    \/ TryTakeMVar(m)
    \/ ReadMVarBlocks(m)
    \/ \E v \in Values :
         \/ PutMVar(m, v)
         \/ PutMVarBlocks(m, v)
         \/ TryPutMVar(m, v)
=============================================================================
