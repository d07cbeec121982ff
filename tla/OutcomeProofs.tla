---------------------------- MODULE OutcomeProofs ----------------------------
(***************************************************************************)
(* What threads hand to each other and to JavaScript, for every number of  *)
(* threads, MVars and values: outcomes of foreign calls, the status a      *)
(* thread ends with, and the operations of blocked threads.  All of it     *)
(* rests on Inv of ThreadsProofs: a step touches only the running thread    *)
(* and threads it finds in the one place that Inv says they have.          *)
(***************************************************************************)
EXTENDS ThreadsProofs

USE DEF NoThread

\* A thread identifier that has not been given out has not ended.
EndedCreated == \A t \in Tid : Ended(t) => t \in Created

\* A stack that expects the result of a foreign call belongs to a thread whose
\* call is on its way: made, awaited, or answered.
CallOnItsWay ==
  \A t \in Tid :
    /\ frame[t] = "ffi" => t \in Queued \cup Awaiting \/ blockingPromise = t
    /\ blockingPromise = t => frame[t] = "ffi"

OInv ==
  /\ Inv
  /\ EndedCreated
  /\ SettledAsEnded
  /\ CallOnItsWay
  /\ OutcomeMeetsCall

-----------------------------------------------------------------------------
(***************************************************************************)
(* What Inv says of the threads a step meets.                              *)
(***************************************************************************)

LEMMA Places ==
  ASSUME Inv
  PROVE  /\ TypeOK /\ CurrentThread /\ Range(immediates) \subseteq Tid
         /\ NoThread \notin Tid
         /\ \A t \in Tid : Live(t) <=> running = t \/ Blocked(t)
                                       \/ t \in Queued \cup sleeping \cup Awaiting
         /\ \A t \in Tid : running = t \/ Blocked(t)
                             => t \notin Queued \cup sleeping \cup Awaiting
         /\ \A t \in Tid : t \in Queued => t \notin sleeping \cup Awaiting
         /\ control = "loop" => blockingPromise = NoThread
         /\ control = "wasm" => /\ running \in Tid /\ ~Ended(running) /\ ~Blocked(running)
                                /\ blockingPromise = NoThread
<1>1. TypeInv /\ ReturnReasonTrue /\ BlockingPromiseOwned /\ OneWayToRun
  BY DEF Inv
<1>2. TypeOK /\ CurrentThread /\ immediates \in Seq(Tid)
  BY <1>1 DEF TypeInv, TypeOK, SchedTypeOK
<1>3. Range(immediates) \subseteq Tid
  BY <1>2, RangeOfSeq
<1>4. running \in Tid \cup {NoThread}
  BY <1>2 DEF TypeOK, SchedTypeOK
<1>5. \A t \in Tid : OneWay(t, Blocked(t))
  BY <1>1 DEF OneWayToRun
<1>6. control = "wasm" => running \in Tid /\ ~Ended(running) /\ ~Blocked(running)
  BY <1>1, <1>2, <1>4 DEF ReturnReasonTrue, CurrentThread
<1>7. control # "returned" => blockingPromise = NoThread
  BY <1>1 DEF BlockingPromiseOwned
<1> QED  BY <1>2, <1>3, <1>5, <1>6, <1>7 DEF OneWay, Tid

\* An operation on MVars is one of three things: a take or a put performed, or
\* the running thread gone into the queue.
LEMMA MVarCases ==
  ASSUME MVarNext
  PROVE  /\ control = "wasm"
         /\ \E m \in MVars :
              \/ TakeValue(m)
              \/ \E v \in Values : PutValue(m, v)
              \/ /\ value[m] = Empty
                 /\ queue' = [queue EXCEPT ![m] = Append(@, running)]
                 /\ Block("take", m, Empty, "OnMVar")
              \/ /\ value[m] = Empty
                 /\ queue' = [queue EXCEPT ![m] = <<running>> \o @]
                 /\ Block("read", m, Empty, "OnMVarRead")
              \/ \E v \in Values :
                   /\ value[m] # Empty
                   /\ queue' = [queue EXCEPT ![m] = Append(@, running)]
                   /\ Block("put", m, v, "OnMVar")
BY DEF MVarNext, TakeMVar, TakeMVarBlocks, TryTakeMVar, ReadMVarBlocks, PutMVar,
       PutMVarBlocks, TryPutMVar, At, Executing

\* The threads a put wakes, and those it leaves in the queue.
Woken(m) ==
  SubSeq(queue[m], 1, IF Readers(m) < Len(queue[m]) THEN Readers(m) + 1 ELSE Readers(m))

LEMMA WokenOfQueue ==
  ASSUME Inv, NEW m \in MVars
  PROVE  /\ Woken(m) \in Seq(Tid)
         /\ Range(Woken(m)) \subseteq Waiting(m)
<1> DEFINE q == queue[m]
           n == IF Readers(m) < Len(q) THEN Readers(m) + 1 ELSE Readers(m)
<1>1. q \in Seq(Tid) /\ IsInjective(q)
  BY DEF Inv, TypeInv, TypeOK, OneWayToRun
<1>2. Readers(m) \in 0..Len(q) /\ Len(q) \in Nat
  BY <1>1, ReadersOfQueue, LenProperties
<1>3. n \in 0..Len(q)
  BY <1>2
<1>4. SubSeq(q, 1, n) \in Seq(Tid) /\ Range(SubSeq(q, 1, n)) \subseteq Range(q)
  <2> HIDE DEF q, n
  <2> QED  BY <1>1, <1>3, SplitType, SplitRange
<1> QED  BY <1>4 DEF Woken, Waiting

LEMMA ConcatKeeps ==
  ASSUME NEW S, NEW s \in Seq(S), NEW u \in Seq(S)
  PROVE  Range(s \o u) = Range(s) \cup Range(u)
BY RangeConcatenation

\* What an operation on MVars leaves alone.
LEMMA MVarEffect ==
  ASSUME Inv, MVarNext
  PROVE  /\ control = "wasm"
         /\ UNCHANGED <<lastTid, infoVars, running, blockingPromise, sleeping, awaiting>>
         /\ \A t \in Tid : Ended(t)' <=> Ended(t)
         /\ \A t \in Tid \ {running} : whatNext'[t] = whatNext[t]
         /\ Queued \subseteq Queued'
         /\ \A t \in Tid : t # running /\ ~Blocked(t) => frame'[t] = frame[t]
         /\ \A t \in Tid : frame'[t] = "ffi" => frame[t] = "ffi" /\ t # running
<1> USE DEF Ended
<1>1. /\ control = "wasm" /\ running \in Tid /\ ~Ended(running)
      /\ frame \in [Tid -> Frame] /\ whatNext \in [Tid -> WhatNext]
      /\ immediates \in Seq(Tid) /\ queue \in [MVars -> Seq(Tid)]
  BY Places, MVarCases DEF TypeOK, SchedTypeOK
<1>2. PICK m \in MVars :
        \/ TakeValue(m)
        \/ \E v \in Values : PutValue(m, v)
        \/ \E op \in {"take", "read", "put"}, v \in Values \cup {Empty},
              why \in {"OnMVar", "OnMVarRead"} : Block(op, m, v, why)
  BY MVarCases
<1>3. CASE TakeValue(m)
  <2>1. UNCHANGED <<lastTid, whatNext, infoVars, running, blockingPromise, sleeping, awaiting>>
    BY <1>3 DEF TakeValue, capVars
  <2>2. CASE queue[m] = <<>>
    BY <1>1, <1>3, <2>1, <2>2 DEF TakeValue, Queued
  <2>3. CASE queue[m] # <<>>
    <3> DEFINE w == Head(queue[m])
    <3>1. w \in Tid /\ w \in Waiting(m)
      BY <1>1, <2>3, HeadTailProperties, TailRange DEF Waiting, Inv, OneWayToRun
    <3>2. /\ frame' = [frame EXCEPT ![running] = "run", ![w] = "run"]
          /\ immediates' = immediates \o <<w>>
      BY <1>3, <2>3 DEF TakeValue, Wake
    <3>3. Blocked(w)
      BY <3>1 DEF Blocked
    <3>4. Queued \subseteq Queued'
      <4> DEFINE u == <<w>>
      <4>1. u \in Seq(Tid) /\ immediates' = immediates \o u
        BY <3>1, <3>2
      <4> HIDE DEF w, u
      <4>2. Range(immediates \o u) = Range(immediates) \cup Range(u)
        BY <1>1, <4>1, ConcatKeeps
      <4> QED  BY <4>1, <4>2 DEF Queued
    <3> HIDE DEF w
    <3>5. \A t \in Tid : frame'[t] = IF t = w \/ t = running THEN "run" ELSE frame[t]
      BY <1>1, <3>1, <3>2
    <3>6. \A t \in Tid : t # running /\ ~Blocked(t) => frame'[t] = frame[t]
      BY <3>3, <3>5
    <3>7. \A t \in Tid : frame'[t] = "ffi" => frame[t] = "ffi" /\ t # running
      BY <3>5
    <3> QED  BY <1>1, <2>1, <3>4, <3>6, <3>7
  <2> QED  BY <2>2, <2>3
<1>4. ASSUME NEW v \in Values, PutValue(m, v)
      PROVE  /\ UNCHANGED <<lastTid, whatNext, infoVars, running, blockingPromise, sleeping,
                            awaiting>>
             /\ frame' = [t \in Tid |-> IF t \in Range(Woken(m)) THEN "ret"
                                        ELSE IF t = running THEN "run" ELSE frame[t]]
             /\ immediates' = immediates \o Woken(m)
  BY <1>4 DEF PutValue, Wake, capVars, Woken
<1>5. CASE \E v \in Values : PutValue(m, v)
  <2>1. Queued \subseteq Queued'
    <3>1. Woken(m) \in Seq(Tid) /\ immediates' = immediates \o Woken(m)
      BY <1>4, <1>5, WokenOfQueue
    <3> QED  BY <1>1, <3>1, ConcatKeeps DEF Queued
  <2>2. \A t \in Range(Woken(m)) : Blocked(t)
    BY WokenOfQueue DEF Blocked
  <2> QED  BY <1>1, <1>4, <1>5, <2>1, <2>2
<1>6. ASSUME NEW op \in {"take", "read", "put"}, NEW v, NEW why, Block(op, m, v, why)
      PROVE  /\ UNCHANGED <<lastTid, infoVars, running, blockingPromise, sleeping, awaiting,
                            immediates>>
             /\ frame' = [frame EXCEPT ![running] = op]
             /\ whatNext' = [whatNext EXCEPT ![running] = "RunGHC"]
  BY <1>6 DEF Block, ReturnToSched, loopVars
<1>7. CASE \E op \in {"take", "read", "put"}, v \in Values \cup {Empty},
              why \in {"OnMVar", "OnMVarRead"} : Block(op, m, v, why)
  BY <1>1, <1>6, <1>7 DEF Queued
<1> QED  BY <1>2, <1>3, <1>5, <1>7

-----------------------------------------------------------------------------
(***************************************************************************)
(* Outcomes and ends: OInv holds initially, and every step preserves it.   *)
(***************************************************************************)

LEMMA InitOutcome == Init => OInv
<1> SUFFICES ASSUME Init PROVE OInv
  OBVIOUS
<1>1. Inv  BY InitInv
<1>2. \A t \in Tid : /\ whatNext[t] = "RunGHC" /\ frame[t] = "run" /\ awaiting[t] = NoThread
                     /\ ffiRet[t] = NoThread /\ ffiRetErr[t] = Undefined
                     /\ rstat[t] = -1 /\ promise[t] = "pending"
                     /\ blockingPromise # t
  BY DEF Init, SchedInit, Tid
<1>3. EndedCreated /\ SettledAsEnded
  BY <1>2 DEF EndedCreated, SettledAsEnded, Ended
<1>4. CallOnItsWay /\ OutcomeMeetsCall
  BY <1>2 DEF CallOnItsWay, OutcomeMeetsCall, Awaiting
<1> QED  BY <1>1, <1>3, <1>4 DEF OInv

\* The part of OInv that Inv does not already give.
Outcomes == EndedCreated /\ SettledAsEnded /\ CallOnItsWay /\ OutcomeMeetsCall

LEMMA MVarOutcome ==
  ASSUME OInv, MVarNext
  PROVE  Outcomes'
<1>1. /\ control = "wasm" /\ running \in Tid /\ ~Ended(running) /\ blockingPromise = NoThread
      /\ NoThread \notin Tid
      /\ \A t \in Tid : running = t \/ Blocked(t) => t \notin Queued \cup sleeping \cup Awaiting
  BY MVarCases, Places DEF OInv
<1>2. /\ UNCHANGED <<lastTid, ffiRet, ffiRetErr, rstat, promise, running, blockingPromise,
                     sleeping, awaiting>>
      /\ \A t \in Tid : Ended(t)' <=> Ended(t)
      /\ \A t \in Tid \ {running} : whatNext'[t] = whatNext[t]
      /\ Queued \subseteq Queued'
      /\ \A t \in Tid : t # running /\ ~Blocked(t) => frame'[t] = frame[t]
      /\ \A t \in Tid : frame'[t] = "ffi" => frame[t] = "ffi" /\ t # running
  BY MVarEffect DEF OInv, infoVars
<1>3. Awaiting' = Awaiting
  BY <1>2 DEF Awaiting
<1>4. EndedCreated'
  BY <1>2 DEF OInv, EndedCreated, Created
<1>5. SettledAsEnded'
  BY <1>1, <1>2 DEF OInv, SettledAsEnded
<1>6. CallOnItsWay'
  BY <1>1, <1>2, <1>3 DEF OInv, CallOnItsWay
<1>7. OutcomeMeetsCall'
  BY <1>1, <1>2, <1>3 DEF OInv, OutcomeMeetsCall
<1> QED  BY <1>4, <1>5, <1>6, <1>7 DEF Outcomes

LEMMA LoopOutcome ==
  ASSUME OInv, LoopNext
  PROVE  Outcomes'
<1> USE DEF Ended, Created
<1>1. /\ TypeOK /\ CurrentThread /\ Queued \subseteq Tid /\ NoThread \notin Tid
      /\ \A t \in Tid : Live(t) <=> running = t \/ Blocked(t)
                                    \/ t \in Queued \cup sleeping \cup Awaiting
      /\ \A t \in Tid : running = t \/ Blocked(t)
                          => t \notin Queued \cup sleeping \cup Awaiting
      /\ \A t \in Tid : t \in Queued => t \notin sleeping \cup Awaiting
      /\ control \in {"loop", "wasm"} => blockingPromise = NoThread
      /\ control = "wasm" => running \in Tid /\ ~Ended(running)
  BY Places DEF OInv, Queued
<1>2. EndedCreated /\ SettledAsEnded /\ CallOnItsWay /\ OutcomeMeetsCall
  BY DEF OInv
<1> USE DEF TypeOK, SchedTypeOK, CurrentThread
<1>3. CASE NewThread /\ (control = "loop" \/ Executing)
  <2> DEFINE n == lastTid + 1
  <2>1. n \in Tid /\ n \notin Created /\ \A t : t \in Created' <=> t \in Created \/ t = n
    BY <1>1, <1>3, SchedulerAssumption DEF NewThread, Tid
  <2>2. /\ n \notin Queued \cup sleeping \cup Awaiting /\ n # running
        /\ blockingPromise = NoThread
    BY <1>1, <1>3, <2>1 DEF Live, Executing
  <2>3. /\ UNCHANGED <<sleeping, awaiting, control, running, blockingPromise>>
        /\ Queued' = Queued \cup {n} /\ Awaiting' = Awaiting
    BY <1>1, <1>3, <2>1, AppendRange DEF NewThread, capVars, Queued, Awaiting
  <2>4. \A t \in Tid \ {n} :
          /\ whatNext'[t] = whatNext[t] /\ frame'[t] = frame[t]
          /\ ffiRet'[t] = ffiRet[t] /\ ffiRetErr'[t] = ffiRetErr[t]
          /\ rstat'[t] = rstat[t] /\ promise'[t] = promise[t]
    BY <1>1, <1>3 DEF NewThread
  <2>5. /\ whatNext'[n] = "RunGHC" /\ frame'[n] = "run" /\ ffiRet'[n] = NoThread
        /\ ffiRetErr'[n] = Undefined /\ rstat'[n] = -1 /\ promise'[n] = "pending"
    BY <1>1, <1>3, <2>1 DEF NewThread
  <2>6. EndedCreated'
    BY <1>2, <2>1, <2>4, <2>5 DEF EndedCreated
  <2> HIDE DEF n
  <2>7. SettledAsEnded'
    BY <1>2, <2>3, <2>4, <2>5 DEF SettledAsEnded
  <2>8. CallOnItsWay'
    BY <1>2, <2>1, <2>2, <2>3, <2>4, <2>5 DEF CallOnItsWay
  <2>9. OutcomeMeetsCall'
    BY <1>2, <2>1, <2>2, <2>3, <2>4, <2>5 DEF OutcomeMeetsCall
  <2> QED  BY <2>6, <2>7, <2>8, <2>9 DEF Outcomes
<1>4. CASE Tick
  <2> DEFINE h == Head(immediates)
  <2>1. /\ control = "loop" /\ immediates # <<>> /\ immediates' = Tail(immediates)
        /\ running' = h /\ running = NoThread /\ blockingPromise = NoThread
        /\ UNCHANGED <<lastTid, whatNext, rstat, promise, blockingPromise, sleeping, awaiting>>
        /\ frame' = [frame EXCEPT ![h] = Resumed(h)]
        /\ ffiRet' = [ffiRet EXCEPT ![h] = NoThread]
        /\ ffiRetErr' = [ffiRetErr EXCEPT ![h] = Undefined]
    BY <1>1, <1>4 DEF Tick
  <2>2. h \in Tid /\ h \in Queued /\ Queued' = Queued \ {h} /\ Awaiting' = Awaiting
    BY <1>1, <2>1, TailRange, HeadTailProperties DEF Queued, Awaiting, OInv, Inv, OneWayToRun
  <2>3. Resumed(h) # "ffi"
    BY DEF Resumed, Retry
  <2> HIDE DEF h
  <2>4. ~Ended(h) /\ h \notin Awaiting
    BY <1>1, <2>1, <2>2 DEF Live
  <2>5. EndedCreated'
    BY <1>2, <2>1 DEF EndedCreated
  <2>6. SettledAsEnded'
    BY <1>1, <1>2, <2>1, <2>4 DEF SettledAsEnded
  <2>7. CallOnItsWay'
    BY <1>1, <1>2, <2>1, <2>2, <2>3, <2>4 DEF CallOnItsWay
  <2>8. OutcomeMeetsCall'
    BY <1>1, <1>2, <2>1, <2>2, <2>4 DEF OutcomeMeetsCall
  <2> QED  BY <2>5, <2>6, <2>7, <2>8 DEF Outcomes
<1>5. CASE StopAndRequeue \/ Delay
  <2>1. /\ control = "wasm" /\ whatNext' = [whatNext EXCEPT ![running] = "RunGHC"]
        /\ UNCHANGED <<running, lastTid, frame, ffiRet, ffiRetErr, rstat, promise,
                       blockingPromise, immediates, sleeping, awaiting>>
    BY <1>5 DEF StopAndRequeue, Delay, Executing, ReturnToSched, loopVars, infoVars
  <2>2. Queued' = Queued /\ Awaiting' = Awaiting /\ \A t \in Tid : Ended(t)' <=> Ended(t)
    BY <1>1, <2>1 DEF Queued, Awaiting
  <2>3. EndedCreated'
    BY <1>2, <2>1, <2>2 DEF EndedCreated
  <2>4. SettledAsEnded'
    BY <1>1, <1>2, <2>1 DEF SettledAsEnded
  <2>5. CallOnItsWay' /\ OutcomeMeetsCall'
    BY <1>2, <2>1, <2>2 DEF CallOnItsWay, OutcomeMeetsCall
  <2> QED  BY <2>3, <2>4, <2>5 DEF Outcomes
<1>6. CASE SafeCall
  <2>1. /\ control = "wasm" /\ blockingPromise' = running
        /\ frame' = [frame EXCEPT ![running] = "ffi"]
        /\ UNCHANGED <<running, lastTid, whatNext, ffiRet, ffiRetErr, rstat, promise,
                       immediates, sleeping, awaiting>>
    BY <1>6 DEF SafeCall, Executing, ReturnToSched, loopVars, infoVars
  <2>2. /\ running \in Tid /\ running \notin Queued \cup Awaiting
        /\ Queued' = Queued /\ Awaiting' = Awaiting
    BY <1>1, <2>1 DEF Queued, Awaiting
  <2>3. EndedCreated' /\ SettledAsEnded'
    BY <1>2, <2>1 DEF EndedCreated, SettledAsEnded
  <2>4. CallOnItsWay'
    BY <1>1, <1>2, <2>1, <2>2 DEF CallOnItsWay
  <2>5. OutcomeMeetsCall'
    BY <1>1, <1>2, <2>1, <2>2 DEF OutcomeMeetsCall
  <2> QED  BY <2>3, <2>4, <2>5 DEF Outcomes
<1>7. CASE ThrowSync
  <2>1. /\ control = "wasm" /\ running' = NoThread
        /\ immediates' = Append(immediates, running)
        /\ frame' = [frame EXCEPT ![running] = "ffi"]
        /\ \E e : ffiRetErr' = [ffiRetErr EXCEPT ![running] = e]
        /\ UNCHANGED <<lastTid, whatNext, ffiRet, rstat, promise, blockingPromise, sleeping,
                       awaiting>>
    BY <1>7 DEF ThrowSync, Executing
  <2>2. /\ running \in Tid /\ ~Ended(running) /\ running \notin Queued \cup Awaiting
        /\ Queued' = Queued \cup {running} /\ Awaiting' = Awaiting
    BY <1>1, <2>1, AppendRange DEF Queued, Awaiting
  <2>3. EndedCreated'
    BY <1>2, <2>1 DEF EndedCreated
  <2>4. SettledAsEnded'
    BY <1>1, <1>2, <2>1, <2>2 DEF SettledAsEnded
  <2>5. CallOnItsWay'
    BY <1>1, <1>2, <2>1, <2>2 DEF CallOnItsWay
  <2>6. OutcomeMeetsCall'
    BY <1>1, <1>2, <2>1, <2>2 DEF OutcomeMeetsCall
  <2> QED  BY <2>3, <2>4, <2>5, <2>6 DEF Outcomes
<1>8. ASSUME NEW w \in Tid, TimerFires(w)
      PROVE  Outcomes'
  <2>1. /\ immediates' = Append(immediates, w) /\ w \in sleeping
        /\ UNCHANGED <<lastTid, whatNext, frame, ffiRet, ffiRetErr, rstat, promise, running,
                       blockingPromise, awaiting>>
    BY <1>8 DEF TimerFires, tsoVars, infoVars, capVars
  <2>2. Queued' = Queued \cup {w} /\ Awaiting' = Awaiting
    BY <1>1, <2>1, AppendRange DEF Queued, Awaiting
  <2>3. EndedCreated' /\ SettledAsEnded'
    BY <1>2, <2>1 DEF EndedCreated, SettledAsEnded
  <2>4. CallOnItsWay' /\ OutcomeMeetsCall'
    BY <1>2, <2>1, <2>2 DEF CallOnItsWay, OutcomeMeetsCall
  <2> QED  BY <2>3, <2>4 DEF Outcomes
<1>9. ASSUME NEW w \in Tid, PromiseResolves(w) \/ PromiseRejects(w)
      PROVE  Outcomes'
  <2>1. /\ control = "loop" /\ immediates' = Append(immediates, w) /\ w \in Awaiting
        /\ awaiting' = [awaiting EXCEPT ![w] = NoThread]
        /\ UNCHANGED <<lastTid, whatNext, frame, rstat, promise, running, blockingPromise>>
        /\ \/ ffiRet' = [ffiRet EXCEPT ![w] = awaiting[w]] /\ ffiRetErr' = ffiRetErr
           \/ /\ \E e : ffiRetErr' = [ffiRetErr EXCEPT ![w] = e]
              /\ ffiRet' = ffiRet
    BY <1>9 DEF PromiseResolves, PromiseRejects, Settled, tsoVars, capVars
  <2>2. /\ Queued' = Queued \cup {w} /\ Awaiting' = Awaiting \ {w} /\ w \notin Queued
    BY <1>1, <2>1, AppendRange DEF Queued, Awaiting
  <2>3. EndedCreated' /\ SettledAsEnded'
    BY <1>2, <2>1 DEF EndedCreated, SettledAsEnded
  <2>4. CallOnItsWay'
    BY <1>2, <2>1, <2>2 DEF CallOnItsWay
  <2>5. /\ awaiting[w] = w /\ frame[w] = "ffi"
        /\ ffiRet[w] = NoThread /\ ffiRetErr[w] = Undefined
    BY <1>2, <2>1, <2>2 DEF OutcomeMeetsCall
  <2>6. OutcomeMeetsCall'
    BY <1>1, <1>2, <2>1, <2>2, <2>5 DEF OutcomeMeetsCall
  <2> QED  BY <2>3, <2>4, <2>6 DEF Outcomes
<1> QED
  BY <1>3, <1>4, <1>5, <1>6, <1>7, <1>8, <1>9 DEF LoopNext, SubmitCmdCreateThread, Fork

LEMMA ReturnedOutcome ==
  ASSUME OInv, ReturnedFromTSO
  PROVE  Outcomes'
<1> USE DEF Ended, Created
<1>1. /\ TypeOK /\ NoThread \notin Tid
      /\ \A t \in Tid : running = t => t \notin Queued \cup sleeping \cup Awaiting
  BY Places DEF OInv
<1>2. EndedCreated /\ SettledAsEnded /\ CallOnItsWay /\ OutcomeMeetsCall
  BY DEF OInv
<1> USE DEF TypeOK, SchedTypeOK
<1>3. /\ control = "returned" /\ running' = NoThread
      /\ UNCHANGED <<lastTid, whatNext, frame, ffiRet, ffiRetErr>>
  BY DEF ReturnedFromTSO, RequeueReturned, AwaitReturned, SleepReturned, ParkReturned,
         EndReturned, BackToLoop, tsoVars, infoVars
<1>4. /\ running \in Tid /\ running \notin Queued \cup Awaiting
      /\ Ended(running) => rRet = "ThreadFinished"
      /\ blockingPromise = IF rRet = "ThreadBlocked" /\ whyBlocked[running] = "OnCCall"
                           THEN running ELSE NoThread
  BY <1>1, <1>3, Places DEF OInv, Inv, ReturnReasonTrue, BlockingPromiseOwned, CurrentThread
<1>5. EndedCreated'
  BY <1>2, <1>3 DEF EndedCreated
<1>6. ASSUME UNCHANGED <<rstat, promise>>, ~Ended(running)
      PROVE  SettledAsEnded'
  BY <1>1, <1>2, <1>3, <1>6 DEF SettledAsEnded
<1>7. CASE RequeueReturned
  <2>1. /\ immediates' = Append(immediates, running)
        /\ UNCHANGED <<rstat, promise, awaiting, blockingPromise>>
    BY <1>7 DEF RequeueReturned, infoVars
  <2>2. ~Ended(running)
    BY <1>4, <1>7 DEF RequeueReturned, Requeued
  <2>3. Queued' = Queued \cup {running} /\ Awaiting' = Awaiting
    BY <1>1, <1>4, <2>1, AppendRange DEF Queued, Awaiting
  <2>4. CallOnItsWay' /\ OutcomeMeetsCall'
    BY <1>2, <1>3, <2>1, <2>3 DEF CallOnItsWay, OutcomeMeetsCall
  <2> QED  BY <1>5, <1>6, <2>1, <2>2, <2>4 DEF Outcomes
<1>8. CASE AwaitReturned
  <2>1. /\ awaiting' = [awaiting EXCEPT ![running] = blockingPromise]
        /\ blockingPromise' = NoThread
        /\ rRet = "ThreadBlocked" /\ blockingPromise = running
        /\ UNCHANGED <<immediates, rstat, promise>>
    BY <1>4, <1>8 DEF AwaitReturned, infoVars
  <2>2. Queued' = Queued /\ Awaiting' = Awaiting \cup {running} /\ ~Ended(running)
    BY <1>1, <1>4, <2>1 DEF Queued, Awaiting
  <2>3. CallOnItsWay'
    BY <1>1, <1>2, <1>3, <2>1, <2>2 DEF CallOnItsWay
  <2>4. frame[running] = "ffi"
    BY <1>2, <1>4, <2>1 DEF CallOnItsWay
  <2>5. OutcomeMeetsCall'
    BY <1>1, <1>2, <1>3, <1>4, <2>1, <2>2, <2>4 DEF OutcomeMeetsCall
  <2> QED  BY <1>5, <1>6, <2>1, <2>2, <2>3, <2>5 DEF Outcomes
<1>9. CASE SleepReturned \/ ParkReturned
  <2>1. /\ rRet = "ThreadBlocked"
        /\ UNCHANGED <<immediates, awaiting, blockingPromise, rstat, promise>>
    BY <1>9 DEF SleepReturned, ParkReturned, infoVars, loopVars
  <2>2. Queued' = Queued /\ Awaiting' = Awaiting /\ ~Ended(running)
    BY <1>4, <2>1 DEF Queued, Awaiting
  <2>3. CallOnItsWay' /\ OutcomeMeetsCall'
    BY <1>2, <1>3, <2>1, <2>2 DEF CallOnItsWay, OutcomeMeetsCall
  <2> QED  BY <1>5, <1>6, <2>1, <2>2, <2>3 DEF Outcomes
<1>10. CASE EndReturned
  <2>1. /\ UNCHANGED <<immediates, awaiting, blockingPromise>>
        /\ Ended(running)
        /\ rstat' = [rstat EXCEPT ![running] = IF whatNext[running] = "Killed" THEN 2 ELSE 1]
        /\ promise' = [promise EXCEPT ![running] =
             IF promise[running] # "pending" THEN promise[running]
             ELSE IF whatNext[running] = "Killed" THEN "rejected" ELSE "resolved"]
    BY <1>10 DEF EndReturned, loopVars
  <2>2. promise[running] = "pending"
    BY <1>2, <1>4 DEF SettledAsEnded
  <2>3. Queued' = Queued /\ Awaiting' = Awaiting
    BY <2>1 DEF Queued, Awaiting
  <2>4. SettledAsEnded'
    BY <1>1, <1>2, <1>3, <1>4, <2>1, <2>2 DEF SettledAsEnded
  <2>5. CallOnItsWay' /\ OutcomeMeetsCall'
    BY <1>2, <1>3, <2>1, <2>3 DEF CallOnItsWay, OutcomeMeetsCall
  <2> QED  BY <1>5, <2>4, <2>5 DEF Outcomes
<1> QED  BY <1>7, <1>8, <1>9, <1>10 DEF ReturnedFromTSO

LEMMA EndOutcome ==
  ASSUME OInv, Catch(<<>>) \/ Die(<<>>) \/ Finish
  PROVE  Outcomes'
<1> USE DEF Ended, Created
<1>1. /\ TypeOK /\ immediates \o <<>> = immediates
      /\ \A t \in Tid : Live(t) <=> running = t \/ Blocked(t)
                                    \/ t \in Queued \cup sleeping \cup Awaiting
      /\ \A t \in Tid : running = t => t \notin Queued \cup sleeping \cup Awaiting
      /\ control = "wasm" => running \in Tid /\ ~Ended(running) /\ blockingPromise = NoThread
  BY Places, ConcatEmptySeq DEF OInv, TypeOK, SchedTypeOK
<1>2. EndedCreated /\ SettledAsEnded /\ CallOnItsWay /\ OutcomeMeetsCall
  BY DEF OInv
<1> USE DEF TypeOK, SchedTypeOK
<1>3. /\ control = "wasm"
      /\ UNCHANGED <<lastTid, running, ffiRet, ffiRetErr, rstat, promise, blockingPromise,
                     immediates, awaiting>>
      /\ frame' = frame \/ frame' = [frame EXCEPT ![running] = "run"]
      /\ \A t \in Tid \ {running} : whatNext'[t] = whatNext[t]
  BY <1>1 DEF Catch, Die, Finish, Raising, Executing, ReturnToSched, capVars, loopVars, infoVars
<1>4. Queued' = Queued /\ Awaiting' = Awaiting
  BY <1>3 DEF Queued, Awaiting
<1>5. EndedCreated'
  BY <1>1, <1>2, <1>3 DEF EndedCreated, Live
<1>6. SettledAsEnded'
  BY <1>1, <1>2, <1>3 DEF SettledAsEnded
<1>7. running \in Tid /\ running \notin Queued \cup Awaiting /\ frame[running] # "ffi"
      /\ blockingPromise = NoThread
  BY <1>1, <1>2, <1>3, Places DEF OInv, CallOnItsWay
<1>8. CallOnItsWay'
  BY <1>1, <1>2, <1>3, <1>4, <1>7 DEF CallOnItsWay
<1>9. OutcomeMeetsCall'
  BY <1>1, <1>2, <1>3, <1>4, <1>7 DEF OutcomeMeetsCall
<1> QED  BY <1>5, <1>6, <1>8, <1>9 DEF Outcomes

LEMMA NextOutcome == OInv /\ [Next]_vars => OInv'
<1> SUFFICES ASSUME OInv, [Next]_vars PROVE OInv'
  OBVIOUS
<1>1. Inv'
  BY NextInv DEF OInv
<1>2. CASE SchedStep
  BY <1>1, <1>2, LoopOutcome, ReturnedOutcome, EndOutcome
  DEF OInv, Outcomes, SchedStep, SchedNext
<1>3. CASE MVarNext
  BY <1>1, <1>3, MVarOutcome DEF OInv, Outcomes
<1>4. CASE UNCHANGED vars
  BY <1>1, <1>4
  DEF OInv, vars, schedVars, mvarVars, tsoVars, infoVars, loopVars, capVars, EndedCreated,
      SettledAsEnded, CallOnItsWay, OutcomeMeetsCall, Ended, Created, Queued, Awaiting
<1> QED  BY <1>2, <1>3, <1>4 DEF Next

LEMMA OutcomeInvariance == Spec => []OInv
  BY InitOutcome, NextOutcome, PTL DEF Spec

\* A thread's promise is pending until the thread has ended and its end has
\* been recorded, then resolved or rejected as it ended; getTSOrstat agrees.
THEOREM PromisesSettledAsEnded == Spec => []SettledAsEnded
<1>1. OInv => SettledAsEnded
  BY DEF OInv
<1> QED  BY <1>1, OutcomeInvariance, PTL

\* The result or error that a promise reaction or tick stores for a thread is
\* that thread's own, and waits for it only while its stack expects it.
THEOREM OutcomesMeetTheirCalls == Spec => []OutcomeMeetsCall
<1>1. OInv => OutcomeMeetsCall
  BY DEF OInv
<1> QED  BY <1>1, OutcomeInvariance, PTL

-----------------------------------------------------------------------------
(***************************************************************************)
(* Threads that a step does not run: those that wait in the queue of an    *)
(* MVar keep their frame and block reason, those that ended keep all.      *)
(***************************************************************************)

\* What EndIsFinal says of a step.
EndKept ==
  \A t \in Tid :
    Ended(t) /\ running # t =>
      /\ running' # t
      /\ <<frame[t], whatNext[t], rstat[t], promise[t], ffiRet[t]>>'
           = <<frame[t], whatNext[t], rstat[t], promise[t], ffiRet[t]>>

\* Blocked threads are not touched, and a step of the scheduler neither makes a
\* frame that redoes an operation or returns a handed-over value, nor takes the
\* tick from a thread that has such a frame.
BlockedKept ==
  \A t \in Tid :
    /\ Blocked(t) => /\ frame'[t] = frame[t]
                     /\ whyBlocked'[t] = whyBlocked[t]
                     /\ blockInfo'[t] = blockInfo[t]
    /\ frame'[t] \in Retry \cup {"ret"} => frame'[t] = frame[t]
    /\ frame'[t] = "ret" /\ t \in Queued => t \in Queued'

LEMMA LoopEffect ==
  ASSUME OInv, LoopNext
  PROVE  EndKept /\ BlockedKept
<1> USE DEF Ended, Created, TypeOK, SchedTypeOK, CurrentThread
<1>1. /\ TypeOK /\ CurrentThread /\ Queued \subseteq Tid /\ NoThread \notin Tid
      /\ EndedCreated
      /\ \A t \in Tid : Live(t) <=> running = t \/ Blocked(t)
                                    \/ t \in Queued \cup sleeping \cup Awaiting
      /\ \A t \in Tid : running = t \/ Blocked(t)
                          => t \notin Queued \cup sleeping \cup Awaiting
      /\ control = "wasm" => running \in Tid /\ ~Blocked(running)
  BY Places DEF OInv, Queued
<1>2. CASE NewThread
  <2> DEFINE n == lastTid + 1
  <2>1. n \in Tid /\ n \notin Created
    BY <1>1, <1>2, SchedulerAssumption DEF NewThread, Tid
  <2>2. ~Ended(n) /\ ~Blocked(n)
    BY <1>1, <2>1 DEF EndedCreated, Live
  <2>3. /\ running' = running /\ blockInfo' = blockInfo
        /\ frame'[n] = "run" /\ Queued' = Queued \cup {n}
        /\ \A t \in Tid \ {n} :
             /\ whatNext'[t] = whatNext[t] /\ frame'[t] = frame[t]
             /\ whyBlocked'[t] = whyBlocked[t] /\ ffiRet'[t] = ffiRet[t]
             /\ rstat'[t] = rstat[t] /\ promise'[t] = promise[t]
    BY <1>1, <1>2, <2>1, AppendRange DEF NewThread, capVars, Queued
  <2> HIDE DEF n
  <2>4. EndKept
    BY <2>2, <2>3 DEF EndKept
  <2>5. BlockedKept
    BY <2>1, <2>2, <2>3 DEF BlockedKept, Retry
  <2> QED  BY <2>4, <2>5
<1>3. CASE Tick
  <2> DEFINE h == Head(immediates)
  <2>1. /\ control = "loop" /\ immediates # <<>> /\ immediates' = Tail(immediates)
        /\ running' = h /\ running = NoThread
        /\ UNCHANGED <<whatNext, whyBlocked, blockInfo, rstat, promise>>
        /\ frame' = [frame EXCEPT ![h] = Resumed(h)]
        /\ ffiRet' = [ffiRet EXCEPT ![h] = NoThread]
    BY <1>1, <1>3 DEF Tick
  <2>2. h \in Tid /\ h \in Queued /\ Queued' = Queued \ {h}
    BY <1>1, <2>1, TailRange, HeadTailProperties DEF Queued, OInv, Inv, OneWayToRun
  <2>3. Resumed(h) \in Retry \cup {"ret"} => Resumed(h) = frame[h] /\ frame[h] # "ret"
    BY DEF Resumed, Retry
  <2> HIDE DEF h
  <2>4. ~Ended(h) /\ ~Blocked(h)
    BY <1>1, <2>1, <2>2 DEF Live
  <2>5. EndKept
    BY <1>1, <2>1, <2>2, <2>4 DEF EndKept
  <2>6. BlockedKept
    BY <1>1, <2>1, <2>2, <2>3, <2>4 DEF BlockedKept
  <2> QED  BY <2>5, <2>6
<1>4. CASE StopAndRequeue \/ Delay \/ SafeCall
  <2>1. /\ control = "wasm"
        /\ UNCHANGED <<running, rstat, promise, ffiRet, immediates>>
        /\ frame' = frame \/ frame' = [frame EXCEPT ![running] = "ffi"]
        /\ \A t \in Tid \ {running} :
             /\ whatNext'[t] = whatNext[t] /\ whyBlocked'[t] = whyBlocked[t]
             /\ blockInfo'[t] = blockInfo[t]
    BY <1>1, <1>4
    DEF StopAndRequeue, Delay, SafeCall, Executing, ReturnToSched, loopVars, infoVars
  <2>2. Queued' = Queued
    BY <2>1 DEF Queued
  <2>3. EndKept
    BY <1>1, <2>1 DEF EndKept
  <2>4. BlockedKept
    BY <1>1, <2>1, <2>2 DEF BlockedKept, Retry
  <2> QED  BY <2>3, <2>4
<1>5. CASE ThrowSync
  <2>1. /\ control = "wasm" /\ running' = NoThread
        /\ immediates' = Append(immediates, running)
        /\ frame' = [frame EXCEPT ![running] = "ffi"]
        /\ UNCHANGED <<whatNext, whyBlocked, blockInfo, ffiRet, rstat, promise>>
    BY <1>5 DEF ThrowSync, Executing
  <2>2. Queued' = Queued \cup {running}
    BY <1>1, <2>1, AppendRange DEF Queued
  <2>3. EndKept
    BY <1>1, <2>1 DEF EndKept
  <2>4. BlockedKept
    BY <1>1, <2>1, <2>2 DEF BlockedKept, Retry
  <2> QED  BY <2>3, <2>4
<1>6. ASSUME NEW w \in Tid, TimerFires(w) \/ PromiseResolves(w) \/ PromiseRejects(w)
      PROVE  EndKept /\ BlockedKept
  <2>1. /\ immediates' = Append(immediates, w) /\ w \in sleeping \cup Awaiting
        /\ UNCHANGED <<whatNext, whyBlocked, blockInfo, frame, rstat, promise, running>>
        /\ \A t \in Tid \ {w} : ffiRet'[t] = ffiRet[t]
    BY <1>1, <1>6
    DEF TimerFires, PromiseResolves, PromiseRejects, Settled, tsoVars, infoVars, capVars
  <2>2. Queued' = Queued \cup {w}
    BY <1>1, <2>1, AppendRange DEF Queued
  <2>3. Ended(w) => running = w
    BY <1>1, <2>1 DEF Live
  <2>4. EndKept
    BY <1>1, <2>1, <2>3 DEF EndKept
  <2>5. BlockedKept
    BY <2>1, <2>2 DEF BlockedKept
  <2> QED  BY <2>4, <2>5
<1> QED
  BY <1>2, <1>3, <1>4, <1>5, <1>6 DEF LoopNext, SubmitCmdCreateThread, Fork

LEMMA ReturnedEffect ==
  ASSUME OInv, ReturnedFromTSO
  PROVE  EndKept /\ BlockedKept
<1>1. /\ TypeOK /\ NoThread \notin Tid
      /\ control = "returned" => running \in Tid
  BY Places DEF OInv, TypeOK, SchedTypeOK, CurrentThread
<1>2. /\ control = "returned" /\ running' = NoThread
      /\ UNCHANGED <<whatNext, whyBlocked, blockInfo, frame, ffiRet>>
      /\ immediates' = immediates \/ immediates' = Append(immediates, running)
      /\ \A t \in Tid \ {running} : rstat'[t] = rstat[t] /\ promise'[t] = promise[t]
  BY <1>1
  DEF ReturnedFromTSO, RequeueReturned, AwaitReturned, SleepReturned, ParkReturned,
      EndReturned, BackToLoop, tsoVars, infoVars, loopVars, TypeOK, SchedTypeOK
<1>3. Queued \subseteq Queued'
  <2>1. immediates \in Seq(Tid) /\ running \in Tid
    BY <1>1, <1>2 DEF TypeOK, SchedTypeOK
  <2>2. Range(Append(immediates, running)) = Range(immediates) \cup {running}
    BY <2>1, AppendRange
  <2> QED  BY <1>2, <2>2 DEF Queued
<1>4. EndKept
  BY <1>1, <1>2 DEF EndKept
<1>5. BlockedKept
  BY <1>2, <1>3 DEF BlockedKept
<1> QED  BY <1>4, <1>5

LEMMA EndEffect ==
  ASSUME OInv, Catch(<<>>) \/ Die(<<>>) \/ Finish
  PROVE  EndKept /\ BlockedKept
<1>1. /\ TypeOK /\ immediates \o <<>> = immediates
      /\ control = "wasm" => running \in Tid /\ ~Blocked(running)
  BY Places, ConcatEmptySeq DEF OInv, TypeOK, SchedTypeOK
<1>2. /\ control = "wasm"
      /\ UNCHANGED <<running, whyBlocked, blockInfo, ffiRet, rstat, promise, immediates>>
      /\ frame' = frame \/ frame' = [frame EXCEPT ![running] = "run"]
      /\ \A t \in Tid \ {running} : whatNext'[t] = whatNext[t]
  BY <1>1
  DEF Catch, Die, Finish, Raising, Executing, ReturnToSched, capVars, loopVars, infoVars,
      TypeOK, SchedTypeOK
<1>3. Queued' = Queued
  BY <1>2 DEF Queued
<1>4. EndKept
  BY <1>1, <1>2 DEF EndKept, TypeOK, SchedTypeOK
<1>5. BlockedKept
  BY <1>1, <1>2, <1>3 DEF BlockedKept, Retry, TypeOK, SchedTypeOK
<1> QED  BY <1>4, <1>5

LEMMA MVarEndKept ==
  ASSUME OInv, MVarNext
  PROVE  EndKept
<1>1. /\ \A t \in Tid : Live(t) <=> running = t \/ Blocked(t)
                                    \/ t \in Queued \cup sleeping \cup Awaiting
      /\ \A t \in Tid : Ended(t) /\ running # t => ~Blocked(t)
  BY Places DEF OInv, Live
<1>2. /\ UNCHANGED <<ffiRet, rstat, promise, running>>
      /\ \A t \in Tid \ {running} : whatNext'[t] = whatNext[t]
      /\ \A t \in Tid : t # running /\ ~Blocked(t) => frame'[t] = frame[t]
  BY MVarEffect DEF OInv, infoVars
<1> QED  BY <1>1, <1>2 DEF EndKept

\* Nothing of a thread changes once it has ended: no late promise reaction,
\* timer, wakeup or stale queue entry reaches it (returnedFromTSO and tick).
THEOREM EndsAreFinal == Spec => EndIsFinal
<1>1. OInv /\ [Next]_vars => [EndKept]_vars
  <2> SUFFICES ASSUME OInv, Next PROVE EndKept
    OBVIOUS
  <2> QED
    BY LoopEffect, ReturnedEffect, EndEffect, MVarEndKept DEF Next, SchedStep, SchedNext
<1>2. Spec => [][EndKept]_vars
  BY <1>1, OutcomeInvariance, PTL DEF Spec
<1> QED  BY <1>2 DEF EndIsFinal, EndKept

-----------------------------------------------------------------------------
(***************************************************************************)
(* Blocked operations.  QInv holds initially, and every step preserves it. *)
(***************************************************************************)

QInv ==
  /\ OInv
  /\ WokenWithOpPerformed
  /\ QueueDiscipline

\* What QueueDiscipline says of one MVar.
Disciplined(m) ==
  \A i \in 1..Len(queue[m]) :
    LET t == queue[m][i] IN
    /\ blockInfo[t] = m
    /\ IF value[m] # Empty
       THEN frame[t] = "put" /\ whyBlocked[t] = "OnMVar" /\ arg[t] \in Values
       ELSE \/ /\ frame[t] = "take"
               /\ whyBlocked[t] = "OnMVar"
            \/ /\ frame[t] = "read"
               /\ whyBlocked[t] = "OnMVarRead"
               /\ \A j \in 1..i : frame[queue[m][j]] = "read"

LEMMA DisciplineOfAll == QueueDiscipline <=> \A m \in MVars : Disciplined(m)
BY DEF QueueDiscipline, Disciplined

\* An MVar whose queue and waiting threads a step does not touch.
LEMMA DisciplineKept ==
  ASSUME NEW m \in MVars, Disciplined(m), queue \in [MVars -> Seq(Tid)],
         queue'[m] = queue[m], value'[m] = value[m],
         \A t \in Waiting(m) : /\ frame'[t] = frame[t]
                               /\ whyBlocked'[t] = whyBlocked[t]
                               /\ blockInfo'[t] = blockInfo[t]
                               /\ frame[t] = "put" => arg'[t] = arg[t]
  PROVE  Disciplined(m)'
<1> DEFINE q == queue[m]
<1>1. q \in Seq(Tid) /\ DOMAIN q = 1..Len(q)
  BY LenProperties
<1>2. \A i \in 1..Len(q) : q[i] \in Waiting(m)
  BY <1>1 DEF Waiting, Range
<1>3. \A i \in 1..Len(q) : \A j \in 1..i : j \in 1..Len(q)
  BY <1>1
<1>4. \A i \in 1..Len(q) : /\ frame'[q[i]] = frame[q[i]]
                           /\ whyBlocked'[q[i]] = whyBlocked[q[i]]
                           /\ blockInfo'[q[i]] = blockInfo[q[i]]
                           /\ frame[q[i]] = "put" => arg'[q[i]] = arg[q[i]]
  BY <1>2
<1>5. \A i \in 1..Len(q) :
        LET t == q[i] IN
        /\ blockInfo[t] = m
        /\ IF value[m] # Empty
           THEN frame[t] = "put" /\ whyBlocked[t] = "OnMVar" /\ arg[t] \in Values
           ELSE \/ /\ frame[t] = "take"
                   /\ whyBlocked[t] = "OnMVar"
                \/ /\ frame[t] = "read"
                   /\ whyBlocked[t] = "OnMVarRead"
                   /\ \A j \in 1..i : frame[q[j]] = "read"
  BY DEF Disciplined
<1> HIDE DEF q
<1>6. ASSUME NEW i \in 1..Len(q)
      PROVE  LET t == q[i] IN
             /\ blockInfo'[t] = m
             /\ IF value'[m] # Empty
                THEN frame'[t] = "put" /\ whyBlocked'[t] = "OnMVar" /\ arg'[t] \in Values
                ELSE \/ /\ frame'[t] = "take"
                        /\ whyBlocked'[t] = "OnMVar"
                     \/ /\ frame'[t] = "read"
                        /\ whyBlocked'[t] = "OnMVarRead"
                        /\ \A j \in 1..i : frame'[q[j]] = "read"
  <2>1. CASE value[m] # Empty
    BY <1>4, <1>5, <2>1
  <2>2. CASE value[m] = Empty /\ frame[q[i]] # "read"
    BY <1>4, <1>5, <2>2
  <2>3. CASE value[m] = Empty /\ frame[q[i]] = "read"
    <3>1. \A j \in 1..i : frame[q[j]] = "read"
      BY <1>5, <2>3
    <3>2. \A j \in 1..i : frame'[q[j]] = "read"
      BY <1>3, <1>4, <3>1
    <3>3. whyBlocked[q[i]] = "OnMVarRead" /\ blockInfo[q[i]] = m
      BY <1>5, <2>3
    <3>4. whyBlocked'[q[i]] = "OnMVarRead" /\ blockInfo'[q[i]] = m /\ frame'[q[i]] = "read"
      BY <1>4, <2>3, <3>3
    <3> QED  BY <2>3, <3>2, <3>4
  <2> QED  BY <2>1, <2>2, <2>3
<1> QED  BY <1>6 DEF Disciplined, q

LEMMA InitQueues == Init => QInv
<1> SUFFICES ASSUME Init PROVE QInv
  OBVIOUS
<1>1. OInv  BY InitOutcome
<1>2. \A t \in Tid : frame[t] = "run"
  BY DEF Init, SchedInit
<1>3. \A m \in MVars : Len(queue[m]) = 0
  BY DEF Init, MVarInit
<1> QED  BY <1>1, <1>2, <1>3 DEF QInv, WokenWithOpPerformed, QueueDiscipline, Retry

\* The scheduler does not touch blocked threads.
LEMMA SchedQueues ==
  ASSUME QInv, SchedStep
  PROVE  WokenWithOpPerformed' /\ QueueDiscipline'
<1>1. BlockedKept /\ UNCHANGED <<value, queue>>
  BY LoopEffect, ReturnedEffect, EndEffect DEF QInv, SchedStep, SchedNext
<1>2. \A t \in Tid : frame'[t] \in {"put", "ret"} => arg'[t] = arg[t]
  BY DEF SchedStep
<1>3. \A t : Blocked(t)' <=> Blocked(t)
  BY <1>1 DEF Blocked, Waiting
<1>4. WokenWithOpPerformed'
  BY <1>1, <1>2, <1>3 DEF QInv, WokenWithOpPerformed, BlockedKept
<1>5. queue \in [MVars -> Seq(Tid)]
  BY Places DEF QInv, OInv, TypeOK
<1>6. ASSUME NEW m \in MVars PROVE Disciplined(m)'
  <2>1. Waiting(m) \subseteq Tid /\ \A t \in Waiting(m) : Blocked(t)
    BY <1>5, RangeOfSeq DEF Blocked, Waiting
  <2>2. Disciplined(m)
    BY DisciplineOfAll DEF QInv
  <2>3. \A t \in Waiting(m) : /\ frame'[t] = frame[t]
                              /\ whyBlocked'[t] = whyBlocked[t]
                              /\ blockInfo'[t] = blockInfo[t]
                              /\ frame[t] = "put" => arg'[t] = arg[t]
    BY <1>1, <1>2, <2>1 DEF BlockedKept
  <2> QED  BY <1>1, <1>5, <2>2, <2>3, DisciplineKept
<1>7. (\A m \in MVars : Disciplined(m))'
  BY <1>6
<1>8. QueueDiscipline'
  BY <1>7 DEF QueueDiscipline, Disciplined
<1> QED  BY <1>4, <1>8

\* A take from an MVar with a blocked putter w.
LEMMA TakeWakes ==
  ASSUME QInv, control = "wasm", NEW m \in MVars, TakeValue(m), queue[m] # <<>>
  PROVE  WokenWithOpPerformed' /\ QueueDiscipline'
<1> DEFINE q == queue[m]
           w == Head(q)
           rest == Tail(q)
<1>1. /\ TypeOK /\ OneWayToRun /\ WokenWithOpPerformed
      /\ q \in Seq(Tid) /\ IsInjective(q) /\ queue \in [MVars -> Seq(Tid)]
      /\ immediates \in Seq(Tid) /\ frame \in [Tid -> Frame]
      /\ arg \in [Tid -> Values \cup {Empty}] /\ value \in [MVars -> Values \cup {Empty}]
      /\ running \in Tid /\ ~Blocked(running)
  BY Places DEF QInv, OInv, Inv, TypeOK, SchedTypeOK, OneWayToRun
<1>2. /\ rest \in Seq(Tid) /\ Len(q) \in Nat \ {0} /\ Len(rest) = Len(q) - 1
      /\ w = q[1] /\ \A i \in 1..Len(rest) : rest[i] = q[i + 1]
      /\ w \in Tid /\ w \in Waiting(m)
      /\ Range(rest) = Waiting(m) \ {w}
  BY <1>1, HeadTailProperties, TailRange, EmptySeq DEF Waiting
<1>3. /\ value[m] # Empty
      /\ value' = [value EXCEPT ![m] = arg[w]]
      /\ queue' = [queue EXCEPT ![m] = rest]
      /\ frame' = [frame EXCEPT ![running] = "run", ![w] = "run"]
      /\ arg' = [arg EXCEPT ![w] = Empty]
      /\ immediates' = immediates \o <<w>>
      /\ UNCHANGED <<whyBlocked, blockInfo>>
  BY DEF TakeValue, Wake
<1>4. Disciplined(m) /\ \A n \in MVars : Disciplined(n)
  BY DisciplineOfAll DEF QInv
<1>5. \A i \in 1..Len(q) : /\ blockInfo[q[i]] = m /\ frame[q[i]] = "put"
                           /\ whyBlocked[q[i]] = "OnMVar" /\ arg[q[i]] \in Values
  BY <1>3, <1>4 DEF Disciplined
<1> HIDE DEF q, w, rest
<1>6. arg[w] \in Values /\ w # running
  BY <1>1, <1>2, <1>5 DEF Blocked
<1>7. \A t \in Tid : /\ frame'[t] = IF t = w \/ t = running THEN "run" ELSE frame[t]
                     /\ arg'[t] = IF t = w THEN Empty ELSE arg[t]
  BY <1>1, <1>2, <1>3
<1>8. Queued \subseteq Queued'
  <2> DEFINE u == <<w>>
  <2>1. u \in Seq(Tid) /\ immediates' = immediates \o u
    BY <1>2, <1>3
  <2> HIDE DEF u
  <2>2. Range(immediates \o u) = Range(immediates) \cup Range(u)
    BY <1>1, <2>1, ConcatKeeps
  <2> QED  BY <2>1, <2>2 DEF Queued
<1>9. \A n \in MVars : Waiting(n)' = IF n = m THEN Waiting(m) \ {w} ELSE Waiting(n)
  BY <1>1, <1>2, <1>3 DEF Waiting
<1>10. WokenWithOpPerformed'
  <2> SUFFICES ASSUME NEW t \in Tid
               PROVE  /\ frame'[t] \in Retry => Blocked(t)'
                      /\ frame'[t] = "ret" => t \in Queued' /\ arg'[t] \in Values
    BY DEF WokenWithOpPerformed
  <2>1. CASE t = w \/ t = running
    BY <1>7, <2>1 DEF Retry
  <2>2. CASE t # w /\ t # running
    <3>1. frame'[t] = frame[t] /\ arg'[t] = arg[t]
      BY <1>7, <2>2
    <3>2. Blocked(t) => Blocked(t)'
      BY <1>9, <2>2 DEF Blocked
    <3> QED  BY <1>1, <1>8, <3>1, <3>2 DEF WokenWithOpPerformed
  <2> QED  BY <2>1, <2>2
<1>11. ASSUME NEW n \in MVars PROVE Disciplined(n)'
  <2>1. CASE n = m
    <3>1. \A i \in 1..Len(rest) : i + 1 \in 1..Len(q) /\ rest[i] \in Tid \ {w}
      BY <1>1, <1>2, ElementOfSeq, RangeOfSeq DEF Range
    <3>2. \A i \in 1..Len(rest) : rest[i] # running
      <4>1. \A i \in 1..Len(rest) : rest[i] \in Range(rest)
        BY <1>2, LenProperties DEF Range
      <4> QED  BY <1>1, <1>2, <4>1 DEF Blocked
    <3>3. \A i \in 1..Len(rest) :
            /\ blockInfo'[rest[i]] = m /\ frame'[rest[i]] = "put"
            /\ whyBlocked'[rest[i]] = "OnMVar" /\ arg'[rest[i]] \in Values
      <4> SUFFICES ASSUME NEW i \in 1..Len(rest)
                   PROVE  /\ blockInfo'[rest[i]] = m /\ frame'[rest[i]] = "put"
                          /\ whyBlocked'[rest[i]] = "OnMVar" /\ arg'[rest[i]] \in Values
        OBVIOUS
      <4>1. i + 1 \in 1..Len(q) /\ rest[i] = q[i + 1]
        BY <1>2, <3>1
      <4>2. /\ blockInfo[rest[i]] = m /\ frame[rest[i]] = "put"
            /\ whyBlocked[rest[i]] = "OnMVar" /\ arg[rest[i]] \in Values
        BY <1>5, <4>1
      <4>3. rest[i] \in Tid /\ rest[i] # w /\ rest[i] # running
        BY <3>1, <3>2
      <4> QED  BY <1>3, <1>7, <4>2, <4>3
    <3>4. queue'[m] = rest /\ value'[m] # Empty
      BY <1>1, <1>3, <1>6, MVarAssumption
    <3> QED  BY <2>1, <3>3, <3>4 DEF Disciplined
  <2>2. CASE n # m
    <3>1. w \notin Waiting(n) /\ running \notin Waiting(n)
      BY <1>1, <1>2, <2>2 DEF OneWayToRun, Blocked
    <3>2. queue'[n] = queue[n] /\ value'[n] = value[n] /\ Waiting(n) \subseteq Tid
      BY <1>1, <1>3, <2>2, RangeOfSeq DEF Waiting
    <3>3. \A t \in Waiting(n) : /\ frame'[t] = frame[t]
                                /\ whyBlocked'[t] = whyBlocked[t]
                                /\ blockInfo'[t] = blockInfo[t]
                                /\ frame[t] = "put" => arg'[t] = arg[t]
      BY <1>3, <1>7, <3>1, <3>2
    <3> QED  BY <1>1, <1>4, <3>2, <3>3, DisciplineKept
  <2> QED  BY <2>1, <2>2
<1>12. QueueDiscipline'
  <2>1. (\A n \in MVars : Disciplined(n))'
    BY <1>11
  <2> QED  BY <2>1 DEF QueueDiscipline, Disciplined
<1> QED  BY <1>10, <1>12

LEMMA TakeWakesNobody ==
  ASSUME QInv, control = "wasm", NEW m \in MVars, TakeValue(m), queue[m] = <<>>
  PROVE  WokenWithOpPerformed' /\ QueueDiscipline'
<1>1. /\ running \in Tid /\ ~Blocked(running) /\ WokenWithOpPerformed
      /\ queue \in [MVars -> Seq(Tid)] /\ frame \in [Tid -> Frame]
      /\ value \in [MVars -> Values \cup {Empty}]
  BY Places DEF QInv, OInv, TypeOK, SchedTypeOK
<1>2. /\ value' = [value EXCEPT ![m] = Empty]
      /\ frame' = [frame EXCEPT ![running] = "run"]
      /\ UNCHANGED <<queue, arg, immediates, whyBlocked, blockInfo>>
  BY DEF TakeValue
<1>3. /\ \A t : Blocked(t)' <=> Blocked(t)
      /\ Queued' = Queued
  BY <1>2 DEF Blocked, Waiting, Queued
<1>4. WokenWithOpPerformed'
  BY <1>1, <1>2, <1>3 DEF WokenWithOpPerformed, Retry
<1>5. ASSUME NEW n \in MVars PROVE Disciplined(n)'
  <2>1. CASE n = m
    <3>1. Len(queue'[n]) = 0
      BY <1>2, <2>1
    <3> QED  BY <3>1 DEF Disciplined
  <2>2. CASE n # m
    <3>1. Waiting(n) \subseteq Tid /\ running \notin Waiting(n) /\ Disciplined(n)
      BY <1>1, RangeOfSeq, DisciplineOfAll DEF Waiting, Blocked, QInv
    <3>2. queue'[n] = queue[n] /\ value'[n] = value[n]
      BY <1>1, <1>2, <2>2
    <3>3. \A t \in Waiting(n) : /\ frame'[t] = frame[t]
                                /\ whyBlocked'[t] = whyBlocked[t]
                                /\ blockInfo'[t] = blockInfo[t]
                                /\ frame[t] = "put" => arg'[t] = arg[t]
      BY <1>1, <1>2, <3>1
    <3> QED  BY <1>1, <3>1, <3>2, <3>3, DisciplineKept
  <2> QED  BY <2>1, <2>2
<1>6. QueueDiscipline'
  <2>1. (\A n \in MVars : Disciplined(n))'
    BY <1>5
  <2> QED  BY <2>1 DEF QueueDiscipline, Disciplined
<1> QED  BY <1>4, <1>6

\* Behind the threads that a put wakes there are only takers, and behind the
\* readers alone there is nobody.
LEMMA LeftByPut ==
  ASSUME QInv, NEW m \in MVars, value[m] = Empty,
         NEW k \in 0..Len(queue[m]),
         k = IF Readers(m) < Len(queue[m]) THEN Readers(m) + 1 ELSE Readers(m),
         NEW i \in 1..Len(queue[m]), i > k
  PROVE  /\ Readers(m) < Len(queue[m])
         /\ blockInfo[queue[m][i]] = m
         /\ frame[queue[m][i]] = "take"
         /\ whyBlocked[queue[m][i]] = "OnMVar"
<1> DEFINE q == queue[m]
           r == Readers(m)
<1>1. q \in Seq(Tid) /\ Len(q) \in Nat
  BY Places, LenProperties DEF QInv, OInv, TypeOK
<1>2. /\ r \in 0..Len(q)
      /\ r < Len(q) => ~IsReader(q[r + 1])
  BY <1>1, ReadersOfQueue
<1>3. r < Len(q) /\ r + 1 \in 1..Len(q) /\ r + 1 \in 1..i
  BY <1>1, <1>2
<1>4. \A j \in 1..Len(q) :
        /\ blockInfo[q[j]] = m
        /\ \/ /\ frame[q[j]] = "take"
              /\ whyBlocked[q[j]] = "OnMVar"
           \/ /\ frame[q[j]] = "read"
              /\ whyBlocked[q[j]] = "OnMVarRead"
              /\ \A l \in 1..j : frame[q[l]] = "read"
  BY DisciplineOfAll DEF QInv, Disciplined
<1> HIDE DEF q, r
<1>5. frame[q[r + 1]] = "take"
  BY <1>2, <1>3, <1>4 DEF IsReader
<1>6. i \in 1..Len(q)
  BY DEF q
<1>7. blockInfo[q[i]] = m /\ frame[q[i]] = "take" /\ whyBlocked[q[i]] = "OnMVar"
  BY <1>3, <1>4, <1>5, <1>6
<1> QED  BY <1>3, <1>7 DEF q, r

LEMMA PutWakes ==
  ASSUME QInv, control = "wasm", NEW m \in MVars, NEW v \in Values, PutValue(m, v)
  PROVE  WokenWithOpPerformed' /\ QueueDiscipline'
<1> DEFINE q == queue[m]
           k == IF Readers(m) < Len(q) THEN Readers(m) + 1 ELSE Readers(m)
           woken == SubSeq(q, 1, k)
           rest == SubSeq(q, k + 1, Len(q))
<1>1. /\ OneWayToRun /\ WokenWithOpPerformed
      /\ q \in Seq(Tid) /\ IsInjective(q) /\ queue \in [MVars -> Seq(Tid)]
      /\ Len(q) \in Nat /\ immediates \in Seq(Tid)
      /\ arg \in [Tid -> Values \cup {Empty}] /\ value \in [MVars -> Values \cup {Empty}]
      /\ running \in Tid /\ ~Blocked(running)
  BY Places, LenProperties DEF QInv, OInv, Inv, TypeOK, SchedTypeOK, OneWayToRun
<1>2. Readers(m) \in 0..Len(q)
  BY <1>1, ReadersOfQueue
<1>3. k \in 0..Len(q)
  BY <1>1, <1>2
<1>4. /\ value[m] = Empty
      /\ value' = IF Readers(m) < Len(q) THEN value ELSE [value EXCEPT ![m] = v]
      /\ queue' = [queue EXCEPT ![m] = rest]
      /\ frame' = [t \in Tid |-> IF t \in Range(woken) THEN "ret"
                                 ELSE IF t = running THEN "run" ELSE frame[t]]
      /\ arg' = [t \in Tid |-> IF t \in Range(woken) THEN v
                               ELSE IF t = running THEN Empty ELSE arg[t]]
      /\ immediates' = immediates \o woken
      /\ UNCHANGED <<whyBlocked, blockInfo>>
  BY DEF PutValue, Wake
<1>5. /\ woken \in Seq(Tid) /\ rest \in Seq(Tid)
      /\ Range(woken) \cup Range(rest) = Waiting(m) /\ Range(woken) \cap Range(rest) = {}
      /\ Len(rest) = Len(q) - k /\ \A i \in 1..(Len(q) - k) : rest[i] = q[k + i]
  <2> HIDE DEF k
  <2>1. woken \in Seq(Tid) /\ rest \in Seq(Tid)
    BY <1>1, <1>3, SplitType
  <2>2. Range(woken) \cup Range(rest) = Range(q) /\ Range(woken) \cap Range(rest) = {}
    BY <1>1, <1>3, SplitRange
  <2>3. Len(rest) = Len(q) - k /\ \A i \in 1..(Len(q) - k) : rest[i] = q[k + i]
    BY <1>1, <1>3, SuffixElements
  <2> QED  BY <2>1, <2>2, <2>3 DEF Waiting
<1>6. \A i \in 1..Len(q) : i > k =>
        /\ Readers(m) < Len(q) /\ blockInfo[q[i]] = m
        /\ frame[q[i]] = "take" /\ whyBlocked[q[i]] = "OnMVar"
  BY <1>3, <1>4, LeftByPut
<1> HIDE DEF q, k, woken, rest
<1>7. Queued' = Queued \cup Range(woken)
  BY <1>1, <1>4, <1>5, ConcatKeeps DEF Queued
<1>8. \A n \in MVars : Waiting(n)' = IF n = m THEN Range(rest) ELSE Waiting(n)
  BY <1>1, <1>4 DEF Waiting
<1>9. WokenWithOpPerformed'
  <2> SUFFICES ASSUME NEW t \in Tid
               PROVE  /\ frame'[t] \in Retry => Blocked(t)'
                      /\ frame'[t] = "ret" => t \in Queued' /\ arg'[t] \in Values
    BY DEF WokenWithOpPerformed
  <2>1. CASE t \in Range(woken)
    BY <1>4, <1>7, <2>1 DEF Retry
  <2>2. CASE t \notin Range(woken) /\ t = running
    BY <1>4, <2>2 DEF Retry
  <2>3. CASE t \notin Range(woken) /\ t # running
    <3>1. frame'[t] = frame[t] /\ arg'[t] = arg[t]
      BY <1>4, <2>3
    <3>2. Blocked(t) => Blocked(t)'
      BY <1>5, <1>8, <2>3 DEF Blocked
    <3> QED  BY <1>1, <1>7, <3>1, <3>2 DEF WokenWithOpPerformed
  <2> QED  BY <2>1, <2>2, <2>3
<1>10. ASSUME NEW n \in MVars PROVE Disciplined(n)'
  <2>1. CASE n = m
    <3>1. queue'[m] = rest
      BY <1>1, <1>4
    <3>2. ASSUME NEW i \in 1..Len(rest)
          PROVE  /\ value'[m] = Empty /\ blockInfo'[rest[i]] = m
                 /\ frame'[rest[i]] = "take" /\ whyBlocked'[rest[i]] = "OnMVar"
      <4>1. k + i \in 1..Len(q) /\ k + i > k /\ rest[i] = q[k + i]
        BY <1>1, <1>3, <1>5
      <4>2. rest[i] \in Range(rest)
        BY <1>5, LenProperties DEF Range
      <4>3. rest[i] \in Tid /\ rest[i] \notin Range(woken) /\ rest[i] # running
        BY <1>1, <1>5, <4>2, RangeOfSeq DEF Blocked
      <4> QED  BY <1>4, <1>6, <4>1, <4>3
    <3> QED  BY <2>1, <3>1, <3>2 DEF Disciplined
  <2>2. CASE n # m
    <3>1. Waiting(n) \subseteq Tid /\ running \notin Waiting(n) /\ Disciplined(n)
      BY <1>1, RangeOfSeq, DisciplineOfAll DEF Waiting, Blocked, QInv
    <3>2. Waiting(n) \cap Range(woken) = {}
      BY <1>1, <1>5, <2>2 DEF OneWayToRun
    <3>3. queue'[n] = queue[n] /\ value'[n] = value[n]
      BY <1>1, <1>4, <2>2
    <3>4. \A t \in Waiting(n) : /\ frame'[t] = frame[t]
                                /\ whyBlocked'[t] = whyBlocked[t]
                                /\ blockInfo'[t] = blockInfo[t]
                                /\ frame[t] = "put" => arg'[t] = arg[t]
      BY <1>4, <3>1, <3>2
    <3> QED  BY <1>1, <3>1, <3>3, <3>4, DisciplineKept
  <2> QED  BY <2>1, <2>2
<1>11. QueueDiscipline'
  <2>1. (\A n \in MVars : Disciplined(n))'
    BY <1>10
  <2> QED  BY <2>1 DEF QueueDiscipline, Disciplined
<1> QED  BY <1>9, <1>11

\* The running thread goes into the queue of m, which becomes q.
LEMMA BlockQueues ==
  ASSUME QInv, control = "wasm", NEW m \in MVars, NEW op \in {"take", "read", "put"},
         NEW v \in Values \cup {Empty}, NEW why, Block(op, m, v, why),
         NEW q \in Seq(Tid), queue' = [queue EXCEPT ![m] = q],
         Range(q) = Waiting(m) \cup {running},
         Disciplined(m)'
  PROVE  WokenWithOpPerformed' /\ QueueDiscipline'
<1>1. /\ running \in Tid /\ ~Blocked(running) /\ WokenWithOpPerformed
      /\ queue \in [MVars -> Seq(Tid)] /\ frame \in [Tid -> Frame]
      /\ arg \in [Tid -> Values \cup {Empty}]
      /\ whyBlocked \in [Tid -> WhyBlocked] /\ DOMAIN blockInfo = Tid
  BY Places DEF QInv, OInv, TypeOK, SchedTypeOK
<1>2. /\ frame' = [frame EXCEPT ![running] = op]
      /\ arg' = [arg EXCEPT ![running] = v]
      /\ blockInfo' = [blockInfo EXCEPT ![running] = m]
      /\ whyBlocked' = [whyBlocked EXCEPT ![running] = why]
      /\ UNCHANGED <<value, immediates>>
  BY DEF Block, loopVars
<1>3. /\ \A n \in MVars : Waiting(n)' = IF n = m THEN Waiting(m) \cup {running}
                                        ELSE Waiting(n)
      /\ Queued' = Queued
  BY <1>1, <1>2 DEF Waiting, Queued
<1>4. \A t : Blocked(t)' <=> Blocked(t) \/ t = running
  BY <1>3 DEF Blocked
<1>5. WokenWithOpPerformed'
  BY <1>1, <1>2, <1>3, <1>4 DEF WokenWithOpPerformed
<1>6. ASSUME NEW n \in MVars \ {m} PROVE Disciplined(n)'
  <2>1. Waiting(n) \subseteq Tid /\ running \notin Waiting(n) /\ Disciplined(n)
    BY <1>1, RangeOfSeq, DisciplineOfAll DEF Waiting, Blocked, QInv
  <2>2. queue'[n] = queue[n] /\ value'[n] = value[n]
    BY <1>1, <1>2
  <2>3. \A t \in Waiting(n) : /\ frame'[t] = frame[t]
                              /\ whyBlocked'[t] = whyBlocked[t]
                              /\ blockInfo'[t] = blockInfo[t]
                              /\ frame[t] = "put" => arg'[t] = arg[t]
    BY <1>1, <1>2, <2>1
  <2> QED  BY <1>1, <2>1, <2>2, <2>3, DisciplineKept
<1>7. QueueDiscipline'
  <2>1. (\A n \in MVars : Disciplined(n))'
    BY <1>6
  <2> QED  BY <2>1 DEF QueueDiscipline, Disciplined
<1> QED  BY <1>5, <1>7

\* Takers and putters queue behind all others, readers in front of them.
LEMMA BlockedDiscipline ==
  ASSUME QInv, control = "wasm", NEW m \in MVars, NEW op, NEW v, NEW why,
         Block(op, m, v, why),
         \/ /\ op = "take" /\ why = "OnMVar" /\ value[m] = Empty
            /\ queue' = [queue EXCEPT ![m] = Append(@, running)]
         \/ /\ op = "put" /\ why = "OnMVar" /\ value[m] # Empty /\ v \in Values
            /\ queue' = [queue EXCEPT ![m] = Append(@, running)]
         \/ /\ op = "read" /\ why = "OnMVarRead" /\ value[m] = Empty
            /\ queue' = [queue EXCEPT ![m] = <<running>> \o @]
  PROVE  Disciplined(m)'
<1> DEFINE q == queue[m]
<1>1. /\ running \in Tid /\ ~Blocked(running)
      /\ queue \in [MVars -> Seq(Tid)] /\ q \in Seq(Tid) /\ Len(q) \in Nat
      /\ frame \in [Tid -> Frame] /\ arg \in [Tid -> Values \cup {Empty}]
      /\ whyBlocked \in [Tid -> WhyBlocked] /\ DOMAIN blockInfo = Tid
  BY Places, LenProperties DEF QInv, OInv, TypeOK, SchedTypeOK
<1>2. /\ frame' = [frame EXCEPT ![running] = op]
      /\ arg' = [arg EXCEPT ![running] = v]
      /\ blockInfo' = [blockInfo EXCEPT ![running] = m]
      /\ whyBlocked' = [whyBlocked EXCEPT ![running] = why]
      /\ value' = value
  BY DEF Block
<1>3. \A i \in 1..Len(q) : q[i] \in Tid /\ q[i] # running
  <2>1. \A i \in 1..Len(q) : q[i] \in Range(q)
    BY <1>1, LenProperties DEF Range
  <2> QED  BY <1>1, <2>1, RangeOfSeq DEF Blocked, Waiting
<1>4. \A i \in 1..Len(q) :
        /\ blockInfo[q[i]] = m
        /\ IF value[m] # Empty
           THEN frame[q[i]] = "put" /\ whyBlocked[q[i]] = "OnMVar" /\ arg[q[i]] \in Values
           ELSE \/ /\ frame[q[i]] = "take"
                   /\ whyBlocked[q[i]] = "OnMVar"
                \/ /\ frame[q[i]] = "read"
                   /\ whyBlocked[q[i]] = "OnMVarRead"
                   /\ \A j \in 1..i : frame[q[j]] = "read"
  BY DisciplineOfAll DEF QInv, Disciplined
<1> HIDE DEF q
<1>5. \A i \in 1..Len(q) :
        /\ frame'[q[i]] = frame[q[i]] /\ whyBlocked'[q[i]] = whyBlocked[q[i]]
        /\ blockInfo'[q[i]] = blockInfo[q[i]] /\ arg'[q[i]] = arg[q[i]]
  BY <1>1, <1>2, <1>3
<1>6. /\ frame'[running] = op /\ arg'[running] = v
      /\ blockInfo'[running] = m /\ whyBlocked'[running] = why
  BY <1>1, <1>2
<1>7. CASE op # "read"
  <2> DEFINE s == Append(q, running)
  <2>1. /\ Len(s) = Len(q) + 1 /\ s[Len(q) + 1] = running
        /\ \A i \in 1..Len(q) : s[i] = q[i]
    BY <1>1, AppendProperties
  <2>2. queue'[m] = s
    BY <1>1, <1>7 DEF q
  <2> HIDE DEF s
  <2>3. /\ value[m] = Empty => op = "take" /\ why = "OnMVar"
        /\ value[m] # Empty => op = "put" /\ why = "OnMVar" /\ v \in Values
    BY <1>7
  <2>4. ASSUME NEW i \in 1..Len(s)
        PROVE  /\ blockInfo'[s[i]] = m
               /\ IF value[m] # Empty
                  THEN /\ frame'[s[i]] = "put"
                       /\ whyBlocked'[s[i]] = "OnMVar" /\ arg'[s[i]] \in Values
                  ELSE \/ /\ frame'[s[i]] = "take"
                          /\ whyBlocked'[s[i]] = "OnMVar"
                       \/ /\ frame'[s[i]] = "read"
                          /\ whyBlocked'[s[i]] = "OnMVarRead"
                          /\ \A j \in 1..i : frame'[s[j]] = "read"
    <3>1. CASE i = Len(q) + 1
      BY <1>6, <2>1, <2>3, <3>1
    <3>2. CASE i \in 1..Len(q)
      <4>1. \A j \in 1..i : j \in 1..Len(q)
        BY <1>1, <3>2
      <4>2. s[i] = q[i] /\ \A j \in 1..i : s[j] = q[j]
        BY <2>1, <3>2, <4>1
      <4> QED  BY <1>4, <1>5, <3>2, <4>1, <4>2
    <3> QED  BY <1>1, <2>1, <3>1, <3>2
  <2> QED  BY <1>2, <2>2, <2>4 DEF Disciplined
<1>8. CASE op = "read"
  <2> DEFINE s == <<running>> \o q
  <2>1. /\ Len(s) = Len(q) + 1 /\ s[1] = running
        /\ \A i \in 2..Len(s) : i - 1 \in 1..Len(q) /\ s[i] = q[i - 1]
    BY <1>1, ConcatProperties
  <2>2. queue'[m] = s
    BY <1>1, <1>8 DEF q
  <2> HIDE DEF s
  <2>3. value[m] = Empty /\ why = "OnMVarRead"
    BY <1>8
  <2>4. ASSUME NEW i \in 1..Len(s)
        PROVE  /\ blockInfo'[s[i]] = m
               /\ \/ /\ frame'[s[i]] = "take"
                     /\ whyBlocked'[s[i]] = "OnMVar"
                  \/ /\ frame'[s[i]] = "read"
                     /\ whyBlocked'[s[i]] = "OnMVarRead"
                     /\ \A j \in 1..i : frame'[s[j]] = "read"
    <3>1. CASE i = 1
      <4>1. \A j \in 1..i : j = 1
        BY <3>1
      <4> QED  BY <1>6, <1>8, <2>1, <2>3, <3>1, <4>1
    <3>2. CASE i \in 2..Len(s) /\ frame[s[i]] # "read"
      BY <1>4, <1>5, <2>1, <2>3, <3>2
    <3>3. CASE i \in 2..Len(s) /\ frame[s[i]] = "read"
      <4>1. i - 1 \in 1..Len(q) /\ s[i] = q[i - 1]
        BY <2>1, <3>3
      <4>2. \A j \in 1..(i - 1) : j \in 1..Len(q) /\ frame[q[j]] = "read"
        BY <1>1, <1>4, <2>3, <3>3, <4>1
      <4>3. ASSUME NEW j \in 1..i PROVE frame'[s[j]] = "read"
        <5>1. CASE j = 1
          BY <1>6, <1>8, <2>1, <5>1
        <5>2. CASE j # 1
          <6>1. j \in 2..Len(s) /\ j - 1 \in 1..(i - 1)
            BY <5>2, <1>1, <2>1
          <6>2. s[j] = q[j - 1]
            BY <2>1, <6>1
          <6> QED  BY <1>5, <4>2, <6>1, <6>2
        <5> QED  BY <5>1, <5>2
      <4> QED  BY <1>4, <1>5, <2>3, <3>3, <4>1, <4>3
    <3> QED  BY <1>1, <2>1, <3>1, <3>2, <3>3
  <2> QED  BY <1>2, <2>2, <2>3, <2>4 DEF Disciplined
<1> QED  BY <1>7, <1>8

LEMMA MVarQueues ==
  ASSUME QInv, MVarNext
  PROVE  WokenWithOpPerformed' /\ QueueDiscipline'
<1>1. PICK m \in MVars :
        \/ TakeValue(m)
        \/ \E v \in Values : PutValue(m, v)
        \/ \E op \in {"take", "read", "put"}, v \in Values \cup {Empty},
              why \in {"OnMVar", "OnMVarRead"} :
             /\ Block(op, m, v, why)
             /\ \/ /\ op = "take" /\ why = "OnMVar" /\ value[m] = Empty
                   /\ queue' = [queue EXCEPT ![m] = Append(@, running)]
                \/ /\ op = "put" /\ why = "OnMVar" /\ value[m] # Empty /\ v \in Values
                   /\ queue' = [queue EXCEPT ![m] = Append(@, running)]
                \/ /\ op = "read" /\ why = "OnMVarRead" /\ value[m] = Empty
                   /\ queue' = [queue EXCEPT ![m] = <<running>> \o @]
  BY MVarCases
<1>2. control = "wasm"
  BY MVarCases
<1>3. CASE TakeValue(m)
  BY <1>2, <1>3, TakeWakes, TakeWakesNobody
<1>4. CASE \E v \in Values : PutValue(m, v)
  BY <1>2, <1>4, PutWakes
<1>5. ASSUME NEW op \in {"take", "read", "put"}, NEW v \in Values \cup {Empty}, NEW why,
             Block(op, m, v, why),
             \/ /\ op = "take" /\ why = "OnMVar" /\ value[m] = Empty
                /\ queue' = [queue EXCEPT ![m] = Append(@, running)]
             \/ /\ op = "put" /\ why = "OnMVar" /\ value[m] # Empty /\ v \in Values
                /\ queue' = [queue EXCEPT ![m] = Append(@, running)]
             \/ /\ op = "read" /\ why = "OnMVarRead" /\ value[m] = Empty
                /\ queue' = [queue EXCEPT ![m] = <<running>> \o @]
      PROVE  WokenWithOpPerformed' /\ QueueDiscipline'
  <2> DEFINE a == Append(queue[m], running)
             c == <<running>> \o queue[m]
  <2>1. queue[m] \in Seq(Tid) /\ running \in Tid
    BY <1>2, Places DEF QInv, OInv, TypeOK
  <2>2. Disciplined(m)'
    BY <1>2, <1>5, BlockedDiscipline
  <2>3. a \in Seq(Tid) /\ Range(a) = Waiting(m) \cup {running}
    BY <2>1, AppendProperties, AppendRange DEF Waiting
  <2>4. c \in Seq(Tid) /\ Range(c) = Waiting(m) \cup {running}
    BY <2>1, PushRange DEF Waiting
  <2>5. queue' = [queue EXCEPT ![m] = a] \/ queue' = [queue EXCEPT ![m] = c]
    BY <1>5
  <2> HIDE DEF a, c
  <2> QED  BY <1>2, <1>5, <2>2, <2>3, <2>4, <2>5, BlockQueues
<1> QED  BY <1>1, <1>3, <1>4, <1>5

LEMMA NextQueues == QInv /\ [Next]_vars => QInv'
<1> SUFFICES ASSUME QInv, [Next]_vars PROVE QInv'
  OBVIOUS
<1>1. OInv'
  BY NextOutcome DEF QInv
<1>2. CASE SchedStep
  BY <1>1, <1>2, SchedQueues DEF QInv
<1>3. CASE MVarNext
  BY <1>1, <1>3, MVarQueues DEF QInv
<1>4. CASE UNCHANGED vars
  BY <1>1, <1>4
  DEF QInv, vars, schedVars, mvarVars, tsoVars, loopVars, WokenWithOpPerformed,
      QueueDiscipline, Blocked, Waiting, Queued
<1> QED  BY <1>2, <1>3, <1>4 DEF Next

LEMMA QueueInvariance == Spec => []QInv
  BY InitQueues, NextQueues, PTL DEF Spec

\* Behind a full MVar wait only putters, behind an empty one readers and then
\* takers, each with the block reason, object and frame that the code which
\* wakes it overwrites without looking (PerformTake, PerformPut).
THEOREM QueuesAreDisciplined == Spec => []QueueDiscipline
<1>1. QInv => QueueDiscipline
  BY DEF QInv
<1> QED  BY <1>1, QueueInvariance, PTL

\* A thread has the frame that redoes its take, read or put only while it is in
\* the queue: it is never woken to find its operation not performed.
THEOREM OperationsArePerformed == Spec => []WokenWithOpPerformed
<1>1. QInv => WokenWithOpPerformed
  BY DEF QInv
<1> QED  BY <1>1, QueueInvariance, PTL

-----------------------------------------------------------------------------
(***************************************************************************)
(* A settled call has an outcome, if JavaScript takes every error that can *)
(* be thrown or rejected with as true: the test in tick is on truth.       *)
(***************************************************************************)

LEMMA NextSettled ==
  ASSUME Errors = Truthy, OInv, OInv', SettledCallHasOutcome, [Next]_vars
  PROVE  SettledCallHasOutcome'
<1>1. /\ TypeOK /\ CurrentThread /\ immediates \in Seq(Tid) /\ NoThread \notin Tid
      /\ \A t \in Tid : running = t \/ Blocked(t)
                          => t \notin Queued \cup sleeping \cup Awaiting
      /\ \A t \in Tid : t \in Queued => t \notin sleeping \cup Awaiting
      /\ control \in {"loop", "wasm"} => blockingPromise = NoThread
  BY Places DEF OInv, TypeOK, SchedTypeOK
<1>2. /\ CallOnItsWay /\ OutcomeMeetsCall /\ Queued \subseteq Tid
  BY Places DEF OInv, Queued
<1>3. /\ (\A t \in Tid : t \in Queued => t \notin sleeping \cup Awaiting)'
      /\ Range(immediates)' \subseteq Tid
  <2>1. OneWayToRun' /\ TypeInv'
    BY DEF OInv, Inv
  <2>2. immediates' \in Seq(Tid)
    BY <2>1 DEF TypeInv, TypeOK, SchedTypeOK
  <2>3. Range(immediates') \subseteq Tid
    BY <2>2, RangeOfSeq
  <2> QED  BY <2>1, <2>3 DEF OneWayToRun, OneWay
<1> USE DEF TypeOK, SchedTypeOK, CurrentThread
\* It is enough to look at a thread whose tick the step registers, or whose frame
\* or outcome it changes.
<1>4. ASSUME \A t \in Tid : t \in Queued' /\ frame'[t] = "ffi"
               => \/ /\ t \in Queued /\ frame[t] = "ffi"
                     /\ ffiRet'[t] = ffiRet[t] /\ ffiRetErr'[t] = ffiRetErr[t]
                  \/ ffiRet'[t] = t
                  \/ ffiRetErr'[t] \in Truthy
      PROVE  SettledCallHasOutcome'
  BY <1>3, <1>4 DEF SettledCallHasOutcome, Queued
<1>5. CASE NewThread
  <2> DEFINE n == lastTid + 1
  <2>1. n \in Tid
    BY <1>1, <1>5, SchedulerAssumption DEF NewThread, Tid
  <2>2. /\ Queued' = Queued \cup {n} /\ frame'[n] = "run"
        /\ \A t \in Tid \ {n} : /\ frame'[t] = frame[t] /\ ffiRet'[t] = ffiRet[t]
                                /\ ffiRetErr'[t] = ffiRetErr[t]
    BY <1>1, <1>5, <2>1, AppendRange DEF NewThread, Queued
  <2> HIDE DEF n
  <2> QED  BY <1>4, <2>2
<1>6. CASE Tick
  <2> DEFINE h == Head(immediates)
  <2>1. /\ immediates # <<>> /\ immediates' = Tail(immediates)
        /\ frame' = [frame EXCEPT ![h] = Resumed(h)]
        /\ ffiRet' = [ffiRet EXCEPT ![h] = NoThread]
        /\ ffiRetErr' = [ffiRetErr EXCEPT ![h] = Undefined]
    BY <1>6 DEF Tick
  <2>2. h \in Tid /\ Queued' = Queued \ {h}
    BY <1>1, <2>1, TailRange, HeadTailProperties DEF Queued, OInv, Inv, OneWayToRun
  <2> HIDE DEF h
  <2> QED  BY <1>1, <1>4, <2>1, <2>2
<1>7. CASE StopAndRequeue \/ Delay \/ SafeCall
  <2>1. /\ control = "wasm" /\ UNCHANGED <<ffiRet, ffiRetErr, immediates>>
        /\ \A t \in Tid \ {running} : frame'[t] = frame[t]
    BY <1>1, <1>7
    DEF StopAndRequeue, Delay, SafeCall, Executing, loopVars, infoVars
  <2>2. Queued' = Queued /\ running \notin Queued
    BY <1>1, <2>1 DEF Queued
  <2> QED  BY <1>4, <2>1, <2>2
<1>8. CASE ThrowSync
  <2>1. /\ control = "wasm" /\ immediates' = Append(immediates, running)
        /\ ffiRet' = ffiRet /\ running \in Tid
        /\ \E e \in Truthy : ffiRetErr' = [ffiRetErr EXCEPT ![running] = e]
        /\ \A t \in Tid \ {running} : frame'[t] = frame[t]
    BY <1>1, <1>8 DEF ThrowSync, Executing
  <2>2. Queued' = Queued \cup {running} /\ ffiRetErr'[running] \in Truthy
    BY <1>1, <2>1, AppendRange DEF Queued
  <2>3. \A t \in Tid \ {running} : ffiRetErr'[t] = ffiRetErr[t]
    BY <1>1, <2>1
  <2> QED  BY <1>4, <2>1, <2>2, <2>3
<1>9. ASSUME NEW w \in Tid, TimerFires(w)
      PROVE  SettledCallHasOutcome'
  <2>1. /\ w \in sleeping /\ immediates' = Append(immediates, w) /\ control = "loop"
        /\ UNCHANGED <<frame, ffiRet, ffiRetErr, awaiting, blockingPromise>>
    BY <1>9 DEF TimerFires, tsoVars, infoVars, capVars
  <2>2. Queued' = Queued \cup {w} /\ Awaiting' = Awaiting
    BY <1>1, <2>1, AppendRange DEF Queued, Awaiting
  <2>3. w \notin Queued \cup Awaiting /\ blockingPromise # w
    BY <1>1, <1>3, <2>1, <2>2
  <2>4. frame[w] # "ffi"
    BY <1>2, <2>3 DEF CallOnItsWay
  <2> QED  BY <1>4, <2>1, <2>2, <2>4
<1>10. ASSUME NEW w \in Tid, PromiseResolves(w) \/ PromiseRejects(w)
       PROVE  SettledCallHasOutcome'
  <2>1. /\ w \in Awaiting /\ immediates' = Append(immediates, w) /\ frame' = frame
        /\ \/ /\ ffiRet' = [ffiRet EXCEPT ![w] = awaiting[w]] /\ ffiRetErr' = ffiRetErr
           \/ /\ \E e \in Truthy : ffiRetErr' = [ffiRetErr EXCEPT ![w] = e]
              /\ ffiRet' = ffiRet
    BY <1>10 DEF PromiseResolves, PromiseRejects, Settled, tsoVars
  <2>2. Queued' = Queued \cup {w} /\ awaiting[w] = w
    BY <1>1, <1>2, <2>1, AppendRange DEF Queued, OutcomeMeetsCall
  <2>3. /\ ffiRet'[w] = w \/ ffiRetErr'[w] \in Truthy
        /\ \A t \in Tid \ {w} : ffiRet'[t] = ffiRet[t] /\ ffiRetErr'[t] = ffiRetErr[t]
    BY <1>1, <2>1, <2>2
  <2> QED  BY <1>4, <2>1, <2>2, <2>3
<1>11. CASE RequeueReturned
  <2>1. /\ immediates' = Append(immediates, running) /\ control = "returned"
        /\ UNCHANGED <<frame, ffiRet, ffiRetErr>>
        /\ rRet # "ThreadBlocked"
    BY <1>11 DEF RequeueReturned, BackToLoop, Requeued, tsoVars, infoVars
  <2>2. running \in Tid /\ blockingPromise = NoThread
    BY <1>1, <2>1 DEF OInv, Inv, BlockingPromiseOwned
  <2>3. Queued' = Queued \cup {running} /\ running \notin Queued \cup Awaiting
    BY <1>1, <2>1, <2>2, AppendRange DEF Queued
  <2>4. frame[running] # "ffi"
    BY <1>1, <1>2, <2>2, <2>3 DEF CallOnItsWay
  <2> QED  BY <1>4, <2>1, <2>3, <2>4
<1>12. CASE AwaitReturned \/ SleepReturned \/ ParkReturned \/ EndReturned
  <2>1. UNCHANGED <<immediates, frame, ffiRet, ffiRetErr>>
    BY <1>12
    DEF AwaitReturned, SleepReturned, ParkReturned, EndReturned, BackToLoop, tsoVars,
        infoVars, loopVars
  <2> QED  BY <1>4, <2>1 DEF Queued
<1>13. CASE Catch(<<>>) \/ Die(<<>>) \/ Finish
  <2>1. immediates \o <<>> = immediates
    BY <1>1, ConcatEmptySeq
  <2>2. /\ control = "wasm" /\ UNCHANGED <<immediates, ffiRet, ffiRetErr>>
        /\ \A t \in Tid \ {running} : frame'[t] = frame[t]
    BY <1>1, <1>13, <2>1 DEF Catch, Die, Finish, Raising, Executing, infoVars, loopVars
  <2>3. Queued' = Queued /\ running \notin Queued
    BY <1>1, <2>2 DEF Queued
  <2> QED  BY <1>4, <2>2, <2>3
<1>14. CASE MVarNext
  <2>1. /\ control = "wasm" /\ UNCHANGED <<ffiRet, ffiRetErr, awaiting, blockingPromise>>
        /\ \A t \in Tid : frame'[t] = "ffi" => frame[t] = "ffi" /\ t # running
    BY <1>14, MVarEffect DEF OInv, infoVars
  <2>2. Awaiting' = Awaiting
    BY <2>1 DEF Awaiting
  <2>3. \A t \in Tid : frame[t] = "ffi" => t \in Queued \cup Awaiting
    BY <1>1, <1>2, <2>1 DEF CallOnItsWay
  <2> QED  BY <1>3, <1>4, <2>1, <2>2, <2>3
<1>15. CASE UNCHANGED vars
  BY <1>15 DEF SettledCallHasOutcome, vars, schedVars, tsoVars, infoVars, loopVars, Queued
<1> QED
  BY <1>5, <1>6, <1>7, <1>8, <1>9, <1>10, <1>11, <1>12, <1>13, <1>14, <1>15
  DEF Next, SchedStep, SchedNext, LoopNext, SubmitCmdCreateThread, Fork, ReturnedFromTSO

\* Where every error is taken as true, a thread never goes on behind a foreign
\* call with neither a result nor an exception (docs/jsffi.md); the assumption is
\* what the code lacks, since a promise may be rejected with undefined.
THEOREM SettledCallsHaveOutcomes ==
  ASSUME Errors = Truthy
  PROVE  Spec => []SettledCallHasOutcome
<1>1. Init => SettledCallHasOutcome
  BY DEF Init, SchedInit, SettledCallHasOutcome, Queued, Range
<1>2. OInv /\ OInv' /\ SettledCallHasOutcome /\ [Next]_vars => SettledCallHasOutcome'
  BY NextSettled
<1> QED  BY <1>1, <1>2, OutcomeInvariance, PTL DEF Spec

-----------------------------------------------------------------------------
(***************************************************************************)
(* Fair queues: what a step does to the threads in front of a blocked one. *)
(***************************************************************************)

\* What NoOvertaking says of a step.
NobodyOvertakes ==
  \A m \in MVars : \A t \in Waiting(m) :
    t \in Waiting(m)' => Ahead(m, t)' \subseteq Ahead(m, t)

LEMMA AheadKept ==
  ASSUME NEW m \in MVars, NEW t,
         \A j \in 1..Len(queue'[m]), k \in 1..Len(queue'[m]) :
           j < k /\ queue'[m][k] = t /\ whyBlocked'[queue'[m][j]] # "OnMVarRead"
             => \E a \in 1..Len(queue[m]), b \in 1..Len(queue[m]) :
                  /\ a < b /\ queue[m][b] = t /\ queue[m][a] = queue'[m][j]
                  /\ whyBlocked[queue[m][a]] # "OnMVarRead",
         queue[m] \in Seq(Tid), queue'[m] \in Seq(Tid)
  PROVE  Ahead(m, t)' \subseteq Ahead(m, t)
<1> DEFINE q == queue[m]
           r == queue'[m]
<1>1. Len(q) \in Nat /\ Len(r) \in Nat
  BY LenProperties
<1>2. SUFFICES ASSUME NEW x \in Ahead(m, t)' PROVE x \in Ahead(m, t)
  OBVIOUS
<1>3. PICK j \in 1..Len(r) : /\ x = r[j] /\ whyBlocked'[r[j]] # "OnMVarRead"
                             /\ \E k \in (j + 1)..Len(r) : r[k] = t
  BY <1>2 DEF Ahead, IsReader
<1>4. PICK k \in (j + 1)..Len(r) : r[k] = t
  BY <1>3
<1>5. j < k /\ k \in 1..Len(r)
  BY <1>1
<1>6. PICK a \in 1..Len(q), b \in 1..Len(q) :
        a < b /\ q[b] = t /\ q[a] = r[j] /\ whyBlocked[q[a]] # "OnMVarRead"
  BY <1>3, <1>4, <1>5
<1>7. b \in (a + 1)..Len(q)
  BY <1>1, <1>6
<1> HIDE DEF r
<1> QED  BY <1>3, <1>6, <1>7 DEF Ahead, IsReader

LEMMA SuffixAhead ==
  ASSUME NEW m \in MVars, NEW t, queue[m] \in Seq(Tid), queue'[m] \in Seq(Tid),
         NEW n \in 0..Len(queue[m]),
         Len(queue'[m]) = Len(queue[m]) - n,
         \A i \in 1..(Len(queue[m]) - n) : queue'[m][i] = queue[m][n + i],
         \A x \in Waiting(m) : whyBlocked'[x] = whyBlocked[x]
  PROVE  Ahead(m, t)' \subseteq Ahead(m, t)
<1> DEFINE q == queue[m]
           r == queue'[m]
<1>1. Len(q) \in Nat /\ DOMAIN q = 1..Len(q)
  BY LenProperties
<1>2. \A i \in 1..Len(q) : whyBlocked'[q[i]] = whyBlocked[q[i]]
  BY <1>1 DEF Waiting, Range
<1>3. Len(r) = Len(q) - n /\ \A i \in 1..Len(r) : n + i \in 1..Len(q) /\ r[i] = q[n + i]
  BY <1>1
<1> HIDE DEF q, r
<1>4. ASSUME NEW j \in 1..Len(r), NEW k \in 1..Len(r), j < k, r[k] = t,
             whyBlocked'[r[j]] # "OnMVarRead"
      PROVE  \E a \in 1..Len(q), b \in 1..Len(q) :
               a < b /\ q[b] = t /\ q[a] = r[j] /\ whyBlocked[q[a]] # "OnMVarRead"
  <2>1. n + j \in 1..Len(q) /\ n + k \in 1..Len(q) /\ n + j < n + k
    BY <1>1, <1>3, <1>4
  <2>2. q[n + k] = t /\ q[n + j] = r[j] /\ whyBlocked[q[n + j]] # "OnMVarRead"
    BY <1>2, <1>3, <1>4, <2>1
  <2> QED  BY <2>1, <2>2
<1> QED  BY <1>4, AheadKept DEF q, r

\* A step that leaves the queue of m alone, and the block reasons in it.
LEMMA SameAhead ==
  ASSUME NEW m \in MVars, NEW t, queue[m] \in Seq(Tid), queue'[m] = queue[m],
         \A x \in Waiting(m) : whyBlocked'[x] = whyBlocked[x]
  PROVE  Ahead(m, t)' \subseteq Ahead(m, t)
<1>1. Len(queue[m]) \in Nat
  BY LenProperties
<1>2. 0 \in 0..Len(queue[m]) /\ Len(queue'[m]) = Len(queue[m]) - 0
  BY <1>1
<1>3. \A i \in 1..(Len(queue[m]) - 0) : queue'[m][i] = queue[m][0 + i]
  BY <1>1
<1> QED  BY <1>2, <1>3, SuffixAhead

LEMMA MVarOvertakes ==
  ASSUME QInv, MVarNext
  PROVE  NobodyOvertakes
<1>1. /\ control = "wasm" /\ running \in Tid /\ ~Blocked(running)
      /\ queue \in [MVars -> Seq(Tid)] /\ whyBlocked \in [Tid -> WhyBlocked]
      /\ queue' \in [MVars -> Seq(Tid)]
  <2>1. TypeInv'
    BY NextType DEF QInv, OInv, Inv, Next
  <2> QED  BY <2>1, MVarCases, Places DEF QInv, OInv, TypeInv, TypeOK, SchedTypeOK
<1>2. \A n \in MVars : Waiting(n) \subseteq Tid \ {running}
  BY <1>1, RangeOfSeq DEF Waiting, Blocked
<1>3. PICK m \in MVars :
        \/ TakeValue(m)
        \/ \E v \in Values : PutValue(m, v)
        \/ \E op, v, why : /\ Block(op, m, v, why)
                           /\ queue' = [queue EXCEPT ![m] = Append(@, running)]
        \/ \E op, v : /\ Block(op, m, v, "OnMVarRead")
                      /\ queue' = [queue EXCEPT ![m] = <<running>> \o @]
  BY MVarCases
<1>4. /\ \A t \in Tid \ {running} : whyBlocked'[t] = whyBlocked[t]
      /\ \A n \in MVars \ {m} : queue'[n] = queue[n]
  BY <1>1, <1>3 DEF TakeValue, PutValue, Block
<1>5. ASSUME NEW n \in MVars \ {m}, NEW t PROVE Ahead(n, t)' \subseteq Ahead(n, t)
  BY <1>1, <1>2, <1>4, SameAhead
<1>6. \A x \in Waiting(m) : whyBlocked'[x] = whyBlocked[x]
  BY <1>2, <1>4
<1>7. ASSUME NEW t \in Waiting(m) PROVE Ahead(m, t)' \subseteq Ahead(m, t)
  <2> DEFINE q == queue[m]
             r == queue'[m]
  <2>1. q \in Seq(Tid) /\ r \in Seq(Tid) /\ Len(q) \in Nat /\ DOMAIN q = 1..Len(q)
    BY <1>1, LenProperties
  <2>2. t # running /\ \A i \in 1..Len(q) : whyBlocked'[q[i]] = whyBlocked[q[i]]
    BY <1>2, <1>6, <1>7, <2>1 DEF Waiting, Range
  <2>3. CASE TakeValue(m)
    <3>1. CASE q = <<>>
      <4>1. r = q
        BY <2>3, <3>1 DEF TakeValue
      <4> QED  BY <1>6, <2>1, <4>1, SameAhead
    <3>2. CASE q # <<>>
      <4>1. r = Tail(q)
        BY <1>1, <2>3, <3>2 DEF TakeValue
      <4>2. /\ Len(q) \in Nat \ {0} /\ Len(r) = Len(q) - 1
            /\ \A i \in 1..Len(r) : r[i] = q[i + 1]
        BY <2>1, <3>2, <4>1, HeadTailProperties, EmptySeq
      <4>3. 1 \in 0..Len(q) /\ \A i \in 1..(Len(q) - 1) : r[i] = q[1 + i]
        BY <4>2
      <4> HIDE DEF r
      <4> QED  BY <1>6, <2>1, <4>2, <4>3, SuffixAhead DEF r
    <3> QED  BY <3>1, <3>2
  <2>4. CASE \E v \in Values : PutValue(m, v)
    <3> DEFINE k == IF Readers(m) < Len(q) THEN Readers(m) + 1 ELSE Readers(m)
    <3>1. Readers(m) \in 0..Len(q)
      BY <2>1, ReadersOfQueue
    <3>2. k \in 0..Len(q)
      BY <2>1, <3>1
    <3>3. r = SubSeq(q, k + 1, Len(q))
      BY <1>1, <2>4 DEF PutValue
    <3> HIDE DEF k, r
    <3>4. Len(r) = Len(q) - k /\ \A i \in 1..(Len(q) - k) : r[i] = q[k + i]
      BY <2>1, <3>2, <3>3, SuffixElements
    <3> QED  BY <1>6, <2>1, <3>2, <3>4, SuffixAhead DEF r
  <2>5. CASE r = Append(q, running)
    <3>1. /\ Len(r) = Len(q) + 1 /\ r[Len(q) + 1] = running
          /\ \A i \in 1..Len(q) : r[i] = q[i]
      BY <1>1, <2>1, <2>5, AppendProperties
    <3> HIDE DEF q, r
    <3>2. ASSUME NEW j \in 1..Len(r), NEW k \in 1..Len(r), j < k, r[k] = t,
                 whyBlocked'[r[j]] # "OnMVarRead"
          PROVE  \E a \in 1..Len(q), b \in 1..Len(q) :
                   a < b /\ q[b] = t /\ q[a] = r[j] /\ whyBlocked[q[a]] # "OnMVarRead"
      <4>1. k \in 1..Len(q)
        BY <2>1, <2>2, <3>1, <3>2
      <4>2. j \in 1..Len(q)
        BY <2>1, <3>2, <4>1
      <4> QED  BY <2>2, <3>1, <3>2, <4>1, <4>2
    <3> QED  BY <2>1, <3>2, AheadKept DEF q, r
  <2>6. CASE r = <<running>> \o q /\ whyBlocked'[running] = "OnMVarRead"
    <3>1. /\ Len(r) = Len(q) + 1 /\ r[1] = running
          /\ \A i \in 2..Len(r) : i - 1 \in 1..Len(q) /\ r[i] = q[i - 1]
      BY <1>1, <2>1, <2>6, ConcatProperties
    <3> HIDE DEF q, r
    <3>2. ASSUME NEW j \in 1..Len(r), NEW k \in 1..Len(r), j < k, r[k] = t,
                 whyBlocked'[r[j]] # "OnMVarRead"
          PROVE  \E a \in 1..Len(q), b \in 1..Len(q) :
                   a < b /\ q[b] = t /\ q[a] = r[j] /\ whyBlocked[q[a]] # "OnMVarRead"
      <4>1. j \in 2..Len(r) /\ k \in 2..Len(r)
        BY <2>1, <2>6, <3>1, <3>2
      <4>2. j - 1 < k - 1 /\ j - 1 \in 1..Len(q) /\ k - 1 \in 1..Len(q)
        BY <3>1, <3>2, <4>1
      <4> QED  BY <2>2, <3>1, <3>2, <4>1, <4>2
    <3> QED  BY <2>1, <3>2, AheadKept DEF q, r
  <2>7. ASSUME NEW op, NEW v, Block(op, m, v, "OnMVarRead")
        PROVE  whyBlocked'[running] = "OnMVarRead"
    BY <1>1, <2>7 DEF Block
  <2> QED  BY <1>1, <1>3, <2>3, <2>4, <2>5, <2>6, <2>7
<1> QED  BY <1>5, <1>7 DEF NobodyOvertakes

LEMMA SchedOvertakes ==
  ASSUME QInv, SchedStep
  PROVE  NobodyOvertakes
<1>1. BlockedKept /\ queue' = queue
  BY LoopEffect, ReturnedEffect, EndEffect DEF QInv, SchedStep, SchedNext
<1>2. queue \in [MVars -> Seq(Tid)]
  BY Places DEF QInv, OInv, TypeOK
<1>3. ASSUME NEW m \in MVars, NEW t PROVE Ahead(m, t)' \subseteq Ahead(m, t)
  <2>1. Waiting(m) \subseteq Tid /\ \A x \in Waiting(m) : Blocked(x)
    BY <1>2, RangeOfSeq DEF Blocked, Waiting
  <2>2. \A x \in Waiting(m) : whyBlocked'[x] = whyBlocked[x]
    BY <1>1, <2>1 DEF BlockedKept
  <2> QED  BY <1>1, <1>2, <2>2, SameAhead
<1> QED  BY <1>3 DEF NobodyOvertakes

\* MVars are fair: nobody but a reader ever gets in front of a thread that is
\* blocked on an MVar (takeMVar# and putMVar# append, readMVar# prepends, and
\* wakers take from the front).
THEOREM QueuesAreFair == Spec => NoOvertaking
<1>1. QInv /\ [Next]_vars => [NobodyOvertakes]_vars
  BY MVarOvertakes, SchedOvertakes DEF Next
<1>2. Spec => [][NobodyOvertakes]_vars
  BY <1>1, QueueInvariance, PTL DEF Spec
<1> QED  BY <1>2 DEF NoOvertaking, NobodyOvertakes

-----------------------------------------------------------------------------
(***************************************************************************)
(* Threads implements MVarSpec, for every number of threads, MVars and     *)
(* values.  It rests on QInv: the discipline of the queue makes one list   *)
(* do for a line of takers or putters and a set of readers, and frames     *)
(* that wait only while their threads are queued make the stack hold what  *)
(* a waiting thread offers or was handed.                                  *)
(***************************************************************************)

(***************************************************************************)
(* Lines.                                                                  *)
(***************************************************************************)

\* Readers counts the readers in front of a queue: it is the only such number.
ReadersCounted ==
  \A m \in MVars : \A k \in 0..Len(queue[m]) :
    /\ queue[m] \in Seq(Tid)
    /\ \A i \in 1..k : IsReader(queue[m][i])
    /\ k < Len(queue[m]) => ~IsReader(queue[m][k + 1])
    => Readers(m) = k /\ Line(m) = SubSeq(queue[m], k + 1, Len(queue[m]))

LEMMA ReadersAreCounted == ReadersCounted
<1> SUFFICES ASSUME NEW m \in MVars, NEW k \in 0..Len(queue[m]),
                    queue[m] \in Seq(Tid),
                    \A i \in 1..k : IsReader(queue[m][i]),
                    k < Len(queue[m]) => ~IsReader(queue[m][k + 1])
             PROVE  Readers(m) = k
  BY DEF ReadersCounted, Line
<1>1. Len(queue[m]) \in Nat
  BY LenProperties
<1>2. /\ Readers(m) \in 0..Len(queue[m])
      /\ \A i \in 1..Readers(m) : IsReader(queue[m][i])
      /\ Readers(m) < Len(queue[m]) => ~IsReader(queue[m][Readers(m) + 1])
  BY ReadersOfQueue
<1>3. ~(k < Readers(m))
  <2> SUFFICES ASSUME k < Readers(m) PROVE FALSE
    OBVIOUS
  <2>1. k + 1 \in 1..Readers(m) /\ k < Len(queue[m])
    BY <1>1, <1>2
  <2> QED  BY <1>2, <2>1
<1>4. ~(Readers(m) < k)
  <2> SUFFICES ASSUME Readers(m) < k PROVE FALSE
    OBVIOUS
  <2>1. Readers(m) + 1 \in 1..k /\ Readers(m) < Len(queue[m])
    BY <1>1, <1>2
  <2> QED  BY <1>2, <2>1
<1> QED  BY <1>1, <1>2, <1>3, <1>4

\* The same after a step, of a queue that is then q.
LEMMA LineAfter ==
  ASSUME NEW m \in MVars, NEW q \in Seq(Tid), queue'[m] = q, NEW k \in 0..Len(q),
         \A i \in 1..k : whyBlocked'[q[i]] = "OnMVarRead",
         k < Len(q) => whyBlocked'[q[k + 1]] # "OnMVarRead"
  PROVE  Line(m)' = SubSeq(q, k + 1, Len(q))
<1>1. ReadersCounted'
  BY ReadersAreCounted, PTL
<1> QED  BY <1>1 DEF ReadersCounted, IsReader

LEMMA LineOf ==
  ASSUME QInv, NEW m \in MVars
  PROVE  LET q == queue[m]
             r == Readers(m)
         IN  /\ q \in Seq(Tid) /\ Len(q) \in Nat /\ r \in 0..Len(q)
             /\ Range(q) = Waiting(m) /\ DOMAIN q = 1..Len(q)
             /\ \A i \in 1..r : IsReader(q[i])
             /\ r < Len(q) => ~IsReader(q[r + 1])
             /\ Line(m) = SubSeq(q, r + 1, Len(q)) /\ Line(m) \in Seq(Tid)
             /\ Range(Line(m)) \subseteq Waiting(m)
             /\ value[m] # Empty =>
                  r = 0 /\ Line(m) = q /\ \A t \in Waiting(m) : frame[t] = "put"
             /\ value[m] = Empty =>
                  /\ \A i \in 1..r : frame[q[i]] = "read"
                  /\ \A i \in (r + 1)..Len(q) : frame[q[i]] = "take"
<1> DEFINE q == queue[m]
           r == Readers(m)
<1>1. q \in Seq(Tid) /\ IsInjective(q) /\ Disciplined(m)
  BY Places, DisciplineOfAll DEF QInv, OInv, Inv, TypeOK, OneWayToRun
<1>2. Len(q) \in Nat /\ DOMAIN q = 1..Len(q)
  BY <1>1, LenProperties
<1>3. /\ r \in 0..Len(q)
      /\ \A i \in 1..r : IsReader(q[i])
      /\ r < Len(q) => ~IsReader(q[r + 1])
  BY <1>1, ReadersOfQueue
<1>4. \A i \in 1..Len(q) :
        IF value[m] # Empty
        THEN frame[q[i]] = "put" /\ whyBlocked[q[i]] = "OnMVar" /\ arg[q[i]] \in Values
        ELSE \/ /\ frame[q[i]] = "take"
                /\ whyBlocked[q[i]] = "OnMVar"
             \/ /\ frame[q[i]] = "read"
                /\ whyBlocked[q[i]] = "OnMVarRead"
                /\ \A j \in 1..i : frame[q[j]] = "read"
  BY <1>1 DEF Disciplined
<1>5. Line(m) = SubSeq(q, r + 1, Len(q)) /\ Range(q) = Waiting(m)
  BY DEF Line, Waiting
<1> HIDE DEF q, r
<1>6. Line(m) \in Seq(Tid) /\ Range(Line(m)) \subseteq Waiting(m)
  BY <1>1, <1>3, <1>5, SplitType, SplitRange
<1>7. ASSUME value[m] # Empty
      PROVE  r = 0 /\ Line(m) = q /\ \A t \in Waiting(m) : frame[t] = "put"
  <2>1. r = 0
    <3>1. \A i \in 1..Len(q) : ~IsReader(q[i])
      BY <1>4, <1>7 DEF IsReader
    <3>2. r # 0 => 1 \in 1..r /\ 1 \in 1..Len(q)
      BY <1>2, <1>3
    <3> QED  BY <1>3, <3>1, <3>2
  <2>2. Line(m) = q
    BY <1>1, <1>5, <2>1, SubSeqFull
  <2>3. \A t \in Waiting(m) : \E i \in 1..Len(q) : t = q[i]
    BY <1>2, <1>5 DEF Range
  <2> QED  BY <1>4, <1>7, <2>1, <2>2, <2>3
<1>8. ASSUME value[m] = Empty
      PROVE  /\ \A i \in 1..r : frame[q[i]] = "read"
             /\ \A i \in (r + 1)..Len(q) : frame[q[i]] = "take"
  <2>1. \A i \in 1..r : frame[q[i]] = "read"
    <3>1. \A i \in 1..r : i \in 1..Len(q)
      BY <1>2, <1>3
    <3> QED  BY <1>3, <1>4, <1>8, <3>1 DEF IsReader
  <2>2. ASSUME NEW i \in (r + 1)..Len(q) PROVE frame[q[i]] = "take"
    <3>1. r < Len(q) /\ r + 1 \in 1..Len(q) /\ r + 1 \in 1..i /\ i \in 1..Len(q)
      BY <1>2, <1>3
    <3>2. frame[q[r + 1]] # "read"
      BY <1>3, <1>4, <1>8, <3>1 DEF IsReader
    <3> QED  BY <1>4, <1>8, <3>1, <3>2
  <2> QED  BY <2>1, <2>2
<1> QED  BY <1>1, <1>2, <1>3, <1>5, <1>6, <1>7, <1>8 DEF q, r

\* The line and the readers of an MVar that a step leaves alone.
LEMMA LineKept ==
  ASSUME QInv, NEW m \in MVars, queue'[m] = queue[m],
         \A t \in Waiting(m) : whyBlocked'[t] = whyBlocked[t] /\ frame'[t] = frame[t]
  PROVE  Line(m)' = Line(m) /\ WaitingReaders(m)' = WaitingReaders(m)
<1> DEFINE q == queue[m]
           r == Readers(m)
<1>1. /\ q \in Seq(Tid) /\ Len(q) \in Nat /\ r \in 0..Len(q)
      /\ Range(q) = Waiting(m) /\ DOMAIN q = 1..Len(q)
      /\ \A i \in 1..r : IsReader(q[i])
      /\ r < Len(q) => ~IsReader(q[r + 1])
      /\ Line(m) = SubSeq(q, r + 1, Len(q))
  BY LineOf
<1>2. \A i \in 1..Len(q) : whyBlocked'[q[i]] = whyBlocked[q[i]]
  BY <1>1 DEF Range
<1> HIDE DEF q, r
<1>3. \A i \in 1..r : i \in 1..Len(q)
  BY <1>1
<1>4. r < Len(q) => r + 1 \in 1..Len(q)
  BY <1>1
<1>5. /\ \A i \in 1..r : whyBlocked'[q[i]] = "OnMVarRead"
      /\ r < Len(q) => whyBlocked'[q[r + 1]] # "OnMVarRead"
  BY <1>1, <1>2, <1>3, <1>4 DEF IsReader
<1>6. Line(m)' = SubSeq(q, r + 1, Len(q))
  <2>1. queue'[m] = q
    BY DEF q
  <2> QED  BY <1>1, <1>5, <2>1, LineAfter
<1>7. WaitingReaders(m)' = WaitingReaders(m)
  BY DEF WaitingReaders, Waiting
<1> QED  BY <1>1, <1>6, <1>7

\* A step that changes the queue of m and no other.
LEMMA OneLineChanged ==
  ASSUME QInv, NEW m \in MVars, NEW q, queue' = [queue EXCEPT ![m] = q],
         \A n \in MVars \ {m} : \A t \in Waiting(n) :
           whyBlocked'[t] = whyBlocked[t] /\ frame'[t] = frame[t],
         NEW l, Line(m)' = l, NEW rs, WaitingReaders(m)' = rs
  PROVE  Lines' = [Lines EXCEPT ![m] = l] /\ AllReaders' = [AllReaders EXCEPT ![m] = rs]
<1>1. queue \in [MVars -> Seq(Tid)]
  BY Places DEF QInv, OInv, TypeOK
<1>2. \A n \in MVars \ {m} : Line(n)' = Line(n) /\ WaitingReaders(n)' = WaitingReaders(n)
  BY <1>1, LineKept
<1> QED  BY <1>2 DEF Lines, AllReaders

LEMMA RunningIdle ==
  ASSUME QInv, control = "wasm"
  PROVE  /\ running \in Tid /\ \A m \in MVars : running \notin Waiting(m)
         /\ frame[running] \notin {"take", "read", "put", "ret"}
         /\ Offers[running] = Empty /\ Handed[running] = Empty
         /\ Promised!Idle(running)
<1>1. running \in Tid /\ ~Blocked(running) /\ running \notin Queued
  BY Places DEF QInv, OInv
<1>2. \A m \in MVars : running \notin Waiting(m)
  BY <1>1 DEF Blocked
<1>3. frame[running] \notin {"take", "read", "put", "ret"}
  BY <1>1 DEF QInv, WokenWithOpPerformed, Retry
<1>4. Offers[running] = Empty /\ Handed[running] = Empty
  BY <1>1, <1>3 DEF Offers, Handed
<1>5. \A m \in MVars : running \notin Promised!Range(Lines[m]) \cup AllReaders[m]
  <2>1. \A m \in MVars : Range(Line(m)) \subseteq Waiting(m)
    BY LineOf
  <2> QED
    BY <1>2, <2>1 DEF Lines, AllReaders, WaitingReaders, Range, Promised!Range
<1> QED  BY <1>1, <1>2, <1>3, <1>4, <1>5 DEF Promised!Idle

-----------------------------------------------------------------------------
(***************************************************************************)
(* The operations that perform a take or a put.                            *)
(***************************************************************************)

LEMMA TakeRefines ==
  ASSUME QInv, control = "wasm", NEW m \in MVars, TakeValue(m)
  PROVE  Promised!Take(m)
<1> DEFINE q == queue[m]
<1>1. /\ q \in Seq(Tid) /\ Len(q) \in Nat /\ Range(q) = Waiting(m) /\ Line(m) = q
      /\ value[m] # Empty /\ \A t \in Waiting(m) : frame[t] = "put"
      /\ Disciplined(m) /\ DOMAIN q = 1..Len(q)
  BY LineOf, DisciplineOfAll DEF TakeValue, QInv
<1>2. /\ running \in Tid /\ \A n \in MVars : running \notin Waiting(n)
      /\ frame[running] \notin {"take", "read", "put", "ret"}
  BY RunningIdle
<1>3. /\ queue \in [MVars -> Seq(Tid)] /\ value \in [MVars -> Values \cup {Empty}]
      /\ frame \in [Tid -> Frame] /\ arg \in [Tid -> Values \cup {Empty}]
      /\ OneWayToRun
  BY Places DEF QInv, OInv, Inv, TypeOK, SchedTypeOK
<1>4. whyBlocked' = whyBlocked
  BY DEF TakeValue
<1>5. Lines[m] = q /\ AllReaders[m] = {}
  BY <1>1 DEF Lines, AllReaders, WaitingReaders
<1>6. CASE q = <<>>
  <2>1. /\ value' = [value EXCEPT ![m] = Empty]
        /\ frame' = [frame EXCEPT ![running] = "run"]
        /\ UNCHANGED <<queue, arg>>
    BY <1>6 DEF TakeValue
  <2>2. \A n \in MVars : Line(n)' = Line(n) /\ WaitingReaders(n)' = WaitingReaders(n)
    <3> SUFFICES ASSUME NEW n \in MVars
                 PROVE  Line(n)' = Line(n) /\ WaitingReaders(n)' = WaitingReaders(n)
      OBVIOUS
    <3>1. \A t \in Waiting(n) : whyBlocked'[t] = whyBlocked[t] /\ frame'[t] = frame[t]
      BY <1>2, <1>3, <1>4, <2>1
    <3> QED  BY <2>1, <3>1, LineKept
  <2>3. Lines' = Lines /\ AllReaders' = AllReaders
    BY <2>2 DEF Lines, AllReaders
  <2>4. Offers' = Offers /\ Handed' = Handed
    BY <1>2, <1>3, <2>1 DEF Offers, Handed
  <2> QED  BY <1>1, <1>5, <1>6, <2>1, <2>3, <2>4 DEF Promised!Take
<1>7. CASE q # <<>>
  <2> DEFINE w == Head(q)
             rest == Tail(q)
  <2>1. /\ value' = [value EXCEPT ![m] = arg[w]]
        /\ queue' = [queue EXCEPT ![m] = rest]
        /\ frame' = [frame EXCEPT ![running] = "run", ![w] = "run"]
        /\ arg' = [arg EXCEPT ![w] = Empty]
    BY <1>7 DEF TakeValue
  <2>2. w \in Tid /\ rest \in Seq(Tid) /\ Range(rest) \subseteq Waiting(m) /\ w \in Waiting(m)
    BY <1>1, <1>3, <1>7, HeadTailProperties, TailRange DEF OneWayToRun
  <2> HIDE DEF w, rest
  <2>3. /\ frame[w] = "put" /\ w # running
        /\ \A t \in Tid : /\ frame'[t] = IF t \in {w, running} THEN "run" ELSE frame[t]
                          /\ arg'[t] = IF t = w THEN Empty ELSE arg[t]
    BY <1>1, <1>2, <1>3, <2>1, <2>2
  <2>4. \A n \in MVars \ {m} : \A t \in Waiting(n) :
          whyBlocked'[t] = whyBlocked[t] /\ frame'[t] = frame[t]
    <3>1. \A n \in MVars \ {m} : w \notin Waiting(n) /\ Waiting(n) \subseteq Tid
      BY <1>3, <2>2, RangeOfSeq DEF OneWayToRun, Waiting
    <3> QED  BY <1>2, <1>4, <2>3, <3>1
  <2>5. Line(m)' = rest
    <3>1. queue'[m] = rest /\ Len(rest) \in Nat /\ DOMAIN rest = 1..Len(rest)
      BY <1>3, <2>1, <2>2, LenProperties
    <3>2. \A i \in 1..Len(rest) : rest[i] \in Waiting(m)
      BY <2>2, <3>1 DEF Range
    <3>3. \A t \in Waiting(m) : whyBlocked'[t] # "OnMVarRead"
      BY <1>1, <1>4 DEF Disciplined, Range
    <3>4. Line(m)' = SubSeq(rest, 0 + 1, Len(rest))
      BY <2>2, <3>1, <3>2, <3>3, LineAfter
    <3> QED  BY <2>2, <3>4, SubSeqFull
  <2>6. WaitingReaders(m)' = {}
    <3>1. Waiting(m)' = Range(rest)
      BY <1>3, <2>1 DEF Waiting
    <3>2. \A t \in Range(rest) : frame'[t] # "read"
      BY <1>1, <2>2, <2>3, RangeOfSeq
    <3> QED  BY <3>1, <3>2 DEF WaitingReaders
  <2>7. Lines' = [Lines EXCEPT ![m] = rest] /\ AllReaders' = [AllReaders EXCEPT ![m] = {}]
    BY <2>1, <2>4, <2>5, <2>6, OneLineChanged
  <2>8. AllReaders' = AllReaders
    BY <1>5, <2>7 DEF AllReaders
  <2>9. Offers' = [Offers EXCEPT ![w] = Empty] /\ Handed' = Handed /\ Offers[w] = arg[w]
    BY <1>2, <1>3, <2>2, <2>3 DEF Offers, Handed
  <2> QED  BY <1>1, <1>5, <1>7, <2>1, <2>7, <2>8, <2>9 DEF Promised!Take, w, rest
<1> QED  BY <1>6, <1>7

LEMMA PutRefines ==
  ASSUME QInv, control = "wasm", NEW m \in MVars, NEW v \in Values, PutValue(m, v)
  PROVE  Promised!Put(m, v)
<1> DEFINE q == queue[m]
           r == Readers(m)
           n == IF r < Len(q) THEN r + 1 ELSE r
           woken == SubSeq(q, 1, n)
           rest == SubSeq(q, n + 1, Len(q))
           line == SubSeq(q, r + 1, Len(q))
<1>1. /\ q \in Seq(Tid) /\ Len(q) \in Nat /\ r \in 0..Len(q)
      /\ Range(q) = Waiting(m) /\ DOMAIN q = 1..Len(q) /\ Line(m) = line
      /\ value[m] = Empty
      /\ \A i \in 1..r : frame[q[i]] = "read"
      /\ \A i \in (r + 1)..Len(q) : frame[q[i]] = "take"
  BY LineOf DEF PutValue
<1>2. /\ value' = IF r < Len(q) THEN value ELSE [value EXCEPT ![m] = v]
      /\ queue' = [queue EXCEPT ![m] = rest]
      /\ frame' = [t \in Tid |-> IF t \in Range(woken) THEN "ret"
                                 ELSE IF t = running THEN "run" ELSE frame[t]]
      /\ arg' = [t \in Tid |-> IF t \in Range(woken) THEN v
                               ELSE IF t = running THEN Empty ELSE arg[t]]
      /\ whyBlocked' = whyBlocked
  BY DEF PutValue
<1>3. /\ running \in Tid /\ \A k \in MVars : running \notin Waiting(k)
      /\ frame[running] \notin {"take", "read", "put", "ret"}
  BY RunningIdle
<1>4. /\ queue \in [MVars -> Seq(Tid)] /\ OneWayToRun /\ IsInjective(q)
      /\ value \in [MVars -> Values \cup {Empty}]
  BY Places DEF QInv, OInv, Inv, TypeOK, OneWayToRun
<1>5. n \in 0..Len(q)
  BY <1>1
<1>6. \A i \in 1..Len(q) : i > n => r < Len(q) /\ frame[q[i]] = "take" /\ whyBlocked[q[i]] = "OnMVar"
  BY <1>1, <1>5, LeftByPut
<1>7. /\ woken \in Seq(Tid) /\ rest \in Seq(Tid)
      /\ Range(woken) \cup Range(rest) = Waiting(m) /\ Range(woken) \cap Range(rest) = {}
      /\ Len(rest) = Len(q) - n /\ \A i \in 1..(Len(q) - n) : rest[i] = q[n + i]
  <2> HIDE DEF n, q
  <2>1. woken \in Seq(Tid) /\ rest \in Seq(Tid)
    BY <1>1, <1>5, SplitType
  <2>2. Range(woken) \cup Range(rest) = Range(q) /\ Range(woken) \cap Range(rest) = {}
    BY <1>1, <1>4, <1>5, SplitRange
  <2>3. Len(rest) = Len(q) - n /\ \A i \in 1..(Len(q) - n) : rest[i] = q[n + i]
    <3>1. q \in Seq(Tid) /\ n \in 0..Len(q)
      BY <1>1, <1>5
    <3> QED  BY <3>1, SuffixElements
  <2> QED  BY <1>1, <2>1, <2>2, <2>3
<1>8. \A t : t \in Range(woken) <=> \E i \in 1..n : t = q[i]
  <2>1. woken \in Seq(Tid) /\ Len(woken) = n /\ \A i \in 1..n : woken[i] = q[i]
    <3>1. \A i \in 1..n : q[i] \in Tid
      BY <1>1, <1>5, ElementOfSeq
    <3> HIDE DEF n, q
    <3> QED  BY <1>5, <1>7, <3>1, SubSeqProperties
  <2>2. DOMAIN woken = 1..n
    BY <2>1, LenProperties
  <2> HIDE DEF n, q, woken
  <2> QED  BY <2>1, <2>2 DEF Range
<1>9. WaitingReaders(m) = {t \in Waiting(m) : \E i \in 1..r : t = q[i]}
  <2>1. \A t \in Waiting(m) : \E i \in 1..Len(q) : t = q[i]
    BY <1>1 DEF Range
  <2>2. \A i \in 1..Len(q) : i \in 1..r \/ i \in (r + 1)..Len(q)
    BY <1>1
  <2> HIDE DEF q, r
  <2> QED  BY <1>1, <2>1, <2>2 DEF WaitingReaders
<1>10. \A i \in 1..r : q[i] \in Waiting(m)
  <2>1. \A i \in 1..r : i \in 1..Len(q)
    BY <1>1
  <2> QED  BY <1>1, <2>1 DEF Range
<1> HIDE DEF woken, rest
<1>11. Lines[m] = line /\ AllReaders[m] = WaitingReaders(m)
  BY <1>1 DEF Lines, AllReaders
<1>12. \A t \in Range(woken) : frame[t] \notin {"put", "ret"} /\ t \in Tid
  <2>1. \A i \in 1..n : i \in 1..r \/ i \in (r + 1)..Len(q)
    BY <1>1, <1>5
  <2>2. \A i \in 1..n : frame[q[i]] \notin {"put", "ret"}
    BY <1>1, <2>1
  <2> HIDE DEF n, q
  <2> QED  BY <1>7, <1>8, <2>2, RangeOfSeq
<1>13. \A i \in 1..Len(rest) : frame[rest[i]] = "take" /\ whyBlocked[rest[i]] = "OnMVar"
  <2>1. \A i \in 1..Len(rest) : n + i \in 1..Len(q) /\ n + i > n /\ rest[i] = q[n + i]
    BY SMTT(30), <1>1, <1>5, <1>7
  <2> HIDE DEF n, q, r
  <2> QED  BY <1>6, <2>1
<1> HIDE DEF line, n, r
<1>14. \A t \in Range(rest) : frame'[t] = "take"
  <2>1. DOMAIN rest = 1..Len(rest)
    BY <1>7, LenProperties
  <2>2. \A t \in Range(rest) : frame[t] = "take"
    BY <1>13, <2>1 DEF Range
  <2>3. \A t \in Range(rest) : t \in Tid /\ t \notin Range(woken) /\ t # running
    BY <1>3, <1>7, RangeOfSeq
  <2> QED  BY <1>2, <2>2, <2>3
<1>15. Line(m)' = rest
  <2>1. queue'[m] = rest /\ Len(rest) \in Nat
    BY <1>2, <1>4, <1>7, LenProperties
  <2>2. 0 < Len(rest) => whyBlocked'[rest[0 + 1]] # "OnMVarRead"
    BY <1>2, <1>13, <2>1
  <2>3. 0 \in 0..Len(rest) /\ \A i \in 1..0 : whyBlocked'[rest[i]] = "OnMVarRead"
    BY <2>1
  <2>4. Line(m)' = SubSeq(rest, 0 + 1, Len(rest))
    BY <1>7, <2>1, <2>2, <2>3, LineAfter
  <2> QED  BY <1>7, <2>4, SubSeqFull
<1>16. WaitingReaders(m)' = {}
  <2>1. Waiting(m)' = Range(rest)
    BY <1>2, <1>4 DEF Waiting
  <2> QED  BY <1>14, <2>1 DEF WaitingReaders
<1>17. \A k \in MVars \ {m} : \A t \in Waiting(k) :
         whyBlocked'[t] = whyBlocked[t] /\ frame'[t] = frame[t]
  <2>1. \A k \in MVars \ {m} : \A t \in Waiting(k) :
          t \in Tid /\ t # running /\ t \notin Range(woken)
    BY <1>3, <1>4, <1>7, RangeOfSeq DEF OneWayToRun, Waiting
  <2> QED  BY <1>2, <2>1
<1>18. Lines' = [Lines EXCEPT ![m] = rest] /\ AllReaders' = [AllReaders EXCEPT ![m] = {}]
  BY <1>2, <1>15, <1>16, <1>17, OneLineChanged
<1>19. Offers' = Offers
  BY <1>2, <1>3, <1>12 DEF Offers
<1>20. Handed' = [t \in Tid |-> IF t \in Range(woken) THEN v ELSE Handed[t]]
  BY <1>2, <1>3, <1>12 DEF Handed
<1>21. CASE r = Len(q)
  <2>1. n = r /\ line = <<>> /\ rest = <<>>
    <3>1. n = r /\ r + 1 \in Int /\ Len(q) \in Int /\ Len(q) < r + 1
      BY <1>1, <1>21 DEF n
    <3> QED  BY <3>1, SubSeqEmpty DEF rest, line
  <2>2. Range(woken) = WaitingReaders(m)
    BY <1>8, <1>9, <1>10, <2>1
  <2>3. value' = [value EXCEPT ![m] = v]
    BY <1>1, <1>2, <1>21
  <2>4. Lines' = Lines
    BY <1>11, <1>18, <2>1 DEF Lines
  <2> QED
    BY <1>1, <1>11, <1>18, <1>19, <1>20, <2>1, <2>2, <2>3, <2>4 DEF Promised!Put
<1>22. CASE r < Len(q)
  <2>1. n = r + 1 /\ r + 1 \in 1..Len(q) /\ r \in Nat
    BY <1>1, <1>22 DEF n
  <2>2. line # <<>> /\ Head(line) = q[r + 1] /\ Tail(line) = rest
    <3>1. Len(q) \in (r + 1)..Len(q) /\ q \in Seq(Tid)
      BY <1>1, <2>1
    <3>2. Head(line) = q[r + 1] /\ Tail(line) = SubSeq(q, (r + 1) + 1, Len(q))
      <4> HIDE DEF q
      <4> QED  BY <2>1, <3>1, HeadTailOfSubSeq DEF line
    <3>3. Len(line) = Len(q) - r
      <4> HIDE DEF q
      <4> QED  BY <1>1, SuffixElements DEF line
    <3>4. line # <<>>
      BY <1>1, <2>1, <3>3
    <3> QED  BY <2>1, <3>2, <3>4 DEF rest
  <2>3. Range(woken) = WaitingReaders(m) \cup {Head(line)}
    <3>1. \A i : i \in 1..n <=> i \in 1..r \/ i = r + 1
      BY <2>1
    <3> HIDE DEF q
    <3> QED  BY <1>8, <1>9, <1>10, <2>2, <3>1
  <2>4. value' = value
    BY <1>2, <1>22
  <2> QED
    BY <1>1, <1>11, <1>18, <1>19, <1>20, <2>2, <2>3, <2>4 DEF Promised!Put
<1> QED  BY <1>1, <1>21, <1>22

-----------------------------------------------------------------------------
(***************************************************************************)
(* The operations that have to wait.                                       *)
(***************************************************************************)

\* What a thread that goes to wait leaves alone, and what is then on its stack.
LEMMA BlockStep ==
  ASSUME QInv, control = "wasm", NEW m \in MVars, NEW op \in {"take", "read", "put"},
         NEW v, NEW why, Block(op, m, v, why)
  PROVE  /\ value' = value /\ Handed' = Handed
         /\ \A k \in MVars : \A t \in Waiting(k) :
              whyBlocked'[t] = whyBlocked[t] /\ frame'[t] = frame[t]
         /\ frame'[running] = op /\ whyBlocked'[running] = why
         /\ op # "put" => Offers' = Offers
         /\ op = "put" => Offers' = [Offers EXCEPT ![running] = v]
<1>1. /\ running \in Tid /\ \A k \in MVars : running \notin Waiting(k)
      /\ frame[running] \notin {"take", "read", "put", "ret"}
  BY RunningIdle
<1>2. /\ frame \in [Tid -> Frame] /\ arg \in [Tid -> Values \cup {Empty}]
      /\ whyBlocked \in [Tid -> WhyBlocked]
  BY Places DEF QInv, OInv, TypeOK, SchedTypeOK
<1>3. /\ frame' = [frame EXCEPT ![running] = op]
      /\ arg' = [arg EXCEPT ![running] = v]
      /\ whyBlocked' = [whyBlocked EXCEPT ![running] = why]
      /\ value' = value
  BY DEF Block
<1>4. \A k \in MVars : \A t \in Waiting(k) :
        whyBlocked'[t] = whyBlocked[t] /\ frame'[t] = frame[t]
  BY <1>1, <1>2, <1>3
<1>5. Handed' = Handed
  BY <1>1, <1>2, <1>3 DEF Handed
<1>6. op # "put" => Offers' = Offers
  BY <1>1, <1>2, <1>3 DEF Offers
<1>7. op = "put" => Offers' = [Offers EXCEPT ![running] = v]
  BY <1>1, <1>2, <1>3 DEF Offers
<1> QED  BY <1>1, <1>2, <1>3, <1>4, <1>5, <1>6, <1>7

\* A taker or a putter goes to the end of the line.
LEMMA WaitsInLine ==
  ASSUME QInv, control = "wasm", NEW m \in MVars, NEW op \in {"take", "put"}, NEW v,
         Block(op, m, v, "OnMVar"), queue' = [queue EXCEPT ![m] = Append(@, running)]
  PROVE  Lines' = [Lines EXCEPT ![m] = Append(@, running)] /\ AllReaders' = AllReaders
<1>q. PICK q : q = queue[m]
  OBVIOUS
<1>r. PICK r : r = Readers(m)
  OBVIOUS
<1>a. PICK a : a = Append(q, running)
  OBVIOUS
<1>1. /\ q \in Seq(Tid) /\ Len(q) \in Nat /\ r \in 0..Len(q)
      /\ Range(q) = Waiting(m) /\ DOMAIN q = 1..Len(q)
      /\ \A i \in 1..r : IsReader(q[i])
      /\ r < Len(q) => ~IsReader(q[r + 1])
      /\ Line(m) = SubSeq(q, r + 1, Len(q))
  BY <1>q, <1>r, LineOf
<1>2. /\ running \in Tid /\ queue \in [MVars -> Seq(Tid)]
  BY RunningIdle, Places DEF QInv, OInv, TypeOK
<1>3. /\ \A k \in MVars : \A t \in Waiting(k) :
           whyBlocked'[t] = whyBlocked[t] /\ frame'[t] = frame[t]
      /\ frame'[running] = op /\ whyBlocked'[running] = "OnMVar"
  BY BlockStep
<1>4. /\ a \in Seq(Tid) /\ Len(a) = Len(q) + 1
      /\ \A i \in 1..Len(q) : a[i] = q[i]
      /\ a[Len(q) + 1] = running
  BY <1>a, <1>1, <1>2, AppendProperties
<1>5. queue' = [queue EXCEPT ![m] = a] /\ queue'[m] = a
  BY <1>q, <1>a, <1>2
<1>6. \A i \in 1..Len(q) : whyBlocked'[q[i]] = whyBlocked[q[i]]
  BY <1>1, <1>3 DEF Range
<1>7. Waiting(m)' = Waiting(m) \cup {running}
  <2>1. Range(a) = Range(q) \cup {running}
    BY <1>a, <1>1, <1>2, AppendRange
  <2> QED  BY <1>1, <1>5, <2>1 DEF Waiting
<1>8. Line(m)' = Append(Line(m), running)
  <2>1. r \in 0..Len(a)
    BY <1>1, <1>4
  <2>2. \A i \in 1..r : whyBlocked'[a[i]] = "OnMVarRead"
    <3>1. \A i \in 1..r : i \in 1..Len(q)
      BY <1>1
    <3> QED  BY <1>1, <1>4, <1>6, <3>1 DEF IsReader
  <2>3. whyBlocked'[a[r + 1]] # "OnMVarRead"
    <3>1. CASE r < Len(q)
      <4>1. r + 1 \in 1..Len(q)
        BY <1>1, <3>1
      <4> QED  BY <1>1, <1>4, <1>6, <3>1, <4>1 DEF IsReader
    <3>2. CASE r = Len(q)
      <4>1. a[r + 1] = running
        BY <1>4, <3>2
      <4> QED  BY <1>3, <4>1
    <3>3. r < Len(q) \/ r = Len(q)
      <4>1. r \in Nat /\ r <= Len(q) /\ Len(q) \in Nat
        BY <1>1
      <4> QED  BY <4>1
    <3> QED  BY <3>1, <3>2, <3>3
  <2>4. Line(m)' = SubSeq(a, r + 1, Len(a))
    <3>1. a \in Seq(Tid) /\ queue'[m] = a
      BY <1>4, <1>5
    <3>2. r < Len(a) => whyBlocked'[a[r + 1]] # "OnMVarRead"
      BY <2>3
    <3> QED  BY ZenonT(60), <2>1, <2>2, <3>1, <3>2, LineAfter
  <2>5. PICK n \in Nat : n = Len(q) /\ r \in 0..n
    BY <1>1
  <2>6. PICK b : b = SubSeq(q, r + 1, Len(q))
    OBVIOUS
  <2>7. PICK c : c = SubSeq(a, r + 1, Len(a))
    OBVIOUS
  <2>8. PICK d : d = Append(b, running)
    OBVIOUS
  <2>9. b \in Seq(Tid) /\ Len(b) = n - r /\ \A i \in 1..(n - r) : b[i] = q[r + i]
    BY <1>1, <2>5, <2>6, SuffixElements
  <2>10. /\ c \in Seq(Tid) /\ Len(c) = (n + 1) - r
         /\ \A i \in 1..((n + 1) - r) : c[i] = a[r + i]
    BY <1>4, <2>1, <2>5, <2>7, SuffixElements
  <2>11. /\ d \in Seq(Tid) /\ Len(d) = (n - r) + 1
         /\ \A i \in 1..(n - r) : d[i] = b[i]
         /\ d[(n - r) + 1] = running
    BY <1>2, <2>8, <2>9, AppendProperties
  <2>12. Len(c) = Len(d)
    BY <2>5, <2>10, <2>11
  <2>13. ASSUME NEW i \in 1..((n + 1) - r) PROVE c[i] = d[i]
    <3>1. c[i] = a[r + i]
      BY <2>10
    <3>2. CASE i \in 1..(n - r)
      <4>1. r + i \in 1..n
        BY <2>5, <3>2
      <4> QED  BY <1>4, <2>5, <2>9, <2>11, <3>1, <3>2, <4>1
    <3>3. CASE i = (n - r) + 1
      <4>1. r + i = n + 1
        BY <2>5, <3>3
      <4> QED  BY <1>4, <2>5, <2>11, <3>1, <3>3, <4>1
    <3> QED  BY <2>5, <3>2, <3>3
  <2>14. c = d
    BY <2>10, <2>11, <2>12, <2>13, SeqEqual
  <2> QED  BY <1>1, <2>4, <2>6, <2>7, <2>8, <2>14
<1>9. WaitingReaders(m)' = WaitingReaders(m)
  BY <1>3, <1>7 DEF WaitingReaders
<1>10. /\ Lines' = [Lines EXCEPT ![m] = Append(Line(m), running)]
       /\ AllReaders' = [AllReaders EXCEPT ![m] = WaitingReaders(m)]
  <2> DEFINE l == Append(Line(m), running)
             rs == WaitingReaders(m)
  <2>1. Line(m)' = l /\ WaitingReaders(m)' = rs
    BY <1>8, <1>9
  <2>2. \A k \in MVars \ {m} : \A t \in Waiting(k) :
          whyBlocked'[t] = whyBlocked[t] /\ frame'[t] = frame[t]
    BY <1>3
  <2> HIDE DEF l, rs
  <2>3. Lines' = [Lines EXCEPT ![m] = l] /\ AllReaders' = [AllReaders EXCEPT ![m] = rs]
    BY <1>5, <2>1, <2>2, OneLineChanged
  <2> QED  BY <2>3 DEF l, rs
<1> QED  BY <1>10 DEF Lines, AllReaders

\* A reader goes in front of the queue, and so not into the line.
LEMMA WaitsToRead ==
  ASSUME QInv, control = "wasm", NEW m \in MVars, NEW v, Block("read", m, v, "OnMVarRead"),
         queue' = [queue EXCEPT ![m] = <<running>> \o @]
  PROVE  /\ Lines' = Lines
         /\ AllReaders' = [AllReaders EXCEPT ![m] = @ \cup {running}]
<1> DEFINE q == queue[m]
           r == Readers(m)
           u == <<running>>
           a == u \o q
<1>1. /\ q \in Seq(Tid) /\ Len(q) \in Nat /\ r \in 0..Len(q)
      /\ Range(q) = Waiting(m) /\ DOMAIN q = 1..Len(q)
      /\ \A i \in 1..r : IsReader(q[i])
      /\ r < Len(q) => ~IsReader(q[r + 1])
      /\ Line(m) = SubSeq(q, r + 1, Len(q))
  BY LineOf
<1>2. /\ running \in Tid /\ queue \in [MVars -> Seq(Tid)]
  BY RunningIdle, Places DEF QInv, OInv, TypeOK
<1>3. /\ \A k \in MVars : \A t \in Waiting(k) :
           whyBlocked'[t] = whyBlocked[t] /\ frame'[t] = frame[t]
      /\ frame'[running] = "read" /\ whyBlocked'[running] = "OnMVarRead"
  BY BlockStep
<1>4. u \in Seq(Tid) /\ Len(u) = 1 /\ u[1] = running
  BY <1>2
<1>5. queue' = [queue EXCEPT ![m] = a] /\ queue'[m] = a
  BY <1>2
<1>6. \A i \in 1..Len(q) : whyBlocked'[q[i]] = whyBlocked[q[i]]
  BY <1>1, <1>3 DEF Range
<1>7. Waiting(m)' = Waiting(m) \cup {running}
  <2>1. Range(a) = Range(q) \cup {running}
    <3> HIDE DEF q
    <3> QED  BY <1>1, <1>2, PushRange
  <2> QED  BY <1>1, <1>5, <2>1 DEF Waiting
<1> HIDE DEF q, r, u
<1>8. /\ a \in Seq(Tid) /\ Len(a) = Len(q) + 1
      /\ \A i \in 1..(Len(q) + 1) : a[i] = IF i <= 1 THEN u[i] ELSE q[i - 1]
  <2>1. u \in Seq(Tid) /\ q \in Seq(Tid) /\ Len(u) = 1
    BY <1>1, <1>4
  <2>2. /\ u \o q \in Seq(Tid) /\ Len(u \o q) = Len(u) + Len(q)
        /\ \A i \in 1..(Len(u) + Len(q)) :
             (u \o q)[i] = IF i <= Len(u) THEN u[i] ELSE q[i - Len(u)]
    BY <2>1, ConcatProperties
  <2>3. Len(u) + Len(q) = Len(q) + 1
    BY <1>1, <2>1
  <2> HIDE DEF a
  <2>4. /\ a \in Seq(Tid) /\ Len(a) = Len(q) + 1
        /\ \A i \in 1..(Len(q) + 1) : a[i] = IF i <= Len(u) THEN u[i] ELSE q[i - Len(u)]
    BY <2>2, <2>3 DEF a
  <2> QED  BY <2>1, <2>4
<1> HIDE DEF a
<1>9. a[1] = running /\ \A i \in 1..Len(q) : a[i + 1] = q[i]
  <2>1. 1 \in 1..(Len(q) + 1) /\ a[1] = u[1]
    BY <1>1, <1>8
  <2>2. ASSUME NEW i \in 1..Len(q) PROVE a[i + 1] = q[i]
    <3>1. i + 1 \in 1..(Len(q) + 1) /\ ~(i + 1 <= 1) /\ (i + 1) - 1 = i
      BY <1>1
    <3> QED  BY <1>8, <3>1
  <2> QED  BY <1>4, <2>1, <2>2
<1>10. Line(m)' = Line(m)
  <2>1. r + 1 \in 0..Len(a)
    BY <1>1, <1>8
  <2>2. ASSUME NEW i \in 1..(r + 1) PROVE whyBlocked'[a[i]] = "OnMVarRead"
    <3>1. CASE i = 1
      BY <1>3, <1>9, <3>1
    <3>2. CASE i - 1 \in 1..r
      <4>1. i - 1 \in 1..Len(q) /\ (i - 1) + 1 = i
        BY <1>1, <3>2
      <4>2. a[i] = q[i - 1]
        BY <1>9, <4>1
      <4> QED  BY <1>1, <1>6, <3>2, <4>1, <4>2 DEF IsReader
    <3> QED  BY <1>1, <3>1, <3>2
  <2>3. r + 1 < Len(a) => whyBlocked'[a[(r + 1) + 1]] # "OnMVarRead"
    <3> SUFFICES ASSUME r + 1 < Len(a) PROVE whyBlocked'[a[(r + 1) + 1]] # "OnMVarRead"
      OBVIOUS
    <3>1. r < Len(q) /\ r + 1 \in 1..Len(q)
      BY <1>1, <1>8
    <3> QED  BY <1>1, <1>6, <1>9, <3>1 DEF IsReader
  <2>4. Line(m)' = SubSeq(a, (r + 1) + 1, Len(a))
    BY <1>5, <1>8, <2>1, <2>2, <2>3, LineAfter
  <2> DEFINE b == SubSeq(q, r + 1, Len(q))
             c == SubSeq(a, (r + 1) + 1, Len(a))
  <2>5. b \in Seq(Tid) /\ Len(b) = Len(q) - r /\ \A i \in 1..(Len(q) - r) : b[i] = q[r + i]
    BY <1>1, SuffixElements
  <2>6. /\ c \in Seq(Tid) /\ Len(c) = Len(a) - (r + 1)
        /\ \A i \in 1..(Len(a) - (r + 1)) : c[i] = a[(r + 1) + i]
    BY <1>8, <2>1, SuffixElements
  <2> HIDE DEF b, c
  <2>7. Len(b) = Len(c)
    BY <1>1, <1>8, <2>5, <2>6
  <2>8. ASSUME NEW i \in 1..Len(b) PROVE b[i] = c[i]
    <3>1. /\ i \in 1..(Len(q) - r) /\ i \in 1..(Len(a) - (r + 1))
          /\ r + i \in 1..Len(q) /\ (r + 1) + i = (r + i) + 1
      BY <1>1, <1>8, <2>5
    <3> QED  BY <1>9, <2>5, <2>6, <3>1
  <2>9. b = c
    BY <2>5, <2>6, <2>7, <2>8, SeqEqual
  <2> QED  BY <1>1, <2>4, <2>9 DEF b, c
<1>11. WaitingReaders(m)' = WaitingReaders(m) \cup {running}
  BY <1>3, <1>7 DEF WaitingReaders
<1>12. /\ Lines' = [Lines EXCEPT ![m] = Line(m)]
       /\ AllReaders' = [AllReaders EXCEPT ![m] = WaitingReaders(m) \cup {running}]
  <2> DEFINE l == Line(m)
             rs == WaitingReaders(m) \cup {running}
  <2>1. Line(m)' = l /\ WaitingReaders(m)' = rs
    BY <1>10, <1>11
  <2>2. \A k \in MVars \ {m} : \A t \in Waiting(k) :
          whyBlocked'[t] = whyBlocked[t] /\ frame'[t] = frame[t]
    BY <1>3
  <2> HIDE DEF l, rs
  <2>3. Lines' = [Lines EXCEPT ![m] = l] /\ AllReaders' = [AllReaders EXCEPT ![m] = rs]
    BY <1>5, <2>1, <2>2, OneLineChanged
  <2> QED  BY <2>3 DEF l, rs
<1> QED  BY <1>12 DEF Lines, AllReaders

LEMMA MVarRefines ==
  ASSUME QInv, MVarNext
  PROVE  Promised!Next
<1>1. control = "wasm"
  BY MVarCases
<1>2. PICK m \in MVars :
         \/ TakeValue(m)
         \/ \E v \in Values : PutValue(m, v)
         \/ /\ value[m] = Empty
            /\ queue' = [queue EXCEPT ![m] = Append(@, running)]
            /\ Block("take", m, Empty, "OnMVar")
         \/ /\ value[m] = Empty
            /\ queue' = [queue EXCEPT ![m] = <<running>> \o @]
            /\ Block("read", m, Empty, "OnMVarRead")
         \/ \E v \in Values :
              /\ value[m] # Empty
              /\ queue' = [queue EXCEPT ![m] = Append(@, running)]
              /\ Block("put", m, v, "OnMVar")
  BY MVarCases
<1>3. running \in Tid /\ Promised!Idle(running)
  BY <1>1, RunningIdle
<1>4. CASE TakeValue(m)
  BY <1>1, <1>4, TakeRefines DEF Promised!Next
<1>5. CASE \E v \in Values : PutValue(m, v)
  BY <1>1, <1>5, PutRefines DEF Promised!Next
<1>6. CASE /\ value[m] = Empty
           /\ queue' = [queue EXCEPT ![m] = Append(@, running)]
           /\ Block("take", m, Empty, "OnMVar")
  <2>1. Lines' = [Lines EXCEPT ![m] = Append(@, running)] /\ AllReaders' = AllReaders
    BY <1>1, <1>6, WaitsInLine
  <2>2. value' = value /\ Handed' = Handed /\ Offers' = Offers
    BY <1>1, <1>6, BlockStep
  <2>3. Promised!TakeWaits(running, m)
    BY <1>3, <1>6, <2>1, <2>2 DEF Promised!TakeWaits
  <2> QED  BY <1>3, <2>3 DEF Promised!Next
<1>7. CASE /\ value[m] = Empty
           /\ queue' = [queue EXCEPT ![m] = <<running>> \o @]
           /\ Block("read", m, Empty, "OnMVarRead")
  <2>1. Lines' = Lines /\ AllReaders' = [AllReaders EXCEPT ![m] = @ \cup {running}]
    BY <1>1, <1>7, WaitsToRead
  <2>2. value' = value /\ Handed' = Handed /\ Offers' = Offers
    BY <1>1, <1>7, BlockStep
  <2>3. Promised!ReadWaits(running, m)
    BY <1>3, <1>7, <2>1, <2>2 DEF Promised!ReadWaits
  <2> QED  BY <1>3, <2>3 DEF Promised!Next
<1>8. ASSUME NEW v \in Values, value[m] # Empty,
             queue' = [queue EXCEPT ![m] = Append(@, running)],
             Block("put", m, v, "OnMVar")
      PROVE  Promised!Next
  <2>1. Lines' = [Lines EXCEPT ![m] = Append(@, running)] /\ AllReaders' = AllReaders
    BY <1>1, <1>8, WaitsInLine
  <2>2. value' = value /\ Handed' = Handed /\ Offers' = [Offers EXCEPT ![running] = v]
    BY <1>1, <1>8, BlockStep
  <2>3. Promised!PutWaits(running, m, v)
    BY <1>3, <1>8, <2>1, <2>2 DEF Promised!PutWaits
  <2> QED  BY <1>3, <2>3 DEF Promised!Next
<1> QED  BY <1>2, <1>4, <1>5, <1>6, <1>7, <1>8

-----------------------------------------------------------------------------
(***************************************************************************)
(* The scheduler: a tick hands a served thread its value, and nothing else *)
(* of it is seen by the MVars.                                             *)
(***************************************************************************)

\* Only its tick changes the frame of a thread that has one registered.
LEMMA QueuedKept ==
  ASSUME OInv, SchedNext, ~Tick
  PROVE  \A t \in Queued : frame'[t] = frame[t]
<1>1. /\ TypeOK /\ CurrentThread /\ Queued \subseteq Tid /\ NoThread \notin Tid
      /\ EndedCreated
      /\ \A t \in Tid : Live(t) <=> running = t \/ Blocked(t)
                                    \/ t \in Queued \cup sleeping \cup Awaiting
      /\ running \notin Queued
  BY Places DEF OInv, Queued
<1> USE DEF TypeOK, SchedTypeOK
<1>2. CASE NewThread
  <2>1. lastTid + 1 \notin Queued
    BY <1>1, <1>2, SchedulerAssumption DEF NewThread, Tid, Live, Created
  <2> QED  BY <1>1, <1>2, <2>1 DEF NewThread
<1>3. CASE StopAndRequeue \/ Delay \/ SafeCall \/ ThrowSync
  BY <1>1, <1>3 DEF StopAndRequeue, Delay, SafeCall, ThrowSync
<1>4. CASE \E t \in Tid : TimerFires(t) \/ PromiseResolves(t) \/ PromiseRejects(t)
  BY <1>4 DEF TimerFires, PromiseResolves, PromiseRejects, Settled, tsoVars
<1>5. CASE ReturnedFromTSO
  BY <1>5
  DEF ReturnedFromTSO, RequeueReturned, AwaitReturned, SleepReturned, ParkReturned,
      EndReturned, BackToLoop, tsoVars
<1>6. CASE Catch(<<>>) \/ Die(<<>>) \/ Finish
  BY <1>1, <1>6 DEF Catch, Die, Finish
<1> QED
  BY <1>2, <1>3, <1>4, <1>5, <1>6 DEF SchedNext, LoopNext, SubmitCmdCreateThread, Fork

LEMMA SchedRefines ==
  ASSUME QInv, SchedStep
  PROVE  \/ UNCHANGED Promised!mvars
         \/ \E t \in Tid : Promised!PickUp(t)
<1>1. BlockedKept /\ UNCHANGED <<value, queue>>
  BY LoopEffect, ReturnedEffect, EndEffect DEF QInv, SchedStep, SchedNext
<1>2. \A t \in Tid : arg'[t] = IF frame'[t] \in {"put", "ret"} THEN arg[t] ELSE Empty
  BY DEF SchedStep
<1>3. \A t \in Tid : /\ frame[t] \in Retry => Blocked(t)
                     /\ frame[t] = "ret" => t \in Queued /\ arg[t] \in Values
  BY DEF QInv, WokenWithOpPerformed
<1>4. /\ queue \in [MVars -> Seq(Tid)] /\ frame \in [Tid -> Frame]
      /\ immediates \in Seq(Tid) /\ Queued \subseteq Tid
      /\ \A t \in Tid : Blocked(t) => t \notin Queued
  BY Places DEF QInv, OInv, TypeOK, SchedTypeOK, Queued
<1>5. Lines' = Lines /\ AllReaders' = AllReaders
  <2>1. \A m \in MVars : \A t \in Waiting(m) :
          whyBlocked'[t] = whyBlocked[t] /\ frame'[t] = frame[t]
    BY <1>1, <1>4, RangeOfSeq DEF BlockedKept, Blocked, Waiting
  <2>2. \A m \in MVars : Line(m)' = Line(m) /\ WaitingReaders(m)' = WaitingReaders(m)
    BY <1>1, <2>1, LineKept
  <2> QED  BY <2>2 DEF Lines, AllReaders
<1>6. Offers' = Offers
  <2>1. \A t \in Tid : frame'[t] = "put" <=> frame[t] = "put"
    BY <1>1, <1>3 DEF BlockedKept, Retry
  <2> QED  BY <1>2, <2>1 DEF Offers
<1>7. CASE ~Tick
  <2>1. \A t \in Tid : frame'[t] = "ret" <=> frame[t] = "ret"
    BY <1>1, <1>3, <1>7, QueuedKept DEF BlockedKept, SchedStep, QInv
  <2>2. Handed' = Handed
    BY <1>2, <2>1 DEF Handed
  <2> QED  BY <1>1, <1>5, <1>6, <2>2 DEF Promised!mvars
<1>8. CASE Tick
  <2> DEFINE h == Head(immediates)
  <2>1. immediates # <<>> /\ frame' = [frame EXCEPT ![h] = Resumed(h)]
    BY <1>8 DEF Tick
  <2>2. h \in Tid /\ h \in Queued
    BY <1>4, <2>1, TailRange, HeadTailProperties DEF Queued, QInv, OInv, Inv, OneWayToRun
  <2>3. Resumed(h) # "ret"
    BY DEF Resumed, Retry
  <2> HIDE DEF h
  <2>4. \A t \in Tid : frame'[t] = "ret" <=> frame[t] = "ret" /\ t # h
    BY <1>4, <2>1, <2>2, <2>3
  <2>5. CASE frame[h] # "ret"
    <3>1. Handed' = Handed
      BY <1>2, <2>4, <2>5 DEF Handed
    <3> QED  BY <1>1, <1>5, <1>6, <3>1 DEF Promised!mvars
  <2>6. CASE frame[h] = "ret"
    <3>1. Handed[h] = arg[h] /\ arg[h] \in Values
      BY <1>3, <2>2, <2>6 DEF Handed
    <3>2. Handed[h] # Empty
      BY <3>1, MVarAssumption
    <3>3. Handed' = [Handed EXCEPT ![h] = Empty]
      BY <1>2, <2>2, <2>4 DEF Handed
    <3>4. Promised!PickUp(h)
      BY <1>1, <1>5, <1>6, <3>2, <3>3 DEF Promised!PickUp
    <3> QED  BY <2>2, <3>4
  <2> QED  BY <2>5, <2>6
<1> QED  BY <1>7, <1>8

-----------------------------------------------------------------------------
LEMMA InitRefines == Init => Promised!Init
<1> SUFFICES ASSUME Init PROVE Promised!Init
  OBVIOUS
<1>1. /\ value = [m \in MVars |-> Empty] /\ queue = [m \in MVars |-> <<>>]
      /\ \A t \in Tid : frame[t] = "run"
  BY DEF Init, MVarInit, SchedInit
<1>2. \A m \in MVars : Line(m) = <<>>
  <2>1. ReadersCounted
    BY ReadersAreCounted
  <2>2. \A m \in MVars : queue[m] = <<>> /\ Len(queue[m]) = 0 /\ queue[m] \in Seq(Tid)
    BY <1>1
  <2>3. \A m \in MVars : Line(m) = SubSeq(queue[m], 0 + 1, Len(queue[m]))
    BY <2>1, <2>2 DEF ReadersCounted
  <2> QED  BY <2>2, <2>3, SubSeqFull
<1>3. \A m \in MVars : WaitingReaders(m) = {}
  BY <1>1 DEF WaitingReaders, Waiting, Range
<1>4. Offers = [t \in Tid |-> Empty] /\ Handed = [t \in Tid |-> Empty]
  BY <1>1 DEF Offers, Handed
<1> QED  BY <1>1, <1>2, <1>3, <1>4 DEF Promised!Init, Lines, AllReaders

LEMMA NextRefines == QInv /\ [Next]_vars => [Promised!Next]_Promised!mvars
<1> SUFFICES ASSUME QInv, [Next]_vars PROVE [Promised!Next]_Promised!mvars
  OBVIOUS
<1>1. CASE SchedStep
  BY <1>1, SchedRefines DEF Promised!Next
<1>2. CASE MVarNext
  BY <1>2, MVarRefines
<1>3. CASE UNCHANGED vars
  <2>1. UNCHANGED <<value, queue, arg, frame, whyBlocked>>
    BY <1>3 DEF vars, schedVars, mvarVars, tsoVars
  <2>2. \A m \in MVars : Line(m)' = Line(m) /\ WaitingReaders(m)' = WaitingReaders(m)
    BY <2>1, LineKept
  <2>3. Lines' = Lines /\ AllReaders' = AllReaders
    BY <2>2 DEF Lines, AllReaders
  <2>4. Offers' = Offers /\ Handed' = Handed
    BY <2>1 DEF Offers, Handed
  <2> QED  BY <2>1, <2>3, <2>4 DEF Promised!mvars
<1> QED  BY <1>1, <1>2, <1>3 DEF Next

\* Threads on the scheduler get from the MVar operations of PrimOps.cmm what
\* MVarSpec promises: atomic operations, waiters served in the order in which
\* they came, every reader served before the first taker, no value lost.
THEOREM ThreadsImplementMVars == Spec => ImplementsMVarSpec
<1>1. Spec => Promised!Init /\ [][Promised!Next]_Promised!mvars
  BY InitRefines, NextRefines, QueueInvariance, PTL DEF Spec
<1> QED  BY <1>1 DEF ImplementsMVarSpec, Promised!Spec
=============================================================================
