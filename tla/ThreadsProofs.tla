---------------------------- MODULE ThreadsProofs ----------------------------
(***************************************************************************)
(* Proofs about Threads, for every number of threads, MVars and values:    *)
(* types, and that the scheduler and the MVars between them lose no wakeup *)
(* and double none.  OneWayToRun is not inductive: what a step does to the *)
(* places of a thread depends on the reason with which it returned and on  *)
(* the promise it made, so that the inductive invariant Inv adds           *)
(* ReturnReasonTrue and BlockingPromiseOwned.                              *)
(***************************************************************************)
EXTENDS Threads, SchedulerProofs

USE DEF NoThread

-----------------------------------------------------------------------------
(***************************************************************************)
(* Type correctness.                                                       *)
(***************************************************************************)

TypeInv == TypeOK /\ CurrentThread

\* Readers is what a put counts: the readers in front of a queue.  The queue has
\* a first thread that is not a reader, or it has none.
LEMMA ReadersOfQueue ==
  ASSUME NEW m \in MVars, queue[m] \in Seq(Tid)
  PROVE  /\ Readers(m) \in 0..Len(queue[m])
         /\ \A i \in 1..Readers(m) : IsReader(queue[m][i])
         /\ Readers(m) < Len(queue[m]) => ~IsReader(queue[m][Readers(m) + 1])
<1> DEFINE len == Len(queue[m])
           T == {k \in Nat : k <= len /\ (k < len => ~IsReader(queue[m][k + 1]))}
           P(k) == /\ \A i \in 1..k : IsReader(queue[m][i])
                   /\ k < len => ~IsReader(queue[m][k + 1])
<1>1. len \in Nat
  BY LenProperties
<1>2. len \in T
  BY <1>1
<1>3. PICK k \in T : \A j \in T : ~ (j < k)
  <2> HIDE DEF T
  <2>1. T \in SUBSET Nat /\ T # {}
    BY <1>2 DEF T
  <2> QED  BY <2>1, LeastNumber
<1>4. \A i \in 1..k : IsReader(queue[m][i])
  <2> TAKE i \in 1..k
  <2>1. k \in Nat /\ k <= len
    OBVIOUS
  <2>2. i - 1 \in Nat /\ i - 1 < len /\ i - 1 < k
    BY <1>1, <2>1
  <2>3. ~(i - 1 \in T)
    BY ONLY <1>3, <2>2
  <2> QED  BY <1>1, <2>2, <2>3
<1>5. k \in 0..len /\ P(k)
  BY <1>1, <1>4
<1> HIDE DEF len, T, P
<1>6. Readers(m) = CHOOSE n \in 0..len : P(n)
  BY DEF Readers, len, P
<1>7. Readers(m) \in 0..len /\ P(Readers(m))
  BY <1>5, <1>6
<1> QED  BY <1>7 DEF len, P

LEMMA MVarStepType ==
  ASSUME TypeInv, MVarNext
  PROVE  TypeInv'
<1> USE MVarAssumption DEF TypeInv, TypeOK, SchedTypeOK, CurrentThread, infoVars, loopVars, capVars
<1>1. PICK m \in MVars :
        \/ TakeMVar(m) \/ TakeMVarBlocks(m) \/ TryTakeMVar(m) \/ ReadMVarBlocks(m)
        \/ \E v \in Values : PutMVar(m, v) \/ PutMVarBlocks(m, v) \/ TryPutMVar(m, v)
  BY DEF MVarNext
<1>2. queue[m] \in Seq(Tid) /\ immediates \in Seq(Tid)
  OBVIOUS
<1>3. CASE TakeValue(m) /\ control = "wasm"
  <2>1. CASE queue[m] = <<>>
    BY <1>3, <2>1 DEF TakeValue, Frame
  <2>2. CASE queue[m] # <<>>
    <3> DEFINE w == Head(queue[m])
    <3>1. w \in Tid /\ Tail(queue[m]) \in Seq(Tid)
      BY <2>2, HeadTailProperties
    <3>2. immediates \o <<w>> \in Seq(Tid)
      BY <3>1, ConcatProperties
    <3>3. /\ value' = [value EXCEPT ![m] = arg[w]]
          /\ queue' = [queue EXCEPT ![m] = Tail(@)]
          /\ frame' = [frame EXCEPT ![running] = "run", ![w] = "run"]
          /\ arg' = [arg EXCEPT ![w] = Empty]
          /\ immediates' = immediates \o <<w>>
          /\ UNCHANGED <<lastTid, whatNext, whyBlocked, blockInfo, infoVars,
                         capVars, sleeping, awaiting>>
      BY <1>3, <2>2 DEF TakeValue, Wake
    <3> QED  BY <3>1, <3>2, <3>3 DEF Frame
  <2> QED  BY <2>1, <2>2
<1>4. ASSUME NEW v \in Values, PutValue(m, v), control = "wasm"
      PROVE  TypeInv'
  <2> DEFINE r == Readers(m)
             n == IF r < Len(queue[m]) THEN r + 1 ELSE r
             woken == SubSeq(queue[m], 1, n)
  <2>1. r \in 0..Len(queue[m]) /\ Len(queue[m]) \in Nat
    BY ReadersOfQueue, LenProperties
  <2>2. n \in 0..Len(queue[m])
    BY <2>1
  <2>3. woken \in Seq(Tid) /\ SubSeq(queue[m], n + 1, Len(queue[m])) \in Seq(Tid)
    <3> HIDE DEF n
    <3> QED  BY <1>2, <2>2, SplitType
  <2>4. immediates \o woken \in Seq(Tid)
    BY <2>3, ConcatProperties
  <2> HIDE DEF r, n, woken
  <2>5. /\ value' = value \/ value' = [value EXCEPT ![m] = v]
        /\ queue' = [queue EXCEPT ![m] = SubSeq(@, n + 1, Len(@))]
        /\ frame' = [t \in Tid |-> IF t \in Range(woken) THEN "ret"
                                   ELSE IF t = running THEN "run" ELSE frame[t]]
        /\ arg' = [t \in Tid |-> IF t \in Range(woken) THEN v
                                 ELSE IF t = running THEN Empty ELSE arg[t]]
        /\ immediates' = immediates \o woken
        /\ UNCHANGED <<lastTid, whatNext, whyBlocked, blockInfo, infoVars, capVars,
                       sleeping, awaiting>>
    BY <1>4 DEF PutValue, Wake, r, n, woken
  <2> QED  BY <2>3, <2>4, <2>5 DEF Frame
<1>5. ASSUME NEW op \in {"take", "read", "put"}, NEW v \in Values \cup {Empty},
             NEW why \in {"OnMVar", "OnMVarRead"}, NEW q \in Seq(Tid),
             control = "wasm", Block(op, m, v, why), queue' = [queue EXCEPT ![m] = q]
      PROVE  TypeInv'
  BY <1>5 DEF Block, ReturnToSched, Frame, Retry, WhyBlocked, Parked, WhatNext, Reason
<1>6. ASSUME control = "wasm"
      PROVE  Append(queue[m], running) \in Seq(Tid) /\ <<running>> \o queue[m] \in Seq(Tid)
  <2>1. running \in Tid  BY <1>6
  <2> QED  BY <1>2, <2>1, AppendProperties, ConcatProperties
<1>7. CASE TakeMVar(m) \/ TryTakeMVar(m)
  BY <1>3, <1>7 DEF TakeMVar, TryTakeMVar, At, Executing
<1>8. CASE TakeMVarBlocks(m)
  BY <1>5, <1>6, <1>8 DEF TakeMVarBlocks, At
<1>9. CASE ReadMVarBlocks(m)
  BY <1>5, <1>6, <1>9 DEF ReadMVarBlocks, At
<1>10. ASSUME NEW v \in Values, PutMVar(m, v) \/ TryPutMVar(m, v)
       PROVE  TypeInv'
  BY <1>4, <1>10 DEF PutMVar, TryPutMVar, At, Executing
<1>11. ASSUME NEW v \in Values, PutMVarBlocks(m, v)
       PROVE  TypeInv'
  BY <1>5, <1>6, <1>11 DEF PutMVarBlocks, At
<1> QED  BY <1>1, <1>7, <1>8, <1>9, <1>10, <1>11

LEMMA InitType == Init => TypeInv
<1> SUFFICES ASSUME Init PROVE TypeInv
  OBVIOUS
<1> USE SchedulerAssumption DEF Init, SchedInit, MVarInit
<1>1. SchedTypeOK(MVars) /\ CurrentThread
  BY EmptySeq DEF SchedTypeOK, CurrentThread, WhatNext, WhyBlocked, Frame, Reason
<1>2. /\ value \in [MVars -> Values \cup {Empty}]
      /\ queue \in [MVars -> Seq(Tid)]
      /\ arg \in [Tid -> Values \cup {Empty}]
  BY EmptySeq
<1> QED  BY <1>1, <1>2 DEF TypeInv, TypeOK

LEMMA NextType == TypeInv /\ [Next]_vars => TypeInv'
<1> SUFFICES ASSUME TypeInv, [Next]_vars PROVE TypeInv'
  OBVIOUS
<1>1. CASE SchedStep
  <2>1. SchedTypeOK(MVars)' /\ CurrentThread'
    BY <1>1, LoopStepType, ReturnedType, EndStepType, EmptySeq
    DEF TypeInv, TypeOK, SchedStep, SchedNext
  <2>2. /\ value' \in [MVars -> Values \cup {Empty}]
        /\ queue' \in [MVars -> Seq(Tid)]
        /\ arg' \in [Tid -> Values \cup {Empty}]
    BY <1>1 DEF TypeInv, TypeOK, SchedStep
  <2> QED  BY <2>1, <2>2 DEF TypeInv, TypeOK
<1>2. CASE MVarNext
  BY <1>2, MVarStepType
<1>3. CASE UNCHANGED vars
  BY <1>3 DEF vars, schedVars, mvarVars, tsoVars, infoVars, loopVars, capVars,
              TypeInv, TypeOK, SchedTypeOK, CurrentThread
<1> QED  BY <1>1, <1>2, <1>3 DEF Next

LEMMA TypeInvariant == Spec => []TypeInv
  BY InitType, NextType, PTL DEF Spec

\* Every variable keeps its type: in particular no thread identifier, stack
\* frame or block reason of another kind reaches a queue or a thread record.
THEOREM TypeCorrect == Spec => []TypeOK
<1>1. TypeInv => TypeOK
  BY DEF TypeInv
<1> QED  BY <1>1, TypeInvariant, PTL
-----------------------------------------------------------------------------
(***************************************************************************)
(* One way to run.                                                         *)
(***************************************************************************)

Inv ==
  /\ TypeInv
  /\ ReturnReasonTrue
  /\ BlockingPromiseOwned
  /\ OneWayToRun

BlockedThreads == {t \in Tid : Blocked(t)}

QueuesApart ==
  \A m \in MVars :
    /\ IsInjective(queue[m])
    /\ \A n \in MVars \ {m} : Waiting(m) \cap Waiting(n) = {}

\* The invariant says of the scheduler what WaysInv and NobodyLost say.
AsWays ==
  \A B : B = BlockedThreads =>
    (Inv <=> TypeInv /\ WaysInv(B) /\ NobodyLost(B) /\ QueuesApart)

LEMMA InvAsWays == AsWays
<1> SUFFICES ASSUME TypeInv, NEW B, B = BlockedThreads
             PROVE  ReturnReasonTrue /\ BlockingPromiseOwned /\ OneWayToRun
                      <=> WaysInv(B) /\ NobodyLost(B) /\ QueuesApart
  BY DEF AsWays, Inv
<1>1. \A t \in Tid : t \in B <=> Blocked(t)
  BY DEF BlockedThreads
<1>2. running \in Tid \cup {NoThread} /\ CurrentThread
  BY DEF TypeInv, TypeOK, SchedTypeOK
<1>3. \A t \in Tid : OneWay(t, Blocked(t)) <=> AtMostOneWay(t, B) /\ (Live(t) => HasAWay(t, B))
  BY <1>1 DEF OneWay, AtMostOneWay, HasAWay
<1>4. ReturnReasonTrue <=> ReasonsTrue(B)
  BY <1>1, <1>2 DEF ReturnReasonTrue, ReasonsTrue, CurrentThread, TypeInv, TypeOK, SchedTypeOK
<1> QED  BY <1>3, <1>4 DEF WaysInv, NobodyLost, QueuesApart, OneWayToRun

LEMMA InvFromWays ==
  ASSUME NEW B, B = BlockedThreads', TypeInv', WaysInv(B)', NobodyLost(B)', QueuesApart'
  PROVE  Inv'
<1>1. AsWays'
  BY InvAsWays, PTL
<1> QED  BY <1>1 DEF AsWays

LEMMA InitInv == Init => Inv
<1> SUFFICES ASSUME Init PROVE Inv
  OBVIOUS
<1>1. TypeInv
  BY InitType
<1>2. \A m \in MVars : queue[m] = <<>>
  BY DEF Init, MVarInit
<1>3. Range(<<>>) = {} /\ IsInjective(<<>>)
  BY DEF Range, IsInjective
<1>4. BlockedThreads = {} /\ QueuesApart
  BY <1>2, <1>3 DEF BlockedThreads, Blocked, Waiting, QueuesApart
<1>5. WaysInv({}) /\ NobodyLost({})
  BY InitWays DEF Init
<1> QED  BY <1>1, <1>4, <1>5, InvAsWays DEF AsWays

LEMMA SchedStepInv ==
  ASSUME Inv, TypeInv', SchedStep
  PROVE  Inv'
<1>1. PICK B : B = BlockedThreads
  OBVIOUS
<1>2. SchedTypeOK(MVars) /\ WaysInv(B) /\ NobodyLost(B) /\ QueuesApart
  BY <1>1, InvAsWays DEF AsWays, Inv, TypeInv, TypeOK
<1>3. B = BlockedThreads' /\ QueuesApart'
  BY <1>1, <1>2 DEF SchedStep, BlockedThreads, Blocked, Waiting, QueuesApart
<1>4. WaysInv(B)' /\ NobodyLost(B)'
  <2>1. CASE LoopNext
    BY <1>2, <2>1, LoopStepWays
  <2>2. CASE ReturnedFromTSO
    BY <1>2, <2>2, ReturnedWays
  <2>3. CASE Catch(<<>>) \/ Die(<<>>) \/ Finish
    <3>1. immediates \in Seq(Tid)
      BY <1>2 DEF SchedTypeOK
    <3>2. immediates' = immediates \o <<>>
      BY <2>3, <3>1, ConcatEmptySeq DEF Catch, Die, Finish, loopVars
    <3>3. <<>> \in Seq(Tid) /\ Range(<<>>) = {} /\ IsInjective(<<>>)
      BY DEF Range, IsInjective
    <3>4. /\ control = "wasm"
          /\ UNCHANGED <<lastTid, running, blockingPromise, sleeping, awaiting>>
          /\ \/ UNCHANGED <<control, whatNext>>
             \/ /\ control' = "returned" /\ rRet' = "ThreadFinished"
                /\ \E w \in {"Killed", "Complete"} :
                     whatNext' = [whatNext EXCEPT ![running] = w]
      BY <2>3 DEF Catch, Die, Finish, Raising, Executing, ReturnToSched, capVars, loopVars
    <3>5. B = B \ Range(<<>>) /\ Range(<<>>) \subseteq B
      BY <3>3
    <3> QED  BY <1>2, <3>2, <3>3, <3>4, <3>5, WakeWays
  <2> QED  BY <2>1, <2>2, <2>3 DEF SchedStep, SchedNext
<1> QED  BY <1>3, <1>4, InvFromWays

-----------------------------------------------------------------------------
(***************************************************************************)
(* The operations on MVars preserve the invariant: they move the running   *)
(* thread into a queue, or threads at the front of a queue to the ticks.   *)
(***************************************************************************)

LEMMA BlockInv ==
  ASSUME Inv, TypeInv', control = "wasm",
         NEW m \in MVars, NEW op, NEW v, NEW why \in {"OnMVar", "OnMVarRead"},
         Block(op, m, v, why),
         NEW q \in Seq(Tid), queue' = [queue EXCEPT ![m] = q],
         Range(q) = Waiting(m) \cup {running},
         running \notin Waiting(m) => IsInjective(q)
  PROVE  Inv'
<1>1. PICK B, C : B = BlockedThreads /\ C = B \cup {running}
  OBVIOUS
<1>2. SchedTypeOK(MVars) /\ WaysInv(B) /\ NobodyLost(B) /\ QueuesApart /\ queue \in [MVars -> Seq(Tid)]
  BY <1>1, InvAsWays DEF AsWays, Inv, TypeInv, TypeOK
<1>3. running \in Tid /\ running \notin B
  BY <1>2 DEF WaysInv, ReasonsTrue, CurrentThread, SchedTypeOK
<1>4. \A n \in MVars : /\ Waiting(n)' = IF n = m THEN Waiting(m) \cup {running} ELSE Waiting(n)
                       /\ running \notin Waiting(n)
  BY <1>1, <1>2, <1>3 DEF Waiting, Blocked, BlockedThreads
<1>5. C = BlockedThreads'
  BY <1>1, <1>3, <1>4 DEF BlockedThreads, Blocked
<1>6. WaysInv(C)' /\ NobodyLost(C)'
  BY <1>1, <1>2, BlockWays DEF Block, Parked
<1>7. ASSUME NEW k \in MVars
      PROVE  /\ IsInjective(queue[k])'
             /\ \A n \in MVars \ {k} : (Waiting(k) \cap Waiting(n) = {})'
  <2>1. IsInjective(queue[k])'
    BY <1>2, <1>4 DEF QueuesApart
  <2>2. ASSUME NEW n \in MVars \ {k} PROVE (Waiting(k) \cap Waiting(n) = {})'
    <3>1. Waiting(k) \cap Waiting(n) = {}
      BY <1>2 DEF QueuesApart
    <3>2. CASE k = m
      BY <1>4, <3>1, <3>2
    <3>3. CASE k # m
      BY <1>4, <3>1, <3>3
    <3> QED  BY <3>2, <3>3
  <2> QED  BY <2>1, <2>2
<1>8. QueuesApart'
  BY <1>7 DEF QueuesApart
<1> QED  BY <1>5, <1>6, <1>8, InvFromWays

LEMMA WakeInv ==
  ASSUME Inv, TypeInv', control = "wasm",
         UNCHANGED <<lastTid, whatNext, control, running, blockingPromise, sleeping, awaiting>>,
         NEW m \in MVars, NEW woken \in Seq(Tid), NEW rest \in Seq(Tid),
         IsInjective(woken), IsInjective(rest),
         Range(woken) \cup Range(rest) = Waiting(m),
         Range(woken) \cap Range(rest) = {},
         queue' = [queue EXCEPT ![m] = rest],
         immediates' = immediates \o woken
  PROVE  Inv'
<1>1. PICK B, C : B = BlockedThreads /\ C = B \ Range(woken)
  OBVIOUS
<1>2. SchedTypeOK(MVars) /\ WaysInv(B) /\ NobodyLost(B) /\ QueuesApart /\ queue \in [MVars -> Seq(Tid)]
  BY <1>1, InvAsWays DEF AsWays, Inv, TypeInv, TypeOK
<1>3. Range(woken) \subseteq Tid /\ Range(woken) \subseteq B
  BY <1>1, RangeOfSeq DEF BlockedThreads, Blocked
<1>4. \A n \in MVars : Waiting(n)' = Waiting(n) \ Range(woken)
  BY <1>2 DEF QueuesApart, Waiting
<1>5. C = BlockedThreads'
  BY <1>1, <1>4 DEF Blocked, BlockedThreads
<1>6. WaysInv(C)' /\ NobodyLost(C)'
  BY <1>1, <1>2, <1>3, WakeWays
<1>7. ASSUME NEW k \in MVars
      PROVE  /\ IsInjective(queue[k])'
             /\ \A n \in MVars \ {k} : (Waiting(k) \cap Waiting(n) = {})'
  <2>1. IsInjective(queue[k])'
    BY <1>2 DEF QueuesApart
  <2>2. ASSUME NEW n \in MVars \ {k} PROVE (Waiting(k) \cap Waiting(n) = {})'
    BY <1>2, <1>4 DEF QueuesApart
  <2> QED  BY <2>1, <2>2
<1>8. QueuesApart'
  BY <1>7 DEF QueuesApart
<1> QED  BY <1>5, <1>6, <1>8, InvFromWays

\* What takes and puts do to the ticks and the queues.
LEMMA TakeValueInv ==
  ASSUME Inv, TypeInv', control = "wasm", NEW m \in MVars, TakeValue(m)
  PROVE  Inv'
<1> USE DEF TypeInv, TypeOK, SchedTypeOK
<1>1. /\ TypeInv
      /\ OneWayToRun
      /\ queue[m] \in Seq(Tid) /\ IsInjective(queue[m]) /\ immediates \in Seq(Tid)
  BY DEF Inv, OneWayToRun
<1>2. UNCHANGED <<lastTid, whatNext, control, running, blockingPromise, sleeping, awaiting>>
  BY DEF TakeValue, capVars
<1>3. CASE queue[m] = <<>>
  <2>1. queue' = [queue EXCEPT ![m] = <<>>] /\ immediates' = immediates \o <<>>
    BY <1>1, <1>3, ConcatEmptySeq DEF TakeValue
  <2>2. <<>> \in Seq(Tid) /\ Range(<<>>) = {} /\ IsInjective(<<>>)
    BY DEF Range, IsInjective
  <2>3. Waiting(m) = {}
    BY <1>3, <2>2 DEF Waiting
  <2> QED  BY ZenonT(60), <1>2, <2>1, <2>2, <2>3, WakeInv
<1>4. CASE queue[m] # <<>>
  <2> DEFINE w == Head(queue[m])
             rest == Tail(queue[m])
  <2>1. w \in Tid /\ rest \in Seq(Tid)
    BY <1>1, <1>4, HeadTailProperties
  <2>2. w \in Waiting(m) /\ Range(rest) = Waiting(m) \ {w} /\ IsInjective(rest)
    BY <1>1, <1>4, TailRange DEF Waiting
  <2>3. <<w>> \in Seq(Tid) /\ Range(<<w>>) = {w} /\ IsInjective(<<w>>)
    BY <2>1, SingletonRange
  <2>4. queue' = [queue EXCEPT ![m] = rest] /\ immediates' = immediates \o <<w>>
    BY <1>4 DEF TakeValue, Wake
  <2> DEFINE woken == <<w>>
  <2> HIDE DEF w, rest
  <2>5. /\ woken \in Seq(Tid) /\ IsInjective(woken)
        /\ Range(woken) \cup Range(rest) = Waiting(m) /\ Range(woken) \cap Range(rest) = {}
    BY <2>2, <2>3
  <2>6. immediates' = immediates \o woken
    BY <2>4
  <2> HIDE DEF woken
  <2> QED  BY <1>2, <2>1, <2>2, <2>4, <2>5, <2>6, WakeInv
<1> QED  BY <1>3, <1>4

LEMMA PutValueInv ==
  ASSUME Inv, TypeInv', control = "wasm", NEW m \in MVars, NEW v, PutValue(m, v)
  PROVE  Inv'
<1> USE DEF TypeInv, TypeOK, SchedTypeOK
<1> DEFINE q == queue[m]
           n == IF Readers(m) < Len(q) THEN Readers(m) + 1 ELSE Readers(m)
           woken == SubSeq(q, 1, n)
           rest == SubSeq(q, n + 1, Len(q))
<1>1. TypeInv /\ q \in Seq(Tid) /\ IsInjective(q) /\ Range(q) = Waiting(m)
  BY DEF Inv, OneWayToRun, Waiting
<1>2. Readers(m) \in 0..Len(q) /\ Len(q) \in Nat
  BY <1>1, ReadersOfQueue, LenProperties
<1>3. n \in 0..Len(q)
  BY <1>2
<1>4. /\ UNCHANGED <<lastTid, whatNext, control, running, blockingPromise, sleeping, awaiting>>
      /\ queue' = [queue EXCEPT ![m] = rest] /\ immediates' = immediates \o woken
  BY DEF PutValue, Wake, capVars
<1>5. /\ woken \in Seq(Tid) /\ rest \in Seq(Tid)
      /\ Range(woken) \cup Range(rest) = Waiting(m) /\ Range(woken) \cap Range(rest) = {}
      /\ IsInjective(woken) /\ IsInjective(rest)
  <2> HIDE DEF q, n
  <2> QED  BY <1>1, <1>3, SplitType, SplitRange
<1> HIDE DEF q, n, woken, rest
<1> QED  BY <1>4, <1>5, WakeInv

LEMMA MVarStepInv ==
  ASSUME Inv, TypeInv', MVarNext
  PROVE  Inv'
<1>1. PICK m \in MVars :
        \/ TakeMVar(m) \/ TakeMVarBlocks(m) \/ TryTakeMVar(m) \/ ReadMVarBlocks(m)
        \/ \E v \in Values : PutMVar(m, v) \/ PutMVarBlocks(m, v) \/ TryPutMVar(m, v)
  BY DEF MVarNext
<1>2. control = "wasm"
  BY <1>1 DEF TakeMVar, TakeMVarBlocks, TryTakeMVar, ReadMVarBlocks, PutMVar, PutMVarBlocks,
              TryPutMVar, At, Executing
<1>3. running \in Tid /\ queue[m] \in Seq(Tid)
  BY <1>2 DEF Inv, TypeInv, TypeOK, SchedTypeOK, CurrentThread
<1>4. CASE TakeMVar(m) \/ TryTakeMVar(m)
  BY <1>2, <1>4, TakeValueInv DEF TakeMVar, TryTakeMVar
<1>5. ASSUME NEW v, PutMVar(m, v) \/ TryPutMVar(m, v)
      PROVE  Inv'
  BY <1>2, <1>5, PutValueInv DEF PutMVar, TryPutMVar
<1>6. ASSUME NEW op, NEW v, NEW why \in {"OnMVar", "OnMVarRead"}, Block(op, m, v, why),
             \/ queue' = [queue EXCEPT ![m] = Append(@, running)]
             \/ queue' = [queue EXCEPT ![m] = <<running>> \o @]
      PROVE  Inv'
  <2> DEFINE a == Append(queue[m], running)
             c == <<running>> \o queue[m]
  <2>1. IsInjective(queue[m])
    BY DEF Inv, OneWayToRun
  <2>2. /\ a \in Seq(Tid) /\ Range(a) = Waiting(m) \cup {running}
        /\ running \notin Waiting(m) => IsInjective(a)
    BY <1>3, <2>1, AppendProperties, AppendRange DEF Waiting
  <2>3. /\ c \in Seq(Tid) /\ Range(c) = Waiting(m) \cup {running}
        /\ running \notin Waiting(m) => IsInjective(c)
    BY <1>3, <2>1, PushRange DEF Waiting
  <2>4. queue' = [queue EXCEPT ![m] = a] \/ queue' = [queue EXCEPT ![m] = c]
    BY <1>6
  <2> HIDE DEF a, c
  <2>5. CASE queue' = [queue EXCEPT ![m] = a]
    BY <1>2, <1>6, <2>2, <2>5, BlockInv
  <2>6. CASE queue' = [queue EXCEPT ![m] = c]
    BY <1>2, <1>6, <2>3, <2>6, BlockInv
  <2> QED  BY <2>4, <2>5, <2>6
<1>7. CASE TakeMVarBlocks(m) \/ ReadMVarBlocks(m)
  BY <1>6, <1>7 DEF TakeMVarBlocks, ReadMVarBlocks
<1>8. ASSUME NEW v, PutMVarBlocks(m, v)
      PROVE  Inv'
  BY <1>6, <1>8 DEF PutMVarBlocks
<1> QED  BY <1>1, <1>4, <1>5, <1>7, <1>8

-----------------------------------------------------------------------------
LEMMA NextInv == Inv /\ [Next]_vars => Inv'
<1> SUFFICES ASSUME Inv, [Next]_vars PROVE Inv'
  OBVIOUS
<1>1. TypeInv'
  BY NextType DEF Inv
<1>2. CASE SchedStep
  BY <1>1, <1>2, SchedStepInv
<1>3. CASE MVarNext
  BY <1>1, <1>3, MVarStepInv
<1>4. CASE UNCHANGED vars
  BY <1>1, <1>4
  DEF Inv, vars, schedVars, mvarVars, tsoVars, infoVars, loopVars, capVars,
      ReturnReasonTrue, BlockingPromiseOwned, OneWayToRun, OneWay, Live, Ended, Created,
      Queued, Awaiting, Blocked, Waiting
<1> QED  BY <1>2, <1>3, <1>4 DEF Next

LEMMA Invariance == Spec => []Inv
  BY InitInv, NextInv, PTL DEF Spec

\* No wakeup is lost and none is duplicated: every live thread has exactly one
\* way to run again, every ended thread none (enqueueTSO and all its callers).
THEOREM NoWakeupLostOrDoubled == Spec => []OneWayToRun
<1>1. Inv => OneWayToRun
  BY DEF Inv
<1> QED  BY <1>1, Invariance, PTL

\* returnedFromTSO is right to trust ret and why_blocked: a thread that returns
\* is in a queue exactly when they say so, and ended only if they say so.
THEOREM ReasonsCanBeTrusted == Spec => []ReturnReasonTrue
<1>1. Inv => ReturnReasonTrue
  BY DEF Inv
<1> QED  BY <1>1, Invariance, PTL

\* The one blockingPromise slot is enough for all threads: it is full exactly
\* while the thread that filled it is being dealt with by returnedFromTSO.
THEOREM PromiseSlotOwned == Spec => []BlockingPromiseOwned
<1>1. Inv => BlockingPromiseOwned
  BY DEF Inv
<1> QED  BY <1>1, Invariance, PTL
=============================================================================
