--------------------------- MODULE SchedulerProofs ---------------------------
(***************************************************************************)
(* Lemmas about Scheduler, for every number of threads and whatever its    *)
(* threads are blocked on: the steps of the scheduler keep the types of    *)
(* its variables, and lose and double no way in which a thread comes to    *)
(* run.  The proofs about threads on MVars and on thunks rest on them.     *)
(***************************************************************************)
EXTENDS Scheduler, SequenceTheorems, WellFoundedInduction, TLAPS

USE DEF NoThread

-----------------------------------------------------------------------------
(***************************************************************************)
(* Induction, as the choice of a least counterexample.                     *)
(***************************************************************************)

LEMMA LeastNumber ==
  ASSUME NEW T \in SUBSET Nat, T # {}
  PROVE  \E k \in T : \A j \in T : ~(j < k)
<1> DEFINE R == {p \in Nat \X Nat : p[1] < p[2]}
<1>1. IsWellFoundedOn(R, Nat)
  BY NatLessThanWellFounded DEF OpToRel
<1>2. PICK k \in T : \A j \in T : ~(<<j, k>> \in R)
  <2> HIDE DEF R
  <2> QED  BY <1>1, WFMin
<1> QED  BY <1>2

-----------------------------------------------------------------------------
(***************************************************************************)
(* The elements of a queue, which holds none of them twice.                *)
(***************************************************************************)

\* Both parts of a sequence cut in two are sequences.
LEMMA SplitType ==
  ASSUME NEW S, NEW s \in Seq(S), NEW n \in 0..Len(s)
  PROVE  SubSeq(s, 1, n) \in Seq(S) /\ SubSeq(s, n + 1, Len(s)) \in Seq(S)
<1>1. Len(s) \in Nat /\ \A i \in 1..Len(s) : s[i] \in S
  BY LenProperties, ElementOfSeq
<1>2. SubSeq(s, 1, n) \in Seq(S)
  BY <1>1, SubSeqProperties
<1>3. SubSeq(s, n + 1, Len(s)) \in Seq(S)
  BY <1>1, SubSeqProperties
<1> QED  BY <1>2, <1>3

LEMMA AppendRange ==
  ASSUME NEW S, NEW s \in Seq(S), NEW e \in S
  PROVE  /\ Range(Append(s, e)) = Range(s) \cup {e}
         /\ IsInjective(s) /\ e \notin Range(s) => IsInjective(Append(s, e))
<1> DEFINE a == Append(s, e)
<1>1. /\ a \in Seq(S) /\ Len(a) = Len(s) + 1 /\ Len(s) \in Nat
      /\ \A i \in 1..Len(s) : a[i] = s[i]
      /\ a[Len(s) + 1] = e
  BY AppendProperties, LenProperties
<1>2. DOMAIN a = 1..Len(a) /\ DOMAIN s = 1..Len(s)
  BY <1>1, LenProperties
<1> HIDE DEF a
<1>3. Range(a) = Range(s) \cup {e}
  BY <1>1, <1>2 DEF Range
<1>4. IsInjective(s) /\ e \notin Range(s) => IsInjective(a)
  BY <1>1, <1>2 DEF IsInjective, Range
<1> QED  BY <1>3, <1>4 DEF a

LEMMA TailRange ==
  ASSUME NEW S, NEW s \in Seq(S), s # <<>>, IsInjective(s)
  PROVE  /\ Head(s) \in Range(s)
         /\ Range(Tail(s)) = Range(s) \ {Head(s)}
         /\ IsInjective(Tail(s))
<1> DEFINE a == Tail(s)
<1>1. /\ a \in Seq(S) /\ Len(a) = Len(s) - 1 /\ Len(s) \in Nat \ {0}
      /\ \A i \in 1..Len(a) : a[i] = s[i + 1]
      /\ Head(s) = s[1]
  BY HeadTailProperties, EmptySeq
<1>2. DOMAIN a = 1..Len(a) /\ DOMAIN s = 1..Len(s)
  BY <1>1, LenProperties
<1> HIDE DEF a
<1>3. \A i \in 2..Len(s) : i - 1 \in 1..Len(a) /\ s[i] = a[i - 1]
  BY <1>1
<1>4. Head(s) \in Range(s)
  BY <1>1, <1>2 DEF Range
<1>5. Range(a) \subseteq Range(s) \ {Head(s)}
  BY <1>1, <1>2 DEF Range, IsInjective
<1>6. Range(s) \ {Head(s)} \subseteq Range(a)
  <2> SUFFICES ASSUME NEW i \in 1..Len(s), s[i] # s[1] PROVE s[i] \in Range(a)
    BY <1>1, <1>2 DEF Range
  <2>1. i \in 2..Len(s)  BY <1>1
  <2> QED  BY <1>2, <1>3, <2>1 DEF Range
<1>7. IsInjective(a)
  BY <1>1, <1>2 DEF IsInjective
<1> QED  BY <1>4, <1>5, <1>6, <1>7 DEF a

LEMMA ConcatInjective ==
  ASSUME NEW S, NEW s \in Seq(S), NEW u \in Seq(S),
         IsInjective(s), IsInjective(u), Range(s) \cap Range(u) = {}
  PROVE  IsInjective(s \o u)
<1> DEFINE a == s \o u
<1>1. /\ a \in Seq(S) /\ Len(a) = Len(s) + Len(u) /\ Len(s) \in Nat /\ Len(u) \in Nat
      /\ \A i \in 1..Len(a) : a[i] = IF i <= Len(s) THEN s[i] ELSE u[i - Len(s)]
  BY ConcatProperties, LenProperties
<1>2. DOMAIN a = 1..Len(a) /\ DOMAIN s = 1..Len(s) /\ DOMAIN u = 1..Len(u)
  BY <1>1, LenProperties
<1> HIDE DEF a
<1>3. \A i \in 1..Len(s), j \in 1..Len(u) : s[i] # u[j]
  BY <1>2 DEF Range
<1>4. IsInjective(a)
  <2> SUFFICES ASSUME NEW i \in 1..Len(a), NEW j \in 1..Len(a), a[i] = a[j]
               PROVE  i = j
    BY <1>2 DEF IsInjective
  <2>1. CASE i <= Len(s) /\ j <= Len(s)
    BY <1>1, <1>2, <2>1 DEF IsInjective
  <2>2. CASE i <= Len(s) /\ j > Len(s)
    <3>1. i \in 1..Len(s) /\ j - Len(s) \in 1..Len(u)  BY <1>1, <2>2
    <3>2. a[i] = s[i] /\ a[j] = u[j - Len(s)]  BY <1>1, <2>2
    <3> QED  BY <1>3, <3>1, <3>2
  <2>3. CASE i > Len(s) /\ j <= Len(s)
    <3>1. j \in 1..Len(s) /\ i - Len(s) \in 1..Len(u)  BY <1>1, <2>3
    <3>2. a[j] = s[j] /\ a[i] = u[i - Len(s)]  BY <1>1, <2>3
    <3> QED  BY <1>3, <3>1, <3>2
  <2>4. CASE i > Len(s) /\ j > Len(s)
    <3>1. i - Len(s) \in 1..Len(u) /\ j - Len(s) \in 1..Len(u)  BY <1>1, <2>4
    <3>2. a[i] = u[i - Len(s)] /\ a[j] = u[j - Len(s)]  BY <1>1, <2>4
    <3>3. i - Len(s) = j - Len(s)  BY <1>2, <3>1, <3>2 DEF IsInjective
    <3> QED  BY <1>1, <3>3
  <2> QED  BY <1>1, <2>1, <2>2, <2>3, <2>4
<1> QED  BY <1>4 DEF a

LEMMA SingletonRange ==
  ASSUME NEW S, NEW e \in S
  PROVE  <<e>> \in Seq(S) /\ Range(<<e>>) = {e} /\ IsInjective(<<e>>)
BY DEF Range, IsInjective

LEMMA PushRange ==
  ASSUME NEW S, NEW s \in Seq(S), NEW e \in S
  PROVE  /\ <<e>> \o s \in Seq(S)
         /\ Range(<<e>> \o s) = Range(s) \cup {e}
         /\ IsInjective(s) /\ e \notin Range(s) => IsInjective(<<e>> \o s)
<1> DEFINE u == <<e>>
<1>1. u \in Seq(S) /\ Range(u) = {e} /\ IsInjective(u)
  BY SingletonRange
<1> HIDE DEF u
<1>2. u \o s \in Seq(S)
  BY <1>1, ConcatProperties
<1>3. Range(u \o s) = Range(s) \cup {e}
  BY <1>1, RangeConcatenation
<1>4. ASSUME IsInjective(s), e \notin Range(s) PROVE IsInjective(u \o s)
  <2>1. Range(u) \cap Range(s) = {}
    BY <1>1, <1>4
  <2> QED  BY <1>1, <1>4, <2>1, ConcatInjective
<1> QED  BY <1>2, <1>3, <1>4 DEF u

LEMMA SuffixElements ==
  ASSUME NEW S, NEW s \in Seq(S), NEW n \in 0..Len(s)
  PROVE  LET b == SubSeq(s, n + 1, Len(s))
         IN  /\ b \in Seq(S) /\ Len(b) = Len(s) - n
             /\ \A i \in 1..(Len(s) - n) : b[i] = s[n + i]
<1> DEFINE b == SubSeq(s, n + 1, Len(s))
<1>1. Len(s) \in Nat /\ DOMAIN s = 1..Len(s) /\ \A i \in 1..Len(s) : s[i] \in S
  BY LenProperties, ElementOfSeq
<1>2. n \in Nat /\ Len(s) \in Nat /\ n <= Len(s)
  BY <1>1
<1>3. /\ b \in Seq(S) /\ Len(b) = Len(s) - n
      /\ \A i \in 1..(Len(s) - n) : b[i] = s[n + i]
  <2>1. n + 1 \in Int /\ Len(s) \in Int /\ \A i \in (n + 1)..Len(s) : s[i] \in S
    BY <1>1
  <2>2. /\ b \in Seq(S)
        /\ Len(b) = IF n + 1 <= Len(s) THEN Len(s) - (n + 1) + 1 ELSE 0
        /\ \A i \in 1..(Len(s) - (n + 1) + 1) : b[i] = s[(n + 1) + i - 1]
    BY <2>1, SubSeqProperties
  <2> HIDE DEF b
  <2>3. \A i \in 1..(Len(s) - n) : (n + 1) + i - 1 = n + i
    BY <1>1
  <2>4. Len(s) - (n + 1) + 1 = Len(s) - n
    BY <1>1
  <2>5. Len(b) = Len(s) - n
    <3>1. CASE n = Len(s)
      <4>1. ~(n + 1 <= Len(s)) /\ Len(s) - n = 0  BY <1>1, <3>1
      <4> QED  BY <2>2, <4>1
    <3>2. CASE n # Len(s)
      <4>1. n + 1 <= Len(s)  BY <1>2, <3>2
      <4> QED  BY <2>2, <2>4, <4>1
    <3> QED  BY <3>1, <3>2
  <2>6. ASSUME NEW i \in 1..(Len(s) - n) PROVE b[i] = s[n + i]
    <3>1. b[i] = s[(n + 1) + i - 1]  BY <2>2, <2>4
    <3> QED  BY <2>3, <3>1
  <2> QED  BY <2>2, <2>5, <2>6
<1> QED  BY <1>3 DEF b

LEMMA SplitRange ==
  ASSUME NEW S, NEW s \in Seq(S), NEW n \in 0..Len(s), IsInjective(s)
  PROVE  LET a == SubSeq(s, 1, n)
             b == SubSeq(s, n + 1, Len(s))
         IN  /\ Range(a) \cup Range(b) = Range(s)
             /\ Range(a) \cap Range(b) = {}
             /\ IsInjective(a) /\ IsInjective(b)
<1> DEFINE a == SubSeq(s, 1, n)
           b == SubSeq(s, n + 1, Len(s))
<1>1. Len(s) \in Nat /\ DOMAIN s = 1..Len(s) /\ \A i \in 1..Len(s) : s[i] \in S
  BY LenProperties, ElementOfSeq
<1>0. n \in Nat /\ Len(s) \in Nat /\ n <= Len(s)
  BY <1>1
<1>2. a \in Seq(S) /\ Len(a) = n /\ \A i \in 1..n : a[i] = s[i]
  BY <1>1, SubSeqProperties
<1>3. /\ b \in Seq(S) /\ Len(b) = Len(s) - n
      /\ \A i \in 1..(Len(s) - n) : b[i] = s[n + i]
  BY SuffixElements
<1>4. DOMAIN a = 1..n /\ DOMAIN b = 1..(Len(s) - n)
  BY <1>1, <1>2, <1>3, LenProperties
<1> HIDE DEF a, b
<1>5. \A i \in (n + 1)..Len(s) : i - n \in 1..(Len(s) - n) /\ s[i] = b[i - n]
  BY <1>1, <1>3
<1>6. Range(s) \subseteq Range(a) \cup Range(b)
  <2> SUFFICES ASSUME NEW i \in 1..Len(s) PROVE s[i] \in Range(a) \cup Range(b)
    BY <1>1 DEF Range
  <2>1. i \in 1..n \/ i \in (n + 1)..Len(s)  BY <1>1
  <2> QED  BY <1>2, <1>4, <1>5, <2>1 DEF Range
<1>7. \A i \in 1..(Len(s) - n) : n + i \in (n + 1)..Len(s)
  BY <1>1
<1>8. Range(a) \subseteq Range(s) /\ Range(b) \subseteq Range(s)
  <2>1. Range(a) \subseteq Range(s)  BY <1>1, <1>2, <1>4 DEF Range
  <2>2. Range(b) \subseteq Range(s)
    <3> SUFFICES ASSUME NEW i \in 1..(Len(s) - n) PROVE b[i] \in Range(s)
      BY <1>4 DEF Range
    <3>1. n + i \in 1..Len(s) /\ b[i] = s[n + i]  BY <1>0, <1>3
    <3> QED  BY <1>1, <3>1 DEF Range
  <2> QED  BY <2>1, <2>2
<1>9. Range(a) \cap Range(b) = {}
  <2> SUFFICES ASSUME NEW i \in 1..n, NEW j \in 1..(Len(s) - n), a[i] = b[j]
               PROVE  FALSE
    BY <1>4 DEF Range
  <2>1. i \in 1..Len(s) /\ n + j \in 1..Len(s) /\ i # n + j  BY <1>1
  <2>2. s[i] = s[n + j]  BY <1>2, <1>3
  <2> QED  BY <1>1, <2>1, <2>2 DEF IsInjective
<1>10. IsInjective(a)
  BY <1>1, <1>2, <1>4 DEF IsInjective
<1>11. IsInjective(b)
  <2> SUFFICES ASSUME NEW i \in 1..(Len(s) - n), NEW j \in 1..(Len(s) - n),
                      b[i] = b[j]
               PROVE  i = j
    BY <1>4 DEF IsInjective
  <2>1. n + i \in 1..Len(s) /\ n + j \in 1..Len(s)  BY <1>1
  <2>2. n + i = n + j  BY <1>1, <1>3, <2>1 DEF IsInjective
  <2> QED  BY <1>1, <2>2
<1> QED  BY <1>6, <1>8, <1>9, <1>10, <1>11 DEF a, b

-----------------------------------------------------------------------------
(***************************************************************************)
(* Types.                                                                  *)
(***************************************************************************)

\* Between callbacks, and only then, no thread is current.
CurrentThread == control = "loop" <=> running = NoThread

\* The steps of SchedNext, but for those that append woken threads.
LEMMA LoopStepType ==
  ASSUME NEW objects, SchedTypeOK(objects), CurrentThread, LoopNext
  PROVE  SchedTypeOK(objects)' /\ CurrentThread'
<1> USE SchedulerAssumption DEF Tid, SchedTypeOK, CurrentThread, schedVars, tsoVars,
        infoVars, loopVars, capVars
<1>1. CASE NewThread /\ (control = "loop" \/ Executing)
  <2>1. /\ lastTid + 1 \in Tid
        /\ Append(immediates, lastTid + 1) \in Seq(Tid)
    BY <1>1, AppendProperties DEF NewThread
  <2> QED  BY <1>1, <2>1 DEF NewThread, WhatNext, WhyBlocked, Frame
<1>2. CASE Tick
  <2>1. Head(immediates) \in Tid /\ Tail(immediates) \in Seq(Tid)
    BY <1>2, HeadTailProperties DEF Tick
  <2>2. Resumed(Head(immediates)) \in Frame
    BY <2>1 DEF Resumed, Frame
  <2> QED  BY <1>2, <2>1, <2>2 DEF Tick
<1>3. CASE StopAndRequeue
  BY <1>3 DEF StopAndRequeue, Executing, ReturnToSched, WhatNext, Reason
<1>4. CASE Delay
  BY <1>4 DEF Delay, Executing, ReturnToSched, WhatNext, Reason, WhyBlocked
<1>5. CASE SafeCall
  BY <1>5 DEF SafeCall, Executing, ReturnToSched, Frame, Reason, WhyBlocked
<1>6. CASE ThrowSync
  <2>1. running \in Tid /\ Append(immediates, running) \in Seq(Tid)
    BY <1>6, AppendProperties DEF ThrowSync, Executing
  <2> QED  BY <1>6, <2>1 DEF ThrowSync, Executing, Frame
<1>7. ASSUME NEW t \in Tid, TimerFires(t) \/ PromiseResolves(t) \/ PromiseRejects(t)
      PROVE  SchedTypeOK(objects)' /\ CurrentThread'
  <2>1. Append(immediates, t) \in Seq(Tid)
    BY AppendProperties
  <2>2. CASE TimerFires(t)
    BY <2>1, <2>2 DEF TimerFires
  <2>3. CASE PromiseResolves(t)
    BY <2>1, <2>3 DEF PromiseResolves, Settled
  <2>4. CASE PromiseRejects(t)
    BY <2>1, <2>4 DEF PromiseRejects, Settled
  <2> QED  BY <1>7, <2>2, <2>3, <2>4
<1> QED
  BY <1>1, <1>2, <1>3, <1>4, <1>5, <1>6, <1>7
  DEF LoopNext, SubmitCmdCreateThread, Fork

LEMMA ReturnedType ==
  ASSUME NEW objects, SchedTypeOK(objects), CurrentThread, ReturnedFromTSO
  PROVE  SchedTypeOK(objects)' /\ CurrentThread'
<1> USE DEF Tid, SchedTypeOK, CurrentThread, BackToLoop, tsoVars, infoVars, loopVars, capVars
<1>1. running \in Tid /\ Append(immediates, running) \in Seq(Tid)
  BY AppendProperties
  DEF ReturnedFromTSO, RequeueReturned, AwaitReturned, SleepReturned,
      ParkReturned, EndReturned
<1>2. CASE RequeueReturned  BY <1>1, <1>2 DEF RequeueReturned
<1>3. CASE AwaitReturned  BY <1>1, <1>3 DEF AwaitReturned
<1>4. CASE SleepReturned  BY <1>1, <1>4 DEF SleepReturned
<1>5. CASE ParkReturned  BY <1>1, <1>5 DEF ParkReturned
<1>6. CASE EndReturned  BY <1>1, <1>6 DEF EndReturned
<1> QED  BY <1>2, <1>3, <1>4, <1>5, <1>6 DEF ReturnedFromTSO

LEMMA EndStepType ==
  ASSUME NEW objects, SchedTypeOK(objects), CurrentThread,
         NEW woken \in Seq(Tid), Catch(woken) \/ Die(woken) \/ Finish
  PROVE  SchedTypeOK(objects)' /\ CurrentThread'
<1> USE DEF Tid, SchedTypeOK, CurrentThread, ReturnToSched, infoVars, loopVars, capVars,
        WhatNext, Frame, Reason
<1>1. immediates \o woken \in Seq(Tid)
  BY ConcatProperties
<1>2. CASE Catch(woken)  BY <1>1, <1>2 DEF Catch, Raising
<1>3. CASE Die(woken)  BY <1>1, <1>3 DEF Die, Raising
<1>4. CASE Finish  BY <1>4 DEF Finish, Executing
<1> QED  BY <1>2, <1>3, <1>4

-----------------------------------------------------------------------------
(***************************************************************************)
(* The ways in which a thread comes to run.  B is the set of the threads   *)
(* that wait in the queue of an object, before or after a step.            *)
(***************************************************************************)

\* Some way in which t will run; and OneWay without the half that says that no
\* live thread is lost, which is NobodyLost.
HasAWay(t, B) == running = t \/ t \in B \/ t \in Queued \cup sleeping \cup Awaiting

AtMostOneWay(t, B) ==
  /\ HasAWay(t, B) => Live(t)
  /\ running = t \/ t \in B => t \notin Queued \cup sleeping \cup Awaiting
  /\ t \in Queued => t \notin sleeping \cup Awaiting
  /\ t \notin sleeping \cap Awaiting

NobodyLost(B) == \A t \in Tid : Live(t) => HasAWay(t, B)

\* The reasons with which threads return are the truth about B.
ReasonsTrue(B) ==
  /\ CurrentThread
  /\ control = "wasm" => ~Ended(running) /\ running \notin B
  /\ control = "returned" =>
       /\ running \in B <=> rRet = "ThreadBlocked" /\ whyBlocked[running] \in Parked
       /\ Ended(running) => rRet = "ThreadFinished"

WaysInv(B) ==
  /\ ReasonsTrue(B)
  /\ BlockingPromiseOwned
  /\ IsInjective(immediates)
  /\ \A t \in Tid : AtMostOneWay(t, B)

LEMMA NobodyLostOneWay ==
  ASSUME NEW B, WaysInv(B), NobodyLost(B)
  PROVE  \A t \in Tid : OneWay(t, t \in B)
BY DEF WaysInv, AtMostOneWay, NobodyLost, HasAWay, OneWay

LEMMA InitWays ==
  ASSUME SchedInit
  PROVE  WaysInv({}) /\ NobodyLost({})
<1>1. Range(<<>>) = {} /\ IsInjective(<<>>)
  BY DEF Range, IsInjective
<1>2. \A t \in Tid : ~Live(t) /\ t # running
  <2>1. 1..0 = {} /\ \A t \in Tid : t # 0
    BY DEF Tid
  <2> QED  BY <2>1 DEF SchedInit, Live, Created
<1>3. Queued = {} /\ sleeping = {} /\ Awaiting = {}
  BY <1>1 DEF SchedInit, Queued, Awaiting
<1> QED
  BY <1>1, <1>2, <1>3
  DEF SchedInit, WaysInv, NobodyLost, HasAWay, AtMostOneWay, ReasonsTrue, CurrentThread,
      BlockingPromiseOwned

LEMMA LoopStepWays ==
  ASSUME NEW objects, SchedTypeOK(objects), NEW B, WaysInv(B), LoopNext
  PROVE  WaysInv(B)' /\ (NobodyLost(B) => NobodyLost(B)')
<1> USE DEF SchedTypeOK, Executing, Live, Ended, Created, HasAWay
<1> DEFINE Goal == WaysInv(B)' /\ (NobodyLost(B) => NobodyLost(B)')
<1>1. /\ ReasonsTrue(B) /\ BlockingPromiseOwned /\ IsInjective(immediates)
      /\ \A t \in Tid : AtMostOneWay(t, B)
      /\ CurrentThread
  BY DEF WaysInv, ReasonsTrue
<1>2. SUFFICES Goal
  OBVIOUS
<1>3. ASSUME ReasonsTrue(B)', BlockingPromiseOwned', IsInjective(immediates'),
             \A t \in Tid : AtMostOneWay(t, B)' /\ ((Live(t) => HasAWay(t, B)) => (Live(t) => HasAWay(t, B))')
      PROVE  Goal
  BY <1>3 DEF WaysInv, NobodyLost
<1> HIDE DEF Goal
<1>4. CASE NewThread /\ (control = "loop" \/ Executing)
  <2> DEFINE n == lastTid + 1
  <2>1. n \in Tid /\ n \notin Created /\ \A t : t \in Created' <=> t \in Created \/ t = n
    BY <1>4, SchedulerAssumption DEF NewThread, Tid
  <2>2. n \notin Queued \cup sleeping \cup Awaiting /\ n \notin B /\ n # running
    BY <1>1, <2>1 DEF AtMostOneWay
  <2>3. /\ immediates' = Append(immediates, n)
        /\ whatNext' = [whatNext EXCEPT ![n] = "RunGHC"]
        /\ whyBlocked' = [whyBlocked EXCEPT ![n] = "NotBlocked"]
        /\ UNCHANGED <<sleeping, awaiting, control, running, rRet, blockingPromise>>
        /\ control = "loop" \/ control = "wasm"
    BY <1>4 DEF NewThread, capVars
  <2>4. Queued' = Queued \cup {n} /\ IsInjective(immediates') /\ Awaiting' = Awaiting
    BY <1>1, <2>1, <2>2, <2>3, AppendRange DEF Queued, Awaiting
  <2>5. \A t \in Tid : AtMostOneWay(t, B)' /\ ((Live(t) => HasAWay(t, B)) => (Live(t) => HasAWay(t, B))')
    BY <1>1, <2>1, <2>2, <2>3, <2>4 DEF AtMostOneWay
  <2>6. ReasonsTrue(B)' /\ BlockingPromiseOwned'
    BY <1>1, <2>1, <2>2, <2>3 DEF ReasonsTrue, CurrentThread, BlockingPromiseOwned
  <2> QED  BY <1>3, <2>4, <2>5, <2>6
<1>5. CASE Tick
  <2> DEFINE h == Head(immediates)
  <2>1. /\ control = "loop" /\ immediates # <<>> /\ immediates' = Tail(immediates)
        /\ control' = "wasm" /\ running' = h /\ running = NoThread
        /\ UNCHANGED <<lastTid, whatNext, whyBlocked, rRet, blockingPromise, sleeping,
                       awaiting>>
    BY <1>1, <1>5 DEF Tick, CurrentThread
  <2>2. /\ h \in Tid /\ h \in Queued /\ Queued' = Queued \ {h} /\ IsInjective(immediates')
        /\ Awaiting' = Awaiting
    BY <1>1, <2>1, TailRange, HeadTailProperties DEF Queued, Awaiting
  <2> HIDE DEF h
  <2>3. Live(h) /\ h \notin sleeping \cup Awaiting /\ h \notin B
    BY <1>1, <2>2 DEF AtMostOneWay
  <2>4. \A t \in Tid : AtMostOneWay(t, B)' /\ ((Live(t) => HasAWay(t, B)) => (Live(t) => HasAWay(t, B))')
    BY <1>1, <2>1, <2>2, <2>3 DEF AtMostOneWay
  <2>5. ReasonsTrue(B)' /\ BlockingPromiseOwned'
    BY <1>1, <2>1, <2>2, <2>3 DEF ReasonsTrue, CurrentThread, BlockingPromiseOwned
  <2> QED  BY <1>3, <2>2, <2>4, <2>5
<1>6. ASSUME StopAndRequeue \/ Delay \/ SafeCall
      PROVE  Goal
  <2>1. /\ control = "wasm" /\ control' = "returned"
        /\ whatNext' = [whatNext EXCEPT ![running] = "RunGHC"] \/ whatNext' = whatNext
        /\ UNCHANGED <<running, lastTid, immediates, sleeping, awaiting>>
    BY <1>6 DEF StopAndRequeue, Delay, SafeCall, ReturnToSched, loopVars
  <2>2. running \in Tid /\ ~Ended(running) /\ running \notin B /\ blockingPromise = NoThread
    BY <1>1, <2>1 DEF ReasonsTrue, CurrentThread, BlockingPromiseOwned
  <2>3. Queued' = Queued /\ Awaiting' = Awaiting /\ \A t \in Tid : Ended(t)' <=> Ended(t)
    BY <2>1, <2>2 DEF Queued, Awaiting
  <2>4. \A t \in Tid : AtMostOneWay(t, B)' /\ ((Live(t) => HasAWay(t, B)) => (Live(t) => HasAWay(t, B))')
    BY <1>1, <2>1, <2>3 DEF AtMostOneWay
  <2>5. ReasonsTrue(B)' /\ BlockingPromiseOwned'
    <3>1. CASE StopAndRequeue
      <4>1. rRet' \in Requeued /\ blockingPromise' = NoThread
        BY <2>2, <3>1 DEF StopAndRequeue, ReturnToSched
      <4> QED  BY <1>1, <2>1, <2>2, <2>3, <4>1
               DEF ReasonsTrue, CurrentThread, BlockingPromiseOwned, Requeued
    <3>2. CASE Delay
      <4>1. /\ rRet' = "ThreadBlocked" /\ whyBlocked'[running] = "OnDelay"
            /\ blockingPromise' = NoThread
        BY <2>2, <3>2 DEF Delay, ReturnToSched
      <4> QED  BY <1>1, <2>1, <2>2, <2>3, <4>1
               DEF ReasonsTrue, CurrentThread, BlockingPromiseOwned, Parked
    <3>3. CASE SafeCall
      <4>1. /\ rRet' = "ThreadBlocked" /\ whyBlocked'[running] = "OnCCall"
            /\ blockingPromise' = running
        BY <2>2, <3>3 DEF SafeCall, ReturnToSched
      <4> QED  BY <1>1, <2>1, <2>2, <2>3, <4>1
               DEF ReasonsTrue, CurrentThread, BlockingPromiseOwned, Parked
    <3> QED  BY <1>6, <3>1, <3>2, <3>3
  <2> QED  BY <1>1, <1>3, <2>1, <2>4, <2>5
<1>7. CASE ThrowSync
  <2>1. /\ control = "wasm" /\ control' = "loop" /\ running' = NoThread
        /\ immediates' = Append(immediates, running)
        /\ UNCHANGED <<lastTid, whatNext, whyBlocked, rRet, blockingPromise, sleeping,
                       awaiting>>
    BY <1>7 DEF ThrowSync
  <2>2. running \in Tid /\ ~Ended(running) /\ running \notin B /\ blockingPromise = NoThread
    BY <1>1, <2>1 DEF ReasonsTrue, CurrentThread, BlockingPromiseOwned
  <2>3. running \notin Queued \cup sleeping \cup Awaiting /\ Live(running)
    BY <1>1, <2>2 DEF AtMostOneWay
  <2>4. Queued' = Queued \cup {running} /\ IsInjective(immediates') /\ Awaiting' = Awaiting
    BY <1>1, <2>1, <2>2, <2>3, AppendRange DEF Queued, Awaiting
  <2>5. \A t \in Tid : AtMostOneWay(t, B)' /\ ((Live(t) => HasAWay(t, B)) => (Live(t) => HasAWay(t, B))')
    BY <1>1, <2>1, <2>2, <2>3, <2>4 DEF AtMostOneWay, Tid
  <2>6. ReasonsTrue(B)' /\ BlockingPromiseOwned'
    BY <2>1, <2>2 DEF ReasonsTrue, CurrentThread, BlockingPromiseOwned
  <2> QED  BY <1>3, <2>4, <2>5, <2>6
<1>8. ASSUME NEW w \in Tid, TimerFires(w) \/ PromiseResolves(w) \/ PromiseRejects(w)
      PROVE  Goal
  <2>1. /\ control = "loop" /\ immediates' = Append(immediates, w)
        /\ UNCHANGED <<lastTid, whatNext, whyBlocked, control, running, rRet,
                       blockingPromise>>
        /\ \/ /\ w \in sleeping /\ sleeping' = sleeping \ {w}
              /\ awaiting' = awaiting
           \/ /\ w \in Awaiting /\ awaiting' = [awaiting EXCEPT ![w] = NoThread]
              /\ sleeping' = sleeping
    BY <1>8 DEF TimerFires, PromiseResolves, PromiseRejects, Settled, capVars, tsoVars
  <2>2. /\ Live(w) /\ w \notin Queued /\ w \notin B /\ w # running
        /\ ~(w \in sleeping /\ w \in Awaiting)
    BY <1>1, <2>1 DEF AtMostOneWay
  <2>3. Queued' = Queued \cup {w} /\ IsInjective(immediates')
    BY <1>1, <2>1, <2>2, AppendRange DEF Queued
  <2>4. \A t \in Tid : t \in sleeping' \cup Awaiting' <=> t \in sleeping \cup Awaiting /\ t # w
    BY <2>1, <2>2 DEF Awaiting
  <2>5. sleeping' \subseteq sleeping /\ Awaiting' \subseteq Awaiting
    BY <2>1 DEF Awaiting
  <2>6. \A t \in Tid : AtMostOneWay(t, B)' /\ ((Live(t) => HasAWay(t, B)) => (Live(t) => HasAWay(t, B))')
    BY <1>1, <2>1, <2>2, <2>3, <2>4, <2>5 DEF AtMostOneWay
  <2>7. ReasonsTrue(B)' /\ BlockingPromiseOwned'
    BY <1>1, <2>1 DEF ReasonsTrue, CurrentThread, BlockingPromiseOwned
  <2> QED  BY <1>3, <2>3, <2>6, <2>7
<1> QED
  BY <1>4, <1>5, <1>6, <1>7, <1>8 DEF LoopNext, SubmitCmdCreateThread, Fork

\* returnedFromTSO gives the thread exactly one way to run again, or records
\* its end.
LEMMA ReturnedWays ==
  ASSUME NEW objects, SchedTypeOK(objects), NEW B, WaysInv(B), ReturnedFromTSO
  PROVE  WaysInv(B)' /\ (NobodyLost(B) => NobodyLost(B)')
<1> USE DEF SchedTypeOK, Live, Ended, Created, HasAWay
<1>1. /\ ReasonsTrue(B) /\ BlockingPromiseOwned /\ IsInjective(immediates)
      /\ \A t \in Tid : AtMostOneWay(t, B)
      /\ CurrentThread
  BY DEF WaysInv, ReasonsTrue
<1>2. /\ control = "returned" /\ control' = "loop" /\ running' = NoThread
      /\ UNCHANGED <<lastTid, whatNext, whyBlocked, rRet>>
  BY DEF ReturnedFromTSO, RequeueReturned, AwaitReturned, SleepReturned, ParkReturned,
         EndReturned, BackToLoop, tsoVars
<1>3. /\ running \in Tid /\ NoThread \notin Tid /\ running \in Created
      /\ running \notin Queued \cup sleeping \cup Awaiting
  BY <1>1, <1>2 DEF AtMostOneWay, CurrentThread, Tid
<1>4. SUFFICES /\ blockingPromise' = NoThread
               /\ IsInjective(immediates')
               /\ \A t \in Tid : AtMostOneWay(t, B)'
               /\ NobodyLost(B) => NobodyLost(B)'
  BY <1>2 DEF WaysInv, ReasonsTrue, CurrentThread, BlockingPromiseOwned
<1>5. CASE RequeueReturned
  <2>1. /\ immediates' = Append(immediates, running)
        /\ UNCHANGED <<sleeping, awaiting, blockingPromise>>
        /\ \/ rRet \in Requeued
           \/ rRet = "ThreadFinished" /\ whatNext[running] = "RunGHC"
    BY <1>5 DEF RequeueReturned
  <2>2. ~Ended(running) /\ running \notin B /\ blockingPromise = NoThread
    BY <1>1, <1>2, <2>1 DEF ReasonsTrue, BlockingPromiseOwned, Requeued
  <2>3. Queued' = Queued \cup {running} /\ IsInjective(immediates') /\ Awaiting' = Awaiting
    BY <1>1, <1>3, <2>1, AppendRange DEF Queued, Awaiting
  <2> QED  BY <1>1, <1>2, <1>3, <2>1, <2>2, <2>3 DEF AtMostOneWay, NobodyLost
<1>6. CASE AwaitReturned
  <2>1. /\ rRet = "ThreadBlocked" /\ whyBlocked[running] = "OnCCall"
        /\ awaiting' = [awaiting EXCEPT ![running] = blockingPromise]
        /\ blockingPromise' = NoThread
        /\ UNCHANGED <<sleeping, immediates>>
    BY <1>6 DEF AwaitReturned
  <2>2. ~Ended(running) /\ running \notin B /\ blockingPromise = running
    BY <1>1, <1>2, <2>1 DEF ReasonsTrue, BlockingPromiseOwned, Parked
  <2>3. /\ Queued' = Queued
        /\ \A t \in Tid : t \in Awaiting' <=> t \in Awaiting \/ t = running
    BY <1>3, <2>1, <2>2 DEF Queued, Awaiting
  <2> QED  BY <1>1, <1>2, <1>3, <2>1, <2>2, <2>3 DEF AtMostOneWay, NobodyLost
<1>7. CASE SleepReturned
  <2>1. /\ rRet = "ThreadBlocked" /\ whyBlocked[running] = "OnDelay"
        /\ sleeping' = sleeping \cup {running}
        /\ UNCHANGED <<immediates, awaiting, blockingPromise>>
    BY <1>7 DEF SleepReturned
  <2>2. ~Ended(running) /\ running \notin B /\ blockingPromise = NoThread
    BY <1>1, <1>2, <2>1 DEF ReasonsTrue, BlockingPromiseOwned, Parked
  <2>3. Queued' = Queued /\ Awaiting' = Awaiting
    BY <2>1 DEF Queued, Awaiting
  <2> QED  BY <1>1, <1>2, <1>3, <2>1, <2>2, <2>3 DEF AtMostOneWay, NobodyLost
<1>8. CASE ParkReturned \/ EndReturned
  <2>1. /\ \/ rRet = "ThreadBlocked" /\ whyBlocked[running] \in Parked
           \/ rRet = "ThreadFinished" /\ Ended(running)
        /\ UNCHANGED <<immediates, sleeping, awaiting, blockingPromise>>
    BY <1>8 DEF ParkReturned, EndReturned, loopVars
  <2>2. running \in B <=> ~Ended(running)
    BY <1>1, <1>2, <2>1 DEF ReasonsTrue
  <2>3. blockingPromise = NoThread
    BY <1>1, <1>2, <2>1 DEF BlockingPromiseOwned, Parked
  <2>4. Queued' = Queued /\ Awaiting' = Awaiting
    BY <2>1 DEF Queued, Awaiting
  <2> QED  BY <1>1, <1>2, <1>3, <2>1, <2>2, <2>3, <2>4 DEF AtMostOneWay, NobodyLost
<1> QED  BY <1>5, <1>6, <1>7, <1>8 DEF ReturnedFromTSO

\* The scheduler leaves the stack and the block reasons of a waiting thread
\* alone, and ends no thread.
LEMMA SchedKeeps ==
  ASSUME NEW objects, SchedTypeOK(objects), NEW B, WaysInv(B),
         LoopNext \/ ReturnedFromTSO
  PROVE  /\ \A t \in Tid : Ended(t)' => Ended(t)
         /\ \A t \in Tid : t \in B =>
              /\ frame'[t] = frame[t]
              /\ whyBlocked'[t] = whyBlocked[t]
              /\ blockInfo'[t] = blockInfo[t]
<1> USE DEF SchedTypeOK, Executing, Ended
<1>1. /\ \A t \in Tid : AtMostOneWay(t, B)
      /\ ReasonsTrue(B) /\ CurrentThread
  BY DEF WaysInv, ReasonsTrue
<1>2. control = "wasm" => running \in Tid /\ running \notin B
  BY <1>1 DEF ReasonsTrue, CurrentThread
<1>3. CASE NewThread
  <2>1. lastTid + 1 \notin Created /\ lastTid + 1 \in Tid
    BY <1>3, SchedulerAssumption DEF NewThread, Tid, Created
  <2>2. lastTid + 1 \notin B
    BY <1>1, <2>1 DEF AtMostOneWay, HasAWay, Live
  <2> QED  BY <1>3, <2>1, <2>2 DEF NewThread
<1>4. CASE Tick
  <2>1. Head(immediates) \in Queued /\ Head(immediates) \in Tid
    BY <1>1, <1>4, TailRange, HeadTailProperties DEF Tick, Queued, WaysInv
  <2>2. Head(immediates) \notin B
    BY <1>1, <2>1 DEF AtMostOneWay
  <2> QED  BY <1>4, <2>1, <2>2 DEF Tick
<1>5. CASE StopAndRequeue \/ Delay \/ SafeCall \/ ThrowSync
  BY <1>2, <1>5 DEF StopAndRequeue, Delay, SafeCall, ThrowSync
<1>6. CASE \E t \in Tid : TimerFires(t) \/ PromiseResolves(t) \/ PromiseRejects(t)
  BY <1>6 DEF TimerFires, PromiseResolves, PromiseRejects, Settled, tsoVars
<1>7. CASE ReturnedFromTSO
  BY <1>7 DEF ReturnedFromTSO, RequeueReturned, AwaitReturned, SleepReturned,
              ParkReturned, EndReturned, BackToLoop, tsoVars
<1> QED
  BY <1>3, <1>4, <1>5, <1>6, <1>7 DEF LoopNext, SubmitCmdCreateThread, Fork

-----------------------------------------------------------------------------
(***************************************************************************)
(* What operations of the running thread do to queues of objects: a step   *)
(* wakes threads, or it is the running thread that goes into a queue.      *)
(***************************************************************************)

LEMMA WakeWays ==
  ASSUME NEW objects, SchedTypeOK(objects), NEW B, WaysInv(B),
         control = "wasm",
         UNCHANGED <<lastTid, running, blockingPromise, sleeping, awaiting>>,
         \/ UNCHANGED <<control, whatNext>>
         \/ /\ control' = "returned" /\ rRet' = "ThreadFinished"
            /\ \E w \in {"Killed", "Complete"} : whatNext' = [whatNext EXCEPT ![running] = w],
         NEW woken \in Seq(Tid), IsInjective(woken), Range(woken) \subseteq B,
         immediates' = immediates \o woken,
         NEW C, C = B \ Range(woken)
  PROVE  WaysInv(C)' /\ (NobodyLost(B) => NobodyLost(C)')
<1> USE DEF SchedTypeOK, Live, Ended, Created, HasAWay
<1>1. /\ ReasonsTrue(B) /\ BlockingPromiseOwned /\ IsInjective(immediates)
      /\ \A t \in Tid : AtMostOneWay(t, B)
      /\ CurrentThread
  BY DEF WaysInv, ReasonsTrue
<1>2. running \in Tid /\ ~Ended(running) /\ running \notin B /\ blockingPromise = NoThread
  BY <1>1 DEF ReasonsTrue, CurrentThread, BlockingPromiseOwned
<1>3. /\ Range(woken) \subseteq Tid
      /\ \A t \in Range(woken) : t \notin Queued \cup sleeping \cup Awaiting
  BY <1>1, RangeOfSeq DEF AtMostOneWay
<1>4. Queued' = Queued \cup Range(woken) /\ Awaiting' = Awaiting
  BY RangeConcatenation DEF Queued, Awaiting
<1>5. IsInjective(immediates')
  BY <1>1, <1>3, ConcatInjective DEF Queued
<1>6. \A t \in Tid \ {running} : Ended(t)' <=> Ended(t)
  BY <1>2
<1>7. \A t : t \in C <=> t \in B /\ t \notin Range(woken)
  OBVIOUS
<1>8. (\A t \in Tid : AtMostOneWay(t, C)') /\ (NobodyLost(B) => NobodyLost(C)')
  BY <1>1, <1>2, <1>3, <1>4, <1>6, <1>7 DEF AtMostOneWay, NobodyLost
<1>9. ReasonsTrue(C)' /\ BlockingPromiseOwned'
  BY <1>1, <1>2, <1>7 DEF ReasonsTrue, CurrentThread, BlockingPromiseOwned
<1> QED  BY <1>5, <1>8, <1>9 DEF WaysInv

LEMMA BlockWays ==
  ASSUME NEW objects, SchedTypeOK(objects), NEW B, WaysInv(B),
         control = "wasm", ReturnToSched("ThreadBlocked"),
         NEW why \in Parked,
         whyBlocked' = [whyBlocked EXCEPT ![running] = why],
         whatNext' = [whatNext EXCEPT ![running] = "RunGHC"],
         UNCHANGED <<lastTid, blockingPromise, loopVars>>,
         NEW C, C = B \cup {running}
  PROVE  WaysInv(C)' /\ (NobodyLost(B) => NobodyLost(C)')
<1> USE DEF SchedTypeOK, Live, Ended, Created, HasAWay
<1>1. /\ ReasonsTrue(B) /\ BlockingPromiseOwned /\ IsInjective(immediates)
      /\ \A t \in Tid : AtMostOneWay(t, B)
      /\ CurrentThread
  BY DEF WaysInv, ReasonsTrue
<1>2. /\ control' = "returned" /\ rRet' = "ThreadBlocked"
      /\ UNCHANGED <<running, immediates, sleeping, awaiting>>
  BY DEF ReturnToSched, loopVars
<1>3. running \in Tid /\ ~Ended(running) /\ running \notin B /\ blockingPromise = NoThread
  BY <1>1 DEF ReasonsTrue, CurrentThread, BlockingPromiseOwned
<1>4. /\ Queued' = Queued /\ Awaiting' = Awaiting
      /\ \A t \in Tid : Ended(t)' <=> Ended(t)
  BY <1>2, <1>3 DEF Queued, Awaiting
<1>5. (\A t \in Tid : AtMostOneWay(t, C)') /\ (NobodyLost(B) => NobodyLost(C)')
  BY <1>1, <1>2, <1>3, <1>4 DEF AtMostOneWay, NobodyLost
<1>6. ReasonsTrue(C)' /\ BlockingPromiseOwned'
  BY <1>1, <1>2, <1>3, <1>4 DEF ReasonsTrue, CurrentThread, BlockingPromiseOwned, Parked
<1> QED  BY <1>2, <1>1, <1>5, <1>6 DEF WaysInv
=============================================================================
