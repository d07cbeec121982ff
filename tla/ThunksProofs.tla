----------------------------- MODULE ThunksProofs -----------------------------
(***************************************************************************)
(* Proofs about Thunks, for every number of threads and thunks.            *)
(***************************************************************************)
EXTENDS Thunks, SchedulerProofs

USE DEF NoThread

-----------------------------------------------------------------------------
(***************************************************************************)
(* The waiters that an update wakes are those of the thunks it updates.    *)
(***************************************************************************)

\* What the local function of FlattenSeq is for the first k sequences of q.
FlattenedUpTo(f, q, k) ==
  f = [i \in 1..k |-> IF i = 1 THEN q[i] ELSE f[i - 1] \o q[i]]

LEMMA FlattenedElements ==
  ASSUME NEW f, NEW q, NEW k, FlattenedUpTo(f, q, k)
  PROVE  \A i \in 1..k : f[i] = IF i = 1 THEN q[i] ELSE f[i - 1] \o q[i]
<1>1. f = [i \in 1..k |-> IF i = 1 THEN q[i] ELSE f[i - 1] \o q[i]]
  BY DEF FlattenedUpTo
<1> DEFINE value(i) == IF i = 1 THEN q[i] ELSE f[i - 1] \o q[i]
<1>2. f = [i \in 1..k |-> value(i)]
  BY <1>1
<1> HIDE DEF value
<1>3. \A i \in 1..k : f[i] = value(i)
  BY <1>2
<1> QED  BY <1>3 DEF value

LEMMA FlattenDefined ==
  ASSUME NEW q, NEW n \in Nat
  PROVE  \E f : FlattenedUpTo(f, q, n)
<1> DEFINE T == {k \in Nat : ~ \E f : FlattenedUpTo(f, q, k)}
<1>1. SUFFICES ASSUME T # {} PROVE FALSE
  OBVIOUS
<1>2. PICK k \in T : \A j \in T : ~(j < k)
  <2> HIDE DEF T
  <2>1. T \in SUBSET Nat  BY DEF T
  <2> QED  BY <1>1, <2>1, LeastNumber
<1>3. k \in Nat /\ ~ \E f : FlattenedUpTo(f, q, k)
  OBVIOUS
<1>4. k # 0
  <2>1. FlattenedUpTo([i \in 1..0 |-> 0], q, 0)
    BY DEF FlattenedUpTo
  <2> QED  BY <1>3, <2>1
<1>5. k - 1 \in Nat /\ k - 1 \notin T
  BY <1>2, <1>3, <1>4
<1>6. PICK f : FlattenedUpTo(f, q, k - 1)
  BY <1>5
<1> DEFINE g == [i \in 1..k |-> IF i = 1 THEN q[1] ELSE f[i - 1] \o q[i]]
<1>7. \A i \in 1..(k - 1) : f[i] = g[i]
  <2>1. \A i \in 1..(k - 1) : i \in 1..k
    BY <1>3
  <2>2. \A i \in 1..(k - 1) : f[i] = IF i = 1 THEN q[i] ELSE f[i - 1] \o q[i]
    BY <1>6, FlattenedElements
  <2> QED  BY <2>1, <2>2
<1>8. \A i \in 2..k : i - 1 \in 1..(k - 1)
  BY <1>3
<1>9. g = [i \in 1..k |-> IF i = 1 THEN q[i] ELSE g[i - 1] \o q[i]]
  <2>1. \A i \in 1..k : i # 1 => i \in 2..k
    BY <1>3
  <2>2. \A i \in 1..k : g[i] = IF i = 1 THEN q[i] ELSE g[i - 1] \o q[i]
    BY <1>7, <1>8, <2>1
  <2>3. g = [i \in 1..k |-> g[i]]
    OBVIOUS
  <2> HIDE DEF g
  <2> QED  BY <2>2, <2>3
<1> QED  BY <1>3, <1>9 DEF FlattenedUpTo

\* The elements of a sequence of sequences, strung together: each of them once
\* if that is so in each sequence and no two sequences have one in common.
LEMMA FlattenElements ==
  ASSUME NEW S, NEW q \in Seq(Seq(S)),
         \A i \in 1..Len(q) : IsInjective(q[i]),
         \A i, j \in 1..Len(q) : i # j => Range(q[i]) \cap Range(q[j]) = {}
  PROVE  LET e == FlattenSeq(q)
         IN  /\ e \in Seq(S)
             /\ IsInjective(e)
             /\ Range(e) = UNION {Range(q[i]) : i \in 1..Len(q)}
<1> DEFINE n == Len(q)
           f == CHOOSE h : FlattenedUpTo(h, q, n)
           Union(k) == UNION {Range(q[i]) : i \in 1..k}
           Good(k) == f[k] \in Seq(S) /\ IsInjective(f[k]) /\ Range(f[k]) = Union(k)
           T == {k \in Nat : k \in 1..n /\ ~Good(k)}
<1>1. n \in Nat /\ \A i \in 1..n : q[i] \in Seq(S)
  BY LenProperties, ElementOfSeq
<1>2. FlattenedUpTo(f, q, n)
  <2> HIDE DEF n
  <2> QED  BY <1>1, FlattenDefined
<1>3. /\ n >= 1 => f[1] = q[1]
      /\ \A i \in 2..n : f[i] = f[i - 1] \o q[i]
  <2> HIDE DEF f, n
  <2>1. \A i \in 1..n : f[i] = IF i = 1 THEN q[i] ELSE f[i - 1] \o q[i]
    BY <1>2, FlattenedElements
  <2>2. n >= 1 => 1 \in 1..n
    BY <1>1
  <2>3. \A i \in 2..n : i \in 1..n /\ i # 1
    BY <1>1
  <2> QED  BY <2>1, <2>2, <2>3
<1>4. FlattenSeq(q) = IF n = 0 THEN q ELSE f[n]
  BY DEF FlattenSeq, FlattenedUpTo
<1> HIDE DEF f
<1>5. T = {}
  <2> SUFFICES ASSUME T # {} PROVE FALSE
    OBVIOUS
  <2>1. PICK k \in T : \A j \in T : ~(j < k)
    <3> HIDE DEF T
    <3>1. T \in SUBSET Nat  BY DEF T
    <3> QED  BY <3>1, LeastNumber
  <2>2. k \in 1..n /\ k \in Nat /\ ~Good(k)
    BY <2>1
  <2> HIDE DEF Union
  <2>3. CASE k = 1
    <3>1. Union(1) = Range(q[1])
      BY DEF Union
    <3> QED  BY <1>1, <1>3, <2>2, <2>3, <3>1
  <2>4. CASE k # 1
    <3>1. k - 1 \in 1..n /\ k - 1 \in Nat /\ k - 1 < k /\ k \in 2..n
      BY <1>1, <2>2, <2>4
    <3>2. Good(k - 1)
      BY <2>1, <3>1
    <3>3. Union(k) = Union(k - 1) \cup Range(q[k])
      <4>1. \A i : i \in 1..k <=> i \in 1..(k - 1) \/ i = k
        BY <2>2
      <4> QED  BY <4>1 DEF Union
    <3>4. Union(k - 1) \cap Range(q[k]) = {}
      <4>1. \A i \in 1..(k - 1) : i \in 1..n /\ i # k
        BY <1>1, <2>2
      <4> QED  BY <2>2, <4>1 DEF Union
    <3>5. f[k] = f[k - 1] \o q[k] /\ q[k] \in Seq(S)
      BY <1>1, <1>3, <2>2, <3>1
    <3>6. IsInjective(q[k])
      BY <2>2
    <3> HIDE DEF n, T
    <3>7. f[k] \in Seq(S)
      BY <3>2, <3>5, ConcatProperties
    <3>8. IsInjective(f[k])
      BY <3>2, <3>4, <3>5, <3>6, ConcatInjective
    <3>9. Range(f[k]) = Union(k)
      BY <3>2, <3>3, <3>5, RangeConcatenation
    <3> QED  BY <2>2, <3>7, <3>8, <3>9
  <2> QED  BY <2>3, <2>4
<1>6. CASE n = 0
  <2>1. q = <<>> /\ 1..n = {}
    BY <1>6, EmptySeq
  <2>2. <<>> \in Seq(S) /\ IsInjective(<<>>) /\ Range(<<>>) = {}
    BY DEF Range, IsInjective
  <2> QED  BY <1>4, <1>6, <2>1, <2>2
<1>7. CASE n # 0
  <2>1. n \in 1..n /\ n \in Nat
    BY <1>1, <1>7
  <2>2. Good(n)
    BY <1>5, <2>1
  <2> HIDE DEF n
  <2>3. FlattenSeq(q) = f[n]
    BY <1>4, <1>7
  <2> QED  BY <2>2, <2>3 DEF n
<1> QED  BY <1>6, <1>7

-----------------------------------------------------------------------------
(***************************************************************************)
(* The inductive invariant.  None of the properties of Thunks is inductive *)
(* alone: a step finds waiters in the queues of the thunks whose update    *)
(* frames are on the running thread's stack, wakes them, and relies on     *)
(* their having no other way to run.                                       *)
(***************************************************************************)

BlockedThreads == {t \in Tid : Waiting(t)}

\* Only a collection that throws, which Yolo rules out, may lose a thread.
Ways == \A B : B = BlockedThreads => WaysInv(B) /\ (Yolo => NobodyLost(B))

MessagesApart ==
  \A x \in Closures :
    /\ IsInjective(msgs[x])
    /\ \A y \in Closures \ {x} : Waiters(x) \cap Waiters(y) = {}

\* A black hole has an owner, on whose stack its only update frame is; nothing
\* else has one, or waiters; who has ended has no update frame left.
Ownership ==
  /\ \A x \in Closures :
       IF state[x] = "eval" THEN owner[x] \in Tid /\ x \in Range(updates[owner[x]])
       ELSE owner[x] = NoThread /\ msgs[x] = <<>>
  /\ \A t \in Tid :
       /\ IsInjective(updates[t])
       /\ \A x \in Range(updates[t]) : state[x] = "eval" /\ owner[x] = t
       /\ Ended(t) => updates[t] = <<>>

WaitersEntered ==
  \A x \in Closures : \A t \in Waiters(x) :
    frame[t] = "enter" /\ blockInfo[t] = x /\ whyBlocked[t] = "OnBlackHole"

Inv ==
  /\ TypeOK
  /\ Ways
  /\ MessagesApart
  /\ Ownership
  /\ WaitersEntered

\* What the invariant says of the threads that wait and of the one that runs.
LEMMA Blocked ==
  ASSUME Inv
  PROVE  /\ SchedTypeOK(Closures)
         /\ WaysInv(BlockedThreads) /\ (Yolo => NobodyLost(BlockedThreads))
         /\ CurrentThread
         /\ \A x \in Closures : Waiters(x) \subseteq BlockedThreads
         /\ control = "wasm" => running \in Tid /\ running \notin BlockedThreads /\ ~Ended(running)
<1>1. SchedTypeOK(Closures) /\ msgs \in [Closures -> Seq(Tid)]
  BY DEF Inv, TypeOK
<1>2. \A x \in Closures : Waiters(x) \subseteq BlockedThreads
  BY <1>1, RangeOfSeq DEF BlockedThreads, Waiting, Waiters
<1>3. WaysInv(BlockedThreads) /\ (Yolo => NobodyLost(BlockedThreads))
  <2>1. PICK B : B = BlockedThreads
    OBVIOUS
  <2> QED  BY <2>1 DEF Inv, Ways
<1>4. ReasonsTrue(BlockedThreads)
  BY <1>3 DEF WaysInv
<1> QED
  BY <1>1, <1>2, <1>3, <1>4 DEF ReasonsTrue, CurrentThread, SchedTypeOK

LEMMA InitInv == Init => Inv
<1> SUFFICES ASSUME Init PROVE Inv
  OBVIOUS
<1>1. Range(<<>>) = {} /\ IsInjective(<<>>)
  BY DEF Range, IsInjective
<1>2. TypeOK
  <2>1. SchedTypeOK(Closures)
    BY EmptySeq, SchedulerAssumption
    DEF Init, SchedInit, SchedTypeOK, WhatNext, WhyBlocked, Frame, Reason, Tid
  <2> QED  BY <2>1, EmptySeq DEF Init, TypeOK
<1>3. BlockedThreads = {} /\ MessagesApart /\ WaitersEntered
  BY <1>1 DEF Init, BlockedThreads, Waiting, Waiters, MessagesApart, WaitersEntered
<1>4. Ways
  BY <1>3, InitWays DEF Init, Ways
<1>5. Ownership
  BY <1>1 DEF Init, SchedInit, Ownership, Ended
<1> QED  BY <1>2, <1>3, <1>4, <1>5 DEF Inv

-----------------------------------------------------------------------------
(***************************************************************************)
(* The scheduler, and collections that throw.                              *)
(***************************************************************************)

\* Steps that leave the thunks, and the stacks of the threads that wait for
\* them, alone.
LEMMA ThunksKept ==
  ASSUME Inv, UNCHANGED <<state, owner, msgs, updates>>,
         \A t \in Tid : Ended(t)' => Ended(t) \/ updates[t] = <<>>,
         \A t \in Tid : t \in BlockedThreads =>
           frame'[t] = frame[t] /\ whyBlocked'[t] = whyBlocked[t] /\ blockInfo'[t] = blockInfo[t]
  PROVE  /\ BlockedThreads' = BlockedThreads
         /\ MessagesApart' /\ Ownership' /\ WaitersEntered'
<1>1. BlockedThreads' = BlockedThreads
  BY DEF BlockedThreads, Waiting, Waiters
<1>2. MessagesApart'
  BY DEF Inv, MessagesApart, Waiters
<1>3. Ownership'
  BY DEF Inv, Ownership
<1>4. WaitersEntered'
  <2>1. \A x \in Closures : \A t \in Waiters(x) : t \in Tid /\ t \in BlockedThreads
    BY Blocked DEF BlockedThreads
  <2> QED  BY <2>1 DEF Inv, WaitersEntered, Waiters
<1> QED  BY <1>1, <1>2, <1>3, <1>4

LEMMA SchedStepInv ==
  ASSUME Inv, LoopNext \/ ReturnedFromTSO, UNCHANGED <<state, owner, msgs, updates>>,
         gcGuard' \in BOOLEAN
  PROVE  Inv'
<1>1. PICK B : B = BlockedThreads
  OBVIOUS
<1>2. SchedTypeOK(Closures) /\ WaysInv(B) /\ (Yolo => NobodyLost(B)) /\ CurrentThread
  BY <1>1, Blocked
<1>3. WaysInv(B)' /\ (NobodyLost(B) => NobodyLost(B)')
  BY <1>2, LoopStepWays, ReturnedWays
<1>4. SchedTypeOK(Closures)'
  BY <1>2, LoopStepType, ReturnedType
<1>5. BlockedThreads' = BlockedThreads /\ MessagesApart' /\ Ownership' /\ WaitersEntered'
  BY <1>1, <1>2, SchedKeeps, ThunksKept
<1>6. TypeOK'
  BY <1>4 DEF Inv, TypeOK
<1>7. Ways'
  BY <1>1, <1>2, <1>3, <1>5 DEF Ways
<1> QED  BY <1>5, <1>6, <1>7 DEF Inv

LEMMA CollectionThrowsInv ==
  ASSUME Inv, CollectionThrows
  PROVE  Inv'
<1>1. PICK B : B = BlockedThreads
  OBVIOUS
<1>2. SchedTypeOK(Closures) /\ WaysInv(B) /\ CurrentThread
  BY <1>1, Blocked
<1>3. /\ ~Yolo /\ control = "returned" /\ control' = "loop" /\ running' = NoThread
      /\ rRet = "HeapOverflow" /\ gcGuard' = TRUE
      /\ UNCHANGED <<lastTid, tsoVars, infoVars, rRet, blockingPromise, loopVars,
                     state, owner, msgs, updates>>
  BY DEF CollectionThrows, CannotCollect, BackToLoop
<1>4. SchedTypeOK(Closures)' /\ TypeOK'
  <2>1. SchedTypeOK(Closures)'
    BY <1>2, <1>3 DEF SchedTypeOK, tsoVars, infoVars, loopVars
  <2> QED  BY <1>3, <2>1 DEF Inv, TypeOK
<1>5. BlockedThreads' = BlockedThreads /\ MessagesApart' /\ Ownership' /\ WaitersEntered'
  BY <1>3, ThunksKept DEF tsoVars, Ended
<1>6. WaysInv(B)'
  <2>1. /\ ReasonsTrue(B) /\ BlockingPromiseOwned /\ IsInjective(immediates)
        /\ \A t \in Tid : AtMostOneWay(t, B)
    BY <1>2 DEF WaysInv
  <2>2. running \in Tid /\ running \notin B /\ ~Ended(running) /\ blockingPromise = NoThread
    BY <1>2, <1>3, <2>1 DEF ReasonsTrue, CurrentThread, SchedTypeOK, BlockingPromiseOwned
  <2>3. Queued' = Queued /\ Awaiting' = Awaiting /\ NoThread \notin Tid
    BY <1>3 DEF Queued, Awaiting, loopVars, Tid
  <2>4. \A t \in Tid : AtMostOneWay(t, B)'
    BY <1>3, <2>1, <2>2, <2>3
    DEF AtMostOneWay, HasAWay, Live, Created, Ended, tsoVars, loopVars
  <2> QED  BY <1>3, <2>1, <2>2, <2>4
           DEF WaysInv, ReasonsTrue, CurrentThread, BlockingPromiseOwned, loopVars
<1>7. Ways'
  BY <1>1, <1>3, <1>5, <1>6 DEF Ways
<1> QED  BY <1>4, <1>5, <1>7 DEF Inv

-----------------------------------------------------------------------------
(***************************************************************************)
(* Entering a thunk.                                                       *)
(***************************************************************************)

LEMMA EnterThunkInv ==
  ASSUME Inv, NEW x \in Closures, EnterThunk(x)
  PROVE  Inv'
<1>1. PICK B : B = BlockedThreads
  OBVIOUS
<1>2. /\ SchedTypeOK(Closures) /\ WaysInv(B) /\ (Yolo => NobodyLost(B)) /\ CurrentThread
      /\ running \in Tid /\ running \notin B /\ ~Ended(running)
      /\ NoThread \notin Tid
      /\ \A y \in Closures : Waiters(y) \subseteq B
  BY <1>1, Blocked DEF EnterThunk, Entering, Tid
<1>3. /\ control = "wasm" /\ state[x] = "thunk"
      /\ state' = [state EXCEPT ![x] = "eval"]
      /\ owner' = [owner EXCEPT ![x] = running]
      /\ frame' = [frame EXCEPT ![running] = "run"]
      /\ updates' = [updates EXCEPT ![running] = <<x>> \o @]
      /\ UNCHANGED <<lastTid, whatNext, whyBlocked, blockInfo, infoVars, loopVars,
                     capVars, msgs, gcGuard>>
  BY DEF EnterThunk, Entering
<1>4. /\ TypeOK /\ MessagesApart /\ Ownership /\ WaitersEntered
      /\ updates[running] \in Seq(Closures) /\ immediates \in Seq(Tid)
  BY <1>2 DEF Inv, TypeOK, SchedTypeOK
<1>5. PICK u : u = <<x>> \o updates[running]
  OBVIOUS
<1>6. /\ u \in Seq(Closures) /\ Range(u) = Range(updates[running]) \cup {x}
      /\ x \notin Range(updates[running]) => IsInjective(u)
  BY <1>2, <1>4, <1>5, PushRange DEF Ownership
<1>7. \A t \in Tid : x \notin Range(updates[t])
  BY <1>3, <1>4 DEF Ownership
<1>8. updates' = [updates EXCEPT ![running] = u]
  BY <1>3, <1>5
<1>9. TypeOK'
  <2>1. SchedTypeOK(Closures)'
    BY <1>2, <1>3 DEF SchedTypeOK, Frame, infoVars, loopVars, capVars
  <2> QED  BY <1>2, <1>3, <1>4, <1>6, <1>8, <2>1 DEF TypeOK
<1>10. BlockedThreads' = B /\ MessagesApart'
  BY <1>1, <1>3, <1>4 DEF BlockedThreads, Waiting, Waiters, MessagesApart
<1>11. Ways'
  <2>1. <<>> \in Seq(Tid) /\ IsInjective(<<>>) /\ Range(<<>>) = {}
    BY DEF Range, IsInjective
  <2>2. immediates' = immediates \o <<>>
    BY <1>3, <1>4, ConcatEmptySeq DEF loopVars
  <2>3. B = B \ Range(<<>>) /\ Range(<<>>) \subseteq B
    BY <2>1
  <2>4. UNCHANGED <<lastTid, running, blockingPromise, sleeping, awaiting, control, whatNext>>
    BY <1>3 DEF loopVars, capVars
  <2>5. WaysInv(B)' /\ (NobodyLost(B) => NobodyLost(B)')
    BY <1>2, <1>3, <2>1, <2>2, <2>3, <2>4, WakeWays
  <2> QED  BY <1>2, <1>10, <2>5 DEF Ways
<1>12. Ownership'
  <2>1. \A y \in Closures :
          (IF state[y] = "eval" THEN owner[y] \in Tid /\ y \in Range(updates[owner[y]])
           ELSE owner[y] = NoThread /\ msgs[y] = <<>>)'
    BY ZenonT(60), <1>2, <1>3, <1>4, <1>6, <1>8 DEF Ownership, TypeOK
  <2>2. \A t \in Tid : /\ IsInjective(updates'[t])
                       /\ \A y \in Range(updates'[t]) : state'[y] = "eval" /\ owner'[y] = t
    <3> SUFFICES ASSUME NEW t \in Tid
                 PROVE  /\ IsInjective(updates'[t])
                        /\ \A y \in Range(updates'[t]) : state'[y] = "eval" /\ owner'[y] = t
      OBVIOUS
    <3>1. \A y \in Range(updates[t]) : y \in Closures /\ y # x /\ state[y] = "eval" /\ owner[y] = t
      BY <1>4, <1>7, RangeOfSeq DEF Ownership, TypeOK
    <3>2. CASE t = running
      <4>1. updates'[t] = u /\ IsInjective(u)
        BY <1>2, <1>4, <1>6, <1>7, <1>8, <3>2 DEF TypeOK
      <4>2. state'[x] = "eval" /\ owner'[x] = running
        BY <1>3, <1>4 DEF TypeOK
      <4>3. \A y \in Range(updates[t]) : state'[y] = "eval" /\ owner'[y] = running
        BY <1>3, <1>4, <3>1, <3>2 DEF TypeOK
      <4> QED  BY <1>6, <3>2, <4>1, <4>2, <4>3
    <3>3. CASE t # running
      BY <1>2, <1>3, <1>4, <1>8, <3>1, <3>3 DEF Ownership, TypeOK
    <3> QED  BY <3>2, <3>3
  <2>3. \A t \in Tid : (Ended(t) => updates[t] = <<>>)'
    BY <1>2, <1>3, <1>4, <1>8 DEF Ownership, Ended, TypeOK
  <2> QED  BY <2>1, <2>2, <2>3 DEF Ownership
<1>13. WaitersEntered'
  BY <1>2, <1>3, <1>4 DEF WaitersEntered, Waiters, TypeOK, SchedTypeOK
<1> QED  BY <1>9, <1>10, <1>11, <1>12, <1>13 DEF Inv

LEMMA EnterBlackHoleInv ==
  ASSUME Inv, NEW x \in Closures, EnterBlackHole(x)
  PROVE  Inv'
<1>1. PICK B, C : B = BlockedThreads /\ C = B \cup {running}
  OBVIOUS
<1>2. /\ SchedTypeOK(Closures) /\ WaysInv(B) /\ (Yolo => NobodyLost(B)) /\ CurrentThread
      /\ running \in Tid /\ running \notin B /\ ~Ended(running)
      /\ \A y \in Closures : Waiters(y) \subseteq B
  BY <1>1, Blocked DEF EnterBlackHole, Entering
<1>3. /\ control = "wasm" /\ state[x] = "eval"
      /\ msgs' = [msgs EXCEPT ![x] = <<running>> \o @]
      /\ whyBlocked' = [whyBlocked EXCEPT ![running] = "OnBlackHole"]
      /\ blockInfo' = [blockInfo EXCEPT ![running] = x]
      /\ frame' = [frame EXCEPT ![running] = "enter"]
      /\ whatNext' = [whatNext EXCEPT ![running] = "RunGHC"]
      /\ ReturnToSched("ThreadBlocked")
      /\ UNCHANGED <<lastTid, infoVars, blockingPromise, loopVars, state, owner,
                     updates, gcGuard>>
  BY DEF EnterBlackHole, Entering
<1>4. /\ TypeOK /\ MessagesApart /\ Ownership /\ WaitersEntered
      /\ msgs[x] \in Seq(Tid)
  BY DEF Inv, TypeOK
<1>5. PICK q : q = <<running>> \o msgs[x]
  OBVIOUS
<1>6. /\ q \in Seq(Tid) /\ Range(q) = Waiters(x) \cup {running} /\ IsInjective(q)
  BY <1>2, <1>4, <1>5, PushRange DEF MessagesApart, Waiters
<1>7. msgs' = [msgs EXCEPT ![x] = q]
  BY <1>3, <1>5
<1>8. TypeOK'
  <2>1. SchedTypeOK(Closures)'
    BY <1>2, <1>3
    DEF SchedTypeOK, ReturnToSched, Frame, Retry, WhatNext, WhyBlocked, Parked, Reason,
        infoVars, loopVars
  <2> QED  BY <1>3, <1>4, <1>6, <1>7, <2>1 DEF TypeOK
<1>9. \A y \in Closures : Waiters(y)' = IF y = x THEN Waiters(x) \cup {running} ELSE Waiters(y)
  BY <1>4, <1>6, <1>7 DEF Waiters, TypeOK
<1>10. BlockedThreads' = C
  BY <1>1, <1>2, <1>9 DEF BlockedThreads, Waiting
<1>11. Ways'
  <2>1. WaysInv(C)' /\ (NobodyLost(B) => NobodyLost(C)')
    BY <1>1, <1>2, <1>3, BlockWays DEF Parked
  <2> QED  BY <1>2, <1>10, <2>1 DEF Ways
<1>12. MessagesApart'
  <2>1. \A y \in Closures : IsInjective(msgs'[y])
    BY <1>4, <1>6, <1>7 DEF MessagesApart, TypeOK
  <2>2. \A y, z \in Closures : y # z => (Waiters(y) \cap Waiters(z) = {})'
    BY <1>2, <1>4, <1>9 DEF MessagesApart
  <2> QED  BY <2>1, <2>2 DEF MessagesApart
<1>13. Ownership'
  <2>1. \A t \in Tid : Ended(t)' => Ended(t)
    BY <1>2, <1>3 DEF Ended, SchedTypeOK
  <2>2. \A y \in Closures : state[y] # "eval" => msgs'[y] = <<>>
    BY <1>3, <1>4, <1>7 DEF Ownership, TypeOK
  <2> QED  BY <1>3, <1>4, <2>1, <2>2 DEF Ownership
<1>14. WaitersEntered'
  BY <1>2, <1>3, <1>4, <1>9 DEF WaitersEntered, SchedTypeOK
<1> QED  BY <1>8, <1>10, <1>11, <1>12, <1>13, <1>14 DEF Inv

\* The threads that wait see nothing of a thread that enters a value, or whose
\* code ends.
LEMMA EnterEvaluatedInv ==
  ASSUME Inv, NEW x \in Closures, EnterEvaluated(x)
  PROVE  Inv'
<1>1. PICK B : B = BlockedThreads
  OBVIOUS
<1>2. /\ SchedTypeOK(Closures) /\ WaysInv(B) /\ (Yolo => NobodyLost(B))
      /\ running \in Tid /\ running \notin B
  BY <1>1, Blocked DEF EnterEvaluated, Entering
<1>3. /\ control = "wasm"
      /\ \E f \in {"run", "raise"} : frame' = [frame EXCEPT ![running] = f]
      /\ UNCHANGED <<lastTid, whatNext, whyBlocked, blockInfo, infoVars, loopVars,
                     capVars, thunkVars>>
  BY DEF EnterEvaluated, Entering
<1>4. TypeOK'
  <2>1. SchedTypeOK(Closures)'
    BY <1>2, <1>3 DEF SchedTypeOK, Frame, infoVars, loopVars, capVars
  <2> QED  BY <1>3, <2>1 DEF Inv, TypeOK, thunkVars
<1>5. BlockedThreads' = BlockedThreads /\ MessagesApart' /\ Ownership' /\ WaitersEntered'
  <2>1. \A t \in Tid : t \in BlockedThreads =>
          frame'[t] = frame[t] /\ whyBlocked'[t] = whyBlocked[t] /\ blockInfo'[t] = blockInfo[t]
    BY <1>1, <1>2, <1>3 DEF SchedTypeOK
  <2> QED  BY <1>3, <2>1, ThunksKept DEF Ended, thunkVars
<1>6. Ways'
  <2>1. <<>> \in Seq(Tid) /\ IsInjective(<<>>) /\ Range(<<>>) = {}
    BY DEF Range, IsInjective
  <2>2. immediates' = immediates \o <<>>
    BY <1>2, <1>3, ConcatEmptySeq DEF loopVars, SchedTypeOK
  <2>3. B = B \ Range(<<>>) /\ Range(<<>>) \subseteq B
    BY <2>1
  <2>4. UNCHANGED <<lastTid, running, blockingPromise, sleeping, awaiting, control, whatNext>>
    BY <1>3 DEF loopVars, capVars
  <2>5. WaysInv(B)' /\ (NobodyLost(B) => NobodyLost(B)')
    BY <1>2, <1>3, <2>1, <2>2, <2>3, <2>4, WakeWays
  <2> QED  BY <1>1, <1>2, <1>5, <2>5 DEF Ways
<1> QED  BY <1>4, <1>5, <1>6 DEF Inv

LEMMA FinishThreadInv ==
  ASSUME Inv, FinishThread
  PROVE  Inv'
<1>1. PICK B : B = BlockedThreads
  OBVIOUS
<1>2. /\ SchedTypeOK(Closures) /\ WaysInv(B) /\ (Yolo => NobodyLost(B))
      /\ CurrentThread /\ running \in Tid /\ running \notin B
  BY <1>1, Blocked DEF FinishThread, Finish, Executing
<1>3. /\ control = "wasm" /\ control' = "returned" /\ rRet' = "ThreadFinished"
      /\ whatNext' = [whatNext EXCEPT ![running] = "Complete"]
      /\ updates[running] = <<>>
      /\ UNCHANGED <<running, lastTid, whyBlocked, blockInfo, frame, infoVars,
                     blockingPromise, loopVars, thunkVars>>
  BY DEF FinishThread, Finish, Executing, ReturnToSched
<1>4. TypeOK'
  <2>1. SchedTypeOK(Closures)'
    BY <1>2, EndStepType, EmptySeq DEF FinishThread
  <2> QED  BY <1>3, <2>1 DEF Inv, TypeOK, thunkVars
<1>5. BlockedThreads' = BlockedThreads /\ MessagesApart' /\ Ownership' /\ WaitersEntered'
  <2>1. \A t \in Tid : Ended(t)' => Ended(t) \/ updates[t] = <<>>
    BY <1>2, <1>3 DEF Ended, SchedTypeOK
  <2> QED  BY <1>3, <2>1, ThunksKept DEF thunkVars
<1>6. Ways'
  <2>1. <<>> \in Seq(Tid) /\ IsInjective(<<>>) /\ Range(<<>>) = {}
    BY DEF Range, IsInjective
  <2>2. immediates' = immediates \o <<>>
    BY <1>2, <1>3, ConcatEmptySeq DEF loopVars, SchedTypeOK
  <2>3. B = B \ Range(<<>>) /\ Range(<<>>) \subseteq B
    BY <2>1
  <2>4. UNCHANGED <<lastTid, running, blockingPromise, sleeping, awaiting>>
    BY <1>3 DEF loopVars
  <2>5. WaysInv(B)' /\ (NobodyLost(B) => NobodyLost(B)')
    BY <1>2, <1>3, <2>1, <2>2, <2>3, <2>4, WakeWays
  <2> QED  BY <1>1, <1>2, <1>5, <2>5 DEF Ways
<1> QED  BY <1>4, <1>5, <1>6 DEF Inv

-----------------------------------------------------------------------------
(***************************************************************************)
(* Updates.                                                                *)
(***************************************************************************)

\* The popped update frames wake each waiter of their thunks once.
LEMMA WokenElements ==
  ASSUME Inv, control = "wasm", NEW n \in 0..Len(updates[running])
  PROVE  /\ Range(Popped(n)) \subseteq Closures
         /\ Woken(n) \in Seq(Tid) /\ IsInjective(Woken(n))
         /\ Range(Woken(n)) = UNION {Waiters(x) : x \in Range(Popped(n))}
<1> DEFINE s == updates[running]
           a == Popped(n)
           q == [i \in 1..n |-> msgs[a[i]]]
<1>1. /\ running \in Tid /\ MessagesApart /\ s \in Seq(Closures) /\ IsInjective(s)
      /\ msgs \in [Closures -> Seq(Tid)]
  BY Blocked DEF Inv, TypeOK, Ownership
<1>2. a \in Seq(Closures) /\ IsInjective(a)
  BY <1>1, SplitType, SplitRange DEF Popped
<1>3. n \in Nat /\ Len(a) = n /\ DOMAIN a = 1..n /\ \A i \in 1..n : a[i] \in Closures
  <2>1. Len(s) \in Nat /\ \A i \in 1..n : s[i] \in Closures
    BY <1>1, LenProperties, ElementOfSeq
  <2>2. Len(a) = n
    BY <2>1, SubSeqProperties DEF Popped
  <2> QED  BY <1>2, <2>1, <2>2, LenProperties, ElementOfSeq
<1>4. Woken(n) = FlattenSeq(q)
  BY DEF Woken
<1> HIDE DEF a, s
<1>5. \A i \in 1..n : q[i] = msgs[a[i]] /\ q[i] \in Seq(Tid)
  BY <1>1, <1>3
<1>6. q \in Seq(Seq(Tid)) /\ Len(q) = n
  BY <1>1, <1>3, <1>5
<1> HIDE DEF q
<1>7. \A i \in 1..Len(q) : IsInjective(q[i])
  BY <1>1, <1>3, <1>5, <1>6 DEF MessagesApart
<1>8. \A i, j \in 1..Len(q) : i # j => Range(q[i]) \cap Range(q[j]) = {}
  <2>1. \A i, j \in 1..n : i # j => a[i] # a[j]
    BY <1>2, <1>3 DEF IsInjective
  <2> QED  BY <1>1, <1>3, <1>5, <1>6, <2>1 DEF MessagesApart, Waiters
<1>9. LET e == FlattenSeq(q)
      IN  /\ e \in Seq(Tid)
          /\ IsInjective(e)
          /\ Range(e) = UNION {Range(q[i]) : i \in 1..Len(q)}
  BY <1>6, <1>7, <1>8, FlattenElements
<1>10. Range(a) = {a[i] : i \in 1..n} /\ Range(a) \subseteq Closures
  BY <1>3 DEF Range
<1>11. UNION {Range(q[i]) : i \in 1..n} = UNION {Waiters(x) : x \in Range(a)}
  BY <1>5, <1>10 DEF Waiters
<1> QED  BY <1>4, <1>6, <1>9, <1>10, <1>11 DEF a

\* updateThunk on the thunks of the n topmost update frames.  A thread that ends
\* pops them all.
LEMMA UpdateInv ==
  ASSUME Inv, control = "wasm", NEW n \in 0..Len(updates[running]),
         NEW result \in {"value", "raise"}, UpdateThunks(n, result),
         immediates' = immediates \o Woken(n), SchedTypeOK(Closures)',
         UNCHANGED <<lastTid, running, blockingPromise, sleeping, awaiting, whyBlocked,
                     blockInfo>>,
         frame' = frame \/ frame' = [frame EXCEPT ![running] = "run"],
         \/ UNCHANGED <<control, whatNext>>
         \/ /\ control' = "returned" /\ rRet' = "ThreadFinished"
            /\ \E w \in {"Killed", "Complete"} : whatNext' = [whatNext EXCEPT ![running] = w]
            /\ n = Len(updates[running])
  PROVE  Inv'
<1>1. PICK B, w, xs, rest : /\ B = BlockedThreads
                            /\ w = Woken(n)
                            /\ xs = Range(Popped(n))
                            /\ rest = SubSeq(updates[running], n + 1, Len(updates[running]))
  OBVIOUS
<1>2. /\ SchedTypeOK(Closures) /\ WaysInv(B) /\ (Yolo => NobodyLost(B)) /\ CurrentThread
      /\ running \in Tid /\ running \notin B /\ ~Ended(running)
      /\ \A y \in Closures : Waiters(y) \subseteq B
  BY <1>1, Blocked
<1>3. /\ TypeOK /\ MessagesApart /\ Ownership /\ WaitersEntered
      /\ updates[running] \in Seq(Closures) /\ IsInjective(updates[running])
  BY <1>2 DEF Inv, TypeOK, Ownership
<1>4. /\ xs \subseteq Closures
      /\ w \in Seq(Tid) /\ IsInjective(w) /\ Range(w) = UNION {Waiters(y) : y \in xs}
      /\ immediates' = immediates \o w
  BY <1>1, WokenElements
<1>5. /\ rest \in Seq(Closures) /\ IsInjective(rest)
      /\ xs \cup Range(rest) = Range(updates[running])
      /\ xs \cap Range(rest) = {}
      /\ n = Len(updates[running]) => rest = <<>>
  <2> DEFINE s == updates[running]
             b == SubSeq(s, n + 1, Len(s))
  <2>0. s \in Seq(Closures) /\ n \in 0..Len(s) /\ rest = b
    BY <1>1, <1>3
  <2> HIDE DEF s
  <2>1. rest \in Seq(Closures) /\ Len(rest) = Len(s) - n
    BY <2>0, SuffixElements
  <2> USE DEF s
  <2>2. n = Len(updates[running]) => Len(rest) = 0
    BY <1>3, <2>1, LenProperties
  <2> QED  BY <1>1, <1>3, <2>1, <2>2, SplitRange, EmptySeq DEF Popped
<1>6. /\ state' = [x \in Closures |-> IF x \in xs THEN result ELSE state[x]]
      /\ owner' = [x \in Closures |-> IF x \in xs THEN NoThread ELSE owner[x]]
      /\ msgs' = [x \in Closures |-> IF x \in xs THEN <<>> ELSE msgs[x]]
      /\ updates' = [updates EXCEPT ![running] = rest]
      /\ gcGuard' = gcGuard
  BY <1>1 DEF UpdateThunks
<1>7. TypeOK'
  BY <1>3, <1>5, <1>6, EmptySeq DEF TypeOK
<1>8. \A y \in Closures : Waiters(y)' = Waiters(y) \ Range(w)
  <2> SUFFICES ASSUME NEW y \in Closures PROVE Waiters(y)' = Waiters(y) \ Range(w)
    OBVIOUS
  <2>1. CASE y \in xs
    <3>1. Waiters(y)' = {}
      BY <1>6, <2>1 DEF Waiters, Range
    <3> QED  BY <1>4, <2>1, <3>1
  <2>2. CASE y \notin xs
    <3>1. Waiters(y)' = Waiters(y)
      BY <1>6, <2>2 DEF Waiters
    <3>2. \A z \in xs : Waiters(y) \cap Waiters(z) = {}
      BY <1>3, <1>4, <2>2 DEF MessagesApart
    <3> QED  BY <1>4, <3>1, <3>2
  <2> QED  BY <2>1, <2>2
<1>9. PICK C : C = B \ Range(w)
  OBVIOUS
<1>10. BlockedThreads' = C
  BY <1>1, <1>8, <1>9 DEF BlockedThreads, Waiting
<1>11. Ways'
  <2>1. Range(w) \subseteq B
    BY <1>2, <1>4
  <2>2. WaysInv(C)' /\ (NobodyLost(B) => NobodyLost(C)')
    BY <1>2, <1>4, <1>9, <2>1, WakeWays
  <2> QED  BY <1>2, <1>10, <2>2 DEF Ways
<1>12. MessagesApart'
  <2>1. \A y \in Closures : IsInjective(msgs'[y])
    BY <1>3, <1>6 DEF MessagesApart, IsInjective
  <2>2. \A y, z \in Closures : y # z => (Waiters(y) \cap Waiters(z) = {})'
    BY <1>3, <1>8 DEF MessagesApart
  <2> QED  BY <2>1, <2>2 DEF MessagesApart
<1>13. Ownership'
  <2>1. \A y \in xs : state[y] = "eval" /\ owner[y] = running
    BY <1>2, <1>3, <1>5 DEF Ownership
  <2>2. \A t \in Tid : updates'[t] = IF t = running THEN rest ELSE updates[t]
    BY <1>3, <1>6 DEF TypeOK
  <2>3. ASSUME NEW y \in Closures
        PROVE  (IF state[y] = "eval" THEN owner[y] \in Tid /\ y \in Range(updates[owner[y]])
                ELSE owner[y] = NoThread /\ msgs[y] = <<>>)'
    <3>1. CASE y \in xs
      BY <1>6, <3>1
    <3>2. CASE y \notin xs
      BY <1>3, <1>5, <1>6, <2>2, <3>2 DEF Ownership
    <3> QED  BY <3>1, <3>2
  <2>4. ASSUME NEW t \in Tid
        PROVE  (/\ IsInjective(updates[t])
                /\ \A x \in Range(updates[t]) : state[x] = "eval" /\ owner[x] = t
                /\ Ended(t) => updates[t] = <<>>)'
    <3>1. \A y \in Range(updates'[t]) : y \in Closures /\ y \notin xs /\ y \in Range(updates[t])
      <4>1. Range(updates'[t]) \subseteq Closures
        BY <1>7, RangeOfSeq DEF TypeOK
      <4>2. CASE t = running
        BY <1>5, <2>2, <4>1, <4>2
      <4>3. CASE t # running
        BY <1>3, <2>1, <2>2, <4>1, <4>3 DEF Ownership
      <4> QED  BY <4>2, <4>3
    <3>2. \A y \in Range(updates'[t]) : state'[y] = "eval" /\ owner'[y] = t
      BY <1>3, <1>6, <3>1 DEF Ownership
    <3>3. IsInjective(updates'[t])
      BY <1>3, <1>5, <2>2 DEF Ownership
    <3>4. Ended(t)' => updates'[t] = <<>>
      BY SMTT(30), <1>2, <1>3, <1>5, <2>2 DEF Ownership, Ended, SchedTypeOK
    <3> QED  BY <3>2, <3>3, <3>4
  <2> QED  BY <2>3, <2>4 DEF Ownership
<1>14. WaitersEntered'
  <2>1. \A y \in Closures : \A t \in Waiters(y)' : t \in Waiters(y) /\ t # running
    BY <1>2, <1>8
  <2>2. \A y \in Closures : Waiters(y) \subseteq Tid
    BY <1>1, <1>2 DEF BlockedThreads
  <2>3. \A t \in Tid \ {running} : frame'[t] = frame[t]
    BY <1>2 DEF SchedTypeOK
  <2> QED  BY <1>3, <2>1, <2>2, <2>3 DEF WaitersEntered
<1> QED  BY <1>7, <1>10, <1>11, <1>12, <1>13, <1>14 DEF Inv

LEMMA UpdatesInv ==
  ASSUME Inv, Update \/ (control = "wasm" /\ (RaiseToHandler \/ RaiseToStopFrame))
  PROVE  Inv'
<1>1. control = "wasm"
  BY DEF Update, Executing
<1>2. /\ SchedTypeOK(Closures) /\ CurrentThread /\ running \in Tid
      /\ updates[running] \in Seq(Closures) /\ Len(updates[running]) \in Nat
  BY <1>1, Blocked, LenProperties DEF Inv, TypeOK
<1>3. \A n \in 0..Len(updates[running]) : Woken(n) \in Seq(Tid)
  BY <1>1, WokenElements
<1>4. CASE Update
  <2>1. /\ updates[running] # <<>> /\ frame' = frame
        /\ immediates' = immediates \o Woken(1) /\ UpdateThunks(1, "value")
        /\ UNCHANGED <<lastTid, tsoVars, infoVars, sleeping, awaiting, capVars>>
    BY <1>4 DEF Update, tsoVars
  <2>2. 1 \in 0..Len(updates[running])
    BY <1>2, <2>1, EmptySeq
  <2>3. Woken(1) \in Seq(Tid)
    BY <1>3, <2>2
  <2>4. SchedTypeOK(Closures)'
    <3>1. immediates' \in Seq(Tid)
      BY <1>2, <2>1, <2>3, ConcatProperties DEF SchedTypeOK
    <3> QED  BY <1>2, <2>1, <3>1 DEF SchedTypeOK, tsoVars, infoVars, capVars
  <2> QED  BY <1>1, <2>1, <2>2, <2>4, UpdateInv DEF tsoVars, capVars
<1>5. ASSUME NEW n \in 0..Len(updates[running]), Catch(Woken(n)), UpdateThunks(n, "raise")
      PROVE  Inv'
  <2>1. SchedTypeOK(Closures)'
    BY <1>2, <1>3, <1>5, EndStepType
  <2>2. /\ frame' = [frame EXCEPT ![running] = "run"] /\ immediates' = immediates \o Woken(n)
        /\ UNCHANGED <<lastTid, running, blockingPromise, sleeping, awaiting, whyBlocked,
                       blockInfo, control, whatNext>>
    BY <1>5 DEF Catch, capVars
  <2> QED  BY <1>1, <1>5, <2>1, <2>2, UpdateInv
<1>6. ASSUME NEW n, n = Len(updates[running]), Die(Woken(n)), UpdateThunks(n, "raise")
      PROVE  Inv'
  <2>1. n \in 0..Len(updates[running])
    BY <1>2, <1>6
  <2>2. SchedTypeOK(Closures)'
    BY <1>2, <1>3, <1>6, <2>1, EndStepType
  <2>3. /\ frame' = [frame EXCEPT ![running] = "run"] /\ immediates' = immediates \o Woken(n)
        /\ control' = "returned" /\ rRet' = "ThreadFinished"
        /\ whatNext' = [whatNext EXCEPT ![running] = "Killed"]
        /\ UNCHANGED <<lastTid, running, blockingPromise, sleeping, awaiting, whyBlocked,
                       blockInfo>>
    BY <1>6 DEF Die, ReturnToSched
  <2> QED  BY <1>1, <1>6, <2>1, <2>2, <2>3, UpdateInv
<1> QED  BY <1>4, <1>5, <1>6 DEF RaiseToHandler, RaiseToStopFrame

-----------------------------------------------------------------------------
LEMMA NextInv == Inv /\ [Next]_vars => Inv'
<1> SUFFICES ASSUME Inv, [Next]_vars PROVE Inv'
  OBVIOUS
<1>1. CASE (LoopNext \/ ReturnedFromTSO) /\ UNCHANGED thunkVars
  BY <1>1, SchedStepInv DEF thunkVars, Inv, TypeOK
<1>2. CASE FinishThread
  BY <1>2, FinishThreadInv
<1>3. ASSUME NEW x \in Closures, EnterThunk(x) \/ EnterBlackHole(x) \/ EnterEvaluated(x)
      PROVE  Inv'
  BY <1>3, EnterThunkInv, EnterBlackHoleInv, EnterEvaluatedInv
<1>4. CASE Update \/ (control = "wasm" /\ (RaiseToHandler \/ RaiseToStopFrame))
  BY <1>4, UpdatesInv
<1>5. CASE CollectionThrows
  BY <1>5, CollectionThrowsInv
<1>6. CASE MajorCollectionThrows
  BY <1>6, SchedStepInv DEF MajorCollectionThrows, LoopNext
<1>7. CASE UNCHANGED vars
  <2>1. SchedTypeOK(Closures)' /\ TypeOK'
    BY <1>7 DEF vars, schedVars, thunkVars, tsoVars, infoVars, loopVars, capVars, Inv, TypeOK,
                SchedTypeOK
  <2>2. BlockedThreads' = BlockedThreads /\ MessagesApart' /\ Ownership' /\ WaitersEntered'
    BY <1>7, ThunksKept DEF vars, schedVars, thunkVars, tsoVars, Ended
  <2>3. Ways'
    BY <1>7, <2>2
    DEF vars, schedVars, tsoVars, infoVars, loopVars, capVars, Inv, Ways, WaysInv, NobodyLost,
        ReasonsTrue, CurrentThread, BlockingPromiseOwned, AtMostOneWay, HasAWay, Live, Created,
        Ended, Queued, Awaiting
  <2> QED  BY <2>1, <2>2, <2>3 DEF Inv
<1> QED  BY <1>1, <1>2, <1>3, <1>4, <1>5, <1>6, <1>7 DEF Next

LEMMA Invariance == Spec => []Inv
  BY InitInv, NextInv, PTL DEF Spec

\* Every variable of the scheduler and of the thunks keeps its type: whatever
\* operations follow one another, only threads and thunks are ever queued.
THEOREM ThunkTypes == Spec => []TypeOK
<1>1. Inv => TypeOK
  BY DEF Inv
<1> QED  BY <1>1, Invariance, PTL

\* A thunk is evaluated by one thread at a time: it is a black hole exactly while
\* one update frame for it exists, on its owner's stack, so that updateThunk
\* never meets a "weird thunk" or one that is "not my thunk".
THEOREM OwnersEvaluate == Spec => []EvaluatedByItsOwner
<1>1. ASSUME Inv PROVE EvaluatedByItsOwner
  <2>1. /\ Ownership /\ updates \in [Tid -> Seq(Closures)] /\ NoThread \notin Tid
    BY <1>1 DEF Inv, TypeOK, Tid
  <2> SUFFICES ASSUME NEW x \in Closures,
                      NEW frames,
                      frames = UNION {{t} \X {i \in DOMAIN updates[t] : updates[t][i] = x} :
                                        t \in Tid}
               PROVE  IF state[x] = "eval"
                      THEN \E i \in DOMAIN updates[owner[x]] : frames = {<<owner[x], i>>}
                      ELSE frames = {} /\ owner[x] = NoThread
    BY DEF EvaluatedByItsOwner
  <2>2. \A t \in Tid : \A i : t # owner[x] => ~(i \in DOMAIN updates[t] /\ updates[t][i] = x)
    BY <2>1 DEF Ownership, Range
  <2>3. CASE state[x] = "eval"
    <3>1. owner[x] \in Tid /\ IsInjective(updates[owner[x]]) /\ x \in Range(updates[owner[x]])
      BY <2>1, <2>3 DEF Ownership
    <3>2. PICK i \in DOMAIN updates[owner[x]] : updates[owner[x]][i] = x
      BY <3>1 DEF Range
    <3>3. \A j \in DOMAIN updates[owner[x]] : updates[owner[x]][j] = x => j = i
      BY <3>1, <3>2 DEF IsInjective
    <3>4. frames = {<<owner[x], i>>}
      BY <2>2, <3>1, <3>2, <3>3
    <3> QED  BY <2>3, <3>4
  <2>4. CASE state[x] # "eval"
    <3>1. owner[x] = NoThread
      BY <2>1, <2>4 DEF Ownership
    <3>2. frames = {}
      BY <2>1, <2>2, <3>1
    <3> QED  BY <2>4, <3>1, <3>2
  <2> QED  BY <2>3, <2>4
<1> QED  BY <1>1, Invariance, PTL

\* Whoever waits for a thunk waits for a thread that has not ended: an
\* evaluation that an exception abandons leaves no waiter behind.
THEOREM WaitersAreServed == Spec => []WaitersHaveAnEvaluator
<1>1. ASSUME Inv PROVE WaitersHaveAnEvaluator
  <2>1. Range(<<>>) = {}
    BY DEF Range
  <2> QED  BY <1>1, <2>1 DEF Inv, Ownership, WaitersEntered, WaitersHaveAnEvaluator
<1> QED  BY <1>1, Invariance, PTL

\* No wakeup is lost or duplicated when threads wait for black holes, if no
\* collection throws: one that does loses the thread that returned for it.
THEOREM EvaluatorsNeitherLostNorDoubled ==
  ASSUME Yolo
  PROVE  Spec => []EvaluatorsHaveOneWay
<1>1. ASSUME Inv PROVE EvaluatorsHaveOneWay
  <2>1. PICK B : B = BlockedThreads
    OBVIOUS
  <2>2. WaysInv(B) /\ NobodyLost(B) /\ MessagesApart
    BY <1>1, <2>1 DEF Inv, Ways
  <2>3. \A t \in Tid : t \in B <=> Waiting(t)
    BY <2>1 DEF BlockedThreads
  <2> QED
    BY <2>2, <2>3
    DEF EvaluatorsHaveOneWay, OneWay, WaysInv, NobodyLost, AtMostOneWay, HasAWay, MessagesApart
<1> QED  BY <1>1, Invariance, PTL

\* A thunk is assigned once, and the step that assigns it registers a tick for
\* every thread that waits for it: a waiter leaves the queue in no other way.
THEOREM WaitersAreTold == Spec => AssignedOnceAndTold
<1> DEFINE Told == \A x \in Closures :
                     /\ Evaluated(x) => state'[x] = state[x]
                     /\ \A t \in Waiters(x) :
                          \/ t \in Waiters(x)'
                          \/ Evaluated(x)' /\ t \in Queued'
<1>1. ASSUME Inv, [Next]_vars PROVE Told
  <2>1. CASE UNCHANGED <<state, msgs>>
    BY <2>1 DEF Waiters
  <2>2. ASSUME NEW x \in Closures, EnterThunk(x) PROVE Told
    BY <1>1, <2>2 DEF EnterThunk, Waiters, Evaluated, Inv, TypeOK
  <2>3. ASSUME NEW x \in Closures, EnterBlackHole(x) PROVE Told
    <3>1. msgs' = [msgs EXCEPT ![x] = <<running>> \o @] /\ state' = state
      BY <2>3 DEF EnterBlackHole
    <3>2. running \in Tid /\ msgs \in [Closures -> Seq(Tid)]
      BY <1>1, <2>3, Blocked DEF EnterBlackHole, Entering, Inv, TypeOK
    <3>3. Range(<<running>> \o msgs[x]) = Waiters(x) \cup {running}
      BY <3>2, PushRange DEF Waiters
    <3>4. \A y \in Closures : Waiters(y) \subseteq Waiters(y)'
      BY <3>1, <3>2, <3>3 DEF Waiters
    <3> QED  BY <3>1, <3>4
  <2>4. ASSUME control = "wasm", NEW n \in 0..Len(updates[running]),
               NEW result \in {"value", "raise"}, UpdateThunks(n, result),
               immediates' = immediates \o Woken(n)
        PROVE  Told
    <3>1. PICK w, xs : w = Woken(n) /\ xs = Range(Popped(n))
      OBVIOUS
    <3>2. /\ state' = [x \in Closures |-> IF x \in xs THEN result ELSE state[x]]
          /\ msgs' = [x \in Closures |-> IF x \in xs THEN <<>> ELSE msgs[x]]
      BY <2>4, <3>1 DEF UpdateThunks
    <3>3. w \in Seq(Tid) /\ Range(w) = UNION {Waiters(y) : y \in xs}
      BY <1>1, <2>4, <3>1, WokenElements
    <3>4. immediates \in Seq(Tid) /\ immediates' = immediates \o w
      BY <1>1, <2>4, <3>1, Blocked DEF SchedTypeOK
    <3>5. Range(w) \subseteq Queued'
      BY <3>3, <3>4, RangeConcatenation DEF Queued
    <3>6. \A x \in xs : state[x] = "eval"
      <4>1. /\ running \in Tid /\ updates[running] \in Seq(Closures)
            /\ IsInjective(updates[running]) /\ Ownership
        BY <1>1, <2>4, Blocked DEF Inv, TypeOK, Ownership
      <4>2. xs \subseteq Range(updates[running])
        BY <2>4, <3>1, <4>1, SplitRange DEF Popped
      <4> QED  BY <4>1, <4>2 DEF Ownership
    <3> QED  BY <3>2, <3>3, <3>5, <3>6 DEF Evaluated, Waiters
  <2>5. CASE Update
    <3>1. updates[running] # <<>> /\ control = "wasm"
      BY <2>5 DEF Update, Executing
    <3>2. updates[running] \in Seq(Closures)
      BY <1>1, <3>1, Blocked DEF Inv, TypeOK
    <3>3. 1 \in 0..Len(updates[running])
      BY <3>1, <3>2, EmptySeq, LenProperties
    <3> QED  BY <2>4, <2>5, <3>1, <3>3 DEF Update
  <2>6. CASE control = "wasm" /\ (RaiseToHandler \/ RaiseToStopFrame)
    <3>1. CASE RaiseToHandler
      BY <2>4, <2>6, <3>1 DEF RaiseToHandler, Catch
    <3>2. CASE RaiseToStopFrame
      <4>1. updates[running] \in Seq(Closures)
        BY <1>1, <2>6, Blocked DEF Inv, TypeOK
      <4>2. Len(updates[running]) \in 0..Len(updates[running])
        BY <4>1, LenProperties
      <4> QED  BY <2>4, <2>6, <3>2, <4>2 DEF RaiseToStopFrame, Die
    <3> QED  BY <2>6, <3>1, <3>2
  <2> HIDE DEF Told
  <2>7. \A x \in Closures : EnterEvaluated(x) => UNCHANGED <<state, msgs>>
    BY DEF EnterEvaluated, thunkVars
  <2>8. FinishThread \/ CollectionThrows \/ MajorCollectionThrows => UNCHANGED <<state, msgs>>
    BY DEF FinishThread, CollectionThrows, MajorCollectionThrows, thunkVars
  <2> QED
    BY <1>1, <2>1, <2>2, <2>3, <2>5, <2>6, <2>7, <2>8 DEF Next, vars, thunkVars
<1>2. Spec => [][Told]_vars
  BY <1>1, Invariance, PTL DEF Spec
<1> QED  BY <1>2 DEF AssignedOnceAndTold
=============================================================================
