----------------------------- MODULE LibraryProofs -----------------------------
(***************************************************************************)
(* Proofs about five small components of the library, each for every value *)
(* of its constants: the linked run queue and blocked queue, the binary    *)
(* search of the Unicode tables, atomics on byte arrays, the filter for    *)
(* literate scripts and the wait for a descriptor.                         *)
(***************************************************************************)
EXTENDS RunQueue, BlockSearch, AtomicBytes, Unlit, FdReady, SequenceTheorems, FiniteSetTheorems, TLAPS

-----------------------------------------------------------------------------
(***************************************************************************)
(* RunQueue, for any set of threads.                                       *)
(***************************************************************************)

QueueType ==
  /\ queue \in Seq(TSO)
  /\ blocked \in Seq(TSO)
  /\ _link \in [TSO -> TSO \cup {END_TSO_QUEUE}]
  /\ prev \in [TSO -> TSO \cup {END_TSO_QUEUE}]

QueueInv ==
  QueueType /\ RunQueueLinked /\ BlockedQueueLinked /\ FreeThreadsUnlinked /\ EachThreadOnce

-----------------------------------------------------------------------------
LEMMA LengthsAndMembers ==
  ASSUME NEW q \in Seq(TSO)
  PROVE  /\ Len(q) \in Nat
         /\ \A i \in 1 .. Len(q) : q[i] \in TSO /\ q[i] \in Members(q)
         /\ \A t \in Members(q) : \E i \in 1 .. Len(q) : q[i] = t
BY LenProperties, ElementOfSeq DEF Members

LEMMA MembersOfAppend ==
  ASSUME NEW q \in Seq(TSO), NEW t \in TSO
  PROVE  Members(Append(q, t)) = Members(q) \cup {t}
BY AppendProperties, LengthsAndMembers DEF Members

\* What putting a thread in front of a queue gives.
LEMMA Pushed ==
  ASSUME NEW q \in Seq(TSO), NEW t \in TSO
  PROVE  /\ <<t>> \o q \in Seq(TSO)
         /\ Len(<<t>> \o q) = Len(q) + 1
         /\ (<<t>> \o q)[1] = t
         /\ \A i \in 2 .. Len(q) + 1 : (<<t>> \o q)[i] = q[i - 1]
         /\ Members(<<t>> \o q) = Members(q) \cup {t}
<1>1. <<t>> \in Seq(TSO) /\ Len(<<t>>) = 1 /\ <<t>>[1] = t
  OBVIOUS
<1>2. Len(q) \in Nat
  BY LengthsAndMembers
<1> DEFINE p == <<t>> \o q
<1>3. /\ p \in Seq(TSO) /\ Len(p) = Len(q) + 1
      /\ \A i \in 1 .. Len(q) + 1 : p[i] = IF i =< 1 THEN t ELSE q[i - 1]
  BY <1>1, <1>2, ConcatProperties
<1> HIDE DEF p
<1>4. p[1] = t /\ \A i \in 2 .. Len(q) + 1 : p[i] = q[i - 1]
  BY <1>2, <1>3
<1>5. Members(p) = Members(q) \cup {t}
  <2>1. \A i \in 1 .. Len(q) : i + 1 \in 2 .. Len(q) + 1 /\ p[i + 1] = q[i]
    BY <1>2, <1>4
  <2>2. \A i \in 2 .. Len(q) + 1 : i - 1 \in 1 .. Len(q)
    BY <1>2
  <2>3. \A u \in Members(p) : u \in Members(q) \cup {t}
    <3>1. \A i \in 1 .. Len(q) + 1 : p[i] = t \/ p[i] \in Members(q)
      BY <1>2, <1>4, <2>2 DEF Members
    <3> QED  BY <1>3, <3>1 DEF Members
  <2>4. \A u \in Members(q) : u \in Members(p)
    <3>1. \A i \in 1 .. Len(q) : i + 1 \in 1 .. Len(p) /\ p[i + 1] = q[i]
      BY <1>2, <1>3, <2>1
    <3> QED  BY <3>1 DEF Members
  <2>5. t \in Members(p)
    BY <1>2, <1>3, <1>4 DEF Members
  <2> QED  BY <2>3, <2>4, <2>5
<1> QED  BY <1>3, <1>4, <1>5 DEF p

LEMMA MembersOfTail ==
  ASSUME NEW q \in Seq(TSO), Len(q) > 0,
         \A i, j \in 1 .. Len(q) : q[i] = q[j] => i = j
  PROVE  Members(Tail(q)) = Members(q) \ {q[1]}
<1>1. /\ Tail(q) \in Seq(TSO) /\ Len(Tail(q)) = Len(q) - 1
      /\ \A i \in 1 .. Len(q) - 1 : Tail(q)[i] = q[i + 1]
  BY HeadTailProperties
<1>2. Len(q) \in Nat
  BY LengthsAndMembers
<1>3. \A i \in 1 .. Len(q) : i # 1 => i - 1 \in 1 .. Len(q) - 1 /\ Tail(q)[i - 1] = q[i]
  BY <1>1, <1>2
<1> QED  BY <1>1, <1>2, <1>3 DEF Members

-----------------------------------------------------------------------------
LEMMA InitQueues == ASSUME QueuesInit PROVE QueueInv
BY EmptySeq DEF QueuesInit, QueueInv, QueueType, RunQueueLinked, BlockedQueueLinked, Chain,
   FreeThreadsUnlinked, EachThreadOnce, Members

LEMMA AppendKeeps ==
  ASSUME QueueInv, NEW t \in TSO, appendToRunQueue(t)
  PROVE  QueueInv'
<1> USE DEF QueueInv, QueueType
<1>1. /\ queue' \in Seq(TSO) /\ Len(queue') = Len(queue) + 1
      /\ \A i \in 1 .. Len(queue) : queue'[i] = queue[i]
      /\ queue'[Len(queue) + 1] = t
      /\ Members(queue') = Members(queue) \cup {t}
  BY AppendProperties, MembersOfAppend DEF appendToRunQueue
<1>2. /\ Len(queue) \in Nat
      /\ \A i \in 1 .. Len(queue) : queue[i] \in TSO /\ queue[i] \in Members(queue)
  BY LengthsAndMembers
<1>3. /\ Len(blocked) \in Nat
      /\ \A i \in 1 .. Len(blocked) : blocked[i] \in TSO /\ blocked[i] \in Members(blocked)
  BY LengthsAndMembers
<1>4. t \notin Members(queue) /\ t \notin Members(blocked) /\ _link[t] = END_TSO_QUEUE
  BY DEF appendToRunQueue, Free, FreeThreadsUnlinked
<1>5. blocked' = blocked /\ dropped' = dropped /\ blocked_queue_hd' = blocked_queue_hd
      /\ blocked_queue_tl' = blocked_queue_tl
  BY DEF appendToRunQueue, blockedQueue
<1>6. CASE Len(queue) = 0
  <2>1. /\ run_queue_hd' = t /\ run_queue_tl' = t /\ _link' = _link
        /\ prev' = [prev EXCEPT ![t] = END_TSO_QUEUE] /\ n_run_queue' = 1
    BY <1>6 DEF appendToRunQueue, RunQueueLinked, Chain
  <2>2. QueueType'
    BY <1>1, <1>5, <2>1
  <2>3. RunQueueLinked'
    BY <1>1, <1>4, <1>6, <2>1 DEF RunQueueLinked, Chain
  <2>4. BlockedQueueLinked'
    BY <1>5, <2>1 DEF BlockedQueueLinked, Chain
  <2>5. FreeThreadsUnlinked'
    BY <1>1, <1>5, <2>1 DEF FreeThreadsUnlinked, Free
  <2>6. EachThreadOnce'
    BY <1>1, <1>4, <1>5, <1>6 DEF EachThreadOnce
  <2> QED  BY <2>2, <2>3, <2>4, <2>5, <2>6
<1>7. CASE Len(queue) > 0
  <2>1. /\ run_queue_tl = queue[Len(queue)] /\ run_queue_tl \in TSO
        /\ run_queue_tl \in Members(queue)
        /\ run_queue_hd \in TSO
    BY <1>2, <1>7 DEF RunQueueLinked, Chain
  <2>2. /\ run_queue_hd' = run_queue_hd /\ run_queue_tl' = t
        /\ _link' = [_link EXCEPT ![run_queue_tl] = t]
        /\ prev' = [prev EXCEPT ![t] = run_queue_tl] /\ n_run_queue' = n_run_queue + 1
    BY <2>1, EndAssumption DEF appendToRunQueue
  <2>3. QueueType'
    BY <1>1, <1>5, <2>1, <2>2
  <2>4. RunQueueLinked'
    <3>1. \A i \in 1 .. Len(queue) - 1 : queue[i] # run_queue_tl
      BY <1>2, <2>1 DEF EachThreadOnce
    <3>2. \A i \in 1 .. Len(queue) - 1 : _link'[queue[i]] = queue[i + 1]
      BY <1>2, <2>2, <3>1 DEF RunQueueLinked, Chain
    <3>3. \A i \in 2 .. Len(queue) : prev'[queue[i]] = queue[i - 1]
      BY <1>2, <1>4, <2>2 DEF RunQueueLinked
    <3>4. prev'[queue[1]] = END_TSO_QUEUE
      BY <1>2, <1>4, <1>7, <2>2 DEF RunQueueLinked
    <3>5. prev'[t] = queue[Len(queue)] /\ _link'[queue[Len(queue)]] = t /\ _link'[t] = END_TSO_QUEUE
      BY <1>2, <1>4, <1>7, <2>1, <2>2
    <3>6. \A i \in 1 .. Len(queue') - 1 : _link'[queue'[i]] = queue'[i + 1]
      <4>1. \A i \in 1 .. Len(queue') - 1 : i \in 1 .. Len(queue) - 1 \/ i = Len(queue)
        BY <1>1, <1>2
      <4>2. \A i \in 1 .. Len(queue) - 1 : queue'[i] = queue[i] /\ queue'[i + 1] = queue[i + 1]
        BY <1>1, <1>2
      <4>3. queue'[Len(queue)] = queue[Len(queue)] /\ queue'[Len(queue) + 1] = t
        BY <1>1, <1>2, <1>7
      <4> QED  BY <3>2, <3>5, <4>1, <4>2, <4>3
    <3>7. \A i \in 2 .. Len(queue') : prev'[queue'[i]] = queue'[i - 1]
      <4>1. \A i \in 2 .. Len(queue) : prev'[queue'[i]] = queue'[i - 1]
        <5>1. \A i \in 2 .. Len(queue) : i - 1 \in 1 .. Len(queue)
          BY <1>2
        <5>2. \A i \in 2 .. Len(queue) : queue'[i] = queue[i] /\ queue'[i - 1] = queue[i - 1]
          BY <1>1, <1>2, <5>1
        <5> QED  BY <3>3, <5>2
      <4>2. prev'[queue'[Len(queue) + 1]] = queue'[Len(queue)]
        BY <1>1, <1>2, <1>7, <3>5
      <4>3. \A i \in 2 .. Len(queue') : i \in 2 .. Len(queue) \/ i = Len(queue) + 1
        BY <1>1, <1>2
      <4>4. Len(queue) + 1 - 1 = Len(queue)
        BY <1>2
      <4> SUFFICES ASSUME NEW i \in 2 .. Len(queue') PROVE prev'[queue'[i]] = queue'[i - 1]
        OBVIOUS
      <4>5. CASE i \in 2 .. Len(queue)
        BY <4>1, <4>5
      <4>6. CASE i = Len(queue) + 1
        BY <4>2, <4>4, <4>6
      <4> QED  BY <4>3, <4>5, <4>6
    <3>8. /\ Len(queue') # 0 /\ run_queue_hd' = queue'[1] /\ run_queue_tl' = queue'[Len(queue')]
          /\ _link'[queue'[Len(queue')]] = END_TSO_QUEUE /\ prev'[queue'[1]] = END_TSO_QUEUE
      BY <1>1, <1>2, <1>7, <2>1, <2>2, <3>4, <3>5 DEF RunQueueLinked, Chain
    <3>9. n_run_queue' = Len(queue')
      BY <1>1, <2>2 DEF RunQueueLinked
    <3>10. Chain(queue, run_queue_hd, run_queue_tl)'
      BY <3>6, <3>8 DEF Chain
    <3> QED  BY <3>7, <3>8, <3>9, <3>10 DEF RunQueueLinked
  <2>5. BlockedQueueLinked'
    <3>1. \A i \in 1 .. Len(blocked) : blocked[i] # run_queue_tl
      BY <1>3, <2>1 DEF EachThreadOnce
    <3> QED  BY <1>3, <1>5, <2>2, <3>1 DEF BlockedQueueLinked, Chain
  <2>6. FreeThreadsUnlinked'
    BY <1>1, <1>5, <2>1, <2>2 DEF FreeThreadsUnlinked, Free
  <2>7. EachThreadOnce'
    <3>1. \A i \in 1 .. Len(queue') : \/ i \in 1 .. Len(queue) /\ queue'[i] = queue[i] /\ queue'[i] # t
                                      \/ i = Len(queue) + 1 /\ queue'[i] = t
      BY <1>1, <1>2, <1>4
    <3>2. \A i, j \in 1 .. Len(queue') : queue'[i] = queue'[j] => i = j
      BY <3>1 DEF EachThreadOnce
    <3> QED  BY <1>1, <1>4, <1>5, <3>2 DEF EachThreadOnce
  <2> QED  BY <2>3, <2>4, <2>5, <2>6, <2>7
<1> QED  BY <1>2, <1>6, <1>7

LEMMA PushKeeps ==
  ASSUME QueueInv, NEW t \in TSO, pushOnRunQueue(t)
  PROVE  QueueInv'
<1> USE DEF QueueInv, QueueType
<1>1. /\ queue' \in Seq(TSO) /\ Len(queue') = Len(queue) + 1
      /\ queue'[1] = t
      /\ \A i \in 2 .. Len(queue) + 1 : queue'[i] = queue[i - 1]
      /\ Members(queue') = Members(queue) \cup {t}
  BY Pushed DEF pushOnRunQueue
<1>2. /\ Len(queue) \in Nat
      /\ \A i \in 1 .. Len(queue) : queue[i] \in TSO /\ queue[i] \in Members(queue)
  BY LengthsAndMembers
<1>3. /\ Len(blocked) \in Nat
      /\ \A i \in 1 .. Len(blocked) : blocked[i] \in TSO /\ blocked[i] \in Members(blocked)
  BY LengthsAndMembers
<1>4. t \notin Members(queue) /\ t \notin Members(blocked)
  BY DEF pushOnRunQueue, Free
<1>5. /\ blocked' = blocked /\ dropped' = dropped /\ blocked_queue_hd' = blocked_queue_hd
      /\ blocked_queue_tl' = blocked_queue_tl
      /\ run_queue_hd' = t /\ n_run_queue' = n_run_queue + 1
      /\ _link' = [_link EXCEPT ![t] = run_queue_hd]
      /\ prev' = [u \in TSO |-> IF u = t THEN END_TSO_QUEUE ELSE IF u = run_queue_hd THEN t ELSE prev[u]]
      /\ run_queue_tl' = IF run_queue_tl = END_TSO_QUEUE THEN t ELSE run_queue_tl
  BY DEF pushOnRunQueue, blockedQueue
<1>6. /\ Len(queue) = 0 => run_queue_hd = END_TSO_QUEUE /\ run_queue_tl' = t
      /\ Len(queue) > 0 => /\ run_queue_hd = queue[1]
                           /\ run_queue_tl' = queue[Len(queue)]
                           /\ run_queue_hd \in TSO
  BY <1>2, <1>5, EndAssumption DEF RunQueueLinked, Chain
<1>7. run_queue_hd \in TSO \cup {END_TSO_QUEUE}
  BY <1>2, <1>6
<1>8. QueueType'
  BY <1>1, <1>5, <1>7
<1>9. \A i \in 1 .. Len(queue) : queue[i] # t /\ _link'[queue[i]] = _link[queue[i]]
  BY <1>2, <1>4, <1>5
<1>10. RunQueueLinked'
  <2>1. \A i \in 2 .. Len(queue) : queue[i] # run_queue_hd
    BY <1>2, <1>6 DEF EachThreadOnce
  <2>2. \A i \in 1 .. Len(queue) - 1 : _link'[queue[i]] = queue[i + 1]
    BY <1>2, <1>9 DEF RunQueueLinked, Chain
  <2>3. \A i \in 2 .. Len(queue) : prev'[queue[i]] = queue[i - 1]
    BY <1>2, <1>5, <1>9, <2>1 DEF RunQueueLinked
  <2>4. prev'[t] = END_TSO_QUEUE /\ _link'[t] = run_queue_hd
    BY <1>5
  <2>5. Len(queue) > 0 => prev'[queue[1]] = t
    BY <1>2, <1>5, <1>6, <1>9
  <2>6. Len(queue) > 0 => _link'[queue[Len(queue)]] = END_TSO_QUEUE
    BY <1>2, <1>9 DEF RunQueueLinked, Chain
  <2>7. \A i \in 1 .. Len(queue') - 1 : _link'[queue'[i]] = queue'[i + 1]
    <3>1. SUFFICES ASSUME NEW i \in 1 .. Len(queue)
                   PROVE  _link'[queue'[i]] = queue'[i + 1]
      BY <1>1, <1>2
    <3>2. CASE i = 1
      BY <1>1, <1>2, <1>6, <2>4, <3>2
    <3>3. CASE i # 1
      <4>1. i - 1 \in 1 .. Len(queue) - 1 /\ queue'[i] = queue[i - 1] /\ queue'[i + 1] = queue[i]
        BY <1>1, <1>2, <3>3
      <4> QED  BY <1>2, <2>2, <4>1
    <3> QED  BY <3>2, <3>3
  <2>8. \A i \in 2 .. Len(queue') : prev'[queue'[i]] = queue'[i - 1]
    <3>1. SUFFICES ASSUME NEW i \in 2 .. Len(queue) + 1
                   PROVE  prev'[queue'[i]] = queue'[i - 1]
      BY <1>1, <1>2
    <3>2. CASE i = 2
      BY <1>1, <1>2, <2>5, <3>2
    <3>3. CASE i # 2
      <4>1. i - 1 \in 2 .. Len(queue) /\ queue'[i] = queue[i - 1] /\ queue'[i - 1] = queue[i - 2]
        BY <1>1, <1>2, <3>3
      <4> QED  BY <1>2, <2>3, <4>1
    <3> QED  BY <3>2, <3>3
  <2>9. run_queue_tl' = queue'[Len(queue')] /\ _link'[queue'[Len(queue')]] = END_TSO_QUEUE
    <3>1. CASE Len(queue) = 0
      BY <1>1, <1>6, <2>4, <3>1
    <3>2. CASE Len(queue) > 0
      BY <1>1, <1>2, <1>6, <2>6, <3>2
    <3> QED  BY <1>2, <3>1, <3>2
  <2>10. n_run_queue' = Len(queue')
    BY <1>1, <1>2, <1>5 DEF RunQueueLinked
  <2>11. Len(queue') > 0 /\ run_queue_hd' = queue'[1] /\ prev'[queue'[1]] = END_TSO_QUEUE
    BY <1>1, <1>2, <1>5, <2>4
  <2>12. Chain(queue, run_queue_hd, run_queue_tl)'
    <3>1. Len(queue') # 0
      BY <1>1, <1>2
    <3> QED  BY <2>7, <2>9, <2>11, <3>1 DEF Chain
  <2> QED  BY <2>8, <2>10, <2>11, <2>12 DEF RunQueueLinked
<1>11. BlockedQueueLinked'
  <2>1. \A i \in 1 .. Len(blocked) : blocked[i] # t
    BY <1>3, <1>4
  <2>2. \A i \in 1 .. Len(blocked) : _link'[blocked[i]] = _link[blocked[i]]
    BY <1>3, <1>5, <2>1
  <2>3. Len(blocked) > 0 => Len(blocked) \in 1 .. Len(blocked)
    BY <1>3
  <2>4. \A i \in 1 .. Len(blocked) - 1 : i \in 1 .. Len(blocked)
    BY <1>3
  <2> QED  BY <1>5, <2>2, <2>3, <2>4 DEF BlockedQueueLinked, Chain
<1>12. FreeThreadsUnlinked'
  BY <1>1, <1>5 DEF FreeThreadsUnlinked, Free
<1>13. EachThreadOnce'
  <2>1. \A i \in 1 .. Len(queue') : i = 1 \/ (i - 1 \in 1 .. Len(queue) /\ queue'[i] = queue[i - 1] /\ queue'[i] # t)
    BY <1>1, <1>2, <1>9
  <2>2. \A i, j \in 1 .. Len(queue') : queue'[i] = queue'[j] => i = j
    <3>1. SUFFICES ASSUME NEW i \in 1 .. Len(queue'), NEW j \in 1 .. Len(queue'), queue'[i] = queue'[j]
                   PROVE  i = j
      OBVIOUS
    <3>2. i = 1 <=> j = 1
      BY <1>1, <2>1, <3>1
    <3>3. i # 1 => i - 1 = j - 1
      BY <2>1, <3>1, <3>2 DEF EachThreadOnce
    <3> QED  BY <1>1, <1>2, <3>2, <3>3
  <2> QED  BY <1>1, <1>4, <1>5, <2>2 DEF EachThreadOnce
<1> QED  BY <1>8, <1>10, <1>11, <1>12, <1>13

LEMMA PopKeeps ==
  ASSUME QueueInv, popRunQueue
  PROVE  QueueInv'
<1> USE DEF QueueInv, QueueType
<1> DEFINE t == run_queue_hd
<1>1. /\ Len(queue) \in Nat
      /\ \A i \in 1 .. Len(queue) : queue[i] \in TSO /\ queue[i] \in Members(queue)
  BY LengthsAndMembers
<1>2. Len(queue) > 0
  BY <1>1 DEF popRunQueue, RunQueueLinked
<1>3. /\ queue' \in Seq(TSO) /\ Len(queue') = Len(queue) - 1
      /\ \A i \in 1 .. Len(queue) - 1 : queue'[i] = queue[i + 1]
      /\ Members(queue') = Members(queue) \ {queue[1]}
  <2>1. queue # <<>>
    BY <1>2
  <2>2. queue' = Tail(queue)
    BY DEF popRunQueue
  <2>3. Members(Tail(queue)) = Members(queue) \ {queue[1]}
    BY <1>2, MembersOfTail DEF EachThreadOnce
  <2> QED  BY <2>1, <2>2, <2>3, HeadTailProperties
<1>4. /\ Len(blocked) \in Nat
      /\ \A i \in 1 .. Len(blocked) : blocked[i] \in TSO /\ blocked[i] \in Members(blocked)
  BY LengthsAndMembers
<1>5. t = queue[1] /\ t \in TSO /\ t \in Members(queue)
  BY <1>1, <1>2 DEF RunQueueLinked, Chain
<1>6. /\ blocked' = blocked /\ dropped' = dropped /\ blocked_queue_hd' = blocked_queue_hd
      /\ blocked_queue_tl' = blocked_queue_tl
      /\ run_queue_hd' = _link[t] /\ n_run_queue' = n_run_queue - 1
      /\ _link' = [_link EXCEPT ![t] = END_TSO_QUEUE]
      /\ prev' = [u \in TSO |-> IF u = _link[t] THEN END_TSO_QUEUE ELSE prev[u]]
      /\ run_queue_tl' = IF _link[t] = END_TSO_QUEUE THEN END_TSO_QUEUE ELSE run_queue_tl
  BY DEF popRunQueue, blockedQueue
<1> HIDE DEF t
<1>7. QueueType'
  BY <1>3, <1>5, <1>6
<1>8. \A i \in 2 .. Len(queue) : queue[i] # t /\ _link'[queue[i]] = _link[queue[i]]
  BY <1>1, <1>2, <1>5, <1>6 DEF EachThreadOnce
<1>9. RunQueueLinked'
  <2>1. CASE Len(queue) = 1
    <3>1. _link[t] = END_TSO_QUEUE
      BY <1>5, <2>1 DEF RunQueueLinked, Chain
    <3> QED  BY <1>3, <1>6, <2>1, <3>1 DEF RunQueueLinked, Chain
  <2>2. CASE Len(queue) > 1
    <3>1. _link[t] = queue[2] /\ queue[2] \in TSO
      BY <1>1, <1>5, <2>2 DEF RunQueueLinked, Chain
    <3>2. /\ run_queue_hd' = queue'[1] /\ run_queue_tl' = run_queue_tl
          /\ run_queue_tl = queue[Len(queue)]
          /\ queue'[Len(queue')] = queue[Len(queue)]
      BY <1>1, <1>3, <1>6, <2>2, <3>1, EndAssumption DEF RunQueueLinked, Chain
    <3>3. _link'[queue[Len(queue)]] = END_TSO_QUEUE
      BY <1>1, <1>8, <2>2 DEF RunQueueLinked, Chain
    <3>4. \A i \in 1 .. Len(queue') - 1 : _link'[queue'[i]] = queue'[i + 1]
      <4>1. SUFFICES ASSUME NEW i \in 1 .. Len(queue) - 2
                     PROVE  _link'[queue'[i]] = queue'[i + 1]
        BY <1>1, <1>3
      <4>2. /\ i + 1 \in 2 .. Len(queue) - 1
            /\ queue'[i] = queue[i + 1] /\ queue'[i + 1] = queue[i + 2]
        BY <1>1, <1>3
      <4>3. _link[queue[i + 1]] = queue[i + 2]
        BY <1>1, <4>2 DEF RunQueueLinked, Chain
      <4> QED  BY <1>1, <1>8, <4>2, <4>3
    <3>5. \A i \in 2 .. Len(queue') : prev'[queue'[i]] = queue'[i - 1]
      <4>1. SUFFICES ASSUME NEW i \in 2 .. Len(queue) - 1
                     PROVE  prev'[queue'[i]] = queue'[i - 1]
        BY <1>1, <1>3
      <4>2. /\ i + 1 \in 3 .. Len(queue) /\ queue[i + 1] \in TSO
            /\ queue'[i] = queue[i + 1] /\ queue'[i - 1] = queue[i]
        BY <1>1, <1>3
      <4>3. prev[queue[i + 1]] = queue[i]
        BY <1>1, <4>2 DEF RunQueueLinked
      <4>4. queue[i + 1] # queue[2]
        BY <1>1, <2>2, <4>2 DEF EachThreadOnce
      <4> QED  BY <1>6, <3>1, <4>2, <4>3, <4>4
    <3>6. prev'[queue'[1]] = END_TSO_QUEUE
      BY <1>3, <1>6, <2>2, <3>1, <3>2
    <3>7. n_run_queue' = Len(queue')
      BY <1>1, <1>3, <1>6 DEF RunQueueLinked
    <3> QED  BY <1>1, <1>3, <2>2, <3>2, <3>3, <3>4, <3>5, <3>6, <3>7 DEF RunQueueLinked, Chain
  <2>3. ASSUME NEW n \in Nat, n > 0 PROVE n = 1 \/ n > 1
    BY ONLY <2>3
  <2>4. Len(queue) = 1 \/ Len(queue) > 1
    BY <1>1, <1>2, <2>3, Zenon
  <2> QED  BY <2>1, <2>2, <2>4
<1>10. BlockedQueueLinked'
  <2>1. \A i \in 1 .. Len(blocked) : blocked[i] # t
    BY <1>4, <1>5 DEF EachThreadOnce
  <2> QED  BY <1>4, <1>6, <2>1 DEF BlockedQueueLinked, Chain
<1>11. FreeThreadsUnlinked'
  BY <1>3, <1>5, <1>6 DEF FreeThreadsUnlinked, Free
<1>12. EachThreadOnce'
  <2>1. \A i, j \in 1 .. Len(queue') : queue'[i] = queue'[j] => i = j
    <3>1. SUFFICES ASSUME NEW i \in 1 .. Len(queue) - 1, NEW j \in 1 .. Len(queue) - 1, queue'[i] = queue'[j]
                   PROVE  i = j
      BY <1>1, <1>3
    <3>2. i + 1 \in 1 .. Len(queue) /\ j + 1 \in 1 .. Len(queue) /\ queue[i + 1] = queue[j + 1]
      BY <1>1, <1>3, <3>1
    <3>3. i + 1 = j + 1
      BY <3>2 DEF EachThreadOnce
    <3> QED  BY <3>3
  <2> QED  BY <1>3, <1>6, <2>1 DEF EachThreadOnce
<1> QED  BY <1>7, <1>9, <1>10, <1>11, <1>12

LEMMA TruncateKeeps ==
  ASSUME QueueInv, truncateRunQueue
  PROVE  QueueInv'
<1> USE DEF QueueInv, QueueType, truncateRunQueue, blockedQueue
<1>1. queue' \in Seq(TSO) /\ Len(queue') = 0 /\ Members(queue') = {}
  BY EmptySeq DEF Members
<1>2. RunQueueLinked'
  BY <1>1 DEF RunQueueLinked, Chain
<1>3. BlockedQueueLinked'
  BY DEF BlockedQueueLinked, Chain
<1>4. FreeThreadsUnlinked'
  BY <1>1 DEF FreeThreadsUnlinked, Free
<1>5. EachThreadOnce'
  BY <1>1 DEF EachThreadOnce
<1> QED  BY <1>1, <1>2, <1>3, <1>4, <1>5

LEMMA BlockKeeps ==
  ASSUME QueueInv, NEW t \in TSO, appendToBlockedQueue(t)
  PROVE  QueueInv'
<1> USE DEF QueueInv, QueueType
<1>1. /\ blocked' \in Seq(TSO) /\ Len(blocked') = Len(blocked) + 1
      /\ \A i \in 1 .. Len(blocked) : blocked'[i] = blocked[i]
      /\ blocked'[Len(blocked) + 1] = t
      /\ Members(blocked') = Members(blocked) \cup {t}
  BY AppendProperties, MembersOfAppend DEF appendToBlockedQueue
<1>2. /\ Len(queue) \in Nat
      /\ \A i \in 1 .. Len(queue) : queue[i] \in TSO /\ queue[i] \in Members(queue)
  BY LengthsAndMembers
<1>3. /\ Len(blocked) \in Nat
      /\ \A i \in 1 .. Len(blocked) : blocked[i] \in TSO /\ blocked[i] \in Members(blocked)
  BY LengthsAndMembers
<1>4. t \notin Members(queue) /\ t \notin Members(blocked) /\ _link[t] = END_TSO_QUEUE
  BY DEF appendToBlockedQueue, Free, FreeThreadsUnlinked
<1>5. /\ queue' = queue /\ dropped' = dropped /\ run_queue_hd' = run_queue_hd
      /\ run_queue_tl' = run_queue_tl /\ n_run_queue' = n_run_queue /\ prev' = prev
      /\ blocked_queue_tl' = t
  BY DEF appendToBlockedQueue, runQueue
<1>6. CASE Len(blocked) = 0
  <2>1. blocked_queue_hd' = t /\ _link' = _link
    BY <1>6 DEF appendToBlockedQueue, BlockedQueueLinked, Chain
  <2>2. QueueType'
    BY <1>1, <1>5, <2>1
  <2>3. RunQueueLinked'
    BY <1>5, <2>1 DEF RunQueueLinked, Chain
  <2>4. BlockedQueueLinked'
    BY <1>1, <1>4, <1>5, <1>6, <2>1 DEF BlockedQueueLinked, Chain
  <2>5. FreeThreadsUnlinked'
    BY <1>1, <1>5, <2>1 DEF FreeThreadsUnlinked, Free
  <2>6. EachThreadOnce'
    BY <1>1, <1>4, <1>5, <1>6 DEF EachThreadOnce
  <2> QED  BY <2>2, <2>3, <2>4, <2>5, <2>6
<1>7. CASE Len(blocked) > 0
  <2>1. /\ blocked_queue_tl = blocked[Len(blocked)] /\ blocked_queue_tl \in TSO
        /\ blocked_queue_tl \in Members(blocked)
        /\ blocked_queue_hd \in TSO
    BY <1>3, <1>7 DEF BlockedQueueLinked, Chain
  <2>2. /\ blocked_queue_hd' = blocked_queue_hd
        /\ _link' = [_link EXCEPT ![blocked_queue_tl] = t]
    BY <2>1, EndAssumption DEF appendToBlockedQueue
  <2>3. QueueType'
    BY <1>1, <1>5, <2>1, <2>2
  <2>4. RunQueueLinked'
    <3>1. \A i \in 1 .. Len(queue) : queue[i] # blocked_queue_tl
      BY <1>2, <2>1 DEF EachThreadOnce
    <3> QED  BY <1>2, <1>5, <2>2, <3>1 DEF RunQueueLinked, Chain
  <2>5. BlockedQueueLinked'
    <3>1. \A i \in 1 .. Len(blocked) - 1 : blocked[i] # blocked_queue_tl
      BY <1>3, <2>1 DEF EachThreadOnce
    <3>2. \A i \in 1 .. Len(blocked) - 1 : _link'[blocked[i]] = blocked[i + 1]
      BY <1>3, <2>2, <3>1 DEF BlockedQueueLinked, Chain
    <3>3. _link'[blocked[Len(blocked)]] = t /\ _link'[t] = END_TSO_QUEUE
      BY <1>3, <1>4, <1>7, <2>1, <2>2
    <3>4. \A i \in 1 .. Len(blocked') - 1 : _link'[blocked'[i]] = blocked'[i + 1]
      BY <1>1, <1>3, <3>2, <3>3
    <3> QED  BY <1>1, <1>3, <1>5, <1>7, <2>2, <3>3, <3>4 DEF BlockedQueueLinked, Chain
  <2>6. FreeThreadsUnlinked'
    BY <1>1, <1>5, <2>1, <2>2 DEF FreeThreadsUnlinked, Free
  <2>7. EachThreadOnce'
    <3>1. \A i \in 1 .. Len(blocked') : \/ i \in 1 .. Len(blocked) /\ blocked'[i] = blocked[i] /\ blocked'[i] # t
                                        \/ i = Len(blocked) + 1 /\ blocked'[i] = t
      <4>1. \A i \in 1 .. Len(blocked) : blocked'[i] = blocked[i] /\ blocked'[i] # t
        BY <1>1, <1>3, <1>4
      <4>2. \A i \in 1 .. Len(blocked') : i \in 1 .. Len(blocked) \/ i = Len(blocked) + 1
        BY <1>1, <1>3
      <4> QED  BY <1>1, <4>1, <4>2
    <3>2. \A i, j \in 1 .. Len(blocked') : blocked'[i] = blocked'[j] => i = j
      BY <3>1 DEF EachThreadOnce
    <3> QED  BY <1>1, <1>4, <1>5, <3>2 DEF EachThreadOnce
  <2> QED  BY <2>3, <2>4, <2>5, <2>6, <2>7
<1> QED  BY <1>3, <1>6, <1>7

LEMMA NextKeeps == ASSUME QueueInv, [QueuesNext]_queuesVars PROVE QueueInv'
<1>1. CASE UNCHANGED queuesVars
  <2> USE <1>1 DEF queuesVars, runQueue, blockedQueue
  <2>1. QueueType' /\ RunQueueLinked' /\ BlockedQueueLinked'
    BY DEF QueueInv, QueueType, RunQueueLinked, BlockedQueueLinked, Chain
  <2>2. FreeThreadsUnlinked'
    BY DEF QueueInv, FreeThreadsUnlinked, Free, Members
  <2>3. EachThreadOnce'
    BY DEF QueueInv, EachThreadOnce, Members
  <2> QED  BY <2>1, <2>2, <2>3 DEF QueueInv
<1> QED  BY <1>1, AppendKeeps, PushKeeps, PopKeeps, TruncateKeeps, BlockKeeps DEF QueuesNext

LEMMA QueueInvariant == QueuesSpec => []QueueInv
BY InitQueues, NextKeeps, PTL DEF QueuesSpec

\* For any threads: the links, the back links, the ends and the counter of
\* the run queue spell the threads in the order they are to run
\* (appendToRunQueue, pushOnRunQueue, popRunQueue, truncateRunQueue,
\* Schedule.h:132-187, 226-232).
THEOREM RunQueueIsLinked == QueuesSpec => []RunQueueLinked
<1>1. QueueInv => RunQueueLinked
  BY DEF QueueInv
<1> QED  BY <1>1, QueueInvariant, PTL

\* For any threads: the queue of blocked threads is a list of its own though
\* it shares the _link field (appendToBlockedQueue, Schedule.h:199-209).
THEOREM BlockedQueueIsLinked == QueuesSpec => []BlockedQueueLinked
<1>1. QueueInv => BlockedQueueLinked
  BY DEF QueueInv
<1> QED  BY <1>1, QueueInvariant, PTL

\* For any threads: a thread that is in no queue and was not dropped has no
\* link, which is what the append functions assert (Schedule.h:135, 202).
THEOREM AppendAssertionsHold == QueuesSpec => []FreeThreadsUnlinked
<1>1. QueueInv => FreeThreadsUnlinked
  BY DEF QueueInv
<1> QED  BY <1>1, QueueInvariant, PTL

-----------------------------------------------------------------------------
(***************************************************************************)
(* BlockSearch, for every number of blocks and characters.                 *)
(***************************************************************************)

-----------------------------------------------------------------------------
(* The arrays hold ascending blocks and the interval is never empty.       *)
SearchType ==
  /\ _first \in [Blocks -> Chars]
  /\ _last \in [Blocks -> Chars]
  /\ Ascending(_first, _last)
  /\ key \in Chars
  /\ start \in Nat
  /\ end \in Nat
  /\ start < end
  /\ end =< key + 1
  /\ result \in Blocks \cup {Unknown, -1}

(* What halving keeps: for a character below the number of blocks, the     *)
(* block it is in, if any, is in the interval, and the search does not     *)
(* give up on it.                                                          *)
BlockInInterval ==
  key < NumBlocks =>
    \A i \in Blocks : IsIn(key, i) => start =< i /\ i < end /\ result # -1

SearchInv == SearchType /\ AnswerIsRight /\ BlockInInterval

\* Block i begins at character i or later: i + 1 blocks cannot begin at
\* fewer than i + 1 characters.
LEMMA BlocksBeginLate ==
  ASSUME NEW f \in [Blocks -> Chars], NEW l \in [Blocks -> Chars], Ascending(f, l),
         NEW i \in Blocks
  PROVE  i =< f[i]
<1> USE NumBlocksAssumption, MaxCharAssumption DEF Blocks, Chars
<1>1. SUFFICES ASSUME f[i] < i
               PROVE  FALSE
  OBVIOUS
<1> DEFINE S == 0 .. i
           T == 0 .. f[i]
           g == [j \in S |-> f[j]]
<1>2. IsFiniteSet(S) /\ IsFiniteSet(T) /\ Cardinality(T) < Cardinality(S)
  <2>1. f[i] \in Nat /\ i \in Nat
    OBVIOUS
  <2>2. IsFiniteSet(S) /\ Cardinality(S) = i + 1
    BY ONLY <2>1, FS_Interval, 0 \in Int
  <2>3. IsFiniteSet(T) /\ Cardinality(T) = f[i] + 1
    BY ONLY <2>1, FS_Interval, 0 \in Int
  <2> QED  BY ONLY <1>1, <2>1, <2>2, <2>3
<1>3. g \in [S -> T]
  <2>1. \A j \in S : f[j] \in 0 .. f[i]
    BY DEF Ascending
  <2> QED  BY <2>1
<1>4. \E x, y \in S : x # y /\ g[x] = g[y]
  <2> HIDE DEF S, T, g
  <2> QED  BY <1>2, <1>3, FS_PigeonHole
<1>5. PICK x, y \in S : x # y /\ g[x] = g[y]
  BY <1>4
<1>6. x < y \/ y < x
  BY <1>5
<1> QED  BY <1>5, <1>6 DEF Ascending

\* A block that has a character has no larger or smaller neighbour with it.
LEMMA OrderOfBlocks ==
  ASSUME SearchType, NEW i \in Blocks, IsIn(key, i), NEW p \in Blocks
  PROVE  /\ key < _first[p] => i < p
         /\ key > _last[p] => p < i
BY NumBlocksAssumption, MaxCharAssumption DEF SearchType, IsIn, Ascending, Blocks, Chars

LEMMA InitSearch == ASSUME SearchInit PROVE SearchInv
<1> USE NumBlocksAssumption, MaxCharAssumption DEF SearchInit, _property, Chars, Blocks, Unknown
<1>1. SearchType
  BY DEF SearchType
<1>2. BlockInInterval
  <2>1. SUFFICES ASSUME NEW i \in Blocks, IsIn(key, i)
                 PROVE  start =< i /\ i < end /\ result # -1
    BY DEF BlockInInterval
  <2>2. i =< _first[i]
    BY BlocksBeginLate
  <2> QED  BY <2>1, <2>2 DEF IsIn
<1> QED  BY <1>1, <1>2 DEF SearchInv, AnswerIsRight

LEMMA NextSearch == ASSUME SearchInv, [_bbsearch]_searchVars PROVE SearchInv'
<1> USE NumBlocksAssumption, MaxCharAssumption DEF SearchInv, Chars, Blocks, Unknown
<1>0. /\ pivot \in Nat /\ start =< pivot /\ pivot < end
      /\ ~isBaseCase => start < pivot
      /\ isBaseCase => pivot = start
  BY DEF SearchType, pivot, isBaseCase
<1>1. CASE GoLeft
  <2>1. SearchType'
    BY SMTT(30), <1>0, <1>1 DEF GoLeft, GiveUp, Searching, SearchType, Ascending
  <2>2. BlockInInterval'
    <3>1. SUFFICES ASSUME key < NumBlocks, NEW i \in Blocks, IsIn(key, i)
                   PROVE  start' =< i /\ i < end' /\ result' # -1
      BY <1>1 DEF GoLeft, Searching, BlockInInterval, IsIn
    <3>2. i < pivot
      BY <1>1, <3>1, OrderOfBlocks DEF GoLeft, Left
    <3> QED  BY SMTT(30), <1>0, <1>1, <3>1, <3>2 DEF GoLeft, GiveUp, Searching, BlockInInterval, SearchType
  <2>3. AnswerIsRight'
    BY <1>1 DEF GoLeft, GiveUp, Searching, AnswerIsRight
  <2> QED  BY <2>1, <2>2, <2>3
<1>2. CASE Found
  <2>1. SearchType'
    BY <1>2 DEF Found, Here, Searching, SearchType, Ascending
  <2>2. BlockInInterval'
    BY <1>0, <1>2 DEF Found, Here, Searching, BlockInInterval, IsIn
  <2>3. AnswerIsRight'
    BY <1>2 DEF Found, Here, Searching, AnswerIsRight, IsIn, SearchType
  <2> QED  BY <2>1, <2>2, <2>3
<1>3. CASE GoRight
  <2>1. SearchType'
    BY <1>0, <1>3 DEF GoRight, GiveUp, Searching, SearchType, Ascending
  <2>2. BlockInInterval'
    <3>1. SUFFICES ASSUME key < NumBlocks, NEW i \in Blocks, IsIn(key, i)
                   PROVE  start' =< i /\ i < end' /\ result' # -1
      BY <1>3 DEF GoRight, Searching, BlockInInterval, IsIn
    <3>2. pivot \in Blocks /\ key > _last[pivot]
      BY <1>0, <1>3, <3>1 DEF GoRight, Right, Left, Here, SearchType
    <3>3. pivot < i
      BY <3>1, <3>2, OrderOfBlocks
    <3> QED  BY SMTT(30), <1>0, <1>3, <3>1, <3>3 DEF GoRight, GiveUp, Searching, BlockInInterval, SearchType, isBaseCase
  <2>3. AnswerIsRight'
    BY <1>3 DEF GoRight, GiveUp, Searching, AnswerIsRight
  <2> QED  BY <2>1, <2>2, <2>3
<1>4. CASE UNCHANGED searchVars
  BY <1>4 DEF searchVars, SearchType, Ascending, BlockInInterval, AnswerIsRight, IsIn
<1> QED  BY <1>1, <1>2, <1>3, <1>4 DEF _bbsearch

LEMMA SearchInvariant == SearchSpec => []SearchInv
BY InitSearch, NextSearch, PTL DEF SearchSpec

\* For every table and every character: an answer names the character's
\* block (_bbsearch, rts.unicode.mjs:17-27).
THEOREM SearchAnswersRight == SearchSpec => []AnswerIsRight
<1>1. SearchInv => AnswerIsRight
  BY DEF SearchInv
<1> QED  BY <1>1, SearchInvariant, PTL

\* For every table, a lookup of a character below the number of blocks that
\* fails means that no block has the character: starting with the interval
\* 0 .. c is right as long as it lies in the arrays (_property,
\* rts.unicode.mjs:29-32).
THEOREM SearchFindsInside == SearchSpec => []FoundIfInside
<1>1. SearchInv => FoundIfInside
  BY DEF SearchInv, FoundIfInside, BlockInInterval
<1> QED  BY <1>1, SearchInvariant, PTL

\* For every table and every character the interval of each call is not
\* empty and smaller than its caller's: the recursion ends (_bbsearch,
\* rts.unicode.mjs:17-27).
THEOREM SearchIntervalShrinks == SearchSpec => IntervalShrinks
<1>1. ASSUME SearchInv, SearchInv', [_bbsearch]_searchVars
      PROVE  [result' = Unknown => start' < end' /\ end' - start' < end - start]_searchVars
  <2>1. SUFFICES ASSUME _bbsearch, result' = Unknown
                 PROVE  start' < end' /\ end' - start' < end - start
    BY <1>1
  <2>2. start' < end'
    <3>1. SearchType'
      BY <1>1 DEF SearchInv
    <3> QED  BY <3>1, Zenon DEF SearchType
  <2>3. /\ start \in Nat /\ end \in Nat /\ start < end
    BY <1>1 DEF SearchInv, SearchType
  <2>4. ~isBaseCase => start < pivot /\ pivot < end
    BY <2>3 DEF pivot, isBaseCase
  <2>5. \/ ~isBaseCase /\ end' = pivot /\ start' = start
        \/ ~isBaseCase /\ start' = pivot /\ end' = end
    BY <2>1, NumBlocksAssumption DEF _bbsearch, GoLeft, GoRight, Found, GiveUp, Unknown, Here, Blocks
  <2>6. pivot \in Int
    BY <2>3 DEF pivot
  <2> QED  BY <2>2, <2>3, <2>4, <2>5, <2>6
<1> QED  BY <1>1, SearchInvariant, PTL DEF SearchSpec, IntervalShrinks

-----------------------------------------------------------------------------
(***************************************************************************)
(* AtomicBytes, for every number of threads and calls and every word size. *)
(***************************************************************************)

-----------------------------------------------------------------------------
(* The arrays indexed by threads keep their domain. *)
ThreadArrays ==
  /\ DOMAIN pc = Threads /\ pc = [t \in Threads |-> pc[t]]
  /\ DOMAIN call = Threads /\ call = [t \in Threads |-> call[t]]
  /\ DOMAIN res = Threads /\ res = [t \in Threads |-> res[t]]

LEMMA InitArrays == ASSUME Init PROVE ThreadArrays
BY DEF Init, ThreadArrays

LEMMA NextArrays == ASSUME ThreadArrays, [Next]_vars PROVE ThreadArrays'
<1>1. ASSUME NEW t \in Threads, NEW c \in Calls, Call(t, c)  PROVE ThreadArrays'
  BY <1>1 DEF ThreadArrays, Call
<1>2. ASSUME NEW t \in Threads, Step(t)  PROVE ThreadArrays'
  BY <1>2 DEF ThreadArrays, Step, Builtin, ReadTmp, Swap, SwapFails, Return
<1>3. CASE UNCHANGED vars
  BY <1>3 DEF ThreadArrays, vars
<1> QED  BY <1>1, <1>2, <1>3 DEF Next

\* Each step of a thread is a step of the abstract object or none.
LEMMA StepIsAtomic ==
  ASSUME ThreadArrays, NEW t \in Threads, Step(t)
  PROVE  Atomic!Perform(t) \/ Atomic!Return(t) \/ UNCHANGED <<mem, stage, call, res>>
<1>1. CASE Builtin(t)
  <2>1. stage' = [stage EXCEPT ![t] = "done"]
    BY <1>1 DEF Builtin, stage, ThreadArrays
  <2> QED  BY <1>1, <2>1 DEF Builtin, stage, Atomic!Perform
<1>2. CASE ReadTmp(t)
  <2>1. stage' = stage
    BY <1>2 DEF ReadTmp, stage, ThreadArrays
  <2> QED  BY <1>2, <2>1 DEF ReadTmp
<1>3. CASE Swap(t)
  <2>1. stage[t] = "called" /\ stage' = [stage EXCEPT ![t] = "done"]
    BY <1>3 DEF Swap, stage, ThreadArrays
  <2>2. mem' = NewMem(call[t], mem)
    BY <1>3 DEF Swap, NewMem
  <2>3. res' = [res EXCEPT ![t] = Answer(call[t], mem)]
    BY <1>3 DEF Swap, Answer
  <2> QED  BY <1>3, <2>1, <2>2, <2>3 DEF Swap, Atomic!Perform
<1>4. CASE SwapFails(t)
  <2>1. stage' = stage
    BY <1>4 DEF SwapFails, stage, ThreadArrays
  <2> QED  BY <1>4, <2>1 DEF SwapFails
<1>5. CASE Return(t)
  <2>1. stage[t] = "done" /\ stage' = [stage EXCEPT ![t] = "idle"]
    BY <1>5 DEF Return, stage, ThreadArrays
  <2> QED  BY <1>5, <2>1 DEF Return, Atomic!Return
<1> QED  BY <1>1, <1>2, <1>3, <1>4, <1>5 DEF Step

LEMMA CallIsAtomic ==
  ASSUME ThreadArrays, NEW t \in Threads, NEW c \in Calls, Call(t, c)
  PROVE  Atomic!Call(t, c)
<1>1. stage[t] = "idle" /\ stage' = [stage EXCEPT ![t] = "called"]
  BY DEF Call, stage, ThreadArrays
<1> QED  BY <1>1 DEF Call, Atomic!Call

LEMMA NextIsAtomic ==
  ASSUME ThreadArrays, [Next]_vars
  PROVE  [Atomic!Next]_<<mem, stage, call, res>>
<1>1. CASE UNCHANGED vars
  BY <1>1 DEF vars, stage
<1>2. ASSUME NEW t \in Threads, Step(t)  PROVE [Atomic!Next]_<<mem, stage, call, res>>
  BY <1>2, StepIsAtomic DEF Atomic!Next
<1>3. ASSUME NEW t \in Threads, NEW c \in Calls, Call(t, c)  PROVE Atomic!Next
  BY <1>3, CallIsAtomic DEF Atomic!Next
<1> QED  BY <1>1, <1>2, <1>3 DEF Next

\* The functions of atomic.c implement the abstract atomic object: a builtin
\* and a successful compare-and-swap are the step in which the call takes
\* effect, reading and failing swaps are no steps of it (CAS_NAND,
\* atomic.c:149-156, and the fallbacks of hs_atomicwrite, 380-421).
THEOREM AtomicBytesAreAtomic == Spec => ImplementsAtomicObject
<1>1. Init => Atomic!Init
  BY DEF Init, Atomic!Init, stage
<1> QED  BY <1>1, InitArrays, NextArrays, NextIsAtomic, PTL
         DEF Spec, Atomic!Spec, ImplementsAtomicObject

-----------------------------------------------------------------------------
(***************************************************************************)
(* Unlit, for an input of any length.                                      *)
(***************************************************************************)

\* Appending and joining, for the input and the output.
LEMMA AppendedTo ==
  ASSUME NEW S, NEW s \in Seq(S), NEW e \in S, NEW t, t = Append(s, e)
  PROVE  /\ t \in Seq(S) /\ Len(s) \in Nat /\ Len(t) = Len(s) + 1 /\ t[Len(s) + 1] = e
         /\ \A i \in 1 .. Len(s) : t[i] = s[i]
BY AppendProperties, LenProperties

LEMMA JoinedTo ==
  ASSUME NEW S, NEW s \in Seq(S), NEW w \in Seq(S), NEW t, t = s \o w
  PROVE  /\ t \in Seq(S) /\ Len(s) \in Nat /\ Len(w) \in Nat /\ Len(t) = Len(s) + Len(w)
         /\ \A i \in 1 .. Len(s) : t[i] = s[i]
         /\ \A i \in 1 .. Len(w) : t[Len(s) + i] = w[i]
BY ConcatProperties, LenProperties

\* Complaints the next line does to what the author means.
LEMMA LineAdded ==
  ASSUME input \in Seq(LineKinds), NEW k \in LineKinds, input' = Append(input, k),
         ignore_shebang' = ignore_shebang, NEW n \in Nat, n = Len(input)
  PROVE  /\ \A m \in 0 .. n : Open(m)' <=> Open(m)
         /\ Open(n + 1)' <=> k = "begin" \/ (Open(n) /\ k \notin {"end", "endMore"})
         /\ Mistaken' <=> \/ Mistaken
                          \/ k = "bareHash" /\ ~Open(n) /\ ignore_shebang
                          \/ k = "longEnd" /\ Open(n)
         /\ Miscounted' <=> Miscounted \/ (k = "long" /\ Open(n))
<1>1. /\ Len(input') = n + 1 /\ input'[n + 1] = k
      /\ \A i \in 1 .. n : input'[i] = input[i]
  BY AppendedTo
<1>2. ASSUME NEW m \in 0 .. n PROVE Open(m)' <=> Open(m)
  <2>1. \A i \in 1 .. m : i \in 1 .. n
    BY <1>1
  <2> QED BY <1>1, <2>1 DEF Open
<1>3. Open(n + 1)' <=> k = "begin" \/ (Open(n) /\ k \notin {"end", "endMore"})
  <2>1. ASSUME Open(n + 1)', k # "begin"
        PROVE  Open(n) /\ k \notin {"end", "endMore"}
    <3>1. PICK j \in 1 .. n + 1 :
            input'[j] = "begin" /\ \A i \in j + 1 .. n + 1 : input'[i] \notin {"end", "endMore"}
      BY <2>1 DEF Open
    <3>2. j \in 1 .. n
      BY <1>1, <2>1, <3>1
    <3>3. \A i \in j + 1 .. n : i \in j + 1 .. n + 1 /\ i \in 1 .. n
      BY <1>1, <3>2
    <3>4. n + 1 \in j + 1 .. n + 1
      BY <1>1, <3>2
    <3> QED BY <1>1, <3>1, <3>2, <3>3, <3>4 DEF Open
  <2>2. ASSUME k = "begin" PROVE Open(n + 1)'
    <3>1. n + 1 \in 1 .. n + 1 /\ \A i \in n + 1 + 1 .. n + 1 : FALSE
      BY <1>1
    <3> QED BY <1>1, <2>2, <3>1 DEF Open
  <2>3. ASSUME Open(n), k \notin {"end", "endMore"} PROVE Open(n + 1)'
    <3>1. PICK j \in 1 .. n :
            input[j] = "begin" /\ \A i \in j + 1 .. n : input[i] \notin {"end", "endMore"}
      BY <2>3 DEF Open
    <3>2. j \in 1 .. n + 1 /\ \A i \in j + 1 .. n + 1 :
            (i \in 1 .. n /\ i \in j + 1 .. n) \/ i = n + 1
      BY <1>1
    <3> QED BY <1>1, <2>3, <3>1, <3>2 DEF Open
  <2> QED BY <2>1, <2>2, <2>3
<1>4. ASSUME NEW i \in 1 .. n + 1
      PROVE  Inside(i)' <=> Open(i - 1)
  <2>1. i - 1 \in 0 .. n
    BY <1>1
  <2> QED BY <2>1, <1>2 DEF Inside
<1>5. /\ \A i \in 1 .. n : i \in 1 .. n + 1
      /\ \A i \in 1 .. n + 1 : i \in 1 .. n \/ i = n + 1
      /\ n + 1 \in 1 .. n + 1 /\ n + 1 - 1 = n
  BY <1>1
<1>6. Mistaken' <=> \E i \in 1 .. n + 1 :
                      \/ input'[i] = "bareHash" /\ ~Open(i - 1) /\ ignore_shebang
                      \/ input'[i] = "longEnd" /\ Open(i - 1)
  BY <1>1, <1>4 DEF Mistaken
<1>7. Miscounted' <=> \E i \in 1 .. n + 1 : input'[i] = "long" /\ Open(i - 1)
  BY <1>1, <1>4 DEF Miscounted
<1>8. Mistaken' <=> \/ Mistaken
                    \/ k = "bareHash" /\ ~Open(n) /\ ignore_shebang
                    \/ k = "longEnd" /\ Open(n)
  BY <1>1, <1>5, <1>6 DEF Mistaken, Inside
<1>9. Miscounted' <=> Miscounted \/ (k = "long" /\ Open(n))
  BY <1>1, <1>5, <1>7 DEF Miscounted, Inside
<1> QED BY <1>2, <1>3, <1>8, <1>9

-----------------------------------------------------------------------------
Complaints == {"MISSINGBLANK", "SPURIOUSENDCODE", "MISSINGENDCODE", "EMPTYSCRIPT"}

UnlitType ==
  /\ noisy \in BOOLEAN /\ crunchnl \in BOOLEAN /\ ignore_shebang \in BOOLEAN /\ pragma \in BOOLEAN
  /\ input \in Seq(LineKinds) /\ Len(input) <= MaxLines
  /\ output \in Seq(Int) /\ \A p \in 1 .. Len(output) : output[p] \in -1 .. Len(input)
  /\ complaints \subseteq Nat \X Complaints
  /\ linesread \in Nat /\ linesread <= 2 * Len(input) + (IF mode = "done" THEN 1 ELSE 0)
  /\ defnsread \in Nat /\ defnsread <= Len(input)
  /\ mode \in {"unlit", "block", "eof", "done", "failed"}
  /\ status \in {0, 1, NoStatus} /\ (status = NoStatus <=> mode \in {"unlit", "block", "eof"})

\* A line has been written just when it is code.
CodeInv ==
  ~Mistaken => \A i \in 1 .. Len(input) : IsCode(i) <=> \E p \in 1 .. Len(output) : output[p] = i

\* Complaints the last line left behind it.
LastLine ==
  IF Len(input) = 0 THEN "START"
  ELSE IF Inside(Len(input)) THEN "BEGIN" ELSE LineOf(input[Len(input)])

\* The loop that runs is the one for the place the input has reached, the last line is
\* known to it, and its counter is the number of lines unless fgets has split one.
ModeInv ==
  /\ mode = "eof" => Mistaken
  /\ ~Mistaken =>
       /\ mode = "unlit" \/ status = 0 => ~Open(Len(input))
       /\ mode = "unlit" => this = LastLine
       /\ mode = "block" => Open(Len(input)) /\ this = "BEGIN"
       /\ ~Miscounted /\ mode \in {"unlit", "block"} => linesread = Len(input)
       /\ defnsread > 0 => \E i \in 1 .. Len(input) : input[i] \in {"defn", "end", "endMore"}
       /\ noisy /\ status = 0 => defnsread > 0

\* What ComplaintsFit says, line by line and before the end.
Unseparated(i) ==
  \/ i < Len(input) /\ Beside(i, {"defn"}, Texts)
  \/ i > 1 /\ Beside(i - 1, Texts, {"defn"})

Spurious(i) == ~Inside(i) /\ input[i] \in {"end", "indentedEnd"}

ComplaintsInv ==
  noisy /\ ~Mistaken /\ ~Miscounted =>
    \A i \in Nat :
      /\ <<i, "MISSINGBLANK">> \in complaints <=> i \in 1 .. Len(input) /\ Unseparated(i)
      /\ <<i, "SPURIOUSENDCODE">> \in complaints <=> i \in 1 .. Len(input) /\ Spurious(i)

UnlitInv == UnlitType /\ LineNumbersKept /\ CodeInv /\ ModeInv /\ ComplaintsInv

\* Complaints is copied at the end of the output.
LEMMA CodeAdded ==
  ASSUME input \in Seq(LineKinds), NEW k \in LineKinds, input' = Append(input, k),
         ignore_shebang' = ignore_shebang, NEW n \in Nat, n = Len(input),
         output \in Seq(Int), NEW w \in Seq(Int), output' = output \o w, Len(w) <= 1,
         \A p \in 1 .. Len(output) : output[p] \in -1 .. n,
         CodeInv, ~Mistaken', 
         IsCode(n + 1)' <=> (Len(w) = 1 /\ w[1] = n + 1),
         Len(w) = 1 => w[1] \in {-1, 0, n + 1}
  PROVE  CodeInv'
<1>1. /\ Len(input') = n + 1
      /\ \A i \in 1 .. n : input'[i] = input[i]
  BY AppendedTo
<1>2. /\ Len(output) \in Nat /\ Len(w) \in Nat /\ Len(output') = Len(output) + Len(w)
      /\ \A p \in 1 .. Len(output) : output'[p] = output[p]
      /\ Len(w) = 1 => output'[Len(output) + 1] = w[1]
  BY JoinedTo
<1>7. \A p \in 1 .. Len(output') : p \in 1 .. Len(output) \/ (Len(w) = 1 /\ p = Len(output) + 1)
  <2>1. PICK a \in Nat : a = Len(output)
    BY <1>2
  <2>2. PICK b \in Nat : b = Len(w)
    BY <1>2
  <2>3. Len(output') = a + b /\ b <= 1
    BY <1>2, <2>1, <2>2
  <2>4. \A p \in 1 .. a + b : p \in 1 .. a \/ (b = 1 /\ p = a + 1)
    BY <2>3
  <2> QED BY <2>1, <2>2, <2>3, <2>4
<1>3. ASSUME NEW i \in 1 .. n PROVE IsCode(i)' <=> IsCode(i)
  <2>1. i - 1 \in 0 .. n
    OBVIOUS
  <2>2. Inside(i)' <=> Inside(i)
    BY <2>1, LineAdded DEF Inside
  <2> QED BY <1>1, <2>2 DEF IsCode
<1>4. ~Mistaken
  BY LineAdded
<1> SUFFICES ASSUME NEW i \in 1 .. n + 1
             PROVE  IsCode(i)' <=> \E p \in 1 .. Len(output') : output'[p] = i
  BY <1>1 DEF CodeInv
<1>5. CASE i \in 1 .. n
  <2>1. IsCode(i) <=> \E p \in 1 .. Len(output) : output[p] = i
    BY <1>4, <1>5 DEF CodeInv
  <2>3. \A p \in 1 .. Len(output) : p \in 1 .. Len(output')
    BY <1>2
  <2>4. Len(w) = 1 => w[1] # i
    BY <1>5
  <2> QED BY <1>2, <1>3, <1>5, <1>7, <2>1, <2>3, <2>4
<1>6. CASE i = n + 1
  <2>1. \A p \in 1 .. Len(output) : output'[p] # i
    BY <1>2, <1>6
  <2>3. Len(w) = 1 => Len(output) + 1 \in 1 .. Len(output')
    BY <1>2
  <2> QED BY <1>2, <1>6, <1>7, <2>1, <2>3
<1> QED BY <1>5, <1>6

\* The numbers of the lines are kept when the output grows with the input; a # that
\* stands alone in the last line may leave one line more.
LEMMA NumbersAdded ==
  ASSUME output \in Seq(Int), NEW w \in Seq(Int), output' = output \o w,
         NEW n \in Nat, n = Len(input), crunchnl' = crunchnl, pragma' = pragma, LineNumbersKept,
         mode \in {"unlit", "block"}, Len(input') \in Nat,
         ~crunchnl => /\ \/ Len(w) = Len(input') - n
                         \/ Len(w) = Len(input') - n + 1 /\ EndsInBareHash'
                      /\ \A j \in 1 .. Len(w) : w[j] > 0 => w[j] = n + j
  PROVE  LineNumbersKept'
<1> SUFFICES ASSUME ~crunchnl
             PROVE  /\ \/ Len(output') - Len(input') - Offset = 0
                       \/ Len(output') - Len(input') - Offset = 1 /\ EndsInBareHash'
                    /\ \A p \in 1 .. Len(output') : output'[p] > 0 => output'[p] = p - Offset
  BY DEF LineNumbersKept, Offset
<1>6. Len(output) - n - Offset = 0
  BY DEF LineNumbersKept, EndsInBareHash
<1>7. PICK c \in Nat : c = Len(input')
  OBVIOUS
<1>1. PICK a \in Nat : a = Len(output)
  BY JoinedTo
<1>2. PICK b \in Nat : b = Len(w)
  BY JoinedTo
<1>3. PICK f \in {0, 1} : f = Offset
  BY DEF Offset
<1>4. /\ Len(output') = a + b /\ a = n + f
      /\ b = c - n \/ (b = c - n + 1 /\ EndsInBareHash')
      /\ \A p \in 1 .. a : output'[p] > 0 => output'[p] = p - f
      /\ \A j \in 1 .. b : output'[a + j] = w[j] /\ (w[j] > 0 => w[j] = n + j)
  BY <1>1, <1>2, <1>3, <1>6, <1>7, JoinedTo DEF LineNumbersKept
<1>5. ASSUME NEW p \in 1 .. a + b, output'[p] > 0 PROVE output'[p] = p - f
  <2>1. CASE p \in 1 .. a
    BY <2>1, <1>4, <1>5
  <2>2. CASE p \notin 1 .. a
    <3>1. p - a \in 1 .. b /\ a + (p - a) = p
      BY <2>2
    <3>2. output'[p] = w[p - a] /\ (w[p - a] > 0 => w[p - a] = n + (p - a))
      BY <3>1, <1>4
    <3> QED BY <3>2, <1>4, <1>5
  <2> QED BY <2>1, <2>2
<1> QED BY <1>3, <1>4, <1>5, <1>7

\* The complaints C about a new line are those that the invariant asks for.
LEMMA ComplaintsAdded ==
  ASSUME input \in Seq(LineKinds), NEW k \in LineKinds, input' = Append(input, k),
         ignore_shebang' = ignore_shebang, noisy' = noisy, NEW n \in Nat, n = Len(input),
         NEW C, complaints' = complaints \cup C, ComplaintsInv,
         noisy /\ ~Mistaken' /\ ~Miscounted' =>
           \A i \in Nat :
             /\ <<i, "MISSINGBLANK">> \in C <=>
                  /\ n >= 1
                  /\ \/ i = n /\ Beside(n, {"defn"}, Texts)'
                     \/ i = n + 1 /\ Beside(n, Texts, {"defn"})'
             /\ <<i, "SPURIOUSENDCODE">> \in C <=> i = n + 1 /\ Spurious(n + 1)'
  PROVE  ComplaintsInv'
<1>0. Len(input') = n + 1
  BY AppendedTo
<1> SUFFICES ASSUME noisy, ~Mistaken', ~Miscounted', NEW i \in Nat
             PROVE  /\ <<i, "MISSINGBLANK">> \in complaints' <=> i \in 1 .. n + 1 /\ Unseparated(i)'
                    /\ <<i, "SPURIOUSENDCODE">> \in complaints' <=> i \in 1 .. n + 1 /\ Spurious(i)'
  BY <1>0 DEF ComplaintsInv
<1>1. /\ Len(input') = n + 1
      /\ \A j \in 1 .. n : input'[j] = input[j]
  BY AppendedTo
<1>2. ~Mistaken /\ ~Miscounted
  BY LineAdded
<1>3. /\ <<i, "MISSINGBLANK">> \in complaints <=> i \in 1 .. n /\ Unseparated(i)
      /\ <<i, "SPURIOUSENDCODE">> \in complaints <=> i \in 1 .. n /\ Spurious(i)
  BY <1>2 DEF ComplaintsInv
<1>9a. /\ <<i, "MISSINGBLANK">> \in C <=>
             /\ n >= 1
             /\ \/ i = n /\ Beside(n, {"defn"}, Texts)'
                \/ i = n + 1 /\ Beside(n, Texts, {"defn"})'
       /\ <<i, "SPURIOUSENDCODE">> \in C <=> i = n + 1 /\ Spurious(n + 1)'
  OBVIOUS
<1>4. \A j \in 1 .. n + 1 : Inside(j)' <=> Open(j - 1)
  <2> SUFFICES ASSUME NEW j \in 1 .. n + 1 PROVE Inside(j)' <=> Open(j - 1)
    OBVIOUS
  <2>1. j - 1 \in 0 .. n
    OBVIOUS
  <2> QED BY <2>1, LineAdded DEF Inside
<1>5. ASSUME i \in 1 .. n PROVE Spurious(i)' <=> Spurious(i)
  BY <1>1, <1>4, <1>5 DEF Spurious, Inside
<1>6. ASSUME NEW j \in 1 .. n - 1, NEW S, NEW T PROVE Beside(j, S, T)' <=> Beside(j, S, T)
  <2>1. j \in 1 .. n /\ j + 1 \in 1 .. n /\ j \in 1 .. n + 1 /\ j + 1 \in 1 .. n + 1
    OBVIOUS
  <2> QED BY <1>1, <1>4, <2>1 DEF Beside, Inside
<1>7. CASE i \in 1 .. n - 1
  <2>1. Beside(i, {"defn"}, Texts)' <=> Beside(i, {"defn"}, Texts)
    BY <1>6, <1>7
  <2>2. i > 1 => (Beside(i - 1, Texts, {"defn"})' <=> Beside(i - 1, Texts, {"defn"}))
    <3>1. i > 1 => i - 1 \in 1 .. n - 1
      BY <1>7
    <3> QED BY <3>1, <1>6
  <2>3. Unseparated(i)' <=> Unseparated(i)
    BY <2>1, <2>2, <1>1, <1>7 DEF Unseparated
  <2> QED BY <2>3, <1>3, <1>5, <1>7
<1>8. CASE i = n /\ n >= 1
  <2>1. n > 1 => (Beside(n - 1, Texts, {"defn"})' <=> Beside(n - 1, Texts, {"defn"}))
    <3>1. n > 1 => n - 1 \in 1 .. n - 1
      BY <1>8
    <3> QED BY <3>1, <1>6
  <2>2. Unseparated(i)' <=> Beside(n, {"defn"}, Texts)' \/ Unseparated(i)
    BY <2>1, <1>1, <1>8 DEF Unseparated
  <2>3. i \in 1 .. n /\ i # n + 1 /\ n >= 1 /\ i = n /\ i \in 1 .. n + 1
    BY <1>8
  <2>4. <<i, "MISSINGBLANK">> \in C <=> Beside(n, {"defn"}, Texts)'
    BY <1>9a, <2>3
  <2>5. <<i, "SPURIOUSENDCODE">> \notin C
    BY <1>9a, <2>3
  <2>6. Unseparated(i)' <=> <<i, "MISSINGBLANK">> \in C \/ Unseparated(i)
    BY <2>2, <2>4
  <2> QED BY <2>3, <2>5, <2>6, <1>3, <1>5
<1>9. CASE i = n + 1
  <2>1. Unseparated(n + 1)' <=> n >= 1 /\ Beside(n, Texts, {"defn"})'
    <3>1. n + 1 - 1 = n /\ (n + 1 > 1 <=> n >= 1) /\ ~(n + 1 < n + 1)
      OBVIOUS
    <3> QED BY <3>1, <1>1 DEF Unseparated
  <2> QED BY <2>1, <1>3, <1>9
<1>10. CASE i \notin 1 .. n + 1
  BY <1>3, <1>10
<1> QED BY <1>7, <1>8, <1>9, <1>10

LEMMA OutputAdded ==
  ASSUME output \in Seq(Int), NEW n \in Nat, NEW m \in Nat, n <= m,
         \A p \in 1 .. Len(output) : output[p] \in -1 .. n,
         NEW w \in Seq(Int), \A j \in 1 .. Len(w) : w[j] \in -1 .. m, output' = output \o w
  PROVE  output' \in Seq(Int) /\ \A p \in 1 .. Len(output') : output'[p] \in -1 .. m
<1>1. PICK a \in Nat : a = Len(output)
  BY JoinedTo
<1>2. PICK b \in Nat : b = Len(w)
  BY JoinedTo
<1>3. /\ output' \in Seq(Int) /\ Len(output') = a + b
      /\ \A p \in 1 .. a : output'[p] \in -1 .. m
      /\ \A j \in 1 .. b : output'[a + j] \in -1 .. m
  BY <1>1, <1>2, JoinedTo
<1>4. ASSUME NEW p \in 1 .. a + b PROVE output'[p] \in -1 .. m
  <2>1. CASE p \in 1 .. a
    BY <2>1, <1>3
  <2>2. CASE p \notin 1 .. a
    <3>1. p - a \in 1 .. b /\ a + (p - a) = p
      BY <2>2
    <3> QED BY <3>1, <1>3
  <2> QED BY <2>1, <2>2
<1> QED BY <1>3, <1>4

LEMMA OneNumber ==
  ASSUME NEW x \in Int
  PROVE  /\ <<x>> \in Seq(Int) /\ Len(<<x>>) = 1 /\ <<x>>[1] = x
         /\ \A j \in 1 .. Len(<<x>>) : j = 1
OBVIOUS

LEMMA OpenStep ==
  ASSUME input \in Seq(LineKinds), NEW n \in 1 .. Len(input)
  PROVE  (input[n] = "begin" => Open(n))
         /\ (Open(n - 1) /\ input[n] \notin {"end", "endMore"} => Open(n))
<1>0. PICK m \in Nat : m = Len(input)
  BY LenProperties
<1>1. ASSUME input[n] = "begin" PROVE Open(n)
  <2>1. n \in 1 .. n /\ \A i \in n + 1 .. n : FALSE
    BY <1>0
  <2> QED BY <1>1, <2>1 DEF Open
<1>2. ASSUME Open(n - 1), input[n] \notin {"end", "endMore"} PROVE Open(n)
  <2>1. PICK j \in 1 .. n - 1 :
          input[j] = "begin" /\ \A i \in j + 1 .. n - 1 : input[i] \notin {"end", "endMore"}
    BY <1>2 DEF Open
  <2>2. j \in 1 .. n /\ \A i \in j + 1 .. n : i \in j + 1 .. n - 1 \/ i = n
    BY <1>0
  <2> QED BY <1>2, <2>1, <2>2 DEF Open
<1> QED BY <1>1, <1>2

\* A lonely # outside the blocks is a place where the reading goes astray.
LEMMA GoesAstray ==
  ASSUME input \in Seq(LineKinds), NEW v \in Seq(LineKinds), input' = input \o v,
         ignore_shebang' = ignore_shebang, ignore_shebang, Len(v) >= 1, v[1] = "bareHash",
         ~Mistaken => ~Open(Len(input))
  PROVE  Mistaken'
<1>1. PICK n \in Nat : n = Len(input)
  BY LenProperties
<1>2. PICK b \in Nat : b = Len(v)
  BY LenProperties
<1>3. /\ Len(input') = n + b /\ b >= 1 /\ input'[n + 1] = "bareHash"
      /\ \A i \in 1 .. n : input'[i] = input[i]
  BY <1>1, <1>2, JoinedTo
<1>4. ASSUME NEW m \in 0 .. n PROVE Open(m)' <=> Open(m)
  <2>1. \A i \in 1 .. m : i \in 1 .. n
    BY <1>1
  <2>2. \A i \in 1 .. m : input'[i] = input[i]
    BY <1>3, <2>1
  <2>3. \A j \in 1 .. m : \A i \in j + 1 .. m : i \in 1 .. m
    OBVIOUS
  <2> QED BY <2>2, <2>3 DEF Open
<1>5. CASE Mistaken
  <2>1. PICK i \in 1 .. n : \/ input[i] = "bareHash" /\ ~Open(i - 1) /\ ignore_shebang
                            \/ input[i] = "longEnd" /\ Open(i - 1)
    BY <1>1, <1>5 DEF Mistaken, Inside
  <2>2. i - 1 \in 0 .. n /\ i \in 1 .. n + b
    BY <1>3
  <2>3. Open(i - 1)' <=> Open(i - 1)
    BY <2>2, <1>4
  <2>4. Inside(i)' <=> Open(i - 1)
    BY <2>3 DEF Inside
  <2> QED BY <1>3, <2>1, <2>2, <2>4 DEF Mistaken
<1>6. CASE ~Mistaken
  <2>1. n + 1 \in 1 .. n + b /\ n \in 0 .. n /\ n + 1 - 1 = n
    BY <1>3
  <2>2. ~Open(n)'
    BY <2>1, <1>1, <1>4, <1>6
  <2>3. ~Inside(n + 1)'
    BY <2>1, <2>2 DEF Inside
  <2> QED BY <1>3, <2>1, <2>3 DEF Mistaken
<1> QED BY <1>5, <1>6

\* How readline classifies a line.
LEMMA LineOfIs ==
  ASSUME NEW k \in LineKinds
  PROVE  /\ LineOf(k) = "DEFN" <=> k = "defn"
         /\ LineOf(k) = "BEGIN" <=> k = "begin"
         /\ LineOf(k) = "END" <=> k \in {"end", "indentedEnd"}
         /\ LineOf(k) = "TEXT" <=> k \in Texts \/ (k = "bareHash" /\ ignore_shebang)
BY DEF LineOf, CopiedLine, IgnoredShebang, Texts, LineKinds

\* What the loop still knows of the last line, when nothing is mistaken.
LEMMA LastLineIs ==
  ASSUME input \in Seq(LineKinds), NEW n \in Nat, n = Len(input), ~Mistaken
  PROVE  /\ LastLine = "DEFN" <=> n >= 1 /\ ~Inside(n) /\ input[n] = "defn"
         /\ LastLine = "TEXT" <=> n >= 1 /\ ~Inside(n) /\ input[n] \in Texts
<1>1. CASE n = 0
  BY <1>1 DEF LastLine
<1>2. CASE n >= 1
  <2>1. n \in 1 .. Len(input) /\ n # 0
    BY <1>2
  <2>2. input[n] \in LineKinds
    BY <2>1, ElementOfSeq
  <2>3. ~(input[n] = "bareHash" /\ ignore_shebang /\ ~Inside(n))
    BY <2>1 DEF Mistaken
  <2> QED BY <1>2, <2>1, <2>2, <2>3, LineOfIs DEF LastLine
<1> QED BY <1>1, <1>2

-----------------------------------------------------------------------------
(* The steps.                                                              *)

LEMMA UnlitStart == UnlitInit => UnlitInv
<1> SUFFICES ASSUME UnlitInit PROVE UnlitInv
  OBVIOUS
<1>1. /\ input = <<>> /\ Len(input) = 0 /\ input \in Seq(LineKinds)
      /\ output = IF pragma THEN <<-1>> ELSE <<>>
  BY DEF UnlitInit
<1>2. output \in Seq(Int) /\ Len(output) = Offset /\ \A p \in 1 .. Len(output) : output[p] = -1
  BY <1>1 DEF Offset
<1>3. Offset \in {0, 1}
  BY DEF Offset
<1>4. ~Open(0) /\ ~Mistaken
  BY <1>1 DEF Open, Mistaken
<1>5. UnlitType
  BY <1>1, <1>2, <1>3, UnlitAssumption DEF UnlitInit, UnlitType, NoStatus
<1>6. LineNumbersKept
  BY <1>1, <1>2, <1>3 DEF LineNumbersKept
<1>7. CodeInv
  BY <1>1 DEF CodeInv
<1>8. ModeInv
  BY <1>1, <1>4 DEF UnlitInit, ModeInv, LastLine, NoStatus
<1>9. ComplaintsInv
  BY <1>1 DEF UnlitInit, ComplaintsInv
<1> QED BY <1>5, <1>6, <1>7, <1>8, <1>9 DEF UnlitInv

\* A step that reads nothing more.
LEMMA NothingRead ==
  ASSUME UnlitInv, UNCHANGED <<options, input, output>>,
         mode \notin {"unlit", "block"} => mode' \notin {"unlit", "block"}
  PROVE  /\ LineNumbersKept' /\ CodeInv' /\ (Mistaken' <=> Mistaken) /\ (Miscounted' <=> Miscounted)
         /\ Open(Len(input))' <=> Open(Len(input))
         /\ \A i \in Nat : (Unseparated(i)' <=> Unseparated(i)) /\ (Spurious(i)' <=> Spurious(i))
<1> USE DEF options
<1>1. \A m \in Int : Open(m)' <=> Open(m)
  BY DEF Open
<1>2. Open(Len(input))' <=> Open(Len(input))
  BY DEF Open
<1>3. LineNumbersKept'
  <2>1. EndsInBareHash => EndsInBareHash'
    BY DEF EndsInBareHash
  <2> QED BY <2>1 DEF UnlitInv, LineNumbersKept, Offset
<1>4. \A i \in Int : Inside(i)' <=> Inside(i)
  BY <1>1 DEF Inside
<1>5. \A i \in Int : IsCode(i)' <=> IsCode(i)
  BY <1>4 DEF IsCode
<1>6. (Mistaken' <=> Mistaken) /\ (Miscounted' <=> Miscounted)
  BY <1>4 DEF Mistaken, Miscounted
<1>7. CodeInv'
  BY <1>5, <1>6 DEF UnlitInv, CodeInv
<1>8. \A i \in Int : Spurious(i)' <=> Spurious(i)
  BY <1>4 DEF Spurious
<1>9. ASSUME NEW i \in Int, NEW S, NEW T PROVE Beside(i, S, T)' <=> Beside(i, S, T)
  BY <1>4 DEF Beside
<1>10. ASSUME NEW i \in Int PROVE Unseparated(i)' <=> Unseparated(i)
  <2>1. i - 1 \in Int
    OBVIOUS
  <2> QED BY <2>1, <1>9 DEF Unseparated
<1> QED BY <1>2, <1>3, <1>6, <1>7, <1>8, <1>10

LEMMA UnlitEnds ==
  ASSUME UnlitInv, endOfBlock \/ endOfFile \/ writeerror
  PROVE  UnlitInv'
<1>1. UNCHANGED <<options, input, output>> /\ defnsread' = defnsread
  BY DEF endOfBlock, endOfFile, writeerror
<1>2. PICK n \in Nat : n = Len(input)
  BY LenProperties DEF UnlitInv, UnlitType
<1>3. /\ mode \notin {"done", "failed"} /\ mode' \in {"done", "failed"} /\ status' \in {0, 1}
  BY DEF endOfBlock, endOfFile, writeerror
<1>4. /\ linesread' \in Nat /\ linesread' <= 2 * n + (IF mode' = "done" THEN 1 ELSE 0)
  <2>1. linesread \in Nat /\ linesread <= 2 * n
    BY <1>2, <1>3 DEF UnlitInv, UnlitType
  <2>2. linesread' = linesread + (IF mode' = "done" THEN 1 ELSE 0) \/ linesread' = linesread
    BY <2>1 DEF endOfBlock, endOfFile, writeerror
  <2> QED BY <2>1, <2>2
<1>5. /\ complaints' \subseteq Nat \X Complaints
      /\ \A i \in Nat, e \in {"MISSINGBLANK", "SPURIOUSENDCODE"} :
           <<i, e>> \in complaints' <=> <<i, e>> \in complaints
  <2>1. linesread \in Nat /\ linesread + 1 \in Nat /\ complaints \subseteq Nat \X Complaints
    BY DEF UnlitInv, UnlitType
  <2>2. CASE endOfBlock
    BY <2>1, <2>2 DEF endOfBlock, complain, Complaints
  <2>3. CASE endOfFile
    BY <2>1, <2>3 DEF endOfFile, complain, Complaints
  <2>4. CASE writeerror
    BY <2>1, <2>4 DEF writeerror
  <2> QED BY <2>2, <2>3, <2>4
<1>6. UnlitType'
  BY <1>1, <1>2, <1>3, <1>4, <1>5 DEF UnlitInv, UnlitType, options, NoStatus
<1>7. ModeInv'
  <2>1. status' = 0 => /\ mode \in {"unlit", "eof"} /\ complaints' = {}
                       /\ ~nothingRead \/ complain(linesread + 1, "EMPTYSCRIPT") = {}
    BY DEF endOfBlock, endOfFile, writeerror
  <2>2. status' = 0 /\ noisy => defnsread # 0
    BY <2>1 DEF nothingRead, complain, UnlitInv, UnlitType
  <2>3. defnsread \in Nat
    BY DEF UnlitInv, UnlitType
  <2>4. ~Mistaken' /\ status' = 0 => ~Open(Len(input))'
    BY <2>1, <1>1, <1>3, NothingRead DEF UnlitInv, ModeInv
  <2>5. ~Mistaken' /\ defnsread' > 0 =>
          \E i \in 1 .. Len(input') : input'[i] \in {"defn", "end", "endMore"}
    BY <1>1, <1>3, NothingRead DEF UnlitInv, ModeInv
  <2>6. noisy' = noisy
    BY <1>1 DEF options
  <2> QED BY <1>1, <1>3, <2>2, <2>3, <2>4, <2>5, <2>6 DEF ModeInv
<1>8. ComplaintsInv'
  <2>1. noisy' = noisy
    BY <1>1 DEF options
  <2> QED BY <1>1, <1>3, <1>5, <2>1, NothingRead DEF UnlitInv, ComplaintsInv
<1> QED BY <1>1, <1>3, <1>6, <1>7, <1>8, NothingRead DEF UnlitInv

\* After a lonely # only the numbers of the lines can be relied on.
LEMMA AstrayKeeps ==
  ASSUME UnlitInv, NEW v \in Seq(LineKinds), NEW w \in Seq(Int),
         input' = input \o v, output' = output \o w,
         Len(v) \in {1, 2}, v[1] = "bareHash", Len(input') <= MaxLines,
         \A j \in 1 .. Len(v) : w[j] = Len(input) + j,
         \/ Len(w) = Len(v)
         \/ Len(v) = 1 /\ Len(w) = 2 /\ w[2] = 0 /\ mode' = "eof",
         mode = "unlit", mode' \in {"unlit", "eof"}, ignore_shebang, linesread' = linesread + 1,
         UNCHANGED <<options, complaints, defnsread, status>>
  PROVE  UnlitInv'
<1>1. PICK n \in Nat : n = Len(input)
  BY LenProperties DEF UnlitInv, UnlitType
<1>2. PICK b \in {1, 2} : b = Len(v)
  OBVIOUS
<1>3. Len(input') = n + b /\ input' \in Seq(LineKinds)
  BY <1>1, <1>2, JoinedTo DEF UnlitInv, UnlitType
<1>4. Mistaken'
  <2>1. input \in Seq(LineKinds) /\ ignore_shebang' = ignore_shebang /\ Len(v) >= 1
    BY <1>2 DEF UnlitInv, UnlitType, options
  <2>2. ~Mistaken => ~Open(Len(input))
    BY DEF UnlitInv, ModeInv
  <2> QED BY <2>1, <2>2, GoesAstray
<1>5. /\ output' \in Seq(Int) /\ \A p \in 1 .. Len(output') : output'[p] \in -1 .. n + b
  <2>1. n + b \in Nat /\ n <= n + b /\ \A j \in 1 .. b : n + j \in -1 .. n + b
    BY <1>2
  <2>2. \A j \in 1 .. Len(w) : j \in 1 .. b \/ w[j] = 0
    BY <1>2
  <2>3. \A j \in 1 .. Len(w) : w[j] \in -1 .. n + b
    BY <1>1, <1>2, <2>1, <2>2
  <2> QED BY <1>1, <2>1, <2>3, OutputAdded DEF UnlitInv, UnlitType
<1>6. LineNumbersKept'
  <2>1. \A j \in 1 .. Len(w) : w[j] > 0 => w[j] = n + j
    BY <1>1, <1>2
  <2>2. Len(w) # Len(v) => EndsInBareHash' /\ Len(w) = b + 1
    <3> SUFFICES ASSUME Len(v) = 1, Len(w) = 2, mode' = "eof"
                 PROVE  EndsInBareHash' /\ Len(w) = b + 1
      OBVIOUS
    <3>1. Len(input') = n + 1 /\ input'[n + 1] = "bareHash"
      BY <1>1, <1>2, <1>3, JoinedTo DEF UnlitInv, UnlitType
    <3>2. input' # <<>> /\ ignore_shebang'
      BY <3>1 DEF options
    <3> QED BY <1>2, <3>1, <3>2 DEF EndsInBareHash
  <2>3. Len(input') - n = b /\ Len(input') \in Nat
    BY <1>2, <1>3
  <2> QED BY <1>1, <1>2, <2>1, <2>2, <2>3, NumbersAdded DEF UnlitInv, UnlitType, options
<1>7. /\ linesread' \in Nat /\ linesread' <= 2 * (n + b)
      /\ defnsread' \in Nat /\ defnsread' <= n + b
  BY <1>1 DEF UnlitInv, UnlitType
<1>8. UnlitType'
  <2>1. /\ noisy' \in BOOLEAN /\ crunchnl' \in BOOLEAN
        /\ ignore_shebang' \in BOOLEAN /\ pragma' \in BOOLEAN
    BY DEF UnlitInv, UnlitType, options
  <2>2. complaints' \subseteq Nat \X Complaints /\ status' = NoStatus
    BY DEF UnlitInv, UnlitType
  <2>3. Len(input') <= MaxLines /\ mode' # "done" /\ n + b \in Nat
    BY <1>1
  <2> QED BY <1>3, <1>5, <1>7, <2>1, <2>2, <2>3 DEF UnlitType, NoStatus
<1>9. ModeInv' /\ CodeInv' /\ ComplaintsInv'
  BY <1>4 DEF ModeInv, CodeInv, ComplaintsInv
<1> QED BY <1>6, <1>8, <1>9 DEF UnlitInv

LEMMA UnlitBareHash ==
  ASSUME UnlitInv, NEW k \in LineKinds, NEW newline \in BOOLEAN,
         readBareHash(k) \/ readLastBareHash(newline)
  PROVE  UnlitInv'
<1>1. PICK n \in Nat : n = Len(input)
  BY LenProperties DEF UnlitInv, UnlitType
<1>2. input \in Seq(LineKinds) /\ output \in Seq(Int) /\ "bareHash" \in LineKinds
  BY DEF UnlitInv, UnlitType, LineKinds
<1>3. CASE readBareHash(k)
  <2> DEFINE v == <<"bareHash", k>>
             w == <<n + 1, n + 2>>
  <2>1. /\ v \in Seq(LineKinds) /\ Len(v) = 2 /\ v[1] = "bareHash"
        /\ w \in Seq(Int) /\ Len(w) = 2 /\ \A j \in 1 .. Len(w) : w[j] = n + j
    BY <1>2
  <2>2. /\ input' = input \o v /\ output' = output \o w /\ n + 1 < MaxLines
        /\ mode = "unlit" /\ mode' \in {"unlit", "eof"} /\ ignore_shebang
        /\ linesread' = linesread + 1 /\ UNCHANGED <<options, complaints, defnsread, status>>
    BY <1>1, <1>3 DEF readBareHash, LineNumber
  <2> HIDE DEF v, w
  <2>3. Len(input') <= MaxLines
    <3>1. input' \in Seq(LineKinds) /\ Len(input') = Len(input) + Len(v)
      BY <1>2, <2>1, <2>2, ConcatProperties
    <3> QED BY <3>1, <1>1, <2>1, <2>2, UnlitAssumption
  <2> QED BY <1>1, <2>1, <2>2, <2>3, AstrayKeeps
<1>4. CASE readLastBareHash(newline)
  <2> DEFINE v == <<"bareHash">>
             w == IF newline THEN <<n + 1, 0>> ELSE <<n + 1>>
  <2>1. /\ v \in Seq(LineKinds) /\ Len(v) = 1 /\ v[1] = "bareHash"
        /\ w \in Seq(Int) /\ w[1] = n + 1 /\ (Len(w) = 1 \/ (Len(w) = 2 /\ w[2] = 0))
    BY <1>2
  <2>2. /\ input' = Append(input, "bareHash") /\ output' = output \o w /\ n < MaxLines
        /\ mode = "unlit" /\ mode' = "eof" /\ ignore_shebang
        /\ linesread' = linesread + 1 /\ UNCHANGED <<options, complaints, defnsread, status>>
    BY <1>1, <1>4 DEF readLastBareHash, LineNumber, ReadLine, Empty
  <2>3. input' = input \o v
    BY <1>2, <2>2, AppendIsConcat
  <2> HIDE DEF v, w
  <2>4. Len(input') <= MaxLines
    <3>1. input' \in Seq(LineKinds) /\ Len(input') = Len(input) + Len(v)
      BY <1>2, <2>1, <2>3, ConcatProperties
    <3> QED BY <3>1, <1>1, <2>1, <2>2, UnlitAssumption
  <2>5. \A j \in 1 .. Len(v) : w[j] = n + j
    BY <2>1
  <2> QED BY <1>1, <2>1, <2>2, <2>3, <2>4, <2>5, AstrayKeeps
<1> QED BY <1>3, <1>4

LEMMA UnlitReads ==
  ASSUME UnlitInv, NEW k \in LineKinds, readline(k)
  PROVE  UnlitInv'
<1>1. PICK n \in Nat : n = Len(input)
  BY LenProperties DEF UnlitInv, UnlitType
<1>2. /\ mode = "unlit" /\ n < MaxLines /\ input' = Append(input, k)
      /\ ~(k = "bareHash" /\ ignore_shebang)
      /\ this' = LineOf(k) /\ linesread' = linesread + 1
      /\ complaints' = complaints \cup Checks(this, LineOf(k), linesread + 1)
      /\ defnsread' = defnsread + (IF LineOf(k) = "DEFN" THEN 1 ELSE 0)
      /\ mode' = (IF LineOf(k) = "BEGIN" THEN "block" ELSE "unlit")
      /\ UNCHANGED <<noisy, crunchnl, ignore_shebang, pragma, status>>
  BY <1>1 DEF readline, ReadLine, options
<1>3. /\ input \in Seq(LineKinds) /\ output \in Seq(Int)
      /\ \A p \in 1 .. Len(output) : output[p] \in -1 .. n
  BY <1>1 DEF UnlitInv, UnlitType
<1>4. input' \in Seq(LineKinds) /\ Len(input') = n + 1 /\ input'[n + 1] = k
  BY <1>1, <1>2, <1>3, AppendedTo
<1>5. /\ Open(n)' <=> Open(n)
      /\ Open(n + 1)' <=> k = "begin" \/ (Open(n) /\ k \notin {"end", "endMore"})
      /\ Mistaken' <=> Mistaken \/ (k = "longEnd" /\ Open(n))
      /\ Miscounted' <=> Miscounted \/ (k = "long" /\ Open(n))
  BY <1>1, <1>2, <1>3, LineAdded
<1>15. PICK w : w = Written(k)
  OBVIOUS
<1>6. /\ w \in Seq(Int) /\ output' = output \o w /\ Len(w) \in {0, 1} /\ (~crunchnl => Len(w) = 1)
      /\ Len(w) = 1 => w[1] \in {0, n + 1} /\ (w[1] = n + 1 <=> CopiedLine(k))
      /\ CopiedLine(k) => Len(w) = 1
  <2>1. output' = output \o w
    BY <1>2, <1>15 DEF readline
  <2>2. CASE CopiedLine(k)
    <3>1. w = <<n + 1>>
      BY <1>1, <1>15, <2>2 DEF Written, LineNumber, IgnoredShebang, CopiedLine
    <3>2. w \in Seq(Int) /\ Len(w) = 1 /\ w[1] = n + 1
      BY <3>1
    <3> QED BY <2>1, <2>2, <3>2
  <2>3. CASE ~CopiedLine(k) /\ (IgnoredShebang(k) \/ ~crunchnl)
    <3>1. w = <<0>>
      BY <1>15, <2>3 DEF Written, Empty
    <3>2. w \in Seq(Int) /\ Len(w) = 1 /\ w[1] = 0 /\ 0 # n + 1
      BY <3>1
    <3> QED BY <2>1, <2>3, <3>2
  <2>4. CASE ~CopiedLine(k) /\ ~IgnoredShebang(k) /\ crunchnl
    <3>1. w = <<>>
      BY <1>15, <2>4 DEF Written
    <3>2. w \in Seq(Int) /\ Len(w) = 0
      BY <3>1
    <3> QED BY <2>1, <2>4, <3>2
  <2> QED BY <2>2, <2>3, <2>4
<1>7. /\ output' \in Seq(Int) /\ \A p \in 1 .. Len(output') : output'[p] \in -1 .. n + 1
  <2>1. n + 1 \in Nat /\ n <= n + 1
    OBVIOUS
  <2>2. \A j \in 1 .. Len(w) : w[j] \in -1 .. n + 1
    <3>1. CASE Len(w) = 0
      BY <3>1
    <3>2. CASE Len(w) = 1
      BY <3>2, <1>6
    <3> QED BY <3>1, <3>2, <1>6
  <2> QED BY <1>3, <1>6, <2>1, <2>2, OutputAdded
<1>8. LineNumbersKept'
  <2>1. ~crunchnl => Len(input') = n + Len(w) /\ \A j \in 1 .. Len(w) : w[j] > 0 => w[j] = n + j
    <3> SUFFICES ASSUME ~crunchnl
                 PROVE  Len(input') = n + Len(w) /\ \A j \in 1 .. Len(w) : w[j] > 0 => w[j] = n + j
      OBVIOUS
    <3>1. Len(w) = 1 /\ w[1] \in {0, n + 1}
      BY <1>6
    <3> QED BY <3>1, <1>4
  <2>2. /\ mode \in {"unlit", "block"} /\ Len(input') \in Nat
        /\ ~crunchnl => Len(w) = Len(input') - n
    BY <1>2, <1>4, <1>6
  <2> QED BY <1>1, <1>2, <1>3, <1>6, <2>1, <2>2, NumbersAdded DEF UnlitInv
<1>9. UnlitType'
  <2>1. /\ linesread' \in Nat /\ linesread' <= 2 * (n + 1)
        /\ defnsread' \in Nat /\ defnsread' <= n + 1
    BY <1>1, <1>2 DEF UnlitInv, UnlitType
  <2>2. linesread + 1 \in Nat /\ (linesread \in Nat) /\ complaints' \subseteq Nat \X Complaints
    <3>1. linesread \in Nat /\ complaints \subseteq Nat \X Complaints
      BY DEF UnlitInv, UnlitType
    <3>2. \A m \in Nat : m # 0 => m - 1 \in Nat
      OBVIOUS
    <3>3. Checks(this, LineOf(k), linesread + 1) \subseteq Nat \X Complaints
      BY <3>1, <3>2 DEF Checks, complain, Complaints
    <3> QED BY <3>1, <3>3, <1>2
  <2>3. n + 1 <= MaxLines
    BY <1>2, UnlitAssumption
  <2>4. mode' \in {"unlit", "block"} /\ status' = NoStatus
    BY <1>2 DEF UnlitInv, UnlitType
  <2> QED BY <1>2, <1>4, <1>7, <2>1, <2>2, <2>3, <2>4 DEF UnlitInv, UnlitType, NoStatus
<1>10. Inside(n + 1)' <=> Open(n)
  <2>1. n + 1 - 1 = n
    OBVIOUS
  <2> QED BY <2>1, <1>5 DEF Inside
<1>11. ~Mistaken' => ~Mistaken /\ ~Open(n)
  BY <1>1, <1>2, <1>5 DEF UnlitInv, ModeInv
<1>12. CodeInv'
  <2> SUFFICES ASSUME ~Mistaken' PROVE CodeInv'
    BY DEF CodeInv
  <2>1. IsCode(n + 1)' <=> CopiedLine(k)
    BY <1>2, <1>4, <1>10, <1>11 DEF IsCode, CopiedLine
  <2>2. IsCode(n + 1)' <=> Len(w) = 1 /\ w[1] = n + 1
    BY <2>1, <1>6
  <2>3. Len(w) <= 1 /\ (Len(w) = 1 => w[1] \in {-1, 0, n + 1})
    BY <1>6
  <2>4. /\ CodeInv /\ ignore_shebang' = ignore_shebang
        /\ input' = Append(input, k) /\ output' = output \o w
    BY <1>2, <1>6 DEF UnlitInv
  <2>5. \A p \in 1 .. Len(output) : output[p] \in -1 .. n
    BY <1>3
  <2> QED BY <1>1, <1>3, <1>6, <2>2, <2>3, <2>4, <2>5, CodeAdded
<1>13. ModeInv'
  <2>1. mode' # "eof" /\ status' # 0
    BY <1>2 DEF UnlitInv, UnlitType, NoStatus
  <2> SUFFICES ASSUME ~Mistaken' PROVE ModeInv'
    BY <2>1 DEF ModeInv
  <2>2. LineOf(k) = "BEGIN" <=> k = "begin"
    BY LineOfIs
  <2>3. mode' = "unlit" => ~Open(n + 1)'
    BY <1>2, <1>5, <1>11, <2>2
  <2>4. mode' = "block" => Open(n + 1)' /\ this' = "BEGIN"
    BY <1>2, <1>5, <2>2
  <2>5. LastLine' = this'
    <3>1. n + 1 # 0
      OBVIOUS
    <3>2. LineOf(k)' = LineOf(k)
      BY <1>2 DEF LineOf, CopiedLine, IgnoredShebang
    <3> QED BY <3>1, <3>2, <1>2, <1>4, <1>10, <1>11 DEF LastLine
  <2>6. ~Miscounted' => linesread' = n + 1
    BY <1>1, <1>2, <1>5, <1>11 DEF UnlitInv, ModeInv
  <2>7. defnsread' > 0 => \E i \in 1 .. n + 1 : input'[i] \in {"defn", "end", "endMore"}
    <3>1. CASE k = "defn"
      <4>1. n + 1 \in 1 .. n + 1
        OBVIOUS
      <4> QED BY <4>1, <3>1, <1>4
    <3>2. CASE k # "defn"
      <4>1. defnsread' = defnsread
        BY <1>2, <3>2, LineOfIs DEF UnlitInv, UnlitType
      <4>2. \A i \in 1 .. n : i \in 1 .. n + 1 /\ input'[i] = input[i]
        BY <1>1, <1>2, <1>3, AppendedTo
      <4> QED BY <4>1, <4>2, <1>1, <1>11 DEF UnlitInv, ModeInv
    <3> QED BY <3>1, <3>2
  <2> QED BY <1>4, <2>1, <2>3, <2>4, <2>5, <2>6, <2>7 DEF ModeInv
<1>14. ComplaintsInv'
  <2>1. ASSUME noisy, ~Mistaken', ~Miscounted', NEW i \in Nat
        PROVE  /\ <<i, "MISSINGBLANK">> \in Checks(this, LineOf(k), linesread + 1) <=>
                    /\ n >= 1
                    /\ \/ i = n /\ Beside(n, {"defn"}, Texts)'
                       \/ i = n + 1 /\ Beside(n, Texts, {"defn"})'
               /\ <<i, "SPURIOUSENDCODE">> \in Checks(this, LineOf(k), linesread + 1)
                    <=> i = n + 1 /\ Spurious(n + 1)'
    <3>1. ~Mistaken /\ ~Miscounted /\ linesread = n /\ this = LastLine /\ ~Open(n)
      BY <1>1, <1>2, <1>5, <1>11, <2>1 DEF UnlitInv, ModeInv
    <3>2. /\ this = "DEFN" <=> n >= 1 /\ ~Inside(n) /\ input[n] = "defn"
          /\ this = "TEXT" <=> n >= 1 /\ ~Inside(n) /\ input[n] \in Texts
      BY <1>1, <1>3, <3>1, LastLineIs
    <3>3. /\ LineOf(k) = "DEFN" <=> k = "defn"
          /\ LineOf(k) = "TEXT" <=> k \in Texts
          /\ LineOf(k) = "END" <=> k \in {"end", "indentedEnd"}
      BY <1>2, LineOfIs
    <3>4. ASSUME n >= 1 PROVE (Inside(n)' <=> Inside(n)) /\ input'[n] = input[n]
      <4>1. n - 1 \in 0 .. n /\ n \in 1 .. n
        BY <3>4
      <4>2. Open(n - 1)' <=> Open(n - 1)
        BY <4>1, <1>1, <1>2, <1>3, LineAdded
      <4> QED BY <4>1, <4>2, <1>1, <1>2, <1>3, AppendedTo DEF Inside
    <3>5. ASSUME n >= 1, NEW S, NEW T
          PROVE  Beside(n, S, T)' <=> ~Inside(n) /\ input[n] \in S /\ k \in T
      BY <3>1, <3>4, <3>5, <1>4, <1>10 DEF Beside
    <3>6. Spurious(n + 1)' <=> k \in {"end", "indentedEnd"}
      BY <3>1, <1>4, <1>10 DEF Spurious
    <3>7. linesread + 1 - 1 = n /\ linesread + 1 = n + 1
      BY <3>1
    <3>8. /\ <<i, "MISSINGBLANK">> \in Checks(this, LineOf(k), linesread + 1) <=>
               \/ i = n /\ this = "DEFN" /\ LineOf(k) = "TEXT"
               \/ i = n + 1 /\ this = "TEXT" /\ LineOf(k) = "DEFN"
          /\ <<i, "SPURIOUSENDCODE">> \in Checks(this, LineOf(k), linesread + 1) <=>
               i = n + 1 /\ LineOf(k) = "END"
      BY <2>1, <3>7 DEF Checks, complain
    <3>9. n >= 1 => /\ Beside(n, {"defn"}, Texts)' <=> this = "DEFN" /\ LineOf(k) = "TEXT"
                    /\ Beside(n, Texts, {"defn"})' <=> this = "TEXT" /\ LineOf(k) = "DEFN"
      BY <3>2, <3>3, <3>5
    <3> QED BY <3>2, <3>3, <3>6, <3>8, <3>9
  <2> QED BY <1>1, <1>2, <1>3, <2>1, ComplaintsAdded DEF UnlitInv
<1> QED BY <1>8, <1>9, <1>12, <1>13, <1>14 DEF UnlitInv

LEMMA UnlitBlock ==
  ASSUME UnlitInv, NEW k \in LineKinds, block(k)
  PROVE  UnlitInv'
<1>1. PICK n \in Nat : n = Len(input)
  BY LenProperties DEF UnlitInv, UnlitType
<1>2. PICK x \in {0, n + 1} : output' = Append(output, x) /\ (x = 0 <=> k \in {"end", "endMore"})
  BY <1>1 DEF block, EndsBlock, Empty, LineNumber
<1>3. /\ mode = "block" /\ n < MaxLines /\ input' = Append(input, k)
      /\ linesread' = linesread + (IF k \in {"long", "longEnd"} THEN 2 ELSE 1)
      /\ defnsread' = defnsread + (IF k \in {"end", "endMore", "longEnd"} THEN 1 ELSE 0)
      /\ mode' = (IF k \in {"end", "endMore", "longEnd"} THEN "unlit" ELSE "block")
      /\ UNCHANGED <<noisy, crunchnl, ignore_shebang, pragma, complaints, this, last, status>>
  BY <1>1 DEF block, EndsBlock, ReadLine, options
<1>4. /\ input \in Seq(LineKinds) /\ output \in Seq(Int)
      /\ \A p \in 1 .. Len(output) : output[p] \in -1 .. n
  BY <1>1 DEF UnlitInv, UnlitType
<1>5. input' \in Seq(LineKinds) /\ Len(input') = n + 1 /\ input'[n + 1] = k
  BY <1>1, <1>3, <1>4, AppendedTo
<1>6. /\ Open(n)' <=> Open(n)
      /\ Open(n + 1)' <=> k = "begin" \/ (Open(n) /\ k \notin {"end", "endMore"})
      /\ Mistaken' <=> Mistaken \/ (k = "longEnd" /\ Open(n))
                                \/ (k = "bareHash" /\ ~Open(n) /\ ignore_shebang)
      /\ Miscounted' <=> Miscounted \/ (k = "long" /\ Open(n))
  BY <1>1, <1>3, <1>4, LineAdded
<1>7. PICK w : w = <<x>>
  OBVIOUS
<1>8. w \in Seq(Int) /\ output' = output \o w /\ Len(w) = 1 /\ w[1] = x
  <2>1. x \in Int
    OBVIOUS
  <2>2. w \in Seq(Int) /\ Len(w) = 1 /\ w[1] = x
    BY <1>7, <2>1
  <2>3. output' = output \o w
    BY <1>2, <1>4, <1>7, <2>1, AppendIsConcat
  <2> QED BY <2>2, <2>3
<1>9. \A j \in 1 .. Len(w) : j = 1
  BY <1>8
<1>10. /\ output' \in Seq(Int) /\ \A p \in 1 .. Len(output') : output'[p] \in -1 .. n + 1
  <2>1. n + 1 \in Nat /\ n <= n + 1 /\ x \in -1 .. n + 1
    OBVIOUS
  <2>2. \A j \in 1 .. Len(w) : w[j] \in -1 .. n + 1
    BY <1>8, <1>9, <2>1
  <2> QED BY <1>4, <1>8, <2>1, <2>2, OutputAdded
<1>11. LineNumbersKept'
  <2>1. Len(input') = n + Len(w) /\ \A j \in 1 .. Len(w) : w[j] > 0 => w[j] = n + j
    BY <1>5, <1>8, <1>9
  <2>2. mode \in {"unlit", "block"} /\ Len(input') \in Nat /\ Len(w) = Len(input') - n
    BY <1>3, <1>5, <1>8
  <2> QED BY <1>1, <1>3, <1>4, <1>8, <2>1, <2>2, NumbersAdded DEF UnlitInv
<1>12. UnlitType'
  <2>1. /\ linesread' \in Nat /\ linesread' <= 2 * (n + 1)
        /\ defnsread' \in Nat /\ defnsread' <= n + 1
    BY <1>1, <1>3 DEF UnlitInv, UnlitType
  <2>2. n + 1 <= MaxLines
    BY <1>3, UnlitAssumption
  <2>3. mode' \in {"unlit", "block"} /\ status' = NoStatus
    BY <1>3 DEF UnlitInv, UnlitType
  <2> QED BY <1>3, <1>5, <1>10, <2>1, <2>2, <2>3 DEF UnlitInv, UnlitType, NoStatus
<1>13. Inside(n + 1)' <=> Open(n)
  <2>1. n + 1 - 1 = n
    OBVIOUS
  <2> QED BY <2>1, <1>6 DEF Inside
<1>14. ~Mistaken' => ~Mistaken /\ Open(n) /\ this = "BEGIN" /\ k # "longEnd"
  BY <1>1, <1>3, <1>6 DEF UnlitInv, ModeInv
<1>15. CodeInv'
  <2> SUFFICES ASSUME ~Mistaken' PROVE CodeInv'
    BY DEF CodeInv
  <2>1. IsCode(n + 1)' <=> k \notin {"end", "endMore"}
    BY <1>5, <1>13, <1>14 DEF IsCode
  <2>2. IsCode(n + 1)' <=> Len(w) = 1 /\ w[1] = n + 1
    BY <2>1, <1>2, <1>8
  <2>3. Len(w) <= 1 /\ (Len(w) = 1 => w[1] \in {-1, 0, n + 1})
    BY <1>8
  <2>4. /\ CodeInv /\ ignore_shebang' = ignore_shebang
        /\ input' = Append(input, k) /\ output' = output \o w
    BY <1>3, <1>8 DEF UnlitInv
  <2>5. \A p \in 1 .. Len(output) : output[p] \in -1 .. n
    BY <1>4
  <2> QED BY <1>1, <1>8, <1>4, <2>2, <2>3, <2>4, <2>5, CodeAdded
<1>16. ModeInv'
  <2>1. mode' # "eof" /\ status' # 0
    BY <1>3 DEF UnlitInv, UnlitType, NoStatus
  <2> SUFFICES ASSUME ~Mistaken' PROVE ModeInv'
    BY <2>1 DEF ModeInv
  <2>2. mode' = "unlit" => ~Open(n + 1)'
    BY <1>3, <1>6, <1>14
  <2>3. mode' = "block" => Open(n + 1)' /\ this' = "BEGIN"
    BY <1>3, <1>6, <1>14
  <2>4. LastLine' = this'
    <3>1. n + 1 # 0
      OBVIOUS
    <3> QED BY <3>1, <1>3, <1>5, <1>13, <1>14 DEF LastLine
  <2>5. ~Miscounted' => linesread' = n + 1
    BY <1>1, <1>3, <1>6, <1>14 DEF UnlitInv, ModeInv
  <2>6. defnsread' > 0 => \E i \in 1 .. n + 1 : input'[i] \in {"defn", "end", "endMore"}
    <3>1. CASE k \in {"end", "endMore"}
      <4>1. n + 1 \in 1 .. n + 1
        OBVIOUS
      <4> QED BY <4>1, <3>1, <1>5
    <3>2. CASE k \notin {"end", "endMore"}
      <4>1. defnsread' = defnsread
        BY <1>3, <1>14, <3>2 DEF UnlitInv, UnlitType
      <4>2. \A i \in 1 .. n : i \in 1 .. n + 1 /\ input'[i] = input[i]
        BY <1>1, <1>3, <1>4, AppendedTo
      <4> QED BY <4>1, <4>2, <1>1, <1>14 DEF UnlitInv, ModeInv
    <3> QED BY <3>1, <3>2
  <2> QED BY <1>5, <2>1, <2>2, <2>3, <2>4, <2>5, <2>6 DEF ModeInv
<1>17. ComplaintsInv'
  <2>1. ASSUME noisy, ~Mistaken', ~Miscounted', NEW i \in Nat
        PROVE  /\ <<i, "MISSINGBLANK">> \in {} <=>
                    /\ n >= 1
                    /\ \/ i = n /\ Beside(n, {"defn"}, Texts)'
                       \/ i = n + 1 /\ Beside(n, Texts, {"defn"})'
               /\ <<i, "SPURIOUSENDCODE">> \in {} <=> i = n + 1 /\ Spurious(n + 1)'
    <3>1. Inside(n + 1)'
      BY <1>13, <1>14, <2>1
    <3> QED BY <3>1 DEF Beside, Spurious
  <2>2. complaints' = complaints \cup {}
    BY <1>3
  <2> QED BY <1>1, <1>3, <1>4, <2>1, <2>2, ComplaintsAdded DEF UnlitInv
<1> QED BY <1>11, <1>12, <1>15, <1>16, <1>17 DEF UnlitInv

LEMMA UnlitStutters == ASSUME UnlitInv, UNCHANGED unlitVars PROVE UnlitInv'
<1>1. UNCHANGED <<options, input, output>> /\ UNCHANGED <<noisy, crunchnl, ignore_shebang, pragma>>
  BY DEF unlitVars, options
<1>2. UNCHANGED <<complaints, this, last, linesread, defnsread, mode, status>>
  BY DEF unlitVars
<1>3. UnlitType'
  BY <1>1, <1>2 DEF UnlitInv, UnlitType
<1>4. LastLine' = LastLine
  <2>1. \A m \in Int : Open(m)' <=> Open(m)
    BY <1>1 DEF Open
  <2>2. PICK n \in Nat : n = Len(input)
    BY LenProperties DEF UnlitInv, UnlitType
  <2>3. Inside(n)' <=> Inside(n)
    BY <2>1, <2>2 DEF Inside
  <2>4. \A k : LineOf(k)' = LineOf(k)
    BY <1>1 DEF LineOf, CopiedLine, IgnoredShebang
  <2> QED BY <1>1, <2>2, <2>3, <2>4 DEF LastLine
<1>5. ModeInv'
  BY <1>1, <1>2, <1>4, NothingRead DEF UnlitInv, ModeInv
<1>6. ComplaintsInv'
  BY <1>1, <1>2, NothingRead DEF UnlitInv, ComplaintsInv
<1> QED BY <1>3, <1>5, <1>6, <1>1, <1>2, NothingRead DEF UnlitInv

LEMMA UnlitKeeps == UnlitInv /\ [unlit]_unlitVars => UnlitInv'
<1> SUFFICES ASSUME UnlitInv, [unlit]_unlitVars PROVE UnlitInv'
  OBVIOUS
<1>1. CASE \E k \in LineKinds : readline(k) \/ readBareHash(k) \/ block(k)
  <2>1. TRUE \in BOOLEAN
    OBVIOUS
  <2> QED BY <1>1, <2>1, UnlitReads, UnlitBareHash, UnlitBlock
<1>2. CASE \E newline \in BOOLEAN : readLastBareHash(newline)
  <2>1. "blank" \in LineKinds
    BY DEF LineKinds
  <2> QED BY <1>2, <2>1, UnlitBareHash
<1>3. CASE endOfBlock \/ endOfFile \/ writeerror
  BY <1>3, UnlitEnds
<1>4. CASE UNCHANGED unlitVars
  BY <1>4, UnlitStutters
<1> QED BY <1>1, <1>2, <1>3, <1>4 DEF unlit

LEMMA UnlitInvIsEnough == UnlitInv => UnlitSound
<1> SUFFICES ASSUME UnlitInv PROVE UnlitSound
  OBVIOUS
<1>1. PICK n \in Nat : n = Len(input)
  BY LenProperties DEF UnlitInv, UnlitType
<1>2. UnlitTypeOK
  BY <1>1, UnlitAssumption DEF UnlitInv, UnlitType, UnlitTypeOK
<1>3. CodeCopied
  <2> SUFFICES ASSUME ~Mistaken
               PROVE  \A i : (i \notin {0, -1} /\ \E p \in 1 .. Len(output) : output[p] = i)
                               <=> (i \in 1 .. n /\ IsCode(i))
    BY <1>1 DEF CodeCopied, Empty
  <2>1. \A p \in 1 .. Len(output) : output[p] \in {-1, 0} \/ output[p] \in 1 .. n
    BY <1>1 DEF UnlitInv, UnlitType
  <2>2. \A i \in 1 .. n : /\ i \notin {0, -1}
                          /\ IsCode(i) <=> \E p \in 1 .. Len(output) : output[p] = i
    BY <1>1 DEF UnlitInv, CodeInv
  <2> QED BY <2>1, <2>2
<1>4. ComplaintsFit
  <2> SUFFICES ASSUME noisy, ~Mistaken, ~Miscounted
               PROVE  /\ { c[1] : c \in { d \in complaints : d[2] = "MISSINGBLANK" } } =
                           { i \in 1 .. n : Unseparated(i) }
                      /\ { c[1] : c \in { d \in complaints : d[2] = "SPURIOUSENDCODE" } } =
                           { i \in 1 .. n : Spurious(i) }
    BY <1>1 DEF ComplaintsFit, Unseparated, Spurious
  <2>1. complaints \subseteq Nat \X Complaints
    BY DEF UnlitInv, UnlitType
  <2>2. ASSUME NEW e \in Complaints
        PROVE  { c[1] : c \in { d \in complaints : d[2] = e } } =
                 { i \in Nat : <<i, e>> \in complaints }
    <3>1. \A d \in complaints : d = <<d[1], d[2]>> /\ d[1] \in Nat
      BY <2>1
    <3>2. \A i : <<i, e>>[1] = i /\ <<i, e>>[2] = e
      OBVIOUS
    <3> QED BY <3>1, <3>2
  <2>3. \A i \in Nat : /\ <<i, "MISSINGBLANK">> \in complaints <=> i \in 1 .. n /\ Unseparated(i)
                       /\ <<i, "SPURIOUSENDCODE">> \in complaints <=> i \in 1 .. n /\ Spurious(i)
    BY <1>1 DEF UnlitInv, ComplaintsInv
  <2>4. /\ "MISSINGBLANK" \in Complaints /\ "SPURIOUSENDCODE" \in Complaints
        /\ \A i \in 1 .. n : i \in Nat
    BY DEF Complaints
  <2> QED BY <2>2, <2>3, <2>4
<1>5. SuccessIsDeserved
  <2> SUFFICES ASSUME status = 0, ~Mistaken
               PROVE  /\ n > 0 => /\ Inside(n) => input[n] \in {"end", "endMore"}
                                  /\ ~Inside(n) => input[n] # "begin"
                      /\ noisy => \E i \in 1 .. n :
                                    input[i] = "defn" \/ input[i] \in {"end", "endMore"}
    BY <1>1 DEF SuccessIsDeserved
  <2>1. ~Open(n)
    BY <1>1 DEF UnlitInv, ModeInv
  <2>2. n > 0 => n \in 1 .. Len(input)
    BY <1>1
  <2>3. n > 0 => (input[n] # "begin" /\ (Inside(n) => input[n] \in {"end", "endMore"}))
    BY <2>1, <2>2, OpenStep DEF Inside, UnlitInv, UnlitType
  <2>4. noisy => \E i \in 1 .. n : input[i] \in {"defn", "end", "endMore"}
    BY <1>1 DEF UnlitInv, ModeInv
  <2> QED BY <2>3, <2>4
<1> QED BY <1>2, <1>3, <1>4, <1>5 DEF UnlitSound, UnlitInv

\* The filter for literate scripts keeps the numbers of the lines (a # that stands alone
\* in the last line may leave an empty line behind it), copies all code and
\* nothing else, complains exactly about the code that stands beside text and about an
\* \end{code} without its beginning, and succeeds only when every block is closed, for an
\* input of any length and all options (unlit of unlit.c).
THEOREM LiteratesAreFiltered == UnlitSpec => []UnlitSound
<1>1. UnlitInit => UnlitInv
  BY UnlitStart
<1>2. UnlitInv /\ [unlit]_unlitVars => UnlitInv'
  BY UnlitKeeps
<1>3. UnlitInv => UnlitSound
  BY UnlitInvIsEnough
<1> QED BY <1>1, <1>2, <1>3, PTL DEF UnlitSpec

-----------------------------------------------------------------------------
(***************************************************************************)
(* FdReady, for every size of a unit of time, every timeout and any input. *)
(***************************************************************************)

LEMMA Quotient ==
  ASSUME NEW a \in Int, NEW d \in Nat \ {0}
  PROVE  /\ a \div d \in Int /\ a % d \in 0 .. d - 1
         /\ a = d * (a \div d) + (a % d)
OBVIOUS

LEMMA Division ==
  ASSUME NEW a \in Int, NEW d \in Nat \ {0}
  PROVE  \E q \in Int, r \in 0 .. d - 1 : a = d * q + r /\ q = a \div d /\ r = a % d
<1>1. PICK q \in Int : q = a \div d
  BY Quotient
<1>2. PICK r \in 0 .. d - 1 : r = a % d
  BY Quotient
<1>3. a = d * q + r
  BY <1>1, <1>2, Quotient
<1> QED BY <1>1, <1>2, <1>3

LEMMA QuotientUnique ==
  ASSUME NEW a \in Int, NEW d \in Nat \ {0}, NEW q \in Int, NEW r \in 0 .. d - 1, a = d * q + r
  PROVE  a \div d = q /\ a % d = r
<1>1. PICK p \in Int : p = a \div d
  BY Quotient
<1>2. PICK s \in 0 .. d - 1 : s = a % d
  BY Quotient
<1>3. d * p + s = d * q + r
  BY <1>1, <1>2, Quotient
<1>4. d * (p - q) = r - s
  BY <1>3
<1>5. p = q
  <2>1. CASE p > q
    <3>1. d * (p - q) >= d
      BY <2>1
    <3> QED BY <3>1, <1>4
  <2>2. CASE p < q
    <3>1. d * (q - p) >= d
      BY <2>2
    <3>2. d * (q - p) = s - r
      BY <1>4
    <3> QED BY <3>1, <3>2
  <2> QED BY <2>1, <2>2
<1> QED BY <1>1, <1>2, <1>3, <1>5

LEMMA NestedQuotients ==
  ASSUME NEW t \in Nat, NEW u \in Nat \ {0}, NEW q \in Nat \ {0}, NEW s \in Nat \ {0}
  PROVE  /\ (s * (u * q)) \div u = s * q
         /\ (t \div (u * q)) \div s = (t \div u) \div (s * q)
<1> DEFINE w == s * q
           m == u * q
<1>0. w \in Nat \ {0} /\ m \in Nat \ {0} /\ s * m = u * w /\ s * m \in Int
  OBVIOUS
<1>1. (s * m) \div u = w
  <2>1. s * m = u * w + 0 /\ 0 \in 0 .. u - 1
    BY <1>0
  <2> HIDE DEF w, m
  <2> QED BY <2>1, <1>0, QuotientUnique
<1>2. PICK b \in Int, r \in 0 .. u - 1 : t = u * b + r /\ b = t \div u /\ r = t % u
  BY Division
<1>3. PICK d \in Int, k \in 0 .. w - 1 : b = w * d + k /\ d = b \div w /\ k = b % w
  <2> HIDE DEF w
  <2> QED BY <1>0, Division
<1>4. PICK h \in Int, l \in 0 .. q - 1 : k = q * h + l /\ h = k \div q /\ l = k % q
  <2>1. k \in Int /\ q \in Nat \ {0}
    BY <1>0
  <2> HIDE DEF w
  <2> QED BY <2>1, Division
<1>5. h \in 0 .. s - 1
  <2>1. k >= 0 /\ k < s * q
    BY <1>0
  <2>2. CASE h < 0
    <3>1. q * h <= -q
      BY <2>2
    <3> QED BY <3>1, <1>4, <2>1
  <2>3. CASE h >= s
    <3>1. q * h >= q * s
      BY <2>3
    <3>2. q * s = s * q
      OBVIOUS
    <3> QED BY <3>1, <3>2, <1>4, <2>1
  <2> QED BY <2>2, <2>3
<1>6. t = m * (s * d + h) + (u * l + r)
  <2>1. t = u * (w * d + (q * h + l)) + r
    BY <1>2, <1>3, <1>4
  <2>2. u * (w * d + (q * h + l)) = u * (w * d) + (u * (q * h) + u * l)
    BY <1>0
  <2>3. u * (w * d) = m * (s * d)
    BY <1>0
  <2>4. u * (q * h) = m * h
    BY <1>0
  <2>5. m * (s * d) + m * h = m * (s * d + h)
    BY <1>0
  <2> HIDE DEF w, m
  <2>6. u * (w * d) \in Int /\ u * (q * h) \in Int /\ u * l \in Int
        /\ m * (s * d) \in Int /\ m * h \in Int
    BY <1>0
  <2> QED BY <2>1, <2>2, <2>3, <2>4, <2>5, <2>6
<1>7. u * l + r \in 0 .. m - 1
  <2>1. u * l >= 0 /\ u * l \in Int
    OBVIOUS
  <2>2. u * l <= u * (q - 1)
    BY <1>4
  <2>3. u * (q - 1) = m - u
    OBVIOUS
  <2> HIDE DEF m
  <2> QED BY <2>1, <2>2, <2>3, <1>0, <1>2
<1>8. t \div m = s * d + h
  <2> HIDE DEF m
  <2> QED BY <1>0, <1>6, <1>7, QuotientUnique, s * d + h \in Int
<1>9. (s * d + h) \div s = d
  BY <1>5, QuotientUnique, s * d + h \in Int
<1> QED BY <1>1, <1>8, <1>9, <1>3, <1>2

-----------------------------------------------------------------------------
Input(p) == \E k \in 1 .. Len(p) : p[k] = "key"

FdType ==
  /\ FdTypeOK
  /\ endTime \in Int /\ remaining \in Int /\ wake \in Int
  /\ endTimeReached \in BOOLEAN /\ broken \in BOOLEAN
  /\ fdInput \in Seq({"key", "other"})

KindOfLoop ==
  /\ fdPc = "disk" => fdKind = "disk"
  /\ fdPc \in {"pipe", "pipeClock", "nap"} => fdKind = "pipe"
  /\ fdPc \in {"peek", "discard"} => fdKind = "console"
  /\ fdPc \in {"call", "asleep", "clock"} => fdKind \notin {"disk", "pipe"}

KeysKept ==
  /\ fdKind # "console" => \A k \in 1 .. Len(fdInput) : fdInput[k] = "key"
  /\ keys > 0 => Input(fdInput)
  /\ fdPc = "discard" => fdInput # <<>> /\ fdInput[1] # "key"

\* The call that is under way is the last one of a finite wait.
LastCall ==
  IF fdKind \in {"poll", "select"} THEN remaining <= MSToTime(IntMax)
  ELSE remaining < MSToTime(INFINITE)

TimeKept ==
  /\ fdPc # "enter" => IF msecs > 0 THEN endTime <= now + MSToTime(msecs) ELSE endTime = 0
  /\ msecs > 0 /\ fdPc = "call" => endTime <= now + remaining
  /\ msecs > 0 /\ fdPc = "asleep" /\ LastCall => endTime <= wake + Slack
  /\ msecs > 0 /\ fdPc # "enter" /\ endTimeReached => endTime <= now
  /\ fdPc = "enter" => ~endTimeReached
  /\ msecs < 0 /\ fdKind = "select" /\ fdPc = "asleep" => wake > Horizon

FdInv == FdType /\ KindOfLoop /\ KeysKept /\ TimeKept /\ FdSound

LEMMA Durations ==
  /\ \A ms \in Int : MSToTime(ms) \in Int
  /\ \A ms \in Nat : MSToTime(ms) \in Nat
  /\ Never \in Nat
BY UnitsAssumption DEF MSToTime, Never

LEMMA RoundUpMSIsUp ==
  ASSUME NEW t \in Nat
  PROVE  RoundUpMS(t) \in Nat /\ MSToTime(RoundUpMS(t)) >= t
<1>1. MS \in Nat \ {0}
  BY UnitsAssumption
<1>2. PICK q \in Int, r \in 0 .. MS - 1 : t = MS * q + r /\ q = t \div MS /\ r = t % MS
  BY <1>1, Division
<1>3. q >= 0
  <2> SUFFICES ASSUME q < 0 PROVE FALSE
    BY <1>2
  <2>1. MS * q <= -MS
    BY <1>1
  <2> QED BY <2>1, <1>1, <1>2
<1>4. /\ RoundUpMS(t) = q + (IF t # q * MS THEN 1 ELSE 0)
      /\ MSToTime(RoundUpMS(t)) = RoundUpMS(t) * MS
  BY <1>2 DEF RoundUpMS, MSToTime, TimeToMS
<1>5. q * MS = MS * q /\ (q + 1) * MS = MS * q + MS /\ (q + 0) * MS = MS * q /\ MS * q \in Int
  BY <1>1
<1> QED BY <1>1, <1>2, <1>3, <1>4, <1>5

\* What select is given for a time.
Timeval(t) ==
  (TimeToMS(t) \div SecMs) * SecMs * MS + (TimeToUS(t) % ((SecMs * MS) \div US)) * US

LEMMA SelectSleeps ==
  ASSUME NEW t \in Nat
  PROVE  Timeval(t) \in Int /\ Timeval(t) + (US - 1) >= t
<1>1. US \in Nat \ {0} /\ SecMs \in Nat \ {0} /\ MS \in Nat \ {0} /\ MS % US = 0
  BY UnitsAssumption
<1>2. PICK q \in Int : MS = US * q /\ q > 0
  <2>1. PICK q \in Int, r \in 0 .. US - 1 : MS = US * q + r /\ q = MS \div US /\ r = MS % US
    BY <1>1, Division
  <2>2. q > 0
    <3> SUFFICES ASSUME q <= 0 PROVE FALSE
      BY <2>1
    <3>1. US * q <= 0
      BY <1>1
    <3> QED BY <3>1, <2>1, <1>1
  <2>3. MS = US * q
    BY <2>1, <1>1
  <2> QED BY <2>2, <2>3
<1> DEFINE w == SecMs * q
<1>3. w \in Nat \ {0} /\ SecMs * MS = SecMs * (US * q) /\ US * q = MS
  BY <1>1, <1>2
<1>4. /\ (SecMs * MS) \div US = w
      /\ (t \div MS) \div SecMs = (t \div US) \div w
  <2>1. q \in Nat \ {0}
    BY <1>2
  <2>2. /\ (SecMs * (US * q)) \div US = SecMs * q
        /\ (t \div (US * q)) \div SecMs = (t \div US) \div (SecMs * q)
    BY <2>1, <1>1, NestedQuotients
  <2> QED BY <2>2, <1>3
<1>5. PICK b \in Int, r \in 0 .. US - 1 : t = US * b + r /\ b = t \div US /\ r = t % US
  BY <1>1, Division
<1>6. PICK d \in Int, k \in 0 .. w - 1 : b = w * d + k /\ d = b \div w /\ k = b % w
  <2> HIDE DEF w
  <2> QED BY <1>3, Division
<1>7. Timeval(t) = d * SecMs * MS + k * US
  <2> HIDE DEF w
  <2> QED BY <1>4, <1>5, <1>6 DEF Timeval, TimeToMS, TimeToUS
<1>8. d * SecMs * MS = US * (w * d)
  <2>1. d * SecMs * MS = d * SecMs * (US * q)
    BY <1>2
  <2>2. d * SecMs * (US * q) = US * ((SecMs * q) * d)
    BY <1>1, <1>2
  <2> QED BY <2>1, <2>2
<1>9. /\ k * US = US * k /\ US * b = US * (w * d) + US * k /\ US * b \in Int /\ US * k \in Int
      /\ US * (w * d) \in Int
  <2>1. w * d \in Int /\ k \in Int
    BY <1>3
  <2>2. PICK u \in Int : u = w * d
    BY <2>1
  <2> HIDE DEF w
  <2>3. b = u + k
    BY <2>2, <1>6
  <2>4. US * b = US * u + US * k
    BY <2>1, <2>3, <1>1
  <2> QED BY <2>1, <2>2, <2>4, <1>1
<1> HIDE DEF w
<1>10. Timeval(t) = US * (w * d) + US * k
  BY <1>7, <1>8, <1>9
<1>11. t = US * (w * d) + US * k + r
  BY <1>9, <1>5, <1>1
<1>12. PICK y \in Int : y = US * (w * d)
  BY <1>9
<1>13. PICK z \in Int : z = US * k
  BY <1>9
<1>14. Timeval(t) = y + z /\ t = y + z + r
  BY <1>10, <1>11, <1>12, <1>13
<1>15. US \in Int /\ r \in Int /\ r <= US - 1
  BY <1>1, <1>5
<1> QED BY <1>14, <1>15

LEMMA SleepsLongEnough ==
  ASSUME remaining \in Int, msecs \in Int
  PROVE  /\ Sleeps \in Int
         /\ ~infinite /\ LastCall => Sleeps + Slack >= remaining
<1>1. /\ US \in Nat \ {0} /\ IntMax \in Nat /\ INFINITE \in Nat \ {0, 1}
      /\ MSToTime(0) = 0 /\ MSToTime(IntMax) \in Nat /\ MSToTime(INFINITE) \in Nat
      /\ MSToTime(INFINITE - 1) \in Nat /\ Never \in Nat
  BY UnitsAssumption, Durations DEF MSToTime
<1>2. Slack \in Nat
  BY <1>1 DEF Slack
<1>3. ASSUME remaining \in Nat
      PROVE  /\ RoundUpMS(remaining) \in Nat /\ MSToTime(RoundUpMS(remaining)) >= remaining
             /\ MSToTime(RoundUpMS(remaining)) \in Nat
             /\ Timeval(remaining) \in Int /\ Timeval(remaining) + (US - 1) >= remaining
  BY <1>3, RoundUpMSIsUp, SelectSleeps, Durations
<1>4. CASE fdKind = "poll"
  <2>1. Sleeps = IF compute_poll_timeout(infinite, remaining) < 0 THEN Never
                 ELSE MSToTime(compute_poll_timeout(infinite, remaining))
    BY <1>4 DEF Sleeps
  <2>2. LastCall <=> remaining <= MSToTime(IntMax)
    BY <1>4 DEF LastCall
  <2>3. CASE infinite
    <3>1. compute_poll_timeout(infinite, remaining) = -1
      BY <2>3 DEF compute_poll_timeout
    <3> QED BY <3>1, <2>1, <2>3, <1>1
  <2>4. CASE ~infinite /\ remaining < 0
    <3>1. compute_poll_timeout(infinite, remaining) = 0
      BY <1>1, <2>4 DEF compute_poll_timeout
    <3> QED BY <3>1, <2>1, <2>4, <1>1, <1>2
  <2>5. CASE ~infinite /\ ~(remaining < 0) /\ remaining > MSToTime(IntMax)
    <3>1. compute_poll_timeout(infinite, remaining) = IntMax
      BY <2>5 DEF compute_poll_timeout
    <3> QED BY <3>1, <2>1, <2>2, <2>5, <1>1
  <2>6. CASE ~infinite /\ ~(remaining < 0) /\ ~(remaining > MSToTime(IntMax))
    <3>1. compute_poll_timeout(infinite, remaining) = RoundUpMS(remaining)
      BY <2>6 DEF compute_poll_timeout
    <3> QED BY <3>1, <2>1, <2>6, <1>1, <1>2, <1>3
  <2> QED BY <2>3, <2>4, <2>5, <2>6
<1>5. CASE fdKind = "select"
  <2>1. Sleeps = compute_windows_select_timeout(infinite, remaining) /\ Slack = US - 1
    BY <1>5 DEF Sleeps, Slack
  <2>2. LastCall <=> remaining <= MSToTime(IntMax)
    BY <1>5 DEF LastCall
  <2>3. CASE infinite
    <3>1. Sleeps = Never
      BY <2>1, <2>3 DEF compute_windows_select_timeout
    <3> QED BY <3>1, <2>3, <1>1
  <2>4. CASE ~infinite /\ remaining < 0
    <3>1. Sleeps = 0
      BY <1>1, <2>1, <2>4 DEF compute_windows_select_timeout
    <3> QED BY <3>1, <2>4, <1>1, <1>2
  <2>5. CASE ~infinite /\ ~(remaining < 0) /\ remaining > MSToTime(IntMax)
    <3>1. Sleeps = IntMax * SecMs * MS + IntMax * US
      BY <2>1, <2>5 DEF compute_windows_select_timeout
    <3>2. IntMax * SecMs * MS + IntMax * US \in Int
      BY UnitsAssumption
    <3> QED BY <3>1, <3>2, <2>2, <2>5, <1>1
  <2>6. CASE ~infinite /\ ~(remaining < 0) /\ ~(remaining > MSToTime(IntMax))
    <3>1. Sleeps = Timeval(remaining)
      BY <2>1, <2>6 DEF compute_windows_select_timeout, Timeval
    <3> QED BY <3>1, <2>1, <2>6, <1>1, <1>3
  <2> QED BY <2>3, <2>4, <2>5, <2>6
<1>6. CASE fdKind \notin {"poll", "select"}
  <2>1. Sleeps = IF compute_WaitForSingleObject_timeout(infinite, remaining) = INFINITE THEN Never
                 ELSE MSToTime(compute_WaitForSingleObject_timeout(infinite, remaining))
    BY <1>6 DEF Sleeps
  <2>2. LastCall <=> remaining < MSToTime(INFINITE)
    BY <1>6 DEF LastCall
  <2>3. CASE infinite
    <3>1. compute_WaitForSingleObject_timeout(infinite, remaining) = INFINITE
      BY <2>3 DEF compute_WaitForSingleObject_timeout
    <3> QED BY <3>1, <2>1, <2>3, <1>1
  <2>4. CASE ~infinite /\ remaining < 0
    <3>1. compute_WaitForSingleObject_timeout(infinite, remaining) = 0
      BY <1>1, <2>4 DEF compute_WaitForSingleObject_timeout
    <3> QED BY <3>1, <2>1, <2>4, <1>1, <1>2
  <2>5. CASE ~infinite /\ ~(remaining < 0) /\ remaining >= MSToTime(INFINITE)
    <3>1. compute_WaitForSingleObject_timeout(infinite, remaining) = INFINITE - 1
      BY <2>5 DEF compute_WaitForSingleObject_timeout
    <3> QED BY <3>1, <2>1, <2>2, <2>5, <1>1
  <2>6. CASE ~infinite /\ ~(remaining < 0) /\ ~(remaining >= MSToTime(INFINITE))
    <3>1. compute_WaitForSingleObject_timeout(infinite, remaining) = RoundUpMS(remaining)
      BY <2>6 DEF compute_WaitForSingleObject_timeout
    <3>2. MSToTime(INFINITE) <= Never
      <4>1. /\ Never = Horizon + 1 + MSToTime(INFINITE + 1)
            /\ MSToTime(INFINITE + 1) = MSToTime(INFINITE) + MS
        BY UnitsAssumption DEF Never, MSToTime
      <4> QED BY <4>1, <1>1, UnitsAssumption
    <3> QED BY <3>1, <3>2, <2>1, <2>6, <1>1, <1>2, <1>3
  <2> QED BY <2>3, <2>4, <2>5, <2>6
<1> QED BY <1>4, <1>5, <1>6

LEMMA FdStart == FdInit => FdInv
<1> SUFFICES ASSUME FdInit PROVE FdInv
  OBVIOUS
<1>1. MSToTime(msecs) \in Int /\ (msecs >= 0 => MSToTime(msecs) >= 0)
  BY Durations, UnitsAssumption DEF FdInit
<1>2. fdInput \in Seq({"key", "other"}) /\ Len(fdInput) = 0
  BY DEF FdInit
<1>a1. FdTypeOK
  BY <1>1, UnitsAssumption DEF FdInit, FdTypeOK, infinite
<1>a2. endTimeReached \in BOOLEAN /\ broken \in BOOLEAN
  BY DEF FdInit
<1>a. FdType
  BY <1>a1, <1>a2 DEF FdInit, FdType
<1>b. KindOfLoop /\ KeysKept
  BY <1>2 DEF FdInit, KindOfLoop, KeysKept
<1>c. TimeKept
  BY <1>1 DEF FdInit, TimeKept
<1>d. FullWait /\ NothingMissed /\ ReadyMeansReady
  BY DEF FdInit, FullWait, NothingMissed, InPieces, ReadyMeansReady, NoResult
<1> QED BY <1>a, <1>b, <1>c, <1>d DEF FdInv, FdSound, FdType

LEMMA WaitIsATime ==
  ASSUME FdInv
  PROVE  MSToTime(msecs) \in Int /\ (msecs >= 0 => MSToTime(msecs) >= 0) /\ MSToTime(1) \in Int
<1>1. msecs \in Int /\ (msecs >= 0 => msecs \in Nat)
  BY UnitsAssumption DEF FdInv, FdType, FdTypeOK
<1> QED BY <1>1, Durations

LEMMA FdArrive ==
  ASSUME FdInv, NEW e \in {"key", "other"}, Arrive(e)
  PROVE  FdInv'
<1>1. MSToTime(msecs) \in Int
  BY Durations DEF FdInv, FdType, FdTypeOK
<1>2. /\ fdInput' \in Seq({"key", "other"}) /\ Len(fdInput') = Len(fdInput) + 1
      /\ Len(fdInput) \in Nat
      /\ fdInput'[Len(fdInput) + 1] = e
      /\ \A k \in 1 .. Len(fdInput) : fdInput'[k] = fdInput[k]
  BY DEF Arrive, FdInv, FdType
<1>3. /\ fdInput # <<>> => Len(fdInput) >= 1
      /\ fdInput' # <<>>
  BY <1>2, EmptySeq DEF FdInv, FdType
<1>4. Input(fdInput') <=> Input(fdInput) \/ e = "key"
  BY <1>2 DEF Input
<1>a. FdType'
  BY UnitsAssumption DEF Arrive, fdLocal, fdArgs, FdInv, FdType, FdTypeOK, infinite
<1>b. KindOfLoop' /\ fdPc' # "done"
  BY DEF Arrive, fdArgs, FdInv, KindOfLoop
<1>c1. (fdKind # "console" => \A k \in 1 .. Len(fdInput) : fdInput[k] = "key")'
  BY DEF Arrive, fdArgs, FdInv, KeysKept
<1>c2. (keys > 0 => Input(fdInput))'
  BY <1>4 DEF Arrive, FdInv, FdType, FdTypeOK, KeysKept
<1>c3. (fdPc = "discard" => fdInput # <<>> /\ fdInput[1] # "key")'
  BY DEF Arrive, FdInv, KeysKept
<1>d. TimeKept'
  BY DEF Arrive, fdArgs, fdLocal, FdInv, TimeKept, LastCall, Slack
<1>e. FullWait' /\ NothingMissed' /\ ReadyMeansReady'
  BY <1>a, <1>b DEF Arrive, FdInv, FdSound, FdType, FdTypeOK, FullWait, NothingMissed, InPieces,
                    ReadyMeansReady, NoResult, fdArgs, fdLocal
<1> QED BY <1>a, <1>b, <1>c1, <1>c2, <1>c3, <1>d, <1>e DEF FdInv, FdSound, FdType, KeysKept

LEMMA FdTick == FdInv /\ Tick => FdInv'
<1> SUFFICES ASSUME FdInv, Tick PROVE FdInv'
  OBVIOUS
<1>1. MSToTime(msecs) \in Int /\ (msecs >= 0 => MSToTime(msecs) >= 0) /\ MSToTime(1) \in Int
  BY WaitIsATime
<1>a1. FdTypeOK'
  BY UnitsAssumption DEF Tick, fdArgs, fdLocal, FdInv, FdType, FdTypeOK, infinite
<1>a2. (endTime \in Int /\ remaining \in Int /\ wake \in Int /\ fdInput \in Seq({"key", "other"}))'
  BY DEF Tick, fdLocal, FdInv, FdType
<1>a3. (endTimeReached \in BOOLEAN /\ broken \in BOOLEAN)'
  BY DEF Tick, fdLocal, FdInv, FdType
<1>a. FdType'
  BY <1>a1, <1>a2, <1>a3 DEF FdType
<1>b. KindOfLoop'
  BY DEF Tick, fdArgs, FdInv, KindOfLoop
<1>c. KeysKept'
  BY DEF Tick, fdArgs, FdInv, KeysKept
<1>d. TimeKept'
  BY <1>1, UnitsAssumption DEF Tick, fdArgs, fdLocal, FdInv, FdType, FdTypeOK, TimeKept, LastCall,
                               Slack
<1>e. FullWait' /\ NothingMissed' /\ ReadyMeansReady'
  BY DEF Tick, FdInv, FdTypeOK, FdSound, FullWait, NothingMissed, ReadyMeansReady, NoResult,
         InPieces, fdArgs, fdLocal
<1> QED BY <1>a, <1>b, <1>c, <1>d, <1>e DEF FdInv, FdSound, FdType

LEMMA FdTypeCarries ==
  ASSUME FdInv, UNCHANGED <<fdArgs, now, keys>>, Len(fdInput') <= MaxInput, polled' \in {polled, now},
         \/ fdPc' = "done" /\ fdRet' \in {-1, 0, 1}
         \/ fdPc # "done" /\ fdPc' # "done" /\ fdRet' = fdRet,
         remaining' = remaining \/ remaining' = MSToTime(msecs)
  PROVE  FdTypeOK'
<1>1. /\ fdKind' = fdKind /\ msecs' = msecs /\ now' = now /\ keys' = keys
  BY DEF fdArgs
<1>2. /\ fdKind \in Kinds /\ msecs \in -1..MaxMsecs /\ now \in 1..Horizon /\ polled \in 0..now
      /\ keys \in 0..MaxInput /\ fdRet \in {-1, 0, 1, NoResult} /\ (fdRet = NoResult <=> fdPc # "done")
      /\ remaining <= MSToTime(msecs) \/ msecs < 0
  BY DEF FdInv, FdType, FdTypeOK, infinite
<1>3. PICK top : top = Horizon
  OBVIOUS
<1>4. now \in 1..top /\ polled \in 0..now
  BY <1>2, <1>3
<1>5. now \in 0..now
  BY <1>4
<1>6. polled' \in 0..now
  BY <1>4, <1>5
<1>7. fdRet' \in {-1, 0, 1, NoResult} /\ (fdRet' = NoResult <=> fdPc' # "done")
  BY <1>2 DEF NoResult
<1>8. MSToTime(msecs) \in Int
  BY WaitIsATime
<1>9. remaining' <= MSToTime(msecs) \/ msecs < 0
  BY <1>2, <1>8
<1> QED BY <1>1, <1>2, <1>6, <1>7, <1>9 DEF FdTypeOK, infinite, MSToTime

LEMMA FdEnter == FdInv /\ enter => FdInv'
<1> SUFFICES ASSUME FdInv, enter PROVE FdInv'
  OBVIOUS
<1>1. MSToTime(msecs) \in Int /\ (msecs >= 0 => MSToTime(msecs) >= 0) /\ MSToTime(1) \in Int
  BY WaitIsATime
<1>a1. FdTypeOK'
  <2>1. UNCHANGED <<fdArgs, now, keys>> /\ polled' \in {polled, now} /\ remaining' = MSToTime(msecs)
    BY DEF enter, fdOutside
  <2>2. Len(fdInput') <= MaxInput
    BY DEF enter, fdOutside, FdInv, FdType, FdTypeOK
  <2>3. \/ fdPc' = "done" /\ fdRet' \in {-1, 0, 1}
        \/ fdPc # "done" /\ fdPc' # "done" /\ fdRet' = fdRet
    BY DEF enter
  <2> QED BY <2>1, <2>2, <2>3, FdTypeCarries
<1>a2. (endTime \in Int /\ remaining \in Int /\ wake \in Int /\ fdInput \in Seq({"key", "other"}))'
  <2>1. now \in Int /\ wake \in Int /\ fdInput \in Seq({"key", "other"})
    BY DEF FdInv, FdType, FdTypeOK
  <2>2. wake' = wake /\ fdInput' = fdInput /\ remaining' = MSToTime(msecs)
    BY DEF enter, fdOutside
  <2>3. endTime' \in Int
    BY <1>1, <2>1 DEF enter
  <2> QED BY <1>1, <2>1, <2>2, <2>3
<1>a3. (endTimeReached \in BOOLEAN /\ broken \in BOOLEAN)'
  BY DEF enter, FdInv, FdType
<1>a. FdType'
  BY <1>a1, <1>a2, <1>a3 DEF FdType
<1>b. KindOfLoop'
  BY DEF enter, fdArgs, KindOfLoop
<1>c. KeysKept'
  BY DEF enter, fdArgs, fdOutside, FdInv, KeysKept
<1>d. TimeKept'
  <2>1. PICK w \in Int : w = MSToTime(msecs)
    BY <1>1
  <2>2. now \in Int /\ now >= 0
    BY DEF FdInv, FdType, FdTypeOK
  <2>3. /\ msecs' = msecs /\ now' = now /\ remaining' = w /\ ~endTimeReached'
        /\ endTime' = IF msecs > 0 THEN now + w ELSE 0
    BY <2>1 DEF enter, fdArgs, fdOutside, FdInv, TimeKept
  <2>4. fdPc' \in {"disk", "pipe", "call"}
    BY DEF enter
  <2>5. MSToTime(msecs)' = w
    BY <2>1, <2>3 DEF MSToTime
  <2> QED BY <2>2, <2>3, <2>4, <2>5 DEF TimeKept
<1>e. FullWait' /\ NothingMissed' /\ ReadyMeansReady'
  BY DEF enter, FdInv, FdTypeOK, FdSound, FullWait, NothingMissed, ReadyMeansReady, NoResult,
         InPieces, fdArgs, fdLocal
<1> QED BY <1>a, <1>b, <1>c, <1>d, <1>e DEF FdInv, FdSound, FdType

LEMMA FdCalls == FdInv /\ systemCall => FdInv'
<1> SUFFICES ASSUME FdInv, systemCall PROVE FdInv'
  OBVIOUS
<1>1. MSToTime(msecs) \in Int /\ (msecs >= 0 => MSToTime(msecs) >= 0) /\ MSToTime(1) \in Int
  BY WaitIsATime
<1>a1. FdTypeOK'
  BY DEF systemCall, fdArgs, fdOutside, FdInv, FdType, FdTypeOK, infinite
<1>a2. (endTime \in Int /\ remaining \in Int /\ wake \in Int /\ fdInput \in Seq({"key", "other"}))'
  BY DEF systemCall, fdOutside, FdInv, FdType
<1>a3. (endTimeReached \in BOOLEAN /\ broken \in BOOLEAN)'
  BY DEF systemCall, FdInv, FdType
<1>a. FdType'
  BY <1>a1, <1>a2, <1>a3 DEF FdType
<1>b. KindOfLoop'
  BY DEF systemCall, fdArgs, FdInv, KindOfLoop
<1>c. KeysKept'
  BY DEF systemCall, fdArgs, fdOutside, FdInv, KeysKept
<1>d. TimeKept'
  <2>1. (msecs < 0 /\ fdKind = "select" /\ fdPc = "asleep" => wake > Horizon)'
    <3> SUFFICES ASSUME infinite, fdKind = "select" PROVE now + Sleeps > Horizon
      BY DEF systemCall, fdArgs, infinite
    <3>1. Sleeps = Never
      BY DEF Sleeps, compute_windows_select_timeout
    <3>2. Never >= Horizon + 1
      <4>1. MSToTime(INFINITE + 1) \in Nat /\ Never = Horizon + 1 + MSToTime(INFINITE + 1)
        BY UnitsAssumption, Durations DEF Never, MSToTime
      <4> QED BY <4>1, UnitsAssumption
    <3> QED BY <3>1, <3>2, Durations, UnitsAssumption DEF FdInv, FdType, FdTypeOK
  <2>2. (/\ fdPc # "enter" => IF msecs > 0 THEN endTime <= now + MSToTime(msecs) ELSE endTime = 0
         /\ msecs > 0 /\ fdPc = "call" => endTime <= now + remaining
         /\ msecs > 0 /\ fdPc = "asleep" /\ LastCall => endTime <= wake + Slack
         /\ msecs > 0 /\ fdPc # "enter" /\ endTimeReached => endTime <= now
         /\ fdPc = "enter" => ~endTimeReached)'
    BY SleepsLongEnough, UnitsAssumption DEF systemCall, fdArgs, fdOutside, fdLocal, FdInv, FdType,
                                             FdTypeOK, TimeKept, LastCall, Slack, infinite
  <2> QED BY <2>1, <2>2 DEF TimeKept
<1>e. FullWait' /\ NothingMissed' /\ ReadyMeansReady'
  BY DEF systemCall, FdInv, FdTypeOK, FdSound, FullWait, NothingMissed, ReadyMeansReady,
         NoResult, InPieces, fdArgs, fdLocal
<1> QED BY <1>a, <1>b, <1>c, <1>d, <1>e DEF FdInv, FdSound, FdType

LEMMA FdClock == FdInv /\ clock => FdInv'
<1> SUFFICES ASSUME FdInv, clock PROVE FdInv'
  OBVIOUS
<1>1. MSToTime(msecs) \in Int /\ (msecs >= 0 => MSToTime(msecs) >= 0) /\ MSToTime(1) \in Int
  BY WaitIsATime
<1>a1. FdTypeOK'
  BY <1>1, UnitsAssumption DEF clock, fdArgs, fdOutside, FdInv, FdType, FdTypeOK, infinite, TimeKept
<1>a2. (endTime \in Int /\ remaining \in Int /\ wake \in Int /\ fdInput \in Seq({"key", "other"}))'
  BY DEF clock, fdOutside, FdInv, FdType
<1>a3. (endTimeReached \in BOOLEAN /\ broken \in BOOLEAN)'
  BY DEF clock, FdInv, FdType
<1>a. FdType'
  BY <1>a1, <1>a2, <1>a3 DEF FdType
<1>b. KindOfLoop'
  BY DEF clock, fdArgs, FdInv, KindOfLoop
<1>c. KeysKept'
  BY DEF clock, fdArgs, fdOutside, FdInv, KeysKept
<1>d. TimeKept'
  BY DEF clock, fdArgs, fdOutside, FdInv, FdType, FdTypeOK, TimeKept, infinite
<1>e. FullWait' /\ NothingMissed' /\ ReadyMeansReady'
  BY DEF clock, FdInv, FdTypeOK, FdSound, FullWait, NothingMissed, ReadyMeansReady, NoResult,
         InPieces, fdArgs, fdLocal
<1> QED BY <1>a, <1>b, <1>c, <1>d, <1>e DEF FdInv, FdSound, FdType

LEMMA FdPolls == FdInv /\ (pollFailed \/ pollInterrupted \/ pollReady \/ pollTimedOut) => FdInv'
<1> SUFFICES ASSUME FdInv, (pollFailed \/ pollInterrupted \/ pollReady \/ pollTimedOut) PROVE FdInv'
  OBVIOUS
<1>1. MSToTime(msecs) \in Int /\ (msecs >= 0 => MSToTime(msecs) >= 0) /\ MSToTime(1) \in Int
  BY WaitIsATime
<1>a1. FdTypeOK'
  <2>1. UNCHANGED <<fdArgs, now, keys>> /\ polled' \in {polled, now} /\ remaining' = remaining
    BY DEF pollFailed, pollInterrupted, pollReady, pollTimedOut, FdAnswer, FdAgain, fdOutside, fdLocal
  <2>2. Len(fdInput') <= MaxInput
    BY DEF pollFailed, pollInterrupted, pollReady, pollTimedOut, FdAnswer, FdAgain,
           fdOutside, FdInv, FdType, FdTypeOK
  <2>3. \/ fdPc' = "done" /\ fdRet' \in {-1, 0, 1}
        \/ fdPc # "done" /\ fdPc' # "done" /\ fdRet' = fdRet
    BY DEF pollFailed, pollInterrupted, pollReady, pollTimedOut, FdAnswer, FdAgain,
           Asleep
  <2> QED BY <2>1, <2>2, <2>3, FdTypeCarries
<1>a2. (endTime \in Int /\ remaining \in Int /\ wake \in Int /\ fdInput \in Seq({"key", "other"}))'
  BY DEF pollFailed, pollInterrupted, pollReady, pollTimedOut, FdAnswer, fdOutside, fdLocal, FdInv,
         FdType
<1>a3. (endTimeReached \in BOOLEAN /\ broken \in BOOLEAN)'
  BY DEF pollFailed, pollInterrupted, pollReady, pollTimedOut, FdAnswer, fdLocal, FdInv, FdType
<1>a. FdType'
  BY <1>a1, <1>a2, <1>a3 DEF FdType
<1>b. KindOfLoop'
  BY DEF pollFailed, pollInterrupted, pollReady, pollTimedOut, FdAnswer, FdAgain, Asleep, fdArgs,
         KindOfLoop
<1>c. KeysKept'
  BY DEF pollFailed, pollInterrupted, pollReady, pollTimedOut, FdAnswer, FdAgain, fdArgs, fdOutside,
         FdInv, KeysKept
<1>d. TimeKept'
  BY DEF pollFailed, pollInterrupted, pollReady, pollTimedOut, FdAnswer, FdAgain, Asleep, fdArgs,
         fdOutside, fdLocal, FdInv, TimeKept
<1>e. FullWait' /\ (fdRet = 0 /\ watched => keys = 0)' /\ ReadyMeansReady'
  BY SMTT(30), <1>1, UnitsAssumption DEF pollFailed, pollInterrupted, pollReady, pollTimedOut,
         FdAnswer, FdAgain, Asleep, waitedInFull, fdVars, fdArgs, fdOutside, fdLocal, FdInv,
         FdType, FdTypeOK, FdSound, FullWait, NothingMissed, ReadyMeansReady, KindOfLoop,
         KeysKept, TimeKept, LastCall, Slack, infinite, NoResult, Input
<1>f. (~watched => InPieces)'
  <2>1. CASE watched' = watched
    BY <2>1 DEF pollFailed, pollInterrupted, pollReady, pollTimedOut, FdAnswer, FdAgain, fdArgs,
                FdInv, FdSound, NothingMissed, InPieces
  <2>2. CASE watched' # watched
    <3>1. /\ fdPc = "asleep" /\ now >= wake /\ ~waitedInFull /\ watched' = (fdKind = "poll")
          /\ fdKind \in {"poll", "select"} /\ UNCHANGED <<fdKind, msecs>>
      BY <2>2 DEF pollFailed, pollInterrupted, pollReady, pollTimedOut, FdAnswer, FdAgain, Asleep,
                  fdLocal, fdArgs
    <3> SUFFICES ASSUME fdKind = "select" PROVE msecs > IntMax
      BY <3>1 DEF InPieces
    <3>2. ~infinite
      BY <3>1, UnitsAssumption DEF FdInv, FdType, FdTypeOK, TimeKept, infinite
    <3>3. /\ remaining \in Int /\ remaining > MSToTime(IntMax) /\ remaining <= MSToTime(msecs)
          /\ msecs \in Int
      BY <3>1, <3>2, <1>1, Durations, UnitsAssumption
      DEF waitedInFull, FdInv, FdType, FdTypeOK
    <3>4. MSToTime(msecs) > MSToTime(IntMax)
      BY <3>3, <1>1, Durations, UnitsAssumption
    <3> QED BY <3>3, <3>4, UnitsAssumption DEF MSToTime
  <2> QED BY <2>1, <2>2
<1> QED BY <1>a, <1>b, <1>c, <1>d, <1>e, <1>f DEF FdInv, FdSound, FdType, NothingMissed

LEMMA FdWaits ==
  FdInv /\ (waitFailed \/ waitTimedOut \/ defaultSignalled \/ consoleSignalled) => FdInv'
<1> SUFFICES ASSUME FdInv, waitFailed \/ waitTimedOut \/ defaultSignalled \/ consoleSignalled
             PROVE  FdInv'
  OBVIOUS
<1>1. MSToTime(msecs) \in Int /\ (msecs >= 0 => MSToTime(msecs) >= 0) /\ MSToTime(1) \in Int
  BY WaitIsATime
<1>a1. FdTypeOK'
  <2>1. UNCHANGED <<fdArgs, now, keys>> /\ polled' \in {polled, now} /\ remaining' = remaining
    BY DEF waitFailed, waitTimedOut, defaultSignalled, consoleSignalled, FdAnswer,
           FdAgain, fdOutside, fdLocal
  <2>2. Len(fdInput') <= MaxInput
    BY DEF waitFailed, waitTimedOut, defaultSignalled, consoleSignalled, FdAnswer,
           FdAgain, fdOutside, FdInv, FdType, FdTypeOK
  <2>3. \/ fdPc' = "done" /\ fdRet' \in {-1, 0, 1}
        \/ fdPc # "done" /\ fdPc' # "done" /\ fdRet' = fdRet
    BY DEF waitFailed, waitTimedOut, defaultSignalled, consoleSignalled, FdAnswer,
           FdAgain, Asleep
  <2> QED BY <2>1, <2>2, <2>3, FdTypeCarries
<1>a2. (endTime \in Int /\ remaining \in Int /\ wake \in Int /\ fdInput \in Seq({"key", "other"}))'
  BY DEF waitFailed, waitTimedOut, defaultSignalled, consoleSignalled, FdAnswer, fdOutside, fdLocal,
         FdInv, FdType
<1>a3. (endTimeReached \in BOOLEAN /\ broken \in BOOLEAN)'
  BY DEF waitFailed, waitTimedOut, defaultSignalled, consoleSignalled, FdAnswer, fdLocal, FdInv,
         FdType
<1>a. FdType'
  BY <1>a1, <1>a2, <1>a3 DEF FdType
<1>b. KindOfLoop'
  BY DEF waitFailed, waitTimedOut, defaultSignalled, consoleSignalled, FdAnswer, FdAgain, Asleep,
         fdArgs, KindOfLoop
<1>c. KeysKept'
  BY DEF waitFailed, waitTimedOut, defaultSignalled, consoleSignalled, FdAnswer, FdAgain, fdArgs,
         fdOutside, FdInv, KeysKept
<1>d. TimeKept'
  BY DEF waitFailed, waitTimedOut, defaultSignalled, consoleSignalled, FdAnswer, FdAgain, Asleep,
         fdArgs, fdOutside, fdLocal, FdInv, TimeKept
<1>e. FullWait' /\ NothingMissed' /\ ReadyMeansReady'
  BY DEF waitFailed, waitTimedOut, defaultSignalled, consoleSignalled, FdAnswer, FdAgain, Asleep,
         fdVars, fdArgs, fdOutside, fdLocal, FdInv, FdType, FdTypeOK, FdSound, FullWait,
         NothingMissed, ReadyMeansReady, KeysKept, TimeKept, LastCall, Slack, infinite, NoResult,
         Input, InPieces
<1> QED BY <1>a, <1>b, <1>c, <1>d, <1>e DEF FdInv, FdSound, FdType

LEMMA FdConsoles == FdInv /\ (consoleFailed \/ consolePeek) => FdInv'
<1> SUFFICES ASSUME FdInv, (consoleFailed \/ consolePeek) PROVE FdInv'
  OBVIOUS
<1>1. MSToTime(msecs) \in Int /\ (msecs >= 0 => MSToTime(msecs) >= 0) /\ MSToTime(1) \in Int
  BY WaitIsATime
<1>a1. FdTypeOK'
  BY SMTT(30), <1>1, UnitsAssumption DEF consoleFailed, consolePeek, FdAnswer, FdAgain, ProperKey, fdVars,
                               fdArgs, fdOutside, fdLocal, FdInv, FdType, FdTypeOK, NoResult,
                               infinite, TimeKept
<1>a2. (endTime \in Int /\ remaining \in Int /\ wake \in Int /\ fdInput \in Seq({"key", "other"}))'
  BY DEF consoleFailed, consolePeek, FdAnswer, fdOutside, fdLocal, FdInv, FdType
<1>a3. (endTimeReached \in BOOLEAN /\ broken \in BOOLEAN)'
  BY DEF consoleFailed, consolePeek, FdAnswer, fdLocal, FdInv, FdType
<1>a. FdType'
  BY <1>a1, <1>a2, <1>a3 DEF FdType
<1>b. KindOfLoop'
  BY DEF consoleFailed, consolePeek, FdAnswer, FdAgain, fdArgs, FdInv, KindOfLoop
<1>c. KeysKept'
  BY <1>1 DEF consoleFailed, consolePeek, FdAnswer, FdAgain, ProperKey, fdVars, fdArgs, fdOutside,
              fdLocal, FdInv, FdType, FdTypeOK, KindOfLoop, KeysKept, Input
<1>d. TimeKept'
  BY SMTT(30), <1>1, UnitsAssumption DEF consoleFailed, consolePeek, FdAnswer, FdAgain, ProperKey, fdVars,
                               fdArgs, fdOutside, fdLocal, FdInv, FdType, FdTypeOK, KindOfLoop,
                               TimeKept, LastCall, Slack, infinite
<1>e. FullWait' /\ NothingMissed' /\ ReadyMeansReady'
  BY UnitsAssumption DEF consoleFailed, consolePeek, FdAnswer, FdAgain, ProperKey, fdOutside,
         FdInv, FdTypeOK, FdSound, FullWait, NothingMissed, ReadyMeansReady, NoResult, InPieces,
         fdArgs, fdLocal
<1> QED BY <1>a, <1>b, <1>c, <1>d, <1>e DEF FdInv, FdSound, FdType

LEMMA FdPipes == FdInv /\ (disk \/ pipePeek) => FdInv'
<1> SUFFICES ASSUME FdInv, (disk \/ pipePeek) PROVE FdInv'
  OBVIOUS
<1>1. MSToTime(msecs) \in Int /\ (msecs >= 0 => MSToTime(msecs) >= 0) /\ MSToTime(1) \in Int
  BY WaitIsATime
<1>a1. FdTypeOK'
  BY SMTT(30), <1>1, UnitsAssumption DEF disk, pipePeek, FdAnswer, FdAgain, fdVars, fdArgs, fdOutside,
                               fdLocal, FdInv, FdType, FdTypeOK, NoResult, infinite, TimeKept
<1>a2. (endTime \in Int /\ remaining \in Int /\ wake \in Int /\ fdInput \in Seq({"key", "other"}))'
  BY <1>1, UnitsAssumption DEF disk, pipePeek, FdAnswer, FdAgain, fdOutside, fdLocal, FdInv, FdType,
                               FdTypeOK
<1>a3. (endTimeReached \in BOOLEAN /\ broken \in BOOLEAN)'
  BY DEF disk, pipePeek, FdAnswer, fdLocal, FdInv, FdType
<1>a. FdType'
  BY <1>a1, <1>a2, <1>a3 DEF FdType
<1>b. KindOfLoop'
  BY DEF disk, pipePeek, FdAnswer, FdAgain, fdArgs, FdInv, KindOfLoop
<1>c. KeysKept'
  BY DEF disk, pipePeek, FdAnswer, FdAgain, fdOutside, FdInv, KindOfLoop, KeysKept
<1>d. TimeKept'
  BY DEF disk, pipePeek, FdAnswer, FdAgain, fdArgs, fdOutside, fdLocal, FdInv, TimeKept
<1>e. FullWait' /\ NothingMissed' /\ ReadyMeansReady'
  BY DEF disk, pipePeek, FdAnswer, FdAgain, fdArgs, fdOutside, fdLocal, FdInv, FdTypeOK, FdSound,
         FullWait, NothingMissed, ReadyMeansReady, KindOfLoop, KeysKept, TimeKept, Slack,
         infinite, NoResult, Input, InPieces
<1> QED BY <1>a, <1>b, <1>c, <1>d, <1>e DEF FdInv, FdSound, FdType

LEMMA FdPipeFails == FdInv /\ (pipeFailed) => FdInv'
<1> SUFFICES ASSUME FdInv, (pipeFailed) PROVE FdInv'
  OBVIOUS
<1>1. MSToTime(msecs) \in Int /\ (msecs >= 0 => MSToTime(msecs) >= 0) /\ MSToTime(1) \in Int
  BY WaitIsATime
<1>a1. FdTypeOK'
  BY SMTT(30), UnitsAssumption DEF pipeFailed, FdAnswer, FdAgain, fdVars, fdArgs, fdOutside, fdLocal, FdInv,
                         FdType, FdTypeOK, NoResult, infinite
<1>a2. (endTime \in Int /\ remaining \in Int /\ wake \in Int /\ fdInput \in Seq({"key", "other"}))'
  BY DEF pipeFailed, FdAnswer, fdOutside, fdLocal, FdInv, FdType
<1>a3. (endTimeReached \in BOOLEAN /\ broken \in BOOLEAN)'
  BY DEF pipeFailed, FdAnswer, fdLocal, FdInv, FdType
<1>a. FdType'
  BY <1>a1, <1>a2, <1>a3 DEF FdType
<1>b. KindOfLoop'
  BY DEF pipeFailed, FdAnswer, FdAgain, fdArgs, FdInv, KindOfLoop
<1>c. KeysKept'
  BY DEF pipeFailed, FdAnswer, FdAgain, fdOutside, FdInv, KindOfLoop, KeysKept
<1>d. TimeKept'
  BY SMTT(30), <1>1, UnitsAssumption DEF pipeFailed, FdAnswer, FdAgain, fdVars, fdArgs, fdOutside, fdLocal,
                               FdInv, FdType, FdTypeOK, KindOfLoop, TimeKept, LastCall, Slack,
                               infinite
<1>e. FullWait' /\ NothingMissed' /\ ReadyMeansReady'
  BY DEF pipeFailed, FdAnswer, FdAgain, FdInv, FdTypeOK, FdSound, FullWait, NothingMissed,
         ReadyMeansReady, NoResult, InPieces, fdArgs, fdLocal
<1> QED BY <1>a, <1>b, <1>c, <1>d, <1>e DEF FdInv, FdSound, FdType

LEMMA FdNaps == FdInv /\ (pipeClock \/ pipeNap) => FdInv'
<1> SUFFICES ASSUME FdInv, (pipeClock \/ pipeNap) PROVE FdInv'
  OBVIOUS
<1>1. MSToTime(msecs) \in Int /\ (msecs >= 0 => MSToTime(msecs) >= 0) /\ MSToTime(1) \in Int
  BY WaitIsATime
<1>a1. FdTypeOK'
  BY DEF pipeClock, pipeNap, fdArgs, fdOutside, fdLocal, FdInv, FdType, FdTypeOK, infinite
<1>a2. (endTime \in Int /\ remaining \in Int /\ wake \in Int /\ fdInput \in Seq({"key", "other"}))'
  BY <1>1, UnitsAssumption DEF pipeClock, pipeNap, fdOutside, fdLocal, FdInv, FdType, FdTypeOK
<1>2. (now >= endTime) \in BOOLEAN
  OBVIOUS
<1>a3. (endTimeReached \in BOOLEAN /\ broken \in BOOLEAN)'
  BY <1>2 DEF pipeClock, pipeNap, fdLocal, FdInv, FdType
<1>a. FdType'
  BY <1>a1, <1>a2, <1>a3 DEF FdType
<1>b. KindOfLoop'
  BY DEF pipeClock, pipeNap, fdArgs, FdInv, KindOfLoop
<1>c. KeysKept'
  BY DEF pipeClock, pipeNap, fdOutside, FdInv, KindOfLoop, KeysKept
<1>d. TimeKept'
  BY SMTT(30), <1>1, UnitsAssumption DEF pipeClock, pipeNap, FdAnswer, FdAgain, fdVars, fdArgs, fdOutside,
                               fdLocal, FdInv, FdType, FdTypeOK, KindOfLoop, TimeKept, LastCall,
                               Slack, infinite
<1>e. FullWait' /\ NothingMissed' /\ ReadyMeansReady'
  BY DEF pipeClock, pipeNap, fdArgs, fdOutside, fdLocal, FdInv, FdSound, FullWait, NothingMissed,
         ReadyMeansReady, Slack, infinite, InPieces
<1> QED BY <1>a, <1>b, <1>c, <1>d, <1>e DEF FdInv, FdSound, FdType

LEMMA FdDiscards == FdInv /\ consoleDiscard => FdInv'
<1> SUFFICES ASSUME FdInv, consoleDiscard PROVE FdInv'
  OBVIOUS
<1>1. MSToTime(msecs) \in Int /\ (msecs >= 0 => MSToTime(msecs) >= 0) /\ MSToTime(1) \in Int
  BY WaitIsATime
<1>2. /\ fdInput # <<>> /\ fdInput[1] # "key" /\ fdKind = "console"
      /\ fdInput \in Seq({"key", "other"})
  BY DEF consoleDiscard, FdInv, FdType, KeysKept
<1>3. /\ fdInput' \in Seq({"key", "other"}) /\ Len(fdInput') = Len(fdInput) - 1
      /\ Len(fdInput) \in Nat
      /\ \A k \in 1 .. Len(fdInput) - 1 : fdInput'[k] = fdInput[k + 1]
  BY <1>2, HeadTailProperties, LenProperties DEF consoleDiscard
<1>4. Input(fdInput) => Input(fdInput')
  <2> SUFFICES ASSUME NEW k \in 1 .. Len(fdInput), fdInput[k] = "key"
               PROVE  \E j \in 1 .. Len(fdInput') : fdInput'[j] = "key"
    BY DEF Input
  <2>1. k - 1 \in 1 .. Len(fdInput') /\ fdInput'[k - 1] = fdInput[k]
    BY <1>2, <1>3
  <2> QED BY <2>1
<1>a1. FdTypeOK'
  BY UnitsAssumption DEF consoleDiscard, FdAgain, fdArgs, fdLocal, FdInv, FdType, FdTypeOK, infinite
<1>a2. /\ (endTime \in Int /\ remaining \in Int /\ wake \in Int)'
       /\ (endTimeReached \in BOOLEAN /\ broken \in BOOLEAN)'
  BY DEF consoleDiscard, fdLocal, FdInv, FdType
<1>a. FdType'
  BY <1>a1, <1>a2, <1>3 DEF FdType
<1>b. KindOfLoop'
  BY <1>2 DEF consoleDiscard, FdAgain, fdArgs, KindOfLoop
<1>c. KeysKept'
  BY <1>4 DEF consoleDiscard, FdAgain, fdArgs, FdInv, KeysKept
<1>d. TimeKept'
  BY DEF consoleDiscard, FdAgain, fdArgs, fdLocal, FdInv, TimeKept
<1>e. FullWait' /\ NothingMissed' /\ ReadyMeansReady'
  BY <1>a DEF consoleDiscard, FdAgain, FdInv, FdSound, FdType, FdTypeOK, FullWait, NothingMissed,
              InPieces, ReadyMeansReady, NoResult, fdArgs, fdLocal
<1> QED BY <1>a, <1>b, <1>c, <1>d, <1>e DEF FdInv, FdSound, FdType

LEMMA FdNextKeeps == FdInv /\ [FdNext]_fdVars => FdInv'
<1> SUFFICES ASSUME FdInv, [FdNext]_fdVars PROVE FdInv'
  OBVIOUS
<1>1. CASE Tick
  BY <1>1, FdTick
<1>2. ASSUME NEW e \in {"key", "other"}, Arrive(e) PROVE FdInv'
  BY <1>2, FdArrive
<1>3. CASE enter \/ systemCall \/ clock
  BY <1>3, FdEnter, FdCalls, FdClock
<1>4. CASE pollFailed \/ pollInterrupted \/ pollReady \/ pollTimedOut
  BY <1>4, FdPolls
<1>5. CASE waitFailed \/ waitTimedOut \/ defaultSignalled \/ consoleSignalled
  BY <1>5, FdWaits
<1>6. CASE consoleFailed \/ consolePeek \/ consoleDiscard
  BY <1>6, FdConsoles, FdDiscards
<1>7. CASE disk \/ pipePeek \/ pipeFailed \/ pipeClock \/ pipeNap
  BY <1>7, FdPipes, FdPipeFails, FdNaps
<1>8. CASE UNCHANGED fdVars
  BY <1>8 DEF fdVars, fdArgs, fdOutside, fdLocal, FdInv, FdType, FdTypeOK, KindOfLoop, KeysKept,
              TimeKept, LastCall, FdSound, FullWait, NothingMissed, InPieces, ReadyMeansReady, Slack,
              infinite
<1> QED BY <1>1, <1>2, <1>3, <1>4, <1>5, <1>6, <1>7, <1>8 DEF FdNext, fdReady, Returns

\* However long the wait, however much of it the system calls can express, and
\* however they are interrupted and the input arrives: "not ready" is answered only
\* when the whole time is over, with no key missed but by a select that waits in
\* pieces, which is one past INT_MAX, and "ready" only when a read returns at once
\* (inputReady.c).
THEOREM WaitsAreAnswered == FdSpec => []FdSound
<1>1. FdInv => FdSound
  BY DEF FdInv
<1> QED BY FdStart, FdNextKeeps, <1>1, PTL DEF FdSpec
=============================================================================
