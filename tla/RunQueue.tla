------------------------------- MODULE RunQueue -------------------------------
(***************************************************************************)
(* The thread queues of Schedule.h: the run queue of a capability, a       *)
(* doubly linked list through the _link and block_info.prev fields of the  *)
(* threads with a counter, and the queue of blocked threads, which is      *)
(* linked one way.                                                         *)
(*                                                                         *)
(* Two ghost variables say what the lists should hold: queue, the threads  *)
(* in the order in which they are to run, and blocked.  A thread that the  *)
(* program hands to one of the functions is in no queue.                   *)
(***************************************************************************)
EXTENDS Integers, Sequences

CONSTANTS TSO, END_TSO_QUEUE

ASSUME EndAssumption == END_TSO_QUEUE \notin TSO

VARIABLES run_queue_hd, run_queue_tl, n_run_queue,
          blocked_queue_hd, blocked_queue_tl,
          _link, prev,      \* fields of the threads
          queue, blocked,   \* ghost: what the queues hold
          dropped           \* ghost: the threads a truncation has dropped

runQueue     == <<run_queue_hd, run_queue_tl, n_run_queue, queue>>
blockedQueue == <<blocked_queue_hd, blocked_queue_tl, blocked>>
queuesVars   == <<runQueue, blockedQueue, _link, prev, dropped>>

Members(q) == {q[i] : i \in 1 .. Len(q)}

Free(t) == t \notin Members(queue) \cup Members(blocked) \cup dropped

QueuesInit ==
  /\ run_queue_hd = END_TSO_QUEUE /\ run_queue_tl = END_TSO_QUEUE /\ n_run_queue = 0
  /\ blocked_queue_hd = END_TSO_QUEUE /\ blocked_queue_tl = END_TSO_QUEUE
  /\ _link = [t \in TSO |-> END_TSO_QUEUE]
  /\ prev = [t \in TSO |-> END_TSO_QUEUE]
  /\ queue = <<>> /\ blocked = <<>> /\ dropped = {}

----------------------------------------------------------------------------

appendToRunQueue(t) ==
  /\ Free(t)
  /\ \/ /\ run_queue_hd = END_TSO_QUEUE
        /\ run_queue_hd' = t
        /\ prev' = [prev EXCEPT ![t] = END_TSO_QUEUE]
        /\ UNCHANGED _link
     \/ /\ run_queue_hd # END_TSO_QUEUE
        /\ _link' = [_link EXCEPT ![run_queue_tl] = t]
        /\ prev' = [prev EXCEPT ![t] = run_queue_tl]
        /\ UNCHANGED run_queue_hd
  /\ run_queue_tl' = t
  /\ n_run_queue' = n_run_queue + 1
  /\ queue' = Append(queue, t)
  /\ UNCHANGED <<blockedQueue, dropped>>

pushOnRunQueue(t) ==
  /\ Free(t)
  /\ _link' = [_link EXCEPT ![t] = run_queue_hd]
  /\ prev' = [u \in TSO |-> IF u = t THEN END_TSO_QUEUE ELSE IF u = run_queue_hd THEN t ELSE prev[u]]
  /\ run_queue_hd' = t
  /\ run_queue_tl' = IF run_queue_tl = END_TSO_QUEUE THEN t ELSE run_queue_tl
  /\ n_run_queue' = n_run_queue + 1
  /\ queue' = <<t>> \o queue
  /\ UNCHANGED <<blockedQueue, dropped>>

\* A bug: the last pop keeps the tail.
PopKeepsTail ==
  /\ n_run_queue # 0
  /\ LET t == run_queue_hd IN
       /\ run_queue_hd' = _link[t]
       /\ prev' = [u \in TSO |-> IF u = _link[t] THEN END_TSO_QUEUE ELSE prev[u]]
       /\ _link' = [_link EXCEPT ![t] = END_TSO_QUEUE]
  /\ n_run_queue' = n_run_queue - 1
  /\ queue' = Tail(queue)
  /\ UNCHANGED <<run_queue_tl, blockedQueue, dropped>>

popRunQueue ==
  /\ n_run_queue # 0
  /\ LET t == run_queue_hd IN
       /\ run_queue_hd' = _link[t]
       /\ prev' = [u \in TSO |-> IF u = _link[t] THEN END_TSO_QUEUE ELSE prev[u]]
       /\ _link' = [_link EXCEPT ![t] = END_TSO_QUEUE]
       /\ run_queue_tl' = IF _link[t] = END_TSO_QUEUE THEN END_TSO_QUEUE ELSE run_queue_tl
  /\ n_run_queue' = n_run_queue - 1
  /\ queue' = Tail(queue)
  /\ UNCHANGED <<blockedQueue, dropped>>

(* The threads keep their links and are not used again. *)
truncateRunQueue ==
  /\ n_run_queue # 0
  /\ run_queue_hd' = END_TSO_QUEUE
  /\ run_queue_tl' = END_TSO_QUEUE
  /\ n_run_queue' = 0
  /\ queue' = <<>>
  /\ dropped' = dropped \cup Members(queue)
  /\ UNCHANGED <<blockedQueue, _link, prev>>

appendToBlockedQueue(t) ==
  /\ Free(t)
  /\ \/ /\ blocked_queue_hd = END_TSO_QUEUE
        /\ blocked_queue_hd' = t
        /\ UNCHANGED _link
     \/ /\ blocked_queue_hd # END_TSO_QUEUE
        /\ _link' = [_link EXCEPT ![blocked_queue_tl] = t]
        /\ UNCHANGED blocked_queue_hd
  /\ blocked_queue_tl' = t
  /\ blocked' = Append(blocked, t)
  /\ UNCHANGED <<runQueue, prev, dropped>>

QueuesNext ==
  \/ \E t \in TSO : appendToRunQueue(t) \/ pushOnRunQueue(t) \/ appendToBlockedQueue(t)
  \/ popRunQueue
  \/ truncateRunQueue

QueuesSpec == QueuesInit /\ [][QueuesNext]_queuesVars

----------------------------------------------------------------------------
(* A one-way list from hd to tl. *)
Chain(q, hd, tl) ==
  /\ Len(q) = 0 => hd = END_TSO_QUEUE /\ tl = END_TSO_QUEUE
  /\ Len(q) > 0 => hd = q[1] /\ tl = q[Len(q)] /\ _link[q[Len(q)]] = END_TSO_QUEUE
  /\ \A i \in 1 .. Len(q) - 1 : _link[q[i]] = q[i + 1]

(* Following _link from the head of the run queue gives the threads in the *)
(* order they are to run, up to the tail, following prev gives them        *)
(* backwards, and the counter that emptyRunQueue asks is their number      *)
(* (Schedule.h:132-187, 220-232).                                          *)
RunQueueLinked ==
  /\ Chain(queue, run_queue_hd, run_queue_tl)
  /\ n_run_queue = Len(queue)
  /\ Len(queue) > 0 => prev[queue[1]] = END_TSO_QUEUE
  /\ \A i \in 2 .. Len(queue) : prev[queue[i]] = queue[i - 1]

(* The queue of blocked threads is a list of its own, though both lists    *)
(* use the same field (Schedule.h:199-209).                                *)
BlockedQueueLinked == Chain(blocked, blocked_queue_hd, blocked_queue_tl)

(* A thread that may be appended has no link: the assertion at the head of *)
(* both append functions holds (Schedule.h:135, 202).                      *)
FreeThreadsUnlinked == \A t \in TSO : Free(t) => _link[t] = END_TSO_QUEUE

(* No thread is in a queue twice or in both (Schedule.h:132-209). *)
EachThreadOnce ==
  /\ \A i, j \in 1 .. Len(queue) : queue[i] = queue[j] => i = j
  /\ \A i, j \in 1 .. Len(blocked) : blocked[i] = blocked[j] => i = j
  /\ Members(queue) \cap Members(blocked) = {}
=============================================================================
