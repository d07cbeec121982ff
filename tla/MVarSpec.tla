------------------------------ MODULE MVarSpec ------------------------------
(***************************************************************************)
(* What MVars promise to the threads that use them: atomic takes, puts and *)
(* reads; a take or put that has to wait is served in the order of arrival; *)
(* a put serves every waiting reader before the first waiting taker; the   *)
(* value a waiting operation obtains is kept until its thread picks it up. *)
(* Nothing here of stacks, queue cells, block reasons or ticks.            *)
(***************************************************************************)
EXTENDS Sequences, Functions

CONSTANTS Threads, MVars, Values, Empty

VARIABLES
  cell,     \* the value in each MVar, or Empty
  line,     \* the takers, or the putters, that wait for each MVar
  readers,  \* the readers that wait for each MVar
  offer,    \* the value a waiting putter wants to put, or Empty
  got       \* the value a served thread has not picked up yet, or Empty

mvars == <<cell, line, readers, offer, got>>

Init ==
  /\ cell = [m \in MVars |-> Empty]
  /\ line = [m \in MVars |-> <<>>]
  /\ readers = [m \in MVars |-> {}]
  /\ offer = [t \in Threads |-> Empty]
  /\ got = [t \in Threads |-> Empty]

\* A thread that waits, or has not picked up what it was given, does nothing.
Idle(t) ==
  /\ got[t] = Empty
  /\ \A m \in MVars : t \notin Range(line[m]) \cup readers[m]

\* A take from a full MVar: the first putter in line puts its value.
Take(m) ==
  /\ cell[m] # Empty
  /\ IF line[m] = <<>>
     THEN cell' = [cell EXCEPT ![m] = Empty] /\ UNCHANGED <<line, offer>>
     ELSE LET p == Head(line[m]) IN
          /\ cell' = [cell EXCEPT ![m] = offer[p]]
          /\ offer' = [offer EXCEPT ![p] = Empty]
          /\ line' = [line EXCEPT ![m] = Tail(@)]
  /\ UNCHANGED <<readers, got>>

\* A put into an empty MVar: every reader has the value, and so has the first
\* taker in line, who leaves the MVar empty.
Put(m, v) ==
  LET served == IF line[m] = <<>> THEN readers[m]
                ELSE readers[m] \cup {Head(line[m])}
  IN
  /\ cell[m] = Empty
  /\ IF line[m] = <<>>
     THEN cell' = [cell EXCEPT ![m] = v] /\ UNCHANGED line
     ELSE line' = [line EXCEPT ![m] = Tail(@)] /\ UNCHANGED cell
  /\ readers' = [readers EXCEPT ![m] = {}]
  /\ got' = [t \in Threads |-> IF t \in served THEN v ELSE got[t]]
  /\ UNCHANGED offer

TakeWaits(t, m) ==
  /\ Idle(t)
  /\ cell[m] = Empty
  /\ line' = [line EXCEPT ![m] = Append(@, t)]
  /\ UNCHANGED <<cell, readers, offer, got>>

ReadWaits(t, m) ==
  /\ Idle(t)
  /\ cell[m] = Empty
  /\ readers' = [readers EXCEPT ![m] = @ \cup {t}]
  /\ UNCHANGED <<cell, line, offer, got>>

PutWaits(t, m, v) ==
  /\ Idle(t)
  /\ cell[m] # Empty
  /\ line' = [line EXCEPT ![m] = Append(@, t)]
  /\ offer' = [offer EXCEPT ![t] = v]
  /\ UNCHANGED <<cell, readers, got>>

PickUp(t) ==
  /\ got[t] # Empty
  /\ got' = [got EXCEPT ![t] = Empty]
  /\ UNCHANGED <<cell, line, readers, offer>>

Next ==
  \/ \E m \in MVars : Take(m)
  \/ \E m \in MVars, v \in Values : Put(m, v)
  \/ \E t \in Threads, m \in MVars : TakeWaits(t, m) \/ ReadWaits(t, m)
  \/ \E t \in Threads, m \in MVars, v \in Values : PutWaits(t, m, v)
  \/ \E t \in Threads : PickUp(t)

Spec == Init /\ [][Next]_mvars
=============================================================================
