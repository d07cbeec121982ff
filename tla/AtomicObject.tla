----------------------------- MODULE AtomicObject -----------------------------
(***************************************************************************)
(* What the atomic operations on byte arrays promise: each call reads and  *)
(* replaces its word in one step, somewhere between the call and its       *)
(* return, and hands back the word it found.                               *)
(***************************************************************************)
CONSTANTS Threads, Calls,
          NewMem(_, _),    \* the memory after a call
          Answer(_, _),    \* what a call returns
          Memories

VARIABLES mem, stage, call, res

Init ==
  /\ mem \in Memories
  /\ stage = [t \in Threads |-> "idle"]
  /\ call = [t \in Threads |-> CHOOSE c \in Calls : TRUE]
  /\ res = [t \in Threads |-> 0]

Call(t, c) ==
  /\ stage[t] = "idle"
  /\ stage' = [stage EXCEPT ![t] = "called"]
  /\ call' = [call EXCEPT ![t] = c]
  /\ UNCHANGED <<mem, res>>

Perform(t) ==
  /\ stage[t] = "called"
  /\ stage' = [stage EXCEPT ![t] = "done"]
  /\ mem' = NewMem(call[t], mem)
  /\ res' = [res EXCEPT ![t] = Answer(call[t], mem)]
  /\ UNCHANGED call

Return(t) ==
  /\ stage[t] = "done"
  /\ stage' = [stage EXCEPT ![t] = "idle"]
  /\ UNCHANGED <<mem, call, res>>

Next == \E t \in Threads : Perform(t) \/ Return(t) \/ \E c \in Calls : Call(t, c)

Spec == Init /\ [][Next]_<<mem, stage, call, res>>
=============================================================================
