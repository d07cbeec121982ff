----------------------------- MODULE BlockListSpec -----------------------------
(***************************************************************************)
(* Lists of block descriptors as sequences: what the operations on doubly  *)
(* linked block lists promise.                                             *)
(***************************************************************************)
EXTENDS SequencesExt

CONSTANTS Descriptors, Lists
VARIABLE chain   \* the descriptors on each list

Loose(bd) == \A l \in Lists : ~Contains(chain[l], bd)

Init == chain = [l \in Lists |-> <<>>]

Onto(bd, l) ==
  Loose(bd) /\ chain' = [chain EXCEPT ![l] = Cons(bd, @)]

Unlink(l, i) ==
  chain' = [chain EXCEPT ![l] = RemoveAt(@, i)]

InsertAfter(bd, l, i) ==
  Loose(bd) /\ chain' = [chain EXCEPT ![l] = InsertAt(@, i + 1, bd)]

Replace(bd, l, i) ==
  Loose(bd) /\ chain' = [chain EXCEPT ![l] = ReplaceAt(@, i, bd)]

\* Each of them changes a list.
Next ==
  /\ chain' # chain
  /\ \E l \in Lists :
       \/ \E bd \in Descriptors : Onto(bd, l)
       \/ \E i \in DOMAIN chain[l] :
            Unlink(l, i) \/ \E bd \in Descriptors : InsertAfter(bd, l, i) \/ Replace(bd, l, i)

Spec == Init /\ [][Next]_chain
=============================================================================
