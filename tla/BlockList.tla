------------------------------- MODULE BlockList -------------------------------
(***************************************************************************)
(* The doubly linked lists of block descriptors of Block.h, through the    *)
(* fields link and u.back of the descriptors.  A descriptor that is put on *)
(* a list is on none; it may still have the links of the list it was on    *)
(* before, as dbl_link_remove leaves them alone.                           *)
(***************************************************************************)
EXTENDS Integers, FiniteSets, Sequences

CONSTANTS Descriptors, Lists, NULL

ASSUME ListsAssumption == NULL \notin Descriptors /\ IsFiniteSet(Descriptors)

VARIABLES list,    \* the head of each list
          link, back

listVars == <<list, link, back>>

(* The descriptors from bd on, up to the one with nothing behind.  More    *)
(* than there are descriptors are a cycle, which is not followed further.  *)
From(bd, next) ==
  LET behind == [b \in Descriptors \cup {NULL} |-> IF b = NULL THEN NULL ELSE next[b]]
      at[n \in Nat] == IF n = 0 THEN bd ELSE behind[at[n - 1]]
      cycle == Cardinality(Descriptors) + 1
      size == CHOOSE n \in 0 .. cycle : (n = cycle \/ at[n] = NULL) /\ (n = 0 \/ at[n - 1] # NULL)
  IN  [i \in 1 .. size |-> at[i - 1]]

chain == [l \in Lists |-> From(list[l], link)]

OnList(bd, l) == \E i \in DOMAIN chain[l] : chain[l][i] = bd

Loose(bd) == \A l \in Lists : ~OnList(bd, l)

ListsInit ==
  /\ list = [l \in Lists |-> NULL]
  /\ link = [bd \in Descriptors |-> NULL]
  /\ back = [bd \in Descriptors |-> NULL]

\* back with bd in the field of the descriptor behind it, if there is one.
BackFrom(next, bd, b) == IF next = NULL THEN b ELSE [b EXCEPT ![next] = bd]

----------------------------------------------------------------------------
\* A bug: the new head keeps an old back link.
OntoKeepsBack(bd, l) ==
  /\ link' = [link EXCEPT ![bd] = list[l]]
  /\ back' = BackFrom(list[l], bd, back)
  /\ list' = [list EXCEPT ![l] = bd]

dbl_link_onto(bd, l) ==
  /\ link' = [link EXCEPT ![bd] = list[l]]
  /\ back' = BackFrom(list[l], bd, [back EXCEPT ![bd] = NULL])
  /\ list' = [list EXCEPT ![l] = bd]

\* A bug: the descriptor behind keeps its back link.
RemoveForwardOnly(bd, l) ==
  /\ IF back[bd] # NULL
       THEN link' = [link EXCEPT ![back[bd]] = link[bd]] /\ UNCHANGED list
       ELSE list' = [list EXCEPT ![l] = link[bd]] /\ UNCHANGED link
  /\ UNCHANGED back

dbl_link_remove(bd, l) ==
  /\ \/ /\ back[bd] # NULL
        /\ link' = [link EXCEPT ![back[bd]] = link[bd]]
        /\ UNCHANGED list
     \/ /\ back[bd] = NULL
        /\ list' = [list EXCEPT ![l] = link[bd]]
        /\ UNCHANGED link
  /\ back' = BackFrom(link[bd], back[bd], back)

dbl_link_insert_after(bd, after) ==
  /\ link' = [link EXCEPT ![bd] = link[after], ![after] = bd]
  /\ back' = BackFrom(link[after], bd, [back EXCEPT ![bd] = after])
  /\ UNCHANGED list

dbl_link_replace(new_, old, l) ==
  /\ \/ /\ back[old] # NULL
        /\ link' = [link EXCEPT ![new_] = link[old], ![back[old]] = new_]
        /\ UNCHANGED list
     \/ /\ back[old] = NULL
        /\ link' = [link EXCEPT ![new_] = link[old]]
        /\ list' = [list EXCEPT ![l] = new_]
  /\ back' = BackFrom(link[old], new_, [back EXCEPT ![new_] = back[old]])

(* Only a descriptor that is on no list is put on one, and only one that   *)
(* is on a list is removed, replaced or given a descriptor behind it.      *)
ListsNext ==
  \E bd \in Descriptors, l \in Lists :
     \/ OnList(bd, l) /\ dbl_link_remove(bd, l)
     \/ Loose(bd) /\ dbl_link_onto(bd, l)
     \/ Loose(bd) /\ \E other \in Descriptors :
          /\ OnList(other, l)
          /\ dbl_link_insert_after(bd, other) \/ dbl_link_replace(bd, other, l)

ListsSpec == ListsInit /\ [][ListsNext]_listVars

----------------------------------------------------------------------------
(* The lists that following link gives are what sequences of descriptors   *)
(* would be after the same operations (Block.h:242-290).                   *)
Abstract == INSTANCE BlockListSpec
ImplementsSequences == Abstract!Spec

(* On every list back leads back: removing and replacing, which take the   *)
(* descriptor before from it, would otherwise tear another list            *)
(* (Block.h:242-290).                                                      *)
BackLinks ==
  \A l \in Lists : \A i \in DOMAIN chain[l] :
     back[chain[l][i]] = IF i = 1 THEN NULL ELSE chain[l][i - 1]
=============================================================================
