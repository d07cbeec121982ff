----------------------------- MODULE MCCollector -----------------------------
(* Heaps for model-checking Collector.                                      *)
EXTENDS Collector, Functions, TLC

LOCAL INSTANCE FiniteSetsExt

CONSTANTS
  Small,                     \* the closures of from-space that a small heap has
  Arities, StaticArities     \* the numbers of pointers closures have

Con(ptrs) == [type |-> "CON", ptrs |-> ptrs, offset |-> 0]
Root(ptrs) == 0 :> [type |-> "ARR", ptrs |-> ptrs, offset |-> 0]

Of(types, A, arities, offsets) ==
  UNION {[type : types, ptrs : [1..n -> A], offset : offsets] : n \in arities}
Moved == LET A == Small \cup NonMoved
         IN  Of({"CON"}, A, Arities, {0}) \cup Of({"IND"}, A, {1}, {0}) \cup Of({"SEL"}, A, {1}, {0, 1})
Kept == Of({"ARR"}, Small \cup NonMoved, StaticArities, {0}) \cup Of({"CON"}, NonMoved, StaticArities, {0})

\* Does evaluation come back to where it began?
Circular(h, a) ==
  LET comes[b \in Start, seen \in SUBSET Start] ==
        b \in seen
        \/ /\ h[b].type \in {"IND", "SEL"}
           /\ \/ comes[h[b].ptrs[1], seen \cup {b}]
              \/ /\ h[b].type = "SEL" /\ h[h[b].ptrs[1]].type = "CON"
                 /\ h[b].offset < Len(h[h[b].ptrs[1]].ptrs)
                 /\ comes[h[h[b].ptrs[1]].ptrs[h[b].offset + 1], seen \cup {b}]
  IN  comes[a, {}]

\* Of four closures, those reached from the first.
Reached(h) ==
  LET Onward(S) == S \cup UNION {Range(h[a].ptrs) : a \in S}
  IN  Onward(Onward(Onward({1})))

\* Heaps differ by more than numbering: a closure is not met before the one that has
\* the number before, in the pointers of closure 1, then of the static ones and the others.
Place(a) == IF a = 1 THEN 0 ELSE IF a \in NonMoved THEN 1 ELSE a
InOrder(d, k) ==
  \A a \in Small, n \in Small \cup NonMoved :
    LET ptrs(b) == IF b \in Small THEN d[b].ptrs ELSE k[b].ptrs
    IN  \A j \in DOMAIN ptrs(n) :
          ptrs(n)[j] = a /\ a > 2 =>
            \/ \E l \in 1 .. j - 1 : ptrs(n)[l] = a - 1
            \/ \E m \in Small \cup NonMoved : Place(m) < Place(n) /\ a - 1 \in Range(ptrs(m))

SmallHeap(d, k) ==
  [a \in Start |->
     CASE a = 0 -> [type |-> "ARR", ptrs |-> <<1>>, offset |-> 0]
       [] a \in Small -> d[a] [] a \in NonMoved -> k[a] [] OTHER -> Con(<<>>)]

\* Evaluation is not circular.
IsSmallHeap(d, k) ==
  LET h == SmallHeap(d, k)
  IN  InOrder(d, k) /\ Small \cup NonMoved \subseteq Reached(h) /\ \A a \in Small : ~Circular(h, a)

\* All trees: a closure has a parent with a smaller address; 1 is the root's.
Children(parent, a) == SelectSeq([k \in 1..Limit |-> k], LAMBDA k : k \in DOMAIN parent /\ parent[k] = a)
TreeHeaps ==
  {Root(<<1>>) @@ [a \in Dynamic |-> Con(Children(parent, a))] @@ [a \in NonMoved |-> Con(<<>>)] :
     parent \in {p \in [Dynamic \ {1} -> Dynamic] : \A a \in DOMAIN p : p[a] < a}}

\* Trees, and every heap of the small closures in which the first is a selector; the
\* other closures have been dropped.
Selections == {d \in [Small -> Moved] : d[1].type = "SEL" /\ d[1].ptrs[1] \in {2} \cup NonMoved}
MCHeaps ==
  TreeHeaps
    \cup {SmallHeap(dk[1], dk[2]) :
             dk \in {dk \in Selections \X [NonMoved -> Kept] : IsSmallHeap(dk[1], dk[2])}}

\* let p = (fst p, snd p) in fst p, which the program holds and has not evaluated.
TiedHeap ==
  {Root(<<1>>)
     @@ (1 :> [type |-> "SEL", ptrs |-> <<2>>, offset |-> 0])
     @@ (2 :> Con(<<1, 3>>))
     @@ (3 :> [type |-> "SEL", ptrs |-> <<2>>, offset |-> 1])}
----------------------------------------------------------------------------
\* What stingyEval may go on to.
GoesOn(h, b) ==
  (IF h[b].type \in {"IND", "SEL"} THEN {h[b].ptrs[1]} ELSE {})
    \cup {h[p].ptrs[h[b].offset + 1] : p \in {p \in Start : h[b].type = "SEL" /\ Constructed(h, p, b)}}

\* How many steps of evaluation there are from a closure, up to MaxCalls.
Height(h) ==
  LET height[b \in Start, left \in 0 .. MaxCalls] ==
        IF left = 0 THEN 0 ELSE Max({0} \cup {1 + height[a, left - 1] : a \in GoesOn(h, b)})
  IN  [b \in Start |-> height[b, MaxCalls]]

\* A selector thunk that is what it selects.
SelectsItself(h, a) == h[a].type = "SEL" /\ Meaning(h, a) = a /\ \E p \in Start : Constructed(h, p, a)

\* Evaluation ends in a heap, within MaxCalls, unless a selector selects itself.
EndsOrCircular(h) ==
  (\E rank \in {Height(h)} : RankFits(rank, h)) # (\E a \in Start : SelectsItself(h, a))
=============================================================================
