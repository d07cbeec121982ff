---------------------------- MODULE StableNames ----------------------------
(***************************************************************************)
(* The table of stable names of rts.stablename.mjs and what a collection   *)
(* of rts.gc.mjs does to it.  A collection moves every object, which keeps *)
(* objects apart, but it also replaces a selector thunk whose pair has     *)
(* been evaluated by the component it selects: then two pointers of the    *)
(* table may become one.  Addresses are left out: a pointer is the object  *)
(* it points to and its tag.                                               *)
(***************************************************************************)
EXTENDS Integers, Sequences, Functions, FiniteSets

CONSTANTS
  NamedObjects, Selectors,  \* the objects, and those of them that are selector thunks
  Tags,                \* of pointers; a selector thunk has pointers with tag 0 only
  MaxNames,            \* a bound: names that are made
  None

ASSUME SelectorsAssumption ==
  Selectors \subseteq NamedObjects /\ 0 \in Tags /\ None \notin NamedObjects \X Tags

VARIABLES
  ptr2stable,  \* the entries of the map, in the order they were set: pointer and name
  names,       \* the names that were made: the object and the tag sn of each
  component,   \* of an evaluated pair: the pointer a selector thunk selects
  replaced     \* the pointers that collections have put in the place of selector thunks

namesVars == <<ptr2stable, names, component, replaced>>

Pointers == {p \in NamedObjects \X Tags : p[1] \in Selectors => p[2] = 0}
----------------------------------------------------------------------------
NamesInit ==
  /\ ptr2stable = <<>> /\ names = <<>>
  /\ component = [s \in Selectors |-> None] /\ replaced = [s \in Selectors |-> None]

\* What the program may still point to.
Remains(o) == o \in Selectors => replaced[o] = None

EntriesOf(p) == {i \in DOMAIN ptr2stable : ptr2stable[i].ptr = p}

\* Map.set keeps the place of an entry that is there.
set(map, p, n) ==
  IF \E i \in DOMAIN map : map[i].ptr = p
  THEN [i \in DOMAIN map |-> IF map[i].ptr = p THEN [ptr |-> p, name |-> n] ELSE map[i]]
  ELSE Append(map, [ptr |-> p, name |-> n])

makeStableName(p) ==
  /\ Remains(p[1]) /\ EntriesOf(p) = {} /\ Len(names) < MaxNames
  /\ names' = Append(names, [obj |-> p[1], sn |-> Len(ptr2stable)])
  /\ ptr2stable' = set(ptr2stable, p, Len(names) + 1)
  /\ UNCHANGED <<component, replaced>>

\* A pair is evaluated: what the thunk selects of it is there.
EvaluatePair(s, p) ==
  /\ Remains(s) /\ component[s] = None /\ Remains(p[1]) /\ p[1] # s
  /\ p[1] \in Selectors => component[p[1]] = None
  /\ component' = [component EXCEPT ![s] = p]
  /\ UNCHANGED <<ptr2stable, names, replaced>>

\* What stingyEval finds behind a pointer, when the thunks of cut are replaced.
stingyEval(p, cut) ==
  LET follow[q \in Pointers] == IF q[1] \in cut THEN follow[component[q[1]]] ELSE q
  IN  follow[p]

\* A bug: the table keeps the pointer.
leftInTable(p, cut, visited) == p

\* The first visit to a replaced thunk returns the pointer it selects, a later one
\* the forwarding address with the tag the visitor came with.
evacuateClosure(p, cut, visited) ==
  LET q == stingyEval(p, cut)
  IN  IF p[1] \in visited THEN <<q[1], p[2]>> ELSE q

\* The table behind a collection.  The thunks of early have been visited before it.
ptr2stableMoved(cut, early) ==
  LET after[i \in 0..Len(ptr2stable)] ==
        IF i = 0 THEN [map |-> <<>>, visited |-> early]
        ELSE LET e == ptr2stable[i]
                 r == after[i - 1]
             IN  [map |-> set(r.map, evacuateClosure(e.ptr, cut, r.visited), e.name),
                  visited |-> r.visited \cup ({e.ptr[1]} \cap cut)]
  IN  after[Len(ptr2stable)].map

\* A thunk is replaced unless its pair has been moved before the thunk is met.
moveNames ==
  \E cut \in SUBSET {s \in Selectors : component[s] # None /\ Remains(s)} :
    \E early \in SUBSET cut :
      /\ ptr2stable' = ptr2stableMoved(cut, early)
      /\ replaced' = [s \in Selectors |-> IF s \in cut THEN stingyEval(component[s], cut) ELSE replaced[s]]
      /\ component' = [s \in Selectors |->
                         IF component[s] = None THEN None ELSE stingyEval(component[s], cut)]
      /\ UNCHANGED names

NamesNext ==
  \/ \E p \in Pointers : makeStableName(p)
  \/ \E s \in Selectors : \E p \in Pointers : EvaluatePair(s, p)
  \/ moveNames

NamesSpec == NamesInit /\ [][NamesNext]_namesVars
----------------------------------------------------------------------------
\* The object a replaced thunk has become.
Now(o) ==
  LET follow[q \in NamedObjects] == IF Remains(q) THEN q ELSE follow[replaced[q][1]]
  IN  follow[o]

\* The table points to objects there are, to each pointer once.
TableTyped ==
  /\ IsInjective([i \in DOMAIN ptr2stable |-> ptr2stable[i].ptr])
  /\ \A i \in DOMAIN ptr2stable :
       /\ ptr2stable[i].ptr \in Pointers /\ Remains(ptr2stable[i].ptr[1])
       /\ ptr2stable[i].name \in DOMAIN names

\* A name that is found for a pointer was made for the object it points to, or for
\* a thunk that has become this object.
EntryNamesItsObject ==
  \A i \in DOMAIN ptr2stable : Now(names[ptr2stable[i].name].obj) = ptr2stable[i].ptr[1]

\* A stable name found for a pointer was made for the object, or for a thunk that has
\* become it, through every collection (rts.stablename.mjs:14, rts.gc.mjs:1056).
NamesSound == TableTyped /\ EntryNamesItsObject

\* A step, a collection's too, changes the name of an object only if it replaces a
\* thunk by it.
KeptUnlessReplaced ==
  \A i \in DOMAIN ptr2stable :
    LET o == ptr2stable[i].ptr[1]
    IN  ( /\ ptr2stable' # ptr2stable
          /\ ~ \E s \in Selectors : replaced'[s] # replaced[s] /\ (s = o \/ replaced'[s][1] = o) )
        => \E j \in DOMAIN ptr2stable' : ptr2stable'[j] = ptr2stable[i]

\* "If sn1 == sn2 then sn1 and sn2 were created by calls to makeStableName on the
\* same object."
EqualNamesSameObject ==
  \A m, n \in DOMAIN names : names[m].sn = names[n].sn => Now(names[m].obj) = Now(names[n].obj)

\* "Test that we get the same StableName even after a GC": the name of an object
\* that was no thunk stays the same.
SameNameAfterGC ==
  [][ \A i \in DOMAIN ptr2stable :
        ptr2stable[i].ptr[1] \notin Selectors =>
          \E j \in DOMAIN ptr2stable' :
            /\ ptr2stable'[j].ptr = ptr2stable[i].ptr
            /\ names'[ptr2stable'[j].name].sn = names[ptr2stable[i].name].sn ]_namesVars
============================================================================
