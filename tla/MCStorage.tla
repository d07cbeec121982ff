------------------------------ MODULE MCStorage ------------------------------
(***************************************************************************)
(* The parts of the runtime that keep the program's data, side by side:    *)
(* the copying collection, the allocator and its megablocks, boxed arrays, *)
(* the tables of JavaScript values, stable pointers and stable names, and  *)
(* the lists of block descriptors.  Each has variables of its own, and     *)
(* what they hand one another is in each of the modules.  A behaviour is   *)
(* one of one part, chosen in the beginning; the others stay in an initial *)
(* state.                                                                  *)
(***************************************************************************)
EXTENDS MCCollector, Callbacks, HeapAlloc, BlockList, Arrays, StableNames

VARIABLE part

Parts == {"collection", "tables", "heap", "names", "arrays", "lists"}

\* JSVal closures are allocated one behind the other, from the lowest free address on.
LowestFree(taken, n) ==
  {s \in SUBSET (Addresses \ taken) :
     Cardinality(s) = n /\ \A a \in s : \A b \in Addresses \ (taken \cup s) : a < b}

ASSUME HeapsAssumption == \A h \in Heaps : EndsOrCircular(h)

IdleHeap == CHOOSE h \in TreeHeaps : TRUE
----------------------------------------------------------------------------
StorageInit ==
  /\ part \in Parts
  /\ (IF part = "collection" THEN TRUE ELSE heap = IdleHeap) /\ Init
  /\ CallbacksInit
  /\ HeapInit /\ (IF part = "heap" THEN TRUE ELSE heapAlloc.unpinnedPool = 1 /\ heapAlloc.pinnedPool = 2 /\ nursery = 3)
  /\ NamesInit /\ ArraysInit /\ ListsInit

\* The variables of every part but p stay as they are.
Others(p) ==
  /\ UNCHANGED part
  /\ IF p = "collection" THEN TRUE ELSE UNCHANGED vars
  /\ IF p = "tables" THEN TRUE ELSE UNCHANGED callbacksVars
  /\ IF p = "heap" THEN TRUE ELSE UNCHANGED heapVars
  /\ IF p = "names" THEN TRUE ELSE UNCHANGED namesVars
  /\ IF p = "arrays" THEN TRUE ELSE UNCHANGED arraysVars
  /\ IF p = "lists" THEN TRUE ELSE UNCHANGED listVars

StorageNext ==
  \/ part = "collection" /\ Next /\ Others("collection")
  \/ part = "tables" /\ CallbacksNext /\ Others("tables")
  \/ part = "heap" /\ HeapNext /\ Others("heap")
  \/ part = "names" /\ NamesNext /\ Others("names")
  \/ part = "arrays" /\ ArraysNext /\ Others("arrays")
  \/ part = "lists" /\ ListsNext /\ Others("lists")

storageVars ==
  <<part, vars, callbacksVars, heapVars, namesVars, arraysVars, listVars>>

StorageSpec == StorageInit /\ [][StorageNext]_storageVars
----------------------------------------------------------------------------
(* What no step may do: call evacuateClosure from itself without an end,   *)
(* move a pinned object, rename an object that replaces no thunk, lose an  *)
(* element of an array that is collected, or free a callback that is not   *)
(* its own, unless it ends a oneshot callback older than a collection; and *)
(* the end of a call of a younger one frees it                             *)
(* (rts.gc.mjs:113-117, 364-447, 1072-1093, rts.mjs:207-221).              *)
CollectionsKeep ==
  [][ /\ part = "collection" => NotThrown'
      /\ part = "heap" => PinnedStay
      /\ part = "names" => KeptUnlessReplaced
      /\ part = "arrays" => CollectionKeepsElements
      /\ part = "tables" => FreedByItsOwn /\ OneshotFreed ]_storageVars
=============================================================================
