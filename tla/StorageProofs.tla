-------------------------- MODULE StorageProofs ----------------------------
(***************************************************************************)
(* The tables of stable pointers and of callbacks agree, whatever          *)
(* addresses the JSVal closures get and wherever collections move them;    *)
(* and the allocator keeps objects apart in the memory it has, whatever    *)
(* megablocks aligned_alloc gives and whatever a collection reaches.       *)
(***************************************************************************)
EXTENDS HeapAlloc, Callbacks, FiniteSetTheorems, TLAPS

\* What is written when callbacks are made.
CallbackRecord == [f : Fns, sp : Nat, oneshot : BOOLEAN, sn : Addresses, made : Nat]

\* The numbers of stable pointers go up to the last one, and callbacks are in the
\* table only after they were made.
TablesType ==
  /\ last \in Nat /\ collections \in Nat
  /\ DOMAIN spt \subseteq 1..last
  /\ callbacks \in Seq(CallbackRecord)
  /\ DOMAIN callbackStablePtrs \subseteq 1..Len(callbacks)

\* A stable pointer has one owner: the program or one callback.
OneOwner ==
  /\ \A cb \in DOMAIN callbackStablePtrs : callbackStablePtrs[cb] \notin DOMAIN own
  /\ \A c, d \in DOMAIN callbackStablePtrs :
       callbackStablePtrs[c] = callbackStablePtrs[d] => c = d

\* The inductive invariant.
TablesInv == TablesType /\ OneOwner /\ PointersKept /\ FreedTogether

\* A stable pointer is added, with a number above all others.
LEMMA NewPointer ==
  ASSUME TablesInv, NEW f \in Fns, newStablePtr(f)
  PROVE  /\ last' = last + 1 /\ last' \in Nat
         /\ DOMAIN spt' = DOMAIN spt \cup {last'} /\ last' \notin DOMAIN spt
         /\ spt'[last'] = f
         /\ \A sp \in DOMAIN spt : spt'[sp] = spt[sp]
BY DEF TablesInv, TablesType, newStablePtr, Put

\* What is left when an entry is taken out of a table.
LEMMA WithoutEntry ==
  ASSUME NEW t, NEW x
  PROVE  /\ DOMAIN Without(t, x) = DOMAIN t \ {x}
         /\ \A y \in DOMAIN t \ {x} : Without(t, x)[y] = t[y]
BY DEF Without, Restrict

\* Freeing a callback, through whatever address, keeps the tables in agreement.
LEMMA FreeKeepsTables ==
  ASSUME TablesInv, NEW sn, freeHaskellCallback(sn), UNCHANGED <<last, own, callbacks, collections>>
  PROVE  TablesInv'
<1> DEFINE cb == closure2Val[sn]
<1>1. CASE cb \notin DOMAIN callbackStablePtrs
  <2>1. spt' = spt /\ callbackStablePtrs' = Without(callbackStablePtrs, cb)
    BY <1>1 DEF freeHaskellCallback
  <2>2. /\ DOMAIN callbackStablePtrs' = DOMAIN callbackStablePtrs
        /\ \A c \in DOMAIN callbackStablePtrs : callbackStablePtrs'[c] = callbackStablePtrs[c]
    <3>1. DOMAIN callbackStablePtrs \ {cb} = DOMAIN callbackStablePtrs
      BY <1>1
    <3> HIDE DEF cb
    <3> QED BY <2>1, <3>1, WithoutEntry
  <2>3. Range(callbackStablePtrs)' = Range(callbackStablePtrs)
    BY <2>2 DEF Range
  <2> QED
    BY <2>1, <2>2, <2>3 DEF TablesInv, TablesType, OneOwner, PointersKept, FreedTogether
<1>2. CASE cb \in DOMAIN callbackStablePtrs
  <2> DEFINE p == callbackStablePtrs[cb]
  <2>1. spt' = Without(spt, p) /\ callbackStablePtrs' = Without(callbackStablePtrs, cb)
    BY <1>2 DEF freeHaskellCallback
  <2>2. /\ DOMAIN callbackStablePtrs' = DOMAIN callbackStablePtrs \ {cb}
        /\ \A c \in DOMAIN callbackStablePtrs \ {cb} : callbackStablePtrs'[c] = callbackStablePtrs[c]
    BY <2>1, WithoutEntry
  <2>3. DOMAIN spt' = DOMAIN spt \ {p} /\ \A q \in DOMAIN spt \ {p} : spt'[q] = spt[q]
    BY <2>1, WithoutEntry
  <2>4. Range(callbackStablePtrs)' = Range(callbackStablePtrs) \ {p}
    BY <1>2, <2>2 DEF Range, TablesInv, OneOwner
  <2>5. p \notin DOMAIN own
    BY <1>2 DEF TablesInv, OneOwner
  <2>6. TablesType'
    BY <2>2, <2>3 DEF TablesInv, TablesType
  <2>7. OneOwner'
    BY <2>2 DEF TablesInv, OneOwner
  <2>8. PointersKept'
    BY <1>2, <2>2, <2>3, <2>5 DEF TablesInv, OneOwner, PointersKept
  <2>9. FreedTogether'
    BY <2>3, <2>4, <2>5 DEF TablesInv, FreedTogether
  <2> QED BY <2>6, <2>7, <2>8, <2>9 DEF TablesInv
<1> QED BY <1>1, <1>2

\* A step that touches none of the tables.
LEMMA SameTables ==
  ASSUME TablesInv, UNCHANGED <<spt, last, own, callbacks, callbackStablePtrs>>,
         collections' \in {collections, collections + 1}
  PROVE  TablesInv'
BY DEF TablesInv, TablesType, OneOwner, PointersKept, FreedTogether

LEMMA InitTables == CallbacksInit => TablesInv
<1> SUFFICES ASSUME CallbacksInit PROVE TablesInv OBVIOUS
<1>1. DOMAIN spt = {} /\ DOMAIN own = {} /\ DOMAIN callbackStablePtrs = {}
  BY DEF CallbacksInit, Empty
<1>2. callbacks = <<>> /\ last = 0 /\ collections = 0
  BY DEF CallbacksInit, Empty
<1>3. Range(callbackStablePtrs) = {}
  BY <1>1 DEF Range
<1> QED BY <1>1, <1>2, <1>3 DEF TablesInv, TablesType, OneOwner, PointersKept, FreedTogether

LEMMA NewStablePtrKeepsTables ==
  ASSUME TablesInv, NEW f \in Fns, NewStablePtr(f)
  PROVE  TablesInv'
<1>1. newStablePtr(f) /\ UNCHANGED <<callbacks, callbackStablePtrs, collections>>
  BY DEF NewStablePtr
<1>2. /\ last' = last + 1 /\ last' \in Nat
      /\ DOMAIN spt' = DOMAIN spt \cup {last'} /\ last' \notin DOMAIN spt
      /\ spt'[last'] = f
      /\ \A sp \in DOMAIN spt : spt'[sp] = spt[sp]
  BY <1>1, NewPointer
<1>3. /\ DOMAIN own' = DOMAIN own \cup {last'} /\ own'[last'] = f
      /\ \A sp \in DOMAIN own \ {last'} : own'[sp] = own[sp]
  BY DEF NewStablePtr, Put
<1>4. Range(callbackStablePtrs)' = Range(callbackStablePtrs)
  BY <1>1 DEF Range
<1>5. \A cb \in DOMAIN callbackStablePtrs : callbackStablePtrs[cb] \in DOMAIN spt
  BY DEF TablesInv, PointersKept
<1>6. TablesType'
  BY <1>1, <1>2 DEF TablesInv, TablesType
<1>7. OneOwner'
  BY <1>1, <1>2, <1>3, <1>5 DEF TablesInv, OneOwner
<1>8. PointersKept'
  BY <1>1, <1>2, <1>3 DEF TablesInv, PointersKept
<1>9. FreedTogether'
  BY <1>1, <1>2, <1>3, <1>4 DEF TablesInv, FreedTogether
<1> QED BY <1>6, <1>7, <1>8, <1>9 DEF TablesInv

LEMMA FreeStablePtrKeepsTables ==
  ASSUME TablesInv, NEW sp \in DOMAIN own, FreeStablePtr(sp)
  PROVE  TablesInv'
<1>1. UNCHANGED <<last, callbacks, callbackStablePtrs, collections>>
  BY DEF FreeStablePtr
<1>2. DOMAIN spt' = DOMAIN spt \ {sp} /\ \A q \in DOMAIN spt \ {sp} : spt'[q] = spt[q]
  BY WithoutEntry DEF FreeStablePtr
<1>3. DOMAIN own' = DOMAIN own \ {sp} /\ \A q \in DOMAIN own \ {sp} : own'[q] = own[q]
  BY WithoutEntry DEF FreeStablePtr
<1>4. sp \notin Range(callbackStablePtrs) /\ Range(callbackStablePtrs)' = Range(callbackStablePtrs)
  BY <1>1 DEF Range, TablesInv, OneOwner
<1>5. \A cb \in DOMAIN callbackStablePtrs : callbackStablePtrs[cb] # sp
  BY DEF TablesInv, OneOwner
<1>6. TablesType' /\ OneOwner'
  BY <1>1, <1>2, <1>3 DEF TablesInv, TablesType, OneOwner
<1>7. PointersKept'
  BY <1>1, <1>2, <1>3, <1>5 DEF TablesInv, PointersKept
<1>8. FreedTogether'
  BY <1>1, <1>2, <1>3, <1>4 DEF TablesInv, FreedTogether
<1> QED BY <1>6, <1>7, <1>8 DEF TablesInv

LEMMA NewCallbackKeepsTables ==
  ASSUME TablesInv, NEW a \in Addresses, NEW f \in Fns, NEW oneshot \in BOOLEAN,
         newHaskellCallback(a, f, oneshot)
  PROVE  TablesInv'
<1> DEFINE cb == Len(callbacks) + 1
           r == [f |-> f, sp |-> last', oneshot |-> oneshot, sn |-> a, made |-> collections]
<1>1. /\ newStablePtr(f) /\ own' = own /\ callbacks' = Append(callbacks, r)
      /\ collections' = collections
  BY DEF newHaskellCallback
<1>2. /\ last' = last + 1 /\ last' \in Nat
      /\ DOMAIN spt' = DOMAIN spt \cup {last'} /\ last' \notin DOMAIN spt
      /\ spt'[last'] = f
      /\ \A sp \in DOMAIN spt : spt'[sp] = spt[sp]
  BY <1>1, NewPointer
<1>3. r \in CallbackRecord
  BY <1>2 DEF CallbackRecord, TablesInv, TablesType
<1>4. /\ callbacks' \in Seq(CallbackRecord) /\ Len(callbacks') = cb
      /\ callbacks'[cb] = r
      /\ \A c \in 1..Len(callbacks) : callbacks'[c] = callbacks[c]
  BY <1>1, <1>3 DEF TablesInv, TablesType
<1>5. cb \notin DOMAIN callbackStablePtrs
  BY DEF TablesInv, TablesType
<1>6. callbackStablePtrs' = Put(callbackStablePtrs, cb, last')
  BY DEF newHaskellCallback
<1>7. /\ DOMAIN callbackStablePtrs' = DOMAIN callbackStablePtrs \cup {cb}
      /\ callbackStablePtrs'[cb] = last'
      /\ \A c \in DOMAIN callbackStablePtrs : callbackStablePtrs'[c] = callbackStablePtrs[c]
  BY <1>5, <1>6 DEF Put
<1>8. Range(callbackStablePtrs)' = Range(callbackStablePtrs) \cup {last'}
  BY <1>7 DEF Range
<1>9. /\ \A c \in DOMAIN callbackStablePtrs : callbackStablePtrs[c] \in DOMAIN spt
      /\ DOMAIN own \subseteq DOMAIN spt
      /\ DOMAIN callbackStablePtrs \subseteq 1..Len(callbacks)
  BY DEF TablesInv, PointersKept, TablesType
<1>10. TablesType'
  <2>1. Len(callbacks) \in Nat
    BY DEF TablesInv, TablesType
  <2> QED BY <1>1, <1>2, <1>4, <1>7, <1>9, <2>1 DEF TablesInv, TablesType
<1>11. OneOwner'
  BY <1>1, <1>2, <1>7, <1>9 DEF TablesInv, OneOwner
<1>12. PointersKept'
  <2>1. \A c \in DOMAIN callbackStablePtrs :
          /\ callbacks'[c] = callbacks[c]
          /\ callbackStablePtrs'[c] = callbackStablePtrs[c]
          /\ callbackStablePtrs[c] = callbacks[c].sp /\ callbacks[c].sp \in DOMAIN spt
          /\ spt[callbacks[c].sp] = callbacks[c].f
    BY <1>4, <1>7, <1>9 DEF TablesInv, PointersKept
  <2>2. callbacks'[cb].sp = last' /\ callbacks'[cb].f = f
    BY <1>4
  <2>3. \A sp \in DOMAIN own' : sp \in DOMAIN spt' /\ spt'[sp] = own'[sp]
    BY <1>1, <1>2 DEF TablesInv, PointersKept
  <2> QED BY <1>2, <1>7, <2>1, <2>2, <2>3 DEF PointersKept
<1>13. FreedTogether'
  BY <1>1, <1>2, <1>8 DEF TablesInv, FreedTogether
<1> QED BY <1>10, <1>11, <1>12, <1>13 DEF TablesInv

\* A finalizer frees a callback or nothing.
LEMMA FinalizerKeepsTables ==
  ASSUME TablesInv, NEW cb, NEW short \in BOOLEAN, finalizer(cb, short),
         UNCHANGED <<last, own, callbacks, collections>>
  PROVE  TablesInv'
<1>1. freeHaskellCallback(callbacks[cb].sn) \/ UNCHANGED <<spt, callbackStablePtrs>>
  BY DEF finalizer
<1> QED BY <1>1, FreeKeepsTables, SameTables

LEMMA NextTables == TablesInv /\ [CallbacksNext]_callbacksVars => TablesInv'
<1> SUFFICES ASSUME TablesInv, [CallbacksNext]_callbacksVars PROVE TablesInv'
  OBVIOUS
<1>1. ASSUME NEW a \in Addresses, NEW v \in Values, NewJSVal(a, v) PROVE TablesInv'
  BY <1>1, SameTables DEF NewJSVal
<1>2. ASSUME NEW a \in DOMAIN refs, DropJSVal(a) PROVE TablesInv'
  BY <1>2, SameTables DEF DropJSVal
<1>3. ASSUME NEW a \in DOMAIN refs, FreeJSVal(a) PROVE TablesInv'
  BY <1>3, SameTables DEF FreeJSVal
<1>4. ASSUME NEW a \in DOMAIN refs, FreeHaskellCallback(a) PROVE TablesInv'
  BY <1>4, FreeKeepsTables DEF FreeHaskellCallback
<1>5. ASSUME NEW f \in Fns, NewStablePtr(f) PROVE TablesInv'
  BY <1>5, NewStablePtrKeepsTables
<1>6. ASSUME NEW sp \in DOMAIN own, FreeStablePtr(sp) PROVE TablesInv'
  BY <1>6, FreeStablePtrKeepsTables
<1>7. ASSUME NEW a \in Addresses, NEW f \in Fns, NEW oneshot \in OneShots,
             newHaskellCallback(a, f, oneshot)
      PROVE  TablesInv'
  <2>1. oneshot \in BOOLEAN
    BY CallbacksAssumption
  <2> QED BY <1>7, <2>1, NewCallbackKeepsTables
<1>8. ASSUME NEW cb \in 1..MaxCallbacks, NEW a \in Addresses, NEW v \in Values, Invoke(cb, a, v)
      PROVE  TablesInv'
  BY <1>8, SameTables DEF Invoke
<1>9. ASSUME NEW cb \in 1..MaxCallbacks, InvokeShort(cb) PROVE TablesInv'
  BY <1>9, FinalizerKeepsTables DEF InvokeShort
<1>10. ASSUME NEW cb \in 1..MaxCallbacks, FinishCall(cb) PROVE TablesInv'
  BY <1>10, FinalizerKeepsTables DEF FinishCall
<1>11. CASE performGC
  BY <1>11, SameTables DEF performGC
<1>12. CASE UNCHANGED callbacksVars
  BY <1>12, SameTables DEF callbacksVars
<1> QED
  BY <1>1, <1>2, <1>3, <1>4, <1>5, <1>6, <1>7, <1>8, <1>9, <1>10, <1>11, <1>12 DEF CallbacksNext

\* newHaskellCallback, freeHaskellCallback and the stable-pointer table: a stable
\* pointer stands for its function until its owner frees it, and a call of a
\* registered callback runs the function it was made for, oneshot callbacks whose
\* finalizers hit other closures included.
THEOREM StablePointersKept == CallbacksSpec => []PointersKept
<1>1. TablesInv => PointersKept
  BY DEF TablesInv
<1> QED BY <1>1, InitTables, NextTables, PTL DEF CallbacksSpec

\* freeHaskellCallback: no stable pointer outlives the callback it was made for, and
\* none is freed before it.
THEOREM CallbacksFreedTogether == CallbacksSpec => []FreedTogether
<1>1. TablesInv => FreedTogether
  BY DEF TablesInv
<1> QED BY <1>1, InitTables, NextTables, PTL DEF CallbacksSpec
-----------------------------------------------------------------------------
(***************************************************************************)
(* JSVals keep their values and oneshot callbacks are freed by their call. *)
(***************************************************************************)

JSValsType ==
  /\ DOMAIN refs \cup DOMAIN closure2Val \subseteq used /\ used \subseteq Addresses
  /\ \A a \in DOMAIN refs : refs[a] \in [val : Plain \cup Nat, freed : BOOLEAN]
  /\ \A a \in DOMAIN closure2Val : closure2Val[a] \in Plain \cup DOMAIN callbacks
  /\ \A sp \in DOMAIN spt : spt[sp] \in Fns
  /\ running \in [1..MaxCallbacks -> Int]
  /\ \A cb \in 1..MaxCallbacks : running[cb] > 0 => cb \in DOMAIN callbacks
  /\ DOMAIN callbacks \subseteq 1..MaxCallbacks

\* What the history says: callbacks were made in the past, and the JSVals that were
\* freed in place of others are there without a value.
HistoryKept ==
  /\ \A cb \in DOMAIN callbacks : callbacks[cb].made <= collections
  /\ lost \subseteq used /\ \A a \in lost : a \notin DOMAIN closure2Val

\* The other JSVals that the program reaches and has not freed have their values.
LiveKept ==
  \A a \in DOMAIN refs \ lost :
    ~refs[a].freed => a \in DOMAIN closure2Val /\ closure2Val[a] = refs[a].val

\* A oneshot callback that no collection has come after.
Unmoved(cb) == callbacks[cb].oneshot /\ callbacks[cb].made = collections

\* The address that the finalizer of such a callback keeps is that of the callback's
\* JSVal, which is there as long as the callback is registered, and nobody else's.
OneshotsKnown ==
  \A cb \in DOMAIN callbacks :
    Unmoved(cb) =>
      LET sn == callbacks[cb].sn
      IN  /\ sn \in used
          /\ cb \in DOMAIN callbackStablePtrs => sn \in DOMAIN closure2Val
          /\ sn \in DOMAIN closure2Val => closure2Val[sn] = cb
          /\ sn \in DOMAIN refs => refs[sn].val = cb

\* The inductive invariant.
ValuesInv == TablesInv /\ JSValsType /\ HistoryKept /\ LiveKept /\ OneshotsKnown

LEMMA MadeIsANumber ==
  ASSUME TablesInv
  PROVE  collections \in Nat /\ \A cb \in DOMAIN callbacks : callbacks[cb].made \in Nat
<1> SUFFICES ASSUME NEW cb \in DOMAIN callbacks PROVE callbacks[cb].made \in Nat
  BY DEF TablesInv, TablesType
<1>1. callbacks \in Seq(CallbackRecord)
  BY DEF TablesInv, TablesType
<1>2. callbacks[cb] \in CallbackRecord
  BY <1>1
<1> QED  BY <1>2 DEF CallbackRecord

\* Only a oneshot callback that a collection has come after can hit another JSVal.
LEMMA StraysAreOld ==
  ASSUME ValuesInv, NEW cb \in DOMAIN callbacks, Strays(cb)
  PROVE  callbacks[cb].made < collections
<1>1. callbacks[cb].oneshot /\ callbacks[cb].made # collections
  BY DEF Strays, ValuesInv, OneshotsKnown, Unmoved
<1>2. callbacks[cb].made \in Nat /\ collections \in Nat
  BY MadeIsANumber DEF ValuesInv
<1> QED  BY <1>1, <1>2 DEF ValuesInv, HistoryKept

LEMMA StrayFree ==
  ASSUME ValuesInv
  PROVE  ValuesKept
BY StraysAreOld DEF ValuesInv, LiveKept, ValuesKept

\* The program reaches no more than before, and nothing unfreed at sn.
RefsWithout(sn) ==
  /\ DOMAIN refs' \subseteq DOMAIN refs
  /\ \A a \in DOMAIN refs' :
       /\ refs'[a].val = refs[a].val
       /\ IF a = sn THEN refs'[a] \in [val : Plain \cup Nat, freed : {TRUE}] ELSE refs'[a] = refs[a]

\* heapAlloc.allocate gives an address that is not in use.
LEMMA FreshAddress ==
  ASSUME JSValsType, NEW a \in Addresses, {a} \in Places(used, 1)
  PROVE  a \notin used
<1>1. Cardinality(Addresses) \in Nat /\ Cardinality(Addresses) # 0
  BY CallbacksAssumption, FS_CardinalityType, FS_EmptySet
<1>2. Places(used, 1) \subseteq SUBSET (Addresses \ used)
  BY <1>1, CallbacksAssumption DEF JSValsType
<1> QED  BY <1>2

LEMMA RefsFreedAt ==
  ASSUME JSValsType, NEW a \in DOMAIN refs, RefsFreed(a)
  PROVE  RefsWithout(a)
<1>1. refs[a] \in [val : Plain \cup Nat, freed : BOOLEAN]
  BY DEF JSValsType
<1>2. CASE refs' = [refs EXCEPT ![a].freed = TRUE]
  BY <1>1, <1>2 DEF RefsWithout
<1>3. CASE refs' = Without(refs, a)
  BY <1>3 DEF RefsWithout, Without, Restrict
<1> QED  BY <1>2, <1>3 DEF RefsFreed

\* A new JSVal, perhaps for a callback made in the same step.
LEMMA NewValueKept ==
  ASSUME ValuesInv, NEW a \in Addresses, NEW v \in Plain \cup DOMAIN callbacks', newJSValzh(a, v),
         UNCHANGED <<lost, collections>>, DOMAIN callbacks \subseteq DOMAIN callbacks', DOMAIN callbacks' \subseteq 1..MaxCallbacks,
         \A sp \in DOMAIN spt' : spt'[sp] \in Fns,
         running' \in [1..MaxCallbacks -> Int],
         \A cb \in 1..MaxCallbacks : running'[cb] > 0 => cb \in DOMAIN callbacks',
         \A cb \in DOMAIN callbacks : callbacks'[cb] = callbacks[cb]
                                      /\ (cb \in DOMAIN callbackStablePtrs' => cb \in DOMAIN callbackStablePtrs),
         \A cb \in DOMAIN callbacks' \ DOMAIN callbacks : /\ callbacks'[cb].sn = a /\ cb = v
                                                       /\ callbacks'[cb].made = collections
  PROVE  JSValsType' /\ HistoryKept' /\ LiveKept' /\ OneshotsKnown'
<1>1. a \notin used /\ used' = used \cup {a}
  BY FreshAddress DEF ValuesInv, newJSValzh
<1>2. /\ DOMAIN closure2Val' = DOMAIN closure2Val \cup {a} /\ closure2Val'[a] = v
      /\ \A b \in DOMAIN closure2Val \ {a} : closure2Val'[b] = closure2Val[b]
  BY DEF newJSValzh, Put
<1>3. /\ DOMAIN refs' = DOMAIN refs \cup {a} /\ refs'[a] = [val |-> v, freed |-> FALSE]
      /\ \A b \in DOMAIN refs \ {a} : refs'[b] = refs[b]
  BY DEF newJSValzh, Put
<1>4. a \notin DOMAIN closure2Val /\ a \notin DOMAIN refs
  BY <1>1 DEF ValuesInv, JSValsType
<1>5. JSValsType'
  <2>1. refs'[a] \in [val : Plain \cup Nat, freed : BOOLEAN]
    BY <1>3
  <2> QED  BY <1>1, <1>2, <1>3, <2>1 DEF ValuesInv, JSValsType
<1>6. LiveKept'
  BY <1>2, <1>3, <1>4 DEF ValuesInv, LiveKept
<1>8. HistoryKept'
  <2>1. \A cb \in DOMAIN callbacks' : callbacks'[cb].made <= collections'
    <3>1. collections \in Nat
      BY DEF ValuesInv, TablesInv, TablesType
    <3> QED  BY <3>1 DEF ValuesInv, HistoryKept
  <2> QED  BY <1>1, <1>2, <2>1 DEF ValuesInv, HistoryKept
<1>7. OneshotsKnown'
  <2> SUFFICES ASSUME NEW cb \in DOMAIN callbacks', Unmoved(cb)'
               PROVE  LET sn == callbacks'[cb].sn
                      IN  /\ sn \in used'
                          /\ cb \in DOMAIN callbackStablePtrs' => sn \in DOMAIN closure2Val'
                          /\ sn \in DOMAIN closure2Val' => closure2Val'[sn] = cb
                          /\ sn \in DOMAIN refs' => refs'[sn].val = cb
    BY DEF OneshotsKnown
  <2>1. CASE cb \in DOMAIN callbacks
    <3>1. callbacks[cb].sn \in used /\ callbacks'[cb] = callbacks[cb] /\ Unmoved(cb)
      BY <2>1 DEF ValuesInv, OneshotsKnown, Unmoved
    <3> QED  BY <1>1, <1>2, <1>3, <2>1, <3>1 DEF ValuesInv, OneshotsKnown
  <2>2. CASE cb \notin DOMAIN callbacks
    BY <1>1, <1>2, <1>3, <2>2
  <2> QED  BY <2>1, <2>2
<1> QED  BY <1>5, <1>6, <1>7, <1>8

\* The value at sn goes, and the program knows of it or has lost it; if it is that of a
\* oneshot callback that no collection has come after, the callback goes too.
LEMMA ValueRemoved ==
  ASSUME ValuesInv, NEW sn, UNCHANGED <<used, callbacks, collections>>,
         lost \subseteq lost', lost' \subseteq lost \cup ({sn} \cap used),
         RefsWithout(sn) \/ (refs' = refs /\ sn \in lost'),
         \/ closure2Val' = Without(closure2Val, sn)
         \/ closure2Val' = closure2Val /\ sn \notin DOMAIN closure2Val,
         \A sp \in DOMAIN spt' : spt'[sp] \in Fns,
         running' \in [1..MaxCallbacks -> Int],
         \A cb \in 1..MaxCallbacks : running'[cb] > 0 => cb \in DOMAIN callbacks',
         DOMAIN callbackStablePtrs' \subseteq DOMAIN callbackStablePtrs,
         \A cb \in DOMAIN callbacks :
           Unmoved(cb) /\ callbacks[cb].sn = sn => cb \notin DOMAIN callbackStablePtrs'
  PROVE  JSValsType' /\ HistoryKept' /\ LiveKept' /\ OneshotsKnown'
<1>1. /\ DOMAIN closure2Val' = DOMAIN closure2Val \ {sn}
      /\ \A b \in DOMAIN closure2Val \ {sn} : closure2Val'[b] = closure2Val[b]
  BY DEF Without, Restrict
<1>2. JSValsType'
  <2>1. \A a \in DOMAIN refs' : refs'[a] \in [val : Plain \cup Nat, freed : BOOLEAN]
    <3> SUFFICES ASSUME NEW a \in DOMAIN refs' PROVE refs'[a] \in [val : Plain \cup Nat, freed : BOOLEAN]
      OBVIOUS
    <3>1. CASE a = sn /\ RefsWithout(sn)
      BY <3>1 DEF RefsWithout
    <3>2. CASE refs' = refs \/ (a # sn /\ RefsWithout(sn))
      BY <3>2 DEF RefsWithout, ValuesInv, JSValsType
    <3> QED  BY <3>1, <3>2
  <2> QED  BY <1>1, <2>1 DEF ValuesInv, JSValsType, RefsWithout
<1>3. LiveKept'
  <2> SUFFICES ASSUME NEW a \in DOMAIN refs' \ lost', ~refs'[a].freed
               PROVE  a \in DOMAIN closure2Val' /\ closure2Val'[a] = refs'[a].val
    BY DEF LiveKept
  <2>1. a # sn /\ a \in DOMAIN refs \ lost /\ refs'[a] = refs[a]
    BY DEF RefsWithout
  <2> QED  BY <1>1, <2>1 DEF ValuesInv, LiveKept
<1>4. OneshotsKnown'
  <2>1. \A a \in DOMAIN refs' : a \in DOMAIN refs /\ refs'[a].val = refs[a].val
    BY DEF RefsWithout
  <2> QED  BY <1>1, <2>1 DEF ValuesInv, OneshotsKnown, Unmoved
<1>5. HistoryKept'
  BY <1>1 DEF ValuesInv, HistoryKept
<1> QED  BY <1>2, <1>3, <1>4, <1>5
LEMMA RegisteredExist ==
  ASSUME ValuesInv
  PROVE  DOMAIN callbackStablePtrs \subseteq DOMAIN callbacks
<1>1. callbacks \in Seq(CallbackRecord) /\ DOMAIN callbackStablePtrs \subseteq 1..Len(callbacks)
  BY DEF ValuesInv, TablesInv, TablesType
<1> QED  BY <1>1

LEMMA SameValues ==
  ASSUME ValuesInv, UNCHANGED <<jsvals, callbacks, callbackStablePtrs, running, collections>>,
         \A sp \in DOMAIN spt' : spt'[sp] \in Fns
  PROVE  JSValsType' /\ HistoryKept' /\ LiveKept' /\ OneshotsKnown'
BY DEF ValuesInv, jsvals, JSValsType, HistoryKept, LiveKept, OneshotsKnown, Unmoved

\* Freeing takes stable pointers and registrations away, and adds none.
LEMMA FreeTakesAway ==
  ASSUME ValuesInv, NEW sn, freeHaskellCallback(sn)
  PROVE  /\ \A sp \in DOMAIN spt' : spt'[sp] \in Fns
         /\ DOMAIN callbackStablePtrs' = DOMAIN callbackStablePtrs \ {closure2Val[sn]}
         /\ closure2Val' = Without(closure2Val, sn)
BY DEF freeHaskellCallback, Without, Restrict, ValuesInv, JSValsType

\* A JSVal that the program may free is not at the address of a oneshot callback that
\* no collection has come after.
LEMMA NotOneshots ==
  ASSUME ValuesInv, NEW a \in DOMAIN refs,
         refs[a].val \in DOMAIN callbacks => ~callbacks[refs[a].val].oneshot
  PROVE  \A cb \in DOMAIN callbacks : Unmoved(cb) => callbacks[cb].sn # a
BY DEF ValuesInv, OneshotsKnown, Unmoved

LEMMA FreeJSValKeepsValues ==
  ASSUME ValuesInv, NEW a \in DOMAIN refs, FreeJSVal(a)
  PROVE  JSValsType' /\ HistoryKept' /\ LiveKept' /\ OneshotsKnown'
<1>1. RefsWithout(a) /\ UNCHANGED <<used, callbacks, callbackStablePtrs, spt, running, lost, collections>>
  BY RefsFreedAt DEF FreeJSVal, ValuesInv
<1>2. closure2Val' = Without(closure2Val, a)
  BY DEF FreeJSVal
<1>3. \A cb \in DOMAIN callbacks : Unmoved(cb) => callbacks[cb].sn # a
  BY NotOneshots DEF FreeJSVal
<1>4. /\ running \in [1..MaxCallbacks -> Int]
      /\ \A sp \in DOMAIN spt : spt[sp] \in Fns
      /\ \A cb \in 1..MaxCallbacks : running[cb] > 0 => cb \in DOMAIN callbacks
  BY DEF ValuesInv, JSValsType
<1> QED  BY <1>1, <1>2, <1>3, <1>4, ValueRemoved

LEMMA FreeCallbackKeepsValues ==
  ASSUME ValuesInv, NEW a \in DOMAIN refs, FreeHaskellCallback(a)
  PROVE  JSValsType' /\ HistoryKept' /\ LiveKept' /\ OneshotsKnown'
<1>1. RefsWithout(a) /\ UNCHANGED <<used, callbacks, running, lost, collections>>
  BY RefsFreedAt DEF FreeHaskellCallback, ValuesInv
<1>2. /\ closure2Val' = Without(closure2Val, a)
      /\ \A sp \in DOMAIN spt' : spt'[sp] \in Fns
      /\ DOMAIN callbackStablePtrs' \subseteq DOMAIN callbackStablePtrs
  BY FreeTakesAway DEF FreeHaskellCallback
<1>3. \A cb \in DOMAIN callbacks : Unmoved(cb) => callbacks[cb].sn # a
  BY NotOneshots DEF FreeHaskellCallback
<1>4. /\ running \in [1..MaxCallbacks -> Int]
      /\ \A cb \in 1..MaxCallbacks : running[cb] > 0 => cb \in DOMAIN callbacks
  BY DEF ValuesInv, JSValsType
<1> QED  BY <1>1, <1>2, <1>3, <1>4, ValueRemoved

\* The finalizer of a oneshot callback frees what is at the address it keeps: the
\* callback as long as no collection has come, or another that has strayed there.
LEMMA FinalizerFrees ==
  ASSUME ValuesInv, NEW cb \in DOMAIN callbacks, NEW short,
         finalizer(cb, short), RefsFinalized(cb), LostFinalized(cb)
  PROVE  /\ \A sp \in DOMAIN spt' : spt'[sp] \in Fns
         /\ IF callbacks[cb].oneshot
            THEN LET sn == callbacks[cb].sn
                 IN  /\ RefsWithout(sn) \/ (refs' = refs /\ sn \in lost')
                     /\ lost' = IF Strays(cb) THEN lost \cup {sn} ELSE lost
                     /\ \/ /\ closure2Val' = Without(closure2Val, sn) /\ sn \in DOMAIN closure2Val
                           /\ DOMAIN callbackStablePtrs' = DOMAIN callbackStablePtrs \ {closure2Val[sn]}
                        \/ /\ closure2Val' = closure2Val /\ sn \notin DOMAIN closure2Val
                           /\ callbackStablePtrs' = callbackStablePtrs
            ELSE UNCHANGED <<refs, closure2Val, callbackStablePtrs, lost>>
<1> DEFINE sn == callbacks[cb].sn
<1>1. \A sp \in DOMAIN spt : spt[sp] \in Fns
  BY DEF ValuesInv, JSValsType
<1>2. CASE ~callbacks[cb].oneshot
  BY <1>1, <1>2 DEF finalizer, RefsFinalized, LostFinalized, Strays
<1>3. CASE callbacks[cb].oneshot
  <2>1. lost' = IF Strays(cb) THEN lost \cup {sn} ELSE lost
    BY DEF LostFinalized
  <2>2. RefsWithout(sn) \/ (refs' = refs /\ sn \in lost')
    <3>1. CASE sn \in DOMAIN refs /\ refs[sn].val = cb
      <4>1. RefsFreed(sn)
        BY <1>3, <3>1 DEF RefsFinalized
      <4> HIDE DEF sn
      <4> QED  BY <3>1, <4>1, RefsFreedAt DEF ValuesInv
    <3>2. CASE ~(sn \in DOMAIN refs /\ refs[sn].val = cb)
      <4>1. refs' = refs
        BY <1>3, <3>2 DEF RefsFinalized
      <4>2. CASE Strays(cb) \/ sn \in lost
        BY <2>1, <4>1, <4>2
      <4>3. CASE ~Strays(cb) /\ sn \notin lost
        <5>1. sn \in DOMAIN closure2Val => closure2Val[sn] = cb
          BY <1>3, <4>3 DEF Strays
        <5>2. sn \in DOMAIN refs => refs[sn].freed
          BY <3>2, <4>3, <5>1 DEF ValuesInv, LiveKept
        <5>3. sn \in DOMAIN refs => refs[sn] \in [val : Plain \cup Nat, freed : {TRUE}]
          BY <5>2 DEF ValuesInv, JSValsType
        <5> HIDE DEF sn
        <5> QED  BY <4>1, <5>3 DEF RefsWithout
      <4> QED  BY <4>2, <4>3
    <3> QED  BY <3>1, <3>2
  <2>3. CASE sn \in DOMAIN closure2Val
    <3>1. freeHaskellCallback(sn)
      BY <1>3, <2>3 DEF finalizer
    <3>2. /\ \A sp \in DOMAIN spt' : spt'[sp] \in Fns
          /\ DOMAIN callbackStablePtrs' = DOMAIN callbackStablePtrs \ {closure2Val[sn]}
          /\ closure2Val' = Without(closure2Val, sn)
      BY <3>1, FreeTakesAway
    <3> QED  BY <1>3, <2>1, <2>2, <2>3, <3>2
  <2>4. CASE sn \notin DOMAIN closure2Val
    <3>1. UNCHANGED <<spt, callbackStablePtrs, closure2Val>>
      BY <1>3, <2>4 DEF finalizer
    <3> QED  BY <1>1, <1>3, <2>1, <2>2, <2>4, <3>1
  <2> QED  BY <2>3, <2>4
<1> QED  BY <1>2, <1>3

LEMMA FinalizerKeepsValues ==
  ASSUME ValuesInv, NEW cb \in DOMAIN callbacks, NEW short,
         finalizer(cb, short), RefsFinalized(cb), LostFinalized(cb),
         UNCHANGED <<used, callbacks, collections>>,
         running' \in [1..MaxCallbacks -> Int],
         \A c \in 1..MaxCallbacks : running'[c] > 0 => c \in DOMAIN callbacks'
  PROVE  JSValsType' /\ HistoryKept' /\ LiveKept' /\ OneshotsKnown'
<1>1. \A sp \in DOMAIN spt' : spt'[sp] \in Fns
  BY FinalizerFrees
<1>2. CASE ~callbacks[cb].oneshot
  <2>1. UNCHANGED <<refs, closure2Val, callbackStablePtrs, lost>>
    BY <1>2, FinalizerFrees
  <2>2. JSValsType'
    BY <1>1, <2>1 DEF ValuesInv, JSValsType
  <2>3. HistoryKept' /\ LiveKept' /\ OneshotsKnown'
    BY <2>1 DEF ValuesInv, HistoryKept, LiveKept, OneshotsKnown, Unmoved
  <2> QED  BY <2>2, <2>3
<1>3. CASE callbacks[cb].oneshot
  <2>1. PICK sn : sn = callbacks[cb].sn
    OBVIOUS
  <2>2. /\ RefsWithout(sn) \/ (refs' = refs /\ sn \in lost')
        /\ lost' = IF Strays(cb) THEN lost \cup {sn} ELSE lost
        /\ \/ /\ closure2Val' = Without(closure2Val, sn) /\ sn \in DOMAIN closure2Val
              /\ DOMAIN callbackStablePtrs' = DOMAIN callbackStablePtrs \ {closure2Val[sn]}
           \/ /\ closure2Val' = closure2Val /\ sn \notin DOMAIN closure2Val
              /\ callbackStablePtrs' = callbackStablePtrs
    BY <1>3, <2>1, FinalizerFrees
  <2>3. \A d \in DOMAIN callbacks :
          Unmoved(d) /\ callbacks[d].sn = sn => d \notin DOMAIN callbackStablePtrs'
    <3>1. \A d \in DOMAIN callbacks :
            Unmoved(d) /\ callbacks[d].sn = sn /\ d \in DOMAIN callbackStablePtrs =>
              sn \in DOMAIN closure2Val /\ closure2Val[sn] = d
      BY DEF ValuesInv, OneshotsKnown
    <3> QED  BY <2>2, <3>1
  <2>4. lost \subseteq lost' /\ lost' \subseteq lost \cup ({sn} \cap used)
    BY <2>1, <2>2 DEF Strays, ValuesInv, JSValsType
  <2>5. DOMAIN callbackStablePtrs' \subseteq DOMAIN callbackStablePtrs
    BY <2>2
  <2> QED  BY <1>1, <2>2, <2>3, <2>4, <2>5, ValueRemoved
<1> QED  BY <1>2, <1>3

\* A collection gives every JSVal a new address and takes its value there.
LEMMA CollectionKeepsValues ==
  ASSUME ValuesInv, performGC
  PROVE  JSValsType' /\ HistoryKept' /\ LiveKept' /\ OneshotsKnown'
<1>1. /\ UNCHANGED <<spt, callbacks, callbackStablePtrs, running>>
      /\ collections' = collections + 1
  BY DEF performGC
<1>4. OneshotsKnown' /\ \A cb \in DOMAIN callbacks' : callbacks'[cb].made <= collections'
  <2>1. collections \in Nat /\ \A cb \in DOMAIN callbacks : callbacks[cb].made \in Nat
    BY MadeIsANumber DEF ValuesInv
  <2>2. \A cb \in DOMAIN callbacks : /\ callbacks'[cb].made <= collections'
                                    /\ callbacks'[cb].made # collections'
    BY <1>1, <2>1 DEF ValuesInv, HistoryKept
  <2> QED  BY <1>1, <2>2 DEF OneshotsKnown, Unmoved
<1>2. CASE UNCHANGED jsvals
  <2>1. JSValsType' /\ LiveKept'
    BY <1>1, <1>2 DEF ValuesInv, JSValsType, LiveKept, jsvals
  <2> QED  BY <1>2, <1>4, <2>1 DEF ValuesInv, HistoryKept, jsvals
<1>3. CASE ~UNCHANGED jsvals
  <2>1. /\ DOMAIN refs \subseteq DOMAIN closure2Val
        /\ \E moved \in UNION {Bijection(DOMAIN refs, to) : to \in Places(used, Cardinality(DOMAIN refs))} :
             /\ used' = Range(moved)
             /\ refs' = [b \in Range(moved) |-> refs[CHOOSE a \in DOMAIN moved : moved[a] = b]]
             /\ closure2Val' = liveJSVals(moved)
             /\ lost' = {}
    BY <1>3 DEF performGC
  <2>2. PICK to \in Places(used, Cardinality(DOMAIN refs)) : \E moved \in Bijection(DOMAIN refs, to) :
          /\ used' = Range(moved)
          /\ refs' = [b \in Range(moved) |-> refs[CHOOSE a \in DOMAIN moved : moved[a] = b]]
          /\ closure2Val' = liveJSVals(moved)
          /\ lost' = {}
    BY <2>1
  <2>a. PICK moved \in Bijection(DOMAIN refs, to) :
          /\ used' = Range(moved)
          /\ refs' = [b \in Range(moved) |-> refs[CHOOSE a \in DOMAIN moved : moved[a] = b]]
          /\ closure2Val' = liveJSVals(moved)
          /\ lost' = {}
    BY <2>2
  <2>3. moved \in [DOMAIN refs -> to]
    BY DEF Bijection, Injection
  <2>4. to \subseteq Addresses
    <3>1. DOMAIN refs \subseteq Addresses /\ used \in SUBSET Addresses
      BY DEF ValuesInv, JSValsType
    <3>2. Cardinality(DOMAIN refs) \in 0 .. Cardinality(Addresses)
      BY <3>1, CallbacksAssumption, FS_Subset, FS_CardinalityType
    <3>3. Places(used, Cardinality(DOMAIN refs)) \subseteq SUBSET (Addresses \ used)
      BY <3>1, <3>2, CallbacksAssumption
    <3> QED  BY <3>3
  <2> DEFINE old(b) == CHOOSE a \in DOMAIN moved : moved[a] = b
  <2>5. Range(moved) \subseteq Addresses /\ \A b \in Range(moved) : old(b) \in DOMAIN refs
    BY <2>3, <2>4 DEF Range
  <2>6. /\ DOMAIN refs' = Range(moved) /\ DOMAIN closure2Val' = Range(moved)
        /\ \A b \in Range(moved) : refs'[b] = refs[old(b)] /\ closure2Val'[b] = closure2Val[old(b)]
    BY <2>a DEF liveJSVals
  <2> HIDE DEF old
  <2>7. JSValsType'
    <3>1. \A b \in DOMAIN refs' : refs'[b] \in [val : Plain \cup Nat, freed : BOOLEAN]
      BY <2>5, <2>6 DEF ValuesInv, JSValsType
    <3>2. \A b \in DOMAIN closure2Val' : closure2Val'[b] \in Plain \cup DOMAIN callbacks'
      BY <1>1, <2>1, <2>5, <2>6 DEF ValuesInv, JSValsType
    <3> QED  BY <1>1, <2>a, <2>5, <2>6, <3>1, <3>2 DEF ValuesInv, JSValsType
  <2>8. LiveKept'
    BY <2>1, <2>5, <2>6 DEF ValuesInv, HistoryKept, LiveKept
  <2>9. HistoryKept'
    BY <1>4, <2>a DEF HistoryKept
  <2> QED  BY <1>4, <2>7, <2>8, <2>9
<1> QED  BY <1>2, <1>3

LEMMA InitValues == CallbacksInit => ValuesInv
BY InitTables DEF CallbacksInit, Empty, ValuesInv, JSValsType, HistoryKept, LiveKept, OneshotsKnown

LEMMA NewJSValKeepsValues ==
  ASSUME ValuesInv, NEW a \in Addresses, NEW v \in Values, NewJSVal(a, v)
  PROVE  JSValsType' /\ HistoryKept' /\ LiveKept' /\ OneshotsKnown'
<1>1. /\ newJSValzh(a, v) /\ v \in Plain \cup DOMAIN callbacks'
      /\ UNCHANGED <<callbacks, callbackStablePtrs, spt, running, lost, collections>>
  BY DEF NewJSVal
<1>2. DOMAIN callbacks \subseteq 1..MaxCallbacks
  BY DEF ValuesInv, JSValsType
<1> QED  BY <1>1, <1>2, NewValueKept DEF ValuesInv, JSValsType

LEMMA InvokeKeepsValues ==
  ASSUME ValuesInv, NEW cb \in 1..MaxCallbacks, NEW a \in Addresses, NEW v \in Values, Invoke(cb, a, v)
  PROVE  JSValsType' /\ HistoryKept' /\ LiveKept' /\ OneshotsKnown'
<1>1. /\ newJSValzh(a, v) /\ v \in Plain \cup DOMAIN callbacks'
      /\ UNCHANGED <<callbacks, callbackStablePtrs, spt, lost, collections>>
      /\ running' = [running EXCEPT ![cb] = @ + 1]
  BY DEF Invoke
<1>2. DOMAIN callbacks \subseteq 1..MaxCallbacks /\ cb \in DOMAIN callbacks
  BY DEF ValuesInv, JSValsType, TablesInv, TablesType, Invoke
<1>3. /\ running' \in [1..MaxCallbacks -> Int]
      /\ \A c \in 1..MaxCallbacks : running'[c] > 0 => c \in DOMAIN callbacks'
      /\ \A sp \in DOMAIN spt : spt[sp] \in Fns
  BY <1>1, <1>2 DEF ValuesInv, JSValsType
<1> QED  BY <1>1, <1>2, <1>3, NewValueKept

LEMMA NewCallbackKeepsValues ==
  ASSUME ValuesInv, NEW a \in Addresses, NEW f \in Fns, NEW oneshot \in BOOLEAN,
         newHaskellCallback(a, f, oneshot)
  PROVE  JSValsType' /\ HistoryKept' /\ LiveKept' /\ OneshotsKnown'
<1>1. PICK cb \in Nat : cb = Len(callbacks) + 1
  BY DEF ValuesInv, TablesInv, TablesType
<1>2. /\ newJSValzh(a, cb) /\ UNCHANGED <<running, lost, collections>>
      /\ callbackStablePtrs' = Put(callbackStablePtrs, cb, last')
      /\ callbacks' = Append(callbacks, [f |-> f, sp |-> last', oneshot |-> oneshot, sn |-> a,
                                           made |-> collections])
  BY <1>1 DEF newHaskellCallback
<1>3. /\ DOMAIN callbacks = 1 .. cb - 1 /\ DOMAIN callbacks' = 1 .. cb
      /\ \A c \in 1 .. cb - 1 : callbacks'[c] = callbacks[c]
      /\ callbacks'[cb].sn = a /\ callbacks'[cb].made = collections
  BY <1>1, <1>2 DEF ValuesInv, TablesInv, TablesType
<1>4. \A c \in DOMAIN callbacks : c \in DOMAIN callbackStablePtrs' => c \in DOMAIN callbackStablePtrs
  BY <1>1, <1>2, <1>3 DEF Put
<1>5. \A sp \in DOMAIN spt' : spt'[sp] \in Fns
  <2>1. newStablePtr(f)
    BY DEF newHaskellCallback
  <2> QED  BY <2>1 DEF newStablePtr, Put, ValuesInv, JSValsType
<1>6. /\ running' \in [1..MaxCallbacks -> Int]
      /\ \A c \in 1..MaxCallbacks : running'[c] > 0 => c \in DOMAIN callbacks'
  BY <1>2, <1>3 DEF ValuesInv, JSValsType
<1>7. /\ cb \in Plain \cup DOMAIN callbacks' /\ DOMAIN callbacks \subseteq DOMAIN callbacks'
      /\ DOMAIN callbacks' \subseteq 1..MaxCallbacks
      /\ \A c \in DOMAIN callbacks' \ DOMAIN callbacks : c = cb
  BY <1>1, <1>3, CallbacksAssumption DEF newHaskellCallback
<1> QED  BY <1>2, <1>3, <1>4, <1>5, <1>6, <1>7, NewValueKept

LEMMA NextValues ==
  ASSUME ValuesInv, [CallbacksNext]_callbacksVars
  PROVE  ValuesInv'
<1> DEFINE P == JSValsType' /\ HistoryKept' /\ LiveKept' /\ OneshotsKnown'
<1> SUFFICES P
  BY NextTables DEF ValuesInv
<1>1. ASSUME NEW a \in Addresses, NEW v \in Values, NewJSVal(a, v) PROVE P
  BY <1>1, NewJSValKeepsValues
<1>2. ASSUME NEW a \in DOMAIN refs, DropJSVal(a) PROVE P
  <2>1. /\ UNCHANGED <<used, closure2Val, spt, callbacks, callbackStablePtrs, running, lost, collections>>
        /\ DOMAIN refs' \subseteq DOMAIN refs /\ \A b \in DOMAIN refs' : refs'[b] = refs[b]
    BY <1>2 DEF DropJSVal, Without, Restrict
  <2> QED  BY <2>1 DEF ValuesInv, JSValsType, HistoryKept, LiveKept, OneshotsKnown, Unmoved
<1>3. ASSUME NEW a \in DOMAIN refs, FreeJSVal(a) PROVE P
  BY <1>3, FreeJSValKeepsValues
<1>4. ASSUME NEW a \in DOMAIN refs, FreeHaskellCallback(a) PROVE P
  BY <1>4, FreeCallbackKeepsValues
<1>5. ASSUME NEW f \in Fns, NewStablePtr(f) PROVE P
  <2>1. \A sp \in DOMAIN spt' : spt'[sp] \in Fns
    BY <1>5 DEF NewStablePtr, newStablePtr, Put, ValuesInv, JSValsType
  <2> QED  BY <1>5, <2>1, SameValues DEF NewStablePtr
<1>6. ASSUME NEW sp \in DOMAIN own, FreeStablePtr(sp) PROVE P
  <2>1. \A q \in DOMAIN spt' : spt'[q] \in Fns
    BY <1>6 DEF FreeStablePtr, Without, Restrict, ValuesInv, JSValsType
  <2> QED  BY <1>6, <2>1, SameValues DEF FreeStablePtr
<1>7. ASSUME NEW a \in Addresses, NEW f \in Fns, NEW oneshot \in OneShots,
             newHaskellCallback(a, f, oneshot)
      PROVE  P
  BY <1>7, NewCallbackKeepsValues, CallbacksAssumption
<1>8. ASSUME NEW cb \in 1..MaxCallbacks, NEW a \in Addresses, NEW v \in Values, Invoke(cb, a, v) PROVE P
  BY <1>8, InvokeKeepsValues
<1>9. ASSUME NEW cb \in 1..MaxCallbacks, InvokeShort(cb) PROVE P
  <2>1. /\ cb \in DOMAIN callbacks /\ finalizer(cb, TRUE) /\ RefsFinalized(cb)
        /\ LostFinalized(cb) /\ UNCHANGED <<used, callbacks, running, collections>>
    BY <1>9, RegisteredExist DEF InvokeShort
  <2> QED  BY <2>1, FinalizerKeepsValues DEF ValuesInv, JSValsType
<1>10. ASSUME NEW cb \in 1..MaxCallbacks, FinishCall(cb) PROVE P
  <2>1. /\ cb \in DOMAIN callbacks /\ finalizer(cb, FALSE) /\ RefsFinalized(cb)
        /\ LostFinalized(cb) /\ UNCHANGED <<used, callbacks, collections>>
    BY <1>10 DEF FinishCall, ValuesInv, JSValsType
  <2>2. /\ running' \in [1..MaxCallbacks -> Int]
        /\ \A c \in 1..MaxCallbacks : running'[c] > 0 => c \in DOMAIN callbacks'
    BY <1>10 DEF FinishCall, ValuesInv, JSValsType
  <2> QED  BY <2>1, <2>2, FinalizerKeepsValues
<1>11. CASE performGC
  BY <1>11, CollectionKeepsValues
<1>12. CASE UNCHANGED callbacksVars
  BY <1>12, SameValues DEF callbacksVars, ValuesInv, JSValsType, jsvals
<1> QED
  BY <1>1, <1>2, <1>3, <1>4, <1>5, <1>6, <1>7, <1>8, <1>9, <1>10, <1>11, <1>12 DEF CallbacksNext

LEMMA ValuesInvariant == CallbacksSpec => []ValuesInv
BY InitValues, NextValues, PTL DEF CallbacksSpec

\* newJSValzh, freeJSVal, the finalizer of a callback and the collection's table of
\* JSVals: whatever collections have moved, a JSVal that has not been freed stands for
\* the value it was made for and the tables know only what there is; only a oneshot
\* callback that was made before a collection can free a JSVal in place of its own.
THEOREM ValuesAreKept == CallbacksSpec => []TablesSound
<1>1. ValuesInv => TablesSound
  <2> SUFFICES ASSUME ValuesInv PROVE TablesSound
    OBVIOUS
  <2> QED
    BY RegisteredExist, StrayFree
       DEF ValuesInv, JSValsType, TablesInv, TablesType, TablesSound, CallbacksTypeOK, Range
<1> QED  BY <1>1, ValuesInvariant, PTL

\* freeHaskellCallback: nobody but its owner frees a callback, whatever the address
\* that it is freed through stands for, but a oneshot callback that was made before a
\* collection and finds a JSVal for the other callback at the address it keeps.
THEOREM CallbacksFreedByTheirOwn == CallbacksSpec => [][FreedByItsOwn]_callbacksVars
<1>1. ASSUME ValuesInv, CallbacksNext PROVE FreedByItsOwn
  <2> SUFFICES ASSUME NEW cb \in DOMAIN callbackStablePtrs, cb \notin DOMAIN callbackStablePtrs'
               PROVE  \/ callbacks[cb].oneshot /\ Called(cb)
                      \/ /\ ~callbacks[cb].oneshot
                         /\ \E a \in DOMAIN refs : refs[a].val = cb /\ FreeHaskellCallback(a)
                      \/ \E other \in DOMAIN callbacks :
                           /\ Strays(other) /\ callbacks[other].made < collections /\ Called(other)
                           /\ closure2Val[callbacks[other].sn] = cb
    BY DEF FreedByItsOwn
  <2>1. ASSUME NEW a \in DOMAIN refs, FreeHaskellCallback(a)
        PROVE  refs[a].val = cb /\ ~callbacks[cb].oneshot
    <3>1. a \notin lost
      BY <1>1, <2>1 DEF FreeHaskellCallback, ValuesInv, HistoryKept
    <3>2. closure2Val[a] = refs[a].val /\ ~callbacks[refs[a].val].oneshot
      BY <1>1, <2>1, <3>1 DEF FreeHaskellCallback, ValuesInv, LiveKept
    <3>3. DOMAIN callbackStablePtrs' = DOMAIN callbackStablePtrs \ {closure2Val[a]}
      BY <1>1, <2>1, FreeTakesAway DEF FreeHaskellCallback
    <3> QED  BY <3>2, <3>3
  <2>2. ASSUME NEW c \in 1..MaxCallbacks, Called(c)
        PROVE  /\ c \in DOMAIN callbacks /\ callbacks[c].oneshot
               /\ c = cb \/ (Strays(c) /\ closure2Val[callbacks[c].sn] = cb)
    <3>1. PICK short \in BOOLEAN : finalizer(c, short) /\ RefsFinalized(c) /\ LostFinalized(c)
      BY <2>2 DEF Called, InvokeShort, FinishCall
    <3>2. c \in DOMAIN callbacks
      BY <1>1, <2>2, RegisteredExist DEF Called, InvokeShort, FinishCall, ValuesInv, JSValsType
    <3>3. /\ callbacks[c].oneshot /\ callbacks[c].sn \in DOMAIN closure2Val
          /\ DOMAIN callbackStablePtrs' =
               DOMAIN callbackStablePtrs \ {closure2Val[callbacks[c].sn]}
      BY <1>1, <3>1, <3>2, FinalizerFrees
    <3> QED  BY <3>2, <3>3 DEF Strays
  <2>3. ASSUME NEW a \in Addresses, NEW f \in Fns, NEW oneshot \in OneShots,
               newHaskellCallback(a, f, oneshot)
        PROVE  FALSE
    BY <2>3 DEF newHaskellCallback, Put
  <2>4. callbackStablePtrs' # callbackStablePtrs
    OBVIOUS
  <2>5. CASE \E c \in 1..MaxCallbacks : Called(c)
    BY <1>1, <2>2, <2>5, StraysAreOld
  <2>6. CASE \E a \in DOMAIN refs : FreeHaskellCallback(a)
    BY <2>1, <2>6
  <2>7. CASE ~(\E c \in 1..MaxCallbacks : Called(c)) /\ ~(\E a \in DOMAIN refs : FreeHaskellCallback(a))
    BY <1>1, <2>3, <2>4, <2>7
       DEF CallbacksNext, Called, NewJSVal, DropJSVal, FreeJSVal, NewStablePtr, FreeStablePtr,
           Invoke, performGC
  <2> QED  BY <2>5, <2>6, <2>7
<1> QED  BY <1>1, ValuesInvariant, PTL DEF CallbacksSpec

\* The finalizer of a oneshot callback: when a call of it ends, or is made with too
\* few arguments, the callback is not registered any more, unless a collection has
\* come since it was made.
THEOREM OneshotsAreFreed == CallbacksSpec => [][OneshotFreed]_callbacksVars
<1>1. ASSUME ValuesInv, CallbacksNext PROVE OneshotFreed
  <2> SUFFICES ASSUME NEW cb \in DOMAIN callbacks, Unmoved(cb),
                      running'[cb] < running[cb] \/ InvokeShort(cb)
               PROVE  cb \notin DOMAIN callbackStablePtrs'
    BY DEF OneshotFreed, Unmoved
  <2>1. CASE FinishCall(cb) \/ InvokeShort(cb)
    <3>1. PICK short \in BOOLEAN : finalizer(cb, short) /\ RefsFinalized(cb) /\ LostFinalized(cb)
      BY <2>1 DEF InvokeShort, FinishCall
    <3>2. /\ callbacks[cb].oneshot
          /\ cb \in DOMAIN callbackStablePtrs => callbacks[cb].sn \in DOMAIN closure2Val
          /\ callbacks[cb].sn \in DOMAIN closure2Val => closure2Val[callbacks[cb].sn] = cb
      BY <1>1 DEF ValuesInv, OneshotsKnown, Unmoved
    <3> QED  BY <1>1, <3>1, <3>2, FinalizerFrees
  <2>2. CASE running'[cb] < running[cb]
    <3>1. ASSUME NEW c \in 1..MaxCallbacks, FinishCall(c) PROVE c = cb
      BY <1>1, <2>2, <3>1 DEF FinishCall, ValuesInv, JSValsType
    <3>2. ASSUME NEW c \in 1..MaxCallbacks, NEW a \in Addresses, NEW v \in Values, Invoke(c, a, v)
          PROVE  FALSE
      <4>1. cb \in 1..MaxCallbacks /\ running \in [1..MaxCallbacks -> Int]
        BY <1>1 DEF ValuesInv, JSValsType
      <4>2. running' = [running EXCEPT ![c] = @ + 1]
        BY <3>2 DEF Invoke
      <4>3. PICK n \in Int : n = running[cb]
        BY <4>1
      <4>4. running'[cb] = n + 1 \/ running'[cb] = n
        BY <4>1, <4>2, <4>3
      <4> QED  BY <2>2, <4>3, <4>4
    <3>3. CASE running' = running
      <4>1. PICK n \in Int : n = running[cb]
        BY <1>1 DEF ValuesInv, JSValsType
      <4> QED  BY <2>2, <3>3, <4>1
    <3> QED
      BY <1>1, <2>1, <3>1, <3>2, <3>3
         DEF CallbacksNext, NewJSVal, DropJSVal, FreeJSVal, FreeHaskellCallback, NewStablePtr,
             FreeStablePtr, newHaskellCallback, InvokeShort, performGC
  <2> QED  BY <2>1, <2>2
<1> QED  BY <1>1, ValuesInvariant, PTL DEF CallbacksSpec
-----------------------------------------------------------------------------
(* The allocator. *)

\* What LayoutAssumption says of the sizes.
LEMMA LayoutSizes ==
  /\ MBLOCK_SIZE \in Nat \ {0} /\ BLOCK_SIZE \in Nat \ {0} /\ FIRST_BLOCK_OFF \in Nat \ {0}
  /\ FIRST_BLOCK_OFF < MBLOCK_SIZE /\ BLOCK_SIZE <= MBLOCK_SIZE - FIRST_BLOCK_OFF
  /\ \E n \in Nat : MBLOCK_SIZE = n * BLOCK_SIZE
  /\ \E n \in Nat : FIRST_BLOCK_OFF = n * BLOCK_SIZE
<1>1. BLOCK_SIZE \in Nat /\ BLOCK_SIZE > 0
  BY LayoutAssumption
<1>2. MBLOCK_SIZE \in Int
  BY LayoutAssumption
<1>3. PICK n \in 1 .. MBLOCK_SIZE : MBLOCK_SIZE = n * BLOCK_SIZE
  BY LayoutAssumption
<1>4. PICK k \in 1 .. MBLOCK_SIZE : FIRST_BLOCK_OFF = k * BLOCK_SIZE /\ FIRST_BLOCK_OFF < MBLOCK_SIZE
  BY LayoutAssumption
<1>5. n \in Nat /\ n >= 1 /\ k \in Nat /\ k >= 1
  BY <1>2
<1>6. k * BLOCK_SIZE < n * BLOCK_SIZE => k + 1 <= n
  BY <1>1, <1>5
<1>7. k + 1 <= n => (k + 1) * BLOCK_SIZE <= n * BLOCK_SIZE
  BY <1>1, <1>5
<1>8. (k + 1) * BLOCK_SIZE = k * BLOCK_SIZE + BLOCK_SIZE
  BY <1>1, <1>5
<1>9. k * BLOCK_SIZE >= BLOCK_SIZE
  BY <1>1, <1>5
<1> QED  BY <1>1, <1>2, <1>3, <1>4, <1>5, <1>6, <1>7, <1>8, <1>9

LEMMA DivOfProduct ==
  ASSUME NEW q \in Int, NEW d \in Nat \ {0}
  PROVE  (q * d) \div d = q
OBVIOUS

LEMMA DivBounds ==
  ASSUME NEW a \in Int, NEW d \in Nat \ {0}
  PROVE  /\ a \div d \in Int /\ (a \div d) * d <= a /\ a < (a \div d) * d + d
         /\ a % d \in 0 .. d - 1 /\ a - (a % d) = (a \div d) * d
OBVIOUS

LEMMA Multiples ==
  ASSUME NEW a \in Int, NEW b \in Int, NEW d \in Nat \ {0}
  PROVE  /\ a <= b <=> a * d <= b * d
         /\ a < b <=> a * d < b * d
         /\ a < b => a * d + d <= b * d
OBVIOUS
\* The blocks of a group of k megablocks fill them.
LEMMA BlocksFill ==
  ASSUME NEW k \in Nat \ {0}
  PROVE  LET blocks == (MBLOCK_SIZE * k - FIRST_BLOCK_OFF) \div BLOCK_SIZE
         IN  blocks \in Nat /\ BLOCK_SIZE * blocks = k * MBLOCK_SIZE - FIRST_BLOCK_OFF
<1>1. PICK n \in Nat : MBLOCK_SIZE = n * BLOCK_SIZE
  BY LayoutSizes
<1>2. PICK j \in Nat : FIRST_BLOCK_OFF = j * BLOCK_SIZE
  BY LayoutSizes
<1>3. PICK d : d = BLOCK_SIZE
  OBVIOUS
<1>4. PICK m : m = MBLOCK_SIZE
  OBVIOUS
<1>5. d \in Nat \ {0} /\ m \in Nat \ {0} /\ j * d < m
  BY <1>2, <1>3, <1>4, LayoutSizes
<1>6. m * k - j * d = (n * k - j) * d
  BY <1>1, <1>3, <1>4, <1>5
<1>7. (m * k - j * d) \div d = n * k - j
  BY <1>5, <1>6, DivOfProduct
<1>8. m <= m * k
  BY <1>5
<1>9. n * k - j \in Int /\ (n * k - j) * d > 0
  BY <1>5, <1>6, <1>8
<1>10. n * k - j > 0
  BY <1>5, <1>9
<1> QED  BY <1>2, <1>3, <1>4, <1>5, <1>6, <1>7, <1>9, <1>10

\* hpAlloc takes megablocks enough for the bytes and the descriptors.
LEMMA MblocksSufficeForBytes ==
  ASSUME NEW b \in Nat
  PROVE  mblocksFor(b) \in Nat \ {0} /\ FIRST_BLOCK_OFF + b <= mblocksFor(b) * MBLOCK_SIZE
<1>1. PICK m \in Nat \ {0}, f \in Nat : m = MBLOCK_SIZE /\ f = FIRST_BLOCK_OFF /\ f < m
  BY LayoutSizes
<1>2. CASE b <= sizeof_first_mblock
  BY <1>1, <1>2 DEF sizeof_first_mblock, mblocksFor
<1>3. CASE ~(b <= sizeof_first_mblock)
  <2>1. PICK q : q = (b - (m - f) + m - 1) \div m
    OBVIOUS
  <2>2. mblocksFor(b) = 1 + q
    BY <1>1, <1>3, <2>1 DEF sizeof_first_mblock, mblocksFor
  <2>3. q \in Int /\ b - (m - f) + m - 1 < q * m + m
    BY <1>1, <2>1, DivBounds
  <2>4. b - (m - f) >= 1
    BY <1>1, <1>3 DEF sizeof_first_mblock
  <2>5. q * m > 0
    BY <1>1, <2>3, <2>4
  <2>6. q > 0
    BY <1>1, <2>3, <2>5
  <2>7. (1 + q) * m = m + q * m
    BY <1>1, <2>3
  <2> QED  BY <1>1, <2>2, <2>3, <2>6, <2>7
<1> QED  BY <1>2, <1>3

\* bdescr finds the megablock of an address.
LEMMA DescriptorOf ==
  ASSUME NEW a \in Nat
  PROVE  /\ bdescr(a) \in Nat
         /\ bdescr(a) * MBLOCK_SIZE <= a /\ a < (bdescr(a) + 1) * MBLOCK_SIZE
<1>1. PICK m \in Nat \ {0} : m = MBLOCK_SIZE
  BY LayoutSizes
<1>2. PICK d \in 0 .. m - 1 : d = FIRST_BDESCR(0)
  BY <1>1, LayoutAssumption
<1>q. PICK q : q = a \div m
  OBVIOUS
<1>3. q \in Int /\ q * m <= a /\ a < q * m + m /\ a - (a % m) = q * m
  <2>1. a \in Int /\ m \in Nat \ {0}
    BY <1>1
  <2> QED  BY <1>q, <2>1
<1>4. Bdescr(a) = q * m + d
  BY <1>1, <1>2, <1>3 DEF Bdescr, RoundDown
<1>r. PICK r : r = bdescr(a)
  OBVIOUS
<1>5. r \in Int /\ r * m <= q * m + d /\ q * m + d < r * m + m
  <2>1. q * m + d \in Int /\ bdescr(a) = (q * m + d) \div m
    BY <1>1, <1>2, <1>3, <1>4 DEF bdescr
  <2> QED  BY <1>1, <1>r, <2>1, DivBounds
<1>6. r * m < q * m + m /\ q * m < r * m + m
  <2>1. PICK u \in Int, v \in Int : u = q * m /\ v = r * m
    BY <1>1, <1>3, <1>5
  <2>2. v <= u + d /\ u + d < v + m /\ 0 <= d /\ d < m
    BY <1>1, <1>2, <1>5, <2>1
  <2>3. v < u + m /\ u < v + m
    BY <1>1, <2>1, <2>2
  <2> QED  BY <2>1, <2>3
<1>7. q * m + m = (q + 1) * m /\ r * m + m = (r + 1) * m
  BY <1>1, <1>3, <1>5
<1>8. r < q + 1 /\ q < r + 1
  BY <1>1, <1>3, <1>5, <1>6, <1>7, Multiples
<1>9. r = q
  BY <1>3, <1>5, <1>8
<1>10. q + 1 > 0
  <2>1. 0 < (q + 1) * m
    BY <1>1, <1>3, <1>7
  <2> QED  BY <1>1, <1>3, <2>1
<1> QED  BY <1>1, <1>3, <1>r, <1>7, <1>9, <1>10
-----------------------------------------------------------------------------
GroupRecord == [free : Nat, node : Nat, blocks : Nat, pinned : BOOLEAN, gen_no : {0, 1}]

IsAllocator(h) ==
  h = [mblocks |-> h.mblocks, mgroups |-> h.mgroups, unpinnedPool |-> h.unpinnedPool,
       pinnedPool |-> h.pinnedPool, generations |-> h.generations]

\* The group m lies in the memory it has, its data behind its descriptors.
GoodGroup(h, m) ==
  /\ m \in Nat \ {0} /\ h.mgroups[m] \in GroupRecord /\ h.mblocks[m] \in Nat \ {0}
  /\ current_limit(h, m) = (m + h.mblocks[m]) * MBLOCK_SIZE
  /\ m * MBLOCK_SIZE + FIRST_BLOCK_OFF <= h.mgroups[m].free
  /\ h.mgroups[m].free <= (m + h.mblocks[m]) * MBLOCK_SIZE

\* The allocator has memory for its groups and for nothing else, and no two groups
\* share a megablock.
GoodGroups(h) ==
  /\ IsAllocator(h) /\ DOMAIN h.mblocks = DOMAIN h.mgroups
  /\ \A m \in DOMAIN h.mgroups : GoodGroup(h, m)
  /\ \A m, n \in DOMAIN h.mgroups : m # n => m + h.mblocks[m] <= n \/ n + h.mblocks[n] <= m

\* What h2 keeps of the groups of h, whose data may have grown.
Grown(h, h2) ==
  /\ DOMAIN h.mgroups \subseteq DOMAIN h2.mgroups
  /\ \A m \in DOMAIN h.mgroups :
       /\ h2.mblocks[m] = h.mblocks[m] /\ h2.mgroups[m].pinned = h.mgroups[m].pinned
       /\ h2.mgroups[m].gen_no = h.mgroups[m].gen_no
       /\ h.mgroups[m].free <= h2.mgroups[m].free

\* aligned_alloc finds room.
LEMMA RoomFound ==
  ASSUME NEW h, GoodGroups(h), NEW k \in Nat \ {0}, NEW m \in FreeRuns(h.mblocks, k)
  PROVE  /\ m \in Nat \ {0} /\ m \notin InUse(h.mblocks) /\ m \notin DOMAIN h.mgroups
         /\ \A n \in DOMAIN h.mgroups : m + k <= n \/ n + h.mblocks[n] <= m
<1>1. /\ m \in Nat \ {0}
      /\ InUse(h.mblocks) \cap (m .. m + k - 1) = {}
  BY HeapAssumption DEF FreeRuns
<1>2. \A n \in DOMAIN h.mgroups : (n .. n + h.mblocks[n] - 1) \cap (m .. m + k - 1) = {}
  BY <1>1 DEF InUse, GoodGroups
<1>3. ASSUME NEW n \in DOMAIN h.mgroups PROVE m + k <= n \/ n + h.mblocks[n] <= m
  <2>1. PICK j \in Nat \ {0} : j = h.mblocks[n] /\ n \in Nat
    BY DEF GoodGroups, GoodGroup
  <2>2. ~(n \in m .. m + k - 1)
    BY <1>2, <2>1
  <2>3. ~(m \in n .. n + j - 1)
    BY <1>1, <1>2, <2>1
  <2> QED  BY <1>1, <2>1, <2>2, <2>3
<1>4. m \in m .. m + k - 1
  BY <1>1
<1>5. m \notin DOMAIN h.mgroups
  <2>1. ASSUME m \in DOMAIN h.mgroups PROVE FALSE
    <3>1. h.mblocks[m] \in Nat \ {0}
      BY <2>1 DEF GoodGroups, GoodGroup
    <3> QED  BY <1>1, <1>3, <2>1, <3>1
  <2> QED  BY <2>1
<1> QED  BY <1>1, <1>3, <1>4, <1>5

\* hpAlloc and setGenerationNo make a group of k megablocks.
LEMMA GroupMade ==
  ASSUME NEW h, GoodGroups(h), NEW k \in Nat \ {0}, NEW m \in FreeRuns(h.mblocks, k),
         NEW pinned \in BOOLEAN, NEW g \in {0, 1}, NEW h2, h2 = allocMegaGroup(h, m, k, pinned, g)
  PROVE  /\ GoodGroups(h2) /\ Grown(h, h2)
         /\ m \notin DOMAIN h.mgroups /\ m \notin InUse(h.mblocks)
         /\ DOMAIN h2.mgroups = DOMAIN h.mgroups \cup {m}
         /\ \A n \in DOMAIN h.mgroups : h2.mgroups[n] = h.mgroups[n]
         /\ h2.mblocks[m] = k /\ h2.mgroups[m].pinned = pinned /\ h2.mgroups[m].gen_no = g
         /\ h2.mgroups[m].free = m * MBLOCK_SIZE + FIRST_BLOCK_OFF
         /\ h2.unpinnedPool = h.unpinnedPool /\ h2.pinnedPool = h.pinnedPool
         /\ h2.generations = h.generations
<1>1. /\ m \in Nat \ {0} /\ m \notin InUse(h.mblocks) /\ m \notin DOMAIN h.mgroups
      /\ \A n \in DOMAIN h.mgroups : m + k <= n \/ n + h.mblocks[n] <= m
  BY RoomFound
<1> DEFINE blocks == (MBLOCK_SIZE * k - FIRST_BLOCK_OFF) \div BLOCK_SIZE
           r == [free |-> FIRST_BLOCK(m * MBLOCK_SIZE), node |-> k, blocks |-> blocks,
                 pinned |-> pinned, gen_no |-> g]
<1>2. h2 = [mblocks |-> Added(h.mblocks, m, k), mgroups |-> Added(h.mgroups, m, r),
            unpinnedPool |-> h.unpinnedPool, pinnedPool |-> h.pinnedPool, generations |-> h.generations]
  BY DEF allocMegaGroup, GoodGroups, IsAllocator
<1>3. blocks \in Nat /\ BLOCK_SIZE * blocks = k * MBLOCK_SIZE - FIRST_BLOCK_OFF
  BY BlocksFill
<1>4. PICK p \in Nat \ {0}, f \in Nat \ {0} : p = MBLOCK_SIZE /\ f = FIRST_BLOCK_OFF /\ f < p
  BY LayoutSizes
<1>5. /\ DOMAIN h2.mgroups = DOMAIN h.mgroups \cup {m} /\ DOMAIN h2.mblocks = DOMAIN h.mblocks \cup {m}
      /\ \A n \in DOMAIN h.mgroups : h2.mgroups[n] = h.mgroups[n]
      /\ \A n \in DOMAIN h.mblocks : n # m => h2.mblocks[n] = h.mblocks[n]
      /\ h2.mblocks[m] = k /\ h2.mgroups[m] = r
  <2> HIDE DEF r
  <2> QED  BY <1>1, <1>2 DEF Added
<1>6. FIRST_BLOCK(m * MBLOCK_SIZE) = m * p + f
  BY <1>1, <1>4 DEF FIRST_BLOCK
<1>7. r.free = m * p + f /\ r \in GroupRecord /\ r.pinned = pinned /\ r.gen_no = g /\ r.blocks = blocks
  BY <1>1, <1>3, <1>4, <1>6 DEF GroupRecord
<1>8. IsAllocator(h2)
  <2> HIDE DEF r
  <2> QED  BY <1>2 DEF IsAllocator
<1>9. GoodGroup(h2, m)
  <2>1. current_limit(h2, m) = m * p + f + BLOCK_SIZE * blocks
    BY <1>5, <1>6, <1>7 DEF current_limit
  <2>2. current_limit(h2, m) = m * p + k * p
    <3>1. m * p \in Int /\ k * p \in Int
      BY <1>1, <1>4
    <3> HIDE DEF blocks
    <3> QED  BY <1>3, <1>4, <2>1, <3>1
  <2>3. m * p + k * p = (m + k) * p /\ p <= k * p
    BY <1>1, <1>4
  <2>4. m * p + f <= (m + k) * p
    BY <1>1, <1>4, <2>3
  <2> HIDE DEF r, blocks
  <2> QED  BY <1>1, <1>4, <1>5, <1>7, <2>2, <2>3, <2>4 DEF GoodGroup
<1>10. ASSUME NEW n \in DOMAIN h.mgroups PROVE GoodGroup(h2, n)
  <2>1. n # m /\ h2.mgroups[n] = h.mgroups[n] /\ h2.mblocks[n] = h.mblocks[n]
    BY <1>1, <1>5 DEF GoodGroups
  <2> QED  BY <2>1 DEF GoodGroups, GoodGroup, current_limit
<1>11. \A n1, n2 \in DOMAIN h2.mgroups : n1 # n2 => n1 + h2.mblocks[n1] <= n2 \/ n2 + h2.mblocks[n2] <= n1
  BY <1>1, <1>5 DEF GoodGroups
<1>12. GoodGroups(h2)
  BY <1>5, <1>8, <1>9, <1>10, <1>11 DEF GoodGroups
<1>13. Grown(h, h2)
  <2>1. \A n \in DOMAIN h.mgroups : h.mgroups[n].free \in Nat /\ n # m /\ n \in DOMAIN h.mblocks
    BY <1>1 DEF GoodGroups, GoodGroup, GroupRecord
  <2> QED  BY <1>5, <2>1 DEF Grown
<1> HIDE DEF r
<1> QED  BY <1>1, <1>2, <1>4, <1>5, <1>7, <1>12, <1>13

\* Bytes that fit are put behind the data of a group.
LEMMA Bumped ==
  ASSUME NEW h, GoodGroups(h), NEW m \in DOMAIN h.mgroups, NEW b \in Nat, Fits(h, m, b),
         NEW h2, h2 = Bump(h, m, b)
  PROVE  /\ GoodGroups(h2) /\ Grown(h, h2)
         /\ h2.mblocks = h.mblocks /\ DOMAIN h2.mgroups = DOMAIN h.mgroups
         /\ h2.mgroups[m].free = h.mgroups[m].free + b
         /\ h2.unpinnedPool = h.unpinnedPool /\ h2.pinnedPool = h.pinnedPool
         /\ h2.generations = h.generations
<1> DEFINE r == [h.mgroups[m] EXCEPT !.free = @ + b]
<1>1. h2 = [mblocks |-> h.mblocks, mgroups |-> [h.mgroups EXCEPT ![m] = r],
            unpinnedPool |-> h.unpinnedPool, pinnedPool |-> h.pinnedPool, generations |-> h.generations]
  <2>1. h2 = [h EXCEPT !.mgroups = [h.mgroups EXCEPT ![m] = r]]
    BY DEF Bump
  <2> HIDE DEF r
  <2> QED  BY <2>1 DEF GoodGroups, IsAllocator
<1>2. h.mgroups[m] \in GroupRecord
  BY DEF GoodGroups, GoodGroup
<1>3. /\ r \in GroupRecord /\ r.free = h.mgroups[m].free + b /\ r.blocks = h.mgroups[m].blocks
      /\ r.pinned = h.mgroups[m].pinned /\ r.gen_no = h.mgroups[m].gen_no
  BY <1>2 DEF GroupRecord
<1>4. /\ DOMAIN h2.mgroups = DOMAIN h.mgroups /\ h2.mblocks = h.mblocks /\ h2.mgroups[m] = r
      /\ \A n \in DOMAIN h.mgroups : n # m => h2.mgroups[n] = h.mgroups[n]
      /\ h2.unpinnedPool = h.unpinnedPool /\ h2.pinnedPool = h.pinnedPool /\ h2.generations = h.generations
  <2> HIDE DEF r
  <2> QED  BY <1>1
<1>5. IsAllocator(h2)
  <2> HIDE DEF r
  <2> QED  BY <1>1 DEF IsAllocator
<1>6. GoodGroup(h2, m)
  <2>1. GoodGroup(h, m)
    BY DEF GoodGroups
  <2>2. current_limit(h2, m) = current_limit(h, m)
    BY <1>3, <1>4 DEF current_limit
  <2>3. r.free <= current_limit(h, m)
    BY <1>3 DEF Fits
  <2>4. PICK a \in Int : a = m * MBLOCK_SIZE + FIRST_BLOCK_OFF
    BY <2>1, LayoutSizes DEF GoodGroup
  <2>5. a <= h.mgroups[m].free /\ h.mgroups[m].free \in Nat
    BY <2>1, <2>4 DEF GoodGroup, GroupRecord
  <2>6. a <= r.free
    BY <1>3, <2>4, <2>5
  <2> HIDE DEF r
  <2> QED  BY <1>3, <1>4, <2>1, <2>2, <2>3, <2>4, <2>6 DEF GoodGroup
<1>7. ASSUME NEW n \in DOMAIN h.mgroups, n # m PROVE GoodGroup(h2, n)
  <2>1. GoodGroup(h, n) /\ h2.mgroups[n] = h.mgroups[n]
    BY <1>4, <1>7 DEF GoodGroups
  <2> QED  BY <1>4, <2>1 DEF GoodGroup, current_limit
<1>8. GoodGroups(h2)
  BY <1>4, <1>5, <1>6, <1>7 DEF GoodGroups
<1>9. Grown(h, h2)
  <2>1. \A n \in DOMAIN h.mgroups : h.mgroups[n].free \in Nat
    BY DEF GoodGroups, GoodGroup, GroupRecord
  <2> HIDE DEF r
  <2> QED  BY <1>3, <1>4, <2>1 DEF Grown
<1> HIDE DEF r
<1> QED  BY <1>3, <1>4, <1>8, <1>9

\* Another group becomes a pool.
LEMMA PoolSet ==
  ASSUME NEW h, GoodGroups(h), DOMAIN h.generations = {0, 1},
         NEW m, NEW pinned \in BOOLEAN, NEW g \in {0, 1}, NEW h2, h2 = SetPool(h, m, pinned, g)
  PROVE  /\ GoodGroups(h2) /\ h2.mblocks = h.mblocks /\ h2.mgroups = h.mgroups
         /\ DOMAIN h2.generations = {0, 1}
         /\ pinned => /\ h2.pinnedPool = m /\ h2.unpinnedPool = h.unpinnedPool
                       /\ h2.generations = h.generations
         /\ ~pinned => /\ h2.unpinnedPool = m /\ h2.pinnedPool = h.pinnedPool
                        /\ h2.generations[g] = m
<1>1. IsAllocator(h)
  BY DEF GoodGroups
<1>2. /\ IsAllocator(h2) /\ h2.mblocks = h.mblocks /\ h2.mgroups = h.mgroups
      /\ DOMAIN h2.generations = {0, 1}
      /\ pinned => /\ h2.pinnedPool = m /\ h2.unpinnedPool = h.unpinnedPool
                    /\ h2.generations = h.generations
      /\ ~pinned => /\ h2.unpinnedPool = m /\ h2.pinnedPool = h.pinnedPool
                     /\ h2.generations[g] = m
  <2>1. CASE pinned
    <3>1. h2 = [mblocks |-> h.mblocks, mgroups |-> h.mgroups, unpinnedPool |-> h.unpinnedPool,
                pinnedPool |-> m, generations |-> h.generations]
      BY <1>1, <2>1 DEF SetPool, IsAllocator
    <3>2. /\ h2.mblocks = h.mblocks /\ h2.mgroups = h.mgroups /\ h2.unpinnedPool = h.unpinnedPool
          /\ h2.pinnedPool = m /\ h2.generations = h.generations
      BY <3>1
    <3>3. IsAllocator(h2)
      BY <3>1 DEF IsAllocator
    <3> QED  BY <2>1, <3>2, <3>3
  <2>2. CASE ~pinned
    <3>1. h2 = [mblocks |-> h.mblocks, mgroups |-> h.mgroups, unpinnedPool |-> m,
                pinnedPool |-> h.pinnedPool, generations |-> [h.generations EXCEPT ![g] = m]]
      BY <1>1, <2>2 DEF SetPool, IsAllocator
    <3> QED  BY <2>2, <3>1 DEF IsAllocator
  <2> QED  BY <2>1, <2>2
<1>3. GoodGroups(h2)
  BY <1>2 DEF GoodGroups, GoodGroup, current_limit
<1> QED  BY <1>2, <1>3

LEMMA GrownTransitive ==
  ASSUME NEW h, GoodGroups(h), NEW h1, GoodGroups(h1), NEW h2, GoodGroups(h2), Grown(h, h1), Grown(h1, h2)
  PROVE  Grown(h, h2)
<1>1. \A n \in DOMAIN h.mgroups : h.mgroups[n].free \in Nat
  BY DEF GoodGroups, GoodGroup, GroupRecord
<1>2. \A n \in DOMAIN h1.mgroups : h1.mgroups[n].free \in Nat
  BY DEF GoodGroups, GoodGroup, GroupRecord
<1>3. \A n \in DOMAIN h2.mgroups : h2.mgroups[n].free \in Nat
  BY DEF GoodGroups, GoodGroup, GroupRecord
<1> QED  BY <1>1, <1>2, <1>3 DEF Grown

\* The pools are groups of the right kind, and the unpinned pool is the newest group of
\* the generation.
GoodPools(h, gen_no) ==
  /\ DOMAIN h.generations = {0, 1}
  /\ h.unpinnedPool \in DOMAIN h.mgroups /\ ~h.mgroups[h.unpinnedPool].pinned
  /\ h.pinnedPool \in DOMAIN h.mgroups /\ h.mgroups[h.pinnedPool].pinned
  /\ h.mgroups[h.unpinnedPool].gen_no = gen_no
  /\ h.generations[gen_no] = h.unpinnedPool

\* An object lies in the data of a group.
Lies(h, x, m) ==
  /\ m \in DOMAIN h.mgroups
  /\ m * MBLOCK_SIZE + FIRST_BLOCK_OFF <= x.addr /\ x.addr + x.size <= h.mgroups[m].free

\* allocate answers bytes that nothing lies in, in one of its pools or in a new group.
LEMMA Allocated ==
  ASSUME NEW h, GoodGroups(h), NEW g \in {0, 1}, GoodPools(h, g), NEW b \in Nat,
         NEW askPinned \in BOOLEAN, NEW r \in allocate(h, b, askPinned)
  PROVE  /\ GoodGroups(r.h) /\ Grown(h, r.h) /\ GoodPools(r.h, g) /\ r.addr \in Nat
         /\ \E m \in DOMAIN r.h.mgroups :
              /\ DOMAIN r.h.mgroups = DOMAIN h.mgroups \cup {m}
              /\ m \in DOMAIN h.mgroups => h.mgroups[m].free <= r.addr /\ m \in {h.unpinnedPool, h.pinnedPool}
              /\ m \notin DOMAIN h.mgroups => m \notin InUse(h.mblocks)
              /\ Lies(r.h, [addr |-> r.addr, size |-> b], m)
              /\ IF r.h.mgroups[m].pinned
                   THEN m = r.h.pinnedPool /\ r.h.unpinnedPool = h.unpinnedPool
                   ELSE m = r.h.unpinnedPool
<1>1. PICK pinned \in BOOLEAN : pinned = (askPinned \/ b >= BLOCK_SIZE)
  OBVIOUS
<1>2. PICK pool : pool = IF pinned THEN h.pinnedPool ELSE h.unpinnedPool
  OBVIOUS
<1>3. PICK n : n = IF pinned THEN 0 ELSE h.mgroups[pool].gen_no
  OBVIOUS
<1>4. pool \in DOMAIN h.mgroups /\ h.mgroups[pool].pinned = pinned /\ n \in {0, 1} /\ (~pinned => n = g)
  <2>1. h.mgroups[h.unpinnedPool] \in GroupRecord /\ h.mgroups[h.pinnedPool] \in GroupRecord
    BY DEF GoodPools, GoodGroups, GoodGroup
  <2> QED  BY <1>2, <1>3, <2>1 DEF GoodPools, GroupRecord
<1>5. r \in IF Fits(h, pool, b)
               THEN {[h |-> Bump(h, pool, b), addr |-> h.mgroups[pool].free]}
               ELSE {[h |-> Bump(SetPool(q.h, q.bd, pinned, n), q.bd, b), addr |-> q.h.mgroups[q.bd].free] :
                       q \in hpAlloc(h, b, pinned, n)}
  BY <1>1, <1>2, <1>3 DEF allocate
<1>6. CASE Fits(h, pool, b)
  <2>1. r.h = Bump(h, pool, b) /\ r.addr = h.mgroups[pool].free
    BY <1>5, <1>6
  <2>2. /\ GoodGroups(r.h) /\ Grown(h, r.h) /\ DOMAIN r.h.mgroups = DOMAIN h.mgroups
        /\ r.h.mgroups[pool].free = h.mgroups[pool].free + b
        /\ r.h.unpinnedPool = h.unpinnedPool /\ r.h.pinnedPool = h.pinnedPool
        /\ r.h.generations = h.generations
    BY <1>4, <1>6, <2>1, Bumped
  <2>3. r.addr \in Nat /\ pool * MBLOCK_SIZE + FIRST_BLOCK_OFF <= r.addr
    BY <1>4, <2>1 DEF GoodGroups, GoodGroup, GroupRecord
  <2>4. Lies(r.h, [addr |-> r.addr, size |-> b], pool)
    <3>1. r.addr + b <= r.h.mgroups[pool].free
      BY <2>1, <2>2, <2>3
    <3> QED  BY <1>4, <2>2, <2>3, <3>1 DEF Lies
  <2>5. GoodPools(r.h, g)
    BY <2>2 DEF GoodPools, Grown
  <2>6. r.h.mgroups[pool].pinned = pinned
    BY <1>4, <2>2 DEF Grown
  <2>7. h.mgroups[pool].free <= r.addr
    BY <2>1, <2>3
  <2> QED  BY <1>2, <1>4, <2>2, <2>3, <2>4, <2>5, <2>6, <2>7
<1>7. CASE ~Fits(h, pool, b)
  <2>1. PICK k \in Nat \ {0} : k = mblocksFor(b) /\ FIRST_BLOCK_OFF + b <= k * MBLOCK_SIZE
    BY MblocksSufficeForBytes
  <2>2. PICK q \in hpAlloc(h, b, pinned, n) :
          r = [h |-> Bump(SetPool(q.h, q.bd, pinned, n), q.bd, b), addr |-> q.h.mgroups[q.bd].free]
    BY <1>5, <1>7
  <2>3. PICK m \in FreeRuns(h.mblocks, k) : q = [h |-> allocMegaGroup(h, m, k, pinned, n), bd |-> m]
    BY <2>1, <2>2 DEF hpAlloc
  <2>4. PICK h1 : h1 = allocMegaGroup(h, m, k, pinned, n)
    OBVIOUS
  <2>5. PICK h2 : h2 = SetPool(h1, m, pinned, n)
    OBVIOUS
  <2>6. r.h = Bump(h2, m, b) /\ r.addr = h1.mgroups[m].free
    BY <2>2, <2>3, <2>4, <2>5
  <2>7. /\ GoodGroups(h1) /\ Grown(h, h1)
        /\ m \notin DOMAIN h.mgroups /\ m \notin InUse(h.mblocks)
        /\ DOMAIN h1.mgroups = DOMAIN h.mgroups \cup {m}
        /\ h1.mblocks[m] = k /\ h1.mgroups[m].pinned = pinned /\ h1.mgroups[m].gen_no = n
        /\ h1.mgroups[m].free = m * MBLOCK_SIZE + FIRST_BLOCK_OFF
        /\ h1.unpinnedPool = h.unpinnedPool /\ h1.pinnedPool = h.pinnedPool
        /\ h1.generations = h.generations
    BY <1>4, <2>1, <2>3, <2>4, GroupMade
  <2>8. /\ GoodGroups(h2) /\ h2.mblocks = h1.mblocks /\ h2.mgroups = h1.mgroups
        /\ DOMAIN h2.generations = {0, 1}
        /\ pinned => /\ h2.pinnedPool = m /\ h2.unpinnedPool = h1.unpinnedPool
                      /\ h2.generations = h1.generations
        /\ ~pinned => /\ h2.unpinnedPool = m /\ h2.pinnedPool = h1.pinnedPool
                       /\ h2.generations[n] = m
    <3>1. DOMAIN h1.generations = {0, 1}
      BY <2>7 DEF GoodPools
    <3> QED  BY <1>4, <2>5, <2>7, <3>1, PoolSet
  <2>9. Grown(h1, h2)
    <3>1. \A i \in DOMAIN h1.mgroups : h1.mgroups[i].free \in Nat
      BY <2>7 DEF GoodGroups, GoodGroup, GroupRecord
    <3> QED  BY <2>8, <3>1 DEF Grown
  <2>10. Fits(h2, m, b)
    <3>1. GoodGroup(h2, m)
      BY <2>7, <2>8 DEF GoodGroups
    <3>2. PICK p \in Int, f \in Int : p = MBLOCK_SIZE /\ f = FIRST_BLOCK_OFF
      BY LayoutSizes
    <3>3. m \in Nat /\ current_limit(h2, m) = (m + k) * p /\ h2.mgroups[m].free = m * p + f
      BY <2>7, <2>8, <3>1, <3>2 DEF GoodGroup
    <3>4. (m + k) * p = m * p + k * p /\ m * p \in Int /\ k * p \in Int
      BY <2>1, <3>2, <3>3
    <3>5. m * p + f + b <= m * p + k * p
      BY <2>1, <3>2, <3>4
    <3> QED  BY <3>3, <3>4, <3>5 DEF Fits
  <2>11. /\ GoodGroups(r.h) /\ Grown(h2, r.h) /\ DOMAIN r.h.mgroups = DOMAIN h2.mgroups
         /\ r.h.mgroups[m].free = h2.mgroups[m].free + b
         /\ r.h.unpinnedPool = h2.unpinnedPool /\ r.h.pinnedPool = h2.pinnedPool
         /\ r.h.generations = h2.generations
    BY <2>6, <2>7, <2>8, <2>10, Bumped
  <2>12. Grown(h, r.h)
    BY <2>7, <2>8, <2>9, <2>11, GrownTransitive
  <2>13. r.addr \in Nat /\ Lies(r.h, [addr |-> r.addr, size |-> b], m)
    <3>1. r.addr \in Nat /\ r.addr + b = r.h.mgroups[m].free
      BY <2>6, <2>7, <2>8, <2>11 DEF GoodGroups, GoodGroup, GroupRecord
    <3>2. m * MBLOCK_SIZE + FIRST_BLOCK_OFF <= r.addr
      BY <2>6, <2>7, <3>1
    <3>3. r.addr + b <= r.h.mgroups[m].free
      BY <3>1
    <3> QED  BY <2>7, <2>8, <2>11, <3>1, <3>2, <3>3 DEF Lies
  <2>14. r.h.mgroups[m].pinned = pinned /\ r.h.mgroups[m].gen_no = n
    BY <2>7, <2>8, <2>11 DEF Grown
  <2>15. GoodPools(r.h, g)
    <3>1. CASE pinned
      <4>1. r.h.unpinnedPool = h.unpinnedPool /\ r.h.pinnedPool = m /\ r.h.generations = h.generations
        BY <2>7, <2>8, <2>11, <3>1
      <4>2. r.h.mgroups[m].pinned /\ m \in DOMAIN r.h.mgroups
        BY <2>7, <2>8, <2>11, <2>14, <3>1
      <4>3. /\ h.unpinnedPool \in DOMAIN r.h.mgroups
            /\ r.h.mgroups[h.unpinnedPool].pinned = h.mgroups[h.unpinnedPool].pinned
            /\ r.h.mgroups[h.unpinnedPool].gen_no = g
        BY <2>12 DEF GoodPools, Grown
      <4> QED  BY <4>1, <4>2, <4>3 DEF GoodPools
    <3>2. CASE ~pinned
      <4>1. r.h.unpinnedPool = m /\ r.h.pinnedPool = h.pinnedPool /\ r.h.generations[g] = m
        BY <1>4, <2>7, <2>8, <2>11, <3>2
      <4> QED  BY <1>4, <2>7, <2>8, <2>11, <2>12, <2>14, <3>2, <4>1 DEF GoodPools, Grown
    <3> QED  BY <3>1, <3>2
  <2> QED  BY <2>7, <2>8, <2>11, <2>12, <2>13, <2>14, <2>15
<1> QED  BY <1>6, <1>7
\* A group is made, and becomes a pool.
LEMMA PoolMade ==
  ASSUME NEW h, GoodGroups(h), DOMAIN h.generations = {0, 1}, NEW m \in FreeRuns(h.mblocks, 1),
         NEW pinned \in BOOLEAN, NEW g \in {0, 1},
         NEW h2, h2 = SetPool(allocMegaGroup(h, m, 1, pinned, g), m, pinned, g)
  PROVE  /\ GoodGroups(h2) /\ Grown(h, h2)
         /\ m \notin DOMAIN h.mgroups /\ m \notin InUse(h.mblocks)
         /\ DOMAIN h2.mgroups = DOMAIN h.mgroups \cup {m}
         /\ h2.mgroups[m].pinned = pinned /\ h2.mgroups[m].gen_no = g
         /\ DOMAIN h2.generations = {0, 1}
         /\ pinned => /\ h2.pinnedPool = m /\ h2.unpinnedPool = h.unpinnedPool
                      /\ h2.generations = h.generations
         /\ ~pinned => /\ h2.unpinnedPool = m /\ h2.pinnedPool = h.pinnedPool
                       /\ h2.generations[g] = m
<1>1. PICK h1 : h1 = allocMegaGroup(h, m, 1, pinned, g)
  OBVIOUS
<1>2. /\ GoodGroups(h1) /\ Grown(h, h1)
      /\ m \notin DOMAIN h.mgroups /\ m \notin InUse(h.mblocks)
      /\ DOMAIN h1.mgroups = DOMAIN h.mgroups \cup {m}
      /\ h1.mgroups[m].pinned = pinned /\ h1.mgroups[m].gen_no = g
      /\ h1.unpinnedPool = h.unpinnedPool /\ h1.pinnedPool = h.pinnedPool
      /\ h1.generations = h.generations
  <2>1. 1 \in Nat \ {0}
    OBVIOUS
  <2> QED  BY <1>1, <2>1, GroupMade
<1>3. DOMAIN h1.generations = {0, 1} /\ h2 = SetPool(h1, m, pinned, g)
  BY <1>1, <1>2
<1>4. /\ GoodGroups(h2) /\ h2.mblocks = h1.mblocks /\ h2.mgroups = h1.mgroups
      /\ DOMAIN h2.generations = {0, 1}
      /\ pinned => /\ h2.pinnedPool = m /\ h2.unpinnedPool = h1.unpinnedPool
                   /\ h2.generations = h1.generations
      /\ ~pinned => /\ h2.unpinnedPool = m /\ h2.pinnedPool = h1.pinnedPool
                    /\ h2.generations[g] = m
  BY <1>2, <1>3, PoolSet
<1>5. Grown(h, h2)
  BY <1>2, <1>4 DEF Grown
<1> QED  BY <1>2, <1>4, <1>5

\* hpAlloc makes a group that is not yet a pool.
LEMMA GroupAdded ==
  ASSUME NEW h, GoodGroups(h), NEW b \in Nat, NEW pinned \in BOOLEAN, NEW g \in {0, 1},
         NEW r \in hpAlloc(h, b, pinned, g)
  PROVE  /\ GoodGroups(r.h) /\ Grown(h, r.h) /\ r.bd \in DOMAIN r.h.mgroups
         /\ r.bd \notin DOMAIN h.mgroups /\ r.bd \notin InUse(h.mblocks)
         /\ DOMAIN r.h.mgroups = DOMAIN h.mgroups \cup {r.bd}
         /\ r.h.mgroups[r.bd].pinned = pinned
         /\ r.h.unpinnedPool = h.unpinnedPool /\ r.h.pinnedPool = h.pinnedPool
         /\ r.h.generations = h.generations
<1>1. PICK k \in Nat \ {0} : k = mblocksFor(b)
  BY MblocksSufficeForBytes
<1>2. PICK m \in FreeRuns(h.mblocks, k) : r = [h |-> allocMegaGroup(h, m, k, pinned, g), bd |-> m]
  BY <1>1 DEF hpAlloc
<1>3. PICK h1 : h1 = allocMegaGroup(h, m, k, pinned, g)
  OBVIOUS
<1>4. r.h = h1 /\ r.bd = m
  BY <1>2, <1>3
<1>5. /\ GoodGroups(h1) /\ Grown(h, h1)
      /\ m \notin DOMAIN h.mgroups /\ m \notin InUse(h.mblocks)
      /\ DOMAIN h1.mgroups = DOMAIN h.mgroups \cup {m}
      /\ h1.mgroups[m].pinned = pinned
      /\ h1.unpinnedPool = h.unpinnedPool /\ h1.pinnedPool = h.pinnedPool
      /\ h1.generations = h.generations
  BY <1>3, GroupMade
<1> QED  BY <1>4, <1>5

\* What is left when groups are freed.
LEMMA GroupsFreed ==
  ASSUME NEW h, GoodGroups(h), NEW freed,
         NEW h2, h2 = Swept(h, freed)
  PROVE  /\ GoodGroups(h2) /\ DOMAIN h2.mgroups = DOMAIN h.mgroups \ freed
         /\ \A m \in DOMAIN h.mgroups \ freed : h2.mgroups[m] = h.mgroups[m]
         /\ h2.unpinnedPool = h.unpinnedPool /\ h2.pinnedPool = h.pinnedPool
         /\ h2.generations = h.generations
<1>1. h2 = [mblocks |-> Remaining(h.mblocks, freed), mgroups |-> Remaining(h.mgroups, freed),
            unpinnedPool |-> h.unpinnedPool, pinnedPool |-> h.pinnedPool, generations |-> h.generations]
  BY DEF GoodGroups, IsAllocator, Swept
<1>2. /\ DOMAIN h2.mgroups = DOMAIN h.mgroups \ freed /\ DOMAIN h2.mblocks = DOMAIN h.mgroups \ freed
      /\ \A m \in DOMAIN h.mgroups \ freed : h2.mgroups[m] = h.mgroups[m] /\ h2.mblocks[m] = h.mblocks[m]
  <2>1. PICK mg : mg = Remaining(h.mgroups, freed)
    OBVIOUS
  <2>2. PICK mb : mb = Remaining(h.mblocks, freed)
    OBVIOUS
  <2>3. DOMAIN mg = DOMAIN h.mgroups \ freed /\ \A m \in DOMAIN h.mgroups \ freed : mg[m] = h.mgroups[m]
    BY <2>1 DEF Remaining
  <2>4. DOMAIN mb = DOMAIN h.mgroups \ freed /\ \A m \in DOMAIN h.mgroups \ freed : mb[m] = h.mblocks[m]
    BY <2>2 DEF Remaining, GoodGroups
  <2>5. h2.mgroups = mg /\ h2.mblocks = mb
    BY <1>1, <2>1, <2>2
  <2> QED  BY <2>3, <2>4, <2>5
<1>3. IsAllocator(h2)
  BY <1>1 DEF IsAllocator
<1>4. ASSUME NEW m \in DOMAIN h2.mgroups PROVE GoodGroup(h2, m)
  <2>1. GoodGroup(h, m) /\ h2.mgroups[m] = h.mgroups[m] /\ h2.mblocks[m] = h.mblocks[m]
    BY <1>2 DEF GoodGroups
  <2> QED  BY <2>1 DEF GoodGroup, current_limit
<1>5. GoodGroups(h2)
  BY <1>2, <1>3, <1>4 DEF GoodGroups
<1> QED  BY <1>1, <1>2, <1>5

\* An object lies in one group only, in one of the megablocks of it: bdescr does not find
\* the descriptor of another.
LEMMA GroupOfAddress ==
  ASSUME NEW h, GoodGroups(h), NEW x, x.addr \in Nat, x.size \in Nat \ {0}, NEW m, Lies(h, x, m)
  PROVE  /\ bdescr(x.addr) \in InUse(h.mblocks)
         /\ bdescr(x.addr) \in DOMAIN h.mgroups => bdescr(x.addr) = m
<1>1. PICK d \in Nat : d = bdescr(x.addr) /\ d * MBLOCK_SIZE <= x.addr /\ x.addr < (d + 1) * MBLOCK_SIZE
  BY DescriptorOf
<1>2. PICK p \in Nat \ {0}, f \in Nat \ {0} : p = MBLOCK_SIZE /\ f = FIRST_BLOCK_OFF
  BY LayoutSizes
<1>3. PICK k \in Nat \ {0} : k = h.mblocks[m]
  BY DEF Lies, GoodGroups, GoodGroup
<1>4. m \in Nat /\ m \in DOMAIN h.mgroups /\ m * p + f <= x.addr /\ x.addr + x.size <= (m + k) * p
  <2>1. GoodGroup(h, m)
    BY DEF Lies, GoodGroups
  <2>2. PICK u \in Int : u = (m + k) * p
    BY <1>2, <1>3, <2>1 DEF GoodGroup
  <2>3. PICK fr \in Nat : fr = h.mgroups[m].free
    BY <2>1 DEF GoodGroup, GroupRecord
  <2>4. x.addr + x.size <= fr /\ fr <= u
    BY <1>2, <1>3, <2>1, <2>2, <2>3 DEF GoodGroup, Lies
  <2>5. x.addr + x.size <= u
    BY <2>2, <2>3, <2>4
  <2> QED  BY <1>2, <2>1, <2>2, <2>5 DEF Lies, GoodGroup
<1>5. m < d + 1 /\ d < m + k
  <2>1. PICK u \in Int, v \in Int, y \in Int, z \in Int : u = m * p /\ v = (d + 1) * p /\ y = d * p /\ z = (m + k) * p
    BY <1>1, <1>2, <1>3, <1>4
  <2>2. u < v /\ y < z
    BY <1>1, <1>2, <1>4, <2>1
  <2>3. m * p < (d + 1) * p => m < d + 1
    BY <1>1, <1>2, <1>4, Multiples
  <2>4. d * p < (m + k) * p => d < m + k
    BY <1>1, <1>2, <1>3, <1>4, Multiples
  <2> QED  BY <2>1, <2>2, <2>3, <2>4
<1>6. d \in m .. m + k - 1
  BY <1>1, <1>3, <1>4, <1>5
<1>7. d \in InUse(h.mblocks)
  BY <1>3, <1>4, <1>6 DEF InUse, GoodGroups
<1>8. ASSUME d \in DOMAIN h.mgroups, d # m PROVE FALSE
  <2>1. PICK j \in Nat \ {0} : j = h.mblocks[d]
    BY <1>8 DEF GoodGroups, GoodGroup
  <2>2. d + j <= m \/ m + k <= d
    BY <1>3, <1>4, <1>8, <2>1 DEF GoodGroups
  <2> QED  BY <1>1, <1>3, <1>4, <1>6, <2>1, <2>2
<1> QED  BY <1>1, <1>7, <1>8

LEMMA OneGroup ==
  ASSUME NEW h, GoodGroups(h), NEW x, x.addr \in Nat, NEW m, NEW n, Lies(h, x, m),
         NEW y, y.addr \in Nat, y.size \in Nat \ {0}, x.size \in Nat \ {0}, Lies(h, y, n), m # n
  PROVE  x.addr + x.size <= y.addr \/ y.addr + y.size <= x.addr
<1>1. PICK p \in Nat \ {0}, f \in Nat \ {0} : p = MBLOCK_SIZE /\ f = FIRST_BLOCK_OFF
  BY LayoutSizes
<1>2. PICK k \in Nat \ {0}, j \in Nat \ {0} : k = h.mblocks[m] /\ j = h.mblocks[n]
  BY DEF Lies, GoodGroups, GoodGroup
<1>3. GoodGroup(h, m) /\ GoodGroup(h, n)
  BY DEF Lies, GoodGroups
<1>4. PICK a \in Int, b \in Int, c \in Int, d \in Int : a = m * p /\ b = (m + k) * p /\ c = n * p /\ d = (n + j) * p
  BY <1>1, <1>2, <1>3 DEF GoodGroup
<1>5. a + f <= x.addr /\ x.addr + x.size <= b
  <2>1. PICK e \in Nat : e = h.mgroups[m].free
    BY <1>3 DEF GoodGroup, GroupRecord
  <2> QED  BY <1>1, <1>2, <1>3, <1>4, <2>1 DEF Lies, GoodGroup
<1>6. c + f <= y.addr /\ y.addr + y.size <= d
  <2>1. PICK e \in Nat : e = h.mgroups[n].free
    BY <1>3 DEF GoodGroup, GroupRecord
  <2> QED  BY <1>1, <1>2, <1>3, <1>4, <2>1 DEF Lies, GoodGroup
<1>7. m + k <= n \/ n + j <= m
  BY <1>2 DEF GoodGroups, Lies
<1>8. m \in Nat /\ n \in Nat
  BY <1>3 DEF GoodGroup
<1>9. (m + k <= n => b <= c) /\ (n + j <= m => d <= a)
  BY <1>1, <1>2, <1>4, <1>8, Multiples
<1> QED  BY <1>1, <1>4, <1>5, <1>6, <1>7, <1>9

LEMMA LiesLater ==
  ASSUME NEW h, GoodGroups(h), NEW h2, GoodGroups(h2), Grown(h, h2),
         NEW x, x.addr \in Nat, x.size \in Nat, NEW m, Lies(h, x, m)
  PROVE  Lies(h2, x, m)
<1>1. PICK e \in Nat, f \in Nat : e = h.mgroups[m].free /\ f = h2.mgroups[m].free /\ e <= f
  BY DEF Grown, Lies, GoodGroups, GoodGroup, GroupRecord
<1> QED  BY <1>1 DEF Lies, Grown

LEMMA InUseGrows ==
  ASSUME NEW h, GoodGroups(h), NEW h2, GoodGroups(h2), Grown(h, h2)
  PROVE  InUse(h.mblocks) \subseteq InUse(h2.mblocks)
BY DEF InUse, Grown, GoodGroups
-----------------------------------------------------------------------------
ObjectRecord == [addr : Nat, size : Nat]

\* The objects ob lie in groups, and apart from each other.
AllPlaced(h, ob) ==
  \A o \in Objects : ob[o].size > 0 => \E m \in DOMAIN h.mgroups : Lies(h, ob[o], m)

AllApart(ob) ==
  \A o, q \in Objects :
    o # q /\ ob[o].size > 0 /\ ob[q].size > 0
      => ob[o].addr + ob[o].size <= ob[q].addr \/ ob[q].addr + ob[q].size <= ob[o].addr

\* What a collection has noted: it knows the megablocks it has noted, it copies out of
\* unpinned groups that nothing is copied to, and it keeps a group exactly if something
\* that it has reached lies there, unless handleLiveness will throw.
Noted(h, ob, lv, dd, rc) ==
  /\ \A o \in rc : o \in Objects /\ ob[o].size > 0
  /\ lv \cup dd \subseteq InUse(h.mblocks)
  /\ \A m \in DOMAIN h.mgroups : m \in dd => ~h.mgroups[m].pinned /\ m \notin lv /\ m # h.unpinnedPool
  /\ \A o \in Objects \ rc : \A m \in DOMAIN h.mgroups :
       ob[o].size > 0 /\ Lies(h, ob[o], m) /\ ~h.mgroups[m].pinned => m \notin lv /\ m # h.unpinnedPool
  /\ \A o \in rc : \A m \in DOMAIN h.mgroups :
       Lies(h, ob[o], m) => m \in lv \/ ~(lv \cup dd \subseteq DOMAIN h.mgroups)
  /\ \A m \in DOMAIN h.mgroups : m \in lv => \E o \in rc : Lies(h, ob[o], m)

\* The objects, placed by the allocator.
ObjectsInv ==
  /\ phase \in {"program", "evacuate", "free", "thrown"} /\ rHpAlloc \in Nat
  /\ obj \in [Objects -> ObjectRecord] /\ GoodGroups(allocator)
  /\ phase # "thrown" => AllPlaced(allocator, obj) /\ AllApart(obj)

\* What each phase can rely on.
PhaseInv ==
  /\ phase = "program" => /\ GoodPools(allocator, 0) /\ nursery \in DOMAIN allocator.mgroups
                          /\ live = {} /\ dead = {} /\ reached = {}
  /\ phase = "evacuate" => /\ GoodPools(allocator, 1) /\ nursery \in DOMAIN allocator.mgroups
                           /\ Noted(allocator, obj, live, dead, reached)
  /\ phase = "free" => /\ DOMAIN allocator.generations = {0, 1}
                       /\ allocator.pinnedPool \in DOMAIN allocator.mgroups
                       /\ allocator.mgroups[allocator.pinnedPool].pinned
                       /\ \A m \in DOMAIN allocator.mgroups :
                            m # allocator.pinnedPool => \E o \in reached : o \in Objects /\ Lies(allocator, obj[o], m)

\* The inductive invariant.
HeapInv == ObjectsInv /\ PhaseInv

\* An object is put into bytes that were free.
LEMMA ObjectPut ==
  ASSUME NEW h, GoodGroups(h), NEW h2, GoodGroups(h2), Grown(h, h2),
         NEW ob \in [Objects -> ObjectRecord], AllPlaced(h, ob), AllApart(ob),
         NEW o \in Objects, NEW x \in ObjectRecord, NEW m, Lies(h2, x, m),
         m \in DOMAIN h.mgroups => h.mgroups[m].free <= x.addr,
         NEW ob2, ob2 = [ob EXCEPT ![o] = x]
  PROVE  ob2 \in [Objects -> ObjectRecord] /\ AllPlaced(h2, ob2) /\ AllApart(ob2)
<1>1. /\ ob2 \in [Objects -> ObjectRecord] /\ ob2[o] = x
      /\ \A q \in Objects : q # o => ob2[q] = ob[q]
  OBVIOUS
<1>2. \A q \in Objects : ob[q].addr \in Nat /\ ob[q].size \in Nat
  BY DEF ObjectRecord
<1>3. x.addr \in Nat /\ x.size \in Nat
  BY DEF ObjectRecord
<1>4. AllPlaced(h2, ob2)
  <2> SUFFICES ASSUME NEW q \in Objects, ob2[q].size > 0
               PROVE  \E n \in DOMAIN h2.mgroups : Lies(h2, ob2[q], n)
    BY DEF AllPlaced
  <2>1. CASE q = o
    BY <1>1, <2>1 DEF Lies
  <2>2. CASE q # o
    <3>1. PICK n \in DOMAIN h.mgroups : Lies(h, ob[q], n)
      BY <1>1, <2>2 DEF AllPlaced
    <3>2. Lies(h2, ob[q], n)
      BY <1>2, <3>1, LiesLater
    <3> QED  BY <1>1, <2>2, <3>2 DEF Lies
  <2> QED  BY <2>1, <2>2
<1>5. ASSUME NEW q \in Objects, q # o, ob[q].size > 0, x.size > 0
      PROVE  ob[q].addr + ob[q].size <= x.addr \/ x.addr + x.size <= ob[q].addr
  <2>1. PICK n \in DOMAIN h.mgroups : Lies(h, ob[q], n)
    BY <1>5 DEF AllPlaced
  <2>2. CASE n = m
    <3>1. PICK e \in Nat : e = h.mgroups[m].free
      BY <2>1, <2>2 DEF GoodGroups, GoodGroup, GroupRecord
    <3>2. ob[q].addr + ob[q].size <= e /\ e <= x.addr
      BY <2>1, <2>2, <3>1 DEF Lies
    <3> QED  BY <1>2, <1>3, <3>2
  <2>3. CASE n # m
    <3>1. Lies(h2, ob[q], n)
      BY <1>2, <2>1, LiesLater
    <3>2. ob[q].size \in Nat \ {0} /\ x.size \in Nat \ {0}
      BY <1>2, <1>3, <1>5
    <3> QED  BY <1>2, <1>3, <2>3, <3>1, <3>2, OneGroup
  <2> QED  BY <2>2, <2>3
<1>6. AllApart(ob2)
  <2> SUFFICES ASSUME NEW p \in Objects, NEW q \in Objects, p # q, ob2[p].size > 0, ob2[q].size > 0
               PROVE  ob2[p].addr + ob2[p].size <= ob2[q].addr \/ ob2[q].addr + ob2[q].size <= ob2[p].addr
    BY DEF AllApart
  <2>1. CASE p = o
    BY <1>1, <1>5, <2>1
  <2>2. CASE q = o
    BY <1>1, <1>5, <2>2
  <2>3. CASE p # o /\ q # o
    BY <1>1, <2>3 DEF AllApart
  <2> QED  BY <2>1, <2>2, <2>3
<1> QED  BY <1>1, <1>4, <1>6

\* The objects stay where they are while groups are added.
LEMMA ObjectsStay ==
  ASSUME NEW h, GoodGroups(h), NEW h2, GoodGroups(h2), Grown(h, h2),
         NEW ob \in [Objects -> ObjectRecord], AllPlaced(h, ob)
  PROVE  AllPlaced(h2, ob)
<1>1. \A q \in Objects : ob[q].addr \in Nat /\ ob[q].size \in Nat
  BY DEF ObjectRecord
<1> SUFFICES ASSUME NEW q \in Objects, ob[q].size > 0
             PROVE  \E n \in DOMAIN h2.mgroups : Lies(h2, ob[q], n)
  BY DEF AllPlaced
<1>2. PICK n \in DOMAIN h.mgroups : Lies(h, ob[q], n)
  BY DEF AllPlaced
<1>3. Lies(h2, ob[q], n)
  BY <1>1, <1>2, LiesLater
<1> QED  BY <1>3 DEF Lies

LEMMA AllocatorBecomes ==
  ASSUME NEW h, GoodGroups(h), Becomes(h)
  PROVE  allocator' = h
BY DEF GoodGroups, IsAllocator, Becomes, Pools, allocator

\* init makes the groups of the pools and of the first nursery.
LEMMA InitHeap == HeapInit => HeapInv
<1> SUFFICES ASSUME HeapInit PROVE HeapInv
  OBVIOUS
<1> DEFINE none == [mblocks |-> [m \in {} |-> 0], mgroups |-> [m \in {} |-> 0], unpinnedPool |-> NoGroup,
                    pinnedPool |-> NoGroup, generations |-> [g \in {0, 1} |-> NoGroup]]
<1>1. GoodGroups(none) /\ DOMAIN none.generations = {0, 1} /\ DOMAIN none.mgroups = {}
  <2>1. IsAllocator(none)
    BY DEF IsAllocator
  <2> QED  BY <2>1 DEF GoodGroups
<1>a. \E h0 \in setGenerationNo(none, 0) : \E r1 \in hpAlloc(h0, 1, TRUE, 0) : \E r \in hpAlloc(r1.h, W, FALSE, 0) :
          LET h == SetPool(r.h, r1.bd, TRUE, 0)
          IN  mblocks = h.mblocks /\ heapAlloc = Pools(h) /\ nursery = r.bd
  BY DEF HeapInit
<1> HIDE DEF none
<1>2. PICK h0 \in setGenerationNo(none, 0) : \E r1 \in hpAlloc(h0, 1, TRUE, 0) : \E r \in hpAlloc(r1.h, W, FALSE, 0) :
          LET h == SetPool(r.h, r1.bd, TRUE, 0)
          IN  mblocks = h.mblocks /\ heapAlloc = Pools(h) /\ nursery = r.bd
  BY <1>a
<1>3. PICK r1 \in hpAlloc(h0, 1, TRUE, 0) : \E r \in hpAlloc(r1.h, W, FALSE, 0) :
          LET h == SetPool(r.h, r1.bd, TRUE, 0)
          IN  mblocks = h.mblocks /\ heapAlloc = Pools(h) /\ nursery = r.bd
  BY <1>2
<1>4. PICK r \in hpAlloc(r1.h, W, FALSE, 0) :
          LET h == SetPool(r.h, r1.bd, TRUE, 0)
          IN  mblocks = h.mblocks /\ heapAlloc = Pools(h) /\ nursery = r.bd
  BY <1>3
<1>5. PICK h : h = SetPool(r.h, r1.bd, TRUE, 0)
  OBVIOUS
<1>6. mblocks = h.mblocks /\ heapAlloc = Pools(h) /\ nursery = r.bd
  BY <1>4, <1>5
<1>b. PICK yes \in BOOLEAN, no \in BOOLEAN, gen \in {0, 1} : yes = TRUE /\ no = FALSE /\ gen = 0
  OBVIOUS
<1>7. PICK m \in FreeRuns(none.mblocks, 1) : h0 = SetPool(allocMegaGroup(none, m, 1, no, gen), m, no, gen)
  BY <1>2, <1>b DEF setGenerationNo
<1>c. r1 \in hpAlloc(h0, 1, yes, gen) /\ r \in hpAlloc(r1.h, W, no, gen) /\ h = SetPool(r.h, r1.bd, yes, gen)
  BY <1>3, <1>4, <1>5, <1>b
<1>8. /\ GoodGroups(h0) /\ DOMAIN h0.mgroups = {m} /\ ~h0.mgroups[m].pinned /\ h0.mgroups[m].gen_no = 0
      /\ DOMAIN h0.generations = {0, 1} /\ h0.unpinnedPool = m /\ h0.generations[0] = m
  <2>1. /\ GoodGroups(h0) /\ DOMAIN h0.mgroups = DOMAIN none.mgroups \cup {m}
        /\ h0.mgroups[m].pinned = no /\ h0.mgroups[m].gen_no = gen
        /\ DOMAIN h0.generations = {0, 1}
        /\ ~no => h0.unpinnedPool = m /\ h0.generations[gen] = m
    BY <1>1, <1>7, PoolMade
  <2> QED  BY <1>1, <1>b, <2>1
<1>9. /\ GoodGroups(r1.h) /\ Grown(h0, r1.h) /\ r1.bd \in DOMAIN r1.h.mgroups
      /\ r1.h.mgroups[r1.bd].pinned = TRUE
      /\ r1.h.unpinnedPool = m /\ r1.h.generations = h0.generations
  <2>1. 1 \in Nat
    OBVIOUS
  <2>2. /\ GoodGroups(r1.h) /\ Grown(h0, r1.h) /\ r1.bd \in DOMAIN r1.h.mgroups
        /\ r1.h.mgroups[r1.bd].pinned = yes
        /\ r1.h.unpinnedPool = h0.unpinnedPool /\ r1.h.generations = h0.generations
    BY <1>8, <1>c, <2>1, GroupAdded
  <2> QED  BY <1>8, <1>b, <2>2
<1>10. /\ GoodGroups(r.h) /\ Grown(r1.h, r.h) /\ r.bd \in DOMAIN r.h.mgroups
       /\ r.h.unpinnedPool = m /\ r.h.generations = h0.generations
  <2>1. W \in Nat
    BY HeapAssumption
  <2>2. /\ GoodGroups(r.h) /\ Grown(r1.h, r.h) /\ r.bd \in DOMAIN r.h.mgroups
        /\ r.h.unpinnedPool = r1.h.unpinnedPool /\ r.h.generations = r1.h.generations
    BY <1>9, <1>c, <2>1, GroupAdded
  <2> QED  BY <1>9, <2>2
<1>11. /\ GoodGroups(h) /\ h.mgroups = r.h.mgroups /\ DOMAIN h.generations = {0, 1}
       /\ h.pinnedPool = r1.bd /\ h.unpinnedPool = m /\ h.generations = h0.generations
  <2>1. DOMAIN r.h.generations = {0, 1}
    BY <1>8, <1>10
  <2>2. /\ GoodGroups(h) /\ h.mgroups = r.h.mgroups /\ DOMAIN h.generations = {0, 1}
        /\ yes => h.pinnedPool = r1.bd /\ h.unpinnedPool = r.h.unpinnedPool /\ h.generations = r.h.generations
    BY <1>10, <1>c, <2>1, PoolSet
  <2> QED  BY <1>10, <1>b, <2>2
<1>12. GoodPools(h, 0)
  <2>1. m \in DOMAIN r1.h.mgroups /\ ~r1.h.mgroups[m].pinned /\ r1.h.mgroups[m].gen_no = 0
    BY <1>8, <1>9 DEF Grown
  <2>2. m \in DOMAIN r.h.mgroups /\ ~r.h.mgroups[m].pinned /\ r.h.mgroups[m].gen_no = 0
    BY <1>10, <2>1 DEF Grown
  <2>3. r1.bd \in DOMAIN r.h.mgroups /\ r.h.mgroups[r1.bd].pinned
    BY <1>9, <1>10 DEF Grown
  <2> QED  BY <1>8, <1>11, <2>2, <2>3 DEF GoodPools
<1>13. allocator = h
  BY <1>6, <1>11 DEF GoodGroups, IsAllocator, Pools, allocator
<1>14. /\ obj = [o \in Objects |-> NoObject] /\ phase = "program" /\ rHpAlloc = 0
       /\ live = {} /\ dead = {} /\ reached = {}
  BY DEF HeapInit
<1>15. obj \in [Objects -> ObjectRecord] /\ \A o \in Objects : obj[o].size = 0
  BY <1>14 DEF NoObject, ObjectRecord
<1>16. ObjectsInv
  BY <1>11, <1>13, <1>14, <1>15 DEF ObjectsInv, AllPlaced, AllApart
<1>17. PhaseInv
  BY <1>6, <1>10, <1>11, <1>12, <1>13, <1>14 DEF PhaseInv
<1> QED  BY <1>16, <1>17 DEF HeapInv

\* A step of the program that gives an object new bytes, or none.
LEMMA ProgramStep ==
  ASSUME HeapInv, phase = "program", NEW h2, GoodGroups(h2), Grown(allocator, h2), GoodPools(h2, 0), Becomes(h2),
         obj' \in [Objects -> ObjectRecord], AllPlaced(h2, obj'), AllApart(obj'), nursery' \in DOMAIN h2.mgroups,
         UNCHANGED <<phase, rHpAlloc, live, dead, reached>>
  PROVE  HeapInv'
<1>1. allocator' = h2
  BY AllocatorBecomes
<1> QED  BY <1>1 DEF HeapInv, ObjectsInv, PhaseInv

LEMMA AllocateKeepsHeap ==
  ASSUME HeapInv, NEW o \in Objects, NEW b \in Sizes, NEW pinned \in BOOLEAN, Allocate(o, b, pinned)
  PROVE  HeapInv'
<1>1. /\ phase = "program" /\ UNCHANGED <<nursery, phase, rHpAlloc, live, dead, reached>>
      /\ b \in Nat
  BY HeapAssumption DEF Allocate
<1>2. PICK r \in allocate(allocator, b, pinned) :
        Becomes(r.h) /\ obj' = [obj EXCEPT ![o] = [addr |-> r.addr, size |-> b]]
  BY DEF Allocate
<1>3. PICK h : h = allocator
  OBVIOUS
<1>4. /\ GoodGroups(h) /\ GoodPools(h, 0) /\ nursery \in DOMAIN h.mgroups
      /\ obj \in [Objects -> ObjectRecord] /\ AllPlaced(h, obj) /\ AllApart(obj)
  BY <1>1, <1>3 DEF HeapInv, ObjectsInv, PhaseInv
<1>5. 0 \in {0, 1} /\ r \in allocate(h, b, pinned)
  BY <1>3
<1>6. GoodGroups(r.h) /\ Grown(h, r.h) /\ GoodPools(r.h, 0) /\ r.addr \in Nat
  BY <1>1, <1>4, <1>5, Allocated
<1>7. PICK m \in DOMAIN r.h.mgroups :
        /\ m \in DOMAIN h.mgroups => h.mgroups[m].free <= r.addr
        /\ Lies(r.h, [addr |-> r.addr, size |-> b], m)
  BY <1>1, <1>4, <1>5, Allocated
<1>8. [addr |-> r.addr, size |-> b] \in ObjectRecord
  BY <1>1, <1>6 DEF ObjectRecord
<1>9. obj' \in [Objects -> ObjectRecord] /\ AllPlaced(r.h, obj') /\ AllApart(obj')
  <2>1. PICK x : x = [addr |-> r.addr, size |-> b]
    OBVIOUS
  <2>2. PICK ob2 : ob2 = obj'
    OBVIOUS
  <2>3. x.addr = r.addr /\ x \in ObjectRecord /\ Lies(r.h, x, m) /\ ob2 = [obj EXCEPT ![o] = x]
    BY <1>2, <1>7, <1>8, <2>1, <2>2
  <2>4. ob2 \in [Objects -> ObjectRecord] /\ AllPlaced(r.h, ob2) /\ AllApart(ob2)
    BY <1>4, <1>6, <1>7, <2>3, ObjectPut
  <2> QED  BY <2>2, <2>4
<1>10. nursery' \in DOMAIN r.h.mgroups
  BY <1>1, <1>4, <1>6 DEF Grown
<1> QED  BY <1>1, <1>2, <1>3, <1>6, <1>9, <1>10, ProgramStep

LEMMA PoolsStay ==
  ASSUME NEW h, NEW g, GoodPools(h, g), NEW h2, Grown(h, h2),
         h2.unpinnedPool = h.unpinnedPool, h2.pinnedPool = h.pinnedPool, h2.generations = h.generations
  PROVE  GoodPools(h2, g)
BY DEF GoodPools, Grown

LEMMA HpBumpKeepsHeap ==
  ASSUME HeapInv, NEW o \in Objects, NEW b \in Sizes, HpBump(o, b)
  PROVE  HeapInv'
<1>1. PICK h : h = allocator
  OBVIOUS
<1>2. PICK h2 : h2 = Bump(h, nursery, b)
  OBVIOUS
<1>3. PICK a : a = h.mgroups[nursery].free
  OBVIOUS
<1>4. /\ phase = "program" /\ UNCHANGED <<nursery, phase, rHpAlloc, live, dead, reached>>
      /\ b \in Nat /\ Fits(h, nursery, b) /\ Becomes(h2)
  BY <1>1, <1>2, HeapAssumption DEF HpBump
<1>5. obj' = [obj EXCEPT ![o] = [addr |-> a, size |-> b]]
  BY <1>1, <1>3 DEF HpBump, allocator
<1>6. /\ GoodGroups(h) /\ GoodPools(h, 0) /\ nursery \in DOMAIN h.mgroups
      /\ obj \in [Objects -> ObjectRecord] /\ AllPlaced(h, obj) /\ AllApart(obj)
  BY <1>1, <1>4 DEF HeapInv, ObjectsInv, PhaseInv
<1>7. /\ GoodGroups(h2) /\ Grown(h, h2) /\ DOMAIN h2.mgroups = DOMAIN h.mgroups
      /\ h2.mgroups[nursery].free = a + b
      /\ h2.unpinnedPool = h.unpinnedPool /\ h2.pinnedPool = h.pinnedPool
      /\ h2.generations = h.generations
  BY <1>2, <1>3, <1>4, <1>6, Bumped
<1>8. a \in Nat /\ nursery * MBLOCK_SIZE + FIRST_BLOCK_OFF <= a
  BY <1>3, <1>6 DEF GoodGroups, GoodGroup, GroupRecord
<1>9. PICK x : x = [addr |-> a, size |-> b]
  OBVIOUS
<1>10. x \in ObjectRecord /\ Lies(h2, x, nursery) /\ h.mgroups[nursery].free <= x.addr
  <2>1. x.addr = a /\ x.size = b
    BY <1>9
  <2>2. a + b <= h2.mgroups[nursery].free
    BY <1>4, <1>7, <1>8
  <2> QED  BY <1>3, <1>4, <1>6, <1>7, <1>8, <1>9, <2>1, <2>2 DEF ObjectRecord, Lies
<1>11. PICK ob2 : ob2 = obj'
  OBVIOUS
<1>12. ob2 = [obj EXCEPT ![o] = x]
  BY <1>5, <1>9, <1>11
<1>13. ob2 \in [Objects -> ObjectRecord] /\ AllPlaced(h2, ob2) /\ AllApart(ob2)
  BY <1>6, <1>7, <1>10, <1>12, ObjectPut
<1>14. GoodPools(h2, 0)
  BY <1>6, <1>7, PoolsStay
<1>15. nursery' \in DOMAIN h2.mgroups
  BY <1>4, <1>6, <1>7
<1> QED  BY <1>1, <1>4, <1>7, <1>11, <1>13, <1>14, <1>15, ProgramStep

LEMMA HpGarbageKeepsHeap ==
  ASSUME HeapInv, HpGarbage
  PROVE  HeapInv'
<1>1. PICK h : h = allocator
  OBVIOUS
<1>2. PICK b : b = current_limit(h, nursery) - h.mgroups[nursery].free
  OBVIOUS
<1>3. PICK h2 : h2 = Bump(h, nursery, b)
  OBVIOUS
<1>4. current_limit(heapAlloc, nursery) = current_limit(h, nursery) /\ heapAlloc.mgroups = h.mgroups
  BY <1>1 DEF allocator, current_limit
<1>5. /\ phase = "program" /\ UNCHANGED <<nursery, obj, phase, rHpAlloc, live, dead, reached>>
      /\ h.mgroups[nursery].free < current_limit(h, nursery)
  BY <1>4 DEF HpGarbage
<1>6. Becomes(h2)
  BY <1>1, <1>2, <1>3, <1>4 DEF HpGarbage
<1>7. /\ GoodGroups(h) /\ GoodPools(h, 0) /\ nursery \in DOMAIN h.mgroups
      /\ obj \in [Objects -> ObjectRecord] /\ AllPlaced(h, obj) /\ AllApart(obj)
  BY <1>1, <1>5 DEF HeapInv, ObjectsInv, PhaseInv
<1>8. b \in Nat /\ Fits(h, nursery, b)
  <2>1. PICK fr \in Int, lim \in Int : fr = h.mgroups[nursery].free /\ lim = current_limit(h, nursery)
    <3>1. GoodGroup(h, nursery)
      BY <1>7 DEF GoodGroups
    <3>2. (nursery + h.mblocks[nursery]) * MBLOCK_SIZE \in Int
      BY <3>1, LayoutSizes DEF GoodGroup
    <3> QED  BY <3>1, <3>2 DEF GoodGroup, GroupRecord
  <2> QED  BY <1>2, <1>5, <2>1 DEF Fits
<1>9. /\ GoodGroups(h2) /\ Grown(h, h2) /\ DOMAIN h2.mgroups = DOMAIN h.mgroups
      /\ h2.unpinnedPool = h.unpinnedPool /\ h2.pinnedPool = h.pinnedPool
      /\ h2.generations = h.generations
  BY <1>3, <1>7, <1>8, Bumped
<1>10. AllPlaced(h2, obj)
  BY <1>7, <1>9, ObjectsStay
<1>11. GoodPools(h2, 0)
  BY <1>7, <1>9, PoolsStay
<1>12. obj' = obj /\ nursery' = nursery
  BY <1>5
<1> QED  BY <1>1, <1>5, <1>6, <1>7, <1>9, <1>10, <1>11, <1>12, ProgramStep

LEMMA HeapOverflowSkipKeepsHeap ==
  ASSUME HeapInv, NEW b \in Sizes, HeapOverflowSkip(b)
  PROVE  HeapInv'
<1>1. PICK h : h = allocator
  OBVIOUS
<1>2. PICK no \in BOOLEAN, gen \in {0, 1} : no = FALSE /\ gen = 0
  OBVIOUS
<1>3. PICK r \in hpAlloc(h, b, no, gen) : Becomes(r.h) /\ nursery' = r.bd
  BY <1>1, <1>2 DEF HeapOverflowSkip
<1>4. phase = "program" /\ UNCHANGED <<obj, phase, rHpAlloc, live, dead, reached>> /\ b \in Nat
  BY HeapAssumption DEF HeapOverflowSkip
<1>5. /\ GoodGroups(h) /\ GoodPools(h, 0)
      /\ obj \in [Objects -> ObjectRecord] /\ AllPlaced(h, obj) /\ AllApart(obj)
  BY <1>1, <1>4 DEF HeapInv, ObjectsInv, PhaseInv
<1>6. /\ GoodGroups(r.h) /\ Grown(h, r.h) /\ r.bd \in DOMAIN r.h.mgroups
      /\ r.h.unpinnedPool = h.unpinnedPool /\ r.h.pinnedPool = h.pinnedPool
      /\ r.h.generations = h.generations
  BY <1>3, <1>4, <1>5, GroupAdded
<1>7. AllPlaced(r.h, obj)
  BY <1>5, <1>6, ObjectsStay
<1>8. GoodPools(r.h, 0)
  BY <1>5, <1>6, PoolsStay
<1>9. obj' = obj
  BY <1>4
<1> QED  BY <1>1, <1>3, <1>4, <1>5, <1>6, <1>7, <1>8, <1>9, ProgramStep

\* An object that is not empty lies in one group.
LEMMA SameGroup ==
  ASSUME NEW h, GoodGroups(h), NEW x, x.addr \in Nat, x.size \in Nat, x.size > 0,
         NEW m, NEW n, Lies(h, x, m), Lies(h, x, n)
  PROVE  m = n
<1>1. x.size \in Nat \ {0} /\ ~(x.addr + x.size <= x.addr)
  OBVIOUS
<1> QED  BY <1>1, OneGroup

\* The group of an object is the one it has been in all along.
LEMMA GroupKept ==
  ASSUME NEW h, GoodGroups(h), NEW h2, GoodGroups(h2), Grown(h, h2),
         NEW ob \in [Objects -> ObjectRecord], AllPlaced(h, ob), NEW o \in Objects, ob[o].size > 0,
         NEW n, Lies(h2, ob[o], n)
  PROVE  n \in DOMAIN h.mgroups /\ Lies(h, ob[o], n) /\ h2.mgroups[n].pinned = h.mgroups[n].pinned
<1>1. PICK m \in DOMAIN h.mgroups : Lies(h, ob[o], m)
  BY DEF AllPlaced
<1>2. ob[o].addr \in Nat /\ ob[o].size \in Nat
  BY DEF ObjectRecord
<1>3. Lies(h2, ob[o], m)
  BY <1>1, <1>2, LiesLater
<1>4. m = n
  BY <1>2, <1>3, SameGroup
<1> QED  BY <1>1, <1>4 DEF Grown

LEMMA HeapOverflowKeepsHeap ==
  ASSUME HeapInv, NEW b \in Sizes, HeapOverflow(b)
  PROVE  HeapInv'
<1>1. PICK h : h = allocator
  OBVIOUS
<1>2. PICK no \in BOOLEAN, gen \in {0, 1} : no = FALSE /\ gen = 1
  OBVIOUS
<1>3. PICK h2 \in setGenerationNo(h, gen) : Becomes(h2)
  BY <1>1, <1>2 DEF HeapOverflow
<1>4. PICK m \in FreeRuns(h.mblocks, 1) : h2 = SetPool(allocMegaGroup(h, m, 1, no, gen), m, no, gen)
  BY <1>2, <1>3 DEF setGenerationNo
<1>5. /\ phase = "program" /\ phase' = "evacuate" /\ rHpAlloc' = b
      /\ UNCHANGED <<nursery, obj, live, dead, reached>> /\ b \in Nat
  BY HeapAssumption DEF HeapOverflow
<1>6. /\ GoodGroups(h) /\ GoodPools(h, 0) /\ nursery \in DOMAIN h.mgroups
      /\ obj \in [Objects -> ObjectRecord] /\ AllPlaced(h, obj) /\ AllApart(obj)
      /\ live = {} /\ dead = {} /\ reached = {}
  BY <1>1, <1>5 DEF HeapInv, ObjectsInv, PhaseInv
<1>7. DOMAIN h.generations = {0, 1}
  BY <1>6 DEF GoodPools
<1>8. /\ GoodGroups(h2) /\ Grown(h, h2) /\ m \notin DOMAIN h.mgroups
      /\ DOMAIN h2.mgroups = DOMAIN h.mgroups \cup {m}
      /\ h2.mgroups[m].pinned = no /\ h2.mgroups[m].gen_no = gen
      /\ DOMAIN h2.generations = {0, 1}
      /\ ~no => /\ h2.unpinnedPool = m /\ h2.pinnedPool = h.pinnedPool
                /\ h2.generations[gen] = m
  BY <1>4, <1>6, <1>7, PoolMade
<1>9. GoodPools(h2, 1)
  <2>1. h.pinnedPool \in DOMAIN h2.mgroups /\ h2.mgroups[h.pinnedPool].pinned
    BY <1>6, <1>8 DEF GoodPools, Grown
  <2> QED  BY <1>2, <1>8, <2>1 DEF GoodPools
<1>10. AllPlaced(h2, obj)
  BY <1>6, <1>8, ObjectsStay
<1>11. Noted(h2, obj, {}, {}, {})
  <2>1. ASSUME NEW o \in Objects, NEW n \in DOMAIN h2.mgroups, obj[o].size > 0, Lies(h2, obj[o], n)
        PROVE  n # h2.unpinnedPool
    <3>1. n \in DOMAIN h.mgroups
      BY <1>6, <1>8, <2>1, GroupKept
    <3> QED  BY <1>2, <1>8, <3>1
  <2> QED  BY <2>1 DEF Noted
<1>12. allocator' = h2
  BY <1>3, <1>8, AllocatorBecomes
<1>13. ObjectsInv'
  BY <1>5, <1>6, <1>8, <1>10, <1>12 DEF ObjectsInv
<1>14. nursery' \in DOMAIN h2.mgroups
  BY <1>5, <1>6, <1>8
<1>15. PhaseInv'
  BY <1>5, <1>6, <1>9, <1>11, <1>12, <1>14 DEF PhaseInv
<1> QED  BY <1>13, <1>15 DEF HeapInv

\* Noting the megablock of a pinned object.
LEMMA NotedPinned ==
  ASSUME NEW h, GoodGroups(h), NEW ob \in [Objects -> ObjectRecord], AllPlaced(h, ob),
         NEW lv, NEW dd, NEW rc, Noted(h, ob, lv, dd, rc),
         NEW o \in Objects \ rc, ob[o].size > 0, NEW d, d = bdescr(ob[o].addr),
         d \in DOMAIN h.mgroups => h.mgroups[d].pinned
  PROVE  Noted(h, ob, lv \cup {d}, dd, rc \cup {o})
<1>1. ob[o].addr \in Nat /\ ob[o].size \in Nat /\ ob[o].size \in Nat \ {0}
  BY DEF ObjectRecord
<1>2. PICK g \in DOMAIN h.mgroups : Lies(h, ob[o], g)
  BY DEF AllPlaced
<1>3. d \in InUse(h.mblocks) /\ (d \in DOMAIN h.mgroups => d = g)
  BY <1>1, <1>2, GroupOfAddress
<1>4. \A q \in rc \cup {o} : q \in Objects /\ ob[q].size > 0
  BY DEF Noted
<1>5. (lv \cup {d}) \cup dd \subseteq InUse(h.mblocks)
  BY <1>3 DEF Noted
<1>6. ASSUME NEW m \in DOMAIN h.mgroups, m \in dd
      PROVE  ~h.mgroups[m].pinned /\ m \notin lv \cup {d} /\ m # h.unpinnedPool
  BY <1>6 DEF Noted
<1>7. ASSUME NEW q \in Objects \ (rc \cup {o}), NEW m \in DOMAIN h.mgroups,
             ob[q].size > 0, Lies(h, ob[q], m), ~h.mgroups[m].pinned
      PROVE  m \notin lv \cup {d} /\ m # h.unpinnedPool
  BY <1>7 DEF Noted
<1>8. ASSUME NEW q \in rc \cup {o}, NEW m \in DOMAIN h.mgroups, Lies(h, ob[q], m)
      PROVE  m \in lv \cup {d} \/ ~((lv \cup {d}) \cup dd \subseteq DOMAIN h.mgroups)
  <2>1. CASE q = o
    <3>1. m = g
      BY <1>1, <1>2, <1>8, <2>1, SameGroup
    <3> QED  BY <1>3, <3>1
  <2>2. CASE q \in rc
    BY <1>8, <2>2 DEF Noted
  <2> QED  BY <2>1, <2>2
<1>9. ASSUME NEW m \in DOMAIN h.mgroups, m \in lv \cup {d}
      PROVE  \E q \in rc \cup {o} : Lies(h, ob[q], m)
  <2>1. CASE m = d
    BY <1>2, <1>3, <2>1
  <2>2. CASE m \in lv
    BY <2>2 DEF Noted
  <2> QED  BY <1>9, <2>1, <2>2
<1> QED  BY <1>4, <1>5, <1>6, <1>7, <1>8, <1>9 DEF Noted

LEMMA EvacuatePinnedKeepsHeap ==
  ASSUME HeapInv, NEW o \in Objects, EvacuatePinned(o)
  PROVE  HeapInv'
<1>1. PICK h : h = allocator
  OBVIOUS
<1>2. PICK d : d = bdescr(obj[o].addr)
  OBVIOUS
<1>3. /\ phase = "evacuate" /\ Exists(o) /\ o \notin reached /\ TRUE \in isPinned(obj[o].addr)
      /\ live' = live \cup {d} /\ reached' = reached \cup {o}
      /\ UNCHANGED <<mblocks, heapAlloc, nursery, obj, phase, rHpAlloc, dead>>
  BY <1>2 DEF EvacuatePinned
<1>4. /\ GoodGroups(h) /\ GoodPools(h, 1) /\ nursery \in DOMAIN h.mgroups
      /\ obj \in [Objects -> ObjectRecord] /\ AllPlaced(h, obj)
      /\ Noted(h, obj, live, dead, reached)
  BY <1>1, <1>3 DEF HeapInv, ObjectsInv, PhaseInv
<1>5. d \in DOMAIN h.mgroups => h.mgroups[d].pinned
  BY <1>1, <1>2, <1>3 DEF isPinned, allocator
<1>6. o \in Objects \ reached /\ obj[o].size > 0
  BY <1>3 DEF Exists
<1>7. Noted(h, obj, live \cup {d}, dead, reached \cup {o})
  BY <1>2, <1>4, <1>5, <1>6, NotedPinned
<1>8. allocator' = h
  BY <1>1, <1>3 DEF allocator
<1>9. ObjectsInv'
  BY <1>1, <1>3, <1>8 DEF HeapInv, ObjectsInv
<1>10. PhaseInv'
  BY <1>3, <1>4, <1>7, <1>8 DEF PhaseInv
<1> QED  BY <1>9, <1>10 DEF HeapInv

\* Noting the megablocks an object is copied from and to.
LEMMA NotedCopied ==
  ASSUME NEW h, GoodGroups(h), NEW h2, GoodGroups(h2), Grown(h, h2), GoodPools(h, 1), GoodPools(h2, 1),
         NEW ob \in [Objects -> ObjectRecord], AllPlaced(h, ob),
         NEW lv, NEW dd, NEW rc, Noted(h, ob, lv, dd, rc),
         NEW o \in Objects \ rc, ob[o].size > 0, NEW d, d = bdescr(ob[o].addr),
         d \in DOMAIN h.mgroups => ~h.mgroups[d].pinned,
         NEW x \in ObjectRecord, x.size = ob[o].size, NEW e, e = bdescr(x.addr),
         NEW m \in DOMAIN h2.mgroups, DOMAIN h2.mgroups = DOMAIN h.mgroups \cup {m}, Lies(h2, x, m),
         m \in DOMAIN h.mgroups => m \in {h.unpinnedPool, h.pinnedPool},
         m \notin DOMAIN h.mgroups => m \notin InUse(h.mblocks),
         IF h2.mgroups[m].pinned THEN m = h2.pinnedPool /\ h2.unpinnedPool = h.unpinnedPool
         ELSE m = h2.unpinnedPool,
         NEW ob2, ob2 = [ob EXCEPT ![o] = x]
  PROVE  Noted(h2, ob2, lv \cup {e}, dd \cup {d}, rc \cup {o})
<1>1. /\ ob2[o] = x /\ \A q \in Objects : q # o => ob2[q] = ob[q]
      /\ \A q \in Objects : ob[q].addr \in Nat /\ ob[q].size \in Nat
      /\ x.addr \in Nat /\ x.size \in Nat /\ x.size \in Nat \ {0}
  BY DEF ObjectRecord
<1>2. PICK g \in DOMAIN h.mgroups : Lies(h, ob[o], g)
  BY DEF AllPlaced
<1>3. d \in InUse(h.mblocks) /\ (d \in DOMAIN h.mgroups => d = g)
  <2>1. ob[o].size \in Nat \ {0}
    BY <1>1
  <2> QED  BY <1>1, <1>2, <2>1, GroupOfAddress
<1>4. e \in InUse(h2.mblocks) /\ (e \in DOMAIN h2.mgroups => e = m)
  BY <1>1, GroupOfAddress
<1>5. InUse(h.mblocks) \subseteq InUse(h2.mblocks)
  BY InUseGrows
<1>6. lv \cup dd \subseteq InUse(h.mblocks)
  BY DEF Noted
<1>7. \A n \in DOMAIN h2.mgroups : n \in lv \cup dd \cup {d} => n \in DOMAIN h.mgroups
  BY <1>3, <1>6
\* What nothing was copied to, nothing is copied to now.
<1>8. ASSUME NEW n \in DOMAIN h.mgroups, ~h.mgroups[n].pinned, n \notin lv, n # h.unpinnedPool
      PROVE  n \in DOMAIN h2.mgroups /\ ~h2.mgroups[n].pinned /\ n \notin lv \cup {e} /\ n # h2.unpinnedPool
  <2>1. n \in DOMAIN h2.mgroups /\ h2.mgroups[n].pinned = h.mgroups[n].pinned
    BY DEF Grown
  <2>2. n # m
    <3>1. CASE m \in DOMAIN h.mgroups
      BY <1>8, <3>1 DEF GoodPools
    <3>2. CASE m \notin DOMAIN h.mgroups
      BY <3>2
    <3> QED  BY <3>1, <3>2
  <2>3. n # e
    BY <1>4, <2>1, <2>2
  <2>4. n # h2.unpinnedPool
    BY <1>8, <2>2
  <2> QED  BY <1>8, <2>1, <2>3, <2>4
<1>9. \A q \in rc \cup {o} : q \in Objects /\ ob2[q].size > 0
  BY <1>1 DEF Noted
<1>10. (lv \cup {e}) \cup (dd \cup {d}) \subseteq InUse(h2.mblocks)
  BY <1>3, <1>4, <1>5, <1>6
<1>11. ASSUME NEW n \in DOMAIN h2.mgroups, n \in dd \cup {d}
       PROVE  ~h2.mgroups[n].pinned /\ n \notin lv \cup {e} /\ n # h2.unpinnedPool
  <2>1. n \in DOMAIN h.mgroups
    BY <1>7, <1>11
  <2>2. ~h.mgroups[n].pinned /\ n \notin lv /\ n # h.unpinnedPool
    <3>1. CASE n \in dd
      BY <2>1, <3>1 DEF Noted
    <3>2. CASE n = d
      BY <1>2, <1>3, <2>1, <3>2 DEF Noted
    <3> QED  BY <1>11, <3>1, <3>2
  <2> QED  BY <1>8, <2>1, <2>2
<1>12. ASSUME NEW q \in Objects \ (rc \cup {o}), NEW n \in DOMAIN h2.mgroups,
              ob2[q].size > 0, Lies(h2, ob2[q], n), ~h2.mgroups[n].pinned
       PROVE  n \notin lv \cup {e} /\ n # h2.unpinnedPool
  <2>1. ob2[q] = ob[q] /\ q \in Objects /\ q \notin rc
    BY <1>1
  <2>2. n \in DOMAIN h.mgroups /\ Lies(h, ob[q], n) /\ ~h.mgroups[n].pinned
    <3>1. ob[q].size > 0 /\ Lies(h2, ob[q], n)
      BY <1>12, <2>1
    <3>2. n \in DOMAIN h.mgroups /\ Lies(h, ob[q], n) /\ h2.mgroups[n].pinned = h.mgroups[n].pinned
      BY <2>1, <3>1, GroupKept
    <3> QED  BY <1>12, <3>2
  <2>3. n \notin lv /\ n # h.unpinnedPool
    BY <1>12, <2>1, <2>2 DEF Noted
  <2> QED  BY <1>8, <2>2, <2>3
<1>13. ASSUME NEW q \in rc \cup {o}, NEW n \in DOMAIN h2.mgroups, Lies(h2, ob2[q], n)
       PROVE  n \in lv \cup {e} \/ ~((lv \cup {e}) \cup (dd \cup {d}) \subseteq DOMAIN h2.mgroups)
  <2>1. CASE q = o
    <3>1. Lies(h2, x, n) /\ x.size > 0
      BY <1>1, <1>13, <2>1
    <3>2. n = m
      BY <1>1, <3>1, SameGroup
    <3> QED  BY <1>4, <3>2
  <2>2. CASE q \in rc
    <3>1. q \in Objects /\ q # o /\ ob[q].size > 0 /\ ob2[q] = ob[q]
      BY <1>1, <2>2 DEF Noted
    <3>2. n \in DOMAIN h.mgroups /\ Lies(h, ob[q], n)
      BY <1>13, <3>1, GroupKept
    <3>3. n \in lv \/ ~(lv \cup dd \subseteq DOMAIN h.mgroups)
      BY <2>2, <3>2 DEF Noted
    <3>4. ~(lv \cup dd \subseteq DOMAIN h.mgroups) => ~(lv \cup dd \subseteq DOMAIN h2.mgroups)
      BY <1>7
    <3> QED  BY <3>3, <3>4
  <2> QED  BY <2>1, <2>2
<1>14. ASSUME NEW n \in DOMAIN h2.mgroups, n \in lv \cup {e}
       PROVE  \E q \in rc \cup {o} : Lies(h2, ob2[q], n)
  <2>1. CASE n = e
    BY <1>1, <1>4, <2>1
  <2>2. CASE n \in lv
    <3>1. n \in DOMAIN h.mgroups
      BY <1>7, <2>2
    <3>2. PICK q \in rc : Lies(h, ob[q], n)
      BY <2>2, <3>1 DEF Noted
    <3>3. q \in Objects /\ q # o /\ ob2[q] = ob[q]
      BY <1>1 DEF Noted
    <3>4. Lies(h2, ob[q], n)
      BY <1>1, <3>2, <3>3, LiesLater
    <3> QED  BY <3>3, <3>4
  <2> QED  BY <1>14, <2>1, <2>2
<1> QED  BY <1>9, <1>10, <1>11, <1>12, <1>13, <1>14 DEF Noted

LEMMA EvacuateUnpinnedKeepsHeap ==
  ASSUME HeapInv, NEW o \in Objects, EvacuateUnpinned(o)
  PROVE  HeapInv'
<1>1. PICK h : h = allocator
  OBVIOUS
<1>2. PICK d : d = bdescr(obj[o].addr)
  OBVIOUS
<1>3. PICK b : b = obj[o].size
  OBVIOUS
<1>4. PICK no \in BOOLEAN, gen \in {0, 1} : no = FALSE /\ gen = 1
  OBVIOUS
<1>5. PICK r \in allocate(h, b, no) :
        /\ Becomes(r.h) /\ obj' = [obj EXCEPT ![o].addr = r.addr]
        /\ live' = live \cup {bdescr(r.addr)}
  BY <1>1, <1>3, <1>4 DEF EvacuateUnpinned
<1>6. /\ phase = "evacuate" /\ Exists(o) /\ o \notin reached /\ FALSE \in isPinned(obj[o].addr)
      /\ dead' = dead \cup {d} /\ reached' = reached \cup {o}
      /\ UNCHANGED <<nursery, phase, rHpAlloc>>
  BY <1>2 DEF EvacuateUnpinned
<1>7. /\ GoodGroups(h) /\ GoodPools(h, 1) /\ nursery \in DOMAIN h.mgroups /\ rHpAlloc \in Nat
      /\ obj \in [Objects -> ObjectRecord] /\ AllPlaced(h, obj) /\ AllApart(obj)
      /\ Noted(h, obj, live, dead, reached)
  BY <1>1, <1>6 DEF HeapInv, ObjectsInv, PhaseInv
<1>8. d \in DOMAIN h.mgroups => ~h.mgroups[d].pinned
  BY <1>1, <1>2, <1>6 DEF isPinned, allocator
<1>9. o \in Objects \ reached /\ obj[o].size > 0 /\ b \in Nat /\ obj[o] = [addr |-> obj[o].addr, size |-> b]
  BY <1>3, <1>6, <1>7 DEF Exists, ObjectRecord
<1>10. GoodGroups(r.h) /\ Grown(h, r.h) /\ GoodPools(r.h, gen) /\ r.addr \in Nat
  BY <1>4, <1>5, <1>7, <1>9, Allocated
<1>11. PICK x : x = [addr |-> r.addr, size |-> b]
  OBVIOUS
<1>12. x \in ObjectRecord /\ x.addr = r.addr /\ x.size = b
  BY <1>9, <1>10, <1>11 DEF ObjectRecord
<1>13. PICK m \in DOMAIN r.h.mgroups :
         /\ DOMAIN r.h.mgroups = DOMAIN h.mgroups \cup {m}
         /\ m \in DOMAIN h.mgroups => h.mgroups[m].free <= r.addr /\ m \in {h.unpinnedPool, h.pinnedPool}
         /\ m \notin DOMAIN h.mgroups => m \notin InUse(h.mblocks)
         /\ Lies(r.h, [addr |-> r.addr, size |-> b], m)
         /\ IF r.h.mgroups[m].pinned
              THEN m = r.h.pinnedPool /\ r.h.unpinnedPool = h.unpinnedPool
              ELSE m = r.h.unpinnedPool
  BY <1>4, <1>5, <1>7, <1>9, Allocated
<1>14. PICK ob2 : ob2 = obj'
  OBVIOUS
<1>15. ob2 = [obj EXCEPT ![o] = x]
  <2>1. PICK y : y = [obj[o] EXCEPT !.addr = r.addr]
    OBVIOUS
  <2>2. y = x
    <3>1. PICK z : z = obj[o].addr
      OBVIOUS
    <3>2. obj[o] = [addr |-> z, size |-> b]
      BY <1>9, <3>1
    <3> QED  BY <1>11, <2>1, <3>2
  <2>3. ob2 = [obj EXCEPT ![o] = y]
    BY <1>5, <1>14, <2>1
  <2> QED  BY <2>2, <2>3
<1>16. PICK h2 : h2 = r.h
  OBVIOUS
<1>17. ob2 \in [Objects -> ObjectRecord] /\ AllPlaced(h2, ob2) /\ AllApart(ob2)
  <2>1. /\ GoodGroups(h2) /\ Grown(h, h2) /\ Lies(h2, x, m)
        /\ m \in DOMAIN h.mgroups => h.mgroups[m].free <= x.addr
    BY <1>10, <1>11, <1>12, <1>13, <1>16
  <2> QED  BY <1>7, <1>9, <1>12, <1>15, <2>1, ObjectPut
<1>18. PICK e : e = bdescr(x.addr)
  OBVIOUS
<1>19. Noted(h2, ob2, live \cup {e}, dead \cup {d}, reached \cup {o})
  <2>1. /\ GoodGroups(h2) /\ Grown(h, h2) /\ Lies(h2, x, m) /\ GoodPools(h2, 1)
        /\ m \in DOMAIN h2.mgroups /\ DOMAIN h2.mgroups = DOMAIN h.mgroups \cup {m}
        /\ m \in DOMAIN h.mgroups => m \in {h.unpinnedPool, h.pinnedPool}
        /\ m \notin DOMAIN h.mgroups => m \notin InUse(h.mblocks)
        /\ IF h2.mgroups[m].pinned
             THEN m = h2.pinnedPool /\ h2.unpinnedPool = h.unpinnedPool
             ELSE m = h2.unpinnedPool
    BY <1>4, <1>10, <1>11, <1>13, <1>16
  <2>2. x.size = obj[o].size
    BY <1>3, <1>12
  <2> QED  BY <1>2, <1>7, <1>8, <1>9, <1>12, <1>15, <1>18, <2>1, <2>2, NotedCopied
<1>20. allocator' = h2 /\ live' = live \cup {e}
  BY <1>5, <1>10, <1>12, <1>16, <1>18, AllocatorBecomes
<1>21. ObjectsInv'
  BY <1>6, <1>7, <1>10, <1>14, <1>16, <1>17, <1>20 DEF ObjectsInv
<1>22. nursery' \in DOMAIN h2.mgroups
  BY <1>6, <1>7, <1>10, <1>16 DEF Grown
<1>23. PhaseInv'
  BY <1>4, <1>6, <1>10, <1>14, <1>16, <1>19, <1>20, <1>22 DEF PhaseInv
<1> QED  BY <1>21, <1>23 DEF HeapInv

LEMMA ThrowsKeepsHeap ==
  ASSUME HeapInv, handleLivenessThrows
  PROVE  HeapInv'
<1>1. /\ phase' = "thrown"
      /\ UNCHANGED <<mblocks, heapAlloc, nursery, obj, rHpAlloc, live, dead, reached>>
  BY DEF handleLivenessThrows
<1>2. allocator' = allocator
  BY <1>1 DEF allocator
<1> QED  BY <1>1, <1>2 DEF HeapInv, ObjectsInv, PhaseInv

LEMMA FinishGCKeepsHeap ==
  ASSUME HeapInv, FinishGC
  PROVE  HeapInv'
<1>1. PICK h : h = allocator
  OBVIOUS
<1>2. PICK no \in BOOLEAN, gen \in {0, 1} : no = FALSE /\ gen = 0
  OBVIOUS
<1>3. PICK h1 \in setGenerationNo(h, gen) : \E r \in hpAlloc(h1, rHpAlloc, no, gen) : Becomes(r.h) /\ nursery' = r.bd
  BY <1>1, <1>2 DEF FinishGC
<1>4. PICK r \in hpAlloc(h1, rHpAlloc, no, gen) : Becomes(r.h) /\ nursery' = r.bd
  BY <1>3
<1>5. PICK m \in FreeRuns(h.mblocks, 1) : h1 = SetPool(allocMegaGroup(h, m, 1, no, gen), m, no, gen)
  BY <1>2, <1>3 DEF setGenerationNo
<1>6. /\ phase = "free" /\ phase' = "program" /\ rHpAlloc' = 0
      /\ live' = {} /\ dead' = {} /\ reached' = {} /\ obj' = obj
  BY DEF FinishGC
<1>7. /\ GoodGroups(h) /\ rHpAlloc \in Nat
      /\ obj \in [Objects -> ObjectRecord] /\ AllPlaced(h, obj) /\ AllApart(obj)
      /\ DOMAIN h.generations = {0, 1}
      /\ h.pinnedPool \in DOMAIN h.mgroups /\ h.mgroups[h.pinnedPool].pinned
  BY <1>1, <1>6 DEF HeapInv, ObjectsInv, PhaseInv
<1>8. /\ GoodGroups(h1) /\ Grown(h, h1) /\ DOMAIN h1.mgroups = DOMAIN h.mgroups \cup {m}
      /\ h1.mgroups[m].pinned = no /\ h1.mgroups[m].gen_no = gen
      /\ DOMAIN h1.generations = {0, 1}
      /\ ~no => /\ h1.unpinnedPool = m /\ h1.pinnedPool = h.pinnedPool
                /\ h1.generations[gen] = m
  BY <1>5, <1>7, PoolMade
<1>9. GoodPools(h1, 0)
  <2>1. h.pinnedPool \in DOMAIN h1.mgroups /\ h1.mgroups[h.pinnedPool].pinned
    BY <1>7, <1>8 DEF Grown
  <2> QED  BY <1>2, <1>8, <2>1 DEF GoodPools
<1>10. /\ GoodGroups(r.h) /\ Grown(h1, r.h) /\ r.bd \in DOMAIN r.h.mgroups
       /\ r.h.unpinnedPool = h1.unpinnedPool /\ r.h.pinnedPool = h1.pinnedPool
       /\ r.h.generations = h1.generations
  BY <1>4, <1>7, <1>8, GroupAdded
<1>11. GoodPools(r.h, 0)
  BY <1>9, <1>10, PoolsStay
<1>12. AllPlaced(r.h, obj)
  <2>1. AllPlaced(h1, obj)
    BY <1>7, <1>8, ObjectsStay
  <2> QED  BY <1>7, <1>8, <1>10, <2>1, ObjectsStay
<1>13. allocator' = r.h
  BY <1>4, <1>10, AllocatorBecomes
<1>14. ObjectsInv'
  BY <1>6, <1>7, <1>10, <1>12, <1>13 DEF ObjectsInv
<1>15. PhaseInv'
  BY <1>4, <1>6, <1>10, <1>11, <1>13 DEF PhaseInv
<1> QED  BY <1>14, <1>15 DEF HeapInv

\* The generations that a collection has emptied are forgotten.
LEMMA KeptGenerations ==
  ASSUME NEW h, GoodGroups(h), DOMAIN h.generations = {0, 1},
         NEW h2, h2 = GenerationsKept(h)
  PROVE  /\ GoodGroups(h2) /\ h2.mgroups = h.mgroups /\ h2.mblocks = h.mblocks
         /\ h2.pinnedPool = h.pinnedPool /\ DOMAIN h2.generations = {0, 1}
<1> DEFINE gs == [g \in DOMAIN h.generations |->
                   IF h.generations[g] \in DOMAIN h.mgroups THEN h.generations[g] ELSE NoGroup]
<1>1. DOMAIN gs = {0, 1}
  OBVIOUS
<1>2. h2 = [h EXCEPT !.generations = gs]
  BY DEF GenerationsKept
<1> HIDE DEF gs
<1>3. h2 = [mblocks |-> h.mblocks, mgroups |-> h.mgroups, unpinnedPool |-> h.unpinnedPool,
            pinnedPool |-> h.pinnedPool, generations |-> gs]
  BY <1>2 DEF GoodGroups, IsAllocator
<1>4. /\ h2.mblocks = h.mblocks /\ h2.mgroups = h.mgroups
      /\ h2.pinnedPool = h.pinnedPool /\ h2.generations = gs
  BY <1>3
<1>5. IsAllocator(h2)
  BY <1>3 DEF IsAllocator
<1>6. \A m \in DOMAIN h2.mgroups : GoodGroup(h2, m)
  BY <1>4 DEF GoodGroups, GoodGroup, current_limit
<1>7. GoodGroups(h2)
  BY <1>4, <1>5, <1>6 DEF GoodGroups
<1> QED  BY <1>1, <1>4, <1>7

LEMMA LivenessKeepsHeap ==
  ASSUME HeapInv, handleLiveness
  PROVE  HeapInv'
<1>1. PICK h : h = allocator
  OBVIOUS
<1>2. PICK swept : swept = Swept(h, Freed)
  OBVIOUS
<1>3. /\ phase = "evacuate" /\ live \cup dead \subseteq DOMAIN h.mgroups
      /\ obj' = [o \in Objects |-> IF o \in reached THEN obj[o] ELSE NoObject]
      /\ phase' = "free" /\ UNCHANGED <<nursery, rHpAlloc, live, dead, reached>>
  BY <1>1 DEF handleLiveness, allocator
<1>4. PICK yes \in BOOLEAN, gen \in {0, 1} : yes = TRUE /\ gen = 0
  OBVIOUS
<1>5. \E h1 \in PinnedPoolKept(swept) : Becomes(GenerationsKept(h1))
  <2>1. \E h1 \in PinnedPoolKept(Swept(allocator, Freed)) :
          Becomes(GenerationsKept(h1))
    BY DEF handleLiveness
  <2> QED  BY <1>1, <1>2, <2>1
<1>6. PICK h1 \in PinnedPoolKept(swept) : Becomes(GenerationsKept(h1))
  BY <1>5
<1>7. PICK h2 : h2 = GenerationsKept(h1)
  OBVIOUS
<1>8. /\ GoodGroups(h) /\ GoodPools(h, 1) /\ rHpAlloc \in Nat
      /\ obj \in [Objects -> ObjectRecord] /\ AllPlaced(h, obj) /\ AllApart(obj)
      /\ Noted(h, obj, live, dead, reached)
  BY <1>1, <1>3 DEF HeapInv, ObjectsInv, PhaseInv
<1>9. /\ GoodGroups(swept) /\ DOMAIN swept.mgroups = DOMAIN h.mgroups \ Freed
      /\ \A m \in DOMAIN h.mgroups \ Freed : swept.mgroups[m] = h.mgroups[m]
      /\ swept.pinnedPool = h.pinnedPool /\ swept.generations = h.generations
  <2>1. PICK freed : freed = Freed
    OBVIOUS
  <2>2. swept = Swept(h, freed)
    BY <1>2, <2>1
  <2>3. /\ GoodGroups(swept) /\ DOMAIN swept.mgroups = DOMAIN h.mgroups \ freed
        /\ \A m \in DOMAIN h.mgroups \ freed : swept.mgroups[m] = h.mgroups[m]
        /\ swept.pinnedPool = h.pinnedPool /\ swept.generations = h.generations
    BY <1>8, <2>2, GroupsFreed
  <2> QED  BY <2>1, <2>3
<1>10. Freed = {m \in DOMAIN h.mgroups : m \in dead \/ m \notin live}
  BY <1>1 DEF Freed, allocator
<1>11. /\ GoodGroups(h1) /\ Grown(swept, h1) /\ DOMAIN h1.generations = {0, 1}
       /\ h1.pinnedPool \in DOMAIN h1.mgroups /\ h1.mgroups[h1.pinnedPool].pinned
       /\ DOMAIN h1.mgroups \subseteq DOMAIN swept.mgroups \cup {h1.pinnedPool}
  <2>1. CASE h.pinnedPool \in DOMAIN swept.mgroups
    <3>1. h1 = swept
      BY <1>6, <1>9, <2>1 DEF PinnedPoolKept
    <3>2. \A m \in DOMAIN swept.mgroups : swept.mgroups[m].free \in Nat
      BY <1>9 DEF GoodGroups, GoodGroup, GroupRecord
    <3>3. Grown(swept, swept)
      BY <3>2 DEF Grown
    <3>4. DOMAIN swept.generations = {0, 1}
      BY <1>8, <1>9 DEF GoodPools
    <3>5. swept.mgroups[h.pinnedPool].pinned
      BY <1>8, <1>9, <2>1 DEF GoodPools
    <3> QED  BY <1>9, <2>1, <3>1, <3>3, <3>4, <3>5
  <2>2. CASE h.pinnedPool \notin DOMAIN swept.mgroups
    <3>1. PICK m \in FreeRuns(swept.mblocks, 1) : h1 = SetPool(allocMegaGroup(swept, m, 1, yes, gen), m, yes, gen)
      BY <1>4, <1>6, <1>9, <2>2 DEF PinnedPoolKept
    <3>2. DOMAIN swept.generations = {0, 1}
      BY <1>8, <1>9 DEF GoodPools
    <3>3. /\ GoodGroups(h1) /\ Grown(swept, h1) /\ DOMAIN h1.mgroups = DOMAIN swept.mgroups \cup {m}
          /\ h1.mgroups[m].pinned = yes /\ DOMAIN h1.generations = {0, 1}
          /\ yes => h1.pinnedPool = m
      BY <1>9, <3>1, <3>2, PoolMade
    <3> QED  BY <1>4, <3>3
  <2> QED  BY <2>1, <2>2
<1>12. /\ GoodGroups(h2) /\ h2.mgroups = h1.mgroups /\ h2.mblocks = h1.mblocks
       /\ h2.pinnedPool = h1.pinnedPool /\ DOMAIN h2.generations = {0, 1}
  BY <1>7, <1>11, KeptGenerations
<1>13. Becomes(h2)
  BY <1>6, <1>7
<1>14. allocator' = h2
  BY <1>12, <1>13, AllocatorBecomes
<1>15. \A o \in Objects : obj[o].addr \in Nat /\ obj[o].size \in Nat
  BY <1>8 DEF ObjectRecord
<1>16. \A o \in reached : o \in Objects /\ obj[o].size > 0 /\ obj'[o] = obj[o]
  BY <1>3, <1>8 DEF Noted
\* What was reached stays where it is.
<1>17. ASSUME NEW o \in reached, NEW m \in DOMAIN swept.mgroups, Lies(h, obj[o], m)
       PROVE  m \in DOMAIN h2.mgroups /\ Lies(h2, obj'[o], m)
  <2>1. Lies(swept, obj[o], m)
    BY <1>9, <1>17 DEF Lies
  <2>2. Lies(h1, obj[o], m)
    BY <1>9, <1>11, <1>15, <1>16, <2>1, LiesLater
  <2> QED  BY <1>12, <1>16, <2>2 DEF Lies
<1>18. ASSUME NEW o \in reached
       PROVE  \E m \in DOMAIN h2.mgroups : Lies(h2, obj'[o], m)
  <2>1. PICK m \in DOMAIN h.mgroups : Lies(h, obj[o], m)
    BY <1>8, <1>16 DEF AllPlaced
  <2>2. m \in live
    BY <1>3, <1>8, <2>1 DEF Noted
  <2>3. m \notin dead
    BY <1>8, <2>1, <2>2 DEF Noted
  <2>4. m \in DOMAIN swept.mgroups
    BY <1>9, <1>10, <2>1, <2>2, <2>3
  <2> QED  BY <1>17, <2>1, <2>4
<1>19. ASSUME NEW m \in DOMAIN h2.mgroups, m # h2.pinnedPool
       PROVE  \E o \in reached : o \in Objects /\ Lies(h2, obj'[o], m)
  <2>1. m \in DOMAIN swept.mgroups
    BY <1>11, <1>12, <1>19
  <2>2. m \in DOMAIN h.mgroups /\ m \in live
    BY <1>9, <1>10, <2>1
  <2>3. PICK o \in reached : Lies(h, obj[o], m)
    BY <1>8, <2>2 DEF Noted
  <2> QED  BY <1>16, <1>17, <2>1, <2>3
<1>20. /\ obj' \in [Objects -> ObjectRecord]
       /\ \A o \in Objects : o \notin reached => obj'[o].size = 0
  BY <1>3, <1>8 DEF NoObject, ObjectRecord
<1>21. AllPlaced(h2, obj')
  BY <1>18, <1>20 DEF AllPlaced
<1>22. AllApart(obj')
  <2> SUFFICES ASSUME NEW p \in Objects, NEW q \in Objects, p # q, obj'[p].size > 0, obj'[q].size > 0
               PROVE  obj'[p].addr + obj'[p].size <= obj'[q].addr \/ obj'[q].addr + obj'[q].size <= obj'[p].addr
    BY DEF AllApart
  <2>1. p \in reached /\ q \in reached
    BY <1>20
  <2>2. obj'[p] = obj[p] /\ obj'[q] = obj[q]
    BY <1>16, <2>1
  <2> QED  BY <1>8, <2>2 DEF AllApart
<1>23. ObjectsInv'
  BY <1>3, <1>8, <1>12, <1>14, <1>20, <1>21, <1>22 DEF ObjectsInv
<1>24. h2.pinnedPool \in DOMAIN h2.mgroups /\ h2.mgroups[h2.pinnedPool].pinned
  BY <1>11, <1>12
<1>25. PhaseInv'
  BY <1>3, <1>12, <1>14, <1>19, <1>24 DEF PhaseInv
<1> QED  BY <1>23, <1>25 DEF HeapInv

LEMMA HeapNextKeeps ==
  HeapInv /\ [HeapNext]_heapVars => HeapInv'
<1> SUFFICES ASSUME HeapInv, [HeapNext]_heapVars PROVE HeapInv'
  OBVIOUS
<1>1. CASE \E o \in Objects : \E b \in Sizes :
             (\E pinned \in BOOLEAN : Allocate(o, b, pinned)) \/ (b < BLOCK_SIZE /\ HpBump(o, b))
  BY <1>1, AllocateKeepsHeap, HpBumpKeepsHeap
<1>2. CASE HpGarbage
  BY <1>2, HpGarbageKeepsHeap
<1>3. CASE \E b \in Sizes : b < BLOCK_SIZE /\ (HeapOverflowSkip(b) \/ HeapOverflow(b))
  BY <1>3, HeapOverflowSkipKeepsHeap, HeapOverflowKeepsHeap
<1>4. CASE \E o \in Objects : EvacuatePinned(o) \/ EvacuateUnpinned(o)
  BY <1>4, EvacuatePinnedKeepsHeap, EvacuateUnpinnedKeepsHeap
<1>5. CASE handleLiveness
  BY <1>5, LivenessKeepsHeap
<1>6. CASE handleLivenessThrows
  BY <1>6, ThrowsKeepsHeap
<1>7. CASE FinishGC
  BY <1>7, FinishGCKeepsHeap
<1>8. CASE UNCHANGED heapVars
  <2>1. UNCHANGED <<mblocks, heapAlloc, nursery, obj, phase, rHpAlloc, live, dead, reached>>
    BY <1>8 DEF heapVars
  <2>2. allocator' = allocator
    BY <2>1 DEF allocator
  <2> QED  BY <2>1, <2>2 DEF HeapInv, ObjectsInv, PhaseInv
<1> QED  BY <1>1, <1>2, <1>3, <1>4, <1>5, <1>6, <1>7, <1>8 DEF HeapNext

\* An object that lies in a group has its bytes there.
LEMMA BytesOfObject ==
  ASSUME HeapInv, NEW o \in Objects, NEW m \in DOMAIN heapAlloc.mgroups, Lies(allocator, obj[o], m)
  PROVE  Bytes(o) \subseteq GroupBytes(m)
<1>1. obj[o].addr \in Nat /\ obj[o].size \in Nat
  BY DEF HeapInv, ObjectsInv, ObjectRecord
<1>2. allocator.mgroups = heapAlloc.mgroups
  BY DEF allocator
<1>3. PICK e \in Nat, p \in Nat, f \in Nat : e = heapAlloc.mgroups[m].free /\ p = m * MBLOCK_SIZE /\ f = FIRST_BLOCK_OFF
  <2>1. GoodGroup(allocator, m)
    BY <1>2 DEF HeapInv, ObjectsInv, GoodGroups
  <2> QED  BY <1>2, <2>1, LayoutSizes DEF GoodGroup, GroupRecord
<1>4. p + f <= obj[o].addr /\ obj[o].addr + obj[o].size <= e
  BY <1>2, <1>3 DEF Lies
<1>5. FIRST_BLOCK(m * MBLOCK_SIZE) = p + f
  BY <1>3 DEF FIRST_BLOCK
<1> QED  BY <1>1, <1>3, <1>4, <1>5 DEF Bytes, GroupBytes

LEMMA HeapInvSuffices == HeapInv => HeapSound
<1> SUFFICES ASSUME HeapInv PROVE HeapSound
  OBVIOUS
<1>1. /\ allocator.mgroups = heapAlloc.mgroups /\ allocator.mblocks = mblocks
      /\ allocator.unpinnedPool = heapAlloc.unpinnedPool /\ allocator.pinnedPool = heapAlloc.pinnedPool
      /\ allocator.generations = heapAlloc.generations
      /\ \A m : current_limit(heapAlloc, m) = current_limit(allocator, m)
  BY DEF allocator, current_limit
<1>2. GoodGroups(allocator)
  BY DEF HeapInv, ObjectsInv
<1>3. \A o \in Objects : obj[o].addr \in Nat /\ obj[o].size \in Nat
  BY DEF HeapInv, ObjectsInv, ObjectRecord
<1>4. PoolsAllocated
  <2>1. CASE phase = "program"
    BY <1>1, <2>1 DEF HeapInv, PhaseInv, GoodPools, PoolsAllocated
  <2>2. CASE phase = "evacuate"
    BY <1>1, <2>2 DEF HeapInv, PhaseInv, GoodPools, PoolsAllocated
  <2> QED  BY <2>1, <2>2 DEF PoolsAllocated
<1>5. ObjectsApart
  <2> SUFFICES ASSUME phase # "thrown"
               PROVE  /\ \A o \in Objects : \E m \in DOMAIN heapAlloc.mgroups : Bytes(o) \subseteq GroupBytes(m)
                      /\ \A o, q \in Objects : o # q => Bytes(o) \cap Bytes(q) = {}
                      /\ \A m \in DOMAIN heapAlloc.mgroups : heapAlloc.mgroups[m].free <= current_limit(heapAlloc, m)
    BY DEF ObjectsApart
  <2>1. AllPlaced(allocator, obj) /\ AllApart(obj)
    BY DEF HeapInv, ObjectsInv
  <2>2. heapAlloc.pinnedPool \in DOMAIN heapAlloc.mgroups
    BY <1>1 DEF HeapInv, ObjectsInv, PhaseInv, GoodPools
  <2>3. ASSUME NEW o \in Objects PROVE \E m \in DOMAIN heapAlloc.mgroups : Bytes(o) \subseteq GroupBytes(m)
    <3>1. CASE obj[o].size > 0
      <4>1. PICK m \in DOMAIN heapAlloc.mgroups : Lies(allocator, obj[o], m)
        BY <1>1, <2>1, <3>1 DEF AllPlaced
      <4> QED  BY <4>1, BytesOfObject
    <3>2. CASE ~(obj[o].size > 0)
      <4>1. Bytes(o) = {}
        BY <1>3, <3>2 DEF Bytes
      <4> QED  BY <2>2, <4>1
    <3> QED  BY <3>1, <3>2
  <2>4. ASSUME NEW o \in Objects, NEW q \in Objects, o # q PROVE Bytes(o) \cap Bytes(q) = {}
    <3>1. CASE obj[o].size > 0 /\ obj[q].size > 0
      <4>1. obj[o].addr + obj[o].size <= obj[q].addr \/ obj[q].addr + obj[q].size <= obj[o].addr
        BY <2>1, <2>4, <3>1 DEF AllApart
      <4> QED  BY <1>3, <4>1 DEF Bytes
    <3>2. CASE ~(obj[o].size > 0) \/ ~(obj[q].size > 0)
      BY <1>3, <3>2 DEF Bytes
    <3> QED  BY <3>1, <3>2
  <2>5. \A m \in DOMAIN heapAlloc.mgroups : heapAlloc.mgroups[m].free <= current_limit(heapAlloc, m)
    BY <1>1, <1>2 DEF GoodGroups, GoodGroup
  <2> QED  BY <2>3, <2>4, <2>5
<1>6. NothingLeaks
  BY <1>1, <1>2 DEF NothingLeaks, GoodGroups, GoodGroup
<1>7. GarbageIsFreed
  <2> SUFFICES ASSUME phase = "free", NEW m \in DOMAIN heapAlloc.mgroups, m # heapAlloc.pinnedPool
               PROVE  \E o \in reached : Bytes(o) \subseteq GroupBytes(m)
    BY DEF GarbageIsFreed
  <2>1. PICK o \in reached : o \in Objects /\ Lies(allocator, obj[o], m)
    BY <1>1 DEF HeapInv, PhaseInv
  <2> QED  BY <2>1, BytesOfObject
<1> QED  BY <1>4, <1>5, <1>6, <1>7 DEF HeapSound

LEMMA HeapInvariant == HeapSpec => []HeapInv
BY InitHeap, HeapNextKeeps, PTL DEF HeapSpec

(* Whatever the program allocates, whatever places aligned_alloc chooses   *)
(* and whatever a collection reaches: objects lie in the memory of a group *)
(* and apart from each other, the pools are groups that are not freed,     *)
(* the allocator loses no megablock, and a collection that does not throw  *)
(* leaves only groups with something it has reached.                       *)
THEOREM HeapKept == HeapSpec => []HeapSound
BY HeapInvariant, HeapInvSuffices, PTL

LEMMA PinnedStayHolds ==
  HeapInv /\ [HeapNext]_heapVars => [PinnedStay]_heapVars
<1> SUFFICES ASSUME HeapInv, HeapNext, NEW o \in Objects, NEW m \in DOMAIN heapAlloc.mgroups,
                    heapAlloc.mgroups[m].pinned, Exists(o), bdescr(obj[o].addr) = m
             PROVE  obj'[o] \in {obj[o], NoObject}
  BY DEF PinnedStay
<1>1. obj \in [Objects -> ObjectRecord]
  BY DEF HeapInv, ObjectsInv
<1>2. CASE \E q \in Objects : \E b \in Sizes :
             (\E pinned \in BOOLEAN : Allocate(q, b, pinned)) \/ (b < BLOCK_SIZE /\ HpBump(q, b))
  <2>1. PICK q \in Objects : ~Exists(q) /\ \E v : obj' = [obj EXCEPT ![q] = v]
    BY <1>2 DEF Allocate, HpBump
  <2>2. PICK v : obj' = [obj EXCEPT ![q] = v]
    BY <2>1
  <2> QED  BY <1>1, <2>1, <2>2
<1>3. CASE HpGarbage
  BY <1>3 DEF HpGarbage
<1>4. CASE \E b \in Sizes : b < BLOCK_SIZE /\ (HeapOverflowSkip(b) \/ HeapOverflow(b))
  BY <1>4 DEF HeapOverflowSkip, HeapOverflow
<1>5. CASE \E q \in Objects : EvacuatePinned(q) \/ EvacuateUnpinned(q)
  <2>1. CASE \E q \in Objects : EvacuatePinned(q)
    BY <2>1 DEF EvacuatePinned
  <2>2. CASE \E q \in Objects : EvacuateUnpinned(q)
    <3>1. PICK q \in Objects : EvacuateUnpinned(q)
      BY <2>2
    <3>2. PICK v : obj' = [obj EXCEPT ![q] = v]
      BY <3>1 DEF EvacuateUnpinned
    <3>3. q # o
      BY <3>1 DEF EvacuateUnpinned, isPinned
    <3> QED  BY <1>1, <3>2, <3>3
  <2> QED  BY <1>5, <2>1, <2>2
<1>6. CASE handleLiveness
  BY <1>6 DEF handleLiveness
<1>7. CASE handleLivenessThrows
  BY <1>7 DEF handleLivenessThrows
<1>8. CASE FinishGC
  BY <1>8 DEF FinishGC
<1> QED  BY <1>2, <1>3, <1>4, <1>5, <1>6, <1>7, <1>8 DEF HeapNext

(* No step moves a pinned object whose descriptor bdescr finds; only the   *)
(* end of a collection that has not reached it takes it away.              *)
THEOREM PinnedObjectsStay == HeapSpec => [][PinnedStay]_heapVars
BY HeapInvariant, PinnedStayHolds, PTL DEF HeapSpec
=============================================================================
