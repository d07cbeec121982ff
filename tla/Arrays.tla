------------------------------- MODULE Arrays -------------------------------
(***************************************************************************)
(* Boxed arrays with the card table behind their elements: the macros of   *)
(* Cmm.h that the primitives of PrimOps.cmm are made of, on a memory of    *)
(* words, and what the collection of rts.gc.mjs copies of an array.  All   *)
(* arrays are below the size from which objects are pinned.                *)
(***************************************************************************)
EXTENDS Integers, Sequences, FiniteSets

CONSTANTS
  MUT_ARR_PTRS_CARD_BITS, WordBytes, WordBits, \* of a machine
  MemWords, MaxArrays, MaxElems,               \* bounds
  Contents, MaxArrayCollections

\* Every word of the memory has an address.
ASSUME ArraysAssumption ==
  /\ MUT_ARR_PTRS_CARD_BITS \in Nat /\ 2 ^ MUT_ARR_PTRS_CARD_BITS \in Nat \ {0}
  /\ WordBytes \in Nat \ {0} /\ WordBits \in Nat
  /\ MemWords \in Nat /\ 2 ^ WordBits \in Nat /\ MemWords <= 2 ^ WordBits

VARIABLES
  arrMem,       \* the words: their kind and contents
  hp,           \* the first free word
  arrays,       \* the addresses of the arrays
  shadow,       \* what the program has put in each
  changed,      \* the elements that were written since they were made or moved
  arrCollections

arraysVars == <<arrMem, hp, arrays, shadow, changed, arrCollections>>

SIZEOF_StgMutArrPtrs == 3
Fresh == [kind |-> "cards", v |-> [k \in 0..WordBytes-1 |-> 0]]
info(w) == [kind |-> "info", v |-> w]
number(n) == [kind |-> "number", v |-> n]
element(x) == [kind |-> "element", v |-> x]
----------------------------------------------------------------------------
\* Arithmetic is that of words.
Word(n) == n % (2 ^ WordBits)
ROUNDUP_BYTES_TO_WDS(n) == (n + WordBytes - 1) \div WordBytes

mutArrCardMask == 2 ^ MUT_ARR_PTRS_CARD_BITS - 1
mutArrPtrCardDown(i) == i \div (2 ^ MUT_ARR_PTRS_CARD_BITS)
mutArrPtrCardUp(i) == (i + mutArrCardMask) \div (2 ^ MUT_ARR_PTRS_CARD_BITS)
mutArrPtrsCardWords(n) == ROUNDUP_BYTES_TO_WDS(mutArrPtrCardUp(n))

ptrs(m, a) == m[a + 1].v
payload(a) == a + SIZEOF_StgMutArrPtrs
cards(m, a) == payload(a) + ptrs(m, a)

\* The bytes from byte first of word a on are set to 1.
memset(m, a, first, count) ==
  LET hit(w, k) == (w - a) * WordBytes + k \in first .. first + count - 1
  IN  [w \in DOMAIN m |->
         IF \A k \in 0..WordBytes-1 : ~hit(w, k) THEN m[w]
         ELSE IF m[w].kind = "cards"
           THEN [kind |-> "cards", v |-> [k \in 0..WordBytes-1 |-> IF hit(w, k) THEN 1 ELSE m[w].v[k]]]
           ELSE [kind |-> "overwritten", v |-> m[w].v]]

memmove(m, d, s, n) == [w \in DOMAIN m |-> IF w \in d .. d + n - 1 THEN m[s + w - d] ELSE m[w]]

\* Word by word from the front.
memcpy(m, d, s, n) ==
  [w \in DOMAIN m |->
     IF w \notin d .. d + n - 1 THEN m[w]
     ELSE IF d > s THEN m[s + ((w - d) % (d - s))] ELSE m[s + w - d]]

\* A bug: the end is taken for the last card.
setCardsShort(m, a, dst_off, n) ==
  LET start_card == mutArrPtrCardDown(dst_off)
      end_card == mutArrPtrCardDown(dst_off + n)
  IN  memset(m, cards(m, a), start_card, end_card - start_card)

setCards(m, a, dst_off, n) ==
  LET start_card == mutArrPtrCardDown(dst_off)
      end_card == mutArrPtrCardDown(Word(dst_off + n - 1))
  IN  memset(m, cards(m, a), start_card, Word(end_card - start_card + 1))
----------------------------------------------------------------------------
ArraysInit ==
  /\ arrMem = [w \in 0..MemWords-1 |-> Fresh] /\ hp = 0
  /\ arrays = <<>> /\ shadow = <<>> /\ changed = <<>> /\ arrCollections = 0

Mutable(i) == arrMem[arrays[i]] = info("DIRTY")
Frozen(i) == arrMem[arrays[i]] \in {info("FROZEN_CLEAN"), info("FROZEN_DIRTY")}

\* A new array with the given header and elements.
allocated(i, xs) ==
  LET n == Len(xs)
      size == n + mutArrPtrsCardWords(n)
      a == hp
  IN  /\ Len(arrays) < MaxArrays /\ hp + SIZEOF_StgMutArrPtrs + size <= MemWords
      /\ hp' = hp + SIZEOF_StgMutArrPtrs + size
      /\ arrMem' = [w \in DOMAIN arrMem |->
                   IF w = a THEN info(i)
                   ELSE IF w = a + 1 THEN number(n)
                   ELSE IF w = a + 2 THEN number(size)
                   ELSE IF w \in payload(a) .. payload(a) + n - 1 THEN xs[w - payload(a) + 1]
                   ELSE arrMem[w]]
      /\ arrays' = Append(arrays, a)
      /\ shadow' = Append(shadow, [k \in 1..n |-> xs[k].v])
      /\ changed' = Append(changed, {})
      /\ UNCHANGED arrCollections

newArray(n, x) == allocated("DIRTY", [k \in 1..n |-> element(x)])

cloneArray(i, to, offset, n) ==
  allocated(to, [k \in 1..n |-> arrMem[payload(arrays[i]) + offset + k - 1]])

\* The elements from offset off on are the program's n elements of array s.
Written(s, src_off, d, dst_off, n) ==
  /\ shadow' = [shadow EXCEPT ![d] = [k \in 1..Len(shadow[d]) |->
                  IF k - 1 \in dst_off .. dst_off + n - 1
                  THEN shadow[s][k - dst_off + src_off] ELSE shadow[d][k]]]
  /\ changed' = [changed EXCEPT ![d] = @ \cup (dst_off .. dst_off + n - 1)]

copy(s, src_off, d, dst_off, n, move) ==
  /\ n # 0
  /\ LET dirty == [arrMem EXCEPT ![arrays[d]] = info("DIRTY")]
         to == payload(arrays[d]) + dst_off
         from == payload(arrays[s]) + src_off
     IN  arrMem' = setCards(IF move THEN memmove(dirty, to, from, n) ELSE memcpy(dirty, to, from, n),
                         arrays[d], dst_off, n)
  /\ Written(s, src_off, d, dst_off, n)
  /\ UNCHANGED <<hp, arrays, arrCollections>>

\* The program copies what is there.
InBounds(i, off, n) == off + n <= Len(shadow[i])

copyArray(s, src_off, d, dst_off, n) ==
  /\ Frozen(s) /\ Mutable(d)
  /\ InBounds(s, src_off, n) /\ InBounds(d, dst_off, n)
  /\ copy(s, src_off, d, dst_off, n, FALSE)

copyMutableArray(s, src_off, d, dst_off, n) ==
  /\ Mutable(s) /\ Mutable(d)
  /\ InBounds(s, src_off, n) /\ InBounds(d, dst_off, n)
  /\ copy(s, src_off, d, dst_off, n, s = d)

\* One that succeeds; one that fails changes nothing.
casArray(i, ind, x) ==
  LET a == arrays[i]
  IN  /\ Mutable(i) /\ ind < Len(shadow[i])
      /\ arrMem' = memset([arrMem EXCEPT ![payload(a) + ind] = element(x)],
                       cards(arrMem, a), ind \div (2 ^ MUT_ARR_PTRS_CARD_BITS), 1)
      /\ shadow' = [shadow EXCEPT ![i][ind + 1] = x]
      /\ changed' = [changed EXCEPT ![i] = @ \cup {ind}]
      /\ UNCHANGED <<hp, arrays, arrCollections>>

unsafeFreezeArray(i) ==
  /\ Mutable(i)
  /\ arrMem' = [arrMem EXCEPT ![arrays[i]] = info("FROZEN_DIRTY")]
  /\ UNCHANGED <<hp, arrays, shadow, changed, arrCollections>>

\* recordMutable does nothing in this runtime.
unsafeThawArray(i) ==
  /\ Frozen(i)
  /\ arrMem' = [arrMem EXCEPT ![arrays[i]] = info("DIRTY")]
  /\ UNCHANGED <<hp, arrays, shadow, changed, arrCollections>>

\* What evacuateClosure copies of an array.
copiedWords(a) == SIZEOF_StgMutArrPtrs + ptrs(arrMem, a)

\* The arrays are moved to new memory, one behind the other.
moveArrays ==
  LET to[i \in 1..Len(arrays)+1] == IF i = 1 THEN 0 ELSE to[i-1] + copiedWords(arrays[i-1])
      words(i) == to[i] .. to[i+1] - 1
  IN  /\ arrCollections < MaxArrayCollections /\ arrCollections' = arrCollections + 1
      /\ \A i \in DOMAIN arrays : arrMem[arrays[i]].kind = "info"
      /\ arrMem' = [w \in DOMAIN arrMem |->
                   IF \E i \in DOMAIN arrays : w \in words(i)
                   THEN LET i == CHOOSE j \in DOMAIN arrays : w \in words(j)
                        IN  arrMem[arrays[i] + w - to[i]]
                   ELSE Fresh]
      /\ hp' = to[Len(arrays) + 1]
      /\ arrays' = [i \in DOMAIN arrays |-> to[i]]
      /\ changed' = [i \in DOMAIN arrays |-> {}]
      /\ UNCHANGED shadow

Elems == 0..MaxElems

ArraysNext ==
  \/ \E n \in Elems, x \in Contents : newArray(n, x)
  \/ \E i \in DOMAIN arrays, to \in {"DIRTY", "FROZEN_CLEAN"}, offset, n \in Elems :
       InBounds(i, offset, n) /\ cloneArray(i, to, offset, n)
  \/ \E s, d \in DOMAIN arrays, src_off, dst_off, n \in Elems :
       copyArray(s, src_off, d, dst_off, n) \/ copyMutableArray(s, src_off, d, dst_off, n)
  \/ \E i \in DOMAIN arrays, ind \in Elems, x \in Contents : casArray(i, ind, x)
  \/ \E i \in DOMAIN arrays : unsafeFreezeArray(i) \/ unsafeThawArray(i)
  \/ moveArrays

ArraysSpec == ArraysInit /\ [][ArraysNext]_arraysVars
----------------------------------------------------------------------------
\* An array is as the program has written it: header, length and elements.
IntactIn(m, a, xs) ==
  /\ m[a].kind = "info" /\ m[a + 1] = number(Len(xs))
  /\ \A k \in 1..Len(xs) : m[payload(a) + k - 1] = element(xs[k])

\* The words of an array are its own, from the header to the end of the card table,
\* and there is a card for each element.
ArraysApart ==
  LET end(i) == arrays[i] + SIZEOF_StgMutArrPtrs + arrMem[arrays[i] + 2].v
  IN  \A i \in DOMAIN arrays :
        /\ end(i) <= hp
        /\ i < Len(arrays) => end(i) <= arrays[i + 1]
        /\ \A k \in 0..Len(shadow[i])-1 :
             cards(arrMem, arrays[i]) * WordBytes + mutArrPtrCardDown(k) < end(i) * WordBytes

\* "The card table is directly after the array data itself": what is written to an
\* array, its cards included, leaves every other array as it is, and each has the
\* elements the program has put in it.
ArraysIntact == \A i \in DOMAIN arrays : IntactIn(arrMem, arrays[i], shadow[i])

\* The card of every element that was written is set, whichever operation wrote it.
CardsMarked ==
  \A i \in DOMAIN arrays : \A k \in changed[i] :
    LET card == mutArrPtrCardDown(k)
        w == arrMem[cards(arrMem, arrays[i]) + (card \div WordBytes)]
    IN  w.kind = "cards" /\ w.v[card % WordBytes] = 1

\* Until a collection forgets their card tables, arrays have words of their own, the
\* elements that were put into them and a card for each written one (Cmm.h:853-928).
ArraysSound == arrCollections = 0 => ArraysApart /\ ArraysIntact /\ CardsMarked

\* A collection moves the arrays with their headers and elements.
CollectionKeepsElements ==
  arrCollections' # arrCollections =>
    \A i \in DOMAIN arrays :
      IntactIn(arrMem, arrays[i], shadow[i]) => IntactIn(arrMem', arrays'[i], shadow[i])
============================================================================
