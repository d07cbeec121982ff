--------------------------- MODULE CollectorProofs ---------------------------
(***************************************************************************)
(* For every heap, every size of a megablock and every depth of calls:     *)
(* what scavengeLoop leaves unscavenged lies in blocks it has left while   *)
(* they were the pool, no closure is copied twice, every pointer that has  *)
(* been changed means what it meant, and calls of evacuateClosure nest no  *)
(* deeper than the evaluation of a closure takes.                          *)
(***************************************************************************)
EXTENDS Collector, SequenceTheorems, TLAPS

Working == {"pointer", "evacuate", "eval", "unwind", "return"}

\* The walk: where closures are, and which blocks are yet to be scavenged.
WalkType ==
  /\ free \in Nat /\ free > Limit
  /\ blocks \in Seq(Seq(Nat)) /\ Len(blocks) >= 1
  /\ blocksToScavenge \in Seq(Nat) /\ liveMBlocks \subseteq DOMAIN blocks
  /\ currentBlock \in Nat /\ currentObject \in Nat
  /\ \A j \in DOMAIN blocksToScavenge : blocksToScavenge[j] \in liveMBlocks
  /\ currentBlock # 0 => currentBlock \in liveMBlocks

InToSpace == \A b \in DOMAIN blocks : \A k \in DOMAIN blocks[b] : blocks[b][k] \in Limit + 1 .. free - 1

LiveIfFilled == \A b \in DOMAIN blocks : blocks[b] # <<>> => b \in liveMBlocks

InProgress ==
  pc \in Working =>
    \/ x \in {0} \cup NonMoved
    \/ currentBlock # 0 /\ currentObject \in DOMAIN blocks[currentBlock] /\ x = blocks[currentBlock][currentObject]

WalkedSoFar ==
  currentBlock # 0 =>
    /\ 1 <= currentObject /\ currentObject <= Len(blocks[currentBlock]) + 1
    /\ \A k \in DOMAIN blocks[currentBlock] : k < currentObject => blocks[currentBlock][k] \in scavenged

Waits(b) == \E j \in DOMAIN blocksToScavenge : blocksToScavenge[j] = b

Covered ==
  \A b \in DOMAIN blocks :
    \/ b \in poolsLeft \/ Waits(b) \/ b = currentBlock \/ b \notin liveMBlocks
    \/ b < Len(blocks) /\ \A k \in DOMAIN blocks[b] : blocks[b][k] \in scavenged

Ended == pc = "done" => AtLimit /\ blocksToScavenge = <<>>

WalkInv ==
  /\ WalkType /\ nonMovedObjectsToScavenge \in Seq(NonMoved)
  /\ InToSpace /\ LiveIfFilled /\ InProgress /\ WalkedSoFar /\ Covered /\ Ended
----------------------------------------------------------------------------
LEMMA LastFront ==
  ASSUME NEW S, NEW s \in Seq(S), s # <<>>
  PROVE  /\ Len(s) \in Nat /\ Len(s) >= 1 /\ Last(s) \in S /\ Last(s) = s[Len(s)]
         /\ Front(s) \in Seq(S) /\ DOMAIN Front(s) = 1 .. Len(s) - 1
         /\ \A j \in 1 .. Len(s) - 1 : Front(s)[j] = s[j]
<1>1. PICK n \in Nat : n = Len(s) /\ n >= 1
  BY EmptySeq
<1>2. Last(s) \in S
  BY <1>1, ElementOfSeq DEF Last
<1>4. \A j \in 1 .. Len(s) - 1 : s[j] \in S
  BY <1>1, ElementOfSeq
<1>5. /\ Front(s) \in Seq(S) /\ Len(Front(s)) = (IF 1 <= Len(s) - 1 THEN (Len(s) - 1) - 1 + 1 ELSE 0)
      /\ \A j \in 1 .. (Len(s) - 1) - 1 + 1 : Front(s)[j] = s[1 + j - 1]
  BY <1>1, <1>4, SubSeqProperties, Len(s) - 1 \in Int DEF Front
<1>6. Len(Front(s)) = Len(s) - 1 /\ \A j \in 1 .. Len(s) - 1 : Front(s)[j] = s[j]
  BY <1>1, <1>5
<1> QED BY <1>1, <1>2, <1>5, <1>6, LenProperties DEF Last

LEMMA Appended ==
  ASSUME NEW S, NEW s \in Seq(S), NEW v \in S
  PROVE  /\ Append(s, v) \in Seq(S) /\ Len(Append(s, v)) = Len(s) + 1 /\ Len(s) \in Nat
         /\ DOMAIN Append(s, v) = 1 .. Len(s) + 1 /\ DOMAIN s = 1 .. Len(s)
         /\ \A k \in 1 .. Len(s) : Append(s, v)[k] = s[k]
         /\ Append(s, v)[Len(s) + 1] = v
BY AppendProperties, LenProperties

\* allocateCopy: the closures there are keep their places, and the new one is in the pool.
LEMMA Allocated ==
  ASSUME blocks \in Seq(Seq(Nat)), Len(blocks) >= 1, NEW v \in Nat, NEW t, t = allocateCopy(v)
  PROVE  /\ t \in Seq(Seq(Nat)) /\ Len(t) \in {Len(blocks), Len(blocks) + 1} /\ Len(blocks) \in Nat
         /\ DOMAIN t = 1..Len(t) /\ DOMAIN blocks = 1..Len(blocks)
         /\ \A b \in 1..Len(blocks) : /\ blocks[b] \in Seq(Nat)
                                      /\ b < Len(t) => t[b] = blocks[b]
         /\ Len(t) = Len(blocks) => t[Len(t)] = Append(blocks[Len(t)], v)
         /\ Len(t) # Len(blocks) => t[Len(t)] = <<v>>
<1>1. PICK n \in Nat : n = Len(blocks) /\ n >= 1
  BY LenProperties
<1>2. DOMAIN blocks = 1..n /\ \A b \in 1..n : blocks[b] \in Seq(Nat)
  BY <1>1, LenProperties, ElementOfSeq
<1>3. Append(blocks[n], v) \in Seq(Nat)
  BY <1>2, Appended
<1>4. CASE Len(Last(blocks)) < BlockClosures
  <2>1. t = [blocks EXCEPT ![n] = Append(blocks[n], v)]
    BY <1>1, <1>4 DEF allocateCopy
  <2>2. t \in Seq(Seq(Nat)) /\ Len(t) = n
    BY <1>1, <1>3, <2>1, ExceptSeq
  <2>3. t[n] = Append(blocks[n], v) /\ \A b \in 1..n : b < n => t[b] = blocks[b]
    BY <1>2, <2>1
  <2>4. DOMAIN t = 1..n
    BY <1>2, <2>1
  <2> QED BY <1>1, <1>2, <2>2, <2>3, <2>4
<1>5. CASE ~(Len(Last(blocks)) < BlockClosures)
  <2>1. t = Append(blocks, <<v>>)
    BY <1>5 DEF allocateCopy
  <2>2. <<v>> \in Seq(Nat)
    OBVIOUS
  <2>3. /\ t \in Seq(Seq(Nat)) /\ Len(t) = n + 1 /\ DOMAIN t = 1..n + 1
        /\ \A b \in 1..n : t[b] = blocks[b]
        /\ t[n + 1] = <<v>>
    BY <1>1, <2>1, <2>2, Appended
  <2> QED BY <1>1, <1>2, <2>3
<1> QED BY <1>4, <1>5

\* pushBlock: a block waits, or is live already.
LEMMA Pushed ==
  ASSUME blocksToScavenge \in Seq(Nat), NEW m \in Nat, pushBlock(m),
         \A j \in DOMAIN blocksToScavenge : blocksToScavenge[j] \in liveMBlocks
  PROVE  /\ m \in liveMBlocks' /\ liveMBlocks' = liveMBlocks \cup {m} /\ blocksToScavenge' \in Seq(Nat)
         /\ \A j \in DOMAIN blocksToScavenge' : blocksToScavenge'[j] \in liveMBlocks'
         /\ \A b : Waits(b) => Waits(b)'
         /\ m \notin liveMBlocks => Waits(m)'
<1>1. CASE m \in liveMBlocks
  BY <1>1 DEF pushBlock, Waits
<1>2. CASE m \notin liveMBlocks
  <2>1. blocksToScavenge' = Append(blocksToScavenge, m) /\ liveMBlocks' = liveMBlocks \cup {m}
    BY <1>2 DEF pushBlock
  <2>2. /\ blocksToScavenge' \in Seq(Nat) /\ DOMAIN blocksToScavenge' = 1..Len(blocksToScavenge) + 1
        /\ DOMAIN blocksToScavenge = 1..Len(blocksToScavenge) /\ Len(blocksToScavenge) \in Nat
        /\ \A j \in 1..Len(blocksToScavenge) : blocksToScavenge'[j] = blocksToScavenge[j]
        /\ blocksToScavenge'[Len(blocksToScavenge) + 1] = m
    BY <2>1, Appended
  <2>3. \A b : Waits(b) => Waits(b)'
    BY <2>2 DEF Waits
  <2>4. Waits(m)'
    BY <2>2 DEF Waits
  <2>5. \A j \in DOMAIN blocksToScavenge' : blocksToScavenge'[j] \in liveMBlocks'
    BY <2>1, <2>2
  <2> QED BY <2>1, <2>2, <2>3, <2>4, <2>5
<1> QED BY <1>1, <1>2

\* allocateCopy and pushBlock together: the block the new closure is put in waits, or is
\* being scavenged, or has been left.
LEMMA CopyKeepsWalk ==
  ASSUME WalkInv, NEW a, copyClosure(a), pc \in Working, pc' \in Working,
         UNCHANGED <<walkVars, nonMovedObjectsToScavenge>>
  PROVE  WalkInv'
<1>0. WalkType /\ InToSpace /\ LiveIfFilled /\ InProgress /\ WalkedSoFar /\ Covered
  BY DEF WalkInv
<1>b. /\ free \in Nat /\ free > Limit /\ Limit \in Nat
      /\ blocks \in Seq(Seq(Nat)) /\ Len(blocks) >= 1 /\ blocksToScavenge \in Seq(Nat)
      /\ \A j \in DOMAIN blocksToScavenge : blocksToScavenge[j] \in liveMBlocks
  BY <1>0, CollectorAssumption DEF WalkType
<1>c. blocks' = allocateCopy(free) /\ free' = free + 1 /\ pushBlock(Len(blocks'))
  BY DEF copyClosure
<1>d. PICK n \in Nat, m \in Nat :
        n = Len(blocks) /\ m = Len(blocks') /\ n >= 1 /\ m >= 1 /\ (m = n \/ m = n + 1)
  BY <1>b, <1>c, Allocated
<1>e. n \in Nat /\ m \in Nat /\ n >= 1 /\ m >= 1 /\ (m = n \/ m = n + 1)
  BY <1>d
<1>f. \A b \in 1..m : b # m => b \in 1..n /\ b < m
  BY <1>e
<1>g. /\ m \in 1..m /\ n \in 1..n
      /\ \A S : S \subseteq 1..n => S \cup {m} \subseteq 1..m
      /\ m \in 1..n => m = n
  BY <1>e
<1>h. \A b \in 1..n : ~(b < m) => b = m /\ m = n
  BY <1>e
<1>a. blocks' = allocateCopy(free) /\ free' = free + 1 /\ pushBlock(m)
  BY <1>c, <1>d
<1>1. /\ blocks' \in Seq(Seq(Nat))
      /\ DOMAIN blocks' = 1..m /\ DOMAIN blocks = 1..n
      /\ \A b \in 1..n : blocks[b] \in Seq(Nat) /\ (b < m => blocks'[b] = blocks[b])
      /\ m = n => blocks'[m] = Append(blocks[m], free)
      /\ m # n => blocks'[m] = <<free>>
  BY <1>a, <1>b, <1>d, Allocated
<1>2. \A b \in 1..n : /\ DOMAIN blocks[b] \subseteq DOMAIN blocks'[b]
                      /\ \A k \in DOMAIN blocks[b] : blocks'[b][k] = blocks[b][k]
                      /\ b < m => blocks'[b] = blocks[b]
  <2> SUFFICES ASSUME NEW b \in 1..n
               PROVE  /\ DOMAIN blocks[b] \subseteq DOMAIN blocks'[b]
                      /\ \A k \in DOMAIN blocks[b] : blocks'[b][k] = blocks[b][k]
    BY <1>1
  <2>1. CASE b < m
    BY <1>1, <2>1
  <2>2. CASE ~(b < m)
    <3>1. b = m /\ m = n
      BY <1>d, <2>2
    <3>2. blocks'[b] = Append(blocks[b], free) /\ blocks[b] \in Seq(Nat)
      BY <1>1, <3>1
    <3>3. /\ DOMAIN blocks'[b] = 1..Len(blocks[b]) + 1 /\ DOMAIN blocks[b] = 1..Len(blocks[b])
          /\ \A k \in 1..Len(blocks[b]) : blocks'[b][k] = blocks[b][k]
          /\ Len(blocks[b]) \in Nat
      BY <1>b, <3>2, Appended
    <3> QED BY <3>3
  <2> QED BY <2>1, <2>2
<1>3. ASSUME NEW k \in DOMAIN blocks'[m]
      PROVE  blocks'[m][k] = free \/ (m = n /\ k \in DOMAIN blocks[m] /\ blocks'[m][k] = blocks[m][k])
  <2>1. CASE m = n
    <3>1. blocks'[m] = Append(blocks[m], free) /\ blocks[m] \in Seq(Nat)
      BY <1>1, <1>g, <2>1
    <3>2. /\ DOMAIN blocks'[m] = 1..Len(blocks[m]) + 1 /\ DOMAIN blocks[m] = 1..Len(blocks[m])
          /\ Len(blocks[m]) \in Nat /\ blocks'[m][Len(blocks[m]) + 1] = free
          /\ \A y \in 1..Len(blocks[m]) : blocks'[m][y] = blocks[m][y]
      BY <1>b, <3>1, Appended
    <3>3. k = Len(blocks[m]) + 1 \/ k \in 1..Len(blocks[m])
      BY <3>2
    <3> QED BY <2>1, <3>2, <3>3
  <2>2. CASE m # n
    <3>1. blocks'[m] = <<free>>
      BY <1>1, <2>2
    <3>2. k \in {1}
      BY <3>1
    <3> QED BY <3>1, <3>2
  <2> QED BY <2>1, <2>2
<1>4. /\ m \in liveMBlocks' /\ liveMBlocks' = liveMBlocks \cup {m} /\ blocksToScavenge' \in Seq(Nat)
      /\ \A j \in DOMAIN blocksToScavenge' : blocksToScavenge'[j] \in liveMBlocks'
      /\ \A b : Waits(b) => Waits(b)'
      /\ m \notin liveMBlocks => Waits(m)'
  <2> QED BY <1>a, <1>b, Pushed
<1>5. WalkType'
  <2>1. /\ liveMBlocks \subseteq 1..n /\ currentBlock \in Nat /\ currentObject \in Nat
        /\ currentBlock # 0 => currentBlock \in liveMBlocks
    BY <1>0, <1>1 DEF WalkType
  <2>2. liveMBlocks' \subseteq 1..m
    BY <1>g, <1>4, <2>1
  <2>3. free' \in Nat /\ free' > Limit /\ m >= 1
    BY <1>d, <1>a, <1>b
  <2>4. currentBlock' = currentBlock /\ currentObject' = currentObject
    BY <1>0 DEF walkVars
  <2>5. liveMBlocks \subseteq liveMBlocks'
    BY <1>4
  <2> QED BY SMTT(30), <1>1, <1>4, <2>1, <2>2, <2>3, <2>4, <2>5 DEF WalkType
<1>6. InToSpace'
  <2> SUFFICES ASSUME NEW b \in 1..m, NEW k \in DOMAIN blocks'[b]
               PROVE  blocks'[b][k] \in Limit + 1 .. free' - 1
    BY <1>0, <1>1 DEF InToSpace
  <2>1. \A y \in Limit + 1 .. free - 1 : y \in Limit + 1 .. free' - 1
    BY <1>a, <1>b
  <2>2. free \in Limit + 1 .. free' - 1
    BY <1>a, <1>b
  <2>3. CASE b = m
    <3>1. blocks'[b][k] = free \/ (m = n /\ k \in DOMAIN blocks[m] /\ blocks'[b][k] = blocks[m][k])
      BY <1>3, <2>3
    <3>2. m = n /\ k \in DOMAIN blocks[m] => blocks[m][k] \in Limit + 1 .. free - 1
      BY <1>0, <1>1, <1>g, <1>3 DEF InToSpace
    <3> QED BY <2>1, <2>2, <3>1, <3>2
  <2>4. CASE b # m
    <3>1. b \in 1..n /\ blocks'[b] = blocks[b]
      BY <1>1, <1>f, <2>4
    <3>2. blocks[b][k] \in Limit + 1 .. free - 1
      BY <1>0, <1>1, <3>1 DEF InToSpace
    <3> QED BY <2>1, <3>1, <3>2
  <2> QED BY <2>3, <2>4
<1>7. LiveIfFilled'
  <2> SUFFICES ASSUME NEW b \in 1..m, blocks'[b] # <<>> PROVE b \in liveMBlocks'
    BY <1>0, <1>1 DEF LiveIfFilled
  <2>1. CASE b = m
    BY <1>4, <2>1
  <2>2. CASE b # m
    <3>1. b \in 1..n /\ blocks'[b] = blocks[b]
      BY <1>1, <1>f, <2>2
    <3> QED BY <1>0, <1>1, <1>4, <3>1 DEF LiveIfFilled
  <2> QED BY <2>1, <2>2
<1>8. InProgress' /\ WalkedSoFar'
  <2>1. /\ currentBlock' = currentBlock /\ currentObject' = currentObject
        /\ scavenged' = scavenged /\ x' = x /\ poolsLeft' = poolsLeft
    BY DEF walkVars
  <2>2. currentBlock # 0 => currentBlock \in 1..n
    BY <1>0, <1>1 DEF WalkType
  <2>3. InProgress'
    BY <1>0, <1>2, <2>1, <2>2 DEF InProgress
  <2>4. ASSUME currentBlock # 0 PROVE currentObject <= Len(blocks'[currentBlock]) + 1
    <3>1. currentBlock \in 1..n /\ blocks[currentBlock] \in Seq(Nat) /\ currentObject \in Nat
      BY <1>0, <1>1, <2>2, <2>4 DEF WalkType
    <3>2. currentObject <= Len(blocks[currentBlock]) + 1 /\ Len(blocks[currentBlock]) \in Nat
      BY <1>0, <2>4, <3>1 DEF WalkedSoFar
    <3>3. CASE currentBlock < m
      BY <1>1, <3>1, <3>2, <3>3
    <3>4. CASE ~(currentBlock < m)
      <4>1. blocks'[currentBlock] = Append(blocks[currentBlock], free)
        BY <1>1, <1>h, <3>1, <3>4
      <4>2. Len(blocks'[currentBlock]) = Len(blocks[currentBlock]) + 1
        BY <1>b, <3>1, <4>1, Appended
      <4> QED BY <3>1, <3>2, <4>2
    <3> QED BY <3>3, <3>4
  <2>5. ASSUME currentBlock # 0, NEW k \in DOMAIN blocks'[currentBlock], k < currentObject
        PROVE  blocks'[currentBlock][k] \in scavenged
    <3>1. currentBlock \in 1..n /\ blocks[currentBlock] \in Seq(Nat) /\ currentObject \in Nat
      BY <1>0, <1>1, <2>2, <2>5 DEF WalkType
    <3>2. CASE currentBlock < m
      BY <1>0, <1>2, <2>5, <3>1, <3>2 DEF WalkedSoFar
    <3>3. CASE ~(currentBlock < m)
      <4>1. blocks'[currentBlock] = Append(blocks[currentBlock], free)
        BY <1>1, <1>h, <3>1, <3>3
      <4>2. /\ DOMAIN blocks'[currentBlock] = 1..Len(blocks[currentBlock]) + 1
            /\ DOMAIN blocks[currentBlock] = 1..Len(blocks[currentBlock])
            /\ Len(blocks[currentBlock]) \in Nat
        BY <1>b, <3>1, <4>1, Appended
      <4>3. currentObject <= Len(blocks[currentBlock]) + 1
        BY <1>0, <2>5 DEF WalkedSoFar
      <4>4. k \in DOMAIN blocks[currentBlock]
        BY <2>5, <3>1, <4>2, <4>3
      <4> QED BY <1>0, <1>2, <2>5, <3>1, <4>4 DEF WalkedSoFar
    <3> QED BY <3>2, <3>3
  <2>6. WalkedSoFar'
    BY <1>0, <2>1, <2>4, <2>5 DEF WalkedSoFar
  <2> QED BY <2>3, <2>6
<1>9. Covered'
  <2> SUFFICES ASSUME NEW b \in 1..m
               PROVE  \/ b \in poolsLeft \/ Waits(b)' \/ b = currentBlock \/ b \notin liveMBlocks'
                      \/ b < m /\ \A k \in DOMAIN blocks'[b] : blocks'[b][k] \in scavenged
    BY <1>0, <1>1, <1>d DEF Covered, walkVars
  <2>1. CASE b = m
    <3>1. CASE m \notin liveMBlocks
      BY <1>4, <2>1, <3>1
    <3>2. CASE m \in liveMBlocks
      <4>1. m = n
        BY <1>0, <1>1, <1>g, <3>2 DEF WalkType
      <4> QED BY <1>0, <1>1, <1>4, <1>d, <2>1, <3>2, <4>1 DEF Covered
    <3> QED BY <3>1, <3>2
  <2>2. CASE b # m
    <3>1. b \in 1..n /\ blocks'[b] = blocks[b] /\ b < m
      BY <1>1, <1>f, <2>2
    <3>2. \/ b \in poolsLeft \/ Waits(b) \/ b = currentBlock \/ b \notin liveMBlocks
          \/ \A k \in DOMAIN blocks[b] : blocks[b][k] \in scavenged
      BY <1>0, <1>1, <3>1 DEF Covered
    <3> QED BY <1>4, <2>2, <3>1, <3>2
  <2> QED BY <2>1, <2>2
<1>10. nonMovedObjectsToScavenge' \in Seq(NonMoved) /\ Ended'
  BY DEF WalkInv, Ended, Working
<1> QED BY <1>5, <1>6, <1>7, <1>8, <1>9, <1>10 DEF WalkInv

\* A step that leaves to-space and the walk alone.
LEMMA RestKeepsWalk ==
  ASSUME WalkInv,
         UNCHANGED <<free, blocks, blocksToScavenge, liveMBlocks, currentBlock, currentObject, scavenged, poolsLeft>>,
         nonMovedObjectsToScavenge' \in Seq(NonMoved),
         pc' \in Working =>
           \/ pc \in Working /\ x' = x
           \/ x' \in NonMoved
           \/ /\ currentBlock # 0 /\ currentObject \in DOMAIN blocks[currentBlock]
              /\ x' = blocks[currentBlock][currentObject],
         pc' = "done" => AtLimit /\ blocksToScavenge = <<>>
  PROVE  WalkInv'
<1>1. WalkType' /\ InToSpace' /\ LiveIfFilled'
  BY DEF WalkInv, WalkType, InToSpace, LiveIfFilled
<1>2. InProgress' /\ WalkedSoFar'
  BY DEF WalkInv, InProgress, WalkedSoFar
<1>3. Covered' /\ Ended'
  BY DEF WalkInv, Covered, Waits, Ended, AtLimit
<1> QED BY <1>1, <1>2, <1>3 DEF WalkInv

\* One closure more has been scavenged.
LEMMA ScavengedKeepsWalk == WalkInv /\ Scavenged => WalkInv'
<1> SUFFICES ASSUME WalkInv, Scavenged PROVE WalkInv'
  OBVIOUS
<1>1. WalkType /\ InToSpace /\ LiveIfFilled /\ InProgress /\ WalkedSoFar /\ Covered
  BY DEF WalkInv
<1>2. /\ scavenged' = scavenged \cup {x} /\ pc' \notin Working /\ pc' # "done"
      /\ UNCHANGED <<free, blocks, blocksToScavenge, liveMBlocks, currentBlock, poolsLeft, x,
                     nonMovedObjectsToScavenge>>
  BY DEF Scavenged, Working, loopVars
<1>3. currentObject' = currentObject \/ (x \notin {0} \cup NonMoved /\ currentObject' = currentObject + 1)
  BY DEF Scavenged
<1>4. WalkType'
  BY <1>1, <1>2, <1>3 DEF WalkType
<1>5. InToSpace' /\ LiveIfFilled' /\ InProgress' /\ Ended' /\ nonMovedObjectsToScavenge' \in Seq(NonMoved)
  BY <1>1, <1>2 DEF WalkInv, InToSpace, LiveIfFilled, InProgress, Ended
<1>6. Covered'
  BY <1>1, <1>2 DEF Covered, Waits
<1>7. WalkedSoFar'
  <2> SUFFICES ASSUME currentBlock # 0
               PROVE  /\ 1 <= currentObject' /\ currentObject' <= Len(blocks[currentBlock]) + 1
                      /\ \A k \in DOMAIN blocks[currentBlock] :
                           k < currentObject' => blocks[currentBlock][k] \in scavenged'
    BY <1>2 DEF WalkedSoFar
  <2>1. /\ 1 <= currentObject /\ currentObject <= Len(blocks[currentBlock]) + 1
        /\ \A k \in DOMAIN blocks[currentBlock] : k < currentObject => blocks[currentBlock][k] \in scavenged
    BY <1>1 DEF WalkedSoFar
  <2>2. /\ currentBlock \in DOMAIN blocks /\ currentObject \in Nat
        /\ blocks[currentBlock] \in Seq(Nat)
    BY <1>1, ElementOfSeq, LenProperties DEF WalkType
  <2>3. /\ Len(blocks[currentBlock]) \in Nat
        /\ DOMAIN blocks[currentBlock] = 1..Len(blocks[currentBlock])
    BY <2>2, LenProperties
  <2>4. CASE currentObject' = currentObject
    BY <1>2, <2>1, <2>4
  <2>5. CASE x \notin {0} \cup NonMoved /\ currentObject' = currentObject + 1
    <3>1. currentObject \in DOMAIN blocks[currentBlock] /\ x = blocks[currentBlock][currentObject]
      BY <1>1, <2>5 DEF InProgress, Scavenged, Working
    <3>2. \A k \in DOMAIN blocks[currentBlock] : k < currentObject' => k < currentObject \/ k = currentObject
      BY <2>2, <2>3, <2>5
    <3>3. 1 <= currentObject' /\ currentObject' <= Len(blocks[currentBlock]) + 1
      BY <2>2, <2>3, <2>5, <3>1
    <3> QED BY <1>2, <2>1, <3>1, <3>2, <3>3
  <2> QED BY <1>3, <2>4, <2>5
<1> QED BY <1>4, <1>5, <1>6, <1>7 DEF WalkInv

\* What scavengeLoop leaves is scavenged or is the pool; what it takes up waits no more.
LEMMA NextBlockKeepsWalk == WalkInv /\ NextBlock => WalkInv'
<1> SUFFICES ASSUME WalkInv, NextBlock PROVE WalkInv'
  OBVIOUS
<1>1. WalkType /\ InToSpace /\ LiveIfFilled /\ InProgress /\ WalkedSoFar /\ Covered
  BY DEF WalkInv
<1>2. /\ pc = "loop" /\ pc' = "loop" /\ AtLimit /\ blocksToScavenge # <<>>
      /\ currentBlock' = Last(blocksToScavenge) /\ blocksToScavenge' = Front(blocksToScavenge)
      /\ currentObject' = 1 /\ poolsLeft' = poolsLeft \cup ({currentBlock} \cap {Len(blocks)})
      /\ UNCHANGED <<free, blocks, liveMBlocks, scavenged, nonMovedObjectsToScavenge>>
  BY DEF NextBlock, pop
<1>3. PICK n \in Nat :
        /\ n = Len(blocksToScavenge) /\ n >= 1 /\ DOMAIN blocksToScavenge = 1..n
        /\ currentBlock' = blocksToScavenge[n] /\ blocksToScavenge' \in Seq(Nat)
        /\ DOMAIN blocksToScavenge' = 1..n - 1
        /\ \A j \in 1..n - 1 : blocksToScavenge'[j] = blocksToScavenge[j]
  BY <1>1, <1>2, LastFront, LenProperties DEF WalkType
<1>4. /\ currentBlock' \in liveMBlocks /\ currentBlock' \in Nat /\ currentBlock' \in DOMAIN blocks
      /\ blocks[currentBlock'] \in Seq(Nat) /\ Len(blocks[currentBlock']) \in Nat
      /\ DOMAIN blocks[currentBlock'] = 1..Len(blocks[currentBlock'])
  <2>1. n \in 1..n
    BY <1>3
  <2>2. currentBlock' \in liveMBlocks
    BY <1>1, <1>3, <2>1 DEF WalkType
  <2>3. DOMAIN blocks = 1..Len(blocks) /\ Len(blocks) \in Nat
    BY <1>1, LenProperties DEF WalkType
  <2>4. currentBlock' \in DOMAIN blocks /\ currentBlock' \in 1..Len(blocks)
    BY <1>1, <2>2, <2>3 DEF WalkType
  <2>5. blocks[currentBlock'] \in Seq(Nat)
    BY <1>1, <2>4, ElementOfSeq DEF WalkType
  <2> QED BY <2>2, <2>4, <2>5, LenProperties
<1>5. WalkType'
  <2>1. \A j \in 1..n - 1 : j \in 1..n
    BY <1>3
  <2> QED BY <1>1, <1>2, <1>3, <1>4, <2>1 DEF WalkType
<1>6. InToSpace' /\ LiveIfFilled' /\ InProgress' /\ Ended' /\ nonMovedObjectsToScavenge' \in Seq(NonMoved)
  BY <1>1, <1>2 DEF WalkInv, InToSpace, LiveIfFilled, InProgress, Ended, Working
<1>7. WalkedSoFar'
  <2>1. \A k \in DOMAIN blocks[currentBlock'] : ~(k < 1)
    BY <1>4
  <2> QED BY <1>2, <1>4, <2>1 DEF WalkedSoFar
<1>8. Covered'
  <2> SUFFICES ASSUME NEW b \in DOMAIN blocks, b \notin poolsLeft', ~Waits(b)', b # currentBlock', b \in liveMBlocks
               PROVE  b < Len(blocks) /\ \A k \in DOMAIN blocks[b] : blocks[b][k] \in scavenged
    BY <1>2 DEF Covered
  <2>1. ~Waits(b)
    <3> SUFFICES ASSUME NEW j \in 1..n, blocksToScavenge[j] = b PROVE FALSE
      BY <1>3 DEF Waits
    <3>1. j = n \/ j \in 1..n - 1
      BY <1>3
    <3> QED BY <1>3, <3>1 DEF Waits
  <2>2. CASE b # currentBlock
    BY <1>1, <1>2, <2>1, <2>2 DEF Covered
  <2>3. CASE b = currentBlock
    <3>1. DOMAIN blocks = 1..Len(blocks) /\ Len(blocks) \in Nat
      BY <1>1, LenProperties DEF WalkType
    <3>0. b \in 1..Len(blocks)
      BY <3>1
    <3>2. blocks[b] \in Seq(Nat) /\ b # 0
      BY <1>1, <3>0, <3>1, ElementOfSeq DEF WalkType
    <3>5. b # Len(blocks)
      BY <1>2, <2>3
    <3>6. b < Len(blocks)
      BY <3>0, <3>1, <3>5
    <3>3. currentObject \in Nat /\ currentObject > Len(blocks[b])
      BY <1>1, <1>2, <2>3, <3>2 DEF WalkType, AtLimit
    <3>4. \A k \in DOMAIN blocks[b] : k < currentObject
      BY <3>2, <3>3, LenProperties
    <3> QED BY <1>1, <2>3, <3>2, <3>4, <3>6 DEF WalkedSoFar
  <2> QED BY <2>2, <2>3
<1> QED BY <1>5, <1>6, <1>7, <1>8 DEF WalkInv

LEMMA WalkInit == Init => WalkInv
<1> SUFFICES ASSUME Init PROVE WalkInv
  OBVIOUS
<1>1. /\ free = Limit + 1 /\ blocks = << <<>> >> /\ liveMBlocks = {} /\ blocksToScavenge = <<>>
      /\ nonMovedObjectsToScavenge = <<>> /\ currentBlock = 0 /\ currentObject = 0 /\ x = 0 /\ pc = "pointer"
  BY DEF Init
<1>2. << <<>> >> \in Seq(Seq(Nat)) /\ Len(<< <<>> >>) = 1 /\ DOMAIN << <<>> >> = {1} /\ << <<>> >>[1] = <<>>
  BY EmptySeq
<1>3. <<>> \in Seq(Nat) /\ <<>> \in Seq(NonMoved) /\ DOMAIN <<>> = {}
  BY EmptySeq
<1>4. WalkType
  BY <1>1, <1>2, <1>3, CollectorAssumption DEF WalkType
<1> QED BY <1>1, <1>2, <1>3, <1>4 DEF WalkInv, InToSpace, LiveIfFilled, InProgress, WalkedSoFar, Covered, Ended

LEMMA WalkNext == WalkInv /\ [Next]_vars => WalkInv'
<1> SUFFICES ASSUME WalkInv, [Next]_vars PROVE WalkInv'
  OBVIOUS
<1> USE DEF Working, loopVars, walkVars, evalVars
<1>0. nonMovedObjectsToScavenge \in Seq(NonMoved) /\ Ended
  BY DEF WalkInv
<1>1. CASE ScavengePointer
  BY <1>0, <1>1, RestKeepsWalk DEF ScavengePointer
<1>2. CASE Scavenged
  BY <1>2, ScavengedKeepsWalk
<1>3. CASE EvacuatedBefore
  BY <1>0, <1>3, RestKeepsWalk DEF EvacuatedBefore
<1>4. CASE EvacuateNonMoved
  <2>1. nonMovedObjectsToScavenge' \in Seq(NonMoved)
    BY <1>0, <1>4, Appended DEF EvacuateNonMoved
  <2> QED BY <1>4, <2>1, RestKeepsWalk DEF EvacuateNonMoved
<1>5. CASE StingyEval
  BY <1>0, <1>5, RestKeepsWalk DEF StingyEval, Moves
<1>6. CASE Copy
  BY <1>6, CopyKeepsWalk DEF Copy, Moves
<1>7. CASE ReturnToIndirection
  BY <1>0, <1>7, RestKeepsWalk DEF ReturnToIndirection
<1>8. CASE ReturnToScavenge
  BY <1>0, <1>8, RestKeepsWalk DEF ReturnToScavenge
<1>9. CASE Follow \/ FollowNoFurther
  BY <1>0, <1>9, RestKeepsWalk DEF Follow, FollowNoFurther
<1>10. CASE UnwindIndirection \/ UnwindSelection \/ UnwindSelector
  BY <1>0, <1>10, RestKeepsWalk DEF UnwindIndirection, UnwindSelection, UnwindSelector
<1>11. CASE EvaluatedToSelector
  BY <1>11, CopyKeepsWalk DEF EvaluatedToSelector
<1>12. CASE EvaluatedToIndirection
  BY <1>0, <1>12, RestKeepsWalk DEF EvaluatedToIndirection
<1>13. CASE NextBlock
  BY <1>13, NextBlockKeepsWalk
<1>14. CASE ScavengeCopy
  <2>1. currentBlock # 0 /\ currentObject \in DOMAIN blocks[currentBlock]
    <3>1. currentBlock # 0 /\ ~(currentObject > Len(blocks[currentBlock]))
      BY <1>14 DEF ScavengeCopy, AtLimit
    <3>2. blocks[currentBlock] \in Seq(Nat) /\ currentObject \in Nat /\ 1 <= currentObject
      BY <3>1, ElementOfSeq, LenProperties DEF WalkInv, WalkType, WalkedSoFar
    <3>3. Len(blocks[currentBlock]) \in Nat /\ DOMAIN blocks[currentBlock] = 1..Len(blocks[currentBlock])
      BY <3>2, LenProperties
    <3> QED BY <3>1, <3>2, <3>3
  <2> QED BY <1>0, <1>14, <2>1, RestKeepsWalk DEF ScavengeCopy
<1>15. CASE ToNonMoved
  BY <1>0, <1>15, RestKeepsWalk DEF ToNonMoved
<1>16. CASE ScavengeNonMoved
  BY <1>0, <1>16, LastFront, RestKeepsWalk DEF ScavengeNonMoved
<1>17. CASE BackToBlocks
  BY <1>0, <1>17, RestKeepsWalk DEF BackToBlocks
<1>18. CASE Finish
  BY <1>0, <1>18, RestKeepsWalk DEF Finish
<1>19. CASE UNCHANGED vars
  BY <1>0, <1>19, RestKeepsWalk DEF vars, Ended, AtLimit
<1> QED
  BY <1>1, <1>2, <1>3, <1>4, <1>5, <1>6, <1>7, <1>8, <1>9, <1>10, <1>11, <1>12, <1>13, <1>14, <1>15,
     <1>16, <1>17, <1>18, <1>19 DEF Next
----------------------------------------------------------------------------
\* The memory, and what the calls of evacuateClosure and stingyEval are about.
Addresses == Start \cup Copies

MemType ==
  /\ Copies = Limit + 1 .. free - 1
  /\ mem \in [Addresses -> Closure(Addresses)]
  /\ \A a \in Addresses : mem[a].type \in {"IND", "SEL", "FORWARD"} => 1 \in DOMAIN mem[a].ptrs
  /\ x \in Addresses /\ c \in Addresses /\ e \in Addresses /\ i \in Nat /\ 1 <= i
  /\ inds \in Seq(Addresses) /\ path \in Seq([at : Addresses, type : {"IND", "SEL"}, offset : Nat])

\* stingyEval has whiteholed the closures it is at, each once.
OnPath ==
  /\ \A j \in DOMAIN path : mem[path[j].at].type = "WHITEHOLE"
  /\ \A j, k \in DOMAIN path : path[j].at = path[k].at => j = k

\* It began with the argument of evacuateClosure, and ends with it.
Asked ==
  CASE pc = "eval" -> IF path = <<>> THEN e = c /\ mem[c].type \in {"IND", "SEL"} ELSE path[1].at = c
    [] pc = "unwind" -> IF path = <<>> THEN type \in {"IND", "SEL"} /\ mem[c].type = type ELSE path[1].at = c
    [] OTHER -> path = <<>>

\* What has been copied is a forwarding address from then on.
CopiedForwards == \A a \in Copies : origin[a] \in Addresses /\ mem[origin[a]].type = "FORWARD"

MemInv == MemType /\ OnPath /\ Asked /\ CopiedForwards /\ CopiedOnce
----------------------------------------------------------------------------
\* When a collection ends, what has not been scavenged lies in blocks scavengeLoop
\* left while they were the pool, whatever the heap and the size of a megablock.
THEOREM LeftUnscavengedInPools == Spec => []OnlyPoolsLeft
<1>1. WalkInv => OnlyPoolsLeft
  <2> SUFFICES ASSUME WalkInv, pc = "done", NEW b \in DOMAIN blocks, b \notin poolsLeft, NEW k \in DOMAIN blocks[b]
               PROVE  blocks[b][k] \in scavenged
    BY DEF OnlyPoolsLeft
  <2>1. blocksToScavenge = <<>> /\ AtLimit /\ WalkType /\ LiveIfFilled /\ WalkedSoFar /\ Covered
    BY DEF WalkInv, Ended
  <2>2. ~Waits(b) /\ b \in liveMBlocks
    BY <2>1 DEF Waits, LiveIfFilled
  <2>3. CASE b # currentBlock
    BY <2>1, <2>2, <2>3 DEF Covered
  <2>4. CASE b = currentBlock
    <3>1. blocks[b] \in Seq(Nat) /\ currentObject \in Nat /\ b # 0
      BY <2>1, <2>4, ElementOfSeq, LenProperties DEF WalkType
    <3>2. k < currentObject
      BY <2>1, <2>4, <3>1, LenProperties DEF AtLimit
    <3> QED BY <2>1, <2>4, <3>1, <3>2 DEF WalkedSoFar
  <2> QED BY <2>3, <2>4
<1> QED BY <1>1, WalkInit, WalkNext, PTL DEF Spec
----------------------------------------------------------------------------
\* A step that leaves the memory alone.
LEMMA RestKeepsMemory ==
  ASSUME MemInv, UNCHANGED <<mem, free, origin, path>>,
         x' \in Addresses, c' \in Addresses, e' \in Addresses, i' \in Nat, 1 <= i', inds' \in Seq(Addresses), Asked'
  PROVE  MemInv'
<1>1. Addresses' = Addresses /\ Copies' = Copies
  BY DEF Addresses, Copies
<1> QED BY <1>1 DEF MemInv, MemType, OnPath, CopiedForwards, CopiedOnce

\* A step that overwrites one closure; a forwarding address stays one.
LEMMA SetKeepsMemory ==
  ASSUME MemInv, NEW a \in Addresses, NEW r \in Closure(Addresses),
         mem' = [mem EXCEPT ![a] = r], UNCHANGED <<free, origin, x>>,
         r.type \in {"IND", "SEL", "FORWARD"} => 1 \in DOMAIN r.ptrs,
         mem[a].type = "FORWARD" => r.type = "FORWARD",
         c' \in Addresses, e' \in Addresses, i' \in Nat, 1 <= i', inds' \in Seq(Addresses),
         path' \in Seq([at : Addresses, type : {"IND", "SEL"}, offset : Nat]), OnPath', Asked'
  PROVE  MemInv'
<1>1. Addresses' = Addresses /\ Copies' = Copies
  BY DEF Addresses, Copies
<1>2. mem \in [Addresses -> Closure(Addresses)]
  BY DEF MemInv, MemType
<1>3. mem' \in [Addresses -> Closure(Addresses)] /\ \A y \in Addresses : mem'[y] = IF y = a THEN r ELSE mem[y]
  BY <1>2
<1>4. MemType'
  BY <1>1, <1>3 DEF MemInv, MemType
<1>5. CopiedForwards' /\ CopiedOnce'
  BY <1>1, <1>3 DEF MemInv, CopiedForwards, CopiedOnce
<1> QED BY <1>4, <1>5 DEF MemInv

\* What copyClosure has done.
LEMMA CopyMade ==
  ASSUME WalkInv, MemInv, copyClosure(c)
  PROVE  /\ Copies' = Copies \cup {free} /\ Addresses' = Addresses \cup {free} /\ DOMAIN origin = Copies
         /\ Copies' = Limit + 1 .. free' - 1 /\ free \notin Addresses /\ c' = free
         /\ Closure(Addresses) \subseteq Closure(Addresses')
         /\ mem' \in [Addresses' -> Closure(Addresses')] /\ mem'[c] = Forward(free) /\ mem'[free] = mem[c]
         /\ \A y \in Addresses : y # c => mem'[y] = mem[y]
         /\ origin'[free] = c /\ \A y \in Copies : origin'[y] = origin[y]
<1>1. /\ free \in Nat /\ free > Limit /\ Limit \in Nat
      /\ free' = free + 1 /\ c' = free /\ origin' = With(origin, free, c)
      /\ mem' = forwarded(With(mem, free, mem[c]), c, free)
  BY CollectorAssumption DEF WalkInv, WalkType, copyClosure
<1>2. Copies = Limit + 1 .. free - 1 /\ mem \in [Addresses -> Closure(Addresses)] /\ c \in Addresses
  BY DEF MemInv, MemType
<1>3. /\ Copies' = Copies \cup {free} /\ Addresses' = Addresses \cup {free} /\ DOMAIN origin = Copies
      /\ Copies' = Limit + 1 .. free' - 1 /\ free \notin Copies
  <2>1. Copies' = Copies \cup {free}
    BY <1>1 DEF Copies, With
  <2>2. Limit + 1 .. free' - 1 = (Limit + 1 .. free - 1) \cup {free}
    BY <1>1
  <2> QED BY <1>1, <1>2, <2>1, <2>2 DEF Addresses, Copies
<1>4. free \notin Addresses
  BY <1>1, <1>3, CollectorAssumption DEF Addresses, Start
<1>5. Closure(Addresses) \subseteq Closure(Addresses')
  BY <1>3, SeqMonotonic DEF Closure
<1>6. /\ mem' \in [Addresses' -> Closure(Addresses')] /\ mem'[c] = Forward(free) /\ mem'[free] = mem[c]
      /\ \A y \in Addresses : y # c => mem'[y] = mem[y]
  <2>1. Forward(free) \in Closure(Addresses')
    BY <1>3 DEF Forward, Closure
  <2>2. With(mem, free, mem[c]) \in [Addresses' -> Closure(Addresses')]
    BY <1>2, <1>3, <1>5 DEF With
  <2> QED BY <1>1, <1>2, <1>3, <1>4, <2>1, <2>2 DEF With, forwarded
<1>7. origin'[free] = c /\ \A y \in Copies : origin'[y] = origin[y]
  BY <1>1, <1>3 DEF With
<1> QED BY <1>1, <1>3, <1>4, <1>5, <1>6, <1>7

LEMMA CopyKeepsMemory ==
  ASSUME WalkInv, MemInv, copyClosure(c), mem[c].type # "FORWARD", path = <<>>, pc' = "return",
         UNCHANGED <<x, i, inds, e, path>>
  PROVE  MemInv'
<1>1. /\ Copies' = Copies \cup {free} /\ Addresses' = Addresses \cup {free} /\ c' = free
      /\ Copies' = Limit + 1 .. free' - 1 /\ mem' \in [Addresses' -> Closure(Addresses')]
      /\ mem'[c] = Forward(free) /\ mem'[free] = mem[c]
      /\ \A y \in Addresses : y # c => mem'[y] = mem[y]
      /\ origin'[free] = c /\ \A y \in Copies : origin'[y] = origin[y]
  BY CopyMade
<1>2. /\ Copies = Limit + 1 .. free - 1 /\ mem \in [Addresses -> Closure(Addresses)]
      /\ x \in Addresses /\ c \in Addresses /\ e \in Addresses
      /\ inds \in Seq(Addresses)
  BY DEF MemInv, MemType
<1>3. MemType'
  <2>1. inds' \in Seq(Addresses') /\ path' \in Seq([at : Addresses', type : {"IND", "SEL"}, offset : Nat])
    BY <1>1, <1>2, SeqMonotonic, EmptySeq
  <2>2. \A y \in Addresses' : mem'[y].type \in {"IND", "SEL", "FORWARD"} => 1 \in DOMAIN mem'[y].ptrs
    BY <1>1, <1>2 DEF MemInv, MemType, Forward
  <2> QED BY <1>1, <1>2, <2>1, <2>2 DEF MemInv, MemType
<1>4. OnPath' /\ Asked'
  BY DEF OnPath, Asked
<1>5. \A y \in Copies : /\ origin'[y] = origin[y] /\ origin[y] \in Addresses
                        /\ mem[origin[y]].type = "FORWARD" /\ origin[y] # c
  BY <1>1 DEF MemInv, CopiedForwards
<1>6. CopiedForwards'
  BY <1>1, <1>2, <1>5 DEF CopiedForwards, Forward
<1>7. CopiedOnce'
  BY <1>1, <1>5 DEF MemInv, CopiedOnce
<1> QED BY <1>3, <1>4, <1>6, <1>7 DEF MemInv

LEMMA MemInit == Init => MemInv
<1> SUFFICES ASSUME Init PROVE MemInv
  OBVIOUS
<1>1. /\ heap \in Heaps /\ mem = heap /\ free = Limit + 1 /\ origin = <<>> /\ x = 0 /\ i = 1 /\ c = 0 /\ e = 0
      /\ inds = <<>> /\ path = <<>> /\ pc = "pointer"
  BY DEF Init
<1>2. Copies = {} /\ Addresses = Start /\ Limit \in Nat /\ Limit + 1 .. free - 1 = {}
  BY <1>1, CollectorAssumption DEF Copies, Addresses
<1>3. WellFormed(mem)
  BY <1>1, CollectorAssumption
<1>4. Closure(Dynamic \cup NonMoved) \subseteq Closure(Addresses)
  BY <1>2, SeqMonotonic DEF Closure, Start
<1>5. mem \in [Addresses -> Closure(Addresses)]
  BY <1>2, <1>3, <1>4 DEF WellFormed
<1>6. \A a \in Addresses : mem[a].type \in {"IND", "SEL", "FORWARD"} => 1 \in DOMAIN mem[a].ptrs
  <2> SUFFICES ASSUME NEW a \in Addresses, mem[a].type \in {"IND", "SEL", "FORWARD"}
               PROVE  1 \in DOMAIN mem[a].ptrs
    OBVIOUS
  <2>1. a \in Dynamic /\ Len(mem[a].ptrs) = 1
    BY <1>2, <1>3 DEF WellFormed, Start
  <2>2. mem[a].ptrs \in Seq(Addresses)
    BY <1>5 DEF Closure
  <2> QED BY <2>1, <2>2, LenProperties
<1>7. MemType
  <2>1. x \in Addresses /\ c \in Addresses /\ e \in Addresses /\ i \in Nat /\ 1 <= i
    BY <1>1, <1>2 DEF Start
  <2>2. inds \in Seq(Addresses) /\ path \in Seq([at : Addresses, type : {"IND", "SEL"}, offset : Nat])
    BY <1>1, EmptySeq
  <2>3. Copies = Limit + 1 .. free - 1
    BY <1>2
  <2> QED BY <1>5, <1>6, <2>1, <2>2, <2>3 DEF MemType
<1> QED BY <1>1, <1>2, <1>7 DEF MemInv, OnPath, Asked, CopiedForwards, CopiedOnce

LEMMA Pointer ==
  ASSUME MemInv, NEW a \in Addresses
  PROVE  /\ mem[a] \in Closure(Addresses) /\ mem[a].ptrs \in Seq(Addresses)
         /\ DOMAIN mem[a].ptrs = 1..Len(mem[a].ptrs) /\ Len(mem[a].ptrs) \in Nat
         /\ \A k \in DOMAIN mem[a].ptrs : mem[a].ptrs[k] \in Addresses
         /\ mem[a].type \in {"IND", "SEL", "FORWARD"} => mem[a].ptrs[1] \in Addresses
<1>1. mem[a] \in Closure(Addresses) /\ mem[a].ptrs \in Seq(Addresses)
  BY DEF MemInv, MemType, Closure
<1>2. /\ DOMAIN mem[a].ptrs = 1..Len(mem[a].ptrs) /\ Len(mem[a].ptrs) \in Nat
      /\ \A k \in DOMAIN mem[a].ptrs : mem[a].ptrs[k] \in Addresses
  BY <1>1, LenProperties, ElementOfSeq
<1> QED BY <1>1, <1>2 DEF MemInv, MemType

\* Steps of stingyEval: the last closure it has whiteholed is given its new contents.
LEMMA UnwindKeepsMemory ==
  ASSUME MemInv, pc = "unwind", path # <<>>, NEW r \in Closure(Addresses),
         mem' = [mem EXCEPT ![Last(path).at] = r], UNCHANGED <<free, origin, x, i, c, inds, pc>>,
         r.type \in {"IND", "SEL"}, 1 \in DOMAIN r.ptrs, type' = r.type,
         e' \in Addresses, path' = Front(path)
  PROVE  MemInv'
<1> DEFINE Frames == [at : Addresses, type : {"IND", "SEL"}, offset : Nat]
<1>1. path \in Seq(Frames)
  BY DEF MemInv, MemType
<1>2. PICK n \in Nat :
        /\ n = Len(path) /\ n >= 1 /\ Last(path) \in Frames /\ Last(path) = path[n] /\ DOMAIN path = 1..n
        /\ path' \in Seq(Frames) /\ DOMAIN path' = 1..n - 1 /\ \A j \in 1..n - 1 : path'[j] = path[j]
  BY <1>1, LastFront, LenProperties
<1>3. Last(path).at \in Addresses /\ mem[Last(path).at].type = "WHITEHOLE"
  <2>1. n \in DOMAIN path
    BY <1>2
  <2> QED BY <1>2, <2>1 DEF MemInv, OnPath
<1>4. /\ mem' = [mem EXCEPT ![path[n].at] = r] /\ DOMAIN mem = Addresses
      /\ \A j \in 1..n - 1 : j \in 1..n /\ j # n /\ n \in 1..n
  BY <1>2 DEF MemInv, MemType
<1>5. OnPath'
  <2>1. \A j \in 1..n - 1 : path[j].at # path[n].at /\ mem[path[j].at].type = "WHITEHOLE"
    BY <1>2, <1>4 DEF MemInv, OnPath
  <2>2. \A j \in 1..n - 1 : path[j] \in Frames
    BY <1>1, <1>2, <1>4, ElementOfSeq
  <2>3. \A j \in 1..n - 1 : mem'[path[j].at] = mem[path[j].at]
    BY <1>4, <2>1, <2>2
  <2>4. \A j \in DOMAIN path' : mem'[path'[j].at].type = "WHITEHOLE"
    BY <1>2, <2>1, <2>3
  <2>5. \A j, k \in 1..n : path[j].at = path[k].at => j = k
    BY <1>2 DEF MemInv, OnPath
  <2>6. \A j, k \in 1..n - 1 : path'[j].at = path'[k].at => j = k
    <3> SUFFICES ASSUME NEW j \in 1..n - 1, NEW k \in 1..n - 1, path'[j].at = path'[k].at PROVE j = k
      OBVIOUS
    <3>1. path'[j] = path[j] /\ path'[k] = path[k] /\ j \in 1..n /\ k \in 1..n
      BY <1>2, <1>4
    <3> QED BY <2>5, <3>1
  <2> QED BY <1>2, <2>4, <2>6 DEF OnPath
<1>6. Asked'
  <2>1. path[1].at = c
    BY DEF MemInv, Asked
  <2>2. CASE n = 1
    <3>1. path' = <<>>
      BY <1>2, <2>2, EmptySeq, LenProperties
    <3>2. mem'[c].type = r.type
      BY <1>3, <1>2, <1>4, <2>1, <2>2
    <3> QED BY <3>1, <3>2 DEF Asked
  <2>3. CASE n # 1
    <3>1. 1 \in 1..n - 1
      BY <1>2, <2>3
    <3>2. path' # <<>> /\ path'[1].at = c
      BY <1>2, <2>1, <3>1
    <3> QED BY <3>2 DEF Asked
  <2> QED BY <2>2, <2>3
<1>7. c \in Addresses /\ i \in Nat /\ 1 <= i /\ inds \in Seq(Addresses)
  BY DEF MemInv, MemType
<1> QED BY <1>2, <1>3, <1>5, <1>6, <1>7, SetKeepsMemory

LEMMA FollowKeepsMemory == MemInv /\ Follow => MemInv'
<1> SUFFICES ASSUME MemInv, Follow PROVE MemInv'
  OBVIOUS
<1> DEFINE Frames == [at : Addresses, type : {"IND", "SEL"}, offset : Nat]
           frame == [at |-> e, type |-> mem[e].type, offset |-> mem[e].offset]
           r == [mem[e] EXCEPT !.type = "WHITEHOLE"]
<1>1. /\ pc = "eval" /\ pc' = "eval" /\ mem[e].type \in {"IND", "SEL"} /\ path' = Append(path, frame)
      /\ mem' = [mem EXCEPT ![e] = r] /\ e' = mem[e].ptrs[1]
      /\ UNCHANGED <<free, origin, x, i, c, inds>>
  BY DEF Follow, loopVars, walkVars
<1>2. e \in Addresses /\ c \in Addresses /\ i \in Nat /\ 1 <= i /\ inds \in Seq(Addresses) /\ path \in Seq(Frames)
      /\ DOMAIN mem = Addresses
  BY DEF MemInv, MemType
<1>3. mem[e] \in Closure(Addresses) /\ e' \in Addresses
  BY <1>1, <1>2, Pointer
<1>4. frame \in Frames /\ r \in Closure(Addresses) /\ r.type = "WHITEHOLE"
  BY <1>1, <1>2, <1>3 DEF Closure
<1>5. PICK n \in Nat :
        /\ n = Len(path) /\ path' \in Seq(Frames) /\ DOMAIN path' = 1..n + 1 /\ DOMAIN path = 1..n
        /\ path'[n + 1] = frame /\ \A j \in 1..n : path'[j] = path[j]
  <2> HIDE DEF Frames, frame
  <2> QED BY <1>1, <1>2, <1>4, Appended
<1>6. \A j \in 1..n + 1 : j \in 1..n \/ j = n + 1
  BY <1>5
<1>7. \A j \in 1..n : path[j].at \in Addresses /\ path[j].at # e /\ mem'[path[j].at].type = "WHITEHOLE"
  <2>1. \A j \in 1..n : path[j] \in Frames /\ mem[path[j].at].type = "WHITEHOLE"
    BY <1>2, <1>5, ElementOfSeq DEF MemInv, OnPath
  <2> QED BY <1>1, <1>2, <2>1
<1>8. OnPath'
  <2>1. mem'[e].type = "WHITEHOLE"
    BY <1>1, <1>2, <1>4
  <2>2. \A j \in 1..n + 1 : mem'[path'[j].at].type = "WHITEHOLE"
    BY <1>5, <1>6, <1>7, <2>1
  <2>4. \A j, k \in 1..n : path[j].at = path[k].at => j = k
    BY <1>5 DEF MemInv, OnPath
  <2>3. \A j, k \in 1..n + 1 : path'[j].at = path'[k].at => j = k
    BY <1>5, <1>6, <1>7, <2>4
  <2> QED BY <1>5, <2>2, <2>3 DEF OnPath
<1>9. Asked'
  <2>1. path' # <<>>
    <3>1. n + 1 \in 1..n + 1
      BY <1>5
    <3> QED BY <1>5, <3>1
  <2>2. CASE path = <<>>
    <3>1. n = 0 /\ e = c
      BY <1>1, <1>5, <2>2, EmptySeq DEF MemInv, Asked
    <3> QED BY <1>1, <1>5, <2>1, <3>1 DEF Asked
  <2>3. CASE path # <<>>
    <3>1. path[1].at = c
      BY <1>1, <2>3 DEF MemInv, Asked
    <3>2. 1 \in 1..n
      BY <1>2, <1>5, <2>3, EmptySeq
    <3> QED BY <1>1, <1>5, <2>1, <3>1, <3>2 DEF Asked
  <2> QED BY <2>2, <2>3
<1> QED BY <1>1, <1>2, <1>3, <1>4, <1>5, <1>8, <1>9, SetKeepsMemory

LEMMA SelectionKeepsMemory == MemInv /\ UnwindSelection => MemInv'
<1> SUFFICES ASSUME MemInv, UnwindSelection PROVE MemInv'
  OBVIOUS
<1> DEFINE Frames == [at : Addresses, type : {"IND", "SEL"}, offset : Nat]
           frame == [Last(path) EXCEPT !.type = "IND"]
<1>1. /\ pc = "unwind" /\ pc' = "eval" /\ path # <<>> /\ path' = Append(Front(path), frame)
      /\ Last(path).offset < Len(mem[e].ptrs) /\ e' = mem[e].ptrs[Last(path).offset + 1]
      /\ UNCHANGED <<mem, free, origin, x, i, c, inds>>
  BY DEF UnwindSelection, Selects, select, loopVars, walkVars
<1>2. /\ e \in Addresses /\ c \in Addresses /\ x \in Addresses /\ i \in Nat /\ 1 <= i /\ inds \in Seq(Addresses)
      /\ path \in Seq(Frames) /\ Addresses' = Addresses /\ Copies' = Copies
  BY <1>1 DEF MemInv, MemType, Addresses, Copies
<1>3. PICK n \in Nat :
        /\ n = Len(path) /\ n >= 1 /\ Last(path) \in Frames /\ Last(path) = path[n] /\ DOMAIN path = 1..n
        /\ Front(path) \in Seq(Frames) /\ DOMAIN Front(path) = 1..n - 1
        /\ \A j \in 1..n - 1 : Front(path)[j] = path[j]
  BY <1>1, <1>2, LastFront, LenProperties
<1>4. frame \in Frames /\ frame.at = Last(path).at
  BY <1>3
<1>5. path' \in Seq(Frames) /\ DOMAIN path' = 1..n /\ \A j \in 1..n : path'[j].at = path[j].at
  <2> HIDE DEF Frames, frame
  <2>1. Len(Front(path)) = n - 1
    BY <1>3, LenProperties
  <2>2. /\ path' \in Seq(Frames) /\ DOMAIN path' = 1..(n - 1) + 1 /\ path'[(n - 1) + 1] = frame
        /\ \A j \in 1..n - 1 : path'[j] = Front(path)[j]
    BY <1>1, <1>3, <1>4, <2>1, Appended
  <2>3. (n - 1) + 1 = n /\ \A j \in 1..n : j \in 1..n - 1 \/ j = n
    BY <1>3
  <2> QED BY <1>3, <1>4, <2>2, <2>3
<1>6. e' \in Addresses
  <2>1. Last(path).offset + 1 \in 1..Len(mem[e].ptrs)
    BY <1>1, <1>2, <1>3, Pointer
  <2> QED BY <1>1, <1>2, <2>1, Pointer
<1>7. OnPath'
  <2>1. /\ \A j \in 1..n : mem[path[j].at].type = "WHITEHOLE"
        /\ \A j, k \in 1..n : path[j].at = path[k].at => j = k
    BY <1>3 DEF MemInv, OnPath
  <2>2. mem' = mem
    BY <1>1
  <2> HIDE DEF frame
  <2>3. \A j \in 1..n : mem'[path'[j].at].type = "WHITEHOLE"
    BY <1>5, <2>1, <2>2
  <2>4. \A j, k \in 1..n : path'[j].at = path'[k].at => j = k
    BY <1>5, <2>1
  <2> QED BY <1>5, <2>3, <2>4 DEF OnPath
<1>8. Asked'
  <2>1. path' # <<>> /\ 1 \in 1..n
    BY <1>3, <1>5
  <2> QED BY <1>1, <1>5, <2>1 DEF MemInv, Asked
<1>9. MemType'
  BY <1>1, <1>2, <1>5, <1>6 DEF MemInv, MemType
<1> QED BY <1>1, <1>2, <1>7, <1>8, <1>9 DEF MemInv, CopiedForwards, CopiedOnce

LEMMA MemNext == WalkInv /\ MemInv /\ [Next]_vars => MemInv'
<1> SUFFICES ASSUME WalkInv, MemInv, [Next]_vars PROVE MemInv'
  OBVIOUS
<1> USE DEF loopVars, walkVars, evalVars
<1>0. /\ x \in Addresses /\ c \in Addresses /\ e \in Addresses /\ i \in Nat /\ 1 <= i /\ inds \in Seq(Addresses)
      /\ path \in Seq([at : Addresses, type : {"IND", "SEL"}, offset : Nat]) /\ OnPath /\ Asked
      /\ mem \in [Addresses -> Closure(Addresses)]
  BY DEF MemInv, MemType
<1>1. CASE ScavengePointer
  <2>1. i \in 1..Len(mem[x].ptrs) /\ c' = mem[x].ptrs[i]
    BY <1>0, <1>1, Pointer DEF ScavengePointer, morePointers
  <2>2. c' \in Addresses
    BY <1>0, <2>1, Pointer
  <2>3. Asked'
    BY <1>0, <1>1 DEF ScavengePointer, Asked
  <2> QED BY <1>0, <1>1, <2>2, <2>3, RestKeepsMemory DEF ScavengePointer
<1>2. CASE Scavenged
  <2>1. Asked'
    BY <1>0, <1>2 DEF Scavenged, Asked
  <2> QED BY <1>0, <1>2, <2>1, RestKeepsMemory DEF Scavenged
<1>3. CASE EvacuatedBefore
  <2>1. Asked'
    BY <1>0, <1>3 DEF EvacuatedBefore, Asked
  <2>2. c' \in Addresses
    BY <1>0, <1>3, Pointer DEF EvacuatedBefore
  <2> QED BY <1>0, <1>3, <2>1, <2>2, RestKeepsMemory DEF EvacuatedBefore
<1>4. CASE EvacuateNonMoved
  <2>1. Asked'
    BY <1>0, <1>4 DEF EvacuateNonMoved, Asked
  <2> QED BY <1>0, <1>4, <2>1, RestKeepsMemory DEF EvacuateNonMoved
<1>5. CASE StingyEval
  <2>1. Asked'
    BY <1>0, <1>5 DEF StingyEval, Moves, Asked
  <2> QED BY <1>0, <1>5, <2>1, RestKeepsMemory DEF StingyEval
<1>6. CASE Copy
  <2>1. path = <<>> /\ mem[c].type # "FORWARD"
    BY <1>0, <1>6 DEF Copy, Moves, Asked
  <2> QED BY <1>6, <2>1, CopyKeepsMemory DEF Copy
<1>7. CASE ReturnToIndirection
  <2>1. path = <<>> /\ inds # <<>> /\ pc' = "return" /\ path' = path
    BY <1>0, <1>7 DEF ReturnToIndirection, Asked
  <2>2. Last(inds) \in Addresses /\ inds' \in Seq(Addresses)
    BY <1>0, <1>7, <2>1, LastFront DEF ReturnToIndirection
  <2>3. Forward(c) \in Closure(Addresses) /\ 1 \in DOMAIN Forward(c).ptrs /\ Forward(c).type = "FORWARD"
    BY <1>0 DEF Forward, Closure
  <2>4. OnPath' /\ Asked'
    BY <2>1 DEF OnPath, Asked
  <2> QED BY <1>0, <1>7, <2>1, <2>2, <2>3, <2>4, SetKeepsMemory DEF ReturnToIndirection
<1>8. CASE ReturnToScavenge
  <2> DEFINE r == [mem[x] EXCEPT !.ptrs = [mem[x].ptrs EXCEPT ![i] = c]]
  <2>1. mem' = [mem EXCEPT ![x] = r] /\ pc = "return" /\ pc' = "pointer" /\ i' = i + 1
    BY <1>8 DEF ReturnToScavenge
  <2>2. path = <<>> /\ path' = path
    BY <1>0, <1>8 DEF ReturnToScavenge, Asked
  <2>3. /\ mem[x] \in Closure(Addresses) /\ mem[x].ptrs \in [1..Len(mem[x].ptrs) -> Addresses]
        /\ Len(mem[x].ptrs) \in Nat
    BY <1>0, Pointer, LenProperties
  <2>4. [mem[x].ptrs EXCEPT ![i] = c] \in [1..Len(mem[x].ptrs) -> Addresses]
    BY <1>0, <2>3
  <2>5. [mem[x].ptrs EXCEPT ![i] = c] \in Seq(Addresses)
    BY <2>3, <2>4
  <2>6. r \in Closure(Addresses) /\ r.type = mem[x].type /\ DOMAIN r.ptrs = DOMAIN mem[x].ptrs
    BY <2>3, <2>4, <2>5 DEF Closure
  <2>7. OnPath' /\ Asked'
    BY <2>1, <2>2 DEF OnPath, Asked
  <2>8. r.type \in {"IND", "SEL", "FORWARD"} => 1 \in DOMAIN r.ptrs
    BY <1>0, <2>6 DEF MemInv, MemType
  <2>9. /\ UNCHANGED <<free, origin, x, path>> /\ c' \in Addresses /\ e' \in Addresses
        /\ inds' \in Seq(Addresses) /\ i' \in Nat /\ 1 <= i'
    BY <1>0, <1>8 DEF ReturnToScavenge
  <2>10. mem[x].type = "FORWARD" => r.type = "FORWARD"
    BY <2>6
  <2>11. path' \in Seq([at : Addresses, type : {"IND", "SEL"}, offset : Nat])
    BY <1>0, <2>2
  <2> HIDE DEF r
  <2> QED BY <1>0, <2>1, <2>6, <2>7, <2>8, <2>9, <2>10, <2>11, SetKeepsMemory
<1>9. CASE Follow
  BY <1>9, FollowKeepsMemory
<1>10. CASE FollowNoFurther
  <2>1. Asked'
    BY <1>0, <1>10 DEF FollowNoFurther, Asked
  <2> QED BY <1>0, <1>10, <2>1, RestKeepsMemory DEF FollowNoFurther
<1>11. CASE UnwindIndirection
  <2>1. Ind(e) \in Closure(Addresses) /\ 1 \in DOMAIN Ind(e).ptrs /\ Ind(e).type = "IND"
    BY <1>0 DEF Ind, Closure
  <2> QED BY <1>0, <1>11, <2>1, UnwindKeepsMemory DEF UnwindIndirection, leadsTo
<1>12. CASE UnwindSelection
  BY <1>12, SelectionKeepsMemory
<1>13. CASE UnwindSelector
  <2> DEFINE r == [type |-> "SEL", ptrs |-> <<e>>, offset |-> Last(path).offset]
  <2>1. path # <<>> /\ Last(path) \in [at : Addresses, type : {"IND", "SEL"}, offset : Nat]
    BY <1>0, <1>13, LastFront DEF UnwindSelector
  <2>2. r \in Closure(Addresses) /\ 1 \in DOMAIN r.ptrs /\ r.type = "SEL"
    BY <1>0, <2>1 DEF Closure
  <2>3. /\ mem' = [mem EXCEPT ![Last(path).at] = r] /\ e' = Last(path).at /\ type' = "SEL" /\ path' = Front(path)
        /\ pc = "unwind" /\ UNCHANGED <<free, origin, x, i, c, inds, pc>>
    BY <1>13 DEF UnwindSelector
  <2> HIDE DEF r
  <2> QED BY <2>1, <2>2, <2>3, UnwindKeepsMemory
<1>14. CASE EvaluatedToSelector
  <2>1. path = <<>> /\ mem[c].type # "FORWARD"
    BY <1>0, <1>14 DEF EvaluatedToSelector, Asked
  <2> QED BY <1>14, <2>1, CopyKeepsMemory DEF EvaluatedToSelector
<1>15. CASE EvaluatedToIndirection
  <2>1. path = <<>> /\ mem[c].type = "IND"
    BY <1>0, <1>15 DEF EvaluatedToIndirection, Asked
  <2>2. mem[c].ptrs[1] \in Addresses
    BY <1>0, <2>1, Pointer
  <2>3. Append(inds, c) \in Seq(Addresses)
    BY <1>0, Appended
  <2>4. c' \in Addresses /\ inds' \in Seq(Addresses)
    BY <1>0, <1>15, <2>2, <2>3 DEF EvaluatedToIndirection
  <2>5. Asked'
    BY <1>15, <2>1 DEF EvaluatedToIndirection, Asked
  <2> QED BY <1>0, <1>15, <2>4, <2>5, RestKeepsMemory DEF EvaluatedToIndirection
<1>16. CASE ScavengeCopy
  <2>1. x' \in Addresses
    <3>1. currentBlock # 0 /\ ~(currentObject > Len(blocks[currentBlock])) /\ x' = blocks[currentBlock][currentObject]
      BY <1>16 DEF ScavengeCopy, AtLimit
    <3>2. /\ currentBlock \in DOMAIN blocks /\ blocks[currentBlock] \in Seq(Nat)
          /\ currentObject \in Nat /\ 1 <= currentObject
      BY <3>1, ElementOfSeq, LenProperties DEF WalkInv, WalkType, WalkedSoFar
    <3>3. Len(blocks[currentBlock]) \in Nat /\ DOMAIN blocks[currentBlock] = 1..Len(blocks[currentBlock])
      BY <3>2, LenProperties
    <3>4. currentObject \in DOMAIN blocks[currentBlock]
      BY <3>1, <3>2, <3>3
    <3> QED BY <3>1, <3>2, <3>4 DEF WalkInv, InToSpace, MemInv, MemType, Addresses
  <2>2. Asked'
    BY <1>0, <1>16 DEF ScavengeCopy, Asked
  <2> QED BY <1>0, <1>16, <2>1, <2>2, RestKeepsMemory DEF ScavengeCopy
<1>17. CASE ScavengeNonMoved
  <2>1. x' \in Addresses
    BY <1>17, LastFront DEF WalkInv, ScavengeNonMoved, Addresses, Start
  <2>2. Asked'
    BY <1>0, <1>17 DEF ScavengeNonMoved, Asked
  <2> QED BY <1>0, <1>17, <2>1, <2>2, RestKeepsMemory DEF ScavengeNonMoved
<1>18. CASE NextBlock \/ ToNonMoved \/ BackToBlocks \/ Finish
  <2>1. Asked' /\ UNCHANGED <<mem, free, origin, path, x, c, e, i, inds>>
    BY <1>0, <1>18 DEF NextBlock, ToNonMoved, BackToBlocks, Finish, Asked
  <2> QED BY <1>0, <2>1, RestKeepsMemory
<1>19. CASE UNCHANGED vars
  <2>1. Asked'
    BY <1>0, <1>19 DEF Asked, vars
  <2> QED BY <1>0, <1>19, <2>1, RestKeepsMemory DEF vars
<1> QED
  BY <1>1, <1>2, <1>3, <1>4, <1>5, <1>6, <1>7, <1>8, <1>9, <1>10, <1>11, <1>12, <1>13, <1>14, <1>15,
     <1>16, <1>17, <1>18, <1>19 DEF Next
----------------------------------------------------------------------------
\* evacuateClosure copies no closure twice, through whatever pointers, indirections and
\* selector thunks the program's closures lead to it.
THEOREM CopiedAtMostOnce == Spec => []CopiedOnce
<1>1. Init => WalkInv /\ MemInv
  BY WalkInit, MemInit
<1>2. WalkInv /\ MemInv /\ [Next]_vars => (WalkInv /\ MemInv)'
  BY WalkNext, MemNext
<1>3. MemInv => CopiedOnce
  BY DEF MemInv
<1> QED BY <1>1, <1>2, <1>3, PTL DEF Spec
----------------------------------------------------------------------------
\* Nothing that does not move is scavenged twice.
StaticOnce ==
  /\ nonMovedObjects \subseteq NonMoved /\ scavenged \cap NonMoved \subseteq nonMovedObjects
  /\ pc \in Working => /\ x \in {0} \cup NonMoved => x \notin scavenged
                       /\ x \in NonMoved => x \in nonMovedObjects
  /\ LET s == nonMovedObjectsToScavenge
     IN  /\ \A j \in DOMAIN s : s[j] \in nonMovedObjects \ scavenged /\ (pc \in Working => s[j] # x)
         /\ \A j, k \in DOMAIN s : s[j] = s[k] => j = k

LEMMA RestKeepsStatic ==
  ASSUME StaticOnce, UNCHANGED <<nonMovedObjects, nonMovedObjectsToScavenge, scavenged>>,
         pc' \in Working => (pc \in Working /\ x' = x) \/ x' \notin {0} \cup NonMoved
  PROVE  StaticOnce'
BY DEF StaticOnce

LEMMA StaticNext == WalkInv /\ StaticOnce /\ [Next]_vars => StaticOnce'
<1> SUFFICES ASSUME WalkInv, StaticOnce, [Next]_vars PROVE StaticOnce'
  OBVIOUS
<1> USE DEF Working, loopVars, walkVars, evalVars
<1>1. CASE Scavenged
  BY <1>1 DEF Scavenged, StaticOnce
<1>2. CASE EvacuateNonMoved
  <2>1. CASE c \in nonMovedObjects
    BY <1>2, <2>1, RestKeepsStatic DEF EvacuateNonMoved
  <2>2. CASE c \notin nonMovedObjects
    <3>1. /\ nonMovedObjects' = nonMovedObjects \cup {c} /\ c \in NonMoved
          /\ nonMovedObjectsToScavenge' = Append(nonMovedObjectsToScavenge, c)
          /\ scavenged' = scavenged /\ x' = x /\ pc \in Working
      BY <1>2, <2>2 DEF EvacuateNonMoved
    <3>2. PICK s : s = nonMovedObjectsToScavenge
      OBVIOUS
    <3>3. PICK n \in Nat :
            /\ DOMAIN s = 1..n /\ DOMAIN nonMovedObjectsToScavenge' = 1 .. n + 1
            /\ nonMovedObjectsToScavenge'[n + 1] = c /\ \A j \in 1..n : nonMovedObjectsToScavenge'[j] = s[j]
      BY <3>1, <3>2, Appended DEF WalkInv
    <3>4. \A j \in 1..n : s[j] \in nonMovedObjects \ scavenged /\ s[j] # x /\ s[j] # c
      BY <2>2, <3>1, <3>2, <3>3 DEF StaticOnce
    <3>5. \A j, k \in 1..n : s[j] = s[k] => j = k
      BY <3>2, <3>3 DEF StaticOnce
    <3>6. \A j \in 1 .. n + 1 : j \in 1..n \/ j = n + 1
      BY <3>3
    <3>7. c \notin scavenged /\ c # x
      BY <2>2, <3>1 DEF StaticOnce
    <3>8. \A j \in 1 .. n + 1 :
            nonMovedObjectsToScavenge'[j] \in nonMovedObjects' \ scavenged /\ nonMovedObjectsToScavenge'[j] # x
      BY <3>1, <3>3, <3>4, <3>6, <3>7
    <3>9. \A j, k \in 1 .. n + 1 : nonMovedObjectsToScavenge'[j] = nonMovedObjectsToScavenge'[k] => j = k
      BY <3>3, <3>4, <3>5, <3>6
    <3>10. /\ nonMovedObjects' \subseteq NonMoved /\ scavenged \cap NonMoved \subseteq nonMovedObjects'
           /\ x \in {0} \cup NonMoved => x \notin scavenged
           /\ x \in NonMoved => x \in nonMovedObjects'
      BY <3>1 DEF StaticOnce
    <3> QED BY <3>1, <3>3, <3>8, <3>9, <3>10 DEF StaticOnce
  <2> QED BY <2>1, <2>2
<1>3. CASE ScavengeNonMoved
  <2>1. /\ x' = Last(nonMovedObjectsToScavenge) /\ nonMovedObjectsToScavenge' = Front(nonMovedObjectsToScavenge)
        /\ UNCHANGED <<nonMovedObjects, scavenged>> /\ nonMovedObjectsToScavenge # <<>>
    BY <1>3 DEF ScavengeNonMoved
  <2>2. PICK s : s = nonMovedObjectsToScavenge
    OBVIOUS
  <2>3. PICK n \in Nat :
          /\ n >= 1 /\ DOMAIN s = 1..n /\ x' = s[n] /\ DOMAIN nonMovedObjectsToScavenge' = 1 .. n - 1
          /\ \A j \in 1 .. n - 1 : nonMovedObjectsToScavenge'[j] = s[j]
    BY <2>1, <2>2, LastFront, LenProperties DEF WalkInv
  <2>4. n \in 1..n /\ \A j \in 1 .. n - 1 : j \in 1..n /\ j # n
    BY <2>3
  <2>5. \A j \in 1..n : s[j] \in nonMovedObjects \ scavenged
    BY <2>2, <2>3 DEF StaticOnce
  <2>6. \A j, k \in 1..n : s[j] = s[k] => j = k
    BY <2>2, <2>3 DEF StaticOnce
  <2>7. \A j \in 1 .. n - 1 :
          nonMovedObjectsToScavenge'[j] \in nonMovedObjects \ scavenged /\ nonMovedObjectsToScavenge'[j] # x'
    BY <2>3, <2>4, <2>5, <2>6
  <2>8. \A j, k \in 1 .. n - 1 : nonMovedObjectsToScavenge'[j] = nonMovedObjectsToScavenge'[k] => j = k
    BY <2>3, <2>4, <2>6
  <2>9. x' \in nonMovedObjects \ scavenged
    BY <2>3, <2>4, <2>5
  <2> QED BY <2>1, <2>3, <2>7, <2>8, <2>9 DEF StaticOnce
<1>4. CASE ScavengeCopy
  <2>1. currentBlock # 0 /\ ~(currentObject > Len(blocks[currentBlock])) /\ x' = blocks[currentBlock][currentObject]
    BY <1>4 DEF ScavengeCopy, AtLimit
  <2>2. /\ currentBlock \in DOMAIN blocks /\ blocks[currentBlock] \in Seq(Nat)
        /\ currentObject \in Nat /\ 1 <= currentObject
    BY <2>1, ElementOfSeq, LenProperties DEF WalkInv, WalkType, WalkedSoFar
  <2>3. currentObject \in DOMAIN blocks[currentBlock]
    BY <2>1, <2>2, LenProperties
  <2>4. x' \in Limit + 1 .. free - 1 /\ free \in Nat
    BY <2>1, <2>2, <2>3 DEF WalkInv, InToSpace, WalkType
  <2>5. x' \notin {0} \cup NonMoved
    BY <2>4, CollectorAssumption
  <2> QED BY <1>4, <2>5, RestKeepsStatic DEF ScavengeCopy
<1>5. CASE \/ ScavengePointer \/ EvacuatedBefore \/ StingyEval \/ Copy \/ ReturnToIndirection \/ ReturnToScavenge
           \/ Follow \/ FollowNoFurther \/ UnwindIndirection \/ UnwindSelection \/ UnwindSelector
           \/ EvaluatedToSelector \/ EvaluatedToIndirection
           \/ NextBlock \/ ToNonMoved \/ BackToBlocks \/ Finish \/ UNCHANGED vars
  <2>1. UNCHANGED <<nonMovedObjects, nonMovedObjectsToScavenge, scavenged>>
    BY <1>5 DEF ScavengePointer, EvacuatedBefore, StingyEval, Copy, ReturnToIndirection, ReturnToScavenge, Follow,
      FollowNoFurther, UnwindIndirection, UnwindSelection, UnwindSelector, EvaluatedToSelector,
      EvaluatedToIndirection, NextBlock, ToNonMoved, BackToBlocks, Finish, vars
  <2>2. pc' \in Working => pc \in Working /\ x' = x
    BY <1>5 DEF ScavengePointer, EvacuatedBefore, StingyEval, Copy, Moves, ReturnToIndirection, ReturnToScavenge,
      Follow, FollowNoFurther, UnwindIndirection, UnwindSelection, UnwindSelector, EvaluatedToSelector,
      EvaluatedToIndirection, NextBlock, ToNonMoved, BackToBlocks, Finish, vars
  <2> QED BY <2>1, <2>2, RestKeepsStatic
<1> QED BY <1>1, <1>2, <1>3, <1>4, <1>5 DEF Next

Untouched(b) == \A k \in DOMAIN blocks[b] : blocks[b][k] \notin scavenged

\* Every address of to-space is in one place, which is scavenged once.
PlacesOnce ==
  /\ scavenged \subseteq {0} \cup NonMoved \cup (Limit + 1 .. free - 1)
  /\ \A a \in Limit + 1 .. free - 1 : \E b \in DOMAIN blocks : \E k \in DOMAIN blocks[b] : blocks[b][k] = a
  /\ \A b, d \in DOMAIN blocks : \A k \in DOMAIN blocks[b], l \in DOMAIN blocks[d] :
       blocks[b][k] = blocks[d][l] => b = d /\ k = l
  /\ LET w == blocksToScavenge
     IN  /\ \A j \in DOMAIN w : w[j] # currentBlock /\ Untouched(w[j])
         /\ \A j, k \in DOMAIN w : w[j] = w[k] => j = k
  /\ currentBlock # 0 =>
       \A k \in DOMAIN blocks[currentBlock] : k >= currentObject => blocks[currentBlock][k] \notin scavenged
  /\ \A b \in DOMAIN blocks : Len(blocks[b]) <= BlockClosures

LEMMA RestKeepsPlaces ==
  ASSUME PlacesOnce, UNCHANGED <<free, blocks, blocksToScavenge, currentBlock, currentObject, scavenged>>
  PROVE  PlacesOnce'
BY DEF PlacesOnce, Untouched

\* allocateCopy: one place is new, and has the new address.
LEMMA PlaceTaken ==
  ASSUME WalkInv, blocks' = allocateCopy(free),
         \A b \in DOMAIN blocks : Len(blocks[b]) <= BlockClosures
  PROVE  /\ Len(blocks') \in DOMAIN blocks'
         /\ \A b \in DOMAIN blocks : b \in DOMAIN blocks' /\ \A k \in DOMAIN blocks[b] :
              k \in DOMAIN blocks'[b] /\ blocks'[b][k] = blocks[b][k]
         /\ \E z \in DOMAIN blocks'[Len(blocks')] :
              /\ blocks'[Len(blocks')][z] = free
              /\ \A b \in DOMAIN blocks' : \A k \in DOMAIN blocks'[b] :
                   \/ b = Len(blocks') /\ k = z
                   \/ b \in DOMAIN blocks /\ k \in DOMAIN blocks[b] /\ blocks'[b][k] = blocks[b][k]
         /\ \A b \in DOMAIN blocks' : Len(blocks'[b]) <= BlockClosures
<1>1. free \in Nat /\ blocks \in Seq(Seq(Nat)) /\ Len(blocks) >= 1 /\ BlockClosures \in Nat \ {0}
  BY CollectorAssumption DEF WalkInv, WalkType
<1>2. PICK n \in Nat : n = Len(blocks) /\ n >= 1 /\ DOMAIN blocks = 1..n /\ \A b \in 1..n : blocks[b] \in Seq(Nat)
  BY <1>1, LenProperties, ElementOfSeq
<1>3. CASE Len(Last(blocks)) < BlockClosures
  <2>1. blocks' = [blocks EXCEPT ![n] = Append(blocks[n], free)] /\ Len(blocks[n]) < BlockClosures
    BY <1>2, <1>3 DEF allocateCopy, Last
  <2>2. n \in 1..n
    BY <1>2
  <2>a. PICK u, v : u = blocks[n] /\ v = Append(u, free)
    OBVIOUS
  <2>b. u \in Seq(Nat)
    BY <1>2, <2>2, <2>a
  <2>c. PICK q \in Nat : q = Len(u)
    BY <2>b, LenProperties
  <2>3. /\ q \in Nat /\ q = Len(u) /\ u = blocks[n] /\ DOMAIN u = 1..q
        /\ v \in Seq(Nat) /\ DOMAIN v = 1 .. q + 1 /\ v[q + 1] = free /\ Len(v) = q + 1
        /\ \A k \in 1..q : v[k] = u[k]
    BY <1>1, <2>a, <2>b, <2>c, Appended
  <2>4. /\ DOMAIN blocks' = 1..n /\ Len(blocks') = n /\ blocks'[n] = v
        /\ \A b \in 1..n : b # n => blocks'[b] = blocks[b]
    <3>1. blocks' = [blocks EXCEPT ![n] = v]
      BY <2>1, <2>a
    <3> QED BY <1>1, <1>2, <2>2, <2>3, <3>1, ExceptSeq
  <2>5. q + 1 \in 1 .. q + 1 /\ \A k \in 1 .. q + 1 : k = q + 1 \/ k \in 1..q
    BY <2>3
  <2>6. \A k \in 1..q : k \in 1 .. q + 1
    BY <2>3
  <2>7. q + 1 <= BlockClosures
    BY <1>1, <2>1, <2>3
  <2>8. \A b \in 1..n : b \in DOMAIN blocks' /\ \A k \in DOMAIN blocks[b] :
          k \in DOMAIN blocks'[b] /\ blocks'[b][k] = blocks[b][k]
    BY SMTT(30), <2>3, <2>4, <2>6
  <2>9. \A b \in 1..n : \A k \in DOMAIN blocks'[b] :
          (b = n /\ k = q + 1) \/ (k \in DOMAIN blocks[b] /\ blocks'[b][k] = blocks[b][k])
    BY SMTT(30), <2>3, <2>4, <2>5
  <2>10. \A b \in 1..n : Len(blocks'[b]) <= BlockClosures
    <3> SUFFICES ASSUME NEW b \in 1..n PROVE Len(blocks'[b]) <= BlockClosures
      OBVIOUS
    <3>1. CASE b = n
      BY <2>3, <2>4, <2>7, <3>1
    <3>2. CASE b # n
      BY <1>2, <2>4, <3>2
    <3> QED BY <3>1, <3>2
  <2>11. q + 1 \in DOMAIN blocks'[n] /\ blocks'[n][q + 1] = free
    BY <2>3, <2>4, <2>5
  <2> HIDE DEF allocateCopy
  <2> QED BY <1>2, <2>2, <2>4, <2>8, <2>9, <2>10, <2>11
<1>4. CASE ~(Len(Last(blocks)) < BlockClosures)
  <2>1. blocks' = Append(blocks, <<free>>)
    BY <1>4 DEF allocateCopy
  <2>2. <<free>> \in Seq(Nat) /\ DOMAIN <<free>> = {1} /\ <<free>>[1] = free /\ Len(<<free>>) = 1
    BY <1>1
  <2>3. /\ DOMAIN blocks' = 1 .. n + 1 /\ Len(blocks') = n + 1 /\ blocks'[n + 1] = <<free>>
        /\ \A b \in 1..n : blocks'[b] = blocks[b]
    <3> HIDE DEF allocateCopy
    <3> QED BY <1>1, <1>2, <2>1, <2>2, Appended
  <2>4. n + 1 \in 1 .. n + 1 /\ (\A b \in 1..n : b \in 1 .. n + 1) /\ \A b \in 1 .. n + 1 : b \in 1..n \/ b = n + 1
    BY <1>2
  <2>5. 1 <= BlockClosures
    BY <1>1
  <2>6. \A b \in 1 .. n + 1 : \A k \in DOMAIN blocks'[b] :
          (b = n + 1 /\ k = 1) \/ (b \in 1..n /\ k \in DOMAIN blocks[b] /\ blocks'[b][k] = blocks[b][k])
    BY <2>2, <2>3, <2>4
  <2>7. \A b \in 1 .. n + 1 : Len(blocks'[b]) <= BlockClosures
    BY <1>2, <2>2, <2>3, <2>4, <2>5
  <2>8. 1 \in DOMAIN blocks'[n + 1] /\ blocks'[n + 1][1] = free
    BY <2>2, <2>3
  <2>9. \A b \in 1..n : b \in DOMAIN blocks' /\ \A k \in DOMAIN blocks[b] :
          k \in DOMAIN blocks'[b] /\ blocks'[b][k] = blocks[b][k]
    BY <2>3, <2>4
  <2> QED BY <1>2, <2>3, <2>4, <2>6, <2>7, <2>8, <2>9
<1> QED BY <1>3, <1>4

LEMMA CopyKeepsPlaces ==
  ASSUME WalkInv, PlacesOnce, NEW a, copyClosure(a), UNCHANGED <<currentBlock, currentObject, scavenged>>
  PROVE  PlacesOnce'
<1> DEFINE Old == Limit + 1 .. free - 1
<1>1. /\ blocks' = allocateCopy(free) /\ free' = free + 1 /\ pushBlock(Len(blocks'))
      /\ free \in Nat /\ free > Limit /\ Limit \in Nat
      /\ \A b \in DOMAIN blocks : Len(blocks[b]) <= BlockClosures
  BY CollectorAssumption DEF copyClosure, WalkInv, WalkType, PlacesOnce
<1>2. PICK m : m = Len(blocks')
  OBVIOUS
<1>3. PICK z \in DOMAIN blocks'[m] :
        /\ m \in DOMAIN blocks'
        /\ \A b \in DOMAIN blocks : b \in DOMAIN blocks' /\ \A k \in DOMAIN blocks[b] :
             k \in DOMAIN blocks'[b] /\ blocks'[b][k] = blocks[b][k]
        /\ blocks'[m][z] = free
        /\ \A b \in DOMAIN blocks' : \A k \in DOMAIN blocks'[b] :
             \/ b = m /\ k = z
             \/ b \in DOMAIN blocks /\ k \in DOMAIN blocks[b] /\ blocks'[b][k] = blocks[b][k]
        /\ \A b \in DOMAIN blocks' : Len(blocks'[b]) <= BlockClosures
  BY <1>1, <1>2, PlaceTaken
<1>4. Limit + 1 .. free' - 1 = Old \cup {free} /\ free \notin Old
  BY <1>1
<1>5. free \notin scavenged /\ scavenged \subseteq {0} \cup NonMoved \cup Old
  <2>1. free \notin {0} \cup NonMoved
    BY <1>1, CollectorAssumption
  <2> QED BY <1>4, <2>1 DEF PlacesOnce
<1>6. \A b \in DOMAIN blocks : \A k \in DOMAIN blocks[b] : blocks[b][k] \in Old
  BY DEF WalkInv, InToSpace
<1> HIDE DEF Old
<1>7. \A y \in Limit + 1 .. free' - 1 : \E b \in DOMAIN blocks' : \E k \in DOMAIN blocks'[b] : blocks'[b][k] = y
  <2>1. \A y \in Old : \E b \in DOMAIN blocks : \E k \in DOMAIN blocks[b] : blocks[b][k] = y
    BY DEF PlacesOnce, Old
  <2> QED BY <1>3, <1>4, <2>1
<1>8. \A b, d \in DOMAIN blocks' : \A k \in DOMAIN blocks'[b], l \in DOMAIN blocks'[d] :
        blocks'[b][k] = blocks'[d][l] => b = d /\ k = l
  <2>1. \A b, d \in DOMAIN blocks : \A k \in DOMAIN blocks[b], l \in DOMAIN blocks[d] :
          blocks[b][k] = blocks[d][l] => b = d /\ k = l
    BY DEF PlacesOnce
  <2> SUFFICES ASSUME NEW b \in DOMAIN blocks', NEW d \in DOMAIN blocks', NEW k \in DOMAIN blocks'[b],
                      NEW l \in DOMAIN blocks'[d], blocks'[b][k] = blocks'[d][l]
               PROVE  b = d /\ k = l
    OBVIOUS
  <2>2. \/ b = m /\ k = z
        \/ b \in DOMAIN blocks /\ k \in DOMAIN blocks[b] /\ blocks'[b][k] = blocks[b][k]
    BY <1>3
  <2>3. \/ d = m /\ l = z
        \/ d \in DOMAIN blocks /\ l \in DOMAIN blocks[d] /\ blocks'[d][l] = blocks[d][l]
    BY <1>3
  <2> QED BY <1>3, <1>4, <1>6, <2>1, <2>2, <2>3
<1>9. \A b \in DOMAIN blocks' : \A k \in DOMAIN blocks'[b] :
        \/ blocks'[b][k] \notin scavenged
        \/ b \in DOMAIN blocks /\ k \in DOMAIN blocks[b] /\ blocks'[b][k] = blocks[b][k]
  BY <1>3, <1>5
<1>10. /\ blocksToScavenge \in Seq(Nat)
       /\ currentBlock # 0 => currentBlock \in liveMBlocks
       /\ \A j \in DOMAIN blocksToScavenge : blocksToScavenge[j] \in liveMBlocks
       /\ liveMBlocks \subseteq DOMAIN blocks /\ \A b \in DOMAIN blocks : blocks[b] # <<>> => b \in liveMBlocks
  BY DEF WalkInv, WalkType, LiveIfFilled
<1>11. m \in Nat /\ m # 0
  <2>1. blocks' \in Seq(Seq(Nat))
    BY <1>1, Allocated DEF WalkInv, WalkType
  <2>2. m \in 1..m /\ m \in Nat
    BY <1>2, <1>3, <2>1, LenProperties
  <2> QED BY <2>2
<1>12. \A j \in DOMAIN blocksToScavenge :
         /\ blocksToScavenge[j] # currentBlock
         /\ \A k \in DOMAIN blocks'[blocksToScavenge[j]] : blocks'[blocksToScavenge[j]][k] \notin scavenged
  <2> SUFFICES ASSUME NEW j \in DOMAIN blocksToScavenge, NEW b, b = blocksToScavenge[j]
               PROVE  b # currentBlock /\ \A k \in DOMAIN blocks'[b] : blocks'[b][k] \notin scavenged
    OBVIOUS
  <2>1. b # currentBlock /\ \A k \in DOMAIN blocks[b] : blocks[b][k] \notin scavenged
    BY DEF PlacesOnce, Untouched
  <2>2. b \in DOMAIN blocks'
    BY <1>3, <1>10
  <2> QED BY <1>9, <2>1, <2>2
<1>13. \A k \in DOMAIN blocks'[currentBlock] :
         currentBlock # 0 /\ k >= currentObject => blocks'[currentBlock][k] \notin scavenged
  <2> SUFFICES ASSUME currentBlock # 0, NEW k \in DOMAIN blocks'[currentBlock], k >= currentObject
               PROVE  blocks'[currentBlock][k] \notin scavenged
    OBVIOUS
  <2>1. currentBlock \in DOMAIN blocks'
    BY <1>3, <1>10
  <2>2. k \in DOMAIN blocks[currentBlock] => blocks[currentBlock][k] \notin scavenged
    BY DEF PlacesOnce
  <2> QED BY <1>9, <2>1, <2>2
<1>14. LET w == blocksToScavenge'
       IN  /\ \A j \in DOMAIN w : /\ w[j] # currentBlock
                                 /\ \A k \in DOMAIN blocks'[w[j]] : blocks'[w[j]][k] \notin scavenged
           /\ \A j, k \in DOMAIN w : w[j] = w[k] => j = k
  <2>0. \A j, k \in DOMAIN blocksToScavenge : blocksToScavenge[j] = blocksToScavenge[k] => j = k
    BY DEF PlacesOnce
  <2>1. CASE m \in liveMBlocks
    <3>1. blocksToScavenge' = blocksToScavenge
      BY <1>1, <1>2, <2>1 DEF pushBlock
    <3> QED BY <1>12, <2>0, <3>1
  <2>2. CASE m \notin liveMBlocks
    <3>1. blocksToScavenge' = Append(blocksToScavenge, m)
      BY <1>1, <1>2, <2>2 DEF pushBlock
    <3>2. PICK w : w = blocksToScavenge
      OBVIOUS
    <3>3. PICK n \in Nat :
            /\ DOMAIN w = 1..n /\ DOMAIN blocksToScavenge' = 1 .. n + 1 /\ blocksToScavenge'[n + 1] = m
            /\ \A j \in 1..n : blocksToScavenge'[j] = w[j]
      BY <1>10, <1>11, <3>1, <3>2, Appended
    <3>4. \A j \in 1 .. n + 1 : j \in 1..n \/ j = n + 1
      BY <3>3
    <3>5. m # currentBlock /\ \A j \in 1..n : w[j] # m
      BY <1>10, <1>11, <2>2, <3>2, <3>3
    <3>6. \A k \in DOMAIN blocks'[m] : blocks'[m][k] \notin scavenged
      <4> SUFFICES ASSUME NEW k \in DOMAIN blocks'[m], m \in DOMAIN blocks, k \in DOMAIN blocks[m] PROVE FALSE
        BY <1>3, <1>9
      <4>1. blocks[m] = <<>>
        BY <1>10, <2>2
      <4> QED BY <4>1, EmptySeq
    <3>7. \A j \in 1..n : w[j] # currentBlock /\ \A k \in DOMAIN blocks'[w[j]] : blocks'[w[j]][k] \notin scavenged
      BY <1>12, <3>2, <3>3
    <3>8. \A j \in 1 .. n + 1 :
            /\ blocksToScavenge'[j] # currentBlock
            /\ \A k \in DOMAIN blocks'[blocksToScavenge'[j]] : blocks'[blocksToScavenge'[j]][k] \notin scavenged
      BY <3>3, <3>4, <3>5, <3>6, <3>7
    <3>9. \A j, k \in 1 .. n + 1 : blocksToScavenge'[j] = blocksToScavenge'[k] => j = k
      BY <2>0, <3>2, <3>3, <3>4, <3>5
    <3> QED BY <3>3, <3>8, <3>9
  <2> QED BY <2>1, <2>2
<1>15. scavenged \subseteq {0} \cup NonMoved \cup (Limit + 1 .. free' - 1)
  BY <1>4, <1>5
<1> QED BY <1>3, <1>7, <1>8, <1>13, <1>14, <1>15 DEF PlacesOnce, Untouched

LEMMA ScavengedKeepsPlaces == WalkInv /\ PlacesOnce /\ Scavenged => PlacesOnce'
<1> SUFFICES ASSUME WalkInv, PlacesOnce, Scavenged PROVE PlacesOnce'
  OBVIOUS
<1>1. /\ scavenged' = scavenged \cup {x} /\ pc = "pointer"
      /\ UNCHANGED <<free, blocks, blocksToScavenge, currentBlock>>
      /\ IF x \in {0} \cup NonMoved THEN currentObject' = currentObject ELSE currentObject' = currentObject + 1
  BY DEF Scavenged, loopVars
<1>2. x \in {0} \cup NonMoved \cup (Limit + 1 .. free - 1)
  <2>1. CASE x \in {0} \cup NonMoved
    BY <2>1
  <2>2. CASE x \notin {0} \cup NonMoved
    <3>1. currentBlock # 0 /\ currentObject \in DOMAIN blocks[currentBlock] /\ x = blocks[currentBlock][currentObject]
      BY <1>1, <2>2 DEF WalkInv, InProgress, Working
    <3>2. currentBlock \in DOMAIN blocks
      BY <3>1 DEF WalkInv, WalkType
    <3> QED BY <3>1, <3>2 DEF WalkInv, InToSpace
  <2> QED BY <2>1, <2>2
<1>3. \A b \in DOMAIN blocks : \A k \in DOMAIN blocks[b] : blocks[b][k] \notin {0} \cup NonMoved
  <2>1. Limit \in Nat /\ \A y \in Limit + 1 .. free - 1 : y \notin {0} \cup NonMoved
    BY CollectorAssumption DEF WalkInv, WalkType
  <2> QED BY <2>1 DEF WalkInv, InToSpace
<1>4. currentBlock # 0 => currentBlock \in DOMAIN blocks
  BY DEF WalkInv, WalkType
<1>5. \A j \in DOMAIN blocksToScavenge : blocksToScavenge[j] \in DOMAIN blocks
  BY DEF WalkInv, WalkType
\* What is in another block, or further on in this one, is not what has been scavenged.
<1>6. \A b \in DOMAIN blocks : \A k \in DOMAIN blocks[b] :
        b # currentBlock \/ k # currentObject => blocks[b][k] # x
  <2>1. CASE x \in {0} \cup NonMoved
    BY <1>3, <2>1
  <2>2. CASE x \notin {0} \cup NonMoved
    <3>1. currentBlock # 0 /\ currentObject \in DOMAIN blocks[currentBlock] /\ x = blocks[currentBlock][currentObject]
      BY <1>1, <2>2 DEF WalkInv, InProgress, Working
    <3> QED BY <1>4, <3>1 DEF PlacesOnce
  <2> QED BY <2>1, <2>2
<1>7. \A j \in DOMAIN blocksToScavenge :
        /\ blocksToScavenge[j] # currentBlock
        /\ \A k \in DOMAIN blocks[blocksToScavenge[j]] : blocks[blocksToScavenge[j]][k] \notin scavenged'
  BY <1>1, <1>5, <1>6 DEF PlacesOnce, Untouched
<1>8. ASSUME currentBlock # 0, NEW k \in DOMAIN blocks[currentBlock], k >= currentObject'
      PROVE  blocks[currentBlock][k] \notin scavenged'
  <2>1. k \in Nat /\ currentObject \in Nat
    <3>1. blocks[currentBlock] \in Seq(Nat)
      BY <1>4, <1>8, ElementOfSeq, LenProperties DEF WalkInv, WalkType
    <3> QED BY <1>8, <3>1, LenProperties DEF WalkInv, WalkType
  <2>2. k >= currentObject /\ (x \notin {0} \cup NonMoved => k # currentObject)
    BY <1>1, <1>8, <2>1
  <2>3. blocks[currentBlock][k] # x
    BY <1>3, <1>4, <1>6, <1>8, <2>2
  <2>4. blocks[currentBlock][k] \notin scavenged
    BY <1>8, <2>2 DEF PlacesOnce
  <2> QED BY <1>1, <2>3, <2>4
<1> QED BY <1>1, <1>2, <1>7, <1>8 DEF PlacesOnce, Untouched

LEMMA NextBlockKeepsPlaces == WalkInv /\ PlacesOnce /\ NextBlock => PlacesOnce'
<1> SUFFICES ASSUME WalkInv, PlacesOnce, NextBlock PROVE PlacesOnce'
  OBVIOUS
<1>1. /\ currentBlock' = Last(blocksToScavenge) /\ blocksToScavenge' = Front(blocksToScavenge)
      /\ currentObject' = 1 /\ blocksToScavenge # <<>> /\ UNCHANGED <<free, blocks, scavenged>>
  BY DEF NextBlock, pop
<1>2. PICK w : w = blocksToScavenge
  OBVIOUS
<1>3. PICK n \in Nat :
        /\ n >= 1 /\ DOMAIN w = 1..n /\ currentBlock' = w[n] /\ DOMAIN blocksToScavenge' = 1 .. n - 1
        /\ \A j \in 1 .. n - 1 : blocksToScavenge'[j] = w[j]
  BY <1>1, <1>2, LastFront, LenProperties DEF WalkInv, WalkType
<1>4. n \in 1..n /\ \A j \in 1 .. n - 1 : j \in 1..n /\ j # n
  BY <1>3
<1>5. (\A j \in 1..n : Untouched(w[j])) /\ \A j, k \in 1..n : w[j] = w[k] => j = k
  BY <1>2, <1>3 DEF PlacesOnce
<1>6. \A j \in 1 .. n - 1 :
        /\ blocksToScavenge'[j] # currentBlock'
        /\ \A k \in DOMAIN blocks[blocksToScavenge'[j]] : blocks[blocksToScavenge'[j]][k] \notin scavenged
  BY <1>3, <1>4, <1>5 DEF Untouched
<1>7. \A j, k \in 1 .. n - 1 : blocksToScavenge'[j] = blocksToScavenge'[k] => j = k
  BY <1>3, <1>4, <1>5
<1>8. \A k \in DOMAIN blocks[currentBlock'] : blocks[currentBlock'][k] \notin scavenged
  BY <1>3, <1>4, <1>5 DEF Untouched
<1> QED BY <1>1, <1>3, <1>6, <1>7, <1>8 DEF PlacesOnce, Untouched

LEMMA PlacesNext == WalkInv /\ PlacesOnce /\ [Next]_vars => PlacesOnce'
<1> SUFFICES ASSUME WalkInv, PlacesOnce, [Next]_vars PROVE PlacesOnce'
  OBVIOUS
<1>1. CASE Scavenged
  BY <1>1, ScavengedKeepsPlaces
<1>2. CASE NextBlock
  BY <1>2, NextBlockKeepsPlaces
<1>3. CASE Copy \/ EvaluatedToSelector
  BY <1>3, CopyKeepsPlaces DEF Copy, EvaluatedToSelector, walkVars
<1>4. CASE \/ ScavengePointer \/ EvacuatedBefore \/ EvacuateNonMoved \/ StingyEval \/ ReturnToIndirection
           \/ ReturnToScavenge \/ Follow \/ FollowNoFurther \/ UnwindIndirection \/ UnwindSelection \/ UnwindSelector
           \/ EvaluatedToIndirection \/ ScavengeCopy \/ ToNonMoved \/ ScavengeNonMoved \/ BackToBlocks \/ Finish
           \/ UNCHANGED vars
  <2>1. UNCHANGED <<free, blocks, blocksToScavenge, currentBlock, currentObject, scavenged>>
    BY <1>4 DEF ScavengePointer, EvacuatedBefore, EvacuateNonMoved, StingyEval, ReturnToIndirection, ReturnToScavenge,
      Follow, FollowNoFurther, UnwindIndirection, UnwindSelection, UnwindSelector, EvaluatedToIndirection,
      ScavengeCopy, ToNonMoved, ScavengeNonMoved, BackToBlocks, Finish, vars, loopVars, walkVars
  <2> QED BY <2>1, RestKeepsPlaces
<1> QED BY <1>1, <1>2, <1>3, <1>4 DEF Next

LEMMA OnceInit == Init => StaticOnce /\ PlacesOnce
<1> SUFFICES ASSUME Init PROVE StaticOnce /\ PlacesOnce
  OBVIOUS
<1>1. /\ free = Limit + 1 /\ blocks = << <<>> >> /\ liveMBlocks = {} /\ blocksToScavenge = <<>>
      /\ nonMovedObjects = {} /\ nonMovedObjectsToScavenge = <<>> /\ scavenged = {}
      /\ currentBlock = 0 /\ currentObject = 0 /\ x = 0 /\ pc = "pointer"
  BY DEF Init
<1>2. DOMAIN << <<>> >> = {1} /\ << <<>> >>[1] = <<>> /\ Len(<<>>) = 0 /\ DOMAIN <<>> = {}
  BY EmptySeq
<1>3. StaticOnce
  <2>1. 0 \notin NonMoved
    BY CollectorAssumption
  <2> QED BY <1>1, <1>2, <2>1 DEF StaticOnce
<1>4. Limit + 1 .. free - 1 = {} /\ 0 <= BlockClosures
  BY <1>1, CollectorAssumption
<1> QED BY <1>1, <1>2, <1>3, <1>4 DEF PlacesOnce

\* What is being scavenged has not been before.
LEMMA NotBefore == WalkInv /\ StaticOnce /\ PlacesOnce /\ pc \in Working => x \notin scavenged
<1> SUFFICES ASSUME WalkInv, StaticOnce, PlacesOnce, pc \in Working PROVE x \notin scavenged
  OBVIOUS
<1>1. CASE x \in {0} \cup NonMoved
  BY <1>1 DEF StaticOnce
<1>2. CASE x \notin {0} \cup NonMoved
  <2>1. currentBlock # 0 /\ currentObject \in DOMAIN blocks[currentBlock] /\ x = blocks[currentBlock][currentObject]
    BY <1>2 DEF WalkInv, InProgress
  <2>2. currentObject \in Nat
    BY DEF WalkInv, WalkType
  <2> QED BY <2>1, <2>2 DEF PlacesOnce
<1> QED BY <1>1, <1>2
----------------------------------------------------------------------------
\* Two closures of the heap mean the same.
Alike(a, b) == Meaning(heap, a) = Meaning(heap, b)

FromSpace == Dynamic \cup NonMoved
ToSpace   == NonMoved \cup Copies

\* What is left of a closure that moves: itself, a shorter way to what it means, or the
\* address of its copy.
MovableAt(a) ==
  /\ mem[a].type \in {"CON", "ARR"} => mem[a] = heap[a]
  /\ mem[a].type = "IND" => mem[a].ptrs[1] \in FromSpace /\ Alike(mem[a].ptrs[1], a)
  /\ mem[a].type = "SEL" =>
       /\ heap[a].type = "SEL" /\ mem[a].offset = heap[a].offset /\ DOMAIN mem[a].ptrs = {1}
       /\ mem[a].ptrs[1] \in FromSpace /\ Alike(mem[a].ptrs[1], heap[a].ptrs[1])
  /\ mem[a].type = "FORWARD" => mem[a].ptrs[1] \in ToSpace /\ Alike(Original(mem[a].ptrs[1]), a)

\* The pointers that evacuateClosure has been called for.
Seen(a, k) == a \in scavenged \/ (pc \in Working \cup {"thrown"} /\ a = x /\ k < i)

\* What is kept has the pointers it had, to what they meant.
KeptAt(a) ==
  /\ mem[a].type \in {"CON", "ARR", "SEL"}
  /\ a \notin Copies => mem[a].type = heap[a].type
  /\ a \in NonMoved /\ heap[a].type = "CON" => mem[a] = heap[a]
  /\ \A k \in DOMAIN mem[a].ptrs :
       /\ mem[a].ptrs[k] \in IF Seen(a, k) THEN ToSpace ELSE FromSpace
       /\ Alike(Original(mem[a].ptrs[k]), heap[Original(a)].ptrs[k])

Closures ==
  /\ heap \in Heaps /\ \A a \in Copies : origin[a] \in Dynamic
  /\ \A a \in Dynamic : MovableAt(a)
  /\ \A a \in {0} \cup ToSpace : KeptAt(a)

\* The pointer evacuateClosure has been called for, when scavenging began.
Target == heap[Original(x)].ptrs[i]

\* Everything that a call of evacuateClosure has in hand means what it was called for.
InHand ==
  /\ pc \in {"evacuate", "eval", "unwind", "return"} =>
       /\ i \in DOMAIN mem[x].ptrs /\ Alike(Original(c), Target)
       /\ c \in (CASE pc = "return" -> ToSpace [] pc = "evacuate" -> FromSpace [] OTHER -> Dynamic)
       /\ mem[x].ptrs[i] \in Dynamic \/ c = mem[x].ptrs[i]
       /\ \A j \in DOMAIN inds : inds[j] \in Dynamic /\ Alike(inds[j], Target)
  /\ pc \in {"pointer", "loop", "nonmoved"} => inds = <<>>

NextOn(j) == IF j = Len(path) THEN e ELSE path[j + 1].at

\* The closures on the path of stingyEval lead from one to the next.
OnWay ==
  pc \in {"eval", "unwind"} =>
    /\ e \in FromSpace /\ (pc = "unwind" /\ type = "CON" => mem[e].type = "CON")
    /\ \A j \in DOMAIN path :
         /\ path[j].at \in Dynamic
         /\ path[j].type = "IND" => Alike(NextOn(j), path[j].at)
         /\ path[j].type = "SEL" =>
              /\ heap[path[j].at].type = "SEL" /\ heap[path[j].at].offset = path[j].offset
              /\ Alike(NextOn(j), heap[path[j].at].ptrs[1])

KeptInv == Closures /\ InHand /\ OnWay
----------------------------------------------------------------------------
LEMMA Spaces ==
  ASSUME MemInv, WalkInv
  PROVE  /\ Dynamic \cap NonMoved = {} /\ Dynamic \cap Copies = {} /\ NonMoved \cap Copies = {}
         /\ 0 \notin Dynamic /\ 0 \notin NonMoved /\ 0 \notin Copies
         /\ FromSpace \subseteq Start /\ Start \subseteq Addresses /\ Copies \subseteq Addresses
         /\ \A a \in Start : Original(a) = a
         /\ \A a \in Dynamic : a \notin {0} \cup ToSpace
<1>1. Copies = Limit + 1 .. free - 1 /\ Limit \in Nat /\ free \in Nat
  BY CollectorAssumption DEF MemInv, MemType, WalkInv, WalkType
<1>2. \A a \in Copies : a \notin 1..Limit /\ a # 0
  BY <1>1
<1>3. 0 \notin Dynamic /\ 0 \notin NonMoved /\ Dynamic \cap NonMoved = {} /\ Dynamic \cup NonMoved \subseteq 1..Limit
  BY CollectorAssumption
<1>4. \A a \in Start : a \notin Copies
  BY <1>2, <1>3 DEF Start
<1> QED BY <1>2, <1>3, <1>4 DEF FromSpace, ToSpace, Start, Addresses, Original

\* The closures a heap has, as the collection uses them.
LEMMA HeapClosures ==
  ASSUME NEW h \in Heaps
  PROVE  /\ h[0].type = "ARR"
         /\ \A a \in NonMoved : h[a].type \in {"CON", "ARR"}
         /\ \A a \in Start : \A k \in DOMAIN h[a].ptrs : h[a].ptrs[k] \in FromSpace
         /\ \A a \in Dynamic : /\ h[a].type \in {"CON", "ARR", "IND", "SEL"}
                               /\ h[a].type \in {"IND", "SEL"} => DOMAIN h[a].ptrs = {1}
<1>1. WellFormed(h)
  BY CollectorAssumption
<1>2. \A a \in Start : h[a].ptrs \in Seq(FromSpace)
  BY <1>1 DEF WellFormed, Closure, FromSpace
<1>3. \A a \in Start : \A k \in DOMAIN h[a].ptrs : h[a].ptrs[k] \in FromSpace
  BY <1>2, ElementOfSeq, LenProperties
<1>4. \A a \in Dynamic : h[a].type \in {"IND", "SEL"} => DOMAIN h[a].ptrs = {1}
  <2> SUFFICES ASSUME NEW a \in Dynamic, h[a].type \in {"IND", "SEL"} PROVE DOMAIN h[a].ptrs = {1}
    OBVIOUS
  <2>1. Len(h[a].ptrs) = 1 /\ h[a].ptrs \in Seq(FromSpace)
    BY <1>1, <1>2 DEF WellFormed, Start
  <2>2. DOMAIN h[a].ptrs = 1..1
    BY <2>1, LenProperties
  <2> QED BY <2>2
<1> QED BY <1>1, <1>3, <1>4 DEF WellFormed

\* What stands in memory for a closure that is not copied, and for a constructor.
LEMMA KindsOf ==
  ASSUME MemInv, WalkInv, Closures
  PROVE  /\ \A a \in NonMoved : mem[a].type \in {"CON", "ARR"}
         /\ \A a \in FromSpace : mem[a].type = "CON" => mem[a] = heap[a]
         /\ mem[0].type = "ARR"
<1>1. heap \in Heaps /\ 0 \notin Copies /\ NonMoved \cap Copies = {}
  BY Spaces DEF Closures
<1>2. \A a \in {0} \cup NonMoved : mem[a].type = heap[a].type
  BY <1>1 DEF Closures, KeptAt, ToSpace
<1>3. \A a \in NonMoved : mem[a].type = "CON" => mem[a] = heap[a]
  BY <1>1, <1>2 DEF Closures, KeptAt, ToSpace
<1>4. \A a \in Dynamic : mem[a].type = "CON" => mem[a] = heap[a]
  BY DEF Closures, MovableAt
<1> QED BY <1>1, <1>2, <1>3, <1>4, HeapClosures DEF FromSpace

\* A step that leaves the memory alone, and scavenges as far as before.
LEMMA RestKeepsClosures ==
  ASSUME Closures, UNCHANGED <<heap, mem, origin>>,
         \A a \in {0} \cup ToSpace : \A k \in DOMAIN mem[a].ptrs : Seen(a, k)' <=> Seen(a, k)
  PROVE  Closures'
<1>1. Copies' = Copies /\ ToSpace' = ToSpace
  BY DEF Copies, ToSpace
<1>2. ASSUME NEW a \in Dynamic PROVE MovableAt(a)'
  BY <1>1 DEF Closures, MovableAt, Alike, Original
<1>3. ASSUME NEW a \in {0} \cup ToSpace PROVE KeptAt(a)'
  <2>1. KeptAt(a) /\ \A k \in DOMAIN mem[a].ptrs : Seen(a, k)' <=> Seen(a, k)
    BY DEF Closures
  <2> QED BY <1>1, <2>1 DEF KeptAt, Alike, Original
<1> QED BY <1>1, <1>2, <1>3 DEF Closures

\* A step that overwrites a closure that moves.
LEMMA SetKeepsClosures ==
  ASSUME MemInv, WalkInv, Closures, NEW a \in Dynamic, NEW r, mem' = [mem EXCEPT ![a] = r],
         UNCHANGED <<heap, origin>>,
         \A b \in {0} \cup ToSpace : \A k \in DOMAIN mem[b].ptrs : Seen(b, k)' <=> Seen(b, k),
         MovableAt(a)'
  PROVE  Closures'
<1>1. Copies' = Copies /\ ToSpace' = ToSpace
  BY DEF Copies, ToSpace
<1>0. DOMAIN mem = Addresses /\ \A b \in {0} \cup ToSpace \cup Dynamic : b \in Addresses
  BY Spaces DEF MemInv, MemType, ToSpace, Addresses, Start
<1>2. ASSUME NEW b \in Dynamic, b # a PROVE MovableAt(b)'
  <2>1. MovableAt(b) /\ mem'[b] = mem[b]
    BY <1>0, <1>2 DEF Closures
  <2> QED BY <1>1, <2>1 DEF MovableAt, Alike, Original
<1>3. ASSUME NEW b \in {0} \cup ToSpace PROVE KeptAt(b)'
  <2>1. KeptAt(b) /\ \A k \in DOMAIN mem[b].ptrs : Seen(b, k)' <=> Seen(b, k)
    BY DEF Closures
  <2>2. mem'[b] = mem[b]
    BY <1>0, Spaces
  <2> QED BY <1>1, <2>1, <2>2 DEF KeptAt, Alike, Original
<1> QED BY <1>1, <1>2, <1>3 DEF Closures

LEMMA CopyKeepsClosures ==
  ASSUME WalkInv, MemInv, PlacesOnce, Closures, copyClosure(c), c \in Dynamic,
         mem[c].type \in {"CON", "ARR", "SEL"}, pc \in Working, pc' = "return", UNCHANGED <<heap, walkVars>>
  PROVE  /\ Closures' /\ ToSpace' = ToSpace \cup {free}
         /\ \A y \in Addresses : Original(y)' = Original(y)
         /\ \A y : y = free => Original(y)' = c
<1>f. PICK f : f = free
  OBVIOUS
<1>1. /\ Copies' = Copies \cup {free} /\ free \notin Addresses
      /\ mem'[c] = Forward(free) /\ mem'[free] = mem[c]
      /\ \A y \in Addresses : y # c => mem'[y] = mem[y]
      /\ origin'[free] = c /\ \A y \in Copies : origin'[y] = origin[y]
      /\ UNCHANGED <<heap, scavenged, x, i>>
  BY CopyMade DEF walkVars
<1>2. ToSpace' = ToSpace \cup {free}
  BY <1>1 DEF ToSpace
<1>3. \A y \in Addresses : Original(y)' = Original(y)
  BY <1>1 DEF Original
<1>4. Original(f)' = c /\ f \in ToSpace'
  BY <1>f, <1>1 DEF Original, ToSpace
<1>5. /\ \A y \in Dynamic \cup {0} \cup ToSpace \cup FromSpace : y \in Addresses
      /\ \A y \in {0} \cup ToSpace : y # c
      /\ \A y \in FromSpace : Original(y) = y
  BY Spaces DEF ToSpace, Addresses, Start, FromSpace
<1>6. \A a, k : a # f => (Seen(a, k)' <=> Seen(a, k))
  BY <1>f, <1>1 DEF Seen, Working
<1>7. ASSUME NEW a \in Dynamic PROVE MovableAt(a)'
  <2>1. CASE a = c
    <3>1. mem'[a].type = "FORWARD" /\ mem'[a].ptrs[1] = f
      BY <1>f, <1>1, <2>1 DEF Forward
    <3> QED BY <1>1, <1>4, <2>1, <3>1 DEF MovableAt, Original, Alike
  <2>2. CASE a # c
    <3>1. MovableAt(a) /\ mem'[a] = mem[a]
      BY <1>1, <1>5, <2>2 DEF Closures
    <3>2. PICK p : p = mem[a].ptrs[1]
      OBVIOUS
    <3>3. mem[a].type = "FORWARD" => Original(p)' = Original(p)
      BY <1>3, <1>5, <3>1, <3>2 DEF MovableAt
    <3> QED BY <1>1, <1>2, <3>1, <3>2, <3>3 DEF MovableAt, Alike, Original
  <2> QED BY <2>1, <2>2
<1>8. ASSUME NEW a \in {0} \cup ToSpace PROVE KeptAt(a)'
  <2>1. KeptAt(a) /\ mem'[a] = mem[a] /\ a \in Addresses /\ a # f
    BY <1>f, <1>1, <1>5 DEF Closures
  <2>2. \A k \in DOMAIN mem[a].ptrs : mem[a].ptrs[k] \in Addresses
    BY <2>1, Pointer
  <2>3. a \in Copies' <=> a \in Copies
    BY <1>f, <1>1, <2>1
  <2>4. \A k \in DOMAIN mem[a].ptrs :
          /\ mem[a].ptrs[k] \in IF Seen(a, k)' THEN ToSpace' ELSE FromSpace
          /\ Meaning(heap, Original(mem[a].ptrs[k])) = Meaning(heap, heap[Original(a)].ptrs[k])
    BY <1>2, <1>6, <2>1 DEF KeptAt, Alike
  <2>5. \A k \in DOMAIN mem[a].ptrs :
          Meaning(heap, (IF mem[a].ptrs[k] \in Copies' THEN origin'[mem[a].ptrs[k]] ELSE mem[a].ptrs[k]))
            = Meaning(heap, heap[IF a \in Copies' THEN origin'[a] ELSE a].ptrs[k])
    BY <1>f, <1>1, <2>1, <2>2, <2>4 DEF Original
  <2> QED BY <1>1, <2>1, <2>3, <2>4, <2>5 DEF KeptAt, Alike, Original
<1>9. KeptAt(f)'
  <2>1. MovableAt(c) /\ heap \in Heaps
    BY DEF Closures
  <2>2. \A k \in DOMAIN mem[c].ptrs : mem[c].ptrs[k] \in FromSpace /\ Alike(mem[c].ptrs[k], heap[c].ptrs[k])
    <3>1. CASE mem[c].type \in {"CON", "ARR"}
      BY <2>1, <3>1, HeapClosures DEF MovableAt, Alike, Start
    <3>2. CASE mem[c].type = "SEL"
      BY <2>1, <3>2 DEF MovableAt
    <3> QED BY <3>1, <3>2
  <2>3. \A k : ~Seen(f, k)'
    <3>1. free \notin scavenged
      <4>1. Limit \in Nat /\ free \in Nat /\ free > Limit
        BY CollectorAssumption DEF WalkInv, WalkType
      <4>2. free \notin {0} \cup NonMoved \cup (Limit + 1 .. free - 1)
        BY <1>1, <4>1 DEF Addresses, Start
      <4> QED BY <4>2 DEF PlacesOnce
    <3>2. x # free
      BY <1>1 DEF MemInv, MemType
    <3> QED BY <1>f, <1>1, <3>1, <3>2 DEF Seen
  <2>4. f \in Copies' /\ f \notin NonMoved /\ mem'[f] = mem[c] /\ origin'[f] = c
    BY <1>f, <1>1, <1>5 DEF FromSpace
  <2>5. \A k \in DOMAIN mem[c].ptrs : mem[c].ptrs[k] \notin Copies'
    BY <1>f, <1>1, <1>5, <2>2, Spaces DEF FromSpace
  <2> QED BY <1>1, <2>2, <2>3, <2>4, <2>5 DEF KeptAt, Alike, Original
<1>10. \A a \in Copies' : origin'[a] \in Dynamic
  BY <1>1 DEF Closures
<1>11. \A a \in {0} \cup ToSpace' : a \in {0} \cup ToSpace \/ a = f
  BY <1>f, <1>2
<1>12. Closures'
  BY <1>1, <1>7, <1>8, <1>9, <1>10, <1>11 DEF Closures
<1> QED BY <1>f, <1>2, <1>3, <1>4, <1>12

\* The pointer that has been scavenged leads to what it led to.
LEMMA ReturnKeepsClosures == WalkInv /\ MemInv /\ StaticOnce /\ PlacesOnce /\ KeptInv /\ ReturnToScavenge => Closures'
<1> SUFFICES ASSUME WalkInv, MemInv, StaticOnce, PlacesOnce, KeptInv, ReturnToScavenge PROVE Closures'
  OBVIOUS
<1>1. /\ pc = "return" /\ pc' = "pointer" /\ mem' = [mem EXCEPT ![x].ptrs[i] = c] /\ i' = i + 1
      /\ UNCHANGED <<heap, origin, x, scavenged>>
  BY DEF ReturnToScavenge, loopVars
<1>2. /\ i \in DOMAIN mem[x].ptrs /\ Alike(Original(c), Target) /\ c \in ToSpace
      /\ mem[x].ptrs[i] \in Dynamic \/ c = mem[x].ptrs[i]
  BY <1>1 DEF KeptInv, InHand
<1>3. Copies' = Copies /\ ToSpace' = ToSpace /\ i \in Nat /\ DOMAIN mem = Addresses
  BY <1>1 DEF Copies, ToSpace, MemInv, MemType
<1>4. x \in {0} \cup ToSpace /\ x \notin scavenged
  <2>1. x \notin scavenged
    BY <1>1, NotBefore DEF Working
  <2>2. x \notin {0} \cup NonMoved => x \in Limit + 1 .. free - 1
    BY <1>1 DEF WalkInv, InProgress, WalkType, InToSpace, Working
  <2> QED BY <2>1, <2>2 DEF ToSpace, MemInv, MemType
<1>5. KeptAt(x)
  BY <1>4 DEF KeptInv, Closures
<1>6. PICK q : q = [mem[x].ptrs EXCEPT ![i] = c]
  OBVIOUS
<1>7. mem' = [mem EXCEPT ![x] = [mem[x] EXCEPT !.ptrs = q]] /\ x \in Addresses
  BY <1>1, <1>6 DEF MemInv, MemType
<1>8. mem[x] \in Closure(Addresses) /\ mem[x].ptrs \in Seq(Addresses)
  BY <1>7, Pointer
<1>9. /\ DOMAIN q = DOMAIN mem[x].ptrs /\ q[i] = c
      /\ \A k \in DOMAIN q : k # i => q[k] = mem[x].ptrs[k]
  BY <1>2, <1>6, <1>8
<1>10. /\ mem'[x].type = mem[x].type /\ mem'[x].ptrs = q
       /\ \A b \in Addresses : b # x => mem'[b] = mem[b]
  BY <1>3, <1>7, <1>8 DEF Closure
<1>u. UNCHANGED <<heap, origin, scavenged>> /\ Copies' = Copies /\ ToSpace' = ToSpace
  BY <1>1, <1>3
<1>11. ASSUME NEW a \in Dynamic PROVE MovableAt(a)'
  <2>1. MovableAt(a) /\ mem'[a] = mem[a]
    BY <1>4, <1>10, Spaces DEF KeptInv, Closures, FromSpace
  <2> QED BY <1>u, <2>1 DEF MovableAt, Alike, Original
<1>12. ASSUME NEW a \in {0} \cup ToSpace, a # x PROVE KeptAt(a)'
  <2>1. KeptAt(a) /\ mem'[a] = mem[a]
    <3>1. a \in Addresses
      BY Spaces DEF ToSpace, FromSpace, Start
    <3> QED BY <1>10, <1>12, <3>1 DEF KeptInv, Closures
  <2>2. \A k : Seen(a, k)' <=> Seen(a, k)
    BY <1>1, <1>12 DEF Seen
  <2> QED BY <1>u, <2>1, <2>2 DEF KeptAt, Alike, Original
<1>13. ASSUME NEW a, a = x PROVE KeptAt(a)'
  <2>1. \A k \in DOMAIN q : Seen(a, k)' <=> k = i \/ Seen(a, k)
    <3>1. \A k \in DOMAIN q : k \in Nat
      BY <1>8, <1>9, LenProperties
    <3> QED BY <1>1, <1>3, <1>4, <1>13, <3>1 DEF Seen, Working
  <2>2. \A k \in DOMAIN q :
          /\ q[k] \in IF Seen(a, k)' THEN ToSpace ELSE FromSpace
          /\ Alike(Original(q[k]), heap[Original(x)].ptrs[k])
    BY <1>2, <1>5, <1>9, <1>13, <2>1 DEF KeptAt, Target
  <2>3. x \in NonMoved /\ heap[x].type = "CON" => mem'[x] = heap[x]
    <3> SUFFICES ASSUME x \in NonMoved, heap[x].type = "CON" PROVE mem'[x] = heap[x]
      OBVIOUS
    <3>1. mem[x] = heap[x]
      BY <1>5 DEF KeptAt
    <3>2. mem[x].ptrs[i] \in NonMoved
      <4>1. WellFormed(heap)
        BY CollectorAssumption DEF KeptInv, Closures
      <4>2. mem[x].ptrs \in Seq(NonMoved)
        BY <3>1, <4>1 DEF WellFormed
      <4> QED BY <1>2, <4>2, ElementOfSeq, LenProperties
    <3>3. c = mem[x].ptrs[i]
      BY <1>2, <3>2, Spaces
    <3>4. q = mem[x].ptrs
      BY <1>6, <1>8, <3>3
    <3> QED BY <1>3, <1>7, <1>8, <3>1, <3>4 DEF Closure
  <2> QED BY <1>u, <1>5, <1>10, <1>13, <2>2, <2>3 DEF KeptAt, Alike, Original
<1> QED BY <1>1, <1>3, <1>11, <1>12, <1>13 DEF KeptInv, Closures

LEMMA KeptInit == Init => KeptInv
<1> SUFFICES ASSUME Init PROVE KeptInv
  OBVIOUS
<1>1. heap \in Heaps /\ mem = heap /\ origin = <<>> /\ scavenged = {} /\ pc = "pointer" /\ x = 0 /\ i = 1
  BY DEF Init
<1>2. Copies = {} /\ WalkInv /\ MemInv
  BY <1>1, WalkInit, MemInit DEF Copies
<1>3. \A a : Original(a) = a
  BY <1>2 DEF Original
<1>4. LeadsOn(heap) /\ \A a \in Dynamic : a \in Start /\ 1 \in {1}
  BY <1>1, EvaluationAssumption DEF Start
<1>5. ASSUME NEW a \in Dynamic PROVE MovableAt(a)
  <2>1. heap[a].type \in {"CON", "ARR", "IND", "SEL"}
    BY <1>1, HeapClosures
  <2>2. heap[a].type \in {"IND", "SEL"} => DOMAIN heap[a].ptrs = {1} /\ heap[a].ptrs[1] \in FromSpace
    BY <1>1, <1>4, HeapClosures
  <2>3. heap[a].type = "IND" => Alike(heap[a].ptrs[1], a)
    BY <1>4 DEF LeadsOn, Alike
  <2> QED BY <1>1, <2>1, <2>2, <2>3 DEF MovableAt, Alike
<1>6. ASSUME NEW a \in {0} \cup NonMoved PROVE KeptAt(a)
  <2>1. heap[a].type \in {"CON", "ARR"} /\ a \in Start
    BY <1>1, HeapClosures DEF Start
  <2>2. \A k \in DOMAIN heap[a].ptrs : heap[a].ptrs[k] \in FromSpace
    BY <1>1, <2>1, HeapClosures
  <2>3. \A k \in DOMAIN heap[a].ptrs : ~Seen(a, k)
    <3>1. heap[a].ptrs \in Seq(Dynamic \cup NonMoved)
      BY <1>1, <2>1, CollectorAssumption DEF WellFormed, Closure
    <3>2. \A k \in DOMAIN heap[a].ptrs : k \in Nat /\ ~(k < 1)
      BY <3>1, LenProperties
    <3> QED BY <1>1, <3>2 DEF Seen
  <2> QED BY <1>1, <1>3, <2>1, <2>2, <2>3 DEF KeptAt, Alike
<1>7. Closures
  BY <1>1, <1>2, <1>5, <1>6 DEF Closures, ToSpace
<1>8. InHand /\ OnWay
  <2>1. inds = <<>>
    BY DEF Init
  <2> QED BY <1>1, <2>1 DEF InHand, OnWay
<1> QED BY <1>7, <1>8 DEF KeptInv
----------------------------------------------------------------------------
\* What is being scavenged is kept, and is not moved itself.
LEMMA InWork ==
  ASSUME WalkInv, MemInv, StaticOnce, PlacesOnce, pc \in Working
  PROVE  x \in {0} \cup ToSpace /\ x \notin scavenged /\ x \notin Dynamic /\ x \in Addresses
<1>1. x \notin {0} \cup NonMoved => x \in Limit + 1 .. free - 1
  BY DEF WalkInv, InProgress, WalkType, InToSpace
<1>2. x \in {0} \cup ToSpace
  BY <1>1 DEF ToSpace, MemInv, MemType
<1> QED BY <1>2, NotBefore, Spaces DEF MemInv, MemType

\* scavengeClosure and scavengeLoop.
LEMMA ScavengingKeeps ==
  ASSUME WalkInv, MemInv, StaticOnce, PlacesOnce, KeptInv, ScavengePointer \/ Scavenged
  PROVE  KeptInv'
<1>1. UNCHANGED <<heap, mem, origin, x, i>> /\ pc = "pointer" /\ ToSpace' = ToSpace
  BY DEF ScavengePointer, Scavenged, loopVars, walkVars, ToSpace, Copies
<1>2. x \in {0} \cup ToSpace /\ x \notin scavenged /\ x \notin Dynamic /\ x \in Addresses
  BY <1>1, InWork DEF Working
<1>3. /\ DOMAIN mem[x].ptrs = 1..Len(mem[x].ptrs) /\ Len(mem[x].ptrs) \in Nat /\ i \in Nat /\ 1 <= i
      /\ \A k \in DOMAIN mem[x].ptrs : k \in Nat
  BY <1>2, Pointer DEF MemInv, MemType
<1>4. CASE ScavengePointer
  <2>1. /\ pc' = "evacuate" /\ c' = mem[x].ptrs[i] /\ i <= Len(mem[x].ptrs)
        /\ UNCHANGED <<scavenged, inds>>
    BY <1>4 DEF ScavengePointer, morePointers, walkVars
  <2>2. i \in DOMAIN mem[x].ptrs /\ KeptAt(x)
    <3>1. i \in 1..Len(mem[x].ptrs)
      BY <1>3, <2>1
    <3>2. KeptAt(x)
      BY <1>2 DEF KeptInv, Closures
    <3> QED BY <1>3, <3>1, <3>2
  <2>3. ~Seen(x, i)
    BY <1>2, <1>3 DEF Seen
  <2>4. mem[x].ptrs[i] \in FromSpace /\ Alike(Original(mem[x].ptrs[i]), Target)
    BY <2>2, <2>3 DEF KeptAt, Target
  <2>5. \A a, k : Seen(a, k)' <=> Seen(a, k)
    BY <1>1, <2>1 DEF Seen, Working
  <2>6. Closures'
    BY <1>1, <2>5, RestKeepsClosures DEF KeptInv
  <2>7. InHand'
    <3>1. inds' = <<>> /\ DOMAIN inds' = {}
      BY <1>1, <2>1, EmptySeq DEF KeptInv, InHand
    <3> QED BY <1>1, <2>1, <2>2, <2>4, <3>1 DEF InHand, Alike, Original, Copies, Target, FromSpace
  <2> QED BY <2>1, <2>6, <2>7 DEF KeptInv, OnWay
<1>5. CASE Scavenged
  <2>1. pc' \notin Working /\ scavenged' = scavenged \cup {x} /\ i > Len(mem[x].ptrs) /\ pc' # "thrown"
    BY <1>3, <1>5 DEF Scavenged, morePointers, Working
  <2>2. \A k \in DOMAIN mem[x].ptrs : k < i
    BY <1>3, <2>1
  <2>3. \A a : \A k \in DOMAIN mem[a].ptrs : Seen(a, k)' <=> Seen(a, k)
    BY <1>1, <2>1, <2>2 DEF Seen, Working
  <2>4. Closures'
    BY <1>1, <2>3, RestKeepsClosures DEF KeptInv
  <2>5. inds' = <<>>
    BY <1>1, <1>5 DEF KeptInv, InHand, Scavenged
  <2> QED BY <2>1, <2>4, <2>5 DEF KeptInv, InHand, OnWay, Working
<1> QED BY <1>4, <1>5

\* A call of evacuateClosure that leaves the memory alone.
LEMMA EvacuatingKeeps ==
  ASSUME WalkInv, MemInv, StaticOnce, PlacesOnce, KeptInv,
         EvacuatedBefore \/ EvacuateNonMoved \/ StingyEval \/ EvaluatedToIndirection
  PROVE  KeptInv'
<1>1. UNCHANGED <<heap, mem, origin, x, i, scavenged, path>> /\ pc \in {"evacuate", "unwind"}
  BY DEF EvacuatedBefore, EvacuateNonMoved, StingyEval, EvaluatedToIndirection, Moves, loopVars, walkVars, evalVars
<1>2. pc' \in {"return", "eval", "evacuate", "thrown"}
  BY DEF EvacuatedBefore, EvacuateNonMoved, StingyEval, EvaluatedToIndirection, Moves
<1>3. Copies' = Copies /\ ToSpace' = ToSpace /\ FromSpace' = FromSpace /\ Target' = Target
  BY <1>1 DEF Copies, ToSpace, FromSpace, Target, Original
<1>4. \A a, k : Seen(a, k)' <=> Seen(a, k)
  BY <1>1, <1>2 DEF Seen, Working
<1>5. Closures /\ Closures'
  BY <1>1, <1>4, RestKeepsClosures DEF KeptInv
<1>6. /\ i \in DOMAIN mem[x].ptrs /\ Alike(Original(c), Target)
      /\ pc = "evacuate" => c \in FromSpace
      /\ pc = "unwind" => c \in Dynamic
      /\ mem[x].ptrs[i] \in Dynamic \/ c = mem[x].ptrs[i]
      /\ \A j \in DOMAIN inds : inds[j] \in Dynamic /\ Alike(inds[j], Target)
  BY <1>1 DEF KeptInv, InHand
<1>7. \A y \in FromSpace : Original(y) = y /\ (y \in Dynamic \/ y \in NonMoved) /\ ~(y \in Dynamic /\ y \in NonMoved)
  BY Spaces DEF FromSpace
<1>8. CASE EvacuatedBefore
  <2>1. /\ pc = "evacuate" /\ pc' = "return" /\ mem[c].type = "FORWARD" /\ c' = mem[c].ptrs[1] /\ inds' = inds
    BY <1>8 DEF EvacuatedBefore
  <2>2. c \in Dynamic /\ mem[x].ptrs[i] \in Dynamic
    BY <1>5, <1>6, <1>7, <2>1, KindsOf
  <2>3. PICK p : p = mem[c].ptrs[1]
    OBVIOUS
  <2>4. p \in ToSpace /\ Alike(Original(p), c)
    BY <1>5, <2>1, <2>2, <2>3 DEF Closures, MovableAt
  <2>5. Alike(Original(p), Target)
    BY <1>6, <1>7, <2>1, <2>4 DEF Alike
  <2>6. InHand'
    BY <1>1, <1>3, <1>6, <2>1, <2>2, <2>3, <2>4, <2>5 DEF InHand, Alike, Original
  <2> QED BY <1>5, <2>1, <2>6 DEF KeptInv, OnWay
<1>9. CASE EvacuateNonMoved
  <2>1. pc = "evacuate" /\ pc' = "return" /\ c \in NonMoved /\ c' = c /\ inds' = inds
    BY <1>9 DEF EvacuateNonMoved
  <2>2. InHand'
    BY <1>1, <1>3, <1>6, <2>1 DEF InHand, Alike, Original, ToSpace
  <2> QED BY <1>5, <2>1, <2>2 DEF KeptInv, OnWay
<1>10. CASE StingyEval
  <2>1. /\ pc = "evacuate" /\ pc' = "eval" /\ c \notin NonMoved /\ c' = c /\ inds' = inds /\ e' = c
    BY <1>10 DEF StingyEval, Moves
  <2>2. c \in Dynamic
    BY <1>6, <2>1 DEF FromSpace
  <2>3. InHand'
    BY <1>1, <1>3, <1>6, <2>1, <2>2 DEF InHand, Alike, Original
  <2>4. path = <<>>
    BY <2>1 DEF MemInv, Asked
  <2>5. OnWay'
    BY <1>1, <1>3, <1>6, <2>1, <2>4, EmptySeq DEF OnWay
  <2> QED BY <1>5, <2>3, <2>5 DEF KeptInv
<1>11. CASE EvaluatedToIndirection
  <2>1. pc = "unwind" /\ path = <<>> /\ type = "IND"
    BY <1>11 DEF EvaluatedToIndirection
  <2>2. c \in Dynamic /\ mem[c].type = "IND" /\ c \in FromSpace
    BY <1>6, <2>1 DEF MemInv, Asked, FromSpace
  <2>3. mem[x].ptrs[i] \in Dynamic
    BY <1>6, <2>2
  <2>4. PICK p : p = mem[c].ptrs[1]
    OBVIOUS
  <2>5. p \in FromSpace /\ Alike(p, c)
    BY <1>5, <2>2, <2>4 DEF Closures, MovableAt
  <2>6. Alike(c, Target) /\ Alike(Original(p), Target)
    BY <1>6, <1>7, <2>2, <2>5 DEF Alike
  <2>7. CASE Len(inds) < MaxCalls
    <3>1. pc' = "evacuate" /\ inds' = Append(inds, c) /\ c' = p
      BY <1>11, <2>4, <2>7 DEF EvaluatedToIndirection
    <3>2. PICK s : s = inds
      OBVIOUS
    <3>3. PICK n \in Nat :
            /\ DOMAIN s = 1..n /\ DOMAIN inds' = 1 .. n + 1 /\ inds'[n + 1] = c
            /\ \A j \in 1..n : inds'[j] = s[j]
      BY <3>1, <3>2, Appended DEF MemInv, MemType
    <3>4. \A j \in 1 .. n + 1 : j \in 1..n \/ j = n + 1
      BY <3>3
    <3>5. \A j \in DOMAIN inds' : inds'[j] \in Dynamic /\ Alike(inds'[j], Target)
      BY <1>6, <2>2, <2>6, <3>2, <3>3, <3>4
    <3>6. InHand'
      BY <1>1, <1>3, <1>6, <2>3, <2>4, <2>5, <2>6, <3>1, <3>5 DEF InHand, Alike, Original
    <3> QED BY <1>5, <3>1, <3>6 DEF KeptInv, OnWay
  <2>8. CASE ~(Len(inds) < MaxCalls)
    <3>1. pc' = "thrown"
      BY <1>11, <2>8 DEF EvaluatedToIndirection
    <3> QED BY <1>5, <3>1 DEF KeptInv, InHand, OnWay
  <2> QED BY <2>7, <2>8
<1> QED BY <1>8, <1>9, <1>10, <1>11

LEMMA CopyingKeeps ==
  ASSUME WalkInv, MemInv, StaticOnce, PlacesOnce, KeptInv, Copy \/ EvaluatedToSelector
  PROVE  KeptInv'
<1>1. /\ copyClosure(c) /\ pc' = "return" /\ UNCHANGED <<heap, walkVars, inds>>
      /\ pc \in {"evacuate", "unwind"}
  BY DEF Copy, EvaluatedToSelector, Moves
<1>2. /\ i \in DOMAIN mem[x].ptrs /\ Alike(Original(c), Target)
      /\ pc = "evacuate" => c \in FromSpace
      /\ pc = "unwind" => c \in Dynamic
      /\ mem[x].ptrs[i] \in Dynamic \/ c = mem[x].ptrs[i]
      /\ \A j \in DOMAIN inds : inds[j] \in Dynamic /\ Alike(inds[j], Target)
  BY <1>1 DEF KeptInv, InHand
<1>3. c \in Dynamic /\ mem[c].type \in {"CON", "ARR", "SEL"}
  <2>1. CASE Copy
    BY <1>2, <2>1 DEF Copy, Moves, FromSpace
  <2>2. CASE EvaluatedToSelector
    BY <1>2, <2>2 DEF EvaluatedToSelector, MemInv, Asked
  <2> QED BY <2>1, <2>2
<1>4. PICK f : f = free
  OBVIOUS
<1>5. /\ Closures' /\ ToSpace' = ToSpace \cup {f}
      /\ \A y \in Addresses : Original(y)' = Original(y)
      /\ Original(f)' = c
  BY <1>1, <1>3, <1>4, CopyKeepsClosures DEF KeptInv, Working
<1>6. c' = f /\ \A y \in Addresses : y # c => mem'[y] = mem[y]
  BY <1>1, <1>4, CopyMade
<1>7. x \in Addresses /\ x \notin Dynamic
  BY <1>1, InWork DEF Working
<1>8. Original(c) = c
  BY <1>3, Spaces DEF FromSpace
<1>9. mem'[x] = mem[x] /\ x' = x /\ i' = i /\ inds' = inds /\ heap' = heap
  BY <1>1, <1>3, <1>6, <1>7 DEF walkVars
<1>10. Target' = Target
  <2>1. PICK y : y = x
    OBVIOUS
  <2>2. Original(y)' = Original(y)
    BY <1>5, <1>7, <2>1
  <2> QED BY <1>9, <2>1, <2>2 DEF Target, Original
<1>11. mem[x].ptrs[i] \in Dynamic
  BY <1>2, <1>3
<1>12. InHand'
  <2>1. Meaning(heap, Original(f)') = Meaning(heap, Target')
    BY <1>2, <1>5, <1>8, <1>10 DEF Alike
  <2>2. Alike(Original(c), Target)'
    BY <1>6, <1>9, <2>1 DEF Alike, Original
  <2> QED BY <1>1, <1>2, <1>5, <1>6, <1>9, <1>10, <1>11, <2>2 DEF InHand, Alike
<1> QED BY <1>1, <1>5, <1>12 DEF KeptInv, OnWay

LEMMA ReturningKeeps ==
  ASSUME WalkInv, MemInv, StaticOnce, PlacesOnce, KeptInv, ReturnToIndirection \/ ReturnToScavenge
  PROVE  KeptInv'
<1>1. CASE ReturnToScavenge
  BY <1>1, ReturnKeepsClosures DEF ReturnToScavenge, KeptInv, InHand, OnWay
<1>2. CASE ReturnToIndirection
  <2>1. /\ pc = "return" /\ pc' = "return" /\ inds # <<>> /\ inds' = Front(inds)
        /\ mem' = [mem EXCEPT ![Last(inds)] = Forward(c)]
        /\ UNCHANGED <<heap, origin, x, i, c, scavenged>>
    BY <1>2 DEF ReturnToIndirection, loopVars, walkVars
  <2>2. /\ i \in DOMAIN mem[x].ptrs /\ Alike(Original(c), Target) /\ c \in ToSpace
        /\ mem[x].ptrs[i] \in Dynamic \/ c = mem[x].ptrs[i]
        /\ \A j \in DOMAIN inds : inds[j] \in Dynamic /\ Alike(inds[j], Target)
    BY <2>1 DEF KeptInv, InHand
  <2>3. PICK s : s = inds
    OBVIOUS
  <2>4. PICK n \in Nat :
          /\ n >= 1 /\ DOMAIN s = 1..n /\ Last(inds) = s[n] /\ DOMAIN inds' = 1 .. n - 1
          /\ \A j \in 1 .. n - 1 : inds'[j] = s[j]
    BY <2>1, <2>3, LastFront, LenProperties DEF MemInv, MemType
  <2>5. n \in 1..n /\ \A j \in 1 .. n - 1 : j \in 1..n
    BY <2>4
  <2>6. PICK a : a = s[n]
    OBVIOUS
  <2>7. a \in Dynamic /\ Alike(a, Target) /\ mem' = [mem EXCEPT ![a] = Forward(c)]
    BY <2>1, <2>2, <2>3, <2>4, <2>5, <2>6
  <2>8. /\ x \notin Dynamic /\ DOMAIN mem = Addresses /\ a \in Addresses
        /\ Copies' = Copies /\ ToSpace' = ToSpace /\ Target' = Target
    BY <2>1, <2>7, InWork, Spaces DEF Working, MemInv, MemType, Copies, ToSpace, Target, Original, FromSpace
  <2>9. MovableAt(a)'
    <3>1. mem'[a].type = "FORWARD" /\ mem'[a].ptrs[1] = c
      BY <2>7, <2>8 DEF Forward
    <3>2. Alike(Original(c), a)
      BY <2>2, <2>7 DEF Alike
    <3> QED BY <2>1, <2>2, <2>8, <3>1, <3>2 DEF MovableAt, Alike, Original
  <2>10. \A b, k : Seen(b, k)' <=> Seen(b, k)
    BY <2>1 DEF Seen
  <2>11. Closures'
    BY <2>1, <2>7, <2>9, <2>10, SetKeepsClosures DEF KeptInv
  <2>12. mem'[x] = mem[x]
    BY <2>7, <2>8
  <2>13. \A j \in DOMAIN inds' : inds'[j] \in Dynamic /\ Alike(inds'[j], Target)
    BY <2>2, <2>3, <2>4, <2>5
  <2>14. InHand'
    BY <2>1, <2>2, <2>8, <2>12, <2>13 DEF InHand, Alike, Original
  <2> QED BY <2>1, <2>11, <2>14 DEF KeptInv, OnWay
<1> QED BY <1>1, <1>2

Frames == [at : Addresses, type : {"IND", "SEL"}, offset : Nat]

\* A step of stingyEval leaves what evacuateClosure has in hand alone.
LEMMA EvaluatingKeepsHand ==
  ASSUME WalkInv, MemInv, StaticOnce, PlacesOnce, KeptInv, pc \in {"eval", "unwind"}, pc' \in {"eval", "unwind"},
         UNCHANGED <<heap, origin, x, i, c, inds, scavenged>>, NEW a \in Dynamic,
         \A y \in Addresses : y # a => mem'[y] = mem[y]
  PROVE  /\ InHand' /\ FromSpace' = FromSpace
         /\ \A b, k : Seen(b, k)' <=> Seen(b, k)
<1>1. x \notin Dynamic /\ x \in Addresses
  BY InWork DEF Working
<1>2. mem'[x] = mem[x] /\ Copies' = Copies /\ Target' = Target
  BY <1>1 DEF Copies, Target, Original
<1>3. \A b, k : Seen(b, k)' <=> Seen(b, k)
  BY DEF Seen, Working
<1>4. InHand'
  BY <1>2 DEF KeptInv, InHand, Alike, Original
<1> QED BY <1>3, <1>4 DEF FromSpace

LEMMA FollowKeeps ==
  ASSUME WalkInv, MemInv, StaticOnce, PlacesOnce, KeptInv, Follow
  PROVE  KeptInv'
<1>1. /\ pc = "eval" /\ pc' = "eval" /\ mem[e].type \in {"IND", "SEL"}
      /\ path' = Append(path, [at |-> e, type |-> mem[e].type, offset |-> mem[e].offset])
      /\ mem' = [mem EXCEPT ![e].type = "WHITEHOLE"] /\ e' = mem[e].ptrs[1]
      /\ UNCHANGED <<heap, origin, x, i, c, inds, scavenged>>
  BY DEF Follow, loopVars, walkVars
<1>2. Closures /\ OnWay /\ e \in FromSpace
  BY <1>1 DEF KeptInv, OnWay
<1>3. PICK a, r : a = e /\ r = [mem[a] EXCEPT !.type = "WHITEHOLE"]
  OBVIOUS
<1>4. a \in Dynamic
  BY <1>1, <1>2, <1>3, KindsOf DEF FromSpace
<1>5. a \in Addresses /\ DOMAIN mem = Addresses /\ mem[a] \in Closure(Addresses)
  BY <1>4, Pointer, Spaces DEF FromSpace, MemInv, MemType
<1>6. mem' = [mem EXCEPT ![a] = r] /\ r.type = "WHITEHOLE"
  BY <1>1, <1>3, <1>5 DEF Closure
<1>7. mem'[a].type = "WHITEHOLE" /\ \A y \in Addresses : y # a => mem'[y] = mem[y]
  BY <1>5, <1>6
<1>8. InHand' /\ FromSpace' = FromSpace /\ \A b, k : Seen(b, k)' <=> Seen(b, k)
  BY <1>1, <1>4, <1>7, EvaluatingKeepsHand
<1>9. MovableAt(a)'
  BY <1>7 DEF MovableAt
<1>10. Closures'
  BY <1>1, <1>2, <1>4, <1>6, <1>8, <1>9, SetKeepsClosures
<1>11. PICK p, f : p = path /\ f = [at |-> a, type |-> mem[a].type, offset |-> mem[a].offset]
  OBVIOUS
<1>12. f \in Frames /\ path' = Append(p, f) /\ p \in Seq(Frames)
  BY <1>1, <1>3, <1>5, <1>11 DEF Frames, Closure, MemInv, MemType
<1>13. PICK n \in Nat :
         /\ DOMAIN p = 1..n /\ n = Len(p) /\ DOMAIN path' = 1 .. n + 1 /\ Len(path') = n + 1
         /\ path'[n + 1] = f /\ \A j \in 1..n : path'[j] = p[j]
  BY <1>12, Appended
<1>14. MovableAt(a) /\ a = e
  BY <1>2, <1>3, <1>4 DEF Closures
<1>15. e' \in FromSpace /\ (f.type = "IND" => Alike(mem[a].ptrs[1], a))
       /\ (f.type = "SEL" => /\ heap[a].type = "SEL" /\ heap[a].offset = f.offset
                             /\ Alike(mem[a].ptrs[1], heap[a].ptrs[1]))
  BY <1>1, <1>11, <1>14 DEF MovableAt
<1>16. ASSUME NEW j \in DOMAIN path'
       PROVE  /\ path'[j].at \in Dynamic
              /\ path'[j].type = "IND" => Meaning(heap, NextOn(j)') = Meaning(heap, path'[j].at)
              /\ path'[j].type = "SEL" =>
                   /\ heap[path'[j].at].type = "SEL" /\ heap[path'[j].at].offset = path'[j].offset
                   /\ Meaning(heap, NextOn(j)') = Meaning(heap, heap[path'[j].at].ptrs[1])
  <2>1. CASE j = n + 1
    <3>1. path'[j] = f /\ f.at = a /\ NextOn(j)' = mem[a].ptrs[1]
      BY <1>1, <1>11, <1>13, <1>14, <2>1 DEF NextOn
    <3> QED BY <1>4, <1>15, <3>1 DEF Alike
  <2>2. CASE j # n + 1
    <3>1. j \in 1..n /\ (j = n \/ j + 1 \in 1..n)
      BY <1>13, <2>2
    <3>2. path'[j] = path[j] /\ j \in DOMAIN path
      BY <1>11, <1>13, <3>1
    <3>3. NextOn(j)' = NextOn(j)
      <4>1. NextOn(j)' = path'[j + 1].at
        BY <1>13, <2>2 DEF NextOn
      <4>2. CASE j = n
        <5>1. path'[j + 1].at = e
          BY <1>11, <1>13, <1>14, <4>2
        <5>2. NextOn(j) = e
          BY <1>11, <1>13, <4>2 DEF NextOn
        <5> QED BY <4>1, <5>1, <5>2
      <4>3. CASE j # n
        BY <1>11, <1>13, <3>1, <4>1, <4>3 DEF NextOn
      <4> QED BY <4>2, <4>3
    <3> QED BY <1>1, <1>2, <3>2, <3>3 DEF OnWay, Alike
  <2> QED BY <2>1, <2>2
<1>17. OnWay'
  BY <1>1, <1>8, <1>15, <1>16 DEF OnWay, Alike
<1> QED BY <1>8, <1>10, <1>17 DEF KeptInv

LEMMA FollowNoFurtherKeeps ==
  ASSUME WalkInv, MemInv, StaticOnce, PlacesOnce, KeptInv, FollowNoFurther
  PROVE  KeptInv'
<1>1. /\ pc = "eval" /\ pc' = "unwind" /\ type' = mem[e].type
      /\ UNCHANGED <<heap, mem, origin, x, i, c, inds, scavenged, e, path>>
  BY DEF FollowNoFurther, loopVars, walkVars
<1>2. Closures'
  BY <1>1, RestKeepsClosures DEF KeptInv, Seen, Working
<1>3. InHand'
  BY <1>1 DEF KeptInv, InHand, Alike, Original, Copies, Target, ToSpace
<1>4. OnWay'
  BY <1>1 DEF KeptInv, OnWay, Alike, NextOn, FromSpace
<1> QED BY <1>2, <1>3, <1>4 DEF KeptInv

\* The closure that was followed last has its contents again; what it means is where the
\* closure before it leads.
LEMMA UnwindKeeps ==
  ASSUME WalkInv, MemInv, StaticOnce, PlacesOnce, KeptInv, pc = "unwind", pc' = "unwind",
         UNCHANGED <<heap, origin, x, i, c, inds, scavenged>>, path # <<>>, path' = Front(path),
         NEW r, mem' = [mem EXCEPT ![Last(path).at] = r], \A a : a = Last(path).at => MovableAt(a)',
         e' \in FromSpace, Alike(e', Last(path).at), type' # "CON"
  PROVE  KeptInv'
<1>1. PICK p : p = path
  OBVIOUS
<1>2. PICK n \in Nat :
        /\ n >= 1 /\ n = Len(p) /\ DOMAIN p = 1..n /\ Last(path) = p[n]
        /\ DOMAIN path' = 1 .. n - 1 /\ \A j \in 1 .. n - 1 : path'[j] = p[j]
        /\ path' \in Seq(Frames)
  BY <1>1, LastFront, LenProperties DEF MemInv, MemType, Frames
<1>3. n \in 1..n /\ Len(path') = n - 1
  BY <1>2, LenProperties
<1>4. PICK a : a = p[n].at
  OBVIOUS
<1>5. OnWay /\ Closures /\ a \in Dynamic /\ MovableAt(a)' /\ Alike(e', a)
  BY <1>1, <1>2, <1>3, <1>4 DEF KeptInv, OnWay
<1>6. mem' = [mem EXCEPT ![a] = r] /\ \A y \in Addresses : y # a => mem'[y] = mem[y]
  BY <1>2, <1>4 DEF MemInv, MemType
<1>7. InHand' /\ FromSpace' = FromSpace /\ \A b, k : Seen(b, k)' <=> Seen(b, k)
  BY <1>5, <1>6, EvaluatingKeepsHand
<1>8. Closures'
  BY <1>5, <1>6, <1>7, SetKeepsClosures
<1>9. ASSUME NEW j \in DOMAIN path'
      PROVE  /\ path'[j] = path[j] /\ j \in DOMAIN path
             /\ Meaning(heap, NextOn(j)') = Meaning(heap, NextOn(j))
  <2>1. j \in 1..n /\ j # n /\ path'[j] = path[j] /\ j \in DOMAIN path
    BY <1>1, <1>2
  <2>2. NextOn(j) = path[j + 1].at
    BY <1>1, <1>2, <2>1 DEF NextOn
  <2>3. CASE j = n - 1
    <3>1. NextOn(j)' = e' /\ NextOn(j) = a
      BY <1>1, <1>2, <1>3, <1>4, <2>2, <2>3 DEF NextOn
    <3> QED BY <1>5, <2>1, <3>1 DEF Alike
  <2>4. CASE j # n - 1
    <3>1. NextOn(j)' = path'[j + 1].at /\ path'[j + 1] = path[j + 1]
      BY <1>1, <1>2, <1>3, <2>1, <2>4 DEF NextOn
    <3> QED BY <2>1, <2>2, <3>1
  <2> QED BY <2>3, <2>4
<1>10. OnWay'
  BY <1>5, <1>7, <1>9 DEF OnWay, Alike
<1> QED BY <1>7, <1>8, <1>10 DEF KeptInv

LEMMA UnwindingKeeps ==
  ASSUME WalkInv, MemInv, StaticOnce, PlacesOnce, KeptInv, UnwindIndirection \/ UnwindSelector
  PROVE  KeptInv'
<1>1. /\ pc = "unwind" /\ pc' = "unwind" /\ path # <<>> /\ path' = Front(path)
      /\ UNCHANGED <<heap, origin, x, i, c, inds, scavenged>>
  BY DEF UnwindIndirection, UnwindSelector, loopVars, walkVars
<1>2. PICK n \in Nat : n >= 1 /\ n = Len(path) /\ DOMAIN path = 1..n /\ Last(path) = path[n] /\ Last(path) \in Frames
  BY <1>1, LastFront, LenProperties DEF MemInv, MemType, Frames
<1>3. n \in DOMAIN path
  BY <1>2
<1>4. PICK f, a : f = path[n] /\ a = f.at
  OBVIOUS
<1>5. /\ a \in Dynamic /\ e \in FromSpace
      /\ f.type = "IND" => Alike(e, a)
      /\ f.type = "SEL" => heap[a].type = "SEL" /\ heap[a].offset = f.offset /\ Alike(e, heap[a].ptrs[1])
  BY <1>1, <1>2, <1>3, <1>4 DEF KeptInv, OnWay, NextOn
<1>6. a \in Addresses /\ DOMAIN mem = Addresses /\ FromSpace' = FromSpace
  BY <1>2, <1>4 DEF Frames, MemInv, MemType, FromSpace
<1>7. CASE UnwindIndirection
  <2>1. f.type = "IND" /\ mem' = [mem EXCEPT ![a] = Ind(e)] /\ e' = e /\ type' = "IND"
    BY <1>2, <1>4, <1>7 DEF UnwindIndirection, leadsTo
  <2>2. mem'[a].type = "IND" /\ mem'[a].ptrs[1] = e
    BY <1>6, <2>1 DEF Ind
  <2>3. MovableAt(a)'
    BY <1>1, <1>5, <1>6, <2>1, <2>2 DEF MovableAt, Alike
  <2> QED BY <1>1, <1>2, <1>4, <1>5, <2>1, <2>3, UnwindKeeps
<1>8. CASE UnwindSelector
  <2> DEFINE r == [type |-> "SEL", ptrs |-> <<e>>, offset |-> f.offset]
  <2>1. f.type = "SEL" /\ mem' = [mem EXCEPT ![a] = r] /\ e' = a /\ type' = "SEL"
    BY <1>2, <1>4, <1>8 DEF UnwindSelector
  <2>2. mem'[a].type = "SEL" /\ mem'[a].ptrs = <<e>> /\ mem'[a].offset = f.offset
    BY <1>6, <2>1
  <2>3. MovableAt(a)'
    BY <1>1, <1>5, <1>6, <2>1, <2>2 DEF MovableAt, Alike
  <2>4. e' \in FromSpace /\ Alike(e', a)
    BY <1>5, <2>1 DEF FromSpace, Alike
  <2> HIDE DEF r
  <2> QED BY <1>1, <1>2, <1>4, <2>1, <2>3, <2>4, UnwindKeeps
<1> QED BY <1>7, <1>8

\* A selection from a constructor: the thunk means what it selects.
LEMMA SelectingKeeps ==
  ASSUME WalkInv, MemInv, StaticOnce, PlacesOnce, KeptInv, UnwindSelection
  PROVE  KeptInv'
<1> DEFINE frame == [Last(path) EXCEPT !.type = "IND"]
<1>1. /\ pc = "unwind" /\ pc' = "eval" /\ path # <<>> /\ Last(path).type = "SEL" /\ type = "CON"
      /\ Last(path).offset < Len(mem[e].ptrs) /\ e' = mem[e].ptrs[Last(path).offset + 1]
      /\ path' = Append(Front(path), frame)
      /\ UNCHANGED <<heap, mem, origin, x, i, c, inds, scavenged>>
  BY DEF UnwindSelection, Selects, select, loopVars, walkVars
<1>2. PICK p, f : p = path /\ f = Last(path)
  OBVIOUS
<1>3. PICK n \in Nat :
        /\ n >= 1 /\ n = Len(p) /\ DOMAIN p = 1..n /\ f = p[n] /\ f \in Frames
        /\ DOMAIN Front(path) = 1 .. n - 1 /\ \A j \in 1 .. n - 1 : Front(path)[j] = p[j]
        /\ Front(path) \in Seq(Frames)
  BY <1>1, <1>2, LastFront, LenProperties DEF MemInv, MemType, Frames
<1>4. frame \in Frames /\ frame.at = f.at /\ frame.type = "IND"
  BY <1>2, <1>3 DEF Frames
<1>5. PICK g : g = frame
  OBVIOUS
<1>6. /\ DOMAIN path' = 1..n /\ Len(path') = n /\ path'[n] = g
      /\ \A j \in 1..n : j # n => path'[j] = p[j]
  <2>1. Len(Front(path)) = n - 1
    BY <1>3, LenProperties
  <2>2. /\ DOMAIN path' = 1 .. (n - 1) + 1 /\ Len(path') = (n - 1) + 1 /\ path'[(n - 1) + 1] = g
        /\ \A j \in 1 .. n - 1 : path'[j] = Front(path)[j]
    <3> HIDE DEF frame
    <3> QED BY <1>1, <1>3, <1>4, <1>5, <2>1, Appended
  <2>3. (n - 1) + 1 = n /\ \A j \in 1..n : j # n => j \in 1 .. n - 1
    BY <1>3
  <2> QED BY <1>3, <2>2, <2>3
<1>7. n \in 1..n /\ g.at = f.at /\ g.type = "IND"
  BY <1>3, <1>4, <1>5
<1> HIDE DEF frame
<1>8. /\ e \in FromSpace /\ mem[e].type = "CON" /\ f.at \in Dynamic /\ f.type = "SEL"
      /\ heap[f.at].type = "SEL" /\ heap[f.at].offset = f.offset /\ Alike(e, heap[f.at].ptrs[1])
  BY <1>1, <1>2, <1>3, <1>7 DEF KeptInv, OnWay, NextOn
<1>9. mem[e] = heap[e] /\ heap \in Heaps /\ e \in Start /\ f.at \in Start
  BY <1>8, KindsOf, Spaces DEF KeptInv, Closures, FromSpace
<1>10. f.offset < Len(heap[e].ptrs) /\ e' = heap[e].ptrs[f.offset + 1] /\ f.offset \in Nat
  BY <1>1, <1>2, <1>3, <1>9 DEF Frames
<1>11. e' \in FromSpace
  <2>1. DOMAIN heap[e].ptrs = 1..Len(heap[e].ptrs) /\ Len(heap[e].ptrs) \in Nat
    BY <1>8, <1>9, Pointer, Spaces DEF FromSpace
  <2>2. f.offset + 1 \in 1..Len(heap[e].ptrs)
    BY <1>10, <2>1
  <2> QED BY <1>9, <1>10, <2>1, <2>2, HeapClosures
<1>12. Alike(e', f.at)
  <2>1. Constructed(heap, e, f.at)
    BY <1>8, <1>9, <1>10 DEF Constructed, Alike
  <2>2. LeadsOn(heap)
    BY <1>9, EvaluationAssumption
  <2> QED BY <1>8, <1>9, <1>10, <2>1, <2>2 DEF LeadsOn, Alike
<1>13. InHand' /\ FromSpace' = FromSpace /\ \A b, k : Seen(b, k)' <=> Seen(b, k)
  BY <1>1, <1>8, EvaluatingKeepsHand
<1>14. Closures'
  BY <1>1, <1>13, RestKeepsClosures DEF KeptInv
<1>15. ASSUME NEW j \in DOMAIN path', j # n
       PROVE  path'[j] = path[j] /\ j \in DOMAIN path /\ NextOn(j)' = NextOn(j)
  <2>1. j \in 1..n /\ j + 1 \in 1..n /\ path'[j] = path[j]
    BY <1>2, <1>3, <1>6, <1>15
  <2>2. path'[j + 1].at = path[j + 1].at
    BY <1>2, <1>3, <1>6, <1>7, <2>1
  <2> QED BY <1>2, <1>3, <1>6, <1>15, <2>1, <2>2 DEF NextOn
<1>16. NextOn(n)' = e'
  BY <1>6 DEF NextOn
<1>17. ASSUME NEW j \in DOMAIN path'
       PROVE  /\ path'[j].at \in Dynamic
              /\ path'[j].type = "IND" => Meaning(heap, NextOn(j)') = Meaning(heap, path'[j].at)
              /\ path'[j].type = "SEL" =>
                   /\ heap[path'[j].at].type = "SEL" /\ heap[path'[j].at].offset = path'[j].offset
                   /\ Meaning(heap, NextOn(j)') = Meaning(heap, heap[path'[j].at].ptrs[1])
  <2>1. CASE j = n
    BY <1>6, <1>7, <1>8, <1>12, <1>16, <2>1 DEF Alike
  <2>2. CASE j # n
    BY <1>1, <1>15, <2>2 DEF KeptInv, OnWay, Alike
  <2> QED BY <2>1, <2>2
<1>18. OnWay'
  BY <1>1, <1>11, <1>13, <1>17 DEF OnWay, Alike
<1> QED BY <1>13, <1>14, <1>18 DEF KeptInv

\* scavengeLoop takes up another closure, or another block.
LEMMA WalkingKeeps ==
  ASSUME WalkInv, MemInv, StaticOnce, PlacesOnce, KeptInv,
         \/ NextBlock \/ ScavengeCopy \/ ToNonMoved \/ ScavengeNonMoved \/ BackToBlocks \/ Finish
  PROVE  KeptInv'
<1>1. /\ UNCHANGED <<heap, mem, origin, inds, scavenged>> /\ pc \in {"loop", "nonmoved"}
      /\ pc' \in {"loop", "nonmoved", "done"} \/ (pc' = "pointer" /\ i' = 1)
  BY DEF NextBlock, ScavengeCopy, ToNonMoved, ScavengeNonMoved, BackToBlocks, Finish, loopVars, walkVars
<1>2. ASSUME NEW a \in {0} \cup ToSpace, NEW k \in DOMAIN mem[a].ptrs PROVE Seen(a, k)' <=> Seen(a, k)
  <2>1. a \in Addresses
    BY Spaces DEF ToSpace, Addresses, Start
  <2>2. k \in Nat /\ ~(k < 1)
    BY <2>1, Pointer
  <2> QED BY <1>1, <2>2 DEF Seen, Working
<1>3. Closures'
  BY <1>1, <1>2, RestKeepsClosures DEF KeptInv
<1>4. InHand' /\ OnWay'
  BY <1>1 DEF KeptInv, InHand, OnWay
<1> QED BY <1>3, <1>4 DEF KeptInv

LEMMA KeptNext == WalkInv /\ MemInv /\ StaticOnce /\ PlacesOnce /\ KeptInv /\ [Next]_vars => KeptInv'
<1> SUFFICES ASSUME WalkInv, MemInv, StaticOnce, PlacesOnce, KeptInv, [Next]_vars PROVE KeptInv'
  OBVIOUS
<1>1. CASE ScavengePointer \/ Scavenged
  BY <1>1, ScavengingKeeps
<1>2. CASE EvacuatedBefore \/ EvacuateNonMoved \/ StingyEval \/ EvaluatedToIndirection
  BY <1>2, EvacuatingKeeps
<1>3. CASE Copy \/ EvaluatedToSelector
  BY <1>3, CopyingKeeps
<1>4. CASE ReturnToIndirection \/ ReturnToScavenge
  BY <1>4, ReturningKeeps
<1>5. CASE Follow
  BY <1>5, FollowKeeps
<1>6. CASE FollowNoFurther
  BY <1>6, FollowNoFurtherKeeps
<1>7. CASE UnwindIndirection \/ UnwindSelector
  BY <1>7, UnwindingKeeps
<1>8. CASE UnwindSelection
  BY <1>8, SelectingKeeps
<1>9. CASE NextBlock \/ ScavengeCopy \/ ToNonMoved \/ ScavengeNonMoved \/ BackToBlocks \/ Finish
  BY <1>9, WalkingKeeps
<1>10. CASE UNCHANGED vars
  <2>1. UNCHANGED <<heap, mem, origin, x, i, c, inds, scavenged, pc, e, type, path>>
    BY <1>10 DEF vars, loopVars, walkVars, evalVars
  <2>2. Closures'
    BY <2>1, RestKeepsClosures DEF KeptInv, Seen
  <2>3. InHand'
    BY <2>1 DEF KeptInv, InHand, Alike, Original, Copies, Target, ToSpace, FromSpace
  <2>4. OnWay'
    BY <2>1 DEF KeptInv, OnWay, Alike, NextOn, FromSpace
  <2> QED BY <2>2, <2>3, <2>4 DEF KeptInv
<1> QED BY <1>1, <1>2, <1>3, <1>4, <1>5, <1>6, <1>7, <1>8, <1>9, <1>10 DEF Next

\* The calls there are.
InCall == pc \in Working \cup {"loop", "nonmoved", "done", "thrown"}

LEMMA InCallNext == InCall /\ [Next]_vars => InCall'
BY DEF InCall, Working, Next, vars, ScavengePointer, Scavenged, EvacuatedBefore, EvacuateNonMoved, StingyEval, Copy, Moves,
  ReturnToIndirection, ReturnToScavenge, Follow, FollowNoFurther, UnwindIndirection, UnwindSelection, UnwindSelector,
  EvaluatedToSelector, EvaluatedToIndirection, NextBlock, ScavengeCopy, ToNonMoved, ScavengeNonMoved, BackToBlocks, Finish
----------------------------------------------------------------------------
\* Whatever the heap, the megablocks and the depth of calls: every pointer a collection has
\* changed and every forwarding address means what it meant, what has been scavenged
\* has no pointer into from-space, and each copy lies in a block (rts.gc.mjs:125-778).
THEOREM CollectionsAreSound == Spec => []CollectionSound
<1> DEFINE Inv == WalkInv /\ MemInv /\ StaticOnce /\ PlacesOnce /\ KeptInv /\ InCall
<1>1. Init => Inv
  BY WalkInit, MemInit, OnceInit, KeptInit DEF Init, InCall, Working
<1>2. Inv /\ [Next]_vars => Inv'
  BY WalkNext, MemNext, StaticNext, PlacesNext, KeptNext, InCallNext
<1>3. Inv => CollectionSound
  <2> SUFFICES ASSUME Inv PROVE CollectionSound
    OBVIOUS
  <2>1. Closures /\ Copies = Limit + 1 .. free - 1 /\ DOMAIN mem = Start \cup Copies
    BY DEF KeptInv, MemInv, MemType, Addresses
  <2>2. TypeOK
    BY <2>1 DEF TypeOK, PlacesOnce, Closures, InCall, Working
  <2>3. \A y \in Dynamic \cup NonMoved : y \in Start /\ Original(y) = y
    BY Spaces DEF FromSpace
  <2>4. MeaningKept
    <3>1. ASSUME NEW a \in (Start \cup Copies) \ {y \in Dynamic : mem[y].type # "ARR"}, NEW k \in DOMAIN mem[a].ptrs
          PROVE  Meaning(heap, Original(mem[a].ptrs[k])) = Meaning(heap, heap[Original(a)].ptrs[k])
      <4>1. CASE a \in Dynamic
        <5>1. mem[a] = heap[a] /\ heap \in Heaps
          BY <2>1, <3>1, <4>1 DEF Closures, MovableAt
        <5>2. mem[a].ptrs[k] \in FromSpace
          BY <2>3, <3>1, <4>1, <5>1, HeapClosures
        <5> QED BY <2>3, <4>1, <5>1, <5>2 DEF FromSpace
      <4>2. CASE a \notin Dynamic
        <5>1. KeptAt(a)
          BY <2>1, <3>1, <4>2 DEF Closures, Start, ToSpace
        <5> QED BY <3>1, <5>1 DEF KeptAt, Alike
      <4> QED BY <4>1, <4>2
    <3>2. ASSUME NEW a \in Dynamic, mem[a].type \in {"IND", "FORWARD"}
          PROVE  Meaning(heap, Original(mem[a].ptrs[1])) = Meaning(heap, a)
      BY <2>1, <2>3, <3>2 DEF Closures, MovableAt, Alike, FromSpace
    <3> QED BY <3>1, <3>2 DEF MeaningKept
  <2>5. ScavengedIsClean
    <3> SUFFICES ASSUME NEW a \in scavenged, NEW k \in DOMAIN mem[a].ptrs PROVE mem[a].ptrs[k] \notin Dynamic
      BY DEF ScavengedIsClean
    <3>1. KeptAt(a)
      BY <2>1 DEF PlacesOnce, Closures, ToSpace
    <3>2. mem[a].ptrs[k] \in ToSpace
      BY <3>1 DEF KeptAt, Seen
    <3> QED BY <3>2, Spaces
  <2> QED BY <2>2, <2>4, <2>5 DEF CollectionSound
<1> QED BY <1>1, <1>2, <1>3, PTL DEF Spec
----------------------------------------------------------------------------
\* The shortened ways lead down in rank, the closures on the path of stingyEval are ever
\* lower, and the calls that wait and those still to come are no more than there may be.
LeadsDown(rank) ==
  \A a \in Dynamic : mem[a].type \in {"IND", "SEL"} => rank[mem[a].ptrs[1]] < rank[a]

PathFalls(rank) ==
  pc \in {"eval", "unwind"} =>
    \A j \in DOMAIN path : /\ rank[e] < rank[path[j].at]
                           /\ \A k \in DOMAIN path : j < k => rank[path[k].at] < rank[path[j].at]

CallsLeft(rank) ==
  /\ pc \in {"evacuate", "eval", "unwind"} => rank[c] + Len(inds) <= MaxCalls
  /\ pc # "thrown"

RankInv(rank) == RankFits(rank, heap) /\ LeadsDown(rank) /\ PathFalls(rank) /\ CallsLeft(rank)

FactsInv == WalkInv /\ MemInv /\ StaticOnce /\ PlacesOnce /\ KeptInv

LEMMA RankOrder ==
  ASSUME NEW rank, NEW h, RankFits(rank, h)
  PROVE  /\ \A a \in Start : rank[a] \in Nat /\ rank[a] <= MaxCalls
         /\ \A a, b, d \in Start : rank[a] < rank[b] /\ rank[b] < rank[d] => rank[a] < rank[d]
<1>1. \A a \in Start : rank[a] \in 0 .. MaxCalls
  BY DEF RankFits
<1>2. MaxCalls \in Nat
  BY CollectorAssumption
<1>3. \A a \in Start : rank[a] \in Nat /\ rank[a] <= MaxCalls
  BY <1>1, <1>2
<1>4. \A m, n, l \in Nat : m < n /\ n < l => m < l
  OBVIOUS
<1> QED BY <1>3, <1>4

LEMMA RankInit ==
  ASSUME Init, NEW rank, RankFits(rank, heap)
  PROVE  RankInv(rank)
<1>1. mem = heap /\ pc = "pointer"
  BY DEF Init
<1>2. LeadsDown(rank)
  BY <1>1 DEF LeadsDown, RankFits, Start
<1> QED BY <1>1, <1>2 DEF RankInv, PathFalls, CallsLeft

\* A step that follows no pointer.
LEMMA RestKeepsRank ==
  ASSUME NEW rank, RankInv(rank), heap' = heap,
         \A a \in Dynamic : mem'[a] = mem[a] \/ mem'[a].type \notin {"IND", "SEL"},
         pc' # "thrown", pc' \notin {"evacuate", "eval", "unwind"}
  PROVE  RankInv(rank)'
<1>1. LeadsDown(rank)'
  BY DEF RankInv, LeadsDown
<1> QED BY <1>1 DEF RankInv, PathFalls, CallsLeft

\* A step of stingyEval that gives one closure new contents.
LEMMA SetKeepsRank ==
  ASSUME NEW rank, RankInv(rank), heap' = heap, NEW a \in Dynamic,
         \A y \in Dynamic : y # a => mem'[y] = mem[y],
         mem'[a].type \in {"IND", "SEL"} => rank[mem'[a].ptrs[1]] < rank[a],
         pc \in {"eval", "unwind"}, pc' \in {"eval", "unwind"}, UNCHANGED <<c, inds>>, PathFalls(rank)'
  PROVE  RankInv(rank)'
<1>1. LeadsDown(rank)'
  BY DEF RankInv, LeadsDown
<1>2. CallsLeft(rank)'
  BY DEF RankInv, CallsLeft
<1> QED BY <1>1, <1>2 DEF RankInv

LEMMA ScavengingKeepsRank ==
  ASSUME FactsInv, NEW rank, RankInv(rank), KeptInv',
         \/ ScavengePointer \/ Scavenged \/ NextBlock \/ ScavengeCopy \/ ToNonMoved \/ ScavengeNonMoved
         \/ BackToBlocks \/ Finish
  PROVE  RankInv(rank)'
<1>1. CASE ScavengePointer
  <2>1. pc = "pointer" /\ pc' = "evacuate" /\ UNCHANGED <<heap, mem, inds>>
    BY <1>1 DEF ScavengePointer
  <2>2. c' \in FromSpace /\ inds = <<>>
    BY <2>1 DEF FactsInv, KeptInv, InHand, FromSpace
  <2>3. rank[c'] \in Nat /\ rank[c'] <= MaxCalls
    BY <2>2, RankOrder, Spaces DEF RankInv, FactsInv
  <2>4. Len(inds') = 0
    BY <2>1, <2>2
  <2>5. rank[c'] + Len(inds') <= MaxCalls
    BY <2>3, <2>4
  <2>6. LeadsDown(rank)'
    BY <2>1 DEF RankInv, LeadsDown
  <2> QED BY <2>1, <2>5, <2>6 DEF RankInv, PathFalls, CallsLeft
<1>2. CASE Scavenged \/ NextBlock \/ ScavengeCopy \/ ToNonMoved \/ ScavengeNonMoved \/ BackToBlocks \/ Finish
  <2>1. /\ UNCHANGED <<heap, mem>> /\ pc' # "thrown" /\ pc' \notin {"evacuate", "eval", "unwind"}
    BY <1>2 DEF Scavenged, NextBlock, ScavengeCopy, ToNonMoved, ScavengeNonMoved, BackToBlocks, Finish
  <2> QED BY <2>1, RestKeepsRank
<1> QED BY <1>1, <1>2

LEMMA CopyingKeepsRank ==
  ASSUME FactsInv, NEW rank, RankInv(rank), Copy \/ EvaluatedToSelector
  PROVE  RankInv(rank)'
<1>1. copyClosure(c) /\ pc' = "return" /\ heap' = heap
  BY DEF Copy, EvaluatedToSelector
<1>2. mem'[c].type = "FORWARD" /\ \A y \in Addresses : y # c => mem'[y] = mem[y]
  BY <1>1, CopyMade DEF FactsInv, Forward
<1>3. Dynamic \subseteq Addresses
  BY DEF Addresses, Start
<1> QED BY <1>1, <1>2, <1>3, RestKeepsRank

LEMMA ReturningKeepsRank ==
  ASSUME FactsInv, NEW rank, RankInv(rank),
         EvacuatedBefore \/ EvacuateNonMoved \/ ReturnToIndirection \/ ReturnToScavenge
  PROVE  RankInv(rank)'
<1>0. mem \in [Addresses -> Closure(Addresses)] /\ Dynamic \subseteq Addresses
  BY DEF FactsInv, MemInv, MemType, Addresses, Start
<1>1. CASE EvacuatedBefore \/ EvacuateNonMoved
  <2>1. UNCHANGED <<heap, mem>> /\ pc' = "return"
    BY <1>1 DEF EvacuatedBefore, EvacuateNonMoved
  <2> QED BY <2>1, RestKeepsRank
<1>2. CASE ReturnToIndirection
  <2>1. pc' = "return" /\ heap' = heap /\ mem' = [mem EXCEPT ![Last(inds)] = Forward(c)]
    BY <1>2 DEF ReturnToIndirection
  <2>2. \A y \in Dynamic : mem'[y] = mem[y] \/ mem'[y].type = "FORWARD"
    BY <1>0, <2>1 DEF Forward
  <2> QED BY <2>1, <2>2, RestKeepsRank
<1>3. CASE ReturnToScavenge
  <2>1. pc = "return" /\ pc' = "pointer" /\ heap' = heap /\ mem' = [mem EXCEPT ![x].ptrs[i] = c]
    BY <1>3 DEF ReturnToScavenge
  <2>2. x \notin Dynamic
    BY <2>1, InWork DEF FactsInv, Working
  <2>3. \A y \in Dynamic : mem'[y] = mem[y]
    BY <1>0, <2>1, <2>2
  <2> QED BY <2>1, <2>3, RestKeepsRank
<1> QED BY <1>1, <1>2, <1>3

\* evacuateClosure begins an evaluation, or calls itself for what it has led to.
LEMMA CallingKeepsRank ==
  ASSUME FactsInv, NEW rank, RankInv(rank), StingyEval \/ EvaluatedToIndirection
  PROVE  RankInv(rank)'
<1>1. CASE StingyEval
  <2>1. pc = "evacuate" /\ pc' = "eval" /\ UNCHANGED <<heap, mem, c, inds, path>>
    BY <1>1 DEF StingyEval, Moves
  <2>2. path = <<>>
    BY <2>1 DEF FactsInv, MemInv, Asked
  <2>3. LeadsDown(rank)' /\ CallsLeft(rank)'
    BY <2>1 DEF RankInv, LeadsDown, CallsLeft
  <2> QED BY <2>1, <2>2, <2>3 DEF RankInv, PathFalls
<1>2. CASE EvaluatedToIndirection
  <2>1. pc = "unwind" /\ path = <<>> /\ type = "IND" /\ UNCHANGED <<heap, mem, path>>
    BY <1>2 DEF EvaluatedToIndirection, evalVars
  <2>2. mem[c].type = "IND" /\ c \in Dynamic /\ Dynamic \subseteq Start
    BY <2>1 DEF FactsInv, MemInv, Asked, KeptInv, InHand, Start
  <2>3. MovableAt(c)
    BY <2>2 DEF FactsInv, KeptInv, Closures
  <2>4. mem[c].ptrs[1] \in FromSpace /\ rank[mem[c].ptrs[1]] < rank[c]
    BY <2>2, <2>3 DEF MovableAt, RankInv, LeadsDown
  <2>5. PICK r : r = mem[c].ptrs[1]
    OBVIOUS
  <2>6. rank[r] \in Nat /\ rank[c] \in Nat /\ rank[r] < rank[c]
    BY <2>2, <2>4, <2>5, RankOrder, Spaces DEF RankInv, FactsInv
  <2>7. inds \in Seq(Addresses) /\ c \in Addresses
    BY DEF FactsInv, MemInv, MemType
  <2>8. Len(inds) \in Nat /\ Len(Append(inds, c)) = Len(inds) + 1
    BY <2>7, Appended
  <2>9. rank[c] + Len(inds) <= MaxCalls /\ MaxCalls \in Nat
    BY <2>1, CollectorAssumption DEF RankInv, CallsLeft
  <2>10. Len(inds) < MaxCalls /\ rank[r] + (Len(inds) + 1) <= MaxCalls
    BY <2>6, <2>8, <2>9
  <2>11. inds' = Append(inds, c) /\ c' = r /\ pc' = "evacuate"
    BY <1>2, <2>5, <2>10 DEF EvaluatedToIndirection
  <2>12. LeadsDown(rank)' /\ CallsLeft(rank)'
    BY <2>1, <2>8, <2>10, <2>11 DEF RankInv, LeadsDown, CallsLeft
  <2> QED BY <2>1, <2>11, <2>12 DEF RankInv, PathFalls
<1> QED BY <1>1, <1>2

\* What stingyEval is at, and the closures of its path, are of from-space.
LEMMA OnPathRanked ==
  ASSUME FactsInv, pc \in {"eval", "unwind"}
  PROVE  /\ heap \in Heaps /\ Dynamic \subseteq Start /\ e \in Start /\ e \in FromSpace
         /\ path \in Seq(Frames) /\ mem \in [Addresses -> Closure(Addresses)] /\ Dynamic \subseteq Addresses
         /\ \A j \in DOMAIN path : path[j].at \in Dynamic
<1>1. /\ heap \in Heaps /\ e \in FromSpace /\ \A j \in DOMAIN path : path[j].at \in Dynamic
      /\ path \in Seq(Frames) /\ mem \in [Addresses -> Closure(Addresses)]
  BY DEF FactsInv, KeptInv, Closures, OnWay, MemInv, MemType, Frames
<1> QED BY <1>1 DEF Addresses, Start, FromSpace

LEMMA FollowKeepsRank ==
  ASSUME FactsInv, NEW rank, RankInv(rank), Follow
  PROVE  RankInv(rank)'
<1>1. /\ pc = "eval" /\ pc' = "eval" /\ mem[e].type \in {"IND", "SEL"} /\ UNCHANGED <<heap, c, inds>>
      /\ path' = Append(path, [at |-> e, type |-> mem[e].type, offset |-> mem[e].offset])
      /\ mem' = [mem EXCEPT ![e].type = "WHITEHOLE"] /\ e' = mem[e].ptrs[1]
  BY DEF Follow
<1>2. /\ Dynamic \subseteq Start /\ e \in FromSpace /\ e \in Start
      /\ path \in Seq(Frames) /\ mem \in [Addresses -> Closure(Addresses)] /\ Dynamic \subseteq Addresses
      /\ \A j \in DOMAIN path : path[j].at \in Dynamic
  BY <1>1, OnPathRanked
<1>3. e \in Dynamic
  BY <1>1, <1>2, KindsOf DEF FromSpace, FactsInv, KeptInv
<1>4. MovableAt(e)
  BY <1>3 DEF FactsInv, KeptInv, Closures
<1>5. e' \in FromSpace /\ rank[e'] < rank[e]
  BY <1>1, <1>3, <1>4 DEF MovableAt, RankInv, LeadsDown
<1>6. e' \in Start
  BY <1>5 DEF FromSpace, Start
<1>7. mem'[e].type = "WHITEHOLE" /\ \A y \in Dynamic : y # e => mem'[y] = mem[y]
  BY <1>1, <1>2, <1>3 DEF Closure
<1>8. PICK p, f : p = path /\ f = [at |-> e, type |-> mem[e].type, offset |-> mem[e].offset]
  OBVIOUS
<1>9. f \in Frames /\ path' = Append(p, f) /\ p \in Seq(Frames) /\ f.at = e
  BY <1>1, <1>2, <1>3, <1>8 DEF Frames, Closure
<1>10. PICK n \in Nat :
         /\ DOMAIN p = 1..n /\ DOMAIN path' = 1 .. n + 1
         /\ path'[n + 1] = f /\ \A j \in 1..n : path'[j] = p[j]
  BY <1>9, Appended
<1>11. /\ \A j \in DOMAIN path' : j = n + 1 \/ j \in 1..n
       /\ \A j, k \in DOMAIN path' : j < k => j \in 1..n
  BY <1>10
<1>12. /\ \A j \in 1..n : p[j].at \in Start /\ rank[e] < rank[p[j].at]
       /\ \A j, k \in 1..n : j < k => rank[p[k].at] < rank[p[j].at]
  BY <1>1, <1>2, <1>8, <1>10 DEF RankInv, PathFalls
<1>13. \A j \in 1..n : rank[e'] < rank[p[j].at]
  BY <1>2, <1>5, <1>6, <1>12, RankOrder DEF RankInv
<1>14. \A j \in DOMAIN path' : rank[e'] < rank[path'[j].at]
  BY <1>5, <1>9, <1>10, <1>11, <1>13
<1>15. \A j, k \in DOMAIN path' : j < k => rank[path'[k].at] < rank[path'[j].at]
  BY <1>9, <1>10, <1>11, <1>12
<1>16. PathFalls(rank)'
  BY <1>14, <1>15 DEF PathFalls
<1> QED BY <1>1, <1>3, <1>7, <1>16, SetKeepsRank

\* What stingyEval returns to the closure it whiteholed last is lower than that closure.
LEMMA LastRanked ==
  ASSUME FactsInv, NEW rank, RankInv(rank), pc = "unwind", path # <<>>
  PROVE  /\ Last(path) \in Frames /\ Last(path).at \in Dynamic /\ rank[e] < rank[Last(path).at]
         /\ DOMAIN Front(path) \subseteq DOMAIN path /\ Front(path) \in Seq(Frames)
         /\ \A j \in DOMAIN Front(path) :
              /\ Front(path)[j] = path[j] /\ path[j].at \in Dynamic
              /\ rank[e] < rank[path[j].at] /\ rank[Last(path).at] < rank[path[j].at]
         /\ \A j, k \in DOMAIN Front(path) : j < k => rank[path[k].at] < rank[path[j].at]
<1>1. path \in Seq(Frames) /\ \A j \in DOMAIN path : path[j].at \in Dynamic
  BY OnPathRanked
<1>2. PICK p : p = path
  OBVIOUS
<1>a. /\ Len(p) \in Nat /\ Len(p) >= 1 /\ Last(p) \in Frames /\ Last(p) = p[Len(p)]
      /\ Front(p) \in Seq(Frames) /\ DOMAIN Front(p) = 1 .. Len(p) - 1
      /\ \A j \in 1 .. Len(p) - 1 : Front(p)[j] = p[j]
  BY <1>1, <1>2, LastFront
<1>b. DOMAIN p = 1..Len(p)
  BY <1>1, <1>2, LenProperties
<1>3. PICK n \in Nat :
        /\ n >= 1 /\ DOMAIN p = 1..n /\ Last(path) = p[n] /\ Last(path) \in Frames
        /\ DOMAIN Front(path) = 1 .. n - 1 /\ \A j \in 1 .. n - 1 : Front(path)[j] = p[j]
        /\ Front(path) \in Seq(Frames)
  BY <1>2, <1>a, <1>b
<1>4. n \in 1..n /\ \A j \in 1 .. n - 1 : j \in 1..n /\ j < n
  BY <1>3
<1>5. \A j \in 1..n : rank[e] < rank[p[j].at] /\ \A k \in 1..n : j < k => rank[p[k].at] < rank[p[j].at]
  BY <1>2, <1>3 DEF RankInv, PathFalls
<1> QED BY <1>1, <1>2, <1>3, <1>4, <1>5

LEMMA UnwindingKeepsRank ==
  ASSUME FactsInv, NEW rank, RankInv(rank), UnwindIndirection \/ UnwindSelector
  PROVE  RankInv(rank)'
<1>1. /\ pc = "unwind" /\ pc' = "unwind" /\ path # <<>> /\ path' = Front(path) /\ UNCHANGED <<heap, c, inds>>
  BY DEF UnwindIndirection, UnwindSelector
<1>2. PICK a, f : f = Last(path) /\ a = f.at
  OBVIOUS
<1>3. /\ a \in Dynamic /\ rank[e] < rank[a] /\ DOMAIN path' \subseteq DOMAIN path
      /\ \A j \in DOMAIN path' : path'[j] = path[j] /\ rank[e] < rank[path[j].at] /\ rank[a] < rank[path[j].at]
      /\ \A j, k \in DOMAIN path' : j < k => rank[path[k].at] < rank[path[j].at]
  BY <1>1, <1>2, LastRanked
<1>4. mem \in [Addresses -> Closure(Addresses)] /\ a \in Addresses /\ Dynamic \subseteq Addresses
  BY <1>1, <1>3, OnPathRanked
<1>5. e' = e \/ e' = a
  BY <1>2 DEF UnwindIndirection, UnwindSelector
<1>6. PathFalls(rank)'
  BY <1>3, <1>5 DEF PathFalls
<1>7. /\ mem'[a].ptrs = <<e>> /\ \A y \in Dynamic : y # a => mem'[y] = mem[y]
  <2>1. CASE UnwindIndirection
    <3>1. mem' = [mem EXCEPT ![a] = Ind(e)]
      BY <1>2, <2>1 DEF UnwindIndirection, leadsTo
    <3> QED BY <1>4, <3>1 DEF Ind
  <2>2. CASE UnwindSelector
    <3>1. mem' = [mem EXCEPT ![a] = [type |-> "SEL", ptrs |-> <<e>>, offset |-> f.offset]]
      BY <1>2, <2>2 DEF UnwindSelector
    <3> QED BY <1>4, <3>1
  <2> QED BY <2>1, <2>2
<1>8. rank[mem'[a].ptrs[1]] < rank[a]
  BY <1>3, <1>7
<1> QED BY <1>1, <1>3, <1>6, <1>7, <1>8, SetKeepsRank

\* What is selected is lower than the selector, by the meaning of its argument.
LEMMA SelectingKeepsRank ==
  ASSUME FactsInv, NEW rank, RankInv(rank), UnwindSelection
  PROVE  RankInv(rank)'
<1> DEFINE frame == [Last(path) EXCEPT !.type = "IND"]
<1>1. /\ pc = "unwind" /\ pc' = "eval" /\ path # <<>> /\ Last(path).type = "SEL" /\ type = "CON"
      /\ Last(path).offset < Len(mem[e].ptrs) /\ e' = mem[e].ptrs[Last(path).offset + 1]
      /\ path' = Append(Front(path), frame) /\ UNCHANGED <<heap, mem, c, inds>>
  BY DEF UnwindSelection, Selects, select
<1>2. PICK p, f, q : p = path /\ f = Last(path) /\ q = Front(path)
  OBVIOUS
<1>3. /\ f \in Frames /\ f.at \in Dynamic /\ rank[e] < rank[f.at] /\ q \in Seq(Frames)
      /\ DOMAIN q \subseteq DOMAIN p
      /\ \A j \in DOMAIN q : q[j] = p[j] /\ p[j].at \in Dynamic /\ rank[f.at] < rank[p[j].at]
      /\ \A j, k \in DOMAIN q : j < k => rank[p[k].at] < rank[p[j].at]
  BY <1>1, <1>2, LastRanked
<1>4. PICK g : g = frame
  OBVIOUS
<1>5. g \in Frames /\ g.at = f.at /\ path' = Append(q, g)
  BY <1>1, <1>2, <1>3, <1>4 DEF Frames
<1> HIDE DEF frame
<1>6. PICK n \in Nat :
         /\ DOMAIN q = 1..n /\ DOMAIN path' = 1 .. n + 1
         /\ path'[n + 1] = g /\ \A j \in 1..n : path'[j] = q[j]
  BY <1>3, <1>5, Appended
<1>7. /\ e \in FromSpace /\ mem[e].type = "CON" /\ heap[f.at].type = "SEL" /\ heap[f.at].offset = f.offset
      /\ Alike(e, heap[f.at].ptrs[1])
  <2>1. PICK m \in Nat : m >= 1 /\ m = Len(p) /\ DOMAIN p = 1..m /\ f = p[m]
    BY <1>1, <1>2, OnPathRanked, LastFront, LenProperties
  <2>2. m \in DOMAIN p
    BY <2>1
  <2> QED BY <1>1, <1>2, <2>1, <2>2 DEF FactsInv, KeptInv, OnWay, NextOn
<1>8. mem[e] = heap[e] /\ heap \in Heaps /\ e \in Start /\ f.at \in Start
  BY <1>3, <1>7, KindsOf, Spaces DEF FactsInv, KeptInv, Closures, FromSpace
<1>9. heap[e].type = "CON" /\ f.offset < Len(heap[e].ptrs) /\ e' = heap[e].ptrs[f.offset + 1]
  BY <1>1, <1>2, <1>7, <1>8
<1>10. rank[e'] < rank[f.at]
  <2>1. Constructed(heap, e, f.at)
    BY <1>7, <1>9 DEF Constructed, Alike
  <2> QED BY <1>7, <1>8, <1>9, <2>1 DEF RankInv, RankFits
<1>11. e' \in Start
  <2>1. KeptInv'
    BY KeptNext DEF FactsInv, Next
  <2>2. e' \in FromSpace
    BY <1>1, <2>1 DEF KeptInv, OnWay, FromSpace
  <2> QED BY <2>2 DEF FromSpace, Start
<1>12. \A j \in 1..n : q[j].at \in Start /\ rank[e'] < rank[q[j].at] /\ rank[f.at] < rank[q[j].at]
  <2>1. \A j \in 1..n : q[j].at \in Dynamic /\ rank[f.at] < rank[q[j].at]
    BY <1>3, <1>6
  <2>2. \A j \in 1..n : q[j].at \in Start
    BY <2>1 DEF Start
  <2> QED BY <1>8, <1>10, <1>11, <2>1, <2>2, RankOrder DEF RankInv
<1>13. /\ \A j \in DOMAIN path' : j = n + 1 \/ j \in 1..n
       /\ \A j, k \in DOMAIN path' : j < k => j \in 1..n
  BY <1>6
<1>14. \A j \in DOMAIN path' : rank[e'] < rank[path'[j].at]
  BY <1>5, <1>6, <1>10, <1>12, <1>13
<1>15. \A j, k \in 1..n : j < k => rank[q[k].at] < rank[q[j].at]
  BY <1>3, <1>6
<1>16. \A j, k \in DOMAIN path' : j < k => rank[path'[k].at] < rank[path'[j].at]
  BY <1>5, <1>6, <1>12, <1>13, <1>15
<1>17. PathFalls(rank)'
  BY <1>14, <1>16 DEF PathFalls
<1>18. LeadsDown(rank)' /\ CallsLeft(rank)'
  BY <1>1 DEF RankInv, LeadsDown, CallsLeft
<1> QED BY <1>1, <1>17, <1>18 DEF RankInv

LEMMA RankNext ==
  ASSUME FactsInv, NEW rank, RankInv(rank), [Next]_vars, KeptInv'
  PROVE  RankInv(rank)'
<1>1. CASE \/ ScavengePointer \/ Scavenged \/ NextBlock \/ ScavengeCopy \/ ToNonMoved \/ ScavengeNonMoved
           \/ BackToBlocks \/ Finish
  BY <1>1, ScavengingKeepsRank
<1>2. CASE EvacuatedBefore \/ EvacuateNonMoved \/ ReturnToIndirection \/ ReturnToScavenge
  BY <1>2, ReturningKeepsRank
<1>3. CASE Copy \/ EvaluatedToSelector
  BY <1>3, CopyingKeepsRank
<1>4. CASE StingyEval \/ EvaluatedToIndirection
  BY <1>4, CallingKeepsRank
<1>5. CASE Follow
  BY <1>5, FollowKeepsRank
<1>6. CASE FollowNoFurther
  BY <1>6 DEF FollowNoFurther, RankInv, LeadsDown, PathFalls, CallsLeft
<1>7. CASE UnwindIndirection \/ UnwindSelector
  BY <1>7, UnwindingKeepsRank
<1>8. CASE UnwindSelection
  BY <1>8, SelectingKeepsRank
<1>9. CASE UNCHANGED vars
  BY <1>9 DEF vars, loopVars, walkVars, evalVars, RankInv, LeadsDown, PathFalls, CallsLeft
<1> QED BY <1>1, <1>2, <1>3, <1>4, <1>5, <1>6, <1>7, <1>8, <1>9 DEF Next
----------------------------------------------------------------------------
\* Whatever the heap and the depth of calls: when the evaluation of its indirections and
\* selectors ends within that depth, evacuateClosure does not call itself more often
\* (rts.gc.mjs:154-241, 318-321).
THEOREM CallsAreFew == Spec => [](EvaluationEnds(heap) => NotThrown)
<1> DEFINE Falls == EvaluationEnds(heap) => \E rank : RankInv(rank)
           Inv == FactsInv /\ Falls
<1>1. Init => Inv
  <2>1. Init => FactsInv
    BY WalkInit, MemInit, OnceInit, KeptInit DEF FactsInv
  <2>2. Init => Falls
    BY RankInit DEF EvaluationEnds
  <2> QED BY <2>1, <2>2
<1>2. Inv /\ [Next]_vars => Inv'
  <2> SUFFICES ASSUME Inv, [Next]_vars PROVE Inv'
    OBVIOUS
  <2>1. FactsInv'
    BY WalkNext, MemNext, StaticNext, PlacesNext, KeptNext DEF FactsInv
  <2>2. heap' = heap
    BY DEF Next, vars, ScavengePointer, Scavenged, EvacuatedBefore, EvacuateNonMoved, StingyEval, Copy,
      ReturnToIndirection, ReturnToScavenge, Follow, FollowNoFurther, UnwindIndirection, UnwindSelection,
      UnwindSelector, EvaluatedToSelector, EvaluatedToIndirection, NextBlock, ScavengeCopy, ToNonMoved,
      ScavengeNonMoved, BackToBlocks, Finish
  <2>3. ASSUME EvaluationEnds(heap) PROVE (\E rank : RankInv(rank))'
    <3>1. PICK rank : RankInv(rank)
      BY <2>3
    <3>2. RankInv(rank)'
      BY <2>1, <3>1, RankNext DEF FactsInv
    <3> QED BY <3>2
  <2> QED BY <2>1, <2>2, <2>3
<1>3. Inv => (EvaluationEnds(heap) => NotThrown)
  BY DEF NotThrown, RankInv, CallsLeft
<1> QED BY <1>1, <1>2, <1>3, PTL DEF Spec
=============================================================================
