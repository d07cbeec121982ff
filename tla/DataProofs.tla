------------------------------ MODULE DataProofs ------------------------------
(***************************************************************************)
(* The runtime's data: the doubly linked lists of block descriptors        *)
(* implement sequences, whatever descriptors and lists there are; boxed    *)
(* arrays keep to their own words, whatever the sizes are; and a stable    *)
(* name stays the name of its object, whatever selector thunks there are   *)
(* and however their pairs lead to one another.                            *)
(***************************************************************************)
EXTENDS BlockList, Arrays, StableNames, FiniteSetTheorems, SequenceTheorems, WellFoundedInduction, TLAPS

\* Numbers that are any have a least one: what replaces induction over them.
LEMMA LeastNumber ==
  ASSUME NEW T \in SUBSET Nat, T # {}
  PROVE  \E k \in T : \A j \in T : ~(j < k)
<1> DEFINE R == {p \in Nat \X Nat : p[1] < p[2]}
<1>1. IsWellFoundedOn(R, Nat)
  BY NatLessThanWellFounded DEF OpToRel
<1>2. PICK k \in T : \A j \in T : ~(<<j, k>> \in R)
  <2> HIDE DEF R
  <2> QED  BY <1>1, WFMin
<1> QED  BY <1>2

\* The n descriptors of s are a list: h is its head, lk leads on and bk leads back.
IsList(s, n, h, lk, bk) ==
  /\ n \in Nat /\ s \in [1..n -> Descriptors]
  /\ h = IF n = 0 THEN NULL ELSE s[1]
  /\ \A i \in 1..n : lk[s[i]] = IF i = n THEN NULL ELSE s[i + 1]
  /\ \A i \in 1..n : bk[s[i]] = IF i = 1 THEN NULL ELSE s[i - 1]
  /\ \A i, j \in 1..n : s[i] = s[j] => i = j

\* No list is longer than there are descriptors.
LEMMA ListFits ==
  ASSUME NEW s, NEW n, NEW h, NEW lk, NEW bk, IsList(s, n, h, lk, bk)
  PROVE  Cardinality(Descriptors) \in Nat /\ n <= Cardinality(Descriptors)
<1>1. s \in Injection(1..n, Descriptors)
  BY DEF IsList, Injection, IsInjective
<1>2. n \in Nat /\ IsFiniteSet(Descriptors)
  BY ListsAssumption DEF IsList
<1>3. Cardinality(1..n) <= Cardinality(Descriptors)
  BY <1>1, <1>2, FS_Injection
<1>4. Cardinality(1..n) = n
  BY <1>2, FS_Interval
<1> QED  BY <1>2, <1>3, <1>4, FS_CardinalityType

\* Following a list from its head gives the list.
LEMMA FromIsList ==
  ASSUME NEW s, NEW n, NEW h, NEW lk, NEW bk, IsList(s, n, h, lk, bk)
  PROVE  From(h, lk) = s
<1> DEFINE behind == [b \in Descriptors \cup {NULL} |-> IF b = NULL THEN NULL ELSE lk[b]]
           IsAt(g) == g = [m \in Nat |-> IF m = 0 THEN h ELSE behind[g[m - 1]]]
           f == [m \in Nat |-> IF m < n THEN s[m + 1] ELSE NULL]
           at == CHOOSE g : IsAt(g)
           cycle == Cardinality(Descriptors) + 1
           End(m) == (m = cycle \/ at[m] = NULL) /\ (m = 0 \/ at[m - 1] # NULL)
           size == CHOOSE m \in 0 .. cycle : End(m)
<1>1. /\ n \in Nat /\ s \in [1..n -> Descriptors] /\ NULL \notin Descriptors
      /\ h = IF n = 0 THEN NULL ELSE s[1]
      /\ \A i \in 1..n : lk[s[i]] = IF i = n THEN NULL ELSE s[i + 1]
  BY ListsAssumption DEF IsList
<1>2. \A b \in Descriptors : behind[b] = lk[b]
  BY <1>1
<1>3. behind[NULL] = NULL
  OBVIOUS
<1>4. ASSUME NEW m \in Nat
      PROVE  f[m] = IF m = 0 THEN h ELSE behind[f[m - 1]]
  <2>1. CASE m = 0
    BY <1>1, <2>1
  <2>2. CASE m # 0 /\ m - 1 < n
    <3>1. m - 1 \in Nat /\ m \in 1..n /\ f[m - 1] = s[m]
      BY <1>1, <2>2
    <3>2. behind[s[m]] = lk[s[m]]
      <4> HIDE DEF behind
      <4> QED  BY <1>1, <1>2, <3>1
    <3> HIDE DEF behind
    <3> QED  BY <1>1, <2>2, <3>1, <3>2
  <2>3. CASE m # 0 /\ ~(m - 1 < n)
    <3> HIDE DEF behind
    <3> QED  BY <1>1, <1>3, <2>3
  <2> QED  BY <2>1, <2>2, <2>3
<1>5. IsAt(f)
  <2> HIDE DEF behind
  <2> QED  BY <1>4
<1>6. IsAt(at)
  <2> HIDE DEF f, IsAt
  <2> QED  BY <1>5
<1>7. \A m \in Nat : at[m] = IF m = 0 THEN h ELSE behind[at[m - 1]]
  <2> HIDE DEF behind, at
  <2> QED  BY <1>6
<1>8. \A m \in Nat : at[m] = f[m]
  <2> DEFINE T == {m \in Nat : at[m] # f[m]}
  <2>1. SUFFICES ASSUME T # {} PROVE FALSE
    <3> HIDE DEF f, at
    <3> QED  OBVIOUS
  <2>2. PICK k \in T : \A j \in T : ~(j < k)
    <3>1. T \in SUBSET Nat
      OBVIOUS
    <3> HIDE DEF T
    <3> QED  BY <2>1, <3>1, LeastNumber
  <2> HIDE DEF f, at, behind
  <2>3. k \in Nat /\ at[k] # f[k]
    OBVIOUS
  <2>4. k # 0
    BY <1>4, <1>7, <2>3
  <2>5. k - 1 \in Nat /\ k - 1 < k
    BY <2>3, <2>4
  <2>6. at[k - 1] = f[k - 1]
    BY <2>2, <2>5
  <2> QED  BY <1>4, <1>7, <2>3, <2>4, <2>6
<1>9. /\ \A m \in Nat : m < n => at[m] = s[m + 1] /\ at[m] # NULL
      /\ \A m \in Nat : ~(m < n) => at[m] = NULL
  <2>1. \A m \in Nat : m < n => f[m] = s[m + 1] /\ s[m + 1] \in Descriptors
    BY <1>1
  <2>2. \A m \in Nat : ~(m < n) => f[m] = NULL
    OBVIOUS
  <2> HIDE DEF f, at
  <2> QED  BY <1>1, <1>8, <2>1, <2>2
<1>10. Cardinality(Descriptors) \in Nat /\ n <= Cardinality(Descriptors)
  BY ListFits
<1>11. size = n
  <2> HIDE DEF at
  <2>1. n \in 0 .. cycle /\ cycle \in Nat
    BY <1>1, <1>10
  <2>2. End(n)
    BY <1>1, <1>9
  <2>3. ASSUME NEW m \in 0 .. cycle, End(m)
        PROVE  m = n
    <3>1. m \in Nat /\ m <= cycle /\ n < cycle
      BY <1>1, <1>10, <2>1
    <3>2. ~(m < n)
      BY <1>1, <1>9, <2>3, <3>1
    <3>3. ~(n < m)
      <4>1. SUFFICES ASSUME n < m PROVE FALSE
        OBVIOUS
      <4>2. m - 1 \in Nat /\ ~(m - 1 < n) /\ m # 0
        BY <1>1, <3>1, <4>1
      <4>3. at[m - 1] = NULL
        BY <1>9, <4>2
      <4> QED  BY <2>3, <4>2, <4>3
    <3> QED  BY <1>1, <3>1, <3>2, <3>3
  <2> HIDE DEF End, cycle
  <2> QED  BY <2>1, <2>2, <2>3
<1>12. From(h, lk) = [i \in 1 .. size |-> at[i - 1]]
  BY DEF From
<1> HIDE DEF size, at
<1>13. \A i \in 1..n : at[i - 1] = s[i]
  BY <1>1, <1>9
<1> QED  BY <1>1, <1>11, <1>12, <1>13

\* Links of other descriptors do not matter.
LEMMA SameList ==
  ASSUME NEW s, NEW n, NEW h, NEW lk, NEW bk, IsList(s, n, h, lk, bk), NEW lk2, NEW bk2,
         \A i \in 1..n : lk2[s[i]] = lk[s[i]] /\ bk2[s[i]] = bk[s[i]]
  PROVE  IsList(s, n, h, lk2, bk2)
BY DEF IsList

Links == [Descriptors -> Descriptors \cup {NULL}]

\* The sequences that the operations give.
Pushed(s, n, bd) == [i \in 1 .. n + 1 |-> IF i = 1 THEN bd ELSE s[i - 1]]

Removed(s, n, i) == [j \in 1 .. n - 1 |-> IF j < i THEN s[j] ELSE s[j + 1]]

Inserted(s, n, i, bd) == [j \in 1 .. n + 1 |-> IF j <= i THEN s[j] ELSE IF j = i + 1 THEN bd ELSE s[j - 1]]

Replaced(s, n, i, bd) == [j \in 1 .. n |-> IF j = i THEN bd ELSE s[j]]

\* dbl_link_onto puts a descriptor before the others of a list.
LEMMA PushedList ==
  ASSUME NEW s, NEW n, NEW h, NEW lk \in Links, NEW bk \in Links, IsList(s, n, h, lk, bk),
         NEW bd \in Descriptors, \A i \in 1..n : s[i] # bd
  PROVE  IsList(Pushed(s, n, bd), n + 1, bd, [lk EXCEPT ![bd] = h], BackFrom(h, bd, [bk EXCEPT ![bd] = NULL]))
<1> DEFINE t == Pushed(s, n, bd)
           lk2 == [lk EXCEPT ![bd] = h]
           bk2 == BackFrom(h, bd, [bk EXCEPT ![bd] = NULL])
<1>1. /\ n \in Nat /\ s \in [1..n -> Descriptors] /\ NULL \notin Descriptors
      /\ h = IF n = 0 THEN NULL ELSE s[1]
      /\ \A i \in 1..n : lk[s[i]] = IF i = n THEN NULL ELSE s[i + 1]
      /\ \A i \in 1..n : bk[s[i]] = IF i = 1 THEN NULL ELSE s[i - 1]
      /\ \A i, j \in 1..n : s[i] = s[j] => i = j
  BY ListsAssumption DEF IsList
<1>2. /\ t \in [1 .. n + 1 -> Descriptors] /\ n + 1 \in Nat
      /\ t[1] = bd /\ \A i \in 1..n : t[i + 1] = s[i] /\ s[i] \in Descriptors /\ s[i] # bd
  BY <1>1 DEF Pushed
<1>3. /\ lk2[bd] = h /\ \A d \in Descriptors \ {bd} : lk2[d] = lk[d]
  BY DEF Links
<1>4. /\ bk2[bd] = NULL
      /\ h # NULL => bk2[h] = bd
      /\ \A d \in Descriptors \ {bd, h} : bk2[d] = bk[d]
  BY <1>1 DEF Links, BackFrom
<1>5. \A j \in 1 .. n + 1 : j = 1 \/ (j - 1 \in 1..n /\ t[j] = s[j - 1])
  BY <1>1, <1>2
<1> HIDE DEF t, lk2, bk2
<1>6. \A j \in 1 .. n + 1 : lk2[t[j]] = IF j = n + 1 THEN NULL ELSE t[j + 1]
  <2> TAKE j \in 1 .. n + 1
  <2>1. CASE j = 1
    BY <1>1, <1>2, <1>3, <2>1
  <2>2. CASE j # 1
    <3>1. j - 1 \in 1..n /\ t[j] = s[j - 1] /\ lk2[t[j]] = lk[s[j - 1]]
      BY <1>2, <1>3, <1>5, <2>2
    <3> QED  BY <1>1, <1>2, <3>1
  <2> QED  BY <2>1, <2>2
<1>7. \A j \in 1 .. n + 1 : bk2[t[j]] = IF j = 1 THEN NULL ELSE t[j - 1]
  <2> TAKE j \in 1 .. n + 1
  <2>1. CASE j = 1
    BY <1>2, <1>4, <2>1
  <2>2. CASE j # 1 /\ j - 1 = 1
    BY <1>1, <1>2, <1>4, <1>5, <2>2
  <2>3. CASE j # 1 /\ j - 1 # 1
    <3>1. j - 1 \in 1..n /\ t[j] = s[j - 1] /\ s[j - 1] # h /\ 1 \in 1..n
      BY <1>1, <1>5, <2>3
    <3>2. bk2[t[j]] = bk[s[j - 1]]
      BY <1>2, <1>4, <3>1
    <3> QED  BY <1>1, <1>5, <2>3, <3>1, <3>2
  <2> QED  BY <2>1, <2>2, <2>3
<1>8. \A i, j \in 1 .. n + 1 : t[i] = t[j] => i = j
  BY <1>1, <1>2, <1>5
<1>9. bd = IF n + 1 = 0 THEN NULL ELSE t[1]
  BY <1>1, <1>2
<1> QED  BY <1>2, <1>6, <1>7, <1>8, <1>9 DEF IsList, t, lk2, bk2

\* The head and the links without the descriptor x, and with bd in its place.
HeadWithout(x, h, lk, bk) == IF bk[x] = NULL THEN lk[x] ELSE h

LinksWithout(x, lk, bk) == IF bk[x] = NULL THEN lk ELSE [lk EXCEPT ![bk[x]] = lk[x]]

HeadWith(bd, x, h, bk) == IF bk[x] = NULL THEN bd ELSE h

LinksWith(bd, x, lk, bk) ==
  IF bk[x] = NULL THEN [lk EXCEPT ![bd] = lk[x]] ELSE [lk EXCEPT ![bd] = lk[x], ![bk[x]] = bd]

\* dbl_link_remove takes the i-th descriptor out of a list.
LEMMA RemovedList ==
  ASSUME NEW s, NEW n, NEW h, NEW lk \in Links, NEW bk \in Links, IsList(s, n, h, lk, bk),
         NEW i \in 1..n
  PROVE  IsList(Removed(s, n, i), n - 1, HeadWithout(s[i], h, lk, bk), LinksWithout(s[i], lk, bk),
                BackFrom(lk[s[i]], bk[s[i]], bk))
<1> DEFINE t == Removed(s, n, i)
           h2 == HeadWithout(s[i], h, lk, bk)
           lk2 == LinksWithout(s[i], lk, bk)
           bk2 == BackFrom(lk[s[i]], bk[s[i]], bk)
<1>0. n \in Nat
  BY DEF IsList
<1>1. /\ n \in Nat /\ s \in [1..n -> Descriptors] /\ NULL \notin Descriptors
      /\ h = IF n = 0 THEN NULL ELSE s[1]
      /\ \A k \in 1..n : lk[s[k]] = IF k = n THEN NULL ELSE s[k + 1]
      /\ \A k \in 1..n : bk[s[k]] = IF k = 1 THEN NULL ELSE s[k - 1]
      /\ \A k, j \in 1..n : s[k] = s[j] => k = j
  BY ListsAssumption DEF IsList
<1>2. /\ bk[s[i]] = NULL <=> i = 1
      /\ i # 1 => bk[s[i]] = s[i - 1] /\ i - 1 \in 1..n
      /\ lk[s[i]] = NULL <=> i = n
      /\ i # n => lk[s[i]] = s[i + 1] /\ i + 1 \in 1..n
  BY <1>1
<1>3. /\ \A k \in 1..n : k # i - 1 => lk2[s[k]] = lk[s[k]]
      /\ i # 1 => lk2[s[i - 1]] = lk[s[i]]
  BY <1>1, <1>2 DEF Links, LinksWithout
<1>4. /\ \A k \in 1..n : k # i + 1 => bk2[s[k]] = bk[s[k]]
      /\ i # n => bk2[s[i + 1]] = bk[s[i]]
  BY <1>1, <1>2 DEF Links, BackFrom
<1>5. \A j \in 1 .. n - 1 : IF j < i THEN j \in 1..n /\ t[j] = s[j] ELSE j + 1 \in 1..n /\ t[j] = s[j + 1]
  BY <1>1 DEF Removed
<1>6. n - 1 \in Nat /\ t \in [1 .. n - 1 -> Descriptors]
  BY <1>1 DEF Removed
<1>7. h2 = IF n - 1 = 0 THEN NULL ELSE t[1]
  BY <1>1, <1>2, <1>5 DEF HeadWithout
<1> HIDE DEF t, h2, lk2, bk2
<1>8. \A j \in 1 .. n - 1 : lk2[t[j]] = IF j = n - 1 THEN NULL ELSE t[j + 1]
  <2> TAKE j \in 1 .. n - 1
  <2>1. CASE j < i - 1
    BY <1>1, <1>3, <1>5, <2>1
  <2>2. CASE j = i - 1
    <3>1. lk2[t[j]] = lk[s[i]]
      BY <1>1, <1>3, <1>5, <2>2
    <3> QED  BY <1>1, <1>2, <1>5, <2>2, <3>1
  <2>3. CASE j >= i
    <3>1. j + 1 \in 1..n /\ t[j] = s[j + 1] /\ lk2[t[j]] = lk[s[j + 1]]
      BY <1>1, <1>3, <1>5, <2>3
    <3> QED  BY <1>1, <1>5, <2>3, <3>1
  <2> QED  BY <1>0, <2>1, <2>2, <2>3
<1>9. \A j \in 1 .. n - 1 : bk2[t[j]] = IF j = 1 THEN NULL ELSE t[j - 1]
  <2> TAKE j \in 1 .. n - 1
  <2>1. CASE j < i
    BY <1>1, <1>4, <1>5, <2>1
  <2>2. CASE j = i
    <3>1. bk2[t[j]] = bk[s[i]]
      BY <1>1, <1>4, <1>5, <2>2
    <3> QED  BY <1>1, <1>2, <1>5, <2>2, <3>1
  <2>3. CASE j > i
    <3>1. j + 1 \in 1..n /\ t[j] = s[j + 1] /\ bk2[t[j]] = bk[s[j + 1]]
      BY <1>1, <1>4, <1>5, <2>3
    <3> QED  BY <1>1, <1>5, <2>3, <3>1
  <2> QED  BY <1>0, <2>1, <2>2, <2>3
<1>10. \A k, j \in 1 .. n - 1 : t[k] = t[j] => k = j
  BY <1>1, <1>5
<1> QED  BY <1>6, <1>7, <1>8, <1>9, <1>10 DEF IsList, t, h2, lk2, bk2

\* dbl_link_insert_after puts a descriptor behind the i-th of a list.
LEMMA InsertedList ==
  ASSUME NEW s, NEW n, NEW h, NEW lk \in Links, NEW bk \in Links, IsList(s, n, h, lk, bk),
         NEW i \in 1..n, NEW bd \in Descriptors, \A k \in 1..n : s[k] # bd
  PROVE  IsList(Inserted(s, n, i, bd), n + 1, h, [lk EXCEPT ![bd] = lk[s[i]], ![s[i]] = bd],
                BackFrom(lk[s[i]], bd, [bk EXCEPT ![bd] = s[i]]))
<1> DEFINE t == Inserted(s, n, i, bd)
           lk2 == [lk EXCEPT ![bd] = lk[s[i]], ![s[i]] = bd]
           bk2 == BackFrom(lk[s[i]], bd, [bk EXCEPT ![bd] = s[i]])
<1>0. n \in Nat
  BY DEF IsList
<1>1. /\ n \in Nat /\ s \in [1..n -> Descriptors] /\ NULL \notin Descriptors
      /\ h = IF n = 0 THEN NULL ELSE s[1]
      /\ \A k \in 1..n : lk[s[k]] = IF k = n THEN NULL ELSE s[k + 1]
      /\ \A k \in 1..n : bk[s[k]] = IF k = 1 THEN NULL ELSE s[k - 1]
      /\ \A k, j \in 1..n : s[k] = s[j] => k = j
  BY ListsAssumption DEF IsList
<1>2. /\ lk[s[i]] = NULL <=> i = n
      /\ i # n => lk[s[i]] = s[i + 1] /\ i + 1 \in 1..n
      /\ \A k \in 1..n : s[k] \in Descriptors /\ s[k] # bd
  <2>1. \A k \in 1..n : s[k] \in Descriptors /\ s[k] # bd
    BY <1>1
  <2>2. i # n => i + 1 \in 1..n
    BY <1>1
  <2>3. lk[s[i]] = IF i = n THEN NULL ELSE s[i + 1]
    BY <1>1
  <2> QED  BY ListsAssumption, <2>1, <2>2, <2>3
<1>3. /\ \A k \in 1..n : k # i => lk2[s[k]] = lk[s[k]]
      /\ lk2[s[i]] = bd /\ lk2[bd] = lk[s[i]]
  BY <1>1, <1>2 DEF Links
<1>4. /\ \A k \in 1..n : k # i + 1 => bk2[s[k]] = bk[s[k]]
      /\ bk2[bd] = s[i]
      /\ i # n => bk2[s[i + 1]] = bd
  BY <1>1, <1>2 DEF Links, BackFrom
<1>5. \A j \in 1 .. n + 1 :
        /\ j <= i => j \in 1..n /\ t[j] = s[j]
        /\ j = i + 1 => t[j] = bd
        /\ j > i + 1 => j - 1 \in 1..n /\ t[j] = s[j - 1]
  BY <1>1 DEF Inserted
<1>6. n + 1 \in Nat /\ t \in [1 .. n + 1 -> Descriptors]
  BY <1>1 DEF Inserted
<1>7. h = IF n + 1 = 0 THEN NULL ELSE t[1]
  BY <1>1, <1>5
<1> HIDE DEF t, lk2, bk2
<1>8. \A j \in 1 .. n + 1 : lk2[t[j]] = IF j = n + 1 THEN NULL ELSE t[j + 1]
  <2> TAKE j \in 1 .. n + 1
  <2>1. CASE j < i
    BY <1>1, <1>3, <1>5, <2>1
  <2>2. CASE j = i
    BY <1>1, <1>3, <1>5, <2>2
  <2>3. CASE j = i + 1
    BY <1>1, <1>2, <1>3, <1>5, <2>3
  <2>4. CASE j > i + 1
    <3>1. j - 1 \in 1..n /\ t[j] = s[j - 1] /\ lk2[t[j]] = lk[s[j - 1]]
      BY <1>1, <1>3, <1>5, <2>4
    <3>2. CASE j = n + 1
      BY <1>1, <3>1, <3>2
    <3>3. CASE j # n + 1
      <4>1. j \in 1..n /\ j + 1 \in 1 .. n + 1 /\ t[j + 1] = s[j] /\ j - 1 # n
        BY <1>1, <1>5, <2>4, <3>3
      <4> QED  BY <1>1, <3>1, <3>3, <4>1
    <3> QED  BY <3>2, <3>3
  <2> QED  BY <1>0, <2>1, <2>2, <2>3, <2>4
<1>9. \A j \in 1 .. n + 1 : bk2[t[j]] = IF j = 1 THEN NULL ELSE t[j - 1]
  <2> TAKE j \in 1 .. n + 1
  <2>1. CASE j <= i
    BY <1>1, <1>4, <1>5, <2>1
  <2>2. CASE j = i + 1
    BY <1>1, <1>4, <1>5, <2>2
  <2>3. CASE j = i + 2
    BY <1>1, <1>2, <1>4, <1>5, <2>3
  <2>4. CASE j > i + 2
    <3>1. j - 1 \in 1..n /\ t[j] = s[j - 1] /\ bk2[t[j]] = bk[s[j - 1]]
      BY <1>1, <1>4, <1>5, <2>4
    <3> QED  BY <1>1, <1>5, <2>4, <3>1
  <2> QED  BY <1>0, <2>1, <2>2, <2>3, <2>4
<1>10. \A k, j \in 1 .. n + 1 : t[k] = t[j] => k = j
  <2> DEFINE at(j) == IF j <= i THEN j ELSE j - 1
  <2>1. \A j \in 1 .. n + 1 : j # i + 1 => at(j) \in 1..n /\ t[j] = s[at(j)]
    BY <1>1, <1>5
  <2>2. \A k, j \in 1 .. n + 1 : k # i + 1 /\ j # i + 1 /\ at(k) = at(j) => k = j
    BY <1>1
  <2> HIDE DEF at
  <2> TAKE k, j \in 1 .. n + 1
  <2>3. CASE k # i + 1 /\ j # i + 1
    BY <1>1, <2>1, <2>2, <2>3
  <2>4. CASE k = i + 1 \/ j = i + 1
    BY <1>2, <1>5, <2>1, <2>4
  <2> QED  BY <2>3, <2>4
<1> QED  BY <1>6, <1>7, <1>8, <1>9, <1>10 DEF IsList, t, lk2, bk2

\* dbl_link_replace puts a descriptor in the place of the i-th of a list.
LEMMA ReplacedList ==
  ASSUME NEW s, NEW n, NEW h, NEW lk \in Links, NEW bk \in Links, IsList(s, n, h, lk, bk),
         NEW i \in 1..n, NEW bd \in Descriptors, \A k \in 1..n : s[k] # bd
  PROVE  IsList(Replaced(s, n, i, bd), n, HeadWith(bd, s[i], h, bk), LinksWith(bd, s[i], lk, bk),
                BackFrom(lk[s[i]], bd, [bk EXCEPT ![bd] = bk[s[i]]]))
<1> DEFINE t == Replaced(s, n, i, bd)
           h2 == HeadWith(bd, s[i], h, bk)
           lk2 == LinksWith(bd, s[i], lk, bk)
           bk2 == BackFrom(lk[s[i]], bd, [bk EXCEPT ![bd] = bk[s[i]]])
<1>1. /\ n \in Nat /\ s \in [1..n -> Descriptors] /\ NULL \notin Descriptors
      /\ h = IF n = 0 THEN NULL ELSE s[1]
      /\ \A k \in 1..n : lk[s[k]] = IF k = n THEN NULL ELSE s[k + 1]
      /\ \A k \in 1..n : bk[s[k]] = IF k = 1 THEN NULL ELSE s[k - 1]
      /\ \A k, j \in 1..n : s[k] = s[j] => k = j
  BY ListsAssumption DEF IsList
<1>2. /\ bk[s[i]] = NULL <=> i = 1
      /\ i # 1 => bk[s[i]] = s[i - 1] /\ i - 1 \in 1..n
      /\ lk[s[i]] = NULL <=> i = n
      /\ i # n => lk[s[i]] = s[i + 1] /\ i + 1 \in 1..n
      /\ \A k \in 1..n : s[k] \in Descriptors /\ s[k] # bd
  <2>1. \A k \in 1..n : s[k] \in Descriptors /\ s[k] # bd
    BY <1>1
  <2>2. i \in Int /\ 1 <= i /\ i <= n
    BY <1>1
  <2>3. /\ i # 1 => i - 1 \in 1..n
        /\ i # n => i + 1 \in 1..n
    BY <1>1, <2>2
  <2>4. /\ bk[s[i]] = IF i = 1 THEN NULL ELSE s[i - 1]
        /\ lk[s[i]] = IF i = n THEN NULL ELSE s[i + 1]
    BY <1>1
  <2> QED  BY <1>1, <2>1, <2>3, <2>4
<1>3. /\ \A k \in 1..n : k # i - 1 => lk2[s[k]] = lk[s[k]]
      /\ i # 1 => lk2[s[i - 1]] = bd
      /\ lk2[bd] = lk[s[i]]
  BY <1>1, <1>2 DEF Links, LinksWith
<1>4. /\ \A k \in 1..n : k # i + 1 => bk2[s[k]] = bk[s[k]]
      /\ i # n => bk2[s[i + 1]] = bd
      /\ bk2[bd] = bk[s[i]]
  BY <1>1, <1>2 DEF Links, BackFrom
<1>5. \A j \in 1 .. n : t[j] = IF j = i THEN bd ELSE s[j]
  BY <1>1 DEF Replaced
<1>6. n \in Nat /\ t \in [1 .. n -> Descriptors]
  BY <1>1 DEF Replaced
<1>7. h2 = IF n = 0 THEN NULL ELSE t[1]
  BY <1>1, <1>2, <1>5 DEF HeadWith
<1> HIDE DEF t, h2, lk2, bk2
<1>8. \A j \in 1 .. n : lk2[t[j]] = IF j = n THEN NULL ELSE t[j + 1]
  <2> TAKE j \in 1 .. n
  <2>1. CASE j = i
    BY <1>1, <1>2, <1>3, <1>5, <2>1
  <2>2. CASE j = i - 1
    BY <1>1, <1>2, <1>3, <1>5, <2>2
  <2>3. CASE j # i /\ j # i - 1
    <3>1. t[j] = s[j] /\ lk2[t[j]] = lk[s[j]]
      BY <1>3, <1>5, <2>3
    <3>2. j # n => j + 1 \in 1..n /\ j + 1 # i
      BY <1>1, <2>3
    <3>3. lk[s[j]] = IF j = n THEN NULL ELSE s[j + 1]
      BY <1>1
    <3> QED  BY <1>5, <3>1, <3>2, <3>3
  <2> QED  BY <2>1, <2>2, <2>3
<1>9. \A j \in 1 .. n : bk2[t[j]] = IF j = 1 THEN NULL ELSE t[j - 1]
  <2> TAKE j \in 1 .. n
  <2>1. CASE j = i
    BY <1>1, <1>2, <1>4, <1>5, <2>1
  <2>2. CASE j = i + 1
    BY <1>1, <1>2, <1>4, <1>5, <2>2
  <2>3. CASE j # i /\ j # i + 1
    <3>1. t[j] = s[j] /\ bk2[t[j]] = bk[s[j]]
      BY <1>4, <1>5, <2>3
    <3> QED  BY <1>1, <1>5, <2>3, <3>1
  <2> QED  BY <2>1, <2>2, <2>3
<1>10. \A k, j \in 1 .. n : t[k] = t[j] => k = j
  BY <1>1, <1>2, <1>5
<1> QED  BY <1>6, <1>7, <1>8, <1>9, <1>10 DEF IsList, t, h2, lk2, bk2

LEMMA SequenceOf ==
  ASSUME NEW n \in Nat, NEW s \in [1..n -> Descriptors]
  PROVE  s \in Seq(Descriptors) /\ Len(s) = n /\ DOMAIN s = 1..n
<1>1. s \in Seq(Descriptors)
  OBVIOUS
<1>2. DOMAIN s = 1..n
  OBVIOUS
<1> QED  BY <1>1, <1>2, LenProperties

\* What the operations of the community modules give is what the lemmas above speak of.
LEMMA ConsIsPushed ==
  ASSUME NEW n \in Nat, NEW s \in [1..n -> Descriptors], NEW bd \in Descriptors
  PROVE  Abstract!Cons(bd, s) = Pushed(s, n, bd)
<1>1. s \in Seq(Descriptors) /\ Len(s) = n
  BY SequenceOf
<1>2. <<bd>> \in Seq(Descriptors) /\ Len(<<bd>>) = 1 /\ <<bd>>[1] = bd
  OBVIOUS
<1> DEFINE t == <<bd>> \o s
<1>3. /\ t \in Seq(Descriptors) /\ Len(t) = 1 + n
      /\ \A i \in 1 .. 1 + n : t[i] = IF i <= 1 THEN <<bd>>[i] ELSE s[i - 1]
  BY <1>1, <1>2, ConcatProperties
<1> HIDE DEF t
<1>4. DOMAIN t = 1 .. n + 1
  BY <1>3, LenProperties
<1>5. t = [i \in 1 .. n + 1 |-> t[i]]
  BY <1>3, <1>4
<1>6. \A i \in 1 .. n + 1 : t[i] = IF i = 1 THEN bd ELSE s[i - 1]
  BY <1>2, <1>3
<1> QED  BY <1>5, <1>6 DEF Pushed, t, Abstract!Cons

LEMMA RemoveAtIsRemoved ==
  ASSUME NEW n \in Nat, NEW s \in [1..n -> Descriptors], NEW i \in 1..n
  PROVE  Abstract!RemoveAt(s, i) = Removed(s, n, i)
<1>1. s \in Seq(Descriptors) /\ Len(s) = n
  BY SequenceOf
<1> DEFINE a == SubSeq(s, 1, i - 1)
           b == SubSeq(s, i + 1, n)
           t == a \o b
<1>2. /\ a \in Seq(Descriptors) /\ Len(a) = i - 1
      /\ \A j \in 1 .. i - 1 : a[j] = s[j]
  BY <1>1, SubSeqProperties
<1>3. /\ b \in Seq(Descriptors) /\ Len(b) = n - i
      /\ \A j \in 1 .. n - i : b[j] = s[i + j]
  BY <1>1, SubSeqProperties
<1> HIDE DEF a, b
<1>4. /\ t \in Seq(Descriptors) /\ Len(t) = n - 1
      /\ \A j \in 1 .. n - 1 : t[j] = IF j <= i - 1 THEN a[j] ELSE b[j - (i - 1)]
  BY <1>2, <1>3, ConcatProperties
<1> HIDE DEF t
<1>5. DOMAIN t = 1 .. n - 1
  BY <1>4, LenProperties
<1>6. t = [j \in 1 .. n - 1 |-> t[j]]
  BY <1>4, <1>5
<1>7. \A j \in 1 .. n - 1 : t[j] = IF j < i THEN s[j] ELSE s[j + 1]
  <2> TAKE j \in 1 .. n - 1
  <2>1. CASE j < i
    BY <1>2, <1>4, <2>1
  <2>2. CASE ~(j < i)
    <3>1. j - (i - 1) \in 1 .. n - i /\ i + (j - (i - 1)) = j + 1 /\ ~(j <= i - 1)
      BY <2>2
    <3> QED  BY <1>3, <1>4, <2>2, <3>1
  <2> QED  BY <2>1, <2>2
<1> QED  BY <1>1, <1>6, <1>7 DEF Removed, t, a, b, Abstract!RemoveAt

LEMMA InsertAtIsInserted ==
  ASSUME NEW n \in Nat, NEW s \in [1..n -> Descriptors], NEW i \in 1..n, NEW bd \in Descriptors
  PROVE  Abstract!InsertAt(s, i + 1, bd) = Inserted(s, n, i, bd)
<1>1. s \in Seq(Descriptors) /\ Len(s) = n
  BY SequenceOf
<1> DEFINE a == SubSeq(s, 1, i)
           b == SubSeq(s, i + 1, n)
           u == a \o <<bd>>
           t == u \o b
<1>2. /\ a \in Seq(Descriptors) /\ Len(a) = i
      /\ \A j \in 1 .. i : a[j] = s[j]
  BY <1>1, SubSeqProperties
<1>3. /\ b \in Seq(Descriptors) /\ Len(b) = n - i
      /\ \A j \in 1 .. n - i : b[j] = s[i + j]
  BY <1>1, SubSeqProperties
<1> HIDE DEF a, b
<1>4. <<bd>> \in Seq(Descriptors) /\ Len(<<bd>>) = 1 /\ <<bd>>[1] = bd
  OBVIOUS
<1>5. /\ u \in Seq(Descriptors) /\ Len(u) = i + 1
      /\ \A j \in 1 .. i + 1 : u[j] = IF j <= i THEN a[j] ELSE <<bd>>[j - i]
  BY <1>2, <1>4, ConcatProperties
<1>6. \A j \in 1 .. i + 1 : u[j] = IF j <= i THEN s[j] ELSE bd
  BY <1>2, <1>4, <1>5
<1> HIDE DEF u
<1>7. /\ t \in Seq(Descriptors) /\ Len(t) = n + 1
      /\ \A j \in 1 .. n + 1 : t[j] = IF j <= i + 1 THEN u[j] ELSE b[j - (i + 1)]
  BY <1>3, <1>5, ConcatProperties
<1> HIDE DEF t
<1>8. DOMAIN t = 1 .. n + 1
  BY <1>7, LenProperties
<1>9. t = [j \in 1 .. n + 1 |-> t[j]]
  BY <1>7, <1>8
<1>10. \A j \in 1 .. n + 1 : t[j] = IF j <= i THEN s[j] ELSE IF j = i + 1 THEN bd ELSE s[j - 1]
  <2> TAKE j \in 1 .. n + 1
  <2>1. CASE j <= i + 1
    BY <1>6, <1>7, <2>1
  <2>2. CASE ~(j <= i + 1)
    <3>1. j - (i + 1) \in 1 .. n - i /\ i + (j - (i + 1)) = j - 1
      BY <2>2
    <3>2. t[j] = b[j - (i + 1)]
      BY <1>7, <2>2
    <3>3. b[j - (i + 1)] = s[j - 1]
      BY <1>3, <3>1
    <3> QED  BY <2>2, <3>2, <3>3
  <2> QED  BY <2>1, <2>2
<1>11. Abstract!InsertAt(s, i + 1, bd) = t
  <2>1. i + 1 - 1 = i
    OBVIOUS
  <2> QED  BY <1>1, <2>1 DEF t, u, a, b, Abstract!InsertAt
<1> QED  BY <1>9, <1>10, <1>11 DEF Inserted

LEMMA ReplaceAtIsReplaced ==
  ASSUME NEW n \in Nat, NEW s \in [1..n -> Descriptors], NEW i \in 1..n, NEW bd \in Descriptors
  PROVE  Abstract!ReplaceAt(s, i, bd) = Replaced(s, n, i, bd)
BY DEF Abstract!ReplaceAt, Replaced

\* Lists that share no descriptor.
AllLists(c, hd, lk, bk) ==
  /\ hd \in [Lists -> Descriptors \cup {NULL}] /\ lk \in Links /\ bk \in Links
  /\ DOMAIN c = Lists /\ c = [l \in Lists |-> c[l]]
  /\ \A l \in Lists : \E n \in Nat : IsList(c[l], n, hd[l], lk, bk)
  /\ \A l, k \in Lists : \A i \in DOMAIN c[l], j \in DOMAIN c[k] : c[l][i] = c[k][j] => l = k

\* The inductive invariant.
ListsInv == AllLists(chain, list, link, back)

\* The lists that the links lead along are the ones they represent.
LEMMA ChainsAre ==
  ASSUME NEW c, NEW hd, NEW lk, NEW bk, AllLists(c, hd, lk, bk)
  PROVE  [l \in Lists |-> From(hd[l], lk)] = c
<1>1. ASSUME NEW l \in Lists PROVE From(hd[l], lk) = c[l]
  <2>1. PICK n \in Nat : IsList(c[l], n, hd[l], lk, bk)
    BY DEF AllLists
  <2> QED  BY <2>1, FromIsList
<1> QED  BY <1>1 DEF AllLists

\* The descriptors that are on no other list than l.
Own(c, l) == {bd \in Descriptors : \A k \in Lists \ {l} : \A i \in DOMAIN c[k] : c[k][i] # bd}

\* Only head and links of what is on no other list are changed.
OnlyOwn(c, l, hd, lk, bk, hd2, lk2, bk2) ==
  /\ hd2 \in [Lists -> Descriptors \cup {NULL}] /\ lk2 \in Links /\ bk2 \in Links
  /\ \A k \in Lists \ {l} : hd2[k] = hd[k]
  /\ \A bd \in Descriptors \ Own(c, l) : lk2[bd] = lk[bd] /\ bk2[bd] = bk[bd]

\* A change to the descriptors of one list, or of none, leaves the other lists.
LEMMA OneListChanged ==
  ASSUME NEW c, NEW hd, NEW lk, NEW bk, AllLists(c, hd, lk, bk),
         NEW l \in Lists, NEW t, NEW m, NEW hd2, NEW lk2, NEW bk2,
         OnlyOwn(c, l, hd, lk, bk, hd2, lk2, bk2),
         IsList(t, m, hd2[l], lk2, bk2), \A j \in 1..m : t[j] \in Own(c, l)
  PROVE  AllLists([c EXCEPT ![l] = t], hd2, lk2, bk2)
<1> DEFINE d == [c EXCEPT ![l] = t]
<1>1. /\ DOMAIN d = Lists /\ d = [k \in Lists |-> d[k]]
      /\ d[l] = t
      /\ \A k \in Lists \ {l} : d[k] = c[k]
  BY DEF AllLists
<1> HIDE DEF d
<1>2. ASSUME NEW k \in Lists PROVE \E n \in Nat : IsList(d[k], n, hd2[k], lk2, bk2)
  <2>1. CASE k = l
    <3>1. m \in Nat
      BY DEF IsList
    <3> QED  BY <1>1, <2>1, <3>1
  <2>2. CASE k # l
    <3>1. PICK n \in Nat : IsList(c[k], n, hd[k], lk, bk)
      BY DEF AllLists
    <3>2. DOMAIN c[k] = 1..n /\ \A i \in 1..n : c[k][i] \in Descriptors
      BY <3>1 DEF IsList
    <3>3. \A i \in 1..n : c[k][i] \in Descriptors \ Own(c, l)
      BY <2>2, <3>2 DEF Own
    <3>4. \A i \in 1..n : lk2[c[k][i]] = lk[c[k][i]] /\ bk2[c[k][i]] = bk[c[k][i]]
      BY <3>3 DEF OnlyOwn
    <3>5. IsList(c[k], n, hd[k], lk2, bk2)
      BY <3>1, <3>4, SameList
    <3>6. hd2[k] = hd[k] /\ d[k] = c[k]
      BY <1>1, <2>2 DEF OnlyOwn
    <3> QED  BY <3>5, <3>6
  <2> QED  BY <2>1, <2>2
<1>3. DOMAIN t = 1..m
  BY DEF IsList
<1>4. ASSUME NEW k1 \in Lists, NEW k2 \in Lists, NEW i \in DOMAIN d[k1], NEW j \in DOMAIN d[k2],
             d[k1][i] = d[k2][j]
      PROVE  k1 = k2
  <2>1. CASE k1 # l /\ k2 # l
    BY <1>1, <1>4, <2>1 DEF AllLists
  <2>2. CASE k1 = l /\ k2 # l
    BY <1>1, <1>3, <1>4, <2>2 DEF Own
  <2>3. CASE k1 # l /\ k2 = l
    BY <1>1, <1>3, <1>4, <2>3 DEF Own
  <2> QED  BY <2>1, <2>2, <2>3
<1> QED  BY <1>1, <1>2, <1>4 DEF AllLists, OnlyOwn, d

\* What is known of a list in a state.
LEMMA ListOf ==
  ASSUME ListsInv, NEW l \in Lists
  PROVE  \E n \in Nat : /\ IsList(chain[l], n, list[l], link, back)
                        /\ DOMAIN chain[l] = 1..n
                        /\ chain[l] \in [1..n -> Descriptors]
BY DEF ListsInv, AllLists, IsList

\* The descriptors of a list are on no other one.
LEMMA OwnOf ==
  ASSUME ListsInv, NEW l \in Lists
  PROVE  /\ \A i \in DOMAIN chain[l] : chain[l][i] \in Own(chain, l)
         /\ \A bd \in Descriptors : Loose(bd) => bd \in Own(chain, l)
<1>1. \A i \in DOMAIN chain[l] : chain[l][i] \in Descriptors
  BY ListOf
<1> QED  BY <1>1 DEF Loose, OnList, Own, ListsInv, AllLists

\* A step that changes one list leaves lists, and the changed one is what its links say.
LEMMA StepOnOneList ==
  ASSUME ListsInv, NEW l \in Lists, NEW t, NEW m, IsList(t, m, list'[l], link', back'),
         OnlyOwn(chain, l, list, link, back, list', link', back'),
         \A j \in 1..m : t[j] \in Own(chain, l)
  PROVE  ListsInv' /\ chain' = [chain EXCEPT ![l] = t]
<1>1. PICK c, d : c = chain /\ d = [chain EXCEPT ![l] = t]
  OBVIOUS
<1>2. AllLists(d, list', link', back')
  <2>1. AllLists(c, list, link, back)
    BY <1>1 DEF ListsInv
  <2>2. OnlyOwn(c, l, list, link, back, list', link', back') /\ \A j \in 1..m : t[j] \in Own(c, l)
    BY <1>1
  <2>3. AllLists([c EXCEPT ![l] = t], list', link', back')
    BY <2>1, <2>2, OneListChanged
  <2> QED  BY <1>1, <2>3
<1>3. chain' = [k \in Lists |-> From(list'[k], link')]
  BY DEF chain
<1>4. chain' = d
  BY <1>2, <1>3, ChainsAre
<1> QED  BY <1>1, <1>2, <1>4 DEF ListsInv

LEMMA LooseThere ==
  ASSUME ListsInv, NEW bd, Loose(bd)
  PROVE  Abstract!Loose(bd)
<1>1. \A k \in Lists : \A i \in 1..Len(chain[k]) : chain[k][i] # bd
  <2> TAKE k \in Lists
  <2>1. PICK m \in Nat : DOMAIN chain[k] = 1..m /\ chain[k] \in [1..m -> Descriptors]
    BY ListOf
  <2> QED  BY <2>1, SequenceOf DEF Loose, OnList
<1> QED  BY <1>1 DEF Abstract!Loose, Abstract!Contains

\* The steps are those of sequences.
LEMMA OntoStep ==
  ASSUME ListsInv, NEW bd \in Descriptors, NEW l \in Lists, Loose(bd), dbl_link_onto(bd, l)
  PROVE  ListsInv' /\ Abstract!Onto(bd, l)
<1>1. PICK n \in Nat : /\ IsList(chain[l], n, list[l], link, back)
                       /\ DOMAIN chain[l] = 1..n /\ chain[l] \in [1..n -> Descriptors]
  BY ListOf
<1>2. PICK O, h, s, t : O = Own(chain, l) /\ h = list[l] /\ s = chain[l] /\ t = Pushed(s, n, bd)
  OBVIOUS
<1>3. /\ list \in [Lists -> Descriptors \cup {NULL}] /\ link \in Links /\ back \in Links
      /\ bd \in O /\ \A i \in 1..n : s[i] \in O /\ s[i] # bd
      /\ h = NULL \/ h \in O
      /\ h \in Descriptors \cup {NULL} /\ O \subseteq Descriptors
  <2>1. list \in [Lists -> Descriptors \cup {NULL}] /\ link \in Links /\ back \in Links
    BY DEF ListsInv, AllLists
  <2>2. bd \in O /\ \A i \in 1..n : s[i] \in O
    BY <1>1, <1>2, OwnOf
  <2>3. \A i \in 1..n : s[i] # bd
    BY <1>1, <1>2 DEF Loose, OnList
  <2>4. h = NULL \/ (1 \in 1..n /\ h = s[1])
    BY <1>1, <1>2 DEF IsList
  <2> QED  BY <1>2, <2>1, <2>2, <2>3, <2>4 DEF Own
<1>4. /\ link' = [link EXCEPT ![bd] = h] /\ list' = [list EXCEPT ![l] = bd]
      /\ back' = BackFrom(h, bd, [back EXCEPT ![bd] = NULL])
  BY <1>2 DEF dbl_link_onto
<1>5. IsList(t, n + 1, bd, [link EXCEPT ![bd] = h], BackFrom(h, bd, [back EXCEPT ![bd] = NULL]))
  BY <1>1, <1>2, <1>3, PushedList
<1>6. IsList(t, n + 1, list'[l], link', back')
  BY <1>3, <1>4, <1>5
<1>7. /\ list' \in [Lists -> Descriptors \cup {NULL}] /\ link' \in Links /\ back' \in Links
      /\ \A k \in Lists \ {l} : list'[k] = list[k]
      /\ \A d \in Descriptors \ O : link'[d] = link[d] /\ back'[d] = back[d]
  BY <1>3, <1>4 DEF Links, BackFrom
<1>8. OnlyOwn(chain, l, list, link, back, list', link', back')
  BY <1>2, <1>7 DEF OnlyOwn
<1>9. \A j \in 1 .. n + 1 : t[j] \in O
  BY <1>2, <1>3 DEF Pushed
<1>10. ListsInv' /\ chain' = [chain EXCEPT ![l] = t]
  BY <1>2, <1>6, <1>8, <1>9, StepOnOneList
<1>11. Abstract!Cons(bd, chain[l]) = t
  BY <1>1, <1>2, ConsIsPushed
<1> QED  BY <1>10, <1>11, LooseThere DEF Abstract!Onto

LEMMA RemoveStep ==
  ASSUME ListsInv, NEW bd \in Descriptors, NEW l \in Lists, OnList(bd, l), dbl_link_remove(bd, l)
  PROVE  ListsInv' /\ \E i \in DOMAIN chain[l] : Abstract!Unlink(l, i)
<1>1. PICK n \in Nat : /\ IsList(chain[l], n, list[l], link, back)
                       /\ DOMAIN chain[l] = 1..n /\ chain[l] \in [1..n -> Descriptors]
  BY ListOf
<1>2. PICK i \in 1..n : chain[l][i] = bd
  BY <1>1 DEF OnList
<1>3. PICK O, h, s, t : O = Own(chain, l) /\ h = list[l] /\ s = chain[l] /\ t = Removed(s, n, i)
  OBVIOUS
<1>4. /\ list \in [Lists -> Descriptors \cup {NULL}] /\ link \in Links /\ back \in Links
      /\ s \in [1..n -> Descriptors] /\ s[i] = bd
      /\ \A j \in 1..n : s[j] \in O
      /\ link[bd] \in O \cup {NULL} /\ back[bd] \in O \cup {NULL}
      /\ O \subseteq Descriptors /\ NULL \notin Descriptors
  <2>1. list \in [Lists -> Descriptors \cup {NULL}] /\ link \in Links /\ back \in Links
    BY DEF ListsInv, AllLists
  <2>2. \A j \in 1..n : s[j] \in O
    BY <1>1, <1>3, OwnOf
  <2>3. /\ link[bd] = IF i = n THEN NULL ELSE s[i + 1]
        /\ back[bd] = IF i = 1 THEN NULL ELSE s[i - 1]
    BY <1>1, <1>2, <1>3 DEF IsList
  <2>4. /\ i # n => i + 1 \in 1..n
        /\ i # 1 => i - 1 \in 1..n
    OBVIOUS
  <2>5. O \subseteq Descriptors /\ NULL \notin Descriptors
    BY <1>3, ListsAssumption DEF Own
  <2>6. link[bd] \in O \cup {NULL} /\ back[bd] \in O \cup {NULL}
    BY <2>2, <2>3, <2>4
  <2> QED  BY <1>1, <1>2, <1>3, <2>1, <2>2, <2>5, <2>6
<1>5. /\ link' = IF back[bd] = NULL THEN link ELSE [link EXCEPT ![back[bd]] = link[bd]]
      /\ list' = IF back[bd] = NULL THEN [list EXCEPT ![l] = link[bd]] ELSE list
      /\ back' = BackFrom(link[bd], back[bd], back)
  BY DEF dbl_link_remove
<1>6. list'[l] = HeadWithout(s[i], h, link, back) /\ link' = LinksWithout(s[i], link, back)
  BY <1>3, <1>4, <1>5 DEF HeadWithout, LinksWithout
<1>7. IsList(t, n - 1, list'[l], link', back')
  <2>1. IsList(s, n, h, link, back)
    BY <1>1, <1>3
  <2>2. IsList(Removed(s, n, i), n - 1, list'[l], link', BackFrom(link[s[i]], back[s[i]], back))
    BY <1>4, <1>6, <2>1, RemovedList
  <2> QED  BY <1>3, <1>4, <1>5, <2>2
<1>8. /\ list' \in [Lists -> Descriptors \cup {NULL}] /\ link' \in Links /\ back' \in Links
      /\ \A k \in Lists \ {l} : list'[k] = list[k]
      /\ \A d \in Descriptors \ O : link'[d] = link[d] /\ back'[d] = back[d]
  BY <1>4, <1>5 DEF Links, BackFrom
<1>9. OnlyOwn(chain, l, list, link, back, list', link', back')
  BY <1>3, <1>8 DEF OnlyOwn
<1>10. \A j \in 1 .. n - 1 : t[j] \in O
  BY <1>3, <1>4 DEF Removed
<1>11. ListsInv' /\ chain' = [chain EXCEPT ![l] = t]
  <2>1. \A j \in 1 .. n - 1 : t[j] \in Own(chain, l)
    BY <1>3, <1>10
  <2> QED  BY <1>7, <1>9, <2>1, StepOnOneList
<1>12. Abstract!RemoveAt(chain[l], i) = t
  BY <1>1, <1>3, RemoveAtIsRemoved
<1> QED  BY <1>1, <1>11, <1>12 DEF Abstract!Unlink

LEMMA InsertStep ==
  ASSUME ListsInv, NEW bd \in Descriptors, NEW after \in Descriptors, NEW l \in Lists,
         Loose(bd), OnList(after, l), dbl_link_insert_after(bd, after)
  PROVE  ListsInv' /\ \E i \in DOMAIN chain[l] : Abstract!InsertAfter(bd, l, i)
<1>1. PICK n \in Nat : /\ IsList(chain[l], n, list[l], link, back)
                       /\ DOMAIN chain[l] = 1..n /\ chain[l] \in [1..n -> Descriptors]
  BY ListOf
<1>2. PICK i \in 1..n : chain[l][i] = after
  BY <1>1 DEF OnList
<1>3. PICK O, h, s, t : O = Own(chain, l) /\ h = list[l] /\ s = chain[l] /\ t = Inserted(s, n, i, bd)
  OBVIOUS
<1>4. /\ list \in [Lists -> Descriptors \cup {NULL}] /\ link \in Links /\ back \in Links
      /\ s \in [1..n -> Descriptors] /\ s[i] = after
      /\ bd \in O /\ \A j \in 1..n : s[j] \in O /\ s[j] # bd
      /\ link[after] \in O \cup {NULL}
      /\ O \subseteq Descriptors /\ NULL \notin Descriptors
  <2>1. list \in [Lists -> Descriptors \cup {NULL}] /\ link \in Links /\ back \in Links
    BY DEF ListsInv, AllLists
  <2>2. bd \in O /\ \A j \in 1..n : s[j] \in O
    BY <1>1, <1>3, OwnOf
  <2>3. \A j \in 1..n : s[j] # bd
    BY <1>1, <1>3 DEF Loose, OnList
  <2>4. link[after] = IF i = n THEN NULL ELSE s[i + 1]
    BY <1>1, <1>2, <1>3 DEF IsList
  <2>5. i # n => i + 1 \in 1..n
    OBVIOUS
  <2>6. O \subseteq Descriptors /\ NULL \notin Descriptors
    BY <1>3, ListsAssumption DEF Own
  <2>7. link[after] \in O \cup {NULL}
    BY <2>2, <2>4, <2>5
  <2> QED  BY <1>1, <1>2, <1>3, <2>1, <2>2, <2>3, <2>6, <2>7
<1>5. /\ link' = [link EXCEPT ![bd] = link[after], ![after] = bd] /\ list' = list
      /\ back' = BackFrom(link[after], bd, [back EXCEPT ![bd] = after])
  BY DEF dbl_link_insert_after
<1>6. IsList(t, n + 1, h, [link EXCEPT ![bd] = link[after], ![after] = bd],
             BackFrom(link[after], bd, [back EXCEPT ![bd] = after]))
  <2>1. IsList(s, n, h, link, back)
    BY <1>1, <1>3
  <2>2. IsList(Inserted(s, n, i, bd), n + 1, h, [link EXCEPT ![bd] = link[s[i]], ![s[i]] = bd],
               BackFrom(link[s[i]], bd, [back EXCEPT ![bd] = s[i]]))
    BY <1>4, <2>1, InsertedList
  <2> QED  BY <1>3, <1>4, <2>2
<1>7. IsList(t, n + 1, list'[l], link', back')
  BY <1>3, <1>5, <1>6
<1>8. /\ list' \in [Lists -> Descriptors \cup {NULL}] /\ link' \in Links /\ back' \in Links
      /\ \A k \in Lists \ {l} : list'[k] = list[k]
      /\ \A d \in Descriptors \ O : link'[d] = link[d] /\ back'[d] = back[d]
  <2>1. after \in O
    BY <1>4
  <2> QED  BY <1>4, <1>5, <2>1 DEF Links, BackFrom
<1>9. OnlyOwn(chain, l, list, link, back, list', link', back')
  BY <1>3, <1>8 DEF OnlyOwn
<1>10. \A j \in 1 .. n + 1 : t[j] \in O
  <2> TAKE j \in 1 .. n + 1
  <2>1. t[j] = IF j <= i THEN s[j] ELSE IF j = i + 1 THEN bd ELSE s[j - 1]
    BY <1>3 DEF Inserted
  <2>2. /\ j <= i => j \in 1..n
        /\ ~(j <= i) /\ j # i + 1 => j - 1 \in 1..n
    OBVIOUS
  <2> QED  BY <1>4, <2>1, <2>2
<1>11. ListsInv' /\ chain' = [chain EXCEPT ![l] = t]
  <2>1. \A j \in 1 .. n + 1 : t[j] \in Own(chain, l)
    BY <1>3, <1>10
  <2> QED  BY <1>7, <1>9, <2>1, StepOnOneList
<1>12. Abstract!InsertAt(chain[l], i + 1, bd) = t
  BY <1>1, <1>3, InsertAtIsInserted
<1> QED  BY <1>1, <1>11, <1>12, LooseThere DEF Abstract!InsertAfter

LEMMA ReplaceStep ==
  ASSUME ListsInv, NEW new_ \in Descriptors, NEW old \in Descriptors, NEW l \in Lists,
         Loose(new_), OnList(old, l), dbl_link_replace(new_, old, l)
  PROVE  ListsInv' /\ \E i \in DOMAIN chain[l] : Abstract!Replace(new_, l, i)
<1>1. PICK n \in Nat : /\ IsList(chain[l], n, list[l], link, back)
                       /\ DOMAIN chain[l] = 1..n /\ chain[l] \in [1..n -> Descriptors]
  BY ListOf
<1>2. PICK i \in 1..n : chain[l][i] = old
  BY <1>1 DEF OnList
<1>3. PICK O, h, s, t : O = Own(chain, l) /\ h = list[l] /\ s = chain[l] /\ t = Replaced(s, n, i, new_)
  OBVIOUS
<1>4. /\ list \in [Lists -> Descriptors \cup {NULL}] /\ link \in Links /\ back \in Links
      /\ s \in [1..n -> Descriptors] /\ s[i] = old
      /\ new_ \in O /\ \A j \in 1..n : s[j] \in O /\ s[j] # new_
      /\ link[old] \in O \cup {NULL} /\ back[old] \in O \cup {NULL}
      /\ O \subseteq Descriptors /\ NULL \notin Descriptors
  <2>1. list \in [Lists -> Descriptors \cup {NULL}] /\ link \in Links /\ back \in Links
    BY DEF ListsInv, AllLists
  <2>2. new_ \in O /\ \A j \in 1..n : s[j] \in O
    BY <1>1, <1>3, OwnOf
  <2>3. \A j \in 1..n : s[j] # new_
    BY <1>1, <1>3 DEF Loose, OnList
  <2>4. /\ link[old] = IF i = n THEN NULL ELSE s[i + 1]
        /\ back[old] = IF i = 1 THEN NULL ELSE s[i - 1]
    BY <1>1, <1>2, <1>3 DEF IsList
  <2>5. /\ i # n => i + 1 \in 1..n
        /\ i # 1 => i - 1 \in 1..n
    OBVIOUS
  <2>6. O \subseteq Descriptors /\ NULL \notin Descriptors
    BY <1>3, ListsAssumption DEF Own
  <2>7. link[old] \in O \cup {NULL} /\ back[old] \in O \cup {NULL}
    BY <2>2, <2>4, <2>5
  <2> QED  BY <1>1, <1>2, <1>3, <2>1, <2>2, <2>3, <2>6, <2>7
<1>5. /\ link' = IF back[old] = NULL THEN [link EXCEPT ![new_] = link[old]]
                                     ELSE [link EXCEPT ![new_] = link[old], ![back[old]] = new_]
      /\ list' = IF back[old] = NULL THEN [list EXCEPT ![l] = new_] ELSE list
      /\ back' = BackFrom(link[old], new_, [back EXCEPT ![new_] = back[old]])
  BY DEF dbl_link_replace
<1>6. list'[l] = HeadWith(new_, s[i], h, back) /\ link' = LinksWith(new_, s[i], link, back)
  BY <1>3, <1>4, <1>5 DEF HeadWith, LinksWith
<1>7. IsList(t, n, list'[l], link', back')
  <2>1. IsList(s, n, h, link, back)
    BY <1>1, <1>3
  <2>2. \A k \in 1..n : s[k] # new_
    BY <1>4
  <2>3. IsList(Replaced(s, n, i, new_), n, HeadWith(new_, s[i], h, back), LinksWith(new_, s[i], link, back),
               BackFrom(link[s[i]], new_, [back EXCEPT ![new_] = back[s[i]]]))
    <3>1. link \in Links /\ back \in Links
      BY <1>4
    <3> QED  BY ONLY <2>1, <2>2, <3>1, i \in 1..n, new_ \in Descriptors, ReplacedList
  <2> QED  BY <1>3, <1>4, <1>5, <1>6, <2>3
<1>8. /\ list' \in [Lists -> Descriptors \cup {NULL}] /\ link' \in Links /\ back' \in Links
      /\ \A k \in Lists \ {l} : list'[k] = list[k]
      /\ \A d \in Descriptors \ O : link'[d] = link[d] /\ back'[d] = back[d]
  BY <1>4, <1>5 DEF Links, BackFrom
<1>9. OnlyOwn(chain, l, list, link, back, list', link', back')
  BY <1>3, <1>8 DEF OnlyOwn
<1>10. \A j \in 1 .. n : t[j] \in O
  BY <1>3, <1>4 DEF Replaced
<1>11. ListsInv' /\ chain' = [chain EXCEPT ![l] = t]
  <2>1. \A j \in 1 .. n : t[j] \in Own(chain, l)
    BY <1>3, <1>10
  <2> QED  BY <1>7, <1>9, <2>1, StepOnOneList
<1>12. Abstract!ReplaceAt(chain[l], i, new_) = t
  BY <1>1, <1>3, ReplaceAtIsReplaced
<1> QED  BY <1>1, <1>11, <1>12, LooseThere DEF Abstract!Replace

\* In the beginning all lists are empty.
LEMMA ListsBegin ==
  ASSUME ListsInit
  PROVE  ListsInv /\ Abstract!Init
<1> DEFINE c == [l \in Lists |-> <<>>]
<1>1. AllLists(c, list, link, back)
  <2>1. \A l \in Lists : IsList(c[l], 0, list[l], link, back)
    BY DEF ListsInit, IsList
  <2>2. list \in [Lists -> Descriptors \cup {NULL}] /\ link \in Links /\ back \in Links
    BY DEF ListsInit, Links
  <2> QED  BY <2>1, <2>2 DEF AllLists
<1> HIDE DEF c
<1>2. chain = c
  BY <1>1, ChainsAre DEF chain
<1> QED  BY <1>1, <1>2 DEF ListsInv, Abstract!Init, c

LEMMA ListsStep ==
  ASSUME ListsInv, [ListsNext]_listVars
  PROVE  ListsInv' /\ (Abstract!Next \/ UNCHANGED chain)
<1>1. CASE UNCHANGED listVars
  BY <1>1 DEF listVars, chain, ListsInv
<1>2. ASSUME NEW bd \in Descriptors, NEW l \in Lists, OnList(bd, l), dbl_link_remove(bd, l)
      PROVE  ListsInv' /\ (Abstract!Next \/ UNCHANGED chain)
  BY <1>2, RemoveStep DEF Abstract!Next
<1>3. ASSUME NEW bd \in Descriptors, NEW l \in Lists, Loose(bd), dbl_link_onto(bd, l)
      PROVE  ListsInv' /\ (Abstract!Next \/ UNCHANGED chain)
  BY <1>3, OntoStep DEF Abstract!Next
<1>4. ASSUME NEW bd \in Descriptors, NEW l \in Lists, NEW other \in Descriptors,
             Loose(bd), OnList(other, l), dbl_link_insert_after(bd, other)
      PROVE  ListsInv' /\ (Abstract!Next \/ UNCHANGED chain)
  BY <1>4, InsertStep DEF Abstract!Next
<1>5. ASSUME NEW bd \in Descriptors, NEW l \in Lists, NEW other \in Descriptors,
             Loose(bd), OnList(other, l), dbl_link_replace(bd, other, l)
      PROVE  ListsInv' /\ (Abstract!Next \/ UNCHANGED chain)
  BY <1>5, ReplaceStep DEF Abstract!Next
<1> QED  BY <1>1, <1>2, <1>3, <1>4, <1>5 DEF ListsNext

\* Lists with the links they should have have their back links.
LEMMA BackLinksThen ==
  ASSUME ListsInv
  PROVE  BackLinks
<1> SUFFICES ASSUME NEW l \in Lists, NEW i \in DOMAIN chain[l]
             PROVE  back[chain[l][i]] = IF i = 1 THEN NULL ELSE chain[l][i - 1]
  BY DEF BackLinks
<1>1. PICK n \in Nat : IsList(chain[l], n, list[l], link, back) /\ DOMAIN chain[l] = 1..n
  BY ListOf
<1> QED  BY <1>1 DEF IsList

LEMMA ListsKept == ListsSpec => []ListsInv
<1>1. ListsInit => ListsInv
  BY ListsBegin
<1>2. ListsInv /\ [ListsNext]_listVars => ListsInv'
  BY ListsStep
<1> QED  BY <1>1, <1>2, PTL DEF ListsSpec

THEOREM BackLeadsBack == ListsSpec => []BackLinks
<1>1. ListsInv => BackLinks
  BY BackLinksThen
<1> QED  BY <1>1, ListsKept, PTL

THEOREM ListsImplementSequences == ListsSpec => ImplementsSequences
<1>1. ListsInit => Abstract!Init
  BY ListsBegin
<1>2. ListsInv /\ [ListsNext]_listVars => [Abstract!Next]_chain
  BY ListsStep
<1> QED  BY <1>1, <1>2, ListsKept, PTL DEF ListsSpec, ImplementsSequences, Abstract!Spec
----------------------------------------------------------------------------
(***************************************************************************)
(* Arrays: cards and the words they are in, for every size of a card and   *)
(* of a word.                                                              *)
(***************************************************************************)

\* Division with remainder.
LEMMA Quotient ==
  ASSUME NEW a \in Int, NEW d \in Nat \ {0}
  PROVE  /\ a \div d \in Int /\ a % d \in 0 .. d - 1
         /\ a = d * (a \div d) + (a % d)
OBVIOUS

\* A number that is below n is in one of the n units of size d, rounded up.
LEMMA UnitBelow ==
  ASSUME NEW k \in Nat, NEW n \in Nat, NEW d \in Nat \ {0}, k < n
  PROVE  k \div d \in Nat /\ k \div d < (n + d - 1) \div d
<1>1. PICK q \in Int : q = k \div d
  BY Quotient
<1>2. PICK r \in Int : r = (n + d - 1) \div d
  BY Quotient
<1>3. /\ d * q <= k /\ k < d * q + d
  BY <1>1, Quotient
<1>4. n + d - 1 < d * r + d
  BY <1>2, Quotient
<1>5. d * (q + 1) > 0
  BY <1>3
<1>6. q >= 0
  BY <1>5
<1>7. d * (r - q) > 0
  BY <1>3, <1>4
<1>8. q < r
  BY <1>7
<1> QED  BY <1>1, <1>2, <1>6, <1>8

\* n, rounded up to units of size d.
LEMMA UnitsOf ==
  ASSUME NEW n \in Nat, NEW d \in Nat \ {0}
  PROVE  /\ (n + d - 1) \div d \in Nat
         /\ (n + d - 1) \div d <= n
         /\ n <= d * ((n + d - 1) \div d)
<1>1. PICK r \in Int : r = (n + d - 1) \div d
  BY Quotient
<1>2. /\ d * r <= n + d - 1 /\ n + d - 1 < d * r + d
  BY <1>1, Quotient
<1>3. d * (r + 1) > 0
  BY <1>2
<1>4. r >= 0
  BY <1>3
<1>5. r <= n
  <2>1. SUFFICES ASSUME r > n PROVE FALSE
    OBVIOUS
  <2>2. d * (r - n - 1) >= 0
    BY <2>1
  <2>3. d * n <= n - 1
    BY <1>2, <2>2
  <2>4. (d - 1) * n >= 0
    OBVIOUS
  <2> QED  BY <2>3, <2>4
<1> QED  BY <1>1, <1>2, <1>4, <1>5

LEMMA DivMonotone ==
  ASSUME NEW j \in Nat, NEW k \in Nat, NEW d \in Nat \ {0}, j <= k
  PROVE  j \div d \in Nat /\ k \div d \in Nat /\ j \div d <= k \div d
<1>1. PICK q \in Int : q = j \div d
  BY Quotient
<1>2. PICK r \in Int : r = k \div d
  BY Quotient
<1>3. /\ d * q <= j /\ j < d * q + d /\ k < d * r + d /\ d * r <= k
  BY <1>1, <1>2, Quotient
<1>4. d * (q + 1) > 0 /\ d * (r + 1) > 0
  BY <1>3
<1>5. q >= 0 /\ r >= 0
  BY <1>4
<1>6. d * (r + 1 - q) > 0
  BY <1>3
<1>7. q <= r
  BY <1>6
<1> QED  BY <1>1, <1>2, <1>5, <1>7

\* The byte of a card among the bytes of its word.
LEMMA WhereUnitIs ==
  ASSUME NEW c \in Nat, NEW d \in Nat \ {0}
  PROVE  /\ c \div d \in Nat /\ c % d \in 0 .. d - 1 /\ c = (c \div d) * d + (c % d)
<1>1. c \div d \in Nat
  BY DivMonotone
<1> QED  BY <1>1, Quotient

\* A byte of a word that is one of the first u bytes is in one of the first words.
LEMMA WordOfByte ==
  ASSUME NEW o \in Int, NEW d \in Nat \ {0}, NEW k \in 0 .. d - 1, NEW u \in Nat,
         o * d + k \in 0 .. u - 1
  PROVE  o >= 0 /\ o < (u + d - 1) \div d
<1>1. (o + 1) * d > 0
  OBVIOUS
<1>2. o >= 0
  BY <1>1
<1>3. PICK r \in Int : r = (u + d - 1) \div d
  BY Quotient
<1>4. u + d - 1 < d * r + d
  BY <1>3, Quotient
<1>5. d * (r - o) > 0
  BY <1>4
<1>6. r > o
  BY <1>5
<1> QED  BY <1>2, <1>3, <1>6

C == 2 ^ MUT_ARR_PTRS_CARD_BITS

\* How many cards an array has, and how many words they take.
LEMMA CardSizes ==
  ASSUME NEW n \in Nat
  PROVE  /\ C \in Nat \ {0} /\ WordBytes \in Nat \ {0}
         /\ mutArrPtrCardUp(n) \in Nat /\ mutArrPtrCardUp(n) <= n
         /\ mutArrPtrsCardWords(n) \in Nat
         /\ mutArrPtrsCardWords(n) = (mutArrPtrCardUp(n) + WordBytes - 1) \div WordBytes
<1>1. C \in Nat \ {0} /\ WordBytes \in Nat \ {0}
  BY ArraysAssumption DEF C
<1>2. mutArrPtrCardUp(n) = (n + C - 1) \div C
  BY <1>1 DEF mutArrPtrCardUp, mutArrCardMask, C
<1>3. mutArrPtrCardUp(n) \in Nat /\ mutArrPtrCardUp(n) <= n
  BY <1>1, <1>2, UnitsOf
<1>4. mutArrPtrsCardWords(n) = (mutArrPtrCardUp(n) + WordBytes - 1) \div WordBytes
  BY DEF mutArrPtrsCardWords, ROUNDUP_BYTES_TO_WDS
<1>5. mutArrPtrsCardWords(n) \in Nat
  BY <1>1, <1>3, <1>4, UnitsOf
<1> QED  BY <1>1, <1>3, <1>4, <1>5

\* The card of an element is one of the cards, in one of their words.
LEMMA CardOfElement ==
  ASSUME NEW n \in Nat, NEW k \in Nat, k < n
  PROVE  /\ mutArrPtrCardDown(k) \in Nat /\ mutArrPtrCardDown(k) < mutArrPtrCardUp(n)
         /\ mutArrPtrCardDown(k) \div WordBytes \in Nat
         /\ mutArrPtrCardDown(k) \div WordBytes < mutArrPtrsCardWords(n)
         /\ mutArrPtrCardDown(k) % WordBytes \in 0 .. WordBytes - 1
<1>1. C \in Nat \ {0} /\ WordBytes \in Nat \ {0}
  BY CardSizes
<1>2. k \div C \in Nat /\ k \div C < (n + C - 1) \div C
  BY <1>1, UnitBelow
<1>3. mutArrPtrCardDown(k) \in Nat /\ mutArrPtrCardDown(k) < mutArrPtrCardUp(n)
  BY <1>1, <1>2 DEF mutArrPtrCardUp, mutArrPtrCardDown, mutArrCardMask, C
<1>4. mutArrPtrCardUp(n) \in Nat
  BY CardSizes
<1>5. PICK c : c = mutArrPtrCardDown(k)
  OBVIOUS
<1>6. PICK u : u = mutArrPtrCardUp(n)
  OBVIOUS
<1>7. c \div WordBytes \in Nat /\ c \div WordBytes < (u + WordBytes - 1) \div WordBytes
      /\ c % WordBytes \in 0 .. WordBytes - 1
  BY <1>1, <1>3, <1>4, <1>5, <1>6, UnitBelow, WhereUnitIs
<1> QED  BY <1>3, <1>5, <1>6, <1>7, CardSizes

\* What is below the size of the memory is not wrapped to the width of a word.
LEMMA NoWrap ==
  ASSUME NEW n \in Nat, n < MemWords
  PROVE  Word(n) = n
<1>1. PICK b : b = 2 ^ WordBits
  OBVIOUS
<1>2. b \in Nat /\ MemWords \in Nat /\ MemWords <= b
  BY <1>1, ArraysAssumption
<1>3. n % b = n
  BY <1>2
<1> QED  BY <1>1, <1>3 DEF Word

Bits == [0 .. WordBytes - 1 -> {0, 1}]

Memory(m) == DOMAIN m = 0 .. MemWords - 1 /\ m = [w \in 0 .. MemWords - 1 |-> m[w]]

CardsAt(x) == \E v \in Bits : x = [kind |-> "cards", v |-> v]

\* Setting bytes overwrites no more than the kind of other words.
LEMMA MemsetKeeps ==
  ASSUME NEW m, Memory(m), NEW a, NEW first, NEW count, NEW w \in 0 .. MemWords - 1
  PROVE  /\ Memory(memset(m, a, first, count))
         /\ m[w].kind # "cards" => /\ memset(m, a, first, count)[w].kind # "cards"
                                   /\ memset(m, a, first, count)[w].v = m[w].v
BY DEF memset, Memory

\* The words t to t + cw - 1 stay card words with the cards they had and some new ones.
AddsCards(m, r, t, cw, first, count) ==
  \A w \in 0 .. MemWords - 1 :
    /\ w \notin t .. t + cw - 1 => r[w] = m[w]
    /\ CardsAt(m[w]) =>
         /\ CardsAt(r[w])
         /\ \A k \in 0 .. WordBytes - 1 : m[w].v[k] = 1 => r[w].v[k] = 1
         /\ \A c \in first .. first + count - 1 :
              w = t + (c \div WordBytes) => r[w].v[c % WordBytes] = 1

\* Setting cards of a table of u cards changes the words of the table only.
LEMMA MemsetCards ==
  ASSUME NEW m, Memory(m), NEW a \in Nat, NEW u \in Nat, NEW first \in Nat, NEW count \in Nat,
         first + count <= u
  PROVE  AddsCards(m, memset(m, a, first, count), a, (u + WordBytes - 1) \div WordBytes, first, count)
<1> SUFFICES ASSUME NEW w \in 0 .. MemWords - 1
             PROVE  LET r == memset(m, a, first, count)
         IN  /\ w \notin a .. a + ((u + WordBytes - 1) \div WordBytes) - 1 => r[w] = m[w]
             /\ CardsAt(m[w]) =>
                  /\ CardsAt(r[w])
                  /\ \A k \in 0 .. WordBytes - 1 : m[w].v[k] = 1 => r[w].v[k] = 1
                  /\ \A c \in first .. first + count - 1 :
                       w = a + (c \div WordBytes) => r[w].v[c % WordBytes] = 1
  BY DEF AddsCards
<1> DEFINE r == memset(m, a, first, count)
           hit(k) == (w - a) * WordBytes + k \in first .. first + count - 1
<1>0. WordBytes \in Nat \ {0} /\ MemWords \in Nat
  BY ArraysAssumption
<1>1. r[w] = IF \A k \in 0 .. WordBytes - 1 : ~hit(k) THEN m[w]
             ELSE IF m[w].kind = "cards"
               THEN [kind |-> "cards", v |-> [k \in 0 .. WordBytes - 1 |-> IF hit(k) THEN 1 ELSE m[w].v[k]]]
               ELSE [kind |-> "overwritten", v |-> m[w].v]
  BY DEF memset, Memory
<1>2. ASSUME w \notin a .. a + ((u + WordBytes - 1) \div WordBytes) - 1
      PROVE  r[w] = m[w]
  <2>1. SUFFICES ASSUME NEW k \in 0 .. WordBytes - 1, hit(k) PROVE FALSE
    <3> HIDE DEF r, hit
    <3> QED  BY <1>1
  <2>2. PICK o \in Int : o = w - a
    BY <1>0
  <2>3. o * WordBytes + k \in 0 .. u - 1
    <3>1. PICK p \in Int : p = o * WordBytes
      BY <1>0
    <3>2. p + k \in first .. first + count - 1
      BY <2>1, <2>2, <3>1
    <3> QED  BY <1>0, <3>1, <3>2
  <2>4. o >= 0 /\ o < (u + WordBytes - 1) \div WordBytes
    BY <1>0, <2>3, WordOfByte
  <2>5. (u + WordBytes - 1) \div WordBytes \in Nat
    BY <1>0, UnitsOf
  <2>6. PICK e \in Nat : e = (u + WordBytes - 1) \div WordBytes
    BY <2>5
  <2> QED  BY <1>0, <1>2, <2>2, <2>4, <2>6
<1>3. ASSUME CardsAt(m[w])
      PROVE  /\ CardsAt(r[w])
             /\ \A k \in 0 .. WordBytes - 1 : m[w].v[k] = 1 => r[w].v[k] = 1
             /\ \A c \in first .. first + count - 1 :
                  w = a + (c \div WordBytes) => r[w].v[c % WordBytes] = 1
  <2>1. m[w].kind = "cards" /\ m[w].v \in Bits
    BY <1>3 DEF CardsAt
  <2>2. \A k \in 0 .. WordBytes - 1 : m[w].v[k] = 1 \/ hit(k) => r[w].v[k] = 1
    <3> HIDE DEF r, hit
    <3> QED  BY <1>1, <2>1
  <2>3. CardsAt(r[w])
    <3>1. CASE \A k \in 0 .. WordBytes - 1 : ~hit(k)
      <4> HIDE DEF r, hit
      <4> QED  BY <1>1, <1>3, <3>1
    <3>2. CASE ~(\A k \in 0 .. WordBytes - 1 : ~hit(k))
      <4> DEFINE v == [k \in 0 .. WordBytes - 1 |-> IF hit(k) THEN 1 ELSE m[w].v[k]]
      <4>1. v \in Bits
        <5> HIDE DEF hit
        <5> QED  BY <2>1 DEF Bits
      <4>2. r[w] = [kind |-> "cards", v |-> v]
        <5> HIDE DEF r, hit
        <5> QED  BY <1>1, <2>1, <3>2
      <4> HIDE DEF v, r
      <4> QED  BY <4>1, <4>2 DEF CardsAt
    <3> QED  BY <3>1, <3>2
  <2>4. ASSUME NEW c \in first .. first + count - 1, w = a + (c \div WordBytes)
        PROVE  r[w].v[c % WordBytes] = 1
    <3>1. c \in Nat
      OBVIOUS
    <3>2. /\ c \div WordBytes \in Nat /\ c % WordBytes \in 0 .. WordBytes - 1
          /\ c = (c \div WordBytes) * WordBytes + (c % WordBytes)
      BY <1>0, <3>1, WhereUnitIs
    <3>3. w - a = c \div WordBytes
      BY <2>4, <3>2
    <3>4. hit(c % WordBytes)
      BY <3>2, <3>3
    <3> HIDE DEF r, hit
    <3> QED  BY <2>2, <3>2, <3>4
  <2> QED  BY <2>2, <2>3, <2>4
<1> QED  BY <1>2, <1>3

\* Copying to words behind or before the ones that are read.
LEMMA MemcpyCopies ==
  ASSUME NEW m, Memory(m), NEW d \in Nat, NEW s \in Nat, NEW n \in Nat, s + n <= d \/ d <= s,
         NEW w \in 0 .. MemWords - 1
  PROVE  memcpy(m, d, s, n)[w] = IF w \in d .. d + n - 1 THEN m[s + w - d] ELSE m[w]
<1>0. MemWords \in Nat
  BY ArraysAssumption
<1>1. memcpy(m, d, s, n)[w] =
        IF w \notin d .. d + n - 1 THEN m[w]
        ELSE IF d > s THEN m[s + ((w - d) % (d - s))] ELSE m[s + w - d]
  BY DEF memcpy, Memory
<1>2. CASE w \in d .. d + n - 1 /\ d > s
  <2>1. PICK x : x = w - d
    OBVIOUS
  <2>2. PICK y : y = d - s
    OBVIOUS
  <2>3. x \in Nat /\ y \in Nat /\ x < y
    BY <1>0, <1>2, <2>1, <2>2
  <2>4. x % y = x
    BY <2>3
  <2>5. s + x = s + w - d
    BY <1>0, <2>1
  <2> QED  BY <1>1, <1>2, <2>1, <2>2, <2>4, <2>5
<1> QED  BY <1>0, <1>1, <1>2

\* A sequence, of whatever is in it.
IsSeq(s) == s \in Seq({s[i] : i \in DOMAIN s})

LEMMA SeqHas ==
  ASSUME NEW s, IsSeq(s)
  PROVE  Len(s) \in Nat /\ DOMAIN s = 1 .. Len(s) /\ s = [i \in 1 .. Len(s) |-> s[i]]
BY LenProperties DEF IsSeq

\* A function on 1..n is a sequence of length n.
LEMMA FunctionIsSeq ==
  ASSUME NEW n \in Nat, NEW s, s = [i \in 1 .. n |-> s[i]]
  PROVE  IsSeq(s) /\ Len(s) = n
<1> DEFINE S == {s[i] : i \in DOMAIN s}
<1>1. DOMAIN s = 1 .. n
  OBVIOUS
<1>2. s \in [1 .. n -> S]
  BY <1>1
<1> HIDE DEF S
<1>3. s \in Seq(S)
  BY <1>2
<1>4. Len(s) = n
  BY <1>1, <1>3, LenProperties
<1> QED  BY <1>3, <1>4 DEF IsSeq, S

LEMMA AppendedSeq ==
  ASSUME NEW s, IsSeq(s), NEW e
  PROVE  /\ IsSeq(Append(s, e)) /\ Len(Append(s, e)) = Len(s) + 1
         /\ Append(s, e)[Len(s) + 1] = e
         /\ \A i \in 1 .. Len(s) : Append(s, e)[i] = s[i]
<1> DEFINE S == {s[i] : i \in DOMAIN s} \cup {e}
           t == Append(s, e)
<1>1. s \in Seq(S)
  <2>1. s \in Seq({s[i] : i \in DOMAIN s})
    BY DEF IsSeq
  <2>2. {s[i] : i \in DOMAIN s} \in SUBSET S
    OBVIOUS
  <2> HIDE DEF S
  <2>3. PICK T : T = {s[i] : i \in DOMAIN s}
    OBVIOUS
  <2> QED  BY <2>1, <2>2, <2>3
<1>2. e \in S
  OBVIOUS
<1> HIDE DEF S
<1>3. /\ t \in Seq(S) /\ Len(t) = Len(s) + 1 /\ t[Len(s) + 1] = e
      /\ \A i \in 1 .. Len(s) : t[i] = s[i]
  BY <1>1, <1>2, AppendProperties
<1>4. Len(s) + 1 \in Nat /\ t = [i \in 1 .. Len(s) + 1 |-> t[i]]
  BY <1>1, <1>3, LenProperties
<1> HIDE DEF t
<1>5. IsSeq(t)
  BY <1>4, FunctionIsSeq
<1> QED  BY <1>3, <1>5 DEF t

With(s, i, e) == [s EXCEPT ![i] = e]

LEMMA ReplacedInSeq ==
  ASSUME NEW s, IsSeq(s), NEW i \in 1 .. Len(s), NEW e, NEW t, t = With(s, i, e)
  PROVE  /\ IsSeq(t) /\ Len(t) = Len(s) /\ t[i] = e
         /\ \A j \in 1 .. Len(s) : j # i => t[j] = s[j]
<1>1. Len(s) \in Nat /\ DOMAIN s = 1 .. Len(s)
  BY SeqHas
<1>2. t = [j \in 1 .. Len(s) |-> t[j]] /\ t[i] = e /\ \A j \in 1 .. Len(s) : j # i => t[j] = s[j]
  BY <1>1 DEF With
<1>3. IsSeq(t) /\ Len(t) = Len(s)
  BY <1>1, <1>2, FunctionIsSeq
<1> QED  BY <1>2, <1>3

\* The headers and the elements of the arrays ad are one behind the other, below h.
Spaced(ad, sh, h) ==
  /\ h \in 0 .. MemWords
  /\ IsSeq(ad) /\ IsSeq(sh) /\ Len(ad) = Len(sh)
  /\ \A i \in 1 .. Len(ad) :
       /\ ad[i] \in Nat /\ IsSeq(sh[i])
       /\ ad[i] + 3 + Len(sh[i]) <= h
       /\ \A j \in 1 .. Len(ad) : i < j => ad[i] + 3 + Len(sh[i]) <= ad[j]

\* Every array knows its length.
Counted(m, ad, sh) ==
  \A i \in 1 .. Len(ad) : m[ad[i] + 1].kind # "cards" /\ m[ad[i] + 1].v = Len(sh[i])

Headers(m, ad, sh, h) == Memory(m) /\ Spaced(ad, sh, h) /\ Counted(m, ad, sh)

Words(n) == mutArrPtrsCardWords(n)

TableEnd(a, n) == a + 3 + n + Words(n)

\* The cards of an array of length n, with those of the marked elements set.
TableAt(m, a, n, marked) ==
  /\ marked \in SUBSET (0 .. n - 1)
  /\ \A w \in a + 3 + n .. TableEnd(a, n) - 1 : CardsAt(m[w])
  /\ \A k \in marked :
       m[a + 3 + n + (mutArrPtrCardDown(k) \div WordBytes)].v[mutArrPtrCardDown(k) % WordBytes] = 1

ArrayAt(m, a, xs, marked) ==
  /\ IntactIn(m, a, xs)
  /\ m[a + 2] = number(Len(xs) + Words(Len(xs)))
  /\ TableAt(m, a, Len(xs), marked)

\* Until a collection, the card tables too are between the arrays, and behind them
\* no word was written.
Undisturbed(m, ad, sh, ch, h) ==
  /\ IsSeq(ch) /\ Len(ch) = Len(ad)
  /\ \A i \in 1 .. Len(ad) :
       /\ TableEnd(ad[i], Len(sh[i])) <= h
       /\ \A j \in 1 .. Len(ad) : i < j => TableEnd(ad[i], Len(sh[i])) <= ad[j]
       /\ ArrayAt(m, ad[i], sh[i], ch[i])
  /\ \A w \in h .. MemWords - 1 : m[w] = Fresh

ArraysInv ==
  /\ arrCollections \in Nat
  /\ Headers(arrMem, arrays, shadow, hp)
  /\ arrCollections = 0 => Undisturbed(arrMem, arrays, shadow, changed, hp)

\* What is written elsewhere leaves an array as it is.
LEMMA SameArray ==
  ASSUME NEW m, NEW m2, NEW a \in Nat, NEW xs, IsSeq(xs), NEW marked,
         ArrayAt(m, a, xs, marked),
         \A w \in a .. TableEnd(a, Len(xs)) - 1 : m2[w] = m[w]
  PROVE  ArrayAt(m2, a, xs, marked)
<1>1. PICK n \in Nat : n = Len(xs)
  BY SeqHas
<1>2. PICK cw \in Nat : cw = Words(n)
  BY CardSizes DEF Words
<1>3. \A w \in a .. a + 3 + n + cw - 1 : m2[w] = m[w]
  BY SMTT(30), <1>1, <1>2 DEF TableEnd
<1>4. a \in a .. a + 3 + n + cw - 1 /\ a + 1 \in a .. a + 3 + n + cw - 1 /\ a + 2 \in a .. a + 3 + n + cw - 1
  OBVIOUS
<1>5. IntactIn(m2, a, xs)
  <2>1. \A k \in 1 .. n : payload(a) + k - 1 \in a .. a + 3 + n + cw - 1
    BY DEF payload, SIZEOF_StgMutArrPtrs
  <2>2. IntactIn(m, a, xs)
    BY DEF ArrayAt
  <2> QED  BY <1>1, <1>3, <1>4, <2>1, <2>2 DEF IntactIn
<1>6. TableAt(m2, a, n, marked)
  <2>0. TableAt(m, a, n, marked)
    BY <1>1 DEF ArrayAt
  <2>1. \A w \in a + 3 + n .. TableEnd(a, n) - 1 : w \in a .. a + 3 + n + cw - 1
    BY <1>2 DEF TableEnd
  <2>2. ASSUME NEW k \in marked
        PROVE  a + 3 + n + (mutArrPtrCardDown(k) \div WordBytes) \in a .. a + 3 + n + cw - 1
    <3>1. k \in Nat /\ k < n
      BY <2>0 DEF TableAt
    <3>2. PICK x : x = mutArrPtrCardDown(k) \div WordBytes
      OBVIOUS
    <3>3. x \in Nat /\ x < cw
      BY <1>2, <3>1, <3>2, CardOfElement DEF Words
    <3> QED  BY <3>2, <3>3
  <2> QED  BY <1>3, <2>0, <2>1, <2>2 DEF TableAt
<1> QED  BY <1>1, <1>3, <1>4, <1>5, <1>6 DEF ArrayAt

\* Where the words of an array are: in the memory, and no others' words.
LEMMA ArrayPlace ==
  ASSUME NEW m, NEW ad, NEW sh, NEW ch, NEW h, Spaced(ad, sh, h), Undisturbed(m, ad, sh, ch, h),
         NEW i \in 1 .. Len(ad)
  PROVE  /\ ad[i] \in Nat /\ Len(sh[i]) \in Nat /\ Words(Len(sh[i])) \in Nat
         /\ TableEnd(ad[i], Len(sh[i])) \in Nat /\ TableEnd(ad[i], Len(sh[i])) <= h /\ h <= MemWords
         /\ MemWords \in Nat /\ h \in Nat
         /\ \A j \in 1 .. Len(ad) : j # i =>
              \A w \in ad[j] .. TableEnd(ad[j], Len(sh[j])) - 1 :
                w \notin ad[i] .. TableEnd(ad[i], Len(sh[i])) - 1
<1>1. MemWords \in Nat /\ h \in Nat /\ h <= MemWords /\ Len(ad) \in Nat
  BY ArraysAssumption, SeqHas DEF Spaced
<1>2. \A j \in 1 .. Len(ad) : /\ ad[j] \in Nat /\ Len(sh[j]) \in Nat
                              /\ TableEnd(ad[j], Len(sh[j])) \in Nat /\ Words(Len(sh[j])) \in Nat
  <2> TAKE j \in 1 .. Len(ad)
  <2>1. ad[j] \in Nat /\ Len(sh[j]) \in Nat
    BY SeqHas DEF Spaced
  <2>2. Words(Len(sh[j])) \in Nat
    BY <2>1, CardSizes DEF Words
  <2> QED  BY <2>1, <2>2 DEF TableEnd
<1>3. \A j, k \in 1 .. Len(ad) : /\ TableEnd(ad[j], Len(sh[j])) <= h
                                 /\ j < k => TableEnd(ad[j], Len(sh[j])) <= ad[k]
  BY DEF Undisturbed
<1>4. ASSUME NEW j \in 1 .. Len(ad), j # i, NEW w \in ad[j] .. TableEnd(ad[j], Len(sh[j])) - 1
      PROVE  w \notin ad[i] .. TableEnd(ad[i], Len(sh[i])) - 1
  <2>1. PICK ai \in Nat, ei \in Nat, aj \in Nat, ej \in Nat :
          ai = ad[i] /\ ei = TableEnd(ad[i], Len(sh[i])) /\ aj = ad[j] /\ ej = TableEnd(ad[j], Len(sh[j]))
    BY <1>2
  <2>2. (i < j => ei <= aj) /\ (j < i => ej <= ai)
    <3>1. i < j => TableEnd(ad[i], Len(sh[i])) <= ad[j]
      BY <1>3
    <3>2. j < i => TableEnd(ad[j], Len(sh[j])) <= ad[i]
      BY <1>3
    <3> QED  BY <2>1, <3>1, <3>2
  <2>3. i < j \/ j < i
    BY <1>1, <1>4
  <2>4. w \in aj .. ej - 1
    BY <1>4, <2>1
  <2>5. w \notin ai .. ei - 1
    BY <2>2, <2>3, <2>4
  <2> QED  BY <2>1, <2>5
<1> QED  BY <1>1, <1>2, <1>3, <1>4

\* No words but those of the array of length n at a differ.
SameOutside(m, m3, a, n) ==
  \A w \in 0 .. MemWords - 1 : w \notin a .. TableEnd(a, n) - 1 => m3[w] = m[w]

\* An array of length n at a, of which the elements K, their cards and the header are
\* written, and that has the elements xs afterwards instead of ys.
Writes(m, m3, a, n, K, ys, xs) ==
  /\ \A k \in 1 .. n : k - 1 \notin K => xs[k] = ys[k]
  /\ m3[a].kind = "info"
  /\ \A w \in 0 .. MemWords - 1 :
       \/ m3[w] = m[w] \/ w = a \/ w \in a + 3 + n .. TableEnd(a, n) - 1
       \/ \E k \in K : w = a + 3 + k
  /\ \A k \in K : m3[a + 3 + k] = element(xs[k + 1])
  /\ \A w \in a + 3 + n .. TableEnd(a, n) - 1 :
       /\ CardsAt(m3[w])
       /\ \A b \in 0 .. WordBytes - 1 : m[w].v[b] = 1 => m3[w].v[b] = 1
  /\ \A k \in K : m3[a + 3 + n + (mutArrPtrCardDown(k) \div WordBytes)]
                    .v[mutArrPtrCardDown(k) % WordBytes] = 1

\* An array with the elements K written and their cards set is the array with the new
\* elements, and no other words differ.
LEMMA WrittenArray ==
  ASSUME NEW m, NEW m3, NEW a \in Nat, NEW n \in Nat, NEW K \in SUBSET (0 .. n - 1),
         NEW ys, NEW xs, Len(ys) = n, Len(xs) = n, NEW marked,
         MemWords \in Nat, TableEnd(a, n) <= MemWords,
         Writes(m, m3, a, n, K, ys, xs), ArrayAt(m, a, ys, marked)
  PROVE  /\ ArrayAt(m3, a, xs, marked \cup K)
         /\ SameOutside(m, m3, a, n)
<1>2. PICK cw \in Nat : cw = Words(n) /\ TableEnd(a, n) = a + 3 + n + cw
  BY CardSizes DEF Words, TableEnd
<1>3. a + 3 + n + cw <= MemWords
  BY <1>2
<1>4. ASSUME NEW w \in 0 .. MemWords - 1, w # a, w \notin a + 3 + n .. a + 3 + n + cw - 1,
             \A k \in K : w # a + 3 + k
      PROVE  m3[w] = m[w]
  BY <1>2, <1>4 DEF Writes
<1>7. ASSUME NEW w \in 0 .. MemWords - 1, w \notin a .. TableEnd(a, n) - 1
      PROVE  m3[w] = m[w]
  <2>1. w \notin a .. a + 3 + n + cw - 1
    BY <1>2, <1>7
  <2>2. w # a /\ w \notin a + 3 + n .. a + 3 + n + cw - 1 /\ \A k \in 0 .. n - 1 : w # a + 3 + k
    BY <2>1
  <2> QED  BY <1>4, <2>2
<1>9. IntactIn(m, a, ys) /\ m[a + 2] = number(n + Words(n)) /\ TableAt(m, a, n, marked)
  BY DEF ArrayAt
<1>10. m3[a + 1] = m[a + 1] /\ m3[a + 2] = m[a + 2]
  <2>1. /\ a + 1 \in 0 .. MemWords - 1 /\ a + 2 \in 0 .. MemWords - 1
        /\ a + 1 # a /\ a + 1 \notin a + 3 + n .. a + 3 + n + cw - 1
        /\ a + 2 # a /\ a + 2 \notin a + 3 + n .. a + 3 + n + cw - 1
    BY <1>3
  <2>2. \A k \in 0 .. n - 1 : a + 1 # a + 3 + k /\ a + 2 # a + 3 + k
    OBVIOUS
  <2> QED  BY <1>4, <2>1, <2>2
<1>11. ASSUME NEW k \in 1 .. n
       PROVE  m3[payload(a) + k - 1] = element(xs[k])
  <2>0. PICK l \in 0 .. n - 1 : l = k - 1 /\ l + 1 = k
    OBVIOUS
  <2>1. payload(a) + k - 1 = a + 3 + l
    BY <2>0 DEF payload, SIZEOF_StgMutArrPtrs
  <2>2. CASE l \in K
    BY <2>0, <2>1, <2>2 DEF Writes
  <2>3. CASE l \notin K
    <3>1. PICK w \in 0 .. MemWords - 1 : w = a + 3 + l
      BY <1>3
    <3>2. w # a /\ w \notin a + 3 + n .. a + 3 + n + cw - 1
      BY <3>1
    <3>3. \A j \in 0 .. n - 1 : j # l => w # a + 3 + j
      BY <3>1
    <3>4. m3[w] = m[w]
      BY <1>4, <2>3, <3>2, <3>3
    <3>5. m[w] = element(ys[k])
      BY <1>9, <2>1, <3>1 DEF IntactIn
    <3>6. xs[k] = ys[k]
      BY <2>0, <2>3 DEF Writes
    <3> QED  BY <2>1, <3>1, <3>4, <3>5, <3>6
  <2> QED  BY <2>2, <2>3
<1>12. IntactIn(m3, a, xs)
  BY <1>9, <1>10, <1>11 DEF IntactIn, Writes
<1>13. TableAt(m3, a, n, marked \cup K)
  <2>1. marked \cup K \in SUBSET (0 .. n - 1)
    BY <1>9 DEF TableAt
  <2>2. ASSUME NEW k \in marked
        PROVE  m3[a + 3 + n + (mutArrPtrCardDown(k) \div WordBytes)]
                 .v[mutArrPtrCardDown(k) % WordBytes] = 1
    <3>1. k \in Nat /\ k < n
      BY <1>9 DEF TableAt
    <3>2. PICK x : x = mutArrPtrCardDown(k) \div WordBytes
      OBVIOUS
    <3>3. x \in Nat /\ x < cw /\ mutArrPtrCardDown(k) % WordBytes \in 0 .. WordBytes - 1
      BY <1>2, <3>1, <3>2, CardOfElement DEF Words
    <3>4. a + 3 + n + x \in a + 3 + n .. TableEnd(a, n) - 1
      BY <1>2, <3>3
    <3>5. m[a + 3 + n + x].v[mutArrPtrCardDown(k) % WordBytes] = 1
      BY <1>9, <3>2 DEF TableAt
    <3> QED  BY <3>2, <3>3, <3>4, <3>5 DEF Writes
  <2> QED  BY <2>1, <2>2 DEF TableAt, Writes
<1>14. ArrayAt(m3, a, xs, marked \cup K)
  BY <1>9, <1>10, <1>12, <1>13 DEF ArrayAt
<1> QED  BY <1>7, <1>14 DEF SameOutside

\* No other array changes.
LEMMA OneWritten ==
  ASSUME NEW m, NEW ad, NEW sh, NEW ch, NEW h, Spaced(ad, sh, h), Undisturbed(m, ad, sh, ch, h),
         NEW d \in 1 .. Len(ad), NEW n \in Nat, n = Len(sh[d]),
         NEW K \in SUBSET (0 .. n - 1), NEW xs, IsSeq(xs), Len(xs) = n,
         NEW m3, Writes(m, m3, ad[d], n, K, sh[d], xs)
  PROVE  Undisturbed(m3, ad, [sh EXCEPT ![d] = xs], [ch EXCEPT ![d] = @ \cup K], h)
<1> DEFINE sh3 == [sh EXCEPT ![d] = xs]
           ch3 == [ch EXCEPT ![d] = @ \cup K]
<1>1. /\ ad[d] \in Nat /\ TableEnd(ad[d], n) \in Nat /\ TableEnd(ad[d], n) <= h /\ h <= MemWords
      /\ MemWords \in Nat /\ h \in Nat
  BY ArrayPlace
<1>2. TableEnd(ad[d], n) <= MemWords
  BY <1>1
<1>3. /\ IsSeq(ch) /\ Len(ch) = Len(ad) /\ IsSeq(sh) /\ Len(sh) = Len(ad) /\ Len(ad) \in Nat
  BY SeqHas DEF Undisturbed, Spaced
<1>4. /\ IsSeq(ch3) /\ Len(ch3) = Len(ad) /\ ch3[d] = ch[d] \cup K /\ sh3[d] = xs
      /\ \A j \in 1 .. Len(ad) : j # d => ch3[j] = ch[j] /\ sh3[j] = sh[j]
  <2>1. PICK c, z, v : c = ch3 /\ z = sh3 /\ v = ch[d] \cup K /\ c = With(ch, d, v) /\ z = With(sh, d, xs)
    BY DEF With
  <2>2. d \in 1 .. Len(ch) /\ d \in 1 .. Len(sh) /\ IsSeq(ch) /\ IsSeq(sh)
    BY <1>3
  <2> HIDE DEF sh3, ch3
  <2>3. IsSeq(c) /\ Len(c) = Len(ch) /\ c[d] = v /\ \A j \in 1 .. Len(ch) : j # d => c[j] = ch[j]
    BY <2>1, <2>2, ReplacedInSeq
  <2>4. z[d] = xs /\ \A j \in 1 .. Len(sh) : j # d => z[j] = sh[j]
    BY <2>1, <2>2, ReplacedInSeq
  <2> QED  BY <1>3, <2>1, <2>3, <2>4
<1> HIDE DEF sh3, ch3
<1>5. \A j \in 1 .. Len(ad) : Len(sh3[j]) = Len(sh[j])
  BY <1>4
<1>6. \A i, j \in 1 .. Len(ad) : /\ TableEnd(ad[i], Len(sh3[i])) <= h
                                 /\ i < j => TableEnd(ad[i], Len(sh3[i])) <= ad[j]
  BY <1>5 DEF Undisturbed
<1>7. /\ ArrayAt(m3, ad[d], xs, ch[d] \cup K)
      /\ \A w \in 0 .. MemWords - 1 : w \notin ad[d] .. TableEnd(ad[d], n) - 1 => m3[w] = m[w]
  <2>1. ArrayAt(m, ad[d], sh[d], ch[d])
    BY DEF Undisturbed
  <2> PICK ys, marked : ys = sh[d] /\ marked = ch[d]
    OBVIOUS
  <2>2. PICK a \in Nat : a = ad[d] /\ ys = sh[d] /\ marked = ch[d]
    BY <1>1
  <2>3. /\ TableEnd(a, n) <= MemWords /\ Writes(m, m3, a, n, K, ys, xs) /\ Len(ys) = n
        /\ ArrayAt(m, a, ys, marked)
    BY <1>2, <2>1, <2>2
  <2>4. MemWords \in Nat
    BY <1>1
  <2>5. /\ ArrayAt(m3, a, xs, marked \cup K)
        /\ SameOutside(m, m3, a, n)
    BY <2>3, <2>4, WrittenArray
  <2> QED  BY <2>2, <2>5 DEF SameOutside
<1>8. ASSUME NEW j \in 1 .. Len(ad), j # d
      PROVE  ArrayAt(m3, ad[j], sh3[j], ch3[j])
  <2>1. /\ ad[j] \in Nat /\ TableEnd(ad[j], Len(sh[j])) \in Nat /\ TableEnd(ad[j], Len(sh[j])) <= h
    BY ArrayPlace
  <2>2. \A w \in ad[j] .. TableEnd(ad[j], Len(sh[j])) - 1 : w \notin ad[d] .. TableEnd(ad[d], n) - 1
    BY <1>8, ArrayPlace
  <2>3. \A w \in ad[j] .. TableEnd(ad[j], Len(sh[j])) - 1 : w \in 0 .. MemWords - 1
    BY <1>1, <2>1
  <2>4. ArrayAt(m, ad[j], sh[j], ch[j]) /\ IsSeq(sh[j])
    BY DEF Undisturbed, Spaced
  <2>5. \A w \in ad[j] .. TableEnd(ad[j], Len(sh[j])) - 1 : m3[w] = m[w]
    BY <1>7, <2>2, <2>3
  <2> QED  BY <1>4, <1>8, <2>1, <2>4, <2>5, SameArray
<1>10. \A w \in h .. MemWords - 1 : m3[w] = Fresh
  <2>1. \A w \in h .. MemWords - 1 : w \in 0 .. MemWords - 1 /\ w \notin ad[d] .. TableEnd(ad[d], n) - 1
    BY <1>1
  <2> QED  BY <1>7, <2>1 DEF Undisturbed
<1> QED  BY <1>4, <1>6, <1>7, <1>8, <1>10 DEF Undisturbed, sh3, ch3

\* Of the array of length n at a, no more than the header and the elements from one to
\* another differ.
ElementsOnly(m, m2, a, first, last) ==
  \A w \in 0 .. MemWords - 1 : m2[w] = m[w] \/ w = a \/ w \in a + 3 + first .. a + 3 + last

\* The lengths of the arrays stay where they are when an array is written, whatever bytes
\* are set with it.
LEMMA CountedKept ==
  ASSUME NEW m, NEW ad, NEW sh, NEW h, Spaced(ad, sh, h), Counted(m, ad, sh),
         NEW d \in 1 .. Len(ad), NEW m2, Memory(m2),
         ElementsOnly(m, m2, ad[d], 0, Len(sh[d]) - 1),
         NEW xs, IsSeq(xs), Len(xs) = Len(sh[d]), NEW sh2, sh2 = With(sh, d, xs),
         NEW a, NEW first, NEW count, NEW r, r = memset(m2, a, first, count)
  PROVE  Headers(r, ad, sh2, h)
<1>1. r = memset(m2, a, first, count)
  OBVIOUS
<1>2. sh2 = With(sh, d, xs)
  OBVIOUS
<1>3. /\ h \in 0 .. MemWords /\ MemWords \in Nat
      /\ IsSeq(ad) /\ IsSeq(sh) /\ Len(ad) = Len(sh) /\ Len(ad) \in Nat
      /\ \A i \in 1 .. Len(ad) :
           /\ ad[i] \in Nat /\ IsSeq(sh[i])
           /\ ad[i] + 3 + Len(sh[i]) <= h
           /\ \A j \in 1 .. Len(ad) : i < j => ad[i] + 3 + Len(sh[i]) <= ad[j]
  BY SeqHas, ArraysAssumption DEF Spaced
<1>4. /\ IsSeq(sh2) /\ Len(sh2) = Len(sh) /\ sh2[d] = xs
      /\ \A i \in 1 .. Len(ad) : i # d => sh2[i] = sh[i]
  <2>1. /\ IsSeq(sh2) /\ Len(sh2) = Len(sh) /\ sh2[d] = xs
        /\ \A i \in 1 .. Len(sh) : i # d => sh2[i] = sh[i]
    <3>1. IsSeq(sh) /\ d \in 1 .. Len(sh)
      BY <1>3
    <3> QED  BY <1>2, <3>1, ReplacedInSeq
  <2> QED  BY <1>3, <2>1
<1>5. \A i \in 1 .. Len(ad) : Len(sh2[i]) = Len(sh[i]) /\ Len(sh[i]) \in Nat /\ IsSeq(sh2[i])
  BY <1>3, <1>4, SeqHas
<1>6. Spaced(ad, sh2, h)
  BY <1>3, <1>4, <1>5 DEF Spaced
<1>7. ASSUME NEW i \in 1 .. Len(ad)
      PROVE  r[ad[i] + 1].kind # "cards" /\ r[ad[i] + 1].v = Len(sh2[i])
  <2>1. PICK ai \in Nat, ni \in Nat, e \in Nat, n \in Nat :
          ai = ad[i] /\ ni = Len(sh[i]) /\ e = ad[d] /\ n = Len(sh[d])
    BY <1>3, <1>5
  <2>2. /\ ai + 3 + ni <= MemWords
        /\ i < d => ai + 3 + ni <= e
        /\ d < i => e + 3 + n <= ai
        /\ i = d => e = ai
    BY SMTT(30), <1>3, <2>1
  <2>3. MemWords \in Nat /\ (i < d \/ d < i \/ i = d)
    BY <1>3
  <2>4. ai + 1 \in 0 .. MemWords - 1 /\ ai + 1 # e /\ ai + 1 \notin e + 3 + 0 .. e + 3 + (n - 1)
    BY <2>2, <2>3
  <2>5. m2[ai + 1] = m[ai + 1]
    BY <2>1, <2>4 DEF ElementsOnly
  <2>6. m[ai + 1].kind # "cards" /\ m[ai + 1].v = Len(sh[i])
    BY <2>1 DEF Counted
  <2>7. r[ai + 1].kind # "cards" /\ r[ai + 1].v = m2[ai + 1].v
    BY <1>1, <2>4, <2>5, <2>6, MemsetKeeps
  <2> QED  BY <1>5, <2>1, <2>5, <2>6, <2>7
<1>8. Counted(r, ad, sh2)
  BY <1>7 DEF Counted
<1>9. Memory(r)
  BY <1>1 DEF memset, Memory
<1> QED  BY <1>6, <1>8, <1>9 DEF Headers

CopyTo(m, ad, s, src_off, d, dst_off, n, move) ==
  LET dirty == [m EXCEPT ![ad[d]] = info("DIRTY")]
      to == payload(ad[d]) + dst_off
      from == payload(ad[s]) + src_off
  IN  IF move THEN memmove(dirty, to, from, n) ELSE memcpy(dirty, to, from, n)

\* The n elements from dst_off on of the array at e are those of the array at f.
Copied(m, r, e, dst_off, f, src_off, n) ==
  /\ Memory(r)
  /\ r[e] = info("DIRTY")
  /\ ElementsOnly(m, r, e, dst_off, dst_off + n - 1)
  /\ \A l \in 0 .. n - 1 : r[e + 3 + dst_off + l] = m[f + 3 + src_off + l]

\* Both ways of copying give the elements of the source, and change nothing but them and
\* the header.
LEMMA CopiedElements ==
  ASSUME NEW m, Memory(m), NEW ad, NEW sh, NEW h, Spaced(ad, sh, h),
         NEW s \in 1 .. Len(ad), NEW d \in 1 .. Len(ad),
         NEW src_off \in Nat, NEW dst_off \in Nat, NEW n \in Nat,
         src_off + n <= Len(sh[s]), dst_off + n <= Len(sh[d]),
         NEW move, move \/ s # d
  PROVE  Copied(m, CopyTo(m, ad, s, src_off, d, dst_off, n, move), ad[d], dst_off, ad[s], src_off, n)
<1>1. /\ h \in 0 .. MemWords /\ MemWords \in Nat /\ Len(ad) \in Nat
      /\ \A i \in 1 .. Len(ad) :
           /\ ad[i] \in Nat /\ Len(sh[i]) \in Nat
           /\ ad[i] + 3 + Len(sh[i]) <= h
           /\ \A j \in 1 .. Len(ad) : i < j => ad[i] + 3 + Len(sh[i]) <= ad[j]
  BY SeqHas, ArraysAssumption DEF Spaced
<1>2. PICK f \in Nat, ns \in Nat, e \in Nat, nd \in Nat :
        f = ad[s] /\ ns = Len(sh[s]) /\ e = ad[d] /\ nd = Len(sh[d])
  BY <1>1
<1>3. /\ f + 3 + ns <= MemWords /\ e + 3 + nd <= MemWords
      /\ s < d => f + 3 + ns <= e
      /\ d < s => e + 3 + nd <= f
      /\ s = d => e = f
      /\ s < d \/ d < s \/ s = d
      /\ src_off + n <= ns /\ dst_off + n <= nd
  <2>1. f + 3 + ns <= MemWords /\ e + 3 + nd <= MemWords
    <3>1. f + 3 + ns <= h /\ e + 3 + nd <= h
      BY <1>1, <1>2
    <3>2. h \in Nat /\ h <= MemWords /\ MemWords \in Nat
      BY <1>1
    <3> QED  BY <3>1, <3>2
  <2>2. s < d => f + 3 + ns <= e
    BY <1>1, <1>2
  <2>3. d < s => e + 3 + nd <= f
    BY <1>1, <1>2
  <2>4. s < d \/ d < s \/ s = d
    BY <1>1
  <2> QED  BY <1>2, <2>1, <2>2, <2>3, <2>4
<1>4. PICK to \in Nat, from \in Nat : to = e + 3 + dst_off /\ from = f + 3 + src_off
  BY <1>1
<1>5. PICK dirty : dirty = [m EXCEPT ![e] = info("DIRTY")]
  OBVIOUS
<1>6. /\ Memory(dirty) /\ dirty[e] = info("DIRTY")
      /\ \A w \in 0 .. MemWords - 1 : w # e => dirty[w] = m[w]
  <2>1. e \in 0 .. MemWords - 1
    BY <1>1, <1>3
  <2> QED  BY <1>5, <2>1 DEF Memory
<1>7. PICK r : r = CopyTo(m, ad, s, src_off, d, dst_off, n, move)
  OBVIOUS
<1>8. r = IF move THEN memmove(dirty, to, from, n) ELSE memcpy(dirty, to, from, n)
  BY <1>2, <1>4, <1>5, <1>7 DEF CopyTo, payload, SIZEOF_StgMutArrPtrs
<1>9. Memory(r)
  BY <1>6, <1>8 DEF memmove, memcpy, Memory
<1>10. ASSUME NEW w \in 0 .. MemWords - 1
       PROVE  r[w] = IF w \in to .. to + n - 1 THEN dirty[from + w - to] ELSE dirty[w]
  <2>1. CASE move
    <3>1. r = memmove(dirty, to, from, n)
      BY <1>8, <2>1
    <3> QED  BY <1>6, <3>1 DEF memmove, Memory
  <2>2. CASE ~move
    <3>1. r = memcpy(dirty, to, from, n)
      BY <1>8, <2>2
    <3>2. s # d
      BY <2>2
    <3>3. from + n <= to \/ to <= from
      BY <1>3, <1>4, <3>2
    <3>4. memcpy(dirty, to, from, n)[w] = IF w \in to .. to + n - 1 THEN dirty[from + w - to] ELSE dirty[w]
      BY <1>6, <3>3, MemcpyCopies
    <3> QED  BY <3>1, <3>4
  <2> QED  BY <2>1, <2>2
<1>11. r[e] = info("DIRTY")
  <2>1. e \in 0 .. MemWords - 1 /\ e \notin to .. to + n - 1
    BY <1>1, <1>3, <1>4
  <2> QED  BY <1>6, <1>10, <2>1
<1>12. ElementsOnly(m, r, e, dst_off, dst_off + n - 1)
  <2>1. \A w \in 0 .. MemWords - 1 : r[w] = m[w] \/ w = e \/ w \in to .. to + n - 1
    BY <1>6, <1>10
  <2>2. to .. to + n - 1 = e + 3 + dst_off .. e + 3 + (dst_off + n - 1)
    BY <1>4
  <2> QED  BY <2>1, <2>2 DEF ElementsOnly
<1>13. ASSUME NEW l \in 0 .. n - 1
       PROVE  r[to + l] = m[from + l]
  <2>1. to + l \in 0 .. MemWords - 1 /\ to + l \in to .. to + n - 1 /\ from + (to + l) - to = from + l
    BY <1>1, <1>3, <1>4
  <2>2. from + l \in 0 .. MemWords - 1 /\ from + l # e
    BY <1>1, <1>3, <1>4
  <2> QED  BY <1>6, <1>10, <2>1, <2>2
<1>14. Copied(m, r, e, dst_off, f, src_off, n)
  BY <1>4, <1>9, <1>11, <1>12, <1>13 DEF Copied
<1> QED  BY <1>2, <1>7, <1>14

\* The elements K of an array of length n at a are those of xs, the others stay those of ys.
Replaces(m, m2, a, n, K, ys, xs) ==
  /\ \A k \in 1 .. n : k - 1 \notin K => xs[k] = ys[k]
  /\ m2[a].kind = "info"
  /\ \A w \in 0 .. MemWords - 1 : m2[w] = m[w] \/ w = a \/ \E k \in K : w = a + 3 + k
  /\ \A k \in K : m2[a + 3 + k] = element(xs[k + 1])

\* The cards from first on are the cards of the elements K, and cards of the array of length n.
CardsOf(first, count, n, K) ==
  /\ first \in Nat /\ count \in Nat
  /\ first + count <= mutArrPtrCardUp(n)
  /\ \A k \in K : mutArrPtrCardDown(k) \in first .. first + count - 1

\* With the cards of the elements set, that is all that is written.
LEMMA CardsSet ==
  ASSUME NEW m, NEW m2, Memory(m2), MemWords \in Nat, NEW a \in Nat, NEW n \in Nat,
         NEW K \in SUBSET (0 .. n - 1), NEW ys, NEW xs, NEW marked, Len(ys) = n,
         ArrayAt(m, a, ys, marked), TableEnd(a, n) <= MemWords,
         Replaces(m, m2, a, n, K, ys, xs),
         NEW first, NEW count, CardsOf(first, count, n, K)
  PROVE  Writes(m, memset(m2, a + 3 + n, first, count), a, n, K, ys, xs)
<1>1. PICK r : r = memset(m2, a + 3 + n, first, count)
  OBVIOUS
<1>2. PICK u \in Nat : u = mutArrPtrCardUp(n)
  BY CardSizes
<1>3. PICK cw \in Nat : cw = Words(n) /\ cw = (u + WordBytes - 1) \div WordBytes
  BY <1>2, CardSizes DEF Words
<1>4. TableEnd(a, n) = a + 3 + n + cw /\ a + 3 + n + cw <= MemWords
  BY <1>3 DEF TableEnd
<1>5. PICK t \in Nat : t = a + 3 + n
  OBVIOUS
<1>6. /\ first \in Nat /\ count \in Nat /\ first + count <= u
      /\ \A k \in K : mutArrPtrCardDown(k) \in first .. first + count - 1
  BY <1>2 DEF CardsOf
<1>7. ASSUME NEW w \in 0 .. MemWords - 1
      PROVE  /\ w \notin t .. t + cw - 1 => r[w] = m2[w]
             /\ CardsAt(m2[w]) =>
                  /\ CardsAt(r[w])
                  /\ \A k \in 0 .. WordBytes - 1 : m2[w].v[k] = 1 => r[w].v[k] = 1
                  /\ \A c \in first .. first + count - 1 :
                       w = t + (c \div WordBytes) => r[w].v[c % WordBytes] = 1
  <2>1. r = memset(m2, t, first, count)
    BY <1>1, <1>5
  <2>2. AddsCards(m2, memset(m2, t, first, count), t, (u + WordBytes - 1) \div WordBytes, first, count)
    BY <1>6, MemsetCards
  <2>3. AddsCards(m2, r, t, cw, first, count)
    BY <1>3, <2>1, <2>2
  <2> QED  BY <2>3 DEF AddsCards
<1>8. ASSUME NEW w \in t .. t + cw - 1
      PROVE  w \in 0 .. MemWords - 1 /\ m2[w] = m[w] /\ CardsAt(m[w])
  <2>1. w \in 0 .. MemWords - 1 /\ w # a /\ \A k \in 0 .. n - 1 : w # a + 3 + k
    BY <1>4, <1>5
  <2>2. m2[w] = m[w]
    BY <2>1 DEF Replaces
  <2>3. CardsAt(m[w])
    <3>1. TableAt(m, a, n, marked)
      BY DEF ArrayAt
    <3>2. w \in a + 3 + n .. TableEnd(a, n) - 1
      BY <1>4, <1>5
    <3> QED  BY <3>1, <3>2 DEF TableAt
  <2> QED  BY <2>1, <2>2, <2>3
<1>9. r[a] = m2[a] /\ \A k \in K : r[a + 3 + k] = m2[a + 3 + k]
  <2>1. a \in 0 .. MemWords - 1 /\ a \notin t .. t + cw - 1
    BY <1>4, <1>5
  <2>2. \A k \in 0 .. n - 1 : a + 3 + k \in 0 .. MemWords - 1 /\ a + 3 + k \notin t .. t + cw - 1
    BY <1>4, <1>5
  <2> QED  BY <1>7, <2>1, <2>2
<1>10. ASSUME NEW w \in 0 .. MemWords - 1
       PROVE  \/ r[w] = m[w] \/ w = a \/ w \in a + 3 + n .. TableEnd(a, n) - 1
              \/ \E k \in K : w = a + 3 + k
  <2>1. CASE w \in t .. t + cw - 1
    BY <1>4, <1>5, <2>1
  <2>2. CASE w \notin t .. t + cw - 1
    <3>1. r[w] = m2[w]
      BY <1>7, <2>2
    <3> QED  BY <3>1 DEF Replaces
  <2> QED  BY <2>1, <2>2
<1>11. ASSUME NEW w \in a + 3 + n .. TableEnd(a, n) - 1
       PROVE  CardsAt(r[w]) /\ \A b \in 0 .. WordBytes - 1 : m[w].v[b] = 1 => r[w].v[b] = 1
  <2>1. w \in t .. t + cw - 1
    BY <1>4, <1>5
  <2> QED  BY <1>7, <1>8, <2>1
<1>12. ASSUME NEW k \in K
       PROVE  r[a + 3 + n + (mutArrPtrCardDown(k) \div WordBytes)].v[mutArrPtrCardDown(k) % WordBytes] = 1
  <2>1. PICK c : c = mutArrPtrCardDown(k)
    OBVIOUS
  <2>2. k \in Nat /\ k < n
    OBVIOUS
  <2>3. c \div WordBytes \in Nat /\ c \div WordBytes < cw
    BY <1>3, <2>1, <2>2, CardOfElement DEF Words
  <2>4. PICK w : w = t + (c \div WordBytes)
    OBVIOUS
  <2>5. w \in t .. t + cw - 1
    BY <2>3, <2>4
  <2>6. c \in first .. first + count - 1
    BY <1>6, <2>1
  <2>7. w \in 0 .. MemWords - 1 /\ CardsAt(m2[w])
    BY <1>8, <2>5
  <2>8. r[w].v[c % WordBytes] = 1
    BY <1>7, <2>4, <2>6, <2>7
  <2> QED  BY <1>5, <2>1, <2>4, <2>8
<1>13. Writes(m, r, a, n, K, ys, xs)
  BY <1>9, <1>10, <1>11, <1>12 DEF Writes, Replaces
<1> QED  BY <1>1, <1>13

\* The cards that setCards sets: those of the elements, and none behind the table.
LEMMA CardRange ==
  ASSUME NEW size \in Nat, size < MemWords, NEW off \in Nat, NEW n \in Nat \ {0}, off + n <= size,
         NEW count, count = Word(mutArrPtrCardDown(Word(off + n - 1)) - mutArrPtrCardDown(off) + 1)
  PROVE  CardsOf(mutArrPtrCardDown(off), count, size, off .. off + n - 1)
<1>0. MemWords \in Nat /\ C \in Nat \ {0}
  BY ArraysAssumption, CardSizes
<1>1. PICK last \in Nat : last = off + n - 1
  OBVIOUS
<1>2. Word(off + n - 1) = last
  BY <1>0, <1>1, NoWrap
<1>3. PICK p \in Nat : p = mutArrPtrCardDown(off)
  BY <1>0, DivMonotone DEF mutArrPtrCardDown, C
<1>4. PICK q \in Nat : q = mutArrPtrCardDown(last)
  BY <1>0, DivMonotone DEF mutArrPtrCardDown, C
<1>5. p <= q
  <2>1. off <= last
    BY <1>1
  <2> QED  BY <1>0, <1>3, <1>4, <2>1, DivMonotone DEF mutArrPtrCardDown, C
<1>6. PICK u \in Nat : u = mutArrPtrCardUp(size) /\ u <= size
  BY CardSizes
<1>7. q < u
  BY <1>1, <1>4, <1>6, CardOfElement
<1>8. count = q - p + 1
  <2>1. count = Word(q - p + 1)
    BY <1>2, <1>3, <1>4
  <2>2. q - p + 1 \in Nat /\ q - p + 1 < MemWords
    BY <1>0, <1>5, <1>6, <1>7
  <2> QED  BY <2>1, <2>2, NoWrap
<1>9. ASSUME NEW k \in off .. off + n - 1
      PROVE  mutArrPtrCardDown(k) \in p .. p + count - 1
  <2>1. k \in Nat /\ off <= k /\ k <= last
    BY <1>1
  <2>2. PICK c \in Nat : c = mutArrPtrCardDown(k)
    BY <1>0, <2>1, DivMonotone DEF mutArrPtrCardDown, C
  <2>3. p <= c
    BY <1>0, <1>3, <2>1, <2>2, DivMonotone DEF mutArrPtrCardDown, C
  <2>4. c <= q
    BY <1>0, <1>4, <2>1, <2>2, DivMonotone DEF mutArrPtrCardDown, C
  <2> QED  BY <1>8, <2>2, <2>3, <2>4
<1>10. count \in Nat /\ p + count <= u
  BY <1>5, <1>7, <1>8
<1> QED  BY <1>3, <1>6, <1>9, <1>10 DEF CardsOf

\* What the invariant says of an array.
LEMMA ArrayFacts ==
  ASSUME ArraysInv
  PROVE  /\ MemWords \in Nat /\ Memory(arrMem) /\ Len(arrays) \in Nat
         /\ DOMAIN arrays = 1 .. Len(arrays)
         /\ Spaced(arrays, shadow, hp) /\ Counted(arrMem, arrays, shadow)
         /\ IsSeq(arrays) /\ IsSeq(shadow) /\ Len(shadow) = Len(arrays)
         /\ \A i \in DOMAIN arrays :
              /\ i \in 1 .. Len(arrays) /\ i \in 1 .. Len(shadow)
              /\ arrays[i] \in Nat /\ IsSeq(shadow[i]) /\ Len(shadow[i]) \in Nat
              /\ arrays[i] + 3 + Len(shadow[i]) <= MemWords
              /\ arrMem[arrays[i] + 1].v = Len(shadow[i])
<1>1. /\ MemWords \in Nat /\ Memory(arrMem) /\ Spaced(arrays, shadow, hp) /\ Counted(arrMem, arrays, shadow)
  BY ArraysAssumption DEF ArraysInv, Headers
<1>2. /\ IsSeq(arrays) /\ IsSeq(shadow) /\ Len(arrays) = Len(shadow) /\ hp \in 0 .. MemWords
      /\ \A i \in 1 .. Len(arrays) :
           arrays[i] \in Nat /\ IsSeq(shadow[i]) /\ arrays[i] + 3 + Len(shadow[i]) <= hp
  BY <1>1 DEF Spaced
<1>3. Len(arrays) \in Nat /\ DOMAIN arrays = 1 .. Len(arrays)
  BY <1>2, SeqHas
<1>4. \A i \in 1 .. Len(arrays) : Len(shadow[i]) \in Nat
  BY <1>2, SeqHas
<1>5. ASSUME NEW i \in 1 .. Len(arrays)
      PROVE  arrays[i] + 3 + Len(shadow[i]) <= MemWords
  <2>1. PICK x \in Nat : x = arrays[i] + 3 + Len(shadow[i])
    BY <1>2, <1>4
  <2>2. x <= hp
    BY <1>2, <2>1
  <2> QED  BY <1>1, <1>2, <2>1, <2>2
<1>6. \A i \in 1 .. Len(arrays) : arrMem[arrays[i] + 1].v = Len(shadow[i])
  BY <1>1 DEF Counted
<1> QED  BY <1>1, <1>2, <1>3, <1>4, <1>5, <1>6

\* What setting count bytes from byte first of word a on makes of m2 is what replacing the
\* elements K of array d by those of xs makes of the memory.
Replacing(m2, d, n, K, xs, a, first, count) ==
  /\ Memory(m2) /\ ElementsOnly(arrMem, m2, arrays[d], 0, n - 1)
  /\ arrCollections = 0 =>
       /\ Replaces(arrMem, m2, arrays[d], n, K, shadow[d], xs)
       /\ a = arrays[d] + 3 + n /\ CardsOf(first, count, n, K)
       /\ changed' = [changed EXCEPT ![d] = @ \cup K]
  /\ arrMem' = memset(m2, a, first, count)
  /\ shadow' = [shadow EXCEPT ![d] = xs]
  /\ UNCHANGED <<hp, arrays, arrCollections>>

\* After bytes were set and elements replaced, the invariant is there again if the cards of
\* the elements were among the bytes.
LEMMA ReplaceKeeps ==
  ASSUME ArraysInv, NEW d \in DOMAIN arrays, NEW n \in Nat, n = Len(shadow[d]),
         NEW K \in SUBSET (0 .. n - 1), NEW xs, IsSeq(xs), Len(xs) = n,
         NEW m2, NEW a, NEW first, NEW count, Replacing(m2, d, n, K, xs, a, first, count)
  PROVE  ArraysInv'
<1>0. /\ arrMem' = memset(m2, a, first, count) /\ shadow' = [shadow EXCEPT ![d] = xs]
      /\ UNCHANGED <<hp, arrays, arrCollections>>
  BY DEF Replacing
<1> PICK ys : ys = shadow[d]
  OBVIOUS
<1>1. PICK e \in Nat : e = arrays[d] /\ ys = shadow[d] /\ Len(ys) = n
  BY ArrayFacts
<1>2. Memory(m2) /\ ElementsOnly(arrMem, m2, e, 0, n - 1)
  BY <1>1 DEF Replacing
<1>3. Headers(arrMem', arrays, shadow', hp)
  <2>1. d \in 1 .. Len(arrays) /\ Spaced(arrays, shadow, hp) /\ Counted(arrMem, arrays, shadow)
    BY ArrayFacts
  <2>2. ElementsOnly(arrMem, m2, arrays[d], 0, Len(shadow[d]) - 1) /\ Len(xs) = Len(shadow[d])
    BY <1>1, <1>2
  <2>3. PICK r, sh2 : r = arrMem' /\ sh2 = shadow'
    OBVIOUS
  <2>4. r = memset(m2, a, first, count) /\ sh2 = With(shadow, d, xs)
    BY <1>0, <2>3 DEF With
  <2>5. Headers(r, arrays, sh2, hp)
    BY <1>2, <2>1, <2>2, <2>4, CountedKept
  <2> QED  BY <2>3, <2>5
<1>4. ASSUME arrCollections = 0
      PROVE  Undisturbed(arrMem', arrays, shadow', changed', hp)
  <2>1. d \in 1 .. Len(arrays) /\ Spaced(arrays, shadow, hp) /\ MemWords \in Nat
    BY ArrayFacts
  <2>2. Undisturbed(arrMem, arrays, shadow, changed, hp)
    BY <1>4 DEF ArraysInv
  <2>3. ArrayAt(arrMem, arrays[d], shadow[d], changed[d])
    BY <2>1, <2>2 DEF Undisturbed
  <2>4. TableEnd(e, n) <= MemWords
    <3>1. /\ TableEnd(arrays[d], Len(shadow[d])) \in Nat /\ hp \in Nat
          /\ TableEnd(arrays[d], Len(shadow[d])) <= hp /\ hp <= MemWords
      BY <2>1, <2>2, ArrayPlace
    <3> QED  BY <1>1, <2>1, <3>1
  <2>5. PICK marked : marked = changed[d]
    OBVIOUS
  <2>6. ArrayAt(arrMem, e, ys, marked) /\ Replaces(arrMem, m2, e, n, K, ys, xs)
    BY <1>1, <1>4, <2>3, <2>5 DEF Replacing
  <2>7. a = e + 3 + n /\ CardsOf(first, count, n, K)
    BY <1>1, <1>4 DEF Replacing
  <2>8. Writes(arrMem, memset(m2, e + 3 + n, first, count), e, n, K, ys, xs)
    BY <1>1, <1>2, <2>1, <2>4, <2>6, <2>7, CardsSet
  <2>9. Writes(arrMem, arrMem', arrays[d], n, K, shadow[d], xs)
    BY <1>0, <1>1, <2>7, <2>8
  <2>10. Undisturbed(arrMem', arrays, [shadow EXCEPT ![d] = xs], [changed EXCEPT ![d] = @ \cup K], hp)
    BY <2>1, <2>2, <2>9, OneWritten
  <2> QED  BY <1>0, <1>4, <2>10 DEF Replacing
<1> QED  BY <1>0, <1>3, <1>4 DEF ArraysInv

\* copyArray and copyMutableArray keep the invariant; memcpy needs two arrays.
LEMMA CopyStep ==
  ASSUME ArraysInv, NEW s \in DOMAIN arrays, NEW d \in DOMAIN arrays,
         NEW src_off \in Nat, NEW dst_off \in Nat, NEW n \in Nat,
         InBounds(s, src_off, n), InBounds(d, dst_off, n),
         NEW move, move \/ s # d, copy(s, src_off, d, dst_off, n, move)
  PROVE  ArraysInv'
<1> DEFINE r == CopyTo(arrMem, arrays, s, src_off, d, dst_off, n, move)
           K == dst_off .. dst_off + n - 1
           xs == [k \in 1 .. Len(shadow[d]) |->
                    IF k - 1 \in K THEN shadow[s][k - dst_off + src_off] ELSE shadow[d][k]]
<1>1. /\ MemWords \in Nat /\ s \in 1 .. Len(arrays) /\ d \in 1 .. Len(arrays)
      /\ src_off + n <= Len(shadow[s]) /\ dst_off + n <= Len(shadow[d])
      /\ Memory(arrMem) /\ Spaced(arrays, shadow, hp)
  BY ArrayFacts DEF InBounds
<1>2. PICK e \in Nat, size \in Nat :
        /\ e = arrays[d] /\ size = Len(shadow[d]) /\ arrMem[e + 1].v = size
        /\ e + 3 + size <= MemWords
  BY ArrayFacts
<1>3. PICK f \in Nat, length \in Nat : f = arrays[s] /\ length = Len(shadow[s])
  BY ArrayFacts
<1>4. src_off + n <= length /\ dst_off + n <= size /\ n # 0
  BY <1>1, <1>2, <1>3 DEF copy
<1>5. /\ Memory(r) /\ r[e] = info("DIRTY")
      /\ ElementsOnly(arrMem, r, e, dst_off, dst_off + n - 1)
      /\ \A l \in 0 .. n - 1 : r[e + 3 + dst_off + l] = arrMem[f + 3 + src_off + l]
  <2>1. Copied(arrMem, r, arrays[d], dst_off, arrays[s], src_off, n)
    BY <1>1, CopiedElements
  <2> HIDE DEF r
  <2> QED  BY <1>2, <1>3, <2>1 DEF Copied
<1>6. /\ arrMem' = setCards(r, e, dst_off, n)
      /\ shadow' = [shadow EXCEPT ![d] = xs] /\ changed' = [changed EXCEPT ![d] = @ \cup K]
      /\ UNCHANGED <<hp, arrays, arrCollections>>
  BY <1>2 DEF copy, Written, CopyTo
<1>7. IsSeq(xs) /\ Len(xs) = size
  <2>1. xs = [k \in 1 .. size |-> xs[k]]
    BY <1>2
  <2> HIDE DEF xs
  <2> QED  BY <2>1, FunctionIsSeq
<1>8. K \in SUBSET (0 .. size - 1)
  BY <1>4
<1>9. r[e + 1].v = size
  <2> HIDE DEF r, xs, K
  <2>0. MemWords \in Nat /\ e + 3 + size <= MemWords
    BY <1>1, <1>2
  <2>1. e + 1 \in 0 .. MemWords - 1 /\ e + 1 # e /\ e + 1 \notin e + 3 + dst_off .. e + 3 + (dst_off + n - 1)
    BY <2>0
  <2> QED  BY <1>2, <1>5, <2>1 DEF ElementsOnly
<1>10. PICK count : count = Word(mutArrPtrCardDown(Word(dst_off + n - 1)) - mutArrPtrCardDown(dst_off) + 1)
  OBVIOUS
<1>11. arrMem' = memset(r, e + 3 + size, mutArrPtrCardDown(dst_off), count)
  <2> HIDE DEF r
  <2> QED  BY <1>6, <1>9, <1>10 DEF setCards, cards, payload, ptrs, SIZEOF_StgMutArrPtrs
<1>12. PICK first : first = mutArrPtrCardDown(dst_off)
  OBVIOUS
<1>13. CardsOf(first, count, size, K)
  <2>1. size < MemWords /\ n \in Nat \ {0} /\ dst_off + n <= size
    <3>1. MemWords \in Nat
      BY <1>1
    <3> HIDE DEF r, xs, K
    <3> QED  BY <1>2, <1>4, <3>1
  <2>2. CardsOf(mutArrPtrCardDown(dst_off), count, size, dst_off .. dst_off + n - 1)
    <3> HIDE DEF r, xs, K
    <3> QED  BY <1>10, <2>1, CardRange
  <2> HIDE DEF r, xs
  <2> QED  BY <1>12, <2>2
<1>14. ASSUME arrCollections = 0
       PROVE  \A k \in K : r[e + 3 + k] = element(xs[k + 1])
  <2>1. TAKE k \in K
  <2>2. PICK l \in 0 .. n - 1 : l = k - dst_off /\ k = dst_off + l
    BY <1>4
  <2>3. r[e + 3 + k] = arrMem[f + 3 + src_off + l]
    <3>1. e + 3 + k = e + 3 + dst_off + l
      BY <2>2
    <3> HIDE DEF r
    <3> QED  BY <1>5, <3>1
  <2>4. IntactIn(arrMem, f, shadow[s])
    BY <1>1, <1>3, <1>14 DEF ArraysInv, Undisturbed, ArrayAt
  <2>5. PICK j \in 1 .. length : j = src_off + l + 1
    BY <1>4
  <2>6. arrMem[payload(f) + j - 1] = element(shadow[s][j])
    BY <1>3, <2>4, <2>5 DEF IntactIn
  <2>7. payload(f) + j - 1 = f + 3 + src_off + l
    BY <2>5 DEF payload, SIZEOF_StgMutArrPtrs
  <2>8. xs[k + 1] = shadow[s][j]
    <3>1. k + 1 \in 1 .. size /\ k + 1 - 1 = k /\ k + 1 - dst_off + src_off = j
      BY <1>8, <2>2, <2>5
    <3>2. k + 1 \in 1 .. Len(shadow[d]) /\ k + 1 - 1 \in K
      BY <1>2, <3>1
    <3> QED  BY <3>1, <3>2
  <2> QED  BY <2>3, <2>6, <2>7, <2>8
<1>15. ASSUME arrCollections = 0
       PROVE  Replaces(arrMem, r, e, size, K, shadow[d], xs)
  <2>1. \A k \in 1 .. size : k - 1 \notin K => xs[k] = shadow[d][k]
    <3> HIDE DEF K
    <3> QED  BY <1>2
  <2>2. r[e].kind = "info"
    <3> HIDE DEF r
    <3> QED  BY <1>5 DEF info
  <2>3. ASSUME NEW w \in 0 .. MemWords - 1
        PROVE  r[w] = arrMem[w] \/ w = e \/ \E k \in K : w = e + 3 + k
    <3> HIDE DEF r
    <3>1. r[w] = arrMem[w] \/ w = e \/ w \in e + 3 + dst_off .. e + 3 + (dst_off + n - 1)
      BY <1>5 DEF ElementsOnly
    <3>2. CASE w \in e + 3 + dst_off .. e + 3 + (dst_off + n - 1)
      <4>1. w - e - 3 \in K /\ w = e + 3 + (w - e - 3)
        BY <1>1, <3>2
      <4> QED  BY <4>1
    <3> QED  BY <3>1, <3>2
  <2> HIDE DEF r, xs, K
  <2> QED  BY <1>14, <1>15, <2>1, <2>2, <2>3 DEF Replaces
<1>16. ElementsOnly(arrMem, r, e, 0, size - 1)
  <2>1. \A w : w \in e + 3 + dst_off .. e + 3 + (dst_off + n - 1) => w \in e + 3 + 0 .. e + 3 + (size - 1)
    BY <1>4
  <2> HIDE DEF r
  <2> QED  BY <1>5, <2>1 DEF ElementsOnly
<1> HIDE DEF r, xs, K
<1>17. PICK a : a = e + 3 + size
  OBVIOUS
<1>18. arrMem' = memset(r, a, first, count)
  BY <1>11, <1>12, <1>17
<1>19. Replacing(r, d, size, K, xs, a, first, count)
  BY <1>2, <1>5, <1>6, <1>13, <1>15, <1>16, <1>17, <1>18 DEF Replacing
<1> QED  BY <1>2, <1>7, <1>8, <1>19, ReplaceKeeps

\* casArray writes one element and sets its card.
LEMMA CasStep ==
  ASSUME ArraysInv, NEW i \in DOMAIN arrays, NEW ind \in Nat, NEW x, casArray(i, ind, x)
  PROVE  ArraysInv'
<1> PICK ys : ys = shadow[i]
  OBVIOUS
<1>1. PICK e \in Nat, n \in Nat :
        /\ e = arrays[i] /\ ys = shadow[i] /\ n = Len(shadow[i]) /\ arrMem[e + 1].v = n
        /\ e + 3 + n <= MemWords /\ IsSeq(ys) /\ n = Len(ys)
  BY ArrayFacts
<1>2. /\ MemWords \in Nat /\ Memory(arrMem) /\ Len(shadow) = Len(arrays) /\ IsSeq(shadow)
      /\ i \in 1 .. Len(shadow)
  BY ArrayFacts
<1>3. ind < n /\ ind + 1 \in 1 .. n
  BY <1>1 DEF casArray
<1>4. PICK xs : xs = [ys EXCEPT ![ind + 1] = x]
  OBVIOUS
<1>5. /\ IsSeq(xs) /\ Len(xs) = n /\ xs[ind + 1] = x
      /\ \A k \in 1 .. n : k # ind + 1 => xs[k] = ys[k]
  <2>1. IsSeq(ys) /\ ind + 1 \in 1 .. Len(ys)
    BY <1>1, <1>3
  <2>2. /\ IsSeq(xs) /\ Len(xs) = Len(ys) /\ xs[ind + 1] = x
        /\ \A k \in 1 .. Len(ys) : k # ind + 1 => xs[k] = ys[k]
    <3>1. xs = With(ys, ind + 1, x)
      BY <1>4 DEF With
    <3> QED  BY <2>1, <3>1, ReplacedInSeq
  <2> QED  BY <1>1, <1>4, <2>2
<1>6. PICK m2 : m2 = [arrMem EXCEPT ![e + 3 + ind] = element(x)]
  OBVIOUS
<1>7. PICK first : first = mutArrPtrCardDown(ind)
  OBVIOUS
<1>8. PICK a : a = e + 3 + n
  OBVIOUS
<1>9. /\ arrMem' = memset(m2, a, first, 1)
      /\ changed' = [changed EXCEPT ![i] = @ \cup {ind}]
      /\ UNCHANGED <<hp, arrays, arrCollections>>
  BY <1>1, <1>6, <1>7, <1>8
     DEF casArray, payload, cards, ptrs, SIZEOF_StgMutArrPtrs, mutArrPtrCardDown
<1>10. shadow' = [shadow EXCEPT ![i] = xs]
  BY <1>1, <1>4 DEF casArray
<1>11. PICK p \in 0 .. MemWords - 1 : p = e + 3 + ind
  <2>1. MemWords \in Nat /\ e + 3 + n <= MemWords /\ ind < n
    BY <1>1, <1>2, <1>3
  <2>2. e + 3 + ind \in 0 .. MemWords - 1
    BY <2>1
  <2> QED  BY <2>2
<1>12. /\ Memory(m2) /\ m2[p] = element(x)
       /\ \A w \in 0 .. MemWords - 1 : w # p => m2[w] = arrMem[w]
  BY <1>2, <1>6, <1>11 DEF Memory
<1>13. ElementsOnly(arrMem, m2, e, 0, n - 1)
  <2>1. p \in e + 3 + 0 .. e + 3 + (n - 1)
    BY <1>3, <1>11
  <2> QED  BY <1>12, <2>1 DEF ElementsOnly
<1>14. ASSUME arrCollections = 0
       PROVE  Replaces(arrMem, m2, e, n, {ind}, ys, xs) /\ CardsOf(first, 1, n, {ind})
  <2>1. \A k \in 1 .. n : k - 1 \notin {ind} => xs[k] = ys[k]
    BY <1>3, <1>5
  <2>2. m2[e].kind = "info"
    <3>1. arrMem[e].kind = "info"
      BY <1>1 DEF casArray, Mutable, info
    <3>2. e \in 0 .. MemWords - 1 /\ e # p
      BY SMTT(30), <1>1, <1>2, <1>11
    <3> QED  BY <1>12, <3>1, <3>2
  <2>3. \A w \in 0 .. MemWords - 1 : m2[w] = arrMem[w] \/ w = e \/ \E k \in {ind} : w = e + 3 + k
    BY <1>11, <1>12
  <2>4. \A k \in {ind} : m2[e + 3 + k] = element(xs[k + 1])
    BY <1>5, <1>11, <1>12
  <2>5. CardsOf(first, 1, n, {ind})
    <3>1. PICK u \in Nat : u = mutArrPtrCardUp(n)
      BY CardSizes
    <3>2. first \in Nat /\ first < u
      BY <1>3, <1>7, <3>1, CardOfElement
    <3>3. first + 1 <= u /\ first \in first .. first + 1 - 1
      BY <3>2
    <3> QED  BY <1>7, <3>1, <3>2, <3>3 DEF CardsOf
  <2> QED  BY <2>1, <2>2, <2>3, <2>4, <2>5 DEF Replaces
<1>15. PICK K \in SUBSET (0 .. n - 1) : K = {ind}
  <2>1. {ind} \in SUBSET (0 .. n - 1)
    BY <1>3
  <2> QED  BY <2>1
<1>16. changed' = [changed EXCEPT ![i] = @ \cup K]
  BY <1>9, <1>15
<1>17. Replacing(m2, i, n, K, xs, a, first, 1)
  BY <1>1, <1>8, <1>9, <1>10, <1>12, <1>13, <1>14, <1>15, <1>16 DEF Replacing
<1> QED  BY <1>1, <1>5, <1>17, ReplaceKeeps

\* No bytes.
LEMMA MemsetNothing ==
  ASSUME NEW m, Memory(m), NEW a
  PROVE  memset(m, a, 0, 0) = m
BY DEF memset, Memory

\* Freezing and thawing write the header and nothing else.
LEMMA HeaderStep ==
  ASSUME ArraysInv, NEW i \in DOMAIN arrays, NEW y, arrMem' = [arrMem EXCEPT ![arrays[i]] = info(y)],
         UNCHANGED <<hp, arrays, shadow, changed, arrCollections>>
  PROVE  ArraysInv'
<1> PICK ys : ys = shadow[i]
  OBVIOUS
<1>1. PICK e \in Nat, n \in Nat :
        /\ e = arrays[i] /\ ys = shadow[i] /\ n = Len(shadow[i])
        /\ e + 3 + n <= MemWords /\ IsSeq(ys) /\ n = Len(ys)
  BY ArrayFacts
<1>2. /\ MemWords \in Nat /\ Memory(arrMem) /\ Len(shadow) = Len(arrays) /\ IsSeq(shadow)
      /\ i \in 1 .. Len(shadow)
  BY ArrayFacts
<1>3. PICK m2 : m2 = [arrMem EXCEPT ![e] = info(y)]
  OBVIOUS
<1>4. e \in 0 .. MemWords - 1
  BY <1>1, <1>2
<1>5. /\ Memory(m2) /\ m2[e] = info(y)
      /\ \A w \in 0 .. MemWords - 1 : w # e => m2[w] = arrMem[w]
  BY <1>2, <1>3, <1>4 DEF Memory
<1>6. PICK a : a = e + 3 + n
  OBVIOUS
<1>7. PICK zero : zero = 0 /\ arrMem' = memset(m2, a, zero, zero)
  <2>1. memset(m2, a, 0, 0) = m2
    BY <1>5, MemsetNothing
  <2> QED  BY <1>1, <1>3, <2>1
<1>8. PICK K \in SUBSET (0 .. n - 1) : K = {}
  OBVIOUS
<1>9. shadow' = [shadow EXCEPT ![i] = ys]
  <2>1. shadow = [j \in 1 .. Len(shadow) |-> shadow[j]]
    BY <1>2, SeqHas
  <2> QED  BY <1>1, <2>1
<1>10. ASSUME arrCollections = 0
       PROVE  Replaces(arrMem, m2, e, n, K, ys, ys) /\ CardsOf(0, 0, n, K)
  <2>1. mutArrPtrCardUp(n) \in Nat
    BY CardSizes
  <2>2. CardsOf(0, 0, n, K)
    BY <1>8, <2>1 DEF CardsOf
  <2>3. Replaces(arrMem, m2, e, n, K, ys, ys)
    BY <1>5, <1>8 DEF Replaces, info
  <2> QED  BY <2>2, <2>3
<1>11. ElementsOnly(arrMem, m2, e, 0, n - 1)
  BY <1>5 DEF ElementsOnly
<1>12. ASSUME arrCollections = 0
       PROVE  changed' = [changed EXCEPT ![i] = @ \cup K]
  <2>1. IsSeq(changed)
    BY <1>12 DEF ArraysInv, Undisturbed
  <2>2. changed = [j \in 1 .. Len(changed) |-> changed[j]]
    BY <2>1, SeqHas
  <2> QED  BY <1>8, <2>2
<1>13. Replacing(m2, i, n, K, ys, a, zero, zero)
  BY <1>1, <1>5, <1>6, <1>7, <1>9, <1>10, <1>11, <1>12 DEF Replacing
<1> QED  BY <1>1, <1>13, ReplaceKeeps

\* A new array of length n, with the elements of xs, whose values the program knows as ys.
LEMMA AllocateStep ==
  ASSUME ArraysInv, NEW to, NEW n \in Nat, NEW xs, xs = [k \in 1 .. n |-> xs[k]],
         allocated(to, xs),
         arrCollections = 0 => \A k \in 1 .. n : xs[k] = element(xs[k].v)
  PROVE  ArraysInv'
<1>1. Len(xs) = n
  BY FunctionIsSeq
<1>2. PICK ys : ys = [k \in 1 .. n |-> xs[k].v]
  OBVIOUS
<1>3. IsSeq(ys) /\ Len(ys) = n /\ \A k \in 1 .. n : ys[k] = xs[k].v
  <2>1. ys = [k \in 1 .. n |-> ys[k]] /\ \A k \in 1 .. n : ys[k] = xs[k].v
    BY <1>2
  <2> QED  BY <2>1, FunctionIsSeq
<1>4. PICK cw \in Nat : cw = Words(n)
  BY CardSizes DEF Words
<1>5. /\ MemWords \in Nat /\ Memory(arrMem) /\ Spaced(arrays, shadow, hp) /\ Counted(arrMem, arrays, shadow)
      /\ IsSeq(arrays) /\ IsSeq(shadow) /\ Len(shadow) = Len(arrays) /\ Len(arrays) \in Nat
  BY ArrayFacts
<1>6. PICK a \in Nat : a = hp /\ a <= MemWords
  BY <1>5 DEF Spaced
<1>7. PICK e \in Nat : e = a + 3 + n + cw
  OBVIOUS
<1>8. PICK l \in Nat : l = Len(arrays)
  BY <1>5
<1>9. /\ e <= MemWords /\ hp' = e
      /\ arrMem' = [w \in DOMAIN arrMem |->
                      IF w = a THEN info(to)
                      ELSE IF w = a + 1 THEN number(n)
                      ELSE IF w = a + 2 THEN number(n + cw)
                      ELSE IF w \in a + 3 .. a + 3 + n - 1 THEN xs[w - (a + 3) + 1]
                      ELSE arrMem[w]]
      /\ arrays' = Append(arrays, a) /\ shadow' = Append(shadow, ys)
      /\ changed' = Append(changed, {}) /\ arrCollections' = arrCollections
  BY <1>1, <1>2, <1>4, <1>6, <1>7 DEF allocated, Words, payload, SIZEOF_StgMutArrPtrs
<1>10. /\ IsSeq(arrays') /\ Len(arrays') = l + 1 /\ arrays'[l + 1] = a
       /\ \A i \in 1 .. l : arrays'[i] = arrays[i]
  BY <1>5, <1>8, <1>9, AppendedSeq
<1>11. /\ IsSeq(shadow') /\ Len(shadow') = l + 1 /\ shadow'[l + 1] = ys
       /\ \A i \in 1 .. l : shadow'[i] = shadow[i]
  BY <1>5, <1>8, <1>9, AppendedSeq
<1>12. \A i \in 1 .. l + 1 : i \in 1 .. l \/ i = l + 1
  BY <1>8
<1>13. /\ DOMAIN arrMem' = 0 .. MemWords - 1 /\ Memory(arrMem')
       /\ arrMem'[a] = info(to) /\ arrMem'[a + 1] = number(n) /\ arrMem'[a + 2] = number(n + cw)
       /\ \A k \in 1 .. n : arrMem'[a + 3 + k - 1] = xs[k]
       /\ \A w \in 0 .. MemWords - 1 : w \notin a .. a + 3 + n - 1 => arrMem'[w] = arrMem[w]
  <2>1. DOMAIN arrMem = 0 .. MemWords - 1
    BY <1>5 DEF Memory
  <2>2. PICK m : m = arrMem'
    OBVIOUS
  <2>3. \A w \in 0 .. MemWords - 1 :
          m[w] = IF w = a THEN info(to)
                 ELSE IF w = a + 1 THEN number(n)
                 ELSE IF w = a + 2 THEN number(n + cw)
                 ELSE IF w \in a + 3 .. a + 3 + n - 1 THEN xs[w - (a + 3) + 1]
                 ELSE arrMem[w]
    BY <1>9, <2>1, <2>2
  <2>4. DOMAIN m = 0 .. MemWords - 1 /\ Memory(m)
    BY <1>9, <2>1, <2>2 DEF Memory
  <2>0. MemWords \in Nat /\ a + 3 + n + cw <= MemWords
    BY <1>5, <1>7, <1>9
  <2>5. a \in 0 .. MemWords - 1 /\ a + 1 \in 0 .. MemWords - 1 /\ a + 2 \in 0 .. MemWords - 1
    BY <2>0
  <2>6. m[a] = info(to) /\ m[a + 1] = number(n) /\ m[a + 2] = number(n + cw)
    <3>1. m[a] = info(to)
      BY <2>3, <2>5
    <3>2. m[a + 1] = number(n)
      <4>1. PICK w \in 0 .. MemWords - 1 : w = a + 1 /\ w # a
        BY <2>5
      <4> QED  BY <2>3, <4>1
    <3>3. m[a + 2] = number(n + cw)
      <4>1. PICK w \in 0 .. MemWords - 1 : w = a + 2 /\ w # a /\ w # a + 1
        BY <2>5
      <4> QED  BY <2>3, <4>1
    <3> QED  BY <3>1, <3>2, <3>3
  <2>7. ASSUME NEW k \in 1 .. n
        PROVE  m[a + 3 + k - 1] = xs[k]
    <3>1. PICK w \in 0 .. MemWords - 1 : w = a + 3 + k - 1
      BY <2>0
    <3>2. w # a /\ w # a + 1 /\ w # a + 2 /\ w \in a + 3 .. a + 3 + n - 1 /\ w - (a + 3) + 1 = k
      BY SMTT(30), <3>1
    <3>3. m[w] = xs[w - (a + 3) + 1]
      BY <2>3, <3>2
    <3> QED  BY <3>1, <3>2, <3>3
  <2>8. ASSUME NEW w \in 0 .. MemWords - 1, w \notin a .. a + 3 + n - 1
        PROVE  m[w] = arrMem[w]
    <3>1. w # a /\ w # a + 1 /\ w # a + 2 /\ w \notin a + 3 .. a + 3 + n - 1
      BY <2>8
    <3> QED  BY <2>3, <3>1
  <2> QED  BY <2>2, <2>4, <2>6, <2>7, <2>8
<1>14. PICK m, ad, sh, ch : m = arrMem' /\ ad = arrays' /\ sh = shadow' /\ ch = changed'
  OBVIOUS
<1>15. /\ IsSeq(ad) /\ Len(ad) = l + 1 /\ ad[l + 1] = a /\ \A i \in 1 .. l : ad[i] = arrays[i]
       /\ IsSeq(sh) /\ Len(sh) = l + 1 /\ sh[l + 1] = ys /\ \A i \in 1 .. l : sh[i] = shadow[i]
  BY <1>10, <1>11, <1>14
<1>16. /\ DOMAIN m = 0 .. MemWords - 1 /\ Memory(m)
       /\ m[a] = info(to) /\ m[a + 1] = number(n) /\ m[a + 2] = number(n + cw)
       /\ \A k \in 1 .. n : m[a + 3 + k - 1] = xs[k]
       /\ \A w \in 0 .. MemWords - 1 : w \notin a .. a + 3 + n - 1 => m[w] = arrMem[w]
  BY <1>13, <1>14
<1>17. ASSUME NEW i \in 1 .. l
       PROVE  /\ ad[i] \in Nat /\ IsSeq(sh[i]) /\ Len(sh[i]) \in Nat /\ ad[i] + 3 + Len(sh[i]) <= a
              /\ \A j \in 1 .. l : i < j => ad[i] + 3 + Len(sh[i]) <= ad[j]
  <2>1. /\ arrays[i] \in Nat /\ IsSeq(shadow[i]) /\ arrays[i] + 3 + Len(shadow[i]) <= a
        /\ \A j \in 1 .. l : i < j => arrays[i] + 3 + Len(shadow[i]) <= arrays[j]
    BY <1>5, <1>6, <1>8 DEF Spaced
  <2> QED  BY <1>15, <2>1, SeqHas
<1>18. a <= e /\ e <= MemWords /\ MemWords \in Nat /\ a + 3 + n <= e
  BY <1>5, <1>7, <1>9
<1>19. Spaced(ad, sh, e)
  <2>1. ASSUME NEW i \in 1 .. l + 1
        PROVE  /\ ad[i] \in Nat /\ IsSeq(sh[i]) /\ ad[i] + 3 + Len(sh[i]) <= e
               /\ \A j \in 1 .. l + 1 : i < j => ad[i] + 3 + Len(sh[i]) <= ad[j]
    <3>1. CASE i = l + 1
      <4>1. ad[i] = a /\ sh[i] = ys /\ Len(sh[i]) = n
        BY <1>3, <1>15, <3>1
      <4> QED  BY <1>3, <1>18, <3>1, <4>1
    <3>2. CASE i \in 1 .. l
      <4>1. /\ ad[i] \in Nat /\ IsSeq(sh[i]) /\ Len(sh[i]) \in Nat /\ ad[i] + 3 + Len(sh[i]) <= a
            /\ \A j \in 1 .. l : i < j => ad[i] + 3 + Len(sh[i]) <= ad[j]
        BY <1>17, <3>2
      <4>2. \A j \in 1 .. l + 1 : j \in 1 .. l \/ ad[j] = a
        BY <1>12, <1>15
      <4>3. PICK x \in Nat : x = ad[i] + 3 + Len(sh[i]) /\ x <= a
        BY SMTT(30), <4>1
      <4>4. x <= e
        BY <1>18, <4>3
      <4>5. \A j \in 1 .. l + 1 : i < j => x <= ad[j]
        BY <4>1, <4>2, <4>3
      <4> QED  BY <4>1, <4>3, <4>4, <4>5
    <3> QED  BY <1>12, <3>1, <3>2
  <2>2. e \in 0 .. MemWords
    BY <1>18
  <2> QED  BY <1>15, <2>1, <2>2 DEF Spaced
<1>20. Counted(m, ad, sh)
  <2>1. ASSUME NEW i \in 1 .. l + 1
        PROVE  m[ad[i] + 1].kind # "cards" /\ m[ad[i] + 1].v = Len(sh[i])
    <3>1. CASE i = l + 1
      BY <1>3, <1>15, <1>16, <3>1 DEF number
    <3>2. CASE i \in 1 .. l
      <4>1. PICK x \in Nat : x = ad[i] /\ x + 3 <= a
        BY SMTT(30), <1>17, <3>2
      <4>5. x + 3 <= a /\ a <= MemWords /\ MemWords \in Nat
        BY <1>18, <4>1
      <4>2. x + 1 \in 0 .. MemWords - 1 /\ x + 1 \notin a .. a + 3 + n - 1
        BY ONLY <4>5, x \in Nat, a \in Nat, n \in Nat
      <4>3. m[x + 1] = arrMem[x + 1]
        BY <1>16, <4>2
      <4>4. arrMem[x + 1].kind # "cards" /\ arrMem[x + 1].v = Len(shadow[i])
        BY <1>5, <1>8, <1>15, <3>2, <4>1 DEF Counted
      <4> QED  BY <1>15, <3>2, <4>1, <4>3, <4>4
    <3> QED  BY <1>12, <3>1, <3>2
  <2> QED  BY <1>15, <2>1 DEF Counted
<1>21. Headers(arrMem', arrays', shadow', hp')
  BY <1>9, <1>14, <1>16, <1>19, <1>20 DEF Headers
<1>22. ASSUME arrCollections = 0
       PROVE  Undisturbed(m, ad, sh, ch, e)
  <2>1. Undisturbed(arrMem, arrays, shadow, changed, hp)
    BY <1>22 DEF ArraysInv
  <2>2. IsSeq(changed) /\ Len(changed) = l
    BY <1>8, <2>1 DEF Undisturbed
  <2>3. IsSeq(ch) /\ Len(ch) = l + 1 /\ ch[l + 1] = {} /\ \A i \in 1 .. l : ch[i] = changed[i]
    BY <1>9, <1>14, <2>2, AppendedSeq
  <2>4. ASSUME NEW i \in 1 .. l
        PROVE  /\ TableEnd(ad[i], Len(sh[i])) \in Nat /\ TableEnd(ad[i], Len(sh[i])) <= a
               /\ \A j \in 1 .. l : i < j => TableEnd(ad[i], Len(sh[i])) <= ad[j]
               /\ ArrayAt(m, ad[i], sh[i], ch[i])
    <3>1. /\ TableEnd(arrays[i], Len(shadow[i])) \in Nat /\ TableEnd(arrays[i], Len(shadow[i])) <= a
      BY <1>5, <1>6, <1>8, <2>1, ArrayPlace
    <3>2. /\ \A j \in 1 .. l : i < j => TableEnd(arrays[i], Len(shadow[i])) <= arrays[j]
          /\ ArrayAt(arrMem, arrays[i], shadow[i], changed[i])
      BY <1>8, <2>1 DEF Undisturbed
    <3>3. arrays[i] \in Nat /\ IsSeq(shadow[i])
      BY <1>5, <1>8 DEF Spaced
    <3>4. \A w \in arrays[i] .. TableEnd(arrays[i], Len(shadow[i])) - 1 : m[w] = arrMem[w]
      <4>1. \A w \in arrays[i] .. TableEnd(arrays[i], Len(shadow[i])) - 1 :
              w \in 0 .. MemWords - 1 /\ w \notin a .. a + 3 + n - 1
        BY SMTT(30), <1>18, <3>1, <3>3
      <4> QED  BY <1>16, <4>1
    <3>5. ArrayAt(m, arrays[i], shadow[i], changed[i])
      BY <3>2, <3>3, <3>4, SameArray
    <3> QED  BY <1>15, <2>3, <3>1, <3>2, <3>5
  <2>5. TableEnd(a, n) = e
    BY <1>4, <1>7 DEF TableEnd
  <2>6. ArrayAt(m, a, ys, {})
    <3>1. IntactIn(m, a, ys)
      <4>1. \A k \in 1 .. n : m[a + 3 + k - 1] = element(ys[k])
        BY <1>3, <1>16, <1>22
      <4>2. m[a].kind = "info"
        BY <1>16 DEF info
      <4> QED  BY <1>3, <1>16, <4>1, <4>2 DEF IntactIn, payload, SIZEOF_StgMutArrPtrs
    <3>2. \A w \in a + 3 + n .. e - 1 : CardsAt(m[w])
      <4>1. CardsAt(Fresh)
        <5>1. [k \in 0 .. WordBytes - 1 |-> 0] \in Bits
          BY DEF Bits
        <5> QED  BY <5>1 DEF CardsAt, Fresh
      <4>2. \A w \in hp .. MemWords - 1 : arrMem[w] = Fresh
        BY <2>1 DEF Undisturbed
      <4>3. \A w \in a + 3 + n .. e - 1 :
              w \in 0 .. MemWords - 1 /\ w \in a .. MemWords - 1 /\ w \notin a .. a + 3 + n - 1
        BY <1>18
      <4> QED  BY <1>6, <1>16, <4>1, <4>2, <4>3
    <3>3. TableAt(m, a, n, {})
      BY <2>5, <3>2 DEF TableAt
    <3> QED  BY <1>3, <1>4, <1>16, <3>1, <3>3 DEF ArrayAt
  <2>7. \A w \in e .. MemWords - 1 : m[w] = Fresh
    <3>1. \A w \in hp .. MemWords - 1 : arrMem[w] = Fresh
      BY <2>1 DEF Undisturbed
    <3>2. \A w \in e .. MemWords - 1 :
            w \in 0 .. MemWords - 1 /\ w \in a .. MemWords - 1 /\ w \notin a .. a + 3 + n - 1
      BY <1>18
    <3> QED  BY <1>6, <1>16, <3>1, <3>2
  <2>8. ASSUME NEW i \in 1 .. l + 1
        PROVE  /\ TableEnd(ad[i], Len(sh[i])) <= e
               /\ \A j \in 1 .. l + 1 : i < j => TableEnd(ad[i], Len(sh[i])) <= ad[j]
               /\ ArrayAt(m, ad[i], sh[i], ch[i])
    <3>1. CASE i = l + 1
      <4>1. TableEnd(ad[i], Len(sh[i])) = e /\ ArrayAt(m, ad[i], sh[i], ch[i])
        BY <1>3, <1>15, <2>3, <2>5, <2>6, <3>1
      <4> QED  BY <3>1, <4>1
    <3>2. CASE i \in 1 .. l
      <4>1. /\ TableEnd(ad[i], Len(sh[i])) \in Nat /\ TableEnd(ad[i], Len(sh[i])) <= a
            /\ \A j \in 1 .. l : i < j => TableEnd(ad[i], Len(sh[i])) <= ad[j]
            /\ ArrayAt(m, ad[i], sh[i], ch[i])
        BY <2>4, <3>2
      <4>2. \A j \in 1 .. l + 1 : j \in 1 .. l \/ ad[j] = a
        BY <1>12, <1>15
      <4> QED  BY <1>18, <4>1, <4>2
    <3> QED  BY <1>12, <3>1, <3>2
  <2> QED  BY <1>15, <2>3, <2>7, <2>8 DEF Undisturbed
<1>23. arrCollections' = 0 => Undisturbed(arrMem', arrays', shadow', changed', hp')
  BY <1>9, <1>14, <1>22
<1> QED  BY <1>9, <1>21, <1>23 DEF ArraysInv

(***************************************************************************)
(* A collection puts the arrays one behind the other.                      *)
(***************************************************************************)
RunsOn(f, l, st) == f = [i \in 1 .. l + 1 |-> IF i = 1 THEN 0 ELSE f[i - 1] + st[i - 1]]

\* There are such places: a recursive function on the numbers from 1 on exists, since the
\* least number it could not be continued to does not.
LEMMA PlacesExist ==
  ASSUME NEW l \in Nat, NEW st
  PROVE  \E f : RunsOn(f, l, st)
<1> DEFINE T == {k \in Nat : ~ \E f : RunsOn(f, k, st)}
<1>1. SUFFICES ASSUME T # {} PROVE FALSE
  OBVIOUS
<1>2. PICK k \in T : \A j \in T : ~(j < k)
  <2>1. T \in SUBSET Nat
    OBVIOUS
  <2> HIDE DEF T
  <2> QED  BY <1>1, <2>1, LeastNumber
<1>3. k \in Nat /\ ~ \E f : RunsOn(f, k, st)
  OBVIOUS
<1>4. k # 0
  <2>1. CASE k = 0
    <3> DEFINE f == [i \in 1 .. 1 |-> 0]
    <3>1. f = [i \in 1 .. 0 + 1 |-> IF i = 1 THEN 0 ELSE f[i - 1] + st[i - 1]]
      OBVIOUS
    <3> QED  BY <1>3, <2>1, <3>1 DEF RunsOn
  <2> QED  BY <2>1
<1>5. PICK g : RunsOn(g, k - 1, st)
  <2>1. k - 1 \in Nat /\ k - 1 < k
    BY <1>3, <1>4
  <2> QED  BY <1>2, <2>1
<1>6. PICK e : e = g[k] + st[k]
  OBVIOUS
<1> DEFINE f == [i \in 1 .. k + 1 |-> IF i = k + 1 THEN e ELSE g[i]]
<1>7. \A i \in 1 .. k : g[i] = IF i = 1 THEN 0 ELSE g[i - 1] + st[i - 1]
  <2>1. 1 .. (k - 1) + 1 = 1 .. k
    BY <1>3
  <2> QED  BY <1>5, <2>1 DEF RunsOn
<1>8. ASSUME NEW i \in 1 .. k + 1
      PROVE  f[i] = IF i = 1 THEN 0 ELSE f[i - 1] + st[i - 1]
  <2>1. CASE i = k + 1
    <3>1. f[i] = e /\ i # 1 /\ i - 1 = k /\ k \in 1 .. k + 1 /\ k # k + 1
      BY <1>3, <1>4, <2>1
    <3>2. f[k] = g[k]
      BY <3>1
    <3> QED  BY <1>6, <3>1, <3>2
  <2>2. CASE i # k + 1 /\ i # 1
    <3>1. i \in 1 .. k /\ i - 1 \in 1 .. k + 1 /\ i - 1 # k + 1
      BY <1>3, <2>2
    <3>2. f[i] = g[i] /\ f[i - 1] = g[i - 1]
      BY <2>2, <3>1
    <3> QED  BY <1>7, <2>2, <3>1, <3>2
  <2>3. CASE i # k + 1 /\ i = 1
    <3>1. i \in 1 .. k
      BY <1>3, <2>3
    <3> QED  BY <1>7, <2>3, <3>1
  <2> QED  BY <2>1, <2>2, <2>3
<1>9. RunsOn(f, k, st)
  <2>1. f = [i \in 1 .. k + 1 |-> f[i]]
    OBVIOUS
  <2> HIDE DEF f
  <2> QED  BY <1>8, <2>1 DEF RunsOn
<1> QED  BY <1>3, <1>9

\* Each array has a place before the next one's, and none is moved up.
LEMMA PlacesOrdered ==
  ASSUME NEW l \in Nat, NEW st, NEW f, RunsOn(f, l, st),
         NEW ad, NEW h \in Nat,
         \A i \in 1 .. l : /\ ad[i] \in Nat /\ st[i] \in Nat /\ ad[i] + st[i] <= h
                           /\ \A j \in 1 .. l : i < j => ad[i] + st[i] <= ad[j]
  PROVE  /\ \A i \in 1 .. l + 1 : f[i] \in Nat /\ f[i] <= h
         /\ \A i \in 1 .. l : f[i + 1] = f[i] + st[i]
         /\ \A i \in 1 .. l, j \in 1 .. l + 1 : i < j => f[i] + st[i] <= f[j]
<1>1. /\ f[1] = 0
      /\ \A i \in 1 .. l + 1 : i # 1 => f[i] = f[i - 1] + st[i - 1]
  <2>1. 1 \in 1 .. l + 1
    OBVIOUS
  <2> QED  BY <2>1 DEF RunsOn
<1>2. \A i \in 1 .. l + 1 : /\ f[i] \in Nat /\ f[i] <= h
                            /\ i \in 1 .. l => f[i] <= ad[i]
  <2> DEFINE P(i) == /\ f[i] \in Nat /\ f[i] <= h
                     /\ i \in 1 .. l => f[i] <= ad[i]
             T == {i \in 1 .. l + 1 : ~P(i)}
  <2>1. SUFFICES ASSUME T # {} PROVE FALSE
    OBVIOUS
  <2>2. PICK k \in T : \A j \in T : ~(j < k)
    <3>1. T \in SUBSET Nat
      OBVIOUS
    <3> HIDE DEF T
    <3> QED  BY <2>1, <3>1, LeastNumber
  <2>3. k \in 1 .. l + 1 /\ ~P(k)
    OBVIOUS
  <2>4. k # 1
    BY <1>1, <2>3
  <2>5. k - 1 \in 1 .. l /\ k - 1 \in 1 .. l + 1 /\ k - 1 < k
    BY <2>3, <2>4
  <2>6. P(k - 1)
    BY <2>2, <2>5
  <2>7. PICK x \in Nat, y \in Nat, z \in Nat :
          x = f[k - 1] /\ y = st[k - 1] /\ z = ad[k - 1] /\ x <= z /\ z + y <= h
          /\ (k \in 1 .. l => z + y <= ad[k])
    BY <2>5, <2>6
  <2>8. f[k] = x + y
    BY <1>1, <2>3, <2>4, <2>7
  <2>9. k \in 1 .. l => ad[k] \in Nat
    OBVIOUS
  <2> QED  BY <2>3, <2>7, <2>8, <2>9
<1>3. \A i \in 1 .. l : f[i + 1] = f[i] + st[i]
  <2>1. ASSUME NEW i \in 1 .. l PROVE f[i + 1] = f[i] + st[i]
    <3>1. PICK j \in 1 .. l + 1 : j = i + 1 /\ j # 1 /\ j - 1 = i
      OBVIOUS
    <3> QED  BY <1>1, <3>1
  <2> QED  BY <2>1
<1>4. ASSUME NEW i \in 1 .. l
      PROVE  \A j \in 1 .. l + 1 : i < j => f[i] + st[i] <= f[j]
  <2> DEFINE P(j) == i < j => f[i] + st[i] <= f[j]
             T == {j \in 1 .. l + 1 : ~P(j)}
  <2>1. SUFFICES ASSUME T # {} PROVE FALSE
    OBVIOUS
  <2>2. PICK k \in T : \A j \in T : ~(j < k)
    <3>1. T \in SUBSET Nat
      OBVIOUS
    <3> HIDE DEF T
    <3> QED  BY <2>1, <3>1, LeastNumber
  <2>3. k \in 1 .. l + 1 /\ ~P(k) /\ i < k
    OBVIOUS
  <2>4. k - 1 \in 1 .. l /\ k - 1 \in 1 .. l + 1 /\ k - 1 < k /\ k # 1
    BY <2>3
  <2>5. P(k - 1)
    BY <2>2, <2>4
  <2>6. PICK x \in Nat, y \in Nat, z \in Nat, u \in Nat :
          x = f[i] /\ y = st[i] /\ z = f[k - 1] /\ u = st[k - 1]
    BY <1>2, <2>4
  <2>7. f[k] = z + u
    BY <1>1, <2>3, <2>4, <2>6
  <2>8. CASE k - 1 = i
    BY <2>3, <2>6, <2>7, <2>8
  <2>9. CASE i < k - 1
    BY <2>3, <2>5, <2>6, <2>7, <2>9
  <2> QED  BY <2>3, <2>8, <2>9
<1> QED  BY <1>2, <1>3, <1>4

\* What a collection does: each array has a place of its own, with its header and elements.
MovedTo(m, m2, ad, ad2, sh) ==
  /\ IsSeq(ad2) /\ Len(ad2) = Len(ad)
  /\ \A i \in 1 .. Len(ad) : \A k \in 0 .. 2 + Len(sh[i]) : m2[ad2[i] + k] = m[ad[i] + k]

LEMMA MoveFacts ==
  ASSUME ArraysInv, moveArrays
  PROVE  /\ arrCollections' = arrCollections + 1 /\ shadow' = shadow
         /\ Memory(arrMem') /\ Spaced(arrays', shadow, hp')
         /\ MovedTo(arrMem, arrMem', arrays, arrays', shadow)
<1> DEFINE Is(g) == g = [i \in 1 .. Len(arrays) + 1 |->
                           IF i = 1 THEN 0 ELSE g[i - 1] + copiedWords(arrays[i - 1])]
           to == CHOOSE g : Is(g)
           words(i) == to[i] .. to[i + 1] - 1
           st == [i \in 1 .. Len(arrays) |-> copiedWords(arrays[i])]
<1>1. /\ MemWords \in Nat /\ DOMAIN arrMem = 0 .. MemWords - 1 /\ Len(arrays) \in Nat
      /\ DOMAIN arrays = 1 .. Len(arrays) /\ Spaced(arrays, shadow, hp)
      /\ hp \in 0 .. MemWords
  BY ArrayFacts DEF Memory, Spaced
<1>2. \A i \in 1 .. Len(arrays) :
        /\ arrays[i] \in Nat /\ IsSeq(shadow[i]) /\ Len(shadow[i]) \in Nat
        /\ arrays[i] + 3 + Len(shadow[i]) <= hp
        /\ \A j \in 1 .. Len(arrays) : i < j => arrays[i] + 3 + Len(shadow[i]) <= arrays[j]
        /\ st[i] = 3 + Len(shadow[i])
  <2>1. \A i \in 1 .. Len(arrays) : copiedWords(arrays[i]) = 3 + Len(shadow[i])
    BY ArrayFacts DEF copiedWords, ptrs, SIZEOF_StgMutArrPtrs
  <2>2. \A i \in 1 .. Len(arrays) : st[i] = 3 + Len(shadow[i])
    BY <2>1
  <2> HIDE DEF st
  <2> QED  BY <1>1, <2>2, ArrayFacts DEF Spaced
<1>3. /\ arrCollections' = arrCollections + 1 /\ shadow' = shadow
      /\ arrMem' = [w \in DOMAIN arrMem |->
                      IF \E i \in DOMAIN arrays : w \in words(i)
                      THEN LET i == CHOOSE j \in DOMAIN arrays : w \in words(j)
                           IN  arrMem[arrays[i] + w - to[i]]
                      ELSE Fresh]
      /\ hp' = to[Len(arrays) + 1] /\ arrays' = [i \in DOMAIN arrays |-> to[i]]
  BY DEF moveArrays
<1>4. RunsOn(to, Len(arrays), st)
  <2>1. PICK g : RunsOn(g, Len(arrays), st)
    <3> HIDE DEF st
    <3> QED  BY <1>1, PlacesExist
  <2>2. \A i \in 1 .. Len(arrays) + 1 : i # 1 => st[i - 1] = copiedWords(arrays[i - 1])
    <3>1. \A i \in 1 .. Len(arrays) + 1 : i # 1 => i - 1 \in 1 .. Len(arrays)
      BY <1>1
    <3> QED  BY <3>1
  <2>3. \A h : RunsOn(h, Len(arrays), st) <=> Is(h)
    <3> HIDE DEF st
    <3> QED  BY <2>2 DEF RunsOn
  <2>4. Is(g)
    <3> HIDE DEF Is
    <3> QED  BY <2>1, <2>3
  <2>5. Is(to)
    <3> HIDE DEF Is
    <3> QED  BY <2>4
  <2> HIDE DEF Is, to, st
  <2> QED  BY <2>3, <2>5
<1>5. PICK f, l : f = to /\ l = Len(arrays)
  OBVIOUS
<1> l \in Nat
  BY <1>1, <1>5
<1>6. PICK m2, ad2, n : m2 = arrMem' /\ ad2 = arrays' /\ n = [i \in 1 .. l |-> Len(shadow[i])]
  OBVIOUS
<1>7. \A i \in 1 .. l : n[i] \in Nat /\ n[i] = Len(shadow[i]) /\ st[i] = 3 + n[i]
  <2> HIDE DEF st
  <2> QED  BY <1>2, <1>5, <1>6
<1>8. /\ \A i \in 1 .. l + 1 : f[i] \in Nat /\ f[i] <= hp
      /\ \A i \in 1 .. l : f[i + 1] = f[i] + 3 + n[i]
      /\ \A i \in 1 .. l, j \in 1 .. l + 1 : i < j => f[i] + 3 + n[i] <= f[j]
  <2> HIDE DEF st, to
  <2>1. RunsOn(f, l, st)
    BY <1>4, <1>5
  <2>2. \A i \in 1 .. l : /\ arrays[i] \in Nat /\ st[i] \in Nat /\ arrays[i] + st[i] <= hp
                          /\ \A j \in 1 .. l : i < j => arrays[i] + st[i] <= arrays[j]
    <3>1. \A i \in 1 .. l : st[i] \in Nat /\ st[i] = 3 + Len(shadow[i])
      BY <1>7
    <3>2. \A i \in 1 .. l : /\ arrays[i] \in Nat /\ arrays[i] + 3 + Len(shadow[i]) <= hp
                            /\ Len(shadow[i]) \in Nat
                            /\ \A j \in 1 .. l : i < j => arrays[i] + 3 + Len(shadow[i]) <= arrays[j]
      BY <1>2, <1>5
    <3>3. ASSUME NEW i \in 1 .. l PROVE arrays[i] + st[i] = arrays[i] + 3 + Len(shadow[i])
      <4>1. PICK x \in Nat, y \in Nat : x = arrays[i] /\ y = Len(shadow[i])
        BY <3>2
      <4>2. st[i] = 3 + y
        BY <3>1, <4>1
      <4>3. x + (3 + y) = x + 3 + y
        OBVIOUS
      <4> QED  BY <4>1, <4>2, <4>3
    <3> QED  BY <3>1, <3>2, <3>3
  <2>3. hp \in Nat
    BY <1>1
  <2>4. /\ \A i \in 1 .. l + 1 : f[i] \in Nat /\ f[i] <= hp
        /\ \A i \in 1 .. l : f[i + 1] = f[i] + st[i]
        /\ \A i \in 1 .. l, j \in 1 .. l + 1 : i < j => f[i] + st[i] <= f[j]
    <3> HIDE <1>7, <1>2
    <3> QED  BY <2>1, <2>2, <2>3, PlacesOrdered
  <2>5. \A i \in 1 .. l : f[i] \in Nat
    <3>1. \A i \in 1 .. l : i \in 1 .. l + 1
      OBVIOUS
    <3> QED  BY <2>4, <3>1
  <2>6. ASSUME NEW i \in 1 .. l PROVE f[i] + st[i] = f[i] + 3 + n[i]
    <3>1. PICK x \in Nat, y \in Nat : x = f[i] /\ y = n[i]
      BY <1>7, <2>5
    <3>2. st[i] = 3 + y
      BY <1>7, <3>1
    <3>3. x + (3 + y) = x + 3 + y
      OBVIOUS
    <3> QED  BY <3>1, <3>2, <3>3
  <2> QED  BY <2>4, <2>6
<1>9. /\ hp' = f[l + 1] /\ ad2 = [i \in 1 .. l |-> f[i]]
      /\ \A w \in 0 .. MemWords - 1 : \A i \in 1 .. l :
           w \in f[i] .. f[i + 1] - 1 =>
             \E j \in 1 .. l : w \in f[j] .. f[j + 1] - 1 /\ m2[w] = arrMem[arrays[j] + w - f[j]]
  <2> HIDE DEF to
  <2>1. \A w \in 0 .. MemWords - 1 : 
          m2[w] = IF \E i \in 1 .. l : w \in f[i] .. f[i + 1] - 1
                  THEN LET i == CHOOSE j \in 1 .. l : w \in f[j] .. f[j + 1] - 1
                       IN  arrMem[arrays[i] + w - f[i]]
                  ELSE Fresh
    BY <1>1, <1>3, <1>5, <1>6
  <2>2. ASSUME NEW w \in 0 .. MemWords - 1, NEW i \in 1 .. l, w \in f[i] .. f[i + 1] - 1
        PROVE  \E j \in 1 .. l : w \in f[j] .. f[j + 1] - 1 /\ m2[w] = arrMem[arrays[j] + w - f[j]]
    <3> DEFINE j == CHOOSE x \in 1 .. l : w \in f[x] .. f[x + 1] - 1
    <3>1. j \in 1 .. l /\ w \in f[j] .. f[j + 1] - 1
      BY <2>2
    <3>2. m2[w] = arrMem[arrays[j] + w - f[j]]
      BY <2>1, <2>2
    <3> QED  BY <3>1, <3>2
  <2>3. hp' = f[l + 1] /\ ad2 = [i \in 1 .. l |-> f[i]]
    BY <1>1, <1>3, <1>5, <1>6
  <2> QED  BY <2>2, <2>3
<1>10. Memory(m2)
  <2> HIDE DEF to, words
  <2>1. DOMAIN arrMem' = DOMAIN arrMem /\ arrMem' = [w \in DOMAIN arrMem |-> arrMem'[w]]
    BY <1>3
  <2> QED  BY <1>1, <1>6, <2>1 DEF Memory
<1>11. IsSeq(ad2) /\ Len(ad2) = l /\ \A i \in 1 .. l : ad2[i] = f[i]
  <2>1. ad2 = [i \in 1 .. l |-> ad2[i]] /\ \A i \in 1 .. l : ad2[i] = f[i]
    BY <1>9
  <2> QED  BY <2>1, FunctionIsSeq
<1>12. \A i \in 1 .. l : i \in 1 .. l + 1
  OBVIOUS
<1>13. ASSUME NEW i \in 1 .. l, NEW k \in 0 .. 2 + n[i]
       PROVE  m2[ad2[i] + k] = arrMem[arrays[i] + k]
  <2>1. PICK x \in Nat, y \in Nat : x = f[i] /\ y = n[i] /\ x + 3 + y <= hp
    <3>1. i < l + 1 /\ l + 1 \in 1 .. l + 1 /\ f[i] + 3 + n[i] <= f[l + 1] /\ f[l + 1] <= hp
      BY <1>8
    <3>2. f[i] \in Nat /\ f[l + 1] \in Nat /\ n[i] \in Nat
      BY <1>7, <1>8, <1>12, <3>1
    <3>3. hp \in Nat
      BY <1>1
    <3> QED  BY <3>1, <3>2, <3>3
  <2>2. PICK w : w = x + k
    OBVIOUS
  <2>3. hp \in Nat /\ hp <= MemWords /\ k \in Nat /\ k <= 2 + y
    BY <1>1, <2>1
  <2>40. MemWords \in Nat
    BY <1>1
  <2>4. w \in 0 .. MemWords - 1 /\ w \in x .. x + 3 + y - 1
    BY ONLY <2>1, <2>2, <2>3, <2>40, x \in Nat, y \in Nat
  <2>5. f[i + 1] = x + 3 + y
    BY <1>8, <2>1
  <2>6. PICK j \in 1 .. l : w \in f[j] .. f[j + 1] - 1 /\ m2[w] = arrMem[arrays[j] + w - f[j]]
    <3>1. w \in f[i] .. f[i + 1] - 1 /\ w \in 0 .. MemWords - 1
      BY <2>1, <2>4, <2>5
    <3> QED  BY <1>9, <3>1
  <2>7. PICK u \in Nat, v \in Nat : u = f[j] /\ v = n[j] /\ f[j + 1] = u + 3 + v
    BY <1>7, <1>8, <1>12
  <2>8. ~(i < j)
    <3>1. i < j => x + 3 + y <= u
      BY <1>8, <1>12, <2>1, <2>7
    <3> QED  BY <2>4, <2>6, <2>7, <3>1
  <2>9. ~(j < i)
    <3>1. j < i => u + 3 + v <= x
      BY <1>8, <1>12, <2>1, <2>7
    <3> QED  BY <2>4, <2>6, <2>7, <3>1
  <2>10. j = i
    BY <2>8, <2>9
  <2>11. arrays[i] \in Nat /\ arrays[i] + w - x = arrays[i] + k
    <3>1. arrays[i] \in Nat
      BY <1>2, <1>5
    <3> QED  BY <2>2, <2>3, <3>1
  <2> QED  BY <1>11, <2>1, <2>2, <2>6, <2>10, <2>11
<1>14. Spaced(ad2, shadow, hp')
  <2>1. IsSeq(shadow) /\ Len(shadow) = l
    BY <1>1, <1>5 DEF Spaced
  <2>2. f[l + 1] \in 0 .. MemWords
    <3>1. l + 1 \in 1 .. l + 1
      OBVIOUS
    <3>2. f[l + 1] \in Nat /\ f[l + 1] <= hp
      BY <1>8, <3>1
    <3> QED  BY <1>1, <3>2
  <2>3. ASSUME NEW i \in 1 .. l
        PROVE  /\ ad2[i] \in Nat /\ IsSeq(shadow[i])
               /\ ad2[i] + 3 + Len(shadow[i]) <= f[l + 1]
               /\ \A j \in 1 .. l : i < j => ad2[i] + 3 + Len(shadow[i]) <= ad2[j]
    <3>1. i < l + 1 /\ l + 1 \in 1 .. l + 1
      OBVIOUS
    <3>2. f[i] \in Nat /\ IsSeq(shadow[i]) /\ ad2[i] = f[i] /\ n[i] = Len(shadow[i])
      BY <1>2, <1>5, <1>7, <1>8, <1>11, <1>12
    <3>3. f[i] + 3 + n[i] <= f[l + 1]
      BY <1>8, <3>1
    <3>4. \A j \in 1 .. l : i < j => f[i] + 3 + n[i] <= ad2[j]
      BY <1>8, <1>11, <1>12
    <3> QED  BY <3>2, <3>3, <3>4
  <2> QED  BY <1>9, <1>11, <2>1, <2>2, <2>3 DEF Spaced
<1>15. MovedTo(arrMem, m2, arrays, ad2, shadow)
  BY <1>5, <1>7, <1>11, <1>13 DEF MovedTo
<1> HIDE DEF to, st
<1> QED  BY <1>3, <1>6, <1>10, <1>14, <1>15

\* A collection keeps the headers apart; it forgets the card tables.
LEMMA MoveStep ==
  ASSUME ArraysInv, moveArrays
  PROVE  ArraysInv'
<1>1. /\ arrCollections' = arrCollections + 1 /\ shadow' = shadow
      /\ Memory(arrMem') /\ Spaced(arrays', shadow, hp')
      /\ MovedTo(arrMem, arrMem', arrays, arrays', shadow)
  BY MoveFacts
<1>2. arrCollections \in Nat
  BY DEF ArraysInv
<1>3. PICK m2, ad2, h2 : m2 = arrMem' /\ ad2 = arrays' /\ h2 = hp'
  OBVIOUS
<1>4. Counted(m2, ad2, shadow)
  <2>1. ASSUME NEW i \in 1 .. Len(arrays)
        PROVE  m2[ad2[i] + 1].kind # "cards" /\ m2[ad2[i] + 1].v = Len(shadow[i])
    <3>1. Len(shadow[i]) \in Nat
      BY ArrayFacts
    <3>2. 1 \in 0 .. 2 + Len(shadow[i])
      BY <3>1
    <3>3. m2[ad2[i] + 1] = arrMem[arrays[i] + 1]
      BY <1>1, <1>3, <3>2 DEF MovedTo
    <3> QED  BY <3>3, ArrayFacts DEF Counted
  <2>2. Len(ad2) = Len(arrays)
    BY <1>1, <1>3 DEF MovedTo
  <2> QED  BY <2>1, <2>2 DEF Counted
<1>5. Headers(m2, ad2, shadow, h2)
  BY <1>1, <1>3, <1>4 DEF Headers
<1> QED  BY <1>1, <1>2, <1>3, <1>5 DEF ArraysInv

\* An array that is as the program has written it is so at its new place.
LEMMA MovedIntact ==
  ASSUME ArraysInv, moveArrays, NEW i \in DOMAIN arrays, IntactIn(arrMem, arrays[i], shadow[i])
  PROVE  IntactIn(arrMem', arrays'[i], shadow[i])
<1>1. PICK m2, ad2 : m2 = arrMem' /\ ad2 = arrays'
  OBVIOUS
<1>2. /\ i \in 1 .. Len(arrays) /\ MovedTo(arrMem, m2, arrays, ad2, shadow)
      /\ ad2[i] \in Nat
  <2>1. MovedTo(arrMem, m2, arrays, ad2, shadow) /\ Spaced(ad2, shadow, hp')
    BY <1>1, MoveFacts
  <2> QED  BY <2>1, ArrayFacts DEF Spaced, MovedTo
<1>3. PICK a \in Nat, b \in Nat, n \in Nat : a = arrays[i] /\ b = ad2[i] /\ n = Len(shadow[i])
  BY <1>2, ArrayFacts
<1> DEFINE xs == shadow[i]
<1>4. \A k \in 0 .. 2 + n : m2[b + k] = arrMem[a + k]
  BY <1>2, <1>3 DEF MovedTo
<1>5. m2[b] = arrMem[a]
  <2>1. 0 \in 0 .. 2 + n /\ b + 0 = b /\ a + 0 = a
    OBVIOUS
  <2> QED  BY <1>4, <2>1
<1>6. m2[b + 1] = arrMem[a + 1]
  <2>1. 1 \in 0 .. 2 + n
    OBVIOUS
  <2> QED  BY <1>4, <2>1
<1>7. ASSUME NEW k \in 1 .. n PROVE m2[b + 3 + k - 1] = arrMem[a + 3 + k - 1]
  <2>1. 2 + k \in 0 .. 2 + n /\ b + (2 + k) = b + 3 + k - 1 /\ a + (2 + k) = a + 3 + k - 1
    OBVIOUS
  <2>2. m2[b + (2 + k)] = arrMem[a + (2 + k)]
    BY <1>4, <2>1
  <2> QED  BY <2>1, <2>2
<1>8. /\ arrMem[a].kind = "info" /\ arrMem[a + 1] = number(n)
      /\ \A k \in 1 .. n : arrMem[a + 3 + k - 1] = element(xs[k])
  BY <1>3 DEF IntactIn, payload, SIZEOF_StgMutArrPtrs
<1>9. /\ m2[b].kind = "info" /\ m2[b + 1] = number(n)
      /\ \A k \in 1 .. n : m2[b + 3 + k - 1] = element(xs[k])
  BY <1>5, <1>6, <1>7, <1>8
<1>10. IntactIn(m2, b, xs)
  BY <1>3, <1>9 DEF IntactIn, payload, SIZEOF_StgMutArrPtrs
<1> QED  BY <1>1, <1>3, <1>10

LEMMA ArraysInvInit ==
  ASSUME ArraysInit
  PROVE  ArraysInv
<1>1. MemWords \in Nat
  BY ArraysAssumption
<1>2. IsSeq(<<>>) /\ Len(<<>>) = 0
  <2>1. <<>> \in Seq({<<>>[i] : i \in DOMAIN <<>>})
    OBVIOUS
  <2> QED  BY <2>1 DEF IsSeq
<1>3. Memory(arrMem) /\ \A w \in 0 .. MemWords - 1 : arrMem[w] = Fresh
  BY DEF ArraysInit, Memory
<1>4. \A i : i \notin 1 .. 0
  OBVIOUS
<1>5. Spaced(<<>>, <<>>, 0)
  BY <1>1, <1>2, <1>4 DEF Spaced
<1>6. Counted(arrMem, <<>>, <<>>)
  BY <1>2, <1>4 DEF Counted
<1>7. Undisturbed(arrMem, <<>>, <<>>, <<>>, 0)
  BY <1>2, <1>3, <1>4 DEF Undisturbed
<1> QED  BY <1>3, <1>5, <1>6, <1>7 DEF ArraysInit, ArraysInv, Headers

\* A clone takes the elements that are in the source.
LEMMA CloneStep ==
  ASSUME ArraysInv, NEW i \in DOMAIN arrays, NEW to, NEW offset \in Nat, NEW n \in Nat,
         InBounds(i, offset, n), cloneArray(i, to, offset, n)
  PROVE  ArraysInv'
<1>1. PICK xs : xs = [k \in 1 .. n |-> arrMem[payload(arrays[i]) + offset + k - 1]]
  OBVIOUS
<1>2. xs = [k \in 1 .. n |-> xs[k]] /\ allocated(to, xs)
  BY <1>1 DEF cloneArray
<1>3. ASSUME arrCollections = 0, NEW k \in 1 .. n
      PROVE  xs[k] = element(xs[k].v)
  <2>1. i \in 1 .. Len(arrays) /\ Len(shadow[i]) \in Nat /\ arrays[i] \in Nat
    BY ArrayFacts
  <2>2. ArrayAt(arrMem, arrays[i], shadow[i], changed[i])
    BY <1>3, <2>1 DEF ArraysInv, Undisturbed
  <2>3. \A j \in 1 .. Len(shadow[i]) : arrMem[payload(arrays[i]) + j - 1] = element(shadow[i][j])
    BY <2>2 DEF ArrayAt, IntactIn
  <2>4. offset + k \in 1 .. Len(shadow[i])
    BY <2>1 DEF InBounds
  <2>5. payload(arrays[i]) + (offset + k) - 1 = payload(arrays[i]) + offset + k - 1
    BY <2>1 DEF payload, SIZEOF_StgMutArrPtrs
  <2>6. xs[k] = element(shadow[i][offset + k])
    BY <1>1, <2>3, <2>4, <2>5
  <2> QED  BY <2>6 DEF element
<1> QED  BY <1>2, <1>3, AllocateStep

LEMMA NewStep ==
  ASSUME ArraysInv, NEW n \in Nat, NEW x, newArray(n, x)
  PROVE  ArraysInv'
<1>1. PICK xs : xs = [k \in 1 .. n |-> element(x)]
  OBVIOUS
<1>2. xs = [k \in 1 .. n |-> xs[k]] /\ allocated("DIRTY", xs)
  BY <1>1 DEF newArray
<1>3. \A k \in 1 .. n : xs[k] = element(xs[k].v)
  BY <1>1 DEF element
<1> QED  BY <1>2, <1>3, AllocateStep

LEMMA ArraysInvStep ==
  ASSUME ArraysInv, [ArraysNext]_arraysVars
  PROVE  ArraysInv'
<1>1. \A n \in Elems : n \in Nat
  BY DEF Elems
<1>2. CASE \E n \in Elems, x \in Contents : newArray(n, x)
  BY <1>1, <1>2, NewStep
<1>3. CASE \E i \in DOMAIN arrays, to \in {"DIRTY", "FROZEN_CLEAN"}, offset, n \in Elems :
             InBounds(i, offset, n) /\ cloneArray(i, to, offset, n)
  BY <1>1, <1>3, CloneStep
<1>4. ASSUME NEW s \in DOMAIN arrays, NEW d \in DOMAIN arrays,
             NEW src_off \in Elems, NEW dst_off \in Elems, NEW n \in Elems,
             copyArray(s, src_off, d, dst_off, n)
      PROVE  ArraysInv'
  <2>1. s # d
    BY <1>4 DEF copyArray, Frozen, Mutable, info
  <2>2. /\ InBounds(s, src_off, n) /\ InBounds(d, dst_off, n) /\ copy(s, src_off, d, dst_off, n, FALSE)
    BY <1>4 DEF copyArray
  <2>3. src_off \in Nat /\ dst_off \in Nat /\ n \in Nat
    BY <1>1
  <2> QED  BY <2>1, <2>2, <2>3, CopyStep
<1>5. ASSUME NEW s \in DOMAIN arrays, NEW d \in DOMAIN arrays,
             NEW src_off \in Elems, NEW dst_off \in Elems, NEW n \in Elems,
             copyMutableArray(s, src_off, d, dst_off, n)
      PROVE  ArraysInv'
  <2>1. PICK move : move = (s = d)
    OBVIOUS
  <2>2. /\ InBounds(s, src_off, n) /\ InBounds(d, dst_off, n) /\ copy(s, src_off, d, dst_off, n, move)
    BY <1>5, <2>1 DEF copyMutableArray
  <2>3. src_off \in Nat /\ dst_off \in Nat /\ n \in Nat /\ (move \/ s # d)
    BY <1>1, <2>1
  <2> QED  BY <2>2, <2>3, CopyStep
<1>6. CASE \E i \in DOMAIN arrays, ind \in Elems, x \in Contents : casArray(i, ind, x)
  BY <1>1, <1>6, CasStep
<1>7. CASE \E i \in DOMAIN arrays : unsafeFreezeArray(i) \/ unsafeThawArray(i)
  BY <1>7, HeaderStep DEF unsafeFreezeArray, unsafeThawArray
<1>8. CASE moveArrays
  BY <1>8, MoveStep
<1>9. CASE UNCHANGED arraysVars
  BY <1>9 DEF arraysVars, ArraysInv
<1> QED  BY <1>2, <1>3, <1>4, <1>5, <1>6, <1>7, <1>8, <1>9 DEF ArraysNext

\* What the invariant says of the arrays until a collection.
LEMMA ArraysInvSound ==
  ASSUME ArraysInv
  PROVE  ArraysSound
<1> SUFFICES ASSUME arrCollections = 0
             PROVE  ArraysApart /\ ArraysIntact /\ CardsMarked
  BY DEF ArraysSound
<1>1. Undisturbed(arrMem, arrays, shadow, changed, hp)
  BY DEF ArraysInv
<1>2. ASSUME NEW i \in DOMAIN arrays
      PROVE  \E a \in Nat, n \in Nat, u \in Nat, cw \in Nat :
               /\ i \in 1 .. Len(arrays) /\ a = arrays[i] /\ n = Len(shadow[i])
               /\ u = mutArrPtrCardUp(n) /\ cw = Words(n)
               /\ arrMem[a + 1].v = n /\ arrMem[a + 2].v = n + cw
               /\ TableEnd(a, n) = a + 3 + n + cw /\ cards(arrMem, a) = a + 3 + n
               /\ ArrayAt(arrMem, a, shadow[i], changed[i])
  <2>1. PICK a \in Nat, n \in Nat : a = arrays[i] /\ n = Len(shadow[i]) /\ arrMem[a + 1].v = n
    BY ArrayFacts
  <2>2. PICK u \in Nat, cw \in Nat : u = mutArrPtrCardUp(n) /\ cw = Words(n)
    BY CardSizes DEF Words
  <2>3. i \in 1 .. Len(arrays)
    BY ArrayFacts
  <2>4. ArrayAt(arrMem, a, shadow[i], changed[i])
    BY <1>1, <2>1, <2>3 DEF Undisturbed
  <2>5. arrMem[a + 2].v = n + cw
    BY <2>1, <2>2, <2>4 DEF ArrayAt, number
  <2>6. cards(arrMem, a) = a + 3 + n
    BY <2>1 DEF cards, payload, ptrs, SIZEOF_StgMutArrPtrs
  <2> QED  BY <2>1, <2>2, <2>3, <2>4, <2>5, <2>6 DEF TableEnd
<1>3. ArraysApart
  <2>1. ASSUME NEW i \in DOMAIN arrays
        PROVE  LET e == arrays[i] + SIZEOF_StgMutArrPtrs + arrMem[arrays[i] + 2].v
               IN  /\ e <= hp
                   /\ i < Len(arrays) => e <= arrays[i + 1]
                   /\ \A k \in 0 .. Len(shadow[i]) - 1 :
                        cards(arrMem, arrays[i]) * WordBytes + mutArrPtrCardDown(k) < e * WordBytes
    <3> DEFINE e == arrays[i] + SIZEOF_StgMutArrPtrs + arrMem[arrays[i] + 2].v
    <3>1. PICK a \in Nat, n \in Nat, u \in Nat, cw \in Nat :
               /\ i \in 1 .. Len(arrays) /\ a = arrays[i] /\ n = Len(shadow[i])
               /\ u = mutArrPtrCardUp(n) /\ cw = Words(n)
               /\ arrMem[a + 1].v = n /\ arrMem[a + 2].v = n + cw
               /\ TableEnd(a, n) = a + 3 + n + cw /\ cards(arrMem, a) = a + 3 + n
               /\ ArrayAt(arrMem, a, shadow[i], changed[i])
      BY <1>2
    <3>2. e = a + 3 + n + cw
      <4>1. e = a + 3 + (n + cw)
        <5>1. SIZEOF_StgMutArrPtrs = 3
          BY DEF SIZEOF_StgMutArrPtrs
        <5> QED  BY <3>1, <5>1
      <4>2. a + 3 + (n + cw) = a + 3 + n + cw
        OBVIOUS
      <4> QED  BY <4>1, <4>2
    <3>3. e <= hp
      BY <1>1, <3>1, <3>2 DEF Undisturbed
    <3>4. i < Len(arrays) => e <= arrays[i + 1]
      <4>1. i < Len(arrays) => i + 1 \in 1 .. Len(arrays) /\ i < i + 1
        <5>1. PICK l \in Nat : l = Len(arrays)
          BY ArrayFacts
        <5>2. PICK j \in 1 .. l : j = i
          BY <3>1, <5>1
        <5>3. j < l => j + 1 \in 1 .. l /\ j < j + 1
          OBVIOUS
        <5> QED  BY <5>1, <5>2, <5>3
      <4> QED  BY <1>1, <3>1, <3>2, <4>1 DEF Undisturbed
    <3>5. ASSUME NEW k \in 0 .. n - 1
          PROVE  (a + 3 + n) * WordBytes + mutArrPtrCardDown(k) < (a + 3 + n + cw) * WordBytes
      <4>1. PICK c \in Nat, b \in Nat \ {0} : c = mutArrPtrCardDown(k) /\ c < u /\ b = WordBytes
        <5>1. k \in Nat /\ k < n
          OBVIOUS
        <5> QED  BY <3>1, <5>1, CardOfElement, CardSizes
      <4>2. cw = (u + b - 1) \div b
        BY <3>1, <4>1, CardSizes DEF Words
      <4>3. u <= b * cw
        BY <4>2, UnitsOf
      <4>4. PICK x \in Nat : x = a + 3 + n
        OBVIOUS
      <4>5. (x + cw) * b = x * b + b * cw
        OBVIOUS
      <4>6. x * b \in Int /\ b * cw \in Int
        OBVIOUS
      <4>7. x * b + c < (x + cw) * b
        BY <4>1, <4>3, <4>5, <4>6
      <4> QED  BY <4>1, <4>4, <4>7
    <3> QED  BY <3>1, <3>2, <3>3, <3>4, <3>5
  <2> QED  BY <2>1 DEF ArraysApart
<1>4. ArraysIntact
  BY <1>2 DEF ArrayAt, ArraysIntact
<1>5. CardsMarked
  <2>1. ASSUME NEW i \in DOMAIN arrays, NEW k \in changed[i]
        PROVE  LET card == mutArrPtrCardDown(k)
                   w == arrMem[cards(arrMem, arrays[i]) + (card \div WordBytes)]
               IN  w.kind = "cards" /\ w.v[card % WordBytes] = 1
    <3>1. PICK a \in Nat, n \in Nat, u \in Nat, cw \in Nat :
               /\ a = arrays[i] /\ n = Len(shadow[i]) /\ cw = Words(n)
               /\ cards(arrMem, a) = a + 3 + n
               /\ TableEnd(a, n) = a + 3 + n + cw
               /\ ArrayAt(arrMem, a, shadow[i], changed[i])
      BY <1>2
    <3>2. TableAt(arrMem, a, n, changed[i])
      BY <3>1 DEF ArrayAt
    <3>3. k \in Nat /\ k < n
      BY <3>2 DEF TableAt
    <3>4. PICK o \in Nat : o = mutArrPtrCardDown(k) \div WordBytes /\ o < cw
      BY <3>1, <3>3, CardOfElement DEF Words
    <3>5. PICK w : w = arrMem[a + 3 + n + o]
      OBVIOUS
    <3>6. a + 3 + n + o \in a + 3 + n .. a + 3 + n + cw - 1
      BY <3>4
    <3>7. CardsAt(w)
      <4>1. \A x \in a + 3 + n .. a + 3 + n + cw - 1 : CardsAt(arrMem[x])
        BY <3>1, <3>2 DEF TableAt
      <4> QED  BY <3>5, <3>6, <4>1
    <3>8. w.v[mutArrPtrCardDown(k) % WordBytes] = 1
      BY <3>2, <3>4, <3>5 DEF TableAt
    <3>9. w.kind = "cards"
      BY <3>7 DEF CardsAt
    <3> QED  BY <3>1, <3>4, <3>5, <3>8, <3>9
  <2> QED  BY <2>1 DEF CardsMarked
<1> QED  BY <1>3, <1>4, <1>5

\* Arrays keep out of each other's words and have what was put into them, with a card for
\* all that was written, until a collection (Cmm.h:853-928): for every size of a card, a
\* word and the memory.
THEOREM ArraysStaySound == ArraysSpec => []ArraysSound
<1>1. ArraysInit => ArraysInv
  BY ArraysInvInit
<1>2. ArraysInv /\ [ArraysNext]_arraysVars => ArraysInv'
  BY ArraysInvStep
<1>3. ArraysInv => ArraysSound
  BY ArraysInvSound
<1> QED  BY <1>1, <1>2, <1>3, PTL DEF ArraysSpec

\* A collection, the first or a later one, moves every array that is intact with its
\* header and elements to a place of its own.
THEOREM ArraysKeepElements == ArraysSpec => [][CollectionKeepsElements]_arraysVars
<1>1. ArraysInit => ArraysInv
  BY ArraysInvInit
<1>2. ArraysInv /\ [ArraysNext]_arraysVars => ArraysInv'
  BY ArraysInvStep
<1>3. ASSUME ArraysInv, [ArraysNext]_arraysVars
      PROVE  [CollectionKeepsElements]_arraysVars
  <2>1. CASE moveArrays
    BY <1>3, <2>1, MovedIntact DEF CollectionKeepsElements
  <2>2. CASE UNCHANGED arrCollections
    BY <2>2 DEF CollectionKeepsElements
  <2>3. moveArrays \/ UNCHANGED arrCollections
    <3>1. \A to, xs : allocated(to, xs) => UNCHANGED arrCollections
      BY DEF allocated
    <3>2. \A n, x : newArray(n, x) => UNCHANGED arrCollections
      BY <3>1 DEF newArray
    <3>3. \A i, to, offset, n : cloneArray(i, to, offset, n) => UNCHANGED arrCollections
      BY <3>1 DEF cloneArray
    <3>4. \A s, src_off, d, dst_off, n :
            copyArray(s, src_off, d, dst_off, n) \/ copyMutableArray(s, src_off, d, dst_off, n)
              => UNCHANGED arrCollections
      BY DEF copyArray, copyMutableArray, copy
    <3>5. \A i, ind, x : casArray(i, ind, x) => UNCHANGED arrCollections
      BY DEF casArray
    <3>6. \A i : unsafeFreezeArray(i) \/ unsafeThawArray(i) => UNCHANGED arrCollections
      BY DEF unsafeFreezeArray, unsafeThawArray
    <3> QED  BY <1>3, <3>2, <3>3, <3>4, <3>5, <3>6 DEF ArraysNext, arraysVars
  <2> QED  BY <2>1, <2>2, <2>3
<1> QED  BY <1>1, <1>2, <1>3, PTL DEF ArraysSpec

----------------------------------------------------------------------------
(***************************************************************************)
(* Stable names: what following pointers and replacing thunks comes to,    *)
(* when evaluation is not circular.                                        *)
(***************************************************************************)
Follows(f, S, Cut, nx) == f = [q \in S |-> IF q \in Cut THEN f[nx[q]] ELSE q]

\* What is followed comes down in rank.
Descends(S, Cut, nx, rank) ==
  /\ rank \in [S -> Nat] /\ Cut \in SUBSET S
  /\ \A q \in Cut : nx[q] \in S /\ rank[nx[q]] < rank[q]

\* f follows right from what is below rank n.
UpTo(f, S, Cut, nx, rank, n) ==
  \A q \in S : rank[q] < n => f[q] = IF q \in Cut THEN f[nx[q]] ELSE q

\* There is one way to follow right from what is below a rank.
LEMMA OneFollows ==
  ASSUME NEW S, NEW Cut, NEW nx, NEW rank, Descends(S, Cut, nx, rank),
         NEW n \in Nat, NEW m \in Nat, NEW f, NEW g,
         UpTo(f, S, Cut, nx, rank, n), UpTo(g, S, Cut, nx, rank, m)
  PROVE  \A q \in S : rank[q] < n /\ rank[q] < m => f[q] = g[q]
<1> DEFINE T == {r \in Nat : \E q \in S : rank[q] = r /\ r < n /\ r < m /\ f[q] # g[q]}
<1>1. SUFFICES ASSUME T # {} PROVE FALSE
  <2>1. \A q \in S : rank[q] \in Nat
    BY DEF Descends
  <2> QED  BY <2>1
<1>2. PICK r \in T : \A j \in T : ~(j < r)
  <2>1. T \in SUBSET Nat
    OBVIOUS
  <2> HIDE DEF T
  <2> QED  BY <1>1, <2>1, LeastNumber
<1>3. PICK q \in S : r \in Nat /\ rank[q] = r /\ r < n /\ r < m /\ f[q] # g[q]
  OBVIOUS
<1>4. CASE q \notin Cut
  BY <1>3, <1>4 DEF UpTo
<1>5. CASE q \in Cut
  <2>1. PICK u \in S : u = nx[q] /\ rank[u] < r /\ rank[u] \in Nat
    BY <1>3, <1>5 DEF Descends
  <2>2. rank[u] \notin T
    BY <1>2, <2>1
  <2>3. f[u] = g[u]
    BY <1>3, <2>1, <2>2
  <2> QED  BY <1>3, <1>5, <2>1, <2>3 DEF UpTo
<1> QED  BY <1>4, <1>5

\* There is a way to follow right from what is below a rank.
LEMMA FollowsUpTo ==
  ASSUME NEW S, NEW Cut, NEW nx, NEW rank, Descends(S, Cut, nx, rank), NEW n \in Nat
  PROVE  \E f : UpTo(f, S, Cut, nx, rank, n)
<1> DEFINE T == {k \in Nat : ~ \E f : UpTo(f, S, Cut, nx, rank, k)}
<1>1. SUFFICES ASSUME T # {} PROVE FALSE
  OBVIOUS
<1>2. PICK k \in T : \A j \in T : ~(j < k)
  <2>1. T \in SUBSET Nat
    OBVIOUS
  <2> HIDE DEF T
  <2> QED  BY <1>1, <2>1, LeastNumber
<1>3. k \in Nat /\ ~ \E f : UpTo(f, S, Cut, nx, rank, k)
  OBVIOUS
<1>4. \A q \in S : rank[q] \in Nat
  BY DEF Descends
<1>5. k # 0
  <2>1. CASE k = 0
    <3>1. \A f : UpTo(f, S, Cut, nx, rank, 0)
      BY <1>4 DEF UpTo
    <3> QED  BY <1>3, <2>1, <3>1
  <2> QED  BY <2>1
<1>6. k - 1 \in Nat /\ k - 1 < k
  BY <1>3, <1>5
<1>7. PICK f : UpTo(f, S, Cut, nx, rank, k - 1)
  BY <1>2, <1>6
<1> DEFINE g == [q \in S |-> IF rank[q] < k - 1 THEN f[q] ELSE IF q \in Cut THEN f[nx[q]] ELSE q]
<1>8. ASSUME NEW q \in S, rank[q] < k
      PROVE  g[q] = IF q \in Cut THEN g[nx[q]] ELSE q
  <2>1. CASE q \notin Cut
    BY <1>7, <2>1 DEF UpTo
  <2>2. CASE q \in Cut
    <3>1. PICK u \in S : u = nx[q] /\ rank[u] < rank[q]
      BY <2>2 DEF Descends
    <3>2. rank[u] < k - 1
      BY <1>3, <1>4, <1>8, <3>1
    <3>3. g[u] = f[u]
      BY <3>2
    <3>4. g[q] = f[u]
      BY <1>7, <2>2, <3>1 DEF UpTo
    <3> QED  BY <2>2, <3>1, <3>3, <3>4
  <2> QED  BY <2>1, <2>2
<1>9. UpTo(g, S, Cut, nx, rank, k)
  <2> HIDE DEF g
  <2> QED  BY <1>8 DEF UpTo
<1> QED  BY <1>3, <1>9

\* So the recursive function that follows exists.
LEMMA FollowExists ==
  ASSUME NEW S, NEW Cut, NEW nx, NEW rank, Descends(S, Cut, nx, rank)
  PROVE  \E f : Follows(f, S, Cut, nx)
<1> DEFINE H == [n \in Nat |-> CHOOSE f : UpTo(f, S, Cut, nx, rank, n)]
           F == [q \in S |-> H[rank[q] + 1][q]]
<1>1. \A n \in Nat : UpTo(H[n], S, Cut, nx, rank, n)
  <2>1. ASSUME NEW n \in Nat PROVE UpTo(H[n], S, Cut, nx, rank, n)
    <3>1. \E f : UpTo(f, S, Cut, nx, rank, n)
      BY FollowsUpTo
    <3>2. H[n] = CHOOSE f : UpTo(f, S, Cut, nx, rank, n)
      OBVIOUS
    <3> HIDE DEF H
    <3> QED  BY <3>1, <3>2
  <2> QED  BY <2>1
<1> HIDE DEF H
<1>2. \A q \in S : rank[q] \in Nat
  BY DEF Descends
<1>3. ASSUME NEW q \in S
      PROVE  F[q] = IF q \in Cut THEN F[nx[q]] ELSE q
  <2>1. rank[q] + 1 \in Nat /\ rank[q] < rank[q] + 1
    BY <1>2
  <2>2. UpTo(H[rank[q] + 1], S, Cut, nx, rank, rank[q] + 1)
    BY <1>1, <2>1
  <2>3. F[q] = IF q \in Cut THEN H[rank[q] + 1][nx[q]] ELSE q
    BY <2>1, <2>2 DEF UpTo
  <2>4. CASE q \in Cut
    <3>1. PICK u \in S : u = nx[q] /\ rank[u] < rank[q]
      BY <2>4 DEF Descends
    <3>2. rank[u] + 1 \in Nat /\ rank[u] < rank[u] + 1 /\ rank[u] < rank[q] + 1
      BY <1>2, <3>1
    <3>3. UpTo(H[rank[u] + 1], S, Cut, nx, rank, rank[u] + 1)
      BY <1>1, <3>2
    <3>4. H[rank[u] + 1][u] = H[rank[q] + 1][u]
      BY <2>1, <2>2, <3>2, <3>3, OneFollows
    <3>5. F[u] = H[rank[u] + 1][u]
      OBVIOUS
    <3> QED  BY <2>3, <2>4, <3>1, <3>4, <3>5
  <2> QED  BY <2>3, <2>4
<1>4. F = [q \in S |-> F[q]]
  OBVIOUS
<1> HIDE DEF F
<1>5. Follows(F, S, Cut, nx)
  BY <1>3, <1>4 DEF Follows
<1> QED  BY <1>5

\* Where it ends: at something that is not cut, no higher, and behind the last that was.
EndsWell(f, S, Cut, nx, rank) ==
  \A q \in S : /\ f[q] \in S /\ f[q] \notin Cut /\ rank[f[q]] <= rank[q]
               /\ q \notin Cut => f[q] = q
               /\ q \in Cut => f[q] = f[nx[q]] /\ \E r \in Cut : f[q] = nx[r]

\* Whatever follows ends well.
LEMMA FollowEnds ==
  ASSUME NEW S, NEW Cut, NEW nx, NEW rank, Descends(S, Cut, nx, rank), NEW f, Follows(f, S, Cut, nx)
  PROVE  EndsWell(f, S, Cut, nx, rank)
<1> DEFINE Good(q) == /\ f[q] \in S /\ f[q] \notin Cut /\ rank[f[q]] <= rank[q]
                      /\ q \notin Cut => f[q] = q
                      /\ q \in Cut => f[q] = f[nx[q]] /\ \E r \in Cut : f[q] = nx[r]
           T == {r \in Nat : \E q \in S : rank[q] = r /\ ~Good(q)}
<1>0. \A q \in S : rank[q] \in Nat
  BY DEF Descends
<1>1. T = {} => \A q \in S : Good(q)
  <2> HIDE DEF Good
  <2> QED  BY <1>0
<1>2. SUFFICES ASSUME T # {} PROVE FALSE
  BY <1>1 DEF EndsWell
<1>3. PICK r \in T : \A j \in T : ~(j < r)
  <2>1. T \in SUBSET Nat
    OBVIOUS
  <2> HIDE DEF T
  <2> QED  BY <1>2, <2>1, LeastNumber
<1>4. PICK q \in S : rank[q] = r /\ ~Good(q)
  <2> HIDE DEF Good
  <2> QED  OBVIOUS
<1>5. f[q] = IF q \in Cut THEN f[nx[q]] ELSE q
  BY DEF Follows
<1>6. CASE q \notin Cut
  BY <1>0, <1>4, <1>5, <1>6
<1>7. CASE q \in Cut
  <2>1. PICK u \in S : u = nx[q] /\ rank[u] < r
    BY <1>4, <1>7 DEF Descends
  <2>2. rank[u] \in Nat
    BY <1>0
  <2>3. rank[u] \notin T
    <3> HIDE DEF T
    <3> QED  BY <1>3, <2>1, <2>2
  <2>4. Good(u)
    <3> HIDE DEF Good
    <3> QED  BY <2>2, <2>3
  <2>5. f[q] = f[u]
    BY <1>5, <1>7, <2>1
  <2>6. f[q] \in S /\ f[q] \notin Cut
    BY <2>4, <2>5
  <2>7. rank[f[q]] <= rank[q]
    <3>1. rank[f[u]] <= rank[u] /\ rank[f[u]] \in Nat
      BY <1>0, <2>4
    <3> QED  BY <1>0, <1>4, <2>1, <2>2, <2>5, <3>1
  <2>8. \E x \in Cut : f[q] = nx[x]
    <3>1. CASE u \notin Cut
      BY <1>7, <2>1, <2>4, <2>5, <3>1
    <3>2. CASE u \in Cut
      BY <2>4, <2>5, <3>2
    <3> QED  BY <3>1, <3>2
  <2> QED  BY <1>4, <1>7, <2>1, <2>5, <2>6, <2>7, <2>8
<1> QED  BY <1>6, <1>7

\* The pointers that thunks lead to come down in rank.
RankedBy(rank, leads) ==
  /\ rank \in [NamedObjects -> Nat]
  /\ \A s \in Selectors : leads[s] # None => leads[s] \in Pointers /\ rank[leads[s][1]] < rank[s]

Gone(repl) == {o \in NamedObjects : o \in Selectors /\ repl[o] # None}
Became(repl) == [o \in NamedObjects |-> IF o \in Gone(repl) THEN repl[o][1] ELSE o]

NowIn(repl, o) ==
  LET follow[q \in NamedObjects] ==
        IF q \in Selectors => repl[q] = None THEN q ELSE follow[repl[q][1]]
  IN  follow[o]

\* What an object is now, by what has been replaced.
LEMMA NowIsNowIn ==
  ASSUME NEW o PROVE Now(o) = NowIn(replaced, o)
BY DEF Now, NowIn, Remains

\* Replacements come down in rank.
LEMMA BecameDescends ==
  ASSUME NEW repl, NEW rank, RankedBy(rank, repl)
  PROVE  Descends(NamedObjects, Gone(repl), Became(repl), rank)
<1>1. ASSUME NEW q \in Gone(repl)
      PROVE  Became(repl)[q] \in NamedObjects /\ rank[Became(repl)[q]] < rank[q]
  <2>1. q \in NamedObjects /\ q \in Selectors /\ repl[q] # None
    BY DEF Gone
  <2>2. Became(repl)[q] = repl[q][1]
    BY <2>1 DEF Became
  <2>3. repl[q] \in NamedObjects \X Tags /\ rank[repl[q][1]] < rank[q]
    BY <2>1 DEF RankedBy, Pointers
  <2> QED  BY <2>2, <2>3
<1>2. Gone(repl) \in SUBSET NamedObjects
  BY DEF Gone
<1> QED  BY <1>1, <1>2 DEF Descends, RankedBy

\* What objects are now follows what they have become.
LEMMA NowFollows ==
  ASSUME NEW repl, NEW rank, RankedBy(rank, repl)
  PROVE  \E f : /\ Follows(f, NamedObjects, Gone(repl), Became(repl))
                /\ \A o : NowIn(repl, o) = f[o]
<1> DEFINE Is(f) == f = [q \in NamedObjects |->
                           IF q \in Selectors => repl[q] = None THEN q ELSE f[repl[q][1]]]
           to == CHOOSE f : Is(f)
<1>1. \A f : Follows(f, NamedObjects, Gone(repl), Became(repl)) <=> Is(f)
  <2>1. ASSUME NEW f
        PROVE  [q \in NamedObjects |-> IF q \in Gone(repl) THEN f[Became(repl)[q]] ELSE q]
                 = [q \in NamedObjects |-> IF q \in Selectors => repl[q] = None THEN q ELSE f[repl[q][1]]]
    <3>1. ASSUME NEW q \in NamedObjects
          PROVE  (IF q \in Gone(repl) THEN f[Became(repl)[q]] ELSE q)
                   = (IF q \in Selectors => repl[q] = None THEN q ELSE f[repl[q][1]])
      <4>1. CASE q \in Gone(repl)
        <5>1. Became(repl)[q] = repl[q][1]
          BY <4>1 DEF Became
        <5> QED  BY <4>1, <5>1 DEF Gone
      <4>2. CASE q \notin Gone(repl)
        BY <4>2 DEF Gone
      <4> QED  BY <4>1, <4>2
    <3> QED  BY <3>1
  <2> QED  BY <2>1 DEF Follows
<1>2. \E f : Follows(f, NamedObjects, Gone(repl), Became(repl))
  BY BecameDescends, FollowExists
<1>3. Is(to)
  <2> HIDE DEF Is
  <2> QED  BY <1>1, <1>2
<1>4. \A o : NowIn(repl, o) = to[o]
  BY DEF NowIn
<1> HIDE DEF to, Is
<1> QED  BY <1>1, <1>3, <1>4

\* What there still is is itself now; what has been replaced is what its successor is.
LEMMA NowSteps ==
  ASSUME NEW repl, NEW rank, RankedBy(rank, repl), NEW o \in NamedObjects
  PROVE  /\ o \notin Gone(repl) => NowIn(repl, o) = o
         /\ o \in Gone(repl) => NowIn(repl, o) = NowIn(repl, repl[o][1])
<1>1. PICK f : /\ Follows(f, NamedObjects, Gone(repl), Became(repl))
               /\ \A q : NowIn(repl, q) = f[q]
  BY NowFollows
<1>2. f[o] = IF o \in Gone(repl) THEN f[Became(repl)[o]] ELSE o
  BY <1>1 DEF Follows
<1>3. o \in Gone(repl) => Became(repl)[o] = repl[o][1]
  BY DEF Became
<1> QED  BY <1>1, <1>2, <1>3

\* More replacements later, it is what it had become, replaced further.
LEMMA NowLater ==
  ASSUME NEW repl, NEW repl2, NEW rank, RankedBy(rank, repl), RankedBy(rank, repl2),
         \A q \in Gone(repl) : repl2[q] = repl[q],
         NEW o \in NamedObjects
  PROVE  NowIn(repl2, o) = NowIn(repl2, NowIn(repl, o))
<1> DEFINE T == {r \in Nat : \E q \in NamedObjects :
                                /\ rank[q] = r
                                /\ NowIn(repl2, q) # NowIn(repl2, NowIn(repl, q))}
<1>0. \A q \in NamedObjects : rank[q] \in Nat
  BY DEF RankedBy
<1>1. SUFFICES ASSUME T # {} PROVE FALSE
  BY <1>0
<1>2. PICK r \in T : \A j \in T : ~(j < r)
  <2>1. T \in SUBSET Nat
    OBVIOUS
  <2> HIDE DEF T
  <2> QED  BY <1>1, <2>1, LeastNumber
<1>3. PICK q \in NamedObjects : /\ rank[q] = r
                                /\ NowIn(repl2, q) # NowIn(repl2, NowIn(repl, q))
  OBVIOUS
<1>4. CASE q \notin Gone(repl)
  BY <1>3, <1>4, NowSteps
<1>5. CASE q \in Gone(repl)
  <2>1. repl2[q] = repl[q] /\ q \in Gone(repl2)
    BY <1>5 DEF Gone
  <2>2. repl[q] \in NamedObjects \X Tags /\ rank[repl[q][1]] < rank[q]
    BY <1>5 DEF Gone, RankedBy, Pointers
  <2>3. PICK u \in NamedObjects : u = repl[q][1] /\ rank[u] < rank[q]
    BY <2>2
  <2>4. NowIn(repl2, q) = NowIn(repl2, u) /\ NowIn(repl, q) = NowIn(repl, u)
    BY <1>5, <2>1, <2>3, NowSteps
  <2>5. rank[u] \in Nat /\ rank[u] \notin T
    <3> HIDE DEF T
    <3> QED  BY <1>0, <1>2, <1>3, <2>3
  <2>6. NowIn(repl2, u) = NowIn(repl2, NowIn(repl, u))
    BY <2>5
  <2> QED  BY <1>3, <2>4, <2>6
<1> QED  BY <1>4, <1>5

\* The pointers to what is cut, and what they are followed to.
CutPointers(cut) == {q \in Pointers : q[1] \in cut}
Selected(cut) == [q \in Pointers |-> IF q[1] \in cut THEN component[q[1]] ELSE q]

RankOfPointer(rank) == [q \in Pointers |-> rank[q[1]]]

\* What thunks select comes down in rank.
LEMMA SelectedDescends ==
  ASSUME NEW rank, RankedBy(rank, component),
         NEW cut, cut \in SUBSET {s \in Selectors : component[s] # None}
  PROVE  Descends(Pointers, CutPointers(cut), Selected(cut), RankOfPointer(rank))
<1>1. ASSUME NEW q \in CutPointers(cut)
      PROVE  /\ Selected(cut)[q] \in Pointers
             /\ RankOfPointer(rank)[Selected(cut)[q]] < RankOfPointer(rank)[q]
  <2>1. q \in Pointers /\ q[1] \in cut /\ q[1] \in Selectors /\ component[q[1]] # None
    BY DEF CutPointers
  <2>2. component[q[1]] \in Pointers /\ rank[component[q[1]][1]] < rank[q[1]]
    BY <2>1 DEF RankedBy
  <2>3. Selected(cut)[q] = component[q[1]]
    BY <2>1 DEF Selected
  <2> QED  BY <2>1, <2>2, <2>3 DEF RankOfPointer
<1>2. \A q \in Pointers : q[1] \in NamedObjects
  BY DEF Pointers
<1>3. RankOfPointer(rank) \in [Pointers -> Nat]
  BY <1>2 DEF RankOfPointer, RankedBy
<1> QED  BY <1>1, <1>3 DEF Descends, CutPointers

\* stingyEval follows what thunks select.
LEMMA StingyFollows ==
  ASSUME NEW rank, RankedBy(rank, component),
         NEW cut, cut \in SUBSET {s \in Selectors : component[s] # None}
  PROVE  \E f : /\ Follows(f, Pointers, CutPointers(cut), Selected(cut))
                /\ \A p : stingyEval(p, cut) = f[p]
<1> DEFINE Is(f) == f = [q \in Pointers |-> IF q[1] \in cut THEN f[component[q[1]]] ELSE q]
           to == CHOOSE f : Is(f)
<1>1. \A f : Follows(f, Pointers, CutPointers(cut), Selected(cut)) <=> Is(f)
  <2>1. ASSUME NEW f
        PROVE  [q \in Pointers |-> IF q \in CutPointers(cut) THEN f[Selected(cut)[q]] ELSE q]
                 = [q \in Pointers |-> IF q[1] \in cut THEN f[component[q[1]]] ELSE q]
    <3>1. ASSUME NEW q \in Pointers
          PROVE  (IF q \in CutPointers(cut) THEN f[Selected(cut)[q]] ELSE q)
                   = (IF q[1] \in cut THEN f[component[q[1]]] ELSE q)
      <4>1. CASE q[1] \in cut
        <5>1. Selected(cut)[q] = component[q[1]]
          BY <4>1 DEF Selected
        <5> QED  BY <4>1, <5>1 DEF CutPointers
      <4>2. CASE q[1] \notin cut
        BY <4>2 DEF CutPointers
      <4> QED  BY <4>1, <4>2
    <3> QED  BY <3>1
  <2> QED  BY <2>1 DEF Follows
<1>2. \E f : Follows(f, Pointers, CutPointers(cut), Selected(cut))
  BY SelectedDescends, FollowExists
<1>3. Is(to)
  <2> HIDE DEF Is
  <2> QED  BY <1>1, <1>2
<1>4. \A p : stingyEval(p, cut) = to[p]
  BY DEF stingyEval
<1> HIDE DEF to, Is
<1> QED  BY <1>1, <1>3, <1>4

\* Behind a pointer is a pointer to what is not replaced, no higher in rank, and one
\* some thunk selects if the pointer was to a replaced one.
LEMMA StingyEnds ==
  ASSUME NEW rank, RankedBy(rank, component),
         NEW cut, cut \in SUBSET {s \in Selectors : component[s] # None},
         NEW p \in Pointers
  PROVE  /\ stingyEval(p, cut) \in Pointers /\ stingyEval(p, cut)[1] \notin cut
         /\ rank[stingyEval(p, cut)[1]] <= rank[p[1]]
         /\ p[1] \notin cut => stingyEval(p, cut) = p
         /\ p[1] \in cut => /\ stingyEval(p, cut) = stingyEval(component[p[1]], cut)
                            /\ \E s \in cut : stingyEval(p, cut) = component[s]
<1>1. PICK f : /\ Follows(f, Pointers, CutPointers(cut), Selected(cut))
               /\ \A q : stingyEval(q, cut) = f[q]
  BY StingyFollows
<1>2. EndsWell(f, Pointers, CutPointers(cut), Selected(cut), RankOfPointer(rank))
  BY <1>1, SelectedDescends, FollowEnds
<1>3. PICK e : e = f[p]
  OBVIOUS
<1>4. /\ e \in Pointers /\ e \notin CutPointers(cut)
      /\ RankOfPointer(rank)[e] <= RankOfPointer(rank)[p]
      /\ p \notin CutPointers(cut) => e = p
      /\ p \in CutPointers(cut) =>
           e = f[Selected(cut)[p]] /\ \E r \in CutPointers(cut) : e = Selected(cut)[r]
  BY <1>2, <1>3 DEF EndsWell
<1>5. \A q \in CutPointers(cut) : q[1] \in cut /\ Selected(cut)[q] = component[q[1]]
  BY DEF CutPointers, Selected
<1>6. p \in CutPointers(cut) <=> p[1] \in cut
  BY DEF CutPointers
<1>7. e[1] \notin cut
  BY <1>4 DEF CutPointers
<1>8. rank[e[1]] <= rank[p[1]]
  BY <1>4 DEF RankOfPointer
<1>9. p[1] \in cut => /\ e = f[component[p[1]]]
                      /\ \E s \in cut : e = component[s]
  BY <1>4, <1>5, <1>6
<1> QED  BY <1>1, <1>3, <1>4, <1>6, <1>7, <1>8, <1>9

----------------------------------------------------------------------------
OnePerPointer(map) == \A i, j \in DOMAIN map : map[i].ptr = map[j].ptr => i = j

\* What Map.set leaves.
LEMMA SetFacts ==
  ASSUME NEW map, IsSeq(map), OnePerPointer(map), NEW p, NEW n
  PROVE  /\ IsSeq(set(map, p, n)) /\ OnePerPointer(set(map, p, n))
         /\ \A i \in DOMAIN set(map, p, n) :
              \/ set(map, p, n)[i] = [ptr |-> p, name |-> n]
              \/ i \in DOMAIN map /\ set(map, p, n)[i] = map[i]
         /\ \E i \in DOMAIN set(map, p, n) : set(map, p, n)[i] = [ptr |-> p, name |-> n]
         /\ \A i \in DOMAIN map : /\ i \in DOMAIN set(map, p, n)
                                  /\ map[i].ptr # p => set(map, p, n)[i] = map[i]
<1>1. PICK l \in Nat : l = Len(map) /\ DOMAIN map = 1 .. l
  BY SeqHas
<1>2. PICK e : e = [ptr |-> p, name |-> n]
  OBVIOUS
<1>3. e.ptr = p /\ e.name = n
  BY <1>2
<1>4. CASE \E i \in DOMAIN map : map[i].ptr = p
  <2>1. PICK s : s = set(map, p, n)
    OBVIOUS
  <2>2. s = [i \in 1 .. l |-> IF map[i].ptr = p THEN e ELSE map[i]]
    BY <1>1, <1>2, <1>4, <2>1 DEF set
  <2>3. IsSeq(s)
    <3>1. s = [i \in 1 .. l |-> s[i]]
      BY <2>2
    <3> QED  BY <3>1, FunctionIsSeq
  <2>4. /\ DOMAIN s = 1 .. l
        /\ \A i \in 1 .. l : s[i] = IF map[i].ptr = p THEN e ELSE map[i]
    BY <2>2
  <2>5. \A i \in 1 .. l : s[i].ptr = map[i].ptr
    BY <1>3, <2>4
  <2>6. OnePerPointer(s)
    BY <1>1, <2>4, <2>5 DEF OnePerPointer
  <2> QED  BY <1>1, <1>2, <1>4, <2>1, <2>3, <2>4, <2>6
<1>5. CASE \A i \in DOMAIN map : map[i].ptr # p
  <2>1. PICK s : s = set(map, p, n)
    OBVIOUS
  <2>2. s = Append(map, e)
    BY <1>2, <1>5, <2>1 DEF set
  <2>3. /\ IsSeq(s) /\ Len(s) = l + 1 /\ s[l + 1] = e
        /\ \A i \in 1 .. l : s[i] = map[i]
    BY <1>1, <2>2, AppendedSeq
  <2>4. DOMAIN s = 1 .. l + 1
    BY <2>3, SeqHas
  <2>5. \A i \in 1 .. l + 1 : i = l + 1 \/ i \in 1 .. l
    BY <1>1
  <2>6. OnePerPointer(s)
    <3>1. ASSUME NEW i \in 1 .. l + 1, NEW j \in 1 .. l + 1, s[i].ptr = s[j].ptr
          PROVE  i = j
      <4>1. \A k \in 1 .. l : s[k].ptr # p
        BY <1>1, <1>5, <2>3
      <4>2. CASE i \in 1 .. l /\ j \in 1 .. l
        BY <1>1, <2>3, <3>1, <4>2 DEF OnePerPointer
      <4> QED  BY <1>3, <2>3, <2>5, <3>1, <4>1, <4>2
    <3> QED  BY <2>4, <3>1 DEF OnePerPointer
  <2>7. l + 1 \in 1 .. l + 1 /\ \A i \in 1 .. l : i \in 1 .. l + 1
    BY <1>1
  <2> QED  BY <1>1, <1>2, <2>1, <2>3, <2>4, <2>5, <2>6, <2>7
<1> QED  BY <1>4, <1>5

----------------------------------------------------------------------------
AfterEntries(f, l, cut, early) ==
  f = [i \in 0 .. l |->
         IF i = 0 THEN [map |-> <<>>, visited |-> early]
         ELSE [map |-> set(f[i - 1].map, evacuateClosure(ptr2stable[i].ptr, cut, f[i - 1].visited),
                           ptr2stable[i].name),
               visited |-> f[i - 1].visited \cup ({ptr2stable[i].ptr[1]} \cap cut)]]

\* The map and what is visited after entry i, from those before it.
AfterEntry(r, i, cut) ==
  [map |-> set(r.map, evacuateClosure(ptr2stable[i].ptr, cut, r.visited), ptr2stable[i].name),
   visited |-> r.visited \cup ({ptr2stable[i].ptr[1]} \cap cut)]

\* The recursive function, entry by entry.
LEMMA AfterIs ==
  ASSUME NEW f, NEW l \in Nat, NEW cut, NEW early
  PROVE  AfterEntries(f, l, cut, early) <=>
           /\ f = [i \in 0 .. l |-> f[i]]
           /\ f[0] = [map |-> <<>>, visited |-> early]
           /\ \A i \in 1 .. l : f[i] = AfterEntry(f[i - 1], i, cut)
<1> DEFINE G == [i \in 0 .. l |-> IF i = 0 THEN [map |-> <<>>, visited |-> early]
                                  ELSE AfterEntry(f[i - 1], i, cut)]
<1>1. AfterEntries(f, l, cut, early) <=> f = G
  BY DEF AfterEntries, AfterEntry
<1>2. /\ 0 \in 0 .. l
      /\ \A i \in 1 .. l : i \in 0 .. l /\ i # 0
      /\ \A i \in 0 .. l : i = 0 \/ i \in 1 .. l
  OBVIOUS
<1>3. ASSUME f = G
      PROVE  /\ f = [i \in 0 .. l |-> f[i]]
             /\ f[0] = [map |-> <<>>, visited |-> early]
             /\ \A i \in 1 .. l : f[i] = AfterEntry(f[i - 1], i, cut)
  <2>1. PICK g : g = G
    OBVIOUS
  <2>2. \A i \in 0 .. l : g[i] = IF i = 0 THEN [map |-> <<>>, visited |-> early]
                                 ELSE AfterEntry(f[i - 1], i, cut)
    BY <2>1
  <2>3. g = [i \in 0 .. l |-> g[i]]
    BY <2>1
  <2>4. f = g
    BY <1>3, <2>1
  <2> HIDE DEF G
  <2>5. f[0] = [map |-> <<>>, visited |-> early]
    BY <1>2, <2>2, <2>4
  <2>6. \A i \in 1 .. l : f[i] = AfterEntry(f[i - 1], i, cut)
    BY <1>2, <2>2, <2>4
  <2> QED  BY <2>3, <2>4, <2>5, <2>6
<1>4. ASSUME f = [i \in 0 .. l |-> f[i]],
             f[0] = [map |-> <<>>, visited |-> early],
             \A i \in 1 .. l : f[i] = AfterEntry(f[i - 1], i, cut)
      PROVE  f = G
  <2>1. \A i \in 0 .. l : f[i] = IF i = 0 THEN [map |-> <<>>, visited |-> early]
                                 ELSE AfterEntry(f[i - 1], i, cut)
    BY <1>2, <1>4
  <2> QED  BY <1>4, <2>1
<1> HIDE DEF G
<1> QED  BY <1>1, <1>3, <1>4

\* The table can be built entry by entry, however many there are.
LEMMA AfterExists ==
  ASSUME NEW l \in Nat, NEW cut, NEW early
  PROVE  \E f : AfterEntries(f, l, cut, early)
<1> DEFINE T == {k \in Nat : ~ \E f : AfterEntries(f, k, cut, early)}
<1>1. SUFFICES ASSUME T # {} PROVE FALSE
  OBVIOUS
<1>2. PICK k \in T : \A j \in T : ~(j < k)
  <2>1. T \in SUBSET Nat
    OBVIOUS
  <2> HIDE DEF T
  <2> QED  BY <1>1, <2>1, LeastNumber
<1>3. k \in Nat /\ ~ \E f : AfterEntries(f, k, cut, early)
  OBVIOUS
<1>4. CASE k = 0
  <2> DEFINE f == [i \in 0 .. 0 |-> [map |-> <<>>, visited |-> early]]
  <2>1. /\ f = [i \in 0 .. 0 |-> f[i]]
        /\ f[0] = [map |-> <<>>, visited |-> early]
        /\ \A i \in 1 .. 0 : f[i] = AfterEntry(f[i - 1], i, cut)
    <3>1. \A i \in 1 .. 0 : FALSE
      OBVIOUS
    <3>2. f = [i \in 0 .. 0 |-> f[i]]
      OBVIOUS
    <3>3. f[0] = [map |-> <<>>, visited |-> early]
      OBVIOUS
    <3> HIDE DEF f
    <3> QED  BY <3>1, <3>2, <3>3
  <2> HIDE DEF f
  <2>2. AfterEntries(f, 0, cut, early)
    BY <2>1, AfterIs
  <2> QED  BY <1>3, <1>4, <2>2
<1>5. CASE k # 0
  <2>1. k - 1 \in Nat /\ k - 1 < k
    BY <1>3, <1>5
  <2>2. PICK g : AfterEntries(g, k - 1, cut, early)
    BY <1>2, <2>1
  <2>3. /\ g[0] = [map |-> <<>>, visited |-> early]
        /\ \A i \in 1 .. k - 1 : g[i] = AfterEntry(g[i - 1], i, cut)
    <3>1. PICK m \in Nat : m = k - 1
      BY <2>1
    <3>2. AfterEntries(g, m, cut, early)
      BY <2>2, <3>1
    <3>3. /\ g[0] = [map |-> <<>>, visited |-> early]
          /\ \A i \in 1 .. m : g[i] = AfterEntry(g[i - 1], i, cut)
      BY <3>2, AfterIs
    <3> QED  BY <3>1, <3>3
  <2>4. PICK e : e = AfterEntry(g[k - 1], k, cut)
    OBVIOUS
  <2> DEFINE f == [i \in 0 .. k |-> IF i = k THEN e ELSE g[i]]
  <2>5. f = [i \in 0 .. k |-> f[i]] /\ \A i \in 0 .. k : f[i] = IF i = k THEN e ELSE g[i]
    OBVIOUS
  <2> HIDE DEF f
  <2>6. f[0] = [map |-> <<>>, visited |-> early]
    <3>1. 0 \in 0 .. k
      BY <1>3
    <3> QED  BY <1>5, <2>3, <2>5, <3>1
  <2>7. ASSUME NEW i \in 1 .. k PROVE f[i] = AfterEntry(f[i - 1], i, cut)
    <3>1. i \in 0 .. k /\ i - 1 \in 0 .. k /\ i - 1 # k
      BY <1>3
    <3>2. f[i - 1] = g[i - 1]
      BY <2>5, <3>1
    <3>3. CASE i = k
      BY <2>4, <2>5, <3>1, <3>2, <3>3
    <3>4. CASE i # k
      <4>1. i \in 1 .. k - 1
        BY <1>3, <3>4
      <4>2. f[i] = g[i]
        BY <2>5, <3>1, <3>4
      <4>3. g[i] = AfterEntry(g[i - 1], i, cut)
        BY <2>3, <4>1
      <4> QED  BY <3>2, <4>2, <4>3
    <3> QED  BY <3>3, <3>4
  <2>8. AfterEntries(f, k, cut, early)
    BY <1>3, <2>5, <2>6, <2>7, AfterIs
  <2> QED  BY <1>3, <2>8
<1> QED  BY <1>4, <1>5

\* The table behind a collection is what is there after the last entry.
LEMMA TableMovedIs ==
  ASSUME NEW cut, NEW early, Len(ptr2stable) \in Nat
  PROVE  \E f : /\ f[0] = [map |-> <<>>, visited |-> early]
                /\ \A i \in 1 .. Len(ptr2stable) : f[i] = AfterEntry(f[i - 1], i, cut)
                /\ ptr2stableMoved(cut, early) = f[Len(ptr2stable)].map
<1> DEFINE Is(f) == AfterEntries(f, Len(ptr2stable), cut, early)
           to == CHOOSE f : Is(f)
<1>1. Is(to)
  <2>1. \E f : Is(f)
    BY AfterExists
  <2> HIDE DEF Is
  <2> QED  BY <2>1
<1>2. ptr2stableMoved(cut, early) = to[Len(ptr2stable)].map
  BY DEF ptr2stableMoved, AfterEntries
<1>3. PICK l \in Nat : l = Len(ptr2stable)
  OBVIOUS
<1>4. PICK f : f = to
  OBVIOUS
<1>5. AfterEntries(f, l, cut, early)
  BY <1>1, <1>3, <1>4
<1> HIDE DEF to, Is
<1>6. /\ f[0] = [map |-> <<>>, visited |-> early]
      /\ \A i \in 1 .. l : f[i] = AfterEntry(f[i - 1], i, cut)
  <2>1. AfterEntries(f, l, cut, early) <=>
           /\ f = [i \in 0 .. l |-> f[i]]
           /\ f[0] = [map |-> <<>>, visited |-> early]
           /\ \A i \in 1 .. l : f[i] = AfterEntry(f[i - 1], i, cut)
    BY AfterIs
  <2> QED  BY <1>5, <2>1
<1> QED  BY <1>2, <1>3, <1>4, <1>6

----------------------------------------------------------------------------
\* The entries are records, of pointers, one for each.
TableShape ==
  /\ IsSeq(ptr2stable) /\ OnePerPointer(ptr2stable)
  /\ \A i \in DOMAIN ptr2stable :
       /\ ptr2stable[i] = [ptr |-> ptr2stable[i].ptr, name |-> ptr2stable[i].name]
       /\ ptr2stable[i].ptr \in Pointers

\* The thunks that can be replaced, and pointers that lead to no circle.
CutFits(cut, rank) ==
  RankedBy(rank, component) /\ cut \in SUBSET {s \in Selectors : component[s] # None}

\* No other entry comes to point to the object of entry i.
Alone(i, cut) ==
  /\ ptr2stable[i].ptr[1] \notin cut
  /\ \A j \in DOMAIN ptr2stable :
       ptr2stable[j].ptr[1] \in cut => stingyEval(ptr2stable[j].ptr, cut)[1] # ptr2stable[i].ptr[1]

TableSoFar(r, k, cut) ==
  /\ IsSeq(r.map) /\ OnePerPointer(r.map) /\ r.visited \subseteq cut
  /\ \A t \in DOMAIN r.map :
       /\ r.map[t].ptr \in Pointers
       /\ r.map[t] = [ptr |-> r.map[t].ptr, name |-> r.map[t].name]
       /\ \E j \in 1 .. k : /\ r.map[t].name = ptr2stable[j].name
                            /\ r.map[t].ptr[1] = stingyEval(ptr2stable[j].ptr, cut)[1]
  /\ \A i \in 1 .. k : Alone(i, cut) => \E t \in DOMAIN r.map : r.map[t] = ptr2stable[i]

\* Evacuating the pointer of an entry gives a pointer to what its object becomes.
LEMMA EvacuateFacts ==
  ASSUME NEW cut, NEW rank, CutFits(cut, rank), NEW visited, visited \subseteq cut,
         NEW p \in Pointers
  PROVE  /\ evacuateClosure(p, cut, visited) \in Pointers
         /\ evacuateClosure(p, cut, visited)[1] = stingyEval(p, cut)[1]
         /\ p[1] \notin cut => evacuateClosure(p, cut, visited) = p
<1>1. PICK q : q = stingyEval(p, cut)
  OBVIOUS
<1>2. q \in Pointers /\ (p[1] \notin cut => q = p)
  BY <1>1, StingyEnds DEF CutFits
<1>3. CASE p[1] \in visited
  <2>1. p[1] \in Selectors /\ p[2] = 0
    BY <1>3 DEF CutFits, Pointers
  <2>2. q[1] \in NamedObjects
    BY <1>2 DEF Pointers
  <2>3. <<q[1], p[2]>> \in Pointers
    BY <2>1, <2>2, SelectorsAssumption DEF Pointers
  <2>4. evacuateClosure(p, cut, visited) = <<q[1], p[2]>>
    BY <1>1, <1>3 DEF evacuateClosure
  <2> QED  BY <1>1, <1>3, <2>3, <2>4
<1>4. CASE p[1] \notin visited
  <2>1. evacuateClosure(p, cut, visited) = q
    BY <1>1, <1>4 DEF evacuateClosure
  <2> QED  BY <1>1, <1>2, <2>1
<1> QED  BY <1>3, <1>4

\* One entry more keeps what is true of the table so far.
LEMMA TableGrows ==
  ASSUME NEW cut, NEW rank, CutFits(cut, rank), TableShape,
         NEW k \in DOMAIN ptr2stable, NEW r, TableSoFar(r, k - 1, cut)
  PROVE  TableSoFar(AfterEntry(r, k, cut), k, cut)
<1>1. PICK l \in Nat : l = Len(ptr2stable) /\ DOMAIN ptr2stable = 1 .. l
  BY SeqHas DEF TableShape
<1>2. PICK p, n : /\ p \in Pointers /\ p = ptr2stable[k].ptr /\ n = ptr2stable[k].name
                  /\ ptr2stable[k] = [ptr |-> p, name |-> n]
  BY DEF TableShape
<1>3. PICK q : q = evacuateClosure(p, cut, r.visited)
  OBVIOUS
<1>4. q \in Pointers /\ q[1] = stingyEval(p, cut)[1] /\ (p[1] \notin cut => q = p)
  <2>1. r.visited \subseteq cut
    BY DEF TableSoFar
  <2>2. p \in Pointers
    BY <1>2
  <2> QED  BY <1>3, <2>1, <2>2, EvacuateFacts
<1>5. PICK m, s : m = r.map /\ s = set(m, q, n)
  OBVIOUS
<1>6. PICK r2 : r2 = AfterEntry(r, k, cut)
  OBVIOUS
<1>7. r2.map = s /\ r2.visited \subseteq cut
  BY <1>2, <1>3, <1>5, <1>6 DEF AfterEntry, TableSoFar
<1>8. IsSeq(m) /\ OnePerPointer(m)
  BY <1>5 DEF TableSoFar
<1>9. PICK e : e = [ptr |-> q, name |-> n]
  OBVIOUS
<1>10. /\ IsSeq(s) /\ OnePerPointer(s)
       /\ \A i \in DOMAIN s : s[i] = e \/ (i \in DOMAIN m /\ s[i] = m[i])
       /\ \E i \in DOMAIN s : s[i] = e
       /\ \A i \in DOMAIN m : i \in DOMAIN s /\ (m[i].ptr # q => s[i] = m[i])
  BY <1>5, <1>8, <1>9, SetFacts
<1>11. /\ k \in 1 .. k
       /\ \A j \in 1 .. k - 1 : j \in 1 .. k /\ j # k /\ j \in DOMAIN ptr2stable
       /\ \A j \in 1 .. k : j = k \/ j \in 1 .. k - 1
  BY <1>1
<1>12. ASSUME NEW t \in DOMAIN s
       PROVE  /\ s[t].ptr \in Pointers
              /\ s[t] = [ptr |-> s[t].ptr, name |-> s[t].name]
              /\ \E j \in 1 .. k : /\ s[t].name = ptr2stable[j].name
                                   /\ s[t].ptr[1] = stingyEval(ptr2stable[j].ptr, cut)[1]
  <2>1. CASE s[t] = e
    BY <1>2, <1>4, <1>9, <1>11, <2>1
  <2>2. CASE t \in DOMAIN m /\ s[t] = m[t]
    BY <1>5, <1>11, <2>2 DEF TableSoFar
  <2> QED  BY <1>10, <2>1, <2>2
<1>13. ASSUME NEW i \in 1 .. k, Alone(i, cut)
       PROVE  \E t \in DOMAIN s : s[t] = ptr2stable[i]
  <2>1. CASE i = k
    <3>1. p[1] \notin cut
      BY <1>2, <1>13, <2>1 DEF Alone
    <3> QED  BY <1>2, <1>4, <1>9, <1>10, <2>1, <3>1
  <2>2. CASE i # k
    <3>1. i \in 1 .. k - 1 /\ i \in DOMAIN ptr2stable
      BY <1>11, <2>2
    <3>2. PICK t \in DOMAIN m : m[t] = ptr2stable[i]
      BY <1>5, <1>13, <3>1 DEF TableSoFar
    <3>3. ptr2stable[i].ptr # q
      <4>1. CASE p[1] \in cut
        BY <1>2, <1>4, <1>13, <4>1 DEF Alone
      <4>2. CASE p[1] \notin cut
        BY <1>2, <1>4, <2>2, <3>1, <4>2 DEF TableShape, OnePerPointer
      <4> QED  BY <4>1, <4>2
    <3> QED  BY <1>10, <3>2, <3>3
  <2> QED  BY <2>1, <2>2
<1>14. TableSoFar(r2, k, cut)
  BY <1>7, <1>10, <1>12, <1>13 DEF TableSoFar
<1> QED  BY <1>6, <1>14

\* So it is true of the table behind a collection.
LEMMA TableMoved ==
  ASSUME NEW cut, NEW rank, CutFits(cut, rank), TableShape, NEW early, early \subseteq cut
  PROVE  \E r : /\ TableSoFar(r, Len(ptr2stable), cut)
                /\ ptr2stableMoved(cut, early) = r.map
<1>1. PICK l \in Nat : l = Len(ptr2stable) /\ DOMAIN ptr2stable = 1 .. l
  BY SeqHas DEF TableShape
<1>2. PICK f : /\ f[0] = [map |-> <<>>, visited |-> early]
               /\ \A i \in 1 .. l : f[i] = AfterEntry(f[i - 1], i, cut)
               /\ ptr2stableMoved(cut, early) = f[l].map
  BY <1>1, TableMovedIs
<1> DEFINE T == {k \in 0 .. l : ~TableSoFar(f[k], k, cut)}
<1>3. T = {} => TableSoFar(f[l], l, cut)
  BY <1>1
<1>4. SUFFICES ASSUME T # {} PROVE FALSE
  BY <1>1, <1>2, <1>3
<1>5. PICK k \in T : \A j \in T : ~(j < k)
  <2>1. T \in SUBSET Nat
    OBVIOUS
  <2> HIDE DEF T
  <2> QED  BY <1>4, <2>1, LeastNumber
<1>6. k \in 0 .. l /\ ~TableSoFar(f[k], k, cut)
  OBVIOUS
<1>7. CASE k = 0
  <2>1. PICK m : m = <<>>
    OBVIOUS
  <2>2. IsSeq(m) /\ DOMAIN m = {}
    <3>1. <<>> \in Seq({}) /\ DOMAIN <<>> = {}
      OBVIOUS
    <3>2. {m[i] : i \in DOMAIN m} = {}
      BY <2>1, <3>1
    <3> QED  BY <2>1, <3>1, <3>2 DEF IsSeq
  <2>3. f[0].map = m /\ f[0].visited \subseteq cut
    BY <1>2, <2>1
  <2>4. \A i \in 1 .. 0 : FALSE
    OBVIOUS
  <2>5. TableSoFar(f[0], 0, cut)
    BY <2>2, <2>3, <2>4 DEF TableSoFar, OnePerPointer
  <2> QED  BY <1>6, <1>7, <2>5
<1>8. CASE k # 0
  <2>1. k \in DOMAIN ptr2stable /\ k - 1 \in 0 .. l /\ k - 1 < k
    BY <1>1, <1>6, <1>8
  <2>2. TableSoFar(f[k - 1], k - 1, cut)
    BY <1>5, <2>1
  <2>3. TableSoFar(AfterEntry(f[k - 1], k, cut), k, cut)
    BY <2>1, <2>2, TableGrows
  <2> QED  BY <1>1, <1>2, <1>6, <2>1, <2>3
<1> QED  BY <1>7, <1>8

----------------------------------------------------------------------------
\* What the table and the names are, and that selecting leads to no circle.
NamesShape ==
  /\ TableShape /\ IsSeq(names)
  /\ \A n \in DOMAIN names : names[n].obj \in NamedObjects
  /\ \A s \in Selectors : component[s] # None => Remains(component[s][1])
  /\ component = [s \in Selectors |-> component[s]]
  /\ \E rank : RankedBy(rank, component) /\ RankedBy(rank, replaced)

\* The inductive invariant of stable names.
NamesInv ==
  /\ NamesShape
  /\ \A i \in DOMAIN ptr2stable :
       Remains(ptr2stable[i].ptr[1]) /\ ptr2stable[i].name \in DOMAIN names
  /\ EntryNamesItsObject

\* The inductive invariant implies that names are sound.
LEMMA NamesInvSound == NamesInv => NamesSound
<1> SUFFICES ASSUME NamesInv PROVE NamesSound
  OBVIOUS
<1>1. IsInjective([i \in DOMAIN ptr2stable |-> ptr2stable[i].ptr])
  BY DEF NamesInv, NamesShape, TableShape, OnePerPointer, IsInjective
<1>2. TableTyped
  BY <1>1 DEF NamesInv, NamesShape, TableShape, TableTyped
<1> QED  BY <1>2 DEF NamesInv, NamesSound

\* There are no names in the beginning.
LEMMA NamesInitInv == NamesInit => NamesInv
<1> SUFFICES ASSUME NamesInit PROVE NamesInv
  OBVIOUS
<1>1. \A m : m = <<>> => IsSeq(m) /\ DOMAIN m = {}
  <2>1. ASSUME NEW m, m = <<>> PROVE IsSeq(m) /\ DOMAIN m = {}
    <3>1. <<>> \in Seq({}) /\ DOMAIN <<>> = {}
      OBVIOUS
    <3>2. {m[i] : i \in DOMAIN m} = {}
      BY <2>1, <3>1
    <3> QED  BY <2>1, <3>1, <3>2 DEF IsSeq
  <2> QED  BY <2>1
<1>2. /\ IsSeq(ptr2stable) /\ DOMAIN ptr2stable = {}
      /\ IsSeq(names) /\ DOMAIN names = {}
  BY <1>1 DEF NamesInit
<1>3. TableShape
  BY <1>2 DEF TableShape, OnePerPointer
<1>4. \A s \in Selectors : component[s] = None /\ replaced[s] = None
  BY DEF NamesInit
<1>5. \E rank : RankedBy(rank, component) /\ RankedBy(rank, replaced)
  <2> DEFINE rank == [o \in NamedObjects |-> 0]
  <2>1. rank \in [NamedObjects -> Nat]
    OBVIOUS
  <2> HIDE DEF rank
  <2> QED  BY <1>4, <2>1 DEF RankedBy
<1>6. component = [s \in Selectors |-> component[s]]
  BY DEF NamesInit
<1>7. NamesShape
  BY <1>2, <1>3, <1>4, <1>5, <1>6 DEF NamesShape
<1> QED  BY <1>2, <1>7 DEF NamesInv, EntryNamesItsObject

\* A new name is for an object no entry names.
LEMMA MakeKeepsInv ==
  ASSUME NamesInv, NEW p \in Pointers, makeStableName(p)
  PROVE  NamesInv' /\ KeptUnlessReplaced
<1>1. PICK lt \in Nat, ln \in Nat :
        /\ lt = Len(ptr2stable) /\ DOMAIN ptr2stable = 1 .. lt
        /\ ln = Len(names) /\ DOMAIN names = 1 .. ln
  BY SeqHas DEF NamesInv, NamesShape, TableShape
<1>2. PICK t, t2, n2 : t = ptr2stable /\ t2 = ptr2stable' /\ n2 = names'
  OBVIOUS
<1>3. PICK w, e : w = [obj |-> p[1], sn |-> Len(ptr2stable)] /\ e = [ptr |-> p, name |-> ln + 1]
  OBVIOUS
<1>4. /\ IsSeq(n2) /\ DOMAIN n2 = 1 .. ln + 1 /\ n2[ln + 1] = w
      /\ \A i \in 1 .. ln : n2[i] = names[i]
  <2>1. n2 = Append(names, w)
    BY <1>2, <1>3 DEF makeStableName
  <2>2. /\ IsSeq(n2) /\ Len(n2) = ln + 1 /\ n2[ln + 1] = w
        /\ \A i \in 1 .. ln : n2[i] = names[i]
    BY <1>1, <2>1, AppendedSeq DEF NamesInv, NamesShape
  <2> QED  BY <2>2, SeqHas
<1>5. \A i \in DOMAIN t : t[i].ptr # p
  BY <1>2 DEF makeStableName, EntriesOf
<1>6. /\ IsSeq(t2) /\ OnePerPointer(t2)
      /\ \A i \in DOMAIN t2 : t2[i] = e \/ (i \in DOMAIN t /\ t2[i] = t[i])
      /\ \A i \in DOMAIN t : i \in DOMAIN t2 /\ t2[i] = t[i]
  <2>1. t2 = set(t, p, ln + 1)
    BY <1>1, <1>2 DEF makeStableName
  <2>2. IsSeq(t) /\ OnePerPointer(t)
    BY <1>2 DEF NamesInv, NamesShape, TableShape
  <2> QED  BY <1>3, <1>5, <2>1, <2>2, SetFacts
<1>7. /\ replaced' = replaced /\ component' = component /\ Remains(p[1])
      /\ p[1] \in NamedObjects
  BY DEF makeStableName, Pointers
<1>8. /\ e.ptr = p /\ e.name = ln + 1 /\ w.obj = p[1]
      /\ e = [ptr |-> e.ptr, name |-> e.name]
  BY <1>3
<1>9. \A i \in DOMAIN n2 : n2[i].obj \in NamedObjects
  <2>1. \A i \in 1 .. ln + 1 : i = ln + 1 \/ i \in 1 .. ln
    BY <1>1
  <2>2. \A i \in 1 .. ln : names[i].obj \in NamedObjects
    BY <1>1 DEF NamesInv, NamesShape
  <2> QED  BY <1>4, <1>7, <1>8, <2>1, <2>2
<1>10. TableShape'
  <2>1. \A i \in DOMAIN t2 : t2[i] = [ptr |-> t2[i].ptr, name |-> t2[i].name] /\ t2[i].ptr \in Pointers
    BY <1>2, <1>6, <1>8 DEF NamesInv, NamesShape, TableShape
  <2> QED  BY <1>2, <1>6, <2>1 DEF TableShape, OnePerPointer
<1>11. NamesShape'
  <2>1. \E rank : RankedBy(rank, component) /\ RankedBy(rank, replaced)
    BY DEF NamesInv, NamesShape
  <2>2. (\E rank : RankedBy(rank, component) /\ RankedBy(rank, replaced))'
    BY <1>7, <2>1 DEF RankedBy
  <2>3. IsSeq(names)'
    BY <1>2, <1>4
  <2>4. (\A n \in DOMAIN names : names[n].obj \in NamedObjects)'
    BY <1>2, <1>9
  <2>5. (\A s \in Selectors : component[s] # None => Remains(component[s][1]))'
    BY <1>7 DEF NamesInv, NamesShape, Remains
  <2>6. (component = [s \in Selectors |-> component[s]])'
    BY <1>7 DEF NamesInv, NamesShape
  <2> QED  BY <1>10, <2>2, <2>3, <2>4, <2>5, <2>6 DEF NamesShape
<1>12. \A o : Now(o)' = Now(o)
  BY <1>7 DEF Now, Remains
<1>13. Now(p[1]) = p[1]
  <2>1. PICK rank : RankedBy(rank, replaced)
    BY DEF NamesInv, NamesShape
  <2>2. p[1] \notin Gone(replaced)
    BY <1>7 DEF Gone, Remains
  <2> QED  BY <1>7, <2>1, <2>2, NowIsNowIn, NowSteps
<1>14. ASSUME NEW i \in DOMAIN t2
       PROVE  /\ Remains(t2[i].ptr[1]) /\ t2[i].name \in DOMAIN n2
              /\ Now(n2[t2[i].name].obj) = t2[i].ptr[1]
  <2>1. CASE t2[i] = e
    <3>1. ln + 1 \in 1 .. ln + 1
      BY <1>1
    <3> QED  BY <1>4, <1>7, <1>8, <1>13, <2>1, <3>1
  <2>2. CASE i \in DOMAIN t /\ t2[i] = t[i]
    <3>1. /\ Remains(t[i].ptr[1]) /\ t[i].name \in 1 .. ln
          /\ Now(names[t[i].name].obj) = t[i].ptr[1]
      BY <1>1, <1>2, <2>2 DEF NamesInv, EntryNamesItsObject
    <3>2. t[i].name \in 1 .. ln + 1
      BY <1>1, <3>1
    <3> QED  BY <1>4, <2>2, <3>1, <3>2
  <2> QED  BY <1>6, <2>1, <2>2
<1>15. NamesInv'
  <2>1. (\A i \in DOMAIN ptr2stable :
           Remains(ptr2stable[i].ptr[1]) /\ ptr2stable[i].name \in DOMAIN names)'
    BY <1>2, <1>7, <1>14 DEF Remains
  <2>2. EntryNamesItsObject'
    BY <1>2, <1>12, <1>14 DEF EntryNamesItsObject
  <2> QED  BY <1>11, <2>1, <2>2 DEF NamesInv
<1>16. KeptUnlessReplaced
  BY <1>2, <1>6 DEF KeptUnlessReplaced
<1> QED  BY <1>15, <1>16

\* An evaluated pair leads to something that leads nowhere yet.
LEMMA EvaluateKeepsInv ==
  ASSUME NamesInv, NEW s \in Selectors, NEW p \in Pointers, EvaluatePair(s, p)
  PROVE  NamesInv' /\ KeptUnlessReplaced
<1>1. /\ component[s] = None /\ Remains(p[1]) /\ p[1] # s
      /\ p[1] \in Selectors => component[p[1]] = None
      /\ component' = [component EXCEPT ![s] = p]
      /\ ptr2stable' = ptr2stable /\ names' = names /\ replaced' = replaced
      /\ p[1] \in NamedObjects
  BY DEF EvaluatePair, Pointers
<1>2. PICK c, c2 : c = component /\ c2 = component'
  OBVIOUS
<1>3. /\ c2 = [x \in Selectors |-> IF x = s THEN p ELSE c[x]]
      /\ \A x \in Selectors : c2[x] = IF x = s THEN p ELSE c[x]
  <2>1. c = [x \in Selectors |-> c[x]]
    BY <1>2 DEF NamesInv, NamesShape
  <2>2. c2 = [c EXCEPT ![s] = p]
    BY <1>1, <1>2
  <2> QED  BY <2>1, <2>2
<1>4. PICK rank : RankedBy(rank, c) /\ RankedBy(rank, replaced)
  BY <1>2 DEF NamesInv, NamesShape
<1> DEFINE r2 == [o \in NamedObjects |-> IF o = p[1] THEN 0 ELSE rank[o] + 1]
<1>5. \A o \in NamedObjects : rank[o] \in Nat
  BY <1>4 DEF RankedBy
<1>6. /\ r2 \in [NamedObjects -> Nat]
      /\ \A o \in NamedObjects : r2[o] = IF o = p[1] THEN 0 ELSE rank[o] + 1
  BY <1>5
<1> HIDE DEF r2
<1>7. Selectors \in SUBSET NamedObjects
  BY SelectorsAssumption
<1>8. ASSUME NEW x \in Selectors, x # p[1], NEW q \in Pointers, rank[q[1]] < rank[x] \/ q = p
      PROVE  r2[q[1]] < r2[x]
  <2>1. x \in NamedObjects /\ q[1] \in NamedObjects
    BY <1>7 DEF Pointers
  <2>2. r2[x] = rank[x] + 1 /\ rank[x] \in Nat /\ rank[q[1]] \in Nat
    BY <1>5, <1>6, <1>8, <2>1
  <2>3. r2[q[1]] = 0 \/ r2[q[1]] = rank[q[1]] + 1
    BY <1>6, <2>1
  <2>4. q[1] = p[1] => r2[q[1]] = 0
    BY <1>6, <2>1
  <2> QED  BY <1>8, <2>2, <2>3, <2>4
<1>9. RankedBy(r2, c2)
  <2>1. ASSUME NEW x \in Selectors, c2[x] # None
        PROVE  c2[x] \in Pointers /\ r2[c2[x][1]] < r2[x]
    <3>1. CASE x = s
      BY <1>1, <1>3, <1>8, <3>1
    <3>2. CASE x # s
      <4>1. c[x] \in Pointers /\ rank[c[x][1]] < rank[x] /\ c2[x] = c[x] /\ c[x] # None
        BY <1>3, <1>4, <2>1, <3>2 DEF RankedBy
      <4>2. x # p[1]
        BY <1>1, <1>2, <4>1
      <4> QED  BY <1>8, <4>1, <4>2
    <3> QED  BY <3>1, <3>2
  <2> QED  BY <1>6, <2>1 DEF RankedBy
<1>10. RankedBy(r2, replaced)
  <2>1. ASSUME NEW x \in Selectors, replaced[x] # None
        PROVE  replaced[x] \in Pointers /\ r2[replaced[x][1]] < r2[x]
    <3>1. replaced[x] \in Pointers /\ rank[replaced[x][1]] < rank[x]
      BY <1>4, <2>1 DEF RankedBy
    <3>2. x # p[1]
      BY <1>1, <2>1 DEF Remains
    <3> QED  BY <1>8, <3>1, <3>2
  <2> QED  BY <1>6, <2>1 DEF RankedBy
<1>11. NamesShape'
  <2>1. (\E rk : RankedBy(rk, component) /\ RankedBy(rk, replaced))'
    <3>1. RankedBy(r2, component') /\ RankedBy(r2, replaced')
      BY <1>1, <1>2, <1>9, <1>10
    <3> QED  BY <3>1 DEF RankedBy
  <2>2. TableShape' /\ IsSeq(names)' /\ (\A n \in DOMAIN names : names[n].obj \in NamedObjects)'
    BY <1>1 DEF NamesInv, NamesShape, TableShape
  <2>3. (\A x \in Selectors : component[x] # None => Remains(component[x][1]))'
    BY <1>1, <1>2, <1>3 DEF NamesInv, NamesShape, Remains
  <2>4. c2 = [x \in Selectors |-> c2[x]]
    BY <1>3
  <2>5. (component = [x \in Selectors |-> component[x]])'
    BY <1>2, <2>4
  <2> QED  BY <2>1, <2>2, <2>3, <2>5 DEF NamesShape
<1>12. \A o : Now(o)' = Now(o)
  BY <1>1 DEF Now, Remains
<1>13. NamesInv'
  BY <1>1, <1>11, <1>12 DEF NamesInv, EntryNamesItsObject, Remains
<1>14. KeptUnlessReplaced
  BY <1>1 DEF KeptUnlessReplaced
<1> QED  BY <1>13, <1>14

\* A collection moves every entry to what its object has become.
LEMMA MoveKeepsInv ==
  ASSUME NamesInv, moveNames
  PROVE  NamesInv' /\ KeptUnlessReplaced
<1>1. PICK cut \in SUBSET {s \in Selectors : component[s] # None /\ Remains(s)} :
        \E early \in SUBSET cut :
          /\ ptr2stable' = ptr2stableMoved(cut, early)
          /\ replaced' = [s \in Selectors |-> IF s \in cut THEN stingyEval(component[s], cut) ELSE replaced[s]]
          /\ component' = [s \in Selectors |->
                             IF component[s] = None THEN None ELSE stingyEval(component[s], cut)]
          /\ UNCHANGED names
  BY DEF moveNames
<1>2. PICK early \in SUBSET cut :
          /\ ptr2stable' = ptr2stableMoved(cut, early)
          /\ replaced' = [s \in Selectors |-> IF s \in cut THEN stingyEval(component[s], cut) ELSE replaced[s]]
          /\ component' = [s \in Selectors |->
                             IF component[s] = None THEN None ELSE stingyEval(component[s], cut)]
          /\ names' = names
  BY <1>1
<1>3. PICK rank : RankedBy(rank, component) /\ RankedBy(rank, replaced)
  BY DEF NamesInv, NamesShape
<1>4. CutFits(cut, rank)
  BY <1>3 DEF CutFits
<1>5. PICK eval : eval = [q \in Pointers |-> stingyEval(q, cut)]
  OBVIOUS
<1>6. \A q \in Pointers :
        /\ eval[q] = stingyEval(q, cut) /\ eval[q] \in Pointers /\ eval[q][1] \notin cut
        /\ rank[eval[q][1]] <= rank[q[1]]
        /\ q[1] \notin cut => eval[q] = q
        /\ q[1] \in cut => /\ eval[q] = stingyEval(component[q[1]], cut)
                           /\ \E s \in cut : eval[q] = component[s]
  BY <1>4, <1>5, StingyEnds DEF CutFits
<1>7. \A q \in Pointers : q[1] \in NamedObjects /\ q # None
  BY SelectorsAssumption DEF Pointers
<1>8. \A s \in Selectors : component[s] # None =>
        /\ component[s] \in Pointers /\ rank[component[s][1]] < rank[s]
        /\ Remains(component[s][1])
  BY <1>3 DEF RankedBy, NamesInv, NamesShape
<1>9. PICK c2, p2, t2 : c2 = component' /\ p2 = replaced' /\ t2 = ptr2stable'
  OBVIOUS
<1>10. /\ c2 = [s \in Selectors |-> c2[s]]
       /\ \A s \in Selectors : /\ component[s] = None => c2[s] = None
                               /\ component[s] # None => c2[s] = eval[component[s]]
  BY <1>2, <1>6, <1>8, <1>9
<1>11. \A s \in Selectors : /\ s \in cut => /\ p2[s] = eval[component[s]] /\ component[s] # None
                                            /\ p2[s] # None /\ replaced[s] = None
                            /\ s \notin cut => p2[s] = replaced[s]
  BY <1>2, <1>6, <1>7, <1>8, <1>9 DEF Remains
<1>12. \A s \in Selectors : component[s] # None =>
         eval[component[s]] \in Pointers /\ rank[eval[component[s]][1]] < rank[s]
  <2>1. ASSUME NEW s \in Selectors, component[s] # None
        PROVE  eval[component[s]] \in Pointers /\ rank[eval[component[s]][1]] < rank[s]
    <3>1. PICK a, b : a = component[s][1] /\ b = eval[component[s]][1]
      OBVIOUS
    <3>2. /\ a \in NamedObjects /\ b \in NamedObjects /\ s \in NamedObjects
          /\ eval[component[s]] \in Pointers
          /\ rank[b] <= rank[a] /\ rank[a] < rank[s]
      BY <1>6, <1>7, <1>8, <2>1, <3>1, SelectorsAssumption
    <3>3. rank[a] \in Nat /\ rank[b] \in Nat /\ rank[s] \in Nat
      BY <1>3, <3>2 DEF RankedBy
    <3> QED  BY <3>1, <3>2, <3>3
  <2> QED  BY <2>1
<1>13. RankedBy(rank, c2) /\ RankedBy(rank, p2)
  BY <1>3, <1>10, <1>11, <1>12 DEF RankedBy
<1>14. \A o : Remains(o)' <=> Remains(o) /\ o \notin cut
  <2>1. \A o : Remains(o)' <=> (o \in Selectors => p2[o] = None)
    BY <1>9 DEF Remains
  <2>2. cut \in SUBSET Selectors
    OBVIOUS
  <2> QED  BY <1>11, <2>1, <2>2 DEF Remains
<1>15. PICK r : TableSoFar(r, Len(ptr2stable), cut) /\ t2 = r.map
  <2>1. TableShape
    BY DEF NamesInv, NamesShape
  <2> QED  BY <1>2, <1>4, <1>9, <2>1, TableMoved
<1>16. PICK l \in Nat : l = Len(ptr2stable) /\ DOMAIN ptr2stable = 1 .. l
  BY SeqHas DEF NamesInv, NamesShape, TableShape
<1>17. /\ IsSeq(t2) /\ OnePerPointer(t2)
       /\ \A i \in DOMAIN t2 :
            /\ t2[i].ptr \in Pointers
            /\ t2[i] = [ptr |-> t2[i].ptr, name |-> t2[i].name]
            /\ \E j \in DOMAIN ptr2stable : /\ t2[i].name = ptr2stable[j].name
                                            /\ t2[i].ptr[1] = stingyEval(ptr2stable[j].ptr, cut)[1]
       /\ \A i \in DOMAIN ptr2stable : Alone(i, cut) => \E t \in DOMAIN t2 : t2[t] = ptr2stable[i]
  BY <1>15, <1>16 DEF TableSoFar
<1>18. \A j \in DOMAIN ptr2stable :
         /\ ptr2stable[j].ptr \in Pointers /\ Remains(ptr2stable[j].ptr[1])
         /\ ptr2stable[j].name \in DOMAIN names
         /\ names[ptr2stable[j].name].obj \in NamedObjects
         /\ Now(names[ptr2stable[j].name].obj) = ptr2stable[j].ptr[1]
  BY DEF NamesInv, NamesShape, TableShape, EntryNamesItsObject
<1>19. \A q \in Pointers : Remains(q[1]) => Remains(eval[q][1]) /\ Remains(eval[q][1])'
  <2>1. ASSUME NEW q \in Pointers, Remains(q[1]) PROVE Remains(eval[q][1])
    <3>1. CASE q[1] \notin cut
      BY <1>6, <2>1, <3>1
    <3>2. CASE q[1] \in cut
      <4>1. PICK s \in cut : eval[q] = component[s]
        BY <1>6, <3>2
      <4> QED  BY <1>8, <4>1
    <3> QED  BY <3>1, <3>2
  <2> QED  BY <1>6, <1>14, <2>1
<1>20. NamesShape'
  <2>1. TableShape'
    BY <1>9, <1>17 DEF TableShape, OnePerPointer
  <2>2. IsSeq(names)' /\ (\A n \in DOMAIN names : names[n].obj \in NamedObjects)'
    BY <1>2 DEF NamesInv, NamesShape
  <2>3. (\A s \in Selectors : component[s] # None => Remains(component[s][1]))'
    <3>1. ASSUME NEW s \in Selectors, c2[s] # None PROVE Remains(c2[s][1])'
      <4>1. component[s] # None /\ c2[s] = eval[component[s]]
        BY <1>10, <3>1
      <4> QED  BY <1>8, <1>19, <4>1
    <3> QED  BY <1>9, <3>1
  <2>4. (component = [s \in Selectors |-> component[s]])'
    BY <1>9, <1>10
  <2>5. (\E rk : RankedBy(rk, component) /\ RankedBy(rk, replaced))'
    <3>1. RankedBy(rank, component') /\ RankedBy(rank, replaced')
      BY <1>9, <1>13
    <3> QED  BY <3>1 DEF RankedBy
  <2> QED  BY <2>1, <2>2, <2>3, <2>4, <2>5 DEF NamesShape
<1>21. \A o : Now(o)' = NowIn(p2, o) /\ Now(o) = NowIn(replaced, o)
  BY <1>9, NowIsNowIn DEF Now, NowIn, Remains
<1>22. \A q \in Pointers : Remains(q[1]) => NowIn(p2, q[1]) = eval[q][1]
  <2>1. ASSUME NEW q \in Pointers, Remains(q[1]) PROVE NowIn(p2, q[1]) = eval[q][1]
    <3>1. \A o \in NamedObjects : Remains(o)' => NowIn(p2, o) = o
      <4>1. \A o \in NamedObjects : Remains(o)' => o \notin Gone(p2)
        BY <1>9 DEF Remains, Gone
      <4> QED  BY <1>13, <4>1, NowSteps
    <3>2. CASE q[1] \notin cut
      BY <1>6, <1>7, <1>14, <2>1, <3>1, <3>2
    <3>3. CASE q[1] \in cut
      <4>1. PICK s \in cut : s = q[1]
        BY <3>3
      <4>2. component[s] \in Pointers /\ component[s] # None /\ s \in Selectors
        BY <1>8
      <4>3. eval[q] = eval[component[s]] /\ p2[s] = eval[q] /\ p2[s] # None
        BY <1>6, <1>11, <4>1, <4>2
      <4>4. s \in Gone(p2) /\ s \in NamedObjects
        BY <4>2, <4>3, SelectorsAssumption DEF Gone
      <4>5. NowIn(p2, s) = NowIn(p2, eval[q][1])
        BY <1>13, <4>3, <4>4, NowSteps
      <4>6. eval[q][1] \in NamedObjects /\ Remains(eval[q][1])'
        BY <1>6, <1>7, <1>19, <2>1
      <4> QED  BY <3>1, <4>1, <4>5, <4>6
    <3> QED  BY <3>2, <3>3
  <2> QED  BY <2>1
<1>23. \A o \in NamedObjects : NowIn(p2, o) = NowIn(p2, NowIn(replaced, o))
  <2>1. \A q \in Gone(replaced) : p2[q] = replaced[q]
    BY <1>11 DEF Gone
  <2> QED  BY <1>3, <1>13, <2>1, NowLater
<1>24. ASSUME NEW i \in DOMAIN t2
       PROVE  /\ Remains(t2[i].ptr[1])' /\ t2[i].name \in DOMAIN names
              /\ NowIn(p2, names[t2[i].name].obj) = t2[i].ptr[1]
  <2>1. PICK j \in DOMAIN ptr2stable : /\ t2[i].name = ptr2stable[j].name
                                       /\ t2[i].ptr[1] = stingyEval(ptr2stable[j].ptr, cut)[1]
    BY <1>17
  <2>2. PICK q \in Pointers, o \in NamedObjects :
          /\ q = ptr2stable[j].ptr /\ o = names[ptr2stable[j].name].obj
          /\ Remains(q[1]) /\ NowIn(replaced, o) = q[1]
    BY <1>18, <1>21
  <2>3. t2[i].ptr[1] = eval[q][1]
    BY <1>6, <2>1, <2>2
  <2>4. NowIn(p2, o) = eval[q][1]
    BY <1>22, <1>23, <2>2
  <2> QED  BY <1>18, <1>19, <2>1, <2>2, <2>3, <2>4
<1>25. NamesInv'
  <2>1. (\A i \in DOMAIN ptr2stable :
           Remains(ptr2stable[i].ptr[1]) /\ ptr2stable[i].name \in DOMAIN names)'
    BY <1>2, <1>9, <1>24
  <2>2. EntryNamesItsObject'
    BY <1>2, <1>9, <1>21, <1>24 DEF EntryNamesItsObject
  <2> QED  BY <1>20, <2>1, <2>2 DEF NamesInv
<1>26. KeptUnlessReplaced
  <2>1. ASSUME NEW i \in DOMAIN ptr2stable,
               ~ \E s \in Selectors : /\ p2[s] # replaced[s]
                                      /\ s = ptr2stable[i].ptr[1] \/ p2[s][1] = ptr2stable[i].ptr[1]
        PROVE  \E j \in DOMAIN t2 : t2[j] = ptr2stable[i]
    <3>1. ptr2stable[i].ptr[1] \notin cut
      BY <1>11, <2>1
    <3>2. ASSUME NEW j \in DOMAIN ptr2stable, ptr2stable[j].ptr[1] \in cut
          PROVE  stingyEval(ptr2stable[j].ptr, cut)[1] # ptr2stable[i].ptr[1]
      <4>1. PICK s \in cut : s = ptr2stable[j].ptr[1]
        BY <3>2
      <4>2. /\ ptr2stable[j].ptr \in Pointers
            /\ stingyEval(ptr2stable[j].ptr, cut) = stingyEval(component[s], cut)
        BY <1>6, <1>18, <4>1
      <4>3. p2[s] = stingyEval(component[s], cut) /\ p2[s] # replaced[s]
        BY <1>6, <1>8, <1>11
      <4> QED  BY <2>1, <4>2, <4>3
    <3>3. Alone(i, cut)
      BY <3>1, <3>2 DEF Alone
    <3> QED  BY <1>17, <3>3
  <2> QED  BY <1>9, <2>1 DEF KeptUnlessReplaced
<1> QED  BY <1>25, <1>26

\* Every step keeps the inductive invariant, and the entries that are not disturbed.
LEMMA NamesStep == NamesInv /\ [NamesNext]_namesVars => NamesInv' /\ KeptUnlessReplaced
<1> SUFFICES ASSUME NamesInv, [NamesNext]_namesVars PROVE NamesInv' /\ KeptUnlessReplaced
  OBVIOUS
<1>1. ASSUME NEW p \in Pointers, makeStableName(p) PROVE NamesInv' /\ KeptUnlessReplaced
  BY <1>1, MakeKeepsInv
<1>2. ASSUME NEW s \in Selectors, NEW p \in Pointers, EvaluatePair(s, p)
      PROVE  NamesInv' /\ KeptUnlessReplaced
  BY <1>2, EvaluateKeepsInv
<1>3. CASE moveNames
  BY <1>3, MoveKeepsInv
<1>4. CASE UNCHANGED namesVars
  <2>1. /\ ptr2stable' = ptr2stable /\ names' = names
        /\ component' = component /\ replaced' = replaced
    BY <1>4 DEF namesVars
  <2>2. \A o : (Remains(o)' <=> Remains(o)) /\ Now(o)' = Now(o)
    BY <2>1 DEF Now, Remains
  <2>3. NamesInv'
    BY <2>1, <2>2 DEF NamesInv, NamesShape, TableShape, EntryNamesItsObject, RankedBy
  <2>4. KeptUnlessReplaced
    BY <2>1 DEF KeptUnlessReplaced
  <2> QED  BY <2>3, <2>4
<1> QED  BY <1>1, <1>2, <1>3, <1>4 DEF NamesNext

\* Through every collection, the table of stable names has one entry for a pointer,
\* to an object there is, and the name in it was made for this object or for a
\* thunk that has become it (rts.stablename.mjs:14, rts.gc.mjs:1056).
THEOREM NamesAreSound == NamesSpec => []NamesSound
<1>1. NamesInv /\ [NamesNext]_namesVars => NamesInv'
  BY NamesStep
<1> QED  BY NamesInitInv, <1>1, NamesInvSound, PTL DEF NamesSpec

\* An entry of the table stays as it is in every step, unless a collection puts its
\* object in the place of a thunk, or replaces it (rts.gc.mjs:1056).
THEOREM NamesKept == NamesSpec => [][KeptUnlessReplaced]_namesVars
<1>1. NamesInv /\ [NamesNext]_namesVars => NamesInv'
  BY NamesStep
<1>2. NamesInv /\ [NamesNext]_namesVars => [KeptUnlessReplaced]_namesVars
  BY NamesStep
<1> QED  BY NamesInitInv, <1>1, <1>2, PTL DEF NamesSpec
=============================================================================
