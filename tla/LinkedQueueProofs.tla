-------------------------- MODULE LinkedQueueProofs --------------------------
(***************************************************************************)
(* Proofs about LinkedQueue for any set of addresses, payloads and keys,   *)
(* and in both uses of a queue: the pointers always spell out the list,    *)
(* none leads to freed memory, and the list implements Queue.              *)
(***************************************************************************)
EXTENDS LinkedQueue, SequenceTheorems, TLAPS

-----------------------------------------------------------------------------
(* Sequences.                                                              *)

\* What is left when element k is removed.
LEMMA RemoveAtElements ==
  ASSUME NEW S, NEW s \in Seq(S), NEW k \in 1..Len(s)
  PROVE  /\ RemoveAt(s, k) \in Seq(S)
         /\ Len(RemoveAt(s, k)) = Len(s) - 1
         /\ \A i \in 1..(Len(s) - 1) :
              RemoveAt(s, k)[i] = IF i < k THEN s[i] ELSE s[i + 1]
<1> DEFINE t == SubSeq(s, 1, k - 1)
           u == SubSeq(s, k + 1, Len(s))
<1>1. /\ t \in Seq(S) /\ Len(t) = k - 1 /\ \A i \in 1..(k - 1) : t[i] = s[i]
      /\ u \in Seq(S) /\ Len(u) = Len(s) - k /\ \A i \in 1..(Len(s) - k) : u[i] = s[k + i]
  OBVIOUS
<1>2. RemoveAt(s, k) = t \o u
  BY DEF RemoveAt
<1> HIDE DEF t, u
<1>3. /\ t \o u \in Seq(S) /\ Len(t \o u) = Len(s) - 1
      /\ \A i \in 1..(Len(s) - 1) : (t \o u)[i] = IF i <= k - 1 THEN t[i] ELSE u[i - (k - 1)]
  <2>1. /\ t \o u \in Seq(S) /\ Len(t \o u) = Len(t) + Len(u)
        /\ \A i \in 1..(Len(t) + Len(u)) : (t \o u)[i] = IF i <= Len(t) THEN t[i] ELSE u[i - Len(t)]
    BY <1>1, ConcatProperties
  <2>2. Len(t) = k - 1 /\ Len(t) + Len(u) = Len(s) - 1
    BY <1>1
  <2> QED  BY <2>1, <2>2
<1>4. ASSUME NEW i \in 1..(Len(s) - 1)
      PROVE  (t \o u)[i] = IF i < k THEN s[i] ELSE s[i + 1]
  <2>1. CASE i < k
    BY <1>1, <1>3, <2>1
  <2>2. CASE ~(i < k)
    <3>1. i - (k - 1) \in 1..(Len(s) - k) /\ k + (i - (k - 1)) = i + 1
      BY <2>2
    <3>2. u[i - (k - 1)] = s[k + (i - (k - 1))]
      BY <1>1, <3>1
    <3> QED  BY <1>3, <2>2, <3>1, <3>2
  <2> QED  BY <2>1, <2>2
<1> QED  BY <1>2, <1>3, <1>4

-----------------------------------------------------------------------------
(* The invariant.                                                          *)

\* What ListInv says of the list, in the form the steps need.
LEMMA ListFacts ==
  ASSUME ListInv
  PROVE  /\ order \in Seq(Cells) /\ Len(order) \in Nat
         /\ \A i \in 1..Len(order) : order[i] \in Cells /\ order[i] # NULL
         /\ \A i, j \in 1..Len(order) : order[i] = order[j] => i = j
         /\ (Len(order) = 0) <=> (order = <<>>)
         /\ (Len(order) = 0) <=> (head = NULL)
         /\ Len(order) # 0 => head = order[1] /\ tail = order[Len(order)]
<1>1. order \in Seq(Cells)
  BY DEF ListInv, TypeOK
<1>2. \A i \in 1..Len(order) : order[i] \in Cells /\ order[i] # NULL
  BY <1>1, NullAssumption
<1> QED  BY <1>1, <1>2 DEF ListInv, ListShape, NoDanglingEntry

LEMMA InitList == Init => ListInv
  BY NullAssumption DEF Init, ListInv, TypeOK, ListShape, NoDanglingEntry, SearchPosition, ByKey

\* A new entry goes behind the last one.
LEMMA EnqueueList ==
  ASSUME ListInv, NEW p \in Payloads, Enqueue(p)
  PROVE  ListInv'
<1>1. PICK e \in Cells \ allocated :
        /\ allocated' = allocated \cup {e}
        /\ payload' = [payload EXCEPT ![e] = p]
        /\ tail' = e
        /\ IF head = NULL
           THEN /\ head' = e
                /\ previous' = [previous EXCEPT ![e] = NULL]
                /\ next' = [next EXCEPT ![e] = NULL]
           ELSE /\ head' = head
                /\ previous' = [previous EXCEPT ![e] = tail]
                /\ next' = [next EXCEPT ![e] = NULL, ![tail] = e]
        /\ order' = Append(order, e)
  BY DEF Enqueue
<1>2. curr_entry = NULL /\ UNCHANGED <<curr_entry, key, out, used_as, visited>>
  BY DEF Enqueue, Idle
<1> DEFINE n == Len(order)
<1>3. /\ order \in Seq(Cells) /\ n \in Nat
      /\ \A i \in 1..n : order[i] \in Cells /\ order[i] # NULL /\ order[i] # e
      /\ \A i, j \in 1..n : order[i] = order[j] => i = j
      /\ (n = 0) <=> (head = NULL)
      /\ n # 0 => head = order[1] /\ tail = order[n]
  BY ListFacts, <1>1 DEF ListInv, NoDanglingEntry
<1>4. /\ order' \in Seq(Cells) /\ Len(order') = n + 1 /\ order'[n + 1] = e
      /\ \A i \in 1..n : order'[i] = order[i]
  BY <1>1, <1>3
<1>5. /\ payload \in [Cells -> Payloads \cup {NULL}]
      /\ previous \in [Cells -> Cells \cup {NULL}] /\ next \in [Cells -> Cells \cup {NULL}]
      /\ e \in Cells /\ e # NULL
  BY <1>1, NullAssumption DEF ListInv, TypeOK
<1>6. TypeOK'
  BY <1>1, <1>2, <1>4, <1>5 DEF ListInv, TypeOK
<1>7. ListShape'
  <2>1. /\ order' # <<>> /\ head' # NULL /\ tail' # NULL
        /\ head' = order'[1] /\ tail' = order'[Len(order')]
    BY <1>1, <1>3, <1>4, <1>5
  <2>2. ASSUME NEW i \in 1..(n + 1)
        PROVE  next'[order'[i]] = IF i = n + 1 THEN NULL ELSE order'[i + 1]
    <3>1. CASE i = n + 1
      BY <1>1, <1>3, <1>4, <1>5, <3>1
    <3>2. CASE i = n
      BY <1>1, <1>3, <1>4, <1>5, <3>2
    <3>3. CASE i \in 1..(n - 1)
      <4>1. order[i] # tail /\ order[i] # e /\ head # NULL /\ order[i] \in Cells
        BY <1>3, <3>3
      <4>2. next'[order[i]] = next[order[i]]
        BY <1>1, <1>5, <4>1
      <4>3. next[order[i]] = order[i + 1]
        BY <1>3, <3>3 DEF ListInv, ListShape
      <4> QED  BY <1>3, <1>4, <3>3, <4>2, <4>3
    <3> QED  BY <1>3, <3>1, <3>2, <3>3
  <2>3. ASSUME ByKey', NEW i \in 1..(n + 1)
        PROVE  previous'[order'[i]] = IF i = 1 THEN NULL ELSE order'[i - 1]
    <3>1. CASE i = n + 1
      BY <1>1, <1>3, <1>4, <1>5, <3>1
    <3>2. CASE i \in 1..n
      <4>1. ByKey
        BY <1>2, <2>3 DEF ByKey
      <4>2. previous[order[i]] = IF i = 1 THEN NULL ELSE order[i - 1]
        BY <3>2, <4>1 DEF ListInv, ListShape
      <4>3. previous'[order[i]] = previous[order[i]]
        BY <1>1, <1>3, <1>5, <3>2
      <4> QED  BY <1>3, <1>4, <3>2, <4>2, <4>3
    <3> QED  BY <1>3, <3>1, <3>2
  <2> QED  BY <1>4, <2>1, <2>2, <2>3 DEF ListShape
<1>8. NoDanglingEntry'
  <2>1. \A i \in 1..n : order[i] \in allocated /\ payload[order[i]] \in Payloads
    BY DEF ListInv, NoDanglingEntry
  <2>2. ASSUME NEW i \in 1..(n + 1)
        PROVE  order'[i] \in allocated' /\ payload'[order'[i]] \in Payloads
    BY <1>1, <1>3, <1>4, <1>5, <2>1
  <2>3. \A i, j \in 1..(n + 1) : order'[i] = order'[j] => i = j
    BY <1>3, <1>4
  <2> QED  BY <1>4, <2>2, <2>3 DEF NoDanglingEntry
<1>9. SearchPosition'
  BY <1>2 DEF ListInv, SearchPosition
<1> QED  BY <1>6, <1>7, <1>8, <1>9 DEF ListInv

\* The first entry is unlinked and freed; the others are not freed with it.
LEMMA DequeueList ==
  ASSUME ListInv, Dequeue
  PROVE  ListInv'
<1> DEFINE n == Len(order)
<1>1. curr_entry = NULL /\ ~ByKey /\ UNCHANGED <<curr_entry, key, used_as, visited>>
  BY DEF Dequeue, Idle
<1>2. SearchPosition' /\ ~ByKey'
  BY <1>1 DEF ListInv, SearchPosition, ByKey
<1>3. CASE head = NULL
  <2>1. out' = NULL /\ UNCHANGED listVars
    BY <1>3 DEF Dequeue
  <2> QED  BY <1>1, <1>2, <2>1 DEF ListInv, TypeOK, ListShape, NoDanglingEntry, listVars, ByKey
<1>4. CASE head # NULL
  <2>1. /\ out' = payload[head] /\ allocated' = allocated \ {head} /\ order' = Tail(order)
        /\ UNCHANGED <<payload, previous, next>>
        /\ IF tail = head THEN head' = NULL /\ tail' = NULL
                          ELSE head' = next[head] /\ tail' = tail
    BY <1>4 DEF Dequeue, UnlinkHead, FirstPayload, FreeFirst
  <2>2. /\ order \in Seq(Cells) /\ n \in Nat \ {0} /\ order # <<>>
        /\ \A i \in 1..n : order[i] \in Cells /\ order[i] # NULL
        /\ \A i, j \in 1..n : order[i] = order[j] => i = j
        /\ head = order[1] /\ tail = order[n]
    BY <1>4, ListFacts
  <2>3. /\ order' \in Seq(Cells) /\ Len(order') = n - 1
        /\ \A i \in 1..(n - 1) : order'[i] = order[i + 1]
    BY <2>1, <2>2
  <2>4. \A i \in 1..n : next[order[i]] = IF i = n THEN NULL ELSE order[i + 1]
    BY DEF ListInv, ListShape
  <2>5. (tail = head) <=> (n = 1)
    <3>1. 1 \in 1..n /\ n \in 1..n
      BY <2>2
    <3> QED  BY <2>2, <3>1
  <2>6. \A i \in 1..n : order[i] \in allocated /\ payload[order[i]] \in Payloads
    BY DEF ListInv, NoDanglingEntry
  <2>7. TypeOK'
    <3>1. head' \in Cells \cup {NULL} /\ tail' \in Cells \cup {NULL}
      BY <2>1, <2>2, <2>4, <2>5
    <3>2. out' \in Payloads \cup {NULL}
      BY <2>1, <2>2, <2>6
    <3> QED  BY <1>1, <2>1, <2>3, <3>1, <3>2 DEF ListInv, TypeOK
  <2>8. ListShape'
    <3>1. CASE n = 1
      BY <1>2, <2>1, <2>2, <2>3, <2>5, <3>1 DEF ListShape
    <3>2. CASE n # 1
      <4>1. head' = order'[1] /\ tail' = order'[n - 1] /\ order' # <<>>
        <5>1. 1 \in 1..n /\ 1 \in 1..(n - 1) /\ n - 1 \in 1..(n - 1) /\ (n - 1) + 1 = n
          <6>1. n \in Nat /\ n # 0
            BY <2>2
          <6> HIDE DEF n
          <6> QED  BY <3>2, <6>1
        <5>2. head' = next[order[1]] /\ tail' = tail /\ next[order[1]] = order[1 + 1]
          BY <2>1, <2>2, <2>4, <2>5, <3>2, <5>1
        <5>3. order'[1] = order[1 + 1] /\ order'[n - 1] = order[(n - 1) + 1]
          BY <2>3, <5>1
        <5> QED  BY <2>2, <2>3, <5>1, <5>2, <5>3
      <4>2. head' # NULL /\ tail' # NULL
        BY <2>2, <2>3, <3>2, <4>1
      <4>3. ASSUME NEW i \in 1..(n - 1)
            PROVE  next'[order'[i]] = IF i = n - 1 THEN NULL ELSE order'[i + 1]
        <5>1. i + 1 \in 1..n /\ order'[i] = order[i + 1]
          BY <2>2, <2>3
        <5>2. next'[order'[i]] = IF i + 1 = n THEN NULL ELSE order[(i + 1) + 1]
          BY <2>1, <2>4, <5>1
        <5>3. i + 1 # n => i + 1 \in 1..(n - 1) /\ order'[i + 1] = order[(i + 1) + 1]
          BY <2>2, <2>3
        <5> QED  BY <2>2, <5>2, <5>3
      <4> QED  BY <1>2, <2>3, <4>1, <4>2, <4>3 DEF ListShape
    <3> QED  BY <3>1, <3>2
  <2>9. NoDanglingEntry'
    <3>1. ASSUME NEW i \in 1..(n - 1)
          PROVE  order'[i] \in allocated' /\ payload'[order'[i]] \in Payloads
      <4>1. i + 1 \in 1..n /\ order'[i] = order[i + 1] /\ order[i + 1] # order[1]
        BY <2>2, <2>3
      <4> QED  BY <2>1, <2>2, <2>6, <4>1
    <3>2. ASSUME NEW i \in 1..(n - 1), NEW j \in 1..(n - 1), order'[i] = order'[j]
          PROVE  i = j
      <4>1. i + 1 \in 1..n /\ j + 1 \in 1..n /\ order[i + 1] = order[j + 1]
        BY <2>2, <2>3, <3>2
      <4>2. i + 1 = j + 1
        BY <2>2, <4>1
      <4> QED  BY <4>2
    <3> QED  BY <2>3, <3>1, <3>2 DEF NoDanglingEntry
  <2> QED  BY <1>2, <2>7, <2>8, <2>9 DEF ListInv
<1> QED  BY <1>3, <1>4

LEMMA StartSearchList ==
  ASSUME ListInv, NEW k \in Keys, StartSearch(k)
  PROVE  ListInv'
<1> USE DEF StartSearch, listVars
<1>1. TypeOK' /\ ListShape' /\ NoDanglingEntry'
  BY DEF ListInv, TypeOK, ListShape, NoDanglingEntry, ByKey, Idle
<1>2. SearchPosition'
  <2>1. CASE head = NULL
    BY <2>1 DEF ListInv, SearchPosition, Idle
  <2>2. CASE head # NULL
    BY <2>2, ListFacts DEF SearchPosition, ByKey
  <2> QED  BY <2>1, <2>2
<1> QED  BY <1>1, <1>2 DEF ListInv

\* A match is unlinked: its neighbours, or head and tail, close the gap.
LEMMA RemoveList ==
  ASSUME ListInv, curr_entry # NULL, RemoveFromQueue(curr_entry), UNCHANGED used_as
  PROVE  /\ head' \in Cells \cup {NULL} /\ tail' \in Cells \cup {NULL}
         /\ previous' \in [Cells -> Cells \cup {NULL}] /\ next' \in [Cells -> Cells \cup {NULL}]
         /\ order' \in Seq(Cells)
         /\ ListShape' /\ NoDanglingEntry'
<1> DEFINE n == Len(order)
           k == visited + 1
           e == order[k]
<1>1. /\ ByKey /\ visited \in Nat /\ visited < n /\ curr_entry = e
  BY DEF ListInv, SearchPosition, TypeOK
<1>2. /\ order \in Seq(Cells) /\ n \in Nat
      /\ \A i \in 1..n : order[i] \in Cells /\ order[i] # NULL
      /\ \A i, j \in 1..n : order[i] = order[j] => i = j
      /\ head = order[1] /\ tail = order[n]
  BY <1>1, ListFacts
<1>3. k \in 1..n
  BY <1>1, <1>2
<1>4. /\ \A i \in 1..n : next[order[i]] = IF i = n THEN NULL ELSE order[i + 1]
      /\ \A i \in 1..n : previous[order[i]] = IF i = 1 THEN NULL ELSE order[i - 1]
  BY <1>1 DEF ListInv, ListShape
<1>5. /\ next[e] = IF k = n THEN NULL ELSE order[k + 1]
      /\ previous[e] = IF k = 1 THEN NULL ELSE order[k - 1]
  BY <1>3, <1>4
<1>6. /\ order' \in Seq(Cells) /\ Len(order') = n - 1
      /\ \A i \in 1..(n - 1) : order'[i] = IF i < k THEN order[i] ELSE order[i + 1]
  BY <1>2, <1>3, RemoveAtElements DEF RemoveFromQueue
<1>7. (next[e] = NULL <=> k = n) /\ (previous[e] = NULL <=> k = 1)
  <2>1. k # n => k + 1 \in 1..n
    BY <1>2, <1>3
  <2>2. k # 1 => k - 1 \in 1..n
    BY <1>2, <1>3
  <2> QED  BY <1>2, <1>5, <2>1, <2>2
<1>8. /\ head' = IF k = 1 THEN next[e] ELSE head
      /\ tail' = IF k = n THEN previous[e] ELSE tail
      /\ next' = IF k = 1 THEN next ELSE [next EXCEPT ![order[k - 1]] = next[e]]
      /\ previous' = IF k = n THEN previous ELSE [previous EXCEPT ![order[k + 1]] = previous[e]]
      /\ UNCHANGED <<payload, allocated>>
  BY <1>1, <1>5, <1>7 DEF RemoveFromQueue
<1>9. /\ previous \in [Cells -> Cells \cup {NULL}] /\ next \in [Cells -> Cells \cup {NULL}]
      /\ head \in Cells \cup {NULL} /\ tail \in Cells \cup {NULL}
  BY DEF ListInv, TypeOK
<1> HIDE DEF n, k, e
<1>10. e = order[k] /\ k \in Nat /\ n \in Nat /\ 1 <= k /\ k <= n
  BY <1>2, <1>3 DEF e
<1>11. /\ head' \in Cells \cup {NULL} /\ tail' \in Cells \cup {NULL}
       /\ previous' \in [Cells -> Cells \cup {NULL}] /\ next' \in [Cells -> Cells \cup {NULL}]
  BY <1>2, <1>3, <1>8, <1>9, <1>10
<1>12. ASSUME NEW i \in 1..(n - 1)
       PROVE  next'[order'[i]] = IF i = n - 1 THEN NULL ELSE order'[i + 1]
  <2>1. i \in 1..n /\ i + 1 \in 1..n /\ order[i] \in Cells /\ order[i + 1] \in Cells
    BY <1>2, <1>10
  <2>2. i # n - 1 => order'[i + 1] = IF i + 1 < k THEN order[i + 1] ELSE order[(i + 1) + 1]
    <3>1. i # n - 1 => i + 1 \in 1..(n - 1)
      BY <1>10
    <3> QED  BY <1>6, <3>1
  <2>3. CASE i < k - 1
    <3>1. order'[i] = order[i] /\ i # n - 1 /\ i + 1 < k /\ i # n
      BY <1>6, <1>10, <2>3
    <3>2. k # 1 => order[i] # order[k - 1]
      BY <1>2, <1>10, <2>1, <2>3
    <3>3. next'[order[i]] = next[order[i]]
      BY <1>8, <1>9, <2>1, <3>2
    <3> QED  BY <1>4, <2>1, <2>2, <3>1, <3>3
  <2>4. CASE i = k - 1
    <3>1. order'[i] = order[k - 1] /\ k # 1 /\ ~(i + 1 < k) /\ (i = n - 1 <=> k = n) /\ (i + 1) + 1 = k + 1
      BY <1>6, <1>10, <2>4
    <3>2. next'[order[k - 1]] = next[e]
      BY <1>8, <1>9, <2>1, <2>4, <3>1
    <3> QED  BY <1>5, <2>2, <3>1, <3>2
  <2>5. CASE i >= k
    <3>1. order'[i] = order[i + 1] /\ ~(i + 1 < k) /\ (i + 1 = n <=> i = n - 1)
      BY <1>6, <1>10, <2>5
    <3>2. k # 1 => order[i + 1] # order[k - 1]
      <4>1. k # 1 => k - 1 \in 1..n /\ i + 1 # k - 1
        BY <1>10, <2>5
      <4> QED  BY <1>2, <2>1, <4>1
    <3>3. next'[order[i + 1]] = next[order[i + 1]]
      BY <1>8, <1>9, <2>1, <3>2
    <3> QED  BY <1>4, <2>1, <2>2, <3>1, <3>3
  <2> QED  BY <1>10, <2>3, <2>4, <2>5
<1>13. ASSUME NEW i \in 1..(n - 1)
       PROVE  previous'[order'[i]] = IF i = 1 THEN NULL ELSE order'[i - 1]
  <2>1. i \in 1..n /\ i + 1 \in 1..n /\ order[i] \in Cells /\ order[i + 1] \in Cells
    BY <1>2, <1>10
  <2>2. i # 1 => order'[i - 1] = IF i - 1 < k THEN order[i - 1] ELSE order[(i - 1) + 1]
    <3>1. i # 1 => i - 1 \in 1..(n - 1)
      BY <1>10
    <3> QED  BY <1>6, <3>1
  <2>3. CASE i < k
    <3>1. order'[i] = order[i] /\ i - 1 < k
      BY <1>6, <1>10, <2>3
    <3>2. k # n => order[i] # order[k + 1]
      <4>1. k # n => k + 1 \in 1..n /\ i # k + 1
        BY <1>10, <2>3
      <4> QED  BY <1>2, <2>1, <4>1
    <3>3. previous'[order[i]] = previous[order[i]]
      BY <1>8, <1>9, <2>1, <3>2
    <3> QED  BY <1>4, <2>1, <2>2, <3>1, <3>3
  <2>4. CASE i = k
    <3>1. order'[i] = order[k + 1] /\ k # n /\ i - 1 < k
      BY <1>6, <1>10, <2>4
    <3>2. previous'[order[k + 1]] = previous[e]
      BY <1>8, <1>9, <2>1, <2>4, <3>1
    <3> QED  BY <1>5, <2>2, <2>4, <3>1, <3>2
  <2>5. CASE i > k
    <3>1. order'[i] = order[i + 1] /\ ~(i - 1 < k) /\ i # 1 /\ i + 1 # 1 /\ (i + 1) - 1 = i /\ (i - 1) + 1 = i
      BY <1>6, <1>10, <2>5
    <3>2. k # n => order[i + 1] # order[k + 1]
      <4>1. k # n => k + 1 \in 1..n /\ i + 1 # k + 1
        BY <1>10, <2>5
      <4> QED  BY <1>2, <2>1, <4>1
    <3>3. previous'[order[i + 1]] = previous[order[i + 1]]
      BY <1>8, <1>9, <2>1, <3>2
    <3> QED  BY <1>4, <2>1, <2>2, <3>1, <3>3
  <2> QED  BY <1>10, <2>3, <2>4, <2>5
<1>14. ListShape'
  <2>1. CASE n = 1
    <3>1. k = 1 /\ Len(order') = 0 /\ order' = <<>> /\ head' = NULL /\ tail' = NULL
      BY <1>5, <1>6, <1>8, <1>10, <2>1
    <3> QED  BY <3>1 DEF ListShape
  <2>2. CASE n # 1
    <3>1. order' # <<>> /\ 1 \in 1..(n - 1) /\ n - 1 \in 1..(n - 1) /\ 1 \in 1..n /\ n \in 1..n
      BY <1>6, <1>10, <2>2
    <3>2. head' = order'[1]
      <4>1. order'[1] = IF 1 < k THEN order[1] ELSE order[1 + 1]
        BY <1>6, <3>1
      <4> QED  BY <1>2, <1>5, <1>8, <1>10, <2>2, <4>1
    <3>3. tail' = order'[n - 1]
      <4>1. order'[n - 1] = IF n - 1 < k THEN order[n - 1] ELSE order[(n - 1) + 1]
        BY <1>6, <3>1
      <4> QED  BY <1>2, <1>5, <1>8, <1>10, <2>2, <4>1
    <3>4. head' # NULL /\ tail' # NULL
      <4>1. \A i \in 1..(n - 1) : order'[i] # NULL
        BY <1>6, NullAssumption
      <4> QED  BY <3>1, <3>2, <3>3, <4>1
    <3> QED  BY <1>6, <1>12, <1>13, <3>1, <3>2, <3>3, <3>4 DEF ListShape
  <2> QED  BY <2>1, <2>2
<1>15. NoDanglingEntry'
  <2>1. \A i \in 1..n : order[i] \in allocated /\ payload[order[i]] \in Payloads
    BY DEF ListInv, NoDanglingEntry, n
  <2>2. ASSUME NEW i \in 1..(n - 1)
        PROVE  order'[i] \in allocated' /\ payload'[order'[i]] \in Payloads
    BY <1>6, <1>8, <1>10, <2>1
  <2>3. ASSUME NEW i \in 1..(n - 1), NEW j \in 1..(n - 1), order'[i] = order'[j]
        PROVE  i = j
    <3>1. PICK a \in 1..n : order'[i] = order[a] /\ a = IF i < k THEN i ELSE i + 1
      BY <1>6, <1>10
    <3>2. PICK b \in 1..n : order'[j] = order[b] /\ b = IF j < k THEN j ELSE j + 1
      BY <1>6, <1>10
    <3>3. a = b
      BY <1>2, <2>3, <3>1, <3>2
    <3> QED  BY <1>10, <3>1, <3>2, <3>3
  <2> QED  BY <1>6, <2>2, <2>3 DEF NoDanglingEntry
<1> QED  BY <1>6, <1>11, <1>14, <1>15

LEMMA SearchStepList ==
  ASSUME ListInv, SearchStep
  PROVE  ListInv'
<1> DEFINE n == Len(order)
<1>1. /\ curr_entry # NULL /\ ByKey /\ key \in Keys
      /\ visited \in Nat /\ visited < n /\ curr_entry = order[visited + 1]
      /\ \A i \in 1..visited : KeyOf[payload[order[i]]] # key
  BY DEF SearchStep, ListInv, SearchPosition, TypeOK
<1>2. /\ order \in Seq(Cells) /\ n \in Nat /\ visited + 1 \in 1..n
      /\ payload[curr_entry] \in Payloads
  <2>1. order \in Seq(Cells) /\ n \in Nat
    BY ListFacts
  <2>2. visited + 1 \in 1..n
    BY <1>1, <2>1
  <2> QED  BY <1>1, <2>1, <2>2 DEF ListInv, NoDanglingEntry
<1>3. CASE KeyOf[payload[curr_entry]] = key
  <2>1. /\ RemoveFromQueue(curr_entry) /\ out' = payload[curr_entry]
        /\ curr_entry' = NULL /\ key' = NULL /\ UNCHANGED <<visited, used_as>>
    BY <1>3 DEF SearchStep
  <2>2. /\ head' \in Cells \cup {NULL} /\ tail' \in Cells \cup {NULL}
        /\ previous' \in [Cells -> Cells \cup {NULL}] /\ next' \in [Cells -> Cells \cup {NULL}]
        /\ order' \in Seq(Cells) /\ ListShape' /\ NoDanglingEntry'
    BY <1>1, <2>1, RemoveList
  <2>3. TypeOK'
    BY <1>2, <2>1, <2>2 DEF ListInv, TypeOK, RemoveFromQueue
  <2>4. SearchPosition'
    BY <2>1 DEF SearchPosition
  <2> QED  BY <2>2, <2>3, <2>4 DEF ListInv
<1>4. CASE KeyOf[payload[curr_entry]] # key
  <2>1. /\ curr_entry' = next[curr_entry] /\ visited' = visited + 1
        /\ IF next[curr_entry] = NULL THEN key' = NULL /\ out' = NULL ELSE UNCHANGED <<key, out>>
        /\ UNCHANGED <<listVars, used_as>>
    BY <1>4 DEF SearchStep
  <2>2. UNCHANGED <<head, tail, payload, previous, next, allocated, order, used_as>>
    BY <2>1 DEF listVars
  <2>3. next[curr_entry] = IF visited + 1 = n THEN NULL ELSE order[(visited + 1) + 1]
    BY <1>1, <1>2 DEF ListInv, ListShape
  <2>4. next[curr_entry] # NULL => visited + 1 < n /\ next[curr_entry] = order[(visited + 1) + 1]
    BY <1>2, <2>3
  <2>5. next[curr_entry] \in Cells \cup {NULL}
    BY <1>2, <2>3, <2>4
  <2>6. TypeOK'
    BY <1>1, <2>1, <2>2, <2>5 DEF ListInv, TypeOK
  <2>7. ListShape' /\ NoDanglingEntry'
    BY <2>2 DEF ListInv, ListShape, NoDanglingEntry, ByKey
  <2>8. \A i \in 1..(visited + 1) : KeyOf[payload[order[i]]] # key
    BY <1>1, <1>2, <1>4
  <2>9. SearchPosition'
    BY <1>1, <2>1, <2>2, <2>4, <2>8 DEF SearchPosition, ByKey
  <2> QED  BY <2>6, <2>7, <2>9 DEF ListInv
<1> QED  BY <1>3, <1>4

LEMMA StepList == ListInv /\ [Next]_vars => ListInv'
<1> SUFFICES ASSUME ListInv, [Next]_vars  PROVE ListInv'
  OBVIOUS
<1>1. ASSUME UNCHANGED vars  PROVE ListInv'
  BY <1>1 DEF vars, listVars, ListInv, TypeOK, ListShape, NoDanglingEntry, SearchPosition, ByKey
<1> QED  BY <1>1, EnqueueList, DequeueList, StartSearchList, SearchStepList DEF Next

LEMMA ListInvariance == Spec => []ListInv
  BY InitList, StepList, PTL DEF Spec

\* For any number of entries, in both uses of a queue_t: head, tail and next
\* always spell out the list of what was queued and not yet removed, and so
\* does previous where remove_from_queue follows it.
THEOREM ListIntegrity == Spec => []ListShape
<1>1. ListInv => ListShape
  BY DEF ListInv
<1> QED  BY <1>1, ListInvariance, PTL

\* No entry of a list is freed memory, and none is linked twice, although the
\* addresses dequeue frees are used again and the head keeps a stale previous.
THEOREM NoDangling == Spec => []NoDanglingEntry
<1>1. ListInv => NoDanglingEntry
  BY DEF ListInv
<1> QED  BY <1>1, ListInvariance, PTL

-----------------------------------------------------------------------------
(* Refinement of Queue.                                                    *)

Items == [i \in 1..Len(order) |-> payload[order[i]]]

LEMMA ItemsType ==
  ASSUME ListInv
  PROVE  Items \in Seq(Payloads) /\ Len(Items) = Len(order)
<1>1. Len(order) \in Nat
  BY ListFacts
<1>2. \A i \in 1..Len(order) : payload[order[i]] \in Payloads
  BY DEF ListInv, NoDanglingEntry
<1> QED  BY <1>1, <1>2 DEF Items

LEMMA EnqueueRefines ==
  ASSUME ListInv, NEW p \in Payloads, Enqueue(p)
  PROVE  Abstract!Put(p)
<1>0. key = NULL /\ key' = key
  BY DEF Enqueue, Idle, ListInv, SearchPosition
<1>1. PICK e \in Cells \ allocated :
        payload' = [payload EXCEPT ![e] = p] /\ order' = Append(order, e)
  BY DEF Enqueue
<1>2. out' = out
  BY DEF Enqueue
<1>3. Items \in Seq(Payloads) /\ Len(Items) = Len(order) /\ order \in Seq(Cells) /\ Len(order) \in Nat
  BY ItemsType, ListFacts
<1>4. \A i \in 1..Len(order) : order[i] # e /\ order[i] \in Cells
  BY <1>1, ListFacts DEF ListInv, NoDanglingEntry
<1>5. payload \in [Cells -> Payloads \cup {NULL}]
  BY DEF ListInv, TypeOK
<1>6. Items' = Append(Items, p)
  <2>1. Len(order') = Len(order) + 1 /\ order'[Len(order) + 1] = e
        /\ \A i \in 1..Len(order) : order'[i] = order[i]
    BY <1>1, <1>3
  <2>2. payload'[e] = p /\ \A i \in 1..Len(order) : payload'[order[i]] = payload[order[i]]
    BY <1>1, <1>4, <1>5
  <2>3. Items' = [i \in 1..(Len(order) + 1) |-> payload'[order'[i]]]
    BY <2>1 DEF Items
  <2> QED  BY <1>3, <2>1, <2>2, <2>3 DEF Items
<1> QED  BY <1>0, <1>2, <1>6 DEF Abstract!Put, Items

LEMMA DequeueRefines ==
  ASSUME ListInv, Dequeue
  PROVE  Abstract!TakeHead \/ Abstract!Empty
<1>0. key = NULL /\ key' = key
  BY DEF Dequeue, Idle, ListInv, SearchPosition
<1>1. Items \in Seq(Payloads) /\ Len(Items) = Len(order) /\ order \in Seq(Cells) /\ Len(order) \in Nat
  BY ItemsType, ListFacts
<1>2. CASE head = NULL
  <2>1. out' = NULL /\ UNCHANGED <<order, payload>>
    BY <1>2 DEF Dequeue, listVars
  <2>2. Items = <<>> /\ Items' = Items
    BY <1>1, <1>2, <2>1, ListFacts DEF Items
  <2>3. Abstract!Empty
    BY <1>0, <2>1, <2>2 DEF Abstract!Empty, Items
  <2> QED  BY <2>3
<1>3. CASE head # NULL
  <2>1. out' = payload[head] /\ order' = Tail(order) /\ payload' = payload
    BY <1>3 DEF Dequeue, FirstPayload
  <2>2. Len(order) # 0 /\ head = order[1] /\ order # <<>>
    BY <1>3, ListFacts
  <2>3. Len(order') = Len(order) - 1 /\ \A i \in 1..(Len(order) - 1) : order'[i] = order[i + 1]
    BY <1>1, <2>1, <2>2
  <2>4. Items' = [i \in 1..(Len(order) - 1) |-> payload[order[i + 1]]]
    BY <2>1, <2>3 DEF Items
  <2>5. Items # <<>> /\ Head(Items) = payload[head] /\ Items' = Tail(Items)
    <3>1. Items # <<>> /\ Head(Items) = Items[1] /\ 1 \in 1..Len(order)
      BY <1>1, <2>2
    <3>2. Items[1] = payload[head]
      BY <2>2, <3>1 DEF Items
    <3>3. Tail(Items) = [i \in 1..(Len(order) - 1) |-> Items[i + 1]]
      <4> DEFINE t == Tail(Items)
      <4>1. /\ t \in Seq(Payloads) /\ Len(t) = Len(order) - 1
            /\ \A i \in 1..(Len(order) - 1) : t[i] = Items[i + 1]
        BY <1>1, <3>1
      <4> HIDE DEF t
      <4>2. t = [i \in 1..(Len(order) - 1) |-> t[i]]
        BY <4>1
      <4>3. t = [i \in 1..(Len(order) - 1) |-> Items[i + 1]]
        BY <4>1, <4>2
      <4> QED  BY <4>3 DEF t
    <3>4. \A i \in 1..(Len(order) - 1) : Items[i + 1] = payload[order[i + 1]]
      BY <1>1 DEF Items
    <3> QED  BY <2>4, <3>1, <3>2, <3>3, <3>4
  <2>6. Abstract!TakeHead
    BY <1>0, <2>1, <2>5 DEF Abstract!TakeHead, Items
  <2> QED  BY <2>6
<1> QED  BY <1>2, <1>3

LEMMA StartSearchRefines ==
  ASSUME ListInv, NEW k \in Keys, StartSearch(k)
  PROVE  Abstract!Empty \/ Abstract!Ask(k)
<1>0. key = NULL
  BY DEF StartSearch, Idle, ListInv, SearchPosition
<1>1. Len(Items) = Len(order) /\ Items \in Seq(Payloads)
  BY ItemsType
<1>2. Items' = Items
  BY DEF StartSearch, listVars, Items
<1>3. CASE head = NULL
  <2>1. Items = <<>> /\ out' = NULL
    <3>1. Len(Items) = 0
      BY <1>1, <1>3, ListFacts
    <3> QED  BY <1>1, <1>3, <3>1 DEF StartSearch
  <2>2. key' = key
    BY <1>3 DEF StartSearch
  <2> QED  BY <1>0, <1>2, <2>1, <2>2 DEF Abstract!Empty, Items
<1>4. CASE head # NULL
  <2>1. Items # <<>>
    <3>1. Len(Items) # 0
      BY <1>1, <1>4, ListFacts
    <3> QED  BY <1>1, <3>1
  <2>2. key' = k /\ out' = out
    BY <1>4 DEF StartSearch
  <2> QED  BY <1>0, <1>2, <2>1, <2>2 DEF Abstract!Ask, Items
<1> QED  BY <1>3, <1>4

\* A match is the oldest element with the key asked for, because the search
\* passed none; at the end of the list there is none.
LEMMA SearchStepRefines ==
  ASSUME ListInv, SearchStep
  PROVE  \/ \E i \in DOMAIN Items : Abstract!TakeAt(i)
         \/ Abstract!Miss
         \/ UNCHANGED <<Items, key, out>>
<1> DEFINE n == Len(order)
           v == visited + 1
<1>1. /\ curr_entry # NULL /\ key \in Keys
      /\ visited \in Nat /\ visited < n /\ curr_entry = order[v]
      /\ \A i \in 1..visited : KeyOf[payload[order[i]]] # key
  BY DEF SearchStep, ListInv, SearchPosition, TypeOK
<1>0. key # NULL
  BY <1>1, KeyAssumption
<1>2. Items \in Seq(Payloads) /\ Len(Items) = n /\ order \in Seq(Cells) /\ n \in Nat
  BY ItemsType, ListFacts
<1>3. v \in 1..n /\ DOMAIN Items = 1..n /\ \A i \in 1..n : Items[i] = payload[order[i]]
  BY <1>1, <1>2 DEF Items
<1>4. CASE KeyOf[payload[curr_entry]] = key
  <2>1. /\ out' = payload[curr_entry] /\ key' = NULL
        /\ order' = RemoveAt(order, v) /\ payload' = payload
    BY <1>4 DEF SearchStep, RemoveFromQueue
  <2>2. /\ Len(order') = n - 1
        /\ \A i \in 1..(n - 1) : order'[i] = IF i < v THEN order[i] ELSE order[i + 1]
    BY <1>2, <1>3, <2>1, RemoveAtElements
  <2>3. /\ RemoveAt(Items, v) \in Seq(Payloads) /\ Len(RemoveAt(Items, v)) = n - 1
        /\ \A i \in 1..(n - 1) : RemoveAt(Items, v)[i] = IF i < v THEN Items[i] ELSE Items[i + 1]
    <3>1. v \in 1..Len(Items)
      BY <1>2, <1>3
    <3> HIDE DEF v
    <3> QED  BY <1>2, <3>1, RemoveAtElements
  <2>4. Items' = [i \in 1..(n - 1) |-> payload[order'[i]]]
    BY <2>1, <2>2 DEF Items
  <2>5. ASSUME NEW i \in 1..(n - 1)  PROVE Items'[i] = RemoveAt(Items, v)[i]
    <3>1. i \in 1..n /\ i + 1 \in 1..n
      BY <1>2
    <3> QED  BY <1>3, <2>2, <2>3, <2>4, <3>1
  <2>6. Items' = RemoveAt(Items, v)
    <3>1. DOMAIN RemoveAt(Items, v) = 1..(n - 1)
      BY <2>3
    <3>2. RemoveAt(Items, v) = [i \in 1..(n - 1) |-> RemoveAt(Items, v)[i]]
      BY <2>3, <3>1
    <3> QED  BY <2>4, <2>5, <3>2
  <2>7. KeyOf[Items[v]] = key /\ \A j \in 1..(v - 1) : KeyOf[Items[j]] # key
    BY <1>1, <1>2, <1>3, <1>4
  <2>8. v \in DOMAIN Items /\ Items[v] = payload[curr_entry]
    BY <1>1, <1>3
  <2>9. \E i \in DOMAIN Items :
          /\ KeyOf[Items[i]] = key /\ \A j \in 1..(i - 1) : KeyOf[Items[j]] # key
          /\ out' = Items[i] /\ Items' = RemoveAt(Items, i)
    <3> HIDE DEF v
    <3> QED  BY <2>1, <2>6, <2>7, <2>8
  <2>10. \E i \in DOMAIN Items : Abstract!TakeAt(i)
    BY <1>0, <2>1, <2>9 DEF Abstract!TakeAt, Abstract!RemoveAt, RemoveAt, Items
  <2> QED  BY <2>10
<1>5. CASE KeyOf[payload[curr_entry]] # key
  <2>1. /\ Items' = Items
        /\ IF next[curr_entry] = NULL THEN key' = NULL /\ out' = NULL
                                      ELSE UNCHANGED <<key, out>>
    BY <1>5 DEF SearchStep, listVars, Items
  <2>2. CASE next[curr_entry] = NULL
    <3>1. v = n
      <4>1. next[order[v]] = IF v = n THEN NULL ELSE order[v + 1]
        BY <1>3 DEF ListInv, ListShape
      <4>2. v # n => v + 1 \in 1..n
        BY <1>2, <1>3
      <4> QED  BY <1>1, <2>2, <4>1, <4>2, ListFacts
    <3>2. \A i \in 1..n : KeyOf[Items[i]] # key
      BY <1>1, <1>2, <1>3, <1>5, <3>1
    <3>3. Abstract!Miss
      BY <1>0, <1>3, <2>1, <2>2, <3>2 DEF Abstract!Miss, Items
    <3> QED  BY <3>3
  <2>3. CASE next[curr_entry] # NULL
    BY <2>1, <2>3
  <2> QED  BY <2>2, <2>3
<1> QED  BY <1>4, <1>5

\* The list, with its search loop that takes several steps, implements a queue:
\* first in, first out, and a search that, in one step, removes the oldest
\* element with the key it was asked for.
THEOREM Refinement == Spec => ImplementsQueue
<1>1. Init => Abstract!Init
  BY DEF Init, Abstract!Init
<1>2. ASSUME ListInv, [Next]_vars  PROVE [Abstract!Next]_(Abstract!vars)
  <2>1. CASE \E p \in Payloads : Enqueue(p)
    BY <1>2, <2>1, EnqueueRefines DEF Abstract!Next
  <2>2. CASE Dequeue
    BY <1>2, <2>2, DequeueRefines DEF Abstract!Next
  <2>3. CASE \E k \in Keys : StartSearch(k)
    BY <1>2, <2>3, StartSearchRefines DEF Abstract!Next, Abstract!vars, Items
  <2>4. CASE SearchStep
    BY <1>2, <2>4, SearchStepRefines DEF Abstract!Next, Abstract!vars, Items
  <2>5. CASE UNCHANGED vars
    BY <2>5 DEF vars, listVars, Abstract!vars
  <2> QED  BY <1>2, <2>1, <2>2, <2>3, <2>4, <2>5 DEF Next
<1> QED  BY <1>1, <1>2, ListInvariance, PTL DEF Spec, ImplementsQueue, Abstract!Spec
=============================================================================
