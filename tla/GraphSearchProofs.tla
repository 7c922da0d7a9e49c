-------------------------- MODULE GraphSearchProofs --------------------------
(***************************************************************************)
(* The priority queue stays sorted and loses no entry, the costs of the    *)
(* graph are consistent and keep the robot clear of obstacles, the search  *)
(* around a changed cell finds every near node, and the three ways to a    *)
(* node's neighbours agree: for grids, resolutions and configuration       *)
(* spaces of any size, any cells, any nodes and any keys.                  *)
(***************************************************************************)
EXTENDS GraphSearch, FiniteSetTheorems, SequenceTheorems, WellFoundedInduction, TLAPS

\* A set of numbers has a least member.
LEMMA LeastOf ==
  ASSUME NEW T, T \subseteq Nat, T # {}
  PROVE  \E n \in T : \A m \in T : n <= m
<1>1. PICK n \in T : \A m \in T : ~(<<m, n>> \in OpToRel(<, Nat))
  BY NatLessThanWellFounded, WFMin, Zenon
<1>2. \A m \in T : m \in Nat /\ n \in Nat /\ ~(m < n)
  BY <1>1 DEF OpToRel
<1>3. \A m \in T : n <= m
  BY <1>2
<1>. QED
  BY <1>3, Zenon

-----------------------------------------------------------------------------
(* The priority queue.                                                     *)

Sorted(q) == \A i, j \in 1..Len(q) : i < j => KeyBefore(q[i].key, q[j].key)
OneEntryEach(q) == \A i, j \in 1..Len(q) : q[i].node = q[j].node => i = j

\* What holds of the queue and of what has been inserted and not taken out.
QueueOK(q, es) ==
  /\ q \in Seq(Entries)
  /\ es = {q[i] : i \in 1..Len(q)}
  /\ IsFiniteSet(es) /\ Cardinality(es) = Len(q)
  /\ Sorted(q) /\ OneEntryEach(q)

\* The comparison that std::set is given is total and transitive.
LEMMA KeysAreOrdered ==
  ASSUME NEW k \in Keys, NEW l \in Keys, NEW m \in Keys
  PROVE  /\ KeyBefore(k, l) \/ KeyBefore(l, k)
         /\ KeyBefore(k, l) /\ KeyBefore(l, m) => KeyBefore(k, m)
<1>1. /\ k[1] \in Nat /\ k[2] \in Nat /\ l[1] \in Nat /\ l[2] \in Nat
      /\ m[1] \in Nat /\ m[2] \in Nat
  BY GridAssumption DEF Keys
<1>. QED
  BY <1>1 DEF KeyBefore

\* In a sorted queue the entries that go before a key are the first ones.
LEMMA PlaceOfKey ==
  ASSUME NEW q \in Seq(Entries), Sorted(q), NEW k \in Keys
  PROVE  LET before == {i \in DOMAIN q : ~KeyBefore(k, q[i].key)}
             m == Cardinality(before)
         IN  m \in 0..Len(q) /\ before = 1..m
<1>. DEFINE before == {i \in DOMAIN q : ~KeyBefore(k, q[i].key)}
            T == {i \in 1..(Len(q) + 1) : i \notin before}
<1>0. Len(q) \in Nat /\ DOMAIN q = 1..Len(q)
  OBVIOUS
<1>1. PICK n \in T : \A m \in T : n <= m
  <2>1. Len(q) + 1 \in T /\ T \subseteq Nat
    BY <1>0
  <2>. QED
    BY <2>1, LeastOf
<1>2. n \in 1..(Len(q) + 1) /\ n \notin before
  BY <1>1
<1>3. ASSUME NEW i \in before PROVE i \in 1..(n - 1)
  <2>1. i \in 1..Len(q) /\ ~KeyBefore(k, q[i].key)
    BY <1>0
  <2>2. i # n
    BY <1>2
  <2>3. ASSUME n < i PROVE FALSE
    <3>1. n \in 1..Len(q)
      BY <1>0, <1>2, <2>1, <2>3
    <3>2. KeyBefore(q[n].key, q[i].key)
      BY <2>1, <2>3, <3>1 DEF Sorted
    <3>3. KeyBefore(k, q[n].key)
      BY <1>0, <1>2, <3>1
    <3>4. q[n] \in Entries /\ q[i] \in Entries
      BY <2>1, <3>1
    <3>5. q[n].key \in Keys /\ q[i].key \in Keys
      BY <3>4 DEF Entries
    <3>. QED
      BY <2>1, <3>2, <3>3, <3>5, KeysAreOrdered
  <2>. QED
    BY <1>0, <1>2, <2>1, <2>2, <2>3
<1>4. ASSUME NEW i \in 1..(n - 1) PROVE i \in before
  <2>1. i \in 1..(Len(q) + 1) /\ ~(n <= i)
    BY <1>0, <1>2
  <2>. QED
    BY <1>1, <2>1
<1>. HIDE DEF before
<1>5. before = 1..(n - 1)
  BY <1>3, <1>4
<1>6. n - 1 \in Int /\ 0 <= n - 1 /\ n - 1 <= Len(q)
  BY <1>0, <1>2
<1>7. Cardinality(1..(n - 1)) = n - 1
  <2>1. Cardinality(1..(n - 1)) = IF 1 > n - 1 THEN 0 ELSE (n - 1) - 1 + 1
    BY <1>6, FS_Interval
  <2>. QED
    BY <1>6, <2>1
<1>8. Cardinality(before) = n - 1
  BY <1>5, <1>7
<1>9. n - 1 \in 0..Len(q)
  BY <1>0, <1>6
<1>10. Cardinality(before) \in 0..Len(q) /\ before = 1..Cardinality(before)
  BY <1>5, <1>8, <1>9
<1>. QED
  BY <1>10 DEF before

\* One entry is put into a sequence, and one is taken out.
LEMMA PutAt ==
  ASSUME NEW q \in Seq(Entries), NEW e \in Entries, NEW m \in 0..Len(q)
  PROVE  LET r == SubSeq(q, 1, m) \o <<e>> \o SubSeq(q, m + 1, Len(q))
         IN  /\ r \in Seq(Entries) /\ Len(r) = Len(q) + 1
             /\ \A i \in 1..Len(r) :
                  r[i] = IF i <= m THEN q[i] ELSE IF i = m + 1 THEN e ELSE q[i - 1]
<1>. DEFINE a == SubSeq(q, 1, m)
            b == SubSeq(q, m + 1, Len(q))
            ae == a \o <<e>>
            r == ae \o b
<1>0. Len(q) \in Nat /\ m \in Nat /\ m <= Len(q)
  OBVIOUS
<1>1. a \in Seq(Entries) /\ Len(a) = m /\ \A i \in 1..m : a[i] = q[i]
  BY <1>0
<1>2. b \in Seq(Entries) /\ Len(b) = Len(q) - m /\ \A i \in 1..(Len(q) - m) : b[i] = q[m + i]
  BY <1>0
<1>. HIDE DEF a, b
<1>3. ae \in Seq(Entries) /\ Len(ae) = m + 1 /\ ae[m + 1] = e /\ \A i \in 1..m : ae[i] = a[i]
  BY <1>0, <1>1
<1>. HIDE DEF ae
<1>4. /\ r \in Seq(Entries) /\ Len(r) = Len(q) + 1
      /\ \A i \in 1..Len(r) : r[i] = IF i <= m + 1 THEN ae[i] ELSE b[i - (m + 1)]
  BY <1>0, <1>2, <1>3
<1>. HIDE DEF r
<1>5. ASSUME NEW i \in 1..Len(r)
      PROVE  r[i] = IF i <= m THEN q[i] ELSE IF i = m + 1 THEN e ELSE q[i - 1]
  <2>1. CASE i <= m
    BY <1>0, <1>1, <1>3, <1>4, <2>1
  <2>2. CASE i = m + 1
    BY <1>0, <1>3, <1>4, <2>2
  <2>3. CASE i > m + 1
    <3>1. r[i] = b[i - (m + 1)] /\ i - (m + 1) \in 1..(Len(q) - m)
      BY <1>0, <1>4, <2>3
    <3>2. m + (i - (m + 1)) = i - 1
      BY <1>0
    <3>. QED
      BY <1>0, <1>2, <2>3, <3>1, <3>2
  <2>. QED
    BY <1>0, <1>4, <2>1, <2>2, <2>3
<1>. QED
  BY <1>4, <1>5 DEF r, ae, a, b

\* A sequence without one of its entries.
LEMMA TakeAt ==
  ASSUME NEW S, NEW q \in Seq(S), NEW t \in 1..Len(q)
  PROVE  LET r == SubSeq(q, 1, t - 1) \o SubSeq(q, t + 1, Len(q))
         IN  /\ r \in Seq(S) /\ Len(r) = Len(q) - 1
             /\ \A i \in 1..Len(r) : r[i] = q[IF i < t THEN i ELSE i + 1]
<1>. DEFINE a == SubSeq(q, 1, t - 1)
            b == SubSeq(q, t + 1, Len(q))
            r == a \o b
<1>0. Len(q) \in Nat /\ t \in Nat /\ 1 <= t /\ t <= Len(q)
  OBVIOUS
<1>1. a \in Seq(S) /\ Len(a) = t - 1 /\ \A i \in 1..(t - 1) : a[i] = q[i]
  BY <1>0
<1>2. b \in Seq(S) /\ Len(b) = Len(q) - t /\ \A i \in 1..(Len(q) - t) : b[i] = q[t + i]
  BY <1>0
<1>. HIDE DEF a, b
<1>4. /\ r \in Seq(S) /\ Len(r) = Len(q) - 1
      /\ \A i \in 1..Len(r) : r[i] = IF i < t THEN a[i] ELSE b[i - (t - 1)]
  <2>1. r \in Seq(S) /\ Len(r) = Len(a) + Len(b)
    <3>1. a \in Seq(S) /\ b \in Seq(S)
      BY <1>1, <1>2
    <3>. QED
      BY <3>1
  <2>2. \A i \in 1..Len(r) : r[i] = IF i <= Len(a) THEN a[i] ELSE b[i - Len(a)]
    BY <1>1, <1>2
  <2>3. Len(r) = Len(q) - 1
    BY <1>0, <1>1, <1>2, <2>1
  <2>. HIDE DEF r
  <2>4. ASSUME NEW i \in 1..Len(r)
        PROVE  r[i] = IF i < t THEN a[i] ELSE b[i - (t - 1)]
    <3>1. i \in Nat /\ (i <= t - 1 <=> i < t)
      BY <1>0, <2>3
    <3>. QED
      BY <1>1, <2>2, <3>1
  <2>. QED
    BY <2>1, <2>3, <2>4
<1>. HIDE DEF r
<1>5. ASSUME NEW i \in 1..Len(r)
      PROVE  r[i] = q[IF i < t THEN i ELSE i + 1]
  <2>1. CASE i < t
    BY <1>0, <1>1, <1>4, <2>1
  <2>2. CASE i >= t
    <3>1. r[i] = b[i - (t - 1)] /\ i - (t - 1) \in 1..(Len(q) - t)
      BY <1>0, <1>4, <2>2
    <3>2. t + (i - (t - 1)) = i + 1
      BY <1>0
    <3>. QED
      BY <1>0, <1>2, <2>2, <3>1, <3>2
  <2>. QED
    BY <1>0, <1>4, <2>1, <2>2
<1>. QED
  BY <1>4, <1>5 DEF r, a, b

\* What is known of a queue.
LEMMA QueueIs ==
  ASSUME NEW q, NEW es, QueueOK(q, es)
  PROVE  /\ q \in Seq(Entries) /\ es = {q[i] : i \in 1..Len(q)}
         /\ IsFiniteSet(es) /\ Cardinality(es) = Len(q) /\ Sorted(q) /\ OneEntryEach(q)
         /\ Len(q) \in Nat /\ DOMAIN q = 1..Len(q)
<1>1. q \in Seq(Entries)
  BY DEF QueueOK
<1>2. Len(q) \in Nat /\ DOMAIN q = 1..Len(q)
  BY <1>1
<1>3. /\ es = {q[i] : i \in 1..Len(q)}
      /\ IsFiniteSet(es) /\ Cardinality(es) = Len(q) /\ Sorted(q) /\ OneEntryEach(q)
  BY DEF QueueOK
<1>. QED
  BY <1>1, <1>2, <1>3

\* Inserting a node that is not in the queue.
LEMMA InsertKeepsOrder ==
  ASSUME NEW q, NEW es, QueueOK(q, es),
         NEW n \in QueueNodes, NEW k \in Keys, ~Contains(q, n)
  PROVE  QueueOK(Insert(q, n, k), es \cup {[node |-> n, key |-> k]})
<1>. DEFINE e == [node |-> n, key |-> k]
            before == {i \in DOMAIN q : ~KeyBefore(k, q[i].key)}
            m == Cardinality(before)
            r == Insert(q, n, k)
<1>0. Len(q) \in Nat /\ DOMAIN q = 1..Len(q)
  BY QueueIs
<1>q. /\ q \in Seq(Entries) /\ es = {q[i] : i \in 1..Len(q)}
      /\ IsFiniteSet(es) /\ Cardinality(es) = Len(q) /\ Sorted(q) /\ OneEntryEach(q)
  BY QueueIs
<1>1. e \in Entries /\ e.node = n /\ e.key = k
  BY DEF Entries
<1>2. m \in 0..Len(q) /\ before = 1..m
  BY <1>0, <1>q, PlaceOfKey
<1>3. r = SubSeq(q, 1, m) \o <<e>> \o SubSeq(q, m + 1, Len(q))
  BY DEF Insert
<1>4. \A i \in 1..Len(q) : KeyBefore(k, q[i].key) <=> m < i
  <2>. SUFFICES ASSUME NEW i \in 1..Len(q) PROVE KeyBefore(k, q[i].key) <=> m < i
    OBVIOUS
  <2>1. i \in before <=> ~KeyBefore(k, q[i].key)
    BY <1>0
  <2>. HIDE DEF before, m
  <2>2. i \in before <=> i <= m
    BY <1>0, <1>2
  <2>. QED
    BY <1>0, <1>2, <2>1, <2>2
<1>. HIDE DEF e, before, m, r
<1>5. /\ r \in Seq(Entries) /\ Len(r) = Len(q) + 1
      /\ \A i \in 1..Len(r) :
           r[i] = IF i <= m THEN q[i] ELSE IF i = m + 1 THEN e ELSE q[i - 1]
  <2>1. e \in Entries /\ q \in Seq(Entries) /\ m \in 0..Len(q)
    BY <1>q, <1>1, <1>2
  <2>. DEFINE p == SubSeq(q, 1, m) \o <<e>> \o SubSeq(q, m + 1, Len(q))
  <2>2. /\ p \in Seq(Entries) /\ Len(p) = Len(q) + 1
        /\ \A i \in 1..Len(p) :
             p[i] = IF i <= m THEN q[i] ELSE IF i = m + 1 THEN e ELSE q[i - 1]
    BY <2>1, PutAt
  <2>3. p = r
    BY <1>3
  <2>. HIDE DEF p
  <2>. QED
    BY <2>2, <2>3
\* Where an entry of the new queue comes from.
<1>6. ASSUME NEW i \in 1..Len(r), i # m + 1
      PROVE  \E o \in 1..Len(q) : /\ r[i] = q[o]
                                  /\ o = IF i <= m THEN i ELSE i - 1
                                  /\ i <= m <=> o <= m
  <2>1. CASE i <= m
    BY <1>0, <1>2, <1>5, <2>1
  <2>2. CASE i > m
    <3>1. r[i] = q[i - 1] /\ i - 1 \in 1..Len(q) /\ ~(i - 1 <= m)
      BY <1>0, <1>2, <1>5, <1>6, <2>2
    <3>. QED
      BY <1>0, <1>2, <2>2, <3>1
  <2>. QED
    BY <1>0, <1>2, <1>5, <2>1, <2>2
<1>7. m + 1 \in 1..Len(r) /\ r[m + 1] = e
  BY <1>0, <1>2, <1>5
<1>8. \A i \in 1..Len(q) : q[i] \in Entries /\ q[i].key \in Keys /\ q[i].node # n
  <2>1. \A i \in 1..Len(q) : q[i] \in Entries /\ q[i].node # n
    BY <1>0, <1>q DEF Contains
  <2>. QED
    BY <2>1 DEF Entries
<1>9. es \cup {e} = {r[i] : i \in 1..Len(r)}
  <2>1. ASSUME NEW x \in es \cup {e} PROVE \E i \in 1..Len(r) : x = r[i]
    <3>1. CASE x = e
      BY <1>7, <3>1
    <3>2. CASE x \in es
      <4>1. PICK o \in 1..Len(q) : x = q[o]
        BY <1>0, <1>q, <3>2
      <4>2. CASE o <= m
        <5>1. o \in 1..Len(r) /\ r[o] = q[o]
          BY <1>0, <1>2, <1>5, <4>2
        <5>. QED
          BY <4>1, <5>1
      <4>3. CASE o > m
        <5>1. o + 1 \in 1..Len(r) /\ ~(o + 1 <= m) /\ o + 1 # m + 1 /\ (o + 1) - 1 = o
          BY <1>0, <1>2, <1>5, <4>3
        <5>2. r[o + 1] = q[o]
          BY <1>5, <5>1
        <5>. QED
          BY <4>1, <5>1, <5>2
      <4>. QED
        BY <1>0, <1>2, <4>2, <4>3
    <3>. QED
      BY <3>1, <3>2
  <2>2. ASSUME NEW i \in 1..Len(r) PROVE r[i] \in es \cup {e}
    BY <1>0, <1>q, <1>6, <1>7
  <2>. QED
    BY <2>1, <2>2
<1>10. IsFiniteSet(es \cup {e}) /\ Cardinality(es \cup {e}) = Len(r)
  <2>1. e \notin es
    BY <1>q, <1>1, <1>8
  <2>. QED
    <3>1. /\ IsFiniteSet(es \cup {e})
          /\ Cardinality(es \cup {e}) = IF e \in es THEN Cardinality(es) ELSE Cardinality(es) + 1
      BY <1>q, FS_AddElement
    <3>2. Cardinality(es) = Len(q)
      BY <1>q
    <3>3. Len(r) = Len(q) + 1
      BY <1>5
    <3>. QED
      BY <2>1, <3>1, <3>2, <3>3
<1>11. Sorted(r)
  <2>. SUFFICES ASSUME NEW i \in 1..Len(r), NEW j \in 1..Len(r), i < j
                PROVE  KeyBefore(r[i].key, r[j].key)
    BY DEF Sorted
  <2>0. m \in Nat /\ i \in Nat /\ j \in Nat
    BY <1>0, <1>2, <1>5
  <2>1. CASE i = m + 1
    <3>1. PICK o \in 1..Len(q) : /\ r[j] = q[o] /\ (j <= m <=> o <= m)
                                 /\ o = IF j <= m THEN j ELSE j - 1
      BY <1>6, <2>0, <2>1
    <3>2. m < o
      BY <1>0, <2>0, <2>1, <3>1
    <3>. QED
      BY <1>1, <1>4, <1>7, <2>1, <3>1, <3>2
  <2>2. CASE j = m + 1
    <3>1. PICK o \in 1..Len(q) : r[i] = q[o] /\ (i <= m <=> o <= m)
      BY <1>6, <2>0, <2>2
    <3>2. o <= m /\ ~(m < o)
      BY <1>0, <2>0, <2>2, <3>1
    <3>3. ~KeyBefore(k, q[o].key)
      BY <1>4, <3>2
    <3>. QED
      BY <1>1, <1>7, <1>8, <2>2, <3>1, <3>3, KeysAreOrdered
  <2>3. CASE i # m + 1 /\ j # m + 1
    <3>1. PICK o \in 1..Len(q) : r[i] = q[o] /\ o = IF i <= m THEN i ELSE i - 1
      BY <1>6, <2>3
    <3>2. PICK p \in 1..Len(q) : r[j] = q[p] /\ p = IF j <= m THEN j ELSE j - 1
      BY <1>6, <2>3
    <3>3. o < p
      BY <2>0, <2>3, <3>1, <3>2
    <3>. QED
      BY <1>0, <1>q, <3>1, <3>2, <3>3 DEF Sorted
  <2>. QED
    BY <2>1, <2>2, <2>3
<1>12. OneEntryEach(r)
  <2>. SUFFICES ASSUME NEW i \in 1..Len(r), NEW j \in 1..Len(r), r[i].node = r[j].node
                PROVE  i = j
    BY DEF OneEntryEach
  <2>0. m \in Nat /\ i \in Nat /\ j \in Nat
    BY <1>0, <1>2, <1>5
  <2>1. CASE i = m + 1 \/ j = m + 1
    BY <1>1, <1>6, <1>7, <1>8, <2>1
  <2>2. CASE i # m + 1 /\ j # m + 1
    <3>1. PICK o \in 1..Len(q) : /\ r[i] = q[o] /\ (i <= m <=> o <= m)
                                 /\ o = IF i <= m THEN i ELSE i - 1
      BY <1>6, <2>2
    <3>2. PICK p \in 1..Len(q) : /\ r[j] = q[p] /\ (j <= m <=> p <= m)
                                 /\ p = IF j <= m THEN j ELSE j - 1
      BY <1>6, <2>2
    <3>3. o = p
      BY <1>0, <1>q, <3>1, <3>2 DEF OneEntryEach
    <3>. QED
      BY <2>0, <3>1, <3>2, <3>3
  <2>. QED
    BY <2>1, <2>2
<1>. QED
  BY <1>5, <1>9, <1>10, <1>11, <1>12 DEF QueueOK, e, r

\* Taking out an entry, the first one or another.
LEMMA TakingKeepsOrder ==
  ASSUME NEW q, NEW es, QueueOK(q, es), NEW t \in 1..Len(q),
         NEW r \in Seq(Entries), Len(r) = Len(q) - 1,
         \A i \in 1..Len(r) : r[i] = q[IF i < t THEN i ELSE i + 1]
  PROVE  QueueOK(r, es \ {q[t]})
<1>0. /\ q \in Seq(Entries) /\ es = {q[i] : i \in 1..Len(q)}
      /\ IsFiniteSet(es) /\ Cardinality(es) = Len(q) /\ Sorted(q) /\ OneEntryEach(q)
      /\ Len(q) \in Nat /\ Len(r) \in Nat /\ t \in Nat
  BY QueueIs
<1>. DEFINE From(i) == IF i < t THEN i ELSE i + 1
<1>1. \A i \in 1..Len(r) : r[i] = q[From(i)] /\ From(i) \in 1..Len(q) /\ From(i) # t
  <2>. SUFFICES ASSUME NEW i \in 1..Len(r)
                PROVE  r[i] = q[From(i)] /\ From(i) \in 1..Len(q) /\ From(i) # t
    OBVIOUS
  <2>1. From(i) \in 1..Len(q) /\ From(i) # t
    BY <1>0
  <2>. QED
    BY <2>1
<1>2. \A i, j \in 1..Len(r) : i < j => From(i) < From(j)
  BY <1>0
<1>3. \A o \in 1..Len(q) : o # t => \E i \in 1..Len(r) : From(i) = o
  <2>. SUFFICES ASSUME NEW o \in 1..Len(q), o # t PROVE \E i \in 1..Len(r) : From(i) = o
    OBVIOUS
  <2>1. CASE o < t
    BY <1>0, <2>1
  <2>2. CASE o > t
    <3>1. o - 1 \in 1..Len(r) /\ From(o - 1) = o
      BY <1>0, <2>2
    <3>. QED
      BY <3>1
  <2>. QED
    BY <1>0, <2>1, <2>2
<1>. HIDE DEF From
<1>4. es \ {q[t]} = {r[i] : i \in 1..Len(r)}
  <2>1. ASSUME NEW x \in es \ {q[t]} PROVE \E i \in 1..Len(r) : x = r[i]
    <3>1. PICK o \in 1..Len(q) : x = q[o]
      BY <1>0
    <3>2. o # t
      BY <2>1, <3>1
    <3>. QED
      BY <1>1, <1>3, <3>1, <3>2
  <2>2. ASSUME NEW i \in 1..Len(r) PROVE r[i] \in es \ {q[t]}
    <3>1. r[i] = q[From(i)] /\ From(i) \in 1..Len(q) /\ From(i) # t
      BY <1>1
    <3>2. q[From(i)] # q[t]
      BY <1>0, <3>1 DEF OneEntryEach
    <3>. QED
      BY <1>0, <3>1, <3>2
  <2>. QED
    BY <2>1, <2>2
<1>5. IsFiniteSet(es \ {q[t]}) /\ Cardinality(es \ {q[t]}) = Len(r)
  <2>1. q[t] \in es
    BY <1>0
  <2>. QED
    BY <1>0, <2>1, FS_RemoveElement
<1>6. Sorted(r)
  <2>. SUFFICES ASSUME NEW i \in 1..Len(r), NEW j \in 1..Len(r), i < j
                PROVE  KeyBefore(r[i].key, r[j].key)
    BY DEF Sorted
  <2>1. From(i) < From(j)
    BY <1>2
  <2>. QED
    BY <1>0, <1>1, <2>1 DEF Sorted
<1>7. OneEntryEach(r)
  <2>. SUFFICES ASSUME NEW i \in 1..Len(r), NEW j \in 1..Len(r), r[i].node = r[j].node
                PROVE  i = j
    BY DEF OneEntryEach
  <2>1. From(i) = From(j)
    BY <1>0, <1>1 DEF OneEntryEach
  <2>2. ~(i < j) /\ ~(j < i)
    <3>1. From(i) \in Nat /\ From(j) \in Nat
      BY <1>0, <1>1
    <3>. QED
      BY <1>2, <2>1, <3>1
  <2>. QED
    BY <1>0, <2>2
<1>. QED
  BY <1>4, <1>5, <1>6, <1>7 DEF QueueOK

\* Removing a node leaves the queue in order.
LEMMA RemoveKeepsOrder ==
  ASSUME NEW q, NEW es, QueueOK(q, es), NEW n, Contains(q, n)
  PROVE  QueueOK(Remove(q, n), {e \in es : e.node # n})
<1>0. /\ q \in Seq(Entries) /\ es = {q[i] : i \in 1..Len(q)} /\ OneEntryEach(q)
      /\ Len(q) \in Nat /\ DOMAIN q = 1..Len(q)
  BY QueueIs
<1>. DEFINE First(i) == q[i].node = n /\ \A j \in 1..(i-1) : q[j].node # n
            it == CHOOSE i \in DOMAIN q : First(i)
<1>1. \E i \in DOMAIN q : First(i)
  <2>. DEFINE T == {i \in DOMAIN q : q[i].node = n}
  <2>1. T \subseteq Nat /\ T # {}
    BY <1>0 DEF Contains
  <2>2. PICK i \in T : \A m \in T : i <= m
    BY <2>1, LeastOf
  <2>3. ASSUME NEW j \in 1..(i-1) PROVE q[j].node # n
    <3>1. j \in DOMAIN q /\ ~(i <= j)
      BY <1>0
    <3>. QED
      BY <2>2, <3>1
  <2>. QED
    BY <2>3
<1>2. it \in DOMAIN q /\ First(it)
  BY <1>1
<1>3. Remove(q, n) = SubSeq(q, 1, it - 1) \o SubSeq(q, it + 1, Len(q))
  BY DEF Remove
<1>. HIDE DEF it
<1>4. it \in 1..Len(q) /\ q[it].node = n
  BY <1>0, <1>2
<1>5. {e \in es : e.node # n} = es \ {q[it]}
  <2>1. ASSUME NEW e \in es, e.node = n PROVE e = q[it]
    <3>1. PICK i \in 1..Len(q) : e = q[i]
      BY <1>0
    <3>. QED
      BY <1>0, <1>4, <2>1, <3>1 DEF OneEntryEach
  <2>. QED
    BY <1>4, <2>1
<1>6. QueueOK(Remove(q, n), es \ {q[it]})
  <2>. DEFINE r == SubSeq(q, 1, it - 1) \o SubSeq(q, it + 1, Len(q))
  <2>1. /\ r \in Seq(Entries) /\ Len(r) = Len(q) - 1
        /\ \A i \in 1..Len(r) : r[i] = q[IF i < it THEN i ELSE i + 1]
    BY <1>0, <1>4, TakeAt
  <2>. HIDE DEF r
  <2>2. QueueOK(r, es \ {q[it]})
    BY <1>4, <2>1, TakingKeepsOrder
  <2>. QED
    BY <1>3, <2>2 DEF r
<1>. QED
  BY <1>5, <1>6

\* So does taking the first.
LEMMA PopKeepsOrder ==
  ASSUME NEW q, NEW es, QueueOK(q, es), q # <<>>
  PROVE  QueueOK(Pop(q), es \ {q[1]})
<1>0. q \in Seq(Entries) /\ Len(q) \in Nat
  BY QueueIs
<1>1. 1 \in 1..Len(q)
  BY <1>0
<1>2. Pop(q) = Tail(q)
  BY DEF Pop
<1>3. Tail(q) \in Seq(Entries) /\ Len(Tail(q)) = Len(q) - 1
  BY <1>0
<1>4. \A i \in 1..Len(Tail(q)) : Tail(q)[i] = q[IF i < 1 THEN i ELSE i + 1]
  BY <1>0
<1>. QED
  BY <1>1, <1>2, <1>3, <1>4, TakingKeepsOrder

\* Every step of the queue keeps it in order.
LEMMA QueueStaysOK ==
  ASSUME QueueOK(pq_, entries), [QueueNext]_queueVars
  PROVE  QueueOK(pq_, entries)'
<1>1. CASE PushNode
  BY <1>1, InsertKeepsOrder DEF PushNode
<1>2. CASE RemoveNode
  BY <1>2, RemoveKeepsOrder DEF RemoveNode
<1>3. CASE PopNode
  BY <1>3, PopKeepsOrder DEF PopNode
<1>4. CASE UNCHANGED queueVars
  <2>1. pq_' = pq_ /\ entries' = entries
    BY <1>4 DEF queueVars
  <2>. QED
    BY <2>1
<1>. QED
  BY <1>1, <1>2, <1>3, <1>4 DEF QueueNext

\* For any nodes and any keys of natural numbers: the queue has one entry for
\* each one that was inserted and not taken out, and they stand in the order of
\* their keys, though it is sorted with a comparison that is not strict.
THEOREM QueueStaysInOrder == QueueSpec => []QueueInOrder
<1>1. EmptyQueue => QueueOK(pq_, entries)
  <2>. SUFFICES ASSUME EmptyQueue PROVE QueueOK(pq_, entries)
    OBVIOUS
  <2>1. pq_ = <<>> /\ entries = {} /\ Len(pq_) = 0 /\ pq_ \in Seq(Entries)
    BY DEF EmptyQueue
  <2>2. IsFiniteSet({}) /\ Cardinality({}) = 0
    BY FS_EmptySet
  <2>. QED
    BY <2>1, <2>2 DEF QueueOK, Sorted, OneEntryEach
<1>2. QueueOK(pq_, entries) => QueueInOrder
  <2>. SUFFICES ASSUME QueueOK(pq_, entries) PROVE QueueInOrder
    OBVIOUS
  <2>1. DOMAIN pq_ = 1..Len(pq_)
    BY QueueIs
  <2>. QED
    BY <2>1 DEF QueueOK, Sorted, KeyBefore, QueueInOrder
<1>. QED
  BY <1>1, <1>2, QueueStaysOK, PTL DEF QueueSpec

-----------------------------------------------------------------------------
(* The graph.                                                              *)

MapOK ==
  /\ configuration_space_ \in ConfigurationSpaces
  /\ map_ = NoMap \/ map_ \in [Cells -> 0..255]

\* The map always has the values of cells.
LEMMA MapStaysOK ==
  /\ GraphInit => MapOK
  /\ MapOK /\ [GraphNext]_graphVars => MapOK'
<1>1. GraphInit => MapOK
  BY GridAssumption DEF GraphInit, MapOK
<1>2. ASSUME MapOK, initializeGraph PROVE MapOK'
  BY <1>2 DEF initializeGraph, MapOK
<1>3. ASSUME MapOK, updateGraph PROVE MapOK'
  <2>1. PICK c \in Cells, v \in CellValues : map_' = [map_ EXCEPT ![c] = v]
    BY <1>3 DEF updateGraph
  <2>2. map_ \in [Cells -> 0..255] /\ v \in 0..255
    BY <1>3, GridAssumption DEF MapOK, updateGraph
  <2>3. map_' \in [Cells -> 0..255]
    BY <2>1, <2>2
  <2>. QED
    BY <1>3, <2>3 DEF MapOK, updateGraph
<1>4. ASSUME MapOK, UNCHANGED graphVars PROVE MapOK'
  BY <1>4 DEF MapOK, graphVars
<1>. QED
  BY <1>1, <1>2, <1>3, <1>4 DEF GraphNext

\* Neighbours are on the grid, one step apart, and each other's.
LEMMA NeighbourIs ==
  ASSUME NEW s \in Nodes, NEW t \in nbrs(s)
  PROVE  /\ t \in Nodes /\ s \in nbrs(t)
         /\ s = <<s[1], s[2]>> /\ t = <<t[1], t[2]>>
         /\ s[1] \in Nat /\ s[2] \in Nat /\ t[1] \in Nat /\ t[2] \in Nat
         /\ t[1] - s[1] \in -1..1 /\ t[2] - s[2] \in -1..1
         /\ t[1] # s[1] \/ t[2] # s[2]
<1>0. /\ length_ \in Nat /\ width_ \in Nat
      /\ s = <<s[1], s[2]>> /\ s[1] \in 0..length_ /\ s[2] \in 0..width_
  BY GridAssumption DEF Nodes
<1>1. PICK i \in 1..8 : t = Moved(s, Around[i], 1)
  BY DEF nbrs
<1>2. isValidNode(t)
  BY DEF nbrs
<1>3. /\ Around[i][1] \in -1..1 /\ Around[i][2] \in -1..1
      /\ Around[i][1] # 0 \/ Around[i][2] # 0
  BY DEF Around
<1>4. t = <<s[1] + Around[i][1], s[2] + Around[i][2]>>
  BY <1>0, <1>1, <1>3 DEF Moved
<1>5. PICK j \in 1..8 : Around[j][1] = -Around[i][1] /\ Around[j][2] = -Around[i][2]
  <2>1. CASE i \in 1..4
    <3>1. i + 4 \in 1..8 /\ (i = 1 \/ i = 2 \/ i = 3 \/ i = 4)
      BY <2>1
    <3>. QED
      BY <3>1 DEF Around
  <2>2. CASE i \in 5..8
    <3>1. i - 4 \in 1..8 /\ (i = 5 \/ i = 6 \/ i = 7 \/ i = 8)
      BY <2>2
    <3>. QED
      BY <3>1 DEF Around
  <2>. QED
    BY <2>1, <2>2
<1>6. /\ t = <<t[1], t[2]>> /\ t[1] = s[1] + Around[i][1] /\ t[2] = s[2] + Around[i][2]
      /\ t[1] \in 0..length_ /\ t[2] \in 0..width_
  <2>1. t = <<t[1], t[2]>> /\ t[1] = s[1] + Around[i][1] /\ t[2] = s[2] + Around[i][2]
    BY <1>4
  <2>. HIDE DEF Around
  <2>2. t[1] \in Int /\ t[2] \in Int
    BY <1>0, <1>3, <2>1
  <2>. QED
    BY <1>0, <1>2, <2>1, <2>2 DEF isValidNode
<1>7. t \in Nodes
  BY <1>6 DEF Nodes
<1>8. s \in nbrs(t)
  <2>1. s[1] = t[1] + 1 * Around[j][1] /\ s[2] = t[2] + 1 * Around[j][2]
    BY <1>0, <1>3, <1>5, <1>6
  <2>2. s = Moved(t, Around[j], 1)
    BY <1>0, <2>1 DEF Moved
  <2>3. isValidNode(s)
    BY <1>0 DEF isValidNode
  <2>. QED
    BY <2>2, <2>3 DEF nbrs
<1>9. t[1] - s[1] \in -1..1 /\ t[2] - s[2] \in -1..1 /\ (t[1] # s[1] \/ t[2] # s[2])
  BY <1>0, <1>3, <1>6
<1>. QED
  BY <1>0, <1>6, <1>7, <1>8, <1>9

\* A set of values has a largest one.
LEMMA LargestOf ==
  ASSUME NEW T, T \subseteq 0..255, T # {}
  PROVE  \E v \in T : \A w \in T : w <= v
<1>. DEFINE U == {255 - v : v \in T}
<1>1. U \subseteq Nat /\ U # {}
  <2>1. PICK v \in T : TRUE
    OBVIOUS
  <2>2. 255 - v \in U
    OBVIOUS
  <2>3. ASSUME NEW w \in T PROVE 255 - w \in Nat
    OBVIOUS
  <2>. QED
    BY <2>2, <2>3
<1>2. PICK u \in U : \A w \in U : u <= w
  BY <1>1, LeastOf
<1>3. PICK v \in T : u = 255 - v
  OBVIOUS
<1>4. ASSUME NEW w \in T PROVE w <= v
  <2>1. 255 - v <= 255 - w
    BY <1>2, <1>3
  <2>2. v \in Int /\ w \in Int
    OBVIOUS
  <2>. QED
    BY <2>1, <2>2
<1>. QED
  BY <1>4

\* The cells around a cell that its value is taken from.
Slice(cs, c) ==
  (Greatest(c[1] - separation(cs), 0)..Least(c[1] + separation(cs) + 1, length_) - 1)
  \X (Greatest(c[2] - separation(cs), 0)..Least(c[2] + separation(cs) + 1, width_) - 1)

\* The separation is wider than the configuration space, though both of its
\* roundings are down.
LEMMA SeparationIsWider ==
  ASSUME NEW cs \in Nat
  PROVE  separation(cs) \in Nat \ {0} /\ separation(cs) * resolution_ > cs
<1>. DEFINE q == cs \div resolution_
            r == cs % resolution_
<1>1. resolution_ \in Nat \ {0}
  BY GridAssumption
<1>2. q \in Nat /\ r \in 0..(resolution_ - 1)
  BY <1>1
<1>3. r = cs - resolution_ * q
  BY <1>1
<1>4. separation(cs) = q + 1
  BY DEF separation
<1>. HIDE DEF q, r
<1>5. (q + 1) * resolution_ = resolution_ * q + resolution_
  BY <1>1, <1>2
<1>6. resolution_ * q \in Nat
  BY <1>1, <1>2
<1>. QED
  BY <1>1, <1>2, <1>3, <1>4, <1>5, <1>6

\* What a cell's value says of the cells around it.
LEMMA SliceValue ==
  ASSUME NEW map \in [Cells -> 0..255], NEW cs \in Nat, NEW c \in Int \X Int
  PROVE  /\ getValWithConfigurationSpace(map, cs, c) \in 0..255
         /\ ~isValidCell(c) => getValWithConfigurationSpace(map, cs, c) = 255
         /\ isValidCell(c) => \A d \in Cells :
              /\ d[1] - c[1] \in -separation(cs)..separation(cs)
              /\ d[2] - c[2] \in -separation(cs)..separation(cs)
              => map[d] <= getValWithConfigurationSpace(map, cs, c)
<1>. DEFINE sep == separation(cs)
            S == Slice(cs, c)
            vals == {map[d] : d \in S}
<1>0. /\ length_ \in Nat \ {0} /\ width_ \in Nat \ {0} /\ sep \in Nat
      /\ c[1] \in Int /\ c[2] \in Int
  BY GridAssumption, SeparationIsWider
<1>1. CASE ~isValidCell(c)
  BY <1>1 DEF getValWithConfigurationSpace
<1>2. CASE isValidCell(c)
  <2>1. c[1] \in 0..(length_ - 1) /\ c[2] \in 0..(width_ - 1)
    BY <1>0, <1>2 DEF isValidCell
  <2>. HIDE DEF sep
  <2>. DEFINE XS == Greatest(c[1] - sep, 0)..(Least(c[1] + sep + 1, length_) - 1)
              YS == Greatest(c[2] - sep, 0)..(Least(c[2] + sep + 1, width_) - 1)
  <2>2. S = XS \X YS
    BY DEF Slice, sep
  <2>3. XS \subseteq 0..(length_ - 1) /\ c[1] \in XS
    BY <1>0, <2>1 DEF Greatest, Least
  <2>4. YS \subseteq 0..(width_ - 1) /\ c[2] \in YS
    BY <1>0, <2>1 DEF Greatest, Least
  <2>5. \A x \in 0..(length_ - 1) : x - c[1] \in -sep..sep => x \in XS
    BY <1>0, <2>1 DEF Greatest, Least
  <2>6. \A y \in 0..(width_ - 1) : y - c[2] \in -sep..sep => y \in YS
    BY <1>0, <2>1 DEF Greatest, Least
  <2>. HIDE DEF S, XS, YS
  <2>7. S \subseteq Cells /\ <<c[1], c[2]>> \in S
    BY <2>2, <2>3, <2>4 DEF Cells
  <2>8. vals \subseteq 0..255 /\ vals # {}
    BY <2>7
  <2>9. \E v \in vals : \A w \in vals : w <= v
    BY <2>8, LargestOf
  <2>10. getValWithConfigurationSpace(map, cs, c) = CHOOSE v \in vals : \A d \in S : map[d] <= v
    BY <1>2 DEF getValWithConfigurationSpace, S, Slice, sep
  <2>11. \E v \in vals : \A d \in S : map[d] <= v
    BY <2>9
  <2>. DEFINE val == CHOOSE v \in vals : \A d \in S : map[d] <= v
  <2>12. val \in vals /\ \A d \in S : map[d] <= val
    BY <2>11
  <2>. HIDE DEF val
  <2>13. val \in 0..255
    BY <2>8, <2>12
  <2>. HIDE DEF vals
  <2>14. ASSUME NEW d \in Cells, d[1] - c[1] \in -sep..sep, d[2] - c[2] \in -sep..sep
         PROVE  d \in S
    <3>1. d = <<d[1], d[2]>> /\ d[1] \in 0..(length_ - 1) /\ d[2] \in 0..(width_ - 1)
      BY DEF Cells
    <3>. QED
      BY <2>2, <2>5, <2>6, <2>14, <3>1
  <2>15. getValWithConfigurationSpace(map, cs, c) = val
    BY <2>10 DEF val
  <2>. QED
    BY <1>2, <2>12, <2>13, <2>14, <2>15 DEF sep
<1>. QED
  BY <1>1, <1>2

\* A cell costs at least the traversal cost, and is infinite when it is occupied.
LEMMA CellCostIs ==
  ASSUME NEW val \in 0..255
  PROVE  /\ CellCost(val) \in Nat /\ CellCost(val) >= TRAVERSAL_COST
         /\ CellCost(val) <= Infinity
         /\ CellCost(val) # Infinity => val <= occupancy_threshold_uchar_
BY DEF CellCost, TRAVERSAL_COST, Infinity, occupancy_threshold_uchar_

\* The cell between two nodes: their lower corner.
Low(s, t) == <<Least(s[1], t[1]), Least(s[2], t[2])>>

\* The lower corner of a step, which is the same both ways.
LEMMA LowIs ==
  ASSUME NEW s \in Nodes, NEW t \in nbrs(s)
  PROVE  /\ Low(s, t) \in Int \X Int /\ Low(s, t) = Low(t, s)
         /\ \A n \in {s, t} : n[1] - Low(s, t)[1] \in 0..1 /\ n[2] - Low(s, t)[2] \in 0..1
<1>1. /\ s[1] \in Nat /\ s[2] \in Nat /\ t[1] \in Nat /\ t[2] \in Nat
      /\ t[1] - s[1] \in -1..1 /\ t[2] - s[2] \in -1..1
  BY NeighbourIs
<1>. DEFINE x == Least(s[1], t[1])
            y == Least(s[2], t[2])
<1>2. /\ x \in Int /\ y \in Int
      /\ x = Least(t[1], s[1]) /\ y = Least(t[2], s[2])
      /\ s[1] - x \in 0..1 /\ s[2] - y \in 0..1 /\ t[1] - x \in 0..1 /\ t[2] - y \in 0..1
  BY <1>1 DEF Least
<1>3. Low(s, t) = <<x, y>> /\ Low(t, s) = <<Least(t[1], s[1]), Least(t[2], s[2])>>
  BY DEF Low
<1>. HIDE DEF x, y
<1>. QED
  BY <1>2, <1>3

\* The costs of the cell between two nodes and of the cells beside an edge.
LEMMA CostsAre ==
  ASSUME NEW map \in [Cells -> 0..255], NEW cs \in Nat, NEW s \in Nodes, NEW t \in nbrs(s)
  PROVE  /\ getC(map, cs, s, t) \in Nat /\ getC(map, cs, s, t) >= TRAVERSAL_COST
         /\ getB(map, cs, s, t) \in Nat /\ getB(map, cs, s, t) >= TRAVERSAL_COST
         /\ getC(map, cs, s, t) = getC(map, cs, t, s)
         /\ getB(map, cs, s, t) = getB(map, cs, t, s)
         /\ \/ getC(map, cs, s, t) < Infinity /\ isDiagonal(s, t)
            \/ getB(map, cs, s, t) < Infinity
            => getValWithConfigurationSpace(map, cs, Low(s, t)) <= occupancy_threshold_uchar_
<1>. DEFINE Value(c) == getValWithConfigurationSpace(map, cs, c)
            low == Low(s, t)
            vals == {Value(c) : c \in EdgeCells(s, t)}
            val == CHOOSE v \in vals : \A w \in vals : w <= v
<1>1. /\ low \in Int \X Int /\ low = Low(t, s)
      /\ s[1] \in Nat /\ s[2] \in Nat /\ t[1] \in Nat /\ t[2] \in Nat
  BY LowIs, NeighbourIs
<1>2. /\ getC(map, cs, s, t) = CellCost(Value(low))
      /\ getC(map, cs, t, s) = CellCost(Value(low))
  BY <1>1 DEF getC, Low
<1>3. EdgeCells(s, t) = EdgeCells(t, s)
  BY <1>1 DEF EdgeCells, Low
<1>4. /\ getB(map, cs, s, t) = CellCost(val)
      /\ getB(map, cs, t, s) = CellCost(val)
  BY <1>3 DEF getB
<1>5. low \in EdgeCells(s, t) /\ EdgeCells(s, t) \subseteq Int \X Int
  <2>1. low[1] \in Int /\ low[2] \in Int
    BY <1>1
  <2>2. EdgeCells(s, t) =
          {low, IF s[1] = t[1] THEN <<low[1] - 1, low[2]>> ELSE <<low[1], low[2] - 1>>}
    BY DEF EdgeCells, Low
  <2>. HIDE DEF low
  <2>3. <<low[1] - 1, low[2]>> \in Int \X Int /\ <<low[1], low[2] - 1>> \in Int \X Int
    BY <2>1
  <2>. QED
    BY <1>1, <2>2, <2>3
<1>6. \A c \in Int \X Int : Value(c) \in 0..255
  BY SliceValue
<1>. HIDE DEF low, Value
<1>7. vals \subseteq 0..255 /\ Value(low) \in vals
  BY <1>5, <1>6
<1>8. val \in vals /\ \A w \in vals : w <= val
  <2>1. \E v \in vals : \A w \in vals : w <= v
    BY <1>7, LargestOf
  <2>. HIDE DEF vals
  <2>. QED
    BY <2>1
<1>. HIDE DEF val, vals
<1>9. val \in 0..255 /\ Value(low) \in 0..255 /\ Value(low) <= val
  BY <1>7, <1>8
<1>10. /\ CellCost(val) \in Nat /\ CellCost(val) >= TRAVERSAL_COST
       /\ CellCost(val) # Infinity => val <= occupancy_threshold_uchar_
       /\ CellCost(Value(low)) \in Nat /\ CellCost(Value(low)) >= TRAVERSAL_COST
       /\ CellCost(Value(low)) # Infinity => Value(low) <= occupancy_threshold_uchar_
  BY <1>9, CellCostIs
<1>11. ASSUME CellCost(Value(low)) < Infinity \/ CellCost(val) < Infinity
       PROVE  Value(low) <= occupancy_threshold_uchar_
  BY <1>9, <1>10, <1>11 DEF Infinity, occupancy_threshold_uchar_
<1>. QED
  BY <1>2, <1>4, <1>10, <1>11 DEF low, Value

\* Squares have the order of what is squared.
LEMMA SquareGrows ==
  ASSUME NEW a \in Nat, NEW b \in Nat
  PROVE  /\ Squared(a) \in Nat
         /\ a <= b => Squared(a) <= Squared(b)
         /\ Squared(a) < Squared(b) => a < b
         /\ a < b => Squared(a) < Squared(b)
<1>1. a * a \in Nat /\ b * b \in Nat
  OBVIOUS
<1>2. ASSUME a < b PROVE a * a < b * b
  <2>1. PICK d \in Nat : b = a + 1 + d
    <3>1. b - a - 1 \in Nat /\ b = a + 1 + (b - a - 1)
      BY <1>2
    <3>. QED
      BY <3>1
  <2>2. b * b = a * a + a * (1 + d) + (1 + d) * b
    BY <2>1
  <2>3. a * (1 + d) \in Nat /\ (1 + d) * b \in Nat
    OBVIOUS
  <2>4. (1 + d) * b = b + d * b /\ d * b \in Nat /\ b > 0
    BY <1>2
  <2>. QED
    BY <1>1, <2>2, <2>3, <2>4
<1>3. ASSUME b < a PROVE b * b < a * a
  <2>1. PICK d \in Nat : a = b + 1 + d
    <3>1. a - b - 1 \in Nat /\ a = b + 1 + (a - b - 1)
      BY <1>3
    <3>. QED
      BY <3>1
  <2>2. a * a = b * b + b * (1 + d) + (1 + d) * a
    BY <2>1
  <2>3. b * (1 + d) \in Nat /\ (1 + d) * a \in Nat
    OBVIOUS
  <2>4. (1 + d) * a = a + d * a /\ d * a \in Nat /\ a > 0
    BY <1>3
  <2>. QED
    BY <1>1, <2>2, <2>3, <2>4
<1>4. a = b => a * a = b * b
  OBVIOUS
<1>. DEFINE aa == a * a
            bb == b * b
<1>5. Squared(a) = aa /\ Squared(b) = bb
  BY DEF Squared
<1>. HIDE DEF aa, bb
<1>6. (a < b => aa < bb) /\ (b < a => bb < aa) /\ (a = b => aa = bb) /\ aa \in Nat /\ bb \in Nat
  BY <1>1, <1>2, <1>3, <1>4 DEF aa, bb
<1>. QED
  BY <1>5, <1>6

\* Both ends of an edge are far from every occupied cell if the value of the
\* cell between them is not one of an occupied cell.
LEMMA ClearAround ==
  ASSUME NEW map \in [Cells -> 0..255], NEW cs \in Nat, NEW c \in Int \X Int,
         getValWithConfigurationSpace(map, cs, c) <= occupancy_threshold_uchar_,
         NEW d \in Cells, map[d] > occupancy_threshold_uchar_,
         NEW n, n[1] \in Nat, n[2] \in Nat, n[1] - c[1] \in 0..1, n[2] - c[2] \in 0..1
  PROVE  DistanceToCell(n, d) * Squared(resolution_) > Squared(cs)
<1>. DEFINE sep == separation(cs)
            g1 == Gap(n[1], d[1])
            g2 == Gap(n[2], d[2])
            res == resolution_
<1>0. c[1] \in Int /\ c[2] \in Int /\ d[1] \in Nat /\ d[2] \in Nat
  BY GridAssumption DEF Cells
<1>1. sep \in Nat \ {0} /\ sep * res > cs /\ res \in Nat \ {0}
  BY SeparationIsWider, GridAssumption
<1>. DEFINE v == getValWithConfigurationSpace(map, cs, c)
<1>2. ~(d[1] - c[1] \in -sep..sep) \/ ~(d[2] - c[2] \in -sep..sep)
  <2>1. isValidCell(c)
    BY SliceValue DEF occupancy_threshold_uchar_
  <2>2. ASSUME d[1] - c[1] \in -sep..sep, d[2] - c[2] \in -sep..sep PROVE FALSE
    <3>1. map[d] <= v /\ v \in 0..255 /\ map[d] \in 0..255
      BY <2>1, <2>2, SliceValue
    <3>. HIDE DEF v
    <3>2. v <= occupancy_threshold_uchar_ /\ map[d] > occupancy_threshold_uchar_
      BY DEF v
    <3>. QED
      BY <3>1, <3>2 DEF occupancy_threshold_uchar_
  <2>. QED
    BY <2>2
<1>. HIDE DEF sep, v, res
<1>3. g1 \in Nat /\ g2 \in Nat
  BY <1>0 DEF Gap
<1>4. ~(d[1] - c[1] \in -sep..sep) => g1 >= sep
  BY <1>0, <1>1 DEF Gap
<1>5. ~(d[2] - c[2] \in -sep..sep) => g2 >= sep
  BY <1>0, <1>1 DEF Gap
<1>. HIDE DEF g1, g2
<1>6. DistanceToCell(n, d) = Squared(g1) + Squared(g2)
  BY DEF DistanceToCell, g1, g2
<1>7. Squared(g1) \in Nat /\ Squared(g2) \in Nat /\ Squared(sep) \in Nat
  BY <1>1, <1>3, SquareGrows
<1>8. Squared(g1) >= Squared(sep) \/ Squared(g2) >= Squared(sep)
  BY <1>1, <1>2, <1>3, <1>4, <1>5, SquareGrows
<1>. DEFINE dist == DistanceToCell(n, d)
            ss == Squared(sep)
<1>9. dist \in Nat /\ ss \in Nat /\ dist >= ss
  BY <1>6, <1>7, <1>8
<1>. HIDE DEF dist
<1>10. dist * Squared(res) >= ss * Squared(res)
  <2>. HIDE DEF ss
  <2>1. PICK e \in Nat : dist = ss + e
    <3>1. dist - ss \in Nat /\ dist = ss + (dist - ss)
      BY <1>9
    <3>. QED
      BY <3>1
  <2>. DEFINE rr == Squared(res)
  <2>2. rr \in Nat
    BY <1>1, SquareGrows
  <2>. HIDE DEF rr
  <2>3. dist * rr = ss * rr + e * rr
    BY <1>9, <2>1, <2>2
  <2>4. e * rr \in Nat /\ ss * rr \in Nat
    BY <1>9, <2>1, <2>2
  <2>5. dist * rr >= ss * rr
    BY <2>3, <2>4
  <2>. QED
    BY <2>5 DEF rr
<1>11. ss * Squared(res) = Squared(sep * res) /\ sep * res \in Nat
  BY <1>1 DEF Squared
<1>12. Squared(sep * res) > Squared(cs)
  <2>. DEFINE w == sep * res
  <2>1. w \in Nat /\ cs < w
    BY <1>1, <1>11
  <2>. HIDE DEF w
  <2>2. Squared(cs) < Squared(w) /\ Squared(w) \in Nat /\ Squared(cs) \in Nat
    BY <2>1, SquareGrows
  <2>. QED
    BY <2>2 DEF w
<1>13. Squared(sep * res) \in Nat /\ Squared(cs) \in Nat
  BY <1>11, SquareGrows
<1>14. dist * Squared(res) \in Nat
  BY <1>1, <1>9, SquareGrows
<1>. DEFINE p == dist * Squared(res)
            q == ss * Squared(res)
            u == Squared(sep * res)
            k == Squared(cs)
<1>15. p >= q /\ q = u /\ u > k
  BY <1>10, <1>11, <1>12
<1>16. p \in Nat /\ u \in Nat /\ k \in Nat
  BY <1>13, <1>14
<1>. HIDE DEF p, q, u, k
<1>17. p > k
  BY <1>15, <1>16
<1>. QED
  BY <1>17 DEF p, k, dist, res

\* The cost of a step: the same both ways, and at least its length.
LEMMA StepCostIs ==
  ASSUME NEW map \in [Cells -> 0..255], NEW cs \in Nat, NEW s \in Nodes, NEW t \in nbrs(s)
  PROVE  LET cost == getTraversalCost(map, cs, s, t)
         IN  /\ cost \in Nat
             /\ cost = getTraversalCost(map, cs, t, s)
             /\ cost >= Squared(TRAVERSAL_COST) * euclidianHeuristicSquared(s, t)
             /\ cost < Squared(Infinity) =>
                  getValWithConfigurationSpace(map, cs, Low(s, t)) <= occupancy_threshold_uchar_
<1>. DEFINE C == getC(map, cs, s, t)
            B == getB(map, cs, s, t)
            free == getValWithConfigurationSpace(map, cs, Low(s, t)) <= occupancy_threshold_uchar_
            TC == TRAVERSAL_COST
            Inf == Infinity
<1>1. /\ C \in Nat /\ C >= TC /\ B \in Nat /\ B >= TC
      /\ C = getC(map, cs, t, s) /\ B = getB(map, cs, t, s)
      /\ (C < Inf /\ isDiagonal(s, t)) => free
      /\ B < Inf => free
  BY CostsAre
<1>2. TC \in Nat /\ Inf \in Nat
  BY DEF TRAVERSAL_COST, Infinity
<1>3. /\ s[1] \in Nat /\ s[2] \in Nat /\ t[1] \in Nat /\ t[2] \in Nat
      /\ t[1] - s[1] \in -1..1 /\ t[2] - s[2] \in -1..1
      /\ t[1] # s[1] \/ t[2] # s[2]
  BY NeighbourIs
<1>4. isDiagonal(s, t) <=> isDiagonal(t, s)
  BY <1>3 DEF isDiagonal, Abs
<1>5. euclidianHeuristicSquared(s, t) = IF isDiagonal(s, t) THEN 2 ELSE 1
  <2>. DEFINE dx == s[1] - t[1]
              dy == s[2] - t[2]
  <2>1. /\ dx \in {-1, 0, 1} /\ dy \in {-1, 0, 1} /\ (dx # 0 \/ dy # 0)
        /\ isDiagonal(s, t) <=> dx # 0 /\ dy # 0
    BY <1>3 DEF isDiagonal, Abs
  <2>2. euclidianHeuristicSquared(s, t) = dx * dx + dy * dy
    BY DEF euclidianHeuristicSquared, DistanceSquared, Squared
  <2>. HIDE DEF dx, dy
  <2>3. dx * dx = IF dx = 0 THEN 0 ELSE 1
    BY <2>1
  <2>4. dy * dy = IF dy = 0 THEN 0 ELSE 1
    BY <2>1
  <2>. QED
    BY <2>1, <2>2, <2>3, <2>4
<1>6. /\ getTraversalCost(map, cs, s, t) = IF isDiagonal(s, t) THEN 2 * Squared(C) ELSE Squared(B)
      /\ getTraversalCost(map, cs, t, s) = IF isDiagonal(s, t) THEN 2 * Squared(C) ELSE Squared(B)
  BY <1>1, <1>4 DEF getTraversalCost
<1>. HIDE DEF C, B, free, TC, Inf
<1>7. /\ Squared(C) \in Nat /\ Squared(B) \in Nat /\ Squared(TC) \in Nat /\ Squared(Inf) \in Nat
      /\ Squared(C) >= Squared(TC) /\ Squared(B) >= Squared(TC)
      /\ Squared(C) < Squared(Inf) => C < Inf
      /\ Squared(B) < Squared(Inf) => B < Inf
  BY <1>1, <1>2, SquareGrows
<1>8. CASE isDiagonal(s, t)
  <2>1. /\ getTraversalCost(map, cs, s, t) = 2 * Squared(C)
        /\ getTraversalCost(map, cs, t, s) = 2 * Squared(C)
        /\ euclidianHeuristicSquared(s, t) = 2
    BY <1>5, <1>6, <1>8
  <2>2. 2 * Squared(C) \in Nat /\ 2 * Squared(C) >= Squared(TC) * 2
    BY <1>7
  <2>3. 2 * Squared(C) < Squared(Inf) => free
    BY <1>1, <1>7, <1>8
  <2>. QED
    BY <2>1, <2>2, <2>3 DEF free, TC, Inf
<1>9. CASE ~isDiagonal(s, t)
  <2>1. /\ getTraversalCost(map, cs, s, t) = Squared(B)
        /\ getTraversalCost(map, cs, t, s) = Squared(B)
        /\ euclidianHeuristicSquared(s, t) = 1
    BY <1>5, <1>6, <1>9
  <2>2. Squared(B) \in Nat /\ Squared(B) >= Squared(TC) * 1
    BY <1>7
  <2>3. Squared(B) < Squared(Inf) => free
    BY <1>1, <1>7
  <2>. QED
    BY <2>1, <2>2, <2>3 DEF free, TC, Inf
<1>. QED
  BY <1>8, <1>9

\* The least cost around a node is below the cost of each step from it.
LEMMA LeastCostIs ==
  ASSUME NEW map \in [Cells -> 0..255], NEW cs \in Nat, NEW s \in Nodes, NEW t \in nbrs(s)
  PROVE  getTraversalCost(map, cs, s, t) >= getMinTraversalCost(map, cs, s)
<1>. DEFINE Cost(n) == getTraversalCost(map, cs, s, n)
            costs == {Squared(Infinity)} \cup {Cost(n) : n \in nbrs(s)}
<1>1. costs \subseteq Nat
  <2>1. Squared(Infinity) \in Nat
    BY SquareGrows DEF Infinity
  <2>2. \A n \in nbrs(s) : Cost(n) \in Nat
    BY StepCostIs
  <2>. HIDE DEF Cost
  <2>. QED
    BY <2>1, <2>2
<1>2. Cost(t) \in costs
  OBVIOUS
<1>3. getMinTraversalCost(map, cs, s) = CHOOSE c \in costs : \A d \in costs : c <= d
  BY DEF getMinTraversalCost
<1>. HIDE DEF costs
<1>4. \E c \in costs : \A d \in costs : c <= d
  BY <1>1, <1>2, LeastOf
<1>. DEFINE least == CHOOSE c \in costs : \A d \in costs : c <= d
<1>5. least \in costs /\ least <= Cost(t)
  BY <1>2, <1>4
<1>. HIDE DEF least
<1>6. least \in Nat /\ Cost(t) \in Nat
  BY <1>1, <1>2, <1>5
<1>7. Cost(t) >= least
  BY <1>5, <1>6
<1>. QED
  BY <1>3, <1>7 DEF least

\* For any grid and any cells: what the cost of a step says of its two ends, of
\* its length and of the least cost around its end.
THEOREM CostsStayConsistent == GraphSpec => []CostsAreConsistent
<1>1. MapOK => CostsAreConsistent
  <2>. SUFFICES ASSUME MapOK, map_ # NoMap, NEW s \in Nodes, NEW t \in nbrs(s)
                PROVE  LET cost == getTraversalCost(map_, configuration_space_, s, t)
                       IN  /\ cost = getTraversalCost(map_, configuration_space_, t, s)
                           /\ cost >= Squared(TRAVERSAL_COST) * euclidianHeuristicSquared(s, t)
                           /\ cost >= getMinTraversalCost(map_, configuration_space_, t)
    BY DEF CostsAreConsistent
  <2>1. map_ \in [Cells -> 0..255] /\ configuration_space_ \in Nat
    BY GridAssumption DEF MapOK
  <2>2. t \in Nodes /\ s \in nbrs(t)
    BY NeighbourIs
  <2>3. getTraversalCost(map_, configuration_space_, t, s)
          >= getMinTraversalCost(map_, configuration_space_, t)
    BY <2>1, <2>2, LeastCostIs
  <2>4. /\ getTraversalCost(map_, configuration_space_, s, t)
             = getTraversalCost(map_, configuration_space_, t, s)
        /\ getTraversalCost(map_, configuration_space_, s, t)
             >= Squared(TRAVERSAL_COST) * euclidianHeuristicSquared(s, t)
    BY <2>1, StepCostIs
  <2>. QED
    BY <2>3, <2>4
<1>. QED
  BY <1>1, MapStaysOK, PTL DEF GraphSpec

\* For any grid, resolution, configuration space and cells: a step that is not
\* infinitely expensive keeps clear of what is occupied.
THEOREM StepsKeepClear == GraphSpec => []KeepsClearance
<1>1. MapOK => KeepsClearance
  <2>. SUFFICES ASSUME MapOK, map_ # NoMap, NEW s \in Nodes, NEW t \in nbrs(s),
                       getTraversalCost(map_, configuration_space_, s, t) < Squared(Infinity),
                       NEW c \in Cells, NEW n \in {s, t},
                       map_[c] > occupancy_threshold_uchar_
                PROVE  DistanceToCell(n, c) * Squared(resolution_) > Squared(configuration_space_)
    BY DEF KeepsClearance
  <2>1. map_ \in [Cells -> 0..255] /\ configuration_space_ \in Nat
    BY GridAssumption DEF MapOK
  <2>2. getValWithConfigurationSpace(map_, configuration_space_, Low(s, t))
          <= occupancy_threshold_uchar_
    BY <2>1, StepCostIs
  <2>3. /\ Low(s, t) \in Int \X Int
        /\ n[1] - Low(s, t)[1] \in 0..1 /\ n[2] - Low(s, t)[2] \in 0..1
    BY LowIs
  <2>4. n[1] \in Nat /\ n[2] \in Nat
    BY NeighbourIs
  <2>. QED
    BY <2>1, <2>2, <2>3, <2>4, ClearAround
<1>. QED
  BY <1>1, MapStaysOK, PTL DEF GraphSpec

-----------------------------------------------------------------------------
(* The search around a changed cell.                                       *)

\* Induction, for a set of numbers.
LEMMA AllNumbers ==
  ASSUME NEW T, T \subseteq Nat, 0 \in T, \A n \in T : n + 1 \in T
  PROVE  T = Nat
<1>. SUFFICES ASSUME Nat \ T # {} PROVE FALSE
  OBVIOUS
<1>1. PICK n \in Nat \ T : \A m \in Nat \ T : n <= m
  <2>1. Nat \ T \subseteq Nat
    OBVIOUS
  <2>. QED
    BY <2>1, LeastOf
<1>2. n # 0 /\ n - 1 \in Nat
  BY <1>1
<1>3. n - 1 \in T
  BY <1>1, <1>2
<1>4. (n - 1) + 1 = n
  BY <1>1
<1>. QED
  BY <1>1, <1>3, <1>4

\* A function on the numbers up to n that begins with a and goes on with g.
BeginOf(f, n, S, a, g) ==
  f \in [0..n -> S] /\ f[0] = a /\ \A k \in 1..n : f[k] = g[f[k - 1]]

\* Such a function goes on for ever.
LEMMA RecursionExists ==
  ASSUME NEW S, NEW a \in S, NEW g \in [S -> S]
  PROVE  \E f \in [Nat -> S] : f[0] = a /\ \A k \in Nat : k # 0 => f[k] = g[f[k - 1]]
<1>. DEFINE T == {n \in Nat : \E f : BeginOf(f, n, S, a, g)}
<1>1. 0 \in T
  <2>. DEFINE f == [k \in 0..0 |-> a]
  <2>1. BeginOf(f, 0, S, a, g)
    BY DEF BeginOf
  <2>. QED
    BY <2>1
<1>2. ASSUME NEW n \in T PROVE n + 1 \in T
  <2>1. PICK f : BeginOf(f, n, S, a, g)
    OBVIOUS
  <2>. DEFINE h == [k \in 0..(n + 1) |-> IF k = n + 1 THEN g[f[n]] ELSE f[k]]
  <2>2. n \in Nat /\ f \in [0..n -> S] /\ f[0] = a /\ \A k \in 1..n : f[k] = g[f[k - 1]]
    BY <2>1 DEF BeginOf
  <2>3. f[n] \in S /\ g[f[n]] \in S
    BY <2>2
  <2>4. h \in [0..(n + 1) -> S]
    BY <2>2, <2>3
  <2>5. h[0] = a
    BY <2>2
  <2>6. ASSUME NEW k \in 1..(n + 1) PROVE h[k] = g[h[k - 1]]
    <3>1. k - 1 \in 0..n /\ h[k - 1] = f[k - 1]
      BY <2>2
    <3>2. CASE k = n + 1
      BY <2>2, <3>1, <3>2
    <3>3. CASE k # n + 1
      <4>1. k \in 1..n /\ h[k] = f[k]
        BY <2>2, <3>3
      <4>. QED
        BY <2>2, <3>1, <4>1
    <3>. QED
      BY <3>2, <3>3
  <2>7. BeginOf(h, n + 1, S, a, g)
    BY <2>4, <2>5, <2>6 DEF BeginOf
  <2>. QED
    BY <2>2, <2>7
<1>3. T = Nat
  <2>1. T \subseteq Nat
    OBVIOUS
  <2>. HIDE DEF T
  <2>. QED
    BY <1>1, <1>2, <2>1, AllNumbers
<1>. DEFINE begin(n) == CHOOSE f : BeginOf(f, n, S, a, g)
            F == [n \in Nat |-> begin(n)[n]]
<1>4. ASSUME NEW n \in Nat PROVE BeginOf(begin(n), n, S, a, g)
  BY <1>3
<1>. HIDE DEF begin, T
\* Two beginnings agree.
<1>5. ASSUME NEW n \in Nat, NEW m \in Nat, n <= m PROVE begin(n)[n] = begin(m)[n]
  <2>. DEFINE U == {k \in Nat : k <= n => begin(n)[k] = begin(m)[k]}
  <2>1. BeginOf(begin(n), n, S, a, g) /\ BeginOf(begin(m), m, S, a, g)
    BY <1>4
  <2>2. 0 \in U
    BY <2>1 DEF BeginOf
  <2>3. ASSUME NEW k \in U PROVE k + 1 \in U
    <3>. SUFFICES ASSUME k + 1 <= n PROVE begin(n)[k + 1] = begin(m)[k + 1]
      OBVIOUS
    <3>1. k + 1 \in 1..n /\ k + 1 \in 1..m /\ (k + 1) - 1 = k /\ k <= n
      BY <1>5
    <3>2. begin(n)[k] = begin(m)[k]
      BY <3>1
    <3>3. begin(n)[k + 1] = g[begin(n)[(k + 1) - 1]] /\ begin(m)[k + 1] = g[begin(m)[(k + 1) - 1]]
      BY <2>1, <3>1 DEF BeginOf
    <3>. QED
      BY <3>1, <3>2, <3>3
  <2>4. U = Nat
    <3>1. U \subseteq Nat
      OBVIOUS
    <3>. HIDE DEF U
    <3>. QED
      BY <2>2, <2>3, <3>1, AllNumbers
  <2>. QED
    BY <2>4
<1>6. ASSUME NEW k \in Nat PROVE F[k] \in S
  <2>1. begin(k) \in [0..k -> S] /\ k \in 0..k
    BY <1>4 DEF BeginOf
  <2>. QED
    BY <2>1
<1>7. ASSUME NEW k \in Nat PROVE F[k] = IF k = 0 THEN a ELSE g[F[k - 1]]
  <2>1. CASE k = 0
    BY <1>4, <2>1 DEF BeginOf
  <2>2. CASE k # 0
    <3>1. k - 1 \in Nat /\ k \in 1..k /\ k - 1 <= k
      BY <2>2
    <3>2. begin(k)[k] = g[begin(k)[k - 1]]
      BY <1>4, <3>1 DEF BeginOf
    <3>3. begin(k - 1)[k - 1] = begin(k)[k - 1]
      BY <1>5, <3>1
    <3>. QED
      BY <2>2, <3>1, <3>2, <3>3
  <2>. QED
    BY <2>1, <2>2
<1>8. F \in [Nat -> S]
  BY <1>6
<1>. HIDE DEF F
<1>. QED
  BY <1>7, <1>8

\* The rounds of the search around a changed cell.
LEMMA SearchRounds ==
  ASSUME NEW cs \in Nat, NEW cell \in Nodes
  PROVE  \E found \in [Nat -> SUBSET Nodes] :
           /\ found[0] = {cell}
           /\ \A k \in Nat : found[k + 1] = WithNeighbours(cs, cell, found[k])
           /\ getNodesAroundCellWithConfigurationSpace(cs, cell) = found[length_ + width_]
<1>. DEFINE g == [nodes \in SUBSET Nodes |-> WithNeighbours(cs, cell, nodes)]
            IsFound(f) == f = [k \in Nat |-> IF k = 0 THEN {cell} ELSE WithNeighbours(cs, cell, f[k - 1])]
            found == CHOOSE f : IsFound(f)
<1>1. g \in [SUBSET Nodes -> SUBSET Nodes]
  BY DEF WithNeighbours
<1>2. {cell} \in SUBSET Nodes
  OBVIOUS
<1>3. PICK f \in [Nat -> SUBSET Nodes] :
        f[0] = {cell} /\ \A k \in Nat : k # 0 => f[k] = g[f[k - 1]]
  <2>. DEFINE S == SUBSET Nodes
              a == {cell}
  <2>1. a \in S /\ g \in [S -> S]
    BY <1>1, <1>2
  <2>. HIDE DEF S, a, g
  <2>2. \E f \in [Nat -> S] : f[0] = a /\ \A k \in Nat : k # 0 => f[k] = g[f[k - 1]]
    BY <2>1, RecursionExists
  <2>. QED
    BY <2>2 DEF S, a
<1>4. ASSUME NEW k \in Nat
      PROVE  f[k] = IF k = 0 THEN {cell} ELSE WithNeighbours(cs, cell, f[k - 1])
  <2>1. CASE k = 0
    <3>. HIDE DEF g
    <3>. QED
      BY <1>3, <2>1
  <2>2. CASE k # 0
    <3>1. k - 1 \in Nat /\ f[k] = g[f[k - 1]]
      <4>1. k - 1 \in Nat
        BY <2>2
      <4>2. f[k] = g[f[k - 1]]
        BY <1>3, <2>2, Zenon
      <4>. QED
        BY <4>1, <4>2
    <3>2. f[k - 1] \in SUBSET Nodes
      BY <3>1
    <3>3. g[f[k - 1]] = WithNeighbours(cs, cell, f[k - 1])
      BY <3>2
    <3>. HIDE DEF g
    <3>. QED
      BY <2>2, <3>1, <3>3
  <2>. QED
    BY <2>1, <2>2
<1>. HIDE DEF g
<1>5. IsFound(f)
  BY <1>4
<1>6. IsFound(found)
  <2>. HIDE DEF IsFound
  <2>. QED
    BY <1>5
<1>7. getNodesAroundCellWithConfigurationSpace(cs, cell) = found[length_ + width_]
  BY DEF getNodesAroundCellWithConfigurationSpace
<1>. HIDE DEF found
<1>8. found[0] = {cell} /\ \A k \in Nat : found[k + 1] = WithNeighbours(cs, cell, found[k])
  <2>1. \A k \in Nat : found[k] = IF k = 0 THEN {cell} ELSE WithNeighbours(cs, cell, found[k - 1])
    BY <1>6
  <2>2. ASSUME NEW k \in Nat PROVE found[k + 1] = WithNeighbours(cs, cell, found[k])
    <3>1. k + 1 \in Nat /\ k + 1 # 0 /\ (k + 1) - 1 = k
      OBVIOUS
    <3>. QED
      BY <2>1, <3>1
  <2>. QED
    BY <2>1, <2>2
<1>9. found \in [Nat -> SUBSET Nodes]
  <2>. DEFINE T == {k \in Nat : found[k] \in SUBSET Nodes}
  <2>1. 0 \in T /\ \A k \in T : k + 1 \in T
    BY <1>8 DEF WithNeighbours
  <2>2. T = Nat
    <3>1. T \subseteq Nat
      OBVIOUS
    <3>. HIDE DEF T
    <3>. QED
      BY <2>1, <3>1, AllNumbers
  <2>3. \A k \in Nat : found[k] \in SUBSET Nodes
    BY <2>2
  <2>4. found = [k \in Nat |-> found[k]]
    BY <1>6
  <2>. QED
    BY <2>3, <2>4
<1>. QED
  BY <1>7, <1>8, <1>9

\* The next node on the way from a node to the cell.
Toward(x, c) == IF x < c THEN x + 1 ELSE IF x > c THEN x - 1 ELSE x

\* A step towards the cell stays on the grid and comes nearer.
LEMMA OneStepBack ==
  ASSUME NEW top \in Nat, NEW x \in 0..top, NEW c \in 0..top, NEW d \in Nat,
         x - c \in -(d + 1)..(d + 1)
  PROVE  /\ Toward(x, c) \in Nat /\ Toward(x, c) - c \in -d..d
         /\ x - Toward(x, c) \in -1..1
         /\ Toward(x, c) <= top
         /\ Squared(c - Toward(x, c)) <= Squared(c - x)
<1>1. /\ Toward(x, c) \in Nat /\ Toward(x, c) - c \in -d..d
      /\ x - Toward(x, c) \in -1..1
      /\ Toward(x, c) <= top
  BY DEF Toward
<1>2. CASE x < c
  <2>1. c - x \in Nat /\ c - Toward(x, c) \in Nat /\ c - Toward(x, c) <= c - x
    BY <1>2 DEF Toward
  <2>. QED
    BY <1>1, <2>1, SquareGrows
<1>3. CASE x > c
  <2>1. x - c \in Nat /\ Toward(x, c) - c \in Nat /\ Toward(x, c) - c <= x - c
    BY <1>3 DEF Toward
  <2>2. Squared(Toward(x, c) - c) <= Squared(x - c)
    BY <2>1, SquareGrows
  <2>3. ASSUME NEW y \in Int PROVE Squared(c - y) = Squared(y - c)
    <3>1. c - y = -(y - c) /\ y - c \in Int
      OBVIOUS
    <3>2. \A z \in Int : (-z) * (-z) = z * z
      OBVIOUS
    <3>. QED
      BY <3>1, <3>2 DEF Squared
  <2>. QED
    BY <1>1, <2>2, <2>3
<1>4. CASE x = c
  BY <1>1, <1>4 DEF Toward, Squared
<1>. QED
  BY <1>1, <1>2, <1>3, <1>4

\* A node is one of the eight around each that differs by one at most.
LEMMA MovedTo ==
  ASSUME NEW m \in Nat \X Nat, NEW n \in Nat \X Nat,
         n[1] - m[1] \in -1..1, n[2] - m[2] \in -1..1, n # m
  PROVE  \E i \in 1..8 : n = Moved(m, Around[i], 1)
<1>1. n = <<n[1], n[2]>> /\ m = <<m[1], m[2]>> /\ (n[1] # m[1] \/ n[2] # m[2])
  OBVIOUS
<1>2. PICK i \in 1..8 : Around[i][1] = n[1] - m[1] /\ Around[i][2] = n[2] - m[2]
  <2>. DEFINE dx == n[1] - m[1]
              dy == n[2] - m[2]
  <2>1. dx \in {-1, 0, 1} /\ dy \in {-1, 0, 1} /\ (dx # 0 \/ dy # 0)
    BY <1>1
  <2>. HIDE DEF dx, dy
  <2>2. \E i \in 1..8 : Around[i][1] = dx /\ Around[i][2] = dy
    <3>1. CASE dx = 1 /\ dy = 0
      BY <3>1 DEF Around
    <3>2. CASE dx = 1 /\ dy = 1
      BY <3>2 DEF Around
    <3>3. CASE dx = 0 /\ dy = 1
      BY <3>3 DEF Around
    <3>4. CASE dx = -1 /\ dy = 1
      BY <3>4 DEF Around
    <3>5. CASE dx = -1 /\ dy = 0
      BY <3>5 DEF Around
    <3>6. CASE dx = -1 /\ dy = -1
      BY <3>6 DEF Around
    <3>7. CASE dx = 0 /\ dy = -1
      BY <3>7 DEF Around
    <3>8. CASE dx = 1 /\ dy = -1
      BY <3>8 DEF Around
    <3>. QED
      BY <2>1, <3>1, <3>2, <3>3, <3>4, <3>5, <3>6, <3>7, <3>8
  <2>. QED
    BY <2>2 DEF dx, dy
<1>3. Moved(m, Around[i], 1) = <<m[1] + (n[1] - m[1]), m[2] + (n[2] - m[2])>>
  BY <1>2 DEF Moved
<1>4. m[1] + (n[1] - m[1]) = n[1] /\ m[2] + (n[2] - m[2]) = n[2]
  OBVIOUS
<1>. QED
  BY <1>1, <1>3, <1>4

\* The search finds all that is near, since the way there is near too, and
\* finds nothing else.
LEMMA SearchFindsNear ==
  ASSUME NEW cs \in Nat, NEW cell \in Cells
  PROVE  getNodesAroundCellWithConfigurationSpace(cs, cell) =
           {cell} \cup {n \in Nodes : IsNear(cs, cell, n)}
<1>. DEFINE last == length_ + width_
            near == {n \in Nodes : IsNear(cs, cell, n)}
<1>0. length_ \in Nat /\ width_ \in Nat /\ last \in Nat
  BY GridAssumption
<1>1. /\ cell \in Nodes /\ cell \in Nat \X Nat
      /\ cell[1] \in 0..length_ /\ cell[2] \in 0..width_ /\ cell = <<cell[1], cell[2]>>
  BY <1>0 DEF Cells, Nodes
<1>2. PICK found \in [Nat -> SUBSET Nodes] :
        /\ found[0] = {cell}
        /\ \A k \in Nat : found[k + 1] = WithNeighbours(cs, cell, found[k])
        /\ getNodesAroundCellWithConfigurationSpace(cs, cell) = found[last]
  BY <1>1, SearchRounds
<1>3. \A k \in Nat : found[k] \subseteq {cell} \cup near
  <2>. DEFINE T == {k \in Nat : found[k] \subseteq {cell} \cup near}
  <2>1. 0 \in T
    BY <1>2
  <2>2. ASSUME NEW k \in T PROVE k + 1 \in T
    <3>1. k + 1 \in Nat /\ found[k + 1] = WithNeighbours(cs, cell, found[k])
      BY <1>2
    <3>. QED
      BY <3>1 DEF WithNeighbours
  <2>3. T = Nat
    <3>1. T \subseteq Nat
      OBVIOUS
    <3>. HIDE DEF T
    <3>. QED
      BY <2>1, <2>2, <3>1, AllNumbers
  <2>. QED
    BY <2>3
<1>4. ASSUME NEW n \in Nodes
      PROVE  /\ n \in Nat \X Nat /\ n = <<n[1], n[2]>>
             /\ n[1] \in 0..length_ /\ n[2] \in 0..width_ /\ n[1] \in Nat /\ n[2] \in Nat
  BY <1>0 DEF Nodes
<1>. DEFINE Within(n, d) == n[1] - cell[1] \in -d..d /\ n[2] - cell[2] \in -d..d
            U == {d \in Nat : \A n \in near : Within(n, d) => n \in found[d]}
<1>5. 0 \in U
  <2>. SUFFICES ASSUME NEW n \in near, Within(n, 0) PROVE n \in found[0]
    OBVIOUS
  <2>1. n[1] = cell[1] /\ n[2] = cell[2]
    BY <1>1, <1>4
  <2>2. n = cell
    BY <1>1, <1>4, <2>1
  <2>. QED
    BY <1>2, <2>2
<1>6. ASSUME NEW d \in U PROVE d + 1 \in U
  <2>. SUFFICES ASSUME NEW n \in near, Within(n, d + 1) PROVE n \in found[d + 1]
    OBVIOUS
  <2>. DEFINE m == <<Toward(n[1], cell[1]), Toward(n[2], cell[2])>>
  <2>1. /\ m[1] \in Nat /\ m[2] \in Nat /\ m[1] <= length_ /\ m[2] <= width_
        /\ Within(m, d)
        /\ n[1] - m[1] \in -1..1 /\ n[2] - m[2] \in -1..1
        /\ Squared(cell[1] - m[1]) <= Squared(cell[1] - n[1])
        /\ Squared(cell[2] - m[2]) <= Squared(cell[2] - n[2])
    <3>1. n[1] - cell[1] \in -(d + 1)..(d + 1) /\ n[2] - cell[2] \in -(d + 1)..(d + 1)
      OBVIOUS
    <3>2. /\ n[1] \in 0..length_ /\ cell[1] \in 0..length_
          /\ n[2] \in 0..width_ /\ cell[2] \in 0..width_
      BY <1>0, <1>1, <1>4
    <3>3. m[1] = Toward(n[1], cell[1]) /\ m[2] = Toward(n[2], cell[2])
      OBVIOUS
    <3>0. d \in Nat
      OBVIOUS
    <3>. HIDE DEF m, Within, U, near
    <3>4. /\ m[1] \in Nat /\ m[1] <= length_ /\ m[1] - cell[1] \in -d..d /\ n[1] - m[1] \in -1..1
          /\ Squared(cell[1] - m[1]) <= Squared(cell[1] - n[1])
      BY <1>0, <3>0, <3>1, <3>2, <3>3, OneStepBack
    <3>5. /\ m[2] \in Nat /\ m[2] <= width_ /\ m[2] - cell[2] \in -d..d /\ n[2] - m[2] \in -1..1
          /\ Squared(cell[2] - m[2]) <= Squared(cell[2] - n[2])
      BY <1>0, <3>0, <3>1, <3>2, <3>3, OneStepBack
    <3>. QED
      BY <3>4, <3>5 DEF Within
  <2>2. m \in Nodes
    BY <1>0, <2>1 DEF Nodes
  <2>. HIDE DEF m
  <2>3. IsNear(cs, cell, m)
    <3>. DEFINE bound == Squared((cs + resolution_ - 1) \div resolution_)
    <3>1. Squared(cell[1] - n[1]) + Squared(cell[2] - n[2]) < bound
      BY DEF IsNear, DistanceSquared
    <3>2. \A z \in Int : Squared(z) \in Int
      BY DEF Squared
    <3>3. /\ Squared(cell[1] - n[1]) \in Int /\ Squared(cell[2] - n[2]) \in Int
          /\ Squared(cell[1] - m[1]) \in Int /\ Squared(cell[2] - m[2]) \in Int
      BY <1>1, <1>4, <2>1, <3>2
    <3>4. bound \in Int
      <4>1. (cs + resolution_ - 1) \div resolution_ \in Int
        BY GridAssumption
      <4>. QED
        BY <3>2, <4>1
    <3>. HIDE DEF bound
    <3>5. Squared(cell[1] - m[1]) + Squared(cell[2] - m[2]) < bound
      BY <2>1, <3>1, <3>3, <3>4
    <3>. QED
      BY <3>5 DEF IsNear, DistanceSquared, bound
  <2>4. m \in found[d]
    BY <2>1, <2>2, <2>3
  <2>5. found[d + 1] = WithNeighbours(cs, cell, found[d])
    BY <1>2
  <2>6. CASE n = m
    BY <2>4, <2>5, <2>6 DEF WithNeighbours
  <2>7. CASE n # m
    <3>1. m \in Nat \X Nat /\ n \in Nat \X Nat
      BY <1>4, <2>2
    <3>2. \E i \in 1..8 : n = Moved(m, Around[i], 1)
      BY <2>1, <2>7, <3>1, MovedTo
    <3>. QED
      BY <2>4, <2>5, <3>2 DEF WithNeighbours
  <2>. QED
    BY <2>6, <2>7
<1>7. U = Nat
  <2>1. U \subseteq Nat
    OBVIOUS
  <2>. HIDE DEF U
  <2>. QED
    BY <1>5, <1>6, <2>1, AllNumbers
<1>8. near \subseteq found[last]
  <2>. SUFFICES ASSUME NEW n \in near PROVE n \in found[last]
    OBVIOUS
  <2>1. Within(n, last)
    BY <1>0, <1>1, <1>4
  <2>. HIDE DEF Within, near
  <2>. QED
    BY <1>0, <1>7, <2>1
<1>9. cell \in found[last]
  <2>. DEFINE T == {k \in Nat : cell \in found[k]}
  <2>1. 0 \in T
    BY <1>2
  <2>2. ASSUME NEW k \in T PROVE k + 1 \in T
    BY <1>2 DEF WithNeighbours
  <2>3. T = Nat
    <3>1. T \subseteq Nat
      OBVIOUS
    <3>. HIDE DEF T
    <3>. QED
      BY <2>1, <2>2, <3>1, AllNumbers
  <2>. QED
    BY <1>0, <2>3
<1>. HIDE DEF near, last
<1>10. found[last] \subseteq {cell} \cup near
  BY <1>0, <1>3
<1>11. getNodesAroundCellWithConfigurationSpace(cs, cell) = {cell} \cup near
  BY <1>2, <1>8, <1>9, <1>10
<1>. QED
  BY <1>11 DEF near

\* The radius in cells, which is rounded up, holds the configuration space and
\* is less than a cell wider.
LEMMA RadiusIsEnough ==
  ASSUME NEW cs \in Nat, NEW dist \in Nat
  PROVE  LET q == (cs + resolution_ - 1) \div resolution_
         IN  /\ dist * Squared(resolution_) < Squared(cs) => dist < Squared(q)
             /\ dist < Squared(q) => dist * Squared(resolution_) < Squared(cs + resolution_)
             /\ cs > resolution_ => 2 < Squared(q)
<1>. DEFINE q == (cs + resolution_ - 1) \div resolution_
            rest == (cs + resolution_ - 1) % resolution_
            wide == q * resolution_
            R == Squared(resolution_)
            Q == Squared(q)
<1>1. resolution_ \in Nat \ {0}
  BY GridAssumption
<1>2. q \in Nat /\ rest \in 0..(resolution_ - 1) /\ cs + resolution_ - 1 = resolution_ * q + rest
  <2>. DEFINE n == cs + resolution_ - 1
  <2>1. n \in Nat
    BY <1>1
  <2>. HIDE DEF n
  <2>2. n \div resolution_ \in Nat /\ n % resolution_ \in 0..(resolution_ - 1)
    BY <1>1, <2>1
  <2>3. n % resolution_ = n - resolution_ * (n \div resolution_)
    BY <1>1, <2>1
  <2>4. q = n \div resolution_ /\ rest = n % resolution_ /\ cs + resolution_ - 1 = n
    BY DEF n
  <2>. HIDE DEF q, rest
  <2>. DEFINE a == n \div resolution_
              b == n % resolution_
  <2>5. a \in Nat /\ b \in 0..(resolution_ - 1) /\ b = n - resolution_ * a /\ q = a /\ rest = b
    BY <2>2, <2>3, <2>4
  <2>. HIDE DEF a, b
  <2>6. resolution_ * a \in Nat
    BY <1>1, <2>5
  <2>7. n = resolution_ * a + b
    BY <1>1, <2>1, <2>5, <2>6
  <2>. QED
    BY <2>4, <2>5, <2>7
<1>. HIDE DEF q, rest
<1>3. wide \in Nat /\ cs <= wide /\ wide < cs + resolution_
  <2>1. wide = resolution_ * q /\ wide \in Nat
    BY <1>1, <1>2
  <2>. HIDE DEF wide
  <2>. QED
    BY <1>1, <1>2, <2>1
<1>4. Squared(wide) = Q * R /\ R \in Nat \ {0} /\ Q \in Nat /\ Q * R \in Nat
  BY <1>1, <1>2 DEF Squared
<1>. HIDE DEF wide, R, Q
<1>5. Squared(cs) <= Squared(wide) /\ Squared(wide) <= Squared(cs + resolution_)
  BY <1>1, <1>3, SquareGrows
<1>6. Squared(cs) \in Nat /\ Squared(cs + resolution_) \in Nat
  BY <1>1 DEF Squared
<1>7. ASSUME dist * R < Squared(cs) PROVE dist < Q
  <2>1. ASSUME Q <= dist PROVE FALSE
    <3>1. PICK e \in Nat : dist = Q + e
      <4>1. dist - Q \in Nat /\ dist = Q + (dist - Q)
        BY <1>4, <2>1
      <4>. QED
        BY <4>1
    <3>2. dist * R = Q * R + e * R /\ e * R \in Nat /\ dist * R \in Nat
      BY <1>4, <3>1
    <3>. QED
      BY <1>4, <1>5, <1>6, <1>7, <3>2
  <2>. QED
    BY <1>4, <2>1
<1>8. ASSUME dist < Q PROVE dist * R < Squared(cs + resolution_)
  <2>1. PICK e \in Nat : Q = dist + (1 + e)
    <3>1. Q - dist - 1 \in Nat /\ Q = dist + (1 + (Q - dist - 1))
      BY <1>4, <1>8
    <3>. QED
      BY <3>1
  <2>2. Q * R = dist * R + (R + e * R) /\ e * R \in Nat /\ dist * R \in Nat
    BY <1>4, <2>1
  <2>. QED
    BY <1>4, <1>5, <1>6, <2>2
<1>9. ASSUME cs > resolution_ PROVE 2 < Q
  <2>1. q # 0 /\ q # 1
    BY <1>1, <1>2, <1>9
  <2>2. Squared(2) <= Squared(q) /\ Squared(2) = 4
    BY <1>2, <2>1, SquareGrows DEF Squared
  <2>. QED
    BY <1>4, <2>2 DEF Q
<1>. QED
  BY <1>7, <1>8, <1>9 DEF R, Q, q

\* What has changed are cells.
ChangedOK == MapOK /\ updated_cells_ \subseteq Cells

\* A place in the array is a cell.
LEMMA CellAtIs ==
  ASSUME NEW pos \in 0..(length_ * width_ - 1) PROVE CellAt(pos) \in Cells
<1>. DEFINE row == pos \div width_
            col == pos % width_
<1>1. length_ \in Nat \ {0} /\ width_ \in Nat \ {0} /\ length_ * width_ \in Nat
  BY GridAssumption
<1>2. pos \in Nat /\ pos < length_ * width_
  BY <1>1
<1>3. row \in Nat /\ col \in 0..(width_ - 1) /\ pos = width_ * row + col
  BY <1>1, <1>2
<1>. HIDE DEF row, col
<1>4. ASSUME row >= length_ PROVE FALSE
  <2>1. PICK e \in Nat : row = length_ + e
    <3>1. row - length_ \in Nat /\ row = length_ + (row - length_)
      BY <1>1, <1>3, <1>4
    <3>. QED
      BY <3>1
  <2>2. width_ * row = length_ * width_ + e * width_ /\ e * width_ \in Nat
    BY <1>1, <2>1
  <2>. QED
    BY <1>1, <1>2, <1>3, <2>2
<1>5. row \in 0..(length_ - 1)
  BY <1>1, <1>3, <1>4
<1>. QED
  BY <1>3, <1>5 DEF CellAt, Cells, row, col

\* The cells that change are cells of the grid.
LEMMA ChangedStaysOK ==
  /\ GraphInit => ChangedOK
  /\ ChangedOK /\ [GraphNext]_graphVars => ChangedOK'
<1>1. GraphInit => ChangedOK
  BY MapStaysOK DEF GraphInit, ChangedOK
<1>2. ASSUME ChangedOK, [GraphNext]_graphVars PROVE ChangedOK'
  <2>1. MapOK'
    BY <1>2, MapStaysOK DEF ChangedOK
  <2>2. CASE initializeGraph
    BY <2>1, <2>2 DEF ChangedOK, initializeGraph
  <2>3. CASE updateGraph
    <3>1. PICK new : updated_cells_' = updated_cells(map_, new)
      BY <2>3 DEF updateGraph
    <3>2. updated_cells_' \subseteq Cells
      BY <3>1, CellAtIs DEF updated_cells
    <3>. QED
      BY <2>1, <3>2 DEF ChangedOK
  <2>4. CASE UNCHANGED graphVars
    BY <1>2, <2>1, <2>4 DEF ChangedOK, graphVars
  <2>. QED
    BY <1>2, <2>2, <2>3, <2>4 DEF GraphNext
<1>. QED
  BY <1>1, <1>2

\* For any grid, resolution and configuration space: the search around a changed
\* cell finds every node nearer to its lower corner than the configuration
\* space, none a cell further, and the four corners if the configuration space
\* is larger than a cell, though it never goes on from a node that is not near.
THEOREM SearchFindsAll == GraphSpec => []NearNodesFound
<1>1. ChangedOK => NearNodesFound
  <2>. SUFFICES ASSUME ChangedOK, NEW c \in updated_cells_
                PROVE  LET found == getNodesAroundCellWithConfigurationSpace(configuration_space_, c)
                           Away(n) == DistanceSquared(c, n) * Squared(resolution_)
                       IN  /\ \A n \in Nodes : Away(n) < Squared(configuration_space_) => n \in found
                           /\ \A n \in found \ {c} :
                                Away(n) < Squared(configuration_space_ + resolution_)
                           /\ configuration_space_ > resolution_ => CornersOf(c) \subseteq found
    BY DEF NearNodesFound
  <2>. DEFINE found == getNodesAroundCellWithConfigurationSpace(configuration_space_, c)
              Away(n) == DistanceSquared(c, n) * Squared(resolution_)
              q == (configuration_space_ + resolution_ - 1) \div resolution_
  <2>1. c \in Cells /\ configuration_space_ \in Nat
    BY GridAssumption DEF ChangedOK, MapOK
  <2>2. found = {c} \cup {n \in Nodes : IsNear(configuration_space_, c, n)}
    BY <2>1, SearchFindsNear
  <2>3. \A n : IsNear(configuration_space_, c, n) <=> DistanceSquared(c, n) < Squared(q)
    BY DEF IsNear
  <2>4. ASSUME NEW n \in Nodes PROVE DistanceSquared(c, n) \in Nat
    <3>1. c[1] \in Int /\ c[2] \in Int /\ n[1] \in Int /\ n[2] \in Int
      BY <2>1, GridAssumption DEF Cells, Nodes
    <3>2. \A z \in Int : Squared(z) \in Nat
      <4>. SUFFICES ASSUME NEW z \in Int PROVE z * z \in Nat
        BY DEF Squared
      <4>1. CASE z >= 0
        BY <4>1
      <4>2. CASE z < 0
        <5>1. -z \in Nat /\ (-z) * (-z) \in Nat /\ (-z) * (-z) = z * z
          BY <4>2
        <5>. QED
          BY <5>1
      <4>. QED
        BY <4>1, <4>2
    <3>3. Squared(c[1] - n[1]) \in Nat /\ Squared(c[2] - n[2]) \in Nat
      BY <3>1, <3>2
    <3>. QED
      BY <3>3 DEF DistanceSquared
  <2>5. \A dist \in Nat :
          /\ dist * Squared(resolution_) < Squared(configuration_space_) => dist < Squared(q)
          /\ dist < Squared(q) =>
               dist * Squared(resolution_) < Squared(configuration_space_ + resolution_)
    BY <2>1, RadiusIsEnough
  <2>6. configuration_space_ > resolution_ => 2 < Squared(q)
    BY <2>1, RadiusIsEnough
  <2>. HIDE DEF found, q
  <2>7. ASSUME NEW n \in Nodes, Away(n) < Squared(configuration_space_) PROVE n \in found
    BY <2>2, <2>3, <2>4, <2>5, <2>7
  <2>8. ASSUME NEW n \in found \ {c}
        PROVE  Away(n) < Squared(configuration_space_ + resolution_)
    BY <2>2, <2>3, <2>4, <2>5
  <2>9. ASSUME configuration_space_ > resolution_, NEW n \in CornersOf(c) PROVE n \in found
    <3>1. /\ c[1] \in 0..(length_ - 1) /\ c[2] \in 0..(width_ - 1)
          /\ n = <<n[1], n[2]>> /\ n[1] \in {c[1], c[1] + 1} /\ n[2] \in {c[2], c[2] + 1}
      BY <2>1, <2>9 DEF Cells, CornersOf
    <3>2. n \in Nodes
      BY <3>1, GridAssumption DEF Nodes
    <3>3. c[1] - n[1] \in {0, -1} /\ c[2] - n[2] \in {0, -1}
      BY <3>1, GridAssumption
    <3>4. \A z \in {0, -1} : Squared(z) \in {0, 1}
      BY DEF Squared
    <3>5. Squared(c[1] - n[1]) \in {0, 1} /\ Squared(c[2] - n[2]) \in {0, 1}
      BY <3>3, <3>4
    <3>6. DistanceSquared(c, n) \in 0..2
      BY <3>5 DEF DistanceSquared
    <3>7. Squared(q) \in Int
      <4>1. q \in Int
        BY <2>1, GridAssumption DEF q
      <4>. QED
        BY <4>1 DEF Squared
    <3>8. DistanceSquared(c, n) < Squared(q)
      BY <2>6, <2>9, <3>6, <3>7
    <3>. QED
      BY <2>2, <2>3, <3>2, <3>8
  <2>. QED
    BY <2>7, <2>8, <2>9 DEF found
<1>. QED
  BY <1>1, ChangedStaysOK, PTL DEF GraphSpec

-----------------------------------------------------------------------------
(* Three ways to the neighbours.                                           *)

\* The eight directions differ, and the one before the next is the same.
LEMMA AroundIs ==
  ASSUME NEW i \in 1..8
  PROVE  /\ Around[i][1] \in -1..1 /\ Around[i][2] \in -1..1
         /\ \A j \in 1..8 : Around[i][1] = Around[j][1] /\ Around[i][2] = Around[j][2] => i = j
         /\ Next8(i) \in 1..8 /\ Previous8(i) \in 1..8 /\ Previous8(Next8(i)) = i
<1>1. i \in {1, 2, 3, 4, 5, 6, 7, 8}
  OBVIOUS
<1>2. Around[i][1] \in -1..1 /\ Around[i][2] \in -1..1
  BY <1>1 DEF Around
<1>3. ASSUME NEW j \in 1..8, Around[i][1] = Around[j][1], Around[i][2] = Around[j][2]
      PROVE  i = j
  <2>1. j \in {1, 2, 3, 4, 5, 6, 7, 8}
    OBVIOUS
  <2>. QED
    BY <1>1, <1>3, <2>1 DEF Around
<1>4. Next8(i) \in 1..8 /\ Previous8(i) \in 1..8 /\ Previous8(Next8(i)) = i
  BY <1>1 DEF Next8, Previous8
<1>. QED
  BY <1>2, <1>3, <1>4

\* A neighbour and its continuous position.
LEMMA MovedIs ==
  ASSUME NEW s \in Nodes, NEW i \in 1..8
  PROVE  /\ s = <<s[1], s[2]>> /\ s[1] \in Nat /\ s[2] \in Nat
         /\ Moved(s, Around[i], 1) = <<s[1] + Around[i][1], s[2] + Around[i][2]>>
         /\ s[1] + Around[i][1] \in Int /\ s[2] + Around[i][2] \in Int
         /\ Moved(<<Unit * s[1], Unit * s[2]>>, Around[i], Unit) =
              <<Unit * (s[1] + Around[i][1]), Unit * (s[2] + Around[i][2])>>
<1>1. s = <<s[1], s[2]>> /\ s[1] \in Nat /\ s[2] \in Nat
  BY GridAssumption DEF Nodes
<1>2. Around[i][1] \in Int /\ Around[i][2] \in Int
  BY AroundIs
<1>3. Moved(s, Around[i], 1) = <<s[1] + Around[i][1], s[2] + Around[i][2]>>
  BY <1>1, <1>2 DEF Moved
<1>4. \A x, y \in Int : Unit * x + Unit * y = Unit * (x + y)
  BY GridAssumption
<1>5. Moved(<<Unit * s[1], Unit * s[2]>>, Around[i], Unit) =
        <<Unit * s[1] + Unit * Around[i][1], Unit * s[2] + Unit * Around[i][2]>>
  BY DEF Moved
<1>. QED
  BY <1>1, <1>2, <1>3, <1>4, <1>5

\* Which of the eight a neighbour is is unique, so it can be turned from.
LEMMA TurnedIs ==
  ASSUME NEW s \in Nodes, NEW i \in 1..8, NEW step \in [1..8 -> 1..8]
  PROVE  LET n == Moved(s, Around[step[i]], 1)
         IN  Turned(s, Moved(s, Around[i], 1), step) = IF isValidNode(n) THEN n ELSE NoNode
<1>. DEFINE t == Moved(s, Around[i], 1)
<1>1. ASSUME NEW j \in 1..8, t = Moved(s, Around[j], 1) PROVE j = i
  <2>1. /\ t = <<s[1] + Around[i][1], s[2] + Around[i][2]>>
        /\ t = <<s[1] + Around[j][1], s[2] + Around[j][2]>>
    BY <1>1, MovedIs
  <2>2. s[1] + Around[i][1] = s[1] + Around[j][1] /\ s[2] + Around[i][2] = s[2] + Around[j][2]
    BY <2>1
  <2>3. s[1] \in Int /\ s[2] \in Int
    BY GridAssumption DEF Nodes
  <2>4. \A k \in 1..8 : Around[k][1] \in Int /\ Around[k][2] \in Int
    BY AroundIs
  <2>5. \A x, a, b \in Int : x + a = x + b => a = b
    OBVIOUS
  <2>6. Around[i][1] = Around[j][1] /\ Around[i][2] = Around[j][2]
    <3>. HIDE DEF t
    <3>. QED
      BY <2>2, <2>3, <2>4, <2>5
  <2>. QED
    BY <2>6, AroundIs
<1>. HIDE DEF t
<1>2. (CHOOSE j \in 1..8 : t = Moved(s, Around[j], 1)) = i
  <2>1. t = Moved(s, Around[i], 1)
    BY DEF t
  <2>. QED
    BY <1>1, <2>1
<1>3. \E j \in 1..8 : t = Moved(s, Around[j], 1)
  BY DEF t
<1>4. Turned(s, t, step) = IF isValidNode(Moved(s, Around[step[i]], 1))
                           THEN Moved(s, Around[step[i]], 1) ELSE NoNode
  BY <1>2, <1>3 DEF Turned
<1>. QED
  BY <1>4 DEF t

\* Discrete and continuous validity agree on corners.
LEMMA ValidNodes ==
  ASSUME NEW x \in Int, NEW y \in Int
  PROVE  /\ isValidNode(<<x, y>>) <=> <<x, y>> \in Nodes
         /\ isValidNode(<<x, y>>) => <<x, y>> # NoNode
         /\ isValidPosition(<<Unit * x, Unit * y>>) <=> isValidNode(<<x, y>>)
<1>1. length_ \in Nat /\ width_ \in Nat /\ Unit \in Nat \ {0}
  BY GridAssumption
<1>2. isValidNode(<<x, y>>) <=> <<x, y>> \in Nodes
  BY <1>1 DEF isValidNode, Nodes
<1>3. isValidNode(<<x, y>>) => <<x, y>> # NoNode
  BY DEF isValidNode, NoNode
<1>4. ASSUME NEW a \in Int, NEW b \in Int PROVE Unit * a <= Unit * b <=> a <= b
  <2>1. ASSUME a <= b PROVE Unit * a <= Unit * b
    <3>1. b - a \in Nat /\ Unit * (b - a) \in Nat /\ Unit * (b - a) = Unit * b - Unit * a
      BY <1>1, <2>1
    <3>2. Unit * a \in Int /\ Unit * b \in Int
      BY <1>1
    <3>. QED
      BY <3>1, <3>2
  <2>2. ASSUME b < a PROVE Unit * b < Unit * a
    <3>1. a - b \in Nat \ {0} /\ Unit * (a - b) \in Nat \ {0} /\ Unit * (a - b) = Unit * a - Unit * b
      BY <1>1, <2>2
    <3>2. Unit * a \in Int /\ Unit * b \in Int
      BY <1>1
    <3>. QED
      BY <3>1, <3>2
  <2>3. Unit * a \in Int /\ Unit * b \in Int
    BY <1>1
  <2>. QED
    BY <2>1, <2>2, <2>3
<1>5. Unit * 0 = 0
  BY <1>1
<1>6. /\ Unit * x <= Unit * length_ <=> x <= length_
      /\ Unit * y <= Unit * width_ <=> y <= width_
      /\ Unit * x >= 0 <=> x >= 0
      /\ Unit * y >= 0 <=> y >= 0
  <2>1. /\ Unit * x <= Unit * length_ <=> x <= length_
        /\ Unit * y <= Unit * width_ <=> y <= width_
    BY <1>1, <1>4
  <2>2. Unit * 0 <= Unit * x <=> 0 <= x
    BY <1>4
  <2>3. Unit * 0 <= Unit * y <=> 0 <= y
    BY <1>4
  <2>. QED
    BY <1>5, <2>1, <2>2, <2>3
<1>7. isValidPosition(<<Unit * x, Unit * y>>) <=> isValidNode(<<x, y>>)
  BY <1>6 DEF isValidPosition, isValidNode
<1>. QED
  BY <1>2, <1>3, <1>7

\* Casting and rounding give the node of a position that is one.
LEMMA CastIs ==
  ASSUME NEW x \in Nat, NEW y \in Nat
  PROVE  castToNode(<<Unit * x, Unit * y>>) = <<x, y>>
<1>1. Unit \in Nat \ {0}
  BY GridAssumption
<1>2. ASSUME NEW a \in Nat PROVE Rounded(Unit * a) = a
  <2>1. Unit * a \in Nat /\ Unit * a >= 0
    BY <1>1
  <2>2. 2 * (Unit * a) + Unit = (2 * Unit) * a + Unit
    BY <1>1
  <2>. DEFINE d == 2 * Unit
  <2>3. d \in Nat \ {0} /\ Unit \in 0..(d - 1)
    BY <1>1
  <2>. HIDE DEF d
  <2>4. (a * d + Unit) \div d = a
    BY <2>3
  <2>5. d * a = a * d
    BY <2>3
  <2>6. HalfUp(Unit * a) = a
    BY <2>2, <2>4, <2>5 DEF HalfUp, d
  <2>. QED
    BY <2>1, <2>6 DEF Rounded
<1>3. castToNode(<<Unit * x, Unit * y>>) = <<Rounded(Unit * x), Rounded(Unit * y)>>
  BY DEF castToNode
<1>. QED
  BY <1>2, <1>3

\* A step between corners is one direction after the cast.
LEMMA Ceil0Is ==
  ASSUME NEW x \in Int, NEW d \in -1..1
  PROVE  Ceil0(Unit * (x + d) - Unit * x) = d
<1>1. Unit \in Nat \ {0}
  BY GridAssumption
<1>2. Unit * (x + d) - Unit * x = Unit * d
  <2>1. Unit * (x + d) = Unit * x + Unit * d /\ Unit * x \in Int /\ Unit * d \in Int
    BY <1>1
  <2>. QED
    BY <2>1
<1>3. (Unit - 1) \div Unit = 0
  BY <1>1
<1>4. (Unit + Unit - 1) \div Unit = 1
  <2>. DEFINE r == Unit - 1
  <2>1. r \in 0..(Unit - 1) /\ Unit + Unit - 1 = 1 * Unit + r
    BY <1>1
  <2>. HIDE DEF r
  <2>2. (1 * Unit + r) \div Unit = 1
    BY <1>1, <2>1
  <2>. QED
    BY <2>1, <2>2
<1>5. Up(Unit) = 1 /\ Up(0) = 0
  BY <1>1, <1>3, <1>4 DEF Up
<1>6. CASE d = 1
  <2>1. Unit * d = Unit /\ Unit >= 0
    BY <1>1, <1>6
  <2>. QED
    BY <1>2, <1>5, <1>6, <2>1 DEF Ceil0
<1>7. CASE d = 0
  <2>1. Unit * d = 0
    BY <1>1, <1>7
  <2>. QED
    BY <1>2, <1>5, <1>7, <2>1 DEF Ceil0
<1>8. CASE d = -1
  <2>1. Unit * d = -Unit /\ ~(-Unit >= 0) /\ -(-Unit) = Unit
    BY <1>1, <1>8
  <2>. QED
    BY <1>2, <1>5, <1>8, <2>1 DEF Ceil0
<1>. QED
  BY <1>6, <1>7, <1>8

\* Turning one step around a node and back.
LEMMA TurningAgrees ==
  ASSUME NEW s \in Nodes, NEW t \in nbrs(s)
  PROVE  LET u == counterClockwiseNeighbor(s, t)
             pairs == consecutiveNeighbors(s)
         IN  IF u = NoNode THEN \A j \in DOMAIN pairs : pairs[j][1] # t
             ELSE clockwiseNeighbor(s, u) = t /\ \E j \in DOMAIN pairs : pairs[j] = <<t, u>>
<1>. DEFINE At(i) == Moved(s, Around[i], 1)
            u == counterClockwiseNeighbor(s, t)
            pairs == consecutiveNeighbors(s)
            next == [i \in 1..8 |-> Next8(i)]
            previous == [i \in 1..8 |-> Previous8(i)]
<1>1. PICK i \in 1..8 : t = At(i)
  BY DEF nbrs
<1>2. isValidNode(t)
  BY DEF nbrs
<1>3. next \in [1..8 -> 1..8] /\ previous \in [1..8 -> 1..8]
  BY AroundIs
<1>4. /\ Next8(i) \in 1..8 /\ next[i] = Next8(i) /\ previous[Next8(i)] = i
  BY AroundIs
<1>5. DOMAIN pairs = {j \in 1..8 : isValidNode(At(j)) /\ isValidNode(At(Next8(j)))}
      /\ \A j \in DOMAIN pairs : pairs[j] = <<At(j), At(Next8(j))>>
  <2>1. \A j \in 1..8 : AllNbrs(s, 1)[j] = At(j) /\ AllNbrs(s, 1)[Next8(j)] = At(Next8(j))
    BY AroundIs DEF AllNbrs
  <2>. HIDE DEF At
  <2>. QED
    BY <2>1 DEF consecutiveNeighbors
<1>6. u = IF isValidNode(At(Next8(i))) THEN At(Next8(i)) ELSE NoNode
  <2>1. u = Turned(s, At(i), next)
    BY <1>1 DEF counterClockwiseNeighbor
  <2>. HIDE DEF u, next
  <2>. QED
    BY <1>3, <1>4, <2>1, TurnedIs
<1>7. \A j \in 1..8 : isValidNode(At(j)) => At(j) # NoNode
  <2>. SUFFICES ASSUME NEW j \in 1..8, isValidNode(At(j)) PROVE At(j) # NoNode
    OBVIOUS
  <2>. DEFINE x == s[1] + Around[j][1]
              y == s[2] + Around[j][2]
  <2>1. At(j) = <<x, y>> /\ x \in Int /\ y \in Int
    BY MovedIs
  <2>. HIDE DEF At, x, y
  <2>. QED
    BY <2>1, ValidNodes
<1>8. \A j \in 1..8 : At(j) = At(i) => j = i
  <2>. SUFFICES ASSUME NEW j \in 1..8, At(j) = At(i) PROVE j = i
    OBVIOUS
  <2>. DEFINE x(k) == s[1] + Around[k][1]
              y(k) == s[2] + Around[k][2]
  <2>1. ASSUME NEW k \in 1..8 PROVE At(k)[1] = x(k) /\ At(k)[2] = y(k)
    <3>1. At(k) = <<x(k), y(k)>>
      BY MovedIs
    <3>. HIDE DEF At, x, y
    <3>. QED
      BY <3>1
  <2>. HIDE DEF At, x, y
  <2>2. x(i) = x(j) /\ y(i) = y(j)
    <3>1. At(i)[1] = x(i) /\ At(i)[2] = y(i)
      BY <2>1
    <3>2. At(j)[1] = x(j) /\ At(j)[2] = y(j)
      BY <2>1
    <3>3. At(j) = At(i)
      OBVIOUS
    <3>. QED
      BY <3>1, <3>2, <3>3
  <2>. USE DEF x, y
  <2>3. s[1] \in Int /\ s[2] \in Int
    BY GridAssumption DEF Nodes
  <2>4. \A k \in 1..8 : Around[k][1] \in Int /\ Around[k][2] \in Int
    BY AroundIs
  <2>5. \A n, a, b \in Int : n + a = n + b => a = b
    OBVIOUS
  <2>6. Around[i][1] = Around[j][1] /\ Around[i][2] = Around[j][2]
    BY <2>2, <2>3, <2>4, <2>5
  <2>. QED
    BY <2>6, AroundIs
<1>. HIDE DEF pairs, At
<1>9. CASE isValidNode(At(Next8(i)))
  <2>1. u = At(Next8(i)) /\ u # NoNode
    BY <1>4, <1>6, <1>7, <1>9
  <2>. HIDE DEF u
  <2>2. clockwiseNeighbor(s, u) = Turned(s, At(Next8(i)), previous)
    BY <2>1 DEF clockwiseNeighbor
  <2>. HIDE DEF previous
  <2>3. clockwiseNeighbor(s, u) = IF isValidNode(At(i)) THEN At(i) ELSE NoNode
    BY <1>3, <1>4, <2>2, TurnedIs DEF At
  <2>4. clockwiseNeighbor(s, u) = t
    BY <1>1, <1>2, <2>3
  <2>5. i \in DOMAIN pairs /\ pairs[i] = <<t, u>>
    BY <1>1, <1>2, <1>5, <1>9, <2>1
  <2>. QED
    BY <2>1, <2>4, <2>5 DEF u, pairs
<1>10. CASE ~isValidNode(At(Next8(i)))
  <2>1. u = NoNode
    BY <1>6, <1>10
  <2>2. ASSUME NEW j \in DOMAIN pairs PROVE pairs[j][1] # t
    <3>1. pairs[j][1] = At(j) /\ j \in 1..8 /\ isValidNode(At(Next8(j)))
      BY <1>5
    <3>2. j # i
      BY <1>10, <3>1
    <3>. QED
      BY <1>1, <1>8, <3>1, <3>2
  <2>. QED
    BY <2>1, <2>2 DEF pairs
<1>. QED
  BY <1>9, <1>10

\* The pairs around a node's position are those around the node.
LEMMA PairsAgree ==
  ASSUME NEW s \in Nodes
  PROVE  LET cpairs == nbrsContinuous(<<Unit * s[1], Unit * s[2]>>)
             pairs == consecutiveNeighbors(s)
             at(i) == <<s[1] + Around[i][1], s[2] + Around[i][2]>>
             pos(i) == <<Unit * (s[1] + Around[i][1]), Unit * (s[2] + Around[i][2])>>
         IN  /\ DOMAIN cpairs = DOMAIN pairs
             /\ [i \in DOMAIN cpairs |-> <<castToNode(cpairs[i][1]), castToNode(cpairs[i][2])>>] = pairs
             /\ \A i \in DOMAIN cpairs :
                  /\ i \in 1..8 /\ Next8(i) \in 1..8
                  /\ cpairs[i] = <<pos(i), pos(Next8(i))>>
                  /\ at(i) \in Nodes /\ at(Next8(i)) \in Nodes
<1>. DEFINE p == <<Unit * s[1], Unit * s[2]>>
            at(i) == <<s[1] + Around[i][1], s[2] + Around[i][2]>>
            pos(i) == <<Unit * (s[1] + Around[i][1]), Unit * (s[2] + Around[i][2])>>
            cpairs == nbrsContinuous(p)
            pairs == consecutiveNeighbors(s)
<1>1. \A i \in 1..8 : Next8(i) \in 1..8
  BY AroundIs
<1>2. ASSUME NEW i \in 1..8
      PROVE  /\ AllNbrs(s, 1)[i] = at(i) /\ AllNbrs(p, Unit)[i] = pos(i)
             /\ isValidPosition(pos(i)) <=> isValidNode(at(i))
             /\ isValidNode(at(i)) => at(i) \in Nodes /\ castToNode(pos(i)) = at(i)
  <2>1. /\ Moved(s, Around[i], 1) = at(i) /\ Moved(p, Around[i], Unit) = pos(i)
        /\ s[1] + Around[i][1] \in Int /\ s[2] + Around[i][2] \in Int
    BY MovedIs
  <2>2. AllNbrs(s, 1)[i] = at(i) /\ AllNbrs(p, Unit)[i] = pos(i)
    BY <2>1 DEF AllNbrs
  <2>. DEFINE x == s[1] + Around[i][1]
              y == s[2] + Around[i][2]
  <2>3. x \in Int /\ y \in Int /\ at(i) = <<x, y>> /\ pos(i) = <<Unit * x, Unit * y>>
    BY <2>1
  <2>. HIDE DEF x, y, at, pos
  <2>4. /\ isValidPosition(pos(i)) <=> isValidNode(at(i))
        /\ isValidNode(at(i)) => at(i) \in Nodes
    BY <2>3, ValidNodes
  <2>5. ASSUME at(i) \in Nodes PROVE castToNode(pos(i)) = at(i)
    <3>1. x \in Nat /\ y \in Nat
      BY <2>3, <2>5, GridAssumption DEF Nodes
    <3>. QED
      BY <2>3, <3>1, CastIs
  <2>. QED
    BY <2>2, <2>4, <2>5
<1>. HIDE DEF at, pos, p
<1>3. /\ DOMAIN pairs = {j \in 1..8 : isValidNode(at(j)) /\ isValidNode(at(Next8(j)))}
      /\ \A j \in DOMAIN pairs : pairs[j] = <<at(j), at(Next8(j))>>
      /\ pairs = [j \in DOMAIN pairs |-> pairs[j]]
  BY <1>1, <1>2 DEF consecutiveNeighbors
<1>4. /\ DOMAIN cpairs = {j \in 1..8 : isValidNode(at(j)) /\ isValidNode(at(Next8(j)))}
      /\ \A j \in DOMAIN cpairs : cpairs[j] = <<pos(j), pos(Next8(j))>>
  BY <1>1, <1>2 DEF nbrsContinuous
<1>. HIDE DEF pairs, cpairs
<1>5. DOMAIN cpairs = DOMAIN pairs
  BY <1>3, <1>4
<1>6. ASSUME NEW i \in DOMAIN cpairs
      PROVE  /\ i \in 1..8 /\ Next8(i) \in 1..8 /\ cpairs[i] = <<pos(i), pos(Next8(i))>>
             /\ at(i) \in Nodes /\ at(Next8(i)) \in Nodes
             /\ castToNode(pos(i)) = at(i) /\ castToNode(pos(Next8(i))) = at(Next8(i))
  BY <1>1, <1>2, <1>4
<1>7. \A i \in DOMAIN cpairs : <<castToNode(cpairs[i][1]), castToNode(cpairs[i][2])>> = pairs[i]
  BY <1>3, <1>5, <1>6
<1>8. [i \in DOMAIN cpairs |-> <<castToNode(cpairs[i][1]), castToNode(cpairs[i][2])>>] = pairs
  BY <1>3, <1>5, <1>7
<1>. QED
  BY <1>5, <1>6, <1>8 DEF at, pos, p, pairs, cpairs

\* A step from a node's position costs what a step from the node does.
LEMMA ContinuousCosts ==
  ASSUME NEW map, NEW cs, NEW s \in Nodes, NEW i \in 1..8,
         <<s[1] + Around[i][1], s[2] + Around[i][2]>> \in Nodes
  PROVE  LET q == <<Unit * (s[1] + Around[i][1]), Unit * (s[2] + Around[i][2])>>
             t == castToNode(q)
             cost == getContinuousTraversalCost(map, cs, <<Unit * s[1], Unit * s[2]>>, q)
         IN  getTraversalCost(map, cs, s, t) =
               IF isDiagonal(s, t) THEN 2 * Squared(cost) ELSE Squared(cost)
<1>. DEFINE x == s[1] + Around[i][1]
            y == s[2] + Around[i][2]
            p == <<Unit * s[1], Unit * s[2]>>
            q == <<Unit * x, Unit * y>>
            cost == getContinuousTraversalCost(map, cs, p, q)
<1>1. x \in Nat /\ y \in Nat
  BY GridAssumption DEF Nodes
<1>2. s = <<s[1], s[2]>> /\ s[1] \in Nat /\ s[2] \in Nat
  BY MovedIs
<1>3. castToNode(q) = <<x, y>> /\ castToNode(p) = s
  BY <1>1, <1>2, CastIs
<1>4. /\ Ceil0(q[1] - p[1]) = Around[i][1] /\ Ceil0(q[2] - p[2]) = Around[i][2]
  <2>1. Around[i][1] \in -1..1 /\ Around[i][2] \in -1..1
    BY AroundIs
  <2>2. s[1] \in Int /\ s[2] \in Int
    BY <1>2
  <2>. QED
    BY <2>1, <2>2, Ceil0Is
<1>5. <<castToNode(p)[1] + Ceil0(q[1] - p[1]), castToNode(p)[2] + Ceil0(q[2] - p[2])>> = <<x, y>>
  BY <1>3, <1>4
<1>6. cost = IF isDiagonal(s, <<x, y>>) THEN getC(map, cs, s, <<x, y>>) ELSE getB(map, cs, s, <<x, y>>)
  <2>. HIDE DEF x, y, p, q
  <2>. QED
    BY <1>3, <1>5 DEF getContinuousTraversalCost
<1>7. getTraversalCost(map, cs, s, castToNode(q)) =
        IF isDiagonal(s, castToNode(q)) THEN 2 * Squared(cost) ELSE Squared(cost)
  <2>. HIDE DEF x, y, q, cost
  <2>. QED
    BY <1>3, <1>6 DEF getTraversalCost
<1>. QED
  BY <1>7

\* For any grid, however many steps a cell has, and whatever the cells hold:
\* the three ways to a node's neighbours find the same ones in the same order,
\* and cost the same.
THEOREM NeighboursFound == GraphSpec => []NeighboursAgree
<1>1. NeighboursAgree
  <2>. SUFFICES ASSUME NEW s \in Nodes
                PROVE  LET p == <<Unit * s[1], Unit * s[2]>>
                           cpairs == nbrsContinuous(p)
                           pairs == consecutiveNeighbors(s)
                       IN  /\ [i \in DOMAIN cpairs |->
                                 <<castToNode(cpairs[i][1]), castToNode(cpairs[i][2])>>] = pairs
                           /\ \A i \in DOMAIN cpairs : \A j \in 1..2 :
                                LET t == castToNode(cpairs[i][j])
                                    cost == getContinuousTraversalCost(map_, configuration_space_, p, cpairs[i][j])
                                IN  getTraversalCost(map_, configuration_space_, s, t)
                                      = IF isDiagonal(s, t) THEN 2 * Squared(cost) ELSE Squared(cost)
    BY TurningAgrees DEF NeighboursAgree
  <2>. DEFINE p == <<Unit * s[1], Unit * s[2]>>
              cpairs == nbrsContinuous(p)
              Agree(q) ==
                LET t == castToNode(q)
                    cost == getContinuousTraversalCost(map_, configuration_space_, p, q)
                IN  getTraversalCost(map_, configuration_space_, s, t)
                      = IF isDiagonal(s, t) THEN 2 * Squared(cost) ELSE Squared(cost)
  <2>1. ASSUME NEW i \in DOMAIN cpairs, NEW j \in 1..2 PROVE Agree(cpairs[i][j])
    <3>. DEFINE k == IF j = 1 THEN i ELSE Next8(i)
                q == <<Unit * (s[1] + Around[k][1]), Unit * (s[2] + Around[k][2])>>
    <3>1. /\ i \in 1..8 /\ Next8(i) \in 1..8
          /\ cpairs[i] = << <<Unit * (s[1] + Around[i][1]), Unit * (s[2] + Around[i][2])>>,
                            <<Unit * (s[1] + Around[Next8(i)][1]), Unit * (s[2] + Around[Next8(i)][2])>> >>
          /\ <<s[1] + Around[i][1], s[2] + Around[i][2]>> \in Nodes
          /\ <<s[1] + Around[Next8(i)][1], s[2] + Around[Next8(i)][2]>> \in Nodes
      BY PairsAgree
    <3>2. k \in 1..8 /\ <<s[1] + Around[k][1], s[2] + Around[k][2]>> \in Nodes
      BY <3>1
    <3>3. Agree(q)
      BY <3>2, ContinuousCosts
    <3>4. cpairs[i][j] = q
      <4>. HIDE DEF cpairs
      <4>. QED
        BY <3>1
    <3>. QED
      BY <3>3, <3>4
  <2>. HIDE DEF Agree
  <2>2. \A i \in DOMAIN cpairs : \A j \in 1..2 : Agree(cpairs[i][j])
    BY <2>1
  <2>3. [i \in DOMAIN cpairs |-> <<castToNode(cpairs[i][1]), castToNode(cpairs[i][2])>>] =
          consecutiveNeighbors(s)
    BY PairsAgree
  <2>. QED
    BY <2>2, <2>3 DEF Agree
<1>. QED
  BY <1>1, PTL
=============================================================================
