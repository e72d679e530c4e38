---------------------------- MODULE PlayQueueProofs ----------------------------
(***************************************************************************)
(* Proofs about the play queue, for any items and any bound on the         *)
(* history.                                                                *)
(*                                                                         *)
(* The inductive invariant is Sound.  Formed: the list, the cursor and the *)
(* policy are well formed, and the presentation order is a permutation of  *)
(* the list's positions while shuffling and empty otherwise.  Distinct: no *)
(* item is in the list twice.  Of the history nothing is needed:           *)
(* previous() checks every entry before it uses it.                        *)
(***************************************************************************)
EXTENDS PlayQueue, SequenceTheorems, FiniteSetTheorems, TLAPS

IsQueue(q) ==
  q = [items |-> q.items, index |-> q.index, order |-> q.order,
       history |-> q.history, repeat |-> q.repeat, shuffling |-> q.shuffling]
Listed(q) == /\ IsQueue(q)
             /\ q.items \in Seq(Items)
             /\ q.index \in 0..Len(q.items)
             /\ q.repeat \in RepeatMode
             /\ q.shuffling \in BOOLEAN
Permutes(o, items) == /\ o \in [DOMAIN items -> DOMAIN items]
                      /\ \A i, j \in DOMAIN items : o[i] = o[j] => i = j
Ordered(q) == IF q.shuffling THEN Permutes(q.order, q.items) ELSE q.order = <<>>
Formed(q) == Listed(q) /\ Ordered(q)
Distinct(q) == \A i, j \in DOMAIN q.items : q.items[i] = q.items[j] => i = j

-----------------------------------------------------------------------------
(* The operators keep a queue formed.                                      *)

LEMMA FunctionIsSequence ==
  ASSUME NEW n \in Nat, NEW S, NEW f \in [1..n -> S]
  PROVE  f \in Seq(S) /\ Len(f) = n
<1>1. DOMAIN f = 1..n  OBVIOUS
<1>2. Len(f) = n  BY <1>1
<1>3. f \in Seq(S)  BY <1>1, <1>2
<1> QED  BY <1>2, <1>3

(* rebuildOrder restores the order of any list.                            *)
LEMMA RebuiltFormed ==
  ASSUME NEW q, Listed(q), NEW r \in Rebuilt(q)
  PROVE  Formed(r) /\ r.items = q.items /\ r.index = q.index
<1>1. PICK o \in Orders(q) : r = [q EXCEPT !.order = o]
  BY DEF Rebuilt
<1>2. IsOrder(q, o)
  BY DEF Orders
<1>3. /\ r.items = q.items /\ r.index = q.index /\ r.repeat = q.repeat
      /\ r.shuffling = q.shuffling /\ r.order = o /\ IsQueue(r)
  BY <1>1 DEF Listed, IsQueue
<1>4. Listed(r)
  BY <1>3 DEF Listed
<1>5. Ordered(r)
  BY <1>2, <1>3 DEF Listed, IsOrder, Positions, Ordered, Permutes
<1> QED  BY <1>3, <1>4, <1>5 DEF Formed

(* A navigation moves the cursor to a position or nowhere, and the list    *)
(* and its order stay.                                                     *)
LEMMA LandingFormed ==
  ASSUME NEW q, Formed(q), NEW i \in 0..Len(q.items)
  PROVE  Formed(Landing(q, i).queue) /\ Landing(q, i).queue.items = q.items
<1> DEFINE r == Landing(q, i).queue
<1>1. /\ r.items = q.items /\ r.repeat = q.repeat /\ r.shuffling = q.shuffling
      /\ r.order = q.order /\ IsQueue(r) /\ r.index \in {q.index, i}
  BY DEF Landing, Formed, Listed, IsQueue
<1> HIDE DEF r
<1>2. Formed(r)
  BY <1>1 DEF Formed, Listed, Ordered
<1> QED  BY <1>1, <1>2 DEF r

(* The history has no part in it.                                          *)
LEMMA HistoryFormed ==
  ASSUME NEW q, Formed(q), NEW h
  PROVE  /\ Formed([q EXCEPT !.history = h])
         /\ [q EXCEPT !.history = h].items = q.items
         /\ [q EXCEPT !.history = h].shuffling = q.shuffling
         /\ [q EXCEPT !.history = h].repeat = q.repeat
         /\ [q EXCEPT !.history = h].index = q.index
         /\ [q EXCEPT !.history = h].order = q.order
<1> DEFINE r == [q EXCEPT !.history = h]
<1>1. /\ r.items = q.items /\ r.repeat = q.repeat /\ r.shuffling = q.shuffling
      /\ r.order = q.order /\ IsQueue(r) /\ r.index = q.index
  BY DEF Formed, Listed, IsQueue
<1> HIDE DEF r
<1>2. Formed(r)
  BY <1>1 DEF Formed, Listed, Ordered
<1> QED  BY <1>1, <1>2 DEF r

(* Where a navigation can lead to is a position, or nowhere.               *)
LEMMA NextIsPosition ==
  ASSUME NEW q, Formed(q)
  PROVE  /\ NextUnderRepeat(q) \in 0..Len(q.items)
         /\ ShuffledNext(q) \in 0..Len(q.items)
         /\ Before(q) \in 0..Len(q.items)
<1>1. /\ q.items \in Seq(Items) /\ Len(q.items) \in Nat /\ q.index \in 0..Len(q.items)
      /\ DOMAIN q.items = 1..Len(q.items)
  BY DEF Formed, Listed
<1>2. NextUnderRepeat(q) \in 0..Len(q.items)
  BY <1>1 DEF NextUnderRepeat
<1>3. CASE ~q.shuffling
  <2>1. q.order = <<>>  BY <1>3 DEF Formed, Ordered
  <2>2. ShuffledNext(q) = 0  BY <2>1 DEF ShuffledNext
  <2>3. Before(q) \in 0..Len(q.items)  BY <1>1, <1>3 DEF Before
  <2> QED  BY <1>1, <1>2, <2>2, <2>3
<1>4. CASE q.shuffling
  <2>1. /\ q.order \in [1..Len(q.items) -> 1..Len(q.items)]
    BY <1>1, <1>4 DEF Formed, Ordered, Permutes
  <2>2. q.order \in Seq(1..Len(q.items)) /\ Len(q.order) = Len(q.items)
    <3> DEFINE n == Len(q.items)
               o == q.order
    <3>1. n \in Nat /\ o \in [1..n -> 1..n]  BY <1>1, <2>1
    <3> HIDE DEF n, o
    <3>2. o \in Seq(1..n) /\ Len(o) = n  BY <3>1, FunctionIsSequence
    <3> QED  BY <3>2 DEF n, o
  <2>3. InOrder(q) \in 0..Len(q.items)
    BY <1>1, <2>1 DEF InOrder
  <2>4. ShuffledNext(q) \in 0..Len(q.items)
    <3>1. CASE InOrder(q) \in 1..(Len(q.order) - 1)
      <4>1. InOrder(q) + 1 \in 1..Len(q.items)
        <5>1. InOrder(q) \in 1..(Len(q.items) - 1)  BY <2>2, <3>1, Zenon
        <5> QED  BY <1>1, <5>1
      <4>2. q.order[InOrder(q) + 1] \in 1..Len(q.items)  BY <2>1, <4>1
      <4>3. ShuffledNext(q) = q.order[InOrder(q) + 1]  BY <3>1 DEF ShuffledNext
      <4> QED  BY <1>1, <4>2, <4>3
    <3>2. CASE InOrder(q) \notin 1..(Len(q.order) - 1)
      BY <1>1, <3>2 DEF ShuffledNext
    <3> QED  BY <3>1, <3>2
  <2>5. Before(q) \in 0..Len(q.items)
    BY <1>1, <1>4, <2>1, <2>3 DEF Before
  <2> QED  BY <1>2, <2>4, <2>5
<1> QED  BY <1>3, <1>4 DEF Formed, Listed

-----------------------------------------------------------------------------
(* The list edits.                                                         *)

(* An insertion lengthens the list by one.                                 *)
LEMMA InsertedListed ==
  ASSUME NEW S, NEW s \in Seq(S), NEW i \in 1..(Len(s) + 1), NEW e \in S
  PROVE  InsertAt(s, i, e) \in Seq(S) /\ Len(InsertAt(s, i, e)) = Len(s) + 1
<1>1. Len(s) \in Nat  OBVIOUS
<1>2. /\ SubSeq(s, 1, i - 1) \in Seq(S)
      /\ Len(SubSeq(s, 1, i - 1)) = i - 1
  <2>1. /\ i - 1 \in Int /\ 1 \in Int /\ \A k \in 1..(i - 1) : s[k] \in S
    BY <1>1
  <2>2. /\ SubSeq(s, 1, i - 1) \in Seq(S)
        /\ Len(SubSeq(s, 1, i - 1)) = IF 1 <= i - 1 THEN i - 1 - 1 + 1 ELSE 0
    BY <2>1, SubSeqProperties
  <2> QED  BY <1>1, <2>2
<1>3. /\ SubSeq(s, i, Len(s)) \in Seq(S)
      /\ Len(SubSeq(s, i, Len(s))) = Len(s) - i + 1
  <2>1. /\ i \in Int /\ Len(s) \in Int /\ \A k \in i..Len(s) : s[k] \in S
    BY <1>1
  <2>2. /\ SubSeq(s, i, Len(s)) \in Seq(S)
        /\ Len(SubSeq(s, i, Len(s))) = IF i <= Len(s) THEN Len(s) - i + 1 ELSE 0
    BY <2>1, SubSeqProperties
  <2> QED  BY <1>1, <2>2
<1>4. <<e>> \in Seq(S) /\ Len(<<e>>) = 1  OBVIOUS
<1>5. /\ SubSeq(s, 1, i - 1) \o <<e>> \in Seq(S)
      /\ Len(SubSeq(s, 1, i - 1) \o <<e>>) = i
  BY <1>1, <1>2, <1>4, ConcatProperties
<1>6. /\ (SubSeq(s, 1, i - 1) \o <<e>>) \o SubSeq(s, i, Len(s)) \in Seq(S)
      /\ Len((SubSeq(s, 1, i - 1) \o <<e>>) \o SubSeq(s, i, Len(s))) = i + (Len(s) - i + 1)
  <2> DEFINE a == SubSeq(s, 1, i - 1) \o <<e>>
             b == SubSeq(s, i, Len(s))
  <2>1. /\ a \in Seq(S) /\ b \in Seq(S)
        /\ Len(a) = i /\ Len(b) = Len(s) - i + 1
    BY <1>3, <1>5
  <2> HIDE DEF a, b
  <2>2. a \o b \in Seq(S) /\ Len(a \o b) = Len(a) + Len(b)
    BY <2>1, ConcatProperties
  <2>3. a \o b \in Seq(S) /\ Len(a \o b) = i + (Len(s) - i + 1)
    BY <2>1, <2>2, Zenon
  <2> QED  BY <2>3 DEF a, b
<1>7. i + (Len(s) - i + 1) = Len(s) + 1  BY <1>1
<1> QED  BY <1>6, <1>7, Zenon DEF InsertAt

(* A removal shortens it by one.                                           *)
LEMMA RemovedListed ==
  ASSUME NEW S, NEW s \in Seq(S), NEW i \in 1..Len(s)
  PROVE  RemoveAt(s, i) \in Seq(S) /\ Len(RemoveAt(s, i)) = Len(s) - 1
<1>1. Len(s) \in Nat  OBVIOUS
<1>2. /\ SubSeq(s, 1, i - 1) \in Seq(S)
      /\ Len(SubSeq(s, 1, i - 1)) = i - 1
  <2>1. /\ i - 1 \in Int /\ 1 \in Int /\ \A k \in 1..(i - 1) : s[k] \in S
    BY <1>1
  <2>2. /\ SubSeq(s, 1, i - 1) \in Seq(S)
        /\ Len(SubSeq(s, 1, i - 1)) = IF 1 <= i - 1 THEN i - 1 - 1 + 1 ELSE 0
    BY <2>1, SubSeqProperties
  <2> QED  BY <1>1, <2>2
<1>3. /\ SubSeq(s, i + 1, Len(s)) \in Seq(S)
      /\ Len(SubSeq(s, i + 1, Len(s))) = Len(s) - i
  <2>1. /\ i + 1 \in Int /\ Len(s) \in Int /\ \A k \in (i + 1)..Len(s) : s[k] \in S
    BY <1>1
  <2>2. /\ SubSeq(s, i + 1, Len(s)) \in Seq(S)
        /\ Len(SubSeq(s, i + 1, Len(s))) =
             IF i + 1 <= Len(s) THEN Len(s) - (i + 1) + 1 ELSE 0
    BY <2>1, SubSeqProperties
  <2> QED  BY <1>1, <2>2
<1>4. /\ SubSeq(s, 1, i - 1) \o SubSeq(s, i + 1, Len(s)) \in Seq(S)
      /\ Len(SubSeq(s, 1, i - 1) \o SubSeq(s, i + 1, Len(s))) = (i - 1) + (Len(s) - i)
  <2> DEFINE a == SubSeq(s, 1, i - 1)
             b == SubSeq(s, i + 1, Len(s))
  <2>1. /\ a \in Seq(S) /\ b \in Seq(S)
        /\ Len(a) = i - 1 /\ Len(b) = Len(s) - i
    BY <1>2, <1>3
  <2> HIDE DEF a, b
  <2>2. a \o b \in Seq(S) /\ Len(a \o b) = Len(a) + Len(b)
    BY <2>1, ConcatProperties
  <2>3. a \o b \in Seq(S) /\ Len(a \o b) = (i - 1) + (Len(s) - i)
    BY <2>1, <2>2, Zenon
  <2> QED  BY <2>3 DEF a, b
<1>5. (i - 1) + (Len(s) - i) = Len(s) - 1  BY <1>1
<1> QED  BY <1>4, <1>5, Zenon DEF RemoveAt

(* Where the items are after an insertion and a removal.                   *)
LEMMA InsertedItems ==
  ASSUME NEW S, NEW s \in Seq(S), NEW i \in 1..(Len(s) + 1), NEW e \in S,
         NEW k \in 1..(Len(s) + 1)
  PROVE  InsertAt(s, i, e)[k] = IF k < i THEN s[k] ELSE IF k = i THEN e ELSE s[k - 1]
<1> DEFINE n == Len(s)
           a == SubSeq(s, 1, i - 1)
           b == SubSeq(s, i, n)
           c == a \o <<e>>
<1>1. n \in Nat /\ i \in 1..(n + 1) /\ k \in 1..(n + 1)  OBVIOUS
<1>2. /\ a \in Seq(S) /\ Len(a) = i - 1
      /\ \A m \in 1..(i - 1) : a[m] = s[m]
  <2>1. /\ i - 1 \in Int /\ 1 \in Int /\ \A m \in 1..(i - 1) : s[m] \in S
    BY <1>1
  <2>2. /\ a \in Seq(S)
        /\ Len(a) = IF 1 <= i - 1 THEN i - 1 - 1 + 1 ELSE 0
        /\ \A m \in 1..(i - 1 - 1 + 1) : a[m] = s[1 + m - 1]
    BY <2>1, SubSeqProperties
  <2> HIDE DEF a
  <2> QED  BY <1>1, <2>2
<1>3. /\ b \in Seq(S) /\ Len(b) = n - i + 1
      /\ \A m \in 1..(n - i + 1) : b[m] = s[i + m - 1]
  <2>1. /\ i \in Int /\ n \in Int /\ \A m \in i..n : s[m] \in S
    BY <1>1
  <2>2. /\ b \in Seq(S)
        /\ Len(b) = IF i <= n THEN n - i + 1 ELSE 0
        /\ \A m \in 1..(n - i + 1) : b[m] = s[i + m - 1]
    BY <2>1, SubSeqProperties
  <2> HIDE DEF b
  <2> QED  BY <1>1, <2>2
<1> HIDE DEF n, a, b
<1>4. <<e>> \in Seq(S) /\ Len(<<e>>) = 1 /\ <<e>>[1] = e  OBVIOUS
<1>5. /\ c \in Seq(S) /\ Len(c) = i
      /\ \A m \in 1..i : c[m] = IF m < i THEN s[m] ELSE e
  <2> DEFINE u == <<e>>
  <2>1. /\ u \in Seq(S) /\ Len(u) = 1 /\ u[1] = e  BY <1>4
  <2> HIDE DEF u
  <2>2. /\ a \o u \in Seq(S) /\ Len(a \o u) = Len(a) + Len(u)
        /\ \A m \in 1..(Len(a) + Len(u)) :
             (a \o u)[m] = IF m <= Len(a) THEN a[m] ELSE u[m - Len(a)]
    BY <1>2, <2>1, ConcatProperties
  <2> DEFINE v == a \o u
  <2>3. /\ v \in Seq(S) /\ Len(v) = i - 1 + 1
        /\ \A m \in 1..(i - 1 + 1) :
             v[m] = IF m <= i - 1 THEN a[m] ELSE u[m - (i - 1)]
    BY <1>2, <2>1, <2>2, Zenon
  <2> HIDE DEF v
  <2>4. /\ v \in Seq(S) /\ Len(v) = i
        /\ \A m \in 1..i : v[m] = IF m < i THEN s[m] ELSE e
    BY <1>1, <1>2, <2>1, <2>3
  <2> QED  BY <2>4 DEF v, u
<1> HIDE DEF c
<1>6. (c \o b)[k] = IF k <= Len(c) THEN c[k] ELSE b[k - Len(c)]
  <2>1. \A m \in 1..(Len(c) + Len(b)) :
          (c \o b)[m] = IF m <= Len(c) THEN c[m] ELSE b[m - Len(c)]
    BY <1>3, <1>5, ConcatProperties
  <2>2. Len(c) + Len(b) = i + (n - i + 1)  BY <1>3, <1>5, Zenon
  <2>3. i + (n - i + 1) = n + 1  BY <1>1
  <2>4. k \in 1..(Len(c) + Len(b))  BY <1>1, <2>2, <2>3, Zenon
  <2> QED  BY <2>1, <2>4, Zenon
<1>7. (c \o b)[k] = IF k <= i THEN c[k] ELSE b[k - i]
  BY <1>5, <1>6, Zenon
<1> DEFINE w == (c \o b)[k]
<1>8. w = IF k <= i THEN c[k] ELSE b[k - i]  BY <1>7
<1> HIDE DEF w
<1>9. w = IF k < i THEN s[k] ELSE IF k = i THEN e ELSE s[k - 1]
  <2>1. CASE k <= i
    BY <1>1, <1>5, <1>8, <2>1
  <2>2. CASE ~(k <= i)
    <3>1. k - i \in 1..(n - i + 1) /\ i + (k - i) - 1 = k - 1  BY <1>1, <2>2
    <3> QED  BY <1>1, <1>3, <1>8, <2>2, <3>1
  <2> QED  BY <2>1, <2>2
<1> QED  BY <1>9, Zenon DEF InsertAt, w, c, a, b, n

(* The items behind the removed one move up.                               *)
LEMMA RemovedItems ==
  ASSUME NEW S, NEW s \in Seq(S), NEW i \in 1..Len(s), NEW k \in 1..(Len(s) - 1)
  PROVE  RemoveAt(s, i)[k] = IF k < i THEN s[k] ELSE s[k + 1]
<1> DEFINE n == Len(s)
           a == SubSeq(s, 1, i - 1)
           b == SubSeq(s, i + 1, n)
<1>1. n \in Nat /\ i \in 1..n /\ k \in 1..(n - 1)  OBVIOUS
<1>2. /\ a \in Seq(S) /\ Len(a) = i - 1
      /\ \A m \in 1..(i - 1) : a[m] = s[m]
  <2>1. /\ i - 1 \in Int /\ 1 \in Int /\ \A m \in 1..(i - 1) : s[m] \in S
    BY <1>1
  <2>2. /\ a \in Seq(S)
        /\ Len(a) = IF 1 <= i - 1 THEN i - 1 - 1 + 1 ELSE 0
        /\ \A m \in 1..(i - 1 - 1 + 1) : a[m] = s[1 + m - 1]
    BY <2>1, SubSeqProperties
  <2> HIDE DEF a
  <2> QED  BY <1>1, <2>2
<1>3. /\ b \in Seq(S) /\ Len(b) = n - i
      /\ \A m \in 1..(n - i) : b[m] = s[i + m]
  <2>1. /\ i + 1 \in Int /\ n \in Int /\ \A m \in (i + 1)..n : s[m] \in S
    BY <1>1
  <2>2. /\ b \in Seq(S)
        /\ Len(b) = IF i + 1 <= n THEN n - (i + 1) + 1 ELSE 0
        /\ \A m \in 1..(n - (i + 1) + 1) : b[m] = s[i + 1 + m - 1]
    BY <2>1, SubSeqProperties
  <2> HIDE DEF b
  <2> QED  BY <1>1, <2>2
<1> HIDE DEF n, a, b
<1>4. (a \o b)[k] = IF k <= Len(a) THEN a[k] ELSE b[k - Len(a)]
  <2>1. \A m \in 1..(Len(a) + Len(b)) :
          (a \o b)[m] = IF m <= Len(a) THEN a[m] ELSE b[m - Len(a)]
    BY <1>2, <1>3, ConcatProperties
  <2>2. Len(a) + Len(b) = (i - 1) + (n - i)  BY <1>2, <1>3, Zenon
  <2>3. (i - 1) + (n - i) = n - 1  BY <1>1
  <2>4. k \in 1..(Len(a) + Len(b))  BY <1>1, <2>2, <2>3, Zenon
  <2> QED  BY <2>1, <2>4, Zenon
<1> DEFINE w == (a \o b)[k]
<1>5. w = IF k <= i - 1 THEN a[k] ELSE b[k - (i - 1)]
  BY <1>2, <1>4, Zenon
<1> HIDE DEF w
<1>6. w = IF k < i THEN s[k] ELSE s[k + 1]
  <2>1. CASE k < i
    <3>1. k <= i - 1 /\ k \in 1..(i - 1)  BY <1>1, <2>1
    <3> QED  BY <1>2, <1>5, <2>1, <3>1
  <2>2. CASE ~(k < i)
    <3>1. ~(k <= i - 1) /\ k - (i - 1) \in 1..(n - i) /\ i + (k - (i - 1)) = k + 1
      BY <1>1, <2>2
    <3> QED  BY <1>3, <1>5, <2>2, <3>1
  <2> QED  BY <2>1, <2>2
<1> QED  BY <1>6, Zenon DEF RemoveAt, w, a, b, n

(* The queue of items an edit installs, appends or inserts.                *)
LEMMA ChosenListed ==
  ASSUME NEW S \in SUBSET Items, NEW s \in SetToSeqs(S)
  PROVE  /\ s \in Seq(Items) /\ Len(s) = Cardinality(S) /\ Cardinality(S) \in Nat
         /\ \A i, j \in 1..Len(s) : s[i] = s[j] => i = j
         /\ \A i \in 1..Len(s) : s[i] \in S
<1>1. Cardinality(S) \in Nat
  BY ItemsAssumption, FS_Subset, FS_CardinalityType
<1>2. /\ s \in [1..Cardinality(S) -> Items] /\ s \in [1..Cardinality(S) -> S]
      /\ \A i, j \in 1..Cardinality(S) : i # j => s[i] # s[j]
  BY DEF SetToSeqs
<1>3. s \in Seq(Items) /\ Len(s) = Cardinality(S)
  BY <1>1, <1>2, FunctionIsSequence
<1> QED  BY <1>1, <1>2, <1>3

-----------------------------------------------------------------------------
(* The operations keep a queue formed.                                     *)

LEMMA NextLandingsFormed ==
  ASSUME NEW q, Formed(q), NEW l \in NextLandings(q)
  PROVE  Formed(l.queue) /\ l.queue.items = q.items
<1>1. Len(q.items) \in Nat /\ DOMAIN q.items = 1..Len(q.items)
  BY DEF Formed, Listed
<1>2. CASE q.items = <<>>
  BY <1>1, <1>2, LandingFormed DEF NextLandings
<1>3. CASE q.items # <<>>
  <2> DEFINE p == [q EXCEPT !.history = Pushed(q)]
  <2>1. /\ Formed(p) /\ p.items = q.items /\ p.shuffling = q.shuffling
    BY HistoryFormed
  <2>2. \/ l = Landing(p, NextUnderRepeat(q))
        \/ l = Landing(p, ShuffledNext(q))
        \/ q.shuffling /\ \E r \in Rebuilt(p) : l = Landing(r, r.order[1])
    BY <1>3 DEF NextLandings
  <2> HIDE DEF p
  <2>3. CASE l = Landing(p, NextUnderRepeat(q))
    BY <2>1, <2>3, NextIsPosition, LandingFormed
  <2>4. CASE l = Landing(p, ShuffledNext(q))
    BY <2>1, <2>4, NextIsPosition, LandingFormed
  <2>5. CASE q.shuffling /\ \E r \in Rebuilt(p) : l = Landing(r, r.order[1])
    <3>1. PICK r \in Rebuilt(p) : l = Landing(r, r.order[1])  BY <2>5
    <3>2. Formed(r)  BY <2>1, <3>1, RebuiltFormed DEF Formed
    <3>3. r.items = q.items /\ r.shuffling
      <4>1. PICK o \in Orders(p) : r = [p EXCEPT !.order = o]
        BY <3>1 DEF Rebuilt
      <4> QED  BY <2>1, <2>5, <4>1 DEF Formed, Listed, IsQueue
    <3>4. r.order[1] \in 0..Len(r.items)
      <4>1. Len(q.items) > 0  BY <1>1, <1>3 DEF Formed, Listed
      <4>2. r.order \in [1..Len(q.items) -> 1..Len(q.items)]
        BY <1>1, <3>2, <3>3 DEF Formed, Ordered, Permutes
      <4> QED  BY <1>1, <3>3, <4>1, <4>2
    <3> QED  BY <3>1, <3>2, <3>3, <3>4, LandingFormed
  <2> QED  BY <2>2, <2>3, <2>4, <2>5
<1> QED  BY <1>2, <1>3

(* So does previous(), whatever is left on the history.                    *)
LEMMA PreviousLandingFormed ==
  ASSUME NEW q, Formed(q)
  PROVE  Formed(PreviousLanding(q).queue) /\ PreviousLanding(q).queue.items = q.items
<1>1. Len(q.items) \in Nat /\ Positions(q) = 1..Len(q.items)
  BY DEF Formed, Listed, Positions
<1>2. CASE q.items = <<>>
  BY <1>1, <1>2, LandingFormed DEF PreviousLanding
<1>3. CASE q.items # <<>> /\ Latest(q) = {}
  <2> DEFINE p == [q EXCEPT !.history = <<>>]
  <2>1. Formed(p) /\ p.items = q.items  BY HistoryFormed
  <2>2. PreviousLanding(q) = Landing(p, Before(q))  BY <1>3 DEF PreviousLanding
  <2> HIDE DEF p
  <2> QED  BY <2>1, <2>2, NextIsPosition, LandingFormed
<1>4. CASE q.items # <<>> /\ Latest(q) # {}
  <2> DEFINE k == CHOOSE k \in Latest(q) : TRUE
             p == [q EXCEPT !.history = SubSeq(@, 1, k - 1)]
  <2>1. k \in Latest(q)  BY <1>4
  <2>2. q.history[k] \in 0..Len(q.items)
    <3> HIDE DEF k
    <3> QED  BY <1>1, <2>1 DEF Latest, Retraceable
  <2>3. PreviousLanding(q) = Landing(p, q.history[k])  BY <1>4 DEF PreviousLanding
  <2>4. Formed(p) /\ p.items = q.items  BY HistoryFormed
  <2> HIDE DEF k, p
  <2> QED  BY <2>2, <2>3, <2>4, LandingFormed
<1> QED  BY <1>2, <1>3, <1>4

-----------------------------------------------------------------------------
(* Formed and Distinct are inductive, and every edit but the installation  *)
(* of a sequence keeps the cursor on its item.                             *)

Edited(q, items, index, h) ==
  [q EXCEPT !.items = items, !.index = index, !.history = h]

(* An edit: whatever list, cursor and history it leaves, the order is      *)
(* rebuilt.                                                                *)
LEMMA EditFormed ==
  ASSUME NEW q, Formed(q), NEW items \in Seq(Items), NEW index \in 0..Len(items),
         NEW h,
         NEW r \in Rebuilt(Edited(q, items, index, h))
  PROVE  Formed(r) /\ r.items = items /\ r.index = index
<1> DEFINE e == [q EXCEPT !.items = items, !.index = index, !.history = h]
<1>0. e = [items |-> items, index |-> index, order |-> q.order, history |-> h,
          repeat |-> q.repeat, shuffling |-> q.shuffling]
  <2> DEFINE a == [q EXCEPT !.items = items]
             b == [a EXCEPT !.index = index]
             c == [b EXCEPT !.history = h]
  <2>1. a = [items |-> items, index |-> q.index, order |-> q.order,
             history |-> q.history, repeat |-> q.repeat, shuffling |-> q.shuffling]
    BY DEF Formed, Listed, IsQueue
  <2>2. b = [items |-> items, index |-> index, order |-> q.order,
             history |-> q.history, repeat |-> q.repeat, shuffling |-> q.shuffling]
    <3> HIDE DEF a
    <3> QED  BY <2>1
  <2>3. c = [items |-> items, index |-> index, order |-> q.order, history |-> h,
             repeat |-> q.repeat, shuffling |-> q.shuffling]
    <3> HIDE DEF b
    <3> QED  BY <2>2
  <2> QED  BY <2>3, Zenon
<1> HIDE DEF e
<1>1. /\ e.items = items /\ e.index = index /\ e.repeat = q.repeat
      /\ e.shuffling = q.shuffling /\ IsQueue(e)
  BY <1>0 DEF IsQueue
<1>2. Listed(e)  BY <1>1 DEF Formed, Listed
<1>3. r \in Rebuilt(e)  BY DEF e, Edited
<1> QED  BY <1>1, <1>2, <1>3, RebuiltFormed

Sound == Formed(queue) /\ Distinct(queue)
CursorKept == Current(queue) \in Held' => Current(queue)' = Current(queue)

(* What the cases below use of Formed.                                     *)
LEMMA Shape ==
  ASSUME Formed(queue)
  PROVE  /\ queue.items \in Seq(Items) /\ Len(queue.items) \in Nat
         /\ queue.index \in 0..Len(queue.items)
         /\ Positions(queue) = 1..Len(queue.items)
         /\ DOMAIN queue.items = 1..Len(queue.items) /\ IsQueue(queue)
BY DEF Formed, Listed, Positions

(* The cursor stays on its item when the item at the old cursor is the     *)
(* item at the new one, and nowhere stays nowhere.                         *)
LEMMA SameItem ==
  ASSUME Formed(queue), Formed(queue'),
         queue.index = 0 => queue'.index = 0,
         queue.index # 0 => /\ queue'.index # 0
                            /\ queue'.items[queue'.index] = queue.items[queue.index]
  PROVE  CursorKept
<1>1. /\ Len(queue.items) \in Nat /\ queue.index \in 0..Len(queue.items)
      /\ Positions(queue) = 1..Len(queue.items)
      /\ Len(queue'.items) \in Nat /\ queue'.index \in 0..Len(queue'.items)
      /\ Positions(queue') = 1..Len(queue'.items)
  BY DEF Formed, Listed, Positions
<1>2. CASE queue.index = 0
  <2>1. queue.index \notin Positions(queue) /\ queue'.index \notin Positions(queue')
    BY <1>1, <1>2
  <2> QED  BY <2>1 DEF CursorKept, Current
<1>3. CASE queue.index # 0
  <2>1. queue.index \in Positions(queue) /\ queue'.index \in Positions(queue')
    BY <1>1, <1>3
  <2> QED  BY <1>3, <2>1 DEF CursorKept, Current
<1> QED  BY <1>2, <1>3

(* An insertion behind the cursor leaves the item at the cursor.           *)
LEMMA PlayNextSound ==
  ASSUME Sound, PlayNext
  PROVE  Formed(queue') /\ Distinct(queue') /\ CursorKept
<1> DEFINE n == Len(queue.items)
           x == queue.index
<1>1. /\ Formed(queue) /\ queue.items \in Seq(Items) /\ n \in Nat /\ x \in 0..n
      /\ Positions(queue) = 1..n /\ IsQueue(queue)
      /\ \A i, j \in 1..n : queue.items[i] = queue.items[j] => i = j
  BY Shape DEF Sound, Distinct
<1>2. PICK item \in Items \ Held : queue' \in PlayNextQueues(queue, item)
  BY DEF PlayNext, Fresh
<1>0. item \in Items  OBVIOUS
<1>3. CASE queue.items = <<>>
  <2> DEFINE s == <<item>>
             one == 1
  <2>1. /\ s \in Seq(Items) /\ one \in 0..Len(s)
        /\ \A i, j \in DOMAIN s : s[i] = s[j] => i = j
    OBVIOUS
  <2>2. queue' \in Rebuilt([queue EXCEPT !.items = s, !.index = one])
    BY <1>2, <1>3 DEF PlayNextQueues
  <2> HIDE DEF s, one
  <2>3. [queue EXCEPT !.items = s, !.index = one] = Edited(queue, s, one, queue.history)
    BY <1>1 DEF IsQueue, Edited
  <2>9. Formed(queue) /\ s \in Seq(Items) /\ one \in 0..Len(s)
    BY <1>1, <2>1
  <2>10. queue' \in Rebuilt(Edited(queue, s, one, queue.history))
    BY <2>2, <2>3, Zenon
  <2>4. Formed(queue') /\ queue'.items = s /\ queue'.index = one
    BY <2>9, <2>10, EditFormed
  <2>5. Distinct(queue')  BY <2>1, <2>4, Zenon DEF Distinct
  <2>6. Held' = {item} /\ Current(queue)' = item
    <3> USE DEF s, one
    <3>1. DOMAIN s = {1} /\ s[1] = item  OBVIOUS
    <3> HIDE DEF s
    <3> QED  BY <2>4, <3>1 DEF Held, Current, Positions
  <2>7. Current(queue) = "none"
    BY <1>3 DEF Current, Positions
  <2>8. CursorKept
    <3>1. SUFFICES ASSUME Current(queue) \in Held' PROVE Current(queue)' = Current(queue)
      BY DEF CursorKept
    <3> QED  BY <2>6, <3>1
  <2> QED  BY <2>4, <2>5, <2>8
<1>4. CASE queue.items # <<>>
  <2> DEFINE s == InsertAt(queue.items, x + 1, item)
  <2>1. x + 1 \in 1..(Len(queue.items) + 1)  BY <1>1
  <2>0. queue.items \in Seq(Items)  BY <1>1
  <2>2. s \in Seq(Items) /\ Len(s) = n + 1
    BY <1>0, <2>0, <2>1, InsertedListed, Zenon
  <2>3. \A k \in 1..(n + 1) :
          s[k] = IF k < x + 1 THEN queue.items[k]
                 ELSE IF k = x + 1 THEN item ELSE queue.items[k - 1]
    <3> DEFINE g == queue.items
               p == x + 1
    <3>1. g \in Seq(Items) /\ p \in 1..(Len(g) + 1) /\ item \in Items
      BY <1>0, <2>0, <2>1
    <3> HIDE DEF g, p
    <3>2. \A k \in 1..(Len(g) + 1) :
            InsertAt(g, p, item)[k] =
              IF k < p THEN g[k] ELSE IF k = p THEN item ELSE g[k - 1]
      BY <3>1, InsertedItems
    <3> QED  BY <3>2, Zenon DEF g, p
  <2>4. queue' \in Rebuilt([queue EXCEPT !.items = s])
    BY <1>2, <1>4 DEF PlayNextQueues
  <2> HIDE DEF s
  <2>5. [queue EXCEPT !.items = s] = Edited(queue, s, queue.index, queue.history)
    BY <1>1 DEF IsQueue, Edited
  <2>6. x \in 0..Len(s)  BY <1>1, <2>2
  <2>12. queue' \in Rebuilt(Edited(queue, s, x, queue.history))
    BY <2>4, <2>5, Zenon
  <2>13. Formed(queue) /\ s \in Seq(Items)  BY <1>1, <2>2
  <2>7. Formed(queue') /\ queue'.items = s /\ queue'.index = x
    BY <2>6, <2>12, <2>13, EditFormed
  <2>8. \A k \in 1..n : queue.items[k] # item
    BY <1>1, <1>2 DEF Held
  <2>9. \A i, j \in 1..(n + 1) : s[i] = s[j] => i = j
    <3> DEFINE g == queue.items
    <3> HIDE DEF g, x, n, s
    <3>1. /\ n \in Nat /\ x \in 0..n
          /\ \A i, j \in 1..n : g[i] = g[j] => i = j
          /\ \A k \in 1..n : g[k] # item
          /\ \A k \in 1..(n + 1) :
               s[k] = IF k < x + 1 THEN g[k] ELSE IF k = x + 1 THEN item ELSE g[k - 1]
      BY <1>1, <2>3, <2>8 DEF g, x, n
    <3> QED  BY <3>1
  <2>10. DOMAIN s = 1..(n + 1)  BY <2>2
  <2>11. x # 0 => s[x] = queue.items[x]
    <3>1. x # 0 => x \in 1..(n + 1) /\ x < x + 1  BY <1>1
    <3> QED  BY <2>3, <3>1
  <2> QED  BY <1>1, <2>7, <2>9, <2>10, <2>11, SameItem DEF Distinct
<1> QED  BY <1>3, <1>4

(* So does an append.                                                      *)
LEMMA EnqueueSound ==
  ASSUME Sound, Enqueue
  PROVE  Formed(queue') /\ Distinct(queue') /\ CursorKept
<1> DEFINE g == queue.items
           n == Len(g)
           x == queue.index
<1>1. /\ g \in Seq(Items) /\ n \in Nat /\ x \in 0..n /\ Positions(queue) = 1..n
      /\ IsQueue(queue) /\ Formed(queue)
      /\ \A i, j \in 1..n : g[i] = g[j] => i = j
  BY Shape DEF Sound, Distinct
<1>2. PICK S \in SUBSET (Items \ Held) :
        \E s \in SetToSeqs(S) : queue' \in EnqueueQueues(queue, s)
  BY DEF Enqueue, Fresh
<1>3. PICK s \in SetToSeqs(S) : queue' \in EnqueueQueues(queue, s)
  BY <1>2
<1>4. /\ s \in Seq(Items) /\ Len(s) \in Nat
      /\ \A i, j \in 1..Len(s) : s[i] = s[j] => i = j
      /\ \A i \in 1..Len(s) : s[i] \in Items \ Held
  <2>1. S \in SUBSET Items  OBVIOUS
  <2>2. /\ s \in Seq(Items) /\ Len(s) = Cardinality(S) /\ Cardinality(S) \in Nat
        /\ \A i, j \in 1..Len(s) : s[i] = s[j] => i = j
        /\ \A i \in 1..Len(s) : s[i] \in S
    BY <2>1, ChosenListed
  <2> QED  BY <2>2
<1> DEFINE t == g \o s
<1>5. /\ t \in Seq(Items) /\ Len(t) = n + Len(s)
      /\ \A k \in 1..(n + Len(s)) : t[k] = IF k <= n THEN g[k] ELSE s[k - n]
  BY <1>1, <1>4, ConcatProperties
<1>6. queue' \in Rebuilt([queue EXCEPT !.items = t])
  BY <1>3 DEF EnqueueQueues
<1>7. \A i \in 1..n, j \in 1..Len(s) : g[i] # s[j]
  <2>1. \A i \in 1..n : g[i] \in Held  BY <1>1 DEF Held
  <2> QED  BY <1>4, <2>1, Zenon
<1> HIDE DEF t
<1>8. [queue EXCEPT !.items = t] = Edited(queue, t, queue.index, queue.history)
  BY <1>1 DEF IsQueue, Edited
<1>9. Formed(queue') /\ queue'.items = t /\ queue'.index = x
  <2>1. x \in 0..Len(t) /\ t \in Seq(Items) /\ Formed(queue)  BY <1>1, <1>4, <1>5
  <2>2. queue' \in Rebuilt(Edited(queue, t, x, queue.history))
    BY <1>6, <1>8, Zenon
  <2> QED  BY <2>1, <2>2, EditFormed
<1>10. Distinct(queue')
  <2> HIDE DEF g, n, x
  <2>1. \A i, j \in 1..(n + Len(s)) : t[i] = t[j] => i = j
    <3> DEFINE m == Len(s)
    <3>1. /\ n \in Nat /\ m \in Nat
          /\ \A k \in 1..(n + m) : t[k] = IF k <= n THEN g[k] ELSE s[k - n]
          /\ \A i, j \in 1..n : g[i] = g[j] => i = j
          /\ \A i, j \in 1..m : s[i] = s[j] => i = j
          /\ \A i \in 1..n, j \in 1..m : g[i] # s[j]
      BY <1>1, <1>4, <1>5, <1>7
    <3> HIDE DEF m
    <3>2. \A i, j \in 1..(n + m) : t[i] = t[j] => i = j
      <4> TAKE i, j \in 1..(n + m)
      <4>1. CASE i <= n /\ j <= n  BY <3>1, <4>1
      <4>2. CASE i <= n /\ ~(j <= n)
        <5>1. j - n \in 1..m /\ i \in 1..n  BY <3>1, <4>2
        <5> QED  BY <3>1, <4>2, <5>1
      <4>3. CASE ~(i <= n) /\ j <= n
        <5>1. i - n \in 1..m /\ j \in 1..n  BY <3>1, <4>3
        <5> QED  BY <3>1, <4>3, <5>1
      <4>4. CASE ~(i <= n) /\ ~(j <= n)
        <5>1. i - n \in 1..m /\ j - n \in 1..m  BY <3>1, <4>4
        <5>2. t[i] = s[i - n] /\ t[j] = s[j - n]  BY <3>1, <4>4
        <5>3. t[i] = t[j] => i - n = j - n  BY <3>1, <5>1, <5>2
        <5> QED  BY <3>1, <5>3
      <4> QED  BY <4>1, <4>2, <4>3, <4>4
    <3> QED  BY <3>2 DEF m
  <2>2. DOMAIN t = 1..(n + Len(s))  BY <1>5
  <2> QED  BY <1>9, <2>1, <2>2, Zenon DEF Distinct
<1>11. CursorKept
  <2>1. x # 0 => t[x] = g[x]
    <3>1. x # 0 => x \in 1..(n + Len(s)) /\ x <= n  BY <1>1, <1>4
    <3> QED  BY <1>5, <3>1
  <2> QED  BY <1>1, <1>9, <2>1, SameItem
<1> QED  BY <1>9, <1>10, <1>11

(* A removal before the cursor takes it along, one at the cursor takes the *)
(* item away.                                                              *)
LEMMA RemoveItemSound ==
  ASSUME Sound, RemoveItem
  PROVE  Formed(queue') /\ Distinct(queue') /\ CursorKept
<1> DEFINE g == queue.items
           n == Len(g)
           x == queue.index
<1>1. /\ g \in Seq(Items) /\ n \in Nat /\ x \in 0..n /\ Positions(queue) = 1..n
      /\ IsQueue(queue) /\ Formed(queue)
      /\ \A i, j \in 1..n : g[i] = g[j] => i = j
  BY Shape DEF Sound, Distinct
<1>2. PICK i \in 1..n : queue' \in RemoveAtQueues(queue, i)
  BY <1>1 DEF RemoveItem
<1> DEFINE t == RemoveAt(g, i)
           y == CursorAfterRemoval(queue, i)
           h == HistoryAfterRemoval(queue, i)
<1>3. t \in Seq(Items) /\ Len(t) = n - 1
  BY <1>1, RemovedListed
<1>4. \A k \in 1..(n - 1) : t[k] = IF k < i THEN g[k] ELSE g[k + 1]
  <2>1. g \in Seq(Items) /\ i \in 1..Len(g)  BY <1>1
  <2> HIDE DEF g
  <2> QED  BY <2>1, RemovedItems
<1>5. y \in 0..(n - 1)
  BY <1>1 DEF CursorAfterRemoval
<1>6. y = IF i < x THEN x - 1 ELSE IF i = x /\ i = n THEN i - 1 ELSE x
  BY <1>1 DEF CursorAfterRemoval
<1>7. queue' \in Rebuilt(Edited(queue, t, y, h))
  BY <1>2 DEF RemoveAtQueues, Edited
<1> HIDE DEF t, y, h
<1>8. Formed(queue') /\ queue'.items = t /\ queue'.index = y
  <2>1. y \in 0..Len(t) /\ t \in Seq(Items) /\ Formed(queue)  BY <1>1, <1>3, <1>5
  <2> QED  BY <1>7, <2>1, EditFormed
<1>9. DOMAIN t = 1..(n - 1)  BY <1>1, <1>3
<1>10. Distinct(queue')
  <2> HIDE DEF g, n, x
  <2>1. \A k, l \in 1..(n - 1) : t[k] = t[l] => k = l
    <3> TAKE k, l \in 1..(n - 1)
    <3>1. /\ k \in 1..n /\ l \in 1..n /\ k + 1 \in 1..n /\ l + 1 \in 1..n
      BY <1>1
    <3> QED  BY <1>1, <1>4, <3>1
  <2> QED  BY <1>8, <1>9, <2>1, Zenon DEF Distinct
<1>11. CursorKept
  <2>1. CASE i = x
    <3>1. Current(queue) = g[i]  BY <1>1, <2>1 DEF Current
    <3>2. Held' = {t[k] : k \in 1..(n - 1)}
      BY <1>8, <1>9 DEF Held, Positions
    <3>3. \A k \in 1..(n - 1) : t[k] # g[i]
      <4> HIDE DEF g, n, x
      <4> TAKE k \in 1..(n - 1)
      <4>1. k \in 1..n /\ k + 1 \in 1..n  BY <1>1
      <4> QED  BY <1>1, <1>4, <4>1
    <3> QED  BY <3>1, <3>2, <3>3 DEF CursorKept
  <2>2. CASE i # x
    <3>1. x = 0 => y = 0  BY <1>1, <1>6, <2>2
    <3>2. x # 0 => y # 0 /\ t[y] = g[x]
      <4> HIDE DEF g, n, x
      <4> SUFFICES ASSUME x # 0 PROVE y # 0 /\ t[y] = g[x]
        OBVIOUS
      <4>1. CASE i < x
        <5>1. y = x - 1 /\ y \in 1..(n - 1) /\ ~(y < i) /\ y + 1 = x
          BY <1>1, <1>6, <4>1
        <5> QED  BY <1>4, <5>1
      <4>2. CASE x < i
        <5>1. y = x /\ y \in 1..(n - 1) /\ y < i  BY <1>1, <1>6, <4>2
        <5> QED  BY <1>4, <5>1
      <4> QED  BY <1>1, <2>2, <4>1, <4>2
    <3> QED  BY <1>1, <1>8, <3>1, <3>2, SameItem
  <2> QED  BY <2>1, <2>2
<1> QED  BY <1>8, <1>10, <1>11

(* The permutation of the positions that a move is, and its inverse.       *)
LEMMA RemapInverse ==
  ASSUME NEW n \in Nat, NEW from \in 1..n, NEW to \in 1..n, NEW k \in 1..n
  PROVE  /\ Remap(from, to, k) \in 1..n
         /\ Remap(from, to, Remap(to, from, k)) = k
         /\ Remap(to, from, Remap(from, to, k)) = k
BY DEF Remap

(* After a move every position holds the item that the inverse of the      *)
(* remapping names.                                                        *)
LEMMA MovedItems ==
  ASSUME NEW S, NEW s \in Seq(S), NEW from \in 1..Len(s), NEW to \in 1..Len(s),
         from # to
  PROVE  /\ InsertAt(RemoveAt(s, from), to, s[from]) \in Seq(S)
         /\ Len(InsertAt(RemoveAt(s, from), to, s[from])) = Len(s)
         /\ \A k \in 1..Len(s) :
              InsertAt(RemoveAt(s, from), to, s[from])[k] = s[Remap(to, from, k)]
<1> DEFINE n == Len(s)
           r == RemoveAt(s, from)
           e == s[from]
           t == InsertAt(r, to, e)
<1>1. n \in Nat /\ from \in 1..n /\ to \in 1..n /\ e \in S  OBVIOUS
<1>2. r \in Seq(S) /\ Len(r) = n - 1  BY RemovedListed
<1>3. \A k \in 1..(n - 1) : r[k] = IF k < from THEN s[k] ELSE s[k + 1]
  BY RemovedItems
<1> HIDE DEF n, r
<1>4. to \in 1..(Len(r) + 1) /\ Len(r) + 1 = n  BY <1>1, <1>2
<1> HIDE DEF e
<1>5. t \in Seq(S) /\ Len(t) = Len(r) + 1
  BY <1>1, <1>2, <1>4, InsertedListed
<1>6. \A k \in 1..(Len(r) + 1) :
        t[k] = IF k < to THEN r[k] ELSE IF k = to THEN e ELSE r[k - 1]
  BY <1>1, <1>2, <1>4, InsertedItems
<1> HIDE DEF t
<1>7. \A k \in 1..n : t[k] = IF k < to THEN r[k] ELSE IF k = to THEN e ELSE r[k - 1]
  BY <1>4, <1>6, Zenon
<1>8. \A k \in 1..n : t[k] = s[Remap(to, from, k)]
  <2> TAKE k \in 1..n
  <2>1. CASE k = to
    <3>1. Remap(to, from, k) = from /\ ~(k < to)  BY <1>1, <2>1 DEF Remap
    <3> QED  BY <1>7, <2>1, <3>1 DEF e
  <2>2. CASE k < to
    <3>1. t[k] = r[k] /\ k \in 1..(n - 1)  BY <1>1, <1>7, <2>2
    <3>2. CASE k < from
      <4>1. Remap(to, from, k) = k  BY <1>1, <2>2, <3>2 DEF Remap
      <4> QED  BY <1>3, <3>1, <3>2, <4>1
    <3>3. CASE ~(k < from)
      <4>1. Remap(to, from, k) = k + 1  BY <1>1, <2>2, <3>3 DEF Remap
      <4> QED  BY <1>3, <3>1, <3>3, <4>1
    <3> QED  BY <3>2, <3>3
  <2>3. CASE k > to
    <3>1. /\ t[k] = r[k - 1] /\ k - 1 \in 1..(n - 1) /\ k - 1 + 1 = k
      <4>1. ~(k < to) /\ k # to /\ k - 1 \in 1..(n - 1) /\ k - 1 + 1 = k
        BY <1>1, <2>3
      <4> QED  BY <1>7, <4>1
    <3>2. CASE k - 1 < from
      <4>1. Remap(to, from, k) = k - 1  BY <1>1, <2>3, <3>2 DEF Remap
      <4> QED  BY <1>3, <3>1, <3>2, <4>1
    <3>3. CASE ~(k - 1 < from)
      <4>1. Remap(to, from, k) = k  BY <1>1, <2>3, <3>3 DEF Remap
      <4> QED  BY <1>3, <3>1, <3>3, <4>1
    <3> QED  BY <3>2, <3>3
  <2> QED  BY <1>1, <2>1, <2>2, <2>3
<1>9. Len(t) = n  BY <1>4, <1>5
<1> QED  BY <1>5, <1>8, <1>9 DEF n, r, e, t

(* The cursor is remapped like the items.                                  *)
LEMMA MoveSound ==
  ASSUME Sound, Move
  PROVE  Formed(queue') /\ Distinct(queue') /\ CursorKept
<1> DEFINE g == queue.items
           n == Len(g)
           x == queue.index
<1>1. /\ g \in Seq(Items) /\ n \in Nat /\ x \in 0..n /\ Positions(queue) = 1..n
      /\ IsQueue(queue) /\ Formed(queue)
      /\ \A i, j \in 1..n : g[i] = g[j] => i = j
  BY Shape DEF Sound, Distinct
<1>2. PICK from \in 1..n, to \in 1..n :
        from # to /\ queue' \in MoveQueues(queue, from, to)
  BY <1>1 DEF Move
<1> DEFINE t == InsertAt(RemoveAt(g, from), to, g[from])
           y == Remap(from, to, x)
           h == [k \in DOMAIN queue.history |-> Remap(from, to, queue.history[k])]
<1>3. /\ t \in Seq(Items) /\ Len(t) = n
      /\ \A k \in 1..n : t[k] = g[Remap(to, from, k)]
  <2>1. g \in Seq(Items) /\ from \in 1..Len(g) /\ to \in 1..Len(g) /\ from # to
    BY <1>1, <1>2
  <2> HIDE DEF g
  <2> QED  BY <2>1, MovedItems
<1>4. queue' \in Rebuilt(Edited(queue, t, y, h))
  BY <1>1, <1>2 DEF MoveQueues, Edited, IsQueue
<1>5. /\ y \in 0..n /\ (x = 0 => y = 0)
      /\ x # 0 => y \in 1..n /\ Remap(to, from, y) = x
  BY <1>1 DEF Remap
<1> HIDE DEF t, y, h
<1>6. Formed(queue') /\ queue'.items = t /\ queue'.index = y
  <2>1. y \in 0..Len(t) /\ t \in Seq(Items) /\ Formed(queue)  BY <1>1, <1>3, <1>5
  <2> QED  BY <1>4, <2>1, EditFormed
<1>9. n \in Nat /\ from \in 1..n /\ to \in 1..n  BY <1>1
<1>7. Distinct(queue')
  <2> HIDE DEF g, n, x
  <2>1. \A k, l \in 1..n : t[k] = t[l] => k = l
    <3> TAKE k, l \in 1..n
    <3> HAVE t[k] = t[l]
    <3>1. Remap(to, from, k) \in 1..n /\ Remap(to, from, l) \in 1..n
      BY <1>9, RemapInverse
    <3>2. Remap(to, from, k) = Remap(to, from, l)
      BY <1>1, <1>3, <3>1
    <3>3. Remap(from, to, Remap(to, from, k)) = k
      BY <1>9, RemapInverse, Zenon
    <3>4. Remap(from, to, Remap(to, from, l)) = l
      BY <1>9, RemapInverse, Zenon
    <3> QED  BY <3>2, <3>3, <3>4, Zenon
  <2>2. DOMAIN t = 1..n  BY <1>3
  <2> QED  BY <1>6, <2>1, <2>2, Zenon DEF Distinct
<1>8. CursorKept
  <2>1. x # 0 => y # 0 /\ t[y] = g[x]
    BY <1>3, <1>5
  <2> QED  BY <1>1, <1>5, <1>6, <2>1, SameItem
<1> QED  BY <1>6, <1>7, <1>8

(* Every step: what it preserves, and what an edit leaves of the cursor.   *)
Kept == queue'.items = queue.items \/ PlaySequence \/ CursorKept

(* One case for each action.                                               *)
LEMMA StepSound ==
  ASSUME Sound, [Next]_vars
  PROVE  Formed(queue') /\ Distinct(queue') /\ Kept
<1> DEFINE n == Len(queue.items)
<1>1. /\ queue.items \in Seq(Items) /\ n \in Nat /\ queue.index \in 0..n
      /\ Positions(queue) = 1..n /\ IsQueue(queue) /\ Formed(queue)
  BY Shape DEF Sound
<1>2. Formed(queue') /\ queue'.items = queue.items =>
        Formed(queue') /\ Distinct(queue') /\ Kept
  BY DEF Sound, Distinct, Kept
<1>3. CASE SetRepeat
  <2>1. PICK mode \in RepeatMode : queue' = [queue EXCEPT !.repeat = mode]
    BY <1>3 DEF SetRepeat, SetRepeatQueue
  <2>2. /\ queue'.items = queue.items /\ queue'.index = queue.index
        /\ queue'.shuffling = queue.shuffling /\ queue'.order = queue.order
        /\ queue'.repeat = mode /\ IsQueue(queue')
    BY <1>1, <2>1 DEF IsQueue
  <2> QED  BY <1>1, <1>2, <2>2 DEF Formed, Listed, Ordered
<1>4. CASE SetShuffle
  <2>1. PICK on \in BOOLEAN : queue' \in SetShuffleQueues(queue, on)
    BY <1>4 DEF SetShuffle
  <2> DEFINE e == [queue EXCEPT !.shuffling = on, !.history = <<>>]
  <2>2. queue' = queue \/ queue' \in Rebuilt(e)
    BY <2>1 DEF SetShuffleQueues
  <2>3. e = [items |-> queue.items, index |-> queue.index, order |-> queue.order,
             history |-> <<>>, repeat |-> queue.repeat, shuffling |-> on]
    <3> DEFINE a == [queue EXCEPT !.shuffling = on]
    <3>1. a = [items |-> queue.items, index |-> queue.index, order |-> queue.order,
               history |-> queue.history, repeat |-> queue.repeat, shuffling |-> on]
      BY <1>1 DEF IsQueue
    <3> HIDE DEF a
    <3>2. [a EXCEPT !.history = <<>>] =
            [items |-> queue.items, index |-> queue.index, order |-> queue.order,
             history |-> <<>>, repeat |-> queue.repeat, shuffling |-> on]
      BY <3>1
    <3> QED  BY <3>2, Zenon DEF a
  <2> HIDE DEF e
  <2>4. /\ e.items = queue.items /\ e.index = queue.index /\ e.repeat = queue.repeat
        /\ e.shuffling = on /\ IsQueue(e)
    BY <2>3 DEF IsQueue
  <2>5. Listed(e)  BY <1>1, <2>4 DEF Formed, Listed
  <2> QED  BY <1>1, <1>2, <2>2, <2>4, <2>5, RebuiltFormed
<1>5. CASE PlaySequence
  <2>1. PICK S \in SUBSET Items : \E s \in SetToSeqs(S), start \in 1..Cardinality(S) :
          queue' \in PlaySequenceQueues(queue, s, start)
    BY <1>5 DEF PlaySequence
  <2>2. PICK s \in SetToSeqs(S), start \in 1..Cardinality(S) :
          queue' \in PlaySequenceQueues(queue, s, start)
    BY <2>1
  <2>3. /\ s \in Seq(Items) /\ start \in 0..Len(s)
        /\ \A i, j \in 1..Len(s) : s[i] = s[j] => i = j
    BY ChosenListed
  <2>4. queue' \in Rebuilt(Edited(queue, s, start, <<>>))
    BY <2>2 DEF PlaySequenceQueues, Edited
  <2>5. Formed(queue') /\ queue'.items = s
    BY <1>1, <2>3, <2>4, EditFormed
  <2>6. Distinct(queue')
    BY <2>3, <2>5 DEF Distinct
  <2> QED  BY <1>5, <2>5, <2>6 DEF Kept
<1>6. CASE PlayNext
  BY <1>6, PlayNextSound DEF Kept
<1>7. CASE Enqueue
  BY <1>7, EnqueueSound DEF Kept
<1>8. CASE Advance
  BY <1>1, <1>2, <1>8, NextLandingsFormed DEF Advance
<1>9. CASE Back
  BY <1>1, <1>2, <1>9, PreviousLandingFormed DEF Back
<1>10. CASE MoveTo
  <2>1. PICK i \in 1..n : queue' = [queue EXCEPT !.index = i]
    BY <1>1, <1>10 DEF MoveTo, MoveToQueue
  <2>2. /\ queue'.items = queue.items /\ queue'.repeat = queue.repeat
        /\ queue'.shuffling = queue.shuffling /\ queue'.order = queue.order
        /\ queue'.index = i /\ IsQueue(queue')
    BY <1>1, <2>1 DEF IsQueue
  <2>3. Formed(queue')
    BY <1>1, <2>2 DEF Formed, Listed, Ordered
  <2> QED  BY <1>2, <2>2, <2>3
<1>11. CASE Move
  BY <1>11, MoveSound DEF Kept
<1>12. CASE RemoveItem
  BY <1>12, RemoveItemSound DEF Kept
<1>13. CASE Clear
  <2>1. /\ queue'.items = <<>> /\ queue'.repeat = queue.repeat /\ queue'.order = <<>>
        /\ queue'.shuffling = queue.shuffling /\ queue'.index = 0 /\ IsQueue(queue')
    BY <1>1, <1>13 DEF Clear, ClearQueue, IsQueue
  <2>2. /\ <<>> \in Seq(Items) /\ Len(<<>>) = 0
        /\ Permutes(<<>>, <<>>)
    BY DEF Permutes
  <2>3. Formed(queue')
    BY <1>1, <2>1, <2>2 DEF Formed, Listed, Ordered
  <2>4. Distinct(queue') /\ Held' = {}
    BY <2>1 DEF Distinct, Held, Positions
  <2> QED  BY <2>3, <2>4 DEF Kept, CursorKept
<1>14. CASE UNCHANGED vars
  BY <1>1, <1>2, <1>14 DEF vars
<1> QED  BY <1>3, <1>4, <1>5, <1>6, <1>7, <1>8, <1>9, <1>10, <1>11, <1>12, <1>13,
            <1>14 DEF Next

(* In every reachable state.                                               *)
LEMMA AlwaysSound == Spec => []Sound
<1>1. Init => Sound
  BY DEF Init, EmptyQueue, Sound, Formed, Distinct, Listed, IsQueue, Ordered, RepeatMode
<1>2. Sound /\ [Next]_vars => Sound'
  BY StepSound DEF Sound
<1> QED  BY <1>1, <1>2, PTL DEF Spec

-----------------------------------------------------------------------------
(* The theorems.                                                           *)

(* While shuffling, the presentation order visits every position of the    *)
(* list exactly once, after any sequence of edits and navigation; without  *)
(* shuffling there is none (rebuildOrder in queue.ts).                     *)
THEOREM PresentationIsComplete == Spec => []OrderVisitsAll
<1>1. Formed(queue) => OrderVisitsAll
  <2> SUFFICES ASSUME Formed(queue) PROVE OrderVisitsAll
    OBVIOUS
  <2>1. CASE ~queue.shuffling
    BY <2>1 DEF Formed, Ordered, OrderVisitsAll
  <2>2. CASE queue.shuffling
    <3> DEFINE n == Len(queue.items)
               o == queue.order
    <3>1. n \in Nat /\ DOMAIN queue.items = 1..n
      BY DEF Formed, Listed
    <3>2. o \in [1..n -> 1..n] /\ \A i, j \in 1..n : o[i] = o[j] => i = j
      BY <2>2, <3>1 DEF Formed, Ordered, Permutes
    <3> HIDE DEF n, o
    <3>3. Len(o) = n /\ DOMAIN o = 1..n
      BY <3>1, <3>2, FunctionIsSequence
    <3> USE DEF n, o
    <3> QED  BY <2>2, <3>2, <3>3, Zenon DEF OrderVisitsAll
  <2> QED  BY <2>1, <2>2
<1>2. Sound => Formed(queue)  BY DEF Sound
<1> QED  BY <1>1, <1>2, AlwaysSound, PTL

(* Outside the wrap of a shuffled pass, the item the player opens ahead of *)
(* a boundary (peekPreloadTarget in player.ts) is the one next() lands on  *)
(* (queue.ts), in every policy and after any edits.                        *)
THEOREM PreloadFollowsQueue == Spec => []PreloadIsWhatFollows
<1>1. Formed(queue) => PreloadIsWhatFollows
  <2> SUFFICES ASSUME Formed(queue), ~ShuffledWrap,
                      NEW l \in NextLandings(queue)
               PROVE  l.item = PreloadTarget(queue)
    BY DEF PreloadIsWhatFollows, PreloadAgrees
  <2>1. CASE queue.items = <<>>
    <3>1. l.item = "none"
      BY <2>1 DEF NextLandings, Landing
    <3>2. queue.index = 0 /\ Len(queue.items) = 0 /\ DOMAIN queue.items = {}
      BY <2>1 DEF Formed, Listed
    <3>3. NextUnderRepeat(queue) = 0
      BY <2>1, <3>2 DEF NextUnderRepeat
    <3>4. ShuffledNext(queue) = 0
      <4>1. Len(queue.items) = 0 /\ ShuffledNext(queue) \in 0..Len(queue.items)
        BY <3>2, NextIsPosition
      <4> QED  BY <4>1
    <3>5. PreloadPosition(queue) = 0
      BY <3>3, <3>4 DEF PreloadPosition, ShuffledWrap
    <3> QED  BY <3>1, <3>5 DEF PreloadTarget
  <2>2. CASE queue.items # <<>>
    <3> DEFINE p == [queue EXCEPT !.history = Pushed(queue)]
    <3>1. p.items = queue.items
      BY HistoryFormed
    <3>2. IF queue.shuffling THEN l = Landing(p, ShuffledNext(queue))
                             ELSE l = Landing(p, NextUnderRepeat(queue))
      BY <2>2 DEF NextLandings, ShuffledWrap
    <3>3. PreloadPosition(queue) = IF queue.shuffling THEN ShuffledNext(queue)
                                                      ELSE NextUnderRepeat(queue)
      BY DEF PreloadPosition, ShuffledWrap
    <3> HIDE DEF p
    <3>4. l = Landing(p, PreloadPosition(queue))
      BY <3>2, <3>3
    <3> QED  BY <3>1, <3>4 DEF Landing, PreloadTarget
  <2> QED  BY <2>1, <2>2
<1>2. Sound => Formed(queue)  BY DEF Sound
<1> QED  BY <1>1, <1>2, AlwaysSound, PTL

(* No edit of the list changes what the cursor is on: after a reorder, an  *)
(* insertion, an append or a removal it is on the item it was on, unless   *)
(* that item went or a new sequence was installed (the index arithmetic of *)
(* playNext, move and removeAt in queue.ts).                               *)
THEOREM CursorFollowsItem == Spec => CursorKeepsItem
<1>1. Sound /\ [Next]_vars =>
        (queue'.items # queue.items /\ Current(queue) \in Held' =>
           Current(queue') = Current(queue) \/ PlaySequence)
  BY StepSound DEF Kept, CursorKept
<1> QED  BY <1>1, AlwaysSound, PTL DEF Spec, CursorKeepsItem
=============================================================================
