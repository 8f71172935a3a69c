-------------------------- MODULE EventList_proofs ------------------------
(***************************************************************************)
(* What vListInsert() and uxListRemove() do to an event list, for any list *)
(* and ranks: the facts that the proofs of the mutexes and queues share.   *)
(***************************************************************************)
EXTENDS EventList, FiniteSetTheorems, SequenceTheorems, TLAPS

\* No task is twice in a list, and none is behind one of a lower rank.
Once(list) == \A i, j \in 1..Len(list) : i < j => list[i] # list[j]
Ordered(list, rank) == \A i, j \in 1..Len(list) : i < j => rank[list[i]] >= rank[list[j]]

\* What vListInsert() leaves: the old list and the task in its place.
LEMMA InsertElements ==
  ASSUME NEW S, NEW list \in Seq(S), NEW t \in S, NEW rank
  PROVE  /\ Insert(list, t, rank) \in Seq(S)
         /\ Len(Insert(list, t, rank)) = Len(list) + 1
         /\ \A i \in 1..(Len(list) + 1) :
              Insert(list, t, rank)[i] \in {list[j] : j \in 1..Len(list)} \cup {t}
<1> DEFINE Passed(i) == i <= Len(list) /\ \A j \in 1..i : rank[list[j]] >= rank[t]
           new == [i \in 1..(Len(list) + 1) |-> IF Passed(i) THEN list[i]
                                   ELSE IF Passed(i - 1) THEN t ELSE list[i - 1]]
<1>1. Insert(list, t, rank) = new
  BY DEF Insert
<1>2. Len(list) \in Nat /\ Passed(0)
  OBVIOUS
<1> HIDE DEF Passed
<1>3. ASSUME NEW i \in 1..(Len(list) + 1)
      PROVE  new[i] \in {list[j] : j \in 1..Len(list)} \cup {t}
  <2>1. CASE Passed(i)
    BY <1>2, <2>1 DEF Passed
  <2>2. CASE ~Passed(i)
    BY <1>2, <2>2
  <2> QED BY <2>1, <2>2
<1>4. \A j \in 1..Len(list) : list[j] \in S
  OBVIOUS
<1>5. \A i \in 1..(Len(list) + 1) : new[i] \in S
  BY <1>3, <1>4
<1>6. new \in Seq(S) /\ Len(new) = Len(list) + 1
  BY <1>2, <1>5
<1> QED BY <1>1, <1>3, <1>6

\* A list stays ordered: the old tasks in their order, the new one in its place.
LEMMA InsertOrdered ==
  ASSUME NEW S, NEW list \in Seq(S), NEW t \in S, NEW rank \in [S -> Nat], Ordered(list, rank)
  PROVE  Ordered(Insert(list, t, rank), rank)
<1> DEFINE Passed(k) == k <= Len(list) /\ \A l \in 1..k : rank[list[l]] >= rank[t]
           new == [k \in 1..(Len(list) + 1) |-> IF Passed(k) THEN list[k]
                                   ELSE IF Passed(k - 1) THEN t ELSE list[k - 1]]
<1>0. Insert(list, t, rank) = new /\ Len(Insert(list, t, rank)) = Len(list) + 1
  BY InsertElements DEF Insert
<1> SUFFICES ASSUME NEW i \in 1..(Len(list) + 1), NEW j \in 1..(Len(list) + 1), i < j
             PROVE  rank[new[i]] >= rank[new[j]]
  BY <1>0 DEF Ordered
<1>2. Len(list) \in Nat /\ Passed(0) /\ i \in Nat /\ j \in Nat /\ i \in 1..Len(list)
  OBVIOUS
<1>3. \A k \in 1..Len(list) : list[k] \in S /\ rank[list[k]] \in Nat
  OBVIOUS
<1>4. \A k, l \in Nat : k <= l /\ Passed(l) => Passed(k)
  BY <1>2
<1>5. \A k \in 1..Len(list) : Passed(k) => rank[list[k]] >= rank[t]
  OBVIOUS
<1>6. \A k \in 1..Len(list), l \in 1..Len(list) : ~Passed(k) /\ k <= l => rank[t] >= rank[list[l]]
  <2> SUFFICES ASSUME NEW k \in 1..Len(list), NEW l \in 1..Len(list), ~Passed(k), k <= l
               PROVE  rank[t] >= rank[list[l]]
    OBVIOUS
  <2>1. PICK q \in 1..k : ~(rank[list[q]] >= rank[t])
    OBVIOUS
  <2>2. q \in 1..Len(list) /\ q <= l /\ rank[list[q]] < rank[t]
    BY <1>2, <1>3, <2>1, SMTT(30)
  <2>3. rank[list[q]] >= rank[list[l]]
    BY <1>3, <2>2 DEF Ordered
  <2> QED BY <1>3, <2>2, <2>3, SMTT(30)
<1> HIDE DEF Passed
<1>7. CASE Passed(j)
  BY <1>2, <1>4, <1>7 DEF Passed, Ordered
<1>8. CASE ~Passed(j) /\ Passed(j - 1)
  <2>1. Passed(i) /\ new[j] = t /\ new[i] = list[i]
    BY <1>2, <1>4, <1>8
  <2> QED BY <1>2, <1>5, <2>1
<1>9. CASE ~Passed(j - 1)
  <2>1. ~Passed(j) /\ new[j] = list[j - 1] /\ j - 1 \in 1..Len(list)
    BY <1>2, <1>4, <1>9
  <2>2. CASE Passed(i)
    <3>1. i < j - 1 /\ new[i] = list[i]
      BY <1>2, <1>9, <2>2
    <3> QED BY <1>2, <2>1, <3>1 DEF Ordered
  <2>3. CASE ~Passed(i) /\ Passed(i - 1)
    <3>1. new[i] = t /\ rank[t] >= rank[list[j - 1]]
      BY <1>2, <1>6, <2>1, <2>3
    <3> QED BY <2>1, <3>1 DEF Ordered
  <2>4. CASE ~Passed(i - 1)
    <3>1. i # 1 /\ ~Passed(i) /\ new[i] = list[i - 1] /\ i - 1 \in 1..Len(list) /\ i - 1 < j - 1
      BY <1>2, <1>4, <2>4
    <3> QED BY <2>1, <3>1 DEF Ordered
  <2> QED BY <2>2, <2>3, <2>4
<1> QED BY <1>7, <1>8, <1>9

LEMMA InsertOnce ==
  ASSUME NEW S, NEW list \in Seq(S), NEW t \in S, NEW rank,
         Once(list), \A i \in 1..Len(list) : list[i] # t
  PROVE  Once(Insert(list, t, rank))
<1> DEFINE Passed(k) == k <= Len(list) /\ \A l \in 1..k : rank[list[l]] >= rank[t]
           new == [k \in 1..(Len(list) + 1) |-> IF Passed(k) THEN list[k]
                                   ELSE IF Passed(k - 1) THEN t ELSE list[k - 1]]
<1>1. Insert(list, t, rank) = new /\ Len(Insert(list, t, rank)) = Len(list) + 1
  BY InsertElements DEF Insert
<1>2. Len(list) \in Nat /\ Passed(0) /\ (\A k : Passed(k) => k <= Len(list))
  OBVIOUS
<1>4. \A k, l \in Nat : k <= l /\ Passed(l) => Passed(k)
  BY <1>2
<1> HIDE DEF Passed
<1>5. ASSUME NEW i \in 1..(Len(list) + 1), NEW j \in 1..(Len(list) + 1), i < j
      PROVE  new[i] # new[j]
  <2>1. CASE Passed(j)
    BY <1>2, <1>4, <1>5, <2>1 DEF Once
  <2>2. CASE ~Passed(j) /\ Passed(j - 1)
    BY <1>2, <1>4, <1>5, <2>2
  <2>3. CASE ~Passed(j - 1)
    <3>1. new[j] = list[j - 1] /\ j - 1 \in 1..Len(list)
      BY <1>2, <1>4, <1>5, <2>3
    <3>2. CASE Passed(i)
      <4>1. i < j - 1 /\ new[i] = list[i] /\ i \in 1..Len(list)
        BY <1>2, <1>5, <2>3, <3>2
      <4> QED BY <3>1, <4>1 DEF Once
    <3>3. CASE ~Passed(i) /\ Passed(i - 1)
      BY <3>1, <3>3
    <3>4. CASE ~Passed(i) /\ ~Passed(i - 1)
      <4>1. new[i] = list[i - 1] /\ i - 1 \in 1..Len(list) /\ i - 1 < j - 1
        BY <1>2, <1>5, <3>4
      <4> QED BY <3>1, <4>1 DEF Once
    <3> QED BY <3>2, <3>3, <3>4
  <2> QED BY <2>1, <2>2, <2>3
<1> QED BY <1>1, <1>5 DEF Once

\* What uxListRemove() leaves: the places of the old list that it keeps, in order.
LEMMA WithoutPlaces ==
  ASSUME NEW S, NEW list \in Seq(S), NEW t
  PROVE  /\ Without(list, t) \in Seq(S) /\ Len(Without(list, t)) <= Len(list)
         /\ \E f \in [1..Len(Without(list, t)) -> 1..Len(list)] :
              /\ \A i \in 1..Len(Without(list, t)) : Without(list, t)[i] = list[f[i]]
              /\ \A i, j \in 1..Len(Without(list, t)) : i < j => f[i] < f[j]
              /\ Once(list) => \A i \in 1..Len(Without(list, t)) : list[f[i]] # t
<1> DEFINE Gone(i) == \E j \in 1..i : list[j] = t
           n == IF Gone(Len(list)) THEN Len(list) - 1 ELSE Len(list)
           from(i) == IF Gone(i) THEN i + 1 ELSE i
           new == [i \in 1..n |-> IF Gone(i) THEN list[i + 1] ELSE list[i]]
<1>1. Without(list, t) = new
  BY DEF Without
<1>2. Len(list) \in Nat /\ ~Gone(0)
  OBVIOUS
<1>3. \A k, l \in Nat : k <= l /\ Gone(k) => Gone(l)
  OBVIOUS
<1> HIDE DEF Gone
<1>4. n \in Nat /\ n <= Len(list) /\ n >= Len(list) - 1
  BY <1>2
<1>5. \A i \in 1..n : from(i) \in 1..Len(list)
  BY <1>2, <1>3
<1>6. \A i, j \in 1..n : i < j => from(i) < from(j)
  BY <1>3, <1>4
<1>0. Once(list) => \A i \in 1..n : list[from(i)] # t
  BY <1>2, <1>4, <1>5 DEF Once, Gone
<1> HIDE DEF n
<1>7. \A i \in 1..n : new[i] = list[from(i)]
  OBVIOUS
<1>8. new \in Seq(S) /\ Len(new) = n
  BY <1>4, <1>5
<1> DEFINE f == [i \in 1..n |-> from(i)]
<1>9. /\ f \in [1..n -> 1..Len(list)]
      /\ \A i \in 1..n : new[i] = list[f[i]]
      /\ \A i, j \in 1..n : i < j => f[i] < f[j]
      /\ Once(list) => \A i \in 1..n : list[f[i]] # t
  BY <1>0, <1>5, <1>6, <1>7
<1> HIDE DEF new, from, f
<1> QED BY <1>1, <1>4, <1>8, <1>9

LEMMA WithoutOnce ==
  ASSUME NEW S, NEW list \in Seq(S), NEW t, Once(list)
  PROVE  /\ Without(list, t) \in Seq(S) /\ Once(Without(list, t))
         /\ Len(Without(list, t)) <= Len(list)
         /\ \A i \in 1..Len(Without(list, t)) :
              Without(list, t)[i] # t /\ \E k \in 1..Len(list) : Without(list, t)[i] = list[k]
<1> DEFINE new == Without(list, t)
<1>1. new \in Seq(S) /\ Len(new) <= Len(list) /\ Len(new) \in Nat
  BY WithoutPlaces
<1>2. PICK f \in [1..Len(new) -> 1..Len(list)] :
        /\ \A i \in 1..Len(new) : new[i] = list[f[i]]
        /\ \A i, j \in 1..Len(new) : i < j => f[i] < f[j]
        /\ \A i \in 1..Len(new) : list[f[i]] # t
  BY WithoutPlaces
<1> HIDE DEF new
<1>3. Once(new)
  <2> SUFFICES ASSUME NEW i \in 1..Len(new), NEW j \in 1..Len(new), i < j
               PROVE  new[i] # new[j]
    BY <1>1 DEF Once
  <2>1. f[i] \in 1..Len(list) /\ f[j] \in 1..Len(list) /\ f[i] < f[j]
    BY <1>2
  <2>2. list[f[i]] # list[f[j]]
    BY <2>1 DEF Once
  <2> QED BY <1>2, <2>2
<1>4. \A i \in 1..Len(new) : new[i] # t /\ \E k \in 1..Len(list) : new[i] = list[k]
  BY <1>1, <1>2
<1> QED BY <1>1, <1>3, <1>4 DEF new

LEMMA WithoutList ==
  ASSUME NEW S, NEW list \in Seq(S), NEW t, NEW rank \in [S -> Nat]
  PROVE  /\ Without(list, t) \in Seq(S)
         /\ \A i \in 1..Len(Without(list, t)) : \E k \in 1..Len(list) : Without(list, t)[i] = list[k]
         /\ Once(list) => Once(Without(list, t))
         /\ Ordered(list, rank) => Ordered(Without(list, t), rank)
<1> DEFINE new == Without(list, t)
<1>1. new \in Seq(S) /\ Len(new) \in Nat
  BY WithoutPlaces
<1>2. PICK f \in [1..Len(new) -> 1..Len(list)] :
        /\ \A i \in 1..Len(new) : new[i] = list[f[i]]
        /\ \A i, j \in 1..Len(new) : i < j => f[i] < f[j]
  BY WithoutPlaces
<1> HIDE DEF new
<1>3. Once(list) => Once(new)
  <2> SUFFICES ASSUME Once(list), NEW i \in 1..Len(new), NEW j \in 1..Len(new), i < j
               PROVE  new[i] # new[j]
    BY <1>1 DEF Once
  <2>1. f[i] \in 1..Len(list) /\ f[j] \in 1..Len(list) /\ f[i] < f[j]
    BY <1>2
  <2>2. list[f[i]] # list[f[j]]
    BY <2>1 DEF Once
  <2> QED BY <1>2, <2>2
<1>4. Ordered(list, rank) => Ordered(new, rank)
  BY <1>1, <1>2 DEF Ordered
<1>5. \A i \in 1..Len(new) : \E k \in 1..Len(list) : new[i] = list[k]
  BY <1>1, <1>2
<1> QED BY <1>1, <1>3, <1>4, <1>5 DEF new
=============================================================================
