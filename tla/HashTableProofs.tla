-------------------------- MODULE HashTableProofs --------------------------
(***************************************************************************)
(* A Null bucket is always left in the table, for every set of keys, every *)
(* hash function and every initial capacity of at least 4, whatever the    *)
(* order of insertions, deletions and unmark_alls.  The argument is the    *)
(* load factor: `used' bounds the occupied buckets and stays below the     *)
(* capacity, because a table that reaches the watermark is doubled before  *)
(* anything is stored in it.                                               *)
(***************************************************************************)
EXTENDS HashTable, FiniteSetTheorems, TLAPS

-----------------------------------------------------------------------------
(* Lemmas about the operators *)

\* The watermark test of hashtable_insert divides integers: below 70 the
\* quotient gives the bound without rounding.
LEMMA DivBound ==
  ASSUME NEW a \in Nat, NEW b \in Nat, b > 0, NEW c \in Nat, a \div b < c
  PROVE  a < b * c
BY SMTT(30)

\* The occupied buckets of a table form a finite set no larger than it.
LEMMA OccupiedFinite ==
  ASSUME NEW n \in Nat, NEW b \in [0..(n - 1) -> Slots]
  PROVE  /\ IsFiniteSet(Occupied(b))
         /\ Cardinality(Occupied(b)) \in Nat
         /\ Cardinality(Occupied(b)) <= n
         /\ IsFiniteSet(0..(n - 1))
         /\ Cardinality(0..(n - 1)) = n
<1>1. IsFiniteSet(0..(n - 1)) /\ Cardinality(0..(n - 1)) = n
  BY FS_Interval
<1>2. Occupied(b) \subseteq 0..(n - 1)
  BY DEF Occupied
<1> QED
  BY <1>1, <1>2, FS_Subset, FS_CardinalityType

\* A table with fewer occupied buckets than buckets has a Null one.
LEMMA NullBucketExists ==
  ASSUME NEW n \in Nat, NEW b \in [0..(n - 1) -> Slots],
         Cardinality(Occupied(b)) < n
  PROVE  \E i \in DOMAIN b : b[i] = Null
<1>1. SUFFICES ASSUME \A i \in DOMAIN b : b[i] # Null
               PROVE  FALSE
  OBVIOUS
<1>2. Occupied(b) = 0..(n - 1)
  BY <1>1 DEF Occupied
<1> QED
  BY <1>2, OccupiedFinite

\* Filling one bucket raises the number of occupied buckets by at most one,
\* and not at all when the bucket was occupied.
LEMMA FillBucket ==
  ASSUME NEW n \in Nat, NEW b \in [0..(n - 1) -> Slots],
         NEW j \in 0..(n - 1), NEW e \in Slots
  PROVE  /\ [b EXCEPT ![j] = e] \in [0..(n - 1) -> Slots]
         /\ Cardinality(Occupied([b EXCEPT ![j] = e]))
              <= Cardinality(Occupied(b)) + 1
         /\ b[j] # Null =>
              Cardinality(Occupied([b EXCEPT ![j] = e]))
                <= Cardinality(Occupied(b))
<1> DEFINE c == [b EXCEPT ![j] = e]
<1>1. c \in [0..(n - 1) -> Slots]
  OBVIOUS
<1>2. Occupied(c) \subseteq Occupied(b) \cup {j}
  BY DEF Occupied
<1>3. /\ IsFiniteSet(Occupied(b) \cup {j})
      /\ Cardinality(Occupied(b) \cup {j}) =
           IF j \in Occupied(b) THEN Cardinality(Occupied(b))
                                ELSE Cardinality(Occupied(b)) + 1
  BY OccupiedFinite, FS_AddElement
<1>4. Cardinality(Occupied(c)) <= Cardinality(Occupied(b) \cup {j})
  BY <1>2, <1>3, FS_Subset
<1>5. Cardinality(Occupied(b)) \in Nat /\ Cardinality(Occupied(c)) \in Nat
  BY <1>1, OccupiedFinite
<1>6. b[j] # Null => j \in Occupied(b)
  BY DEF Occupied
<1> QED
  BY <1>1, <1>3, <1>4, <1>5, <1>6

\* The live buckets below a bound, and what passing one more adds to them.
LEMMA LiveBeforeCount ==
  ASSUME NEW n \in Nat, NEW b \in [0..(n - 1) -> Slots], NEW c \in 0..n
  PROVE  /\ Cardinality(LiveBefore(b, c)) \in Nat
         /\ Cardinality(LiveBefore(b, c)) <= n
         /\ Cardinality(LiveBefore(b, c)) <= Cardinality(Occupied(b))
         /\ c < n => Cardinality(LiveBefore(b, c + 1)) =
              IF Live(b, c) THEN Cardinality(LiveBefore(b, c)) + 1
                            ELSE Cardinality(LiveBefore(b, c))
<1>1. IsFiniteSet(0..(n - 1)) /\ Cardinality(0..(n - 1)) = n
  BY FS_Interval
<1>2. LiveBefore(b, c) \subseteq 0..(n - 1)
  BY DEF LiveBefore
<1>3. LiveBefore(b, c) \subseteq Occupied(b)
  BY DEF Live, LiveBefore, Occupied
<1>4. /\ IsFiniteSet(LiveBefore(b, c))
      /\ Cardinality(LiveBefore(b, c)) \in Nat
      /\ Cardinality(LiveBefore(b, c)) <= n
  BY <1>1, <1>2, FS_Subset, FS_CardinalityType
<1>5. Cardinality(LiveBefore(b, c)) <= Cardinality(Occupied(b))
  BY <1>3, OccupiedFinite, FS_Subset
<1>6. ASSUME c < n, Live(b, c)
      PROVE  Cardinality(LiveBefore(b, c + 1)) =
               Cardinality(LiveBefore(b, c)) + 1
  <2>1. LiveBefore(b, c + 1) = LiveBefore(b, c) \cup {c}
    BY <1>6 DEF LiveBefore
  <2>2. c \notin LiveBefore(b, c)
    BY DEF LiveBefore
  <2> QED
    BY <2>1, <2>2, <1>4, FS_AddElement
<1>7. ASSUME c < n, ~ Live(b, c)
      PROVE  LiveBefore(b, c + 1) = LiveBefore(b, c)
  BY <1>7 DEF LiveBefore
<1> QED
  BY <1>4, <1>5, <1>6, <1>7

-----------------------------------------------------------------------------
(* The inductive invariant *)

IInv == TypeOK /\ LoadInv

\* The table starts empty.
LEMMA InitIInv == Init => IInv
<1> SUFFICES ASSUME Init PROVE IInv
  OBVIOUS
<1>1. Occupied(buckets) = {}
  BY DEF Init, Occupied
<1>2. Cardinality(Occupied(buckets)) = 0
  BY <1>1, FS_EmptySet
<1> QED
  BY <1>2, CapacityAssumption DEF Init, IInv, TypeOK, LoadInv, Slots

\* hashtable_insert goes on to store only below the watermark.
LEMMA InsertIInv ==
  ASSUME IInv, NEW k \in Keys, NEW v \in Vals, Insert(k, v), UNCHANGED owner
  PROVE  IInv'
<1> USE DEF IInv, TypeOK, LoadInv, Insert
<1>1. arg' \in Entries
  BY DEF Entries
<1>2. CASE phase' = "store"
  <2>1. used * 100 < HighWatermark * capacity
    <3>1. (used * 100) \div capacity < HighWatermark
      BY <1>2 DEF NeedsResize, HighWatermark
    <3> QED
      BY <3>1, DivBound DEF HighWatermark
  <2> QED
    BY <1>1, <1>2, <2>1
<1>3. CASE phase' = "rehash"
  <2>1. newBuckets' \in [0..(capacity * 2 - 1) -> Slots]
    BY <1>3 DEF Slots
  <2>2. Occupied(newBuckets') = {}
    BY <1>3 DEF Occupied
  <2>3. Cardinality(Occupied(newBuckets')) = 0
    BY <2>2, FS_EmptySet
  <2>4. Cardinality(LiveBefore(buckets', cursor')) \in Nat
    <3>1. /\ capacity \in Nat /\ buckets \in [0..(capacity - 1) -> Slots]
          /\ buckets' = buckets /\ cursor' = 0
      OBVIOUS
    <3> HIDE DEF IInv, TypeOK, LoadInv, Insert
    <3> QED
      BY <3>1, LiveBeforeCount
  <2> QED
    BY <1>1, <1>3, <2>1, <2>3, <2>4
<1> QED
  BY <1>2, <1>3

\* An entry is moved for each live bucket that is passed.
LEMMA RehashSlotIInv ==
  ASSUME IInv, RehashSlot, UNCHANGED owner
  PROVE  IInv'
<1>0. /\ capacity \in Nat /\ capacity * 2 \in Nat
      /\ cursor \in 0..capacity /\ cursor < capacity
      /\ buckets \in [0..(capacity - 1) -> Slots]
      /\ newBuckets \in [0..(capacity * 2 - 1) -> Slots]
      /\ Cardinality(Occupied(newBuckets)) <=
           Cardinality(LiveBefore(buckets, cursor))
  BY DEF IInv, TypeOK, LoadInv, RehashSlot
<1>1. /\ Cardinality(LiveBefore(buckets, cursor)) \in Nat
      /\ Cardinality(LiveBefore(buckets, cursor + 1)) =
           IF Live(buckets, cursor)
           THEN Cardinality(LiveBefore(buckets, cursor)) + 1
           ELSE Cardinality(LiveBefore(buckets, cursor))
  BY <1>0, LiveBeforeCount
<1>2. /\ newBuckets' \in [0..(capacity * 2 - 1) -> Slots]
      /\ Cardinality(Occupied(newBuckets')) <=
           Cardinality(LiveBefore(buckets, cursor + 1))
  <2>1. CASE Live(buckets, cursor)
    <3>1. buckets[cursor] \in Slots
      BY <1>0
    <3>2. PICK j \in 0..(capacity * 2 - 1) :
            newBuckets' = [newBuckets EXCEPT ![j] = buckets[cursor]]
      BY <1>0, <2>1 DEF RehashSlot, MoveEntry
    <3>3. /\ newBuckets' \in [0..(capacity * 2 - 1) -> Slots]
          /\ Cardinality(Occupied(newBuckets'))
               <= Cardinality(Occupied(newBuckets)) + 1
      BY <1>0, <3>1, <3>2, FillBucket
    <3>4. /\ Cardinality(Occupied(newBuckets)) \in Nat
          /\ Cardinality(Occupied(newBuckets')) \in Nat
      BY <1>0, <3>3, OccupiedFinite
    <3> QED
      BY <1>0, <1>1, <2>1, <3>3, <3>4
  <2>2. CASE ~ Live(buckets, cursor)
    BY <1>0, <1>1, <2>2 DEF RehashSlot
  <2> QED
    BY <2>1, <2>2
<1> QED
  BY <1>0, <1>2 DEF IInv, TypeOK, LoadInv, RehashSlot

\* In the doubled table the same counter is far below the watermark.
LEMMA SwapBucketsIInv ==
  ASSUME IInv, SwapBuckets, UNCHANGED owner
  PROVE  IInv'
<1>0. /\ capacity \in Nat /\ capacity * 2 \in Nat /\ used \in Nat
      /\ cursor = capacity /\ cursor \in 0..capacity
      /\ buckets \in [0..(capacity - 1) -> Slots]
      /\ newBuckets \in [0..(capacity * 2 - 1) -> Slots]
      /\ Cardinality(Occupied(newBuckets)) <=
           Cardinality(LiveBefore(buckets, cursor))
  BY DEF IInv, TypeOK, LoadInv, SwapBuckets
<1>1. Cardinality(LiveBefore(buckets, cursor)) \in Nat
      /\ Cardinality(LiveBefore(buckets, cursor))
           <= Cardinality(Occupied(buckets))
  BY <1>0, LiveBeforeCount
<1>2. /\ Cardinality(Occupied(buckets)) \in Nat
      /\ Cardinality(Occupied(newBuckets)) \in Nat
  BY <1>0, OccupiedFinite
<1>3. Cardinality(Occupied(buckets')) <= used'
  BY <1>0, <1>1, <1>2 DEF SwapBuckets, IInv, LoadInv
<1>4. used' * 100 < HighWatermark * capacity'
  BY <1>0 DEF HighWatermark, SwapBuckets, IInv, LoadInv
<1> QED
  BY <1>0, <1>3, <1>4 DEF IInv, TypeOK, LoadInv, SwapBuckets

\* Storing counts the bucket it fills; the watermark leaves room for it.
LEMMA StoreIInv ==
  ASSUME IInv, Store, UNCHANGED owner
  PROVE  IInv'
<1> USE DEF IInv, TypeOK, LoadInv, Store
<1>1. arg \in Slots
  BY DEF Slots
<1>2. PICK j \in 0..(capacity - 1) :
        /\ buckets' = [buckets EXCEPT ![j] = arg]
        /\ used' = IF Live(buckets, j) THEN used ELSE used + 1
  OBVIOUS
<1>3. /\ buckets' \in [0..(capacity - 1) -> Slots]
      /\ Cardinality(Occupied(buckets')) <= Cardinality(Occupied(buckets)) + 1
      /\ buckets[j] # Null =>
           Cardinality(Occupied(buckets')) <= Cardinality(Occupied(buckets))
  BY <1>1, <1>2, FillBucket
<1>4. /\ Cardinality(Occupied(buckets)) \in Nat
      /\ Cardinality(Occupied(buckets')) \in Nat
  BY <1>3, OccupiedFinite
<1>5. Cardinality(Occupied(buckets')) <= used'
  BY <1>2, <1>3, <1>4 DEF Live
<1>6. used' \in Nat /\ used' < capacity
  BY <1>2 DEF HighWatermark
<1> QED
  BY <1>3, <1>5, <1>6

\* A deletion leaves a tombstone, which stays counted.
LEMMA DeleteIInv ==
  ASSUME IInv, NEW k \in Keys, Delete(k), UNCHANGED owner
  PROVE  IInv'
<1> USE DEF IInv, TypeOK, LoadInv
<1> DEFINE j == PlaceholderIndex(buckets, capacity, k)
<1> HIDE DEF j
<1>1. CASE buckets[j] = Null
  BY <1>1 DEF Delete, j
<1>2. CASE buckets[j] # Null
  <2>1. buckets' = [buckets EXCEPT ![j] = Tombstone] /\ phase' = "idle"
    BY <1>2 DEF Delete, j
  <2>2. UNCHANGED <<capacity, used, arg, newBuckets, cursor>>
    BY DEF Delete
  <2>3. buckets' \in [0..(capacity - 1) -> Slots]
    BY <2>1 DEF Slots
  <2>4. Occupied(buckets') \subseteq Occupied(buckets)
    BY <1>2, <2>1 DEF Occupied
  <2>5. Cardinality(Occupied(buckets')) <= Cardinality(Occupied(buckets))
    BY <2>4, OccupiedFinite, FS_Subset
  <2>6. /\ Cardinality(Occupied(buckets)) \in Nat
        /\ Cardinality(Occupied(buckets')) \in Nat
    BY <2>3, OccupiedFinite
  <2> QED
    BY <2>1, <2>2, <2>3, <2>5, <2>6
<1> QED
  BY <1>1, <1>2

\* unmark_all turns entries into tombstones, bucket by bucket.
LEMMA UnmarkAllIInv ==
  ASSUME IInv, UnmarkAll, UNCHANGED owner
  PROVE  IInv'
<1> USE DEF IInv, TypeOK, LoadInv, UnmarkAll
<1>1. buckets' \in [0..(capacity - 1) -> Slots]
  BY DEF Slots
<1>2. Occupied(buckets') = Occupied(buckets)
  BY SentinelAssumption DEF Occupied, Live
<1> QED
  BY <1>1, <1>2

-----------------------------------------------------------------------------
(* The theorems *)

\* Every step of the table, in any order of calls, keeps the invariant.
LEMMA NextIInv == IInv /\ [ApiNext]_vars => IInv'
<1> SUFFICES ASSUME IInv, [ApiNext]_vars PROVE IInv'
  OBVIOUS
<1>1. CASE UNCHANGED owner /\ \E k \in Keys, v \in Vals : Insert(k, v)
  BY <1>1, InsertIInv
<1>2. CASE UNCHANGED owner /\ RehashSlot
  BY <1>2, RehashSlotIInv
<1>3. CASE UNCHANGED owner /\ SwapBuckets
  BY <1>3, SwapBucketsIInv
<1>4. CASE UNCHANGED owner /\ Store
  BY <1>4, StoreIInv
<1>5. CASE UNCHANGED owner /\ \E k \in Keys : Delete(k)
  BY <1>5, DeleteIInv
<1>6. CASE UNCHANGED owner /\ UnmarkAll
  BY <1>6, UnmarkAllIInv
<1>7. CASE UNCHANGED vars
  BY <1>7 DEF vars, IInv, TypeOK, LoadInv
<1> QED
  BY <1>1, <1>2, <1>3, <1>4, <1>5, <1>6, <1>7
     DEF ApiNext, ApiCall, InsertStep

\* An invariant table has a Null bucket, and so has the one being filled.
LEMMA IInvNullSlot == IInv => NullSlotLeft
<1> SUFFICES ASSUME IInv PROVE NullSlotLeft
  OBVIOUS
<1> USE DEF IInv, TypeOK, LoadInv
<1>1. Cardinality(Occupied(buckets)) < capacity
  BY OccupiedFinite
<1>2. \E i \in DOMAIN buckets : buckets[i] = Null
  BY <1>1, NullBucketExists
<1>3. ASSUME phase = "rehash"
      PROVE  \E i \in DOMAIN newBuckets : newBuckets[i] = Null
  <2>0. /\ capacity * 2 \in Nat /\ cursor \in 0..capacity
        /\ newBuckets \in [0..(capacity * 2 - 1) -> Slots]
    BY <1>3
  <2>1. /\ Cardinality(LiveBefore(buckets, cursor)) \in Nat
        /\ Cardinality(LiveBefore(buckets, cursor)) <= capacity
    BY <2>0, LiveBeforeCount
  <2>2. Cardinality(Occupied(newBuckets)) \in Nat
    BY <2>0, OccupiedFinite
  <2>3. Cardinality(Occupied(newBuckets)) < capacity * 2
    BY <1>3, <2>1, <2>2
  <2> QED
    BY <2>0, <2>3, NullBucketExists
<1> QED
  BY <1>2, <1>3 DEF NullSlotLeft

\* The load of the table is counted right however hashtable_insert,
\* hashtable_delete and unmark_all are called (environment.c:43-88).
THEOREM ApiLoad == ApiSpec => [](TypeOK /\ LoadInv)
<1>1. ApiSpec => []IInv
  BY InitIInv, NextIInv, PTL DEF ApiSpec
<1> QED
  BY <1>1, PTL DEF IInv

\* A probe that looks for a missing key always meets a Null bucket: the loops
\* of environment.c:33, 53 and 72 end.
THEOREM ApiNullSlotLeft == ApiSpec => []NullSlotLeft
<1>1. ApiSpec => []IInv
  BY InitIInv, NextIInv, PTL DEF ApiSpec
<1> QED
  BY <1>1, IInvNullSlot, PTL

\* The same for the calls that frames and the collector make, although the
\* mark table's `used' grows with every collection.
THEOREM NullSlot == Spec => []NullSlotLeft
<1>1. [Next]_vars => [ApiNext]_vars
  BY DEF Next, FrameCall, CollectorCall, ApiNext, ApiCall
<1>2. Spec => []IInv
  BY <1>1, InitIInv, NextIInv, PTL DEF Spec
<1> QED
  BY <1>2, IInvNullSlot, PTL

\* ... and the bound on the load that is the reason for it.
THEOREM Load == Spec => [](TypeOK /\ LoadInv)
<1>1. [Next]_vars => [ApiNext]_vars
  BY DEF Next, FrameCall, CollectorCall, ApiNext, ApiCall
<1>2. Spec => []IInv
  BY <1>1, InitIInv, NextIInv, PTL DEF Spec
<1> QED
  BY <1>2, PTL DEF IInv
=============================================================================
