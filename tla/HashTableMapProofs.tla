------------------------- MODULE HashTableMapProofs -------------------------
(***************************************************************************)
(* The table of a frame and the mark table of the collector are maps: the  *)
(* detailed specification implements KeyValueMap, for every set of keys,   *)
(* every hash function and every capacity.                                 *)
(*                                                                         *)
(* The argument is the probe invariant of linear probing: from the home    *)
(* slot of an entry up to the entry no bucket is Null, and no key has two  *)
(* entries.  Storing at the first free slot keeps it because whoever       *)
(* inserts either leaves no tombstone (a frame) or knows that the key is   *)
(* missing (the collector).                                                *)
(***************************************************************************)
EXTENDS HashTableProofs, CommonLemmas

-----------------------------------------------------------------------------
(* Lemmas about probing *)

\* The remainder of a sum of a multiple and something smaller.
LEMMA ModOfSum ==
  ASSUME NEW cap \in Nat, cap > 0, NEW q \in Nat, NEW r \in 0..(cap - 1)
  PROVE  ((cap * q + r) % cap) = r
<1> DEFINE a == cap * q + r
<1>1. a \in Nat /\ a = cap * q + r
  BY SMTT(30)
<1> HIDE DEF a
<1>2. a % cap = r
  BY <1>1, SMTT(60)
<1> QED
  BY <1>2 DEF a

\* What the remainder of the probing loops does, as a fact of arithmetic.
LEMMA ModFacts ==
  ASSUME NEW cap \in Nat, cap > 0, NEW a \in Nat
  PROVE  /\ (a % cap) \in 0..(cap - 1)
         /\ \A n \in 0..(cap - 1) :
              ((a + n) % cap) = IF (a % cap) + n < cap THEN (a % cap) + n
                                                      ELSE (a % cap) + n - cap
<1> DEFINE r == a % cap
           q == a \div cap
<1>1. r \in 0..(cap - 1) /\ a = cap * q + r /\ q \in Nat
  BY SMTT(30)
<1> HIDE DEF r, q
<1>2. ASSUME NEW n \in 0..(cap - 1), r + n < cap
      PROVE  ((a + n) % cap) = r + n
  <2>1. a + n = cap * q + (r + n) /\ r + n \in 0..(cap - 1)
    BY <1>1, <1>2
  <2> QED
    BY <1>1, <2>1, ModOfSum
<1>3. ASSUME NEW n \in 0..(cap - 1), ~ (r + n < cap)
      PROVE  ((a + n) % cap) = r + n - cap
  <2>1. a + n = cap * q + (r + n) /\ r + n - cap \in 0..(cap - 1)
    BY <1>1, <1>3
  <2>2. cap * (q + 1) = cap * q + cap
    BY <1>1, SMTT(30)
  <2>3. a + n = cap * (q + 1) + (r + n - cap)
    BY <1>1, <2>1, <2>2
  <2>4. q + 1 \in Nat
    BY <1>1
  <2> QED
    BY <1>1, <2>1, <2>3, <2>4, ModOfSum
<1> QED
  BY <1>1, <1>2, <1>3 DEF r

\* Probing for k stays in the table, comes to every slot, and to none twice.
LEMMA ProbeFacts ==
  ASSUME NEW cap \in Nat, cap > 0, NEW k \in Keys
  PROVE  /\ \A n \in 0..(cap - 1) : Probe(k, n, cap) \in 0..(cap - 1)
         /\ \A i \in 0..(cap - 1) : \E n \in 0..(cap - 1) : Probe(k, n, cap) = i
         /\ \A n, m \in 0..(cap - 1) :
              Probe(k, n, cap) = Probe(k, m, cap) => n = m
<1>1. Hash[k] \in Nat
  BY HashAssumption
<1> DEFINE r == Hash[k] % cap
<1>2. /\ r \in 0..(cap - 1)
      /\ \A n \in 0..(cap - 1) :
           Probe(k, n, cap) = IF r + n < cap THEN r + n ELSE r + n - cap
  BY <1>1, ModFacts DEF Probe
<1> HIDE DEF r
<1>3. \A n \in 0..(cap - 1) : Probe(k, n, cap) \in 0..(cap - 1)
  BY <1>2
<1>4. ASSUME NEW i \in 0..(cap - 1)
      PROVE  \E n \in 0..(cap - 1) : Probe(k, n, cap) = i
  <2> DEFINE n == IF i >= r THEN i - r ELSE i - r + cap
  <2>1. n \in 0..(cap - 1) /\ (IF r + n < cap THEN r + n ELSE r + n - cap) = i
    BY <1>2
  <2> HIDE DEF n
  <2>2. Probe(k, n, cap) = i
    BY <1>2, <2>1
  <2> QED
    BY <2>1, <2>2
<1>5. ASSUME NEW n \in 0..(cap - 1), NEW m \in 0..(cap - 1),
             Probe(k, n, cap) = Probe(k, m, cap)
      PROVE  n = m
  BY <1>2, <1>5
<1> QED
  BY <1>3, <1>4, <1>5

\* Probing comes to exactly one slot of S first, if there is one at all.
LEMMA FirstInProbeExists ==
  ASSUME NEW cap \in Nat, cap > 0, NEW k \in Keys,
         NEW S, NEW i \in 0..(cap - 1), i \in S
  PROVE  \E j \in 0..(cap - 1) : FirstInProbe(k, cap, S, j)
<1> DEFINE T == {n \in 0..(cap - 1) : Probe(k, n, cap) \in S}
<1>1. T \in SUBSET Nat
  OBVIOUS
<1>2. T # {}
  BY ProbeFacts
<1>3. PICK n \in T : \A m \in T : n <= m
  BY <1>1, <1>2, LeastNatural
<1>4. \A m \in 0..(n - 1) : Probe(k, m, cap) \notin S
  BY <1>3
<1>5. Probe(k, n, cap) \in 0..(cap - 1)
  BY ProbeFacts
<1> QED
  BY <1>4, <1>5 DEF FirstInProbe

LEMMA FirstInProbeUnique ==
  ASSUME NEW cap \in Nat, cap > 0, NEW k \in Keys, NEW S, NEW i, NEW j,
         FirstInProbe(k, cap, S, i), FirstInProbe(k, cap, S, j)
  PROVE  i = j
<1>1. PICK n \in 0..(cap - 1) :
        /\ i = Probe(k, n, cap) /\ i \in S
        /\ \A m \in 0..(n - 1) : Probe(k, m, cap) \notin S
  BY DEF FirstInProbe
<1>2. PICK m \in 0..(cap - 1) :
        /\ j = Probe(k, m, cap) /\ j \in S
        /\ \A l \in 0..(m - 1) : Probe(k, l, cap) \notin S
  BY DEF FirstInProbe
<1>3. ~ (n < m) /\ ~ (m < n)
  BY <1>1, <1>2
<1> QED
  BY <1>1, <1>2, <1>3

\* Where get_placeholder_index ends, in a table with a Null bucket.
LEMMA PlaceholderFirst ==
  ASSUME NEW cap \in Nat, cap > 0, NEW k \in Keys,
         NEW b \in [0..(cap - 1) -> Slots], \E i \in DOMAIN b : b[i] = Null
  PROVE  /\ PlaceholderIndex(b, cap, k) \in 0..(cap - 1)
         /\ FirstInProbe(k, cap, LookupStops(b, k), PlaceholderIndex(b, cap, k))
<1>1. \E j \in 0..(cap - 1) : FirstInProbe(k, cap, LookupStops(b, k), j)
  BY FirstInProbeExists DEF LookupStops
<1> QED
  BY <1>1 DEF PlaceholderIndex

-----------------------------------------------------------------------------
(* The probe invariant *)

\* Between the home slot of the entry in bucket i and i no bucket is Null.
Reachable(b, cap, i) ==
  \E n \in 0..(cap - 1) :
    /\ i = Probe(b[i].key, n, cap)
    /\ \A m \in 0..(n - 1) : b[Probe(b[i].key, m, cap)] # Null

WellPlaced(b, cap) ==
  /\ \A i \in 0..(cap - 1) : Live(b, i) => Reachable(b, cap, i)
  /\ \A i, j \in 0..(cap - 1) :
       Live(b, i) /\ Live(b, j) /\ b[i].key = b[j].key => i = j

HasKey(b, cap, k) == \E i \in 0..(cap - 1) : Holds(b, i, k)

\* hashtable_get finds the one entry of a key in a well-placed table ...
LEMMA LookupFinds ==
  ASSUME NEW cap \in Nat, cap > 0, NEW k \in Keys,
         NEW b \in [0..(cap - 1) -> Slots], \E i \in DOMAIN b : b[i] = Null,
         WellPlaced(b, cap), NEW i \in 0..(cap - 1), Holds(b, i, k)
  PROVE  Lookup(b, cap, k) = b[i].val
<1>1. PICK n \in 0..(cap - 1) :
        /\ i = Probe(k, n, cap)
        /\ \A m \in 0..(n - 1) : b[Probe(k, m, cap)] # Null
  BY DEF WellPlaced, Reachable, Holds
<1>2. ASSUME NEW m \in 0..(n - 1)
      PROVE  Probe(k, m, cap) \notin LookupStops(b, k)
  <2>0. m \in 0..(cap - 1) /\ m # n
    OBVIOUS
  <2>1. Probe(k, m, cap) \in 0..(cap - 1) /\ Probe(k, m, cap) # i
    BY <1>1, <2>0, ProbeFacts
  <2>2. ~ Holds(b, Probe(k, m, cap), k)
    BY <2>1 DEF WellPlaced, Holds
  <2> QED
    BY <1>1, <2>2 DEF LookupStops
<1>3. FirstInProbe(k, cap, LookupStops(b, k), i)
  BY <1>1, <1>2 DEF FirstInProbe, LookupStops
<1>4. PlaceholderIndex(b, cap, k) = i
  BY <1>3, PlaceholderFirst, FirstInProbeUnique
<1> QED
  BY <1>4 DEF Lookup, Holds, Live

\* ... and Null for a key without an entry.
LEMMA LookupMisses ==
  ASSUME NEW cap \in Nat, cap > 0, NEW k \in Keys,
         NEW b \in [0..(cap - 1) -> Slots], \E i \in DOMAIN b : b[i] = Null,
         ~ HasKey(b, cap, k)
  PROVE  Lookup(b, cap, k) = Null
<1>1. /\ PlaceholderIndex(b, cap, k) \in 0..(cap - 1)
      /\ PlaceholderIndex(b, cap, k) \in LookupStops(b, k)
  BY PlaceholderFirst DEF FirstInProbe
<1> QED
  BY <1>1 DEF Lookup, LookupStops, HasKey

\* A Null answer means that the key has no entry: no value is Null.
LEMMA LookupNull ==
  ASSUME NEW cap \in Nat, cap > 0, NEW k \in Keys,
         NEW b \in [0..(cap - 1) -> Slots], \E i \in DOMAIN b : b[i] = Null,
         WellPlaced(b, cap), Lookup(b, cap, k) = Null
  PROVE  ~ HasKey(b, cap, k)
<1>1. SUFFICES ASSUME NEW i \in 0..(cap - 1), Holds(b, i, k)
               PROVE  FALSE
  BY DEF HasKey
<1>2. b[i].val = Null
  BY <1>1, LookupFinds
<1>3. b[i] \in Entries
  BY <1>1 DEF Holds, Live, Slots
<1> QED
  BY <1>2, <1>3, SentinelAssumption DEF Entries

\* Putting an entry into the first slot of S keeps a table well placed, when S
\* has every Null bucket and the slot is the key's own or the key is new.
LEMMA PlaceEntry ==
  ASSUME NEW cap \in Nat, cap > 0, NEW b \in [0..(cap - 1) -> Slots],
         WellPlaced(b, cap), NEW e \in Entries, NEW S,
         {i \in DOMAIN b : b[i] = Null} \subseteq S,
         NEW j \in 0..(cap - 1), FirstInProbe(e.key, cap, S, j),
         Holds(b, j, e.key) \/ ~ HasKey(b, cap, e.key)
  PROVE  WellPlaced([b EXCEPT ![j] = e], cap)
<1> DEFINE c == [b EXCEPT ![j] = e]
<1>1. /\ c \in [0..(cap - 1) -> Slots] /\ c[j] = e
      /\ \A i \in 0..(cap - 1) : i # j => c[i] = b[i]
  BY DEF Slots
<1>2. Live(c, j) /\ e # Null
  BY <1>1, SentinelAssumption DEF Live
<1>3. e.key \in Keys
  BY DEF Entries
<1>4. Reachable(c, cap, j)
  <2>1. PICK n \in 0..(cap - 1) :
          /\ j = Probe(e.key, n, cap)
          /\ \A m \in 0..(n - 1) : Probe(e.key, m, cap) \notin S
    BY DEF FirstInProbe
  <2>2. ASSUME NEW m \in 0..(n - 1)
        PROVE  c[Probe(e.key, m, cap)] # Null
    <3>0. m \in 0..(cap - 1)
      OBVIOUS
    <3>1. Probe(e.key, m, cap) \in 0..(cap - 1)
      BY <1>3, <3>0, ProbeFacts
    <3>2. b[Probe(e.key, m, cap)] # Null
      BY <2>1, <3>1
    <3> QED
      BY <1>1, <1>2, <3>1, <3>2
  <2> QED
    BY <1>1, <2>1, <2>2 DEF Reachable
<1>5. ASSUME NEW i \in 0..(cap - 1), Live(c, i), i # j
      PROVE  Reachable(c, cap, i)
  <2>1. c[i] = b[i] /\ Live(b, i)
    BY <1>1, <1>5 DEF Live
  <2>2. b[i].key \in Keys
    BY <2>1 DEF Live, Slots, Entries
  <2>3. PICK n \in 0..(cap - 1) :
          /\ i = Probe(b[i].key, n, cap)
          /\ \A m \in 0..(n - 1) : b[Probe(b[i].key, m, cap)] # Null
    BY <2>1 DEF WellPlaced, Reachable
  <2>4. ASSUME NEW m \in 0..(n - 1)
        PROVE  Probe(b[i].key, m, cap) \in 0..(cap - 1)
    <3>1. m \in 0..(cap - 1)
      OBVIOUS
    <3> QED
      BY <2>2, <3>1, ProbeFacts
  <2>5. \A m \in 0..(n - 1) : c[Probe(b[i].key, m, cap)] # Null
    BY <1>1, <1>2, <2>3, <2>4
  <2> QED
    BY <2>1, <2>3, <2>5 DEF Reachable
<1>6. ASSUME NEW i \in 0..(cap - 1), NEW l \in 0..(cap - 1),
             Live(c, i), Live(c, l), c[i].key = c[l].key
      PROVE  i = l
  <2>1. \A m \in 0..(cap - 1) : m # j => (Live(c, m) => Live(b, m))
    BY <1>1 DEF Live
  <2>2. ASSUME NEW m \in 0..(cap - 1), m # j, Live(c, m)
        PROVE  c[m].key # e.key
    BY <1>1, <2>1, <2>2 DEF WellPlaced, HasKey, Holds
  <2>3. CASE i = j
    BY <1>1, <1>6, <2>2, <2>3
  <2>4. CASE l = j
    BY <1>1, <1>6, <2>2, <2>4
  <2>5. CASE i # j /\ l # j
    BY <1>1, <1>6, <2>1, <2>5 DEF WellPlaced
  <2> QED
    BY <2>3, <2>4, <2>5
<1> HIDE DEF c
<1> QED
  BY <1>4, <1>5, <1>6 DEF WellPlaced, c

\* ... and what is found then is the entry under its key, the rest unchanged.
LEMMA LookupAfterPlacing ==
  ASSUME NEW cap \in Nat, cap > 0, NEW b \in [0..(cap - 1) -> Slots],
         WellPlaced(b, cap), \E i \in DOMAIN b : b[i] = Null,
         NEW e \in Entries, NEW j \in 0..(cap - 1),
         ~ Live(b, j) \/ Holds(b, j, e.key),
         WellPlaced([b EXCEPT ![j] = e], cap),
         \E i \in DOMAIN b : [b EXCEPT ![j] = e][i] = Null,
         NEW k \in Keys
  PROVE  Lookup([b EXCEPT ![j] = e], cap, k) =
           IF k = e.key THEN e.val ELSE Lookup(b, cap, k)
<1> DEFINE c == [b EXCEPT ![j] = e]
<1>1. /\ c \in [0..(cap - 1) -> Slots] /\ c[j] = e
      /\ \A i \in 0..(cap - 1) : i # j => c[i] = b[i]
      /\ WellPlaced(c, cap) /\ \E i \in DOMAIN c : c[i] = Null
  BY DEF Slots
<1> HIDE DEF c
<1>2. CASE k = e.key
  <2>1. Holds(c, j, k)
    BY <1>1, <1>2, SentinelAssumption DEF Holds, Live
  <2> QED
    BY <1>1, <1>2, <2>1, LookupFinds DEF c
<1>3. CASE k # e.key /\ HasKey(b, cap, k)
  <2>1. PICK i \in 0..(cap - 1) : Holds(b, i, k)
    BY <1>3 DEF HasKey
  <2>2. i # j
    BY <1>3, <2>1 DEF Holds
  <2>3. c[i] = b[i] /\ Holds(c, i, k)
    BY <1>1, <2>1, <2>2 DEF Holds, Live
  <2>4. Lookup(c, cap, k) = c[i].val
    BY <1>1, <2>3, LookupFinds
  <2>5. Lookup(b, cap, k) = b[i].val
    BY <2>1, LookupFinds
  <2> QED
    BY <1>3, <2>3, <2>4, <2>5 DEF c
<1>4. CASE k # e.key /\ ~ HasKey(b, cap, k)
  <2>1. ~ HasKey(c, cap, k)
    BY <1>1, <1>4 DEF HasKey, Holds, Live
  <2>2. Lookup(c, cap, k) = Null
    BY <1>1, <2>1, LookupMisses
  <2>3. Lookup(b, cap, k) = Null
    BY <1>4, LookupMisses
  <2> QED
    BY <1>4, <2>2, <2>3 DEF c
<1> QED
  BY <1>2, <1>3, <1>4

-----------------------------------------------------------------------------
(* The inductive invariant *)

\* What hashtable_insert may rely on: a frame has no tombstones, and what the
\* collector inserts is not there yet.
CallerInv ==
  /\ phase # "crashed"
  /\ owner = "frame" =>
       \A i \in 0..(capacity - 1) : buckets[i] # Tombstone
  /\ owner = "collector" /\ phase \in {"rehash", "store"} =>
       ~ HasKey(buckets, capacity, arg.key)

\* The array that a resize fills has the entries of the buckets passed so far.
MovedInv ==
  phase = "rehash" =>
    /\ WellPlaced(newBuckets, capacity * 2)
    /\ \A j \in 0..(capacity * 2 - 1) : newBuckets[j] # Tombstone
    /\ \A i \in 0..(cursor - 1) : Live(buckets, i) =>
         \E j \in 0..(capacity * 2 - 1) : newBuckets[j] = buckets[i]
    /\ \A j \in 0..(capacity * 2 - 1) : Live(newBuckets, j) =>
         \E i \in 0..(cursor - 1) : newBuckets[j] = buckets[i]

MapInv == IInv /\ WellPlaced(buckets, capacity) /\ CallerInv /\ MovedInv

\* What the steps below use of it.
LEMMA MapInvFacts ==
  ASSUME MapInv
  PROVE  /\ capacity \in Nat /\ capacity > 0 /\ cursor \in Nat
         /\ capacity * 2 \in Nat /\ capacity * 2 > 0
         /\ buckets \in [0..(capacity - 1) -> Slots]
         /\ \E i \in DOMAIN buckets : buckets[i] = Null
         /\ phase = "rehash" =>
              /\ newBuckets \in [0..(capacity * 2 - 1) -> Slots]
              /\ \E i \in DOMAIN newBuckets : newBuckets[i] = Null
              /\ cursor <= capacity
         /\ phase \in {"rehash", "store"} => arg \in Entries
BY IInvNullSlot DEF MapInv, IInv, TypeOK, LoadInv, NullSlotLeft

\* The empty table.
LEMMA InitMapInv == Init => MapInv
<1> SUFFICES ASSUME Init PROVE MapInv
  OBVIOUS
<1>1. IInv
  BY InitIInv
<1> QED
  BY <1>1, SentinelAssumption
     DEF Init, MapInv, WellPlaced, CallerInv, MovedInv, Live

\* hashtable_insert up to its loops, as a frame or the collector calls it.
LEMMA InsertMapInv ==
  ASSUME MapInv, NEW k \in Keys, NEW v \in Vals, Insert(k, v), UNCHANGED owner,
         owner = "frame" \/ Lookup(buckets, capacity, k) = Null
  PROVE  MapInv'
<1>0. IInv'
  BY InsertIInv DEF MapInv
<1>1. WellPlaced(buckets, capacity)'
  BY DEF Insert, MapInv, WellPlaced, Live, Reachable
<1>2. CallerInv'
  <2>1. arg'.key = k /\ phase' \in {"rehash", "store"}
    BY DEF Insert
  <2>2. owner = "frame" \/ ~ HasKey(buckets, capacity, k)
    BY MapInvFacts, LookupNull DEF MapInv
  <2>3. owner = "frame" => owner # "collector"
    OBVIOUS
  <2> QED
    BY <2>1, <2>2, <2>3 DEF Insert, MapInv, CallerInv, HasKey, Holds, Live
<1>3. MovedInv'
  <2>1. ASSUME phase' = "rehash"
        PROVE  newBuckets' = [i \in 0..(capacity' * 2 - 1) |-> Null]
               /\ cursor' = 0
    BY <2>1 DEF Insert
  <2> QED
    BY <2>1, SentinelAssumption DEF MovedInv, WellPlaced, Live
<1> QED
  BY <1>0, <1>1, <1>2, <1>3 DEF MapInv

\* One old bucket is passed; its entry, if any, goes where probing ends.
LEMMA RehashSlotMapInv ==
  ASSUME MapInv, RehashSlot, UNCHANGED owner
  PROVE  MapInv'
<1>0. IInv'
  BY RehashSlotIInv DEF MapInv
<1>1. /\ phase = "rehash" /\ cursor \in 0..(capacity - 1)
      /\ cursor' = cursor + 1
      /\ UNCHANGED <<buckets, capacity, used, phase, arg>>
  BY MapInvFacts DEF RehashSlot
<1>2. WellPlaced(buckets, capacity)' /\ CallerInv'
  BY <1>1 DEF MapInv, WellPlaced, Live, Reachable, CallerInv, HasKey, Holds
<1>3. MovedInv'
  <2>1. CASE Live(buckets, cursor)
    <3> DEFINE e == buckets[cursor]
               S == {i \in DOMAIN newBuckets : newBuckets[i] = Null}
    <3>1. /\ capacity * 2 \in Nat /\ capacity * 2 > 0
          /\ newBuckets \in [0..(capacity * 2 - 1) -> Slots]
          /\ WellPlaced(newBuckets, capacity * 2)
      BY <1>1, MapInvFacts DEF MapInv, MovedInv
    <3>2. e \in Entries /\ e # Null /\ e # Tombstone
      BY <1>1, <2>1, MapInvFacts DEF Live, Slots
    <3>3. PICK j \in 0..(capacity * 2 - 1) :
            /\ FirstInProbe(e.key, capacity * 2, S, j)
            /\ newBuckets' = [newBuckets EXCEPT ![j] = e]
      BY <2>1, <3>1 DEF RehashSlot, MoveEntry
    <3>4. newBuckets[j] = Null
      BY <3>3 DEF FirstInProbe
    <3>5. ~ HasKey(newBuckets, capacity * 2, e.key)
      <4> SUFFICES ASSUME NEW l \in 0..(capacity * 2 - 1),
                          Holds(newBuckets, l, e.key)
                   PROVE  FALSE
        BY DEF HasKey
      <4>1. PICK i \in 0..(cursor - 1) : newBuckets[l] = buckets[i]
        BY <1>1 DEF MapInv, MovedInv, Holds
      <4>2. i \in 0..(capacity - 1) /\ i # cursor
        BY <1>1, MapInvFacts
      <4>3. Live(buckets, i) /\ buckets[i].key = e.key
        BY <4>1 DEF Holds, Live
      <4> QED
        BY <1>1, <2>1, <4>2, <4>3 DEF MapInv, WellPlaced
    <3> HIDE DEF e
    <3>6. WellPlaced([newBuckets EXCEPT ![j] = e], capacity * 2)
      BY <3>1, <3>2, <3>3, <3>5, PlaceEntry
    <3>7. /\ newBuckets'[j] = e
          /\ \A i \in 0..(capacity * 2 - 1) :
               i # j => newBuckets'[i] = newBuckets[i]
      BY <3>1, <3>3
    <3>8. \A i \in 0..(capacity * 2 - 1) : newBuckets'[i] # Tombstone
      BY <1>1, <3>2, <3>7 DEF MapInv, MovedInv
    <3>9. ASSUME NEW i \in 0..cursor, Live(buckets, i)
          PROVE  \E l \in 0..(capacity * 2 - 1) : newBuckets'[l] = buckets[i]
      <4>1. CASE i = cursor
        BY <3>7, <4>1 DEF e
      <4>2. CASE i # cursor
        <5>1. i \in 0..(cursor - 1)
          BY <1>1, <4>2
        <5>2. PICK l \in 0..(capacity * 2 - 1) : newBuckets[l] = buckets[i]
          BY <1>1, <3>9, <5>1 DEF MapInv, MovedInv
        <5>3. l # j
          BY <3>4, <3>9, <5>2 DEF Live
        <5> QED
          BY <3>7, <5>2, <5>3
      <4> QED
        BY <4>1, <4>2
    <3>10. ASSUME NEW l \in 0..(capacity * 2 - 1), Live(newBuckets', l)
           PROVE  \E i \in 0..cursor : newBuckets'[l] = buckets[i]
      <4>1. CASE l = j
        BY <1>1, <3>7, <4>1 DEF e
      <4>2. CASE l # j
        <5>1. newBuckets'[l] = newBuckets[l] /\ Live(newBuckets, l)
          BY <3>7, <3>10, <4>2 DEF Live
        <5>2. PICK i \in 0..(cursor - 1) : newBuckets[l] = buckets[i]
          BY <1>1, <5>1 DEF MapInv, MovedInv
        <5> QED
          BY <1>1, <5>1, <5>2
      <4> QED
        BY <4>1, <4>2
    <3>11. 0..(cursor' - 1) = 0..cursor
      BY <1>1
    <3> QED
      BY <1>1, <3>3, <3>6, <3>8, <3>9, <3>10, <3>11 DEF MovedInv, Live
  <2>2. CASE ~ Live(buckets, cursor)
    <3>1. newBuckets' = newBuckets
      BY <2>2 DEF RehashSlot
    <3>2. \A i \in 0..cursor : Live(buckets, i) => i \in 0..(cursor - 1)
      BY <1>1, <2>2
    <3>3. 0..(cursor' - 1) = 0..cursor /\ 0..(cursor - 1) \subseteq 0..cursor
      BY <1>1
    <3>4. WellPlaced(newBuckets, capacity * 2)'
      BY <1>1, <3>1 DEF MapInv, MovedInv, WellPlaced, Live, Reachable
    <3> QED
      BY <1>1, <3>1, <3>2, <3>3, <3>4 DEF MapInv, MovedInv, Live
  <2> QED
    BY <2>1, <2>2
<1> QED
  BY <1>0, <1>2, <1>3 DEF MapInv

\* The new array has the entries of the old one, all of them and no others.
LEMMA SwapBucketsMapInv ==
  ASSUME MapInv, SwapBuckets, UNCHANGED owner
  PROVE  /\ MapInv'
         /\ \A k \in Keys : Lookup(buckets', capacity', k) =
                            Lookup(buckets, capacity, k)
<1>0. IInv'
  BY SwapBucketsIInv DEF MapInv
<1>1. /\ phase = "rehash" /\ cursor = capacity /\ phase' = "store"
      /\ buckets' = newBuckets /\ capacity' = capacity * 2
      /\ UNCHANGED <<used, arg, cursor>>
  BY DEF SwapBuckets
<1> DEFINE nb == newBuckets
           nc == capacity * 2
<1>2. /\ nc \in Nat /\ nc > 0 /\ nb \in [0..(nc - 1) -> Slots]
      /\ \E i \in DOMAIN nb : nb[i] = Null
      /\ WellPlaced(nb, nc)
      /\ \A j \in 0..(nc - 1) : nb[j] # Tombstone
      /\ \A i \in 0..(capacity - 1) : Live(buckets, i) =>
           \E j \in 0..(nc - 1) : nb[j] = buckets[i]
      /\ \A j \in 0..(nc - 1) : Live(nb, j) =>
           \E i \in 0..(capacity - 1) : nb[j] = buckets[i]
  BY <1>1, MapInvFacts DEF MapInv, MovedInv
<1> HIDE DEF nb, nc
<1>3. \A k \in Keys, i \in 0..(capacity - 1) : Holds(buckets, i, k) =>
        \E j \in 0..(nc - 1) : nb[j] = buckets[i] /\ Holds(nb, j, k)
  BY <1>2 DEF Holds, Live
<1>5. \A k : HasKey(nb, nc, k) => HasKey(buckets, capacity, k)
  BY <1>2 DEF HasKey, Holds, Live
<1>6. WellPlaced(buckets, capacity)' /\ MovedInv'
  BY <1>1, <1>2 DEF MovedInv, nb, nc
<1>7. CallerInv'
  BY <1>1, <1>2, <1>5 DEF MapInv, CallerInv, nb, nc
<1>8. ASSUME NEW k \in Keys
      PROVE  Lookup(nb, nc, k) = Lookup(buckets, capacity, k)
  <2>1. CASE HasKey(buckets, capacity, k)
    <3>1. PICK i \in 0..(capacity - 1) : Holds(buckets, i, k)
      BY <2>1 DEF HasKey
    <3>2. PICK j \in 0..(nc - 1) : nb[j] = buckets[i] /\ Holds(nb, j, k)
      BY <1>3, <3>1
    <3>3. Lookup(nb, nc, k) = nb[j].val
      BY <1>2, <3>2, LookupFinds
    <3>4. Lookup(buckets, capacity, k) = buckets[i].val
      BY <3>1, MapInvFacts, LookupFinds DEF MapInv
    <3> QED
      BY <3>2, <3>3, <3>4
  <2>2. CASE ~ HasKey(buckets, capacity, k)
    <3>1. Lookup(nb, nc, k) = Null
      BY <1>2, <1>5, <2>2, LookupMisses
    <3>2. Lookup(buckets, capacity, k) = Null
      BY <2>2, MapInvFacts, LookupMisses
    <3> QED
      BY <3>1, <3>2
  <2> QED
    BY <2>1, <2>2
<1> QED
  BY <1>0, <1>1, <1>6, <1>7, <1>8 DEF MapInv, nb, nc

\* The Null bucket of the state after a step.
LEMMA NullSlotNext == IInv' => NullSlotLeft'
BY IInvNullSlot, PTL

\* Probing stops in the key's own bucket or, the key being new, in a free one.
LEMMA StoreMapInv ==
  ASSUME MapInv, Store, UNCHANGED owner
  PROVE  /\ MapInv'
         /\ \A k \in Keys : Lookup(buckets', capacity', k) =
              IF k = arg.key THEN arg.val ELSE Lookup(buckets, capacity, k)
<1>0. IInv'
  BY StoreIInv DEF MapInv
<1>1. /\ phase = "store" /\ phase' = "idle" /\ capacity' = capacity
      /\ arg \in Entries
  BY MapInvFacts DEF Store
<1>2. arg.key \in Keys /\ arg # Tombstone
  BY <1>1, SentinelAssumption DEF Entries
<1>3. PICK j \in 0..(capacity - 1) :
        /\ FirstInProbe(arg.key, capacity, InsertStops(buckets, arg.key), j)
        /\ buckets' = [buckets EXCEPT ![j] = arg]
  BY MapInvFacts DEF Store
<1>4. ~ Live(buckets, j) \/ Holds(buckets, j, arg.key)
  BY <1>3 DEF FirstInProbe, InsertStops
<1>5. {i \in DOMAIN buckets : buckets[i] = Null}
        \subseteq InsertStops(buckets, arg.key)
  BY DEF InsertStops, Live
<1>6. Holds(buckets, j, arg.key) \/ ~ HasKey(buckets, capacity, arg.key)
  <2>1. CASE owner = "collector"
    BY <1>1, <2>1 DEF MapInv, CallerInv
  <2>2. CASE owner = "frame"
    <3> SUFFICES ASSUME ~ Holds(buckets, j, arg.key),
                        NEW i \in 0..(capacity - 1), Holds(buckets, i, arg.key)
                 PROVE  FALSE
      BY DEF HasKey
    <3>1. buckets[j] = Null
      BY <1>4, <2>2 DEF MapInv, CallerInv, Live
    <3>2. PICK n \in 0..(capacity - 1) :
            /\ i = Probe(arg.key, n, capacity)
            /\ \A m \in 0..(n - 1) : buckets[Probe(arg.key, m, capacity)] # Null
      BY DEF MapInv, WellPlaced, Reachable, Holds
    <3>3. PICK l \in 0..(capacity - 1) :
            /\ j = Probe(arg.key, l, capacity)
            /\ \A m \in 0..(l - 1) :
                 Probe(arg.key, m, capacity) \notin InsertStops(buckets, arg.key)
      BY <1>3 DEF FirstInProbe
    <3>4. i \in InsertStops(buckets, arg.key)
      BY MapInvFacts DEF InsertStops
    <3>5. ~ (l < n)
      BY <3>1, <3>2, <3>3
    <3>6. ~ (n < l)
      BY <3>2, <3>3, <3>4
    <3>7. n = l
      BY <3>5, <3>6
    <3> QED
      BY <3>2, <3>3, <3>7
  <2> QED
    BY <2>1, <2>2 DEF MapInv, IInv, TypeOK
<1>7. WellPlaced([buckets EXCEPT ![j] = arg], capacity)
  BY <1>1, <1>3, <1>5, <1>6, MapInvFacts, PlaceEntry DEF MapInv
<1>8. CallerInv' /\ MovedInv'
  BY <1>1, <1>2, <1>3, MapInvFacts DEF MapInv, CallerInv, MovedInv
<1>9. MapInv'
  BY <1>0, <1>1, <1>3, <1>7, <1>8 DEF MapInv
<1>10. \E i \in DOMAIN buckets : [buckets EXCEPT ![j] = arg][i] = Null
  <2>1. \E i \in DOMAIN buckets' : buckets'[i] = Null
    BY <1>0, NullSlotNext DEF NullSlotLeft
  <2> QED
    BY <1>3, <2>1
<1>11. \A k \in Keys : Lookup(buckets', capacity', k) =
         IF k = arg.key THEN arg.val ELSE Lookup(buckets, capacity, k)
  BY <1>1, <1>3, <1>4, <1>7, <1>10, MapInvFacts, LookupAfterPlacing DEF MapInv
<1> QED
  BY <1>9, <1>11

\* After unmark_all no key has an entry.
LEMMA UnmarkAllMapInv ==
  ASSUME MapInv, owner = "collector", UnmarkAll, UNCHANGED owner
  PROVE  /\ MapInv'
         /\ \A k \in Keys : Lookup(buckets', capacity', k) = Null
<1>0. IInv'
  BY UnmarkAllIInv DEF MapInv
<1>1. /\ phase = "idle" /\ phase' = "idle" /\ capacity' = capacity
      /\ buckets' \in [0..(capacity - 1) -> Slots]
      /\ \A i \in 0..(capacity - 1) :
           /\ ~ Live(buckets', i)
           /\ buckets[i] = Null => buckets'[i] = Null
  BY MapInvFacts DEF UnmarkAll, Live, Slots
<1>2. WellPlaced(buckets, capacity)'
  BY <1>1 DEF WellPlaced, Live
<1>3. CallerInv' /\ MovedInv'
  BY <1>1 DEF MapInv, CallerInv, MovedInv
<1>4. \E i \in DOMAIN buckets' : buckets'[i] = Null
  BY <1>1, MapInvFacts
<1>5. \A k : ~ HasKey(buckets', capacity', k)
  BY <1>1 DEF HasKey, Holds, Live
<1>6. \A k \in Keys : Lookup(buckets', capacity', k) = Null
  BY <1>1, <1>4, <1>5, MapInvFacts, LookupMisses
<1> QED
  BY <1>0, <1>2, <1>3, <1>6 DEF MapInv

\* Every step of a frame's table and of the mark table keeps the invariant,
\* and is a step of the map or leaves the map as it is.
LEMMA NextMapInv ==
  ASSUME MapInv, [Next]_vars
  PROVE  MapInv' /\ [Map!Next]_Contents
<1>1. ASSUME UNCHANGED <<owner, buckets, capacity>>
      PROVE  Contents' = Contents
  BY <1>1 DEF Contents, Lookup, PlaceholderIndex, LookupStops, Holds, Live
<1>2. ASSUME UNCHANGED owner, FrameCall
      PROVE  MapInv' /\ Contents' = Contents
  <2>1. PICK k \in Keys, v \in Vals : owner = "frame" /\ Insert(k, v)
    BY <1>2 DEF FrameCall
  <2> QED
    BY <1>1, <1>2, <2>1, InsertMapInv DEF Insert
<1>3. ASSUME UNCHANGED owner, owner = "collector", NEW k \in Keys,
             NEW v \in Vals, Lookup(buckets, capacity, k) = Null, Insert(k, v)
      PROVE  MapInv' /\ Contents' = Contents
  BY <1>1, <1>3, InsertMapInv DEF Insert
<1>4. ASSUME UNCHANGED owner, owner = "collector", UnmarkAll
      PROVE  MapInv' /\ Map!Clear
  <2>1. /\ MapInv'
        /\ \A k \in Keys : Lookup(buckets', capacity', k) = Null
    BY <1>4, UnmarkAllMapInv
  <2> QED
    BY <2>1 DEF Map!Clear, Contents
<1>5. ASSUME UNCHANGED owner, RehashSlot
      PROVE  MapInv' /\ Contents' = Contents
  BY <1>1, <1>5, RehashSlotMapInv DEF RehashSlot
<1>6. ASSUME UNCHANGED owner, SwapBuckets
      PROVE  MapInv' /\ Contents' = Contents
  BY <1>6, SwapBucketsMapInv DEF Contents
<1>7. ASSUME UNCHANGED owner, Store
      PROVE  MapInv' /\ \E k \in Keys, v \in Vals : Map!Put(k, v)
  <2>1. /\ MapInv'
        /\ \A k \in Keys : Lookup(buckets', capacity', k) =
             IF k = arg.key THEN arg.val ELSE Lookup(buckets, capacity, k)
    BY <1>7, StoreMapInv
  <2>2. arg \in Entries
    BY <1>7, MapInvFacts DEF Store
  <2>3. arg.key \in Keys /\ arg.val \in Vals
    BY <2>2 DEF Entries
  <2>4. Map!Put(arg.key, arg.val)
    BY <2>1 DEF Map!Put, Contents
  <2> QED
    BY <2>1, <2>3, <2>4
<1>8. ASSUME UNCHANGED vars
      PROVE  MapInv' /\ Contents' = Contents
  <2>1. UNCHANGED <<owner, buckets, capacity, used, phase, arg, newBuckets, cursor>>
    BY <1>8 DEF vars
  <2> QED
    BY <1>1, <2>1
       DEF MapInv, IInv, TypeOK, LoadInv, WellPlaced, Reachable, Live,
           CallerInv, HasKey, Holds, MovedInv, Occupied, LiveBefore
<1> QED
  BY <1>2, <1>3, <1>4, <1>5, <1>6, <1>7, <1>8
     DEF Next, InsertStep, CollectorCall, Map!Next

-----------------------------------------------------------------------------
(* The theorems *)

\* The fields of a HashTable keep their types, whoever calls (shirp.h:143-147).
THEOREM TypeCorrect == Spec => []TypeOK
<1>1. TypeOK /\ LoadInv => TypeOK
  OBVIOUS
<1> QED
  BY <1>1, Load, PTL

\* No key gets a second entry, although hashtable_insert takes the first
\* tombstone it meets (environment.c:53-68).
THEOREM UniqueKeys == Spec => []KeysUnique
<1>1. MapInv /\ [Next]_vars => MapInv'
  BY NextMapInv
<1>2. MapInv => KeysUnique
  BY MapInvFacts DEF MapInv, WellPlaced, KeysUnique, Holds
<1> QED
  BY <1>1, <1>2, InitMapInv, PTL DEF Spec

\* hashtable_get, hashtable_insert and unmark_all implement a map: what was
\* stored last under a key is what is found under it, whatever collides with
\* it, is overwritten or moved by a resize in between (environment.c:25-93).
THEOREM TableIsMap == Spec => ImplementsMap
<1>1. Init => Map!Init
  <2> SUFFICES ASSUME Init PROVE Map!Init
    OBVIOUS
  <2>1. \A k : ~ HasKey(buckets, capacity, k)
    BY DEF Init, HasKey, Holds, Live
  <2>2. MapInv
    BY InitMapInv
  <2>3. \A k \in Keys : Lookup(buckets, capacity, k) = Null
    BY <2>1, <2>2, MapInvFacts, LookupMisses
  <2> QED
    BY <2>3 DEF Map!Init, Contents
<1>2. MapInv /\ [Next]_vars => MapInv' /\ [Map!Next]_Contents
  BY NextMapInv
<1> QED
  BY <1>1, <1>2, InitMapInv, PTL DEF Spec, ImplementsMap, Map!Spec
=============================================================================
