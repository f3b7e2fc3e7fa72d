----------------------------- MODULE HashTable -----------------------------
(***************************************************************************)
(* The open-addressing hash table of environment.c, used by every Frame of *)
(* the environment and by the mark table of the garbage collector.         *)
(*                                                                         *)
(* A bucket is Null, a Tombstone or an entry.  A key is looked for by      *)
(* linear probing from hash % capacity; the table doubles when the counter *)
(* `used' reaches 70% of the capacity.  Nothing else runs meanwhile, but   *)
(* hashtable_insert is cut at the turns of its loops (phase "rehash" moves *)
(* one old bucket per step, phase "store" is the final probe), so that a   *)
(* probe that would spin forever is a step that is not enabled.            *)
(*                                                                         *)
(* Keys stand for the (pointer, length) pairs compared with memcmp, Hash   *)
(* for fnv_hash: any function will do, the proofs assume nothing of it.    *)
(***************************************************************************)
EXTENDS Integers, FiniteSets

CONSTANTS
  Keys, Vals,
  Hash,              \* fnv_hash: a number for every key
  Null, Tombstone,   \* what a bucket without an entry holds
  InitialCapacity,   \* 48 for a frame, 32 for the mark table
  MaxCapacity        \* model bound: the table is not doubled beyond it

VARIABLES
  owner,                     \* whose table it is: a Frame's or the collector's
  buckets, capacity, used,   \* the fields of struct HashTable
  phase,                     \* where hashtable_insert stands
  arg,                       \* the entry it inserts
  newBuckets, cursor         \* locals of hashtable_resize

vars == <<owner, buckets, capacity, used, phase, arg, newBuckets, cursor>>

HighWatermark_Full == 100   \* mutant: double only a full table
HighWatermark == 70

Entries == [key : Keys, val : Vals]
Slots == Entries \cup {Null, Tombstone}
None == <<>>   \* newBuckets outside a resize

ASSUME HashAssumption == Hash \in [Keys -> Nat]
ASSUME SentinelAssumption ==
  /\ Null \notin Entries /\ Tombstone \notin Entries
  /\ Null # Tombstone /\ Null \notin Vals
\* With fewer than 4 buckets the watermark lets the table fill up.
ASSUME CapacityAssumption == InitialCapacity \in Nat /\ InitialCapacity >= 4
ASSUME BoundAssumption == MaxCapacity \in Nat

-----------------------------------------------------------------------------
(* Probing *)

Live(b, i) == b[i] \notin {Null, Tombstone}
Holds(b, i, k) == Live(b, i) /\ b[i].key = k
Occupied(b) == {i \in DOMAIN b : b[i] # Null}
LiveBefore(b, c) == {i \in 0..(c - 1) : Live(b, i)}

Probe(k, n, cap) == (Hash[k] + n) % cap

\* Slot j is the first one of S that probing for k comes to.
FirstInProbe(k, cap, S, j) ==
  \E n \in 0..(cap - 1) :
    /\ j = Probe(k, n, cap)
    /\ j \in S
    /\ \A m \in 0..(n - 1) : Probe(k, m, cap) \notin S

\* Where get_placeholder_index stops: at the key or at a Null bucket.
LookupStops(b, k) == {i \in DOMAIN b : b[i] = Null \/ Holds(b, i, k)}

\* The slot of k, or of the Null bucket that shows k is missing.
PlaceholderIndex(b, cap, k) ==
  CHOOSE j \in 0..(cap - 1) : FirstInProbe(k, cap, LookupStops(b, k), j)

\* hashtable_get, Null for a missing key.
Lookup(b, cap, k) ==
  LET j == PlaceholderIndex(b, cap, k)
  IN  IF b[j] = Null THEN Null ELSE b[j].val

\* Where hashtable_insert stops: anywhere free, or at the key itself.
InsertStops_Free(b, k) == {i \in DOMAIN b : ~ Live(b, i)}   \* mutant
InsertStops(b, k) == {i \in DOMAIN b : ~ Live(b, i) \/ Holds(b, i, k)}

-----------------------------------------------------------------------------
(* Operations *)

Init ==   \* new_hash_table
  /\ owner \in {"frame", "collector"}
  /\ capacity = InitialCapacity
  /\ buckets = [i \in 0..(InitialCapacity - 1) |-> Null]
  /\ used = 0
  /\ phase = "idle"
  /\ arg = Null
  /\ newBuckets = None
  /\ cursor = 0

NeedsResize == (used * 100) \div capacity >= HighWatermark

\* hashtable_insert up to its first loop: double the table or go on.
Insert(k, v) ==
  /\ phase = "idle"
  /\ arg' = [key |-> k, val |-> v]
  /\ \/ /\ NeedsResize
        /\ capacity * 2 <= MaxCapacity
        /\ phase' = "rehash"
        /\ newBuckets' = [i \in 0..(capacity * 2 - 1) |-> Null]
     \/ /\ ~ NeedsResize
        /\ phase' = "store"
        /\ UNCHANGED newBuckets
  /\ cursor' = 0
  /\ UNCHANGED <<buckets, capacity, used>>

\* One turn of the loop of hashtable_resize.
MoveEntry_OldCapacity(e) ==   \* mutant: probe with the old capacity
  \E j \in DOMAIN newBuckets :
    /\ FirstInProbe(e.key, capacity,
                    {i \in DOMAIN newBuckets : newBuckets[i] = Null}, j)
    /\ newBuckets' = [newBuckets EXCEPT ![j] = e]
MoveEntry(e) ==
  \E j \in DOMAIN newBuckets :
    /\ FirstInProbe(e.key, capacity * 2,
                    {i \in DOMAIN newBuckets : newBuckets[i] = Null}, j)
    /\ newBuckets' = [newBuckets EXCEPT ![j] = e]

RehashSlot_StuckOnEmpty ==   \* mutant: `continue' without the increment
  /\ phase = "rehash" /\ cursor < capacity
  /\ Live(buckets, cursor)
  /\ MoveEntry(buckets[cursor])
  /\ cursor' = cursor + 1
  /\ UNCHANGED <<buckets, capacity, used, phase, arg>>
RehashSlot ==
  /\ phase = "rehash" /\ cursor < capacity
  /\ IF Live(buckets, cursor)
     THEN MoveEntry(buckets[cursor])
     ELSE UNCHANGED newBuckets
  /\ cursor' = cursor + 1
  /\ UNCHANGED <<buckets, capacity, used, phase, arg>>

\* hashtable_resize installs the new array.
SwapBuckets_KeepCapacity ==   \* mutant: ht->capacity is not updated
  /\ phase = "rehash" /\ cursor = capacity
  /\ buckets' = newBuckets
  /\ newBuckets' = None
  /\ phase' = "store"
  /\ UNCHANGED <<capacity, used, arg, cursor>>
SwapBuckets ==
  /\ phase = "rehash" /\ cursor = capacity
  /\ buckets' = newBuckets
  /\ capacity' = capacity * 2
  /\ newBuckets' = None
  /\ phase' = "store"
  /\ UNCHANGED <<used, arg, cursor>>

\* The last loop of hashtable_insert: `used' counts every entry that is put
\* into a bucket, not the ones whose value is replaced.
Store ==
  /\ phase = "store"
  /\ \E j \in DOMAIN buckets :
       /\ FirstInProbe(arg.key, capacity, InsertStops(buckets, arg.key), j)
       /\ buckets' = [buckets EXCEPT ![j] = arg]
       /\ used' = IF Live(buckets, j) THEN used ELSE used + 1
  /\ phase' = "idle"
  /\ arg' = Null
  /\ UNCHANGED <<capacity, newBuckets, cursor>>

\* hashtable_delete; a missing key makes it write through index -1.
Delete(k) ==
  /\ phase = "idle"
  /\ LET j == PlaceholderIndex(buckets, capacity, k)
     IN  IF buckets[j] = Null
         THEN phase' = "crashed" /\ UNCHANGED buckets
         ELSE buckets' = [buckets EXCEPT ![j] = Tombstone] /\ UNCHANGED phase
  /\ UNCHANGED <<capacity, used, arg, newBuckets, cursor>>

\* unmark_all: every entry becomes a tombstone, `used' is left alone.
UnmarkAll_ResetUsed ==   \* mutant: the table is taken to be empty again
  /\ phase = "idle"
  /\ buckets' = [i \in DOMAIN buckets |->
                   IF Live(buckets, i) THEN Tombstone ELSE buckets[i]]
  /\ used' = 0
  /\ UNCHANGED <<capacity, phase, arg, newBuckets, cursor>>
UnmarkAll ==
  /\ phase = "idle"
  /\ buckets' = [i \in DOMAIN buckets |->
                   IF Live(buckets, i) THEN Tombstone ELSE buckets[i]]
  /\ UNCHANGED <<capacity, used, phase, arg, newBuckets, cursor>>

-----------------------------------------------------------------------------
(* How the table is used *)

InsertStep == UNCHANGED owner /\ (RehashSlot \/ SwapBuckets \/ Store)

\* A frame: variables are bound and rebound, never removed.
FrameCall == owner = "frame" /\ \E k \in Keys, v \in Vals : Insert(k, v)

\* The mark table: an address is inserted only after is_marked said no
\* (mark_object and mark_frame), and all are dropped at once.
CollectorCall ==
  /\ owner = "collector"
  /\ \/ \E k \in Keys, v \in Vals :
          Lookup(buckets, capacity, k) = Null /\ Insert(k, v)
     \/ UnmarkAll

Next == InsertStep \/ (UNCHANGED owner /\ (FrameCall \/ CollectorCall))

\* Everything shirp.h declares, in any order; nobody calls hashtable_delete.
ApiCall ==
  \/ \E k \in Keys, v \in Vals : Insert(k, v)
  \/ \E k \in Keys : Delete(k)
  \/ UnmarkAll

ApiNext == InsertStep \/ (UNCHANGED owner /\ ApiCall)

\* A call runs until it returns.
Spec == Init /\ [][Next]_vars /\ WF_vars(InsertStep)
ApiSpec == Init /\ [][ApiNext]_vars /\ WF_vars(InsertStep)

-----------------------------------------------------------------------------
(* Properties *)

TypeOK ==
  /\ owner \in {"frame", "collector"}
  /\ capacity \in Nat /\ used \in Nat /\ cursor \in Nat
  /\ buckets \in [0..(capacity - 1) -> Slots]
  /\ phase \in {"idle", "rehash", "store", "crashed"}
  /\ phase \in {"rehash", "store"} => arg \in Entries
  /\ phase = "rehash" => newBuckets \in [0..(capacity * 2 - 1) -> Slots]

\* The loops of hashtable_insert, hashtable_resize and get_placeholder_index
\* have no other exit for a missing key than a Null bucket: one is always
\* left, in the table and in the one a resize is filling.
NullSlotLeft ==
  /\ \E i \in DOMAIN buckets : buckets[i] = Null
  /\ phase = "rehash" => \E i \in DOMAIN newBuckets : newBuckets[i] = Null

\* `used' never undercounts the buckets that are not Null: overwriting a
\* tombstone counts again, unmark_all and hashtable_delete take nothing off
\* (environment.c:44, 56, 66; gbgcollector.c:91).  A resize drops tombstones,
\* so the entries moved so far are at most those it has passed.
LoadInv ==
  /\ capacity >= 4
  /\ used < capacity
  /\ Cardinality(Occupied(buckets)) <= used
  /\ phase = "store" => used * 100 < HighWatermark * capacity
  /\ phase = "rehash" =>
       /\ cursor <= capacity
       /\ Cardinality(Occupied(newBuckets)) <=
            Cardinality(LiveBefore(buckets, cursor))

\* No key has two entries, although hashtable_insert takes the first
\* tombstone it meets without looking whether the key comes later.
KeysUnique ==
  \A i, j \in DOMAIN buckets :
    (Live(buckets, i) /\ Holds(buckets, j, buckets[i].key)) => i = j

\* hashtable_get sees a map: through overwrites, collisions, tombstones and
\* resizes, what was stored last under a key is what is found under it.
Contents == [k \in Keys |-> Lookup(buckets, capacity, k)]
Map == INSTANCE KeyValueMap WITH map <- Contents, Absent <- Null
ImplementsMap == Map!Spec

\* Every insertion gets out of its loops.
InsertTerminates == (phase \in {"rehash", "store"}) ~> (phase = "idle")
=============================================================================
