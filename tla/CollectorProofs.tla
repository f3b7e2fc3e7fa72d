--------------------------- MODULE CollectorProofs ---------------------------
(***************************************************************************)
(* The collector is safe for every heap, every program of the modelled     *)
(* operations and every order in which mark_frame meets the variables:     *)
(* what the program can get at is never freed, provided that no closure is *)
(* stored in a pair (mark_object does not follow the frame of a closure);  *)
(* what it cannot get at is freed by the next collection; and the worklist *)
(* is the list of the allocated objects throughout.                        *)
(*                                                                         *)
(* Marking is argued with three colours.  An object is seen when it is     *)
(* marked or a call of mark_object waits for it, a frame when it is        *)
(* visited or a call of mark_frame waits for it; what a marked object      *)
(* refers to has been seen, so that when no call waits any more the marked *)
(* objects are closed under reference.                                     *)
(***************************************************************************)
EXTENDS Collector, CommonLemmas, FiniteSetTheorems, FunctionTheorems, TLAPS

-----------------------------------------------------------------------------
(* What holds whatever programs do *)

\* The nodes of the worklist, in order.
IsList(w) ==
  /\ w \in [0..(size - 1) -> Addr]
  /\ \A i, j \in 0..(size - 1) : w[i] = w[j] => i = j
  /\ \A i \in 0..(size - 1) : w[i] \in Allocated
  /\ \A a \in Allocated : \E i \in 0..(size - 1) : w[i] = a
  /\ head = IF size = 0 THEN Null ELSE w[0]
  /\ tail = IF size = 0 THEN Null ELSE w[size - 1]
  /\ \A i \in 0..(size - 1) :
       next[w[i]] = IF i = size - 1 THEN Null ELSE w[i + 1]

\* GC_sweep has passed the first p nodes.
SweptUpTo(w, p) ==
  /\ item = IF p = size THEN Null ELSE w[p]
  /\ prev = IF p = 0 THEN Null ELSE w[p - 1]
  /\ \A i \in 0..(p - 1) : w[i] \in marked

ListInv ==
  \E w \in [0..(size - 1) -> Addr] :
    /\ IsList(w)
    /\ phase = "sweep" => \E p \in 0..size : SweptUpTo(w, p)

\* The calls that wait on the stack of GC_mark.
Work == Elements(stack)
IsFrame(f) == f = Global \/ IsLambda(f)

StackOK ==
  /\ stack \in Seq(Calls)
  /\ \A f \in FrameNames : FrameCall(f) \in Work => IsFrame(f)
  /\ \A f \in FrameNames, L \in SUBSET Var :
       BucketCall(f, L) \in Work => IsFrame(f) /\ L \subseteq BoundVars(Table(f))
  /\ \A f \in visited : IsFrame(f)

BaseInv ==
  /\ HeapTypes
  /\ ListInv
  /\ phase = "mark" => StackOK
  /\ phase = "crashed" => stack \in Seq(Calls)
  /\ phase \in {"eval", "sweep"} => stack = <<>>
  /\ phase = "eval" => marked = {} /\ visited = {}
  /\ phase \in {"mark", "sweep"} => temps = {} /\ frames = <<>>

-----------------------------------------------------------------------------
(* What holds as long as no closure is stored in a pair *)

\* What a value may be when it is not dangling.
Safe == Allocated \cup {Static, Null}
FrameSafe(f) == \A v \in Var : f[v] # Null => cell[f[v]] \in Safe

HeapSafe ==
  /\ temps \subseteq Allocated
  /\ FrameSafe(global)
  /\ \A i \in DOMAIN frames : FrameSafe(frames[i])
  /\ \A a \in Addr : IsPair(a) => obj[a].car \in Safe /\ obj[a].cdr \in Safe
  /\ \A a \in Addr : IsLambda(a) => FrameSafe(obj[a].saved_env)

\* mark_object would not follow the frame of a closure in a pair.
PairInv ==
  \A a \in Addr : IsPair(a) => ~ IsLambda(obj[a].car) /\ ~ IsLambda(obj[a].cdr)

Seen(o) == o = Null \/ o \in marked \/ ObjectCall(o) \in Work
FrameSeen(f) == f \in visited \/ FrameCall(f) \in Work
BucketLeft(f, v) == \E L \in SUBSET Var : BucketCall(f, L) \in Work /\ v \in L

\* The three colours.
Colours ==
  /\ \A a \in Addr : a \in marked /\ IsPair(a) =>
       Seen(obj[a].car) /\ Seen(obj[a].cdr)
  /\ FrameSeen(Global)
  /\ \A f \in visited : \A v \in BoundVars(Table(f)) :
       Seen(cell[Table(f)[v]]) \/ BucketLeft(f, v)
  /\ \A a \in Addr : IsLambda(a) /\ Seen(a) => FrameSeen(a)
  /\ \A o \in Values : ObjectCall(o) \in Work => o \in Safe

\* The sets that hold what the program can get at: only that is marked.
Closure(S) == Roots \cap Addr \subseteq S /\ Closed(S)
OnlyReachable ==
  \A S \in SUBSET Addr : Closure(S) =>
    /\ marked \cap Addr \subseteq S
    /\ phase = "mark" =>
         /\ visited \cap Addr \subseteq S
         /\ \A c \in Work : c.arg \in Addr => c.arg \in S

SafeInv ==
  /\ PairInv
  /\ phase \in {"eval", "mark"} => HeapSafe
  /\ phase = "mark" => Colours
  /\ phase \in {"mark", "sweep"} =>
       marked \cap Addr \subseteq Allocated /\ OnlyReachable
  /\ phase = "sweep" =>
       Roots \cap Addr \subseteq marked /\ Closed(marked \cap Addr)

CInv == BaseInv /\ (~ ClosuresInPairs => SafeInv)

-----------------------------------------------------------------------------
(* Lemmas about the environment *)

\* A variable of the environment is a variable of one of the frames.
LEMMA EnvFacts ==
  ASSUME HeapTypes
  PROVE  /\ Env \in Frames
         /\ \A v \in BoundVars(Env) :
              \/ v \in BoundVars(global) /\ Env[v] = global[v]
              \/ \E i \in DOMAIN frames :
                   v \in BoundVars(frames[i]) /\ Env[v] = frames[i][v]
<1>1. /\ Len(frames) \in Nat /\ DOMAIN frames = 1..Len(frames)
      /\ \A i \in DOMAIN frames : frames[i] \in Frames
  BY LenProperties, ElementOfSeq DEF HeapTypes
<1>2. ASSUME NEW v \in Var, Binders(v) # {}
      PROVE  Max(Binders(v)) \in Binders(v)
  <2>1. Binders(v) \in SUBSET (0..Len(frames))
    BY <1>1 DEF Binders
  <2>2. \E n \in Binders(v) : \A m \in Binders(v) : m <= n
    BY <1>1, <1>2, <2>1, GreatestNatural
  <2>3. \E n \in Binders(v) : \A m \in Binders(v) : n >= m
    BY <2>1, <2>2
  <2> QED
    BY <2>3 DEF Max
<1>3. ASSUME NEW v \in Var
      PROVE  /\ Env[v] \in Cell \cup {Null}
             /\ Env[v] # Null =>
                  \/ Env[v] = global[v]
                  \/ \E i \in DOMAIN frames : Env[v] = frames[i][v]
  <2>1. CASE Binders(v) = {}
    BY <2>1 DEF Env, HeapTypes, Frames
  <2>2. CASE Binders(v) # {}
    <3>1. Max(Binders(v)) \in DOMAIN frames
      BY <1>2, <2>2 DEF Binders
    <3>2. Env[v] = frames[Max(Binders(v))][v]
      BY <2>2 DEF Env
    <3> QED
      BY <1>1, <3>1, <3>2 DEF Frames
  <2> QED
    BY <2>1, <2>2
<1>4. Env \in Frames
  BY <1>3 DEF Env, Frames
<1> QED
  BY <1>3, <1>4 DEF BoundVars

\* What an expression can evaluate to is a value; of the frames' variables.
LEMMA UsableFacts ==
  ASSUME HeapTypes
  PROVE  Usable \subseteq Values
<1>1. Env \in Frames
  BY EnvFacts
<1>2. \A v \in BoundVars(Env) : Env[v] \in Cell
  BY <1>1 DEF BoundVars, Frames
<1> QED
  BY <1>2 DEF Usable, HeapTypes, Values

\* Copying frames gives frames.
LEMMA CopyFrameType ==
  ASSUME NEW dst \in Frames, NEW src \in Frames
  PROVE  CopyFrame(dst, src) \in Frames
BY DEF CopyFrame, Frames

\* The objects that are allocated, and the kinds of them.
LEMMA ObjFacts ==
  ASSUME HeapTypes, NEW a \in Addr
  PROVE  /\ obj[a] \in Objects
         /\ IsPair(a) => /\ a \in Allocated
                         /\ obj[a].car \in Values /\ obj[a].cdr \in Values
         /\ IsLambda(a) => a \in Allocated /\ obj[a].saved_env \in Frames
BY DEF HeapTypes, Objects, IsPair, IsLambda, Allocated, Free, Atom, Pairs, Lambdas

-----------------------------------------------------------------------------
(* Lemmas about the worklist *)

\* GC_register appends the new object.
LEMMA NewListInv ==
  ASSUME HeapTypes, ListInv, phase = "eval", phase' = "eval",
         NEW a \in Addr, NEW o \in Objects, o.typ # "free", New(a, o)
  PROVE  /\ obj' \in [Addr -> Objects]
         /\ head' \in Addr \cup {Null} /\ tail' \in Addr \cup {Null}
         /\ next' \in [Addr -> Addr \cup {Null}] /\ size' \in Nat
         /\ ListInv'
<1>1. PICK w \in [0..(size - 1) -> Addr] : IsList(w)
  BY DEF ListInv
<1>2. /\ size \in Nat /\ size' = size + 1 /\ 0..(size' - 1) = 0..size
      /\ obj' = [obj EXCEPT ![a] = o] /\ a \notin Allocated
      /\ head' = IF head = Null THEN a ELSE head
      /\ tail' = a
      /\ next' = [b \in Addr |-> IF b = a THEN Null
                                 ELSE IF head # Null /\ b = tail THEN a
                                 ELSE next[b]]
  BY DEF New, GC_register, HeapTypes
<1>3. Allocated' = Allocated \cup {a}
  BY <1>2 DEF Allocated, HeapTypes
<1>4. PICK u \in [0..size -> Addr] :
        /\ u[size] = a
        /\ \A i \in 0..(size - 1) : u[i] = w[i]
  <2> DEFINE x == [i \in 0..size |-> IF i < size THEN w[i] ELSE a]
  <2>1. /\ x \in [0..size -> Addr] /\ x[size] = a
        /\ \A i \in 0..(size - 1) : x[i] = w[i]
    BY <1>1, <1>2 DEF IsList
  <2> HIDE DEF x
  <2> QED
    BY <2>1
<1>5. /\ \A i \in 0..(size - 1) : u[i] = w[i] /\ w[i] \in Allocated
      /\ \A i \in 0..size : i = size \/ i \in 0..(size - 1)
  BY <1>1, <1>2, <1>4 DEF IsList
<1>6. \A i, j \in 0..size : u[i] = u[j] => i = j
  BY <1>1, <1>2, <1>4, <1>5 DEF IsList
<1>7. ASSUME NEW i \in 0..size
      PROVE  u[i] \in Allocated'
  <2>1. CASE i = size
    BY <1>3, <1>4, <2>1
  <2>2. CASE i # size
    <3>1. i \in 0..(size - 1)
      BY <1>2, <2>2
    <3>2. u[i] \in Allocated
      BY <1>5, <3>1
    <3> QED
      BY <1>3, <3>2
  <2> QED
    BY <2>1, <2>2
<1>8. \A b \in Allocated' : \E i \in 0..size : u[i] = b
  <2>1. ASSUME NEW b \in Allocated
        PROVE  \E i \in 0..size : u[i] = b
    <3>1. PICK i \in 0..(size - 1) : w[i] = b
      BY <1>1 DEF IsList
    <3> QED
      BY <1>2, <1>4, <1>5, <3>1
  <2> QED
    BY <1>2, <1>3, <1>4, <1>5, <2>1
<1>9. head' = u[0] /\ tail' = u[size]
  <2>1. CASE size = 0
    BY <1>1, <1>2, <1>4, <1>5, <2>1 DEF IsList
  <2>2. CASE size # 0
    BY <1>1, <1>2, <1>4, <1>5, <2>2, NameAssumption DEF IsList
  <2> QED
    BY <2>1, <2>2
<1>10. ASSUME NEW i \in 0..size
      PROVE  next'[u[i]] = IF i = size THEN Null ELSE u[i + 1]
  <2>1. CASE i = size
    BY <1>2, <1>4, <1>5, <2>1
  <2>2. CASE i # size
    <3>1. i \in 0..(size - 1) /\ u[i] = w[i] /\ w[i] # a
      BY <1>2, <1>4, <1>5, <2>2
    <3>2. head # Null /\ tail = w[size - 1] /\ size - 1 \in 0..(size - 1)
      BY <1>1, <1>2, <3>1, NameAssumption DEF IsList
    <3>3. CASE i = size - 1
      BY <1>2, <1>4, <1>5, <3>1, <3>2, <3>3
    <3>4. CASE i # size - 1
      <4>1. i + 1 \in 0..(size - 1) /\ w[i] # tail
        BY <1>1, <1>2, <3>1, <3>2, <3>4 DEF IsList
      <4>2. w[i] \in Addr /\ next[w[i]] = w[i + 1]
        BY <1>1, <3>1, <3>4 DEF IsList
      <4>3. next'[w[i]] = next[w[i]]
        BY <1>2, <3>1, <4>1, <4>2
      <4>4. u[i + 1] = w[i + 1]
        BY <1>5, <4>1
      <4> QED
        BY <2>2, <3>1, <4>2, <4>3, <4>4
    <3> QED
      BY <3>3, <3>4
  <2> QED
    BY <2>1, <2>2
<1>11. IsList(u)'
  <2>1. size' # 0 /\ size' - 1 = size
    BY <1>2
  <2> QED
    BY <1>6, <1>7, <1>8, <1>9, <1>10, <2>1, SMTT(30) DEF IsList
<1>12. ListInv'
  BY <1>2, <1>4, <1>11 DEF ListInv
<1> QED
  BY <1>2, <1>12 DEF HeapTypes

\* GC_sweep passes a marked node, and takes an unmarked one out of the list.
LEMMA SweepListInv ==
  ASSUME HeapTypes, ListInv, SweepItem
  PROVE  /\ obj' \in [Addr -> Objects]
         /\ head' \in Addr \cup {Null} /\ tail' \in Addr \cup {Null}
         /\ next' \in [Addr -> Addr \cup {Null}] /\ size' \in Nat
         /\ item \in Addr
         /\ ListInv'
<1>1. phase = "sweep" /\ phase' = "sweep" /\ item # Null /\ marked' = marked
      /\ item' = next[item] /\ size \in Nat
  BY DEF SweepItem, markVars, HeapTypes
<1>2. PICK w \in [0..(size - 1) -> Addr], p \in 0..size :
        IsList(w) /\ SweptUpTo(w, p)
  BY <1>1 DEF ListInv
<1>3. p \in 0..(size - 1) /\ item = w[p] /\ item \in Addr
  BY <1>1, <1>2 DEF SweptUpTo
<1>4. item' = IF p = size - 1 THEN Null ELSE w[p + 1]
  BY <1>1, <1>2, <1>3 DEF IsList
<1>5. CASE item \in marked
  <2>1. prev' = item /\ UNCHANGED <<obj, head, tail, next, size>>
    BY <1>5 DEF SweepItem, listVars
  <2>2. IsList(w)'
    BY <1>2, <2>1 DEF IsList, Allocated
  <2>3. SweptUpTo(w, p + 1)'
    <3>1. \A i \in 0..p : w[i] \in marked
      BY <1>2, <1>3, <1>5 DEF SweptUpTo
    <3>2. /\ item' = IF p + 1 = size THEN Null ELSE w[p + 1]
          /\ prev' = w[p] /\ p + 1 # 0 /\ (p + 1) - 1 = p
      BY <1>1, <1>3, <1>4, <2>1
    <3> QED
      BY <1>1, <2>1, <3>1, <3>2 DEF SweptUpTo
  <2>4. ListInv'
    BY <1>1, <1>3, <2>1, <2>2, <2>3 DEF ListInv
  <2> QED
    BY <1>3, <2>1, <2>4 DEF HeapTypes
<1>6. CASE item \notin marked
  <2>1. /\ prev' = prev
        /\ head' = IF prev = Null THEN next[item] ELSE head
        /\ next' = [b \in Addr |-> IF b = prev THEN next[item]
                                   ELSE IF b = item THEN Null ELSE next[b]]
        /\ tail' = IF item = tail THEN prev ELSE tail
        /\ obj' = [obj EXCEPT ![item] = Free]
        /\ size' = size - 1
    BY <1>6 DEF SweepItem, sweep_worklist_item
  <2>2. Allocated' = Allocated \ {item}
    BY <1>3, <2>1 DEF Allocated, HeapTypes, Free
  <2>3. size' \in Nat /\ 0..(size' - 1) = 0..(size - 2)
    BY <1>1, <1>3, <2>1
  <2>4. PICK u \in [0..(size - 2) -> Addr] :
          \A i \in 0..(size - 2) : u[i] = IF i < p THEN w[i] ELSE w[i + 1]
    <3> DEFINE x == [i \in 0..(size - 2) |-> IF i < p THEN w[i] ELSE w[i + 1]]
    <3>1. x \in [0..(size - 2) -> Addr]
      BY <1>1, <1>3
    <3>2. \A i \in 0..(size - 2) : x[i] = IF i < p THEN w[i] ELSE w[i + 1]
      OBVIOUS
    <3> HIDE DEF x
    <3> QED
      BY <3>1, <3>2
  <2>5. \A i, j \in 0..(size - 1) : w[i] = w[j] => i = j
    BY <1>2 DEF IsList
  <2>6. \A i, j \in 0..(size - 2) : u[i] = u[j] => i = j
    BY <1>1, <1>3, <2>4, <2>5
  <2>7. ASSUME NEW i \in 0..(size - 2)
        PROVE  u[i] \in Allocated' /\ u[i] # item
    <3>1. PICK k \in 0..(size - 1) : u[i] = w[k] /\ k # p
      BY <1>1, <1>3, <2>4
    <3>2. w[k] \in Allocated /\ w[k] # item
      BY <1>2, <1>3, <2>5, <3>1 DEF IsList
    <3> QED
      BY <2>2, <3>1, <3>2
  <2>8. ASSUME NEW a \in Allocated'
        PROVE  \E i \in 0..(size - 2) : u[i] = a
    <3>1. PICK k \in 0..(size - 1) : w[k] = a
      BY <1>2, <2>2 DEF IsList
    <3>2. k # p
      BY <1>3, <2>2, <3>1
    <3>3. CASE k < p
      BY <1>1, <1>3, <2>4, <3>1, <3>3
    <3>4. CASE k > p
      <4>1. k - 1 \in 0..(size - 2) /\ u[k - 1] = w[k]
        BY <1>1, <1>3, <2>4, <3>4
      <4> QED
        BY <3>1, <4>1
    <3> QED
      BY <1>3, <3>2, <3>3, <3>4
  <2>9. next[item] = IF p = size - 1 THEN Null ELSE w[p + 1]
    BY <1>2, <1>3 DEF IsList
  <2>10. /\ prev = IF p = 0 THEN Null ELSE w[p - 1]
         /\ prev = Null <=> p = 0
         /\ p # 0 => p - 1 \in 0..(size - 1)
    BY <1>1, <1>2, <1>3, NameAssumption DEF SweptUpTo
  <2>11. head' = IF size - 1 = 0 THEN Null ELSE u[0]
    BY <1>1, <1>2, <1>3, <2>1, <2>4, <2>9, <2>10 DEF IsList
  <2>12. tail' = IF size - 1 = 0 THEN Null ELSE u[size - 2]
    <3>1. tail = w[size - 1] /\ size - 1 \in 0..(size - 1)
      BY <1>1, <1>2, <1>3 DEF IsList
    <3>2. item = tail <=> p = size - 1
      BY <1>3, <2>5, <3>1
    <3>3. CASE p = size - 1
      BY <1>1, <1>3, <2>1, <2>4, <2>10, <3>2, <3>3
    <3>4. CASE p # size - 1
      <4>1. size - 2 \in 0..(size - 2) /\ u[size - 2] = w[size - 1]
        BY <1>1, <1>3, <2>4, <3>4
      <4> QED
        BY <1>1, <1>3, <2>1, <3>1, <3>2, <3>4, <4>1
    <3> QED
      BY <3>3, <3>4
  <2>13. ASSUME NEW i \in 0..(size - 2)
         PROVE  next'[u[i]] = IF i = size - 2 THEN Null ELSE u[i + 1]
    <3>1. u[i] \in Addr /\ u[i] # item
      BY <2>4, <2>7
    <3>2. CASE i = p - 1
      <4>1. u[i] = prev
        BY <1>1, <1>3, <2>4, <2>10, <3>2
      <4>2. next'[u[i]] = next[item]
        BY <2>1, <3>1, <4>1
      <4>3. p # size - 1 => i + 1 \in 0..(size - 2) /\ u[i + 1] = w[p + 1]
        BY <1>1, <1>3, <2>4, <3>2
      <4> QED
        BY <1>1, <1>3, <2>9, <3>2, <4>2, <4>3
    <3>3. CASE i # p - 1
      <4>1. PICK k \in 0..(size - 1) : k = IF i < p THEN i ELSE i + 1
        BY <1>1, <1>3
      <4>2. u[i] = w[k] /\ k # p /\ (p # 0 => k # p - 1)
        BY <1>1, <1>3, <2>4, <3>3, <4>1
      <4>3. u[i] # prev
        BY <1>3, <2>5, <2>10, <3>1, <4>2, NameAssumption
      <4>4. next'[u[i]] = next[w[k]]
        BY <2>1, <3>1, <4>2, <4>3
      <4>5. next[w[k]] = IF k = size - 1 THEN Null ELSE w[k + 1]
        BY <1>2 DEF IsList
      <4>6. /\ k = size - 1 <=> i = size - 2
            /\ i # size - 2 => i + 1 \in 0..(size - 2) /\ u[i + 1] = w[k + 1]
        BY <1>1, <1>3, <2>4, <3>3, <4>1
      <4> QED
        BY <4>4, <4>5, <4>6
    <3> QED
      BY <3>2, <3>3
  <2>14. IsList(u)'
    <3>1. size' - 1 = size - 2 /\ (size' = 0 <=> size - 1 = 0)
      BY <1>1, <2>1
    <3> QED
      BY <2>6, <2>7, <2>8, <2>11, <2>12, <2>13, <3>1, SMTT(30) DEF IsList
  <2>15. SweptUpTo(u, p)'
    <3>1. \A i \in 0..(p - 1) : u[i] = w[i]
      BY <1>1, <1>3, <2>4
    <3>2. p # size - 1 => p \in 0..(size - 2) /\ u[p] = w[p + 1]
      BY <1>1, <1>3, <2>4
    <3>3. p # 0 => p - 1 \in 0..(p - 1)
      BY <1>3
    <3> QED
      BY <1>1, <1>2, <1>4, <2>1, <3>1, <3>2, <3>3 DEF SweptUpTo
  <2>16. ListInv'
    BY <1>1, <1>3, <2>1, <2>3, <2>14, <2>15 DEF ListInv
  <2>17. /\ next' \in [Addr -> Addr \cup {Null}]
         /\ head' \in Addr \cup {Null} /\ tail' \in Addr \cup {Null}
         /\ obj' \in [Addr -> Objects]
    BY <1>3, <2>1 DEF HeapTypes, Objects
  <2> QED
    BY <1>3, <2>3, <2>16, <2>17
<1> QED
  BY <1>5, <1>6

-----------------------------------------------------------------------------
(* Types and the worklist: every step keeps BaseInv *)

\* The empty heap.
LEMMA InitBase == Init => BaseInv
<1> SUFFICES ASSUME Init PROVE BaseInv
  OBVIOUS
<1>1. HeapTypes
  BY EmptySeq DEF Init, HeapTypes, Objects, Values, Frames, EmptyFrame
<1>2. ListInv
  <2>1. Allocated = {}
    BY DEF Init, Allocated, Free
  <2>2. PICK w : w = [i \in 0..(size - 1) |-> Null]
    OBVIOUS
  <2>3. 0..(size - 1) = {} /\ size = 0 /\ phase = "eval"
    BY DEF Init
  <2>4. w \in [0..(size - 1) -> Addr] /\ IsList(w)
    BY <2>1, <2>2, <2>3 DEF IsList, Init
  <2> QED
    BY <2>3, <2>4 DEF ListInv
<1> QED
  BY <1>1, <1>2 DEF BaseInv, Init

\* Steps that allocate and free nothing leave the worklist as it is.
LEMMA ListUnchanged ==
  ASSUME ListInv, UNCHANGED <<obj, listVars>>, phase' # "sweep"
  PROVE  ListInv'
<1>1. PICK w \in [0..(size - 1) -> Addr] : IsList(w)
  BY DEF ListInv
<1>2. UNCHANGED <<obj, head, tail, next, size>>
  BY DEF listVars
<1>3. IsList(w)'
  BY <1>1, <1>2 DEF IsList, Allocated
<1> QED
  BY <1>1, <1>2, <1>3 DEF ListInv

\* The evaluator does not touch what the collector works with.
LEMMA EvaluatingBase ==
  ASSUME BaseInv, Evaluating, HeapTypes', ListInv'
  PROVE  BaseInv'
BY DEF BaseInv, Evaluating, markVars

\* frame_insert_obj and the values in hand keep their types.
LEMMA BindType ==
  ASSUME HeapTypes, NEW v \in Var, NEW c \in Cell, Bind(v, c)
  PROVE  global' \in Frames /\ frames' \in Seq(Frames)
<1>1. CASE frames = <<>>
  BY <1>1 DEF Bind, HeapTypes, Frames
<1>2. CASE frames # <<>>
  <2>1. Len(frames) \in 1..Len(frames) /\ frames[Len(frames)] \in Frames
    BY <1>2, EmptySeq, LenProperties, ElementOfSeq DEF HeapTypes
  <2>2. [frames[Len(frames)] EXCEPT ![v] = c] \in Frames
    BY <2>1 DEF Frames
  <2>3. [frames EXCEPT ![Len(frames)] = [frames[Len(frames)] EXCEPT ![v] = c]]
          \in Seq(Frames)
    BY <2>1, <2>2, ExceptSeq DEF HeapTypes
  <2> QED
    BY <1>2, <2>3 DEF Bind, HeapTypes
<1> QED
  BY <1>1, <1>2

LEMMA HoldType ==
  ASSUME HeapTypes, NEW used, NEW o, Hold(used, o)
  PROVE  temps' \subseteq Addr
BY DEF Hold, HeapTypes

LEMMA EvaluateBase == BaseInv /\ Evaluate => BaseInv'
<1> SUFFICES ASSUME BaseInv, Evaluate PROVE BaseInv'
  OBVIOUS
<1>0. HeapTypes /\ ListInv /\ Atom \in Objects /\ Atom.typ # "free"
  BY DEF BaseInv, Objects, Atom
<1> SUFFICES ASSUME Evaluating PROVE HeapTypes' /\ ListInv'
  BY EvaluatingBase DEF Evaluate, NewAtom, NewPair, Part, Lambda, Define,
                        DefineLambda, Set, Call, Return
<1>e. /\ phase = "eval" /\ phase' = "eval"
      /\ UNCHANGED <<marked, visited, prev, item>>
  BY DEF Evaluating, markVars, sweepVars
<1>1. CASE NewAtom
  <2>1. PICK a \in Addr : New(a, Atom) /\ Hold({}, a)
    BY <1>1 DEF NewAtom
  <2>2. UNCHANGED <<cell, global, frames>>
    BY <1>1 DEF NewAtom
  <2> QED
    BY <1>0, <1>e, <2>1, <2>2, NewListInv, HoldType DEF HeapTypes
<1>2. CASE NewPair
  <2>1. PICK x \in Usable, y \in Usable, a \in Addr :
          New(a, [typ |-> "pair", car |-> x, cdr |-> y]) /\ Hold({x, y}, a)
    BY <1>2 DEF NewPair
  <2>2. UNCHANGED <<cell, global, frames>>
    BY <1>2 DEF NewPair
  <2>3. [typ |-> "pair", car |-> x, cdr |-> y] \in Objects
    BY <1>0, UsableFacts DEF Objects, Pairs
  <2> QED
    BY <1>0, <1>e, <2>1, <2>2, <2>3, NewListInv, HoldType DEF HeapTypes
<1>3. CASE Part
  <2>1. temps' \subseteq Addr
    BY <1>0, <1>3, HoldType DEF Part
  <2>2. UNCHANGED <<obj, cell, global, frames, listVars>>
    BY <1>3 DEF Part
  <2> QED
    BY <1>0, <1>e, <2>1, <2>2, ListUnchanged DEF HeapTypes, listVars
<1>4. CASE Lambda
  <2>1. PICK a \in Addr :
          New(a, [typ |-> "lambda", saved_env |-> Env]) /\ Hold({}, a)
    BY <1>4 DEF Lambda
  <2>2. UNCHANGED <<cell, global, frames>>
    BY <1>4 DEF Lambda
  <2>3. [typ |-> "lambda", saved_env |-> Env] \in Objects
    BY <1>0, EnvFacts DEF Objects, Lambdas
  <2> QED
    BY <1>0, <1>e, <2>1, <2>2, <2>3, NewListInv, HoldType DEF HeapTypes
<1>5. CASE Define
  <2>1. PICK v \in Var, c \in Cell, o \in Usable \cup {Null} :
          /\ cell' = [cell EXCEPT ![c] = o]
          /\ Bind(v, c)
          /\ temps' = temps \ {o}
    BY <1>5 DEF Define
  <2>2. o \in Values
    BY <1>0, UsableFacts DEF Values
  <2>3. cell' \in [Cell -> Values] /\ temps' \subseteq Addr
    BY <1>0, <2>1, <2>2 DEF HeapTypes
  <2>4. UNCHANGED <<obj, listVars>>
    BY <1>5 DEF Define
  <2> QED
    BY <1>0, <1>e, <2>1, <2>3, <2>4, BindType, ListUnchanged
       DEF HeapTypes, listVars
<1>6. CASE DefineLambda
  <2>1. PICK v \in Var, c \in Cell, a \in Addr :
          /\ cell' = [cell EXCEPT ![c] = a]
          /\ Bind(v, c)
          /\ New(a, [typ |-> "lambda", saved_env |-> [Env EXCEPT ![v] = c]])
    BY <1>6 DEF DefineLambda
  <2>2. cell' \in [Cell -> Values] /\ temps' = temps
    BY <1>0, <1>6, <2>1 DEF HeapTypes, Values, DefineLambda
  <2>3. [Env EXCEPT ![v] = c] \in Frames
    BY <1>0, EnvFacts DEF Frames
  <2>4. [typ |-> "lambda", saved_env |-> [Env EXCEPT ![v] = c]] \in Objects
    BY <2>3 DEF Objects, Lambdas
  <2> QED
    BY <1>0, <1>e, <2>1, <2>2, <2>4, BindType, NewListInv DEF HeapTypes
<1>7. CASE Set
  <2>1. PICK v \in BoundVars(Env), o \in Usable :
          cell' = [cell EXCEPT ![Env[v]] = o]
    BY <1>7 DEF Set
  <2>2. UNCHANGED <<obj, global, frames, temps, listVars>>
    BY <1>7 DEF Set
  <2>3. cell' \in [Cell -> Values]
    BY <1>0, <2>1, UsableFacts DEF HeapTypes
  <2> QED
    BY <1>0, <1>e, <2>2, <2>3, ListUnchanged DEF HeapTypes, listVars
<1>8. CASE Call
  <2>1. PICK f \in Usable, o \in Usable, c \in Cell :
          /\ IsLambda(f)
          /\ cell' = [cell EXCEPT ![c] = o]
          /\ LET args == [EmptyFrame EXCEPT ![Formal] = c]
                 Enter(f0) == CopyFrame(CopyFrame(f0, obj[f].saved_env), args)
             IN  \/ frames' = Append(frames, Enter(EmptyFrame))
                 \/ /\ frames # <<>>
                    /\ frames' = [frames EXCEPT ![Len(frames)] = Enter(@)]
    BY <1>8 DEF Call
  <2> DEFINE args == [EmptyFrame EXCEPT ![Formal] = c]
             Enter(f0) == CopyFrame(CopyFrame(f0, obj[f].saved_env), args)
  <2>2. UNCHANGED <<obj, global, temps, listVars>>
    BY <1>8 DEF Call
  <2>3. cell' \in [Cell -> Values]
    BY <1>0, <2>1, UsableFacts DEF HeapTypes
  <2>4. EmptyFrame \in Frames /\ args \in Frames
    BY DEF EmptyFrame, Frames
  <2>5. obj[f].saved_env \in Frames
    BY <1>0, <2>1, ObjFacts DEF IsLambda
  <2>6. \A f0 \in Frames : Enter(f0) \in Frames
    BY <2>4, <2>5, CopyFrameType
  <2> HIDE DEF args, Enter
  <2>7. CASE frames' = Append(frames, Enter(EmptyFrame))
    <3>1. frames' \in Seq(Frames)
      BY <1>0, <2>4, <2>6, <2>7, AppendProperties DEF HeapTypes
    <3> QED
      BY <1>0, <1>e, <2>2, <2>3, <3>1, ListUnchanged DEF HeapTypes, listVars
  <2>8. CASE /\ frames # <<>>
             /\ frames' = [frames EXCEPT ![Len(frames)] = Enter(@)]
    <3>1. Len(frames) \in 1..Len(frames) /\ frames[Len(frames)] \in Frames
      BY <1>0, <2>8, EmptySeq, LenProperties, ElementOfSeq DEF HeapTypes
    <3>2. frames' \in Seq(Frames)
      BY <1>0, <2>6, <2>8, <3>1, ExceptSeq DEF HeapTypes
    <3> QED
      BY <1>0, <1>e, <2>2, <2>3, <3>2, ListUnchanged DEF HeapTypes, listVars
  <2> QED
    BY <2>1, <2>7, <2>8 DEF Enter, args
<1>9. CASE Return
  <2>1. UNCHANGED <<obj, cell, global, listVars>> /\ temps' \subseteq Addr
    BY <1>0, <1>9, HoldType DEF Return
  <2>2. frames # <<>> /\ frames' = SubSeq(frames, 1, Len(frames) - 1)
    BY <1>9 DEF Return, Front
  <2>3. frames' \in Seq(Frames)
    <3>1. /\ Len(frames) \in Nat
          /\ \A i \in 1..(Len(frames) - 1) : frames[i] \in Frames
      BY <1>0, LenProperties, ElementOfSeq DEF HeapTypes
    <3> QED
      BY <2>2, <3>1, SubSeqProperties
  <2> QED
    BY <1>0, <1>e, <2>1, <2>3, ListUnchanged DEF HeapTypes, listVars
<1> QED
  BY <1>1, <1>2, <1>3, <1>4, <1>5, <1>6, <1>7, <1>8, <1>9 DEF Evaluate

\* The frame tables that waiting calls read.
LEMMA TableType ==
  ASSUME HeapTypes, NEW f, IsFrame(f)
  PROVE  /\ Table(f) \in Frames
         /\ \A v \in BoundVars(Table(f)) : cell[Table(f)[v]] \in Values
<1>1. Table(f) \in Frames
  BY ObjFacts DEF IsFrame, Table, HeapTypes, IsLambda
<1> QED
  BY <1>1 DEF BoundVars, Frames, HeapTypes

\* The kinds of calls differ, and a call determines its arguments.
LEMMA CallFacts ==
  /\ \A o, p : ObjectCall(o) = ObjectCall(p) => o = p
  /\ \A f, g : FrameCall(f) = FrameCall(g) => f = g
  /\ \A f, g, L, M : BucketCall(f, L) = BucketCall(g, M) => f = g /\ L = M
  /\ \A o, f : ObjectCall(o) # FrameCall(f)
  /\ \A o, f, L : ObjectCall(o) # BucketCall(f, L)
  /\ \A f, g, L : FrameCall(f) # BucketCall(g, L)
BY DEF ObjectCall, FrameCall, BucketCall

\* GC_mark begins with the toplevel frame.
LEMMA GCcollectBase ==
  ASSUME BaseInv, GC_collect
  PROVE  BaseInv'
<1>1. /\ phase = "eval" /\ phase' = "mark" /\ temps' = {} /\ frames' = <<>>
      /\ stack' = <<[call |-> "mark_frame", arg |-> Global]>>
      /\ UNCHANGED <<obj, global, frames, listVars, marked, visited, sweepVars>>
  BY DEF GC_collect
<1>2. cell' \in [Cell -> Values]
  BY DEF GC_collect, BaseInv, HeapTypes, Values
<1>3. HeapTypes'
  BY <1>1, <1>2 DEF BaseInv, HeapTypes, listVars, sweepVars
<1>4. ListInv'
  BY <1>1, ListUnchanged DEF BaseInv
<1>5. StackOK'
  <2>1. FrameCall(Global) \in Calls /\ stack' = <<FrameCall(Global)>>
    <3>1. FrameCall(Global) \in Calls
      BY DEF Calls, FrameNames
    <3> QED
      BY <1>1, <3>1 DEF FrameCall
  <2>2. stack' \in Seq(Calls) /\ Elements(stack') = {FrameCall(Global)}
    BY <2>1, PushedCalls
  <2>3. visited' = {}
    BY <1>1 DEF BaseInv
  <2>4. /\ \A f \in FrameNames : FrameCall(f) = FrameCall(Global) => f = Global
        /\ \A f \in FrameNames, L \in SUBSET Var :
             BucketCall(f, L) # FrameCall(Global)
    BY CallFacts
  <2> QED
    BY <2>2, <2>3, <2>4 DEF StackOK, IsFrame, Work
<1> QED
  BY <1>1, <1>3, <1>4, <1>5 DEF BaseInv

\* A step of GC_mark takes the call c off the stack and pushes some calls.
Makes(c, calls) ==
  /\ stack' \in Seq(Calls) /\ c \in Work /\ calls \subseteq Calls
  /\ Work' \subseteq Work \cup calls
  /\ calls \cup (Work \ {c}) \subseteq Work'

LEMMA ContinueMakes ==
  ASSUME stack \in Seq(Calls), stack # <<>>, NEW calls \in Seq(Calls),
         Continue(calls)
  PROVE  Makes(Head(stack), Elements(calls))
<1>1. /\ Head(stack) \in Elements(stack)
      /\ calls \o Tail(stack) \in Seq(Calls)
      /\ Elements(calls \o Tail(stack)) \subseteq Elements(calls) \cup Elements(stack)
      /\ Elements(calls) \cup (Elements(stack) \ {Head(stack)})
           \subseteq Elements(calls \o Tail(stack))
  BY StackStep
<1>2. stack' = calls \o Tail(stack)
  BY DEF Continue
<1>3. Elements(calls) \subseteq Calls
  BY ElementOfSeq DEF Elements
<1> QED
  BY <1>1, <1>2, <1>3 DEF Makes, Work

\* What mark_object (gbgcollector.c:64-72) leaves to be done.
LEMMA MarkObjectStep ==
  ASSUME BaseInv, mark_object
  PROVE  /\ phase = "mark" /\ phase' = "mark" /\ visited' = visited
         /\ UNCHANGED <<obj, mutatorVars, listVars, sweepVars>>
         /\ \E o \in Values :
              \/ /\ o = Null \/ o \in marked
                 /\ marked' = marked /\ Makes(ObjectCall(o), {})
              \/ /\ o # Null /\ ~ IsPair(o)
                 /\ marked' = marked \cup {o} /\ Makes(ObjectCall(o), {})
              \/ /\ IsPair(o) /\ o # Null
                 /\ marked' = marked \cup {o}
                 /\ Makes(ObjectCall(o), {ObjectCall(obj[o].car),
                                          ObjectCall(obj[o].cdr)})
<1>1. /\ phase = "mark" /\ phase' = "mark" /\ visited' = visited
      /\ UNCHANGED <<obj, mutatorVars, listVars, sweepVars>>
      /\ stack # <<>> /\ Head(stack).call = "mark_object"
  BY DEF mark_object, Marking, Pending
<1>2. stack \in Seq(Calls) /\ Head(stack) \in Calls /\ HeapTypes
  BY <1>1, StackPop DEF BaseInv, StackOK
<1>3. PICK o \in Values : Head(stack) = ObjectCall(o)
  BY <1>1, <1>2 DEF Calls, ObjectCall, FrameCall, BucketCall
<1>4. Head(stack).arg = o
  BY <1>3 DEF ObjectCall
<1>5. ASSUME Continue(<<>>)
      PROVE  Makes(ObjectCall(o), {})
  BY <1>1, <1>2, <1>3, <1>5, ContinueMakes, PushedCalls
<1>6. ASSUME NEW x \in Values, NEW y \in Values,
             Continue(<<ObjectCall(x), ObjectCall(y)>>)
      PROVE  Makes(ObjectCall(o), {ObjectCall(x), ObjectCall(y)})
  <2>1. ObjectCall(x) \in Calls /\ ObjectCall(y) \in Calls
    BY DEF Calls
  <2>2. PICK calls \in Seq(Calls) :
          /\ calls = <<ObjectCall(x), ObjectCall(y)>>
          /\ Elements(calls) = {ObjectCall(x), ObjectCall(y)}
    <3>1. PICK a \in Calls, b \in Calls : a = ObjectCall(x) /\ b = ObjectCall(y)
      BY <2>1
    <3>2. <<a, b>> \in Seq(Calls) /\ Elements(<<a, b>>) = {a, b}
      BY PushedCalls
    <3> QED
      BY <3>1, <3>2
  <2> QED
    BY <1>1, <1>2, <1>3, <1>6, <2>2, ContinueMakes
<1>7. CASE o = Null \/ o \in marked
  BY <1>1, <1>4, <1>5, <1>7 DEF mark_object
<1>8. CASE o # Null /\ o \notin marked /\ ~ IsPair(o)
  BY <1>1, <1>4, <1>5, <1>8 DEF mark_object
<1>9. CASE o # Null /\ o \notin marked /\ IsPair(o)
  <2>1. obj[o].car \in Values /\ obj[o].cdr \in Values
    BY <1>2, <1>9, ObjFacts DEF IsPair
  <2>2. /\ marked' = marked \cup {o}
        /\ Continue(<<ObjectCall(obj[o].car), ObjectCall(obj[o].cdr)>>)
    BY <1>4, <1>9 DEF mark_object, ObjectCall
  <2> QED
    BY <1>1, <1>6, <1>9, <2>1, <2>2
<1> QED
  BY <1>7, <1>8, <1>9

\* What mark_frame leaves to be done before its loop (gbgcollector.c:74-79).
LEMMA MarkFrameStep ==
  ASSUME BaseInv, mark_frame
  PROVE  /\ phase = "mark" /\ phase' = "mark" /\ marked' = marked
         /\ UNCHANGED <<obj, mutatorVars, listVars, sweepVars>>
         /\ \E f \in FrameNames :
              /\ IsFrame(f)
              /\ \/ /\ f \in visited /\ visited' = visited
                    /\ Makes(FrameCall(f), {})
                 \/ /\ visited' = visited \cup {f}
                    /\ Makes(FrameCall(f), {BucketCall(f, BoundVars(Table(f)))})
<1>1. /\ phase = "mark" /\ phase' = "mark" /\ marked' = marked
      /\ UNCHANGED <<obj, mutatorVars, listVars, sweepVars>>
      /\ stack # <<>> /\ Head(stack).call = "mark_frame"
  BY DEF mark_frame, Marking, Pending
<1>2. stack \in Seq(Calls) /\ Head(stack) \in Calls /\ HeapTypes /\ Head(stack) \in Work
  BY <1>1, StackPop, StackStep, PushedCalls DEF BaseInv, StackOK, Work
<1>3. PICK f \in FrameNames : Head(stack) = FrameCall(f)
  BY <1>1, <1>2 DEF Calls, ObjectCall, FrameCall, BucketCall
<1>4. Head(stack).arg = f /\ IsFrame(f)
  <2>1. Head(stack).arg = f
    BY <1>3 DEF FrameCall
  <2>2. IsFrame(f)
    BY <1>1, <1>2, <1>3 DEF BaseInv, StackOK
  <2> QED
    BY <2>1, <2>2
<1>5. CASE f \in visited
  <2>1. visited' = visited /\ Continue(<<>>)
    BY <1>4, <1>5 DEF mark_frame
  <2>2. Makes(FrameCall(f), {})
    BY <1>1, <1>2, <1>3, <2>1, ContinueMakes, PushedCalls
  <2> QED
    BY <1>1, <1>4, <1>5, <2>1, <2>2
<1>6. CASE f \notin visited
  <2>1. /\ visited' = visited \cup {f}
        /\ Continue(<<BucketCall(f, BoundVars(Table(f)))>>)
    BY <1>4, <1>6 DEF mark_frame, BucketCall
  <2>2. BucketCall(f, BoundVars(Table(f))) \in Calls
    BY DEF Calls, BoundVars
  <2>3. PICK calls \in Seq(Calls) :
          /\ calls = <<BucketCall(f, BoundVars(Table(f)))>>
          /\ Elements(calls) = {BucketCall(f, BoundVars(Table(f)))}
    BY <2>2, PushedCalls
  <2>4. Makes(FrameCall(f), {BucketCall(f, BoundVars(Table(f)))})
    BY <1>1, <1>2, <1>3, <2>1, <2>3, ContinueMakes
  <2> QED
    BY <1>1, <1>4, <2>1, <2>4
<1> QED
  BY <1>5, <1>6

\* What one turn of the loop of mark_frame leaves (gbgcollector.c:80-88).
LEMMA MarkBucketStep ==
  ASSUME BaseInv, MarkBucket
  PROVE  /\ phase = "mark" /\ marked' = marked /\ visited' = visited
         /\ UNCHANGED <<obj, mutatorVars, listVars, sweepVars>>
         /\ \/ phase' = "crashed" /\ stack' = stack
            \/ \E f \in FrameNames :
                 phase' = "mark" /\ Makes(BucketCall(f, {}), {})
            \/ \E f \in FrameNames, L \in SUBSET Var : \E v \in L, o \in Values :
                 /\ phase' = "mark" /\ o = cell[Table(f)[v]] /\ o # Null
                 /\ IsFrame(f) /\ L \subseteq BoundVars(Table(f))
                 /\ Makes(BucketCall(f, L),
                          {ObjectCall(o), BucketCall(f, L \ {v})}
                            \cup IF IsLambda(o) THEN {FrameCall(o)} ELSE {})
<1>1. /\ phase = "mark" /\ marked' = marked /\ visited' = visited
      /\ UNCHANGED <<obj, mutatorVars, listVars, sweepVars>>
      /\ stack # <<>> /\ Head(stack).call = "buckets"
  BY DEF MarkBucket, Marking, Pending
<1>2. stack \in Seq(Calls) /\ Head(stack) \in Calls /\ HeapTypes /\ Head(stack) \in Work
  BY <1>1, StackPop, StackStep, PushedCalls DEF BaseInv, StackOK, Work
<1>3. PICK f \in FrameNames, L \in SUBSET Var : Head(stack) = BucketCall(f, L)
  BY <1>1, <1>2 DEF Calls, ObjectCall, FrameCall, BucketCall
<1>4. /\ Head(stack).arg = f /\ Head(stack).left = L
      /\ IsFrame(f) /\ L \subseteq BoundVars(Table(f))
  <2>1. Head(stack).arg = f /\ Head(stack).left = L
    BY <1>3 DEF BucketCall
  <2>2. IsFrame(f) /\ L \subseteq BoundVars(Table(f))
    BY <1>1, <1>2, <1>3 DEF BaseInv, StackOK
  <2> QED
    BY <2>1, <2>2
<1>5. CASE L = {} /\ Continue(<<>>) /\ UNCHANGED phase
  <2>1. Makes(BucketCall(f, {}), {})
    BY <1>1, <1>2, <1>3, <1>5, ContinueMakes, PushedCalls
  <2> QED
    BY <1>1, <1>5, <2>1
<1>6. ASSUME NEW v \in L, cell[Table(f)[v]] # Null, UNCHANGED phase,
             Continue(<<ObjectCall(cell[Table(f)[v]])>>
                        \o (IF IsLambda(cell[Table(f)[v]])
                            THEN <<FrameCall(cell[Table(f)[v]])>>
                            ELSE <<>>)
                        \o <<BucketCall(f, L \ {v})>>)
      PROVE  \E o \in Values :
                 /\ phase' = "mark" /\ o = cell[Table(f)[v]] /\ o # Null
                 /\ Makes(BucketCall(f, L),
                          {ObjectCall(o), BucketCall(f, L \ {v})}
                            \cup IF IsLambda(o) THEN {FrameCall(o)} ELSE {})
  <2>1. PICK o \in Values : o = cell[Table(f)[v]]
    BY <1>2, <1>4, TableType
  <2>2. PICK a \in Seq(Calls) :
          a = <<ObjectCall(o)>> /\ Elements(a) = {ObjectCall(o)}
    <3>1. ObjectCall(o) \in Calls
      BY DEF Calls
    <3> QED
      BY <3>1, PushedCalls
  <2>3. PICK b \in Seq(Calls) :
          /\ b = IF IsLambda(o) THEN <<FrameCall(o)>> ELSE <<>>
          /\ Elements(b) = IF IsLambda(o) THEN {FrameCall(o)} ELSE {}
    <3>1. CASE IsLambda(o)
      <4>1. FrameCall(o) \in Calls
        BY <3>1 DEF Calls, FrameNames, IsLambda
      <4> QED
        BY <3>1, <4>1, PushedCalls
    <3>2. CASE ~ IsLambda(o)
      BY <3>2, PushedCalls
    <3> QED
      BY <3>1, <3>2
  <2>4. PICK c \in Seq(Calls) :
          /\ c = <<BucketCall(f, L \ {v})>>
          /\ Elements(c) = {BucketCall(f, L \ {v})}
    <3>1. BucketCall(f, L \ {v}) \in Calls
      BY DEF Calls
    <3> QED
      BY <3>1, PushedCalls
  <2>5. PICK ab \in Seq(Calls) :
          ab = a \o b /\ Elements(ab) = Elements(a) \cup Elements(b)
    BY ElementsConcat
  <2>6. PICK abc \in Seq(Calls) :
          abc = ab \o c /\ Elements(abc) = Elements(ab) \cup Elements(c)
    BY ElementsConcat
  <2>7. Continue(abc)
    BY <1>6, <2>1, <2>2, <2>3, <2>4, <2>5, <2>6
  <2>8. Makes(BucketCall(f, L), Elements(abc))
    BY <1>1, <1>2, <1>3, <2>7, ContinueMakes
  <2>9. Elements(abc) = {ObjectCall(o), BucketCall(f, L \ {v})}
                          \cup IF IsLambda(o) THEN {FrameCall(o)} ELSE {}
    BY <2>2, <2>3, <2>4, <2>5, <2>6
  <2> QED
    BY <1>1, <1>6, <2>1, <2>8, <2>9
<1>7. \A v : [Head(stack) EXCEPT !.left = @ \ {v}] = BucketCall(f, L \ {v})
  BY <1>3 DEF BucketCall
<1>8. \/ phase' = "crashed" /\ stack' = stack
      \/ L = {} /\ Continue(<<>>) /\ UNCHANGED phase
      \/ \E v \in L :
           /\ cell[Table(f)[v]] # Null /\ UNCHANGED phase
           /\ Continue(<<ObjectCall(cell[Table(f)[v]])>>
                         \o (IF IsLambda(cell[Table(f)[v]])
                             THEN <<FrameCall(cell[Table(f)[v]])>>
                             ELSE <<>>)
                         \o <<BucketCall(f, L \ {v})>>)
  BY <1>4, <1>7 DEF MarkBucket, ObjectCall, FrameCall
<1> QED
  BY <1>1, <1>4, <1>5, <1>6, <1>8

\* The calls a step pushes are legal, and so are those that still wait.
LEMMA MarkStackOK ==
  ASSUME BaseInv, phase = "mark", UNCHANGED <<obj, global>>,
         NEW c, NEW calls, Makes(c, calls),
         \A f \in visited' : f \in visited \/ IsFrame(f),
         \A f \in FrameNames : FrameCall(f) \in calls => IsFrame(f),
         \A f \in FrameNames, L \in SUBSET Var : BucketCall(f, L) \in calls =>
           IsFrame(f) /\ L \subseteq BoundVars(Table(f))
  PROVE  StackOK'
<1>1. StackOK
  BY DEF BaseInv
<1>2. \A f : IsFrame(f)' = IsFrame(f)
  BY DEF IsFrame, IsLambda
<1>3. \A f : Table(f)' = Table(f)
  BY DEF Table
<1>4. stack' \in Seq(Calls) /\ Work' \subseteq Work \cup calls
  BY DEF Makes
<1>5. ASSUME NEW f \in FrameNames, FrameCall(f) \in Work'
      PROVE  IsFrame(f)'
  BY <1>1, <1>2, <1>4, <1>5 DEF StackOK
<1>6. ASSUME NEW f \in FrameNames, NEW L \in SUBSET Var, BucketCall(f, L) \in Work'
      PROVE  IsFrame(f)' /\ L \subseteq BoundVars(Table(f)')
  BY <1>1, <1>2, <1>3, <1>4, <1>6 DEF StackOK
<1>7. \A f \in visited' : IsFrame(f)'
  BY <1>1, <1>2 DEF StackOK
<1> QED
  BY <1>4, <1>5, <1>6, <1>7 DEF StackOK, BoundVars

\* A step of GC_mark keeps what holds whatever programs do.
LEMMA MarkingBase ==
  ASSUME BaseInv, phase = "mark", UNCHANGED <<obj, mutatorVars, listVars, sweepVars>>,
         phase' \in {"mark", "crashed"}, phase' = "mark" => StackOK',
         phase' = "crashed" => stack' \in Seq(Calls),
         marked' \subseteq Addr \cup {Static},
         visited' \subseteq Addr \cup {Global}
  PROVE  BaseInv'
<1>1. HeapTypes'
  BY DEF BaseInv, HeapTypes, mutatorVars, listVars, sweepVars
<1>2. ListInv'
  BY ListUnchanged DEF BaseInv
<1> QED
  BY <1>1, <1>2 DEF BaseInv, mutatorVars

LEMMA MarkBase == BaseInv /\ (mark_object \/ mark_frame \/ MarkBucket) => BaseInv'
<1> SUFFICES ASSUME BaseInv, mark_object \/ mark_frame \/ MarkBucket PROVE BaseInv'
  OBVIOUS
<1>0. /\ HeapTypes /\ marked \subseteq Addr \cup {Static}
      /\ visited \subseteq Addr \cup {Global}
  BY DEF BaseInv, HeapTypes
<1>1. CASE mark_object
  <2>1. /\ phase = "mark" /\ phase' = "mark" /\ visited' = visited
        /\ UNCHANGED <<obj, mutatorVars, listVars, sweepVars>>
    BY <1>1, MarkObjectStep
  <2>2. PICK o \in Values :
          /\ marked' = marked \/ (o # Null /\ marked' = marked \cup {o})
          /\ \/ Makes(ObjectCall(o), {})
             \/ Makes(ObjectCall(o), {ObjectCall(obj[o].car), ObjectCall(obj[o].cdr)})
    BY <1>1, MarkObjectStep
  <2>3. marked' \subseteq Addr \cup {Static}
    BY <1>0, <2>2 DEF Values
  <2>4. StackOK'
    BY <2>1, <2>2, MarkStackOK, CallFacts DEF mutatorVars
  <2> QED
    BY <1>0, <2>1, <2>3, <2>4, MarkingBase
<1>2. CASE mark_frame
  <2>1. /\ phase = "mark" /\ phase' = "mark" /\ marked' = marked
        /\ UNCHANGED <<obj, mutatorVars, listVars, sweepVars>>
    BY <1>2, MarkFrameStep
  <2>2. PICK f \in FrameNames :
          /\ IsFrame(f)
          /\ visited' = visited \/ visited' = visited \cup {f}
          /\ \/ Makes(FrameCall(f), {})
             \/ Makes(FrameCall(f), {BucketCall(f, BoundVars(Table(f)))})
    BY <1>2, MarkFrameStep
  <2>3. visited' \subseteq Addr \cup {Global}
    BY <1>0, <2>2 DEF FrameNames
  <2>4. StackOK'
    BY <2>1, <2>2, MarkStackOK, CallFacts DEF mutatorVars
  <2> QED
    BY <1>0, <2>1, <2>3, <2>4, MarkingBase
<1>3. CASE MarkBucket
  <2>1. /\ phase = "mark" /\ marked' = marked /\ visited' = visited
        /\ UNCHANGED <<obj, mutatorVars, listVars, sweepVars>>
    BY <1>3, MarkBucketStep
  <2>2. CASE phase' = "crashed"
    <3>1. stack' \in Seq(Calls)
      BY <1>3, <2>1, <2>2 DEF MarkBucket, Pending, Continue, BaseInv, StackOK
    <3> QED
      BY <1>0, <2>1, <2>2, <3>1, MarkingBase
  <2>3. CASE phase' = "mark" /\ \E f \in FrameNames : Makes(BucketCall(f, {}), {})
    <3>1. StackOK'
      BY <2>1, <2>3, MarkStackOK DEF mutatorVars
    <3> QED
      BY <1>0, <2>1, <2>3, <3>1, MarkingBase
  <2>4. ASSUME NEW f \in FrameNames, NEW L \in SUBSET Var, NEW v \in L,
               NEW o \in Values, phase' = "mark", IsFrame(f),
               L \subseteq BoundVars(Table(f)),
               Makes(BucketCall(f, L),
                     {ObjectCall(o), BucketCall(f, L \ {v})}
                       \cup IF IsLambda(o) THEN {FrameCall(o)} ELSE {})
        PROVE  BaseInv'
    <3> DEFINE calls == {ObjectCall(o), BucketCall(f, L \ {v})}
                          \cup IF IsLambda(o) THEN {FrameCall(o)} ELSE {}
    <3>1. \A g \in FrameNames : FrameCall(g) \in calls => IsFrame(g)
      BY CallFacts DEF IsFrame
    <3>2. \A g \in FrameNames, M \in SUBSET Var : BucketCall(g, M) \in calls =>
            IsFrame(g) /\ M \subseteq BoundVars(Table(g))
      BY <2>4, CallFacts
    <3>3. StackOK'
      BY <2>1, <2>4, <3>1, <3>2, MarkStackOK DEF mutatorVars
    <3> QED
      BY <1>0, <2>1, <2>4, <3>3, MarkingBase
  <2> QED
    BY <1>3, <2>2, <2>3, <2>4, MarkBucketStep
<1> QED
  BY <1>1, <1>2, <1>3

\* GC_sweep begins at the head of the list, and ends after its last node.
LEMMA SweepBase == BaseInv /\ (MarkDone \/ SweepItem \/ SweepDone) => BaseInv'
<1> SUFFICES ASSUME BaseInv, MarkDone \/ SweepItem \/ SweepDone PROVE BaseInv'
  OBVIOUS
<1>0. HeapTypes /\ ListInv
  BY DEF BaseInv
<1>1. CASE MarkDone
  <2>1. /\ phase = "mark" /\ phase' = "sweep" /\ stack = <<>>
        /\ prev' = Null /\ item' = head
        /\ UNCHANGED <<obj, mutatorVars, listVars, markVars>>
    BY <1>1 DEF MarkDone
  <2>2. HeapTypes'
    BY <1>0, <2>1 DEF HeapTypes, mutatorVars, listVars, markVars
  <2>3. PICK w \in [0..(size - 1) -> Addr] : IsList(w)
    BY <1>0 DEF ListInv
  <2>4. UNCHANGED <<obj, head, tail, next, size, marked>> /\ size \in Nat
    BY <1>0, <2>1 DEF listVars, markVars, HeapTypes
  <2>5. IsList(w)'
    BY <2>3, <2>4 DEF IsList, Allocated
  <2>6. SweptUpTo(w, 0)'
    BY <2>1, <2>3, <2>4 DEF SweptUpTo, IsList
  <2>7. ListInv'
    BY <2>3, <2>4, <2>5, <2>6 DEF ListInv
  <2> QED
    BY <2>1, <2>2, <2>7 DEF BaseInv, mutatorVars, markVars
<1>2. CASE SweepItem
  <2>1. /\ obj' \in [Addr -> Objects]
        /\ head' \in Addr \cup {Null} /\ tail' \in Addr \cup {Null}
        /\ next' \in [Addr -> Addr \cup {Null}] /\ size' \in Nat
        /\ item \in Addr
        /\ ListInv'
    BY <1>0, <1>2, SweepListInv
  <2>2. /\ phase = "sweep" /\ phase' = "sweep" /\ item' = next[item]
        /\ prev' = item \/ prev' = prev
        /\ UNCHANGED <<mutatorVars, markVars>>
    BY <1>2 DEF SweepItem
  <2>3. HeapTypes'
    BY <1>0, <2>1, <2>2 DEF HeapTypes, mutatorVars, markVars
  <2> QED
    BY <2>1, <2>2, <2>3 DEF BaseInv, mutatorVars, markVars
<1>3. CASE SweepDone
  <2>1. /\ phase = "sweep" /\ phase' = "eval" /\ marked' = {} /\ visited' = {}
        /\ UNCHANGED <<obj, mutatorVars, listVars, stack, sweepVars>>
    BY <1>3 DEF SweepDone
  <2>2. HeapTypes'
    BY <1>0, <2>1 DEF HeapTypes, mutatorVars, listVars, sweepVars
  <2>3. ListInv'
    BY <1>0, <2>1, ListUnchanged
  <2> QED
    BY <2>1, <2>2, <2>3 DEF BaseInv
<1> QED
  BY <1>1, <1>2, <1>3

LEMMA NextBase == BaseInv /\ [Next]_vars => BaseInv'
<1> SUFFICES ASSUME BaseInv, [Next]_vars PROVE BaseInv'
  OBVIOUS
<1>1. CASE UNCHANGED vars
  <2>1. /\ UNCHANGED <<obj, cell, global, frames, temps, head, tail, next, size,
                       phase, marked, visited, stack, prev, item>>
        /\ UNCHANGED Allocated
    BY <1>1 DEF vars, mutatorVars, listVars, markVars, sweepVars, Allocated
  <2>2. ListInv' = ListInv
    BY <2>1 DEF ListInv, IsList, SweptUpTo
  <2>3. StackOK' = StackOK
    BY <2>1 DEF StackOK, Work, IsFrame, IsLambda, Table, BoundVars
  <2>4. HeapTypes' = HeapTypes
    BY <2>1 DEF HeapTypes
  <2> QED
    BY <2>1, <2>2, <2>3, <2>4 DEF BaseInv
<1> QED
  BY <1>1, EvaluateBase, GCcollectBase, MarkBase, SweepBase DEF Next, Collect

(* The heap, the environment and the collector's tables hold what they     *)
(* are declared for, and the calls of mark_object and mark_frame that are  *)
(* pending have objects and frames for arguments, in every reachable state *)
(* (gbgcollector.c:64-90, environment.c), after a crash as well.           *)
THEOREM TypeCorrect == Spec => []TypeOK
<1>1. BaseInv => TypeOK
  <2> SUFFICES ASSUME BaseInv PROVE stack \in Seq(Calls)
    BY DEF BaseInv, TypeOK
  <2>1. phase = "mark" \/ phase = "crashed" \/ stack = <<>>
    BY DEF BaseInv, HeapTypes
  <2> QED
    BY <2>1, EmptySeq DEF BaseInv, StackOK
<1> QED
  BY <1>1, InitBase, NextBase, PTL DEF Spec

\* The nodes met from gc->head are those of the list, then none.
LEMMA WalkFacts ==
  ASSUME HeapTypes, NEW w \in [0..(size - 1) -> Addr], IsList(w)
  PROVE  \A n \in Nat : Walk[n] = IF n < size THEN w[n] ELSE Null
<1> DEFINE Step(g, n) == IF n = 0 THEN head
                         ELSE IF g[n - 1] = Null THEN Null
                         ELSE next[g[n - 1]]
           u == [n \in Nat |-> IF n < size THEN w[n] ELSE Null]
<1>1. size \in Nat
  BY DEF HeapTypes
<1>2. ASSUME NEW n \in Nat
      PROVE  u[n] = Step(u, n)
  <2>1. CASE n = 0
    BY <1>1, <2>1 DEF IsList
  <2>2. CASE n # 0 /\ n - 1 < size
    <3>1. n - 1 \in 0..(size - 1) /\ u[n - 1] = w[n - 1] /\ w[n - 1] # Null
      BY <1>1, <2>2, NameAssumption
    <3>2. next[w[n - 1]] = IF n - 1 = size - 1 THEN Null ELSE w[(n - 1) + 1]
      BY <3>1 DEF IsList
    <3> QED
      BY <1>1, <2>2, <3>1, <3>2
  <2>3. CASE n # 0 /\ ~ (n - 1 < size)
    BY <1>1, <2>3
  <2> QED
    BY <2>1, <2>2, <2>3
<1>3. u = [n \in Nat |-> Step(u, n)]
  BY <1>2
<1>4. Walk = CHOOSE g : g = [n \in Nat |-> Step(g, n)]
  BY DEF Walk
<1> HIDE DEF u
<1>5. Walk = [n \in Nat |-> Step(Walk, n)]
  BY <1>3, <1>4
<1>6. \A n \in Nat : Walk[n] = Step(Walk, n)
  BY <1>5
<1>7. SUFFICES ASSUME NEW k \in Nat, Walk[k] # u[k]
               PROVE  FALSE
  BY DEF u
<1>8. PICK n \in {m \in Nat : Walk[m] # u[m]} :
        \A m \in {l \in Nat : Walk[l] # u[l]} : n <= m
  BY <1>7, LeastNatural
<1>9. CASE n = 0
  BY <1>2, <1>6, <1>8, <1>9
<1>10. CASE n # 0
  <2>1. n - 1 \in Nat /\ Walk[n - 1] = u[n - 1]
    BY <1>8, <1>10
  <2> QED
    BY <1>2, <1>6, <1>8, <2>1
<1> QED
  BY <1>9, <1>10

\* The list is as long as the heap.
LEMMA ListLength ==
  ASSUME HeapTypes, NEW w \in [0..(size - 1) -> Addr], IsList(w)
  PROVE  size = Length
<1>1. size \in Nat
  BY DEF HeapTypes
<1>2. PICK f : f = [i \in 1..size |-> w[i - 1]]
  OBVIOUS
<1>3. \A i \in 1..size : i - 1 \in 0..(size - 1) /\ f[i] = w[i - 1]
  BY <1>1, <1>2
<1>4. /\ f \in [1..size -> Allocated]
      /\ \A i, j \in 1..size : f[i] = f[j] => i = j
  BY <1>1, <1>2, <1>3 DEF IsList
<1>5. ASSUME NEW a \in Allocated
      PROVE  \E i \in 1..size : f[i] = a
  <2>1. PICK i \in 0..(size - 1) : w[i] = a
    BY DEF IsList
  <2>2. i + 1 \in 1..size /\ f[i + 1] = a
    BY <1>1, <1>2, <2>1
  <2> QED
    BY <2>2
<1>6. f \in Bijection(1..size, Allocated)
  BY <1>4, <1>5, Fun_IsBij
<1>7. ExistsBijection(1..size, Allocated)
  BY <1>6, Fun_ExistsBij
<1> QED
  BY <1>1, <1>7, FS_CountingElements DEF Length

\* The worklist is the list of the allocated objects, whatever was allocated
\* and freed in whatever order (gbgcollector.c:15, 110).
THEOREM Worklist == Spec => []WorklistExact
<1>1. ASSUME BaseInv
      PROVE  WorklistExact
  <2>1. PICK w \in [0..(size - 1) -> Addr] : IsList(w)
    BY <1>1 DEF BaseInv, ListInv
  <2>2. HeapTypes /\ size \in Nat
    BY <1>1 DEF BaseInv, HeapTypes
  <2>3. size = Length
    BY <2>1, <2>2, ListLength
  <2>4. \A n \in Nat : Walk[n] = IF n < size THEN w[n] ELSE Null
    BY <2>1, <2>2, WalkFacts
  <2>5. \A n \in 0..(size - 1) : Walk[n] = w[n]
    BY <2>2, <2>4
  <2>6. {Walk[n] : n \in 0..(Length - 1)} = Allocated
    BY <2>1, <2>3, <2>5 DEF IsList
  <2>7. Walk[Length] = Null
    BY <2>2, <2>3, <2>4
  <2>8. tail = IF Length = 0 THEN Null ELSE Walk[Length - 1]
    BY <2>1, <2>2, <2>3, <2>5 DEF IsList
  <2> QED
    BY <2>3, <2>6, <2>7, <2>8 DEF WorklistExact
<1> QED
  BY <1>1, InitBase, NextBase, PTL DEF Spec

-----------------------------------------------------------------------------
(* Nothing dangles while the evaluator runs *)

\* What an expression can evaluate to is not dangling.
LEMMA UsableSafe ==
  ASSUME HeapTypes, HeapSafe
  PROVE  Usable \subseteq Safe /\ FrameSafe(Env)
<1>1. /\ Env \in Frames
      /\ \A v \in BoundVars(Env) :
           \/ v \in BoundVars(global) /\ Env[v] = global[v]
           \/ \E i \in DOMAIN frames :
                v \in BoundVars(frames[i]) /\ Env[v] = frames[i][v]
  BY EnvFacts
<1>2. \A v \in BoundVars(Env) : cell[Env[v]] \in Safe
  BY <1>1 DEF HeapSafe, FrameSafe, BoundVars
<1> QED
  BY <1>2 DEF Usable, FrameSafe, BoundVars, HeapSafe, Safe

\* A frame stays safe when a variable gets a value that is not dangling.
LEMMA FrameKept ==
  ASSUME HeapTypes, NEW f, FrameSafe(f), Safe \subseteq Safe', NEW c, NEW o \in Safe',
         cell' = cell \/ cell' = [cell EXCEPT ![c] = o], f \in Frames
  PROVE  FrameSafe(f)'
<1>1. \A v \in Var : f[v] # Null => f[v] \in Cell /\ cell[f[v]] \in Safe'
  BY DEF Frames, FrameSafe
<1>2. \A d \in Cell : cell'[d] = cell[d] \/ cell'[d] = o
  BY DEF HeapTypes
<1> QED
  BY <1>1, <1>2 DEF FrameSafe

\* The heap stays safe when one variable gets a value that is not dangling.
LEMMA HeapKept ==
  ASSUME HeapTypes, HeapSafe, UNCHANGED obj, NEW c, NEW o \in Safe,
         cell' = cell \/ cell' = [cell EXCEPT ![c] = o],
         temps' \subseteq Allocated,
         FrameSafe(global)', \A i \in DOMAIN frames' : FrameSafe(frames[i])'
  PROVE  HeapSafe'
<1>1. Allocated' = Allocated /\ Safe' = Safe
  BY DEF Allocated, Safe
<1>2. \A a : IsPair(a)' = IsPair(a) /\ IsLambda(a)' = IsLambda(a)
  BY DEF IsPair, IsLambda
<1>3. \A a \in Addr : IsPair(a)' => obj'[a].car \in Safe' /\ obj'[a].cdr \in Safe'
  BY <1>1, <1>2 DEF HeapSafe
<1>4. ASSUME NEW a \in Addr, IsLambda(a)'
      PROVE  FrameSafe(obj[a].saved_env)'
  <2>1. obj[a].saved_env \in Frames /\ FrameSafe(obj[a].saved_env)
    BY <1>2, <1>4, ObjFacts DEF HeapSafe
  <2>2. PICK f \in Frames : f = obj[a].saved_env /\ FrameSafe(f)
    BY <2>1
  <2>3. FrameSafe(f)'
    BY <1>1, <2>2, FrameKept
  <2> QED
    BY <2>2, <2>3 DEF FrameSafe
<1> QED
  BY <1>1, <1>3, <1>4 DEF HeapSafe

\* Nothing on the heap refers to where a new object is placed.
LEMMA NewSafe ==
  ASSUME HeapTypes, HeapSafe, NEW a \in Addr, NEW o \in Objects, New(a, o),
         NEW c, cell' = cell \/ cell' = [cell EXCEPT ![c] = a],
         temps' \subseteq Allocated \cup {a},
         FrameSafe(global)', \A i \in DOMAIN frames' : FrameSafe(frames[i])',
         o.typ # "free",
         o.typ = "pair" => o.car \in Safe /\ o.cdr \in Safe,
         o.typ = "lambda" => o.saved_env \in Frames /\ FrameSafe(o.saved_env)'
  PROVE  HeapSafe'
<1>1. /\ obj' = [obj EXCEPT ![a] = o] /\ a \notin Allocated
      /\ obj'[a] = o /\ \A b \in Addr : b # a => obj'[b] = obj[b]
  BY DEF New, HeapTypes
<1>2. Allocated' = Allocated \cup {a}
  BY <1>1 DEF Allocated
<1>3. Safe' = Safe \cup {a} /\ a \in Safe'
  BY <1>2 DEF Safe
<1>4. ASSUME NEW b \in Addr, IsPair(b)'
      PROVE  obj'[b].car \in Safe' /\ obj'[b].cdr \in Safe'
  <2>1. CASE b = a
    BY <1>1, <1>3, <1>4, <2>1 DEF IsPair
  <2>2. CASE b # a
    BY <1>1, <1>3, <1>4, <2>2 DEF IsPair, HeapSafe
  <2> QED
    BY <2>1, <2>2
<1>5. ASSUME NEW b \in Addr, IsLambda(b)'
      PROVE  FrameSafe(obj[b].saved_env)'
  <2>1. CASE b = a
    BY <1>1, <1>5, <2>1 DEF IsLambda, FrameSafe
  <2>2. CASE b # a
    <3>1. obj'[b] = obj[b] /\ IsLambda(b)
      BY <1>1, <1>5, <2>2 DEF IsLambda
    <3>2. PICK f \in Frames : f = obj[b].saved_env /\ FrameSafe(f)
      BY <3>1, ObjFacts DEF HeapSafe
    <3>3. FrameSafe(f)'
      BY <1>3, <3>2, FrameKept
    <3> QED
      BY <3>1, <3>2, <3>3 DEF FrameSafe
  <2> QED
    BY <2>1, <2>2
<1> QED
  BY <1>2, <1>4, <1>5 DEF HeapSafe

\* A new object is no closure that a pair could refer to.
LEMMA NewPairs ==
  ASSUME HeapTypes, HeapSafe, PairInv, NEW a \in Addr, NEW o \in Objects, New(a, o),
         o.typ = "pair" => /\ o.car \in Safe /\ ~ IsLambda(o.car)
                           /\ o.cdr \in Safe /\ ~ IsLambda(o.cdr)
  PROVE  PairInv'
<1>1. /\ obj' = [obj EXCEPT ![a] = o] /\ a \notin Allocated
      /\ obj'[a] = o /\ \A b \in Addr : b # a => obj'[b] = obj[b]
  BY DEF New, HeapTypes
<1>2. a \notin Safe
  BY <1>1, NameAssumption DEF Safe
<1>3. \A x \in Safe : ~ IsLambda(x) => ~ IsLambda(x)'
  BY <1>1, <1>2 DEF IsLambda
<1>4. ASSUME NEW b \in Addr, IsPair(b)'
      PROVE  ~ IsLambda(obj[b].car)' /\ ~ IsLambda(obj[b].cdr)'
  <2>1. CASE b = a
    <3>1. /\ obj'[b].car \in Safe /\ ~ IsLambda(obj'[b].car)
          /\ obj'[b].cdr \in Safe /\ ~ IsLambda(obj'[b].cdr)
      BY <1>1, <1>4, <2>1 DEF IsPair
    <3>2. PICK x \in Safe, y \in Safe : x = obj'[b].car /\ y = obj'[b].cdr
      BY <3>1
    <3>3. ~ IsLambda(x)' /\ ~ IsLambda(y)'
      BY <1>3, <3>1, <3>2
    <3> QED
      BY <3>2, <3>3 DEF IsLambda
  <2>2. CASE b # a
    <3>1. obj'[b] = obj[b] /\ IsPair(b)
      BY <1>1, <1>4, <2>2 DEF IsPair
    <3>2. PICK x \in Safe, y \in Safe : x = obj[b].car /\ y = obj[b].cdr
      BY <3>1 DEF HeapSafe
    <3>3. ~ IsLambda(x)' /\ ~ IsLambda(y)'
      BY <1>3, <3>1, <3>2 DEF PairInv
    <3> QED
      BY <3>1, <3>2, <3>3 DEF IsLambda
  <2> QED
    BY <2>1, <2>2
<1> QED
  BY <1>4 DEF PairInv

\* Binding a variable and entering or leaving a call keep the frames safe.
LEMMA BindSafe ==
  ASSUME HeapTypes, HeapSafe, NEW v \in Var, NEW c \in Cell, Bind(v, c),
         NEW o \in Safe', cell' = [cell EXCEPT ![c] = o], Safe \subseteq Safe'
  PROVE  FrameSafe(global)' /\ \A i \in DOMAIN frames' : FrameSafe(frames[i])'
<1>1. cell'[c] = o /\ cell'[c] \in Safe'
  BY DEF HeapTypes
<1>2. ASSUME NEW f \in Frames, FrameSafe(f)
      PROVE  FrameSafe(f)' /\ FrameSafe([f EXCEPT ![v] = c])'
  <2>1. FrameSafe(f)'
    BY <1>2, FrameKept
  <2>2. \A x \in Var : [f EXCEPT ![v] = c][x] = IF x = v THEN c ELSE f[x]
    BY DEF Frames
  <2> QED
    BY <1>1, <2>1, <2>2 DEF FrameSafe
<1>3. global \in Frames /\ FrameSafe(global)
  BY DEF HeapTypes, HeapSafe
<1>4. \A i \in DOMAIN frames : frames[i] \in Frames /\ FrameSafe(frames[i])
  BY ElementOfSeq, LenProperties DEF HeapTypes, HeapSafe
<1>5. CASE frames = <<>>
  <2>1. global' = [global EXCEPT ![v] = c] /\ frames' = <<>>
    BY <1>5 DEF Bind
  <2>2. PICK g : g = [global EXCEPT ![v] = c]
    OBVIOUS
  <2>3. FrameSafe(g)'
    BY <1>2, <1>3, <2>2
  <2> QED
    BY <2>1, <2>2, <2>3 DEF FrameSafe
<1>6. CASE frames # <<>>
  <2>1. /\ frames' = [frames EXCEPT ![Len(frames)] =
                        [frames[Len(frames)] EXCEPT ![v] = c]]
        /\ global' = global
    BY <1>6 DEF Bind
  <2>2. FrameSafe(global)'
    BY <1>2, <1>3, <2>1 DEF FrameSafe
  <2>3. ASSUME NEW i \in DOMAIN frames'
        PROVE  FrameSafe(frames[i])'
    <3>1. i \in DOMAIN frames /\ \/ frames'[i] = frames[i]
                                 \/ frames'[i] = [frames[i] EXCEPT ![v] = c]
      BY <2>1
    <3>2. PICK f \in Frames : f = frames[i] /\ FrameSafe(f)
      BY <1>4, <3>1
    <3>3. FrameSafe(f)' /\ FrameSafe([f EXCEPT ![v] = c])'
      BY <1>2, <3>2
    <3> QED
      BY <3>1, <3>2, <3>3 DEF FrameSafe
  <2> QED
    BY <2>2, <2>3
<1> QED
  BY <1>5, <1>6

LEMMA EvaluateSafe ==
  ASSUME BaseInv, SafeInv, ~ ClosuresInPairs, Evaluate
  PROVE  SafeInv'
<1>0. /\ phase = "eval" /\ phase' = "eval"
      /\ HeapTypes /\ HeapSafe /\ PairInv
      /\ temps \subseteq Allocated /\ Usable \subseteq Safe /\ FrameSafe(Env)
  <2>1. phase = "eval" /\ phase' = "eval"
    BY DEF Evaluate, Evaluating, NewAtom, NewPair, Part, Lambda, Define,
           DefineLambda, Set, Call, Return
  <2>2. HeapTypes /\ HeapSafe /\ PairInv
    BY <2>1 DEF BaseInv, SafeInv
  <2> QED
    BY <2>1, <2>2, UsableSafe DEF HeapSafe
<1> SUFFICES HeapSafe' /\ PairInv'
  BY <1>0 DEF SafeInv
<1>g. /\ global \in Frames /\ FrameSafe(global)
      /\ \A i \in DOMAIN frames : frames[i] \in Frames /\ FrameSafe(frames[i])
  BY <1>0, ElementOfSeq, LenProperties DEF HeapTypes, HeapSafe
\* nothing is allocated and no pair is made
<1>p. ASSUME obj' = obj
      PROVE  PairInv' /\ Safe' = Safe /\ Allocated' = Allocated
  BY <1>0, <1>p DEF PairInv, IsPair, IsLambda, Safe, Allocated
\* no variable changes
<1>f. ASSUME Safe \subseteq Safe', UNCHANGED <<cell, global, frames>>
      PROVE  /\ FrameSafe(global)'
             /\ \A i \in DOMAIN frames' : FrameSafe(frames[i])'
  BY <1>g, <1>f DEF FrameSafe
\* an object is made while no variable changes
<1>n. ASSUME NEW a \in Addr, NEW o \in Objects, New(a, o),
             UNCHANGED <<cell, global, frames>>,
             o.typ # "free", temps' \subseteq Allocated \cup {a},
             o.typ = "pair" => o.car \in Safe /\ o.cdr \in Safe,
             o.typ = "lambda" => o.saved_env \in Frames /\ FrameSafe(o.saved_env)
      PROVE  HeapSafe'
  <2>1. Safe \subseteq Safe'
    BY <1>0, <1>n DEF Safe, Allocated, New, HeapTypes
  <2>2. /\ FrameSafe(global)'
        /\ \A i \in DOMAIN frames' : FrameSafe(frames[i])'
    BY <1>f, <1>n, <2>1
  <2>3. o.typ = "lambda" => FrameSafe(o.saved_env)'
    BY <1>n, <2>1 DEF FrameSafe
  <2> QED
    BY <1>0, <1>n, <2>2, <2>3, NewSafe
<1>1. CASE NewAtom
  <2>1. PICK a \in Addr : New(a, Atom) /\ Hold({}, a)
    BY <1>1 DEF NewAtom
  <2>2. UNCHANGED <<cell, global, frames>> /\ temps' \subseteq Allocated \cup {a}
    BY <1>0, <1>1, <2>1 DEF NewAtom, Hold
  <2>3. Atom \in Objects /\ Atom.typ = "atom"
    BY DEF Objects, Atom
  <2> QED
    BY <1>0, <1>n, <2>1, <2>2, <2>3, NewPairs
<1>2. CASE NewPair
  <2>1. PICK x \in Usable, y \in Usable, a \in Addr :
          /\ ~ (IsLambda(x) \/ IsLambda(y))
          /\ New(a, [typ |-> "pair", car |-> x, cdr |-> y]) /\ Hold({x, y}, a)
    BY <1>2 DEF NewPair
  <2>2. UNCHANGED <<cell, global, frames>> /\ temps' \subseteq Allocated \cup {a}
    BY <1>0, <1>2, <2>1 DEF NewPair, Hold
  <2>3. PICK o \in Objects : o = [typ |-> "pair", car |-> x, cdr |-> y]
    BY <1>0, UsableFacts DEF Objects, Pairs
  <2>4. o.typ = "pair" /\ o.car \in Safe /\ o.cdr \in Safe
        /\ ~ IsLambda(o.car) /\ ~ IsLambda(o.cdr)
    BY <1>0, <2>1, <2>3
  <2> QED
    BY <1>0, <1>n, <2>1, <2>2, <2>3, <2>4, NewPairs
<1>3. CASE Part
  <2>1. PICK p \in Usable : \E o \in {obj[p].car, obj[p].cdr} \cap Addr :
          IsPair(p) /\ Hold({p}, o)
    BY <1>3 DEF Part
  <2>2. UNCHANGED <<obj, cell, global, frames>>
    BY <1>3 DEF Part
  <2>3. \A o \in {obj[p].car, obj[p].cdr} \cap Addr : o \in Allocated
    BY <1>0, <2>1, NameAssumption DEF HeapSafe, IsPair, Safe
  <2>4. temps' \subseteq Allocated
    BY <1>0, <2>1, <2>3 DEF Hold
  <2>5. Null \in Safe
    BY DEF Safe
  <2> QED
    BY <1>0, <1>p, <1>f, <2>2, <2>4, <2>5, HeapKept
<1>4. CASE Lambda
  <2>1. PICK a \in Addr :
          New(a, [typ |-> "lambda", saved_env |-> Env]) /\ Hold({}, a)
    BY <1>4 DEF Lambda
  <2>2. UNCHANGED <<cell, global, frames>> /\ temps' \subseteq Allocated \cup {a}
    BY <1>0, <1>4, <2>1 DEF Lambda, Hold
  <2>3. PICK o \in Objects : o = [typ |-> "lambda", saved_env |-> Env]
    BY <1>0, EnvFacts DEF Objects, Lambdas
  <2>4. o.typ = "lambda" /\ o.saved_env \in Frames /\ FrameSafe(o.saved_env)
    BY <1>0, <2>3, EnvFacts
  <2> QED
    BY <1>0, <1>n, <2>1, <2>2, <2>3, <2>4, NewPairs
<1>5. CASE Define
  <2>1. PICK v \in Var, c \in Cell, o \in Usable \cup {Null} :
          /\ cell' = [cell EXCEPT ![c] = o]
          /\ Bind(v, c)
          /\ temps' = temps \ {o}
    BY <1>5 DEF Define
  <2>2. obj' = obj /\ o \in Safe
    BY <1>0, <1>5, <2>1 DEF Define, Safe
  <2>3. /\ FrameSafe(global)'
        /\ \A i \in DOMAIN frames' : FrameSafe(frames[i])'
    BY <1>0, <1>p, <2>1, <2>2, BindSafe
  <2> QED
    BY <1>0, <1>p, <2>1, <2>2, <2>3, HeapKept
<1>6. CASE DefineLambda
  <2>1. PICK v \in Var, c \in Cell, a \in Addr :
          /\ cell' = [cell EXCEPT ![c] = a]
          /\ Bind(v, c)
          /\ New(a, [typ |-> "lambda", saved_env |-> [Env EXCEPT ![v] = c]])
    BY <1>6 DEF DefineLambda
  <2>2. PICK f \in Frames : f = [Env EXCEPT ![v] = c]
    BY <1>0, EnvFacts DEF Frames
  <2>3. PICK o \in Objects : o = [typ |-> "lambda", saved_env |-> f]
    BY DEF Objects, Lambdas
  <2>4. a \in Safe' /\ Safe \subseteq Safe' /\ temps' = temps
    BY <1>0, <1>6, <2>1, <2>2, <2>3
       DEF Safe, Allocated, New, HeapTypes, DefineLambda
  <2>5. /\ FrameSafe(global)'
        /\ \A i \in DOMAIN frames' : FrameSafe(frames[i])'
    BY <1>0, <2>1, <2>4, BindSafe
  <2>6. FrameSafe(f)'
    <3>1. PICK e \in Frames : e = Env /\ FrameSafe(e)
      BY <1>0, EnvFacts
    <3>2. FrameSafe(e)'
      BY <1>0, <2>1, <2>4, <3>1, FrameKept
    <3>3. cell'[c] = a
      BY <1>0, <2>1 DEF HeapTypes
    <3>4. \A x \in Var : f[x] = IF x = v THEN c ELSE e[x]
      BY <2>2, <3>1 DEF Frames
    <3> QED
      BY <2>4, <3>2, <3>3, <3>4 DEF FrameSafe
  <2>7. o.typ = "lambda" /\ o.saved_env = f
    BY <2>3
  <2>8. HeapSafe'
    BY <1>0, <2>1, <2>2, <2>3, <2>4, <2>5, <2>6, <2>7, NewSafe
  <2> QED
    BY <1>0, <2>1, <2>2, <2>3, <2>7, <2>8, NewPairs
<1>7. CASE Set
  <2>1. PICK v \in BoundVars(Env), o \in Usable :
          cell' = [cell EXCEPT ![Env[v]] = o]
    BY <1>7 DEF Set
  <2>2. UNCHANGED <<obj, global, frames, temps>>
    BY <1>7 DEF Set
  <2>3. \A f \in Frames : FrameSafe(f) => FrameSafe(f)'
    BY <1>0, <1>p, <2>1, <2>2, FrameKept
  <2>4. /\ FrameSafe(global)'
        /\ \A i \in DOMAIN frames' : FrameSafe(frames[i])'
    BY <1>g, <2>2, <2>3 DEF FrameSafe
  <2> QED
    BY <1>0, <1>p, <2>1, <2>2, <2>4, HeapKept
<1>8. CASE Call
  <2>1. PICK f \in Usable, o \in Usable, c \in Cell :
          /\ IsLambda(f)
          /\ cell' = [cell EXCEPT ![c] = o]
          /\ LET args == [EmptyFrame EXCEPT ![Formal] = c]
                 Enter(f0) == CopyFrame(CopyFrame(f0, obj[f].saved_env), args)
             IN  \/ frames' = Append(frames, Enter(EmptyFrame))
                 \/ /\ frames # <<>>
                    /\ frames' = [frames EXCEPT ![Len(frames)] = Enter(@)]
    BY <1>8 DEF Call
  <2>2. UNCHANGED <<obj, global, temps>> /\ o \in Safe
    BY <1>0, <1>8, <2>1 DEF Call
  <2>3. \A g \in Frames : FrameSafe(g) => FrameSafe(g)'
    BY <1>0, <1>p, <2>1, <2>2, FrameKept
  <2> DEFINE args == [EmptyFrame EXCEPT ![Formal] = c]
             Enter(f0) == CopyFrame(CopyFrame(f0, obj[f].saved_env), args)
  <2>4. PICK s \in Frames : s = obj[f].saved_env /\ FrameSafe(s)
    BY <1>0, <2>1, ObjFacts DEF HeapSafe, IsLambda
  <2>5. EmptyFrame \in Frames /\ FrameSafe(EmptyFrame)
    BY DEF EmptyFrame, Frames, FrameSafe
  <2>6. ASSUME NEW f0 \in Frames, FrameSafe(f0), NEW g, g = Enter(f0)
        PROVE  FrameSafe(g)'
    <3>1. \A x \in Var : args[x] # Null => args[x] = c
      BY DEF EmptyFrame
    <3>2. \A x \in Var : g[x] = IF args[x] # Null THEN args[x]
                                ELSE IF s[x] # Null THEN s[x] ELSE f0[x]
      BY <2>4, <2>6 DEF CopyFrame
    <3>3. FrameSafe(s)' /\ FrameSafe(f0)'
      BY <2>3, <2>4, <2>6
    <3>4. cell'[c] \in Safe'
      BY <1>0, <1>p, <2>1, <2>2 DEF HeapTypes
    <3> HIDE DEF args
    <3> QED
      BY <3>1, <3>2, <3>3, <3>4 DEF FrameSafe
  <2>7. FrameSafe(global)'
    BY <1>g, <2>2, <2>3 DEF FrameSafe
  <2>8. ASSUME NEW i \in DOMAIN frames'
        PROVE  FrameSafe(frames[i])'
    <3>1. \/ i \in DOMAIN frames /\ frames'[i] = frames[i]
          \/ \E f0 \in Frames : FrameSafe(f0) /\ frames'[i] = Enter(f0)
      <4>1. CASE frames' = Append(frames, Enter(EmptyFrame))
        <5>1. /\ Len(frames) \in Nat /\ DOMAIN frames = 1..Len(frames)
              /\ DOMAIN frames' = 1..(Len(frames) + 1)
              /\ frames'[Len(frames) + 1] = Enter(EmptyFrame)
              /\ \A j \in 1..Len(frames) : frames'[j] = frames[j]
          BY <1>0, <4>1, LenProperties, AppendProperties DEF HeapTypes
        <5> HIDE DEF Enter
        <5> QED
          BY <2>5, <5>1
      <4>2. CASE frames # <<>> /\ frames' = [frames EXCEPT ![Len(frames)] = Enter(@)]
        <5>1. Len(frames) \in DOMAIN frames /\ frames[Len(frames)] \in Frames
              /\ FrameSafe(frames[Len(frames)])
          BY <1>0, <1>g, <4>2, EmptySeq, LenProperties DEF HeapTypes
        <5> HIDE DEF Enter
        <5> QED
          BY <4>2, <5>1
      <4> QED
        BY <2>1, <4>1, <4>2
    <3>2. CASE i \in DOMAIN frames /\ frames'[i] = frames[i]
      <4>1. PICK g \in Frames : g = frames[i] /\ FrameSafe(g)
        BY <1>g, <3>2
      <4>2. FrameSafe(g)'
        BY <2>3, <4>1
      <4> QED
        BY <3>2, <4>1, <4>2 DEF FrameSafe
    <3>3. CASE \E f0 \in Frames : FrameSafe(f0) /\ frames'[i] = Enter(f0)
      <4>1. PICK f0 \in Frames : FrameSafe(f0) /\ frames'[i] = Enter(f0)
        BY <3>3
      <4>2. PICK g : g = Enter(f0)
        OBVIOUS
      <4>3. FrameSafe(g)'
        BY <2>6, <4>1, <4>2
      <4> QED
        BY <4>1, <4>2, <4>3 DEF FrameSafe
    <3> QED
      BY <3>1, <3>2, <3>3
  <2> QED
    BY <1>0, <1>p, <2>1, <2>2, <2>7, <2>8, HeapKept
<1>9. CASE Return
  <2>1. /\ UNCHANGED <<obj, cell, global>> /\ frames # <<>>
        /\ frames' = SubSeq(frames, 1, Len(frames) - 1)
    BY <1>9 DEF Return, Front
  <2>2. PICK o \in Usable : Hold(temps, o)
    BY <1>9 DEF Return
  <2>3. temps' \subseteq Allocated
    BY <1>0, <2>2, NameAssumption DEF Hold, Safe
  <2>4. \A i \in DOMAIN frames' : i \in DOMAIN frames /\ frames'[i] = frames[i]
    <3>1. /\ Len(frames) \in Nat /\ DOMAIN frames = 1..Len(frames)
          /\ \A i \in 1..(Len(frames) - 1) : frames[i] \in Frames
      BY <1>0, LenProperties, ElementOfSeq DEF HeapTypes
    <3> QED
      BY <2>1, <3>1, SubSeqProperties
  <2>5. /\ FrameSafe(global)'
        /\ \A i \in DOMAIN frames' : FrameSafe(frames[i])'
    BY <1>g, <1>p, <2>1, <2>4 DEF FrameSafe
  <2>6. Null \in Safe
    BY DEF Safe
  <2> QED
    BY <1>0, <1>p, <2>1, <2>3, <2>5, <2>6, HeapKept
<1> QED
  BY <1>1, <1>2, <1>3, <1>4, <1>5, <1>6, <1>7, <1>8, <1>9 DEF Evaluate

-----------------------------------------------------------------------------
(* Marking: the three colours *)

\* The heap does not change while GC_mark runs.
LEMMA HeapUnchanged ==
  ASSUME UNCHANGED <<obj, mutatorVars>>
  PROVE  /\ UNCHANGED <<obj, cell, global, frames, temps>>
         /\ Allocated' = Allocated /\ Safe' = Safe /\ Roots' = Roots
         /\ \A a : IsPair(a)' = IsPair(a) /\ IsLambda(a)' = IsLambda(a)
         /\ \A f : Table(f)' = Table(f)
         /\ \A a : References(a)' = References(a)
         /\ \A S : Closed(S)' = Closed(S) /\ Closure(S)' = Closure(S)
         /\ HeapSafe' = HeapSafe /\ PairInv' = PairInv
<1>1. UNCHANGED <<obj, cell, global, frames, temps>>
  BY DEF mutatorVars
<1>2. /\ Allocated' = Allocated /\ Safe' = Safe /\ Roots' = Roots
      /\ \A a : IsPair(a)' = IsPair(a) /\ IsLambda(a)' = IsLambda(a)
      /\ \A f : Table(f)' = Table(f)
  BY <1>1 DEF Allocated, Safe, Roots, BoundVars, IsPair, IsLambda, Table
<1>3. \A a : References(a)' = References(a)
  BY <1>1, <1>2 DEF References, BoundVars
<1>4. \A S : Closed(S)' = Closed(S)
  BY <1>3 DEF Closed
<1>5. \A S : Closure(S)' = Closure(S)
  BY <1>2, <1>4 DEF Closure
<1>6. HeapSafe' = HeapSafe /\ PairInv' = PairInv
  BY <1>1, <1>2 DEF HeapSafe, FrameSafe, PairInv
<1> QED
  BY <1>1, <1>2, <1>3, <1>4, <1>5, <1>6

\* What has been seen stays seen, when the call that is taken off the stack
\* has done its work.
LEMMA SeenKept ==
  ASSUME NEW c, NEW calls, Makes(c, calls),
         marked \subseteq marked', visited \subseteq visited'
  PROVE  /\ \A o : Seen(o) /\ (c = ObjectCall(o) => o = Null \/ o \in marked')
              => Seen(o)'
         /\ \A f : FrameSeen(f) /\ (c = FrameCall(f) => f \in visited')
              => FrameSeen(f)'
         /\ \A f, v : BucketLeft(f, v) /\ (\A L : c # BucketCall(f, L))
              => BucketLeft(f, v)'
         /\ \A o : ObjectCall(o) \in calls => Seen(o)'
         /\ \A f : FrameCall(f) \in calls => FrameSeen(f)'
         /\ \A f, v : \A L \in SUBSET Var : BucketCall(f, L) \in calls /\ v \in L
              => BucketLeft(f, v)'
<1>1. calls \cup (Work \ {c}) \subseteq Work'
  BY DEF Makes
<1> QED
  BY <1>1 DEF Seen, FrameSeen, BucketLeft

\* A step of GC_mark keeps what it has marked reachable and allocated, and
\* keeps the colours.
LEMMA MarkStepSafe ==
  ASSUME BaseInv, SafeInv, phase = "mark", phase' = "mark",
         UNCHANGED <<obj, mutatorVars>>, Colours',
         NEW c, NEW calls, Makes(c, calls),
         marked' \cap Addr \subseteq Allocated,
         \A S \in SUBSET Addr : Closure(S) =>
           /\ marked' \cap Addr \subseteq S
           /\ visited' \cap Addr \subseteq S
           /\ \A d \in calls : d.arg \in Addr => d.arg \in S
  PROVE  SafeInv'
<1>1. HeapSafe /\ PairInv /\ OnlyReachable
  BY DEF SafeInv
<1>2. HeapSafe' /\ PairInv' /\ Allocated' = Allocated
  BY <1>1, HeapUnchanged
<1>3. \A S : Closure(S)' = Closure(S)
  BY HeapUnchanged
<1>4. Work' \subseteq Work \cup calls
  BY DEF Makes
<1>5. OnlyReachable'
  BY <1>1, <1>3, <1>4 DEF OnlyReachable
<1> QED
  BY <1>2, <1>5 DEF SafeInv

LEMMA MarkObjectSafe ==
  ASSUME BaseInv, SafeInv, mark_object
  PROVE  SafeInv'
<1>1. /\ phase = "mark" /\ phase' = "mark" /\ visited' = visited
      /\ UNCHANGED <<obj, mutatorVars>>
  BY MarkObjectStep
<1>0. PICK o \in Values :
      \E calls :
        /\ Makes(ObjectCall(o), calls)
        /\ marked' = marked \/ (o # Null /\ marked' = marked \cup {o})
        /\ o = Null \/ o \in marked'
        /\ \/ calls = {} /\ (marked' = marked \/ ~ IsPair(o))
           \/ IsPair(o) /\ calls = {ObjectCall(obj[o].car), ObjectCall(obj[o].cdr)}
  BY MarkObjectStep
<1>2. PICK calls :
        /\ Makes(ObjectCall(o), calls)
        /\ marked' = marked \/ (o # Null /\ marked' = marked \cup {o})
        /\ o = Null \/ o \in marked'
        /\ \/ calls = {} /\ (marked' = marked \/ ~ IsPair(o))
           \/ IsPair(o) /\ calls = {ObjectCall(obj[o].car), ObjectCall(obj[o].cdr)}
  BY <1>0
<1>3. /\ HeapTypes /\ HeapSafe /\ PairInv /\ Colours /\ OnlyReachable
      /\ marked \cap Addr \subseteq Allocated
  BY <1>1 DEF BaseInv, SafeInv
<1>4. /\ UNCHANGED <<obj, cell, global, frames, temps>>
      /\ Allocated' = Allocated /\ Safe' = Safe
      /\ \A a : IsPair(a)' = IsPair(a) /\ IsLambda(a)' = IsLambda(a)
      /\ \A f : Table(f)' = Table(f)
  BY <1>1, HeapUnchanged
<1>5. ObjectCall(o) \in Work /\ o \in Safe
  BY <1>2, <1>3 DEF Makes, Colours
<1>6. /\ \A x : Seen(x) => Seen(x)'
      /\ \A f : FrameSeen(f) => FrameSeen(f)'
      /\ \A f, v : BucketLeft(f, v) => BucketLeft(f, v)'
      /\ \A x : ObjectCall(x) \in calls => Seen(x)'
  BY <1>1, <1>2, SeenKept, CallFacts
<1>7. \A x : ObjectCall(x) \in calls =>
               IsPair(o) /\ x \in {obj[o].car, obj[o].cdr}
  BY <1>2, CallFacts
<1>8. Colours'
  <2>1. ASSUME NEW a \in Addr, a \in marked', IsPair(a)
        PROVE  Seen(obj[a].car)' /\ Seen(obj[a].cdr)'
    <3>1. CASE a \in marked
      <4>1. PICK x, y : /\ x = obj[a].car /\ y = obj[a].cdr
                        /\ Seen(x) /\ Seen(y)
        BY <1>3, <2>1, <3>1 DEF Colours
      <4>2. Seen(x)' /\ Seen(y)'
        BY <1>6, <4>1
      <4> QED
        BY <1>4, <4>1, <4>2 DEF Seen
    <3>2. CASE a \notin marked
      <4>1. a = o /\ calls = {ObjectCall(obj[a].car), ObjectCall(obj[a].cdr)}
        BY <1>2, <2>1, <3>2
      <4>2. PICK x, y : /\ x = obj[a].car /\ y = obj[a].cdr
                        /\ ObjectCall(x) \in calls /\ ObjectCall(y) \in calls
        BY <4>1
      <4>3. Seen(x)' /\ Seen(y)'
        BY <1>6, <4>2
      <4> QED
        BY <1>4, <4>2, <4>3 DEF Seen
    <3> QED
      BY <3>1, <3>2
  <2>2. FrameSeen(Global)'
    BY <1>3, <1>6 DEF Colours
  <2>3. ASSUME NEW f \in visited, NEW v \in BoundVars(Table(f))
        PROVE  Seen(cell[Table(f)[v]])' \/ BucketLeft(f, v)'
    <3>1. PICK x : x = cell[Table(f)[v]] /\ (Seen(x) \/ BucketLeft(f, v))
      BY <1>3 DEF Colours
    <3>2. Seen(x)' \/ BucketLeft(f, v)'
      BY <1>6, <3>1
    <3> QED
      BY <1>4, <3>1, <3>2 DEF Seen
  <2>4. ASSUME NEW a \in Addr, IsLambda(a), Seen(a)'
        PROVE  FrameSeen(a)'
    <3>1. ObjectCall(a) \notin calls
      BY <1>3, <1>7, <2>4 DEF PairInv, IsPair
    <3>2. Seen(a)
      <4>1. Work' \subseteq Work \cup calls
        BY <1>2 DEF Makes
      <4> QED
        BY <1>2, <1>5, <2>4, <3>1, <4>1 DEF Seen
    <3> QED
      BY <1>3, <1>6, <2>4, <3>2 DEF Colours
  <2>5. ASSUME NEW x \in Values, ObjectCall(x) \in Work'
        PROVE  x \in Safe
    <3>1. ObjectCall(x) \in Work \/ ObjectCall(x) \in calls
      BY <1>2, <2>5 DEF Makes
    <3> QED
      BY <1>3, <1>7, <3>1 DEF Colours, HeapSafe, IsPair
  <2> QED
    BY <1>1, <1>4, <2>1, <2>2, <2>3, <2>4, <2>5 DEF Colours, BoundVars
<1>9. ASSUME NEW S \in SUBSET Addr, Closure(S)
      PROVE  /\ marked' \cap Addr \subseteq S /\ visited' \cap Addr \subseteq S
             /\ \A d \in calls : d.arg \in Addr => d.arg \in S
  <2>1. /\ marked \cap Addr \subseteq S /\ visited \cap Addr \subseteq S
        /\ o \in Addr => o \in S
    BY <1>1, <1>3, <1>5, <1>9 DEF OnlyReachable, ObjectCall
  <2>2. IsPair(o) => {obj[o].car, obj[o].cdr} \cap Addr \subseteq S
    BY <1>9, <2>1 DEF Closure, Closed, References, IsPair
  <2> QED
    BY <1>1, <1>2, <2>1, <2>2 DEF ObjectCall
<1>10. marked' \cap Addr \subseteq Allocated
  BY <1>2, <1>3, <1>5, NameAssumption DEF Safe
<1> QED
  BY <1>1, <1>2, <1>8, <1>9, <1>10, MarkStepSafe

LEMMA MarkFrameSafe ==
  ASSUME BaseInv, SafeInv, mark_frame
  PROVE  SafeInv'
<1>1. /\ phase = "mark" /\ phase' = "mark" /\ marked' = marked
      /\ UNCHANGED <<obj, mutatorVars>>
  BY MarkFrameStep
<1>0. PICK f \in FrameNames :
      \E calls :
        /\ Makes(FrameCall(f), calls)
        /\ f \in visited' /\ visited' = visited \cup {f}
        /\ \/ calls = {} /\ visited' = visited
           \/ calls = {BucketCall(f, BoundVars(Table(f)))}
  <2>1. PICK f \in FrameNames :
          \/ /\ f \in visited /\ visited' = visited
             /\ Makes(FrameCall(f), {})
          \/ /\ visited' = visited \cup {f}
             /\ Makes(FrameCall(f), {BucketCall(f, BoundVars(Table(f)))})
    BY MarkFrameStep
  <2>2. CASE f \in visited /\ visited' = visited /\ Makes(FrameCall(f), {})
    BY <2>2
  <2>3. CASE /\ visited' = visited \cup {f}
             /\ Makes(FrameCall(f), {BucketCall(f, BoundVars(Table(f)))})
    BY <2>3
  <2> QED
    BY <2>1, <2>2, <2>3
<1>2. PICK calls :
        /\ Makes(FrameCall(f), calls)
        /\ f \in visited' /\ visited' = visited \cup {f}
        /\ \/ calls = {} /\ visited' = visited
           \/ calls = {BucketCall(f, BoundVars(Table(f)))}
  BY <1>0
<1>3. /\ HeapTypes /\ HeapSafe /\ PairInv /\ Colours /\ OnlyReachable
      /\ marked \cap Addr \subseteq Allocated
  BY <1>1 DEF BaseInv, SafeInv
<1>4. /\ UNCHANGED <<obj, cell, global, frames, temps>>
      /\ Allocated' = Allocated /\ Safe' = Safe
      /\ \A a : IsPair(a)' = IsPair(a) /\ IsLambda(a)' = IsLambda(a)
      /\ \A g : Table(g)' = Table(g)
  BY <1>1, HeapUnchanged
<1>5. FrameCall(f) \in Work
  BY <1>2 DEF Makes
<1>6. /\ \A x : Seen(x) => Seen(x)'
      /\ \A g : FrameSeen(g) => FrameSeen(g)'
      /\ \A g, v : BucketLeft(g, v) => BucketLeft(g, v)'
      /\ \A g, v : \A L \in SUBSET Var :
           BucketCall(g, L) \in calls /\ v \in L => BucketLeft(g, v)'
  BY <1>1, <1>2, SeenKept, CallFacts
<1>7. \A x : ObjectCall(x) \in Work' => ObjectCall(x) \in Work
  BY <1>2, CallFacts DEF Makes
<1>8. Colours'
  <2>1. ASSUME NEW a \in Addr, a \in marked, IsPair(a)
        PROVE  Seen(obj[a].car)' /\ Seen(obj[a].cdr)'
    <3>1. PICK x, y : /\ x = obj[a].car /\ y = obj[a].cdr
                      /\ Seen(x) /\ Seen(y)
      BY <1>3, <2>1 DEF Colours
    <3>2. Seen(x)' /\ Seen(y)'
      BY <1>6, <3>1
    <3> QED
      BY <1>4, <3>1, <3>2 DEF Seen
  <2>2. FrameSeen(Global)'
    BY <1>3, <1>6 DEF Colours
  <2>3. ASSUME NEW g \in visited', NEW v \in BoundVars(Table(g))
        PROVE  Seen(cell[Table(g)[v]])' \/ BucketLeft(g, v)'
    <3>1. CASE g \in visited
      <4>1. PICK x : x = cell[Table(g)[v]] /\ (Seen(x) \/ BucketLeft(g, v))
        BY <1>3, <3>1 DEF Colours
      <4>2. Seen(x)' \/ BucketLeft(g, v)'
        BY <1>6, <4>1
      <4> QED
        BY <1>4, <4>1, <4>2 DEF Seen
    <3>2. CASE g \notin visited
      <4>1. g = f /\ BucketCall(g, BoundVars(Table(g))) \in calls
        BY <1>2, <3>2
      <4>2. BoundVars(Table(g)) \in SUBSET Var
        BY DEF BoundVars
      <4> QED
        BY <1>6, <4>1, <4>2
    <3> QED
      BY <3>1, <3>2
  <2>4. ASSUME NEW a \in Addr, IsLambda(a), Seen(a)'
        PROVE  FrameSeen(a)'
    <3>1. Seen(a)
      BY <1>1, <1>7, <2>4 DEF Seen
    <3> QED
      BY <1>3, <1>6, <2>4, <3>1 DEF Colours
  <2>5. ASSUME NEW x \in Values, ObjectCall(x) \in Work'
        PROVE  x \in Safe
    BY <1>3, <1>7, <2>5 DEF Colours
  <2> QED
    BY <1>1, <1>4, <2>1, <2>2, <2>3, <2>4, <2>5 DEF Colours, BoundVars
<1>9. ASSUME NEW S \in SUBSET Addr, Closure(S)
      PROVE  /\ marked' \cap Addr \subseteq S /\ visited' \cap Addr \subseteq S
             /\ \A d \in calls : d.arg \in Addr => d.arg \in S
  <2>1. /\ marked \cap Addr \subseteq S /\ visited \cap Addr \subseteq S
        /\ f \in Addr => f \in S
    BY <1>1, <1>3, <1>5, <1>9 DEF OnlyReachable, FrameCall
  <2> QED
    BY <1>1, <1>2, <2>1 DEF BucketCall
<1> QED
  BY <1>1, <1>2, <1>3, <1>8, <1>9, MarkStepSafe

LEMMA MarkBucketSafe ==
  ASSUME BaseInv, SafeInv, MarkBucket, phase' = "mark"
  PROVE  SafeInv'
<1>1. /\ phase = "mark" /\ marked' = marked /\ visited' = visited
      /\ UNCHANGED <<obj, mutatorVars>>
  BY MarkBucketStep
<1>2. /\ HeapTypes /\ HeapSafe /\ PairInv /\ Colours /\ OnlyReachable
      /\ marked \cap Addr \subseteq Allocated
  BY <1>1 DEF BaseInv, SafeInv
<1> DEFINE Turn(f, L, calls) ==
      \/ L = {} /\ calls = {}
      \/ \E v \in L, o \in Values :
           /\ o = cell[Table(f)[v]] /\ o # Null
           /\ IsFrame(f) /\ L \subseteq BoundVars(Table(f))
           /\ calls = {ObjectCall(o), BucketCall(f, L \ {v})}
                       \cup IF IsLambda(o) THEN {FrameCall(o)} ELSE {}
<1>0. PICK f \in FrameNames, L \in SUBSET Var :
        \E calls : Makes(BucketCall(f, L), calls) /\ Turn(f, L, calls)
  <2>1. \/ \E f \in FrameNames : Makes(BucketCall(f, {}), {})
        \/ \E f \in FrameNames, L \in SUBSET Var : \E v \in L, o \in Values :
             /\ o = cell[Table(f)[v]] /\ o # Null
             /\ IsFrame(f) /\ L \subseteq BoundVars(Table(f))
             /\ Makes(BucketCall(f, L),
                      {ObjectCall(o), BucketCall(f, L \ {v})}
                        \cup IF IsLambda(o) THEN {FrameCall(o)} ELSE {})
    BY MarkBucketStep
  <2>2. ASSUME NEW f \in FrameNames, Makes(BucketCall(f, {}), {})
        PROVE  \E L \in SUBSET Var : \E calls :
                 Makes(BucketCall(f, L), calls) /\ Turn(f, L, calls)
    <3>1. Turn(f, {}, {}) /\ {} \in SUBSET Var
      OBVIOUS
    <3> HIDE DEF Turn
    <3> QED
      BY <2>2, <3>1
  <2>3. ASSUME NEW f \in FrameNames, NEW L \in SUBSET Var, NEW v \in L,
               NEW o \in Values,
               o = cell[Table(f)[v]], o # Null,
               IsFrame(f), L \subseteq BoundVars(Table(f)),
               Makes(BucketCall(f, L),
                     {ObjectCall(o), BucketCall(f, L \ {v})}
                       \cup IF IsLambda(o) THEN {FrameCall(o)} ELSE {})
        PROVE  \E calls : Makes(BucketCall(f, L), calls) /\ Turn(f, L, calls)
    <3>1. PICK calls : calls = {ObjectCall(o), BucketCall(f, L \ {v})}
                                 \cup IF IsLambda(o) THEN {FrameCall(o)} ELSE {}
      OBVIOUS
    <3>2. Turn(f, L, calls) /\ Makes(BucketCall(f, L), calls)
      BY <2>3, <3>1
    <3> HIDE DEF Turn
    <3> QED
      BY <3>2
  <2> HIDE DEF Turn
  <2> QED
    BY <2>1, <2>2, <2>3
<1>3. PICK calls : Makes(BucketCall(f, L), calls) /\ Turn(f, L, calls)
  BY <1>0
<1>4. /\ UNCHANGED <<obj, cell, global, frames, temps>>
      /\ Allocated' = Allocated /\ Safe' = Safe
      /\ \A a : IsPair(a)' = IsPair(a) /\ IsLambda(a)' = IsLambda(a)
      /\ \A g : Table(g)' = Table(g)
  BY <1>1, HeapUnchanged
<1>5. /\ \A x : Seen(x) => Seen(x)'
      /\ \A g : FrameSeen(g) => FrameSeen(g)'
      /\ \A g, v : BucketLeft(g, v) /\ g # f => BucketLeft(g, v)'
      /\ \A x : ObjectCall(x) \in calls => Seen(x)'
      /\ \A g : FrameCall(g) \in calls => FrameSeen(g)'
      /\ \A g, v : \A M \in SUBSET Var :
           BucketCall(g, M) \in calls /\ v \in M => BucketLeft(g, v)'
  BY <1>1, <1>3, SeenKept, CallFacts
<1>6. \A x : ObjectCall(x) \in calls =>
               /\ x \in Safe
               /\ IsLambda(x) => FrameCall(x) \in calls
  <2>1. CASE calls = {}
    BY <2>1
  <2>2. ASSUME NEW v \in L, NEW o \in Values, o = cell[Table(f)[v]],
               IsFrame(f), L \subseteq BoundVars(Table(f)),
               calls = {ObjectCall(o), BucketCall(f, L \ {v})}
                         \cup IF IsLambda(o) THEN {FrameCall(o)} ELSE {}
        PROVE  \A x : ObjectCall(x) \in calls =>
                 x \in Safe /\ (IsLambda(x) => FrameCall(x) \in calls)
    <3>1. FrameSafe(Table(f))
      BY <1>2, <2>2 DEF HeapSafe, IsFrame, Table, IsLambda
    <3>2. o \in Safe
      BY <2>2, <3>1 DEF FrameSafe, BoundVars
    <3> QED
      BY <2>2, <3>2, CallFacts
  <2> QED
    BY <1>3, <2>1, <2>2
<1>7. \A v : BucketLeft(f, v) => BucketLeft(f, v)' \/ Seen(cell[Table(f)[v]])'
  <2>1. ASSUME NEW v, NEW M \in SUBSET Var, BucketCall(f, M) \in Work, v \in M
        PROVE  BucketLeft(f, v)' \/ Seen(cell[Table(f)[v]])'
    <3>1. CASE M # L
      <4>1. BucketCall(f, M) \in Work'
        BY <1>3, <2>1, <3>1, CallFacts DEF Makes
      <4> QED
        BY <2>1, <4>1 DEF BucketLeft
    <3>2. CASE M = L
      <4>1. PICK u \in L, o \in Values :
              /\ o = cell[Table(f)[u]]
              /\ ObjectCall(o) \in calls /\ BucketCall(f, L \ {u}) \in calls
        BY <1>3, <2>1, <3>2
      <4>2. CASE v = u
        <5>1. Seen(o)'
          BY <1>5, <4>1
        <5> QED
          BY <1>4, <4>1, <4>2, <5>1 DEF Seen
      <4>3. CASE v # u
        <5>1. L \ {u} \in SUBSET Var /\ v \in L \ {u}
          BY <2>1, <3>2, <4>3
        <5> QED
          BY <1>5, <4>1, <5>1
      <4> QED
        BY <4>2, <4>3
    <3> QED
      BY <3>1, <3>2
  <2> QED
    BY <2>1 DEF BucketLeft
<1>8. Colours'
  <2>1. ASSUME NEW a \in Addr, a \in marked, IsPair(a)
        PROVE  Seen(obj[a].car)' /\ Seen(obj[a].cdr)'
    <3>1. PICK x, y : /\ x = obj[a].car /\ y = obj[a].cdr
                      /\ Seen(x) /\ Seen(y)
      BY <1>2, <2>1 DEF Colours
    <3>2. Seen(x)' /\ Seen(y)'
      BY <1>5, <3>1
    <3> QED
      BY <1>4, <3>1, <3>2 DEF Seen
  <2>2. FrameSeen(Global)'
    BY <1>2, <1>5 DEF Colours
  <2>3. ASSUME NEW g \in visited, NEW v \in BoundVars(Table(g))
        PROVE  Seen(cell[Table(g)[v]])' \/ BucketLeft(g, v)'
    <3>1. PICK x : x = cell[Table(g)[v]] /\ (Seen(x) \/ BucketLeft(g, v))
      BY <1>2 DEF Colours
    <3>2. Seen(x) => Seen(cell[Table(g)[v]])'
      <4>1. Seen(x) => Seen(x)'
        BY <1>5
      <4> QED
        BY <1>4, <3>1, <4>1 DEF Seen
    <3>3. BucketLeft(g, v) => Seen(cell[Table(g)[v]])' \/ BucketLeft(g, v)'
      <4>1. CASE g = f
        BY <1>7, <4>1
      <4>2. CASE g # f
        BY <1>5, <4>2
      <4> QED
        BY <4>1, <4>2
    <3> QED
      BY <3>1, <3>2, <3>3
  <2>4. ASSUME NEW a \in Addr, IsLambda(a), Seen(a)'
        PROVE  FrameSeen(a)'
    <3>1. Seen(a) \/ ObjectCall(a) \in calls
      BY <1>1, <1>3, <2>4 DEF Seen, Makes
    <3> QED
      BY <1>2, <1>5, <1>6, <2>4, <3>1 DEF Colours
  <2>5. ASSUME NEW x \in Values, ObjectCall(x) \in Work'
        PROVE  x \in Safe
    BY <1>2, <1>3, <1>6, <2>5 DEF Colours, Makes
  <2> QED
    BY <1>1, <1>4, <2>1, <2>2, <2>3, <2>4, <2>5 DEF Colours, BoundVars
<1>9. ASSUME NEW S \in SUBSET Addr, Closure(S)
      PROVE  /\ marked' \cap Addr \subseteq S /\ visited' \cap Addr \subseteq S
             /\ \A d \in calls : d.arg \in Addr => d.arg \in S
  <2>1. /\ marked \cap Addr \subseteq S /\ visited \cap Addr \subseteq S
        /\ f \in Addr => f \in S
    <3>1. BucketCall(f, L) \in Work /\ BucketCall(f, L).arg = f
      BY <1>3 DEF Makes, BucketCall
    <3> QED
      BY <1>1, <1>2, <1>9, <3>1 DEF OnlyReachable
  <2>2. ASSUME NEW v \in L, IsFrame(f), L \subseteq BoundVars(Table(f))
        PROVE  cell[Table(f)[v]] \in Addr => cell[Table(f)[v]] \in S
    <3>1. CASE f = Global
      <4>1. cell[Table(f)[v]] \in Roots
        BY <2>2, <3>1 DEF Roots, Table
      <4> QED
        BY <1>9, <4>1 DEF Closure
    <3>2. CASE IsLambda(f) /\ f # Global
      <4>1. cell[Table(f)[v]] \in References(f) /\ f \in S
        BY <2>1, <2>2, <3>2 DEF References, Table, IsLambda, IsPair
      <4> QED
        BY <1>9, <4>1 DEF Closure, Closed
    <3> QED
      BY <2>2, <3>1, <3>2 DEF IsFrame
  <2>3. CASE calls = {}
    BY <1>1, <2>1, <2>3
  <2>4. ASSUME NEW v \in L, NEW o \in Values, o = cell[Table(f)[v]],
               IsFrame(f), L \subseteq BoundVars(Table(f)),
               calls = {ObjectCall(o), BucketCall(f, L \ {v})}
                         \cup IF IsLambda(o) THEN {FrameCall(o)} ELSE {}
        PROVE  \A d \in calls : d.arg \in Addr => d.arg \in S
    <3>1. o \in Addr => o \in S
      BY <2>2, <2>4
    <3>2. \A d \in calls : d.arg = o \/ d.arg = f
      BY <2>4 DEF ObjectCall, BucketCall, FrameCall
    <3> QED
      BY <2>1, <3>1, <3>2
  <2> QED
    BY <1>1, <1>3, <2>1, <2>3, <2>4
<1> QED
  BY <1>1, <1>2, <1>3, <1>8, <1>9, MarkStepSafe

-----------------------------------------------------------------------------
(* Sweeping, and the theorems *)

\* Marking begins with nothing marked, and a frame that waits.
LEMMA GCcollectSafe ==
  ASSUME BaseInv, SafeInv, GC_collect
  PROVE  SafeInv'
<1>1. /\ phase = "eval" /\ phase' = "mark" /\ temps' = {} /\ frames' = <<>>
      /\ cell' = [c \in Cell |-> IF c \in CellsInUse THEN cell[c] ELSE Null]
      /\ stack' = <<[call |-> "mark_frame", arg |-> Global]>>
      /\ UNCHANGED <<obj, global, marked, visited>>
  BY DEF GC_collect
<1>2. /\ HeapTypes /\ HeapSafe /\ PairInv /\ marked' = {} /\ visited' = {}
  BY <1>1 DEF BaseInv, SafeInv
<1>3. /\ Allocated' = Allocated /\ Safe' = Safe
      /\ \A a : IsPair(a)' = IsPair(a) /\ IsLambda(a)' = IsLambda(a)
  BY <1>1 DEF Allocated, Safe, IsPair, IsLambda
<1>4. Work' = {FrameCall(Global)}
  <2>1. stack' = <<FrameCall(Global)>>
    BY <1>1 DEF FrameCall
  <2>2. Elements(<<FrameCall(Global)>>) = {FrameCall(Global)}
    BY PushedCalls
  <2> QED
    BY <2>1, <2>2 DEF Work
<1>5. \A f \in Frames : FrameSafe(f) => FrameSafe(f)'
  BY <1>1, <1>3 DEF FrameSafe, Frames, Safe
<1>6. HeapSafe'
  <2>1. FrameSafe(global)'
    BY <1>1, <1>2, <1>5 DEF HeapSafe, FrameSafe, HeapTypes
  <2>2. \A i \in DOMAIN frames' : FrameSafe(frames[i])'
    BY <1>1
  <2>3. ASSUME NEW a \in Addr, IsLambda(a)
        PROVE  FrameSafe(obj[a].saved_env)'
    <3>1. PICK f \in Frames : f = obj[a].saved_env /\ FrameSafe(f)
      BY <1>2, <2>3, ObjFacts DEF HeapSafe
    <3>2. FrameSafe(f)'
      BY <1>5, <3>1
    <3> QED
      BY <1>1, <3>1, <3>2 DEF FrameSafe
  <2>4. \A a \in Addr : IsPair(a) =>
          obj'[a].car \in Safe' /\ obj'[a].cdr \in Safe'
    BY <1>1, <1>2, <1>3 DEF HeapSafe
  <2> QED
    BY <1>1, <1>3, <2>1, <2>2, <2>3, <2>4 DEF HeapSafe
<1>7. PairInv'
  BY <1>1, <1>2, <1>3 DEF PairInv, IsLambda
<1>8. Colours'
  <2>1. \A o : Seen(o)' => o = Null
    BY <1>2, <1>4, CallFacts DEF Seen
  <2>2. \A o : ObjectCall(o) \notin Work'
    BY <1>4, CallFacts
  <2> QED
    BY <1>2, <1>4, <2>1, <2>2, NameAssumption DEF Colours, FrameSeen
<1>9. OnlyReachable'
  <2>1. FrameCall(Global).arg \notin Addr
    BY NameAssumption DEF FrameCall
  <2> QED
    BY <1>2, <1>4, <2>1 DEF OnlyReachable
<1> QED
  BY <1>1, <1>2, <1>6, <1>7, <1>8, <1>9 DEF SafeInv

\* When no call waits any more, the marked objects are closed.
LEMMA MarkDoneSafe ==
  ASSUME BaseInv, SafeInv, MarkDone
  PROVE  SafeInv'
<1>1. /\ phase = "mark" /\ phase' = "sweep" /\ stack = <<>>
      /\ UNCHANGED <<obj, mutatorVars>> /\ UNCHANGED markVars
      /\ marked' = marked /\ visited' = visited
  BY DEF MarkDone, markVars
<1>2. /\ HeapTypes /\ HeapSafe /\ PairInv /\ Colours /\ OnlyReachable
      /\ marked \cap Addr \subseteq Allocated
      /\ temps = {} /\ frames = <<>>
  BY <1>1 DEF BaseInv, SafeInv
<1>3. Work = {}
  BY <1>1, PushedCalls DEF Work
<1>4. /\ \A o : Seen(o) => o = Null \/ o \in marked
      /\ \A f : FrameSeen(f) => f \in visited
      /\ \A f \in visited : \A v \in BoundVars(Table(f)) :
           cell[Table(f)[v]] = Null \/ cell[Table(f)[v]] \in marked
  BY <1>2, <1>3 DEF Seen, FrameSeen, BucketLeft, Colours
<1>5. Roots \cap Addr \subseteq marked
  <2>1. Global \in visited /\ Table(Global) = global
    BY <1>2, <1>4 DEF Colours, Table
  <2>2. Range(frames) = {}
    BY <1>2 DEF Range
  <2>3. Roots = {cell[global[v]] : v \in BoundVars(global)}
    BY <1>2, <2>2 DEF Roots
  <2> QED
    BY <1>4, <2>1, <2>3, NameAssumption
<1>6. ASSUME NEW a \in marked \cap Addr
      PROVE  References(a) \cap Addr \subseteq marked
  <2>1. CASE IsPair(a)
    <3>1. \A x \in {obj[a].car, obj[a].cdr} : x = Null \/ x \in marked
      BY <1>2, <1>4, <2>1 DEF Colours
    <3>2. References(a) = {obj[a].car, obj[a].cdr}
      BY <2>1 DEF References
    <3> QED
      BY <3>1, <3>2, NameAssumption
  <2>2. CASE IsLambda(a) /\ ~ IsPair(a)
    <3>1. a \in visited
      BY <1>2, <1>4, <2>2 DEF Colours, Seen
    <3>2. Table(a) = obj[a].saved_env
      BY NameAssumption DEF Table
    <3>3. References(a) = {cell[Table(a)[v]] : v \in BoundVars(Table(a))}
      BY <2>2, <3>2 DEF References
    <3> QED
      BY <1>4, <3>1, <3>3, NameAssumption
  <2>3. CASE ~ IsLambda(a) /\ ~ IsPair(a)
    BY <2>3 DEF References
  <2> QED
    BY <2>1, <2>2, <2>3
<1>7. Closed(marked \cap Addr)
  BY <1>6 DEF Closed
<1>8. /\ Roots' = Roots /\ Allocated' = Allocated /\ PairInv' = PairInv
      /\ \A S : Closed(S)' = Closed(S) /\ Closure(S)' = Closure(S)
  BY <1>1, HeapUnchanged
<1>9. OnlyReachable'
  BY <1>1, <1>2, <1>8 DEF OnlyReachable
<1>10. Closed(marked \cap Addr)'
  <2>1. PICK M : M = marked \cap Addr
    OBVIOUS
  <2>2. Closed(M)'
    BY <1>7, <1>8, <2>1
  <2> QED
    BY <1>1, <2>1, <2>2 DEF Closed
<1> QED
  BY <1>1, <1>2, <1>5, <1>8, <1>9, <1>10 DEF SafeInv

\* Freeing an unmarked object takes nothing from what is reachable.
LEMMA SweepItemSafe ==
  ASSUME BaseInv, SafeInv, SweepItem
  PROVE  SafeInv'
<1>1. /\ phase = "sweep" /\ phase' = "sweep" /\ item \in Addr
      /\ UNCHANGED <<cell, global, frames, temps, marked, visited>>
      /\ obj' = obj \/ (item \notin marked /\ obj' = [obj EXCEPT ![item] = Free])
  BY SweepListInv DEF BaseInv, SweepItem, sweep_worklist_item, mutatorVars, markVars
<1>2. /\ HeapTypes /\ PairInv /\ OnlyReachable
      /\ marked \cap Addr \subseteq Allocated
      /\ Roots \cap Addr \subseteq marked /\ Closed(marked \cap Addr)
  BY <1>1 DEF BaseInv, SafeInv
<1>3. \A a \in Addr : a \in marked => obj'[a] = obj[a]
  BY <1>1, <1>2 DEF HeapTypes
<1>4. \A a \in Addr : obj'[a] = obj[a] \/ obj'[a] = Free
  BY <1>1, <1>2 DEF HeapTypes
<1>5. marked \cap Addr \subseteq Allocated'
  BY <1>2, <1>3 DEF Allocated
<1>6. PairInv'
  BY <1>2, <1>4 DEF PairInv, IsPair, IsLambda, Free
<1>7. Roots' = Roots
  BY <1>1 DEF Roots, BoundVars
<1>8. \A a \in marked \cap Addr : References(a)' = References(a)
  BY <1>1, <1>3 DEF References, IsPair, IsLambda, BoundVars
<1>9. Closed(marked \cap Addr)'
  BY <1>1, <1>2, <1>8 DEF Closed
<1>10. ASSUME NEW S \in SUBSET Addr, Closure(S)'
       PROVE  marked \cap Addr \subseteq S
  <2>1. Roots \cap Addr \subseteq S \cap marked
    BY <1>2, <1>7, <1>10 DEF Closure
  <2>2. ASSUME NEW a \in S \cap marked
        PROVE  References(a) \cap Addr \subseteq S \cap marked
    BY <1>2, <1>8, <1>10 DEF Closure, Closed
  <2>3. Closure(S \cap marked) /\ S \cap marked \in SUBSET Addr
    BY <2>1, <2>2 DEF Closure, Closed
  <2> QED
    BY <1>2, <2>3 DEF OnlyReachable
<1>11. OnlyReachable'
  BY <1>1, <1>10 DEF OnlyReachable
<1> QED
  BY <1>1, <1>2, <1>5, <1>6, <1>7, <1>9, <1>11 DEF SafeInv

\* At the end of the list every allocated object is marked.
LEMMA SweptAll ==
  ASSUME BaseInv, SafeInv, SweepDone
  PROVE  Allocated = marked \cap Addr
<1>1. phase = "sweep" /\ item = Null /\ ListInv /\ size \in Nat
  BY DEF SweepDone, BaseInv, HeapTypes
<1>2. PICK w \in [0..(size - 1) -> Addr], p \in 0..size :
        IsList(w) /\ SweptUpTo(w, p)
  BY <1>1 DEF ListInv
<1>3. p = size
  BY <1>1, <1>2, NameAssumption DEF SweptUpTo
<1>4. \A i \in 0..(size - 1) : w[i] \in marked
  BY <1>2, <1>3 DEF SweptUpTo
<1>5. Allocated \subseteq marked
  BY <1>2, <1>4 DEF IsList
<1> QED
  BY <1>1, <1>5 DEF SafeInv, Allocated

LEMMA SweepDoneSafe ==
  ASSUME BaseInv, SafeInv, SweepDone
  PROVE  SafeInv'
<1>1. /\ phase = "sweep" /\ phase' = "eval"
      /\ UNCHANGED <<obj, mutatorVars>> /\ UNCHANGED mutatorVars
      /\ temps = {} /\ frames = <<>> /\ HeapTypes
  BY DEF SweepDone, BaseInv
<1>2. /\ PairInv /\ Allocated = marked \cap Addr
      /\ Roots \cap Addr \subseteq marked /\ Closed(marked \cap Addr)
  BY <1>1, SweptAll DEF SafeInv
<1>3. \A a \in Allocated : References(a) \cap Addr \subseteq Allocated
  BY <1>2 DEF Closed
<1>4. Values \ Safe \subseteq Addr \ Allocated
  BY DEF Values, Safe
<1>5. FrameSafe(global)
  <2>1. global \in Frames
    BY <1>1 DEF HeapTypes
  <2>2. \A v \in BoundVars(global) : /\ cell[global[v]] \in Roots
                                     /\ cell[global[v]] \in Values
    BY <1>1, <2>1 DEF Roots, BoundVars, Frames, HeapTypes
  <2> QED
    BY <1>2, <1>4, <2>2 DEF FrameSafe, BoundVars
<1>6. ASSUME NEW a \in Addr, IsPair(a)
      PROVE  obj[a].car \in Safe /\ obj[a].cdr \in Safe
  BY <1>1, <1>3, <1>4, <1>6, ObjFacts DEF References
<1>7. ASSUME NEW a \in Addr, IsLambda(a)
      PROVE  FrameSafe(obj[a].saved_env)
  <2>1. /\ obj[a].saved_env \in Frames /\ a \in Allocated /\ ~ IsPair(a)
    BY <1>1, <1>7, ObjFacts DEF IsLambda, IsPair
  <2>2. \A v \in BoundVars(obj[a].saved_env) :
          /\ cell[obj[a].saved_env[v]] \in References(a)
          /\ cell[obj[a].saved_env[v]] \in Values
    BY <1>1, <1>7, <2>1 DEF References, BoundVars, Frames, HeapTypes
  <2> QED
    BY <1>3, <1>4, <2>1, <2>2 DEF FrameSafe, BoundVars
<1>8. HeapSafe
  BY <1>1, <1>5, <1>6, <1>7 DEF HeapSafe
<1>9. HeapSafe' = HeapSafe /\ PairInv' = PairInv
  BY <1>1, HeapUnchanged
<1> QED
  BY <1>1, <1>2, <1>8, <1>9 DEF SafeInv

LEMMA NextSafe ==
  ASSUME ~ ClosuresInPairs
  PROVE  BaseInv /\ SafeInv /\ [Next]_vars => SafeInv'
<1> SUFFICES ASSUME BaseInv, SafeInv, [Next]_vars PROVE SafeInv'
  OBVIOUS
<1>1. CASE UNCHANGED vars
  <2>1. /\ UNCHANGED <<obj, mutatorVars>>
        /\ UNCHANGED <<phase, marked, visited, stack>>
    BY <1>1 DEF vars, markVars
  <2>2. /\ UNCHANGED <<obj, cell, global, frames, temps>>
        /\ Allocated' = Allocated /\ Safe' = Safe /\ Roots' = Roots
        /\ \A a : IsPair(a)' = IsPair(a) /\ IsLambda(a)' = IsLambda(a)
        /\ \A f : Table(f)' = Table(f)
        /\ \A S : Closed(S)' = Closed(S) /\ Closure(S)' = Closure(S)
        /\ HeapSafe' = HeapSafe /\ PairInv' = PairInv
    BY <2>1, HeapUnchanged
  <2>3. Colours' = Colours
    BY <2>1, <2>2 DEF Colours, Seen, FrameSeen, BucketLeft, Work, BoundVars
  <2>4. OnlyReachable' = OnlyReachable
    BY <2>1, <2>2 DEF OnlyReachable, Work
  <2>5. Closed(marked \cap Addr)' = Closed(marked \cap Addr)
    <3>1. PICK M : M = marked \cap Addr
      OBVIOUS
    <3>2. Closed(M)' = Closed(M)
      BY <2>2
    <3> QED
      BY <2>1, <3>1, <3>2 DEF Closed
  <2> QED
    BY <2>1, <2>2, <2>3, <2>4, <2>5 DEF SafeInv
<1>2. CASE MarkBucket
  <2>1. CASE phase' = "mark"
    BY <1>2, <2>1, MarkBucketSafe
  <2>2. CASE phase' # "mark"
    <3>1. /\ phase = "mark" /\ phase' = "crashed"
          /\ UNCHANGED <<obj, mutatorVars>>
      BY <1>2, <2>2, MarkBucketStep
    <3>2. PairInv'
      BY <3>1, HeapUnchanged DEF SafeInv
    <3> QED
      BY <3>1, <3>2 DEF SafeInv
  <2> QED
    BY <2>1, <2>2
<1> QED
  BY <1>1, <1>2, EvaluateSafe, GCcollectSafe, MarkObjectSafe, MarkFrameSafe,
     MarkDoneSafe, SweepItemSafe, SweepDoneSafe DEF Next, Collect

LEMMA InitSafe == Init => SafeInv
<1> SUFFICES ASSUME Init PROVE SafeInv
  OBVIOUS
<1>1. /\ \A a \in Addr : ~ IsPair(a) /\ ~ IsLambda(a)
      /\ phase = "eval" /\ temps = {} /\ global = EmptyFrame /\ frames = <<>>
  BY DEF Init, IsPair, IsLambda, Free
<1>2. FrameSafe(EmptyFrame)
  BY DEF FrameSafe, EmptyFrame
<1> QED
  BY <1>1, <1>2 DEF SafeInv, PairInv, HeapSafe

\* Provided that no closure is stored in a pair, nothing that the program can
\* get at is ever freed, for any heap, program and order of the hash table
\* (mark_object and mark_frame, gbgcollector.c:64-89; sweep_worklist_item,
\* gbgcollector.c:110-121).
THEOREM NothingDangles == ~ ClosuresInPairs => (Spec => []NoDangling)
<1> SUFFICES ASSUME ~ ClosuresInPairs PROVE Spec => []NoDangling
  OBVIOUS
<1>1. ASSUME BaseInv, SafeInv
      PROVE  NoDangling
  <2> SUFFICES ASSUME phase = "eval"
               PROVE  Roots \cap Addr \subseteq Allocated /\ Closed(Allocated)
    BY DEF NoDangling
  <2>1. HeapTypes /\ HeapSafe
    BY <1>1 DEF BaseInv, SafeInv
  <2>2. Safe \cap Addr \subseteq Allocated
    BY NameAssumption DEF Safe
  <2>3. ASSUME NEW f \in {global} \cup Range(frames), NEW v \in BoundVars(f)
        PROVE  cell[f[v]] \in Safe
    BY <2>1, <2>3 DEF HeapSafe, FrameSafe, BoundVars, Range
  <2>4. Roots \cap Addr \subseteq Allocated
    BY <2>1, <2>2, <2>3 DEF Roots, HeapSafe
  <2>5. ASSUME NEW a \in Allocated
        PROVE  References(a) \subseteq Safe
    BY <2>1 DEF References, HeapSafe, FrameSafe, BoundVars, Allocated
  <2>6. Closed(Allocated)
    BY <2>2, <2>5 DEF Closed
  <2> QED
    BY <2>4, <2>6
<1>2. Init => BaseInv /\ SafeInv
  BY InitBase, InitSafe
<1>3. BaseInv /\ SafeInv /\ [Next]_vars => BaseInv' /\ SafeInv'
  BY NextBase, NextSafe
<1> QED
  BY <1>1, <1>2, <1>3, PTL DEF Spec

\* Under the same condition GC_collect leaves only what can be reached: every
\* other object has been freed when it returns, cyclic closures included
\* (GC_sweep, gbgcollector.c:123-140).
THEOREM AllGarbageFreed == ~ ClosuresInPairs => (Spec => GarbageFreed)
<1> SUFFICES ASSUME ~ ClosuresInPairs PROVE Spec => GarbageFreed
  OBVIOUS
<1>1. ASSUME BaseInv, SafeInv, [Next]_vars
      PROVE  [phase = "sweep" /\ phase' = "eval" =>
                Allocated' \subseteq Reachable']_vars
  <2> SUFFICES ASSUME phase = "sweep", phase' = "eval", Next
               PROVE  Allocated' \subseteq Reachable'
    BY <1>1 DEF vars
  <2>1. SweepDone
    <3>1. ~ Evaluate
      BY DEF Evaluate, Evaluating, NewAtom, NewPair, Part, Lambda, Define,
             DefineLambda, Set, Call, Return
    <3>2. ~ GC_collect /\ ~ MarkDone /\ ~ SweepItem
      BY DEF GC_collect, MarkDone, SweepItem
    <3>3. ~ mark_object /\ ~ mark_frame /\ ~ MarkBucket
      BY DEF mark_object, mark_frame, MarkBucket, Marking
    <3> QED
      BY <3>1, <3>2, <3>3 DEF Next, Collect
  <2>2. Allocated = marked \cap Addr /\ OnlyReachable
    BY <1>1, <2>1, SweptAll DEF SafeInv
  <2>3. UNCHANGED <<obj, mutatorVars>>
    BY <2>1 DEF SweepDone
  <2>4. Allocated' = Allocated /\ \A S : Closure(S)' = Closure(S)
    BY <2>3, HeapUnchanged
  <2>5. \A S \in SUBSET Addr : Closure(S)' => Allocated' \subseteq S
    BY <2>2, <2>4 DEF OnlyReachable
  <2>6. Allocated' \subseteq Addr
    BY DEF Allocated
  <2> QED
    BY <2>5, <2>6 DEF Reachable, Closure
<1>2. Init => BaseInv /\ SafeInv
  BY InitBase, InitSafe
<1>3. BaseInv /\ SafeInv /\ [Next]_vars => BaseInv' /\ SafeInv'
  BY NextBase, NextSafe
<1> QED
  BY <1>1, <1>2, <1>3, PTL DEF Spec, GarbageFreed
=============================================================================
