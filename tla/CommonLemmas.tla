---------------------------- MODULE CommonLemmas ----------------------------
(***************************************************************************)
(* Facts about numbers and sequences that the proofs of several components *)
(* use: least and greatest elements stand in for induction, and what       *)
(* pushing onto and popping off a stack of pending calls does to the calls *)
(* that are in it.                                                         *)
(***************************************************************************)
EXTENDS Integers, Sequences, SequenceTheorems, WellFoundedInduction, TLAPS

\* A nonempty set of naturals has a least element.
LEMMA LeastNatural ==
  ASSUME NEW T \in SUBSET Nat, T # {}
  PROVE  \E n \in T : \A m \in T : n <= m
<1>1. IsWellFoundedOn(OpToRel(<, Nat), Nat)
  BY NatLessThanWellFounded
<1>2. PICK n \in T : \A m \in T : <<m, n>> \notin OpToRel(<, Nat)
  BY <1>1, WFMin
<1>3. ASSUME NEW m \in T
      PROVE  n <= m
  <2>1. ~ (m < n)
    BY <1>2 DEF OpToRel
  <2> QED
    BY <2>1
<1> QED
  BY <1>3

\* Infinite descent.
LEMMA NoDescent ==
  ASSUME NEW T \in SUBSET Nat, \A m \in T : \E n \in T : n < m
  PROVE  T = {}
<1> SUFFICES ASSUME T # {} PROVE FALSE
  OBVIOUS
<1>1. PICK m \in T : \A n \in T : m <= n
  BY LeastNatural
<1>2. PICK n \in T : n < m
  BY <1>1
<1> QED
  BY <1>1, <1>2

\* What holds of 0, and of k + 1 if it holds of k, holds of all numbers up to n.
LEMMA AllUpTo ==
  ASSUME NEW n \in Nat, NEW T, 0 \in T, \A k \in 0..(n - 1) : k \in T => k + 1 \in T
  PROVE  n \in T /\ \A k \in 0..n : k \in T
<1> DEFINE U == {k \in 0..n : k \notin T}
<1>1. ASSUME NEW m \in U
      PROVE  \E k \in U : k < m
  <2>1. m \in 0..n /\ m # 0 /\ (m - 1) + 1 = m /\ m - 1 \in 0..(n - 1)
    OBVIOUS
  <2>2. m - 1 \notin T
    BY <2>1
  <2> QED
    BY <2>1, <2>2
<1>2. U = {}
  <2>1. U \in SUBSET Nat
    OBVIOUS
  <2> HIDE DEF U
  <2> QED
    BY <1>1, <2>1, NoDescent
<1> QED
  BY <1>2

\* A function on 0..n is given by its first value and by how each follows from the
\* one before it.
Iterates(s, n, v, F) == s[0] = v /\ \A k \in 1..n : s[k] = F[k][s[k - 1]]

LEMMA RecursionUpTo ==
  ASSUME NEW n \in Nat, NEW V, NEW v \in V, NEW F \in [1..n -> [V -> V]]
  PROVE  \E s \in [0..n -> V] : Iterates(s, n, v, F)
<1> DEFINE T == {m \in 0..n : \E s \in [0..m -> V] : Iterates(s, m, v, F)}
<1>1. 0 \in T
  <2>1. [k \in 0..0 |-> v] \in [0..0 -> V] /\ Iterates([k \in 0..0 |-> v], 0, v, F)
    BY DEF Iterates
  <2> QED
    BY <2>1
<1>2. ASSUME NEW m \in 0..(n - 1), m \in T
      PROVE  m + 1 \in T
  <2>1. PICK s \in [0..m -> V] : Iterates(s, m, v, F)
    BY <1>2
  <2>2. m + 1 \in 1..n /\ m \in 0..m /\ m + 1 \in 0..n
    OBVIOUS
  <2>3. PICK x \in V : x = F[m + 1][s[m]]
    BY <2>2
  <2> DEFINE t == [k \in 0..(m + 1) |-> IF k = m + 1 THEN x ELSE s[k]]
  <2>4. t \in [0..(m + 1) -> V]
    OBVIOUS
  <2>5. t[m + 1] = x /\ \A k \in 0..m : t[k] = s[k]
    OBVIOUS
  <2> HIDE DEF t
  <2>6. t[0] = v
    BY <2>1, <2>5 DEF Iterates
  <2>7. ASSUME NEW k \in 1..(m + 1)
        PROVE  t[k] = F[k][t[k - 1]]
    <3>1. CASE k = m + 1
      <4>1. k - 1 = m
        BY <3>1
      <4> QED
        BY <2>2, <2>3, <2>5, <3>1, <4>1
    <3>2. CASE k # m + 1
      <4>1. k \in 1..m /\ k \in 0..m /\ k - 1 \in 0..m
        BY <3>2
      <4> QED
        BY <2>1, <2>5, <4>1 DEF Iterates
    <3> QED
      BY <3>1, <3>2
  <2>8. Iterates(t, m + 1, v, F)
    BY <2>6, <2>7 DEF Iterates
  <2> QED
    BY <2>2, <2>4, <2>8
<1> HIDE DEF T
<1>3. n \in T
  BY <1>1, <1>2, AllUpTo
<1> QED
  BY <1>3 DEF T

\* A nonempty set of naturals with a bound has a greatest element.
LEMMA GreatestNatural ==
  ASSUME NEW b \in Nat, NEW T \in SUBSET (0..b), T # {}
  PROVE  \E n \in T : \A m \in T : m <= n
<1> DEFINE U == {u \in 0..b : b - u \in T}
<1>1. U \in SUBSET Nat
  OBVIOUS
<1>2. U # {}
  <2>1. PICK t \in T : TRUE
    OBVIOUS
  <2>2. b - t \in 0..b /\ b - (b - t) = t
    OBVIOUS
  <2> QED
    BY <2>1, <2>2
<1>3. PICK u \in U : \A m \in U : u <= m
  BY <1>1, <1>2, LeastNatural
<1>4. ASSUME NEW m \in T
      PROVE  m <= b - u
  <2>1. b - m \in U
    OBVIOUS
  <2>2. u <= b - m
    BY <1>3, <2>1
  <2> QED
    BY <2>2
<1> QED
  BY <1>3, <1>4

\* The innermost element and the rest make up a stack.
LEMMA StackPop ==
  ASSUME NEW S, NEW s \in Seq(S), s # <<>>
  PROVE  /\ Head(s) \in S /\ Tail(s) \in Seq(S)
         /\ 1 \in DOMAIN s /\ s[1] = Head(s)
         /\ Len(Tail(s)) = Len(s) - 1
         /\ \A i \in DOMAIN Tail(s) : i + 1 \in DOMAIN s /\ Tail(s)[i] = s[i + 1]
         /\ \A i \in DOMAIN s : i # 1 =>
              i - 1 \in DOMAIN Tail(s) /\ Tail(s)[i - 1] = s[i]
<1>1. /\ Head(s) \in S /\ Tail(s) \in Seq(S)
      /\ Len(Tail(s)) = Len(s) - 1
      /\ \A i \in 1..Len(Tail(s)) : Tail(s)[i] = s[i + 1]
  BY HeadTailProperties
<1>2. /\ Len(s) \in Nat /\ DOMAIN s = 1..Len(s)
      /\ DOMAIN Tail(s) = 1..Len(Tail(s))
  BY <1>1, LenProperties
<1>3. Len(s) > 0
  BY <1>2, EmptySeq
<1>4. s[1] = Head(s)
  BY <1>3
<1> QED
  BY <1>1, <1>2, <1>3, <1>4

\* What is on a stack.
Elements(s) == {s[i] : i \in DOMAIN s}

\* What is on a stack after some calls have been pushed onto the rest of it.
LEMMA ElementsConcat ==
  ASSUME NEW S, NEW s \in Seq(S), NEW t \in Seq(S)
  PROVE  s \o t \in Seq(S) /\ Elements(s \o t) = Elements(s) \cup Elements(t)
<1>1. /\ s \o t \in Seq(S)
      /\ Len(s \o t) = Len(s) + Len(t)
      /\ \A i \in 1..(Len(s) + Len(t)) :
           (s \o t)[i] = IF i <= Len(s) THEN s[i] ELSE t[i - Len(s)]
  BY ConcatProperties
<1>2. /\ Len(s) \in Nat /\ DOMAIN s = 1..Len(s)
      /\ Len(t) \in Nat /\ DOMAIN t = 1..Len(t)
      /\ DOMAIN (s \o t) = 1..(Len(s) + Len(t))
  BY <1>1, LenProperties
<1>3. ASSUME NEW i \in DOMAIN (s \o t)
      PROVE  (s \o t)[i] \in Elements(s) \cup Elements(t)
  <2>1. CASE i <= Len(s)
    <3>1. i \in DOMAIN s /\ (s \o t)[i] = s[i]
      BY <1>1, <1>2, <2>1
    <3> QED
      BY <3>1 DEF Elements
  <2>2. CASE i > Len(s)
    <3>1. i - Len(s) \in DOMAIN t /\ (s \o t)[i] = t[i - Len(s)]
      BY <1>1, <1>2, <2>2
    <3> QED
      BY <3>1 DEF Elements
  <2> QED
    BY <1>2, <2>1, <2>2
<1>4. ASSUME NEW j \in DOMAIN s
      PROVE  s[j] \in Elements(s \o t)
  <2>1. j \in DOMAIN (s \o t) /\ (s \o t)[j] = s[j]
    BY <1>1, <1>2
  <2> QED
    BY <2>1 DEF Elements
<1>5. ASSUME NEW j \in DOMAIN t
      PROVE  t[j] \in Elements(s \o t)
  <2>1. /\ j + Len(s) \in DOMAIN (s \o t)
        /\ (s \o t)[j + Len(s)] = t[j]
    BY <1>1, <1>2
  <2> QED
    BY <2>1 DEF Elements
<1>6. Elements(s \o t) \subseteq Elements(s) \cup Elements(t)
  BY <1>3 DEF Elements
<1>7. Elements(s) \cup Elements(t) \subseteq Elements(s \o t)
  BY <1>4, <1>5 DEF Elements
<1> QED
  BY <1>1, <1>6, <1>7

\* A call is taken off the stack, and the calls it makes are put there.
LEMMA StackStep ==
  ASSUME NEW S, NEW s \in Seq(S), s # <<>>, NEW calls \in Seq(S)
  PROVE  /\ Head(s) \in S /\ Head(s) \in Elements(s)
         /\ calls \o Tail(s) \in Seq(S)
         /\ Elements(calls \o Tail(s)) \subseteq Elements(calls) \cup Elements(s)
         /\ Elements(calls) \cup (Elements(s) \ {Head(s)})
              \subseteq Elements(calls \o Tail(s))
<1>1. /\ Head(s) \in S /\ Tail(s) \in Seq(S)
      /\ 1 \in DOMAIN s /\ s[1] = Head(s)
      /\ \A i \in DOMAIN Tail(s) : i + 1 \in DOMAIN s /\ Tail(s)[i] = s[i + 1]
      /\ \A i \in DOMAIN s : i # 1 =>
           i - 1 \in DOMAIN Tail(s) /\ Tail(s)[i - 1] = s[i]
  BY StackPop
<1>2. PICK t \in Seq(S) : t = Tail(s)
  BY <1>1
<1>3. calls \o t \in Seq(S) /\ Elements(calls \o t) = Elements(calls) \cup Elements(t)
  BY ElementsConcat
<1>4. Elements(t) \subseteq Elements(s)
  BY <1>1, <1>2 DEF Elements
<1>5. Elements(s) \ {Head(s)} \subseteq Elements(t)
  <2>1. ASSUME NEW i \in DOMAIN s, s[i] # Head(s)
        PROVE  s[i] \in Elements(t)
    <3>1. i # 1
      BY <1>1, <2>1
    <3>2. i - 1 \in DOMAIN t /\ t[i - 1] = s[i]
      BY <1>1, <1>2, <3>1
    <3> QED
      BY <3>2 DEF Elements
  <2> QED
    BY <2>1 DEF Elements
<1>6. Head(s) \in Elements(s)
  BY <1>1 DEF Elements
<1> QED
  BY <1>1, <1>2, <1>3, <1>4, <1>5, <1>6

\* Pushing no call, one or two of them.
LEMMA PushedCalls ==
  ASSUME NEW S
  PROVE  /\ <<>> \in Seq(S) /\ Elements(<<>>) = {}
         /\ \A x \in S : <<x>> \in Seq(S) /\ Elements(<<x>>) = {x}
         /\ \A x, y \in S : <<x, y>> \in Seq(S) /\ Elements(<<x, y>>) = {x, y}
<1>1. <<>> \in Seq(S) /\ Elements(<<>>) = {}
  BY EmptySeq DEF Elements
<1>2. ASSUME NEW x \in S
      PROVE  <<x>> \in Seq(S) /\ Elements(<<x>>) = {x}
  <2>1. DOMAIN <<x>> = {1} /\ <<x>>[1] = x /\ <<x>> \in Seq(S)
    OBVIOUS
  <2> QED
    BY <2>1 DEF Elements
<1>3. ASSUME NEW x \in S, NEW y \in S
      PROVE  <<x, y>> \in Seq(S) /\ Elements(<<x, y>>) = {x, y}
  <2>1. /\ DOMAIN <<x, y>> = {1, 2} /\ <<x, y>>[1] = x /\ <<x, y>>[2] = y
        /\ <<x, y>> \in Seq(S)
    OBVIOUS
  <2> QED
    BY <2>1 DEF Elements
<1> QED
  BY <1>1, <1>2, <1>3

\* s is the stack t with one more call, k, on it.
Pushed(s, k, t) ==
  /\ s = <<k>> \o t /\ s # <<>>
  /\ Len(t) \in Nat /\ DOMAIN t = 1..Len(t)
  /\ Len(s) = Len(t) + 1 /\ DOMAIN s = 1..(Len(t) + 1)
  /\ s[1] = k /\ \A i \in 1..Len(t) : s[i + 1] = t[i]
  /\ Head(s) = k /\ Tail(s) = t

LEMMA ConsFacts ==
  ASSUME NEW S, NEW k \in S, NEW t \in Seq(S)
  PROVE  \E s \in Seq(S) : Pushed(s, k, t)
<1>1. PICK h : h \in Seq(S) /\ h = <<k>> /\ Len(h) = 1 /\ h[1] = k
  <2>1. <<k>> \in Seq(S) /\ Len(<<k>>) = 1 /\ <<k>>[1] = k
    OBVIOUS
  <2> QED
    BY <2>1, Zenon
<1>2. Len(t) \in Nat /\ DOMAIN t = 1..Len(t)
  BY LenProperties
<1>3. /\ h \o t \in Seq(S) /\ Len(h \o t) = Len(h) + Len(t)
      /\ \A i \in 1..(Len(h) + Len(t)) :
           (h \o t)[i] = IF i <= Len(h) THEN h[i] ELSE t[i - Len(h)]
  BY <1>1, ConcatProperties
<1>4. PICK s : s = h \o t
  OBVIOUS
<1>5. /\ s \in Seq(S) /\ Len(s) = Len(t) + 1
      /\ \A i \in 1..(Len(t) + 1) : s[i] = IF i <= 1 THEN h[i] ELSE t[i - 1]
  BY <1>1, <1>2, <1>3, <1>4
<1>6. s # <<>> /\ DOMAIN s = 1..(Len(t) + 1)
  BY <1>2, <1>5, LenProperties, EmptySeq
<1>7. s[1] = k /\ \A i \in 1..Len(t) : s[i + 1] = t[i]
  BY <1>1, <1>2, <1>5
<1>8. /\ Head(s) = k
      /\ Tail(s) \in Seq(S) /\ Len(Tail(s)) = Len(s) - 1
      /\ \A i \in DOMAIN Tail(s) : Tail(s)[i] = s[i + 1]
  BY <1>5, <1>6, <1>7, StackPop
<1>9. Tail(s) = t
  <2>1. Len(Tail(s)) = Len(t) /\ DOMAIN Tail(s) = 1..Len(t)
    BY <1>2, <1>5, <1>8, LenProperties
  <2>2. \A i \in 1..Len(t) : Tail(s)[i] = t[i]
    BY <1>7, <1>8, <2>1
  <2> QED
    BY <1>8, <2>1, <2>2, SeqEqual
<1> QED
  BY <1>1, <1>2, <1>4, <1>5, <1>6, <1>7, <1>8, <1>9 DEF Pushed

\* Pushing two calls is pushing one after the other.
LEMMA TwoCons ==
  ASSUME NEW S, NEW j \in S, NEW k \in S, NEW t \in Seq(S)
  PROVE  <<j, k>> \o t = <<j>> \o (<<k>> \o t)
<1>1. PICK u \in Seq(S) : Pushed(u, k, t)
  BY ConsFacts
<1>2. PICK v \in Seq(S) : Pushed(v, j, u)
  BY ConsFacts
<1>3. PICK p : p \in Seq(S) /\ p = <<j, k>> /\ Len(p) = 2 /\ p[1] = j /\ p[2] = k
  <2>1. /\ <<j, k>> \in Seq(S) /\ Len(<<j, k>>) = 2
        /\ <<j, k>>[1] = j /\ <<j, k>>[2] = k
    OBVIOUS
  <2> QED
    BY <2>1, Zenon
<1>4. PICK w : w = p \o t
  OBVIOUS
<1>5. /\ w \in Seq(S) /\ Len(w) = 2 + Len(t)
      /\ \A i \in 1..(2 + Len(t)) : w[i] = IF i <= 2 THEN p[i] ELSE t[i - 2]
  BY <1>1, <1>3, <1>4, ConcatProperties DEF Pushed
<1>6. ASSUME NEW i \in 1..Len(w)
      PROVE  w[i] = v[i]
  <2>1. CASE i = 1
    BY <1>1, <1>2, <1>3, <1>5, <2>1 DEF Pushed
  <2>2. CASE i = 2
    <3>1. v[1 + 1] = u[1]
      BY <1>1, <1>2 DEF Pushed
    <3> QED
      BY <1>1, <1>2, <1>3, <1>5, <2>2, <3>1 DEF Pushed
  <2>3. CASE i > 2
    <3>1. i - 2 \in 1..Len(t) /\ w[i] = t[i - 2]
      BY <1>1, <1>5, <2>3 DEF Pushed
    <3>2. u[(i - 2) + 1] = t[i - 2]
      BY <1>1, <3>1 DEF Pushed
    <3>3. i - 1 \in 1..Len(u) /\ (i - 1) + 1 = i /\ (i - 2) + 1 = i - 1
      BY <1>1, <1>5, <2>3 DEF Pushed
    <3>4. v[(i - 1) + 1] = u[i - 1]
      BY <1>2, <3>3 DEF Pushed
    <3> QED
      BY <3>1, <3>2, <3>3, <3>4
  <2> QED
    BY <1>1, <1>5, <2>1, <2>2, <2>3 DEF Pushed
<1>7. w = v
  <2>1. w \in Seq(S) /\ v \in Seq(S) /\ Len(w) = Len(v)
    BY <1>1, <1>2, <1>5 DEF Pushed
  <2> QED
    BY <1>6, <2>1, SeqEqual
<1> QED
  BY <1>1, <1>2, <1>3, <1>4, <1>7 DEF Pushed

\* A stack is its innermost call on top of the others.
LEMMA ConsHeadTail ==
  ASSUME NEW S, NEW s \in Seq(S), s # <<>>
  PROVE  Head(s) \in S /\ Tail(s) \in Seq(S) /\ s = <<Head(s)>> \o Tail(s)
<1>1. /\ Head(s) \in S /\ Tail(s) \in Seq(S)
      /\ 1 \in DOMAIN s /\ s[1] = Head(s)
      /\ Len(Tail(s)) = Len(s) - 1
      /\ \A i \in DOMAIN s : i # 1 =>
           i - 1 \in DOMAIN Tail(s) /\ Tail(s)[i - 1] = s[i]
  BY StackPop
<1>2. PICK k \in S : k = Head(s)
  BY <1>1
<1>3. PICK t \in Seq(S) : t = Tail(s)
  BY <1>1
<1>4. PICK u \in Seq(S) : Pushed(u, k, t)
  BY ConsFacts
<1>5. Len(s) \in Nat /\ DOMAIN s = 1..Len(s)
  BY LenProperties
<1>6. Len(u) = Len(s)
  <2>1. Len(u) = Len(t) + 1 /\ Len(t) = Len(s) - 1
    BY <1>1, <1>3, <1>4 DEF Pushed
  <2> QED
    BY <1>5, <2>1
<1>7. ASSUME NEW i \in 1..Len(s)
      PROVE  u[i] = s[i]
  <2>1. CASE i = 1
    BY <1>1, <1>2, <1>4, <2>1 DEF Pushed
  <2>2. CASE i # 1
    <3>1. i - 1 \in DOMAIN t /\ t[i - 1] = s[i]
      BY <1>1, <1>3, <1>5, <2>2
    <3>2. u[(i - 1) + 1] = t[i - 1]
      BY <1>4, <3>1 DEF Pushed
    <3>3. (i - 1) + 1 = i
      BY <1>5
    <3> QED
      BY <3>1, <3>2, <3>3
  <2> QED
    BY <2>1, <2>2
<1>8. u = s
  BY <1>6, <1>7, SeqEqual
<1> QED
  BY <1>1, <1>2, <1>3, <1>4, <1>8 DEF Pushed

\* A monotone function on the subsets of D has a fixed point, the least of the sets
\* it does not lead out of.
Monotone(F, D) == \A S \in SUBSET D : \A T \in SUBSET D : S \subseteq T => F[S] \subseteq F[T]

LEMMA FixedPoint ==
  ASSUME NEW D, NEW F \in [SUBSET D -> SUBSET D], Monotone(F, D)
  PROVE  \E L \in SUBSET D : F[L] = L
<1> DEFINE Closed(S) == F[S] \subseteq S
           L == {x \in D : \A S \in SUBSET D : Closed(S) => x \in S}
<1>1. L \in SUBSET D
  OBVIOUS
<1>2. ASSUME NEW S \in SUBSET D, Closed(S)
      PROVE  F[L] \subseteq S
  <2>1. L \subseteq S
    BY <1>2
  <2>2. F[L] \subseteq F[S]
    BY <1>1, <2>1 DEF Monotone
  <2> QED
    BY <1>2, <2>2
<1>3. F[L] \in SUBSET D
  BY <1>1
<1>4. F[L] \subseteq L
  BY <1>2, <1>3
<1>5. F[F[L]] \subseteq F[L]
  BY <1>1, <1>3, <1>4 DEF Monotone
<1>6. L \subseteq F[L]
  BY <1>3, <1>5
<1> HIDE DEF L
<1> QED
  BY <1>1, <1>4, <1>6
=============================================================================
