-------------------------- MODULE EvaluatorProofs --------------------------
(***************************************************************************)
(* The evaluator keeps its environment for every program, every depth of   *)
(* calls and any number of Frames: callers find the Frame they left and    *)
(* the variables in it, the chain of Frames is that of the calls in        *)
(* progress that are not tail calls, every Frame that is needed is live,   *)
(* and every other one is released as long as no input failed.             *)
(*                                                                         *)
(* The argument is about the callers on the C stack, from the innermost    *)
(* out.  Each agrees with the one under it about the Frame that is         *)
(* current, except for a call that is not a tail call, whose Frame has the *)
(* Frame of the caller as its outer one (Linked).  A Frame is owned by the *)
(* call it was made for (Owned).  What a tail call overwrites is the Frame *)
(* of a procedure whose body has nothing left to evaluate: under a record  *)
(* that is or may become a tail call there is the body itself, or a call   *)
(* in its tail position that is at its last operand (Tails, Passive).      *)
(***************************************************************************)
EXTENDS Evaluator, CommonLemmas, FiniteSetTheorems, TLAPS

-----------------------------------------------------------------------------
(* The records of the C stack *)

Kinds == {"eval", "then", "operator", "builtin", "cons", "operands", "args",
          "body", "definition", "define", "set", "toplevel"}

\* The Frame in which a caller goes on, and the caller under the i-th one.
EnvOf(k) == IF k.kind = "body" THEN k.exec
            ELSE IF k.kind = "toplevel" THEN k.env ELSE k.at.env
Bottom == [kind |-> "toplevel", env |-> Global]
Under(s, i) == IF i = Len(s) THEN Bottom ELSE s[i + 1]

\* The Frames made for a call.
OwnCall(k) == k.kind = "body" /\ ~ k.tail
Owned(k) == IF OwnCall(k) THEN {k.exec}
            ELSE IF k.kind = "args"
                 THEN {k.argf} \cup IF k.tail THEN {} ELSE {k.exec}
                 ELSE {}
OwnedBy(s) == UNION {Owned(s[i]) : i \in DOMAIN s}

\* A tail call, or what may become or contain one.
Tails(k) == \/ k.kind = "then" /\ k.sub
            \/ k.kind \in {"operator", "builtin", "cons", "operands", "args"}
               /\ (k.tail \/ k.sub)
            \/ k.kind = "body" /\ k.tail
            \/ k.kind = "eval" /\ (k.tail \/ k.sub)

\* A caller that may find its Frame overwritten.
Passive(k) == k.kind = "body" \/ Spent(k)

-----------------------------------------------------------------------------
(* The inductive invariant *)

\* A caller k and the one under it, b.
Linked(k, b) ==
  /\ IF OwnCall(k) THEN outer[k.exec] = EnvOf(b) ELSE EnvOf(k) = EnvOf(b)
  /\ k.kind = "args" =>
       IF k.tail THEN k.exec = k.at.env
       ELSE outer[k.exec] = k.at.env /\ k.exec # k.argf
  /\ k.kind = "define" => b.kind \in {"body", "toplevel"}
  /\ ~ SharedTests /\ Tails(k) => Passive(b)

\* A record that is about to be evaluated, and the caller under it.
Starts(k, b) ==
  /\ k.kind = "definition" => b.kind \in {"body", "toplevel"}
  /\ ~ SharedTests /\ Tails(k) => Passive(b)

\* The variables that a caller left, and goes on to use.
HasAt(k) == k.kind \in {"then", "operator", "builtin", "cons", "operands",
                        "args", "define", "set"}
Keeps(k) == HasAt(k) /\ ~ Spent(k)
Find(o, t, v) == LET l[f \in FrameId] == IF t[f][v] # Null \/ o[f] = Null
                                         THEN t[f][v] ELSE l[o[f]]
                 IN  l
Intact(k) ==
  Keeps(k) => /\ table[k.at.env] = k.at.locals
              /\ k.kind = "set" => Find(outer, table, k.var)[k.at.env] = k.addr

\* The callers in s: how they agree with each other, and what they own.
Rest(s) ==
  /\ s \in Seq(CallerRecords)
  /\ \A i \in DOMAIN s : /\ Linked(s[i], Under(s, i))
                         /\ Owned(s[i]) \subseteq live \ {Global}
  /\ \A i, j \in DOMAIN s : i # j => Owned(s[i]) \cap Owned(s[j]) = {}

\* Programs and inputs for which the variables of a caller are safe.
Careful == ~ loaded /\ ~ SharedTests
RestIntact(s) ==
  Careful => \A i \in DOMAIN s : /\ Intact(s[i])
                                 /\ s[i].kind = "toplevel" => i = Len(s)

\* The callers in s go on from here ...
On(s) ==
  /\ Rest(s) /\ RestIntact(s)
  /\ env = EnvOf(Under(s, 0))
  /\ ~ failed => live \subseteq {Global} \cup OwnedBy(s)

\* ... which for k on top of the others, t, is to say:
Over(k, t) ==
  /\ Linked(k, Under(t, 0))
  /\ Owned(k) \subseteq live \ {Global}
  /\ Owned(k) \cap OwnedBy(t) = {}
  /\ env = EnvOf(k)
  /\ ~ failed => live \subseteq {Global} \cup OwnedBy(t) \cup Owned(k)
  /\ Careful => Intact(k) /\ (k.kind = "toplevel" => t = <<>>)

\* The chain of outer Frames ends.
Ranked == \E r \in [FrameId -> Nat] :
            \A f \in FrameId : outer[f] # Null => r[outer[f]] < r[f]

Frames ==
  /\ env \in FrameId
  /\ outer \in [FrameId -> FrameId \cup {Null}]
  /\ table \in [FrameId -> Bindings]
  /\ live \subseteq FrameId
  /\ closures \subseteq Bindings
  /\ eval_error \in BOOLEAN /\ failed \in BOOLEAN /\ loaded \in BOOLEAN
  /\ outer[Global] = Null /\ Global \in live
  /\ Ranked
  /\ eval_error => failed

Stack ==
  \E s \in Seq(CallerRecords) :
    /\ On(s)
    /\ \/ ctl = s
       \/ \E e \in Starters : ctl = <<e>> \o s /\ Starts(e, Under(s, 0))

EInv == Frames /\ Stack

-----------------------------------------------------------------------------
(* Records *)

\* What a record's kind tells of its fields.
LEMMA KindSets ==
  /\ \A h \in Starters : h.kind \in {"eval", "definition"}
  /\ \A h \in CallerRecords : h.kind \in Kinds \ {"eval", "definition"}
  /\ \A h \in CallerRecords :
       /\ h.kind = "then" => h \in Thens
       /\ h.kind \in {"operator", "builtin", "cons", "operands"} => h \in ProcCalls
       /\ h.kind = "args" => h \in ArgsCalls
       /\ h.kind = "define" => h \in Defines
       /\ h.kind = "set" => h \in Sets
       /\ h.kind = "body" => h \in Bodies
       /\ h.kind = "toplevel" => h \in Toplevels
  /\ \A h \in CallerRecords : HasAt(h) => h.at \in Ats
<1>1. \A h \in Starters : h.kind \in {"eval", "definition"}
  BY DEF Starters
<1>2. /\ \A h \in Thens : h.kind = "then" /\ h.at \in Ats
      /\ \A h \in ProcCalls : /\ h.kind \in {"operator", "builtin", "cons", "operands"}
                              /\ h.at \in Ats
      /\ \A h \in ArgsCalls : h.kind = "args" /\ h.at \in Ats
      /\ \A h \in Defines : h.kind = "define" /\ h.at \in Ats
      /\ \A h \in Sets : h.kind = "set" /\ h.at \in Ats
      /\ \A h \in Bodies : h.kind = "body"
      /\ \A h \in Toplevels : h.kind = "toplevel"
  BY DEF Thens, ProcCalls, ArgsCalls, Defines, Sets, Bodies, Toplevels
<1> QED
  BY <1>1, <1>2 DEF CallerRecords, AtCallers, Kinds, HasAt

\* A caller goes on in some Frame.
LEMMA EnvOfType ==
  /\ \A k \in CallerRecords : EnvOf(k) \in FrameId
  /\ \A k \in CallerRecords : Owned(k) \subseteq FrameId
<1>1. ASSUME NEW k \in CallerRecords
      PROVE  EnvOf(k) \in FrameId /\ Owned(k) \subseteq FrameId
  <2>1. CASE k.kind = "body"
    <3>1. k \in Bodies
      BY <2>1, KindSets
    <3> QED
      BY <2>1, <3>1 DEF Bodies, EnvOf, Owned, OwnCall
  <2>2. CASE k.kind = "toplevel"
    <3>1. k \in Toplevels
      BY <2>2, KindSets
    <3> QED
      BY <2>2, <3>1 DEF Toplevels, EnvOf, Owned, OwnCall
  <2>3. CASE HasAt(k)
    <3>1. k.at \in Ats
      BY <2>3, KindSets
    <3>2. EnvOf(k) \in FrameId
      BY <2>3, <3>1 DEF HasAt, Ats, EnvOf
    <3>3. CASE k.kind = "args"
      <4>1. k \in ArgsCalls
        BY <3>3, KindSets
      <4> QED
        BY <3>2, <3>3, <4>1 DEF ArgsCalls, Owned, OwnCall
    <3>4. CASE k.kind # "args"
      BY <2>3, <3>2, <3>4 DEF HasAt, Owned, OwnCall
    <3> QED
      BY <3>3, <3>4
  <2> QED
    BY <2>1, <2>2, <2>3, KindSets DEF HasAt, Kinds
<1> QED
  BY <1>1

\* What On says of a stack with k on top it says of k and of the rest.
LEMMA PushPop ==
  \A k \in CallerRecords, t \in Seq(CallerRecords) :
    On(<<k>> \o t) <=> Rest(t) /\ RestIntact(t) /\ Over(k, t)
<1> SUFFICES ASSUME NEW k \in CallerRecords, NEW t \in Seq(CallerRecords)
             PROVE  On(<<k>> \o t) <=> Rest(t) /\ RestIntact(t) /\ Over(k, t)
  OBVIOUS
<1>1. PICK s \in Seq(CallerRecords) : Pushed(s, k, t)
  BY ConsFacts
<1>2. /\ s = <<k>> \o t
      /\ Len(t) \in Nat /\ DOMAIN t = 1..Len(t)
      /\ Len(s) = Len(t) + 1 /\ DOMAIN s = 1..(Len(t) + 1)
      /\ s[1] = k /\ \A i \in 1..Len(t) : s[i + 1] = t[i]
  BY <1>1 DEF Pushed
<1>3. \A i \in DOMAIN s : i = 1 \/ (i - 1 \in DOMAIN t /\ s[i] = t[i - 1])
  <2>1. ASSUME NEW i \in DOMAIN s, i # 1
        PROVE  i - 1 \in DOMAIN t /\ s[i] = t[i - 1]
    <3>1. i - 1 \in 1..Len(t) /\ (i - 1) + 1 = i
      BY <1>2, <2>1
    <3> QED
      BY <1>2, <3>1
  <2> QED
    BY <2>1
<1>4. /\ \A i \in DOMAIN t : i + 1 \in DOMAIN s /\ s[i + 1] = t[i] /\ i \in Nat
      /\ 1 \in DOMAIN s
  BY <1>2
<1>5. Under(s, 1) = Under(t, 0) /\ Under(s, 0) = k
  <2>1. CASE Len(t) = 0
    BY <1>2, <2>1 DEF Under
  <2>2. CASE Len(t) # 0
    <3>1. 1 \in 1..Len(t)
      BY <1>2, <2>2
    <3>2. s[1 + 1] = t[1]
      BY <1>2, <3>1
    <3> QED
      BY <1>2, <2>2, <3>2 DEF Under
  <2> QED
    BY <2>1, <2>2
<1>6. \A i \in DOMAIN t : Under(s, i + 1) = Under(t, i)
  <2>1. ASSUME NEW i \in DOMAIN t
        PROVE  Under(s, i + 1) = Under(t, i)
    <3>1. CASE i = Len(t)
      BY <1>2, <3>1 DEF Under
    <3>2. CASE i # Len(t)
      <4>1. i + 1 \in 1..Len(t) /\ i + 1 # Len(s)
        BY <1>2, <3>2
      <4>2. s[(i + 1) + 1] = t[i + 1]
        BY <1>2, <4>1
      <4> QED
        BY <3>2, <4>1, <4>2 DEF Under
    <3> QED
      BY <3>1, <3>2
  <2> QED
    BY <2>1
<1>7. OwnedBy(s) = OwnedBy(t) \cup Owned(k)
  <2>1. \A x : x \in OwnedBy(s) => x \in OwnedBy(t) \cup Owned(k)
    BY <1>2, <1>3 DEF OwnedBy
  <2>2. \A x : x \in OwnedBy(t) \cup Owned(k) => x \in OwnedBy(s)
    BY <1>2, <1>4 DEF OwnedBy
  <2> QED
    BY <2>1, <2>2
<1>8. On(s) => Rest(t) /\ RestIntact(t) /\ Over(k, t)
  <2> SUFFICES ASSUME On(s)
               PROVE  Rest(t) /\ RestIntact(t) /\ Over(k, t)
    OBVIOUS
  <2>1. \A i \in DOMAIN s : /\ Linked(s[i], Under(s, i))
                            /\ Owned(s[i]) \subseteq live \ {Global}
    BY DEF On, Rest
  <2>2. \A i, j \in DOMAIN s : i # j => Owned(s[i]) \cap Owned(s[j]) = {}
    BY DEF On, Rest
  <2>3. Rest(t)
    <3>1. \A i \in DOMAIN t : /\ Linked(t[i], Under(t, i))
                              /\ Owned(t[i]) \subseteq live \ {Global}
      BY <1>4, <1>6, <2>1
    <3>2. ASSUME NEW i \in DOMAIN t, NEW j \in DOMAIN t, i # j
          PROVE  Owned(t[i]) \cap Owned(t[j]) = {}
      <4>1. i + 1 \in DOMAIN s /\ j + 1 \in DOMAIN s /\ i + 1 # j + 1
        BY <1>4, <3>2
      <4>2. Owned(s[i + 1]) \cap Owned(s[j + 1]) = {}
        BY <2>2, <4>1
      <4> QED
        BY <1>4, <4>2
    <3> QED
      BY <3>1, <3>2 DEF Rest
  <2>4. RestIntact(t)
    <3> SUFFICES ASSUME Careful, NEW i \in DOMAIN t
                 PROVE  Intact(t[i]) /\ (t[i].kind = "toplevel" => i = Len(t))
      BY DEF RestIntact
    <3>1. Intact(s[i + 1]) /\ (s[i + 1].kind = "toplevel" => i + 1 = Len(s))
      BY <1>4 DEF On, RestIntact
    <3> QED
      BY <1>2, <1>4, <3>1
  <2>5. Owned(k) \cap OwnedBy(t) = {}
    <3>1. ASSUME NEW i \in DOMAIN t
          PROVE  Owned(k) \cap Owned(t[i]) = {}
      <4>1. i + 1 \in DOMAIN s /\ i + 1 # 1 /\ 1 \in DOMAIN s
        BY <1>2, <1>4
      <4>2. Owned(s[1]) \cap Owned(s[i + 1]) = {}
        BY <2>2, <4>1
      <4> QED
        BY <1>2, <1>4, <4>2
    <3> QED
      BY <3>1 DEF OwnedBy
  <2>6. Careful => Intact(k) /\ (k.kind = "toplevel" => t = <<>>)
    <3> SUFFICES ASSUME Careful
                 PROVE  Intact(k) /\ (k.kind = "toplevel" => t = <<>>)
      OBVIOUS
    <3>1. Intact(k) /\ (k.kind = "toplevel" => 1 = Len(s))
      BY <1>2, <1>4 DEF On, RestIntact
    <3>2. k.kind = "toplevel" => Len(t) = 0
      BY <1>2, <3>1
    <3> QED
      BY <3>1, <3>2, EmptySeq
  <2> QED
    BY <1>2, <1>4, <1>5, <1>7, <2>1, <2>3, <2>4, <2>5, <2>6 DEF On, Over
<1>9. Rest(t) /\ RestIntact(t) /\ Over(k, t) => On(s)
  <2> SUFFICES ASSUME Rest(t), RestIntact(t), Over(k, t)
               PROVE  On(s)
    OBVIOUS
  <2>1. ASSUME NEW i \in DOMAIN s
        PROVE  /\ Linked(s[i], Under(s, i))
               /\ Owned(s[i]) \subseteq live \ {Global}
    <3>1. CASE i = 1
      BY <1>2, <1>5, <3>1 DEF Over
    <3>2. CASE i # 1
      <4>1. i - 1 \in DOMAIN t /\ s[i] = t[i - 1] /\ (i - 1) + 1 = i
        BY <1>2, <1>3, <3>2
      <4>2. Under(s, i) = Under(t, i - 1)
        BY <1>6, <4>1
      <4> QED
        BY <4>1, <4>2 DEF Rest
    <3> QED
      BY <3>1, <3>2
  <2>2. \A i \in DOMAIN t : Owned(k) \cap Owned(t[i]) = {}
    BY DEF Over, OwnedBy
  <2>3. ASSUME NEW i \in DOMAIN s, NEW j \in DOMAIN s, i # j
        PROVE  Owned(s[i]) \cap Owned(s[j]) = {}
    <3>1. CASE i = 1
      BY <1>2, <1>3, <2>2, <2>3, <3>1
    <3>2. CASE j = 1
      BY <1>2, <1>3, <2>2, <2>3, <3>2
    <3>3. CASE i # 1 /\ j # 1
      <4>1. /\ i - 1 \in DOMAIN t /\ s[i] = t[i - 1]
            /\ j - 1 \in DOMAIN t /\ s[j] = t[j - 1]
            /\ i - 1 # j - 1
        BY <1>2, <1>3, <2>3, <3>3
      <4> QED
        BY <4>1 DEF Rest
    <3> QED
      BY <3>1, <3>2, <3>3
  <2>4. Rest(s)
    BY <2>1, <2>3 DEF Rest
  <2>5. RestIntact(s)
    <3> SUFFICES ASSUME Careful, NEW i \in DOMAIN s
                 PROVE  Intact(s[i]) /\ (s[i].kind = "toplevel" => i = Len(s))
      BY DEF RestIntact
    <3>1. CASE i = 1
      <4>1. k.kind = "toplevel" => Len(t) = 0
        BY DEF Over
      <4> QED
        BY <1>2, <3>1, <4>1 DEF Over
    <3>2. CASE i # 1
      <4>1. i - 1 \in DOMAIN t /\ s[i] = t[i - 1]
        BY <1>3, <3>2
      <4>2. Intact(t[i - 1]) /\ (t[i - 1].kind = "toplevel" => i - 1 = Len(t))
        BY <4>1 DEF RestIntact
      <4> QED
        BY <1>2, <4>1, <4>2
    <3> QED
      BY <3>1, <3>2
  <2> QED
    BY <1>5, <1>7, <2>4, <2>5 DEF On, Over
<1> QED
  BY <1>2, <1>8, <1>9

\* The same of the next state.
LEMMA PushPopNext ==
  (\A k \in CallerRecords, t \in Seq(CallerRecords) :
     On(<<k>> \o t) <=> Rest(t) /\ RestIntact(t) /\ Over(k, t))'
  BY PushPop, PTL

-----------------------------------------------------------------------------
(* Looking a variable up: Find is the recursion of frame_get_obj *)

Outers == [FrameId -> FrameId \cup {Null}]
Tables == [FrameId -> Bindings]

\* The lookup stops at a Frame that binds the variable and at the last one.
Stops(o, t, v, f) == t[f][v] # Null \/ o[f] = Null

\* The Frames that the lookup of v from f passes: f, and so on.
Passes(o, t, v, C) == \A h \in C : ~ Stops(o, t, v, h) => o[h] \in C
Passed(o, t, v, f) ==
  {g \in FrameId : \A C \in SUBSET FrameId : f \in C /\ Passes(o, t, v, C) => g \in C}

LEMMA PassedStep ==
  ASSUME NEW o \in Outers, NEW t \in Tables, NEW v \in Var, NEW f \in FrameId
  PROVE  Passed(o, t, v, f) =
           IF Stops(o, t, v, f) THEN {f} ELSE {f} \cup Passed(o, t, v, o[f])
<1> DEFINE P(g) == Passed(o, t, v, g)
<1>1. ASSUME NEW g \in FrameId
      PROVE  g \in P(g) /\ P(g) \subseteq FrameId
  BY DEF Passed
<1>2. ASSUME NEW h \in FrameId, ~ Stops(o, t, v, h)
      PROVE  o[h] \in FrameId
  BY <1>2 DEF Stops, Outers
<1>3. ASSUME NEW g \in FrameId
      PROVE  Passes(o, t, v, P(g))
  <2> SUFFICES ASSUME NEW h \in P(g), ~ Stops(o, t, v, h)
               PROVE  o[h] \in P(g)
    BY DEF Passes
  <2>1. h \in FrameId /\ o[h] \in FrameId
    BY <1>1, <1>2
  <2>2. ASSUME NEW C \in SUBSET FrameId, g \in C, Passes(o, t, v, C)
        PROVE  o[h] \in C
    <3>1. h \in C
      BY <2>2 DEF Passed
    <3> QED
      BY <2>2, <3>1 DEF Passes
  <2> QED
    BY <2>1, <2>2 DEF Passed
<1>4. ASSUME NEW g \in FrameId, NEW C \in SUBSET FrameId, g \in C,
             Passes(o, t, v, C)
      PROVE  P(g) \subseteq C
  BY <1>4 DEF Passed
<1>5. CASE Stops(o, t, v, f)
  <2>1. Passes(o, t, v, {f})
    BY <1>5 DEF Passes
  <2>2. P(f) \subseteq {f}
    BY <1>4, <2>1
  <2> QED
    BY <1>1, <1>5, <2>2
<1>6. CASE ~ Stops(o, t, v, f)
  <2>1. o[f] \in FrameId
    BY <1>2, <1>6
  <2>2. o[f] \in P(f)
    BY <1>1, <1>3, <1>6 DEF Passes
  <2>3. P(o[f]) \subseteq P(f)
    BY <1>1, <1>3, <1>4, <2>1, <2>2
  <2>4. Passes(o, t, v, {f} \cup P(o[f]))
    <3>1. o[f] \in P(o[f]) /\ Passes(o, t, v, P(o[f]))
      BY <1>1, <1>3, <2>1
    <3> QED
      BY <3>1 DEF Passes
  <2>5. P(f) \subseteq {f} \cup P(o[f])
    <3>1. {f} \cup P(o[f]) \in SUBSET FrameId
      BY <1>1, <2>1
    <3> QED
      BY <1>4, <2>4, <3>1
  <2> QED
    BY <1>1, <1>6, <2>3, <2>5
<1> QED
  BY <1>5, <1>6

\* The recursion has a solution, and so Find is one.
LEMMA FindStep ==
  ASSUME NEW o \in Outers, NEW t \in Tables, NEW v \in Var
  PROVE  \A f \in FrameId :
           Find(o, t, v)[f] = IF Stops(o, t, v, f) THEN t[f][v]
                              ELSE Find(o, t, v)[o[f]]
<1> DEFINE P(f) == Passed(o, t, v, f)
           W(f) == {g \in P(f) : Stops(o, t, v, g)}
           w == [f \in FrameId |-> t[CHOOSE g : g \in W(f)][v]]
           F(l) == [f \in FrameId |-> IF t[f][v] # Null \/ o[f] = Null
                                      THEN t[f][v] ELSE l[o[f]]]
<1>1. ASSUME NEW f \in FrameId
      PROVE  w[f] = IF t[f][v] # Null \/ o[f] = Null THEN t[f][v] ELSE w[o[f]]
  <2>1. CASE Stops(o, t, v, f)
    <3>1. P(f) = {f}
      BY <2>1, PassedStep
    <3>2. W(f) = {f}
      BY <2>1, <3>1
    <3>3. (CHOOSE g : g \in W(f)) = f
      BY <3>2
    <3> QED
      BY <2>1, <3>3 DEF Stops
  <2>2. CASE ~ Stops(o, t, v, f)
    <3>1. o[f] \in FrameId
      BY <2>2 DEF Stops, Outers
    <3>2. P(f) = {f} \cup P(o[f])
      BY <2>2, PassedStep
    <3>3. W(f) = W(o[f])
      BY <2>2, <3>2
    <3>4. w[f] = w[o[f]]
      BY <3>1, <3>3
    <3> QED
      BY <2>2, <3>4 DEF Stops
  <2> QED
    BY <2>1, <2>2
<1>2. w = F(w)
  BY <1>1
<1>3. Find(o, t, v) = CHOOSE l : l = F(l)
  BY DEF Find
<1> HIDE DEF w, F
<1>4. (CHOOSE l : l = F(l)) = F(CHOOSE l : l = F(l))
  BY <1>2
<1>5. Find(o, t, v) = F(Find(o, t, v))
  BY <1>3, <1>4
<1> QED
  BY <1>5 DEF F, Stops

\* What is found is a variable's address, as the chain of Frames ends.
LEMMA FindType ==
  ASSUME NEW o \in Outers, NEW t \in Tables, NEW v \in Var,
         NEW r \in [FrameId -> Nat],
         \A f \in FrameId : o[f] # Null => r[o[f]] < r[f]
  PROVE  \A f \in FrameId : Find(o, t, v)[f] \in Cell \cup {Null}
<1> DEFINE Bad == {f \in FrameId : Find(o, t, v)[f] \notin Cell \cup {Null}}
           R == {r[f] : f \in Bad}
<1> SUFFICES ASSUME Bad # {}
             PROVE  FALSE
  OBVIOUS
<1>1. R \in SUBSET Nat /\ R # {}
  OBVIOUS
<1>2. PICK n \in R : \A m \in R : n <= m
  BY <1>1, LeastNatural
<1>3. PICK f \in Bad : r[f] = n
  BY <1>2
<1>4. CASE Stops(o, t, v, f)
  <2>1. Find(o, t, v)[f] = t[f][v]
    BY <1>4, FindStep
  <2> QED
    BY <2>1 DEF Tables, Bindings
<1>5. CASE ~ Stops(o, t, v, f)
  <2>1. o[f] \in FrameId /\ r[o[f]] < r[f]
    BY <1>5 DEF Stops, Outers
  <2>2. o[f] \in Bad
    BY <1>5, <2>1, FindStep
  <2>3. r[f] <= r[o[f]]
    BY <1>2, <1>3, <2>2
  <2> QED
    BY <2>1, <2>3
<1> QED
  BY <1>4, <1>5

\* Frames that are not on the way do not matter.
LEMMA FindSame ==
  ASSUME NEW o \in Outers, NEW t \in Tables, NEW p \in Outers, NEW u \in Tables,
         NEW v \in Var, NEW r \in [FrameId -> Nat],
         \A f \in FrameId : o[f] # Null => r[o[f]] < r[f],
         NEW C \in SUBSET FrameId,
         \A f \in C : /\ p[f] = o[f] /\ u[f] = t[f]
                      /\ o[f] # Null => o[f] \in C
  PROVE  \A f \in C : Find(p, u, v)[f] = Find(o, t, v)[f]
<1> DEFINE Bad == {f \in C : Find(p, u, v)[f] # Find(o, t, v)[f]}
           R == {r[f] : f \in Bad}
<1> SUFFICES ASSUME Bad # {}
             PROVE  FALSE
  OBVIOUS
<1>1. R \in SUBSET Nat /\ R # {}
  OBVIOUS
<1>2. PICK n \in R : \A m \in R : n <= m
  BY <1>1, LeastNatural
<1>3. PICK f \in Bad : r[f] = n
  BY <1>2
<1>4. f \in FrameId /\ p[f] = o[f] /\ u[f] = t[f]
  OBVIOUS
<1>5. Stops(p, u, v, f) <=> Stops(o, t, v, f)
  BY <1>4 DEF Stops
<1>6. CASE Stops(o, t, v, f)
  <2>1. Find(o, t, v)[f] = t[f][v] /\ Find(p, u, v)[f] = u[f][v]
    BY <1>4, <1>5, <1>6, FindStep
  <2> QED
    BY <1>4, <2>1
<1>7. CASE ~ Stops(o, t, v, f)
  <2>1. o[f] \in C /\ r[o[f]] < r[f]
    BY <1>4, <1>7 DEF Stops
  <2>2. /\ Find(o, t, v)[f] = Find(o, t, v)[o[f]]
        /\ Find(p, u, v)[f] = Find(p, u, v)[o[f]]
    BY <1>4, <1>5, <1>7, FindStep
  <2>3. o[f] \in Bad
    BY <2>1, <2>2
  <2>4. r[f] <= r[o[f]]
    BY <1>2, <1>3, <2>3
  <2>5. r[f] \in Nat /\ r[o[f]] \in Nat
    BY <1>4, <2>1
  <2> QED
    BY <2>1, <2>4, <2>5
<1> QED
  BY <1>6, <1>7

-----------------------------------------------------------------------------
(* The chain of Frames and the callers *)

\* The Frames that the i-th caller in s reaches.
ChainFrom(s, i) ==
  {Global} \cup {s[j].exec : j \in {n \in DOMAIN s : n >= i /\ OwnCall(s[n])}}

LEMMA Reach ==
  ASSUME NEW s, Rest(s), outer[Global] = Null
  PROVE  /\ \A i \in 0..Len(s) : EnvOf(Under(s, i)) \in ChainFrom(s, i + 1)
         /\ \A i \in DOMAIN s : EnvOf(s[i]) \in ChainFrom(s, i)
         /\ \A i \in Nat : \A f \in ChainFrom(s, i) :
              outer[f] # Null => outer[f] \in ChainFrom(s, i)
         /\ \A i \in Nat : ChainFrom(s, i) \subseteq {Global} \cup OwnedBy(s)
         /\ OwnedBy(s) \subseteq (live \cap FrameId) \ {Global}
<1>1. s \in Seq(CallerRecords) /\ Len(s) \in Nat /\ DOMAIN s = 1..Len(s)
  BY LenProperties DEF Rest
<1>2. \A i \in 0..Len(s) : EnvOf(Under(s, i)) \in ChainFrom(s, i + 1)
  <2> DEFINE Bad == {i \in 0..Len(s) :
                       EnvOf(Under(s, i)) \notin ChainFrom(s, i + 1)}
  <2> SUFFICES ASSUME Bad # {}
               PROVE  FALSE
    OBVIOUS
  <2>1. PICK i \in Bad : \A m \in Bad : m <= i
    BY <1>1, GreatestNatural
  <2>2. CASE i = Len(s)
    BY <2>2 DEF Under, Bottom, EnvOf, ChainFrom
  <2>3. CASE i # Len(s)
    <3>1. i + 1 \in DOMAIN s /\ Under(s, i) = s[i + 1] /\ i + 1 \in 0..Len(s)
      <4>1. i \in 0..Len(s)
        OBVIOUS
      <4>2. i + 1 \in 1..Len(s)
        <5>1. Len(s) \in Nat
          BY <1>1
        <5>2. i \in Nat /\ i <= Len(s)
          BY <4>1, <5>1
        <5>3. i # Len(s)
          BY <2>3
        <5> QED
          BY <5>1, <5>2, <5>3
      <4>3. Under(s, i) = s[i + 1]
        BY <2>3 DEF Under
      <4> QED
        BY <1>1, <4>2, <4>3
    <3>2. CASE OwnCall(s[i + 1])
      <4>1. EnvOf(s[i + 1]) = s[i + 1].exec
        BY <3>2 DEF OwnCall, EnvOf
      <4>2. s[i + 1].exec \in ChainFrom(s, i + 1)
        BY <1>1, <3>1, <3>2 DEF ChainFrom
      <4> QED
        BY <3>1, <4>1, <4>2
    <3>3. CASE ~ OwnCall(s[i + 1])
      <4>1. EnvOf(s[i + 1]) = EnvOf(Under(s, i + 1))
        BY <3>1, <3>3 DEF Rest, Linked
      <4>2. ~ (i + 1 <= i) /\ i \in Nat
        BY <1>1
      <4>3. i + 1 \notin Bad
        BY <2>1, <4>2
      <4>4. EnvOf(Under(s, i + 1)) \in ChainFrom(s, (i + 1) + 1)
        BY <3>1, <4>3
      <4>5. ChainFrom(s, (i + 1) + 1) \subseteq ChainFrom(s, i + 1)
        BY <1>1, <4>2 DEF ChainFrom
      <4> QED
        BY <3>1, <4>1, <4>4, <4>5
    <3> QED
      BY <3>2, <3>3
  <2> QED
    BY <2>2, <2>3
<1>3. ASSUME NEW i \in DOMAIN s
      PROVE  EnvOf(s[i]) \in ChainFrom(s, i)
  <2>1. i - 1 \in 0..Len(s) /\ (i - 1) + 1 = i /\ Under(s, i - 1) = s[i]
    BY <1>1 DEF Under
  <2> QED
    BY <1>2, <2>1
<1>4. ASSUME NEW i \in Nat, NEW f \in ChainFrom(s, i), outer[f] # Null
      PROVE  outer[f] \in ChainFrom(s, i)
  <2>1. PICK j \in DOMAIN s : j >= i /\ OwnCall(s[j]) /\ f = s[j].exec
    BY <1>4 DEF ChainFrom
  <2>2. outer[f] = EnvOf(Under(s, j))
    BY <2>1 DEF Rest, Linked
  <2>3. EnvOf(Under(s, j)) \in ChainFrom(s, j + 1)
    BY <1>1, <1>2
  <2>4. ChainFrom(s, j + 1) \subseteq ChainFrom(s, i)
    BY <1>1, <2>1 DEF ChainFrom
  <2> QED
    BY <2>2, <2>3, <2>4
<1>5. \A i \in Nat : ChainFrom(s, i) \subseteq {Global} \cup OwnedBy(s)
  BY DEF ChainFrom, OwnedBy, Owned
<1>6. ASSUME NEW i \in DOMAIN s
      PROVE  Owned(s[i]) \subseteq (live \cap FrameId) \ {Global}
  <2>1. s[i] \in CallerRecords
    BY <1>1, ElementOfSeq
  <2> QED
    BY <2>1, EnvOfType DEF Rest
<1> QED
  BY <1>2, <1>3, <1>4, <1>5, <1>6 DEF OwnedBy

\* A call in tail position takes over the Frame of a procedure whose body has
\* nothing left to evaluate: no caller that uses its variables reaches it.
LEMMA TailRegion ==
  ASSUME NEW s, Rest(s), outer[Global] = Null, ~ SharedTests,
         s # <<>>, Passive(s[1])
  PROVE  \A i \in DOMAIN s : Keeps(s[i]) => EnvOf(s[1]) \notin ChainFrom(s, i)
<1> DEFINE Through(i) == Passive(s[i]) /\ ~ OwnCall(s[i])
           Others == {i \in DOMAIN s : ~ Through(i)}
<1>1. /\ s \in Seq(CallerRecords) /\ Len(s) \in Nat /\ DOMAIN s = 1..Len(s)
      /\ 1 \in DOMAIN s
  BY LenProperties, EmptySeq DEF Rest
<1>2. \A i \in DOMAIN s : Through(i) =>
        /\ i + 1 \in DOMAIN s /\ Passive(s[i + 1])
        /\ EnvOf(s[i]) = EnvOf(s[i + 1])
  <2> SUFFICES ASSUME NEW i \in DOMAIN s, Through(i)
               PROVE  /\ i + 1 \in DOMAIN s /\ Passive(s[i + 1])
                      /\ EnvOf(s[i]) = EnvOf(s[i + 1])
    OBVIOUS
  <2>1. Passive(Under(s, i)) /\ EnvOf(s[i]) = EnvOf(Under(s, i))
    <3>1. Tails(s[i])
      BY DEF Passive, Spent, OwnCall, Tails
    <3>2. Linked(s[i], Under(s, i))
      BY DEF Rest
    <3> QED
      BY <3>1, <3>2 DEF Linked
  <2>2. i # Len(s)
    BY <2>1 DEF Under, Bottom, Passive, Spent
  <2> QED
    BY <1>1, <2>1, <2>2 DEF Under
<1>3. Others \in SUBSET Nat /\ Others # {}
  <2>1. Len(s) \in DOMAIN s
    BY <1>1
  <2>2. ~ Through(Len(s))
    BY <1>1, <1>2, <2>1
  <2> QED
    BY <1>1, <2>1, <2>2
<1>4. PICK m \in Others : \A n \in Others : m <= n
  BY <1>3, LeastNatural
<1>5. ASSUME NEW i \in 1..(m - 1)
      PROVE  Through(i)
  BY <1>1, <1>4
<1>6. Passive(s[m])
  <2>1. CASE m = 1
    BY <2>1
  <2>2. CASE m # 1
    <3>1. m - 1 \in 1..(m - 1) /\ m - 1 \in DOMAIN s /\ (m - 1) + 1 = m
      BY <1>1, <2>2
    <3> QED
      BY <1>2, <1>5, <3>1
  <2> QED
    BY <2>1, <2>2
<1>7. OwnCall(s[m])
  BY <1>4, <1>6
<1>8. EnvOf(s[1]) = s[m].exec
  <2> DEFINE Same == {i \in 1..m : EnvOf(s[i]) = s[m].exec}
  <2>1. Same \in SUBSET Nat /\ Same # {}
    <3>1. m \in Same
      BY <1>1, <1>7 DEF EnvOf, OwnCall
    <3> QED
      BY <3>1
  <2>2. PICK i \in Same : \A n \in Same : i <= n
    BY <2>1, LeastNatural
  <2>3. CASE i = 1
    BY <2>3
  <2>4. CASE i # 1
    <3>1. /\ i - 1 \in 1..(m - 1) /\ i - 1 \in DOMAIN s /\ (i - 1) + 1 = i
          /\ ~ (i <= i - 1) /\ i - 1 \in 1..m
      BY <1>1, <2>4
    <3>2. EnvOf(s[i - 1]) = EnvOf(s[i])
      BY <1>2, <1>5, <3>1
    <3> QED
      BY <2>2, <3>1, <3>2
  <2> QED
    BY <2>3, <2>4
<1>9. ASSUME NEW i \in DOMAIN s, Keeps(s[i])
      PROVE  s[m].exec \notin ChainFrom(s, i)
  <2>1. i > m
    <3>1. i # m
      BY <1>7, <1>9 DEF Keeps, HasAt, OwnCall
    <3>2. i \notin 1..(m - 1)
      BY <1>5, <1>9 DEF Keeps, HasAt, Passive
    <3> QED
      BY <1>1, <3>1, <3>2
  <2>2. s[m].exec \in Owned(s[m])
    BY <1>7 DEF Owned
  <2>3. s[m].exec # Global
    BY <1>1, <2>2 DEF Rest
  <2>4. ASSUME NEW j \in DOMAIN s, j >= i, OwnCall(s[j])
        PROVE  s[j].exec # s[m].exec
    <3>1. j # m
      BY <1>1, <2>1, <2>4
    <3>2. Owned(s[j]) \cap Owned(s[m]) = {} /\ s[j].exec \in Owned(s[j])
      BY <1>1, <2>4, <3>1 DEF Rest, Owned
    <3> QED
      BY <2>2, <3>2
  <2> QED
    BY <2>3, <2>4 DEF ChainFrom
<1> QED
  BY <1>8, <1>9

\* What a step does to other Frames leaves the callers as they were.
LEMMA RestKept ==
  ASSUME NEW s, Rest(s),
         \A f \in OwnedBy(s) : outer'[f] = outer[f] /\ f \in live'
  PROVE  Rest(s)'
<1>1. ASSUME NEW i \in DOMAIN s
      PROVE  /\ Linked(s[i], Under(s, i))'
             /\ Owned(s[i]) \subseteq live' \ {Global}
  <2>1. Linked(s[i], Under(s, i)) /\ Owned(s[i]) \subseteq live \ {Global}
    BY DEF Rest
  <2>2. \A f \in Owned(s[i]) : outer'[f] = outer[f] /\ f \in live'
    BY DEF OwnedBy
  <2>3. OwnCall(s[i]) => outer'[s[i].exec] = outer[s[i].exec]
    BY <2>2 DEF Owned
  <2>4. s[i].kind = "args" /\ ~ s[i].tail =>
          outer'[s[i].exec] = outer[s[i].exec]
    BY <2>2 DEF Owned, OwnCall
  <2> QED
    BY <2>1, <2>2, <2>3, <2>4 DEF Linked
<1> QED
  BY <1>1 DEF Rest

LEMMA RestIntactKept ==
  ASSUME NEW s, Rest(s), RestIntact(s), Frames, Careful' => Careful,
         outer' \in Outers, table' \in Tables,
         Careful => \A i \in DOMAIN s : Keeps(s[i]) =>
           \A f \in ChainFrom(s, i) : outer'[f] = outer[f] /\ table'[f] = table[f]
  PROVE  RestIntact(s)'
<1> SUFFICES ASSUME Careful, NEW i \in DOMAIN s
             PROVE  Intact(s[i])' /\ (s[i].kind = "toplevel" => i = Len(s))
  BY DEF RestIntact
<1>1. Intact(s[i]) /\ (s[i].kind = "toplevel" => i = Len(s))
  BY DEF RestIntact
<1> SUFFICES ASSUME Keeps(s[i])
             PROVE  Intact(s[i])'
  BY <1>1 DEF Intact
<1> DEFINE k == s[i]
           C == ChainFrom(s, i)
<1>2. s \in Seq(CallerRecords) /\ k \in CallerRecords /\ i \in Nat
  BY LenProperties, ElementOfSeq DEF Rest
<1>3. outer \in Outers /\ table \in Tables /\ outer[Global] = Null
  BY DEF Frames, Outers, Tables
<1>4. PICK r \in [FrameId -> Nat] :
        \A f \in FrameId : outer[f] # Null => r[outer[f]] < r[f]
  BY DEF Frames, Ranked
<1>5. /\ EnvOf(k) \in C /\ C \in SUBSET FrameId
      /\ \A f \in C : outer[f] # Null => outer[f] \in C
  BY <1>2, <1>3, Reach, NameAssumption
<1>6. k.at.env \in C
  BY <1>5 DEF Keeps, HasAt, EnvOf
<1>7. table'[k.at.env] = k.at.locals
  BY <1>1, <1>6 DEF Intact
<1>8. ASSUME k.kind = "set"
      PROVE  Find(outer', table', k.var)[k.at.env] = k.addr
  <2>1. k.var \in Var
    BY <1>2, <1>8, KindSets DEF Sets
  <2>2. \A f \in C : /\ outer'[f] = outer[f] /\ table'[f] = table[f]
                     /\ outer[f] # Null => outer[f] \in C
    BY <1>5
  <2>3. \A f \in C : Find(outer', table', k.var)[f] = Find(outer, table, k.var)[f]
    BY <1>3, <1>4, <1>5, <2>1, <2>2, FindSame
  <2> QED
    BY <1>1, <1>6, <1>8, <2>3 DEF Intact
<1> QED
  BY <1>7, <1>8 DEF Intact

-----------------------------------------------------------------------------
(* What is on top of the stack, and what a step leaves there *)

LEMMA Split ==
  ASSUME EInv, ctl # <<>>
  PROVE  \E t \in Seq(CallerRecords) :
           /\ t = Tail(ctl) /\ <<>> \o t = t
           /\ Rest(t) /\ RestIntact(t)
           /\ \/ /\ Head(ctl) \in Starters
                 /\ On(t) /\ Starts(Head(ctl), Under(t, 0))
              \/ /\ Head(ctl) \in CallerRecords
                 /\ Over(Head(ctl), t)
<1>1. PICK s \in Seq(CallerRecords) :
        /\ On(s)
        /\ \/ ctl = s
           \/ \E e \in Starters : ctl = <<e>> \o s /\ Starts(e, Under(s, 0))
  BY DEF EInv, Stack
<1>2. CASE ctl = s
  <2>1. /\ Head(s) \in CallerRecords /\ Tail(s) \in Seq(CallerRecords)
        /\ s = <<Head(s)>> \o Tail(s)
    BY <1>2, ConsHeadTail
  <2>2. PICK h, t : h = Head(s) /\ t = Tail(s)
    OBVIOUS
  <2>3. Rest(t) /\ RestIntact(t) /\ Over(h, t)
    BY <1>1, <2>1, <2>2, PushPop
  <2>4. t \in Seq(CallerRecords) /\ <<>> \o t = t
    BY <2>1, <2>2, ConcatEmptySeq
  <2> QED
    BY <1>2, <2>1, <2>2, <2>3, <2>4
<1>3. ASSUME NEW e \in Starters, ctl = <<e>> \o s, Starts(e, Under(s, 0))
      PROVE  /\ Head(ctl) = e /\ Tail(ctl) = s /\ <<>> \o s = s
             /\ Rest(s) /\ RestIntact(s)
  <2>1. PICK S : S = Starters \cup CallerRecords
    OBVIOUS
  <2>2. e \in S /\ s \in Seq(S)
    <3>1. Len(s) \in Nat /\ DOMAIN s = 1..Len(s) /\ s \in [1..Len(s) -> CallerRecords]
      BY LenProperties
    <3>2. s \in [1..Len(s) -> S]
      BY <2>1, <3>1
    <3> QED
      BY <2>1, <3>1, <3>2
  <2>3. PICK u \in Seq(S) : Pushed(u, e, s)
    BY <2>2, ConsFacts
  <2>4. <<>> \o s = s
    BY ConcatEmptySeq
  <2> QED
    BY <1>1, <1>3, <2>3, <2>4 DEF Pushed, On
<1> QED
  BY <1>1, <1>2, <1>3

\* What a step puts on the stack on top of the callers t.
LEMMA Resumed ==
  ASSUME Frames', NEW t \in Seq(CallerRecords)
  PROVE  /\ On(t)' =>
              /\ ctl' = t => EInv'
              /\ \A e \in Starters :
                   Starts(e, Under(t, 0)) /\ ctl' = <<e>> \o t => EInv'
         /\ Rest(t)' /\ RestIntact(t)' =>
              \A k \in CallerRecords : Over(k, t)' =>
                /\ ctl' = <<k>> \o t => EInv'
                /\ \A e \in Starters :
                     Starts(e, k) /\ ctl' = <<e, k>> \o t => EInv'
<1>1. ASSUME NEW s \in Seq(CallerRecords), On(s)'
      PROVE  /\ ctl' = s => EInv'
             /\ \A e \in Starters :
                  Starts(e, Under(s, 0)) /\ ctl' = <<e>> \o s => EInv'
  <2>1. CASE ctl' = s
    BY <1>1, <2>1 DEF EInv, Stack
  <2>2. ASSUME NEW e \in Starters, Starts(e, Under(s, 0)), ctl' = <<e>> \o s
        PROVE  EInv'
    BY <1>1, <2>2 DEF EInv, Stack
  <2> QED
    BY <2>1, <2>2
<1>2. ASSUME Rest(t)', RestIntact(t)', NEW k \in CallerRecords, Over(k, t)'
      PROVE  /\ ctl' = <<k>> \o t => EInv'
             /\ \A e \in Starters :
                  Starts(e, k) /\ ctl' = <<e, k>> \o t => EInv'
  <2>1. PICK s \in Seq(CallerRecords) : Pushed(s, k, t)
    BY ConsFacts
  <2>2. On(<<k>> \o t)'
    BY <1>2, PushPopNext
  <2>3. s = <<k>> \o t /\ Under(s, 0) = k
    <3>1. 0 # Len(t) + 1
      BY <2>1 DEF Pushed
    <3> QED
      BY <2>1, <3>1 DEF Pushed, Under
  <2>4. On(s)'
    BY <2>2, <2>3
  <2>5. ASSUME NEW e \in Starters, Starts(e, k), ctl' = <<e, k>> \o t
        PROVE  EInv'
    <3>1. PICK S : S = Starters \cup CallerRecords
      OBVIOUS
    <3>2. e \in S /\ k \in S /\ t \in Seq(S)
      <4>1. Len(t) \in Nat /\ DOMAIN t = 1..Len(t) /\ t \in [1..Len(t) -> CallerRecords]
        BY LenProperties
      <4>2. t \in [1..Len(t) -> S]
        BY <3>1, <4>1
      <4> QED
        BY <3>1, <4>1, <4>2
    <3>3. <<e, k>> \o t = <<e>> \o (<<k>> \o t)
      <4>1. \A x \in S, y \in S, z \in Seq(S) :
              <<x, y>> \o z = <<x>> \o (<<y>> \o z)
        BY TwoCons
      <4> QED
        BY <3>2, <4>1
    <3>4. ctl' = <<e>> \o s /\ Starts(e, Under(s, 0))
      BY <2>3, <2>5, <3>3
    <3> QED
      BY <1>1, <2>4, <3>4
  <2> QED
    BY <1>1, <2>3, <2>4, <2>5
<1> QED
  BY <1>1, <1>2

\* Most steps do not touch the Frames.
LEMMA Quiet ==
  ASSUME EInv, UNCHANGED frameVars, closures' \subseteq Bindings,
         eval_error' \in BOOLEAN, failed' \in BOOLEAN, loaded' \in BOOLEAN,
         failed => failed', eval_error' => failed', loaded => loaded',
         NEW t \in Seq(CallerRecords), Rest(t), RestIntact(t)
  PROVE  /\ On(t) =>
              /\ ctl' = t => EInv'
              /\ \A e \in Starters :
                   Starts(e, Under(t, 0)) /\ ctl' = <<e>> \o t => EInv'
         /\ \A k \in CallerRecords : Over(k, t) =>
              /\ ctl' = <<k>> \o t => EInv'
              /\ \A e \in Starters :
                   Starts(e, k) /\ ctl' = <<e, k>> \o t => EInv'
<1>1. Frames'
  BY DEF EInv, Frames, frameVars, Ranked
<1>2. Careful' => Careful
  BY DEF Careful
<1>3. \A k : Intact(k) => Intact(k)'
  BY DEF Intact, frameVars
<1>4. \A k, b : Linked(k, b) => Linked(k, b)'
  BY DEF Linked, frameVars
<1>5. Rest(t)'
  BY <1>4 DEF Rest, frameVars
<1>6. RestIntact(t)'
  BY <1>2, <1>3 DEF RestIntact
<1>7. On(t) => On(t)'
  BY <1>5, <1>6 DEF On, frameVars
<1>8. \A k \in CallerRecords : Over(k, t) => Over(k, t)'
  BY <1>2, <1>3, <1>4 DEF Over, frameVars
<1> QED
  BY <1>1, <1>5, <1>6, <1>7, <1>8, Resumed

-----------------------------------------------------------------------------
(* What the actions have in common *)

LEMMA AtStart ==
  ASSUME EInv, ctl # <<>>, Head(ctl).kind \in {"eval", "definition"}
  PROVE  \E t \in Seq(CallerRecords) :
           /\ t = Tail(ctl) /\ <<>> \o t = t
           /\ Rest(t) /\ RestIntact(t)
           /\ Head(ctl) \in Starters
           /\ On(t) /\ Starts(Head(ctl), Under(t, 0))
<1>1. Head(ctl) \notin CallerRecords
  BY KindSets
<1> QED
  BY <1>1, Split

LEMMA AtCaller ==
  ASSUME EInv, ctl # <<>>, Head(ctl).kind \notin {"eval", "definition"}
  PROVE  \E t \in Seq(CallerRecords) :
           /\ t = Tail(ctl) /\ <<>> \o t = t
           /\ Rest(t) /\ RestIntact(t)
           /\ Head(ctl) \in CallerRecords
           /\ Over(Head(ctl), t)
<1>1. Head(ctl) \notin Starters
  BY KindSets
<1> QED
  BY <1>1, Split

\* A caller that owns no Frame is done.
LEMMA PlainPop ==
  ASSUME NEW k, NEW t, Rest(t), RestIntact(t), Over(k, t),
         k.kind \notin {"body", "args"}
  PROVE  On(t)
<1>1. Owned(k) = {} /\ ~ OwnCall(k)
  BY DEF Owned, OwnCall
<1> QED
  BY <1>1 DEF On, Over, Linked

LEMMA LookupType ==
  ASSUME EInv
  PROVE  /\ \A v \in Var : /\ Lookup(v) = Find(outer, table, v)[env]
                           /\ Lookup(v) \in Cell \cup {Null}
         /\ Copied \in Bindings
         /\ At \in Ats
<1>1. outer \in Outers /\ table \in Tables /\ env \in FrameId
  BY DEF EInv, Frames, Outers, Tables
<1>2. PICK r \in [FrameId -> Nat] :
        \A f \in FrameId : outer[f] # Null => r[outer[f]] < r[f]
  BY DEF EInv, Frames, Ranked
<1>3. ASSUME NEW v \in Var
      PROVE  /\ Lookup(v) = Find(outer, table, v)[env]
             /\ Lookup(v) \in Cell \cup {Null}
  <2>1. Lookup(v) = Find(outer, table, v)[env]
    BY DEF Lookup, Find
  <2> QED
    BY <1>1, <1>2, <2>1, FindType
<1>4. Copied \in Bindings
  BY <1>3 DEF Copied, Bindings
<1>5. At \in Ats
  BY <1>1 DEF At, Ats, Tables
<1> QED
  BY <1>3, <1>4, <1>5

\* A caller that leaves the Frame and the variables as they are now.
LEMMA AtOver ==
  ASSUME EInv, NEW t \in Seq(CallerRecords), On(t), NEW k \in CallerRecords,
         HasAt(k), k.kind # "args", k.at = At,
         k.kind = "define" => Under(t, 0).kind \in {"body", "toplevel"},
         ~ SharedTests /\ Tails(k) => Passive(Under(t, 0)),
         k.kind = "set" => k.addr = Lookup(k.var)
  PROVE  Over(k, t)
<1>1. Owned(k) = {} /\ ~ OwnCall(k)
  BY DEF Owned, OwnCall, HasAt
<1>2. EnvOf(k) = env
  BY DEF HasAt, EnvOf, At
<1>3. Intact(k)
  <2>1. table[k.at.env] = k.at.locals
    BY DEF At
  <2>2. ASSUME k.kind = "set"
        PROVE  Find(outer, table, k.var)[k.at.env] = k.addr
    <3>1. k.var \in Var
      BY <2>2, KindSets DEF Sets
    <3> QED
      BY <2>2, <3>1, LookupType DEF At
  <2> QED
    BY <2>1, <2>2 DEF Intact
<1>4. Linked(k, Under(t, 0))
  BY <1>1, <1>2 DEF Linked, On
<1>5. k.kind # "toplevel"
  BY DEF HasAt
<1> QED
  BY <1>1, <1>2, <1>3, <1>4, <1>5 DEF Over, On

\* Evaluating an expression that is not in tail position ...
LEMMA PlainEval ==
  /\ Eval(FALSE, FALSE) \in Starters
  /\ \A b : Starts(Eval(FALSE, FALSE), b)
BY DEF Eval, Starters, Starts, Tails

\* ... for a caller that left the variables as they are now: what
\* Subexpression does.
LEMMA QuietCall ==
  ASSUME EInv, UNCHANGED <<frameVars, closures, errorVars>>,
         NEW t \in Seq(CallerRecords), t = Tail(ctl),
         NEW k \in CallerRecords, Rest(t), RestIntact(t), Over(k, t), Subexpression(k)
  PROVE  EInv'
<1>1. ctl' = <<Eval(FALSE, FALSE), k>> \o t
  BY DEF Subexpression, Resume
<1>2. /\ UNCHANGED frameVars /\ closures' \subseteq Bindings
      /\ eval_error' \in BOOLEAN /\ failed' \in BOOLEAN /\ loaded' \in BOOLEAN
      /\ (failed => failed') /\ (eval_error' => failed') /\ (loaded => loaded')
  BY DEF EInv, Frames, errorVars
<1> QED
  BY <1>1, <1>2, PlainEval, Quiet

\* Being done, with or without an error.
LEMMA QuietDone ==
  ASSUME EInv, UNCHANGED frameVars, closures' \subseteq Bindings,
         UNCHANGED errorVars \/ Raise,
         NEW t \in Seq(CallerRecords), t = Tail(ctl), <<>> \o t = t, On(t), Done
  PROVE  EInv'
<1>1. ctl' = t
  BY DEF Done, Resume
<1>2. /\ eval_error' \in BOOLEAN /\ failed' \in BOOLEAN /\ loaded' \in BOOLEAN
      /\ (failed => failed') /\ (eval_error' => failed') /\ (loaded => loaded')
  <2>1. /\ eval_error \in BOOLEAN /\ failed \in BOOLEAN /\ loaded \in BOOLEAN
        /\ eval_error => failed
    BY DEF EInv, Frames
  <2>2. CASE UNCHANGED errorVars
    BY <2>1, <2>2 DEF errorVars
  <2>3. CASE Raise
    BY <2>1, <2>3 DEF Raise
  <2> QED
    BY <2>2, <2>3
<1>3. Rest(t) /\ RestIntact(t)
  BY DEF On
<1> QED
  BY <1>1, <1>2, <1>3, Quiet

-----------------------------------------------------------------------------
(* Steps that do not touch the Frames *)

LEMMA EvalSimpleStep ==
  ASSUME EInv, EvalSimple
  PROVE  EInv'
<1>1. PICK t \in Seq(CallerRecords) : t = Tail(ctl) /\ <<>> \o t = t /\ On(t)
  BY AtStart DEF EvalSimple, Evaluating, Top
<1>2. closures' \subseteq Bindings
  BY DEF EInv, Frames, EvalSimple
<1> QED
  BY <1>1, <1>2, QuietDone DEF EvalSimple

LEMMA EvalLambdaStep ==
  ASSUME EInv, EvalLambda
  PROVE  EInv'
<1>1. PICK t \in Seq(CallerRecords) : t = Tail(ctl) /\ <<>> \o t = t /\ On(t)
  BY AtStart DEF EvalLambda, Evaluating, Top
<1>2. closures' \subseteq Bindings
  BY LookupType DEF EInv, Frames, EvalLambda
<1>3. UNCHANGED frameVars /\ UNCHANGED errorVars /\ Done
  BY DEF EvalLambda
<1> QED
  BY <1>1, <1>2, <1>3, QuietDone

LEMMA EvalThenStep ==
  ASSUME EInv, EvalThen
  PROVE  EInv'
<1>1. PICK t \in Seq(CallerRecords) :
        /\ t = Tail(ctl) /\ <<>> \o t = t /\ Rest(t) /\ RestIntact(t)
        /\ Head(ctl) \in Starters
        /\ On(t) /\ Starts(Head(ctl), Under(t, 0))
  BY AtStart DEF EvalThen, Evaluating, Top
<1> DEFINE sub == Head(ctl).sub
<1>2. PICK k : k = Then(sub)
  OBVIOUS
<1>3. sub \in BOOLEAN /\ Head(ctl).kind = "eval"
  BY <1>1 DEF EvalThen, Evaluating, Top, Starters
<1>4. k \in CallerRecords /\ k.kind = "then" /\ k.sub = sub /\ k.at = At
  BY <1>2, <1>3, LookupType DEF Then, CallerRecords, AtCallers, Thens
<1>5. ~ SharedTests /\ Tails(k) => Passive(Under(t, 0))
  BY <1>1, <1>3, <1>4 DEF Tails, Starts
<1>6. Over(k, t)
  BY <1>1, <1>4, <1>5, AtOver DEF HasAt
<1>7. CASE Subexpression(k)
  BY <1>1, <1>4, <1>6, <1>7, QuietCall DEF EvalThen
<1>8. CASE SharedTests /\ Resume(<<Eval(FALSE, sub), k>>)
  <2>1. Eval(FALSE, sub) \in Starters /\ Starts(Eval(FALSE, sub), k)
    BY <1>3, <1>8 DEF Eval, Starters, Starts, Tails
  <2>2. ctl' = <<Eval(FALSE, sub), k>> \o t
    BY <1>1, <1>8 DEF Resume
  <2>3. /\ UNCHANGED frameVars /\ closures' \subseteq Bindings
        /\ eval_error' \in BOOLEAN /\ failed' \in BOOLEAN /\ loaded' \in BOOLEAN
        /\ (failed => failed') /\ (eval_error' => failed') /\ (loaded => loaded')
    BY DEF EInv, Frames, errorVars, EvalThen
  <2> QED
    BY <1>1, <1>4, <1>6, <2>1, <2>2, <2>3, Quiet
<1> QED
  BY <1>2, <1>7, <1>8 DEF EvalThen

LEMMA ContinueThenStep ==
  ASSUME EInv, ContinueThen
  PROVE  EInv'
<1>1. PICK t \in Seq(CallerRecords) :
        /\ t = Tail(ctl) /\ <<>> \o t = t /\ Rest(t) /\ RestIntact(t)
        /\ Head(ctl) \in CallerRecords /\ Over(Head(ctl), t)
  BY AtCaller DEF ContinueThen, Top
<1>2. PICK k : k = Head(ctl)
  OBVIOUS
<1>3. k.kind = "then" /\ k.sub \in BOOLEAN
  <2>1. k.kind = "then"
    BY <1>2 DEF ContinueThen, Top
  <2>2. k \in Thens
    BY <1>1, <1>2, <2>1, KindSets
  <2> QED
    BY <2>1, <2>2 DEF Thens
<1>4. On(t)
  BY <1>1, <1>2, <1>3, PlainPop
<1>5. UNCHANGED <<frameVars, closures, errorVars>>
  BY DEF ContinueThen
<1>6. CASE Done
  <2>1. UNCHANGED frameVars /\ closures' \subseteq Bindings /\ UNCHANGED errorVars
    BY <1>5 DEF EInv, Frames
  <2> QED
    BY <1>1, <1>4, <1>6, <2>1, QuietDone
<1>7. CASE Subexpression(k)
  BY <1>1, <1>2, <1>5, <1>7, QuietCall
<1>8. CASE Resume(<<Eval(k.sub, k.sub)>>)
  <2>1. /\ Eval(k.sub, k.sub) \in Starters
        /\ Starts(Eval(k.sub, k.sub), Under(t, 0))
    BY <1>1, <1>2, <1>3 DEF Eval, Starters, Starts, Tails, Over, Linked
  <2>2. ctl' = <<Eval(k.sub, k.sub)>> \o t
    BY <1>1, <1>8 DEF Resume
  <2>3. /\ UNCHANGED frameVars /\ closures' \subseteq Bindings
        /\ eval_error' \in BOOLEAN /\ failed' \in BOOLEAN /\ loaded' \in BOOLEAN
        /\ (failed => failed') /\ (eval_error' => failed') /\ (loaded => loaded')
    BY <1>5 DEF EInv, Frames, errorVars
  <2> QED
    BY <1>1, <1>4, <2>1, <2>2, <2>3, Quiet
<1> QED
  BY <1>2, <1>6, <1>7, <1>8 DEF ContinueThen

LEMMA EvalCallStep ==
  ASSUME EInv, EvalCall
  PROVE  EInv'
<1>1. PICK t \in Seq(CallerRecords) :
        /\ t = Tail(ctl) /\ <<>> \o t = t /\ Rest(t) /\ RestIntact(t)
        /\ Head(ctl) \in Starters
        /\ On(t) /\ Starts(Head(ctl), Under(t, 0))
  BY AtStart DEF EvalCall, Evaluating, Top
<1>2. /\ Head(ctl).kind = "eval"
      /\ Head(ctl).tail \in BOOLEAN /\ Head(ctl).sub \in BOOLEAN
  BY <1>1 DEF EvalCall, Evaluating, Top, Starters
<1>3. PICK k : k = [kind |-> "operator", tail |-> Head(ctl).tail,
                    sub |-> Head(ctl).sub, last |-> FALSE, at |-> At]
  OBVIOUS
<1>4. /\ k \in CallerRecords /\ k.kind = "operator" /\ k.at = At
      /\ k.tail = Head(ctl).tail /\ k.sub = Head(ctl).sub
  BY <1>2, <1>3, LookupType DEF CallerRecords, AtCallers, ProcCalls
<1>5. ~ SharedTests /\ Tails(k) => Passive(Under(t, 0))
  BY <1>1, <1>2, <1>4 DEF Tails, Starts
<1>6. Over(k, t)
  BY <1>1, <1>4, <1>5, AtOver DEF HasAt
<1> QED
  BY <1>1, <1>3, <1>4, <1>6, QuietCall DEF EvalCall

\* A call at an operand evaluates it as OperandStep says.
LEMMA OperandStep ==
  ASSUME EInv, UNCHANGED <<frameVars, closures, errorVars>>,
         NEW t \in Seq(CallerRecords), t = Tail(ctl), Rest(t), RestIntact(t),
         NEW k \in CallerRecords, Over(k, t), k.sub \in BOOLEAN,
         NEW last \in BOOLEAN, k.sub /\ last => Spent(k), Operand(k, last)
  PROVE  EInv'
<1>1. PICK b \in {FALSE, k.sub /\ last} : Resume(<<Eval(b, b), k>>)
  BY DEF Operand
<1>2. PICK e : e = Eval(b, b)
  OBVIOUS
<1>3. b \in BOOLEAN /\ (b => Spent(k))
  OBVIOUS
<1>4. e \in Starters /\ Starts(e, k)
  BY <1>2, <1>3 DEF Eval, Starters, Starts, Tails, Passive
<1>5. ctl' = <<e, k>> \o t
  BY <1>1, <1>2 DEF Resume
<1>6. /\ UNCHANGED frameVars /\ closures' \subseteq Bindings
      /\ eval_error' \in BOOLEAN /\ failed' \in BOOLEAN /\ loaded' \in BOOLEAN
      /\ (failed => failed') /\ (eval_error' => failed') /\ (loaded => loaded')
  BY DEF EInv, Frames, errorVars
<1> QED
  BY <1>4, <1>5, <1>6, Quiet

\* A call goes on with the next operand.
LEMMA NextOperand ==
  ASSUME NEW k \in ProcCalls, NEW j \in ProcCalls, NEW t, Over(k, t),
         j.tail = k.tail, j.sub = k.sub, j.at = k.at, ~ Spent(k)
  PROVE  Over(j, t)
<1>1. /\ k.kind \in {"operator", "builtin", "cons", "operands"}
      /\ j.kind \in {"operator", "builtin", "cons", "operands"}
  BY DEF ProcCalls
<1>2. /\ Owned(j) = {} /\ Owned(k) = {} /\ EnvOf(j) = EnvOf(k)
      /\ ~ OwnCall(j) /\ ~ OwnCall(k)
  BY <1>1 DEF Owned, OwnCall, EnvOf
<1>3. Linked(j, Under(t, 0))
  BY <1>1, <1>2 DEF Over, Linked, Tails
<1>4. Intact(k) => Intact(j)
  BY <1>1 DEF Intact, Keeps, HasAt
<1> QED
  BY <1>1, <1>2, <1>3, <1>4 DEF Over

LEMMA CallBuiltinStep ==
  ASSUME EInv, CallBuiltin
  PROVE  EInv'
<1>1. PICK t \in Seq(CallerRecords) :
        /\ t = Tail(ctl) /\ <<>> \o t = t /\ Rest(t) /\ RestIntact(t)
        /\ Head(ctl) \in CallerRecords /\ Over(Head(ctl), t)
  BY AtCaller DEF CallBuiltin, Top
<1>2. PICK k : k = Head(ctl)
  OBVIOUS
<1>3. k.kind = "operator" /\ k \in ProcCalls
  BY <1>1, <1>2, KindSets DEF CallBuiltin, Top
<1>4. /\ UNCHANGED frameVars /\ closures' \subseteq Bindings /\ UNCHANGED errorVars
      /\ eval_error' \in BOOLEAN /\ failed' \in BOOLEAN /\ loaded' \in BOOLEAN
      /\ (failed => failed') /\ (eval_error' => failed') /\ (loaded => loaded')
  BY DEF CallBuiltin, EInv, Frames, errorVars
<1>5. CASE Done
  <2>1. On(t)
    BY <1>1, <1>2, <1>3, PlainPop
  <2> QED
    BY <1>1, <1>4, <1>5, <2>1, QuietDone
<1>6. CASE Resume(<<[k EXCEPT !.kind = "builtin"]>>)
  <2>1. PICK j : j = [k EXCEPT !.kind = "builtin"]
    OBVIOUS
  <2>2. j \in ProcCalls /\ j.tail = k.tail /\ j.sub = k.sub /\ j.at = k.at
    BY <1>3, <2>1 DEF ProcCalls
  <2>3. Over(j, t) /\ j \in CallerRecords
    BY <1>1, <1>2, <1>3, <2>2, NextOperand DEF Spent, CallerRecords, AtCallers
  <2>4. ctl' = <<j>> \o t
    BY <1>1, <1>6, <2>1 DEF Resume
  <2> QED
    BY <1>1, <1>4, <2>3, <2>4, Quiet
<1> QED
  BY <1>2, <1>5, <1>6 DEF CallBuiltin

LEMMA HandleBuiltinStep ==
  ASSUME EInv, HandleBuiltin
  PROVE  EInv'
<1>1. PICK t \in Seq(CallerRecords) :
        /\ t = Tail(ctl) /\ <<>> \o t = t /\ Rest(t) /\ RestIntact(t)
        /\ Head(ctl) \in CallerRecords /\ Over(Head(ctl), t)
  BY AtCaller DEF HandleBuiltin, Top
<1>2. PICK k : k = Head(ctl)
  OBVIOUS
<1>3. k.kind \in {"builtin", "cons", "operands"} /\ k \in ProcCalls
  BY <1>1, <1>2, KindSets DEF HandleBuiltin, Top
<1>4. On(t)
  BY <1>1, <1>2, <1>3, PlainPop
<1>5. UNCHANGED <<frameVars, closures>>
  BY DEF HandleBuiltin
<1>6. CASE Done /\ (UNCHANGED errorVars \/ Raise)
  <2>1. UNCHANGED frameVars /\ closures' \subseteq Bindings
    BY <1>5 DEF EInv, Frames
  <2> QED
    BY <1>1, <1>4, <1>6, <2>1, QuietDone
<1>7. ASSUME NEW kind \in {"cons", "operands"}, NEW last \in BOOLEAN,
             last => kind = "operands",
             ~ (k.kind = "operands" /\ k.last), UNCHANGED errorVars,
             Operand([k EXCEPT !.kind = kind, !.last = last], last)
      PROVE  EInv'
  <2>1. PICK j : j = [k EXCEPT !.kind = kind, !.last = last]
    OBVIOUS
  <2>2. /\ j \in ProcCalls /\ j.kind = kind /\ j.last = last
        /\ j.tail = k.tail /\ j.sub = k.sub /\ j.at = k.at
        /\ j.sub \in BOOLEAN
    BY <1>3, <2>1 DEF ProcCalls
  <2>3. ~ Spent(k) /\ (j.sub /\ last => Spent(j))
    BY <1>3, <1>7, <2>2 DEF Spent
  <2>4. Over(j, t) /\ j \in CallerRecords
    BY <1>1, <1>2, <1>3, <2>2, <2>3, NextOperand DEF CallerRecords, AtCallers
  <2>5. UNCHANGED <<frameVars, closures, errorVars>> /\ Operand(j, last)
    BY <1>5, <1>7, <2>1
  <2> QED
    BY <1>1, <2>2, <2>3, <2>4, <2>5, OperandStep
<1>8. CASE /\ k.kind # "cons" /\ ~ k.last /\ UNCHANGED errorVars
           /\ \E last \in {FALSE, k.sub} :
                Operand([k EXCEPT !.kind = "operands", !.last = last], last)
  <2>1. k.sub \in BOOLEAN
    BY <1>3 DEF ProcCalls
  <2> QED
    BY <1>7, <1>8, <2>1
<1>9. CASE /\ k.kind = "builtin" /\ UNCHANGED errorVars
           /\ Operand([k EXCEPT !.kind = "cons", !.last = FALSE], FALSE)
  BY <1>7, <1>9
<1>10. CASE /\ k.kind = "cons" /\ UNCHANGED errorVars
            /\ Operand([k EXCEPT !.kind = "operands", !.last = k.sub], TRUE)
  <2>1. PICK j : j = [k EXCEPT !.kind = "operands", !.last = k.sub]
    OBVIOUS
  <2>2. k.sub \in BOOLEAN /\ j.sub = k.sub
    BY <1>3, <2>1 DEF ProcCalls
  <2>3. Operand(j, k.sub)
    BY <1>10, <2>1, <2>2 DEF Operand
  <2> QED
    BY <1>7, <1>10, <2>1, <2>2, <2>3
<1> QED
  BY <1>2, <1>6, <1>8, <1>9, <1>10 DEF HandleBuiltin

LEMMA CallRefusedStep ==
  ASSUME EInv, CallRefused
  PROVE  EInv'
<1>1. PICK t \in Seq(CallerRecords) :
        /\ t = Tail(ctl) /\ <<>> \o t = t /\ Rest(t) /\ RestIntact(t)
        /\ Head(ctl) \in CallerRecords /\ Over(Head(ctl), t)
  BY AtCaller DEF CallRefused, Top
<1>2. On(t)
  BY <1>1, PlainPop DEF CallRefused, Top
<1>3. UNCHANGED frameVars /\ closures' \subseteq Bindings /\ Raise /\ Done
  BY DEF CallRefused, EInv, Frames
<1> QED
  BY <1>1, <1>2, <1>3, QuietDone

\* What is known of a call's arguments does not depend on which are left.
LEMMA SameCall ==
  ASSUME NEW k \in ArgsCalls, NEW j \in ArgsCalls, NEW t, Over(k, t),
         j.tail = k.tail, j.sub = k.sub, j.exec = k.exec, j.argf = k.argf,
         j.at = k.at, j.left \subseteq k.left
  PROVE  Over(j, t)
<1>1. k.kind = "args" /\ j.kind = "args"
  BY DEF ArgsCalls
<1>2. Owned(j) = Owned(k) /\ EnvOf(j) = EnvOf(k) /\ ~ OwnCall(j) /\ ~ OwnCall(k)
  BY <1>1 DEF Owned, OwnCall, EnvOf
<1>3. Linked(j, Under(t, 0))
  BY <1>1, <1>2 DEF Over, Linked, Tails
<1>4. Intact(k) => Intact(j)
  BY <1>1 DEF Intact, Keeps, HasAt, Spent
<1> QED
  BY <1>1, <1>2, <1>3, <1>4 DEF Over

LEMMA SameCallNext ==
  (\A k, j \in ArgsCalls : \A t :
     /\ j.tail = k.tail /\ j.sub = k.sub /\ j.exec = k.exec /\ j.argf = k.argf
     /\ j.at = k.at /\ j.left \subseteq k.left
     /\ Over(k, t)
     => Over(j, t))'
<1>1. \A k, j \in ArgsCalls : \A t :
        /\ j.tail = k.tail /\ j.sub = k.sub /\ j.exec = k.exec /\ j.argf = k.argf
        /\ j.at = k.at /\ j.left \subseteq k.left
        /\ Over(k, t)
        => Over(j, t)
  BY SameCall
<1> QED
  BY <1>1, PTL

LEMMA EvalArgStep ==
  ASSUME EInv, EvalArg
  PROVE  EInv'
<1>1. PICK t \in Seq(CallerRecords) :
        /\ t = Tail(ctl) /\ <<>> \o t = t /\ Rest(t) /\ RestIntact(t)
        /\ Head(ctl) \in CallerRecords /\ Over(Head(ctl), t)
  BY AtCaller DEF EvalArg, Top
<1>2. PICK k : k = Head(ctl)
  OBVIOUS
<1>3. k.kind = "args" /\ k \in ArgsCalls
  BY <1>1, <1>2, KindSets DEF EvalArg, Top
<1>4. PICK v \in k.left :
        Operand([k EXCEPT !.left = @ \ {v}, !.waits = v], k.left = {v})
  BY <1>2 DEF EvalArg
<1>5. PICK j : j = [k EXCEPT !.left = @ \ {v}, !.waits = v]
  OBVIOUS
<1>6. /\ j \in ArgsCalls /\ j.tail = k.tail /\ j.sub = k.sub /\ j.exec = k.exec
      /\ j.argf = k.argf /\ j.at = k.at /\ j.left = k.left \ {v} /\ j.sub \in BOOLEAN
  BY <1>3, <1>5 DEF ArgsCalls
<1>7. Over(j, t) /\ j \in CallerRecords
  BY <1>1, <1>2, <1>3, <1>6, SameCall DEF CallerRecords, AtCallers
<1>8. PICK last \in BOOLEAN : last = (k.left = {v})
  OBVIOUS
<1>9. j.sub /\ last => Spent(j)
  BY <1>6, <1>8 DEF Spent, ArgsCalls
<1>10. UNCHANGED <<frameVars, closures, errorVars>> /\ Operand(j, last)
  BY <1>4, <1>5, <1>8 DEF EvalArg
<1> QED
  BY <1>1, <1>6, <1>7, <1>9, <1>10, OperandStep

LEMMA EvalBodyStep ==
  ASSUME EInv, EvalBody
  PROVE  EInv'
<1>1. PICK t \in Seq(CallerRecords) :
        /\ t = Tail(ctl) /\ <<>> \o t = t /\ Rest(t) /\ RestIntact(t)
        /\ Head(ctl) \in CallerRecords /\ Over(Head(ctl), t)
  BY AtCaller DEF EvalBody, Top
<1>2. PICK k : k = Head(ctl)
  OBVIOUS
<1>3. k.kind = "body" /\ k \in Bodies
  BY <1>1, <1>2, KindSets DEF EvalBody, Top
<1>4. /\ UNCHANGED frameVars /\ closures' \subseteq Bindings
      /\ eval_error' \in BOOLEAN /\ failed' \in BOOLEAN /\ loaded' \in BOOLEAN
      /\ (failed => failed') /\ (eval_error' => failed') /\ (loaded => loaded')
  BY DEF EInv, Frames, errorVars, EvalBody
<1>5. ASSUME NEW v \in Var, Resume(<<Definition(v), k>>)
      PROVE  EInv'
  <2>1. PICK e : e = Definition(v)
    OBVIOUS
  <2>2. e \in Starters /\ Starts(e, k)
    BY <1>3, <2>1 DEF Definition, Starters, Starts, Tails
  <2>3. ctl' = <<e, k>> \o t
    BY <1>1, <1>5, <2>1 DEF Resume
  <2> QED
    BY <1>1, <1>2, <1>4, <2>2, <2>3, Quiet
<1>6. ASSUME NEW b \in BOOLEAN, Resume(<<Eval(b, b), [k EXCEPT !.last = TRUE]>>)
      PROVE  EInv'
  <2>1. PICK e, j : e = Eval(b, b) /\ j = [k EXCEPT !.last = TRUE]
    OBVIOUS
  <2>2. /\ j \in CallerRecords /\ j.kind = "body"
        /\ j.tail = k.tail /\ j.exec = k.exec
    BY <1>3, <2>1 DEF Bodies, CallerRecords
  <2>3. e \in Starters /\ Starts(e, j)
    BY <2>1, <2>2 DEF Eval, Starters, Starts, Passive
  <2>4. Over(j, t)
    BY <1>1, <1>2, <1>3, <2>2
    DEF Over, Linked, Owned, OwnCall, EnvOf, Intact, Keeps, HasAt, Tails
  <2>5. ctl' = <<e, j>> \o t
    BY <1>1, <1>6, <2>1 DEF Resume
  <2> QED
    BY <1>1, <1>4, <2>2, <2>3, <2>4, <2>5, Quiet
<1> QED
  BY <1>2, <1>5, <1>6 DEF EvalBody

LEMMA EvalDefineStep ==
  ASSUME EInv, EvalDefine
  PROVE  EInv'
<1>1. PICK t \in Seq(CallerRecords) :
        /\ t = Tail(ctl) /\ <<>> \o t = t /\ Rest(t) /\ RestIntact(t)
        /\ Head(ctl) \in Starters
        /\ On(t) /\ Starts(Head(ctl), Under(t, 0))
  BY AtStart DEF EvalDefine, Top
<1>2. Head(ctl).kind = "definition" /\ Head(ctl).var \in Var
  BY <1>1 DEF EvalDefine, Top, Starters
<1>3. PICK k : k = [kind |-> "define", var |-> Head(ctl).var, at |-> At]
  OBVIOUS
<1>4. k \in CallerRecords /\ k.kind = "define" /\ k.at = At
  BY <1>2, <1>3, LookupType DEF CallerRecords, AtCallers, Defines
<1>5. Over(k, t)
  BY <1>1, <1>2, <1>4, AtOver DEF HasAt, Tails, Starts
<1> QED
  BY <1>1, <1>3, <1>4, <1>5, QuietCall DEF EvalDefine

LEMMA EvalSetStep ==
  ASSUME EInv, EvalSet
  PROVE  EInv'
<1>1. PICK t \in Seq(CallerRecords) :
        /\ t = Tail(ctl) /\ <<>> \o t = t /\ Rest(t) /\ RestIntact(t)
        /\ Head(ctl) \in Starters
        /\ On(t) /\ Starts(Head(ctl), Under(t, 0))
  BY AtStart DEF EvalSet, Evaluating, Top
<1>2. PICK v \in Var :
        IF Lookup(v) = Null
        THEN Done
        ELSE Subexpression([kind |-> "set", var |-> v, addr |-> Lookup(v),
                            at |-> At])
  BY DEF EvalSet
<1>3. UNCHANGED <<frameVars, closures, errorVars>>
  BY DEF EvalSet
<1>4. CASE Lookup(v) = Null
  <2>1. UNCHANGED frameVars /\ closures' \subseteq Bindings /\ UNCHANGED errorVars
    BY <1>3 DEF EInv, Frames
  <2> QED
    BY <1>1, <1>2, <1>4, <2>1, QuietDone
<1>5. CASE Lookup(v) # Null
  <2>1. PICK a : a = Lookup(v)
    OBVIOUS
  <2>2. PICK k : k = [kind |-> "set", var |-> v, addr |-> a, at |-> At]
    OBVIOUS
  <2>3. a \in Cell \cup {Null}
    BY <2>1, LookupType
  <2>4. /\ k \in CallerRecords /\ k.kind = "set" /\ k.at = At
        /\ k.var = v /\ k.addr = a
    BY <2>2, <2>3, LookupType DEF CallerRecords, AtCallers, Sets
  <2>5. Over(k, t)
    BY <1>1, <2>1, <2>4, AtOver DEF HasAt, Tails
  <2> QED
    BY <1>1, <1>2, <1>3, <1>5, <2>1, <2>2, <2>4, <2>5, QuietCall
<1> QED
  BY <1>4, <1>5

LEMMA SetStep ==
  ASSUME EInv, Set
  PROVE  EInv'
<1>1. PICK t \in Seq(CallerRecords) :
        /\ t = Tail(ctl) /\ <<>> \o t = t /\ Rest(t) /\ RestIntact(t)
        /\ Head(ctl) \in CallerRecords /\ Over(Head(ctl), t)
  BY AtCaller DEF Set, Top
<1>2. On(t)
  BY <1>1, PlainPop DEF Set, Top
<1>3. UNCHANGED frameVars /\ closures' \subseteq Bindings /\ UNCHANGED errorVars /\ Done
  BY DEF Set, EInv, Frames
<1> QED
  BY <1>1, <1>2, <1>3, QuietDone

LEMMA LoadStep ==
  ASSUME EInv, Load
  PROVE  EInv'
<1>1. PICK t \in Seq(CallerRecords) :
        /\ t = Tail(ctl) /\ <<>> \o t = t /\ Rest(t) /\ RestIntact(t)
        /\ Head(ctl) \in CallerRecords /\ Over(Head(ctl), t)
  BY AtCaller DEF Load, Top
<1>2. On(t)
  BY <1>1, PlainPop DEF Load, Top
<1>3. /\ Frames'
      /\ UNCHANGED frameVars /\ UNCHANGED failed /\ loaded'
  BY DEF Load, EInv, Frames, frameVars, Ranked
<1>4. PICK k : k = Toplevel
  OBVIOUS
<1>5. k \in CallerRecords /\ k.kind = "toplevel" /\ k.env = env
  BY <1>4 DEF Toplevel, CallerRecords, Toplevels, EInv, Frames
<1>6. Rest(t)' /\ RestIntact(t)'
  <2>1. \A j, b : Linked(j, b) => Linked(j, b)'
    BY <1>3 DEF Linked, frameVars
  <2> QED
    BY <1>1, <1>3, <2>1 DEF Rest, RestIntact, Careful, frameVars
<1>7. Over(k, t)'
  <2>1. Owned(k) = {} /\ ~ OwnCall(k) /\ EnvOf(k) = env /\ ~ Tails(k)
    BY <1>5 DEF Owned, OwnCall, EnvOf, Tails
  <2> QED
    BY <1>2, <1>3, <1>5, <2>1 DEF Over, On, Linked, Careful, frameVars
<1>8. ctl' = <<k>> \o t
  BY <1>1, <1>4 DEF Load, Resume
<1> QED
  BY <1>3, <1>5, <1>6, <1>7, <1>8, Resumed

LEMMA EvalToplevelStep ==
  ASSUME EInv, EvalToplevel
  PROVE  EInv'
<1>1. PICK t \in Seq(CallerRecords) :
        /\ t = Tail(ctl) /\ <<>> \o t = t /\ Rest(t) /\ RestIntact(t)
        /\ Head(ctl) \in CallerRecords /\ Over(Head(ctl), t)
  BY AtCaller DEF EvalToplevel, Top
<1>2. PICK k : k = Head(ctl)
  OBVIOUS
<1>3. k.kind = "toplevel"
  BY <1>2 DEF EvalToplevel, Top
<1>4. On(t)
  BY <1>1, <1>2, <1>3, PlainPop
<1>5. /\ UNCHANGED frameVars /\ closures' \subseteq Bindings
      /\ eval_error' \in BOOLEAN /\ failed' \in BOOLEAN /\ loaded' \in BOOLEAN
      /\ (failed => failed') /\ (eval_error' => failed') /\ (loaded => loaded')
      /\ UNCHANGED errorVars
  BY DEF EInv, Frames, errorVars, EvalToplevel
<1>6. CASE Done
  BY <1>1, <1>4, <1>5, <1>6, QuietDone
<1>7. ASSUME NEW v \in Var, Resume(<<Definition(v), k>>)
      PROVE  EInv'
  <2>1. PICK e : e = Definition(v)
    OBVIOUS
  <2>2. e \in Starters /\ Starts(e, k)
    BY <1>3, <2>1 DEF Definition, Starters, Starts, Tails
  <2>3. ctl' = <<e, k>> \o t
    BY <1>1, <1>7, <2>1 DEF Resume
  <2> QED
    BY <1>1, <1>2, <1>5, <2>2, <2>3, Quiet
<1>8. CASE Resume(<<Eval(FALSE, FALSE), k>>)
  BY <1>1, <1>2, <1>5, <1>8, PlainEval, Quiet DEF Resume
<1> QED
  BY <1>2, <1>6, <1>7, <1>8 DEF EvalToplevel

LEMMA InputStep ==
  ASSUME EInv, Input
  PROVE  EInv'
<1>1. PICK s \in Seq(CallerRecords) :
        /\ On(s)
        /\ \/ ctl = s
           \/ \E e \in Starters : ctl = <<e>> \o s /\ Starts(e, Under(s, 0))
  BY DEF EInv, Stack
<1>2. s = <<>>
  <2>1. ASSUME NEW e \in Starters, ctl = <<e>> \o s
        PROVE  FALSE
    <3>1. PICK S : S = Starters \cup CallerRecords
      OBVIOUS
    <3>2. e \in S /\ s \in Seq(S)
      <4>1. Len(s) \in Nat /\ DOMAIN s = 1..Len(s) /\ s \in [1..Len(s) -> CallerRecords]
        BY LenProperties
      <4>2. s \in [1..Len(s) -> S]
        BY <3>1, <4>1
      <4> QED
        BY <3>1, <4>1, <4>2
    <3>3. PICK u \in Seq(S) : Pushed(u, e, s)
      BY <3>2, ConsFacts
    <3> QED
      BY <2>1, <3>3 DEF Pushed, Input
  <2> QED
    BY <1>1, <2>1 DEF Input
<1>3. /\ Frames'
      /\ UNCHANGED frameVars /\ UNCHANGED failed
  BY DEF Input, EInv, Frames, frameVars, Ranked
<1>4. PICK k : k = Toplevel
  OBVIOUS
<1>5. k \in CallerRecords /\ k.kind = "toplevel" /\ k.env = env
  BY <1>4 DEF Toplevel, CallerRecords, Toplevels, EInv, Frames
<1>6. Rest(s)' /\ RestIntact(s)'
  <2>1. DOMAIN s = {}
    BY <1>2
  <2> QED
    BY <2>1 DEF Rest, RestIntact
<1>7. Over(k, s)'
  <2>1. Owned(k) = {} /\ ~ OwnCall(k) /\ EnvOf(k) = env /\ ~ Tails(k) /\ ~ Keeps(k)
    BY <1>5 DEF Owned, OwnCall, EnvOf, Tails, Keeps, HasAt
  <2> QED
    BY <1>1, <1>2, <1>3, <1>5, <2>1 DEF Over, On, Linked, Intact, frameVars
<1>8. ctl' = <<k>> \o s
  <2>1. <<k>> \in Seq(CallerRecords)
    BY <1>5
  <2>2. <<k>> \o <<>> = <<k>>
    BY <2>1, ConcatEmptySeq
  <2> QED
    BY <1>2, <1>4, <2>2 DEF Input
<1> QED
  BY <1>3, <1>5, <1>6, <1>7, <1>8, Resumed

-----------------------------------------------------------------------------
(* Definitions *)

\* Where the callers are, and that it is live.
LEMMA Here ==
  ASSUME EInv, NEW t, Rest(t)
  PROVE  /\ EnvOf(Under(t, 0)) \in {Global} \cup OwnedBy(t)
         /\ \A i \in DOMAIN t : ChainFrom(t, i) \subseteq {Global} \cup OwnedBy(t)
         /\ {Global} \cup OwnedBy(t) \subseteq live \cap FrameId
         /\ Global \notin OwnedBy(t)
<1>1. outer[Global] = Null /\ Global \in live
  BY DEF EInv, Frames
<1>2. t \in Seq(CallerRecords) /\ Len(t) \in Nat /\ DOMAIN t = 1..Len(t)
  BY LenProperties DEF Rest
<1>3. EnvOf(Under(t, 0)) \in ChainFrom(t, 1)
  <2>1. 0 \in 0..Len(t) /\ 0 + 1 = 1
    BY <1>2
  <2>2. \A i \in 0..Len(t) : EnvOf(Under(t, i)) \in ChainFrom(t, i + 1)
    BY <1>1, Reach
  <2> QED
    BY <2>1, <2>2
<1>4. \A i \in Nat : ChainFrom(t, i) \subseteq {Global} \cup OwnedBy(t)
  BY <1>1, Reach
<1>5. OwnedBy(t) \subseteq (live \cap FrameId) \ {Global}
  BY <1>1, Reach
<1> QED
  BY <1>1, <1>2, <1>3, <1>4, <1>5, NameAssumption

\* A definition in a body, or at the toplevel that nothing is evaluated for,
\* changes no Frame that a caller uses variables of; nor does a tail call.
LEMMA DefineRegion ==
  ASSUME EInv, NEW t \in Seq(CallerRecords), Rest(t), RestIntact(t), Careful,
         Passive(Under(t, 0)) \/ Under(t, 0).kind = "toplevel"
  PROVE  \A i \in DOMAIN t : Keeps(t[i]) => EnvOf(Under(t, 0)) \notin ChainFrom(t, i)
<1>1. Len(t) \in Nat /\ DOMAIN t = 1..Len(t)
  BY LenProperties
<1> SUFFICES ASSUME NEW i \in DOMAIN t, Keeps(t[i])
             PROVE  EnvOf(Under(t, 0)) \notin ChainFrom(t, i)
  OBVIOUS
<1>2. Under(t, 0) = t[1] /\ 1 \in DOMAIN t /\ t # <<>>
  BY <1>1 DEF Under
<1>3. CASE Passive(t[1])
  <2>1. outer[Global] = Null /\ ~ SharedTests
    BY DEF EInv, Frames, Careful
  <2> QED
    BY <1>2, <1>3, <2>1, TailRegion
<1>4. CASE t[1].kind = "toplevel"
  <2>1. Len(t) = 1
    BY <1>2, <1>4 DEF RestIntact
  <2>2. i = 1
    BY <1>1, <2>1
  <2> QED
    BY <1>4, <2>2 DEF Keeps, HasAt
<1> QED
  BY <1>2, <1>3, <1>4

LEMMA InsertStep ==
  ASSUME EInv, NEW t \in Seq(CallerRecords), On(t), ctl' = t,
         Under(t, 0).kind \in {"body", "toplevel"},
         NEW v \in Var, NEW c \in Cell, Insert(v, c),
         UNCHANGED <<env, outer, live, errorVars>>, closures' \subseteq Bindings
  PROVE  EInv'
<1>1. table' \in Tables /\ \A f \in FrameId : f # env => table'[f] = table[f]
  BY DEF EInv, Frames, Insert, Tables, Bindings
<1>2. Frames'
  BY <1>1 DEF EInv, Frames, Ranked, Tables, errorVars
<1>3. Rest(t)'
  <2>1. \A f \in OwnedBy(t) : outer'[f] = outer[f] /\ f \in live'
    BY Here DEF On
  <2> QED
    BY <2>1, RestKept DEF On
<1>4. RestIntact(t)'
  <2>1. Careful' => Careful
    BY DEF Careful, errorVars
  <2>2. outer' \in Outers
    BY DEF EInv, Frames, Outers
  <2>3. ASSUME Careful, NEW i \in DOMAIN t, Keeps(t[i]), NEW f \in ChainFrom(t, i)
        PROVE  outer'[f] = outer[f] /\ table'[f] = table[f]
    <3>1. f # env
      BY <2>3, DefineRegion DEF On, Passive
    <3>2. f \in FrameId
      BY Here DEF On
    <3> QED
      BY <1>1, <3>1, <3>2
  <2> QED
    BY <1>1, <2>1, <2>2, <2>3, RestIntactKept DEF On, EInv
<1>5. On(t)'
  BY <1>3, <1>4 DEF On, errorVars
<1> QED
  BY <1>2, <1>5, Resumed

LEMMA DefineLambdaStep ==
  ASSUME EInv, DefineLambda
  PROVE  EInv'
<1>1. PICK t \in Seq(CallerRecords) :
        /\ t = Tail(ctl) /\ <<>> \o t = t /\ Rest(t) /\ RestIntact(t)
        /\ Head(ctl) \in Starters
        /\ On(t) /\ Starts(Head(ctl), Under(t, 0))
  BY AtStart DEF DefineLambda, Top
<1>2. PICK v : v = Head(ctl).var
  OBVIOUS
<1>3. v \in Var /\ Under(t, 0).kind \in {"body", "toplevel"}
  BY <1>1, <1>2 DEF DefineLambda, Top, Starters, Starts
<1>4. PICK c \in Cell : /\ Insert(v, c)
                        /\ closures' = closures \cup {[Copied EXCEPT ![v] = c]}
  BY <1>2 DEF DefineLambda
<1>5. closures' \subseteq Bindings
  <2>1. [Copied EXCEPT ![v] = c] \in Bindings
    BY <1>3, LookupType DEF Bindings
  <2> QED
    BY <1>4, <2>1 DEF EInv, Frames
<1>6. ctl' = t /\ UNCHANGED <<env, outer, live, errorVars>>
  BY <1>1 DEF DefineLambda, Done, Resume
<1> QED
  BY <1>1, <1>3, <1>4, <1>5, <1>6, InsertStep

LEMMA DefineStep ==
  ASSUME EInv, Define
  PROVE  EInv'
<1>1. PICK t \in Seq(CallerRecords) :
        /\ t = Tail(ctl) /\ <<>> \o t = t /\ Rest(t) /\ RestIntact(t)
        /\ Head(ctl) \in CallerRecords /\ Over(Head(ctl), t)
  BY AtCaller DEF Define, Top
<1>2. PICK k : k = Head(ctl)
  OBVIOUS
<1>3. k.kind = "define"
  BY <1>2 DEF Define, Top
<1>4. k.var \in Var
  BY <1>1, <1>2, <1>3, KindSets DEF Defines
<1>5. On(t) /\ Under(t, 0).kind \in {"body", "toplevel"}
  BY <1>1, <1>2, <1>3, PlainPop DEF Over, Linked
<1>6. /\ ctl' = t /\ UNCHANGED <<env, outer, live, errorVars>>
      /\ closures' \subseteq Bindings
  BY <1>1 DEF Define, Done, Resume, EInv, Frames
<1>7. CASE UNCHANGED table
  <2>1. UNCHANGED frameVars /\ UNCHANGED errorVars /\ Done
    BY <1>6, <1>7 DEF frameVars, Define
  <2> QED
    BY <1>1, <1>5, <1>6, <2>1, QuietDone
<1>8. ASSUME NEW c \in Cell, Insert(k.var, c)
      PROVE  EInv'
  BY <1>4, <1>5, <1>6, <1>8, InsertStep
<1> QED
  BY <1>2, <1>7, <1>8 DEF Define

-----------------------------------------------------------------------------
(* Calls *)

LEMMA BindArgStep ==
  ASSUME EInv, BindArg
  PROVE  EInv'
<1>1. PICK t \in Seq(CallerRecords) :
        /\ t = Tail(ctl) /\ <<>> \o t = t /\ Rest(t) /\ RestIntact(t)
        /\ Head(ctl) \in CallerRecords /\ Over(Head(ctl), t)
  BY AtCaller DEF BindArg, Top
<1>2. PICK k : k = Head(ctl)
  OBVIOUS
<1>3. k.kind = "args" /\ k \in ArgsCalls /\ Over(k, t)
  BY <1>1, <1>2, KindSets DEF BindArg, Top
<1>4. UNCHANGED <<env, outer, live, closures, errorVars>> /\ k.waits # Null
  BY <1>2 DEF BindArg
<1>5. CASE eval_error /\ Done /\ UNCHANGED table
  <2>1. failed
    BY <1>5 DEF EInv, Frames
  <2>2. On(t)
    BY <1>1, <1>3, <2>1 DEF On, Over, Linked, OwnCall
  <2>3. UNCHANGED frameVars /\ closures' \subseteq Bindings /\ UNCHANGED errorVars
    BY <1>4, <1>5 DEF frameVars, EInv, Frames
  <2> QED
    BY <1>1, <1>5, <2>2, <2>3, QuietDone
<1>6. ASSUME NEW c \in Cell, table' = [table EXCEPT ![k.argf][k.waits] = c],
             Resume(<<[k EXCEPT !.waits = Null]>>)
      PROVE  EInv'
  <2>1. k.argf \in FrameId /\ k.waits \in Var
    BY <1>3, <1>4 DEF ArgsCalls
  <2>2. table' \in Tables /\ \A f \in FrameId : f # k.argf => table'[f] = table[f]
    BY <1>6, <2>1 DEF EInv, Frames, Tables, Bindings
  <2>3. Frames'
    BY <1>4, <2>2 DEF EInv, Frames, Ranked, Tables, errorVars
  <2>4. k.argf \notin {Global} \cup OwnedBy(t)
    BY <1>3 DEF Over, Owned, OwnCall
  <2>5. /\ EnvOf(Under(t, 0)) \in {Global} \cup OwnedBy(t)
        /\ \A i \in DOMAIN t : ChainFrom(t, i) \subseteq {Global} \cup OwnedBy(t)
        /\ {Global} \cup OwnedBy(t) \subseteq live \cap FrameId
    BY <1>1, Here
  <2>6. Rest(t)'
    BY <1>1, <1>4, <2>5, RestKept
  <2>7. RestIntact(t)'
    <3>1. Careful' => Careful
      BY <1>4 DEF Careful, errorVars
    <3>2. outer' \in Outers
      BY <1>4 DEF EInv, Frames, Outers
    <3>3. \A i \in DOMAIN t : \A f \in ChainFrom(t, i) :
            outer'[f] = outer[f] /\ table'[f] = table[f]
      BY <1>4, <2>2, <2>4, <2>5
    <3> QED
      BY <1>1, <2>2, <3>1, <3>2, <3>3, RestIntactKept DEF EInv
  <2>8. Over(k, t)'
    <3>1. k.at.env = env /\ env = EnvOf(Under(t, 0))
      BY <1>3 DEF Over, EnvOf, Linked, OwnCall
    <3>2. table'[k.at.env] = table[k.at.env]
      BY <2>2, <2>4, <2>5, <3>1
    <3>3. Careful' => Intact(k)'
      BY <1>3, <1>4, <3>2 DEF Over, Careful, errorVars, Intact
    <3> QED
      BY <1>3, <1>4, <3>3 DEF Over, Linked, Careful, errorVars
  <2>9. PICK j : j = [k EXCEPT !.waits = Null]
    OBVIOUS
  <2>10. /\ j \in ArgsCalls /\ j.tail = k.tail /\ j.exec = k.exec
         /\ j.argf = k.argf /\ j.at = k.at
         /\ j.sub = k.sub /\ j.left \subseteq k.left
    BY <1>3, <2>9 DEF ArgsCalls
  <2>11. Over(j, t)' /\ j \in CallerRecords
    BY <1>3, <2>8, <2>10, SameCallNext DEF CallerRecords, AtCallers
  <2>12. ctl' = <<j>> \o t
    BY <1>1, <1>6, <2>9 DEF Resume
  <2> QED
    BY <2>3, <2>6, <2>7, <2>11, <2>12, Resumed
<1> QED
  BY <1>2, <1>5, <1>6 DEF BindArg

LEMMA EnterBodyStep ==
  ASSUME EInv, EnterBody
  PROVE  EInv'
<1>1. PICK t \in Seq(CallerRecords) :
        /\ t = Tail(ctl) /\ <<>> \o t = t /\ Rest(t) /\ RestIntact(t)
        /\ Head(ctl) \in CallerRecords /\ Over(Head(ctl), t)
  BY AtCaller DEF EnterBody, Top
<1>2. PICK k : k = Head(ctl)
  OBVIOUS
<1>3. k.kind = "args" /\ k \in ArgsCalls /\ Over(k, t) /\ ~ OwnCall(k)
  BY <1>1, <1>2, KindSets DEF EnterBody, Top, OwnCall
<1>4. /\ env' = k.exec /\ live' = live \ {k.argf}
      /\ table' = [table EXCEPT ![k.exec] =
                     CopyFrame(CopyFrame(@, k.saved), table[k.argf])]
      /\ UNCHANGED <<outer, closures, errorVars>>
  BY <1>2 DEF EnterBody
<1>5. /\ k.exec \in FrameId /\ k.argf \in FrameId /\ k.saved \in Bindings
      /\ k.tail \in BOOLEAN
  BY <1>3 DEF ArgsCalls
<1>6. table' \in Tables /\ \A f \in FrameId : f # k.exec => table'[f] = table[f]
  <2>1. table \in Tables
    BY DEF EInv, Frames, Tables
  <2>2. \A d, e \in Bindings : CopyFrame(d, e) \in Bindings
    BY DEF CopyFrame, Bindings
  <2>3. CopyFrame(CopyFrame(table[k.exec], k.saved), table[k.argf]) \in Bindings
    BY <1>5, <2>1, <2>2 DEF Tables
  <2> QED
    BY <1>4, <1>5, <2>1, <2>3 DEF Tables
<1>7. /\ EnvOf(Under(t, 0)) \in {Global} \cup OwnedBy(t)
      /\ \A i \in DOMAIN t : ChainFrom(t, i) \subseteq {Global} \cup OwnedBy(t)
      /\ {Global} \cup OwnedBy(t) \subseteq live \cap FrameId
      /\ Global \notin OwnedBy(t)
  BY <1>1, Here
<1>8. /\ k.argf \in Owned(k) /\ k.argf \notin {Global} \cup OwnedBy(t)
      /\ env = k.at.env /\ env = EnvOf(Under(t, 0))
      /\ k.tail => k.exec = env
      /\ ~ k.tail => /\ outer[k.exec] = env /\ k.exec # k.argf
                     /\ k.exec \in live \ {Global} /\ k.exec \notin OwnedBy(t)
                     /\ Owned(k) = {k.argf, k.exec}
      /\ k.tail => Owned(k) = {k.argf}
  BY <1>3 DEF Over, Owned, OwnCall, Linked, EnvOf
<1>9. Frames'
  BY <1>4, <1>5, <1>6, <1>8 DEF EInv, Frames, Ranked, Tables, errorVars
<1>10. Rest(t)'
  <2>1. \A f \in OwnedBy(t) : outer'[f] = outer[f] /\ f \in live'
    BY <1>4, <1>7, <1>8
  <2> QED
    BY <1>1, <2>1, RestKept
<1>11. RestIntact(t)'
  <2>1. Careful' => Careful
    BY <1>4 DEF Careful, errorVars
  <2>2. outer' \in Outers
    BY <1>4 DEF EInv, Frames, Outers
  <2>3. ASSUME Careful, NEW i \in DOMAIN t, Keeps(t[i])
        PROVE  k.exec \notin ChainFrom(t, i)
    <3>1. CASE k.tail
      <4>1. Passive(Under(t, 0))
        BY <1>3, <2>3, <3>1 DEF Over, Linked, Tails, Careful
      <4> QED
        BY <1>1, <1>8, <2>3, <3>1, <4>1, DefineRegion
    <3>2. CASE ~ k.tail
      BY <1>7, <1>8, <3>2
    <3> QED
      BY <3>1, <3>2
  <2>4. ASSUME Careful, NEW i \in DOMAIN t, Keeps(t[i]), NEW f \in ChainFrom(t, i)
        PROVE  outer'[f] = outer[f] /\ table'[f] = table[f]
    <3>1. f # k.exec /\ f \in FrameId
      BY <1>7, <2>3, <2>4
    <3> QED
      BY <1>4, <1>6, <3>1
  <2> QED
    BY <1>1, <1>6, <2>1, <2>2, <2>4, RestIntactKept DEF EInv
<1>12. PICK j : j = [kind |-> "body", tail |-> k.tail, exec |-> k.exec,
                     last |-> FALSE]
  OBVIOUS
<1>13. /\ j \in CallerRecords /\ j.kind = "body"
       /\ j.tail = k.tail /\ j.exec = k.exec
  BY <1>5, <1>12 DEF CallerRecords, Bodies
<1>14. Over(j, t)'
  <2>1. EnvOf(j) = k.exec /\ ~ Keeps(j) /\ (OwnCall(j) <=> ~ k.tail)
    BY <1>13 DEF EnvOf, Keeps, HasAt, OwnCall
  <2>2. Owned(j) = IF k.tail THEN {} ELSE {k.exec}
    BY <1>13 DEF Owned, OwnCall
  <2>3. Linked(j, Under(t, 0))'
    <3>1. Tails(j) => Tails(k)
      BY <1>3, <1>13 DEF Tails
    <3> QED
      BY <1>3, <1>4, <1>8, <1>13, <2>1, <3>1 DEF Linked, Over
  <2>4. Owned(j) \subseteq live' \ {Global} /\ Owned(j) \cap OwnedBy(t) = {}
    BY <1>4, <1>8, <2>2
  <2>5. ~ failed' => live' \subseteq {Global} \cup OwnedBy(t) \cup Owned(j)
    <3>1. ~ failed' => live \subseteq {Global} \cup OwnedBy(t) \cup Owned(k)
      BY <1>3, <1>4 DEF Over, errorVars
    <3> QED
      BY <1>4, <1>8, <2>2, <3>1
  <2> QED
    BY <1>4, <1>13, <2>1, <2>3, <2>4, <2>5 DEF Over, Intact
<1>15. ctl' = <<j>> \o t
  BY <1>1, <1>2, <1>12 DEF EnterBody, Resume
<1> QED
  BY <1>9, <1>10, <1>11, <1>13, <1>14, <1>15, Resumed

LEMMA ReturnFromBodyStep ==
  ASSUME EInv, ReturnFromBody
  PROVE  EInv'
<1>1. PICK t \in Seq(CallerRecords) :
        /\ t = Tail(ctl) /\ <<>> \o t = t /\ Rest(t) /\ RestIntact(t)
        /\ Head(ctl) \in CallerRecords /\ Over(Head(ctl), t)
  BY AtCaller DEF ReturnFromBody, Top
<1>2. PICK k : k = Head(ctl)
  OBVIOUS
<1>3. k.kind = "body" /\ Over(k, t)
  BY <1>1, <1>2 DEF ReturnFromBody, Top
<1>4. UNCHANGED <<outer, table, closures, errorVars>> /\ Done /\ ctl' = t
  BY <1>1 DEF ReturnFromBody, Done, Resume
<1>5. CASE k.tail
  <2>1. UNCHANGED frameVars /\ UNCHANGED errorVars /\ closures' \subseteq Bindings
    BY <1>2, <1>4, <1>5 DEF ReturnFromBody, frameVars, EInv, Frames
  <2>2. On(t)
    BY <1>1, <1>3, <1>5 DEF On, Over, Linked, OwnCall, Owned
  <2> QED
    BY <1>1, <1>4, <2>1, <2>2, QuietDone
<1>6. CASE ~ k.tail
  <2>1. env' = outer[env] /\ live' = live \ {env}
    BY <1>2, <1>6 DEF ReturnFromBody
  <2>2. /\ Owned(k) = {env} /\ outer[env] = EnvOf(Under(t, 0))
        /\ env \notin {Global} \cup OwnedBy(t)
    BY <1>3, <1>6 DEF Over, Linked, OwnCall, Owned, EnvOf
  <2>3. /\ EnvOf(Under(t, 0)) \in {Global} \cup OwnedBy(t)
        /\ {Global} \cup OwnedBy(t) \subseteq live \cap FrameId
    BY <1>1, Here
  <2>4. Frames'
    BY <1>4, <2>1, <2>2, <2>3 DEF EInv, Frames, Ranked, errorVars
  <2>5. Rest(t)'
    <3>1. \A f \in OwnedBy(t) : outer'[f] = outer[f] /\ f \in live'
      BY <1>4, <2>1, <2>2, <2>3
    <3> QED
      BY <1>1, <3>1, RestKept
  <2>6. RestIntact(t)'
    BY <1>1, <1>4 DEF RestIntact, Careful, Intact, errorVars
  <2>7. On(t)'
    <3>1. ~ failed' => live \subseteq {Global} \cup OwnedBy(t) \cup Owned(k)
      BY <1>3, <1>4 DEF Over, errorVars
    <3> QED
      BY <2>1, <2>2, <2>5, <2>6, <3>1 DEF On
  <2> QED
    BY <1>4, <2>4, <2>7, Resumed
<1> QED
  BY <1>5, <1>6

\* The Frames that a call takes, for the record k of the operator.
LEMMA BeginCallStep ==
  ASSUME EInv, BeginCall
  PROVE  EInv'
<1>1. PICK t \in Seq(CallerRecords) :
        /\ t = Tail(ctl) /\ <<>> \o t = t /\ Rest(t) /\ RestIntact(t)
        /\ Head(ctl) \in CallerRecords /\ Over(Head(ctl), t)
  BY AtCaller DEF BeginCall, Top
<1>2. PICK k : k = Head(ctl)
  OBVIOUS
<1>3. /\ k.kind = "operator" /\ k \in ProcCalls /\ On(t)
      /\ k.tail \in BOOLEAN /\ k.sub \in BOOLEAN
  <2>1. k.kind = "operator" /\ k \in ProcCalls
    BY <1>1, <1>2, KindSets DEF BeginCall, Top
  <2> QED
    BY <1>1, <1>2, <2>1, PlainPop DEF ProcCalls
<1>4. PICK saved \in closures, argf \in FrameId \ live, f \in FrameId :
        LET exec == IF k.tail THEN env ELSE f
        IN  /\ IF k.tail THEN f = env ELSE f \notin live \cup {argf}
            /\ live' = live \cup {exec, argf}
            /\ outer' = [outer EXCEPT ![argf] = Null,
                                      ![exec] = IF k.tail THEN @ ELSE env]
            /\ table' = [table EXCEPT ![argf] = Empty,
                                      ![exec] = IF k.tail THEN @ ELSE Empty]
            /\ Resume(<<[kind |-> "args", tail |-> k.tail, sub |-> k.sub,
                         exec |-> exec, argf |-> argf, saved |-> saved,
                         left |-> Formals, waits |-> Null, at |-> At]>>)
  BY <1>2 DEF BeginCall
<1>5. /\ EnvOf(Under(t, 0)) = env
      /\ env \in {Global} \cup OwnedBy(t)
      /\ \A i \in DOMAIN t : ChainFrom(t, i) \subseteq {Global} \cup OwnedBy(t)
      /\ {Global} \cup OwnedBy(t) \subseteq live \cap FrameId
      /\ Global \notin OwnedBy(t)
  BY <1>1, <1>3, Here DEF On
<1>6. PICK exec : exec = IF k.tail THEN env ELSE f
  OBVIOUS
<1>7. /\ exec \in FrameId /\ argf \in FrameId \ live /\ exec # argf
      /\ k.tail => exec = env
      /\ ~ k.tail => exec \notin live
  BY <1>4, <1>5, <1>6
<1>8. /\ live' = live \cup {exec, argf}
      /\ UNCHANGED <<env, closures, errorVars>>
  BY <1>4, <1>6 DEF BeginCall
<1>9. /\ outer' \in Outers
      /\ outer'[argf] = Null
      /\ outer'[exec] = IF k.tail THEN outer[exec] ELSE env
      /\ \A g \in FrameId : g \notin {exec, argf} => outer'[g] = outer[g]
  <2>1. outer' = [outer EXCEPT ![argf] = Null,
                               ![exec] = IF k.tail THEN @ ELSE env]
    BY <1>4, <1>6
  <2> QED
    BY <1>5, <1>7, <2>1 DEF EInv, Frames, Outers
<1>10. /\ table' \in Tables
       /\ k.tail => table'[exec] = table[exec]
       /\ \A g \in FrameId : g \notin {exec, argf} => table'[g] = table[g]
  <2>1. table' = [table EXCEPT ![argf] = Empty,
                               ![exec] = IF k.tail THEN @ ELSE Empty]
    BY <1>4, <1>6
  <2>2. Empty \in Bindings
    BY DEF Empty, Bindings
  <2> QED
    BY <1>7, <2>1, <2>2 DEF EInv, Frames, Tables
<1>11. \A g \in {Global} \cup OwnedBy(t) :
         outer'[g] = outer[g] /\ table'[g] = table[g] /\ g \in live'
  BY <1>5, <1>7, <1>8, <1>9, <1>10
<1>12. Ranked'
  <2>1. PICK r \in [FrameId -> Nat] :
          \A g \in FrameId : outer[g] # Null => r[outer[g]] < r[g]
    BY DEF EInv, Frames, Ranked
  <2>2. CASE k.tail
    BY <1>7, <1>9, <2>1, <2>2 DEF Ranked
  <2>3. CASE ~ k.tail
    <3> DEFINE C == ChainFrom(t, 1)
               q == [g \in FrameId |-> IF g \in C THEN r[g] ELSE r[g] + r[env] + 1]
    <3>1. /\ env \in C /\ C \subseteq {Global} \cup OwnedBy(t)
          /\ \A g \in C : outer[g] # Null => outer[g] \in C
      <4>1. outer[Global] = Null
        BY DEF EInv, Frames
      <4>2. 0 \in 0..Len(t) /\ 0 + 1 = 1 /\ 1 \in Nat
        BY LenProperties
      <4> QED
        BY <1>1, <1>5, <4>1, <4>2, Reach
    <3>2. exec \notin C /\ argf \notin C /\ C \subseteq FrameId
      BY <1>5, <1>7, <2>3, <3>1
    <3> HIDE DEF C
    <3>3. q \in [FrameId -> Nat]
      BY <1>5, <2>1
    <3>4. ASSUME NEW g \in FrameId, outer'[g] # Null
          PROVE  q[outer'[g]] < q[g]
      <4>1. CASE g = exec
        <5>1. outer'[g] = env /\ env \in C /\ env \in FrameId /\ g \notin C
          BY <1>9, <2>3, <3>1, <3>2, <4>1
        <5>2. q[env] = r[env] /\ q[g] = r[g] + r[env] + 1
          BY <5>1
        <5> QED
          BY <2>1, <5>1, <5>2
      <4>2. CASE g # exec
        <5>1. g # argf /\ outer'[g] = outer[g] /\ outer[g] \in FrameId
          BY <1>9, <3>4, <4>2 DEF Outers
        <5>2. r[outer[g]] < r[g] /\ r[outer[g]] \in Nat /\ r[g] \in Nat /\ r[env] \in Nat
          BY <1>5, <2>1, <3>4, <5>1
        <5>3. g \in C => outer[g] \in C
          BY <3>1, <3>4, <5>1
        <5> QED
          BY <5>1, <5>2, <5>3
      <4> QED
        BY <4>1, <4>2
    <3> QED
      BY <3>3, <3>4 DEF Ranked
  <2> QED
    BY <1>3, <2>2, <2>3
<1>13. Frames'
  BY <1>5, <1>7, <1>8, <1>9, <1>10, <1>11, <1>12
  DEF EInv, Frames, Outers, Tables, errorVars
<1>14. Rest(t)'
  BY <1>1, <1>11, RestKept
<1>15. RestIntact(t)'
  <2>1. Careful' => Careful
    BY <1>8 DEF Careful, errorVars
  <2>2. \A i \in DOMAIN t : \A g \in ChainFrom(t, i) :
          outer'[g] = outer[g] /\ table'[g] = table[g]
    BY <1>5, <1>11
  <2> QED
    BY <1>1, <1>9, <1>10, <2>1, <2>2, RestIntactKept DEF EInv
<1>16. PICK j : j = [kind |-> "args", tail |-> k.tail, sub |-> k.sub,
                     exec |-> exec, argf |-> argf, saved |-> saved,
                     left |-> Formals, waits |-> Null, at |-> At]
  OBVIOUS
<1>17. /\ j \in CallerRecords /\ j.kind = "args"
       /\ j.tail = k.tail /\ j.sub = k.sub
       /\ j.exec = exec /\ j.argf = argf /\ j.at = At
  <2>1. saved \in Bindings /\ At \in Ats
    BY LookupType DEF EInv, Frames
  <2>2. j \in ArgsCalls
    BY <1>3, <1>7, <1>16, <2>1, NameAssumption DEF ArgsCalls
  <2> QED
    BY <1>16, <2>2 DEF CallerRecords, AtCallers
<1>18. Over(j, t)'
  <2>1. At.env = env /\ At.locals = table[env]
    BY DEF At
  <2>2. EnvOf(j) = env /\ ~ OwnCall(j)
    BY <1>17, <2>1 DEF EnvOf, OwnCall
  <2>3. Owned(j) = {argf} \cup IF k.tail THEN {} ELSE {exec}
    BY <1>17 DEF Owned, OwnCall
  <2>4. Linked(j, Under(t, 0))'
    <3>1. Tails(j) => Tails(k)
      BY <1>3, <1>17 DEF Tails
    <3>2. ~ SharedTests /\ Tails(k) => Passive(Under(t, 0))
      BY <1>1, <1>2 DEF Over, Linked
    <3> QED
      BY <1>5, <1>7, <1>9, <1>17, <2>1, <2>2, <3>1, <3>2 DEF Linked
  <2>5. Owned(j) \subseteq live' \ {Global} /\ Owned(j) \cap OwnedBy(t) = {}
    BY <1>5, <1>7, <1>8, <2>3
  <2>6. ~ failed' => live' \subseteq {Global} \cup OwnedBy(t) \cup Owned(j)
    BY <1>3, <1>5, <1>7, <1>8, <2>3 DEF On, errorVars
  <2>7. Intact(j)'
    <3>1. table'[env] = table[env]
      BY <1>5, <1>11
    <3> QED
      BY <1>17, <2>1, <3>1 DEF Intact
  <2> QED
    BY <1>8, <1>17, <2>2, <2>4, <2>5, <2>6, <2>7 DEF Over
<1>19. ctl' = <<j>> \o t
  BY <1>1, <1>4, <1>6, <1>16 DEF Resume
<1> QED
  BY <1>13, <1>14, <1>15, <1>17, <1>18, <1>19, Resumed

-----------------------------------------------------------------------------
(* The invariant holds *)

LEMMA InitInv == Init => EInv
<1> SUFFICES ASSUME Init
             PROVE  EInv
  OBVIOUS
<1>1. Frames
  <2>1. Empty \in Bindings
    BY DEF Empty, Bindings
  <2>2. Ranked
    <3>1. /\ [f \in FrameId |-> 0] \in [FrameId -> Nat]
          /\ \A f \in FrameId : outer[f] = Null
      BY DEF Init
    <3> QED
      BY <3>1 DEF Ranked
  <2> QED
    BY <2>1, <2>2, NameAssumption DEF Init, Frames
<1>2. PICK s : s = <<>>
  OBVIOUS
<1>3. s \in Seq(CallerRecords) /\ DOMAIN s = {} /\ Len(s) = 0
  BY <1>2, EmptySeq
<1>4. On(s)
  <2>1. env = EnvOf(Under(s, 0))
    BY <1>3 DEF Init, EnvOf, Under, Bottom
  <2> QED
    BY <1>3, <2>1 DEF Init, On, Rest, RestIntact
<1> QED
  BY <1>1, <1>2, <1>3, <1>4 DEF Init, EInv, Stack

LEMMA NextInv ==
  ASSUME EInv, [Next]_vars
  PROVE  EInv'
<1>1. CASE Evaluate
  BY <1>1, EvalSimpleStep, EvalLambdaStep, EvalThenStep, EvalCallStep, EvalSetStep
  DEF Evaluate
<1>2. CASE Call
  BY <1>2, CallBuiltinStep, HandleBuiltinStep, CallRefusedStep, BeginCallStep,
     EvalArgStep, BindArgStep, EnterBodyStep, EvalBodyStep, ReturnFromBodyStep
  DEF Call
<1>3. CASE Continue
  BY <1>3, ContinueThenStep, DefineLambdaStep, EvalDefineStep, DefineStep, SetStep
  DEF Continue
<1>4. CASE Input \/ Load \/ EvalToplevel
  BY <1>4, InputStep, LoadStep, EvalToplevelStep
<1>5. CASE UNCHANGED vars
  <2>1. Frames'
    BY <1>5 DEF EInv, Frames, Ranked, vars
  <2>2. \A k, b : Linked(k, b) => Linked(k, b)'
    BY <1>5 DEF Linked, vars
  <2>3. \A k : Intact(k) => Intact(k)'
    BY <1>5 DEF Intact, vars
  <2>4. \A s : On(s) => On(s)'
    BY <1>5, <2>2, <2>3 DEF On, Rest, RestIntact, Careful, vars
  <2> QED
    BY <1>5, <2>1, <2>4 DEF EInv, Stack, vars
<1> QED
  BY <1>1, <1>2, <1>3, <1>4, <1>5 DEF Next

LEMMA Invariant == Spec => []EInv
  BY InitInv, NextInv, PTL DEF Spec

-----------------------------------------------------------------------------
(* What it says of the stack *)

\* ctl is the callers s, with a record on top if one is about to be evaluated.
StackOf(s, d) ==
  /\ s \in Seq(CallerRecords) /\ Len(s) \in Nat /\ DOMAIN s = 1..Len(s)
  /\ DOMAIN ctl = 1..(Len(s) + d)
  /\ \A i \in DOMAIN s : ctl[i + d] = s[i]
  /\ d = 1 => ctl[1] \in Starters

LEMMA Shape ==
  ASSUME EInv
  PROVE  \E s \in Seq(CallerRecords), d \in {0, 1} : On(s) /\ StackOf(s, d)
<1>1. PICK s \in Seq(CallerRecords) :
        /\ On(s)
        /\ \/ ctl = s
           \/ \E e \in Starters : ctl = <<e>> \o s /\ Starts(e, Under(s, 0))
  BY DEF EInv, Stack
<1>2. Len(s) \in Nat /\ DOMAIN s = 1..Len(s)
  BY LenProperties
<1>3. CASE ctl = s
  <2>1. StackOf(s, 0)
    BY <1>2, <1>3 DEF StackOf
  <2> QED
    BY <1>1, <2>1
<1>4. ASSUME NEW e \in Starters, ctl = <<e>> \o s
      PROVE  StackOf(s, 1)
  <2>1. PICK S : S = Starters \cup CallerRecords
    OBVIOUS
  <2>2. e \in S /\ s \in Seq(S)
    <3>1. s \in [1..Len(s) -> CallerRecords]
      BY LenProperties
    <3>2. s \in [1..Len(s) -> S]
      BY <2>1, <3>1
    <3> QED
      BY <1>2, <2>1, <3>2
  <2>3. PICK u \in Seq(S) : Pushed(u, e, s)
    BY <2>2, ConsFacts
  <2> QED
    BY <1>2, <1>4, <2>3 DEF Pushed, StackOf
<1> QED
  BY <1>1, <1>3, <1>4

\* A record of the stack is a caller, or the one to be evaluated.
LEMMA RecordsOf ==
  ASSUME NEW s, NEW d \in {0, 1}, StackOf(s, d)
  PROVE  \A i \in DOMAIN ctl :
           \/ i = 1 /\ d = 1 /\ ctl[i] \in Starters
           \/ i - d \in DOMAIN s /\ ctl[i] = s[i - d] /\ ctl[i] \in CallerRecords
<1> SUFFICES ASSUME NEW i \in DOMAIN ctl, ~ (i = 1 /\ d = 1)
             PROVE  /\ i - d \in DOMAIN s /\ ctl[i] = s[i - d]
                    /\ ctl[i] \in CallerRecords
  BY DEF StackOf
<1>1. Len(s) \in Nat /\ i \in 1..(Len(s) + d)
  BY DEF StackOf
<1>2. i - d \in 1..Len(s) /\ (i - d) + d = i
  BY <1>1
<1>3. i - d \in DOMAIN s /\ ctl[i] = s[i - d]
  BY <1>2 DEF StackOf
<1> QED
  BY <1>3, ElementOfSeq DEF StackOf

LEMMA TypeInv == EInv => TypeOK
<1> SUFFICES ASSUME EInv
             PROVE  TypeOK
  OBVIOUS
<1>1. PICK S : S = Starters \cup CallerRecords
  OBVIOUS
<1>2. PICK s \in Seq(CallerRecords) :
        ctl = s \/ \E e \in Starters : ctl = <<e>> \o s
  BY DEF EInv, Stack
<1>3. s \in Seq(S)
  <2>1. /\ Len(s) \in Nat /\ DOMAIN s = 1..Len(s)
        /\ s \in [1..Len(s) -> CallerRecords]
    BY LenProperties
  <2>2. s \in [1..Len(s) -> S]
    BY <1>1, <2>1
  <2> QED
    BY <2>1, <2>2
<1>4. ASSUME NEW e \in Starters
      PROVE  <<e>> \o s \in Seq(S)
  <2>1. e \in S
    BY <1>1
  <2>2. PICK u \in Seq(S) : Pushed(u, e, s)
    BY <1>3, <2>1, ConsFacts
  <2> QED
    BY <2>2 DEF Pushed
<1>5. ctl \in Seq(S)
  BY <1>2, <1>3, <1>4
<1> QED
  BY <1>1, <1>5 DEF EInv, Frames, TypeOK

\* The fields at tell a caller that left variables.
LEMMA AtField ==
  /\ \A k \in Starters : "at" \notin DOMAIN k
  /\ \A k \in CallerRecords : "at" \in DOMAIN k => HasAt(k)
<1>1. \A k \in Starters : "at" \notin DOMAIN k
  BY DEF Starters
<1>2. \A k \in Bodies : "at" \notin DOMAIN k
  BY DEF Bodies
<1>3. \A k \in Toplevels : "at" \notin DOMAIN k
  BY DEF Toplevels
<1> QED
  BY <1>1, <1>2, <1>3, KindSets DEF Kinds, HasAt

LEMMA EnvRestoredInv == EInv => EnvRestored
<1> SUFFICES ASSUME EInv
             PROVE  EnvRestored
  OBVIOUS
<1>1. ASSUME ctl = <<>>
      PROVE  env = Global
  <2>1. PICK s \in Seq(CallerRecords), d \in {0, 1} : On(s) /\ StackOf(s, d)
    BY Shape
  <2>2. Len(s) = 0
    <3>1. DOMAIN ctl = {}
      BY <1>1
    <3>2. Len(s) \in Nat /\ 1..(Len(s) + d) = {}
      BY <2>1, <3>1 DEF StackOf
    <3>3. ~ (1 \in 1..(Len(s) + d))
      BY <3>2
    <3> QED
      BY <3>2, <3>3
  <2> QED
    BY <2>1, <2>2 DEF On, Under, Bottom, EnvOf
<1>2. ASSUME ctl # <<>>
      PROVE  LET k == Head(ctl)
             IN  /\ "at" \in DOMAIN k => env = k.at.env
                 /\ k.kind = "body" => env = k.exec
                 /\ k.kind = "toplevel" => env = k.env
  <2>1. PICK k : k = Head(ctl)
    OBVIOUS
  <2>2. CASE k \in Starters
    BY <2>1, <2>2, AtField, KindSets
  <2>3. CASE k \in CallerRecords /\ env = EnvOf(k)
    BY <2>1, <2>3, AtField DEF EnvOf, HasAt
  <2> QED
    BY <1>2, <2>1, <2>2, <2>3, Split DEF Over
<1> QED
  BY <1>1, <1>2 DEF EnvRestored

LEMMA LocalsInv == EInv /\ ~ SharedTests => LocalsIntact /\ SetHitsVariable
<1> SUFFICES ASSUME EInv, ~ SharedTests, ~ loaded, ctl # <<>>
             PROVE  /\ "at" \in DOMAIN Head(ctl) /\ ~ Spent(Head(ctl)) =>
                         table[env] = Head(ctl).at.locals
                    /\ Head(ctl).kind = "set" =>
                         Lookup(Head(ctl).var) = Head(ctl).addr
  BY DEF LocalsIntact, SetHitsVariable, Top
<1>1. PICK k : k = Head(ctl)
  OBVIOUS
<1>2. CASE k \in Starters
  BY <1>1, <1>2, AtField, KindSets
<1>3. ASSUME NEW t, k \in CallerRecords, Over(k, t)
      PROVE  /\ "at" \in DOMAIN k /\ ~ Spent(k) => table[env] = k.at.locals
             /\ k.kind = "set" => Lookup(k.var) = k.addr
  <2>1. Intact(k) /\ env = EnvOf(k)
    BY <1>3 DEF Over, Careful
  <2>2. ASSUME HasAt(k), ~ Spent(k)
        PROVE  env = k.at.env /\ table[env] = k.at.locals
    BY <2>1, <2>2 DEF Intact, Keeps, EnvOf, HasAt
  <2>3. ASSUME k.kind = "set"
        PROVE  Lookup(k.var) = k.addr
    <3>1. k.var \in Var /\ Keeps(k)
      BY <1>3, <2>3, KindSets DEF Sets, Keeps, HasAt, Spent
    <3> QED
      BY <2>1, <2>2, <2>3, <3>1, LookupType DEF Intact, Keeps
  <2> QED
    BY <1>3, <2>2, <2>3, AtField
<1> QED
  BY <1>1, <1>2, <1>3, Split

\* The Frame of the innermost call under a caller that is not a tail call is
\* the one in which the caller goes on.
LEMMA FrameBelowIs ==
  ASSUME NEW s, NEW d \in {0, 1}, Rest(s), StackOf(s, d)
  PROVE  /\ \A i \in 0..Len(s) : FrameBelow(i + 1 + d) = EnvOf(Under(s, i))
         /\ FrameBelow(1) = EnvOf(Under(s, 0))
<1> DEFINE Below(i) == {j \in PendingCalls : j >= i}
<1>1. Len(s) \in Nat /\ DOMAIN s = 1..Len(s) /\ DOMAIN ctl = 1..(Len(s) + d)
  BY DEF StackOf
<1>2. \A i \in DOMAIN s : i + d \in PendingCalls <=> OwnCall(s[i])
  BY <1>1 DEF StackOf, PendingCalls, OwnCall
<1>3. \A i : FrameBelow(i) = IF Below(i) = {} THEN Global ELSE ctl[Min(Below(i))].exec
  BY DEF FrameBelow
<1>4. /\ PendingCalls \subseteq 1..(Len(s) + d)
      /\ \A j \in PendingCalls : j \in Nat /\ j <= Len(s) + d
  <2>1. PendingCalls \subseteq 1..(Len(s) + d) /\ Len(s) + d \in Nat
    BY <1>1 DEF PendingCalls
  <2> QED
    BY <2>1
<1>5. ASSUME NEW n \in Nat, n \notin PendingCalls
      PROVE  Below(n) = Below(n + 1)
  <2>1. \A j \in PendingCalls : j >= n <=> j >= n + 1
    <3>1. \A j \in PendingCalls : j \in Nat /\ j # n
      BY <1>4, <1>5
    <3> QED
      BY <3>1
  <2> QED
    BY <2>1
<1>6. \A i \in 0..Len(s) : FrameBelow(i + 1 + d) = EnvOf(Under(s, i))
  <2> DEFINE Bad == {i \in 0..Len(s) : FrameBelow(i + 1 + d) # EnvOf(Under(s, i))}
  <2> SUFFICES ASSUME Bad # {}
               PROVE  FALSE
    OBVIOUS
  <2>1. PICK i \in Bad : \A m \in Bad : m <= i
    BY <1>1, GreatestNatural
  <2>2. i \in 0..Len(s) /\ i \in Nat
    BY <1>1
  <2>3. CASE i = Len(s)
    <3>1. Below(i + 1 + d) = {}
      <4>1. \A j \in PendingCalls : j \in Nat /\ j <= i + d
        BY <1>4, <2>3
      <4>2. \A j \in PendingCalls : ~ (j >= i + 1 + d)
        BY <2>2, <4>1
      <4> QED
        BY <4>2
    <3> QED
      BY <1>3, <2>3, <3>1 DEF Under, Bottom, EnvOf
  <2>4. CASE i # Len(s)
    <3>1. i + 1 \in 1..Len(s) /\ i + 1 \in 0..Len(s)
      <4>1. Len(s) \in Nat
        BY <1>1
      <4>2. i \in Nat /\ i <= Len(s)
        BY <2>2, <4>1
      <4> QED
        BY <2>4, <4>1, <4>2
    <3>2. Under(s, i) = s[i + 1]
      BY <2>4 DEF Under
    <3>3. ctl[(i + 1) + d] = s[i + 1] /\ (i + 1) + d = i + 1 + d
      BY <1>1, <3>1 DEF StackOf
    <3>4. CASE OwnCall(s[i + 1])
      <4>1. i + 1 + d \in PendingCalls
        BY <1>1, <1>2, <3>1, <3>3, <3>4
      <4>2. i + 1 + d \in Below(i + 1 + d) /\ \A y \in Below(i + 1 + d) : y >= i + 1 + d
        BY <2>2, <4>1
      <4>3. Min(Below(i + 1 + d)) = i + 1 + d
        <5>1. \A x \in Below(i + 1 + d) : (\A y \in Below(i + 1 + d) : x <= y) => x = i + 1 + d
          BY <1>4, <2>2, <4>2
        <5>2. \A y \in Below(i + 1 + d) : i + 1 + d <= y
          BY <1>4, <2>2, <4>2
        <5> QED
          BY <4>2, <5>1, <5>2 DEF Min
      <4>4. FrameBelow(i + 1 + d) = ctl[i + 1 + d].exec
        BY <1>3, <4>2, <4>3
      <4> QED
        BY <3>2, <3>3, <3>4, <4>4 DEF EnvOf, OwnCall
    <3>5. CASE ~ OwnCall(s[i + 1])
      <4>1. i + 1 + d \notin PendingCalls
        BY <1>1, <1>2, <3>1, <3>3, <3>5
      <4>2. Below(i + 1 + d) = Below((i + 1) + 1 + d)
        <5>1. i + 1 + d \in Nat /\ (i + 1 + d) + 1 = (i + 1) + 1 + d
          BY <2>2
        <5> QED
          BY <1>5, <4>1, <5>1
      <4>3. FrameBelow(i + 1 + d) = FrameBelow((i + 1) + 1 + d)
        BY <1>3, <4>2
      <4>4. i + 1 \notin Bad
        <5>1. ~ (i + 1 <= i)
          BY <2>2
        <5> QED
          BY <2>1, <5>1
      <4>5. FrameBelow((i + 1) + 1 + d) = EnvOf(Under(s, i + 1))
        BY <3>1, <4>4
      <4>6. EnvOf(s[i + 1]) = EnvOf(Under(s, i + 1))
        BY <1>1, <3>1, <3>5 DEF Rest, Linked
      <4> QED
        BY <3>2, <4>3, <4>5, <4>6
    <3> QED
      BY <3>4, <3>5
  <2> QED
    BY <2>3, <2>4
<1>7. FrameBelow(1 + d) = EnvOf(Under(s, 0))
  <2>1. 0 \in 0..Len(s) /\ 0 + 1 + d = 1 + d
    BY <1>1
  <2> QED
    BY <1>6, <2>1
<1>8. CASE d = 0
  BY <1>6, <1>7, <1>8
<1>9. CASE d = 1
  <2>1. 1 \notin PendingCalls
    BY <1>9, KindSets DEF StackOf, PendingCalls
  <2>2. Below(1) = Below(1 + 1)
    BY <1>5, <2>1
  <2>3. FrameBelow(1) = FrameBelow(1 + 1)
    BY <1>3, <2>2
  <2> QED
    BY <1>6, <1>7, <1>9, <2>3
<1> QED
  BY <1>8, <1>9

LEMMA ChainInv == EInv => ChainMatchesCalls
<1> SUFFICES ASSUME EInv
             PROVE  ChainMatchesCalls
  OBVIOUS
<1>1. PICK s \in Seq(CallerRecords), d \in {0, 1} : On(s) /\ StackOf(s, d)
  BY Shape
<1>2. Rest(s) /\ env = EnvOf(Under(s, 0))
  BY <1>1 DEF On
<1>3. /\ \A i \in 0..Len(s) : FrameBelow(i + 1 + d) = EnvOf(Under(s, i))
      /\ env = FrameBelow(1)
  BY <1>1, <1>2, FrameBelowIs
<1>4. ASSUME NEW i \in PendingCalls
      PROVE  /\ i - d \in DOMAIN s /\ ctl[i] = s[i - d] /\ OwnCall(s[i - d])
             /\ i \in Nat
  <2>1. ctl[i].kind = "body" /\ ~ ctl[i].tail /\ i \in DOMAIN ctl
    BY DEF PendingCalls
  <2>2. ctl[i] \notin Starters
    BY <2>1, KindSets
  <2>3. i - d \in DOMAIN s /\ ctl[i] = s[i - d]
    BY <1>1, <2>1, <2>2, RecordsOf
  <2> QED
    BY <1>1, <2>1, <2>3 DEF OwnCall, StackOf
<1>5. ASSUME NEW i \in PendingCalls
      PROVE  outer[ctl[i].exec] = FrameBelow(i + 1) /\ ctl[i].exec # Global
  <2>1. PICK n \in DOMAIN s : n = i - d /\ ctl[i] = s[n] /\ OwnCall(s[n]) /\ i \in Nat
    BY <1>4
  <2>2. outer[s[n].exec] = EnvOf(Under(s, n))
    BY <1>2, <2>1 DEF Rest, Linked
  <2>3. n \in 0..Len(s) /\ n + 1 + d = i + 1
    BY <1>1, <2>1 DEF StackOf
  <2>4. FrameBelow(i + 1) = EnvOf(Under(s, n))
    BY <1>3, <2>3
  <2>5. s[n].exec \in Owned(s[n])
    BY <2>1 DEF Owned
  <2>6. s[n].exec # Global
    BY <1>2, <2>5 DEF Rest
  <2> QED
    BY <2>1, <2>2, <2>4, <2>6
<1>6. ASSUME NEW i \in PendingCalls, NEW j \in PendingCalls,
             ctl[i].exec = ctl[j].exec
      PROVE  i = j
  <2>1. PICK n \in DOMAIN s : n = i - d /\ ctl[i] = s[n] /\ OwnCall(s[n]) /\ i \in Nat
    BY <1>4
  <2>2. PICK m \in DOMAIN s : m = j - d /\ ctl[j] = s[m] /\ OwnCall(s[m]) /\ j \in Nat
    BY <1>4
  <2>3. s[n].exec \in Owned(s[n]) /\ s[n].exec \in Owned(s[m])
    BY <1>6, <2>1, <2>2 DEF Owned
  <2>4. n = m
    BY <1>2, <2>3 DEF Rest
  <2> QED
    BY <2>1, <2>2, <2>4
<1> QED
  BY <1>3, <1>5, <1>6 DEF ChainMatchesCalls, EInv, Frames

LEMMA OwnedInv == EInv => FramesOwned
<1> SUFFICES ASSUME EInv
             PROVE  FramesOwned
  OBVIOUS
<1>1. PICK s \in Seq(CallerRecords), d \in {0, 1} : On(s) /\ StackOf(s, d)
  BY Shape
<1>2. Rest(s) /\ outer[Global] = Null /\ Global \in live
  BY <1>1 DEF On, EInv, Frames
<1>3. {Global} \cup OwnedBy(s) \subseteq live
  BY <1>2, Here
<1>4. ASSUME NEW r \in Records, r.kind \in {"args", "body"}
      PROVE  \E n \in DOMAIN s : r = s[n] /\ r \in CallerRecords
  <2>1. PICK i \in DOMAIN ctl : r = ctl[i]
    BY DEF Records, Range
  <2>2. r \notin Starters
    BY <1>4, KindSets
  <2> QED
    BY <1>1, <2>1, <2>2, RecordsOf
<1>5. ASSUME NEW r \in Records, r.kind \in {"args", "body"}
      PROVE  r.exec \in live /\ (r.kind = "args" => r.argf \in live)
  <2>1. PICK n \in DOMAIN s : r = s[n] /\ r \in CallerRecords
    BY <1>4, <1>5
  <2>2. Linked(r, Under(s, n)) /\ Owned(r) \subseteq live
    BY <1>2, <2>1 DEF Rest
  <2>3. n \in Nat /\ EnvOf(r) \in ChainFrom(s, n)
    BY <1>1, <1>2, <2>1, Reach DEF StackOf
  <2>4. EnvOf(r) \in live
    BY <1>2, <1>3, <2>3, Reach
  <2>5. r.exec \in Owned(r) \/ r.exec = EnvOf(r)
    BY <1>5, <2>2 DEF Owned, OwnCall, EnvOf, Linked
  <2>6. r.kind = "args" => r.argf \in Owned(r)
    BY DEF Owned, OwnCall
  <2> QED
    BY <2>2, <2>4, <2>5, <2>6
<1>6. NeededFrames \subseteq live
  BY <1>2, <1>5 DEF NeededFrames
<1>7. OwnedBy(s) \subseteq NeededFrames
  <2>1. ASSUME NEW n \in DOMAIN s
        PROVE  Owned(s[n]) \subseteq NeededFrames
    <3>1. n + d \in DOMAIN ctl /\ ctl[n + d] = s[n]
      BY <1>1 DEF StackOf
    <3>2. s[n] \in Records
      BY <3>1 DEF Records, Range
    <3> QED
      BY <3>2 DEF Owned, OwnCall, NeededFrames
  <2> QED
    BY <2>1 DEF OwnedBy
<1>8. ~ failed => live \subseteq NeededFrames
  BY <1>1, <1>7 DEF On, NeededFrames
<1> QED
  BY <1>6, <1>8 DEF FramesOwned

-----------------------------------------------------------------------------
(* The theorems *)

\* Every record on the C stack is a node to evaluate or a caller with what it
\* needs to go on, Frames and variables among them, and the saved
\* environments of lambdas, which copied_environment (environment.c:165) makes
\* of what frame_get_obj (environment.c:131) finds along the chain of Frames,
\* map identifiers to variables: the chain ends, whatever was released before.
THEOREM TypeCorrect == Spec => []TypeOK
  BY Invariant, TypeInv, PTL

\* For every program, errors and loads included: a caller of eval_ast that
\* gets a result back finds `environment' as it left it, the body of a
\* procedure its own Frame, and the REPL the toplevel's (eval_ast,
\* object.c:854; call_user_procedure, object.c:272).
THEOREM EnvironmentRestored == Spec => []EnvRestored
  BY Invariant, EnvRestoredInv, PTL

\* Proper tail recursion: the Frames linked by `outer' are those of the calls
\* in progress that are not tail calls, in their order, one for each, and the
\* toplevel's is the last (README.md:180).
THEOREM TailCallsTakeNoFrame == Spec => []ChainMatchesCalls
  BY Invariant, ChainInv, PTL

\* pop_frame (environment.c:119) never releases a Frame that a call in progress
\* needs, and as long as no input has failed it releases every other one.
THEOREM FramesReleased == Spec => []FramesOwned
  BY Invariant, OwnedInv, PTL

\* Unless a cond clause is only a test, a call that reuses the Frame of its
\* caller overwrites no variable that is used later: mark_tail_calls
\* (parser.c:451) marks only calls after which the body evaluates nothing.
\* An (and ..) or (or ..) that is marked because it is the last operand of a
\* tail call (parser.c:485) may overwrite the variables of that call's body if
\* `and' or `or' was defined anew; the call, Spent by then, looks at none, and
\* every other caller finds its variables.
THEOREM LocalsKept == ~ SharedTests => (Spec => []LocalsIntact)
<1>1. ~ SharedTests => (EInv => LocalsIntact)
  BY LocalsInv
<1>2. CASE ~ SharedTests
  <2>1. EInv => LocalsIntact
    BY <1>1, <1>2
  <2>2. Spec => []LocalsIntact
    BY <2>1, Invariant, PTL
  <2> QED
    BY <2>2
<1> QED
  BY <1>2

\* ... and the address that handle_set (object.c:818) found before it evaluated
\* the new value is the variable's when the value is stored there.
THEOREM SetFindsVariable == ~ SharedTests => (Spec => []SetHitsVariable)
<1>1. ~ SharedTests => (EInv => SetHitsVariable)
  BY LocalsInv
<1>2. CASE ~ SharedTests
  <2>1. EInv => SetHitsVariable
    BY <1>1, <1>2
  <2>2. Spec => []SetHitsVariable
    BY <2>1, Invariant, PTL
  <2> QED
    BY <2>2
<1> QED
  BY <1>2

\* An error that an input has met is still there when it returns: load
\* (object.c:669) is not reached after one, and nothing else in an evaluation
\* resets eval_error (main.c:99).
THEOREM ErrorsStick == Spec => ErrorSticks
<1>1. ASSUME [Next]_vars
      PROVE  [eval_error /\ ctl # <<>> => eval_error']_vars
  <2>1. CASE Evaluate
    BY <2>1 DEF Evaluate, EvalSimple, EvalLambda, EvalThen, EvalCall, EvalSet,
                Raise, errorVars
  <2>2. CASE Call
    BY <2>2 DEF Call, CallBuiltin, HandleBuiltin, CallRefused, BeginCall,
                EvalArg, BindArg, EnterBody, EvalBody, ReturnFromBody,
                Raise, errorVars
  <2>3. CASE Continue
    BY <2>3 DEF Continue, ContinueThen, DefineLambda, EvalDefine, Define, Set,
                errorVars
  <2>4. CASE Input \/ Load \/ EvalToplevel
    BY <2>4 DEF Input, Load, EvalToplevel, errorVars
  <2>5. CASE UNCHANGED vars
    BY <2>5
  <2> QED
    BY <1>1, <2>1, <2>2, <2>3, <2>4, <2>5 DEF Next
<1> QED
  BY <1>1, PTL DEF Spec, ErrorSticks
=============================================================================
