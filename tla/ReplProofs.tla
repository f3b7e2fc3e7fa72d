----------------------------- MODULE ReplProofs -----------------------------
(***************************************************************************)
(* What becomes of texts, for any number of inputs and any nesting of      *)
(* loads.  The four flags are global and every load resets them, so they   *)
(* tell of the innermost input only, and only of what it did since its     *)
(* last load: an input that is under a load is marked by loads = "after",  *)
(* and stays so until it begins the next definition or assignment.  TopInv *)
(* is what the flags do tell of the innermost input.                       *)
(***************************************************************************)
EXTENDS Repl, CommonLemmas, TLAPS

-----------------------------------------------------------------------------
(* The inductive invariant *)

Activations ==
  [text : Text, phase : {"read", "parse", "eval"}, pending : Seq(Var \cup {Local}),
   loads : {"none", "before", "after"}, faulty : BOOLEAN]

Types ==
  /\ alloc \subseteq Text \X Part
  /\ binding \in [Var -> Entry \cup {Null}]
  /\ answer \in Answer \cup {Null}
  /\ lexical_error \in BOOLEAN /\ syntax_error \in BOOLEAN
  /\ eval_error \in BOOLEAN /\ side_effect \in BOOLEAN /\ exited \in BOOLEAN
  /\ stored \subseteq Text /\ spoiled \subseteq Text
  /\ running \in Seq(Activations)

PartsOf(phase) == CASE phase = "read"  -> {"str"}
                    [] phase = "parse" -> {"str", "tokens"}
                    [] phase = "eval"  -> Part

\* The inputs under a load, and the pieces of each one.
Callers ==
  \A i \in DOMAIN running : i > 1 =>
    running[i].phase = "eval" /\ running[i].loads = "after" /\ ~running[i].faulty
OwnPieces ==
  \A i \in DOMAIN running :
    /\ alloc \cap Pieces(running[i].text)
         = {running[i].text} \X PartsOf(running[i].phase)
    /\ \A j \in DOMAIN running : running[i].text = running[j].text => i = j

\* The flags and the innermost input, k.
TopInv(k) ==
  /\ k.phase # "eval" => /\ k.text \notin Bound /\ k.pending = <<>>
                         /\ k.loads = "none" /\ ~k.faulty /\ ~eval_error
  /\ k.text \in Bound \/ k.pending # <<>> => side_effect \/ k.loads = "after"
  /\ k.faulty => syntax_error
  /\ k.loads = "none" =>
       ~lexical_error /\ (syntax_error => k.faulty \/ eval_error)

RInv ==
  /\ Types /\ Callers /\ OwnPieces
  /\ running # <<>> => TopInv(running[1])
  /\ side_effect => Running \subseteq stored
  /\ NothingLeaks /\ StoredTextsKept /\ LoadTells

-----------------------------------------------------------------------------
(* The innermost input *)

LEMMA TopFacts ==
  ASSUME RInv, ~Idle
  PROVE  /\ Top = running[1] /\ 1 \in DOMAIN running
         /\ Top \in Activations /\ Top.text \in Text /\ Top.text \in Running
         /\ TopInv(Top)
         /\ alloc \cap Pieces(Top.text) = {Top.text} \X PartsOf(Top.phase)
<1>1. running \in Seq(Activations) /\ running # <<>>
  BY DEF RInv, Types, Idle
<1>2. Top = running[1] /\ 1 \in DOMAIN running /\ Top \in Activations
  BY <1>1, StackPop DEF Top
<1>3. Top.text \in Text /\ Top.text \in Running
  BY <1>2 DEF Activations, Running
<1> QED
  BY <1>1, <1>2, <1>3 DEF RInv, OwnPieces

LEMMA BoundTexts ==
  ASSUME RInv
  PROVE  Bound \subseteq Text /\ Running \subseteq Text
<1>1. \A v \in Defined : binding[v] \in Entry
  BY DEF RInv, Types, Defined
<1>2. Bound \subseteq Text
  BY <1>1 DEF Bound, Bodies, Entry
<1>3. \A i \in DOMAIN running : running[i] \in Activations
  BY ElementOfSeq DEF RInv, Types
<1> QED
  BY <1>2, <1>3 DEF Running, Activations

\* The innermost input ends: what it needs to have told.
LEMMA LeaveStep ==
  ASSUME RInv, ~Idle, NEW stopped \in BOOLEAN, NEW parts \in SUBSET Part,
         Release(parts), Leave(stopped),
         lexical_error' \in BOOLEAN, syntax_error' \in BOOLEAN,
         eval_error' \in BOOLEAN, side_effect' = side_effect,
         Top.text \in stored \/ PartsOf(Top.phase) \subseteq parts,
         Top.text \in Bound => parts = {} \/ stopped \/ Top.loads = "after",
         stopped => ~LoadOk, Top.faulty => ~LoadOk,
         ~stopped /\ ~Top.faulty /\ Top.loads = "none" => LoadOk
  PROVE  RInv'
<1>1. /\ Top = running[1] /\ 1 \in DOMAIN running
      /\ Top \in Activations /\ Top.text \in Text
      /\ alloc \cap Pieces(Top.text) = {Top.text} \X PartsOf(Top.phase)
  BY TopFacts
<1>2. /\ running' = Tail(running) /\ alloc' = alloc \ ({Top.text} \X parts)
      /\ UNCHANGED <<binding, exited, stored, side_effect>>
  BY DEF Leave, Release
<1>3. /\ running' \in Seq(Activations) /\ running \in Seq(Activations)
      /\ \A i \in DOMAIN running' : i + 1 \in DOMAIN running /\ running'[i] = running[i + 1]
                                    /\ i \in Nat /\ i + 1 > 1 /\ i + 1 # 1
      /\ \A i \in DOMAIN running : i # 1 =>
           i - 1 \in DOMAIN running' /\ running'[i - 1] = running[i]
  <2>1. running \in Seq(Activations) /\ running # <<>>
    BY DEF RInv, Types, Idle
  <2>2. /\ running' \in Seq(Activations)
        /\ \A i \in DOMAIN running' : i + 1 \in DOMAIN running /\ running'[i] = running[i + 1]
        /\ \A i \in DOMAIN running : i # 1 =>
             i - 1 \in DOMAIN running' /\ running'[i - 1] = running[i]
    BY <1>2, <2>1, StackPop
  <2>3. \A i \in DOMAIN running' : i \in Nat /\ i + 1 > 1 /\ i + 1 # 1
    <3>1. Len(running') \in Nat /\ DOMAIN running' = 1..Len(running')
      BY <2>2, LenProperties
    <3> QED
      BY <3>1
  <2> QED
    BY <2>1, <2>2, <2>3
<1>4. Types'
  <2>1. spoiled' \subseteq Text
    BY <1>1 DEF Leave, RInv, Types
  <2>2. answer' \in Answer \cup {Null}
    <3>1. LoadOk \in BOOLEAN
      BY DEF LoadOk
    <3>2. [ok |-> LoadOk, stopped |-> stopped, faulty |-> Top.faulty,
           loads |-> Top.loads] \in Answer
      BY <1>1, <3>1 DEF Answer, Activations
    <3> QED
      BY <3>2 DEF Leave
  <2> QED
    BY <1>2, <1>3, <2>1, <2>2 DEF RInv, Types
<1>5. Callers' /\ (running' # <<>> => TopInv(running[1])')
  <2>1. \A i \in DOMAIN running' :
          /\ running'[i].phase = "eval" /\ running'[i].loads = "after"
          /\ ~running'[i].faulty
    BY <1>3 DEF RInv, Callers
  <2>2. running' # <<>> => 1 \in DOMAIN running'
    BY <1>3, StackPop
  <2> QED
    BY <2>1, <2>2 DEF Callers, TopInv
<1>6. \A i \in DOMAIN running' : running'[i].text # Top.text
  BY <1>1, <1>3 DEF RInv, OwnPieces
<1>7. \A t : t # Top.text => alloc' \cap Pieces(t) = alloc \cap Pieces(t)
  BY <1>2 DEF Pieces
<1>8. OwnPieces'
  <2>1. ASSUME NEW i \in DOMAIN running'
        PROVE  alloc' \cap Pieces(running'[i].text)
                 = {running'[i].text} \X PartsOf(running'[i].phase)
    <3>1. alloc' \cap Pieces(running'[i].text) = alloc \cap Pieces(running'[i].text)
      BY <1>6, <1>7
    <3>2. i + 1 \in DOMAIN running /\ running'[i] = running[i + 1]
      BY <1>3
    <3> QED
      BY <3>1, <3>2 DEF RInv, OwnPieces
  <2>2. ASSUME NEW i \in DOMAIN running', NEW j \in DOMAIN running',
               running'[i].text = running'[j].text
        PROVE  i = j
    <3>1. i + 1 = j + 1
      BY <1>3, <2>2 DEF RInv, OwnPieces
    <3> QED
      BY <1>3, <3>1
  <2> QED
    BY <2>1, <2>2 DEF OwnPieces
<1>9. Running' \cup {Top.text} = Running
  <2>1. \A t : t \in Running' \cup {Top.text} => t \in Running
    BY <1>1, <1>3 DEF Running
  <2>2. ASSUME NEW i \in DOMAIN running
        PROVE  running[i].text \in Running' \cup {Top.text}
    <3>1. CASE i = 1
      BY <1>1, <3>1
    <3>2. CASE i # 1
      <4>1. i - 1 \in DOMAIN running' /\ running'[i - 1] = running[i]
        BY <1>3, <3>2
      <4> QED
        BY <4>1 DEF Running
    <3> QED
      BY <3>1, <3>2
  <2>3. \A t : t \in Running => t \in Running' \cup {Top.text}
    BY <2>2 DEF Running
  <2> QED
    BY <2>1, <2>3
<1>10. NothingLeaks'
  <2>1. ASSUME NEW t \in Text \ Running', Pieces(t) \cap alloc' # {}
        PROVE  t \in stored'
    <3>1. CASE t = Top.text
      <4>1. ~(PartsOf(Top.phase) \subseteq parts)
        <5>1. PICK p : p \in alloc' /\ p \in Pieces(t)
          BY <2>1
        <5>2. p \in {Top.text} \X PartsOf(Top.phase) /\ p \notin {Top.text} \X parts
          BY <1>1, <1>2, <3>1, <5>1
        <5> QED
          BY <5>2
      <4> QED
        BY <1>2, <3>1, <4>1
    <3>2. CASE t # Top.text
      BY <1>2, <1>7, <1>9, <2>1, <3>2 DEF RInv, NothingLeaks
    <3> QED
      BY <3>1, <3>2
  <2> QED
    BY <2>1 DEF NothingLeaks
<1>11. StoredTextsKept'
  <2>1. Bound' = Bound
    BY <1>2 DEF Bound, Bodies, Defined
  <2>2. ASSUME NEW t \in Bound \ spoiled'
        PROVE  Pieces(t) \subseteq alloc'
    <3>1. t \notin spoiled
      BY <2>2 DEF Leave
    <3>2. Pieces(t) \subseteq alloc
      BY <2>2, <3>1 DEF RInv, StoredTextsKept
    <3>3. CASE t = Top.text
      <4>1. ~stopped /\ Top.loads # "after"
        BY <2>2, <3>3 DEF Leave
      <4> QED
        BY <1>2, <2>2, <3>2, <3>3, <4>1
    <3>4. CASE t # Top.text
      BY <1>7, <3>2, <3>4
    <3> QED
      BY <3>3, <3>4
  <2> QED
    BY <2>1, <2>2 DEF StoredTextsKept
<1>12. LoadTells'
  <2>1. CASE Len(running) = 1
    BY <2>1 DEF Leave, LoadTells
  <2>2. CASE Len(running) # 1
    <3>1. answer' = [ok |-> LoadOk, stopped |-> stopped, faulty |-> Top.faulty,
                     loads |-> Top.loads]
      BY <2>2 DEF Leave
    <3>2. /\ answer'.ok = LoadOk /\ answer'.stopped = stopped
          /\ answer'.faulty = Top.faulty /\ answer'.loads = Top.loads
      BY <3>1
    <3> QED
      BY <3>2 DEF LoadTells
  <2> QED
    BY <2>1, <2>2
<1>13. side_effect' => Running' \subseteq stored'
  BY <1>2, <1>9 DEF RInv
<1> QED
  BY <1>4, <1>5, <1>8, <1>10, <1>11, <1>12, <1>13 DEF RInv

\* The toplevel Frame of the next state, in terms of the one of this state.
LEMMA SameTexts ==
  ASSUME UNCHANGED binding
  PROVE  Bound' = Bound
BY DEF Bound, Bodies, Defined

\* A new input begins, at the prompt or under the callers.
LEMMA EnterStep ==
  ASSUME RInv, NEW callers \in Seq(Activations), Enter(callers),
         DOMAIN callers = DOMAIN running,
         \A i \in DOMAIN callers :
           /\ callers[i].text = running[i].text /\ running[i].phase = "eval"
           /\ callers[i].phase = "eval" /\ callers[i].loads = "after"
           /\ ~callers[i].faulty
  PROVE  RInv'
<1>1. PICK t \in Fresh :
        /\ alloc' = alloc \cup {<<t, "str">>}
        /\ running' = <<Activation(t)>> \o callers
        /\ Reset
        /\ stored' = stored \ {t} /\ spoiled' = spoiled \ {t}
        /\ answer' = Null
        /\ UNCHANGED <<binding, exited>>
  BY DEF Enter
<1>2. /\ t \in Text /\ Pieces(t) \cap alloc = {}
      /\ t \notin Bound /\ t \notin Running
  BY DEF Fresh
<1>3. PICK k \in Activations : k = Activation(t)
  <2>1. <<>> \in Seq(Var \cup {Local})
    BY EmptySeq
  <2> QED
    BY <1>2, <2>1 DEF Activation, Activations
<1>4. /\ k.text = t /\ k.phase = "read" /\ k.pending = <<>>
      /\ k.loads = "none" /\ ~k.faulty
  BY <1>3 DEF Activation
<1>5. PICK s \in Seq(Activations) : Pushed(s, k, callers)
  BY ConsFacts
<1>6. running' = s
  BY <1>1, <1>3, <1>5 DEF Pushed
<1>7. /\ running' \in Seq(Activations) /\ 1 \in DOMAIN running' /\ running'[1] = k
      /\ \A i \in DOMAIN running' : i # 1 =>
           /\ i - 1 \in DOMAIN running /\ running'[i] = callers[i - 1]
           /\ i \in Nat /\ i > 1
      /\ \A i \in DOMAIN running :
           /\ i + 1 \in DOMAIN running' /\ running'[i + 1] = callers[i]
           /\ i + 1 # 1
  <2>1. /\ Len(callers) \in Nat /\ DOMAIN callers = 1..Len(callers)
        /\ DOMAIN s = 1..(Len(callers) + 1)
        /\ s[1] = k /\ \A i \in 1..Len(callers) : s[i + 1] = callers[i]
    BY <1>5 DEF Pushed
  <2>2. \A i \in 1..(Len(callers) + 1) : i # 1 =>
          i - 1 \in 1..Len(callers) /\ (i - 1) + 1 = i /\ i \in Nat /\ i > 1
    BY <2>1
  <2>3. \A i \in 1..Len(callers) : i + 1 \in 1..(Len(callers) + 1) /\ i + 1 # 1
    BY <2>1
  <2>4. 1 \in 1..(Len(callers) + 1)
    BY <2>1
  <2>5. \A i \in 1..(Len(callers) + 1) : i # 1 => s[i] = callers[i - 1]
    BY <2>1, <2>2
  <2> QED
    BY <1>6, <2>1, <2>2, <2>3, <2>4, <2>5
<1>8. /\ ~lexical_error' /\ ~syntax_error' /\ ~eval_error' /\ ~side_effect'
      /\ {lexical_error', syntax_error', eval_error', side_effect'} \subseteq BOOLEAN
  BY <1>1 DEF Reset
<1>9. Types'
  <2>1. alloc' \subseteq Text \X Part
    BY <1>1, <1>2 DEF RInv, Types, Part
  <2> QED
    BY <1>1, <1>7, <1>8, <2>1 DEF RInv, Types
<1>10. Callers'
  <2>1. ASSUME NEW i \in DOMAIN running', i > 1
        PROVE  /\ running'[i].phase = "eval" /\ running'[i].loads = "after"
               /\ ~running'[i].faulty
    <3>1. i # 1
      BY <2>1
    <3> QED
      BY <1>7, <3>1
  <2> QED
    BY <2>1 DEF Callers
<1>11. \A i \in DOMAIN running' : i # 1 =>
         /\ i - 1 \in DOMAIN running /\ running'[i].text = running[i - 1].text
         /\ running'[i].phase = running[i - 1].phase /\ running'[i].text # t
  BY <1>2, <1>7 DEF Running
<1>12. \A u : u # t => Pieces(u) \cap alloc' = Pieces(u) \cap alloc
  BY <1>1 DEF Pieces
<1>13. OwnPieces'
  <2>1. ASSUME NEW i \in DOMAIN running'
        PROVE  alloc' \cap Pieces(running'[i].text)
                 = {running'[i].text} \X PartsOf(running'[i].phase)
    <3>1. CASE i = 1
      <4>1. alloc' \cap Pieces(t) = {<<t, "str">>}
        BY <1>1, <1>2 DEF Pieces, Part
      <4>2. PartsOf("read") = {"str"}
        BY DEF PartsOf
      <4>3. {t} \X {"str"} = {<<t, "str">>}
        OBVIOUS
      <4> QED
        BY <1>4, <1>7, <3>1, <4>1, <4>2, <4>3
    <3>2. CASE i # 1
      <4>1. alloc \cap Pieces(running[i - 1].text)
              = {running[i - 1].text} \X PartsOf(running[i - 1].phase)
        BY <1>11, <3>2 DEF RInv, OwnPieces
      <4>2. /\ running'[i].text = running[i - 1].text /\ running'[i].text # t
            /\ running'[i].phase = running[i - 1].phase
        BY <1>11, <3>2
      <4> QED
        BY <1>12, <4>1, <4>2
    <3> QED
      BY <3>1, <3>2
  <2>2. ASSUME NEW i \in DOMAIN running', NEW j \in DOMAIN running',
               running'[i].text = running'[j].text
        PROVE  i = j
    <3>1. CASE i = 1 \/ j = 1
      BY <1>4, <1>7, <1>11, <2>2, <3>1
    <3>2. CASE i # 1 /\ j # 1
      <4>1. /\ i - 1 \in DOMAIN running /\ j - 1 \in DOMAIN running
            /\ running[i - 1].text = running[j - 1].text
        BY <1>11, <2>2, <3>2
      <4>2. i - 1 = j - 1
        BY <4>1 DEF RInv, OwnPieces
      <4> QED
        BY <1>7, <3>2, <4>2
    <3> QED
      BY <3>1, <3>2
  <2> QED
    BY <2>1, <2>2 DEF OwnPieces
<1>14. Bound' = Bound
  BY <1>1, SameTexts
<1>15. TopInv(running[1])'
  BY <1>2, <1>4, <1>7, <1>8, <1>14 DEF TopInv
<1>16. Running \cup {t} \subseteq Running'
  <2>1. ASSUME NEW i \in DOMAIN running
        PROVE  running[i].text \in Running'
    <3>1. i + 1 \in DOMAIN running' /\ running'[i + 1].text = running[i].text
      BY <1>7
    <3> QED
      BY <3>1 DEF Running
  <2>2. t \in Running'
    BY <1>4, <1>7 DEF Running
  <2> QED
    BY <2>1, <2>2 DEF Running
<1>17. NothingLeaks'
  BY <1>1, <1>12, <1>16 DEF RInv, NothingLeaks
<1>18. StoredTextsKept'
  BY <1>1, <1>2, <1>14 DEF RInv, StoredTextsKept
<1>19. LoadTells'
  BY <1>1 DEF LoadTells
<1> QED
  BY <1>8, <1>9, <1>10, <1>13, <1>15, <1>17, <1>18, <1>19 DEF RInv

-----------------------------------------------------------------------------
(* Evaluation *)

\* All the pieces of a text that is being evaluated, or that waits for a load,
\* are there.
LEMMA RunningTexts ==
  ASSUME RInv, InPhase("eval")
  PROVE  \A t \in Running : Pieces(t) \subseteq alloc
<1>1. Top = running[1] /\ Top.phase = "eval"
  BY TopFacts DEF InPhase
<1>2. ASSUME NEW i \in DOMAIN running
      PROVE  Pieces(running[i].text) \subseteq alloc
  <2>1. running[i].phase = "eval"
    <3>1. i \in Nat /\ (i = 1 \/ i > 1)
      <4>1. Len(running) \in Nat /\ DOMAIN running = 1..Len(running)
        BY LenProperties DEF RInv, Types
      <4> QED
        BY <4>1
    <3> QED
      BY <1>1, <3>1 DEF RInv, Callers
  <2>2. PartsOf("eval") = Part
    BY DEF PartsOf
  <2>3. alloc \cap Pieces(running[i].text) = {running[i].text} \X Part
    BY <2>1, <2>2 DEF RInv, OwnPieces
  <2> QED
    BY <2>3 DEF Pieces
<1> QED
  BY <1>2 DEF Running

\* What the toplevel Frame points into after frame_insert_obj.
LEMMA BindBound ==
  ASSUME RInv, ~Idle, NEW v \in Var, NEW body \in Text \cup {Null}, Bind(v, body)
  PROVE  /\ binding' \in [Var -> Entry \cup {Null}]
         /\ Bound' \subseteq Bound \cup {Top.text} \cup ({body} \ {Null})
<1>1. PICK e : e = [key |-> IF v \in Defined THEN binding[v].key ELSE Top.text,
                    body |-> body]
  OBVIOUS
<1>2. binding \in [Var -> Entry \cup {Null}] /\ Top.text \in Text
  BY TopFacts DEF RInv, Types
<1>3. e.body = body
  BY <1>1
<1>4. /\ e.key = Top.text \/ (v \in Defined /\ e.key = binding[v].key)
      /\ e \in Entry
  <2>1. CASE v \in Defined
    <3>1. binding[v].key \in Text \cup {Static}
      BY <1>2, <2>1 DEF Defined, Entry
    <3> QED
      BY <1>1, <2>1, <3>1 DEF Entry
  <2>2. CASE v \notin Defined
    BY <1>1, <1>2, <2>2 DEF Entry
  <2> QED
    BY <2>1, <2>2
<1>5. binding' = [binding EXCEPT ![v] = e]
  BY <1>1 DEF Bind
<1>6. binding' \in [Var -> Entry \cup {Null}]
  BY <1>2, <1>4, <1>5
<1>7. binding'[v] = e /\ \A w \in Var : w # v => binding'[w] = binding[w]
  BY <1>2, <1>5
<1>8. ASSUME NEW w \in Defined', binding'[w].body # Null
      PROVE  binding'[w].body \in Bound \cup ({body} \ {Null})
  <2>1. CASE w = v
    BY <1>3, <1>7, <1>8, <2>1
  <2>2. CASE w # v
    <3>1. w \in Defined /\ binding'[w] = binding[w]
      BY <1>7, <2>2 DEF Defined
    <3> QED
      BY <1>8, <3>1 DEF Bound, Bodies
  <2> QED
    BY <2>1, <2>2
<1>9. ASSUME NEW w \in Defined', binding'[w].key # Static
      PROVE  binding'[w].key \in Bound \cup {Top.text}
  <2>1. CASE w = v
    BY <1>4, <1>7, <1>9, <2>1 DEF Bound
  <2>2. CASE w # v
    <3>1. w \in Defined /\ binding'[w] = binding[w]
      BY <1>7, <2>2 DEF Defined
    <3> QED
      BY <1>9, <3>1 DEF Bound
  <2> QED
    BY <2>1, <2>2
<1>10. Bound' \subseteq Bound \cup {Top.text} \cup ({body} \ {Null})
  BY <1>8, <1>9 DEF Bound, Bodies
<1> QED
  BY <1>6, <1>10

\* The innermost input goes on as a.
LEMMA TopReplaced ==
  ASSUME RInv, ~Idle, NEW a \in Activations, a.text = Top.text,
         running' = [running EXCEPT ![1] = a]
  PROVE  /\ running' \in Seq(Activations) /\ running' # <<>> /\ running'[1] = a
         /\ DOMAIN running' = DOMAIN running
         /\ \A i \in DOMAIN running :
              /\ i # 1 => running'[i] = running[i]
              /\ running'[i].text = running[i].text
         /\ Running' = Running
<1>1. /\ running \in Seq(Activations) /\ 1 \in DOMAIN running /\ Top = running[1]
  BY TopFacts DEF RInv, Types
<1>2. running' \in Seq(Activations)
  BY <1>1, ExceptSeq
<1>3. DOMAIN running' = DOMAIN running /\ running'[1] = a
      /\ \A i \in DOMAIN running : i # 1 => running'[i] = running[i]
  BY <1>1
<1>4. running' # <<>>
  BY <1>1, <1>3, EmptySeq
<1>5. \A i \in DOMAIN running : running'[i].text = running[i].text
  BY <1>1, <1>3
<1>6. Running' = Running
  BY <1>3, <1>5 DEF Running
<1> QED
  BY <1>2, <1>3, <1>4, <1>5, <1>6

\* An input evaluates something: it goes on as a, with the flags set as they
\* are, and the toplevel Frame may now point into texts of inputs not yet over.
LEMMA EvalStep ==
  ASSUME RInv, InPhase("eval"), NEW a \in Activations,
         a.text = Top.text, a.phase = "eval",
         running' = [running EXCEPT ![1] = a],
         UNCHANGED <<alloc, exited, spoiled, answer>>,
         binding' \in [Var -> Entry \cup {Null}], Bound' \subseteq Bound \cup Running,
         lexical_error' \in BOOLEAN, syntax_error' \in BOOLEAN,
         eval_error' \in BOOLEAN, side_effect' \in BOOLEAN,
         stored \subseteq stored', stored' \subseteq Text,
         side_effect' => Running \subseteq stored',
         TopInv(a)'
  PROVE  RInv'
<1>1. ~Idle /\ Top.phase = "eval"
  BY DEF InPhase
<1>2. /\ running' \in Seq(Activations) /\ running' # <<>> /\ running'[1] = a
      /\ DOMAIN running' = DOMAIN running
      /\ \A i \in DOMAIN running :
           /\ i # 1 => running'[i] = running[i]
           /\ running'[i].text = running[i].text
      /\ Running' = Running
  BY <1>1, TopReplaced
<1>3. /\ Top = running[1] /\ Running \subseteq Text
  BY <1>1, TopFacts, BoundTexts
<1>4. Types'
  BY <1>2 DEF RInv, Types
<1>5. Callers'
  <2>1. ASSUME NEW i \in DOMAIN running', i > 1
        PROVE  running'[i] = running[i] /\ i \in DOMAIN running
    <3>1. i # 1
      BY <2>1
    <3> QED
      BY <1>2, <3>1
  <2> QED
    BY <2>1 DEF RInv, Callers
<1>6. OwnPieces'
  <2>1. ASSUME NEW i \in DOMAIN running
        PROVE  running'[i].phase = running[i].phase
    BY <1>1, <1>2, <1>3
  <2>2. ASSUME NEW i \in DOMAIN running'
        PROVE  alloc' \cap Pieces(running'[i].text)
                 = {running'[i].text} \X PartsOf(running'[i].phase)
    BY <1>2, <2>1 DEF RInv, OwnPieces
  <2>3. ASSUME NEW i \in DOMAIN running', NEW j \in DOMAIN running',
               running'[i].text = running'[j].text
        PROVE  i = j
    BY <1>2, <2>3 DEF RInv, OwnPieces
  <2> QED
    BY <2>2, <2>3 DEF OwnPieces
<1>7. TopInv(running[1])'
  BY <1>2 DEF TopInv
<1>8. NothingLeaks'
  BY <1>2 DEF RInv, NothingLeaks
<1>9. StoredTextsKept'
  BY RunningTexts DEF RInv, StoredTextsKept
<1>10. LoadTells'
  BY DEF RInv, LoadTells
<1> QED
  BY <1>2, <1>4, <1>5, <1>6, <1>7, <1>8, <1>9, <1>10 DEF RInv

\* A definition or an assignment begins.
LEMMA BeginStep ==
  ASSUME RInv, Evaluating, NEW pending \in Seq(Var \cup {Local}), NEW faulty \in BOOLEAN,
         Begin(pending, faulty),
         UNCHANGED <<alloc, lexical_error, eval_error, exited, spoiled, answer>>,
         binding' \in [Var -> Entry \cup {Null}], Bound' \subseteq Bound \cup Running,
         syntax_error' \in BOOLEAN, faulty => syntax_error',
         syntax_error' /\ ~faulty => syntax_error /\ ~Top.faulty
  PROVE  RInv'
<1>1. /\ ~Idle /\ InPhase("eval") /\ ~eval_error /\ Top.phase = "eval"
      /\ Top \in Activations /\ Top = running[1] /\ TopInv(Top)
      /\ running \in Seq(Activations) /\ 1 \in DOMAIN running
  BY TopFacts DEF Evaluating, InPhase, RInv, Types
<1>2. PICK a : a = [Top EXCEPT !.pending = pending, !.faulty = faulty,
                               !.loads = IF @ = "none" THEN @ ELSE "before"]
  OBVIOUS
<1>3. /\ a \in Activations /\ a.text = Top.text /\ a.phase = "eval"
      /\ a.faulty = faulty /\ (a.loads = "none" => Top.loads = "none")
  BY <1>1, <1>2 DEF Activations
<1>4. running' = [running EXCEPT ![1] = a]
  BY <1>1, <1>2 DEF Begin
<1>5. side_effect' /\ side_effect' \in BOOLEAN /\ stored' = stored \cup Running
  BY DEF Begin
<1>6. stored' \subseteq Text
  BY <1>5, BoundTexts DEF RInv, Types
<1>7. TopInv(a)'
  BY <1>1, <1>3, <1>5 DEF TopInv
<1>8. lexical_error' \in BOOLEAN /\ eval_error' \in BOOLEAN
  BY DEF RInv, Types
<1> QED
  BY <1>1, <1>3, <1>4, <1>5, <1>6, <1>7, <1>8, EvalStep

LEMMA PendStep ==
  ASSUME RInv, NEW v \in Var \cup {Local}, Pend(v)
  PROVE  RInv'
<1>1. /\ Evaluating /\ Begin(<<v>> \o Top.pending, Top.faulty)
      /\ UNCHANGED <<alloc, binding, errors, exited, spoiled, answer>>
  BY DEF Pend
<1>2. Top \in Activations /\ TopInv(Top)
  BY <1>1, TopFacts DEF Evaluating, InPhase
<1>3. <<v>> \o Top.pending \in Seq(Var \cup {Local}) /\ Top.faulty \in BOOLEAN
  <2>1. PICK t \in Seq(Var \cup {Local}) : t = Top.pending
    BY <1>2 DEF Activations
  <2>2. PICK s \in Seq(Var \cup {Local}) : Pushed(s, v, t)
    BY ConsFacts
  <2>3. s = <<v>> \o Top.pending
    BY <2>1, <2>2 DEF Pushed
  <2> QED
    BY <1>2, <2>3 DEF Activations
<1>4. Bound' = Bound
  BY <1>1, SameTexts
<1>5. Top.faulty => syntax_error
  BY <1>2 DEF TopInv
<1>6. binding' \in [Var -> Entry \cup {Null}] /\ syntax_error' \in BOOLEAN
  BY <1>1 DEF errors, RInv, Types
<1> QED
  BY <1>1, <1>3, <1>4, <1>5, <1>6, BeginStep DEF errors

LEMMA DefineLambdaStep ==
  ASSUME RInv, NEW v \in Var, DefineLambda(v)
  PROVE  RInv'
<1>1. /\ Evaluating /\ Begin(Top.pending, Top.faulty) /\ Bind(v, Top.text)
      /\ UNCHANGED <<alloc, errors, exited, spoiled, answer>>
  BY DEF DefineLambda
<1>2. /\ ~Idle /\ Top \in Activations /\ TopInv(Top)
      /\ Top.text \in Text /\ Top.text \in Running
  BY <1>1, TopFacts DEF Evaluating, InPhase
<1>3. Top.pending \in Seq(Var \cup {Local}) /\ Top.faulty \in BOOLEAN
  BY <1>2 DEF Activations
<1>4. /\ binding' \in [Var -> Entry \cup {Null}]
      /\ Bound' \subseteq Bound \cup Running
  BY <1>1, <1>2, BindBound
<1>5. Top.faulty => syntax_error
  BY <1>2 DEF TopInv
<1>6. syntax_error' \in BOOLEAN
  BY <1>1 DEF errors, RInv, Types
<1> QED
  BY <1>1, <1>3, <1>4, <1>5, <1>6, BeginStep DEF errors

LEMMA SetUnboundStep ==
  ASSUME RInv, SetUnbound
  PROVE  RInv'
<1>1. /\ Evaluating /\ Begin(Top.pending, TRUE) /\ syntax_error' = TRUE
      /\ UNCHANGED <<alloc, binding, lexical_error, eval_error, exited, spoiled, answer>>
  BY DEF SetUnbound
<1>2. Top.pending \in Seq(Var \cup {Local})
  BY <1>1, TopFacts DEF Evaluating, InPhase, Activations
<1>3. Bound' = Bound /\ binding' \in [Var -> Entry \cup {Null}]
  BY <1>1, SameTexts DEF RInv, Types
<1> QED
  BY <1>1, <1>2, <1>3, BeginStep

LEMMA EndStoreStep ==
  ASSUME RInv, NEW v \in Var \cup {Local}, EndStore(v)
  PROVE  RInv'
<1>1. /\ Evaluating /\ Top.pending # <<>>
      /\ running' = [running EXCEPT ![1].pending = Tail(@)]
      /\ UNCHANGED <<alloc, flags, exited, ghosts>>
  BY DEF EndStore
<1>2. /\ ~Idle /\ InPhase("eval") /\ ~eval_error /\ Top.phase = "eval"
      /\ Top \in Activations /\ Top = running[1] /\ TopInv(Top)
      /\ Top.text \in Running
      /\ running \in Seq(Activations) /\ 1 \in DOMAIN running
  BY <1>1, TopFacts DEF Evaluating, InPhase, RInv, Types
<1>3. PICK a : a = [Top EXCEPT !.pending = Tail(@)]
  OBVIOUS
<1>4. Tail(Top.pending) \in Seq(Var \cup {Local})
  BY <1>1, <1>2, StackPop DEF Activations
<1>5. /\ a \in Activations /\ a.text = Top.text /\ a.phase = "eval"
      /\ a.faulty = Top.faulty /\ a.loads = Top.loads
  BY <1>2, <1>3, <1>4 DEF Activations
<1>6. running' = [running EXCEPT ![1] = a]
  BY <1>1, <1>2, <1>3
<1>7. binding' \in [Var -> Entry \cup {Null}] /\ Bound' \subseteq Bound \cup Running
  <2>1. CASE v = Local
    <3>1. UNCHANGED binding
      BY <2>1 DEF EndStore
    <3> QED
      BY <3>1, SameTexts DEF RInv, Types
  <2>2. CASE v # Local
    <3>1. PICK body \in Running \cup Bodies \cup {Null} : Bind(v, body)
      BY <2>2 DEF EndStore
    <3>2. body \in Text \cup {Null} /\ v \in Var
      BY <2>2, BoundTexts DEF Bound
    <3>3. body \in Bound \cup Running \cup {Null}
      BY DEF Bound
    <3> QED
      BY <1>2, <3>1, <3>2, <3>3, BindBound
  <2> QED
    BY <2>1, <2>2
<1>8. side_effect \/ Top.loads = "after"
  BY <1>1, <1>2 DEF TopInv
<1>9. TopInv(a)'
  BY <1>1, <1>2, <1>5, <1>8 DEF TopInv, flags
<1>10. /\ lexical_error' \in BOOLEAN /\ syntax_error' \in BOOLEAN
       /\ eval_error' \in BOOLEAN /\ side_effect' \in BOOLEAN
       /\ stored' = stored /\ stored' \subseteq Text
       /\ (side_effect' => Running \subseteq stored')
  BY <1>1 DEF flags, ghosts, RInv, Types
<1> QED
  BY <1>1, <1>2, <1>5, <1>6, <1>7, <1>9, <1>10, EvalStep DEF ghosts

LEMMA RaiseStep ==
  ASSUME RInv, Raise
  PROVE  RInv'
<1>1. /\ Evaluating /\ syntax_error' = TRUE /\ eval_error' = TRUE
      /\ UNCHANGED <<alloc, binding, running, lexical_error, side_effect, exited, ghosts>>
  BY DEF Raise
<1>2. /\ ~Idle /\ InPhase("eval") /\ Top.phase = "eval"
      /\ Top \in Activations /\ Top = running[1] /\ TopInv(Top)
      /\ running \in Seq(Activations) /\ 1 \in DOMAIN running
  BY <1>1, TopFacts DEF Evaluating, InPhase, RInv, Types
<1>3. running' = [running EXCEPT ![1] = Top]
  <2>1. [running EXCEPT ![1] = running[1]] = running
    BY <1>2
  <2> QED
    BY <1>1, <1>2, <2>1
<1>4. Bound' = Bound /\ binding' \in [Var -> Entry \cup {Null}]
  BY <1>1, SameTexts DEF RInv, Types
<1>5. PICK a : a = Top
  OBVIOUS
<1>6. TopInv(a)'
  BY <1>1, <1>2, <1>4, <1>5 DEF TopInv
<1>7. /\ lexical_error' \in BOOLEAN /\ syntax_error' \in BOOLEAN
      /\ eval_error' \in BOOLEAN /\ side_effect' \in BOOLEAN
      /\ stored' = stored /\ stored' \subseteq Text
      /\ (side_effect' => Running \subseteq stored')
  BY <1>1 DEF ghosts, RInv, Types
<1> QED
  BY <1>1, <1>2, <1>3, <1>4, <1>5, <1>6, <1>7, EvalStep DEF ghosts

-----------------------------------------------------------------------------
(* Entering, reading and leaving *)

LEMMA InputStep ==
  ASSUME RInv, Input
  PROVE  RInv'
<1>1. running = <<>> /\ Enter(<<>>)
  BY DEF Input, Idle
<1>2. PICK callers : callers = <<>>
  OBVIOUS
<1>3. callers \in Seq(Activations) /\ Enter(callers) /\ DOMAIN callers = DOMAIN running
      /\ DOMAIN callers = {}
  BY <1>1, <1>2, EmptySeq
<1> QED
  BY <1>3, EnterStep

LEMMA LoadStep ==
  ASSUME RInv, Load
  PROVE  RInv'
<1>1. /\ Evaluating
      /\ Enter([running EXCEPT ![1].loads = "after", ![1].faulty = FALSE])
  BY DEF Load
<1>2. /\ ~Idle /\ Top.phase = "eval" /\ Top \in Activations /\ Top = running[1]
      /\ running \in Seq(Activations) /\ 1 \in DOMAIN running
  BY <1>1, TopFacts DEF Evaluating, InPhase, RInv, Types
<1>3. PICK a : a = [Top EXCEPT !.loads = "after", !.faulty = FALSE]
  OBVIOUS
<1>4. /\ a \in Activations /\ a.text = Top.text /\ a.phase = "eval"
      /\ a.loads = "after" /\ ~a.faulty
  BY <1>2, <1>3 DEF Activations
<1>5. PICK callers : callers = [running EXCEPT ![1] = a]
  OBVIOUS
<1>6. Enter(callers)
  <2>1. callers = [running EXCEPT ![1].loads = "after", ![1].faulty = FALSE]
    BY <1>2, <1>3, <1>5
  <2> QED
    BY <1>1, <2>1
<1>7. callers \in Seq(Activations)
  BY <1>2, <1>4, <1>5, ExceptSeq
<1>8. /\ DOMAIN callers = DOMAIN running /\ callers[1] = a
      /\ \A i \in DOMAIN running : i # 1 => callers[i] = running[i]
  BY <1>2, <1>5
<1>9. ASSUME NEW i \in DOMAIN callers
      PROVE  /\ callers[i].text = running[i].text /\ running[i].phase = "eval"
             /\ callers[i].phase = "eval" /\ callers[i].loads = "after"
             /\ ~callers[i].faulty
  <2>1. CASE i = 1
    BY <1>2, <1>4, <1>8, <2>1
  <2>2. CASE i # 1
    <3>1. i \in Nat /\ i > 1
      <4>1. Len(running) \in Nat /\ DOMAIN running = 1..Len(running)
        BY <1>2, LenProperties
      <4> QED
        BY <1>8, <2>2, <4>1
    <3> QED
      BY <1>8, <2>2, <3>1 DEF RInv, Callers
  <2> QED
    BY <2>1, <2>2
<1> QED
  BY <1>6, <1>7, <1>8, <1>9, EnterStep

\* The text of the innermost input gets its next piece.
LEMMA ReadStep ==
  ASSUME RInv, NEW p \in {"read", "parse"}, InPhase(p),
         NEW q \in {"parse", "eval"}, NEW part \in Part,
         PartsOf(q) = PartsOf(p) \cup {part},
         alloc' = alloc \cup {<<Top.text, part>>}, Goto(q),
         UNCHANGED <<binding, flags, exited, ghosts>>
  PROVE  RInv'
<1>1. /\ ~Idle /\ Top.phase = p /\ Top \in Activations /\ Top.text \in Text
      /\ Top = running[1] /\ TopInv(Top)
      /\ alloc \cap Pieces(Top.text) = {Top.text} \X PartsOf(p)
      /\ running \in Seq(Activations) /\ 1 \in DOMAIN running
  BY TopFacts DEF InPhase, RInv, Types
<1>2. PICK a : a = [Top EXCEPT !.phase = q]
  OBVIOUS
<1>3. /\ a \in Activations /\ a.text = Top.text /\ a.phase = q
      /\ a.pending = Top.pending /\ a.loads = Top.loads /\ a.faulty = Top.faulty
  BY <1>1, <1>2 DEF Activations
<1>4. running' = [running EXCEPT ![1] = a]
  BY <1>1, <1>2 DEF Goto
<1>5. /\ running' \in Seq(Activations) /\ running' # <<>> /\ running'[1] = a
      /\ DOMAIN running' = DOMAIN running
      /\ \A i \in DOMAIN running :
           /\ i # 1 => running'[i] = running[i]
           /\ running'[i].text = running[i].text
      /\ Running' = Running
  BY <1>1, <1>3, <1>4, TopReplaced
<1>6. Bound' = Bound
  BY SameTexts
<1>7. /\ UNCHANGED <<binding, exited, stored, spoiled, answer>>
      /\ UNCHANGED <<lexical_error, syntax_error, eval_error, side_effect>>
  BY DEF flags, ghosts
<1>8. Types'
  <2>1. alloc' \subseteq Text \X Part
    BY <1>1 DEF RInv, Types
  <2> QED
    BY <1>5, <1>7, <2>1 DEF RInv, Types
<1>9. Callers'
  <2>1. ASSUME NEW i \in DOMAIN running', i > 1
        PROVE  running'[i] = running[i] /\ i \in DOMAIN running
    <3>1. i # 1
      BY <2>1
    <3> QED
      BY <1>5, <3>1
  <2> QED
    BY <2>1 DEF RInv, Callers
<1>10. \A t : t # Top.text => alloc' \cap Pieces(t) = alloc \cap Pieces(t)
  BY DEF Pieces
<1>11. OwnPieces'
  <2>1. ASSUME NEW i \in DOMAIN running'
        PROVE  alloc' \cap Pieces(running'[i].text)
                 = {running'[i].text} \X PartsOf(running'[i].phase)
    <3>1. CASE i = 1
      <4>1. alloc' \cap Pieces(Top.text)
              = (alloc \cap Pieces(Top.text)) \cup {<<Top.text, part>>}
        BY DEF Pieces
      <4>2. {Top.text} \X (PartsOf(p) \cup {part})
              = ({Top.text} \X PartsOf(p)) \cup {<<Top.text, part>>}
        OBVIOUS
      <4> QED
        BY <1>1, <1>3, <1>5, <3>1, <4>1, <4>2
    <3>2. CASE i # 1
      <4>1. running'[i] = running[i] /\ i \in DOMAIN running
        BY <1>5, <3>2
      <4>2. running[i].text # Top.text
        BY <1>1, <3>2, <4>1 DEF RInv, OwnPieces
      <4> QED
        BY <1>10, <4>1, <4>2 DEF RInv, OwnPieces
    <3> QED
      BY <3>1, <3>2
  <2>2. ASSUME NEW i \in DOMAIN running', NEW j \in DOMAIN running',
               running'[i].text = running'[j].text
        PROVE  i = j
    BY <1>5, <2>2 DEF RInv, OwnPieces
  <2> QED
    BY <2>1, <2>2 DEF OwnPieces
<1>12. TopInv(running[1])'
  <2>1. Top.phase # "eval"
    BY <1>1
  <2> QED
    BY <1>1, <1>3, <1>5, <1>6, <1>7, <2>1 DEF TopInv
<1>13. NothingLeaks'
  <2>1. \A t \in Text \ Running' : t # Top.text
    BY <1>1, <1>5, TopFacts
  <2> QED
    BY <1>5, <1>7, <1>10, <2>1 DEF RInv, NothingLeaks
<1>14. StoredTextsKept'
  BY <1>6, <1>7 DEF RInv, StoredTextsKept
<1>15. LoadTells' /\ (side_effect' => Running' \subseteq stored')
  BY <1>5, <1>7 DEF RInv, LoadTells
<1> QED
  BY <1>5, <1>8, <1>9, <1>11, <1>12, <1>13, <1>14, <1>15 DEF RInv

\* The ends of evaluate_string: after a failure, after nothing but blanks, or
\* after the evaluation.
LEMMA TokenizeFailsStep ==
  ASSUME RInv, TokenizeFails
  PROVE  RInv'
<1>1. /\ InPhase("read") /\ Release({"str", "tokens"}) /\ Leave(TRUE)
      /\ lexical_error' = TRUE /\ UNCHANGED <<syntax_error, eval_error, side_effect>>
  BY DEF TokenizeFails
<1>2. ~Idle /\ Top.phase = "read" /\ PartsOf("read") = {"str"}
  BY <1>1 DEF InPhase, PartsOf
<1>3. {"str", "tokens"} \in SUBSET Part /\ PartsOf(Top.phase) \subseteq {"str", "tokens"}
  BY <1>2 DEF Part
<1>4. ~LoadOk
  BY <1>1 DEF LoadOk
<1>5. /\ lexical_error' \in BOOLEAN /\ syntax_error' \in BOOLEAN
      /\ eval_error' \in BOOLEAN
  BY <1>1 DEF RInv, Types
<1> QED
  BY <1>1, <1>2, <1>3, <1>4, <1>5, LeaveStep

LEMMA TokenizeNothingStep ==
  ASSUME RInv, TokenizeNothing
  PROVE  RInv'
<1>1. /\ InPhase("read") /\ Release({"str"}) /\ Leave(FALSE) /\ UNCHANGED flags
  BY DEF TokenizeNothing
<1>2. /\ ~Idle /\ Top.phase = "read" /\ PartsOf("read") = {"str"} /\ TopInv(Top)
  BY <1>1, TopFacts DEF InPhase, PartsOf
<1>3. {"str"} \in SUBSET Part /\ PartsOf(Top.phase) \subseteq {"str"}
  BY <1>2 DEF Part
<1>4. Top.text \notin Bound /\ ~Top.faulty /\ LoadOk
  BY <1>1, <1>2 DEF TopInv, LoadOk, flags
<1>5. /\ lexical_error' \in BOOLEAN /\ syntax_error' \in BOOLEAN
      /\ eval_error' \in BOOLEAN /\ side_effect' = side_effect
  BY <1>1 DEF flags, RInv, Types
<1> QED
  BY <1>1, <1>2, <1>3, <1>4, <1>5, LeaveStep

LEMMA ParseFailsStep ==
  ASSUME RInv, ParseFails
  PROVE  RInv'
<1>1. /\ InPhase("parse") /\ Release({"str", "tokens"}) /\ Leave(TRUE)
      /\ syntax_error' = TRUE /\ UNCHANGED <<lexical_error, eval_error, side_effect>>
  BY DEF ParseFails
<1>2. ~Idle /\ Top.phase = "parse" /\ PartsOf("parse") = {"str", "tokens"}
  BY <1>1 DEF InPhase, PartsOf
<1>3. {"str", "tokens"} \in SUBSET Part /\ PartsOf(Top.phase) \subseteq {"str", "tokens"}
  BY <1>2 DEF Part
<1>4. ~LoadOk
  BY <1>1 DEF LoadOk
<1>5. /\ lexical_error' \in BOOLEAN /\ syntax_error' \in BOOLEAN
      /\ eval_error' \in BOOLEAN
  BY <1>1 DEF RInv, Types
<1> QED
  BY <1>1, <1>2, <1>3, <1>4, <1>5, LeaveStep

LEMMA FinishStep ==
  ASSUME RInv, Finish
  PROVE  RInv'
<1>1. /\ InPhase("eval") /\ (eval_error \/ Top.pending = <<>>)
      /\ (IF eval_error \/ ~side_effect THEN Release(Part) ELSE UNCHANGED alloc)
      /\ UNCHANGED flags /\ Leave(eval_error)
  BY DEF Finish
<1>2. /\ ~Idle /\ Top.phase = "eval" /\ TopInv(Top) /\ Top.text \in Running
  BY <1>1, TopFacts DEF InPhase
<1>3. /\ lexical_error' \in BOOLEAN /\ syntax_error' \in BOOLEAN
      /\ eval_error' \in BOOLEAN /\ side_effect' = side_effect /\ eval_error \in BOOLEAN
  BY <1>1 DEF flags, RInv, Types
<1>4. /\ eval_error => ~LoadOk
      /\ Top.faulty => ~LoadOk
      /\ ~eval_error /\ ~Top.faulty /\ Top.loads = "none" => LoadOk
  BY <1>1, <1>2 DEF TopInv, LoadOk, flags
<1>5. CASE eval_error \/ ~side_effect
  <2>1. Part \in SUBSET Part /\ PartsOf(Top.phase) \subseteq Part
    BY <1>2 DEF PartsOf
  <2>2. Top.text \in Bound => eval_error \/ Top.loads = "after"
    BY <1>2, <1>5 DEF TopInv
  <2> QED
    BY <1>1, <1>2, <1>3, <1>4, <1>5, <2>1, <2>2, LeaveStep
<1>6. CASE ~(eval_error \/ ~side_effect)
  <2>1. Release({})
    <3>1. {Top.text} \X {} = {}
      OBVIOUS
    <3> QED
      BY <1>1, <1>6, <3>1 DEF Release
  <2>2. Top.text \in stored
    BY <1>2, <1>6 DEF RInv
  <2> QED
    BY <1>1, <1>2, <1>3, <1>4, <2>1, <2>2, LeaveStep
<1> QED
  BY <1>5, <1>6

-----------------------------------------------------------------------------
(* The invariant *)

LEMMA InitInv == Init => RInv
<1> SUFFICES ASSUME Init PROVE RInv
  OBVIOUS
<1>1. Types
  <2>1. running \in Seq(Activations)
    BY EmptySeq DEF Init
  <2>2. binding \in [Var -> Entry \cup {Null}]
    BY DEF Init, Entry
  <2> QED
    BY <2>1, <2>2 DEF Init, Types
<1>2. Callers /\ OwnPieces
  BY EmptySeq DEF Init, Callers, OwnPieces
<1>3. Bound = {}
  BY DEF Init, Bound, Bodies, Defined
<1> QED
  BY <1>1, <1>2, <1>3 DEF Init, RInv, NothingLeaks, StoredTextsKept, LoadTells

LEMMA StepInv == RInv /\ [Next]_vars => RInv'
<1> SUFFICES ASSUME RInv, [Next]_vars PROVE RInv'
  OBVIOUS
<1>1. CASE Input
  BY <1>1, InputStep
<1>2. CASE Exit
  <2>1. /\ UNCHANGED <<alloc, binding, running, spoiled, stored, answer>>
        /\ UNCHANGED <<lexical_error, syntax_error, eval_error, side_effect>>
        /\ exited' \in BOOLEAN
    BY <1>2 DEF Exit, flags, ghosts
  <2>2. Bound' = Bound /\ Running' = Running
    BY <2>1, SameTexts DEF Running
  <2>3. Types' /\ Callers' /\ OwnPieces'
    BY <2>1 DEF RInv, Types, Callers, OwnPieces
  <2>4. running' # <<>> => TopInv(running[1])'
    BY <2>1, <2>2 DEF RInv, TopInv
  <2>5. NothingLeaks' /\ StoredTextsKept' /\ LoadTells'
    BY <2>1, <2>2 DEF RInv, NothingLeaks, StoredTextsKept, LoadTells
  <2> QED
    BY <2>1, <2>2, <2>3, <2>4, <2>5 DEF RInv
<1>3. CASE TokenizeFails
  BY <1>3, TokenizeFailsStep
<1>4. CASE TokenizeNothing
  BY <1>4, TokenizeNothingStep
<1>5. CASE Tokenize
  <2>1. /\ InPhase("read") /\ alloc' = alloc \cup {<<Top.text, "tokens">>}
        /\ Goto("parse") /\ UNCHANGED <<binding, flags, exited, ghosts>>
    BY <1>5 DEF Tokenize
  <2>2. PartsOf("parse") = PartsOf("read") \cup {"tokens"} /\ "tokens" \in Part
    BY DEF PartsOf, Part
  <2> QED
    BY <2>1, <2>2, ReadStep
<1>6. CASE ParseFails
  BY <1>6, ParseFailsStep
<1>7. CASE Parse
  <2>1. /\ InPhase("parse") /\ alloc' = alloc \cup {<<Top.text, "ast">>}
        /\ Goto("eval") /\ UNCHANGED <<binding, flags, exited, ghosts>>
    BY <1>7 DEF Parse
  <2>2. PartsOf("eval") = PartsOf("parse") \cup {"ast"} /\ "ast" \in Part
    BY DEF PartsOf, Part
  <2> QED
    BY <2>1, <2>2, ReadStep
<1>8. CASE \E v \in Var : DefineLambda(v)
  BY <1>8, DefineLambdaStep
<1>9. CASE \E v \in Var \cup {Local} : BeginDefine(v)
  BY <1>9, PendStep DEF BeginDefine
<1>10. CASE \E v \in Var \cup {Local} : BeginSet(v)
  BY <1>10, PendStep DEF BeginSet
<1>11. CASE \E v \in Var \cup {Local} : EndStore(v)
  BY <1>11, EndStoreStep
<1>12. CASE SetUnbound
  BY <1>12, SetUnboundStep
<1>13. CASE Raise
  BY <1>13, RaiseStep
<1>14. CASE Load
  BY <1>14, LoadStep
<1>15. CASE Finish
  BY <1>15, FinishStep
<1>16. CASE UNCHANGED vars
  <2>1. /\ UNCHANGED <<alloc, binding, running, exited, spoiled, stored, answer>>
        /\ UNCHANGED <<lexical_error, syntax_error, eval_error, side_effect>>
    BY <1>16 DEF vars, flags, ghosts
  <2>2. Bound' = Bound /\ Running' = Running
    BY <2>1, SameTexts DEF Running
  <2>3. Types' /\ Callers' /\ OwnPieces'
    BY <2>1 DEF RInv, Types, Callers, OwnPieces
  <2>4. running' # <<>> => TopInv(running[1])'
    BY <2>1, <2>2 DEF RInv, TopInv
  <2>5. NothingLeaks' /\ StoredTextsKept' /\ LoadTells'
    BY <2>1, <2>2 DEF RInv, NothingLeaks, StoredTextsKept, LoadTells
  <2> QED
    BY <2>1, <2>2, <2>3, <2>4, <2>5 DEF RInv
<1> QED
  BY <1>1, <1>2, <1>3, <1>4, <1>5, <1>6, <1>7, <1>8, <1>9, <1>10, <1>11, <1>12,
     <1>13, <1>14, <1>15, <1>16 DEF Next

LEMMA Invariant == Spec => []RInv
BY InitInv, StepInv, PTL DEF Spec

-----------------------------------------------------------------------------
(* What holds in every state *)

\* An input owns exactly the pieces its phase has made, and every input under
\* a load is in the middle of its evaluation, whatever the nested ones free or
\* fail at (evaluate_string, main.c:98-144).
THEOREM TypeCorrect == Spec => []TypeOK
<1>1. ASSUME RInv PROVE TypeOK
  <2>1. ASSUME NEW i \in DOMAIN running
        PROVE  /\ running[i].pending \in Seq(Var \cup {Local})
               /\ i > 1 => running[i].phase = "eval"
               /\ alloc \cap Pieces(running[i].text)
                    = {running[i].text} \X PartsOf(running[i].phase)
    <3>1. running[i] \in Activations
      BY <1>1, ElementOfSeq DEF RInv, Types
    <3> QED
      BY <1>1, <3>1 DEF RInv, Callers, OwnPieces, Activations
  <2> QED
    BY <1>1, <2>1 DEF RInv, Types, TypeOK, PartsOf
<1> QED
  BY <1>1, Invariant, PTL

\* However loads nest and fail: the name of a toplevel variable and the body
\* of its value still lie in allocated texts, when the input that brought them
\* ended well and called no load after it began its last definition or
\* assignment (evaluate_string keeps a text when side_effect, main.c:131-144).
THEOREM TextsKept == Spec => []StoredTextsKept
<1>1. RInv => StoredTextsKept
  BY DEF RInv
<1> QED
  BY <1>1, Invariant, PTL

\* A text outlives its input only when the input, or one it loaded, began a
\* definition or an assignment (evaluate_string, main.c:131-144).
THEOREM NothingLeaked == Spec => []NothingLeaks
<1>1. RInv => NothingLeaks
  BY DEF RInv
<1> QED
  BY <1>1, Invariant, PTL

\* What load answers of a nested input, from the three global error flags that
\* deeper loads have reset in the meantime (load_file, main.c:149-155).
THEOREM LoadTellsRight == Spec => []LoadTells
<1>1. RInv => LoadTells
  BY DEF RInv
<1> QED
  BY <1>1, Invariant, PTL
=============================================================================
