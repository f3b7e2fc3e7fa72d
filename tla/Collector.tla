----------------------------- MODULE Collector -----------------------------
(***************************************************************************)
(* The object heap of shirp and its mark-and-sweep collector               *)
(* (gbgcollector.c), with the operations of the evaluator that build the   *)
(* heap: allocation, cons, lambda, define, set!, call and return           *)
(* (object.c, environment.c).                                              *)
(*                                                                         *)
(* A variable is bound to a cell (the Obj** that copied_obj_address makes) *)
(* and a cell holds an object, so that a closure shares its captured       *)
(* variables with the frame they come from.  The worklist is the linked    *)
(* list of the code; its node for an object is named by the object.  One   *)
(* input of the REPL is a sequence of evaluator steps; GC_collect runs     *)
(* after it, one step per call of mark_object and mark_frame (the stack of *)
(* pending calls is explicit) and per item swept.                          *)
(***************************************************************************)
EXTENDS Naturals, FiniteSets, SequencesExt

CONSTANTS
  Addr,             \* where new_obj can place an object
  Cell,             \* the addresses of variables, at most that many in use
  Var,              \* identifiers
  Formal,           \* the parameter of every lambda
  Null, Static,     \* NULL, and the objects that are not on the heap (#t, ())
  Global,           \* the frame of the toplevel
  MaxDepth,         \* model bound: calls in progress
  MaxTemps,         \* model bound: objects in hand
  MaxPairs,         \* model bound: pairs on the heap
  ClosuresInPairs,  \* may programs store a closure in a pair?
  NullBindings      \* may a definition bind NULL (a failed load or set!)?

ASSUME NameAssumption ==
  /\ Null \notin Addr \cup Cell /\ Static \notin Addr /\ Null # Static
  /\ Global \notin Addr
  /\ Formal \in Var
ASSUME ModeAssumption ==
  /\ MaxDepth \in Nat /\ MaxTemps \in Nat /\ MaxPairs \in Nat
  /\ ClosuresInPairs \in BOOLEAN /\ NullBindings \in BOOLEAN

VARIABLES
  obj,                     \* the object at each address
  cell,                    \* the object each variable address holds
  global, frames,          \* the toplevel frame and those of the calls
  temps,                   \* objects this input has in hand
  head, tail, next, size,  \* gc->head, tail and size; the next fields
  phase,                   \* what runs: the evaluator, GC_mark or GC_sweep
  marked, visited,         \* gc->marked_table: objects and frames
  stack,                   \* pending calls of mark_object and mark_frame
  prev, item               \* locals of GC_sweep

mutatorVars == <<cell, global, frames, temps>>
listVars == <<head, tail, next, size>>
markVars == <<marked, visited, stack>>
sweepVars == <<prev, item>>
vars == <<obj, mutatorVars, listVars, phase, markVars, sweepVars>>

Values == Addr \cup {Static, Null}
Frames == [Var -> Cell \cup {Null}]   \* Null: not bound in this frame
Free == [typ |-> "free"]
Atom == [typ |-> "atom"]              \* number, string, symbol, builtin
Pairs == [typ : {"pair"}, car : Values, cdr : Values]
Lambdas == [typ : {"lambda"}, saved_env : Frames]
Objects == {Free, Atom} \cup Pairs \cup Lambdas

Allocated == {a \in Addr : obj[a].typ # "free"}
IsLambda(o) == o \in Addr /\ obj[o].typ = "lambda"
IsPair(o) == o \in Addr /\ obj[o].typ = "pair"

-----------------------------------------------------------------------------
(* The environment *)

BoundVars(f) == {v \in Var : f[v] # Null}
EmptyFrame == [v \in Var |-> Null]

\* copy_frame: the entries of src are inserted into dst.
CopyFrame(dst, src) == [v \in Var |-> IF src[v] # Null THEN src[v] ELSE dst[v]]

\* The frames of the calls in which v is bound.
Binders(v) == {i \in DOMAIN frames : frames[i][v] # Null}

\* What frame_get_obj finds, innermost frame first, and what
\* copied_environment puts into one frame.
Env == [v \in Var |-> IF Binders(v) = {} THEN global[v]
                                       ELSE frames[Max(Binders(v))][v]]

\* frame_insert_obj into the innermost frame.
Bind(v, c) ==
  IF frames = <<>>
  THEN global' = [global EXCEPT ![v] = c] /\ UNCHANGED frames
  ELSE frames' = [frames EXCEPT ![Len(frames)][v] = c] /\ UNCHANGED global

AllFrames ==
  {global} \cup Range(frames) \cup {obj[a].saved_env : a \in {b \in Addr : IsLambda(b)}}
CellsInUse == UNION {{f[v] : v \in BoundVars(f)} : f \in AllFrames}

\* What an expression of this input can evaluate to.
Usable == temps \cup {Static} \cup {cell[Env[v]] : v \in BoundVars(Env)}

-----------------------------------------------------------------------------
(* Allocation *)

\* GC_register
GC_register_LostTail(a) ==   \* mutant: the tail is not advanced
  /\ head' = IF head = Null THEN a ELSE head
  /\ tail' = IF head = Null THEN a ELSE tail
  /\ next' = [b \in Addr |-> IF b = a THEN Null
                             ELSE IF head # Null /\ b = tail THEN a ELSE next[b]]
  /\ size' = size + 1
GC_register(a) ==
  /\ head' = IF head = Null THEN a ELSE head
  /\ tail' = a
  /\ next' = [b \in Addr |-> IF b = a THEN Null
                             ELSE IF head # Null /\ b = tail THEN a ELSE next[b]]
  /\ size' = size + 1

\* new_obj and the fields its caller sets
New(a, o) ==
  /\ a \notin Allocated
  /\ obj' = [obj EXCEPT ![a] = o]
  /\ GC_register(a)

-----------------------------------------------------------------------------
(* The evaluator *)

\* The expression that used some of the objects in hand has the value o.
Hold(used, o) ==
  /\ temps' = (temps \ used) \cup ({o} \cap Addr)
  /\ Cardinality(temps') <= MaxTemps

Evaluating == phase = "eval" /\ UNCHANGED <<phase, markVars, sweepVars>>

\* A literal, a quoted symbol, the result of a builtin.
NewAtom ==
  /\ Evaluating
  /\ \E a \in Addr : New(a, Atom) /\ Hold({}, a)
  /\ UNCHANGED <<cell, global, frames>>

\* (cons x y), and a cell of list and quote
NewPair ==
  /\ Evaluating
  /\ Cardinality({a \in Addr : IsPair(a)}) < MaxPairs
  /\ \E x, y \in Usable, a \in Addr :
       /\ ClosuresInPairs \/ ~ (IsLambda(x) \/ IsLambda(y))
       /\ New(a, [typ |-> "pair", car |-> x, cdr |-> y])
       /\ Hold({x, y}, a)
  /\ UNCHANGED <<cell, global, frames>>

\* (car p), (cdr p)
Part ==
  /\ Evaluating
  /\ \E p \in {o \in Usable : IsPair(o)} :
       \E o \in {obj[p].car, obj[p].cdr} \cap Addr : Hold({p}, o)
  /\ UNCHANGED <<obj, cell, global, frames, listVars>>

\* handle_lambda outside a definition
Lambda ==
  /\ Evaluating
  /\ \E a \in Addr : /\ New(a, [typ |-> "lambda", saved_env |-> Env])
                     /\ Hold({}, a)
  /\ UNCHANGED <<cell, global, frames>>

\* handle_definition of a value: always a new cell, even for a bound variable
Define ==
  /\ Evaluating
  /\ \E v \in Var, c \in Cell \ CellsInUse,
        o \in Usable \cup IF NullBindings THEN {Null} ELSE {} :
       /\ cell' = [cell EXCEPT ![c] = o]
       /\ Bind(v, c)
       /\ temps' = temps \ {o}
  /\ UNCHANGED <<obj, listVars>>

\* handle_definition of a lambda: bound first, so that it captures itself
DefineLambda ==
  /\ Evaluating
  /\ \E v \in Var, c \in Cell \ CellsInUse, a \in Addr :
       /\ cell' = [cell EXCEPT ![c] = a]
       /\ Bind(v, c)
       /\ New(a, [typ |-> "lambda", saved_env |-> [Env EXCEPT ![v] = c]])
  /\ UNCHANGED temps

\* handle_set: the cell found is shared with every closure that captured it
Set ==
  /\ Evaluating
  /\ \E v \in BoundVars(Env), o \in Usable :
       cell' = [cell EXCEPT ![Env[v]] = o]
  /\ UNCHANGED <<obj, global, frames, temps, listVars>>

\* call_user_procedure up to the body: the saved environment, then the
\* arguments, go into a new frame, or into the current one for a tail call
Call ==
  /\ Evaluating
  /\ \E f \in {o \in Usable : IsLambda(o)}, o \in Usable,
        c \in Cell \ CellsInUse :
       LET args == [EmptyFrame EXCEPT ![Formal] = c]
           Enter(f0) == CopyFrame(CopyFrame(f0, obj[f].saved_env), args)
       IN  /\ cell' = [cell EXCEPT ![c] = o]
           /\ \/ /\ Len(frames) < MaxDepth
                 /\ frames' = Append(frames, Enter(EmptyFrame))
              \/ /\ frames # <<>>
                 /\ frames' = [frames EXCEPT ![Len(frames)] = Enter(@)]
  /\ UNCHANGED <<obj, global, temps, listVars>>

\* ... and when the body has its value
Return ==
  /\ Evaluating
  /\ frames # <<>>
  /\ frames' = Front(frames)
  /\ \E o \in Usable : Hold(temps, o)
  /\ UNCHANGED <<obj, cell, global, listVars>>

\* evaluate_string returns and main calls GC_collect.  The cells no frame
\* refers to leak; their content is forgotten to merge states.
GC_collect ==
  /\ phase = "eval" /\ frames = <<>>
  /\ phase' = "mark"
  /\ temps' = {}
  /\ cell' = [c \in Cell |-> IF c \in CellsInUse THEN cell[c] ELSE Null]
  /\ stack' = <<[call |-> "mark_frame", arg |-> Global]>>
  /\ UNCHANGED <<obj, global, frames, listVars, marked, visited, sweepVars>>

Evaluate == \/ NewAtom \/ NewPair \/ Part \/ Lambda \/ Define \/ DefineLambda
            \/ Set \/ Call \/ Return

-----------------------------------------------------------------------------
(* GC_mark *)

Table(f) == IF f = Global THEN global ELSE obj[f].saved_env

Marking == /\ phase = "mark"
           /\ UNCHANGED <<obj, mutatorVars, listVars, sweepVars>>
Pending(call) == stack # <<>> /\ Head(stack).call = call
Continue(calls) == stack' = calls \o Tail(stack)

mark_object_CarOnly ==   \* mutant: the rest of a list is not followed
  /\ Marking /\ Pending("mark_object")
  /\ LET o == Head(stack).arg
     IN  IF o # Null /\ o \notin marked
         THEN /\ marked' = marked \cup {o}
              /\ Continue(IF IsPair(o)
                          THEN <<[call |-> "mark_object", arg |-> obj[o].car]>>
                          ELSE <<>>)
         ELSE UNCHANGED marked /\ Continue(<<>>)
  /\ UNCHANGED <<phase, visited>>
mark_object ==
  /\ Marking /\ Pending("mark_object")
  /\ LET o == Head(stack).arg
     IN  IF o # Null /\ o \notin marked
         THEN /\ marked' = marked \cup {o}
              /\ Continue(IF IsPair(o)
                          THEN <<[call |-> "mark_object", arg |-> obj[o].car],
                                 [call |-> "mark_object", arg |-> obj[o].cdr]>>
                          ELSE <<>>)
         ELSE UNCHANGED marked /\ Continue(<<>>)
  /\ UNCHANGED <<phase, visited>>

mark_frame ==
  /\ Marking /\ Pending("mark_frame")
  /\ LET f == Head(stack).arg
     IN  IF f \in visited
         THEN UNCHANGED visited /\ Continue(<<>>)
         ELSE /\ visited' = visited \cup {f}
              /\ Continue(<<[call |-> "buckets", arg |-> f,
                             left |-> BoundVars(Table(f))]>>)
  /\ UNCHANGED <<phase, marked>>

\* One turn of the loop of mark_frame, in the order of the hash table:
\* mark_object(obj), then obj->typ is read.
MarkBucket ==
  /\ Marking /\ Pending("buckets")
  /\ LET b == Head(stack)
     IN  \/ b.left = {} /\ Continue(<<>>) /\ UNCHANGED phase
         \/ \E v \in b.left :
              LET o == cell[Table(b.arg)[v]]
              IN  IF o = Null
                  THEN phase' = "crashed" /\ UNCHANGED stack
                  ELSE /\ Continue(<<[call |-> "mark_object", arg |-> o]>>
                            \o (IF IsLambda(o)
                                THEN <<[call |-> "mark_frame", arg |-> o]>>
                                ELSE <<>>)
                            \o <<[b EXCEPT !.left = @ \ {v}]>>)
                       /\ UNCHANGED phase
  /\ UNCHANGED <<marked, visited>>

\* The toplevel frame has no outer one: GC_sweep begins.
MarkDone ==
  /\ phase = "mark" /\ stack = <<>>
  /\ phase' = "sweep"
  /\ prev' = Null /\ item' = head
  /\ UNCHANGED <<obj, mutatorVars, listVars, markVars>>

-----------------------------------------------------------------------------
(* GC_sweep *)

\* sweep_worklist_item unlinks the node and frees the object, with the saved
\* frame of a closure.
sweep_worklist_item_CountsTwice ==   \* mutant: gc->size goes down here and
  /\ head' = IF prev = Null THEN next[item] ELSE head   \* in GC_sweep
  /\ next' = [b \in Addr |-> IF b = prev THEN next[item]
                             ELSE IF b = item THEN Null ELSE next[b]]
  /\ tail' = IF item = tail THEN prev ELSE tail
  /\ obj' = [obj EXCEPT ![item] = Free]
  /\ size' = size - 2
sweep_worklist_item ==
  /\ head' = IF prev = Null THEN next[item] ELSE head
  /\ next' = [b \in Addr |-> IF b = prev THEN next[item]
                             ELSE IF b = item THEN Null ELSE next[b]]
  /\ tail' = IF item = tail THEN prev ELSE tail
  /\ obj' = [obj EXCEPT ![item] = Free]
  /\ size' = size - 1

SweepItem_SkipAfterFree ==   \* mutant: the successor of a freed node is
  /\ phase = "sweep" /\ item # Null   \* passed over
  /\ IF item \in marked
     THEN prev' = item /\ item' = next[item] /\ UNCHANGED <<obj, listVars>>
     ELSE /\ sweep_worklist_item
          /\ LET n == next[item]
             IN  IF n = Null THEN item' = Null /\ UNCHANGED prev
                             ELSE item' = next[n] /\ prev' = n
  /\ UNCHANGED <<mutatorVars, phase, markVars>>
SweepItem_StuckOnMarked ==   \* mutant: only the branch that frees advances
  /\ phase = "sweep" /\ item # Null
  /\ IF item \in marked
     THEN prev' = item /\ UNCHANGED <<obj, listVars, item>>
     ELSE sweep_worklist_item /\ item' = next[item] /\ UNCHANGED prev
  /\ UNCHANGED <<mutatorVars, phase, markVars>>
SweepItem ==
  /\ phase = "sweep" /\ item # Null
  /\ item' = next[item]
  /\ IF item \in marked
     THEN prev' = item /\ UNCHANGED <<obj, listVars>>
     ELSE sweep_worklist_item /\ UNCHANGED prev
  /\ UNCHANGED <<mutatorVars, phase, markVars>>

\* The end of GC_sweep, with unmark_all.
SweepDone_StillMarked ==   \* mutant: the marks of frames are kept
  /\ phase = "sweep" /\ item = Null
  /\ phase' = "eval"
  /\ marked' = {}
  /\ UNCHANGED <<obj, mutatorVars, listVars, visited, stack, sweepVars>>
SweepDone ==
  /\ phase = "sweep" /\ item = Null
  /\ phase' = "eval"
  /\ marked' = {} /\ visited' = {}
  /\ UNCHANGED <<obj, mutatorVars, listVars, stack, sweepVars>>

Collect == mark_object \/ mark_frame \/ MarkBucket \/ MarkDone \/ SweepItem \/ SweepDone

-----------------------------------------------------------------------------

Init ==   \* shirp_init: GC_init and an empty toplevel frame
  /\ obj = [a \in Addr |-> Free]
  /\ cell = [c \in Cell |-> Null]
  /\ global = EmptyFrame
  /\ frames = <<>>
  /\ temps = {}
  /\ head = Null /\ tail = Null
  /\ next = [a \in Addr |-> Null]
  /\ size = 0
  /\ phase = "eval"
  /\ marked = {} /\ visited = {}
  /\ stack = <<>>
  /\ prev = Null /\ item = Null

Next == Evaluate \/ GC_collect \/ Collect

\* GC_collect is one call: nothing else runs until it returns.
Spec == Init /\ [][Next]_vars /\ WF_vars(Collect)

-----------------------------------------------------------------------------
(* Properties *)

ObjectCall(o) == [call |-> "mark_object", arg |-> o]
FrameCall(f) == [call |-> "mark_frame", arg |-> f]
BucketCall(f, L) == [call |-> "buckets", arg |-> f, left |-> L]
FrameNames == Addr \cup {Global}
Calls == {ObjectCall(o) : o \in Values} \cup {FrameCall(f) : f \in FrameNames}
           \cup {BucketCall(f, L) : f \in FrameNames, L \in SUBSET Var}

HeapTypes ==
  /\ obj \in [Addr -> Objects]
  /\ cell \in [Cell -> Values]
  /\ global \in Frames /\ frames \in Seq(Frames)
  /\ temps \subseteq Addr
  /\ head \in Addr \cup {Null} /\ tail \in Addr \cup {Null}
  /\ next \in [Addr -> Addr \cup {Null}] /\ size \in Nat
  /\ phase \in {"eval", "mark", "sweep", "crashed"}
  /\ marked \subseteq Addr \cup {Static} /\ visited \subseteq Addr \cup {Global}
  /\ prev \in Addr \cup {Null} /\ item \in Addr \cup {Null}

(* Every variable holds what it is declared for, and a pending call of     *)
(* mark_object has an object or NULL for its argument, one of mark_frame a *)
(* frame (gbgcollector.c:64-90).                                           *)
TypeOK == HeapTypes /\ stack \in Seq(Calls)

\* The nodes met from gc->head, in order.
Walk == LET w[n \in Nat] == IF n = 0 THEN head
                            ELSE IF w[n - 1] = Null THEN Null
                            ELSE next[w[n - 1]]
        IN  w
Length == Cardinality(Allocated)

\* The worklist is exactly the list of the allocated objects: each is in it
\* once, it ends after the last of them, and gc->tail is that last node, so
\* that GC_register appends to it (gbgcollector.c:15, 110).
WorklistExact ==
  /\ {Walk[n] : n \in 0..(Length - 1)} = Allocated
  /\ Walk[Length] = Null
  /\ tail = IF Length = 0 THEN Null ELSE Walk[Length - 1]
  /\ size = Length

\* What the program can still get at: a lambda keeps the cells it captured.
Roots == temps \cup UNION {{cell[f[v]] : v \in BoundVars(f)} :
                             f \in {global} \cup Range(frames)}
References(a) ==
  IF IsPair(a) THEN {obj[a].car, obj[a].cdr}
  ELSE IF IsLambda(a)
       THEN {cell[obj[a].saved_env[v]] : v \in BoundVars(obj[a].saved_env)}
       ELSE {}
Closed(S) == \A a \in S : References(a) \cap Addr \subseteq S
Reachable ==
  {a \in Addr : \A S \in SUBSET Addr :
                  (Roots \cap Addr \subseteq S /\ Closed(S)) => a \in S}

\* Nothing the program can get at was freed, whatever has been shared,
\* captured, reassigned or redefined: every object it starts from is there,
\* and every one that those on the heap refer to.
NoDangling ==
  phase = "eval" => Roots \cap Addr \subseteq Allocated /\ Closed(Allocated)

\* When GC_collect returns, everything else has been: closures that capture
\* themselves or each other are no exception.
GarbageFreed ==
  [][phase = "sweep" /\ phase' = "eval" => Allocated' \subseteq Reachable']_vars

\* What a collection has left to do: the objects and frames it has not marked,
\* then the entries of the frames it is going through, then the calls in
\* progress; at last the nodes it has not swept.
Unmarked == (Addr \cup {Static}) \ marked
Entries == {e \in (DOMAIN stack) \X Var :
              stack[e[1]].call = "buckets" /\ e[2] \in stack[e[1]].left}
ToSweep == LET w[n \in Nat] == IF n = 0 THEN item
                               ELSE IF w[n - 1] = Null THEN Null
                               ELSE next[w[n - 1]]
           IN  {n \in 0 .. Cardinality(Addr) : w[n] # Null}
Remaining ==
  CASE phase = "mark" -> <<2, Cardinality(Unmarked) + Cardinality(FrameNames \ visited),
                           Cardinality(Entries), Len(stack)>>
    [] phase = "sweep" -> <<1, Cardinality(ToSweep), 0, 0>>
    [] OTHER -> <<0, 0, 0, 0>>
Below(s, t) == \E i \in DOMAIN s : s[i] < t[i] /\ \A j \in 1 .. i - 1 : s[j] = t[j]

\* Each step of a collection leaves less to do than before, in an order that
\* has no infinite descent: marking ends although saved environments may be
\* cyclic and lists long (gbgcollector.c:60-90), and so does sweeping, which
\* frees the nodes it goes along (gbgcollector.c:127-138).
CollectionAdvances ==
  [][phase = "mark" \/ phase = "sweep" =>
       phase' # "crashed" /\ Below(Remaining', Remaining)]_vars

\* Every collection comes to its end, and the next input is read.
CollectionFinishes == (phase = "mark") ~> (phase = "eval")
=============================================================================
