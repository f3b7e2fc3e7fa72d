-------------------------------- MODULE Repl --------------------------------
(***************************************************************************)
(* The life of an input (main.c): its characters, its tokens and its AST   *)
(* are malloc'ed by evaluate_string and freed at its end, unless a         *)
(* definition or a set! has stored pointers into them: the key of a new    *)
(* entry points into the characters, the body of a lambda into all three.  *)
(* Whether that happened, and whether the input went well, is told by four *)
(* global flags, which every nested load resets for its own input.         *)
(*                                                                         *)
(* Of the environment only the toplevel Frame is kept: which text the name *)
(* of a variable and the body of its value lie in.  What else evaluation   *)
(* does is in Evaluator, what happens to the objects in Collector.         *)
(***************************************************************************)
EXTENDS Naturals, FiniteSets, SequencesExt

CONSTANTS
  Text,              \* the inputs: lines of the REPL and contents of files
  Var, Builtins,     \* toplevel identifiers, those bound from the start
  Null, Local,       \* Local: any variable of the Frame of a call
  Static,            \* string literals of the interpreter itself
  MaxNesting, MaxPending   \* model bounds

ASSUME ReplAssumption ==
  /\ Builtins \subseteq Var /\ Local \notin Var
  /\ {Null, Static} \cap Text = {} /\ Null # Static
  /\ MaxNesting \in Nat /\ MaxPending \in Nat

VARIABLES
  alloc,             \* the pieces of texts that are malloc'ed
  binding,           \* the toplevel Frame
  running,           \* the nested calls of evaluate_string, innermost first
  lexical_error, syntax_error, eval_error, side_effect,
  exited,
  stored,            \* history: texts whose input, or a load in it, has begun
                     \* a definition or an assignment
  spoiled,           \* history: texts whose input failed, or loaded a file
                     \* after its last definition or assignment began
  answer             \* history: what load said of the input that ended last

flags == <<lexical_error, syntax_error, eval_error, side_effect>>
errors == <<lexical_error, syntax_error, eval_error>>
ghosts == <<stored, spoiled, answer>>
vars == <<alloc, binding, running, flags, exited, ghosts>>

Part == {"str", "tokens", "ast"}
Pieces(t) == {t} \X Part
Entry == [key : Text \cup {Static}, body : Text \cup {Null}]
Answer == [ok : BOOLEAN, stopped : BOOLEAN, faulty : BOOLEAN,
           loads : {"none", "before", "after"}]

Idle == running = <<>>
Top == Head(running)
InPhase(p) == ~Idle /\ Top.phase = p
Evaluating == InPhase("eval") /\ ~eval_error
Running == {running[i].text : i \in DOMAIN running}

Defined == {v \in Var : binding[v] # Null}
Bodies == {binding[v].body : v \in Defined} \ {Null}
Bound == Bodies \cup ({binding[v].key : v \in Defined} \ {Static})
Fresh == {t \in Text : Pieces(t) \cap alloc = {} /\ t \notin Bound \cup Running}

-----------------------------------------------------------------------------
(* Entering and leaving evaluate_string *)

\* pending: definitions and assignments whose value is being evaluated.
\* loads: has this input called load, and if so, before or after its last
\* definition or assignment began?  faulty: since its last load it reported an
\* error and went on.
Activation(t) == [text |-> t, phase |-> "read", pending |-> <<>>,
                  loads |-> "none", faulty |-> FALSE]

Reset_KeepSideEffect ==   \* mutant: side_effect = false is missing
  /\ lexical_error' = FALSE /\ syntax_error' = FALSE /\ eval_error' = FALSE
  /\ UNCHANGED side_effect
Reset ==
  /\ lexical_error' = FALSE /\ syntax_error' = FALSE /\ eval_error' = FALSE
  /\ side_effect' = FALSE

\* A text is read, for a caller that is left in the state given by callers.
Enter(callers) ==
  \E t \in Fresh :
    /\ alloc' = alloc \cup {<<t, "str">>}
    /\ running' = <<Activation(t)>> \o callers
    /\ Reset
    /\ stored' = stored \ {t} /\ spoiled' = spoiled \ {t}
    /\ answer' = Null
    /\ UNCHANGED <<binding, exited>>

\* load_file
LoadOk_IgnoresSyntax == ~(lexical_error' \/ eval_error')
LoadOk == ~(lexical_error' \/ syntax_error' \/ eval_error')

\* The innermost input ends; stopped: by an error that ended it.
Leave(stopped) ==
  /\ running' = Tail(running)
  /\ spoiled' = IF stopped \/ Top.loads = "after"
                THEN spoiled \cup {Top.text} ELSE spoiled
  /\ answer' = IF Len(running) = 1 THEN Null
               ELSE [ok |-> LoadOk, stopped |-> stopped,
                     faulty |-> Top.faulty, loads |-> Top.loads]
  /\ UNCHANGED <<binding, exited, stored>>

Goto(p) == running' = [running EXCEPT ![1].phase = p]
Release(parts) == alloc' = alloc \ ({Top.text} \X parts)

-----------------------------------------------------------------------------
(* The steps of evaluate_string *)

\* main reads a line, or the script it was given; shirp_init the prelude.
Input == Idle /\ Enter(<<>>)

\* End of file at the prompt, or a file that cannot be opened.
Exit ==
  /\ Idle \/ Evaluating
  /\ exited' = TRUE
  /\ UNCHANGED <<alloc, binding, running, flags, ghosts>>

TokenizeFails ==
  /\ InPhase("read")
  /\ lexical_error' = TRUE /\ UNCHANGED <<syntax_error, eval_error, side_effect>>
  /\ Release({"str", "tokens"})
  /\ Leave(TRUE)

\* Nothing but blanks and comments.
TokenizeNothing_GoesOn ==   \* mutant: the test of head.next is missing
  /\ InPhase("read")
  /\ Goto("parse")
  /\ UNCHANGED <<alloc, binding, flags, exited, ghosts>>
TokenizeNothing ==
  /\ InPhase("read")
  /\ Release({"str"})
  /\ UNCHANGED flags
  /\ Leave(FALSE)

Tokenize ==
  /\ InPhase("read")
  /\ alloc' = alloc \cup {<<Top.text, "tokens">>}
  /\ Goto("parse")
  /\ UNCHANGED <<binding, flags, exited, ghosts>>

\* program() returns NULL: the nodes built so far are lost, and not counted.
ParseFails ==
  /\ InPhase("parse")
  /\ syntax_error' = TRUE /\ UNCHANGED <<lexical_error, eval_error, side_effect>>
  /\ Release({"str", "tokens"})
  /\ Leave(TRUE)

Parse ==
  /\ InPhase("parse")
  /\ alloc' = alloc \cup {<<Top.text, "ast">>}
  /\ Goto("eval")
  /\ UNCHANGED <<binding, flags, exited, ghosts>>

Finish ==
  /\ InPhase("eval")
  /\ eval_error \/ Top.pending = <<>>
  /\ IF eval_error \/ ~side_effect THEN Release(Part) ELSE UNCHANGED alloc
  /\ UNCHANGED flags
  /\ Leave(eval_error)

-----------------------------------------------------------------------------
(* Evaluation: what touches texts and flags *)

\* The flag goes up before the value is evaluated.
Begin(pending, faulty) ==
  /\ side_effect' = TRUE
  /\ stored' = stored \cup Running
  /\ running' = [running EXCEPT ![1].pending = pending,
                                ![1].faulty = faulty,
                                ![1].loads = IF @ = "none" THEN @ ELSE "before"]

\* frame_insert_obj on the toplevel Frame: an old entry keeps its key.
Bind(v, body) ==
  binding' = [binding EXCEPT ![v] =
    [key |-> IF v \in Defined THEN @.key ELSE Top.text, body |-> body]]

\* handle_definition of a lambda
DefineLambda(v) ==
  /\ Evaluating
  /\ Begin(Top.pending, Top.faulty)
  /\ Bind(v, Top.text)
  /\ UNCHANGED <<alloc, errors, exited, spoiled, answer>>

Pend(v) ==
  /\ Evaluating
  /\ Len(Top.pending) < MaxPending
  /\ Begin(<<v>> \o Top.pending, Top.faulty)
  /\ UNCHANGED <<alloc, binding, errors, exited, spoiled, answer>>

\* handle_definition of another value, up to its evaluation
BeginDefine(v) == Pend(v)

\* handle_set of a variable that is bound, up to the evaluation of the value
BeginSet_NoSideEffect(v) ==   \* mutant: side_effect = true is missing
  /\ v \in Defined \cup {Local}
  /\ Evaluating
  /\ Len(Top.pending) < MaxPending
  /\ running' = [running EXCEPT ![1].pending = <<v>> \o @]
  /\ UNCHANGED <<alloc, binding, flags, exited, ghosts>>
BeginSet(v) == v \in Defined \cup {Local} /\ Pend(v)

\* handle_set of an unbound variable: tok_error_at sets syntax_error only.
SetUnbound ==
  /\ Evaluating
  /\ Begin(Top.pending, TRUE)
  /\ syntax_error' = TRUE
  /\ UNCHANGED <<alloc, binding, lexical_error, eval_error, exited, spoiled, answer>>

\* The value is there: no closure, or one made by an input that is not over yet
\* (a procedure that loads a file shows it its locals), or bound already.
EndStore(v) ==
  /\ Evaluating
  /\ Top.pending # <<>> /\ v = Head(Top.pending)
  /\ running' = [running EXCEPT ![1].pending = Tail(@)]
  /\ IF v = Local THEN UNCHANGED binding
     ELSE \E body \in Running \cup Bodies \cup {Null} : Bind(v, body)
  /\ UNCHANGED <<alloc, flags, exited, ghosts>>

\* The REQUIRE_ macros and their like: tok_error_at, then eval_error.
Raise ==
  /\ Evaluating
  /\ syntax_error' = TRUE /\ eval_error' = TRUE
  /\ UNCHANGED <<alloc, binding, running, lexical_error, side_effect, exited, ghosts>>

\* load, from anywhere in the evaluation of an input
Load ==
  /\ Evaluating
  /\ Len(running) < MaxNesting
  /\ Enter([running EXCEPT ![1].loads = "after", ![1].faulty = FALSE])

-----------------------------------------------------------------------------
Init ==
  /\ alloc = {} /\ running = <<>>
  /\ binding = [v \in Var |-> IF v \in Builtins
                              THEN [key |-> Static, body |-> Null] ELSE Null]
  /\ lexical_error = FALSE /\ syntax_error = FALSE
  /\ eval_error = FALSE /\ side_effect = FALSE
  /\ exited = FALSE
  /\ stored = {} /\ spoiled = {} /\ answer = Null

Next ==
  /\ ~exited
  /\ \/ Input \/ Exit
     \/ TokenizeFails \/ TokenizeNothing \/ Tokenize
     \/ ParseFails \/ Parse
     \/ \E v \in Var : DefineLambda(v)
     \/ \E v \in Var \cup {Local} : BeginDefine(v)
     \/ \E v \in Var \cup {Local} : BeginSet(v)
     \/ \E v \in Var \cup {Local} : EndStore(v)
     \/ SetUnbound \/ Raise \/ Load
     \/ Finish

Spec == Init /\ [][Next]_vars

-----------------------------------------------------------------------------
\* Types; and an input has the pieces its phase needs, all callers being in
\* the middle of an evaluation: what a nested load frees is its own.
TypeOK ==
  /\ alloc \subseteq Text \X Part
  /\ binding \in [Var -> Entry \cup {Null}]
  /\ answer \in Answer \cup {Null}
  /\ {lexical_error, syntax_error, eval_error, side_effect, exited} \subseteq BOOLEAN
  /\ stored \subseteq Text /\ spoiled \subseteq Text
  /\ \A i \in DOMAIN running :
       /\ running[i].pending \in Seq(Var \cup {Local})
       /\ i > 1 => running[i].phase = "eval"
       /\ alloc \cap Pieces(running[i].text) = {running[i].text} \X
            CASE running[i].phase = "read"  -> {"str"}
              [] running[i].phase = "parse" -> {"str", "tokens"}
              [] running[i].phase = "eval"  -> Part

\* Every text the toplevel environment points into is still there, whatever
\* happened in the input that brought it (evaluate_string, main.c:131-144).
BoundTextsKept == \A t \in Bound : Pieces(t) \subseteq alloc

\* The same for inputs that ended without an error, in which no load came
\* after the last definition or assignment: nested loads, errors of other
\* inputs and redefinitions do not matter, however the value was obtained.
StoredTextsKept == \A t \in Bound \ spoiled : Pieces(t) \subseteq alloc

\* What outlives its input was worth keeping: no text stays whose input has
\* not begun a definition or an assignment, itself or in a load
\* (side_effect, main.c:100,140).
NothingLeaks ==
  \A t \in Text \ Running : Pieces(t) \cap alloc # {} => t \in stored

\* load says false of an input that an error ended; also of one that reported
\* an error and went on, unless a nested load came after that; and it says
\* true of an input without a fault and without loads (load_file, main.c:148).
LoadTells ==
  answer # Null =>
    /\ answer.stopped => ~answer.ok
    /\ answer.faulty => ~answer.ok
    /\ ~answer.stopped /\ ~answer.faulty /\ answer.loads = "none" => answer.ok
=============================================================================
