----------------------------- MODULE Evaluator -----------------------------
(***************************************************************************)
(* The control of the tree-walking evaluator (object.c) over the stack of  *)
(* Frames (environment.c): procedure calls, tail calls that reuse the      *)
(* frame, definitions, set!, nested loads, and errors, which every caller  *)
(* notices by itself through the flag eval_error.                          *)
(*                                                                         *)
(* ctl is the C stack of eval_ast and its callers, top first.  A record of *)
(* kind "eval" is a node about to be evaluated, any other kind is a caller *)
(* that has just got a result back when it is on top.  The program is not  *)
(* fixed: at every "eval" any kind of node may be found.  What             *)
(* mark_tail_calls (parser.c) decided for the node comes with it: tail is  *)
(* its own is_tail_call, sub is what its tail subexpressions got, a last   *)
(* operand (and ..) or (or ..) of a call among them.                       *)
(***************************************************************************)
EXTENDS Naturals, FiniteSets, SequencesExt

CONSTANTS
  FrameId, Global,   \* addresses of Frames, the toplevel's among them
  Cell,              \* addresses of variables; they are told apart, no more
  Var, Formals,      \* identifiers, and the parameters of every lambda
  Null,
  SharedTests,       \* do programs have cond clauses that are only a test?
  MaxStack, MaxClosures   \* model bounds

ASSUME NameAssumption ==
  Global \in FrameId /\ Null \notin FrameId \cup Cell /\ Formals \subseteq Var
ASSUME ModeAssumption ==
  /\ SharedTests \in BOOLEAN
  /\ MaxStack \in Nat /\ MaxClosures \in Nat

VARIABLES
  env, outer, table, live,   \* the current Frame, their fields, those malloc'ed
  closures,                  \* saved environments of the lambdas made so far
  ctl,
  eval_error,
  failed,                    \* history: some input met an error
  loaded                     \* history: the current input has called load

vars == <<env, outer, table, live, closures, ctl, eval_error, failed, loaded>>
frameVars == <<env, outer, table, live>>
errorVars == <<eval_error, failed, loaded>>

Bindings == [Var -> Cell \cup {Null}]
Empty == [v \in Var |-> Null]

-----------------------------------------------------------------------------
(* The environment *)

CopyFrame(dst, src) == [v \in Var |-> IF src[v] # Null THEN src[v] ELSE dst[v]]

\* frame_get_obj: the innermost frame that binds v.
Lookup(v) ==
  LET l[f \in FrameId] == IF table[f][v] # Null \/ outer[f] = Null
                          THEN table[f][v] ELSE l[outer[f]]
  IN  l[env]

\* copied_environment: all frames in one, the innermost binding wins.
Copied == [v \in Var |-> Lookup(v)]

\* frame_insert_obj
Insert(v, c) == table' = [table EXCEPT ![env][v] = c]

-----------------------------------------------------------------------------
(* The C stack *)

Eval(tail, sub) == [kind |-> "eval", tail |-> tail, sub |-> sub]
At == [env |-> env, locals |-> table[env]]   \* what a caller leaves behind

Top(kind) == ctl # <<>> /\ Head(ctl).kind = kind
Evaluating == Top("eval")
Resume(s) == ctl' = s \o Tail(ctl)
Done == Resume(<<>>)
Room == Len(ctl) < MaxStack

Raise == eval_error' = TRUE /\ failed' = TRUE /\ UNCHANGED loaded

Definition(v) == [kind |-> "definition", var |-> v]

\* A caller evaluates a subexpression outside tail contexts, then goes on.
\* Its record says what env and the bindings of that Frame were before.
Subexpression(k) == Resume(<<Eval(FALSE, FALSE), k>>)

\* A call evaluates an operand; only the last one may be marked as a tail.
Operand_AnyInTail(k, last) ==   \* mutant: marked by its name, not its place
  \E t \in {FALSE, k.sub} : Resume(<<Eval(t, t), k>>)
Operand(k, last) ==
  \E t \in {FALSE, k.sub /\ last} : Resume(<<Eval(t, t), k>>)

-----------------------------------------------------------------------------
(* Nodes that call nothing *)

\* A literal, a quotation, an identifier: an unbound one is an error.
EvalSimple ==
  /\ Evaluating
  /\ Done
  /\ UNCHANGED errorVars \/ Raise
  /\ UNCHANGED <<frameVars, closures>>

\* handle_lambda
EvalLambda ==
  /\ Evaluating
  /\ Cardinality(closures \cup {Copied}) <= MaxClosures
  /\ closures' = closures \cup {Copied}
  /\ Done
  /\ UNCHANGED <<frameVars, errorVars>>

-----------------------------------------------------------------------------
(* if, cond and sequences *)

Then(sub) == [kind |-> "then", sub |-> sub, at |-> At]

\* eval_if, eval_cond and eval_sequence up to their first subexpression.  The
\* sequence of a clause that is only a test is a copy of the test's node: it
\* has children in common with the test, which the copy gets marked as tails
\* (parser.c:220).
EvalThen_TestInTail ==   \* mutant: mark_tail_calls(test, is_in_tail_context)
  /\ Evaluating /\ Room
  /\ LET sub == Head(ctl).sub
     IN  Resume(<<Eval(sub, sub), Then(sub)>>)
  /\ UNCHANGED <<frameVars, closures, errorVars>>
EvalThen ==
  /\ Evaluating /\ Room
  /\ LET sub == Head(ctl).sub
     IN  \/ Subexpression(Then(sub))
         \/ SharedTests /\ Resume(<<Eval(FALSE, sub), Then(sub)>>)
  /\ UNCHANGED <<frameVars, closures, errorVars>>

\* The test of the next clause, the next expression, or the one in tail
\* position; a cond may also run out of clauses.
ContinueThen ==
  /\ Top("then")
  /\ \/ eval_error /\ Done
     \/ ~ eval_error /\ LET k == Head(ctl)
                        IN  \/ Subexpression(k)
                            \/ Resume(<<Eval(k.sub, k.sub)>>)
                            \/ Done
  /\ UNCHANGED <<frameVars, closures, errorVars>>

-----------------------------------------------------------------------------
(* Calls *)

\* handle_proc_call evaluates the operator ...
EvalCall ==
  /\ Evaluating /\ Room
  /\ Subexpression([kind |-> "operator", tail |-> Head(ctl).tail,
                    sub |-> Head(ctl).sub, last |-> FALSE, at |-> At])
  /\ UNCHANGED <<frameVars, closures, errorVars>>

\* ... and finds a builtin.
CallBuiltin ==
  /\ Top("operator")
  /\ IF eval_error THEN Done
                   ELSE Resume(<<[Head(ctl) EXCEPT !.kind = "builtin"]>>)
  /\ UNCHANGED <<frameVars, closures, errorVars>>

\* handle_builtin evaluates its operands one by one, all, some or none of
\* them, and may meet an error at any point.  cons looks at eval_error only
\* after both of its operands.  Which operand is the last one matters, and is
\* told, only if that one may be marked as a tail (sub).
HandleBuiltin ==
  /\ Top("builtin") \/ Top("operands") \/ Top("cons")
  /\ LET k == Head(ctl)
         more(kind, last) == [k EXCEPT !.kind = kind, !.last = last]
     IN  \/ k.kind # "cons" /\ Done /\ (UNCHANGED errorVars \/ Raise)
         \/ /\ \/ /\ k.kind # "cons" /\ ~ k.last /\ ~ eval_error
                  /\ \E last \in {FALSE, k.sub} : Operand(more("operands", last), last)
               \/ k.kind = "builtin" /\ Operand(more("cons", FALSE), FALSE)
               \/ k.kind = "cons" /\ Operand(more("operands", k.sub), TRUE)
            /\ UNCHANGED errorVars
  /\ UNCHANGED <<frameVars, closures>>

\* call_user_procedure for a value that is no closure or takes another number
\* of arguments.
CallRefused ==
  /\ Top("operator") /\ ~ eval_error
  /\ Raise
  /\ Done
  /\ UNCHANGED <<frameVars, closures>>

\* call_user_procedure up to the arguments: the frame of the call, unless the
\* current one is reused, and a frame for the arguments.
BeginCall_EnterEarly ==   \* mutant: env = exec_env before the arguments
  /\ Top("operator") /\ ~ eval_error
  /\ \E saved \in closures, argf \in FrameId \ live, f \in FrameId :
       LET tail == Head(ctl).tail
           exec == IF tail THEN env ELSE f
       IN  /\ IF tail THEN f = env ELSE f \notin live \cup {argf}
           /\ live' = live \cup {exec, argf}
           /\ outer' = [outer EXCEPT ![argf] = Null,
                                     ![exec] = IF tail THEN @ ELSE env]
           /\ table' = [table EXCEPT ![argf] = Empty,
                                     ![exec] = IF tail THEN @ ELSE Empty]
           /\ env' = exec
           /\ Resume(<<[kind |-> "args", tail |-> tail, sub |-> Head(ctl).sub,
                        exec |-> exec, argf |-> argf, saved |-> saved,
                        left |-> Formals, waits |-> Null, at |-> At]>>)
  /\ UNCHANGED <<closures, errorVars>>
BeginCall ==
  /\ Top("operator") /\ ~ eval_error
  /\ \E saved \in closures, argf \in FrameId \ live, f \in FrameId :
       LET tail == Head(ctl).tail
           exec == IF tail THEN env ELSE f
       IN  /\ IF tail THEN f = env ELSE f \notin live \cup {argf}
           /\ live' = live \cup {exec, argf}
           /\ outer' = [outer EXCEPT ![argf] = Null,
                                     ![exec] = IF tail THEN @ ELSE env]
           /\ table' = [table EXCEPT ![argf] = Empty,
                                     ![exec] = IF tail THEN @ ELSE Empty]
           /\ Resume(<<[kind |-> "args", tail |-> tail, sub |-> Head(ctl).sub,
                        exec |-> exec, argf |-> argf, saved |-> saved,
                        left |-> Formals, waits |-> Null, at |-> At]>>)
  /\ UNCHANGED <<env, closures, errorVars>>

\* The argument for the next parameter is evaluated in the caller's env ...
EvalArg ==
  /\ Top("args")
  /\ LET k == Head(ctl)
     IN  /\ k.waits = Null
         /\ \E v \in k.left : Operand([k EXCEPT !.left = @ \ {v}, !.waits = v],
                                       k.left = {v})
  /\ UNCHANGED <<frameVars, closures, errorVars>>

\* ... and bound in the argument frame; an error returns at once, without
\* releasing either frame.
BindArg ==
  /\ Top("args")
  /\ LET k == Head(ctl)
     IN  /\ k.waits # Null
         /\ \/ /\ eval_error
               /\ Done
               /\ UNCHANGED table
            \/ /\ ~ eval_error
               /\ \E c \in Cell :
                    table' = [table EXCEPT ![k.argf][k.waits] = c]
               /\ Resume(<<[k EXCEPT !.waits = Null]>>)
  /\ UNCHANGED <<env, outer, live, closures, errorVars>>

\* All arguments are there: saved environment and arguments are copied into
\* the frame, the argument frame is released, the body begins.
EnterBody_KeepArgFrame ==   \* mutant: pop_frame(arg_frame) is forgotten
  /\ Top("args")
  /\ LET k == Head(ctl)
     IN  /\ k.waits = Null /\ k.left = {}
         /\ env' = k.exec
         /\ table' = [table EXCEPT ![k.exec] =
                        CopyFrame(CopyFrame(@, k.saved), table[k.argf])]
         /\ Resume(<<[kind |-> "body", tail |-> k.tail, exec |-> k.exec,
                      last |-> FALSE]>>)
  /\ UNCHANGED <<outer, live, closures, errorVars>>
EnterBody ==
  /\ Top("args")
  /\ LET k == Head(ctl)
     IN  /\ k.waits = Null /\ k.left = {}
         /\ env' = k.exec
         /\ table' = [table EXCEPT ![k.exec] =
                        CopyFrame(CopyFrame(@, k.saved), table[k.argf])]
         /\ live' = live \ {k.argf}
         /\ Resume(<<[kind |-> "body", tail |-> k.tail, exec |-> k.exec,
                      last |-> FALSE]>>)
  /\ UNCHANGED <<outer, closures, errorVars>>

-----------------------------------------------------------------------------
(* Bodies, definitions and assignments *)

\* <body> is definitions and then one sequence; an error in one of them does
\* not keep the next from being evaluated.  The sequence is in tail position
\* when mark_tail_calls came to the lambda, which it does not in set! and in
\* the tests of cond.
EvalBody ==
  /\ Top("body")
  /\ LET k == Head(ctl)
     IN  /\ ~ k.last
         /\ \/ \E v \in Var : Resume(<<Definition(v), k>>)
            \/ \E t \in BOOLEAN :
                 Resume(<<Eval(t, t), [k EXCEPT !.last = TRUE]>>)
  /\ UNCHANGED <<frameVars, closures, errorVars>>

\* The frame is released unless it was the caller's all along.
ReturnFromBody_PopAlways ==   \* mutant: `if (!is_tail_call)' is dropped
  /\ Top("body") /\ Head(ctl).last
  /\ env' = outer[env] /\ live' = live \ {env}
  /\ Done
  /\ UNCHANGED <<outer, table, closures, errorVars>>
ReturnFromBody ==
  /\ Top("body") /\ Head(ctl).last
  /\ IF Head(ctl).tail
     THEN UNCHANGED <<env, live>>
     ELSE env' = outer[env] /\ live' = live \ {env}
  /\ Done
  /\ UNCHANGED <<outer, table, closures, errorVars>>

\* handle_definition of a lambda: bound before the closure is made, and
\* whether or not an error was met before.
DefineLambda ==
  /\ Top("definition")
  /\ \E c \in Cell :
       LET v == Head(ctl).var
           saved == [Copied EXCEPT ![v] = c]
       IN  /\ Cardinality(closures \cup {saved}) <= MaxClosures
           /\ Insert(v, c)
           /\ closures' = closures \cup {saved}
  /\ Done
  /\ UNCHANGED <<env, outer, live, errorVars>>

\* handle_definition of anything else
EvalDefine ==
  /\ Top("definition")
  /\ Subexpression([kind |-> "define", var |-> Head(ctl).var, at |-> At])
  /\ UNCHANGED <<frameVars, closures, errorVars>>

Define ==
  /\ Top("define")
  /\ \/ eval_error /\ UNCHANGED table
     \/ ~ eval_error /\ \E c \in Cell : Insert(Head(ctl).var, c)
  /\ Done
  /\ UNCHANGED <<env, outer, live, closures, errorVars>>

\* handle_set looks the variable up before it evaluates the new value; an
\* unbound variable is reported without setting eval_error.
EvalSet ==
  /\ Evaluating /\ Room
  /\ \E v \in Var :
       IF Lookup(v) = Null
       THEN Done
       ELSE Subexpression([kind |-> "set", var |-> v, addr |-> Lookup(v),
                           at |-> At])
  /\ UNCHANGED <<frameVars, closures, errorVars>>

\* *obj_addr = new_val
Set ==
  /\ Top("set")
  /\ Done
  /\ UNCHANGED <<frameVars, closures, errorVars>>

-----------------------------------------------------------------------------
(* evaluate_string, for an input of the REPL and for load *)

Toplevel == [kind |-> "toplevel", env |-> env]

Input ==
  /\ ctl = <<>>
  /\ ctl' = <<Toplevel>>
  /\ eval_error' = FALSE /\ loaded' = FALSE
  /\ UNCHANGED <<frameVars, closures, failed>>

\* The builtin load, once its operand is known: evaluation goes on in the
\* current env, with the flag reset.
Load_EvenAfterError ==   \* mutant: no RETURN_IF_ERROR after the operand
  /\ Top("operands") /\ (Head(ctl).sub => Head(ctl).last) /\ Room
  /\ Resume(<<Toplevel>>)
  /\ eval_error' = FALSE /\ loaded' = TRUE
  /\ UNCHANGED <<frameVars, closures, failed>>
Load ==
  /\ Top("operands") /\ (Head(ctl).sub => Head(ctl).last) /\ ~ eval_error /\ Room
  /\ Resume(<<Toplevel>>)
  /\ eval_error' = FALSE /\ loaded' = TRUE
  /\ UNCHANGED <<frameVars, closures, failed>>

EvalToplevel ==
  /\ Top("toplevel")
  /\ \/ Done
     \/ /\ ~ eval_error
        /\ \/ \E v \in Var : Resume(<<Definition(v), Head(ctl)>>)
           \/ Resume(<<Eval(FALSE, FALSE), Head(ctl)>>)
  /\ UNCHANGED <<frameVars, closures, errorVars>>

-----------------------------------------------------------------------------

Init ==   \* shirp_init
  /\ env = Global
  /\ outer = [f \in FrameId |-> Null]
  /\ table = [f \in FrameId |-> Empty]
  /\ live = {Global}
  /\ closures = {}
  /\ ctl = <<>>
  /\ eval_error = FALSE /\ failed = FALSE /\ loaded = FALSE

Evaluate == EvalSimple \/ EvalLambda \/ EvalThen \/ EvalCall \/ EvalSet
Call == \/ CallBuiltin \/ HandleBuiltin \/ CallRefused \/ BeginCall
        \/ EvalArg \/ BindArg \/ EnterBody \/ EvalBody \/ ReturnFromBody
Continue == ContinueThen \/ DefineLambda \/ EvalDefine \/ Define \/ Set

Next == Evaluate \/ Call \/ Continue \/ Input \/ Load \/ EvalToplevel

Spec == Init /\ [][Next]_vars

-----------------------------------------------------------------------------
(* Properties *)

Ats == [env : FrameId, locals : Bindings]
Starters == [kind : {"eval"}, tail : BOOLEAN, sub : BOOLEAN]
              \cup [kind : {"definition"}, var : Var]
Thens == [kind : {"then"}, sub : BOOLEAN, at : Ats]
ProcCalls == [kind : {"operator", "builtin", "cons", "operands"},
              tail : BOOLEAN, sub : BOOLEAN, last : BOOLEAN, at : Ats]
ArgsCalls ==
  [kind : {"args"}, tail : BOOLEAN, sub : BOOLEAN, exec : FrameId,
   argf : FrameId, saved : Bindings, left : SUBSET Var,
   waits : Var \cup {Null}, at : Ats]
Defines == [kind : {"define"}, var : Var, at : Ats]
Sets == [kind : {"set"}, var : Var, addr : Cell \cup {Null}, at : Ats]
Bodies == [kind : {"body"}, tail : BOOLEAN, exec : FrameId, last : BOOLEAN]
Toplevels == [kind : {"toplevel"}, env : FrameId]

AtCallers == Thens \cup ProcCalls \cup ArgsCalls \cup Defines \cup Sets
CallerRecords == AtCallers \cup Bodies \cup Toplevels

TypeOK ==
  /\ env \in FrameId
  /\ outer \in [FrameId -> FrameId \cup {Null}]
  /\ table \in [FrameId -> Bindings]
  /\ live \subseteq FrameId
  /\ closures \subseteq Bindings
  /\ ctl \in Seq(Starters \cup CallerRecords)
  /\ eval_error \in BOOLEAN /\ failed \in BOOLEAN /\ loaded \in BOOLEAN

Records == Range(ctl)

\* Whoever gets a result back finds the environment it had when it called
\* eval_ast, errors included, and the REPL finds the toplevel frame.
EnvRestored ==
  /\ ctl = <<>> => env = Global
  /\ ctl # <<>> =>
       LET k == Head(ctl)
       IN  /\ "at" \in DOMAIN k => env = k.at.env
           /\ k.kind = "body" => env = k.exec
           /\ k.kind = "toplevel" => env = k.env

\* A call at its last operand that was marked as a tail evaluates nothing of
\* the procedure body it is part of any more.
Spent(k) == \/ k.kind = "args" /\ k.sub /\ k.left = {}
            \/ k.kind = "operands" /\ k.sub /\ k.last

\* ... with the same variables in it, if anything is evaluated in it after
\* that: only what is marked as a tail may overwrite the frame of a body, and
\* nothing of the body is evaluated later.  Where (and ..) is the last operand
\* of a tail call, this holds of the call too, which has its operands already.
\* Definitions of a file that is loaded go into the frame that called load.
LocalsIntact ==
  (~ loaded /\ ctl # <<>> /\ "at" \in DOMAIN Head(ctl) /\ ~ Spent(Head(ctl))) =>
    table[env] = Head(ctl).at.locals

\* Proper tail recursion: the Frames on the chain from env are those of the
\* calls in progress that are not tail calls, and the toplevel's.
PendingCalls == {i \in DOMAIN ctl : ctl[i].kind = "body" /\ ~ ctl[i].tail}
FrameBelow(i) ==
  LET below == {j \in PendingCalls : j >= i}
  IN  IF below = {} THEN Global ELSE ctl[Min(below)].exec
ChainMatchesCalls ==
  /\ env = FrameBelow(1)
  /\ \A i \in PendingCalls : /\ outer[ctl[i].exec] = FrameBelow(i + 1)
                             /\ ctl[i].exec # Global
  /\ outer[Global] = Null
  /\ \A i, j \in PendingCalls : ctl[i].exec = ctl[j].exec => i = j

\* No Frame that a pending call needs is released, and as long as no input
\* has failed, every other one is: "when the procedure returns, the Frame is
\* popped" (README.md:180).
NeededFrames ==
  {Global} \cup {k.exec : k \in {r \in Records : r.kind \in {"args", "body"}}}
           \cup {k.argf : k \in {r \in Records : r.kind = "args"}}
FramesOwned ==
  /\ NeededFrames \subseteq live
  /\ ~ failed => live \subseteq NeededFrames

\* An error is not lost before the input that met it returns, although load
\* resets the flag for the file and the rest of a body is still evaluated.
ErrorSticks == [][eval_error /\ ctl # <<>> => eval_error']_vars

\* The address set! looks up before it evaluates the new value is still the
\* variable's when the value is stored there, unless a file defines it anew.
SetHitsVariable ==
  (~ loaded /\ Top("set")) => Lookup(Head(ctl).var) = Head(ctl).addr
=============================================================================
