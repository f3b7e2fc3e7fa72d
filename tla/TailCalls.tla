----------------------------- MODULE TailCalls -----------------------------
(***************************************************************************)
(* What is done with an AST before and after its evaluation: the search    *)
(* for tail calls (parser.c) and free_ast (utils.c).  Lists are sequences, *)
(* as in Parser.  For comparison, the tail contexts of README.md.          *)
(***************************************************************************)
EXTENDS SequencesExt, Naturals

Children(n) == n.caller \o n.args \o n.listarg

\* mark_tail_calls: the nodes whose is_tail_call becomes true.
RECURSIVE mark_tail_calls(_, _)
MarkAll(nodes, tail) == UNION {mark_tail_calls(nodes[i], tail) : i \in DOMAIN nodes}
MarkLast(nodes, tail) ==
  UNION {mark_tail_calls(nodes[i], tail /\ i = Len(nodes)) : i \in DOMAIN nodes}

MarkOperands_Any(args, tail) == MarkLast(args, tail)   \* mutant: of any call
MarkOperands(args, tail) ==
  MarkLast(args, tail /\ args # <<>> /\ Last(args).tok \in {"and", "or"})

MarkIf_ConsequentOnly(args, tail) ==   \* mutant: the alternate is no tail context
  mark_tail_calls(args[2], tail)
  \cup MarkAll([i \in DOMAIN args |-> IF i = 2 THEN args[1] ELSE args[i]], FALSE)
MarkIf(args, tail) == mark_tail_calls(args[1], FALSE) \cup MarkAll(Tail(args), tail)

mark_tail_calls(n, tail) ==
  CASE n.kind = "TOPLEVEL" -> MarkAll(n.args, FALSE)
    [] n.kind = "LAMBDA"   -> MarkLast(n.caller, TRUE)
    [] n.kind = "PROCCALL" -> (IF tail THEN {n.id} ELSE {})
                              \cup MarkAll(n.caller, FALSE) \cup MarkOperands(n.args, tail)
    [] n.kind = "QUOTE"    -> MarkAll(n.args, FALSE)
    [] n.kind = "IF"       -> MarkIf(n.args, tail)
    [] n.kind = "COND"     -> MarkAll(n.args \o n.listarg, tail)
    [] n.kind = "SEQUENCE" -> MarkLast(n.args, tail)
    [] n.kind = "DEFINE"   -> MarkAll(n.args, FALSE)
    [] OTHER -> {}

\* free_ast on a node and those behind it in its list: the nodes in the order in
\* which they are freed.
RECURSIVE free_ast(_)
free_ast_NoListarg(nodes) ==   \* mutant
  IF nodes = <<>> THEN <<>>
  ELSE LET n == Head(nodes)
       IN  free_ast(n.caller) \o free_ast(n.args) \o free_ast(Tail(nodes)) \o <<n.id>>
free_ast(nodes) ==
  IF nodes = <<>> THEN <<>>
  ELSE LET n == Head(nodes)
       IN  free_ast(n.caller) \o free_ast(n.args) \o free_ast(n.listarg)
           \o free_ast(Tail(nodes)) \o <<n.id>>

-----------------------------------------------------------------------------
(* The nodes a cond clause of a test alone has twice: below the test, and   *)
(* below its copy.                                                         *)

IsCopy(n, i) == n.kind = "COND" /\ n.args[i].kind # "SEQUENCE"

RECURSIVE Ids(_)
Ids(n) == {n.id} \cup UNION {Ids(Children(n)[i]) : i \in DOMAIN Children(n)}

RECURSIVE Shared(_)
Shared(n) ==
  UNION {Shared(Children(n)[i]) : i \in DOMAIN Children(n)}
  \cup UNION {Ids(n.args[i]) \ {n.args[i].id} :
                i \in {j \in DOMAIN n.args : IsCopy(n, j)}}

(* The contexts the calls of an AST are in.  "tail": a tail context of     *)
(* README.md, but if it is one through and or or, "operand"; "test": a     *)
(* tail context only if the copy of a test were one; "unvisited": inside   *)
(* an assignment or a test of cond, where the search does not go.          *)

RECURSIVE Calls(_, _)
CallsOf(nodes, last, others) ==
  UNION {Calls(nodes[i], IF i = Len(nodes) THEN last ELSE others) : i \in DOMAIN nodes}

IsJunction(n) == n.caller[1].kind = "IDENT" /\ n.caller[1].tok \in {"and", "or"}

Calls(n, context) ==
  LET Unless(c) == IF context = "unvisited" THEN "unvisited" ELSE c
      no == Unless("no")
      Through(from, to) == IF context \in from THEN to ELSE context
  IN
  CASE n.kind \in {"TOPLEVEL", "DEFINE"} -> CallsOf(n.args, no, no)
    [] n.kind = "LAMBDA"   -> CallsOf(n.caller, Unless("tail"), no)
    [] n.kind = "PROCCALL" ->
         {<<n.id, context>>} \cup CallsOf(n.caller, no, no)
         \cup CallsOf(n.args, IF IsJunction(n) THEN Through({"tail", "test"}, "operand")
                                               ELSE no, no)
    [] n.kind = "IF"       -> Calls(n.args[1], no) \cup CallsOf(Tail(n.args), context, context)
    [] n.kind = "COND"     ->
         CallsOf(n.caller, "unvisited", "unvisited")
         \cup CallsOf(n.listarg, context, context)
         \cup UNION {Calls(n.args[i], IF IsCopy(n, i) THEN Through({"tail"}, "test")
                                                      ELSE context) : i \in DOMAIN n.args}
    [] n.kind = "SEQUENCE" -> CallsOf(n.args, context, no)
    [] n.kind = "SET"      -> CallsOf(n.args, "unvisited", "unvisited")
    [] OTHER -> {}
=============================================================================
