------------------------------ MODULE Frontend ------------------------------
(***************************************************************************)
(* An input between its tokens and its evaluation (evaluate_string,        *)
(* main.c): it is scanned, parsed, its tail calls are marked, and its AST  *)
(* is freed if no definition keeps it.  What is evaluated is in Evaluator. *)
(*                                                                         *)
(* The tokens are any the scanner may leave.  It refuses no input for the  *)
(* brackets it leaves open (scan.c:215), and a closing bracket only if its *)
(* count of open ones, which outlives the input, is zero (scan.c:146): the *)
(* count an earlier input left is not known here, so a closing bracket may *)
(* always come.  The parser gets both, from a file or from a typed line.   *)
(***************************************************************************)
EXTENDS Parser, Grammar, TailCalls, FiniteSets

CONSTANTS
  Vocabulary,   \* the tokens an input is made of
  Samples,      \* longer inputs that are looked at besides
  MaxTokens     \* model bound

VARIABLES
  tokens,
  phase,
  result,       \* what the parser has come to
  tail_calls,   \* the nodes whose is_tail_call is set
  freed         \* the nodes handed to free, in this order

vars == <<tokens, phase, result, tail_calls, freed>>

Unparsed == program(<<>>)   \* crashed: there is nothing to parse

Init ==
  /\ tokens \in {<<>>} \cup Samples
  /\ phase = "scan" /\ result = Unparsed /\ tail_calls = {} /\ freed = <<>>

\* What comes behind the place where the parser stops makes no difference to it.
ReadToTheEnd(t) == t = <<>> \/ AtEnd(program(t))

Scan(t) ==
  /\ phase = "scan" /\ Len(tokens) < MaxTokens
  /\ ReadToTheEnd(tokens)
  /\ tokens' = Append(tokens, t)
  /\ UNCHANGED <<phase, result, tail_calls, freed>>

\* Without tokens there is nothing to do.
Parse ==
  /\ phase = "scan" /\ tokens # <<>>
  /\ result' = program(tokens)
  /\ phase' = IF result'.crashed THEN "crashed"
              ELSE IF result'.syntax_error THEN "rejected" ELSE "parsed"
  /\ UNCHANGED <<tokens, tail_calls, freed>>

Mark ==
  /\ phase = "parsed"
  /\ tail_calls' = mark_tail_calls(result.val, FALSE)
  /\ phase' = "marked"
  /\ UNCHANGED <<tokens, result, freed>>

\* After the evaluation.
Free ==
  /\ phase = "marked"
  /\ freed' = free_ast(<<result.val>>)
  /\ phase' = "freed"
  /\ UNCHANGED <<tokens, result, tail_calls>>

Next == (\E t \in Vocabulary : Scan(t)) \/ Parse \/ Mark \/ Free

Spec == Init /\ [][Next]_vars

-----------------------------------------------------------------------------
Accepted == phase \in {"parsed", "marked", "freed"}

\* What eval_ast and mark_tail_calls rely on without looking: the number and the
\* kinds of the nodes each list of a node holds.
Datum == {"IMMEDIATE", "STRING", "SYMBOL", "QUOTE"}
Expression == Datum \cup {"IDENT", "IF", "COND", "LAMBDA", "SET", "PROCCALL"}
Kinds(nodes) == {nodes[i].kind : i \in DOMAIN nodes}

IsBodyList(nodes) == /\ nodes # <<>> /\ Last(nodes).kind = "SEQUENCE"
                     /\ Kinds(Front(nodes)) \subseteq {"DEFINE"}
Shaped(n) ==
  CASE n.kind = "TOPLEVEL" -> n.args # <<>> /\ Kinds(n.args) \subseteq Expression \cup {"DEFINE"}
    [] n.kind = "SEQUENCE" -> n.args # <<>> /\ Kinds(n.args) \subseteq Expression
    [] n.kind = "PROCCALL" -> Len(n.caller) = 1 /\ Kinds(n.caller \o n.args) \subseteq Expression
    [] n.kind = "LAMBDA"   -> IsBodyList(n.caller) /\ Kinds(n.args \o n.listarg) \subseteq {"IDENT"}
    [] n.kind = "DEFINE"   -> Kinds(n.caller) = {"IDENT"} /\ Len(n.args) = 1
                              /\ Kinds(n.args) \subseteq Expression
    [] n.kind = "SET"      -> Kinds(n.caller) = {"IDENT"} /\ Len(n.args) = 1
                              /\ Kinds(n.args) \subseteq Expression
    [] n.kind = "IF"       -> Len(n.args) \in 2 .. 3 /\ Kinds(n.args) \subseteq Expression
    [] n.kind = "COND"     -> /\ Len(n.caller) = Len(n.args) /\ n.caller \o n.listarg # <<>>
                              /\ Kinds(n.caller) \subseteq Expression
                              /\ Kinds(n.listarg) \subseteq {"SEQUENCE"}
                              /\ \A i \in DOMAIN n.args : IsCopy(n, i) =>
                                   n.args[i] = [n.caller[i] EXCEPT !.id = n.args[i].id]
    [] n.kind = "QUOTE"    -> Kinds(n.args \o n.listarg) \subseteq Datum
                              /\ (n.listarg # <<>> => n.args # <<>>)
    [] OTHER -> n.kind \in Expression /\ Children(n) = <<>>

RECURSIVE WellFormed(_)
WellFormed(n) == /\ Shaped(n) /\ Len(n.listarg) <= 1
                 /\ \A i \in DOMAIN Children(n) : WellFormed(Children(n)[i])

(* An AST has the shape that mark_tail_calls (parser.c:451) and eval_ast   *)
(* (object.c) take for granted when they follow next, args and caller.     *)
TypeOK ==
  /\ phase \in {"scan", "crashed", "rejected", "parsed", "marked", "freed"}
  /\ tail_calls \subseteq 1 .. result.nodes /\ ToSet(freed) \subseteq 1 .. result.nodes
  /\ Accepted => WellFormed(result.val)

\* The parser tells these words by their text alone, whatever the kind of the token.
ToldByText == {"(", ")", "define", "quote", "else"}
IsMisread(t) ==
  t.text \in ToldByText
    /\ t.kind # (IF t.text \in {"(", ")"} THEN "delimiter" ELSE KindOf(t.text))
Misread == \E i \in DOMAIN tokens : IsMisread(tokens[i])

\* (lambda (x . y) or the like, wherever it stands.
DottedLambda ==
  \E i, n \in DOMAIN tokens :
    /\ i + 2 < n /\ tokens[n].kind = "period"
    /\ tokens[i] = Token("keyword", "lambda") /\ tokens[i + 1] = Token("delimiter", "(")
    /\ \A j \in i + 2 .. n - 1 : tokens[j].kind = "ident"

(* The parser (parser.c:109-449) accepts nothing but what the EBNF of      *)
(* README.md derives, and all of it with one exception: a lambda may have  *)
(* a dotted last parameter there (README.md:150), but the parser expects   *)
(* the closing bracket (parser.c:201).  Nothing is said of strings, and of *)
(* identifiers between bars, that are spelt like a word of the syntax: the *)
(* parser takes them for it (parser.c:127, 150, 162, 210, 406).            *)
AcceptsGrammar ==
  phase # "scan" /\ ~Misread =>
    /\ Accepted => IsProgram(tokens)
    /\ IsProgram(tokens) /\ ~DottedLambda => Accepted

Open == Len(SelectSeq(tokens, LAMBDA t : t = Token("delimiter", "(")))
        - Len(SelectSeq(tokens, LAMBDA t : t = Token("delimiter", ")")))

(* A NULL pointer is read in three cases only: after a syntax error was    *)
(* reported, by a function that looks at the flag too late; and at the end *)
(* of the input, if a bracket is open there (parser.c:122, 149, 179, 210)  *)
(* or a quotation mark stands before it (parser.c:405).                    *)
CrashExplained ==
  phase = "crashed" =>
    result.syntax_error \/ (AtEnd(result) /\ (Open > 0 \/ Last(tokens).kind = "quote"))

Freed(id) == Len(SelectSeq(freed, LAMBDA i : i = id))

(* free_ast (utils.c:182) frees every node the parser has made, and frees  *)
(* it once; only the nodes a test shares with its copy are freed more      *)
(* often (parser.c:221).                                                   *)
NodesFreedOnce ==
  phase = "freed" =>
    \A id \in 1 .. result.nodes :
      /\ Freed(id) >= 1
      /\ Freed(id) > 1 <=> id \in Shared(result.val)

MarkedOrFreed == phase \in {"marked", "freed"}

RECURSIVE Junctions(_)   \* the calls that begin with the word and, or or
Junctions(n) == {i \in {n.id} : n.kind = "PROCCALL" /\ n.tok \in {"and", "or"}}
                \cup UNION {Junctions(Children(n)[i]) : i \in DOMAIN Children(n)}

(* A call that is marked (parser.c:451-533), and so will overwrite the     *)
(* Frame it is made in, is in a tail context; the exceptions are the       *)
(* copies of tests, and calls of and and or themselves, which need no      *)
(* Frame unless they are defined anew.                                     *)
TailSound ==
  MarkedOrFreed =>
    \A id \in tail_calls \ Junctions(result.val) :
      \E c \in {"tail", "operand", "test"} : <<id, c>> \in Calls(result.val, "no")

(* The calls in the tail contexts of README.md are marked, so loops run in *)
(* bounded space, but for those in the last operand of and and or          *)
(* (parser.c:486) and those in assignments and tests of cond.              *)
TailComplete ==
  MarkedOrFreed =>
    \A c \in Calls(result.val, "no") : c[2] = "tail" => c[1] \in tail_calls
=============================================================================
