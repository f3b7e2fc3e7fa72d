------------------------------- MODULE Parser -------------------------------
(***************************************************************************)
(* The recursive descent parser (parser.c).  A token is a record of its    *)
(* kind and its text: some tests look at the kind, most at the text.  The  *)
(* parser is a record of its input and the position of cur, which is NULL  *)
(* behind the last token, of syntax_error, and of whether a NULL pointer   *)
(* has been read; val is what the function just left returns.              *)
(*                                                                         *)
(* A node holds the lists that caller, args and listarg lead to as         *)
(* sequences, so a child with successors is no special case, and a number  *)
(* of its own: copied_ast makes a node with a new number and old children. *)
(***************************************************************************)
EXTENDS Naturals, Sequences

Token(kind, text) == [kind |-> kind, text |-> text]
Null == [kind |-> "NULL"]

\* Nothing is looked at after a NULL pointer was read.
Then(p, F(_)) == IF p.crashed THEN p ELSE F(p)

Return(p, val) == [p EXCEPT !.val = val]
Crash(p) == [p EXCEPT !.crashed = TRUE, !.val = Null]

\* RETURN_IF_ERROR()
IfOk(p, F(_)) == Then(p, LAMBDA q : IF q.syntax_error THEN Return(q, Null) ELSE F(q))

AtEnd(p) == p.pos > Len(p.tokens)
Cur(p) == p.tokens[p.pos]
Matches(p, text) == Cur(p).text = text   \* match_tok(cur, text): cur is not NULL
IsKind(p, kind) == ~AtEnd(p) /\ Cur(p).kind = kind
IsBracket(p, text) == IsKind(p, "delimiter") /\ Matches(p, text)
Text(p) == IF AtEnd(p) THEN "" ELSE Cur(p).text

read_next(p) == [p EXCEPT !.pos = @ + 1]
tok_error_at_FlagNotSet(p) ==   \* mutant
  [p EXCEPT !.val = Null, !.pos = IF AtEnd(p) THEN @ ELSE @ + 1]
tok_error_at(p) == [p EXCEPT !.syntax_error = TRUE, !.val = Null,
                             !.pos = IF AtEnd(p) THEN @ ELSE @ + 1]

\* EXPECT_LBR(), EXPECT_RBR()
Expect(p, text, F(_)) ==
  Then(p, LAMBDA q : IF IsBracket(q, text) THEN IfOk(read_next(q), F)
                                           ELSE tok_error_at(q))

new_ast_node(p, kind, tok, caller, args, listarg) ==
  Return([p EXCEPT !.nodes = @ + 1],
         [kind |-> kind, id |-> p.nodes + 1, tok |-> tok,
          caller |-> caller, args |-> args, listarg |-> listarg])
Leaf(p, kind) == new_ast_node(read_next(p), kind, Text(p), <<>>, <<>>, <<>>)

\* A node for `(cond (test))': the sequence is the test, as a shallow copy.
copied_ast(p, node) ==
  Return([p EXCEPT !.nodes = @ + 1], [node EXCEPT !.id = p.nodes + 1])

-----------------------------------------------------------------------------
RECURSIVE expression(_)
RECURSIVE sequence(_)
RECURSIVE body(_)
RECURSIVE definition(_)
RECURSIVE datum(_)

identifier(p) == IF IsKind(p, "ident") THEN Leaf(p, "IDENT") ELSE tok_error_at(p)

is_definition_start(p) ==
  /\ Matches(p, "(")
  /\ p.pos < Len(p.tokens) /\ p.tokens[p.pos + 1].text = "define"

command_or_definition(p) ==
  IF AtEnd(p) THEN Crash(p)
  ELSE IF is_definition_start(p) THEN definition(p) ELSE expression(p)

RECURSIVE ProgramRest(_, _)
ProgramRest(p, args) ==
  IF AtEnd(p) THEN new_ast_node(p, "TOPLEVEL", "", <<>>, args, <<>>)
  ELSE IfOk(command_or_definition(p), LAMBDA q : ProgramRest(q, Append(args, q.val)))

program(tokens) ==
  LET p == [tokens |-> tokens, pos |-> 1, syntax_error |-> FALSE,
            crashed |-> FALSE, nodes |-> 0, val |-> Null]
  IN  IfOk(command_or_definition(p), LAMBDA q : ProgramRest(q, <<q.val>>))

-----------------------------------------------------------------------------
(* Data *)

simple_datum(p) ==
  CASE IsKind(p, "immediate") -> Leaf(p, "IMMEDIATE")
    [] IsKind(p, "ident") \/ IsKind(p, "keyword") -> Leaf(p, "SYMBOL")
    [] IsKind(p, "string") -> Leaf(p, "STRING")
    [] OTHER -> tok_error_at(p)

\* lost: last is NULL, though the list has a head: an element was in error.
RECURSIVE ListRest(_, _, _, _)
ListRest(p, tok, args, lost) ==
  IF p.crashed THEN p
  ELSE IF AtEnd(p) THEN Crash(p)
  ELSE IF ~Matches(p, ")") /\ ~IsKind(p, "period") THEN
    IF lost THEN Crash(p)
    ELSE LET d == datum(p)
         IN  ListRest(d, tok, IF d.val = Null THEN args ELSE Append(args, d.val),
                      d.val = Null /\ args # <<>>)
  ELSE IF p.tokens[p.pos - 1].text # "(" /\ IsKind(p, "period") THEN
    LET d == datum(read_next(p))
    IN  Expect(d, ")", LAMBDA q : new_ast_node(q, "QUOTE", tok, <<>>, args, <<d.val>>))
  ELSE Expect(p, ")", LAMBDA q : new_ast_node(q, "QUOTE", tok, <<>>, args, <<>>))

list(p) == Expect(p, "(", LAMBDA q : ListRest(q, Text(q), <<>>, FALSE))

datum(p) ==
  IF AtEnd(p) THEN Crash(p)
  ELSE IF Matches(p, "(") THEN list(p) ELSE simple_datum(p)

-----------------------------------------------------------------------------
(* Forms, from behind the opening bracket and the keyword *)

RECURSIVE Operands(_, _, _, _)
Operands(p, tok, caller, args) ==
  IF ~AtEnd(p) /\ ~Matches(p, ")") THEN
    IfOk(expression(p), LAMBDA q : Operands(q, tok, caller, Append(args, q.val)))
  ELSE IF IsBracket(p, ")") THEN
    new_ast_node(read_next(p), "PROCCALL", tok, <<caller>>, args, <<>>)
  ELSE tok_error_at(p)

Call(p) == IfOk(expression(p), LAMBDA q : Operands(q, Text(p), q.val, <<>>))

\* Errors are looked at when the form is closed, cur before that.
If_AlternateRequired(p) ==   \* mutant: the test for a missing alternate is gone
  Then(expression(p), LAMBDA test :
  Then(expression(test), LAMBDA consequent :
  Expect(expression(consequent), ")", LAMBDA q :
    new_ast_node(q, "IF", "if", <<>>, <<test.val, consequent.val, q.val>>, <<>>))))
If(p) ==
  Then(expression(p), LAMBDA test :
  Then(expression(test), LAMBDA consequent :
    IF AtEnd(consequent) THEN Crash(consequent)
    ELSE LET args == <<test.val, consequent.val>> IN
      IF Matches(consequent, ")")
      THEN Expect(consequent, ")", LAMBDA q :
             new_ast_node(q, "IF", "if", <<>>, args, <<>>))
      ELSE Expect(expression(consequent), ")", LAMBDA q :
             new_ast_node(q, "IF", "if", <<>>, Append(args, q.val), <<>>))))

RECURSIVE Idents(_, _)
Idents(p, idents) ==
  IF IsKind(p, "ident")
  THEN LET q == Leaf(p, "IDENT") IN Idents(q, Append(idents, q.val))
  ELSE Return(p, idents)

Lambda(p) ==
  Expect(p, "(", LAMBDA q : LET formals == Idents(q, <<>>) IN
  Expect(formals, ")", LAMBDA r :
  Expect(body(r), ")", LAMBDA s :
    new_ast_node(s, "LAMBDA", "lambda", s.val, formals.val, <<>>))))

CondNode(p, tests, seqs, else_seq) == new_ast_node(p, "COND", "cond", tests, seqs, else_seq)

\* A clause, from behind its opening bracket, and the clauses after it.
RECURSIVE Clauses(_, _, _)
ClauseEnd(p, tests, seqs) ==
  Expect(p, ")", LAMBDA q :
    IF IsBracket(q, "(") THEN Clauses(read_next(q), tests, seqs)
    ELSE Expect(q, ")", LAMBDA r : CondNode(r, tests, seqs, <<>>)))
Clauses(p, tests, seqs) ==
  IF AtEnd(p) THEN Crash(p)
  ELSE IF Matches(p, "else") THEN
    Expect(sequence(read_next(p)), ")", LAMBDA q :
    Expect(q, ")", LAMBDA r : CondNode(r, tests, seqs, <<r.val>>)))
  ELSE Then(expression(p), LAMBDA test :
    IF AtEnd(test) \/ (Matches(test, ")") /\ test.val = Null) THEN Crash(test)
    ELSE LET seq == IF Matches(test, ")") THEN copied_ast(test, test.val)
                                          ELSE sequence(test)
         IN  ClauseEnd(seq, Append(tests, test.val), Append(seqs, seq.val)))

Cond(p) == Expect(p, "(", LAMBDA q : Clauses(q, <<>>, <<>>))

\* let becomes the call of a lambda.
RECURSIVE Bindings(_, _, _, _)
Bindings(p, tok, idents, exprs) ==
  IF IsBracket(p, "(") THEN
    LET ident == identifier(read_next(p)) IN
    Expect(expression(ident), ")", LAMBDA q :
      Bindings(q, tok, Append(idents, ident.val), Append(exprs, q.val)))
  ELSE Expect(p, ")", LAMBDA q :
       Expect(body(q), ")", LAMBDA r :
         LET lambda == new_ast_node(r, "LAMBDA", tok, r.val, idents, <<>>)
         IN  new_ast_node(lambda, "PROCCALL", tok, <<lambda.val>>, exprs, <<>>)))

Let(p) == Expect(p, "(", LAMBDA q : Bindings(q, Text(q), <<>>, <<>>))

Set(p) ==
  IfOk(identifier(p), LAMBDA ident :
  IfOk(expression(ident), LAMBDA value :
  Expect(value, ")", LAMBDA q :
    new_ast_node(q, "SET", Text(p), <<ident.val>>, <<value.val>>, <<>>))))

Form(p) ==
  IF AtEnd(p) THEN Crash(p)
  ELSE IF Cur(p).kind # "keyword" THEN
    IF Matches(p, "quote") THEN Expect(datum(read_next(p)), ")", LAMBDA q : q)
    ELSE Call(p)
  ELSE LET q == read_next(p) IN
    CASE Matches(p, "if")     -> If(q)
      [] Matches(p, "lambda") -> Lambda(q)
      [] Matches(p, "cond")   -> Cond(q)
      [] Matches(p, "let")    -> Let(q)
      [] Matches(p, "set!")   -> Set(q)
      [] OTHER -> tok_error_at(p)

expression(p) ==
  IfOk(p, LAMBDA q :
    CASE IsKind(q, "ident")     -> Leaf(q, "IDENT")
      [] IsKind(q, "immediate") -> Leaf(q, "IMMEDIATE")
      [] IsKind(q, "string")    -> Leaf(q, "STRING")
      [] IsKind(q, "quote")     -> datum(read_next(q))
      [] IsBracket(q, "(")      -> Form(read_next(q))
      [] OTHER -> tok_error_at(q))

-----------------------------------------------------------------------------
(* Definitions, bodies, sequences *)

DefineValue(p) ==
  LET name == Leaf(p, "IDENT") IN
  IfOk(expression(name), LAMBDA q :
  Expect(q, ")", LAMBDA r :
    new_ast_node(r, "DEFINE", name.val.tok, <<name.val>>, <<r.val>>, <<>>)))

\* (define (name params) body), params possibly with a dot; the message for a
\* debug log reads the name before any error is looked at.
DefineProcedure(p) ==
  Then(identifier(p), LAMBDA name :
    IF name.val = Null THEN Crash(name)
    ELSE LET params == Idents(name, <<>>)
             rest == IF IsKind(params, "period") THEN identifier(read_next(params))
                     ELSE Return(params, Null)
             listarg == IF rest.val = Null THEN <<>> ELSE <<rest.val>>
         IN  Expect(rest, ")", LAMBDA q :
             Expect(body(q), ")", LAMBDA r :
               LET lambda == new_ast_node(r, "LAMBDA", name.val.tok, r.val,
                                          params.val, listarg)
               IN  new_ast_node(lambda, "DEFINE", name.val.tok, <<name.val>>,
                                <<lambda.val>>, <<>>))))

definition(p) ==
  Expect(p, "(", LAMBDA q : LET r == read_next(q) IN
    CASE IsKind(r, "ident")   -> DefineValue(r)
      [] IsBracket(r, "(")    -> DefineProcedure(read_next(r))
      [] OTHER -> tok_error_at(r))

RECURSIVE SequenceRest(_, _, _)
SequenceRest(p, tok, args) ==
  IF ~AtEnd(p) /\ ~Matches(p, ")")
  THEN IfOk(expression(p), LAMBDA q : SequenceRest(q, tok, Append(args, q.val)))
  ELSE new_ast_node(p, "SEQUENCE", tok, <<>>, args, <<>>)

sequence(p) ==
  Then(expression(p), LAMBDA head :
    IF head.val # Null THEN SequenceRest(head, Text(p), <<head.val>>)
    ELSE IF AtEnd(head) \/ Matches(head, ")")
    THEN new_ast_node(head, "SEQUENCE", Text(p), <<>>, <<>>, <<>>)
    ELSE Crash(head))

\* lost: last_body is NULL, though res is not: a definition was in error.
RECURSIVE BodyRest(_, _, _)
BodyRest_NoSequence(p, res, lost) ==   \* mutant: a body may end with a definition
  IF p.crashed THEN p
  ELSE IF AtEnd(p) \/ lost THEN Crash(p)
  ELSE IF is_definition_start(p) THEN
    LET d == definition(p)
    IN  BodyRest(d, IF d.val = Null THEN res ELSE Append(res, d.val),
                 d.val = Null /\ res # <<>>)
  ELSE IF Matches(p, ")") /\ res # <<>> THEN Return(p, res)
  ELSE Then(sequence(p), LAMBDA q : Return(q, Append(res, q.val)))
BodyRest(p, res, lost) ==
  IF p.crashed THEN p
  ELSE IF AtEnd(p) \/ lost THEN Crash(p)
  ELSE IF is_definition_start(p) THEN
    LET d == definition(p)
    IN  BodyRest(d, IF d.val = Null THEN res ELSE Append(res, d.val),
                 d.val = Null /\ res # <<>>)
  ELSE Then(sequence(p), LAMBDA q : Return(q, Append(res, q.val)))

body(p) == BodyRest(p, <<>>, FALSE)
=============================================================================
