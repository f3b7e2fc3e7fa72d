------------------------------ MODULE Grammar ------------------------------
(***************************************************************************)
(* The programs Shirp promises to parse: the EBNF of README.md, as a       *)
(* predicate on sequences of tokens.  The brackets are paired up first,    *)
(* then every list is matched against the productions.                     *)
(*                                                                         *)
(* Where the EBNF is ambiguous a list is what its first word says: define  *)
(* makes a definition wherever one may stand, quote a quotation, but an    *)
(* EBNF that derives define as an <identifier> of an expression is taken   *)
(* at its word.                                                            *)
(***************************************************************************)
EXTENDS SequencesExt, Naturals

\* A form is a token, a list of forms, or a form behind a quotation mark.
List(items) == [kind |-> "list", items |-> items]
Quoted(form) == [kind |-> "quoted", form |-> form]

Put(forms, x) == IF forms # <<>> /\ Last(forms).kind = "quote"
                 THEN Append(Front(forms), Quoted(x)) ELSE Append(forms, x)

\* stack: the forms read so far of every list that is open.
PutToken(stack, t) ==
  IF t.kind # "delimiter" THEN [stack EXCEPT ![Len(stack)] = Put(@, t)]
  ELSE IF t.text = "(" THEN Append(stack, <<>>)
  ELSE [Front(stack) EXCEPT ![Len(stack) - 1] = Put(@, List(Last(stack)))]
Forms(tokens) == FoldLeft(PutToken, <<<<>>>>, tokens)[1]

Balanced(tokens) ==
  LET Count(text, n) == Len(SelectSeq(SubSeq(tokens, 1, n),
                              LAMBDA t : t = [kind |-> "delimiter", text |-> text]))
  IN  /\ \A n \in 1 .. Len(tokens) : Count(")", n) <= Count("(", n)
      /\ Count("(", Len(tokens)) = Count(")", Len(tokens))

-----------------------------------------------------------------------------
All(P(_), forms) == \A i \in DOMAIN forms : P(forms[i])
From(n, forms) == SubSeq(forms, n, Len(forms))

IsIdent(f) == f.kind = "ident"
IsSelfEvaluating(f) == f.kind \in {"immediate", "string"}
IsList(f) == f.kind = "list"

\* A word of the syntax is a token of its own kind: a string or an identifier between
\* bars that is spelt like it is another token.
KindOf(word) == IF word \in {"if", "cond", "else", "let", "lambda", "set!"}
                THEN "keyword" ELSE "ident"
StartsWith(f, word) == IsList(f) /\ f.items # <<>>
                       /\ f.items[1] = [kind |-> KindOf(word), text |-> word]

RECURSIVE IsDatum(_)
IsDatum(f) ==
  \/ f.kind \in {"ident", "keyword", "immediate", "string"}
  \/ /\ IsList(f)
     /\ \/ All(IsDatum, f.items)
        \/ \E n \in 2 .. Len(f.items) - 1 :
             /\ n = Len(f.items) - 1 /\ f.items[n].kind = "period"
             /\ All(IsDatum, SubSeq(f.items, 1, n - 1)) /\ IsDatum(Last(f.items))

RECURSIVE IsExpression(_)
RECURSIVE IsDefinition(_)

IsSequence(forms) == forms # <<>> /\ All(IsExpression, forms)
IsBody(forms) ==
  \E n \in 0 .. Len(forms) - 1 :
    /\ All(IsDefinition, SubSeq(forms, 1, n)) /\ ~StartsWith(forms[n + 1], "define")
    /\ IsSequence(From(n + 1, forms))

IsClause(f) == IsList(f) /\ IsSequence(f.items)   \* a test, and what follows it
IsElse(f) == StartsWith(f, "else") /\ IsSequence(From(2, f.items))
IsBinding(f) == IsList(f) /\ Len(f.items) = 2 /\ IsIdent(f.items[1]) /\ IsExpression(f.items[2])

\* The last parameter may be dotted, behind at least so many others.
IsFormals(forms, least) ==
  \/ All(IsIdent, forms)
  \/ LET n == Len(forms) - 2 IN
     /\ n >= least /\ forms[n + 1].kind = "period"
     /\ All(IsIdent, SubSeq(forms, 1, n)) /\ IsIdent(Last(forms))

IsForm(word, rest) ==
  CASE word = "quote"  -> Len(rest) = 1 /\ IsDatum(rest[1])
    [] word = "if"     -> Len(rest) \in 2 .. 3 /\ All(IsExpression, rest)
    [] word = "lambda" -> /\ Len(rest) >= 2
                          /\ IsList(rest[1]) /\ IsFormals(rest[1].items, 1)
                          /\ IsBody(From(2, rest))
    [] word = "set!"   -> Len(rest) = 2 /\ IsIdent(rest[1]) /\ IsExpression(rest[2])
    [] word = "let"    -> /\ Len(rest) >= 2
                          /\ IsList(rest[1]) /\ All(IsBinding, rest[1].items)
                          /\ IsBody(From(2, rest))
    [] word = "cond"   -> /\ rest # <<>>
                          /\ All(IsClause, Front(rest))
                          /\ IsClause(Last(rest)) \/ IsElse(Last(rest))

Words == {"quote", "if", "lambda", "set!", "let", "cond"}
IsExpression(f) ==
  \/ IsIdent(f) \/ IsSelfEvaluating(f)
  \/ f.kind = "quoted" /\ IsDatum(f.form)
  \/ \E word \in Words : StartsWith(f, word) /\ IsForm(word, From(2, f.items))
  \/ /\ IsList(f) /\ f.items # <<>> /\ All(IsExpression, f.items)
     /\ ~StartsWith(f, "quote")

IsDefinition(f) ==
  /\ StartsWith(f, "define") /\ Len(f.items) >= 3
  /\ \/ IsIdent(f.items[2]) /\ Len(f.items) = 3 /\ IsExpression(f.items[3])
     \/ LET head == f.items[2] IN
        /\ IsList(head) /\ head.items # <<>> /\ IsIdent(head.items[1])
        /\ IsFormals(From(2, head.items), 0)
        /\ IsBody(From(3, f.items))

IsProgram(tokens) ==
  LET IsCommandOrDefinition(f) == IF StartsWith(f, "define") THEN IsDefinition(f)
                                                             ELSE IsExpression(f)
  IN  tokens # <<>> /\ Balanced(tokens) /\ All(IsCommandOrDefinition, Forms(tokens))
=============================================================================
