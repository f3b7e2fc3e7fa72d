----------------------------- MODULE MCFrontend -----------------------------
(* Instances of Frontend for TLC: all short inputs over the words of the   *)
(* syntax and an identifier, brackets left open or not, nested forms       *)
(* around calls, and longer inputs with one mistake or one string.         *)
EXTENDS Frontend

Word(w) == Token(KindOf(w), w)
L == Token("delimiter", "(")
R == Token("delimiter", ")")

QuoteMark == Token("quote", "'")
Dot == Token("period", ".")

AllWords ==
  {L, R, QuoteMark, Dot}
  \cup {Word(w) : w \in {"x", "define", "quote", "if", "cond", "else", "let", "lambda", "set!"}}
\* Strings, and identifiers between bars, that are spelt like a word of the syntax.
Lookalikes == {t \in {Token(kind, text) : kind \in {"string", "ident"}, text \in ToldByText} :
                 IsMisread(t)}
AllTokens == AllWords \cup {Token("string", w) : w \in {")", "x"}}

In(s) == <<L>> \o s \o <<R>>
W(w) == <<Word(w)>>

\* One form around two parts, which may again be forms.
Around(P) ==
  {In(a \o b) : a, b \in P}
  \cup {In(W("if") \o a \o b \o a) : a, b \in P}
  \cup {In(W("and") \o a \o b) : a, b \in P}
  \cup {In(W("lambda") \o In(<<>>) \o b) : b \in P}
  \cup {In(W("cond") \o In(a \o b)) : a, b \in P}
  \cup {In(W("cond") \o In(a) \o In(W("else") \o b)) : a, b \in P}
  \cup {In(W("let") \o In(In(W("x") \o a)) \o b) : a, b \in P}
  \cup {In(W("set!") \o W("x") \o a) : a \in P}

Leaves == {W("x"), In(W("f"))}
Nested ==
  {In(W("define") \o In(W("f") \o W("x")) \o b) :
     b \in Around(Leaves \cup Around({In(W("f"))}))}

\* Inputs with a single mistake in them: a token too few or too many, another one, or
\* two in each other's place.
x == W("x")
Definition == In(W("define") \o x \o x)
Good ==
  {In(W("define") \o In(W("f") \o x \o <<Dot>> \o x) \o Definition \o x),
   In(W("let") \o In(In(x \o x) \o In(x \o In(x))) \o Definition \o x),
   In(W("cond") \o In(x) \o In(x \o x) \o In(W("else") \o x \o x)),
   In(W("cond") \o In(W("else") \o x)),
   In(W("lambda") \o In(x \o x) \o Definition \o Definition \o x),
   In(W("if") \o In(x) \o In(W("set!") \o x \o x) \o <<QuoteMark>> \o In(x)),
   In(W("quote") \o In(x \o In(x \o x) \o <<Dot>> \o In(<<>>)))}
Edits(s) == {RemoveAt(s, i) : i \in DOMAIN s}
            \cup {[s EXCEPT ![i] = t] : i \in DOMAIN s, t \in AllTokens \cup Lookalikes}
            \cup {InsertAt(s, i, t) : i \in DOMAIN s, t \in AllTokens \cup Lookalikes}
            \cup {[s EXCEPT ![i] = s[j], ![j] = s[i]] : i, j \in DOMAIN s}
Mistakes == UNION {Edits(s) : s \in Good}

SampleInputs == Nested \cup Good \cup Mistakes
=============================================================================
