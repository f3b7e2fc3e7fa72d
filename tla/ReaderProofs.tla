---------------------------- MODULE ReaderProofs ----------------------------
(***************************************************************************)
(* Reading and scanning, for texts of any length.  The two counts of       *)
(* brackets are compared through the states the reader went through, one   *)
(* for each character of the line (Trace): the scanner, which jumps from   *)
(* the end of a token to the end of the next one, only stops where the     *)
(* reader was outside strings, bars and, up to the end of a line, comments.*)
(***************************************************************************)
EXTENDS Reader, CommonLemmas, FiniteSetTheorems, TLAPS

-----------------------------------------------------------------------------
(* The inductive invariant *)

Kinds == {"true", "false", "undefined", "quote", "(", ")", "string", "barred",
          "integer", "floating", "period", "keyword", "ident"}
Tokens == [kind : Kinds, from : Nat \ {0}, to : Nat]

Types ==
  /\ alphabet \in SUBSET Character
  /\ phase \in {"read", "scan", "scanned", "exited"} /\ source \in {"line", "file"}
  /\ buffer \in Seq(Character) /\ bufsize \in Nat /\ top \in Int /\ open \in Int
  /\ commenting \in BOOLEAN /\ in_string \in BOOLEAN /\ in_vbars \in BOOLEAN
  /\ c \in 1 .. Len(buffer) + 1
  /\ tokens \in Seq(Tokens) /\ lexical_error \in BOOLEAN
  /\ brackets_left \in Nat /\ left_before \in Nat

\* The buffer of a line has room for a NUL.
Buffer ==
  /\ top < bufsize /\ bufsize >= 2
  /\ source = "line" => Len(buffer) < bufsize

\* Nothing is scanned while a text is read; its tokens lie one behind another
\* and before c.
Ordered ==
  /\ phase = "read" => c = 1 /\ tokens = <<>> /\ ~lexical_error /\ left_before = 0
  /\ \A i \in DOMAIN tokens : tokens[i].from <= tokens[i].to + 1 /\ tokens[i].to < c
  /\ \A i, j \in DOMAIN tokens : i < j => tokens[i].to < tokens[j].from

\* The model's bound on open brackets: those to come have been counted.
OpenAt(s, from) == {i \in DOMAIN s : i >= from /\ s[i] = "("}
Brackets ==
  /\ brackets_left <= MaxBrackets
  /\ phase \in {"read", "scan"} =>
       Cardinality(OpenAt(buffer, c)) + brackets_left <= MaxBrackets

-----------------------------------------------------------------------------
(* Characters and places *)

LEMMA AtFacts ==
  ASSUME Types
  PROVE  /\ Len(buffer) \in Nat /\ DOMAIN buffer = 1 .. Len(buffer)
         /\ "NUL" \notin Character
         /\ \A n \in 1 .. Len(buffer) : At(n) = buffer[n] /\ At(n) \in Character
         /\ \A n : n \notin 1 .. Len(buffer) => At(n) = "NUL"
<1>1. Len(buffer) \in Nat /\ DOMAIN buffer = 1 .. Len(buffer)
  BY LenProperties DEF Types
<1>2. "NUL" \notin Character
  BY DEF Character, Digits, Letters, Special, Signs, Blanks
<1>3. \A n \in 1 .. Len(buffer) : buffer[n] \in Character
  BY <1>1, ElementOfSeq DEF Types
<1> QED
  BY <1>1, <1>2, <1>3 DEF At

LEMMA FindFacts ==
  ASSUME Types, NEW n \in 1 .. Len(buffer) + 1, NEW chars
  PROVE  /\ Find(n, chars) \in n .. Len(buffer) + 1
         /\ Find(n, chars) = Len(buffer) + 1 \/ At(Find(n, chars)) \in chars
         /\ \A i \in n .. Find(n, chars) - 1 : At(i) \notin chars
<1> DEFINE P(e) == /\ e = Len(buffer) + 1 \/ At(e) \in chars
                   /\ \A i \in n .. e - 1 : At(i) \notin chars
           T == {e \in n .. Len(buffer) + 1 : e = Len(buffer) + 1 \/ At(e) \in chars}
<1>1. Len(buffer) \in Nat
  BY AtFacts
<1>2. T \in SUBSET Nat /\ T # {}
  <2>1. Len(buffer) + 1 \in T
    BY <1>1
  <2> QED
    BY <1>1, <2>1
<1>3. PICK e \in T : \A m \in T : e <= m
  BY <1>2, LeastNatural
<1>4. P(e) /\ e \in n .. Len(buffer) + 1
  <2>1. ASSUME NEW i \in n .. e - 1
        PROVE  At(i) \notin chars
    <3>1. i \in n .. Len(buffer) + 1 /\ ~(e <= i)
      BY <1>1, <1>3
    <3> QED
      BY <1>3, <3>1
  <2> QED
    BY <1>3, <2>1
<1>5. Find(n, chars) = CHOOSE x \in n .. Len(buffer) + 1 : P(x)
  BY DEF Find
<1>6. Find(n, chars) \in n .. Len(buffer) + 1 /\ P(Find(n, chars))
  <2> HIDE DEF P
  <2> QED
    BY <1>4, <1>5
<1> QED
  BY <1>6

LEMMA WordEndFacts ==
  ASSUME Types, NEW n \in 1 .. Len(buffer) + 1
  PROVE  /\ WordEnd(n) \in n .. Len(buffer) + 1
         /\ ~is_ident_valid(WordEnd(n))
         /\ \A i \in n .. WordEnd(n) - 1 : is_ident_valid(i)
<1> DEFINE P(e) == /\ ~is_ident_valid(e)
                   /\ \A i \in n .. e - 1 : is_ident_valid(i)
           T == {e \in n .. Len(buffer) + 1 : ~is_ident_valid(e)}
<1>1. Len(buffer) \in Nat /\ ~is_ident_valid(Len(buffer) + 1)
  <2>1. At(Len(buffer) + 1) = "NUL" /\ Len(buffer) \in Nat
    BY AtFacts
  <2> QED
    BY <2>1 DEF is_ident_valid, Digits, Letters, Special, Signs
<1>2. T \in SUBSET Nat /\ T # {}
  <2>1. Len(buffer) + 1 \in T
    BY <1>1
  <2> QED
    BY <1>1, <2>1
<1>3. PICK e \in T : \A m \in T : e <= m
  BY <1>2, LeastNatural
<1>4. P(e) /\ e \in n .. Len(buffer) + 1
  <2>1. ASSUME NEW i \in n .. e - 1
        PROVE  is_ident_valid(i)
    <3>1. i \in n .. Len(buffer) + 1 /\ ~(e <= i)
      BY <1>1, <1>3
    <3> QED
      BY <1>3, <3>1
  <2> QED
    BY <1>3, <2>1
<1>5. WordEnd(n) = CHOOSE x \in n .. Len(buffer) + 1 : P(x)
  BY DEF WordEnd
<1>6. WordEnd(n) \in n .. Len(buffer) + 1 /\ P(WordEnd(n))
  <2> HIDE DEF P
  <2> QED
    BY <1>4, <1>5
<1> QED
  BY <1>6

\* Where an iteration of tokenize's loop looks.
LEMMA HereFacts ==
  ASSUME Types, At(c) # "NUL"
  PROVE  /\ c \in 1 .. Len(buffer) /\ Here \in 1 .. Len(buffer) + 1
         /\ (At(c) \in Blanks /\ Here = c + 1) \/ (At(c) \notin Blanks /\ Here = c)
         /\ At(Here) # "NUL" => Here \in 1 .. Len(buffer)
<1>1. Len(buffer) \in Nat
  BY AtFacts
<1>2. c \in 1 .. Len(buffer)
  BY AtFacts
<1>3. At(Here) # "NUL" => Here \in 1 .. Len(buffer)
  BY AtFacts
<1> QED
  BY <1>1, <1>2, <1>3 DEF Here

-----------------------------------------------------------------------------
(* The steps of the scan: it stops, moves over blanks or a comment, or adds  *)
(* a token, by what is written from c on.                                    *)

Stops == /\ phase' = "scanned" /\ lexical_error' \in BOOLEAN
         /\ (lexical_error' \/ (At(c) = "NUL" /\ UNCHANGED lexical_error))
         /\ UNCHANGED <<c, tokens, brackets_left>>
Moves == /\ c' \in c .. Len(buffer) + 1
         /\ \/ At(c) \in Blanks /\ c' = c + 1
            \/ At(Here) = "semi" /\ c' = Find(Here, {"nl"})
         /\ UNCHANGED <<phase, tokens, lexical_error, brackets_left>>
Beside(k, from, to, i) ==
  \/ At(i) = "#" /\ k \in {"true", "false", "undefined"} /\ i = from - 1
  \/ At(i) = "dq" /\ k = "string" /\ i \in {from - 1, to + 1}
  \/ At(i) = "bar" /\ k = "barred" /\ i \in {from - 1, to + 1}
Scans(k, from, to, next) ==
  /\ k \in Kinds /\ from \in c .. Len(buffer) + 1 /\ from \in Nat \ {0}
  /\ to \in Nat /\ next \in c .. Len(buffer) + 1
  /\ from <= to + 1 /\ to < next
  /\ \A i \in c .. next - 1 :
       i \in from .. to \/ At(i) \in Blanks \/ Beside(k, from, to, i)
  /\ k \in {"(", ")"} => from = to /\ At(from) = k
  /\ k = ")" => brackets_left > 0
  /\ brackets_left' = IF k = "(" THEN brackets_left + 1
                      ELSE IF k = ")" THEN brackets_left - 1 ELSE brackets_left
  /\ new_token(k, from, to, next) /\ UNCHANGED phase

LEMMA WordScans ==
  ASSUME Types, Word
  PROVE  \E k \in {"integer", "floating", "period", "keyword", "ident"} :
           Scans(k, Here, WordEnd(Here) - 1, WordEnd(Here))
<1>1. /\ At(c) # "NUL" /\ is_ident_valid(Here) /\ Go
      /\ \E k \in {"integer", "floating", "period", "keyword", "ident"} :
           new_token(k, Here, WordEnd(Here) - 1, WordEnd(Here))
  BY DEF Word, Iterating, is_ident_valid
<1>2. PICK k \in {"integer", "floating", "period", "keyword", "ident"} :
        new_token(k, Here, WordEnd(Here) - 1, WordEnd(Here))
  BY <1>1
<1>3. Len(buffer) \in Nat
  BY AtFacts
<1>4. /\ c \in 1 .. Len(buffer) /\ Here \in 1 .. Len(buffer) + 1
      /\ (At(c) \in Blanks /\ Here = c + 1) \/ Here = c
  BY <1>1, HereFacts
<1>5. /\ WordEnd(Here) \in Here .. Len(buffer) + 1 /\ ~is_ident_valid(WordEnd(Here))
  BY <1>4, WordEndFacts
<1>6. WordEnd(Here) # Here
  BY <1>1, <1>5
<1>7. PICK h, e : h = Here /\ e = WordEnd(Here)
  OBVIOUS
<1>8. \A i \in c .. e - 1 : i \in h .. e - 1 \/ At(i) \in Blanks
  BY <1>3, <1>4, <1>5, <1>7
<1>9. Scans(k, h, e - 1, e)
  BY <1>1, <1>2, <1>3, <1>4, <1>5, <1>6, <1>7, <1>8 DEF Scans, Go, Kinds
<1> QED
  BY <1>7, <1>9

LEMMA SharpScans ==
  ASSUME Types, Sharp
  PROVE  \E k \in {"true", "false", "undefined"} :
           Scans(k, Here + 1, WordEnd(Here + 1) - 1, WordEnd(Here + 1))
<1>1. /\ At(c) # "NUL" /\ At(Here) = "#" /\ Go
      /\ \E k \in {"true", "false", "undefined"} :
           new_token(k, Here + 1, WordEnd(Here + 1) - 1, WordEnd(Here + 1))
  BY DEF Sharp, Iterating, SharpKind
<1>2. PICK k \in {"true", "false", "undefined"} :
        new_token(k, Here + 1, WordEnd(Here + 1) - 1, WordEnd(Here + 1))
  BY <1>1
<1>3. Len(buffer) \in Nat
  BY AtFacts
<1>4. /\ c \in 1 .. Len(buffer) /\ Here \in 1 .. Len(buffer)
      /\ (At(c) \in Blanks /\ Here = c + 1) \/ Here = c
  BY <1>1, HereFacts
<1>5. WordEnd(Here + 1) \in Here + 1 .. Len(buffer) + 1
  <2>1. Here + 1 \in 1 .. Len(buffer) + 1
    BY <1>3, <1>4
  <2> QED
    BY <2>1, WordEndFacts
<1>6. PICK h, e : h = Here /\ e = WordEnd(Here + 1)
  OBVIOUS
<1>7. \A i \in c .. e - 1 : i \in h + 1 .. e - 1 \/ At(i) \in Blanks
                            \/ (i = (h + 1) - 1 /\ At(i) = "#")
  BY <1>1, <1>3, <1>4, <1>5, <1>6
<1>8. Scans(k, h + 1, e - 1, e)
  BY <1>1, <1>2, <1>3, <1>4, <1>5, <1>6, <1>7 DEF Scans, Go, Kinds, Beside
<1> QED
  BY <1>6, <1>8

\* A token of one character: brackets and the quote.
LEMMA SingleScans ==
  ASSUME Types, phase = "scan", At(c) # "NUL", At(Here) # "NUL",
         NEW k \in Kinds, k \in {"(", ")"} => At(Here) = k,
         k = ")" => brackets_left > 0,
         brackets_left' = IF k = "(" THEN brackets_left + 1
                          ELSE IF k = ")" THEN brackets_left - 1 ELSE brackets_left,
         new_token(k, Here, Here, Here + 1), UNCHANGED phase
  PROVE  Scans(k, Here, Here, Here + 1)
<1>1. Len(buffer) \in Nat
  BY AtFacts
<1>2. /\ c \in 1 .. Len(buffer) /\ Here \in 1 .. Len(buffer)
      /\ (At(c) \in Blanks /\ Here = c + 1) \/ Here = c
  BY HereFacts
<1>3. PICK h : h = Here
  OBVIOUS
<1>4. \A i \in c .. (h + 1) - 1 : i \in h .. h \/ At(i) \in Blanks
  BY <1>1, <1>2, <1>3
<1>5. Scans(k, h, h, h + 1)
  BY <1>1, <1>2, <1>3, <1>4 DEF Scans
<1> QED
  BY <1>3, <1>5

LEMMA EnclosedScans ==
  ASSUME Types, NEW mark, NEW kind,
         (mark = "dq" /\ kind = "string") \/ (mark = "bar" /\ kind = "barred"),
         Enclosed(mark, kind)
  PROVE  \/ Stops
         \/ /\ Find(Here + 1, {mark}) \in Here + 1 .. Len(buffer)
            /\ At(Here) = mark /\ At(Find(Here + 1, {mark})) = mark
            /\ \A i \in Here + 1 .. Find(Here + 1, {mark}) - 1 : At(i) # mark
            /\ Scans(kind, Here + 1, Find(Here + 1, {mark}) - 1, Find(Here + 1, {mark}) + 1)
<1>1. At(c) # "NUL" /\ At(Here) = mark
  BY DEF Enclosed, Iterating
<1>2. mark # "NUL" /\ kind \in Kinds /\ kind \notin {"(", ")"}
  BY DEF Kinds
<1>3. Len(buffer) \in Nat
  BY AtFacts
<1>4. /\ c \in 1 .. Len(buffer) /\ Here \in 1 .. Len(buffer)
      /\ (At(c) \in Blanks /\ Here = c + 1) \/ Here = c
  BY <1>1, <1>2, HereFacts
<1>5. PICK h : h = Here
  OBVIOUS
<1>6. PICK e : e = Find(Here + 1, {mark})
  OBVIOUS
<1>7. /\ e \in h + 1 .. Len(buffer) + 1
      /\ e = Len(buffer) + 1 \/ At(e) = mark
      /\ \A i \in h + 1 .. e - 1 : At(i) # mark
  <2>1. h + 1 \in 1 .. Len(buffer) + 1
    BY <1>3, <1>4, <1>5
  <2> QED
    BY <1>5, <1>6, <2>1, FindFacts
<1>8. CASE At(e) = "NUL"
  BY <1>6, <1>8 DEF Enclosed, error_at, Stops
<1>9. CASE At(e) # "NUL"
  <2>1. new_token(kind, h + 1, e - 1, e + 1) /\ UNCHANGED <<phase, brackets_left>>
    BY <1>5, <1>6, <1>9 DEF Enclosed
  <2>2. e \in h + 1 .. Len(buffer)
    <3>1. e \in 1 .. Len(buffer)
      BY <1>9, AtFacts
    <3> QED
      BY <1>3, <1>4, <1>5, <1>7, <3>1
  <2>3. At(e) = mark
    BY <1>3, <1>7, <2>2
  <2>4. \A i \in c .. (e + 1) - 1 :
          i \in h + 1 .. e - 1 \/ At(i) \in Blanks
          \/ (i \in {(h + 1) - 1, (e - 1) + 1} /\ At(i) = mark)
    BY <1>1, <1>3, <1>4, <1>5, <2>2, <2>3
  <2>5. Scans(kind, h + 1, e - 1, e + 1)
    BY <1>2, <1>3, <1>4, <1>5, <2>1, <2>2, <2>4 DEF Scans, Beside
  <2> QED
    BY <1>1, <1>5, <1>6, <1>7, <2>2, <2>3, <2>5
<1> QED
  BY <1>8, <1>9

LEMMA SkipMoves ==
  ASSUME Types, Skip
  PROVE  Moves /\ At(c) \in Blanks
<1>1. /\ At(c) # "NUL" /\ At(Here) \in Blanks \cup {"NUL"} /\ c' = Here
      /\ UNCHANGED <<phase, tokens, lexical_error, brackets_left>>
  BY DEF Skip, Iterating, Go
<1>2. /\ c \in 1 .. Len(buffer) /\ Here \in 1 .. Len(buffer) + 1
      /\ (At(c) \in Blanks /\ Here = c + 1) \/ (At(c) \notin Blanks /\ Here = c)
  BY <1>1, HereFacts
<1>3. Len(buffer) \in Nat
  BY AtFacts
<1>4. At(c) \in Blanks /\ Here = c + 1
  BY <1>1, <1>2
<1> QED
  BY <1>1, <1>2, <1>3, <1>4 DEF Moves

LEMMA CommentMoves ==
  ASSUME Types, Comment
  PROVE  Moves /\ At(Here) = "semi" /\ c' = Find(Here, {"nl"}) /\ Here \in 1 .. Len(buffer)
<1>1. /\ At(c) # "NUL" /\ At(Here) = "semi" /\ c' = Find(Here, {"nl"})
      /\ UNCHANGED <<phase, tokens, lexical_error, brackets_left>>
  BY DEF Comment, Iterating, Go
<1>2. /\ c \in 1 .. Len(buffer) /\ Here \in 1 .. Len(buffer)
      /\ (At(c) \in Blanks /\ Here = c + 1) \/ Here = c
  BY <1>1, HereFacts
<1>3. Len(buffer) \in Nat
  BY AtFacts
<1>4. PICK h : h = Here
  OBVIOUS
<1>5. Find(h, {"nl"}) \in h .. Len(buffer) + 1
  <2>1. h \in 1 .. Len(buffer) + 1
    BY <1>2, <1>3, <1>4
  <2> QED
    BY <2>1, FindFacts
<1>6. c' \in c .. Len(buffer) + 1
  BY <1>1, <1>2, <1>3, <1>4, <1>5
<1> QED
  BY <1>1, <1>2, <1>6 DEF Moves

LEMMA ScanCases ==
  ASSUME Types, ScanStep
  PROVE  /\ phase = "scan" /\ UNCHANGED <<alphabet, source, reading, left_before>>
         /\ \/ Stops \/ Moves
            \/ \E k \in Kinds, from, to, next \in Nat : Scans(k, from, to, next)
<1> DEFINE Some == \E k \in Kinds, from, to, next \in Nat : Scans(k, from, to, next)
<1>1. phase = "scan" /\ Others
  BY DEF ScanStep, Skip, Comment, Sharp, Quote, OpenBracket, CloseBracket, Enclosed,
         Word, InvalidCharacter, EndOfText, Iterating, Go
<1>2. ASSUME NEW k, NEW from, NEW to, NEW next, Scans(k, from, to, next)
      PROVE  Some
  <2>1. Len(buffer) \in Nat /\ c \in Nat
    BY AtFacts DEF Types
  <2>2. k \in Kinds /\ from \in Nat /\ to \in Nat /\ next \in Nat
    BY <1>2, <2>1 DEF Scans
  <2> QED
    BY <1>2, <2>2
<1> SUFFICES Stops \/ Moves \/ Some
  BY <1>1 DEF Others
<1> HIDE DEF Some
<1>3. CASE Skip \/ Comment
  BY <1>3, SkipMoves, CommentMoves
<1>4. CASE Sharp
  BY <1>2, <1>4, SharpScans
<1>5. CASE Word
  BY <1>2, <1>5, WordScans
<1>6. CASE Enclosed("dq", "string") \/ Enclosed("bar", "barred")
  BY <1>2, <1>6, EnclosedScans
<1>7. CASE Quote
  <2>1. /\ At(c) # "NUL" /\ At(Here) # "NUL" /\ new_token("quote", Here, Here, Here + 1)
        /\ UNCHANGED <<phase, brackets_left>>
    BY <1>7 DEF Quote, Iterating, Go
  <2>2. Scans("quote", Here, Here, Here + 1)
    BY <1>1, <2>1, SingleScans DEF Kinds
  <2> QED
    BY <1>2, <2>2
<1>8. CASE OpenBracket
  <2>1. /\ At(c) # "NUL" /\ At(Here) = "(" /\ new_token("(", Here, Here, Here + 1)
        /\ UNCHANGED phase /\ brackets_left' = brackets_left + 1
    BY <1>8 DEF OpenBracket, Iterating
  <2>2. Scans("(", Here, Here, Here + 1)
    BY <1>1, <2>1, SingleScans DEF Kinds
  <2> QED
    BY <1>2, <2>2
<1>9. CASE CloseBracket
  <2>1. At(c) # "NUL" /\ At(Here) = ")" /\ brackets_left \in Nat
    BY <1>9 DEF CloseBracket, Iterating, Types
  <2>2. CASE brackets_left <= 0
    BY <1>9, <2>2 DEF CloseBracket, error_at, Stops
  <2>3. CASE ~(brackets_left <= 0)
    <3>1. /\ new_token(")", Here, Here, Here + 1)
          /\ UNCHANGED phase /\ brackets_left' = brackets_left - 1
      BY <1>9, <2>3 DEF CloseBracket
    <3>2. Scans(")", Here, Here, Here + 1)
      BY <1>1, <2>1, <2>3, <3>1, SingleScans DEF Kinds
    <3> QED
      BY <1>2, <3>2
  <2> QED
    BY <2>2, <2>3
<1>10. CASE InvalidCharacter
  BY <1>10 DEF InvalidCharacter, error_at, Stops
<1>11. CASE EndOfText
  <2>1. /\ At(c) = "NUL" /\ phase' = "scanned"
        /\ UNCHANGED <<c, tokens, lexical_error, brackets_left>>
    BY <1>11 DEF EndOfText, scanning
  <2>2. lexical_error' \in BOOLEAN
    BY <2>1 DEF Types
  <2> QED
    BY <2>1, <2>2 DEF Stops
<1> QED
  BY <1>3, <1>4, <1>5, <1>6, <1>7, <1>8, <1>9, <1>10, <1>11 DEF ScanStep

-----------------------------------------------------------------------------
(* Types, the buffer, the order of tokens *)

BInv == Types /\ Buffer /\ Ordered /\ Brackets

\* A character more in the text.
LEMMA AppendFacts ==
  ASSUME Types, NEW ch \in Character, buffer' = Append(buffer, ch)
  PROVE  /\ buffer' \in Seq(Character) /\ Len(buffer') = Len(buffer) + 1
         /\ buffer'[Len(buffer) + 1] = ch
         /\ \A i \in 1 .. Len(buffer) : buffer'[i] = buffer[i]
         /\ DOMAIN buffer' = 1 .. Len(buffer) + 1 /\ DOMAIN buffer = 1 .. Len(buffer)
         /\ Len(buffer) \in Nat
<1>1. buffer \in Seq(Character) /\ Len(buffer) \in Nat
  BY AtFacts DEF Types
<1>2. /\ Append(buffer, ch) \in Seq(Character)
      /\ Len(Append(buffer, ch)) = Len(buffer) + 1
      /\ \A i \in 1 .. Len(buffer) : Append(buffer, ch)[i] = buffer[i]
      /\ Append(buffer, ch)[Len(buffer) + 1] = ch
  BY <1>1, AppendProperties
<1>3. /\ DOMAIN buffer = 1 .. Len(buffer) /\ DOMAIN buffer' = 1 .. Len(buffer) + 1
  BY <1>1, <1>2, LenProperties
<1> QED
  BY <1>1, <1>2, <1>3

LEMMA TokenTypes ==
  ASSUME Types, NEW i \in DOMAIN tokens
  PROVE  tokens[i] \in Tokens /\ tokens[i].from \in Nat /\ tokens[i].to \in Nat
<1>1. tokens[i] \in Tokens
  BY ElementOfSeq DEF Types
<1> QED
  BY <1>1 DEF Tokens

\* A token more.
LEMMA TokenFacts ==
  ASSUME Types, NEW k, NEW from, NEW to, NEW next, Scans(k, from, to, next)
  PROVE  /\ tokens' \in Seq(Tokens) /\ Len(tokens') = Len(tokens) + 1
         /\ tokens'[Len(tokens) + 1] = [kind |-> k, from |-> from, to |-> to]
         /\ \A i \in 1 .. Len(tokens) : tokens'[i] = tokens[i]
         /\ DOMAIN tokens' = 1 .. Len(tokens) + 1 /\ DOMAIN tokens = 1 .. Len(tokens)
         /\ Len(tokens) \in Nat
<1>1. PICK t \in Tokens : t = [kind |-> k, from |-> from, to |-> to]
  BY DEF Scans, Tokens
<1>2. tokens' = Append(tokens, t)
  BY <1>1 DEF Scans, new_token
<1>3. tokens \in Seq(Tokens) /\ Len(tokens) \in Nat
  BY LenProperties DEF Types
<1>4. /\ Append(tokens, t) \in Seq(Tokens)
      /\ Len(Append(tokens, t)) = Len(tokens) + 1
      /\ \A i \in 1 .. Len(tokens) : Append(tokens, t)[i] = tokens[i]
      /\ Append(tokens, t)[Len(tokens) + 1] = t
  BY <1>3, AppendProperties
<1>5. /\ DOMAIN tokens = 1 .. Len(tokens) /\ DOMAIN tokens' = 1 .. Len(tokens) + 1
  BY <1>2, <1>3, <1>4, LenProperties
<1> QED
  BY <1>1, <1>2, <1>3, <1>4, <1>5

\* The brackets to come.
LEMMA OpenFacts ==
  ASSUME Types, NEW n \in Nat
  PROVE  IsFiniteSet(OpenAt(buffer, n)) /\ Cardinality(OpenAt(buffer, n)) \in Nat
<1>1. Len(buffer) \in Nat /\ DOMAIN buffer = 1 .. Len(buffer)
  BY AtFacts
<1>2. IsFiniteSet(1 .. Len(buffer))
  BY <1>1, FS_Interval
<1>3. OpenAt(buffer, n) \subseteq 1 .. Len(buffer)
  BY <1>1 DEF OpenAt
<1> QED
  BY <1>2, <1>3, FS_Subset, FS_CardinalityType

LEMMA OpenAhead ==
  ASSUME Types, NEW n \in Nat, NEW m \in Nat, n <= m
  PROVE  /\ Cardinality(OpenAt(buffer, m)) <= Cardinality(OpenAt(buffer, n))
         /\ n < m /\ n \in 1 .. Len(buffer) /\ At(n) = "(" =>
              Cardinality(OpenAt(buffer, m)) + 1 <= Cardinality(OpenAt(buffer, n))
<1>1. /\ IsFiniteSet(OpenAt(buffer, n)) /\ IsFiniteSet(OpenAt(buffer, m))
      /\ Cardinality(OpenAt(buffer, n)) \in Nat /\ Cardinality(OpenAt(buffer, m)) \in Nat
  BY OpenFacts
<1>2. DOMAIN buffer = 1 .. Len(buffer) /\ Len(buffer) \in Nat
  BY AtFacts
<1>3. OpenAt(buffer, m) \subseteq OpenAt(buffer, n)
  BY <1>2 DEF OpenAt
<1>4. ASSUME n < m, n \in 1 .. Len(buffer), At(n) = "("
      PROVE  Cardinality(OpenAt(buffer, m)) + 1 <= Cardinality(OpenAt(buffer, n))
  <2>1. n \in OpenAt(buffer, n) /\ n \notin OpenAt(buffer, m)
    <3>1. buffer[n] = "("
      BY <1>4, AtFacts
    <3> QED
      BY <1>2, <1>4, <3>1 DEF OpenAt
  <2>2. OpenAt(buffer, m) \cup {n} \subseteq OpenAt(buffer, n)
    BY <1>3, <2>1
  <2>3. Cardinality(OpenAt(buffer, m) \cup {n}) = Cardinality(OpenAt(buffer, m)) + 1
    BY <1>1, <2>1, FS_AddElement
  <2>4. Cardinality(OpenAt(buffer, m) \cup {n}) <= Cardinality(OpenAt(buffer, n))
    BY <1>1, <2>2, FS_Subset
  <2> QED
    BY <2>3, <2>4
<1>5. Cardinality(OpenAt(buffer, m)) <= Cardinality(OpenAt(buffer, n))
  BY <1>1, <1>3, FS_Subset
<1> QED
  BY <1>4, <1>5

\* A character that is read leaves room for the brackets to come.
LEMMA AppendBracket ==
  ASSUME BInv, phase = "read", NEW ch \in Character, buffer' = Append(buffer, ch),
         UNCHANGED <<c, brackets_left>>,
         ch = "(" => Cardinality({i \in DOMAIN buffer : buffer[i] = "("}) + brackets_left
                       < MaxBrackets
  PROVE  Cardinality(OpenAt(buffer', c')) + brackets_left' <= MaxBrackets
<1>1. /\ DOMAIN buffer' = 1 .. Len(buffer) + 1 /\ DOMAIN buffer = 1 .. Len(buffer)
      /\ buffer'[Len(buffer) + 1] = ch /\ Len(buffer) \in Nat
      /\ \A i \in 1 .. Len(buffer) : buffer'[i] = buffer[i]
  BY AppendFacts DEF BInv
<1>2. c = 1 /\ c' = 1 /\ brackets_left' = brackets_left /\ brackets_left \in Nat
      /\ MaxBrackets \in Nat
  BY ReaderAssumption DEF BInv, Ordered, Types
<1>3. /\ OpenAt(buffer, 1) = {i \in DOMAIN buffer : buffer[i] = "("}
      /\ OpenAt(buffer', 1) = OpenAt(buffer, 1) \cup (IF ch = "(" THEN {Len(buffer) + 1} ELSE {})
      /\ Len(buffer) + 1 \notin OpenAt(buffer, 1)
  <2>1. OpenAt(buffer, 1) = {i \in DOMAIN buffer : buffer[i] = "("}
    BY <1>1 DEF OpenAt
  <2>2. Len(buffer) + 1 \notin OpenAt(buffer, 1)
    BY <1>1 DEF OpenAt
  <2>3. ASSUME NEW i
        PROVE  i \in OpenAt(buffer', 1) <=>
                 i \in OpenAt(buffer, 1) \/ (ch = "(" /\ i = Len(buffer) + 1)
    <3>1. CASE i \in 1 .. Len(buffer)
      <4>1. i \in 1 .. Len(buffer) + 1 /\ i # Len(buffer) + 1 /\ i >= 1
        BY <1>1, <3>1
      <4> QED
        BY <1>1, <3>1, <4>1 DEF OpenAt
    <3>2. CASE i = Len(buffer) + 1
      <4>1. i \in 1 .. Len(buffer) + 1 /\ i \notin 1 .. Len(buffer) /\ i >= 1
        BY <1>1, <3>2
      <4> QED
        BY <1>1, <3>2, <4>1 DEF OpenAt
    <3>3. CASE i \notin 1 .. Len(buffer) + 1
      <4>1. i \notin 1 .. Len(buffer) /\ i # Len(buffer) + 1
        BY <1>1, <3>3
      <4> QED
        BY <1>1, <3>3, <4>1 DEF OpenAt
    <3> QED
      BY <1>1, <3>1, <3>2, <3>3
  <2> QED
    BY <2>1, <2>2, <2>3
<1>4. IsFiniteSet(OpenAt(buffer, 1)) /\ Cardinality(OpenAt(buffer, 1)) \in Nat
  BY OpenFacts DEF BInv
<1>5. Cardinality(OpenAt(buffer, 1)) + brackets_left <= MaxBrackets
  BY <1>2 DEF BInv, Brackets
<1>6. CASE ch = "("
  <2>1. Cardinality(OpenAt(buffer', 1)) = Cardinality(OpenAt(buffer, 1)) + 1
    BY <1>3, <1>4, <1>6, FS_AddElement
  <2>2. Cardinality(OpenAt(buffer, 1)) + brackets_left < MaxBrackets
    BY <1>3, <1>6
  <2>3. PICK d : d = Cardinality(OpenAt(buffer, 1))
    OBVIOUS
  <2>4. Cardinality(OpenAt(buffer', 1)) + brackets_left <= MaxBrackets
    BY <1>2, <1>4, <2>1, <2>2, <2>3
  <2> QED
    BY <1>2, <2>4
<1>7. CASE ch # "("
  <2>1. OpenAt(buffer', 1) = OpenAt(buffer, 1)
    BY <1>3, <1>7
  <2> QED
    BY <1>2, <1>5, <2>1
<1> QED
  BY <1>6, <1>7

LEMMA ScanBInv ==
  ASSUME BInv, ScanStep
  PROVE  BInv'
<1>1. /\ phase = "scan" /\ UNCHANGED <<alphabet, source, reading, left_before>>
      /\ \/ Stops \/ Moves
         \/ \E k \in Kinds, from, to, next \in Nat : Scans(k, from, to, next)
  BY ScanCases DEF BInv
<1>2. UNCHANGED <<buffer, bufsize, top, open, commenting, in_string, in_vbars>>
  BY <1>1 DEF reading
<1>3. Types /\ Ordered /\ Brackets /\ Len(buffer) \in Nat /\ c \in Nat
      /\ brackets_left \in Nat /\ MaxBrackets \in Nat
  BY AtFacts, ReaderAssumption DEF BInv, Types
<1>4. Buffer'
  BY <1>1, <1>2 DEF BInv, Buffer
<1>5. ASSUME c' \in c .. Len(buffer) + 1, brackets_left' = brackets_left
      PROVE  Brackets'
  <2>1. Cardinality(OpenAt(buffer, c')) <= Cardinality(OpenAt(buffer, c))
    <3>1. c' \in Nat /\ c <= c'
      BY <1>3, <1>5
    <3> QED
      BY <1>3, <3>1, OpenAhead
  <2>2. Cardinality(OpenAt(buffer, c')) \in Nat /\ Cardinality(OpenAt(buffer, c)) \in Nat
    <3>1. c' \in Nat
      BY <1>3, <1>5
    <3> QED
      BY <1>3, <3>1, OpenFacts
  <2> QED
    BY <1>1, <1>2, <1>3, <1>5, <2>1, <2>2 DEF Brackets
<1>6. CASE Stops
  <2>1. Types' /\ Ordered'
    BY <1>1, <1>2, <1>3, <1>6 DEF Stops, Types, Ordered
  <2>2. Brackets'
    BY <1>3, <1>6 DEF Stops, Brackets
  <2> QED
    BY <1>4, <2>1, <2>2 DEF BInv
<1>7. CASE Moves
  <2>1. /\ c' \in c .. Len(buffer) + 1
        /\ UNCHANGED <<phase, tokens, lexical_error, brackets_left>>
    BY <1>7 DEF Moves
  <2>2. Types'
    BY <1>1, <1>2, <1>3, <2>1 DEF Types
  <2>3. \A i \in DOMAIN tokens : tokens[i].to \in Nat
    BY <1>3, TokenTypes
  <2>4. Ordered'
    BY <1>1, <1>3, <2>1, <2>3 DEF Ordered
  <2> QED
    BY <1>4, <1>5, <2>1, <2>2, <2>4 DEF BInv
<1>8. CASE \E k \in Kinds, from, to, next \in Nat : Scans(k, from, to, next)
  <2>1. PICK k \in Kinds, from \in Nat, to \in Nat, next \in Nat : Scans(k, from, to, next)
    BY <1>8
  <2>2. /\ tokens' \in Seq(Tokens) /\ Len(tokens') = Len(tokens) + 1
        /\ tokens'[Len(tokens) + 1] = [kind |-> k, from |-> from, to |-> to]
        /\ \A i \in 1 .. Len(tokens) : tokens'[i] = tokens[i]
        /\ DOMAIN tokens' = 1 .. Len(tokens) + 1 /\ DOMAIN tokens = 1 .. Len(tokens)
        /\ Len(tokens) \in Nat
    BY <1>3, <2>1, TokenFacts
  <2>3. /\ from \in c .. Len(buffer) + 1 /\ next \in c .. Len(buffer) + 1
        /\ from <= to + 1 /\ to < next /\ c' = next
        /\ UNCHANGED <<phase, lexical_error>>
        /\ k = "(" => from = to /\ At(from) = k
        /\ k = ")" => brackets_left > 0
        /\ brackets_left' = IF k = "(" THEN brackets_left + 1
                            ELSE IF k = ")" THEN brackets_left - 1 ELSE brackets_left
    BY <2>1 DEF Scans, new_token
  <2>4. brackets_left' \in Nat
    BY <1>3, <2>3
  <2>5. Types'
    BY <1>1, <1>2, <1>3, <2>2, <2>3, <2>4 DEF Types
  <2>6. /\ tokens'[Len(tokens) + 1].from = from /\ tokens'[Len(tokens) + 1].to = to
    BY <2>2
  <2>7. \A i \in 1 .. Len(tokens) : tokens[i].to \in Nat /\ tokens[i].from \in Nat
    BY <1>3, <2>2, TokenTypes
  <2>8. ASSUME NEW i \in DOMAIN tokens'
        PROVE  tokens'[i].from <= tokens'[i].to + 1 /\ tokens'[i].to < c'
    <3>1. CASE i = Len(tokens) + 1
      BY <2>3, <2>6, <3>1
    <3>2. CASE i # Len(tokens) + 1
      <4>1. i \in 1 .. Len(tokens) /\ tokens'[i] = tokens[i]
        BY <2>2, <3>2
      <4>2. tokens[i].from <= tokens[i].to + 1 /\ tokens[i].to < c
        BY <1>3, <2>2, <4>1 DEF Ordered
      <4> QED
        BY <1>3, <2>3, <2>7, <4>1, <4>2
    <3> QED
      BY <3>1, <3>2
  <2>9. ASSUME NEW i \in DOMAIN tokens', NEW j \in DOMAIN tokens', i < j
        PROVE  tokens'[i].to < tokens'[j].from
    <3>1. i \in 1 .. Len(tokens) /\ tokens'[i] = tokens[i]
      BY <2>2, <2>9
    <3>2. CASE j = Len(tokens) + 1
      <4>1. tokens[i].to < c
        BY <1>3, <2>2, <3>1 DEF Ordered
      <4> QED
        BY <1>3, <2>3, <2>6, <2>7, <3>1, <3>2, <4>1
    <3>3. CASE j # Len(tokens) + 1
      <4>1. j \in 1 .. Len(tokens) /\ tokens'[j] = tokens[j]
        BY <2>2, <3>3
      <4> QED
        BY <1>3, <2>2, <2>9, <3>1, <4>1 DEF Ordered
    <3> QED
      BY <3>2, <3>3
  <2>10. Ordered'
    BY <1>1, <2>3, <2>8, <2>9 DEF Ordered
  <2>11. Brackets'
    <3>1. /\ Cardinality(OpenAt(buffer, c)) \in Nat /\ Cardinality(OpenAt(buffer, next)) \in Nat
          /\ Cardinality(OpenAt(buffer, c)) + brackets_left <= MaxBrackets
          /\ brackets_left <= MaxBrackets
      BY <1>1, <1>3, OpenFacts DEF Brackets
    <3>2. CASE k = "("
      <4>1. /\ from \in 1 .. Len(buffer) /\ At(from) = "(" /\ from < next /\ c <= from
        BY <1>3, <2>3, <3>2, AtFacts
      <4>2. /\ Cardinality(OpenAt(buffer, from)) <= Cardinality(OpenAt(buffer, c))
            /\ Cardinality(OpenAt(buffer, next)) + 1 <= Cardinality(OpenAt(buffer, from))
        BY <1>3, <4>1, OpenAhead
      <4>3. Cardinality(OpenAt(buffer, from)) \in Nat
        BY <1>3, OpenFacts
      <4>4. /\ Cardinality(OpenAt(buffer, next)) + brackets_left' <= MaxBrackets
            /\ brackets_left' <= MaxBrackets
        BY <1>3, <2>3, <3>1, <3>2, <4>2, <4>3
      <4> QED
        BY <1>2, <2>3, <4>4 DEF Brackets
    <3>3. CASE k # "("
      <4>1. Cardinality(OpenAt(buffer, next)) <= Cardinality(OpenAt(buffer, c))
        BY <1>3, <2>3, OpenAhead
      <4>2. brackets_left' <= brackets_left
        BY <1>3, <2>3, <3>3
      <4>3. /\ Cardinality(OpenAt(buffer, next)) + brackets_left' <= MaxBrackets
            /\ brackets_left' <= MaxBrackets
        BY <1>3, <2>4, <3>1, <4>1, <4>2
      <4> QED
        BY <1>2, <2>3, <4>3 DEF Brackets
    <3> QED
      BY <3>2, <3>3
  <2> QED
    BY <1>4, <2>5, <2>10, <2>11 DEF BInv
<1> QED
  BY <1>1, <1>6, <1>7, <1>8

LEMMA EmptyText ==
  /\ <<>> \in Seq(Character) /\ Len(<<>>) = 0 /\ DOMAIN <<>> = {}
  /\ <<>> \in Seq(Tokens) /\ Cardinality(OpenAt(<<>>, 1)) = 0
<1>1. /\ <<>> \in Seq(Character) /\ Len(<<>>) = 0 /\ DOMAIN <<>> = {}
      /\ <<>> \in Seq(Tokens)
  BY EmptySeq
<1>2. OpenAt(<<>>, 1) = {}
  BY <1>1 DEF OpenAt
<1> QED
  BY <1>1, <1>2, FS_EmptySet

LEMMA InitBInv == Init => BInv
<1> SUFFICES ASSUME Init PROVE BInv
  OBVIOUS
<1>1. /\ buffer = <<>> /\ tokens = <<>> /\ c = 1 /\ brackets_left = 0
      /\ bufsize = READLINE_BUFSIZE /\ top = -1
      /\ READLINE_BUFSIZE \in Nat /\ READLINE_BUFSIZE >= 2 /\ MaxBrackets \in Nat
  BY ReaderAssumption DEF Init
<1>2. Types
  <2>1. buffer \in Seq(Character) /\ tokens \in Seq(Tokens) /\ Len(buffer) = 0
    BY <1>1, EmptyText
  <2>2. alphabet \in SUBSET Character
    BY ReaderAssumption DEF Init
  <2>3. c \in 1 .. Len(buffer) + 1
    BY <1>1, <2>1
  <2>4. top \in Int /\ bufsize \in Nat /\ open \in Int
    BY <1>1 DEF Init
  <2>5. /\ phase \in {"read", "scan", "scanned", "exited"} /\ source \in {"line", "file"}
        /\ commenting \in BOOLEAN /\ in_string \in BOOLEAN /\ in_vbars \in BOOLEAN
        /\ lexical_error \in BOOLEAN
        /\ brackets_left \in Nat /\ left_before \in Nat
    BY DEF Init
  <2> QED
    BY <2>1, <2>2, <2>3, <2>4, <2>5 DEF Types
<1>3. Buffer
  BY <1>1, EmptyText DEF Buffer
<1>4. Ordered
  BY <1>1, EmptyText DEF Init, Ordered
<1>5. Brackets
  BY <1>1, EmptyText DEF Brackets
<1> QED
  BY <1>2, <1>3, <1>4, <1>5 DEF BInv

\* The buffer is doubled in time.
LEMMA RoomStep ==
  ASSUME BInv, source = "line", NEW ch \in Character,
         buffer' = Append(buffer, ch), bufsize' = Room, UNCHANGED source,
         top' \in {Len(buffer), Len(buffer')}
  PROVE  Buffer' /\ bufsize' \in Nat /\ top' \in Int
<1>1. Len(buffer') = Len(buffer) + 1 /\ Len(buffer) \in Nat
  BY AppendFacts DEF BInv
<1>2. bufsize \in Nat /\ bufsize >= 2 /\ Len(buffer) < bufsize
  BY DEF BInv, Types, Buffer
<1>3. CASE Len(buffer) >= bufsize - 1
  BY <1>1, <1>2, <1>3 DEF Room, Buffer
<1>4. CASE ~(Len(buffer) >= bufsize - 1)
  BY <1>1, <1>2, <1>4 DEF Room, Buffer
<1> QED
  BY <1>3, <1>4

LEMMA ReadNewlineBInv ==
  ASSUME BInv, ReadNewline
  PROVE  BInv'
<1>1. /\ phase = "read" /\ source = "line" /\ "nl" \in Character
      /\ buffer' = Append(buffer, "nl") /\ bufsize' = Room /\ top' = Len(buffer')
      /\ ~commenting' /\ ~in_string' /\ ~in_vbars'
      /\ {commenting', in_string', in_vbars'} \subseteq BOOLEAN
      /\ UNCHANGED <<open, alphabet, source, scanning>>
      /\ (phase' = "read" /\ left_before' = left_before)
         \/ (phase' = "scan" /\ left_before' = brackets_left)
  BY DEF ReadNewline, Begin, Character, Blanks
<1>2. /\ Types /\ Ordered /\ Brackets
      /\ UNCHANGED <<c, tokens, lexical_error, brackets_left>>
  BY <1>1 DEF BInv, scanning
<1>3. buffer' \in Seq(Character) /\ Len(buffer') = Len(buffer) + 1 /\ Len(buffer) \in Nat
  BY <1>1, <1>2, AppendFacts
<1>4. Buffer' /\ bufsize' \in Nat /\ top' \in Int
  BY <1>1, RoomStep
<1>5. c \in 1 .. Len(buffer') + 1
  BY <1>2, <1>3 DEF Types
<1>6. Types'
  BY <1>1, <1>2, <1>3, <1>4, <1>5 DEF Types
<1>7. Ordered'
  BY <1>1, <1>2 DEF Ordered
<1>8. Brackets'
  BY <1>1, <1>2, AppendBracket DEF Brackets
<1> QED
  BY <1>4, <1>6, <1>7, <1>8 DEF BInv

LEMMA ReadCharBInv ==
  ASSUME BInv, NEW ch \in alphabet, ReadChar(ch)
  PROVE  BInv'
<1>1. /\ phase = "read" /\ source = "line" /\ Fits(ch, MaxLine)
      /\ buffer' = Append(buffer, ch) /\ bufsize' = Room /\ top' = Len(buffer)
      /\ {commenting', in_string', in_vbars'} \subseteq BOOLEAN
      /\ UNCHANGED <<alphabet, phase, source, scanning, left_before>>
  BY DEF ReadChar
<1>2. /\ Types /\ Ordered /\ Brackets /\ ch \in Character
      /\ UNCHANGED <<c, tokens, lexical_error, brackets_left>>
  BY <1>1 DEF BInv, scanning, Types
<1>3. buffer' \in Seq(Character) /\ Len(buffer') = Len(buffer) + 1 /\ Len(buffer) \in Nat
  BY <1>1, <1>2, AppendFacts
<1>4. Buffer' /\ bufsize' \in Nat /\ top' \in Int
  BY <1>1, <1>2, RoomStep
<1>5. c \in 1 .. Len(buffer') + 1
  BY <1>2, <1>3 DEF Types
<1>6. open' \in Int
  BY <1>2 DEF ReadChar, Types
<1>7. Types'
  BY <1>1, <1>2, <1>3, <1>4, <1>5, <1>6 DEF Types
<1>8. Ordered'
  BY <1>1, <1>2 DEF Ordered
<1>9. Brackets'
  BY <1>1, <1>2, AppendBracket DEF Brackets, Fits
<1> QED
  BY <1>4, <1>7, <1>8, <1>9 DEF BInv

LEMMA ReadFileBInv ==
  ASSUME BInv, NEW ch \in alphabet, ReadFile(ch)
  PROVE  BInv'
<1>1. /\ phase = "read" /\ source = "file" /\ Fits(ch, MaxFile)
      /\ buffer' = Append(buffer, ch)
      /\ UNCHANGED <<bufsize, top, open, commenting, in_string, in_vbars>>
      /\ UNCHANGED <<alphabet, phase, source, scanning, left_before>>
  BY DEF ReadFile
<1>2. /\ Types /\ Ordered /\ Brackets /\ Buffer /\ ch \in Character
      /\ UNCHANGED <<c, tokens, lexical_error, brackets_left>>
  BY <1>1 DEF BInv, scanning, Types
<1>3. buffer' \in Seq(Character) /\ Len(buffer') = Len(buffer) + 1 /\ Len(buffer) \in Nat
  BY <1>1, <1>2, AppendFacts
<1>4. Buffer'
  BY <1>1, <1>2 DEF Buffer
<1>5. c \in 1 .. Len(buffer') + 1
  BY <1>2, <1>3 DEF Types
<1>6. Types'
  BY <1>1, <1>2, <1>3, <1>5 DEF Types
<1>7. Ordered'
  BY <1>1, <1>2 DEF Ordered
<1>8. Brackets'
  BY <1>1, <1>2, AppendBracket DEF Brackets, Fits
<1> QED
  BY <1>4, <1>6, <1>7, <1>8 DEF BInv

LEMMA NextInputBInv ==
  ASSUME BInv, NextInput
  PROVE  BInv'
<1>1. /\ phase = "scanned" /\ phase' = "read" /\ source' \in {"line", "file"}
      /\ buffer' = <<>> /\ bufsize' = READLINE_BUFSIZE /\ top' = -1 /\ open' = 0
      /\ commenting' = FALSE /\ in_string' = FALSE /\ in_vbars' = FALSE
      /\ c' = 1 /\ tokens' = <<>> /\ lexical_error' = FALSE /\ left_before' = 0
      /\ UNCHANGED <<alphabet, brackets_left>>
  BY DEF NextInput
<1>3. /\ READLINE_BUFSIZE \in Nat /\ READLINE_BUFSIZE >= 2 /\ MaxBrackets \in Nat
      /\ brackets_left \in Nat /\ brackets_left <= MaxBrackets
  BY ReaderAssumption DEF BInv, Types, Brackets
<1>4. Types'
  <2>1. buffer' \in Seq(Character) /\ tokens' \in Seq(Tokens) /\ Len(buffer') = 0
    BY <1>1, EmptyText
  <2>2. c' \in 1 .. Len(buffer') + 1
    BY <1>1, <2>1
  <2>3. top' \in Int /\ bufsize' \in Nat /\ open' \in Int
    BY <1>1, <1>3
  <2>4. /\ phase' \in {"read", "scan", "scanned", "exited"} /\ source' \in {"line", "file"}
        /\ commenting' \in BOOLEAN /\ in_string' \in BOOLEAN /\ in_vbars' \in BOOLEAN
        /\ lexical_error' \in BOOLEAN
        /\ brackets_left' \in Nat /\ left_before' \in Nat
    BY <1>1, <1>3
  <2>5. alphabet' \in SUBSET Character
    BY <1>1 DEF BInv, Types
  <2> QED
    BY <2>1, <2>2, <2>3, <2>4, <2>5 DEF Types
<1>5. Buffer'
  BY <1>1, <1>3, EmptyText DEF Buffer
<1>6. Ordered'
  BY <1>1, EmptyText DEF Ordered
<1>7. Brackets'
  BY <1>1, <1>3, EmptyText DEF Brackets
<1> QED
  BY <1>4, <1>5, <1>6, <1>7 DEF BInv

LEMMA StepBInv == BInv /\ [Next]_vars => BInv'
<1> SUFFICES ASSUME BInv, [Next]_vars PROVE BInv'
  OBVIOUS
<1>1. CASE ReadNewline
  BY <1>1, ReadNewlineBInv
<1>2. CASE \E ch \in alphabet : ReadChar(ch) \/ ReadFile(ch)
  BY <1>2, ReadCharBInv, ReadFileBInv
<1>3. CASE Eof
  BY <1>3 DEF Eof, reading, scanning, BInv, Types, Buffer, Ordered, Brackets
<1>4. CASE EndOfFile
  <2>1. /\ phase = "read" /\ phase' = "scan" /\ left_before' = brackets_left
        /\ UNCHANGED <<buffer, bufsize, top, open, commenting, in_string, in_vbars>>
        /\ UNCHANGED <<alphabet, source, c, tokens, lexical_error, brackets_left>>
    BY <1>4 DEF EndOfFile, Begin, reading, scanning
  <2> QED
    BY <2>1 DEF BInv, Types, Buffer, Ordered, Brackets
<1>5. CASE ScanStep
  BY <1>5, ScanBInv
<1>6. CASE NextInput
  BY <1>6, NextInputBInv
<1>7. CASE UNCHANGED vars
  BY <1>7 DEF vars, reading, scanning, BInv, Types, Buffer, Ordered, Brackets
<1> QED
  BY <1>1, <1>2, <1>3, <1>4, <1>5, <1>6, <1>7 DEF Next

LEMMA BInvariant == Spec => []BInv
BY InitBInv, StepBInv, PTL DEF Spec

-----------------------------------------------------------------------------
(* What is behind c is accounted for *)

Accounted ==
  \A i \in 1 .. c - 1 :
    InToken(i) \/ At(i) \in Blanks \/ InComment(i) \/ BesideToken(i)

LEMMA SameText ==
  ASSUME UNCHANGED buffer
  PROVE  \A i : At(i)' = At(i)
BY DEF At

\* A token more or not, an explanation of a place behind c stays one.
LEMMA StillAccounted ==
  ASSUME BInv, UNCHANGED buffer,
         \/ UNCHANGED tokens
         \/ \E k, from, to, next : Scans(k, from, to, next),
         NEW i \in 1 .. c - 1,
         InToken(i) \/ At(i) \in Blanks \/ InComment(i) \/ BesideToken(i)
  PROVE  (InToken(i) \/ At(i) \in Blanks \/ InComment(i) \/ BesideToken(i))'
<1>1. CASE UNCHANGED tokens
  BY <1>1 DEF InToken, At, InComment, BesideToken
<1>2. CASE \E k, from, to, next : Scans(k, from, to, next)
  <2>1. PICK k, from, to, next : Scans(k, from, to, next)
    BY <1>2
  <2>2. PICK t : t = [kind |-> k, from |-> from, to |-> to]
    OBVIOUS
  <2>3. Range(tokens') = Range(tokens) \cup {t}
    <3>1. /\ tokens'[Len(tokens) + 1] = t /\ \A j \in 1 .. Len(tokens) : tokens'[j] = tokens[j]
          /\ DOMAIN tokens' = 1 .. Len(tokens) + 1 /\ DOMAIN tokens = 1 .. Len(tokens)
          /\ Len(tokens) \in Nat
      BY <2>1, <2>2, TokenFacts DEF BInv
    <3>2. \A j \in 1 .. Len(tokens) + 1 : j \in 1 .. Len(tokens) \/ j = Len(tokens) + 1
      BY <3>1
    <3>3. \A j \in 1 .. Len(tokens) : j \in 1 .. Len(tokens) + 1
      BY <3>1
    <3>4. Len(tokens) + 1 \in 1 .. Len(tokens) + 1
      BY <3>1
    <3> QED
      BY <3>1, <3>2, <3>3, <3>4 DEF Range
  <2>4. from \in Nat /\ to \in Nat /\ c <= from /\ t.from = from /\ t.to = to
        /\ c \in Nat
    BY <2>1, <2>2, AtFacts DEF Scans, BInv, Types
  <2>5. \A s \in 1 .. i : s \notin t.from .. t.to
    BY <2>4
  <2>6. CASE InToken(i)
    BY <2>3, <2>6 DEF InToken
  <2>7. CASE At(i) \in Blanks
    BY <2>7 DEF At
  <2>8. CASE InComment(i)
    <3>1. PICK s \in 1 .. i : /\ At(s) = "semi" /\ ~InToken(s)
                              /\ \A j \in s .. i : At(j) # "nl"
      BY <2>8 DEF InComment
    <3>2. ~InToken(s)'
      BY <2>3, <2>5, <3>1 DEF InToken
    <3>3. At(s)' = "semi" /\ \A j \in s .. i : At(j)' # "nl"
      BY <3>1, SameText
    <3> QED
      BY <3>2, <3>3 DEF InComment
  <2>9. CASE BesideToken(i)
    BY <2>3, <2>9, SameText DEF BesideToken
  <2> QED
    BY <2>6, <2>7, <2>8, <2>9
<1> QED
  BY <1>1, <1>2

LEMMA ScanAccounted ==
  ASSUME BInv, Accounted, ScanStep
  PROVE  Accounted'
<1>1. /\ UNCHANGED buffer
      /\ \/ Stops \/ Moves
         \/ \E k \in Kinds, from, to, next \in Nat : Scans(k, from, to, next)
  BY ScanCases DEF BInv, reading
<1>2. Types /\ c \in Nat /\ Len(buffer) \in Nat
  BY AtFacts DEF BInv, Types
<1>3. \A i : At(i)' = At(i)
  BY <1>1, SameText
<1>4. CASE Stops
  <2>1. UNCHANGED <<c, tokens>>
    BY <1>4 DEF Stops
  <2> QED
    BY <1>1, <2>1, StillAccounted DEF Accounted
<1>5. CASE Moves
  <2>1. /\ UNCHANGED tokens /\ c' \in c .. Len(buffer) + 1
        /\ \/ At(c) \in Blanks /\ c' = c + 1
           \/ At(Here) = "semi" /\ c' = Find(Here, {"nl"})
    BY <1>5 DEF Moves
  <2>2. PICK d \in Nat : d = c'
    BY <1>2, <2>1
  <2>3. c <= d /\ d <= Len(buffer) + 1
    BY <1>2, <2>1, <2>2
  <2>4. ASSUME NEW i \in c .. d - 1
        PROVE  At(i) \in Blanks \/ InComment(i)'
    <3>1. CASE At(c) \in Blanks /\ d = c + 1
      <4>1. i = c
        BY <1>2, <3>1
      <4> QED
        BY <3>1, <4>1
    <3>2. CASE At(Here) = "semi" /\ d = Find(Here, {"nl"}) /\ At(c) # "NUL"
      <4>1. /\ Here \in 1 .. Len(buffer) /\ At(Here) # "NUL"
            /\ (At(c) \in Blanks /\ Here = c + 1) \/ Here = c
        BY <1>2, <3>2, HereFacts
      <4>2. PICK h : h = Here
        OBVIOUS
      <4>3. \A j \in h .. d - 1 : At(j) # "nl"
        <5>1. h \in 1 .. Len(buffer) + 1
          BY <1>2, <4>1, <4>2
        <5> QED
          BY <3>2, <4>2, <5>1, <1>2, FindFacts
      <4>4. CASE i = c /\ h = c + 1
        BY <4>1, <4>2, <4>4, <1>2
      <4>5. CASE ~(i = c /\ h = c + 1)
        <5>1. i >= h /\ i \in h .. d - 1 /\ h \in 1 .. i /\ i \in Nat
          BY <1>2, <2>3, <4>1, <4>2, <4>5
        <5>2. ~InToken(h)'
          <6>1. \A t \in DOMAIN tokens : h \notin tokens[t].from .. tokens[t].to
            <7>1. ASSUME NEW t \in DOMAIN tokens
                  PROVE  h \notin tokens[t].from .. tokens[t].to
              <8>1. tokens[t].to < c /\ tokens[t].from \in Nat /\ tokens[t].to \in Nat
                BY TokenTypes DEF BInv, Ordered
              <8> QED
                BY <1>2, <4>1, <4>2, <8>1
            <7> QED
              BY <7>1
          <6> QED
            BY <2>1, <6>1 DEF InToken, Range
        <5>3. \A j \in h .. i : At(j) # "nl"
          BY <4>3, <5>1, <1>2, <2>3
        <5>4. At(h)' = "semi" /\ \A j \in h .. i : At(j)' # "nl"
          BY <1>3, <3>2, <4>2, <5>3
        <5> QED
          BY <5>1, <5>2, <5>4 DEF InComment
      <4> QED
        BY <4>4, <4>5
    <3>3. At(c) # "NUL" \/ (At(c) \in Blanks /\ d = c + 1)
      <4>1. CASE At(Here) = "semi"
        <5>1. CASE At(c) = "NUL"
          <6>1. Here = c
            BY <5>1 DEF Here, Blanks
          <6> QED
            BY <4>1, <5>1, <6>1
        <5> QED
          BY <5>1
      <4> QED
        BY <2>1, <2>2, <4>1
    <3> QED
      BY <2>1, <2>2, <3>1, <3>2, <3>3
  <2>5. ASSUME NEW i \in 1 .. d - 1
        PROVE  (InToken(i) \/ At(i) \in Blanks \/ InComment(i) \/ BesideToken(i))'
    <3>1. CASE i \in 1 .. c - 1
      BY <1>1, <2>1, <3>1, StillAccounted DEF Accounted
    <3>2. CASE i \notin 1 .. c - 1
      <4>1. i \in c .. d - 1
        BY <1>2, <2>3, <3>2
      <4> QED
        BY <1>3, <2>4, <4>1
    <3> QED
      BY <3>1, <3>2
  <2> QED
    BY <2>2, <2>5 DEF Accounted
<1>6. CASE \E k \in Kinds, from, to, next \in Nat : Scans(k, from, to, next)
  <2>1. PICK k \in Kinds, from \in Nat, to \in Nat, next \in Nat : Scans(k, from, to, next)
    BY <1>6
  <2>2. PICK t : t = [kind |-> k, from |-> from, to |-> to]
    OBVIOUS
  <2>3. t \in Range(tokens') /\ t.kind = k /\ t.from = from /\ t.to = to
    <3>1. tokens'[Len(tokens) + 1] = t /\ Len(tokens) + 1 \in DOMAIN tokens'
      BY <1>2, <2>1, <2>2, TokenFacts
    <3> QED
      BY <2>2, <3>1 DEF Range
  <2>4. /\ c' = next /\ next \in c .. Len(buffer) + 1
        /\ \A i \in c .. next - 1 :
             i \in from .. to \/ At(i) \in Blanks \/ Beside(k, from, to, i)
    BY <2>1 DEF Scans, new_token
  <2>5. ASSUME NEW i \in 1 .. c' - 1
        PROVE  (InToken(i) \/ At(i) \in Blanks \/ InComment(i) \/ BesideToken(i))'
    <3>1. CASE i \in 1 .. c - 1
      BY <1>1, <2>1, <3>1, StillAccounted DEF Accounted
    <3>2. CASE i \notin 1 .. c - 1
      <4>1. i \in c .. next - 1
        BY <1>2, <2>4, <3>2
      <4>2. CASE i \in from .. to
        BY <2>3, <4>2 DEF InToken
      <4>3. CASE At(i) \in Blanks
        BY <1>3, <4>3
      <4>4. CASE Beside(k, from, to, i)
        BY <1>3, <2>3, <4>4 DEF Beside, BesideToken
      <4> QED
        BY <2>4, <4>1, <4>2, <4>3, <4>4
    <3> QED
      BY <3>1, <3>2
  <2> QED
    BY <2>5 DEF Accounted
<1> QED
  BY <1>1, <1>4, <1>5, <1>6

-----------------------------------------------------------------------------
(* The reader and the scanner *)

\* The reader after some of the characters of a line, and one character more.
ReaderState == [open : Int, com : BOOLEAN, str : BOOLEAN, bars : BOOLEAN]
IsQuiet(s) == ~s.com /\ ~s.str /\ ~s.bars
Reads(s, ch, t) ==
  /\ t.com <=> ch # "nl" /\ (s.com \/ ch = "semi")
  /\ t.str <=> ch # "nl" /\ (s.str <=> ch # "dq")
  /\ t.bars <=> ch # "nl" /\ (s.bars <=> ch # "bar")
  /\ t.open = IF IsQuiet(s) /\ ch = "(" THEN s.open + 1
              ELSE IF IsQuiet(s) /\ ch = ")" THEN s.open - 1 ELSE s.open

\* The states the reader went through: h[i] before it read character i.
Trace(h) ==
  /\ h \in [1 .. Len(buffer) + 1 -> ReaderState]
  /\ IsQuiet(h[1]) /\ h[1].open = 0
  /\ \A i \in 1 .. Len(buffer) : Reads(h[i], buffer[i], h[i + 1])
  /\ h[Len(buffer) + 1] = [open |-> open, com |-> commenting,
                           str |-> in_string, bars |-> in_vbars]

\* Where the scanner stops, at n, the reader was not inside of anything, except
\* at the end of a comment.
Outside(h, n) == IF h[n].com THEN At(n) \in {"nl", "NUL"} ELSE IsQuiet(h[n])
Abreast(h) ==
  ~lexical_error /\ ~Tricky =>
    Outside(h, c) /\ h[c].open = brackets_left - left_before

Agreement ==
  /\ source = "line" /\ phase # "exited" =>
       \E h : Trace(h) /\ (phase \in {"scan", "scanned"} => Abreast(h))
  /\ source = "line" /\ phase \in {"scan", "scanned"} => open <= 0
  /\ phase = "scanned" /\ ~lexical_error => c = Len(buffer) + 1

LEMMA TraceFacts ==
  ASSUME Types, NEW h, Trace(h)
  PROVE  /\ Len(buffer) \in Nat
         /\ \A i \in 1 .. Len(buffer) + 1 :
              h[i] \in ReaderState /\ h[i].open \in Int /\ h[i].com \in BOOLEAN
              /\ h[i].str \in BOOLEAN /\ h[i].bars \in BOOLEAN
         /\ \A i \in 1 .. Len(buffer) : Reads(h[i], At(i), h[i + 1])
<1>1. /\ Len(buffer) \in Nat
      /\ \A i \in 1 .. Len(buffer) : At(i) = buffer[i]
  BY AtFacts
<1>2. \A i \in 1 .. Len(buffer) + 1 : h[i] \in ReaderState
  BY DEF Trace
<1>3. \A i \in 1 .. Len(buffer) + 1 :
        h[i].open \in Int /\ h[i].com \in BOOLEAN
        /\ h[i].str \in BOOLEAN /\ h[i].bars \in BOOLEAN
  BY <1>2 DEF ReaderState
<1>4. \A i \in 1 .. Len(buffer) : Reads(h[i], At(i), h[i + 1])
  BY <1>1 DEF Trace
<1> QED
  BY <1>1, <1>2, <1>3, <1>4

\* Characters that do not matter to the reader where it is.
SameState(s, t) == /\ s.com <=> t.com
                   /\ s.str <=> t.str
                   /\ s.bars <=> t.bars
                   /\ s.open = t.open
LEMMA Still ==
  ASSUME Types, NEW h, Trace(h), NEW a \in 1 .. Len(buffer) + 1,
         NEW b \in a .. Len(buffer) + 1,
         \A j \in a .. b - 1 :
           /\ At(j) \notin {"dq", "bar", "semi", "nl"}
           /\ At(j) \in {"(", ")"} => ~IsQuiet(h[a])
  PROVE  SameState(h[b], h[a])
<1> DEFINE T == {j \in a .. b : ~SameState(h[j], h[a])}
<1>1. Len(buffer) \in Nat /\ T \in SUBSET Nat
  BY TraceFacts
<1>2. ASSUME NEW m \in T
      PROVE  \E n \in T : n < m
  <2>1. m # a /\ m \in a .. b /\ ~SameState(h[m], h[a])
    BY <1>2 DEF SameState
  <2>2. PICK n \in Nat : n = m - 1
    BY <1>1, <2>1
  <2>3. n \in a .. b - 1 /\ n \in a .. b /\ n \in 1 .. Len(buffer) /\ n + 1 = m /\ n < m
    BY <1>1, <2>1, <2>2
  <2>4. Reads(h[n], At(n), h[m])
    BY <2>3, TraceFacts
  <2>5. ~SameState(h[n], h[a])
    <3>1. SUFFICES ASSUME SameState(h[n], h[a]) PROVE FALSE
      OBVIOUS
    <3>2. /\ At(n) # "dq" /\ At(n) # "bar" /\ At(n) # "semi" /\ At(n) # "nl"
          /\ At(n) = "(" \/ At(n) = ")" => ~IsQuiet(h[a])
      BY <2>3
    <3>3. SameState(h[m], h[n])
      BY <2>4, <3>1, <3>2 DEF Reads, SameState, IsQuiet
    <3> QED
      BY <2>1, <3>1, <3>3 DEF SameState
  <2> QED
    BY <2>3, <2>5
<1>3. T = {}
  BY <1>1, <1>2, NoDescent
<1>4. b \in a .. b
  BY <1>1
<1> QED
  BY <1>3, <1>4

\* A comment goes on up to the end of its line.
LEMMA StillComment ==
  ASSUME Types, NEW h, Trace(h), NEW a \in 1 .. Len(buffer) + 1,
         NEW b \in a .. Len(buffer) + 1, h[a].com,
         \A j \in a .. b - 1 : At(j) # "nl"
  PROVE  h[b].com /\ h[b].open = h[a].open
<1> DEFINE P(j) == h[j].com /\ h[j].open = h[a].open
           T == {j \in a .. b : ~P(j)}
<1>1. Len(buffer) \in Nat /\ T \in SUBSET Nat
  BY TraceFacts
<1>2. ASSUME NEW m \in T
      PROVE  \E n \in T : n < m
  <2>1. m # a /\ m \in a .. b /\ ~P(m)
    BY <1>2
  <2>2. PICK n \in Nat : n = m - 1
    BY <1>1, <2>1
  <2>3. n \in a .. b - 1 /\ n \in a .. b /\ n \in 1 .. Len(buffer) /\ n + 1 = m /\ n < m
    BY <1>1, <2>1, <2>2
  <2>4. Reads(h[n], At(n), h[m])
    BY <2>3, TraceFacts
  <2>5. ~P(n)
    <3>1. SUFFICES ASSUME P(n) PROVE FALSE
      OBVIOUS
    <3>2. At(n) # "nl"
      BY <2>3
    <3> QED
      BY <2>1, <2>4, <3>1, <3>2 DEF Reads, IsQuiet
  <2> QED
    BY <2>3, <2>5
<1>3. T = {}
  BY <1>1, <1>2, NoDescent
<1>4. b \in a .. b
  BY <1>1
<1> QED
  BY <1>3, <1>4

\* Where an iteration looks, the reader was quiet.
LEMMA QuietHere ==
  ASSUME Types, NEW h, Trace(h), At(c) # "NUL", Outside(h, c)
  PROVE  IsQuiet(h[Here]) /\ h[Here].open = h[c].open
<1>1. /\ c \in 1 .. Len(buffer)
      /\ (At(c) \in Blanks /\ Here = c + 1) \/ (At(c) \notin Blanks /\ Here = c)
  BY HereFacts
<1>2. Reads(h[c], At(c), h[c + 1])
  BY <1>1, TraceFacts
<1>3. CASE At(c) = "nl"
  <2>1. Here = c + 1
    BY <1>1, <1>3 DEF Blanks
  <2> QED
    BY <1>2, <1>3, <2>1 DEF Reads, IsQuiet
<1>4. CASE At(c) = " "
  <2>1. Here = c + 1
    BY <1>1, <1>4 DEF Blanks
  <2>2. IsQuiet(h[c])
    BY <1>4 DEF Outside
  <2> QED
    BY <1>2, <1>4, <2>1, <2>2 DEF Reads, IsQuiet
<1>5. CASE At(c) \notin {"nl", " "}
  <2>1. Here = c
    BY <1>1, <1>5 DEF Blanks
  <2>2. IsQuiet(h[c])
    BY <1>5 DEF Outside, IsQuiet
  <2> QED
    BY <2>1, <2>2
<1> QED
  BY <1>3, <1>4, <1>5

\* The steps of the scan that move from Here over characters the reader takes
\* no notice of.
LEMMA InertStep ==
  ASSUME Types, NEW h, Trace(h), At(c) # "NUL", Outside(h, c),
         NEW next \in Here .. Len(buffer) + 1,
         \A j \in Here .. next - 1 :
           At(j) \notin {"dq", "bar", "semi", "nl", "(", ")"}
  PROVE  Outside(h, next) /\ h[next].open = h[c].open
<1>1. IsQuiet(h[Here]) /\ h[Here].open = h[c].open
  BY QuietHere
<1>2. Here \in 1 .. Len(buffer) + 1
  BY HereFacts
<1>3. SameState(h[next], h[Here])
  BY <1>2, Still
<1> QED
  BY <1>1, <1>3 DEF SameState, Outside, IsQuiet

LEMMA IdentChars ==
  \A n : is_ident_valid(n) => At(n) \notin {"dq", "bar", "semi", "nl", "(", ")", "#", "'"}
BY DEF is_ident_valid, Digits, Letters, Special, Signs

LEMMA SkipAbreast ==
  ASSUME Types, NEW h, Trace(h), Outside(h, c), Skip
  PROVE  Outside(h, c') /\ h[c'].open = h[c].open /\ UNCHANGED brackets_left
<1>1. At(c) # "NUL" /\ c' = Here /\ UNCHANGED brackets_left
  BY DEF Skip, Iterating, Go
<1>2. IsQuiet(h[Here]) /\ h[Here].open = h[c].open
  BY <1>1, QuietHere
<1> QED
  BY <1>1, <1>2 DEF Outside, IsQuiet

LEMMA CommentAbreast ==
  ASSUME Types, NEW h, Trace(h), Outside(h, c), Comment
  PROVE  Outside(h, c') /\ h[c'].open = h[c].open /\ UNCHANGED brackets_left
<1>1. At(c) # "NUL" /\ At(Here) = "semi" /\ UNCHANGED brackets_left
      /\ c' = Find(Here, {"nl"})
  BY DEF Comment, Iterating, Go
<1>2. IsQuiet(h[Here]) /\ h[Here].open = h[c].open
  BY <1>1, QuietHere
<1>3. PICK a : a = Here
  OBVIOUS
<1>4. PICK e : e = Find(Here, {"nl"})
  OBVIOUS
<1>5. a \in 1 .. Len(buffer) /\ Len(buffer) \in Nat
  BY <1>1, <1>3, HereFacts, AtFacts
<1>6. /\ e \in a .. Len(buffer) + 1
      /\ e = Len(buffer) + 1 \/ At(e) \in {"nl"}
      /\ \A i \in a .. e - 1 : At(i) \notin {"nl"}
  <2>1. a \in 1 .. Len(buffer) + 1
    BY <1>5
  <2> QED
    BY <1>3, <1>4, <2>1, FindFacts
<1>7. e # a
  BY <1>1, <1>3, <1>5, <1>6
<1>8. Reads(h[a], "semi", h[a + 1])
  BY <1>1, <1>3, <1>5, TraceFacts
<1>9. h[a + 1].com /\ h[a + 1].open = h[a].open
  BY <1>8 DEF Reads
<1>10. /\ a + 1 \in 1 .. Len(buffer) + 1 /\ e \in a + 1 .. Len(buffer) + 1
       /\ \A j \in a + 1 .. e - 1 : At(j) # "nl"
  BY <1>5, <1>6, <1>7
<1>11. h[e].com /\ h[e].open = h[a + 1].open
  BY <1>9, <1>10, StillComment
<1>12. At(e) \in {"nl", "NUL"}
  <2>1. At(Len(buffer) + 1) = "NUL"
    BY <1>5, AtFacts
  <2> QED
    BY <1>6, <2>1
<1> QED
  BY <1>1, <1>2, <1>3, <1>4, <1>9, <1>11, <1>12 DEF Outside

LEMMA WordAbreast ==
  ASSUME Types, NEW h, Trace(h), Outside(h, c), Word \/ Sharp
  PROVE  Outside(h, c') /\ h[c'].open = h[c].open /\ UNCHANGED brackets_left
<1>1. CASE Word
  <2>1. At(c) # "NUL" /\ UNCHANGED brackets_left /\ c' = WordEnd(Here)
    BY <1>1 DEF Word, Iterating, Go, new_token
  <2>2. Here \in 1 .. Len(buffer) + 1
    BY <2>1, HereFacts
  <2>3. PICK e : e = WordEnd(Here)
    OBVIOUS
  <2>4. e \in Here .. Len(buffer) + 1 /\ \A i \in Here .. e - 1 : is_ident_valid(i)
    BY <2>2, <2>3, WordEndFacts
  <2>5. Outside(h, e) /\ h[e].open = h[c].open
    BY <2>1, <2>4, IdentChars, InertStep
  <2> QED
    BY <2>1, <2>3, <2>5
<1>2. CASE Sharp
  <2>1. At(c) # "NUL" /\ At(Here) = "#" /\ UNCHANGED brackets_left /\ c' = WordEnd(Here + 1)
    BY <1>2 DEF Sharp, Iterating, Go, new_token
  <2>2. PICK a : a = Here
    OBVIOUS
  <2>3. a \in 1 .. Len(buffer) /\ Len(buffer) \in Nat
    BY <2>1, <2>2, HereFacts, AtFacts
  <2>4. PICK e : e = WordEnd(a + 1)
    OBVIOUS
  <2>5. /\ e \in a + 1 .. Len(buffer) + 1
        /\ \A i \in a + 1 .. e - 1 : is_ident_valid(i)
    <3>1. a + 1 \in 1 .. Len(buffer) + 1
      BY <2>3
    <3> QED
      BY <2>4, <3>1, WordEndFacts
  <2>6. ASSUME NEW j \in a .. e - 1
        PROVE  At(j) \notin {"dq", "bar", "semi", "nl", "(", ")"}
    <3>1. CASE j = a
      BY <2>1, <2>2, <3>1
    <3>2. CASE j # a
      <4>1. j \in a + 1 .. e - 1
        BY <2>3, <2>5, <3>2
      <4> QED
        BY <2>5, <4>1, IdentChars
    <3> QED
      BY <3>1, <3>2
  <2>7. e \in a .. Len(buffer) + 1
    BY <2>3, <2>5
  <2>8. Outside(h, e) /\ h[e].open = h[c].open
    BY <2>1, <2>2, <2>6, <2>7, InertStep
  <2> QED
    BY <2>1, <2>2, <2>4, <2>8
<1> QED
  BY <1>1, <1>2

\* One character that is a token: the quote and the brackets.
LEMMA SingleAbreast ==
  ASSUME Types, NEW h, Trace(h), At(c) # "NUL", Outside(h, c),
         At(Here) \in {"'", "(", ")"}
  PROVE  /\ Outside(h, Here + 1)
         /\ h[Here + 1].open = h[c].open + (IF At(Here) = "(" THEN 1
                                            ELSE IF At(Here) = ")" THEN -1 ELSE 0)
<1>1. IsQuiet(h[Here]) /\ h[Here].open = h[c].open
  BY QuietHere
<1>2. Here \in 1 .. Len(buffer) /\ c \in 1 .. Len(buffer)
  BY HereFacts
<1>3. Reads(h[Here], At(Here), h[Here + 1]) /\ h[c].open \in Int
  <2>1. Len(buffer) \in Nat
    BY AtFacts
  <2>2. c \in 1 .. Len(buffer) + 1
    BY <1>2, <2>1
  <2> QED
    BY <1>2, <2>2, TraceFacts
<1>4. IsQuiet(h[Here + 1])
  BY <1>1, <1>3 DEF Reads, IsQuiet
<1>5. h[Here + 1].open = IF At(Here) = "(" THEN h[c].open + 1
                         ELSE IF At(Here) = ")" THEN h[c].open - 1 ELSE h[c].open
  BY <1>1, <1>3 DEF Reads
<1>6. h[Here + 1].open = h[c].open + (IF At(Here) = "(" THEN 1
                                      ELSE IF At(Here) = ")" THEN -1 ELSE 0)
  BY <1>3, <1>5
<1>7. Outside(h, Here + 1)
  BY <1>4 DEF Outside, IsQuiet
<1> QED
  BY <1>6, <1>7

LEMMA SpellingHas ==
  ASSUME Types, NEW from \in 1 .. Len(buffer), NEW to \in from .. Len(buffer),
         NEW i \in from .. to
  PROVE  At(i) \in Range(Spelling(from, to))
<1>1. buffer \in Seq(Character) /\ Len(buffer) \in Nat
      /\ DOMAIN buffer = 1 .. Len(buffer)
  BY AtFacts DEF Types
<1>2. PICK s : s = SubSeq(buffer, from, to)
  OBVIOUS
<1>3. /\ s \in Seq(Character) /\ Len(s) = to - from + 1
      /\ \A k \in 1 .. to - from + 1 : s[k] = buffer[from + k - 1]
  <2>1. \A k \in from .. to : k \in 1 .. Len(buffer)
    BY <1>1
  <2> QED
    BY <1>1, <1>2, <2>1, SubSeqProperties
<1>4. PICK k \in Nat : k = i - from + 1
  OBVIOUS
<1>5. k \in 1 .. to - from + 1 /\ from + k - 1 = i /\ i \in 1 .. Len(buffer)
  BY <1>1, <1>4
<1>6. DOMAIN s = 1 .. to - from + 1
  BY <1>3, LenProperties
<1>7. s[k] = At(i) /\ k \in DOMAIN s
  BY <1>1, <1>3, <1>5, <1>6, AtFacts
<1> QED
  BY <1>2, <1>7 DEF Spelling, Range

\* A string, or an identifier between bars, with nothing tricky in it.
LEMMA EnclosedAbreast ==
  ASSUME Types, NEW h, Trace(h), Outside(h, c), NEW mark, NEW kind,
         (mark = "dq" /\ kind = "string") \/ (mark = "bar" /\ kind = "barred"),
         Enclosed(mark, kind), ~lexical_error', ~Tricky', UNCHANGED buffer
  PROVE  Outside(h, c') /\ h[c'].open = h[c].open /\ UNCHANGED brackets_left
<1>1. At(c) # "NUL" /\ At(Here) = mark
  BY DEF Enclosed, Iterating
<1>2. PICK a : a = Here
  OBVIOUS
<1>3. PICK e : e = Find(Here + 1, {mark})
  OBVIOUS
<1>4. IsQuiet(h[a]) /\ h[a].open = h[c].open
  BY <1>1, <1>2, QuietHere
<1>5. a \in 1 .. Len(buffer) /\ Len(buffer) \in Nat
  BY <1>1, <1>2, HereFacts, AtFacts
<1>6. /\ e \in a + 1 .. Len(buffer) + 1
      /\ e = Len(buffer) + 1 \/ At(e) \in {mark}
      /\ \A i \in a + 1 .. e - 1 : At(i) \notin {mark}
  <2>1. a + 1 \in 1 .. Len(buffer) + 1
    BY <1>5
  <2> QED
    BY <1>2, <1>3, <2>1, FindFacts
<1>7. At(e) # "NUL"
  BY <1>3 DEF Enclosed, error_at
<1>8. e \in 1 .. Len(buffer) /\ At(e) = mark /\ e \in a + 1 .. Len(buffer)
  <2>1. e \in 1 .. Len(buffer)
    BY <1>7, AtFacts
  <2>2. e # Len(buffer) + 1
    BY <1>5, <2>1
  <2>3. At(e) = mark
    BY <1>6, <2>2
  <2>4. e \in a + 1 .. Len(buffer)
    BY <1>5, <1>6, <2>1
  <2> QED
    BY <2>1, <2>3, <2>4
<1>9. /\ new_token(kind, a + 1, e - 1, e + 1) /\ UNCHANGED brackets_left
  BY <1>2, <1>3, <1>7 DEF Enclosed
<1>10. c' = e + 1 /\ Scans(kind, a + 1, e - 1, e + 1)
  <2>1. ~Stops
    <3>1. phase = "scan" /\ phase' = phase
      BY <1>3, <1>7 DEF Enclosed, Iterating
    <3> QED
      BY <3>1 DEF Stops
  <2>2. Scans(kind, a + 1, e - 1, e + 1)
    BY <1>2, <1>3, <2>1, EnclosedScans
  <2> QED
    BY <1>9, <2>2 DEF new_token
<1>11. ASSUME NEW j \in a + 1 .. e - 1
       PROVE  At(j) \notin {"semi", "dq", "bar", "nl"}
  <2>1. PICK t : t = [kind |-> kind, from |-> a + 1, to |-> e - 1]
    OBVIOUS
  <2>2. t \in Range(tokens')
    <3>1. tokens'[Len(tokens) + 1] = t /\ Len(tokens) + 1 \in DOMAIN tokens'
      <4>1. /\ tokens'[Len(tokens) + 1] = [kind |-> kind, from |-> a + 1, to |-> e - 1]
            /\ DOMAIN tokens' = 1 .. Len(tokens) + 1 /\ Len(tokens) \in Nat
        BY <1>10, TokenFacts
      <4>2. Len(tokens) + 1 \in 1 .. Len(tokens) + 1
        BY <4>1
      <4> QED
        BY <2>1, <4>1, <4>2
    <3> QED
      BY <3>1 DEF Range
  <2>3. t.kind \in {"string", "barred"} /\ t.from = a + 1 /\ t.to = e - 1
    BY <2>1
  <2>4. Range(Spelling(a + 1, e - 1)) \cap {"semi", "dq", "bar", "nl"} = {}
    BY <2>2, <2>3 DEF Tricky, Spelling
  <2>5. a + 1 \in 1 .. Len(buffer) /\ e - 1 \in a + 1 .. Len(buffer)
    BY <1>5, <1>8
  <2>6. At(j) \in Range(Spelling(a + 1, e - 1))
    BY <2>5, SpellingHas
  <2> QED
    BY <2>4, <2>6
<1>12. Reads(h[a], mark, h[a + 1])
  BY <1>1, <1>2, <1>5, TraceFacts
<1>13. /\ ~IsQuiet(h[a + 1]) /\ h[a + 1].open = h[a].open
       /\ ~h[a + 1].com /\ (h[a + 1].str <=> mark = "dq") /\ (h[a + 1].bars <=> mark = "bar")
  BY <1>4, <1>12 DEF Reads, IsQuiet
<1>14. SameState(h[e], h[a + 1])
  <2>1. a + 1 \in 1 .. Len(buffer) + 1 /\ e \in a + 1 .. Len(buffer) + 1
    BY <1>5, <1>8
  <2> QED
    BY <1>11, <1>13, <2>1, Still
<1>15. Reads(h[e], mark, h[e + 1])
  BY <1>8, TraceFacts
<1>16. IsQuiet(h[e + 1]) /\ h[e + 1].open = h[e].open
  BY <1>13, <1>14, <1>15 DEF Reads, IsQuiet, SameState
<1> QED
  BY <1>4, <1>9, <1>10, <1>13, <1>14, <1>16 DEF Outside, IsQuiet, SameState

\* Errors and tricky tokens stay.
LEMMA ScanKeeps ==
  ASSUME Types, ScanStep
  PROVE  /\ lexical_error => lexical_error'
         /\ Tricky => Tricky'
<1>1. /\ UNCHANGED buffer
      /\ \/ Stops \/ Moves
         \/ \E k \in Kinds, from, to, next \in Nat : Scans(k, from, to, next)
  BY ScanCases DEF reading
<1>2. CASE Stops \/ Moves
  <2>1. UNCHANGED tokens /\ (lexical_error => lexical_error')
    BY <1>2 DEF Stops, Moves
  <2> QED
    BY <1>1, <2>1 DEF Tricky, Spelling
<1>3. CASE \E k \in Kinds, from, to, next \in Nat : Scans(k, from, to, next)
  <2>1. PICK k \in Kinds, from \in Nat, to \in Nat, next \in Nat : Scans(k, from, to, next)
    BY <1>3
  <2>2. UNCHANGED lexical_error
    BY <2>1 DEF Scans, new_token
  <2>3. /\ \A i \in 1 .. Len(tokens) : tokens'[i] = tokens[i]
        /\ DOMAIN tokens' = 1 .. Len(tokens) + 1 /\ DOMAIN tokens = 1 .. Len(tokens)
        /\ Len(tokens) \in Nat
    BY <2>1, TokenFacts
  <2>4. \A i \in DOMAIN tokens : i \in DOMAIN tokens' /\ tokens'[i] = tokens[i]
    BY <2>3
  <2>5. Range(tokens) \subseteq Range(tokens')
    BY <2>4 DEF Range
  <2>6. ASSUME Tricky PROVE Tricky'
    <3>1. PICK t \in Range(tokens) :
            /\ t.kind \in {"string", "barred"}
            /\ Range(Spelling(t.from, t.to)) \cap {"semi", "dq", "bar", "nl"} # {}
      BY <2>6 DEF Tricky
    <3>2. Spelling(t.from, t.to)' = Spelling(t.from, t.to)
      BY <1>1 DEF Spelling
    <3>3. t \in Range(tokens')
      BY <2>5
    <3> QED
      BY <3>1, <3>2, <3>3 DEF Tricky
  <2> QED
    BY <2>2, <2>6
<1> QED
  BY <1>1, <1>2, <1>3

LEMMA ScanAbreast ==
  ASSUME Types, NEW h, Trace(h), Abreast(h), ScanStep, ~lexical_error', ~Tricky'
  PROVE  Outside(h, c') /\ h[c'].open = brackets_left' - left_before
<1>1. /\ phase = "scan" /\ UNCHANGED buffer
      /\ \/ Stops \/ Moves
         \/ \E k \in Kinds, from, to, next \in Nat : Scans(k, from, to, next)
  BY ScanCases DEF reading
<1>2. ~lexical_error /\ ~Tricky
  BY ScanKeeps
<1>3. Outside(h, c) /\ h[c].open = brackets_left - left_before
  BY <1>2 DEF Abreast
<1>4. brackets_left \in Nat /\ left_before \in Nat
  BY DEF Types
<1>5. CASE Skip
  BY <1>3, <1>5, SkipAbreast
<1>6. CASE Comment
  BY <1>3, <1>6, CommentAbreast
<1>7. CASE Word \/ Sharp
  BY <1>3, <1>7, WordAbreast
<1>8. CASE Enclosed("dq", "string") \/ Enclosed("bar", "barred")
  BY <1>1, <1>3, <1>8, EnclosedAbreast
<1>9. CASE Quote
  <2>1. At(c) # "NUL" /\ At(Here) = "'" /\ c' = Here + 1 /\ UNCHANGED brackets_left
    BY <1>9 DEF Quote, Iterating, Go, new_token
  <2>2. Outside(h, Here + 1) /\ h[Here + 1].open = h[c].open + 0
    BY <1>3, <2>1, SingleAbreast
  <2> QED
    BY <1>3, <1>4, <2>1, <2>2
<1>10. CASE OpenBracket
  <2>1. At(c) # "NUL" /\ At(Here) = "(" /\ c' = Here + 1 /\ brackets_left' = brackets_left + 1
    BY <1>10 DEF OpenBracket, Iterating, new_token
  <2>2. Outside(h, Here + 1) /\ h[Here + 1].open = h[c].open + 1
    BY <1>3, <2>1, SingleAbreast
  <2> QED
    BY <1>3, <1>4, <2>1, <2>2
<1>11. CASE CloseBracket
  <2>1. /\ At(c) # "NUL" /\ At(Here) = ")" /\ c' = Here + 1
        /\ brackets_left' = brackets_left - 1
    BY <1>11 DEF CloseBracket, Iterating, new_token, error_at
  <2>2. Outside(h, Here + 1) /\ h[Here + 1].open = h[c].open + (-1)
    BY <1>3, <2>1, SingleAbreast
  <2> QED
    BY <1>3, <1>4, <2>1, <2>2
<1>12. CASE InvalidCharacter
  BY <1>12 DEF InvalidCharacter, error_at
<1>13. CASE EndOfText
  BY <1>3, <1>13 DEF EndOfText, scanning
<1> QED
  BY <1>5, <1>6, <1>7, <1>8, <1>9, <1>10, <1>11, <1>12, <1>13 DEF ScanStep

LEMMA ScanAgreement ==
  ASSUME BInv, Agreement, ScanStep
  PROVE  Agreement'
<1>1. /\ phase = "scan" /\ UNCHANGED <<alphabet, source, left_before>>
      /\ UNCHANGED <<buffer, bufsize, top, open, commenting, in_string, in_vbars>>
      /\ \/ Stops \/ Moves
         \/ \E k \in Kinds, from, to, next \in Nat : Scans(k, from, to, next)
  BY ScanCases DEF BInv, reading
<1>2. phase' \in {"scan", "scanned"}
  BY <1>1 DEF Stops, Moves, Scans
<1>3. ASSUME source' = "line"
      PROVE  \E h : Trace(h)' /\ Abreast(h)'
  <2>1. PICK h : Trace(h) /\ Abreast(h)
    BY <1>1, <1>3 DEF Agreement
  <2>2. Trace(h)'
    BY <1>1, <2>1 DEF Trace
  <2>3. ASSUME ~lexical_error', ~Tricky'
        PROVE  Outside(h, c') /\ h[c'].open = brackets_left' - left_before
    BY <2>1, <2>3, ScanAbreast DEF BInv
  <2>4. Abreast(h)'
    BY <1>1, <2>3, SameText DEF Abreast, Outside
  <2> QED
    BY <2>2, <2>4
<1>4. source' = "line" => open' <= 0
  BY <1>1 DEF Agreement
<1>5. ASSUME phase' = "scanned", ~lexical_error'
      PROVE  c' = Len(buffer') + 1
  <2>1. Stops
    BY <1>1, <1>5 DEF Moves, Scans
  <2>2. At(c) = "NUL" /\ c' = c
    BY <1>5, <2>1 DEF Stops
  <2>3. c \in 1 .. Len(buffer) + 1 /\ Len(buffer) \in Nat /\ c \notin 1 .. Len(buffer)
    BY <2>2, AtFacts DEF BInv, Types
  <2> QED
    BY <1>1, <2>2, <2>3
<1> QED
  BY <1>2, <1>3, <1>4, <1>5 DEF Agreement

\* One character more is read.
LEMMA TraceStep ==
  ASSUME Types, NEW h, Trace(h), NEW ch \in Character, buffer' = Append(buffer, ch),
         NEW s, s = [open |-> open, com |-> commenting, str |-> in_string, bars |-> in_vbars],
         NEW t \in ReaderState,
         t = [open |-> open', com |-> commenting', str |-> in_string', bars |-> in_vbars'],
         Reads(s, ch, t)
  PROVE  \E g : Trace(g)'
<1>1. /\ buffer' \in Seq(Character) /\ Len(buffer') = Len(buffer) + 1
      /\ buffer'[Len(buffer) + 1] = ch
      /\ \A i \in 1 .. Len(buffer) : buffer'[i] = buffer[i]
      /\ Len(buffer) \in Nat
  BY AppendFacts
<1>2. PICK n \in Nat : n = Len(buffer)
  BY <1>1
<1>3. PICK g : g = [i \in 1 .. n + 2 |-> IF i = n + 2 THEN t ELSE h[i]]
  OBVIOUS
<1>4. /\ h \in [1 .. n + 1 -> ReaderState] /\ IsQuiet(h[1]) /\ h[1].open = 0
      /\ \A i \in 1 .. n : Reads(h[i], buffer[i], h[i + 1])
      /\ h[n + 1] = s
  BY <1>2 DEF Trace
<1>5. /\ \A i \in 1 .. n + 1 : g[i] = h[i]
      /\ g[n + 2] = t /\ g \in [1 .. n + 2 -> ReaderState]
  <2>1. \A i \in 1 .. n + 1 : i \in 1 .. n + 2 /\ i # n + 2
    BY <1>2
  <2>2. n + 2 \in 1 .. n + 2
    BY <1>2
  <2>3. \A i \in 1 .. n + 2 : i = n + 2 \/ i \in 1 .. n + 1
    BY <1>2
  <2> QED
    BY <1>3, <1>4, <2>1, <2>2, <2>3
<1>6. 1 \in 1 .. n + 1 /\ n + 1 \in 1 .. n + 1
  BY <1>2
<1>7. IsQuiet(g[1]) /\ g[1].open = 0
  BY <1>4, <1>5, <1>6
<1>8. ASSUME NEW i \in 1 .. n + 1
      PROVE  Reads(g[i], buffer'[i], g[i + 1])
  <2>1. CASE i = n + 1
    <3>1. i + 1 = n + 2 /\ buffer'[i] = ch
      BY <1>1, <1>2, <2>1
    <3>2. g[i] = s /\ g[i + 1] = t
      BY <1>4, <1>5, <1>6, <2>1, <3>1
    <3> QED
      BY <3>1, <3>2
  <2>2. CASE i # n + 1
    <3>1. i \in 1 .. n /\ i + 1 \in 1 .. n + 1
      BY <1>2, <2>2
    <3>2. g[i] = h[i] /\ g[i + 1] = h[i + 1] /\ buffer'[i] = buffer[i]
      BY <1>1, <1>2, <1>5, <3>1
    <3> QED
      BY <1>4, <3>1, <3>2
  <2> QED
    BY <2>1, <2>2
<1>9. Len(buffer') = n + 1 /\ Len(buffer') + 1 = n + 2
  BY <1>1, <1>2
<1>10. Trace(g)'
  BY <1>5, <1>7, <1>8, <1>9 DEF Trace
<1> QED
  BY <1>10

\* A new trace begins with every line.
LEMMA TraceStart ==
  /\ buffer = <<>> /\ open = 0
  /\ commenting = FALSE /\ in_string = FALSE /\ in_vbars = FALSE
  => \E h : Trace(h)
<1> SUFFICES ASSUME buffer = <<>>, open = 0, commenting = FALSE, in_string = FALSE,
                    in_vbars = FALSE
             PROVE  \E h : Trace(h)
  OBVIOUS
<1>1. PICK s : s = [open |-> 0, com |-> FALSE, str |-> FALSE, bars |-> FALSE]
  OBVIOUS
<1>2. s \in ReaderState /\ IsQuiet(s) /\ s.open = 0
  BY <1>1 DEF ReaderState, IsQuiet
<1>3. PICK h : h = [i \in 1 .. 1 |-> s]
  OBVIOUS
<1>4. Len(buffer) = 0 /\ Len(buffer) + 1 = 1 /\ 1 .. Len(buffer) = {}
  BY EmptyText
<1>5. h \in [1 .. 1 -> ReaderState] /\ h[1] = s
  BY <1>2, <1>3
<1>6. s = [open |-> open, com |-> commenting, str |-> in_string, bars |-> in_vbars]
  BY <1>1
<1>7. Trace(h)
  BY <1>2, <1>4, <1>5, <1>6 DEF Trace
<1> QED
  BY <1>7

LEMMA TraceStartNext ==
  (/\ buffer = <<>> /\ open = 0
   /\ commenting = FALSE /\ in_string = FALSE /\ in_vbars = FALSE
   => \E h : Trace(h))'
BY TraceStart, PTL

LEMMA InitAgreement == Init => Agreement
<1> SUFFICES ASSUME Init PROVE Agreement
  OBVIOUS
<1>1. \E h : Trace(h)
  BY TraceStart DEF Init
<1> QED
  BY <1>1 DEF Init, Agreement

LEMMA ReadNewlineAgreement ==
  ASSUME BInv, Agreement, ReadNewline
  PROVE  Agreement'
<1>1. /\ phase = "read" /\ source = "line" /\ "nl" \in Character
      /\ buffer' = Append(buffer, "nl")
      /\ commenting' = FALSE /\ in_string' = FALSE /\ in_vbars' = FALSE
      /\ UNCHANGED <<open, source, c, brackets_left>>
      /\ phase' = "read" \/ (phase' = "scan" /\ left_before' = brackets_left /\ ~(open > 0))
  BY DEF ReadNewline, Begin, Character, Blanks, scanning
<1>2. Types /\ c = 1 /\ open \in Int /\ brackets_left \in Nat
  BY <1>1 DEF BInv, Ordered, Types
<1>3. PICK h : Trace(h)
  BY <1>1 DEF Agreement
<1>4. PICK s : s = [open |-> open, com |-> commenting, str |-> in_string, bars |-> in_vbars]
  OBVIOUS
<1>5. PICK t \in ReaderState :
        t = [open |-> open', com |-> commenting', str |-> in_string', bars |-> in_vbars']
  BY <1>1, <1>2 DEF ReaderState
<1>6. Reads(s, "nl", t)
  <2>1. ~t.com /\ ~t.str /\ ~t.bars /\ t.open = s.open
    BY <1>1, <1>4, <1>5
  <2> QED
    BY <2>1 DEF Reads
<1>7. PICK g : Trace(g)'
  BY <1>1, <1>2, <1>3, <1>4, <1>5, <1>6, TraceStep
<1>8. phase' = "scan" => Abreast(g)'
  <2>1. ASSUME phase' = "scan" PROVE Abreast(g)'
    <3>1. IsQuiet(g[1]) /\ g[1].open = 0 /\ c' = 1
      BY <1>1, <1>2, <1>7 DEF Trace
    <3>2. brackets_left' - left_before' = 0
      BY <1>1, <1>2, <2>1
    <3>3. Outside(g, c)'
      BY <3>1 DEF Outside, IsQuiet
    <3>4. g[c'].open = brackets_left' - left_before'
      BY <3>1, <3>2
    <3> QED
      BY <3>3, <3>4 DEF Abreast
  <2> QED
    BY <2>1
<1>9. phase' = "scan" => open' <= 0
  BY <1>1, <1>2
<1> QED
  BY <1>1, <1>7, <1>8, <1>9 DEF Agreement

LEMMA ReadCharAgreement ==
  ASSUME BInv, Agreement, NEW ch \in alphabet, ReadChar(ch)
  PROVE  Agreement'
<1>1. /\ phase = "read" /\ source = "line" /\ ch # "nl"
      /\ buffer' = Append(buffer, ch)
      /\ open' = IF Quiet /\ ch = "(" THEN open + 1
                 ELSE IF Quiet /\ ch = ")" THEN open - 1 ELSE open
      /\ commenting' = (commenting \/ ch = "semi")
      /\ in_string' = (in_string # (ch = "dq"))
      /\ in_vbars' = (in_vbars # (ch = "bar"))
      /\ UNCHANGED <<phase, source>>
  BY DEF ReadChar
<1>2. /\ Types /\ ch \in Character /\ open \in Int
      /\ commenting \in BOOLEAN /\ in_string \in BOOLEAN /\ in_vbars \in BOOLEAN
  BY DEF BInv, Types
<1>3. PICK h : Trace(h)
  BY <1>1 DEF Agreement
<1>4. PICK s : s = [open |-> open, com |-> commenting, str |-> in_string, bars |-> in_vbars]
  OBVIOUS
<1>5. /\ open' \in Int /\ commenting' \in BOOLEAN /\ in_string' \in BOOLEAN
      /\ in_vbars' \in BOOLEAN
  BY <1>1, <1>2
<1>6. PICK t \in ReaderState :
        t = [open |-> open', com |-> commenting', str |-> in_string', bars |-> in_vbars']
  BY <1>5 DEF ReaderState
<1>7. Reads(s, ch, t)
  <2>1. /\ s.open = open /\ s.com = commenting /\ s.str = in_string /\ s.bars = in_vbars
        /\ t.open = open' /\ t.com = commenting' /\ t.str = in_string' /\ t.bars = in_vbars'
    BY <1>4, <1>6
  <2>2. /\ commenting' <=> commenting \/ ch = "semi"
        /\ in_string' <=> (in_string <=> ch # "dq")
        /\ in_vbars' <=> (in_vbars <=> ch # "bar")
    <3>1. commenting' <=> commenting \/ ch = "semi"
      BY <1>1
    <3>2. in_string' <=> (in_string <=> ch # "dq")
      BY <1>1, <1>2
    <3>3. in_vbars' <=> (in_vbars <=> ch # "bar")
      BY <1>1, <1>2
    <3> QED
      BY <3>1, <3>2, <3>3
  <2>3. IsQuiet(s) <=> Quiet
    BY <2>1 DEF IsQuiet, Quiet
  <2> QED
    BY <1>1, <2>1, <2>2, <2>3 DEF Reads
<1>8. \E g : Trace(g)'
  BY <1>1, <1>2, <1>3, <1>4, <1>6, <1>7, TraceStep
<1> QED
  BY <1>1, <1>8 DEF Agreement

LEMMA StepAgreement == BInv /\ Agreement /\ [Next]_vars => Agreement'
<1> SUFFICES ASSUME BInv, Agreement, [Next]_vars PROVE Agreement'
  OBVIOUS
<1>1. CASE ReadNewline
  BY <1>1, ReadNewlineAgreement
<1>2. CASE \E ch \in alphabet : ReadChar(ch)
  BY <1>2, ReadCharAgreement
<1>3. CASE \E ch \in alphabet : ReadFile(ch)
  BY <1>3 DEF ReadFile, Agreement
<1>4. CASE Eof
  BY <1>4 DEF Eof, Agreement
<1>5. CASE EndOfFile
  BY <1>5 DEF EndOfFile, Begin, Agreement
<1>6. CASE ScanStep
  BY <1>6, ScanAgreement
<1>7. CASE NextInput
  <2>1. /\ buffer' = <<>> /\ open' = 0 /\ phase' = "read"
        /\ commenting' = FALSE /\ in_string' = FALSE /\ in_vbars' = FALSE
    BY <1>7 DEF NextInput
  <2>2. (\E h : Trace(h))'
    BY <2>1, TraceStartNext
  <2> QED
    BY <2>1, <2>2 DEF Agreement
<1>8. CASE UNCHANGED vars
  <2>1. /\ UNCHANGED <<phase, source, c, tokens, lexical_error, brackets_left, left_before>>
        /\ UNCHANGED <<buffer, bufsize, top, open, commenting, in_string, in_vbars>>
    BY <1>8 DEF vars, reading, scanning
  <2> QED
    BY <2>1 DEF Agreement, Trace, Abreast, Outside, At, Tricky, Spelling
<1> QED
  BY <1>1, <1>2, <1>3, <1>4, <1>5, <1>6, <1>7, <1>8 DEF Next

\* What the other steps do with the explanations: nothing is behind c when an
\* input begins.
LEMMA StepAccounted == BInv /\ Accounted /\ [Next]_vars => Accounted'
<1> SUFFICES ASSUME BInv, Accounted, [Next]_vars PROVE Accounted'
  OBVIOUS
<1>1. c' = 1 => Accounted'
  <2>1. 1 .. 1 - 1 = {}
    OBVIOUS
  <2> QED
    BY <2>1 DEF Accounted
<1>2. phase = "read" => c = 1
  BY DEF BInv, Ordered
<1>3. CASE ReadNewline \/ (\E ch \in alphabet : ReadChar(ch) \/ ReadFile(ch))
  <2>1. phase = "read" /\ c' = c
    BY <1>3 DEF ReadNewline, ReadChar, ReadFile, Begin, scanning
  <2> QED
    BY <1>1, <1>2, <2>1
<1>4. CASE Eof \/ EndOfFile
  <2>1. phase = "read" /\ c' = c
    BY <1>4 DEF Eof, EndOfFile, Begin, scanning
  <2> QED
    BY <1>1, <1>2, <2>1
<1>5. CASE ScanStep
  BY <1>5, ScanAccounted
<1>6. CASE NextInput
  BY <1>1, <1>6 DEF NextInput
<1>7. CASE UNCHANGED vars
  BY <1>7 DEF vars, reading, scanning, Accounted, InToken, At, InComment, BesideToken
<1> QED
  BY <1>3, <1>4, <1>5, <1>6, <1>7 DEF Next

-----------------------------------------------------------------------------
(* Brackets among the tokens *)

CountIn(s, kind, n) == Cardinality({i \in 1 .. n : s[i].kind = kind})

LEMMA CountFacts ==
  ASSUME NEW s, NEW kind, NEW n \in Nat
  PROVE  /\ IsFiniteSet({i \in 1 .. n : s[i].kind = kind})
         /\ CountIn(s, kind, n) \in Nat
<1>1. IsFiniteSet(1 .. n)
  BY FS_Interval
<1>2. IsFiniteSet({i \in 1 .. n : s[i].kind = kind})
  BY <1>1, FS_Subset
<1> QED
  BY <1>2, FS_CardinalityType DEF CountIn

\* Tokens alike are counted alike.
LEMMA CountSame ==
  ASSUME NEW s, NEW t, NEW kind, NEW n \in Nat, \A i \in 1 .. n : s[i] = t[i]
  PROVE  CountIn(s, kind, n) = CountIn(t, kind, n)
<1>1. {i \in 1 .. n : s[i].kind = kind} = {i \in 1 .. n : t[i].kind = kind}
  OBVIOUS
<1> QED
  BY <1>1 DEF CountIn

LEMMA CountNone ==
  ASSUME NEW s, NEW kind
  PROVE  CountIn(s, kind, 0) = 0
<1>1. {i \in 1 .. 0 : s[i].kind = kind} = {}
  OBVIOUS
<1> QED
  BY <1>1, FS_EmptySet DEF CountIn

LEMMA CountOneMore ==
  ASSUME NEW s, NEW kind, NEW n \in Nat
  PROVE  CountIn(s, kind, n + 1) =
           CountIn(s, kind, n) + (IF s[n + 1].kind = kind THEN 1 ELSE 0)
<1> DEFINE P(m) == {i \in 1 .. m : s[i].kind = kind}
<1>1. IsFiniteSet(P(n)) /\ CountIn(s, kind, n) = Cardinality(P(n))
      /\ CountIn(s, kind, n) \in Nat
  BY CountFacts DEF CountIn
<1>2. CountIn(s, kind, n + 1) = Cardinality(P(n + 1))
  BY DEF CountIn
<1>3. CASE s[n + 1].kind = kind
  <2>1. P(n + 1) = P(n) \cup {n + 1}
    BY <1>3
  <2>2. n + 1 \notin P(n)
    OBVIOUS
  <2>3. Cardinality(P(n) \cup {n + 1}) = Cardinality(P(n)) + 1
    <3> HIDE DEF P
    <3> QED
      BY <1>1, <2>2, FS_AddElement
  <2> QED
    BY <1>1, <1>2, <1>3, <2>1, <2>3
<1>4. CASE s[n + 1].kind # kind
  <2>1. \A i \in 1 .. n + 1 : i \in 1 .. n \/ i = n + 1
    OBVIOUS
  <2>2. P(n + 1) = P(n)
    BY <1>4, <2>1
  <2> QED
    BY <1>1, <1>2, <1>4, <2>2
<1> QED
  BY <1>3, <1>4

LEMMA CountIsCountIn == \A kind, n : Count(kind, n) = CountIn(tokens, kind, n)
BY DEF Count, CountIn

\* tokenize's count is what the tokens say, at every token of the input.
Counted(n) == CountIn(tokens, ")", n) <= CountIn(tokens, "(", n) + left_before
Matched ==
  phase \in {"scan", "scanned"} =>
    /\ brackets_left + CountIn(tokens, ")", Len(tokens)) =
         left_before + CountIn(tokens, "(", Len(tokens))
    /\ \A n \in 0 .. Len(tokens) : Counted(n)

LEMMA ScanMatched ==
  ASSUME BInv, Matched, ScanStep
  PROVE  Matched'
<1>1. /\ phase = "scan" /\ UNCHANGED left_before
      /\ \/ Stops \/ Moves
         \/ \E k \in Kinds, from, to, next \in Nat : Scans(k, from, to, next)
  BY ScanCases DEF BInv
<1>2. phase' \in {"scan", "scanned"}
  BY <1>1 DEF Stops, Moves, Scans
<1>3. CASE Stops \/ Moves
  <2>1. UNCHANGED <<tokens, brackets_left>>
    BY <1>3 DEF Stops, Moves
  <2> QED
    BY <1>1, <1>2, <2>1 DEF Matched, Counted
<1>4. CASE \E k \in Kinds, from, to, next \in Nat : Scans(k, from, to, next)
  <2>1. PICK k \in Kinds, from \in Nat, to \in Nat, next \in Nat : Scans(k, from, to, next)
    BY <1>4
  <2>2. PICK m \in Nat : m = Len(tokens)
    BY <2>1, TokenFacts DEF BInv
  <2>3. /\ Len(tokens') = m + 1 /\ \A i \in 1 .. m : tokens'[i] = tokens[i]
        /\ tokens'[m + 1].kind = k
    <3>1. /\ Len(tokens') = Len(tokens) + 1
          /\ tokens'[Len(tokens) + 1] = [kind |-> k, from |-> from, to |-> to]
          /\ \A i \in 1 .. Len(tokens) : tokens'[i] = tokens[i]
      BY <2>1, TokenFacts DEF BInv
    <3> QED
      BY <2>2, <3>1
  <2>4. ASSUME NEW n \in 0 .. m, NEW kind
        PROVE  CountIn(tokens', kind, n) = CountIn(tokens, kind, n)
    <3>1. n \in Nat /\ \A i \in 1 .. n : tokens'[i] = tokens[i]
      <4>1. \A i \in 1 .. n : i \in 1 .. m
        BY <2>2
      <4> QED
        BY <2>3, <4>1
    <3> QED
      BY <3>1, CountSame
  <2>5. \A kind : CountIn(tokens', kind, m + 1) =
                    CountIn(tokens, kind, m) + (IF k = kind THEN 1 ELSE 0)
    <3>1. m \in 0 .. m
      BY <2>2
    <3>2. \A kind : CountIn(tokens', kind, m + 1) =
                      CountIn(tokens', kind, m) + (IF k = kind THEN 1 ELSE 0)
      BY <2>2, <2>3, CountOneMore
    <3> QED
      BY <2>4, <3>1, <3>2
  <2>6. PICK a \in Nat, b \in Nat :
          a = CountIn(tokens, "(", m) /\ b = CountIn(tokens, ")", m)
    <3>1. CountIn(tokens, "(", m) \in Nat /\ CountIn(tokens, ")", m) \in Nat
      BY <2>2, CountFacts
    <3> QED
      BY <3>1
  <2>7. PICK l \in Nat, d \in Nat : l = left_before /\ d = brackets_left
    BY DEF BInv, Types
  <2>8. d + b = l + a /\ \A n \in 0 .. m : Counted(n)
    BY <1>1, <2>2, <2>6, <2>7 DEF Matched
  <2>9. /\ k = ")" => d > 0
        /\ brackets_left' = IF k = "(" THEN d + 1 ELSE IF k = ")" THEN d - 1 ELSE d
    BY <2>1, <2>7 DEF Scans
  <2>10. /\ CountIn(tokens', "(", m + 1) = a + (IF k = "(" THEN 1 ELSE 0)
         /\ CountIn(tokens', ")", m + 1) = b + (IF k = ")" THEN 1 ELSE 0)
    BY <2>5, <2>6
  <2>11. /\ brackets_left' + CountIn(tokens', ")", m + 1) = l + CountIn(tokens', "(", m + 1)
         /\ CountIn(tokens', ")", m + 1) <= CountIn(tokens', "(", m + 1) + l
    <3>1. CASE k = "("
      BY <2>6, <2>7, <2>8, <2>9, <2>10, <3>1
    <3>2. CASE k = ")"
      BY <2>6, <2>7, <2>8, <2>9, <2>10, <3>2
    <3>3. CASE k # "(" /\ k # ")"
      BY <2>6, <2>7, <2>8, <2>9, <2>10, <3>3
    <3> QED
      BY <3>1, <3>2, <3>3
  <2>12. ASSUME NEW n \in 0 .. m + 1
         PROVE  Counted(n)'
    <3>1. CASE n = m + 1
      BY <1>1, <2>7, <2>11, <3>1 DEF Counted
    <3>2. CASE n # m + 1
      <4>1. n \in 0 .. m
        BY <2>2, <3>2
      <4>2. Counted(n)
        BY <2>8, <4>1
      <4>3. /\ CountIn(tokens', "(", n) = CountIn(tokens, "(", n)
            /\ CountIn(tokens', ")", n) = CountIn(tokens, ")", n)
        BY <2>4, <4>1
      <4> QED
        BY <1>1, <4>2, <4>3 DEF Counted
    <3> QED
      BY <3>1, <3>2
  <2> QED
    BY <1>1, <1>2, <2>3, <2>7, <2>11, <2>12 DEF Matched
<1> QED
  BY <1>1, <1>3, <1>4

\* No token has been made when a scan begins.
LEMMA BeginMatched ==
  ASSUME BInv, Matched, phase = "read", phase' = "scan", left_before' = brackets_left,
         UNCHANGED <<tokens, brackets_left>>
  PROVE  Matched'
<1>1. tokens' = <<>> /\ Len(tokens') = 0 /\ brackets_left \in Nat
  BY EmptyText DEF BInv, Ordered, Types
<1>2. CountIn(tokens', "(", 0) = 0 /\ CountIn(tokens', ")", 0) = 0
  BY CountNone
<1>3. \A n \in 0 .. Len(tokens') : n = 0
  BY <1>1
<1>4. \A n \in 0 .. Len(tokens') : Counted(n)'
  BY <1>1, <1>2, <1>3 DEF Counted
<1>5. brackets_left' + CountIn(tokens', ")", Len(tokens')) =
        left_before' + CountIn(tokens', "(", Len(tokens'))
  BY <1>1, <1>2
<1> QED
  BY <1>4, <1>5 DEF Matched

\* A line scanned to its end without error.
LEMMA Agrees == BInv /\ Agreement => ReaderAgrees
<1> SUFFICES ASSUME BInv, Agreement, phase = "scanned", ~Differ
             PROVE  open = brackets_left - left_before
  BY DEF ReaderAgrees
<1>1. source = "line" /\ ~lexical_error /\ ~Tricky
  BY DEF Differ, BInv, Types
<1>2. PICK h : Trace(h) /\ Abreast(h)
  BY <1>1 DEF Agreement
<1>3. h[c].open = brackets_left - left_before
  BY <1>1, <1>2 DEF Abreast
<1>4. c = Len(buffer) + 1
  BY <1>1 DEF Agreement
<1>5. h[c].open = open
  BY <1>2, <1>4 DEF Trace
<1> QED
  BY <1>3, <1>5

LEMMA StepMatched == BInv /\ Agreement /\ Matched /\ [Next]_vars => Matched'
<1> SUFFICES ASSUME BInv, Agreement, Matched, [Next]_vars PROVE Matched'
  OBVIOUS
<1>1. CASE ReadNewline
  <2>1. /\ phase = "read" /\ UNCHANGED <<tokens, brackets_left>>
        /\ \/ phase' = "read"
           \/ phase' = "scan" /\ left_before' = brackets_left
    BY <1>1 DEF ReadNewline, Begin, scanning
  <2>2. CASE phase' = "read"
    BY <2>1, <2>2 DEF Matched
  <2>3. CASE phase' = "scan" /\ left_before' = brackets_left
    BY <2>1, <2>3, BeginMatched
  <2> QED
    BY <2>1, <2>2, <2>3
<1>2. CASE \E ch \in alphabet : ReadChar(ch) \/ ReadFile(ch)
  <2>1. phase = "read" /\ phase' = "read" /\ UNCHANGED brackets_left
    BY <1>2 DEF ReadChar, ReadFile, scanning
  <2> QED
    BY <2>1 DEF Matched
<1>3. CASE Eof
  BY <1>3 DEF Eof, Matched
<1>4. CASE EndOfFile
  BY <1>4, BeginMatched DEF EndOfFile, Begin, scanning
<1>5. CASE ScanStep
  BY <1>5, ScanMatched
<1>6. CASE NextInput
  BY <1>6 DEF NextInput, Matched
<1>7. CASE UNCHANGED vars
  BY <1>7 DEF vars, scanning, Matched, Counted
<1> QED
  BY <1>1, <1>2, <1>3, <1>4, <1>5, <1>6, <1>7 DEF Next

-----------------------------------------------------------------------------
(* Words and numbers *)

\* Words end where no word begins: what stands before c is not a part of a word
\* that goes on at c.
Boundary == c > 1 /\ (At(c - 1) = "#" \/ is_ident_valid(c - 1)) => ~is_ident_valid(c)

LEMMA SpellingFacts ==
  ASSUME Types, NEW n \in 1 .. Len(buffer), NEW m \in n .. Len(buffer)
  PROVE  /\ Spelling(n, m) \in Seq(Character) /\ Spelling(n, m) # <<>>
         /\ DOMAIN Spelling(n, m) = 1 .. m - n + 1 /\ Len(Spelling(n, m)) = m - n + 1
         /\ \A k \in 1 .. m - n + 1 : Spelling(n, m)[k] = At(n + k - 1)
<1>1. buffer \in Seq(Character) /\ Len(buffer) \in Nat
      /\ DOMAIN buffer = 1 .. Len(buffer)
  BY AtFacts DEF Types
<1>2. PICK s : s = SubSeq(buffer, n, m)
  OBVIOUS
<1>3. /\ s \in Seq(Character) /\ Len(s) = m - n + 1
      /\ \A k \in 1 .. m - n + 1 : s[k] = buffer[n + k - 1]
  <2>1. \A k \in n .. m : k \in 1 .. Len(buffer)
    BY <1>1
  <2> QED
    BY <1>1, <1>2, <2>1, SubSeqProperties
<1>4. DOMAIN s = 1 .. m - n + 1 /\ s # <<>>
  <2>1. DOMAIN s = 1 .. m - n + 1
    BY <1>3, LenProperties
  <2>2. m - n + 1 # 0
    BY <1>1
  <2> QED
    BY <1>3, <2>1, <2>2, EmptyText
<1>5. ASSUME NEW k \in 1 .. m - n + 1
      PROVE  s[k] = At(n + k - 1)
  <2>1. n + k - 1 \in 1 .. Len(buffer)
    BY <1>1
  <2> QED
    BY <1>3, <2>1, AtFacts
<1> QED
  BY <1>2, <1>3, <1>4, <1>5 DEF Spelling

\* Where a word begins that has a sign in front of it.
Behind(n) == IF is_sign(n) THEN n + 1 ELSE n

LEMMA UnsignedFacts ==
  ASSUME Types, NEW n \in 1 .. Len(buffer), NEW m \in n .. Len(buffer)
  PROVE  /\ Range(Unsigned(Spelling(n, m))) = {At(i) : i \in Behind(n) .. m}
         /\ Unsigned(Spelling(n, m)) # <<>> <=> Behind(n) <= m
<1>1. PICK s : s = Spelling(n, m)
  OBVIOUS
<1>2. PICK l \in Nat : l = m - n + 1
  BY AtFacts
<1>3. /\ s \in Seq(Character) /\ s # <<>> /\ DOMAIN s = 1 .. l /\ Len(s) = l
      /\ \A k \in 1 .. l : s[k] = At(n + k - 1)
  BY <1>1, <1>2, SpellingFacts
<1>4. n \in Nat /\ m \in Nat /\ l >= 1 /\ Len(buffer) \in Nat
  BY <1>2, AtFacts
<1>5. s[1] = At(n)
  <2>1. 1 \in 1 .. l /\ n + 1 - 1 = n
    BY <1>4
  <2> QED
    BY <1>3, <2>1
<1>6. CASE is_sign(n)
  <2>1. Unsigned(s) = Tail(s) /\ Behind(n) = n + 1
    BY <1>3, <1>5, <1>6 DEF Unsigned, is_sign, Behind
  <2>2. PICK t : t = Tail(s)
    OBVIOUS
  <2>3. /\ t \in Seq(Character) /\ Len(t) = l - 1
        /\ \A k \in 1 .. l - 1 : t[k] = s[k + 1]
    BY <1>3, <2>2, HeadTailProperties
  <2>4. DOMAIN t = 1 .. l - 1
    BY <2>3, LenProperties
  <2>5. t # <<>> <=> n + 1 <= m
    <3>1. CASE n + 1 <= m
      <4>1. Len(t) # 0
        BY <1>2, <1>4, <2>3, <3>1
      <4> QED
        BY <3>1, <4>1, EmptyText
    <3>2. CASE ~(n + 1 <= m)
      <4>1. Len(t) = 0
        BY <1>2, <1>4, <2>3, <3>2
      <4> QED
        BY <2>3, <3>2, <4>1, EmptySeq
    <3> QED
      BY <3>1, <3>2
  <2>6. ASSUME NEW k \in 1 .. l - 1
        PROVE  t[k] = At(n + k) /\ n + k \in n + 1 .. m
    <3>1. k + 1 \in 1 .. l /\ n + (k + 1) - 1 = n + k
      BY <1>4
    <3>2. n + k \in n + 1 .. m
      BY <1>2, <1>4
    <3> QED
      BY <1>3, <2>3, <3>1, <3>2
  <2>7. ASSUME NEW i \in n + 1 .. m
        PROVE  i - n \in 1 .. l - 1 /\ n + (i - n) = i
    BY <1>2, <1>4
  <2>8. Range(t) = {At(i) : i \in n + 1 .. m}
    <3>1. ASSUME NEW x \in Range(t) PROVE x \in {At(i) : i \in n + 1 .. m}
      <4>1. PICK k \in 1 .. l - 1 : x = t[k]
        BY <2>4 DEF Range
      <4> QED
        BY <2>6, <4>1
    <3>2. ASSUME NEW i \in n + 1 .. m PROVE At(i) \in Range(t)
      <4>1. t[i - n] = At(n + (i - n)) /\ i - n \in DOMAIN t
        BY <2>4, <2>6, <2>7
      <4>2. t[i - n] = At(i)
        BY <2>7, <4>1
      <4> QED
        BY <4>1, <4>2 DEF Range
    <3> QED
      BY <3>1, <3>2
  <2> QED
    BY <1>1, <2>1, <2>2, <2>5, <2>8
<1>7. CASE ~is_sign(n)
  <2>1. Unsigned(s) = s /\ Behind(n) = n
    BY <1>3, <1>5, <1>7 DEF Unsigned, is_sign, Behind
  <2>2. ASSUME NEW k \in 1 .. l
        PROVE  n + k - 1 \in n .. m
    BY <1>2, <1>4
  <2>3. ASSUME NEW i \in n .. m
        PROVE  i - n + 1 \in 1 .. l /\ n + (i - n + 1) - 1 = i
    BY <1>2, <1>4
  <2>4. Range(s) = {At(i) : i \in n .. m}
    <3>1. ASSUME NEW x \in Range(s) PROVE x \in {At(i) : i \in n .. m}
      <4>1. PICK k \in 1 .. l : x = s[k]
        BY <1>3 DEF Range
      <4> QED
        BY <1>3, <2>2, <4>1
    <3>2. ASSUME NEW i \in n .. m PROVE At(i) \in Range(s)
      <4>1. s[i - n + 1] = At(n + (i - n + 1) - 1) /\ i - n + 1 \in DOMAIN s
        BY <1>3, <2>3
      <4>2. s[i - n + 1] = At(i)
        BY <2>3, <4>1
      <4> QED
        BY <4>1, <4>2 DEF Range
    <3> QED
      BY <3>1, <3>2
  <2>5. n <= m
    OBVIOUS
  <2> QED
    BY <1>1, <1>3, <2>1, <2>4, <2>5
<1> QED
  BY <1>6, <1>7

\* One period, by the places it may be at.
LEMMA PeriodsFacts ==
  ASSUME Types, NEW n \in 1 .. Len(buffer), NEW m \in n .. Len(buffer)
  PROVE  Periods(Spelling(n, m)) = 1 <=>
           \E p \in n .. m : At(p) = "." /\ \A i \in n .. m : At(i) = "." => i = p
<1>1. PICK s : s = Spelling(n, m)
  OBVIOUS
<1>2. PICK l \in Nat : l = m - n + 1
  BY AtFacts
<1>3. /\ DOMAIN s = 1 .. l /\ \A k \in 1 .. l : s[k] = At(n + k - 1)
  BY <1>1, <1>2, SpellingFacts
<1>4. n \in Nat /\ m \in Nat
  BY AtFacts
<1>5. PICK S : S = {k \in 1 .. l : At(n + k - 1) = "."}
  OBVIOUS
<1>6. Periods(s) = Cardinality(S)
  <2>1. {k \in DOMAIN s : s[k] = "."} = S
    BY <1>3, <1>5
  <2> QED
    BY <2>1 DEF Periods
<1>7. Cardinality(S) = 1 <=> \E x : S = {x}
  <2>1. IsFiniteSet(1 .. l)
    BY FS_Interval
  <2>2. IsFiniteSet(S)
    BY <1>5, <2>1, FS_Subset
  <2> QED
    BY <2>2, FS_Singleton
<1>8. ASSUME NEW k \in 1 .. l
      PROVE  n + k - 1 \in n .. m
  BY <1>2, <1>4
<1>9. ASSUME NEW i \in n .. m
      PROVE  i - n + 1 \in 1 .. l /\ n + (i - n + 1) - 1 = i
  BY <1>2, <1>4
<1>10. ASSUME NEW x, S = {x}
       PROVE  \E p \in n .. m : At(p) = "." /\ \A i \in n .. m : At(i) = "." => i = p
  <2>1. x \in 1 .. l /\ At(n + x - 1) = "."
    BY <1>5, <1>10
  <2>2. PICK p \in n .. m : p = n + x - 1
    BY <1>8, <2>1
  <2>3. ASSUME NEW i \in n .. m, At(i) = "."
        PROVE  i = p
    <3>1. i - n + 1 \in S
      BY <1>5, <1>9, <2>3
    <3>2. i - n + 1 = x
      BY <1>10, <3>1
    <3> QED
      BY <1>4, <2>2, <3>2
  <2> QED
    BY <2>1, <2>2, <2>3
<1>11. ASSUME NEW p \in n .. m, At(p) = ".", \A i \in n .. m : At(i) = "." => i = p
       PROVE  \E x : S = {x}
  <2>1. p - n + 1 \in S
    BY <1>5, <1>9, <1>11
  <2>2. ASSUME NEW k \in S PROVE k = p - n + 1
    <3>1. k \in 1 .. l /\ n + k - 1 \in n .. m /\ At(n + k - 1) = "."
      BY <1>5, <1>8
    <3>2. n + k - 1 = p
      BY <1>11, <3>1
    <3> QED
      BY <1>4, <3>1, <3>2
  <2>3. PICK x : x = p - n + 1
    OBVIOUS
  <2>4. S = {x}
    BY <2>1, <2>2, <2>3
  <2> QED
    BY <2>4
<1> QED
  BY <1>1, <1>6, <1>7, <1>10, <1>11

\* The word that begins at n.
LEMMA WordParts ==
  ASSUME Types, NEW n \in 1 .. Len(buffer), is_ident_valid(n)
  PROVE  /\ WordEnd(n) - 1 \in n .. Len(buffer)
         /\ \A i \in n .. WordEnd(n) - 1 : is_ident_valid(i)
         /\ ~is_ident_valid(WordEnd(n)) /\ WordEnd(n) \in Nat
<1>1. Len(buffer) \in Nat /\ n \in 1 .. Len(buffer) + 1
  BY AtFacts
<1>2. /\ WordEnd(n) \in n .. Len(buffer) + 1 /\ ~is_ident_valid(WordEnd(n))
      /\ \A i \in n .. WordEnd(n) - 1 : is_ident_valid(i)
  BY <1>1, WordEndFacts
<1>3. WordEnd(n) # n
  BY <1>2
<1> QED
  BY <1>1, <1>2, <1>3

\* Where read_token begins to look for digits.
LEMMA OddPlacesFacts ==
  ASSUME Types, NEW n \in 1 .. Len(buffer), is_ident_valid(n),
         NEW m, m = WordEnd(n) - 1
  PROVE  \/ /\ OddPlaces(n) = {i \in Behind(n) .. m : ~isdigit(i)}
            /\ Behind(n) <= m
         \/ /\ is_sign(n) /\ ~isdigit(n) /\ n \in OddPlaces(n)
            /\ At(n) # "."
            /\ n + 1 <= m => ~isdigit(n + 1) /\ At(n + 1) # "."
<1>1. /\ m \in n .. Len(buffer) /\ ~is_ident_valid(m + 1) /\ m \in Nat /\ n \in Nat
  <2>1. WordEnd(n) - 1 + 1 = WordEnd(n)
    BY WordParts
  <2> QED
    BY <2>1, WordParts, AtFacts
<1>2. CASE is_sign(n) /\ (isdigit(n + 1) \/ At(n + 1) = ".")
  <2>1. is_ident_valid(n + 1)
    BY <1>2 DEF isdigit, is_ident_valid, Special
  <2>2. n + 1 <= m
    BY <1>1, <2>1
  <2> QED
    BY <1>2, <2>2 DEF OddPlaces, Behind
<1>3. CASE is_sign(n) /\ ~(isdigit(n + 1) \/ At(n + 1) = ".")
  <2>1. At(n) = "+" /\ ~isdigit(n)
    BY <1>3 DEF is_sign, isdigit, Signs, Digits
  <2>2. n \in n .. m
    BY <1>1
  <2>3. OddPlaces(n) = {i \in n .. WordEnd(n) - 1 : ~isdigit(i)}
    BY <1>3 DEF OddPlaces
  <2> QED
    BY <1>3, <2>1, <2>2, <2>3
<1>4. CASE ~is_sign(n)
  <2>1. OddPlaces(n) = {i \in n .. WordEnd(n) - 1 : ~isdigit(i)} /\ Behind(n) = n
    BY <1>4 DEF OddPlaces, Behind
  <2> QED
    BY <1>1, <2>1
<1> QED
  BY <1>2, <1>3, <1>4

LEMMA IntegerWord ==
  ASSUME Types, NEW n \in 1 .. Len(buffer), is_ident_valid(n)
  PROVE  IsInteger(Spelling(n, WordEnd(n) - 1)) <=> OddPlaces(n) = {}
<1>1. PICK m : m = WordEnd(n) - 1
  OBVIOUS
<1>2. m \in n .. Len(buffer) /\ n \in Nat /\ m \in Nat
  BY <1>1, WordParts, AtFacts
<1>3. PICK u : u = Unsigned(Spelling(n, m))
  OBVIOUS
<1>4. /\ Range(u) = {At(i) : i \in Behind(n) .. m} /\ (u # <<>> <=> Behind(n) <= m)
  BY <1>2, <1>3, UnsignedFacts
<1>5. IsInteger(Spelling(n, m)) <=>
        Behind(n) <= m /\ \A i \in Behind(n) .. m : isdigit(i)
  BY <1>3, <1>4 DEF IsInteger, isdigit
<1>6. CASE /\ OddPlaces(n) = {i \in Behind(n) .. m : ~isdigit(i)}
           /\ Behind(n) <= m
  BY <1>1, <1>5, <1>6
<1>7. CASE /\ is_sign(n) /\ n \in OddPlaces(n)
           /\ n + 1 <= m => ~isdigit(n + 1) /\ At(n + 1) # "."
  <2>1. Behind(n) = n + 1
    BY <1>7 DEF Behind
  <2>2. ~IsInteger(Spelling(n, m))
    <3>1. ASSUME n + 1 <= m PROVE n + 1 \in n + 1 .. m
      BY <1>2, <3>1
    <3> QED
      BY <1>5, <1>7, <2>1, <3>1
  <2> QED
    BY <1>1, <1>7, <2>2
<1> QED
  BY <1>1, <1>6, <1>7, OddPlacesFacts

LEMMA FloatingWord ==
  ASSUME Types, NEW n \in 1 .. Len(buffer), is_ident_valid(n), ~isdigit(n - 1)
  PROVE  IsFloating(Spelling(n, WordEnd(n) - 1)) <=>
           \E i \in OddPlaces(n) : OddPlaces(n) = {i} /\ IsPoint(i)
<1>1. PICK m : m = WordEnd(n) - 1
  OBVIOUS
<1>2. /\ m \in n .. Len(buffer) /\ n \in Nat /\ m \in Nat /\ ~is_ident_valid(m + 1)
  <2>1. WordEnd(n) - 1 + 1 = WordEnd(n)
    BY WordParts
  <2> QED
    BY <1>1, <2>1, WordParts, AtFacts
<1>3. PICK b \in Nat : b = Behind(n)
  BY <1>2 DEF Behind
<1>4. \/ b = n /\ ~is_sign(n)
      \/ b = n + 1 /\ is_sign(n) /\ ~isdigit(n) /\ At(n) # "."
  BY <1>3 DEF Behind, is_sign, isdigit, Signs, Digits
<1>5. IsFloating(Spelling(n, m)) <=>
        /\ \E p \in n .. m : At(p) = "." /\ \A i \in n .. m : At(i) = "." => i = p
        /\ \E d \in b .. m : isdigit(d)
        /\ \A i \in b .. m : isdigit(i) \/ At(i) = "."
  <2>1. PICK u : u = Unsigned(Spelling(n, m))
    OBVIOUS
  <2>2. Range(u) = {At(i) : i \in b .. m}
    BY <1>2, <1>3, <2>1, UnsignedFacts
  <2>3. Range(u) \cap Digits # {} <=> \E d \in b .. m : isdigit(d)
    BY <2>2 DEF isdigit
  <2>4. Range(u) \subseteq Digits \cup {"."} <=> \A i \in b .. m : isdigit(i) \/ At(i) = "."
    BY <2>2 DEF isdigit
  <2>5. Periods(Spelling(n, m)) = 1 <=>
          \E p \in n .. m : At(p) = "." /\ \A i \in n .. m : At(i) = "." => i = p
    BY <1>2, PeriodsFacts
  <2> QED
    BY <2>1, <2>3, <2>4, <2>5 DEF IsFloating
<1>6. \A i : isdigit(i) => At(i) # "."
  BY DEF isdigit, Digits
<1>7. ASSUME /\ OddPlaces(n) = {i \in b .. m : ~isdigit(i)}
             /\ b <= m
      PROVE  IsFloating(Spelling(n, m)) <=>
               \E i \in OddPlaces(n) : OddPlaces(n) = {i} /\ IsPoint(i)
  <2>1. ASSUME NEW p \in n .. m, At(p) = ".", \A i \in n .. m : At(i) = "." => i = p,
               NEW d \in b .. m, isdigit(d),
               \A i \in b .. m : isdigit(i) \/ At(i) = "."
        PROVE  \E i \in OddPlaces(n) : OddPlaces(n) = {i} /\ IsPoint(i)
    <3>1. p \in b .. m /\ d # p
      <4>1. p # n \/ b = n
        BY <1>4, <2>1
      <4> QED
        BY <1>2, <1>3, <1>4, <1>6, <2>1, <4>1
    <3>2. \A i \in b .. m : i \in n .. m
      BY <1>2, <1>3, <1>4
    <3>3. \A i \in b .. m : ~isdigit(i) <=> i = p
      BY <1>6, <2>1, <3>1, <3>2
    <3>4. OddPlaces(n) = {p}
      BY <1>7, <3>1, <3>3
    <3>5. isdigit(p + 1) \/ isdigit(p - 1)
      <4>1. CASE p = b
        <5>1. p + 1 \in b .. m /\ p + 1 # p
          BY <1>2, <1>3, <3>1, <4>1
        <5> QED
          BY <3>3, <5>1
      <4>2. CASE p # b
        <5>1. p - 1 \in b .. m /\ p - 1 # p
          BY <1>2, <1>3, <3>1, <4>2
        <5> QED
          BY <3>3, <5>1
      <4> QED
        BY <4>1, <4>2
    <3> QED
      BY <2>1, <3>4, <3>5 DEF IsPoint
  <2>2. ASSUME NEW p, OddPlaces(n) = {p}, IsPoint(p)
        PROVE  /\ \E q \in n .. m : At(q) = "." /\ \A i \in n .. m : At(i) = "." => i = q
               /\ \E d \in b .. m : isdigit(d)
               /\ \A i \in b .. m : isdigit(i) \/ At(i) = "."
    <3>1. p \in b .. m /\ At(p) = "." /\ (isdigit(p + 1) \/ isdigit(p - 1))
      BY <1>7, <2>2 DEF IsPoint
    <3>2. \A i \in b .. m : ~isdigit(i) => i = p
      BY <1>7, <2>2
    <3>3. \A i \in n .. m : At(i) = "." => i = p
      <4>1. ASSUME NEW i \in n .. m, At(i) = "." PROVE i \in b .. m
        <5>1. i # n \/ b = n
          BY <1>4, <4>1
        <5> QED
          BY <1>2, <1>3, <1>4, <5>1
      <4> QED
        BY <1>6, <3>2, <4>1
    <3>4. p \in n .. m
      BY <1>2, <1>3, <1>4, <3>1
    <3>5. \E d \in b .. m : isdigit(d)
      <4>1. CASE isdigit(p + 1)
        <5>1. is_ident_valid(p + 1)
          BY <4>1 DEF isdigit, is_ident_valid
        <5>2. p + 1 # m + 1
          BY <1>2, <5>1
        <5>3. p + 1 \in b .. m
          BY <1>2, <1>3, <3>1, <5>2
        <5> QED
          BY <4>1, <5>3
      <4>2. CASE isdigit(p - 1)
        <5>1. p # b
          <6>1. CASE b = n
            BY <4>2, <6>1
          <6>2. CASE b = n + 1 /\ ~isdigit(n)
            <7>1. b - 1 = n
              BY <1>2, <6>2
            <7> QED
              BY <4>2, <6>2, <7>1
          <6> QED
            BY <1>4, <6>1, <6>2
        <5>2. p - 1 \in b .. m
          BY <1>2, <1>3, <3>1, <5>1
        <5> QED
          BY <4>2, <5>2
      <4> QED
        BY <3>1, <4>1, <4>2
    <3> QED
      BY <3>1, <3>2, <3>3, <3>4, <3>5
  <2> QED
    BY <1>5, <2>1, <2>2
<1>8. ASSUME /\ is_sign(n) /\ n \in OddPlaces(n) /\ At(n) # "."
             /\ n + 1 <= m => ~isdigit(n + 1) /\ At(n + 1) # "."
      PROVE  IsFloating(Spelling(n, m)) <=>
               \E i \in OddPlaces(n) : OddPlaces(n) = {i} /\ IsPoint(i)
  <2>1. ~IsFloating(Spelling(n, m))
    <3>1. b = n + 1
      BY <1>4, <1>8
    <3>2. ASSUME NEW d \in b .. m PROVE n + 1 <= m /\ n + 1 \in b .. m
      BY <1>2, <1>3, <3>1
    <3> QED
      BY <1>5, <1>8, <3>2
  <2>2. ASSUME NEW i \in OddPlaces(n), OddPlaces(n) = {i}, IsPoint(i) PROVE FALSE
    <3>1. i = n
      BY <1>8, <2>2
    <3> QED
      BY <1>8, <2>2, <3>1 DEF IsPoint
  <2> QED
    BY <2>1, <2>2
<1>9. \/ /\ OddPlaces(n) = {i \in b .. m : ~isdigit(i)}
         /\ b <= m
      \/ /\ is_sign(n) /\ n \in OddPlaces(n) /\ At(n) # "."
         /\ n + 1 <= m => ~isdigit(n + 1) /\ At(n + 1) # "."
  BY <1>1, <1>3, OddPlacesFacts
<1>10. IsFloating(Spelling(n, m)) <=>
         \E i \in OddPlaces(n) : OddPlaces(n) = {i} /\ IsPoint(i)
  BY <1>7, <1>8, <1>9
<1> QED
  BY <1>1, <1>10

Lexical(t) ==
  LET w == Spelling(t.from, t.to) IN
  /\ t.kind = "integer" <=> t.kind # "string" /\ t.kind # "barred" /\ IsInteger(w)
                            /\ At(t.from - 1) # "#"
  /\ t.kind = "floating" <=> t.kind # "string" /\ t.kind # "barred" /\ IsFloating(w)
                             /\ At(t.from - 1) # "#"
  /\ t.kind = "true" => IsPrefix(w, <<"t", "r", "u", "e">>)
  /\ t.kind = "false" => w # <<>> /\ IsPrefix(w, <<"f", "a", "l", "s", "e">>)
  /\ t.kind = "undefined" => ~IsPrefix(w, <<"t", "r", "u", "e">>)
                             /\ ~IsPrefix(w, <<"f", "a", "l", "s", "e">>)

NewToken(t) == tokens' = Append(tokens, t) /\ Lexical(t)

LEMMA WordLexical ==
  ASSUME Types, Boundary, Word
  PROVE  \E t : NewToken(t)
<1>1. PICK n : n = Here
  OBVIOUS
<1>2. At(c) # "NUL" /\ is_ident_valid(n)
  BY <1>1 DEF Word, Iterating, is_ident_valid
<1>3. /\ n \in 1 .. Len(buffer) /\ c \in 1 .. Len(buffer)
      /\ (At(c) \in Blanks /\ n = c + 1) \/ n = c
  <2>1. At(n) # "NUL"
    BY <1>2 DEF is_ident_valid, Digits, Letters, Special, Signs
  <2> QED
    BY <1>1, <1>2, <2>1, HereFacts
<1>4. At(n - 1) # "#" /\ ~is_ident_valid(n - 1)
  <2>1. CASE At(c) \in Blanks /\ n = c + 1
    <3>1. n - 1 = c
      BY <1>3, <2>1
    <3> QED
      BY <2>1, <3>1 DEF Blanks, is_ident_valid, Digits, Letters, Special, Signs
  <2>2. CASE n = c /\ c = 1
    <3>1. At(n - 1) = "NUL"
      <4>1. n - 1 = 0 /\ 0 \notin 1 .. Len(buffer)
        BY <1>3, <2>2
      <4> QED
        BY <4>1, AtFacts
    <3> QED
      BY <3>1 DEF is_ident_valid, Digits, Letters, Special, Signs
  <2>3. CASE n = c /\ c # 1
    <3>1. c > 1
      BY <1>3, <2>3
    <3> QED
      BY <1>2, <2>3, <3>1 DEF Boundary
  <2> QED
    BY <1>3, <2>1, <2>2, <2>3
<1>5. ~isdigit(n - 1)
  BY <1>4 DEF isdigit, is_ident_valid
<1>6. PICK m : m = WordEnd(n) - 1
  OBVIOUS
<1>7. PICK k : /\ tokens' = Append(tokens, [kind |-> k, from |-> n, to |-> m])
               /\ k = IF read_token(n) = 1 THEN "integer"
                      ELSE IF read_token(n) = 2 THEN "floating"
                      ELSE IF Spelling(n, m) = <<".">> THEN "period"
                      ELSE IF Spelling(n, m) \in keywords THEN "keyword" ELSE "ident"
  BY <1>1, <1>6 DEF Word, new_token
<1>8. PICK t : t = [kind |-> k, from |-> n, to |-> m]
  OBVIOUS
<1>9. /\ k = "integer" <=> read_token(n) = 1
      /\ k = "floating" <=> read_token(n) = 2
      /\ k \in {"integer", "floating", "period", "keyword", "ident"}
  BY <1>7
<1>10. k = "integer" <=> IsInteger(Spelling(n, m))
  <2>1. read_token(n) = 1 <=> OddPlaces(n) = {}
    BY DEF read_token
  <2> QED
    BY <1>2, <1>3, <1>6, <1>9, <2>1, IntegerWord
<1>11. k = "floating" <=> IsFloating(Spelling(n, m))
  <2>1. read_token(n) = 2 <=> \E i \in OddPlaces(n) : OddPlaces(n) = {i} /\ IsPoint(i)
    BY DEF read_token
  <2> QED
    BY <1>2, <1>3, <1>5, <1>6, <1>9, <2>1, FloatingWord
<1>12. Lexical(t)
  BY <1>4, <1>8, <1>9, <1>10, <1>11 DEF Lexical
<1> QED
  BY <1>7, <1>8, <1>12 DEF NewToken

LEMMA SharpLexical ==
  ASSUME Types, Sharp
  PROVE  \E t : NewToken(t)
<1>1. PICK n : n = Here
  OBVIOUS
<1>2. At(c) # "NUL" /\ At(n) = "#"
  BY <1>1 DEF Sharp, Iterating
<1>3. n \in 1 .. Len(buffer)
  BY <1>1, <1>2, HereFacts
<1>4. PICK m : m = WordEnd(n + 1) - 1
  OBVIOUS
<1>5. PICK k : /\ tokens' = Append(tokens, [kind |-> k, from |-> n + 1, to |-> m])
               /\ k = SharpKind(Spelling(n + 1, m))
  BY <1>1, <1>4 DEF Sharp, new_token
<1>6. PICK t : t = [kind |-> k, from |-> n + 1, to |-> m]
  OBVIOUS
<1>7. t.kind = k /\ t.from - 1 = n /\ Spelling(t.from, t.to) = Spelling(n + 1, m)
  BY <1>3, <1>6
<1>8. k \in {"true", "false", "undefined"}
  BY <1>5 DEF SharpKind
<1>9. PICK w : w = Spelling(n + 1, m)
  OBVIOUS
<1>10. /\ k = "true" => IsPrefix(w, <<"t", "r", "u", "e">>)
       /\ k = "false" => w # <<>> /\ IsPrefix(w, <<"f", "a", "l", "s", "e">>)
       /\ k = "undefined" => ~IsPrefix(w, <<"t", "r", "u", "e">>)
                             /\ ~IsPrefix(w, <<"f", "a", "l", "s", "e">>)
  <2>1. IsPrefix(<<>>, <<"t", "r", "u", "e">>)
    BY DEF IsPrefix
  <2> QED
    BY <1>5, <1>9, <2>1 DEF SharpKind
<1>11. Lexical(t)
  BY <1>2, <1>7, <1>8, <1>9, <1>10 DEF Lexical
<1> QED
  BY <1>5, <1>6, <1>11 DEF NewToken

LEMMA SingleLexical ==
  ASSUME Types, At(c) # "NUL", At(Here) \in {"'", "(", ")"},
         NEW k \in {"quote", "(", ")"}, NEW next, new_token(k, Here, Here, next)
  PROVE  \E t : NewToken(t)
<1>1. PICK n : n = Here
  OBVIOUS
<1>2. n \in 1 .. Len(buffer) /\ n \in n .. Len(buffer)
  <2>1. At(n) # "NUL"
    BY <1>1
  <2>2. n \in 1 .. Len(buffer)
    BY <1>1, <2>1, HereFacts
  <2> QED
    BY <2>2, AtFacts
<1>3. PICK t : t = [kind |-> k, from |-> n, to |-> n]
  OBVIOUS
<1>4. PICK u : u = Unsigned(Spelling(n, n))
  OBVIOUS
<1>5. Range(u) = {At(n)}
  <2>1. ~is_sign(n)
    BY <1>1 DEF is_sign, Signs
  <2>2. Range(u) = {At(i) : i \in n .. n}
    BY <1>2, <1>4, <2>1, UnsignedFacts DEF Behind
  <2>3. n .. n = {n}
    BY <1>2
  <2> QED
    BY <2>2, <2>3
<1>6. ~IsInteger(Spelling(n, n)) /\ ~IsFloating(Spelling(n, n))
  <2>1. At(n) \notin Digits \cup {"."}
    BY <1>1 DEF Digits
  <2> QED
    BY <1>4, <1>5, <2>1 DEF IsInteger, IsFloating
<1>7. Lexical(t)
  BY <1>3, <1>6 DEF Lexical
<1> QED
  BY <1>1, <1>3, <1>7 DEF NewToken, new_token

LEMMA ScanLexical ==
  ASSUME Types, Boundary, ScanStep
  PROVE  UNCHANGED tokens \/ \E t : NewToken(t)
<1>1. CASE Skip \/ Comment \/ InvalidCharacter \/ EndOfText
  BY <1>1 DEF Skip, Comment, InvalidCharacter, EndOfText, error_at, scanning
<1>2. CASE Word
  BY <1>2, WordLexical
<1>3. CASE Sharp
  BY <1>3, SharpLexical
<1>4. CASE Quote
  BY <1>4, SingleLexical DEF Quote, Iterating
<1>5. CASE OpenBracket
  BY <1>5, SingleLexical DEF OpenBracket, Iterating
<1>6. CASE CloseBracket
  <2>1. /\ At(c) # "NUL" /\ At(Here) = ")"
        /\ UNCHANGED tokens \/ new_token(")", Here, Here, Here + 1)
    BY <1>6 DEF CloseBracket, Iterating, error_at
  <2>2. CASE new_token(")", Here, Here, Here + 1)
    BY <2>1, <2>2, SingleLexical
  <2> QED
    BY <2>1, <2>2
<1>7. ASSUME NEW mark, NEW kind, kind \in {"string", "barred"}, Enclosed(mark, kind)
      PROVE  UNCHANGED tokens \/ \E t : NewToken(t)
  <2>1. \/ UNCHANGED tokens
        \/ \E to, next : new_token(kind, Here + 1, to, next)
    BY <1>7 DEF Enclosed, error_at
  <2>2. ASSUME NEW to, NEW next, new_token(kind, Here + 1, to, next)
        PROVE  \E t : NewToken(t)
    <3>1. PICK t : t = [kind |-> kind, from |-> Here + 1, to |-> to]
      OBVIOUS
    <3>2. Lexical(t)
      <4>1. t.kind \in {"string", "barred"}
        BY <1>7, <3>1
      <4> QED
        BY <4>1 DEF Lexical
    <3> QED
      BY <2>2, <3>1, <3>2 DEF NewToken, new_token
  <2> QED
    BY <2>1, <2>2
<1>8. CASE Enclosed("dq", "string") \/ Enclosed("bar", "barred")
  BY <1>7, <1>8
<1> QED
  BY <1>1, <1>2, <1>3, <1>4, <1>5, <1>6, <1>8 DEF ScanStep

LEMMA ScanBoundary ==
  ASSUME Types, Boundary, ScanStep
  PROVE  Boundary'
<1>1. UNCHANGED buffer
  BY ScanCases DEF reading
<1>2. \A i : At(i)' = At(i)
  BY <1>1, SameText
<1>3. \A i : is_ident_valid(i)' = is_ident_valid(i)
  BY <1>2 DEF is_ident_valid
<1>4. Boundary' <=> (c' > 1 /\ (At(c' - 1) = "#" \/ is_ident_valid(c' - 1))
                        => ~is_ident_valid(c'))
  BY <1>2, <1>3 DEF Boundary
<1>5. CASE c' = c
  BY <1>4, <1>5 DEF Boundary
<1>6. CASE ~is_ident_valid(c')
  BY <1>4, <1>6
<1>7. ASSUME NEW d, c' = d + 1, d \in Nat, At(d) # "#", ~is_ident_valid(d)
      PROVE  Boundary'
  <2>1. c' - 1 = d
    BY <1>7
  <2> QED
    BY <1>4, <1>7, <2>1
<1>8. Len(buffer) \in Nat
  BY AtFacts
<1>9. CASE InvalidCharacter \/ EndOfText
  <2>1. c' = c
    BY <1>9 DEF InvalidCharacter, error_at, EndOfText, scanning
  <2> QED
    BY <1>5, <2>1
<1>10. CASE Skip
  <2>1. At(c) \in Blanks /\ c' = c + 1
    <3>1. At(c) \in Blanks /\ c' = Here
      BY <1>10, SkipMoves DEF Skip
    <3> QED
      BY <3>1 DEF Here
  <2>2. c \in Nat
    BY <1>8 DEF Types
  <2>3. At(c) # "#" /\ ~is_ident_valid(c)
    BY <2>1 DEF Blanks, is_ident_valid, Digits, Letters, Special, Signs
  <2> QED
    BY <1>7, <2>1, <2>2, <2>3
<1>11. CASE Comment
  <2>1. c' = Find(Here, {"nl"}) /\ At(c) # "NUL"
    BY <1>11 DEF Comment, Iterating
  <2>2. At(c') \in {"nl", "NUL"}
    <3>1. At(Len(buffer) + 1) = "NUL"
      BY <1>8, AtFacts
    <3>2. c' = Len(buffer) + 1 \/ At(c') \in {"nl"}
      BY <2>1, HereFacts, FindFacts
    <3> QED
      BY <3>1, <3>2
  <2> QED
    BY <1>6, <2>2 DEF is_ident_valid, Digits, Letters, Special, Signs
<1>12. CASE Sharp
  <2>1. c' = WordEnd(Here + 1) /\ At(c) # "NUL" /\ At(Here) # "NUL"
    BY <1>12 DEF Sharp, Iterating, new_token
  <2>2. Here + 1 \in 1 .. Len(buffer) + 1
    BY <1>8, <2>1, HereFacts
  <2> QED
    BY <1>6, <2>1, <2>2, WordEndFacts
<1>13. CASE Word
  <2>1. c' = WordEnd(Here) /\ At(c) # "NUL"
    BY <1>13 DEF Word, Iterating, new_token
  <2>2. Here \in 1 .. Len(buffer) + 1
    BY <2>1, HereFacts
  <2> QED
    BY <1>6, <2>1, <2>2, WordEndFacts
<1>14. CASE Quote \/ OpenBracket \/ CloseBracket
  <2>1. /\ At(c) # "NUL" /\ At(Here) \in {"'", "(", ")"}
        /\ c' = c \/ c' = Here + 1
    BY <1>14 DEF Quote, OpenBracket, CloseBracket, Iterating, new_token, error_at
  <2>2. Here \in Nat
    BY <1>8, <2>1, HereFacts
  <2>3. At(Here) # "#" /\ ~is_ident_valid(Here)
    BY <2>1 DEF is_ident_valid, Digits, Letters, Special, Signs
  <2> QED
    BY <1>5, <1>7, <2>1, <2>2, <2>3
<1>15. ASSUME NEW mark, NEW kind,
              (mark = "dq" /\ kind = "string") \/ (mark = "bar" /\ kind = "barred"),
              Enclosed(mark, kind)
       PROVE  Boundary'
  <2>1. CASE c' = c
    BY <1>5, <2>1
  <2>2. CASE c' # c
    <3>1. ~Stops
      BY <2>2 DEF Stops
    <3>2. PICK e : e = Find(Here + 1, {mark})
      OBVIOUS
    <3>3. e \in Here + 1 .. Len(buffer) /\ At(e) = mark
      BY <1>15, <3>1, <3>2, EnclosedScans
    <3>4. c' = e + 1
      BY <1>15, <2>2, <3>2 DEF Enclosed, error_at, new_token
    <3>5. e \in Nat
      <4>1. Here \in Nat
        BY <1>8, <1>15, HereFacts DEF Enclosed, Iterating
      <4> QED
        BY <1>8, <3>3, <4>1
    <3>6. At(e) # "#" /\ ~is_ident_valid(e)
      BY <1>15, <3>3 DEF is_ident_valid, Digits, Letters, Special, Signs
    <3> QED
      BY <1>7, <3>4, <3>5, <3>6
  <2> QED
    BY <2>1, <2>2
<1>16. CASE Enclosed("dq", "string") \/ Enclosed("bar", "barred")
  BY <1>15, <1>16
<1> QED
  BY <1>9, <1>10, <1>11, <1>12, <1>13, <1>14, <1>16 DEF ScanStep

TokensLexical == \A i \in DOMAIN tokens : Lexical(tokens[i])

LEMMA StepLexical ==
  BInv /\ Boundary /\ TokensLexical /\ [Next]_vars => Boundary' /\ TokensLexical'
<1> SUFFICES ASSUME BInv, Boundary, TokensLexical, [Next]_vars
             PROVE  Boundary' /\ TokensLexical'
  OBVIOUS
<1>1. ASSUME c' = 1, tokens' = <<>> PROVE Boundary' /\ TokensLexical'
  <2>1. DOMAIN tokens' = {}
    BY <1>1, EmptyText
  <2> QED
    BY <1>1, <2>1 DEF Boundary, TokensLexical
<1>2. ASSUME phase = "read", UNCHANGED <<c, tokens>> PROVE Boundary' /\ TokensLexical'
  BY <1>1, <1>2 DEF BInv, Ordered
<1>3. CASE ReadNewline \/ (\E ch \in alphabet : ReadChar(ch) \/ ReadFile(ch))
  <2>1. phase = "read" /\ UNCHANGED <<c, tokens>>
    BY <1>3 DEF ReadNewline, ReadChar, ReadFile, Begin, scanning
  <2> QED
    BY <1>2, <2>1
<1>4. CASE Eof \/ EndOfFile
  <2>1. phase = "read" /\ UNCHANGED <<c, tokens>>
    BY <1>4 DEF Eof, EndOfFile, Begin, scanning
  <2> QED
    BY <1>2, <2>1
<1>5. CASE ScanStep
  <2>1. Boundary' /\ UNCHANGED buffer /\ (UNCHANGED tokens \/ \E t : NewToken(t))
    BY <1>5, ScanBoundary, ScanLexical, ScanCases DEF BInv, reading
  <2>2. \A t : Lexical(t)' = Lexical(t)
    BY <2>1 DEF Lexical, Spelling, At
  <2>3. CASE UNCHANGED tokens
    <3>1. \A i \in DOMAIN tokens : Lexical(tokens[i])'
      BY <2>3, <2>2 DEF TokensLexical
    <3> QED
      BY <2>1, <2>3, <3>1 DEF TokensLexical
  <2>4. CASE \E t : NewToken(t)
    <3>1. PICK t : NewToken(t)
      BY <2>4
    <3>2. tokens' = Append(tokens, t) /\ Lexical(t)
      BY <3>1 DEF NewToken
    <3>3. /\ Len(tokens) \in Nat /\ DOMAIN tokens = 1 .. Len(tokens)
          /\ DOMAIN tokens' = 1 .. Len(tokens) + 1
          /\ tokens'[Len(tokens) + 1] = t
          /\ \A i \in 1 .. Len(tokens) : tokens'[i] = tokens[i]
      <4>1. tokens \in Seq(Tokens \cup {t}) /\ t \in Tokens \cup {t}
        BY SeqMonotonic DEF BInv, Types
      <4>2. /\ tokens' \in Seq(Tokens \cup {t}) /\ Len(tokens') = Len(tokens) + 1
            /\ \A i \in 1 .. Len(tokens) : tokens'[i] = tokens[i]
            /\ tokens'[Len(tokens) + 1] = t
        BY <3>2, <4>1, AppendProperties
      <4> QED
        BY <4>1, <4>2, LenProperties
    <3>4. ASSUME NEW i \in DOMAIN tokens' PROVE Lexical(tokens'[i])
      <4>1. CASE i = Len(tokens) + 1
        BY <3>2, <3>3, <4>1
      <4>2. CASE i # Len(tokens) + 1
        <5>1. i \in 1 .. Len(tokens)
          BY <3>3, <4>2
        <5> QED
          BY <3>3, <5>1 DEF TokensLexical
      <4> QED
        BY <4>1, <4>2
    <3>5. TokensLexical'
      BY <2>1, <3>4 DEF TokensLexical, Lexical, Spelling, At
    <3> QED
      BY <2>1, <3>5
  <2> QED
    BY <2>1, <2>3, <2>4
<1>6. CASE NextInput
  BY <1>1, <1>6 DEF NextInput
<1>7. CASE UNCHANGED vars
  BY <1>7 DEF vars, reading, scanning, Boundary, TokensLexical, Lexical, Spelling, At,
              is_ident_valid
<1> QED
  BY <1>3, <1>4, <1>5, <1>6, <1>7 DEF Next

-----------------------------------------------------------------------------
(* Theorems *)

LEMMA InitRest == Init => Accounted /\ Matched
<1> SUFFICES ASSUME Init PROVE Accounted /\ Matched
  OBVIOUS
<1>1. 1 .. c - 1 = {}
  BY DEF Init
<1> QED
  BY <1>1 DEF Init, Accounted, Matched

LEMMA Invariant == Spec => [](BInv /\ Agreement /\ Accounted /\ Matched)
<1>1. Init => BInv /\ Agreement /\ Accounted /\ Matched
  BY InitBInv, InitAgreement, InitRest
<1>2. BInv /\ Agreement /\ Accounted /\ Matched /\ [Next]_vars
        => (BInv /\ Agreement /\ Accounted /\ Matched)'
  BY StepBInv, StepAgreement, StepAccounted, StepMatched
<1> QED
  BY <1>1, <1>2, PTL DEF Spec

(* The scanner stays within its text: c and the borders of every token     *)
(* (scan.c:119-215), and the count of open brackets is never negative      *)
(* (scan.c:146-150).                                                       *)
THEOREM TypeCorrect == Spec => []TypeOK
<1>1. BInv => TypeOK
  <2> SUFFICES ASSUME BInv PROVE TypeOK
    OBVIOUS
  <2>1. brackets_left \in 0 .. MaxBrackets
    BY ReaderAssumption DEF BInv, Types, Brackets
  <2>2. ASSUME NEW t \in Range(tokens)
        PROVE  t.from \in 1 .. Len(buffer) + 1 /\ t.to \in 0 .. Len(buffer)
    <3>1. PICK i \in DOMAIN tokens : t = tokens[i]
      BY DEF Range
    <3>2. /\ t \in Tokens /\ t.from <= t.to + 1 /\ t.to < c
          /\ c \in 1 .. Len(buffer) + 1 /\ Len(buffer) \in Nat
      BY <3>1, TokenTypes, AtFacts DEF BInv, Ordered, Types
    <3>3. t.from \in Nat \ {0} /\ t.to \in Nat
      BY <3>2 DEF Tokens
    <3> QED
      BY <3>2, <3>3
  <2> QED
    BY <2>1, <2>2 DEF TypeOK, BInv, Types
<1> QED
  BY <1>1, BInvariant, PTL

(* shirp_readline (main.c:24-53) writes within its buffer, however long a  *)
(* line is.                                                                *)
THEOREM WritesInBounds == Spec => []BufferBounded
<1>1. BInv => BufferBounded
  BY DEF BInv, Buffer, BufferBounded
<1> QED
  BY <1>1, BInvariant, PTL

(* Every character the scanner has passed (scan.c:119-215) is in a token,  *)
(* beside one, blank or in a comment, and no two tokens overlap.           *)
THEOREM NothingLost == Spec => []NothingSkipped
<1>1. BInv /\ Accounted => NothingSkipped
  BY DEF BInv, Ordered, Accounted, NothingSkipped
<1> QED
  BY <1>1, Invariant, PTL

(* The reader's count of brackets (main.c:41-46) and the scanner's         *)
(* (scan.c:140-151) are the same number for a line that is scanned without *)
(* error and has no string or barred identifier the two read differently.  *)
THEOREM CountsAgree == Spec => []ReaderAgrees
BY Agrees, Invariant, PTL

(* A typed line the reader and the scanner read alike leaves no more       *)
(* brackets open than it found (scan.c:117), although main (main.c:209-    *)
(* 213) asks for more only while its own count is above zero; so a line    *)
(* that finds none open gives the parser brackets that match.              *)
THEOREM ParserGetsWhole == Spec => []CompleteForParser
<1>1. BInv /\ Agreement /\ Matched => CompleteForParser
  <2> SUFFICES ASSUME BInv, Agreement, Matched, phase = "scanned", ~Differ
               PROVE  /\ brackets_left <= left_before
                      /\ left_before = 0 => BracketsMatch
    BY DEF CompleteForParser
  <2>1. source = "line"
    BY DEF Differ, BInv, Types
  <2>2. /\ open = brackets_left - left_before /\ open <= 0
        /\ brackets_left \in Nat /\ left_before \in Nat
    BY <2>1, Agrees DEF ReaderAgrees, Agreement, BInv, Types
  <2>3. brackets_left <= left_before
    BY <2>2
  <2> SUFFICES ASSUME left_before = 0
               PROVE  BracketsMatch
    BY <2>3
  <2>10. brackets_left = 0
    BY <2>2, <2>3
  <2>4. Len(tokens) \in Nat /\ DOMAIN tokens = 1 .. Len(tokens)
    BY LenProperties DEF BInv, Types
  <2>5. PICK m \in Nat : m = Len(tokens)
    BY <2>4
  <2>6. /\ 0 + CountIn(tokens, ")", m) = 0 + CountIn(tokens, "(", m)
        /\ \A n \in 0 .. m : CountIn(tokens, ")", n) <= CountIn(tokens, "(", n) + 0
    BY <2>5, <2>10 DEF Matched, Counted
  <2>7. \A kind : \A n \in Nat : CountIn(tokens, kind, n) \in Nat
    BY CountFacts
  <2>8. CountIn(tokens, ")", m) = CountIn(tokens, "(", m)
    BY <2>6, <2>7
  <2>9. \A n \in 1 .. m : CountIn(tokens, ")", n) <= CountIn(tokens, "(", n)
    <3>1. ASSUME NEW n \in 1 .. m
          PROVE  CountIn(tokens, ")", n) <= CountIn(tokens, "(", n)
      <4>1. n \in 0 .. m /\ n \in Nat
        BY <2>5
      <4> QED
        BY <2>6, <2>7, <4>1
    <3> QED
      BY <3>1
  <2> QED
    BY <2>4, <2>5, <2>8, <2>9, CountIsCountIn DEF BracketsMatch
<1> QED
  BY <1>1, Invariant, PTL

(* Numbers are what README.md defines under "Lexical Elements", whatever   *)
(* stands around them: read_token (scan.c:48-70), with its one loop and    *)
(* its looks to both sides of a period, tells integers, floating numbers   *)
(* and identifiers apart for words of any length; and handle_sharp         *)
(* (scan.c:98-106) takes any beginning of the word true for it.            *)
THEOREM WordsRead == Spec => []LexicalElements
<1>1. Init => Boundary /\ TokensLexical
  BY EmptyText DEF Init, Boundary, TokensLexical
<1>2. TokensLexical => LexicalElements
  <2> SUFFICES ASSUME TokensLexical, NEW t \in Range(tokens)
               PROVE  Lexical(t)
    BY DEF LexicalElements, Lexical
  <2> QED
    BY DEF TokensLexical, Range
<1> QED
  BY <1>1, <1>2, StepLexical, BInvariant, PTL DEF Spec
=============================================================================
