------------------------------- MODULE Reader -------------------------------
(***************************************************************************)
(* How an input becomes tokens.  A line of the REPL is read character by   *)
(* character by shirp_readline (main.c), which counts brackets to know     *)
(* whether to ask for another line; a file is taken as it is.  Then        *)
(* tokenize (scan.c) goes through the text, with rules of its own for      *)
(* comments, strings and vertical bars and a count of open brackets of its *)
(* own, which is static: it goes on from one input to the next.            *)
(*                                                                         *)
(* A character stands for its class, "1" for all digits and "a" for the    *)
(* letters of no special use, "[" for what no token begins with; "nl",     *)
(* "dq", "bar" and "semi" are the line break, the double quote, the        *)
(* vertical bar and the semicolon.  What is done with the tokens is in     *)
(* Frontend.                                                               *)
(***************************************************************************)
EXTENDS Integers, FiniteSets, SequencesExt

CONSTANTS
  Alphabets,              \* what the user types at a time: sets of characters
  READLINE_BUFSIZE,
  MaxLine, MaxFile, MaxBrackets   \* model bounds

Digits == {"1"}
Signs == {"+"}
Letters == {"a", "t", "r", "u", "e", "f", "l", "s", "i"}
Special == Signs \cup {"."}
Blanks == {" ", "nl"}
Character == Digits \cup Letters \cup Special \cup Blanks
             \cup {"(", ")", "dq", "bar", "semi", "#", "'", "["}

ASSUME ReaderAssumption ==
  /\ Alphabets \subseteq SUBSET Character
  /\ READLINE_BUFSIZE \in Nat /\ READLINE_BUFSIZE >= 2
  /\ MaxLine \in Nat /\ MaxFile \in Nat /\ MaxBrackets \in Nat

VARIABLES
  alphabet,
  phase, source,          \* what is going on; a "line" or a "file"
  buffer, bufsize, top,   \* the text, its room, the last byte written (from 0)
  open,                   \* main's brackets_left
  commenting, in_string, in_vbars,
  c, tokens, lexical_error,
  brackets_left,          \* tokenize's
  left_before             \* history: brackets_left when the scan began

reading == <<buffer, bufsize, top, open, commenting, in_string, in_vbars>>
scanning == <<c, tokens, lexical_error, brackets_left>>
vars == <<alphabet, phase, source, reading, scanning, left_before>>

-----------------------------------------------------------------------------
(* Reading *)

Init ==
  /\ alphabet \in Alphabets
  /\ phase = "read" /\ source \in {"line", "file"}
  /\ buffer = <<>> /\ bufsize = READLINE_BUFSIZE /\ top = -1 /\ open = 0
  /\ commenting = FALSE /\ in_string = FALSE /\ in_vbars = FALSE
  /\ c = 1 /\ tokens = <<>> /\ lexical_error = FALSE
  /\ brackets_left = 0 /\ left_before = 0

Room_ForOne == IF Len(buffer) >= bufsize THEN 2 * bufsize ELSE bufsize   \* mutant
Room == IF Len(buffer) >= bufsize - 1 THEN 2 * bufsize ELSE bufsize

Begin ==   \* evaluate_string
  /\ phase' = "scan" /\ left_before' = brackets_left
  /\ UNCHANGED <<alphabet, source, scanning>>

Quiet_NoBars == ~commenting /\ ~in_string   \* mutant
Quiet == ~commenting /\ ~in_string /\ ~in_vbars

\* A new line: main asks for another one, for which the three flags are fresh.
ReadNewline ==
  /\ phase = "read" /\ source = "line" /\ "nl" \in alphabet
  /\ buffer' = Append(buffer, "nl") /\ bufsize' = Room /\ top' = Len(buffer')
  /\ commenting' = FALSE /\ in_string' = FALSE /\ in_vbars' = FALSE
  /\ UNCHANGED open
  /\ IF open > 0
     THEN Len(buffer') < MaxLine
          /\ UNCHANGED <<alphabet, phase, source, scanning, left_before>>
     ELSE Begin

Fits(ch, max) ==
  /\ Len(buffer) < max
  /\ ch = "(" => Cardinality({i \in DOMAIN buffer : buffer[i] = "("}) + brackets_left
                   < MaxBrackets

ReadChar(ch) ==
  /\ phase = "read" /\ source = "line" /\ ch # "nl" /\ Fits(ch, MaxLine)
  /\ buffer' = Append(buffer, ch) /\ bufsize' = Room /\ top' = Len(buffer)
  /\ open' = IF Quiet /\ ch = "(" THEN open + 1
             ELSE IF Quiet /\ ch = ")" THEN open - 1 ELSE open
  /\ commenting' = (commenting \/ ch = "semi")
  /\ in_string' = (in_string # (ch = "dq"))
  /\ in_vbars' = (in_vbars # (ch = "bar"))
  /\ UNCHANGED <<alphabet, phase, source, scanning, left_before>>

Eof ==
  /\ phase = "read" /\ source = "line"
  /\ phase' = "exited"
  /\ UNCHANGED <<alphabet, source, reading, scanning, left_before>>

\* read_file
ReadFile(ch) ==
  /\ phase = "read" /\ source = "file" /\ Fits(ch, MaxFile)
  /\ buffer' = Append(buffer, ch)
  /\ UNCHANGED <<bufsize, top, open, commenting, in_string, in_vbars>>
  /\ UNCHANGED <<alphabet, phase, source, scanning, left_before>>
EndOfFile ==
  /\ phase = "read" /\ source = "file"
  /\ UNCHANGED reading
  /\ Begin

-----------------------------------------------------------------------------
(* Scanning *)

At(n) == IF n \in DOMAIN buffer THEN buffer[n] ELSE "NUL"
isdigit(n) == At(n) \in Digits
is_sign(n) == At(n) \in Signs
is_ident_valid(n) == At(n) \in Digits \cup Letters \cup Special

\* The first place from n on where one of chars is, or the text ends.
Find(n, chars) ==
  CHOOSE e \in n .. Len(buffer) + 1 : /\ e = Len(buffer) + 1 \/ At(e) \in chars
                                      /\ \A i \in n .. e - 1 : At(i) \notin chars
WordEnd(n) == CHOOSE e \in n .. Len(buffer) + 1 : /\ ~is_ident_valid(e)
                                                  /\ \A i \in n .. e - 1 : is_ident_valid(i)
Spelling(from, to) == SubSeq(buffer, from, to)

\* read_token: 0 for an identifier, 1 for an integer, 2 for a floating number.
\* It is a number as long as there are digits, with one period beside a digit.
\* The byte before the text is never a digit.
OddPlaces(n) ==
  LET from == IF is_sign(n) /\ (isdigit(n + 1) \/ At(n + 1) = ".") THEN n + 1 ELSE n
  IN  {i \in from .. WordEnd(n) - 1 : ~isdigit(i)}
IsPoint(i) == At(i) = "." /\ (isdigit(i + 1) \/ isdigit(i - 1))

read_token_SecondPoint(n) ==   \* mutant: another period is let pass
  IF OddPlaces(n) = {} THEN 1
  ELSE IF \A i \in OddPlaces(n) : IsPoint(i) THEN 2 ELSE 0
read_token(n) ==
  IF OddPlaces(n) = {} THEN 1
  ELSE IF \E i \in OddPlaces(n) : OddPlaces(n) = {i} /\ IsPoint(i) THEN 2 ELSE 0

keywords == {<<"i", "f">>}   \* the others are longer than MaxLine allows

\* handle_sharp: as many characters as there are are compared.
SharpKind(word) == IF IsPrefix(word, <<"t", "r", "u", "e">>) THEN "true"
                   ELSE IF IsPrefix(word, <<"f", "a", "l", "s", "e">>) THEN "false"
                   ELSE "undefined"

\* Where an iteration starts to look: behind one blank, if there is one.
Here_Stays == c   \* mutant: blanks are not skipped
Here == IF At(c) \in Blanks THEN c + 1 ELSE c

\* The text of the token is from from to to, the scan goes on at next.
new_token(kind, from, to, next) ==
  /\ tokens' = Append(tokens, [kind |-> kind, from |-> from, to |-> to])
  /\ c' = next
  /\ UNCHANGED lexical_error
error_at ==
  /\ lexical_error' = TRUE /\ phase' = "scanned"
  /\ UNCHANGED <<c, tokens, brackets_left>>

Iterating(chars) == phase = "scan" /\ At(c) # "NUL" /\ At(Here) \in chars
Others == UNCHANGED <<alphabet, source, reading, left_before>>
Go == UNCHANGED <<phase, brackets_left>> /\ Others

\* A second blank, or the end of the text: is_delimiter, and continue.
Skip == Iterating(Blanks \cup {"NUL"}) /\ c' = Here /\ UNCHANGED <<tokens, lexical_error>> /\ Go

Comment == /\ Iterating({"semi"})
           /\ c' = Find(Here, {"nl"})
           /\ UNCHANGED <<tokens, lexical_error>> /\ Go

Sharp_SkipsNext ==   \* mutant
  /\ Iterating({"#"})
  /\ LET end == WordEnd(Here + 1) IN
     new_token(SharpKind(Spelling(Here + 1, end - 1)), Here + 1, end - 1, end + 1)
  /\ Go
Sharp == /\ Iterating({"#"})
         /\ LET end == WordEnd(Here + 1) IN
            new_token(SharpKind(Spelling(Here + 1, end - 1)), Here + 1, end - 1, end)
         /\ Go

Quote == Iterating({"'"}) /\ new_token("quote", Here, Here, Here + 1) /\ Go

OpenBracket ==
  /\ Iterating({"("})
  /\ brackets_left' = brackets_left + 1
  /\ new_token("(", Here, Here, Here + 1)
  /\ UNCHANGED phase /\ Others

CloseBracket_NoCheck ==   \* mutant: brackets_left is not looked at
  /\ Iterating({")"}) /\ Others
  /\ brackets_left' = IF brackets_left > 0 THEN brackets_left - 1 ELSE 0
  /\ new_token(")", Here, Here, Here + 1) /\ UNCHANGED phase
CloseBracket ==
  /\ Iterating({")"}) /\ Others
  /\ IF brackets_left <= 0 THEN error_at
     ELSE /\ brackets_left' = brackets_left - 1
          /\ new_token(")", Here, Here, Here + 1) /\ UNCHANGED phase

\* A string, or an identifier between bars.
Enclosed_NoEndCheck(mark, kind) ==   \* mutant: it may be unterminated
  /\ Iterating({mark}) /\ Others
  /\ LET end == Find(Here + 1, {mark}) IN
     new_token(kind, Here + 1, end - 1, end + 1) /\ UNCHANGED <<phase, brackets_left>>
Enclosed(mark, kind) ==
  /\ Iterating({mark}) /\ Others
  /\ LET end == Find(Here + 1, {mark}) IN
     IF At(end) = "NUL" THEN error_at
     ELSE new_token(kind, Here + 1, end - 1, end + 1) /\ UNCHANGED <<phase, brackets_left>>

Word ==
  /\ Iterating(Digits \cup Letters \cup Special)
  /\ LET end == WordEnd(Here)
         word == Spelling(Here, end - 1)
         kind == read_token(Here)
     IN  new_token(IF kind = 1 THEN "integer" ELSE IF kind = 2 THEN "floating"
                   ELSE IF word = <<".">> THEN "period"
                   ELSE IF word \in keywords THEN "keyword" ELSE "ident",
                   Here, end - 1, end)
  /\ Go

InvalidCharacter == Iterating({"["}) /\ error_at /\ Others

EndOfText ==
  /\ phase = "scan" /\ At(c) = "NUL"
  /\ phase' = "scanned"
  /\ UNCHANGED scanning /\ Others

ScanStep ==
  \/ Skip \/ Comment \/ Sharp \/ Quote \/ OpenBracket \/ CloseBracket
  \/ Enclosed("dq", "string") \/ Enclosed("bar", "barred")
  \/ Word \/ InvalidCharacter \/ EndOfText

\* A string or barred identifier with a character in it that the reader takes
\* for something else; the reader starts afresh with every line.
Tricky == \E t \in Range(tokens) :
            /\ t.kind \in {"string", "barred"}
            /\ Range(Spelling(t.from, t.to)) \cap {"semi", "dq", "bar", "nl"} # {}
Differ == source = "file" \/ lexical_error \/ Tricky

\* evaluate_string has done with the input; the next one is read.
NextInput ==
  /\ phase = "scanned"
  /\ phase' = "read" /\ source' \in {"line", "file"}
  /\ buffer' = <<>> /\ bufsize' = READLINE_BUFSIZE /\ top' = -1 /\ open' = 0
  /\ commenting' = FALSE /\ in_string' = FALSE /\ in_vbars' = FALSE
  /\ c' = 1 /\ tokens' = <<>> /\ lexical_error' = FALSE /\ left_before' = 0
  /\ UNCHANGED <<alphabet, brackets_left>>

Next ==
  \/ ReadNewline \/ (\E ch \in alphabet : ReadChar(ch) \/ ReadFile(ch)) \/ Eof \/ EndOfFile
  \/ ScanStep \/ NextInput

\* The program is sequential: a scan that has begun goes on.
Spec == Init /\ [][Next]_vars /\ WF_vars(ScanStep)

-----------------------------------------------------------------------------
TypeOK ==
  /\ phase \in {"read", "scan", "scanned", "exited"} /\ source \in {"line", "file"}
  /\ open \in Int /\ brackets_left \in 0 .. MaxBrackets
  /\ c \in 1 .. Len(buffer) + 1
  /\ \A t \in Range(tokens) : t.from \in 1 .. Len(buffer) + 1 /\ t.to \in 0 .. Len(buffer)

(* shirp_readline (main.c:24-53) writes within its buffer: there is always *)
(* room for a new line and the NUL behind it.                              *)
BufferBounded == top < bufsize

(* The two counts of brackets (main.c:41-46, scan.c:140-151) agree about a *)
(* line that is scanned without error, unless a string or a barred         *)
(* identifier in it holds a comment sign, the other delimiter or a line    *)
(* break, which the reader does not see as the scanner does.               *)
ReaderAgrees ==
  phase = "scanned" /\ ~Differ => open = brackets_left - left_before

Count(kind, n) == Cardinality({i \in 1 .. n : tokens[i].kind = kind})
BracketsMatch == /\ Count("(", Len(tokens)) = Count(")", Len(tokens))
                 /\ \A n \in DOMAIN tokens : Count(")", n) <= Count("(", n)

(* What a typed line without an error or such a token leaves to the        *)
(* parser: the reader has not let it end early (main.c:209-213), so the    *)
(* static count (scan.c:117) is no higher than the line found it; and if   *)
(* the line found it at zero, as it does after the prelude and every file  *)
(* or line whose brackets match, the parser gets brackets that match.      *)
CompleteForParser ==
  phase = "scanned" /\ ~Differ =>
    /\ brackets_left <= left_before
    /\ left_before = 0 => BracketsMatch

InToken(i) == \E t \in Range(tokens) : i \in t.from .. t.to
InComment(i) == \E s \in 1 .. i : /\ At(s) = "semi" /\ ~InToken(s)
                                  /\ \A j \in s .. i : At(j) # "nl"
BesideToken(i) ==
  \E t \in Range(tokens) :
    \/ At(i) = "#" /\ t.kind \in {"true", "false", "undefined"} /\ i = t.from - 1
    \/ At(i) = "dq" /\ t.kind = "string" /\ i \in {t.from - 1, t.to + 1}
    \/ At(i) = "bar" /\ t.kind = "barred" /\ i \in {t.from - 1, t.to + 1}

(* The tokens follow one another without overlap, and nothing but blanks,  *)
(* comments and the signs around a token is left out: what was scanned     *)
(* (scan.c:119-215) is what was written.                                   *)
NothingSkipped ==
  /\ \A i, j \in DOMAIN tokens : i < j => tokens[i].to < tokens[j].from
  /\ \A i \in 1 .. c - 1 :
       InToken(i) \/ At(i) \in Blanks \/ InComment(i) \/ BesideToken(i)

Unsigned(w) == IF w # <<>> /\ w[1] \in Signs THEN Tail(w) ELSE w
Periods(w) == Cardinality({i \in DOMAIN w : w[i] = "."})
IsInteger(w) == Unsigned(w) # <<>> /\ Range(Unsigned(w)) \subseteq Digits
IsFloating(w) == /\ Periods(w) = 1 /\ Range(Unsigned(w)) \cap Digits # {}
                 /\ Range(Unsigned(w)) \subseteq Digits \cup {"."}

(* Numbers, identifiers and booleans are those README.md defines under     *)
(* "Lexical Elements", whatever surrounds them (scan.c:48-70); but a       *)
(* boolean may be spelt by less than its name, even by nothing             *)
(* (scan.c:100-103).                                                       *)
LexicalElements ==
  \A t \in Range(tokens) :
    LET w == Spelling(t.from, t.to) IN
    /\ t.kind = "integer" <=> t.kind # "string" /\ t.kind # "barred" /\ IsInteger(w)
                              /\ At(t.from - 1) # "#"
    /\ t.kind = "floating" <=> t.kind # "string" /\ t.kind # "barred" /\ IsFloating(w)
                               /\ At(t.from - 1) # "#"
    /\ t.kind = "true" => IsPrefix(w, <<"t", "r", "u", "e">>)
    /\ t.kind = "false" => w # <<>> /\ IsPrefix(w, <<"f", "a", "l", "s", "e">>)
    /\ t.kind = "undefined" => ~IsPrefix(w, <<"t", "r", "u", "e">>)
                               /\ ~IsPrefix(w, <<"f", "a", "l", "s", "e">>)

(* Every input is scanned to its end: no round of tokenize's loop          *)
(* (scan.c:119-215) leaves c where it was for good.                        *)
ScanEnds == phase = "scan" ~> phase = "scanned"
=============================================================================
