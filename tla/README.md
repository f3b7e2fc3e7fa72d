# Verification of Shirp in TLA+

Shirp is an interpreter for a small subset of Scheme, written in C: a scanner, a recursive-descent
parser, a tree-walking evaluator over a stack of hash-table frames, a mark-and-sweep collector that
runs between the inputs of the REPL. It is sequential, and nothing is persisted. What is hard about
it is memory (pointers between objects, variables, frames, ASTs and source texts, freed by four
different owners), the evaluator's frame discipline under tail calls and errors, the loops of
the hash table, which have no bound of their own, and functions that go on after an error with what
they were given instead of a result. The modules here model those, TLC checks them on
small instances, and TLAPS proves what is proved for all of them.

## Inventory

| Component | State | Operations | Interacts with |
|---|---|---|---|
| Hash table (`environment.c:1-105`) | `buckets`, `capacity`, `used` | insert, resize, get, delete, free; `unmark_all` of the collector | frames and the mark table are its two kinds of client |
| Environment (`environment.c:107-175`) | `env`, the chain of `Frame`s; addresses of variables (`Obj **`) | push, pop, insert, look up, copy a frame, flatten the chain for a closure | evaluator, collector |
| Collector (`gbgcollector.c`) | the worklist (`head`, `tail`, `next`, `size`), the mark table | register, mark, sweep, unmark | reads frames and objects, frees objects and saved environments |
| Evaluator (`object.c`) | `env`, `eval_error`, `side_effect`, the C stack | one function per kind of node, `call_user_procedure`, `handle_builtin` | all of the above; `load` calls back into the REPL |
| Builtins, numbers (`object.c:72-260, 338-688`) | `eval_error` | `handle_builtin`: arithmetic, comparison, `eq?`, `equal?`, lists, predicates, `load` | evaluator |
| Parser (`parser.c`) | `cur`, `prev`, `syntax_error` | one function per nonterminal, `mark_tail_calls` | its AST is kept by closures |
| Scanner (`scan.c`) | `lexical_error`, a static count of open brackets | `tokenize` | its tokens point into the source text and are kept by the AST |
| REPL (`main.c`) | the flags, the source text | read an input, `evaluate_string`, `load_file`, `shirp_init` | frees text, tokens and AST, unless a definition or assignment was evaluated |
| Utilities (`utils.c`) | none | printing, checked allocation, `free_*` | |

Behaviours that are hard to test, by component, with what makes the component correct:

* **Hash table.** Every probing loop needs a `NULL` bucket; tombstones are never looked at when the
  load is counted and are never taken off it; keys wrap around and move when the capacity doubles.
  *Correct:* a finite map, one entry per key, loops that end.
* **Collector.** Sharing through captured variables, cyclic environments, list surgery while the
  list is walked. *Correct:* reachable objects stay, unreachable ones go, the worklist lists exactly
  the objects there are, every collection ends.
* **Evaluator.** A tail call reuses a frame that callers further out still name; arguments are
  evaluated while the callee's frame exists already; errors are a global flag every function has
  to look at; `load` re-enters the evaluator and resets that flag. *Correct:* whoever gets a result
  back finds its own environment with its own bindings; frames are those of the pending calls; an
  error is not lost.
* **REPL.** Bindings point into texts that `evaluate_string` frees. *Correct:* what a binding or a
  closure points into is still there; a text nothing points into is freed.
* **Parser and tail calls.** AST nodes shared between a test and its copy; contexts the traversal
  does not visit. The parser looks at `syntax_error` at
  some places and goes on at others, and may run off the end of an input that ends inside brackets. *Correct:* what is accepted is the grammar, the AST is what its users take for
  granted, exactly the calls in tail contexts are marked, every node is freed once.
* **Scanner and reader.** Two scanners for one syntax, one of them with a static counter. *Correct:* they agree
  on when an input is complete; tokens are what was written; every scan ends.
* **Builtins.** Operands that failed or are `NULL`, results without a representation. *Correct:* the answer is the
  mathematical one, as far as the types go, or an error was reported.

The list `hazards` in `PROJECT.json` has them line by line.

## Modules

| Module | Models | State and actions |
|---|---|---|
| `KeyValueMap` | what a table promises | a function from keys to values; put, remove, clear |
| `HashTable` | `environment.c:1-105`, `unmark_all` | the fields of `struct HashTable`, the locals of `hashtable_resize`. `hashtable_insert` is one call of several steps: `Insert` up to its first loop, `RehashSlot` and `SwapBuckets` for `hashtable_resize`, `Store` for the final probe. `Delete`, `UnmarkAll` and lookups are single steps |
| `Collector` | `gbgcollector.c` and the operations that build the heap | objects, variable addresses (`cell`), frames, the worklist, the mark table, the calls of `mark_object` and `mark_frame` in progress. Evaluator steps (`NewAtom` ... `Return`) alternate with `GC_collect` and its steps |
| `Evaluator` | `object.c` over `environment.c:107-175`, the nesting of `evaluate_string` | `env`, `outer`, the tables and the set of live frames, `eval_error`, and `ctl`, the C stack: each record is a caller that waits for a result, or a node to be evaluated |
| `Repl` | `evaluate_string`, `load_file`, `main`, and what evaluation stores or flags | the activations of `evaluate_string` (`running`, innermost first), the four flags, the pieces of texts that are malloc'ed, and of the toplevel frame which text a name and a body lie in. `Input` and `Load` begin an activation, `TokenizeFails` ... `Finish` are its steps, `DefineLambda` ... `Raise` what evaluation does to flags and bindings |
| `Reader` | `shirp_readline`, `read_file`, the loop of `main`, `scan.c` | the buffer and its room, the flags and the count of `shirp_readline`, the position, tokens and static count of `tokenize`. `ReadChar`, `ReadNewline`, `Eof`, `ReadFile` are characters read, `ScanStep` is a round of `tokenize`'s loop, one action per kind of round |
| `Parser` | `parser.c:1-449` | no state: the functions of the recursive descent as operators on a record that holds the input, `cur`, `syntax_error` and whether `NULL` was read |
| `TailCalls` | `mark_tail_calls`, `free_ast` | no state: which nodes are marked, which are freed in which order; for comparison, the context of every call |
| `Grammar` | the EBNF of the repository's `README.md` | no state: whether a sequence of tokens is a program |
| `Frontend` | `evaluate_string` from the tokens to the AST and its end | `Scan` (any token), `Parse`, `Mark`, `Free` on an input; composes `Parser`, `TailCalls` and `Grammar` |
| `Builtins` | `handle_builtin` and the operators on objects | one call: `OperandFails`, `WrongType` or the step of its branch (`Calculate` ... `Load`) for each operand, `WrongArgc`, `Unknown`, `Finish` |
| `MCHashTable`, `MCCollector`, `MCEvaluator`, `MCRepl`, `MCReader`, `MCFrontend`, `MCBuiltins` | | constants and symmetry for TLC |
| `HashTableProofs`, `HashTableMapProofs` | | the theorems about `HashTable`: its load, and that it implements `KeyValueMap` |
| `CollectorProofs`, `EvaluatorProofs`, `ReplProofs`, `ReaderProofs`, `BuiltinsProofs` | | the theorems about the module of that name |
| `CommonLemmas` | | least and greatest numbers of a set, sequences, recursion and fixed points, used by the proofs |

The modules meet at frames: `HashTable` shows that a table is a map, so `Collector` and `Evaluator`
model a table as a function from variables to addresses. `Collector` takes over what `Evaluator`
establishes of calls (a frame per pending call, the saved environment and then the arguments copied
into it, the current frame reused by tail calls) and leaves out errors and the order of
subexpressions; `Evaluator` leaves out objects and keeps which address a variable has. `Repl` and
`Evaluator` share `load` and the flag `eval_error`: `Evaluator` follows the frames through a nested load,
`Repl` follows the memory that the frames' keys and the closures' bodies point into.

An input goes through `Reader` (characters to tokens), `Frontend` (tokens to a marked AST), `Evaluator` and
`Builtins`. `Frontend` takes any tokens, whether their brackets match or not: `Reader`'s `CompleteForParser` says when a typed
line has brackets that match, but a file, or a line after a file that was left open, need not have them. `Evaluator` takes ASTs of
the shape that `Frontend`'s `TypeOK` states, and its `tail` and `sub` are what `mark_tail_calls` sets, which `TailSound` is about;
`Builtins` is what `Evaluator`'s `HandleBuiltin` leaves open. `Parser`, `TailCalls` and `Grammar` have recursive operators; no
module with theorems uses them. `Builtins` recurses over objects with recursive functions instead.

Abstractions worth knowing:

* A hash is any function from keys to numbers; keys are what `memcmp` tells apart.
* The program is not fixed. `Evaluator` finds any kind of node at every `eval_ast`, and
  any subexpression may fail, so a property holds for every program within the bounds. What
  `mark_tail_calls` decided comes with the node (`tail`, `sub`): a call is a tail call as the
  last expression of a body, through `if`, `cond` and sequences, and as the last operand `(and ..)` or `(or ..)` of a call that
  is one (`Operand`; `parser.c:485-487`). Whether a closure was visited by
  `mark_tail_calls` is open (`EvalBody`), as it is not inside `set!` and the tests of `cond`.
* `and` and `or` are builtins that a program may define anew. Then their call as a marked last operand reuses the frame in which the
  outer call is still being prepared. That call is `Spent`: it has the values of its other operands and evaluates nothing of the body
  any more, so that `LocalsIntact` exempts it, and nobody else.
* `handle_builtin` (`HandleBuiltin`) is a sequence of operand evaluations, the flag looked at after each one (after
  both, for `cons`), and an error of its own; the values are not modelled. `remainder` looks at its second
  operand before the flag and reads through `NULL` when that operand failed: this crash is in `Builtins` and left out here.
* In `Collector` an input is any sequence of operations, `temps` is what it has in hand; objects are freed
  only by `GC_sweep`. Cells of variables are never freed by the program; the model forgets
  the content of those that no frame refers to and uses them again. `builtin` objects are those of
  `shirp_init`, bound for ever unless redefined, and are left out; `Static` stands for `#t`, `#f`, `()` and undefined.
* In `Repl` a text is an identity with three pieces. Bindings in frames of calls (`Local`) raise `side_effect`
  and are not followed further: what outlives an input hangs on the toplevel frame. The value of a
  definition is any closure within reach: one already bound, or one of an input that is
  not over. AST nodes lost at a syntax error (`program` returns `NULL`, nothing to free) are not
  counted; the branch for tokens left over (`main.c:123-126`) cannot be reached, `program` reads all of them.
  `stored`, `spoiled` and `answer` are history variables, as are `failed` and `loaded` in `Evaluator`.
* In `Reader` a character stands for its class: `1` for the digits, `+` for the signs, `a` and the letters of
  `#true`, `#false` and `if` for the letters, `.` by itself, `[` for those that are refused; other white space is a blank;
  `nl`, `dq`, `bar` and `semi` are the line break, `"`, `|` and `;`. The
  value of a number is left out. Of the keywords only `if` is spelt out, the others are compared in the same way.
  A string is the span of its characters, so that tokens can be compared with the text they point into.
* In `Frontend` an input is any sequence of tokens; one is lengthened only if the parser read it to its end, since nothing behind
  the place where the parser stops makes a difference to it (`ReadToTheEnd`). Strings, and identifiers between bars, may be spelt like
  the words the parser tells by their text: `(`, `)`, `define`, `quote`, `else`.
* In `Parser` a token has a kind and a text, since some tests look at one and some at the other (`parser.c:162`).
  A list of nodes is a sequence, so `next` is not a field; `crashed` stands for a `NULL` pointer that was read,
  after which nothing is known. Nodes made are counted (`nodes`), those an error loses included; only accepted inputs are freed
  in `Frontend`, since `program` returns `NULL` for the others.
* `Grammar` pairs the brackets (an input with unpaired ones is no program) and then matches every list against the productions. Where the EBNF is ambiguous a list is
  what its first word says: `define` makes a definition wherever one may stand, `quote` a quotation.
* In `Builtins` an integer lies between `MinInt` and `MaxInt` and wraps (the build has no trap for overflow, and signed overflow
  as two's complement is what the compilers in use give); a floating number is an exact quotient, with den 0 for the infinite ones and NaN,
  so rounding and signed zeros are left out. An object has an identity if the code can tell two equal ones apart; the
  operands are any objects, `NULL` among them, since `car` of the empty list is one. The objects of a call are a set in which no pair
  is a part of itself (`BuiltinsAssumption`): the parts of a pair are there before it, and the language has no `set-car!`, so `is_list` and
  `equal_obj` end.
* The marks of objects and frames are two sets; that the mark table holds a set is `HashTable`'s business.

## Runs

| Run | Instance | Shows |
|---|---|---|
| `hashtable` | 4 keys, 2 values, capacity 4 doubled up to 16 | type correctness, `NullSlotLeft`, `LoadInv`, `KeysUnique`, refinement of `KeyValueMap`, `InsertTerminates` |
| `collector` | 3 objects, 2 of them pairs, 2 cells, 2 variables, a call | type correctness, `WorklistExact`, `NoDangling`, `GarbageFreed`, `CollectionAdvances` |
| `collector_closure_in_pair` | 3 objects, 2 cells, a pair that may hold a closure | `NoDangling` is violated |
| `collector_null` | 2 objects, variables bound to `NULL` | `CollectionFinishes` is violated |
| `evaluator` | 4 frames, 2 cells, a C stack of 5, a closure at a time | type correctness, `EnvRestored`, `LocalsIntact`, `ChainMatchesCalls`, `FramesOwned`, `SetHitsVariable`, `ErrorSticks` |
| `evaluator_shared_test` | as `evaluator`, with `cond` clauses that are only a test | `LocalsIntact` is violated |
| `repl` | 3 texts, a variable and a redefinable builtin, loads three deep, two definitions pending | type correctness with the pieces each phase needs, `StoredTextsKept`, `NothingLeaks`, `LoadTells` |
| `repl_text_freed` | the same | `BoundTextsKept` is violated |
| `frontend` | all inputs of up to 6 tokens (brackets closed or not, quotation mark, period, keywords, an identifier), and longer samples, with strings | the shape of the AST, `AcceptsGrammar`, `CrashExplained`, `NodesFreedOnce`, `TailSound`, `TailComplete` |
| `reader` | a buffer of 2, lines of 6 and files of 3 characters out of four alphabets, any number of inputs with up to 3 brackets open | type correctness, `BufferBounded`, `ReaderAgrees`, `CompleteForParser`, `NothingSkipped`, `LexicalElements`, `ScanEnds` |
| `builtins` | integers of 4 bits, up to 3 operands out of 29 objects | type correctness, `ArithmeticRight`, `TruthRight`, `FailuresExplained` |
| `builtins_float_equality` | the same, with up to 2 operands | `FloatsCompared` is violated |

Why the bounds are enough. *Table:* three of the four keys have the last bucket of a table of 4 as their
home, so that probes wrap and collide, and part in a table of 8; the fourth lies where they wrap to. Two
doublings happen when `unmark_all` leaves tombstones counted. *Collector:* with three objects
the worklist has a first, a middle and a last node to unlink; a closure can capture a variable that
holds a closure that captures another, or itself; lists of two pairs are built, with what is in hand; cells are shared between a frame and a closure, and both
collections of the same object and reuse of its address happen. *Evaluator:* a C stack of 5 holds a
call in an argument of a call in a body, a tail call below it, and an error or a `load` at the
innermost point; four frames are the toplevel's, two calls' and an argument frame (a call that finds
no free frame is not taken, the others go on). *Repl:* three texts are an input, a file it loads and a
file that one loads, or an old text kept by its bindings below an input with a load; two pending definitions are
a `set!` in the value of a definition, with the load inside. *Frontend:* six tokens are a form with its
brackets and three parts, or two nested ones, and every form that is cut off, left open or misspelt at any place. The samples are what six tokens cannot
hold: `let` and procedures with bodies, nested definitions, `cond` with several clauses and `else`, calls in every
tail context, and each of these forms with any single mistake in it: a token
too few or too many (so a bracket left open), two exchanged, or one replaced, by a string spelt like a bracket or a keyword, too. *Reader:* lines of six characters hold a string or bars with brackets on both sides, a comment after
it and a new line; the buffer doubles twice; inputs follow one another without bound, so every count that one leaves is met by
the next. *Builtins:* a loop over operands is in its first, second and later round; the integers have both ends of their
range, their roots and zero, floating numbers lie on and between them or are infinite or NaN; pairs are equal but not the same, and hold `NULL`
and floating numbers. `MaxCast` is 1 so that a root may lie outside the cast of `sqrt`.

Bounds are guards: `MaxCapacity` (no doubling beyond it), `MaxDepth`, `MaxTemps`, `MaxPairs`
(calls in progress, objects in hand, pairs on the heap), `MaxStack` (no deeper node is begun), `MaxClosures`,
`MaxNesting` and `MaxPending` (loads, definitions in progress), `MaxTokens`,
`MaxLine`, `MaxFile`, `MaxBrackets` and `MaxOperands`. `Repl` needs a text that nothing refers to for a new input.

Fairness. `HashTable` and `Collector` have weak fairness of the steps inside a call
(`InsertStep`, `Collect`): the program is sequential, and a call that has been begun runs until it returns.
Nothing is assumed about the next input or call. `Reader` has it for `ScanStep`, for the same reason: a scan that has begun
goes on, the user may stop typing. The others need none: their properties are about single states and steps.

Symmetry is used for addresses of objects, cells and frames and for texts, which the code compares
only for equality, and only in runs without liveness.

`CHECK_DEADLOCK FALSE` is in the runs in which the program may stop for good: after `NULL` is read, at the end of file
(`Eof`) or for a file that cannot be opened (`Exit`), and in those that follow one input or one call to its end
(`frontend`, `builtins`).

## Disagreements found

The first five are runs that expect a violation, and `findings` entries with the line they contradict.

1. **A closure in a pair loses what it captured** (`gbgcollector.c:68`). `mark_object` does not follow
   the saved environment of a closure it meets in a pair. Confirmed with AddressSanitizer.
2. **The collector reads through `NULL`** (`gbgcollector.c:85`) when a variable is bound to the result of
   a failed `set!` or `load`, or of `(car '())`.
3. **A test that is a whole `cond` clause is marked as a tail context through its copy**
   (`parser.c:221`): a call inside it overwrites the variables of the procedure. Confirmed:
   `(define (f x) #f)`, `(define (g x) (cond ((if #t (f 5) 1)) (else x)))`, `(g 1)` prints 5. The children they share
   are freed twice (`(cond ((+ 1 2)))`, confirmed with AddressSanitizer).
4. **Bindings outlive the text they point into** (`main.c:132`, and `main.c:140` without any error). An input that fails, or
   that loads a file after its last definition, is freed although its definitions stay bound.
   `StoredTextsKept` shows that nothing else leads there. Confirmed with AddressSanitizer, both ways.
5. **A floating number is `=` to every number** (`object.c:233`): `(= 1.5 2.5)` and `(= -8 -1.5)` are `#t`.

The others are exceptions that a passing property names, so that it fails if there is one more, or less in some cases:

* `FramesOwned`: frames are not released when an argument fails (`object.c:309`).
* `TailSound`, `TailComplete`: `mark_tail_calls` compares the last operand's word, not the operator's, with `and` and `or`
  (`parser.c:486`), so calls in their last operand are no tail calls, and calls in `set!` and in tests of `cond` are
  not visited.
* `CrashExplained`: after a syntax error the parser reads through `NULL` in `(if)`, `(cond ())`, `(let () () (foo))`,
  `(define (1) 2)`, `'(a 'b c)`. Without one it does so only at the end of an input: in `datum` behind a
  quotation mark, where the message "unterminated quote" (`parser.c:435`) is never reached, and inside brackets
  (`parser.c:122`, 149, 179, 210). `tokenize` reports no error for open brackets (`scan.c:215-217`), and a file, as well as a line after
  a file that was left open, goes straight to `program`: a script that holds only `(` ends in a segmentation fault.
* `AcceptsGrammar`: a lambda with a dotted last parameter is refused (`parser.c:201`), which the grammar of the repository's
  `README.md:150` derives (`README.md:172-173` says only that it cannot be evaluated correctly). Nothing is said of strings and barred identifiers
  that are spelt like `(`, `)`, `define`, `quote` or `else`, which the parser tells by their text alone (`parser.c:127, 150, 162, 210, 406`):
  `("quote" x)` is a quotation, `(list ")")` is refused, and so is `|(| |define|`.
* `ReaderAgrees`, `CompleteForParser`: the reader takes `;` in a string, `"` between bars and the like for what they
  are elsewhere and starts afresh on every line (`main.c:47-52`), and the scanner's static count survives an input that was
  abandoned (`scan.c:117`): after a file with an open bracket, a lone `)` is let through.
* `LexicalElements`: `#`, `#tr` and `#fa` are booleans (`scan.c:100-103`).
* `TruthRight` says of floating numbers only what holds whether or not the fifth above is repaired: those with one value are equal, and `=` to an
  integer of that value; `=` fails behind a NaN.
* `FailuresExplained`: integers divided by zero, and the least one by -1, stop the process; an error in the second operand of
  `remainder` reads through `NULL` (`object.c:538`); `(car '())` answers `NULL` without an error (`object.c:592`);
  `car` goes by the word that was written, so that `(define first car)` makes an unknown builtin (`object.c:586`).
* `LoadTells`: `load` may say true of a file that reported an error: an undefined variable in `set!` raises only `syntax_error`,
  and a later load inside the file clears it.
* `KeysUnique`: `hashtable_insert` stores at the first tombstone although the key may have an entry further on
  (`environment.c:54`). Frames never delete and the collector inserts only what is missing, so the property holds for
  both; with `hashtable_delete`, which has no caller, it would not, and deleting a missing key writes at index -1.

`Parser`, `Reader` and `Builtins` were also compared with the compiled C functions: on 32,830 token sequences, 10,432 texts and 60,000
calls (those that overflow at the small width and those with infinite operands left out), with the same outcomes.

## Proofs

Every theorem holds for all values of the constants that the named assumptions of its module allow: the number of
objects, variables, frames, keys and texts, the depth of calls and loads, the length of a text are arbitrary. The
bounds of the models occur in guards only; the proofs use of them at most that they are numbers (and `TypeOK` of `Reader` names
`MaxBrackets`).

| Module | Theorem | Shows |
|---|---|---|
| `HashTableProofs` | `NullSlot`, `ApiNullSlotLeft` | `[]NullSlotLeft`, for the calls of frames and of the collector, and for any order of calls |
| | `Load`, `ApiLoad` | `[](TypeOK /\ LoadInv)`, likewise |
| `HashTableMapProofs` | `TypeCorrect`, `UniqueKeys`, `TableIsMap` | `[]TypeOK`, `[]KeysUnique`, and that the table implements `KeyValueMap` |
| `CollectorProofs` | `TypeCorrect`, `Worklist` | `[]TypeOK`, `[]WorklistExact` |
| | `NothingDangles`, `AllGarbageFreed` | `[]NoDangling`, `GarbageFreed`, when no closure is put into a pair |
| `EvaluatorProofs` | `TypeCorrect`, `EnvironmentRestored`, `TailCallsTakeNoFrame`, `FramesReleased`, `ErrorsStick` | `[]TypeOK`, `[]EnvRestored`, `[]ChainMatchesCalls`, `[]FramesOwned`, `ErrorSticks` |
| | `LocalsKept`, `SetFindsVariable` | `[]LocalsIntact`, `[]SetHitsVariable`, when no `cond` clause is only a test |
| `ReplProofs` | `TypeCorrect`, `TextsKept`, `NothingLeaked`, `LoadTellsRight` | `[]TypeOK`, `[]StoredTextsKept`, `[]NothingLeaks`, `[]LoadTells` |
| `ReaderProofs` | `TypeCorrect`, `WritesInBounds`, `NothingLost`, `CountsAgree`, `ParserGetsWhole`, `WordsRead` | `[]TypeOK`, `[]BufferBounded`, `[]NothingSkipped`, `[]ReaderAgrees`, `[]CompleteForParser`, `[]LexicalElements` |
| `BuiltinsProofs` | `TypeCorrect`, `ArithmeticIsRight`, `TruthIsRight`, `FailuresAreExplained` | `[]TypeOK`, `[]ArithmeticRight`, `[]TruthRight`, `[]FailuresExplained` |

The hypotheses of four theorems are the two defects the runs `collector_closure_in_pair` and `evaluator_shared_test`
show: with `ClosuresInPairs` and `SharedTests` the properties are false, without them they are proved. For the collector nothing else leads there.
For the evaluator there is a second way to a caller whose frame was overwritten, the marked last operand where `and` or `or` is
defined anew; `LocalsIntact` exempts that caller (`Spent`), because no expression of the old body is evaluated after it.

### The table: its load

`HashAssumption` (a hash is a natural number), `SentinelAssumption` (distinct sentinels) and `CapacityAssumption` (an
initial capacity of at least 4; the program uses 48 and 32, and with fewer than four buckets the watermark would
let a table fill up) are assumed. The inductive invariant is `IInv == TypeOK /\ LoadInv`. `NullSlotLeft` is not inductive by itself: that one
bucket is `NULL` now says nothing about the next insertion. `LoadInv` says why there is always another:
`used` bounds the number of occupied buckets (from above only, as tombstones and overwritten tombstones are
counted, too), it is below the capacity, and below 70% of it whenever an insertion has
passed the watermark (`DivBound`: the code's integer division does not round that bound away). During a
resize the entries already moved are at most the live ones already passed (`LiveBeforeCount`), so the
new array is at most half full. There is one lemma per action; `FillBucket` and `OccupiedFinite` carry
the counting.

### The table: it is a map

The invariant `MapInv` is that of linear probing: no bucket is `NULL` between the home of a key and its entry, and no key
has two entries. Probing goes around modulo the capacity, so the order of probing is
made a distance from the home bucket (`ModFacts` and the lemmas behind it). Storing at the first tombstone keeps this only because no caller
both has tombstones and inserts a key that is there: frames leave none, the collector looks a key up before it inserts it.
While a resize is going on the new array is placed well by itself, and together with what is still to be moved holds the same pairs
(so the map that a client sees is unchanged until `Store`). Each step then maps to a step of `KeyValueMap` or to
a stutter.

### The collector

`BaseInv` has the types, those of the calls of `mark_object` and `mark_frame` in progress among them, the worklist as an explicit sequence `w` of the allocated objects (`IsList`: `head`, `tail`, `next` and
`size` describe it) and how far `GC_sweep` has come in it (`SweptUpTo`); unlinking a node removes it from `w`.
`WorklistExact` counts by following `next`, and follows. `NoDangling` needs the marks: an object is seen when it is marked or
when a call of `mark_object` waits for it, a frame likewise, and what a marked object or a visited frame refers to has
been seen. When no call waits the marked set is closed under reference and holds what the program can reach, so the
sweep frees nothing reachable. A closure in a pair is marked without its saved frame: that is where this fails with `ClosuresInPairs`.
`GarbageFreed` is the converse, that only what was reachable is ever marked.

### The evaluator

The argument goes along the C stack. Each caller agrees with the one under it about which frame is current, except that a call
that is not a tail call has made a frame whose `outer` is the caller's (`Linked`); frames needed by the
stack are live and distinct (`Owned`). `EnvRestored` is not inductive: that the caller on top will find its environment depends on every record
below, and on what a tail call has done to a frame several callers share. `LocalsIntact` rests on `Tails`: under a record that is or may become a
tail call there is only a caller that evaluates nothing more in its frame (`Passive`): a body that is through, or a call at its marked
last operand (`Spent`). `ChainMatchesCalls` states the chain of frames by what `outer` leads to after
any number of steps, for which the chain must be known to end (`NoDescent`, on infinite descent, in `CommonLemmas`).

### The REPL

The four flags are global, and every nested load resets them. `RInv` therefore says of the innermost input what the flags tell of it since its
last load, and of those under a load only that they are in the middle of an evaluation and remember that (`Callers`). Each input owns exactly the pieces its
phase has made (`OwnPieces`), so that what an input frees at its end is its own; the flag `side_effect` covers what it has stored
(`TopInv`). `RInv` was also model-checked.

### The reader and the scanner

`BInv` has the types, the room in the buffer, the order of tokens and the brackets still to come; `Accounted` explains every place behind `c`.
For `ReaderAgrees`, two programs that read the same text at different times and in different strides are compared: `Trace(h)`
says that there is a sequence `h` of the states the reader went through, one for each character, and `Abreast(h)` that the scanner, wherever it stops, is
at a place where the reader was outside strings, bars and comments and had the same count. A token that
is not tricky is crossed by the reader in one piece (`Still`, `EnclosedAbreast`). `Matched` ties the scanner's count to the brackets among the
tokens, at each of them, and counts from what the static count was when the input began, whatever earlier inputs left there. The reader lets
an input end only at a count of zero or less, so the scanner's is not raised by a line; where it was zero it is zero again, for
it is never negative, and the brackets match (`CompleteForParser`). The prelude and any file or line whose brackets match leave it at zero. `LexicalElements` needs `Boundary`: wherever
the scanner stops it is not in the middle of a word or behind a `#` that belongs to one, so the byte before a word, which `read_token` looks at
when a period comes first, is never a digit (`FloatingWord`).

### The built-in procedures

Assumed is `BuiltinsAssumption`: at least the integers -2 to 1, operands that are objects, pairs whose parts are objects and among any set
of which there is one that contains none of the others. The number of operands, the width of integers and the objects are arbitrary.

`Inv` says for each kind of builtin what its loop knows after any number of operands (`Looping`, `Loop`), and for a call that has answered that the answer
is what the loop knew when it stopped (`Finished`). None of the four properties is inductive: they speak of the end of a
call only, and relate `value` to all of `ops`, while a round of the loop sees `op1`, `result` and one operand. `Loop` is

* for `+ - *` (`Calculated`): `result` is the sum or product of the operands so far, over the product of their denominators. `Sum` and
  `Product` are recursive functions (`SumNext`, `ProductNext`); a next operand multiplies every summand (`CalculationSteps`), integers agree modulo
  the width (`WrapUnique`), and fractions are compared by cross-multiplication (`CrossMultiplied`);
* for divisions (`Divided`): with both operands, the quotient cut off towards zero and its remainder (`QuotFacts`, `IntegerDivision`);
* for comparisons and equalities (`Chaining`): `op1` is the last operand, and `result` tells whether every two neighbours are in order. That this
  says something of operands far apart is `NeighboursSuffice`, by the transitivity of the order of quotients and infinities
  (`NotLessTransitive`);
* for `and` and `or` (`Joining`), which operands cannot have been decisive, and for the unary ones (`Asking`), that the answer is that of the one operand.

`equal_obj`, `EqualCrashes`, `is_list`, `HasNull`, `HasFloat` and `Structure` recurse over pairs. That such a definition has the value its equation gives is not
for free in TLA+: `FixedPoint` (in `CommonLemmas`, the least fixed point of a monotone function on sets) gives a function with that
equation, and what it says of all pairs follows from `OverPairs`, the assumption on pairs in the form of an induction over a set. So `equal?` is
equality of structure (`EqualIsSameStructure`), and a crash in it needs a `NULL` in one of the operands (`CrashesNeedNull`). `Inv` was also
model-checked.

### Model-checked only

* Liveness (`InsertTerminates`, `ScanEnds`): TLAPS has no proofs of it here.
* `CollectionAdvances`: that each step of a collection leaves less to do, in a lexicographic order of natural numbers. As no state is a deadlock, every
  collection ends. It is stated of steps because `collector` uses symmetry, under which liveness is not checked; `CollectionFinishes`
  says the same as liveness, and is what `collector_null` violates.
* `Frontend` (`TypeOK`, `AcceptsGrammar`, `CrashExplained`, `NodesFreedOnce`, `TailSound`, `TailComplete`). `Parser`, `TailCalls`, `Grammar` and
  `Frontend` recurse over tokens and trees with recursive operators. The objects of `Builtins` are a constant set, over which functions can be
  defined and sets of objects compared; the trees are what the parser makes, of any depth, and induction over them is beyond
  the prover (the induction theorems take an operator as a parameter).

## Not modelled

* How messages are laid out (`verror_at`), printing and dumping: pure output. That `verror_at` reads the byte before a text and
  loops nearly for ever for a token of length 0 (`utils.c:38, 50`) is known from reading; that such tokens exist is in `Reader`.
* Values of literals (`eval_immediate`, `eval_quote`), rounding of floating numbers. A literal such as `#x` gives `NULL` and raises only
  `syntax_error` (`object.c:801`), as an unknown builtin does; `NULL` as the test of an `if` is read through (`object.c:704`).
* Running out of memory (the program exits), `push_frame`, `hashtable_delete_ptr` and `GC_dump`, which nothing calls.
* `prelude.scm`, a program like any other, and the tests, which were read for the behaviour they expect.

## Plan

Every invariant and action property that a passing run checks is proved, but those of `Frontend` and `CollectionAdvances`. What is left:

* `CollectionAdvances`, for finitely many addresses and variables: the counts of `Remaining` are cardinalities of sets that a step shrinks.
* `Frontend`. The step that could be proved is `Mark` alone: for a constant set of trees that is closed under children and without cycles, as the
  objects of `Builtins` are, `mark_tail_calls` and `Calls` would be recursive functions and `TailSound` and `TailComplete` statements
  about them. That the parser makes such trees would stay with TLC.
* The liveness properties, when TLAPS can prove them.
