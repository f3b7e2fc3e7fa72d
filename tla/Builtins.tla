------------------------------ MODULE Builtins ------------------------------
(***************************************************************************)
(* One call of a built-in procedure (handle_builtin, object.c): its        *)
(* operands are evaluated one by one, checked, and worked into the result. *)
(* Any operand may be in error, and may be NULL without one, as car of     *)
(* the empty list is.                                                      *)
(*                                                                         *)
(* Integers wrap at both ends of their range.  A floating number is the    *)
(* exact quotient of num and den: rounding is left out, and so is the sign *)
(* of zero.  If den is 0, it is infinite (num is 1 or -1) or NaN (0).      *)
(***************************************************************************)
EXTENDS Integers, SequencesExt

CONSTANTS
  MaxInt, MaxCast,    \* of int64_t, and of the int that sqrt casts to
  Operands,           \* the objects there are, each of which an operand may be
  MaxOperands         \* model bound

MinInt == -MaxInt - 1

Null == [typ |-> "NULL"]
bool_obj(b) == [typ |-> "boolean", val |-> b]
Integer(v) == [typ |-> "integer", num |-> v, den |-> 1]
Float(n, d) == [typ |-> "float", num |-> n, den |-> d, id |-> "new"]
\* id tells objects apart that are equal
Pair(car, cdr, id) == [typ |-> "pair", car |-> car, cdr |-> cdr, id |-> id]
nillist == Pair(Null, Null, "nil")

IsObject(o) ==
  CASE o.typ = "boolean" -> o \in {bool_obj(TRUE), bool_obj(FALSE)}
    [] o.typ = "integer" -> o.num \in MinInt .. MaxInt /\ o = Integer(o.num)
    [] o.typ = "float"   -> /\ o.num \in Int /\ o.den \in Nat
                            /\ o.den = 0 => o.num \in {-1, 0, 1}
                            /\ o = [typ |-> "float", num |-> o.num, den |-> o.den, id |-> o.id]
    [] o.typ \in {"symbol", "string"}  -> o = [typ |-> o.typ, str |-> o.str]
    [] o.typ \in {"lambda", "builtin"} -> o = [typ |-> o.typ, id |-> o.id]
    [] o.typ = "pair"    -> o = Pair(o.car, o.cdr, o.id)
    [] OTHER -> o = Null

Objects == Operands \cup {Null}
Pairs == {o \in Objects : o.typ = "pair" /\ o # nillist}

\* The parts of a pair are there before it and are never changed, so there is one
\* among any pairs that holds none of the others.
ASSUME BuiltinsAssumption ==
  /\ MaxInt \in Nat \ {0} /\ MaxCast \in 0 .. MaxInt /\ MaxOperands \in Nat
  /\ \A o \in Operands : IsObject(o)
  /\ \A o \in Pairs : {o.car, o.cdr} \subseteq Objects
  /\ \A some \in SUBSET Pairs : some # {} => \E o \in some : {o.car, o.cdr} \cap some = {}

VARIABLES
  name,         \* the builtin called
  spelt_car,    \* is the operator the word car?
  argc,
  ops,          \* the operands so far, NULL for one in error
  op1, result,  \* as in the code; result is a list of elements for list
  status,       \* "operands", "returned" or "crashed"
  value,        \* what is returned
  eval_error,
  failed        \* history: the number of the operand that was in error, or 0

vars == <<name, spelt_car, argc, ops, op1, result, status, value, eval_error, failed>>

-----------------------------------------------------------------------------
(* Numbers *)

IsNumber(o) == o.typ \in {"integer", "float"}
AreInts(a, b) == a.typ = "integer" /\ b.typ = "integer"

IsNaN(o) == o.num = 0 /\ o.den = 0

Wrap(v) == ((v - MinInt) % (2 * (MaxInt + 1))) + MinInt

Abs(v) == IF v < 0 THEN -v ELSE v
Sign(v) == IF v < 0 THEN -1 ELSE IF v = 0 THEN 0 ELSE 1
\* C's / and %: towards zero
Quot_Floor(a, b) == (Sign(b) * a) \div Abs(b)   \* mutant: downwards
Quot(a, b) == Sign(a) * Sign(b) * (Abs(a) \div Abs(b))

\* The C operators on int64_t and on double.
Ints(op, a, b) ==
  CASE op = "+" -> Wrap(a + b)
    [] op = "-" -> Wrap(a - b)
    [] op = "*" -> Wrap(a * b)
    [] op = "/" -> Quot(a, b)
    [] op = "%" -> a - b * Quot(a, b)

Over(n, d) == IF d = 0 THEN Float(Sign(n), 0) ELSE Float(Sign(d) * n, Abs(d))
Plus(a, n, d) == IF a.den = 0 /\ d = 0 THEN Float(IF a.num = n THEN n ELSE 0, 0)
                                       ELSE Over(a.num * d + n * a.den, a.den * d)
fmod(a, b) == LET n == a.num * b.den  m == b.num * a.den IN
              IF a.den = 0 \/ b.num = 0 THEN Float(0, 0)
              ELSE IF b.den = 0 THEN Float(a.num, a.den)
              ELSE Over(n - m * Quot(n, m), a.den * b.den)
Floats(op, a, b) ==
  CASE op = "+" -> Plus(a, b.num, b.den)
    [] op = "-" -> Plus(a, -b.num, b.den)
    [] op = "*" -> Over(a.num * b.num, a.den * b.den)
    [] op = "/" -> Over((IF b.num < 0 THEN -1 ELSE 1) * a.num * b.den, a.den * Abs(b.num))
    [] op = "%" -> fmod(a, b)

Obj_operation(op, a, b) == IF AreInts(a, b) THEN Integer(Ints(op, a.num, b.num))
                                            ELSE Floats(op, a, b)

\* The processor traps.
Traps(op, a, b) == /\ op \in {"/", "%"} /\ AreInts(a, b)
                   /\ b.num = 0 \/ (a.num = MinInt /\ b.num = -1)

Less(a, b) == IF a.den = 0 /\ b.den = 0 THEN a.num < b.num
                                         ELSE a.num * b.den < b.num * a.den
Obj_lt_operation(a, b) == ~IsNaN(a) /\ ~IsNaN(b) /\ Less(a, b)
Obj_le_operation(a, b) == ~IsNaN(a) /\ ~IsNaN(b) /\ ~Less(b, a)

sqrt(o) ==
  LET roots == {r \in 0 .. MaxCast : r * r = o.num} IN
  IF IsNaN(o) \/ o.num < 0 THEN Float(0, 0)
  ELSE IF o.typ = "integer" /\ roots # {} THEN Integer(CHOOSE r \in roots : TRUE)
  ELSE [typ |-> "float", root_of |-> o]

-----------------------------------------------------------------------------
(* Equality.  Comparing an object to itself is comparing addresses. *)

eq_obj(a, b) ==
  \/ a = b
  \/ IsNumber(a) /\ IsNumber(b) /\ ~AreInts(a, b) /\ ~IsNaN(a)   \* a is compared to a
  \/ a.typ \in {"symbol", "string"} /\ b.typ = a.typ /\ a.str = b.str
EqCrashes(a, b) ==
  a # b /\ (a = Null \/ (b = Null /\ a.typ \in {"integer", "symbol", "string"}))

BothPairs(a, b) == a.typ = "pair" /\ b.typ = "pair" /\ nillist \notin {a, b}

equal_obj[a \in Objects] == [b \in Objects |->
  \/ eq_obj(a, b)
  \/ BothPairs(a, b) /\ equal_obj[a.car][b.car] /\ equal_obj[a.cdr][b.cdr]]

\* Both parts of a pair are looked at in any case.
EqualCrashes[a \in Objects] == [b \in Objects |->
  \/ EqCrashes(a, b)
  \/ /\ ~eq_obj(a, b)
     /\ \/ Null \in {a, b}
        \/ BothPairs(a, b) /\ (EqualCrashes[a.car][b.car] \/ EqualCrashes[a.cdr][b.cdr])]

is_list[o \in Objects] == o = nillist \/ (o.typ = "pair" /\ is_list[o.cdr])

\* The elements of s, each the car of a new pair.
ListOf(s) ==
  LET last[n \in 0 .. Len(s)] ==   \* of the last n of them
        IF n = 0 THEN nillist ELSE Pair(s[Len(s) - n + 1], last[n - 1], "new")
  IN  last[Len(s)]

-----------------------------------------------------------------------------
(* The call *)

Comparisons == {"<", ">", "<=", ">="}
Divisions == {"/", "div", "remainder"}
Unary == {"cdr", "null?", "pair?", "list?", "number?", "symbol?", "sqrt", "even?", "odd?",
          "load", "car"}
\* Those looked for before car, which goes by the operator and not by the name.
Early == {"cons", "null?", "+", "-", "*", "=", "eq?", "list"} \cup Comparisons \cup Divisions
Names == Early \cup Unary \cup {"and", "or", "equal?"}

Branch == IF name \in Early THEN name
          ELSE IF spelt_car THEN "car"
          ELSE IF name = "car" THEN "unknown" ELSE name

\* REQUIRE_ARGC_EQ, REQUIRE_ARGC_GE
ArgcOk_AtMost == argc <= 2   \* mutant
ArgcOk ==
  CASE Branch \in Comparisons \cup {"="} -> argc >= 2
    [] Branch \in Divisions \cup {"cons", "eq?", "equal?"} -> argc = 2
    [] Branch \in Unary -> argc = 1
    [] Branch = "-" -> argc >= 1
    [] OTHER -> TRUE

\* REQUIRE_OBJ_NUM_TYPE, REQUIRE_OBJ_TYPE
TypeOk(o) ==
  CASE Branch \in {"+", "-", "*", "sqrt"} \cup Comparisons \cup Divisions -> IsNumber(o)
    [] Branch \in {"car", "cdr"}    -> o.typ = "pair"
    [] Branch \in {"even?", "odd?"} -> o.typ = "integer"
    [] Branch = "load"              -> o.typ = "string"
    [] Branch = "pair?"             -> o # Null
    [] OTHER -> TRUE

Init ==
  /\ name \in Names /\ spelt_car \in BOOLEAN /\ argc \in 0 .. MaxOperands
  /\ ops = <<>> /\ op1 = Null
  /\ result = CASE Branch = "+" -> Integer(0) [] Branch = "*" -> Integer(1)
                [] Branch = "list" -> <<>> [] Branch = "or" -> bool_obj(FALSE)
                [] OTHER -> bool_obj(TRUE)
  /\ status = "operands" /\ value = Null /\ eval_error = FALSE /\ failed = 0

call == <<name, spelt_car, argc>>
Return(v) == status' = "returned" /\ value' = v
ReturnError == Return(Null) /\ eval_error' = TRUE
Crash == status' = "crashed" /\ UNCHANGED <<value, eval_error>>
GoOn == UNCHANGED <<status, value, eval_error>>

WrongArgc == /\ status = "operands" /\ ops = <<>> /\ ~ArgcOk
             /\ ReturnError
             /\ UNCHANGED <<call, ops, op1, result, failed>>

Unknown == /\ status = "operands" /\ Branch = "unknown"
           /\ Return(Null)
           /\ UNCHANGED <<call, ops, op1, result, eval_error, failed>>

Decided ==
  \/ Branch = "and" /\ ops # <<>> /\ Last(ops) = bool_obj(FALSE)
  \/ Branch = "or" /\ ops # <<>> /\ Last(ops) # bool_obj(FALSE)

Evaluating == /\ status = "operands" /\ ArgcOk /\ Branch # "unknown"
              /\ Len(ops) < argc /\ ~Decided

\* cons looks at the flag when it has both operands, remainder at the second
\* operand before the flag.
OperandFails_FlagLate ==   \* mutant: as remainder, the other divisions
  /\ Evaluating
  /\ ops' = Append(ops, Null) /\ failed' = Len(ops')
  /\ IF Branch = "cons" /\ ops = <<>> THEN eval_error' = TRUE /\ UNCHANGED <<status, value>>
     ELSE IF Branch \in Divisions /\ Len(ops) = 1 THEN Crash
     ELSE ReturnError
  /\ UNCHANGED <<call, op1, result>>
OperandFails ==
  /\ Evaluating
  /\ ops' = Append(ops, Null) /\ failed' = Len(ops')
  /\ IF Branch = "cons" /\ ops = <<>> THEN eval_error' = TRUE /\ UNCHANGED <<status, value>>
     ELSE IF Branch = "remainder" /\ Len(ops) = 1 THEN Crash
     ELSE ReturnError
  /\ UNCHANGED <<call, op1, result>>

\* The next operand, of the type it has to be of.
Takes(o) == /\ Evaluating /\ TypeOk(o)
            /\ ops' = Append(ops, o)
            /\ UNCHANGED <<call, failed>>
First == ops = <<>>

WrongType(o) ==
  /\ Evaluating /\ ~TypeOk(o)
  /\ ops' = Append(ops, o)
  /\ IF o = Null THEN Crash ELSE ReturnError
  /\ UNCHANGED <<call, op1, result, failed>>

Calculate(o) ==
  /\ Branch \in {"+", "-", "*"} /\ Takes(o)
  /\ result' = IF Branch = "-" /\ First THEN o ELSE Obj_operation(Branch, result, o)
  /\ UNCHANGED op1 /\ GoOn

Divide(o) ==
  LET op == IF Branch = "remainder" THEN "%" ELSE "/" IN
  /\ Branch \in Divisions /\ Takes(o) /\ UNCHANGED op1
  /\ IF First THEN result' = o /\ GoOn
     ELSE IF Traps(op, result, o) THEN Crash /\ UNCHANGED result
     ELSE result' = Obj_operation(op, result, o) /\ GoOn

InOrder(a, b) ==
  CASE Branch = "<" -> Obj_lt_operation(a, b)
    [] Branch = ">" -> Obj_lt_operation(b, a)
    [] Branch = "<=" -> Obj_le_operation(a, b)
    [] Branch = ">=" -> Obj_le_operation(b, a)

Compare_ToFirst(o) ==   \* mutant: op1 = op2 is missing in the loop
  /\ Branch \in Comparisons /\ Takes(o)
  /\ result' = bool_obj(First \/ (result.val /\ InOrder(op1, o)))
  /\ op1' = IF First THEN o ELSE op1
  /\ GoOn
Compare(o) ==
  /\ Branch \in Comparisons /\ Takes(o)
  /\ result' = bool_obj(First \/ (result.val /\ InOrder(op1, o)))
  /\ op1' = o
  /\ GoOn

Equate(o) ==
  /\ Branch \in {"=", "eq?", "equal?"} /\ Takes(o)
  /\ op1' = o
  /\ IF ~First /\ (IF Branch = "equal?" THEN EqualCrashes[op1][o] ELSE EqCrashes(op1, o))
     THEN Crash /\ UNCHANGED result
     ELSE /\ GoOn
          /\ result' = bool_obj(First \/ (/\ result.val
                                          /\ IF Branch = "equal?" THEN equal_obj[op1][o]
                                                                  ELSE eq_obj(op1, o)))

Collect(o) == /\ Branch = "list" /\ Takes(o)
              /\ result' = Append(result, o)
              /\ UNCHANGED op1 /\ GoOn

Combine(o) == /\ Branch = "cons" /\ Takes(o)
              /\ op1' = IF First THEN o ELSE op1
              /\ result' = IF First THEN result ELSE Pair(op1, o, "new")
              /\ GoOn

Join(o) == /\ Branch \in {"and", "or"} /\ Takes(o)
           /\ result' = o
           /\ UNCHANGED op1 /\ GoOn

Answer(o) ==   \* of the unary ones, but load
  CASE Branch = "car" -> o.car
    [] Branch = "cdr" -> o.cdr
    [] Branch = "null?" -> bool_obj(o = nillist)
    [] Branch = "pair?" -> bool_obj(o.typ = "pair" /\ o # nillist)
    [] Branch = "list?" -> bool_obj(is_list[o])
    [] Branch = "number?" -> bool_obj(IsNumber(o))
    [] Branch = "symbol?" -> bool_obj(o.typ = "symbol")
    [] Branch = "sqrt" -> sqrt(o)
    [] Branch = "even?" -> bool_obj(o.num % 2 = 0)
    [] Branch = "odd?" -> bool_obj(o.num % 2 # 0)

Ask(o) == /\ Branch \in Unary \ {"load"} /\ Takes(o)
          /\ result' = Answer(o)
          /\ UNCHANGED op1 /\ GoOn

\* load_file: the file was fine, told of an error, or ended by one.
Load(o) ==
  /\ Branch = "load" /\ Takes(o) /\ UNCHANGED <<op1, result>>
  /\ \/ Return(bool_obj(TRUE)) /\ UNCHANGED eval_error
     \/ Return(Null) /\ eval_error' \in BOOLEAN

Finish ==
  /\ status = "operands" /\ ArgcOk /\ Branch # "unknown"
  /\ Len(ops) = argc \/ Decided
  /\ Return(CASE eval_error -> Null
              [] Branch = "-" /\ argc = 1 -> Obj_operation("-", Integer(0), result)
              [] Branch = "list" -> ListOf(result)
              [] OTHER -> result)
  /\ UNCHANGED <<call, ops, op1, result, eval_error, failed>>

Operand(o) ==
  \/ WrongType(o) \/ Calculate(o) \/ Divide(o) \/ Compare(o) \/ Equate(o)
  \/ Collect(o) \/ Combine(o) \/ Join(o) \/ Ask(o) \/ Load(o)

Next == WrongArgc \/ Unknown \/ OperandFails \/ (\E o \in Operands : Operand(o)) \/ Finish

Spec == Init /\ [][Next]_vars

-----------------------------------------------------------------------------
TypeOK ==
  /\ status \in {"operands", "returned", "crashed"}
  /\ Len(ops) <= argc /\ Range(ops) \subseteq Objects /\ failed \in 0 .. Len(ops)
  /\ status = "returned" /\ Len(ops) = argc /\ ~eval_error
       /\ Branch \in {"+", "-", "*"} \cup Divisions => IsNumber(value)
  /\ value.typ = "integer" => value.num \in MinInt .. MaxInt

Answers(names) == status = "returned" /\ ~eval_error /\ Branch \in names

AllInts == \A i \in DOMAIN ops : ops[i].typ = "integer"
AllFinite == \A i \in DOMAIN ops : ops[i].den > 0
AnyNaN == \E i \in DOMAIN ops : IsNaN(ops[i])

Sum(f, n) == LET s[k \in 0 .. n] == IF k = 0 THEN 0 ELSE s[k - 1] + f[k] IN s[n]
Product(f, n) == LET p[k \in 0 .. n] == IF k = 0 THEN 1 ELSE p[k - 1] * f[k] IN p[n]

\* The exact result of + - * for the first n operands: its numerator over the
\* product of their denominators.
Den(n) == Product([i \in 1 .. n |-> ops[i].den], n)
Num(n) ==
  IF Branch = "*" THEN Product([i \in 1 .. n |-> ops[i].num], n)
  ELSE Sum([i \in 1 .. n |-> (IF Branch = "-" /\ (i > 1 \/ argc = 1) THEN -1 ELSE 1) * ops[i].num
                             * Product([j \in 1 .. n |-> IF j = i THEN 1 ELSE ops[j].den], n)], n)

\* Integers before the first floating operand may have overflowed.
NoOverflow == \A n \in DOMAIN ops :
                (\A i \in 1 .. n : ops[i].typ = "integer") => Num(n) \in MinInt .. MaxInt

CalculationRight ==
  Answers({"+", "-", "*"}) =>
    IF AllInts THEN value = Integer(Wrap(Num(argc)))
    ELSE /\ value.typ = "float"
         /\ AnyNaN => IsNaN(value)
         /\ ~AllFinite => value.den = 0
         /\ AllFinite /\ NoOverflow =>
              value.den > 0 /\ value.num * Den(argc) = Num(argc) * value.den

\* r is what is left of n when it is cut down towards zero to a multiple of m.
IsRemainder(r, n, m) == Abs(r) < Abs(m) /\ r * n >= 0 /\ (n - r) % Abs(m) = 0

DivisionRight ==
  LET a == ops[1]  b == ops[2]
      n == a.num * b.den  m == b.num * a.den   \* a and b with one denominator
      remainder == Branch = "remainder"
  IN
  Answers(Divisions) =>
    IF AllInts THEN value.typ = "integer"
                    /\ IsRemainder(IF remainder THEN value.num ELSE n - value.num * m, n, m)
    ELSE value.typ = "float" /\
      CASE a.den = 0 \/ IsNaN(b) -> value.den = 0
        [] a.den > 0 /\ b.den = 0 /\ b.num # 0 ->
             value.den > 0 /\ value.num * a.den = (IF remainder THEN a.num ELSE 0) * value.den
        [] a.den > 0 /\ b.den > 0 /\ b.num = 0 ->
             value.den = 0 /\ value.num = (IF remainder THEN 0 ELSE Sign(a.num))
        [] a.den > 0 /\ b.den > 0 /\ b.num # 0 ->
             /\ value.den > 0
             /\ IF remainder
                THEN IsRemainder(value.num * a.den * b.den, n * value.den, m * value.den)
                ELSE value.num * m = n * value.den

OtherNumbersRight ==
  /\ Answers({"even?"}) => (value.val <=> \E k \in MinInt .. MaxInt : ops[1].num = 2 * k)
  /\ Answers({"odd?"}) => (value.val <=> ops[1].num \notin {2 * k : k \in MinInt .. MaxInt})
  /\ Answers({"sqrt"}) /\ value.typ = "integer" =>
       value.num \in Nat /\ value.num * value.num = ops[1].num

(* Numbers are calculated right (object.c:126-190, 390-433, 518-541,       *)
(* 649-684): integers stay integers, calculated modulo 2^64, a floating    *)
(* operand makes the result the exact floating one unless integers before  *)
(* it have overflowed, and infinite or NaN if an operand is; division cuts *)
(* off towards zero and the remainder goes with it.                        *)
ArithmeticRight == CalculationRight /\ DivisionRight /\ OtherNumbersRight

Pairwise(R(_, _)) == \A j \in DOMAIN ops : \A i \in 1 .. j - 1 : R(ops[i], ops[j])
ChainsRight ==
  Answers(Comparisons) =>
    (value.val <=> /\ ~AnyNaN
                   /\ CASE Branch = "<" -> Pairwise(Less)
                        [] Branch = ">" -> Pairwise(LAMBDA a, b : Less(b, a))
                        [] Branch = "<=" -> Pairwise(LAMBDA a, b : ~Less(b, a))
                        [] Branch = ">=" -> Pairwise(LAMBDA a, b : ~Less(a, b)))

JunctionsRight ==
  Answers({"and", "or"}) =>
    /\ value = IF ops = <<>> THEN bool_obj(Branch = "and") ELSE Last(ops)
    /\ \A i \in DOMAIN ops : i < Len(ops) =>
         (ops[i] = bool_obj(FALSE) <=> Branch = "or")
    /\ Len(ops) < argc => (Last(ops) = bool_obj(FALSE) <=> Branch = "and")

\* An object without its identity, and whether a floating number is in it.
Structure[o \in Objects] ==
  IF o \in Pairs THEN Pair(Structure[o.car], Structure[o.cdr], "any") ELSE o
HasFloat[o \in Objects] ==
  o.typ = "float" \/ (o \in Pairs /\ (HasFloat[o.car] \/ HasFloat[o.cdr]))

SameNumber(a, b) == ~Less(a, b) /\ ~Less(b, a)
EveryOperand(P(_)) == \A i \in DOMAIN ops : P(ops[i])
EqualityRight ==
  /\ Answers({"=", "eq?"}) /\ EveryOperand(LAMBDA o : o.typ # "float") =>
       (value.val <=> Pairwise(LAMBDA a, b : a = b))
  /\ Answers({"equal?"}) /\ EveryOperand(LAMBDA o : ~HasFloat[o]) =>
       (value.val <=> Structure[ops[1]] = Structure[ops[2]])
  /\ Answers({"=", "eq?", "equal?"})
       /\ EveryOperand(LAMBDA o : o.typ = "float" \/ (Branch = "=" /\ IsNumber(o)))
       /\ ~AnyNaN /\ Pairwise(SameNumber) => value.val
  /\ Answers({"="}) /\ EveryOperand(IsNumber)
       /\ (\E i \in 1 .. Len(ops) - 1 : IsNaN(ops[i]) /\ ops[i] # ops[i + 1]) => ~value.val

(* Truth values are what the operands say.  A chain of comparisons holds   *)
(* of all its operands in their order (object.c:434-517), and of none that *)
(* has a NaN.  and and or stop at the operand that decides and answer with *)
(* it (object.c:600-621).  =, eq? and equal? are equivalences              *)
(* (object.c:225-260): the same object, equal integers, symbols and        *)
(* strings of the same letters, and for equal? lists of such; floating     *)
(* numbers with one value are equal, and = to an integer of that value,    *)
(* and = fails behind a NaN unless the same object follows.  That numbers  *)
(* of different values are not = is FloatsCompared's.                      *)
TruthRight == ChainsRight /\ JunctionsRight /\ EqualityRight

(* = holds of numbers if and only if all have one value, whether integers  *)
(* or floating, as in Gauche, which the builtins mimic (README.md:4).      *)
(* Violated: eq_obj compares a floating number with itself                 *)
(* (object.c:233).                                                         *)
FloatsCompared ==
  Answers({"="}) /\ EveryOperand(IsNumber) /\ ~AnyNaN => (value.val <=> Pairwise(SameNumber))

HasNull[o \in Objects] == o = Null \/ (o \in Pairs /\ (HasNull[o.car] \/ HasNull[o.cdr]))

(* A builtin crashes only on a division of integers without a result, and  *)
(* where it meets NULL for an object; an operand in error leads there in   *)
(* remainder alone (object.c:538).  It answers NULL without an error only  *)
(* by passing NULL on, for the parts of the empty list (object.c:592), for *)
(* a load that failed (object.c:671), and where car goes by another name   *)
(* (object.c:586).                                                         *)
FailuresExplained ==
  /\ status = "crashed" =>
       IF failed # 0 THEN name = "remainder" /\ failed = 2
       ELSE \/ \E i \in DOMAIN ops : HasNull[ops[i]]
            \/ /\ name \in Divisions /\ AllInts
               /\ ops[2].num = 0 \/ (ops[1].num = MinInt /\ ops[2].num = -1)
  /\ status = "returned" /\ eval_error => value = Null
  /\ status = "returned" /\ value = Null /\ ~eval_error =>
       \/ Branch \in {"load", "unknown"}
       \/ Branch \in {"car", "cdr"} /\ (ops[1] = nillist \/ HasNull[ops[1]])
       \/ Branch \in {"and", "or"} /\ Last(ops) = Null
=============================================================================
