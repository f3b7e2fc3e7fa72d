----------------------------- MODULE MCBuiltins -----------------------------
(* Instances of Builtins for TLC: integers up to both ends of their range, *)
(* floating numbers that are equal to integers, between them, infinite and *)
(* NaN, and pairs that are equal but not the same.                         *)
EXTENDS Builtins

Numbers == {Integer(v) : v \in {-8, -7, -1, 0, 1, 2, 4, 7}}
           \cup {Float(0, 1), Float(1, 1), Float(-3, 2), Float(5, 2),
                 Float(0, 0), Float(1, 0), Float(-1, 0)}
           \cup {[Float(0, 0) EXCEPT !.id = "other"]}
Atoms == {bool_obj(TRUE), bool_obj(FALSE), nillist,
          [typ |-> "symbol", str |-> "a"], [typ |-> "string", str |-> "a"],
          [typ |-> "lambda", id |-> "f"]}
Lists == LET r == Pair(Integer(2), nillist, "r") IN
         {Pair(Integer(1), nillist, "p"), Pair(Integer(1), nillist, "q"), r,
          Pair(Integer(1), r, "s"), Pair(Null, nillist, "t"), Pair(Float(1, 1), Integer(2), "u")}
SomeObjects == Numbers \cup Atoms \cup Lists \cup {Null}
=============================================================================
