------------------------------ MODULE MCReader ------------------------------
(* Instances of Reader for TLC: brackets among strings, bars and comments; *)
(* numbers, and words that are nearly numbers; booleans; a keyword, quotes *)
(* and blanks.                                                             *)
EXTENDS Reader

Brackets == {"(", ")", "dq", "bar", "semi", "nl"}
Numbers == {"1", "+", ".", "a", "nl"}
Booleans == {"#", "t", "r", "f", "nl"}
Words == {"i", "f", "'", "[", " ", "nl"}
TypedAlphabets == {Brackets, Numbers, Booleans, Words}
=============================================================================
