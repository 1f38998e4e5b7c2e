----------------------------- MODULE MCTableSeq -----------------------------
(* Instances of TableSeq for TLC: numbers 0..2 and -1, and two strings whose*)
(* hashes collide in every hash of up to 4 buckets and part in 8.           *)
EXTENDS TableSeq, TLC

CONSTANTS sa, sb

(* Addresses and texts are interchangeable. *)
Symmetry == Permutations(Strs) \cup Permutations(Texts)

Num(n) == [type |-> "NUMBER", k |-> n]
Str(x) == [type |-> "STRING", k |-> x]

MCStrHash == sa :> 1 @@ sb :> 5

MCKeys == {Num(0), Num(1), Num(2), Num(15), Str(sa), Str(sb)}

(* Key 0 takes numbers and booleans, key 2 numbers and strings, the others  *)
(* one type each.                                                           *)
MCWriteTypes ==
  [key \in MCKeys |->
     CASE key = Num(0) -> {"NUMBER", "BOOLEAN"}
       [] key = Num(2) -> {"NUMBER", "STRING"}
       [] key \in {Num(1), Str(sa), Str(sb)} -> {"STRING"}
       [] OTHER -> {"NUMBER"}]
=============================================================================
