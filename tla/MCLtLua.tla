------------------------------ MODULE MCLtLua ------------------------------
(* Instance of LtLua for TLC: the keys 2, 7, the greatest int, 2.5 and a    *)
(* string that hashes like 2.  Tables with 2 and 7 are full; 2 and the      *)
(* string make the hash of their table grow.  sa and x just fit into temp,  *)
(* sb and y do not.                                                         *)
EXTENDS LtLua, TLC

CONSTANTS sa, sb, x, y

Str(n) == [t |-> "string", x |-> n]
Bool(b) == [t |-> "boolean", x |-> b]
LTab(s) == [t |-> "table", x |-> s]
Frac == [LNum(2) EXCEPT !.frac = TRUE]
Fun == [t |-> "function", x |-> 0]

MCStrHash == sa :> 2 @@ sb :> 0

MCStrLen == sa :> 92 @@ sb :> 93 @@ x :> 97 @@ y :> 98

MCSetArgs ==
  {<<LNum(2), LNum(7)>>, <<LNum(7), Bool(1)>>, <<Frac, LNum(8)>>,
   <<Str(sa), Str(x)>>, <<Str(sa), LNum(7)>>}
    \cup {<<Str(sa), LUd(a)>> : a \in Tables}

MCGetKeys == {Bool(1), Str(sa), LNum(19)}

Inner == << <<Str(sa), LNum(7)>> >>
Middle == << <<LNum(2), LTab(Inner)>> >>

MCLuaTables ==
  {<< <<LNum(2), Str(x)>>, <<LNum(7), LTab(Inner)>>, <<Str(sa), Bool(0)>> >>,
   << <<LNum(2), LTab(Inner)>>, <<LNum(7), Fun>> >>,
   << <<Bool(1), LNum(7)>> >>,
   << <<LNum(2), LNum(7)>>, <<Frac, Str(x)>> >>,
   << <<Str(sb), LNum(7)>> >>,
   << <<LNum(7), Str(y)>> >>,
   << <<LNum(2), LTab(Middle)>> >>,
   Middle, Inner}

(* No step reads the text serialize() left behind. *)
View == <<tab, mt, it, status, misuse, dict>>

(* Bounds: two live tables hold four entries at most, one or three three;   *)
(* pairs runs while one table is live, and of what follows a misuse the     *)
(* states with one table and one entry are explored.                        *)
Entries == FoldSet(LAMBDA a, n : n + Cardinality(DOMAIN dict[a]), 0, Live(tab))
Bound ==
  /\ Entries <= IF Cardinality(Live(tab)) = 2 THEN 4 ELSE 3
  /\ it # NoIter => Cardinality(Live(tab)) <= 1
  /\ misuse # {} => Cardinality(Live(tab)) <= 1 /\ Entries <= 1
  /\ Cardinality(misuse) <= 1
=============================================================================
