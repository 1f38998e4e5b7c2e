---------------------------- MODULE MCLightTable ----------------------------
(* Instances of LightTable for TLC.  Key 0 and key 4 share a bucket of      *)
(* every hash of 2 or 4 buckets and part in 8, so two keys make the table   *)
(* grow twice: on an insertion, then on an overwrite.                       *)
EXTENDS LightTable, TLC

MCKeys == {[type |-> "NUMBER", k |-> n] : n \in {0, 4}}

(* Two keys that part in 4 buckets: the table grows once. *)
GrowOnceKeys == {[type |-> "NUMBER", k |-> n] : n \in {0, 2}}

NoStrings == <<>>

Symmetry == Permutations(Maps) \cup Permutations(Readers)
              \cup Permutations(Writers \ Readers) \cup Permutations(Bits)
              \cup Permutations(Strs)
=============================================================================
