--------------------------- MODULE DataInduction ---------------------------
(* Induction over numbers and over the steps of a recursive function, as    *)
(* facts about sets and functions: what the proofs about LMap, whose loops  *)
(* over nodes and bits are recursive functions, rest on.                    *)
EXTENDS Integers, Sequences, SequencesExt, WellFoundedInduction, TLAPS

LessThan == {ss \in Nat \X Nat : ss[1] < ss[2]}

LEMMA LessThanWellFounded == IsWellFoundedOn(LessThan, Nat)
BY NatLessThanWellFounded DEF OpToRel, LessThan

(* A set with 0 and the successors of its members has every number. *)
LEMMA SetInduction ==
  ASSUME NEW S, 0 \in S, \A n \in Nat : n \in S => n + 1 \in S
  PROVE  \A n \in Nat : n \in S
<1> SUFFICES ASSUME Nat \ S # {} PROVE FALSE
  OBVIOUS
<1>1. \A i, j \in Nat : i < j => <<i, j>> \in LessThan
  BY DEF LessThan
<1>2. Nat \ S \subseteq Nat
  OBVIOUS
<1>3. PICK x \in Nat \ S : \A y \in Nat \ S : <<y, x>> \notin LessThan
  BY <1>2, LessThanWellFounded, WFMin
<1>4. x \in Nat \ {0}
  BY <1>3
<1>5. x - 1 \in Nat /\ <<x - 1, x>> \in LessThan
  BY <1>4, <1>1
<1>6. x - 1 \in S
  BY <1>3, <1>5
<1>7. (x - 1) + 1 \in S
  BY <1>5, <1>6
<1> QED
  BY <1>3, <1>4, <1>7

(* The same for the numbers up to a bound. *)
LEMMA UpToInduction ==
  ASSUME NEW n \in Nat, NEW S, 0 \in S,
         \A i \in 1 .. n : i - 1 \in S => i \in S
  PROVE  \A i \in 0 .. n : i \in S
<1> DEFINE T == {i \in Nat : i <= n => i \in S}
<1>1. 0 \in T
  OBVIOUS
<1>2. ASSUME NEW i \in Nat, i \in T PROVE i + 1 \in T
  <2> SUFFICES ASSUME i + 1 <= n PROVE i + 1 \in S
    OBVIOUS
  <2>1. i + 1 \in 1 .. n /\ (i + 1) - 1 = i
    OBVIOUS
  <2>2. i \in S
    BY <1>2
  <2> QED
    BY <2>1, <2>2
<1>3. \A i \in Nat : i \in T
  <2> HIDE DEF T
  <2> QED BY <1>1, <1>2, SetInduction
<1> QED
  BY <1>3

(* g lists what k iterations of a step make of a first value. *)
Iterates(g, k, S, first, step) ==
  /\ g \in [0 .. k -> S]
  /\ g[0] = first
  /\ \A i \in 1 .. k : g[i] = step[<<g[i - 1], i>>]

(* A step that maps S to S can be iterated. *)
LEMMA FiniteRecursion ==
  ASSUME NEW S, NEW first \in S, NEW n \in Nat, NEW step \in [S \X (1 .. n) -> S]
  PROVE  \E g : Iterates(g, n, S, first, step)
<1> DEFINE T == {k \in 0 .. n : \E g : Iterates(g, k, S, first, step)}
<1>1. 0 \in T
  <2>1. Iterates([i \in 0 .. 0 |-> first], 0, S, first, step)
    BY DEF Iterates
  <2> QED BY <2>1
<1>2. ASSUME NEW k \in 1 .. n, k - 1 \in T PROVE k \in T
  <2>1. PICK g : Iterates(g, k - 1, S, first, step)
    BY <1>2
  <2> DEFINE last == step[<<g[k - 1], k>>]
             h == [i \in 0 .. k |-> IF i = k THEN last ELSE g[i]]
  <2>2. last \in S
    BY <2>1 DEF Iterates
  <2>3. h \in [0 .. k -> S]
    BY <2>1, <2>2 DEF Iterates
  <2>4. h[0] = first
    BY <2>1 DEF Iterates
  <2>5. ASSUME NEW i \in 1 .. k PROVE h[i] = step[<<h[i - 1], i>>]
    <3>1. h[i - 1] = g[i - 1]
      BY <2>5
    <3>2. CASE i = k
      <4>1. h[i] = step[<<g[i - 1], i>>]
        BY <2>5, <3>2
      <4> HIDE DEF h
      <4> QED BY <3>1, <4>1
    <3>3. CASE i # k
      <4>1. i \in 1 .. k - 1 /\ h[i] = g[i]
        BY <2>5, <3>3
      <4> QED BY <2>1, <3>1, <4>1 DEF Iterates
    <3> QED BY <3>2, <3>3
  <2>6. Iterates(h, k, S, first, step)
    <3> HIDE DEF h
    <3> QED BY <2>3, <2>4, <2>5 DEF Iterates
  <2> HIDE DEF h
  <2> QED BY <2>6
<1> HIDE DEF T
<1>3. \A i \in 0 .. n : i \in T
  BY <1>1, <1>2, UpToInduction
<1> QED
  BY <1>3 DEF T

-----------------------------------------------------------------------------
(* FlattenSeq *)

LEMMA FlattenSeqDef ==
  ASSUME NEW S, NEW seqs \in Seq(Seq(S)), Len(seqs) # 0
  PROVE  \E g : /\ g \in [1 .. Len(seqs) -> Seq(S)]
                /\ g[1] = seqs[1]
                /\ \A i \in 2 .. Len(seqs) : g[i] = g[i - 1] \o seqs[i]
                /\ FlattenSeq(seqs) = g[Len(seqs)]
<1> DEFINE n == Len(seqs)
           step == [a \in Seq(S) \X (1 .. n) |-> a[1] \o seqs[a[2]]]
           Eqn(f) == f = [i \in 1 .. n |-> IF i = 1 THEN seqs[i] ELSE f[i - 1] \o seqs[i]]
<1>1. n \in Nat /\ \A i \in 1 .. n : seqs[i] \in Seq(S)
  OBVIOUS
<1>2. step \in [Seq(S) \X (1 .. n) -> Seq(S)]
  BY <1>1
<1>3. PICK h : Iterates(h, n, Seq(S), <<>>, step)
  <2>1. <<>> \in Seq(S)
    OBVIOUS
  <2> HIDE DEF step, n
  <2> QED BY <1>1, <1>2, <2>1, FiniteRecursion
<1> DEFINE g == [i \in 1 .. n |-> h[i]]
<1>4. ASSUME NEW i \in 1 .. n
      PROVE  h[i] \in Seq(S) /\ h[i - 1] \in Seq(S) /\ h[i] = h[i - 1] \o seqs[i]
  <2> HIDE DEF n, step
  <2>1. i \in 0 .. n /\ i - 1 \in 0 .. n
    BY <1>1
  <2>2. h[i] \in Seq(S) /\ h[i - 1] \in Seq(S)
    BY <1>3, <2>1 DEF Iterates
  <2>3. <<h[i - 1], i>> \in Seq(S) \X (1 .. n)
    BY <2>2
  <2>4. step[<<h[i - 1], i>>] = h[i - 1] \o seqs[i]
    BY <2>3 DEF step
  <2> QED BY <1>3, <2>2, <2>4 DEF Iterates
<1>5. h[1] = seqs[1]
  <2>1. 1 \in 1 .. n
    BY <1>1
  <2>2. h[0] = <<>> /\ 1 - 1 = 0
    BY <1>3 DEF Iterates
  <2>3. h[1] = h[1 - 1] \o seqs[1]
    BY <2>1, <1>4
  <2>4. seqs[1] \in Seq(S)
    BY <2>1, <1>1
  <2> HIDE DEF n
  <2>5. <<>> \o seqs[1] = seqs[1]
    BY <2>4
  <2> QED BY <2>2, <2>3, <2>5
<1>6. Eqn(g)
  <2>1. ASSUME NEW i \in 1 .. n
        PROVE  g[i] = IF i = 1 THEN seqs[i] ELSE g[i - 1] \o seqs[i]
    <3>1. CASE i = 1
      BY <3>1, <1>5
    <3>2. CASE i # 1
      <4>1. g[i] = h[i] /\ g[i - 1] = h[i - 1]
        BY <3>2
      <4> HIDE DEF g, n
      <4> QED BY <3>2, <4>1, <1>4
    <3> QED BY <3>1, <3>2
  <2>2. g = [i \in 1 .. n |-> g[i]]
    OBVIOUS
  <2> HIDE DEF g, n
  <2> QED BY <2>1, <2>2
<1> HIDE DEF g
<1>7. PICK f : Eqn(f) /\ FlattenSeq(seqs) = f[n]
  BY <1>1, <1>6 DEF FlattenSeq
<1>8. ASSUME NEW i \in 2 .. n PROVE f[i] = f[i - 1] \o seqs[i]
  <2>1. i \in 1 .. n /\ i # 1
    OBVIOUS
  <2> HIDE DEF n
  <2> QED BY <1>7, <2>1
<1>9. f[1] = seqs[1]
  BY <1>1, <1>7
<1>10. ASSUME NEW i \in 1 .. n PROVE f[i] \in Seq(S)
  <2> DEFINE T == {j \in 0 .. n : j # 0 => f[j] \in Seq(S)}
  <2>1. 0 \in T
    BY <1>1
  <2>2. ASSUME NEW j \in 1 .. n, j - 1 \in T PROVE j \in T
    <3>1. CASE j = 1
      BY <3>1, <1>1, <1>9
    <3>2. CASE j # 1
      <4>1. j \in 2 .. n /\ j - 1 # 0
        BY <3>2
      <4>2. f[j - 1] \in Seq(S)
        BY <2>2, <4>1
      <4> HIDE DEF n
      <4>3. seqs[j] \in Seq(S) /\ f[j] = f[j - 1] \o seqs[j]
        BY <4>1, <1>1, <1>8
      <4>4. f[j] \in Seq(S)
        BY <4>2, <4>3
      <4>5. j \in 0 .. n
        BY <4>1, <1>1
      <4> QED BY <4>4, <4>5
    <3> QED BY <3>1, <3>2
  <2> HIDE DEF T, n
  <2>3. \A j \in 0 .. n : j \in T
    BY <1>1, <2>1, <2>2, UpToInduction
  <2>4. i \in 0 .. n /\ i # 0
    OBVIOUS
  <2> QED BY <2>3, <2>4 DEF T
<1>11. f \in [1 .. n -> Seq(S)]
  BY <1>7, <1>10
<1> QED
  BY <1>7, <1>8, <1>9, <1>11

(* The places of the first k sequences, and a numbering of them by flat.    *)
PlacesUpTo(seqs, k) ==
  {a \in (1 .. k) \X Nat : a[2] \in 1 .. Len(seqs[a[1]])}

IsPlacing(pl, flat, seqs, k) ==
  /\ pl \in [1 .. Len(flat) -> PlacesUpTo(seqs, k)]
  /\ \A p, q \in 1 .. Len(flat) : pl[p] = pl[q] => p = q
  /\ \A a \in PlacesUpTo(seqs, k) : \E p \in 1 .. Len(flat) : pl[p] = a
  /\ \A p \in 1 .. Len(flat) : flat[p] = seqs[pl[p][1]][pl[p][2]]

LEMMA PlacingStep ==
  ASSUME NEW S, NEW seqs \in Seq(Seq(S)), NEW k \in 1 .. Len(seqs), NEW flat \in Seq(S),
         NEW pl, IsPlacing(pl, flat, seqs, k - 1)
  PROVE  \E q : IsPlacing(q, flat \o seqs[k], seqs, k)
<1> DEFINE l == Len(flat)
           e == Len(seqs[k])
           q == [p \in 1 .. l + e |-> IF p <= l THEN pl[p] ELSE <<k, p - l>>]
<1>1. seqs[k] \in Seq(S) /\ l \in Nat /\ e \in Nat /\ k \in Nat /\ k - 1 \in Nat
  OBVIOUS
<1>2. Len(flat \o seqs[k]) = l + e
  BY <1>1
<1>3. ASSUME NEW p \in 1 .. l
      PROVE  /\ q[p] = pl[p]
             /\ q[p] \in PlacesUpTo(seqs, k)
             /\ q[p][1] # k
             /\ (flat \o seqs[k])[p] = seqs[q[p][1]][q[p][2]]
  <2>1. q[p] = pl[p]
    BY <1>1
  <2>2. pl[p] \in PlacesUpTo(seqs, k - 1) /\ flat[p] = seqs[pl[p][1]][pl[p][2]]
    BY DEF IsPlacing
  <2>3. pl[p] \in PlacesUpTo(seqs, k) /\ pl[p][1] # k
    <3> DEFINE a == pl[p]
    <3>1. a \in (1 .. k - 1) \X Nat /\ a[2] \in 1 .. Len(seqs[a[1]])
      BY <2>2 DEF PlacesUpTo
    <3> HIDE DEF a, l, e
    <3>2. a \in (1 .. k) \X Nat /\ a[1] # k
      BY <1>1, <3>1
    <3>3. a \in PlacesUpTo(seqs, k) /\ a[1] # k
      BY <3>1, <3>2 DEF PlacesUpTo
    <3> QED BY <3>3 DEF a
  <2>4. (flat \o seqs[k])[p] = flat[p]
    BY <1>1
  <2> HIDE DEF q
  <2> QED BY <2>1, <2>2, <2>3, <2>4
<1>4. ASSUME NEW j \in 1 .. e
      PROVE  /\ j + l \in 1 .. l + e
             /\ q[j + l] = <<k, j>>
             /\ q[j + l] \in PlacesUpTo(seqs, k)
             /\ (flat \o seqs[k])[j + l] = seqs[k][j]
  <2>1. j + l \in 1 .. l + e /\ ~(j + l <= l) /\ (j + l) - l = j
    BY <1>1
  <2>2. q[j + l] = <<k, j>>
    BY <2>1
  <2>3. <<k, j>> \in PlacesUpTo(seqs, k)
    BY <1>1 DEF PlacesUpTo
  <2>4. (flat \o seqs[k])[j + l] = seqs[k][(j + l) - l]
    BY <1>1, <2>1
  <2> HIDE DEF q
  <2> QED BY <2>1, <2>2, <2>3, <2>4
<1>5. ASSUME NEW p \in 1 .. l + e
      PROVE  p \in 1 .. l \/ (p - l \in 1 .. e /\ p = (p - l) + l)
  BY <1>1
<1>6. q = [p \in 1 .. l + e |-> q[p]]
  OBVIOUS
<1> HIDE DEF q
<1>7. q \in [1 .. l + e -> PlacesUpTo(seqs, k)]
  <2>1. \A p \in 1 .. l + e : q[p] \in PlacesUpTo(seqs, k)
    BY <1>3, <1>4, <1>5
  <2> HIDE DEF l, e
  <2> QED BY <1>6, <2>1
<1>8. ASSUME NEW p \in 1 .. l + e, NEW r \in 1 .. l + e, q[p] = q[r] PROVE p = r
  <2>1. CASE p \in 1 .. l /\ r \in 1 .. l
    BY <2>1, <1>3, <1>8 DEF IsPlacing
  <2>2. CASE p \in 1 .. l /\ r - l \in 1 .. e
    <3>1. q[p][1] # k /\ q[(r - l) + l] = <<k, r - l>>
      BY <2>2, <1>3, <1>4
    <3> QED BY <2>2, <3>1, <1>5, <1>8, <1>1
  <2>3. CASE p - l \in 1 .. e /\ r \in 1 .. l
    <3>1. q[r][1] # k /\ q[(p - l) + l] = <<k, p - l>>
      BY <2>3, <1>3, <1>4
    <3> QED BY <2>3, <3>1, <1>5, <1>8, <1>1
  <2>4. CASE p - l \in 1 .. e /\ r - l \in 1 .. e
    <3>1. q[(p - l) + l] = <<k, p - l>> /\ q[(r - l) + l] = <<k, r - l>>
      BY <2>4, <1>4
    <3>2. p = (p - l) + l /\ r = (r - l) + l
      BY <1>1
    <3>3. p - l = r - l
      BY <3>1, <3>2, <1>8
    <3> QED BY <3>2, <3>3
  <2> QED BY <1>5, <2>1, <2>2, <2>3, <2>4
<1>9. ASSUME NEW a \in PlacesUpTo(seqs, k) PROVE \E p \in 1 .. l + e : q[p] = a
  <2>1. CASE a[1] = k
    <3>1. a[2] \in 1 .. e /\ a = <<k, a[2]>>
      BY <2>1 DEF PlacesUpTo
    <3> QED BY <3>1, <1>4
  <2>2. CASE a[1] # k
    <3>1. a \in PlacesUpTo(seqs, k - 1)
      BY <2>2, <1>1 DEF PlacesUpTo
    <3>2. PICK p \in 1 .. l : pl[p] = a
      BY <3>1 DEF IsPlacing
    <3>3. p \in 1 .. l + e
      BY <1>1
    <3> QED BY <3>2, <3>3, <1>3
  <2> QED BY <2>1, <2>2
<1>10. ASSUME NEW p \in 1 .. l + e
       PROVE  (flat \o seqs[k])[p] = seqs[q[p][1]][q[p][2]]
  <2>1. CASE p \in 1 .. l
    BY <2>1, <1>3
  <2>2. CASE p - l \in 1 .. e
    <3>1. q[(p - l) + l] = <<k, p - l>> /\ (flat \o seqs[k])[(p - l) + l] = seqs[k][p - l]
      BY <2>2, <1>4
    <3>2. p = (p - l) + l
      BY <1>1
    <3> QED BY <3>1, <3>2
  <2> QED BY <1>5, <2>1, <2>2
<1>11. IsPlacing(q, flat \o seqs[k], seqs, k)
  <2> HIDE DEF l, e
  <2> QED BY <1>2, <1>7, <1>8, <1>9, <1>10 DEF IsPlacing
<1> QED
  BY <1>11

(* FlattenSeq lists every place of its sequences once.                      *)
LEMMA FlattenPlacing ==
  ASSUME NEW S, NEW seqs \in Seq(Seq(S))
  PROVE  /\ FlattenSeq(seqs) \in Seq(S)
         /\ \E pl : IsPlacing(pl, FlattenSeq(seqs), seqs, Len(seqs))
<1> DEFINE n == Len(seqs)
<1>0. n \in Nat /\ \A i \in 1 .. n : seqs[i] \in Seq(S)
  OBVIOUS
<1>1. IsPlacing(<<>>, <<>>, seqs, 0) /\ <<>> \in Seq(S)
  BY DEF IsPlacing, PlacesUpTo
<1>2. CASE n = 0
  <2>1. seqs = <<>>
    BY <1>2
  <2>2. FlattenSeq(seqs) = seqs
    BY <1>2 DEF FlattenSeq
  <2> HIDE DEF n
  <2>3. IsPlacing(<<>>, FlattenSeq(seqs), seqs, n) /\ FlattenSeq(seqs) \in Seq(S)
    BY <1>1, <1>2, <2>1, <2>2
  <2> QED BY <2>3 DEF n
<1>3. CASE n # 0
  <2>1. PICK g : /\ g \in [1 .. n -> Seq(S)]
                 /\ g[1] = seqs[1]
                 /\ \A i \in 2 .. n : g[i] = g[i - 1] \o seqs[i]
                 /\ FlattenSeq(seqs) = g[n]
    BY <1>3, FlattenSeqDef
  <2> DEFINE T == {k \in 0 .. n : k # 0 => \E pl : IsPlacing(pl, g[k], seqs, k)}
  <2>2. 0 \in T
    BY <1>0
  <2>3. ASSUME NEW k \in 1 .. n, k - 1 \in T PROVE k \in T
    <3>1. CASE k = 1
      <4>1. k - 1 = 0 /\ seqs[k] \in Seq(S) /\ <<>> \o seqs[k] = g[k]
        BY <3>1, <1>0, <2>1
      <4>2. IsPlacing(<<>>, <<>>, seqs, k - 1)
        BY <4>1, <1>1
      <4>3. \E pl : IsPlacing(pl, <<>> \o seqs[k], seqs, k)
        BY <4>2, <1>1, PlacingStep
      <4>4. \E pl : IsPlacing(pl, g[k], seqs, k)
        BY <4>1, <4>3
      <4>5. k \in 0 .. n
        BY <1>0
      <4> QED BY <4>4, <4>5
    <3>2. CASE k # 1
      <4>1. k \in 2 .. n /\ k - 1 # 0 /\ k - 1 \in 1 .. n
        BY <3>2, <1>0
      <4>2. g[k - 1] \in Seq(S) /\ g[k] = g[k - 1] \o seqs[k]
        BY <4>1, <2>1
      <4>3. PICK pl : IsPlacing(pl, g[k - 1], seqs, k - 1)
        BY <2>3, <4>1
      <4>4. \E q : IsPlacing(q, g[k - 1] \o seqs[k], seqs, k)
        BY <4>2, <4>3, PlacingStep
      <4>5. \E q : IsPlacing(q, g[k], seqs, k)
        BY <4>2, <4>4
      <4>6. k \in 0 .. n
        BY <1>0
      <4> QED BY <4>5, <4>6
    <3> QED BY <3>1, <3>2
  <2>4. n \in 0 .. n /\ n \in 1 .. n
    BY <1>0, <1>3
  <2> HIDE DEF T, n
  <2>5. n \in T
    BY <1>0, <2>2, <2>3, <2>4, UpToInduction
  <2>6. \E pl : IsPlacing(pl, g[n], seqs, n)
    BY <2>5, <1>3 DEF T
  <2>7. g[n] \in Seq(S)
    BY <2>1, <2>4
  <2>8. FlattenSeq(seqs) \in Seq(S) /\ \E pl : IsPlacing(pl, FlattenSeq(seqs), seqs, n)
    BY <2>1, <2>6, <2>7
  <2> QED BY <2>8 DEF n
<1> QED
  BY <1>2, <1>3
=============================================================================
