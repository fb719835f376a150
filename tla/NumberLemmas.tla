---------------------------- MODULE NumberLemmas ----------------------------
(***************************************************************************)
(* Induction on numbers for the proofs about the modules: a set that holds *)
(* 0 and the successor of each of its numbers holds all of them.  The      *)
(* property to prove by induction is given as a set, which the provers can *)
(* instantiate where they cannot instantiate an operator.                  *)
(***************************************************************************)
EXTENDS Integers, WellFoundedInduction, TLAPS

LEMMA LeastNumber ==
  ASSUME NEW S, S \subseteq Nat, S # {}
  PROVE  \E k \in S : \A l \in S : k <= l
<1>1. \E k \in S : \A l \in S : ~ (<<l, k>> \in OpToRel(<, Nat))
  BY NatLessThanWellFounded, WFMin
<1>2. \A k, l \in Nat : ~ (<<l, k>> \in OpToRel(<, Nat)) => k <= l
  BY DEF OpToRel
<1> QED
  BY <1>1, <1>2

LEMMA SetInduction ==
  ASSUME NEW S, NEW bound \in Nat, 0 \in S, \A n \in 0 .. bound - 1 : n \in S => n + 1 \in S
  PROVE  \A n \in 0 .. bound : n \in S
<1> DEFINE Bad == {n \in 0 .. bound : n \notin S}
<1> SUFFICES ASSUME Bad # {} PROVE FALSE
  OBVIOUS
<1>1. PICK k \in Bad : \A l \in Bad : k <= l
  <2>1. Bad \subseteq Nat
    OBVIOUS
  <2> HIDE DEF Bad
  <2> QED
    BY <2>1, LeastNumber
<1>2. k \in 1 .. bound /\ k - 1 \in 0 .. bound - 1 /\ k = (k - 1) + 1
  OBVIOUS
<1>3. k - 1 \in S
  BY <1>1, <1>2
<1> QED
  BY <1>2, <1>3

\* The same for all numbers.
LEMMA NatSetInduction ==
  ASSUME NEW S, 0 \in S, \A n \in Nat : n \in S => n + 1 \in S
  PROVE  Nat \subseteq S
<1> SUFFICES ASSUME NEW m \in Nat PROVE m \in S
  OBVIOUS
<1>1. \A n \in 0 .. m - 1 : n \in S => n + 1 \in S
  OBVIOUS
<1>2. \A n \in 0 .. m : n \in S
  BY <1>1, SetInduction
<1> QED
  BY <1>2

-----------------------------------------------------------------------------
(* Iterating a function on a set is a recursive function, which exists.     *)

Iterates(f, step, first, bound) ==
  f[0] = first /\ \A n \in 1 .. bound : f[n] = step[f[n - 1]]

LEMMA IterationExists ==
  ASSUME NEW X, NEW step \in [X -> X], NEW first \in X, NEW bound \in Nat
  PROVE  \E f \in [0 .. bound -> X] : Iterates(f, step, first, bound)
<1> DEFINE D == {m \in Nat : \E f \in [0 .. m -> X] : Iterates(f, step, first, m)}
<1>1. 0 \in D
  <2>1. /\ [n \in 0 .. 0 |-> first] \in [0 .. 0 -> X]
        /\ Iterates([n \in 0 .. 0 |-> first], step, first, 0)
    BY DEF Iterates
  <2> QED
    BY <2>1
<1>2. \A m \in Nat : m \in D => m + 1 \in D
  <2> SUFFICES ASSUME NEW m \in Nat, NEW f \in [0 .. m -> X], Iterates(f, step, first, m)
               PROVE  \E g \in [0 .. m + 1 -> X] : Iterates(g, step, first, m + 1)
    OBVIOUS
  <2> DEFINE g == [n \in 0 .. m + 1 |-> IF n <= m THEN f[n] ELSE step[f[m]]]
  <2>1. g \in [0 .. m + 1 -> X] /\ g[0] = first
    BY DEF Iterates
  <2>2. ASSUME NEW n \in 1 .. m + 1 PROVE g[n] = step[g[n - 1]]
    <3>1. CASE n \in 1 .. m
      BY <3>1 DEF Iterates
    <3>2. CASE n = m + 1
      BY <3>2
    <3> QED
      BY <3>1, <3>2
  <2> HIDE DEF g
  <2> QED
    BY <2>1, <2>2 DEF Iterates
<1> HIDE DEF D
<1>3. bound \in D
  BY <1>1, <1>2, NatSetInduction
<1> QED
  BY <1>3 DEF D

-----------------------------------------------------------------------------
(* So is a function that takes its value at a number from that at a smaller *)
(* one, unless it stops there.                                              *)

Descends(f, n, stop, val, down) ==
  f = [l \in 0 .. n |-> IF l \in stop THEN val[l] ELSE f[down[l]]]

LEMMA DownwardExists ==
  ASSUME NEW n \in Nat, NEW stop, NEW val, NEW down, 0 \in stop,
         \A l \in 0 .. n : l \notin stop => down[l] \in 0 .. l - 1
  PROVE  \E f : Descends(f, n, stop, val, down)
<1> SUFFICES \E f : f = [l \in 0 .. n |-> IF l \in stop THEN val[l] ELSE f[down[l]]]
  BY DEF Descends
<1> DEFINE D == {m \in 0 .. n : \E f : f = [l \in 0 .. m |-> IF l \in stop THEN val[l] ELSE f[down[l]]]}
<1>1. 0 \in D
  <2> DEFINE f == [l \in 0 .. 0 |-> val[0]]
  <2>1. f = [l \in 0 .. 0 |-> IF l \in stop THEN val[l] ELSE f[down[l]]]
    OBVIOUS
  <2> HIDE DEF f
  <2> QED
    BY <2>1
<1>2. ASSUME NEW m \in 0 .. n - 1, m \in D PROVE m + 1 \in D
  <2>1. PICK f : f = [l \in 0 .. m |-> IF l \in stop THEN val[l] ELSE f[down[l]]]
    BY <1>2
  <2> DEFINE g == [l \in 0 .. m + 1 |-> IF l \in stop THEN val[l] ELSE f[down[l]]]
  <2>2. \A l \in 0 .. m : g[l] = f[l]
    BY <2>1
  <2>3. ASSUME NEW l \in 0 .. m + 1, l \notin stop PROVE g[down[l]] = f[down[l]]
    <3>1. l \in 0 .. n /\ down[l] \in 0 .. l - 1
      BY <2>3
    <3>2. down[l] \in 0 .. m
      BY <3>1, <2>3
    <3> HIDE DEF g
    <3> QED
      BY <2>2, <3>2
  <2>4. g = [l \in 0 .. m + 1 |-> IF l \in stop THEN val[l] ELSE g[down[l]]]
    <3> DEFINE h == [l \in 0 .. m + 1 |-> IF l \in stop THEN val[l] ELSE g[down[l]]]
    <3>1. \A l \in 0 .. m + 1 : g[l] = h[l]
      BY <2>3, Zenon
    <3> QED
      BY <3>1, Zenon
  <2> HIDE DEF g
  <2> QED
    BY <2>4
<1>3. \A m \in 0 .. n : m \in D
  <2> HIDE DEF D
  <2> QED
    BY <1>1, <1>2, SetInduction
<1> QED
  BY <1>3
=============================================================================
