----------------------------- MODULE Iteration -----------------------------
(***************************************************************************)
(* Induction over the naturals, and the functions defined by recursion on  *)
(* them, for proofs about scans and replays.  The library states induction *)
(* for an operator; here it is stated for a set, which the provers can     *)
(* instantiate.                                                            *)
(***************************************************************************)
EXTENDS Integers, WellFoundedInduction, TLAPS

\* A nonempty set of naturals has a least element.
LEMMA LeastNumber ==
  ASSUME NEW S \in SUBSET Nat, S # {}
  PROVE  \E n \in S : \A m \in S : n <= m
<1>1. PICK n \in S : \A m \in S : <<m, n>> \notin OpToRel(<, Nat)
  BY NatLessThanWellFounded, WFMin
<1>2. \A m \in S : ~(m < n)
  BY <1>1 DEF OpToRel
<1> QED BY <1>2

\* Induction: a set with 0 and with n + 1 for each of its n has every natural.
LEMMA SetInduction ==
  ASSUME NEW S, 0 \in S, \A n \in Nat : n \in S => n + 1 \in S
  PROVE  \A n \in Nat : n \in S
<1> SUFFICES ASSUME NEW k \in Nat, k \notin S PROVE FALSE
  OBVIOUS
<1> DEFINE B == {n \in Nat : n \notin S}
<1>1. PICK n \in B : \A m \in B : n <= m
  <2>1. B \in SUBSET Nat /\ B # {}
    OBVIOUS
  <2> HIDE DEF B
  <2> QED BY <2>1, LeastNumber
<1>2. n # 0 /\ n - 1 \in Nat
  OBVIOUS
<1>3. n - 1 \in S
  BY <1>1, <1>2
<1>4. n - 1 + 1 = n
  BY <1>2
<1> QED BY <1>2, <1>3, <1>4

\* f starts with t and goes on by step i at i.
Iterated(f, X, t, step) ==
  /\ f \in [Nat -> X] /\ f[0] = t
  /\ \A i \in Nat \ {0} : f[i] = step[i][f[i - 1]]

\* There is such a function.
LEMMA Iterates ==
  ASSUME NEW X, NEW t \in X, NEW step \in [Nat -> [X -> X]]
  PROVE  \E f : Iterated(f, X, t, step)
<1> DEFINE Run(n) == {g \in [0..n -> X] : g[0] = t /\ \A i \in 1..n : g[i] = step[i][g[i - 1]]}
           some == {n \in Nat : Run(n) # {}}
<1>1. \A n \in Nat : n \in some
  <2>1. 0 \in some
    <3>1. [i \in 0..0 |-> t] \in Run(0)
      OBVIOUS
    <3> QED BY <3>1
  <2>2. ASSUME NEW n \in Nat, n \in some PROVE n + 1 \in some
    <3>1. PICK g : g \in Run(n)
      BY <2>2
    <3> DEFINE h == [i \in 0..(n + 1) |-> IF i = n + 1 THEN step[i][g[n]] ELSE g[i]]
    <3>2. h \in [0..(n + 1) -> X]
      BY <3>1
    <3>3. h[0] = t
      BY <3>1
    <3>4. ASSUME NEW i \in 1..(n + 1) PROVE h[i] = step[i][h[i - 1]]
      <4>1. CASE i = n + 1
        BY <4>1
      <4>2. CASE i \in 1..n
        <5>1. h[i] = g[i] /\ h[i - 1] = g[i - 1]
          BY <4>2
        <5> QED BY <3>1, <4>2, <5>1
      <4> QED BY <4>1, <4>2
    <3>5. h \in Run(n + 1)
      <4> HIDE DEF h
      <4> QED BY <3>2, <3>3, <3>4
    <3>6. n + 1 \in Nat /\ Run(n + 1) # {}
      <4> HIDE DEF h, Run
      <4> QED BY <3>5
    <3> HIDE DEF h, Run
    <3> QED BY <3>6
  <2> HIDE DEF some
  <2> QED BY <2>1, <2>2, SetInduction
<1>2. ASSUME NEW m \in Nat, NEW n \in Nat, m <= n, NEW g \in Run(m), NEW h \in Run(n)
      PROVE  \A i \in 0..m : g[i] = h[i]
  <2> DEFINE same == {i \in Nat : i <= m => g[i] = h[i]}
  <2>1. 0 \in same
    OBVIOUS
  <2>2. ASSUME NEW i \in Nat, i \in same PROVE i + 1 \in same
    <3> SUFFICES ASSUME i + 1 <= m PROVE g[i + 1] = h[i + 1]
      OBVIOUS
    <3>1. i + 1 \in 1..m /\ i + 1 \in 1..n /\ i + 1 - 1 = i
      BY <1>2
    <3>2. g[i + 1] = step[i + 1][g[i]] /\ h[i + 1] = step[i + 1][h[i]]
      BY <3>1
    <3> QED BY <2>2, <3>1, <3>2
  <2>3. \A i \in Nat : i \in same
    <3> HIDE DEF same
    <3> QED BY <2>1, <2>2, SetInduction
  <2> QED BY <2>3
<1> DEFINE run(n) == CHOOSE g : g \in Run(n)
           f == [n \in Nat |-> run(n)[n]]
<1>3. \A n \in Nat : run(n) \in Run(n)
  BY <1>1
<1> HIDE DEF run
<1>4. f \in [Nat -> X]
  BY <1>3
<1>5. f[0] = t
  BY <1>3
<1>6. ASSUME NEW i \in Nat \ {0} PROVE f[i] = step[i][f[i - 1]]
  <2>1. i - 1 \in Nat /\ i - 1 <= i /\ i - 1 \in 0..(i - 1)
    OBVIOUS
  <2>2. run(i - 1)[i - 1] = run(i)[i - 1]
    <3> HIDE DEF Run
    <3> QED BY <1>2, <1>3, <2>1
  <2>3. run(i)[i] = step[i][run(i)[i - 1]]
    BY <1>3
  <2> QED BY <2>1, <2>2, <2>3
<1> HIDE DEF f
<1> QED BY <1>4, <1>5, <1>6 DEF Iterated

=============================================================================
