------------------------------ MODULE Recursion ------------------------------
(***************************************************************************)
(* Induction over the numbers up to a bound, and functions defined by      *)
(* recursion over them, for the proofs about the operators of the models   *)
(* that go along a sequence or a program.                                  *)
(***************************************************************************)
EXTENDS Naturals, TLAPS, WellFoundedInduction

\* Every set of numbers that is not empty has a least one.
LEMMA LeastNumber ==
    ASSUME NEW S, S \subseteq Nat, S # {}
    PROVE  \E n \in S : \A k \in S : n <= k
<1> DEFINE R == {ss \in Nat \X Nat : ss[1] < ss[2]}
<1>1. R = OpToRel(<, Nat)
  BY Zenon DEF OpToRel
<1>2. IsWellFoundedOn(R, Nat)
  BY <1>1, NatLessThanWellFounded, Zenon
<1>3. PICK n \in S : \A k \in S : ~ (<<k, n>> \in R)
  <2> HIDE DEF R
  <2> QED BY <1>2, WFMin
<1>4. \A k \in S : n <= k
  <2> TAKE k \in S
  <2>1. n \in Nat /\ k \in Nat
    OBVIOUS
  <2>2. ~ (k < n)
    BY <1>3, <2>1
  <2> QED
    BY <2>1, <2>2
<1> QED
  BY <1>4

\* What holds of 0, and of the next number if of a number, holds up to n.
LEMMA Induction ==
    ASSUME NEW n \in Nat, NEW S, 0 \in S, \A i \in 1..n : i - 1 \in S => i \in S
    PROVE  \A i \in 0..n : i \in S
<1> DEFINE Wrong == {i \in 0..n : i \notin S}
<1> SUFFICES ASSUME Wrong # {} PROVE FALSE
  OBVIOUS
<1>1. PICK k \in Wrong : \A i \in Wrong : k <= i
  <2>1. Wrong \subseteq Nat
    OBVIOUS
  <2> HIDE DEF Wrong
  <2> QED BY <2>1, LeastNumber
<1>2. k \in 1..n /\ k - 1 \in 0..n /\ ~ (k <= k - 1)
  BY <1>1
<1>3. k - 1 \in S
  BY <1>1, <1>2
<1> QED
  BY <1>1, <1>2, <1>3

\* f has a at 0, and goes from one number to the next by a step.
GoesBy(f, n, a, step) == f[0] = a /\ \A i \in 1..n : f[i] = step[i][f[i - 1]]

\* There is such a function.
LEMMA FunctionExists ==
    ASSUME NEW n \in Nat, NEW S, NEW a \in S, NEW step \in [1..n -> [S -> S]]
    PROVE  \E f \in [0..n -> S] : GoesBy(f, n, a, step)
<1> DEFINE Possible == {m \in 0..n : \E f \in [0..m -> S] : GoesBy(f, m, a, step)}
<1>1. 0 \in Possible
  <2> DEFINE f == [i \in 0..0 |-> a]
  <2>1. f \in [0..0 -> S] /\ GoesBy(f, 0, a, step) /\ 0 \in 0..n
    BY DEF GoesBy
  <2> HIDE DEF f
  <2> QED
    BY <2>1
<1>2. \A m \in 1..n : m - 1 \in Possible => m \in Possible
  <2> SUFFICES ASSUME NEW m \in 1..n, m - 1 \in Possible PROVE m \in Possible
    OBVIOUS
  <2>1. PICK f \in [0..m - 1 -> S] : GoesBy(f, m - 1, a, step)
    OBVIOUS
  <2> DEFINE g == [i \in 0..m |-> IF i = m THEN step[m][f[m - 1]] ELSE f[i]]
  <2>2. /\ m \in Nat /\ m # 0 /\ m - 1 \in 0..m - 1 /\ m \in 0..n
        /\ \A i \in 0..m : i # m => i \in 0..m - 1
        /\ \A i \in 1..m : i - 1 \in 0..m - 1 /\ i - 1 \in 0..m /\ i - 1 # m
        /\ \A i \in 1..m : i # m => i \in 1..m - 1
    OBVIOUS
  <2>3. g \in [0..m -> S]
    BY <2>2
  <2>4. g[0] = a
    BY <2>1, <2>2 DEF GoesBy
  <2>5. \A i \in 1..m : g[i] = step[i][g[i - 1]]
    BY <2>1, <2>2 DEF GoesBy
  <2>6. GoesBy(g, m, a, step)
    BY <2>4, <2>5 DEF GoesBy
  <2> HIDE DEF g
  <2> QED
    BY <2>2, <2>3, <2>6
<1>3. \A i \in 0..n : i \in Possible
  <2> HIDE DEF Possible
  <2> QED BY <1>1, <1>2, Induction
<1>4. n \in 0..n
  OBVIOUS
<1> QED
  BY <1>3, <1>4
----------------------------------------------------------------------------
(* Products of sizes, as the models compute them. *)

IsProduct(p, n, size) == p = [i \in 0..n |-> IF i = 0 THEN 1 ELSE p[i - 1] * size[i]]

LEMMA ProductExists ==
    ASSUME NEW n \in Nat, NEW size \in [1..n -> Nat]
    PROVE  \E p : IsProduct(p, n, size)
<1> DEFINE step == [i \in 1..n |-> [x \in Nat |-> x * size[i]]]
<1>1. step \in [1..n -> [Nat -> Nat]]
  OBVIOUS
<1>2. PICK p \in [0..n -> Nat] : GoesBy(p, n, 1, step)
  <2> HIDE DEF step
  <2> QED BY <1>1, FunctionExists
<1>3. \A i \in 0..n : p[i] = IF i = 0 THEN 1 ELSE p[i - 1] * size[i]
  <2> TAKE i \in 0..n
  <2>1. CASE i = 0
    BY <1>2, <2>1 DEF GoesBy
  <2>2. CASE i # 0
    <3>1. i \in 1..n /\ p[i - 1] \in Nat
      BY <2>2
    <3>2. p[i] = step[i][p[i - 1]]
      BY <1>2, <3>1 DEF GoesBy
    <3> QED
      BY <2>2, <3>1, <3>2
  <2> QED
    BY <2>1, <2>2
<1>4. IsProduct(p, n, size)
  BY <1>3 DEF IsProduct
<1> QED
  BY <1>4

LEMMA ProductType ==
    ASSUME NEW n \in Nat, NEW size \in [1..n -> Nat], NEW p, IsProduct(p, n, size)
    PROVE  /\ p[0] = 1 /\ \A i \in 1..n : p[i] = p[i - 1] * size[i]
           /\ \A i \in 0..n : p[i] \in Nat
<1> DEFINE Right == {i \in 0..n : p[i] \in Nat}
<1>1. p[0] = 1 /\ \A i \in 1..n : p[i] = p[i - 1] * size[i]
  BY DEF IsProduct
<1>2. 0 \in Right
  BY <1>1
<1>3. \A i \in 1..n : i - 1 \in Right => i \in Right
  BY <1>1
<1>4. \A i \in 0..n : i \in Right
  <2> HIDE DEF Right
  <2> QED BY <1>2, <1>3, Induction
<1> QED
  BY <1>1, <1>4
=============================================================================
