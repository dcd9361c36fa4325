------------------------------ MODULE Induction ------------------------------
(***************************************************************************)
(* Induction and recursion over the numbers up to a bound, stated about    *)
(* sets and functions, so that a proof can cite them: the library's        *)
(* theorems take the statement to prove as an operator, which no prover    *)
(* here can instantiate.  They rest on the library's minima of             *)
(* well-founded orders.                                                    *)
(***************************************************************************)
EXTENDS Integers, WellFoundedInduction, TLAPS

\* A set of numbers that is not empty has a least element.
LEMMA LeastNumber ==
  ASSUME NEW T \in SUBSET Nat, T # {}
  PROVE  \E m \in T : \A k \in T : m <= k
<1>1. IsWellFoundedOn(OpToRel(<, Nat), Nat)
  BY NatLessThanWellFounded
<1>2. PICK m \in T : \A y \in T : ~ (<< y, m >> \in OpToRel(<, Nat))
  BY <1>1, WFMin
<1>3. \A x, y \in Nat : << y, x >> \in OpToRel(<, Nat) <=> y < x
  BY DEF OpToRel
<1>4. ASSUME NEW k \in T  PROVE m <= k
  <2>1. ~ (k < m)
    BY <1>2, <1>3, Zenon
  <2>2. k \in Nat /\ m \in Nat
    OBVIOUS
  <2>3. QED  BY ONLY <2>1, <2>2
<1>5. QED  BY <1>4

\* Induction up to a bound: what holds at 0 and is passed on below n holds up to n.
LEMMA BoundedInduction ==
  ASSUME NEW n \in Nat, NEW S, 0 \in S, \A i \in 1..n : i - 1 \in S => i \in S
  PROVE  \A i \in 0..n : i \in S
<1> DEFINE T == { i \in 0..n : i \notin S }
<1>1. SUFFICES ASSUME T # {}  PROVE FALSE
  OBVIOUS
<1>2. T \in SUBSET Nat
  OBVIOUS
<1>3. PICK m \in T : \A k \in T : m <= k
  <2> HIDE DEF T
  <2>1. QED  BY <1>1, <1>2, LeastNumber
<1>4. m \in 1..n /\ m - 1 \in 0..n /\ ~(m <= m - 1)
  BY <1>3
<1>5. m - 1 \in S
  BY <1>3, <1>4
<1>6. QED  BY <1>3, <1>4, <1>5

\* A function f of 0..n starts with base and goes on by step.
GoesOnBy(f, n, base, step) == f[0] = base /\ \A i \in 1..n : f[i] = step[<< i, f[i - 1] >>]

Solvable(n, S, base, step) == \E f \in [0..n -> S] : GoesOnBy(f, n, base, step)

\* A recursion over 0..n has a solution.
LEMMA Recursion ==
  ASSUME NEW n \in Nat, NEW S, NEW base \in S, NEW step \in [(1..n) \X S -> S]
  PROVE  Solvable(n, S, base, step)
<1> DEFINE Solves(f, m) == /\ f \in [0..m -> S] /\ f[0] = base
                           /\ \A i \in 1..m : f[i] = step[<< i, f[i - 1] >>]
           T == { m \in 0..n : \E f \in [0..m -> S] : Solves(f, m) }
<1>1. 0 \in T
  <2> DEFINE f == [i \in 0..0 |-> base]
  <2>1. f \in [0..0 -> S] /\ f[0] = base
    OBVIOUS
  <2>2. Solves(f, 0)
    BY <2>1
  <2> HIDE DEF f, Solves
  <2>3. QED  BY <2>1, <2>2
<1>2. ASSUME NEW m \in 1..n, m - 1 \in T  PROVE m \in T
  <2>1. PICK f \in [0..(m - 1) -> S] : Solves(f, m - 1)
    BY <1>2
  <2> DEFINE g == [i \in 0..m |-> IF i = m THEN step[<< m, f[m - 1] >>] ELSE f[i]]
  <2>2. m - 1 \in 0..(m - 1) /\ m \in Nat /\ 0 # m /\ 0 \in 0..m
    OBVIOUS
  <2>3. step[<< m, f[m - 1] >>] \in S
    BY <2>1, <2>2
  <2>4. \A i \in 0..m : i # m => i \in 0..(m - 1)
    OBVIOUS
  <2>5. g \in [0..m -> S]
    BY <2>1, <2>3, <2>4
  <2>6. g[0] = base
    BY <2>1, <2>2
  <2>7. ASSUME NEW i \in 1..m  PROVE g[i] = step[<< i, g[i - 1] >>]
    <3>1. i \in 0..m /\ i - 1 \in 0..m /\ i - 1 # m /\ i - 1 \in 0..(m - 1)
      OBVIOUS
    <3>2. g[i - 1] = f[i - 1]
      BY <3>1
    <3>3. CASE i = m
      BY <3>1, <3>2, <3>3
    <3>4. CASE i # m
      <4>1. i \in 1..(m - 1) /\ g[i] = f[i]
        BY <3>1, <3>4
      <4>2. QED  BY <2>1, <3>2, <4>1
    <3>5. QED  BY <3>3, <3>4
  <2>8. Solves(g, m)
    BY <2>5, <2>6, <2>7
  <2> HIDE DEF g, Solves
  <2>9. m \in 0..n
    OBVIOUS
  <2>10. g \in [0..m -> S]
    BY <2>8 DEF Solves
  <2>11. QED  BY <2>8, <2>9, <2>10
<1>3. n \in T
  <2> HIDE DEF T
  <2>1. \A i \in 0..n : i \in T
    BY <1>1, <1>2, BoundedInduction
  <2>2. QED  BY <2>1
<1>4. PICK f \in [0..n -> S] : Solves(f, n)
  BY <1>3
<1>5. QED  BY <1>4 DEF Solvable, GoesOnBy
=============================================================================
