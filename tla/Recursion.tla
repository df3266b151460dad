----------------------------- MODULE Recursion ------------------------------
(***************************************************************************)
(* What a function defined by recursion over Nat is, for a recursion with  *)
(* two fixed arguments: run[0] is the base, run[n] a step from run[n - 1]. *)
(* A module instantiates this one with its step to reason about such a     *)
(* definition; the induction is by sets of numbers, so that it can be      *)
(* cited as it is.                                                         *)
(***************************************************************************)
EXTENDS Naturals, WellFoundedInduction, TLAPS

CONSTANT step(_, _, _, _)  \* step(c, d, x, n): from x = run[n - 1] to run[n]

\* A set of numbers with 0 in it, closed under successor, has every number.
LEMMA SetInduction ==
    ASSUME NEW T, 0 \in T, \A n \in Nat : n \in T => n + 1 \in T
    PROVE  \A n \in Nat : n \in T
<1> DEFINE S == {n \in Nat : n \notin T}
           R == OpToRel(<, Nat)
<1>1. SUFFICES ASSUME S # {} PROVE FALSE
    OBVIOUS
<1>2. IsWellFoundedOn(R, Nat)
    BY NatLessThanWellFounded, Zenon
<1>3. S \subseteq Nat
    OBVIOUS
<1> HIDE DEF R, S
<1>4. PICK x \in S : \A y \in S : ~(<<y, x>> \in R)
    BY <1>1, <1>2, <1>3, WFMin
<1>5. x \in Nat /\ x # 0 /\ x - 1 \in Nat /\ x - 1 < x
    BY DEF S
<1>6. <<x - 1, x>> \in R
    BY <1>5 DEF R, OpToRel
<1>7. x - 1 \in T
    BY <1>4, <1>5, <1>6 DEF S
<1> QED
    BY <1>5, <1>7 DEF S

\* The values up to n.
Upto(c, d, base, g, n) ==
    g = [i \in 0..n |-> IF i = 0 THEN base ELSE step(c, d, g[i - 1], i)]

LEMMA UptoExists ==
    ASSUME NEW c, NEW d, NEW base
    PROVE  \A n \in Nat : \E g : Upto(c, d, base, g, n)
<1> DEFINE T == {n \in Nat : \E g : Upto(c, d, base, g, n)}
<1>1. 0 \in T
  <2> DEFINE g == [i \in 0..0 |-> base]
  <2>1. \A i \in 0..0 : i = 0
    OBVIOUS
  <2>2. g = [i \in 0..0 |-> IF i = 0 THEN base ELSE step(c, d, g[i - 1], i)]
    BY <2>1
  <2>3. Upto(c, d, base, g, 0)
    BY <2>2 DEF Upto
  <2> QED BY <2>3
<1>2. ASSUME NEW n \in Nat, n \in T PROVE n + 1 \in T
  <2>1. PICK g : Upto(c, d, base, g, n)
    BY <1>2
  <2> DEFINE h == [i \in 0..(n + 1) |-> IF i \in 0..n THEN g[i] ELSE step(c, d, g[n], n + 1)]
             e == [i \in 0..(n + 1) |-> IF i = 0 THEN base ELSE step(c, d, h[i - 1], i)]
  <2>2. ASSUME NEW i \in 0..(n + 1)
        PROVE  h[i] = IF i = 0 THEN base ELSE step(c, d, h[i - 1], i)
    <3>1. CASE i = 0
      BY <3>1, <2>1 DEF Upto
    <3>2. CASE i # 0 /\ i \in 0..n
      <4>1. i - 1 \in 0..n /\ i - 1 \in 0..(n + 1)
        BY <3>2
      <4>2. h[i - 1] = g[i - 1]
        BY <4>1
      <4>3. g[i] = step(c, d, g[i - 1], i)
        BY <3>2, <2>1 DEF Upto
      <4> QED BY <4>2, <4>3, <3>2
    <3>3. CASE i \notin 0..n
      <4>1. i = n + 1 /\ n \in 0..n /\ n \in 0..(n + 1) /\ i - 1 = n
        BY <3>3
      <4>2. h[i - 1] = g[n]
        BY <4>1
      <4> QED BY <4>1, <4>2, <3>3
    <3> QED BY <3>1, <3>2, <3>3
  <2>3. h = e
    BY <2>2
  <2>4. Upto(c, d, base, h, n + 1)
    BY <2>3 DEF Upto
  <2> QED BY <2>4
<1> QED
  <2> HIDE DEF T
  <2>1. \A n \in Nat : n \in T
    BY <1>1, <1>2, SetInduction
  <2> QED BY <2>1 DEF T

LEMMA UptoAgree ==
    ASSUME NEW c, NEW d, NEW base, NEW m \in Nat, NEW n \in Nat, NEW g, NEW h,
           Upto(c, d, base, g, m), Upto(c, d, base, h, n), m <= n
    PROVE  \A i \in 0..m : g[i] = h[i]
<1> DEFINE T == {i \in Nat : i <= m => g[i] = h[i]}
<1>1. 0 \in T
    BY DEF Upto
<1>2. ASSUME NEW i \in Nat, i \in T PROVE i + 1 \in T
  <2> SUFFICES ASSUME i + 1 <= m PROVE g[i + 1] = h[i + 1]
    OBVIOUS
  <2>1. i + 1 \in 0..m /\ i + 1 \in 0..n /\ i + 1 # 0 /\ (i + 1) - 1 = i
    OBVIOUS
  <2>2. g[i + 1] = step(c, d, g[i], i + 1) /\ h[i + 1] = step(c, d, h[i], i + 1)
    BY <2>1 DEF Upto
  <2> QED BY <2>2, <1>2
<1> HIDE DEF T
<1>3. \A i \in Nat : i \in T
    BY <1>1, <1>2, SetInduction
<1> QED BY <1>3 DEF T

IsRun(c, d, base, run) ==
    run = [n \in Nat |-> IF n = 0 THEN base ELSE step(c, d, run[n - 1], n)]

\* A recursion over Nat has a solution, so that the function CHOOSE picks for
\* the definition run[n \in Nat] == ... has the values the recursion states.
\* It is how a loop of the code over a list (a path's components, a layer's
\* entries, a queue of commands) becomes a fact a proof can use.
THEOREM RunExists ==
    ASSUME NEW c, NEW d, NEW base
    PROVE  \E run : IsRun(c, d, base, run)
<1> DEFINE G(n) == CHOOSE g : Upto(c, d, base, g, n)
           f == [n \in Nat |-> G(n)[n]]
<1>1. \A n \in Nat : Upto(c, d, base, G(n), n)
    BY UptoExists
<1> HIDE DEF G
<1>2. ASSUME NEW n \in Nat, n # 0 PROVE f[n] = step(c, d, f[n - 1], n)
  <2>1. n \in 0..n /\ n - 1 \in Nat /\ n - 1 \in 0..(n - 1) /\ n - 1 <= n
    BY <1>2
  <2>2. G(n)[n] = step(c, d, G(n)[n - 1], n)
    BY <1>1, <2>1, <1>2 DEF Upto
  <2>3. G(n - 1)[n - 1] = G(n)[n - 1]
    BY <1>1, <2>1, UptoAgree
  <2> QED BY <2>2, <2>3, <2>1
<1>3. f[0] = base
    BY <1>1 DEF Upto
<1>4. f = [n \in Nat |-> IF n = 0 THEN base ELSE step(c, d, f[n - 1], n)]
    BY <1>2, <1>3
<1> HIDE DEF f
<1> QED BY <1>4 DEF IsRun
=============================================================================
