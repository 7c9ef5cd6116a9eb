---------------------------- MODULE SetInduction ----------------------------
(***************************************************************************)
(* Induction over the natural numbers, stated about sets of numbers, and   *)
(* what follows from it for finite functions and for sums.                 *)
(***************************************************************************)
EXTENDS Integers, WellFoundedInduction, TLAPS

Less == {p \in Nat \X Nat : p[1] < p[2]}

LEMMA LessIsWellFounded == IsWellFoundedOn(Less, Nat)
<1>1. OpToRel(<, Nat) = Less
  BY DEF OpToRel, Less
<1> QED BY <1>1, NatLessThanWellFounded

(* A set of numbers that is not empty has a least one.                      *)
THEOREM LeastNumber ==
    ASSUME NEW T \in SUBSET Nat, T # {}
    PROVE  \E m \in T : \A n \in T : m <= n
<1>1. PICK m \in T : \A n \in T : ~(<<n, m>> \in Less)
  BY ONLY LessIsWellFounded, WFMin, T \subseteq Nat, T # {}
<1>2. \A n \in T : n \in Nat /\ m \in Nat
  OBVIOUS
<1>3. \A n \in T : ~(n < m)
  BY <1>1, <1>2 DEF Less
<1> QED BY <1>2, <1>3

(* A set that holds 0 and with every number the next holds them all.        *)
THEOREM NumbersByInduction ==
    ASSUME NEW S, 0 \in S, \A n \in Nat : n \in S => n + 1 \in S
    PROVE  Nat \subseteq S
<1> SUFFICES ASSUME Nat \ S # {} PROVE FALSE
  OBVIOUS
<1>1. PICK m \in Nat \ S : \A n \in Nat \ S : m <= n
  BY LeastNumber
<1>2. m # 0 /\ m - 1 \in Nat
  BY <1>1
<1>3. m - 1 \in S
  BY <1>1, <1>2
<1> QED BY <1>1, <1>2, <1>3

-----------------------------------------------------------------------------
(* g adds up the first n numbers of f; it is their running total if it is   *)
(* a function to the naturals as well.                                      *)
AddsUp(g, f, n) == g[0] = 0 /\ \A i \in 1 .. n : g[i] = g[i - 1] + f[i]
IsRunningTotal(g, f, n) == g \in [0 .. n -> Nat] /\ AddsUp(g, f, n)

LEMMA RunningTotalExists ==
    ASSUME NEW n \in Nat, NEW f, \A i \in 1 .. n : f[i] \in Nat
    PROVE  \E g : IsRunningTotal(g, f, n)
<1> DEFINE S == {k \in Nat : k <= n => \E g : IsRunningTotal(g, f, k)}
<1>1. 0 \in S
  <2>1. IsRunningTotal([i \in 0 .. 0 |-> 0], f, 0)
    BY DEF IsRunningTotal, AddsUp
  <2> QED BY <2>1
<1>2. ASSUME NEW k \in Nat, k \in S PROVE k + 1 \in S
  <2> SUFFICES ASSUME k + 1 <= n PROVE \E g : IsRunningTotal(g, f, k + 1)
    OBVIOUS
  <2>1. PICK g : IsRunningTotal(g, f, k)
    BY <1>2
  <2> DEFINE h == [i \in 0 .. k + 1 |-> IF i = k + 1 THEN g[k] + f[k + 1] ELSE g[i]]
  <2>2. /\ g \in [0 .. k -> Nat] /\ g[0] = 0 /\ f[k + 1] \in Nat
        /\ \A i \in 1 .. k : g[i] = g[i - 1] + f[i]
    BY <2>1 DEF IsRunningTotal, AddsUp
  <2>3. h \in [0 .. k + 1 -> Nat] /\ h[0] = 0
    BY <2>2
  <2>4. ASSUME NEW i \in 1 .. k + 1 PROVE h[i] = h[i - 1] + f[i]
    <3>1. i - 1 \in 0 .. k + 1 /\ i - 1 # k + 1 /\ i \in 0 .. k + 1
      OBVIOUS
    <3>2. h[i - 1] = g[i - 1]
      BY <3>1
    <3>3. CASE i = k + 1
      BY <3>1, <3>2, <3>3
    <3>4. CASE i \in 1 .. k
      BY <2>2, <3>1, <3>2, <3>4
    <3> QED BY <3>3, <3>4
  <2> HIDE DEF h
  <2>5. IsRunningTotal(h, f, k + 1)
    BY <2>3, <2>4 DEF IsRunningTotal, AddsUp
  <2> QED BY <2>5
<1> HIDE DEF S
<1>3. n \in S
  BY <1>1, <1>2, NumbersByInduction
<1> QED BY <1>3 DEF S

\* Where two lists agree, what they add up to agrees.
LEMMA RunningTotalsAgree ==
    ASSUME NEW m \in Nat, NEW n \in Nat, NEW k \in Nat, k <= m, k <= n,
           NEW f, NEW e, \A i \in 1 .. k : f[i] = e[i],
           NEW g, NEW h, AddsUp(g, f, m), AddsUp(h, e, n)
    PROVE  g[k] = h[k]
<1> DEFINE S == {j \in Nat : j <= k => g[j] = h[j]}
<1>1. 0 \in S
  BY DEF AddsUp
<1>2. ASSUME NEW j \in Nat, j \in S PROVE j + 1 \in S
  <2> SUFFICES ASSUME j + 1 <= k PROVE g[j + 1] = h[j + 1]
    OBVIOUS
  <2>1. g[j] = h[j] /\ j + 1 \in 1 .. m /\ j + 1 \in 1 .. n /\ f[j + 1] = e[j + 1]
    BY <1>2
  <2> QED BY <2>1 DEF AddsUp
<1> HIDE DEF S
<1>3. k \in S
  BY <1>1, <1>2, NumbersByInduction
<1> QED BY <1>3 DEF S

\* A running total of natural numbers never falls.
LEMMA RunningTotalGrows ==
    ASSUME NEW n \in Nat, NEW f, \A i \in 1 .. n : f[i] \in Nat,
           NEW g, IsRunningTotal(g, f, n), NEW k \in 0 .. n
    PROVE  g[k] <= g[n]
<1> DEFINE S == {j \in Nat : k + j <= n => g[k] <= g[k + j]}
<1>0. \A i \in 0 .. n : g[i] \in Nat
  BY DEF IsRunningTotal, AddsUp
<1>1. 0 \in S
  BY <1>0
<1>2. ASSUME NEW j \in Nat, j \in S PROVE j + 1 \in S
  <2> SUFFICES ASSUME k + (j + 1) <= n PROVE g[k] <= g[k + (j + 1)]
    OBVIOUS
  <2> DEFINE i == k + (j + 1)
  <2>1. i \in 1 .. n /\ i - 1 = k + j
    OBVIOUS
  <2>2. g[i] = g[i - 1] + f[i] /\ f[i] \in Nat
    BY <2>1 DEF IsRunningTotal, AddsUp
  <2>3. g[k] <= g[k + j] /\ g[k] \in Nat /\ g[k + j] \in Nat
    BY <1>0, <1>2, <2>1
  <2> QED BY <2>1, <2>2, <2>3
<1> HIDE DEF S
<1>3. n - k \in S
  BY <1>1, <1>2, NumbersByInduction
<1> QED BY <1>3 DEF S
=============================================================================
