------------------------------- MODULE Induction -------------------------------
(***************************************************************************)
(* Induction and recursion over the naturals, for sets and functions       *)
(* instead of operators: an instance is a set {n \in Nat : ...} or a       *)
(* function, which the provers can be given.                               *)
(***************************************************************************)
EXTENDS Integers, WellFoundedInduction, TLAPS

(* A set that has a number whenever it has all smaller ones has them all.  *)
LEMMA StrongSetInduction ==
  ASSUME NEW S, \A n \in Nat : (\A m \in Nat : m < n => m \in S) => n \in S
  PROVE  Nat \subseteq S
<1> DEFINE R == OpToRel(<, Nat)
           T == Nat \ S
<1> SUFFICES ASSUME T # {} PROVE FALSE
  OBVIOUS
<1>1. \A x, y \in Nat : x < y => <<x, y>> \in R
  BY DEF OpToRel
<1>2. IsWellFoundedOn(R, Nat)
  BY NatLessThanWellFounded
<1>3. T \subseteq Nat
  OBVIOUS
<1> HIDE DEF R, T
<1>4. PICK x \in T : \A y \in T : ~(<<y, x>> \in R)
  BY <1>2, <1>3, WFMin
<1>5. x \in Nat /\ x \notin S
  BY DEF T
<1>6. \A m \in Nat : m < x => m \in S
  BY <1>1, <1>4, <1>5 DEF T
<1> QED
  BY <1>5, <1>6

LEMMA SetInduction ==
  ASSUME NEW S, 0 \in S, \A n \in Nat : n \in S => n + 1 \in S
  PROVE  Nat \subseteq S
<1>1. ASSUME NEW n \in Nat, \A m \in Nat : m < n => m \in S
      PROVE  n \in S
  <2>1. CASE n = 0
    BY <2>1
  <2>2. CASE n # 0
    <3>1. n - 1 \in Nat /\ n - 1 < n /\ (n - 1) + 1 = n
      BY <2>2
    <3>2. n - 1 \in S
      BY <1>1, <3>1
    <3> QED
      BY <3>1, <3>2
  <2> QED
    BY <2>1, <2>2
<1> QED
  BY <1>1, StrongSetInduction

(* Recursion: a value for every number, from those of the smaller ones.    *)
(* step[n][g] is the value of n if those below n are g's.                  *)
Recursion(N, S, step) ==
  /\ step \in [1 .. N -> [[1 .. N -> S] -> S]]
  /\ \A n \in 1 .. N : \A g, h \in [1 .. N -> S] :
       (\A m \in 1 .. n - 1 : g[m] = h[m]) => step[n][g] = step[n][h]

Solution(N, S, step, f) ==
  /\ f \in [1 .. N -> S]
  /\ \A n \in 1 .. N : f[n] = step[n][f]

LEMMA CourseOfValues ==
  ASSUME NEW N \in Nat, NEW S, NEW v \in S, NEW step, Recursion(N, S, step)
  PROVE  \E f : Solution(N, S, step, f)
<1>0. /\ step \in [1 .. N -> [[1 .. N -> S] -> S]]
      /\ \A n \in 1 .. N : \A g, h \in [1 .. N -> S] :
           (\A m \in 1 .. n - 1 : g[m] = h[m]) => step[n][g] = step[n][h]
  BY DEF Recursion
<1> DEFINE Upto(k) == \E f \in [1 .. N -> S] : \A n \in 1 .. k : f[n] = step[n][f]
           Good == {k \in Nat : k <= N => Upto(k)}
<1>1. Upto(0)
  <2> DEFINE f == [n \in 1 .. N |-> v]
  <2>1. f \in [1 .. N -> S] /\ 1 .. 0 = {}
    OBVIOUS
  <2> QED
    BY <2>1
<1>2. ASSUME NEW k \in Nat, k + 1 <= N, Upto(k) PROVE Upto(k + 1)
  <2>1. PICK g \in [1 .. N -> S] : \A n \in 1 .. k : g[n] = step[n][g]
    BY <1>2
  <2> DEFINE f == [g EXCEPT ![k + 1] = step[k + 1][g]]
  <2>2. k + 1 \in 1 .. N /\ step[k + 1][g] \in S
    BY <1>0, <1>2
  <2>3. f \in [1 .. N -> S]
    BY <2>2
  <2>4. f[k + 1] = step[k + 1][g] /\ \A m \in 1 .. k : f[m] = g[m]
    BY <1>2, <2>2
  <2> HIDE DEF f
  <2>5. ASSUME NEW n \in 1 .. k + 1 PROVE f[n] = step[n][f]
    <3>1. n \in 1 .. N /\ \A m \in 1 .. n - 1 : m \in 1 .. k
      BY <1>2
    <3>2. \A m \in 1 .. n - 1 : g[m] = f[m]
      BY <2>4, <3>1
    <3>3. step[n][g] = step[n][f]
      BY <1>0, <2>1, <2>3, <3>1, <3>2
    <3>4. CASE n = k + 1
      BY <2>4, <3>3, <3>4
    <3>5. CASE n # k + 1
      <4>1. n \in 1 .. k
        BY <3>5
      <4> QED
        BY <2>1, <2>4, <3>3, <4>1
    <3> QED
      BY <3>4, <3>5
  <2> QED
    BY <2>3, <2>5
<1> HIDE DEF Upto
<1>3. 0 \in Good /\ \A k \in Nat : k \in Good => k + 1 \in Good
  <2>1. ASSUME NEW k \in Nat, k \in Good PROVE k + 1 \in Good
    BY <1>2, <2>1
  <2> QED
    BY <1>1, <2>1
<1> HIDE DEF Good
<1>4. N \in Good
  BY <1>3, SetInduction
<1> QED
  BY <1>4 DEF Good, Upto, Solution

(* Iteration: a value for every number, from that of the one before.       *)
Iterates(N, S, v, step, f) ==
  /\ f \in [0 .. N -> S] /\ f[0] = v
  /\ \A n \in 1 .. N : f[n] = step[n][f[n - 1]]

Steps(N, S, step) == step \in [1 .. N -> [S -> S]]

LEMMA Iteration ==
  ASSUME NEW N \in Nat, NEW S, NEW v \in S, NEW step, Steps(N, S, step)
  PROVE  \E f : Iterates(N, S, v, step, f)
<1>0. step \in [1 .. N -> [S -> S]]
  BY DEF Steps
<1> DEFINE all == [n \in 1 .. N + 1 |-> [g \in [1 .. N + 1 -> S] |->
                     IF n = 1 THEN v ELSE step[n - 1][g[n - 1]]]]
<1>1. \A n \in 1 .. N + 1 : \A g \in [1 .. N + 1 -> S] :
         all[n][g] = IF n = 1 THEN v ELSE step[n - 1][g[n - 1]]
  OBVIOUS
<1>2. ASSUME NEW n \in 1 .. N + 1, NEW g \in [1 .. N + 1 -> S]
      PROVE  (IF n = 1 THEN v ELSE step[n - 1][g[n - 1]]) \in S
  <2>1. CASE n = 1
    BY <2>1
  <2>2. CASE n # 1
    <3>1. n - 1 \in 1 .. N /\ n - 1 \in 1 .. N + 1
      BY <2>2
    <3> QED
      BY <1>0, <2>2, <3>1
  <2> QED
    BY <2>1, <2>2
<1>3. all \in [1 .. N + 1 -> [[1 .. N + 1 -> S] -> S]]
  BY <1>2
<1>4. \A n \in 1 .. N + 1 : \A g, h \in [1 .. N + 1 -> S] :
        (\A m \in 1 .. n - 1 : g[m] = h[m]) => all[n][g] = all[n][h]
  BY <1>1
<1> HIDE DEF all
<1>5. PICK g \in [1 .. N + 1 -> S] : \A n \in 1 .. N + 1 : g[n] = all[n][g]
  <2>1. Recursion(N + 1, S, all)
    BY <1>3, <1>4, Zenon DEF Recursion
  <2>2. N + 1 \in Nat
    OBVIOUS
  <2>3. \E g : Solution(N + 1, S, all, g)
    BY <2>1, <2>2, CourseOfValues
  <2> QED
    BY <2>3 DEF Solution
<1> DEFINE it == [n \in 0 .. N |-> g[n + 1]]
<1>6. it \in [0 .. N -> S] /\ it[0] = v
  <2>1. g[1] = v /\ \A n \in 0 .. N : n + 1 \in 1 .. N + 1
    BY <1>1, <1>5
  <2> QED
    BY <2>1
<1>7. ASSUME NEW n \in 1 .. N PROVE it[n] = step[n][it[n - 1]]
  <2>1. n + 1 \in 1 .. N + 1 /\ n + 1 # 1 /\ (n + 1) - 1 = n /\ n - 1 \in 0 .. N /\ (n - 1) + 1 = n
    OBVIOUS
  <2>2. it[n] = g[n + 1] /\ it[n - 1] = g[n]
    BY <2>1
  <2> HIDE DEF it
  <2>3. g[n + 1] = step[n][g[n]]
    BY <1>1, <1>5, <2>1
  <2> QED
    BY <2>2, <2>3
<1> HIDE DEF it
<1> QED
  BY <1>6, <1>7 DEF Iterates
=============================================================================
