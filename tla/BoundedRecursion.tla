-------------------------- MODULE BoundedRecursion --------------------------
(***************************************************************************)
(* Induction and recursion over the natural numbers, stated with sets and  *)
(* set-valued functions instead of operator parameters, so that a proof    *)
(* can instantiate them with the concrete predicate or step it needs.  The *)
(* broadcast budget proofs use them to unfold the recursive functions      *)
(* (prefix sums, the greedy scan of a queue, the filter that drops spent   *)
(* broadcasts) that BroadcastMessages is written with.                     *)
(***************************************************************************)
EXTENDS Naturals, WellFoundedInduction, TLAPS

(* Induction: a set that holds 0 and is closed under successor holds      *)
(* every natural number.                                                   *)
LEMMA SetInduction ==
  ASSUME NEW P, 0 \in P, \A n \in Nat : n \in P => n + 1 \in P
  PROVE  Nat \subseteq P
<1> DEFINE T == Nat \ P
<1> SUFFICES ASSUME T # {} PROVE FALSE
  OBVIOUS
<1>1. \E x \in T : \A y \in T : ~(<<y, x>> \in OpToRel(<, Nat))
  BY NatLessThanWellFounded, WFMin
<1>2. PICK x \in T : \A y \in T : ~(<<y, x>> \in OpToRel(<, Nat))
  BY <1>1
<1>3. x - 1 \in Nat /\ <<x - 1, x>> \in OpToRel(<, Nat)
  BY <1>2 DEF OpToRel
<1>4. x - 1 \in P
  BY <1>2, <1>3 DEF T
<1>5. (x - 1) + 1 \in P
  BY <1>3, <1>4
<1> QED
  BY <1>5 DEF T

(* Induction up to a bound N.                                              *)
LEMMA BoundedInduction ==
  ASSUME NEW N \in Nat, NEW P, 0 \in P,
         \A n \in Nat : n \in P /\ n < N => n + 1 \in P
  PROVE  0 .. N \subseteq P
<1> DEFINE Q == {n \in Nat : n <= N => n \in P}
<1>1. 0 \in Q
  OBVIOUS
<1>2. \A n \in Nat : n \in Q => n + 1 \in Q
  OBVIOUS
<1>3. Nat \subseteq Q
  BY <1>1, <1>2, SetInduction
<1> QED
  BY <1>3

(* f is the function on 0..N that starts at b and takes step G[i] from   *)
(* its value at i - 1 to its value at i.                                   *)
Follows(f, b, N, G) ==
  /\ DOMAIN f = 0 .. N
  /\ f[0] = b
  /\ \A i \in 1 .. N : f[i] = G[i][f[i - 1]]

(* Such a function exists, and it takes its values in any set S that      *)
(* holds b and that every step maps into itself.                           *)
LEMMA RecursionExists ==
  ASSUME NEW S, NEW b \in S, NEW N \in Nat, NEW G \in [1 .. N -> [S -> S]]
  PROVE  \E f \in [0 .. N -> S] : Follows(f, b, N, G)
<1> DEFINE Ok(k, h) == /\ h \in [0 .. k -> S]
                       /\ h[0] = b
                       /\ \A j \in 1 .. k : h[j] = G[j][h[j - 1]]
           P == {k \in Nat : \E h : Ok(k, h)}
<1>1. 0 \in P
  <2> DEFINE f0 == [i \in 0 .. 0 |-> b]
  <2> Ok(0, f0)
    OBVIOUS
  <2> QED
    OBVIOUS
<1>2. \A n \in Nat : n \in P /\ n < N => n + 1 \in P
  <2> SUFFICES ASSUME NEW n \in Nat, n \in P, n < N PROVE n + 1 \in P
    OBVIOUS
  <2>1. PICK f : Ok(n, f)
    OBVIOUS
  <2> DEFINE g == [i \in 0 .. n + 1 |-> IF i <= n THEN f[i] ELSE G[n + 1][f[n]]]
  <2>2. f[n] \in S /\ n + 1 \in 1 .. N
    BY <2>1 DEF Ok
  <2>3. g \in [0 .. n + 1 -> S]
    BY <2>1, <2>2 DEF Ok
  <2>4. ASSUME NEW i \in 1 .. n + 1 PROVE g[i] = G[i][g[i - 1]]
    <3>1. CASE i <= n
      <4>1. g[i] = f[i] /\ g[i - 1] = f[i - 1]
        BY <3>1 DEF g
      <4>2. f[i] = G[i][f[i - 1]]
        BY <2>1, <3>1 DEF Ok
      <4> QED
        BY <4>1, <4>2
    <3>2. CASE i = n + 1
      <4>1. g[i] = G[n + 1][f[n]] /\ g[i - 1] = f[n]
        BY <3>2 DEF g
      <4> QED
        BY <3>2, <4>1
    <3> QED
      BY <3>1, <3>2
  <2>5. g[0] = b
    BY <2>1 DEF Ok
  <2>6. Ok(n + 1, g)
    BY <2>3, <2>4, <2>5 DEF Ok
  <2>7. n + 1 \in Nat
    OBVIOUS
  <2> QED
    BY <2>6, <2>7 DEF P
<1>3. 0 .. N \subseteq P
  BY <1>1, <1>2, BoundedInduction
<1>4. N \in 0 .. N
  OBVIOUS
<1>5. N \in P
  BY <1>3, <1>4, Zenon
<1>6. PICK f : Ok(N, f)
  BY <1>5 DEF P
<1> QED
  BY <1>6 DEF Ok, Follows
=============================================================================
