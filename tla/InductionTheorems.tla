------------------------- MODULE InductionTheorems --------------------------
(***************************************************************************)
(* Induction and recursion for sets and functions in place of predicates   *)
(* and operators.  The models define functions by recursion (the loops of  *)
(* the code they model): Recursion says that such a definition has a       *)
(* solution, Induction what every value of it has.                         *)
(***************************************************************************)
EXTENDS Integers, WellFoundedInduction, TLAPS

\* The natural numbers are well founded under <.
LEMMA LessWF == IsWellFoundedOn({p \in Nat \X Nat : p[1] < p[2]}, Nat)
<1>1. OpToRel(<, Nat) = {p \in Nat \X Nat : p[1] < p[2]}
  BY DEF OpToRel
<1> QED BY <1>1, NatLessThanWellFounded

\* Induction over the natural numbers, for a set in place of a predicate.
LEMMA NatInd ==
  ASSUME NEW T, 0 \in T, \A n \in Nat : n \in T => n + 1 \in T
  PROVE Nat \subseteq T
<1> DEFINE R == {p \in Nat \X Nat : p[1] < p[2]}
           B == Nat \ T
<1>1. IsWellFoundedOn(R, Nat) BY LessWF
<1>2. SUFFICES ASSUME B # {} PROVE FALSE OBVIOUS
<1>3. B \subseteq Nat OBVIOUS
<1>4. \E x \in B : \A y \in B : ~(<<y, x>> \in R)
  <2> HIDE DEF R, B
  <2> QED BY <1>1, <1>2, <1>3, WFMin
<1>5. PICK x \in B : \A y \in B : ~(<<y, x>> \in R) BY <1>4
<1>6. x # 0 OBVIOUS
<1>7. x - 1 \in Nat /\ x - 1 \notin T => <<x-1,x>> \in R /\ x - 1 \in B BY <1>6
<1> QED BY <1>5, <1>6, <1>7

\* Induction over the size of an element.
Inductive(P, S, size) ==
  \A s \in S : (\A r \in S : size[r] < size[s] => r \in P) => s \in P

\* What holds of an element when it holds of all smaller ones holds of all.
LEMMA Induction ==
  \A P, S, size : size \in [S -> Nat] /\ Inductive(P, S, size) => S \subseteq P
<1> SUFFICES ASSUME NEW P, NEW S, NEW size, size \in [S -> Nat], Inductive(P, S, size)
             PROVE  S \subseteq P
  OBVIOUS
<1>1. \A s \in S : size[s] \in Nat  OBVIOUS
<1> DEFINE A == {n \in Nat : \A s \in S : size[s] < n => s \in P}
<1>2. Nat \subseteq A
  <2>1. 0 \in A  BY <1>1
  <2>2. ASSUME NEW n \in Nat, n \in A PROVE n + 1 \in A
    <3>1. ASSUME NEW s \in S, size[s] < n + 1 PROVE s \in P
      <4>1. \A r \in S : size[r] < size[s] => r \in P  BY <1>1, <2>2, <3>1
      <4> QED BY <4>1 DEF Inductive
    <3> QED BY <3>1
  <2> HIDE DEF A
  <2> QED BY <2>1, <2>2, NatInd
<1>3. ASSUME NEW s \in S PROVE s \in P
  <2>1. size[s] + 1 \in A /\ size[s] < size[s] + 1  BY <1>1, <1>2
  <2> QED BY <2>1
<1> QED BY <1>3

\* The iterates of a function exist.
Iterates(V) ==
  \A c \in V : \A T \in [V -> V] :
     \E h \in [Nat -> V] : h[0] = c /\ \A n \in Nat : h[n + 1] = T[h[n]]

\* Every function from a set to itself can be iterated.
LEMMA Iteration == \A V : Iterates(V)
<1> SUFFICES ASSUME NEW V, NEW c \in V, NEW T \in [V -> V]
             PROVE  \E h \in [Nat -> V] : h[0] = c /\ \A n \in Nat : h[n + 1] = T[h[n]]
  BY DEF Iterates
<1> DEFINE Upto(n) == {h \in [0..n -> V] : /\ h[0] = c
                                           /\ \A k \in 0..(n - 1) : h[k + 1] = T[h[k]]}
           G == {n \in Nat : Upto(n) # {}}
           U == {k \in Nat : \A m, n \in Nat : k <= m /\ k <= n =>
                               \A g \in Upto(m), h \in Upto(n) : g[k] = h[k]}
<1>1. Nat \subseteq G
  <2>1. 0 \in G
    <3>1. [k \in 0..0 |-> c] \in Upto(0)  OBVIOUS
    <3> QED BY <3>1
  <2>2. ASSUME NEW n \in Nat, n \in G PROVE n + 1 \in G
    <3>1. PICK h \in Upto(n) : TRUE  BY <2>2
    <3> DEFINE g == [k \in 0..(n + 1) |-> IF k <= n THEN h[k] ELSE T[h[n]]]
    <3>2. g \in Upto(n + 1)  BY <3>1
    <3> QED BY <3>2
  <2> HIDE DEF G
  <2> QED BY <2>1, <2>2, NatInd
<1>2. Nat \subseteq U
  <2>1. 0 \in U  OBVIOUS
  <2>2. ASSUME NEW k \in Nat, k \in U PROVE k + 1 \in U
    <3>1. SUFFICES ASSUME NEW m \in Nat, NEW n \in Nat, k + 1 <= m, k + 1 <= n,
                          NEW g \in Upto(m), NEW h \in Upto(n)
                   PROVE  g[k + 1] = h[k + 1]
      OBVIOUS
    <3>2. k \in Nat /\ k <= m /\ k <= n  BY <3>1
    <3>3. g[k] = h[k]
      <4> HIDE DEF Upto
      <4> QED BY <2>2, <3>1, <3>2
    <3>4. k \in 0..(m - 1) /\ k \in 0..(n - 1)  BY <3>1
    <3> QED BY <3>3, <3>4
  <2> HIDE DEF U
  <2> QED BY <2>1, <2>2, NatInd
<1> DEFINE f == [n \in Nat |-> CHOOSE h : h \in Upto(n)]
           r == [n \in Nat |-> f[n][n]]
<1>3. ASSUME NEW n \in Nat
      PROVE  /\ f[n] \in Upto(n)
             /\ f[n] \in [0..n -> V] /\ f[n][0] = c
             /\ \A k \in 0..(n - 1) : f[n][k + 1] = T[f[n][k]]
  <2>1. n \in G  BY <1>1
  <2>2. f[n] \in Upto(n)  BY <2>1
  <2> QED BY <2>2
<1>4. \A k \in Nat : \A m, n \in Nat : k <= m /\ k <= n =>
                               \A g \in Upto(m), h \in Upto(n) : g[k] = h[k]
  BY <1>2
<1> HIDE DEF f, Upto
<1>5. r \in [Nat -> V] /\ r[0] = c  BY <1>3
<1>6. ASSUME NEW n \in Nat PROVE r[n + 1] = T[r[n]]
  <2>1. f[n + 1][n] = f[n][n]
    <3>1. f[n] \in Upto(n) /\ f[n + 1] \in Upto(n + 1)  BY <1>3
    <3>2. n \in Nat /\ n + 1 \in Nat /\ n <= n /\ n <= n + 1  OBVIOUS
    <3> QED BY <3>1, <3>2, <1>4
  <2>2. n + 1 \in Nat /\ n \in 0..((n + 1) - 1)  OBVIOUS
  <2>3. f[n + 1][n + 1] = T[f[n + 1][n]]  BY <1>3, <2>2
  <2> QED BY <2>1, <2>2, <2>3
<1> QED BY <1>5, <1>6

\* T is the body of a definition of a function from S to V by recursion: the
\* value at an element depends on the values at smaller ones.
Recursive(S, V, size, T) ==
  /\ V # {} /\ size \in [S -> Nat]
  /\ T \in [[S -> V] -> [S -> V]]
  /\ \A f, g \in [S -> V] : \A s \in S :
       (\A r \in S : size[r] < size[s] => f[r] = g[r]) => T[f][s] = T[g][s]

Solvable(S, V, T) == \E f \in [S -> V] : f = T[f]

\* A recursive definition has a solution.
LEMMA Recursion == \A S, V, size, T : Recursive(S, V, size, T) => Solvable(S, V, T)
<1> TAKE S, V, size, T
<1> HAVE Recursive(S, V, size, T)
<1>T. V # {} /\ size \in [S -> Nat] /\ T \in [[S -> V] -> [S -> V]]
  BY DEF Recursive
<1>0. \A f, g \in [S -> V] : \A s \in S :
        (\A r \in S : size[r] < size[s] => f[r] = g[r]) => T[f][s] = T[g][s]
  BY DEF Recursive
<1>1. PICK c \in [S -> V] : TRUE
  <2>1. PICK v \in V : TRUE BY <1>T
  <2>2. [s \in S |-> v] \in [S -> V] OBVIOUS
  <2> QED BY <2>2
<1>2. PICK h \in [Nat -> [S -> V]] : h[0] = c /\ \A n \in Nat : h[n + 1] = T[h[n]]
  <2>1. PICK F : F = [S -> V]  OBVIOUS
  <2>2. c \in F /\ T \in [F -> F]  BY <1>T, <2>1
  <2>a. Iterates(F)  BY Iteration
  <2>3. \E h \in [Nat -> F] : h[0] = c /\ \A n \in Nat : h[n + 1] = T[h[n]]
    BY <2>2, <2>a DEF Iterates
  <2> QED BY <2>1, <2>3
<1>t. \A s \in S : size[s] \in Nat  BY <1>T
<1> DEFINE A == {n \in Nat : \A s \in S : size[s] < n => h[n + 1][s] = h[n][s]}
<1>3. Nat \subseteq A
  <2>1. 0 \in A  BY <1>t
  <2>2. ASSUME NEW n \in Nat, n \in A PROVE n + 1 \in A
    <3>1. ASSUME NEW s \in S, size[s] < n + 1 PROVE h[n + 2][s] = h[n + 1][s]
      <4>1. \A r \in S : size[r] < size[s] => h[n + 1][r] = h[n][r]
        BY <2>2, <3>1, <1>t
      <4>2. h[n] \in [S -> V] /\ h[n + 1] \in [S -> V]  OBVIOUS
      <4>3. T[h[n + 1]][s] = T[h[n]][s]  BY <4>1, <4>2, <1>0
      <4>4. h[n + 1] = T[h[n]] /\ h[(n + 1) + 1] = T[h[n + 1]]  BY <1>2
      <4> QED BY <4>3, <4>4
    <3> QED BY <3>1
  <2> HIDE DEF A
  <2> QED BY <2>1, <2>2, NatInd
<1> DEFINE B == {n \in Nat : \A s \in S : h[size[s] + 1 + n][s] = h[size[s] + 1][s]}
<1>4. Nat \subseteq B
  <2>1. 0 \in B  BY <1>t
  <2>2. ASSUME NEW n \in Nat, n \in B PROVE n + 1 \in B
    <3>1. ASSUME NEW s \in S PROVE h[size[s] + 1 + (n + 1)][s] = h[size[s] + 1][s]
      <4>1. size[s] + 1 + n \in A  BY <1>3, <1>t
      <4>2. h[(size[s] + 1 + n) + 1][s] = h[size[s] + 1 + n][s]  BY <4>1, <1>t
      <4>3. h[size[s] + 1 + n][s] = h[size[s] + 1][s]  BY <2>2
      <4>4. size[s] \in Nat  BY <1>t
      <4>5. size[s] + 1 + (n + 1) = (size[s] + 1 + n) + 1  BY <4>4
      <4> QED BY <4>2, <4>3, <4>5
    <3> QED BY <3>1
  <2> HIDE DEF B
  <2> QED BY <2>1, <2>2, NatInd
<1> DEFINE f == [s \in S |-> h[size[s] + 1][s]]
<1>5. f \in [S -> V]  BY <1>t
<1>6. ASSUME NEW s \in S PROVE T[f][s] = f[s]
  <2>1. ASSUME NEW r \in S, size[r] < size[s] PROVE f[r] = h[size[s]][r]
    <3>1. size[s] - size[r] - 1 \in B  BY <1>4, <1>t, <2>1
    <3>2. h[size[r] + 1 + (size[s] - size[r] - 1)][r] = h[size[r] + 1][r]  BY <3>1
    <3>a. size[r] \in Nat /\ size[s] \in Nat  BY <1>t
    <3>3. size[r] + 1 + (size[s] - size[r] - 1) = size[s]  BY <3>a
    <3> QED BY <3>2, <3>3
  <2>2. h[size[s]] \in [S -> V]  BY <1>t
  <2>3. T[f][s] = T[h[size[s]]][s]
    <3> HIDE DEF f
    <3> QED BY <1>0, <1>5, <2>1, <2>2
  <2>4. h[size[s] + 1] = T[h[size[s]]]  BY <1>2, <1>t
  <2> QED BY <2>3, <2>4
<1>7. T[f] \in [S -> V]  BY <1>T, <1>5
<1>8. f = T[f]
  <2> HIDE DEF f
  <2> QED BY <1>5, <1>6, <1>7
<1> QED BY <1>5, <1>8 DEF Solvable

\* Every set of numbers that is not empty has a least one.
LEMMA LeastExists == \A S \in SUBSET Nat : S # {} => \E i \in S : \A j \in S : i <= j
<1> SUFFICES ASSUME NEW S \in SUBSET Nat, S # {} PROVE \E i \in S : \A j \in S : i <= j
  OBVIOUS
<1> DEFINE R == {p \in Nat \X Nat : p[1] < p[2]}
<1>1. IsWellFoundedOn(R, Nat) BY LessWF
<1>2. \E x \in S : \A y \in S : ~(<<y, x>> \in R)
  <2> HIDE DEF R
  <2> QED BY <1>1, WFMin
<1>3. PICK x \in S : \A y \in S : ~(<<y, x>> \in R) BY <1>2
<1>4. \A y \in S : x <= y
  <2>1. SUFFICES ASSUME NEW y \in S, y < x PROVE FALSE  OBVIOUS
  <2>2. <<y, x>> \in R  BY <2>1
  <2> QED BY <1>3, <2>2
<1> QED BY <1>4

=============================================================================
