------------------------- MODULE BridgeProverProofs -------------------------
(***************************************************************************)
(* Proofs about BridgeProver, for every curve that is a group of prime     *)
(* order, every pair of scalars and everything scrypt may derive from a    *)
(* code: the client is convinced by nothing but the code it holds itself,  *)
(* the right code is never refused, and the arithmetic is what it is meant *)
(* to be.                                                                  *)
(*                                                                         *)
(* The argument is algebraic: a share without its mask is the scalar times *)
(* the generator, so equal codes give equal transcripts (the products      *)
(* commute), and equal transcripts give equal codes (multiples of a point  *)
(* of prime order are different).  The conversation only carries these     *)
(* facts along.                                                            *)
(*                                                                         *)
(* Below that is the arithmetic.  Multiples of a point are defined by      *)
(* recursion and so is the loop that computes them; induction over the     *)
(* scalar shows them equal, and a prime order that they repeat after it    *)
(* only.  Powers modulo P are treated alike; Fermat's theorem then makes   *)
(* one of them a square root, from which decoding a point follows.         *)
(***************************************************************************)
EXTENDS BridgeProver, InductionTheorems, TLAPS

-----------------------------------------------------------------------------
(* Division with remainder *)

\* The quotient and the remainder of a number.
LEMMA Division ==
  \A n \in Int : \A m \in Nat \ {0} :
     /\ n \div m \in Int /\ n % m \in 0..(m - 1)
     /\ n = m * (n \div m) + (n % m)
     /\ n \in Nat => n \div m \in Nat
OBVIOUS

\* They are determined by that.
LEMMA DivisionIsUnique ==
  \A m \in Nat \ {0} : \A q \in Int : \A r \in 0..(m - 1) : (m * q + r) % m = r
<1> TAKE m \in Nat \ {0}
<1> TAKE q \in Int
<1> TAKE r \in 0..(m - 1)
<1> DEFINE n == m * q + r  d == n \div m  s == n % m
<1>1. n \in Int  OBVIOUS
<1>2. d \in Int /\ s \in 0..(m - 1) /\ n = m * d + s  BY <1>1, Division
<1> HIDE DEF d, s
<1>a. m \in Int /\ d \in Int /\ s \in Int /\ r \in Int  BY <1>2
<1>b. m * (q - d) = m * q - m * d  BY <1>a
<1>c. m * q + r = m * d + s /\ m * q \in Int /\ m * d \in Int  BY <1>2, <1>a
<1>3. m * (q - d) = s - r  BY <1>a, <1>b, <1>c
<1>4. s - r < m /\ r - s < m  BY <1>2
<1>5. q - d \in Int  BY <1>2
<1>6. q - d = 0
  <2> DEFINE e == q - d  t == m * e
  <2>1. e \in Int /\ t \in Int /\ m \in Int  BY <1>5
  <2>2. (e >= 1 => t >= m) /\ (e <= -1 => t <= -m)  BY <2>1
  <2>3. t < m /\ t > -m  BY <1>a, <1>3, <1>4
  <2> HIDE DEF t, e
  <2>4. e = 0  BY <2>1, <2>2, <2>3
  <2> QED BY <2>4 DEF e
<1>7. s = r
  <2>1. m * (q - d) = 0  BY <1>6
  <2> QED BY <1>2, <1>3, <2>1
<1> QED BY <1>7 DEF s

-----------------------------------------------------------------------------
(* Multiples of a point: the double-and-add loop is repeated addition, and  *)
(* below the prime order different multiples are different points.           *)

\* The group is closed and associative, with an identity.
LEMMA Group ==
  /\ Infinity \in Curve
  /\ \A p \in Curve : AddPoints(p, Infinity) = p /\ AddPoints(Infinity, p) = p
  /\ \A p, q \in Curve : AddPoints(p, q) \in Curve
  /\ \A p, q, r \in Curve : AddPoints(AddPoints(p, q), r) = AddPoints(p, AddPoints(q, r))
<1>1. Infinity \in Curve  BY DEF Curve, Points
<1>2. \A p \in Curve : AddPoints(p, Infinity) = p /\ AddPoints(Infinity, p) = p
  BY DEF AddPoints
<1> QED BY <1>1, <1>2, GroupAssumption

\* The sum of a number of copies of a point is defined by recursion.
LEMMA RepeatedIs ==
  \A p \in Curve :
     /\ Repeated(p, 0) = Infinity
     /\ \A k \in Nat : Repeated(p, k) \in Curve /\ Repeated(p, k + 1) = AddPoints(Repeated(p, k), p)
<1> TAKE p \in Curve
<1> DEFINE T == [q \in Curve |-> AddPoints(q, p)]
<1>1. T \in [Curve -> Curve]  BY Group
<1>a. \A q \in Curve : T[q] = AddPoints(q, p)  OBVIOUS
<1> HIDE DEF T
<1>b. \E h \in [Nat -> Curve] : h[0] = Infinity /\ \A n \in Nat : h[n + 1] = T[h[n]]
  <2>1. Iterates(Curve)  BY Iteration
  <2>2. Infinity \in Curve  BY Group
  <2> QED BY <1>1, <2>1, <2>2 DEF Iterates
<1>2. PICK h \in [Nat -> Curve] : h[0] = Infinity /\ \A n \in Nat : h[n + 1] = T[h[n]]
  BY <1>b
<1>3. ASSUME NEW n \in Nat PROVE h[n] \in Curve /\ h[n + 1] = AddPoints(h[n], p)
  BY <1>2, <1>a
<1>4. ASSUME NEW k \in Nat PROVE Repeated(p, k) = h[k]
  <2> DEFINE Body(g) == [n \in 0..k |-> IF n = 0 THEN Infinity ELSE AddPoints(g[n - 1], p)]
             g0 == [n \in 0..k |-> h[n]]
             sum == CHOOSE g : g = Body(g)
  <2>1. g0 = Body(g0)
    <3>1. ASSUME NEW n \in 0..k PROVE g0[n] = IF n = 0 THEN Infinity ELSE AddPoints(g0[n - 1], p)
      <4>1. CASE n = 0  BY <1>2, <4>1
      <4>2. CASE n # 0
        <5>1. n - 1 \in 0..k /\ n - 1 \in Nat /\ (n - 1) + 1 = n  BY <4>2
        <5>2. g0[n] = h[(n - 1) + 1] /\ g0[n - 1] = h[n - 1]  BY <5>1
        <5> QED BY <1>3, <4>2, <5>1, <5>2
      <4> QED BY <4>1, <4>2
    <3> QED BY <3>1
  <2>2. sum = Body(sum)  BY <2>1
  <2>3. Repeated(p, k) = sum[k]  BY DEF Repeated
  <2> HIDE DEF sum, g0
  <2>4. sum[0] = Infinity  BY <2>2
  <2>5. ASSUME NEW n \in Nat, n + 1 <= k PROVE sum[n + 1] = AddPoints(sum[n], p)
    <3>1. n + 1 \in 0..k /\ n + 1 # 0 /\ (n + 1) - 1 = n  BY <2>5
    <3> QED BY <2>2, <3>1
  <2> DEFINE E == {n \in Nat : n <= k => sum[n] = h[n]}
  <2>6. 0 \in E  BY <1>2, <2>4
  <2>7. ASSUME NEW n \in Nat, n \in E PROVE n + 1 \in E
    <3>1. SUFFICES ASSUME n + 1 <= k PROVE sum[n + 1] = h[n + 1]  OBVIOUS
    <3>2. sum[n] = h[n]  BY <2>7, <3>1
    <3> QED BY <1>3, <2>5, <3>1, <3>2
  <2>8. k \in E
    <3> HIDE DEF E
    <3> QED BY <2>6, <2>7, NatInd
  <2> QED BY <2>3, <2>8
<1>5. ASSUME NEW k \in Nat
      PROVE  Repeated(p, k) \in Curve /\ Repeated(p, k + 1) = AddPoints(Repeated(p, k), p)
  <2>1. k + 1 \in Nat  OBVIOUS
  <2>2. Repeated(p, k) = h[k] /\ Repeated(p, k + 1) = h[k + 1]  BY <1>4, <2>1
  <2> QED BY <1>3, <2>2
<1>6. Repeated(p, 0) = Infinity  BY <1>2, <1>4
<1> QED BY <1>5, <1>6

\* Multiples of a point add up.
LEMMA RepeatedAdds ==
  \A p \in Curve : \A m, n \in Nat :
     Repeated(p, m + n) = AddPoints(Repeated(p, m), Repeated(p, n))
<1> SUFFICES ASSUME NEW p \in Curve, NEW m \in Nat
             PROVE  \A n \in Nat : Repeated(p, m + n) = AddPoints(Repeated(p, m), Repeated(p, n))
  OBVIOUS
<1> DEFINE E == {n \in Nat : Repeated(p, m + n) = AddPoints(Repeated(p, m), Repeated(p, n))}
<1>1. 0 \in E
  <2>1. m + 0 = m  OBVIOUS
  <2> QED BY <2>1, RepeatedIs, Group
<1>2. ASSUME NEW n \in Nat, n \in E PROVE n + 1 \in E
  <2>1. m + (n + 1) = (m + n) + 1 /\ m + n \in Nat  OBVIOUS
  <2>2. Repeated(p, (m + n) + 1) = AddPoints(Repeated(p, m + n), p)  BY <2>1, RepeatedIs
  <2>3. Repeated(p, m + n) = AddPoints(Repeated(p, m), Repeated(p, n))  BY <1>2
  <2>4. Repeated(p, m) \in Curve /\ Repeated(p, n) \in Curve
        /\ Repeated(p, n + 1) = AddPoints(Repeated(p, n), p)
    BY RepeatedIs
  <2>5. AddPoints(AddPoints(Repeated(p, m), Repeated(p, n)), p)
          = AddPoints(Repeated(p, m), AddPoints(Repeated(p, n), p))
    BY <2>4, Group
  <2> QED BY <2>1, <2>2, <2>3, <2>4, <2>5
<1>3. Nat \subseteq E
  <2> HIDE DEF E
  <2> QED BY <1>1, <1>2, NatInd
<1> QED BY <1>3

\* Multiples of multiples are those of the product.
LEMMA RepeatedMultiplies ==
  \A p \in Curve : \A m, n \in Nat : Repeated(Repeated(p, m), n) = Repeated(p, m * n)
<1> SUFFICES ASSUME NEW p \in Curve, NEW m \in Nat
             PROVE  \A n \in Nat : Repeated(Repeated(p, m), n) = Repeated(p, m * n)
  OBVIOUS
<1> DEFINE E == {n \in Nat : Repeated(Repeated(p, m), n) = Repeated(p, m * n)}
<1>0. Repeated(p, m) \in Curve  BY RepeatedIs
<1>1. 0 \in E
  <2>1. m * 0 = 0  OBVIOUS
  <2> QED BY <1>0, <2>1, RepeatedIs
<1>2. ASSUME NEW n \in Nat, n \in E PROVE n + 1 \in E
  <2>1. m * (n + 1) = m * n + m /\ m * n \in Nat  OBVIOUS
  <2>2. Repeated(p, m * n + m) = AddPoints(Repeated(p, m * n), Repeated(p, m))
    BY <2>1, RepeatedAdds
  <2>3. Repeated(Repeated(p, m), n + 1) = AddPoints(Repeated(Repeated(p, m), n), Repeated(p, m))
    BY <1>0, RepeatedIs
  <2> QED BY <1>2, <2>1, <2>2, <2>3
<1>3. Nat \subseteq E
  <2> HIDE DEF E
  <2> QED BY <1>1, <1>2, NatInd
<1> QED BY <1>3

\* A point once, and doubled.
LEMMA OnceAndTwice ==
  \A p \in Curve : Repeated(p, 1) = p /\ Repeated(p, 2) = AddPoints(p, p)
<1> TAKE p \in Curve
<1>1. 0 + 1 = 1 /\ 1 + 1 = 2  OBVIOUS
<1>2. Repeated(p, 0 + 1) = AddPoints(Infinity, p)  BY RepeatedIs
<1>3. Repeated(p, 1) = p  BY <1>1, <1>2, Group
<1>4. Repeated(p, 1 + 1) = AddPoints(p, p)  BY <1>3, RepeatedIs
<1> QED BY <1>1, <1>3, <1>4

\* _multiply_point: the recursive definition has the values it describes.
LEMMA DoubleAndAddIs ==
  \A loop \in LoopState :
     /\ loop.scalar = 0 => DoubleAndAdd[loop] = loop.result
     /\ loop.scalar # 0 =>
          \E next \in LoopState :
             /\ next.result = IF loop.scalar % 2 = 1 THEN AddPoints(loop.result, loop.addend)
                                                   ELSE loop.result
             /\ next.addend = AddPoints(loop.addend, loop.addend)
             /\ next.scalar = loop.scalar \div 2 /\ next.scalar < loop.scalar
             /\ DoubleAndAdd[loop] = DoubleAndAdd[next]
<1> DEFINE next(loop) ==
             [result |-> IF loop.scalar % 2 = 1 THEN AddPoints(loop.result, loop.addend)
                                                ELSE loop.result,
              addend |-> AddPoints(loop.addend, loop.addend),
              scalar |-> loop.scalar \div 2]
           Body(f, loop) == IF loop.scalar = 0 THEN loop.result ELSE f[next(loop)]
           T == [f \in [LoopState -> Curve] |-> [loop \in LoopState |-> Body(f, loop)]]
           size == [loop \in LoopState |-> loop.scalar]
<1>1. ASSUME NEW loop \in LoopState
      PROVE  /\ loop.result \in Curve /\ loop.scalar \in Nat
             /\ next(loop) \in LoopState
             /\ loop.scalar # 0 => next(loop).scalar < loop.scalar
  <2>1. loop.result \in Curve /\ loop.addend \in Curve /\ loop.scalar \in Nat  BY DEF LoopState
  <2>2. AddPoints(loop.result, loop.addend) \in Curve /\ AddPoints(loop.addend, loop.addend) \in Curve
    BY <2>1, Group
  <2>3. loop.scalar \div 2 \in Nat /\ (loop.scalar # 0 => loop.scalar \div 2 < loop.scalar)  BY <2>1
  <2> QED BY <2>1, <2>2, <2>3 DEF LoopState
<1>2. T \in [[LoopState -> Curve] -> [LoopState -> Curve]]
  <2>1. ASSUME NEW f \in [LoopState -> Curve], NEW loop \in LoopState PROVE Body(f, loop) \in Curve
    <3> HIDE DEF next
    <3> QED BY <1>1
  <2> HIDE DEF Body
  <2> QED BY <2>1
<1>3. ASSUME NEW f \in [LoopState -> Curve], NEW g \in [LoopState -> Curve], NEW loop \in LoopState,
             \A r \in LoopState : size[r] < size[loop] => f[r] = g[r]
      PROVE  T[f][loop] = T[g][loop]
  <2>1. T[f][loop] = Body(f, loop) /\ T[g][loop] = Body(g, loop)
    <3> HIDE DEF Body
    <3> QED OBVIOUS
  <2>2. loop.scalar # 0 => f[next(loop)] = g[next(loop)]
    <3> HIDE DEF next, Body, T
    <3> QED BY <1>1, <1>3
  <2>3. Body(f, loop) = Body(g, loop)
    <3> HIDE DEF next, T, size
    <3> QED BY <2>2
  <2> HIDE DEF T, Body
  <2> QED BY <2>1, <2>3
<1>4. size \in [LoopState -> Nat] /\ Curve # {}  BY <1>1, Group
<1>5. Recursive(LoopState, Curve, size, T)
  <2> HIDE DEF T, size
  <2> QED BY <1>2, <1>3, <1>4 DEF Recursive
<1>6. PICK f \in [LoopState -> Curve] : f = T[f]
  <2> HIDE DEF T, size
  <2> QED BY <1>5, Recursion DEF Solvable
<1>7. f = [loop \in LoopState |-> Body(f, loop)]
  <2> HIDE DEF Body
  <2> QED BY <1>6
<1>8. DoubleAndAdd = CHOOSE g : g = [loop \in LoopState |-> Body(g, loop)]
  BY DEF DoubleAndAdd
<1>9. DoubleAndAdd = [loop \in LoopState |-> Body(DoubleAndAdd, loop)]
  <2> HIDE DEF Body
  <2> QED BY <1>7, <1>8
<1>10. ASSUME NEW loop \in LoopState PROVE DoubleAndAdd[loop] = Body(DoubleAndAdd, loop)
  <2> HIDE DEF Body
  <2> QED BY <1>9
<1>11. ASSUME NEW loop \in LoopState, loop.scalar # 0
       PROVE  \E n \in LoopState :
             /\ n.result = IF loop.scalar % 2 = 1 THEN AddPoints(loop.result, loop.addend)
                                                   ELSE loop.result
             /\ n.addend = AddPoints(loop.addend, loop.addend)
             /\ n.scalar = loop.scalar \div 2 /\ n.scalar < loop.scalar
             /\ DoubleAndAdd[loop] = DoubleAndAdd[n]
  <2>1. next(loop) \in LoopState /\ next(loop).scalar < loop.scalar  BY <1>1, <1>11
  <2>2. DoubleAndAdd[loop] = DoubleAndAdd[next(loop)]
    <3> HIDE DEF next
    <3> QED BY <1>10, <1>11
  <2>3. /\ next(loop).result = IF loop.scalar % 2 = 1 THEN AddPoints(loop.result, loop.addend)
                                                   ELSE loop.result
        /\ next(loop).addend = AddPoints(loop.addend, loop.addend)
        /\ next(loop).scalar = loop.scalar \div 2
    OBVIOUS
  <2> HIDE DEF next
  <2> QED BY <2>1, <2>2, <2>3
<1> QED BY <1>10, <1>11

\* The loop adds the remaining multiple of the addend to the result.
LEMMA LoopAdds ==
  \A loop \in LoopState :
     DoubleAndAdd[loop] = AddPoints(loop.result, Repeated(loop.addend, loop.scalar))
<1> DEFINE E == {loop \in LoopState :
                   DoubleAndAdd[loop] = AddPoints(loop.result, Repeated(loop.addend, loop.scalar))}
           size == [loop \in LoopState |-> loop.scalar]
<1>1. size \in [LoopState -> Nat]  BY DEF LoopState
<1>2. ASSUME NEW loop \in LoopState, \A r \in LoopState : size[r] < size[loop] => r \in E
      PROVE  loop \in E
  <2> DEFINE r == loop.result  a == loop.addend  s == loop.scalar
  <2>1. r \in Curve /\ a \in Curve /\ s \in Nat  BY DEF LoopState
  <2>2. CASE s = 0
    <3>1. DoubleAndAdd[loop] = r  BY <2>2, DoubleAndAddIs
    <3>2. AddPoints(r, Repeated(a, s)) = r  BY <2>1, <2>2, RepeatedIs, Group
    <3> QED BY <3>1, <3>2
  <2>3. CASE s # 0
    <3>1. PICK n \in LoopState :
             /\ n.result = IF s % 2 = 1 THEN AddPoints(r, a) ELSE r
             /\ n.addend = AddPoints(a, a)
             /\ n.scalar = s \div 2 /\ n.scalar < s
             /\ DoubleAndAdd[loop] = DoubleAndAdd[n]
      BY <2>3, DoubleAndAddIs
    <3> DEFINE m == s \div 2
    <3>2. m \in Nat /\ 2 * m \in Nat /\ (s % 2 = 1 => s = 1 + 2 * m) /\ (s % 2 # 1 => s = 2 * m)
      BY <2>1
    <3>3. DoubleAndAdd[n] = AddPoints(n.result, Repeated(AddPoints(a, a), m))
      <4>1. n \in E  BY <1>2, <3>1
      <4> QED BY <3>1, <4>1
    <3> HIDE DEF m, r, a, s
    <3>4. Repeated(AddPoints(a, a), m) = Repeated(a, 2 * m)
      <4>1. Repeated(Repeated(a, 2), m) = Repeated(a, 2 * m)  BY <2>1, <3>2, RepeatedMultiplies
      <4> QED BY <2>1, <4>1, OnceAndTwice
    <3>5. CASE s % 2 = 1
      <4>1. Repeated(a, 1 + 2 * m) = AddPoints(a, Repeated(a, 2 * m))
        <5>1. Repeated(a, 1 + 2 * m) = AddPoints(Repeated(a, 1), Repeated(a, 2 * m))
          BY <2>1, <3>2, RepeatedAdds
        <5> QED BY <2>1, <5>1, OnceAndTwice
      <4>2. Repeated(a, 2 * m) \in Curve  BY <2>1, <3>2, RepeatedIs
      <4>3. AddPoints(AddPoints(r, a), Repeated(a, 2 * m)) = AddPoints(r, Repeated(a, 1 + 2 * m))
        BY <2>1, <4>1, <4>2, Group
      <4>4. n.result = AddPoints(r, a) /\ s = 1 + 2 * m  BY <3>1, <3>2, <3>5
      <4>5. DoubleAndAdd[loop] = AddPoints(r, Repeated(a, s))
        BY <3>1, <3>3, <3>4, <4>3, <4>4
      <4> QED BY <4>5 DEF r, a, s
    <3>6. CASE s % 2 # 1
      <4>1. n.result = r /\ s = 2 * m  BY <3>1, <3>2, <3>6
      <4>2. DoubleAndAdd[loop] = AddPoints(r, Repeated(a, s))
        BY <3>1, <3>3, <3>4, <4>1
      <4> QED BY <4>2 DEF r, a, s
    <3> QED BY <3>5, <3>6
  <2> QED BY <2>2, <2>3
<1>3. LoopState \subseteq E
  <2> HIDE DEF E, size
  <2> QED BY <1>1, <1>2, Induction DEF Inductive
<1> QED BY <1>3

\* The point at infinity any number of times.
LEMMA RepeatedInfinity == \A k \in Nat : Repeated(Infinity, k) = Infinity
<1> DEFINE E == {k \in Nat : Repeated(Infinity, k) = Infinity}
<1>1. 0 \in E  BY RepeatedIs, Group
<1>2. ASSUME NEW k \in Nat, k \in E PROVE k + 1 \in E
  BY <1>2, RepeatedIs, Group
<1>3. Nat \subseteq E
  <2> HIDE DEF E
  <2> QED BY <1>1, <1>2, NatInd
<1> QED BY <1>3

\* When some multiple is the point at infinity only the remainder counts.
LEMMA RepeatedModulo ==
  ASSUME NEW p \in Curve, NEW m \in Nat \ {0}, Repeated(p, m) = Infinity, NEW k \in Nat
  PROVE  Repeated(p, k) = Repeated(p, k % m)
<1> DEFINE q == k \div m  r == k % m
<1>1. q \in Nat /\ r \in Nat /\ k = m * q + r /\ m * q \in Nat /\ m \in Nat
  <2>1. k \in Int /\ m \in Nat \ {0}  OBVIOUS
  <2>2. q \in Nat /\ r \in 0..(m - 1) /\ k = m * q + r  BY <2>1, Division
  <2> HIDE DEF q, r
  <2> QED BY <2>1, <2>2
<1> HIDE DEF q, r
<1>2. Repeated(p, m * q + r) = AddPoints(Repeated(p, m * q), Repeated(p, r))
  BY <1>1, RepeatedAdds
<1>3. Repeated(p, m * q) = Infinity
  <2>1. Repeated(Repeated(p, m), q) = Repeated(p, m * q)  BY <1>1, RepeatedMultiplies
  <2> QED BY <1>1, <2>1, RepeatedInfinity
<1>4. Repeated(p, r) \in Curve  BY <1>1, RepeatedIs
<1> QED BY <1>1, <1>2, <1>3, <1>4, Group DEF r

\* The order of the group.
LEMMA OrderIs ==
  /\ Order \in Nat /\ Order > 1
  /\ \A n \in 2..(Order - 1) : Order % n # 0
  /\ \A p \in Curve : Repeated(p, Order) = Infinity
BY CurveAssumption, OrderAssumption

\* The order is a prime: no smaller multiple of a point is infinity.
LEMMA NoSmallerOrder ==
  ASSUME NEW p \in Curve \ {Infinity}, NEW n \in 1..(Order - 1)
  PROVE  Repeated(p, n) # Infinity
<1> SUFFICES ASSUME Repeated(p, n) = Infinity PROVE FALSE  OBVIOUS
<1> DEFINE S == {k \in Nat : k >= 1 /\ Repeated(p, k) = Infinity}
<1>1. n \in S /\ S \in SUBSET Nat  BY OrderIs
<1>2. PICK i \in S : \A j \in S : i <= j
  <2> HIDE DEF S
  <2> QED BY <1>1, LeastExists
<1>3. i \in Nat \ {0} /\ Repeated(p, i) = Infinity /\ i <= n  BY <1>1, <1>2
<1>4. Order % i \in 0..(i - 1)  BY <1>3, OrderIs, Division
<1>5. Repeated(p, Order % i) = Infinity  BY <1>3, OrderIs, RepeatedModulo
<1>6. Order % i = 0
  <2>1. Order % i >= 1 => Order % i \in S  BY <1>4, <1>5
  <2> QED BY <1>2, <1>3, <1>4, <2>1
<1>7. i = 1
  <2>1. i \notin 2..(Order - 1)  BY <1>6, OrderIs
  <2> QED BY <1>3, <2>1, OrderIs
<1> QED BY <1>3, <1>7, OnceAndTwice

\* Different multiples below the order are different points.
LEMMA RepeatedDiffers ==
  ASSUME NEW p \in Curve \ {Infinity}, NEW j \in 0..(Order - 1), NEW k \in 0..(Order - 1),
         j < k
  PROVE  Repeated(p, j) # Repeated(p, k)
<1> SUFFICES ASSUME Repeated(p, j) = Repeated(p, k) PROVE FALSE  OBVIOUS
<1> DEFINE n == k - j  r == Repeated(p, j)  d == Repeated(p, n)
<1>1. n \in 1..(Order - 1) /\ n \in Nat /\ j \in Nat /\ n + j = k  BY OrderIs
<1>2. r \in Curve /\ d \in Curve  BY <1>1, RepeatedIs
<1>3. AddPoints(d, r) = r  BY <1>1, RepeatedAdds
<1>4. d # Infinity  BY <1>1, NoSmallerOrder
<1> HIDE DEF d, r, n
<1>5. Negate(r) \in Curve /\ AddPoints(r, Negate(r)) = Infinity  BY <1>2, GroupAssumption
<1>6. AddPoints(AddPoints(d, r), Negate(r)) = AddPoints(d, AddPoints(r, Negate(r)))
  BY <1>2, <1>5, Group
<1>7. AddPoints(d, Infinity) = Infinity  BY <1>3, <1>5, <1>6
<1> QED BY <1>2, <1>4, <1>7, Group

\* _multiply_point: the product is the sum of that many copies.
THEOREM MultiplyIsRepeated ==
  \A p \in Curve : \A k \in Nat :
     /\ MultiplyPoint(p, k) = Repeated(p, k)
     /\ MultiplyPoint(p, k) = Repeated(p, k % Order)
     /\ MultiplyPoint(p, k) \in Curve
<1> TAKE p \in Curve, k \in Nat
<1> DEFINE r == k % Order
           loop == [result |-> Infinity, addend |-> p, scalar |-> r]
<1>1. r \in Nat /\ Order \in Nat \ {0}
  <2>1. Order \in Nat \ {0}  BY OrderIs
  <2> QED BY <2>1, Division
<1>2. Repeated(p, k) = Repeated(p, r)  BY <1>1, OrderIs, RepeatedModulo
<1>3. MultiplyPoint(p, k) = DoubleAndAdd[loop]  BY DEF MultiplyPoint
<1> HIDE DEF r
<1>4. loop \in LoopState /\ loop.result = Infinity /\ loop.addend = p /\ loop.scalar = r
  BY <1>1, Group DEF LoopState
<1> HIDE DEF loop
<1>5. Repeated(p, r) \in Curve  BY <1>1, RepeatedIs
<1>6. DoubleAndAdd[loop] = AddPoints(Infinity, Repeated(p, r))  BY <1>4, LoopAdds
<1> QED BY <1>2, <1>3, <1>5, <1>6, Group DEF r

\* What the exchange needs of the multiples of a point.
THEOREM Multiples ==
  \A p \in Curve : \A j, k \in 0..(Order - 1) :
     /\ MultiplyPoint(p, 0) = Infinity
     /\ MultiplyPoint(p, k) \in Curve
     /\ MultiplyPoint(MultiplyPoint(p, j), k) = MultiplyPoint(MultiplyPoint(p, k), j)
     /\ p # Infinity /\ MultiplyPoint(p, j) = MultiplyPoint(p, k) => j = k
<1> TAKE p \in Curve
<1> TAKE j, k \in 0..(Order - 1)
<1>1. j \in Nat /\ k \in Nat /\ j * k = k * j  BY OrderIs
<1>2. MultiplyPoint(p, 0) = Infinity  BY MultiplyIsRepeated, RepeatedIs
<1>3. MultiplyPoint(p, k) \in Curve /\ MultiplyPoint(p, j) \in Curve
      /\ MultiplyPoint(p, k) = Repeated(p, k) /\ MultiplyPoint(p, j) = Repeated(p, j)
  BY <1>1, MultiplyIsRepeated
<1>4. MultiplyPoint(MultiplyPoint(p, j), k) = MultiplyPoint(MultiplyPoint(p, k), j)
  <2>1. MultiplyPoint(MultiplyPoint(p, j), k) = Repeated(Repeated(p, j), k)
    BY <1>1, <1>3, MultiplyIsRepeated
  <2>2. MultiplyPoint(MultiplyPoint(p, k), j) = Repeated(Repeated(p, k), j)
    BY <1>1, <1>3, MultiplyIsRepeated
  <2> QED BY <1>1, <2>1, <2>2, RepeatedMultiplies
<1>5. ASSUME p # Infinity, MultiplyPoint(p, j) = MultiplyPoint(p, k) PROVE j = k
  <2>1. ~ (j < k)  BY <1>3, <1>5, RepeatedDiffers
  <2>2. ~ (k < j)  BY <1>3, <1>5, RepeatedDiffers
  <2> QED BY <1>1, <2>1, <2>2
<1> QED BY <1>2, <1>3, <1>4, <1>5

-----------------------------------------------------------------------------
(* The field: remainders, powers and, by Fermat's theorem, square roots     *)

\* The field has an odd number of elements.
LEMMA FieldIs ==
  /\ P \in Nat \ {0} /\ P >= 3 /\ P % 4 = 3 /\ P \in Int
  /\ P % 2 = 1
BY CurveAssumption

\* Remainders modulo P: taken early or late, and of multiples of P.
LEMMA ModIs ==
  /\ \A n \in Int : n % P \in Coordinates /\ n % P \in Int /\ n % P \in Nat
  /\ \A n \in Coordinates : n % P = n
  /\ \A n, k \in Int : (n + P * k) % P = n % P
<1>0. P \in Nat \ {0} /\ P \in Int  BY FieldIs
<1>1. ASSUME NEW n \in Int PROVE n % P \in Coordinates /\ n % P \in Int /\ n % P \in Nat
  BY <1>0, Division DEF Coordinates
<1>2. ASSUME NEW n \in Coordinates PROVE n % P = n
  <2>1. n \in 0..(P - 1) /\ n \in Int /\ P * 0 + n = n  BY <1>0 DEF Coordinates
  <2>2. (P * 0 + n) % P = n  BY <1>0, <2>1, DivisionIsUnique
  <2> QED BY <2>1, <2>2
<1>3. ASSUME NEW n \in Int, NEW k \in Int PROVE (n + P * k) % P = n % P
  <2> DEFINE q == n \div P  r == n % P
  <2>1. q \in Int /\ r \in 0..(P - 1) /\ n = P * q + r  BY <1>0, Division
  <2> HIDE DEF q, r
  <2>2. n + P * k = P * (q + k) + r /\ q + k \in Int
    <3>1. P * (q + k) = P * q + P * k  BY <1>0, <2>1
    <3>2. P * q \in Int /\ P * k \in Int /\ r \in Int  BY <1>0, <2>1
    <3> QED BY <2>1, <3>1, <3>2
  <2>3. (P * (q + k) + r) % P = r  BY <1>0, <2>1, <2>2, DivisionIsUnique
  <2> QED BY <2>2, <2>3 DEF r
<1> QED BY <1>1, <1>2, <1>3

\* A factor or a summand may be reduced first.
LEMMA ModFactor ==
  \A m, n \in Int : /\ ((m % P) * n) % P = (m * n) % P
                    /\ (n * (m % P)) % P = (n * m) % P
                    /\ ((m % P) + n) % P = (m + n) % P
                    /\ (n - (m % P)) % P = (n - m) % P
<1> TAKE m, n \in Int
<1> DEFINE q == m \div P  r == m % P
<1>0. P \in Nat \ {0} /\ P \in Int  BY FieldIs
<1>1. q \in Int /\ r \in Int /\ m = P * q + r
  <2>1. q \in Int /\ r \in 0..(P - 1) /\ m = P * q + r  BY <1>0, Division
  <2> HIDE DEF q, r
  <2> QED BY <1>0, <2>1
<1> HIDE DEF q, r
<1>2. P * q \in Int  BY <1>0, <1>1
<1>3. m * n = r * n + P * (q * n) /\ r * n \in Int /\ q * n \in Int
  <2>1. (P * q + r) * n = (P * q) * n + r * n  BY <1>1, <1>2
  <2>2. (P * q) * n = P * (q * n)  BY <1>0, <1>1
  <2>3. P * (q * n) \in Int /\ r * n \in Int /\ q * n \in Int  BY <1>0, <1>1
  <2> QED BY <1>1, <2>1, <2>2, <2>3
<1>4. (r * n) % P = (m * n) % P  BY <1>3, ModIs
<1>5. n * r = r * n /\ n * m = m * n  BY <1>1
<1>6. (r + n) % P = (m + n) % P
  <2>1. m + n = (r + n) + P * q /\ r + n \in Int  BY <1>1, <1>2
  <2> QED BY <1>1, <2>1, ModIs
<1>7. (n - r) % P = (n - m) % P
  <2>1. n - r = (n - m) + P * q /\ n - m \in Int  BY <1>1, <1>2
  <2> QED BY <1>1, <2>1, ModIs
<1> QED BY <1>4, <1>5, <1>6, <1>7 DEF r

\* Equal remainders are a difference that P divides.
LEMMA ModEqual == \A m, n \in Int : (m - n) % P = 0 <=> m % P = n % P
<1> TAKE m, n \in Int
<1>1. ASSUME m % P = n % P PROVE (m - n) % P = 0
  <2>1. (m - n) % P = (m - (n % P)) % P  BY ModFactor
  <2>2. (m - (m % P)) % P = (m - m) % P  BY ModFactor
  <2>3. m - m = 0 /\ 0 \in Coordinates  BY FieldIs DEF Coordinates
  <2> QED BY <1>1, <2>1, <2>2, <2>3, ModIs
<1>2. ASSUME (m - n) % P = 0 PROVE m % P = n % P
  <2>1. m - n \in Int /\ (m - n) + n = m /\ 0 + n = n  OBVIOUS
  <2>2. (((m - n) % P) + n) % P = ((m - n) + n) % P  BY <2>1, ModFactor
  <2> QED BY <1>2, <2>1, <2>2
<1> QED BY <1>1, <1>2

\* Powers modulo P are defined by recursion.
LEMMA PowerIs ==
  \A b \in Int :
     /\ Power(b, 0) = 1
     /\ \A e \in Nat : Power(b, e) \in Coordinates /\ Power(b, e + 1) = (b * Power(b, e)) % P
<1> TAKE b \in Int
<1> DEFINE T == [n \in Coordinates |-> (b * n) % P]
<1>0. P \in Int /\ P >= 3 /\ 1 \in Coordinates /\ Coordinates \subseteq Int
  BY FieldIs DEF Coordinates
<1>1. T \in [Coordinates -> Coordinates]
  <2>1. ASSUME NEW n \in Coordinates PROVE (b * n) % P \in Coordinates
    <3>1. b * n \in Int  BY <1>0
    <3> QED BY <3>1, ModIs
  <2> QED BY <2>1
<1>a. \A q \in Coordinates : T[q] = (b * q) % P  OBVIOUS
<1> HIDE DEF T
<1>b. \E h \in [Nat -> Coordinates] : h[0] = 1 /\ \A n \in Nat : h[n + 1] = T[h[n]]
  <2>1. Iterates(Coordinates)  BY Iteration
  <2> QED BY <1>0, <1>1, <2>1 DEF Iterates
<1>2. PICK h \in [Nat -> Coordinates] : h[0] = 1 /\ \A n \in Nat : h[n + 1] = T[h[n]]
  BY <1>b
<1>3. ASSUME NEW n \in Nat PROVE h[n] \in Coordinates /\ h[n + 1] = (b * h[n]) % P
  BY <1>2, <1>a
<1>4. ASSUME NEW k \in Nat PROVE Power(b, k) = h[k]
  <2> DEFINE Body(g) == [n \in 0..k |-> IF n = 0 THEN 1 ELSE (b * g[n - 1]) % P]
             g0 == [n \in 0..k |-> h[n]]
             power == CHOOSE g : g = Body(g)
  <2>1. g0 = Body(g0)
    <3>1. ASSUME NEW n \in 0..k PROVE g0[n] = IF n = 0 THEN 1 ELSE (b * g0[n - 1]) % P
      <4>1. CASE n = 0  BY <1>2, <4>1
      <4>2. CASE n # 0
        <5>1. n - 1 \in 0..k /\ n - 1 \in Nat /\ (n - 1) + 1 = n  BY <4>2
        <5>2. g0[n] = h[(n - 1) + 1] /\ g0[n - 1] = h[n - 1]  BY <5>1
        <5> QED BY <1>3, <4>2, <5>1, <5>2
      <4> QED BY <4>1, <4>2
    <3> QED BY <3>1
  <2>2. power = Body(power)  BY <2>1
  <2>3. Power(b, k) = power[k]  BY DEF Power
  <2> HIDE DEF power, g0
  <2>4. power[0] = 1  BY <2>2
  <2>5. ASSUME NEW n \in Nat, n + 1 <= k PROVE power[n + 1] = (b * power[n]) % P
    <3>1. n + 1 \in 0..k /\ n + 1 # 0 /\ (n + 1) - 1 = n  BY <2>5
    <3> QED BY <2>2, <3>1
  <2> DEFINE E == {n \in Nat : n <= k => power[n] = h[n]}
  <2>6. 0 \in E  BY <1>2, <2>4
  <2>7. ASSUME NEW n \in Nat, n \in E PROVE n + 1 \in E
    <3>1. SUFFICES ASSUME n + 1 <= k PROVE power[n + 1] = h[n + 1]  OBVIOUS
    <3>2. power[n] = h[n]  BY <2>7, <3>1
    <3> QED BY <1>3, <2>5, <3>1, <3>2
  <2>8. k \in E
    <3> HIDE DEF E
    <3> QED BY <2>6, <2>7, NatInd
  <2> QED BY <2>3, <2>8
<1>5. ASSUME NEW k \in Nat
      PROVE  Power(b, k) \in Coordinates /\ Power(b, k + 1) = (b * Power(b, k)) % P
  <2>1. k + 1 \in Nat  OBVIOUS
  <2>2. Power(b, k) = h[k] /\ Power(b, k + 1) = h[k + 1]  BY <1>4, <2>1
  <2> QED BY <1>3, <2>2
<1>6. Power(b, 0) = 1  BY <1>2, <1>4
<1> QED BY <1>5, <1>6

\* Powers are numbers below P.
LEMMA PowersAreNumbers ==
  \A b \in Int : \A e \in Nat : Power(b, e) \in Int /\ Power(b, e) % P = Power(b, e)
<1> TAKE b \in Int
<1> TAKE e \in Nat
<1>1. Power(b, e) \in Coordinates  BY PowerIs
<1>2. Power(b, e) \in Int  BY <1>1, FieldIs DEF Coordinates
<1> QED BY <1>1, <1>2, ModIs

\* Exponents add up.
LEMMA PowerAdds ==
  \A b \in Int : \A m, n \in Nat : (Power(b, m) * Power(b, n)) % P = Power(b, m + n)
<1> SUFFICES ASSUME NEW b \in Int, NEW m \in Nat
             PROVE  \A n \in Nat : (Power(b, m) * Power(b, n)) % P = Power(b, m + n)
  OBVIOUS
<1> DEFINE E == {n \in Nat : (Power(b, m) * Power(b, n)) % P = Power(b, m + n)}
<1>0. Power(b, m) \in Int  BY PowersAreNumbers
<1>1. 0 \in E
  <2>1. m + 0 = m /\ Power(b, m) * 1 = Power(b, m)  BY <1>0
  <2> QED BY <2>1, PowerIs, PowersAreNumbers
<1>2. ASSUME NEW n \in Nat, n \in E PROVE n + 1 \in E
  <2> DEFINE u == Power(b, m)  v == Power(b, n)
  <2>1. u \in Int /\ v \in Int /\ b * v \in Int /\ u * v \in Int  BY PowersAreNumbers
  <2>2. Power(b, n + 1) = (b * v) % P  BY PowerIs
  <2>3. m + (n + 1) = (m + n) + 1 /\ m + n \in Nat  OBVIOUS
  <2>4. Power(b, m + (n + 1)) = (b * Power(b, m + n)) % P  BY <2>3, PowerIs
  <2>5. Power(b, m + n) = (u * v) % P  BY <1>2
  <2> HIDE DEF u, v
  <2>6. (u * ((b * v) % P)) % P = (u * (b * v)) % P  BY <2>1, ModFactor
  <2>7. (b * ((u * v) % P)) % P = (b * (u * v)) % P  BY <2>1, ModFactor
  <2>8. u * (b * v) = b * (u * v)  BY <2>1
  <2> QED BY <2>2, <2>4, <2>5, <2>6, <2>7, <2>8 DEF u
<1>3. Nat \subseteq E
  <2> HIDE DEF E
  <2> QED BY <1>1, <1>2, NatInd
<1> QED BY <1>3

\* A power of a square has twice the exponent.
LEMMA PowerOfSquare ==
  \A c \in Int : \A e \in Nat : Power((c * c) % P, e) = Power(c, 2 * e)
<1> SUFFICES ASSUME NEW c \in Int
             PROVE  \A e \in Nat : Power((c * c) % P, e) = Power(c, 2 * e)
  OBVIOUS
<1> DEFINE s == (c * c) % P
           E == {e \in Nat : Power(s, e) = Power(c, 2 * e)}
<1>0. c * c \in Int /\ s \in Int
  <2>1. c * c \in Int  OBVIOUS
  <2> QED BY <2>1, ModIs
<1>1. 0 \in E
  <2>1. 2 * 0 = 0  OBVIOUS
  <2> QED BY <1>0, <2>1, PowerIs
<1>2. ASSUME NEW e \in Nat, e \in E PROVE e + 1 \in E
  <2> DEFINE w == Power(c, 2 * e)
  <2>1. 2 * e \in Nat /\ 2 * e + 1 \in Nat /\ 2 * (e + 1) = (2 * e + 1) + 1  OBVIOUS
  <2>2. w \in Int  BY <2>1, PowersAreNumbers
  <2>3. Power(s, e + 1) = (s * w) % P  BY <1>0, <1>2, PowerIs
  <2>4. Power(c, (2 * e + 1) + 1) = (c * ((c * w) % P)) % P  BY <2>1, PowerIs
  <2> HIDE DEF w
  <2>5. c * w \in Int /\ c * (c * w) = (c * c) * w  BY <2>2
  <2>6. (c * ((c * w) % P)) % P = (c * (c * w)) % P  BY <2>5, ModFactor
  <2>7. (s * w) % P = ((c * c) * w) % P  BY <1>0, <2>2, ModFactor
  <2>8. Power(s, e + 1) = Power(c, 2 * (e + 1))
    BY <2>1, <2>3, <2>4, <2>5, <2>6, <2>7
  <2> HIDE DEF s
  <2> QED BY <2>8
<1>3. Nat \subseteq E
  <2> HIDE DEF E
  <2> QED BY <1>1, <1>2, NatInd
<1> QED BY <1>3

\* By Fermat's theorem a product is zero only when a factor is.
LEMMA NoZeroDivisors ==
  \A u \in Coordinates \ {0} : \A v \in Int : (u * v) % P = 0 => v % P = 0
<1> TAKE u \in Coordinates \ {0}
<1> TAKE v \in Int
<1> HAVE (u * v) % P = 0
<1> DEFINE m == Power(u, P - 2)
<1>1. u \in 1..(P - 1) /\ u \in Int /\ P - 2 \in Nat /\ (P - 2) + 1 = P - 1
  BY FieldIs DEF Coordinates
<1>2. m \in Int  BY <1>1, PowersAreNumbers
<1>3. (u * m) % P = 1  BY <1>1, PowerIs, FieldAssumption
<1> HIDE DEF m
<1>4. u * m \in Int /\ u * v \in Int /\ (u * m) * v = m * (u * v) /\ 1 * v = v /\ m * 0 = 0
  BY <1>1, <1>2
<1>5. (((u * m) % P) * v) % P = ((u * m) * v) % P  BY <1>4, ModFactor
<1>6. (m * ((u * v) % P)) % P = (m * (u * v)) % P  BY <1>2, <1>4, ModFactor
<1>7. 0 % P = 0  BY ModIs, FieldIs DEF Coordinates
<1> QED BY <1>3, <1>4, <1>5, <1>6, <1>7

\* _decode_point: P is 3 modulo 4, so this power is a root of a square.
LEMMA SquareRoots ==
  \A c \in Coordinates : LET r == Power((c * c) % P, (P + 1) \div 4)
                         IN r \in {c, (-c) % P}
<1> TAKE c \in Coordinates
<1> DEFINE e == (P + 1) \div 4  s == (c * c) % P  r == Power(s, e)
<1>1. c \in Int /\ c \in 0..(P - 1) /\ c * c \in Int  BY FieldIs DEF Coordinates
<1>2. e \in Nat /\ e >= 1 /\ 4 * e = P + 1  BY FieldIs
<1> HIDE DEF e
<1>3. s \in Int  BY <1>1, ModIs
<1>4. r \in Coordinates /\ r \in Int /\ r % P = r  BY <1>2, <1>3, PowerIs, PowersAreNumbers
<1>5. c % P = c  BY ModIs
<1>6. CASE c = 0
  <2>1. s = 0  BY <1>6, ModIs, FieldIs DEF Coordinates
  <2>2. e - 1 \in Nat /\ (e - 1) + 1 = e  BY <1>2
  <2>3. r = (0 * Power(0, e - 1)) % P  BY <2>1, <2>2, PowerIs
  <2>4. Power(0, e - 1) \in Int  BY <2>2, PowersAreNumbers
  <2>5. r = 0  BY <2>3, <2>4, ModIs, FieldIs DEF Coordinates
  <2> QED BY <1>6, <2>5 DEF e
<1>7. CASE c # 0
  <2> DEFINE d == 2 * e
  <2>1. d \in Nat /\ d + d = (P - 1) + 2 /\ P - 1 \in Nat  BY <1>2, FieldIs
  <2>2. r = Power(c, d)  BY <1>1, <1>2, PowerOfSquare
  <2>3. (r * r) % P = Power(c, (P - 1) + 2)  BY <1>1, <2>1, <2>2, PowerAdds
  <2>4. Power(c, P - 1) = 1  BY <1>1, <1>7, FieldAssumption
  <2>5. Power(c, 2) = (c * c) % P
    <3>1. Power(c, 0 + 1) = (c * 1) % P  BY <1>1, PowerIs
    <3>2. 0 + 1 = 1 /\ c * 1 = c /\ 1 + 1 = 2  BY <1>1
    <3>3. Power(c, 1 + 1) = (c * Power(c, 1)) % P  BY <1>1, PowerIs
    <3> QED BY <1>5, <3>1, <3>2, <3>3
  <2>6. (Power(c, P - 1) * Power(c, 2)) % P = Power(c, (P - 1) + 2)
    BY <1>1, <2>1, PowerAdds
  <2>7. Power(c, 2) \in Int /\ Power(c, 2) % P = Power(c, 2) /\ 1 * Power(c, 2) = Power(c, 2)
    BY <1>1, PowersAreNumbers
  <2>8. (r * r) % P = (c * c) % P  BY <2>3, <2>4, <2>5, <2>6, <2>7
  <2> HIDE DEF r, s, d
  <2>9. r * r \in Int /\ r - c \in Int /\ r + c \in Int  BY <1>1, <1>4
  <2>10. ((r - c) * (r + c)) % P = 0
    <3>1. (r - c) * (r + c) = r * r - c * c  BY <1>1, <1>4
    <3>2. (r * r - c * c) % P = 0  BY <1>1, <2>8, <2>9, ModEqual
    <3> QED BY <3>1, <3>2
  <2>11. CASE (r - c) % P = 0
    <3>1. r % P = c % P  BY <1>1, <1>4, <2>11, ModEqual
    <3> QED BY <1>4, <1>5, <3>1 DEF r, s, e
  <2>12. CASE (r - c) % P # 0
    <3> DEFINE u == (r - c) % P
    <3>1. u \in Coordinates \ {0}  BY <2>9, <2>12, ModIs
    <3>2. (u * (r + c)) % P = 0  BY <2>9, <2>10, ModFactor
    <3> HIDE DEF u
    <3>3. (r + c) % P = 0  BY <2>9, <3>1, <3>2, NoZeroDivisors
    <3>4. r + c = r - (-c) /\ -c \in Int  BY <1>1, <1>4
    <3>5. r % P = (-c) % P  BY <1>4, <3>3, <3>4, ModEqual
    <3> QED BY <1>4, <3>5 DEF r, s, e
  <2> QED BY <2>11, <2>12
<1> QED BY <1>6, <1>7

-----------------------------------------------------------------------------
(* Encodings of a point *)

\* The right side of the curve's equation is an element of the field.
LEMMA CubicIs == \A a \in Int : Cubic(a) \in Coordinates
<1> TAKE a \in Int
<1>1. A \in Int /\ B \in Int
  <2>1. P - 3 \in Int  BY FieldIs
  <2> QED BY <2>1, ModIs, CurveAssumption DEF A
<1>2. a * a * a + A * a + B \in Int  BY <1>1
<1> QED BY <1>2, ModIs DEF Cubic

\* A point of the curve is a root of the right side, and so is its negative.
LEMMA OnCurveIs ==
  \A a \in Int : \A c \in Coordinates :
     /\ IsOnCurve(<<a, c>>) <=> Cubic(a) = (c * c) % P
     /\ IsOnCurve(<<a, (-c) % P>>) <=> IsOnCurve(<<a, c>>)
<1> TAKE a \in Int
<1>0. Cubic(a) \in Int /\ Cubic(a) % P = Cubic(a)
  BY CubicIs, ModIs, FieldIs DEF Coordinates
<1>1. ASSUME NEW c \in Coordinates
      PROVE  IsOnCurve(<<a, c>>) <=> Cubic(a) = (c * c) % P
  <2>1. c \in Int /\ c * c \in Int  BY FieldIs DEF Coordinates
  <2>2. <<a, c>> # Infinity /\ <<a, c>>[1] = a /\ <<a, c>>[2] = c  BY DEF Infinity
  <2>3. IsOnCurve(<<a, c>>) <=> (c * c - Cubic(a)) % P = 0
    BY <2>2 DEF IsOnCurve
  <2>4. (c * c - Cubic(a)) % P = 0 <=> (c * c) % P = Cubic(a) % P  BY <1>0, <2>1, ModEqual
  <2> QED BY <1>0, <2>3, <2>4
<1>2. ASSUME NEW c \in Coordinates
      PROVE  IsOnCurve(<<a, (-c) % P>>) <=> IsOnCurve(<<a, c>>)
  <2> DEFINE n == (-c) % P
  <2>1. c \in Int /\ -c \in Int /\ c * c \in Int /\ (-c) * (-c) = c * c
    BY FieldIs DEF Coordinates
  <2>2. n \in Coordinates /\ n \in Int  BY <2>1, ModIs
  <2>3. (n * n) % P = (c * c) % P
    <3>1. (n * n) % P = ((-c) * n) % P  BY <2>1, <2>2, ModFactor
    <3>2. ((-c) * n) % P = ((-c) * (-c)) % P  BY <2>1, ModFactor
    <3> QED BY <2>1, <3>1, <3>2
  <2> HIDE DEF n
  <2>4. IsOnCurve(<<a, n>>) <=> IsOnCurve(<<a, c>>)  BY <1>1, <2>2, <2>3
  <2> QED BY <2>4 DEF n
<1> QED BY <1>1, <1>2

\* Of two coordinates that differ in their sign one is odd and one is even,
\* and each is the negative of the other.
LEMMA Signs ==
  \A c \in Coordinates :
     /\ (-c) % P = IF c = 0 THEN 0 ELSE P - c
     /\ (-c) % P \in Coordinates
     /\ (-((-c) % P)) % P = c
     /\ c # 0 => ((-c) % P) % 2 # c % 2
     /\ c % 2 \in {0, 1} /\ (2 + (c % 2)) % 2 = c % 2
<1> TAKE c \in Coordinates
<1>1. P \in Int /\ P >= 3 /\ P % 2 = 1 /\ c \in 0..(P - 1) /\ c \in Int
  BY FieldIs DEF Coordinates
<1>2. \A d \in 1..(P - 1) : (-d) % P = P - d
  <2> TAKE d \in 1..(P - 1)
  <2>1. -d \in Int /\ P - d \in Coordinates /\ -d + P * 1 = P - d  BY <1>1 DEF Coordinates
  <2>2. (-d + P * 1) % P = (-d) % P  BY <2>1, ModIs
  <2> QED BY <2>1, <2>2, ModIs
<1>3. (-0) % P = 0  BY <1>1, ModIs DEF Coordinates
<1>4. CASE c = 0
  BY <1>1, <1>3, <1>4 DEF Coordinates
<1>5. CASE c # 0
  <2>1. c \in 1..(P - 1) /\ P - c \in 1..(P - 1) /\ P - (P - c) = c /\ P - c \in Coordinates
    BY <1>1, <1>5 DEF Coordinates
  <2>2. (-c) % P = P - c /\ (-(P - c)) % P = c  BY <1>2, <2>1
  <2>3. (P - c) % 2 # c % 2  BY <1>1
  <2>4. c % 2 \in {0, 1} /\ (2 + (c % 2)) % 2 = c % 2  BY <1>1
  <2> QED BY <1>5, <2>1, <2>2, <2>3, <2>4
<1> QED BY <1>4, <1>5

\* The square root of a point's first coordinate is the second or its negative.
LEMMA RootsOfPoints ==
  \A a \in Int : \A c \in Coordinates :
     /\ SquareRoot(a) \in Coordinates
     /\ IsOnCurve(<<a, c>>) => SquareRoot(a) \in {c, (-c) % P}
<1> TAKE a \in Int
<1> TAKE c \in Coordinates
<1>1. SquareRoot(a) \in Coordinates
  <2>1. Cubic(a) \in Int  BY CubicIs, FieldIs DEF Coordinates
  <2>2. (P + 1) \div 4 \in Nat  BY FieldIs
  <2> QED BY <2>1, <2>2, PowerIs DEF SquareRoot
<1>2. ASSUME IsOnCurve(<<a, c>>) PROVE SquareRoot(a) \in {c, (-c) % P}
  <2>1. Cubic(a) = (c * c) % P  BY <1>2, OnCurveIs
  <2> QED BY <2>1, SquareRoots DEF SquareRoot
<1> QED BY <1>1, <1>2

\* decode_point of a compressed code yields the coordinate of that parity.
LEMMA DecodeIs ==
  \A a \in Int : \A sign \in {2, 3} :
     LET root == SquareRoot(a)
         c == IF root % 2 = sign % 2 THEN root ELSE (-root) % P
     IN /\ c \in Coordinates
        /\ IsOnCurve(<<a, c>>) <=> IsOnCurve(<<a, root>>)
        /\ IsOnCurve(<<a, c>>) => DecodePoint(<<sign, a>>) = <<a, c>>
        /\ ~IsOnCurve(<<a, c>>) => DecodePoint(<<sign, a>>) = <<"raises">>
<1> TAKE a \in Int
<1> TAKE sign \in {2, 3}
<1> DEFINE root == SquareRoot(a)
           c == IF root % 2 = sign % 2 THEN root ELSE (-root) % P
<1>0. 0 \in Coordinates  BY FieldIs DEF Coordinates
<1>1. root \in Coordinates  BY <1>0, RootsOfPoints
<1>2. c \in Coordinates  BY <1>1, Signs
<1>3. IsOnCurve(<<a, c>>) <=> IsOnCurve(<<a, root>>)  BY <1>1, OnCurveIs
<1>4. DecodePoint(<<sign, a>>) = IF IsOnCurve(<<a, c>>) THEN <<a, c>> ELSE <<"raises">>
  BY DEF DecodePoint
<1> HIDE DEF c, root
<1> QED BY <1>2, <1>3, <1>4 DEF c, root

\* What is encoded is decoded, in either form.
THEOREM EncodedIsDecoded ==
  ASSUME NEW pt \in Curve \ {Infinity}
  PROVE  DecodePoint(EncodePoint(pt)) = pt /\ DecodePoint(Compressed(pt)) = pt
<1>1. pt \in Coordinates \X Coordinates /\ IsOnCurve(pt)  BY DEF Curve, Points
<1>2. PICK a \in Coordinates, c \in Coordinates : pt = <<a, c>>  BY <1>1
<1>3. a \in Int /\ IsOnCurve(<<a, c>>)  BY <1>1, <1>2, FieldIs DEF Coordinates
<1>4. DecodePoint(EncodePoint(pt)) = pt
  <2>1. EncodePoint(pt) = <<4, a, c>>  BY <1>2 DEF EncodePoint
  <2>2. DecodePoint(<<4, a, c>>) = IF IsOnCurve(<<a, c>>) THEN <<a, c>> ELSE <<"raises">>
    BY DEF DecodePoint
  <2> QED BY <1>2, <1>3, <2>1, <2>2
<1>5. DecodePoint(Compressed(pt)) = pt
  <2> DEFINE sign == 2 + (c % 2)
             root == SquareRoot(a)
             d == IF root % 2 = sign % 2 THEN root ELSE (-root) % P
  <2>1. Compressed(pt) = <<sign, a>>  BY <1>2 DEF Compressed
  <2>2. sign \in {2, 3} /\ sign % 2 = c % 2
    <3>1. c % 2 \in {0, 1} /\ (2 + (c % 2)) % 2 = c % 2  BY Signs
    <3> QED BY <3>1
  <2>3. root \in {c, (-c) % P}  BY <1>3, RootsOfPoints
  <2> HIDE DEF root, sign
  <2>4. d = c
    <3>1. CASE root = c  BY <2>2, <3>1
    <3>2. CASE root # c
      <4>1. root = (-c) % P /\ (-root) % P = c  BY <2>3, <3>2, Signs
      <4>2. c # 0  BY <3>2, <4>1, Signs
      <4>3. root % 2 # sign % 2  BY <2>2, <4>1, <4>2, Signs
      <4> QED BY <4>1, <4>3
    <3> QED BY <3>1, <3>2
  <2>5. DecodePoint(<<sign, a>>) = <<a, c>>
    BY <1>3, <2>2, <2>4, DecodeIs DEF root
  <2> QED BY <1>2, <2>1, <2>5
<1> QED BY <1>4, <1>5

\* A coordinate is refused exactly when no point has it.
LEMMA RefusedIsNowhere ==
  ASSUME NEW a \in Int, NEW sign \in {2, 3}
  PROVE  DecodePoint(<<sign, a>>) = <<"raises">>
           <=> \A c \in Coordinates : ~IsOnCurve(<<a, c>>)
<1> DEFINE root == SquareRoot(a)
           d == IF root % 2 = sign % 2 THEN root ELSE (-root) % P
<1>0. 0 \in Coordinates  BY FieldIs DEF Coordinates
<1>1. root \in Coordinates /\ d \in Coordinates  BY <1>0, RootsOfPoints, DecodeIs
<1>2. /\ IsOnCurve(<<a, d>>) <=> IsOnCurve(<<a, root>>)
      /\ IsOnCurve(<<a, d>>) => DecodePoint(<<sign, a>>) = <<a, d>>
      /\ ~IsOnCurve(<<a, d>>) => DecodePoint(<<sign, a>>) = <<"raises">>
  BY DecodeIs
<1>3. ASSUME NEW c \in Coordinates, IsOnCurve(<<a, c>>) PROVE IsOnCurve(<<a, root>>)
  <2>1. root \in {c, (-c) % P}  BY <1>3, RootsOfPoints
  <2>2. IsOnCurve(<<a, (-c) % P>>)  BY <1>3, OnCurveIs
  <2> QED BY <1>3, <2>1, <2>2
<1>4. <<a, d>> # <<"raises">>
  <2>1. Len(<<a, d>>) = 2 /\ Len(<<"raises">>) = 1  OBVIOUS
  <2> QED BY <2>1
<1> HIDE DEF root, d
<1> QED BY <1>1, <1>2, <1>3, <1>4

-----------------------------------------------------------------------------
(* Scalars and points *)

\* A scalar below the order is its own remainder, and every scalar has one.
LEMMA Remainders ==
    /\ Order \in Nat /\ Order > 1
    /\ \A k \in Nat : k % Order \in 0..(Order - 1)
    /\ \A k \in 0..(Order - 1) : k % Order = k
PROOF BY CurveAssumption

\* Scalars count modulo the order.
LEMMA ScalarsAreReduced ==
    ASSUME NEW p, NEW k \in Nat
    PROVE  MultiplyPoint(p, k) = MultiplyPoint(p, k % Order)
PROOF BY Remainders DEF MultiplyPoint

\* The laws of the group for scalars of any size.
LEMMA Products ==
    ASSUME NEW p \in Curve, NEW j \in Nat, NEW k \in Nat
    PROVE  /\ MultiplyPoint(p, k) \in Curve
           /\ MultiplyPoint(MultiplyPoint(p, j), k)
                = MultiplyPoint(MultiplyPoint(p, k), j)
           /\ p # Infinity /\ MultiplyPoint(p, j) = MultiplyPoint(p, k)
                => j % Order = k % Order
PROOF
<1>1. PICK i \in 0..(Order - 1), h \in 0..(Order - 1) :
        i = j % Order /\ h = k % Order
    BY Remainders
<1>2. /\ MultiplyPoint(p, h) \in Curve
      /\ MultiplyPoint(MultiplyPoint(p, i), h) = MultiplyPoint(MultiplyPoint(p, h), i)
      /\ p # Infinity /\ MultiplyPoint(p, i) = MultiplyPoint(p, h) => i = h
    BY Multiples
<1>3. \A q : MultiplyPoint(q, j) = MultiplyPoint(q, i)
    BY <1>1, ScalarsAreReduced
<1>4. \A q : MultiplyPoint(q, k) = MultiplyPoint(q, h)
    BY <1>1, ScalarsAreReduced
<1>5. MultiplyPoint(MultiplyPoint(p, j), k) = MultiplyPoint(MultiplyPoint(p, i), h)
    BY <1>3, <1>4, Zenon
<1>6. MultiplyPoint(MultiplyPoint(p, k), j) = MultiplyPoint(MultiplyPoint(p, h), i)
    BY <1>3, <1>4, Zenon
<1> QED
    BY <1>1, <1>2, <1>3, <1>4, <1>5, <1>6

\* A product is the point at infinity only when a factor is zero.
LEMMA ZeroProducts ==
    ASSUME NEW p \in Curve, NEW k \in Nat, MultiplyPoint(p, k) = Infinity
    PROVE  p = Infinity \/ k % Order = 0
PROOF
<1>1. MultiplyPoint(p, 0) = Infinity
    BY MultiplyIsRepeated, RepeatedIs
<1>2. 0 % Order = 0
    BY Remainders
<1> QED
    BY <1>1, <1>2, Products

\* Taking the mask away again leaves the share that was masked.
LEMMA UnmaskingUndoesMasking ==
    ASSUME NEW p \in Curve, NEW mask \in Curve, NEW w \in Pairs
    PROVE  Unmask(AddPoints(p, MultiplyPoint(mask, w[1])), mask, w) = p
PROOF
<1> DEFINE masked == MultiplyPoint(mask, w[1])
<1>1. w[1] \in Nat
    BY CurveAssumption DEF Pairs
<1>2. masked \in Curve
    BY <1>1, Products
<1>3. Negate(masked) \in Curve /\ AddPoints(masked, Negate(masked)) = Infinity
    BY <1>2, GroupAssumption
<1>4. AddPoints(AddPoints(p, masked), Negate(masked))
        = AddPoints(p, AddPoints(masked, Negate(masked)))
    BY <1>2, <1>3, GroupAssumption
<1>5. AddPoints(p, Infinity) = p
    BY DEF AddPoints
<1> QED
    BY <1>3, <1>4, <1>5 DEF Unmask

\* Different points have different encodings.
LEMMA EncodingsDiffer ==
    ASSUME NEW p \in Curve \ {Infinity}, NEW q \in Curve \ {Infinity},
           EncodePoint(p) = EncodePoint(q)
    PROVE  p = q
PROOF
<1>1. p \in Coordinates \X Coordinates /\ q \in Coordinates \X Coordinates
    BY DEF Curve, Points
<1> QED
    BY <1>1 DEF EncodePoint

-----------------------------------------------------------------------------
(* The exchange *)

\* The scalars of a side: those it draws, and those of an earlier exchange.
Scalars == 1..(Order - 1)

LEMMA ScalarsAreNumbers ==
    /\ \A k \in Scalars : k \in Nat /\ k % Order # 0
    /\ \A w \in Pairs : w[1] \in Nat /\ w[2] \in Nat
PROOF
<1>1. \A k \in Scalars : k \in Nat /\ k % Order # 0
    BY Remainders DEF Scalars
<1>2. \A w \in Pairs : w[1] \in Nat /\ w[2] \in Nat
    BY CurveAssumption DEF Pairs
<1> QED
    BY <1>1, <1>2

LEMMA SharesAreOnTheCurve ==
    ASSUME NEW k \in Scalars, NEW w \in Pairs
    PROVE  /\ ClientShare(k, w) \in Curve
           /\ ServerShare(k, w) \in Curve
           /\ MultiplyPoint(G, k) \in Curve \ {Infinity}
           /\ Unmask(ClientShare(k, w), M, w) = MultiplyPoint(G, k)
           /\ Unmask(ServerShare(k, w), N, w) = MultiplyPoint(G, k)
PROOF
<1>1. {G, M, N} \subseteq Curve \ {Infinity}
    BY GroupAssumption
<1>2. k \in Nat /\ w[1] \in Nat
    BY ScalarsAreNumbers
<1>3. /\ MultiplyPoint(G, k) \in Curve
      /\ MultiplyPoint(M, w[1]) \in Curve
      /\ MultiplyPoint(N, w[1]) \in Curve
    BY <1>1, <1>2, Products
<1>4. MultiplyPoint(G, k) # Infinity
    <2>1. k % Order # 0
        BY ScalarsAreNumbers
    <2> QED
        BY <1>1, <1>2, <2>1, ZeroProducts
<1>5. ClientShare(k, w) \in Curve /\ ServerShare(k, w) \in Curve
    BY <1>3, GroupAssumption DEF ClientShare, ServerShare
<1> QED
    BY <1>1, <1>3, <1>4, <1>5, UnmaskingUndoesMasking DEF ClientShare, ServerShare

LEMMA UnmaskingStaysOnTheCurve ==
    ASSUME NEW p \in Curve, NEW w \in Pairs
    PROVE  Unmask(p, M, w) \in Curve /\ Unmask(p, N, w) \in Curve
PROOF
<1>1. M \in Curve /\ N \in Curve /\ w[1] \in Nat
    BY GroupAssumption, ScalarsAreNumbers
<1>2. MultiplyPoint(M, w[1]) \in Curve /\ MultiplyPoint(N, w[1]) \in Curve
    BY <1>1, Products
<1> QED
    BY <1>2, GroupAssumption DEF Unmask

\* The two shared points, as the client works them out from a share that was
\* masked with its own w0, and as the server does.
LEMMA SharedPoints ==
    ASSUME NEW j \in Scalars, NEW k \in Scalars, NEW w \in Pairs, NEW v \in Pairs
    PROVE  /\ MultiplyPoint(Unmask(ServerShare(k, w), N, w), j)
                = MultiplyPoint(Unmask(ClientShare(j, w), M, w), k)
           /\ MultiplyPoint(MultiplyPoint(G, v[2]), k)
                = MultiplyPoint(Unmask(ServerShare(k, w), N, w), v[2])
PROOF
<1>1. G \in Curve
    BY GroupAssumption
<1>2. j \in Nat /\ k \in Nat /\ v[2] \in Nat
    BY ScalarsAreNumbers
<1>3. /\ Unmask(ServerShare(k, w), N, w) = MultiplyPoint(G, k)
      /\ Unmask(ClientShare(j, w), M, w) = MultiplyPoint(G, j)
    BY SharesAreOnTheCurve
<1> QED
    BY <1>1, <1>2, <1>3, Products

\* A transcript is lost exactly when one of its points cannot be encoded.
LEMMA LostTranscripts ==
    ASSUME NEW a, NEW b, NEW c, NEW d, NEW w
    PROVE  /\ Transcript(a, b, c, d, w) = <<"raises">>
                <=> Infinity \in {a, b, c, d}
           /\ Transcript(a, b, c, d, w) # <<"raises">>
                => Transcript(a, b, c, d, w)[1] = "transcript"
PROOF BY DEF Transcript

\* Equal transcripts are made of equal points and equal first scalars.
LEMMA EqualTranscripts ==
    ASSUME NEW a, NEW b, NEW c, NEW d, NEW w, NEW e, NEW f, NEW g, NEW h, NEW v,
           Transcript(a, b, c, d, w) # <<"raises">>,
           Transcript(a, b, c, d, w) = Transcript(e, f, g, h, v)
    PROVE  /\ Infinity \notin {a, b, c, d, e, f, g, h}
           /\ EncodePoint(a) = EncodePoint(e)
           /\ EncodePoint(b) = EncodePoint(f)
           /\ EncodePoint(c) = EncodePoint(g)
           /\ EncodePoint(d) = EncodePoint(h)
           /\ w[1] = v[1]
PROOF
<1>1. Infinity \notin {a, b, c, d} /\ Infinity \notin {e, f, g, h}
    BY LostTranscripts
<1>2. <<"transcript", EncodePoint(a), EncodePoint(b), EncodePoint(c),
        EncodePoint(d), w[1]>>
        = <<"transcript", EncodePoint(e), EncodePoint(f), EncodePoint(g),
            EncodePoint(h), v[1]>>
    BY <1>1 DEF Transcript
<1> QED
    BY <1>1, <1>2

\* The same code gives both sides the same transcript.
LEMMA SameCodeSameTranscript ==
    ASSUME NEW j \in Scalars, NEW k \in Scalars, NEW w \in Pairs, NEW v \in Pairs,
           w[1] = v[1], w[2] % Order = v[2] % Order
    PROVE  ClientFinish(j, w, ServerShare(k, v)) = ServerFinish(k, v, ClientShare(j, w))
PROOF
<1>1. /\ ServerShare(k, v) = ServerShare(k, w)
      /\ ClientShare(j, w) = ClientShare(j, v)
    BY DEF ServerShare, ClientShare
<1>2. /\ MultiplyPoint(Unmask(ServerShare(k, v), N, v), j)
            = MultiplyPoint(Unmask(ClientShare(j, v), M, v), k)
      /\ MultiplyPoint(MultiplyPoint(G, v[2]), k)
            = MultiplyPoint(Unmask(ServerShare(k, v), N, v), v[2])
    BY SharedPoints
<1>3. Unmask(ServerShare(k, v), N, w) = Unmask(ServerShare(k, v), N, v)
    BY DEF Unmask
<1>4. MultiplyPoint(Unmask(ServerShare(k, v), N, v), v[2])
        = MultiplyPoint(Unmask(ServerShare(k, v), N, v), w[2])
    <2>1. w[2] \in Nat /\ v[2] \in Nat
        BY ScalarsAreNumbers
    <2> QED
        BY <2>1, ScalarsAreReduced
<1> QED
    BY <1>1, <1>2, <1>3, <1>4 DEF ClientFinish, ServerFinish, Transcript

\* Only the same code gives both sides the same transcript, and only for the
\* share the client sent: whatever pair u masked the share that was answered.
LEMMA SameTranscriptSameCode ==
    ASSUME NEW i \in Scalars, NEW j \in Scalars, NEW k \in Scalars,
           NEW u \in Pairs, NEW w \in Pairs, NEW v \in Pairs,
           ClientFinish(j, w, ServerShare(k, v)) # <<"raises">>,
           ClientFinish(j, w, ServerShare(k, v)) = ServerFinish(k, v, ClientShare(i, u))
    PROVE  /\ w[1] = v[1]
           /\ w[2] % Order = v[2] % Order
           /\ ClientShare(i, u) = ClientShare(j, w)
PROOF
<1> DEFINE clientSees == Unmask(ServerShare(k, v), N, w)
           serverSees == Unmask(ClientShare(i, u), M, v)
<1>1. /\ ClientShare(j, w) \in Curve /\ ClientShare(i, u) \in Curve
      /\ ServerShare(k, v) \in Curve
      /\ MultiplyPoint(G, k) \in Curve \ {Infinity}
    BY SharesAreOnTheCurve
<1>2. clientSees \in Curve /\ serverSees \in Curve
    BY <1>1, UnmaskingStaysOnTheCurve
<1>3. /\ j \in Nat /\ k \in Nat /\ w[2] \in Nat /\ v[2] \in Nat
      /\ G \in Curve
    BY ScalarsAreNumbers, GroupAssumption
<1>4. /\ MultiplyPoint(clientSees, j) \in Curve
      /\ MultiplyPoint(clientSees, w[2]) \in Curve
      /\ MultiplyPoint(serverSees, k) \in Curve
      /\ MultiplyPoint(MultiplyPoint(G, v[2]), k) \in Curve
    BY <1>2, <1>3, Products
<1>5. /\ ClientShare(j, w) = ClientShare(i, u)
      /\ MultiplyPoint(clientSees, w[2]) = MultiplyPoint(MultiplyPoint(G, v[2]), k)
      /\ w[1] = v[1]
    <2> DEFINE c == MultiplyPoint(clientSees, j)
               d == MultiplyPoint(clientSees, w[2])
               g == MultiplyPoint(serverSees, k)
               h == MultiplyPoint(MultiplyPoint(G, v[2]), k)
    <2>1. /\ Transcript(ClientShare(j, w), ServerShare(k, v), c, d, w) # <<"raises">>
          /\ Transcript(ClientShare(j, w), ServerShare(k, v), c, d, w)
                = Transcript(ClientShare(i, u), ServerShare(k, v), g, h, v)
        BY DEF ClientFinish, ServerFinish
    <2> HIDE DEF c, d, g, h
    <2>2. c \in Curve /\ d \in Curve /\ g \in Curve /\ h \in Curve
        BY <1>4 DEF c, d, g, h
    <2>3. /\ Infinity \notin {ClientShare(j, w), ClientShare(i, u), d, h}
          /\ EncodePoint(ClientShare(j, w)) = EncodePoint(ClientShare(i, u))
          /\ EncodePoint(d) = EncodePoint(h)
          /\ w[1] = v[1]
        BY <2>1, EqualTranscripts
    <2>4. ClientShare(j, w) = ClientShare(i, u) /\ d = h
        BY <1>1, <2>2, <2>3, EncodingsDiffer
    <2> QED
        BY <2>3, <2>4 DEF d, h
<1>6. clientSees = MultiplyPoint(G, k)
    <2>1. clientSees = Unmask(ServerShare(k, v), N, v)
        BY <1>5 DEF Unmask
    <2> QED
        BY <2>1, SharesAreOnTheCurve
<1>7. MultiplyPoint(MultiplyPoint(G, k), w[2]) = MultiplyPoint(MultiplyPoint(G, k), v[2])
    BY <1>3, <1>5, <1>6, Products
<1>8. w[2] % Order = v[2] % Order
    BY <1>1, <1>3, <1>7, Products
<1> QED
    BY <1>5, <1>8

-----------------------------------------------------------------------------
(* The conversation *)

\* Both transcripts exist, and the client's is the one it must be.
BothFinished ==
    /\ secret = ClientFinish(x, wc, ServerShareOf(push))
    /\ secret # <<"raises">>
    /\ ServerSide(push) # <<"raises">>

\* The inductive invariant: what each side holds at each stage, and for what
\* reason alone the conversation was given up.
StagesAreKnown ==
    /\ stage \in {"processed", "refused", "verified", "agreed", "opened"} => BothFinished
    /\ rawKey.client # None =>
        /\ BothFinished
        /\ secret = ServerSide(push)
        /\ stage \in {"refused", "raised", "verified", "agreed", "opened"}
    /\ stage \in {"verified", "agreed"} => rawKey.client = SharedKey(secret)
    /\ stage = "agreed" => rawKey.server = SharedKey(secret)
    /\ stage = "refused" => ~(SameCode /\ push = "own")
    /\ stage = "raised" =>
        \/ Infinity \in {ClientShare(x, wc), Unmask(ServerShareOf(push), N, wc)}
        \/ wc[2] % Order = 0

ConversationIsKnown == TypeOK /\ StagesAreKnown

\* The server's side of the push, whichever exchange it belongs to, is a
\* transcript worked out for the share it answers.
LEMMA PushesAnswerShares ==
    ASSUME TypeOK
    PROVE  \E i \in Scalars, k \in Scalars, u \in Pairs :
              /\ ServerShareOf(push) = ServerShare(k, ws)
              /\ ServerSide(push) = ServerFinish(k, ws, ClientShare(i, u))
              /\ push = "own" => i = x /\ k = y /\ u = wc
              /\ push = "earlier" => i = StaleX /\ u = ws
PROOF
<1>1. /\ x \in Scalars /\ y \in Scalars /\ StaleX \in Scalars /\ StaleY \in Scalars
      /\ wc \in Pairs /\ ws \in Pairs
    BY CurveAssumption DEF TypeOK, Scalars
<1>2. CASE push = "own"
    BY <1>1, <1>2 DEF ServerShareOf, ServerSide
<1>3. CASE push # "own"
    <2>1. push = "earlier"
        BY <1>3 DEF TypeOK
    <2>2. /\ ServerShareOf(push) = ServerShare(StaleY, ws)
          /\ ServerSide(push) = ServerFinish(StaleY, ws, ClientShare(StaleX, ws))
        BY <1>3 DEF ServerShareOf, ServerSide
    <2> QED
        BY <1>1, <2>1, <2>2
<1> QED
    BY <1>2, <1>3

\* What the algebra says of a conversation: equal transcripts mean the same
\* code and this very share, and the same code means equal transcripts.
LEMMA EqualTranscriptsConvince ==
    ASSUME TypeOK, BothFinished, secret = ServerSide(push)
    PROVE  /\ SameCode
           /\ push = "earlier" => ClientShare(StaleX, ws) = ClientShare(x, wc)
PROOF
<1>1. PICK i \in Scalars, k \in Scalars, u \in Pairs :
              /\ ServerShareOf(push) = ServerShare(k, ws)
              /\ ServerSide(push) = ServerFinish(k, ws, ClientShare(i, u))
              /\ push = "earlier" => i = StaleX /\ u = ws
    BY PushesAnswerShares
<1>2. x \in Scalars /\ wc \in Pairs /\ ws \in Pairs
    BY DEF TypeOK, Scalars
<1>3. /\ ClientFinish(x, wc, ServerShare(k, ws)) # <<"raises">>
      /\ ClientFinish(x, wc, ServerShare(k, ws)) = ServerFinish(k, ws, ClientShare(i, u))
    BY <1>1 DEF BothFinished
<1>4. /\ wc[1] = ws[1]
      /\ wc[2] % Order = ws[2] % Order
      /\ ClientShare(i, u) = ClientShare(x, wc)
    BY <1>2, <1>3, SameTranscriptSameCode
<1> QED
    BY <1>1, <1>4 DEF SameCode

LEMMA SameCodeConvinces ==
    ASSUME TypeOK, BothFinished, SameCode, push = "own"
    PROVE  secret = ServerSide(push)
PROOF
<1>1. x \in Scalars /\ y \in Scalars /\ wc \in Pairs /\ ws \in Pairs
    BY DEF TypeOK, Scalars
<1>2. ClientFinish(x, wc, ServerShare(y, ws)) = ServerFinish(y, ws, ClientShare(x, wc))
    BY <1>1, SameCodeSameTranscript DEF SameCode
<1> QED
    BY <1>2 DEF BothFinished, ServerShareOf, ServerSide

\* The client's side is lost only by the accidents SameCodeNeverRefused names.
LEMMA ClientLosesByAccident ==
    ASSUME TypeOK, ClientShare(x, wc) # Infinity, ServerSide(push) # <<"raises">>,
           ClientFinish(x, wc, ServerShareOf(push)) = <<"raises">>
    PROVE  Unmask(ServerShareOf(push), N, wc) = Infinity \/ wc[2] % Order = 0
PROOF
<1> DEFINE sees == Unmask(ServerShareOf(push), N, wc)
<1>1. PICK i \in Scalars, k \in Scalars, u \in Pairs :
              /\ ServerShareOf(push) = ServerShare(k, ws)
              /\ ServerSide(push) = ServerFinish(k, ws, ClientShare(i, u))
    BY PushesAnswerShares
<1>2. x \in Scalars /\ wc \in Pairs /\ ws \in Pairs
    BY DEF TypeOK, Scalars
<1>3. ServerShareOf(push) # Infinity
    BY <1>1, LostTranscripts DEF ServerFinish
<1>4. Infinity \in {ClientShare(x, wc), ServerShareOf(push),
                    MultiplyPoint(sees, x), MultiplyPoint(sees, wc[2])}
    BY LostTranscripts DEF ClientFinish
<1>5. MultiplyPoint(sees, x) = Infinity \/ MultiplyPoint(sees, wc[2]) = Infinity
    BY <1>3, <1>4
<1>6. sees \in Curve
    BY <1>1, <1>2, SharesAreOnTheCurve, UnmaskingStaysOnTheCurve
<1>7. x \in Nat /\ x % Order # 0 /\ wc[2] \in Nat
    BY <1>2, ScalarsAreNumbers
<1> QED
    BY <1>5, <1>6, <1>7, ZeroProducts

\* Equal transcripts give equal confirmations, and only they do.
LEMMA ConfirmationsAreKeyed ==
    ASSUME NEW s, NEW t
    PROVE  /\ ServerConfirmation(s) = ServerConfirmation(t) <=> s = t
           /\ ClientConfirmation(s) = ClientConfirmation(t) <=> s = t
PROOF BY DEF ServerConfirmation, ClientConfirmation

LEMMA ConversationStartsKnown == Init => ConversationIsKnown
PROOF BY DEF Init, ConversationIsKnown, TypeOK, StagesAreKnown, None

LEMMA ConversationStaysKnown == ConversationIsKnown /\ [Next]_vars => ConversationIsKnown'
PROOF
<1> SUFFICES ASSUME ConversationIsKnown, [Next]_vars
             PROVE  ConversationIsKnown'
    OBVIOUS
<1> USE DEF ConversationIsKnown
<1>1. CASE GetMessage1
    <2>1. TypeOK'
        BY <1>1 DEF GetMessage1, Raise, TypeOK
    <2>2. StagesAreKnown'
        BY <1>1 DEF GetMessage1, Raise, TypeOK, StagesAreKnown, ServerShareOf
    <2> QED
        BY <2>1, <2>2
<1>2. CASE ProcessMessage1
    <2> DEFINE t == ClientFinish(x, wc, ServerShareOf(push))
    <2>1. CASE t = <<"raises">>
        <3>1. stage' = "raised" /\ UNCHANGED <<x, y, wc, ws, push, secret, rawKey, opened>>
            BY <1>2, <2>1 DEF ProcessMessage1, Raise
        <3>2. stage = "asked" /\ ServerSide(push) # <<"raises">>
            BY <1>2 DEF ProcessMessage1
        <3>3. \/ Infinity \in {ClientShare(x, wc), Unmask(ServerShareOf(push), N, wc)}
              \/ wc[2] % Order = 0
            BY <2>1, <3>2, ClientLosesByAccident
        <3>4. TypeOK'
            BY <3>1 DEF TypeOK
        <3>5. StagesAreKnown'
            BY <3>1, <3>2, <3>3 DEF StagesAreKnown, ServerShareOf
        <3> QED
            BY <3>4, <3>5
    <2>2. CASE t # <<"raises">>
        <3>1. /\ secret' = t /\ stage' = "processed"
              /\ UNCHANGED <<x, y, wc, ws, push, rawKey, opened>>
            BY <1>2, <2>2 DEF ProcessMessage1
        <3>2. stage = "asked" /\ ServerSide(push) # <<"raises">>
            BY <1>2 DEF ProcessMessage1
        <3>3. t[1] = "transcript"
            BY <2>2, LostTranscripts DEF ClientFinish
        <3>4. TypeOK'
            BY <3>1, <3>3 DEF TypeOK
        <3>5. ServerShareOf(push)' = ServerShareOf(push) /\ ServerSide(push)' = ServerSide(push)
            BY <3>1 DEF ServerShareOf, ServerSide
        <3>6. BothFinished'
            BY <2>2, <3>1, <3>2, <3>5 DEF BothFinished
        <3>7. rawKey.client = None
            BY <3>2 DEF StagesAreKnown
        <3>8. StagesAreKnown'
            BY <3>1, <3>6, <3>7 DEF StagesAreKnown
        <3> QED
            BY <3>4, <3>8
    <2> QED
        BY <2>1, <2>2
<1>3. CASE ProcessMessage2
    <2>1. /\ stage = "processed" /\ rawKey.client = None /\ BothFinished
          /\ UNCHANGED <<x, y, wc, ws, push, secret, opened>>
        BY <1>3 DEF ProcessMessage2, StagesAreKnown
    <2>2. /\ BothFinished' /\ (secret = ServerSide(push) => (secret = ServerSide(push))')
          /\ SameCode' <=> SameCode
        BY <2>1 DEF BothFinished, ServerShareOf, ServerSide, SameCode
    <2>3. CASE secret = ServerSide(push)
        <3>1. stage' = "verified" /\ rawKey' = [rawKey EXCEPT !.client = SharedKey(secret)]
            BY <1>3, <2>3, ConfirmationsAreKeyed DEF ProcessMessage2
        <3>2. TypeOK'
            BY <2>1, <3>1 DEF TypeOK
        <3>3. rawKey'.client = SharedKey(secret)
            BY <3>1 DEF TypeOK
        <3>4. StagesAreKnown'
            BY <2>1, <2>2, <2>3, <3>1, <3>3 DEF StagesAreKnown
        <3> QED
            BY <3>2, <3>4
    <2>4. CASE secret # ServerSide(push)
        <3>1. stage' = "refused" /\ UNCHANGED rawKey
            BY <1>3, <2>4, ConfirmationsAreKeyed DEF ProcessMessage2
        <3>2. TypeOK'
            BY <2>1, <3>1 DEF TypeOK
        <3>3. ~(SameCode /\ push = "own")
            BY <2>1, <2>4, SameCodeConvinces
        <3>4. StagesAreKnown'
            BY <2>1, <2>2, <3>1, <3>3 DEF StagesAreKnown
        <3> QED
            BY <3>2, <3>4
    <2> QED
        BY <2>3, <2>4
<1>4. CASE VerifyMessage2
    <2> DEFINE t == ServerFinish(y, ws, ClientShare(x, wc))
    <2>1. /\ stage = "verified" /\ BothFinished
          /\ rawKey.client = SharedKey(secret)
          /\ UNCHANGED <<x, y, wc, ws, push, secret, opened>>
        BY <1>4 DEF VerifyMessage2, StagesAreKnown
    <2>2. secret = ServerSide(push)
        BY <2>1 DEF StagesAreKnown, SharedKey, None
    <2>3. /\ BothFinished' /\ (secret = ServerSide(push))'
          /\ SameCode' <=> SameCode
        BY <2>1, <2>2 DEF BothFinished, ServerShareOf, ServerSide, SameCode
    <2>4. CASE secret = t
        <3>1. stage' = "agreed" /\ rawKey' = [rawKey EXCEPT !.server = SharedKey(t)]
            BY <1>4, <2>1, <2>4, ConfirmationsAreKeyed DEF VerifyMessage2, BothFinished
        <3>2. TypeOK'
            BY <2>1, <3>1 DEF TypeOK
        <3>3. rawKey'.client = SharedKey(secret) /\ rawKey'.server = SharedKey(secret)
            BY <2>1, <2>4, <3>1 DEF TypeOK
        <3>4. StagesAreKnown'
            BY <2>1, <2>3, <3>1, <3>3 DEF StagesAreKnown
        <3> QED
            BY <3>2, <3>4
    <2>5. CASE secret # t
        <3>1. stage' = "refused" /\ UNCHANGED rawKey
            BY <1>4, <2>5, ConfirmationsAreKeyed DEF VerifyMessage2
        <3>2. TypeOK'
            BY <2>1, <3>1 DEF TypeOK
        <3>3. push # "own"
            BY <2>2, <2>5 DEF ServerSide
        <3>4. StagesAreKnown'
            BY <2>1, <2>3, <3>1, <3>3 DEF StagesAreKnown
        <3> QED
            BY <3>2, <3>4
    <2> QED
        BY <2>4, <2>5
<1>5. CASE Decrypt
    <2>1. /\ stage = "agreed"
          /\ rawKey.client = SharedKey(secret) /\ rawKey.server = SharedKey(secret)
          /\ UNCHANGED <<x, y, wc, ws, push, secret, rawKey>>
        BY <1>5 DEF Decrypt, StagesAreKnown
    <2>2. BothFinished /\ secret = ServerSide(push)
        BY <2>1 DEF StagesAreKnown, SharedKey, None
    <2>3. stage' = "opened"
        BY <1>5, <2>1 DEF Decrypt, Sealed
    <2>4. BothFinished' /\ (secret = ServerSide(push))'
        BY <2>1, <2>2 DEF BothFinished, ServerShareOf, ServerSide
    <2>5. TypeOK'
        BY <2>1, <2>3 DEF TypeOK
    <2>6. StagesAreKnown'
        BY <2>3, <2>4 DEF StagesAreKnown
    <2> QED
        BY <2>5, <2>6
<1>6. CASE UNCHANGED vars
    BY <1>6 DEF vars, TypeOK, StagesAreKnown, BothFinished, ServerShareOf, ServerSide, SameCode
<1> QED
    BY <1>1, <1>2, <1>3, <1>4, <1>5, <1>6 DEF Next, Done

\* The arithmetic holds in every state, because its points are on the curve.
LEMMA KnownPointsAreRight ==
    ASSUME TypeOK
    PROVE  PointsAreRight
PROOF
<1>1. /\ x \in Scalars /\ y \in Scalars /\ x \in Int
      /\ wc \in Pairs /\ ws \in Pairs
    BY OrderIs DEF TypeOK, Scalars
<1>2. ClientShare(x, wc) \in Curve /\ ServerShare(y, ws) \in Curve
    BY <1>1, SharesAreOnTheCurve
<1>3. {G, M, N, ClientShare(x, wc)} \subseteq Curve
    BY <1>2, GroupAssumption
<1>4. {x, y, wc[1], ws[2]} \subseteq Nat
    BY <1>1, ScalarsAreNumbers
<1>5. MultiplyIsRepeatedAddition
    <2>1. ASSUME NEW pt \in Curve, NEW k \in Nat
          PROVE  /\ MultiplyPoint(pt, k) = Repeated(pt, k)
                 /\ MultiplyPoint(pt, k) = Infinity \/ IsOnCurve(MultiplyPoint(pt, k))
        <3>1. MultiplyPoint(pt, k) \in Curve
            BY MultiplyIsRepeated
        <3> QED
            BY <3>1, MultiplyIsRepeated DEF Curve
    <2> QED
        BY <1>3, <1>4, <2>1 DEF MultiplyIsRepeatedAddition
<1>6. EncodingsAgree
    <2>1. ASSUME NEW pt \in {ClientShare(x, wc), ServerShare(y, ws)} \ {Infinity}
          PROVE  DecodePoint(EncodePoint(pt)) = pt /\ DecodePoint(Compressed(pt)) = pt
        <3>1. pt \in Curve \ {Infinity}
            BY <1>2
        <3> QED
            BY <3>1, EncodedIsDecoded
    <2>2. ASSUME NEW sign \in {2, 3}
          PROVE  DecodePoint(<<sign, x>>) = <<"raises">>
                   <=> \A c \in Coordinates : ~IsOnCurve(<<x, c>>)
        BY <1>1, RefusedIsNowhere
    <2> QED
        BY <2>1, <2>2 DEF EncodingsAgree
<1> QED
    BY <1>5, <1>6 DEF PointsAreRight

-----------------------------------------------------------------------------
(* The theorems *)

\* Every state is known in the sense of the inductive invariant: what a side
\* holds is what the exchange yields, never something left from elsewhere.
THEOREM ProverStateIsKnown == Spec => []ConversationIsKnown
PROOF BY ConversationStartsKnown, ConversationStaysKnown, PTL DEF Spec

\* The client is convinced by no one who does not hold its code and answers
\* its own share: process_message2 accepts no other confirmation, on any
\* curve of prime order and for any derived scalars.
THEOREM OnlyTheSameCodeConvinces == Spec => []OnlyTheSameCodeVerifies
PROOF
<1>1. ConversationIsKnown => OnlyTheSameCodeVerifies
    BY EqualTranscriptsConvince
       DEF ConversationIsKnown, StagesAreKnown, OnlyTheSameCodeVerifies
<1> QED
    BY <1>1, ProverStateIsKnown, PTL

\* The right code is never refused, by either side, and the conversation is
\* lost only when a share or the second scalar is zero in the group.
THEOREM TheRightCodeIsNeverRefused == Spec => []SameCodeNeverRefused
PROOF
<1>1. ConversationIsKnown => SameCodeNeverRefused
    BY DEF ConversationIsKnown, StagesAreKnown, SameCodeNeverRefused
<1> QED
    BY <1>1, ProverStateIsKnown, PTL

\* The arithmetic of the exchange is right in every state: _multiply_point's
\* loop is repeated addition for scalars of any size, both encodings of a
\* share are decoded to it (_decode_point finds the root of the right parity),
\* and a coordinate is refused exactly when no point has it.
THEOREM PointsAreAlwaysRight == Spec => []PointsAreRight
PROOF
<1>1. ConversationIsKnown => PointsAreRight
    BY KnownPointsAreRight DEF ConversationIsKnown
<1> QED
    BY <1>1, ProverStateIsKnown, PTL

=============================================================================
