------------------------------ MODULE DteProofs -----------------------------
(***************************************************************************)
(* The amounts of the XML for every price, quantity, discount and rate:    *)
(* how far one line is from exact arithmetic (LineError), and the          *)
(* invariant that carries it to the lines of the XML being built.  The     *)
(* receiver for every NIT a caller may write: once validated, the XML's    *)
(* cleaning leaves it alone, and FELplex's only strips it (BothClean).     *)
(* And the totals, rounded for the one and not for the other (TaxesAgree). *)
(***************************************************************************)
EXTENDS DteProps, SequenceTheorems, WellFoundedInduction, TLAPS

\* What the provers know of \div.
LEMMA Division ==
    ASSUME NEW a \in Nat, NEW b \in Nat \ {0}
    PROVE  /\ a \div b \in Nat
           /\ b * (a \div b) <= a
           /\ a < b * (a \div b) + b
  BY SMT

\* Both sides of an inequality may be multiplied.
LEMMA Monotone ==
    ASSUME NEW x \in Int, NEW y \in Int, NEW k \in Nat, x <= y
    PROVE  k * x <= k * y
  BY SMT

\* R is n/d to the nearest integer: d * R is at most d/2 from n.
Near(R, n, d) == /\ R \in Int
                 /\ 2 * (d * R) <= 2 * n + d
                 /\ 2 * n <= 2 * (d * R) + d

\* quantize(..., ROUND_HALF_UP) of an amount that is not negative...
LEMMA RoundNatError ==
    ASSUME NEW n \in Nat, NEW d \in Nat \ {0}
    PROVE  /\ Near(RoundHalfUp(n, d), n, d)
           /\ RoundHalfUp(n, d) \in Nat
           /\ 2 * n < 2 * (d * RoundHalfUp(n, d)) + d
<1> DEFINE Q == (2 * n + d) \div (2 * d)
<1>1. 2 * n + d \in Nat /\ 2 * d \in Nat \ {0}
  OBVIOUS
<1>2. /\ Q \in Nat
      /\ (2 * d) * Q <= 2 * n + d
      /\ 2 * n + d < (2 * d) * Q + 2 * d
  BY <1>1, Division
<1>3. RoundHalfUp(n, d) = Q
  BY DEF RoundHalfUp
<1> HIDE DEF Q
<1>4. (2 * d) * Q = 2 * (d * Q) /\ d * Q \in Int
  BY <1>2, SMT
<1> QED BY <1>2, <1>3, <1>4 DEF Near

\* ... and of any amount: half a unit of error, on either side of zero.
LEMMA RoundError ==
    ASSUME NEW n \in Int, NEW d \in Nat \ {0}
    PROVE  Near(RoundHalfUp(n, d), n, d)
<1>1. CASE n >= 0
  BY <1>1, RoundNatError
<1>2. CASE n < 0
  <2> DEFINE R == RoundHalfUp(-n, d)
  <2>1. -n \in Nat
    BY <1>2
  <2>2. Near(R, -n, d)
    BY <2>1, RoundNatError
  <2>3. RoundHalfUp(n, d) = -R
    BY <1>2 DEF RoundHalfUp
  <2> HIDE DEF R
  <2>4. R \in Int
    BY <2>2 DEF Near
  <2>5. d * (-R) = -(d * R) /\ d * R \in Int
    BY <2>4, SMT
  <2> QED BY <2>2, <2>3, <2>4, <2>5 DEF Near
<1> QED BY <1>1, <1>2

-----------------------------------------------------------------------------
\* Items and lines, whatever the callers send.
AnyItem == [price : Nat, qty : Nat, discount : Nat]
AnyLine == [precio_unitario : Nat, gravable : Nat, impuesto : Nat, total : Nat]

\* One line.  With K = 100 + rate, M = K * Unit and A the price without rounding, K
\* times the price is within M/2 of A per unit (<1>3), the net total T within 50 * Unit
\* of pu * q - 100 * d (<1>5), so K times it is within (q*M + 100*M)/2 of the exact
\* amount E (<1>7); keeping both from going below zero does not draw them apart (<1>9),
\* and the tax adds half a cent (<1>10).  The products are hidden behind names wherever
\* only their bounds matter.
LEMMA LineError ==
    ASSUME NEW it \in AnyItem, NEW incluido \in BOOLEAN, NEW tasa \in 0 .. 100
    PROVE  /\ pu_sin_iva(it, incluido, tasa) \in Nat
           /\ total_sin_iva(it, incluido, tasa) \in Nat
           /\ iva_item(it, incluido, tasa) \in Nat
           /\ Within(total_sin_iva(it, incluido, tasa) + iva_item(it, incluido, tasa),
                     Exact(it, incluido, tasa), Drift(it, tasa))
<1> DEFINE K == 100 + tasa
           M == K * Unit
           p == it.price
           q == it.qty
           d == it.discount
           pu == pu_sin_iva(it, incluido, tasa)
           N == pu * q - 100 * d
           t == RoundHalfUp(N, 100 * Unit)
           T == Unit * t
           tot == total_sin_iva(it, incluido, tasa)
           iva == iva_item(it, incluido, tasa)
           A == IF incluido THEN 100 * (p * q) ELSE K * (p * q)
           E == A - 100 * (K * d)
<1>1. /\ p \in Nat /\ q \in Nat /\ d \in Nat /\ tasa \in Nat /\ K \in Nat \ {0}
      /\ K = 100 + tasa /\ Unit \in Nat \ {0} /\ M \in Nat \ {0}
      /\ 100 * Unit \in Nat \ {0}
  <2>1. Unit \in Nat \ {0} /\ K \in Nat \ {0}
    BY AmountsAssumption
  <2>2. M \in Nat \ {0}
    <3> HIDE DEF K
    <3> QED BY <2>1, SMT
  <2> QED BY <2>1, <2>2 DEF AnyItem
<1>2. /\ pu \in Nat
      /\ incluido /\ tasa > 0 => /\ pu = Unit * RoundHalfUp(100 * p, M)
                                 /\ Near(RoundHalfUp(100 * p, M), 100 * p, M)
  <2>1. 100 * p \in Nat
    BY <1>1
  <2>2. /\ RoundHalfUp(100 * p, M) \in Nat
        /\ Near(RoundHalfUp(100 * p, M), 100 * p, M)
    <3> HIDE DEF M, p
    <3> QED BY <1>1, <2>1, RoundNatError
  <2>3. pu = IF incluido /\ tasa > 0 THEN Unit * RoundHalfUp(100 * p, M) ELSE p
    BY DEF pu_sin_iva
  <2> HIDE DEF M, p, pu
  <2>4. \A r \in Nat : Unit * r \in Nat
    BY <1>1
  <2> QED BY <1>1, <2>2, <2>3, <2>4
<1>3. /\ 2 * (q * (K * pu)) <= 2 * A + q * M
      /\ 2 * A <= 2 * (q * (K * pu)) + q * M
  <2>1. CASE incluido
    <3> DEFINE z == K * pu
    <3>1. z \in Int /\ 2 * z <= 200 * p + M /\ 200 * p <= 2 * z + M
      <4>1. CASE tasa > 0
        <5> DEFINE r == RoundHalfUp(100 * p, M)
        <5>1. /\ r \in Int /\ 2 * (M * r) <= 200 * p + M /\ 200 * p <= 2 * (M * r) + M
              /\ pu = Unit * r
          <6>1. pu = Unit * r /\ Near(r, 100 * p, M)
            BY <1>2, <2>1, <4>1
          <6> HIDE DEF r, pu, M, p
          <6>2. 2 * (100 * p) = 200 * p
            BY <1>1
          <6> QED BY <6>1, <6>2 DEF Near
        <5> HIDE DEF r, pu, K, p
        <5>2. K * (Unit * r) = (K * Unit) * r /\ (K * Unit) * r \in Int
          BY <1>1, <5>1, SMT
        <5> QED BY <5>1, <5>2
      <4>2. CASE tasa = 0
        <5>1. pu = p /\ K = 100
          BY <1>1, <4>2 DEF pu_sin_iva
        <5> HIDE DEF pu, K, M, p
        <5> QED BY <1>1, <5>1
      <4> QED BY <1>1, <4>1, <4>2
    <3> HIDE DEF p, q, d, K, M, pu, z
    <3>2. /\ q * (2 * z) <= q * (200 * p + M)
          /\ q * (200 * p) <= q * (2 * z + M)
      BY <1>1, <3>1, Monotone
    <3>3. A = 100 * (p * q)
      BY <2>1
    <3>4. /\ q * (2 * z) = 2 * (q * z) /\ q * (200 * p) = 200 * (p * q)
          /\ q * (200 * p + M) = 200 * (p * q) + q * M
          /\ q * (2 * z + M) = 2 * (q * z) + q * M
      BY <1>1, <3>1, SMT
    <3>5. q * z \in Int /\ p * q \in Int /\ q * M \in Int
      BY <1>1, <3>1
    <3> QED BY <3>2, <3>3, <3>4, <3>5 DEF z
  <2>2. CASE ~incluido
    <3>1. pu = p
      BY <2>2 DEF pu_sin_iva
    <3>2. A = K * (p * q)
      BY <2>2
    <3> HIDE DEF p, q, d, K, M, pu
    <3>3. /\ q * (K * pu) = K * (p * q) /\ K * (p * q) \in Int /\ q * M \in Nat
      BY <1>1, <3>1, SMT
    <3> QED BY <3>2, <3>3
  <2> QED BY <2>1, <2>2
<1>4. A \in Int /\ pu * q \in Int /\ K * d \in Int /\ K * (pu * q) = q * (K * pu)
  <2> HIDE DEF p, q, d, K, pu
  <2>1. p * q \in Int /\ K * (p * q) \in Int
    BY <1>1
  <2> QED BY <1>1, <1>2, <2>1
<1>5. /\ N \in Int /\ t \in Int /\ T \in Int
      /\ 200 * T <= 2 * N + 100 * Unit /\ 2 * N <= 200 * T + 100 * Unit
  <2>1. N \in Int
    BY <1>1, <1>4
  <2> HIDE DEF N
  <2>2. Near(t, N, 100 * Unit)
    BY <1>1, <2>1, RoundError
  <2> HIDE DEF t
  <2>3. (100 * Unit) * t = 100 * (Unit * t) /\ Unit * t \in Int
    BY <1>1, <2>2 DEF Near
  <2> QED BY <1>1, <2>1, <2>2, <2>3 DEF Near
<1>6. /\ tot = (IF t < 0 THEN 0 ELSE t)
      /\ tot \in Nat
  BY <1>5 DEF total_sin_iva
<1>7. /\ 2 * Abs(100 * (K * T) - E) <= q * M + 100 * M
      /\ K * T \in Int
  <2> DEFINE w == pu * q
             v == K * d
             u == K * T
             x == q * (K * pu)
  <2> HIDE DEF p, q, d, K, pu, T
  <2>1. w \in Int /\ N = w - 100 * d
    BY <1>4
  <2>2. /\ K * (200 * T) <= K * (2 * N + 100 * Unit)
        /\ K * (2 * N) <= K * (200 * T + 100 * Unit)
    <3> HIDE DEF N
    <3> QED BY <1>1, <1>5, Monotone
  <2>3. /\ K * (200 * T) = 200 * u
        /\ K * (200 * T + 100 * Unit) = 200 * u + 100 * M
        /\ u \in Int
    <3> HIDE DEF N
    <3> QED BY <1>1, <1>5
  <2>4. /\ K * (2 * N + 100 * Unit) = 2 * (K * w) - 200 * v + 100 * M
        /\ K * (2 * N) = 2 * (K * w) - 200 * v
        /\ K * w \in Int /\ v \in Int
    <3> HIDE DEF w, N
    <3> QED BY <1>1, <2>1
  <2>5. K * w = x
    BY <1>4
  <2>6. 2 * x <= 2 * A + q * M /\ 2 * A <= 2 * x + q * M
    BY <1>3
  <2>7. E = A - 100 * v /\ A \in Int /\ x \in Int /\ q * M \in Int /\ M \in Int
    BY <1>1, <1>4, <2>4, <2>5
  <2> HIDE DEF u, v, w, x, A, E, N, M
  <2>8. /\ 200 * u - 2 * E <= q * M + 100 * M
        /\ 2 * E - 200 * u <= q * M + 100 * M
    BY <2>2, <2>3, <2>4, <2>5, <2>6, <2>7
  <2>9. 2 * Abs(100 * u - E) <= q * M + 100 * M
    BY <2>3, <2>4, <2>7, <2>8 DEF Abs
  <2> QED BY <2>3, <2>9 DEF u
<1>8. Exact(it, incluido, tasa) = NotBelowZero(E)
  <2>1. CASE incluido
    <3> HIDE DEF p, q, d, K
    <3>1. 100 * p * q = 100 * (p * q) /\ 100 * K * d = 100 * (K * d)
      BY <1>1
    <3> QED BY <2>1, <3>1 DEF Exact, K, p, q, d
  <2>2. CASE ~incluido
    <3> HIDE DEF p, q, d, K
    <3>1. K * (p * q - 100 * d) = K * (p * q) - 100 * (K * d)
      BY <1>1
    <3> QED BY <2>2, <3>1 DEF Exact, K, p, q, d
  <2> QED BY <2>1, <2>2
<1>9. /\ 2 * Abs(100 * (K * (Unit * tot)) - NotBelowZero(E)) <= q * M + 100 * M
      /\ E \in Int
  <2>1. E \in Int
    BY <1>4
  <2> DEFINE u == K * T
             b == q * M + 100 * M
  <2>2. u \in Int /\ b \in Int /\ b >= 0 /\ 2 * Abs(100 * u - E) <= b
    <3>1. b \in Nat
      <4> HIDE DEF q, M
      <4> QED BY <1>1
    <3> QED BY <1>7, <3>1
  <2>3. CASE t >= 0
    <3>1. K * (Unit * tot) = u
      <4>1. tot = t
        BY <1>5, <1>6, <2>3
      <4> HIDE DEF tot, t, K
      <4> QED BY <4>1
    <3>2. u >= 0
      <4> HIDE DEF K, t
      <4>1. Unit * t >= 0
        BY <1>1, <1>5, <2>3
      <4> QED BY <1>1, <1>5, <4>1
    <3> HIDE DEF u, b, E, tot, K
    <3> QED BY <2>1, <2>2, <3>1, <3>2 DEF Abs, NotBelowZero, b
  <2>4. CASE t < 0
    <3>1. K * (Unit * tot) = 0
      BY <1>1, <1>6, <2>4
    <3>2. u <= 0
      <4> HIDE DEF K, t
      <4>1. Unit * t <= 0
        BY <1>1, <1>5, <2>4
      <4> QED BY <1>1, <1>5, <4>1
    <3> HIDE DEF u, b, E, tot, K
    <3> QED BY <2>1, <2>2, <3>1, <3>2 DEF Abs, NotBelowZero, b
  <2> QED BY <1>5, <2>1, <2>3, <2>4
<1>10. /\ iva \in Nat
       /\ 200 * (Unit * iva) <= 2 * (Unit * (tot * tasa)) + 100 * Unit
       /\ 2 * (Unit * (tot * tasa)) <= 200 * (Unit * iva) + 100 * Unit
       /\ tot * tasa \in Nat /\ Unit * (tot * tasa) \in Nat
  <2> DEFINE y == tot * tasa
  <2> HIDE DEF tot
  <2>1. y \in Nat
    BY <1>1, <1>6
  <2>2. iva = RoundHalfUp(y, 100)
    BY DEF iva_item, tot
  <2> HIDE DEF y, iva
  <2>3. iva \in Nat /\ 200 * iva <= 2 * y + 100 /\ 2 * y <= 200 * iva + 100
    <3>1. iva \in Nat /\ Near(iva, y, 100)
      BY <2>1, <2>2, RoundNatError
    <3> QED BY <3>1 DEF Near
  <2>4. /\ Unit * (200 * iva) <= Unit * (2 * y + 100)
        /\ Unit * (2 * y) <= Unit * (200 * iva + 100)
    BY <1>1, <2>1, <2>3, Monotone
  <2>5. /\ Unit * (200 * iva) = 200 * (Unit * iva) /\ Unit * (2 * y) = 2 * (Unit * y)
        /\ Unit * (2 * y + 100) = 2 * (Unit * y) + 100 * Unit
        /\ Unit * (200 * iva + 100) = 200 * (Unit * iva) + 100 * Unit
        /\ Unit * y \in Nat
    BY <1>1, <2>1, <2>3
  <2> QED BY <2>1, <2>3, <2>4, <2>5 DEF y
<1>11. Within(tot + iva, Exact(it, incluido, tasa), Drift(it, tasa))
  <2> DEFINE X == NotBelowZero(E)
             TT == Unit * tot
             Y == Unit * (tot * tasa)
             V == Unit * iva
             z == q * M
  <2>1. X \in Int
    BY <1>9 DEF NotBelowZero
  <2>2. /\ K * TT = 100 * TT + Y /\ TT \in Int /\ V \in Int
        /\ Unit * (tot + iva) = TT + V
    <3> HIDE DEF tot, iva
    <3>1. K * (Unit * tot) = 100 * (Unit * tot) + Unit * (tot * tasa)
      BY <1>1, <1>6, SMT
    <3> QED BY <1>1, <1>6, <1>10, <3>1
  <2>3. Drift(it, tasa) = z + 100 * M + 10000 * Unit
    <3>1. Unit * (K * (q + 100) + 10000) = q * M + 100 * M + 10000 * Unit
      <4> HIDE DEF q, K
      <4> QED BY <1>1, SMT
    <3> QED BY <3>1 DEF Drift
  <2>4. z \in Int /\ Y \in Int /\ M \in Int /\ Unit \in Int
    <3> HIDE DEF q, M
    <3> QED BY <1>1, <1>10
  <2>5. 2 * Abs(100 * (100 * TT + Y) - X) <= z + 100 * M
    BY <1>9, <2>2
  <2>6. 200 * V <= 2 * Y + 100 * Unit /\ 2 * Y <= 200 * V + 100 * Unit
    BY <1>10
  <2> HIDE DEF X, TT, Y, V, z, M, tot, iva
  <2>7. 2 * Abs(10000 * (TT + V) - X) <= z + 100 * M + 10000 * Unit
    BY <2>1, <2>2, <2>4, <2>5, <2>6 DEF Abs
  <2> QED BY <1>8, <2>2, <2>3, <2>7 DEF Within, X
<1> QED BY <1>2, <1>6, <1>10, <1>11
-----------------------------------------------------------------------------
(* NITs, of any length. What Without computes is shown by induction, for which the  *)
(* naturals that have a property are a set.                                          *)

\* < on the naturals, as the library writes relations.
LEMMA LessIsLess ==
    ASSUME NEW m \in Nat, NEW n \in Nat, m < n PROVE <<m, n>> \in OpToRel(<, Nat)
<1>1. <<m, n>> \in {ss \in Nat \X Nat : ss[1] < ss[2]}
  BY SMT
<1> QED BY <1>1, Zenon DEF OpToRel

\* Every set of naturals has a least one.
LEMMA Least ==
    ASSUME NEW T, T \subseteq Nat, T # {}
    PROVE  \E n \in T : \A m \in T : ~(m < n)
<1>1. PICK n \in T : \A m \in T : ~(<<m, n>> \in OpToRel(<, Nat))
  BY NatLessThanWellFounded, WFMin
<1>2. ASSUME NEW m \in T, m < n PROVE FALSE
  <2>1. m \in Nat /\ n \in Nat
    OBVIOUS
  <2>2. <<m, n>> \in OpToRel(<, Nat)
    BY <1>2, <2>1, LessIsLess
  <2> QED BY <1>1, <2>2, Zenon
<1> QED BY <1>2

\* Induction, for a set: otherwise there would be a least natural missing.
LEMMA Induction ==
    ASSUME NEW S, 0 \in S, \A n \in Nat : n \in S => n + 1 \in S PROVE Nat \subseteq S
<1> DEFINE T == Nat \ S
<1> SUFFICES ASSUME T # {} PROVE FALSE
  OBVIOUS
<1>1. PICK n \in T : \A m \in T : ~(m < n)
  <2>1. T \subseteq Nat
    OBVIOUS
  <2> HIDE DEF T
  <2> QED BY <2>1, Least
<1>2. n # 0 /\ n - 1 \in Nat /\ n - 1 < n
  BY <1>1
<1>3. n - 1 \in S
  BY <1>1, <1>2
<1>4. (n - 1) + 1 \in S
  BY <1>2, <1>3
<1> QED BY <1>1, <1>4

\* What Without keeps of the first n symbols.
Kept(f, s, cs, m) ==
    f = [n \in 0 .. m |-> IF n = 0 THEN <<>>
                          ELSE IF s[n] \in cs THEN f[n - 1] ELSE Append(f[n - 1], s[n])]

\* There is such a function for every prefix: each is one step longer than the last.
LEMMA KeptExists ==
    ASSUME NEW s, NEW cs, NEW m \in Nat PROVE \E f : Kept(f, s, cs, m)
<1> DEFINE S == {k \in Nat : \E f : Kept(f, s, cs, k)}
<1>1. 0 \in S
  <2>1. Kept([n \in 0 .. 0 |-> <<>>], s, cs, 0)
    BY DEF Kept
  <2> QED BY <2>1
<1>2. ASSUME NEW k \in Nat, k \in S PROVE k + 1 \in S
  <2>1. PICK g : Kept(g, s, cs, k)
    BY <1>2
  <2> DEFINE next == IF s[k + 1] \in cs THEN g[k] ELSE Append(g[k], s[k + 1])
             f == [n \in 0 .. k + 1 |-> IF n = k + 1 THEN next ELSE g[n]]
  <2>2. ASSUME NEW n \in 0 .. k + 1
        PROVE  f[n] = IF n = 0 THEN <<>>
                      ELSE IF s[n] \in cs THEN f[n - 1] ELSE Append(f[n - 1], s[n])
    <3>1. CASE n = k + 1
      BY <3>1
    <3>2. CASE n # k + 1
      <4>1. n \in 0 .. k /\ f[n] = g[n] /\ (n # 0 => f[n - 1] = g[n - 1])
        BY <3>2
      <4>2. g[n] = IF n = 0 THEN <<>>
                   ELSE IF s[n] \in cs THEN g[n - 1] ELSE Append(g[n - 1], s[n])
        BY <2>1, <4>1 DEF Kept
      <4> QED BY <4>1, <4>2
    <3> QED BY <3>1, <3>2
  <2>3. DOMAIN f = 0 .. k + 1 /\ f = [n \in 0 .. k + 1 |-> f[n]]
    OBVIOUS
  <2> HIDE DEF f
  <2>4. Kept(f, s, cs, k + 1)
    BY <2>2, <2>3 DEF Kept
  <2> QED BY <2>4
<1> HIDE DEF S
<1>3. Nat \subseteq S
  BY <1>1, <1>2, Induction
<1> QED BY <1>3 DEF S

\* Without is what such a function makes of the whole sequence.
LEMMA WithoutIsKept ==
    ASSUME NEW s, NEW cs, Len(s) \in Nat
    PROVE  \E f : Kept(f, s, cs, Len(s)) /\ Without(s, cs) = f[Len(s)]
<1> DEFINE f == CHOOSE g : Kept(g, s, cs, Len(s))
<1>1. Kept(f, s, cs, Len(s))
  BY KeptExists
<1>2. Without(s, cs) = f[Len(s)]
  BY DEF Without, Kept
<1> QED BY <1>1, <1>2

\* Symbols that are not kept are gone, and nothing is added.
LEMMA WithoutDrops ==
    ASSUME NEW D, NEW s \in Seq(D), NEW cs
    PROVE  Without(s, cs) \in Seq(D \ cs)
<1> DEFINE L == Len(s)
<1>1. L \in Nat /\ \A n \in 1 .. L : s[n] \in D
  BY ElementOfSeq
<1>2. PICK f : Kept(f, s, cs, L) /\ Without(s, cs) = f[L]
  BY <1>1, WithoutIsKept
<1> DEFINE S == {n \in Nat : n <= L => f[n] \in Seq(D \ cs)}
<1>3. 0 \in S
  BY <1>1, <1>2 DEF Kept
<1>4. ASSUME NEW n \in Nat, n \in S PROVE n + 1 \in S
  <2>1. SUFFICES ASSUME n + 1 <= L PROVE f[n + 1] \in Seq(D \ cs)
    OBVIOUS
  <2>2. f[n] \in Seq(D \ cs) /\ s[n + 1] \in D
    BY <1>1, <1>4, <2>1
  <2>3. f[n + 1] = IF s[n + 1] \in cs THEN f[n] ELSE Append(f[n], s[n + 1])
    <3>1. n + 1 \in 0 .. L /\ n + 1 # 0 /\ (n + 1) - 1 = n
      BY <1>1, <2>1
    <3> QED BY <1>2, <3>1 DEF Kept
  <2> QED BY <2>2, <2>3, AppendProperties
<1> HIDE DEF S
<1>5. Nat \subseteq S
  BY <1>3, <1>4, Induction
<1> QED BY <1>1, <1>2, <1>5 DEF S

\* A sequence with nothing to drop is left alone.
LEMMA WithoutKeeps ==
    ASSUME NEW D, NEW s \in Seq(D), NEW cs, \A n \in 1 .. Len(s) : s[n] \notin cs
    PROVE  Without(s, cs) = s
<1> DEFINE L == Len(s)
<1>1. L \in Nat /\ \A n \in 1 .. L : s[n] \in D
  BY ElementOfSeq
<1>2. PICK f : Kept(f, s, cs, L) /\ Without(s, cs) = f[L]
  BY <1>1, WithoutIsKept
<1> DEFINE S == {n \in Nat : n <= L => /\ f[n] \in Seq(D) /\ Len(f[n]) = n
                                        /\ \A k \in 1 .. n : f[n][k] = s[k]}
<1>3. 0 \in S
  <2>1. f[0] = <<>>
    BY <1>1, <1>2 DEF Kept
  <2>2. f[0] \in Seq(D) /\ Len(f[0]) = 0
    BY <2>1, EmptySeq
  <2> QED BY <2>2
<1>4. ASSUME NEW n \in Nat, n \in S PROVE n + 1 \in S
  <2>1. SUFFICES ASSUME n + 1 <= L
                 PROVE  /\ f[n + 1] \in Seq(D) /\ Len(f[n + 1]) = n + 1
                        /\ \A k \in 1 .. n + 1 : f[n + 1][k] = s[k]
    OBVIOUS
  <2>2. /\ f[n] \in Seq(D) /\ Len(f[n]) = n /\ s[n + 1] \in D /\ s[n + 1] \notin cs
        /\ \A k \in 1 .. n : f[n][k] = s[k]
    BY <1>1, <1>4, <2>1
  <2>3. f[n + 1] = Append(f[n], s[n + 1])
    <3>1. n + 1 \in 0 .. L /\ n + 1 # 0 /\ (n + 1) - 1 = n
      BY <1>1, <2>1
    <3> QED BY <1>2, <2>2, <3>1 DEF Kept
  <2> QED BY <2>2, <2>3, AppendProperties
<1> HIDE DEF S
<1>5. Nat \subseteq S
  BY <1>3, <1>4, Induction
<1>6. f[L] \in Seq(D) /\ Len(f[L]) = Len(s) /\ \A k \in 1 .. Len(s) : f[L][k] = s[k]
  BY <1>1, <1>5 DEF S
<1> QED BY <1>2, <1>6, SeqEqual

\* What is left of a NIT, written in D, when the validator has done with it.
CleanNit(D) == {id \in Seq(D) : /\ id # <<>>
                                /\ \A n \in DOMAIN id : id[n] \notin {"-", " ", "cf"}}

\* The validator leaves no dash, blank or small letter, and never nothing...
LEMMA Normalized ==
    ASSUME NEW D, "CF" \in D, NEW n \in Seq(D) PROVE normalize_nit(n) \in CleanNit(D)
<1> DEFINE w == Without(n, {"-", " "})
           u == Upper(w)
           L == Len(w)
<1>1. w \in Seq(D \ {"-", " "})
  BY WithoutDrops
<1> HIDE DEF w
<1>2. L \in Nat /\ DOMAIN w = 1 .. L /\ w \in [1 .. L -> D \ {"-", " "}]
  BY <1>1, LenProperties
<1>3. u = [k \in 1 .. L |-> IF w[k] = "cf" THEN "CF" ELSE w[k]]
  BY <1>2 DEF Upper
<1>4. u \in [1 .. L -> D]
  BY <1>2, <1>3
<1>5. DOMAIN u = 1 .. L /\ \A k \in 1 .. L : u[k] \notin {"-", " ", "cf"}
  BY <1>2, <1>3
<1> HIDE DEF u, L
<1>6. u \in Seq(D)
  BY <1>2, <1>4, SeqDef
<1>7. CASE u = <<>>
  <2>1. \A x \in D : /\ <<x>> \in Seq(D) /\ DOMAIN <<x>> = 1 .. 1
                     /\ <<x>>[1] = x /\ <<x>> # <<>>
    OBVIOUS
  <2>2. ASSUME NEW x \in D, x \notin {"-", " ", "cf"} PROVE <<x>> \in CleanNit(D)
    <3>1. \A k \in 1 .. 1 : <<x>>[k] \notin {"-", " ", "cf"}
      <4>1. \A k \in 1 .. 1 : k = 1
        OBVIOUS
      <4> QED BY <2>1, <2>2, <4>1, Zenon
    <3> QED BY <2>1, <3>1, Zenon DEF CleanNit
  <2>3. <<"CF">> \in CleanNit(D)
    BY <2>2, Zenon
  <2> QED BY <1>7, <2>3 DEF normalize_nit, OrCF, w, u
<1>8. CASE u # <<>>
  BY <1>5, <1>6, <1>8 DEF normalize_nit, OrCF, w, u, CleanNit
<1> QED BY <1>7, <1>8

\* The first and the last place of a sequence.
LEMMA Ends ==
    ASSUME NEW L \in Nat \ {0}
    PROVE  /\ (CHOOSE i \in 1 .. L : \A j \in 1 .. L : i <= j) = 1
           /\ (CHOOSE i \in 1 .. L : \A j \in 1 .. L : j <= i) = L
<1>1. /\ 1 \in 1 .. L /\ \A j \in 1 .. L : 1 <= j
      /\ L \in 1 .. L /\ \A j \in 1 .. L : j <= L
  OBVIOUS
<1>2. \A i \in 1 .. L : /\ (\A j \in 1 .. L : i <= j) => i = 1
                        /\ (\A j \in 1 .. L : j <= i) => i = L
  OBVIOUS
<1> QED BY <1>1, <1>2

\* ... so that the XML's own cleaning does not change it, and FELplex's only strips it...
LEMMA BothClean ==
    ASSUME NEW D, NEW id \in CleanNit(D)
    PROVE  strip_nit(id) = id /\ nit_limpio(id) = OrCF(Strip(id))
<1> DEFINE L == Len(id)
<1>1. id \in Seq(D) /\ id # <<>> /\ \A n \in DOMAIN id : id[n] \notin {"-", " ", "cf"}
  BY DEF CleanNit
<1>2. L \in Nat \ {0} /\ DOMAIN id = 1 .. L /\ id \in [1 .. L -> D]
  BY <1>1, EmptySeq, LenProperties
<1>3. Without(id, {"-", " "}) = id /\ Without(id, {"-"}) = id
  BY <1>1, <1>2, WithoutKeeps
<1>4. Upper(id) = id
  <2>1. Upper(id) = [n \in 1 .. L |-> id[n]]
    BY <1>1, <1>2 DEF Upper
  <2> QED BY <1>2, <2>1
<1> QED BY <1>1, <1>3, <1>4 DEF strip_nit, nit_limpio, OrCF

\* ... which does not change it either unless there is whitespace left at its ends.
LEMMA StripKeeps ==
    ASSUME NEW D, NEW id \in Seq(D), id # <<>>,
           \A n \in DOMAIN id : id[n] \notin Whitespace
    PROVE  OrCF(Strip(id)) = id
<1> DEFINE L == Len(id)
           ink == {i \in DOMAIN id : id[i] \notin Whitespace}
           first == CHOOSE i \in ink : \A j \in ink : i <= j
           last == CHOOSE i \in ink : \A j \in ink : j <= i
<1>1. L \in Nat \ {0} /\ DOMAIN id = 1 .. L
  BY EmptySeq, LenProperties
<1>2. ink = 1 .. L
  BY <1>1
<1> HIDE DEF ink, L
<1>3. first = 1 /\ last = L
  BY <1>1, <1>2, Ends
<1>4. ink # {}
  BY <1>1, <1>2
<1>5. Strip(id) = SubSeq(id, first, last)
  BY <1>4 DEF Strip, ink
<1> QED BY <1>3, <1>5, SubSeqFull DEF L, OrCF
-----------------------------------------------------------------------------
\* What is known of the invoice, and of the lines built so far.
Shape == /\ invoice.items \in Seq(AnyItem)
         /\ invoice.iva_incluido \in BOOLEAN
         /\ invoice.tasa \in 0 .. 100
         /\ invoice.nit \in CleanNit(STRING \cup {"CF"})
         /\ invoice.total \in Nat /\ invoice.monto_iva \in Nat

\* The receiver is the validated NIT, which FELplex's payload has stripped; the rest is
\* copied, or rounded.
Copied == /\ pc # "xml" =>
                /\ dte.tipo = invoice.tipo
                /\ dte.gran_total = RoundHalfUp(invoice.total, Unit)
                /\ dte.total_impuesto = RoundHalfUp(invoice.monto_iva, Unit)
                /\ dte.receptor = invoice.nit /\ dte.cf = (invoice.nit = <<"CF">>)
                /\ dte.origen = IF invoice.tipo = "NCRE" THEN invoice.ncre ELSE None
          /\ pc = "done" =>
                /\ felplex.type = invoice.tipo /\ felplex.total = invoice.total
                /\ felplex.total_tax \in TwoPlaces(invoice.monto_iva)
                /\ felplex.to_cf = (OrCF(Strip(invoice.nit)) = <<"CF">>)
                /\ ~felplex.to_cf => felplex.tax_code = OrCF(Strip(invoice.nit))
                /\ felplex.payments \in {<<>>, <<invoice.total>>}
                /\ felplex.parent = IF invoice.tipo = "NCRE" THEN invoice.ncre ELSE None

DteInv == /\ Shape
          /\ pc \in {"xml", "payload", "done"}
          /\ lines \in Seq(AnyLine)
          /\ Len(lines) <= Len(invoice.items)
          /\ \A n \in 1 .. Len(lines) :
                lines[n] = XmlLine(invoice.items[n], invoice.iva_incluido, invoice.tasa)
          /\ pc # "xml" => Len(lines) = Len(invoice.items)
          /\ pc = "done" => /\ felplex.items = invoice.items
                            /\ felplex.without_iva = ~invoice.iva_incluido
          /\ Copied

\* The NIT of a validated payload is clean, however the caller wrote it.
LEMMA ValidatedNit == Init => invoice.nit \in CleanNit(STRING \cup {"CF"})
<1> DEFINE D == STRING \cup {"CF"}
<1>1. ASSUME NEW n \in Nits PROVE normalize_nit(n) \in CleanNit(D)
  <2>1. "CF" \in D /\ STRING \subseteq D /\ n \in Seq(STRING)
    BY NitsAssumption, Zenon
  <2> HIDE DEF D
  <2>2. n \in Seq(D)
    BY <2>1, SeqMonotonic
  <2> QED BY <2>1, <2>2, Normalized
<1> HIDE DEF D
<1>2. Init => invoice.nit \in {normalize_nit(n) : n \in Nits}
  BY DEF Init, Invoice
<1> QED BY <1>1, <1>2 DEF D

\* The validated payloads have that shape.
LEMMA InitShape == Init => Shape
<1> SUFFICES ASSUME Init PROVE Shape
  OBVIOUS
<1>1. /\ invoice.items \in UNION {[1 .. n -> Item] : n \in 1 .. MaxLines}
      /\ invoice.iva_incluido \in BOOLEAN
      /\ invoice.tasa \in Rates
  BY DEF Init, Invoice
<1>2. PICK n \in 1 .. MaxLines : invoice.items \in [1 .. n -> Item]
  BY <1>1
<1>3. Item \subseteq AnyItem
  BY AmountsAssumption DEF Item, AnyItem
<1>4. invoice.items \in [1 .. n -> AnyItem] /\ n \in Nat
  BY <1>2, <1>3, LinesAreNat
<1>5. invoice.items \in Seq(AnyItem)
  BY <1>4, SeqDef
<1>6. invoice.total \in Nat /\ invoice.monto_iva \in Nat
  BY AmountsAssumption DEF Init, Invoice
<1> QED BY <1>1, <1>5, <1>6, AmountsAssumption, ValidatedNit DEF Shape

\* No step of the builder or of the payload disturbs it.
LEMMA InductiveStep == DteInv /\ [Next]_vars => DteInv'
<1> SUFFICES ASSUME DteInv, [Next]_vars PROVE DteInv'
  OBVIOUS
<1> USE DEF DteInv, Shape
<1>1. CASE xml_item
  <2> DEFINE n == Len(lines) + 1
             l == XmlLine(invoice.items[n], invoice.iva_incluido, invoice.tasa)
  <2>1. /\ lines' = Append(lines, l) /\ UNCHANGED <<invoice, pc>>
        /\ n \in 1 .. Len(invoice.items)
    BY <1>1 DEF xml_item
  <2>2. invoice.items[n] \in AnyItem
    BY <2>1, ElementOfSeq
  <2>3. l \in AnyLine
    <3> DEFINE it == invoice.items[n]
    <3>1. /\ pu_sin_iva(it, invoice.iva_incluido, invoice.tasa) \in Nat
          /\ total_sin_iva(it, invoice.iva_incluido, invoice.tasa) \in Nat
          /\ iva_item(it, invoice.iva_incluido, invoice.tasa) \in Nat
      <4> HIDE DEF it
      <4>1. it \in AnyItem
        BY <2>2 DEF it
      <4> QED BY <4>1, LineError
    <3>2. RoundHalfUp(pu_sin_iva(it, invoice.iva_incluido, invoice.tasa), Unit) \in Nat
      <4>1. Unit \in Nat \ {0}
        BY AmountsAssumption
      <4> HIDE DEF it
      <4> QED BY <3>1, <4>1, RoundNatError
    <3> HIDE DEF it
    <3>3. XmlLine(it, invoice.iva_incluido, invoice.tasa) \in AnyLine
      BY <3>1, <3>2 DEF XmlLine, AnyLine
    <3> QED BY <3>3 DEF it
  <2> HIDE DEF l
  <2>4. /\ lines' \in Seq(AnyLine)
        /\ Len(lines') = n
        /\ lines'[n] = l
        /\ \A k \in 1 .. Len(lines) : lines'[k] = lines[k]
    BY <2>1, <2>3, AppendProperties
  <2>5. \A k \in 1 .. Len(lines') :
           lines'[k] = XmlLine(invoice.items[k], invoice.iva_incluido, invoice.tasa)
    BY <2>4 DEF l
  <2>6. Copied'
    BY <1>1, <2>1 DEF xml_item, Copied
  <2> QED BY <2>1, <2>4, <2>5, <2>6
<1>2. CASE build_xml_dte
  <2>1. Copied'
    <3>1. strip_nit(invoice.nit) = invoice.nit
      BY BothClean
    <3> QED BY <1>2, <3>1 DEF build_xml_dte, Copied
  <2> QED BY <1>2, <2>1 DEF build_xml_dte
<1>3. CASE build_felplex_payload
  <2>1. Copied'
    <3>1. nit_limpio(invoice.nit) = OrCF(Strip(invoice.nit))
      BY BothClean
    <3> DEFINE id == OrCF(Strip(invoice.nit))
    <3> HIDE DEF id
    <3>2. PICK tax \in TwoPlaces(invoice.monto_iva), sum \in {<<>>, <<invoice.total>>} :
             felplex' = [type |-> invoice.tipo, items |-> invoice.items,
                         without_iva |-> ~invoice.iva_incluido,
                         total |-> invoice.total, total_tax |-> tax,
                         to_cf |-> id = <<"CF">>,
                         tax_code |-> IF id = <<"CF">> THEN None ELSE id,
                         payments |-> sum,
                         parent |-> IF invoice.tipo = "NCRE" THEN invoice.ncre ELSE None]
      <4>1. nit_limpio(invoice.nit) = id
        BY <3>1 DEF id
      <4> QED BY <1>3, <4>1 DEF build_felplex_payload
    <3>3. UNCHANGED <<invoice, dte>> /\ pc # "xml"
      BY <1>3 DEF build_felplex_payload
    <3>4. TwoPlaces(invoice.monto_iva)' = TwoPlaces(invoice.monto_iva)
      BY <3>3 DEF TwoPlaces
    <3>5. /\ felplex'.type = invoice.tipo /\ felplex'.total = invoice.total
          /\ felplex'.total_tax \in TwoPlaces(invoice.monto_iva)
          /\ felplex'.to_cf = (id = <<"CF">>)
          /\ ~felplex'.to_cf => felplex'.tax_code = id
          /\ felplex'.payments \in {<<>>, <<invoice.total>>}
          /\ felplex'.parent = IF invoice.tipo = "NCRE" THEN invoice.ncre ELSE None
      BY <3>2
    <3> QED BY <3>3, <3>4, <3>5 DEF Copied, id
  <2> QED BY <1>3, <2>1 DEF build_felplex_payload
<1>4. CASE UNCHANGED vars
  BY <1>4 DEF vars, Copied
<1> QED BY <1>1, <1>2, <1>3, <1>4 DEF Next

\* Each line of the XML is what the arithmetic makes of the item at its place.
THEOREM DteSafe == Spec => []DteInv
<1>1. Init => DteInv
  <2> SUFFICES ASSUME Init PROVE DteInv
    OBVIOUS
  <2>1. Shape
    BY InitShape
  <2> QED BY <2>1 DEF Init, DteInv, Shape, Copied
<1> QED BY <1>1, InductiveStep, PTL DEF Spec

\* No amount of the XML is negative, discounts above the price included.
THEOREM AmountsAreNat == Spec => []TypeOK
<1>1. DteInv => TypeOK
  <2> SUFFICES ASSUME DteInv, NEW n \in DOMAIN lines
               PROVE  lines[n] \in AnyLine
    BY DEF DteInv, TypeOK, AnyLine
  <2>1. n \in 1 .. Len(lines)
    BY DEF DteInv
  <2> QED BY <2>1, ElementOfSeq DEF DteInv
<1> QED BY <1>1, DteSafe, PTL

\* The invariant, and the error of one line, give it for all lines.
LEMMA AgreeFromInv == DteInv => LinesAgree
<1> SUFFICES ASSUME DteInv, NEW n \in DOMAIN lines
             PROVE  Within(lines[n].total, Exact(invoice.items[n], invoice.iva_incluido, invoice.tasa),
                           Drift(invoice.items[n], invoice.tasa))
  BY DEF LinesAgree
<1>1. n \in 1 .. Len(lines) /\ n \in 1 .. Len(invoice.items)
  BY DEF DteInv, Shape
<1>2. invoice.items[n] \in AnyItem
  BY <1>1, ElementOfSeq DEF DteInv, Shape
<1>3. lines[n].total = total_sin_iva(invoice.items[n], invoice.iva_incluido, invoice.tasa)
                         + iva_item(invoice.items[n], invoice.iva_incluido, invoice.tasa)
  <2>1. lines[n] = XmlLine(invoice.items[n], invoice.iva_incluido, invoice.tasa)
    BY <1>1 DEF DteInv
  <2> QED BY <2>1 DEF XmlLine
<1> QED BY <1>2, <1>3, LineError DEF DteInv, Shape

\* Every line of the XML stays within Drift of exact arithmetic: the roundings of
\* build_xml_dte do not add up to more than half a cent per unit and step.
THEOREM LinesStayClose == Spec => []LinesAgree
  BY AgreeFromInv, DteSafe, PTL

\* An item whose price is known without rounding: what the XML means it to cost is what
\* FELplex is sent, less the tax on a discount that was given with tax at most.
LEMMA DiscountApart ==
    ASSUME NEW it \in AnyItem, NEW incluido \in BOOLEAN, NEW tasa \in 0 .. 100
    PROVE  /\ Exact(it, incluido, tasa) \in Nat /\ Sent(it, incluido, tasa) \in Nat
           /\ TaxOnDiscount(it, tasa) \in Nat
           /\ Exact(it, incluido, tasa) <= Sent(it, incluido, tasa)
           /\ Sent(it, incluido, tasa) - Exact(it, incluido, tasa)
                <= (IF incluido THEN TaxOnDiscount(it, tasa) ELSE 0)
<1> DEFINE w == it.price * it.qty
           d == it.discount
           g == tasa * d
<1>1. w \in Nat /\ d \in Nat /\ g \in Nat /\ tasa \in Nat
  <2>1. it.price \in Nat /\ it.qty \in Nat /\ d \in Nat /\ tasa \in Nat
    BY DEF AnyItem
  <2> QED BY <2>1
<1>2. TaxOnDiscount(it, tasa) = 100 * g /\ 100 * g \in Nat
  <2> HIDE DEF d
  <2>1. 100 * tasa * d = 100 * (tasa * d)
    BY <1>1
  <2> QED BY <1>1, <2>1 DEF TaxOnDiscount, d
<1>3. CASE incluido
  <2>1. /\ 100 * it.price * it.qty = 100 * w
        /\ 100 * (100 + tasa) * d = 10000 * d + 100 * g
    <3>1. it.price \in Nat /\ it.qty \in Nat /\ d \in Nat
      BY DEF AnyItem
    <3> HIDE DEF d
    <3> QED BY <1>1, <3>1, SMT DEF w, g
  <2>2. /\ Exact(it, incluido, tasa) = NotBelowZero(100 * w - (10000 * d + 100 * g))
        /\ Sent(it, incluido, tasa) = NotBelowZero(100 * (w - 100 * d))
    BY <1>3, <2>1 DEF Exact, Sent
  <2> DEFINE x == 100 * w - (10000 * d + 100 * g)
             y == 100 * (w - 100 * d)
  <2>3. x \in Int /\ y \in Int /\ 100 * g \in Nat /\ x = y - 100 * g
    <3> HIDE DEF w, d, g
    <3> QED BY <1>1
  <2> HIDE DEF x, y
  <2>4. /\ NotBelowZero(x) \in Nat /\ NotBelowZero(y) \in Nat
        /\ NotBelowZero(x) <= NotBelowZero(y)
        /\ NotBelowZero(y) - NotBelowZero(x) <= 100 * g
    <3> DEFINE h == 100 * g
    <3>1. x \in Int /\ y \in Int /\ h \in Nat /\ x = y - h
      BY <2>3
    <3> HIDE DEF h
    <3>2. /\ NotBelowZero(x) \in Nat /\ NotBelowZero(y) \in Nat
          /\ NotBelowZero(x) <= NotBelowZero(y)
          /\ NotBelowZero(y) - NotBelowZero(x) <= h
      BY <3>1 DEF NotBelowZero
    <3> QED BY <3>2 DEF h
  <2>5. Exact(it, incluido, tasa) = NotBelowZero(x) /\ Sent(it, incluido, tasa) = NotBelowZero(y)
    BY <2>2 DEF x, y
  <2> HIDE DEF g
  <2> QED BY <1>2, <1>3, <2>4, <2>5
<1>4. CASE ~incluido
  <2> DEFINE e == (100 + tasa) * (w - 100 * d)
  <2>1. Exact(it, incluido, tasa) = NotBelowZero(e) /\ Sent(it, incluido, tasa) = NotBelowZero(e)
    BY <1>4 DEF Exact, Sent
  <2>2. e \in Int
    <3> HIDE DEF w, d
    <3> QED BY <1>1
  <2> HIDE DEF e
  <2> QED BY <1>2, <1>4, <2>1, <2>2 DEF NotBelowZero
<1> QED BY <1>3, <1>4

\* What the XML says a line costs is what FELplex was sent, item by item, whatever was
\* ordered and however it was discounted, but for the rounding and the tax on the
\* discount.
THEOREM XmlTellsTheTruth == Spec => []XmlTellsWhatWasSent
<1>1. DteInv => XmlTellsWhatWasSent
  <2> SUFFICES ASSUME DteInv, pc = "done", NEW n \in DOMAIN felplex.items
               PROVE  /\ n \in DOMAIN lines
                      /\ Tells(lines[n], felplex.items[n], ~felplex.without_iva, invoice.tasa)
    BY DEF XmlTellsWhatWasSent
  <2>1. /\ felplex.items = invoice.items /\ felplex.without_iva = ~invoice.iva_incluido
        /\ (~felplex.without_iva) = invoice.iva_incluido
    BY DEF DteInv, Shape
  <2> DEFINE it == invoice.items[n]
             incluido == invoice.iva_incluido
             tasa == invoice.tasa
             told == 10000 * (Unit * lines[n].total)
  <2>2. n \in DOMAIN lines /\ incluido \in BOOLEAN /\ tasa \in 0 .. 100 /\ it \in AnyItem
    BY <2>1, ElementOfSeq DEF DteInv, Shape
  <2>3. lines[n].total \in Nat /\ told \in Int
    <3>1. lines[n] \in AnyLine /\ Unit \in Nat
      BY <2>2, ElementOfSeq, AmountsAssumption DEF DteInv
    <3>2. \A l \in AnyLine : l.total \in Nat /\ 10000 * (Unit * l.total) \in Int
      BY <3>1 DEF AnyLine
    <3> QED BY <3>1, <3>2
  <2>4. Within(lines[n].total, Exact(it, incluido, tasa), Drift(it, tasa))
    BY <2>2, AgreeFromInv DEF LinesAgree
  <2>5. Drift(it, tasa) \in Int
    <3>1. \A q \in Nat : Unit * ((100 + tasa) * (q + 100) + 10000) \in Int
      BY <2>2, AmountsAssumption
    <3> QED BY <2>2, <3>1 DEF Drift, AnyItem
  <2>6. /\ 2 * (told - Exact(it, incluido, tasa)) <= Drift(it, tasa)
        /\ 2 * (Exact(it, incluido, tasa) - told) <= Drift(it, tasa)
    <3>1. Exact(it, incluido, tasa) \in Nat
      BY <2>2, DiscountApart
    <3> HIDE DEF it, incluido, tasa, told
    <3>2. 2 * Abs(told - Exact(it, incluido, tasa)) <= Drift(it, tasa)
      BY <2>4 DEF Within, told
    <3> QED BY <2>3, <2>5, <3>1, <3>2 DEF Abs
  <2>7. /\ Exact(it, incluido, tasa) \in Nat /\ Sent(it, incluido, tasa) \in Nat
        /\ TaxOnDiscount(it, tasa) \in Nat
        /\ Exact(it, incluido, tasa) <= Sent(it, incluido, tasa)
        /\ Sent(it, incluido, tasa) - Exact(it, incluido, tasa)
             <= (IF incluido THEN TaxOnDiscount(it, tasa) ELSE 0)
    BY <2>2, DiscountApart
  <2> HIDE DEF it, incluido, tasa, told
  <2>8. /\ 2 * (told - Sent(it, incluido, tasa)) <= Drift(it, tasa)
        /\ 2 * (Sent(it, incluido, tasa) - told)
             <= Drift(it, tasa) + 2 * (IF incluido THEN TaxOnDiscount(it, tasa) ELSE 0)
    BY <2>2, <2>3, <2>5, <2>6, <2>7
  <2>9. Tells(lines[n], it, incluido, tasa)
    BY <2>8 DEF Tells, told
  <2> QED BY <2>1, <2>2, <2>9 DEF it, incluido, tasa
<1> QED BY <1>1, DteSafe, PTL

\* The two ways to round the tax are a cent apart, at a tie only.
LEMMA TaxesAgree ==
    ASSUME NEW n \in Nat, NEW c \in TwoPlaces(n)
    PROVE  LET R == RoundHalfUp(n, Unit)
           IN  R = c \/ (R = c + 1 /\ 2 * n = Unit * (R + c))
<1> DEFINE R == RoundHalfUp(n, Unit)
<1> SUFFICES R = c \/ (R = c + 1 /\ 2 * n = Unit * (R + c))
  OBVIOUS
<1>1. /\ R \in Int /\ Unit \in Nat \ {0}
      /\ 2 * (Unit * R) <= 2 * n + Unit
      /\ 2 * n < 2 * (Unit * R) + Unit
  BY AmountsAssumption, RoundNatError DEF Near
<1>2. /\ c \in Int
      /\ 2 * (Unit * c) <= 2 * n + Unit
      /\ 2 * n <= 2 * (Unit * c) + Unit
  <2>1. n \div Unit \in Int
    BY <1>1, Division
  <2> QED BY <2>1 DEF TwoPlaces
<1> HIDE DEF R
<1> DEFINE a == Unit * R
           b == Unit * c
<1>3. a \in Int /\ b \in Int
  BY <1>1, <1>2
<1>4. ~(R + 1 <= c)
  <2> SUFFICES ASSUME R + 1 <= c PROVE FALSE
    OBVIOUS
  <2>1. Unit * (R + 1) <= Unit * c /\ Unit * (R + 1) = a + Unit
    BY <1>1, <1>2, Monotone
  <2> HIDE DEF a, b
  <2> QED BY <1>1, <1>2, <1>3, <2>1 DEF a, b
<1>5. ~(c + 2 <= R)
  <2> SUFFICES ASSUME c + 2 <= R PROVE FALSE
    OBVIOUS
  <2>1. Unit * (c + 2) <= Unit * R /\ Unit * (c + 2) = b + 2 * Unit
    BY <1>1, <1>2, Monotone
  <2>2. 2 * a <= 2 * n + Unit /\ 2 * n <= 2 * b + Unit /\ b + 2 * Unit <= a
    BY <1>1, <1>2, <2>1
  <2> HIDE DEF a, b
  <2> QED BY <1>1, <1>3, <2>2
<1>6. CASE R = c + 1
  <2>1. a = b + Unit /\ Unit * (R + c) = a + b
    BY <1>1, <1>2, <1>6
  <2>2. 2 * a <= 2 * n + Unit /\ 2 * n <= 2 * b + Unit
    BY <1>1, <1>2
  <2> HIDE DEF a, b
  <2>3. 2 * n = Unit * (R + c)
    BY <1>1, <1>3, <2>1, <2>2
  <2> QED BY <1>6, <2>3
<1>7. R = c \/ R = c + 1
  BY <1>1, <1>2, <1>4, <1>5
<1> QED BY <1>6, <1>7

\* Both dialects name one type, original note and receiver, up to the whitespace at the
\* ends of the NIT, whatever the caller wrote, of any length: the validator has done all
\* the other cleaning there is.  The totals differ by their rounding alone.
THEOREM OneInvoice == Spec => []SameInvoice
<1>1. DteInv => SameInvoice
  <2> SUFFICES ASSUME DteInv, pc = "done" PROVE SameInvoice
    BY DEF SameInvoice
  <2> DEFINE id == invoice.nit
  <2>1. /\ Copied /\ id \in CleanNit(STRING \cup {"CF"})
        /\ invoice.total \in Nat /\ invoice.monto_iva \in Nat
    BY DEF DteInv, Shape
  <2>2. Billed = OrCF(Strip(id)) /\ dte.receptor = id
    BY <2>1 DEF Copied, Billed
  <2>3. ASSUME \A n \in DOMAIN id : id[n] \notin Whitespace
        PROVE  Billed = id /\ felplex.to_cf = dte.cf
    <3>1. OrCF(Strip(id)) = id
      BY <2>1, <2>3, StripKeeps DEF CleanNit
    <3> QED BY <2>1, <2>2, <3>1 DEF Copied
  <2>4. 2 * Abs(felplex.total - Unit * dte.gran_total) <= Unit
    <3> DEFINE R == RoundHalfUp(invoice.total, Unit)
    <3>1. Near(R, invoice.total, Unit) /\ Unit \in Nat \ {0}
      BY <2>1, AmountsAssumption, RoundNatError
    <3>2. felplex.total = invoice.total /\ dte.gran_total = R
      BY <2>1 DEF Copied
    <3> DEFINE a == Unit * R
    <3> HIDE DEF R
    <3>3. a \in Int /\ 2 * a <= 2 * invoice.total + Unit /\ 2 * invoice.total <= 2 * a + Unit
      BY <3>1 DEF Near
    <3> HIDE DEF a
    <3>4. 2 * Abs(invoice.total - a) <= Unit
      BY <2>1, <3>1, <3>3 DEF Abs
    <3> QED BY <3>2, <3>4 DEF a
  <2>5. \/ dte.total_impuesto = felplex.total_tax
        \/ /\ dte.total_impuesto = felplex.total_tax + 1
           /\ 2 * invoice.monto_iva = Unit * (dte.total_impuesto + felplex.total_tax)
    BY <2>1, TaxesAgree DEF Copied
  <2> QED BY <2>1, <2>2, <2>3, <2>4, <2>5 DEF SameInvoice, Copied
<1> QED BY <1>1, DteSafe, PTL
=============================================================================
