----------------------------- MODULE Induction -----------------------------
(* Induction over the natural numbers in the form the provers can use: with *)
(* a set in place of the predicate, and a function in place of the operator *)
(* of a recursive definition.                                               *)
EXTENDS Integers, TLAPS, WellFoundedInduction

(* The least-number principle. *)
LEMMA LeastNumber ==
  ASSUME NEW T, T \subseteq Nat, T # {}
  PROVE  \E n \in T : \A m \in T : n <= m
<1>1. PICK x \in T : \A y \in T : ~ (<<y, x>> \in OpToRel(<, Nat))
  BY NatLessThanWellFounded, WFMin
<1>2. \A y \in T : ~(y < x) BY <1>1 DEF OpToRel
<1>3. x \in Nat /\ \A y \in T : y \in Nat OBVIOUS
<1>4. \A y \in T : x <= y BY <1>2, <1>3, SMT
<1> QED BY <1>4

(* A set with 0 and every successor of its numbers holds every number. *)
LEMMA Inductive ==
  ASSUME NEW T, T \subseteq Nat, 0 \in T, \A n \in T : n + 1 \in T
  PROVE  T = Nat
<1> DEFINE Out == {n \in Nat : n \notin T}
<1> SUFFICES ASSUME Out # {} PROVE FALSE OBVIOUS
<1>1. PICK n \in Out : \A m \in Out : n <= m
  <2>1. Out \subseteq Nat OBVIOUS
  <2> HIDE DEF Out
  <2> QED BY <2>1, LeastNumber
<1>2. n \in Nat /\ n # 0 /\ n - 1 \in Nat BY <1>1
<1>3. n - 1 \notin T BY <1>2
<1>4. n - 1 \in Out BY <1>2, <1>3
<1> HIDE DEF Out
<1> QED BY <1>1, <1>2, <1>4

(* Primitive recursion: a function with a given start and a given step      *)
(* exists.                                                                  *)
Recursion(f, base, step) ==
  f = [n \in Nat |-> IF n = 0 THEN base ELSE step[<<n, f[n - 1]>>]]

(* A recursive function on the naturals has the value its definition says. *)
LEMMA PrimitiveRecursion ==
  ASSUME NEW S, NEW base \in S, NEW step \in [Nat \X S -> S]
  PROVE  \E f \in [Nat -> S] : Recursion(f, base, step)
<1> DEFINE Part(n) ==
  {g \in [0 .. n -> S] :
     \A k \in 0 .. n : g[k] = IF k = 0 THEN base ELSE step[<<k, g[k - 1]>>]}
<1>1. \A n \in Nat : Part(n) # {}
  <2> DEFINE T == {n \in Nat : Part(n) # {}}
  <2>1. 0 \in T
    <3>1. [k \in 0 .. 0 |-> base] \in Part(0) OBVIOUS
    <3> HIDE DEF Part
    <3> QED BY <3>1
  <2>2. ASSUME NEW n \in T PROVE n + 1 \in T
    <3>1. PICK g \in Part(n) : TRUE BY <2>2
    <3> DEFINE h == [k \in 0 .. n + 1 |-> IF k = n + 1 THEN step[<<n + 1, g[n]>>] ELSE g[k]]
    <3>2. n \in Nat OBVIOUS
    <3>3. h \in [0 .. n + 1 -> S] 
      <4>1. step[<<n + 1, g[n]>>] \in S BY <3>1, <3>2
      <4> QED BY <3>1, <3>2, <4>1
    <3>4. \A k \in 0 .. n + 1 : h[k] = IF k = 0 THEN base ELSE step[<<k, h[k - 1]>>]
      <4>1. ASSUME NEW k \in 0 .. n
            PROVE h[k] = IF k = 0 THEN base ELSE step[<<k, h[k - 1]>>]
        <5>1. h[k] = g[k] /\ (k # 0 => h[k - 1] = g[k - 1]) BY <3>2
        <5> QED BY <5>1, <3>1
      <4>2. ASSUME NEW k \in 0 .. n + 1, k = n + 1
            PROVE h[k] = IF k = 0 THEN base ELSE step[<<k, h[k - 1]>>]
        <5>1. h[n] = g[n] /\ h[n + 1] = step[<<n + 1, g[n]>>] BY <3>2
        <5>2. k # 0 /\ k - 1 = n BY <3>2, <4>2
        <5> HIDE DEF h
        <5> QED BY <4>2, <5>1, <5>2
      <4> HIDE DEF h
      <4>3. \A k \in 0 .. n + 1 : k \in 0 .. n \/ k = n + 1 BY <3>2
      <4> QED BY <4>1, <4>2, <4>3
    <3>5. h \in Part(n + 1) BY <3>3, <3>4
    <3> HIDE DEF Part
    <3> QED BY <3>2, <3>5
  <2>3. T \subseteq Nat OBVIOUS
  <2> HIDE DEF T
  <2>4. T = Nat BY <2>1, <2>2, <2>3, Inductive
  <2> QED BY <2>4 DEF T
<1>2. ASSUME NEW n \in Nat, NEW m \in Nat, NEW g \in Part(n), NEW h \in Part(m),
             NEW j \in Nat, j <= n, j <= m
      PROVE  g[j] = h[j]
  <2> DEFINE T == {k \in Nat : k <= n /\ k <= m => g[k] = h[k]}
  <2>1. 0 \in T
    <3>1. 0 \in 0 .. n /\ 0 \in 0 .. m OBVIOUS
    <3>2. g[0] = base BY <3>1
    <3>3. h[0] = base BY <3>1
    <3> QED BY <3>2, <3>3
  <2>2. ASSUME NEW k \in T PROVE k + 1 \in T
    <3> SUFFICES ASSUME k + 1 <= n, k + 1 <= m PROVE g[k + 1] = h[k + 1] OBVIOUS
    <3>1. k \in Nat /\ k + 1 \in 0 .. n /\ k + 1 \in 0 .. m BY <2>2
    <3>2. g[k] = h[k] BY <2>2, <3>1
    <3>3. g[k + 1] = step[<<k + 1, g[k]>>] BY <3>1
    <3>4. h[k + 1] = step[<<k + 1, h[k]>>] BY <3>1
    <3> QED BY <3>2, <3>3, <3>4
  <2>3. T \subseteq Nat OBVIOUS
  <2> HIDE DEF T
  <2>4. T = Nat BY <2>1, <2>2, <2>3, Inductive
  <2> QED BY <2>4, <1>2 DEF T
<1> DEFINE F == [n \in Nat |-> (CHOOSE g \in Part(n) : TRUE)[n]]
           G == [n \in Nat |-> IF n = 0 THEN base ELSE step[<<n, F[n - 1]>>]]
<1>3. \A n \in Nat : (CHOOSE g \in Part(n) : TRUE) \in Part(n)
  <2> HIDE DEF Part
  <2> QED BY <1>1
<1>4. ASSUME NEW n \in Nat PROVE F[n] = G[n] /\ F[n] \in S
  <2> DEFINE g == CHOOSE w \in Part(n) : TRUE
             h == CHOOSE w \in Part(n - 1) : TRUE
  <2>1. g \in Part(n) BY <1>3
  <2>2. F[n] = g[n] OBVIOUS
  <2>3. G[n] = IF n = 0 THEN base ELSE step[<<n, F[n - 1]>>]
    <3> HIDE DEF F
    <3> QED OBVIOUS
  <2>4. n # 0 => F[n - 1] = g[n - 1]
    <3> SUFFICES ASSUME n # 0 PROVE F[n - 1] = g[n - 1] OBVIOUS
    <3>1. n - 1 \in Nat OBVIOUS
    <3>2. h \in Part(n - 1) BY <3>1, <1>3
    <3>3. F[n - 1] = h[n - 1] BY <3>1
    <3> HIDE DEF g, h, F, G, Part
    <3> QED BY <1>2, <2>1, <3>1, <3>2, <3>3
  <2>5. g[n] \in S /\ g[n] = IF n = 0 THEN base ELSE step[<<n, g[n - 1]>>]
    <3> HIDE DEF g
    <3> QED BY <2>1
  <2> HIDE DEF g, h, F, G, Part
  <2> QED BY <2>2, <2>3, <2>4, <2>5
<1>5. F = G
  <2>1. \A n \in Nat : F[n] = G[n] BY <1>4
  <2> HIDE DEF Part
  <2> QED BY <2>1
<1>6. F \in [Nat -> S]
  <2>1. \A n \in Nat : F[n] \in S BY <1>4
  <2> HIDE DEF Part
  <2> QED BY <2>1
<1> HIDE DEF F
<1> QED BY <1>5, <1>6 DEF Recursion

(* The same up to a given number. *)
RecursionUpTo(f, n, base, step) ==
  f[0] = base /\ \A i \in 1 .. n : f[i] = step[<<i, f[i - 1]>>]

LEMMA FiniteRecursion ==
  ASSUME NEW N \in Nat, NEW S, NEW base \in S, NEW step \in [(1 .. N) \X S -> S]
  PROVE  \E f \in [0 .. N -> S] : RecursionUpTo(f, N, base, step)
<1> DEFINE total == [p \in Nat \X S |-> IF p[1] \in 1 .. N THEN step[p] ELSE base]
<1>1. total \in [Nat \X S -> S]
  <2>1. ASSUME NEW p \in Nat \X S PROVE total[p] \in S
    <3>1. CASE p[1] \in 1 .. N
      <4>1. p \in (1 .. N) \X S BY <3>1
      <4> QED BY <3>1, <4>1
    <3>2. CASE p[1] \notin 1 .. N BY <3>2
    <3> QED BY <3>1, <3>2
  <2> QED BY <2>1
<1> HIDE DEF total
<1>2. PICK g \in [Nat -> S] : Recursion(g, base, total) BY <1>1, PrimitiveRecursion
<1> DEFINE f == [i \in 0 .. N |-> g[i]]
<1>3. f \in [0 .. N -> S] BY <1>2
<1>4. ASSUME NEW i \in 0 .. N PROVE f[i] = IF i = 0 THEN base ELSE step[<<i, f[i - 1]>>]
  <2>1. f[i] = g[i] /\ g[i] = IF i = 0 THEN base ELSE total[<<i, g[i - 1]>>]
    BY <1>2 DEF Recursion
  <2>2. ASSUME i # 0 PROVE total[<<i, g[i - 1]>>] = step[<<i, f[i - 1]>>]
    <3>1. i - 1 \in 0 .. N /\ i \in 1 .. N /\ i \in Nat BY <2>2
    <3>2. f[i - 1] = g[i - 1] /\ g[i - 1] \in S BY <3>1, <1>2
    <3>3. total[<<i, g[i - 1]>>] = step[<<i, g[i - 1]>>] BY <3>1, <3>2 DEF total
    <3> QED BY <3>2, <3>3
  <2> QED BY <2>1, <2>2
<1> HIDE DEF f
<1>5. 0 \in 0 .. N /\ \A i \in 1 .. N : i \in 0 .. N /\ i # 0 OBVIOUS
<1>6. RecursionUpTo(f, N, base, step) BY <1>4, <1>5 DEF RecursionUpTo
<1> QED BY <1>3, <1>6

-----------------------------------------------------------------------------
(* Multiplication and division, which the solver does not know enough of.   *)
LEMMA MulMonotone ==
  ASSUME NEW k \in Int, NEW d \in Int, NEW m \in Nat, k <= d
  PROVE  k * m <= d * m
<1>1. (d - k) * m >= 0 OBVIOUS
<1>2. (d - k) * m = d * m - k * m OBVIOUS
<1>3. k * m \in Int /\ d * m \in Int OBVIOUS
<1> QED BY <1>1, <1>2, <1>3

(* Quotient and remainder are unique. *)
LEMMA DivMod ==
  ASSUME NEW k \in Int, NEW m \in Nat \ {0}, NEW x \in 0 .. m - 1, NEW p, p = k * m + x
  PROVE  p \div m = k /\ p % m = x
<1>1. p \in Int /\ k * m \in Int OBVIOUS
<1> DEFINE d == p \div m
           y == p % m
<1>2. d \in Int /\ y \in 0 .. m - 1 /\ p = d * m + y BY <1>1
<1> HIDE DEF d, y
<1>3. d * m \in Int BY <1>2
<1>4. ~ d <= k - 1
  <2> SUFFICES ASSUME d <= k - 1 PROVE FALSE OBVIOUS
  <2>1. d * m <= (k - 1) * m BY <1>2, MulMonotone
  <2>2. (k - 1) * m = k * m - m OBVIOUS
  <2> QED BY <1>1, <1>2, <1>3, <2>1, <2>2
<1>5. ~ k <= d - 1
  <2> SUFFICES ASSUME k <= d - 1 PROVE FALSE OBVIOUS
  <2>1. k * m <= (d - 1) * m BY <1>2, MulMonotone
  <2>2. (d - 1) * m = d * m - m BY <1>2
  <2> QED BY <1>1, <1>2, <1>3, <2>1, <2>2
<1>6. d = k BY <1>2, <1>4, <1>5
<1>7. y = x BY <1>1, <1>2, <1>6
<1> QED BY <1>6, <1>7 DEF d, y

(* Quotient and remainder. *)
LEMMA Division ==
  ASSUME NEW p \in Int, NEW m \in Nat \ {0}
  PROVE  p \div m \in Int /\ p % m \in 0 .. m - 1 /\ p = (p \div m) * m + (p % m)
OBVIOUS

(* A number below the modulus is its own remainder. *)
LEMMA Within == ASSUME NEW m \in Nat \ {0}, NEW x \in 0 .. m - 1 PROVE x % m = x
<1> DEFINE k == 0
<1>1. k \in Int /\ x = k * m + x OBVIOUS
<1> HIDE DEF k
<1> QED BY <1>1, DivMod

(* A counter that wraps at m. *)
LEMMA ItselfDivides == ASSUME NEW m \in Nat \ {0} PROVE m % m = 0
<1> DEFINE k == 1
           x == 0
<1>1. k \in Int /\ x \in 0 .. m - 1 /\ m = k * m + x /\ x = 0 OBVIOUS
<1> HIDE DEF k, x
<1> QED BY <1>1, DivMod

(* The next number modulo m is another one. *)
LEMMA Wraps ==
  ASSUME NEW m \in Nat \ {0, 1}, NEW a \in 0 .. m - 1
  PROVE  a % m = a /\ (a + 1) % m # a
<1>1. a % m = a BY Within
<1>2. CASE a + 1 = m
  <2>1. m % m = 0 BY ItselfDivides
  <2> QED BY <1>1, <1>2, <2>1
<1>3. CASE a + 1 # m
  <2>1. a + 1 \in 0 .. m - 1 BY <1>3
  <2>2. (a + 1) % m = a + 1 BY <2>1, Within
  <2> QED BY <1>1, <2>2
<1> QED BY <1>2, <1>3

(* Adding one before or after taking the remainder. *)
LEMMA NextWraps ==
  ASSUME NEW m \in Nat \ {0}, NEW p \in Int
  PROVE  ((p % m) + 1) % m = (p + 1) % m
<1> DEFINE k == p \div m
           x == p % m
<1>1. k \in Int /\ x \in 0 .. m - 1 /\ p = k * m + x BY Division
<1> HIDE DEF k, x
<1>2. k * m \in Int BY <1>1
<1>3. CASE x + 1 = m
  <2>1. (k + 1) * m = k * m + m BY <1>1
  <2>2. p + 1 = (k + 1) * m + 0 BY <1>1, <1>2, <1>3, <2>1
  <2>3. (p + 1) % m = 0 BY <1>1, <2>2, DivMod
  <2>4. m % m = 0 BY ItselfDivides
  <2> QED BY <1>3, <2>3, <2>4 DEF x
<1>4. CASE x + 1 # m
  <2> DEFINE y == x + 1
  <2>1. p + 1 = k * m + y /\ y \in 0 .. m - 1 BY <1>1, <1>2, <1>4
  <2> HIDE DEF y
  <2>2. (p + 1) % m = y BY <1>1, <2>1, DivMod
  <2>3. y % m = y BY <2>1, Within
  <2> QED BY <2>2, <2>3 DEF x, y
<1> QED BY <1>3, <1>4
=============================================================================
