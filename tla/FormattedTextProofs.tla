------------------------ MODULE FormattedTextProofs ------------------------
(* Proofs about what printf's text says: it is the text of the C standard,  *)
(* for every call whose numbers fit their buffer.  First what a number is   *)
(* made of, by the standard and by the code; then each conversion; then the *)
(* parser's way through a specifier; then the format, piece by piece; and  *)
(* last the texts that main prints, and the screen it draws them on.        *)
EXTENDS PrintfProofs, FiniteSetTheorems

(* Which way texts and words are grouped makes no difference. *)
Regroups(S) == \A s, t, u \in Seq(S) : (s \o t) \o u = s \o (t \o u)

LEMMA Regroup == ASSUME NEW S PROVE Regroups(S)
<1> SUFFICES ASSUME NEW s \in Seq(S), NEW t \in Seq(S), NEW u \in Seq(S) PROVE (s \o t) \o u = s \o (t \o u)
  BY DEF Regroups
<1> DEFINE a == s \o t
           b == t \o u
           x == a \o u
           y == s \o b
<1>1. a \in Seq(S) /\ b \in Seq(S) /\ x \in Seq(S) /\ y \in Seq(S) OBVIOUS
<1>2. Len(a) = Len(s) + Len(t) /\ Len(b) = Len(t) + Len(u) OBVIOUS
<1>3. \A i \in 1 .. Len(a) : a[i] = IF i <= Len(s) THEN s[i] ELSE t[i - Len(s)] OBVIOUS
<1>4. \A i \in 1 .. Len(b) : b[i] = IF i <= Len(t) THEN t[i] ELSE u[i - Len(t)] OBVIOUS
<1> HIDE DEF a, b
<1>5. Len(x) = Len(a) + Len(u) /\ Len(y) = Len(s) + Len(b) BY <1>1
<1>6. \A i \in 1 .. Len(x) : x[i] = IF i <= Len(a) THEN a[i] ELSE u[i - Len(a)]
  BY <1>1, ConcatProperties
<1>7. \A i \in 1 .. Len(y) : y[i] = IF i <= Len(s) THEN s[i] ELSE b[i - Len(s)]
  BY <1>1, ConcatProperties
<1> HIDE DEF x, y
<1>8. ASSUME NEW i \in 1 .. Len(x) PROVE x[i] = y[i]
  <2>1. Len(s) \in Nat /\ Len(t) \in Nat /\ Len(u) \in Nat OBVIOUS
  <2>2. i \in 1 .. Len(s) + Len(t) + Len(u) BY <1>2, <1>5, <2>1
  <2>3. x[i] = IF i <= Len(a) THEN a[i] ELSE u[i - Len(a)] BY <1>6
  <2>4. y[i] = IF i <= Len(s) THEN s[i] ELSE b[i - Len(s)] BY <1>2, <1>5, <1>7, <2>1, <2>2
  <2>5. CASE i <= Len(s)
    <3>1. i \in 1 .. Len(a) BY <1>2, <2>1, <2>2, <2>5
    <3> QED BY <1>3, <1>2, <2>1, <2>3, <2>4, <2>5, <3>1
  <2>6. CASE i > Len(s) /\ i <= Len(s) + Len(t)
    <3>1. i \in 1 .. Len(a) /\ i - Len(s) \in 1 .. Len(b) BY <1>2, <2>1, <2>2, <2>6
    <3>2. x[i] = t[i - Len(s)] BY <1>2, <1>3, <2>1, <2>3, <2>6, <3>1
    <3>3. b[i - Len(s)] = t[i - Len(s)] BY <1>4, <2>1, <2>6, <3>1
    <3> QED BY <2>1, <2>2, <2>4, <2>6, <3>2, <3>3
  <2>7. CASE i > Len(s) + Len(t)
    <3> DEFINE j == i - Len(s)
    <3>1. j \in 1 .. Len(b) /\ j > Len(t) /\ j - Len(t) = i - Len(a) BY <1>2, <2>1, <2>2, <2>7
    <3>2. x[i] = u[i - Len(a)] BY <1>2, <2>1, <2>2, <2>3, <2>7
    <3>3. y[i] = b[j] BY <2>1, <2>2, <2>4, <2>7
    <3> HIDE DEF j
    <3>4. b[j] = IF j <= Len(t) THEN t[j] ELSE u[j - Len(t)] BY <1>4, <3>1
    <3>6. ~(j <= Len(t)) BY <2>1, <3>1
    <3>7. b[j] = u[j - Len(t)] BY <3>4, <3>6
    <3> QED BY <3>1, <3>2, <3>3, <3>7
  <2> QED BY <2>1, <2>2, <2>5, <2>6, <2>7
<1>9. Len(x) = Len(y)
  <2>1. Len(s) \in Nat /\ Len(t) \in Nat /\ Len(u) \in Nat OBVIOUS
  <2> QED BY <1>2, <1>5, <2>1
<1>10. \A i \in 1 .. Len(x) : x[i] = y[i] BY <1>8
<1>11. x \in Seq(S) /\ y \in Seq(S) BY <1>1
<1>12. x = y BY <1>9, <1>10, <1>11, SeqEqual
<1> QED BY <1>12 DEF a, b, x, y

LEMMA TextsRegroup == \A x, y, z \in Seq(Chars) : (x \o y) \o z = x \o (y \o z)
<1>1. Regroups(Chars) BY Regroup, Zenon
<1> QED BY <1>1, Zenon DEF Regroups
LEMMA WordsRegroup == \A x, y, z \in Seq(Nat) : (x \o y) \o z = x \o (y \o z)
<1>1. Regroups(Nat) BY Regroup, Zenon
<1> QED BY <1>1, Zenon DEF Regroups

(* Copies of a character, and sequences backwards. *)
LEMMA CopiesAre ==
  ASSUME NEW S, NEW c \in S, NEW n \in Nat
  PROVE  /\ Copies(c, n) \in Seq(S) /\ Len(Copies(c, n)) = n
         /\ \A i \in 1 .. n : Copies(c, n)[i] = c
         /\ n = 0 => Copies(c, n) = <<>>
<1>1. Copies(c, n) \in Seq(S) /\ Len(Copies(c, n)) = n BY DEF Copies
<1>2. \A i \in 1 .. n : Copies(c, n)[i] = c BY DEF Copies
<1>3. n = 0 => Copies(c, n) = <<>> BY <1>1
<1> QED BY <1>1, <1>2, <1>3

LEMMA CopiesJoin ==
  ASSUME NEW S, NEW c \in S, NEW m \in Nat, NEW n \in Nat
  PROVE  Copies(c, m) \o Copies(c, n) = Copies(c, m + n)
<1> DEFINE s == Copies(c, m)
           t == Copies(c, n)
           u == s \o t
           w == Copies(c, m + n)
<1>1. /\ s \in Seq(S) /\ Len(s) = m /\ \A i \in 1 .. m : s[i] = c
      /\ t \in Seq(S) /\ Len(t) = n /\ \A i \in 1 .. n : t[i] = c
  BY CopiesAre
<1>2. w \in Seq(S) /\ Len(w) = m + n /\ \A i \in 1 .. m + n : w[i] = c
  <2> DEFINE k == m + n
  <2>1. k \in Nat OBVIOUS
  <2> HIDE DEF k
  <2>2. Copies(c, k) \in Seq(S) /\ Len(Copies(c, k)) = k /\ \A i \in 1 .. k : Copies(c, k)[i] = c BY <2>1, CopiesAre
  <2> QED BY <2>2 DEF k
<1> HIDE DEF s, t, w
<1>3. u \in Seq(S) /\ Appended(u, s, t) BY <1>1, Behindhand
<1> HIDE DEF u
<1>4. Len(u) = m + n BY <1>1, <1>3 DEF Appended
<1>5. ASSUME NEW i \in 1 .. m + n PROVE u[i] = c
  <2>1. CASE i <= m
    <3>1. i \in 1 .. Len(s) BY <1>1, <2>1
    <3> QED BY <1>1, <1>3, <3>1 DEF Appended
  <2>2. CASE ~(i <= m)
    <3>1. i - m \in 1 .. Len(t) /\ Len(s) + (i - m) = i BY <1>1, <2>2
    <3>2. u[Len(s) + (i - m)] = t[i - m] BY <1>3, <3>1 DEF Appended
    <3> QED BY <1>1, <3>1, <3>2
  <2> QED BY <2>1, <2>2
<1>6. u = w BY <1>2, <1>3, <1>4, <1>5, SeqEqual
<1> QED BY <1>6 DEF u, s, t, w

LEMMA Backwards ==
  ASSUME NEW S, NEW s \in Seq(S)
  PROVE  /\ Reverse(s) \in Seq(S) /\ Len(Reverse(s)) = Len(s)
         /\ \A i \in 1 .. Len(s) : Reverse(s)[i] = s[(Len(s) - i) + 1]
<1>1. Len(s) \in Nat OBVIOUS
<1>2. \A i \in 1 .. Len(s) : (Len(s) - i) + 1 \in 1 .. Len(s) BY <1>1
<1>3. \A i \in 1 .. Len(s) : s[(Len(s) - i) + 1] \in S BY <1>2
<1>4. Reverse(s) = [i \in 1 .. Len(s) |-> s[(Len(s) - i) + 1]] BY DEF Reverse
<1> QED BY <1>1, <1>3, <1>4

LEMMA ReverseJoined ==
  ASSUME NEW S, NEW s \in Seq(S), NEW t \in Seq(S)
  PROVE  Reverse(s \o t) = Reverse(t) \o Reverse(s)
<1> DEFINE u == s \o t
           r == Reverse(u)
           p == Reverse(s)
           q == Reverse(t)
           v == q \o p
           m == Len(s)
           n == Len(t)
<1>1. u \in Seq(S) /\ Appended(u, s, t) BY Behindhand
<1> HIDE DEF u
<1>2. r \in Seq(S) /\ Len(r) = Len(u) /\ \A i \in 1 .. Len(u) : r[i] = u[(Len(u) - i) + 1] BY <1>1, Backwards
<1>3. p \in Seq(S) /\ Len(p) = m /\ \A i \in 1 .. m : p[i] = s[(m - i) + 1] BY Backwards
<1>4. q \in Seq(S) /\ Len(q) = n /\ \A i \in 1 .. n : q[i] = t[(n - i) + 1] BY Backwards
<1> HIDE DEF r, p, q
<1>5. v \in Seq(S) /\ Appended(v, q, p) BY <1>3, <1>4, Behindhand
<1> HIDE DEF v
<1>6. m \in Nat /\ n \in Nat OBVIOUS
<1>7. Len(u) = m + n BY <1>1 DEF Appended
<1>8. Len(v) = n + m BY <1>3, <1>4, <1>5 DEF Appended
<1>9. ASSUME NEW i \in 1 .. m + n PROVE r[i] = v[i]
  <2> DEFINE j == (m + n - i) + 1
  <2>1. r[i] = u[j] /\ j \in 1 .. m + n BY <1>2, <1>6, <1>7
  <2>2. CASE i <= n
    <3>1. j - m \in 1 .. n /\ m + (j - m) = j /\ j - m = (n - i) + 1 /\ i \in 1 .. n BY <1>6, <2>2
    <3> HIDE DEF j
    <3>2. u[m + (j - m)] = t[j - m] BY <1>1, <3>1 DEF Appended
    <3>3. v[i] = q[i] BY <1>4, <1>5, <3>1 DEF Appended
    <3>4. q[i] = t[(n - i) + 1] BY <1>4, <3>1
    <3> QED BY <2>1, <3>1, <3>2, <3>3, <3>4
  <2>3. CASE ~(i <= n)
    <3> DEFINE k == i - n
    <3>1. j \in 1 .. m /\ k \in 1 .. m /\ n + k = i /\ j = (m - k) + 1 BY <1>6, <2>3
    <3> HIDE DEF j, k
    <3>2. u[j] = s[j] BY <1>1, <3>1 DEF Appended
    <3>3. v[n + k] = p[k] BY <1>3, <1>4, <1>5, <3>1 DEF Appended
    <3>4. p[k] = s[(m - k) + 1] BY <1>3, <3>1
    <3> QED BY <2>1, <3>1, <3>2, <3>3, <3>4
  <2> QED BY <2>2, <2>3
<1>10. Len(r) = m + n /\ Len(v) = m + n BY <1>2, <1>6, <1>7, <1>8
<1>11. r = v BY <1>2, <1>5, <1>9, <1>10, SeqEqual
<1> QED BY <1>11 DEF r, v, u, p, q

LEMMA ReverseOne == (\A c : Reverse(<<c>>) = <<c>>) /\ Reverse(<<>>) = <<>>
<1>0. ASSUME NEW c PROVE Reverse(<<c>>) = <<c>>
  <2> DEFINE S == {c}
             t == <<c>>
             r == Reverse(t)
  <2>1. t \in Seq(S) /\ Len(t) = 1 /\ t[1] = c OBVIOUS
  <2> HIDE DEF t
  <2>4. r \in Seq(S) /\ Len(r) = 1 /\ \A i \in 1 .. 1 : r[i] = t[(1 - i) + 1] BY <2>1, Backwards
  <2> HIDE DEF r
  <2>5. \A i \in 1 .. 1 : r[i] = t[i] BY <2>1, <2>4
  <2>6. r = t BY <2>1, <2>4, <2>5, SeqEqual
  <2>2. Reverse(<<c>>) = <<c>> BY <2>6 DEF r, t
  <2> QED BY <2>2
<1>3. Reverse(<<>>) = <<>>
  <2>1. Reverse(<<>>) = [i \in 1 .. 0 |-> <<>>[(0 - i) + 1]] BY DEF Reverse
  <2> QED BY <2>1
<1> QED BY <1>0, <1>3

LEMMA ReverseCopies ==
  ASSUME NEW S, NEW c \in S, NEW n \in Nat
  PROVE  Reverse(Copies(c, n)) = Copies(c, n)
<1> DEFINE s == Copies(c, n)
           r == Reverse(s)
<1>1. s \in Seq(S) /\ Len(s) = n /\ \A i \in 1 .. n : s[i] = c BY CopiesAre
<1> HIDE DEF s
<1>2. r \in Seq(S) /\ Len(r) = n /\ \A i \in 1 .. n : r[i] = s[(n - i) + 1] BY <1>1, Backwards
<1> HIDE DEF r
<1>3. ASSUME NEW i \in 1 .. n PROVE r[i] = s[i]
  <2>1. (n - i) + 1 \in 1 .. n OBVIOUS
  <2> QED BY <1>1, <1>2, <2>1
<1>4. r = s BY <1>1, <1>2, <1>3, SeqEqual
<1> QED BY <1>4 DEF r, s

(* Some of the copies behind a sequence are taken back. *)
LEMMA CutCopies ==
  ASSUME NEW S, NEW c \in S, NEW s \in Seq(S), NEW n \in Nat, NEW m \in 0 .. n
  PROVE  SubSeq(s \o Copies(c, n), 1, Len(s) + m) = s \o Copies(c, m)
<1> DEFINE t == Copies(c, n)
           t2 == Copies(c, m)
           u == s \o t
           v == s \o t2
           l == Len(s)
           w == SubSeq(u, 1, l + m)
<1>1. t \in Seq(S) /\ Len(t) = n /\ \A i \in 1 .. n : t[i] = c BY CopiesAre
<1>2. t2 \in Seq(S) /\ Len(t2) = m /\ \A i \in 1 .. m : t2[i] = c
  <2>1. m \in Nat OBVIOUS
  <2> QED BY <2>1, CopiesAre
<1> HIDE DEF t, t2
<1>3. u \in Seq(S) /\ Appended(u, s, t) BY <1>1, Behindhand
<1>4. v \in Seq(S) /\ Appended(v, s, t2) BY <1>2, Behindhand
<1> HIDE DEF u, v
<1>5. l \in Nat OBVIOUS
<1>6. Len(u) = l + n /\ Len(v) = l + m BY <1>1, <1>2, <1>3, <1>4 DEF Appended
<1>7. w \in Seq(S) /\ Len(w) = l + m /\ \A i \in 1 .. l + m : w[i] = u[i] BY <1>3, <1>5, <1>6
<1> HIDE DEF w
<1>8. ASSUME NEW i \in 1 .. l + m PROVE w[i] = v[i]
  <2>1. w[i] = u[i] BY <1>7
  <2>2. CASE i <= l
    <3>1. i \in 1 .. Len(s) BY <1>5, <2>2
    <3> QED BY <2>1, <1>3, <1>4, <3>1 DEF Appended
  <2>3. CASE ~(i <= l)
    <3> DEFINE k == i - l
    <3>1. k \in 1 .. m /\ k \in 1 .. n /\ l + k = i BY <1>5, <2>3
    <3> HIDE DEF k
    <3>2. u[l + k] = t[k] /\ v[l + k] = t2[k] BY <1>1, <1>2, <1>3, <1>4, <3>1 DEF Appended
    <3> QED BY <1>1, <1>2, <2>1, <3>1, <3>2
  <2> QED BY <2>2, <2>3
<1>9. w = v BY <1>4, <1>6, <1>7, <1>8, SeqEqual
<1> QED BY <1>9 DEF w, v, u, t, t2, l

(* Powers of a radix. *)
LEMMA PowerDef ==
  ASSUME NEW b \in Nat
  PROVE  /\ Power(b) \in [Nat -> Nat]
         /\ Power(b) = [n \in Nat |-> IF n = 0 THEN 1 ELSE b * Power(b)[n - 1]]
<1> DEFINE step == [p \in Nat \X Nat |-> b * p[2]]
           P(f) == f = [n \in Nat |-> IF n = 0 THEN 1 ELSE b * f[n - 1]]
<1>1. PICK f \in [Nat -> Nat] : Recursion(f, 1, step)
  <2>1. step \in [Nat \X Nat -> Nat] OBVIOUS
  <2>2. 1 \in Nat OBVIOUS
  <2> HIDE DEF step
  <2> QED BY <2>1, <2>2, PrimitiveRecursion
<1>2. P(f)
  <2>1. ASSUME NEW n \in Nat, n # 0 PROVE step[<<n, f[n - 1]>>] = b * f[n - 1]
    <3>1. f[n - 1] \in Nat BY <2>1
    <3>2. <<n, f[n - 1]>> \in Nat \X Nat BY <3>1
    <3> QED BY <3>2
  <2> HIDE DEF step
  <2> QED BY <1>1, <2>1 DEF Recursion
<1>3. Power(b) = CHOOSE g : P(g) BY DEF Power
<1>4. P(Power(b))
  <2> HIDE DEF P
  <2> QED BY <1>2, <1>3
<1>5. Power(b) \in [Nat -> Nat]
  <2> DEFINE T == {n \in Nat : Power(b)[n] \in Nat}
  <2>0. \A n \in Nat : Power(b)[n] = IF n = 0 THEN 1 ELSE b * Power(b)[n - 1] BY <1>4
  <2>4. Power(b) = [n \in Nat |-> Power(b)[n]] BY <1>4
  <2>1. 0 \in T BY <2>0
  <2>2. ASSUME NEW n \in T PROVE n + 1 \in T
    <3>1. n \in Nat /\ Power(b)[n] \in Nat /\ n + 1 # 0 /\ (n + 1) - 1 = n BY <2>2
    <3>2. Power(b)[n + 1] = b * Power(b)[n] BY <2>0, <3>1
    <3>3. b * Power(b)[n] \in Nat BY <3>1
    <3> QED BY <3>1, <3>2, <3>3
  <2>3. T \subseteq Nat OBVIOUS
  <2> HIDE DEF T
  <2>5. T = Nat BY <2>1, <2>2, <2>3, Inductive
  <2>6. \A n \in Nat : Power(b)[n] \in Nat BY <2>5 DEF T
  <2> QED BY <2>4, <2>6
<1> QED BY <1>4, <1>5

LEMMA PowerIs ==
  ASSUME NEW b \in Nat
  PROVE  Power(b)[0] = 1 /\ \A n \in Nat : Power(b)[n] \in Nat /\ Power(b)[n + 1] = b * Power(b)[n]
<1>1. \A n \in Nat : Power(b)[n] = IF n = 0 THEN 1 ELSE b * Power(b)[n - 1] BY PowerDef
<1>2. \A n \in Nat : n + 1 \in Nat /\ n + 1 # 0 /\ (n + 1) - 1 = n OBVIOUS
<1> QED BY <1>1, <1>2, PowerDef

LEMMA PowerGrows ==
  ASSUME NEW b \in Nat \ {0}, NEW m \in Nat, NEW n \in Nat, m <= n
  PROVE  Power(b)[m] >= 1 /\ Power(b)[m] <= Power(b)[n]
<1> DEFINE P == Power(b)
           T == {d \in Nat : P[m] <= P[m + d]}
           U == {k \in Nat : P[k] >= 1}
<1>1. P[0] = 1 /\ \A k \in Nat : P[k] \in Nat /\ P[k + 1] = b * P[k] BY PowerIs
<1> HIDE DEF P
<1>2. ASSUME NEW k \in Nat PROVE P[k] <= P[k + 1]
  <2>1. P[k] \in Nat /\ P[k + 1] = b * P[k] BY <1>1
  <2>2. 1 * P[k] <= b * P[k] BY <2>1, MulMonotone
  <2> QED BY <2>1, <2>2
<1>3. \A d \in Nat : m + d \in Nat /\ m + (d + 1) = (m + d) + 1 OBVIOUS
<1>4. 0 \in T BY <1>1
<1>5. ASSUME NEW d \in T PROVE d + 1 \in T
  <2>1. P[m + d] <= P[(m + d) + 1] BY <1>2, <1>3
  <2>2. P[m] \in Nat /\ P[m + d] \in Nat /\ P[(m + d) + 1] \in Nat BY <1>1, <1>3
  <2>3. P[m] <= P[m + (d + 1)] BY <1>3, <1>5, <2>1, <2>2
  <2> QED BY <2>3
<1>6. T \subseteq Nat OBVIOUS
<1>7. T = Nat
  <2> HIDE DEF T
  <2> QED BY <1>4, <1>5, <1>6, Inductive
<1>8. P[m] <= P[n]
  <2> DEFINE d == n - m
  <2>1. d \in Nat /\ m + d = n OBVIOUS
  <2> HIDE DEF d
  <2>2. d \in T BY <1>7, <2>1
  <2>3. P[m] <= P[m + d] BY <2>2
  <2> QED BY <2>1, <2>3
<1>9. U = Nat
  <2>1. 0 \in U BY <1>1
  <2>2. ASSUME NEW k \in U PROVE k + 1 \in U
    <3>1. P[k] <= P[k + 1] /\ P[k] >= 1 /\ P[k] \in Nat /\ P[k + 1] \in Nat BY <1>1, <1>2, <2>2
    <3> QED BY <3>1
  <2>3. U \subseteq Nat OBVIOUS
  <2> HIDE DEF U
  <2> QED BY <2>1, <2>2, <2>3, Inductive
<1> QED BY <1>8, <1>9 DEF P

LEMMA PowerOfMore ==
  ASSUME NEW a \in Nat, NEW b \in Nat, a <= b, NEW n \in Nat
  PROVE  Power(a)[n] <= Power(b)[n]
<1> DEFINE A == Power(a)
           B == Power(b)
           T == {k \in Nat : A[k] <= B[k]}
<1>1. A[0] = 1 /\ \A k \in Nat : A[k] \in Nat /\ A[k + 1] = a * A[k] BY PowerIs
<1>2. B[0] = 1 /\ \A k \in Nat : B[k] \in Nat /\ B[k + 1] = b * B[k] BY PowerIs
<1> HIDE DEF A, B
<1>3. 0 \in T BY <1>1, <1>2
<1>4. ASSUME NEW k \in T PROVE k + 1 \in T
  <2>1. A[k] \in Nat /\ B[k] \in Nat /\ A[k] <= B[k] BY <1>1, <1>2, <1>4
  <2>2. a * A[k] <= b * A[k] BY <2>1, MulMonotone
  <2>3. A[k] * b <= B[k] * b BY <2>1, MulMonotone
  <2>4. A[k] * b = b * A[k] /\ B[k] * b = b * B[k] BY <2>1
  <2>5. a * A[k] \in Nat /\ b * A[k] \in Nat /\ b * B[k] \in Nat BY <2>1
  <2>6. a * A[k] <= b * B[k] BY <2>2, <2>3, <2>4, <2>5
  <2>7. A[k + 1] <= B[k + 1] BY <1>1, <1>2, <2>6
  <2> QED BY <2>7
<1>5. T \subseteq Nat OBVIOUS
<1> HIDE DEF T
<1>6. T = Nat BY <1>3, <1>4, <1>5, Inductive
<1>7. A[n] <= B[n] BY <1>6 DEF T
<1> QED BY <1>7 DEF A, B

(* The number of digits: the only k with b^(k-1) <= v < b^k. *)
DigitCount(v, b, k) == k \in 1 .. IntegerBuffer /\ v < Power(b)[k] /\ Power(b)[k - 1] <= v
LEMMA DigitsCounted ==
  ASSUME NEW b \in Nat \ {0}, NEW v \in Nat \ {0}, v < Power(b)[IntegerBuffer]
  PROVE  \E k : DigitCount(v, b, k)
<1> DEFINE P == Power(b)
           T == {k \in Nat : v < P[k]}
<1>1. IntegerBuffer \in Nat \ {0} BY WidthAssumption
<1>2. P[0] = 1 /\ \A k \in Nat : P[k] \in Nat BY PowerIs
<1>3. v < P[IntegerBuffer] OBVIOUS
<1> HIDE DEF P
<1>4. IntegerBuffer \in T /\ T \subseteq Nat BY <1>1, <1>3
<1>5. PICK k \in T : \A m \in T : k <= m
  <2>1. T # {} BY <1>4
  <2> HIDE DEF T
  <2> QED BY <1>4, <2>1, LeastNumber
<1>6. k \in Nat /\ v < P[k] /\ k <= IntegerBuffer BY <1>4, <1>5
<1>7. k # 0 BY <1>2, <1>6
<1>8. k - 1 \in Nat /\ ~(k <= k - 1) BY <1>6, <1>7
<1>9. k - 1 \notin T BY <1>5, <1>8
<1>10. P[k - 1] <= v BY <1>2, <1>8, <1>9
<1>11. k \in 1 .. IntegerBuffer BY <1>1, <1>6, <1>7
<1> QED BY <1>6, <1>10, <1>11 DEF DigitCount, P

LEMMA OneDigitCount ==
  ASSUME NEW b \in Nat \ {0}, NEW v \in Nat, NEW k, DigitCount(v, b, k), NEW m, DigitCount(v, b, m)
  PROVE  k = m
<1>1. IntegerBuffer \in Nat BY WidthAssumption
<1>2. ASSUME NEW i, DigitCount(v, b, i), NEW j, DigitCount(v, b, j), i < j PROVE FALSE
  <2>1. i \in Nat /\ j - 1 \in Nat /\ i <= j - 1 BY <1>1, <1>2 DEF DigitCount
  <2>2. Power(b)[i] <= Power(b)[j - 1] BY <2>1, PowerGrows
  <2>3. Power(b)[i] \in Nat /\ Power(b)[j - 1] \in Nat BY <2>1, PowerIs
  <2>4. v < Power(b)[i] /\ Power(b)[j - 1] <= v BY <1>2 DEF DigitCount
  <2> QED BY <2>2, <2>3, <2>4
<1>3. k \in Int /\ m \in Int BY <1>1 DEF DigitCount
<1>4. ~(k < m) BY <1>2
<1>5. ~(m < k) BY <1>2
<1> QED BY <1>3, <1>4, <1>5

Over(a, b) == IF a > b THEN a - b ELSE 0
Zeros(n) == Copies("0", n)
Pad(n, m) == IF n > m THEN Copies(Space, n - m) ELSE <<>>

LEMMA OverIs == ASSUME NEW a \in Nat, NEW b \in Nat PROVE Over(a, b) \in Nat /\ (a <= b => Over(a, b) = 0) /\ (a >= b => Over(a, b) = a - b)
BY DEF Over

LEMMA ZerosAre == ASSUME NEW n \in Nat
  PROVE  Zeros(n) \in Seq(Chars) /\ Len(Zeros(n)) = n /\ Reverse(Zeros(n)) = Zeros(n) /\ Zeros(0) = <<>>
<1>1. "0" \in Chars BY CharsAssumption
<1>2. 0 \in Nat OBVIOUS
<1>3. Zeros(0) = <<>> BY <1>1, <1>2, CopiesAre DEF Zeros
<1>4. Zeros(n) \in Seq(Chars) /\ Len(Zeros(n)) = n BY <1>1, CopiesAre DEF Zeros
<1>5. Reverse(Zeros(n)) = Zeros(n) BY <1>1, ReverseCopies DEF Zeros
<1> QED BY <1>3, <1>4, <1>5

LEMMA Joins == ASSUME NEW S, NEW s \in Seq(S), NEW t \in Seq(S)
  PROVE  s \o t \in Seq(S) /\ Len(s \o t) = Len(s) + Len(t) /\ Len(s) \in Nat /\ Len(t) \in Nat
BY ConcatProperties

LEMMA FilledIs ==
  ASSUME NEW s \in Seq(Chars), NEW n \in Nat, n <= Len(s) \/ n <= IntegerBuffer
  PROVE  /\ Filled(s, n) = s \o Zeros(Over(n, Len(s)))
         /\ Filled(s, n) \in Seq(Chars)
         /\ Len(Filled(s, n)) = Len(s) + Over(n, Len(s))
<1> DEFINE l == Len(s)
           z == Over(n, l)
<1>0. l \in Nat OBVIOUS
<1>1. l \in Nat /\ z \in Nat BY <1>0 DEF Over
<1>2. Zeros(z) \in Seq(Chars) /\ Len(Zeros(z)) = z BY <1>1, ZerosAre
<1>3. Filled(s, n) = s \o Zeros(z)
  <2>1. CASE n > l
    <3>1. z = n - l BY <2>1 DEF Over
    <3>2. Least(n, IntegerBuffer) = n BY <2>1, WidthAssumption DEF Least
    <3> QED BY <2>1, <3>1, <3>2 DEF Filled, Zeros
  <2>2. CASE ~(n > l)
    <3>1. z = 0 BY <2>2 DEF Over
    <3>2. Zeros(z) = <<>> BY <1>1, <3>1, ZerosAre
    <3>3. Filled(s, n) = s BY <2>2 DEF Filled
    <3>4. s \o <<>> = s BY ConcatEmptySeq
    <3> QED BY <3>2, <3>3, <3>4
  <2> QED BY <2>1, <2>2
<1> HIDE DEF z
<1>4. s \o Zeros(z) \in Seq(Chars) /\ Len(s \o Zeros(z)) = l + z BY <1>2, Joins
<1> QED BY <1>3, <1>4 DEF z

LEMMA AddingIs ==
  ASSUME NEW s \in Seq(Chars), NEW t \in Seq(Chars), Len(s) < IntegerBuffer \/ t = <<>>
  PROVE  Adding(s, t) = s \o t
<1>1. CASE Len(s) < IntegerBuffer BY <1>1 DEF Adding
<1>2. CASE t = <<>>
  <2>1. s \o t = s BY <1>2, ConcatEmptySeq
  <2> QED BY <2>1 DEF Adding
<1> QED BY <1>1, <1>2

(* The prefix of a radix, as print_integer makes it. *)
RadixLetter(base, f) == IF base = 16 THEN IF "UPPERCASE" \in f THEN "X" ELSE "x" ELSE "b"
RadixText(base, f) == IF base \in {2, 16} THEN <<"0">> \o <<RadixLetter(base, f)>> ELSE <<"0">>
RadixRoom(base) == IF base \in {2, 16} THEN 2 ELSE 1

LEMMA RadixTextIs ==
  ASSUME NEW base, NEW f
  PROVE  /\ RadixText(base, f) \in Seq(Chars) /\ Len(RadixText(base, f)) = RadixRoom(base)
         /\ base \in {2, 16} => Reverse(RadixText(base, f)) = <<RadixLetter(base, f)>> \o <<"0">>
         /\ base \notin {2, 16} => Reverse(RadixText(base, f)) = <<"0">>
<1> DEFINE z == <<"0">>
           x == RadixLetter(base, f)
           y == <<x>>
<1>1. "0" \in Chars /\ x \in Chars BY CharsAssumption DEF RadixLetter
<1> HIDE DEF x
<1>2. z \in Seq(Chars) /\ Len(z) = 1 /\ Reverse(z) = z BY <1>1, ReverseOne
<1>3. y \in Seq(Chars) /\ Len(y) = 1 /\ Reverse(y) = y BY <1>1, ReverseOne
<1> HIDE DEF z, y
<1>4. z \o y \in Seq(Chars) /\ Len(z \o y) = 2
  <2>1. z \o y \in Seq(Chars) /\ Len(z \o y) = Len(z) + Len(y) BY <1>2, <1>3, Joins
  <2> QED BY <1>2, <1>3, <2>1
<1>5. Reverse(z \o y) = y \o z BY <1>2, <1>3, ReverseJoined
<1>6. RadixText(base, f) = IF base \in {2, 16} THEN z \o y ELSE z BY DEF RadixText, z, y, x
<1>7. CASE base \in {2, 16}
  <2>1. RadixText(base, f) = z \o y /\ RadixRoom(base) = 2 BY <1>6, <1>7 DEF RadixRoom
  <2> QED BY <1>4, <1>5, <1>7, <2>1 DEF z, y, x
<1>8. CASE base \notin {2, 16}
  <2>1. RadixText(base, f) = z /\ RadixRoom(base) = 1 BY <1>6, <1>8 DEF RadixRoom
  <2> QED BY <1>2, <1>8, <2>1 DEF z
<1> QED BY <1>7, <1>8

LEMMA PrefixedIs ==
  ASSUME NEW s \in Seq(Chars), NEW base \in {2, 8, 16}, NEW f, Len(s) + RadixRoom(base) <= IntegerBuffer
  PROVE  /\ Prefixed(s, base, f) = s \o Reverse(RadixText(base, f))
         /\ Prefixed(s, base, f) \in Seq(Chars)
         /\ Len(Prefixed(s, base, f)) = Len(s) + RadixRoom(base)
<1> DEFINE z == <<"0">>
           x == RadixLetter(base, f)
           y == <<x>>
           b == RadixText(base, f)
<1>1. "0" \in Chars /\ x \in Chars BY CharsAssumption DEF RadixLetter
<1>2. z \in Seq(Chars) /\ y \in Seq(Chars) /\ Len(z) = 1 /\ Len(y) = 1 BY <1>1
<1>3. Len(s) \in Nat /\ IntegerBuffer \in Nat BY WidthAssumption
<1>4. b \in Seq(Chars) /\ Len(b) = RadixRoom(base) BY RadixTextIs
<1>5. Reverse(b) \in Seq(Chars) /\ Len(Reverse(b)) = RadixRoom(base) BY <1>4, Backwards
<1>6. s \o Reverse(b) \in Seq(Chars) /\ Len(s \o Reverse(b)) = Len(s) + RadixRoom(base) BY <1>5, Joins
<1>7. CASE base \in {2, 16}
  <2>1. Reverse(b) = y \o z BY <1>7, RadixTextIs
  <2>2. RadixRoom(base) = 2 BY <1>7 DEF RadixRoom
  <2>3. Prefixed(s, base, f) = Adding(Adding(s, y), z)
    <3>1. base = 16 \/ base = 2 BY <1>7
    <3>2. CASE base = 16
      <4>1. ~(base = 2) BY <3>2
      <4>2. (IF "UPPERCASE" \in f THEN <<"X">> ELSE <<"x">>) = y BY <3>2 DEF RadixLetter
      <4> QED BY <3>2, <4>1, <4>2 DEF Prefixed
    <3>3. CASE base = 2
      <4>1. ~(base = 16) BY <3>3
      <4>2. <<"b">> = y BY <3>3, <4>1 DEF RadixLetter
      <4> QED BY <3>3, <4>1, <4>2 DEF Prefixed
    <3> QED BY <3>1, <3>2, <3>3
  <2> HIDE DEF y, z, b
  <2>4. Adding(s, y) = s \o y
    <3>1. Len(s) < IntegerBuffer BY <1>3, <2>2
    <3> QED BY <1>2, <3>1, AddingIs, ZenonT(40)
  <2>5. s \o y \in Seq(Chars) /\ Len(s \o y) = Len(s) + 1 BY <1>2, Joins, ZenonT(40)
  <2>6. Adding(s \o y, z) = (s \o y) \o z
    <3>1. Len(s \o y) < IntegerBuffer BY <1>3, <2>2, <2>5
    <3> QED BY <1>2, <2>5, <3>1, AddingIs, ZenonT(40)
  <2>7. (s \o y) \o z = s \o (y \o z) BY <1>2, TextsRegroup
  <2> QED BY <1>6, <2>1, <2>3, <2>4, <2>6, <2>7 DEF b
<1>8. CASE base = 8
  <2>0. base \notin {2, 16} BY <1>8
  <2>1. Reverse(b) = z BY <2>0, RadixTextIs
  <2>2. RadixRoom(base) = 1 BY <1>8 DEF RadixRoom
  <2>3. Prefixed(s, base, f) = Adding(Adding(s, <<>>), z)
    <3>1. base # 16 /\ base # 2 BY <1>8
    <3> QED BY <3>1 DEF Prefixed
  <2> HIDE DEF y, z, b
  <2>5. s \o <<>> = s /\ <<>> \in Seq(Chars) BY ConcatEmptySeq
  <2>4. Adding(s, <<>>) = s BY <2>5, AddingIs
  <2>6. Adding(s, z) = s \o z
    <3>1. Len(s) < IntegerBuffer BY <1>3, <2>2
    <3> QED BY <1>2, <3>1, AddingIs
  <2> QED BY <1>6, <2>1, <2>3, <2>4, <2>6 DEF b
<1> QED BY <1>7, <1>8

LEMMA SignIs ==
  ASSUME NEW negative \in BOOLEAN, NEW f
  PROVE  /\ Sign(negative, f) \in Seq(Chars) /\ Reverse(Sign(negative, f)) = Sign(negative, f)
         /\ Sign(negative, f) = <<>> \/ Len(Sign(negative, f)) = 1
         /\ negative => Sign(negative, f) = <<"-">>
         /\ ~negative /\ "PLUS" \in f => Sign(negative, f) = <<"+">>
         /\ ~negative /\ "PLUS" \notin f /\ "SPACE" \in f => Sign(negative, f) = <<Space>>
         /\ ~negative /\ "PLUS" \notin f /\ "SPACE" \notin f => Sign(negative, f) = <<>>
<1>1. "-" \in Chars /\ "+" \in Chars /\ Space \in Chars BY CharsAssumption
<1>2. /\ negative => Sign(negative, f) = <<"-">>
      /\ ~negative /\ "PLUS" \in f => Sign(negative, f) = <<"+">>
      /\ ~negative /\ "PLUS" \notin f /\ "SPACE" \in f => Sign(negative, f) = <<Space>>
      /\ ~negative /\ "PLUS" \notin f /\ "SPACE" \notin f => Sign(negative, f) = <<>>
  BY DEF Sign
<1>3. ASSUME NEW c \in Chars PROVE <<c>> \in Seq(Chars) /\ Len(<<c>>) = 1 /\ Reverse(<<c>>) = <<c>>
  BY ReverseOne
<1>4. <<>> \in Seq(Chars) /\ Reverse(<<>>) = <<>>
  <2>1. Reverse(<<>>) = <<>> BY ONLY ReverseOne
  <2> QED BY <2>1
<1>5. CASE negative BY <1>1, <1>2, <1>3, <1>5
<1>6. CASE ~negative /\ "PLUS" \in f BY <1>1, <1>2, <1>3, <1>6
<1>7. CASE ~negative /\ "PLUS" \notin f /\ "SPACE" \in f BY <1>1, <1>2, <1>3, <1>7
<1>8. CASE ~negative /\ "PLUS" \notin f /\ "SPACE" \notin f BY <1>2, <1>4, <1>8
<1> QED BY <1>5, <1>6, <1>7, <1>8

CodeRadix(l, base, q, f) == IF "HASH" \notin f \/ (base = 8 /\ q > l) THEN <<>> ELSE RadixText(base, f)
CodePrefix(l, negative, base, q, f) == Sign(negative, f) \o CodeRadix(l, base, q, f)
ZeroFill(f) == "LEFT" \notin f /\ "ZEROPAD" \in f
Spaced(s, w, f) == IF "LEFT" \in f THEN s \o Pad(w, Len(s)) ELSE Pad(w, Len(s)) \o s

LEMMA PadIs == ASSUME NEW n \in Nat, NEW m \in Nat PROVE Pad(n, m) \in Seq(Chars)
<1>1. Space \in Chars BY CharsAssumption
<1>2. CASE n > m
  <2>1. n - m \in Nat BY <1>2
  <2>2. Copies(Space, n - m) \in Seq(Chars) BY <1>1, <2>1, CopiesAre
  <2> QED BY <1>2, <2>2 DEF Pad
<1>3. CASE ~(n > m)
  <2>1. Pad(n, m) = <<>> BY <1>3 DEF Pad
  <2> QED BY <2>1
<1> QED BY <1>2, <1>3

(* What out_rev_ makes of a number, last character first. *)
LEMMA OutRevIs ==
  ASSUME NEW b \in Seq(Chars), NEW w \in Nat, NEW f
  PROVE  /\ ZeroFill(f) => OutRev(b, w, f) = Reverse(b)
         /\ ~ZeroFill(f) => OutRev(b, w, f) = Spaced(Reverse(b), w, f)
<1> DEFINE r == Reverse(b)
           p == Pad(w, Len(b))
           front == IF f \cap {"LEFT", "ZEROPAD"} = {} THEN p ELSE <<>>
           back == IF "LEFT" \in f THEN p ELSE <<>>
<1>1. r \in Seq(Chars) /\ Len(r) = Len(b) BY Backwards
<1>2. p \in Seq(Chars)
  <2>1. Len(b) \in Nat OBVIOUS
  <2> QED BY <2>1, PadIs
<1>3. OutRev(b, w, f) = (front \o r) \o back BY DEF OutRev, Pad
<1>4. Spaced(r, w, f) = IF "LEFT" \in f THEN r \o p ELSE p \o r BY <1>1 DEF Spaced
<1> HIDE DEF r, p
<1>5. <<>> \o r = r /\ r \o <<>> = r /\ p \o r \in Seq(Chars) /\ (p \o r) \o <<>> = p \o r
  <2>1. p \o r \in Seq(Chars) BY <1>1, <1>2, Joins
  <2>2. (p \o r) \o <<>> = p \o r BY <2>1, ConcatEmptySeq
  <2> QED BY <1>1, <2>1, <2>2, ConcatEmptySeq
<1>6. CASE "LEFT" \in f
  <2>1. f \cap {"LEFT", "ZEROPAD"} # {} BY <1>6
  <2>2. OutRev(b, w, f) = r \o p BY <1>3, <1>5, <1>6, <2>1
  <2> QED BY <1>4, <1>6, <2>2 DEF ZeroFill, r
<1>7. CASE "LEFT" \notin f /\ "ZEROPAD" \in f
  <2>1. f \cap {"LEFT", "ZEROPAD"} # {} BY <1>7
  <2>2. OutRev(b, w, f) = r BY <1>3, <1>5, <1>7, <2>1
  <2> QED BY <1>7, <2>2 DEF ZeroFill, r
<1>8. CASE "LEFT" \notin f /\ "ZEROPAD" \notin f
  <2>1. f \cap {"LEFT", "ZEROPAD"} = {} BY <1>8
  <2>2. OutRev(b, w, f) = p \o r BY <1>3, <1>5, <1>8, <2>1
  <2> QED BY <1>4, <1>8, <2>2 DEF ZeroFill, r
<1> QED BY <1>6, <1>7, <1>8

(* Zeros give way to a prefix when they came from the width only. *)
LEMMA NoneTaken ==
  ASSUME NEW d \in Seq(Chars), NEW z \in Nat, NEW base, NEW p, NEW w, NEW f, "PRECISION" \in f \/ z = 0
  PROVE  WithoutPadding(d \o Zeros(z), Len(d), base, p, w, f) = d \o Zeros(z)
<1> DEFINE s == d \o Zeros(z)
<1>0. Zeros(z) \in Seq(Chars) /\ Len(Zeros(z)) = z BY ZerosAre
<1>1. s \in Seq(Chars) /\ Len(s) = Len(d) + z /\ Len(d) \in Nat BY <1>0, Joins
<1> HIDE DEF s
<1>2. CASE "PRECISION" \in f BY <1>2 DEF WithoutPadding, s
<1>3. CASE "PRECISION" \notin f
  <2>1. z = 0 /\ Len(s) - Len(d) = 0 BY <1>1, <1>3
  <2>2. Least(Len(s) - Len(d), IF base \in {2, 16} THEN 2 ELSE 1) = 0 BY <2>1 DEF Least
  <2>3. Len(s) - 0 = Len(s) /\ Len(s) \in Nat BY <1>1
  <2>4. SubSeq(s, 1, Len(s)) = s BY <1>1, SubSeqFull
  <2>5. WithoutPadding(s, Len(d), base, p, w, f) = s
    <3> DEFINE cut == Least(Len(s) - Len(d), IF base \in {2, 16} THEN 2 ELSE 1)
    <3>1. cut = 0 BY <2>2
    <3>2. WithoutPadding(s, Len(d), base, p, w, f) =
            IF "PRECISION" \in f \/ Len(s) \notin {p, w} THEN s ELSE SubSeq(s, 1, Len(s) - cut)
      BY DEF WithoutPadding
    <3> HIDE DEF cut
    <3>3. Len(s) - cut = Len(s) BY <2>3, <3>1
    <3> QED BY <2>4, <3>2, <3>3
  <2> QED BY <2>5 DEF s
<1> QED BY <1>2, <1>3

LEMMA TwoTaken ==
  ASSUME NEW d \in Seq(Chars), NEW z \in Nat, NEW base \in {2, 16}, NEW p, NEW f, "PRECISION" \notin f
  PROVE  WithoutPadding(d \o Zeros(z), Len(d), base, p, Len(d) + z, f) = d \o Zeros(Over(z, 2))
<1> DEFINE s == d \o Zeros(z)
           l == Len(d)
           y == Over(z, 2)
           cut == Least(Len(s) - l, 2)
<1>0. Zeros(z) \in Seq(Chars) /\ Len(Zeros(z)) = z BY ZerosAre
<1>1. s \in Seq(Chars) /\ Len(s) = l + z /\ l \in Nat BY <1>0, Joins
<1>2. y \in 0 .. z BY DEF Over
<1>3. WithoutPadding(s, l, base, p, l + z, f) = SubSeq(s, 1, Len(s) - cut)
  <2>1. Len(s) \in {p, l + z} BY <1>1
  <2>2. (IF base \in {2, 16} THEN 2 ELSE 1) = 2 OBVIOUS
  <2> HIDE DEF s, l
  <2> QED BY <2>1, <2>2 DEF WithoutPadding
<1>4. Len(s) - l = z BY <1>1
<1>5. Len(s) - cut = l + y
  <2>1. cut = Least(z, 2) BY <1>4
  <2>2. z - Least(z, 2) = y BY DEF Least, Over
  <2>3. Least(z, 2) \in Nat BY DEF Least
  <2> HIDE DEF s, l, y
  <2> QED BY <1>1, <1>2, <2>1, <2>2, <2>3, SMTT(40)
<1>6. SubSeq(s, 1, l + y) = d \o Zeros(y)
  <2>1. "0" \in Chars BY CharsAssumption
  <2> HIDE DEF y
  <2> QED BY <1>2, <2>1, CutCopies DEF Zeros
<1> QED BY <1>3, <1>5, <1>6

LEMMA Restored == ASSUME NEW S, NEW s \in Seq(S) PROVE Reverse(Reverse(s)) = s
<1> DEFINE r == Reverse(s)
           t == Reverse(r)
           l == Len(s)
<1>1. r \in Seq(S) /\ Len(r) = l /\ \A i \in 1 .. l : r[i] = s[(l - i) + 1] BY Backwards
<1> HIDE DEF r
<1>2. t \in Seq(S) /\ Len(t) = l /\ \A i \in 1 .. l : t[i] = r[(l - i) + 1] BY <1>1, Backwards
<1> HIDE DEF t
<1>3. l \in Nat OBVIOUS
<1>4. ASSUME NEW i \in 1 .. l PROVE t[i] = s[i]
  <2> DEFINE j == (l - i) + 1
  <2>1. j \in 1 .. l /\ (l - j) + 1 = i BY <1>3
  <2>2. t[i] = r[j] BY <1>2
  <2> HIDE DEF j
  <2>3. r[j] = s[(l - j) + 1] BY <1>1, <2>1
  <2> QED BY <2>1, <2>2, <2>3
<1>5. t = s BY <1>2, <1>4, SeqEqual
<1> QED BY <1>5 DEF t, r

LEMMA ReverseBehind ==
  ASSUME NEW S, NEW s \in Seq(S), NEW p \in Seq(S)
  PROVE  /\ Reverse(s \o Reverse(p)) = p \o Reverse(s)
         /\ s \o Reverse(p) \in Seq(S) /\ Len(s \o Reverse(p)) = Len(s) + Len(p)
<1>1. Reverse(p) \in Seq(S) /\ Len(Reverse(p)) = Len(p) BY Backwards
<1>2. Reverse(s \o Reverse(p)) = Reverse(Reverse(p)) \o Reverse(s) BY <1>1, ReverseJoined
<1>3. Reverse(Reverse(p)) = p BY Restored
<1>4. s \o Reverse(p) \in Seq(S) /\ Len(s \o Reverse(p)) = Len(s) + Len(Reverse(p)) BY <1>1, Joins
<1> QED BY <1>1, <1>2, <1>3, <1>4

(* What print_integer_finalization is given, and room in the buffer. *)
Ready(d, negative, base, q, w, f) ==
  /\ d \in Seq(Chars) /\ negative \in BOOLEAN /\ base \in {2, 8, 10, 16} /\ q \in Nat /\ w \in Nat
  /\ "POINTER" \notin f
  /\ "PRECISION" \notin f => q = 0
  /\ "PRECISION" \in f => "ZEROPAD" \notin f
  /\ "HASH" \in f => base # 10
  /\ base # 10 => Sign(negative, f) = <<>>
  /\ Len(CodePrefix(Len(d), negative, base, q, f)) + Len(d) + Over(q, Len(d)) <= IntegerBuffer
  /\ ZeroFill(f) => w <= IntegerBuffer

PrefixIs(P, l, negative, base, q, f) ==
  /\ P \in Seq(Chars)
  /\ ("HASH" \notin f \/ (base = 8 /\ q > l)) => P = Sign(negative, f)
  /\ ~("HASH" \notin f \/ (base = 8 /\ q > l)) => P = RadixText(base, f)
LEMMA CodePrefixIs ==
  ASSUME NEW l \in Nat, NEW negative \in BOOLEAN, NEW base \in {2, 8, 10, 16}, NEW q \in Nat, NEW f,
         base # 10 => Sign(negative, f) = <<>>, "HASH" \in f => base # 10
  PROVE  PrefixIs(CodePrefix(l, negative, base, q, f), l, negative, base, q, f)
<1> DEFINE s == Sign(negative, f)
           r == RadixText(base, f)
           P == CodePrefix(l, negative, base, q, f)
<1>1. s \in Seq(Chars) BY SignIs
<1>2. r \in Seq(Chars) BY RadixTextIs
<1>3. P = s \o CodeRadix(l, base, q, f) BY DEF CodePrefix
<1>4. base # 10 => s = <<>> OBVIOUS
<1> HIDE DEF s, r, P
<1>5. CASE "HASH" \notin f \/ (base = 8 /\ q > l)
  <2>1. CodeRadix(l, base, q, f) = <<>> BY <1>5 DEF CodeRadix
  <2>2. P = s BY <1>1, <1>3, <2>1, ConcatEmptySeq
  <2> QED BY <1>1, <1>5, <2>2 DEF P, s, PrefixIs
<1>6. CASE ~("HASH" \notin f \/ (base = 8 /\ q > l))
  <2>1. CodeRadix(l, base, q, f) = r BY <1>6 DEF CodeRadix, r
  <2>2. s = <<>> BY <1>4, <1>6
  <2>3. <<>> \o r = r BY <1>2, ConcatEmptySeq
  <2>4. P = r BY <1>3, <2>1, <2>2, <2>3
  <2> QED BY <1>2, <1>6, <2>4 DEF P, r, PrefixIs
<1> QED BY <1>5, <1>6

LEMMA FinalizedPlain ==
  ASSUME NEW d, NEW negative, NEW base, NEW q, NEW w, NEW f, Ready(d, negative, base, q, w, f), ~ZeroFill(f)
  PROVE  Finalized(d, negative, base, q, w, f) =
           Spaced(CodePrefix(Len(d), negative, base, q, f) \o Reverse(d \o Zeros(Over(q, Len(d)))), w, f)
<1> DEFINE l == Len(d)
           z == Over(q, l)
           g == Sign(negative, f)
           P == CodePrefix(l, negative, base, q, f)
           R == RadixText(base, f)
           pd == d \o Zeros(z)
           hs == \/ "POINTER" \in f
                 \/ "HASH" \in f /\ ~(base = 8 /\ Len(pd) > l)
           nb == IF ~hs THEN pd ELSE Prefixed(WithoutPadding(pd, l, base, q, w, f), base, f)
<1> USE DEF Ready
<1>1. l \in Nat /\ z \in Nat /\ (z > 0 <=> q > l) /\ (q = 0 => z = 0) BY DEF Over
<1>2. IntegerBuffer \in Nat BY WidthAssumption
<1>3. /\ P \in Seq(Chars) /\ ("HASH" \notin f \/ (base = 8 /\ q > l) => P = g)
      /\ (~("HASH" \notin f \/ (base = 8 /\ q > l)) => P = R)
  <2>1. PrefixIs(P, l, negative, base, q, f)
    <3> HIDE DEF l
    <3> QED BY <1>1, CodePrefixIs
  <2> HIDE DEF P, g, R
  <2>2. P \in Seq(Chars) /\ ("HASH" \notin f \/ (base = 8 /\ q > l) => P = Sign(negative, f))
        /\ (~("HASH" \notin f \/ (base = 8 /\ q > l)) => P = RadixText(base, f))
    BY <2>1 DEF PrefixIs
  <2> QED BY <2>2 DEF g, R
<1>4. Len(P) + l + z <= IntegerBuffer /\ Len(P) \in Nat BY <1>3
<1>5. Filled(d, q) = pd /\ pd \in Seq(Chars) /\ Len(pd) = l + z
  <2>1. q <= l \/ z = q - l BY <1>1 DEF Over
  <2>2. q <= l \/ q <= IntegerBuffer
    <3> HIDE DEF P, l, z
    <3> QED BY <1>1, <1>2, <1>4, <2>1
  <2>3. q <= Len(d) \/ q <= IntegerBuffer BY <2>2
  <2> HIDE DEF P
  <2> QED BY <2>3, FilledIs
<1>6. g \in Seq(Chars) /\ Reverse(g) = g /\ (g = <<>> \/ Len(g) = 1) BY SignIs
<1>7. R \in Seq(Chars) /\ Len(R) = RadixRoom(base) BY RadixTextIs
<1>8. SignRoom(negative, w, f) = w
  <2>1. ~({"LEFT", "ZEROPAD"} \cap f = {"ZEROPAD"}) BY DEF ZeroFill
  <2> QED BY <2>1 DEF SignRoom
<1>9. LeadingZeros(d, q, w, f) = pd
  <2>1. ~("LEFT" \notin f /\ "ZEROPAD" \in f) BY DEF ZeroFill
  <2> QED BY <1>5, <2>1 DEF LeadingZeros
<1>10. Finalized(d, negative, base, q, w, f) = OutRev(Adding(nb, g), w, f)
  BY <1>8, <1>9 DEF Finalized
<1>11. hs <=> ~("HASH" \notin f \/ (base = 8 /\ q > l))
  <2>1. Len(pd) > l <=> q > l BY <1>1, <1>5
  <2> QED BY <2>1
<1> HIDE DEF hs
<1>12. Adding(nb, g) = pd \o Reverse(P)
  <2>1. CASE hs
    <3>1. P = R /\ base \in {2, 8, 16} /\ g = <<>> BY <1>3, <1>11, <2>1
    <3>2. "PRECISION" \in f \/ z = 0 BY <1>1
    <3>3. WithoutPadding(pd, l, base, q, w, f) = pd
      <4> HIDE DEF z, P, g, R, nb
      <4> QED BY <1>1, <3>2, NoneTaken, SMTT(30)
    <3>4. Len(pd) + RadixRoom(base) <= IntegerBuffer
      <4>1. RadixRoom(base) \in Nat BY DEF RadixRoom
      <4> HIDE DEF l, z, pd, P, R
      <4> QED BY <1>1, <1>2, <1>4, <1>5, <1>7, <3>1, <4>1
    <3>5. Prefixed(pd, base, f) = pd \o Reverse(R) BY <1>5, <3>1, <3>4, PrefixedIs
    <3>6. nb = pd \o Reverse(P) BY <2>1, <3>1, <3>3, <3>5
    <3>7. nb \in Seq(Chars) BY <1>3, <1>5, <3>6, ReverseBehind, ZenonT(40)
    <3> HIDE DEF nb, pd, P, g
    <3>8. Adding(nb, <<>>) = nb \o <<>>
      <4>1. <<>> \in Seq(Chars) OBVIOUS
      <4> QED BY <3>7, <4>1, AddingIs
    <3>9. nb \o <<>> = nb BY <3>7, ConcatEmptySeq
    <3> QED BY <3>1, <3>6, <3>8, <3>9
  <2>2. CASE ~hs
    <3>1. P = g /\ nb = pd BY <1>3, <1>11, <2>2
    <3> HIDE DEF nb, pd, P, g, l, z
    <3>2. Len(pd) < IntegerBuffer \/ g = <<>> BY <1>1, <1>2, <1>4, <1>5, <1>6, <3>1
    <3>3. Adding(pd, g) = pd \o g BY <1>5, <1>6, <3>2, AddingIs
    <3> QED BY <1>6, <3>1, <3>3
  <2> QED BY <2>1, <2>2
<1> HIDE DEF nb, pd, P, g, l, z
<1>13. Reverse(pd \o Reverse(P)) = P \o Reverse(pd) /\ pd \o Reverse(P) \in Seq(Chars) BY <1>3, <1>5, ReverseBehind
<1>14. OutRev(pd \o Reverse(P), w, f) = Spaced(Reverse(pd \o Reverse(P)), w, f) BY <1>13, OutRevIs
<1>15. Finalized(d, negative, base, q, w, f) = Spaced(P \o Reverse(pd), w, f) BY <1>10, <1>12, <1>13, <1>14
<1> QED BY <1>15 DEF P, pd, l, z

LEMMA FinalizedZeros ==
  ASSUME NEW d, NEW negative, NEW base, NEW q, NEW w, NEW f, Ready(d, negative, base, q, w, f), ZeroFill(f)
  PROVE  LET P == CodePrefix(Len(d), negative, base, q, f)
         IN  Finalized(d, negative, base, q, w, f) = (P \o Zeros(Over(w, Len(P) + Len(d)))) \o Reverse(d)
<1> DEFINE l == Len(d)
           g == Sign(negative, f)
           P == CodePrefix(l, negative, base, q, f)
           R == RadixText(base, f)
           wd == SignRoom(negative, w, f)
           y == Over(wd, l)
           k == Over(w, Len(P) + l)
           pd == d \o Zeros(y)
           hs == \/ "POINTER" \in f
                 \/ "HASH" \in f /\ ~(base = 8 /\ Len(pd) > l)
           nb == IF ~hs THEN pd ELSE Prefixed(WithoutPadding(pd, l, base, q, wd, f), base, f)
<1> USE DEF Ready
<1>1. "PRECISION" \notin f /\ q = 0 BY DEF ZeroFill
<1>2. IntegerBuffer \in Nat \ {0} /\ l \in Nat /\ w \in Nat /\ w <= IntegerBuffer BY WidthAssumption
<1>3. P \in Seq(Chars) /\ ("HASH" \notin f => P = g) /\ ("HASH" \in f => P = R)
  <2>1. ~(q > l) BY <1>1, <1>2
  <2>2. PrefixIs(P, l, negative, base, q, f)
    <3> HIDE DEF l
    <3> QED BY <1>2, CodePrefixIs
  <2> HIDE DEF P, g, R
  <2>3. P \in Seq(Chars) /\ ("HASH" \notin f \/ (base = 8 /\ q > l) => P = Sign(negative, f))
        /\ (~("HASH" \notin f \/ (base = 8 /\ q > l)) => P = RadixText(base, f))
    BY <2>2 DEF PrefixIs
  <2> QED BY <2>1, <2>3 DEF g, R
<1>4. Len(P) + l <= IntegerBuffer /\ Len(P) \in Nat
  <2>1. Over(q, l) = 0 BY <1>1, <1>2 DEF Over
  <2>2. Len(P) + l + 0 <= IntegerBuffer BY <2>1
  <2> QED BY <1>2, <1>3, <2>2
<1>5. g \in Seq(Chars) /\ Reverse(g) = g /\ (g = <<>> \/ Len(g) = 1) BY SignIs
<1>6. R \in Seq(Chars) /\ Len(R) = RadixRoom(base) BY RadixTextIs
<1>7. wd = IF w > 0 /\ g # <<>> THEN w - 1 ELSE w
  <2>1. {"LEFT", "ZEROPAD"} \cap f = {"ZEROPAD"} BY DEF ZeroFill
  <2> QED BY <2>1 DEF SignRoom
<1>8. wd \in Nat /\ wd <= IntegerBuffer BY <1>2, <1>7
<1>9. y \in Nat /\ k \in Nat
  <2> HIDE DEF l, wd, P
  <2> QED BY <1>2, <1>4, <1>8 DEF Over
<1>10. Filled(d, wd) = pd /\ pd \in Seq(Chars) /\ Len(pd) = l + y
  <2> HIDE DEF wd
  <2> QED BY <1>8, FilledIs
<1>11. LeadingZeros(d, q, wd, f) = pd
  <2>1. Filled(pd, 0) = pd
    <3>1. ~(0 > Len(pd)) BY <1>10
    <3> HIDE DEF pd
    <3> QED BY <3>1 DEF Filled
  <2> HIDE DEF wd
  <2>2. "LEFT" \notin f /\ "ZEROPAD" \in f BY DEF ZeroFill
  <2> QED BY <1>1, <1>10, <2>1, <2>2 DEF LeadingZeros
<1>12. Finalized(d, negative, base, q, w, f) = OutRev(Adding(nb, g), wd, f)
  BY <1>11 DEF Finalized
<1>13. hs <=> "HASH" \in f /\ ~(base = 8 /\ y > 0)
  <2>1. Len(pd) > l <=> y > 0
    <3> HIDE DEF pd, l, y
    <3> QED BY <1>2, <1>9, <1>10
  <2> QED BY <2>1
<1> HIDE DEF hs
(* What is reversed: the number, zeros behind it and its prefix. *)
<1>14. ASSUME Adding(nb, g) = (d \o Zeros(k)) \o Reverse(P)
       PROVE  Finalized(d, negative, base, q, w, f) = (P \o Zeros(k)) \o Reverse(d)
  <2> DEFINE s == d \o Zeros(k)
             b == s \o Reverse(P)
  <2>1. Zeros(k) \in Seq(Chars) /\ Reverse(Zeros(k)) = Zeros(k) BY <1>9, ZerosAre
  <2>2. s \in Seq(Chars) BY <2>1, Joins
  <2>3. Reverse(s) = Zeros(k) \o Reverse(d) BY <2>1, ReverseJoined
  <2>4. Adding(nb, g) = b BY <1>14
  <2> HIDE DEF s, nb
  <2>5. b \in Seq(Chars) /\ Reverse(b) = P \o Reverse(s) BY <1>3, <2>2, ReverseBehind
  <2> HIDE DEF b, wd
  <2>6. OutRev(b, wd, f) = Reverse(b) BY <1>8, <2>5, OutRevIs
  <2>7. Reverse(d) \in Seq(Chars) BY Backwards
  <2> HIDE DEF P, k
  <2>8. P \o (Zeros(k) \o Reverse(d)) = (P \o Zeros(k)) \o Reverse(d)
    <3> DEFINE a == Zeros(k)
               c == Reverse(d)
    <3>1. P \in Seq(Chars) /\ a \in Seq(Chars) /\ c \in Seq(Chars) BY <1>3, <2>1, <2>7
    <3> HIDE DEF a, c
    <3>2. (P \o a) \o c = P \o (a \o c) BY <3>1, TextsRegroup
    <3> QED BY <3>2 DEF a, c
  <2> QED BY <1>12, <2>3, <2>4, <2>5, <2>6, <2>8
<1>15. CASE "HASH" \notin f
  <2>1. ~hs /\ nb = pd /\ P = g BY <1>3, <1>13, <1>15
  <2>2. y = k
    <3>1. CASE g = <<>>
      <4>1. wd = w /\ Len(P) = 0 BY <1>7, <2>1, <3>1
      <4> HIDE DEF P, l, wd
      <4> QED BY <1>2, <4>1
    <3>2. CASE g # <<>>
      <4>1. Len(P) = 1 /\ wd = IF w > 0 THEN w - 1 ELSE w BY <1>5, <1>7, <2>1, <3>2
      <4> HIDE DEF P, l, wd
      <4> QED BY <1>2, <4>1 DEF Over
    <3> QED BY <3>1, <3>2
  <2>3. Len(pd) < IntegerBuffer \/ g = <<>>
    <3> SUFFICES ASSUME g # <<>> PROVE Len(pd) < IntegerBuffer OBVIOUS
    <3>1. Len(P) = 1 /\ wd = IF w > 0 THEN w - 1 ELSE w BY <1>5, <1>7, <2>1
    <3> HIDE DEF P, l, wd, pd
    <3> QED BY <1>2, <1>4, <1>10, <3>1 DEF Over
  <2>4. Adding(pd, g) = pd \o g
    <3> HIDE DEF pd, g
    <3> QED BY <1>5, <1>10, <2>3, AddingIs
  <2>5. Adding(nb, g) = (d \o Zeros(k)) \o Reverse(P)
    <3>1. Reverse(P) = g BY <1>5, <2>1
    <3> HIDE DEF nb, P, g, y, k
    <3> QED BY <2>1, <2>2, <2>4, <3>1
  <2> QED BY <1>14, <2>5
<1>16. ASSUME "HASH" \in f
       PROVE  P = R /\ g = <<>> /\ wd = w /\ base \in {2, 8, 16} /\ Len(P) = RadixRoom(base)
  BY <1>3, <1>6, <1>7, <1>16
<1>17. CASE "HASH" \in f /\ ~(base = 8 /\ y > 0)
  <2>1. hs /\ nb = Prefixed(WithoutPadding(pd, l, base, q, wd, f), base, f) BY <1>13, <1>17
  <2>2. P = R /\ g = <<>> /\ wd = w /\ base \in {2, 8, 16} /\ Len(P) = RadixRoom(base) BY <1>16, <1>17
  <2>3. WithoutPadding(pd, l, base, q, wd, f) = d \o Zeros(k)
    <3>1. CASE y = 0
      <4>1. WithoutPadding(pd, l, base, q, wd, f) = pd
        <5> HIDE DEF wd, y
        <5> QED BY <1>9, <3>1, NoneTaken
      <4>2. k = 0
        <5> HIDE DEF P, l, wd
        <5> QED BY <1>2, <1>4, <2>2, <3>1 DEF Over
      <4> HIDE DEF y, k
      <4> QED BY <3>1, <4>1, <4>2
    <3>2. CASE y # 0
      <4>1. base \in {2, 16} /\ RadixRoom(base) = 2 BY <1>9, <1>17, <2>2, <3>2 DEF RadixRoom
      <4>2. wd = l + y /\ Over(y, 2) = k
        <5> HIDE DEF P, l, wd
        <5> QED BY <1>2, <1>4, <2>2, <3>2, <4>1 DEF Over
      <4>3. WithoutPadding(pd, l, base, q, l + y, f) = d \o Zeros(Over(y, 2))
        <5> HIDE DEF y
        <5> QED BY <1>1, <1>9, <4>1, TwoTaken, SMTT(30)
      <4> HIDE DEF pd, y, k, wd
      <4> QED BY <4>2, <4>3
    <3> QED BY <3>1, <3>2
  <2> DEFINE s == d \o Zeros(k)
  <2>4. s \in Seq(Chars) /\ Len(s) = l + k
    <3>1. Zeros(k) \in Seq(Chars) /\ Len(Zeros(k)) = k BY <1>9, ZerosAre
    <3> HIDE DEF k
    <3>2. s \in Seq(Chars) /\ Len(s) = Len(d) + Len(Zeros(k)) BY <3>1, Joins
    <3> QED BY <3>1, <3>2
  <2>5. Len(s) + RadixRoom(base) <= IntegerBuffer
    <3>1. RadixRoom(base) \in Nat BY DEF RadixRoom
    <3> HIDE DEF P, l, s
    <3> QED BY <1>2, <1>4, <2>2, <2>4, <3>1 DEF Over
  <2>6. nb = s \o Reverse(P)
    <3>1. nb = Prefixed(s, base, f) BY <2>1, <2>3
    <3> HIDE DEF s, nb
    <3>2. Prefixed(s, base, f) = s \o Reverse(R) BY <2>2, <2>4, <2>5, PrefixedIs
    <3> QED BY <2>2, <3>1, <3>2
  <2>7. Adding(nb, g) = s \o Reverse(P)
    <3> HIDE DEF s, nb, P, g
    <3>1. nb \in Seq(Chars) BY <1>3, <2>4, <2>6, ReverseBehind
    <3>2. <<>> \in Seq(Chars) OBVIOUS
    <3>3. Adding(nb, <<>>) = nb \o <<>> BY <3>1, <3>2, AddingIs
    <3>4. nb \o <<>> = nb BY <3>1, ConcatEmptySeq
    <3> QED BY <2>2, <2>6, <3>3, <3>4
  <2> QED BY <1>14, <2>7
<1>18. CASE "HASH" \in f /\ base = 8 /\ y > 0
  <2>1. ~hs /\ nb = pd BY <1>13, <1>18
  <2>2. P = R /\ g = <<>> /\ wd = w /\ Len(P) = 1
    <3>1. RadixRoom(base) = 1 BY <1>18 DEF RadixRoom
    <3> QED BY <1>16, <1>18, <3>1
  <2>3. y = 1 + k
    <3>1. y = (IF w > l THEN w - l ELSE 0) /\ k = (IF w > 1 + l THEN w - (1 + l) ELSE 0)
      <4> HIDE DEF P, l, wd, R, g
      <4> QED BY <2>2 DEF Over
    <3> HIDE DEF P, l, wd, R, g, y, k
    <3> QED BY <1>2, <1>18, <3>1
  <2>4. Zeros(1) = R
    <3>1. R = <<"0">>
      <4>1. base \notin {2, 16} BY <1>18
      <4> QED BY <4>1 DEF RadixText
    <3>2. Copies("0", 1) = <<"0">> BY DEF Copies
    <3> QED BY <3>1, <3>2 DEF Zeros
  <2>5. Zeros(y) = Zeros(k) \o Zeros(1)
    <3>1. "0" \in Chars /\ 1 \in Nat BY CharsAssumption
    <3> HIDE DEF k, y
    <3>2. Copies("0", k) \o Copies("0", 1) = Copies("0", k + 1) BY <1>9, <3>1, CopiesJoin
    <3>3. k + 1 = y BY <1>9, <2>3
    <3> QED BY <3>2, <3>3 DEF Zeros
  <2>6. Reverse(P) = R
    <3>1. Reverse(Zeros(1)) = Zeros(1)
      <4>1. 1 \in Nat OBVIOUS
      <4> QED BY <4>1, ZerosAre
    <3> QED BY <2>2, <2>4, <3>1
  <2>7. pd = (d \o Zeros(k)) \o Reverse(P)
    <3>1. Zeros(k) \in Seq(Chars) BY <1>9, ZerosAre
    <3> HIDE DEF k, y, P, R
    <3>2. d \o (Zeros(k) \o R) = (d \o Zeros(k)) \o R BY <1>6, <3>1, TextsRegroup
    <3> QED BY <2>4, <2>5, <2>6, <3>2
  <2>8. Adding(nb, g) = pd
    <3> HIDE DEF pd, nb, g
    <3>2. <<>> \in Seq(Chars) OBVIOUS
    <3>3. Adding(pd, <<>>) = pd \o <<>> BY <1>10, <3>2, AddingIs
    <3>4. pd \o <<>> = pd BY <1>10, ConcatEmptySeq
    <3> QED BY <2>1, <2>2, <3>3, <3>4
  <2> QED BY <1>14, <2>7, <2>8
<1> QED BY <1>15, <1>17, <1>18, <1>9

(* The digits of a number, last one first. *)
DigitsMade(v, b, upper, n) == [i \in 1 .. n |-> Letters(upper)[((v \div Power(b)[i - 1]) % b) + 1]]

LEMMA DigitsOfIs ==
  ASSUME NEW b \in Nat \ {0}, NEW v \in Nat \ {0}, NEW k, DigitCount(v, b, k), NEW f
  PROVE  DigitsOf(v, b, f) = DigitsMade(v, b, "UPPERCASE" \in f, k)
<1> DEFINE Q(j) == v < Power(b)[j] /\ (j = 1 \/ v >= Power(b)[j - 1])
           n == CHOOSE j \in 1 .. IntegerBuffer : Q(j)
<1>1. IntegerBuffer \in Nat BY WidthAssumption
<1>2. k \in 1 .. IntegerBuffer /\ Q(k)
  <2>1. k \in 1 .. IntegerBuffer /\ v < Power(b)[k] /\ Power(b)[k - 1] <= v BY DEF DigitCount
  <2>2. k - 1 \in Nat BY <1>1, <2>1
  <2>3. Power(b)[k - 1] \in Nat BY <2>2, PowerIs
  <2> QED BY <2>1, <2>3
<1>3. n \in 1 .. IntegerBuffer /\ Q(n)
  <2> HIDE DEF Q
  <2> QED BY <1>2
<1> HIDE DEF n
<1>4. DigitCount(v, b, n)
  <2>1. n - 1 \in Nat /\ (n = 1 => n - 1 = 0) BY <1>1, <1>3
  <2>2. Power(b)[n - 1] \in Nat /\ Power(b)[0] = 1 BY <2>1, PowerIs
  <2>3. Power(b)[n - 1] <= v BY <1>3, <2>1, <2>2
  <2> QED BY <1>3, <2>3 DEF DigitCount
<1>5. n = k BY <1>4, OneDigitCount
<1>6. DigitsOf(v, b, f) = DigitsMade(v, b, "UPPERCASE" \in f, n) BY DEF DigitsOf, DigitsMade, n
<1> QED BY <1>5, <1>6

LEMMA SignificantIs ==
  ASSUME NEW p, Amount(p) \in Nat, Radix(p) \in Nat \ {0}
  PROVE  /\ Amount(p) = 0 => Significant(p) = 0
         /\ \A k : Amount(p) # 0 /\ DigitCount(Amount(p), Radix(p), k) => Significant(p) = k
<1> DEFINE v == Amount(p)
           b == Radix(p)
           Q(j) == v < Power(b)[j] /\ (j = 0 \/ Power(b)[j - 1] <= v)
           n == CHOOSE j \in 0 .. IntegerBuffer : Q(j)
<1>1. IntegerBuffer \in Nat BY WidthAssumption
<1>2. Significant(p) = n BY DEF Significant
<1>3. v \in Nat /\ b \in Nat \ {0} OBVIOUS
<1> HIDE DEF v, b
<1>4. Power(b)[0] = 1 /\ \A j \in Nat : Power(b)[j] \in Nat /\ Power(b)[j] >= 1
  <2>1. ASSUME NEW j \in Nat PROVE Power(b)[j] >= 1
    <3>1. j <= j OBVIOUS
    <3> QED BY <1>3, <3>1, PowerGrows
  <2> QED BY <1>3, <2>1, PowerIs
<1>5. ASSUME v = 0 PROVE n = 0
  <2>1. 0 \in 0 .. IntegerBuffer /\ Q(0) BY <1>1, <1>4, <1>5
  <2>2. n \in 0 .. IntegerBuffer /\ Q(n)
    <3> HIDE DEF Q
    <3> QED BY <2>1
  <2> HIDE DEF n
  <2> SUFFICES ASSUME n # 0 PROVE FALSE OBVIOUS
  <2>3. n - 1 \in Nat BY <1>1, <2>2
  <2>4. Power(b)[n - 1] >= 1 /\ Power(b)[n - 1] \in Nat BY <1>4, <2>3
  <2> QED BY <1>5, <2>2, <2>4
<1>6. ASSUME NEW k, v # 0, DigitCount(v, b, k) PROVE n = k
  <2>1. k \in 1 .. IntegerBuffer /\ v < Power(b)[k] /\ Power(b)[k - 1] <= v BY <1>6 DEF DigitCount
  <2>2. k \in 0 .. IntegerBuffer /\ Q(k) BY <1>1, <2>1
  <2>3. n \in 0 .. IntegerBuffer /\ Q(n)
    <3> HIDE DEF Q
    <3> QED BY <2>2
  <2> HIDE DEF n
  <2>4. n # 0 BY <1>3, <1>4, <1>6, <2>3
  <2>5. n \in 1 .. IntegerBuffer BY <1>1, <2>3, <2>4
  <2>6. DigitCount(v, b, n) BY <2>3, <2>4, <2>5 DEF DigitCount
  <2> QED BY <1>3, <1>6, <2>6, OneDigitCount
<1> QED BY <1>2, <1>5, <1>6 DEF v, b

ItemsOf(u, S, s, t, m, n) ==
  /\ \A i \in 1 .. m : u[i] = s[i] /\ s[i] \in S
  /\ \A i \in m + 1 .. m + n : u[i] = t[i - m] /\ t[i - m] \in S
LEMMA JoinedItems ==
  ASSUME NEW S, NEW s \in Seq(S), NEW t \in Seq(S), NEW m \in Nat, NEW n \in Nat, Len(s) = m, Len(t) = n
  PROVE  ItemsOf(s \o t, S, s, t, m, n)
<1> DEFINE u == s \o t
<1>1. \A i \in 1 .. m + n : u[i] = IF i <= m THEN s[i] ELSE t[i - m] BY ConcatProperties
<1> HIDE DEF u
<1>2. ASSUME NEW i \in 1 .. m PROVE u[i] = s[i] /\ s[i] \in S
  <2>1. i \in 1 .. m + n /\ i <= m OBVIOUS
  <2>2. s[i] \in S OBVIOUS
  <2> QED BY <1>1, <2>1, <2>2
<1>3. ASSUME NEW i \in m + 1 .. m + n PROVE u[i] = t[i - m] /\ t[i - m] \in S
  <2>1. i \in 1 .. m + n /\ ~(i <= m) /\ i - m \in 1 .. Len(t) OBVIOUS
  <2>2. t[i - m] \in S
    <3> DEFINE j == i - m
    <3>1. j \in 1 .. Len(t) BY <2>1
    <3> HIDE DEF j
    <3>2. t[j] \in S BY <3>1
    <3> QED BY <3>2 DEF j
  <2> QED BY <1>1, <2>1, <2>2
<1> QED BY <1>2, <1>3 DEF u, ItemsOf

LEMMA LettersAre ==
  ASSUME NEW upper
  PROVE  /\ \A i \in 1 .. 16 : Letters(upper)[i] \in Chars
         /\ Letters(upper)[1] = "0" /\ \A i \in 2 .. 10 : Letters(upper)[i] # "0"
<1>1. {"0", "1", "2", "3", "4", "5", "6", "7", "8", "9", "a", "b", "c", "d", "e", "f",
       "A", "B", "C", "D", "E", "F"} \subseteq Chars BY CharsAssumption
<1> DEFINE X == IF upper THEN <<"A", "B", "C", "D", "E", "F">> ELSE <<"a", "b", "c", "d", "e", "f">>
           D == Digits
<1>2. X \in Seq(Chars) /\ Len(X) = 6 BY <1>1
<1>3. D \in Seq(Chars) /\ Len(D) = 10 BY <1>1 DEF Digits
<1>4. Letters(upper) = D \o X BY DEF Letters
<1>5. D[1] = "0" /\ \A i \in 2 .. 10 : D[i] # "0" BY DEF Digits
<1> HIDE DEF X, D
<1>6. /\ \A i \in 1 .. 10 : (D \o X)[i] = D[i] /\ D[i] \in Chars
      /\ \A i \in 10 + 1 .. 10 + 6 : (D \o X)[i] = X[i - 10] /\ X[i - 10] \in Chars
  <2> DEFINE m == 10
             n == 6
  <2>1. Len(D) = m /\ Len(X) = n /\ m \in Nat /\ n \in Nat BY <1>2, <1>3
  <2> HIDE DEF m, n
  <2>2. D \in Seq(Chars) /\ X \in Seq(Chars) BY <1>2, <1>3
  <2>3. ItemsOf(D \o X, Chars, D, X, m, n) BY <2>1, <2>2, JoinedItems
  <2> QED BY <2>3 DEF m, n, ItemsOf
<1>7. \A i \in 1 .. 16 : i \in 1 .. 10 \/ i \in 10 + 1 .. 10 + 6 OBVIOUS
<1> DEFINE L == Letters(upper)
<1>8. L = D \o X BY <1>4
<1> HIDE DEF L
<1>9. \A i \in 1 .. 16 : L[i] \in Chars BY <1>6, <1>7, <1>8
<1>10. \A i \in 1 .. 10 : L[i] = D[i] BY <1>6, <1>8
<1>11. L[1] = "0" /\ \A i \in 2 .. 10 : L[i] # "0" BY <1>5, <1>10
<1> QED BY <1>9, <1>11 DEF L

LEMMA DigitsMadeIs ==
  ASSUME NEW v \in Nat, NEW b \in {2, 8, 10, 16}, NEW upper, NEW n \in Nat
  PROVE  DigitsMade(v, b, upper, n) \in Seq(Chars) /\ Len(DigitsMade(v, b, upper, n)) = n
<1>1. ASSUME NEW i \in 1 .. n PROVE Letters(upper)[((v \div Power(b)[i - 1]) % b) + 1] \in Chars
  <2> DEFINE q == Power(b)[i - 1]
             r == (v \div q) % b
  <2>1. q \in Nat /\ q >= 1
    <3>1. i - 1 \in Nat /\ i - 1 <= i - 1 /\ b \in Nat \ {0} OBVIOUS
    <3> QED BY <3>1, PowerGrows, PowerIs
  <2> HIDE DEF q
  <2>2. v \div q \in Nat BY <2>1
  <2>3. r \in 0 .. b - 1
    <3> DEFINE m == v \div q
    <3>1. m \in Nat BY <2>2
    <3> HIDE DEF m
    <3>2. m % b \in 0 .. b - 1 BY <3>1
    <3> QED BY <3>2 DEF m
  <2> HIDE DEF r
  <2>4. r + 1 \in 1 .. 16 BY <2>3
  <2>5. Letters(upper)[r + 1] \in Chars BY <2>4, LettersAre
  <2> QED BY <2>5 DEF r, q
<1> DEFINE g(i) == Letters(upper)[((v \div Power(b)[i - 1]) % b) + 1]
<1>2. DigitsMade(v, b, upper, n) = [i \in 1 .. n |-> g(i)] BY DEF DigitsMade
<1>3. \A i \in 1 .. n : g(i) \in Chars BY <1>1
<1> HIDE DEF g
<1> QED BY <1>2, <1>3

(* The first digit of a number is not a zero. *)
LEMMA LeadingDigit ==
  ASSUME NEW v \in Nat \ {0}, NEW b \in {2, 8, 10}, NEW upper, NEW k, DigitCount(v, b, k)
  PROVE  k \in Nat \ {0} /\ DigitsMade(v, b, upper, k)[k] # "0"
<1>1. IntegerBuffer \in Nat BY WidthAssumption
<1>2. k \in Nat /\ k >= 1 /\ v < Power(b)[k] /\ Power(b)[k - 1] <= v BY <1>1 DEF DigitCount
<1> DEFINE q == Power(b)[k - 1]
           m == v \div q
<1>3. q \in Nat /\ q >= 1 /\ Power(b)[k] = b * q
  <2>1. k - 1 \in Nat /\ k - 1 <= k - 1 /\ (k - 1) + 1 = k /\ b \in Nat \ {0} BY <1>2
  <2> QED BY <2>1, PowerGrows, PowerIs
<1>4. v < b * q /\ q <= v BY <1>2, <1>3
<1> HIDE DEF q
<1>5. m \in 1 .. b - 1
  <2>1. CASE b = 2 BY <1>3, <1>4, <2>1
  <2>2. CASE b = 8 BY <1>3, <1>4, <2>2
  <2>3. CASE b = 10 BY <1>3, <1>4, <2>3
  <2> QED BY <2>1, <2>2, <2>3
<1>6. DigitsMade(v, b, upper, k)[k] = Letters(upper)[(m % b) + 1] BY <1>2 DEF DigitsMade, q
<1> HIDE DEF m
<1>7. m % b = m BY <1>5
<1>8. m + 1 \in 2 .. 10 BY <1>5
<1> QED BY <1>2, <1>6, <1>7, <1>8, LettersAre

(* Figures, first digit first, with its zeros. *)
Numeral(p) == DigitsMade(Amount(p), Radix(p), p.conv = "X", Significant(p))
LEMMA FiguresAre ==
  ASSUME NEW p, Amount(p) \in Nat, Radix(p) \in {2, 8, 10, 16}, Significant(p) \in Nat, Exact(p) \in Nat
  PROVE  /\ Figures(p) = Reverse(Numeral(p) \o Zeros(Over(Exact(p), Significant(p))))
         /\ Numeral(p) \in Seq(Chars) /\ Len(Numeral(p)) = Significant(p)
<1> DEFINE D == Numeral(p)
           s == Significant(p)
           e == Exact(p)
           z == Over(e, s)
           n == IF s > e THEN s ELSE e
           Z == Zeros(z)
           x == D \o Z
           F(i) == IF i <= n - s THEN "0"
                   ELSE Letters(p.conv = "X")[((Amount(p) \div Power(Radix(p))[n - i]) % Radix(p)) + 1]
<1>1. s \in Nat /\ e \in Nat /\ n \in Nat /\ z = n - s /\ z \in Nat /\ s <= n BY DEF Over
<1>2. D \in Seq(Chars) /\ Len(D) = s
  <2> DEFINE v == Amount(p)
             b == Radix(p)
             u == p.conv = "X"
  <2>3. v \in Nat /\ b \in {2, 8, 10, 16} /\ s \in Nat OBVIOUS
  <2> HIDE DEF v, b, u, s, e, z, n
  <2>2. DigitsMade(v, b, u, s) \in Seq(Chars) /\ Len(DigitsMade(v, b, u, s)) = s BY <2>3, DigitsMadeIs
  <2> QED BY <2>2 DEF Numeral, v, b, u, s
<1>3. Z \in Seq(Chars) /\ Len(Z) = z BY <1>1, ZerosAre
<1>4. Figures(p) = [i \in 1 .. n |-> F(i)] BY DEF Figures
<1>5. \A i \in 1 .. s : D[i] = Letters(p.conv = "X")[((Amount(p) \div Power(Radix(p))[i - 1]) % Radix(p)) + 1]
  BY DEF Numeral, DigitsMade
<1>6. \A i \in 1 .. z : Z[i] = "0"
  <2>1. "0" \in Chars BY CharsAssumption
  <2>2. \A i \in 1 .. z : Copies("0", z)[i] = "0" BY DEF Copies
  <2> QED BY <2>2 DEF Zeros
<1> HIDE DEF D, s, e, z, n, Z
<1>7. ItemsOf(x, Chars, D, Z, s, z) BY <1>1, <1>2, <1>3, JoinedItems
<1>8. x \in Seq(Chars) /\ Len(x) = n
  <2>1. x \in Seq(Chars) /\ Len(x) = Len(D) + Len(Z) BY <1>2, <1>3, Joins
  <2> HIDE DEF x
  <2> QED BY <1>1, <1>2, <1>3, <2>1
<1> HIDE DEF x
<1>9. /\ Reverse(x) \in Seq(Chars) /\ Len(Reverse(x)) = n
      /\ \A i \in 1 .. n : Reverse(x)[i] = x[(n - i) + 1]
  BY <1>8, Backwards
<1>10. ASSUME NEW i \in 1 .. n PROVE Reverse(x)[i] = F(i)
  <2> DEFINE j == (n - i) + 1
  <2>1. j \in 1 .. n /\ j - 1 = n - i /\ (i <= n - s <=> j > s) BY <1>1
  <2>2. Reverse(x)[i] = x[j] BY <1>9
  <2> HIDE DEF j
  <2>3. CASE i <= n - s
    <3>1. j \in s + 1 .. s + z /\ j - s \in 1 .. z BY <1>1, <2>1, <2>3
    <3>2. x[j] = Z[j - s] BY <1>7, <3>1 DEF ItemsOf
    <3>3. x[j] = "0" BY <1>6, <3>1, <3>2
    <3>4. F(i) = "0" BY <2>3
    <3> HIDE DEF F
    <3> QED BY <2>2, <3>3, <3>4
  <2>4. CASE ~(i <= n - s)
    <3>1. j \in 1 .. s BY <1>1, <2>1, <2>4
    <3>2. x[j] = D[j] BY <1>7, <3>1 DEF ItemsOf
    <3>3. D[j] = Letters(p.conv = "X")[((Amount(p) \div Power(Radix(p))[j - 1]) % Radix(p)) + 1] BY <1>5, <3>1
    <3>4. F(i) = D[j] BY <2>1, <2>4, <3>3
    <3> HIDE DEF F
    <3> QED BY <2>2, <3>2, <3>4
  <2> QED BY <2>3, <2>4
<1>11. Reverse(x) = [i \in 1 .. n |-> Reverse(x)[i]] BY <1>9
<1> HIDE DEF F
<1>12. Reverse(x) = Figures(p) BY <1>4, <1>10, <1>11
<1> QED BY <1>2, <1>12 DEF x, D, s, e, z, Z

(* The digits that print_integer makes. *)
CodePrecision(p) == IF p.precision = None THEN 0 ELSE p.precision
CodeDigits(p) == IF Amount(p) # 0 THEN Numeral(p) ELSE IF p.precision = None THEN <<"0">> ELSE <<>>

(* A number to be converted. *)
IsNumber(p) ==
  /\ p.conv \in DOMAIN Bases /\ Given(p) \in Int /\ Amount(p) \in Nat /\ Amount(p) < LongMod
  /\ p.precision # None => p.precision \in Nat

LEMMA BasesAre ==
  /\ DOMAIN Bases = {"d", "i", "u", "x", "X", "o", "b"}
  /\ Bases["d"] = 10 /\ Bases["i"] = 10 /\ Bases["u"] = 10 /\ Bases["x"] = 16 /\ Bases["X"] = 16
  /\ Bases["o"] = 8 /\ Bases["b"] = 2
BY DEF Bases

LEMMA RadixIs ==
  ASSUME NEW p, p.conv \in DOMAIN Bases
  PROVE  /\ Radix(p) \in {2, 8, 10, 16}
         /\ Radix(p) = 16 <=> p.conv \in {"x", "X"}
         /\ Radix(p) = 8 <=> p.conv = "o"
         /\ Radix(p) = 2 <=> p.conv = "b"
<1>1. Radix(p) = Bases[p.conv] BY DEF Radix
<1> QED BY <1>1, BasesAre

LEMMA PowersReach ==
  ASSUME NEW b \in {2, 8, 10, 16}, NEW v \in Nat, v < LongMod
  PROVE  v < Power(b)[IntegerBuffer]
<1>1. IntegerBuffer \in Nat /\ LongMod = Power(2)[IntegerBuffer] BY WidthAssumption
<1>2. 2 \in Nat /\ b \in Nat /\ 2 <= b OBVIOUS
<1>3. Power(2)[IntegerBuffer] <= Power(b)[IntegerBuffer] BY <1>1, <1>2, PowerOfMore
<1>4. Power(2)[IntegerBuffer] \in Nat /\ Power(b)[IntegerBuffer] \in Nat BY <1>1, <1>2, PowerIs
<1> QED BY <1>1, <1>3, <1>4

LEMMA Counts ==
  ASSUME NEW p, IsNumber(p)
  PROVE  /\ Amount(p) = 0 => Significant(p) = 0
         /\ Amount(p) # 0 => DigitCount(Amount(p), Radix(p), Significant(p))
         /\ Significant(p) \in Nat /\ (Amount(p) # 0 => Significant(p) >= 1)
<1>1. Amount(p) \in Nat /\ Amount(p) < LongMod /\ p.conv \in DOMAIN Bases BY DEF IsNumber
<1>2. Radix(p) \in {2, 8, 10, 16} BY <1>1, RadixIs
<1>3. Radix(p) \in Nat \ {0} BY <1>2
<1>4. Amount(p) < Power(Radix(p))[IntegerBuffer] BY <1>1, <1>2, PowersReach
<1>5. /\ Amount(p) = 0 => Significant(p) = 0
      /\ \A k : Amount(p) # 0 /\ DigitCount(Amount(p), Radix(p), k) => Significant(p) = k
  BY <1>1, <1>3, SignificantIs
<1>6. ASSUME Amount(p) # 0 PROVE DigitCount(Amount(p), Radix(p), Significant(p))
  <2>1. Amount(p) \in Nat \ {0} BY <1>1, <1>6
  <2>2. PICK k : DigitCount(Amount(p), Radix(p), k) BY <1>3, <1>4, <2>1, DigitsCounted
  <2>3. Significant(p) = k BY <1>5, <1>6, <2>2
  <2> QED BY <2>2, <2>3
<1>7. IntegerBuffer \in Nat BY WidthAssumption
<1>8. ASSUME Amount(p) # 0 PROVE Significant(p) \in Nat /\ Significant(p) >= 1
  BY <1>6, <1>7, <1>8 DEF DigitCount
<1> QED BY <1>5, <1>6, <1>8

LEMMA CodeFigures ==
  ASSUME NEW p, IsNumber(p)
  PROVE  /\ CodeDigits(p) \in Seq(Chars)
         /\ Figures(p) = Reverse(CodeDigits(p) \o Zeros(Over(CodePrecision(p), Len(CodeDigits(p)))))
<1> DEFINE s == Significant(p)
           D == Numeral(p)
<1>1. Amount(p) \in Nat /\ p.conv \in DOMAIN Bases /\ (p.precision # None => p.precision \in Nat) BY DEF IsNumber
<1>2. Radix(p) \in {2, 8, 10, 16} BY <1>1, RadixIs
<1>3. (Amount(p) = 0 => s = 0) /\ s \in Nat /\ (Amount(p) # 0 => s >= 1) BY Counts
<1>4. Exact(p) \in Nat /\ (p.precision = None => Exact(p) = 1) /\ (p.precision # None => Exact(p) = p.precision)
  BY <1>1 DEF Exact
<1>5. Figures(p) = Reverse(D \o Zeros(Over(Exact(p), s))) /\ D \in Seq(Chars) /\ Len(D) = s
  BY <1>1, <1>2, <1>3, <1>4, FiguresAre
<1> HIDE DEF s, D
<1>6. CASE Amount(p) # 0
  <2>1. CodeDigits(p) = D BY <1>6 DEF CodeDigits, D
  <2>2. Over(CodePrecision(p), s) = Over(Exact(p), s)
    BY <1>1, <1>3, <1>4, <1>6 DEF CodePrecision, Over
  <2> QED BY <1>5, <2>1, <2>2
<1>7. CASE Amount(p) = 0
  <2>1. D = <<>> BY <1>3, <1>5, <1>7
  <2> DEFINE e == Exact(p)
             Z == Zeros(e)
  <2>2. Over(e, s) = e BY <1>3, <1>4, <1>7 DEF Over
  <2>3. Z \in Seq(Chars) /\ Len(Z) = e BY <1>4, ZerosAre
  <2>4. Figures(p) = Reverse(<<>> \o Z) BY <1>5, <2>1, <2>2
  <2>5. CASE p.precision # None
    <3>1. CodeDigits(p) = <<>> /\ CodePrecision(p) = e BY <1>4, <1>7, <2>5 DEF CodeDigits, CodePrecision
    <3>2. Len(<<>>) = 0 OBVIOUS
    <3>3. Over(e, 0) = e BY <1>4 DEF Over
    <3>4. <<>> \in Seq(Chars) OBVIOUS
    <3> HIDE DEF e, Z
    <3> QED BY <2>4, <3>1, <3>2, <3>3, <3>4 DEF Z
  <2>6. CASE p.precision = None
    <3> DEFINE o == <<"0">>
    <3>1. CodeDigits(p) = o /\ CodePrecision(p) = 0 /\ e = 1 BY <1>4, <1>7, <2>6 DEF CodeDigits, CodePrecision
    <3>2. Z = o
      <4>1. Copies("0", 1) = <<"0">> BY DEF Copies
      <4> QED BY <3>1, <4>1 DEF Zeros
    <3>3. o \in Seq(Chars) /\ Len(o) = 1
      <4>1. "0" \in Chars BY CharsAssumption
      <4> QED BY <4>1
    <3>4. Zeros(Over(0, 1)) = <<>>
      <4>1. Over(0, 1) = 0 BY DEF Over
      <4>2. 0 \in Nat OBVIOUS
      <4> QED BY <4>1, <4>2, ZerosAre
    <3> HIDE DEF e, Z, o
    <3>5. <<>> \o o = o /\ o \o <<>> = o BY <3>3, ConcatEmptySeq
    <3> QED BY <2>4, <3>1, <3>2, <3>3, <3>4, <3>5
  <2> QED BY <2>5, <2>6
<1> QED BY <1>6, <1>7

(* What the flags of print_integer say of a piece. *)
NumberFlags(p, g) ==
  /\ "POINTER" \notin g
  /\ "UPPERCASE" \in g <=> p.conv = "X"
  /\ "LEFT" \in g <=> Left(p)
  /\ "ZEROPAD" \in g <=> "0" \in p.flags /\ p.precision = None
  /\ "PRECISION" \in g <=> p.precision # None
  /\ "HASH" \in g <=> Alternative(p) /\ Radix(p) # 10
  /\ "PLUS" \in g <=> Signed(p) /\ "+" \in p.flags
  /\ "SPACE" \in g <=> Signed(p) /\ Space \in p.flags
HashFlags(p, g) ==
  IF Amount(p) = 0 /\ ("PRECISION" \notin g \/ Radix(p) = 16) THEN g \ {"HASH"} ELSE g

LEMMA HashFlagsAre ==
  ASSUME NEW p, NEW g, NumberFlags(p, g)
  PROVE  LET h == HashFlags(p, g) IN
         /\ "POINTER" \notin h
         /\ "UPPERCASE" \in h <=> p.conv = "X"
         /\ "LEFT" \in h <=> Left(p)
         /\ "ZEROPAD" \in h <=> "0" \in p.flags /\ p.precision = None
         /\ "PRECISION" \in h <=> p.precision # None
         /\ "HASH" \in h <=> /\ Alternative(p) /\ Radix(p) # 10
                             /\ ~(Amount(p) = 0 /\ (p.precision = None \/ Radix(p) = 16))
         /\ "PLUS" \in h <=> Signed(p) /\ "+" \in p.flags
         /\ "SPACE" \in h <=> Signed(p) /\ Space \in p.flags
BY DEF NumberFlags, HashFlags

SignText(p) == IF Signed(p) THEN SignOf(p) ELSE <<>>
RadixTextOf(p) == IF Alternative(p) THEN RadixOf(p) ELSE <<>>

LEMMA SignMatches ==
  ASSUME NEW p, Given(p) \in Int, ~Signed(p) => Given(p) >= 0, NEW h,
         "PLUS" \in h <=> Signed(p) /\ "+" \in p.flags, "SPACE" \in h <=> Signed(p) /\ Space \in p.flags
  PROVE  Sign(Given(p) < 0, h) = SignText(p)
<1> DEFINE n == Given(p) < 0
<1>1. CASE Given(p) < 0
  <2>1. Sign(n, h) = <<"-">> BY <1>1 DEF Sign
  <2>2. SignOf(p) = <<"-">> BY <1>1 DEF SignOf
  <2>3. Signed(p) BY <1>1
  <2> QED BY <2>1, <2>2, <2>3 DEF SignText
<1>2. CASE ~(Given(p) < 0)
  <2>1. Given(p) >= 0 BY <1>2
  <2>2. CASE Signed(p) /\ "+" \in p.flags
    <3>1. SignOf(p) = <<"+">> BY <1>2, <2>1, <2>2 DEF SignOf
    <3>2. Sign(n, h) = <<"+">> BY <1>2, <2>2 DEF Sign
    <3> QED BY <2>2, <3>1, <3>2 DEF SignText
  <2>3. CASE Signed(p) /\ "+" \notin p.flags /\ Space \in p.flags
    <3>1. SignOf(p) = <<Space>> BY <1>2, <2>1, <2>3 DEF SignOf
    <3>2. Sign(n, h) = <<Space>> BY <1>2, <2>3 DEF Sign
    <3> QED BY <2>3, <3>1, <3>2 DEF SignText
  <2>4. CASE Signed(p) /\ "+" \notin p.flags /\ Space \notin p.flags
    <3>1. SignOf(p) = <<>> BY <1>2, <2>1, <2>4 DEF SignOf
    <3>2. Sign(n, h) = <<>> BY <1>2, <2>4 DEF Sign
    <3> QED BY <2>4, <3>1, <3>2 DEF SignText
  <2>5. CASE ~Signed(p)
    <3>1. Sign(n, h) = <<>> BY <1>2, <2>5 DEF Sign
    <3> QED BY <2>5, <3>1 DEF SignText
  <2> QED BY <2>2, <2>3, <2>4, <2>5
<1> QED BY <1>1, <1>2

(* The first of the figures. *)
LEMMA FirstFigure ==
  ASSUME NEW p, IsNumber(p), Radix(p) # 16
  PROVE  /\ Figures(p) = <<>> <=> (Amount(p) = 0 /\ p.precision = 0)
         /\ Amount(p) = 0 /\ p.precision # 0 => Figures(p)[1] = "0"
         /\ Amount(p) # 0 => (Figures(p)[1] = "0" <=> CodePrecision(p) > Significant(p))
         /\ Figures(p) \in Seq(Chars)
<1> DEFINE s == Significant(p)
           D == Numeral(p)
           e == Exact(p)
           z == Over(e, s)
           Z == Zeros(z)
           x == D \o Z
           r == Reverse(x)
           n == s + z
<1>1. Amount(p) \in Nat /\ p.conv \in DOMAIN Bases /\ (p.precision # None => p.precision \in Nat) BY DEF IsNumber
<1>2. Radix(p) \in {2, 8, 10, 16} BY <1>1, RadixIs
<1>3. (Amount(p) = 0 => s = 0) /\ s \in Nat /\ (Amount(p) # 0 => s >= 1 /\ DigitCount(Amount(p), Radix(p), s)) BY Counts
<1>4. e \in Nat /\ (p.precision = None => e = 1) /\ (p.precision # None => e = p.precision) BY <1>1 DEF Exact
<1>5. Figures(p) = r /\ D \in Seq(Chars) /\ Len(D) = s BY <1>1, <1>2, <1>3, <1>4, FiguresAre
<1>6. z \in Nat /\ (z > 0 <=> e > s) BY <1>3, <1>4 DEF Over
<1>7. Amount(p) # 0 => D[s] # "0"
  <2>1. Radix(p) \in {2, 8, 10} BY <1>2
  <2> SUFFICES ASSUME Amount(p) # 0 PROVE D[s] # "0" OBVIOUS
  <2> DEFINE u == p.conv = "X"
             v == Amount(p)
             b == Radix(p)
  <2>2. v \in Nat \ {0} /\ b \in {2, 8, 10} /\ DigitCount(v, b, s) BY <1>1, <1>3, <2>1
  <2> HIDE DEF u, v, b, s
  <2>3. DigitsMade(v, b, u, s)[s] # "0" BY <2>2, LeadingDigit
  <2> QED BY <2>3 DEF Numeral, u, v, b, s
<1>8. Z \in Seq(Chars) /\ Len(Z) = z BY <1>6, ZerosAre
<1>9. \A i \in 1 .. z : Z[i] = "0"
  <2>1. \A i \in 1 .. z : Copies("0", z)[i] = "0" BY DEF Copies
  <2> QED BY <2>1 DEF Zeros
<1> HIDE DEF s, D, e, z, Z
<1>10. x \in Seq(Chars) /\ Len(x) = n
  <2>1. x \in Seq(Chars) /\ Len(x) = Len(D) + Len(Z) BY <1>5, <1>8, Joins
  <2> HIDE DEF x
  <2> QED BY <1>5, <1>8, <2>1
<1>11. ItemsOf(x, Chars, D, Z, s, z) BY <1>3, <1>5, <1>6, <1>8, JoinedItems
<1> HIDE DEF x
<1>13. n \in Nat BY <1>3, <1>6
<1>24. n = s + z OBVIOUS
<1> HIDE DEF n
<1>12. r \in Seq(Chars) /\ Len(r) = n /\ \A i \in 1 .. n : r[i] = x[(n - i) + 1] BY <1>10, Backwards
<1> HIDE DEF r
<1>14. r = <<>> <=> n = 0 BY <1>12, <1>13
<1>15. n # 0 => r[1] = x[n]
  <2> SUFFICES ASSUME n # 0 PROVE r[1] = x[n] OBVIOUS
  <2>1. 1 \in 1 .. n /\ (n - 1) + 1 = n BY <1>13
  <2> QED BY <1>12, <2>1
<1>16. z > 0 => n # 0 /\ x[n] = "0"
  <2> SUFFICES ASSUME z > 0 PROVE n # 0 /\ x[n] = "0" OBVIOUS
  <2>1. n \in s + 1 .. s + z /\ n - s = z /\ z \in 1 .. z BY <1>3, <1>6, <1>24
  <2>2. x[n] = Z[n - s] BY <1>11, <2>1 DEF ItemsOf
  <2>3. n # 0 BY <1>3, <1>6, <1>24
  <2> QED BY <1>9, <2>1, <2>2, <2>3
<1>17. z = 0 /\ Amount(p) # 0 => n # 0 /\ x[n] # "0"
  <2> SUFFICES ASSUME z = 0, Amount(p) # 0 PROVE n # 0 /\ x[n] # "0" OBVIOUS
  <2>1. n = s /\ s \in 1 .. s BY <1>3, <1>24
  <2>2. x[s] = D[s] BY <1>11, <2>1 DEF ItemsOf
  <2> QED BY <1>3, <1>7, <2>1, <2>2
<1>18. Amount(p) = 0 => n = e /\ z = e BY <1>3, <1>4, <1>6, <1>24 DEF z, Over
<1>19. Amount(p) # 0 => (z > 0 <=> CodePrecision(p) > s)
  BY <1>1, <1>3, <1>4, <1>6 DEF CodePrecision
<1>20. (e = 0 <=> p.precision = 0) /\ (e > 0 <=> p.precision # 0) BY <1>1, <1>4 DEF None
<1>21. Figures(p) = <<>> <=> (Amount(p) = 0 /\ p.precision = 0)
  <2>1. CASE Amount(p) = 0 BY <1>5, <1>14, <1>18, <1>20, <2>1
  <2>2. CASE Amount(p) # 0
    <3>1. n # 0 BY <1>6, <1>16, <1>17, <2>2
    <3> QED BY <1>5, <1>14, <2>2, <3>1
  <2> QED BY <2>1, <2>2
<1>22. Amount(p) = 0 /\ p.precision # 0 => Figures(p)[1] = "0"
  BY <1>5, <1>15, <1>16, <1>18, <1>20
<1>23. Amount(p) # 0 => (Figures(p)[1] = "0" <=> CodePrecision(p) > s)
  BY <1>5, <1>6, <1>15, <1>16, <1>17, <1>19
<1> QED BY <1>5, <1>12, <1>21, <1>22, <1>23 DEF s

HashShown(p) ==
  Alternative(p) /\ Radix(p) # 10 /\ ~(Amount(p) = 0 /\ (p.precision = None \/ Radix(p) = 16))

LEMMA TwoJoined == ASSUME NEW a, NEW c PROVE <<a>> \o <<c>> = <<a, c>>
<1> DEFINE S == {a, c}
           s == <<a>>
           t == <<c>>
           u == <<a, c>>
           v == s \o t
<1>1. s \in Seq(S) /\ t \in Seq(S) /\ Len(s) = 1 /\ Len(t) = 1 /\ s[1] = a /\ t[1] = c OBVIOUS
<1>2. u \in Seq(S) /\ Len(u) = 2 /\ u[1] = a /\ u[2] = c OBVIOUS
<1> HIDE DEF S, s, t, u
<1>3. /\ v \in Seq(S) /\ Len(v) = Len(s) + Len(t)
      /\ \A i \in 1 .. Len(s) + Len(t) : v[i] = IF i <= Len(s) THEN s[i] ELSE t[i - Len(s)]
  BY <1>1, ConcatProperties
<1> HIDE DEF v
<1>4. Len(v) = 2 /\ v[1] = a /\ v[2] = c BY <1>1, <1>3
<1>5. \A i \in 1 .. 2 : v[i] = u[i]
  <2>1. \A i \in 1 .. 2 : i = 1 \/ i = 2 OBVIOUS
  <2> QED BY <1>2, <1>4, <2>1
<1>6. Len(u) = Len(v) /\ \A i \in 1 .. Len(v) : v[i] = u[i] BY <1>2, <1>4, <1>5
<1>7. u = v BY <1>2, <1>3, <1>6, SeqEqual
<1> QED BY <1>7 DEF u, v, s, t

LEMMA RadixMatches ==
  ASSUME NEW p, IsNumber(p), Fits(p), Amount(p) = 0 <=> Given(p) = 0, NEW h,
         "HASH" \in h <=> HashShown(p), "UPPERCASE" \in h <=> p.conv = "X"
  PROVE  CodeRadix(Len(CodeDigits(p)), Radix(p), CodePrecision(p), h) = RadixTextOf(p)
<1> DEFINE l == Len(CodeDigits(p))
           b == Radix(p)
           q == CodePrecision(p)
           C == CodeRadix(l, b, q, h)
           R == RadixTextOf(p)
<1>1. Amount(p) \in Nat /\ p.conv \in DOMAIN Bases /\ (p.precision # None => p.precision \in Nat) BY DEF IsNumber
<1>2. /\ b \in {2, 8, 10, 16} /\ (b = 16 <=> p.conv \in {"x", "X"})
      /\ (b = 8 <=> p.conv = "o") /\ (b = 2 <=> p.conv = "b")
  BY <1>1, RadixIs
<1>3. (Amount(p) # 0 => l = Significant(p)) /\ (Amount(p) = 0 /\ p.precision # None => l = 0)
      /\ (Amount(p) = 0 /\ p.precision = None => l = 1)
  <2>1. Significant(p) \in Nat BY Counts
  <2>2. Exact(p) \in Nat BY <1>1 DEF Exact
  <2>3. Len(Numeral(p)) = Significant(p) BY <1>1, <1>2, <2>1, <2>2, FiguresAre
  <2> QED BY <2>3 DEF CodeDigits
<1>4. q = IF p.precision = None THEN 0 ELSE p.precision BY DEF CodePrecision
<1>5. C = IF "HASH" \notin h \/ (b = 8 /\ q > l) THEN <<>> ELSE RadixText(b, h) BY DEF CodeRadix
<1>6. R = IF Alternative(p) THEN RadixOf(p) ELSE <<>> BY DEF RadixTextOf
<1>7. "HASH" \in h <=> Alternative(p) /\ b # 10 /\ ~(Amount(p) = 0 /\ (p.precision = None \/ b = 16))
  BY DEF HashShown
<1>8. p.conv = "b" /\ Alternative(p) /\ p.precision # None => Amount(p) # 0
  BY <1>1 DEF Fits
<1>9. CASE ~Alternative(p) BY <1>5, <1>6, <1>7, <1>9
<1>10. CASE Alternative(p) /\ b = 10
  <2>1. RadixOf(p) = <<>> BY <1>10 DEF RadixOf
  <2>2. "HASH" \notin h BY <1>7, <1>10
  <2> QED BY <1>5, <1>6, <1>10, <2>1, <2>2
<1>11. CASE Alternative(p) /\ b = 16
  <2>1. CASE Amount(p) = 0
    <3>1. RadixOf(p) = <<>> BY <1>11, <2>1 DEF RadixOf
    <3>2. "HASH" \notin h BY <1>7, <1>11, <2>1
    <3> QED BY <1>5, <1>6, <1>11, <3>1, <3>2
  <2>2. CASE Amount(p) # 0
    <3>1. RadixOf(p) = <<"0", p.conv>> BY <1>11, <2>2 DEF RadixOf
    <3>2. "HASH" \in h /\ ~(b = 8) BY <1>7, <1>11, <2>2
    <3>3. C = RadixText(b, h) BY <1>5, <3>2
    <3>4. RadixLetter(b, h) = p.conv BY <1>2, <1>11 DEF RadixLetter
    <3>5. RadixText(b, h) = <<"0">> \o <<p.conv>> BY <1>11, <3>4 DEF RadixText
    <3>6. <<"0">> \o <<p.conv>> = <<"0", p.conv>>
      <4> DEFINE c == p.conv
      <4> HIDE DEF c
      <4>1. <<"0">> \o <<c>> = <<"0", c>> BY TwoJoined
      <4> QED BY <4>1 DEF c
    <3> QED BY <1>6, <1>11, <3>1, <3>3, <3>5, <3>6
  <2> QED BY <2>1, <2>2
<1>12. CASE Alternative(p) /\ b = 2
  <2>1. CASE Amount(p) = 0
    <3>1. RadixOf(p) = <<>> BY <1>12, <2>1 DEF RadixOf
    <3>2. p.precision = None BY <1>2, <1>8, <1>12, <2>1
    <3>3. "HASH" \notin h BY <1>7, <2>1, <3>2
    <3> QED BY <1>5, <1>6, <1>12, <3>1, <3>3
  <2>2. CASE Amount(p) # 0
    <3>1. RadixOf(p) = <<"0", "b">> BY <1>12, <2>2 DEF RadixOf
    <3>2. "HASH" \in h /\ ~(b = 8) BY <1>7, <1>12, <2>2
    <3>3. C = RadixText(b, h) BY <1>5, <3>2
    <3>4. RadixLetter(b, h) = "b" BY <1>12 DEF RadixLetter
    <3>5. RadixText(b, h) = <<"0">> \o <<"b">> BY <1>12, <3>4 DEF RadixText
    <3>6. <<"0">> \o <<"b">> = <<"0", "b">> BY TwoJoined
    <3> QED BY <1>6, <1>12, <3>1, <3>3, <3>5, <3>6
  <2> QED BY <2>1, <2>2
<1>13. CASE Alternative(p) /\ b = 8
  <2>1. RadixText(b, h) = <<"0">> BY <1>13 DEF RadixText
  <2>2. Radix(p) # 16 /\ Radix(p) # 2 /\ Radix(p) = 8 BY <1>13
  <2>3. /\ Figures(p) = <<>> <=> (Amount(p) = 0 /\ p.precision = 0)
        /\ Amount(p) = 0 /\ p.precision # 0 => Figures(p)[1] = "0"
        /\ Amount(p) # 0 => (Figures(p)[1] = "0" <=> CodePrecision(p) > Significant(p))
    BY <2>2, FirstFigure
  <2> DEFINE bare == Figures(p) = <<>> \/ Figures(p)[1] # "0"
  <2>4. RadixOf(p) = IF bare THEN <<"0">> ELSE <<>> BY <2>2 DEF RadixOf
  <2>5. bare <=> ~("HASH" \notin h \/ q > l)
    <3>1. CASE Amount(p) # 0
      <4>1. bare <=> ~(q > l) BY <1>3, <2>3, <3>1
      <4>2. "HASH" \in h BY <1>7, <1>13, <3>1
      <4> QED BY <4>1, <4>2
    <3>2. CASE Amount(p) = 0 /\ p.precision = None
      <4>1. ~bare BY <2>3, <3>2 DEF None
      <4>2. "HASH" \notin h BY <1>7, <3>2
      <4> QED BY <4>1, <4>2
    <3>3. CASE Amount(p) = 0 /\ p.precision # None
      <4>1. bare <=> p.precision = 0 BY <2>3, <3>3
      <4>2. "HASH" \in h BY <1>7, <1>13, <3>3
      <4>3. q > l <=> p.precision # 0
        <5>1. q = p.precision /\ l = 0 /\ p.precision \in Nat BY <1>1, <1>3, <1>4, <3>3
        <5> HIDE DEF q, l
        <5> QED BY <5>1
      <4> QED BY <4>1, <4>2, <4>3
    <3> QED BY <3>1, <3>2, <3>3
  <2> HIDE DEF bare
  <2> QED BY <1>5, <1>6, <1>13, <2>1, <2>4, <2>5
<1> HIDE DEF b
<1>14. Alternative(p) => b = 2 \/ b = 8 \/ b = 10 \/ b = 16 BY <1>2
<1> QED BY <1>9, <1>10, <1>11, <1>12, <1>13, <1>14

(* print_integer makes the text that the standard describes. *)
LEMMA IntegerMade ==
  ASSUME NEW p, IsNumber(p), Fits(p), Amount(p) = 0 <=> Given(p) = 0, ~Signed(p) => Given(p) >= 0,
         Wide(p) \in Nat, NEW g, NumberFlags(p, g)
  PROVE  /\ PrintInteger(Amount(p), Given(p) < 0, Radix(p), CodePrecision(p), Wide(p), g) = IntegerText(p)
         /\ IntegerText(p) \in Seq(Chars)
<1> DEFINE d == CodeDigits(p)
           n == Given(p) < 0
           b == Radix(p)
           q == CodePrecision(p)
           w == Wide(p)
           h == HashFlags(p, g)
           F == Figures(p)
           P == Prefix(p)
           Z == Zeros(Over(q, Len(d)))
<1>1. Amount(p) \in Nat /\ p.conv \in DOMAIN Bases /\ Given(p) \in Int
      /\ (p.precision # None => p.precision \in Nat) BY DEF IsNumber
<1>2. b \in {2, 8, 10, 16} BY <1>1, RadixIs
<1>3. /\ "POINTER" \notin h
      /\ "UPPERCASE" \in h <=> p.conv = "X"
      /\ "LEFT" \in h <=> Left(p)
      /\ "ZEROPAD" \in h <=> "0" \in p.flags /\ p.precision = None
      /\ "PRECISION" \in h <=> p.precision # None
      /\ "HASH" \in h <=> HashShown(p)
      /\ "PLUS" \in h <=> Signed(p) /\ "+" \in p.flags
      /\ "SPACE" \in h <=> Signed(p) /\ Space \in p.flags
  BY HashFlagsAre DEF HashShown
<1>4. PrintInteger(Amount(p), n, b, q, w, g) = Finalized(d, n, b, q, w, h)
  <2>1. (IF Amount(p) # 0 THEN DigitsOf(Amount(p), b, g)
         ELSE IF "PRECISION" \notin g THEN <<"0">> ELSE <<>>) = d
    <3>1. CASE Amount(p) # 0
      <4>1. DigitCount(Amount(p), Radix(p), Significant(p)) BY <3>1, Counts
      <4>2. Amount(p) \in Nat \ {0} /\ Radix(p) \in Nat \ {0} BY <1>1, <1>2, <3>1
      <4>3. DigitsOf(Amount(p), Radix(p), g) = DigitsMade(Amount(p), Radix(p), "UPPERCASE" \in g, Significant(p))
        BY <4>1, <4>2, DigitsOfIs
      <4>4. ("UPPERCASE" \in g) = (p.conv = "X") BY DEF NumberFlags
      <4>5. d = DigitsMade(Amount(p), Radix(p), p.conv = "X", Significant(p)) BY <3>1 DEF CodeDigits, Numeral
      <4> QED BY <3>1, <4>3, <4>4, <4>5
    <3>2. CASE Amount(p) = 0
      <4>1. "PRECISION" \in g <=> p.precision # None BY DEF NumberFlags
      <4> QED BY <3>2, <4>1 DEF CodeDigits
    <3> QED BY <3>1, <3>2
  <2>2. h = IF Amount(p) = 0 /\ ("PRECISION" \notin g \/ b = 16) THEN g \ {"HASH"} ELSE g BY DEF HashFlags
  <2> HIDE DEF d, n, b, q, w, h
  <2> QED BY <2>1, <2>2 DEF PrintInteger
<1>5. d \in Seq(Chars) /\ F = Reverse(d \o Z) BY CodeFigures
<1>6. q \in Nat /\ (p.precision = None => q = 0) BY <1>1 DEF CodePrecision
<1>7. Sign(n, h) = SignText(p) BY <1>1, <1>3, SignMatches
<1>8. CodeRadix(Len(d), b, q, h) = RadixTextOf(p) BY <1>3, RadixMatches
<1>9. P = CodePrefix(Len(d), n, b, q, h) BY <1>7, <1>8 DEF Prefix, SignText, RadixTextOf, CodePrefix
<1>10. Len(d) \in Nat BY <1>5
<1>11. Z \in Seq(Chars) /\ Len(Z) = Over(q, Len(d))
  <2>1. Over(q, Len(d)) \in Nat BY <1>6, <1>10 DEF Over
  <2> QED BY <2>1, ZerosAre
<1>12. F \in Seq(Chars) /\ Len(F) = Len(d) + Over(q, Len(d))
  <2> DEFINE x == d \o Z
  <2>1. x \in Seq(Chars) /\ Len(x) = Len(d) + Len(Z) BY <1>5, <1>11, Joins
  <2>2. F = Reverse(x) BY <1>5
  <2> HIDE DEF x, F, Z, d
  <2>3. Reverse(x) \in Seq(Chars) /\ Len(Reverse(x)) = Len(x) BY <2>1, Backwards
  <2> QED BY <1>11, <2>1, <2>2, <2>3
<1>13. n \in BOOLEAN
  <2>1. CASE Given(p) < 0
    <3>1. n = TRUE BY <2>1, Zenon
    <3> QED BY <3>1, Zenon
  <2>2. CASE ~(Given(p) < 0)
    <3>1. n = FALSE BY <1>1, <2>2, SMT
    <3> QED BY <3>1, Zenon
  <2> QED BY <2>1, <2>2, Zenon
<1>14. b # 10 => SignText(p) = <<>>
  <2>1. Signed(p) => b = 10 BY BasesAre DEF Signed, Radix
  <2> QED BY <2>1 DEF SignText
<1>15. P \in Seq(Chars)
  <2>1. SignText(p) \in Seq(Chars) BY <1>7, <1>13, SignIs
  <2>2. CodeRadix(Len(d), b, q, h) \in Seq(Chars)
    <3>1. RadixText(b, h) \in Seq(Chars) BY RadixTextIs
    <3> QED BY <3>1 DEF CodeRadix
  <2>3. P = SignText(p) \o RadixTextOf(p) BY DEF Prefix, SignText, RadixTextOf
  <2> QED BY <1>8, <2>1, <2>2, <2>3, Joins
<1>16. Len(P \o F) <= IntegerBuffer /\ (ZeroFilled(p) => w <= IntegerBuffer)
  BY <1>1 DEF Fits
<1>17. Len(P \o F) = Len(P) + Len(F) /\ P \o F \in Seq(Chars) /\ Len(P) \in Nat BY <1>12, <1>15, Joins
<1>18. ZeroFill(h) <=> ZeroFilled(p) BY <1>3 DEF ZeroFill, ZeroFilled
<1>19. Ready(d, n, b, q, w, h)
  <2>1. "HASH" \in h => b # 10 BY <1>3 DEF HashShown
  <2>2. "PRECISION" \notin h => q = 0 BY <1>3, <1>6
  <2>3. "PRECISION" \in h => "ZEROPAD" \notin h BY <1>3
  <2>4. b # 10 => Sign(n, h) = <<>> BY <1>7, <1>14
  <2>5. Len(P) + Len(d) + Over(q, Len(d)) <= IntegerBuffer
    <3>1. Over(q, Len(d)) \in Nat BY <1>6, <1>10 DEF Over
    <3> HIDE DEF P, F, d, q
    <3> QED BY <1>10, <1>12, <1>16, <1>17, <3>1
  <2>6. w \in Nat OBVIOUS
  <2>7. "POINTER" \notin h BY <1>3
  <2>8. Len(CodePrefix(Len(d), n, b, q, h)) + Len(d) + Over(q, Len(d)) <= IntegerBuffer BY <1>9, <2>5
  <2>9. ZeroFill(h) => w <= IntegerBuffer BY <1>16, <1>18
  <2> HIDE DEF d, n, b, q, w, h, P
  <2> QED BY <1>2, <1>5, <1>6, <1>13, <2>1, <2>2, <2>3, <2>4, <2>6, <2>7, <2>8, <2>9 DEF Ready
<1>20. IntegerText(p) = IF ZeroFilled(p) THEN P \o Fill(p, P \o F, "0") \o F ELSE InField(p, P \o F)
  BY DEF IntegerText
<1> HIDE DEF d, n, b, q, h, P, F
<1>21. CASE ~ZeroFilled(p)
  <2>1. ~ZeroFill(h) BY <1>18, <1>21
  <2>2. Finalized(d, n, b, q, w, h) = Spaced(CodePrefix(Len(d), n, b, q, h) \o Reverse(d \o Zeros(Over(q, Len(d)))), w, h)
    BY <1>19, <2>1, FinalizedPlain
  <2>3. Finalized(d, n, b, q, w, h) = Spaced(P \o F, w, h) BY <1>5, <1>9, <2>2
  <2> DEFINE x == P \o F
  <2> HIDE DEF x
  <2>4. InField(p, x) = Spaced(x, w, h)
    <3>1. Fill(p, x, Space) = Pad(w, Len(x)) BY DEF Fill, Pad
    <3> QED BY <1>3, <3>1 DEF InField, Spaced
  <2>5. Finalized(d, n, b, q, w, h) = IntegerText(p) BY <1>20, <1>21, <2>3, <2>4 DEF x
  <2>6. Pad(w, Len(x)) \in Seq(Chars)
    <3>1. Len(x) \in Nat BY <1>17 DEF x
    <3> QED BY <3>1, PadIs
  <2>7. Spaced(x, w, h) \in Seq(Chars)
    <3> DEFINE y == Pad(w, Len(x))
    <3>1. x \in Seq(Chars) /\ y \in Seq(Chars) BY <1>17, <2>6 DEF x
    <3>2. Spaced(x, w, h) = IF "LEFT" \in h THEN x \o y ELSE y \o x BY DEF Spaced
    <3> HIDE DEF y
    <3>3. x \o y \in Seq(Chars) /\ y \o x \in Seq(Chars) BY <3>1, Joins
    <3> QED BY <3>2, <3>3
  <2> QED BY <1>4, <1>20, <1>21, <2>4, <2>5, <2>7 DEF n, b, q, x
<1>22. CASE ZeroFilled(p)
  <2>1. ZeroFill(h) BY <1>18, <1>22
  <2> DEFINE C == CodePrefix(Len(d), n, b, q, h)
             k == Over(w, Len(P) + Len(d))
  <2>2. Finalized(d, n, b, q, w, h) = (C \o Zeros(Over(w, Len(C) + Len(d)))) \o Reverse(d)
    BY <1>19, <2>1, FinalizedZeros
  <2>3. Finalized(d, n, b, q, w, h) = (P \o Zeros(k)) \o Reverse(d) BY <1>9, <2>2
  <2>4. q = 0 BY <1>6, <1>22 DEF ZeroFilled
  <2>5. Over(q, Len(d)) = 0 BY <1>10, <2>4 DEF Over
  <2>6. Z = <<>>
    <3>1. 0 \in Nat OBVIOUS
    <3> QED BY <2>5, <3>1, ZerosAre
  <2> HIDE DEF Z
  <2>7. F = Reverse(d)
    <3>1. d \o <<>> = d BY <1>5, ConcatEmptySeq
    <3> QED BY <1>5, <2>6, <3>1 DEF Z
  <2>8. Len(F) = Len(d)
    <3>1. Len(d) + 0 = Len(d) BY <1>10
    <3> QED BY <1>12, <2>5, <3>1
  <2>9. Fill(p, P \o F, "0") = Zeros(k)
    <3> DEFINE x == P \o F
    <3>1. Len(x) = Len(P) + Len(d) /\ Len(x) \in Nat BY <1>10, <1>17, <2>8
    <3>2. Fill(p, x, "0") = IF w > Len(x) THEN Copies("0", w - Len(x)) ELSE <<>> BY DEF Fill
    <3>3. k = IF w > Len(x) THEN w - Len(x) ELSE 0 BY <3>1 DEF Over
    <3>4. Zeros(0) = <<>>
      <4>1. 0 \in Nat OBVIOUS
      <4> QED BY <4>1, ZerosAre
    <3> HIDE DEF x, k, w
    <3>5. Fill(p, x, "0") = Zeros(k) BY <3>2, <3>3, <3>4 DEF Zeros
    <3> QED BY <3>5 DEF x
  <2>10. IntegerText(p) = (P \o Zeros(k)) \o F BY <1>20, <1>22, <2>9
  <2>11. Finalized(d, n, b, q, w, h) = IntegerText(p) BY <2>3, <2>7, <2>10
  <2>12. (P \o Zeros(k)) \o F \in Seq(Chars)
    <3>1. k \in Nat
      <4>1. Len(P) + Len(d) \in Nat BY <1>10, <1>17
      <4> QED BY <4>1 DEF Over
    <3>2. Zeros(k) \in Seq(Chars) BY <3>1, ZerosAre
    <3> HIDE DEF k
    <3>3. P \o Zeros(k) \in Seq(Chars) BY <1>15, <3>2, Joins
    <3> QED BY <1>12, <3>3, Joins
  <2> QED BY <1>4, <2>10, <2>11, <2>12 DEF n, b, q
<1> QED BY <1>21, <1>22

(* The words of a value put together again. *)
LEMMA TwoWords ==
  ASSUME NEW v \in Int, NEW m \in Nat \ {0}
  PROVE  v % (m * m) = (v % m) + m * ((v \div m) % m)
<1> DEFINE k == v \div m
           x == v % m
           j == k \div m
           y == k % m
           z == y * m + x
<1>1. k \in Int /\ x \in 0 .. m - 1 /\ v = k * m + x BY Division
<1> HIDE DEF k, x
<1>2. j \in Int /\ y \in 0 .. m - 1 /\ k = j * m + y BY <1>1, Division
<1> HIDE DEF j, y
<1>3. z \in 0 .. (m * m) - 1
  <2>1. 0 <= y * m
    <3>1. 0 * m <= y * m BY <1>2, MulMonotone
    <3> QED BY <3>1
  <2>2. y * m <= (m - 1) * m BY <1>2, MulMonotone
  <2>3. (m - 1) * m = m * m - m OBVIOUS
  <2>4. y * m \in Int /\ m * m \in Int BY <1>2
  <2> QED BY <1>1, <2>1, <2>2, <2>3, <2>4
<1>4. v = j * (m * m) + z
  <2>1. k * m = (j * m) * m + y * m BY <1>2
  <2>2. (j * m) * m = j * (m * m) BY <1>2
  <2>3. (j * m) * m \in Int /\ y * m \in Int /\ j * (m * m) \in Int /\ k * m \in Int BY <1>1, <1>2
  <2> QED BY <1>1, <2>1, <2>2, <2>3
<1>5. m * m \in Nat \ {0} OBVIOUS
<1>6. v % (m * m) = z
  <2> DEFINE n == m * m
  <2> HIDE DEF n, z
  <2>1. n \in Nat \ {0} /\ z \in 0 .. n - 1 /\ v = j * n + z BY <1>3, <1>4, <1>5 DEF n
  <2>2. v % n = z BY <1>2, <2>1, DivMod
  <2> QED BY <2>2 DEF n
<1>7. z = x + m * y BY <1>1, <1>2
<1> QED BY <1>6, <1>7 DEF x, y, k

LEMMA CutTwice ==
  ASSUME NEW v \in Int, NEW m \in Nat \ {0}, NEW c \in Nat \ {0}, m % c = 0
  PROVE  (v % m) % c = v % c
<1> DEFINE k == v \div m
           x == v % m
           d == m \div c
           e == x \div c
           y == x % c
<1>1. k \in Int /\ x \in 0 .. m - 1 /\ v = k * m + x BY Division
<1> HIDE DEF k, x
<1>2. d \in Int /\ m = d * c + 0
  <2>1. d \in Int /\ m = d * c + (m % c) BY Division
  <2> QED BY <2>1
<1>3. e \in Int /\ y \in 0 .. c - 1 /\ x = e * c + y BY <1>1, Division
<1> HIDE DEF d, e, y
<1>4. v = (k * d + e) * c + y
  <2>1. k * m = k * (d * c) BY <1>1, <1>2
  <2>2. k * (d * c) = (k * d) * c BY <1>1, <1>2
  <2>3. (k * d + e) * c = (k * d) * c + e * c BY <1>1, <1>2, <1>3
  <2>4. k * m \in Int /\ (k * d) * c \in Int /\ e * c \in Int BY <1>1, <1>2, <1>3
  <2> QED BY <1>1, <1>3, <2>1, <2>2, <2>3, <2>4
<1>5. k * d + e \in Int BY <1>1, <1>2, <1>3
<1>6. v % c = y
  <2> DEFINE j == k * d + e
  <2>1. j \in Int /\ v = j * c + y BY <1>4, <1>5
  <2> HIDE DEF j
  <2> QED BY <1>3, <2>1, DivMod
<1> QED BY <1>6 DEF x, y

LEMMA SignedIs ==
  ASSUME NEW M \in Nat \ {0}, NEW r \in 0 .. M - 1
  PROVE  LET g == AsSigned(r, M)
             a == IF g < 0 THEN -g ELSE g
         IN  g \in Int /\ a \in Nat /\ a <= M /\ (M # 1 => a < M)
<1> DEFINE h == M \div 2
<1>1. h \in Nat /\ 2 * h <= M /\ M <= 2 * h + 1 OBVIOUS
<1> HIDE DEF h
<1>2. AsSigned(r, M) = IF r >= h THEN r - M ELSE r BY DEF AsSigned, h
<1> QED BY <1>1, <1>2

LEMMA ModsAre ==
  /\ CharMod \in Nat \ {0} /\ IntMod \in Nat \ {0} /\ LongMod \in Nat \ {0} /\ IntMod % CharMod = 0
  /\ CharMod <= IntMod /\ IntMod <= LongMod /\ LongMod >= 2 /\ LongMod = IntMod * IntMod
<1>1. /\ CharMod \in Nat \ {0} /\ IntMod \in Nat \ {0} /\ IntMod % CharMod = 0
      /\ IntegerBuffer \in Nat /\ 1 <= IntegerBuffer /\ LongMod = Power(2)[IntegerBuffer]
  BY WidthAssumption
<1>2. LongMod = IntMod * IntMod BY DEF LongMod
<1>3. 1 * IntMod <= IntMod * IntMod
  <2>1. 1 \in Int /\ IntMod \in Int /\ IntMod \in Nat /\ 1 <= IntMod BY <1>1
  <2> QED BY <2>1, MulMonotone
<1>4. IntMod * IntMod \in Nat BY <1>1
<1>5. IntMod <= LongMod /\ LongMod \in Nat \ {0} BY <1>1, <1>2, <1>3, <1>4
<1>6. LongMod >= 2
  <2> DEFINE P == Power(2)
             n == IntegerBuffer
  <2>1. P[0] = 1 /\ \A k \in Nat : P[k] \in Nat /\ P[k + 1] = 2 * P[k]
    <3>1. 2 \in Nat OBVIOUS
    <3> QED BY <3>1, PowerIs
  <2>2. P[1] <= P[n]
    <3>1. 2 \in Nat \ {0} /\ 1 \in Nat /\ n \in Nat /\ 1 <= n BY <1>1
    <3> QED BY <3>1, PowerGrows
  <2> HIDE DEF P, n
  <2>3. P[1] = 2
    <3>1. 0 \in Nat /\ 0 + 1 = 1 OBVIOUS
    <3> QED BY <2>1, <3>1
  <2>4. P[n] = LongMod BY <1>1 DEF P, n
  <2> QED BY <1>5, <2>2, <2>3, <2>4
<1>7. CharMod <= IntMod
  <2> DEFINE d == IntMod \div CharMod
  <2>1. d \in Int /\ IntMod = d * CharMod + 0
    <3>1. d \in Int /\ IntMod = d * CharMod + (IntMod % CharMod) BY <1>1, Division
    <3> QED BY <1>1, <3>1
  <2> HIDE DEF d
  <2>2. ~(d <= 0)
    <3> SUFFICES ASSUME d <= 0 PROVE FALSE OBVIOUS
    <3>1. d * CharMod <= 0 * CharMod BY <1>1, <2>1, MulMonotone
    <3>2. d * CharMod \in Int BY <1>1, <2>1
    <3> QED BY <1>1, <2>1, <3>1, <3>2
  <2>3. 1 * CharMod <= d * CharMod BY <1>1, <2>1, <2>2, MulMonotone
  <2>4. d * CharMod \in Int BY <1>1, <2>1
  <2> QED BY <1>1, <2>1, <2>3, <2>4
<1> QED BY <1>1, <1>2, <1>5, <1>6, <1>7

LEMMA ModulusIs ==
  ASSUME NEW p
  PROVE  /\ Modulus(p) \in Nat \ {0} /\ Modulus(p) <= LongMod
         /\ p.length = <<"l">> => Modulus(p) = LongMod
         /\ p.length = <<"h", "h">> => Modulus(p) = CharMod
         /\ p.length # <<"l">> /\ p.length # <<"h", "h">> => Modulus(p) = IntMod
<1> DEFINE long == <<"l">>
           char == <<"h", "h">>
<1>1. long # char OBVIOUS
<1>2. Modulus(p) = IF p.length = long THEN LongMod ELSE IF p.length = char THEN CharMod ELSE IntMod
  BY <1>1 DEF Modulus
<1> HIDE DEF long, char
<1>3. CharMod <= LongMod BY ModsAre
<1>4. /\ Modulus(p) \in Nat \ {0} /\ Modulus(p) <= LongMod
      /\ p.length = long => Modulus(p) = LongMod
      /\ p.length = char => Modulus(p) = CharMod
      /\ p.length # long /\ p.length # char => Modulus(p) = IntMod
  BY <1>1, <1>2, <1>3, ModsAre
<1> QED BY <1>4 DEF long, char

LEMMA NumberIs ==
  ASSUME NEW p, p.conv \in DOMAIN Bases, p.value \in Int, p.precision # None => p.precision \in Nat
  PROVE  IsNumber(p) /\ (Amount(p) = 0 <=> Given(p) = 0) /\ (~Signed(p) => Given(p) >= 0)
<1> DEFINE M == Modulus(p)
           r == p.value % M
           g == Given(p)
<1>1. M \in Nat \ {0} /\ M <= LongMod BY ModulusIs
<1> HIDE DEF M
<1>2. r \in 0 .. M - 1 BY <1>1
<1>3. g = IF Signed(p) THEN AsSigned(r, M) ELSE r BY DEF Given, M
<1>4. Amount(p) = IF g < 0 THEN -g ELSE g BY DEF Amount
<1> HIDE DEF r, g
<1>5. g \in Int /\ Amount(p) \in Nat /\ Amount(p) <= M /\ (M # 1 => Amount(p) < M)
  <2>1. CASE Signed(p)
    <3> DEFINE s == AsSigned(r, M)
    <3>1. s \in Int /\ LET a == IF s < 0 THEN -s ELSE s IN a \in Nat /\ a <= M /\ (M # 1 => a < M)
      BY <1>1, <1>2, SignedIs
    <3>2. g = s BY <1>3, <2>1
    <3> HIDE DEF s
    <3> QED BY <1>4, <3>1, <3>2
  <2>2. CASE ~Signed(p)
    <3>1. g = r BY <1>3, <2>2
    <3> QED BY <1>1, <1>2, <1>4, <3>1
  <2> QED BY <2>1, <2>2
<1>6. Amount(p) < LongMod
  <2>1. LongMod >= 2 /\ LongMod \in Nat BY ModsAre
  <2> QED BY <1>1, <1>5, <2>1
<1>7. Amount(p) = 0 <=> g = 0 BY <1>4, <1>5
<1>8. ~Signed(p) => g >= 0 BY <1>2, <1>3
<1> QED BY <1>5, <1>6, <1>7, <1>8 DEF IsNumber, g

LEMMA AskedIs ==
  ASSUME NEW p, Asked(p)
  PROVE  Wide(p) \in Nat /\ (p.precision # None => p.precision \in Nat)
<1> DEFINE h == IntMod \div 2
<1>1. IntMod \in Nat /\ h \in Nat
  <2>1. IntMod \in Nat BY ModsAre
  <2> QED BY <2>1
<1>2. /\ p.width # None => p.width \in IF p.star THEN h - IntMod .. h - 1 ELSE {n \in 1 .. 99 : n < SizeMod}
      /\ p.precision # None => p.precision \in IF p.star THEN 0 .. h - 1 ELSE {n \in 0 .. 99 : n < SizeMod}
  BY DEF Asked
<1> HIDE DEF h
<1>3. p.width # None => p.width \in Int
  <2>1. CASE p.star BY <1>1, <1>2, <2>1
  <2>2. CASE ~p.star BY <1>1, <1>2, <2>2
  <2> QED BY <2>1, <2>2
<1>4. p.precision # None => p.precision \in Nat
  <2>1. CASE p.star BY <1>1, <1>2, <2>1
  <2>2. CASE ~p.star BY <1>1, <1>2, <2>2
  <2> QED BY <2>1, <2>2
<1> QED BY <1>3, <1>4 DEF Wide

(* Fields around what is no number. *)
LEMMA FieldIs ==
  ASSUME NEW s, NEW w, NEW f
  PROVE  Field(s, w, f) = Spaced(s, w, f)
BY DEF Field, Spaced, Pad

LEMMA InFieldIs ==
  ASSUME NEW p, NEW s, NEW f, "LEFT" \in f <=> Left(p)
  PROVE  InField(p, s) = Spaced(s, Wide(p), f)
BY DEF InField, Spaced, Pad, Fill

LEMMA SpacedType ==
  ASSUME NEW s \in Seq(Alphabet), NEW w \in Nat, NEW f
  PROVE  Spaced(s, w, f) \in Seq(Alphabet)
<1> DEFINE y == Pad(w, Len(s))
<1>1. Len(s) \in Nat OBVIOUS
<1>2. y \in Seq(Chars) BY <1>1, PadIs
<1>3. y \in Seq(Alphabet)
  <2>1. Chars \subseteq Alphabet BY DEF Alphabet
  <2> HIDE DEF y
  <2> QED BY <1>2, <2>1
<1>4. Spaced(s, w, f) = IF "LEFT" \in f THEN s \o y ELSE y \o s BY DEF Spaced
<1> HIDE DEF y
<1>5. s \o y \in Seq(Alphabet) /\ y \o s \in Seq(Alphabet) BY <1>3, Joins
<1> QED BY <1>4, <1>5

(* Words taken one at a time. *)
LEMMA WordTaken ==
  ASSUME NEW S, NEW x \in S, NEW s \in Seq(S)
  PROVE  /\ <<x>> \o s \in Seq(S) /\ Head(<<x>> \o s) = x /\ Tail(<<x>> \o s) = s
         /\ (<<x>> \o s)[1] = x
<1> DEFINE o == <<x>>
           u == o \o s
<1>1. o \in Seq(S) /\ Len(o) = 1 /\ o[1] = x OBVIOUS
<1> HIDE DEF o
<1>2. u \in Seq(S) /\ Len(u) = 1 + Len(s)
      /\ \A i \in 1 .. 1 + Len(s) : u[i] = IF i <= 1 THEN o[i] ELSE s[i - 1]
  <2>1. u \in Seq(S) /\ Len(u) = Len(o) + Len(s)
      /\ \A i \in 1 .. Len(o) + Len(s) : u[i] = IF i <= Len(o) THEN o[i] ELSE s[i - Len(o)]
    BY <1>1, ConcatProperties
  <2> HIDE DEF u
  <2> QED BY <1>1, <2>1
<1> HIDE DEF u
<1>3. u # <<>> /\ u[1] = x
  <2>1. Len(s) \in Nat OBVIOUS
  <2>2. 1 \in 1 .. 1 + Len(s) BY <2>1
  <2> QED BY <1>1, <1>2, <2>1, <2>2
<1>4. Head(u) = u[1] BY <1>2, <1>3
<1>5. Tail(u) \in Seq(S) /\ Len(Tail(u)) = Len(s) /\ \A i \in 1 .. Len(s) : Tail(u)[i] = u[i + 1]
  <2> DEFINE t == Tail(u)
  <2>1. t \in Seq(S) /\ Len(t) = Len(u) - 1 /\ \A i \in 1 .. Len(u) - 1 : t[i] = u[i + 1] BY <1>2, <1>3
  <2> HIDE DEF t
  <2>2. Len(u) - 1 = Len(s) BY <1>2
  <2>3. Len(t) = Len(s) /\ \A i \in 1 .. Len(s) : t[i] = u[i + 1] BY <2>1, <2>2
  <2> QED BY <2>1, <2>3 DEF t
<1>6. \A i \in 1 .. Len(s) : Tail(u)[i] = s[i]
  <2> SUFFICES ASSUME NEW i \in 1 .. Len(s) PROVE Tail(u)[i] = s[i] OBVIOUS
  <2> DEFINE j == i + 1
  <2>1. j \in 1 .. 1 + Len(s) /\ ~(j <= 1) /\ j - 1 = i OBVIOUS
  <2>2. Tail(u)[i] = u[j] BY <1>5
  <2> HIDE DEF j
  <2> QED BY <1>2, <2>1, <2>2
<1>7. Tail(u) = s BY <1>5, <1>6, SeqEqual
<1> QED BY <1>2, <1>3, <1>4, <1>7 DEF u, o

LEMMA TwoWordsTaken ==
  ASSUME NEW S, NEW x \in S, NEW y \in S, NEW s \in Seq(S)
  PROVE  LET w == (<<x>> \o <<y>>) \o s
         IN  w \in Seq(S) /\ w[1] = x /\ w[2] = y /\ SubSeq(w, 3, Len(w)) = s
<1> DEFINE a == <<y>> \o s
           w == <<x>> \o a
<1>1. <<x>> \in Seq(S) /\ <<y>> \in Seq(S) OBVIOUS
<1>2. (<<x>> \o <<y>>) \o s = w BY <1>1, WordsRegroup
<1>3. a \in Seq(S) /\ Tail(a) = s /\ a[1] = y /\ Head(a) = y BY WordTaken
<1> HIDE DEF a
<1>4. w \in Seq(S) /\ Tail(w) = a /\ w[1] = x /\ Head(w) = x BY <1>3, WordTaken
<1> HIDE DEF w
<1>5. a # <<>> /\ w # <<>> /\ Len(a) = 1 + Len(s) /\ Len(w) = 1 + Len(a)
  <2>1. Len(a) = Len(<<y>>) + Len(s) BY <1>1, Joins DEF a
  <2>2. Len(w) = Len(<<x>>) + Len(a) BY <1>1, <1>3, Joins DEF w
  <2>3. Len(<<x>>) = 1 /\ Len(<<y>>) = 1 OBVIOUS
  <2>4. Len(s) \in Nat OBVIOUS
  <2> QED BY <1>3, <1>4, <2>1, <2>2, <2>3, <2>4
<1>6. w[2] = y
  <2>1. Tail(w)[1] = w[1 + 1] BY <1>4, <1>5
  <2>2. 1 + 1 = 2 OBVIOUS
  <2> QED BY <1>3, <1>4, <2>1, <2>2
<1>7. SubSeq(w, 3, Len(w)) = s
  <2> DEFINE t == SubSeq(w, 3, Len(w))
             n == Len(s)
  <2>1. n \in Nat /\ Len(w) = n + 2 BY <1>5
  <2>2. t \in Seq(S) /\ Len(t) = n /\ \A i \in 1 .. n : t[i] = w[i + 2]
    <3>1. t = [i \in 1 .. (Len(w) - 3) + 1 |-> w[(i + 3) - 1]] BY <1>4 
    <3> HIDE DEF t
    <3>2. (Len(w) - 3) + 1 = n /\ \A i \in 1 .. n : (i + 3) - 1 = i + 2 BY <2>1
    <3>3. t = [i \in 1 .. n |-> w[i + 2]] BY <3>1, <3>2
    <3>4. \A i \in 1 .. n : w[i + 2] \in S
      <4>1. \A i \in 1 .. n : i + 2 \in 1 .. Len(w) BY <2>1
      <4> QED BY <1>4, <4>1
    <3> HIDE DEF n
    <3> QED BY <2>1, <3>3, <3>4
  <2>3. \A i \in 1 .. n : t[i] = s[i]
    <3> SUFFICES ASSUME NEW i \in 1 .. n PROVE t[i] = s[i] OBVIOUS
    <3>1. i \in 1 .. Len(Tail(a)) /\ i + 1 \in 1 .. Len(Tail(w)) BY <1>3, <1>4, <1>5, <2>1
    <3>2. s[i] = a[i + 1] BY <1>3, <1>5, <3>1
    <3>3. a[i + 1] = w[(i + 1) + 1] BY <1>4, <1>5, <3>1
    <3>4. (i + 1) + 1 = i + 2 OBVIOUS
    <3> QED BY <2>2, <3>2, <3>3, <3>4
  <2> HIDE DEF t
  <2>4. t = s BY <2>2, <2>3, SeqEqual
  <2> QED BY <2>4 DEF t
<1>8. \A u : u = w => u \in Seq(S) /\ u[1] = x /\ u[2] = y /\ SubSeq(u, 3, Len(u)) = s
  BY <1>4, <1>6, <1>7
<1> QED BY <1>2, <1>8, Zenon

(* What printf knows of a piece when it comes to its conversion: its flags, *)
(* its width and its precision; the words of its value are next.            *)
FlagsFit(p, f) ==
  /\ "LEFT" \in f <=> Left(p)
  /\ "ZEROPAD" \in f <=> "0" \in p.flags
  /\ "PLUS" \in f <=> "+" \in p.flags
  /\ "SPACE" \in f <=> Space \in p.flags
  /\ "HASH" \in f <=> "#" \in p.flags
  /\ "PRECISION" \in f <=> p.precision # None
  /\ "LONG" \in f <=> p.length = <<"l">>
  /\ "SHORT" \in f <=> p.length \in {<<"h">>, <<"h", "h">>}
  /\ "CHAR" \in f <=> p.length = <<"h", "h">>
  /\ "LONG_LONG" \notin f /\ "POINTER" \notin f /\ "UPPERCASE" \notin f
LowWord(p)  == p.value % IntMod
HighWord(p) == (p.value \div IntMod) % IntMod
LongWords(p) == p.conv \in DOMAIN Bases /\ p.length = <<"l">>
ValueOf(p) == IF LongWords(p) THEN <<LowWord(p)>> \o <<HighWord(p)>> ELSE <<LowWord(p)>>
Known(p) == FlagsFit(p, flags) /\ width = Wide(p) /\ precision = CodePrecision(p)

LEMMA WordsAre == ASSUME NEW p, p.value \in Int
  PROVE  LowWord(p) \in 0 .. IntMod - 1 /\ HighWord(p) \in 0 .. IntMod - 1
         /\ (p.value \in 0 .. IntMod - 1 => LowWord(p) = p.value)
<1>1. IntMod \in Nat \ {0} BY ModsAre
<1>2. p.value \div IntMod \in Int BY <1>1, Division
<1> DEFINE d == p.value \div IntMod
<1> HIDE DEF d
<1>3. d \in Int BY <1>2 DEF d
<1>4. HighWord(p) = d % IntMod BY DEF HighWord, d
<1>5. HighWord(p) \in 0 .. IntMod - 1 BY <1>1, <1>3, <1>4
<1>6. LowWord(p) \in 0 .. IntMod - 1 BY <1>1 DEF LowWord
<1>7. ASSUME p.value \in 0 .. IntMod - 1 PROVE LowWord(p) = p.value
  BY <1>1, <1>7, Within DEF LowWord
<1> QED BY <1>5, <1>6, <1>7

IntegerFlags(p, f) ==
  (f \cup IF p.conv = "X" THEN {"UPPERCASE"} ELSE {})
  \ ((IF Bases[p.conv] = 10 THEN {"HASH"} ELSE {})
     \cup (IF "PRECISION" \in f THEN {"ZEROPAD"} ELSE {})
     \cup (IF p.conv \in {"d", "i"} THEN {} ELSE {"PLUS", "SPACE"}))

LEMMA IntegerFlagsAre ==
  ASSUME NEW p, NEW f, FlagsFit(p, f)
  PROVE  /\ NumberFlags(p, IntegerFlags(p, f))
         /\ \A x \in {"LONG", "LONG_LONG", "CHAR"} : x \in IntegerFlags(p, f) <=> x \in f
<1> DEFINE g == IntegerFlags(p, f)
<1>1. "POINTER" \notin g BY DEF FlagsFit, IntegerFlags
<1>2. "UPPERCASE" \in g <=> p.conv = "X" BY DEF FlagsFit, IntegerFlags
<1>3. "LEFT" \in g <=> Left(p) BY DEF FlagsFit, IntegerFlags
<1>4. "ZEROPAD" \in g <=> "0" \in p.flags /\ p.precision = None BY DEF FlagsFit, IntegerFlags
<1>5. "PRECISION" \in g <=> p.precision # None BY DEF FlagsFit, IntegerFlags
<1>6. "HASH" \in g <=> Alternative(p) /\ Radix(p) # 10 BY DEF FlagsFit, IntegerFlags, Alternative, Radix
<1>7. "PLUS" \in g <=> Signed(p) /\ "+" \in p.flags BY DEF FlagsFit, IntegerFlags, Signed
<1>8. "SPACE" \in g <=> Signed(p) /\ Space \in p.flags BY DEF FlagsFit, IntegerFlags, Signed
<1>9. \A x \in {"LONG", "LONG_LONG", "CHAR"} : x \in g <=> x \in f BY DEF IntegerFlags
<1> QED BY <1>1, <1>2, <1>3, <1>4, <1>5, <1>6, <1>7, <1>8, <1>9 DEF NumberFlags

(* The value that is read is the one the standard prints. *)
LEMMA ValueRead ==
  ASSUME NEW p, NEW R \in Seq(Nat), NEW g, p.conv \in DOMAIN Bases, p.value \in Int, p.length \in Lengths,
         args = ValueOf(p) \o R, "LONG_LONG" \notin g,
         "LONG" \in g <=> p.length = <<"l">>, "CHAR" \in g <=> p.length = <<"h", "h">>
  PROVE  /\ RawValue(g) = p.value % Modulus(p) /\ ValueMod(g) = Modulus(p)
         /\ SubSeq(args, ValueWords(g) + 1, Len(args)) = R
<1> DEFINE x == LowWord(p)
           y == HighWord(p)
<1>1. x \in Nat /\ y \in Nat
  <2>1. IntMod \in Nat BY ModsAre
  <2> QED BY <2>1, WordsAre
<1>2. IntMod \in Nat \ {0} /\ CharMod \in Nat \ {0} /\ IntMod % CharMod = 0 /\ LongMod = IntMod * IntMod BY ModsAre
<1>3. CASE p.length = <<"l">>
  <2>1. "LONG" \in g /\ ValueWords(g) = 2 /\ ValueMod(g) = LongMod BY <1>3 DEF ValueWords, ValueMod
  <2>2. args = (<<x>> \o <<y>>) \o R BY <1>3 DEF ValueOf, LongWords
  <2>3. Modulus(p) = LongMod BY <1>3, ModulusIs
  <2> DEFINE v == p.value
  <2>4. v % LongMod = x + IntMod * y
    <3>1. v % (IntMod * IntMod) = (v % IntMod) + IntMod * ((v \div IntMod) % IntMod)
      <4> DEFINE m == IntMod
      <4>1. m \in Nat \ {0} /\ v \in Int BY <1>2
      <4> HIDE DEF m, v
      <4>2. v % (m * m) = (v % m) + m * ((v \div m) % m) BY <4>1, TwoWords
      <4> QED BY <4>2 DEF m
    <3> QED BY <1>2, <3>1 DEF LowWord, HighWord
  <2> HIDE DEF x, y
  <2>5. args[1] = x /\ args[2] = y /\ SubSeq(args, 3, Len(args)) = R BY <1>1, <2>2, TwoWordsTaken
  <2>6. RawValue(g) = args[1] + IntMod * args[2] BY <2>1 DEF RawValue
  <2>7. SubSeq(args, ValueWords(g) + 1, Len(args)) = R
    <3>1. ValueWords(g) + 1 = 3 BY <2>1
    <3> QED BY <2>5, <3>1
  <2> QED BY <2>1, <2>3, <2>4, <2>5, <2>6, <2>7
<1>4. CASE p.length # <<"l">>
  <2>1. "LONG" \notin g /\ ValueWords(g) = 1 BY <1>4 DEF ValueWords
  <2>2. args = <<x>> \o R BY <1>4 DEF ValueOf, LongWords
  <2> HIDE DEF x, y
  <2>3. args[1] = x /\ Tail(args) = R /\ args \in Seq(Nat) BY <1>1, <2>2, WordTaken
  <2>4. SubSeq(args, ValueWords(g) + 1, Len(args)) = R
    <3>1. ValueWords(g) + 1 = 2 BY <2>1
    <3>2. Len(args) = 1 + Len(R) /\ args # <<>>
      <4>1. <<x>> \in Seq(Nat) /\ Len(<<x>>) = 1 BY <1>1
      <4>2. Len(args) = 1 + Len(R) BY <2>2, <4>1, Joins
      <4>3. Len(R) \in Nat OBVIOUS
      <4> QED BY <2>3, <4>2, <4>3
    <3>3. Tail(args) = SubSeq(args, 2, Len(args)) BY <2>3, <3>2
    <3> QED BY <2>3, <3>1, <3>3
  <2>5. CASE p.length = <<"h", "h">>
    <3>1. RawValue(g) = args[1] % CharMod /\ ValueMod(g) = CharMod BY <2>1, <2>5 DEF RawValue, ValueMod
    <3>2. Modulus(p) = CharMod BY <2>5, ModulusIs
    <3>3. x % CharMod = p.value % CharMod
      <4> DEFINE m == IntMod
                 c == CharMod
                 v == p.value
      <4>1. m \in Nat \ {0} /\ c \in Nat \ {0} /\ m % c = 0 /\ v \in Int BY <1>2
      <4> HIDE DEF m, c, v
      <4>2. (v % m) % c = v % c BY <4>1, CutTwice
      <4> QED BY <4>2 DEF m, c, v, x, LowWord
    <3> QED BY <2>3, <2>4, <3>1, <3>2, <3>3
  <2>6. CASE p.length # <<"h", "h">>
    <3>1. RawValue(g) = args[1] /\ ValueMod(g) = IntMod BY <2>1, <2>6 DEF RawValue, ValueMod
    <3>2. Modulus(p) = IntMod BY <1>4, <2>6, ModulusIs
    <3> QED BY <2>3, <2>4, <3>1, <3>2 DEF x, LowWord
  <2> QED BY <2>5, <2>6
<1> QED BY <1>3, <1>4

LEMMA IntegerPuts ==
  ASSUME NEW p, NEW R \in Seq(Nat), Admitted(p), Fits(p), p.conv \in DOMAIN Bases, Here = p.conv,
         Known(p), args = ValueOf(p) \o R, Integer
  PROVE  /\ out' = StandardPiece(p) /\ out' \in Seq(Alphabet) /\ args' = R /\ stored' = stored
<1> DEFINE g == IntegerFlags(p, flags)
           s == p.conv \in {"d", "i"}
           v == IF s THEN AsSigned(RawValue(g), ValueMod(g)) ELSE RawValue(g)
           c == p.conv
<1>1. Asked(p) /\ p.length \in Lengths
  <2>1. p.conv # "plain" BY BasesAre
  <2> QED BY <2>1, AdmittedIs
<1>2. p.value \in Int BY BasesAre DEF Admitted
<1>3. FlagsFit(p, flags) /\ width = Wide(p) /\ precision = CodePrecision(p) BY DEF Known
<1>4. NumberFlags(p, g) /\ "LONG_LONG" \notin g
      /\ ("LONG" \in g <=> p.length = <<"l">>) /\ ("CHAR" \in g <=> p.length = <<"h", "h">>)
  <2>1. NumberFlags(p, g) /\ \A x \in {"LONG", "LONG_LONG", "CHAR"} : x \in g <=> x \in flags
    BY <1>3, IntegerFlagsAre
  <2> QED BY <1>3, <2>1 DEF FlagsFit
<1>5. /\ out' = IF "LONG_LONG" \in g THEN <<>>
                ELSE PrintInteger(IF v < 0 THEN -v ELSE v, v < 0, Bases[c], precision, width, g)
      /\ args' = SubSeq(args, ValueWords(g) + 1, Len(args)) /\ stored' = stored
  BY DEF Integer, IntegerFlags
<1> HIDE DEF g
<1>6. RawValue(g) = p.value % Modulus(p) /\ ValueMod(g) = Modulus(p)
      /\ SubSeq(args, ValueWords(g) + 1, Len(args)) = R
  BY <1>1, <1>2, <1>4, ValueRead
<1>7. v = Given(p) BY <1>6 DEF Given, Signed
<1> HIDE DEF v
<1>8. out' = PrintInteger(Amount(p), Given(p) < 0, Radix(p), CodePrecision(p), Wide(p), g)
  BY <1>3, <1>4, <1>5, <1>7 DEF Amount, Radix
<1>9. Wide(p) \in Nat /\ (p.precision # None => p.precision \in Nat) BY <1>1, AskedIs
<1>10. IsNumber(p) /\ (Amount(p) = 0 <=> Given(p) = 0) /\ (~Signed(p) => Given(p) >= 0) BY <1>2, <1>9, NumberIs
<1>11. PrintInteger(Amount(p), Given(p) < 0, Radix(p), CodePrecision(p), Wide(p), g) = IntegerText(p)
       /\ IntegerText(p) \in Seq(Chars)
  BY <1>4, <1>9, <1>10, IntegerMade
<1>12. StandardPiece(p) = IntegerText(p) BY BasesAre DEF StandardPiece
<1>13. Chars \subseteq Alphabet BY DEF Alphabet
<1>14. IntegerText(p) \in Seq(Alphabet) BY <1>11, <1>13
<1> QED BY <1>5, <1>6, <1>8, <1>11, <1>12, <1>14

(* A conversion that takes one word. *)
LEMMA OneWord ==
  ASSUME NEW p, NEW R \in Seq(Nat), p.conv \notin DOMAIN Bases, args = ValueOf(p) \o R, p.value \in 0 .. IntMod - 1
  PROVE  Head(args) = p.value /\ Tail(args) = R
<1> DEFINE x == LowWord(p)
<1>1. x = p.value /\ x \in Nat
  <2>1. IntMod \in Nat BY ModsAre
  <2>2. p.value \in Int BY <2>1
  <2> QED BY <2>1, <2>2, WordsAre
<1>2. args = <<x>> \o R BY DEF ValueOf, LongWords
<1> HIDE DEF x
<1>3. Head(args) = x /\ Tail(args) = R BY <1>1, <1>2, WordTaken
<1> QED BY <1>1, <1>3

LEMMA CharacterPuts ==
  ASSUME NEW p, NEW R \in Seq(Nat), Admitted(p), p.conv = "c", Known(p), args = ValueOf(p) \o R, Character
  PROVE  out' = StandardPiece(p) /\ out' \in Seq(Alphabet) /\ args' = R /\ stored' = stored
<1>1. Asked(p) /\ p.value \in 0 .. CharMod - 1 BY BasesAre DEF Admitted
<1>2. CharMod \in Nat \ {0} /\ IntMod \in Nat /\ CharMod <= IntMod BY ModsAre
<1>3. p.conv \notin DOMAIN Bases BY BasesAre
<1>4. p.value \in 0 .. IntMod - 1 BY <1>1, <1>2
<1>5. Head(args) = p.value /\ Tail(args) = R BY <1>3, <1>4, OneWord
<1>6. p.value % CharMod = p.value
  <2> DEFINE v == p.value
             m == CharMod
  <2>1. m \in Nat \ {0} /\ v \in 0 .. m - 1 BY <1>1, <1>2
  <2> HIDE DEF v, m
  <2>2. v % m = v BY <2>1, Within
  <2> QED BY <2>2 DEF v, m
<1> DEFINE s == <<Characters[p.value]>>
<1>7. out' = Field(<<Characters[Head(args) % CharMod]>>, width, flags) /\ args' = Tail(args) /\ stored' = stored
  BY DEF Character
<1>8. out' = Field(s, width, flags) BY <1>5, <1>6, <1>7
<1>9. s \in Seq(Alphabet)
  <2>1. Characters[p.value] \in Alphabet BY <1>1, CharsAssumption DEF Alphabet
  <2> QED BY <2>1
<1>10. StandardPiece(p) = InField(p, s) BY DEF StandardPiece
<1>11. width = Wide(p) /\ ("LEFT" \in flags <=> Left(p)) BY DEF Known, FlagsFit
<1>12. Wide(p) \in Nat BY <1>1, AskedIs
<1> HIDE DEF s
<1>13. Field(s, width, flags) = Spaced(s, Wide(p), flags) BY <1>11, FieldIs
<1>14. InField(p, s) = Spaced(s, Wide(p), flags) BY <1>11, InFieldIs
<1>15. Spaced(s, Wide(p), flags) \in Seq(Alphabet) BY <1>9, <1>12, SpacedType
<1> QED BY <1>5, <1>7, <1>8, <1>10, <1>13, <1>14, <1>15

NullText == <<"(", "n", "u", "l", "l", ")">>
LEMMA NullBackwards ==
  LET r == <<")", "l", "l", "u", "n", "(">>
  IN  r \in Seq(Chars) /\ Reverse(r) = NullText /\ NullText \in Seq(Chars)
<1>1. {"(", ")", "n", "u", "l"} \subseteq Chars BY CharsAssumption
<1> DEFINE r == <<")", "l", "l", "u", "n", "(">>
           s == Reverse(r)
           t == NullText
<1>2. r \in Seq(Chars) /\ Len(r) = 6 /\ t \in Seq(Chars) /\ Len(t) = 6 BY <1>1 DEF NullText
<1>3. /\ r[1] = t[6] /\ r[2] = t[5] /\ r[3] = t[4] /\ r[4] = t[3] /\ r[5] = t[2] /\ r[6] = t[1] BY DEF NullText
<1> HIDE DEF r, t
<1>4. s \in Seq(Chars) /\ Len(s) = 6 /\ \A i \in 1 .. 6 : s[i] = r[(6 - i) + 1]
  <2> DEFINE n == 6
  <2>1. Len(r) = n BY <1>2
  <2> HIDE DEF n
  <2>2. s \in Seq(Chars) /\ Len(s) = n /\ \A i \in 1 .. n : s[i] = r[(n - i) + 1] BY <1>2, <2>1, Backwards
  <2> QED BY <2>2 DEF n
<1>5. \A i \in 1 .. 6 : s[i] = t[i]
  <2>1. \A i \in 1 .. 6 : i = 1 \/ i = 2 \/ i = 3 \/ i = 4 \/ i = 5 \/ i = 6 OBVIOUS
  <2>2. (6 - 1) + 1 = 6 /\ (6 - 2) + 1 = 5 /\ (6 - 3) + 1 = 4 /\ (6 - 4) + 1 = 3 /\ (6 - 5) + 1 = 2 /\ (6 - 6) + 1 = 1 OBVIOUS
  <2> HIDE DEF s
  <2> QED BY <1>3, <1>4, <2>1, <2>2
<1> HIDE DEF s
<1>6. s = t BY <1>2, <1>4, <1>5, SeqEqual
<1> QED BY <1>2, <1>6 DEF s, r, t

LEMMA LeastIs ==
  ASSUME NEW a \in Nat, NEW b \in Nat
  PROVE  Least(a, b) \in Nat /\ Least(a, b) = Least(b, a) /\ Least(a, b) <= a /\ Least(a, b) <= b
BY DEF Least

LEMMA StringPuts ==
  ASSUME NEW p, NEW R \in Seq(Nat), Admitted(p), p.conv = "s", Known(p), args = ValueOf(p) \o R, String
  PROVE  out' = StandardPiece(p) /\ out' \in Seq(Alphabet) /\ args' = R /\ stored' = stored
<1> DEFINE S == Strings[p.value]
           n == IF p.precision = None THEN Len(S) ELSE Least(p.precision, Len(S))
           x == SubSeq(S, 1, n)
<1>1. /\ Asked(p) /\ p.value \in DOMAIN Strings
      /\ p.value = 0 => "0" \notin p.flags /\ p.precision = None /\ Strings[0] = NullText
  BY BasesAre DEF Admitted, NullText
<1>2. p.conv \notin DOMAIN Bases BY BasesAre
<1>3. p.value \in 0 .. IntMod - 1 BY <1>1, CharsAssumption
<1>4. Head(args) = p.value /\ Tail(args) = R BY <1>2, <1>3, OneWord
<1>5. S \in Seq(Chars) BY <1>1, CharsAssumption
<1>6. Wide(p) \in Nat /\ (p.precision # None => p.precision \in Nat) BY <1>1, AskedIs
<1>7. /\ width = Wide(p) /\ ("LEFT" \in flags <=> Left(p)) /\ ("PRECISION" \in flags <=> p.precision # None)
      /\ ("ZEROPAD" \in flags <=> "0" \in p.flags) /\ (p.precision # None => precision = p.precision)
  BY DEF Known, FlagsFit, CodePrecision
<1>8. /\ out' = IF Head(args) = 0 THEN OutRev(<<")", "l", "l", "u", "n", "(">>, width, flags)
                ELSE Field(IF "PRECISION" \in flags THEN SubSeq(Strings[Head(args)], 1, Least(Len(Strings[Head(args)]), precision))
                           ELSE Strings[Head(args)], width, flags)
      /\ args' = Tail(args) /\ stored' = stored
  BY DEF String
<1>9. StandardPiece(p) = InField(p, x) BY DEF StandardPiece
<1> HIDE DEF S
<1>10. Len(S) \in Nat /\ n \in Nat /\ n <= Len(S)
  <2>1. Len(S) \in Nat BY <1>5
  <2>2. p.precision # None => Least(p.precision, Len(S)) \in Nat /\ Least(p.precision, Len(S)) <= Len(S) BY <1>6, <2>1, LeastIs
  <2> QED BY <2>1, <2>2
<1>11. x \in Seq(Chars)
  <2> HIDE DEF n
  <2>1. n = 0 \/ n \in 1 .. Len(S) BY <1>10
  <2>2. x = [i \in 1 .. n |-> S[i]]
    <3>1. x = [i \in 1 .. (n - 1) + 1 |-> S[(i + 1) - 1]] BY <1>5, <1>10
    <3>2. (n - 1) + 1 = n /\ \A i \in 1 .. n : (i + 1) - 1 = i BY <1>10
    <3> QED BY <3>1, <3>2
  <2>3. \A i \in 1 .. n : S[i] \in Chars
    <3>1. \A i \in 1 .. n : i \in 1 .. Len(S) BY <1>10
    <3> QED BY <1>5, <3>1
  <2> HIDE DEF x
  <2> QED BY <1>10, <2>2, <2>3
<1>12. SubSeq(S, 1, Len(S)) = S BY <1>5, SubSeqFull
<1>13. Chars \subseteq Alphabet BY DEF Alphabet
<1>14. Spaced(x, Wide(p), flags) \in Seq(Alphabet)
  <2>1. x \in Seq(Alphabet) BY <1>11, <1>13
  <2> HIDE DEF x
  <2> QED BY <1>6, <2>1, SpacedType
<1>15. InField(p, x) = Spaced(x, Wide(p), flags)
  <2> HIDE DEF x
  <2> QED BY <1>7, InFieldIs
<1>16. CASE p.value # 0
  <2> DEFINE y == IF "PRECISION" \in flags THEN SubSeq(S, 1, Least(Len(S), precision)) ELSE S
  <2>1. out' = Field(y, width, flags) BY <1>4, <1>8, <1>16 DEF S
  <2>2. y = x
    <3>1. CASE p.precision = None BY <1>7, <1>12, <3>1
    <3>2. CASE p.precision # None
      <4>1. Least(Len(S), precision) = n BY <1>6, <1>7, <1>10, <3>2, LeastIs
      <4> HIDE DEF n
      <4> QED BY <1>7, <3>2, <4>1
    <3> QED BY <3>1, <3>2
  <2> HIDE DEF x, y
  <2>3. Field(y, width, flags) = Spaced(y, width, flags) BY FieldIs
  <2> QED BY <1>4, <1>7, <1>8, <1>9, <1>14, <1>15, <2>1, <2>2, <2>3
<1>17. CASE p.value = 0
  <2> DEFINE r == <<")", "l", "l", "u", "n", "(">>
  <2>1. out' = OutRev(r, width, flags) BY <1>4, <1>8, <1>17
  <2>2. r \in Seq(Chars) /\ Reverse(r) = NullText BY NullBackwards
  <2>3. x = NullText
    <3>1. S = NullText /\ p.precision = None BY <1>1, <1>17 DEF S
    <3> QED BY <1>12, <3>1
  <2>4. ~ZeroFill(flags) BY <1>1, <1>7, <1>17 DEF ZeroFill
  <2> HIDE DEF r, x
  <2>5. OutRev(r, width, flags) = Spaced(Reverse(r), width, flags) BY <1>6, <1>7, <2>2, <2>4, OutRevIs
  <2> QED BY <1>4, <1>7, <1>8, <1>9, <1>14, <1>15, <2>1, <2>2, <2>3, <2>5
<1> QED BY <1>16, <1>17

(* A pointer: its digits, with the zeros that its prefix leaves. *)
LEMMA PointerNumber ==
  ASSUME NEW p, p.value \in 1 .. IntMod - 1
  PROVE  /\ IsNumber(AsNumber(p)) /\ Amount(AsNumber(p)) = p.value /\ Radix(AsNumber(p)) = 16
         /\ Exact(AsNumber(p)) = PointerDigits /\ AsNumber(p).conv = "x"
         /\ Significant(AsNumber(p)) \in 1 .. PointerDigits
<1> DEFINE a == AsNumber(p)
           v == p.value
<1>1. IntMod \in Nat \ {0} /\ IntMod <= LongMod /\ LongMod \in Nat BY ModsAre
<1>2. PointerDigits \in Nat /\ IntMod <= Power(16)[PointerDigits] BY WidthAssumption
<1>3. a.conv = "x" /\ a.precision = PointerDigits /\ a.length = <<>> /\ a.value = v BY DEF AsNumber
<1>4. v \in Nat \ {0} /\ v < IntMod /\ v \in 0 .. IntMod - 1 BY <1>1
<1> HIDE DEF a, v
<1>5. a.precision # None BY <1>2, <1>3 DEF None
<1>6. Exact(a) = PointerDigits BY <1>3, <1>5 DEF Exact
<1>7. a.conv \in DOMAIN Bases /\ Radix(a) = 16 BY <1>3, BasesAre DEF Radix
<1>8. Given(a) = v
  <2>1. <<>> # <<"l">> /\ <<>> # <<"h", "h">> OBVIOUS
  <2>2. Modulus(a) = IntMod BY <1>3, <2>1, ModulusIs
  <2>3. ~Signed(a) BY <1>3 DEF Signed
  <2>4. Given(a) = v % IntMod BY <1>3, <2>2, <2>3 DEF Given
  <2>5. v % IntMod = v BY <1>1, <1>4, Within
  <2> QED BY <2>4, <2>5
<1>9. Amount(a) = v BY <1>4, <1>8 DEF Amount
<1>10. IsNumber(a) BY <1>1, <1>2, <1>3, <1>4, <1>7, <1>8, <1>9 DEF IsNumber
<1>11. Significant(a) \in 1 .. PointerDigits
  <2> DEFINE s == Significant(a)
  <2>1. DigitCount(v, 16, s) /\ s \in Nat /\ s >= 1 BY <1>4, <1>7, <1>9, <1>10, Counts
  <2> HIDE DEF s
  <2>2. ~(s > PointerDigits)
    <3> SUFFICES ASSUME s > PointerDigits PROVE FALSE OBVIOUS
    <3> DEFINE b == 16
               k == s - 1
    <3>1. k \in Nat /\ PointerDigits <= k /\ b \in Nat \ {0} BY <1>2, <2>1
    <3>2. Power(b)[k] <= v BY <2>1 DEF DigitCount
    <3>3. IntMod <= Power(b)[PointerDigits] BY <1>2
    <3> HIDE DEF b, k
    <3>4. Power(b)[PointerDigits] <= Power(b)[k] BY <1>2, <3>1, PowerGrows
    <3>5. Power(b)[PointerDigits] \in Nat /\ Power(b)[k] \in Nat BY <1>2, <3>1, PowerIs
    <3> QED BY <1>1, <1>4, <3>2, <3>3, <3>4, <3>5
  <2>3. s \in 1 .. PointerDigits BY <1>2, <2>1, <2>2
  <2> QED BY <2>3 DEF s
<1> QED BY <1>3, <1>6, <1>7, <1>9, <1>10, <1>11 DEF a, v

LEMMA PointerMade ==
  ASSUME NEW p, p.value \in 1 .. IntMod - 1, NEW f, "LEFT" \notin f, "PRECISION" \notin f, "UPPERCASE" \notin f,
         "PLUS" \notin f, "SPACE" \notin f, "ZEROPAD" \in f, "POINTER" \in f
  PROVE  /\ PrintInteger(p.value, FALSE, 16, 0, PointerDigits + 2, f) = <<"0", "x">> \o Figures(AsNumber(p))
         /\ <<"0", "x">> \o Figures(AsNumber(p)) \in Seq(Chars)
<1> DEFINE a == AsNumber(p)
           v == p.value
           d == Numeral(a)
           l == Significant(a)
           w == PointerDigits + 2
           z == w - l
           y == PointerDigits - l
           R == RadixText(16, f)
           N == FALSE
<1>1. /\ IsNumber(a) /\ Amount(a) = v /\ Radix(a) = 16
      /\ Exact(a) = PointerDigits /\ a.conv = "x"
      /\ l \in 1 .. PointerDigits
  BY PointerNumber
<1>2. PointerDigits \in Nat /\ w <= IntegerBuffer /\ IntegerBuffer \in Nat /\ w \in Nat BY WidthAssumption
<1>3. z \in Nat /\ y \in Nat /\ z = y + 2 /\ z > 0 /\ l \in Nat /\ l + z = w BY <1>1, <1>2
<1>4. /\ Figures(a) = Reverse(d \o Zeros(Over(PointerDigits, l)))
      /\ d \in Seq(Chars) /\ Len(d) = l
  <2>1. Amount(a) \in Nat /\ Radix(a) \in {2, 8, 10, 16} BY <1>1 DEF IsNumber
  <2> HIDE DEF a, l, d
  <2>2. l \in Nat /\ Exact(a) \in Nat BY <1>1, <1>3, <1>2
  <2> QED BY <1>1, <2>1, <2>2, FiguresAre DEF l, d
<1>5. Over(PointerDigits, l) = y BY <1>1, <1>2 DEF Over
<1>6. DigitsOf(v, 16, f) = d
  <2>1. DigitCount(v, 16, l) /\ v \in Nat \ {0} /\ 16 \in Nat \ {0}
    <3>1. v # 0 /\ v \in Nat
      <4>1. IntMod \in Nat BY ModsAre
      <4> QED BY <4>1
    <3>2. DigitCount(Amount(a), Radix(a), l) BY <1>1, <3>1, Counts
    <3> HIDE DEF a, v, l
    <3> QED BY <1>1, <3>1, <3>2
  <2> DEFINE b == 16
  <2>2. d = DigitsMade(v, b, "X" = "x", l) BY <1>1 DEF Numeral
  <2>3. ("X" = "x") = ("UPPERCASE" \in f) OBVIOUS
  <2>4. DigitCount(v, b, l) /\ v \in Nat \ {0} /\ b \in Nat \ {0} BY <2>1
  <2> HIDE DEF b, v, l, d
  <2>5. DigitsOf(v, b, f) = DigitsMade(v, b, "UPPERCASE" \in f, l) BY <2>4, DigitsOfIs
  <2>6. DigitsOf(v, b, f) = d BY <2>2, <2>3, <2>5
  <2> QED BY <2>6 DEF b
<1>7. PrintInteger(v, N, 16, 0, w, f) = Finalized(d, N, 16, 0, w, f)
  <2>1. v # 0 OBVIOUS
  <2> HIDE DEF d, v, w, N
  <2>2. (IF v # 0 THEN DigitsOf(v, 16, f) ELSE IF "PRECISION" \notin f THEN <<"0">> ELSE <<>>) = d BY <1>6, <2>1
  <2>3. (IF v = 0 /\ ("PRECISION" \notin f \/ 16 = 16) THEN f \ {"HASH"} ELSE f) = f BY <2>1
  <2> QED BY <2>2, <2>3 DEF PrintInteger
<1> DEFINE pd == d \o Zeros(z)
           cut == d \o Zeros(y)
<1>8. Sign(N, f) = <<>>
  BY DEF Sign
<1>9. SignRoom(N, w, f) = w BY <1>8 DEF SignRoom
<1> HIDE DEF N
<1>10. LeadingZeros(d, 0, w, f) = pd /\ pd \in Seq(Chars) /\ Len(pd) = w
  <2> HIDE DEF d, l, w, z
  <2>1. Over(w, l) = z
    <3>1. w > l /\ w - l = z BY <1>2, <1>3
    <3> QED BY <3>1 DEF Over
  <2>2. Filled(d, w) = d \o Zeros(Over(w, Len(d))) /\ Filled(d, w) \in Seq(Chars) /\ Len(Filled(d, w)) = Len(d) + Over(w, Len(d))
    BY <1>2, <1>4, FilledIs
  <2>3. Filled(d, w) = pd /\ pd \in Seq(Chars) /\ Len(pd) = w BY <1>3, <1>4, <2>1, <2>2
  <2>4. Filled(pd, 0) = pd
    <3>1. ~(0 > Len(pd)) BY <1>2, <2>3
    <3> QED BY <3>1 DEF Filled
  <2>5. LeadingZeros(d, 0, w, f) = Filled(Filled(d, w), 0) BY DEF LeadingZeros
  <2> QED BY <2>3, <2>4, <2>5
<1>11. WithoutPadding(pd, l, 16, 0, w, f) = cut
  <2> DEFINE b == 16
             q == 0
  <2>1. b \in {2, 16} OBVIOUS
  <2>4. d \in Seq(Chars) BY <1>4
  <2>5. z \in Nat BY <1>3
  <2> HIDE DEF b, q, d, l, z, y, w, pd, cut, R
  <2>2. WithoutPadding(d \o Zeros(z), Len(d), b, q, Len(d) + z, f) = d \o Zeros(Over(z, 2)) BY <2>1, <2>4, <2>5, TwoTaken
  <2>3. Over(z, 2) = y BY <1>3 DEF Over
  <2> QED BY <1>3, <1>4, <2>2, <2>3 DEF b, q, pd, cut
<1>12. cut \in Seq(Chars) /\ Len(cut) = PointerDigits
  <2>1. Zeros(y) \in Seq(Chars) /\ Len(Zeros(y)) = y BY <1>3, ZerosAre
  <2>2. l + y = PointerDigits BY <1>2, <1>3
  <2> HIDE DEF y, d, l
  <2>3. cut \in Seq(Chars) /\ Len(cut) = Len(d) + Len(Zeros(y)) BY <1>4, <2>1, Joins
  <2> QED BY <1>4, <2>1, <2>2, <2>3
<1>13. R \in Seq(Chars) /\ R = <<"0", "x">>
  <2>1. RadixLetter(16, f) = "x" BY DEF RadixLetter
  <2>2. R = <<"0">> \o <<"x">> BY <2>1 DEF RadixText
  <2>3. <<"0">> \o <<"x">> = <<"0", "x">> BY TwoJoined
  <2>4. R \in Seq(Chars) BY RadixTextIs
  <2> QED BY <2>2, <2>3, <2>4
<1> DEFINE b2 == cut \o Reverse(R)
<1>14. Prefixed(cut, 16, f) = b2
  <2> DEFINE b == 16
  <2>1. b \in {2, 8, 16} /\ RadixRoom(b) = 2 BY DEF RadixRoom
  <2>2. Len(cut) + RadixRoom(b) <= IntegerBuffer BY <1>2, <1>12, <2>1
  <2>3. R = RadixText(b, f) OBVIOUS
  <2> HIDE DEF b, cut, R
  <2>5. cut \in Seq(Chars) BY <1>12
  <2>4. Prefixed(cut, b, f) = cut \o Reverse(RadixText(b, f)) BY <2>1, <2>2, <2>5, PrefixedIs, SMTT(60)
  <2> QED BY <2>3, <2>4 DEF b
<1>15. b2 \in Seq(Chars) /\ Reverse(b2) = R \o Reverse(cut)
  <2> HIDE DEF cut, R
  <2> QED BY <1>12, <1>13, ReverseBehind
<1>16. Adding(b2, <<>>) = b2
  <2> HIDE DEF b2
  <2>1. b2 \o <<>> = b2 BY <1>15, ConcatEmptySeq
  <2>2. <<>> \in Seq(Chars) OBVIOUS
  <2>3. Adding(b2, <<>>) = b2 \o <<>> BY <1>15, <2>2, AddingIs
  <2> QED BY <2>1, <2>3
<1>17. Finalized(d, N, 16, 0, w, f) = OutRev(b2, w, f)
  <2> HIDE DEF b2, pd, cut, d, w, l
  <2>1. Len(d) = l BY <1>4
  <2> QED BY <1>8, <1>9, <1>10, <1>11, <1>14, <1>16, <2>1 DEF Finalized
<1>18. OutRev(b2, w, f) = Reverse(b2)
  <2>1. ZeroFill(f) BY DEF ZeroFill
  <2> HIDE DEF b2, w
  <2> QED BY <1>2, <1>15, <2>1, OutRevIs
<1>19. Reverse(cut) = Figures(a) /\ Reverse(cut) \in Seq(Chars)
  <2>1. Reverse(cut) = Figures(a) BY <1>4, <1>5
  <2> HIDE DEF cut
  <2>2. Reverse(cut) \in Seq(Chars) BY <1>12, Backwards
  <2> QED BY <2>1, <2>2
<1> HIDE DEF cut, b2, R, d, w, a
<1>20. PrintInteger(v, N, 16, 0, w, f) = R \o Figures(a) BY <1>7, <1>15, <1>17, <1>18, <1>19
<1>21. R \o Figures(a) \in Seq(Chars) BY <1>13, <1>19, Joins
<1> QED BY <1>13, <1>20, <1>21 DEF N, w, a

LEMMA NilBackwards ==
  LET r == <<")", "l", "i", "n", "(">>
  IN  r \in Seq(Chars) /\ Reverse(r) = <<"(", "n", "i", "l", ")">> /\ <<"(", "n", "i", "l", ")">> \in Seq(Chars)
<1>1. {"(", ")", "n", "i", "l"} \subseteq Chars BY CharsAssumption
<1> DEFINE r == <<")", "l", "i", "n", "(">>
           s == Reverse(r)
           t == <<"(", "n", "i", "l", ")">>
<1>2. r \in Seq(Chars) /\ Len(r) = 5 /\ t \in Seq(Chars) /\ Len(t) = 5 BY <1>1
<1>3. /\ r[1] = t[5] /\ r[2] = t[4] /\ r[3] = t[3] /\ r[4] = t[2] /\ r[5] = t[1] OBVIOUS
<1> HIDE DEF r, t
<1>4. s \in Seq(Chars) /\ Len(s) = 5 /\ \A i \in 1 .. 5 : s[i] = r[(5 - i) + 1]
  <2> DEFINE n == 5
  <2>1. Len(r) = n BY <1>2
  <2> HIDE DEF n
  <2>2. s \in Seq(Chars) /\ Len(s) = n /\ \A i \in 1 .. n : s[i] = r[(n - i) + 1] BY <1>2, <2>1, Backwards
  <2> QED BY <2>2 DEF n
<1>5. \A i \in 1 .. 5 : s[i] = t[i]
  <2>1. \A i \in 1 .. 5 : i = 1 \/ i = 2 \/ i = 3 \/ i = 4 \/ i = 5 OBVIOUS
  <2>2. (5 - 1) + 1 = 5 /\ (5 - 2) + 1 = 4 /\ (5 - 3) + 1 = 3 /\ (5 - 4) + 1 = 2 /\ (5 - 5) + 1 = 1 OBVIOUS
  <2> HIDE DEF s
  <2> QED BY <1>3, <1>4, <2>1, <2>2
<1> HIDE DEF s
<1>6. s = t BY <1>2, <1>4, <1>5, SeqEqual
<1> QED BY <1>2, <1>6 DEF s, r, t

LEMMA PointerPuts ==
  ASSUME NEW p, NEW R \in Seq(Nat), Admitted(p), p.conv = "p", Known(p), args = ValueOf(p) \o R, Pointer
  PROVE  out' = StandardPiece(p) /\ out' \in Seq(Alphabet) /\ args' = R /\ stored' = stored
<1> DEFINE f == flags \cup {"ZEROPAD", "POINTER"}
           w == PointerDigits + 2
<1>1. Bare(p) /\ p.value \in 0 .. IntMod - 1 BY BasesAre DEF Admitted
<1>2. p.conv \notin DOMAIN Bases BY BasesAre
<1>3. Head(args) = p.value /\ Tail(args) = R BY <1>1, <1>2, OneWord
<1>4. /\ out' = IF Head(args) = 0 THEN OutRev(<<")", "l", "i", "n", "(">>, w, f)
                ELSE PrintInteger(Head(args), FALSE, 16, precision, w, f)
      /\ args' = Tail(args) /\ stored' = stored
  BY DEF Pointer
<1>5. precision = 0 /\ FlagsFit(p, flags) BY <1>1 DEF Known, CodePrecision, Bare
<1>6. /\ "LEFT" \notin f /\ "PRECISION" \notin f /\ "UPPERCASE" \notin f
      /\ "PLUS" \notin f /\ "SPACE" \notin f /\ "ZEROPAD" \in f /\ "POINTER" \in f
  BY <1>1, <1>5 DEF FlagsFit, Bare, Left
<1> HIDE DEF f
<1>7. Chars \subseteq Alphabet BY DEF Alphabet
<1>8. CASE p.value = 0
  <2> DEFINE r == <<")", "l", "i", "n", "(">>
             t == <<"(", "n", "i", "l", ")">>
  <2>1. r \in Seq(Chars) /\ Reverse(r) = t /\ t \in Seq(Chars) BY NilBackwards
  <2>2. out' = OutRev(r, w, f) BY <1>3, <1>4, <1>8
  <2>3. StandardPiece(p) = t BY <1>8 DEF StandardPiece
  <2>4. ZeroFill(f) BY <1>6 DEF ZeroFill
  <2>5. w \in Nat BY WidthAssumption
  <2> HIDE DEF r, t, w
  <2>6. OutRev(r, w, f) = Reverse(r) BY <2>1, <2>4, <2>5, OutRevIs
  <2>7. t \in Seq(Alphabet) BY <1>7, <2>1
  <2> QED BY <1>3, <1>4, <2>1, <2>2, <2>3, <2>6, <2>7
<1>9. CASE p.value # 0
  <2> DEFINE t == <<"0", "x">> \o Figures(AsNumber(p))
  <2>1. p.value \in 1 .. IntMod - 1
    <3>1. IntMod \in Nat BY ModsAre
    <3> QED BY <1>1, <1>9, <3>1
  <2>2. PrintInteger(p.value, FALSE, 16, 0, w, f) = t /\ t \in Seq(Chars) BY <1>6, <2>1, PointerMade
  <2>3. StandardPiece(p) = t BY <1>9 DEF StandardPiece
  <2> HIDE DEF t, w
  <2>4. out' = t BY <1>3, <1>4, <1>5, <1>9, <2>2
  <2>5. t \in Seq(Alphabet) BY <1>7, <2>2
  <2> QED BY <1>3, <1>4, <2>3, <2>4, <2>5
<1> QED BY <1>8, <1>9

LEMMA PercentPuts ==
  ASSUME NEW p, p.conv = "%", Percent
  PROVE  out' = StandardPiece(p) /\ out' \in Seq(Alphabet) /\ args' = args /\ stored' = stored
<1>1. out' = <<"%">> /\ args' = args /\ stored' = stored BY DEF Percent
<1>2. StandardPiece(p) = <<"%">> BY DEF StandardPiece
<1>3. "%" \in Alphabet BY CharsAssumption DEF Alphabet
<1>4. <<"%">> \in Seq(Alphabet) BY <1>3
<1> QED BY <1>1, <1>2, <1>4

LEMMA CountPuts ==
  ASSUME NEW p, NEW R \in Seq(Nat), Admitted(p), p.conv = "n", Known(p), args = ValueOf(p) \o R, Count,
         pos \in Nat, pos < Modulus(p)
  PROVE  out' = out /\ StandardPiece(p) = <<>> /\ args' = R /\ stored' = Append(stored, <<p.value, pos>>)
<1>1. p.value \in 0 .. IntMod - 1 /\ p.length \in Lengths BY BasesAre DEF Admitted, Lengths, Bare
<1>2. p.conv \notin DOMAIN Bases BY BasesAre
<1>3. Head(args) = p.value /\ Tail(args) = R BY <1>1, <1>2, OneWord
<1>4. /\ out' = out /\ args' = Tail(args) /\ stored' = Append(stored, <<Head(args), CountStored>>)
  BY DEF Count
<1>5. /\ "LONG" \in flags <=> p.length = <<"l">>
      /\ "SHORT" \in flags <=> p.length \in {<<"h">>, <<"h", "h">>}
      /\ "CHAR" \in flags <=> p.length = <<"h", "h">>
  BY DEF Known, FlagsFit
<1> DEFINE M == Modulus(p)
<1>6. CountStored = pos % M
  <2> DEFINE long == <<"l">>
             char == <<"h", "h">>
             short == <<"h">>
  <2>1. long # char /\ long # short /\ long # <<>> /\ char # <<>> OBVIOUS
  <2>2. /\ p.length = long => M = LongMod
        /\ p.length = char => M = CharMod
        /\ p.length # long /\ p.length # char => M = IntMod
    BY ModulusIs
  <2> HIDE DEF M
  <2>3. CASE p.length = char
    <3>1. "CHAR" \in flags BY <1>5, <2>3
    <3>2. CountStored = pos % CharMod BY <3>1 DEF CountStored
    <3> QED BY <2>2, <2>3, <3>2
  <2>4. CASE p.length = long
    <3>1. "CHAR" \notin flags /\ "LONG" \in flags /\ "SHORT" \notin flags BY <1>5, <2>1, <2>4
    <3>2. {"SHORT", "LONG"} \cap flags = {"LONG"} BY <3>1
    <3>3. CountStored = pos % LongMod BY <3>1, <3>2 DEF CountStored
    <3> QED BY <2>2, <2>4, <3>3
  <2>5. CASE p.length # char /\ p.length # long
    <3>1. "CHAR" \notin flags /\ "LONG" \notin flags BY <1>5, <2>5
    <3>2. {"SHORT", "LONG"} \cap flags # {"LONG"} BY <3>1
    <3>3. CountStored = pos % IntMod BY <3>1, <3>2 DEF CountStored
    <3> QED BY <2>2, <2>5, <3>3
  <2> QED BY <2>3, <2>4, <2>5
<1>7. pos % M = pos
  <2>1. M \in Nat \ {0} BY ModulusIs
  <2>2. pos < M OBVIOUS
  <2> HIDE DEF M
  <2>3. pos \in 0 .. M - 1 BY <2>1, <2>2
  <2> QED BY <2>1, <2>3, Within
<1>8. StandardPiece(p) = <<>> BY DEF StandardPiece
<1> QED BY <1>3, <1>4, <1>6, <1>7, <1>8

(* What the standard asks for are characters. *)
NumberFlagsOf(p) ==
  (IF p.conv = "X" THEN {"UPPERCASE"} ELSE {}) \cup (IF Left(p) THEN {"LEFT"} ELSE {})
  \cup (IF "0" \in p.flags /\ p.precision = None THEN {"ZEROPAD"} ELSE {})
  \cup (IF p.precision # None THEN {"PRECISION"} ELSE {})
  \cup (IF Alternative(p) /\ Radix(p) # 10 THEN {"HASH"} ELSE {})
  \cup (IF Signed(p) /\ "+" \in p.flags THEN {"PLUS"} ELSE {})
  \cup (IF Signed(p) /\ Space \in p.flags THEN {"SPACE"} ELSE {})

LEMMA StandardType ==
  ASSUME NEW p, Admitted(p), Fits(p)
  PROVE  StandardPiece(p) \in Seq(Alphabet)
<1>1. Chars \subseteq Alphabet BY DEF Alphabet
<1>2. CASE p.conv = "plain"
  <2>1. p.char \in Chars BY <1>2, PlainTextIs
  <2>2. StandardPiece(p) = <<p.char>> BY <1>2 DEF StandardPiece
  <2>3. p.char \in Alphabet BY <1>1, <2>1
  <2> QED BY <2>2, <2>3
<1>3. CASE p.conv = "%"
  <2>1. StandardPiece(p) = <<"%">> BY <1>3 DEF StandardPiece
  <2>2. "%" \in Alphabet BY CharsAssumption DEF Alphabet
  <2> QED BY <2>1, <2>2
<1>4. CASE p.conv = "n"
  <2>1. StandardPiece(p) = <<>> BY <1>4 DEF StandardPiece
  <2> QED BY <2>1
<1>5. ASSUME NEW s \in Seq(Alphabet), Asked(p) PROVE InField(p, s) \in Seq(Alphabet)
  <2> DEFINE f == IF Left(p) THEN {"LEFT"} ELSE {}
  <2>1. "LEFT" \in f <=> Left(p) OBVIOUS
  <2>2. Wide(p) \in Nat BY <1>5, AskedIs
  <2> HIDE DEF f
  <2>3. InField(p, s) = Spaced(s, Wide(p), f) BY <2>1, InFieldIs
  <2> QED BY <2>2, <2>3, SpacedType
<1>6. CASE p.conv = "c"
  <2>1. Asked(p) /\ p.value \in 0 .. CharMod - 1 BY <1>6, BasesAre DEF Admitted
  <2>2. Characters[p.value] \in Alphabet BY <2>1, CharsAssumption DEF Alphabet
  <2> DEFINE s == <<Characters[p.value]>>
  <2>3. s \in Seq(Alphabet) BY <2>2
  <2>4. StandardPiece(p) = InField(p, s) BY <1>6 DEF StandardPiece
  <2> HIDE DEF s
  <2> QED BY <1>5, <2>1, <2>3, <2>4
<1>7. CASE p.conv = "s"
  <2> DEFINE S == Strings[p.value]
             n == IF p.precision = None THEN Len(S) ELSE Least(p.precision, Len(S))
             x == SubSeq(S, 1, n)
  <2>1. Asked(p) /\ p.value \in DOMAIN Strings BY <1>7, BasesAre DEF Admitted
  <2>2. S \in Seq(Chars) BY <2>1, CharsAssumption
  <2>3. StandardPiece(p) = InField(p, x) BY <1>7 DEF StandardPiece
  <2> HIDE DEF S
  <2>4. n \in Nat /\ n <= Len(S)
    <3>1. Len(S) \in Nat BY <2>2
    <3>2. p.precision # None => p.precision \in Nat BY <2>1, AskedIs
    <3>3. p.precision # None => Least(p.precision, Len(S)) \in Nat /\ Least(p.precision, Len(S)) <= Len(S)
      BY <3>1, <3>2, LeastIs
    <3> QED BY <3>1, <3>3
  <2>5. S \in Seq(Alphabet) BY <1>1, <2>2
  <2> HIDE DEF n
  <2>6. x \in Seq(Alphabet)
    <3>1. \A i \in 1 .. n : i \in 1 .. Len(S) BY <2>4, <2>5
    <3>2. \A i \in 1 .. n : S[i] \in Alphabet BY <2>5, <3>1
    <3>3. x = [i \in 1 .. n |-> S[i]]
      <4>1. x = [i \in 1 .. (n - 1) + 1 |-> S[(i + 1) - 1]] BY <2>4, <2>5
      <4>2. (n - 1) + 1 = n /\ \A i \in 1 .. n : (i + 1) - 1 = i BY <2>4
      <4> QED BY <4>1, <4>2
    <3> HIDE DEF x
    <3> QED BY <2>4, <3>2, <3>3
  <2> HIDE DEF x
  <2> QED BY <1>5, <2>1, <2>3, <2>6
<1>8. CASE p.conv = "p"
  <2>1. p.value \in 0 .. IntMod - 1 BY <1>8, BasesAre DEF Admitted
  <2>2. CASE p.value = 0
    <3> DEFINE t == <<"(", "n", "i", "l", ")">>
    <3>1. StandardPiece(p) = t BY <1>8, <2>2 DEF StandardPiece
    <3>2. t \in Seq(Chars) BY NilBackwards
    <3> HIDE DEF t
    <3> QED BY <1>1, <3>1, <3>2
  <2>3. CASE p.value # 0
    <3> DEFINE t == <<"0", "x">> \o Figures(AsNumber(p))
               f == {"ZEROPAD", "POINTER"}
    <3>1. p.value \in 1 .. IntMod - 1
      <4>1. IntMod \in Nat BY ModsAre
      <4> QED BY <2>1, <2>3, <4>1
    <3>2. StandardPiece(p) = t BY <1>8, <2>3 DEF StandardPiece
    <3>4. /\ "LEFT" \notin f /\ "PRECISION" \notin f /\ "UPPERCASE" \notin f
          /\ "PLUS" \notin f /\ "SPACE" \notin f /\ "ZEROPAD" \in f /\ "POINTER" \in f
      OBVIOUS
    <3> HIDE DEF f
    <3>3. t \in Seq(Chars) BY <3>1, <3>4, PointerMade
    <3> HIDE DEF t
    <3> QED BY <1>1, <3>2, <3>3
  <2> QED BY <2>2, <2>3
<1>9. CASE p.conv \in DOMAIN Bases
  <2>1. StandardPiece(p) = IntegerText(p) BY <1>9, BasesAre DEF StandardPiece
  <2>2. Asked(p)
    <3>1. p.conv # "plain" BY <1>9, BasesAre
    <3> QED BY <3>1, AdmittedIs
  <2>3. p.value \in Int BY <1>9, BasesAre DEF Admitted
  <2>4. Wide(p) \in Nat /\ (p.precision # None => p.precision \in Nat) BY <2>2, AskedIs
  <2>5. IsNumber(p) /\ (Amount(p) = 0 <=> Given(p) = 0) /\ (~Signed(p) => Given(p) >= 0) BY <1>9, <2>3, <2>4, NumberIs
  <2> DEFINE g == NumberFlagsOf(p)
  <2>6. NumberFlags(p, g) BY DEF NumberFlags, NumberFlagsOf
  <2> HIDE DEF g
  <2>7. IntegerText(p) \in Seq(Chars) BY <2>4, <2>5, <2>6, IntegerMade
  <2> QED BY <1>1, <2>1, <2>7
<1>10. p.conv = "plain" \/ p.conv \in Convs
  <2>1. p.conv # "plain" => p.conv \in Convs BY AdmittedIs
  <2> QED BY <2>1
<1> QED BY <1>2, <1>3, <1>4, <1>6, <1>7, <1>8, <1>9, <1>10, BasesAre DEF Convs

(* Where the parts of a specifier begin that stands behind b characters. *)
WidthText(p)  == NumberText(p.width, p.star)
WidthAt(p, b) == b + 2 + Len(FlagText(p.flags))
PointAt(p, b) == WidthAt(p, b) + Len(WidthText(p))
LengthAt(p, b) == PointAt(p, b) + Len(PrecisionText(p))
ConvAt(p, b)  == LengthAt(p, b) + Len(p.length)

(* A piece's text in a memory. *)
Laid(m, p, b) ==
  /\ b + Len(PieceText(p)) < Len(m)
  /\ \A j \in 1 .. Len(PieceText(p)) : m[b + j] = PieceText(p)[j]
Placed(m, p, b) ==
  /\ WidthAt(p, b) \in Nat /\ PointAt(p, b) \in Nat /\ LengthAt(p, b) \in Nat /\ ConvAt(p, b) \in Nat
  /\ b + 2 <= WidthAt(p, b) /\ WidthAt(p, b) <= PointAt(p, b) /\ PointAt(p, b) <= LengthAt(p, b)
  /\ LengthAt(p, b) <= ConvAt(p, b) /\ ConvAt(p, b) < Len(m)
  /\ ConvAt(p, b) = b + Len(PieceText(p))
  /\ \A i \in b + 1 .. ConvAt(p, b) : m[i] # NUL
  /\ m[b + 1] = "%" /\ m[ConvAt(p, b)] = p.conv
  /\ \A i \in 1 .. Len(FlagText(p.flags)) : m[(b + 1) + i] = FlagText(p.flags)[i]
  /\ \A i \in 1 .. Len(WidthText(p)) : m[(WidthAt(p, b) - 1) + i] = WidthText(p)[i]
  /\ \A i \in 1 .. Len(PrecisionText(p)) : m[(PointAt(p, b) - 1) + i] = PrecisionText(p)[i]
  /\ \A i \in 1 .. Len(p.length) : m[(LengthAt(p, b) - 1) + i] = p.length[i]

LEMMA PlacesAre ==
  ASSUME NEW m \in Seq(Alphabet), NEW p, NEW b \in Nat, Admitted(p), p.conv # "plain", Laid(m, p, b)
  PROVE  Placed(m, p, b)
<1> DEFINE a == FlagText(p.flags)
           w == WidthText(p)
           c == PrecisionText(p)
           d == p.length
           t == PieceText(p)
           la == Len(a)
           lb == Len(w)
           lc == Len(c)
           ld == Len(d)
<1>1. /\ t \in Seq(Chars) /\ Parts5(t, "%", a, w, c, d, p.conv)
      /\ a \in Seq(Chars) /\ w \in Seq(Chars) /\ c \in Seq(Chars) /\ d \in Seq(Chars)
  BY SpecTextIs, AdmittedIs DEF SpecParts, WidthText
<1>2. /\ b + Len(t) < Len(m) /\ \A j \in 1 .. Len(t) : m[b + j] = t[j] BY DEF Laid
<1>3. /\ WidthAt(p, b) = b + 2 + la /\ PointAt(p, b) = WidthAt(p, b) + lb
      /\ LengthAt(p, b) = PointAt(p, b) + lc /\ ConvAt(p, b) = LengthAt(p, b) + ld
  BY DEF WidthAt, PointAt, LengthAt, ConvAt
<1>4. la \in Nat /\ lb \in Nat /\ lc \in Nat /\ ld \in Nat /\ Len(m) \in Nat BY <1>1
<1>5. /\ Len(t) = 2 + la + lb + lc + ld /\ t[1] = "%"
      /\ \A i \in 1 .. la : t[1 + i] = a[i]
      /\ \A i \in 1 .. lb : t[1 + la + i] = w[i]
      /\ \A i \in 1 .. lc : t[1 + la + lb + i] = c[i]
      /\ \A i \in 1 .. ld : t[1 + la + lb + lc + i] = d[i]
      /\ t[2 + la + lb + lc + ld] = p.conv
  BY <1>1 DEF Parts5
<1> HIDE DEF a, w, c, d, t, la, lb, lc, ld
<1>6. /\ WidthAt(p, b) \in Nat /\ PointAt(p, b) \in Nat /\ LengthAt(p, b) \in Nat /\ ConvAt(p, b) \in Nat
      /\ b + 2 <= WidthAt(p, b) /\ WidthAt(p, b) <= PointAt(p, b) /\ PointAt(p, b) <= LengthAt(p, b)
      /\ LengthAt(p, b) <= ConvAt(p, b) /\ ConvAt(p, b) < Len(m)
      /\ ConvAt(p, b) = b + Len(t)
  BY <1>2, <1>3, <1>4, <1>5
<1>7. m[b + 1] = "%"
  <2>1. 1 \in 1 .. Len(t) BY <1>4, <1>5
  <2> QED BY <1>2, <1>5, <2>1
<1>8. m[ConvAt(p, b)] = p.conv
  <2> DEFINE n == Len(t)
  <2>1. n \in 1 .. Len(t) BY <1>4, <1>5
  <2>2. m[b + n] = t[n] BY <1>2, <2>1
  <2>3. t[n] = p.conv BY <1>5
  <2> QED BY <1>6, <2>2, <2>3
<1>9. ASSUME NEW i \in b + 1 .. ConvAt(p, b) PROVE m[i] # NUL
  <2> DEFINE j == i - b
  <2>1. j \in 1 .. Len(t) /\ b + j = i BY <1>4, <1>5, <1>6
  <2> HIDE DEF j
  <2>2. m[i] = t[j] /\ t[j] \in Chars BY <1>1, <1>2, <2>1
  <2> QED BY <2>2, CharsAssumption
<1>10. ASSUME NEW i \in 1 .. la PROVE m[(b + 1) + i] = a[i]
  <2>1. 1 + i \in 1 .. Len(t) /\ b + (1 + i) = (b + 1) + i BY <1>4, <1>5
  <2>2. m[b + (1 + i)] = t[1 + i] BY <1>2, <2>1
  <2> QED BY <1>5, <2>1, <2>2
<1>11. ASSUME NEW i \in 1 .. lb PROVE m[(WidthAt(p, b) - 1) + i] = w[i]
  <2> DEFINE j == 1 + la + i
  <2>1. j \in 1 .. Len(t) /\ b + j = (WidthAt(p, b) - 1) + i BY <1>3, <1>4, <1>5
  <2>3. t[j] = w[i] BY <1>5
  <2> HIDE DEF j
  <2>2. m[b + j] = t[j] BY <1>2, <2>1
  <2> QED BY <2>1, <2>2, <2>3
<1>12. ASSUME NEW i \in 1 .. lc PROVE m[(PointAt(p, b) - 1) + i] = c[i]
  <2> DEFINE j == 1 + la + lb + i
  <2>1. j \in 1 .. Len(t) /\ b + j = (PointAt(p, b) - 1) + i BY <1>3, <1>4, <1>5
  <2>3. t[j] = c[i] BY <1>5
  <2> HIDE DEF j
  <2>2. m[b + j] = t[j] BY <1>2, <2>1
  <2> QED BY <2>1, <2>2, <2>3
<1>13. ASSUME NEW i \in 1 .. ld PROVE m[(LengthAt(p, b) - 1) + i] = d[i]
  <2> DEFINE j == 1 + la + lb + lc + i
  <2>1. j \in 1 .. Len(t) /\ b + j = (LengthAt(p, b) - 1) + i BY <1>3, <1>4, <1>5
  <2>3. t[j] = d[i] BY <1>5
  <2> HIDE DEF j
  <2>2. m[b + j] = t[j] BY <1>2, <2>1
  <2> QED BY <2>1, <2>2, <2>3
<1> QED BY <1>6, <1>7, <1>8, <1>9, <1>10, <1>11, <1>12, <1>13 DEF Placed, a, w, c, d, t, la, lb, lc, ld

(* Which characters may follow which part. *)
Enders == Convs \cup {"l", "h"}

LEMMA ClassesAre ==
  /\ \A c \in Enders : ~IsDigit(c) /\ c # "*" /\ c # "." /\ c \notin FlagSet
  /\ ~IsDigit(".") /\ "." # "*" /\ "." \notin FlagSet /\ "*" \notin FlagSet /\ "*" # "."
  /\ \A c \in FlagSet : IsDigit(c) => c = "0"
  /\ \A c : IsDigit(c) => c # "*" /\ c # "."
  /\ DOMAIN FlagChars = FlagSet
<1>1. Space \notin {"d", "i", "u", "x", "X", "o", "b", "c", "s", "p", "%", "n", "l", "h"}
  BY Zenon DEF Space
<1>2. Space \notin {"*", ".", "0", "1", "2", "3", "4", "5", "6", "7", "8", "9"} BY SpaceIs
<1>3. \A c : IsDigit(c) <=> c \in {"0", "1", "2", "3", "4", "5", "6", "7", "8", "9"}
  <2>1. /\ Digits[1] = "0" /\ Digits[2] = "1" /\ Digits[3] = "2" /\ Digits[4] = "3" /\ Digits[5] = "4"
        /\ Digits[6] = "5" /\ Digits[7] = "6" /\ Digits[8] = "7" /\ Digits[9] = "8" /\ Digits[10] = "9"
    BY DEF Digits
  <2>2. \A i : i \in 1 .. 10 <=> i \in {1, 2, 3, 4, 5, 6, 7, 8, 9, 10} OBVIOUS
  <2> QED BY <2>1, <2>2 DEF IsDigit
<1>4. DOMAIN FlagChars = FlagSet BY DEF FlagChars, FlagSet
<1> QED BY <1>1, <1>2, <1>3, <1>4 DEF Enders, Convs, FlagSet

LEMMA EndersFollow ==
  ASSUME NEW m, NEW p, NEW b \in Nat, Admitted(p), p.conv # "plain", Placed(m, p, b)
  PROVE  /\ m[LengthAt(p, b)] \in Enders
         /\ p.length = <<>> => m[LengthAt(p, b)] = p.conv
         /\ p.precision = None => PointAt(p, b) = LengthAt(p, b)
         /\ p.precision # None => m[PointAt(p, b)] = "."
         /\ p.width = None => WidthAt(p, b) = PointAt(p, b)
<1>1. p.conv \in Convs /\ p.length \in Lengths /\ Asked(p) BY AdmittedIs
<1>2. /\ LengthAt(p, b) \in Nat /\ PointAt(p, b) \in Nat /\ WidthAt(p, b) \in Nat
      /\ m[ConvAt(p, b)] = p.conv
      /\ \A i \in 1 .. Len(PrecisionText(p)) : m[(PointAt(p, b) - 1) + i] = PrecisionText(p)[i]
      /\ \A i \in 1 .. Len(p.length) : m[(LengthAt(p, b) - 1) + i] = p.length[i]
  BY DEF Placed
<1>3. /\ PointAt(p, b) = WidthAt(p, b) + Len(WidthText(p))
      /\ LengthAt(p, b) = PointAt(p, b) + Len(PrecisionText(p)) /\ ConvAt(p, b) = LengthAt(p, b) + Len(p.length)
  BY DEF PointAt, LengthAt, ConvAt
<1>4. p.length = <<>> => m[LengthAt(p, b)] = p.conv
  <2>1. Len(<<>>) = 0 OBVIOUS
  <2> QED BY <1>2, <1>3, <2>1
<1>5. m[LengthAt(p, b)] \in Enders
  <2>1. CASE p.length = <<>> BY <1>1, <1>4, <2>1 DEF Enders
  <2>2. CASE p.length # <<>>
    <3> DEFINE d == p.length
    <3>1. 1 \in 1 .. Len(d) /\ d[1] \in {"l", "h"} BY <1>1, <2>2 DEF Lengths
    <3>2. (LengthAt(p, b) - 1) + 1 = LengthAt(p, b) BY <1>2
    <3>3. m[LengthAt(p, b)] = d[1] BY <1>2, <3>1, <3>2
    <3> HIDE DEF d
    <3> QED BY <3>1, <3>3 DEF Enders
  <2> QED BY <2>1, <2>2
<1>6. p.precision = None => PointAt(p, b) = LengthAt(p, b)
  <2> SUFFICES ASSUME p.precision = None PROVE PointAt(p, b) = LengthAt(p, b) OBVIOUS
  <2>1. PrecisionText(p) = <<>> BY <1>1, PrecisionTextIs
  <2>2. Len(<<>>) = 0 OBVIOUS
  <2> QED BY <1>2, <1>3, <2>1, <2>2
<1>7. p.precision # None => m[PointAt(p, b)] = "."
  <2> SUFFICES ASSUME p.precision # None PROVE m[PointAt(p, b)] = "." OBVIOUS
  <2>1. /\ Len(PrecisionText(p)) = 1 + Len(PrecisionRest(p)) /\ PrecisionText(p)[1] = "."
        /\ PrecisionRest(p) \in Seq(Chars)
    BY <1>1, PrecisionTextIs
  <2>2. Len(PrecisionRest(p)) \in Nat BY <2>1
  <2>3. 1 \in 1 .. Len(PrecisionText(p)) BY <2>1, <2>2
  <2>4. (PointAt(p, b) - 1) + 1 = PointAt(p, b) BY <1>2
  <2>5. m[(PointAt(p, b) - 1) + 1] = PrecisionText(p)[1] BY <1>2, <2>3
  <2> QED BY <2>1, <2>4, <2>5
<1>8. p.width = None => WidthAt(p, b) = PointAt(p, b)
  <2> SUFFICES ASSUME p.width = None PROVE WidthAt(p, b) = PointAt(p, b) OBVIOUS
  <2>1. WidthText(p) = <<>> BY DEF WidthText, NumberText
  <2>2. Len(<<>>) = 0 OBVIOUS
  <2> QED BY <1>2, <1>3, <2>1, <2>2
<1> QED BY <1>4, <1>5, <1>6, <1>7, <1>8

(* atou_ reads the number that the numerals stand for. *)
NumberUpTo(i, l) ==
  CHOOSE f : f = [k \in 0 .. l |-> IF k = 0 THEN 0 ELSE (10 * f[k - 1] + DigitValue(format[i + k - 1])) % SizeMod]

LEMMA NumberRead ==
  ASSUME NEW n \in 0 .. 99, n < SizeMod, NEW i \in Nat, format \in Seq(Alphabet), i >= 1,
         i + Len(Numerals(n)) <= Len(format),
         \A j \in 1 .. Len(Numerals(n)) : format[(i - 1) + j] = Numerals(n)[j],
         ~IsDigit(format[i + Len(Numerals(n))])
  PROVE  RunEnd(i) = i + Len(Numerals(n)) /\ Number(i) = n
<1> DEFINE N == Numerals(n)
           l == Len(N)
           e == i + l
           r == RunEnd(i)
<1>1. /\ l \in {1, 2} /\ \A j \in 1 .. l : IsDigit(N[j])
      /\ l = 1 => n = DigitValue(N[1])
      /\ l = 2 => n = 10 * DigitValue(N[1]) + DigitValue(N[2])
  BY NumeralsAre
<1>2. \A c : IsDigit(c) => DigitValue(c) \in 0 .. 9
  <2> SUFFICES ASSUME NEW c, IsDigit(c) PROVE DigitValue(c) \in 0 .. 9 OBVIOUS
  <2>1. PICK j \in 1 .. 10 : c = Digits[j] BY DEF IsDigit
  <2> DEFINE d == j - 1
  <2>2. d \in 0 .. 9 /\ d + 1 = j OBVIOUS
  <2> HIDE DEF d
  <2>3. DigitValue(Digits[d + 1]) = d BY <2>2, ValueOfDigit
  <2> QED BY <2>1, <2>2, <2>3
<1>3. /\ \A j \in 1 .. l : format[(i - 1) + j] = N[j]
      /\ ~IsDigit(format[e]) /\ e <= Len(format)
  OBVIOUS
<1> HIDE DEF N, l, e, r
<1>4. e = i + l BY DEF e
<1>5. e \in Nat /\ i <= e BY <1>1, <1>4
<1>6. r \in i .. e /\ ~IsDigit(format[r])
  <2>1. RunEnd(i) \in i .. e /\ ~IsDigit(format[RunEnd(i)]) BY <1>3, <1>5, RunIs
  <2> QED BY <2>1 DEF r
<1>7. \A k \in i .. e - 1 : IsDigit(format[k])
  <2> SUFFICES ASSUME NEW k \in i .. e - 1 PROVE IsDigit(format[k]) OBVIOUS
  <2> DEFINE j == (k - i) + 1
  <2>1. j \in 1 .. l /\ (i - 1) + j = k BY <1>1, <1>4
  <2> HIDE DEF j
  <2> QED BY <1>1, <1>3, <2>1
<1>8. r = e
  <2> SUFFICES ASSUME r # e PROVE FALSE OBVIOUS
  <2>1. r \in i .. e - 1 BY <1>5, <1>6
  <2> QED BY <1>6, <1>7, <2>1
<1>9. r - i = l BY <1>1, <1>4, <1>8
<1>10. Number(i) = NumberUpTo(i, l)[l]
  <2> DEFINE M(q) == CHOOSE f : f = [k \in 0 .. q |-> IF k = 0 THEN 0 ELSE (10 * f[k - 1] + DigitValue(format[i + k - 1])) % SizeMod]
  <2>1. Number(i) = M(RunEnd(i) - i)[RunEnd(i) - i] BY DEF Number
  <2>2. RunEnd(i) - i = l BY <1>9 DEF r
  <2>3. Number(i) = M(l)[l] BY <2>1, <2>2, Zenon
  <2> QED BY <2>3 DEF NumberUpTo
<1> DEFINE d1 == DigitValue(N[1])
           d2 == DigitValue(N[2])
           u == d1 % SizeMod
           v == (10 * u + d2) % SizeMod
           g == [k \in 0 .. l |-> IF k = 0 THEN 0 ELSE IF k = 1 THEN u ELSE v]
           G(f) == f = [k \in 0 .. l |-> IF k = 0 THEN 0 ELSE (10 * f[k - 1] + DigitValue(format[i + k - 1])) % SizeMod]
<1>11. d1 \in 0 .. 9 /\ (l = 2 => d2 \in 0 .. 9)
  <2>1. 1 \in 1 .. l /\ (l = 2 => 2 \in 1 .. l) BY <1>1
  <2> QED BY <1>1, <1>2, <2>1
<1>12. SizeMod \in Nat \ {0} BY SizeAssumption
<1>13. format[i] = N[1] /\ (l = 2 => format[i + 1] = N[2])
  <2>1. 1 \in 1 .. l /\ (l = 2 => 2 \in 1 .. l) /\ (i - 1) + 1 = i /\ (i - 1) + 2 = i + 1 BY <1>1
  <2>2. format[(i - 1) + 1] = N[1] BY <1>3, <2>1
  <2>3. l = 2 => format[(i - 1) + 2] = N[2] BY <1>3, <2>1
  <2> QED BY <2>1, <2>2, <2>3
<1>14. ASSUME NEW f, f[0] = 0, f[1] = u, NEW k \in 1 .. l
       PROVE  (10 * f[k - 1] + DigitValue(format[i + k - 1])) % SizeMod = IF k = 1 THEN u ELSE v
  <2>1. CASE k = 1
    <3>1. k - 1 = 0 /\ i + k - 1 = i BY <2>1
    <3>2. DigitValue(format[i + k - 1]) = d1 BY <1>13, <3>1
    <3>3. 10 * f[k - 1] = 0 BY <1>14, <3>1
    <3>4. 0 + d1 = d1 BY <1>11
    <3> QED BY <2>1, <3>2, <3>3, <3>4
  <2>2. CASE k # 1
    <3>1. l = 2 /\ k = 2 /\ k - 1 = 1 /\ i + k - 1 = i + 1 BY <1>1, <2>2
    <3>2. DigitValue(format[i + k - 1]) = d2 BY <1>13, <3>1
    <3>3. f[k - 1] = u BY <1>14, <3>1
    <3> HIDE DEF u, d2
    <3> QED BY <2>2, <3>2, <3>3
  <2> QED BY <2>1, <2>2
<1>15. 0 \in 0 .. l /\ 1 \in 0 .. l /\ l \in 1 .. l /\ l \in 0 .. l BY <1>1
<1>16. g[0] = 0 /\ g[1] = u BY <1>15
<1>17. G(g)
  <2>1. ASSUME NEW k \in 0 .. l, k # 0
        PROVE  g[k] = (10 * g[k - 1] + DigitValue(format[i + k - 1])) % SizeMod
    <3>1. k \in 1 .. l BY <1>1, <2>1
    <3>2. g[k] = IF k = 1 THEN u ELSE v BY <2>1
    <3> HIDE DEF g, u, v
    <3> QED BY <1>14, <1>16, <3>1, <3>2
  <2>2. g[0] = 0 BY <1>16
  <2>3. g = [k \in 0 .. l |-> g[k]] OBVIOUS
  <2> HIDE DEF g
  <2>4. \A k \in 0 .. l : g[k] = IF k = 0 THEN 0 ELSE (10 * g[k - 1] + DigitValue(format[i + k - 1])) % SizeMod
    BY <2>1, <2>2
  <2> QED BY <2>3, <2>4
<1> DEFINE h == NumberUpTo(i, l)
<1>18. G(h)
  <2> HIDE DEF g
  <2>1. \E f : G(f) BY <1>17
  <2>2. h = CHOOSE f : G(f) BY DEF NumberUpTo
  <2> HIDE DEF G, h
  <2> QED BY <2>1, <2>2
<1>19. /\ h[0] = 0
       /\ \A k \in 1 .. l : h[k] = (10 * h[k - 1] + DigitValue(format[i + k - 1])) % SizeMod
  <2> HIDE DEF h
  <2>1. \A k \in 0 .. l : h[k] = IF k = 0 THEN 0 ELSE (10 * h[k - 1] + DigitValue(format[i + k - 1])) % SizeMod
    BY <1>18
  <2>2. \A k \in 1 .. l : k \in 0 .. l /\ k # 0 BY <1>1
  <2> QED BY <1>15, <2>1, <2>2
<1> HIDE DEF h
<1>20. h[1] = u
  <2>1. 1 \in 1 .. l /\ 1 - 1 = 0 /\ i + 1 - 1 = i BY <1>1
  <2>2. h[1] = (10 * h[1 - 1] + DigitValue(format[i + 1 - 1])) % SizeMod BY <1>19, <2>1
  <2>3. DigitValue(format[i + 1 - 1]) = d1 BY <1>13, <2>1
  <2>4. 10 * h[1 - 1] = 0 BY <1>19, <2>1
  <2>5. 0 + d1 = d1 BY <1>11
  <2> QED BY <2>2, <2>3, <2>4, <2>5
<1>21. h[l] = IF l = 1 THEN u ELSE v
  <2>1. h[l] = (10 * h[l - 1] + DigitValue(format[i + l - 1])) % SizeMod BY <1>15, <1>19
  <2> HIDE DEF u, v
  <2> QED BY <1>14, <1>15, <1>19, <1>20, <2>1
<1>22. h[l] = n
  <2>1. CASE l = 1
    <3>0. n \in 0 .. SizeMod - 1 BY <1>12
    <3>3. n = d1 BY <1>1, <2>1
    <3>1. n = d1 /\ n \in 0 .. SizeMod - 1 BY <3>0, <3>3
    <3>2. SizeMod \in Nat \ {0} BY <1>12
    <3>4. n % SizeMod = n BY <3>1, <3>2, Within, SMTT(40)
    <3> QED BY <1>21, <2>1, <3>1, <3>4
  <2>2. CASE l = 2
    <3>1. n = 10 * d1 + d2 BY <1>1, <2>2
    <3> HIDE DEF d1, d2
    <3>2. d1 \in 0 .. SizeMod - 1 /\ n \in 0 .. SizeMod - 1 BY <1>11, <1>12, <2>2, <3>1, SMTT(40)
    <3>3. u = d1 BY <1>12, <3>2, Within
    <3>4. n % SizeMod = n BY <1>12, <3>2, Within
    <3> HIDE DEF u
    <3>5. v = n BY <3>1, <3>3, <3>4
    <3> QED BY <1>21, <2>2, <3>5
  <2> QED BY <1>1, <2>1, <2>2
<1>23. Number(i) = n BY <1>10, <1>22 DEF h
<1> QED BY <1>8, <1>23 DEF r, e, l, N

(* The words of a piece, in the order in which they are taken, before those *)
(* of the pieces behind it.                                                 *)
ValueWordsOf(p)    == IF p.conv = "%" THEN <<>> ELSE ValueOf(p)
FromValue(p, R)     == ValueWordsOf(p) \o R
FromPrecision(p, R) == StarWord(p.precision, p.star) \o FromValue(p, R)
FromWidth(p, R)     == StarWord(p.width, p.star) \o FromPrecision(p, R)

LEMMA StarWordIs ==
  ASSUME NEW n, NEW star \in BOOLEAN, n # None /\ star => n \in Int
  PROVE  /\ StarWord(n, star) \in Seq(Nat)
         /\ n # None /\ star => StarWord(n, star) = <<n % IntMod>> /\ n % IntMod \in Nat
         /\ ~(n # None /\ star) => StarWord(n, star) = <<>>
<1>1. IntMod \in Nat \ {0} BY ModsAre
<1>2. CASE n # None /\ star
  <2> DEFINE x == n % IntMod
  <2>1. x \in Nat BY <1>1, <1>2
  <2>2. StarWord(n, star) = <<x>> BY <1>2 DEF StarWord
  <2> HIDE DEF x
  <2>3. <<x>> \in Seq(Nat) BY <2>1
  <2> QED BY <1>2, <2>1, <2>2, <2>3 DEF x
<1>3. CASE ~(n # None /\ star)
  <2>1. StarWord(n, star) = <<>> BY <1>3 DEF StarWord
  <2>2. <<>> \in Seq(Nat) OBVIOUS
  <2> QED BY <1>3, <2>1, <2>2
<1> QED BY <1>2, <1>3

LEMMA BelowZero == ASSUME NEW m \in Nat \ {0}, NEW n \in Int, n < 0, 0 <= n + m PROVE n % m = n + m
<1> DEFINE k == -1
           x == n + m
           z == k * m
<1>1. z = -m OBVIOUS
<1>2. x \in 0 .. m - 1 /\ x = n + m OBVIOUS
<1>3. k \in Int OBVIOUS
<1> HIDE DEF x, z
<1>4. n = z + x BY <1>1, <1>2
<1> HIDE DEF k
<1>5. n = k * m + x BY <1>4 DEF z
<1>6. n % m = x BY <1>2, <1>3, <1>5, DivMod, ZenonT(40)
<1> QED BY <1>6 DEF x

(* What a star stands for is read back from its word. *)
LEMMA StarRead ==
  ASSUME NEW n, n \in ((IntMod \div 2) - IntMod) .. ((IntMod \div 2) - 1)
  PROVE  n \in Int /\ AsSigned(n % IntMod, IntMod) = n
<1> DEFINE M == IntMod
           h == M \div 2
<1>1. M \in Nat \ {0} BY ModsAre
<1>2. n \in (h - M) .. (h - 1) OBVIOUS
<1> HIDE DEF M
<1>3. h \in Nat /\ 2 * h <= M /\ M <= 2 * h + 1 BY <1>1
<1>4. \A x : AsSigned(x, M) = IF x >= h THEN x - M ELSE x BY DEF AsSigned
<1> HIDE DEF h
<1>5. n \in Int BY <1>1, <1>2, <1>3
<1>6. CASE n >= 0
  <2>1. n \in 0 .. M - 1 BY <1>1, <1>2, <1>3, <1>5, <1>6
  <2>2. n % M = n BY <1>1, <2>1, Within
  <2>3. ~(n >= h) BY <1>2, <1>3, <1>5
  <2>4. AsSigned(n % M, M) = n BY <1>4, <2>2, <2>3
  <2> QED BY <1>5, <2>4 DEF M
<1>7. CASE n < 0
  <2> DEFINE x == n + M
  <2>1. x >= h /\ x - M = n BY <1>1, <1>2, <1>3, <1>5, <1>7
  <2>2. n % M = x
    <3>1. 0 <= n + M BY <1>1, <1>2, <1>3, <1>5
    <3> QED BY <1>1, <1>5, <1>7, <3>1, BelowZero
  <2> HIDE DEF x
  <2>3. AsSigned(n % M, M) = n BY <1>4, <2>1, <2>2
  <2> QED BY <1>5, <2>3 DEF M
<1> QED BY <1>5, <1>6, <1>7

LEMMA StarsAre ==
  ASSUME NEW p, Asked(p)
  PROVE  /\ p.star \in BOOLEAN
         /\ p.width # None /\ p.star => p.width \in Int /\ AsSigned(p.width % IntMod, IntMod) = p.width
         /\ p.precision # None /\ p.star =>
              p.precision \in Nat /\ AsSigned(p.precision % IntMod, IntMod) = p.precision
         /\ p.width # None /\ ~p.star => p.width \in 1 .. 99 /\ p.width < SizeMod
         /\ p.precision # None /\ ~p.star => p.precision \in 0 .. 99 /\ p.precision < SizeMod
<1> DEFINE h == IntMod \div 2
<1>1. IntMod \in Nat \ {0} /\ h \in Nat /\ h <= IntMod
  <2>1. IntMod \in Nat \ {0} BY ModsAre
  <2> QED BY <2>1
<1>2. /\ p.star \in BOOLEAN
      /\ p.width # None => p.width \in IF p.star THEN h - IntMod .. h - 1 ELSE {n \in 1 .. 99 : n < SizeMod}
      /\ p.precision # None => p.precision \in IF p.star THEN 0 .. h - 1 ELSE {n \in 0 .. 99 : n < SizeMod}
  BY DEF Asked
<1>3. ASSUME p.width # None, p.star PROVE p.width \in Int /\ AsSigned(p.width % IntMod, IntMod) = p.width
  <2>1. p.width \in h - IntMod .. h - 1 BY <1>2, <1>3
  <2> QED BY <2>1, StarRead
<1>4. ASSUME p.precision # None, p.star
      PROVE  p.precision \in Nat /\ AsSigned(p.precision % IntMod, IntMod) = p.precision
  <2>1. p.precision \in 0 .. h - 1 BY <1>2, <1>4
  <2> DEFINE g == h - IntMod
  <2>2. g <= 0 /\ g \in Int BY <1>1
  <2>3. p.precision \in g .. h - 1
    <3> HIDE DEF g, h
    <3> QED BY <1>1, <2>1, <2>2
  <2>4. p.precision \in h - IntMod .. h - 1 BY <2>3
  <2>5. p.precision \in Nat BY <1>1, <2>1
  <2> QED BY <2>4, <2>5, StarRead
<1>5. p.width # None /\ ~p.star => p.width \in 1 .. 99 /\ p.width < SizeMod BY <1>2
<1>6. p.precision # None /\ ~p.star => p.precision \in 0 .. 99 /\ p.precision < SizeMod BY <1>2
<1> QED BY <1>2, <1>3, <1>4, <1>5, <1>6

LEMMA WordTypes ==
  ASSUME NEW p, Admitted(p), p.conv # "plain", NEW R \in Seq(Nat)
  PROVE  /\ ValueWordsOf(p) \in Seq(Nat) /\ FromValue(p, R) \in Seq(Nat)
         /\ FromPrecision(p, R) \in Seq(Nat) /\ FromWidth(p, R) \in Seq(Nat)
         /\ PieceWords(p) \in Seq(Nat) /\ PieceWords(p) \o R = FromWidth(p, R)
<1> DEFINE x == StarWord(p.width, p.star)
           y == StarWord(p.precision, p.star)
           v == ValueWordsOf(p)
<1>1. Asked(p) BY AdmittedIs
<1>2. x \in Seq(Nat) /\ y \in Seq(Nat)
  <2>1. /\ p.star \in BOOLEAN /\ (p.width # None /\ p.star => p.width \in Int)
        /\ (p.precision # None /\ p.star => p.precision \in Int)
    BY <1>1, StarsAre
  <2> QED BY <2>1, StarWordIs
<1>3. v \in Seq(Nat) /\ PieceWords(p) = (x \o y) \o v
  <2>1. CASE p.conv = "%"
    <3>1. Bare(p) BY <2>1, BasesAre DEF Admitted
    <3>2. x = <<>> /\ y = <<>> BY <3>1 DEF Bare, StarWord
    <3>3. PieceWords(p) = <<>> BY <2>1 DEF PieceWords
    <3>4. v = <<>> BY <2>1 DEF ValueWordsOf
    <3>5. (<<>> \o <<>>) \o <<>> = <<>> OBVIOUS
    <3>6. <<>> \in Seq(Nat) OBVIOUS
    <3> QED BY <3>2, <3>3, <3>4, <3>5, <3>6
  <2>2. CASE p.conv # "%"
    <3> DEFINE a == LowWord(p)
               e == HighWord(p)
    <3>1. p.value \in Int
      <4>1. IntMod \in Nat /\ CharMod \in Nat BY ModsAre
      <4>2. p.conv \in DOMAIN Bases => p.value \in Int BY BasesAre DEF Admitted
      <4>3. p.conv = "c" => p.value \in Int BY <4>1, BasesAre DEF Admitted
      <4>4. p.conv = "s" => p.value \in Int
        <5>1. p.conv = "s" => p.value \in DOMAIN Strings BY BasesAre DEF Admitted
        <5>2. DOMAIN Strings \subseteq Int BY <4>1, CharsAssumption
        <5> QED BY <5>1, <5>2
      <4>5. p.conv = "p" => p.value \in Int BY <4>1, BasesAre DEF Admitted
      <4>6. p.conv = "n" => p.value \in Int BY <4>1, BasesAre DEF Admitted
      <4>7. p.conv \in Convs BY AdmittedIs
      <4> QED BY <2>2, <4>2, <4>3, <4>4, <4>5, <4>6, <4>7, BasesAre DEF Convs
    <3>2. a \in Nat /\ e \in Nat
      <4>1. IntMod \in Nat BY ModsAre
      <4> QED BY <3>1, <4>1, WordsAre
    <3>3. PieceWords(p) = ((x \o y) \o <<a>>) \o (IF LongWords(p) THEN <<e>> ELSE <<>>)
      BY <2>2 DEF PieceWords, LowWord, HighWord, LongWords
    <3>4. v = IF LongWords(p) THEN <<a>> \o <<e>> ELSE <<a>> BY <2>2 DEF ValueWordsOf, ValueOf
    <3> HIDE DEF a, e, x, y, v
    <3>5. <<a>> \in Seq(Nat) /\ <<e>> \in Seq(Nat) /\ x \o y \in Seq(Nat)
      <4>1. <<a>> \in Seq(Nat) /\ <<e>> \in Seq(Nat) BY <3>2
      <4> QED BY <1>2, <4>1, Joins
    <3> DEFINE o == <<a>>
               q == <<e>>
               z == x \o y
    <3>6. CASE LongWords(p)
      <4>1. PieceWords(p) = (z \o o) \o q /\ v = o \o q BY <3>3, <3>4, <3>6
      <4> HIDE DEF o, q, z
      <4>2. o \in Seq(Nat) /\ q \in Seq(Nat) /\ z \in Seq(Nat) BY <3>5 DEF o, q, z
      <4>3. (z \o o) \o q = z \o (o \o q)  BY <4>2, WordsRegroup
      <4>4. o \o q \in Seq(Nat) BY <4>2, Joins
      <4> QED BY <4>1, <4>3, <4>4 DEF z
    <3>7. CASE ~LongWords(p)
      <4>1. PieceWords(p) = (z \o o) \o <<>> /\ v = o BY <3>3, <3>4, <3>7
      <4> HIDE DEF o, q, z
      <4>2. o \in Seq(Nat) /\ z \in Seq(Nat) BY <3>5 DEF o, z
      <4>3. z \o o \in Seq(Nat) BY <4>2, Joins
      <4>4. (z \o o) \o <<>> = z \o o BY <4>3, ConcatEmptySeq
      <4> QED BY <4>1, <4>2, <4>4 DEF z
    <3> QED BY <3>6, <3>7
  <2> QED BY <2>1, <2>2
<1>4. FromValue(p, R) = v \o R /\ FromPrecision(p, R) = y \o FromValue(p, R) /\ FromWidth(p, R) = x \o FromPrecision(p, R)
  BY DEF FromValue, FromPrecision, FromWidth
<1> HIDE DEF x, y, v
<1>5. FromValue(p, R) \in Seq(Nat) BY <1>3, <1>4, Joins
<1>6. FromPrecision(p, R) \in Seq(Nat) BY <1>2, <1>4, <1>5, Joins
<1>7. FromWidth(p, R) \in Seq(Nat) BY <1>2, <1>4, <1>6, Joins
<1>8. x \o y \in Seq(Nat) BY <1>2, Joins
<1>9. (x \o y) \o v \in Seq(Nat) BY <1>3, <1>8, Joins
<1>10. ((x \o y) \o v) \o R = (x \o y) \o (v \o R) BY <1>3, <1>8, WordsRegroup
<1>11. (x \o y) \o FromValue(p, R) = x \o (y \o FromValue(p, R)) BY <1>2, <1>5, WordsRegroup, ZenonT(40)
<1> QED BY <1>3, <1>4, <1>5, <1>6, <1>7, <1>9, <1>10, <1>11 DEF v

(* The flags of a piece as they are found. *)
FlagsOf(p)    == {FlagChars[c] : c \in p.flags}
LeftFlags(p)  == FlagsOf(p) \cup (IF p.width # None /\ p.width < 0 THEN {"LEFT"} ELSE {})
PointFlags(p) == LeftFlags(p) \cup (IF p.precision # None THEN {"PRECISION"} ELSE {})
AllFlags(p)   == PointFlags(p) \cup (IF p.length = <<"l">> THEN {"LONG"} ELSE {})
                 \cup (IF p.length \in {<<"h">>, <<"h", "h">>} THEN {"SHORT"} ELSE {})
                 \cup (IF p.length = <<"h", "h">> THEN {"CHAR"} ELSE {})

LEMMA FlagCharsAre ==
  /\ DOMAIN FlagChars = {"0", "-", "+", Space, "#"}
  /\ FlagChars["0"] = "ZEROPAD" /\ FlagChars["-"] = "LEFT" /\ FlagChars["+"] = "PLUS"
  /\ FlagChars[Space] = "SPACE" /\ FlagChars["#"] = "HASH"
<1>1. Space \notin {"0", "-", "+", "#"} BY SpaceIs
<1> QED BY <1>1 DEF FlagChars

LEMMA FlagsAre ==
  ASSUME NEW p, Asked(p)
  PROVE  FlagsFit(p, AllFlags(p))
<1>1. p.flags \subseteq {"#", "0", "-", Space, "+"} BY DEF Asked
<1> DEFINE F == FlagsOf(p)
<1>2. /\ "LEFT" \in F <=> "-" \in p.flags
      /\ "ZEROPAD" \in F <=> "0" \in p.flags
      /\ "PLUS" \in F <=> "+" \in p.flags
      /\ "SPACE" \in F <=> Space \in p.flags
      /\ "HASH" \in F <=> "#" \in p.flags
      /\ F \subseteq {"LEFT", "ZEROPAD", "PLUS", "SPACE", "HASH"}
  <2>1. \A c \in p.flags : FlagChars[c] \in {"LEFT", "ZEROPAD", "PLUS", "SPACE", "HASH"} BY <1>1, FlagCharsAre
  <2>2. /\ "LEFT" \in F <=> "-" \in p.flags
        /\ "ZEROPAD" \in F <=> "0" \in p.flags
        /\ "PLUS" \in F <=> "+" \in p.flags
        /\ "SPACE" \in F <=> Space \in p.flags
        /\ "HASH" \in F <=> "#" \in p.flags
    <3>1. Space \notin {"0", "-", "+", "#"} BY SpaceIs
    <3> QED BY <1>1, <3>1, FlagCharsAre DEF FlagsOf
  <2> QED BY <2>1, <2>2 DEF FlagsOf
<1> DEFINE long == <<"l">>
           short == <<"h">>
           char == <<"h", "h">>
<1>3. AllFlags(p) =
        F \cup (IF p.width # None /\ p.width < 0 THEN {"LEFT"} ELSE {})
          \cup (IF p.precision # None THEN {"PRECISION"} ELSE {})
          \cup (IF p.length = long THEN {"LONG"} ELSE {})
          \cup (IF p.length \in {short, char} THEN {"SHORT"} ELSE {})
          \cup (IF p.length = char THEN {"CHAR"} ELSE {})
  BY DEF AllFlags, PointFlags, LeftFlags
<1> DEFINE G == AllFlags(p)
           neg == p.width # None /\ p.width < 0
<1> HIDE DEF F, long, short, char
<1>4. "LEFT" \in G <=> Left(p)
  <2>1. Left(p) <=> ("-" \in p.flags \/ neg) BY DEF Left
  <2>2. G = F \cup (IF neg THEN {"LEFT"} ELSE {})
          \cup (IF p.precision # None THEN {"PRECISION"} ELSE {})
          \cup (IF p.length = long THEN {"LONG"} ELSE {})
          \cup (IF p.length \in {short, char} THEN {"SHORT"} ELSE {})
          \cup (IF p.length = char THEN {"CHAR"} ELSE {})
    BY <1>3
  <2> HIDE DEF neg, G
  <2> QED BY <1>2, <2>1, <2>2
<1> DEFINE L == IF neg THEN {"LEFT"} ELSE {}
<1>5. G = F \cup L
          \cup (IF p.precision # None THEN {"PRECISION"} ELSE {})
          \cup (IF p.length = long THEN {"LONG"} ELSE {})
          \cup (IF p.length \in {short, char} THEN {"SHORT"} ELSE {})
          \cup (IF p.length = char THEN {"CHAR"} ELSE {})
      /\ L \subseteq {"LEFT"}
  BY <1>3
<1> HIDE DEF L, G, neg
<1>6. "ZEROPAD" \in G <=> "0" \in p.flags BY <1>2, <1>5
<1>7. "PLUS" \in G <=> "+" \in p.flags BY <1>2, <1>5
<1>8. "SPACE" \in G <=> Space \in p.flags BY <1>2, <1>5
<1>9. "HASH" \in G <=> "#" \in p.flags BY <1>2, <1>5
<1>10. "PRECISION" \in G <=> p.precision # None BY <1>2, <1>5
<1>11. "LONG" \in G <=> p.length = long BY <1>2, <1>5
<1>12. "SHORT" \in G <=> p.length \in {short, char} BY <1>2, <1>5
<1>13. "CHAR" \in G <=> p.length = char BY <1>2, <1>5
<1>14. "LONG_LONG" \notin G /\ "POINTER" \notin G /\ "UPPERCASE" \notin G BY <1>2, <1>5
<1> QED BY <1>4, <1>6, <1>7, <1>8, <1>9, <1>10, <1>11, <1>12, <1>13, <1>14 DEF FlagsFit, G, long, short, char

(* The characters at which the parts of a specifier begin. *)
LEMMA PointStarts ==
  ASSUME NEW m, NEW p, NEW b \in Nat, Admitted(p), p.conv # "plain", Placed(m, p, b)
  PROVE  /\ ~IsDigit(m[PointAt(p, b)]) /\ m[PointAt(p, b)] # "*" /\ m[PointAt(p, b)] \notin FlagSet
         /\ m[PointAt(p, b)] = "." <=> p.precision # None
<1>1. /\ m[LengthAt(p, b)] \in Enders
      /\ p.precision = None => PointAt(p, b) = LengthAt(p, b)
      /\ p.precision # None => m[PointAt(p, b)] = "."
  BY EndersFollow
<1>2. CASE p.precision = None
  <2> DEFINE c == m[PointAt(p, b)]
  <2>1. c \in Enders BY <1>1, <1>2
  <2> HIDE DEF c
  <2>2. ~IsDigit(c) /\ c # "*" /\ c # "." /\ c \notin FlagSet BY <2>1, ClassesAre
  <2> QED BY <1>2, <2>2 DEF c
<1>3. CASE p.precision # None
  <2>1. m[PointAt(p, b)] = "." BY <1>1, <1>3
  <2> QED BY <1>3, <2>1, ClassesAre
<1> QED BY <1>2, <1>3

LEMMA WidthStarts ==
  ASSUME NEW m, NEW p, NEW b \in Nat, Admitted(p), p.conv # "plain", Placed(m, p, b)
  PROVE  /\ m[WidthAt(p, b)] \notin FlagSet
         /\ p.width = None => ~IsDigit(m[WidthAt(p, b)]) /\ m[WidthAt(p, b)] # "*"
         /\ p.width # None /\ p.star => m[WidthAt(p, b)] = "*" /\ PointAt(p, b) = WidthAt(p, b) + 1
         /\ p.width # None /\ ~p.star =>
              /\ IsDigit(m[WidthAt(p, b)]) /\ PointAt(p, b) = WidthAt(p, b) + Len(Numerals(p.width))
              /\ \A j \in 1 .. Len(Numerals(p.width)) : m[(WidthAt(p, b) - 1) + j] = Numerals(p.width)[j]
<1> DEFINE a == WidthAt(p, b)
           w == WidthText(p)
<1>1. Asked(p) BY AdmittedIs
<1>2. /\ p.star \in BOOLEAN /\ (p.width # None /\ ~p.star => p.width \in 1 .. 99) BY <1>1, StarsAre
<1>3. /\ p.width # None /\ p.star => w = <<"*">>
      /\ p.width # None /\ ~p.star => w = Numerals(p.width)
  <2>1. p.width # None /\ ~p.star => p.width \in 0 .. 99 BY <1>2
  <2> QED BY <1>2, <2>1, NumberTextIs DEF WidthText
<1>4. /\ a \in Nat /\ PointAt(p, b) = a + Len(w)
      /\ \A i \in 1 .. Len(w) : m[(a - 1) + i] = w[i]
  BY DEF Placed, PointAt
<1>5. p.width = None => a = PointAt(p, b) BY EndersFollow
<1> HIDE DEF a, w
<1>6. CASE p.width = None
  <2>1. m[a] = m[PointAt(p, b)] BY <1>5, <1>6
  <2>2. ~IsDigit(m[PointAt(p, b)]) /\ m[PointAt(p, b)] # "*" /\ m[PointAt(p, b)] \notin FlagSet BY PointStarts
  <2> QED BY <1>6, <2>1, <2>2 DEF a
<1>7. CASE p.width # None /\ p.star
  <2>1. Len(w) = 1 /\ w[1] = "*" BY <1>3, <1>7
  <2>2. (a - 1) + 1 = a /\ 1 \in 1 .. Len(w) BY <1>4, <2>1
  <2>3. m[a] = "*" BY <1>4, <2>1, <2>2
  <2>4. "*" \notin FlagSet BY ClassesAre
  <2> QED BY <1>4, <1>7, <2>1, <2>3, <2>4 DEF a
<1>8. CASE p.width # None /\ ~p.star
  <2> DEFINE n == p.width
             N == Numerals(n)
  <2>1. n \in 0 .. 99 /\ n # 0 BY <1>2, <1>8
  <2>2. Len(N) \in {1, 2} /\ (\A i \in 1 .. Len(N) : IsDigit(N[i])) /\ N[1] # "0" BY <2>1, NumeralsAre
  <2>3. w = N BY <1>3, <1>8
  <2> HIDE DEF N
  <2>4. 1 \in 1 .. Len(N) /\ (a - 1) + 1 = a BY <1>4, <2>2
  <2>5. m[a] = N[1] BY <1>4, <2>3, <2>4
  <2>6. IsDigit(N[1]) BY <2>2, <2>4
  <2>7. N[1] \notin FlagSet BY <2>2, <2>6, ClassesAre
  <2>8. PointAt(p, b) = a + Len(N) /\ \A i \in 1 .. Len(N) : m[(a - 1) + i] = N[i] BY <1>4, <2>3
  <2> QED BY <1>8, <2>5, <2>6, <2>7, <2>8 DEF a, N
<1> QED BY <1>6, <1>7, <1>8

LEMMA DigitsStart ==
  ASSUME NEW m, NEW p, NEW b \in Nat, Admitted(p), p.conv # "plain", Placed(m, p, b), p.precision # None
  PROVE  /\ PointAt(p, b) + 1 <= LengthAt(p, b)
         /\ ~p.star /\ p.precision = 0 => LengthAt(p, b) = PointAt(p, b) + 1
         /\ p.star => m[PointAt(p, b) + 1] = "*" /\ LengthAt(p, b) = PointAt(p, b) + 2
         /\ ~p.star /\ p.precision # 0 =>
              /\ IsDigit(m[PointAt(p, b) + 1]) /\ LengthAt(p, b) = PointAt(p, b) + 1 + Len(Numerals(p.precision))
              /\ \A j \in 1 .. Len(Numerals(p.precision)) :
                   m[PointAt(p, b) + j] = Numerals(p.precision)[j]
<1> DEFINE a == PointAt(p, b)
           t == PrecisionText(p)
           s == PrecisionRest(p)
<1>1. Asked(p) BY AdmittedIs
<1>2. /\ p.star \in BOOLEAN /\ (~p.star => p.precision \in 0 .. 99) BY <1>1, StarsAre
<1>3. /\ p.star => s = <<"*">>
      /\ ~p.star /\ p.precision = 0 => s = <<>>
      /\ ~p.star /\ p.precision # 0 => s = Numerals(p.precision)
  BY <1>2, NumberTextIs DEF PrecisionRest
<1>4. s \in Seq(Chars) /\ Len(t) = 1 + Len(s) /\ \A i \in 1 .. Len(s) : t[1 + i] = s[i] BY <1>1, PrecisionTextIs
<1>5. /\ a \in Nat /\ LengthAt(p, b) = a + Len(t)
      /\ \A i \in 1 .. Len(t) : m[(a - 1) + i] = t[i]
  BY DEF Placed, LengthAt
<1> HIDE DEF a, t, s
<1>6. Len(s) \in Nat BY <1>4
<1>7. LengthAt(p, b) = a + 1 + Len(s) BY <1>4, <1>5, <1>6
<1>8. ASSUME NEW i \in 1 .. Len(s) PROVE m[a + i] = s[i]
  <2> DEFINE j == 1 + i
  <2>1. j \in 1 .. Len(t) /\ (a - 1) + j = a + i BY <1>4, <1>5, <1>6
  <2>2. t[j] = s[i] BY <1>4
  <2> HIDE DEF j
  <2>3. m[(a - 1) + j] = t[j] BY <1>5, <2>1
  <2> QED BY <2>1, <2>2, <2>3
<1>9. CASE p.star
  <2>1. Len(s) = 1 /\ s[1] = "*" BY <1>3, <1>9
  <2>2. 1 \in 1 .. Len(s) BY <2>1
  <2>3. m[a + 1] = "*" BY <1>8, <2>1, <2>2
  <2>4. LengthAt(p, b) = a + 2 BY <1>5, <1>7, <2>1
  <2> QED BY <1>5, <1>9, <2>3, <2>4 DEF a
<1>10. CASE ~p.star /\ p.precision = 0
  <2>1. Len(s) = 0 BY <1>3, <1>10
  <2> QED BY <1>5, <1>7, <1>10, <2>1 DEF a
<1>11. CASE ~p.star /\ p.precision # 0
  <2> DEFINE N == Numerals(p.precision)
  <2>1. p.precision \in 0 .. 99 BY <1>2, <1>11
  <2>2. Len(N) \in {1, 2} /\ (\A i \in 1 .. Len(N) : IsDigit(N[i])) BY <2>1, NumeralsAre
  <2>3. s = N BY <1>3, <1>11
  <2> HIDE DEF N
  <2>4. 1 \in 1 .. Len(N) BY <2>2
  <2>5. IsDigit(m[a + 1]) BY <1>8, <2>2, <2>3, <2>4
  <2>6. LengthAt(p, b) = a + 1 + Len(N) /\ \A i \in 1 .. Len(N) : m[a + i] = N[i] BY <1>7, <1>8, <2>3
  <2>7. a + 1 <= LengthAt(p, b) BY <1>5, <1>6, <1>7
  <2> QED BY <1>11, <2>5, <2>6, <2>7 DEF a, N
<1> QED BY <1>9, <1>10, <1>11

(* What the parser has found where it stands in a specifier, and the words  *)
(* that are left to it.                                                     *)
parser == <<place, fp, flags, width, precision, args>>
FlagsUpTo(p, n) == {FlagChars[FlagText(p.flags)[i]] : i \in 1 .. n}
AtFlags(s, p, b, R) ==
  \E n \in 0 .. Len(FlagText(p.flags)) :
    s = <<"flags", b + 2 + n, FlagsUpTo(p, n), 0, 0, FromWidth(p, R)>>
AtWidth(s, p, b, R)     == s = <<"width", WidthAt(p, b), FlagsOf(p), 0, 0, FromWidth(p, R)>>
AtPrecision(s, p, b, R) == s = <<"precision", PointAt(p, b), LeftFlags(p), Wide(p), 0, FromPrecision(p, R)>>
AtDigits(s, p, b, R) ==
  p.precision # None /\ s = <<"digits", PointAt(p, b) + 1, PointFlags(p), Wide(p), 0, FromPrecision(p, R)>>
AtLength(s, p, b, R) ==
  s = <<"length", LengthAt(p, b), PointFlags(p), Wide(p), CodePrecision(p), FromValue(p, R)>>
LengthFlag(p) == {LengthFlags[p.length[1]]}
AtLength2(s, p, b, R) ==
  p.length # <<>> /\ s = <<"length2", LengthAt(p, b) + 1, PointFlags(p) \cup LengthFlag(p), Wide(p),
                           CodePrecision(p), FromValue(p, R)>>
AtSpecifier(s, p, b, R) ==
  s = <<"specifier", ConvAt(p, b), AllFlags(p), Wide(p), CodePrecision(p), FromValue(p, R)>>
Parsed(s, p, b, R) ==
  \/ AtFlags(s, p, b, R) \/ AtWidth(s, p, b, R) \/ AtPrecision(s, p, b, R) \/ AtDigits(s, p, b, R)
  \/ AtLength(s, p, b, R) \/ AtLength2(s, p, b, R) \/ AtSpecifier(s, p, b, R)

(* Within a specifier the parser does not meet the NUL. *)
LEMMA Advances ==
  ASSUME NEW p, NEW b \in Nat, Placed(format, p, b), fp \in b .. ConvAt(p, b) - 1, NEW next, Advance(1, next)
  PROVE  fp' = fp + 1 /\ place' = next
<1>1. b \in Nat /\ ConvAt(p, b) \in Nat /\ \A i \in b + 1 .. ConvAt(p, b) : format[i] # NUL BY DEF Placed
<1> DEFINE j == fp + 1
<1>2. j \in b + 1 .. ConvAt(p, b) BY <1>1
<1>3. fp' = j /\ place' = IF format[j] = NUL THEN "end" ELSE next BY DEF Advance
<1> HIDE DEF j
<1>4. format[j] # NUL BY <1>1, <1>2
<1> QED BY <1>3, <1>4 DEF j

LEMMA FlagsFound ==
  ASSUME NEW p, Asked(p)
  PROVE  /\ FlagText(p.flags) \in Seq(p.flags) /\ p.flags \subseteq FlagSet
         /\ FlagsUpTo(p, Len(FlagText(p.flags))) = FlagsOf(p) /\ FlagsUpTo(p, 0) = {}
         /\ \A n \in Nat : FlagsUpTo(p, n + 1) = FlagsUpTo(p, n) \cup {FlagChars[FlagText(p.flags)[n + 1]]}
<1> DEFINE f == p.flags
           t == FlagText(f)
<1>1. f \subseteq FlagSet BY DEF Asked, FlagSet
<1>2. t \in Seq(f) /\ \A c \in f : \E j \in 1 .. Len(t) : t[j] = c BY <1>1, FlagTextIs
<1>3. \A n : FlagsUpTo(p, n) = {FlagChars[t[i]] : i \in 1 .. n} BY DEF FlagsUpTo
<1>4. FlagsOf(p) = {FlagChars[c] : c \in f} BY DEF FlagsOf
<1> HIDE DEF t, f
<1>5. FlagsUpTo(p, Len(t)) = FlagsOf(p)
  <2>1. \A i \in 1 .. Len(t) : t[i] \in f BY <1>2
  <2> QED BY <1>2, <1>3, <1>4, <2>1
<1>6. FlagsUpTo(p, 0) = {} BY <1>3
<1>7. ASSUME NEW n \in Nat PROVE FlagsUpTo(p, n + 1) = FlagsUpTo(p, n) \cup {FlagChars[t[n + 1]]}
  <2>1. 1 .. n + 1 = (1 .. n) \cup {n + 1} OBVIOUS
  <2> QED BY <1>3, <2>1
<1> QED BY <1>1, <1>2, <1>5, <1>6, <1>7 DEF t, f

LEMMA FlagsStep ==
  ASSUME NEW p, NEW b \in Nat, NEW R \in Seq(Nat), Admitted(p), p.conv # "plain", Placed(format, p, b),
         AtFlags(parser, p, b, R), ParseFlags
  PROVE  Parsed(parser', p, b, R)
<1> DEFINE t == FlagText(p.flags)
           W == FromWidth(p, R)
<1>1. Asked(p) BY AdmittedIs
<1>2. /\ t \in Seq(p.flags) /\ p.flags \subseteq FlagSet /\ FlagsUpTo(p, Len(t)) = FlagsOf(p)
      /\ \A n \in Nat : FlagsUpTo(p, n + 1) = FlagsUpTo(p, n) \cup {FlagChars[t[n + 1]]}
  BY <1>1, FlagsFound
<1>3. PICK n \in 0 .. Len(t) : parser = <<"flags", b + 2 + n, FlagsUpTo(p, n), 0, 0, W>> BY DEF AtFlags
<1>4. /\ \A i \in 1 .. Len(t) : format[(b + 1) + i] = t[i]
      /\ WidthAt(p, b) = b + 2 + Len(t)
  BY DEF Placed, WidthAt
<1> HIDE DEF t, W
<1>5. Len(t) \in Nat /\ n \in Nat BY <1>2, <1>3
<1>6. /\ place = "flags" /\ fp = b + 2 + n /\ flags = FlagsUpTo(p, n) /\ width = 0 /\ precision = 0 /\ args = W
  BY <1>3 DEF parser
<1>7. width' = 0 /\ precision' = 0 /\ args' = W BY <1>6 DEF ParseFlags
<1>8. DOMAIN FlagChars = FlagSet BY ClassesAre
<1>9. CASE n = Len(t)
  <2>1. fp = WidthAt(p, b) BY <1>4, <1>6, <1>9
  <2>2. format[WidthAt(p, b)] \notin FlagSet BY WidthStarts
  <2>3. Here \notin DOMAIN FlagChars BY <1>8, <2>1, <2>2 DEF Here
  <2>4. place' = "width" /\ fp' = fp /\ flags' = flags BY <2>3 DEF ParseFlags
  <2>5. parser' = <<"width", WidthAt(p, b), FlagsOf(p), 0, 0, W>> BY <1>2, <1>6, <1>7, <1>9, <2>1, <2>4 DEF parser
  <2> QED BY <2>5 DEF Parsed, AtWidth, W
<1>10. CASE n # Len(t)
  <2> DEFINE k == n + 1
  <2>1. k \in 1 .. Len(t) /\ (b + 1) + k = b + 2 + n /\ k \in 0 .. Len(t) BY <1>3, <1>5, <1>10
  <2>2. FlagsUpTo(p, k) = FlagsUpTo(p, n) \cup {FlagChars[t[k]]} BY <1>2, <1>5
  <2>7. fp + 1 = b + 2 + k BY <1>5, <1>6
  <2> HIDE DEF k
  <2>3. Here = t[k] BY <1>4, <1>6, <2>1 DEF Here
  <2>4. t[k] \in FlagSet BY <1>2, <2>1
  <2>5. flags' = flags \cup {FlagChars[t[k]]} /\ fp' = fp + 1 /\ place' = place BY <1>8, <2>3, <2>4 DEF ParseFlags
  <2>6. parser' = <<"flags", b + 2 + k, FlagsUpTo(p, k), 0, 0, W>> BY <1>6, <1>7, <2>2, <2>5, <2>7 DEF parser
  <2> QED BY <2>1, <2>6 DEF Parsed, AtFlags, W, t
<1> QED BY <1>9, <1>10

LEMMA WidthStep ==
  ASSUME NEW p, NEW b \in Nat, NEW R \in Seq(Nat), Admitted(p), p.conv # "plain", Placed(format, p, b),
         format \in Seq(Alphabet), AtWidth(parser, p, b, R), Width
  PROVE  Parsed(parser', p, b, R)
<1> DEFINE W == FromWidth(p, R)
           P == FromPrecision(p, R)
           a == WidthAt(p, b)
           q == PointAt(p, b)
           n == p.width
<1>1. Asked(p) BY AdmittedIs
<1>2. /\ p.star \in BOOLEAN
      /\ n # None /\ p.star => n \in Int /\ AsSigned(n % IntMod, IntMod) = n
      /\ n # None /\ ~p.star => n \in 1 .. 99 /\ n < SizeMod
  BY <1>1, StarsAre
<1>3. /\ place = "width" /\ fp = a /\ flags = FlagsOf(p) /\ width = 0 /\ precision = 0 /\ args = W
  BY DEF AtWidth, parser
<1>4. /\ a \in Nat /\ q \in Nat /\ b + 2 <= a /\ a <= q /\ q <= ConvAt(p, b) /\ ConvAt(p, b) \in Nat
      /\ ConvAt(p, b) < Len(format)
  BY DEF Placed
<1>5. P \in Seq(Nat) BY WordTypes
<1>6. W = StarWord(n, p.star) \o P BY DEF FromWidth
<1>7. /\ n = None => ~IsDigit(format[a]) /\ format[a] # "*"
      /\ n # None /\ p.star => format[a] = "*" /\ q = a + 1
      /\ n # None /\ ~p.star =>
           /\ IsDigit(format[a]) /\ q = a + Len(Numerals(n))
           /\ \A j \in 1 .. Len(Numerals(n)) : format[(a - 1) + j] = Numerals(n)[j]
  BY WidthStarts
<1>8. n = None => a = q BY EndersFollow
<1>9. /\ n # None /\ p.star => StarWord(n, p.star) = <<n % IntMod>> /\ n % IntMod \in Nat
      /\ ~(n # None /\ p.star) => StarWord(n, p.star) = <<>>
  BY <1>2, StarWordIs
<1>10. ~IsDigit(format[q]) BY PointStarts
<1> HIDE DEF W, P, a, q
<1>11. precision' = 0 BY <1>3 DEF Width
<1>12. LeftFlags(p) = FlagsOf(p) \cup (IF n # None /\ n < 0 THEN {"LEFT"} ELSE {})
       /\ Wide(p) = IF n = None THEN 0 ELSE IF n < 0 THEN -n ELSE n
  BY DEF LeftFlags, Wide
<1> HIDE DEF n
<1>13. SUFFICES place' = "precision" /\ fp' = q /\ flags' = LeftFlags(p) /\ width' = Wide(p) /\ args' = P
  <2>1. parser' = <<"precision", q, LeftFlags(p), Wide(p), 0, P>> BY <1>11, <1>13 DEF parser
  <2> QED BY <2>1 DEF Parsed, AtPrecision, P, q
<1>14. CASE n = None
  <2>1. ~IsDigit(Here) /\ Here # "*" BY <1>3, <1>7, <1>14 DEF Here
  <2>2. place' = "precision" /\ width' = width /\ flags' = flags /\ fp' = fp /\ args' = args
    BY <2>1 DEF Width
  <2>3. W = P
    <3>1. W = <<>> \o P BY <1>6, <1>9, <1>14
    <3> QED BY <1>5, <3>1, ConcatEmptySeq
  <2>4. LeftFlags(p) = FlagsOf(p) /\ Wide(p) = 0 BY <1>12, <1>14
  <2> QED BY <1>3, <1>8, <1>14, <2>2, <2>3, <2>4
<1>15. CASE n # None /\ p.star
  <2> DEFINE x == n % IntMod
  <2>1. Here = "*" /\ ~IsDigit(Here)
    <3>1. Here = "*" BY <1>3, <1>7, <1>15 DEF Here
    <3> QED BY <3>1, NoStar
  <2>2. W = <<x>> \o P /\ x \in Nat BY <1>6, <1>9, <1>15
  <2>3. AsSigned(x, IntMod) = n /\ n \in Int BY <1>2, <1>15
  <2> HIDE DEF x
  <2>4. Head(W) = x /\ Tail(W) = P BY <1>5, <2>2, WordTaken
  <2>5. NextInt = n BY <1>3, <2>3, <2>4 DEF NextInt
  <2>6. /\ width' = IF n < 0 THEN -n ELSE n
        /\ flags' = IF n < 0 THEN flags \cup {"LEFT"} ELSE flags
        /\ args' = Tail(args) /\ Advance(1, "precision")
    BY <2>1, <2>5 DEF Width
  <2>7. fp \in b .. ConvAt(p, b) - 1 BY <1>3, <1>4, <1>7, <1>15
  <2>8. fp' = fp + 1 /\ place' = "precision" BY <2>6, <2>7, Advances
  <2>9. LeftFlags(p) = flags' /\ Wide(p) = width' BY <1>3, <1>12, <1>15, <2>6
  <2> QED BY <1>3, <1>7, <1>15, <2>4, <2>6, <2>8, <2>9
<1>16. CASE n # None /\ ~p.star
  <2> DEFINE N == Numerals(n)
             l == Len(N)
  <2>1. n \in 0 .. 99 /\ n \in Int /\ ~(n < 0) /\ n < SizeMod
    <3>1. n \in 1 .. 99 /\ n < SizeMod BY <1>2, <1>16, Zenon
    <3> QED BY <3>1
  <2>2. IsDigit(format[a]) /\ q = a + l /\ \A j \in 1 .. l : format[(a - 1) + j] = N[j] BY <1>7, <1>16
  <2>3. ~IsDigit(format[a + l]) /\ a + l <= Len(format) /\ a >= 1 BY <1>4, <1>10, <2>2
  <2>4. RunEnd(a) = a + l /\ Number(a) = n BY <1>4, <2>1, <2>2, <2>3, NumberRead
  <2>5. IsDigit(Here) /\ ~(Here = "*")
    <3>1. IsDigit(Here) BY <1>3, <2>2 DEF Here
    <3> QED BY <3>1, NoStar
  <2>6. width' = Number(fp) /\ fp' = RunEnd(fp) /\ place' = "precision" /\ flags' = flags /\ args' = args
    BY <2>5 DEF Width
  <2>7. W = P
    <3>1. W = <<>> \o P BY <1>6, <1>9, <1>16
    <3> QED BY <1>5, <3>1, ConcatEmptySeq
  <2>8. LeftFlags(p) = FlagsOf(p) /\ Wide(p) = n BY <1>12, <1>16, <2>1
  <2> HIDE DEF l
  <2> QED BY <1>3, <2>2, <2>4, <2>6, <2>7, <2>8
<1> QED BY <1>14, <1>15, <1>16

LEMMA PrecisionStep ==
  ASSUME NEW p, NEW b \in Nat, NEW R \in Seq(Nat), Admitted(p), p.conv # "plain", Placed(format, p, b),
         AtPrecision(parser, p, b, R), Precision
  PROVE  Parsed(parser', p, b, R)
<1> DEFINE P == FromPrecision(p, R)
           V == FromValue(p, R)
           q == PointAt(p, b)
           w == Wide(p)
<1>1. Asked(p) BY AdmittedIs
<1>2. /\ place = "precision" /\ fp = q /\ flags = LeftFlags(p) /\ width = w /\ precision = 0 /\ args = P
  BY DEF AtPrecision, parser
<1>3. format[q] = "." <=> p.precision # None BY PointStarts
<1>4. width' = w /\ precision' = 0 /\ args' = P BY <1>2 DEF Precision
<1>5. P = StarWord(p.precision, p.star) \o V BY DEF FromPrecision
<1>6. V \in Seq(Nat) BY WordTypes
<1>7. CASE p.precision = None
  <2>1. Here # "." BY <1>2, <1>3, <1>7 DEF Here
  <2>2. place' = "length" /\ flags' = flags /\ fp' = fp BY <2>1 DEF Precision
  <2>3. q = LengthAt(p, b) BY <1>7, EndersFollow
  <2>4. P = V
    <3> HIDE DEF P, V
    <3>1. StarWord(p.precision, p.star) = <<>> BY <1>7 DEF StarWord
    <3>2. P = <<>> \o V BY <1>5, <3>1
    <3> QED BY <1>6, <3>2, ConcatEmptySeq
  <2>5. PointFlags(p) = LeftFlags(p) BY <1>7 DEF PointFlags
  <2>6. CodePrecision(p) = 0 BY <1>7 DEF CodePrecision
  <2> HIDE DEF P, V, q, w
  <2>7. parser' = <<"length", LengthAt(p, b), PointFlags(p), w, CodePrecision(p), V>>
    BY <1>2, <1>4, <2>2, <2>3, <2>4, <2>5, <2>6 DEF parser
  <2> QED BY <2>7 DEF Parsed, AtLength, V, w
<1>8. CASE p.precision # None
  <2>1. Here = "." BY <1>2, <1>3, <1>8 DEF Here
  <2>2. flags' = flags \cup {"PRECISION"} /\ Advance(1, "digits") BY <2>1 DEF Precision
  <2>3. fp \in b .. ConvAt(p, b) - 1
    <3>1. q + 1 <= LengthAt(p, b) BY <1>8, DigitsStart
    <3>2. /\ WidthAt(p, b) \in Nat /\ q \in Nat /\ LengthAt(p, b) \in Nat /\ ConvAt(p, b) \in Nat
          /\ b + 2 <= WidthAt(p, b) /\ WidthAt(p, b) <= q /\ LengthAt(p, b) <= ConvAt(p, b)
      BY DEF Placed
    <3> HIDE DEF q
    <3> QED BY <1>2, <3>1, <3>2
  <2>4. fp' = fp + 1 /\ place' = "digits" BY <2>2, <2>3, Advances
  <2>5. PointFlags(p) = LeftFlags(p) \cup {"PRECISION"} BY <1>8 DEF PointFlags
  <2> HIDE DEF P, V, q, w
  <2>6. parser' = <<"digits", q + 1, PointFlags(p), w, 0, P>>
    BY <1>2, <1>4, <2>2, <2>4, <2>5 DEF parser
  <2> QED BY <1>8, <2>6 DEF Parsed, AtDigits, P, q, w
<1> QED BY <1>7, <1>8

LEMMA DigitsStep ==
  ASSUME NEW p, NEW b \in Nat, NEW R \in Seq(Nat), Admitted(p), p.conv # "plain", Placed(format, p, b),
         format \in Seq(Alphabet), AtDigits(parser, p, b, R), PrecisionDigits
  PROVE  Parsed(parser', p, b, R)
<1> DEFINE P == FromPrecision(p, R)
           V == FromValue(p, R)
           q == PointAt(p, b)
           e == LengthAt(p, b)
           w == Wide(p)
           n == p.precision
           F == PointFlags(p)
<1>1. Asked(p) BY AdmittedIs
<1>2. n # None /\ place = "digits" /\ fp = q + 1 /\ flags = F /\ width = w /\ precision = 0 /\ args = P
  BY DEF AtDigits, parser
<1>3. /\ p.star \in BOOLEAN
      /\ n # None /\ p.star => n \in Nat /\ AsSigned(n % IntMod, IntMod) = n
      /\ n # None /\ ~p.star => n \in 0 .. 99 /\ n < SizeMod
  BY <1>1, StarsAre
<1>4. /\ q + 1 <= e
      /\ ~p.star /\ n = 0 => e = q + 1
      /\ p.star => format[q + 1] = "*" /\ e = q + 2
      /\ ~p.star /\ n # 0 =>
           /\ IsDigit(format[q + 1]) /\ e = q + 1 + Len(Numerals(n))
           /\ \A j \in 1 .. Len(Numerals(n)) : format[q + j] = Numerals(n)[j]
  BY <1>2, DigitsStart
<1>5. /\ WidthAt(p, b) \in Nat /\ q \in Nat /\ e \in Nat /\ ConvAt(p, b) \in Nat
      /\ b + 2 <= WidthAt(p, b) /\ WidthAt(p, b) <= q /\ e <= ConvAt(p, b) /\ ConvAt(p, b) < Len(format)
  BY DEF Placed
<1>6. format[e] \in Enders BY EndersFollow
<1>7. ~IsDigit(format[e]) /\ format[e] # "*"
  <2> HIDE DEF e
  <2> QED BY <1>6, ClassesAre
<1>8. V \in Seq(Nat) BY WordTypes
<1>9. P = StarWord(n, p.star) \o V BY DEF FromPrecision
<1>10. /\ n # None /\ p.star => StarWord(n, p.star) = <<n % IntMod>> /\ n % IntMod \in Nat
       /\ ~(n # None /\ p.star) => StarWord(n, p.star) = <<>>
  <2>1. n # None /\ p.star => n \in Int BY <1>3
  <2> QED BY <1>3, <2>1, StarWordIs
<1>11. flags' = F /\ width' = w BY <1>2 DEF PrecisionDigits
<1>12. CodePrecision(p) = n BY <1>2 DEF CodePrecision
<1> HIDE DEF P, V, q, e, w, n, F
<1>13. SUFFICES place' = "length" /\ fp' = e /\ precision' = n /\ args' = V
  <2>1. parser' = <<"length", e, F, w, CodePrecision(p), V>> BY <1>11, <1>12, <1>13 DEF parser
  <2> QED BY <2>1 DEF Parsed, AtLength, e, F, w, V
<1>14. ~p.star => P = V
  <2> SUFFICES ASSUME ~p.star PROVE P = V OBVIOUS
  <2>1. P = <<>> \o V BY <1>9, <1>10
  <2> QED BY <1>8, <2>1, ConcatEmptySeq
<1>15. CASE ~p.star /\ n = 0
  <2>1. fp = e /\ ~IsDigit(Here) /\ Here # "*" BY <1>2, <1>4, <1>7, <1>15 DEF Here
  <2>2. place' = "length" /\ precision' = precision /\ fp' = fp /\ args' = args BY <2>1 DEF PrecisionDigits
  <2> QED BY <1>2, <1>14, <1>15, <2>1, <2>2
<1>16. CASE p.star
  <2> DEFINE x == n % IntMod
  <2>1. Here = "*" /\ ~IsDigit(Here)
    <3>1. Here = "*" BY <1>2, <1>4, <1>16 DEF Here
    <3> QED BY <3>1, NoStar
  <2>2. P = <<x>> \o V /\ x \in Nat BY <1>2, <1>9, <1>10, <1>16
  <2>3. AsSigned(x, IntMod) = n /\ n \in Nat BY <1>2, <1>3, <1>16
  <2> HIDE DEF x
  <2>4. Head(P) = x /\ Tail(P) = V BY <1>8, <2>2, WordTaken
  <2>5. NextInt = n BY <1>2, <2>3, <2>4 DEF NextInt
  <2>6. precision' = (IF n > 0 THEN n ELSE 0) /\ args' = Tail(args) /\ Advance(1, "length")
    BY <2>1, <2>5 DEF PrecisionDigits
  <2>7. fp \in b .. ConvAt(p, b) - 1 BY <1>2, <1>4, <1>5, <1>16
  <2>8. fp' = fp + 1 /\ place' = "length" BY <2>6, <2>7, Advances
  <2>9. precision' = n BY <2>3, <2>6
  <2>10. fp' = e BY <1>2, <1>4, <1>5, <1>16, <2>8
  <2> QED BY <1>2, <2>4, <2>6, <2>8, <2>9, <2>10
<1>17. CASE ~p.star /\ n # 0
  <2> DEFINE N == Numerals(n)
             l == Len(N)
             a == q + 1
  <2>1. n \in 0 .. 99 /\ n < SizeMod BY <1>2, <1>3, <1>17, Zenon
  <2>2. IsDigit(format[a]) /\ e = a + l /\ \A j \in 1 .. l : format[q + j] = N[j] BY <1>4, <1>17
  <2>3. a \in Nat /\ a >= 1 /\ a - 1 = q BY <1>5
  <2>9. a + l <= Len(format)
    <3>1. Len(format) \in Nat OBVIOUS
    <3> HIDE DEF a, l
    <3> QED BY <1>5, <2>2, <3>1
  <2>10. fp = a BY <1>2
  <2> HIDE DEF a
  <2>11. ~IsDigit(format[a + l]) /\ \A j \in 1 .. l : format[(a - 1) + j] = N[j] BY <1>7, <2>2, <2>3
  <2>4. RunEnd(a) = a + l /\ Number(a) = n BY <2>1, <2>3, <2>9, <2>11, NumberRead
  <2>5. IsDigit(Here) /\ ~(Here = "*")
    <3>1. IsDigit(Here) BY <2>2, <2>10 DEF Here
    <3> QED BY <3>1, NoStar
  <2>6. precision' = Number(fp) /\ fp' = RunEnd(fp) /\ place' = "length" /\ args' = args
    BY <2>5 DEF PrecisionDigits
  <2> HIDE DEF l
  <2> QED BY <1>2, <1>14, <1>17, <2>2, <2>4, <2>6, <2>10
<1> QED BY <1>3, <1>15, <1>16, <1>17

(* The flags of a length, as they are found. *)
LEMMA LengthsAre ==
  ASSUME NEW p, p.length \in Lengths, p.conv \in Convs
  PROVE  /\ DOMAIN LengthFlags2 = {"l", "h"} /\ DOMAIN LengthFlags = {"l", "h", "t", "j", "z"}
         /\ p.conv \notin DOMAIN LengthFlags
         /\ p.length = <<>> => AllFlags(p) = PointFlags(p)
         /\ p.length # <<>> => p.length[1] \in {"l", "h"} /\ Len(p.length) \in {1, 2}
         /\ Len(p.length) = 1 => AllFlags(p) = PointFlags(p) \cup LengthFlag(p)
         /\ Len(p.length) = 2 => /\ p.length[1] = "h" /\ p.length[2] = "h"
                                 /\ AllFlags(p) = PointFlags(p) \cup LengthFlag(p) \cup {LengthFlags2["h"]}
<1> DEFINE empty == <<>>
           long == <<"l">>
           short == <<"h">>
           char == <<"h", "h">>
           F == PointFlags(p)
           d == p.length
<1>1. /\ LengthFlags["l"] = "LONG" /\ LengthFlags["h"] = "SHORT" /\ LengthFlags2["h"] = "CHAR"
      /\ DOMAIN LengthFlags2 = {"l", "h"} /\ DOMAIN LengthFlags = {"l", "h", "t", "j", "z"}
  BY DEF LengthFlags, LengthFlags2
<1>2. p.conv \notin DOMAIN LengthFlags BY <1>1 DEF Convs
<1>3. AllFlags(p) = F \cup (IF d = long THEN {"LONG"} ELSE {})
                      \cup (IF d \in {short, char} THEN {"SHORT"} ELSE {})
                      \cup (IF d = char THEN {"CHAR"} ELSE {})
  BY DEF AllFlags
<1>4. /\ d \in {empty, long, short, char} /\ long # short /\ long # char /\ short # char
      /\ empty # long /\ empty # short /\ empty # char
      /\ Len(empty) = 0 /\ Len(long) = 1 /\ Len(short) = 1 /\ Len(char) = 2
      /\ long[1] = "l" /\ short[1] = "h" /\ char[1] = "h" /\ char[2] = "h"
  BY DEF Lengths
<1>5. LengthFlag(p) = {LengthFlags[d[1]]} BY DEF LengthFlag
<1> HIDE DEF empty, long, short, char, F, d
<1>6. CASE d = empty
  <2>1. AllFlags(p) = F BY <1>3, <1>4, <1>6
  <2> QED BY <1>1, <1>2, <1>4, <1>6, <2>1 DEF d, F, empty
<1>7. CASE d = long
  <2>1. LengthFlag(p) = {"LONG"} BY <1>1, <1>4, <1>5, <1>7
  <2>2. AllFlags(p) = F \cup LengthFlag(p) BY <1>3, <1>4, <1>7, <2>1
  <2>3. Len(d) = 1 /\ d[1] = "l" /\ d # empty BY <1>4, <1>7
  <2> QED BY <1>1, <1>2, <2>2, <2>3 DEF d, F, empty
<1>8. CASE d = short
  <2>1. LengthFlag(p) = {"SHORT"} BY <1>1, <1>4, <1>5, <1>8
  <2>2. AllFlags(p) = F \cup LengthFlag(p) BY <1>3, <1>4, <1>8, <2>1
  <2>3. Len(d) = 1 /\ d[1] = "h" /\ d # empty BY <1>4, <1>8
  <2> QED BY <1>1, <1>2, <2>2, <2>3 DEF d, F, empty
<1>9. CASE d = char
  <2>1. LengthFlag(p) = {"SHORT"} BY <1>1, <1>4, <1>5, <1>9
  <2>2. AllFlags(p) = F \cup LengthFlag(p) \cup {LengthFlags2["h"]} BY <1>1, <1>3, <1>4, <1>9, <2>1
  <2>3. Len(d) = 2 /\ d[1] = "h" /\ d[2] = "h" /\ d # empty BY <1>4, <1>9
  <2> QED BY <1>1, <1>2, <2>2, <2>3 DEF d, F, empty
<1> QED BY <1>4, <1>6, <1>7, <1>8, <1>9

LEMMA LengthStep ==
  ASSUME NEW p, NEW b \in Nat, NEW R \in Seq(Nat), Admitted(p), p.conv # "plain", Placed(format, p, b),
         AtLength(parser, p, b, R), Length
  PROVE  Parsed(parser', p, b, R)
<1> DEFINE V == FromValue(p, R)
           e == LengthAt(p, b)
           w == Wide(p)
           n == CodePrecision(p)
           F == PointFlags(p)
           d == p.length
<1>1. p.conv \in Convs /\ p.length \in Lengths BY AdmittedIs
<1>2. place = "length" /\ fp = e /\ flags = F /\ width = w /\ precision = n /\ args = V
  BY DEF AtLength, parser
<1>3. width' = w /\ precision' = n /\ args' = V BY <1>2 DEF Length
<1>4. d = <<>> => format[e] = p.conv BY EndersFollow
<1>5. /\ DOMAIN LengthFlags2 = {"l", "h"} /\ DOMAIN LengthFlags = {"l", "h", "t", "j", "z"}
      /\ p.conv \notin DOMAIN LengthFlags
      /\ d = <<>> => AllFlags(p) = F
      /\ d # <<>> => d[1] \in {"l", "h"} /\ Len(d) \in {1, 2}
  BY <1>1, LengthsAre
<1>6. /\ WidthAt(p, b) \in Nat /\ PointAt(p, b) \in Nat /\ e \in Nat /\ ConvAt(p, b) \in Nat
      /\ b + 2 <= WidthAt(p, b) /\ WidthAt(p, b) <= PointAt(p, b) /\ PointAt(p, b) <= e
      /\ ConvAt(p, b) = e + Len(d)
      /\ \A i \in 1 .. Len(d) : format[(e - 1) + i] = d[i]
  BY DEF Placed, ConvAt
<1>7. CASE d = <<>>
  <2>1. Here \notin DOMAIN LengthFlags BY <1>2, <1>4, <1>5, <1>7 DEF Here
  <2>2. place' = "specifier" /\ flags' = flags /\ fp' = fp BY <2>1 DEF Length
  <2>3. ConvAt(p, b) = e
    <3>1. Len(<<>>) = 0 OBVIOUS
    <3> QED BY <1>6, <1>7, <3>1
  <2>4. AllFlags(p) = F BY <1>5, <1>7
  <2> HIDE DEF V, e, w, n, F
  <2>5. parser' = <<"specifier", ConvAt(p, b), AllFlags(p), w, n, V>> BY <1>2, <1>3, <2>2, <2>3, <2>4 DEF parser
  <2> QED BY <2>5 DEF Parsed, AtSpecifier, V, w, n
<1>8. CASE d # <<>>
  <2>1. d[1] \in {"l", "h"} /\ Len(d) \in {1, 2} BY <1>5, <1>8
  <2>2. Here = d[1]
    <3>1. 1 \in 1 .. Len(d) /\ (e - 1) + 1 = e BY <1>6, <2>1
    <3> HIDE DEF e, d
    <3> QED BY <1>2, <1>6, <3>1 DEF Here
  <2>3. flags' = flags \cup {LengthFlags[Here]} /\ Advance(1, "length2") BY <1>5, <2>1, <2>2 DEF Length
  <2>4. fp \in b .. ConvAt(p, b) - 1
    <3> HIDE DEF e, d
    <3> QED BY <1>2, <1>6, <2>1
  <2>5. fp' = fp + 1 /\ place' = "length2" BY <2>3, <2>4, Advances
  <2>6. LengthFlag(p) = {LengthFlags[d[1]]} BY DEF LengthFlag
  <2>8. flags' = F \cup LengthFlag(p) BY <1>2, <2>2, <2>3, <2>6
  <2> HIDE DEF V, e, w, n, F
  <2>7. parser' = <<"length2", e + 1, F \cup LengthFlag(p), w, n, V>> BY <1>2, <1>3, <2>5, <2>8 DEF parser
  <2> QED BY <1>8, <2>7 DEF Parsed, AtLength2, V, e, w, n, F
<1> QED BY <1>7, <1>8

LEMMA Length2Step ==
  ASSUME NEW p, NEW b \in Nat, NEW R \in Seq(Nat), Admitted(p), p.conv # "plain", Placed(format, p, b),
         AtLength2(parser, p, b, R), Length2
  PROVE  Parsed(parser', p, b, R)
<1> DEFINE V == FromValue(p, R)
           e == LengthAt(p, b)
           w == Wide(p)
           n == CodePrecision(p)
           F == PointFlags(p) \cup LengthFlag(p)
           d == p.length
<1>1. p.conv \in Convs /\ p.length \in Lengths BY AdmittedIs
<1>2. d # <<>> /\ place = "length2" /\ fp = e + 1 /\ flags = F /\ width = w /\ precision = n /\ args = V
  BY DEF AtLength2, parser
<1>3. width' = w /\ precision' = n /\ args' = V BY <1>2 DEF Length2
<1>5. /\ DOMAIN LengthFlags2 = {"l", "h"} /\ DOMAIN LengthFlags = {"l", "h", "t", "j", "z"}
      /\ p.conv \notin DOMAIN LengthFlags /\ Len(d) \in {1, 2}
      /\ Len(d) = 1 => AllFlags(p) = F
      /\ Len(d) = 2 => d[1] = "h" /\ d[2] = "h" /\ AllFlags(p) = F \cup {LengthFlags2["h"]}
  BY <1>1, <1>2, LengthsAre
<1>6. /\ WidthAt(p, b) \in Nat /\ PointAt(p, b) \in Nat /\ e \in Nat /\ ConvAt(p, b) \in Nat
      /\ b + 2 <= WidthAt(p, b) /\ WidthAt(p, b) <= PointAt(p, b) /\ PointAt(p, b) <= e
      /\ ConvAt(p, b) = e + Len(d) /\ format[ConvAt(p, b)] = p.conv
      /\ \A i \in 1 .. Len(d) : format[(e - 1) + i] = d[i]
  BY DEF Placed, ConvAt
<1> HIDE DEF V, e, w, n, F, d
<1>7. SUFFICES place' = "specifier" /\ fp' = ConvAt(p, b) /\ flags' = AllFlags(p)
  <2>1. parser' = <<"specifier", ConvAt(p, b), AllFlags(p), w, n, V>> BY <1>3, <1>7 DEF parser
  <2> QED BY <2>1 DEF Parsed, AtSpecifier, V, w, n
<1>8. CASE Len(d) = 1
  <2>1. fp = ConvAt(p, b) BY <1>2, <1>6, <1>8
  <2>2. Here \notin DOMAIN LengthFlags2 BY <1>5, <1>6, <2>1 DEF Here
  <2>3. place' = "specifier" /\ flags' = flags /\ fp' = fp BY <2>2 DEF Length2
  <2> QED BY <1>2, <1>5, <1>8, <2>1, <2>3
<1>9. CASE Len(d) = 2
  <2>1. 1 \in 1 .. Len(d) /\ 2 \in 1 .. Len(d) /\ (e - 1) + 1 = fp - 1 /\ (e - 1) + 2 = fp BY <1>2, <1>6, <1>9
  <2>2. format[fp - 1] = d[1] /\ format[fp] = d[2]
    <3>1. format[(e - 1) + 1] = d[1] BY <1>6, <2>1
    <3>2. format[(e - 1) + 2] = d[2] BY <1>6, <2>1
    <3> QED BY <2>1, <3>1, <3>2
  <2>3. Here = "h" /\ Here = format[fp - 1] BY <1>5, <1>9, <2>2 DEF Here
  <2>4. flags' = flags \cup {LengthFlags2["h"]} /\ Advance(1, "specifier") BY <1>5, <2>3 DEF Length2
  <2>5. fp \in b .. ConvAt(p, b) - 1 /\ fp + 1 = ConvAt(p, b) BY <1>2, <1>6, <1>9
  <2>6. fp' = fp + 1 /\ place' = "specifier" BY <2>4, <2>5, Advances
  <2> QED BY <1>2, <1>5, <1>9, <2>4, <2>5, <2>6
<1> QED BY <1>5, <1>8, <1>9

(* At its conversion a piece is put as the standard asks.                   *)
StoredBy(p, n) == IF p.conv # "n" THEN <<>> ELSE << <<p.value, n>> >>

Converting ==
  Integer \/ Character \/ String \/ Pointer \/ Percent \/ Count \/ OtherSpecifier

LEMMA ConversionStep ==
  ASSUME NEW p, NEW b \in Nat, NEW R \in Seq(Nat), Admitted(p), Fits(p), p.conv # "plain", Placed(format, p, b),
         AtSpecifier(parser, p, b, R), out = <<>>, stored \in Seq(Nat \X Nat),
         p.conv = "n" => pos \in Nat /\ pos < Modulus(p), Converting
  PROVE  /\ place' = "text" /\ fp' = ConvAt(p, b) + 1 /\ put' = put /\ format' = format
         /\ out' = StandardPiece(p) /\ out' \in Seq(Alphabet) /\ args' = R
         /\ stored' = stored \o StoredBy(p, pos)
<1> DEFINE c == p.conv
<1>1. Asked(p) /\ c \in Convs BY AdmittedIs
<1>2. /\ place = "specifier" /\ fp = ConvAt(p, b) /\ flags = AllFlags(p) /\ width = Wide(p)
      /\ precision = CodePrecision(p) /\ args = FromValue(p, R)
  BY DEF AtSpecifier, parser
<1>3. Known(p) BY <1>1, <1>2, FlagsAre DEF Known
<1>4. Here = c BY <1>2 DEF Placed, Here
<1>5. c # "%" => args = ValueOf(p) \o R BY <1>2 DEF FromValue, ValueWordsOf
<1>6. c = "%" => args = R
  <2> SUFFICES ASSUME c = "%" PROVE args = R OBVIOUS
  <2>1. args = <<>> \o R BY <1>2 DEF FromValue, ValueWordsOf
  <2> QED BY <2>1, ConcatEmptySeq
<1>7. c # "n" => stored \o StoredBy(p, pos) = stored
  <2>1. c # "n" => StoredBy(p, pos) = <<>> BY DEF StoredBy
  <2>2. stored \o <<>> = stored BY ConcatEmptySeq
  <2> QED BY <2>1, <2>2
<1>8. /\ Integer => c \in DOMAIN Bases
      /\ Character => c = "c"
      /\ String => c = "s"
      /\ Pointer => c = "p"
      /\ Percent => c = "%"
      /\ Count => c = "n"
  <2>1. Integer => c \in DOMAIN Bases BY <1>4 DEF Integer, Specifier
  <2>2. Character => c = "c" BY <1>4 DEF Character, Specifier
  <2>3. String => c = "s" BY <1>4 DEF String, Specifier
  <2>4. Pointer => c = "p" BY <1>4 DEF Pointer, Specifier
  <2>5. Percent => c = "%" BY <1>4 DEF Percent, Specifier
  <2>6. Count => c = "n" BY <1>4 DEF Count, Specifier
  <2> QED BY <2>1, <2>2, <2>3, <2>4, <2>5, <2>6
<1>9. ~OtherSpecifier
  <2>1. OtherSpecifier => c \notin DOMAIN Bases \cup {"c", "s", "p", "%", "n"} BY <1>4 DEF OtherSpecifier
  <2> QED BY <1>1, <2>1, BasesAre DEF Convs
<1>10. place' = "text" /\ fp' = fp + 1 /\ put' = put /\ format' = format
  <2> USE DEF Specifier, SpecifierKeeps, gadgetVars
  <2>1. Integer \/ Character \/ String \/ Pointer => place' = "text" /\ fp' = fp + 1 /\ put' = put /\ format' = format
    BY DEF Integer, Character, String, Pointer
  <2>2. Percent \/ Count \/ OtherSpecifier => place' = "text" /\ fp' = fp + 1 /\ put' = put /\ format' = format
    BY DEF Percent, Count, OtherSpecifier
  <2> QED BY <2>1, <2>2 DEF Converting
<1>11. SUFFICES out' = StandardPiece(p) /\ out' \in Seq(Alphabet) /\ args' = R /\ stored' = stored \o StoredBy(p, pos)
  BY <1>2, <1>10
<1>12. CASE Integer
  <2>1. c \in DOMAIN Bases BY <1>8, <1>12
  <2>2. c # "%" /\ c # "n" BY <2>1, BasesAre
  <2>3. args = ValueOf(p) \o R BY <1>5, <2>2
  <2>4. out' = StandardPiece(p) /\ out' \in Seq(Alphabet) /\ args' = R /\ stored' = stored
    BY <1>3, <1>4, <1>12, <2>1, <2>3, IntegerPuts
  <2> QED BY <1>7, <2>2, <2>4
<1>13. CASE Character
  <2>1. c = "c" BY <1>8, <1>13
  <2>2. c # "%" /\ c # "n" BY <2>1
  <2>3. args = ValueOf(p) \o R BY <1>5, <2>2
  <2>4. out' = StandardPiece(p) /\ out' \in Seq(Alphabet) /\ args' = R /\ stored' = stored
    BY <1>3, <1>13, <2>1, <2>3, CharacterPuts
  <2> QED BY <1>7, <2>2, <2>4
<1>14. CASE String
  <2>1. c = "s" BY <1>8, <1>14
  <2>2. c # "%" /\ c # "n" BY <2>1
  <2>3. args = ValueOf(p) \o R BY <1>5, <2>2
  <2>4. out' = StandardPiece(p) /\ out' \in Seq(Alphabet) /\ args' = R /\ stored' = stored
    BY <1>3, <1>14, <2>1, <2>3, StringPuts
  <2> QED BY <1>7, <2>2, <2>4
<1>15. CASE Pointer
  <2>1. c = "p" BY <1>8, <1>15
  <2>2. c # "%" /\ c # "n" BY <2>1
  <2>3. args = ValueOf(p) \o R BY <1>5, <2>2
  <2>4. out' = StandardPiece(p) /\ out' \in Seq(Alphabet) /\ args' = R /\ stored' = stored
    BY <1>3, <1>15, <2>1, <2>3, PointerPuts
  <2> QED BY <1>7, <2>2, <2>4
<1>16. CASE Percent
  <2>1. c = "%" BY <1>8, <1>16
  <2>2. out' = StandardPiece(p) /\ out' \in Seq(Alphabet) /\ args' = args /\ stored' = stored
    BY <1>16, <2>1, PercentPuts
  <2> QED BY <1>6, <1>7, <2>1, <2>2
<1>17. CASE Count
  <2>1. c = "n" BY <1>8, <1>17
  <2>2. c # "%" BY <2>1
  <2>3. args = ValueOf(p) \o R BY <1>5, <2>2
  <2>4. out' = out /\ StandardPiece(p) = <<>> /\ args' = R /\ stored' = Append(stored, <<p.value, pos>>)
    BY <1>3, <1>17, <2>1, <2>3, CountPuts
  <2> DEFINE x == <<p.value, pos>>
  <2>5. StoredBy(p, pos) = <<x>> BY <2>1 DEF StoredBy
  <2>6. x \in Nat \X Nat
    <3>1. p.value \in 0 .. IntMod - 1 BY <2>1, BasesAre DEF Admitted
    <3>2. IntMod \in Nat BY ModsAre
    <3> QED BY <2>1, <3>1, <3>2
  <2>7. stored' = Append(stored, x) BY <2>4
  <2> HIDE DEF x
  <2>8. Append(stored, x) = stored \o <<x>> BY <2>6
  <2>9. <<>> \in Seq(Alphabet) OBVIOUS
  <2> QED BY <2>4, <2>5, <2>7, <2>8, <2>9
<1> QED BY <1>9, <1>12, <1>13, <1>14, <1>15, <1>16, <1>17 DEF Converting

(* What is left of sequences when the first ones are taken away. *)
Rest(f, n, h, r) == f[n] = r /\ \A k \in 0 .. n - 1 : f[k] = h[k + 1] \o f[k + 1]

LEMMA RestExists ==
  ASSUME NEW S, NEW n \in Nat, NEW h \in [1 .. n -> Seq(S)], NEW r \in Seq(S)
  PROVE  \E f \in [0 .. n -> Seq(S)] : Rest(f, n, h, r)
<1> DEFINE step == [q \in (1 .. n) \X Seq(S) |-> h[(n + 1) - q[1]] \o q[2]]
<1>1. step \in [(1 .. n) \X Seq(S) -> Seq(S)]
  <2>1. ASSUME NEW q \in (1 .. n) \X Seq(S) PROVE h[(n + 1) - q[1]] \o q[2] \in Seq(S)
    <3>1. q[2] \in Seq(S) /\ q[1] \in 1 .. n OBVIOUS
    <3>2. (n + 1) - q[1] \in 1 .. n BY <3>1
    <3>3. h[(n + 1) - q[1]] \in Seq(S) BY <3>2
    <3> QED BY <3>1, <3>3, ConcatProperties
  <2> QED BY <2>1
<1>2. ASSUME NEW i \in 1 .. n, NEW s \in Seq(S) PROVE step[<<i, s>>] = h[(n + 1) - i] \o s OBVIOUS
<1> HIDE DEF step
<1>3. PICK g \in [0 .. n -> Seq(S)] : RecursionUpTo(g, n, r, step) BY <1>1, FiniteRecursion
<1> DEFINE f == [k \in 0 .. n |-> g[n - k]]
<1>4. f \in [0 .. n -> Seq(S)]
  <2>1. \A k \in 0 .. n : n - k \in 0 .. n OBVIOUS
  <2> QED BY <1>3, <2>1
<1>5. f[n] = r
  <2>1. n \in 0 .. n /\ n - n = 0 OBVIOUS
  <2> QED BY <1>3, <2>1 DEF RecursionUpTo
<1>6. ASSUME NEW k \in 0 .. n - 1 PROVE f[k] = h[k + 1] \o f[k + 1]
  <2> DEFINE i == n - k
  <2>1. i \in 1 .. n /\ i - 1 = n - (k + 1) /\ (n + 1) - i = k + 1 /\ k \in 0 .. n /\ k + 1 \in 0 .. n /\ i - 1 \in 0 .. n
    OBVIOUS
  <2>2. f[k] = g[i] BY <2>1
  <2>3. f[k + 1] = g[i - 1] BY <2>1
  <2> HIDE DEF i, f
  <2>4. g[i] = step[<<i, g[i - 1]>>] BY <1>3, <2>1 DEF RecursionUpTo
  <2>5. g[i - 1] \in Seq(S) BY <1>3, <2>1
  <2>6. g[i] = h[k + 1] \o g[i - 1] BY <1>2, <2>1, <2>4, <2>5
  <2> QED BY <2>2, <2>3, <2>6
<1> HIDE DEF f
<1>7. Rest(f, n, h, r) BY <1>5, <1>6 DEF Rest
<1> QED BY <1>4, <1>7

LEMMA RestIs ==
  ASSUME NEW S, NEW n \in Nat, NEW h \in [1 .. n -> Seq(S)], NEW r \in Seq(S),
         NEW f \in [0 .. n -> Seq(S)], Rest(f, n, h, r)
  PROVE  f[0] = First(h, n) \o r
<1> DEFINE P(k) == k <= n => First(h, k) \o f[k] = f[0]
           T == {k \in Nat : P(k)}
<1>0. \A x, y, z \in Seq(S) : (x \o y) \o z = x \o (y \o z)
  <2>1. Regroups(S) BY Regroup, Zenon
  <2> QED BY <2>1, Zenon DEF Regroups
<1>1. /\ First(h, 0) = <<>>
      /\ \A k \in 0 .. n : First(h, k) \in Seq(S)
      /\ \A k \in 0 .. n - 1 : First(h, k + 1) = First(h, k) \o h[k + 1]
  BY FirstNext
<1>2. 0 \in T
  <2>1. f[0] \in Seq(S) OBVIOUS
  <2>2. <<>> \o f[0] = f[0] BY <2>1, ConcatEmptySeq
  <2> QED BY <1>1, <2>2
<1>3. ASSUME NEW k \in T PROVE k + 1 \in T
  <2>8. k \in Nat /\ P(k) BY <1>3
  <2>9. SUFFICES P(k + 1)
    <3> HIDE DEF P
    <3>1. k + 1 \in Nat BY <2>8
    <3> QED BY <2>9, <3>1
  <2> SUFFICES ASSUME k + 1 <= n PROVE First(h, k + 1) \o f[k + 1] = f[0] OBVIOUS
  <2>1. k \in 0 .. n /\ k \in 0 .. n - 1 /\ k + 1 \in 1 .. n /\ k + 1 \in 0 .. n /\ k \in Nat BY <2>8
  <2>2. First(h, k) \o f[k] = f[0] BY <2>1, <2>8
  <2> DEFINE x == First(h, k)
             y == h[k + 1]
             z == f[k + 1]
  <2>3. x \in Seq(S) /\ y \in Seq(S) /\ z \in Seq(S) BY <1>1, <2>1
  <2>4. First(h, k + 1) = x \o y BY <1>1, <2>1
  <2>5. f[k] = y \o z BY <2>1 DEF Rest
  <2> HIDE DEF x, y, z
  <2>6. (x \o y) \o z = x \o (y \o z) BY <1>0, <2>3
  <2>7. x \o f[k] = f[0] BY <2>2 DEF x
  <2> QED BY <2>4, <2>5, <2>6, <2>7 DEF z
<1>4. T \subseteq Nat OBVIOUS
<1> HIDE DEF T
<1>5. T = Nat BY <1>2, <1>3, <1>4, Inductive
<1>6. First(h, n) \o f[n] = f[0]
  <2>1. P(n)
    <3> HIDE DEF P
    <3> QED BY <1>5 DEF T
  <2> QED BY <2>1
<1> QED BY <1>6 DEF Rest

(* A call, piece by piece: its words, its text and what it stores. *)
PieceWordsOf(c) == [i \in 1 .. PieceCount(c) |-> PieceWords(c.pieces[i])]
AfterOf(c)      == CHOOSE f \in [0 .. PieceCount(c) -> Seq(Nat)] : Rest(f, PieceCount(c), PieceWordsOf(c), c.rest)
PieceTextOf(c)  == [i \in 1 .. PieceCount(c) |-> StandardPiece(c.pieces[i])]
TextTo(c, k)    == First(PieceTextOf(c), k)
StoredOf(c)     == [i \in 1 .. PieceCount(c) |-> StoredBy(c.pieces[i], Len(TextTo(c, i - 1)))]
StoredTo(c, k)  == First(StoredOf(c), k)
Before(c, k)    == Len(First(PieceTexts(c), k))
AllFit(c)       == \A i \in DOMAIN c.pieces : Fits(c.pieces[i])

LEMMA AfterIs ==
  ASSUME NEW c, WellFormed(c)
  PROVE  /\ AfterOf(c) \in [0 .. PieceCount(c) -> Seq(Nat)]
         /\ Rest(AfterOf(c), PieceCount(c), PieceWordsOf(c), c.rest)
         /\ AfterOf(c)[0] = WordsOf(c) \o c.rest
<1> DEFINE n == PieceCount(c)
           h == PieceWordsOf(c)
           f == AfterOf(c)
<1>1. n \in Nat /\ DOMAIN c.pieces = 1 .. n /\ \A i \in 1 .. n : Admitted(c.pieces[i]) BY PiecesAre
<1>2. c.rest \in Seq(Nat) BY DEF WellFormed
<1>3. ASSUME NEW i \in 1 .. n PROVE PieceWords(c.pieces[i]) \in Seq(Nat)
  <2> DEFINE p == c.pieces[i]
  <2>1. Admitted(p) BY <1>1
  <2> HIDE DEF p
  <2>2. CASE p.conv = "plain"
    <3>1. PieceWords(p) = <<>> BY <2>2 DEF PieceWords
    <3>2. <<>> \in Seq(Nat) OBVIOUS
    <3> QED BY <3>1, <3>2 DEF p
  <2>3. CASE p.conv # "plain"
    <3>1. <<>> \in Seq(Nat) OBVIOUS
    <3>2. PieceWords(p) \in Seq(Nat) BY <2>1, <2>3, <3>1, WordTypes
    <3> QED BY <3>2 DEF p
  <2> QED BY <2>2, <2>3
<1>4. h \in [1 .. n -> Seq(Nat)] BY <1>3 DEF PieceWordsOf
<1>5. WordsOf(c) = First(h, n)
  <2>1. [i \in DOMAIN c.pieces |-> PieceWords(c.pieces[i])] = [i \in 1 .. n |-> h[i]]
    BY <1>1 DEF PieceWordsOf
  <2> QED BY <2>1 DEF WordsOf, Joined, First
<1>6. f \in [0 .. n -> Seq(Nat)] /\ Rest(f, n, h, c.rest)
  <2>1. f = CHOOSE g \in [0 .. n -> Seq(Nat)] : Rest(g, n, h, c.rest) BY DEF AfterOf
  <2> HIDE DEF n, h, f
  <2>2. \E g \in [0 .. n -> Seq(Nat)] : Rest(g, n, h, c.rest) BY <1>1, <1>2, <1>4, RestExists
  <2> QED BY <2>1, <2>2
<1>7. f[0] = First(h, n) \o c.rest
  <2> HIDE DEF n, h, f
  <2>1. n \in Nat /\ h \in [1 .. n -> Seq(Nat)] /\ c.rest \in Seq(Nat) /\ f \in [0 .. n -> Seq(Nat)]
    BY <1>1, <1>2, <1>4, <1>6
  <2>2. Rest(f, n, h, c.rest) BY <1>6
  <2> QED BY <2>1, <2>2, RestIs, ZenonT(90)
<1> QED BY <1>5, <1>6, <1>7

LEMMA TextIs ==
  ASSUME NEW c, WellFormed(c), NEW k \in 0 .. PieceCount(c)
  PROVE  TextUpTo(c, k) = TextTo(c, k)
<1> DEFINE n == PieceCount(c)
           P == c.pieces
           S == {P[i] : i \in DOMAIN P}
           s == SubSeq(P, 1, k)
           t == PieceTextOf(c)
<1>1. n \in Nat /\ DOMAIN P = 1 .. n /\ P \in Seq(S) /\ Len(P) = n
  BY PiecesAre DEF WellFormed, PieceCount
<1>2. DOMAIN s = 1 .. k /\ \A i \in 1 .. k : s[i] = P[i]
  <2> HIDE DEF n, P, S
  <2>1. s = [i \in 1 .. (k - 1) + 1 |-> P[(i + 1) - 1]] BY <1>1
  <2>2. k \in Nat /\ (k - 1) + 1 = k /\ \A i \in 1 .. k : (i + 1) - 1 = i BY <1>1
  <2>3. s = [i \in 1 .. k |-> P[i]] BY <2>1, <2>2
  <2> QED BY <2>3
<1>3. ASSUME NEW i \in 1 .. k PROVE t[i] = StandardPiece(P[i])
  <2>1. i \in 1 .. n BY <1>1
  <2> QED BY <2>1 DEF PieceTextOf
<1>4. TextUpTo(c, k) = FlattenSeq([i \in DOMAIN s |-> StandardPiece(s[i])]) BY DEF TextUpTo, Joined
<1>5. TextTo(c, k) = FlattenSeq([i \in 1 .. k |-> t[i]]) BY DEF TextTo, First
<1> HIDE DEF s, t, P
<1>6. [i \in DOMAIN s |-> StandardPiece(s[i])] = [i \in 1 .. k |-> t[i]] BY <1>2, <1>3
<1> QED BY <1>4, <1>5, <1>6

LEMMA TextsAre ==
  ASSUME NEW c, WellFormed(c), AllFit(c)
  PROVE  /\ TextTo(c, 0) = <<>>
         /\ \A k \in 0 .. PieceCount(c) : TextTo(c, k) \in Seq(Alphabet)
         /\ \A k \in 0 .. PieceCount(c) - 1 : TextTo(c, k + 1) = TextTo(c, k) \o StandardPiece(c.pieces[k + 1])
         /\ TextTo(c, PieceCount(c)) = Joined(StandardPiece, c.pieces)
<1> DEFINE n == PieceCount(c)
           t == PieceTextOf(c)
<1>1. n \in Nat /\ DOMAIN c.pieces = 1 .. n /\ \A i \in 1 .. n : Admitted(c.pieces[i]) BY PiecesAre
<1>2. \A i \in 1 .. n : StandardPiece(c.pieces[i]) \in Seq(Alphabet) BY <1>1, StandardType DEF AllFit
<1>3. t \in [1 .. n -> Seq(Alphabet)] BY <1>2 DEF PieceTextOf
<1>4. \A i \in 1 .. n : t[i] = StandardPiece(c.pieces[i]) BY DEF PieceTextOf
<1>5. \A k : TextTo(c, k) = First(t, k) BY DEF TextTo
<1>6. TextTo(c, n) = Joined(StandardPiece, c.pieces)
  <2>1. [i \in DOMAIN c.pieces |-> StandardPiece(c.pieces[i])] = [i \in 1 .. n |-> t[i]] BY <1>1, <1>4
  <2> QED BY <1>5, <2>1 DEF Joined, First
<1> HIDE DEF n, t
<1>7. /\ First(t, 0) = <<>>
      /\ \A k \in 0 .. n : First(t, k) \in Seq(Alphabet)
      /\ \A k \in 0 .. n - 1 : First(t, k + 1) = First(t, k) \o t[k + 1]
  BY <1>1, <1>3, FirstNext, ZenonT(60)
<1>8. ASSUME NEW k \in 0 .. n - 1 PROVE TextTo(c, k + 1) = TextTo(c, k) \o StandardPiece(c.pieces[k + 1])
  <2>1. k + 1 \in 1 .. n BY <1>1
  <2> QED BY <1>4, <1>5, <1>7, <2>1
<1> QED BY <1>5, <1>6, <1>7, <1>8 DEF n

LEMMA StoredIs ==
  ASSUME NEW c, WellFormed(c), AllFit(c)
  PROVE  /\ StoredTo(c, 0) = <<>>
         /\ \A k \in 0 .. PieceCount(c) : StoredTo(c, k) \in Seq(Nat \X Nat)
         /\ \A k \in 0 .. PieceCount(c) - 1 :
              StoredTo(c, k + 1) = StoredTo(c, k) \o StoredBy(c.pieces[k + 1], Len(TextTo(c, k)))
<1> DEFINE n == PieceCount(c)
           r == StoredOf(c)
           S == Nat \X Nat
<1>1. n \in Nat /\ DOMAIN c.pieces = 1 .. n /\ \A i \in 1 .. n : Admitted(c.pieces[i]) BY PiecesAre
<1>2. ASSUME NEW i \in 1 .. n PROVE StoredBy(c.pieces[i], Len(TextTo(c, i - 1))) \in Seq(S)
  <2> DEFINE p == c.pieces[i]
             l == Len(TextTo(c, i - 1))
             x == <<p.value, l>>
  <2>1. i - 1 \in 0 .. n BY <1>1
  <2>2. TextTo(c, i - 1) \in Seq(Alphabet) BY <2>1, TextsAre
  <2>3. l \in Nat BY <2>2
  <2>4. Admitted(p) BY <1>1
  <2> HIDE DEF p, l
  <2>5. CASE p.conv = "n"
    <3>1. p.value \in 0 .. IntMod - 1 BY <2>4, <2>5, BasesAre DEF Admitted
    <3>2. IntMod \in Nat BY ModsAre
    <3>3. x \in S BY <2>3, <3>1, <3>2
    <3>4. StoredBy(p, l) = <<x>> BY <2>5 DEF StoredBy
    <3> HIDE DEF x, S
    <3>5. <<x>> \in Seq(S) BY <3>3
    <3> QED BY <3>4, <3>5 DEF p, l
  <2>6. CASE p.conv # "n"
    <3>1. StoredBy(p, l) = <<>> BY <2>6 DEF StoredBy
    <3>2. <<>> \in Seq(S) OBVIOUS
    <3> QED BY <3>1, <3>2 DEF p, l
  <2> QED BY <2>5, <2>6
<1>3. r \in [1 .. n -> Seq(S)]
  <2> HIDE DEF S
  <2> QED BY <1>2 DEF StoredOf
<1>4. \A i \in 1 .. n : r[i] = StoredBy(c.pieces[i], Len(TextTo(c, i - 1))) BY DEF StoredOf
<1>5. \A k : StoredTo(c, k) = First(r, k) BY DEF StoredTo
<1> HIDE DEF n, r, S
<1>7. /\ First(r, 0) = <<>>
      /\ \A k \in 0 .. n : First(r, k) \in Seq(S)
      /\ \A k \in 0 .. n - 1 : First(r, k + 1) = First(r, k) \o r[k + 1]
  BY <1>1, <1>3, FirstNext, ZenonT(60)
<1>8. ASSUME NEW k \in 0 .. n - 1
      PROVE  StoredTo(c, k + 1) = StoredTo(c, k) \o StoredBy(c.pieces[k + 1], Len(TextTo(c, k)))
  <2>1. k + 1 \in 1 .. n /\ (k + 1) - 1 = k BY <1>1
  <2>2. r[k + 1] = StoredBy(c.pieces[k + 1], Len(TextTo(c, k))) BY <1>4, <2>1
  <2> QED BY <1>5, <1>7, <2>2
<1> QED BY <1>5, <1>7, <1>8 DEF n, S

(* Where the pieces are in the memory. *)
LEMMA PlaceOf ==
  ASSUME NEW c, WellFormed(c), c.tail = <<>>
  PROVE  /\ Before(c, 0) = 0
         /\ \A k \in 0 .. PieceCount(c) : Before(c, k) \in Nat
         /\ \A k \in 0 .. PieceCount(c) - 1 :
              /\ Before(c, k + 1) = Before(c, k) + Len(PieceText(c.pieces[k + 1]))
              /\ Laid(MemoryOf(c), c.pieces[k + 1], Before(c, k))
         /\ MemoryOf(c) \in Seq(Alphabet) /\ MemoryOf(c)[Before(c, PieceCount(c)) + 1] = NUL
<1> DEFINE n == PieceCount(c)
           g == PieceTexts(c)
           F == FormatOf(c)
           m == MemoryOf(c)
<1>1. n \in Nat BY PiecesAre
<1>2. g \in [1 .. n -> Seq(Chars)] BY PieceTextsType
<1>3. /\ m \in Seq(Alphabet) /\ Len(F) \in Nat /\ Len(m) = Len(F) + 4
      /\ \A i \in 1 .. Len(F) : m[i] = F[i]
      /\ m[Len(F) + 1] = NUL
  BY MemoryIs
<1>4. F = First(g, n)
  <2>1. First(g, n) \in Seq(Chars) /\ F = First(g, n) \o <<>> BY FormatIs
  <2> HIDE DEF F, g, n
  <2> QED BY <2>1, ConcatEmptySeq
<1>5. \A i \in 1 .. n : g[i] = PieceText(c.pieces[i]) BY DEF PieceTexts, PieceCount
<1>6. \A k : Before(c, k) = Len(First(g, k)) BY DEF Before
<1> HIDE DEF n, g, F, m
<1>7. /\ First(g, 0) = <<>>
      /\ \A k \in 0 .. n : First(g, k) \in Seq(Chars)
      /\ \A k \in 0 .. n - 1 : First(g, k + 1) = First(g, k) \o g[k + 1]
  BY <1>1, <1>2, FirstNext, ZenonT(60)
<1>8. Before(c, 0) = 0
  <2>1. Len(<<>>) = 0 OBVIOUS
  <2> QED BY <1>6, <1>7, <2>1
<1>9. \A k \in 0 .. n : Before(c, k) \in Nat BY <1>6, <1>7
<1>10. ASSUME NEW k \in 0 .. n - 1
       PROVE  /\ Before(c, k + 1) = Before(c, k) + Len(PieceText(c.pieces[k + 1]))
              /\ Laid(m, c.pieces[k + 1], Before(c, k))
  <2> DEFINE p == c.pieces[k + 1]
             w == PieceText(p)
             b == Before(c, k)
  <2>1. k \in 0 .. n /\ k + 1 \in 1 .. n BY <1>1
  <2>2. g[k + 1] = w BY <1>5, <2>1
  <2>3. First(g, k) \in Seq(Chars) /\ w \in Seq(Chars) BY <1>2, <1>7, <2>1, <2>2
  <2>4. First(g, k + 1) = First(g, k) \o w BY <1>7, <2>2
  <2>5. b = Len(First(g, k)) BY <1>6
  <2>6. Before(c, k + 1) = b + Len(w)
    <3>1. Before(c, k + 1) = Len(First(g, k + 1)) BY <1>6
    <3> HIDE DEF w, b
    <3>2. Len(First(g, k) \o w) = Len(First(g, k)) + Len(w) BY <2>3, Joins
    <3> QED BY <2>4, <2>5, <3>1, <3>2
  <2>7. FoundIn(F, b, w)
    <3>1. FoundIn(First(g, n), Len(First(g, k)), g[k + 1]) BY <1>1, <1>2, FirstHolds, ZenonT(60)
    <3> QED BY <1>4, <2>2, <2>5, <3>1
  <2> HIDE DEF w, b, p
  <2>8. b + Len(w) <= Len(F) /\ \A j \in 1 .. Len(w) : F[b + j] = w[j] BY <2>7 DEF FoundIn
  <2>9. b \in Nat /\ Len(w) \in Nat BY <2>3, <2>5
  <2>10. ASSUME NEW j \in 1 .. Len(w) PROVE m[b + j] = w[j]
    <3>1. b + j \in 1 .. Len(F) BY <1>3, <2>8, <2>9
    <3> QED BY <1>3, <2>8, <3>1
  <2>11. b + Len(w) < Len(m) BY <1>3, <2>8, <2>9
  <2>12. Laid(m, p, b) BY <2>10, <2>11 DEF Laid, w
  <2> QED BY <2>6, <2>12 DEF p, w, b
<1>11. m[Before(c, n) + 1] = NUL BY <1>3, <1>4, <1>6
<1> QED BY <1>3, <1>8, <1>9, <1>10, <1>11 DEF n, m

(* How far a call has come: between two pieces, with some of the last one   *)
(* still to be put; within a specifier; at the end.                         *)
AtText(c, k, s, o, u, st) ==
  /\ s[1] = "text" /\ s[2] = Before(c, k) + 1 /\ s[6] = AfterOf(c)[k]
  /\ u \o o = TextTo(c, k) /\ st = StoredTo(c, k)
AtPiece(c, k, s, o, u, st) ==
  /\ c.pieces[k + 1].conv # "plain" /\ o = <<>> /\ u = TextTo(c, k) /\ st = StoredTo(c, k)
  /\ Parsed(s, c.pieces[k + 1], Before(c, k), AfterOf(c)[k + 1])
AtEnd(c, s, o, u, st) ==
  /\ s[1] = "end" /\ s[6] = c.rest /\ o = <<>>
  /\ u = TextTo(c, PieceCount(c)) /\ st = StoredTo(c, PieceCount(c))
Come(c, s, o, u, st) ==
  /\ o \in Seq(Alphabet) /\ u \in Seq(Alphabet)
  /\ \/ \E k \in 0 .. PieceCount(c) : AtText(c, k, s, o, u, st)
     \/ \E k \in 0 .. PieceCount(c) - 1 : AtPiece(c, k, s, o, u, st)
     \/ AtEnd(c, s, o, u, st)

LEMMA ActionsAt ==
  /\ Text => place = "text" /\ out = <<>>
  /\ ParseFlags => place = "flags" /\ out = <<>>
  /\ Width => place = "width" /\ out = <<>>
  /\ Precision => place = "precision" /\ out = <<>>
  /\ PrecisionDigits => place = "digits" /\ out = <<>>
  /\ Length => place = "length" /\ out = <<>>
  /\ Length2 => place = "length2" /\ out = <<>>
  /\ Converting => place = "specifier" /\ out = <<>>
  /\ PutNext => out # <<>>
  /\ Finish => place = "end" /\ out = <<>>
<1>1. Text => place = "text" /\ out = <<>> BY DEF Text, Parsing
<1>2. ParseFlags => place = "flags" /\ out = <<>> BY DEF ParseFlags, Parsing
<1>3. Width => place = "width" /\ out = <<>> BY DEF Width, Parsing
<1>4. Precision => place = "precision" /\ out = <<>> BY DEF Precision, Parsing
<1>5. PrecisionDigits => place = "digits" /\ out = <<>> BY DEF PrecisionDigits, Parsing
<1>6. Length => place = "length" /\ out = <<>> BY DEF Length, Parsing
<1>7. Length2 => place = "length2" /\ out = <<>> BY DEF Length2, Parsing
<1>8. Converting => place = "specifier" /\ out = <<>>
  <2>1. Integer => Parsing("specifier") BY DEF Integer, Specifier
  <2>2. Character => Parsing("specifier") BY DEF Character, Specifier
  <2>3. String => Parsing("specifier") BY DEF String, Specifier
  <2>4. Pointer => Parsing("specifier") BY DEF Pointer, Specifier
  <2>5. Percent => Parsing("specifier") BY DEF Percent, Specifier
  <2>6. Count => Parsing("specifier") BY DEF Count, Specifier
  <2>7. OtherSpecifier => Parsing("specifier") BY DEF OtherSpecifier
  <2> QED BY <2>1, <2>2, <2>3, <2>4, <2>5, <2>6, <2>7 DEF Converting, Parsing
<1>9. PutNext => out # <<>> BY DEF PutNext
<1>10. Finish => place = "end" /\ out = <<>> BY DEF Finish
<1> QED BY <1>1, <1>2, <1>3, <1>4, <1>5, <1>6, <1>7, <1>8, <1>9, <1>10

LEMMA PutStep ==
  ASSUME NEW c, NEW k \in 0 .. PieceCount(c), out \in Seq(Alphabet), put \in Seq(Alphabet),
         AtText(c, k, parser, out, put, stored), PutNext
  PROVE  Come(c, parser', out', put', stored') /\ format' = format
<1> DEFINE x == Head(out)
           t == Tail(out)
           o == <<x>>
<1>1. out # <<>> /\ put' = Append(put, x) /\ out' = t BY DEF PutNext, PutChar
<1>2. UNCHANGED <<format, fp, place, flags, width, precision, args, stored>> BY DEF PutNext, parserVars
<1>3. x \in Alphabet /\ t \in Seq(Alphabet) /\ out = o \o t
  <2>1. x \in Alphabet /\ t \in Seq(Alphabet) BY <1>1
  <2>2. out = o \o t
    <3> DEFINE w == o \o t
    <3>1. o \in Seq(Alphabet) /\ Len(o) = 1 /\ o[1] = x BY <2>1
    <3>2. Len(t) = Len(out) - 1 /\ (\A i \in 1 .. Len(out) - 1 : t[i] = out[i + 1]) /\ x = out[1] BY <1>1
    <3>3. Len(out) \in Nat OBVIOUS
    <3> HIDE DEF o, t
    <3>4. w \in Seq(Alphabet) /\ Appended(w, o, t) BY <2>1, <3>1, Behindhand
    <3> HIDE DEF w
    <3>5. Len(w) = Len(out) BY <3>1, <3>2, <3>3, <3>4 DEF Appended
    <3>6. ASSUME NEW i \in 1 .. Len(out) PROVE w[i] = out[i]
      <4>1. CASE i = 1
        <5>1. 1 \in 1 .. Len(o) BY <3>1
        <5> QED BY <3>1, <3>2, <3>4, <4>1, <5>1 DEF Appended
      <4>2. CASE i # 1
        <5> DEFINE j == i - 1
        <5>1. j \in 1 .. Len(t) /\ j \in 1 .. Len(out) - 1 /\ 1 + j = i /\ j + 1 = i BY <3>2, <3>3, <4>2
        <5> HIDE DEF j
        <5>2. w[Len(o) + j] = t[j] BY <3>4, <5>1 DEF Appended
        <5> QED BY <3>1, <3>2, <5>1, <5>2
      <4> QED BY <4>1, <4>2
    <3>7. w = out BY <3>4, <3>5, <3>6, SeqEqual
    <3> QED BY <3>7 DEF w
  <2> QED BY <2>1, <2>2
<1> HIDE DEF x, t
<1>4. put' = put \o o BY <1>1, <1>3
<1>5. o \in Seq(Alphabet) BY <1>3
<1>6. put' \in Seq(Alphabet) BY <1>1, <1>3
<1> HIDE DEF o
<1>7. (put \o o) \o t = put \o (o \o t)
  <2>1. Regroups(Alphabet) BY Regroup, Zenon
  <2>2. \A x1, y1, z1 \in Seq(Alphabet) : (x1 \o y1) \o z1 = x1 \o (y1 \o z1) BY <2>1, Zenon DEF Regroups
  <2> QED BY <1>3, <1>5, <2>2
<1>8. put' \o out' = put \o out BY <1>1, <1>3, <1>4, <1>7
<1>9. parser' = parser BY <1>2 DEF parser
<1>10. AtText(c, k, parser', out', put', stored') BY <1>2, <1>8, <1>9 DEF AtText
<1>11. out' \in Seq(Alphabet) BY <1>1, <1>3
<1> QED BY <1>2, <1>6, <1>10, <1>11 DEF Come

LEMMA EndStep ==
  ASSUME NEW c, AtEnd(c, parser, out, put, stored), Formatting
  PROVE  place' = "idle"
<1>1. place = "end" /\ out = <<>> BY DEF AtEnd, parser
<1>2. Finish BY <1>1, ActionsAt DEF Formatting, Converting
<1> QED BY <1>2 DEF Finish

LEMMA PieceStep ==
  ASSUME NEW c, WellFormed(c), c.tail = <<>>, AllFit(c), NEW k \in 0 .. PieceCount(c) - 1, format = MemoryOf(c),
         AtPiece(c, k, parser, out, put, stored), Counting, Formatting
  PROVE  Come(c, parser', out', put', stored') /\ format' = format
<1> DEFINE p == c.pieces[k + 1]
           b == Before(c, k)
           R == AfterOf(c)[k + 1]
           n == PieceCount(c)
<1>1. n \in Nat /\ (\A i \in 1 .. n : Admitted(c.pieces[i])) /\ DOMAIN c.pieces = 1 .. n BY PiecesAre
<1>2. k + 1 \in 1 .. n /\ k + 1 \in 0 .. n /\ k \in 0 .. n /\ (k + 1) - 1 = k BY <1>1
<1>3. p.conv # "plain" /\ out = <<>> /\ put = TextTo(c, k) /\ stored = StoredTo(c, k) /\ Parsed(parser, p, b, R)
  BY DEF AtPiece
<1>4. Admitted(p) /\ Fits(p) BY <1>1, <1>2 DEF AllFit
<1>5. /\ b \in Nat /\ Before(c, k + 1) = b + Len(PieceText(p)) /\ Laid(format, p, b) /\ format \in Seq(Alphabet)
  BY <1>2, PlaceOf
<1>6. R \in Seq(Nat) BY <1>2, AfterIs
<1>7. put \in Seq(Alphabet) /\ TextTo(c, k + 1) = TextTo(c, k) \o StandardPiece(p) BY <1>2, <1>3, TextsAre
<1>8. stored \in Seq(Nat \X Nat) /\ StoredTo(c, k + 1) = stored \o StoredBy(p, Len(put)) BY <1>2, <1>3, StoredIs
<1>9. p.conv = "n" => Len(put) < SizeMod /\ Len(put) < Modulus(p)
  <2>1. TextUpTo(c, k) = put BY <1>2, <1>3, TextIs
  <2>2. k + 1 \in DOMAIN c.pieces BY <1>1, <1>2
  <2>3. p.conv = "n" => Len(TextUpTo(c, (k + 1) - 1)) < SizeMod /\ Len(TextUpTo(c, (k + 1) - 1)) < Modulus(p)
    BY <2>2 DEF WellFormed
  <2> QED BY <1>2, <2>1, <2>3
<1> HIDE DEF p, b, R, n
<1>10. Placed(format, p, b) BY <1>3, <1>4, <1>5, PlacesAre
<1>11. ASSUME Parsed(parser', p, b, R), out' = out, put' = put, stored' = stored, format' = format
       PROVE  Come(c, parser', out', put', stored') /\ format' = format
  <2>1. AtPiece(c, k, parser', out', put', stored') BY <1>3, <1>11 DEF AtPiece, p, b, R
  <2>2. <<>> \in Seq(Alphabet) OBVIOUS
  <2> QED BY <1>3, <1>7, <1>11, <2>1, <2>2 DEF Come
<1>12. UNCHANGED <<gadgetVars, format, out, stored>> => out' = out /\ put' = put /\ stored' = stored /\ format' = format
  BY DEF gadgetVars
<1>13. CASE AtFlags(parser, p, b, R)
  <2>1. place = "flags" BY <1>13 DEF AtFlags, parser
  <2>2. ParseFlags BY <1>3, <2>1, ActionsAt DEF Formatting, Converting
  <2>3. Parsed(parser', p, b, R) BY <1>3, <1>4, <1>5, <1>6, <1>10, <1>13, <2>2, FlagsStep
  <2> QED BY <1>11, <1>12, <2>2, <2>3 DEF ParseFlags, LoopKeeps
<1>14. CASE AtWidth(parser, p, b, R)
  <2>1. place = "width" BY <1>14 DEF AtWidth, parser
  <2>2. Width BY <1>3, <2>1, ActionsAt DEF Formatting, Converting
  <2>3. Parsed(parser', p, b, R) BY <1>3, <1>4, <1>5, <1>6, <1>10, <1>14, <2>2, WidthStep
  <2> QED BY <1>11, <1>12, <2>2, <2>3 DEF Width, LoopKeeps
<1>15. CASE AtPrecision(parser, p, b, R)
  <2>1. place = "precision" BY <1>15 DEF AtPrecision, parser
  <2>2. Precision BY <1>3, <2>1, ActionsAt DEF Formatting, Converting
  <2>3. Parsed(parser', p, b, R) BY <1>3, <1>4, <1>5, <1>6, <1>10, <1>15, <2>2, PrecisionStep
  <2> QED BY <1>11, <1>12, <2>2, <2>3 DEF Precision, LoopKeeps
<1>16. CASE AtDigits(parser, p, b, R)
  <2>1. place = "digits" BY <1>16 DEF AtDigits, parser
  <2>2. PrecisionDigits BY <1>3, <2>1, ActionsAt DEF Formatting, Converting
  <2>3. Parsed(parser', p, b, R) BY <1>3, <1>4, <1>5, <1>6, <1>10, <1>16, <2>2, DigitsStep
  <2> QED BY <1>11, <1>12, <2>2, <2>3 DEF PrecisionDigits, LoopKeeps
<1>17. CASE AtLength(parser, p, b, R)
  <2>1. place = "length" BY <1>17 DEF AtLength, parser
  <2>2. Length BY <1>3, <2>1, ActionsAt DEF Formatting, Converting
  <2>3. Parsed(parser', p, b, R) BY <1>3, <1>4, <1>5, <1>6, <1>10, <1>17, <2>2, LengthStep
  <2> QED BY <1>11, <1>12, <2>2, <2>3 DEF Length, LoopKeeps
<1>18. CASE AtLength2(parser, p, b, R)
  <2>1. place = "length2" BY <1>18 DEF AtLength2, parser
  <2>2. Length2 BY <1>3, <2>1, ActionsAt DEF Formatting, Converting
  <2>3. Parsed(parser', p, b, R) BY <1>3, <1>4, <1>5, <1>6, <1>10, <1>18, <2>2, Length2Step
  <2> QED BY <1>11, <1>12, <2>2, <2>3 DEF Length2, LoopKeeps
<1>19. CASE AtSpecifier(parser, p, b, R)
  <2>1. place = "specifier" BY <1>19 DEF AtSpecifier, parser
  <2>2. Converting BY <1>3, <2>1, ActionsAt DEF Formatting, Converting
  <2>3. p.conv = "n" => pos \in Nat /\ pos < Modulus(p) /\ pos = Len(put)
    <3>1. Len(put) \in Nat BY <1>7
    <3> QED BY <1>9, <3>1 DEF Counting, Counted
  <2>4. /\ place' = "text" /\ fp' = ConvAt(p, b) + 1 /\ put' = put /\ format' = format
        /\ out' = StandardPiece(p) /\ out' \in Seq(Alphabet) /\ args' = R
        /\ stored' = stored \o StoredBy(p, pos)
    BY <1>3, <1>4, <1>6, <1>5, <1>8, <1>10, <1>19, <2>2, <2>3, ConversionStep
  <2>5. StoredBy(p, pos) = StoredBy(p, Len(put)) BY <2>3 DEF StoredBy
  <2>6. ConvAt(p, b) = b + Len(PieceText(p)) BY <1>10 DEF Placed
  <2>7. fp' = Before(c, k + 1) + 1 BY <1>5, <2>4, <2>6
  <2>8. put' \o out' = TextTo(c, k + 1) BY <1>3, <1>7, <2>4
  <2>9. stored' = StoredTo(c, k + 1) BY <1>8, <2>4, <2>5
  <2>10. AtText(c, k + 1, parser', out', put', stored') BY <2>4, <2>7, <2>8, <2>9 DEF AtText, parser, R
  <2> QED BY <1>2, <1>7, <2>4, <2>10 DEF Come, n
<1> QED BY <1>3, <1>13, <1>14, <1>15, <1>16, <1>17, <1>18, <1>19 DEF Parsed

LEMMA TextStep ==
  ASSUME NEW c, WellFormed(c), c.tail = <<>>, AllFit(c), NEW k \in 0 .. PieceCount(c), format = MemoryOf(c),
         put \in Seq(Alphabet), AtText(c, k, parser, out, put, stored), Text
  PROVE  Come(c, parser', out', put', stored') /\ format' = format
<1> DEFINE p == c.pieces[k + 1]
           b == Before(c, k)
           n == PieceCount(c)
<1>1. n \in Nat /\ (\A i \in 1 .. n : Admitted(c.pieces[i])) /\ DOMAIN c.pieces = 1 .. n BY PiecesAre
<1>2. /\ place = "text" /\ fp = b + 1 /\ args = AfterOf(c)[k] /\ put \o out = TextTo(c, k)
      /\ stored = StoredTo(c, k) /\ out = <<>>
  BY ActionsAt DEF AtText, parser
<1>3. put = TextTo(c, k) BY <1>2, ConcatEmptySeq
<1>4. b \in Nat BY PlaceOf
<1>5. /\ put' = put /\ format' = format /\ args' = args /\ stored' = stored
      /\ Here = NUL => place' = "end" /\ out' = out
      /\ Here # NUL /\ Here = "%" => Advance(1, "flags") /\ flags' = {} /\ width' = 0 /\ precision' = 0 /\ out' = out
      /\ Here # NUL /\ Here # "%" => out' = <<Here>> /\ fp' = fp + 1 /\ place' = "text"
  <2>1. /\ put' = put /\ format' = format /\ args' = args /\ stored' = stored BY DEF Text, gadgetVars
  <2> DEFINE x == Here
  <2>2. Here = x OBVIOUS
  <2> HIDE DEF x
  <2>3. NUL # "%" BY CharsAssumption
  <2>4. x = NUL => place' = "end" /\ out' = out BY <2>2, <2>3, SMT DEF Text
  <2>5. x # NUL /\ x = "%" => Advance(1, "flags") /\ flags' = {} /\ width' = 0 /\ precision' = 0 /\ out' = out
    BY <2>2, SMT DEF Text
  <2>6. x # NUL /\ x # "%" => out' = <<x>> /\ fp' = fp + 1 /\ place' = place
    BY <2>2, SMT DEF Text
  <2> QED BY <1>2, <2>1, <2>4, <2>5, <2>6 DEF x
<1>6. <<>> \in Seq(Alphabet) OBVIOUS
<1>7. CASE k = n
  <2>1. Here = NUL BY <1>2, <1>7, PlaceOf DEF Here
  <2>2. AfterOf(c)[n] = c.rest BY AfterIs DEF Rest
  <2>3. AtEnd(c, parser', out', put', stored') BY <1>2, <1>3, <1>5, <1>7, <2>1, <2>2 DEF AtEnd, parser
  <2> QED BY <1>2, <1>5, <1>6, <2>1, <2>3 DEF Come
<1>8. CASE k # n
  <2>1. k \in 0 .. n - 1 /\ k + 1 \in 1 .. n /\ k + 1 \in 0 .. n BY <1>1, <1>8
  <2>2. Admitted(p) BY <1>1, <2>1
  <2>3. Before(c, k + 1) = b + Len(PieceText(p)) /\ Laid(format, p, b) /\ format \in Seq(Alphabet) BY <2>1, PlaceOf
  <2>4. AfterOf(c)[k] = PieceWords(p) \o AfterOf(c)[k + 1] /\ AfterOf(c)[k + 1] \in Seq(Nat)
    <3>1. PieceWordsOf(c)[k + 1] = PieceWords(p) BY <2>1 DEF PieceWordsOf
    <3> QED BY <2>1, <3>1, AfterIs DEF Rest
  <2>5. TextTo(c, k + 1) = TextTo(c, k) \o StandardPiece(p) /\ TextTo(c, k + 1) \in Seq(Alphabet) BY <2>1, TextsAre
  <2>6. StoredTo(c, k + 1) = StoredTo(c, k) \o StoredBy(p, Len(TextTo(c, k))) /\ StoredTo(c, k) \in Seq(Nat \X Nat)
    BY <2>1, StoredIs
  <2>7. CASE p.conv = "plain"
    <3>1. PieceText(p) = <<p.char>> /\ p.char \in Chars /\ p.char # "%" BY <2>2, <2>7, PlainTextIs
    <3>2. p.char # NUL BY <3>1, CharsAssumption
    <3>3. StandardPiece(p) = <<p.char>> BY <2>7 DEF StandardPiece
    <3>4. PieceWords(p) = <<>> BY <2>7 DEF PieceWords
    <3>5. StoredBy(p, Len(TextTo(c, k))) = <<>> BY <2>7 DEF StoredBy
    <3>6. StoredTo(c, k + 1) = stored BY <1>2, <2>6, <3>5, ConcatEmptySeq
    <3>7. args = AfterOf(c)[k + 1] BY <1>2, <2>4, <3>4, ConcatEmptySeq
    <3> HIDE DEF p, b, n
    <3>8. Here = p.char /\ Before(c, k + 1) = b + 1
      <4>1. Len(PieceText(p)) = 1 /\ PieceText(p)[1] = p.char BY <3>1
      <4>2. format[b + 1] = p.char BY <2>3, <4>1 DEF Laid
      <4> QED BY <1>2, <2>3, <4>1, <4>2 DEF Here
    <3>9. out' = <<p.char>> /\ fp' = Before(c, k + 1) + 1 /\ place' = "text" BY <1>2, <1>5, <3>1, <3>2, <3>8
    <3>10. put' \o out' = TextTo(c, k + 1) BY <1>3, <1>5, <2>5, <3>3, <3>9
    <3>11. AtText(c, k + 1, parser', out', put', stored') BY <1>5, <3>6, <3>7, <3>9, <3>10 DEF AtText, parser
    <3>12. out' \in Seq(Alphabet)
      <4>1. p.char \in Alphabet BY <3>1 DEF Alphabet
      <4> QED BY <3>9, <4>1
    <3> QED BY <1>5, <2>1, <3>11, <3>12 DEF Come, n
  <2>8. CASE p.conv # "plain"
    <3> DEFINE R == AfterOf(c)[k + 1]
    <3>1. R \in Seq(Nat) BY <2>4
    <3>2. Asked(p) BY <2>2, <2>8, AdmittedIs
    <3>3. FlagsUpTo(p, 0) = {} /\ FlagText(p.flags) \in Seq(p.flags) BY <3>2, FlagsFound
    <3>4. PieceWords(p) \o R = FromWidth(p, R) BY <2>2, <2>8, <3>1, WordTypes
    <3>5. args = FromWidth(p, R) BY <1>2, <2>4, <3>4
    <3> HIDE DEF p, b, n, R
    <3>6. Placed(format, p, b) BY <1>4, <2>2, <2>3, <2>8, PlacesAre
    <3>7. Here = "%" BY <1>2, <3>6 DEF Here, Placed
    <3>8. "%" # NUL BY CharsAssumption
    <3>9. Advance(1, "flags") /\ flags' = {} /\ width' = 0 /\ precision' = 0 /\ out' = out BY <1>5, <3>7, <3>8
    <3>10. fp \in b .. ConvAt(p, b) - 1 BY <1>2, <1>4, <3>6 DEF Placed
    <3>11. fp' = fp + 1 /\ place' = "flags" BY <1>4, <3>6, <3>9, <3>10, Advances
    <3>12. fp' = b + 2 + 0 /\ 0 \in 0 .. Len(FlagText(p.flags))
      <4>1. Len(FlagText(p.flags)) \in Nat BY <3>3
      <4>2. fp' = b + 2 + 0 BY <1>2, <1>4, <3>11
      <4> QED BY <4>1, <4>2
    <3>13. parser' = <<"flags", b + 2 + 0, FlagsUpTo(p, 0), 0, 0, FromWidth(p, R)>>
      BY <1>5, <3>3, <3>5, <3>9, <3>11, <3>12 DEF parser
    <3>14. AtFlags(parser', p, b, R) BY <3>12, <3>13 DEF AtFlags
    <3>15. AtPiece(c, k, parser', out', put', stored')
      BY <1>2, <1>3, <1>5, <2>8, <3>9, <3>14 DEF AtPiece, Parsed, p, b, R
    <3> QED BY <1>2, <1>5, <1>6, <2>1, <3>9, <3>15 DEF Come, n
  <2> QED BY <2>7, <2>8
<1> QED BY <1>5, <1>7, <1>8

LEMMA FormattingStep ==
  ASSUME NEW c, WellFormed(c), c.tail = <<>>, AllFit(c), format = MemoryOf(c),
         Come(c, parser, out, put, stored), Counting, Formatting
  PROVE  place' = "idle" \/ (format' = MemoryOf(c) /\ Come(c, parser', out', put', stored'))
<1>1. out \in Seq(Alphabet) /\ put \in Seq(Alphabet) BY DEF Come
<1>2. ASSUME NEW k \in 0 .. PieceCount(c), AtText(c, k, parser, out, put, stored)
      PROVE  Come(c, parser', out', put', stored') /\ format' = format
  <2>1. place = "text" BY <1>2 DEF AtText, parser
  <2>2. Text \/ PutNext BY <2>1, ActionsAt DEF Formatting, Converting
  <2> QED BY <1>1, <1>2, <2>2, TextStep, PutStep
<1>3. ASSUME NEW k \in 0 .. PieceCount(c) - 1, AtPiece(c, k, parser, out, put, stored)
      PROVE  Come(c, parser', out', put', stored') /\ format' = format
  BY <1>3, PieceStep
<1>4. AtEnd(c, parser, out, put, stored) => place' = "idle" BY EndStep
<1> QED BY <1>2, <1>3, <1>4 DEF Come

(* While a call is formatted, the parser has come to a place of its format. *)
ParserInv ==
  call.tail = <<>> /\ AllFit(call) /\ place # "idle" =>
    format = MemoryOf(call) /\ Come(call, parser, out, put, stored)

(* A call begins with nothing put. *)
LEMMA BeginsEmpty ==
  ASSUME NEW c, Make(c), c.to \in {"snprintf", "null", "sprintf", "printf"}
  PROVE  put' = <<>>
BY DEF Make, Snprintf, SnprintfNull, Sprintf, PrintfCall, BufferGadget, NoBufferGadget, FunctionGadget, Opening

LEMMA ParserStep ==
  ASSUME WellFormed(call), Counting, ParserInv, PrintfStep
  PROVE  ParserInv'
<1>1. CASE UNCHANGED <<printfVars, call>>
  <2>1. UNCHANGED <<call, format, place, out, put, stored, parser>>
    BY <1>1 DEF printfVars, parserVars, gadgetVars, parser
  <2> QED BY <2>1 DEF ParserInv
<1>2. ASSUME NEW c, WellFormed(c), Make(c) PROVE ParserInv'
  <2> SUFFICES ASSUME c.tail = <<>>, AllFit(c)
               PROVE  format' = MemoryOf(c) /\ Come(c, parser', out', put', stored')
    <3>1. call' = c BY <1>2, BeginsAt DEF WellFormed
    <3> QED BY <3>1 DEF ParserInv
  <2>1. c.to \in {"snprintf", "null", "sprintf", "printf"} BY <1>2 DEF WellFormed
  <2>2. Begin(MemoryOf(c), WordsOf(c) \o c.rest) /\ put' = <<>> BY <1>2, <2>1, BeginsAt, BeginsEmpty
  <2>3. AfterOf(c)[0] = WordsOf(c) \o c.rest BY <1>2, AfterIs
  <2>4. /\ place' = "text" /\ fp' = 1 /\ format' = MemoryOf(c) /\ args' = AfterOf(c)[0]
        /\ out' = <<>> /\ stored' = <<>>
    BY <2>2, <2>3 DEF Begin
  <2>5. Before(c, 0) = 0 BY <1>2, PlaceOf
  <2>6. TextTo(c, 0) = <<>> /\ StoredTo(c, 0) = <<>> BY <1>2, TextsAre, StoredIs
  <2>7. <<>> \in Seq(Alphabet) /\ 0 + 1 = 1 OBVIOUS
  <2>8. put' \o out' = <<>> BY <2>2, <2>4, <2>7, ConcatEmptySeq
  <2>9. AtText(c, 0, parser', out', put', stored') BY <2>4, <2>5, <2>6, <2>7, <2>8 DEF AtText, parser
  <2>10. 0 \in 0 .. PieceCount(c) BY <1>2, PiecesAre
  <2> QED BY <2>2, <2>4, <2>7, <2>9, <2>10 DEF Come
<1>3. CASE Formatting /\ UNCHANGED call
  <2> SUFFICES ASSUME call.tail = <<>>, AllFit(call), place' # "idle"
               PROVE  format' = MemoryOf(call) /\ Come(call, parser', out', put', stored')
    BY <1>3 DEF ParserInv
  <2>1. place # "idle" BY <1>3, ActionsAt DEF Formatting, Converting, PutNext
  <2>2. format = MemoryOf(call) /\ Come(call, parser, out, put, stored) BY <2>1 DEF ParserInv
  <2> QED BY <1>3, <2>2, FormattingStep
<1> QED BY <1>1, <1>2, <1>3 DEF PrintfStep

LEMMA ParserStandard == ASSUME WellFormed(call), ParserInv PROVE Standard
<1> SUFFICES ASSUME Returned, call.tail = <<>>, \A i \in DOMAIN call.pieces : Fits(call.pieces[i])
             PROVE  /\ put = Joined(StandardPiece, call.pieces)
                    /\ args = call.rest
                    /\ stored = FlattenSeq([i \in DOMAIN call.pieces |-> Stored(i)])
  BY DEF Standard
<1>1. place = "end" /\ AllFit(call) BY DEF Returned, AllFit
<1>2. Come(call, parser, out, put, stored) BY <1>1 DEF ParserInv
<1>3. parser[1] = "end" BY <1>1 DEF parser
<1>4. ASSUME NEW k, AtText(call, k, parser, out, put, stored) PROVE FALSE BY <1>3, <1>4 DEF AtText
<1>5. ASSUME NEW k, AtPiece(call, k, parser, out, put, stored) PROVE FALSE
  BY <1>3, <1>5 DEF AtPiece, Parsed, AtFlags, AtWidth, AtPrecision, AtDigits, AtLength, AtLength2, AtSpecifier
<1>6. AtEnd(call, parser, out, put, stored) BY <1>2, <1>4, <1>5 DEF Come
<1> DEFINE n == PieceCount(call)
<1>7. args = call.rest /\ put = TextTo(call, n) /\ stored = StoredTo(call, n) BY <1>6 DEF AtEnd, parser
<1>8. put = Joined(StandardPiece, call.pieces) BY <1>1, <1>7, TextsAre
<1>9. n \in Nat /\ DOMAIN call.pieces = 1 .. n BY PiecesAre
<1>10. ASSUME NEW i \in 1 .. n PROVE StoredOf(call)[i] = Stored(i)
  <2>1. i - 1 \in 0 .. n BY <1>9
  <2>2. TextUpTo(call, i - 1) = TextTo(call, i - 1) BY <2>1, TextIs
  <2>3. StoredOf(call)[i] = StoredBy(call.pieces[i], Len(TextTo(call, i - 1))) BY DEF StoredOf
  <2> QED BY <2>2, <2>3 DEF StoredBy, Stored
<1>11. StoredTo(call, n) = FlattenSeq([i \in 1 .. n |-> StoredOf(call)[i]]) BY DEF StoredTo, First
<1> HIDE DEF n
<1>12. [i \in 1 .. n |-> StoredOf(call)[i]] = [i \in 1 .. n |-> Stored(i)] BY <1>10
<1> QED BY <1>7, <1>8, <1>9, <1>11, <1>12

(* A call leaves the text that the C standard describes, its caller's other *)
(* arguments and what %n stores, whatever it asks for that fits the buffer  *)
(* of a number: printf.c:1079 to 1351.                                      *)
THEOREM PrintfStandard == Spec => []Standard
<1>1. Init => RomInv /\ GadgetInv /\ ParserInv
  <2>1. Init => RomInv BY RomBegins
  <2>2. Init => GadgetInv BY GadgetInitInv DEF Init, PrintfInit
  <2>3. Init => place = "idle" BY DEF Init, PrintfInit
  <2> QED BY <2>1, <2>2, <2>3 DEF ParserInv
<1>2. RomInv /\ GadgetInv /\ ParserInv /\ [Next]_vars => (RomInv /\ GadgetInv /\ ParserInv)'
  BY RomStep, StepsOfPrintf, PrintfGadget, ParserStep DEF RomInv, GadgetInv
<1>3. RomInv /\ ParserInv => Standard BY ParserStandard DEF RomInv
<1> QED BY <1>1, <1>2, <1>3, PTL DEF Spec

-----------------------------------------------------------------------------
(* What main prints, and when the buffer holds it.                          *)
CountPieces(n)  == <<Plain("V"), Hex(6, Low(n))>>
StatusPieces(s) == <<Plain("A"), Hex(1, s[1]), Plain("I"), Hex(2, s[2]), Plain("/"), Hex(2, s[3]),
                     Plain("O"), Hex(2, s[4]), Plain("/"), Hex(2, s[5]), Plain(Space)>>
ShowsCount  == rom \in {"drawCount", "status", "dead"}
ShowsStatus == rom \in {"drawStatus", "wait"}

(* The cells of a text of n characters in row y, from column x on.          *)
Cells(x, y, n) == {(x + i - 1) * ColumnCells + y : i \in 1 .. n}

(* A call that is over has put the text of the standard and closed the      *)
(* gadget; nothing is left of the text of an earlier round.                 *)
Quiet == Idle => out = <<>>
Called ==
  /\ ShowsCount => \E n \in before .. vblank_count : call.pieces = CountPieces(n)
  /\ ShowsStatus => \E s \in Statuses : call.pieces = StatusPieces(s)
Buffered ==
  ShowsCount \/ ShowsStatus =>
    /\ call.tail = <<>> /\ buffer /\ max_chars = IF TmpSize > MaxSize THEN MaxSize ELSE TmpSize
    /\ Idle => ~open /\ put = Joined(StandardPiece, call.pieces)
HalfRead == rom = "count2" => \E n \in before .. vblank_count : half = FirstHalf(n)
Rows ==
  /\ rom = "start" => vram = Blank(0)
  /\ Line(1) \subseteq Cells(2, 1, 7) /\ Line(2) \subseteq Cells(2, 2, 15)
  /\ rom \in {"status", "dead"} => Idle /\ Shows(1, put)
  /\ rom = "wait" => Idle /\ Shows(2, put)
ScreenInv == Quiet /\ Called /\ Buffered /\ HalfRead /\ Rows

(* The characters that main prints; none of them starts a line.             *)
Visible == {Letters(TRUE)[i] : i \in 1 .. 16} \cup {"V", "A", "I", "O", "/", Space}
LEMMA VisibleAre == Visible \subseteq Chars /\ NUL \notin Visible /\ Newline \notin Visible /\ "0" \in Visible
<1> DEFINE L == Letters(TRUE)
           D == Digits
           X == <<"A", "B", "C", "D", "E", "F">>
<1>1. \A i \in 1 .. 16 : L[i] \in Chars BY LettersAre
<1>2. {"V", "A", "I", "O", "/"} \subseteq Chars /\ Space \in Chars /\ NUL \notin Chars
  BY DisplayAssumption, CharsAssumption
<1>3. L[1] = "0" BY LettersAre
<1>4. Newline \notin {"0", "1", "2", "3", "4", "5", "6", "7", "8", "9", "A", "B", "C", "D", "E", "F", "V", "I", "O", "/"}
  BY Zenon DEF Newline
<1>5. Newline # Space BY Zenon DEF Newline, Space
<1>6. ASSUME NEW i \in 1 .. 16 PROVE L[i] # Newline
  <2>1. L = D \o X BY DEF Letters
  <2>2. D \in Seq({Digits[k] : k \in 1 .. 10}) /\ Len(D) = 10 BY DEF Digits
  <2>3. X \in Seq({"A", "B", "C", "D", "E", "F"}) /\ Len(X) = 6 OBVIOUS
  <2>4. ASSUME NEW k \in 1 .. 10 PROVE D[k] # Newline BY <1>4 DEF Digits
  <2>5. ASSUME NEW k \in 1 .. 6 PROVE X[k] # Newline BY <1>4
  <2>6. L[i] \in {D[k] : k \in 1 .. 10} \cup {X[k] : k \in 1 .. 6}
    <3> DEFINE S == {D[k] : k \in 1 .. 10} \cup {X[k] : k \in 1 .. 6}
               m == 10
               n == 6
    <3>1. D \in Seq(S) /\ X \in Seq(S) /\ Len(D) = m /\ Len(X) = n /\ m \in Nat /\ n \in Nat BY <2>2, <2>3
    <3>2. 16 = m + n OBVIOUS
    <3> HIDE DEF S, D, X, m, n, L
    <3>3. D \o X \in Seq(S) /\ Len(D \o X) = m + n BY <3>1
    <3> DEFINE u == D \o X
    <3>4. u \in Seq(S) /\ Len(u) = m + n BY <3>3
    <3>5. i \in 1 .. Len(u) BY <3>2, <3>4
    <3> HIDE DEF u
    <3>6. u[i] \in S BY <3>4, <3>5
    <3>7. L[i] \in S BY <2>1, <3>6 DEF u
    <3> QED BY <3>7 DEF S
  <2> HIDE DEF L, D, X
  <2> QED BY <2>4, <2>5, <2>6
<1> HIDE DEF L
<1>7. Visible = {L[i] : i \in 1 .. 16} \cup {"V", "A", "I", "O", "/", Space} BY DEF Visible, L
<1>8. Visible \subseteq Chars BY <1>1, <1>2, <1>7
<1>9. Newline \notin Visible BY <1>4, <1>5, <1>6, <1>7
<1>10. "0" \in Visible
  <2>1. 1 \in 1 .. 16 OBVIOUS
  <2> QED BY <1>3, <1>7, <2>1
<1> QED BY <1>2, <1>8, <1>9, <1>10

(* Values that have a digit of their own for every place of the field.      *)
HexFits(w, v) == w \in 1 .. 6 /\ v \in Nat /\ v < Power(16)[w]
LEMMA HexText ==
  ASSUME NEW w, NEW v, HexFits(w, v)
  PROVE  /\ Admitted(Hex(w, v)) /\ Fits(Hex(w, v))
         /\ StandardPiece(Hex(w, v)) \in Seq(Visible) /\ Len(StandardPiece(Hex(w, v))) = w
<1> DEFINE p == Hex(w, v)
           s == Significant(p)
           F == Figures(p)
           a == Amount(p)
<1>1. /\ p.conv = "X" /\ p.flags = {"0"} /\ p.width = w /\ p.precision = None /\ p.star = FALSE
      /\ p.length = <<>> /\ p.value = v
  BY DEF Hex
<1>2. w \in 1 .. 6 /\ v \in Nat /\ v < Power(16)[w] BY DEF HexFits
<1>3. Admitted(p) BY <1>2, TextsAsked
<1>4. w # None BY <1>2 DEF None
<1> HIDE DEF p
<1>5. p.conv \in DOMAIN Bases /\ Radix(p) = 16 /\ ~Signed(p) BY <1>1, BasesAre DEF Radix, Signed
<1>6. IsNumber(p) /\ (a = 0 <=> Given(p) = 0) /\ Given(p) >= 0
  <2>1. p.value \in Int BY <1>1, <1>2
  <2> QED BY <1>1, <1>5, <2>1, NumberIs
<1>7. a \in Nat /\ a <= v
  <2> DEFINE M == Modulus(p)
             r == v % M
  <2>1. M \in Nat \ {0} BY ModulusIs
  <2>2. Given(p) = r BY <1>1, <1>5 DEF Given
  <2> HIDE DEF M
  <2>3. r \in Nat /\ r <= v
    <3>0. v \in Int BY <1>2
    <3>1. v \div M \in Int /\ v % M \in 0 .. M - 1 /\ v = (v \div M) * M + (v % M) BY <2>1, <3>0, Division, Zenon
    <3>2. v \div M \in Nat BY <1>2, <2>1
    <3> DEFINE q == v \div M
    <3>3. q \in Nat /\ v = q * M + r BY <3>1, <3>2
    <3>4. r \in 0 .. M - 1 BY <3>1
    <3> HIDE DEF q, r
    <3>5. q * M \in Nat BY <2>1, <3>3
    <3> QED BY <1>2, <2>1, <3>3, <3>4, <3>5
  <2> HIDE DEF r
  <2> QED BY <1>6, <2>2, <2>3 DEF Amount
<1>8. s \in 0 .. w
  <2>1. s \in Nat /\ (a = 0 => s = 0) /\ (a # 0 => DigitCount(a, 16, s)) BY <1>5, <1>6, Counts
  <2>2. ASSUME a # 0, ~(s <= w) PROVE FALSE
    <3>1. a < Power(16)[s] /\ Power(16)[s - 1] <= a BY <2>1, <2>2 DEF DigitCount
    <3> DEFINE b == 16
    <3>2. b \in Nat \ {0} OBVIOUS
    <3>3. Power(b)[s - 1] <= a /\ v < Power(b)[w] BY <1>2, <3>1
    <3> HIDE DEF b, s, a
    <3>4. w \in Nat /\ s - 1 \in Nat /\ w <= s - 1 BY <1>2, <2>1, <2>2
    <3>5. Power(b)[w] <= Power(b)[s - 1] BY <3>2, <3>4, PowerGrows
    <3>6. Power(b)[w] \in Nat /\ Power(b)[s - 1] \in Nat BY <3>2, <3>4, PowerIs
    <3> QED BY <1>2, <1>7, <3>3, <3>5, <3>6
  <2> HIDE DEF s, a
  <2> QED BY <1>2, <2>1, <2>2
<1>9. Exact(p) = 1 BY <1>1 DEF Exact
<1> DEFINE n == IF s > 1 THEN s ELSE 1
<1>10. n \in 1 .. w
  <2> HIDE DEF s
  <2> QED BY <1>2, <1>8
<1>11. F \in Seq(Visible) /\ Len(F) = n
  <2> DEFINE g(i) == IF i <= n - s THEN "0"
                     ELSE Letters(p.conv = "X")[((Amount(p) \div Power(Radix(p))[n - i]) % Radix(p)) + 1]
  <2>1. F = [i \in 1 .. n |-> g(i)] BY <1>9 DEF Figures
  <2>2. ASSUME NEW i \in 1 .. n PROVE g(i) \in Visible
    <3> DEFINE P == Power(16)[n - i]
               e == a \div P
               r == e % 16
    <3>1. n - i \in Nat
      <4> HIDE DEF n
      <4> QED BY <1>10
    <3>2. P \in Nat /\ P >= 1
      <4> DEFINE b == 16
                 k == n - i
      <4>1. b \in Nat \ {0} /\ k \in Nat /\ k <= k BY <3>1
      <4> HIDE DEF b, k
      <4>2. Power(b)[k] \in Nat /\ Power(b)[k] >= 1 BY <4>1, PowerGrows, PowerIs
      <4> QED BY <4>2 DEF b, k
    <3> HIDE DEF P
    <3>3. e \in Nat
      <4> HIDE DEF a
      <4> QED BY <1>7, <3>2
    <3> HIDE DEF e
    <3>4. r + 1 \in 1 .. 16 BY <3>3
    <3> HIDE DEF r
    <3>5. Letters(TRUE)[r + 1] \in Visible BY <3>4 DEF Visible
    <3>6. (p.conv = "X") = TRUE BY <1>1
    <3>7. Letters(p.conv = "X")[r + 1] \in Visible BY <3>5, <3>6
    <3>8. ((Amount(p) \div Power(Radix(p))[n - i]) % Radix(p)) = r BY <1>5 DEF r, e, P
    <3>9. "0" \in Visible BY VisibleAre
    <3> QED BY <3>7, <3>8, <3>9
  <2> HIDE DEF g, n, F
  <2>3. F = [i \in 1 .. n |-> g(i)] BY <2>1
  <2>4. n \in Nat BY <1>2, <1>10
  <2> QED BY <2>2, <2>3, <2>4
<1> HIDE DEF F, n, s, a
<1>12. Prefix(p) = <<>>
  <2>1. "#" \notin p.flags BY <1>1
  <2>2. Prefix(p) = <<>> \o <<>> BY <1>5, <2>1 DEF Prefix, Alternative
  <2> QED BY <2>2
<1>13. Wide(p) = w BY <1>1, <1>2, <1>4 DEF Wide
<1>14. ~Left(p) /\ ZeroFilled(p)
  <2>1. "-" \notin p.flags /\ "0" \in p.flags BY <1>1
  <2>2. ~Left(p) BY <1>1, <1>2, <2>1 DEF Left
  <2> QED BY <1>1, <2>1, <2>2 DEF ZeroFilled
<1>15. Prefix(p) \o F = F /\ Len(Prefix(p) \o F) = n
  <2>1. <<>> \o F = F BY <1>11, ConcatEmptySeq
  <2> QED BY <1>11, <1>12, <2>1
<1>16. Fits(p)
  <2>1. 6 <= IntegerBuffer /\ IntegerBuffer \in Nat BY ScreenAssumption, WidthAssumption
  <2>2. p.conv # "b" BY <1>1
  <2>3. Len(Prefix(p) \o Figures(p)) <= IntegerBuffer BY <1>2, <1>10, <1>15, <2>1 DEF F
  <2>4. Wide(p) <= IntegerBuffer BY <1>2, <1>13, <2>1
  <2> QED BY <2>2, <2>3, <2>4 DEF Fits
<1> DEFINE Z == Fill(p, Prefix(p) \o F, "0")
<1>17. Z \in Seq(Visible) /\ Len(Z) = w - n
  <2>1. Z = IF w > n THEN Copies("0", w - n) ELSE <<>> BY <1>13, <1>15 DEF Fill
  <2>2. w - n \in Nat /\ w \in Nat /\ n \in Nat BY <1>2, <1>10
  <2>3. "0" \in Visible BY VisibleAre
  <2>4. Copies("0", w - n) \in Seq(Visible) /\ Len(Copies("0", w - n)) = w - n
    BY <2>2, <2>3, CopiesAre
  <2> HIDE DEF Z
  <2> QED BY <1>10, <2>1, <2>2, <2>4
<1>18. StandardPiece(p) = Prefix(p) \o Z \o F
  <2>1. StandardPiece(p) = IntegerText(p) BY <1>1 DEF StandardPiece
  <2> QED BY <1>14, <2>1 DEF IntegerText, F
<1> HIDE DEF Z
<1>19. StandardPiece(p) = Z \o F
  <2>1. <<>> \o Z = Z BY <1>17, ConcatEmptySeq
  <2> QED BY <1>12, <1>18, <2>1
<1>20. Z \o F \in Seq(Visible) /\ Len(Z \o F) = Len(Z) + Len(F) BY <1>11, <1>17
<1>21. Len(Z) + Len(F) = w BY <1>2, <1>10, <1>11, <1>17
<1> QED BY <1>3, <1>16, <1>19, <1>20, <1>21 DEF p

LEMMA PlainText ==
  ASSUME NEW c \in Visible, c # "%"
  PROVE  /\ Admitted(Plain(c)) /\ Fits(Plain(c))
         /\ StandardPiece(Plain(c)) \in Seq(Visible) /\ Len(StandardPiece(Plain(c))) = 1
<1> DEFINE p == Plain(c)
<1>1. Admitted(p) BY VisibleAre, PlainAsked
<1>2. p.conv = "plain" /\ p.char = c BY DEF Plain
<1> HIDE DEF p
<1>3. Fits(p) BY <1>2, BasesAre DEF Fits
<1>4. StandardPiece(p) = <<c>> BY <1>2 DEF StandardPiece
<1> QED BY <1>1, <1>3, <1>4 DEF p

(* A text of n characters, the last piece of which has m.                   *)
Grows(c, k, n) ==
  /\ TextTo(c, k) \in Seq(Visible)
  /\ Len(TextTo(c, k)) = n
LEMMA TextGrows ==
  ASSUME NEW c, WellFormed(c), AllFit(c), NEW k \in 0 .. PieceCount(c) - 1, NEW n, Grows(c, k, n),
         NEW m, StandardPiece(c.pieces[k + 1]) \in Seq(Visible), Len(StandardPiece(c.pieces[k + 1])) = m
  PROVE  Grows(c, k + 1, n + m)
<1> DEFINE s == TextTo(c, k)
           t == StandardPiece(c.pieces[k + 1])
<1>1. TextTo(c, k + 1) = s \o t BY TextsAre
<1>2. s \in Seq(Visible) /\ Len(s) = n BY DEF Grows
<1>3. t \in Seq(Visible) /\ Len(t) = m OBVIOUS
<1> HIDE DEF s, t
<1>4. s \o t \in Seq(Visible) /\ Len(s \o t) = n + m BY <1>2, <1>3
<1> QED BY <1>1, <1>4 DEF Grows

LEMMA NothingYet == ASSUME NEW c, WellFormed(c), AllFit(c) PROVE Grows(c, 0, 0)
<1>1. TextTo(c, 0) = <<>> BY TextsAre
<1>2. <<>> \in Seq(Visible) /\ Len(<<>>) = 0 OBVIOUS
<1> QED BY <1>1, <1>2 DEF Grows

LEMMA CountText ==
  ASSUME NEW c, WellFormed(c), NEW n \in Nat, c.pieces = CountPieces(n)
  PROVE  /\ AllFit(c)
         /\ Joined(StandardPiece, c.pieces) \in Seq(Visible) /\ Len(Joined(StandardPiece, c.pieces)) = 7
         /\ Joined(StandardPiece, c.pieces) = <<"V">> \o StandardPiece(Hex(6, Low(n)))
<1> DEFINE a == Plain("V")
           b == Hex(6, Low(n))
           P == <<a, b>>
           J == Joined(StandardPiece, c.pieces)
<1>1. HexFits(6, Low(n))
  <2>1. Low(n) \in Nat /\ Low(n) < HalfMod BY Parts
  <2>2. HalfMod \in Nat /\ HalfMod <= Power(16)[6] BY DisplayAssumption, ScreenAssumption
  <2> DEFINE k == 16
             m == 6
  <2>3. k \in Nat /\ m \in Nat /\ m \in 1 .. 6 OBVIOUS
  <2>4. HalfMod <= Power(k)[m] BY <2>2
  <2> HIDE DEF k, m
  <2>5. Power(k)[m] \in Nat BY <2>3, PowerIs
  <2>6. m \in 1 .. 6 /\ Low(n) \in Nat /\ Low(n) < Power(k)[m] BY <2>1, <2>2, <2>3, <2>4, <2>5
  <2> QED BY <2>6 DEF HexFits, k, m
<1>2. /\ Admitted(b) /\ Fits(b) /\ StandardPiece(b) \in Seq(Visible) /\ Len(StandardPiece(b)) = 6
  BY <1>1, HexText
<1>3. /\ Fits(a) /\ StandardPiece(a) = <<"V">> /\ StandardPiece(a) \in Seq(Visible) /\ Len(StandardPiece(a)) = 1
  <2>1. "V" \in Visible /\ "V" # "%" BY DEF Visible
  <2>2. StandardPiece(a) = <<"V">> BY DEF StandardPiece, Plain
  <2> QED BY <2>1, <2>2, PlainText
<1>4. c.pieces = P BY DEF CountPieces
<1> HIDE DEF a, b
<1>5. DOMAIN P = 1 .. 2 /\ P[1] = a /\ P[2] = b /\ Len(P) = 2 OBVIOUS
<1> HIDE DEF P
<1>6. AllFit(c) BY <1>2, <1>3, <1>4, <1>5 DEF AllFit
<1>7. PieceCount(c) = 2 BY <1>4, <1>5 DEF PieceCount
<1>8. Grows(c, 0, 0) BY <1>6, NothingYet
<1>9. TextTo(c, 1) = StandardPiece(a) /\ Grows(c, 1, 1)
  <2>1. 0 \in 0 .. PieceCount(c) - 1 /\ 0 + 1 = 1 BY <1>7
  <2>2. TextTo(c, 0) = <<>> /\ TextTo(c, 0 + 1) = TextTo(c, 0) \o StandardPiece(c.pieces[0 + 1])
    BY <1>6, <2>1, TextsAre
  <2>3. TextTo(c, 1) = <<>> \o StandardPiece(a) BY <1>4, <1>5, <2>1, <2>2
  <2>4. TextTo(c, 1) = StandardPiece(a) BY <1>3, <2>3, ConcatEmptySeq
  <2> QED BY <1>3, <2>4 DEF Grows
<1>10. TextTo(c, 2) = StandardPiece(a) \o StandardPiece(b)
  <2>1. 1 \in 0 .. PieceCount(c) - 1 /\ 1 + 1 = 2 BY <1>7
  <2>2. TextTo(c, 1 + 1) = TextTo(c, 1) \o StandardPiece(c.pieces[1 + 1])
    BY <1>6, <2>1, TextsAre
  <2> QED BY <1>4, <1>5, <1>9, <2>1, <2>2
<1>11. J = TextTo(c, 2) BY <1>6, <1>7, TextsAre
<1> DEFINE s == StandardPiece(a)
           t == StandardPiece(b)
<1>12. J = s \o t /\ s \in Seq(Visible) /\ t \in Seq(Visible) /\ Len(s) = 1 /\ Len(t) = 6
  BY <1>2, <1>3, <1>10, <1>11
<1> HIDE DEF s, t, J
<1>13. J \in Seq(Visible) /\ Len(J) = 7
  <2>1. s \o t \in Seq(Visible) /\ Len(s \o t) = Len(s) + Len(t) BY <1>12, Joins
  <2> QED BY <1>12, <2>1
<1> QED BY <1>3, <1>6, <1>12, <1>13 DEF J, s, t, b

(* A piece that fits and has a text of m characters.                        *)
Item(p, m) == Fits(p) /\ StandardPiece(p) \in Seq(Visible) /\ Len(StandardPiece(p)) = m
LEMMA NumbersFit ==
  /\ \A v \in Nat : v < 16 => HexFits(1, v)
  /\ \A v \in Nat : v < 256 => HexFits(2, v)
<1> DEFINE b == 16
           P == Power(b)
<1>1. P[0] = 1 /\ \A k \in Nat : P[k + 1] = b * P[k]
  <2>1. b \in Nat OBVIOUS
  <2> HIDE DEF b
  <2> QED BY <2>1, PowerIs
<1> HIDE DEF P
<1>2. P[0 + 1] = 16 * P[0] /\ P[1 + 1] = 16 * P[1] BY <1>1
<1>3. P[1] = 16 /\ P[2] = 256 BY <1>1, <1>2
<1>4. 1 \in 1 .. 6 /\ 2 \in 1 .. 6 OBVIOUS
<1> QED BY <1>3, <1>4 DEF HexFits, P

LEMMA StatusItems ==
  ASSUME NEW s \in Statuses
  PROVE  LET P == StatusPieces(s)
         IN  /\ DOMAIN P = 1 .. 11 /\ Len(P) = 11
             /\ Item(P[1], 1) /\ Item(P[2], 1) /\ Item(P[3], 1) /\ Item(P[4], 2)
             /\ Item(P[5], 1) /\ Item(P[6], 2) /\ Item(P[7], 1) /\ Item(P[8], 2)
             /\ Item(P[9], 1) /\ Item(P[10], 2) /\ Item(P[11], 1)
<1>1. \A i \in 1 .. 5 : s[i] \in Nat BY DisplayAssumption
<1>2. s[1] < 16 /\ \A i \in 2 .. 5 : s[i] < 256 BY ScreenAssumption
<1>3. 1 \in 1 .. 5 /\ 2 \in 1 .. 5 /\ 3 \in 1 .. 5 /\ 4 \in 1 .. 5 /\ 5 \in 1 .. 5 OBVIOUS
<1>4. HexFits(1, s[1]) BY <1>1, <1>2, <1>3, NumbersFit
<1>5. \A i \in 2 .. 5 : HexFits(2, s[i])
  <2>1. ASSUME NEW i \in 2 .. 5 PROVE HexFits(2, s[i])
    <3>1. i \in 1 .. 5 OBVIOUS
    <3> QED BY <1>1, <1>2, <3>1, NumbersFit
  <2> QED BY <2>1
<1>6. ASSUME NEW w, NEW v, HexFits(w, v) PROVE Item(Hex(w, v), w) BY <1>6, HexText DEF Item
<1>7. ASSUME NEW c \in {"A", "I", "/", "O", Space} PROVE Item(Plain(c), 1)
  <2>1. c \in Visible BY <1>7 DEF Visible
  <2>2. c # "%" BY <1>7, SpaceIs
  <2> QED BY <2>1, <2>2, PlainText DEF Item
<1> DEFINE a == Plain("A")
           b == Hex(1, s[1])
           c == Plain("I")
           d == Hex(2, s[2])
           e == Plain("/")
           f == Hex(2, s[3])
           g == Plain("O")
           h == Hex(2, s[4])
           k == Hex(2, s[5])
           l == Plain(Space)
           t == <<a, b, c, d, e, f, g, h, e, k, l>>
<1>8. Item(a, 1) /\ Item(c, 1) /\ Item(e, 1) /\ Item(g, 1) /\ Item(l, 1) BY <1>7
<1>9. Item(b, 1) BY <1>4, <1>6
<1>10. Item(d, 2) /\ Item(f, 2) /\ Item(h, 2) /\ Item(k, 2)
  <2>1. 2 \in 2 .. 5 /\ 3 \in 2 .. 5 /\ 4 \in 2 .. 5 /\ 5 \in 2 .. 5 OBVIOUS
  <2>2. HexFits(2, s[2]) /\ HexFits(2, s[3]) /\ HexFits(2, s[4]) /\ HexFits(2, s[5]) BY <1>5, <2>1, Zenon
  <2> QED BY <1>6, <2>2, Zenon
<1>11. StatusPieces(s) = t BY DEF StatusPieces
<1> HIDE DEF a, b, c, d, e, f, g, h, k, l
<1>12. /\ DOMAIN t = 1 .. 11 /\ Len(t) = 11
       /\ t[1] = a /\ t[2] = b /\ t[3] = c /\ t[4] = d /\ t[5] = e /\ t[6] = f /\ t[7] = g /\ t[8] = h
       /\ t[9] = e /\ t[10] = k /\ t[11] = l
  OBVIOUS
<1> HIDE DEF t
<1> QED BY <1>8, <1>9, <1>10, <1>11, <1>12

LEMMA StatusText ==
  ASSUME NEW c, WellFormed(c), NEW s \in Statuses, c.pieces = StatusPieces(s)
  PROVE  /\ AllFit(c)
         /\ Joined(StandardPiece, c.pieces) \in Seq(Visible) /\ Len(Joined(StandardPiece, c.pieces)) = 15
<1> DEFINE P == c.pieces
<1>1. /\ DOMAIN P = 1 .. 11 /\ Len(P) = 11
      /\ Item(P[1], 1) /\ Item(P[2], 1) /\ Item(P[3], 1) /\ Item(P[4], 2)
      /\ Item(P[5], 1) /\ Item(P[6], 2) /\ Item(P[7], 1) /\ Item(P[8], 2)
      /\ Item(P[9], 1) /\ Item(P[10], 2) /\ Item(P[11], 1)
  BY StatusItems
<1>2. PieceCount(c) = 11 BY <1>1 DEF PieceCount
<1>3. AllFit(c) BY <1>1 DEF AllFit, Item
<1> DEFINE J == Joined(StandardPiece, P)
<1>4. J = TextTo(c, 11) BY <1>2, <1>3, TextsAre
<1> HIDE DEF P, J
<1>5. ASSUME NEW k \in 0 .. 10, NEW n, Grows(c, k, n), NEW m, Item(P[k + 1], m) PROVE Grows(c, k + 1, n + m)
  <2>1. k \in 0 .. PieceCount(c) - 1 BY <1>2
  <2>2. StandardPiece(c.pieces[k + 1]) \in Seq(Visible) /\ Len(StandardPiece(c.pieces[k + 1])) = m
    BY <1>5 DEF Item, P
  <2> QED BY <1>3, <1>5, <2>1, <2>2, TextGrows, Zenon
<1>6. Grows(c, 0, 0) BY <1>3, NothingYet
<1>7. Grows(c, 0 + 1, 0 + 1)
  <2>1. 0 \in 0 .. 10 /\ Item(P[0 + 1], 1) BY <1>1
  <2> QED BY <1>5, <1>6, <2>1
<1>8. Grows(c, 1 + 1, 1 + 1)
  <2>1. 1 \in 0 .. 10 /\ Item(P[1 + 1], 1) BY <1>1
  <2> QED BY <1>5, <1>7, <2>1
<1>9. Grows(c, 2 + 1, 2 + 1)
  <2>1. 2 \in 0 .. 10 /\ Item(P[2 + 1], 1) BY <1>1
  <2> QED BY <1>5, <1>8, <2>1
<1>10. Grows(c, 3 + 1, 3 + 2)
  <2>1. 3 \in 0 .. 10 /\ Item(P[3 + 1], 2) BY <1>1
  <2> QED BY <1>5, <1>9, <2>1
<1>11. Grows(c, 4 + 1, 5 + 1)
  <2>1. 4 \in 0 .. 10 /\ Item(P[4 + 1], 1) BY <1>1
  <2> QED BY <1>5, <1>10, <2>1
<1>12. Grows(c, 5 + 1, 6 + 2)
  <2>1. 5 \in 0 .. 10 /\ Item(P[5 + 1], 2) BY <1>1
  <2> QED BY <1>5, <1>11, <2>1
<1>13. Grows(c, 6 + 1, 8 + 1)
  <2>1. 6 \in 0 .. 10 /\ Item(P[6 + 1], 1) BY <1>1
  <2> QED BY <1>5, <1>12, <2>1
<1>14. Grows(c, 7 + 1, 9 + 2)
  <2>1. 7 \in 0 .. 10 /\ Item(P[7 + 1], 2) BY <1>1
  <2> QED BY <1>5, <1>13, <2>1
<1>15. Grows(c, 8 + 1, 11 + 1)
  <2>1. 8 \in 0 .. 10 /\ Item(P[8 + 1], 1) BY <1>1
  <2> QED BY <1>5, <1>14, <2>1
<1>16. Grows(c, 9 + 1, 12 + 2)
  <2>1. 9 \in 0 .. 10 /\ Item(P[9 + 1], 2) BY <1>1
  <2> QED BY <1>5, <1>15, <2>1
<1>17. Grows(c, 10 + 1, 14 + 1)
  <2>1. 10 \in 0 .. 10 /\ Item(P[10 + 1], 1) BY <1>1
  <2> QED BY <1>5, <1>16, <2>1
<1>18. Grows(c, 11, 15) BY <1>17
<1> QED BY <1>3, <1>4, <1>18 DEF Grows, J, P

(* The two texts of main. *)
MainText(c) ==
  \/ \E n \in Nat : c.pieces = CountPieces(n)
  \/ \E s \in Statuses : c.pieces = StatusPieces(s)
LEMMA MainTexts ==
  ASSUME NEW c, WellFormed(c), MainText(c)
  PROVE  /\ AllFit(c) /\ Joined(StandardPiece, c.pieces) \in Seq(Visible)
         /\ Len(Joined(StandardPiece, c.pieces)) <= 15
<1> DEFINE J == Joined(StandardPiece, c.pieces)
<1>1. ASSUME NEW n \in Nat, c.pieces = CountPieces(n) PROVE AllFit(c) /\ J \in Seq(Visible) /\ Len(J) = 7
  BY <1>1, CountText
<1>2. ASSUME NEW s \in Statuses, c.pieces = StatusPieces(s) PROVE AllFit(c) /\ J \in Seq(Visible) /\ Len(J) = 15
  BY <1>2, StatusText
<1>3. AllFit(c) /\ J \in Seq(Visible) /\ (Len(J) = 7 \/ Len(J) = 15)
  <2> HIDE DEF J
  <2> QED BY <1>1, <1>2, Zenon DEF MainText
<1>4. Len(J) <= 15
  <2> DEFINE l == Len(J)
  <2>1. l = 7 \/ l = 15 BY <1>3
  <2> HIDE DEF l
  <2>2. l <= 15 BY <2>1
  <2> QED BY <2>2 DEF l
<1> QED BY <1>3, <1>4 DEF J

(* A buffer that holds a text and its NUL reads as the text.                *)
LEMMA ReadBack ==
  ASSUME NEW s \in Seq(Visible), NEW t, NEW n \in Nat, DOMAIN t = 0 .. n - 1, Len(s) < n,
         \A i \in 0 .. Len(s) - 1 : t[i] = s[i + 1], t[Len(s)] = NUL
  PROVE  CharactersOf(t) = s
<1> DEFINE l == Len(s)
           Ends(i) == t[i] = NUL /\ \A j \in 0 .. i - 1 : t[j] # NUL
           k == CHOOSE i \in DOMAIN t : Ends(i)
<1>1. l \in Nat /\ l \in DOMAIN t OBVIOUS
<1>2. \A j \in 0 .. l - 1 : t[j] # NUL
  <2>1. ASSUME NEW j \in 0 .. l - 1 PROVE t[j] # NUL
    <3>1. j + 1 \in 1 .. l BY <1>1
    <3>2. s[j + 1] \in Visible BY <3>1
    <3> QED BY <3>2, VisibleAre
  <2> QED BY <2>1
<1>3. Ends(l) BY <1>2
<1>4. ASSUME NEW i \in DOMAIN t, Ends(i) PROVE i = l
  <2>1. i \in Nat BY <1>1
  <2>2. ~(i < l)
    <3> SUFFICES ASSUME i < l PROVE FALSE OBVIOUS
    <3>1. i \in 0 .. l - 1 BY <1>1, <2>1
    <3> QED BY <1>2, <1>4, <3>1
  <2>3. ~(l < i)
    <3> SUFFICES ASSUME l < i PROVE FALSE OBVIOUS
    <3>1. l \in 0 .. i - 1 BY <1>1, <2>1
    <3> QED BY <1>3, <1>4, <3>1
  <2> HIDE DEF l
  <2> QED BY <1>1, <2>1, <2>2, <2>3
<1>5. k = l
  <2> HIDE DEF Ends, l
  <2> QED BY <1>1, <1>3, <1>4
<1>6. CharactersOf(t) = [i \in 1 .. k |-> t[i - 1]] BY DEF CharactersOf
<1> HIDE DEF k
<1>7. \A i \in 1 .. l : t[i - 1] = s[i]
  <2>1. ASSUME NEW i \in 1 .. l PROVE t[i - 1] = s[i]
    <3>1. i - 1 \in 0 .. Len(s) - 1 /\ (i - 1) + 1 = i BY <1>1
    <3> QED BY <3>1
  <2> QED BY <2>1
<1>8. CharactersOf(t) = [i \in 1 .. l |-> s[i]] BY <1>5, <1>6, <1>7
<1> QED BY <1>8

LEMMA RemainderIs ==
  ASSUME NEW m \in Nat \ {0}, NEW k \in Int, NEW r \in 0 .. m - 1
  PROVE  (k * m + r) % m = r
<1> DEFINE p == k * m + r
<1>1. p = k * m + r OBVIOUS
<1> HIDE DEF p
<1>2. p % m = r BY <1>1, DivMod
<1> QED BY <1>2 DEF p

(* What is drawn without a line break. *)
LEMMA CellsApart ==
  ASSUME NEW y \in 0 .. ColumnCells - 1, NEW i \in Nat, NEW j \in Nat
  PROVE  /\ (i * ColumnCells + y) % ColumnCells = y
         /\ i * ColumnCells + y = j * ColumnCells + y => i = j
<1> DEFINE C == ColumnCells
<1>1. C \in Nat \ {0} BY ScreenAssumption
<1> HIDE DEF C
<1>2. y \in 0 .. C - 1 BY DEF C
<1>3. (i * C + y) % C = y
  <2>1. i \in Int OBVIOUS
  <2> QED BY <1>1, <1>2, <2>1, RemainderIs
<1>4. ASSUME i * C + y = j * C + y PROVE i = j
  <2>1. i * C \in Int /\ j * C \in Int BY <1>1
  <2>2. i * C = j * C
    <3> DEFINE a == i * C
               b == j * C
    <3>1. a \in Int /\ b \in Int /\ y \in Int /\ a + y = b + y BY <1>2, <1>4, <2>1
    <3> HIDE DEF a, b
    <3>2. a = b BY <3>1
    <3> QED BY <3>2 DEF a, b
  <2>3. ASSUME NEW a \in Nat, NEW b \in Nat, a < b PROVE a * C < b * C
    <3>1. (a + 1) * C <= b * C BY <1>1, <2>3, MulMonotone
    <3>2. (a + 1) * C = a * C + C BY <1>1
    <3>3. a * C \in Int /\ b * C \in Int BY <1>1
    <3> QED BY <1>1, <3>1, <3>2, <3>3
  <2>4. ~(i < j) BY <2>1, <2>2, <2>3
  <2>5. ~(j < i) BY <2>1, <2>2, <2>3
  <2> QED BY <2>4, <2>5
<1> QED BY <1>3, <1>4 DEF C

Drawing(x, y, s, cells, new) ==
  /\ DOMAIN new = Cells(x, y, Len(s)) \cup DOMAIN cells
  /\ \A i \in 1 .. Len(s) : new[(x + i - 1) * ColumnCells + y].char = s[i]
LEMMA NoBreaks ==
  ASSUME NEW s \in Seq(Visible), NEW x \in Nat, NEW y \in 0 .. ColumnCells - 1, NEW color, NEW cells
  PROVE  Drawing(x, y, s, cells, Drawn(color, x, y, s, cells))
<1> DEFINE n == Len(s)
           shown == {i \in DOMAIN s : s[i] # Newline}
           at == [i \in shown |-> CellOf(x, y, s, i)]
           place0(i) == (x + i - 1) * ColumnCells + y
           drawn == {at[i] : i \in shown}
           of(o) == [char |-> s[Max({i \in shown : at[i] = o})], color |-> color]
           d == Drawn(color, x, y, s, cells)
<1>1. \A i \in 1 .. n : s[i] # Newline BY VisibleAre
<1>2. shown = 1 .. n BY <1>1
<1>3. ASSUME NEW i \in 1 .. n PROVE CellOf(x, y, s, i) = place0(i)
  <2> DEFINE breaks == {j \in 1 .. i - 1 : s[j] = Newline}
             first == IF breaks = {} THEN 1 ELSE Max(breaks) + 1
  <2>1. breaks = {}
    <3>1. \A j \in 1 .. i - 1 : j \in 1 .. n OBVIOUS
    <3> QED BY <1>1, <3>1
  <2>2. Cardinality(breaks) = 0 BY <2>1, FS_EmptySet
  <2>3. first = 1 BY <2>1
  <2>4. CellOf(x, y, s, i) = (x + Cardinality(breaks) + i - first) * ColumnCells + y BY DEF CellOf
  <2> HIDE DEF breaks, first
  <2>5. x + 0 + i - 1 = x + i - 1 OBVIOUS
  <2> QED BY <2>2, <2>3, <2>4, <2>5
<1>4. \A i \in 1 .. n : at[i] = place0(i) BY <1>2, <1>3
<1>5. ASSUME NEW i \in 1 .. n, NEW j \in 1 .. n, place0(i) = place0(j) PROVE i = j
  <2> DEFINE a == x + i - 1
             b == x + j - 1
  <2>1. a \in Nat /\ b \in Nat OBVIOUS
  <2>2. a * ColumnCells + y = b * ColumnCells + y BY <1>5
  <2> HIDE DEF a, b
  <2>3. a = b BY <2>1, <2>2, CellsApart
  <2> QED BY <2>3 DEF a, b
<1>6. ASSUME NEW i \in 1 .. n PROVE of(place0(i)).char = s[i]
  <2> DEFINE S == {j \in shown : at[j] = place0(i)}
  <2>1. S = {i} BY <1>2, <1>4, <1>5
  <2>2. Max(S) = i
    <3>1. i \in Int OBVIOUS
    <3> HIDE DEF S
    <3> QED BY <2>1, <3>1 DEF Max
  <2>4. of(place0(i)) = [char |-> s[Max(S)], color |-> color] OBVIOUS
  <2> HIDE DEF S, of
  <2> QED BY <2>2, <2>4
<1>7. drawn = {place0(i) : i \in 1 .. n} BY <1>2, <1>4
<1>8. d = [o \in drawn \cup DOMAIN cells |-> IF o \in drawn THEN of(o) ELSE cells[o]] BY DEF Drawn
<1> HIDE DEF of, d, place0, drawn
<1>9. DOMAIN d = drawn \cup DOMAIN cells /\ \A o \in drawn : d[o] = of(o) BY <1>8
<1>10. \A i \in 1 .. n : d[place0(i)].char = s[i] BY <1>6, <1>7, <1>9
<1> QED BY <1>7, <1>9, <1>10 DEF d, place0, Drawing, Cells

(* Drawing a row leaves the other rows as they were.                        *)
RowOf(cells, y) == {o \in DOMAIN cells : o % ColumnCells = y}
LEMMA RowsDrawn ==
  ASSUME NEW s \in Seq(Visible), NEW x \in Nat, NEW y \in 0 .. ColumnCells - 1, NEW cells, NEW new,
         Drawing(x, y, s, cells, new)
  PROVE  /\ RowOf(cells, y) \subseteq Cells(x, y, Len(s)) => RowOf(new, y) = Cells(x, y, Len(s))
         /\ \A z : z # y => RowOf(new, z) = RowOf(cells, z)
<1> DEFINE C == ColumnCells
           n == Len(s)
<1>1. \A o \in Cells(x, y, n) : o % C = y
  <2>1. ASSUME NEW i \in 1 .. n PROVE ((x + i - 1) * C + y) % C = y
    <3> DEFINE a == x + i - 1
    <3>1. a \in Nat OBVIOUS
    <3> HIDE DEF a
    <3>2. (a * C + y) % C = y BY <3>1, CellsApart
    <3> QED BY <3>2 DEF a
  <2> QED BY <2>1 DEF Cells
<1>2. DOMAIN new = Cells(x, y, n) \cup DOMAIN cells BY DEF Drawing
<1> HIDE DEF n
<1>3. RowOf(cells, y) \subseteq Cells(x, y, n) => RowOf(new, y) = Cells(x, y, n) BY <1>1, <1>2 DEF RowOf
<1>4. \A z : z # y => RowOf(new, z) = RowOf(cells, z) BY <1>1, <1>2 DEF RowOf
<1> QED BY <1>3, <1>4 DEF n

LEMMA MainDraws ==
  ASSUME GadgetInv, WellFormed(call), MainText(call), Buffered, ShowsCount \/ ShowsStatus, Idle,
         NEW color, NEW y \in 0 .. ColumnCells - 1, Draw(color, 2, y)
  PROVE  /\ put \in Seq(Visible) /\ put = Joined(StandardPiece, call.pieces)
         /\ Drawing(2, y, put, vram, vram')
<1> DEFINE m == IF TmpSize > MaxSize THEN MaxSize ELSE TmpSize
<1>1. buffer /\ max_chars = m /\ ~open /\ put = Joined(StandardPiece, call.pieces) BY DEF Buffered
<1>2. put \in Seq(Visible) /\ Len(put) <= 15 BY <1>1, MainTexts
<1>3. 15 < m /\ m \in Nat /\ m <= MaxSize BY ScreenAssumption, DisplayAssumption, SizeAssumption
<1> HIDE DEF m
<1>4. Len(put) \in Nat BY <1>2
<1>5. Counted BY <1>2, <1>3, <1>4, SizeAssumption DEF Counted
<1>6. Room = Len(put) BY <1>1, <1>2, <1>3, <1>4 DEF Room
<1>7. (\A i \in 0 .. Len(put) - 1 : text[i] = put[i + 1]) /\ text[Len(put)] = NUL
  <2>1. max_chars > 0 /\ Terminated BY <1>1, <1>3 DEF GadgetInv
  <2> QED BY <1>1, <1>5, <1>6, <2>1 DEF Terminated
<1>8. PICK n \in Nat : DOMAIN text = 0 .. n - 1 /\ (buffer => max_chars <= n) BY DEF GadgetInv, Shape
<1>9. Len(put) < n BY <1>1, <1>2, <1>3, <1>4, <1>8
<1>10. CharactersOf(text) = put BY <1>2, <1>7, <1>8, <1>9, ReadBack
<1>11. vram' = Drawn(color, 2, y, put, vram) BY <1>10 DEF Draw
<1>12. Drawing(2, y, put, vram, vram')
  <2> DEFINE x == 2
  <2>1. x \in Nat OBVIOUS
  <2>2. vram' = Drawn(color, x, y, put, vram) BY <1>11
  <2> HIDE DEF x
  <2>3. Drawing(x, y, put, vram, Drawn(color, x, y, put, vram)) BY <1>2, <2>1, NoBreaks, Zenon
  <2> QED BY <2>2, <2>3 DEF x
<1> QED BY <1>1, <1>2, <1>12

(* printf returns only at its end. *)
LEMMA Ends ==
  ASSUME Formatting, place' = "idle", Quiet
  PROVE  Finish
<1>1. Text => place' # "idle" BY ActionsAt DEF Text, Advance
<1>2. ParseFlags => place' # "idle" BY ActionsAt DEF ParseFlags
<1>3. Width => place' # "idle" BY ActionsAt DEF Width, Advance
<1>4. Precision => place' # "idle" BY ActionsAt DEF Precision, Advance
<1>5. PrecisionDigits => place' # "idle" BY ActionsAt DEF PrecisionDigits, Advance
<1>6. Length => place' # "idle" BY ActionsAt DEF Length, Advance
<1>7. Length2 => place' # "idle" BY ActionsAt DEF Length2, Advance
<1>8. Converting => place' = "text"
  <2>1. Integer => place' = "text" BY DEF Integer, Specifier
  <2>2. Character => place' = "text" BY DEF Character, Specifier
  <2>3. String => place' = "text" BY DEF String, Specifier
  <2>4. Pointer => place' = "text" BY DEF Pointer, Specifier
  <2>5. Percent => place' = "text" BY DEF Percent, Specifier
  <2>6. Count => place' = "text" BY DEF Count, Specifier
  <2>7. OtherSpecifier => place' = "text" BY DEF OtherSpecifier
  <2> QED BY <2>1, <2>2, <2>3, <2>4, <2>5, <2>6, <2>7 DEF Converting
<1>9. PutNext => place' # "idle" BY DEF PutNext, Quiet, Idle
<1> QED BY <1>1, <1>2, <1>3, <1>4, <1>5, <1>6, <1>7, <1>8, <1>9 DEF Formatting, Converting

LEMMA Running == ASSUME Formatting, Quiet PROVE ~Idle
BY ActionsAt DEF Formatting, Converting, Quiet, Idle

LEMMA QuietStep == ASSUME RomInv, Quiet, [Next]_vars PROVE Quiet'
<1>1. CASE UNCHANGED <<printfVars, call>> BY <1>1 DEF Quiet, Idle, printfVars
<1>2. ASSUME NEW c, WellFormed(c), Make(c) PROVE Quiet'
  <2>1. place' = "text"
    BY <1>2 DEF WellFormed, Make, Snprintf, SnprintfNull, Sprintf, PrintfCall, Begin
  <2> QED BY <2>1 DEF Quiet, Idle
<1>3. CASE Formatting
  <2> SUFFICES ASSUME place' = "idle" PROVE out' = <<>> BY DEF Quiet, Idle
  <2>1. Finish BY <1>3, Ends
  <2> QED BY <2>1 DEF Finish
<1> QED BY <1>1, <1>2, <1>3, StepsOfPrintf DEF PrintfStep

(* Steps that leave printf, the screen and the count alone, and go where    *)
(* nothing is promised.                                                     *)
Plainly == {"none", "count", "wait2", "look", "look2", "parked"}
LEMMA PlainStep ==
  ASSUME ScreenInv, Quiet', vram' = vram, rom' \in Plainly
  PROVE  ScreenInv'
<1>1. Called' /\ Buffered' /\ HalfRead' BY DEF Plainly, Called, Buffered, HalfRead, ShowsCount, ShowsStatus
<1>2. Rows' BY DEF ScreenInv, Rows, Plainly, Line
<1> QED BY <1>1, <1>2 DEF ScreenInv

LEMMA SameStep ==
  ASSUME RomInv, ScreenInv, UNCHANGED <<printfVars, call, romVars>>, vblank_count' >= vblank_count, vblank_count' \in Nat
  PROVE  ScreenInv'
<1>1. UNCHANGED <<rom, place, out, put, open, buffer, max_chars, call, vram, half, before, lowFirst>>
  BY DEF printfVars, gadgetVars, romVars
<1>2. \A n \in before .. vblank_count : n \in before .. vblank_count' BY DEF RomInv, CountTypes
<1>3. Quiet' BY <1>1 DEF ScreenInv, Quiet, Idle
<1>4. Called' BY <1>1, <1>2 DEF ScreenInv, Called, ShowsCount, ShowsStatus
<1>5. Buffered' BY <1>1 DEF ScreenInv, Buffered, ShowsCount, ShowsStatus, Idle
<1>6. HalfRead' BY <1>1, <1>2 DEF ScreenInv, HalfRead, FirstHalf
<1>7. Rows' BY <1>1 DEF ScreenInv, Rows, Shows, Line, Idle
<1> QED BY <1>3, <1>4, <1>5, <1>6, <1>7 DEF ScreenInv

LEMMA CalledText == ASSUME RomInv, Called, ShowsCount \/ ShowsStatus PROVE MainText(call)
<1>1. ASSUME NEW n \in before .. vblank_count PROVE n \in Nat BY DEF RomInv, CountTypes
<1> QED BY <1>1 DEF Called, MainText

(* A step of printf: when it is the last, the buffer holds the text.        *)
LEMMA FormattingScreen ==
  ASSUME RomInv, GadgetInv, ParserInv, ScreenInv, Formatting, UNCHANGED <<call, romVars, vblank_count>>
  PROVE  ScreenInv'
<1>1. UNCHANGED <<rom, call, vram, half, before, vblank_count, lowFirst>> BY DEF romVars
<1>2. ~Idle BY Running DEF ScreenInv
<1>3. Quiet'
  <2> SUFFICES ASSUME place' = "idle" PROVE out' = <<>> BY DEF Quiet, Idle
  <2>1. Finish BY Ends DEF ScreenInv
  <2> QED BY <2>1 DEF Finish
<1>4. Called' BY <1>1 DEF ScreenInv, Called, ShowsCount, ShowsStatus
<1>5. buffer' = buffer /\ max_chars' = max_chars
  BY FormattingGadget DEF gadgetVars, PutNext, PutChar, Finish, Terminate
<1>6. Buffered'
  <2> SUFFICES ASSUME ShowsCount \/ ShowsStatus, place' = "idle"
               PROVE  ~open' /\ put' = Joined(StandardPiece, call.pieces)
    <3>1. (ShowsCount \/ ShowsStatus)' => ShowsCount \/ ShowsStatus BY <1>1 DEF ShowsCount, ShowsStatus
    <3>2. (ShowsCount \/ ShowsStatus)' =>
            call'.tail = <<>> /\ buffer' /\ max_chars' = IF TmpSize > MaxSize THEN MaxSize ELSE TmpSize
      BY <1>1, <1>5, <3>1 DEF ScreenInv, Buffered
    <3> QED BY <1>1, <3>1, <3>2 DEF Buffered, Idle
  <2>1. Finish BY Ends DEF ScreenInv
  <2>2. Returned BY <2>1 DEF Finish, Returned
  <2>3. AllFit(call) /\ call.tail = <<>>
    <3>1. MainText(call) BY CalledText DEF ScreenInv
    <3> QED BY <3>1, MainTexts DEF ScreenInv, Buffered, RomInv
  <2>4. put = Joined(StandardPiece, call.pieces) BY <2>2, <2>3, ParserStandard DEF RomInv, Standard, AllFit
  <2>5. put' = put /\ open' = FALSE BY <2>1 DEF Finish, Terminate
  <2> QED BY <2>4, <2>5
<1>7. HalfRead' BY <1>1 DEF ScreenInv, HalfRead, FirstHalf
<1>8. Rows' BY <1>1, <1>2 DEF ScreenInv, Rows, Line
<1> QED BY <1>3, <1>4, <1>6, <1>7, <1>8 DEF ScreenInv

(* A call into the buffer of main. *)
LEMMA ToTmpMade ==
  ASSUME NEW pieces, NEW rest, Make(ToTmp(pieces, rest))
  PROVE  /\ call'.pieces = pieces /\ call'.tail = <<>> /\ place' = "text"
         /\ buffer' /\ max_chars' = IF TmpSize > MaxSize THEN MaxSize ELSE TmpSize
<1> DEFINE c == ToTmp(pieces, rest)
<1>1. c.pieces = pieces /\ c.tail = <<>> /\ c.to = "snprintf" /\ c.size = TmpSize BY DEF ToTmp
<1> HIDE DEF c
<1>2. Make(c) /\ call' = c BY DEF Make, c
<1>3. BufferGadget(c.size, Blank(c.array)) /\ place' = "text" BY <1>1, <1>2 DEF Make, Snprintf, Begin
<1>4. buffer' = TRUE /\ max_chars' = IF c.size > MaxSize THEN MaxSize ELSE c.size
  BY <1>3 DEF BufferGadget, Opening
<1> QED BY <1>1, <1>2, <1>3, <1>4

LEMMA PrintCountScreen == ASSUME RomInv, ScreenInv, Quiet', PrintCount PROVE ScreenInv'
<1>1. /\ rom = "count2" /\ rom' = "drawCount" /\ UNCHANGED <<vram, before, vblank_count>>
      /\ Make(ToTmp(<<Plain("V"), Hex(6, Low(Whole))>>, <<High(Whole)>>))
  BY DEF PrintCount, MainKeeps
<1> DEFINE P == <<Plain("V"), Hex(6, Low(Whole))>>
<1>2. /\ call'.pieces = P /\ call'.tail = <<>> /\ place' = "text"
      /\ buffer' /\ max_chars' = IF TmpSize > MaxSize THEN MaxSize ELSE TmpSize
  BY <1>1, ToTmpMade
<1>3. PICK n \in before .. vblank_count : Low(Whole) = Low(n)
  <2>1. PICK m \in before .. vblank_count : half = FirstHalf(m) BY <1>1 DEF ScreenInv, HalfRead
  <2>2. before \in Nat /\ vblank_count \in Nat /\ before <= vblank_count BY DEF RomInv, CountTypes
  <2>3. HalfMod \in Nat \ {0} BY DisplayAssumption
  <2> DEFINE H == HalfMod
             h == High(vblank_count)
             l == Low(vblank_count)
             g == High(m)
             r == Low(m)
  <2>4. h \in Nat /\ l \in Nat /\ l < H /\ g \in Nat /\ r \in Nat /\ r < H BY <2>2, Parts
  <2>5. Whole = IF lowFirst THEN half + H * h ELSE l + H * half BY DEF Whole
  <2>6. half = IF lowFirst THEN r ELSE g BY <2>1 DEF FirstHalf
  <2>7. Low(Whole) = Whole % H BY DEF Low
  <2> HIDE DEF H, h, l, g, r
  <2>8. H \in Nat \ {0} BY <2>3 DEF H
  <2>9. ASSUME NEW a \in Nat, NEW b \in Nat, b < H PROVE (b + H * a) % H = b
    <3>1. a \in Int /\ b \in 0 .. H - 1 BY <2>8, <2>9
    <3>2. (a * H + b) % H = b BY <2>8, <3>1, RemainderIs
    <3>3. a * H + b = b + H * a BY <2>8
    <3> QED BY <3>2, <3>3
  <2>10. CASE lowFirst
    <3>1. Whole = r + H * h BY <2>5, <2>6, <2>10
    <3>2. Low(Whole) = r BY <2>4, <2>7, <2>9, <3>1
    <3> QED BY <2>1, <3>2 DEF r
  <2>11. CASE ~lowFirst
    <3>1. Whole = l + H * g BY <2>5, <2>6, <2>11
    <3>2. Low(Whole) = l BY <2>4, <2>7, <2>9, <3>1
    <3>3. vblank_count \in before .. vblank_count BY <2>2
    <3> QED BY <3>2, <3>3 DEF l
  <2> QED BY <2>10, <2>11
<1>4. P = CountPieces(n) BY <1>3 DEF CountPieces
<1> HIDE DEF P
<1>5. Called' BY <1>1, <1>2, <1>4 DEF Called, ShowsCount, ShowsStatus
<1>6. Buffered' BY <1>2 DEF Buffered, Idle
<1>7. HalfRead' BY <1>1 DEF HalfRead
<1>8. Rows' BY <1>1 DEF ScreenInv, Rows, Line
<1> QED BY <1>5, <1>6, <1>7, <1>8 DEF ScreenInv

LEMMA PrintStatusScreen == ASSUME RomInv, ScreenInv, Quiet', PrintStatus PROVE ScreenInv'
<1>1. /\ rom = "status" /\ rom' = "drawStatus" /\ UNCHANGED <<vram, before, vblank_count>>
      /\ \E s \in Statuses : Make(ToTmp(StatusPieces(s), <<>>))
  BY DEF PrintStatus, MainKeeps, StatusPieces
<1>2. PICK s \in Statuses : Make(ToTmp(StatusPieces(s), <<>>)) BY <1>1
<1>3. /\ call'.pieces = StatusPieces(s) /\ call'.tail = <<>> /\ place' = "text"
      /\ buffer' /\ max_chars' = IF TmpSize > MaxSize THEN MaxSize ELSE TmpSize
  BY <1>2, ToTmpMade
<1>4. Called' BY <1>1, <1>3 DEF Called, ShowsCount, ShowsStatus
<1>5. Buffered' BY <1>3 DEF Buffered, Idle
<1>6. HalfRead' BY <1>1 DEF HalfRead
<1>7. Rows' BY <1>1 DEF ScreenInv, Rows, Line
<1> QED BY <1>4, <1>5, <1>6, <1>7 DEF ScreenInv

(* The two rows of main. *)
LEMMA TwoRows == 1 \in 0 .. ColumnCells - 1 /\ 2 \in 0 .. ColumnCells - 1 /\ 5 \in 0 .. ColumnCells - 1
BY ScreenAssumption

LEMMA DrawCountScreen == ASSUME RomInv, GadgetInv, ScreenInv, Quiet', DrawCount PROVE ScreenInv'
<1>1. /\ rom = "drawCount" /\ Idle /\ rom' \in {"status", "dead"} /\ Draw(6, 2, 1)
      /\ UNCHANGED <<printfVars, call, before, vblank_count>>
  BY DEF DrawCount, MainKeeps, NoPrintf
<1>2. UNCHANGED <<place, put, open, buffer, max_chars>> BY <1>1 DEF printfVars, gadgetVars
<1>3. PICK n \in before .. vblank_count : call.pieces = CountPieces(n)
  BY <1>1 DEF ScreenInv, Called, ShowsCount
<1>4. n \in Nat BY DEF RomInv, CountTypes
<1>5. ShowsCount /\ ShowsCount' BY <1>1 DEF ShowsCount
<1> DEFINE y == 1
           c == 6
<1>6. /\ put \in Seq(Visible) /\ put = Joined(StandardPiece, call.pieces)
      /\ Drawing(2, y, put, vram, vram')
  <2>1. MainText(call) BY <1>3, <1>4 DEF MainText
  <2>2. y \in 0 .. ColumnCells - 1 /\ Draw(c, 2, y) BY <1>1, TwoRows
  <2>3. WellFormed(call) /\ Buffered BY DEF RomInv, ScreenInv
  <2> HIDE DEF y, c
  <2> QED BY <1>1, <1>5, <2>1, <2>2, <2>3, MainDraws
<1>7. Len(put) = 7 /\ put = <<"V">> \o StandardPiece(Hex(6, Low(n)))
  BY <1>3, <1>4, <1>6, CountText DEF RomInv
<1>8. /\ RowOf(vram, 1) \subseteq Cells(2, 1, 7) => RowOf(vram', 1) = Cells(2, 1, 7)
      /\ RowOf(vram', 2) = RowOf(vram, 2)
  <2> DEFINE x == 2
             z == 2
             l == 7
  <2>1. y \in 0 .. ColumnCells - 1 /\ x \in Nat /\ z # y BY TwoRows
  <2>2. Drawing(x, y, put, vram, vram') /\ Len(put) = l BY <1>6, <1>7
  <2> HIDE DEF x, y, z, l
  <2>3. /\ RowOf(vram, y) \subseteq Cells(x, y, l) => RowOf(vram', y) = Cells(x, y, l)
        /\ RowOf(vram', z) = RowOf(vram, z)
    BY <1>6, <2>1, <2>2, RowsDrawn
  <2> QED BY <2>3 DEF x, y, z, l
<1>9. Line(1) \subseteq Cells(2, 1, 7) /\ Line(2) \subseteq Cells(2, 2, 15) BY DEF ScreenInv, Rows
<1>10. Line(1)' = Cells(2, 1, 7) /\ Line(2)' \subseteq Cells(2, 2, 15) BY <1>8, <1>9 DEF Line, RowOf
<1>11. Shows(1, put)'
  <2>1. \A i \in 1 .. Len(put) : (vram')[(2 + i - 1) * ColumnCells + 1].char = put[i] BY <1>6 DEF Drawing
  <2>2. Line(1)' = {(2 + i - 1) * ColumnCells + 1 : i \in 1 .. Len(put)} BY <1>7, <1>10 DEF Cells
  <2>3. put' = put BY <1>2
  <2> QED BY <2>1, <2>2, <2>3 DEF Shows
<1>12. Rows' BY <1>1, <1>2, <1>10, <1>11 DEF Rows, Idle
<1>13. Called' BY <1>1, <1>3 DEF Called, ShowsCount, ShowsStatus
<1>14. Buffered' BY <1>1, <1>2, <1>5 DEF ScreenInv, Buffered, Idle
<1>15. HalfRead' BY <1>1 DEF HalfRead
<1> QED BY <1>12, <1>13, <1>14, <1>15 DEF ScreenInv

LEMMA DrawStatusScreen == ASSUME RomInv, GadgetInv, ScreenInv, Quiet', DrawStatus PROVE ScreenInv'
<1>1. /\ rom = "drawStatus" /\ Idle /\ rom' = "wait" /\ Draw(6, 2, 2)
      /\ UNCHANGED <<printfVars, call>>
  BY DEF DrawStatus, NoPrintf
<1>2. UNCHANGED <<place, put, open, buffer, max_chars>> BY <1>1 DEF printfVars, gadgetVars
<1>3. PICK s \in Statuses : call.pieces = StatusPieces(s)
  BY <1>1 DEF ScreenInv, Called, ShowsStatus
<1>5. ShowsStatus /\ ShowsStatus' BY <1>1 DEF ShowsStatus
<1> DEFINE y == 2
           c == 6
<1>6. /\ put \in Seq(Visible) /\ put = Joined(StandardPiece, call.pieces)
      /\ Drawing(2, y, put, vram, vram')
  <2>1. MainText(call) BY <1>3 DEF MainText
  <2>2. y \in 0 .. ColumnCells - 1 /\ Draw(c, 2, y) BY <1>1, TwoRows
  <2>3. WellFormed(call) /\ Buffered BY DEF RomInv, ScreenInv
  <2> HIDE DEF y, c
  <2> QED BY <1>1, <1>5, <2>1, <2>2, <2>3, MainDraws
<1>7. Len(put) = 15 BY <1>3, <1>6, StatusText DEF RomInv
<1>8. /\ RowOf(vram, 2) \subseteq Cells(2, 2, 15) => RowOf(vram', 2) = Cells(2, 2, 15)
      /\ RowOf(vram', 1) = RowOf(vram, 1)
  <2> DEFINE x == 2
             z == 1
             l == 15
  <2>1. y \in 0 .. ColumnCells - 1 /\ x \in Nat /\ z # y BY TwoRows
  <2>2. Drawing(x, y, put, vram, vram') /\ Len(put) = l BY <1>6, <1>7
  <2> HIDE DEF x, y, z, l
  <2>3. /\ RowOf(vram, y) \subseteq Cells(x, y, l) => RowOf(vram', y) = Cells(x, y, l)
        /\ RowOf(vram', z) = RowOf(vram, z)
    BY <1>6, <2>1, <2>2, RowsDrawn
  <2> QED BY <2>3 DEF x, y, z, l
<1>9. Line(1) \subseteq Cells(2, 1, 7) /\ Line(2) \subseteq Cells(2, 2, 15) BY DEF ScreenInv, Rows
<1>10. Line(1)' \subseteq Cells(2, 1, 7) /\ Line(2)' = Cells(2, 2, 15) BY <1>8, <1>9 DEF Line, RowOf
<1>11. Shows(2, put)'
  <2>1. \A i \in 1 .. Len(put) : (vram')[(2 + i - 1) * ColumnCells + 2].char = put[i] BY <1>6 DEF Drawing
  <2>2. Line(2)' = {(2 + i - 1) * ColumnCells + 2 : i \in 1 .. Len(put)} BY <1>7, <1>10 DEF Cells
  <2>3. put' = put BY <1>2
  <2> QED BY <2>1, <2>2, <2>3 DEF Shows
<1>12. Rows' BY <1>1, <1>2, <1>10, <1>11 DEF Rows, Idle
<1>13. Called' BY <1>1, <1>3 DEF Called, ShowsCount, ShowsStatus
<1>14. Buffered' BY <1>1, <1>2, <1>5 DEF ScreenInv, Buffered, Idle
<1>15. HalfRead' BY <1>1 DEF HalfRead
<1> QED BY <1>12, <1>13, <1>14, <1>15 DEF ScreenInv

(* The title stands in a row of its own. *)
LEMMA TitleApart ==
  ASSUME NEW z \in {1, 2}
  PROVE  RowOf(Drawn(6, 5, 5, <<"H">>, Blank(0)), z) = {}
<1> DEFINE s == <<"H">>
           c == 6
           x == 5
           y == 5
           C == ColumnCells
           shown == {i \in DOMAIN s : s[i] # Newline}
           at == [i \in shown |-> CellOf(x, y, s, i)]
           drawn == {at[i] : i \in shown}
           d == Drawn(c, x, y, s, Blank(0))
<1>1. \A i \in shown : i = 1 OBVIOUS
<1>2. CellOf(x, y, s, 1) = x * C + y
  <2> DEFINE breaks == {j \in 1 .. 1 - 1 : s[j] = Newline}
             first == IF breaks = {} THEN 1 ELSE Max(breaks) + 1
  <2>1. breaks = {} OBVIOUS
  <2>2. Cardinality(breaks) = 0 BY <2>1, FS_EmptySet
  <2>3. first = 1 BY <2>1
  <2>4. CellOf(x, y, s, 1) = (x + Cardinality(breaks) + 1 - first) * ColumnCells + y BY DEF CellOf
  <2>5. x \in Int OBVIOUS
  <2> HIDE DEF breaks, first, x, y, s
  <2>6. x + 0 + 1 - 1 = x BY <2>5
  <2> QED BY <2>2, <2>3, <2>4, <2>6
<1>3. y \in 0 .. C - 1 /\ x \in Nat /\ y # z BY TwoRows
<1>4. DOMAIN Blank(0) = {} BY DEF Blank
<1> HIDE DEF s, c, x, y
<1>5. DOMAIN d = drawn \cup DOMAIN Blank(0)
  <2>1. d = [o \in drawn \cup DOMAIN Blank(0) |->
               IF o \in drawn THEN [char |-> s[Max({i \in shown : at[i] = o})], color |-> c]
               ELSE Blank(0)[o]]
    BY DEF Drawn
  <2> HIDE DEF d, drawn
  <2> QED BY <2>1
<1>6. \A o \in drawn : o = x * C + y BY <1>1, <1>2
<1>7. (x * C + y) % C = y BY <1>3, CellsApart
<1> HIDE DEF drawn, d, C
<1>8. \A o \in DOMAIN d : o % C # z BY <1>3, <1>4, <1>5, <1>6, <1>7
<1>9. RowOf(d, z) = {} BY <1>8 DEF RowOf, C
<1> QED BY <1>9 DEF d, s, c, x, y

LEMMA StartUpScreen == ASSUME ScreenInv, Quiet', StartUp PROVE ScreenInv'
<1>1. rom' = "count" /\ vram' = Drawn(6, 5, 5, <<"H">>, Blank(0)) BY DEF StartUp
<1>2. Called' /\ Buffered' /\ HalfRead' BY <1>1 DEF Called, Buffered, HalfRead, ShowsCount, ShowsStatus
<1>3. Line(1)' = {} /\ Line(2)' = {} BY <1>1, TitleApart DEF Line, RowOf
<1>4. Rows' BY <1>1, <1>3 DEF Rows
<1> QED BY <1>2, <1>4 DEF ScreenInv

LEMMA ReadScreen == ASSUME RomInv, ScreenInv, Quiet', ReadFirst("count", "count2") PROVE ScreenInv'
<1>1. /\ rom' = "count2" /\ half' = FirstHalf(vblank_count)
      /\ UNCHANGED <<vram, before, vblank_count, lowFirst>>
  BY DEF ReadFirst, MainKeeps, FirstHalf
<1>2. Called' /\ Buffered' BY <1>1 DEF Called, Buffered, ShowsCount, ShowsStatus
<1>3. vblank_count \in before .. vblank_count BY DEF RomInv, CountTypes
<1>4. HalfRead' BY <1>1, <1>3 DEF HalfRead, FirstHalf, Low, High
<1>5. Rows' BY <1>1 DEF ScreenInv, Rows, Line
<1> QED BY <1>2, <1>4, <1>5 DEF ScreenInv

LEMMA ScreenStep ==
  ASSUME RomInv, GadgetInv, ParserInv, ScreenInv, [Next]_vars
  PROVE  ScreenInv'
<1>0. Quiet' BY QuietStep DEF ScreenInv
<1>1. CASE UNCHANGED vars
  <2>1. vblank_count' = vblank_count /\ vblank_count \in Nat BY <1>1 DEF vars, RomInv, CountTypes
  <2>2. UNCHANGED <<printfVars, call, romVars>> BY <1>1 DEF vars
  <2> QED BY <2>1, <2>2, SameStep
<1>2. CASE VblankHandler
  <2>1. vblank_count' = vblank_count + 1 /\ vblank_count \in Nat BY <1>2 DEF VblankHandler, RomInv, CountTypes
  <2>2. UNCHANGED <<printfVars, call, romVars>> BY <1>2 DEF VblankHandler
  <2>3. vblank_count' >= vblank_count /\ vblank_count' \in Nat BY <2>1
  <2> QED BY <2>2, <2>3, SameStep
<1>3. CASE OtherCaller
  <2>1. vram' = vram /\ rom' \in Plainly BY <1>3 DEF OtherCaller, romVars, Plainly
  <2> QED BY <1>0, <2>1, PlainStep
<1>4. CASE rom # "none" /\ Formatting /\ UNCHANGED <<call, romVars, vblank_count>>
  <2>1. UNCHANGED <<call, romVars, vblank_count>> BY <1>4
  <2> QED BY <1>4, <2>1, FormattingScreen
<1>5. CASE StartUp BY <1>0, <1>5, StartUpScreen
<1>6. CASE PrintCount BY <1>0, <1>6, PrintCountScreen
<1>7. CASE DrawCount BY <1>0, <1>7, DrawCountScreen
<1>8. CASE PrintStatus BY <1>0, <1>8, PrintStatusScreen
<1>9. CASE DrawStatus BY <1>0, <1>9, DrawStatusScreen
<1>10. CASE Dead
  <2>1. vram' = vram /\ rom' = IF looping THEN "count" ELSE "parked" BY <1>10 DEF Dead
  <2>2. rom' \in Plainly BY <2>1 DEF Plainly
  <2> QED BY <1>0, <2>1, <2>2, PlainStep
<1>11. CASE Parked BY <1>1, <1>11 DEF Parked
<1>12. CASE ReadFirst("count", "count2") BY <1>0, <1>12, ReadScreen
<1>13. CASE Waiting
  <2>1. vram' = vram /\ rom' \in Plainly BY <1>13 DEF Waiting, ReadFirst, TakeCount, Look, Plainly
  <2> QED BY <1>0, <2>1, PlainStep
<1> QED
  BY <1>1, <1>2, <1>3, <1>4, <1>5, <1>6, <1>7, <1>8, <1>9, <1>10, <1>11, <1>12, <1>13 DEF Next, Main

LEMMA ScreenBegins == Init => ScreenInv
<1> SUFFICES ASSUME Init PROVE ScreenInv OBVIOUS
<1>1. rom \in {"none", "start"} /\ vram = Blank(0) BY DEF Init
<1>2. Quiet BY DEF Init, PrintfInit, Quiet
<1>3. Called /\ Buffered /\ HalfRead BY <1>1 DEF Called, Buffered, HalfRead, ShowsCount, ShowsStatus
<1>4. DOMAIN vram = {} BY <1>1 DEF Blank
<1>5. Line(1) = {} /\ Line(2) = {} BY <1>4 DEF Line
<1>6. Rows BY <1>1, <1>5 DEF Rows
<1> QED BY <1>2, <1>3, <1>6 DEF ScreenInv

LEMMA ScreenShown == ASSUME RomInv, ScreenInv PROVE Shown
<1>1. ASSUME rom = "wait" PROVE Shows(2, put) BY <1>1 DEF ScreenInv, Rows
<1>2. ASSUME rom \in {"status", "dead"}
      PROVE  /\ Shows(1, put)
             /\ \E n \in before .. vblank_count : put = <<"V">> \o StandardPiece(Hex(6, Low(n)))
  <2>1. Idle /\ Shows(1, put) BY <1>2 DEF ScreenInv, Rows
  <2>2. ShowsCount BY <1>2 DEF ShowsCount
  <2>3. PICK n \in before .. vblank_count : call.pieces = CountPieces(n)
    BY <2>2 DEF ScreenInv, Called
  <2>4. put = Joined(StandardPiece, call.pieces) BY <2>1, <2>2 DEF ScreenInv, Buffered
  <2>5. n \in Nat BY DEF RomInv, CountTypes
  <2>6. put = <<"V">> \o StandardPiece(Hex(6, Low(n))) BY <2>3, <2>4, <2>5, CountText DEF RomInv
  <2> QED BY <2>1, <2>6
<1> QED BY <1>1, <1>2 DEF Shown

(* Whatever order the build reads the words of the count in, and wherever a *)
(* vertical blank comes between them, every round leaves on both lines of   *)
(* the screen what was printed and nothing else, and the number is the low  *)
(* word of a count the round could see: main.c:288, 307 and 311.            *)
THEOREM ScreenShows == Spec => []Shown
<1>1. Init => RomInv /\ GadgetInv /\ ParserInv /\ ScreenInv
  <2>1. Init => RomInv BY RomBegins
  <2>2. Init => GadgetInv BY GadgetInitInv DEF Init, PrintfInit
  <2>3. Init => place = "idle" BY DEF Init, PrintfInit
  <2> QED BY <2>1, <2>2, <2>3, ScreenBegins DEF ParserInv
<1>2. RomInv /\ GadgetInv /\ ParserInv /\ [Next]_vars => (RomInv /\ GadgetInv /\ ParserInv)'
  BY RomStep, StepsOfPrintf, PrintfGadget, ParserStep DEF RomInv, GadgetInv
<1>3. RomInv /\ GadgetInv /\ ParserInv /\ ScreenInv /\ [Next]_vars => ScreenInv' BY ScreenStep
<1>4. RomInv /\ ScreenInv => Shown BY ScreenShown
<1> QED BY <1>1, <1>2, <1>3, <1>4, PTL DEF Spec
=============================================================================
