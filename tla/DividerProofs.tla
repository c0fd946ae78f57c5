-------------------------- MODULE DividerProofs --------------------------
(* The divider, for all widths and operands and with resets at any edge: an *)
(* answer is never the one before, and it is the quotient and the remainder *)
(* of the operands of this division.                                        *)
EXTENDS DividerSystem, Induction

Registers == {"busy", "done", "overflow", "dbz", "b1", "pair", "i", "quot", "rem"}

(* A divider between the start of a division of denom and the next start.   *)
(* It is at work, or done; after a division by zero it is done at once.     *)
AtWork(r, denom) ==
  IF denom = 0 THEN r.busy = FALSE /\ r.done = TRUE /\ r.dbz = TRUE
  ELSE /\ r.dbz = FALSE /\ r.b1 = denom
       /\ \/ r.busy = TRUE /\ r.done = FALSE
          \/ r.busy = FALSE /\ r.done = TRUE

(* The execution unit waits, and its start has been seen. *)
Seen == stage = 1 /\ ~div_start

Handshake ==
  /\ phase \in {1, 2} /\ stage \in {0, 1} /\ div_start \in BOOLEAN
  /\ div_16 = [f \in Registers |-> div_16[f]]
  /\ div_32 = [f \in Registers |-> div_32[f]]
  /\ phase = 1 /\ stage = 1 => ~div_start
  /\ Seen => /\ AtWork(div_16, Abs(div_denom, Narrow))
             /\ AtWork(div_32, Abs(div_denom, Wide))

(* What the execution unit finds done divided by its own divisor. *)
OwnAnswer ==
  phase = 1 /\ stage = 1 /\ DivDone =>
    /\ Selected.busy = FALSE
    /\ IF Abs(div_denom, Width) = 0 THEN DivDbz = TRUE
       ELSE DivDbz = FALSE /\ Selected.b1 = Abs(div_denom, Width)

-----------------------------------------------------------------------------
(* One edge of one of the two dividers. *)
LEMMA DivuStep ==
  ASSUME NEW width, NEW r, NEW a, NEW b, r = [f \in Registers |-> r[f]],
         NEW s, s = Divu(width, r, a, b)
  PROVE  /\ s = [f \in Registers |-> s[f]]
         /\ div_start \/ AtWork(r, b) => AtWork(s, b)
<1>1. CASE div_start /\ b = 0
  <2>1. s = DivideByZero(r) BY <1>1 DEF Divu
  <2> QED BY <1>1, <2>1, Zenon DEF DivideByZero, AtWork, Registers
<1>2. CASE div_start /\ b # 0
  <2>1. s = Load(width, r, a, b) BY <1>2 DEF Divu
  <2> QED BY <1>2, <2>1, Zenon DEF Load, AtWork, Registers
<1>3. CASE ~div_start /\ ~r.busy
  <2>1. s = r BY <1>3 DEF Divu
  <2> QED BY <1>3, <2>1
<1>4. CASE ~div_start /\ r.busy /\ r.i = width - 1
  <2>1. s = Finish(width, r) BY <1>4 DEF Divu
  <2> QED BY <1>4, <2>1, Zenon DEF Finish, AtWork, Registers
<1>5. CASE ~div_start /\ r.busy /\ r.i # width - 1
  <2>1. s = [r EXCEPT !.i = @ + 1, !.pair = Iterate(width, r)] BY <1>5 DEF Divu
  <2> QED BY <1>5, <2>1, Zenon DEF AtWork, Registers
<1> QED BY <1>1, <1>2, <1>3, <1>4, <1>5

(* A reset clears the answer of any step, and ends the wait. *)
LEMMA DivuResetStep ==
  ASSUME NEW width, NEW r, NEW a, NEW b, r = [f \in Registers |-> r[f]],
         NEW s, s = DivuReset(width, r, a, b)
  PROVE  s = [f \in Registers |-> s[f]]
<1>1. PICK t : t = Divu(width, r, a, b) OBVIOUS
<1>2. t = [f \in Registers |-> t[f]] BY <1>1, DivuStep
<1>3. s = [t EXCEPT !.busy = FALSE, !.done = FALSE, !.overflow = FALSE,
                    !.dbz = FALSE, !.quot = 0, !.rem = 0]
  BY <1>1 DEF DivuReset
<1> QED BY <1>2, <1>3, Zenon DEF Registers

LEMMA HandshakeInit == Init => Handshake
<1> SUFFICES ASSUME Init PROVE Handshake OBVIOUS
<1>1. DividerOff = [f \in Registers |-> DividerOff[f]]
  BY DEF DividerOff, Registers
<1>2. div_16 = DividerOff /\ div_32 = DividerOff BY DEF Init, DividerInit
<1>3. phase = 2 /\ stage = 1 /\ div_start = TRUE BY DEF Init
<1> QED BY <1>1, <1>2, <1>3 DEF Handshake, Seen

LEMMA HandshakeNext == ASSUME Handshake, [Next]_vars PROVE Handshake'
<1>1. CASE UNCHANGED vars
  BY <1>1 DEF vars, dividerVars, Handshake, Seen, AtWork, Abs, Negative
<1>2. CASE Reset
  <2>1. stage' = 0 /\ phase' = 3 - phase /\ div_start' = div_start BY <1>2 DEF Reset
  <2>2. /\ div_16' = [f \in Registers |-> div_16'[f]]
        /\ div_32' = [f \in Registers |-> div_32'[f]]
    <3>1. /\ div_16' = DivuReset(Narrow, div_16, Abs(div_num, Narrow), Abs(div_denom, Narrow))
          /\ div_32' = DivuReset(Wide, div_32, Abs(div_num, Wide), Abs(div_denom, Wide))
      BY <1>2 DEF Reset, DividerReset
    <3>2. /\ div_16 = [f \in Registers |-> div_16[f]]
          /\ div_32 = [f \in Registers |-> div_32[f]]
      BY DEF Handshake
    <3> QED BY <3>1, <3>2, DivuResetStep
  <2> QED BY <2>1, <2>2 DEF Handshake, Seen
<1>3. CASE Edge
  <2>1. /\ div_16' = Divu(Narrow, div_16, Abs(div_num, Narrow), Abs(div_denom, Narrow))
        /\ div_32' = Divu(Wide, div_32, Abs(div_num, Wide), Abs(div_denom, Wide))
    BY <1>3 DEF Edge, DividerEdge
  <2>2. /\ div_16 = [f \in Registers |-> div_16[f]]
        /\ div_32 = [f \in Registers |-> div_32[f]]
    BY DEF Handshake
  <2>3. /\ div_16' = [f \in Registers |-> div_16'[f]]
        /\ div_32' = [f \in Registers |-> div_32'[f]]
    BY <2>1, <2>2, DivuStep
  <2>4. \/ stage = 0 /\ stage' = 1 /\ div_start' = TRUE /\ phase = 1
        \/ stage' = 0 /\ div_start' = FALSE
        \/ stage' = stage /\ div_start' = FALSE
    BY <1>3, Zenon DEF Edge, StartDivision, TakeResult, NoDivision
  <2>5. phase' = 3 - phase /\ phase \in {1, 2} /\ stage \in {0, 1}
    BY <1>3, Zenon DEF Edge, Handshake
  <2>6. /\ phase' \in {1, 2} /\ stage' \in {0, 1}
        /\ div_start' \in BOOLEAN
    <3>1. phase' \in {1, 2} BY <2>5
    <3>2. stage' \in {0, 1} BY <2>4, <2>5, Zenon
    <3>3. div_start' \in BOOLEAN BY <2>4, Zenon
    <3> QED BY <3>1, <3>2, <3>3, Zenon
  <2>7. phase' = 1 /\ stage' = 1 => ~div_start'
    BY <2>4, <2>5
  <2>8. Seen' => stage = 1 /\ div_denom' = div_denom
    BY <1>3 DEF Edge, StartDivision, TakeResult, NoDivision, HoldOperands, Handshake, Seen
  <2>9. Seen' => /\ AtWork(div_16', Abs(div_denom, Narrow))
                 /\ AtWork(div_32', Abs(div_denom, Wide))
    <3>1. Seen' => /\ div_start \/ AtWork(div_16, Abs(div_denom, Narrow))
                   /\ div_start \/ AtWork(div_32, Abs(div_denom, Wide))
      BY <2>8 DEF Handshake, Seen
    <3> QED BY <2>1, <2>2, <3>1, DivuStep
  <2>10. \A w : Seen' => Abs(div_denom', w) = Abs(div_denom, w)
    BY <2>8
  <2>11. Seen' => /\ AtWork(div_16', Abs(div_denom', Narrow))
                 /\ AtWork(div_32', Abs(div_denom', Wide))
    BY <2>9, <2>10, Zenon
  <2> QED BY <2>3, <2>6, <2>7, <2>11 DEF Handshake
<1> QED BY <1>1, <1>2, <1>3 DEF Next

(* When the execution unit finds done high (v33.sv:1192, OP_DIV and OP_DIVU *)
(* wait for it after setting div_start), the divider it selected has        *)
(* finished, with the divisor of this division, and dbz belongs to it: done *)
(* and dbz of the division before are never seen (nec_divider.sv:46 to 59   *)
(* writes both on the edge that sees the start), whatever came before,      *)
(* resets included.                                                         *)
THEOREM AnswerIsOwn == Spec => []OwnAnswer
<1>1. Init => Handshake BY HandshakeInit
<1>2. Handshake /\ [Next]_vars => Handshake' BY HandshakeNext
<1>3. Handshake => OwnAnswer
  <2> SUFFICES ASSUME Handshake, phase = 1, stage = 1, DivDone
               PROVE  /\ Selected.busy = FALSE
                      /\ IF Abs(div_denom, Width) = 0 THEN DivDbz = TRUE
                         ELSE DivDbz = FALSE /\ Selected.b1 = Abs(div_denom, Width)
    BY DEF OwnAnswer
  <2>1. /\ AtWork(div_16, Abs(div_denom, Narrow))
        /\ AtWork(div_32, Abs(div_denom, Wide))
    BY Zenon DEF Handshake, Seen
  <2>2. AtWork(Selected, Abs(div_denom, Width))
    BY <2>1, Zenon DEF Selected, Width
  <2>3. Selected.done = FALSE => FALSE
    BY Zenon DEF DivDone
  <2> QED BY <2>2, <2>3, Zenon DEF AtWork, DivDbz
<1> QED BY <1>1, <1>2, <1>3, PTL DEF Spec
-----------------------------------------------------------------------------
(* Powers of two. *)
LEMMA Pow2Def ==
  /\ Pow2 \in [Nat -> Nat]
  /\ Pow2 = [n \in Nat |-> IF n = 0 THEN 1 ELSE 2 * Pow2[n - 1]]
<1> DEFINE step == [p \in Nat \X Nat |-> 2 * p[2]]
           P(f) == f = [n \in Nat |-> IF n = 0 THEN 1 ELSE 2 * f[n - 1]]
<1>1. PICK f \in [Nat -> Nat] : Recursion(f, 1, step)
  <2>1. step \in [Nat \X Nat -> Nat] OBVIOUS
  <2>2. 1 \in Nat OBVIOUS
  <2> HIDE DEF step
  <2> QED BY <2>1, <2>2, PrimitiveRecursion
<1>2. P(f)
  <2>1. ASSUME NEW n \in Nat, n # 0 PROVE step[<<n, f[n - 1]>>] = 2 * f[n - 1]
    <3>1. f[n - 1] \in Nat BY <2>1
    <3>2. <<n, f[n - 1]>> \in Nat \X Nat BY <3>1
    <3> QED BY <3>2
  <2> HIDE DEF step
  <2> QED BY <1>1, <2>1 DEF Recursion
<1>3. Pow2 = CHOOSE g : P(g) BY DEF Pow2
<1>4. P(Pow2)
  <2> HIDE DEF P
  <2> QED BY <1>2, <1>3
<1>5. Pow2 \in [Nat -> Nat]
  <2> DEFINE T == {n \in Nat : Pow2[n] \in Nat}
  <2>1. 0 \in T BY <1>4
  <2>2. ASSUME NEW n \in T PROVE n + 1 \in T
    <3>1. Pow2[n + 1] = 2 * Pow2[n] BY <1>4
    <3> QED BY <3>1
  <2>3. T \subseteq Nat OBVIOUS
  <2> HIDE DEF T
  <2>4. T = Nat BY <2>1, <2>2, <2>3, Inductive
  <2>5. \A n \in Nat : Pow2[n] \in Nat BY <2>4 DEF T
  <2> QED BY <1>4, <2>5
<1> QED BY <1>4, <1>5

LEMMA Pow2Zero == Pow2[0] = 1
BY Pow2Def

LEMMA Pow2Next == ASSUME NEW n \in Nat PROVE Pow2[n + 1] = 2 * Pow2[n]
<1>1. n + 1 \in Nat /\ n + 1 # 0 /\ (n + 1) - 1 = n OBVIOUS
<1> QED BY <1>1, Pow2Def

LEMMA Pow2Positive == ASSUME NEW n \in Nat PROVE Pow2[n] \in Nat \ {0}
<1> DEFINE T == {k \in Nat : Pow2[k] \in Nat \ {0}}
<1>1. 0 \in T BY Pow2Zero
<1>2. ASSUME NEW k \in T PROVE k + 1 \in T
  BY Pow2Next
<1>3. T \subseteq Nat OBVIOUS
<1> HIDE DEF T
<1>4. T = Nat BY <1>1, <1>2, <1>3, Inductive
<1> QED BY <1>4 DEF T

LEMMA Pow2Sum == ASSUME NEW m \in Nat, NEW n \in Nat PROVE Pow2[m + n] = Pow2[m] * Pow2[n]
<1> DEFINE T == {k \in Nat : Pow2[m + k] = Pow2[m] * Pow2[k]}
<1>1. 0 \in T
  <2>1. Pow2[m] \in Nat /\ m + 0 = m BY Pow2Positive
  <2> QED BY <2>1, Pow2Zero
<1>2. ASSUME NEW k \in T PROVE k + 1 \in T
  <2>1. k \in Nat /\ Pow2[m + k] = Pow2[m] * Pow2[k] OBVIOUS
  <2> HIDE DEF T
  <2>2. Pow2[(m + k) + 1] = 2 * Pow2[m + k] BY <2>1, Pow2Next
  <2>3. Pow2[k + 1] = 2 * Pow2[k] BY <2>1, Pow2Next
  <2>4. Pow2[m] \in Nat /\ Pow2[k] \in Nat BY <2>1, Pow2Positive
  <2>5. 2 * (Pow2[m] * Pow2[k]) = Pow2[m] * (2 * Pow2[k]) BY <2>4
  <2>6. (m + k) + 1 = m + (k + 1) BY <2>1
  <2>7. Pow2[m + (k + 1)] = Pow2[m] * Pow2[k + 1] BY <2>1, <2>2, <2>3, <2>5, <2>6
  <2> QED BY <2>1, <2>7 DEF T
<1>3. T \subseteq Nat OBVIOUS
<1> HIDE DEF T
<1>4. T = Nat BY <1>1, <1>2, <1>3, Inductive
<1> QED BY <1>4 DEF T

(* One step of a long division, in numbers: W = 2^width, f = 2^i for the i   *)
(* bits of the quotient q that are known, 2e = 2^(width - i) for the t that *)
(* is left of the dividend.                                                 *)
Working(W, e, f, b, rem, q, t, p) ==
  /\ W \in Nat /\ e \in Nat \ {0} /\ f \in Nat \ {0} /\ W = 2 * (e * f)
  /\ b \in 1 .. W - 1 /\ rem \in 0 .. b - 1 /\ q \in 0 .. f - 1 /\ t \in 0 .. 2 * e - 1
  /\ p = 2 * (rem * W + t * f) + q

OneBit(W, e, f, b, rem, q, t, p, c, rem2, t2) ==
  /\ c \in {0, 1} /\ rem2 \in 0 .. b - 1 /\ t2 \in 0 .. e - 1 /\ p \in Nat
  /\ c = 1 <=> p \div W >= b
  /\ c = 1 => (2 * (p - b * W) + 1) % (2 * (W * W)) = 2 * (rem2 * W + t2 * (2 * f)) + (2 * q + c)
  /\ c = 0 => (2 * p) % (2 * (W * W)) = 2 * (rem2 * W + t2 * (2 * f)) + (2 * q + c)
  /\ 2 * q + c \in 0 .. 2 * f - 1
  /\ (q * b + rem) * (2 * e) + t = ((2 * q + c) * b + rem2) * e + t2

LEMMA LongDivision ==
  ASSUME NEW W, NEW e, NEW f, NEW b, NEW rem, NEW q, NEW t, NEW p,
         Working(W, e, f, b, rem, q, t, p)
  PROVE  \E c, rem2, t2 : OneBit(W, e, f, b, rem, q, t, p, c, rem2, t2)
<1> USE DEF Working
<1> DEFINE bit == IF t >= e THEN 1 ELSE 0
           t2 == t - bit * e
           acc == 2 * rem + bit
           low == 2 * (t2 * f) + q
           c == IF acc >= b THEN 1 ELSE 0
           rem2 == acc - c * b
<1>1. bit \in {0, 1} /\ t2 \in 0 .. e - 1 /\ t = t2 + bit * e BY Z3
<1>2. acc \in Nat /\ c \in {0, 1} /\ rem2 \in 0 .. b - 1 
  <2>1. bit \in {0, 1} BY <1>1
  <2> HIDE DEF bit
  <2>2. acc \in Nat BY <2>1
  <2> QED BY <2>1, <2>2
<1> HIDE DEF bit, t2
<1>3. low \in 0 .. W - 1
  <2>1. t2 * f \in Nat BY <1>1
  <2>2. t2 * f <= (e - 1) * f
    <3>1. (e - 1 - t2) * f >= 0 BY <1>1
    <3>2. (e - 1 - t2) * f = (e - 1) * f - t2 * f BY <1>1
    <3> QED BY <3>1, <3>2, <2>1
  <2>3. (e - 1) * f = e * f - f /\ e * f \in Nat BY <1>1
  <2> QED BY <2>1, <2>2, <2>3
<1>4. p = acc * W + low
  <2>1. t * f = t2 * f + bit * (e * f)
    <3>1. t * f = (t2 + bit * e) * f BY <1>1
    <3>2. (t2 + bit * e) * f = t2 * f + bit * (e * f) BY <1>1
    <3> QED BY <3>1, <3>2
  <2>2. acc * W = 2 * (rem * W) + bit * W 
    <3>1. rem \in Nat /\ W \in Nat /\ bit \in Nat BY <1>1
    <3> QED BY <3>1
  <2>3. bit * W = 2 * (bit * (e * f)) BY <1>1
  <2>4. rem * W \in Nat /\ bit * (e * f) \in Nat /\ t2 * f \in Nat BY <1>1
  <2>5. low = 2 * (t2 * f) + q OBVIOUS
  <2> HIDE DEF acc, low
  <2>6. t * f \in Nat BY <2>1, <2>4
  <2>7. p = 2 * (rem * W) + 2 * (t * f) + q BY <2>4, <2>6
  <2>8. 2 * (t * f) = 2 * (t2 * f) + bit * W BY <2>1, <2>3, <2>4
  <2>9. bit * W \in Nat BY <2>3, <2>4
  <2> HIDE DEF rem2, c
  <2> QED BY <2>2, <2>4, <2>5, <2>6, <2>7, <2>8, <2>9, <1>2
<1>5. p \div W = acc /\ p \in Nat
  <2>1. W \in Nat \ {0} /\ acc \in Int BY <1>2
  <2>2. acc * W \in Nat BY <1>2
  <2> HIDE DEF acc, low
  <2> QED BY <2>1, <2>2, <1>3, <1>4, DivMod
<1>6. rem2 * W = acc * W - c * (b * W) /\ rem2 * W \in Nat /\ acc * W \in Nat /\ b * W \in Nat
  <2> HIDE DEF acc, c
  <2> QED BY <1>2
<1>7. p - c * (b * W) = rem2 * W + low
  <2> HIDE DEF acc, low, rem2, c
  <2>1. c * (b * W) \in Nat BY <1>2, <1>6
  <2> QED BY <1>3, <1>4, <1>6, <2>1
<1>8. 2 * (p - c * (b * W)) + c = 2 * (rem2 * W + t2 * (2 * f)) + (2 * q + c)
  <2>1. t2 * (2 * f) = 2 * (t2 * f) /\ t2 * f \in Nat BY <1>1
  <2> HIDE DEF rem2, acc, c
  <2> QED BY <2>1, <1>6, <1>7, <1>2
<1>9. 2 * (p - c * (b * W)) + c \in 0 .. 2 * (W * W) - 1
  <2>1. rem2 * W <= (W - 2) * W
    <3>1. rem2 \in Nat /\ rem2 <= W - 2 BY <1>2
    <3> HIDE DEF rem2
    <3> QED BY <3>1, MulMonotone
  <2>2. (W - 2) * W = W * W - 2 * W /\ W * W \in Nat OBVIOUS
  <2> HIDE DEF rem2, low, acc, c
  <2>3. rem2 * W + low \in 0 .. W * W - W - 1 BY <2>1, <2>2, <1>3, <1>6
  <2> QED BY <2>3, <2>2, <1>7, <1>2
<1>10. ASSUME NEW x \in 0 .. 2 * (W * W) - 1 PROVE x % (2 * (W * W)) = x
  <2>1. W * W \in Nat /\ W # 0 OBVIOUS
  <2>2. 2 * (W * W) \in Nat \ {0} BY <2>1
  <2>3. x = 0 * (2 * (W * W)) + x BY <2>2
  <2> QED BY <2>2, <2>3, DivMod
<1>11. (2 * (p - c * (b * W)) + c) % (2 * (W * W)) = 2 * (rem2 * W + t2 * (2 * f)) + (2 * q + c)
  <2> HIDE DEF rem2, acc, c
  <2> QED BY <1>8, <1>9, <1>10
<1>12. (q * b + rem) * (2 * e) + t = ((2 * q + c) * b + rem2) * e + t2
  <2> HIDE DEF c
  <2>1. rem2 = (2 * rem + bit) - c * b OBVIOUS
  <2> HIDE DEF rem2
  <2>2. (2 * q + c) * b + rem2 = 2 * (q * b) + 2 * rem + bit BY <2>1, <1>1, <1>2
  <2>3. q * b \in Nat OBVIOUS
  <2>4. ((2 * q + c) * b + rem2) * e = (2 * (q * b) + 2 * rem + bit) * e BY <2>2
  <2>5. (2 * (q * b) + 2 * rem + bit) * e = (q * b + rem) * (2 * e) + bit * e BY <2>3, <1>1
  <2>6. (q * b + rem) * (2 * e) \in Nat /\ bit * e \in Nat BY <2>3, <1>1
  <2> QED BY <2>4, <2>5, <2>6, <1>1
<1>13. c = 1 => 2 * (p - c * (b * W)) + c = 2 * (p - b * W) + 1
  <2> HIDE DEF c
  <2> QED BY <1>6
<1>14. c = 0 => 2 * (p - c * (b * W)) + c = 2 * p
  <2> HIDE DEF c
  <2> QED BY <1>6, <1>5
<1>15. c = 1 <=> p \div W >= b BY <1>5
<1>16. 2 * q + c \in 0 .. 2 * f - 1 BY <1>2
<1> HIDE DEF c, rem2, acc, low
<1>17. OneBit(W, e, f, b, rem, q, t, p, c, rem2, t2)
  BY <1>1, <1>2, <1>5, <1>11, <1>12, <1>13, <1>14, <1>15, <1>16 DEF OneBit
<1> QED BY <1>17

(* With i bits of the quotient of a by b known, the pair holds the          *)
(* remainder so far, the rest of the dividend and these bits.               *)
Known(width, i, b, pair, a) ==
  \E rem \in 0 .. b - 1, q \in 0 .. Pow2[i] - 1, t \in 0 .. Pow2[width - i] - 1 :
    /\ pair = 2 * (rem * Pow2[width] + t * Pow2[i]) + q
    /\ a = (q * b + rem) * Pow2[width - i] + t

(* Iterate finds the next bit. *)
LEMMA IterateStep ==
  ASSUME NEW width \in Nat \ {0}, NEW i \in 0 .. width - 1, NEW b \in 1 .. Pow2[width] - 1,
         NEW a, NEW r, r.b1 = b, Known(width, i, b, r.pair, a)
  PROVE  Known(width, i + 1, b, Iterate(width, r), a)
<1>0. PICK rem \in 0 .. b - 1, q \in 0 .. Pow2[i] - 1, t \in 0 .. Pow2[width - i] - 1 :
        /\ r.pair = 2 * (rem * Pow2[width] + t * Pow2[i]) + q
        /\ a = (q * b + rem) * Pow2[width - i] + t
  BY DEF Known
<1> DEFINE W == Pow2[width]
           e == Pow2[width - (i + 1)]
           f == Pow2[i]
           p == r.pair
<1>1. W \in Nat /\ e \in Nat \ {0} /\ f \in Nat \ {0}
  BY Pow2Positive
<1>2. Pow2[width - i] = 2 * e /\ Pow2[i + 1] = 2 * f
  <2>1. width - (i + 1) \in Nat /\ (width - (i + 1)) + 1 = width - i OBVIOUS
  <2> QED BY <2>1, Pow2Next
<1>3. W = 2 * (e * f)
  <2>1. W = Pow2[width - i] * f
    <3>1. width - i \in Nat /\ (width - i) + i = width OBVIOUS
    <3> QED BY <3>1, Pow2Sum
  <2> HIDE DEF W, e, f
  <2> QED BY <2>1, <1>1, <1>2
<1>4. Pow2[2 * width + 1] = 2 * (W * W)
  <2>1. width + width = 2 * width /\ width + width \in Nat OBVIOUS
  <2>2. Pow2[width + width] = W * W BY Pow2Sum
  <2> QED BY <2>1, <2>2, Pow2Next
<1>5. PICK c, rem2, t2 : OneBit(W, e, f, b, rem, q, t, p, c, rem2, t2)
  <2>1. b \in 1 .. W - 1 /\ rem \in 0 .. b - 1 /\ q \in 0 .. f - 1 /\ t \in 0 .. 2 * e - 1
    BY <1>2
  <2>2. p = 2 * (rem * W + t * f) + q BY <1>0
  <2> HIDE DEF W, e, f, p
  <2>3. Working(W, e, f, b, rem, q, t, p) BY <1>1, <1>3, <2>1, <2>2 DEF Working
  <2> QED BY <2>3, LongDivision
<1>6. Iterate(width, r) = 2 * (rem2 * W + t2 * (2 * f)) + (2 * q + c)
  <2>1. Iterate(width, r) = IF p \div W >= b THEN (2 * (p - b * W) + 1) % (2 * (W * W))
                                             ELSE (2 * p) % (2 * (W * W))
    BY <1>4 DEF Iterate, Acc, Pair
  <2> HIDE DEF W, e, f, p
  <2>2. CASE c = 1 BY <2>1, <2>2, <1>5 DEF OneBit
  <2>3. CASE c = 0 BY <2>1, <2>3, <1>5 DEF OneBit
  <2> QED BY <2>2, <2>3, <1>5 DEF OneBit
<1>7. a = ((2 * q + c) * b + rem2) * e + t2
  <2>1. a = (q * b + rem) * (2 * e) + t BY <1>0, <1>2
  <2> HIDE DEF W, e, f, p
  <2> QED BY <2>1, <1>5 DEF OneBit
<1>8. rem2 \in 0 .. b - 1 /\ t2 \in 0 .. e - 1 /\ 2 * q + c \in 0 .. 2 * f - 1
  <2> HIDE DEF W, e, f, p
  <2> QED BY <1>5 DEF OneBit
<1> HIDE DEF f, p
<1> QED BY <1>2, <1>6, <1>7, <1>8 DEF Known
-----------------------------------------------------------------------------
(* A divider that has seen the start of a division of a by b. *)
Dividing(width, r, a, b) ==
  b # 0 =>
    \/ /\ r.busy = TRUE /\ r.i \in 0 .. width - 1 /\ r.b1 = b
       /\ Known(width, r.i, b, r.pair, a)
    \/ /\ r.busy = FALSE
       /\ r.quot \in Nat /\ r.rem \in 0 .. b - 1 /\ a = r.quot * b + r.rem
       /\ r.overflow = (r.quot >= Pow2[width \div 2])

OperandsInRange ==
  /\ div_wide \in BOOLEAN
  /\ Fits(div_num, Width) /\ Fits(div_denom, Width)

Divides ==
  /\ OperandsInRange
  /\ Seen => /\ Dividing(Narrow, div_16, Abs(div_num, Narrow), Abs(div_denom, Narrow))
             /\ Dividing(Wide, div_32, Abs(div_num, Wide), Abs(div_denom, Wide))

(* The first edge: nothing of the quotient is known. *)
LEMMA LoadDivides ==
  ASSUME NEW width \in Nat \ {0}, NEW a \in 0 .. Pow2[width] - 1, NEW b \in 1 .. Pow2[width] - 1,
         NEW r, r = [f \in Registers |-> r[f]], NEW s, s = Load(width, r, a, b)
  PROVE  Dividing(width, s, a, b)
<1>1. s.busy = TRUE /\ s.i = 0 /\ s.b1 = b /\ s.pair = 2 * a
  BY Zenon DEF Load, Registers
<1>2. 0 \in 0 .. b - 1 /\ 0 \in 0 .. Pow2[0] - 1 /\ a \in 0 .. Pow2[width - 0] - 1
  <2>1. width - 0 = width OBVIOUS
  <2> QED BY <2>1, Pow2Zero
<1>3. 2 * a = 2 * (0 * Pow2[width] + a * Pow2[0]) + 0
  BY Pow2Zero, Pow2Positive
<1>4. a = (0 * b + 0) * Pow2[width - 0] + a
  <2>1. width - 0 = width /\ Pow2[width] \in Nat BY Pow2Positive
  <2> QED BY <2>1
<1>5. 0 \in 0 .. width - 1 OBVIOUS
<1>6. Known(width, 0, b, 2 * a, a) BY <1>2, <1>3, <1>4 DEF Known
<1> QED BY <1>1, <1>5, <1>6 DEF Dividing

(* A later edge that is not the last. *)
LEMMA BitDivides ==
  ASSUME NEW width \in Nat \ {0}, NEW a, NEW b \in 1 .. Pow2[width] - 1,
         NEW r, r = [f \in Registers |-> r[f]], r.busy = TRUE, r.i # width - 1,
         Dividing(width, r, a, b),
         NEW s, s = [r EXCEPT !.i = @ + 1, !.pair = Iterate(width, r)]
  PROVE  Dividing(width, s, a, b)
<1>1. s.busy = TRUE /\ s.i = r.i + 1 /\ s.b1 = r.b1 /\ s.pair = Iterate(width, r)
  BY Zenon DEF Registers
<1>2. r.i \in 0 .. width - 1 /\ r.b1 = b BY DEF Dividing
<1>3. Known(width, r.i, b, r.pair, a) BY DEF Dividing
<1>4. Known(width, s.i, b, s.pair, a) BY <1>1, <1>2, <1>3, IterateStep
<1>5. s.i \in 0 .. width - 1 BY <1>1, <1>2
<1> QED BY <1>1, <1>2, <1>4, <1>5 DEF Dividing

(* The last edge: nothing of the dividend is left. *)
LEMMA FinishDivides ==
  ASSUME NEW width \in Nat \ {0}, NEW a, NEW b \in 1 .. Pow2[width] - 1,
         NEW r, r = [f \in Registers |-> r[f]], r.busy = TRUE, r.i = width - 1,
         Dividing(width, r, a, b), NEW s, s = Finish(width, r)
  PROVE  Dividing(width, s, a, b)
<1> DEFINE last == Iterate(width, r)
<1>1. /\ s.busy = FALSE
      /\ s.overflow = (Quo(width, last) >= Pow2[width \div 2])
      /\ s.quot = Quo(width, last) /\ s.rem = Acc(width, last) \div 2
  BY Zenon DEF Finish, Registers
<1>2. r.i \in 0 .. width - 1 /\ r.b1 = b /\ r.i + 1 = width BY DEF Dividing
<1>3. Known(width, width, b, last, a)
  <2>1. Known(width, r.i, b, r.pair, a) BY DEF Dividing
  <2> QED BY <1>2, <2>1, IterateStep
<1>4. PICK rem2 \in 0 .. b - 1, q2 \in 0 .. Pow2[width] - 1, t2 \in 0 .. Pow2[width - width] - 1 :
        /\ last = 2 * (rem2 * Pow2[width] + t2 * Pow2[width]) + q2
        /\ a = (q2 * b + rem2) * Pow2[width - width] + t2
  <2> HIDE DEF last
  <2> QED BY <1>3 DEF Known
<1>5. width - width = 0 OBVIOUS
<1>6. t2 = 0 BY <1>4, <1>5, Pow2Zero
<1>7. Pow2[width] \in Nat \ {0} BY Pow2Positive
<1>8. a = q2 * b + rem2
  <2>1. a = (q2 * b + rem2) * 1 + 0 BY <1>4, <1>5, <1>6, Pow2Zero
  <2>2. q2 * b \in Nat BY <1>2, <1>7
  <2> QED BY <2>1, <2>2
<1>9. last = (2 * rem2) * Pow2[width] + q2
  <2>1. last = 2 * (rem2 * Pow2[width] + 0 * Pow2[width]) + q2 BY <1>2, <1>4, <1>6
  <2>2. 0 * Pow2[width] = 0 /\ 2 * (rem2 * Pow2[width]) = (2 * rem2) * Pow2[width]
    BY <1>7
  <2>3. rem2 * Pow2[width] \in Nat BY <1>7
  <2> HIDE DEF last
  <2> QED BY <2>1, <2>2, <2>3
<1>10. q2 \in 0 .. Pow2[width] - 1 BY <1>4
<1>11. Quo(width, last) = q2 /\ Acc(width, last) = 2 * rem2
  <2>1. 2 * rem2 \in Int OBVIOUS
  <2> HIDE DEF last
  <2>2. last \div Pow2[width] = 2 * rem2 /\ last % Pow2[width] = q2
    BY <2>1, <1>7, <1>9, <1>10, DivMod
  <2> QED BY <2>2 DEF Quo, Acc
<1>12. (2 * rem2) \div 2 = rem2 OBVIOUS
<1> HIDE DEF last
<1>13. s.quot = q2 /\ s.rem = rem2 /\ s.overflow = (q2 >= Pow2[width \div 2])
  BY <1>1, <1>11, <1>12
<1> QED BY <1>1, <1>7, <1>8, <1>10, <1>13 DEF Dividing

LEMMA DivuDivides ==
  ASSUME NEW width \in Nat \ {0}, NEW a \in 0 .. Pow2[width] - 1, NEW b \in 0 .. Pow2[width] - 1,
         NEW r, r = [f \in Registers |-> r[f]], div_start \/ Dividing(width, r, a, b),
         NEW s, s = Divu(width, r, a, b)
  PROVE  Dividing(width, s, a, b)
<1> SUFFICES ASSUME b # 0 PROVE Dividing(width, s, a, b) BY DEF Dividing
<1>0. b \in 1 .. Pow2[width] - 1 OBVIOUS
<1>1. CASE div_start
  <2>1. s = Load(width, r, a, b) BY <1>1 DEF Divu
  <2> QED BY <1>0, <2>1, LoadDivides
<1>2. CASE ~div_start /\ ~r.busy
  <2>1. s = r BY <1>2 DEF Divu
  <2> QED BY <1>2, <2>1
<1>3. CASE ~div_start /\ r.busy /\ r.i = width - 1
  <2>1. s = Finish(width, r) BY <1>3 DEF Divu
  <2>2. r.busy = TRUE BY <1>3 DEF Dividing
  <2> QED BY <1>0, <1>3, <2>1, <2>2, FinishDivides
<1>4. CASE ~div_start /\ r.busy /\ r.i # width - 1
  <2>1. s = [r EXCEPT !.i = @ + 1, !.pair = Iterate(width, r)] BY <1>4 DEF Divu
  <2>2. r.busy = TRUE BY <1>4 DEF Dividing
  <2> QED BY <1>0, <1>4, <2>1, <2>2, BitDivides
<1> QED BY <1>1, <1>2, <1>3, <1>4
(* The unsigned operands of each divider are numbers of its width. *)
LEMMA AbsInRange ==
  ASSUME NEW n \in Int, NEW width \in Nat
  PROVE  Abs(n, width) \in 0 .. Pow2[width] - 1
<1>1. Pow2[width] \in Nat \ {0} BY Pow2Positive
<1> QED BY <1>1 DEF Abs, Negative

LEMMA OperandsStep == ASSUME OperandsInRange, [Next]_vars PROVE OperandsInRange'
<1>1. CASE HoldOperands
  BY <1>1 DEF HoldOperands, OperandsInRange, Width, Fits
<1>2. CASE StartDivision
  <2>1. PICK o \in Operations : div_num' = o.num /\ div_denom' = o.denom /\ div_wide' = o.wide
    BY <1>2 DEF StartDivision
  <2>2. /\ o.wide \in BOOLEAN
        /\ Fits(o.num, IF o.wide THEN Wide ELSE Narrow)
        /\ Fits(o.denom, IF o.wide THEN Wide ELSE Narrow)
    BY OperandsFit
  <2>3. Width' = IF o.wide THEN Wide ELSE Narrow BY <2>1 DEF Width
  <2> QED BY <2>1, <2>2, <2>3 DEF OperandsInRange, Fits
<1> QED
  BY <1>1, <1>2, Zenon DEF Next, Edge, Reset, TakeResult, NoDivision, vars, HoldOperands

LEMMA DividesNext == ASSUME Handshake, Divides, [Next]_vars PROVE Divides'
<1>1. OperandsInRange' BY OperandsStep DEF Divides
<1>2. div_num \in Int /\ div_denom \in Int BY DEF Divides, OperandsInRange, Fits
<1>3. SUFFICES ASSUME Seen'
               PROVE  /\ Dividing(Narrow, div_16', Abs(div_num', Narrow), Abs(div_denom', Narrow))
                      /\ Dividing(Wide, div_32', Abs(div_num', Wide), Abs(div_denom', Wide))
  BY <1>1, Zenon DEF Divides
<1>4. CASE UNCHANGED vars
  <2>1. Seen BY <1>3, <1>4 DEF Seen, vars
  <2>2. /\ div_16' = div_16 /\ div_32' = div_32
        /\ div_num' = div_num /\ div_denom' = div_denom
    BY <1>4 DEF vars, dividerVars
  <2> QED BY <2>1, <2>2, Zenon DEF Divides
<1>5. CASE Edge
  <2>1. /\ div_16' = Divu(Narrow, div_16, Abs(div_num, Narrow), Abs(div_denom, Narrow))
        /\ div_32' = Divu(Wide, div_32, Abs(div_num, Wide), Abs(div_denom, Wide))
    BY <1>5 DEF Edge, DividerEdge
  <2>2. /\ div_16 = [f \in Registers |-> div_16[f]]
        /\ div_32 = [f \in Registers |-> div_32[f]]
    BY DEF Handshake
  <2>3. stage = 1 /\ div_denom' = div_denom /\ div_num' = div_num
    BY <1>3, <1>5 DEF Edge, StartDivision, TakeResult, NoDivision, HoldOperands, Handshake, Seen
  <2>4. div_start \/ Seen BY <2>3 DEF Seen
  <2>5. Narrow \in Nat \ {0} /\ Wide \in Nat \ {0} BY DividerAssumption
  <2>6. /\ div_start \/ Dividing(Narrow, div_16, Abs(div_num, Narrow), Abs(div_denom, Narrow))
        /\ div_start \/ Dividing(Wide, div_32, Abs(div_num, Wide), Abs(div_denom, Wide))
    BY <2>4, Zenon DEF Divides
  <2>7. /\ Abs(div_num, Narrow) \in 0 .. Pow2[Narrow] - 1
        /\ Abs(div_denom, Narrow) \in 0 .. Pow2[Narrow] - 1
        /\ Abs(div_num, Wide) \in 0 .. Pow2[Wide] - 1
        /\ Abs(div_denom, Wide) \in 0 .. Pow2[Wide] - 1
    BY <1>2, <2>5, AbsInRange
  <2>8. Dividing(Narrow, div_16', Abs(div_num, Narrow), Abs(div_denom, Narrow))
    BY <2>1, <2>2, <2>5, <2>6, <2>7, DivuDivides
  <2>9. Dividing(Wide, div_32', Abs(div_num, Wide), Abs(div_denom, Wide))
    BY <2>1, <2>2, <2>5, <2>6, <2>7, DivuDivides
  <2> QED BY <2>3, <2>8, <2>9, Zenon
<1>6. CASE Reset
  BY <1>3, <1>6 DEF Reset, Seen
<1> QED BY <1>4, <1>5, <1>6 DEF Next

(* The numbers of a finished division are the quotient towards zero and the *)
(* remainder of the sign of the dividend.                                   *)
Truncated(n, d) ==
  IF Negative(n) # Negative(d) THEN -(Magnitude(n) \div Magnitude(d))
  ELSE Magnitude(n) \div Magnitude(d)

Divided(n, d, q, rem) ==
  /\ n \in Int /\ d \in Int \ {0} /\ q \in Nat /\ rem \in 0 .. Magnitude(d) - 1
  /\ Magnitude(n) = q * Magnitude(d) + rem

LEMMA SignedDivision ==
  ASSUME NEW n, NEW d, NEW q, NEW rem, Divided(n, d, q, rem), NEW s, s = Truncated(n, d)
  PROVE  /\ s = IF Negative(n) # Negative(d) THEN -q ELSE q
         /\ Magnitude(s) = q
         /\ n - d * s = IF Negative(n) THEN -rem ELSE rem
<1> USE DEF Divided
<1>1. Magnitude(d) \in Nat \ {0} /\ q \in Int BY DEF Magnitude
<1>2. Magnitude(n) \div Magnitude(d) = q BY <1>1, DivMod
<1>3. s = IF Negative(n) # Negative(d) THEN -q ELSE q BY <1>2, Zenon DEF Truncated
<1>4. Magnitude(s) = q
  <2>1. s = q \/ s = -q BY <1>3, Zenon
  <2> QED BY <2>1 DEF Magnitude
<1>5. n - d * s = IF Negative(n) THEN -rem ELSE rem
  <2>1. q * d \in Int /\ d * q = q * d /\ d * (-q) = -(q * d) /\ q * (-d) = -(q * d) OBVIOUS
  <2>2. CASE n < 0 /\ d < 0
    <3>1. s = q BY <1>3, <2>2 DEF Negative
    <3>2. -n = q * (-d) + rem BY <2>2 DEF Magnitude
    <3> QED BY <2>1, <2>2, <3>1, <3>2 DEF Negative
  <2>3. CASE n < 0 /\ ~(d < 0)
    <3>1. s = -q BY <1>3, <2>3 DEF Negative
    <3>2. -n = q * d + rem BY <2>3 DEF Magnitude
    <3> QED BY <2>1, <2>3, <3>1, <3>2 DEF Negative
  <2>4. CASE ~(n < 0) /\ d < 0
    <3>1. s = -q BY <1>3, <2>4 DEF Negative
    <3>2. n = q * (-d) + rem BY <2>4 DEF Magnitude
    <3> QED BY <2>1, <2>4, <3>1, <3>2 DEF Negative
  <2>5. CASE ~(n < 0) /\ ~(d < 0)
    <3>1. s = q BY <1>3, <2>5 DEF Negative
    <3>2. n = q * d + rem BY <2>5 DEF Magnitude
    <3> QED BY <2>1, <2>5, <3>1, <3>2 DEF Negative
  <2> QED BY <2>2, <2>3, <2>4, <2>5
<1> QED BY <1>3, <1>4, <1>5

LEMMA AbsIsMagnitude ==
  ASSUME NEW n, NEW width \in Nat, Fits(n, width)
  PROVE  Abs(n, width) = Magnitude(n)
<1>1. Pow2[width] \in Nat \ {0} BY Pow2Positive
<1>2. Magnitude(n) \in 0 .. Pow2[width] - 1 BY <1>1 DEF Fits, Magnitude
<1>3. Magnitude(n) = 0 * Pow2[width] + Magnitude(n) BY <1>1, <1>2
<1>4. Magnitude(n) % Pow2[width] = Magnitude(n) BY <1>1, <1>2, <1>3, DivMod
<1> QED BY <1>4 DEF Abs, Negative, Magnitude

(* The result the execution unit takes (v33.sv:870 to 885 and 1226 to 1242) *)
(* is the quotient and the remainder of the operands it started with, the   *)
(* overflow flag is exact and a zero divisor is reported (nec_divider.sv:36 *)
(* to 83, 113 to 137): for every pair of widths, every operand that fits,   *)
(* however the divisions follow each other and wherever resets fall.        *)
THEOREM QuotientIsRight == Spec => []ResultOfOperands
<1>1. Init => Handshake /\ Divides
  <2> SUFFICES ASSUME Init PROVE Divides BY HandshakeInit
  <2>1. PICK o \in First : div_num = o.num /\ div_denom = o.denom /\ div_wide = o.wide
    BY DEF Init
  <2>2. /\ o.wide \in BOOLEAN
        /\ Fits(o.num, IF o.wide THEN Wide ELSE Narrow)
        /\ Fits(o.denom, IF o.wide THEN Wide ELSE Narrow)
    BY OperandsFit
  <2>3. OperandsInRange BY <2>1, <2>2 DEF OperandsInRange, Width
  <2>4. ~Seen BY DEF Init, Seen
  <2> QED BY <2>3, <2>4, Zenon DEF Divides
<1>2. Handshake /\ Divides /\ [Next]_vars => (Handshake /\ Divides)'
  BY HandshakeNext, DividesNext
<1>3. Handshake /\ Divides => ResultOfOperands
  <2> SUFFICES ASSUME Handshake, Divides, phase = 1, stage = 1, DivDone
               PROVE  IF div_denom = 0 THEN DivDbz
                      ELSE /\ ~DivDbz
                           /\ DivOverflow = (Magnitude(Quotient) >= Pow2[Width \div 2])
                           /\ DivQuot = Quotient % Pow2[Narrow]
                           /\ DivRem = Remainder % Pow2[Narrow]
    BY DEF ResultOfOperands
  <2>1. Seen BY DEF Handshake, Seen
  <2>2. Width \in Nat \ {0} BY DividerAssumption DEF Width
  <2>3. Fits(div_num, Width) /\ Fits(div_denom, Width) BY DEF Divides, OperandsInRange
  <2>4. div_num \in Int /\ div_denom \in Int BY <2>3 DEF Fits
  <2>5. Abs(div_num, Width) = Magnitude(div_num) /\ Abs(div_denom, Width) = Magnitude(div_denom)
    BY <2>2, <2>3, AbsIsMagnitude
  <2>6. AtWork(Selected, Magnitude(div_denom))
    <3>1. AtWork(Selected, Abs(div_denom, Width))
      BY <2>1, Zenon DEF Handshake, Selected, Width
    <3> QED BY <2>5, <3>1
  <2>7. Dividing(Width, Selected, Magnitude(div_num), Magnitude(div_denom))
    <3>1. Dividing(Width, Selected, Abs(div_num, Width), Abs(div_denom, Width))
      BY <2>1, Zenon DEF Divides, Selected, Width
    <3> QED BY <2>5, <3>1
  <2>8. CASE div_denom = 0
    <3>1. Magnitude(div_denom) = 0 BY <2>8 DEF Magnitude
    <3> QED BY <2>6, <2>8, <3>1, Zenon DEF AtWork, DivDbz
  <2>9. CASE div_denom # 0
    <3>1. Magnitude(div_denom) # 0 BY <2>4, <2>9 DEF Magnitude
    <3>2. ~DivDbz /\ Selected.busy = FALSE
      BY <2>6, <3>1, Zenon DEF AtWork, DivDbz, DivDone
    <3>3. /\ Selected.quot \in Nat /\ Selected.rem \in 0 .. Magnitude(div_denom) - 1
          /\ Magnitude(div_num) = Selected.quot * Magnitude(div_denom) + Selected.rem
          /\ Selected.overflow = (Selected.quot >= Pow2[Width \div 2])
      BY <2>7, <3>1, <3>2, Zenon DEF Dividing
    <3>4. Quotient = Truncated(div_num, div_denom) BY Zenon DEF Quotient, Truncated
    <3>5. /\ Quotient = IF Negative(div_num) # Negative(div_denom)
                        THEN -Selected.quot ELSE Selected.quot
          /\ Magnitude(Quotient) = Selected.quot
          /\ div_num - div_denom * Quotient = IF Negative(div_num) THEN -Selected.rem
                                                                   ELSE Selected.rem
      <4>1. Divided(div_num, div_denom, Selected.quot, Selected.rem)
        BY <2>4, <2>9, <3>3 DEF Divided
      <4> QED BY <3>4, <4>1, SignedDivision
    <3>6. DivOverflow = (Magnitude(Quotient) >= Pow2[Width \div 2])
      BY <3>3, <3>5, Zenon DEF DivOverflow
    <3>7. DivQuot = Quotient % Pow2[Narrow] BY <3>5, Zenon DEF DivQuot
    <3>8. DivRem = Remainder % Pow2[Narrow] BY <3>5, Zenon DEF DivRem, Remainder
    <3> QED BY <2>9, <3>2, <3>6, <3>7, <3>8, Zenon
  <2> QED BY <2>8, <2>9
<1> QED BY <1>1, <1>2, <1>3, PTL DEF Spec
=============================================================================
