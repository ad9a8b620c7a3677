---------------------------- MODULE ColumnProofs ----------------------------
(***************************************************************************)
(* What holds of the two algorithms that work on one column at a time, for *)
(* every column.                                                           *)
(*                                                                         *)
(* ViscousColumn, for every number of layers: the types, that the remnants *)
(* are shares, that velocities are limited, that the sweep solves the      *)
(* implicit equations, that the momentum budget closes as diagnosed, and   *)
(* that GL90 only dissipates.  The lemmas about fractions come first: they *)
(* speak of values, so that how far a fraction is reduced does not matter. *)
(*                                                                         *)
(* Flux adjustment: for any number of iterations, any limits, any          *)
(* transport as a function of the correction, and any steps of Newton's    *)
(* method that go against the error.  Nothing in the code keeps a          *)
(* negligible step within the limits: it is taken before they are looked   *)
(* at.  What saves it is that a correction other than zero is never on the *)
(* end of the bracket that its error points to, and that is what the       *)
(* invariant adds (Headroom).                                              *)
(***************************************************************************)
EXTENDS ViscousColumn, FluxAdjust, FiniteSetTheorems, TLAPS

-----------------------------------------------------------------------------
\* The implicit vertical friction

LEMMA Grows ==
    ASSUME NEW m \in Int, NEW n \in Int, NEW c \in Int, m <= n, c >= 0
    PROVE  m * c <= n * c
  OBVIOUS

LEMMA Cancels ==
    ASSUME NEW m \in Int, NEW n \in Int, NEW c \in Int, c > 0, m * c <= n * c
    PROVE  m <= n
  OBVIOUS

LEMMA SignOfProduct ==
    ASSUME NEW m \in Int, NEW n \in Int
    PROVE  /\ m * n \in Int
           /\ m > 0 /\ n > 0 => m * n > 0
           /\ m >= 0 /\ n >= 0 => m * n >= 0
           /\ m > 0 /\ m * n >= 0 => n >= 0
           /\ m > 0 /\ m * n > 0 => n > 0
  OBVIOUS

\* A ratio is a fraction of the same value
LEMMA DivisorValue ==
    ASSUME NEW n \in Int, NEW d \in Int, d > 0, NEW g
    PROVE  /\ WithoutDivisor(n, d, g) \in Fraction
           /\ WithoutDivisor(n, d, g).num * d = n * WithoutDivisor(n, d, g).den
  <1>1. CASE g \in 1..d /\ n = g * (n \div g) /\ d = g * (d \div g)
    <2>1. g \in Int /\ g > 0
      BY <1>1
    <2>2. PICK q \in Int, r \in Int : q = n \div g /\ r = d \div g
      BY <2>1
    <2>3. WithoutDivisor(n, d, g) = [num |-> q, den |-> r]
      BY <1>1, <2>2 DEF WithoutDivisor
    <2>4. n = g * q /\ d = g * r
      BY <1>1, <2>2
    <2>5. r > 0
      BY <2>1, <2>4, SignOfProduct
    <2>6. q * d = n * r
      BY <2>1, <2>4
    <2> QED  BY <2>3, <2>5, <2>6 DEF Fraction
  <1>2. CASE ~(g \in 1..d /\ n = g * (n \div g) /\ d = g * (d \div g))
    <2>1. WithoutDivisor(n, d, g) = [num |-> n, den |-> d]
      BY <1>2 DEF WithoutDivisor
    <2> QED  BY <2>1 DEF Fraction
  <1> QED  BY <1>1, <1>2

LEMMA RatioValue ==
    ASSUME NEW n \in Int, NEW d \in Int, d > 0
    PROVE  /\ Ratio(n, d) \in Fraction
           /\ Ratio(n, d).num * d = n * Ratio(n, d).den
  BY DivisorValue, Zenon DEF Ratio

LEMMA FractionParts ==
    ASSUME NEW p \in Fraction
    PROVE  p.num \in Int /\ p.den \in Int /\ p.den > 0
  BY DEF Fraction

LEMMA OfParts ==
    ASSUME NEW n \in Int, NEW d \in Int, d > 0
    PROVE  [num |-> n, den |-> d] \in Fraction
  BY DEF Fraction

LEMMA AtMostTrans ==
    ASSUME NEW p \in Fraction, NEW q \in Fraction, NEW r \in Fraction, AtMost(p, q), AtMost(q, r)
    PROVE  AtMost(p, r)
  <1> DEFINE pn == p.num   pd == p.den   qn == q.num   qd == q.den   rn == r.num   rd == r.den
  <1>1. /\ pn \in Int /\ pd \in Int /\ qn \in Int /\ qd \in Int /\ rn \in Int /\ rd \in Int
        /\ pd > 0 /\ qd > 0 /\ rd > 0
        /\ pn * qd <= qn * pd /\ qn * rd <= rn * qd
    BY FractionParts DEF AtMost
  <1> HIDE DEF pn, pd, qn, qd, rn, rd
  <1>2. (pn * qd) * rd <= (qn * pd) * rd /\ (qn * rd) * pd <= (rn * qd) * pd
    BY <1>1, Grows
  <1>3. (pn * rd) * qd <= (rn * pd) * qd
    BY <1>1, <1>2
  <1>4. pn * rd <= rn * pd
    BY <1>1, <1>3, Cancels
  <1> QED  BY <1>4 DEF AtMost, pn, pd, rn, rd

LEMMA SameIsAtMost ==
    ASSUME NEW p \in Fraction, NEW q \in Fraction
    PROVE  Same(p, q) <=> AtMost(p, q) /\ AtMost(q, p)
  BY FractionParts DEF Same, AtMost

\* An order between ratios is one between the fractions they are taken of
LEMMA RatioOrder ==
    ASSUME NEW m \in Int, NEW c \in Int, c > 0, NEW n \in Int, NEW d \in Int, d > 0
    PROVE  /\ m * d <= n * c => AtMost(Ratio(m, c), Ratio(n, d))
           /\ m * d = n * c => Same(Ratio(m, c), Ratio(n, d))
  <1> DEFINE p == Ratio(m, c)   q == Ratio(n, d)
             P == [num |-> m, den |-> c]   Q == [num |-> n, den |-> d]
  <1>1. p \in Fraction /\ p.num * c = m * p.den /\ q \in Fraction /\ q.num * d = n * q.den
    BY RatioValue
  <1>2. P \in Fraction /\ Q \in Fraction
    BY OfParts
  <1> HIDE DEF p, q
  <1>3. AtMost(p, P) /\ AtMost(P, p) /\ AtMost(q, Q) /\ AtMost(Q, q)
    BY <1>1, FractionParts DEF AtMost
  <1>4. ASSUME m * d <= n * c PROVE AtMost(p, q)
    <2>1. AtMost(P, Q)
      BY <1>4 DEF AtMost
    <2> HIDE DEF P, Q
    <2> QED  BY <1>1, <1>2, <1>3, <2>1, AtMostTrans
  <1>5. ASSUME m * d = n * c PROVE Same(p, q)
    <2>1. AtMost(P, Q) /\ AtMost(Q, P)
      BY <1>5 DEF AtMost
    <2> HIDE DEF P, Q
    <2>2. AtMost(p, q) /\ AtMost(q, p)
      BY <1>1, <1>2, <1>3, <2>1, AtMostTrans
    <2> QED  BY <1>1, <2>2, SameIsAtMost
  <1> QED  BY <1>4, <1>5 DEF p, q

LEMMA PlusIsFraction ==
    ASSUME NEW p \in Fraction, NEW q \in Fraction
    PROVE  Plus(p, q) \in Fraction /\ Minus(p, q) \in Fraction
  <1>1. p.den * q.den > 0 /\ p.den * q.den \in Int
    BY FractionParts, SignOfProduct
  <1>2. p.num * q.den + q.num * p.den \in Int /\ p.num * q.den - q.num * p.den \in Int
    BY FractionParts
  <1> QED  BY <1>1, <1>2, RatioValue DEF Plus, Minus

LEMMA TimesIsFraction ==
    ASSUME NEW p \in Fraction, NEW q \in Fraction
    PROVE  Times(p, q) \in Fraction
  <1>1. p.den * q.den > 0 /\ p.den * q.den \in Int /\ p.num * q.num \in Int
    BY FractionParts, SignOfProduct
  <1> QED  BY <1>1, RatioValue DEF Times

LEMMA ReciprocalIsPositive ==
    ASSUME NEW p \in Fraction, p.num > 0
    PROVE  Reciprocal(p) \in Fraction /\ Reciprocal(p).num > 0
  BY FractionParts, OfParts DEF Reciprocal

LEMMA RatioSign ==
    ASSUME NEW n \in Int, NEW d \in Int, d > 0
    PROVE  /\ n >= 0 => Ratio(n, d).num >= 0
           /\ n > 0 => Ratio(n, d).num > 0
  <1>1. PICK m \in Int, c \in Int : c > 0 /\ m = Ratio(n, d).num /\ m * d = n * c
    BY RatioValue, FractionParts
  <1>2. n >= 0 => m >= 0
    <2>1. n >= 0 => d * m >= 0
      BY <1>1, SignOfProduct
    <2> QED  BY <1>1, <2>1, SignOfProduct
  <1>3. n > 0 => m > 0
    <2>1. n > 0 => d * m > 0
      BY <1>1, SignOfProduct
    <2> QED  BY <1>1, <2>1, SignOfProduct
  <1> QED  BY <1>1, <1>2, <1>3

LEMMA PlusSign ==
    ASSUME NEW p \in Fraction, NEW q \in Fraction, p.num >= 0, q.num >= 0
    PROVE  /\ Plus(p, q).num >= 0
           /\ p.num > 0 \/ q.num > 0 => Plus(p, q).num > 0
  <1> DEFINE m == p.num * q.den   n == q.num * p.den
  <1>1. p.den * q.den > 0 /\ p.den * q.den \in Int
    BY FractionParts, SignOfProduct
  <1>2. m \in Int /\ n \in Int /\ m >= 0 /\ n >= 0 /\ (p.num > 0 => m > 0) /\ (q.num > 0 => n > 0)
    BY FractionParts, SignOfProduct
  <1> HIDE DEF m, n
  <1>3. m + n \in Int /\ m + n >= 0 /\ (p.num > 0 \/ q.num > 0 => m + n > 0)
    BY <1>2
  <1>4. Plus(p, q) = Ratio(m + n, p.den * q.den)
    BY DEF Plus, m, n
  <1> QED  BY <1>1, <1>3, <1>4, RatioSign

LEMMA TimesSign ==
    ASSUME NEW p \in Fraction, NEW q \in Fraction, p.num >= 0, q.num >= 0
    PROVE  /\ Times(p, q).num >= 0
           /\ p.num > 0 /\ q.num > 0 => Times(p, q).num > 0
  <1>1. p.den * q.den > 0 /\ p.den * q.den \in Int
    BY FractionParts, SignOfProduct
  <1>2. p.num * q.num \in Int /\ p.num * q.num >= 0 /\ (p.num > 0 /\ q.num > 0 => p.num * q.num > 0)
    BY FractionParts, SignOfProduct
  <1> QED  BY <1>1, <1>2, RatioSign DEF Times

LEMMA PlusGrows ==
    ASSUME NEW p \in Fraction, NEW q \in Fraction, NEW r \in Fraction, NEW s \in Fraction,
           AtMost(p, q), AtMost(r, s)
    PROVE  AtMost(Plus(p, r), Plus(q, s))
  <1>1. PICK pn \in Int, pd \in Int, qn \in Int, qd \in Int, rn \in Int, rd \in Int, sn \in Int, sd \in Int :
          /\ pn = p.num /\ pd = p.den /\ qn = q.num /\ qd = q.den
          /\ rn = r.num /\ rd = r.den /\ sn = s.num /\ sd = s.den
    BY FractionParts
  <1>2. pd > 0 /\ qd > 0 /\ rd > 0 /\ sd > 0 /\ pn * qd <= qn * pd /\ rn * sd <= sn * rd
    BY <1>1, FractionParts DEF AtMost
  <1>3. pd * rd > 0 /\ qd * sd > 0 /\ rd * sd > 0 /\ pd * qd > 0
    BY <1>2, SignOfProduct
  <1>4. (pn * qd) * (rd * sd) <= (qn * pd) * (rd * sd) /\ (rn * sd) * (pd * qd) <= (sn * rd) * (pd * qd)
    BY <1>2, <1>3, Grows
  <1>5. (pn * rd + rn * pd) * (qd * sd) <= (qn * sd + sn * qd) * (pd * rd)
    BY <1>4
  <1>6. AtMost(Ratio(pn * rd + rn * pd, pd * rd), Ratio(qn * sd + sn * qd, qd * sd))
    BY <1>3, <1>5, RatioOrder
  <1> QED  BY <1>1, <1>6 DEF Plus

LEMMA TimesGrows ==
    ASSUME NEW p \in Fraction, NEW q \in Fraction, NEW r \in Fraction, AtMost(p, q), r.num >= 0
    PROVE  AtMost(Times(p, r), Times(q, r)) /\ AtMost(Times(r, p), Times(r, q))
  <1>1. PICK pn \in Int, pd \in Int, qn \in Int, qd \in Int, rn \in Int, rd \in Int :
          pn = p.num /\ pd = p.den /\ qn = q.num /\ qd = q.den /\ rn = r.num /\ rd = r.den
    BY FractionParts
  <1>2. pd > 0 /\ qd > 0 /\ rd > 0 /\ rn >= 0 /\ pn * qd <= qn * pd
    BY <1>1, FractionParts DEF AtMost
  <1>3. pd * rd > 0 /\ qd * rd > 0 /\ rd * pd > 0 /\ rd * qd > 0 /\ rn * rd >= 0
    BY <1>2, SignOfProduct
  <1>4. (pn * qd) * (rn * rd) <= (qn * pd) * (rn * rd)
    BY <1>2, <1>3, Grows
  <1>5. (pn * rn) * (qd * rd) <= (qn * rn) * (pd * rd) /\ (rn * pn) * (rd * qd) <= (rn * qn) * (rd * pd)
    BY <1>4
  <1>6. AtMost(Ratio(pn * rn, pd * rd), Ratio(qn * rn, qd * rd)) /\ AtMost(Ratio(rn * pn, rd * pd), Ratio(rn * qn, rd * qd))
    BY <1>3, <1>5, RatioOrder
  <1> QED  BY <1>1, <1>6 DEF Times

\* The arithmetic of SharesAddUp
LEMMA OverCommonDenominator ==
    ASSUME NEW pn \in Int, NEW pd \in Int, NEW qn \in Int, NEW qd \in Int, NEW rn \in Int, NEW rd \in Int,
           NEW xn \in Int, NEW xd \in Int, NEW yn \in Int, NEW yd \in Int,
           pd > 0, qd > 0, rd > 0,
           rd * (pd * qd) = (pn * qd + qn * pd) * rn,
           xn * (pd * rd) = (pn * rn) * xd, yn * (qd * rd) = (qn * rn) * yd
    PROVE  xn * yd + yn * xd = xd * yd
  <1> DEFINE all == (pd * qd) * rd
  <1>1. all \in Int /\ all > 0
    <2>1. pd * qd \in Int /\ pd * qd > 0
      BY SignOfProduct
    <2> QED  BY <2>1, SignOfProduct
  <1>2. (xn * yd) * all = ((pn * rn) * xd) * (yd * qd)
    <2>1. (xn * yd) * all = (xn * (pd * rd)) * (yd * qd)
      OBVIOUS
    <2> QED  BY <2>1
  <1>3. (yn * xd) * all = ((qn * rn) * yd) * (xd * pd)
    <2>1. (yn * xd) * all = (yn * (qd * rd)) * (xd * pd)
      OBVIOUS
    <2> QED  BY <2>1
  <1>4. (xn * yd + yn * xd) * all = ((pn * qd + qn * pd) * rn) * (xd * yd)
    <2>1. (xn * yd + yn * xd) * all = (xn * yd) * all + (yn * xd) * all
      OBVIOUS
    <2>2. ((pn * rn) * xd) * (yd * qd) + ((qn * rn) * yd) * (xd * pd) = ((pn * qd + qn * pd) * rn) * (xd * yd)
      OBVIOUS
    <2> HIDE DEF all
    <2> QED  BY <1>2, <1>3, <2>1, <2>2
  <1>5. ((pn * qd + qn * pd) * rn) * (xd * yd) = (xd * yd) * all
    <2>1. ((pn * qd + qn * pd) * rn) * (xd * yd) = (rd * (pd * qd)) * (xd * yd)
      OBVIOUS
    <2>2. (rd * (pd * qd)) * (xd * yd) = (xd * yd) * all
      OBVIOUS
    <2> HIDE DEF all
    <2> QED  BY <2>1, <2>2
  <1>6. (xn * yd + yn * xd) * all = (xd * yd) * all
    BY <1>4, <1>5
  <1> HIDE DEF all
  <1>7. xn * yd + yn * xd \in Int /\ xd * yd \in Int
    OBVIOUS
  <1> QED  BY <1>1, <1>6, <1>7, Cancels

\* What is kept of a layer and what goes on to the next are all of it
LEMMA SharesAddUp ==
    ASSUME NEW p \in Fraction, NEW q \in Fraction, p.num > 0, q.num >= 0
    PROVE  Same(Plus(Times(p, Reciprocal(Plus(p, q))), Times(q, Reciprocal(Plus(p, q)))), One)
  <1>1. Plus(p, q) \in Fraction /\ Plus(p, q).num > 0
    <2>1. p.num \in Int /\ p.num >= 0
      BY FractionParts
    <2> QED  BY <2>1, PlusIsFraction, PlusSign
  <1>2. PICK r \in Fraction : r = Reciprocal(Plus(p, q)) /\ r.num > 0
    BY <1>1, ReciprocalIsPositive
  <1>3. PICK X \in Fraction, Y \in Fraction : X = Times(p, r) /\ Y = Times(q, r)
    BY <1>2, TimesIsFraction
  <1>4. PICK pn \in Int, pd \in Int, qn \in Int, qd \in Int, rn \in Int, rd \in Int :
          pn = p.num /\ pd = p.den /\ qn = q.num /\ qd = q.den /\ rn = r.num /\ rd = r.den
    BY <1>2, FractionParts
  <1>5. PICK xn \in Int, xd \in Int, yn \in Int, yd \in Int :
          xn = X.num /\ xd = X.den /\ yn = Y.num /\ yd = Y.den
    BY <1>3, FractionParts
  <1>6. pd > 0 /\ qd > 0 /\ rd > 0 /\ xd > 0 /\ yd > 0
    BY <1>2, <1>3, <1>4, <1>5, FractionParts
  <1>7. pd * qd > 0 /\ pd * rd > 0 /\ qd * rd > 0 /\ xd * yd > 0
    BY <1>6, SignOfProduct
  \* r is the reciprocal of p + q
  <1>8. rd * (pd * qd) = (pn * qd + qn * pd) * rn
    <2>1. Plus(p, q) = Ratio(pn * qd + qn * pd, pd * qd)
      BY <1>4 DEF Plus
    <2>2. Plus(p, q).num * (pd * qd) = (pn * qd + qn * pd) * Plus(p, q).den
      <3>1. pn * qd + qn * pd \in Int /\ pd * qd \in Int
        OBVIOUS
      <3> QED  BY <1>7, <2>1, <3>1, RatioValue
    <2>3. rn = Plus(p, q).den /\ rd = Plus(p, q).num
      BY <1>2, <1>4 DEF Reciprocal
    <2> QED  BY <2>2, <2>3
  <1>9. xn * (pd * rd) = (pn * rn) * xd /\ yn * (qd * rd) = (qn * rn) * yd
    <2>1. X = Ratio(pn * rn, pd * rd) /\ Y = Ratio(qn * rn, qd * rd)
      BY <1>3, <1>4 DEF Times
    <2>2. pn * rn \in Int /\ qn * rn \in Int /\ pd * rd \in Int /\ qd * rd \in Int
      OBVIOUS
    <2> QED  BY <1>5, <1>7, <2>1, <2>2, RatioValue
  <1>10. xn * yd + yn * xd = xd * yd
    BY <1>6, <1>8, <1>9, OverCommonDenominator
  <1>11. Same(Plus(X, Y), Ratio(1, 1))
    <2>1. Plus(X, Y) = Ratio(xn * yd + yn * xd, xd * yd)
      BY <1>5 DEF Plus
    <2>2. xn * yd + yn * xd \in Int /\ xd * yd \in Int /\ (xn * yd + yn * xd) * 1 = 1 * (xd * yd)
      BY <1>10
    <2> QED  BY <1>7, <2>1, <2>2, RatioOrder
  <1>12. Same(Plus(X, Y), One)
    <2>1. Ratio(1, 1) \in Fraction /\ Ratio(1, 1).num * 1 = 1 * Ratio(1, 1).den
      BY RatioValue
    <2>2. Plus(X, Y) \in Fraction
      BY PlusIsFraction
    <2>3. PICK m \in Int, c \in Int, e \in Int, f \in Int :
            /\ m = Plus(X, Y).num /\ c = Plus(X, Y).den
            /\ e = Ratio(1, 1).num /\ f = Ratio(1, 1).den /\ f > 0
      BY <2>1, <2>2, FractionParts
    <2>4. e = f /\ m * f = e * c
      BY <1>11, <2>1, <2>3 DEF Same
    <2>5. m * f = c * f
      BY <2>4
    <2>6. m = c
      BY <2>3, <2>5, Cancels
    <2> QED  BY <2>3, <2>6 DEF Same, One, Whole
  <1> QED  BY <1>2, <1>3, <1>12

-----------------------------------------------------------------------------
(* More about fractions *)

LEMMA NonnegativeParts ==
    /\ \A q : Positive(q) => Nonnegative(q) /\ q \in Fraction /\ q.num > 0
    /\ \A q : Nonnegative(q) => q \in Fraction /\ q.num >= 0
    /\ Nonnegative(Zero) /\ Positive(One)
  <1>1. \A q : Positive(q) => Nonnegative(q) /\ q \in Fraction /\ q.num > 0
    BY FractionParts DEF Positive, Nonnegative
  <1> QED  BY <1>1, OfParts DEF Nonnegative, Positive, Zero, One, Whole

LEMMA PlusOfShares ==
    ASSUME NEW p, NEW q, Nonnegative(p), Nonnegative(q)
    PROVE  /\ Nonnegative(Plus(p, q))
           /\ Positive(p) \/ Positive(q) => Positive(Plus(p, q))
  <1>1. p \in Fraction /\ q \in Fraction /\ p.num >= 0 /\ q.num >= 0
    BY DEF Nonnegative
  <1> QED  BY <1>1, PlusIsFraction, PlusSign DEF Nonnegative, Positive

LEMMA TimesOfShares ==
    ASSUME NEW p, NEW q, Nonnegative(p), Nonnegative(q)
    PROVE  /\ Nonnegative(Times(p, q))
           /\ Positive(p) /\ Positive(q) => Positive(Times(p, q))
  <1>1. p \in Fraction /\ q \in Fraction /\ p.num >= 0 /\ q.num >= 0
    BY DEF Nonnegative
  <1> QED  BY <1>1, TimesIsFraction, TimesSign DEF Nonnegative, Positive

LEMMA AtMostItself ==
    ASSUME NEW p \in Fraction
    PROVE  AtMost(p, p)
  BY FractionParts DEF AtMost

LEMMA ZeroAtMost ==
    ASSUME NEW p, Nonnegative(p)
    PROVE  AtMost(Zero, p)
  BY FractionParts DEF AtMost, Zero, Whole, Nonnegative

LEMMA TimesCommutes ==
    ASSUME NEW p \in Fraction, NEW q \in Fraction
    PROVE  Times(p, q) = Times(q, p)
  <1>1. p.num * q.num = q.num * p.num /\ p.den * q.den = q.den * p.den
    BY FractionParts
  <1> QED  BY <1>1, Zenon DEF Times

\* Adding a share does not make less
LEMMA AtMostPlus ==
    ASSUME NEW p \in Fraction, NEW q, Nonnegative(q)
    PROVE  AtMost(p, Plus(p, q)) /\ AtMost(p, Plus(q, p))
  <1>1. PICK pn \in Int, pd \in Int, qn \in Int, qd \in Int :
          /\ pn = p.num /\ pd = p.den /\ qn = q.num /\ qd = q.den
          /\ pd > 0 /\ qd > 0 /\ qn >= 0
    BY FractionParts DEF Nonnegative
  <1>2. p = [num |-> pn, den |-> pd]
    BY <1>1 DEF Fraction
  <1>3. /\ pn * qd + qn * pd \in Int /\ qn * pd + pn * qd \in Int
        /\ pd * qd \in Int /\ pd * qd > 0 /\ qd * pd \in Int /\ qd * pd > 0 /\ qn * pd >= 0
    BY <1>1, SignOfProduct
  <1>4. Plus(p, q) = Ratio(pn * qd + qn * pd, pd * qd) /\ Plus(q, p) = Ratio(qn * pd + pn * qd, qd * pd)
    BY <1>1 DEF Plus
  <1>5. pn * (pd * qd) <= (pn * qd + qn * pd) * pd /\ pn * (qd * pd) <= (qn * pd + pn * qd) * pd
    <2>1. (qn * pd) * pd >= 0
      <3>1. qn * pd \in Int
        OBVIOUS
      <3> QED  BY <1>1, <1>3, <3>1, SignOfProduct
    <2>2. (pn * qd + qn * pd) * pd = pn * (pd * qd) + (qn * pd) * pd
      OBVIOUS
    <2>3. (qn * pd + pn * qd) * pd = pn * (qd * pd) + (qn * pd) * pd
      OBVIOUS
    <2>4. pn * (pd * qd) <= (pn * qd + qn * pd) * pd
      <3>1. PICK u \in Int, v \in Int : u = pn * (pd * qd) /\ v = (qn * pd) * pd
        OBVIOUS
      <3> QED  BY <2>1, <2>2, <3>1
    <2>5. pn * (qd * pd) <= (qn * pd + pn * qd) * pd
      <3>1. PICK u \in Int, v \in Int : u = pn * (qd * pd) /\ v = (qn * pd) * pd
        OBVIOUS
      <3> QED  BY <2>1, <2>3, <3>1
    <2> QED  BY <2>4, <2>5
  <1>6. PICK m \in Int, c \in Int, e \in Int, f \in Int :
          /\ m = Plus(p, q).num /\ c = Plus(p, q).den /\ e = Plus(q, p).num /\ f = Plus(q, p).den
          /\ c > 0 /\ f > 0
          /\ m * (pd * qd) = (pn * qd + qn * pd) * c /\ e * (qd * pd) = (qn * pd + pn * qd) * f
    <2>1. PICK M \in Fraction, N \in Fraction : M = Plus(p, q) /\ N = Plus(q, p)
      BY <1>1, PlusIsFraction DEF Nonnegative
    <2>2. M.num * (pd * qd) = (pn * qd + qn * pd) * M.den
      BY <1>3, <1>4, <2>1, RatioValue
    <2>3. N.num * (qd * pd) = (qn * pd + pn * qd) * N.den
      BY <1>3, <1>4, <2>1, RatioValue
    <2> QED  BY <2>1, <2>2, <2>3, FractionParts
  <1>7. (pn * c) * (pd * qd) <= (m * pd) * (pd * qd)
    <2>1. (pn * (pd * qd)) * c <= ((pn * qd + qn * pd) * pd) * c
      BY <1>3, <1>5, <1>6, Grows
    <2>2. ((pn * qd + qn * pd) * pd) * c = ((pn * qd + qn * pd) * c) * pd
      OBVIOUS
    <2>3. (m * pd) * (pd * qd) = (m * (pd * qd)) * pd /\ (pn * c) * (pd * qd) = (pn * (pd * qd)) * c
      OBVIOUS
    <2> QED  BY <1>6, <2>1, <2>2, <2>3
  <1>8. (pn * f) * (qd * pd) <= (e * pd) * (qd * pd)
    <2>1. (pn * (qd * pd)) * f <= ((qn * pd + pn * qd) * pd) * f
      BY <1>3, <1>5, <1>6, Grows
    <2>2. ((qn * pd + pn * qd) * pd) * f = ((qn * pd + pn * qd) * f) * pd
      OBVIOUS
    <2>3. (e * pd) * (qd * pd) = (e * (qd * pd)) * pd /\ (pn * f) * (qd * pd) = (pn * (qd * pd)) * f
      OBVIOUS
    <2> QED  BY <1>6, <2>1, <2>2, <2>3
  <1>9. pn * c <= m * pd /\ pn * f <= e * pd
    <2>1. pn * c \in Int /\ m * pd \in Int /\ pn * f \in Int /\ e * pd \in Int
      OBVIOUS
    <2> QED  BY <1>3, <1>7, <1>8, <2>1, Cancels
  <1> QED  BY <1>1, <1>6, <1>9 DEF AtMost

LEMMA TimesOne ==
    ASSUME NEW p \in Fraction
    PROVE  AtMost(Times(p, One), p)
  <1>1. PICK n \in Int, d \in Int : n = p.num /\ d = p.den /\ d > 0
    BY FractionParts
  <1>2. Times(p, One) = Ratio(n, d)
    <2>1. n * 1 = n /\ d * 1 = d
      OBVIOUS
    <2> QED  BY <1>1, <2>1 DEF Times, One, Whole
  <1>3. Ratio(n, d).num * d = n * Ratio(n, d).den
    BY <1>1, RatioValue
  <1> QED  BY <1>1, <1>2, <1>3, RatioValue, FractionParts DEF AtMost

LEMMA TimesAtMostOne ==
    ASSUME NEW p, Nonnegative(p), NEW q \in Fraction, AtMost(q, One)
    PROVE  AtMost(Times(p, q), p)
  <1>1. p \in Fraction /\ p.num >= 0 /\ One \in Fraction
    BY NonnegativeParts
  <1>2. AtMost(Times(p, q), Times(p, One)) /\ AtMost(Times(p, One), p)
    BY <1>1, TimesGrows, TimesOne
  <1> QED  BY <1>1, <1>2, TimesIsFraction, AtMostTrans

-----------------------------------------------------------------------------
(* The shares of a layer *)

\* What stays in a layer of its denominator, d, and what goes on to the next,
\* below * b, are shares and all of it
LEMMA ShareOfLayer ==
    ASSUME NEW denominator, Positive(denominator), NEW below, Nonnegative(below), NEW b,
           b = Reciprocal(Plus(denominator, below))
    PROVE  /\ Positive(b) /\ Nonnegative(Times(denominator, b)) /\ Nonnegative(Times(below, b))
           /\ AtMost(Plus(Times(denominator, b), Times(below, b)), One)
           /\ AtMost(Times(denominator, b), One)
  <1>1. Nonnegative(denominator) /\ denominator \in Fraction /\ denominator.num > 0 /\ below \in Fraction /\ below.num >= 0
    BY NonnegativeParts
  <1>2. Positive(Plus(denominator, below))
    BY <1>1, PlusOfShares
  <1>3. Positive(b) /\ Nonnegative(b)
    BY <1>2, NonnegativeParts, ReciprocalIsPositive DEF Positive
  <1>4. Nonnegative(Times(denominator, b)) /\ Nonnegative(Times(below, b))
    BY <1>1, <1>3, TimesOfShares
  <1>5. Same(Plus(Times(denominator, b), Times(below, b)), One)
    BY <1>1, SharesAddUp
  <1>6. Times(denominator, b) \in Fraction /\ Plus(Times(denominator, b), Times(below, b)) \in Fraction /\ One \in Fraction
    BY <1>4, NonnegativeParts, PlusIsFraction
  <1>7. AtMost(Plus(Times(denominator, b), Times(below, b)), One)
    BY <1>5, <1>6, SameIsAtMost
  <1>8. AtMost(Times(denominator, b), Plus(Times(denominator, b), Times(below, b)))
    BY <1>4, <1>6, AtMostPlus
  <1> QED  BY <1>3, <1>4, <1>6, <1>7, <1>8, AtMostTrans

-----------------------------------------------------------------------------
(* Types *)

\* On the way down the scratch values are shares
ScratchOK == pc = "down" => k > 0 /\ Nonnegative(b1) /\ Nonnegative(d1)

TypeInv == VcTypeOK /\ ScratchOK

LEMMA LayerFacts ==
    /\ 0 \in Layers /\ nz - 1 \in Layers /\ nz \in Interfaces
    /\ \A j \in Layers : j \in Interfaces /\ j + 1 \in Interfaces /\ j \in Int /\ j >= 0
    /\ \A j \in Layers : j # nz - 1 => j + 1 \in Layers
    /\ \A j \in Layers : j > 0 => j - 1 \in Layers
  BY NzAssumption DEF Layers, Interfaces

LEMMA ColumnFacts ==
    ASSUME column \in Columns
    PROVE  /\ \A j \in Layers : Positive(column.h[j]) /\ Positive(column.h_avg[j]) /\ Nonnegative(column.Ray[j])
           /\ column.u \in [Layers -> Fraction]
           /\ \A j \in Interfaces : Nonnegative(column.a[j]) /\ Nonnegative(column.a_gl90[j])
           /\ column.stress \in Fraction
           /\ Positive(column.cfl.west) /\ Positive(column.cfl.east)
  BY ColumnsAssumption, Zenon DEF ColumnOK

LEMMA SystemFacts ==
    ASSUME column \in Columns, NEW s
    PROVE  /\ \A j \in Interfaces : Nonnegative(Coupling(s, column, j))
           /\ \A j \in Layers : Nonnegative(Drag(s, column, j))
  BY ColumnFacts, NonnegativeParts, Zenon DEF Coupling, Drag

LEMMA ConstantFractions ==
    /\ Zero \in Fraction /\ One \in Fraction
    /\ AllLayers(Zero) \in [Layers -> Fraction] /\ AllLayers(One) \in [Layers -> Fraction]
    /\ Positive(Hmix) /\ Positive(CFL_trunc) /\ Nonnegative(vel_underflow)
  <1>1. Zero \in Fraction /\ One \in Fraction
    BY NonnegativeParts
  <1> QED  BY <1>1, LimitsAssumption DEF AllLayers

LEMMA ReciprocalOfPositive ==
    ASSUME NEW p, Positive(p)
    PROVE  Positive(Reciprocal(p)) /\ Reciprocal(p) \in Fraction
  BY ReciprocalIsPositive DEF Positive

LEMMA MomentumIsFraction ==
    ASSUME column \in Columns, NEW name \in Unknowns, NEW values \in [Unknowns -> [Layers -> Fraction]], NEW j \in Layers
    PROVE  Momentum(name, column, values, j) \in Fraction
  <1>1. column.h[j] \in Fraction /\ values[name][j] \in Fraction
    BY ColumnFacts, NonnegativeParts
  <1>2. Times(column.h[j], values[name][j]) \in Fraction
    BY <1>1, TimesIsFraction
  <1> QED  BY <1>1, <1>2 DEF Momentum

\* The first term of the denominator, and the scratch values that follow
LEMMA LayerDenominator ==
    ASSUME column \in Columns, NEW j \in Layers, NEW s, NEW share, Nonnegative(share),
           NEW denominator, denominator = Plus(column.h[j], Plus(Drag(s, column, j), share)),
           NEW b, b = b1_of(s, column, j, denominator)
    PROVE  /\ Positive(denominator) /\ Positive(b)
           /\ Nonnegative(Times(denominator, b)) /\ AtMost(Times(denominator, b), One)
           /\ Nonnegative(Times(Coupling(s, column, j + 1), b))
           /\ AtMost(Plus(Times(denominator, b), Times(Coupling(s, column, j + 1), b)), One)
  <1>1. Nonnegative(Plus(Drag(s, column, j), share))
    BY SystemFacts, PlusOfShares
  <1>2. Positive(column.h[j]) /\ Nonnegative(column.h[j])
    BY ColumnFacts, NonnegativeParts
  <1>3. Positive(denominator)
    BY <1>1, <1>2, PlusOfShares
  <1>4. Nonnegative(Coupling(s, column, j + 1))
    BY LayerFacts, SystemFacts
  <1>5. b = Reciprocal(Plus(denominator, Coupling(s, column, j + 1)))
    BY DEF b1_of
  <1> QED  BY <1>3, <1>4, <1>5, ShareOfLayer

LEMMA AfterFacts ==
    ASSUME k \in Layers, NEW j \in Layers, After(j)
    PROVE  /\ pc' \in {"up", "down"} /\ k' \in Layers
           /\ pc' = "down" => k' = j + 1 /\ k' > 0
           /\ pc' = "up" => k' = j /\ j = nz - 1
  BY LayerFacts DEF After

LEMMA InitIsTyped == Init => TypeInv
  <1> SUFFICES ASSUME Init
               PROVE  TypeInv
    OBVIOUS
  <1>1. call \in Calls /\ column \in Columns
    BY DEF Init
  <1>2. pc \in {"hold", "top"} /\ system \in {"vertvisc_tridiag", "remnant"} /\ k \in Layers
    BY LayerFacts DEF Init
  <1>3. {b1, d1, zDS, surface_stress, taux_bot} \subseteq Fraction
    BY ConstantFractions DEF Init
  <1>4. {c1, du_dt_visc, KE_u} \subseteq [Layers -> Fraction]
    BY ConstantFractions DEF Init
  <1>5. x \in [Unknowns -> [Layers -> Fraction]]
    BY <1>1, ColumnFacts, ConstantFractions DEF Init
  <1> QED  BY <1>1, <1>2, <1>3, <1>4, <1>5 DEF TypeInv, VcTypeOK, ScratchOK

\* A step that solves a layer sets values of that layer
LEMMA LayerIsTyped ==
    ASSUME TypeInv, NEW j \in Layers, NEW next \in [Unknowns -> Fraction],
           x' = [name \in Unknowns |-> IF name \in Solved(system) THEN [x[name] EXCEPT ![j] = next[name]] ELSE x[name]]
    PROVE  x' \in [Unknowns -> [Layers -> Fraction]]
  <1>1. x \in [Unknowns -> [Layers -> Fraction]]
    BY DEF TypeInv, VcTypeOK
  <1>2. \A name \in Unknowns : x[name] \in [Layers -> Fraction] /\ [x[name] EXCEPT ![j] = next[name]] \in [Layers -> Fraction]
    BY <1>1
  <1> QED  BY <1>2

LEMMA HoldVelocityIsTyped == TypeInv /\ HoldVelocity => TypeInv'
  <1> SUFFICES ASSUME TypeInv, HoldVelocity
               PROVE  TypeInv'
    OBVIOUS
  <1>1. x["u"] \in [Layers -> Fraction] /\ x \in [Unknowns -> [Layers -> Fraction]]
    BY DEF TypeInv, VcTypeOK, Unknowns
  <1>2. x' \in [Unknowns -> [Layers -> Fraction]]
    BY <1>1, ConstantFractions DEF HoldVelocity
  <1>3. {c1, du_dt_visc, KE_u}' \subseteq [Layers -> Fraction]
    BY <1>1 DEF HoldVelocity, TypeInv, VcTypeOK
  <1> QED  BY <1>2, <1>3 DEF HoldVelocity, TypeInv, VcTypeOK, ScratchOK

LEMMA BodyForceIsTyped == TypeInv /\ ApplyBodyForce => TypeInv'
  <1> SUFFICES ASSUME TypeInv, ApplyBodyForce
               PROVE  TypeInv'
    OBVIOUS
  <1>1. k \in Layers /\ zDS \in Fraction /\ x \in [Unknowns -> [Layers -> Fraction]] /\ column \in Columns
    BY DEF TypeInv, VcTypeOK
  <1>2. column.h_avg[k] \in Fraction /\ Positive(column.h_avg[k]) /\ column.stress \in Fraction
    BY <1>1, ColumnFacts, NonnegativeParts
  <1>3. Hmix \in Fraction /\ Reciprocal(Hmix) \in Fraction /\ Reciprocal(column.h_avg[k]) \in Fraction
    BY <1>2, ConstantFractions, NonnegativeParts, ReciprocalOfPositive
  <1>4. hfr(column.h_avg[k]) \in Fraction
    <2>1. Minus(Hmix, zDS) \in Fraction
      BY <1>1, <1>3, PlusIsFraction
    <2>2. Times(Minus(Hmix, zDS), Reciprocal(column.h_avg[k])) \in Fraction
      BY <1>3, <2>1, TimesIsFraction
    <2> QED  BY <2>2, ConstantFractions DEF hfr
  <1>5. PICK force \in Fraction : force = Times(Times(Reciprocal(Hmix), hfr(column.h_avg[k])), column.stress)
    <2>1. Times(Reciprocal(Hmix), hfr(column.h_avg[k])) \in Fraction
      BY <1>3, <1>4, TimesIsFraction
    <2> QED  BY <1>2, <2>1, TimesIsFraction
  <1>6. x["u"][k] \in Fraction /\ Plus(x["u"][k], force) \in Fraction
    BY <1>1, <1>5, PlusIsFraction DEF Unknowns
  <1>7. x' = [x EXCEPT !["u"][k] = Plus(@, force), !["du_dt_str"][k] = force]
    BY <1>5, Zenon DEF ApplyBodyForce
  <1>8. x' \in [Unknowns -> [Layers -> Fraction]]
    <2>1. PICK after \in Fraction : after = Plus(x["u"][k], force)
      BY <1>6
    <2>2. x' = [x EXCEPT !["u"][k] = after, !["du_dt_str"][k] = force]
      BY <1>7, <2>1
    <2> QED  BY <1>1, <2>1, <2>2
  <1>9. zDS' \in Fraction
    BY <1>1, <1>2, PlusIsFraction DEF ApplyBodyForce
  <1>10. k' \in Layers /\ pc' \in {"top", "wind"}
    BY <1>1, LayerFacts DEF ApplyBodyForce
  <1>11. surface_stress' \in Fraction
    BY ConstantFractions DEF ApplyBodyForce
  <1>12. UNCHANGED <<call, column, system, b1, d1, c1, du_dt_visc, KE_u, taux_bot>>
    BY DEF ApplyBodyForce
  <1> QED  BY <1>8, <1>9, <1>10, <1>11, <1>12 DEF TypeInv, VcTypeOK, ScratchOK

LEMMA SurfaceStressIsTyped == TypeInv /\ ApplySurfaceStress => TypeInv'
  <1> SUFFICES ASSUME TypeInv, ApplySurfaceStress
               PROVE  TypeInv'
    OBVIOUS
  <1>1. column.stress \in Fraction
    BY ColumnFacts DEF TypeInv, VcTypeOK
  <1> QED  BY <1>1 DEF ApplySurfaceStress, TypeInv, VcTypeOK, ScratchOK

LEMMA EliminateTopIsTyped == TypeInv /\ EliminateTop => TypeInv'
  <1> SUFFICES ASSUME TypeInv, EliminateTop
               PROVE  TypeInv'
    OBVIOUS
  <1> DEFINE share == Coupling(system, column, 0)
             denominator == Plus(column.h[0], Plus(Drag(system, column, 0), share))
             b == b1_of(system, column, 0, denominator)
             next == [name \in Unknowns |-> Times(b, Plus(Momentum(name, column, x, 0), StressOn(name, surface_stress)))]
  <1>1. 0 \in Layers /\ k \in Layers /\ column \in Columns /\ surface_stress \in Fraction /\ x \in [Unknowns -> [Layers -> Fraction]]
    BY LayerFacts DEF TypeInv, VcTypeOK
  <1>2. Nonnegative(share)
    BY <1>1, LayerFacts, SystemFacts
  <1>3. Positive(b) /\ Nonnegative(Times(denominator, b))
    BY <1>1, <1>2, LayerDenominator
  <1>4. next \in [Unknowns -> Fraction]
    <2>1. ASSUME NEW name \in Unknowns
          PROVE  Times(b, Plus(Momentum(name, column, x, 0), StressOn(name, surface_stress))) \in Fraction
      <3>1. Momentum(name, column, x, 0) \in Fraction
        BY <1>1, MomentumIsFraction
      <3>2. StressOn(name, surface_stress) \in Fraction
        BY <1>1, ConstantFractions DEF StressOn
      <3>3. Plus(Momentum(name, column, x, 0), StressOn(name, surface_stress)) \in Fraction
        BY <3>1, <3>2, PlusIsFraction
      <3>4. b \in Fraction
        BY <1>3, NonnegativeParts
      <3> HIDE DEF b
      <3> QED  BY <3>3, <3>4, TimesIsFraction
    <2> QED  BY <2>1
  <1>5. x' = [name \in Unknowns |-> IF name \in Solved(system) THEN [x[name] EXCEPT ![0] = next[name]] ELSE x[name]]
    BY Zenon DEF EliminateTop
  <1>6. x' \in [Unknowns -> [Layers -> Fraction]]
    <2> HIDE DEF next
    <2> QED  BY <1>1, <1>4, <1>5, LayerIsTyped
  <1>7. b1' = b /\ d1' = Times(denominator, b) /\ UNCHANGED <<call, column, system, c1, zDS, surface_stress, du_dt_visc, KE_u, taux_bot>>
    BY DEF EliminateTop
  <1>8. pc' \in {"up", "down"} /\ k' \in Layers /\ (pc' = "down" => k' > 0)
    BY <1>1, AfterFacts DEF EliminateTop
  <1>9. Nonnegative(b1') /\ Nonnegative(d1') /\ b1' \in Fraction /\ d1' \in Fraction
    <2> HIDE DEF denominator, b
    <2> QED  BY <1>3, <1>7, NonnegativeParts
  <1>10. (Nonnegative(b1) /\ Nonnegative(d1))'
    BY <1>9 DEF Nonnegative
  <1> HIDE DEF next, b, denominator
  <1> QED  BY <1>6, <1>7, <1>8, <1>9, <1>10 DEF TypeInv, VcTypeOK, ScratchOK

LEMMA EliminateIsTyped == TypeInv /\ Eliminate => TypeInv'
  <1> SUFFICES ASSUME TypeInv, Eliminate
               PROVE  TypeInv'
    OBVIOUS
  <1> DEFINE a == Coupling(system, column, k)
             denominator == Plus(column.h[k], Plus(Drag(system, column, k), Times(a, d1)))
             b == b1_of(system, column, k, denominator)
             next == [name \in Unknowns |-> Times(Plus(Momentum(name, column, x, k), Times(a, x[name][k - 1])), b)]
  <1>1. /\ k \in Layers /\ k > 0 /\ k - 1 \in Layers /\ column \in Columns /\ x \in [Unknowns -> [Layers -> Fraction]]
        /\ c1 \in [Layers -> Fraction] /\ Nonnegative(b1) /\ Nonnegative(d1)
    <2>1. k \in Layers /\ k > 0 /\ column \in Columns /\ x \in [Unknowns -> [Layers -> Fraction]]
          /\ c1 \in [Layers -> Fraction] /\ Nonnegative(b1) /\ Nonnegative(d1)
      BY DEF TypeInv, VcTypeOK, ScratchOK, Eliminate
    <2> QED  BY <2>1, LayerFacts
  <1>2. Nonnegative(a) /\ a \in Fraction
    BY <1>1, LayerFacts, SystemFacts, NonnegativeParts
  <1> HIDE DEF a
  <1>3. Nonnegative(Times(a, d1)) /\ Nonnegative(Times(a, b1)) /\ Times(a, b1) \in Fraction
    BY <1>1, <1>2, TimesOfShares, NonnegativeParts
  <1>4. Positive(b) /\ Nonnegative(Times(denominator, b)) /\ b \in Fraction
    BY <1>1, <1>3, LayerDenominator, NonnegativeParts
  <1>5. next \in [Unknowns -> Fraction]
    <2>1. ASSUME NEW name \in Unknowns
          PROVE  Times(Plus(Momentum(name, column, x, k), Times(a, x[name][k - 1])), b) \in Fraction
      <3>1. Momentum(name, column, x, k) \in Fraction /\ x[name][k - 1] \in Fraction
        BY <1>1, MomentumIsFraction
      <3>2. Times(a, x[name][k - 1]) \in Fraction
        BY <1>2, <3>1, TimesIsFraction
      <3>3. Plus(Momentum(name, column, x, k), Times(a, x[name][k - 1])) \in Fraction
        BY <3>1, <3>2, PlusIsFraction
      <3> HIDE DEF b
      <3> QED  BY <1>4, <3>3, TimesIsFraction
    <2> QED  BY <2>1
  <1>6. x' = [name \in Unknowns |-> IF name \in Solved(system) THEN [x[name] EXCEPT ![k] = next[name]] ELSE x[name]]
    BY Zenon DEF Eliminate, a
  <1>7. x' \in [Unknowns -> [Layers -> Fraction]]
    <2> HIDE DEF next
    <2> QED  BY <1>1, <1>5, <1>6, LayerIsTyped
  <1>8. /\ c1' = [c1 EXCEPT ![k] = Times(a, b1)] /\ b1' = b /\ d1' = Times(denominator, b)
        /\ UNCHANGED <<call, column, system, zDS, surface_stress, du_dt_visc, KE_u, taux_bot>>
    BY DEF Eliminate, a
  <1>9. pc' \in {"up", "down"} /\ k' \in Layers /\ (pc' = "down" => k' > 0)
    BY <1>1, AfterFacts DEF Eliminate
  <1>10. Nonnegative(b1') /\ Nonnegative(d1') /\ b1' \in Fraction /\ d1' \in Fraction
    <2> HIDE DEF denominator, b
    <2> QED  BY <1>4, <1>8, NonnegativeParts
  <1>11. (Nonnegative(b1) /\ Nonnegative(d1))'
    BY <1>10 DEF Nonnegative
  <1>12. c1' \in [Layers -> Fraction]
    BY <1>1, <1>3, <1>8
  <1> HIDE DEF next, b, denominator
  <1> QED  BY <1>7, <1>8, <1>9, <1>10, <1>11, <1>12 DEF TypeInv, VcTypeOK, ScratchOK

LEMMA BackSubstituteIsTyped == TypeInv /\ BackSubstitute => TypeInv'
  <1> SUFFICES ASSUME TypeInv, BackSubstitute
               PROVE  TypeInv'
    OBVIOUS
  <1> DEFINE next == [name \in Unknowns |-> Plus(x[name][k - 1], Times(c1[k], x[name][k]))]
  <1>1. k \in Layers /\ k > 0 /\ x \in [Unknowns -> [Layers -> Fraction]] /\ c1 \in [Layers -> Fraction]
    BY DEF TypeInv, VcTypeOK, BackSubstitute
  <1>2. k - 1 \in Layers
    BY <1>1, LayerFacts
  <1>3. next \in [Unknowns -> Fraction]
    <2>1. ASSUME NEW name \in Unknowns
          PROVE  Plus(x[name][k - 1], Times(c1[k], x[name][k])) \in Fraction
      <3>1. x[name][k - 1] \in Fraction /\ c1[k] \in Fraction /\ x[name][k] \in Fraction
        BY <1>1, <1>2
      <3>2. Times(c1[k], x[name][k]) \in Fraction
        BY <3>1, TimesIsFraction
      <3> QED  BY <3>1, <3>2, PlusIsFraction
    <2> QED  BY <2>1
  <1>4. x' = [name \in Unknowns |-> IF name \in Solved(system) THEN [x[name] EXCEPT ![k - 1] = next[name]] ELSE x[name]]
    BY <1>1, <1>2, Zenon DEF BackSubstitute
  <1>5. x' \in [Unknowns -> [Layers -> Fraction]]
    <2> HIDE DEF next
    <2> QED  BY <1>2, <1>3, <1>4, LayerIsTyped
  <1>6. k' \in Layers /\ pc' = "up"
    BY <1>2 DEF BackSubstitute
  <1> HIDE DEF next
  <1> QED  BY <1>5, <1>6 DEF BackSubstitute, TypeInv, VcTypeOK, ScratchOK

LEMMA DifferenceIsTyped ==
    ASSUME NEW f \in [Layers -> Fraction], NEW g \in [Layers -> Fraction]
    PROVE  Difference(f, g) \in [Layers -> Fraction]
  BY PlusIsFraction DEF Difference

LEMMA DiagnoseGL90IsTyped == TypeInv /\ DiagnoseGL90 => TypeInv'
  <1> SUFFICES ASSUME TypeInv, DiagnoseGL90
               PROVE  TypeInv'
    OBVIOUS
  <1>1. x \in [Unknowns -> [Layers -> Fraction]] /\ du_dt_visc \in [Layers -> Fraction] /\ column \in Columns
    BY DEF TypeInv, VcTypeOK
  <1>2. PICK tendency \in [Layers -> Fraction] : tendency = Difference(x["du_dt_visc_gl90"], du_dt_visc)
    BY <1>1, DifferenceIsTyped DEF Unknowns
  <1>3. x' = [x EXCEPT !["du_dt_visc_gl90"] = tendency]
    BY <1>2 DEF DiagnoseGL90
  <1>4. x' \in [Unknowns -> [Layers -> Fraction]]
    BY <1>1, <1>3
  <1>5. KE_u' = [j \in Layers |-> Times(Times(du_dt_visc[j], column.h[j]), tendency[j])]
    BY <1>2 DEF DiagnoseGL90
  <1>6. KE_u' \in [Layers -> Fraction]
    <2>1. ASSUME NEW j \in Layers
          PROVE  Times(Times(du_dt_visc[j], column.h[j]), tendency[j]) \in Fraction
      <3>1. column.h[j] \in Fraction /\ du_dt_visc[j] \in Fraction /\ tendency[j] \in Fraction
        BY <1>1, <1>2, ColumnFacts, NonnegativeParts
      <3>2. Times(du_dt_visc[j], column.h[j]) \in Fraction
        BY <3>1, TimesIsFraction
      <3> QED  BY <3>1, <3>2, TimesIsFraction
    <2> QED  BY <1>5, <2>1
  <1> QED  BY <1>4, <1>6 DEF DiagnoseGL90, TypeInv, VcTypeOK, ScratchOK

LEMMA DiagnoseIsTyped == TypeInv /\ Diagnose => TypeInv'
  <1> SUFFICES ASSUME TypeInv, Diagnose
               PROVE  TypeInv'
    OBVIOUS
  <1>1. x["u"] \in [Layers -> Fraction] /\ du_dt_visc \in [Layers -> Fraction] /\ column \in Columns
    BY DEF TypeInv, VcTypeOK, Unknowns
  <1>2. du_dt_visc' \in [Layers -> Fraction]
    BY <1>1, DifferenceIsTyped DEF Diagnose
  <1>3. x["u"][nz - 1] \in Fraction /\ column.a[nz] \in Fraction
    BY <1>1, LayerFacts, ColumnFacts, NonnegativeParts
  <1>4. taux_bot' \in Fraction
    BY <1>3, TimesIsFraction DEF Diagnose
  <1> QED  BY <1>2, <1>4 DEF Diagnose, TypeInv, VcTypeOK, ScratchOK

LEMMA AddDragIsTyped == TypeInv /\ AddDrag => TypeInv'
  <1> SUFFICES ASSUME TypeInv, AddDrag
               PROVE  TypeInv'
    OBVIOUS
  <1>1. k \in Layers /\ x["u"] \in [Layers -> Fraction] /\ taux_bot \in Fraction /\ column \in Columns
    BY DEF TypeInv, VcTypeOK, Unknowns
  <1>2. column.Ray[k] \in Fraction /\ x["u"][k] \in Fraction
    BY <1>1, ColumnFacts, NonnegativeParts
  <1>3. Times(column.Ray[k], x["u"][k]) \in Fraction
    BY <1>2, TimesIsFraction
  <1>4. taux_bot' \in Fraction
    BY <1>1, <1>3, PlusIsFraction DEF AddDrag
  <1>5. k' \in Layers /\ pc' \in {"drag", "limit"}
    BY <1>1, LayerFacts DEF AddDrag
  <1> QED  BY <1>4, <1>5 DEF AddDrag, TypeInv, VcTypeOK, ScratchOK

-----------------------------------------------------------------------------
(* Truncated velocities *)

LEMMA RatioBelow ==
    ASSUME NEW m \in Int, NEW c \in Int, c > 0, NEW q \in Fraction, m * q.den <= q.num * c
    PROVE  AtMost(Ratio(m, c), q)
  <1>1. PICK n \in Int, d \in Int : n = q.num /\ d = q.den /\ d > 0
    BY FractionParts
  <1>2. PICK e \in Int, f \in Int : e = Ratio(m, c).num /\ f = Ratio(m, c).den /\ f > 0 /\ e * c = m * f
    <2>1. PICK r \in Fraction : r = Ratio(m, c) /\ r.num * c = m * r.den
      BY RatioValue
    <2> QED  BY <2>1, FractionParts
  <1>3. (m * d) * f <= (n * c) * f
    <2>1. m * d \in Int /\ n * c \in Int /\ m * d <= n * c
      BY <1>1
    <2> QED  BY <1>2, <2>1, Grows
  <1>4. (e * d) * c <= (n * f) * c
    <2>1. (e * d) * c = (e * c) * d
      OBVIOUS
    <2>2. (m * f) * d = (m * d) * f /\ (n * f) * c = (n * c) * f
      OBVIOUS
    <2> QED  BY <1>2, <1>3, <2>1, <2>2
  <1>5. e * d <= n * f
    <2>1. e * d \in Int /\ n * f \in Int
      OBVIOUS
    <2> QED  BY <1>4, <2>1, Cancels
  <1> QED  BY <1>1, <1>2, <1>5 DEF AtMost

LEMMA NegativeParts ==
    ASSUME NEW m, Positive(m), NEW w, w = Minus(Zero, m)
    PROVE  w \in Fraction /\ w.num < 0 /\ Absolute(w) \in Fraction /\ AtMost(Absolute(w), m)
  <1>1. PICK n \in Int, d \in Int : n = m.num /\ d = m.den /\ d > 0 /\ n > 0 /\ m \in Fraction
    BY FractionParts DEF Positive
  <1>2. w = Ratio(-n, d)
    <2>1. 0 * d - n * 1 = -n /\ 1 * d = d
      OBVIOUS
    <2> QED  BY <1>1, <2>1 DEF Minus, Zero, Whole
  <1>3. PICK e \in Int, f \in Int : e = w.num /\ f = w.den /\ f > 0 /\ e * d = (-n) * f /\ w \in Fraction
    BY <1>1, <1>2, RatioValue, FractionParts
  <1>4. e < 0
    <2>1. n * f > 0
      BY <1>1, <1>3, SignOfProduct
    <2>2. (-e) * d = n * f
      BY <1>3
    <2>3. CASE e >= 0
      <3>1. e * d >= 0
        BY <1>1, <2>3, SignOfProduct
      <3>2. (-n) * f = -(n * f)
        OBVIOUS
      <3> QED  BY <1>3, <2>1, <3>1, <3>2
    <2> QED  BY <2>3
  <1>5. Absolute(w) = [num |-> -e, den |-> f]
    BY <1>3, <1>4 DEF Absolute, Magnitude, Fraction
  <1>6. (-e) * d <= n * f
    BY <1>3
  <1> QED  BY <1>1, <1>3, <1>4, <1>5, <1>6, OfParts DEF AtMost

\* Nine tenths of the limit are within it
LEMMA NineTenths ==
    ASSUME NEW area, Positive(area), NEW limit, Positive(limit), NEW m,
           m = Times([num |-> 9, den |-> 10], Times(limit, Reciprocal(area)))
    PROVE  Positive(m) /\ AtMost(Times(m, area), limit)
  <1>1. PICK an \in Int, ad \in Int : an = area.num /\ ad = area.den /\ an > 0 /\ ad > 0
    BY FractionParts DEF Positive
  <1>2. PICK tn \in Int, td \in Int : tn = limit.num /\ td = limit.den /\ tn > 0 /\ td > 0
    BY FractionParts DEF Positive
  <1>3. PICK E \in Fraction : E = Times(limit, Reciprocal(area)) /\ Positive(E)
    <2>1. Nonnegative(limit) /\ Nonnegative(Reciprocal(area)) /\ Positive(Reciprocal(area))
      BY ReciprocalOfPositive, NonnegativeParts
    <2> QED  BY <2>1, TimesOfShares, NonnegativeParts
  <1>4. PICK en \in Int, ed \in Int : en = E.num /\ ed = E.den /\ en > 0 /\ ed > 0
    BY <1>3, FractionParts DEF Positive
  <1>5. en * (td * an) = (tn * ad) * ed
    <2>1. E = Ratio(tn * ad, td * an)
      BY <1>1, <1>2, <1>3 DEF Times, Reciprocal
    <2>2. tn * ad \in Int /\ td * an \in Int /\ td * an > 0
      BY <1>1, <1>2, SignOfProduct
    <2> QED  BY <1>4, <2>1, <2>2, RatioValue
  <1>6. m = Ratio(9 * en, 10 * ed) /\ 9 * en > 0 /\ 10 * ed > 0
    BY <1>3, <1>4 DEF Times
  <1>7. PICK mn \in Int, md \in Int :
          mn = m.num /\ md = m.den /\ mn > 0 /\ md > 0 /\ mn * (10 * ed) = (9 * en) * md /\ m \in Fraction
    <2>1. PICK n \in Int, d \in Int : n = 9 * en /\ d = 10 * ed /\ n > 0 /\ d > 0 /\ m = Ratio(n, d)
      BY <1>6
    <2>2. m \in Fraction /\ m.num * d = n * m.den /\ m.num > 0
      BY <2>1, RatioValue, RatioSign
    <2> QED  BY <2>1, <2>2, FractionParts
  <1>8. Times(m, area) = Ratio(mn * an, md * ad) /\ mn * an \in Int /\ md * ad \in Int /\ md * ad > 0
    BY <1>1, <1>7, SignOfProduct DEF Times
  <1>9. (mn * an) * td <= tn * (md * ad)
    <2>1. ((mn * an) * td) * (10 * ed) = (mn * (10 * ed)) * (an * td)
      OBVIOUS
    <2>2. ((9 * en) * md) * (an * td) = (en * (td * an)) * (9 * md)
      OBVIOUS
    <2>3. ((tn * ad) * ed) * (9 * md) = (9 * (tn * (md * ad))) * ed
      OBVIOUS
    <2>4. ((mn * an) * td) * (10 * ed) = (10 * ((mn * an) * td)) * ed
      OBVIOUS
    <2>5. PICK p \in Int, q \in Int : p = (mn * an) * td /\ q = tn * (md * ad)
      OBVIOUS
    <2>6. (10 * p) * ed = (9 * q) * ed
      BY <1>5, <1>7, <2>1, <2>2, <2>3, <2>4, <2>5
    <2>7. 10 * p <= 9 * q
      <3>1. 10 * p \in Int /\ 9 * q \in Int /\ (10 * p) * ed <= (9 * q) * ed
        BY <2>6
      <3> QED  BY <1>4, <3>1, Cancels
    <2>8. q >= 0
      BY <1>2, <1>8, <2>5, SignOfProduct
    <2> QED  BY <2>5, <2>7, <2>8
  <1>10. AtMost(Times(m, area), limit)
    BY <1>2, <1>8, <1>9, RatioBelow, NonnegativeParts
  <1> QED  BY <1>7, <1>10 DEF Positive

LEMMA BelowOrAtMost ==
    ASSUME NEW p \in Fraction, NEW q \in Fraction
    PROVE  Below(p, q) <=> ~AtMost(q, p)
  BY FractionParts DEF Below, AtMost

LEMMA AbsoluteIsFraction ==
    ASSUME NEW q \in Fraction
    PROVE  Absolute(q) \in Fraction
  BY DEF Absolute, Magnitude, Fraction

LEMMA CFLIsFraction ==
    ASSUME column \in Columns, NEW u \in Fraction
    PROVE  CFL(column, u) \in Fraction
  <1>1. column.cfl.west \in Fraction /\ column.cfl.east \in Fraction
    BY ColumnFacts, NonnegativeParts
  <1>2. Times(Absolute(u), column.cfl.east) \in Fraction /\ Times(u, column.cfl.west) \in Fraction
    BY <1>1, AbsoluteIsFraction, TimesIsFraction
  <1> QED  BY <1>2 DEF CFL

LEMMA ZeroIsWithinLimit ==
    ASSUME column \in Columns
    PROVE  AtMost(CFL(column, Zero), CFL_trunc) /\ Cut(column, Zero) = Zero
  <1>1. CFL(column, Zero) = Times(Zero, column.cfl.west)
    BY DEF CFL, Zero, Whole
  <1>2. PICK d \in Int : d = column.cfl.west.den /\ d > 0
    BY ColumnFacts, NonnegativeParts, FractionParts
  <1>3. PICK n \in Int : n = column.cfl.west.num
    BY ColumnFacts, NonnegativeParts, FractionParts
  <1>4. Times(Zero, column.cfl.west) = Ratio(0, d)
    <2>1. 0 * n = 0 /\ 1 * d = d
      OBVIOUS
    <2> QED  BY <1>2, <1>3, <2>1 DEF Times, Zero, Whole
  <1>5. CFL_trunc \in Fraction /\ CFL_trunc.num > 0
    BY ConstantFractions DEF Positive
  <1>6. 0 * CFL_trunc.den <= CFL_trunc.num * d
    BY <1>2, <1>5, FractionParts, SignOfProduct
  <1>7. AtMost(CFL(column, Zero), CFL_trunc)
    BY <1>1, <1>2, <1>4, <1>5, <1>6, RatioBelow
  <1>8. ~Below(CFL_trunc, CFL(column, Zero))
    BY <1>5, <1>7, CFLIsFraction, ConstantFractions, BelowOrAtMost
  <1> QED  BY <1>7, <1>8 DEF Cut

LEMMA CutIsWithinLimit ==
    ASSUME column \in Columns, NEW u \in Fraction
    PROVE  Cut(column, u) \in Fraction /\ AtMost(CFL(column, Cut(column, u)), CFL_trunc)
  <1> DEFINE most(area) == Times([num |-> 9, den |-> 10], Times(CFL_trunc, Reciprocal(area)))
  <1>1. CFL_trunc \in Fraction /\ Positive(CFL_trunc) /\ CFL(column, u) \in Fraction
    BY ConstantFractions, CFLIsFraction, NonnegativeParts
  <1>2. CASE ~Below(CFL_trunc, CFL(column, u))
    BY <1>1, <1>2, BelowOrAtMost DEF Cut
  <1>3. CASE Below(CFL_trunc, CFL(column, u)) /\ u.num < 0
    <2> DEFINE m == most(column.cfl.east)
    <2>1. Positive(column.cfl.east) /\ column.cfl.east \in Fraction /\ column.cfl.east.num >= 0
      BY ColumnFacts, NonnegativeParts DEF Nonnegative
    <2>2. Positive(m) /\ AtMost(Times(m, column.cfl.east), CFL_trunc)
      BY <1>1, <2>1, NineTenths
    <2>3. PICK w : w = Minus(Zero, m)
      OBVIOUS
    <2>4. Cut(column, u) = w
      BY <1>3, <2>3 DEF Cut
    <2> HIDE DEF m
    <2>5. w \in Fraction /\ w.num < 0 /\ Absolute(w) \in Fraction /\ AtMost(Absolute(w), m) /\ m \in Fraction
      BY <2>2, <2>3, NegativeParts, NonnegativeParts
    <2>6. AtMost(Times(Absolute(w), column.cfl.east), Times(m, column.cfl.east))
      BY <2>1, <2>5, TimesGrows
    <2>7. AtMost(Times(Absolute(w), column.cfl.east), CFL_trunc)
      BY <1>1, <2>1, <2>2, <2>5, <2>6, TimesIsFraction, AtMostTrans
    <2>8. CFL(column, w) = Times(Absolute(w), column.cfl.east)
      BY <2>5 DEF CFL
    <2> QED  BY <2>4, <2>5, <2>7, <2>8
  <1>4. CASE Below(CFL_trunc, CFL(column, u)) /\ ~(u.num < 0)
    <2> DEFINE m == most(column.cfl.west)
    <2>1. Positive(column.cfl.west)
      BY ColumnFacts
    <2>2. Positive(m) /\ AtMost(Times(m, column.cfl.west), CFL_trunc)
      BY <1>1, <2>1, NineTenths
    <2>3. Cut(column, u) = m
      BY <1>4 DEF Cut
    <2> HIDE DEF m
    <2>4. m \in Fraction /\ ~(m.num < 0)
      BY <2>2, FractionParts DEF Positive
    <2>5. CFL(column, m) = Times(m, column.cfl.west)
      BY <2>4 DEF CFL
    <2> QED  BY <2>2, <2>3, <2>4, <2>5
  <1> QED  BY <1>2, <1>3, <1>4

\* Both ways of limiting a column give velocities within the limit, and the same
LEMMA LimitedColumn ==
    ASSUME column \in Columns, NEW u \in [Layers -> Fraction], NEW others \in BOOLEAN
    PROVE  /\ limit_only(column, u) \in [Layers -> Fraction]
           /\ \A j \in Layers : AtMost(CFL(column, limit_only(column, u)[j]), CFL_trunc)
           /\ limit_and_report(column, u, others) = limit_only(column, u)
  <1> DEFINE kept == [j \in Layers |-> IF Underflows(u[j]) THEN Zero ELSE u[j]]
             trunc_any == others \/ \E j \in Layers : Below(CFL_trunc, CFL(column, kept[j]))
  <1>1. ASSUME NEW j \in Layers
        PROVE  /\ limit_only(column, u)[j] \in Fraction
               /\ AtMost(CFL(column, limit_only(column, u)[j]), CFL_trunc)
    <2>1. limit_only(column, u)[j] = IF Underflows(u[j]) THEN Zero ELSE Cut(column, u[j])
      BY DEF limit_only
    <2>2. u[j] \in Fraction
      OBVIOUS
    <2> QED  BY <2>1, <2>2, ConstantFractions, ZeroIsWithinLimit, CutIsWithinLimit
  <1>2. limit_only(column, u) \in [Layers -> Fraction]
    BY <1>1 DEF limit_only
  <1>3. ASSUME NEW j \in Layers
        PROVE  Cut(column, kept[j]) = limit_only(column, u)[j]
    BY ZeroIsWithinLimit DEF limit_only
  <1>4. CASE trunc_any
    <2>1. limit_and_report(column, u, others) = [j \in Layers |-> Cut(column, kept[j])]
      BY <1>4, Zenon DEF limit_and_report
    <2> HIDE DEF kept
    <2> QED  BY <1>1, <1>2, <1>3, <2>1 DEF limit_only
  <1>5. CASE ~trunc_any
    <2>1. limit_and_report(column, u, others) = kept
      BY <1>5, Zenon DEF limit_and_report
    <2>2. ASSUME NEW j \in Layers
          PROVE  kept[j] = Cut(column, kept[j])
      <3>1. ~Below(CFL_trunc, CFL(column, kept[j]))
        BY <1>5
      <3> HIDE DEF kept
      <3> QED  BY <3>1 DEF Cut
    <2>3. kept = [j \in Layers |-> limit_only(column, u)[j]]
      BY <1>3, <2>2
    <2> HIDE DEF kept
    <2> QED  BY <1>1, <1>2, <2>1, <2>3
  <1> QED  BY <1>1, <1>2, <1>4, <1>5

LEMMA LimitVelocityIsTyped == TypeInv /\ LimitVelocity => TypeInv'
  <1> SUFFICES ASSUME TypeInv, LimitVelocity
               PROVE  TypeInv'
    OBVIOUS
  <1>1. column \in Columns /\ x \in [Unknowns -> [Layers -> Fraction]] /\ x["u"] \in [Layers -> Fraction]
    BY DEF TypeInv, VcTypeOK, Unknowns
  <1>2. x' = [x EXCEPT !["u"] = limit_only(column, x["u"])]
    BY <1>1, LimitedColumn DEF LimitVelocity
  <1>3. x' \in [Unknowns -> [Layers -> Fraction]]
    BY <1>1, <1>2, LimitedColumn
  <1> QED  BY <1>3 DEF LimitVelocity, TypeInv, VcTypeOK, ScratchOK

-----------------------------------------------------------------------------
(* The theorems on types and on velocities *)

LEMMA InvariantOfNext == TypeInv /\ [Next]_vars => TypeInv'
  <1> SUFFICES ASSUME TypeInv, [Next]_vars
               PROVE  TypeInv'
    OBVIOUS
  <1>1. CASE HoldVelocity
    BY <1>1, HoldVelocityIsTyped
  <1>2. CASE ApplyBodyForce
    BY <1>2, BodyForceIsTyped
  <1>3. CASE ApplySurfaceStress
    BY <1>3, SurfaceStressIsTyped
  <1>4. CASE EliminateTop
    BY <1>4, EliminateTopIsTyped
  <1>5. CASE Eliminate
    BY <1>5, EliminateIsTyped
  <1>6. CASE BackSubstitute
    BY <1>6, BackSubstituteIsTyped
  <1>7. CASE FinishRemnant
    BY <1>7 DEF FinishRemnant, TypeInv, VcTypeOK, ScratchOK
  <1>8. CASE StartGL90
    BY <1>8 DEF StartGL90, TypeInv, VcTypeOK, ScratchOK
  <1>9. CASE DiagnoseGL90
    BY <1>9, DiagnoseGL90IsTyped
  <1>10. CASE Diagnose
    BY <1>10, DiagnoseIsTyped
  <1>11. CASE AddDrag
    BY <1>11, AddDragIsTyped
  <1>12. CASE LimitVelocity
    BY <1>12, LimitVelocityIsTyped
  <1>13. CASE UNCHANGED vars
    BY <1>13 DEF vars, TypeInv, VcTypeOK, ScratchOK, Nonnegative
  <1> QED  BY <1>1, <1>2, <1>3, <1>4, <1>5, <1>6, <1>7, <1>8, <1>9, <1>10, <1>11, <1>12, <1>13 DEF Next

\* Every value of the solves, the wind, the tendencies and the truncation is a
\* fraction: no step divides by nothing, whatever the layers, couplings and drag.
THEOREM ColumnIsTyped == Spec => []VcTypeOK
  <1>1. TypeInv => VcTypeOK
    BY DEF TypeInv
  <1> QED  BY <1>1, InitIsTyped, InvariantOfNext, PTL DEF Spec

\* Which steps a call takes
RouteOK ==
    /\ call \in Calls
    /\ call = "vertvisc_remnant_tr" => system = "remnant" /\ pc \in {"top", "down", "up", "done"}
    /\ call = "vertvisc_tr" => system # "remnant"

LEMMA InitIsOnRoute == Init => RouteOK
  BY DEF Init, RouteOK, Calls

LEMMA RouteOfNext == RouteOK /\ [Next]_vars => RouteOK' /\ UNCHANGED <<call, column>>
  <1> SUFFICES ASSUME RouteOK, [Next]_vars
               PROVE  RouteOK' /\ UNCHANGED <<call, column>>
    OBVIOUS
  <1> USE DEF RouteOK, Calls
  <1>1. CASE HoldVelocity \/ ApplyBodyForce \/ ApplySurfaceStress \/ DiagnoseGL90 \/ Diagnose \/ AddDrag \/ LimitVelocity
    BY <1>1 DEF HoldVelocity, ApplyBodyForce, ApplySurfaceStress, DiagnoseGL90, SolveIsDone, Diagnose, AddDrag, LimitVelocity
  <1>2. CASE EliminateTop \/ Eliminate
    BY <1>2 DEF EliminateTop, Eliminate, After
  <1>3. CASE BackSubstitute \/ FinishRemnant \/ StartGL90
    BY <1>3 DEF BackSubstitute, FinishRemnant, StartGL90, SolveIsDone
  <1>4. CASE UNCHANGED vars
    BY <1>4 DEF vars
  <1> QED  BY <1>1, <1>2, <1>3, <1>4 DEF Next

LEMMA LimitOfStep == TypeInv /\ RouteOK /\ VelocityIsLimited /\ [Next]_vars => VelocityIsLimited'
  <1> SUFFICES ASSUME TypeInv, RouteOK, VelocityIsLimited, [Next]_vars
               PROVE  VelocityIsLimited'
    OBVIOUS
  <1>1. column \in Columns /\ x["u"] \in [Layers -> Fraction] /\ x \in [Unknowns -> [Layers -> Fraction]]
    BY DEF TypeInv, VcTypeOK, Unknowns
  <1>2. UNCHANGED <<call, column>>
    BY RouteOfNext
  <1>3. (pc = "limit" =>
           \A others \in BOOLEAN : limit_and_report(column, x["u"], others) = limit_only(column, x["u"]))'
    <2>1. TypeInv'
      BY InvariantOfNext
    <2>2. column' \in Columns /\ x'["u"] \in [Layers -> Fraction]
      BY <2>1 DEF TypeInv, VcTypeOK, Unknowns
    <2>3. \A others \in BOOLEAN : limit_and_report(column, x'["u"], others) = limit_only(column, x'["u"])
      BY <1>1, <2>2, LimitedColumn
    <2> QED  BY <1>2, <2>3
  <1>4. ((pc = "done" /\ call = "vertvisc_tr") => \A j \in Layers : AtMost(CFL(column, x["u"][j]), CFL_trunc))'
    <2>1. CASE LimitVelocity
      <3>1. x' = [x EXCEPT !["u"] = limit_only(column, x["u"])]
        BY <1>1, <2>1, LimitedColumn DEF LimitVelocity
      <3>2. x'["u"] = limit_only(column, x["u"])
        BY <1>1, <3>1 DEF Unknowns
      <3> QED  BY <1>1, <1>2, <3>2, LimitedColumn
    <2>2. CASE FinishRemnant
      BY <1>2, <2>2 DEF FinishRemnant, SolveIsDone, RouteOK
    <2>3. CASE UNCHANGED vars
      BY <2>3 DEF vars, VelocityIsLimited
    <2>4. CASE HoldVelocity \/ ApplyBodyForce \/ ApplySurfaceStress \/ BackSubstitute \/ StartGL90 \/ DiagnoseGL90 \/ Diagnose \/ AddDrag
      <3>1. pc' # "done"
        BY <2>4 DEF HoldVelocity, ApplyBodyForce, ApplySurfaceStress, BackSubstitute, StartGL90, DiagnoseGL90, SolveIsDone,
                    Diagnose, AddDrag
      <3> QED  BY <3>1
    <2>5. CASE EliminateTop \/ Eliminate
      <3>1. pc' # "done"
        BY <2>5 DEF EliminateTop, Eliminate, After
      <3> QED  BY <3>1
    <2> QED  BY <2>1, <2>2, <2>3, <2>4, <2>5 DEF Next
  <1> QED  BY <1>3, <1>4 DEF VelocityIsLimited

\* A velocity that vertvisc leaves moves at most CFL_trunc of the cell it comes from,
\* and is the same whether columns are reported or not.
THEOREM VelocityAlwaysLimited == Spec => []VelocityIsLimited
  <1>1. Init => VelocityIsLimited
    BY DEF Init, VelocityIsLimited
  <1> QED  BY <1>1, InitIsTyped, InvariantOfNext, InitIsOnRoute, RouteOfNext, LimitOfStep, PTL DEF Spec

-----------------------------------------------------------------------------
(* The remnants are shares *)

Share(q) == Nonnegative(q) /\ AtMost(q, One)

\* With the layer above final, what it keeps and what it takes back up are a share
KeptIsShare(kept, up) == Nonnegative(kept) /\ Nonnegative(up) /\ AtMost(Plus(kept, up), One)

RemnantsDown(rem) ==
    /\ KeptIsShare(d1, Times(column.a[k], b1))
    /\ Nonnegative(rem[k - 1]) /\ AtMost(rem[k - 1], d1)
    /\ \A l \in Layers : l < k - 1 => KeptIsShare(rem[l], c1[l + 1])

RemnantsUp(rem) ==
    /\ \A l \in Layers : l >= k => Share(rem[l])
    /\ \A l \in Layers : l < k => KeptIsShare(rem[l], c1[l + 1])

RemnantInv ==
    call = "vertvisc_remnant_tr" =>
        /\ pc = "down" => RemnantsDown(x["visc_rem_u"])
        /\ pc = "up" => RemnantsUp(x["visc_rem_u"])
        /\ pc = "done" => \A l \in Layers : Share(x["visc_rem_u"][l])

\* A layer's remnant on the way down, at most its share of its denominator
LEMMA RemnantOfLayer ==
    ASSUME NEW h, Positive(h), NEW ray, Nonnegative(ray), NEW above, Nonnegative(above),
           NEW kept, Nonnegative(kept), AtMost(kept, above), NEW b, Positive(b)
    PROVE  /\ Nonnegative(Times(Plus(h, kept), b))
           /\ AtMost(Times(Plus(h, kept), b), Times(Plus(h, Plus(ray, above)), b))
  <1>1. /\ Nonnegative(h) /\ h \in Fraction /\ kept \in Fraction /\ above \in Fraction
        /\ Nonnegative(b) /\ b \in Fraction /\ b.num >= 0
    BY NonnegativeParts DEF Nonnegative
  <1>2. Nonnegative(Plus(h, kept)) /\ Nonnegative(Plus(ray, above)) /\ Nonnegative(Plus(h, Plus(ray, above)))
    BY <1>1, PlusOfShares
  <1>3. Plus(h, kept) \in Fraction /\ Plus(ray, above) \in Fraction /\ Plus(h, Plus(ray, above)) \in Fraction
    BY <1>2, NonnegativeParts
  <1>4. AtMost(above, Plus(ray, above))
    BY <1>1, AtMostPlus
  <1>5. AtMost(kept, Plus(ray, above))
    BY <1>1, <1>3, <1>4, AtMostTrans
  <1>6. AtMost(Plus(h, kept), Plus(h, Plus(ray, above)))
    BY <1>1, <1>3, <1>5, AtMostItself, PlusGrows
  <1> QED  BY <1>1, <1>2, <1>3, <1>6, TimesGrows, TimesOfShares

LEMMA RemnantTop == TypeInv /\ RouteOK /\ EliminateTop /\ call = "vertvisc_remnant_tr" => RemnantInv'
  <1> SUFFICES ASSUME TypeInv, RouteOK, EliminateTop, call = "vertvisc_remnant_tr"
               PROVE  RemnantInv'
    OBVIOUS
  <1> DEFINE share == Coupling(system, column, 0)
             denominator == Plus(column.h[0], Plus(Drag(system, column, 0), share))
             b == b1_of(system, column, 0, denominator)
             rem == x'["visc_rem_u"]
  <1>1. /\ 0 \in Layers /\ k \in Layers /\ column \in Columns /\ x \in [Unknowns -> [Layers -> Fraction]]
        /\ system = "remnant" /\ nz \in Nat
    BY LayerFacts, NzAssumption DEF TypeInv, VcTypeOK, RouteOK
  <1>2. Nonnegative(share)
    BY <1>1, LayerFacts, SystemFacts
  <1>3. /\ Positive(denominator) /\ Positive(b) /\ Nonnegative(Times(denominator, b)) /\ AtMost(Times(denominator, b), One)
        /\ KeptIsShare(Times(denominator, b), Times(Coupling(system, column, 0 + 1), b))
    BY <1>1, <1>2, LayerDenominator DEF KeptIsShare
  <1>4. Coupling(system, column, 0 + 1) = column.a[1] /\ Momentum("visc_rem_u", column, x, 0) = column.h[0]
        /\ StressOn("visc_rem_u", surface_stress) = Zero
    BY <1>1 DEF Coupling, Momentum, StressOn
  <1>5. rem[0] = Times(b, Plus(column.h[0], Zero))
    <2>1. x'["visc_rem_u"] =
            [x["visc_rem_u"] EXCEPT ![0] = Times(b, Plus(Momentum("visc_rem_u", column, x, 0), StressOn("visc_rem_u", surface_stress)))]
      BY <1>1 DEF EliminateTop, Solved, Unknowns
    <2> QED  BY <1>1, <1>4, <2>1 DEF Unknowns
  <1>6. Positive(column.h[0]) /\ Nonnegative(Drag(system, column, 0)) /\ Nonnegative(Zero) /\ AtMost(Zero, share)
    BY <1>1, <1>2, ColumnFacts, SystemFacts, NonnegativeParts, ZeroAtMost
  <1>7. Nonnegative(rem[0]) /\ AtMost(rem[0], Times(denominator, b))
    <2>1. Plus(column.h[0], Zero) \in Fraction /\ b \in Fraction
      BY <1>3, <1>6, NonnegativeParts, PlusIsFraction
    <2>2. rem[0] = Times(Plus(column.h[0], Zero), b)
      <3> HIDE DEF b, rem
      <3> QED  BY <1>5, <2>1, TimesCommutes
    <2> HIDE DEF b, rem, share
    <2> QED  BY <1>2, <1>3, <1>6, <2>2, RemnantOfLayer
  <1>8. b1' = b /\ d1' = Times(denominator, b) /\ UNCHANGED <<call, column, c1>> /\ After(0)
    BY DEF EliminateTop
  <1>9. /\ pc' \in {"up", "down"}
        /\ pc' = "down" => k' = 1
        /\ pc' = "up" => k' = 0 /\ nz = 1
    BY <1>1, <1>8 DEF After
  <1> HIDE DEF rem, b, denominator
  <1>10. CASE pc' = "down"
    <2>1. KeptIsShare(d1', Times(column.a[1], b1'))
      BY <1>3, <1>4, <1>8
    <2>2. \A l \in Layers : ~(l < 1 - 1)
      BY LayerFacts
    <2>3. RemnantsDown(x["visc_rem_u"])'
      BY <1>7, <1>8, <1>9, <1>10, <2>1, <2>2 DEF RemnantsDown, KeptIsShare, Nonnegative, rem
    <2> QED  BY <1>8, <1>10, <2>3 DEF RemnantInv
  <1>11. CASE pc' = "up"
    <2>1. Share(rem[0])
      <3>1. rem[0] \in Fraction /\ Times(denominator, b) \in Fraction /\ One \in Fraction
        BY <1>3, <1>7, NonnegativeParts
      <3> QED  BY <1>3, <1>7, <3>1, AtMostTrans DEF Share
    <2>2. \A l \in Layers : l = 0
      BY <1>9, <1>11 DEF Layers
    <2>3. RemnantsUp(x["visc_rem_u"])'
      BY <1>9, <1>11, <2>1, <2>2 DEF RemnantsUp, Share, Nonnegative, rem
    <2> QED  BY <1>8, <1>11, <2>3 DEF RemnantInv
  <1> QED  BY <1>9, <1>10, <1>11

LEMMA RemnantNext == TypeInv /\ RouteOK /\ RemnantInv /\ Eliminate /\ call = "vertvisc_remnant_tr" => RemnantInv'
  <1> SUFFICES ASSUME TypeInv, RouteOK, RemnantInv, Eliminate, call = "vertvisc_remnant_tr"
               PROVE  RemnantInv'
    OBVIOUS
  <1> DEFINE a == Coupling(system, column, k)
             denominator == Plus(column.h[k], Plus(Drag(system, column, k), Times(a, d1)))
             b == b1_of(system, column, k, denominator)
             old == x["visc_rem_u"]
             rem == x'["visc_rem_u"]
  <1>1. /\ k \in Layers /\ k > 0 /\ column \in Columns /\ x \in [Unknowns -> [Layers -> Fraction]]
        /\ c1 \in [Layers -> Fraction] /\ Nonnegative(b1) /\ Nonnegative(d1) /\ system = "remnant" /\ RemnantsDown(old)
    BY DEF TypeInv, VcTypeOK, ScratchOK, RouteOK, RemnantInv, Eliminate
  <1>2. k - 1 \in Layers /\ k \in Int /\ nz \in Nat
    BY <1>1, LayerFacts, NzAssumption
  <1>3. Nonnegative(a) /\ a \in Fraction /\ a.num >= 0 /\ a = column.a[k]
    BY <1>1, LayerFacts, SystemFacts, NonnegativeParts DEF Coupling
  <1>4. /\ x' = [name \in Unknowns |->
                   IF name \in Solved(system)
                   THEN [x[name] EXCEPT ![k] = Times(Plus(Momentum(name, column, x, k), Times(a, x[name][k - 1])), b)]
                   ELSE x[name]]
        /\ c1' = [c1 EXCEPT ![k] = Times(a, b1)] /\ b1' = b /\ d1' = Times(denominator, b)
        /\ UNCHANGED <<call, column>> /\ After(k)
    BY Zenon DEF Eliminate
  <1>5. rem = [old EXCEPT ![k] = Times(Plus(column.h[k], Times(a, old[k - 1])), b)]
    <2>1. rem = [old EXCEPT ![k] = Times(Plus(Momentum("visc_rem_u", column, x, k), Times(a, old[k - 1])), b)]
      <3> HIDE DEF a, b
      <3> QED  BY <1>1, <1>4 DEF Unknowns, Solved
    <2>2. Momentum("visc_rem_u", column, x, k) = column.h[k]
      BY DEF Momentum
    <2> QED  BY <2>1, <2>2
  <1>6. old \in [Layers -> Fraction]
    BY <1>1 DEF Unknowns
  <1> HIDE DEF rem, old, a
  <1>7. rem[k] = Times(Plus(column.h[k], Times(a, old[k - 1])), b) /\ \A l \in Layers : l # k => rem[l] = old[l]
    BY <1>1, <1>5, <1>6
  <1>8. Nonnegative(Times(a, d1)) /\ Nonnegative(Times(a, b1)) /\ Times(a, b1) \in Fraction
    BY <1>1, <1>3, TimesOfShares, NonnegativeParts
  <1>9. Nonnegative(old[k - 1]) /\ AtMost(old[k - 1], d1) /\ KeptIsShare(d1, Times(a, b1))
        /\ \A l \in Layers : l < k - 1 => KeptIsShare(old[l], c1[l + 1])
    BY <1>1, <1>3 DEF RemnantsDown
  \* The layer above is done with
  <1>10. KeptIsShare(old[k - 1], Times(a, b1))
    <2>1. old[k - 1] \in Fraction /\ d1 \in Fraction /\ One \in Fraction
      BY <1>1, <1>9, NonnegativeParts
    <2>2. AtMost(Plus(old[k - 1], Times(a, b1)), Plus(d1, Times(a, b1)))
      BY <1>8, <1>9, <2>1, AtMostItself, PlusGrows
    <2>3. AtMost(Plus(d1, Times(a, b1)), One)
      BY <1>9 DEF KeptIsShare
    <2>4. Plus(old[k - 1], Times(a, b1)) \in Fraction /\ Plus(d1, Times(a, b1)) \in Fraction
      BY <1>8, <2>1, PlusIsFraction
    <2> QED  BY <1>8, <1>9, <2>1, <2>2, <2>3, <2>4, AtMostTrans DEF KeptIsShare
  <1>11. \A l \in Layers : l < k => KeptIsShare(rem[l], c1'[l + 1])
    <2> SUFFICES ASSUME NEW l \in Layers, l < k
                 PROVE  KeptIsShare(rem[l], c1'[l + 1])
      OBVIOUS
    <2>1. l \in Int /\ l + 1 \in Layers /\ rem[l] = old[l]
      BY <1>1, <1>2, <1>7 DEF Layers
    <2>2. CASE l = k - 1
      <3>1. c1'[l + 1] = Times(a, b1)
        BY <1>1, <1>2, <1>4, <2>2
      <3> QED  BY <1>10, <2>1, <2>2, <3>1
    <2>3. CASE l # k - 1
      <3>1. l < k - 1 /\ l + 1 # k
        BY <1>2, <2>1, <2>3
      <3>2. c1'[l + 1] = c1[l + 1]
        BY <1>1, <1>4, <2>1, <3>1
      <3> QED  BY <1>9, <2>1, <3>1, <3>2
    <2> QED  BY <2>2, <2>3
  \* The layer itself
  <1>12. /\ Positive(denominator) /\ Positive(b) /\ Nonnegative(Times(denominator, b)) /\ AtMost(Times(denominator, b), One)
         /\ KeptIsShare(Times(denominator, b), Times(column.a[k + 1], b))
    <2>1. Coupling(system, column, k + 1) = column.a[k + 1]
      BY <1>1 DEF Coupling
    <2> QED  BY <1>1, <1>8, <2>1, LayerDenominator DEF KeptIsShare
  <1>13. Nonnegative(rem[k]) /\ AtMost(rem[k], Times(denominator, b))
    <2>1. Nonnegative(Times(a, old[k - 1]))
      BY <1>3, <1>9, TimesOfShares
    <2>2. AtMost(Times(a, old[k - 1]), Times(a, d1))
      BY <1>1, <1>3, <1>9, NonnegativeParts, TimesGrows
    <2>3. Positive(column.h[k]) /\ Nonnegative(Drag(system, column, k))
      BY <1>1, ColumnFacts, SystemFacts
    <2> HIDE DEF b
    <2> QED  BY <1>7, <1>8, <1>12, <2>1, <2>2, <2>3, RemnantOfLayer
  <1>14. /\ pc' \in {"up", "down"}
         /\ pc' = "down" => k' = k + 1
         /\ pc' = "up" => k' = k /\ k = nz - 1
    BY <1>1, <1>4, AfterFacts
  <1> HIDE DEF denominator, b
  <1>15. CASE pc' = "down"
    <2>1. KeptIsShare(d1', Times(column.a[k + 1], b1'))
      BY <1>4, <1>12
    <2>2. (k + 1) - 1 = k
      BY <1>2
    <2>3. RemnantsDown(x["visc_rem_u"])'
      BY <1>4, <1>11, <1>13, <1>14, <1>15, <2>1, <2>2 DEF RemnantsDown, KeptIsShare, Nonnegative, rem
    <2> QED  BY <1>4, <1>15, <2>3 DEF RemnantInv
  <1>16. CASE pc' = "up"
    <2>1. Share(rem[k])
      <3>1. rem[k] \in Fraction /\ Times(denominator, b) \in Fraction /\ One \in Fraction
        BY <1>12, <1>13, NonnegativeParts
      <3> QED  BY <1>12, <1>13, <3>1, AtMostTrans DEF Share
    <2>2. \A l \in Layers : l >= k => l = k
      BY <1>2, <1>14, <1>16 DEF Layers
    <2>3. RemnantsUp(x["visc_rem_u"])'
      BY <1>11, <1>14, <1>16, <2>1, <2>2 DEF RemnantsUp, Share, KeptIsShare, Nonnegative, rem
    <2> QED  BY <1>4, <1>16, <2>3 DEF RemnantInv
  <1> QED  BY <1>14, <1>15, <1>16

LEMMA RemnantBack == TypeInv /\ RouteOK /\ RemnantInv /\ BackSubstitute /\ call = "vertvisc_remnant_tr" => RemnantInv'
  <1> SUFFICES ASSUME TypeInv, RouteOK, RemnantInv, BackSubstitute, call = "vertvisc_remnant_tr"
               PROVE  RemnantInv'
    OBVIOUS
  <1> DEFINE old == x["visc_rem_u"]
             rem == x'["visc_rem_u"]
  <1>1. /\ k \in Layers /\ k > 0 /\ k - 1 \in Layers /\ k \in Int /\ x \in [Unknowns -> [Layers -> Fraction]]
        /\ system = "remnant" /\ RemnantsUp(old) /\ pc = "up"
    <2>1. k \in Layers /\ k > 0 /\ x \in [Unknowns -> [Layers -> Fraction]] /\ system = "remnant" /\ RemnantsUp(old) /\ pc = "up"
      BY DEF TypeInv, VcTypeOK, RouteOK, RemnantInv, BackSubstitute
    <2> QED  BY <2>1, LayerFacts
  <1>2. rem = [old EXCEPT ![k - 1] = Plus(old[k - 1], Times(c1[k], old[k]))]
    BY <1>1 DEF BackSubstitute, Solved, Unknowns
  <1>3. old \in [Layers -> Fraction] /\ k' = k - 1 /\ UNCHANGED <<call, column, pc, c1>>
    BY <1>1 DEF Unknowns, BackSubstitute
  <1> HIDE DEF old, rem
  <1>4. rem[k - 1] = Plus(old[k - 1], Times(c1[k], old[k])) /\ \A l \in Layers : l # k - 1 => rem[l] = old[l]
    BY <1>1, <1>2, <1>3
  <1>5. Share(old[k]) /\ KeptIsShare(old[k - 1], c1[k])
    <2>1. (k - 1) + 1 = k /\ k - 1 < k /\ k >= k
      BY <1>1
    <2> QED  BY <1>1, <2>1 DEF RemnantsUp
  <1>6. Share(rem[k - 1])
    <2>1. /\ Nonnegative(old[k]) /\ AtMost(old[k], One) /\ Nonnegative(old[k - 1]) /\ Nonnegative(c1[k])
          /\ AtMost(Plus(old[k - 1], c1[k]), One)
      BY <1>5 DEF Share, KeptIsShare
    <2>2. old[k] \in Fraction /\ old[k - 1] \in Fraction /\ c1[k] \in Fraction /\ One \in Fraction
      BY <2>1, NonnegativeParts
    <2>3. Nonnegative(Times(c1[k], old[k])) /\ Times(c1[k], old[k]) \in Fraction
      BY <2>1, TimesOfShares, NonnegativeParts
    <2>4. AtMost(Times(c1[k], old[k]), c1[k])
      BY <2>1, <2>2, TimesAtMostOne
    <2>5. AtMost(Plus(old[k - 1], Times(c1[k], old[k])), Plus(old[k - 1], c1[k]))
      BY <2>2, <2>3, <2>4, AtMostItself, PlusGrows
    <2>6. Plus(old[k - 1], Times(c1[k], old[k])) \in Fraction /\ Plus(old[k - 1], c1[k]) \in Fraction
      BY <2>2, <2>3, PlusIsFraction
    <2>7. AtMost(rem[k - 1], One)
      BY <1>4, <2>1, <2>2, <2>5, <2>6, AtMostTrans
    <2> QED  BY <1>4, <2>1, <2>3, <2>7, PlusOfShares DEF Share
  <1>7. \A l \in Layers : l >= k - 1 => Share(rem[l])
    <2> SUFFICES ASSUME NEW l \in Layers, l >= k - 1
                 PROVE  Share(rem[l])
      OBVIOUS
    <2>1. l \in Int
      BY LayerFacts
    <2>2. CASE l = k - 1
      BY <1>6, <2>2
    <2>3. CASE l # k - 1
      <3>1. l >= k
        BY <1>1, <2>1, <2>3
      <3> QED  BY <1>1, <1>4, <2>3, <3>1 DEF RemnantsUp
    <2> QED  BY <2>2, <2>3
  <1>8. \A l \in Layers : l < k - 1 => KeptIsShare(rem[l], c1[l + 1])
    <2> SUFFICES ASSUME NEW l \in Layers, l < k - 1
                 PROVE  KeptIsShare(rem[l], c1[l + 1])
      OBVIOUS
    <2>1. l \in Int /\ l < k /\ l # k - 1
      BY <1>1, LayerFacts
    <2> QED  BY <1>1, <1>4, <2>1 DEF RemnantsUp
  <1>9. RemnantsUp(x["visc_rem_u"])'
    BY <1>3, <1>7, <1>8 DEF RemnantsUp, Share, KeptIsShare, Nonnegative, rem
  <1> QED  BY <1>1, <1>3, <1>9 DEF RemnantInv

LEMMA RemnantOfStep == TypeInv /\ RouteOK /\ RemnantInv /\ [Next]_vars => RemnantInv'
  <1> SUFFICES ASSUME TypeInv, RouteOK, RemnantInv, [Next]_vars
               PROVE  RemnantInv'
    OBVIOUS
  <1>1. UNCHANGED <<call, column>>
    BY RouteOfNext
  <1>2. CASE call # "vertvisc_remnant_tr"
    BY <1>1, <1>2 DEF RemnantInv
  <1>3. CASE call = "vertvisc_remnant_tr"
    <2>1. CASE EliminateTop
      BY <1>3, <2>1, RemnantTop
    <2>2. CASE Eliminate
      BY <1>3, <2>2, RemnantNext
    <2>3. CASE BackSubstitute
      BY <1>3, <2>3, RemnantBack
    <2>4. CASE FinishRemnant
      <3>1. pc = "up" /\ k = 0 /\ pc' = "done" /\ x' = x
        BY <2>4 DEF FinishRemnant, SolveIsDone
      <3>2. \A l \in Layers : l >= 0
        BY LayerFacts
      <3>3. \A l \in Layers : Share(x["visc_rem_u"][l])
        BY <1>3, <3>1, <3>2 DEF RemnantInv, RemnantsUp
      <3> QED  BY <3>1, <3>3 DEF RemnantInv, Share, Nonnegative
    <2>5. CASE UNCHANGED vars
      BY <2>5 DEF vars, RemnantInv, RemnantsDown, RemnantsUp, Share, KeptIsShare, Nonnegative
    <2>6. CASE HoldVelocity \/ ApplyBodyForce \/ ApplySurfaceStress \/ StartGL90 \/ DiagnoseGL90 \/ Diagnose \/ AddDrag
               \/ LimitVelocity
      BY <1>3, <2>6 DEF RouteOK, HoldVelocity, ApplyBodyForce, ApplySurfaceStress, StartGL90, DiagnoseGL90, SolveIsDone,
                        Diagnose, AddDrag, LimitVelocity
    <2> QED  BY <2>1, <2>2, <2>3, <2>4, <2>5, <2>6 DEF Next
  <1> QED  BY <1>2, <1>3

\* The remnant that vertvisc_remnant leaves of an acceleration of a layer is between
\* nothing and all of it, for every number of layers, thicknesses, couplings and drag.
THEOREM RemnantAlwaysWithinUnit == Spec => []RemnantWithinUnit
  <1>1. Init => RemnantInv
    BY DEF Init, RemnantInv
  <1>2. RemnantInv => RemnantWithinUnit
    <2>1. \A q : Share(q) => AtMost(Zero, q) /\ AtMost(q, One)
      BY ZeroAtMost DEF Share
    <2> QED  BY <2>1 DEF RemnantInv, RemnantWithinUnit
  <1> QED  BY <1>1, <1>2, InitIsTyped, InvariantOfNext, InitIsOnRoute, RouteOfNext, RemnantOfStep, PTL DEF Spec

-----------------------------------------------------------------------------
\* Sums over sets of layers, as folds: they are functions of the set, and one
\* term can be split off

\* A set of finite sets that is not empty has a least one
LEMMA LeastSet ==
    ASSUME NEW F, F # {}, \A U \in F : IsFiniteSet(U)
    PROVE  \E U \in F : \A V \in F : V \subseteq U => V = U
  <1> DEFINE All == UNION F
             R == StrictSubsetOrdering(All)
             S == FiniteSubsetsOf(All)
  <1>1. IsWellFoundedOn(R, S)
    BY FS_StrictSubsetOrderingWellFounded
  <1>2. F \subseteq S
    BY DEF FiniteSubsetsOf
  <1>3. F \subseteq SUBSET All
    OBVIOUS
  <1> HIDE DEF S, R
  <1>4. PICK U \in F : \A V \in F : ~(<<V, U>> \in R)
    BY <1>1, <1>2, WFMin
  <1>5. ASSUME NEW V \in F, V \subseteq U, V # U PROVE FALSE
    <2> HIDE DEF All
    <2>1. <<V, U>> \in (SUBSET All) \X (SUBSET All)
      BY <1>3
    <2>2. <<V, U>> \in R
      BY <1>5, <2>1 DEF R, StrictSubsetOrdering
    <2> QED  BY <1>4, <2>2
  <1> QED  BY <1>5

SumOf(g, f, s) ==
    IF s = {} THEN Zero ELSE LET i == CHOOSE i \in s : TRUE IN Plus(f[i], g[s \ {i}])
IsSum(g, f, S) == g = [s \in SUBSET S |-> SumOf(g, f, s)]
Partial(f, S) == CHOOSE g : IsSum(g, f, S)
SumOver(f, S) == FoldFunctionOnSet(Plus, Zero, f, S)

LEMMA FoldIsSum == ASSUME NEW f, NEW S PROVE SumOver(f, S) = Partial(f, S)[S]
  BY Zenon DEF SumOver, FoldFunctionOnSet, MapThenFoldSet, Partial, IsSum, SumOf

LEMMA SumUnique ==
    ASSUME NEW g, NEW h, NEW f, NEW S, NEW T, IsSum(g, f, S), IsSum(h, f, T),
           NEW s, IsFiniteSet(s), s \subseteq S, s \subseteq T
    PROVE  g[s] = h[s]
  <1> DEFINE F == {u \in SUBSET s : g[u] # h[u]}
  <1> SUFFICES ASSUME F # {} PROVE FALSE
    OBVIOUS
  <1>1. PICK U \in F : \A V \in F : V \subseteq U => V = U
    <2>1. \A U \in F : IsFiniteSet(U)
      BY FS_Subset
    <2> HIDE DEF F
    <2> QED  BY <2>1, LeastSet
  <1>2. U \in SUBSET S /\ U \in SUBSET T /\ g[U] # h[U] /\ U \subseteq s
    BY <1>1
  <1>3. g[U] = SumOf(g, f, U) /\ h[U] = SumOf(h, f, U)
    BY <1>2 DEF IsSum
  <1> DEFINE i == CHOOSE i \in U : TRUE
  <1>4. U # {}
    BY <1>2, <1>3 DEF SumOf
  <1>5. i \in U
    BY <1>4
  <1>6. g[U] = Plus(f[i], g[U \ {i}]) /\ h[U] = Plus(f[i], h[U \ {i}])
    BY <1>3, <1>4 DEF SumOf
  <1> HIDE DEF i
  <1>7. U \ {i} \subseteq U /\ U \ {i} # U /\ U \ {i} \in SUBSET s
    BY <1>2, <1>5
  <1>8. g[U \ {i}] = h[U \ {i}]
    BY <1>1, <1>7
  <1> QED  BY <1>2, <1>6, <1>8

LEMMA SumExists ==
    ASSUME NEW f, NEW S, IsFiniteSet(S)
    PROVE  IsSum(Partial(f, S), f, S)
  <1> DEFINE F == {T \in SUBSET S : ~IsSum(Partial(f, T), f, T)}
  <1> SUFFICES ASSUME F # {} PROVE FALSE
    OBVIOUS
  <1>1. PICK U \in F : \A V \in F : V \subseteq U => V = U
    <2>1. \A U \in F : IsFiniteSet(U)
      BY FS_Subset
    <2> HIDE DEF F
    <2> QED  BY <2>1, LeastSet
  <1>2. U \subseteq S /\ IsFiniteSet(U) /\ ~IsSum(Partial(f, U), f, U)
    BY <1>1, FS_Subset
  <1>3. \A T \in SUBSET U : T # U => IsSum(Partial(f, T), f, T) /\ IsFiniteSet(T)
    BY <1>1, <1>2, FS_Subset
  <1> DEFINE W == [t \in SUBSET U |-> Partial(f, t)[t]]
             G == [s \in SUBSET U |-> SumOf(W, f, s)]
  <1>4. ASSUME NEW s \in SUBSET U, s # U PROVE G[s] = W[s]
    <2> DEFINE i == CHOOSE i \in s : TRUE
    <2>1. IsSum(Partial(f, s), f, s)
      BY <1>3, <1>4
    <2>2. Partial(f, s)[s] = SumOf(Partial(f, s), f, s)
      BY <2>1 DEF IsSum
    <2>3. CASE s = {}
      BY <2>2, <2>3 DEF SumOf
    <2>4. CASE s # {}
      <3>1. i \in s
        BY <2>4
      <3>2. G[s] = Plus(f[i], W[s \ {i}]) /\ W[s] = Plus(f[i], Partial(f, s)[s \ {i}])
        BY <2>2, <2>4 DEF SumOf
      <3> HIDE DEF i
      <3>3. s \ {i} \in SUBSET U /\ s \ {i} # U /\ s \ {i} \subseteq s
        BY <1>4, <3>1
      <3>4. IsSum(Partial(f, s \ {i}), f, s \ {i}) /\ IsFiniteSet(s \ {i})
        BY <1>3, <3>3
      <3>5. Partial(f, s)[s \ {i}] = Partial(f, s \ {i})[s \ {i}]
        BY <2>1, <3>3, <3>4, SumUnique
      <3>6. W[s \ {i}] = Partial(f, s \ {i})[s \ {i}]
        BY <3>3
      <3> HIDE DEF W, G
      <3> QED  BY <3>2, <3>5, <3>6
    <2> QED  BY <2>3, <2>4
  <1>5. ASSUME NEW s \in SUBSET U PROVE SumOf(W, f, s) = SumOf(G, f, s)
    <2> DEFINE i == CHOOSE i \in s : TRUE
    <2>1. CASE s = {}
      BY <2>1 DEF SumOf
    <2>2. CASE s # {}
      <3>1. i \in s
        BY <2>2
      <3>2. SumOf(W, f, s) = Plus(f[i], W[s \ {i}]) /\ SumOf(G, f, s) = Plus(f[i], G[s \ {i}])
        BY <2>2 DEF SumOf
      <3> HIDE DEF i
      <3>3. s \ {i} \in SUBSET U /\ s \ {i} # U
        BY <3>1
      <3>4. G[s \ {i}] = W[s \ {i}]
        BY <3>3, <1>4
      <3> HIDE DEF W, G
      <3> QED  BY <3>2, <3>4
    <2> QED  BY <2>1, <2>2
  <1>6. G = [s \in SUBSET U |-> SumOf(G, f, s)]
    <2> DEFINE H == [s \in SUBSET U |-> SumOf(G, f, s)]
    <2>1. \A s \in SUBSET U : G[s] = H[s]
      <3> HIDE DEF W
      <3> SUFFICES ASSUME NEW s \in SUBSET U PROVE G[s] = H[s]
        OBVIOUS
      <3>1. G[s] = SumOf(W, f, s)
        OBVIOUS
      <3>2. H[s] = SumOf(G, f, s)
        <4> HIDE DEF G
        <4> QED  OBVIOUS
      <3> HIDE DEF G, H
      <3> QED  BY <1>5, <3>1, <3>2
    <2>2. G = [s \in SUBSET U |-> G[s]] /\ H = [s \in SUBSET U |-> H[s]]
      <3>1. G = [s \in SUBSET U |-> G[s]]
        <4> HIDE DEF W
        <4> QED  OBVIOUS
      <3>2. H = [s \in SUBSET U |-> H[s]]
        <4> HIDE DEF G
        <4> QED  OBVIOUS
      <3> QED  BY <3>1, <3>2
    <2>3. G = H
      <3> HIDE DEF G, H
      <3> QED  BY <2>1, <2>2
    <2> HIDE DEF G
    <2> QED  BY <2>3
  <1>7. \E g : IsSum(g, f, U)
    <2> HIDE DEF G
    <2> QED  BY <1>6 DEF IsSum
  <1> QED  BY <1>2, <1>7 DEF Partial

LEMMA SumOfNone == ASSUME NEW f PROVE SumOver(f, {}) = Zero
  <1>1. IsSum(Partial(f, {}), f, {})
    BY SumExists, FS_EmptySet
  <1>2. Partial(f, {})[{}] = SumOf(Partial(f, {}), f, {})
    BY <1>1 DEF IsSum
  <1> QED  BY <1>2, FoldIsSum DEF SumOf

\* The fold takes one element out, whichever it is
LEMMA SumOfSome ==
    ASSUME NEW f, NEW S, IsFiniteSet(S), S # {}
    PROVE  \E i \in S : SumOver(f, S) = Plus(f[i], SumOver(f, S \ {i}))
  <1>1. IsSum(Partial(f, S), f, S)
    BY SumExists
  <1>2. Partial(f, S)[S] = SumOf(Partial(f, S), f, S)
    BY <1>1 DEF IsSum
  <1> DEFINE i == CHOOSE i \in S : TRUE
  <1>3. i \in S
    OBVIOUS
  <1>4. Partial(f, S)[S] = Plus(f[i], Partial(f, S)[S \ {i}])
    BY <1>2 DEF SumOf
  <1> HIDE DEF i
  <1>5. S \ {i} \subseteq S /\ IsFiniteSet(S \ {i})
    BY FS_Subset
  <1>6. Partial(f, S)[S \ {i}] = Partial(f, S \ {i})[S \ {i}]
    BY <1>1, <1>5, SumExists, SumUnique
  <1> QED  BY <1>3, <1>4, <1>6, FoldIsSum

-----------------------------------------------------------------------------
\* Numerators over a common denominator: identities of fractions become ones of
\* integers

\* The value of p is n / e
Val(p, n, e) == p \in Fraction /\ n \in Int /\ e \in Int /\ e > 0 /\ p.num * e = n * p.den

LEMMA Equal ==
    ASSUME NEW m \in Int, NEW n \in Int, NEW c \in Int, c > 0, m * c = n * c
    PROVE  m = n
  <1>1. m <= n /\ n <= m
    BY Cancels
  <1> QED  BY <1>1

LEMMA ValOf == ASSUME NEW p \in Fraction PROVE Val(p, p.num, p.den)
  BY FractionParts DEF Val

LEMMA ValOfRatio ==
    ASSUME NEW n \in Int, NEW d \in Int, NEW m \in Int, NEW e \in Int, d > 0, e > 0, n * e = m * d
    PROVE  Val(Ratio(n, d), m, e)
  <1>1. PICK r \in Fraction : r = Ratio(n, d) /\ r.num * d = n * r.den
    BY RatioValue
  <1>2. PICK a \in Int, b \in Int : a = r.num /\ b = r.den /\ b > 0 /\ a * d = n * b
    BY <1>1, FractionParts
  <1>3. (a * e) * d = (m * b) * d
    <2>1. (a * e) * d = (a * d) * e /\ (n * b) * e = (n * e) * b /\ (m * d) * b = (m * b) * d
      OBVIOUS
    <2>2. (a * d) * e = (n * b) * e /\ (n * e) * b = (m * d) * b
      BY <1>2
    <2> QED  BY <2>1, <2>2
  <1>4. a * e \in Int /\ m * b \in Int
    OBVIOUS
  <1>5. a * e = m * b
    BY <1>3, <1>4, Equal
  <1> QED  BY <1>1, <1>2, <1>5 DEF Val

LEMMA ValScale ==
    ASSUME NEW p, NEW n, NEW e, Val(p, n, e), NEW g \in Int, g > 0
    PROVE  Val(p, n * g, e * g)
  <1>1. PICK a \in Int, b \in Int : a = p.num /\ b = p.den /\ b > 0 /\ p \in Fraction
    BY FractionParts DEF Val
  <1>2. n \in Int /\ e \in Int /\ e > 0 /\ a * e = n * b
    BY <1>1 DEF Val
  <1>3. n * g \in Int /\ e * g \in Int /\ e * g > 0
    BY <1>2, SignOfProduct
  <1>4. a * (e * g) = (n * g) * b
    <2>1. a * (e * g) = (a * e) * g /\ (n * g) * b = (n * b) * g
      BY <1>2
    <2> QED  BY <1>2, <2>1
  <1> QED  BY <1>1, <1>3, <1>4 DEF Val

LEMMA ValPlus ==
    ASSUME NEW p, NEW q, NEW n, NEW m, NEW e, Val(p, n, e), Val(q, m, e)
    PROVE  Val(Plus(p, q), n + m, e) /\ Val(Minus(p, q), n - m, e)
  <1>1. PICK a \in Int, b \in Int, c \in Int, d \in Int :
          a = p.num /\ b = p.den /\ c = q.num /\ d = q.den /\ b > 0 /\ d > 0
    BY FractionParts DEF Val
  <1>2. n \in Int /\ m \in Int /\ e \in Int /\ e > 0 /\ a * e = n * b /\ c * e = m * d
    BY <1>1 DEF Val
  <1>3. b * d \in Int /\ b * d > 0
    BY <1>1, SignOfProduct
  <1>4. (a * d) * e = n * (b * d) /\ (c * b) * e = m * (b * d)
    <2>1. (a * d) * e = (a * e) * d /\ (c * b) * e = (c * e) * b
      BY <1>2
    <2>2. (n * b) * d = n * (b * d) /\ (m * d) * b = m * (b * d)
      BY <1>2
    <2> QED  BY <1>2, <2>1, <2>2
  <1>5. /\ (a * d + c * b) * e = (n + m) * (b * d)
        /\ (a * d - c * b) * e = (n - m) * (b * d)
    <2>1. /\ (a * d + c * b) * e = (a * d) * e + (c * b) * e
          /\ (a * d - c * b) * e = (a * d) * e - (c * b) * e
          /\ (n + m) * (b * d) = n * (b * d) + m * (b * d)
          /\ (n - m) * (b * d) = n * (b * d) - m * (b * d)
      BY <1>2
    <2> QED  BY <1>4, <2>1
  <1>6. a * d + c * b \in Int /\ a * d - c * b \in Int /\ n + m \in Int /\ n - m \in Int
    BY <1>2
  <1>7. Val(Ratio(a * d + c * b, b * d), n + m, e) /\ Val(Ratio(a * d - c * b, b * d), n - m, e)
    BY <1>2, <1>3, <1>5, <1>6, ValOfRatio
  <1> QED  BY <1>1, <1>7 DEF Plus, Minus

LEMMA ValTimes ==
    ASSUME NEW p, NEW q, NEW n, NEW m, NEW e, NEW f, Val(p, n, e), Val(q, m, f)
    PROVE  Val(Times(p, q), n * m, e * f)
  <1>1. PICK a \in Int, b \in Int, c \in Int, d \in Int :
          a = p.num /\ b = p.den /\ c = q.num /\ d = q.den /\ b > 0 /\ d > 0
    BY FractionParts DEF Val
  <1>2. n \in Int /\ m \in Int /\ e \in Int /\ f \in Int /\ e > 0 /\ f > 0 /\ a * e = n * b /\ c * f = m * d
    BY <1>1 DEF Val
  <1>3. b * d \in Int /\ b * d > 0 /\ e * f \in Int /\ e * f > 0 /\ a * c \in Int /\ n * m \in Int
    BY <1>1, <1>2, SignOfProduct
  <1>4. (a * c) * (e * f) = (n * m) * (b * d)
    <2>1. (a * c) * (e * f) = (a * e) * (c * f) /\ (n * m) * (b * d) = (n * b) * (m * d)
      BY <1>2
    <2> QED  BY <1>2, <2>1
  <1>5. Val(Ratio(a * c, b * d), n * m, e * f)
    BY <1>3, <1>4, ValOfRatio
  <1> QED  BY <1>1, <1>5 DEF Times

LEMMA ValReciprocal ==
    ASSUME NEW p, NEW n, NEW e, Val(p, n, e), n > 0
    PROVE  Val(Reciprocal(p), e, n)
  <1>1. PICK a \in Int, b \in Int : a = p.num /\ b = p.den /\ b > 0 /\ p \in Fraction
    BY FractionParts DEF Val
  <1>2. n \in Int /\ e \in Int /\ e > 0 /\ a * e = n * b
    BY <1>1 DEF Val
  <1>3. a > 0
    <2>1. n * b > 0
      BY <1>1, <1>2, SignOfProduct
    <2>2. e * a > 0
      BY <1>2, <2>1
    <2> QED  BY <1>2, <2>2, SignOfProduct
  <1>4. Reciprocal(p) = [num |-> b, den |-> a]
    BY <1>1 DEF Reciprocal
  <1>5. Reciprocal(p) \in Fraction
    BY <1>1, <1>3, <1>4, OfParts
  <1>6. b * n = e * a
    BY <1>2
  <1> QED  BY <1>2, <1>4, <1>5, <1>6 DEF Val

LEMMA ValOrder ==
    ASSUME NEW p, NEW q, NEW n, NEW m, NEW e, Val(p, n, e), Val(q, m, e)
    PROVE  (Same(p, q) <=> n = m) /\ (AtMost(p, q) <=> n <= m)
  <1>1. PICK a \in Int, b \in Int, c \in Int, d \in Int :
          a = p.num /\ b = p.den /\ c = q.num /\ d = q.den /\ b > 0 /\ d > 0
    BY FractionParts DEF Val
  <1>2. n \in Int /\ m \in Int /\ e \in Int /\ e > 0 /\ a * e = n * b /\ c * e = m * d
    BY <1>1 DEF Val
  <1>3. a * d \in Int /\ c * b \in Int /\ n * (b * d) \in Int /\ b * d \in Int /\ b * d > 0
    BY <1>1, <1>2, SignOfProduct
  <1>4. (a * d) * e = n * (b * d) /\ (c * b) * e = m * (b * d)
    <2>1. (a * d) * e = (a * e) * d /\ (c * b) * e = (c * e) * b
      BY <1>2
    <2>2. (n * b) * d = n * (b * d) /\ (m * d) * b = m * (b * d)
      BY <1>2
    <2> QED  BY <1>2, <2>1, <2>2
  <1>5. AtMost(p, q) <=> a * d <= c * b
    BY <1>1 DEF AtMost
  <1>6. a * d <= c * b => n <= m
    <2> SUFFICES ASSUME a * d <= c * b PROVE n <= m
      OBVIOUS
    <2>1. (a * d) * e <= (c * b) * e
      BY <1>2, <1>3, Grows
    <2>2. n * (b * d) <= m * (b * d)
      BY <1>4, <2>1
    <2> QED  BY <1>2, <1>3, <2>2, Cancels
  <1>7. n <= m => a * d <= c * b
    <2> SUFFICES ASSUME n <= m PROVE a * d <= c * b
      OBVIOUS
    <2>1. n * (b * d) <= m * (b * d)
      BY <1>2, <1>3, Grows
    <2>2. (a * d) * e <= (c * b) * e
      BY <1>4, <2>1
    <2> QED  BY <1>2, <1>3, <2>2, Cancels
  <1>8. Same(p, q) <=> a * d = c * b
    BY <1>1 DEF Same
  <1>9. a * d = c * b => n = m
    <2> SUFFICES ASSUME a * d = c * b PROVE n = m
      OBVIOUS
    <2>1. n * (b * d) = m * (b * d)
      BY <1>4
    <2> QED  BY <1>2, <1>3, <2>1, Equal
  <1>10. n = m => a * d = c * b
    <2> SUFFICES ASSUME n = m PROVE a * d = c * b
      OBVIOUS
    <2>1. (a * d) * e = (c * b) * e
      BY <1>4
    <2> QED  BY <1>2, <1>3, <2>1, Equal
  <1> QED  BY <1>5, <1>6, <1>7, <1>8, <1>9, <1>10

LEMMA ValOfNumbers ==
    ASSUME NEW e \in Int, e > 0
    PROVE  Val(Zero, 0, e) /\ Val(One, e, e)
  BY ConstantFractions DEF Val, Zero, One, Whole

LEMMA ValSign ==
    ASSUME NEW p, NEW n, NEW e, Val(p, n, e)
    PROVE  /\ Nonnegative(p) <=> n >= 0
           /\ Positive(p) <=> n > 0
  <1>1. PICK a \in Int, b \in Int : a = p.num /\ b = p.den /\ b > 0 /\ p \in Fraction
    BY FractionParts DEF Val
  <1>2. n \in Int /\ e \in Int /\ e > 0 /\ e * a = b * n
    BY <1>1 DEF Val
  <1>3. (a >= 0 <=> n >= 0) /\ (a > 0 <=> n > 0)
    <2>1. (a >= 0 => e * a >= 0) /\ (n >= 0 => b * n >= 0) /\ (a > 0 => e * a > 0) /\ (n > 0 => b * n > 0)
      BY <1>1, <1>2, SignOfProduct
    <2>2. (e * a >= 0 => a >= 0) /\ (b * n >= 0 => n >= 0) /\ (e * a > 0 => a > 0) /\ (b * n > 0 => n > 0)
      BY <1>1, <1>2, SignOfProduct
    <2> QED  BY <1>2, <2>1, <2>2
  <1> QED  BY <1>1, <1>3 DEF Nonnegative, Positive

\* Common denominators
LEMMA Two ==
    ASSUME NEW p \in Fraction, NEW q \in Fraction
    PROVE  \E e \in Int, n \in Int, m \in Int : e > 0 /\ Val(p, n, e) /\ Val(q, m, e)
  <1>1. Val(p, p.num, p.den) /\ Val(q, q.num, q.den)
    BY ValOf
  <1>2. PICK a \in Int, b \in Int, c \in Int, d \in Int :
          a = p.num /\ b = p.den /\ c = q.num /\ d = q.den /\ b > 0 /\ d > 0
    BY FractionParts
  <1>3. Val(p, a * d, b * d) /\ Val(q, c * b, d * b)
    BY <1>1, <1>2, ValScale
  <1>4. d * b = b * d /\ b * d \in Int /\ b * d > 0 /\ a * d \in Int /\ c * b \in Int
    BY <1>2, SignOfProduct
  <1> QED  BY <1>3, <1>4

LEMMA Four ==
    ASSUME NEW p \in Fraction, NEW q \in Fraction, NEW r \in Fraction, NEW s \in Fraction
    PROVE  \E e \in Int, n1 \in Int, n2 \in Int, n3 \in Int, n4 \in Int :
               e > 0 /\ Val(p, n1, e) /\ Val(q, n2, e) /\ Val(r, n3, e) /\ Val(s, n4, e)
  <1>1. PICK e \in Int, n \in Int, m \in Int : e > 0 /\ Val(p, n, e) /\ Val(q, m, e)
    BY Two
  <1>2. PICK f \in Int, k1 \in Int, k2 \in Int : f > 0 /\ Val(r, k1, f) /\ Val(s, k2, f)
    BY Two
  <1>3. Val(p, n * f, e * f) /\ Val(q, m * f, e * f) /\ Val(r, k1 * e, f * e) /\ Val(s, k2 * e, f * e)
    BY <1>1, <1>2, ValScale
  <1>4. f * e = e * f /\ e * f \in Int /\ e * f > 0 /\ n * f \in Int /\ m * f \in Int /\ k1 * e \in Int /\ k2 * e \in Int
    BY <1>1, <1>2, SignOfProduct
  <1> QED  BY <1>3, <1>4

-----------------------------------------------------------------------------
\* The algebra of equal fractions that the solves need

\* e is a denominator that p can be written over, with numerator Num(p, e)
Num(p, e) == CHOOSE n \in Int : Val(p, n, e)
Over(p, e) == e > 0 /\ Num(p, e) \in Int /\ Val(p, Num(p, e), e)

LEMMA ValIsOver == ASSUME NEW p, NEW n, NEW e, Val(p, n, e) PROVE Over(p, e)
  <1>1. n \in Int /\ e > 0
    BY DEF Val
  <1>2. \E i \in Int : Val(p, i, e)
    BY <1>1
  <1> QED  BY <1>1, <1>2, Zenon DEF Over, Num

LEMMA OverProduct ==
    ASSUME NEW e \in Int, NEW f \in Int, e > 0, f > 0
    PROVE  e * f \in Int /\ \A p : Over(p, e) \/ Over(p, f) => Over(p, e * f)
  <1>1. e * f = f * e /\ e * f \in Int
    OBVIOUS
  <1>2. ASSUME NEW p, Over(p, e) PROVE Over(p, e * f)
    <2>1. Val(p, Num(p, e) * f, e * f)
      BY <1>2, ValScale DEF Over
    <2> QED  BY <2>1, ValIsOver
  <1>3. ASSUME NEW p, Over(p, f) PROVE Over(p, e * f)
    <2>1. Val(p, Num(p, f) * e, f * e)
      BY <1>3, ValScale DEF Over
    <2> QED  BY <1>1, <2>1, ValIsOver
  <1> QED  BY <1>1, <1>2, <1>3

LEMMA CommonOver ==
    ASSUME NEW p \in Fraction, NEW q \in Fraction, NEW r \in Fraction, NEW s \in Fraction
    PROVE  \E e \in Int : e > 0 /\ Over(p, e) /\ Over(q, e) /\ Over(r, e) /\ Over(s, e)
  <1>1. PICK e \in Int, n1 \in Int, n2 \in Int, n3 \in Int, n4 \in Int :
          e > 0 /\ Val(p, n1, e) /\ Val(q, n2, e) /\ Val(r, n3, e) /\ Val(s, n4, e)
    BY Four
  <1> QED  BY <1>1, ValIsOver

LEMMA SameSym == ASSUME NEW p, NEW q, Same(p, q), p \in Fraction, q \in Fraction PROVE Same(q, p)
  BY DEF Same

LEMMA SameTrans ==
    ASSUME NEW p \in Fraction, NEW q \in Fraction, NEW r \in Fraction, Same(p, q), Same(q, r)
    PROVE  Same(p, r)
  <1>1. AtMost(p, q) /\ AtMost(q, p) /\ AtMost(q, r) /\ AtMost(r, q)
    BY SameIsAtMost
  <1>2. AtMost(p, r) /\ AtMost(r, p)
    BY <1>1, AtMostTrans
  <1> QED  BY <1>2, SameIsAtMost

\* Values can be replaced by equal ones
LEMMA SamePlus ==
    ASSUME NEW p \in Fraction, NEW q \in Fraction, NEW r \in Fraction, NEW s \in Fraction, Same(p, q), Same(r, s)
    PROVE  /\ Same(Plus(p, r), Plus(q, s)) /\ Same(Minus(p, r), Minus(q, s))
           /\ Plus(p, r) \in Fraction /\ Plus(q, s) \in Fraction
           /\ Minus(p, r) \in Fraction /\ Minus(q, s) \in Fraction
  <1>1. PICK e \in Int, n1 \in Int, n2 \in Int, n3 \in Int, n4 \in Int :
          e > 0 /\ Val(p, n1, e) /\ Val(q, n2, e) /\ Val(r, n3, e) /\ Val(s, n4, e)
    BY Four
  <1>2. n1 = n2 /\ n3 = n4
    BY <1>1, ValOrder
  <1>3. /\ Val(Plus(p, r), n1 + n3, e) /\ Val(Plus(q, s), n1 + n3, e)
        /\ Val(Minus(p, r), n1 - n3, e) /\ Val(Minus(q, s), n1 - n3, e)
    BY <1>1, <1>2, ValPlus
  <1>4. Same(Plus(p, r), Plus(q, s)) /\ Same(Minus(p, r), Minus(q, s))
    BY <1>3, ValOrder
  <1> QED  BY <1>3, <1>4 DEF Val

LEMMA SameTimes ==
    ASSUME NEW p \in Fraction, NEW q \in Fraction, NEW r \in Fraction, NEW s \in Fraction, Same(p, q), Same(r, s)
    PROVE  /\ Same(Times(p, r), Times(q, s))
           /\ Times(p, r) \in Fraction /\ Times(q, s) \in Fraction
  <1>1. PICK e \in Int, n1 \in Int, n2 \in Int, n3 \in Int, n4 \in Int :
          e > 0 /\ Val(p, n1, e) /\ Val(q, n2, e) /\ Val(r, n3, e) /\ Val(s, n4, e)
    BY Four
  <1>2. n1 = n2 /\ n3 = n4
    BY <1>1, ValOrder
  <1>3. Val(Times(p, r), n1 * n3, e * e) /\ Val(Times(q, s), n1 * n3, e * e)
    BY <1>1, <1>2, ValTimes
  <1>4. Same(Times(p, r), Times(q, s))
    BY <1>3, ValOrder
  <1> QED  BY <1>3, <1>4 DEF Val

LEMMA SameSelf == ASSUME NEW p \in Fraction PROVE Same(p, p)
  BY FractionParts DEF Same

LEMMA NeutralZero ==
    ASSUME NEW p \in Fraction
    PROVE  /\ Same(Plus(p, Zero), p) /\ Same(Minus(p, Zero), p) /\ Same(Plus(Zero, p), p)
           /\ Same(Times(p, Zero), Zero) /\ Same(Times(Zero, p), Zero)
           /\ Same(Times(p, One), p) /\ Same(Minus(p, p), Zero)
  <1>1. PICK e \in Int, n \in Int : e > 0 /\ Val(p, n, e)
    BY ValOf, FractionParts
  <1>2. Val(Zero, 0, e) /\ Val(One, e, e)
    BY <1>1, ValOfNumbers
  <1>3. Val(Plus(p, Zero), n + 0, e) /\ Val(Minus(p, Zero), n - 0, e) /\ Val(Plus(Zero, p), 0 + n, e) /\ Val(Minus(p, p), n - n, e)
    BY <1>1, <1>2, ValPlus
  <1>4. Val(Times(p, Zero), n * 0, e * e) /\ Val(Times(Zero, p), 0 * n, e * e) /\ Val(Times(p, One), n * e, e * e)
    BY <1>1, <1>2, ValTimes
  <1>5. Val(p, n * e, e * e) /\ Val(Zero, 0 * e, e * e)
    BY <1>1, <1>2, ValScale
  <1>6. n + 0 = n /\ n - 0 = n /\ 0 + n = n /\ n * 0 = 0 * e /\ 0 * n = 0 * e /\ n - n = 0
    BY <1>1
  <1>7. Same(Plus(p, Zero), p) /\ Same(Minus(p, Zero), p) /\ Same(Plus(Zero, p), p) /\ Same(Minus(p, p), Zero)
    BY <1>1, <1>2, <1>3, <1>6, ValOrder
  <1>8. Same(Times(p, Zero), Zero) /\ Same(Times(Zero, p), Zero) /\ Same(Times(p, One), p)
    BY <1>4, <1>5, <1>6, ValOrder
  <1> QED  BY <1>7, <1>8

\* What is divided by D comes back when multiplied by it
LEMMA Divides ==
    ASSUME NEW d, Positive(d), NEW q \in Fraction, Same(q, d), NEW m \in Fraction
    PROVE  /\ Same(Times(q, Times(m, Reciprocal(d))), m)
           /\ Same(Times(q, Times(Reciprocal(d), m)), m)
           /\ Same(Times(q, Reciprocal(d)), One)
  <1>1. d \in Fraction
    BY DEF Positive
  <1>2. PICK e \in Int, nd \in Int, nq \in Int, nm \in Int, z \in Int :
          e > 0 /\ Val(d, nd, e) /\ Val(q, nq, e) /\ Val(m, nm, e) /\ Val(m, z, e)
    BY <1>1, Four
  <1>3. nq = nd /\ nd > 0
    BY <1>2, ValOrder, ValSign
  <1>4. Val(Reciprocal(d), e, nd)
    BY <1>2, <1>3, ValReciprocal
  <1>5. Val(Times(m, Reciprocal(d)), nm * e, e * nd) /\ Val(Times(Reciprocal(d), m), e * nm, nd * e)
    BY <1>2, <1>4, ValTimes
  <1>6. /\ Val(Times(q, Times(m, Reciprocal(d))), nq * (nm * e), e * (e * nd))
        /\ Val(Times(q, Times(Reciprocal(d), m)), nq * (e * nm), e * (nd * e))
        /\ Val(Times(q, Reciprocal(d)), nq * e, e * nd)
    BY <1>2, <1>4, <1>5, ValTimes
  <1>7. e * nd \in Int /\ e * nd > 0
    BY <1>2, <1>3, SignOfProduct
  <1>8. Val(m, nm * (e * nd), e * (e * nd)) /\ Val(One, e * nd, e * nd)
    BY <1>2, <1>7, ValScale, ValOfNumbers
  <1>9. nq * (nm * e) = nm * (e * nd) /\ nq * (e * nm) = nm * (e * nd) /\ e * (nd * e) = e * (e * nd) /\ nq * e = e * nd
    BY <1>2, <1>3
  <1> QED  BY <1>6, <1>8, <1>9, ValOrder

LEMMA SumToDifference ==
    ASSUME NEW p \in Fraction, NEW q \in Fraction, NEW r \in Fraction, Same(Plus(p, q), r)
    PROVE  Same(p, Minus(r, q))
  <1>1. PICK e \in Int, n1 \in Int, n2 \in Int, n3 \in Int, n4 \in Int :
          e > 0 /\ Val(p, n1, e) /\ Val(q, n2, e) /\ Val(r, n3, e) /\ Val(r, n4, e)
    BY Four
  <1>2. Val(Plus(p, q), n1 + n2, e) /\ Val(Minus(r, q), n3 - n2, e)
    BY <1>1, ValPlus
  <1>3. n1 + n2 = n3
    BY <1>1, <1>2, ValOrder
  <1>4. n1 = n3 - n2
    BY <1>1, <1>3
  <1> QED  BY <1>1, <1>2, <1>4, ValOrder

\* What the value above gets from the one below closes its row
LEMMA HalfRowAbove ==
    ASSUME NEW d \in Fraction, NEW f \in Fraction, NEW c \in Fraction, NEW g \in Fraction,
           NEW a \in Fraction, NEW r \in Fraction,
           Same(Times(d, f), r), Same(Times(d, c), a)
    PROVE  Same(Minus(Times(d, Plus(f, Times(c, g))), Times(a, g)), r)
  <1>0. PICK e \in Int : Over(d, e) /\ Over(f, e) /\ Over(c, e) /\ Over(g, e) /\ Over(a, e) /\ Over(r, e)
    <2>1. PICK e1 \in Int : e1 > 0 /\ Over(d, e1) /\ Over(f, e1) /\ Over(c, e1)
      BY CommonOver
    <2>2. PICK e2 \in Int : e2 > 0 /\ Over(g, e2) /\ Over(a, e2) /\ Over(r, e2)
      BY CommonOver
    <2> QED  BY <2>1, <2>2, OverProduct
  <1> DEFINE D == Num(d, e)   F == Num(f, e)   C == Num(c, e)   G == Num(g, e)   A == Num(a, e)   R == Num(r, e)
  <1>1. e > 0 /\ Val(d, D, e) /\ Val(f, F, e) /\ Val(c, C, e) /\ Val(g, G, e) /\ Val(a, A, e) /\ Val(r, R, e)
        /\ D \in Int /\ F \in Int /\ C \in Int /\ G \in Int /\ A \in Int /\ R \in Int
    BY <1>0 DEF Over
  <1> HIDE DEF D, F, C, G, A, R
  <1>2. PICK ee \in Int, eee \in Int : ee = e * e /\ ee > 0 /\ eee = e * ee /\ eee = ee * e /\ eee > 0
    BY <1>1, SignOfProduct
  <1>3. /\ Val(Times(d, f), D * F, ee) /\ Val(Times(d, c), D * C, ee) /\ Val(Times(c, g), C * G, ee) /\ Val(Times(a, g), A * G, ee)
        /\ Val(f, F * e, ee) /\ Val(a, A * e, ee) /\ Val(r, R * e, ee)
    BY <1>1, <1>2, ValTimes, ValScale
  <1>4. D * F = R * e /\ D * C = A * e
    BY <1>3, ValOrder
  <1>5. Val(Plus(f, Times(c, g)), F * e + C * G, ee)
    BY <1>3, ValPlus
  <1>6. Val(Times(d, Plus(f, Times(c, g))), D * (F * e + C * G), eee) /\ Val(Times(a, g), (A * G) * e, eee) /\ Val(r, (R * e) * e, eee)
    BY <1>1, <1>2, <1>3, <1>5, ValTimes, ValScale
  <1>7. Val(Minus(Times(d, Plus(f, Times(c, g))), Times(a, g)), D * (F * e + C * G) - (A * G) * e, eee)
    BY <1>6, ValPlus
  <1>8. D * (F * e + C * G) - (A * G) * e = (R * e) * e
    <2>1. D * (F * e + C * G) = (D * F) * e + (D * C) * G /\ (A * G) * e = (A * e) * G
      BY <1>1
    <2>2. (D * F) * e = (R * e) * e /\ (D * C) * G = (A * e) * G
      BY <1>4
    <2> QED  BY <1>1, <2>1, <2>2
  <1> QED  BY <1>6, <1>7, <1>8, ValOrder

\* The denominator is the diagonal of the row less what comes from above
LEMMA DenominatorIs ==
    ASSUME NEW h \in Fraction, NEW drag \in Fraction, NEW a \in Fraction, NEW b \in Fraction, NEW c \in Fraction
    PROVE  /\ Same(Plus(Plus(h, Plus(drag, Times(a, Minus(One, c)))), b), Minus(Plus(Plus(h, drag), Plus(a, b)), Times(a, c)))
           /\ Same(Plus(Plus(h, Plus(drag, Times(a, One))), b), Plus(Plus(h, drag), Plus(a, b)))
  <1>0. PICK e \in Int : Over(h, e) /\ Over(drag, e) /\ Over(a, e) /\ Over(b, e) /\ Over(c, e)
    <2>1. PICK e1 \in Int : e1 > 0 /\ Over(h, e1) /\ Over(drag, e1) /\ Over(a, e1)
      BY CommonOver
    <2>2. PICK e2 \in Int : e2 > 0 /\ Over(b, e2) /\ Over(c, e2)
      BY CommonOver
    <2> QED  BY <2>1, <2>2, OverProduct
  <1> DEFINE H == Num(h, e)   R == Num(drag, e)   A == Num(a, e)   B == Num(b, e)   C == Num(c, e)
  <1>1. e > 0 /\ Val(h, H, e) /\ Val(drag, R, e) /\ Val(a, A, e) /\ Val(b, B, e) /\ Val(c, C, e)
        /\ H \in Int /\ R \in Int /\ A \in Int /\ B \in Int /\ C \in Int
    BY <1>0 DEF Over
  <1> HIDE DEF H, R, A, B, C
  <1>2. PICK ee \in Int : ee = e * e /\ ee > 0
    BY <1>1, SignOfProduct
  <1>3. Val(One, e, e)
    BY <1>1, ValOfNumbers
  <1>4. Val(Minus(One, c), e - C, e)
    BY <1>1, <1>3, ValPlus
  <1>5. /\ Val(Times(a, Minus(One, c)), A * (e - C), ee) /\ Val(Times(a, One), A * e, ee) /\ Val(Times(a, c), A * C, ee)
        /\ Val(h, H * e, ee) /\ Val(drag, R * e, ee) /\ Val(b, B * e, ee) /\ Val(a, A * e, ee)
    BY <1>1, <1>2, <1>3, <1>4, ValTimes, ValScale
  <1>6. Val(Plus(drag, Times(a, Minus(One, c))), R * e + A * (e - C), ee) /\ Val(Plus(drag, Times(a, One)), R * e + A * e, ee)
    BY <1>5, ValPlus
  <1>7. /\ Val(Plus(h, Plus(drag, Times(a, Minus(One, c)))), H * e + (R * e + A * (e - C)), ee)
        /\ Val(Plus(h, Plus(drag, Times(a, One))), H * e + (R * e + A * e), ee)
        /\ Val(Plus(h, drag), H * e + R * e, ee) /\ Val(Plus(a, b), A * e + B * e, ee)
    BY <1>5, <1>6, ValPlus
  <1>8. /\ Val(Plus(Plus(h, Plus(drag, Times(a, Minus(One, c)))), b), (H * e + (R * e + A * (e - C))) + B * e, ee)
        /\ Val(Plus(Plus(h, Plus(drag, Times(a, One))), b), (H * e + (R * e + A * e)) + B * e, ee)
        /\ Val(Plus(Plus(h, drag), Plus(a, b)), (H * e + R * e) + (A * e + B * e), ee)
    BY <1>5, <1>7, ValPlus
  <1>9. Val(Minus(Plus(Plus(h, drag), Plus(a, b)), Times(a, c)), ((H * e + R * e) + (A * e + B * e)) - A * C, ee)
    BY <1>5, <1>8, ValPlus
  <1>10. /\ (H * e + (R * e + A * (e - C))) + B * e = ((H * e + R * e) + (A * e + B * e)) - A * C
         /\ (H * e + (R * e + A * e)) + B * e = (H * e + R * e) + (A * e + B * e)
    BY <1>1
  <1> QED  BY <1>8, <1>9, <1>10, ValOrder

\* A row is closed once the value above it is final
LEMMA RowCloses ==
    ASSUME NEW d \in Fraction, NEW own \in Fraction, NEW a \in Fraction, NEW c \in Fraction, NEW g \in Fraction,
           NEW f \in Fraction, NEW below \in Fraction, NEW r \in Fraction,
           Same(d, Minus(own, Times(a, c))),
           Same(Minus(Times(d, g), below), Plus(r, Times(a, f)))
    PROVE  Same(Minus(Times(own, g), Plus(Times(a, Plus(f, Times(c, g))), below)), r)
  <1>0. PICK e \in Int : Over(d, e) /\ Over(own, e) /\ Over(a, e) /\ Over(c, e) /\ Over(g, e) /\ Over(f, e) /\ Over(below, e) /\ Over(r, e)
    <2>1. PICK e1 \in Int : e1 > 0 /\ Over(d, e1) /\ Over(own, e1) /\ Over(a, e1) /\ Over(c, e1)
      BY CommonOver
    <2>2. PICK e2 \in Int : e2 > 0 /\ Over(g, e2) /\ Over(f, e2) /\ Over(below, e2) /\ Over(r, e2)
      BY CommonOver
    <2> QED  BY <2>1, <2>2, OverProduct
  <1> DEFINE D == Num(d, e)   O == Num(own, e)   A == Num(a, e)   C == Num(c, e)   G == Num(g, e)   F == Num(f, e)   B == Num(below, e)   R == Num(r, e)
  <1>1. e > 0 /\ Val(d, D, e) /\ Val(own, O, e) /\ Val(a, A, e) /\ Val(c, C, e) /\ Val(g, G, e) /\ Val(f, F, e) /\ Val(below, B, e) /\ Val(r, R, e)
        /\ D \in Int /\ O \in Int /\ A \in Int /\ C \in Int /\ G \in Int /\ F \in Int /\ B \in Int /\ R \in Int
    BY <1>0 DEF Over
  <1> HIDE DEF D, O, A, C, G, F, B, R
  <1>2. PICK ee \in Int, eee \in Int : ee = e * e /\ ee > 0 /\ eee = e * ee /\ eee = ee * e /\ eee > 0
    BY <1>1, SignOfProduct
  <1>3. /\ Val(Times(a, c), A * C, ee) /\ Val(own, O * e, ee) /\ Val(d, D * e, ee)
        /\ Val(Times(d, g), D * G, ee) /\ Val(below, B * e, ee) /\ Val(r, R * e, ee) /\ Val(Times(a, f), A * F, ee)
        /\ Val(Times(c, g), C * G, ee) /\ Val(f, F * e, ee) /\ Val(Times(own, g), O * G, ee)
    BY <1>1, <1>2, ValTimes, ValScale
  <1>4. Val(Minus(own, Times(a, c)), O * e - A * C, ee)
    BY <1>3, ValPlus
  <1>5. D * e = O * e - A * C
    BY <1>3, <1>4, ValOrder
  <1>6. Val(Minus(Times(d, g), below), D * G - B * e, ee) /\ Val(Plus(r, Times(a, f)), R * e + A * F, ee)
    BY <1>3, ValPlus
  <1>7. D * G - B * e = R * e + A * F
    BY <1>6, ValOrder
  <1>8. Val(Plus(f, Times(c, g)), F * e + C * G, ee)
    BY <1>3, ValPlus
  <1>9. /\ Val(Times(a, Plus(f, Times(c, g))), A * (F * e + C * G), eee) /\ Val(below, (B * e) * e, eee)
        /\ Val(Times(own, g), (O * G) * e, eee) /\ Val(r, (R * e) * e, eee)
    BY <1>1, <1>2, <1>3, <1>8, ValTimes, ValScale
  <1>10. Val(Plus(Times(a, Plus(f, Times(c, g))), below), A * (F * e + C * G) + (B * e) * e, eee)
    BY <1>9, ValPlus
  <1>11. Val(Minus(Times(own, g), Plus(Times(a, Plus(f, Times(c, g))), below)), (O * G) * e - (A * (F * e + C * G) + (B * e) * e), eee)
    BY <1>9, <1>10, ValPlus
  <1>12. (O * G) * e - (A * (F * e + C * G) + (B * e) * e) = (R * e) * e
    <2>1. (O * G) * e = (O * e) * G /\ A * (F * e + C * G) = (A * F) * e + (A * C) * G
      BY <1>1
    <2>2. (D * e + A * C) * G = (D * G) * e + (A * C) * G
      BY <1>1
    <2>3. O * e = D * e + A * C
      BY <1>1, <1>3, <1>5
    <2>4. (D * G) * e = (R * e + A * F + B * e) * e
      BY <1>1, <1>7
    <2>5. (R * e + A * F + B * e) * e = (R * e) * e + (A * F) * e + (B * e) * e
      BY <1>1
    <2>6. (O * e) * G = (D * e + A * C) * G
      BY <2>3
    <2> QED  BY <1>1, <2>1, <2>2, <2>4, <2>5, <2>6
  <1> QED  BY <1>9, <1>11, <1>12, ValOrder

\* At the top nothing comes from above
LEMMA TopRowCloses ==
    ASSUME NEW d \in Fraction, NEW own \in Fraction, NEW g \in Fraction, NEW below \in Fraction, NEW r \in Fraction,
           Same(d, own), Same(Minus(Times(d, g), below), Plus(r, Zero))
    PROVE  Same(Minus(Times(own, g), Plus(Zero, below)), r)
  <1>1. Same(g, g) /\ Same(Plus(Zero, below), below) /\ Same(Plus(r, Zero), r) /\ Zero \in Fraction
    BY SameSelf, NeutralZero, ConstantFractions
  <1>2. Same(Times(own, g), Times(d, g)) /\ Times(own, g) \in Fraction /\ Times(d, g) \in Fraction
    BY <1>1, SameSym, SameTimes
  <1>3. Plus(Zero, below) \in Fraction /\ Plus(r, Zero) \in Fraction
    BY <1>1, PlusIsFraction
  <1>4. /\ Same(Minus(Times(own, g), Plus(Zero, below)), Minus(Times(d, g), below))
        /\ Minus(Times(own, g), Plus(Zero, below)) \in Fraction /\ Minus(Times(d, g), below) \in Fraction
    BY <1>1, <1>2, <1>3, SamePlus
  <1> QED  BY <1>1, <1>3, <1>4, SameTrans

-----------------------------------------------------------------------------
\* Sums over the layers above an interface, compared with what they should be

LEMMA LeastNatural ==
    ASSUME NEW S \in SUBSET Nat, S # {}
    PROVE  \E m \in S : \A n \in S : m <= n
  <1> DEFINE F == {0 .. n : n \in S}
  <1>1. \A U \in F : IsFiniteSet(U)
    BY FS_Interval
  <1>2. F # {}
    OBVIOUS
  <1> HIDE DEF F
  <1>3. PICK U \in F : \A V \in F : V \subseteq U => V = U
    BY <1>1, <1>2, LeastSet
  <1>4. PICK m \in S : U = 0 .. m
    BY DEF F
  <1>5. ASSUME NEW n \in S, n < m PROVE FALSE
    <2>1. m \in Nat /\ n \in Nat
      OBVIOUS
    <2>2. 0 .. n \in F /\ 0 .. n \subseteq U
      BY <1>4, <1>5, <2>1 DEF F
    <2>3. 0 .. n = U
      BY <1>3, <2>2
    <2>4. m \in 0 .. n
      BY <1>4, <2>1, <2>3
    <2> QED  BY <1>5, <2>1, <2>4
  <1> QED  BY <1>5

LEMMA SumIsFraction ==
    ASSUME NEW f, NEW S, IsFiniteSet(S), \A i \in S : f[i] \in Fraction
    PROVE  SumOver(f, S) \in Fraction
  <1> DEFINE F == {T \in SUBSET S : SumOver(f, T) \notin Fraction}
  <1> SUFFICES ASSUME F # {} PROVE FALSE
    OBVIOUS
  <1>1. \A T \in F : IsFiniteSet(T)
    BY FS_Subset
  <1>2. PICK T \in F : \A V \in F : V \subseteq T => V = T
    <2> HIDE DEF F
    <2> QED  BY <1>1, LeastSet
  <1>3. T \subseteq S /\ IsFiniteSet(T) /\ SumOver(f, T) \notin Fraction
    BY <1>1, <1>2
  <1>4. T # {}
    BY <1>3, SumOfNone, ConstantFractions
  <1>5. PICK i \in T : SumOver(f, T) = Plus(f[i], SumOver(f, T \ {i}))
    BY <1>3, <1>4, SumOfSome
  <1>6. SumOver(f, T \ {i}) \in Fraction
    <2>1. T \ {i} \in SUBSET S /\ T \ {i} \subseteq T /\ T \ {i} # T
      BY <1>3
    <2> QED  BY <1>2, <2>1
  <1> QED  BY <1>3, <1>5, <1>6, PlusIsFraction

LEMMA PlusExchanges ==
    ASSUME NEW p \in Fraction, NEW q \in Fraction, NEW r \in Fraction
    PROVE  Same(Plus(p, Plus(q, r)), Plus(q, Plus(p, r)))
  <1>1. PICK e \in Int, n1 \in Int, n2 \in Int, n3 \in Int, n4 \in Int :
          e > 0 /\ Val(p, n1, e) /\ Val(q, n2, e) /\ Val(r, n3, e) /\ Val(r, n4, e)
    BY Four
  <1>2. Val(Plus(q, r), n2 + n3, e) /\ Val(Plus(p, r), n1 + n3, e)
    BY <1>1, ValPlus
  <1>3. Val(Plus(p, Plus(q, r)), n1 + (n2 + n3), e) /\ Val(Plus(q, Plus(p, r)), n2 + (n1 + n3), e)
    BY <1>1, <1>2, ValPlus
  <1>4. n1 + (n2 + n3) = n2 + (n1 + n3)
    OBVIOUS
  <1> QED  BY <1>3, <1>4, ValOrder

\* Whichever element is taken out of a sum, the value is the same
LEMMA SumOfAny ==
    ASSUME NEW f, NEW S, IsFiniteSet(S), \A i \in S : f[i] \in Fraction
    PROVE  \A j \in S : Same(SumOver(f, S), Plus(f[j], SumOver(f, S \ {j})))
  <1> DEFINE Any(T) == \A j \in T : Same(SumOver(f, T), Plus(f[j], SumOver(f, T \ {j})))
             F == {T \in SUBSET S : ~Any(T)}
  <1> SUFFICES ASSUME F # {} PROVE FALSE
    OBVIOUS
  <1>1. \A T \in SUBSET S : IsFiniteSet(T) /\ SumOver(f, T) \in Fraction
    BY FS_Subset, SumIsFraction
  <1>2. PICK T \in F : \A V \in F : V \subseteq T => V = T
    <2>1. \A T \in F : IsFiniteSet(T)
      BY <1>1
    <2> HIDE DEF F
    <2> QED  BY <2>1, LeastSet
  <1>3. T \in SUBSET S /\ ~Any(T)
    BY <1>2
  <1>4. \A V \in SUBSET T : V # T => Any(V)
    BY <1>2, <1>3
  <1>5. PICK j \in T : ~Same(SumOver(f, T), Plus(f[j], SumOver(f, T \ {j})))
    BY <1>3
  <1> HIDE DEF F
  <1>6. PICK i \in T : SumOver(f, T) = Plus(f[i], SumOver(f, T \ {i}))
    BY <1>1, <1>3, SumOfSome
  <1>7. f[i] \in Fraction /\ f[j] \in Fraction /\ SumOver(f, T) \in Fraction
    BY <1>1, <1>3
  <1>8. CASE i = j
    BY <1>5, <1>6, <1>7, <1>8, SameSelf
  <1>9. CASE i # j
    <2> DEFINE R == (T \ {i}) \ {j}
    <2>1. R = (T \ {j}) \ {i} /\ R \in SUBSET S /\ T \ {i} \in SUBSET S /\ T \ {j} \in SUBSET S
      BY <1>3
    <2>2. j \in T \ {i} /\ i \in T \ {j} /\ T \ {i} # T /\ T \ {j} # T /\ T \ {i} \in SUBSET T /\ T \ {j} \in SUBSET T
      BY <1>9
    <2>3. Same(SumOver(f, T \ {i}), Plus(f[j], SumOver(f, R))) /\ Same(SumOver(f, T \ {j}), Plus(f[i], SumOver(f, R)))
      BY <1>4, <2>1, <2>2
    <2>4. PICK p \in Fraction, q \in Fraction, r \in Fraction :
            p = SumOver(f, T \ {i}) /\ q = SumOver(f, T \ {j}) /\ r = SumOver(f, R)
      BY <1>1, <2>1
    <2> HIDE DEF R
    <2>5. Same(p, Plus(f[j], r)) /\ Same(q, Plus(f[i], r)) /\ Plus(f[j], r) \in Fraction /\ Plus(f[i], r) \in Fraction
      BY <1>7, <2>3, <2>4, PlusIsFraction
    <2>6. /\ Same(Plus(f[i], p), Plus(f[i], Plus(f[j], r))) /\ Same(Plus(f[j], Plus(f[i], r)), Plus(f[j], q))
          /\ Plus(f[i], p) \in Fraction /\ Plus(f[i], Plus(f[j], r)) \in Fraction
          /\ Plus(f[j], Plus(f[i], r)) \in Fraction /\ Plus(f[j], q) \in Fraction
      BY <1>7, <2>5, SameSelf, SameSym, SamePlus
    <2>7. Same(Plus(f[i], Plus(f[j], r)), Plus(f[j], Plus(f[i], r)))
      BY <1>7, PlusExchanges
    <2>8. Same(Plus(f[i], p), Plus(f[j], q))
      BY <2>6, <2>7, SameTrans
    <2> QED  BY <1>5, <1>6, <2>4, <2>8
  <1> QED  BY <1>8, <1>9

\* Sums over the first layers
LEMMA PartialSums ==
    ASSUME NEW f, \A l \in Layers : f[l] \in Fraction
    PROVE  /\ SumOver(f, 0 .. 0 - 1) = Zero
           /\ \A j \in Interfaces : SumOver(f, 0 .. j - 1) \in Fraction
           /\ \A j \in Layers : Same(SumOver(f, 0 .. (j + 1) - 1), Plus(f[j], SumOver(f, 0 .. j - 1)))
  <1>1. 0 .. 0 - 1 = {}
    OBVIOUS
  <1>2. \A j \in Interfaces : 0 .. j - 1 \in SUBSET Layers /\ IsFiniteSet(0 .. j - 1)
    BY NzAssumption, FS_Interval DEF Layers, Interfaces
  <1>3. \A j \in Interfaces : SumOver(f, 0 .. j - 1) \in Fraction
    BY <1>2, SumIsFraction
  <1>4. ASSUME NEW j \in Layers
        PROVE  Same(SumOver(f, 0 .. (j + 1) - 1), Plus(f[j], SumOver(f, 0 .. j - 1)))
    <2>1. j \in Int /\ j >= 0 /\ j + 1 \in Interfaces
      BY LayerFacts
    <2>2. j \in 0 .. (j + 1) - 1 /\ (0 .. (j + 1) - 1) \ {j} = 0 .. j - 1
      BY <2>1
    <2>3. IsFiniteSet(0 .. (j + 1) - 1) /\ \A i \in 0 .. (j + 1) - 1 : f[i] \in Fraction
      BY <1>2, <2>1
    <2> QED  BY <2>2, <2>3, SumOfAny
  <1> QED  BY <1>1, <1>3, <1>4, SumOfNone

\* up: q is an upper bound of p
Bounds(up, p, q) == IF up THEN AtMost(p, q) ELSE AtMost(q, p)

\* A quantity that from layer to layer grows by no less, or no more, than what is summed
\* bounds the sum
LEMMA SumIsBounded ==
    ASSUME NEW up \in BOOLEAN, NEW f, \A l \in Layers : f[l] \in Fraction,
           NEW g, \A j \in Interfaces : g[j] \in Fraction,
           Bounds(up, Zero, g[0]), \A l \in Layers : Bounds(up, Plus(f[l], g[l]), g[l + 1])
    PROVE  \A j \in Interfaces : Bounds(up, SumOver(f, 0 .. j - 1), g[j])
  <1> DEFINE S == {j \in Interfaces : ~Bounds(up, SumOver(f, 0 .. j - 1), g[j])}
  <1> SUFFICES ASSUME S # {} PROVE FALSE
    OBVIOUS
  <1>1. S \in SUBSET Nat
    BY NzAssumption DEF Interfaces
  <1>2. PICK m \in S : \A n \in S : m <= n
    <2> HIDE DEF S
    <2> QED  BY <1>1, LeastNatural
  <1>3. m \in Interfaces /\ ~Bounds(up, SumOver(f, 0 .. m - 1), g[m])
    BY <1>2
  <1>4. m # 0
    BY <1>3, PartialSums
  <1>5. PICK l \in Layers : m = l + 1 /\ l \in Interfaces /\ l < m
    <2> HIDE DEF S
    <2>1. m \in 0 .. nz /\ nz \in Nat
      BY <1>3, NzAssumption DEF Interfaces
    <2>2. m - 1 \in 0 .. nz - 1 /\ m - 1 \in 0 .. nz /\ m = (m - 1) + 1 /\ m - 1 < m
      BY <1>4, <2>1
    <2> QED  BY <2>2 DEF Layers, Interfaces
  <1>6. Bounds(up, SumOver(f, 0 .. l - 1), g[l])
    <2>1. l \in Int /\ m \in Int
      BY <1>1, <1>5, LayerFacts
    <2>2. l \notin S
      <3> HIDE DEF S
      <3> QED  BY <1>2, <1>5, <2>1
    <2> QED  BY <1>5, <2>2
  <1> HIDE DEF S
  <1>7. PICK p \in Fraction, q \in Fraction, r \in Fraction :
          /\ p = SumOver(f, 0 .. l - 1) /\ q = SumOver(f, 0 .. m - 1) /\ r = f[l]
          /\ Same(q, Plus(r, p)) /\ Bounds(up, p, g[l]) /\ g[l] \in Fraction /\ g[m] \in Fraction
          /\ Bounds(up, Plus(r, g[l]), g[m])
    BY <1>3, <1>5, <1>6, PartialSums
  <1>8. Bounds(up, Plus(r, p), Plus(r, g[l])) /\ Plus(r, p) \in Fraction /\ Plus(r, g[l]) \in Fraction
    BY <1>7, AtMostItself, PlusIsFraction, PlusGrows DEF Bounds
  <1>9. Bounds(up, q, Plus(r, p))
    BY <1>7, <1>8, SameIsAtMost DEF Bounds
  <1>10. Bounds(up, q, g[m])
    BY <1>7, <1>8, <1>9, AtMostTrans DEF Bounds
  <1> QED  BY <1>3, <1>7, <1>10

LEMMA SumIsSame ==
    ASSUME NEW f, \A l \in Layers : f[l] \in Fraction,
           NEW g, \A j \in Interfaces : g[j] \in Fraction,
           Same(Zero, g[0]), \A l \in Layers : Same(Plus(f[l], g[l]), g[l + 1])
    PROVE  \A j \in Interfaces : Same(SumOver(f, 0 .. j - 1), g[j])
  <1>1. Zero \in Fraction /\ 0 \in Interfaces /\ \A l \in Layers : l \in Interfaces /\ l + 1 \in Interfaces
    BY LayerFacts, ConstantFractions
  <1>2. \A l \in Layers : Plus(f[l], g[l]) \in Fraction
    BY <1>1, PlusIsFraction
  <1>3. AtMost(Zero, g[0]) /\ AtMost(g[0], Zero)
    BY <1>1, SameIsAtMost
  <1>4. \A l \in Layers : AtMost(Plus(f[l], g[l]), g[l + 1]) /\ AtMost(g[l + 1], Plus(f[l], g[l]))
    BY <1>1, <1>2, SameIsAtMost
  <1>5. \A up \in BOOLEAN : Bounds(up, Zero, g[0]) /\ \A l \in Layers : Bounds(up, Plus(f[l], g[l]), g[l + 1])
    BY <1>3, <1>4 DEF Bounds
  <1>6. \A up \in BOOLEAN : \A j \in Interfaces : Bounds(up, SumOver(f, 0 .. j - 1), g[j])
    BY <1>5, SumIsBounded
  <1>7. \A j \in Interfaces : AtMost(SumOver(f, 0 .. j - 1), g[j]) /\ AtMost(g[j], SumOver(f, 0 .. j - 1))
    BY <1>6 DEF Bounds
  <1>8. \A j \in Interfaces : SumOver(f, 0 .. j - 1) \in Fraction
    BY PartialSums
  <1> QED  BY <1>7, <1>8, SameIsAtMost

-----------------------------------------------------------------------------
\* The system of equations, and how far a solve of it has got

\* Start and Row with the column as a parameter
StartIn(c, name) ==
    CASE name = "visc_rem_u" -> AllLayers(One)
      [] name = "du_dt_visc_gl90" -> c.u
      [] name \in {"u", "du_dt_str"} ->
            [j \in Layers |-> Plus(IF name = "u" THEN c.u[j] ELSE Zero, IF c.direct_stress THEN BodyForce(c)[j] ELSE Zero)]

FromAbove(s, c, f, l) == IF l = 0 THEN Zero ELSE Times(Coupling(s, c, l), f[l - 1])
FromBelow(s, c, f, l) == IF l = nz - 1 THEN Zero ELSE Times(Coupling(s, c, l + 1), f[l + 1])
Diagonal(s, c, l) == Plus(Plus(c.h[l], Drag(s, c, l)), Plus(Coupling(s, c, l), Coupling(s, c, l + 1)))
RowIn(s, c, f, l) == Minus(Times(Diagonal(s, c, l), f[l]), Plus(FromAbove(s, c, f, l), FromBelow(s, c, f, l)))

\* The right-hand side of row l
Given(name, c, stress, l) ==
    Plus(Times(c.h[l], StartIn(c, name)[l]), IF l = 0 THEN StressOn(name, stress) ELSE Zero)

\* What of an interface's coupling the sweep leaves for the layer below, and what it
\* divides layer l by
Kept(cc, l) == IF l = 0 THEN One ELSE Minus(One, cc[l])
Denominator(s, c, share, l) == Plus(Plus(c.h[l], Plus(Drag(s, c, l), share)), Coupling(s, c, l + 1))
Pivot(s, c, cc, l) == Denominator(s, c, Times(Coupling(s, c, l), Kept(cc, l)), l)

Untouched(s, c, f, l) == \A name \in Solved(s) : Same(Momentum(name, c, f, l), Times(c.h[l], StartIn(c, name)[l]))
FromGiven(s, c, stress, name, f, l) == Plus(Given(name, c, stress, l), FromAbove(s, c, f, l))
DownRow(s, c, stress, cc, f, l) ==
    \A name \in Solved(s) :
        Same(Times(Pivot(s, c, cc, l), f[name][l]), FromGiven(s, c, stress, name, f[name], l))
HalfRow(s, c, stress, cc, f, l) ==
    \A name \in Solved(s) :
        Same(Minus(Times(Pivot(s, c, cc, l), f[name][l]), FromBelow(s, c, f[name], l)),
             FromGiven(s, c, stress, name, f[name], l))
Coefficient(s, c, cc, l) == Same(Times(Pivot(s, c, cc, l - 1), cc[l]), Coupling(s, c, l))
FullRow(s, c, stress, f, l) == \A name \in Solved(s) : Same(RowIn(s, c, f[name], l), Given(name, c, stress, l))

\* Where a solve has got to: p, i and f stand for pc, k and x
SweepOK(p, i, s, c, stress, b, d, cc, f) ==
    /\ p = "top" => \A l \in Layers : Untouched(s, c, f, l)
    /\ p = "down" =>
          /\ \A l \in Layers : l < i => DownRow(s, c, stress, cc, f, l)
          /\ \A l \in Layers : 0 < l /\ l < i => Coefficient(s, c, cc, l)
          /\ \A l \in Layers : i <= l => Untouched(s, c, f, l)
          /\ Same(Times(Pivot(s, c, cc, i - 1), b), One)
          /\ Same(d, Minus(One, Times(Coupling(s, c, i), b)))
    /\ p = "up" =>
          /\ \A l \in Layers : 0 < l => Coefficient(s, c, cc, l)
          /\ \A l \in Layers : l < i => DownRow(s, c, stress, cc, f, l)
          /\ HalfRow(s, c, stress, cc, f, i)
          /\ \A l \in Layers : i < l => FullRow(s, c, stress, f, l)

SweepInv == SweepOK(pc, k, system, column, surface_stress, b1, d1, c1, x)

\* The wind so far: z is the thickness above layer i
WindSoFar(p, i, c, z, f) ==
    /\ p = "hold" => i = 0 /\ z = Zero /\ f["u"] = c.u
    /\ p = "wind" =>
          IF c.direct_stress
          THEN /\ Same(z, Above(c, i)) /\ Below(z, Hmix)
               /\ \A l \in Layers : l < i =>
                     /\ Same(f["u"][l], Plus(c.u[l], BodyForce(c)[l]))
                     /\ Same(f["du_dt_str"][l], BodyForce(c)[l])
               /\ \A l \in Layers : i <= l => f["u"][l] = c.u[l] /\ f["du_dt_str"][l] = Zero
          ELSE f["u"] = c.u /\ f["du_dt_str"] = AllLayers(Zero)

WindInv == WindSoFar(pc, k, column, zDS, x)

\* What is held through the solves
HeldOK(ca, p, s, c, stress, f, held) ==
    ca = "vertvisc_tr" =>
        /\ p \in {"hold", "wind"} => s = "vertvisc_tridiag" /\ stress = Zero
        /\ p \in {"diagnose", "drag", "limit", "done"} => s = "gl90"
        /\ p \in {"wind", "top", "down", "up", "diagnose"} => held = c.u
        /\ p # "hold" /\ (s = "vertvisc_tridiag" \/ p = "top") => f["du_dt_visc_gl90"] = c.u
        /\ p \notin {"hold", "wind"} => stress = IF c.direct_stress THEN Zero ELSE c.stress

HeldInv == HeldOK(call, pc, system, column, surface_stress, x, du_dt_visc)

VelocitySolved ==
    (system = "gl90" /\ pc # "done") =>
        \A l \in Layers : Same(RowIn("vertvisc_tridiag", column, x["u"], l), Given("u", column, surface_stress, l))

\* What layers above interface j lose to Rayleigh drag at velocities u
DragTo(c, u, j) == FoldFunctionOnSet(Plus, Zero, [l \in Layers |-> Times(c.Ray[l], u[l])], 0 .. j - 1)

\* The tendency, and the stress at the bottom as far as it has been added up
BudgetOK(p, i, c, u, visc, stress) ==
    /\ p = "diagnose" => i = 0
    /\ p \in {"drag", "limit"} => \A l \in Layers : visc[l] = Minus(u[l], c.u[l])
    /\ p \in {"drag", "limit"} =>
          Same(stress, Plus(Times(u[nz - 1], c.a[nz]), DragTo(c, u, IF p = "drag" THEN i ELSE nz)))

BudgetInv == BudgetOK(pc, k, column, x["u"], du_dt_visc, taux_bot)

\* What goes through interface j: momentum, downwards, of values f with a stress at the top
Flux(s, c, stress, f, j) ==
    IF j = 0 THEN Minus(stress, Times(Coupling(s, c, 0), f[0]))
    ELSE IF j = nz THEN Times(Coupling(s, c, nz), f[nz - 1])
    ELSE Times(Coupling(s, c, j), Minus(f[j - 1], f[j]))

-----------------------------------------------------------------------------
\* A layer of the system

LEMMA StartAndRow ==
    /\ \A name : Start(name) = StartIn(column, name)
    /\ \A s, f, l : Row(s, f, l) = RowIn(s, column, f, l)
  <1>1. \A name : Start(name) = StartIn(column, name)
    BY DEF Start, StartIn
  <1>2. \A s, f, l : Row(s, f, l) = RowIn(s, column, f, l)
    BY DEF Row, RowIn, Diagonal, FromAbove, FromBelow
  <1> QED  BY <1>1, <1>2

LEMMA ColumnParts ==
    ASSUME NEW c \in Columns
    PROVE  /\ \A l \in Layers : /\ Positive(c.h[l]) /\ c.h[l] \in Fraction
                                /\ Positive(c.h_avg[l]) /\ c.h_avg[l] \in Fraction
                                /\ c.u[l] \in Fraction
           /\ c.u \in [Layers -> Fraction]
           /\ \A s : \A l \in Layers : Drag(s, c, l) \in Fraction /\ Nonnegative(Drag(s, c, l))
           /\ \A s : \A j \in Interfaces : Coupling(s, c, j) \in Fraction /\ Nonnegative(Coupling(s, c, j))
           /\ c.stress \in Fraction
  <1>1. /\ \A j \in Layers : Positive(c.h[j]) /\ Positive(c.h_avg[j]) /\ Nonnegative(c.Ray[j])
        /\ c.u \in [Layers -> Fraction]
        /\ \A j \in Interfaces : Nonnegative(c.a[j]) /\ Nonnegative(c.a_gl90[j])
        /\ c.stress \in Fraction
    BY ColumnsAssumption, Zenon DEF ColumnOK
  <1>2. \A s : \A l \in Layers : Nonnegative(Drag(s, c, l))
    BY <1>1, NonnegativeParts, Zenon DEF Drag
  <1>3. \A s : \A j \in Interfaces : Nonnegative(Coupling(s, c, j))
    BY <1>1, Zenon DEF Coupling
  <1> QED  BY <1>1, <1>2, <1>3, NonnegativeParts

\* The thickness above a layer, and the wind that a layer gets
LEMMA AboveFacts ==
    ASSUME NEW c \in Columns
    PROVE  /\ Above(c, 0) = Zero
           /\ \A j \in Interfaces : Above(c, j) \in Fraction
           /\ \A l \in Layers : Same(Above(c, l + 1), Plus(c.h_avg[l], Above(c, l)))
  <1>1. \A l \in Layers : c.h_avg[l] \in Fraction
    BY ColumnParts
  <1>2. \A j : Above(c, j) = SumOver(c.h_avg, 0 .. j - 1)
    BY DEF Above, SumOver
  <1> QED  BY <1>1, <1>2, PartialSums

LEMMA BodyForceIsFraction ==
    ASSUME NEW c \in Columns, NEW l \in Layers
    PROVE  BodyForce(c)[l] \in Fraction
  <1>1. Hmix \in Fraction /\ Positive(Hmix)
    BY ConstantFractions, NonnegativeParts
  <1>2. \A j \in Interfaces : WithinHmix(Above(c, j)) \in Fraction
    BY <1>1, AboveFacts DEF WithinHmix
  <1>3. Minus(WithinHmix(Above(c, l + 1)), WithinHmix(Above(c, l))) \in Fraction
    BY <1>2, LayerFacts, PlusIsFraction
  <1>4. Reciprocal(Times(Hmix, c.h_avg[l])) \in Fraction
    BY <1>1, ColumnParts, NonnegativeParts, TimesOfShares, ReciprocalOfPositive
  <1>5. Times(Times(Minus(WithinHmix(Above(c, l + 1)), WithinHmix(Above(c, l))), Reciprocal(Times(Hmix, c.h_avg[l]))), c.stress) \in Fraction
    BY <1>3, <1>4, ColumnParts, TimesIsFraction
  <1> QED  BY <1>5 DEF BodyForce

Velocity(c) == [j \in Layers |-> Plus(c.u[j], IF c.direct_stress THEN BodyForce(c)[j] ELSE Zero)]
OfTheWind(c) == [j \in Layers |-> Plus(Zero, IF c.direct_stress THEN BodyForce(c)[j] ELSE Zero)]

LEMMA StartOf ==
    ASSUME NEW c
    PROVE  /\ StartIn(c, "visc_rem_u") = AllLayers(One)
           /\ StartIn(c, "du_dt_visc_gl90") = c.u
           /\ StartIn(c, "u") = Velocity(c)
           /\ StartIn(c, "du_dt_str") = OfTheWind(c)
  <1>1. StartIn(c, "visc_rem_u") = AllLayers(One) /\ StartIn(c, "du_dt_visc_gl90") = c.u
    BY DEF StartIn
  <1>2. StartIn(c, "u") = Velocity(c)
    BY DEF StartIn, Velocity
  <1>3. StartIn(c, "du_dt_str") = OfTheWind(c)
    BY DEF StartIn, OfTheWind
  <1> QED  BY <1>1, <1>2, <1>3

LEMMA StartIsFraction ==
    ASSUME NEW c \in Columns, NEW name \in Unknowns, NEW l \in Layers
    PROVE  StartIn(c, name)[l] \in Fraction
  <1>1. AllLayers(One)[l] \in Fraction /\ Zero \in Fraction /\ c.u[l] \in Fraction
    BY ConstantFractions, ColumnParts
  <1>2. (IF c.direct_stress THEN BodyForce(c)[l] ELSE Zero) \in Fraction
    BY <1>1, BodyForceIsFraction
  <1>3. Velocity(c)[l] \in Fraction /\ OfTheWind(c)[l] \in Fraction
    BY <1>1, <1>2, PlusIsFraction DEF Velocity, OfTheWind
  <1> QED  BY <1>1, <1>3, StartOf DEF Unknowns

LEMMA GivenIsFraction ==
    ASSUME NEW c \in Columns, NEW name \in Unknowns, NEW stress \in Fraction, NEW l \in Layers
    PROVE  Given(name, c, stress, l) \in Fraction /\ StressOn(name, stress) \in Fraction
  <1>1. StressOn(name, stress) \in Fraction /\ Zero \in Fraction
    BY ConstantFractions DEF StressOn
  <1>2. Times(c.h[l], StartIn(c, name)[l]) \in Fraction
    BY ColumnParts, StartIsFraction, TimesIsFraction
  <1> QED  BY <1>1, <1>2, PlusIsFraction DEF Given

LEMMA PivotIsFraction ==
    ASSUME NEW c \in Columns, NEW s, NEW cc \in [Layers -> Fraction], NEW l \in Layers
    PROVE  Pivot(s, c, cc, l) \in Fraction /\ Kept(cc, l) \in Fraction
  <1>1. Kept(cc, l) \in Fraction
    BY ConstantFractions, PlusIsFraction DEF Kept
  <1>2. Coupling(s, c, l) \in Fraction /\ Coupling(s, c, l + 1) \in Fraction /\ Drag(s, c, l) \in Fraction /\ c.h[l] \in Fraction
    BY ColumnParts, LayerFacts
  <1>3. Times(Coupling(s, c, l), Kept(cc, l)) \in Fraction
    BY <1>1, <1>2, TimesIsFraction
  <1>4. Plus(c.h[l], Plus(Drag(s, c, l), Times(Coupling(s, c, l), Kept(cc, l)))) \in Fraction
    BY <1>2, <1>3, PlusIsFraction
  <1> QED  BY <1>1, <1>2, <1>4, PlusIsFraction DEF Pivot, Denominator

LEMMA NeighboursAreFractions ==
    ASSUME NEW c \in Columns, NEW s, NEW f \in [Layers -> Fraction], NEW l \in Layers
    PROVE  FromAbove(s, c, f, l) \in Fraction /\ FromBelow(s, c, f, l) \in Fraction
  <1>1. l > 0 => f[l - 1] \in Fraction
    BY LayerFacts
  <1>2. l # nz - 1 => f[l + 1] \in Fraction
    BY LayerFacts
  <1>3. Coupling(s, c, l) \in Fraction /\ Coupling(s, c, l + 1) \in Fraction /\ Zero \in Fraction
    BY ColumnParts, LayerFacts, ConstantFractions
  <1>4. l = 0 \/ l > 0
    BY LayerFacts
  <1> QED  BY <1>1, <1>2, <1>3, <1>4, TimesIsFraction DEF FromAbove, FromBelow

LEMMA FromGivenIsFraction ==
    ASSUME NEW c \in Columns, NEW s, NEW stress \in Fraction, NEW name \in Unknowns, NEW f \in [Layers -> Fraction], NEW l \in Layers
    PROVE  FromGiven(s, c, stress, name, f, l) \in Fraction
  BY GivenIsFraction, NeighboursAreFractions, PlusIsFraction DEF FromGiven

\* The share may be replaced by one of the same value
LEMMA DenominatorSame ==
    ASSUME NEW c \in Columns, NEW s, NEW l \in Layers, NEW p \in Fraction, NEW q \in Fraction, Same(p, q)
    PROVE  Same(Denominator(s, c, p, l), Denominator(s, c, q, l))
  <1>1. PICK h \in Fraction, r \in Fraction, a \in Fraction :
          /\ h = c.h[l] /\ r = Drag(s, c, l) /\ a = Coupling(s, c, l + 1)
          /\ Same(h, h) /\ Same(r, r) /\ Same(a, a)
    BY ColumnParts, LayerFacts, SameSelf
  <1>2. Same(Plus(r, p), Plus(r, q)) /\ Plus(r, p) \in Fraction /\ Plus(r, q) \in Fraction
    BY <1>1, SamePlus
  <1>3. /\ Same(Plus(h, Plus(r, p)), Plus(h, Plus(r, q)))
        /\ Plus(h, Plus(r, p)) \in Fraction /\ Plus(h, Plus(r, q)) \in Fraction
    BY <1>1, <1>2, SamePlus
  <1>4. Same(Plus(Plus(h, Plus(r, p)), a), Plus(Plus(h, Plus(r, q)), a))
    BY <1>1, <1>3, SamePlus
  <1> QED  BY <1>1, <1>4 DEF Denominator

\* One layer on the way down
LEMMA LayerSolved ==
    ASSUME NEW c \in Columns, NEW s, NEW l \in Layers, NEW cc \in [Layers -> Fraction],
           NEW share, Nonnegative(share), Same(Times(Coupling(s, c, l), Kept(cc, l)), share)
    PROVE  LET d == Denominator(s, c, share, l)
               first == Plus(c.h[l], Plus(Drag(s, c, l), share))
           IN  /\ \A m \in Fraction : /\ Same(Times(Pivot(s, c, cc, l), Times(m, Reciprocal(d))), m)
                                      /\ Same(Times(Pivot(s, c, cc, l), Times(Reciprocal(d), m)), m)
               /\ Same(Times(Pivot(s, c, cc, l), Reciprocal(d)), One)
               /\ Same(Times(first, Reciprocal(d)), Minus(One, Times(Coupling(s, c, l + 1), Reciprocal(d))))
  <1> DEFINE d == Denominator(s, c, share, l)
             first == Plus(c.h[l], Plus(Drag(s, c, l), share))
             a == Coupling(s, c, l + 1)
  <1>1. Nonnegative(a) /\ a \in Fraction /\ Nonnegative(Drag(s, c, l)) /\ Positive(c.h[l]) /\ Nonnegative(c.h[l])
    BY ColumnParts, LayerFacts, NonnegativeParts
  <1>2. Positive(first) /\ first \in Fraction /\ first.num > 0
    <2>1. Nonnegative(Plus(Drag(s, c, l), share))
      BY <1>1, PlusOfShares
    <2> QED  BY <1>1, <2>1, PlusOfShares, NonnegativeParts
  <1>3. d = Plus(first, a)
    BY DEF Denominator
  <1>4. Positive(d) /\ d \in Fraction
    <2> HIDE DEF first, a, d
    <2> QED  BY <1>1, <1>2, <1>3, PlusOfShares, NonnegativeParts
  <1>5. Same(Pivot(s, c, cc, l), d)
    <2>1. Times(Coupling(s, c, l), Kept(cc, l)) \in Fraction
      BY PivotIsFraction, ColumnParts, LayerFacts, TimesIsFraction
    <2>2. share \in Fraction
      BY NonnegativeParts
    <2> QED  BY <2>1, <2>2, DenominatorSame DEF Pivot
  <1>6. Pivot(s, c, cc, l) \in Fraction
    BY PivotIsFraction
  <1> HIDE DEF first, a, d
  <1>7. /\ \A m \in Fraction : /\ Same(Times(Pivot(s, c, cc, l), Times(m, Reciprocal(d))), m)
                               /\ Same(Times(Pivot(s, c, cc, l), Times(Reciprocal(d), m)), m)
        /\ Same(Times(Pivot(s, c, cc, l), Reciprocal(d)), One)
    BY <1>4, <1>5, <1>6, ConstantFractions, Divides
  <1>8. Same(Times(first, Reciprocal(d)), Minus(One, Times(a, Reciprocal(d))))
    <2>1. a.num >= 0
      BY <1>1, NonnegativeParts
    <2>2. Same(Plus(Times(first, Reciprocal(d)), Times(a, Reciprocal(d))), One)
      BY <1>1, <1>2, <1>3, <2>1, SharesAddUp
    <2>3. Reciprocal(d) \in Fraction
      BY <1>4, ReciprocalOfPositive
    <2>4. Times(first, Reciprocal(d)) \in Fraction /\ Times(a, Reciprocal(d)) \in Fraction
      BY <1>1, <1>2, <2>3, TimesIsFraction
    <2> QED  BY <2>2, <2>4, ConstantFractions, SumToDifference
  <1> QED  BY <1>7, <1>8 DEF d, first, a

-----------------------------------------------------------------------------
\* The sweep down

LEMMA UnitTimes ==
    ASSUME NEW p \in Fraction, NEW b \in Fraction, NEW a \in Fraction, Same(Times(p, b), One)
    PROVE  Same(Times(p, Times(a, b)), a)
  <1>1. PICK e \in Int, P \in Int, B \in Int, A \in Int, z \in Int :
          e > 0 /\ Val(p, P, e) /\ Val(b, B, e) /\ Val(a, A, e) /\ Val(a, z, e)
    BY Four
  <1>2. PICK ee \in Int, eee \in Int : ee = e * e /\ ee > 0 /\ eee = e * ee /\ eee > 0
    BY <1>1, SignOfProduct
  <1>3. Val(Times(p, b), P * B, ee) /\ Val(One, ee, ee) /\ Val(Times(a, b), A * B, ee) /\ Val(a, A * ee, eee)
    BY <1>1, <1>2, ValTimes, ValScale, ValOfNumbers
  <1>4. P * B = ee
    BY <1>3, ValOrder
  <1>5. Val(Times(p, Times(a, b)), P * (A * B), eee)
    BY <1>1, <1>2, <1>3, ValTimes
  <1>6. P * (A * B) = A * ee
    <2>1. P * (A * B) = A * (P * B)
      OBVIOUS
    <2> QED  BY <1>4, <2>1
  <1> QED  BY <1>3, <1>5, <1>6, ValOrder

LEMMA SolvedAreUnknowns ==
    ASSUME NEW s \in {"vertvisc_tridiag", "gl90", "remnant"}
    PROVE  Solved(s) \subseteq Unknowns
  BY DEF Solved, Unknowns

\* A step that solves a layer leaves the others
LEMMA LayerSet ==
    ASSUME TypeInv, NEW j \in Layers, NEW next,
           x' = [name \in Unknowns |-> IF name \in Solved(system) THEN [x[name] EXCEPT ![j] = next[name]] ELSE x[name]]
    PROVE  /\ \A name \in Solved(system) :
                 name \in Unknowns /\ x'[name][j] = next[name] /\ \A l \in Layers : l # j => x'[name][l] = x[name][l]
           /\ \A name \in Unknowns \ Solved(system) : x'[name] = x[name]
  <1>1. Solved(system) \subseteq Unknowns /\ x \in [Unknowns -> [Layers -> Fraction]]
    BY SolvedAreUnknowns DEF TypeInv, VcTypeOK
  <1>2. \A name \in Solved(system) : x[name] \in [Layers -> Fraction] /\ x'[name] = [x[name] EXCEPT ![j] = next[name]]
    BY <1>1
  <1>3. \A name \in Unknowns \ Solved(system) : x'[name] = x[name]
    OBVIOUS
  <1> QED  BY <1>1, <1>2, <1>3

Agree(s, f, g, l) == \A name \in Solved(s) : f[name][l] = g[name][l]

LEMMA RowsKept ==
    ASSUME NEW s, NEW c, NEW stress, NEW cc, NEW dd, NEW f, NEW g, NEW l
    PROVE  /\ cc[l] = dd[l] => Pivot(s, c, cc, l) = Pivot(s, c, dd, l)
           /\ Agree(s, f, g, l) => (Untouched(s, c, f, l) <=> Untouched(s, c, g, l))
           /\ Agree(s, f, g, l) /\ (l # 0 => Agree(s, f, g, l - 1)) /\ cc[l] = dd[l] =>
                  (DownRow(s, c, stress, cc, f, l) <=> DownRow(s, c, stress, dd, g, l))
           /\ cc[l] = dd[l] /\ cc[l - 1] = dd[l - 1] => (Coefficient(s, c, cc, l) <=> Coefficient(s, c, dd, l))
           /\ Agree(s, f, g, l) /\ (l # 0 => Agree(s, f, g, l - 1)) /\ (l # nz - 1 => Agree(s, f, g, l + 1)) =>
                  (FullRow(s, c, stress, f, l) <=> FullRow(s, c, stress, g, l))
  <1>1. \A i : cc[i] = dd[i] => Pivot(s, c, cc, i) = Pivot(s, c, dd, i)
    BY DEF Pivot, Kept
  <1>2. Agree(s, f, g, l) => (Untouched(s, c, f, l) <=> Untouched(s, c, g, l))
    BY DEF Untouched, Momentum, Agree
  <1>3. ASSUME Agree(s, f, g, l), l # 0 => Agree(s, f, g, l - 1), NEW name \in Solved(s)
        PROVE  /\ f[name][l] = g[name][l]
               /\ FromAbove(s, c, f[name], l) = FromAbove(s, c, g[name], l)
               /\ FromGiven(s, c, stress, name, f[name], l) = FromGiven(s, c, stress, name, g[name], l)
    BY <1>3 DEF Agree, FromAbove, FromGiven
  <1>4. Agree(s, f, g, l) /\ (l # 0 => Agree(s, f, g, l - 1)) /\ cc[l] = dd[l] =>
            (DownRow(s, c, stress, cc, f, l) <=> DownRow(s, c, stress, dd, g, l))
    BY <1>1, <1>3 DEF DownRow
  <1>5. cc[l] = dd[l] /\ cc[l - 1] = dd[l - 1] => (Coefficient(s, c, cc, l) <=> Coefficient(s, c, dd, l))
    BY <1>1 DEF Coefficient
  <1>6. ASSUME l # nz - 1 => Agree(s, f, g, l + 1), NEW name \in Solved(s)
        PROVE  FromBelow(s, c, f[name], l) = FromBelow(s, c, g[name], l)
    BY <1>6 DEF Agree, FromBelow
  <1>7. Agree(s, f, g, l) /\ (l # 0 => Agree(s, f, g, l - 1)) /\ (l # nz - 1 => Agree(s, f, g, l + 1)) =>
            (FullRow(s, c, stress, f, l) <=> FullRow(s, c, stress, g, l))
    BY <1>3, <1>6 DEF FullRow, RowIn
  <1> QED  BY <1>1, <1>2, <1>4, <1>5, <1>7

\* Down to the next layer, or back up from the bottom
LEMMA Proceeds ==
    ASSUME NEW s \in {"vertvisc_tridiag", "gl90", "remnant"}, NEW c \in Columns, NEW stress \in Fraction,
           NEW cc \in [Layers -> Fraction], NEW f \in [Unknowns -> [Layers -> Fraction]], NEW b, NEW d, NEW j \in Layers,
           \A l \in Layers : l <= j => DownRow(s, c, stress, cc, f, l),
           \A l \in Layers : 0 < l /\ l <= j => Coefficient(s, c, cc, l),
           \A l \in Layers : j < l => Untouched(s, c, f, l),
           Same(Times(Pivot(s, c, cc, j), b), One),
           Same(d, Minus(One, Times(Coupling(s, c, j + 1), b))),
           NEW p, NEW i, IF j = nz - 1 THEN p = "up" /\ i = j ELSE p = "down" /\ i = j + 1
    PROVE  SweepOK(p, i, s, c, stress, b, d, cc, f)
  <1>1. \A l \in Layers : l \in Int /\ l <= nz - 1
    BY NzAssumption DEF Layers
  <1>2. CASE j = nz - 1
    <2>1. p = "up" /\ i = j /\ i \in Int
      BY <1>1, <1>2
    <2>2. HalfRow(s, c, stress, cc, f, j)
      <3> SUFFICES ASSUME NEW name \in Solved(s)
                   PROVE  Same(Minus(Times(Pivot(s, c, cc, j), f[name][j]), FromBelow(s, c, f[name], j)),
                               FromGiven(s, c, stress, name, f[name], j))
        BY DEF HalfRow
      <3>1. name \in Unknowns /\ f[name] \in [Layers -> Fraction] /\ f[name][j] \in Fraction
        BY SolvedAreUnknowns
      <3>2. Times(Pivot(s, c, cc, j), f[name][j]) \in Fraction
        BY <3>1, PivotIsFraction, TimesIsFraction
      <3>3. FromGiven(s, c, stress, name, f[name], j) \in Fraction
        BY <3>1, FromGivenIsFraction
      <3>4. Same(Times(Pivot(s, c, cc, j), f[name][j]), FromGiven(s, c, stress, name, f[name], j))
        BY <1>1 DEF DownRow
      <3>5. FromBelow(s, c, f[name], j) = Zero
        BY <1>2 DEF FromBelow
      <3>6. Same(Minus(Times(Pivot(s, c, cc, j), f[name][j]), Zero), Times(Pivot(s, c, cc, j), f[name][j]))
        BY <3>2, NeutralZero
      <3>7. Minus(Times(Pivot(s, c, cc, j), f[name][j]), Zero) \in Fraction
        BY <3>2, ConstantFractions, PlusIsFraction
      <3> QED  BY <3>2, <3>3, <3>4, <3>5, <3>6, <3>7, SameTrans
    <2>3. \A l \in Layers : ~(i < l) /\ (l < i => l <= j) /\ l <= j
      BY <1>1, <1>2, <2>1
    <2> QED  BY <2>1, <2>2, <2>3 DEF SweepOK
  <1>3. CASE j # nz - 1
    <2>1. p = "down" /\ i = j + 1 /\ i \in Int /\ j \in Int /\ i - 1 = j
      BY <1>1, <1>3
    <2>2. \A l \in Layers : (l < i <=> l <= j) /\ (i <= l <=> j < l)
      BY <1>1, <2>1
    <2> QED  BY <2>1, <2>2 DEF SweepOK
  <1> QED  BY <1>2, <1>3

LEMMA SweepTop == TypeInv /\ SweepInv /\ EliminateTop => TypeInv' /\ SweepInv'
  <1> SUFFICES ASSUME TypeInv, SweepInv, EliminateTop
               PROVE  TypeInv' /\ SweepInv'
    OBVIOUS
  <1> DEFINE s == system   c == column   stress == surface_stress
             a == Coupling(s, c, 0)
             d == Denominator(s, c, a, 0)
             first == Plus(c.h[0], Plus(Drag(s, c, 0), a))
             next == [name \in Unknowns |-> Times(Reciprocal(d), Plus(Momentum(name, c, x, 0), StressOn(name, stress)))]
  <1>1. TypeInv'
    BY EliminateTopIsTyped
  <1>2. /\ s \in {"vertvisc_tridiag", "gl90", "remnant"} /\ c \in Columns /\ stress \in Fraction /\ 0 \in Layers
        /\ c1 \in [Layers -> Fraction] /\ x \in [Unknowns -> [Layers -> Fraction]] /\ x' \in [Unknowns -> [Layers -> Fraction]]
    BY <1>1, LayerFacts DEF TypeInv, VcTypeOK
  <1>3. /\ b1' = Reciprocal(d) /\ d1' = Times(first, Reciprocal(d))
        /\ x' = [name \in Unknowns |-> IF name \in Solved(s) THEN [x[name] EXCEPT ![0] = next[name]] ELSE x[name]]
        /\ UNCHANGED <<system, column, surface_stress, c1>>
    BY Zenon DEF EliminateTop, b1_of, Denominator
  <1>4. IF 0 = nz - 1 THEN pc' = "up" /\ k' = 0 ELSE pc' = "down" /\ k' = 0 + 1
    BY DEF EliminateTop, After
  <1>5. \A l \in Layers : Untouched(s, c, x, l)
    BY DEF EliminateTop, SweepInv, SweepOK
  <1>6. /\ \A name \in Solved(s) : name \in Unknowns /\ x'[name][0] = next[name]
        /\ \A l \in Layers : l # 0 => Agree(s, x', x, l)
    <2> HIDE DEF next
    <2> QED  BY <1>2, <1>3, LayerSet DEF Agree
  <1>7. Nonnegative(a) /\ a \in Fraction
    BY <1>2, ColumnParts, LayerFacts
  <1>8. Same(Times(Coupling(s, c, 0), Kept(c1, 0)), a)
    BY <1>7, NeutralZero DEF Kept
  <1> HIDE DEF a
  <1>9. /\ \A m \in Fraction : Same(Times(Pivot(s, c, c1, 0), Times(Reciprocal(d), m)), m)
        /\ Same(Times(Pivot(s, c, c1, 0), Reciprocal(d)), One)
        /\ Same(Times(first, Reciprocal(d)), Minus(One, Times(Coupling(s, c, 0 + 1), Reciprocal(d))))
    BY <1>2, <1>7, <1>8, LayerSolved
  <1> HIDE DEF d, first
  <1>10. DownRow(s, c, stress, c1, x', 0)
    <2> SUFFICES ASSUME NEW name \in Solved(s)
                 PROVE  Same(Times(Pivot(s, c, c1, 0), x'[name][0]), FromGiven(s, c, stress, name, x'[name], 0))
      BY DEF DownRow
    <2> DEFINE m == Momentum(name, c, x, 0)   t == StressOn(name, stress)   h == Times(c.h[0], StartIn(c, name)[0])
    <2>1. x'[name][0] = Times(Reciprocal(d), Plus(m, t)) /\ name \in Unknowns
      BY <1>6
    <2>2. m \in Fraction /\ t \in Fraction /\ h \in Fraction
      BY <1>2, <2>1, MomentumIsFraction, GivenIsFraction, ColumnParts, StartIsFraction, TimesIsFraction
    <2>3. Same(m, h)
      BY <1>2, <1>5 DEF Untouched
    <2>4. FromGiven(s, c, stress, name, x'[name], 0) = Plus(Plus(h, t), Zero)
      BY DEF FromGiven, Given, FromAbove
    <2> HIDE DEF m, t, h
    <2>5. Plus(m, t) \in Fraction /\ Plus(h, t) \in Fraction /\ Same(Plus(m, t), Plus(h, t))
      BY <2>2, <2>3, SameSelf, SamePlus
    <2>6. Same(Plus(h, t), Plus(Plus(h, t), Zero)) /\ Plus(Plus(h, t), Zero) \in Fraction
      BY <2>5, NeutralZero, SameSym, ConstantFractions, PlusIsFraction
    <2>7. Same(Plus(m, t), Plus(Plus(h, t), Zero))
      BY <2>5, <2>6, SameTrans
    <2>8. Same(Times(Pivot(s, c, c1, 0), Times(Reciprocal(d), Plus(m, t))), Plus(m, t))
      BY <1>9, <2>5
    <2>9. Times(Pivot(s, c, c1, 0), Times(Reciprocal(d), Plus(m, t))) \in Fraction
      <3>1. x'[name][0] \in Fraction
        BY <1>2, <2>1
      <3> QED  BY <1>2, <2>1, <3>1, PivotIsFraction, TimesIsFraction
    <2> QED  BY <2>1, <2>4, <2>5, <2>6, <2>7, <2>8, <2>9, SameTrans
  <1>11. \A l \in Layers : 0 < l => Untouched(s, c, x', l)
    BY <1>5, <1>6, RowsKept
  <1>12. \A l \in Layers : (l <= 0 => l = 0) /\ ~(0 < l /\ l <= 0)
    BY LayerFacts
  <1>13. SweepOK(pc', k', s, c, stress, b1', d1', c1, x')
    <2>1. \A l \in Layers : l <= 0 => DownRow(s, c, stress, c1, x', l)
      BY <1>10, <1>12
    <2>2. \A l \in Layers : 0 < l /\ l <= 0 => Coefficient(s, c, c1, l)
      BY <1>12
    <2>3. Same(Times(Pivot(s, c, c1, 0), b1'), One) /\ Same(d1', Minus(One, Times(Coupling(s, c, 0 + 1), b1')))
      BY <1>3, <1>9
    <2> QED  BY <1>2, <1>4, <1>11, <2>1, <2>2, <2>3, Proceeds
  <1> QED  BY <1>1, <1>3, <1>13 DEF SweepInv

LEMMA SweepNext == TypeInv /\ SweepInv /\ Eliminate => TypeInv' /\ SweepInv'
  <1> SUFFICES ASSUME TypeInv, SweepInv, Eliminate
               PROVE  TypeInv' /\ SweepInv'
    OBVIOUS
  <1> DEFINE s == system   c == column   stress == surface_stress
             a == Coupling(s, c, k)
             share == Times(a, d1)
             d == Denominator(s, c, share, k)
             first == Plus(c.h[k], Plus(Drag(s, c, k), share))
             next == [name \in Unknowns |-> Times(Plus(Momentum(name, c, x, k), Times(a, x[name][k - 1])), Reciprocal(d))]
  <1>1. TypeInv'
    BY EliminateIsTyped
  <1>2. /\ s \in {"vertvisc_tridiag", "gl90", "remnant"} /\ c \in Columns /\ stress \in Fraction
        /\ c1 \in [Layers -> Fraction] /\ c1' \in [Layers -> Fraction]
        /\ x \in [Unknowns -> [Layers -> Fraction]] /\ x' \in [Unknowns -> [Layers -> Fraction]]
        /\ b1 \in Fraction /\ d1 \in Fraction /\ Nonnegative(d1)
    BY <1>1 DEF TypeInv, VcTypeOK, ScratchOK, Eliminate
  <1>3. k \in Layers /\ k > 0 /\ k \in Int /\ k - 1 \in Layers /\ k - 1 # k /\ \A l \in Layers : l \in Int
    <2>1. k \in Layers /\ k > 0
      BY DEF TypeInv, VcTypeOK, ScratchOK, Eliminate
    <2> QED  BY <2>1, LayerFacts
  <1>4. /\ b1' = Reciprocal(d) /\ d1' = Times(first, Reciprocal(d))
        /\ c1' = [c1 EXCEPT ![k] = Times(a, b1)]
        /\ x' = [name \in Unknowns |-> IF name \in Solved(s) THEN [x[name] EXCEPT ![k] = next[name]] ELSE x[name]]
        /\ UNCHANGED <<system, column, surface_stress>>
    BY Zenon DEF Eliminate, b1_of, Denominator
  <1>5. IF k = nz - 1 THEN pc' = "up" /\ k' = k ELSE pc' = "down" /\ k' = k + 1
    BY DEF Eliminate, After
  <1>6. /\ \A l \in Layers : l < k => DownRow(s, c, stress, c1, x, l)
        /\ \A l \in Layers : 0 < l /\ l < k => Coefficient(s, c, c1, l)
        /\ \A l \in Layers : k <= l => Untouched(s, c, x, l)
        /\ Same(Times(Pivot(s, c, c1, k - 1), b1), One)
        /\ Same(d1, Minus(One, Times(a, b1)))
    BY DEF Eliminate, SweepInv, SweepOK
  <1>7. /\ \A name \in Solved(s) : name \in Unknowns /\ x'[name][k] = next[name]
        /\ \A l \in Layers : l # k => Agree(s, x', x, l)
    <2> HIDE DEF next
    <2> QED  BY <1>3, <1>4, LayerSet DEF Agree
  <1>8. c1'[k] = Times(a, b1) /\ \A l \in Layers : l # k => c1'[l] = c1[l]
    BY <1>2, <1>3, <1>4
  <1>9. Nonnegative(a) /\ a \in Fraction
    BY <1>2, <1>3, ColumnParts, LayerFacts
  <1> HIDE DEF a
  <1>10. Times(a, b1) \in Fraction /\ Nonnegative(share) /\ share \in Fraction /\ Minus(One, Times(a, b1)) \in Fraction
    BY <1>2, <1>9, TimesIsFraction, TimesOfShares, NonnegativeParts, ConstantFractions, PlusIsFraction
  <1>11. Same(Times(Coupling(s, c, k), Kept(c1', k)), share)
    <2>1. Kept(c1', k) = Minus(One, Times(a, b1))
      BY <1>3, <1>8 DEF Kept
    <2>2. Same(Minus(One, Times(a, b1)), d1)
      BY <1>2, <1>6, <1>10, SameSym
    <2>3. Same(Times(a, Minus(One, Times(a, b1))), share)
      BY <1>2, <1>9, <1>10, <2>2, SameSelf, SameTimes
    <2> QED  BY <2>1, <2>3 DEF a
  <1> HIDE DEF share
  <1>12. /\ \A m \in Fraction : Same(Times(Pivot(s, c, c1', k), Times(m, Reciprocal(d))), m)
         /\ Same(Times(Pivot(s, c, c1', k), Reciprocal(d)), One)
         /\ Same(Times(first, Reciprocal(d)), Minus(One, Times(Coupling(s, c, k + 1), Reciprocal(d))))
    BY <1>2, <1>3, <1>10, <1>11, LayerSolved
  <1> HIDE DEF d, first
  <1>13. DownRow(s, c, stress, c1', x', k)
    <2> SUFFICES ASSUME NEW name \in Solved(s)
                 PROVE  Same(Times(Pivot(s, c, c1', k), x'[name][k]), FromGiven(s, c, stress, name, x'[name], k))
      BY DEF DownRow
    <2> DEFINE m == Momentum(name, c, x, k)   t == Times(a, x[name][k - 1])   h == Times(c.h[k], StartIn(c, name)[k])
    <2>1. x'[name][k] = Times(Plus(m, t), Reciprocal(d)) /\ name \in Unknowns
      BY <1>7
    <2>2. m \in Fraction /\ t \in Fraction /\ h \in Fraction
      <3>1. x[name][k - 1] \in Fraction
        BY <1>2, <1>3, <2>1
      <3> QED  BY <1>2, <1>3, <1>9, <2>1, <3>1, MomentumIsFraction, ColumnParts, StartIsFraction, TimesIsFraction
    <2>3. Same(m, h)
      BY <1>3, <1>6 DEF Untouched
    <2>4. FromGiven(s, c, stress, name, x'[name], k) = Plus(Plus(h, Zero), t)
      <3>1. x'[name][k - 1] = x[name][k - 1] /\ k # 0
        BY <1>3, <1>7 DEF Agree
      <3> QED  BY <3>1 DEF FromGiven, Given, FromAbove, a
    <2> HIDE DEF m, t, h
    <2>5. Same(h, Plus(h, Zero)) /\ Plus(h, Zero) \in Fraction
      BY <2>2, NeutralZero, SameSym, ConstantFractions, PlusIsFraction
    <2>6. Same(m, Plus(h, Zero))
      BY <2>2, <2>3, <2>5, SameTrans
    <2>7. Same(Plus(m, t), Plus(Plus(h, Zero), t)) /\ Plus(m, t) \in Fraction /\ Plus(Plus(h, Zero), t) \in Fraction
      BY <2>2, <2>5, <2>6, SameSelf, SamePlus
    <2>8. Same(Times(Pivot(s, c, c1', k), Times(Plus(m, t), Reciprocal(d))), Plus(m, t))
      BY <1>12, <2>7
    <2>9. Times(Pivot(s, c, c1', k), Times(Plus(m, t), Reciprocal(d))) \in Fraction
      <3>1. x'[name][k] \in Fraction
        BY <1>2, <1>3, <2>1
      <3> QED  BY <1>2, <1>3, <2>1, <3>1, PivotIsFraction, TimesIsFraction
    <2> QED  BY <2>1, <2>4, <2>7, <2>8, <2>9, SameTrans
  <1>14. \A l \in Layers : l <= k => DownRow(s, c, stress, c1', x', l)
    <2> SUFFICES ASSUME NEW l \in Layers, l < k
                 PROVE  DownRow(s, c, stress, c1', x', l)
      BY <1>3, <1>13
    <2>1. l # k /\ (l # 0 => l - 1 \in Layers /\ l - 1 # k)
      BY <1>3, LayerFacts
    <2> QED  BY <1>6, <1>7, <1>8, <2>1, RowsKept
  <1>15. Coefficient(s, c, c1', k)
    <2>1. Pivot(s, c, c1', k - 1) = Pivot(s, c, c1, k - 1) /\ Pivot(s, c, c1, k - 1) \in Fraction
      BY <1>2, <1>3, <1>8, RowsKept, PivotIsFraction
    <2>2. Same(Times(Pivot(s, c, c1, k - 1), Times(a, b1)), a)
      BY <1>2, <1>6, <1>9, <2>1, UnitTimes
    <2> QED  BY <1>8, <2>1, <2>2 DEF Coefficient, a
  <1>16. \A l \in Layers : 0 < l /\ l <= k => Coefficient(s, c, c1', l)
    <2> SUFFICES ASSUME NEW l \in Layers, 0 < l, l < k
                 PROVE  Coefficient(s, c, c1', l)
      BY <1>3, <1>15
    <2>1. l # k /\ l - 1 \in Layers /\ l - 1 # k
      BY <1>3, LayerFacts
    <2> QED  BY <1>6, <1>8, <2>1, RowsKept
  <1>17. \A l \in Layers : k < l => Untouched(s, c, x', l)
    <2> SUFFICES ASSUME NEW l \in Layers, k < l
                 PROVE  Untouched(s, c, x', l)
      OBVIOUS
    <2>1. l # k /\ k <= l
      BY <1>3
    <2> QED  BY <1>6, <1>7, <2>1, RowsKept
  <1>18. SweepOK(pc', k', s, c, stress, b1', d1', c1', x')
    <2>1. Same(Times(Pivot(s, c, c1', k), b1'), One) /\ Same(d1', Minus(One, Times(Coupling(s, c, k + 1), b1')))
      BY <1>4, <1>12
    <2> QED  BY <1>2, <1>3, <1>5, <1>14, <1>16, <1>17, <2>1, Proceeds
  <1> QED  BY <1>1, <1>4, <1>18 DEF SweepInv

LEMMA DiagonalIs ==
    ASSUME NEW c \in Columns, NEW s, NEW cc \in [Layers -> Fraction], NEW l \in Layers
    PROVE  /\ Diagonal(s, c, l) \in Fraction
           /\ l # 0 => Same(Pivot(s, c, cc, l), Minus(Diagonal(s, c, l), Times(Coupling(s, c, l), cc[l])))
           /\ l = 0 => Same(Pivot(s, c, cc, l), Diagonal(s, c, l))
  <1>1. PICK h \in Fraction, r \in Fraction, a \in Fraction, b \in Fraction, e \in Fraction :
          /\ h = c.h[l] /\ r = Drag(s, c, l) /\ a = Coupling(s, c, l) /\ b = Coupling(s, c, l + 1) /\ e = cc[l]
    BY ColumnParts, LayerFacts
  <1>2. Diagonal(s, c, l) = Plus(Plus(h, r), Plus(a, b))
    BY <1>1 DEF Diagonal
  <1>3. l # 0 => Pivot(s, c, cc, l) = Plus(Plus(h, Plus(r, Times(a, Minus(One, e)))), b)
    BY <1>1 DEF Pivot, Denominator, Kept
  <1>4. l = 0 => Pivot(s, c, cc, l) = Plus(Plus(h, Plus(r, Times(a, One))), b)
    BY <1>1 DEF Pivot, Denominator, Kept
  <1>5. Plus(Plus(h, r), Plus(a, b)) \in Fraction
    BY PlusIsFraction
  <1>6. /\ Same(Plus(Plus(h, Plus(r, Times(a, Minus(One, e)))), b), Minus(Plus(Plus(h, r), Plus(a, b)), Times(a, e)))
        /\ Same(Plus(Plus(h, Plus(r, Times(a, One))), b), Plus(Plus(h, r), Plus(a, b)))
    BY DenominatorIs
  <1> QED  BY <1>1, <1>2, <1>3, <1>4, <1>5, <1>6

LEMMA SweepBack == TypeInv /\ SweepInv /\ BackSubstitute => TypeInv' /\ SweepInv'
  <1> SUFFICES ASSUME TypeInv, SweepInv, BackSubstitute
               PROVE  TypeInv' /\ SweepInv'
    OBVIOUS
  <1> DEFINE s == system   c == column   stress == surface_stress   j == k - 1
             a == Coupling(s, c, k)
             next == [name \in Unknowns |-> Plus(x[name][k - 1], Times(c1[k], x[name][k]))]
  <1>1. TypeInv'
    BY BackSubstituteIsTyped
  <1>2. /\ s \in {"vertvisc_tridiag", "gl90", "remnant"} /\ c \in Columns /\ stress \in Fraction
        /\ c1 \in [Layers -> Fraction]
        /\ x \in [Unknowns -> [Layers -> Fraction]] /\ x' \in [Unknowns -> [Layers -> Fraction]]
    BY <1>1 DEF TypeInv, VcTypeOK
  <1>3. k \in Layers /\ k > 0 /\ k \in Int /\ j \in Layers /\ j # k /\ j # nz - 1 /\ j + 1 = k /\ \A l \in Layers : l \in Int
    <2>1. k \in Layers /\ k > 0
      BY DEF TypeInv, VcTypeOK, BackSubstitute
    <2>2. k <= nz - 1 /\ nz \in Int
      BY <2>1, NzAssumption DEF Layers
    <2> QED  BY <2>1, <2>2, LayerFacts
  <1>4. /\ pc = "up" /\ pc' = "up" /\ k' = j
        /\ UNCHANGED <<system, column, surface_stress, b1, d1, c1>>
    BY DEF BackSubstitute
  <1>5. x' = [name \in Unknowns |-> IF name \in Solved(s) THEN [x[name] EXCEPT ![j] = next[name]] ELSE x[name]]
    BY <1>2, <1>3, Zenon DEF BackSubstitute
  <1>6. /\ \A l \in Layers : 0 < l => Coefficient(s, c, c1, l)
        /\ \A l \in Layers : l < k => DownRow(s, c, stress, c1, x, l)
        /\ HalfRow(s, c, stress, c1, x, k)
        /\ \A l \in Layers : k < l => FullRow(s, c, stress, x, l)
    BY <1>4 DEF SweepInv, SweepOK
  <1>7. /\ \A name \in Solved(s) : name \in Unknowns /\ x'[name][j] = next[name]
        /\ \A l \in Layers : l # j => Agree(s, x', x, l)
    <2> HIDE DEF next
    <2> QED  BY <1>3, <1>5, LayerSet DEF Agree
  <1>8. a \in Fraction
    BY <1>2, <1>3, ColumnParts, LayerFacts
  <1> HIDE DEF a
  <1>9. Pivot(s, c, c1, j) \in Fraction /\ Pivot(s, c, c1, k) \in Fraction /\ c1[k] \in Fraction
    BY <1>2, <1>3, PivotIsFraction
  <1>10. ASSUME NEW name \in Solved(s)
         PROVE  /\ name \in Unknowns /\ x[name] \in [Layers -> Fraction] /\ x'[name] \in [Layers -> Fraction]
                /\ x'[name][j] = Plus(x[name][j], Times(c1[k], x[name][k]))
                /\ x[name][j] \in Fraction /\ x[name][k] \in Fraction
                /\ \A l \in Layers : l # j => x'[name][l] = x[name][l]
    <2>1. name \in Unknowns /\ x'[name][j] = next[name]
      BY <1>7
    <2>2. \A l \in Layers : l # j => x'[name][l] = x[name][l]
      BY <1>7 DEF Agree
    <2> QED  BY <1>2, <1>3, <2>1, <2>2
  <1>11. HalfRow(s, c, stress, c1, x', j)
    <2> SUFFICES ASSUME NEW name \in Solved(s)
                 PROVE  Same(Minus(Times(Pivot(s, c, c1, j), x'[name][j]), FromBelow(s, c, x'[name], j)),
                             FromGiven(s, c, stress, name, x'[name], j))
      BY DEF HalfRow
    <2>1. FromBelow(s, c, x'[name], j) = Times(a, x[name][k])
      BY <1>3, <1>10 DEF FromBelow, a
    <2>2. FromGiven(s, c, stress, name, x'[name], j) = FromGiven(s, c, stress, name, x[name], j)
      <3>1. j # 0 => j - 1 \in Layers /\ j - 1 # j
        BY <1>3, LayerFacts
      <3> QED  BY <1>10, <3>1 DEF FromGiven, FromAbove
    <2>3. FromGiven(s, c, stress, name, x[name], j) \in Fraction
      BY <1>2, <1>3, <1>10, FromGivenIsFraction
    <2>4. Same(Times(Pivot(s, c, c1, j), x[name][j]), FromGiven(s, c, stress, name, x[name], j))
      <3>1. DownRow(s, c, stress, c1, x, j)
        BY <1>3, <1>6
      <3> QED  BY <3>1 DEF DownRow
    <2>5. Same(Times(Pivot(s, c, c1, j), c1[k]), a)
      BY <1>3, <1>6 DEF Coefficient, a
    <2> HIDE DEF j
    <2>6. Same(Minus(Times(Pivot(s, c, c1, j), Plus(x[name][j], Times(c1[k], x[name][k]))), Times(a, x[name][k])),
               FromGiven(s, c, stress, name, x[name], j))
      BY <1>8, <1>9, <1>10, <2>3, <2>4, <2>5, HalfRowAbove
    <2> QED  BY <1>10, <2>1, <2>2, <2>6
  <1>12. FullRow(s, c, stress, x', k)
    <2> SUFFICES ASSUME NEW name \in Solved(s)
                 PROVE  Same(RowIn(s, c, x'[name], k), Given(name, c, stress, k))
      BY DEF FullRow
    <2>1. FromAbove(s, c, x'[name], k) = Times(a, Plus(x[name][j], Times(c1[k], x[name][k])))
      BY <1>3, <1>10 DEF FromAbove, a
    <2>2. FromBelow(s, c, x'[name], k) = FromBelow(s, c, x[name], k) /\ x'[name][k] = x[name][k]
      <3>1. k # nz - 1 => k + 1 \in Layers /\ k + 1 # j
        BY <1>3, LayerFacts
      <3> QED  BY <1>3, <1>10, <3>1 DEF FromBelow
    <2>3. FromBelow(s, c, x[name], k) \in Fraction /\ Given(name, c, stress, k) \in Fraction
      BY <1>2, <1>3, <1>10, NeighboursAreFractions, GivenIsFraction
    <2>4. Same(Minus(Times(Pivot(s, c, c1, k), x[name][k]), FromBelow(s, c, x[name], k)),
               Plus(Given(name, c, stress, k), Times(a, x[name][j])))
      BY <1>3, <1>6 DEF HalfRow, FromGiven, FromAbove, a
    <2>5. Diagonal(s, c, k) \in Fraction /\ Same(Pivot(s, c, c1, k), Minus(Diagonal(s, c, k), Times(a, c1[k])))
      BY <1>2, <1>3, DiagonalIs DEF a
    <2> HIDE DEF j
    <2>6. Same(Minus(Times(Diagonal(s, c, k), x[name][k]),
                     Plus(Times(a, Plus(x[name][j], Times(c1[k], x[name][k]))), FromBelow(s, c, x[name], k))),
               Given(name, c, stress, k))
      BY <1>8, <1>9, <1>10, <2>3, <2>4, <2>5, RowCloses
    <2> QED  BY <2>1, <2>2, <2>6 DEF RowIn
  <1>13. \A l \in Layers : j < l => FullRow(s, c, stress, x', l)
    <2> SUFFICES ASSUME NEW l \in Layers, k < l
                 PROVE  FullRow(s, c, stress, x', l)
      BY <1>3, <1>12
    <2>1. l # j /\ l - 1 \in Layers /\ l - 1 # j /\ (l # nz - 1 => l + 1 \in Layers /\ l + 1 # j)
      BY <1>3, LayerFacts
    <2> QED  BY <1>6, <1>7, <2>1, RowsKept
  <1>14. \A l \in Layers : l < j => DownRow(s, c, stress, c1, x', l)
    <2> SUFFICES ASSUME NEW l \in Layers, l < j
                 PROVE  DownRow(s, c, stress, c1, x', l)
      OBVIOUS
    <2>1. l < k /\ l # j /\ (l # 0 => l - 1 \in Layers /\ l - 1 # j)
      BY <1>3, LayerFacts
    <2> QED  BY <1>6, <1>7, <2>1, RowsKept
  <1>15. SweepOK("up", j, s, c, stress, b1, d1, c1, x')
    BY <1>6, <1>11, <1>13, <1>14 DEF SweepOK
  <1> QED  BY <1>1, <1>4, <1>15 DEF SweepInv

-----------------------------------------------------------------------------
\* The wind

LEMMA SweepInit == Init => SweepInv
  <1> SUFFICES ASSUME Init
               PROVE  SweepInv
    OBVIOUS
  <1>1. pc \in {"hold", "top"} /\ (pc = "top" => system = "remnant") /\ column \in Columns
    BY DEF Init
  <1>2. ASSUME NEW l \in Layers
        PROVE  Untouched("remnant", column, x, l)
    <2>1. Solved("remnant") = {"visc_rem_u"}
      BY DEF Solved
    <2>2. StartIn(column, "visc_rem_u")[l] = One
      BY StartOf DEF AllLayers
    <2>3. Times(column.h[l], One) \in Fraction /\ column.h[l] \in Fraction
      BY <1>1, ColumnParts, ConstantFractions, TimesIsFraction
    <2>4. Same(column.h[l], Times(column.h[l], One))
      BY <2>3, NeutralZero, SameSym
    <2> QED  BY <2>1, <2>2, <2>4 DEF Untouched, Momentum
  <1> QED  BY <1>1, <1>2 DEF SweepInv, SweepOK

\* The parts of the force that hfr and WithinHmix give
LEMMA ForceWithin ==
    ASSUME NEW z \in Fraction, NEW zt \in Fraction, NEW z2 \in Fraction, NEW h, Positive(h), NEW stress \in Fraction,
           Same(z, zt), Same(z2, Plus(h, zt)), Below(z, Hmix),
           NEW share, share = IF Below(Hmix, Plus(z, h)) THEN Times(Minus(Hmix, z), Reciprocal(h)) ELSE One
    PROVE  Same(Times(Times(Reciprocal(Hmix), share), stress),
                Times(Times(Minus(WithinHmix(z2), WithinHmix(zt)), Reciprocal(Times(Hmix, h))), stress))
  <1> DEFINE within == Minus(WithinHmix(z2), WithinHmix(zt))
  <1>1. Positive(Hmix) /\ Hmix \in Fraction /\ h \in Fraction
    BY ConstantFractions, NonnegativeParts
  <1>0. PICK e \in Int : Over(z, e) /\ Over(zt, e) /\ Over(z2, e) /\ Over(h, e) /\ Over(Hmix, e) /\ Over(stress, e)
    <2>1. PICK e1 \in Int : e1 > 0 /\ Over(z, e1) /\ Over(zt, e1) /\ Over(z2, e1)
      BY CommonOver
    <2>2. PICK e2 \in Int : e2 > 0 /\ Over(h, e2) /\ Over(Hmix, e2) /\ Over(stress, e2)
      BY <1>1, CommonOver
    <2> QED  BY <2>1, <2>2, OverProduct
  <1> DEFINE Z == Num(z, e)   ZT == Num(zt, e)   Z2 == Num(z2, e)   H == Num(h, e)   M == Num(Hmix, e)   T == Num(stress, e)
  <1>2. /\ e > 0 /\ Z \in Int /\ ZT \in Int /\ Z2 \in Int /\ H \in Int /\ M \in Int /\ T \in Int
        /\ Val(z, Z, e) /\ Val(zt, ZT, e) /\ Val(z2, Z2, e) /\ Val(h, H, e) /\ Val(Hmix, M, e) /\ Val(stress, T, e)
    BY <1>0 DEF Over
  <1> HIDE DEF Z, ZT, Z2, H, M, T
  <1>3. H > 0 /\ M > 0
    BY <1>1, <1>2, ValSign
  <1>4. Val(Plus(h, zt), H + ZT, e) /\ Val(Plus(z, h), Z + H, e) /\ Val(Minus(Hmix, z), M - Z, e)
    BY <1>2, ValPlus
  <1>5. ZT = Z /\ Z2 = H + Z
    BY <1>2, <1>4, ValOrder
  <1>6. Z < M
    <2>1. ~AtMost(Hmix, z)
      BY <1>1, FractionParts DEF Below, AtMost
    <2> QED  BY <1>2, <2>1, ValOrder
  <1>7. Below(Hmix, Plus(z, h)) <=> M < Z + H
    <2>1. Plus(z, h) \in Fraction
      BY <1>1, PlusIsFraction
    <2>2. Below(Hmix, Plus(z, h)) <=> ~AtMost(Plus(z, h), Hmix)
      BY <1>1, <2>1, FractionParts DEF Below, AtMost
    <2> QED  BY <1>2, <1>4, <2>2, ValOrder
  <1> DEFINE n == IF M < Z + H THEN M - Z ELSE H
  <1>8. n \in Int
    BY <1>2
  <1>9. Val(WithinHmix(zt), Z, e) /\ Val(WithinHmix(z2), Z + n, e)
    <2>1. ~AtMost(Hmix, zt)
      BY <1>2, <1>5, <1>6, ValOrder
    <2>2. AtMost(Hmix, z2) <=> M <= Z + H
      BY <1>2, <1>5, ValOrder
    <2>3. CASE M <= Z + H
      <3>1. Z + n = M
        BY <1>2, <2>3
      <3> QED  BY <1>2, <1>5, <2>1, <2>2, <2>3, <3>1 DEF WithinHmix
    <2>4. CASE ~(M <= Z + H)
      <3>1. Z + n = Z2
        BY <1>2, <1>5, <2>4
      <3> QED  BY <1>2, <1>5, <2>1, <2>2, <2>4, <3>1 DEF WithinHmix
    <2> QED  BY <2>3, <2>4
  <1>10. Val(within, n, e)
    <2>1. Val(within, (Z + n) - Z, e)
      BY <1>9, ValPlus
    <2>2. (Z + n) - Z = n
      BY <1>2, <1>8
    <2> QED  BY <2>1, <2>2
  <1>11. Val(Reciprocal(Hmix), e, M) /\ Val(Reciprocal(h), e, H)
    BY <1>2, <1>3, ValReciprocal
  <1>12. Val(share, n * e, e * H)
    <2>1. CASE M < Z + H
      BY <1>4, <1>7, <1>11, <2>1, ValTimes
    <2>2. CASE ~(M < Z + H)
      <3>1. share = One /\ n = H
        BY <1>7, <2>2
      <3>2. e * H > 0 /\ e * H \in Int /\ H * e = e * H
        BY <1>2, <1>3, SignOfProduct
      <3> QED  BY <3>1, <3>2, ValOfNumbers
    <2> QED  BY <2>1, <2>2
  <1> HIDE DEF within, n
  <1>13. Val(Times(Times(Reciprocal(Hmix), share), stress), (e * (n * e)) * T, (M * (e * H)) * e)
    BY <1>2, <1>11, <1>12, ValTimes
  <1>14. Val(Times(Hmix, h), M * H, e * e) /\ M * H > 0
    BY <1>2, <1>3, ValTimes, SignOfProduct
  <1>15. Val(Reciprocal(Times(Hmix, h)), e * e, M * H)
    BY <1>14, ValReciprocal
  <1>16. Val(Times(Times(within, Reciprocal(Times(Hmix, h))), stress), (n * (e * e)) * T, (e * (M * H)) * e)
    BY <1>2, <1>10, <1>15, ValTimes
  <1>17. (e * (n * e)) * T = (n * (e * e)) * T /\ (M * (e * H)) * e = (e * (M * H)) * e
    BY <1>2, <1>8
  <1> QED  BY <1>13, <1>16, <1>17, ValOrder DEF within


LEMMA PlusCommutes ==
    ASSUME NEW p \in Fraction, NEW q \in Fraction
    PROVE  Same(Plus(p, q), Plus(q, p))
  <1>1. PICK e \in Int, n \in Int, m \in Int : e > 0 /\ Val(p, n, e) /\ Val(q, m, e)
    BY Two
  <1>2. Val(Plus(p, q), n + m, e) /\ Val(Plus(q, p), m + n, e)
    BY <1>1, ValPlus
  <1>3. n + m = m + n
    OBVIOUS
  <1> QED  BY <1>2, <1>3, ValOrder

LEMMA AboveGrows ==
    ASSUME NEW c \in Columns, NEW i \in Interfaces
    PROVE  \A j \in Interfaces : i <= j => AtMost(Above(c, i), Above(c, j))
  <1> DEFINE S == {j \in Interfaces : i <= j /\ ~AtMost(Above(c, i), Above(c, j))}
  <1> SUFFICES ASSUME S # {} PROVE FALSE
    OBVIOUS
  <1>1. S \in SUBSET Nat
    BY NzAssumption DEF Interfaces
  <1>2. PICK m \in S : \A n \in S : m <= n
    <2> HIDE DEF S
    <2> QED  BY <1>1, LeastNatural
  <1>3. m \in Interfaces /\ i <= m /\ ~AtMost(Above(c, i), Above(c, m))
    BY <1>2
  <1>4. Above(c, i) \in Fraction /\ Above(c, m) \in Fraction
    BY <1>3, AboveFacts
  <1>5. m # i
    BY <1>3, <1>4, AtMostItself
  <1>6. PICK l \in Layers : m = l + 1 /\ l \in Interfaces /\ l < m /\ i <= l
    <2> HIDE DEF S
    <2>1. m \in 0 .. nz /\ nz \in Nat /\ i \in 0 .. nz
      BY <1>3, NzAssumption DEF Interfaces
    <2>2. m - 1 \in 0 .. nz - 1 /\ m - 1 \in 0 .. nz /\ m = (m - 1) + 1 /\ m - 1 < m /\ i <= m - 1
      BY <1>3, <1>5, <2>1
    <2> QED  BY <2>2 DEF Layers, Interfaces
  <1>7. AtMost(Above(c, i), Above(c, l))
    <2>1. l \in Int /\ m \in Int
      BY <1>1, <1>6, LayerFacts
    <2>2. l \notin S
      <3> HIDE DEF S
      <3> QED  BY <1>2, <1>6, <2>1
    <2> QED  BY <1>6, <2>2
  <1> HIDE DEF S
  <1>8. PICK p \in Fraction, q \in Fraction, h \in Fraction : p = Above(c, l) /\ q = Above(c, m) /\ Nonnegative(h) /\ Same(q, Plus(h, p))
    <2>1. Same(Above(c, l + 1), Plus(c.h_avg[l], Above(c, l))) /\ Above(c, l) \in Fraction
      BY <1>6, AboveFacts
    <2>2. Nonnegative(c.h_avg[l])
      BY ColumnParts, NonnegativeParts
    <2>3. c.h_avg[l] \in Fraction
      BY <2>2, NonnegativeParts
    <2> QED  BY <1>4, <1>6, <2>1, <2>2, <2>3
  <1>9. AtMost(p, Plus(h, p)) /\ Plus(h, p) \in Fraction
    BY <1>8, AtMostPlus, NonnegativeParts, PlusIsFraction
  <1>10. AtMost(Plus(h, p), q)
    BY <1>8, <1>9, SameIsAtMost
  <1> QED  BY <1>3, <1>4, <1>7, <1>8, <1>9, <1>10, AtMostTrans

\* Below Hmix there is no wind
LEMMA NoForceBelow ==
    ASSUME NEW c \in Columns, NEW i \in Interfaces, AtMost(Hmix, Above(c, i)), NEW l \in Layers, i <= l
    PROVE  Same(BodyForce(c)[l], Zero)
  <1>1. Hmix \in Fraction /\ Positive(Hmix) /\ i \in Int /\ l \in Int /\ l \in Interfaces /\ l + 1 \in Interfaces /\ Zero \in Fraction
    BY ConstantFractions, NonnegativeParts, LayerFacts DEF Interfaces
  <1>2. AtMost(Hmix, Above(c, l)) /\ AtMost(Hmix, Above(c, l + 1))
    <2>1. i <= l + 1
      BY <1>1
    <2>2. AtMost(Above(c, i), Above(c, l)) /\ AtMost(Above(c, i), Above(c, l + 1))
      BY <1>1, <2>1, AboveGrows
    <2> QED  BY <1>1, <2>2, AboveFacts, AtMostTrans
  <1>3. PICK r \in Fraction : r = Reciprocal(Times(Hmix, c.h_avg[l]))
    BY <1>1, ColumnParts, NonnegativeParts, TimesOfShares, ReciprocalOfPositive
  <1>4. BodyForce(c)[l] = Times(Times(Minus(Hmix, Hmix), r), c.stress)
    BY <1>2, <1>3 DEF BodyForce, WithinHmix
  <1>5. Same(Minus(Hmix, Hmix), Zero) /\ Minus(Hmix, Hmix) \in Fraction /\ Same(Times(Zero, r), Zero)
    BY <1>1, NeutralZero, PlusIsFraction
  <1>6. Same(Times(Minus(Hmix, Hmix), r), Times(Zero, r)) /\ Times(Minus(Hmix, Hmix), r) \in Fraction /\ Times(Zero, r) \in Fraction
    BY <1>1, <1>5, SameSelf, SameTimes
  <1>7. Same(Times(Minus(Hmix, Hmix), r), Zero)
    BY <1>1, <1>5, <1>6, SameTrans
  <1>8. c.stress \in Fraction /\ Same(c.stress, c.stress) /\ Same(Times(Zero, c.stress), Zero)
    BY ColumnParts, SameSelf, NeutralZero
  <1>9. /\ Same(Times(Times(Minus(Hmix, Hmix), r), c.stress), Times(Zero, c.stress))
        /\ Times(Times(Minus(Hmix, Hmix), r), c.stress) \in Fraction /\ Times(Zero, c.stress) \in Fraction
    BY <1>1, <1>6, <1>7, <1>8, SameTimes
  <1> QED  BY <1>1, <1>4, <1>8, <1>9, SameTrans

\* What the solve for the velocity starts from
LEMMA VelocityUntouched ==
    ASSUME NEW c \in Columns, NEW f \in [Unknowns -> [Layers -> Fraction]], NEW l \in Layers,
           Same(f["u"][l], Velocity(c)[l]), Same(f["du_dt_str"][l], OfTheWind(c)[l])
    PROVE  Untouched("vertvisc_tridiag", c, f, l)
  <1>1. Solved("vertvisc_tridiag") = {"u", "du_dt_str"} /\ "u" \in Unknowns /\ "du_dt_str" \in Unknowns
    BY DEF Solved, Unknowns
  <1>2. f["u"][l] \in Fraction /\ f["du_dt_str"][l] \in Fraction /\ c.h[l] \in Fraction /\ Same(c.h[l], c.h[l])
    BY <1>1, ColumnParts, SameSelf
  <1>3. Velocity(c)[l] \in Fraction /\ OfTheWind(c)[l] \in Fraction
    BY <1>1, StartOf, StartIsFraction
  <1>4. /\ Same(Times(c.h[l], f["u"][l]), Times(c.h[l], Velocity(c)[l]))
        /\ Same(Times(c.h[l], f["du_dt_str"][l]), Times(c.h[l], OfTheWind(c)[l]))
    BY <1>2, <1>3, SameTimes
  <1> QED  BY <1>1, <1>4, StartOf DEF Untouched, Momentum

WindReady == (pc = "wind" => system = "vertvisc_tridiag")

LEMMA ForceOfStep ==
    ASSUME TypeInv, WindInv, ApplyBodyForce
    PROVE  /\ k \in Layers /\ column \in Columns /\ zDS' \in Fraction /\ x' \in [Unknowns -> [Layers -> Fraction]]
           /\ Same(zDS', Above(column, k + 1))
           /\ Same(x'["u"][k], Plus(column.u[k], BodyForce(column)[k]))
           /\ Same(x'["du_dt_str"][k], BodyForce(column)[k])
           /\ \A l \in Layers : l # k => x'["u"][l] = x["u"][l] /\ x'["du_dt_str"][l] = x["du_dt_str"][l]
           /\ x'["du_dt_visc_gl90"] = x["du_dt_visc_gl90"] /\ x'["visc_rem_u"] = x["visc_rem_u"]
  <1> DEFINE c == column
             h == c.h_avg[k]
             share == hfr(h)
             force == Times(Times(Reciprocal(Hmix), share), c.stress)
  <1>1. k \in Layers /\ c \in Columns /\ zDS \in Fraction /\ x \in [Unknowns -> [Layers -> Fraction]]
    BY DEF TypeInv, VcTypeOK
  <1>2. zDS' \in Fraction /\ x' \in [Unknowns -> [Layers -> Fraction]]
    BY BodyForceIsTyped DEF TypeInv, VcTypeOK
  <1>3. /\ x' = [x EXCEPT !["u"][k] = Plus(@, force), !["du_dt_str"][k] = force] /\ zDS' = Plus(zDS, h)
        /\ pc = "wind" /\ c.direct_stress
    BY Zenon DEF ApplyBodyForce
  <1>4. Same(zDS, Above(c, k)) /\ Below(zDS, Hmix) /\ x["u"][k] = c.u[k]
    <2>1. k <= k
      BY <1>1, LayerFacts
    <2> QED  BY <1>1, <1>3, <2>1 DEF WindInv, WindSoFar
  <1>5. Positive(h) /\ h \in Fraction /\ c.u[k] \in Fraction /\ c.stress \in Fraction
    BY <1>1, ColumnParts
  <1>6. /\ Above(c, k) \in Fraction /\ Above(c, k + 1) \in Fraction /\ Same(Above(c, k + 1), Plus(h, Above(c, k)))
    BY <1>1, AboveFacts, LayerFacts
  <1>7. share = IF Below(Hmix, Plus(zDS, h)) THEN Times(Minus(Hmix, zDS), Reciprocal(h)) ELSE One
    BY DEF hfr
  <1>8. Same(force, BodyForce(c)[k])
    <2>1. BodyForce(c)[k] = Times(Times(Minus(WithinHmix(Above(c, k + 1)), WithinHmix(Above(c, k))), Reciprocal(Times(Hmix, h))), c.stress)
      BY <1>1 DEF BodyForce
    <2> HIDE DEF share, h
    <2>2. Same(force, Times(Times(Minus(WithinHmix(Above(c, k + 1)), WithinHmix(Above(c, k))), Reciprocal(Times(Hmix, h))), c.stress))
      BY <1>1, <1>4, <1>5, <1>6, <1>7, ForceWithin
    <2> QED  BY <2>1, <2>2
  <1>9. BodyForce(c)[k] \in Fraction
    BY <1>1, BodyForceIsFraction
  <1>10. Same(zDS', Above(c, k + 1))
    <2> HIDE DEF h
    <2>1. Same(Plus(h, zDS), Plus(h, Above(c, k))) /\ Plus(h, zDS) \in Fraction /\ Plus(h, Above(c, k)) \in Fraction
      BY <1>1, <1>4, <1>5, <1>6, SameSelf, SamePlus
    <2>2. Same(Plus(zDS, h), Plus(h, zDS))
      BY <1>1, <1>5, PlusCommutes
    <2>3. Same(Plus(h, Above(c, k)), Above(c, k + 1))
      BY <1>6, <2>1, SameSym
    <2> QED  BY <1>2, <1>3, <1>6, <2>1, <2>2, <2>3, SameTrans
  <1> HIDE DEF share, h
  <1>11. force \in Fraction
    <2>1. x'["du_dt_str"][k] = force
      <3> HIDE DEF force
      <3> QED  BY <1>1, <1>3 DEF Unknowns
    <2> QED  BY <1>1, <1>2, <2>1 DEF Unknowns
  <1> HIDE DEF force
  <1>12. PICK after \in Fraction : after = Plus(x["u"][k], force)
    BY <1>4, <1>5, <1>11, PlusIsFraction
  <1>13. x' = [x EXCEPT !["u"][k] = after, !["du_dt_str"][k] = force]
    BY <1>3, <1>12
  <1>14. /\ x'["u"][k] = after /\ x'["du_dt_str"][k] = force
         /\ \A l \in Layers : l # k => x'["u"][l] = x["u"][l] /\ x'["du_dt_str"][l] = x["du_dt_str"][l]
         /\ x'["du_dt_visc_gl90"] = x["du_dt_visc_gl90"] /\ x'["visc_rem_u"] = x["visc_rem_u"]
    BY <1>1, <1>13 DEF Unknowns
  <1>15. Same(after, Plus(c.u[k], BodyForce(c)[k]))
    BY <1>4, <1>5, <1>8, <1>9, <1>11, <1>12, SameSelf, SamePlus
  <1> QED  BY <1>1, <1>2, <1>8, <1>10, <1>14, <1>15

LEMMA SweepBodyForce == TypeInv /\ WindInv /\ WindReady /\ ApplyBodyForce => WindInv' /\ SweepInv'
  <1> SUFFICES ASSUME TypeInv, WindInv, WindReady, ApplyBodyForce
               PROVE  WindInv' /\ SweepInv'
    OBVIOUS
  <1>1. /\ k \in Layers /\ column \in Columns /\ zDS' \in Fraction /\ x' \in [Unknowns -> [Layers -> Fraction]]
        /\ Same(zDS', Above(column, k + 1))
        /\ Same(x'["u"][k], Plus(column.u[k], BodyForce(column)[k]))
        /\ Same(x'["du_dt_str"][k], BodyForce(column)[k])
        /\ \A l \in Layers : l # k => x'["u"][l] = x["u"][l] /\ x'["du_dt_str"][l] = x["du_dt_str"][l]
    BY ForceOfStep
  <1>2. /\ pc = "wind" /\ column.direct_stress /\ UNCHANGED <<system, column>>
        /\ IF k = nz - 1 \/ AtMost(Hmix, zDS') THEN pc' = "top" /\ k' = 0 ELSE k' = k + 1 /\ pc' = "wind"
    BY DEF ApplyBodyForce
  <1>3. /\ \A l \in Layers : l < k =>
              /\ Same(x["u"][l], Plus(column.u[l], BodyForce(column)[l]))
              /\ Same(x["du_dt_str"][l], BodyForce(column)[l])
        /\ \A l \in Layers : k <= l => x["u"][l] = column.u[l] /\ x["du_dt_str"][l] = Zero
    BY <1>2 DEF WindInv, WindSoFar
  <1>4. \A l \in Layers : l <= k =>
              /\ Same(x'["u"][l], Plus(column.u[l], BodyForce(column)[l]))
              /\ Same(x'["du_dt_str"][l], BodyForce(column)[l])
    <2> SUFFICES ASSUME NEW l \in Layers, l < k
                 PROVE  /\ Same(x'["u"][l], Plus(column.u[l], BodyForce(column)[l]))
                        /\ Same(x'["du_dt_str"][l], BodyForce(column)[l])
      BY <1>1, LayerFacts
    <2>1. l # k
      BY <1>1, LayerFacts
    <2> QED  BY <1>1, <1>3, <2>1
  <1>5. \A l \in Layers : k < l => x'["u"][l] = column.u[l] /\ x'["du_dt_str"][l] = Zero
    <2> SUFFICES ASSUME NEW l \in Layers, k < l
                 PROVE  x'["u"][l] = column.u[l] /\ x'["du_dt_str"][l] = Zero
      OBVIOUS
    <2>1. l # k /\ k <= l
      BY <1>1, LayerFacts
    <2> QED  BY <1>1, <1>3, <2>1
  <1>6. Hmix \in Fraction /\ Zero \in Fraction
    BY ConstantFractions, NonnegativeParts
  <1>7. CASE k = nz - 1 \/ AtMost(Hmix, zDS')
    <2>1. pc' = "top" /\ system = "vertvisc_tridiag"
      BY <1>2, <1>7 DEF WindReady
    <2>2. ASSUME NEW l \in Layers
          PROVE  Untouched("vertvisc_tridiag", column, x', l)
      <3> DEFINE force == BodyForce(column)[l]   u == column.u[l]
      <3>1. force \in Fraction /\ u \in Fraction /\ x'["u"][l] \in Fraction /\ x'["du_dt_str"][l] \in Fraction
        BY <1>1, BodyForceIsFraction, ColumnParts DEF Unknowns
      <3>2. Velocity(column)[l] = Plus(u, force) /\ OfTheWind(column)[l] = Plus(Zero, force)
        BY <1>2 DEF Velocity, OfTheWind
      <3> HIDE DEF force, u
      <3>3. Plus(Zero, force) \in Fraction /\ Same(force, Plus(Zero, force)) /\ Plus(u, force) \in Fraction
        BY <1>6, <3>1, NeutralZero, SameSym, PlusIsFraction
      <3>4. Same(x'["u"][l], Plus(u, force)) /\ Same(x'["du_dt_str"][l], force)
        <4>1. CASE l <= k
          BY <1>4, <4>1 DEF force, u
        <4>2. CASE k < l
          <5>1. k + 1 <= l /\ k + 1 \in Interfaces /\ k # nz - 1
            BY <1>1, <4>2, LayerFacts, NzAssumption DEF Layers
          <5>2. AtMost(Hmix, Above(column, k + 1))
            <6>1. AtMost(zDS', Above(column, k + 1)) /\ AtMost(Hmix, zDS') /\ Above(column, k + 1) \in Fraction
              BY <1>1, <1>7, <5>1, AboveFacts, SameIsAtMost
            <6> QED  BY <1>1, <1>6, <6>1, AtMostTrans
          <5>3. Same(force, Zero)
            BY <1>1, <5>1, <5>2, NoForceBelow DEF force
          <5>4. x'["u"][l] = u /\ x'["du_dt_str"][l] = Zero
            BY <1>5, <4>2 DEF u
          <5>5. Same(Zero, force)
            BY <1>6, <3>1, <5>3, SameSym
          <5>6. Same(Plus(u, Zero), Plus(u, force)) /\ Same(u, Plus(u, Zero)) /\ Plus(u, Zero) \in Fraction
            BY <1>6, <3>1, <5>5, NeutralZero, SameSelf, SamePlus, SameSym
          <5> QED  BY <3>1, <3>3, <5>4, <5>5, <5>6, SameTrans
        <4> QED  BY <1>1, <4>1, <4>2, LayerFacts
      <3>5. Same(x'["du_dt_str"][l], Plus(Zero, force))
        BY <3>1, <3>3, <3>4, SameTrans
      <3> QED  BY <1>1, <3>2, <3>4, <3>5, VelocityUntouched
    <2> QED  BY <1>2, <2>1, <2>2 DEF WindInv, WindSoFar, SweepInv, SweepOK
  <1>8. CASE ~(k = nz - 1 \/ AtMost(Hmix, zDS'))
    <2>1. pc' = "wind" /\ k' = k + 1
      BY <1>2, <1>8
    <2>2. Below(zDS', Hmix)
      BY <1>1, <1>6, <1>8, FractionParts DEF AtMost, Below
    <2>3. \A l \in Layers : (l < k + 1 <=> l <= k) /\ (k + 1 <= l <=> k < l)
      BY <1>1, LayerFacts
    <2> QED  BY <1>1, <1>2, <1>4, <1>5, <2>1, <2>2, <2>3 DEF WindInv, WindSoFar, SweepInv, SweepOK
  <1> QED  BY <1>7, <1>8

LEMMA SweepSurfaceStress == TypeInv /\ WindInv /\ WindReady /\ ApplySurfaceStress => WindInv' /\ SweepInv'
  <1> SUFFICES ASSUME TypeInv, WindInv, WindReady, ApplySurfaceStress
               PROVE  WindInv' /\ SweepInv'
    OBVIOUS
  <1>1. /\ pc = "wind" /\ ~column.direct_stress /\ pc' = "top" /\ UNCHANGED <<system, column, x>>
        /\ system = "vertvisc_tridiag" /\ column \in Columns /\ x \in [Unknowns -> [Layers -> Fraction]]
        /\ x["u"] = column.u /\ x["du_dt_str"] = AllLayers(Zero)
    BY DEF ApplySurfaceStress, TypeInv, VcTypeOK, WindReady, WindInv, WindSoFar
  <1>2. ASSUME NEW l \in Layers
        PROVE  Untouched("vertvisc_tridiag", column, x, l)
    <2>1. column.u[l] \in Fraction /\ Zero \in Fraction
      BY <1>1, ColumnParts, ConstantFractions
    <2>2. Velocity(column)[l] = Plus(column.u[l], Zero) /\ OfTheWind(column)[l] = Plus(Zero, Zero)
      BY <1>1 DEF Velocity, OfTheWind
    <2>3. x["u"][l] = column.u[l] /\ x["du_dt_str"][l] = Zero
      BY <1>1 DEF AllLayers
    <2>4. Same(column.u[l], Plus(column.u[l], Zero)) /\ Same(Zero, Plus(Zero, Zero))
      BY <2>1, NeutralZero, SameSym, PlusIsFraction
    <2> QED  BY <1>1, <2>2, <2>3, <2>4, VelocityUntouched
  <1> QED  BY <1>1, <1>2 DEF WindInv, WindSoFar, SweepInv, SweepOK

-----------------------------------------------------------------------------
\* The solve as a whole

SolveInv == TypeInv /\ RouteOK /\ WindInv /\ HeldInv /\ SweepInv /\ VelocitySolved

LEMMA SolveIsFull ==
    ASSUME TypeInv, SweepInv, pc = "up", k = 0
    PROVE  \A l \in Layers : FullRow(system, column, surface_stress, x, l)
  <1> DEFINE s == system   c == column   stress == surface_stress
  <1>1. /\ s \in {"vertvisc_tridiag", "gl90", "remnant"} /\ c \in Columns /\ stress \in Fraction
        /\ c1 \in [Layers -> Fraction] /\ x \in [Unknowns -> [Layers -> Fraction]] /\ 0 \in Layers
    BY LayerFacts DEF TypeInv, VcTypeOK
  <1>2. HalfRow(s, c, stress, c1, x, 0) /\ \A l \in Layers : 0 < l => FullRow(s, c, stress, x, l)
    BY DEF SweepInv, SweepOK
  <1>3. FullRow(s, c, stress, x, 0)
    <2> SUFFICES ASSUME NEW name \in Solved(s)
                 PROVE  Same(RowIn(s, c, x[name], 0), Given(name, c, stress, 0))
      BY DEF FullRow
    <2>1. name \in Unknowns /\ x[name] \in [Layers -> Fraction] /\ x[name][0] \in Fraction
      BY <1>1, SolvedAreUnknowns
    <2>2. FromBelow(s, c, x[name], 0) \in Fraction /\ Given(name, c, stress, 0) \in Fraction
      BY <1>1, <2>1, NeighboursAreFractions, GivenIsFraction
    <2>3. Pivot(s, c, c1, 0) \in Fraction /\ Diagonal(s, c, 0) \in Fraction /\ Same(Pivot(s, c, c1, 0), Diagonal(s, c, 0))
      BY <1>1, PivotIsFraction, DiagonalIs
    <2>4. Same(Minus(Times(Pivot(s, c, c1, 0), x[name][0]), FromBelow(s, c, x[name], 0)), Plus(Given(name, c, stress, 0), Zero))
      BY <1>2 DEF HalfRow, FromGiven, FromAbove
    <2>5. Same(Minus(Times(Diagonal(s, c, 0), x[name][0]), Plus(Zero, FromBelow(s, c, x[name], 0))), Given(name, c, stress, 0))
      BY <2>1, <2>2, <2>3, <2>4, TopRowCloses
    <2> QED  BY <2>5 DEF RowIn, FromAbove
  <1> QED  BY <1>2, <1>3, LayerFacts

LEMMA SolveInit == Init => SolveInv
  <1> SUFFICES ASSUME Init
               PROVE  SolveInv
    OBVIOUS
  <1>1. TypeInv /\ RouteOK /\ SweepInv
    BY InitIsTyped, InitIsOnRoute, SweepInit
  <1>2. WindInv
    BY DEF Init, WindInv, WindSoFar, Unknowns
  <1>3. HeldInv
    BY DEF Init, HeldInv, HeldOK
  <1>4. VelocitySolved
    BY DEF Init, VelocitySolved
  <1> QED  BY <1>1, <1>2, <1>3, <1>4 DEF SolveInv

LEMMA SolveHold == SolveInv /\ HoldVelocity => WindInv' /\ HeldInv' /\ SweepInv' /\ VelocitySolved'
  <1> SUFFICES ASSUME SolveInv, HoldVelocity
               PROVE  WindInv' /\ HeldInv' /\ SweepInv' /\ VelocitySolved'
    OBVIOUS
  <1>1. /\ pc = "hold" /\ pc' = "wind" /\ k = 0 /\ zDS = Zero /\ x["u"] = column.u /\ column \in Columns
        /\ x \in [Unknowns -> [Layers -> Fraction]] /\ call = "vertvisc_tr"
        /\ system = "vertvisc_tridiag" /\ surface_stress = Zero
    BY DEF SolveInv, HoldVelocity, WindInv, WindSoFar, TypeInv, VcTypeOK, RouteOK, Calls, HeldInv, HeldOK
  <1>2. /\ du_dt_visc' = x["u"] /\ UNCHANGED <<call, column, system, k, zDS, surface_stress>>
        /\ x'["u"] = x["u"] /\ x'["du_dt_visc_gl90"] = x["u"] /\ x'["du_dt_str"] = AllLayers(Zero)
    BY <1>1 DEF HoldVelocity, Unknowns
  <1>3. Same(Zero, Above(column, 0)) /\ Below(Zero, Hmix)
    <2>1. Above(column, 0) = Zero
      BY <1>1, AboveFacts
    <2>2. Below(Zero, Hmix)
      BY LimitsAssumption, FractionParts DEF Below, Zero, Whole, Positive
    <2> QED  BY <2>1, <2>2, ConstantFractions, SameSelf
  <1>4. \A l \in Layers : ~(l < 0) /\ AllLayers(Zero)[l] = Zero
    BY LayerFacts DEF AllLayers
  <1>5. WindInv'
    BY <1>1, <1>2, <1>3, <1>4 DEF WindInv, WindSoFar
  <1>6. HeldInv'
    BY <1>1, <1>2 DEF HeldInv, HeldOK
  <1>7. SweepInv' /\ VelocitySolved'
    BY <1>1, <1>2 DEF SweepInv, SweepOK, VelocitySolved
  <1> QED  BY <1>5, <1>6, <1>7

LEMMA SolveWind == SolveInv /\ (ApplyBodyForce \/ ApplySurfaceStress) => WindInv' /\ HeldInv' /\ SweepInv' /\ VelocitySolved'
  <1> SUFFICES ASSUME SolveInv, ApplyBodyForce \/ ApplySurfaceStress
               PROVE  WindInv' /\ HeldInv' /\ SweepInv' /\ VelocitySolved'
    OBVIOUS
  <1>1. TypeInv /\ WindInv
    BY DEF SolveInv
  <1>2. pc = "wind" /\ pc' \in {"wind", "top"} /\ call = "vertvisc_tr" /\ system = "vertvisc_tridiag"
    BY DEF SolveInv, RouteOK, Calls, HeldInv, HeldOK, ApplyBodyForce, ApplySurfaceStress
  <1>3. WindReady
    BY <1>2 DEF WindReady
  <1>4. WindInv' /\ SweepInv'
    BY <1>1, <1>3, SweepBodyForce, SweepSurfaceStress
  <1>5. /\ UNCHANGED <<call, column, system, du_dt_visc>> /\ x'["du_dt_visc_gl90"] = x["du_dt_visc_gl90"]
        /\ surface_stress' = IF column.direct_stress THEN Zero ELSE column.stress
    BY <1>1, ForceOfStep DEF ApplyBodyForce, ApplySurfaceStress
  <1>6. HeldInv'
    <2>1. surface_stress = Zero /\ du_dt_visc = column.u /\ x["du_dt_visc_gl90"] = column.u
      BY <1>2 DEF SolveInv, HeldInv, HeldOK
    <2>2. pc' = "wind" => surface_stress' = Zero
      BY <1>5, <2>1 DEF ApplyBodyForce, ApplySurfaceStress
    <2> QED  BY <1>2, <1>5, <2>1, <2>2 DEF HeldInv, HeldOK
  <1>7. VelocitySolved'
    BY <1>2, <1>5 DEF VelocitySolved
  <1> QED  BY <1>4, <1>6, <1>7

\* A step of the sweep changes what is solved for, and no other unknown
LEMMA SweepLeaves ==
    ASSUME TypeInv, EliminateTop \/ Eliminate \/ BackSubstitute
    PROVE  /\ \A name \in Unknowns \ Solved(system) : x'[name] = x[name]
           /\ pc \in {"top", "down", "up"} /\ pc' \in {"down", "up"}
           /\ UNCHANGED <<call, column, system, zDS, surface_stress, du_dt_visc, KE_u, taux_bot>>
  <1>1. \A name \in Unknowns \ Solved(system) : x'[name] = x[name]
    BY DEF EliminateTop, Eliminate, BackSubstitute
  <1>2. pc \in {"top", "down", "up"} /\ pc' \in {"down", "up"}
    BY DEF EliminateTop, Eliminate, BackSubstitute, After
  <1>3. UNCHANGED <<call, column, system, zDS, surface_stress, du_dt_visc, KE_u, taux_bot>>
    BY DEF EliminateTop, Eliminate, BackSubstitute
  <1> QED  BY <1>1, <1>2, <1>3

LEMMA SolveSweep == SolveInv /\ (EliminateTop \/ Eliminate \/ BackSubstitute) => WindInv' /\ HeldInv' /\ SweepInv' /\ VelocitySolved'
  <1> SUFFICES ASSUME SolveInv, EliminateTop \/ Eliminate \/ BackSubstitute
               PROVE  WindInv' /\ HeldInv' /\ SweepInv' /\ VelocitySolved'
    OBVIOUS
  <1>1. TypeInv /\ SweepInv
    BY DEF SolveInv
  <1>2. SweepInv'
    BY <1>1, SweepTop, SweepNext, SweepBack
  <1>3. /\ \A name \in Unknowns \ Solved(system) : x'[name] = x[name]
        /\ pc \in {"top", "down", "up"} /\ pc' \in {"down", "up"}
        /\ UNCHANGED <<call, column, system, zDS, surface_stress, du_dt_visc, KE_u, taux_bot>>
    BY <1>1, SweepLeaves
  <1>4. /\ system = "vertvisc_tridiag" => x'["du_dt_visc_gl90"] = x["du_dt_visc_gl90"]
        /\ system = "gl90" => x'["u"] = x["u"]
    BY <1>3 DEF Unknowns, Solved
  <1>5. WindInv'
    BY <1>3 DEF WindInv, WindSoFar
  <1>6. HeldInv'
    BY <1>3, <1>4 DEF SolveInv, HeldInv, HeldOK
  <1>7. VelocitySolved'
    BY <1>3, <1>4 DEF SolveInv, VelocitySolved
  <1> QED  BY <1>2, <1>5, <1>6, <1>7

LEMMA SolveStartGL90 == SolveInv /\ StartGL90 => WindInv' /\ HeldInv' /\ SweepInv' /\ VelocitySolved'
  <1> SUFFICES ASSUME SolveInv, StartGL90
               PROVE  WindInv' /\ HeldInv' /\ SweepInv' /\ VelocitySolved'
    OBVIOUS
  <1>1. /\ pc = "up" /\ k = 0 /\ system = "vertvisc_tridiag" /\ pc' = "top" /\ system' = "gl90"
        /\ UNCHANGED <<call, column, x, surface_stress, du_dt_visc>>
        /\ column \in Columns /\ x \in [Unknowns -> [Layers -> Fraction]] /\ call = "vertvisc_tr"
    BY DEF StartGL90, SolveIsDone, SolveInv, TypeInv, VcTypeOK, RouteOK, Calls
  <1>2. x["du_dt_visc_gl90"] = column.u
    BY <1>1 DEF SolveInv, HeldInv, HeldOK
  <1>3. WindInv' /\ HeldInv'
    BY <1>1, <1>2 DEF WindInv, WindSoFar, SolveInv, HeldInv, HeldOK
  <1>4. ASSUME NEW l \in Layers
        PROVE  Untouched("gl90", column, x, l)
    <2>1. Solved("gl90") = {"du_dt_visc_gl90"} /\ StartIn(column, "du_dt_visc_gl90") = column.u
      BY StartOf DEF Solved
    <2>2. Times(column.h[l], column.u[l]) \in Fraction
      BY <1>1, ColumnParts, TimesIsFraction
    <2>3. Same(Times(column.h[l], column.u[l]), Times(column.h[l], column.u[l]))
      BY <2>2, SameSelf
    <2> QED  BY <1>2, <2>1, <2>3 DEF Untouched, Momentum
  <1>5. SweepInv'
    BY <1>1, <1>4 DEF SweepInv, SweepOK
  <1>6. VelocitySolved'
    <2>1. \A l \in Layers : FullRow("vertvisc_tridiag", column, surface_stress, x, l)
      BY <1>1, SolveIsFull DEF SolveInv
    <2> QED  BY <1>1, <2>1 DEF VelocitySolved, FullRow, Solved
  <1> QED  BY <1>3, <1>5, <1>6

LEMMA SolveAfter ==
    ASSUME SolveInv, FinishRemnant \/ DiagnoseGL90 \/ Diagnose \/ AddDrag \/ LimitVelocity
    PROVE  WindInv' /\ HeldInv' /\ SweepInv' /\ VelocitySolved'
  <1>1. /\ pc \in {"up", "diagnose", "drag", "limit"} /\ pc' \in {"diagnose", "drag", "limit", "done"}
        /\ UNCHANGED <<call, column, system, surface_stress>>
        /\ pc' = "diagnose" => pc = "up" /\ du_dt_visc' = du_dt_visc /\ system = "gl90"
        /\ pc' # "done" => x'["u"] = x["u"]
        /\ x \in [Unknowns -> [Layers -> Fraction]]
    BY DEF FinishRemnant, DiagnoseGL90, Diagnose, AddDrag, LimitVelocity, SolveIsDone, SolveInv, TypeInv, VcTypeOK, Unknowns
  <1>2. WindInv' /\ SweepInv'
    BY <1>1 DEF WindInv, WindSoFar, SweepInv, SweepOK
  <1>3. VelocitySolved'
    BY <1>1 DEF VelocitySolved, SolveInv
  <1>4. HeldInv'
    <2>1. CASE FinishRemnant
      BY <1>1, <2>1 DEF FinishRemnant, SolveIsDone, SolveInv, RouteOK, HeldInv, HeldOK
    <2>2. CASE DiagnoseGL90
      BY <1>1, <2>2 DEF DiagnoseGL90, SolveIsDone, SolveInv, HeldInv, HeldOK
    <2>3. CASE Diagnose \/ AddDrag \/ LimitVelocity
      <3>1. pc \in {"diagnose", "drag", "limit"} /\ pc' \in {"drag", "limit", "done"}
        BY <2>3 DEF Diagnose, AddDrag, LimitVelocity
      <3>2. call = "vertvisc_tr" => system = "gl90" /\ surface_stress = IF column.direct_stress THEN Zero ELSE column.stress
        BY <3>1 DEF SolveInv, HeldInv, HeldOK
      <3> QED  BY <1>1, <3>1, <3>2 DEF HeldInv, HeldOK
    <2> QED  BY <2>1, <2>2, <2>3
  <1> QED  BY <1>2, <1>3, <1>4

LEMMA SolveOfStep == SolveInv /\ [Next]_vars => SolveInv'
  <1> SUFFICES ASSUME SolveInv, [Next]_vars
               PROVE  SolveInv'
    OBVIOUS
  <1>1. TypeInv' /\ RouteOK'
    BY InvariantOfNext, RouteOfNext DEF SolveInv
  <1>2. WindInv' /\ HeldInv' /\ SweepInv' /\ VelocitySolved'
    <2>1. CASE HoldVelocity
      BY <2>1, SolveHold
    <2>2. CASE ApplyBodyForce \/ ApplySurfaceStress
      BY <2>2, SolveWind
    <2>3. CASE EliminateTop \/ Eliminate \/ BackSubstitute
      BY <2>3, SolveSweep
    <2>4. CASE StartGL90
      BY <2>4, SolveStartGL90
    <2>5. CASE FinishRemnant \/ DiagnoseGL90 \/ Diagnose \/ AddDrag \/ LimitVelocity
      BY <2>5, SolveAfter
    <2>6. CASE UNCHANGED vars
      BY <2>6 DEF vars, SolveInv, WindInv, HeldInv, SweepInv, VelocitySolved
    <2> QED  BY <2>1, <2>2, <2>3, <2>4, <2>5, <2>6 DEF Next
  <1> QED  BY <1>1, <1>2 DEF SolveInv

\* The sweep down and up solves the implicit equations of every layer, for the velocity,
\* for the wind's share in it, for GL90's part and for the remnant, whatever the number
\* of layers, their thickness, the couplings, the drag and the wind.
THEOREM SolvesAlways == Spec => []SolvesTheSystem
  <1>1. SolveInv => SolvesTheSystem
    <2> SUFFICES ASSUME SolveInv, pc = "up", k = 0, NEW name \in Solved(system), NEW j \in Layers
                 PROVE  Same(Row(system, x[name], j),
                             Plus(Times(column.h[j], Start(name)[j]), IF j = 0 THEN StressOn(name, surface_stress) ELSE Zero))
      BY DEF SolvesTheSystem
    <2>1. Same(RowIn(system, column, x[name], j), Given(name, column, surface_stress, j))
      BY SolveIsFull DEF SolveInv, FullRow
    <2> QED  BY <2>1, StartAndRow DEF Given
  <1> QED  BY <1>1, SolveInit, SolveOfStep, PTL DEF Spec

-----------------------------------------------------------------------------
\* The budget of momentum: each row of the system says what its layer gains

\* A row of the system says what a layer gains: its share of the wind, and what comes in at
\* the top less what goes out at the bottom and what drag takes
LEMMA RowGains ==
    ASSUME NEW h \in Fraction, NEW r \in Fraction, NEW a \in Fraction, NEW b \in Fraction, NEW g \in Fraction,
           NEW above \in Fraction, NEW below \in Fraction, NEW v \in Fraction, NEW w \in Fraction, NEW s \in Fraction,
           Same(Minus(Times(Plus(Plus(h, r), Plus(a, b)), g), Plus(above, below)), Plus(Times(h, Plus(v, w)), s))
    PROVE  Same(Times(h, Minus(g, v)),
                Minus(Plus(Times(h, w), Minus(Minus(Plus(s, above), Times(a, g)), Minus(Times(b, g), below))), Times(r, g)))
  <1>0. PICK e \in Int : /\ Over(h, e) /\ Over(r, e) /\ Over(a, e) /\ Over(b, e) /\ Over(g, e)
                         /\ Over(above, e) /\ Over(below, e) /\ Over(v, e) /\ Over(w, e) /\ Over(s, e)
    <2>1. PICK e1 \in Int : e1 > 0 /\ Over(h, e1) /\ Over(r, e1) /\ Over(a, e1) /\ Over(b, e1)
      BY CommonOver
    <2>2. PICK e2 \in Int : e2 > 0 /\ Over(g, e2) /\ Over(above, e2) /\ Over(below, e2)
      BY CommonOver
    <2>3. PICK e3 \in Int : e3 > 0 /\ Over(v, e3) /\ Over(w, e3) /\ Over(s, e3)
      BY CommonOver
    <2>4. PICK f \in Int : f = e1 * e2 /\ f > 0
      BY <2>1, <2>2, SignOfProduct
    <2>5. /\ Over(h, f) /\ Over(r, f) /\ Over(a, f) /\ Over(b, f) /\ Over(g, f)
          /\ Over(above, f) /\ Over(below, f)
      BY <2>1, <2>2, <2>4, OverProduct
    <2> QED  BY <2>3, <2>4, <2>5, OverProduct
  <1> DEFINE H == Num(h, e)   R == Num(r, e)   A == Num(a, e)   B == Num(b, e)   G == Num(g, e)
             P == Num(above, e)   Q == Num(below, e)   V == Num(v, e)   W == Num(w, e)   S == Num(s, e)
  <1>1. /\ e > 0 /\ Val(h, H, e) /\ Val(r, R, e) /\ Val(a, A, e) /\ Val(b, B, e) /\ Val(g, G, e)
        /\ Val(above, P, e) /\ Val(below, Q, e) /\ Val(v, V, e) /\ Val(w, W, e) /\ Val(s, S, e)
        /\ H \in Int /\ R \in Int /\ A \in Int /\ B \in Int /\ G \in Int
        /\ P \in Int /\ Q \in Int /\ V \in Int /\ W \in Int /\ S \in Int
    BY <1>0 DEF Over
  <1> HIDE DEF H, R, A, B, G, P, Q, V, W, S
  <1>2. PICK ee \in Int : ee = e * e /\ ee > 0
    BY <1>1, SignOfProduct
  <1>3. /\ Val(Plus(h, r), H + R, e) /\ Val(Plus(a, b), A + B, e) /\ Val(Plus(above, below), P + Q, e)
        /\ Val(Plus(v, w), V + W, e) /\ Val(Minus(g, v), G - V, e) /\ Val(Plus(s, above), S + P, e)
    BY <1>1, ValPlus
  <1>4. Val(Plus(Plus(h, r), Plus(a, b)), (H + R) + (A + B), e)
    BY <1>3, ValPlus
  <1>5. /\ Val(Times(Plus(Plus(h, r), Plus(a, b)), g), ((H + R) + (A + B)) * G, ee)
        /\ Val(Times(h, Plus(v, w)), H * (V + W), ee) /\ Val(Times(h, Minus(g, v)), H * (G - V), ee)
        /\ Val(Times(h, w), H * W, ee) /\ Val(Times(a, g), A * G, ee) /\ Val(Times(b, g), B * G, ee) /\ Val(Times(r, g), R * G, ee)
    BY <1>1, <1>2, <1>3, <1>4, ValTimes
  <1>6. /\ Val(Plus(above, below), (P + Q) * e, ee) /\ Val(s, S * e, ee) /\ Val(Plus(s, above), (S + P) * e, ee) /\ Val(below, Q * e, ee)
    BY <1>1, <1>2, <1>3, ValScale
  <1>7. /\ Val(Minus(Times(Plus(Plus(h, r), Plus(a, b)), g), Plus(above, below)), ((H + R) + (A + B)) * G - (P + Q) * e, ee)
        /\ Val(Plus(Times(h, Plus(v, w)), s), H * (V + W) + S * e, ee)
    BY <1>5, <1>6, ValPlus
  <1>8. ((H + R) + (A + B)) * G - (P + Q) * e = H * (V + W) + S * e
    BY <1>7, ValOrder
  <1>9. /\ Val(Minus(Plus(s, above), Times(a, g)), (S + P) * e - A * G, ee)
        /\ Val(Minus(Times(b, g), below), B * G - Q * e, ee)
    BY <1>5, <1>6, ValPlus
  <1>10. Val(Minus(Minus(Plus(s, above), Times(a, g)), Minus(Times(b, g), below)), ((S + P) * e - A * G) - (B * G - Q * e), ee)
    BY <1>9, ValPlus
  <1>11. Val(Plus(Times(h, w), Minus(Minus(Plus(s, above), Times(a, g)), Minus(Times(b, g), below))),
             H * W + (((S + P) * e - A * G) - (B * G - Q * e)), ee)
    BY <1>5, <1>10, ValPlus
  <1>12. Val(Minus(Plus(Times(h, w), Minus(Minus(Plus(s, above), Times(a, g)), Minus(Times(b, g), below))), Times(r, g)),
             (H * W + (((S + P) * e - A * G) - (B * G - Q * e))) - R * G, ee)
    BY <1>5, <1>11, ValPlus
  <1>13. H * (G - V) = (H * W + (((S + P) * e - A * G) - (B * G - Q * e))) - R * G
    <2>1. /\ ((H + R) + (A + B)) * G = H * G + R * G + A * G + B * G /\ (P + Q) * e = P * e + Q * e
          /\ H * (V + W) = H * V + H * W /\ (S + P) * e = S * e + P * e /\ H * (G - V) = H * G - H * V
      BY <1>1
    <2> QED  BY <1>1, <1>8, <2>1
  <1> QED  BY <1>5, <1>12, <1>13, ValOrder

\* What a telescoping sum gains by one layer
LEMMA BudgetStep ==
    ASSUME NEW gain \in Fraction, NEW w \in Fraction, NEW t1 \in Fraction, NEW t2 \in Fraction, NEW r \in Fraction,
           NEW ws \in Fraction, NEW rs \in Fraction, NEW ws2 \in Fraction, NEW rs2 \in Fraction, NEW t0 \in Fraction,
           Same(gain, Minus(Plus(w, Minus(t1, t2)), r)), Same(ws2, Plus(w, ws)), Same(rs2, Plus(r, rs))
    PROVE  Same(Plus(gain, Minus(Plus(ws, Minus(t0, t1)), rs)), Minus(Plus(ws2, Minus(t0, t2)), rs2))
  <1>0. PICK e \in Int : /\ Over(gain, e) /\ Over(w, e) /\ Over(t1, e) /\ Over(t2, e) /\ Over(r, e)
                         /\ Over(ws, e) /\ Over(rs, e) /\ Over(ws2, e) /\ Over(rs2, e) /\ Over(t0, e)
    <2>1. PICK e1 \in Int : e1 > 0 /\ Over(gain, e1) /\ Over(w, e1) /\ Over(t1, e1) /\ Over(t2, e1)
      BY CommonOver
    <2>2. PICK e2 \in Int : e2 > 0 /\ Over(r, e2) /\ Over(ws, e2) /\ Over(rs, e2)
      BY CommonOver
    <2>3. PICK e3 \in Int : e3 > 0 /\ Over(ws2, e3) /\ Over(rs2, e3) /\ Over(t0, e3)
      BY CommonOver
    <2>4. PICK f \in Int : f = e1 * e2 /\ f > 0
      BY <2>1, <2>2, SignOfProduct
    <2>5. /\ Over(gain, f) /\ Over(w, f) /\ Over(t1, f) /\ Over(t2, f) /\ Over(r, f) /\ Over(ws, f) /\ Over(rs, f)
      BY <2>1, <2>2, <2>4, OverProduct
    <2> QED  BY <2>3, <2>4, <2>5, OverProduct
  <1> DEFINE N == Num(gain, e)   W == Num(w, e)   T1 == Num(t1, e)   T2 == Num(t2, e)   R == Num(r, e)
             WS == Num(ws, e)   RS == Num(rs, e)   WS2 == Num(ws2, e)   RS2 == Num(rs2, e)   T0 == Num(t0, e)
  <1>1. /\ Val(gain, N, e) /\ Val(w, W, e) /\ Val(t1, T1, e) /\ Val(t2, T2, e) /\ Val(r, R, e)
        /\ Val(ws, WS, e) /\ Val(rs, RS, e) /\ Val(ws2, WS2, e) /\ Val(rs2, RS2, e) /\ Val(t0, T0, e)
        /\ N \in Int /\ W \in Int /\ T1 \in Int /\ T2 \in Int /\ R \in Int
        /\ WS \in Int /\ RS \in Int /\ WS2 \in Int /\ RS2 \in Int /\ T0 \in Int
    BY <1>0 DEF Over
  <1> HIDE DEF N, W, T1, T2, R, WS, RS, WS2, RS2, T0
  <1>2. /\ Val(Minus(t1, t2), T1 - T2, e) /\ Val(Minus(t0, t1), T0 - T1, e) /\ Val(Minus(t0, t2), T0 - T2, e)
        /\ Val(Plus(w, ws), W + WS, e) /\ Val(Plus(r, rs), R + RS, e)
    BY <1>1, ValPlus
  <1>3. /\ Val(Plus(w, Minus(t1, t2)), W + (T1 - T2), e) /\ Val(Plus(ws, Minus(t0, t1)), WS + (T0 - T1), e)
        /\ Val(Plus(ws2, Minus(t0, t2)), WS2 + (T0 - T2), e)
    BY <1>1, <1>2, ValPlus
  <1>4. /\ Val(Minus(Plus(w, Minus(t1, t2)), r), (W + (T1 - T2)) - R, e)
        /\ Val(Minus(Plus(ws, Minus(t0, t1)), rs), (WS + (T0 - T1)) - RS, e)
        /\ Val(Minus(Plus(ws2, Minus(t0, t2)), rs2), (WS2 + (T0 - T2)) - RS2, e)
    BY <1>1, <1>3, ValPlus
  <1>5. N = (W + (T1 - T2)) - R /\ WS2 = W + WS /\ RS2 = R + RS
    BY <1>1, <1>2, <1>4, ValOrder
  <1>6. Val(Plus(gain, Minus(Plus(ws, Minus(t0, t1)), rs)), N + ((WS + (T0 - T1)) - RS), e)
    BY <1>1, <1>4, ValPlus
  <1>7. N + ((WS + (T0 - T1)) - RS) = (WS2 + (T0 - T2)) - RS2
    BY <1>1, <1>5
  <1> QED  BY <1>4, <1>6, <1>7, ValOrder

\* At the bottom: the budget as MomentumBudgetCloses puts it
LEMMA BudgetEnds ==
    ASSUME NEW ws \in Fraction, NEW stress \in Fraction, NEW top \in Fraction, NEW bot \in Fraction, NEW rs \in Fraction,
           NEW taux \in Fraction, NEW wind \in Fraction,
           Same(taux, Plus(bot, rs)), Same(wind, Plus(ws, stress))
    PROVE  Same(Minus(Plus(ws, Minus(Minus(stress, top), bot)), rs), Minus(wind, Plus(taux, top)))
  <1>0. PICK e \in Int : /\ Over(ws, e) /\ Over(stress, e) /\ Over(top, e) /\ Over(bot, e)
                         /\ Over(rs, e) /\ Over(taux, e) /\ Over(wind, e)
    <2>1. PICK e1 \in Int : e1 > 0 /\ Over(ws, e1) /\ Over(stress, e1) /\ Over(top, e1) /\ Over(bot, e1)
      BY CommonOver
    <2>2. PICK e2 \in Int : e2 > 0 /\ Over(rs, e2) /\ Over(taux, e2) /\ Over(wind, e2)
      BY CommonOver
    <2> QED  BY <2>1, <2>2, OverProduct
  <1> DEFINE WS == Num(ws, e)   S == Num(stress, e)   T == Num(top, e)   B == Num(bot, e)
             R == Num(rs, e)   X == Num(taux, e)   W == Num(wind, e)
  <1>1. /\ Val(ws, WS, e) /\ Val(stress, S, e) /\ Val(top, T, e) /\ Val(bot, B, e) /\ Val(rs, R, e) /\ Val(taux, X, e) /\ Val(wind, W, e)
        /\ WS \in Int /\ S \in Int /\ T \in Int /\ B \in Int /\ R \in Int /\ X \in Int /\ W \in Int
    BY <1>0 DEF Over
  <1> HIDE DEF WS, S, T, B, R, X, W
  <1>2. /\ Val(Plus(bot, rs), B + R, e) /\ Val(Plus(ws, stress), WS + S, e) /\ Val(Minus(stress, top), S - T, e) /\ Val(Plus(taux, top), X + T, e)
    BY <1>1, ValPlus
  <1>3. X = B + R /\ W = WS + S
    BY <1>1, <1>2, ValOrder
  <1>4. Val(Minus(Minus(stress, top), bot), (S - T) - B, e) /\ Val(Minus(wind, Plus(taux, top)), W - (X + T), e)
    BY <1>1, <1>2, ValPlus
  <1>5. Val(Plus(ws, Minus(Minus(stress, top), bot)), WS + ((S - T) - B), e)
    BY <1>1, <1>4, ValPlus
  <1>6. Val(Minus(Plus(ws, Minus(Minus(stress, top), bot)), rs), (WS + ((S - T) - B)) - R, e)
    BY <1>1, <1>5, ValPlus
  <1>7. (WS + ((S - T) - B)) - R = W - (X + T)
    BY <1>1, <1>3
  <1> QED  BY <1>4, <1>6, <1>7, ValOrder

\* A factor in common
LEMMA TimesOfDifference ==
    ASSUME NEW a \in Fraction, NEW p \in Fraction, NEW q \in Fraction
    PROVE  Same(Times(a, Minus(p, q)), Minus(Times(a, p), Times(a, q)))
  <1>1. PICK e \in Int, A \in Int, P \in Int, Q \in Int, z \in Int :
          e > 0 /\ Val(a, A, e) /\ Val(p, P, e) /\ Val(q, Q, e) /\ Val(q, z, e)
    BY Four
  <1>2. Val(Minus(p, q), P - Q, e) /\ Val(Times(a, p), A * P, e * e) /\ Val(Times(a, q), A * Q, e * e)
    BY <1>1, ValPlus, ValTimes
  <1>3. Val(Times(a, Minus(p, q)), A * (P - Q), e * e) /\ Val(Minus(Times(a, p), Times(a, q)), A * P - A * Q, e * e)
    BY <1>1, <1>2, ValPlus, ValTimes
  <1>4. A * (P - Q) = A * P - A * Q
    BY <1>1
  <1> QED  BY <1>3, <1>4, ValOrder

LEMMA FactorCancels ==
    ASSUME NEW h, Positive(h), NEW p \in Fraction, NEW q \in Fraction, Same(Times(h, p), Times(h, q))
    PROVE  Same(p, q)
  <1>1. h \in Fraction
    BY NonnegativeParts
  <1>2. PICK e \in Int, H \in Int, P \in Int, Q \in Int, z \in Int :
          e > 0 /\ Val(h, H, e) /\ Val(p, P, e) /\ Val(q, Q, e) /\ Val(q, z, e)
    BY <1>1, Four
  <1>3. Val(Times(h, p), H * P, e * e) /\ Val(Times(h, q), H * Q, e * e) /\ H > 0
    BY <1>2, ValTimes, ValSign
  <1>4. P * H = Q * H
    <2>1. H * P = H * Q
      BY <1>3, ValOrder
    <2> QED  BY <1>2, <2>1
  <1>5. P = Q
    BY <1>2, <1>3, <1>4, Equal
  <1> QED  BY <1>2, <1>5, ValOrder

\* The flux through the top and through the bottom of a layer, as its row has them
LEMMA FluxOfRow ==
    ASSUME NEW c \in Columns, NEW s, NEW stress \in Fraction, NEW f \in [Layers -> Fraction]
    PROVE  /\ \A j \in Interfaces : Flux(s, c, stress, f, j) \in Fraction
           /\ \A l \in Layers :
                 /\ Same(Minus(Plus(IF l = 0 THEN stress ELSE Zero, FromAbove(s, c, f, l)), Times(Coupling(s, c, l), f[l])),
                         Flux(s, c, stress, f, l))
                 /\ Same(Minus(Times(Coupling(s, c, l + 1), f[l]), FromBelow(s, c, f, l)), Flux(s, c, stress, f, l + 1))
  <1>1. \A j \in Interfaces : Flux(s, c, stress, f, j) \in Fraction
    <2> TAKE j \in Interfaces
    <2>1. Coupling(s, c, j) \in Fraction /\ Coupling(s, c, 0) \in Fraction /\ Coupling(s, c, nz) \in Fraction
      BY ColumnParts, LayerFacts
    <2>2. f[0] \in Fraction /\ f[nz - 1] \in Fraction /\ (j # 0 /\ j # nz => f[j - 1] \in Fraction /\ f[j] \in Fraction)
      BY LayerFacts, NzAssumption DEF Interfaces, Layers
    <2> QED  BY <2>1, <2>2, TimesIsFraction, PlusIsFraction DEF Flux
  <1>2. ASSUME NEW l \in Layers
        PROVE  Same(Minus(Plus(IF l = 0 THEN stress ELSE Zero, FromAbove(s, c, f, l)), Times(Coupling(s, c, l), f[l])),
                    Flux(s, c, stress, f, l))
    <2>1. Coupling(s, c, l) \in Fraction /\ f[l] \in Fraction /\ Zero \in Fraction
      BY ColumnParts, LayerFacts, ConstantFractions
    <2>2. Times(Coupling(s, c, l), f[l]) \in Fraction
      BY <2>1, TimesIsFraction
    <2>3. Same(Times(Coupling(s, c, l), f[l]), Times(Coupling(s, c, l), f[l]))
      BY <2>2, SameSelf
    <2>4. CASE l = 0
      <3>1. Same(Plus(stress, Zero), stress) /\ Plus(stress, Zero) \in Fraction
        BY <2>1, NeutralZero, PlusIsFraction
      <3>2. Same(Minus(Plus(stress, Zero), Times(Coupling(s, c, l), f[l])), Minus(stress, Times(Coupling(s, c, l), f[l])))
        BY <2>2, <2>3, <3>1, SamePlus
      <3> QED  BY <2>4, <3>2 DEF FromAbove, Flux
    <2>5. CASE l # 0
      <3>1. f[l - 1] \in Fraction /\ l # nz
        BY <2>5, LayerFacts, NzAssumption DEF Layers
      <3> DEFINE up == Times(Coupling(s, c, l), f[l - 1])   down == Times(Coupling(s, c, l), f[l])
      <3>2. up \in Fraction /\ Plus(Zero, up) \in Fraction /\ down \in Fraction
        BY <2>1, <3>1, TimesIsFraction, PlusIsFraction
      <3>3. Same(Plus(Zero, up), up)
        BY <3>2, NeutralZero
      <3>4. Same(Minus(Plus(Zero, up), down), Minus(up, down)) /\ Minus(Plus(Zero, up), down) \in Fraction /\ Minus(up, down) \in Fraction
        BY <2>3, <3>2, <3>3, SamePlus
      <3>5. Times(Coupling(s, c, l), Minus(f[l - 1], f[l])) \in Fraction
        BY <2>1, <3>1, PlusIsFraction, TimesIsFraction
      <3>6. Same(Minus(up, down), Times(Coupling(s, c, l), Minus(f[l - 1], f[l])))
        BY <2>1, <3>1, <3>4, <3>5, TimesOfDifference, SameSym
      <3>7. Same(Minus(Plus(Zero, up), down), Times(Coupling(s, c, l), Minus(f[l - 1], f[l])))
        BY <3>4, <3>5, <3>6, SameTrans
      <3> QED  BY <2>5, <3>1, <3>7 DEF FromAbove, Flux
    <2> QED  BY <2>4, <2>5
  <1>3. ASSUME NEW l \in Layers
        PROVE  Same(Minus(Times(Coupling(s, c, l + 1), f[l]), FromBelow(s, c, f, l)), Flux(s, c, stress, f, l + 1))
    <2>1. Coupling(s, c, l + 1) \in Fraction /\ f[l] \in Fraction /\ l + 1 # 0 /\ (l + 1) - 1 = l /\ (l + 1 = nz <=> l = nz - 1)
      BY ColumnParts, LayerFacts, NzAssumption DEF Layers
    <2>2. Times(Coupling(s, c, l + 1), f[l]) \in Fraction
      BY <2>1, TimesIsFraction
    <2>3. CASE l = nz - 1
      <3>1. Same(Minus(Times(Coupling(s, c, l + 1), f[l]), Zero), Times(Coupling(s, c, l + 1), f[l]))
        BY <2>2, NeutralZero
      <3> QED  BY <2>1, <2>3, <3>1 DEF FromBelow, Flux
    <2>4. CASE l # nz - 1
      <3>1. f[l + 1] \in Fraction
        BY <2>4, LayerFacts
      <3>2. /\ Minus(Times(Coupling(s, c, l + 1), f[l]), Times(Coupling(s, c, l + 1), f[l + 1])) \in Fraction
            /\ Times(Coupling(s, c, l + 1), Minus(f[l], f[l + 1])) \in Fraction
        BY <2>1, <3>1, PlusIsFraction, TimesIsFraction
      <3>3. Same(Minus(Times(Coupling(s, c, l + 1), f[l]), Times(Coupling(s, c, l + 1), f[l + 1])),
                 Times(Coupling(s, c, l + 1), Minus(f[l], f[l + 1])))
        BY <2>1, <3>1, <3>2, TimesOfDifference, SameSym
      <3> QED  BY <2>1, <2>4, <3>3 DEF FromBelow, Flux
    <2> QED  BY <2>3, <2>4
  <1> QED  BY <1>1, <1>2, <1>3

\* What a layer gains by a solve: its share of the wind, what comes in at its top less what
\* goes out at its bottom, less its drag
Gain(s, c, stress, f, w, r, l) == Minus(Plus(w, Minus(Flux(s, c, stress, f, l), Flux(s, c, stress, f, l + 1))), r)

LEMMA LayerGains ==
    ASSUME NEW c \in Columns, NEW s, NEW stress \in Fraction, NEW f \in [Layers -> Fraction], NEW w \in Fraction,
           NEW l \in Layers,
           Same(RowIn(s, c, f, l), Plus(Times(c.h[l], Plus(c.u[l], w)), IF l = 0 THEN stress ELSE Zero))
    PROVE  Same(Times(c.h[l], Minus(f[l], c.u[l])), Gain(s, c, stress, f, Times(c.h[l], w), Times(Drag(s, c, l), f[l]), l))
  <1> DEFINE a == Coupling(s, c, l)   b == Coupling(s, c, l + 1)   r == Drag(s, c, l)   g == f[l]
             above == FromAbove(s, c, f, l)   below == FromBelow(s, c, f, l)   e == IF l = 0 THEN stress ELSE Zero
             top == Minus(Plus(e, above), Times(a, g))   bottom == Minus(Times(b, g), below)
             ft == Flux(s, c, stress, f, l)   fb == Flux(s, c, stress, f, l + 1)
  <1>1. /\ a \in Fraction /\ b \in Fraction /\ r \in Fraction /\ g \in Fraction /\ c.h[l] \in Fraction /\ c.u[l] \in Fraction
        /\ above \in Fraction /\ below \in Fraction /\ e \in Fraction
    BY ColumnParts, LayerFacts, NeighboursAreFractions, ConstantFractions
  <1>2. ft \in Fraction /\ fb \in Fraction /\ Same(top, ft) /\ Same(bottom, fb)
    BY FluxOfRow, LayerFacts
  <1>3. Same(Minus(Times(Plus(Plus(c.h[l], r), Plus(a, b)), g), Plus(above, below)), Plus(Times(c.h[l], Plus(c.u[l], w)), e))
    BY DEF RowIn, Diagonal
  <1>4. Same(Times(c.h[l], Minus(g, c.u[l])), Minus(Plus(Times(c.h[l], w), Minus(top, bottom)), Times(r, g)))
    <2> HIDE DEF a, b, r, g, above, below, e
    <2> QED  BY <1>1, <1>3, RowGains
  <1>5. /\ top \in Fraction /\ bottom \in Fraction /\ Times(c.h[l], w) \in Fraction /\ Times(r, g) \in Fraction
        /\ Times(c.h[l], Minus(g, c.u[l])) \in Fraction
    BY <1>1, TimesIsFraction, PlusIsFraction
  <1> HIDE DEF top, bottom, ft, fb, r, g
  <1>6. Same(Minus(top, bottom), Minus(ft, fb)) /\ Minus(top, bottom) \in Fraction /\ Minus(ft, fb) \in Fraction
    BY <1>2, <1>5, SamePlus
  <1>7. /\ Same(Plus(Times(c.h[l], w), Minus(top, bottom)), Plus(Times(c.h[l], w), Minus(ft, fb)))
        /\ Plus(Times(c.h[l], w), Minus(top, bottom)) \in Fraction /\ Plus(Times(c.h[l], w), Minus(ft, fb)) \in Fraction
    BY <1>5, <1>6, SameSelf, SamePlus
  <1>8. /\ Same(Minus(Plus(Times(c.h[l], w), Minus(top, bottom)), Times(r, g)), Minus(Plus(Times(c.h[l], w), Minus(ft, fb)), Times(r, g)))
        /\ Minus(Plus(Times(c.h[l], w), Minus(top, bottom)), Times(r, g)) \in Fraction
        /\ Minus(Plus(Times(c.h[l], w), Minus(ft, fb)), Times(r, g)) \in Fraction
    BY <1>5, <1>7, SameSelf, SamePlus
  <1>9. Same(Times(c.h[l], Minus(g, c.u[l])), Minus(Plus(Times(c.h[l], w), Minus(ft, fb)), Times(r, g)))
    BY <1>4, <1>5, <1>8, SameTrans
  <1> QED  BY <1>9 DEF Gain, ft, fb, r, g

\* Summed over the layers, the flux is what comes in at the top less what goes out
LEMMA GainsAddUp ==
    ASSUME NEW c \in Columns, NEW s, NEW stress \in Fraction, NEW f \in [Layers -> Fraction],
           NEW gain \in [Layers -> Fraction], NEW w \in [Layers -> Fraction], NEW r \in [Layers -> Fraction],
           \A l \in Layers : Same(gain[l], Gain(s, c, stress, f, w[l], r[l], l))
    PROVE  Same(SumOver(gain, Layers),
                Minus(Plus(SumOver(w, Layers), Minus(Flux(s, c, stress, f, 0), Flux(s, c, stress, f, nz))), SumOver(r, Layers)))
  <1> DEFINE F(j) == Flux(s, c, stress, f, j)
             g == [j \in Interfaces |-> Minus(Plus(SumOver(w, 0 .. j - 1), Minus(F(0), F(j))), SumOver(r, 0 .. j - 1))]
  <1>1. \A j \in Interfaces : F(j) \in Fraction
    BY FluxOfRow
  <1>2. /\ \A j \in Interfaces : SumOver(w, 0 .. j - 1) \in Fraction /\ SumOver(r, 0 .. j - 1) \in Fraction
        /\ SumOver(w, 0 .. 0 - 1) = Zero /\ SumOver(r, 0 .. 0 - 1) = Zero
        /\ \A l \in Layers : Same(SumOver(w, 0 .. (l + 1) - 1), Plus(w[l], SumOver(w, 0 .. l - 1)))
        /\ \A l \in Layers : Same(SumOver(r, 0 .. (l + 1) - 1), Plus(r[l], SumOver(r, 0 .. l - 1)))
    BY PartialSums
  <1>3. 0 \in Interfaces /\ nz \in Interfaces /\ Layers = 0 .. nz - 1
    BY LayerFacts DEF Layers
  <1> HIDE DEF F
  <1>4. \A j \in Interfaces : Minus(F(0), F(j)) \in Fraction
    BY <1>1, <1>3, PlusIsFraction
  <1>5. \A j \in Interfaces : g[j] \in Fraction
    BY <1>2, <1>4, PlusIsFraction
  <1>6. Same(Zero, g[0])
    <2>1. Zero \in Fraction /\ F(0) \in Fraction /\ Minus(F(0), F(0)) \in Fraction
      BY <1>1, <1>3, <1>4, ConstantFractions
    <2>2. Same(Minus(F(0), F(0)), Zero) /\ Same(Zero, Zero)
      BY <2>1, NeutralZero, SameSelf
    <2>3. /\ Same(Plus(Zero, Minus(F(0), F(0))), Plus(Zero, Zero)) /\ Plus(Zero, Minus(F(0), F(0))) \in Fraction
          /\ Plus(Zero, Zero) \in Fraction
      BY <2>1, <2>2, SamePlus
    <2>4. Same(Plus(Zero, Zero), Zero)
      BY <2>1, NeutralZero
    <2>5. Same(Plus(Zero, Minus(F(0), F(0))), Zero)
      BY <2>1, <2>3, <2>4, SameTrans
    <2>6. /\ Same(Minus(Plus(Zero, Minus(F(0), F(0))), Zero), Minus(Zero, Zero))
          /\ Minus(Plus(Zero, Minus(F(0), F(0))), Zero) \in Fraction /\ Minus(Zero, Zero) \in Fraction
      BY <2>1, <2>2, <2>3, <2>5, SamePlus
    <2>7. Same(Minus(Zero, Zero), Zero)
      BY <2>1, NeutralZero
    <2>8. Same(Zero, Minus(Plus(Zero, Minus(F(0), F(0))), Zero))
      BY <2>1, <2>6, <2>7, SameTrans, SameSym
    <2>9. g[0] = Minus(Plus(Zero, Minus(F(0), F(0))), Zero)
      BY <1>2, <1>3
    <2> QED  BY <2>8, <2>9
  <1>7. \A l \in Layers : Same(Plus(gain[l], g[l]), g[l + 1])
    <2> TAKE l \in Layers
    <2>1. l \in Interfaces /\ l + 1 \in Interfaces
      BY LayerFacts
    <2>2. Same(gain[l], Minus(Plus(w[l], Minus(F(l), F(l + 1))), r[l]))
      BY DEF Gain, F
    <2>3. /\ gain[l] \in Fraction /\ w[l] \in Fraction /\ r[l] \in Fraction
          /\ F(0) \in Fraction /\ F(l) \in Fraction /\ F(l + 1) \in Fraction
      BY <1>1, <1>3, <2>1
    <2> DEFINE ws == SumOver(w, 0 .. l - 1)   ws2 == SumOver(w, 0 .. (l + 1) - 1)
               rs == SumOver(r, 0 .. l - 1)   rs2 == SumOver(r, 0 .. (l + 1) - 1)
    <2>4. /\ ws \in Fraction /\ ws2 \in Fraction /\ rs \in Fraction /\ rs2 \in Fraction
          /\ Same(ws2, Plus(w[l], ws)) /\ Same(rs2, Plus(r[l], rs))
      BY <1>2, <2>1
    <2>5. g[l] = Minus(Plus(ws, Minus(F(0), F(l))), rs) /\ g[l + 1] = Minus(Plus(ws2, Minus(F(0), F(l + 1))), rs2)
      BY <2>1
    <2> HIDE DEF ws, ws2, rs, rs2, g
    <2>6. Same(Plus(gain[l], Minus(Plus(ws, Minus(F(0), F(l))), rs)), Minus(Plus(ws2, Minus(F(0), F(l + 1))), rs2))
      BY <2>2, <2>3, <2>4, BudgetStep
    <2> QED  BY <2>5, <2>6
  <1>8. \A j \in Interfaces : Same(SumOver(gain, 0 .. j - 1), g[j])
    <2> HIDE DEF g
    <2> QED  BY <1>5, <1>6, <1>7, SumIsSame
  <1>9. g[nz] = Minus(Plus(SumOver(w, Layers), Minus(F(0), F(nz))), SumOver(r, Layers))
    BY <1>3
  <1> QED  BY <1>3, <1>8, <1>9 DEF F

\* Nothing added up
LEMMA NothingAddsUp ==
    ASSUME NEW f, \A l \in Layers : Same(f[l], Zero) /\ f[l] \in Fraction
    PROVE  Same(SumOver(f, Layers), Zero)
  <1> DEFINE g == [j \in Interfaces |-> Zero]
  <1>1. Zero \in Fraction /\ 0 \in Interfaces /\ nz \in Interfaces /\ \A l \in Layers : l \in Interfaces /\ l + 1 \in Interfaces
    BY ConstantFractions, LayerFacts
  <1>2. Same(Zero, g[0]) /\ (\A j \in Interfaces : g[j] \in Fraction) /\ g[nz] = Zero
    BY <1>1, SameSelf
  <1>3. \A l \in Layers : Same(Plus(f[l], g[l]), g[l + 1])
    <2> TAKE l \in Layers
    <2>1. Same(Plus(f[l], Zero), f[l]) /\ Plus(f[l], Zero) \in Fraction
      BY <1>1, NeutralZero, PlusIsFraction
    <2>2. Same(Plus(f[l], Zero), Zero)
      BY <1>1, <2>1, SameTrans
    <2> QED  BY <1>1, <2>2
  <1> HIDE DEF g
  <1>4. Same(SumOver(f, 0 .. nz - 1), g[nz])
    BY <1>1, <1>2, <1>3, SumIsSame
  <1> QED  BY <1>2, <1>4 DEF Layers

\* A sum with one more term
LEMMA OneMore ==
    ASSUME NEW b \in Fraction, NEW d \in Fraction, NEW r \in Fraction, NEW d2 \in Fraction, NEW t \in Fraction,
           Same(t, Plus(b, d)), Same(d2, Plus(r, d))
    PROVE  Same(Plus(t, r), Plus(b, d2))
  <1>1. Plus(b, d) \in Fraction /\ Plus(r, d) \in Fraction /\ Plus(d, r) \in Fraction
    BY PlusIsFraction
  <1>2. Same(Plus(t, r), Plus(Plus(b, d), r)) /\ Plus(t, r) \in Fraction /\ Plus(Plus(b, d), r) \in Fraction
    BY <1>1, SameSelf, SamePlus
  <1>3. Same(Plus(b, Plus(r, d)), Plus(b, d2)) /\ Plus(b, Plus(r, d)) \in Fraction /\ Plus(b, d2) \in Fraction
    BY <1>1, SameSelf, SameSym, SamePlus
  <1>4. Same(Plus(Plus(b, d), r), Plus(b, Plus(r, d)))
    <2>1. PICK e \in Int, B \in Int, D \in Int, R \in Int, z \in Int :
            e > 0 /\ Val(b, B, e) /\ Val(d, D, e) /\ Val(r, R, e) /\ Val(r, z, e)
      BY Four
    <2>2. Val(Plus(b, d), B + D, e) /\ Val(Plus(r, d), R + D, e)
      BY <2>1, ValPlus
    <2>3. Val(Plus(Plus(b, d), r), (B + D) + R, e) /\ Val(Plus(b, Plus(r, d)), B + (R + D), e)
      BY <2>1, <2>2, ValPlus
    <2>4. (B + D) + R = B + (R + D)
      BY <2>1
    <2> QED  BY <2>3, <2>4, ValOrder
  <1> QED  BY <1>2, <1>3, <1>4, SameTrans

\* The drag on the layers above an interface
DragOn(c, u) == [l \in Layers |-> Times(c.Ray[l], u[l])]

LEMMA DragFacts ==
    ASSUME NEW c \in Columns, NEW u \in [Layers -> Fraction]
    PROVE  /\ DragOn(c, u) \in [Layers -> Fraction]
           /\ \A j : DragTo(c, u, j) = SumOver(DragOn(c, u), 0 .. j - 1)
           /\ DragTo(c, u, 0) = Zero
           /\ \A j \in Interfaces : DragTo(c, u, j) \in Fraction
           /\ \A l \in Layers : Same(DragTo(c, u, l + 1), Plus(Times(c.Ray[l], u[l]), DragTo(c, u, l)))
           /\ Times(u[nz - 1], c.a[nz]) \in Fraction
  <1>1. \A l \in Layers : c.Ray[l] \in Fraction /\ u[l] \in Fraction
    BY ColumnsAssumption DEF ColumnOK, Nonnegative
  <1>2. DragOn(c, u) \in [Layers -> Fraction] /\ \A l \in Layers : DragOn(c, u)[l] \in Fraction
    BY <1>1, TimesIsFraction DEF DragOn
  <1>3. \A j : DragTo(c, u, j) = SumOver(DragOn(c, u), 0 .. j - 1)
    BY DEF DragTo, DragOn, SumOver
  <1>4. /\ SumOver(DragOn(c, u), 0 .. 0 - 1) = Zero
        /\ \A j \in Interfaces : SumOver(DragOn(c, u), 0 .. j - 1) \in Fraction
        /\ \A l \in Layers :
              Same(SumOver(DragOn(c, u), 0 .. (l + 1) - 1), Plus(DragOn(c, u)[l], SumOver(DragOn(c, u), 0 .. l - 1)))
    BY <1>2, PartialSums
  <1>5. \A l \in Layers : DragOn(c, u)[l] = Times(c.Ray[l], u[l])
    BY DEF DragOn
  <1>6. DragTo(c, u, 0) = Zero
    BY <1>3, <1>4
  <1>7. \A j \in Interfaces : DragTo(c, u, j) \in Fraction
    BY <1>3, <1>4
  <1>8. \A l \in Layers : Same(DragTo(c, u, l + 1), Plus(Times(c.Ray[l], u[l]), DragTo(c, u, l)))
    BY <1>3, <1>4, <1>5
  <1>9. Times(u[nz - 1], c.a[nz]) \in Fraction
    BY LayerFacts, ColumnsAssumption, TimesIsFraction DEF ColumnOK, Nonnegative
  <1> QED  BY <1>2, <1>3, <1>6, <1>7, <1>8, <1>9

LEMMA BudgetOfDiagnose == SolveInv /\ BudgetInv /\ Diagnose => BudgetInv'
  <1> SUFFICES ASSUME SolveInv, BudgetInv, Diagnose
               PROVE  BudgetInv'
    OBVIOUS
  <1>1. /\ pc = "diagnose" /\ pc' = "drag" /\ k' = 0 /\ UNCHANGED <<column, x>>
        /\ du_dt_visc' = Difference(x["u"], du_dt_visc) /\ taux_bot' = Times(x["u"][nz - 1], column.a[nz])
    BY DEF Diagnose, BudgetInv, BudgetOK
  <1>2. du_dt_visc = column.u
    BY <1>1 DEF SolveInv, RouteOK, Calls, HeldInv, HeldOK
  <1>3. column \in Columns /\ x["u"] \in [Layers -> Fraction]
    BY DEF SolveInv, TypeInv, VcTypeOK, Unknowns
  <1> DEFINE u == x["u"]   b == Times(u[nz - 1], column.a[nz])
  <1>4. b \in Fraction /\ DragTo(column, u, 0) = Zero
    BY <1>3, DragFacts
  <1>5. Same(b, Plus(b, Zero))
    BY <1>4, NeutralZero, SameSym, PlusIsFraction, ConstantFractions
  <1>6. \A l \in Layers : du_dt_visc'[l] = Minus(u[l], column.u[l])
    BY <1>1, <1>2 DEF Difference
  <1>7. BudgetOK("drag", 0, column, u, du_dt_visc', b)
    BY <1>4, <1>5, <1>6 DEF BudgetOK
  <1>8. x'["u"] = u /\ taux_bot' = b
    BY <1>1
  <1> QED  BY <1>1, <1>7, <1>8 DEF BudgetInv

LEMMA BudgetOfDrag == SolveInv /\ BudgetInv /\ AddDrag => BudgetInv'
  <1> SUFFICES ASSUME SolveInv, BudgetInv, AddDrag
               PROVE  BudgetInv'
    OBVIOUS
  <1> DEFINE u == x["u"]   b == Times(u[nz - 1], column.a[nz])   r == Times(column.Ray[k], u[k])
  <1>1. /\ pc = "drag" /\ UNCHANGED <<column, x, du_dt_visc>> /\ taux_bot' = Plus(taux_bot, r)
        /\ IF k = nz - 1 THEN pc' = "limit" /\ k' = k ELSE pc' = "drag" /\ k' = k + 1
    BY DEF AddDrag
  <1>2. column \in Columns /\ u \in [Layers -> Fraction] /\ k \in Layers /\ taux_bot \in Fraction
    BY DEF SolveInv, TypeInv, VcTypeOK, Unknowns
  <1>3. /\ \A l \in Layers : du_dt_visc[l] = Minus(u[l], column.u[l])
        /\ Same(taux_bot, Plus(b, DragTo(column, u, k)))
    BY <1>1 DEF BudgetInv, BudgetOK
  <1> HIDE DEF u
  <1>4. /\ b \in Fraction /\ DragTo(column, u, k) \in Fraction /\ DragTo(column, u, k + 1) \in Fraction
        /\ Same(DragTo(column, u, k + 1), Plus(r, DragTo(column, u, k)))
    BY <1>2, DragFacts, LayerFacts
  <1>5. r \in Fraction
    BY <1>2, TimesIsFraction, ColumnsAssumption DEF ColumnOK, Nonnegative
  <1>6. Same(Plus(taux_bot, r), Plus(b, DragTo(column, u, k + 1)))
    <2> HIDE DEF b, r
    <2> QED  BY <1>2, <1>3, <1>4, <1>5, OneMore
  <1>7. x'["u"] = u
    BY <1>1 DEF u
  <1>8. CASE k = nz - 1
    <2>1. nz = k + 1 /\ pc' = "limit" /\ k' = k
      BY <1>1, <1>8, NzAssumption
    <2>2. BudgetOK("limit", k, column, u, du_dt_visc, Plus(taux_bot, r))
      BY <1>3, <1>6, <2>1 DEF BudgetOK
    <2> QED  BY <1>1, <1>7, <2>1, <2>2 DEF BudgetInv
  <1>9. CASE k # nz - 1
    <2>1. pc' = "drag" /\ k' = k + 1
      BY <1>1, <1>9
    <2>2. BudgetOK("drag", k + 1, column, u, du_dt_visc, Plus(taux_bot, r))
      BY <1>3, <1>6 DEF BudgetOK
    <2> QED  BY <1>1, <1>7, <2>1, <2>2 DEF BudgetInv
  <1> QED  BY <1>8, <1>9

LEMMA BudgetOfStep == SolveInv /\ BudgetInv /\ [Next]_vars => BudgetInv'
  <1> SUFFICES ASSUME SolveInv, BudgetInv, [Next]_vars
               PROVE  BudgetInv'
    OBVIOUS
  <1>1. CASE Diagnose
    BY <1>1, BudgetOfDiagnose
  <1>2. CASE AddDrag
    BY <1>2, BudgetOfDrag
  <1>3. CASE DiagnoseGL90
    <2>1. pc' = "diagnose" /\ k' = 0
      BY <1>3 DEF DiagnoseGL90, SolveIsDone
    <2> QED  BY <2>1 DEF BudgetInv, BudgetOK
  <1>4. CASE HoldVelocity \/ ApplyBodyForce \/ ApplySurfaceStress \/ FinishRemnant \/ StartGL90 \/ LimitVelocity
    <2>1. pc' \notin {"diagnose", "drag", "limit"}
      BY <1>4 DEF HoldVelocity, ApplyBodyForce, ApplySurfaceStress, FinishRemnant, StartGL90, LimitVelocity
    <2> QED  BY <2>1 DEF BudgetInv, BudgetOK
  <1>5. CASE EliminateTop \/ Eliminate \/ BackSubstitute
    <2>1. pc' \notin {"diagnose", "drag", "limit"}
      BY <1>5, SweepLeaves DEF SolveInv
    <2> QED  BY <2>1 DEF BudgetInv, BudgetOK
  <1>6. CASE UNCHANGED vars
    BY <1>6 DEF vars, BudgetInv
  <1> QED  BY <1>1, <1>2, <1>3, <1>4, <1>5, <1>6 DEF Next

\* The sum over a function on the layers
LEMMA SumIsOver == \A f : DOMAIN f = Layers => Sum(f) = SumOver(f, Layers)
  BY DEF Sum, FoldFunction, SumOver

\* The budget of the velocity's solve
LEMMA VelocityBudget ==
    ASSUME NEW c \in Columns, NEW u \in [Layers -> Fraction], NEW stress,
           stress = IF c.direct_stress THEN Zero ELSE c.stress,
           \A l \in Layers : Same(RowIn("vertvisc_tridiag", c, u, l), Given("u", c, stress, l)),
           NEW taux \in Fraction, Same(taux, Plus(Times(u[nz - 1], c.a[nz]), DragTo(c, u, nz)))
    PROVE  Same(Sum([j \in Layers |-> Times(c.h[j], Minus(u[j], c.u[j]))]),
                Minus(IF c.direct_stress THEN Sum([j \in Layers |-> Times(c.h[j], BodyForce(c)[j])]) ELSE c.stress,
                      Plus(taux, Times(c.a[0], u[0]))))
  <1> DEFINE s == "vertvisc_tridiag"
             share(l) == IF c.direct_stress THEN BodyForce(c)[l] ELSE Zero
             gain == [l \in Layers |-> Times(c.h[l], Minus(u[l], c.u[l]))]
             w == [l \in Layers |-> Times(c.h[l], share(l))]
             r == DragOn(c, u)
             wind == IF c.direct_stress THEN Sum([j \in Layers |-> Times(c.h[j], BodyForce(c)[j])]) ELSE c.stress
             F(j) == Flux(s, c, stress, u, j)
  <1>1. /\ stress \in Fraction /\ c.stress \in Fraction /\ Zero \in Fraction
        /\ \A l \in Layers : share(l) \in Fraction /\ c.h[l] \in Fraction /\ c.u[l] \in Fraction /\ u[l] \in Fraction
        /\ 0 \in Layers /\ nz - 1 \in Layers /\ 0 \in Interfaces /\ nz \in Interfaces /\ nz # 0 /\ Layers = 0 .. nz - 1
    <2>1. Zero \in Fraction /\ c.stress \in Fraction
      BY ColumnParts, ConstantFractions
    <2>2. stress \in Fraction
      BY <2>1
    <2>3. \A l \in Layers : BodyForce(c)[l] \in Fraction
      BY BodyForceIsFraction
    <2>4. \A l \in Layers : share(l) \in Fraction
      BY <2>1, <2>3
    <2>5. \A l \in Layers : c.h[l] \in Fraction /\ c.u[l] \in Fraction /\ u[l] \in Fraction
      BY ColumnParts
    <2>6. 0 \in Layers /\ nz - 1 \in Layers /\ 0 \in Interfaces /\ nz \in Interfaces /\ nz # 0 /\ Layers = 0 .. nz - 1
      BY LayerFacts, NzAssumption DEF Layers
    <2> QED  BY <2>1, <2>2, <2>4, <2>5, <2>6
  <1>2. gain \in [Layers -> Fraction] /\ w \in [Layers -> Fraction] /\ r \in [Layers -> Fraction]
    <2>1. \A l \in Layers : Times(c.h[l], Minus(u[l], c.u[l])) \in Fraction /\ Times(c.h[l], share(l)) \in Fraction
      <3> HIDE DEF share
      <3> QED  BY <1>1, PlusIsFraction, TimesIsFraction
    <2> QED  BY <2>1, DragFacts
  <1>3. \A l \in Layers : Same(gain[l], Gain(s, c, stress, u, w[l], r[l], l))
    <2> TAKE l \in Layers
    <2>1. Given("u", c, stress, l) = Plus(Times(c.h[l], Plus(c.u[l], share(l))), IF l = 0 THEN stress ELSE Zero)
      BY StartOf DEF Given, StressOn, Velocity
    <2>2. Same(RowIn(s, c, u, l), Plus(Times(c.h[l], Plus(c.u[l], share(l))), IF l = 0 THEN stress ELSE Zero))
      BY <2>1
    <2>3. share(l) \in Fraction
      BY <1>1
    <2> HIDE DEF share
    <2>4. Same(Times(c.h[l], Minus(u[l], c.u[l])),
               Gain(s, c, stress, u, Times(c.h[l], share(l)), Times(Drag(s, c, l), u[l]), l))
      BY <1>1, <2>2, <2>3, LayerGains
    <2>5. Drag(s, c, l) = c.Ray[l]
      BY DEF Drag
    <2> QED  BY <2>4, <2>5 DEF DragOn
  <1>4. Same(SumOver(gain, Layers),
             Minus(Plus(SumOver(w, Layers), Minus(F(0), F(nz))), SumOver(r, Layers)))
    <2> HIDE DEF gain, w, r
    <2> QED  BY <1>1, <1>2, <1>3, GainsAddUp
  <1>5. F(0) = Minus(stress, Times(c.a[0], u[0])) /\ F(nz) = Times(c.a[nz], u[nz - 1])
    BY <1>1 DEF Flux, Coupling
  <1>6. /\ DragTo(c, u, nz) = SumOver(r, Layers) /\ SumOver(r, Layers) \in Fraction
        /\ Times(u[nz - 1], c.a[nz]) \in Fraction
    BY <1>1, DragFacts
  <1>7. /\ c.a[0] \in Fraction /\ c.a[nz] \in Fraction
        /\ Times(c.a[0], u[0]) \in Fraction /\ Times(c.a[nz], u[nz - 1]) \in Fraction
    BY <1>1, ColumnsAssumption, TimesIsFraction DEF ColumnOK, Nonnegative
  <1>8. SumOver(w, Layers) \in Fraction /\ SumOver(gain, Layers) \in Fraction
    <2>1. (\A l \in Layers : w[l] \in Fraction) /\ \A l \in Layers : gain[l] \in Fraction
      BY <1>2
    <2> HIDE DEF w, gain
    <2> QED  BY <1>1, <2>1, PartialSums
  <1>9. wind \in Fraction /\ Same(wind, Plus(SumOver(w, Layers), stress))
    <2>1. CASE c.direct_stress
      <3>1. wind = SumOver(w, Layers) /\ stress = Zero
        BY <2>1, SumIsOver
      <3> HIDE DEF w, wind
      <3>2. Same(Plus(SumOver(w, Layers), Zero), SumOver(w, Layers)) /\ Plus(SumOver(w, Layers), Zero) \in Fraction
        BY <1>1, <1>8, NeutralZero, PlusIsFraction
      <3> QED  BY <1>8, <3>1, <3>2, SameSym
    <2>2. CASE ~c.direct_stress
      <3>1. wind = c.stress /\ stress = c.stress
        BY <2>2
      <3>2. \A l \in Layers : Same(w[l], Zero) /\ w[l] \in Fraction
        BY <1>1, <1>2, <2>2, NeutralZero
      <3>3. Same(SumOver(w, Layers), Zero)
        <4> HIDE DEF w
        <4> QED  BY <3>2, NothingAddsUp
      <3>4. /\ Same(Plus(SumOver(w, Layers), stress), Plus(Zero, stress))
            /\ Plus(SumOver(w, Layers), stress) \in Fraction /\ Plus(Zero, stress) \in Fraction
        BY <1>1, <1>8, <3>3, SameSelf, SamePlus
      <3>5. Same(Plus(Zero, stress), stress)
        BY <1>1, NeutralZero
      <3> QED  BY <1>1, <3>1, <3>4, <3>5, SameTrans, SameSym
    <2> QED  BY <2>1, <2>2
  <1>10. Same(taux, Plus(Times(c.a[nz], u[nz - 1]), SumOver(r, Layers)))
    BY <1>1, <1>6, <1>7, TimesCommutes
  <1>11. Same(Minus(Plus(SumOver(w, Layers), Minus(Minus(stress, Times(c.a[0], u[0])), Times(c.a[nz], u[nz - 1]))), SumOver(r, Layers)),
              Minus(wind, Plus(taux, Times(c.a[0], u[0]))))
    <2> HIDE DEF w, r, wind
    <2> QED  BY <1>1, <1>6, <1>7, <1>8, <1>9, <1>10, BudgetEnds
  <1>12. /\ Minus(wind, Plus(taux, Times(c.a[0], u[0]))) \in Fraction
         /\ Minus(Plus(SumOver(w, Layers), Minus(F(0), F(nz))), SumOver(r, Layers)) \in Fraction
    BY <1>1, <1>5, <1>6, <1>7, <1>8, <1>9, PlusIsFraction
  <1>13. Same(SumOver(gain, Layers), Minus(wind, Plus(taux, Times(c.a[0], u[0]))))
    <2> HIDE DEF gain, w, r, wind, F
    <2> QED  BY <1>4, <1>5, <1>8, <1>11, <1>12, SameTrans
  <1>14. Sum(gain) = SumOver(gain, Layers)
    BY SumIsOver
  <1> QED  BY <1>13, <1>14

\* The share of a thickness in a product of two
LEMMA ReciprocalSplits ==
    ASSUME NEW h, Positive(h)
    PROVE  /\ Same(Times(h, Reciprocal(Times(Hmix, h))), Reciprocal(Hmix))
           /\ Reciprocal(Times(Hmix, h)) \in Fraction /\ Reciprocal(Hmix) \in Fraction
  <1>1. Positive(Hmix) /\ Hmix \in Fraction /\ h \in Fraction
    BY ConstantFractions, NonnegativeParts
  <1>2. PICK e \in Int, H \in Int, M \in Int : e > 0 /\ Val(h, H, e) /\ Val(Hmix, M, e)
    BY <1>1, Two
  <1>3. H > 0 /\ M > 0
    BY <1>1, <1>2, ValSign
  <1>4. M * H \in Int /\ M * H > 0 /\ e * e \in Int /\ e * e > 0 /\ H * e \in Int /\ H * e > 0
    BY <1>2, <1>3, SignOfProduct
  <1>5. Val(Times(Hmix, h), M * H, e * e)
    BY <1>2, ValTimes
  <1>6. Val(Reciprocal(Times(Hmix, h)), e * e, M * H) /\ Val(Reciprocal(Hmix), e, M)
    BY <1>2, <1>3, <1>4, <1>5, ValReciprocal
  <1>7. Val(Times(h, Reciprocal(Times(Hmix, h))), H * (e * e), e * (M * H))
    BY <1>2, <1>6, ValTimes
  <1>8. Val(Reciprocal(Hmix), e * (H * e), M * (H * e))
    BY <1>4, <1>6, ValScale
  <1>9. H * (e * e) = e * (H * e) /\ e * (M * H) = M * (H * e)
    BY <1>2
  <1>10. Same(Times(h, Reciprocal(Times(Hmix, h))), Reciprocal(Hmix))
    BY <1>7, <1>8, <1>9, ValOrder
  <1> QED  BY <1>6, <1>10 DEF Val

\* The wind within Hmix, added up to the bottom of one more layer
LEMMA WindOfLayer ==
    ASSUME NEW h \in Fraction, NEW rec \in Fraction, NEW r \in Fraction, NEW a \in Fraction, NEW b \in Fraction,
           NEW t \in Fraction, NEW str \in Fraction,
           Same(Times(h, rec), r), Same(str, Times(Times(Minus(b, a), rec), t))
    PROVE  Same(Plus(Times(h, str), Times(Times(a, r), t)), Times(Times(b, r), t))
  <1> DEFINE force == Times(Times(Minus(b, a), rec), t)
  <1>0. PICK e \in Int : Over(h, e) /\ Over(rec, e) /\ Over(r, e) /\ Over(a, e) /\ Over(b, e) /\ Over(t, e)
    <2>1. PICK e1 \in Int : e1 > 0 /\ Over(h, e1) /\ Over(rec, e1) /\ Over(r, e1)
      BY CommonOver
    <2>2. PICK e2 \in Int : e2 > 0 /\ Over(a, e2) /\ Over(b, e2) /\ Over(t, e2)
      BY CommonOver
    <2> QED  BY <2>1, <2>2, OverProduct
  <1> DEFINE H == Num(h, e)   C == Num(rec, e)   R == Num(r, e)   A == Num(a, e)   B == Num(b, e)   T == Num(t, e)
  <1>1. /\ e > 0 /\ Val(h, H, e) /\ Val(rec, C, e) /\ Val(r, R, e) /\ Val(a, A, e) /\ Val(b, B, e) /\ Val(t, T, e)
        /\ H \in Int /\ C \in Int /\ R \in Int /\ A \in Int /\ B \in Int /\ T \in Int
    BY <1>0 DEF Over
  <1> HIDE DEF H, C, R, A, B, T
  <1>2. Val(Times(h, rec), H * C, e * e) /\ Val(r, R * e, e * e)
    BY <1>1, ValTimes, ValScale
  <1>3. H * C = R * e
    BY <1>2, ValOrder
  <1>4. Val(Minus(b, a), B - A, e)
    BY <1>1, ValPlus
  <1>5. Val(Times(Minus(b, a), rec), (B - A) * C, e * e) /\ Val(Times(a, r), A * R, e * e) /\ Val(Times(b, r), B * R, e * e)
    BY <1>1, <1>4, ValTimes
  <1>6. /\ Val(force, ((B - A) * C) * T, (e * e) * e)
        /\ Val(Times(Times(a, r), t), (A * R) * T, (e * e) * e) /\ Val(Times(Times(b, r), t), (B * R) * T, (e * e) * e)
    BY <1>1, <1>5, ValTimes
  <1> HIDE DEF force
  <1>7. Val(Times(h, force), H * (((B - A) * C) * T), e * ((e * e) * e))
    BY <1>1, <1>6, ValTimes
  <1>8. /\ Val(Times(Times(a, r), t), ((A * R) * T) * e, ((e * e) * e) * e)
        /\ Val(Times(Times(b, r), t), ((B * R) * T) * e, ((e * e) * e) * e)
    BY <1>1, <1>6, ValScale
  <1>9. e * ((e * e) * e) = ((e * e) * e) * e
    BY <1>1
  <1>10. Val(Plus(Times(h, force), Times(Times(a, r), t)), H * (((B - A) * C) * T) + ((A * R) * T) * e, ((e * e) * e) * e)
    BY <1>7, <1>8, <1>9, ValPlus
  <1>11. H * (((B - A) * C) * T) + ((A * R) * T) * e = ((B * R) * T) * e
    <2>1. H * (((B - A) * C) * T) = ((B - A) * T) * (H * C)
      BY <1>1
    <2>2. ((B - A) * T) * (H * C) = ((B - A) * T) * (R * e)
      BY <1>3
    <2>3. ((B - A) * T) * (R * e) + ((A * R) * T) * e = ((B * R) * T) * e
      BY <1>1
    <2> QED  BY <2>1, <2>2, <2>3
  <1>12. Same(Plus(Times(h, force), Times(Times(a, r), t)), Times(Times(b, r), t))
    BY <1>8, <1>10, <1>11, ValOrder
  <1>13. Same(str, force) /\ force \in Fraction /\ Times(Times(a, r), t) \in Fraction /\ Times(Times(b, r), t) \in Fraction
    BY <1>6 DEF force, Val
  <1>14. Same(Times(h, str), Times(h, force)) /\ Times(h, str) \in Fraction /\ Times(h, force) \in Fraction
    BY <1>13, SameSelf, SameTimes
  <1>15. /\ Same(Plus(Times(h, str), Times(Times(a, r), t)), Plus(Times(h, force), Times(Times(a, r), t)))
         /\ Plus(Times(h, str), Times(Times(a, r), t)) \in Fraction /\ Plus(Times(h, force), Times(Times(a, r), t)) \in Fraction
    BY <1>13, <1>14, SameSelf, SamePlus
  <1> QED  BY <1>12, <1>13, <1>15, SameTrans

\* All of the wind arrives, as far as the column is within Hmix
LEMMA WindAddsUp ==
    ASSUME NEW c \in Columns, NEW str \in [Layers -> Fraction], \A l \in Layers : Same(str[l], BodyForce(c)[l])
    PROVE  Same(Sum([j \in Layers |-> Times(c.h_avg[j], str[j])]),
                Times(Times(WithinHmix(Above(c, nz)), Reciprocal(Hmix)), c.stress))
  <1> DEFINE r == Reciprocal(Hmix)   W(j) == WithinHmix(Above(c, j))
             f == [l \in Layers |-> Times(c.h_avg[l], str[l])]
             g == [j \in Interfaces |-> Times(Times(W(j), r), c.stress)]
  <1>1. /\ Hmix \in Fraction /\ Positive(Hmix) /\ Zero \in Fraction /\ c.stress \in Fraction
        /\ 0 \in Interfaces /\ nz \in Interfaces /\ Layers = 0 .. nz - 1
        /\ \A l \in Layers : l \in Interfaces /\ l + 1 \in Interfaces
    BY ConstantFractions, NonnegativeParts, ColumnParts, LayerFacts DEF Layers
  <1>2. r \in Fraction
    BY <1>1, ReciprocalOfPositive
  <1>3. \A j \in Interfaces : W(j) \in Fraction
    BY <1>1, AboveFacts DEF WithinHmix
  <1>4. W(0) = Zero
    <2>1. ~AtMost(Hmix, Zero)
      BY <1>1 DEF AtMost, Zero, Whole, Positive, Fraction
    <2> QED  BY <2>1, AboveFacts DEF WithinHmix
  <1>5. \A j \in Interfaces : g[j] \in Fraction
    <2> HIDE DEF W, r
    <2> QED  BY <1>1, <1>2, <1>3, TimesIsFraction
  <1>6. Same(Zero, g[0])
    <2>1. g[0] = Times(Times(Zero, r), c.stress)
      BY <1>1, <1>4
    <2> HIDE DEF g, r
    <2>2. Same(Times(Zero, r), Zero) /\ Same(c.stress, c.stress) /\ Times(Zero, r) \in Fraction
      BY <1>1, <1>2, NeutralZero, SameSelf, TimesIsFraction
    <2>3. Same(Times(Times(Zero, r), c.stress), Times(Zero, c.stress)) /\ Times(Times(Zero, r), c.stress) \in Fraction
          /\ Times(Zero, c.stress) \in Fraction
      BY <1>1, <2>2, SameTimes
    <2>4. Same(Times(Zero, c.stress), Zero)
      BY <1>1, NeutralZero
    <2> QED  BY <1>1, <2>1, <2>3, <2>4, SameTrans, SameSym
  <1>7. \A l \in Layers : Same(Plus(f[l], g[l]), g[l + 1])
    <2> TAKE l \in Layers
    <2> DEFINE h == c.h_avg[l]   rec == Reciprocal(Times(Hmix, h))   a == W(l)   b == W(l + 1)   t == c.stress
    <2>1. Positive(h) /\ h \in Fraction /\ str[l] \in Fraction /\ a \in Fraction /\ b \in Fraction
      BY <1>1, <1>3, ColumnParts
    <2>2. Same(Times(h, rec), r) /\ rec \in Fraction
      BY <2>1, ReciprocalSplits
    <2>3. Same(str[l], Times(Times(Minus(b, a), rec), t))
      BY DEF BodyForce
    <2>4. f[l] = Times(h, str[l]) /\ g[l] = Times(Times(a, r), t) /\ g[l + 1] = Times(Times(b, r), t)
      BY <1>1
    <2> HIDE DEF h, rec, a, b, t, r, f, g
    <2>5. Same(Plus(Times(h, str[l]), Times(Times(a, r), t)), Times(Times(b, r), t))
      BY <1>1, <1>2, <2>1, <2>2, <2>3, WindOfLayer DEF t
    <2> QED  BY <2>4, <2>5
  <1>8. \A l \in Layers : f[l] \in Fraction
    BY ColumnParts, TimesIsFraction
  <1>9. Same(SumOver(f, 0 .. nz - 1), g[nz])
    <2> HIDE DEF f, g
    <2> QED  BY <1>1, <1>5, <1>6, <1>7, <1>8, SumIsSame
  <1>10. Sum(f) = SumOver(f, 0 .. nz - 1) /\ g[nz] = Times(Times(W(nz), r), c.stress)
    BY <1>1, SumIsOver
  <1> QED  BY <1>9, <1>10

\* The momentum of a column is what wind and drag leave of it: what it gains in a step is
\* the wind less the drag at the bottom, in the layers and at the top, as diagnosed, and a
\* body force puts into it what of the wind Hmix leaves room for.
THEOREM BudgetAlwaysCloses == Spec => []MomentumBudgetCloses
  <1>1. Init => SolveInv /\ BudgetInv
    <2>1. Init => BudgetInv
      BY DEF Init, BudgetInv, BudgetOK
    <2> QED  BY <2>1, SolveInit
  <1>2. SolveInv /\ BudgetInv /\ [Next]_vars => (SolveInv /\ BudgetInv)'
    BY SolveOfStep, BudgetOfStep
  <1>3. SolveInv /\ BudgetInv => MomentumBudgetCloses
    <2> SUFFICES ASSUME SolveInv, BudgetInv
                 PROVE  MomentumBudgetCloses
      OBVIOUS
    <2>1. column \in Columns /\ x["u"] \in [Layers -> Fraction] /\ x["du_dt_str"] \in [Layers -> Fraction] /\ taux_bot \in Fraction
      BY DEF SolveInv, TypeInv, VcTypeOK, Unknowns
    <2>2. ASSUME pc = "limit"
          PROVE  Same(Sum([j \in Layers |-> Times(column.h[j], du_dt_visc[j])]),
                      Minus(IF column.direct_stress THEN Sum([j \in Layers |-> Times(column.h[j], BodyForce(column)[j])])
                            ELSE column.stress,
                            Plus(taux_bot, Times(column.a[0], x["u"][0]))))
      <3>1. call = "vertvisc_tr"
        BY <2>2 DEF SolveInv, RouteOK, Calls
      <3>2. system = "gl90" /\ surface_stress = IF column.direct_stress THEN Zero ELSE column.stress
        BY <2>2, <3>1 DEF SolveInv, HeldInv, HeldOK
      <3>3. \A l \in Layers : Same(RowIn("vertvisc_tridiag", column, x["u"], l), Given("u", column, surface_stress, l))
        BY <2>2, <3>2 DEF SolveInv, VelocitySolved
      <3>4. Same(taux_bot, Plus(Times(x["u"][nz - 1], column.a[nz]), DragTo(column, x["u"], nz)))
        BY <2>2 DEF BudgetInv, BudgetOK
      <3>5. \A j \in Layers : du_dt_visc[j] = Minus(x["u"][j], column.u[j])
        BY <2>2 DEF BudgetInv, BudgetOK
      <3>6. [j \in Layers |-> Times(column.h[j], du_dt_visc[j])] = [j \in Layers |-> Times(column.h[j], Minus(x["u"][j], column.u[j]))]
        BY <3>5
      <3>7. Same(Sum([j \in Layers |-> Times(column.h[j], Minus(x["u"][j], column.u[j]))]),
                 Minus(IF column.direct_stress THEN Sum([j \in Layers |-> Times(column.h[j], BodyForce(column)[j])])
                       ELSE column.stress,
                       Plus(taux_bot, Times(column.a[0], x["u"][0]))))
        BY <2>1, <3>2, <3>3, <3>4, VelocityBudget
      <3> QED  BY <3>6, <3>7
    <2>3. ASSUME pc = "top", system = "vertvisc_tridiag", column.direct_stress
          PROVE  Same(Sum([j \in Layers |-> Times(column.h_avg[j], x["du_dt_str"][j])]),
                      Times(Times(WithinHmix(Above(column, nz)), Reciprocal(Hmix)), column.stress))
      <3>1. \A l \in Layers : Same(x["du_dt_str"][l], BodyForce(column)[l])
        <4> TAKE l \in Layers
        <4> DEFINE force == BodyForce(column)[l]   h == column.h[l]   f == x["du_dt_str"][l]
        <4>1. Positive(h) /\ h \in Fraction /\ f \in Fraction /\ force \in Fraction
          BY <2>1, ColumnParts, BodyForceIsFraction
        <4>2. Untouched(system, column, x, l)
          BY <2>3 DEF SolveInv, SweepInv, SweepOK
        <4>3. Same(Times(h, f), Times(h, Plus(Zero, force)))
          BY <2>3, <4>2, StartOf DEF Untouched, Solved, Momentum, OfTheWind
        <4> HIDE DEF force, h, f
        <4>4. Plus(Zero, force) \in Fraction /\ Same(Plus(Zero, force), force)
          BY <4>1, ConstantFractions, PlusIsFraction, NeutralZero
        <4>5. Same(f, Plus(Zero, force))
          BY <4>1, <4>3, <4>4, FactorCancels
        <4>6. Same(f, force)
          BY <4>1, <4>4, <4>5, SameTrans
        <4> QED  BY <4>6 DEF f, force
      <3> QED  BY <2>1, <3>1, WindAddsUp
    <2> QED  BY <2>2, <2>3 DEF MomentumBudgetCloses
  <1> QED  BY <1>1, <1>2, <1>3, PTL DEF Spec

-----------------------------------------------------------------------------
\* GL90

\* A sum of differences, of fluxes with the sign of what comes in
LEMMA Telescopes ==
    ASSUME NEW gain \in Fraction, NEW p \in Fraction, NEW q \in Fraction, Same(gain, Minus(p, q))
    PROVE  Same(Plus(gain, Minus(Zero, p)), Minus(Zero, q))
  <1>1. PICK e \in Int, N \in Int, P \in Int, Q \in Int, z \in Int :
          e > 0 /\ Val(gain, N, e) /\ Val(p, P, e) /\ Val(q, Q, e) /\ Val(q, z, e)
    BY Four
  <1>2. Val(Zero, 0, e)
    BY <1>1, ValOfNumbers
  <1>3. Val(Minus(p, q), P - Q, e) /\ Val(Minus(Zero, p), 0 - P, e) /\ Val(Minus(Zero, q), 0 - Q, e)
    BY <1>1, <1>2, ValPlus
  <1>4. Val(Plus(gain, Minus(Zero, p)), N + (0 - P), e)
    BY <1>1, <1>3, ValPlus
  <1>6. N = P - Q
    BY <1>1, <1>3, ValOrder
  <1>5. N + (0 - P) = 0 - Q
    BY <1>1, <1>6
  <1> QED  BY <1>3, <1>4, <1>5, ValOrder

\* The work on a layer whose velocity goes from v to w by what comes in at its top and goes
\* out at its bottom: at most the loss of the flux in the velocity it comes from
LEMMA WorkOfLayer ==
    ASSUME NEW h \in Fraction, Nonnegative(h), NEW a \in Fraction, Nonnegative(a), NEW v \in Fraction, NEW w \in Fraction,
           NEW wm \in Fraction, NEW ft \in Fraction, NEW fb \in Fraction,
           Same(Times(h, Minus(w, v)), Minus(ft, fb)), Same(ft, Times(a, Minus(wm, w)))
    PROVE  AtMost(Plus(Times(Times(v, h), Minus(w, v)), Minus(Zero, Times(wm, ft))), Minus(Zero, Times(w, fb)))
  <1>0. PICK e \in Int : Over(h, e) /\ Over(a, e) /\ Over(v, e) /\ Over(w, e) /\ Over(wm, e) /\ Over(ft, e) /\ Over(fb, e)
    <2>1. PICK e1 \in Int : e1 > 0 /\ Over(h, e1) /\ Over(a, e1) /\ Over(v, e1) /\ Over(w, e1)
      BY CommonOver
    <2>2. PICK e2 \in Int : e2 > 0 /\ Over(wm, e2) /\ Over(ft, e2) /\ Over(fb, e2)
      BY CommonOver
    <2> QED  BY <2>1, <2>2, OverProduct
  <1> DEFINE H == Num(h, e)   A == Num(a, e)   V == Num(v, e)   W == Num(w, e)   P == Num(wm, e)   X == Num(ft, e)   Y == Num(fb, e)
  <1>1. /\ e > 0 /\ Val(h, H, e) /\ Val(a, A, e) /\ Val(v, V, e) /\ Val(w, W, e) /\ Val(wm, P, e) /\ Val(ft, X, e) /\ Val(fb, Y, e)
        /\ H \in Int /\ A \in Int /\ V \in Int /\ W \in Int /\ P \in Int /\ X \in Int /\ Y \in Int
    BY <1>0 DEF Over
  <1> HIDE DEF H, A, V, W, P, X, Y
  <1>2. H >= 0 /\ A >= 0
    BY <1>1, ValSign
  <1>3. e * e \in Int /\ e * e > 0 /\ (e * e) * e \in Int /\ (e * e) * e > 0
    BY <1>1, SignOfProduct
  <1>4. Val(Minus(w, v), W - V, e) /\ Val(Minus(wm, w), P - W, e) /\ Val(Minus(ft, fb), X - Y, e)
    BY <1>1, ValPlus
  <1>5. /\ Val(Times(h, Minus(w, v)), H * (W - V), e * e) /\ Val(Times(a, Minus(wm, w)), A * (P - W), e * e)
        /\ Val(Times(v, h), V * H, e * e) /\ Val(Times(wm, ft), P * X, e * e) /\ Val(Times(w, fb), W * Y, e * e)
    BY <1>1, <1>4, ValTimes
  <1>6. Val(Minus(ft, fb), (X - Y) * e, e * e) /\ Val(ft, X * e, e * e)
    BY <1>1, <1>4, ValScale
  <1>7. H * (W - V) = (X - Y) * e /\ X * e = A * (P - W)
    BY <1>5, <1>6, ValOrder
  <1>8. /\ Val(Times(Times(v, h), Minus(w, v)), (V * H) * (W - V), (e * e) * e)
        /\ Val(Times(wm, ft), (P * X) * e, (e * e) * e) /\ Val(Times(w, fb), (W * Y) * e, (e * e) * e)
        /\ Val(Zero, 0, (e * e) * e)
    BY <1>1, <1>3, <1>4, <1>5, ValTimes, ValScale, ValOfNumbers
  <1>9. Val(Minus(Zero, Times(wm, ft)), 0 - (P * X) * e, (e * e) * e) /\ Val(Minus(Zero, Times(w, fb)), 0 - (W * Y) * e, (e * e) * e)
    BY <1>8, ValPlus
  <1>10. Val(Plus(Times(Times(v, h), Minus(w, v)), Minus(Zero, Times(wm, ft))),
             (V * H) * (W - V) + (0 - (P * X) * e), (e * e) * e)
    BY <1>8, <1>9, ValPlus
  <1>11. (V * H) * (W - V) + (0 - (P * X) * e) <= 0 - (W * Y) * e
    <2>1. (W - V) * (W - V) >= 0 /\ (P - W) * (P - W) >= 0
      BY <1>1
    <2>2. H * ((W - V) * (W - V)) >= 0 /\ A * ((P - W) * (P - W)) >= 0
      BY <1>1, <1>2, <2>1
    <2>3. H * ((W - V) * (W - V)) = (W - V) * ((X - Y) * e)
      <3>1. H * ((W - V) * (W - V)) = (W - V) * (H * (W - V))
        BY <1>1
      <3> QED  BY <1>7, <3>1
    <2>4. A * ((P - W) * (P - W)) = (P - W) * (X * e)
      <3>1. A * ((P - W) * (P - W)) = (P - W) * (A * (P - W))
        BY <1>1
      <3> QED  BY <1>7, <3>1
    <2>5. (V * H) * (W - V) = V * ((X - Y) * e)
      <3>1. (V * H) * (W - V) = V * (H * (W - V))
        BY <1>1
      <3> QED  BY <1>7, <3>1
    <2>6. (V * ((X - Y) * e) + (0 - (P * X) * e)) + (W * Y) * e = 0 - ((W - V) * ((X - Y) * e) + (P - W) * (X * e))
      BY <1>1
    <2>7. (W - V) * ((X - Y) * e) >= 0 /\ (P - W) * (X * e) >= 0
      BY <2>2, <2>3, <2>4
    <2> DEFINE p == (W - V) * ((X - Y) * e)   q == (P - W) * (X * e)
               work == V * ((X - Y) * e)   above == (P * X) * e   below == (W * Y) * e
    <2>8. p \in Int /\ q \in Int /\ work \in Int /\ above \in Int /\ below \in Int
      BY <1>1
    <2>9. (work + (0 - above)) + below = 0 - (p + q) /\ p >= 0 /\ q >= 0
      BY <2>6, <2>7
    <2>10. work + (0 - above) <= 0 - below
      <3> HIDE DEF p, q, work, above, below
      <3> QED  BY <2>8, <2>9
    <2> QED  BY <2>5, <2>10
  <1> QED  BY <1>9, <1>10, <1>11, ValOrder

\* GL90's solve of a column: f solves it for velocities that were u
Gl90Solves(c, f) ==
    \A l \in Layers : Same(RowIn("gl90", c, f, l), Given("du_dt_visc_gl90", c, Zero, l))

\* It has no wind and no drag, and nothing passes the surface and the bottom
LEMMA Gl90Gains ==
    ASSUME NEW c \in Columns, NEW f \in [Layers -> Fraction], Gl90Solves(c, f)
    PROVE  /\ \A j \in Interfaces : Flux("gl90", c, Zero, f, j) \in Fraction
           /\ Same(Flux("gl90", c, Zero, f, 0), Zero) /\ Same(Flux("gl90", c, Zero, f, nz), Zero)
           /\ \A l \in Layers : Same(Times(c.h[l], Minus(f[l], c.u[l])),
                                     Minus(Flux("gl90", c, Zero, f, l), Flux("gl90", c, Zero, f, l + 1)))
  <1> DEFINE s == "gl90"   F(j) == Flux(s, c, Zero, f, j)
  <1>1. /\ Zero \in Fraction /\ 0 \in Layers /\ nz - 1 \in Layers /\ 0 \in Interfaces /\ nz \in Interfaces /\ nz # 0
        /\ \A l \in Layers : /\ c.h[l] \in Fraction /\ c.u[l] \in Fraction /\ f[l] \in Fraction
                             /\ l \in Interfaces /\ l + 1 \in Interfaces
    BY ColumnParts, ConstantFractions, LayerFacts, NzAssumption
  <1>2. \A j \in Interfaces : F(j) \in Fraction
    BY <1>1, FluxOfRow
  <1>3. /\ c.a_gl90[0] \in Fraction /\ Same(c.a_gl90[0], Zero)
        /\ c.a_gl90[nz] \in Fraction /\ Same(c.a_gl90[nz], Zero)
    BY <1>1, ColumnsAssumption DEF ColumnOK, Nonnegative
  <1>4. \A q \in Fraction, a \in Fraction : Same(a, Zero) => Same(Times(a, q), Zero) /\ Times(a, q) \in Fraction
    <2> TAKE q \in Fraction, a \in Fraction
    <2> HAVE Same(a, Zero)
    <2>1. Same(Times(a, q), Times(Zero, q)) /\ Times(a, q) \in Fraction /\ Times(Zero, q) \in Fraction
      BY <1>1, SameSelf, SameTimes
    <2>2. Same(Times(Zero, q), Zero)
      BY NeutralZero
    <2> QED  BY <1>1, <2>1, <2>2, SameTrans
  <1>5. Same(F(nz), Zero)
    <2>1. F(nz) = Times(c.a_gl90[nz], f[nz - 1])
      BY <1>1 DEF Flux, Coupling
    <2> QED  BY <1>1, <1>3, <1>4, <2>1
  <1>6. Same(F(0), Zero)
    <2>1. F(0) = Minus(Zero, Times(c.a_gl90[0], f[0]))
      BY DEF Flux, Coupling
    <2>2. Same(Times(c.a_gl90[0], f[0]), Zero) /\ Times(c.a_gl90[0], f[0]) \in Fraction
      BY <1>1, <1>3, <1>4
    <2>3. /\ Same(Minus(Zero, Times(c.a_gl90[0], f[0])), Minus(Zero, Zero))
          /\ Minus(Zero, Times(c.a_gl90[0], f[0])) \in Fraction /\ Minus(Zero, Zero) \in Fraction
      BY <1>1, <2>2, SameSelf, SamePlus
    <2>4. Same(Minus(Zero, Zero), Zero)
      BY <1>1, NeutralZero
    <2> QED  BY <1>1, <2>1, <2>3, <2>4, SameTrans
  <1>7. ASSUME NEW l \in Layers
        PROVE  Same(Times(c.h[l], Minus(f[l], c.u[l])), Minus(F(l), F(l + 1)))
    <2> DEFINE h == c.h[l]   u == c.u[l]   g == f[l]   row == RowIn(s, c, f, l)
    <2>1. h \in Fraction /\ u \in Fraction /\ g \in Fraction /\ F(l) \in Fraction /\ F(l + 1) \in Fraction
      BY <1>1, <1>2
    <2>2. Same(row, Plus(Times(h, u), Zero))
      BY StartOf DEF Gl90Solves, Given, StressOn
    <2>3. /\ row \in Fraction /\ Plus(Times(h, u), Zero) \in Fraction /\ Times(h, u) \in Fraction
          /\ Times(h, Plus(u, Zero)) \in Fraction /\ Plus(Times(h, Plus(u, Zero)), Zero) \in Fraction
          /\ Plus(u, Zero) \in Fraction
      <3>1. Diagonal(s, c, l) \in Fraction
        BY <1>1, ColumnParts, PlusIsFraction DEF Diagonal
      <3>2. row \in Fraction
        BY <2>1, <3>1, NeighboursAreFractions, TimesIsFraction, PlusIsFraction DEF RowIn
      <3> HIDE DEF row, h, u
      <3> QED  BY <1>1, <2>1, <3>2, TimesIsFraction, PlusIsFraction
    <2>4. Same(row, Plus(Times(h, Plus(u, Zero)), Zero))
      <3> HIDE DEF row, h, u
      <3>1. Same(u, Plus(u, Zero))
        BY <2>1, <2>3, NeutralZero, SameSym
      <3>2. Same(Times(h, u), Times(h, Plus(u, Zero)))
        BY <2>1, <2>3, <3>1, SameSelf, SameTimes
      <3>3. Same(Plus(Times(h, u), Zero), Plus(Times(h, Plus(u, Zero)), Zero))
        BY <1>1, <2>3, <3>2, SameSelf, SamePlus
      <3> QED  BY <2>2, <2>3, <3>3, SameTrans
    <2>5. Same(row, Plus(Times(h, Plus(u, Zero)), IF l = 0 THEN Zero ELSE Zero))
      BY <2>4
    <2>6. Same(Times(h, Minus(g, u)), Gain(s, c, Zero, f, Times(h, Zero), Times(Drag(s, c, l), g), l))
      BY <1>1, <2>5, LayerGains
    <2>7. Gain(s, c, Zero, f, Times(h, Zero), Times(Drag(s, c, l), g), l)
             = Minus(Plus(Times(h, Zero), Minus(F(l), F(l + 1))), Times(Zero, g))
      BY DEF Gain, Drag
    <2> DEFINE m == Minus(F(l), F(l + 1))
    <2> HIDE DEF F, h, u, g
    <2>8. m \in Fraction /\ Times(h, Zero) \in Fraction /\ Times(Zero, g) \in Fraction /\ Times(h, Minus(g, u)) \in Fraction
      BY <1>1, <2>1, PlusIsFraction, TimesIsFraction
    <2> HIDE DEF m
    <2>9. Same(Times(h, Zero), Zero) /\ Same(Times(Zero, g), Zero) /\ Same(m, m)
      BY <2>1, <2>8, NeutralZero, SameSelf
    <2>10. Same(Plus(Times(h, Zero), m), Plus(Zero, m)) /\ Plus(Times(h, Zero), m) \in Fraction /\ Plus(Zero, m) \in Fraction
      BY <1>1, <2>8, <2>9, SamePlus
    <2>11. Same(Plus(Zero, m), m)
      BY <2>8, NeutralZero
    <2>12. Same(Plus(Times(h, Zero), m), m)
      BY <2>8, <2>10, <2>11, SameTrans
    <2>13. /\ Same(Minus(Plus(Times(h, Zero), m), Times(Zero, g)), Minus(m, Zero))
           /\ Minus(Plus(Times(h, Zero), m), Times(Zero, g)) \in Fraction /\ Minus(m, Zero) \in Fraction
      BY <1>1, <2>8, <2>9, <2>10, <2>12, SamePlus
    <2>14. Same(Minus(m, Zero), m)
      BY <2>8, NeutralZero
    <2>15. Same(Minus(Plus(Times(h, Zero), m), Times(Zero, g)), m)
      BY <2>8, <2>13, <2>14, SameTrans
    <2>16. Same(Times(h, Minus(g, u)), Minus(Plus(Times(h, Zero), m), Times(Zero, g)))
      BY <2>6, <2>7 DEF m
    <2>17. Same(Times(h, Minus(g, u)), m)
      BY <2>8, <2>13, <2>15, <2>16, SameTrans
    <2> QED  BY <2>17 DEF m, h, u, g
  <1> QED  BY <1>2, <1>5, <1>6, <1>7

\* Zero taken from zero
LEMMA LessNothing ==
    ASSUME NEW p \in Fraction, Same(p, Zero)
    PROVE  Same(Minus(Zero, p), Zero) /\ Minus(Zero, p) \in Fraction /\ Same(Zero, Minus(Zero, p))
  <1>1. Zero \in Fraction
    BY ConstantFractions
  <1>2. Same(Minus(Zero, p), Minus(Zero, Zero)) /\ Minus(Zero, p) \in Fraction /\ Minus(Zero, Zero) \in Fraction
    BY <1>1, SameSelf, SamePlus
  <1>3. Same(Minus(Zero, Zero), Zero)
    BY <1>1, NeutralZero
  <1>4. Same(Minus(Zero, p), Zero)
    BY <1>1, <1>2, <1>3, SameTrans
  <1> QED  BY <1>1, <1>2, <1>4, SameSym

\* GL90 moves momentum between the layers
LEMMA Gl90Redistributes ==
    ASSUME NEW c \in Columns, NEW f \in [Layers -> Fraction], Gl90Solves(c, f)
    PROVE  Same(Sum([j \in Layers |-> Times(c.h[j], Minus(f[j], c.u[j]))]), Zero)
  <1> DEFINE F(j) == Flux("gl90", c, Zero, f, j)
             gain == [j \in Layers |-> Times(c.h[j], Minus(f[j], c.u[j]))]
             g == [j \in Interfaces |-> Minus(Zero, F(j))]
  <1>1. /\ \A j \in Interfaces : F(j) \in Fraction
        /\ Same(F(0), Zero) /\ Same(F(nz), Zero)
        /\ \A l \in Layers : Same(gain[l], Minus(F(l), F(l + 1)))
    BY Gl90Gains
  <1>2. /\ Zero \in Fraction /\ 0 \in Interfaces /\ nz \in Interfaces /\ Layers = 0 .. nz - 1
        /\ \A l \in Layers : l \in Interfaces /\ l + 1 \in Interfaces
    BY ConstantFractions, LayerFacts DEF Layers
  <1>3. \A l \in Layers : gain[l] \in Fraction
    BY ColumnParts, PlusIsFraction, TimesIsFraction
  <1>4. Sum(gain) = SumOver(gain, 0 .. nz - 1)
    BY <1>2, SumIsOver
  <1> HIDE DEF F, gain
  <1>5. /\ Same(Zero, Minus(Zero, F(0))) /\ Same(Minus(Zero, F(nz)), Zero) /\ Minus(Zero, F(nz)) \in Fraction
        /\ \A j \in Interfaces : g[j] \in Fraction
    BY <1>1, <1>2, LessNothing, PlusIsFraction
  <1>6. \A l \in Layers : Same(Plus(gain[l], g[l]), g[l + 1])
    BY <1>1, <1>2, <1>3, Telescopes
  <1>7. g[0] = Minus(Zero, F(0)) /\ g[nz] = Minus(Zero, F(nz))
    BY <1>2
  <1>8. Same(SumOver(gain, 0 .. nz - 1), g[nz]) /\ SumOver(gain, 0 .. nz - 1) \in Fraction
    <2>1. Same(Zero, g[0])
      BY <1>5, <1>7
    <2> HIDE DEF g
    <2>2. \A j \in Interfaces : Same(SumOver(gain, 0 .. j - 1), g[j])
      BY <1>3, <1>5, <1>6, <2>1, SumIsSame
    <2> QED  BY <1>2, <1>3, <2>2, PartialSums
  <1>9. Same(SumOver(gain, 0 .. nz - 1), Zero)
    <2> HIDE DEF g
    <2> QED  BY <1>2, <1>5, <1>7, <1>8, SameTrans
  <1> QED  BY <1>4, <1>9 DEF gain

\* and takes energy from the velocities it found
LEMMA Gl90Dissipates ==
    ASSUME NEW c \in Columns, NEW f \in [Layers -> Fraction], Gl90Solves(c, f)
    PROVE  AtMost(Sum([j \in Layers |-> Times(Times(c.u[j], c.h[j]), Minus(f[j], c.u[j]))]), Zero)
  <1> DEFINE F(j) == Flux("gl90", c, Zero, f, j)
             From(j) == f[IF j = 0 THEN 0 ELSE j - 1]
             work == [j \in Layers |-> Times(Times(c.u[j], c.h[j]), Minus(f[j], c.u[j]))]
             g == [j \in Interfaces |-> Minus(Zero, Times(From(j), F(j)))]
  <1>1. /\ \A j \in Interfaces : F(j) \in Fraction
        /\ Same(F(0), Zero) /\ Same(F(nz), Zero)
        /\ \A l \in Layers : Same(Times(c.h[l], Minus(f[l], c.u[l])), Minus(F(l), F(l + 1)))
    BY Gl90Gains
  <1>2. /\ Zero \in Fraction /\ 0 \in Interfaces /\ nz \in Interfaces /\ Layers = 0 .. nz - 1
        /\ \A l \in Layers : l \in Interfaces /\ l + 1 \in Interfaces
        /\ \A l \in Layers : /\ c.h[l] \in Fraction /\ Nonnegative(c.h[l]) /\ c.u[l] \in Fraction /\ f[l] \in Fraction
    BY ConstantFractions, LayerFacts, ColumnParts, NonnegativeParts DEF Layers
  <1>15. \A l \in Layers : From(l + 1) = f[l]
    <2> TAKE l \in Layers
    <2>1. l \in Int /\ l + 1 # 0 /\ (l + 1) - 1 = l
      BY LayerFacts
    <2> QED  BY <2>1
  <1>3. \A j \in Interfaces : From(j) \in Fraction
    <2> TAKE j \in Interfaces
    <2>1. (IF j = 0 THEN 0 ELSE j - 1) \in Layers
      BY NzAssumption DEF Interfaces, Layers
    <2> QED  BY <2>1
  <1>4. \A l \in Layers : work[l] \in Fraction
    BY <1>2, PlusIsFraction, TimesIsFraction
  <1>5. Sum(work) = SumOver(work, 0 .. nz - 1)
    BY <1>2, SumIsOver
  <1>6. \A l \in Layers : \E a \in Fraction : Nonnegative(a) /\ Same(F(l), Times(a, Minus(From(l), f[l])))
    <2> TAKE l \in Layers
    <2> DEFINE a == Coupling("gl90", c, l)
    <2>1. a \in Fraction /\ Nonnegative(a)
      BY <1>2, ColumnParts
    <2>2. F(l) \in Fraction /\ f[l] \in Fraction /\ From(l) \in Fraction /\ Minus(From(l), f[l]) \in Fraction
      BY <1>1, <1>2, <1>3, PlusIsFraction
    <2>3. CASE l = 0
      <3> DEFINE q == Minus(f[l], f[l])
      <3>1. Same(q, Zero) /\ q \in Fraction /\ From(l) = f[l]
        BY <2>2, <2>3, NeutralZero, PlusIsFraction
      <3> HIDE DEF a, q
      <3>2. Same(Times(a, q), Times(a, Zero)) /\ Times(a, q) \in Fraction /\ Times(a, Zero) \in Fraction
        BY <1>2, <2>1, <3>1, SameSelf, SameTimes
      <3>3. Same(Times(a, Zero), Zero)
        BY <2>1, NeutralZero
      <3>4. Same(Zero, Times(a, q))
        BY <1>2, <3>2, <3>3, SameTrans, SameSym
      <3>5. Same(F(l), Zero)
        BY <1>1, <2>3
      <3>6. Same(F(l), Times(a, q))
        <4> HIDE DEF F
        <4> QED  BY <1>2, <2>2, <3>2, <3>4, <3>5, SameTrans
      <3> QED  BY <2>1, <3>1, <3>6 DEF q
    <2>4. CASE l # 0
      <3>1. F(l) = Times(a, Minus(From(l), f[l])) /\ l # nz
        BY <2>4, NzAssumption DEF Flux, Layers
      <3>2. Same(F(l), Times(a, Minus(From(l), f[l])))
        <4> HIDE DEF F, a
        <4> QED  BY <2>2, <3>1, SameSelf
      <3> QED  BY <2>1, <3>2
    <2> QED  BY <2>3, <2>4
  <1>7. \A l \in Layers : work[l] = Times(Times(c.u[l], c.h[l]), Minus(f[l], c.u[l]))
    OBVIOUS
  <1> HIDE DEF F, From, work
  <1>8. \A j \in Interfaces : Times(From(j), F(j)) \in Fraction /\ g[j] \in Fraction
    BY <1>1, <1>2, <1>3, TimesIsFraction, PlusIsFraction
  <1>9. \A j \in {0, nz} : Same(Times(From(j), F(j)), Zero)
    <2> TAKE j \in {0, nz}
    <2>1. j \in Interfaces /\ Same(F(j), Zero) /\ F(j) \in Fraction /\ From(j) \in Fraction
      BY <1>1, <1>2, <1>3
    <2>2. Same(Times(From(j), F(j)), Times(From(j), Zero)) /\ Times(From(j), Zero) \in Fraction
      BY <1>2, <2>1, SameSelf, SameTimes
    <2>3. Same(Times(From(j), Zero), Zero)
      BY <2>1, NeutralZero
    <2> QED  BY <1>2, <1>8, <2>1, <2>2, <2>3, SameTrans
  <1>10. /\ g[0] = Minus(Zero, Times(From(0), F(0))) /\ g[nz] = Minus(Zero, Times(From(nz), F(nz)))
    BY <1>2
  <1>11. Same(Zero, g[0]) /\ Same(g[nz], Zero) /\ g[0] \in Fraction /\ g[nz] \in Fraction
    <2> HIDE DEF g
    <2> QED  BY <1>2, <1>8, <1>9, <1>10, LessNothing
  <1>12. \A l \in Layers : AtMost(Plus(work[l], g[l]), g[l + 1])
    <2> TAKE l \in Layers
    <2>1. PICK a \in Fraction : Nonnegative(a) /\ Same(F(l), Times(a, Minus(From(l), f[l])))
      BY <1>6
    <2>2. /\ c.h[l] \in Fraction /\ Nonnegative(c.h[l]) /\ c.u[l] \in Fraction /\ f[l] \in Fraction
          /\ From(l) \in Fraction /\ F(l) \in Fraction /\ F(l + 1) \in Fraction
      BY <1>1, <1>2, <1>3
    <2>3. AtMost(Plus(Times(Times(c.u[l], c.h[l]), Minus(f[l], c.u[l])), Minus(Zero, Times(From(l), F(l)))),
                 Minus(Zero, Times(f[l], F(l + 1))))
      BY <1>1, <2>1, <2>2, WorkOfLayer
    <2>4. g[l] = Minus(Zero, Times(From(l), F(l))) /\ g[l + 1] = Minus(Zero, Times(f[l], F(l + 1)))
      BY <1>2, <1>15
    <2> QED  BY <1>7, <2>3, <2>4
  <1>13. AtMost(SumOver(work, 0 .. nz - 1), g[nz]) /\ SumOver(work, 0 .. nz - 1) \in Fraction
    <2> HIDE DEF g
    <2>1. Bounds(TRUE, Zero, g[0]) /\ \A l \in Layers : Bounds(TRUE, Plus(work[l], g[l]), g[l + 1])
      BY <1>2, <1>11, <1>12, SameIsAtMost DEF Bounds
    <2>2. \A j \in Interfaces : Bounds(TRUE, SumOver(work, 0 .. j - 1), g[j])
      BY <1>4, <1>8, <2>1, SumIsBounded
    <2> QED  BY <1>2, <1>4, <2>2, PartialSums DEF Bounds
  <1>14. AtMost(SumOver(work, 0 .. nz - 1), Zero)
    <2> HIDE DEF g
    <2> QED  BY <1>2, <1>11, <1>13, SameIsAtMost, AtMostTrans
  <1> QED  BY <1>5, <1>14 DEF work

LEMMA Gl90OfStep == SolveInv /\ Gl90OnlyDissipates /\ [Next]_vars => Gl90OnlyDissipates'
  <1> SUFFICES ASSUME SolveInv, Gl90OnlyDissipates, [Next]_vars
               PROVE  Gl90OnlyDissipates'
    OBVIOUS
  <1>1. CASE DiagnoseGL90
    <2> DEFINE f == x["du_dt_visc_gl90"]   u == column.u   h == column.h
    <2>1. /\ pc = "up" /\ k = 0 /\ system = "gl90" /\ pc' = "diagnose" /\ column' = column
          /\ x' = [x EXCEPT !["du_dt_visc_gl90"] = Difference(f, du_dt_visc)]
          /\ KE_u' = [j \in Layers |-> Times(Times(du_dt_visc[j], h[j]), Difference(f, du_dt_visc)[j])]
      BY <1>1 DEF DiagnoseGL90, SolveIsDone
    <2>2. du_dt_visc = u
      BY <2>1 DEF SolveInv, RouteOK, Calls, HeldInv, HeldOK
    <2>3. column \in Columns /\ f \in [Layers -> Fraction] /\ x \in [Unknowns -> [Layers -> Fraction]] /\ "du_dt_visc_gl90" \in Unknowns
      BY DEF SolveInv, TypeInv, VcTypeOK, Unknowns
    <2>4. Gl90Solves(column, f)
      <3> SUFFICES ASSUME NEW l \in Layers
                   PROVE  Same(RowIn("gl90", column, f, l), Given("du_dt_visc_gl90", column, Zero, l))
        BY DEF Gl90Solves
      <3>1. FullRow("gl90", column, surface_stress, x, l)
        BY <2>1, SolveIsFull DEF SolveInv
      <3>2. Same(RowIn("gl90", column, f, l), Given("du_dt_visc_gl90", column, surface_stress, l))
        BY <3>1 DEF FullRow, Solved
      <3>3. Given("du_dt_visc_gl90", column, surface_stress, l) = Given("du_dt_visc_gl90", column, Zero, l)
        BY DEF Given, StressOn
      <3> QED  BY <3>2, <3>3
    <2>5. \A j \in Layers : Difference(f, du_dt_visc)[j] = Minus(f[j], u[j])
      BY <2>2 DEF Difference
    <2>6. x'["du_dt_visc_gl90"] = Difference(f, du_dt_visc)
      BY <2>1, <2>3
    <2>7. [j \in Layers |-> Times(h[j], x'["du_dt_visc_gl90"][j])] = [j \in Layers |-> Times(h[j], Minus(f[j], u[j]))]
      BY <2>5, <2>6
    <2>8. KE_u' = [j \in Layers |-> Times(Times(u[j], h[j]), Minus(f[j], u[j]))]
      BY <2>1, <2>2, <2>5
    <2>9. Same(Sum([j \in Layers |-> Times(h[j], Minus(f[j], u[j]))]), Zero)
      BY <2>3, <2>4, Gl90Redistributes
    <2>10. AtMost(Sum([j \in Layers |-> Times(Times(u[j], h[j]), Minus(f[j], u[j]))]), Zero)
      BY <2>3, <2>4, Gl90Dissipates
    <2>11. column'.h = h
      BY <2>1
    <2> QED  BY <2>7, <2>8, <2>9, <2>10, <2>11 DEF Gl90OnlyDissipates
  <1>2. CASE Next /\ ~DiagnoseGL90
    <2>1. pc' # "diagnose"
      <3>1. CASE EliminateTop \/ Eliminate \/ BackSubstitute
        BY <3>1, SweepLeaves DEF SolveInv
      <3>2. CASE ~(EliminateTop \/ Eliminate \/ BackSubstitute)
        BY <1>2, <3>2 DEF Next, HoldVelocity, ApplyBodyForce, ApplySurfaceStress, FinishRemnant, StartGL90, Diagnose, AddDrag, LimitVelocity
      <3> QED  BY <3>1, <3>2
    <2> QED  BY <2>1 DEF Gl90OnlyDissipates
  <1>3. CASE UNCHANGED vars
    BY <1>3 DEF vars, Gl90OnlyDissipates
  <1> QED  BY <1>1, <1>2, <1>3

\* What GL90 is diagnosed to do adds no momentum to a column and no energy to the flow it
\* found, however many layers are coupled and however strongly.
THEOREM Gl90AlwaysDissipates == Spec => []Gl90OnlyDissipates
  <1>1. Init => SolveInv /\ Gl90OnlyDissipates
    <2>1. Init => Gl90OnlyDissipates
      BY DEF Init, Gl90OnlyDissipates
    <2> QED  BY <2>1, SolveInit
  <1>2. SolveInv /\ Gl90OnlyDissipates /\ [Next]_vars => (SolveInv /\ Gl90OnlyDissipates)'
    BY SolveOfStep, Gl90OfStep
  <1> QED  BY <1>1, <1>2, PTL DEF Spec

-----------------------------------------------------------------------------
\* Flux adjustment

\* A face that is being worked on: its correction is in the bracket, the bracket in
\* the limits, and there is room where the error points to.
Bracketed(c, f) ==
    /\ c.du_min <= f.lo /\ f.lo <= f.du /\ f.du <= f.hi /\ f.hi <= c.du_max

Headroom(f) ==
    f.du # 0 => /\ f.err > 0 => f.lo < f.du
                /\ f.err < 0 => f.du < f.hi

RootWithin(c, f) ==
    (c.transport[c.du_min] <= c.target /\ c.target <= c.transport[c.du_max])
      => c.transport[f.lo] <= c.target /\ c.target <= c.transport[f.hi]

\* What holds of a face before the iteration n
FaceInv(c, f, n) ==
    /\ f \in Faces
    /\ c.du_min <= f.du /\ f.du <= c.du_max
    /\ c.use_3d => Abs(f.du - f.at) <= 1
    /\ f.do_I => /\ Bracketed(c, f)
                 /\ RootWithin(c, f)
                 /\ c.use_3d => f.at = f.du
                 /\ n <= MaxItts => /\ f.err = c.transport[f.du] - c.target
                                    /\ Headroom(f)

\* The two directions: what they have in common
Alike(z, m) ==
    /\ z.do_I = m.do_I /\ z.du = m.du /\ z.at = m.at
    /\ z.do_I => z = m

IInv ==
    /\ FluxColumnOK(col)
    /\ itt \in 1 .. MaxItts + 1
    /\ face \in [Directions -> Faces]
    /\ \A d \in Directions : FaceInv(col, face[d], itt)
    /\ Alike(face["zonal"], face["meridional"])

-----------------------------------------------------------------------------
\* Half way is between the two, and short of an end that is not the start.
LEMMA HalfwayBetween ==
    ASSUME NEW a \in Int, NEW b \in Int
    PROVE  /\ Halfway(a, b) \in Int
           /\ a <= b => a <= Halfway(a, b) /\ Halfway(a, b) <= b
           /\ a < b => Halfway(a, b) < b
           /\ b <= a => b <= Halfway(a, b) /\ Halfway(a, b) <= a
           /\ b < a => b < Halfway(a, b)
  BY DEF Halfway

LEMMA AbsNat == ASSUME NEW a \in Int PROVE Abs(a) \in Nat
  BY DEF Abs

\* Before a step: the bracket ends at the correction, and has room on the other side.
LEMMA TightenedInv ==
    ASSUME NEW c, FluxColumnOK(c), NEW f \in Faces, NEW n \in 1 .. MaxItts,
           FaceInv(c, f, n), f.do_I
    PROVE  LET g == Tightened(f)
           IN  /\ g \in Faces
               /\ g.du = f.du /\ g.at = f.at /\ g.err = f.err /\ g.best = f.best
               /\ Bracketed(c, g) /\ RootWithin(c, g) /\ Headroom(g)
               /\ g.do_I => g.err # 0
               /\ g.err > 0 => g.hi = g.du
               /\ g.err < 0 => g.lo = g.du
  <1> DEFINE g == Tightened(f)
  <1>1. /\ g \in Faces
        /\ g.du = f.du /\ g.at = f.at /\ g.err = f.err /\ g.best = f.best
        /\ g.do_I => g.err # 0
        /\ g.hi = IF f.err > 0 THEN f.du ELSE f.hi
        /\ g.lo = IF f.err < 0 THEN f.du ELSE f.lo
    BY DEF Tightened, Faces
  <1>2. /\ c.du_min \in Int /\ c.du_max \in Int
        /\ c.transport \in [c.du_min .. c.du_max -> Int] /\ c.target \in Int
    BY DEF FluxColumnOK
  <1>3. /\ f.err = c.transport[f.du] - c.target
        /\ Bracketed(c, f) /\ Headroom(f) /\ RootWithin(c, f)
    BY MaxIttsAssumption DEF FaceInv
  <1>4. f.du \in Int /\ f.lo \in Int /\ f.hi \in Int /\ f.err \in Int
    BY DEF Faces
  <1> HIDE DEF g
  <1>5. Bracketed(c, g)
    BY <1>1, <1>2, <1>3, <1>4 DEF Bracketed
  <1>6. Headroom(g)
    BY <1>1, <1>3, <1>4 DEF Headroom
  <1>7. RootWithin(c, g)
    <2>1. c.transport[f.du] \in Int
      BY <1>2, <1>3, <1>4 DEF Bracketed
    <2>2. CASE f.err > 0
      BY <2>1, <2>2, <1>1, <1>2, <1>3, <1>4 DEF RootWithin
    <2>3. CASE f.err < 0
      BY <2>1, <2>3, <1>1, <1>2, <1>3, <1>4 DEF RootWithin
    <2>4. CASE f.err = 0
      BY <2>4, <1>1, <1>3, <1>4 DEF RootWithin
    <2>5. QED BY <2>2, <2>3, <2>4, <1>4
  <1>8. QED BY <1>1, <1>4, <1>5, <1>6, <1>7 DEF g

\* A step against the error stays in the bracket and on the side the error points
\* to. If the face goes on, the correction is off the end that was ahead of it; if it
\* is done, it moved by a unit at most.
LEMMA SteppedInv ==
    ASSUME NEW g \in Faces, NEW ddu \in Int, NEW small \in BOOLEAN,
           g.do_I, g.lo <= g.du, g.du <= g.hi, Headroom(g),
           g.err # 0, g.err > 0 => ddu < 0, g.err < 0 => ddu > 0
    PROVE  LET s == Stepped(g, ddu, small)
           IN  /\ s \in Faces
               /\ s.lo = g.lo /\ s.hi = g.hi /\ s.at = g.at
               /\ s.err = g.err /\ s.best = g.best
               /\ g.lo <= s.du /\ s.du <= g.hi
               /\ ~s.do_I => Abs(s.du - g.du) <= 1
               /\ g.err > 0 => s.du <= g.du /\ (s.do_I /\ s.du # 0 => g.lo < s.du)
               /\ g.err < 0 => g.du <= s.du /\ (s.do_I /\ s.du # 0 => s.du < g.hi)
  <1> DEFINE s == Stepped(g, ddu, small)
             N == small /\ Negligible(g, ddu)
             newton == g.du + ddu
  <1>1. g.do_I \in BOOLEAN /\ g.du \in Int /\ g.lo \in Int /\ g.hi \in Int /\ g.err \in Int
    BY DEF Faces
  <1>2. newton \in Int
    BY <1>1
  <1>3. CASE N
    <2>1. s = [g EXCEPT !.du = newton, !.do_I = FALSE]
      BY <1>3 DEF Stepped
    <2>2. /\ s \in Faces /\ s.du = newton /\ ~s.do_I
          /\ s.lo = g.lo /\ s.hi = g.hi /\ s.at = g.at /\ s.err = g.err /\ s.best = g.best
      BY <2>1, <1>2 DEF Faces
    <2>3. g.du # 0 /\ Abs(ddu) <= 1
      BY <1>3 DEF Negligible
    <2>4. QED BY <2>2, <2>3, <1>1 DEF Headroom, Abs
  <1>4. CASE ~N /\ ddu > 0 /\ newton >= g.hi
    <2>1. s = [g EXCEPT !.du = Halfway(g.du, g.hi), !.do_I = ~(small /\ Collapsed(g, g.hi))]
      BY <1>4 DEF Stepped
    <2>2. /\ Halfway(g.du, g.hi) \in Int
          /\ g.du <= Halfway(g.du, g.hi) /\ Halfway(g.du, g.hi) <= g.hi
          /\ g.du < g.hi => Halfway(g.du, g.hi) < g.hi
      BY <1>1, HalfwayBetween
    <2>3. /\ s \in Faces /\ s.du = Halfway(g.du, g.hi) 
          /\ s.do_I <=> ~(small /\ Collapsed(g, g.hi))
          /\ s.lo = g.lo /\ s.hi = g.hi /\ s.at = g.at /\ s.err = g.err /\ s.best = g.best
      BY <2>1, <2>2 DEF Faces
    <2>4. QED BY <2>2, <2>3, <1>1, <1>4 DEF Headroom, Abs, Collapsed
  <1>5. CASE ~N /\ ddu <= 0 /\ newton <= g.lo
    <2>1. s = [g EXCEPT !.du = Halfway(g.du, g.lo), !.do_I = ~(small /\ Collapsed(g, g.lo))]
      BY <1>5 DEF Stepped
    <2>2. /\ Halfway(g.du, g.lo) \in Int
          /\ g.lo <= Halfway(g.du, g.lo) /\ Halfway(g.du, g.lo) <= g.du
          /\ g.lo < g.du => g.lo < Halfway(g.du, g.lo)
      BY <1>1, HalfwayBetween
    <2>3. /\ s \in Faces /\ s.du = Halfway(g.du, g.lo)
          /\ s.do_I <=> ~(small /\ Collapsed(g, g.lo))
          /\ s.lo = g.lo /\ s.hi = g.hi /\ s.at = g.at /\ s.err = g.err /\ s.best = g.best
      BY <2>1, <2>2 DEF Faces
    <2>4. QED BY <2>2, <2>3, <1>1, <1>5 DEF Headroom, Abs, Collapsed
  <1>6. CASE ~N /\ ~(ddu > 0 /\ newton >= g.hi) /\ ~(ddu <= 0 /\ newton <= g.lo)
    <2>1. s = [g EXCEPT !.du = newton]
      BY <1>6 DEF Stepped
    <2>2. /\ s \in Faces /\ s.du = newton /\ s.do_I = g.do_I
          /\ s.lo = g.lo /\ s.hi = g.hi /\ s.at = g.at /\ s.err = g.err /\ s.best = g.best
      BY <2>1, <1>2 DEF Faces
    <2>3. QED BY <2>2, <1>1, <1>2, <1>6
  <1>7. QED BY <1>3, <1>4, <1>5, <1>6

-----------------------------------------------------------------------------
\* A face between its correction and the evaluation of its transport. A face that goes
\* on has room where its new error will point to.
Ready(c, g) ==
    /\ g \in Faces
    /\ c.du_min <= g.du /\ g.du <= c.du_max
    /\ ~g.do_I /\ c.use_3d => Abs(g.du - g.at) <= 1
    /\ g.do_I => /\ Bracketed(c, g) /\ RootWithin(c, g)
                 /\ Headroom([g EXCEPT !.err = c.transport[g.du] - c.target])

\* A face that is worked on is corrected within its bracket.
LEMMA CorrectedReady ==
    ASSUME NEW c, FluxColumnOK(c), NEW f, NEW n \in 1 .. MaxItts, FaceInv(c, f, n), f.do_I,
           NEW steep \in BOOLEAN, NEW small \in BOOLEAN, NEW ddu \in Int,
           Possible(f, steep, ddu)
    PROVE  Ready(c, Corrected(c, Tightened(f), n, steep, ddu, small))
  <1> DEFINE t == Tightened(f)
             g == Corrected(c, t, n, steep, ddu, small)
  <1>1. f \in Faces /\ (c.use_3d => f.at = f.du) /\ f.err = c.transport[f.du] - c.target
    BY MaxIttsAssumption DEF FaceInv
  <1>2. /\ t \in Faces
        /\ t.du = f.du /\ t.at = f.at /\ t.err = f.err
        /\ Bracketed(c, t) /\ RootWithin(c, t) /\ Headroom(t)
        /\ t.do_I => t.err # 0
        /\ t.err > 0 => t.hi = t.du
        /\ t.err < 0 => t.lo = t.du
    BY <1>1, TightenedInv
  <1>3. /\ c.du_min \in Int /\ c.du_max \in Int
        /\ c.transport \in [c.du_min .. c.du_max -> Int] /\ c.target \in Int
    BY DEF FluxColumnOK
  <1>4. t.do_I \in BOOLEAN /\ t.du \in Int /\ t.lo \in Int /\ t.hi \in Int /\ t.err \in Int
        /\ t.at \in Int
    BY <1>2 DEF Faces
  <1> HIDE DEF t
  <1>5. CASE ~(t.do_I /\ GoesOn(c, t, n, steep))
    <2>1. /\ g \in Faces /\ ~g.do_I /\ g.du = t.du /\ g.at = t.at
      <3>1. CASE ~t.do_I
        BY <3>1, <1>2 DEF Corrected
      <3>2. CASE t.do_I
        <4>1. g = [t EXCEPT !.do_I = FALSE]
          BY <3>2, <1>5 DEF Corrected
        <4>2. QED BY <4>1, <1>2 DEF Faces
      <3>3. QED BY <3>1, <3>2
    <2>2. c.use_3d => g.du - g.at = 0
      BY <2>1, <1>1, <1>2, <1>4
    <2> HIDE DEF g
    <2>3. QED BY <2>1, <2>2, <1>2, <1>3, <1>4 DEF Ready, Bracketed, Abs, t, g
  <1>6. CASE t.do_I /\ GoesOn(c, t, n, steep)
    <2> DEFINE s == Stepped(t, ddu, small)
    <2>1. g = s
      BY <1>6 DEF Corrected
    <2>2. (t.err > 0 => ddu < 0) /\ (t.err < 0 => ddu > 0)
      BY <1>2 DEF Possible
    <2>3. t.lo <= t.du /\ t.du <= t.hi
      BY <1>2 DEF Bracketed
    <2>4. /\ s \in Faces
          /\ s.lo = t.lo /\ s.hi = t.hi /\ s.at = t.at
          /\ t.lo <= s.du /\ s.du <= t.hi
          /\ ~s.do_I => Abs(s.du - t.du) <= 1
          /\ t.err > 0 => s.du <= t.du /\ (s.do_I /\ s.du # 0 => t.lo < s.du)
          /\ t.err < 0 => t.du <= s.du /\ (s.do_I /\ s.du # 0 => s.du < t.hi)
      BY <1>2, <1>6, <2>2, <2>3, SteppedInv
    <2> HIDE DEF s
    <2>5. s.du \in Int
      BY <2>4 DEF Faces
    <2>6. Bracketed(c, s) /\ RootWithin(c, s) /\ c.du_min <= s.du /\ s.du <= c.du_max
      BY <2>4, <2>5, <1>2, <1>3, <1>4 DEF Bracketed, RootWithin
    <2>7. ~s.do_I /\ c.use_3d => Abs(s.du - s.at) <= 1
      BY <2>4, <1>1, <1>2
    <2>8. ASSUME s.do_I
          PROVE  Headroom([s EXCEPT !.err = c.transport[s.du] - c.target])
      <3> DEFINE e == c.transport[s.du] - c.target
      <3>1. c.transport[s.du] \in Int
        BY <2>5, <2>6, <1>3
      <3>2. t.err = c.transport[t.du] - c.target
        BY <1>1, <1>2
      <3>3. s.du = t.du => e = t.err
        BY <3>2
      <3>4. e \in Int
        BY <3>1, <1>3
      <3>5. LET w == [s EXCEPT !.err = e]
            IN  w.err = e /\ w.du = s.du /\ w.lo = s.lo /\ w.hi = s.hi
        BY <2>4 DEF Faces
      <3> HIDE DEF e
      <3>6. s.du # 0 => (e > 0 => s.lo < s.du) /\ (e < 0 => s.du < s.hi)
        BY <3>3, <3>4, <2>4, <2>5, <2>8, <1>2, <1>4, <1>6
      <3>7. QED BY <3>5, <3>6 DEF Headroom, e
    <2>9. QED BY <2>1, <2>4, <2>6, <2>7, <2>8 DEF Ready, t
  <1>7. QED BY <1>5, <1>6 DEF t

\* Evaluating the transport turns what holds after the correction into what holds
\* before the next iteration, with or without the best error.
LEMMA EvaluatedInv ==
    ASSUME NEW c, FluxColumnOK(c), NEW g, NEW n \in 1 .. MaxItts, Ready(c, g)
    PROVE  /\ Evaluates(c, n) => /\ FaceInv(c, Evaluated(c, g), n + 1)
                                 /\ FaceInv(c, WithBest(Evaluated(c, g)), n + 1)
           /\ ~Evaluates(c, n) => FaceInv(c, g, n + 1)
  <1> DEFINE e == Evaluated(c, g)
             b == WithBest(e)
             err == (IF g.do_I THEN c.transport[g.du] ELSE 0) - c.target
             at == IF g.do_I /\ c.use_3d THEN g.du ELSE g.at
  <1>1. /\ c.du_min \in Int /\ c.du_max \in Int
        /\ c.transport \in [c.du_min .. c.du_max -> Int] /\ c.target \in Int
        /\ c.use_3d \in BOOLEAN
    BY DEF FluxColumnOK
  <1>2. /\ g \in Faces /\ g.do_I \in BOOLEAN
        /\ g.du \in Int /\ g.lo \in Int /\ g.hi \in Int /\ g.at \in Int
    BY DEF Ready, Faces
  <1>3. c.du_min <= g.du /\ g.du <= c.du_max /\ c.transport[g.du] \in Int
    BY <1>1, <1>2 DEF Ready
  <1>4. err \in Int /\ at \in Int
    BY <1>1, <1>2, <1>3
  <1>5. /\ e \in Faces /\ e.do_I = g.do_I /\ e.du = g.du /\ e.lo = g.lo /\ e.hi = g.hi
        /\ e.err = err /\ e.at = at
    <2>1. e = [g EXCEPT !.err = err, !.at = at]
      BY <1>2 DEF Evaluated, Faces
    <2> HIDE DEF e, err, at
    <2>2. QED BY <2>1, <1>2, <1>4 DEF Faces
  <1>6. /\ b \in Faces /\ b.do_I = g.do_I /\ b.du = g.du /\ b.lo = g.lo /\ b.hi = g.hi
        /\ b.err = err /\ b.at = at
    <2> HIDE DEF e, err, at
    <2>1. Abs(e.err) \in Nat
      BY <1>4, <1>5, AbsNat
    <2>2. QED BY <2>1, <1>5 DEF WithBest, Faces
  <1>7. ~g.do_I /\ c.use_3d => Abs(g.du - g.at) <= 1
    BY DEF Ready
  <1>8. c.use_3d => Abs(g.du - at) <= 1 /\ (g.do_I => at = g.du)
    BY <1>2, <1>7 DEF Abs
  <1>9. g.do_I => Bracketed(c, g) /\ RootWithin(c, g)
    BY DEF Ready
  <1>10. g.do_I => /\ err = c.transport[g.du] - c.target
                   /\ g.du # 0 => (err > 0 => g.lo < g.du) /\ (err < 0 => g.du < g.hi)
    BY <1>2 DEF Ready, Headroom, Faces
  <1>11. ASSUME NEW w \in Faces, w.do_I = g.do_I, w.du = g.du, w.lo = g.lo, w.hi = g.hi,
                w.err = err, w.at = at
         PROVE  FaceInv(c, w, n + 1)
    <2> HIDE DEF e, b, err, at
    <2>1. g.do_I => Bracketed(c, w) /\ RootWithin(c, w)
      BY <1>9, <1>11 DEF Bracketed, RootWithin
    <2>2. g.do_I => w.err = c.transport[w.du] - c.target /\ Headroom(w)
      BY <1>10, <1>11 DEF Headroom
    <2>3. QED BY <2>1, <2>2, <1>3, <1>8, <1>11 DEF FaceInv
  <1>12. Evaluates(c, n) => FaceInv(c, e, n + 1) /\ FaceInv(c, b, n + 1)
    <2> HIDE DEF e, b, err, at
    <2>1. QED BY <1>5, <1>6, <1>11
  <1>13. ASSUME ~Evaluates(c, n) PROVE FaceInv(c, g, n + 1)
    <2>1. ~c.use_3d /\ ~(n + 1 <= MaxItts)
      BY <1>13, MaxIttsAssumption DEF Evaluates
    <2>2. QED BY <2>1, <1>2, <1>3, <1>9 DEF FaceInv
  <1>14. QED BY <1>12, <1>13

\* A face that is done keeps its correction and its transports.
LEMMA IdleReady ==
    ASSUME NEW c, NEW f, NEW n, FaceInv(c, f, n), ~f.do_I
    PROVE  Ready(c, f) /\ Ready(c, Tightened(f))
  <1>1. f \in Faces
    BY DEF FaceInv
  <1>2. /\ Tightened(f) \in Faces /\ ~Tightened(f).do_I
        /\ Tightened(f).du = f.du /\ Tightened(f).at = f.at
    BY <1>1 DEF Tightened, Faces
  <1>3. QED BY <1>1, <1>2 DEF Ready, FaceInv

\* Both functions preserve the invariant of the face.
LEMMA IterationInv ==
    ASSUME NEW c, FluxColumnOK(c), NEW f, NEW n \in 1 .. MaxItts, FaceInv(c, f, n),
           NEW steep \in BOOLEAN, NEW small \in BOOLEAN, NEW ddu \in Int,
           Possible(f, steep, ddu)
    PROVE  /\ FaceInv(c, zonal_iteration(c, f, n, steep, ddu, small), n + 1)
           /\ FaceInv(c, meridional_iteration(c, f, n, steep, ddu, small), n + 1)
  <1>1. CASE f.do_I
    <2> DEFINE g == Corrected(c, Tightened(f), n, steep, ddu, small)
    <2>1. Ready(c, g)
      BY <1>1, CorrectedReady
    <2> HIDE DEF g
    <2>2. /\ Evaluates(c, n) => FaceInv(c, Evaluated(c, g), n + 1)
                                /\ FaceInv(c, WithBest(Evaluated(c, g)), n + 1)
          /\ ~Evaluates(c, n) => FaceInv(c, g, n + 1)
      BY <2>1, EvaluatedInv
    <2>3. QED BY <2>2, <1>1 DEF zonal_iteration, meridional_iteration, g
  <1>2. CASE ~f.do_I
    <2>1. f \in Faces
      BY DEF FaceInv
    <2>2. ~Tightened(f).do_I
      BY <1>2, <2>1 DEF Tightened, Faces
    <2>3. /\ Corrected(c, f, n, steep, ddu, small) = f
          /\ Corrected(c, Tightened(f), n, steep, ddu, small) = Tightened(f)
      BY <1>2, <2>2 DEF Corrected
    <2>4. Ready(c, f) /\ Ready(c, Tightened(f))
      BY <1>2, IdleReady
    <2>5. \A g \in {f, Tightened(f)} :
             /\ Evaluates(c, n) => FaceInv(c, Evaluated(c, g), n + 1)
                                   /\ FaceInv(c, WithBest(Evaluated(c, g)), n + 1)
             /\ ~Evaluates(c, n) => FaceInv(c, g, n + 1)
      BY <2>4, EvaluatedInv
    <2>6. FaceInv(c, zonal_iteration(c, f, n, steep, ddu, small), n + 1)
      BY <1>2, <2>3, <2>5 DEF zonal_iteration
    <2>7. FaceInv(c, meridional_iteration(c, f, n, steep, ddu, small), n + 1)
      BY <2>2, <2>3, <2>5 DEF meridional_iteration
    <2>8. QED BY <2>6, <2>7
  <1>3. QED BY <1>1, <1>2

\* The mask covers other statements, and what they leave in common is preserved.
LEMMA IterationAlike ==
    ASSUME NEW c, NEW z \in Faces, NEW m \in Faces, Alike(z, m),
           NEW n, NEW steep, NEW ddu, NEW small
    PROVE  Alike(zonal_iteration(c, z, n, steep, ddu, small),
                 meridional_iteration(c, m, n, steep, ddu, small))
  <1> DEFINE Z == zonal_iteration(c, z, n, steep, ddu, small)
             W == meridional_iteration(c, m, n, steep, ddu, small)
  <1>1. CASE z.do_I
    <2> DEFINE g == Corrected(c, Tightened(z), n, steep, ddu, small)
               e == Evaluated(c, g)
    <2>1. z = m
      BY <1>1 DEF Alike
    <2>2. Z = IF Evaluates(c, n) THEN WithBest(e) ELSE g
      BY <1>1 DEF zonal_iteration
    <2>3. W = IF Evaluates(c, n) THEN (IF g.do_I THEN WithBest(e) ELSE e) ELSE g
      BY <2>1 DEF meridional_iteration
    <2>4. CASE ~Evaluates(c, n) \/ g.do_I
      <3>1. Z = W
        BY <2>2, <2>3, <2>4
      <3>2. QED BY <3>1 DEF Alike
    <2>5. CASE Evaluates(c, n) /\ ~g.do_I
      <3>1. Z = WithBest(e) /\ W = e
        BY <2>2, <2>3, <2>5
      <3>2. WithBest(e).do_I = e.do_I /\ WithBest(e).du = e.du /\ WithBest(e).at = e.at
        BY DEF WithBest
      <3>3. ~e.do_I
        BY <2>5 DEF Evaluated
      <3>4. QED BY <3>1, <3>2, <3>3 DEF Alike
    <2>6. QED BY <2>4, <2>5
  <1>2. CASE ~z.do_I
    <2>1. ~m.do_I /\ z.du = m.du /\ z.at = m.at
      BY <1>2 DEF Alike
    <2> DEFINE t == Tightened(m)
    <2>2. t \in Faces /\ ~t.do_I /\ t.du = m.du /\ t.at = m.at
      BY <2>1 DEF Tightened, Faces
    <2>3. Z = IF Evaluates(c, n) THEN WithBest(Evaluated(c, z)) ELSE z
      BY <1>2 DEF zonal_iteration, Corrected
    <2>4. W = IF Evaluates(c, n) THEN Evaluated(c, t) ELSE t
      <3>1. Corrected(c, t, n, steep, ddu, small) = t
        BY <2>2 DEF Corrected
      <3>2. ~Evaluated(c, t).do_I
        BY <2>2 DEF Evaluated, Faces
      <3>3. QED BY <3>1, <2>2 DEF meridional_iteration
    <2>5. Z.do_I = FALSE /\ Z.du = z.du /\ Z.at = z.at
      BY <1>2, <2>3 DEF WithBest, Evaluated, Faces
    <2> HIDE DEF t
    <2>6. W.do_I = FALSE /\ W.du = t.du /\ W.at = t.at
      BY <2>2, <2>4 DEF Evaluated, Faces
    <2> HIDE DEF Z, W
    <2>7. QED BY <2>1, <2>2, <2>5, <2>6 DEF Alike, Z, W
  <1>3. QED BY <1>1, <1>2

-----------------------------------------------------------------------------
LEMMA InitIInv == FluxInit => IInv
  <1> SUFFICES ASSUME FluxInit PROVE IInv
    OBVIOUS
  <1>1. FluxColumnOK(col)
    BY FluxColumnsAssumption DEF FluxInit
  <1>2. /\ col.du_min \in Int /\ col.du_max \in Int /\ col.du_min <= 0 /\ 0 <= col.du_max
        /\ col.transport \in [col.du_min .. col.du_max -> Int] /\ col.target \in Int
        /\ col.do_I_in \in BOOLEAN
    BY <1>1 DEF FluxColumnOK
  <1>3. col.transport[0] - col.target \in Int
    BY <1>2
  <1>4. Abs(col.transport[0] - col.target) \in Nat
    BY <1>3, AbsNat
  <1>5. FluxStart(col) \in Faces
    BY <1>2, <1>3, <1>4 DEF FluxStart, Faces
  <1>6. FaceInv(col, FluxStart(col), 1)
    BY <1>2, <1>5 DEF FaceInv, FluxStart, Bracketed, RootWithin, Headroom, Abs
  <1>7. face = [d \in Directions |-> FluxStart(col)] /\ itt = 1
    BY DEF FluxInit
  <1>8. QED BY <1>1, <1>5, <1>6, <1>7, MaxIttsAssumption DEF IInv, Alike, Directions

LEMMA NextIInv == IInv /\ [FluxNext]_fluxVars => IInv'
  <1> SUFFICES ASSUME IInv, [FluxNext]_fluxVars PROVE IInv'
    OBVIOUS
  <1>1. CASE Iterate
    <2>1. PICK ddu \in Steps, steep \in BOOLEAN, small \in BOOLEAN :
            /\ \A d \in Directions : Possible(face[d], steep, ddu)
            /\ face' = [d \in Directions |->
                          IF d = "zonal"
                          THEN zonal_iteration(col, face[d], itt, steep, ddu, small)
                          ELSE meridional_iteration(col, face[d], itt, steep, ddu, small)]
      BY <1>1 DEF Iterate
    <2>2. itt \in 1 .. MaxItts /\ itt' = itt + 1 /\ col' = col
      BY <1>1, MaxIttsAssumption DEF Iterate, IInv
    <2>3. ddu \in Int
      BY <2>1, StepsAssumption
    <2>4. FluxColumnOK(col) /\ \A d \in Directions : FaceInv(col, face[d], itt)
      BY DEF IInv
    <2>5. /\ FaceInv(col, zonal_iteration(col, face["zonal"], itt, steep, ddu, small), itt + 1)
          /\ FaceInv(col, meridional_iteration(col, face["meridional"], itt, steep, ddu, small),
                     itt + 1)
      BY <2>1, <2>2, <2>3, <2>4, IterationInv DEF Directions
    <2>6. Alike(zonal_iteration(col, face["zonal"], itt, steep, ddu, small),
                meridional_iteration(col, face["meridional"], itt, steep, ddu, small))
      BY IterationAlike DEF IInv, Directions
    <2>7. /\ face'["zonal"] = zonal_iteration(col, face["zonal"], itt, steep, ddu, small)
          /\ face'["meridional"]
                = meridional_iteration(col, face["meridional"], itt, steep, ddu, small)
          /\ face' = [d \in Directions |-> face'[d]]
      BY <2>1 DEF Directions
    <2>8. \A d \in Directions : FaceInv(col', face'[d], itt')
      BY <2>2, <2>5, <2>7 DEF Directions
    <2>9. face' \in [Directions -> Faces]
      BY <2>7, <2>8 DEF FaceInv
    <2>10. itt' \in 1 .. MaxItts + 1
      BY <2>2, MaxIttsAssumption
    <2>11. QED BY <2>2, <2>4, <2>6, <2>7, <2>8, <2>9, <2>10 DEF IInv
  <1>2. CASE Finished \/ UNCHANGED fluxVars
    BY <1>2 DEF Finished, fluxVars, IInv
  <1>3. QED BY <1>1, <1>2 DEF FluxNext

LEMMA IInvAlways == FluxSpec => []IInv
  BY InitIInv, NextIInv, PTL DEF FluxSpec

LEMMA IInvImplies ==
    IInv => TypeOK /\ DuWithinLimits /\ RootStaysBracketed /\ TransportIsCurrent /\ DirectionsAgree
  <1> SUFFICES ASSUME IInv
               PROVE  TypeOK /\ DuWithinLimits /\ RootStaysBracketed /\ TransportIsCurrent
                        /\ DirectionsAgree
    OBVIOUS
  <1>1. TypeOK
    BY DEF IInv, TypeOK
  <1>2. DuWithinLimits
    BY DEF IInv, FaceInv, DuWithinLimits
  <1>3. RootStaysBracketed
    BY DEF IInv, FaceInv, RootWithin, RootStaysBracketed
  <1>4. TransportIsCurrent
    BY DEF IInv, FaceInv, TransportIsCurrent
  <1>5. DirectionsAgree
    BY DEF IInv, Alike, DirectionsAgree
  <1>6. QED BY <1>1, <1>2, <1>3, <1>4, <1>5

\* The state keeps its shape: in particular the best error is never negative.
THEOREM FluxAdjustTypeCorrect == FluxSpec => []TypeOK
  BY IInvAlways, IInvImplies, PTL

\* The correction never leaves the limits that keep the CFL number in bounds, though a
\* negligible step is taken before they are looked at.
THEOREM CorrectionWithinLimits == FluxSpec => []DuWithinLimits
  BY IInvAlways, IInvImplies, PTL

\* A root that the limits bracket stays bracketed, whatever Newton's method proposes.
THEOREM RootIsKept == FluxSpec => []RootStaysBracketed
  BY IInvAlways, IInvImplies, PTL

\* The transports handed back belong to the correction handed back.
THEOREM TransportsAreCurrent == FluxSpec => []TransportIsCurrent
  BY IInvAlways, IInvImplies, PTL

\* The zonal and the meridional function find the same correction and transports.
THEOREM DirectionsDoNotMatter == FluxSpec => []DirectionsAgree
  BY IInvAlways, IInvImplies, PTL
=============================================================================
