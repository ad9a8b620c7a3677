------------------------------ MODULE Fractions ------------------------------
(* Exact values for what the kernels compute in reals: fractions of integers   *)
(* over a positive integer, in lowest terms as far as TLC is concerned.        *)
EXTENDS Integers

Fraction == {q \in [num : Int, den : Int] : q.den > 0}

Magnitude(n) == IF n < 0 THEN -n ELSE n

gcd[m \in Nat, n \in Nat] == IF n = 0 THEN m ELSE gcd[n, m % n]

\* n / d with the common divisor g taken out, if that is what it is: all that the
\* proofs have to know about gcd
WithoutDivisor(n, d, g) ==
    IF g \in 1..d /\ n = g * (n \div g) /\ d = g * (d \div g)
    THEN [num |-> n \div g, den |-> d \div g]
    ELSE [num |-> n, den |-> d]

Ratio(n, d) == WithoutDivisor(n, d, gcd[Magnitude(n), d])

Whole(n) == [num |-> n, den |-> 1]
Zero == Whole(0)
One == Whole(1)

Plus(p, q) == Ratio(p.num * q.den + q.num * p.den, p.den * q.den)
Minus(p, q) == Ratio(p.num * q.den - q.num * p.den, p.den * q.den)
Times(p, q) == Ratio(p.num * q.num, p.den * q.den)
Reciprocal(p) == [num |-> p.den, den |-> p.num]

\* By value: lowest terms or not
AtMost(p, q) == p.num * q.den <= q.num * p.den
Below(p, q) == p.num * q.den < q.num * p.den
Same(p, q) == p.num * q.den = q.num * p.den
Absolute(p) == [p EXCEPT !.num = Magnitude(p.num)]
=============================================================================
