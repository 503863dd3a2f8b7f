----------------------------- MODULE Rationals -----------------------------
(***************************************************************************)
(* Exact rationals in lowest terms with a positive denominator.  Intervals *)
(* have ends at Infinity and its negative, and NaN is what has no value    *)
(* among them: an indefinite form, or an irrational number.                *)
(***************************************************************************)
EXTENDS Integers, Sequences, FiniteSets, SequencesExt

gcd[a, b \in Nat] == IF b = 0 THEN a ELSE gcd[b, a % b]
Abs(n) == IF n < 0 THEN -n ELSE n

Infinity == <<1, 0>>
NaN == <<0, 0>>

Ratio(n, d) ==
  LET g == gcd[Abs(n), Abs(d)]
      sign == IF d < 0 THEN -1 ELSE 1
  IN IF g = 0 THEN NaN ELSE <<sign * (n \div g), sign * (d \div g)>>
Whole(n) == <<n, 1>>

Plus(x, y) ==
  IF x[2] = 0 /\ y[2] = 0 THEN (IF x = y THEN x ELSE NaN)
  ELSE Ratio(x[1] * y[2] + y[1] * x[2], x[2] * y[2])
Mul(x, y) == Ratio(x[1] * y[1], x[2] * y[2])
Neg(x) == <<-x[1], x[2]>>
Over(x, y) == Ratio(x[1] * y[2], x[2] * y[1])
MinusProduct(x, y, z) == Plus(x, Neg(Mul(y, z)))
AddAll(seq) == FoldLeft(Plus, Whole(0), seq)

Less(x, y) ==
  IF x[2] = 0 /\ y[2] = 0 THEN x[1] < y[1] ELSE x[1] * y[2] < y[1] * x[2]
AtMost(x, y) == Less(x, y) \/ x = y
Least(S) == CHOOSE x \in S : \A y \in S : AtMost(x, y)
Most(S) == CHOOSE x \in S : \A y \in S : AtMost(y, x)

IsWhole(x) == x[2] = 1
HasValue(x) == x[2] # 0

\* x to the power n; a zero to a negative power is infinite, as pow() says.
IntPower(x, n) ==
  LET base == IF n >= 0 THEN x ELSE Over(Whole(1), x)
      raised[k \in Nat] == IF k = 0 THEN Whole(1) ELSE Mul(base, raised[k - 1])
  IN raised[Abs(n)]

\* The square root of x >= 0 between rationals, which meet where it is rational.
RootBelow(x) ==
  IF x[2] = 0 THEN x
  ELSE LET k == x[1] * x[2] IN Ratio(CHOOSE i \in 0 .. k : i * i <= k /\ k < (i + 1) * (i + 1), x[2])
RootAbove(x) ==
  LET r == RootBelow(x) IN IF x[2] = 0 \/ Mul(r, r) = x THEN r ELSE Plus(r, Ratio(1, x[2]))
Exactly(low, high) == IF low = high THEN low ELSE NaN

\* x >= 0 to a power that is a multiple of one half, between rationals.
PowerBelow(x, p) ==
  IntPower(IF IsWhole(p) THEN x ELSE IF p[1] > 0 THEN RootBelow(x) ELSE RootAbove(x), p[1])
PowerAbove(x, p) ==
  IntPower(IF IsWhole(p) THEN x ELSE IF p[1] > 0 THEN RootAbove(x) ELSE RootBelow(x), p[1])
Power(x, p) == IntPower(IF IsWhole(p) THEN x ELSE Exactly(RootBelow(x), RootAbove(x)), p[1])

\* The exponential between powers of 2 and 3, and the logarithm by its tangents.
Floor(x) == x[1] \div x[2]
Ceiling(x) == -((-x[1]) \div x[2])
ExpReach == 4
ExpBelow(x) ==
  IF x[2] = 0 THEN (IF x[1] > 0 THEN x ELSE Whole(0))
  ELSE LET n == Floor(x)
       IN IF n > ExpReach THEN IntPower(Whole(2), ExpReach)
          ELSE IF n < -ExpReach THEN Whole(0) ELSE IntPower(Whole(IF n < 0 THEN 3 ELSE 2), n)
ExpAbove(x) ==
  IF x[2] = 0 THEN (IF x[1] > 0 THEN x ELSE Whole(0))
  ELSE LET n == Ceiling(x)
       IN IF n > ExpReach THEN Infinity
          ELSE IF n < -ExpReach THEN IntPower(Whole(2), -ExpReach)
          ELSE IntPower(Whole(IF n < 0 THEN 2 ELSE 3), n)
LogBelow(x) == IF x[2] = 0 THEN x ELSE Plus(Whole(1), Neg(Over(Whole(1), x)))
LogAbove(x) == Plus(x, Whole(-1))
=============================================================================
