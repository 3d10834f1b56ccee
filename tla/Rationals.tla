------------------------------ MODULE Rationals ------------------------------
(****************************************************************************)
(* The doubles of the numerical code, without rounding: fractions <<n, d>>  *)
(* in lowest terms, d >= 0.  A division by zero gives what it gives in the  *)
(* code: <<1, 0>> and <<-1, 0>> are the infinities and <<0, 0>> is NaN,     *)
(* which answers FALSE to every comparison.                                 *)
(****************************************************************************)
LOCAL INSTANCE Integers

RECURSIVE Gcd(_, _)
Gcd(a, b) == IF b = 0 THEN a ELSE Gcd(b, a % b)

AbsInt(n) == IF n < 0 THEN -n ELSE n
Sgn(n) == IF n < 0 THEN -1 ELSE IF n = 0 THEN 0 ELSE 1

\* The fraction n / d, d >= 0.
Frac(n, d) ==
  IF d = 0 THEN <<Sgn(n), 0>> ELSE LET g == Gcd(d, n % d) IN <<n \div g, d \div g>>

Rat(n) == <<n, 1>>
Zero == Rat(0)
One == Rat(1)
Half == <<1, 2>>
Infinity == <<1, 0>>
NaN == <<0, 0>>

a ++ b == IF a[2] = b[2] THEN (IF a[2] /= 0 THEN Frac(a[1] + b[1], a[2]) ELSE IF a = b THEN a ELSE NaN)
          ELSE Frac(a[1] * b[2] + b[1] * a[2], a[2] * b[2])
Neg(a) == <<-a[1], a[2]>>
a -- b == a ++ Neg(b)
a ** b == Frac(a[1] * b[1], a[2] * b[2])
a // b == IF b[2] = 0 THEN (IF b[1] = 0 \/ a[2] = 0 THEN NaN ELSE Zero)
                       ELSE Frac((IF b[1] < 0 THEN -a[1] ELSE a[1]) * b[2], a[2] * AbsInt(b[1]))

a \prec b == a[1] * b[2] < b[1] * a[2]
a \preceq b == a \prec b \/ (a = b /\ a /= NaN)

Larger(a, b) == IF a \prec b THEN b ELSE a
Smaller(a, b) == IF b \prec a THEN b ELSE a
AbsRat(a) == <<AbsInt(a[1]), a[2]>>

\* The S-shaped function that stands for the sigmoid, and its derivative: what the bounds
\* rely on is that it grows from 0 to 1, convex below zero and concave above.
Sigmoid(x) == Half ++ (x // (Rat(2) ** (One ++ AbsRat(x))))
SigmoidDerivative(x) == One // (Rat(2) ** ((One ++ AbsRat(x)) ** (One ++ AbsRat(x))))

\* FloatUtils::round: to the nearest integer, halves to the even one.
Round(a) ==
  LET f == a[1] \div a[2]
      up == 2 * (a[1] - f * a[2])
  IN  Rat(IF up > a[2] \/ (up = a[2] /\ f % 2 = 1) THEN f + 1 ELSE f)

\* Sum and product of the values of a function with a finite domain.
RECURSIVE SumOver(_, _), ProductOver(_, _)
SumOver(f, S) == IF S = {} THEN Zero ELSE LET i == CHOOSE x \in S : TRUE IN f[i] ++ SumOver(f, S \ {i})
ProductOver(f, S) == IF S = {} THEN One ELSE LET i == CHOOSE x \in S : TRUE IN f[i] ** ProductOver(f, S \ {i})
RatSum(f) == SumOver(f, DOMAIN f)
RatProduct(f) == ProductOver(f, DOMAIN f)
LargestOf(S) == CHOOSE x \in S : \A y \in S : y \preceq x
SmallestOf(S) == CHOOSE x \in S : \A y \in S : x \preceq y
==============================================================================
