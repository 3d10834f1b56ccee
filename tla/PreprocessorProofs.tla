------------------------- MODULE PreprocessorProofs -------------------------
(***************************************************************************)
(* Proofs about Preprocessor, for queries of any size: the preparation of  *)
(* the equations and constraints, the rounds of tightening and the merging *)
(* of variables lose no solution and call no query infeasible that has     *)
(* one; and, as long as no variable is eliminated, what solves the query   *)
(* tightened solves the query given.                                       *)
(* The loops over addends, equations and constraints are courses of Loops. *)
(***************************************************************************)
EXTENDS Preprocessor, TLAPS, FiniteSetTheorems, WellFoundedInduction

-----------------------------------------------------------------------------
(* Sums *)

SumStep(f, x, i) == x + f[i]
SumGood(f, x, i) == x \in Int
Sums == INSTANCE Loops WITH Step <- SumStep, Good <- SumGood

Numbers(f, n) == n \in Nat /\ \A i \in 1 .. n : f[i] \in Int

\* g holds the partial sums of f
Partial(g, f, n) ==
    g \in [0 .. n -> Int] /\ g[0] = 0 /\ (\A i \in 1 .. n : g[i] = g[i - 1] + f[i]) /\ Plus(f, n) = g[n]

\* The partial sums of a sequence, the last of which is Plus
LEMMA SumCourse ==
    ASSUME NEW n, NEW f, Numbers(f, n)
    PROVE  \E g : Partial(g, f, n)
  <1> DEFINE sum[i \in 0 .. n] == IF i = 0 THEN 0 ELSE sum[i - 1] + f[i]
  <1>1. n \in Nat
    BY DEF Numbers
  <1>2. PICK h : Sums!Course(h, f, 0, n)
    BY <1>1, Sums!CourseExists
  <1>3. sum = [i \in 0 .. n |-> IF i = 0 THEN 0 ELSE sum[i - 1] + f[i]]
    BY <1>2, Zenon DEF Sums!Course, SumStep
  <1>4. Plus(f, n) = sum[n]
    BY DEF Plus
  <1> HIDE DEF sum
  <1>5. Sums!Course(sum, f, 0, n) /\ Sums!Started(f, 0, n) /\ Sums!Kept(f, n)
    BY <1>3 DEF Sums!Course, SumStep, Sums!Started, Sums!Kept, SumGood, Numbers
  <1>6. \A i \in 0 .. n : SumGood(f, sum[i], i)
    BY <1>5, Sums!CourseKeeps
  <1> QED BY <1>1, <1>3, <1>4, <1>6 DEF SumGood, Partial

\* A sum of integers is one
LEMMA SumTyped ==
    ASSUME NEW n, NEW f, Numbers(f, n)
    PROVE  Plus(f, n) \in Int
  <1>1. PICK g : Partial(g, f, n)
    BY SumCourse
  <1> QED BY <1>1 DEF Partial, Numbers

\* A sum grows with its terms.
LEMMA SumGrows ==
    ASSUME NEW n, NEW f, NEW h, Numbers(f, n), Numbers(h, n), \A i \in 1 .. n : f[i] <= h[i]
    PROVE  Plus(f, n) <= Plus(h, n)
  <1>1. PICK F : Partial(F, f, n)
    BY SumCourse
  <1>2. PICK H : Partial(H, h, n)
    BY SumCourse
  <1> DEFINE T == {i \in 0 .. n : F[i] <= H[i]}
  <1>3. n \in Nat /\ 0 \in T
    BY <1>1, <1>2 DEF Partial, Numbers
  <1>4. ASSUME NEW i \in 1 .. n, i - 1 \in T
        PROVE  i \in T
    <2>1. F[i] = F[i - 1] + f[i] /\ H[i] = H[i - 1] + h[i] /\ f[i] <= h[i] /\ F[i - 1] <= H[i - 1]
      BY <1>1, <1>2, <1>4 DEF Partial
    <2>2. F[i - 1] \in Int /\ H[i - 1] \in Int /\ f[i] \in Int /\ h[i] \in Int
      BY <1>1, <1>2, <1>3 DEF Partial, Numbers
    <2> QED BY <2>1, <2>2
  <1>5. \A i \in 0 .. n : i \in T
    <2> HIDE DEF T
    <2> QED BY <1>3, <1>4, Sums!Induction
  <1> QED BY <1>1, <1>2, <1>3, <1>5 DEF Partial

\* Sums of the same terms are equal
LEMMA SumSame ==
    ASSUME NEW n, NEW f, NEW h, Numbers(f, n), \A i \in 1 .. n : f[i] = h[i]
    PROVE  Plus(f, n) = Plus(h, n)
  <1>1. Numbers(h, n) /\ (\A i \in 1 .. n : f[i] <= h[i]) /\ (\A i \in 1 .. n : h[i] <= f[i])
    BY DEF Numbers
  <1>2. Plus(f, n) <= Plus(h, n) /\ Plus(h, n) <= Plus(f, n)
    BY <1>1, SumGrows
  <1> QED BY <1>1, <1>2, SumTyped

\* Changing one term changes the sum by as much.
LEMMA SumExcept ==
    ASSUME NEW n, NEW f, NEW h, Numbers(f, n), Numbers(h, n), NEW k \in 1 .. n,
           \A i \in (1 .. n) \ {k} : f[i] = h[i]
    PROVE  Plus(f, n) - f[k] = Plus(h, n) - h[k]
  <1>1. PICK F : Partial(F, f, n)
    BY SumCourse
  <1>2. PICK H : Partial(H, h, n)
    BY SumCourse
  <1> DEFINE T == {i \in 0 .. n : F[i] - H[i] = IF i < k THEN 0 ELSE f[k] - h[k]}
  <1>3. n \in Nat /\ 0 \in T
    BY <1>1, <1>2 DEF Partial, Numbers
  <1>4. ASSUME NEW i \in 1 .. n, i - 1 \in T
        PROVE  i \in T
    <2>1. F[i] = F[i - 1] + f[i] /\ H[i] = H[i - 1] + h[i] /\ (i # k => f[i] = h[i])
      BY <1>1, <1>2 DEF Partial
    <2>2. F[i - 1] - H[i - 1] = IF i - 1 < k THEN 0 ELSE f[k] - h[k]
      BY <1>4
    <2>3. /\ F[i - 1] \in Int /\ H[i - 1] \in Int /\ f[i] \in Int /\ h[i] \in Int
          /\ f[k] \in Int /\ h[k] \in Int /\ i \in Int /\ k \in Int
      <3>1. i - 1 \in 0 .. n
        BY <1>3
      <3>2. F[i - 1] \in Int /\ H[i - 1] \in Int
        BY <1>1, <1>2, <3>1 DEF Partial
      <3>3. f[i] \in Int /\ h[i] \in Int /\ f[k] \in Int /\ h[k] \in Int
        BY DEF Numbers
      <3> QED BY <1>3, <3>2, <3>3
    <2>4. F[i] \in Int /\ H[i] \in Int /\ F[i] - H[i] = (F[i - 1] - H[i - 1]) + (f[i] - h[i])
      BY <2>1, <2>3
    <2>5. CASE i < k
      <3>1. F[i - 1] - H[i - 1] = 0 /\ f[i] = h[i]
        BY <2>1, <2>2, <2>3, <2>5
      <3>2. F[i] - H[i] = 0
        BY <2>3, <2>4, <3>1
      <3> QED BY <2>5, <3>2
    <2>6. CASE i = k
      <3>1. F[i - 1] - H[i - 1] = 0
        BY <2>2, <2>3, <2>6
      <3>2. F[i] - H[i] = f[k] - h[k]
        BY <2>3, <2>4, <2>6, <3>1
      <3> QED BY <2>6, <3>2
    <2>7. CASE i > k
      <3>1. F[i - 1] - H[i - 1] = f[k] - h[k] /\ f[i] = h[i]
        BY <2>1, <2>2, <2>3, <2>7
      <3>2. F[i] - H[i] = f[k] - h[k]
        BY <2>3, <2>4, <3>1
      <3> QED BY <2>3, <2>7, <3>2
    <2> QED BY <2>3, <2>5, <2>6, <2>7
  <1>5. \A i \in 0 .. n : i \in T
    <2> HIDE DEF T
    <2> QED BY <1>3, <1>4, Sums!Induction
  <1>6. n \in T /\ ~(n < k)
    BY <1>3, <1>5
  <1>7. F[n] - H[n] = f[k] - h[k]
    BY <1>6
  <1>8. F[n] \in Int /\ H[n] \in Int /\ f[k] \in Int /\ h[k] \in Int
    BY <1>1, <1>2, <1>3 DEF Partial, Numbers
  <1>9. Plus(f, n) = F[n] /\ Plus(h, n) = H[n]
    BY <1>1, <1>2 DEF Partial
  <1> HIDE DEF T
  <1> QED BY <1>7, <1>8, <1>9

\* Leaving out one term
LEMMA SumWithout ==
    ASSUME NEW n \in Nat \ {0}, NEW f, NEW h, NEW k \in 1 .. n, Numbers(f, n),
           \A i \in 1 .. n - 1 : h[i] = f[IF i < k THEN i ELSE i + 1]
    PROVE  Plus(h, n - 1) = Plus(f, n) - f[k]
  <1>1. PICK F : Partial(F, f, n)
    BY SumCourse
  <1>2. PICK m \in Nat : m = n - 1
    OBVIOUS
  <1>3. Numbers(h, m)
    BY <1>2 DEF Numbers
  <1>4. PICK H : Partial(H, h, m)
    BY <1>3, SumCourse
  <1> DEFINE T == {i \in 0 .. m : H[i] = IF i < k THEN F[i] ELSE F[i + 1] - f[k]}
  <1>5. 0 \in T
    <2>1. F[0] = 0 /\ H[0] = 0 /\ f[k] \in Int /\ (k = 1 => F[1] = F[1 - 1] + f[1])
      BY <1>1, <1>4 DEF Partial, Numbers
    <2> QED BY <2>1
  <1>6. ASSUME NEW i \in 1 .. m, i - 1 \in T
        PROVE  i \in T
    <2>1. i \in 1 .. n /\ i + 1 \in 1 .. n /\ (i + 1) - 1 = i /\ (i - 1) + 1 = i
      BY <1>2
    <2>2. H[i] = H[i - 1] + h[i] /\ F[i] = F[i - 1] + f[i] /\ F[i + 1] = F[i] + f[i + 1]
      BY <1>1, <1>4, <2>1, Zenon DEF Partial
    <2>3. H[i - 1] = IF i - 1 < k THEN F[i - 1] ELSE F[i] - f[k]
      BY <1>6, <2>1
    <2>4. h[i] = f[IF i < k THEN i ELSE i + 1]
      BY <1>2
    <2>5. /\ F[i - 1] \in Int /\ F[i] \in Int /\ F[i + 1] \in Int /\ f[i] \in Int /\ f[i + 1] \in Int
          /\ f[k] \in Int /\ H[i - 1] \in Int /\ i \in Int /\ k \in Int
      BY <1>1, <1>2, <1>4, <2>1, SMTT(30) DEF Partial, Numbers
    <2>6. CASE i < k
      BY <2>2, <2>3, <2>4, <2>5, <2>6
    <2>7. CASE i = k
      BY <2>2, <2>3, <2>4, <2>5, <2>7
    <2>8. CASE i > k
      BY <2>2, <2>3, <2>4, <2>5, <2>8
    <2> QED BY <2>5, <2>6, <2>7, <2>8
  <1>7. \A i \in 0 .. m : i \in T
    <2> HIDE DEF T
    <2> QED BY <1>5, <1>6, Sums!Induction
  <1>8. H[m] = (IF m < k THEN F[m] ELSE F[m + 1] - f[k]) /\ F[n] = F[n - 1] + f[n]
    BY <1>1, <1>7 DEF Partial
  <1>9. F[n] \in Int /\ F[n - 1] \in Int /\ f[n] \in Int /\ f[k] \in Int
    BY <1>1, <1>2 DEF Partial, Numbers
  <1>10. CASE k = n
    BY <1>1, <1>2, <1>4, <1>8, <1>9, <1>10 DEF Partial
  <1>11. CASE k < n
    BY <1>1, <1>2, <1>4, <1>8, <1>9, <1>11, SMTT(30) DEF Partial
  <1> QED BY <1>10, <1>11

-----------------------------------------------------------------------------
(* Boxes and tightenings *)

Point(n) == [0 .. n - 1 -> Int]
BoxOver(n) == [(0 .. n - 1) \X {"LB", "UB"} -> Int]
Numeric(T) == \A t \in T : t.value \in Int

\* A point within a box, both of numbers
Boxed(n, box, p) == n \in Nat /\ box \in BoxOver(n) /\ p \in Point(n) /\ Inside(p, box)

\* A bound after tightenings is the old one, or the value of one of them
LEMMA TightenedValue ==
    ASSUME NEW b, NEW T, NEW k \in DOMAIN b
    PROVE  \/ Tightened(b, T)[k] = b[k]
           \/ \E t \in T : t.key = k /\ Tightened(b, T)[k] = t.value
  BY Zenon DEF Tightened, Effective

\* Tightening by numbers that spare a point leaves a box that has it inside.
LEMMA TightenedKeeps ==
    ASSUME NEW n, NEW b, NEW p, NEW T, Boxed(n, b, p), Numeric(T), Meets(p, T)
    PROVE  Boxed(n, Tightened(b, T), p)
  <1>1. DOMAIN b = (0 .. n - 1) \X {"LB", "UB"} /\ DOMAIN Tightened(b, T) = DOMAIN b
    BY DEF Boxed, BoxOver, Tightened
  <1>2. ASSUME NEW k \in DOMAIN b
        PROVE  /\ Tightened(b, T)[k] \in Int
               /\ Respects(p, [key |-> k, value |-> Tightened(b, T)[k]])
    <2>1. CASE Tightened(b, T)[k] = b[k]
      BY <1>1, <2>1 DEF Boxed, BoxOver, Inside
    <2>2. ASSUME NEW t \in T, t.key = k, Tightened(b, T)[k] = t.value
          PROVE  /\ Tightened(b, T)[k] \in Int
                 /\ Respects(p, [key |-> k, value |-> Tightened(b, T)[k]])
      BY <2>2 DEF Meets, Numeric, Respects
    <2> QED BY <2>1, <2>2, TightenedValue
  <1>3. Tightened(b, T) = [k \in DOMAIN b |-> Tightened(b, T)[k]]
    BY DEF Tightened
  <1>4. Tightened(b, T) \in BoxOver(n)
    BY <1>1, <1>2, <1>3, Zenon DEF BoxOver
  <1> QED BY <1>1, <1>2, <1>4 DEF Boxed, Inside

\* The bounds of a variable in a box around a point
LEMMA BoxedBounds ==
    ASSUME NEW n, NEW b, NEW p, Boxed(n, b, p), NEW v \in 0 .. n - 1
    PROVE  /\ p[v] \in Int
           /\ b[<<v, "LB">>] \in Int /\ b[<<v, "UB">>] \in Int
           /\ b[<<v, "LB">>] <= p[v] /\ p[v] <= b[<<v, "UB">>]
  <1>1. <<v, "LB">> \in DOMAIN b /\ <<v, "UB">> \in DOMAIN b
    BY DEF Boxed, BoxOver
  <1> QED BY <1>1, Zenon DEF Boxed, BoxOver, Point, Inside, Respects

\* A point inside a box crosses none of its bounds.
LEMMA NotCrossed ==
    ASSUME NEW n, NEW b, NEW p, Boxed(n, b, p), NEW V, V \subseteq 0 .. n - 1
    PROVE  ~Crossed(b, V)
  <1> SUFFICES ASSUME NEW v \in V, Lb(b, v) > Ub(b, v)
               PROVE  FALSE
    BY DEF Crossed
  <1>1. /\ p[v] \in Int /\ b[<<v, "LB">>] \in Int /\ b[<<v, "UB">>] \in Int
        /\ b[<<v, "LB">>] <= p[v] /\ p[v] <= b[<<v, "UB">>]
    BY BoxedBounds
  <1> QED BY <1>1 DEF Lb, Ub

-----------------------------------------------------------------------------
(* The bounds an equation entails *)

EquationOver(n, eq) ==
    eq.type = "EQ" /\ eq.scalar \in Int /\ eq.addends \in Seq(Int \X (0 .. n - 1))

\* A product of integers is one
LEMMA TimesType == ASSUME NEW a \in Int, NEW b \in Int PROVE a * b \in Int
  BY SMT

\* Multiplication by a number keeps the order, or turns it
LEMMA TimesOrder ==
    ASSUME NEW d \in Int, NEW x \in Int, NEW y \in Int, x <= y
    PROVE  (d >= 0 => d * x <= d * y) /\ (d <= 0 => d * y <= d * x)
  BY SMT

\* The quotient of a number at most d * x, rounded down, is at most x
LEMMA QuotientBelow ==
    ASSUME NEW d \in Nat \ {0}, NEW n \in Int, NEW x \in Int, n <= d * x
    PROVE  n \div d \in Int /\ n \div d <= x
  <1> DEFINE q == n \div d
  <1>1. q \in Int /\ d * q <= n
    BY SMT
  <1> HIDE DEF q
  <1>2. CASE q > x
    <2>1. x + 1 <= q
      BY <1>1, <1>2
    <2>2. d * (x + 1) <= d * q
      BY <1>1, <2>1, TimesOrder
    <2>3. d * (x + 1) = d * x + d
      BY SMT
    <2>4. d * x \in Int /\ d * q \in Int
      BY <1>1, TimesType
    <2> QED BY <1>1, <2>2, <2>3, <2>4, SMT
  <1> QED BY <1>1, <1>2 DEF q

\* The rounded quotient is on the outer side, whatever the sign of the divisor.
LEMMA FloorBelow ==
    ASSUME NEW d \in Int \ {0}, NEW n \in Int, NEW x \in Int,
           d > 0 => n <= d * x, d < 0 => d * x <= n
    PROVE  Floor(n, d) \in Int /\ Floor(n, d) <= x
  <1>1. CASE d > 0
    BY <1>1, QuotientBelow DEF Floor
  <1>2. CASE d < 0
    <2>1. -d \in Nat \ {0} /\ -n \in Int
      BY <1>2
    <2>2. d * x \in Int /\ (-d) * x = -(d * x)
      BY TimesType, SMT
    <2>3. -n <= (-d) * x
      BY <1>2, <2>2
    <2>4. (-n) \div (-d) \in Int /\ (-n) \div (-d) <= x
      BY <2>1, <2>3, QuotientBelow
    <2> QED BY <1>2, <2>4 DEF Floor
  <1> QED BY <1>1, <1>2

\* The quotient of a number at least d * x, rounded up, is at least x, for d of either sign
LEMMA CeilingAbove ==
    ASSUME NEW d \in Int \ {0}, NEW n \in Int, NEW x \in Int,
           d > 0 => d * x <= n, d < 0 => n <= d * x
    PROVE  Ceiling(n, d) \in Int /\ x <= Ceiling(n, d)
  <1>1. d * x \in Int /\ d * (-x) = -(d * x)
    BY TimesType, SMT
  <1>2. Floor(-n, d) \in Int /\ Floor(-n, d) <= -x
    <2>1. -n \in Int /\ -x \in Int /\ (d > 0 => -n <= d * (-x)) /\ (d < 0 => d * (-x) <= -n)
      BY <1>1
    <2> QED BY <2>1, FloorBelow
  <1> QED BY <1>2 DEF Ceiling

\* What an addend is worth at a point, and at the ends of its interval
LEMMA TermBounds ==
    ASSUME NEW n, NEW b, NEW p, Boxed(n, b, p), NEW a \in Int \X (0 .. n - 1)
    PROVE  /\ a[1] * p[a[2]] \in Int
           /\ a[1] * b[End(a, "LB")] \in Int /\ a[1] * b[End(a, "LB")] <= a[1] * p[a[2]]
           /\ a[1] * b[End(a, "UB")] \in Int /\ a[1] * p[a[2]] <= a[1] * b[End(a, "UB")]
  <1> DEFINE d == a[1]
             v == a[2]
             lb == b[<<v, "LB">>]
             ub == b[<<v, "UB">>]
             x == p[v]
  <1>1. d \in Int /\ v \in 0 .. n - 1
    OBVIOUS
  <1>2. x \in Int /\ lb \in Int /\ ub \in Int /\ lb <= x /\ x <= ub
    BY <1>1, BoxedBounds
  <1>3. /\ b[End(a, "LB")] = IF d > 0 THEN lb ELSE ub
        /\ b[End(a, "UB")] = IF d > 0 THEN ub ELSE lb
    BY DEF End, Opposite
  <1> HIDE DEF d, v, lb, ub, x
  <1>4. /\ d * x \in Int /\ d * lb \in Int /\ d * ub \in Int
        /\ (d >= 0 => d * lb <= d * x /\ d * x <= d * ub)
        /\ (d <= 0 => d * x <= d * lb /\ d * ub <= d * x)
    BY <1>1, <1>2, TimesType, TimesOrder
  <1>5. /\ d * x \in Int
        /\ d * b[End(a, "LB")] \in Int /\ d * b[End(a, "LB")] <= d * x
        /\ d * b[End(a, "UB")] \in Int /\ d * x <= d * b[End(a, "UB")]
    BY <1>1, <1>3, <1>4
  <1> QED BY <1>5 DEF d, v, x

\* The other addends leave for addend i at least, and at most, what it is worth.
LEMMA RestBounds ==
    ASSUME NEW n, NEW b, NEW p, Boxed(n, b, p), NEW eq, EquationOver(n, eq),
           SumAt(eq, p) = eq.scalar, NEW i \in DOMAIN eq.addends
    PROVE  LET worth == eq.addends[i][1] * p[eq.addends[i][2]]
           IN  /\ Rest(eq, b, i, "LB") \in Int /\ worth <= Rest(eq, b, i, "LB")
               /\ Rest(eq, b, i, "UB") \in Int /\ Rest(eq, b, i, "UB") <= worth
  <1> DEFINE m == Len(eq.addends)
             f == [j \in DOMAIN eq.addends |-> eq.addends[j][1] * p[eq.addends[j][2]]]
             f0 == [j \in DOMAIN eq.addends |-> IF j = i THEN 0 ELSE f[j]]
             low == [j \in DOMAIN eq.addends |-> IF j = i THEN 0 ELSE eq.addends[j][1] * b[End(eq.addends[j], "LB")]]
             high == [j \in DOMAIN eq.addends |-> IF j = i THEN 0 ELSE eq.addends[j][1] * b[End(eq.addends[j], "UB")]]
  <1>1. m \in Nat /\ DOMAIN eq.addends = 1 .. m /\ eq.scalar \in Int
        /\ \A j \in 1 .. m : eq.addends[j] \in Int \X (0 .. n - 1)
    BY SMTT(30) DEF EquationOver
  <1>2. \A j \in 1 .. m :
           /\ f[j] \in Int /\ f0[j] \in Int /\ low[j] \in Int /\ high[j] \in Int
           /\ low[j] <= f0[j] /\ f0[j] <= high[j] /\ (j # i => f[j] = f0[j])
    <2> SUFFICES ASSUME NEW j \in 1 .. m
                 PROVE  /\ f[j] \in Int /\ f0[j] \in Int /\ low[j] \in Int /\ high[j] \in Int
                        /\ low[j] <= f0[j] /\ f0[j] <= high[j] /\ (j # i => f[j] = f0[j])
      BY Zenon
    <2> DEFINE a == eq.addends[j]
    <2>1. /\ a[1] * p[a[2]] \in Int
          /\ a[1] * b[End(a, "LB")] \in Int /\ a[1] * b[End(a, "LB")] <= a[1] * p[a[2]]
          /\ a[1] * b[End(a, "UB")] \in Int /\ a[1] * p[a[2]] <= a[1] * b[End(a, "UB")]
      BY <1>1, TermBounds, Zenon
    <2> QED BY <1>1, <2>1, SMTT(30)
  <1>3. SumAt(eq, p) = Plus(f, m) /\ f0[i] = 0
        /\ Rest(eq, b, i, "LB") = eq.scalar - Plus(low, m) /\ Rest(eq, b, i, "UB") = eq.scalar - Plus(high, m)
    BY <1>1 DEF SumAt, Rest
  <1>4. f[i] = eq.addends[i][1] * p[eq.addends[i][2]]
    OBVIOUS
  <1> HIDE DEF m, f, f0, low, high
  <1>5. i \in 1 .. m /\ Numbers(f, m) /\ Numbers(f0, m) /\ Numbers(low, m) /\ Numbers(high, m)
    BY <1>1, <1>2 DEF Numbers
  <1>6. Plus(f, m) - f[i] = Plus(f0, m) - f0[i]
    BY <1>2, <1>5, SumExcept
  <1>7. Plus(low, m) <= Plus(f0, m) /\ Plus(f0, m) <= Plus(high, m)
    BY <1>2, <1>5, SumGrows
  <1>8. Plus(f, m) \in Int /\ Plus(f0, m) \in Int /\ Plus(low, m) \in Int /\ Plus(high, m) \in Int
    BY <1>5, SumTyped
  <1>9. f[i] \in Int /\ Plus(f0, m) = eq.scalar - f[i]
    BY <1>1, <1>2, <1>3, <1>5, <1>6, <1>8
  <1>10. /\ Rest(eq, b, i, "LB") \in Int /\ f[i] <= Rest(eq, b, i, "LB")
         /\ Rest(eq, b, i, "UB") \in Int /\ Rest(eq, b, i, "UB") <= f[i]
    <2> DEFINE L == Plus(low, m)
               P == Plus(f0, m)
               U == Plus(high, m)
               s == eq.scalar
               w == f[i]
    <2>1. s \in Int /\ w \in Int /\ L \in Int /\ P \in Int /\ U \in Int /\ P = s - w /\ L <= P /\ P <= U
      BY <1>1, <1>7, <1>8, <1>9
    <2>2. Rest(eq, b, i, "LB") = s - L /\ Rest(eq, b, i, "UB") = s - U
      BY <1>3
    <2> HIDE DEF L, P, U, s, w
    <2>3. s - L \in Int /\ w <= s - L /\ s - U \in Int /\ s - U <= w
      BY <2>1
    <2> QED BY <2>2, <2>3 DEF w
  <1> QED BY <1>4, <1>10

\* The bounds an equation implies (processEquations) spare the points that satisfy it.
LEMMA ImpliedSpares ==
    ASSUME NEW n, NEW b, NEW p, Boxed(n, b, p), NEW eq, EquationOver(n, eq),
           SumAt(eq, p) = eq.scalar, NEW i \in DOMAIN eq.addends
    PROVE  Meets(p, Implied(eq, b, i)) /\ Numeric(Implied(eq, b, i))
  <1> DEFINE a == eq.addends[i]
             d == a[1]
             v == a[2]
             x == p[v]
             side == IF d > 0 THEN "LB" ELSE "UB"
  <1>1. d \in Int /\ v \in 0 .. n - 1 /\ x \in Int
    <2>1. a \in Int \X (0 .. n - 1)
      BY DEF EquationOver
    <2> HIDE DEF a
    <2> QED BY <2>1, BoxedBounds, Zenon
  <1>2. \A t \in Implied(eq, b, i) :
           /\ d # 0
           /\ \/ t = Least(v, Floor(Rest(eq, b, i, Opposite(side)), d))
              \/ t = Most(v, Ceiling(Rest(eq, b, i, side), d))
    BY DEF Implied
  <1>3. /\ Rest(eq, b, i, "LB") \in Int /\ d * x <= Rest(eq, b, i, "LB")
        /\ Rest(eq, b, i, "UB") \in Int /\ Rest(eq, b, i, "UB") <= d * x
    BY RestBounds
  <1> HIDE DEF a, d, v, x
  <1>4. ASSUME d # 0
        PROVE  /\ Floor(Rest(eq, b, i, Opposite(side)), d) \in Int
               /\ Floor(Rest(eq, b, i, Opposite(side)), d) <= x
               /\ Ceiling(Rest(eq, b, i, side), d) \in Int
               /\ x <= Ceiling(Rest(eq, b, i, side), d)
    <2>1. CASE d > 0
      <3>1. side = "LB" /\ Opposite(side) = "UB"
        BY <2>1 DEF Opposite
      <3>2. d \in Int \ {0} /\ (d < 0 => FALSE)
        BY <1>1, <2>1
      <3> HIDE DEF side
      <3>3. Floor(Rest(eq, b, i, "UB"), d) \in Int /\ Floor(Rest(eq, b, i, "UB"), d) <= x
        BY <1>1, <1>3, <3>2, FloorBelow, Zenon
      <3>4. Ceiling(Rest(eq, b, i, "LB"), d) \in Int /\ x <= Ceiling(Rest(eq, b, i, "LB"), d)
        BY <1>1, <1>3, <3>2, CeilingAbove, Zenon
      <3> QED BY <3>1, <3>3, <3>4
    <2>2. CASE d < 0
      <3>1. side = "UB" /\ Opposite(side) = "LB"
        BY <1>1, <2>2 DEF Opposite
      <3>2. d \in Int \ {0} /\ (d > 0 => FALSE)
        BY <1>1, <2>2
      <3> HIDE DEF side
      <3>3. Floor(Rest(eq, b, i, "LB"), d) \in Int /\ Floor(Rest(eq, b, i, "LB"), d) <= x
        BY <1>1, <1>3, <3>2, FloorBelow, Zenon
      <3>4. Ceiling(Rest(eq, b, i, "UB"), d) \in Int /\ x <= Ceiling(Rest(eq, b, i, "UB"), d)
        BY <1>1, <1>3, <3>2, CeilingAbove, Zenon
      <3> QED BY <3>1, <3>3, <3>4
    <2> QED BY <1>1, <1>4, <2>1, <2>2
  <1> HIDE DEF side
  <1>5. ASSUME NEW t \in Implied(eq, b, i)
        PROVE  Respects(p, t) /\ t.value \in Int
    BY <1>1, <1>2, <1>4 DEF Respects, Least, Most, x
  <1> QED BY <1>5 DEF Meets, Numeric

-----------------------------------------------------------------------------
(* Queries and rounds that a point solves *)

Variables(n) == 0 .. n - 1

\* Finite values: Norm takes what is above half of Inf for infinite.
Moderate(n) == [Variables(n) -> -(Inf \div 2) .. Inf \div 2]

Satisfied(n, p) ==
    {eq \in [type : {"EQ"}, addends : Seq(Int \X Variables(n)), scalar : Int] : SumAt(eq, p) = eq.scalar}

\* The constraints a point satisfies, auxiliary variables and what they know included
Relus(n, p) ==
    {c \in [kind : {"relu"}, b : Variables(n), f : Variables(n), aux : Variables(n), state : {<<>>}, obsolete : BOOLEAN] :
        Relu!Holds(c, p) /\ Relu!Linear(c, p)}
AbsoluteValues(n, p) ==
    {c \in [kind : {"abs"}, b : Variables(n), f : Variables(n), posAux : Variables(n), negAux : Variables(n),
            state : {<<>>}, obsolete : BOOLEAN] :
        Abs!Holds(c, p) /\ Abs!Linear(c, p)}
Signs(n, p) ==
    {c \in [kind : {"sign"}, b : Variables(n), f : Variables(n), state : {<<>>}, obsolete : BOOLEAN] : Sign!Holds(c, p)}
Roundings(n, p) ==
    {c \in [kind : {"round"}, b : Variables(n), f : Variables(n), whole : Nat \ {0}, state : {<<>>}, obsolete : BOOLEAN] :
        p[c.f] = RoundTo(p[c.b], c.whole)}

\* What a max knows is right, and leaves the case of the point.
MaxKnows(c, s, p) ==
    /\ s \in MaxOf!States(c)
    /\ s.maxLowerBound <= p[c.f]
    /\ \/ s.haveEliminated /\ p[c.f] = c.maxValueOfEliminated
       \/ \E e \in s.elements : p[c.f] = p[e]
Maxima(n, p) ==
    {c \in [kind : {"max"}, f : Variables(n), elements : SUBSET Variables(n),
            aux : UNION {[E -> Variables(n)] : E \in SUBSET Variables(n)}, maxValueOfEliminated : Int,
            state : [active : BOOLEAN, elements : SUBSET Variables(n), maxLowerBound : Int, haveEliminated : BOOLEAN],
            obsolete : BOOLEAN] :
        /\ DOMAIN c.aux = c.elements /\ c.state.elements = c.elements
        /\ MaxOf!Holds(c, p) /\ MaxOf!Linear(c, p) /\ MaxKnows(c, c.state, p)}

Tightenings(n) == [key : Variables(n) \X {"LB", "UB"}, value : Int]
Disjunctions(n, p) ==
    {c \in [kind : {"disj"}, disjuncts : SUBSET SUBSET Tightenings(n),
            state : [active : BOOLEAN, feasible : SUBSET SUBSET Tightenings(n)], obsolete : BOOLEAN] :
        Disj!Holds(c, p)}

Fulfilled(n, p) ==
    Relus(n, p) \cup AbsoluteValues(n, p) \cup Signs(n, p) \cup Roundings(n, p) \cup Maxima(n, p) \cup Disjunctions(n, p)

\* The queries that have p as a solution, and the rounds on them that have not thrown
Queries(n, p) ==
    [n : {n}, eqs : Seq(Satisfied(n, p)), cons : Seq(Fulfilled(n, p)), box : {b \in BoxOver(n) : Inside(p, b)},
     inputs : Seq(Nat), outputs : Seq(Nat)]
Rounds(n, p) ==
    [query : Queries(n, p), tighter : BOOLEAN, throws : {FALSE}, merged : UNION {[S -> Nat] : S \in SUBSET Nat},
     gone : SUBSET Nat]

\* Tightenings that a point respects
Spared(n, p, T) == T \subseteq Tightenings(n) /\ Meets(p, T)

\* Tightenings that a point respects leave it inside
LEMMA SparedBox ==
    ASSUME NEW n \in Nat, NEW p \in Moderate(n), NEW b \in BoxOver(n), Inside(p, b), NEW T, Spared(n, p, T)
    PROVE  /\ Tightened(b, T) \in BoxOver(n) /\ Inside(p, Tightened(b, T))
           /\ Boxed(n, Tightened(b, T), p)
  <1>1. Boxed(n, b, p)
    <2>1. Inf \div 2 \in Int
      BY DEF Inf
    <2> QED BY <2>1 DEF Boxed, Moderate, Point, Variables
  <1>2. Numeric(T) /\ Meets(p, T)
    BY DEF Spared, Numeric, Tightenings
  <1>3. Boxed(n, Tightened(b, T), p)
    BY <1>1, <1>2, TightenedKeeps
  <1> QED BY <1>3 DEF Boxed

-----------------------------------------------------------------------------
(* processEquations *)

\* An equation tightens nothing the point has not, and is dropped only if it holds
LEMMA ProcessEquationKeeps ==
    ASSUME NEW n \in Nat, NEW p \in Moderate(n), NEW r \in Rounds(n, p), NEW eq \in Satisfied(n, p)
    PROVE  ProcessEquation(r, eq) \in Rounds(n, p)
  <1> DEFINE b == r.query.box
             T == UNION {Implied(eq, b, i) : i \in DOMAIN eq.addends}
             box == Tightened(b, T)
             V == EqVariables(eq)
             done == Fixed(box, V)
             at == [v \in V |-> Lb(box, v)]
  <1>1. b \in BoxOver(n) /\ Inside(p, b) /\ r.throws = FALSE
    BY Zenon DEF Rounds, Queries
  <1>2. EquationOver(n, eq) /\ SumAt(eq, p) = eq.scalar /\ V \subseteq 0 .. n - 1
    BY DEF Satisfied, EquationOver, Variables, EqVariables
  <1>3. Boxed(n, b, p)
    <2>1. Inf \div 2 \in Int
      BY DEF Inf
    <2> QED BY <1>1, <2>1 DEF Boxed, Moderate, Point, Variables
  <1>4. Numeric(T) /\ Meets(p, T)
    <2>1. \A i \in DOMAIN eq.addends : Meets(p, Implied(eq, b, i)) /\ Numeric(Implied(eq, b, i))
      BY <1>2, <1>3, ImpliedSpares
    <2> QED BY <2>1 DEF Meets, Numeric
  <1>5. Boxed(n, box, p)
    <2> HIDE DEF T, b
    <2> QED BY <1>3, <1>4, TightenedKeeps
  <1>6. ~Crossed(box, V)
    <2> HIDE DEF box, V
    <2> QED BY <1>2, <1>5, NotCrossed, Zenon
  <1>7. ~(done /\ SumAt(eq, at) # eq.scalar)
    <2> SUFFICES ASSUME done PROVE SumAt(eq, at) = SumAt(eq, p)
      BY <1>2
    <2>1. \A v \in V : at[v] = p[v] /\ p[v] \in Int
      <3> SUFFICES ASSUME NEW v \in V PROVE at[v] = p[v] /\ p[v] \in Int
        OBVIOUS
      <3>1. /\ p[v] \in Int /\ box[<<v, "LB">>] \in Int /\ box[<<v, "UB">>] \in Int
            /\ box[<<v, "LB">>] <= p[v] /\ p[v] <= box[<<v, "UB">>]
        <4> HIDE DEF box, V
        <4> QED BY <1>2, <1>5, BoxedBounds
      <3>2. box[<<v, "LB">>] = box[<<v, "UB">>] /\ at[v] = box[<<v, "LB">>]
        BY Zenon DEF Fixed, Lb, Ub
      <3> HIDE DEF box, V, at
      <3> QED BY <3>1, <3>2
    <2> DEFINE m == Len(eq.addends)
               f == [i \in DOMAIN eq.addends |-> eq.addends[i][1] * at[eq.addends[i][2]]]
               h == [i \in DOMAIN eq.addends |-> eq.addends[i][1] * p[eq.addends[i][2]]]
    <2>2. m \in Nat /\ DOMAIN eq.addends = 1 .. m /\ \A i \in 1 .. m : eq.addends[i][1] \in Int /\ eq.addends[i][2] \in V
      BY <1>2, SMTT(30) DEF EquationOver, EqVariables
    <2> HIDE DEF at, V
    <2>3. Numbers(f, m) /\ \A i \in 1 .. m : f[i] = h[i]
      BY <2>1, <2>2, TimesType, Zenon DEF Numbers
    <2>4. SumAt(eq, at) = Plus(f, m) /\ SumAt(eq, p) = Plus(h, m)
      BY DEF SumAt
    <2> HIDE DEF f, h, m
    <2> QED BY <2>3, <2>4, SumSame
  <1>8. ProcessEquation(r, eq) =
          [r EXCEPT !.query.box = box, !.tighter = @ \/ box /= b, !.throws = FALSE,
                    !.query.eqs = IF done THEN @ ELSE Append(@, eq)]
    BY <1>1, <1>6, <1>7, Zenon DEF ProcessEquation
  <1>9. box \in BoxOver(n) /\ Inside(p, box)
    BY <1>5 DEF Boxed
  <1> DEFINE eqs == IF done THEN r.query.eqs ELSE Append(r.query.eqs, eq)
             q == [r.query EXCEPT !.box = box, !.eqs = eqs]
             tighter == r.tighter \/ box /= b
  <1>10. ProcessEquation(r, eq) = [r EXCEPT !.query = q, !.tighter = tighter, !.throws = FALSE]
    <2> HIDE DEF box, done, tighter
    <2>1. r = [query |-> r.query, tighter |-> r.tighter, throws |-> r.throws, merged |-> r.merged, gone |-> r.gone]
      BY DEF Rounds
    <2>2. r.query = [n |-> r.query.n, eqs |-> r.query.eqs, cons |-> r.query.cons, box |-> r.query.box,
                     inputs |-> r.query.inputs, outputs |-> r.query.outputs]
      BY DEF Rounds, Queries
    <2> QED BY <1>8, <2>1, <2>2, Zenon DEF tighter
  <1>11. r.query \in Queries(n, p) /\ r.query.eqs \in Seq(Satisfied(n, p))
    BY DEF Rounds, Queries
  <1>12. eqs \in Seq(Satisfied(n, p))
    <2> HIDE DEF done
    <2> QED BY <1>11
  <1>13. tighter \in BOOLEAN
    BY DEF Rounds
  <1> HIDE DEF box, done, eqs, tighter
  <1>14. q \in Queries(n, p)
    BY <1>9, <1>11, <1>12, Zenon DEF Queries
  <1> HIDE DEF q
  <1> QED BY <1>10, <1>13, <1>14, Zenon DEF Rounds

EquationStep(a, x, i) == ProcessEquation(x, a[3][i])
EquationGood(a, x, i) == x \in Rounds(a[1], a[2])
EquationLoop == INSTANCE Loops WITH Step <- EquationStep, Good <- EquationGood

\* The loop of processEquations over the equations of the query
LEMMA ProcessEquationsKeeps ==
    ASSUME NEW n \in Nat, NEW p \in Moderate(n), NEW r \in Rounds(n, p)
    PROVE  ProcessEquations(r) \in Rounds(n, p)
  <1> DEFINE eqs == r.query.eqs
             m == Len(eqs)
             start == [r EXCEPT !.query.eqs = <<>>]
             a == <<n, p, eqs>>
             after[i \in 0 .. m] == IF i = 0 THEN start ELSE ProcessEquation(after[i - 1], eqs[i])
  <1>1. eqs \in Seq(Satisfied(n, p)) /\ m \in Nat /\ start \in Rounds(n, p) /\ \A i \in 1 .. m : eqs[i] \in Satisfied(n, p)
    <2>1. r.query \in Queries(n, p) /\ eqs \in Seq(Satisfied(n, p))
      BY DEF Rounds, Queries
    <2>2. <<>> \in Seq(Satisfied(n, p))
      OBVIOUS
    <2> DEFINE q == [r.query EXCEPT !.eqs = <<>>]
    <2>3. q \in Queries(n, p)
      BY <2>1, <2>2, Zenon DEF Queries
    <2>4. start = [r EXCEPT !.query = q]
      BY DEF Rounds
    <2> HIDE DEF q
    <2>5. start \in Rounds(n, p)
      BY <2>3, <2>4, Zenon DEF Rounds
    <2>6. m \in Nat /\ \A i \in 1 .. m : eqs[i] \in Satisfied(n, p)
      <3> HIDE DEF eqs
      <3> QED BY <2>1
    <2> QED BY <2>1, <2>5, <2>6
  <1>2. PICK h : EquationLoop!Course(h, a, start, m)
    BY <1>1, EquationLoop!CourseExists, Zenon
  <1>3. after = [i \in 0 .. m |-> IF i = 0 THEN start ELSE ProcessEquation(after[i - 1], eqs[i])]
    BY <1>2, ZenonT(30) DEF EquationLoop!Course, EquationStep
  <1>4. ProcessEquations(r) = after[m]
    BY DEF ProcessEquations
  <1> HIDE DEF after, start, m
  <1>5. EquationLoop!Course(after, a, start, m)
    BY <1>3, Zenon DEF EquationLoop!Course, EquationStep
  <1>6. EquationLoop!Started(a, start, m)
    BY <1>1 DEF EquationLoop!Started, EquationGood
  <1>7. EquationLoop!Kept(a, m)
    <2> SUFFICES ASSUME NEW i \in 1 .. m, NEW x \in Rounds(n, p)
                 PROVE  ProcessEquation(x, eqs[i]) \in Rounds(n, p)
      BY DEF EquationLoop!Kept, EquationGood, EquationStep
    <2> HIDE DEF eqs
    <2> QED BY <1>1, ProcessEquationKeeps
  <1>8. \A i \in 0 .. m : EquationGood(a, after[i], i)
    BY <1>5, <1>6, <1>7, EquationLoop!CourseKeeps
  <1> QED BY <1>1, <1>4, <1>8 DEF EquationGood

-----------------------------------------------------------------------------
(* The members of a finite set in their order *)

\* A finite set of numbers has a member of every rank
LEMMA RankExists ==
    ASSUME NEW S, S \subseteq Nat, IsFiniteSet(S), NEW i \in 1 .. Cardinality(S)
    PROVE  \E x \in S : Cardinality({y \in S : y < x}) = i - 1
  <1> DEFINE Below(x) == {y \in S : y < x}
             rank == [x \in S |-> Cardinality(Below(x))]
             T == {k \in 0 .. Cardinality(S) : k = 0 \/ \E x \in S : rank[x] = k - 1}
  <1>1. Cardinality(S) \in Nat
    BY FS_CardinalityType
  <1>2. \A x \in S : IsFiniteSet(Below(x)) /\ Cardinality(Below(x)) \in Nat
    <2> SUFFICES ASSUME NEW x \in S PROVE IsFiniteSet(Below(x)) /\ Cardinality(Below(x)) \in Nat
      OBVIOUS
    <2>1. Below(x) \in SUBSET S
      OBVIOUS
    <2> HIDE DEF Below
    <2> QED BY <2>1, FS_Subset, FS_CardinalityType
  <1>3. \A x \in S : rank[x] = Cardinality(Below(x))
    OBVIOUS
  <1> HIDE DEF rank
  <1>4. 0 \in T
    BY <1>1
  <1>5. ASSUME NEW k \in 1 .. Cardinality(S), k - 1 \in T
        PROVE  k \in T
    <2>1. CASE k = 1
      <3>1. S # {}
        BY <1>1, FS_EmptySet
      <3>2. PICK x \in S : \A y \in S : x <= y
        BY <3>1, Sums!LeastNatural, Zenon
      <3>3. Below(x) = {}
        <4> SUFFICES ASSUME NEW y \in S, y < x PROVE FALSE
          BY Zenon
        <4>1. x \in Nat /\ y \in Nat /\ x <= y
          BY <3>2
        <4> QED BY <4>1
      <3>4. rank[x] = k - 1
        BY <1>3, <2>1, <3>3, FS_EmptySet
      <3> QED BY <3>4, <1>1
    <2>2. CASE k # 1
      <3>1. PICK x \in S : rank[x] = k - 2
        BY <1>1, <1>5, <2>2
      <3> DEFINE U == Below(x) \cup {x}
                 above == S \ U
      <3>2. IsFiniteSet(U) /\ Cardinality(U) = k - 1
        <4>1. x \notin Below(x) /\ IsFiniteSet(Below(x))
          BY <1>2
        <4>2. IsFiniteSet(U) /\ Cardinality(U) = Cardinality(Below(x)) + 1
          <5> HIDE DEF Below
          <5> QED BY <4>1, FS_AddElement
        <4> QED BY <1>1, <1>3, <3>1, <4>2
      <3>3. above # {}
        <4>1. U \subseteq S
          OBVIOUS
        <4>2. U # S
          BY <1>1, <3>2
        <4> QED BY <4>1, <4>2
      <3>4. PICK z \in above : \A y \in above : z <= y
        <4>1. above \subseteq Nat
          BY Zenon
        <4> HIDE DEF above
        <4> QED BY <3>3, <4>1, Sums!LeastNatural, Zenon
      <3>5. Below(z) = U
        <4>1. x \in Nat /\ z \in Nat /\ x < z
          BY <3>4
        <4>2. ASSUME NEW y \in S
              PROVE  y < z <=> (y < x \/ y = x)
          <5>1. y \in Nat /\ (y \in above => z <= y)
            BY <3>4
          <5> QED BY <4>1, <5>1
        <4> QED BY <4>2, Zenon
      <3>6. z \in S /\ rank[z] = k - 1
        BY <1>3, <3>2, <3>4, <3>5
      <3> QED BY <3>6, <1>1
    <2> QED BY <2>1, <2>2
  <1>6. i \in T
    <2> HIDE DEF T
    <2> QED BY <1>1, <1>4, <1>5, Sums!Induction
  <1>7. i # 0
    BY <1>1
  <1> QED BY <1>3, <1>6, <1>7

\* A set in ascending order is a sequence of its members
LEMMA AscendingMember ==
    ASSUME NEW n \in Nat, NEW S, S \subseteq Variables(n)
    PROVE  Ascending(S) \in Seq(S)
  <1>1. S \subseteq Nat /\ IsFiniteSet(S) /\ Cardinality(S) \in Nat
    <2>1. IsFiniteSet(Variables(n)) /\ Variables(n) \subseteq Nat
      BY FS_Interval DEF Variables
    <2> QED BY <2>1, FS_Subset, FS_CardinalityType
  <1>2. ASSUME NEW i \in 1 .. Cardinality(S)
        PROVE  (CHOOSE x \in S : Cardinality({y \in S : y < x}) = i - 1) \in S
    BY <1>1, RankExists, Zenon
  <1>3. Ascending(S) \in [1 .. Cardinality(S) -> S]
    BY <1>2, Zenon DEF Ascending
  <1> QED BY <1>1, <1>3

-----------------------------------------------------------------------------
(* What a constraint entails *)

\* Taking large values for infinite keeps a moderate point
LEMMA NormSpares ==
    ASSUME NEW n \in Nat, NEW p \in Moderate(n), NEW t \in Tightenings(n), Respects(p, t)
    PROVE  [t EXCEPT !.value = Norm(@)] \in Tightenings(n) /\ Respects(p, [t EXCEPT !.value = Norm(@)])
  <1> DEFINE v == t.key[1]
             x == t.value
  <1>1. x \in Int /\ t.key \in Variables(n) \X {"LB", "UB"} /\ v \in Variables(n)
    BY DEF Tightenings
  <1>2. PICK h \in Nat : h = Inf \div 2
    BY DEF Inf
  <1>3. p[v] \in Int /\ -h <= p[v] /\ p[v] <= h
    <2>1. p \in [Variables(n) -> (-h) .. h]
      BY <1>2 DEF Moderate
    <2> HIDE DEF v
    <2> QED BY <1>1, <1>2, <2>1
  <1>7. h <= Inf /\ Inf \in Int
    BY <1>2 DEF Inf
  <1>4. Norm(x) \in Int /\ (x <= p[v] => Norm(x) <= p[v]) /\ (p[v] <= x => p[v] <= Norm(x))
    <2> HIDE DEF v, x
    <2> QED BY <1>1, <1>2, <1>3, <1>7 DEF Norm
  <1>5. [t EXCEPT !.value = Norm(@)] = [key |-> t.key, value |-> Norm(x)]
    BY DEF Tightenings
  <1> QED BY <1>1, <1>3, <1>4, <1>5 DEF Tightenings, Respects

\* A lower bound at or below the value
LEMMA LeastSpared ==
    ASSUME NEW n \in Nat, NEW p, NEW v \in Variables(n), NEW x \in Int, x <= p[v], p[v] \in Int
    PROVE  Least(v, x) \in Tightenings(n) /\ Respects(p, Least(v, x))
  BY DEF Least, Tightenings, Respects

\* An upper bound at or above the value
LEMMA MostSpared ==
    ASSUME NEW n \in Nat, NEW p, NEW v \in Variables(n), NEW x \in Int, p[v] <= x, p[v] \in Int
    PROVE  Most(v, x) \in Tightenings(n) /\ Respects(p, Most(v, x))
  BY DEF Most, Tightenings, Respects

\* The values of a point and the bounds of a box
Reads(b, p, v) ==
    /\ p[v] \in Int /\ b[<<v, "LB">>] \in Int /\ b[<<v, "UB">>] \in Int
    /\ b[<<v, "LB">>] <= p[v] /\ p[v] <= b[<<v, "UB">>]

\* The tightenings a ReLU entails are true of its points
LEMMA ReluEntailed ==
    ASSUME NEW n \in Nat, NEW p \in Point(n), NEW b \in BoxOver(n), Inside(p, b), NEW c \in Relus(n, p)
    PROVE  Spared(n, p, Relu!Entailed(c, <<>>, b))
  <1>1. c.b \in Variables(n) /\ c.f \in Variables(n) /\ c.aux \in Variables(n)
    BY DEF Relus
  <1> DEFINE x == p[c.b]
             y == p[c.f]
             z == p[c.aux]
             bLB == b[<<c.b, "LB">>]
             bUB == b[<<c.b, "UB">>]
             fLB == b[<<c.f, "LB">>]
             fUB == b[<<c.f, "UB">>]
             aLB == b[<<c.aux, "LB">>]
             aUB == b[<<c.aux, "UB">>]
             act == bLB >= 0 \/ fLB > 0 \/ aUB = 0
             inact == bUB < 0 \/ fUB = 0 \/ aLB > 0
             Fine(t) == t \in Tightenings(n) /\ Respects(p, t)
  <1>2. Reads(b, p, c.b) /\ Reads(b, p, c.f) /\ Reads(b, p, c.aux)
    BY <1>1, BoxedBounds DEF Boxed, Reads, Variables
  <1>3. y >= 0 /\ z = y - x /\ (y > 0 => x = y) /\ (y = 0 => x <= 0)
    BY DEF Relus, Relu!Holds, Relu!Linear
  <1>4. /\ x \in Int /\ y \in Int /\ z \in Int
        /\ bLB \in Int /\ bUB \in Int /\ fLB \in Int /\ fUB \in Int /\ aLB \in Int /\ aUB \in Int
        /\ bLB <= x /\ x <= bUB /\ fLB <= y /\ y <= fUB /\ aLB <= z /\ z <= aUB
    BY <1>2 DEF Reads
  <1>5. /\ Relu!Entailed(c, <<>>, b) = IF act THEN Relu!EntailedActive(c, b)
                                       ELSE IF inact THEN Relu!EntailedInactive(c, b) ELSE Relu!EntailedUnknown(c, b)
        /\ Relu!EntailedActive(c, b) =
             {Least(c.b, fLB), Least(c.f, bLB), Most(c.b, fUB), Most(c.f, bUB),
              Least(c.aux, 0), Most(c.aux, 0), Least(c.b, 0), Least(c.f, 0)}
        /\ Relu!EntailedInactive(c, b) =
             {Least(c.f, 0), Most(c.f, 0), Most(c.b, 0), Least(c.aux, 0),
              Most(c.aux, -bLB), Least(c.aux, -bUB), Most(c.b, -aLB), Least(c.b, -aUB)}
        /\ Relu!EntailedUnknown(c, b) =
             {Most(c.b, fUB), Most(c.f, bUB), Least(c.b, -aUB), Most(c.aux, -bLB), Least(c.f, 0), Least(c.aux, 0)}
    BY DEF Relu!Entailed, Relu!EntailedActive, Relu!EntailedInactive, Relu!EntailedUnknown,
       Relu!Least, Relu!Most, Least, Most
  <1> HIDE DEF x, y, z, bLB, bUB, fLB, fUB, aLB, aUB
  <1>6. -bLB \in Int /\ -bUB \in Int /\ -aLB \in Int /\ -aUB \in Int
    BY <1>4
  <1>7. ASSUME act PROVE \A t \in Relu!EntailedActive(c, b) : Fine(t)
    <2>1. x = y /\ z = 0 /\ x >= 0
      BY <1>3, <1>4, <1>7
    <2>2. /\ Fine(Least(c.b, fLB)) /\ Fine(Least(c.f, bLB)) /\ Fine(Least(c.aux, 0)) /\ Fine(Least(c.b, 0)) /\ Fine(Least(c.f, 0))
          /\ Fine(Most(c.b, fUB)) /\ Fine(Most(c.f, bUB)) /\ Fine(Most(c.aux, 0))
      BY <1>1, <1>4, <2>1, LeastSpared, MostSpared DEF x, y, z
    <2> HIDE DEF Fine
    <2> QED BY <1>5, <2>2
  <1>8. ASSUME inact PROVE \A t \in Relu!EntailedInactive(c, b) : Fine(t)
    <2>1. y = 0 /\ z = -x /\ x <= 0 /\ z <= -bLB /\ -bUB <= z /\ x <= -aLB /\ -aUB <= x /\ z >= 0
      BY <1>3, <1>4, <1>8
    <2>2. /\ Fine(Least(c.f, 0)) /\ Fine(Least(c.aux, 0)) /\ Fine(Least(c.aux, -bUB)) /\ Fine(Least(c.b, -aUB))
          /\ Fine(Most(c.f, 0)) /\ Fine(Most(c.b, 0)) /\ Fine(Most(c.aux, -bLB)) /\ Fine(Most(c.b, -aLB))
      BY <1>1, <1>4, <1>6, <2>1, LeastSpared, MostSpared DEF x, y, z
    <2> HIDE DEF Fine
    <2> QED BY <1>5, <2>2
  <1>9. ASSUME ~act, ~inact PROVE \A t \in Relu!EntailedUnknown(c, b) : Fine(t)
    <2>1. x <= fUB /\ y <= bUB /\ -aUB <= x /\ z <= -bLB /\ z >= 0
      BY <1>3, <1>4, <1>9
    <2>2. /\ Fine(Least(c.f, 0)) /\ Fine(Least(c.aux, 0)) /\ Fine(Least(c.b, -aUB))
          /\ Fine(Most(c.b, fUB)) /\ Fine(Most(c.f, bUB)) /\ Fine(Most(c.aux, -bLB))
      BY <1>1, <1>3, <1>4, <1>6, <2>1, LeastSpared, MostSpared DEF x, y, z
    <2> HIDE DEF Fine
    <2> QED BY <1>5, <2>2
  <1>10. \A t \in Relu!Entailed(c, <<>>, b) : Fine(t)
    <2> HIDE DEF Fine, act, inact
    <2> QED BY <1>5, <1>7, <1>8, <1>9
  <1> QED BY <1>10 DEF Spared, Meets

\* The tightenings an absolute value entails are true of its points
LEMMA AbsEntailed ==
    ASSUME NEW n \in Nat, NEW p \in Point(n), NEW b \in BoxOver(n), Inside(p, b), NEW c \in AbsoluteValues(n, p)
    PROVE  Spared(n, p, Abs!Entailed(c, <<>>, b))
  <1>1. c.b \in Variables(n) /\ c.f \in Variables(n) /\ c.posAux \in Variables(n) /\ c.negAux \in Variables(n)
    BY DEF AbsoluteValues
  <1> DEFINE x == p[c.b]
             y == p[c.f]
             pos == p[c.posAux]
             neg == p[c.negAux]
             bLB == b[<<c.b, "LB">>]
             bUB == b[<<c.b, "UB">>]
             fUB == b[<<c.f, "UB">>]
             fLB == Abs!Larger(b[<<c.f, "LB">>], 0)
  <1>2. Reads(b, p, c.b) /\ Reads(b, p, c.f) /\ Reads(b, p, c.posAux) /\ Reads(b, p, c.negAux)
    BY <1>1, BoxedBounds DEF Boxed, Reads, Variables
  <1>3. y >= 0 /\ (y = x \/ y = -x) /\ pos = y - x /\ neg = y + x
    BY DEF AbsoluteValues, Abs!Holds, Abs!Linear
  <1>4. /\ x \in Int /\ y \in Int /\ pos \in Int /\ neg \in Int /\ bLB \in Int /\ bUB \in Int /\ fUB \in Int /\ fLB \in Int
        /\ bLB <= x /\ x <= bUB /\ fLB <= y /\ y <= fUB /\ fLB >= 0
    BY <1>2, <1>3 DEF Reads, Abs!Larger
  <1>5. Abs!Larger(-bLB, bUB) \in Int /\ y <= Abs!Larger(-bLB, bUB)
    BY <1>3, <1>4 DEF Abs!Larger
  <1> DEFINE wide == Abs!Larger(-bLB, bUB)
             Fine(t) == t \in Tightenings(n) /\ Respects(p, t)
             T == Abs!Entailed(c, <<>>, b)
             base == {Abs!Least(c.f, 0), Abs!Least(c.posAux, 0), Abs!Least(c.negAux, 0)}
  <1>6. /\ Abs!EntailedPositive(c, b, fLB) =
             {Abs!Least(c.f, bLB), Abs!Least(c.b, fLB), Abs!Most(c.f, bUB), Abs!Most(c.b, fUB), Abs!Most(c.posAux, 0)}
        /\ Abs!EntailedNegative(c, b, fLB) =
             {Abs!Least(c.f, -bUB), Abs!Least(c.b, -fUB), Abs!Most(c.f, -bLB), Abs!Most(c.b, -fLB), Abs!Most(c.negAux, 0)}
        /\ Abs!EntailedOpen(c, b, fLB) \subseteq
             {Abs!Least(c.b, -fUB), Abs!Most(c.b, fUB), Abs!Most(c.f, wide), Abs!Most(c.posAux, fUB - bLB), Abs!Most(c.negAux, fUB + bUB)}
             \cup (IF fLB > 0 /\ fLB > -bLB THEN {Abs!Least(c.b, fLB), Abs!Most(c.posAux, 0)} ELSE {})
             \cup (IF fLB > 0 /\ fLB > bUB THEN {Abs!Most(c.b, -fLB), Abs!Most(c.negAux, 0)} ELSE {})
    BY DEF Abs!EntailedPositive, Abs!EntailedNegative, Abs!EntailedOpen
  <1>7. T = base \cup (IF bLB >= 0 THEN Abs!EntailedPositive(c, b, fLB)
                       ELSE IF bUB <= 0 THEN Abs!EntailedNegative(c, b, fLB)
                       ELSE Abs!EntailedOpen(c, b, fLB))
    BY DEF Abs!Entailed
  <1> HIDE DEF x, y, pos, neg, bLB, bUB, fUB, fLB, wide, T, base
  <1>8. \A t \in base : Fine(t)
    BY <1>1, <1>3, <1>4 DEF base, x, y, pos, neg, Abs!Least, Tightenings, Respects
  <1>9. ASSUME bLB >= 0 PROVE \A t \in Abs!EntailedPositive(c, b, fLB) : Fine(t)
    <2>1. x = y /\ pos = 0
      BY <1>3, <1>4, <1>9
    <2> QED BY <1>1, <1>4, <1>6, <2>1 DEF x, y, pos, Abs!Least, Abs!Most, Tightenings, Respects
  <1>10. ASSUME bUB <= 0 PROVE \A t \in Abs!EntailedNegative(c, b, fLB) : Fine(t)
    <2>1. x = -y /\ neg = 0
      BY <1>3, <1>4, <1>10
    <2> QED BY <1>1, <1>4, <1>6, <2>1 DEF x, y, neg, Abs!Least, Abs!Most, Tightenings, Respects
  <1>11. \A t \in Abs!EntailedOpen(c, b, fLB) : Fine(t)
    <2>1. /\ -fUB <= x /\ x <= fUB /\ pos <= fUB - bLB /\ neg <= fUB + bUB /\ -fUB \in Int /\ -fLB \in Int
          /\ fUB - bLB \in Int /\ fUB + bUB \in Int
          /\ (fLB > 0 /\ fLB > -bLB => fLB <= x /\ pos = 0)
          /\ (fLB > 0 /\ fLB > bUB => x <= -fLB /\ neg = 0)
      BY <1>3, <1>4
    <2>2. wide \in Int /\ y <= wide
      BY <1>5 DEF wide, y, bLB, bUB
    <2>3. /\ \A v \in {Abs!Least(c.b, -fUB), Abs!Most(c.b, fUB), Abs!Most(c.f, wide), Abs!Most(c.posAux, fUB - bLB), Abs!Most(c.negAux, fUB + bUB)} : Fine(v)
      BY <1>1, <1>4, <2>1, <2>2 DEF x, y, pos, neg, Abs!Least, Abs!Most, Tightenings, Respects
    <2>4. fLB > 0 /\ fLB > -bLB => \A v \in {Abs!Least(c.b, fLB), Abs!Most(c.posAux, 0)} : Fine(v)
      BY <1>1, <1>4, <2>1 DEF x, y, pos, neg, Abs!Least, Abs!Most, Tightenings, Respects
    <2>5. fLB > 0 /\ fLB > bUB => \A v \in {Abs!Most(c.b, -fLB), Abs!Most(c.negAux, 0)} : Fine(v)
      BY <1>1, <1>4, <2>1 DEF x, y, pos, neg, Abs!Least, Abs!Most, Tightenings, Respects
    <2> HIDE DEF Fine
    <2> QED BY <1>6, <2>3, <2>4, <2>5
  <1>12. \A t \in T : Fine(t)
    <2> HIDE DEF Fine
    <2> QED BY <1>4, <1>7, <1>8, <1>9, <1>10, <1>11
  <1> QED BY <1>12 DEF Spared, Meets, T

\* The tightenings a sign entails are true of its points
LEMMA SignEntailed ==
    ASSUME NEW n \in Nat, NEW p \in Point(n), NEW b \in BoxOver(n), Inside(p, b), NEW c \in Signs(n, p)
    PROVE  Spared(n, p, Sign!Entailed(c, <<>>, b))
  <1>1. c.b \in Variables(n) /\ c.f \in Variables(n) /\ (p[c.f] = IF p[c.b] < 0 THEN -1 ELSE 1)
    BY DEF Signs, Sign!Holds
  <1>2. Reads(b, p, c.b) /\ Reads(b, p, c.f)
    BY <1>1, BoxedBounds DEF Boxed, Reads, Variables
  <1>3. \A t \in Sign!Entailed(c, <<>>, b) : t \in Tightenings(n) /\ Respects(p, t)
    BY <1>1, <1>2 DEF Reads, Sign!Entailed, Sign!Least, Sign!Most, Tightenings, Respects
  <1> QED BY <1>3 DEF Spared, Meets

\* The tightenings a disjunction entails are true of its points
LEMMA DisjEntailed ==
    ASSUME NEW n \in Nat, NEW p \in Point(n), NEW c \in Disjunctions(n, p), NEW b
    PROVE  Spared(n, p, Disj!Entailed(c, c.state, b))
  <1>1. PICK d \in c.disjuncts : Disj!Meets(p, d)
    BY DEF Disjunctions, Disj!Holds
  <1>2. c.disjuncts \subseteq SUBSET Tightenings(n)
    BY DEF Disjunctions
  <1>3. ASSUME NEW t \in Disj!Entailed(c, c.state, b)
        PROVE  t \in Tightenings(n) /\ Respects(p, t)
    <2>1. PICK u \in d : u.key = t.key
      BY <1>1 DEF Disj!Entailed
    <2>2. t \in Tightenings(n) /\ u \in Tightenings(n) /\ ~Disj!Tighter(t.key, t.value, u.value)
      BY <1>1, <1>2, <2>1 DEF Disj!Entailed
    <2>3. t.key[2] = "LB" => p[t.key[1]] >= u.value
      BY <1>1, <2>1 DEF Disj!Meets, Disj!Respects
    <2>4. t.key[2] # "LB" => p[t.key[1]] <= u.value
      BY <1>1, <2>1 DEF Disj!Meets, Disj!Respects
    <2>5. t.value \in Int /\ u.value \in Int /\ p[t.key[1]] \in Int
      BY <2>2 DEF Tightenings, Point, Variables
    <2> QED BY <2>2, <2>3, <2>4, <2>5 DEF Respects, Disj!Tighter
  <1> QED BY <1>3 DEF Spared, Meets

\* A disjunct the point meets is not refuted by a box it is inside.
LEMMA DisjToldKeeps ==
    ASSUME NEW n \in Nat, NEW p \in Point(n), NEW b \in BoxOver(n), Inside(p, b), NEW c \in Disjunctions(n, p)
    PROVE  /\ [c EXCEPT !.state = Disj!Notified(c, @, b)] \in Disjunctions(n, p)
           /\ \A s \in [active : BOOLEAN, feasible : SUBSET SUBSET Tightenings(n)] : ~Disj!Throws(c, s, b)
  <1>1. PICK d \in c.disjuncts : Disj!Meets(p, d)
    BY DEF Disjunctions, Disj!Holds
  <1>2. c.disjuncts \subseteq SUBSET Tightenings(n)
    BY DEF Disjunctions
  <1>3. ASSUME NEW t \in d
        PROVE  IF t.key[2] = "LB" THEN b[<<t.key[1], "UB">>] >= t.value ELSE b[<<t.key[1], "LB">>] <= t.value
    <2>1. t \in Tightenings(n) /\ (IF t.key[2] = "LB" THEN p[t.key[1]] >= t.value ELSE p[t.key[1]] <= t.value)
      BY <1>1, <1>2 DEF Disj!Meets, Disj!Respects
    <2>2. t.key[1] \in Variables(n) /\ t.value \in Int
      BY <2>1 DEF Tightenings
    <2>3. Reads(b, p, t.key[1])
      BY <2>2, BoxedBounds DEF Boxed, Reads, Variables
    <2> QED BY <2>1, <2>2, <2>3 DEF Reads
  <1>4. Disj!CaseSplitIsFeasible(b, d)
    BY <1>3, Zenon DEF Disj!CaseSplitIsFeasible
  <1> DEFINE S == [active : BOOLEAN, feasible : SUBSET SUBSET Tightenings(n)]
             left == {e \in c.disjuncts : Disj!CaseSplitIsFeasible(b, e)}
  <1>5. left # {} /\ left \subseteq SUBSET Tightenings(n)
    BY <1>1, <1>2, <1>4
  <1>6. \A s \in S : Disj!Notified(c, s, b) = [s EXCEPT !.feasible = left]
    BY DEF Disj!Notified
  <1> HIDE DEF left
  <1>7. \A s \in S : Disj!Notified(c, s, b) \in S /\ Disj!Notified(c, s, b).feasible = left
    BY <1>5, <1>6
  <1>8. c.state \in S
    BY DEF Disjunctions
  <1> DEFINE after == Disj!Notified(c, c.state, b)
  <1> HIDE DEF S
  <1>9. after \in S
    BY <1>7, <1>8
  <1> HIDE DEF after
  <1>10. [c EXCEPT !.state = after] \in Disjunctions(n, p)
    BY <1>9 DEF S, Disjunctions, Disj!Holds
  <1>11. \A s \in S : ~Disj!Throws(c, s, b)
    BY <1>5, <1>7 DEF Disj!Throws
  <1> QED BY <1>10, <1>11 DEF after, S

-----------------------------------------------------------------------------
(* Maxima *)

\* The coordinates a max constraint reads, and their bounds
MaxReads(c, b, p) ==
    /\ c.maxValueOfEliminated \in Int
    /\ \A v \in MaxOf!Variables(c) :
        /\ p[v] \in Int
        /\ b[<<v, "LB">>] \in Int /\ b[<<v, "UB">>] \in Int
        /\ b[<<v, "LB">>] <= p[v] /\ p[v] <= b[<<v, "UB">>]

\* The case of the solution is not among those notifyLowerBound of a max drops.
LEMMA MaxAfterLower ==
    ASSUME NEW b, NEW p, NEW c, NEW s, NEW v \in Int, MaxReads(c, b, p),
           NEW x \in Int, x <= p[v], p[v] \in Int,
           MaxKnows(c, s, p), MaxOf!Holds(c, p), MaxOf!Linear(c, p)
    PROVE  MaxKnows(c, MaxOf!AfterLower(c, s, b, v, x), p)
  <1> DEFINE owners == {e \in s.elements : c.aux[e] = v}
  <1>1. s.elements \subseteq c.elements
    BY DEF MaxKnows, MaxOf!States
  <1>2. \A e \in c.elements : /\ p[e] \in Int /\ b[<<e, "UB">>] \in Int /\ p[e] <= b[<<e, "UB">>]
                            /\ p[e] <= p[c.f] /\ p[c.aux[e]] = p[c.f] - p[e]
    BY Zenon DEF MaxReads, MaxOf!Variables, MaxOf!Holds, MaxOf!Linear
  <1>3. p[c.f] \in Int /\ c.maxValueOfEliminated \in Int
    BY Zenon DEF MaxReads, MaxOf!Variables
  <1> HIDE DEF owners
  <1>4. CASE owners # {} /\ x > 0
    <2>1. MaxOf!AfterLower(c, s, b, v, x) = [s EXCEPT !.elements = @ \ owners]
      BY <1>4 DEF MaxOf!AfterLower, owners
    <2>2. ASSUME NEW e \in owners
          PROVE  p[c.f] # p[e]
      <3>1. e \in s.elements /\ c.aux[e] = v
        BY DEF owners
      <3>2. p[v] = p[c.f] - p[e] /\ p[e] \in Int
        BY <1>1, <1>2, <3>1, Zenon
      <3> QED BY <1>3, <1>4, <3>2
    <2> QED BY <2>1, <2>2 DEF MaxKnows, MaxOf!States
  <1>5. CASE ~(owners # {} /\ x > 0) /\ v \in {c.f} \cup s.elements /\ x > s.maxLowerBound
    <2>1. MaxOf!AfterLower(c, s, b, v, x) = MaxOf!Raised(c, s, b, v, x)
      BY <1>5 DEF MaxOf!AfterLower, owners
    <2>2. x <= p[c.f]
      <3>1. v = c.f \/ p[v] <= p[c.f]
        BY <1>1, <1>2, <1>5, Zenon
      <3> QED BY <1>3, <3>1
    <2>3. \A e \in s.elements : p[c.f] = p[e] => b[<<e, "UB">>] >= x
      BY <1>1, <1>2, <1>3, <2>2
    <2>4. p[c.f] = c.maxValueOfEliminated => x <= c.maxValueOfEliminated
      BY <2>2
    <2> DEFINE rest == {e \in s.elements : e = v \/ b[<<e, "UB">>] >= x}
               possible == x <= c.maxValueOfEliminated
    <2>5. MaxOf!Raised(c, s, b, v, x) =
            [s EXCEPT !.maxLowerBound = x, !.elements = rest, !.haveEliminated = possible]
      BY DEF MaxOf!Raised
    <2>6. possible \in BOOLEAN /\ rest \subseteq s.elements
      OBVIOUS
    <2>7. \/ s.haveEliminated /\ possible /\ p[c.f] = c.maxValueOfEliminated
          \/ \E e \in rest : p[c.f] = p[e]
      BY <2>3, <2>4 DEF MaxKnows
    <2> DEFINE r == MaxOf!AfterLower(c, s, b, v, x)
    <2> HIDE DEF rest, possible
    <2>8. s \in MaxOf!States(c)
      BY DEF MaxKnows
    <2>9. /\ r = [s EXCEPT !.maxLowerBound = x, !.elements = rest, !.haveEliminated = possible]
          /\ rest \in SUBSET c.elements
      BY <1>1, <2>1, <2>5, <2>6
    <2> HIDE DEF r
    <2>10. /\ r \in MaxOf!States(c) /\ r.elements = rest
           /\ r.haveEliminated = possible /\ r.maxLowerBound = x
      BY <2>6, <2>8, <2>9, Zenon DEF MaxOf!States
    <2>11. MaxKnows(c, r, p)
      BY <2>2, <2>7, <2>10 DEF MaxKnows
    <2> QED BY <2>11 DEF r
  <1>6. CASE ~(owners # {} /\ x > 0) /\ ~(v \in {c.f} \cup s.elements /\ x > s.maxLowerBound)
    BY <1>6 DEF MaxOf!AfterLower, owners
  <1> QED BY <1>4, <1>5, <1>6

\* The case of the solution is not among those notifyUpperBound of a max drops.
LEMMA MaxAfterUpper ==
    ASSUME NEW b, NEW p, NEW c, NEW s, NEW v \in Int, MaxReads(c, b, p),
           NEW x \in Int, p[v] <= x, p[v] \in Int,
           MaxKnows(c, s, p), MaxOf!Holds(c, p), MaxOf!Linear(c, p)
    PROVE  MaxKnows(c, MaxOf!AfterUpper(c, s, v, x), p)
  <1> DEFINE owners == {e \in s.elements : c.aux[e] = v}
  <1>1. s.elements \subseteq c.elements
    BY DEF MaxKnows, MaxOf!States
  <1>2. \A e \in c.elements : /\ p[e] \in Int /\ p[e] <= p[c.f]
                            /\ p[c.aux[e]] = p[c.f] - p[e]
    BY Zenon DEF MaxReads, MaxOf!Variables, MaxOf!Holds, MaxOf!Linear
  <1>3. p[c.f] \in Int /\ s.maxLowerBound \in Int
    BY Zenon DEF MaxReads, MaxOf!Variables, MaxKnows, MaxOf!States
  <1>4. CASE owners # {} /\ x = 0
    <2>1. MaxOf!AfterUpper(c, s, v, x) =
            [s EXCEPT !.elements = owners, !.haveEliminated = FALSE]
      BY <1>4 DEF MaxOf!AfterUpper
    <2>2. \A e \in owners : p[c.f] = p[e]
      BY <1>1, <1>2, <1>3, <1>4
    <2>3. owners \subseteq s.elements
      OBVIOUS
    <2> HIDE DEF owners
    <2> QED BY <1>4, <2>1, <2>2, <2>3, Zenon DEF MaxKnows, MaxOf!States
  <1>5. CASE owners = {} /\ v \in s.elements /\ x < s.maxLowerBound
    <2>1. MaxOf!AfterUpper(c, s, v, x) = [s EXCEPT !.elements = @ \ {v}]
      BY <1>5 DEF MaxOf!AfterUpper
    <2>2. p[c.f] # p[v]
      BY <1>3, <1>5 DEF MaxKnows
    <2> QED BY <2>1, <2>2 DEF MaxKnows, MaxOf!States
  <1>6. CASE ~(owners # {} /\ x = 0) /\ ~(owners = {} /\ v \in s.elements /\ x < s.maxLowerBound)
    BY <1>6 DEF MaxOf!AfterUpper
  <1> QED BY <1>4, <1>5, <1>6

\* getEntailedTightenings of a max spares the solution, as long as the case of
\* the solution is left.
LEMMA MaxEntailed ==
    ASSUME NEW b, NEW p, NEW c, NEW s, MaxReads(c, b, p), MaxKnows(c, s, p), MaxOf!Holds(c, p)
    PROVE  Meets(p, MaxOf!Entailed(c, s, b)) /\ Numeric(MaxOf!Entailed(c, s, b))
  <1> DEFINE fUB == b[<<c.f, "UB">>]
             above == MaxOf!LargestOf(c, s, b, "UB")
             below == MaxOf!LargestOf(c, s, b, "LB")
  <1> HIDE DEF fUB, above, below
  <1>1. s.elements \subseteq c.elements
    BY DEF MaxKnows, MaxOf!States
  <1>2. \A e \in c.elements :
            /\ p[e] \in Int /\ b[<<e, "LB">>] \in Int /\ b[<<e, "UB">>] \in Int
            /\ b[<<e, "LB">>] <= p[e] /\ p[e] <= b[<<e, "UB">>] /\ p[e] <= p[c.f]
    BY Zenon DEF MaxReads, MaxOf!Variables, MaxOf!Holds
  <1>3. /\ p[c.f] \in Int /\ fUB \in Int /\ p[c.f] <= fUB
        /\ c.maxValueOfEliminated \in Int /\ c.maxValueOfEliminated <= p[c.f]
    BY Zenon DEF fUB, MaxReads, MaxOf!Variables, MaxOf!Holds
  <1>4. \A x \in above : x \in Int /\ p[c.f] <= x
    <2>1. \A x \in above : /\ x \in Int /\ x >= c.maxValueOfEliminated
                          /\ \A e \in s.elements : x >= b[<<e, "UB">>]
      BY <1>1, <1>2, <1>3, Zenon DEF above, MaxOf!LargestOf
    <2>2. CASE p[c.f] = c.maxValueOfEliminated
      BY <2>1, <2>2
    <2>3. ASSUME NEW e \in s.elements, p[c.f] = p[e]
          PROVE  \A x \in above : x \in Int /\ p[c.f] <= x
      <3>1. b[<<e, "UB">>] \in Int /\ p[c.f] <= b[<<e, "UB">>]
        BY <1>1, <1>2, <2>3, Zenon
      <3> QED BY <1>3, <2>1, <3>1
    <2> QED BY <2>2, <2>3 DEF MaxKnows
  <1>5. \A x \in below : x \in Int /\ x <= p[c.f]
    <2>1. \A x \in below : \/ x = c.maxValueOfEliminated
                          \/ \E e \in c.elements : x = b[<<e, "LB">>]
      BY <1>1, Zenon DEF below, MaxOf!LargestOf
    <2>2. ASSUME NEW e \in c.elements
          PROVE  b[<<e, "LB">>] \in Int /\ b[<<e, "LB">>] <= p[c.f]
      <3>1. /\ p[e] \in Int /\ b[<<e, "LB">>] \in Int
            /\ b[<<e, "LB">>] <= p[e] /\ p[e] <= p[c.f]
        BY <1>2, Zenon
      <3> QED BY <1>3, <3>1
    <2> QED BY <1>3, <2>1, <2>2, Zenon
  <1>6. \A t \in MaxOf!Entailed(c, s, b) :
            \/ \E x \in above : t = MaxOf!Most(c.f, x)
            \/ \E e \in s.elements : t = MaxOf!Most(e, fUB)
            \/ \E x \in below : t = MaxOf!Least(c.f, x)
    BY Zenon DEF fUB, above, below, MaxOf!Entailed
  <1>7. \A x \in above : Respects(p, MaxOf!Most(c.f, x)) /\ MaxOf!Most(c.f, x).value \in Int
    BY <1>4 DEF Respects, MaxOf!Most
  <1>8. \A e \in s.elements : Respects(p, MaxOf!Most(e, fUB)) /\ MaxOf!Most(e, fUB).value \in Int
    <2>1. \A e \in s.elements : p[e] <= fUB
      <3>1. ASSUME NEW e \in s.elements
            PROVE  p[e] <= fUB
        <4>1. p[e] \in Int /\ p[e] <= p[c.f]
          BY <1>1, <1>2, Zenon
        <4> QED BY <1>3, <4>1
      <3> QED BY <3>1
    <2> QED BY <1>3, <2>1 DEF Respects, MaxOf!Most
  <1>9. \A x \in below : Respects(p, MaxOf!Least(c.f, x)) /\ MaxOf!Least(c.f, x).value \in Int
    BY <1>5, <1>3 DEF Respects, MaxOf!Least
  <1> QED BY <1>6, <1>7, <1>8, <1>9, Zenon DEF Meets, Numeric

MaxStep(a, s, i) == ToldOf(a[1], s, a[2], Participating(a[1])[i])
MaxGood(a, s, i) == MaxKnows(a[1], s, a[3])
MaxLoop == INSTANCE Loops WITH Step <- MaxStep, Good <- MaxGood

\* The variables a max is told about
LEMMA ParticipatingType ==
    ASSUME NEW n \in Nat, NEW p, NEW c \in Maxima(n, p)
    PROVE  Participating(c) \in Seq(Variables(n))
  <1> DEFINE auxiliary == {c.aux[e] : e \in DOMAIN c.aux}
             others == IF c.f \in c.elements THEN <<>> ELSE <<c.f>>
  <1>1. c.elements \subseteq Variables(n) /\ auxiliary \subseteq Variables(n) /\ c.f \in Variables(n) /\ c.kind = "max"
    BY DEF Maxima
  <1>2. Participating(c) = Ascending(c.elements) \o Ascending(auxiliary) \o others
    BY <1>1 DEF Participating
  <1> HIDE DEF auxiliary
  <1>3. Ascending(c.elements) \in Seq(Variables(n))
    <2>1. Ascending(c.elements) \in Seq(c.elements)
      BY <1>1, AscendingMember
    <2> QED BY <1>1, <2>1
  <1>4. Ascending(auxiliary) \in Seq(Variables(n))
    <2>1. Ascending(auxiliary) \in Seq(auxiliary)
      BY <1>1, AscendingMember
    <2> QED BY <1>1, <2>1
  <1>5. others \in Seq(Variables(n))
    BY <1>1
  <1> HIDE DEF others
  <1> QED BY <1>2, <1>3, <1>4, <1>5

\* What the tightenings of a max rest on, for one that a point satisfies
LEMMA MaximaRead ==
    ASSUME NEW n \in Nat, NEW p \in Point(n), NEW b \in BoxOver(n), Inside(p, b), NEW c \in Maxima(n, p)
    PROVE  MaxReads(c, b, p) /\ MaxOf!Holds(c, p) /\ MaxOf!Linear(c, p) /\ MaxKnows(c, c.state, p)
  <1>1. MaxOf!Variables(c) \subseteq Variables(n) /\ c.maxValueOfEliminated \in Int
    BY DEF Maxima, MaxOf!Variables
  <1>2. \A v \in Variables(n) : Reads(b, p, v)
    BY BoxedBounds, Zenon DEF Boxed, Reads, Variables
  <1>3. MaxReads(c, b, p)
    BY <1>1, <1>2 DEF MaxReads, Reads
  <1> QED BY <1>3 DEF Maxima

\* Told all bounds of a box, a max keeps the case of a point inside.
LEMMA ToldMaxKnows ==
    ASSUME NEW n \in Nat, NEW p \in Point(n), NEW b \in BoxOver(n), Inside(p, b), NEW c \in Maxima(n, p)
    PROVE  MaxKnows(c, ToldMax(c, b), p)
  <1> DEFINE vs == Participating(c)
             m == Len(vs)
             a == <<c, b, p>>
             after[i \in 0 .. m] == IF i = 0 THEN c.state ELSE ToldOf(c, after[i - 1], b, vs[i])
  <1>1. vs \in Seq(Variables(n)) /\ m \in Nat /\ \A i \in 1 .. m : vs[i] \in Variables(n)
    <2>1. vs \in Seq(Variables(n))
      BY ParticipatingType
    <2> HIDE DEF vs
    <2> QED BY <2>1
  <1>2. PICK h : MaxLoop!Course(h, a, c.state, m)
    BY <1>1, MaxLoop!CourseExists, Zenon
  <1>3. after = [i \in 0 .. m |-> IF i = 0 THEN c.state ELSE ToldOf(c, after[i - 1], b, vs[i])]
    BY <1>2, Zenon DEF MaxLoop!Course, MaxStep
  <1>4. ToldMax(c, b) = after[m]
    BY DEF ToldMax
  <1> HIDE DEF after, m
  <1>5. MaxLoop!Course(after, a, c.state, m)
    BY <1>3, Zenon DEF MaxLoop!Course, MaxStep
  <1>6. MaxLoop!Started(a, c.state, m)
    BY <1>1, MaximaRead DEF MaxLoop!Started, MaxGood
  <1>7. MaxLoop!Kept(a, m)
    <2> SUFFICES ASSUME NEW i \in 1 .. m, NEW s, MaxKnows(c, s, p)
                 PROVE  MaxKnows(c, ToldOf(c, s, b, vs[i]), p)
      BY DEF MaxLoop!Kept, MaxGood, MaxStep
    <2>1. vs[i] \in Variables(n)
      BY <1>1
    <2> DEFINE v == vs[i]
               low == MaxOf!AfterLower(c, s, b, v, Lb(b, v))
    <2>2. /\ v \in Int /\ p[v] \in Int /\ Lb(b, v) \in Int /\ Ub(b, v) \in Int
          /\ Lb(b, v) <= p[v] /\ p[v] <= Ub(b, v)
      BY <2>1, BoxedBounds DEF Boxed, Variables, Lb, Ub
    <2> HIDE DEF v
    <2>3. MaxKnows(c, low, p)
      BY <2>2, MaximaRead, MaxAfterLower, Zenon
    <2> HIDE DEF low
    <2>4. MaxKnows(c, MaxOf!AfterUpper(c, low, v, Ub(b, v)), p)
      BY <2>2, <2>3, MaximaRead, MaxAfterUpper, Zenon
    <2> QED BY <2>4 DEF low, v, ToldOf
  <1>8. \A i \in 0 .. m : MaxGood(a, after[i], i)
    BY <1>5, <1>6, <1>7, MaxLoop!CourseKeeps
  <1> QED BY <1>1, <1>4, <1>8 DEF MaxGood

\* A max that is told its bounds drops no element that is the maximum of the point
LEMMA MaxToldKeeps ==
    ASSUME NEW n \in Nat, NEW p \in Point(n), NEW b \in BoxOver(n), Inside(p, b), NEW c \in Maxima(n, p)
    PROVE  Told(c, b) \in Maxima(n, p)
  <1> DEFINE after == ToldMax(c, b)
             E == c.elements \ after.elements
             S == [active : BOOLEAN, elements : SUBSET Variables(n), maxLowerBound : Int, haveEliminated : BOOLEAN]
             state == [after EXCEPT !.elements = @ \ E]
             left == c.elements \ E
             aux == [e \in DOMAIN c.aux \ E |-> c.aux[e]]
             told == [kind |-> "max", f |-> c.f, elements |-> left, aux |-> aux,
                      maxValueOfEliminated |-> c.maxValueOfEliminated, state |-> state, obsolete |-> c.obsolete]
  <1>1. MaxKnows(c, after, p)
    BY ToldMaxKnows
  <1> HIDE DEF after
  <1>2. after \in MaxOf!States(c) /\ after.elements \subseteq c.elements /\ after.maxLowerBound <= p[c.f]
    BY <1>1 DEF MaxKnows, MaxOf!States
  <1>3. c.elements \subseteq Variables(n) /\ c.f \in Variables(n) /\ DOMAIN c.aux = c.elements
        /\ (\A e \in c.elements : c.aux[e] \in Variables(n)) /\ c.kind = "max"
        /\ c.maxValueOfEliminated \in Int /\ c.obsolete \in BOOLEAN
        /\ c = [kind |-> c.kind, f |-> c.f, elements |-> c.elements, aux |-> c.aux,
                maxValueOfEliminated |-> c.maxValueOfEliminated, state |-> c.state, obsolete |-> c.obsolete]
    BY DEF Maxima
  <1>4. Told(c, b) = WithoutCases([c EXCEPT !.state = after], E)
    BY <1>3 DEF Told, after
  <1>5. Told(c, b) = told
    <2> DEFINE d == [c EXCEPT !.state = after]
    <2>1. d = [kind |-> "max", f |-> c.f, elements |-> c.elements, aux |-> c.aux,
               maxValueOfEliminated |-> c.maxValueOfEliminated, state |-> after, obsolete |-> c.obsolete]
      BY <1>3
    <2> HIDE DEF d
    <2>2. WithoutCases(d, E) = [d EXCEPT !.elements = left, !.aux = aux, !.state.elements = after.elements \ E]
      BY <2>1 DEF WithoutCases
    <2>3. [d.state EXCEPT !.elements = after.elements \ E] = state
      BY <2>1
    <2> HIDE DEF left, aux, state, E
    <2>4. WithoutCases(d, E) = [d EXCEPT !.elements = left, !.aux = aux, !.state = state]
      BY <2>1, <2>2, <2>3, Zenon
    <2>5. WithoutCases(d, E) = told
      BY <2>1, <2>4, Zenon
    <2> QED BY <1>4, <2>5 DEF d
  <1>6. left = after.elements /\ state \in MaxOf!States(c) /\ state.elements = left /\ left \subseteq c.elements
        /\ state.maxLowerBound = after.maxLowerBound /\ state.haveEliminated = after.haveEliminated
    BY <1>2 DEF MaxOf!States
  <1>7. state \in S /\ DOMAIN aux = left /\ \A e \in left : aux[e] = c.aux[e] /\ aux[e] \in Variables(n)
    BY <1>3, <1>6 DEF MaxOf!States
  <1> HIDE DEF state, left
  <1>8. aux \in UNION {[D -> Variables(n)] : D \in SUBSET Variables(n)}
    <2>1. aux = [e \in left |-> aux[e]]
      BY <1>7
    <2> HIDE DEF aux
    <2>2. aux \in [left -> Variables(n)] /\ left \in SUBSET Variables(n)
      BY <1>3, <1>6, <1>7, <2>1
    <2> QED BY <2>2
  <1> HIDE DEF aux
  <1>9. \/ after.haveEliminated /\ p[c.f] = c.maxValueOfEliminated
        \/ \E e \in left : p[c.f] = p[e]
    BY <1>1, <1>6 DEF MaxKnows
  <1>10. MaxOf!Holds(told, p)
    <2>1. MaxOf!Holds(c, p)
      BY DEF Maxima
    <2> QED BY <1>6, <1>9, <2>1 DEF MaxOf!Holds
  <1>11. MaxOf!Linear(told, p)
    <2>1. MaxOf!Linear(c, p)
      BY DEF Maxima
    <2> QED BY <1>6, <1>7, <2>1 DEF MaxOf!Linear
  <1>12. MaxKnows(told, state, p)
    BY <1>2, <1>6, <1>9 DEF MaxKnows, MaxOf!States
  <1> QED BY <1>3, <1>5, <1>6, <1>7, <1>8, <1>10, <1>11, <1>12 DEF Maxima

-----------------------------------------------------------------------------
(* processConstraints *)

\* A constraint that is told its bounds keeps the point
LEMMA ToldKeeps ==
    ASSUME NEW n \in Nat, NEW p \in Point(n), NEW b \in BoxOver(n), Inside(p, b), NEW c \in Fulfilled(n, p)
    PROVE  Told(c, b) \in Fulfilled(n, p) /\ ~Throws(Told(c, b), b)
  <1>1. CASE c \in Maxima(n, p)
    <2>1. Told(c, b) \in Maxima(n, p)
      BY <1>1, MaxToldKeeps
    <2>2. Told(c, b).kind = "max"
      BY <2>1 DEF Maxima
    <2> QED BY <2>1, <2>2 DEF Fulfilled, Throws
  <1>2. CASE c \in Disjunctions(n, p)
    <2>1. Told(c, b) = [c EXCEPT !.state = Disj!Notified(c, @, b)] /\ c.kind = "disj"
      BY <1>2 DEF Told, Disjunctions
    <2>2. Told(c, b) \in Disjunctions(n, p)
      BY <1>2, <2>1, DisjToldKeeps
    <2>3. Told(c, b).state \in [active : BOOLEAN, feasible : SUBSET SUBSET Tightenings(n)]
      BY <2>2 DEF Disjunctions
    <2>4. ~Disj!Throws(Told(c, b), Told(c, b).state, b)
      BY <2>2, <2>3, DisjToldKeeps, Zenon
    <2> QED BY <2>2, <2>4 DEF Fulfilled, Throws
  <1>3. CASE c \in Relus(n, p) \cup AbsoluteValues(n, p) \cup Signs(n, p) \cup Roundings(n, p)
    <2>1. c.kind \in {"relu", "abs", "sign", "round"}
      BY <1>3 DEF Relus, AbsoluteValues, Signs, Roundings
    <2>2. Told(c, b) = c
      BY <2>1 DEF Told
    <2> QED BY <2>1, <2>2 DEF Throws
  <1> QED BY <1>1, <1>2, <1>3 DEF Fulfilled

\* What any constraint entails is true of its points
LEMMA EntailedSpares ==
    ASSUME NEW n \in Nat, NEW p \in Moderate(n), p \in Point(n), NEW b \in BoxOver(n), Inside(p, b),
           NEW c \in Fulfilled(n, p)
    PROVE  Spared(n, p, Entailed(c, b))
  <1> DEFINE T == CASE c.kind = "relu" -> Relu!Entailed(c, <<>>, b)
                    [] c.kind = "abs" -> Abs!Entailed(c, <<>>, b)
                    [] c.kind = "sign" -> Sign!Entailed(c, <<>>, b)
                    [] c.kind = "max" -> MaxOf!Entailed(c, c.state, b)
                    [] c.kind = "disj" -> Disj!Entailed(c, c.state, b)
                    [] c.kind = "round" -> {}
  <1>1. Entailed(c, b) = {[t EXCEPT !.value = Norm(@)] : t \in T}
    BY DEF Entailed
  <1>2. Spared(n, p, T)
    <2>1. CASE c \in Relus(n, p)
      <3>1. c.kind = "relu"
        BY <2>1 DEF Relus
      <3>2. T = Relu!Entailed(c, <<>>, b)
        BY <3>1
      <3> HIDE DEF T
      <3> QED BY <2>1, <3>2, ReluEntailed
    <2>2. CASE c \in AbsoluteValues(n, p)
      <3>1. c.kind = "abs"
        BY <2>2 DEF AbsoluteValues
      <3>2. T = Abs!Entailed(c, <<>>, b)
        BY <3>1
      <3> HIDE DEF T
      <3> QED BY <2>2, <3>2, AbsEntailed
    <2>3. CASE c \in Signs(n, p)
      <3>1. c.kind = "sign"
        BY <2>3 DEF Signs
      <3>2. T = Sign!Entailed(c, <<>>, b)
        BY <3>1
      <3> HIDE DEF T
      <3> QED BY <2>3, <3>2, SignEntailed
    <2>4. CASE c \in Maxima(n, p)
      <3>1. c.kind = "max"
        BY <2>4 DEF Maxima
      <3>2. T = MaxOf!Entailed(c, c.state, b)
        BY <3>1
      <3>3. Meets(p, T) /\ Numeric(T)
        BY <2>4, <3>2, MaximaRead, MaxEntailed, Zenon
      <3>4. T \subseteq Tightenings(n)
        <4>1. c.f \in Variables(n) /\ c.state.elements \subseteq Variables(n)
          BY <2>4 DEF Maxima
        <4>2. \A t \in T : \E v \in Variables(n) : \E x : t = MaxOf!Most(v, x) \/ t = MaxOf!Least(v, x)
          BY <3>2, <4>1, Zenon DEF MaxOf!Entailed
        <4> HIDE DEF T
        <4> QED BY <3>3, <4>2 DEF Numeric, Tightenings, MaxOf!Most, MaxOf!Least
      <3> QED BY <3>3, <3>4, Zenon DEF Spared
    <2>5. CASE c \in Disjunctions(n, p)
      <3>1. c.kind = "disj"
        BY <2>5 DEF Disjunctions
      <3>2. T = Disj!Entailed(c, c.state, b)
        BY <3>1
      <3> HIDE DEF T
      <3> QED BY <2>5, <3>2, DisjEntailed
    <2>6. CASE c \in Roundings(n, p)
      <3>1. c.kind = "round"
        BY <2>6 DEF Roundings
      <3>2. T = {}
        BY <3>1
      <3> HIDE DEF T
      <3> QED BY <3>2 DEF Spared, Meets
    <2> QED BY <2>1, <2>2, <2>3, <2>4, <2>5, <2>6, Zenon DEF Fulfilled
  <1> HIDE DEF T
  <1>3. ASSUME NEW t \in T
        PROVE  [t EXCEPT !.value = Norm(@)] \in Tightenings(n) /\ Respects(p, [t EXCEPT !.value = Norm(@)])
    <2>1. t \in Tightenings(n) /\ Respects(p, t)
      BY <1>2 DEF Spared, Meets
    <2> QED BY <2>1, NormSpares
  <1> QED BY <1>1, <1>3 DEF Spared, Meets

\* A constraint that the point satisfies tightens nothing the point has not.
LEMMA ProcessConstraintKeeps ==
    ASSUME NEW n \in Nat, NEW p \in Moderate(n), NEW r \in Rounds(n, p), NEW i \in 1 .. Len(r.query.cons)
    PROVE  ProcessConstraint(r, i) \in Rounds(n, p) /\ Len(ProcessConstraint(r, i).query.cons) = Len(r.query.cons)
  <1> DEFINE b == r.query.box
             told == Told(r.query.cons[i], b)
             T == Entailed(told, b)
             box == Tightened(b, T)
             tighter == r.tighter \/ box /= b
             crossed == Crossed(box, {t.key[1] : t \in T})
             cons == [r.query.cons EXCEPT ![i] = told]
             q == [r.query EXCEPT !.cons = cons, !.box = box]
  <1>1. /\ r.query \in Queries(n, p) /\ b \in BoxOver(n) /\ Inside(p, b) /\ r.throws = FALSE
        /\ r.query.cons \in Seq(Fulfilled(n, p)) /\ r.tighter \in BOOLEAN
    BY Zenon DEF Rounds, Queries
  <1>2. r.query.cons[i] \in Fulfilled(n, p)
    BY <1>1
  <1>3. p \in Point(n)
    <2>1. Inf \div 2 \in Int
      BY DEF Inf
    <2> QED BY <2>1 DEF Moderate, Point, Variables
  <1> HIDE DEF told, b
  <1>4. told \in Fulfilled(n, p) /\ ~Throws(told, b)
    BY <1>1, <1>2, <1>3, ToldKeeps DEF told
  <1>5. Spared(n, p, T)
    BY <1>1, <1>3, <1>4, EntailedSpares
  <1> HIDE DEF T
  <1>6. box \in BoxOver(n) /\ Inside(p, box) /\ Boxed(n, box, p)
    BY <1>1, <1>5, SparedBox
  <1>7. crossed = FALSE
    <2>1. {t.key[1] : t \in T} \subseteq 0 .. n - 1
      BY <1>5 DEF Spared, Tightenings, Variables
    <2> HIDE DEF box
    <2>2. ~crossed
      BY <1>6, <2>1, NotCrossed
    <2> QED BY <2>2
  <1> HIDE DEF box
  <1>8. cons \in Seq(Fulfilled(n, p)) /\ Len(cons) = Len(r.query.cons)
    <2>1. told \in Fulfilled(n, p) /\ r.query.cons \in Seq(Fulfilled(n, p))
      BY <1>1, <1>4
    <2> QED BY <2>1
  <1>9. ProcessConstraint(r, i) =
          [r EXCEPT !.query.cons[i] = told, !.query.box = box, !.tighter = tighter, !.throws = crossed]
    BY <1>1, <1>4 DEF ProcessConstraint, told, b, T, box
  <1>10. ProcessConstraint(r, i) = [r EXCEPT !.query = q, !.tighter = tighter, !.throws = FALSE]
    <2> HIDE DEF tighter, crossed
    <2>1. r = [query |-> r.query, tighter |-> r.tighter, throws |-> r.throws, merged |-> r.merged, gone |-> r.gone]
      BY DEF Rounds
    <2>2. r.query = [n |-> r.query.n, eqs |-> r.query.eqs, cons |-> r.query.cons, box |-> r.query.box,
                     inputs |-> r.query.inputs, outputs |-> r.query.outputs]
      BY <1>1 DEF Queries
    <2> QED BY <1>7, <1>9, <2>1, <2>2, Zenon
  <1> HIDE DEF cons
  <1>11. q \in Queries(n, p) /\ q.cons = cons
    BY <1>1, <1>6, <1>8, Zenon DEF Queries
  <1>12. tighter \in BOOLEAN
    BY <1>1
  <1> HIDE DEF q, tighter
  <1>13. ProcessConstraint(r, i) \in Rounds(n, p) /\ ProcessConstraint(r, i).query = q
    BY <1>10, <1>11, <1>12, Zenon DEF Rounds
  <1> QED BY <1>8, <1>11, <1>13

ConstraintStep(a, x, i) == ProcessConstraint(x, i)
ConstraintGood(a, x, i) == x \in Rounds(a[1], a[2]) /\ Len(x.query.cons) = a[3]
ConstraintLoop == INSTANCE Loops WITH Step <- ConstraintStep, Good <- ConstraintGood

\* The loop of processConstraints over the constraints of the query
LEMMA ProcessConstraintsKeeps ==
    ASSUME NEW n \in Nat, NEW p \in Moderate(n), NEW r \in Rounds(n, p)
    PROVE  ProcessConstraints(r) \in Rounds(n, p)
  <1> DEFINE m == Len(r.query.cons)
             a == <<n, p, m>>
             after[i \in 0 .. m] == IF i = 0 THEN r ELSE ProcessConstraint(after[i - 1], i)
  <1>1. m \in Nat
    <2>1. r.query.cons \in Seq(Fulfilled(n, p))
      BY DEF Rounds, Queries
    <2> QED BY <2>1
  <1>2. PICK h : ConstraintLoop!Course(h, a, r, m)
    BY <1>1, ConstraintLoop!CourseExists, Zenon
  <1>3. after = [i \in 0 .. m |-> IF i = 0 THEN r ELSE ProcessConstraint(after[i - 1], i)]
    BY <1>2 DEF ConstraintLoop!Course, ConstraintStep
  <1>4. ProcessConstraints(r) = after[m]
    BY DEF ProcessConstraints
  <1> HIDE DEF after
  <1>5. ConstraintLoop!Started(a, r, m)
    BY <1>1 DEF ConstraintLoop!Started, ConstraintGood
  <1>6. ConstraintLoop!Kept(a, m)
    <2> SUFFICES ASSUME NEW i \in 1 .. m, NEW x \in Rounds(n, p), Len(x.query.cons) = m
                 PROVE  ProcessConstraint(x, i) \in Rounds(n, p) /\ Len(ProcessConstraint(x, i).query.cons) = m
      BY DEF ConstraintLoop!Kept, ConstraintGood, ConstraintStep
    <2> HIDE DEF m
    <2>1. i \in 1 .. Len(x.query.cons)
      OBVIOUS
    <2> QED BY <2>1, ProcessConstraintKeeps
  <1>7. ConstraintLoop!Course(after, a, r, m)
    BY <1>3, Zenon DEF ConstraintLoop!Course, ConstraintStep
  <1>8. \A i \in 0 .. m : ConstraintGood(a, after[i], i)
    BY <1>5, <1>6, <1>7, ConstraintLoop!CourseKeeps
  <1> QED BY <1>1, <1>4, <1>8 DEF ConstraintGood

-----------------------------------------------------------------------------
(* The rounds *)

\* One round of processEquations and processConstraints
LEMMA TightenedOnceKeeps ==
    ASSUME NEW n \in Nat, NEW p \in Moderate(n), NEW r \in Rounds(n, p)
    PROVE  TightenedOnce(r) \in Rounds(n, p)
  <1>1. [r EXCEPT !.tighter = FALSE] \in Rounds(n, p)
    BY Zenon DEF Rounds
  <1> QED BY <1>1, ProcessEquationsKeeps, ProcessConstraintsKeeps DEF TightenedOnce

RoundStep(a, x, i) == Round(x, FALSE)
RoundGood(a, x, i) == x \in Rounds(a[1], a[2])
RoundLoop == INSTANCE Loops WITH Step <- RoundStep, Good <- RoundGood

\* The rounds, up to any number of them
LEMMA SaturatedKeeps ==
    ASSUME NEW n \in Nat, NEW p \in Moderate(n), NEW r \in Rounds(n, p), NEW rounds \in Nat
    PROVE  Saturated(r, FALSE, rounds) \in Rounds(n, p)
  <1> DEFINE a == <<n, p>>
             after[k \in 0 .. rounds] == IF k = 0 THEN r ELSE Round(after[k - 1], FALSE)
  <1>1. PICK h : RoundLoop!Course(h, a, r, rounds)
    BY RoundLoop!CourseExists
  <1>2. after = [k \in 0 .. rounds |-> IF k = 0 THEN r ELSE Round(after[k - 1], FALSE)]
    BY <1>1, Zenon DEF RoundLoop!Course, RoundStep
  <1>3. Saturated(r, FALSE, rounds) = after[rounds]
    BY DEF Saturated
  <1> HIDE DEF after
  <1>4. RoundLoop!Started(a, r, rounds)
    BY DEF RoundLoop!Started, RoundGood
  <1>5. RoundLoop!Kept(a, rounds)
    <2> SUFFICES ASSUME NEW x \in Rounds(n, p) PROVE Round(x, FALSE) \in Rounds(n, p)
      BY Zenon DEF RoundLoop!Kept, RoundGood, RoundStep
    <2> QED BY TightenedOnceKeeps DEF Round, MergedIf
  <1>6. RoundLoop!Course(after, a, r, rounds)
    BY <1>2, Zenon DEF RoundLoop!Course, RoundStep
  <1>7. \A k \in 0 .. rounds : RoundGood(a, after[k], k)
    BY <1>4, <1>5, <1>6, RoundLoop!CourseKeeps
  <1>8. rounds \in 0 .. rounds
    OBVIOUS
  <1> QED BY <1>3, <1>7, <1>8, Zenon DEF RoundGood

\* Preprocessor::preprocess without variable elimination, rounds of tightening until one
\* changes nothing: the bounds it tightens, the equations it drops and the cases it takes
\* from maxima and disjunctions leave every solution, and no query with a solution is
\* called infeasible.
THEOREM TighteningKeepsSolutions ==
    ASSUME NEW n \in Nat, NEW p \in Moderate(n), NEW q \in Queries(n, p), NEW rounds \in Nat
    PROVE  /\ PreprocessWhole(q, FALSE, rounds).infeasible = FALSE
           /\ PreprocessWhole(q, FALSE, rounds).tightened \in Queries(n, p)
  <1> DEFINE start == [query |-> q, tighter |-> TRUE, throws |-> FALSE, merged |-> <<>>, gone |-> {}]
             r == Saturated(start, FALSE, rounds)
             pp == PreprocessWhole(q, FALSE, rounds)
  <1>1. start \in Rounds(n, p)
    <2>1. <<>> \in [{} -> Nat]
      OBVIOUS
    <2>2. <<>> \in UNION {[S -> Nat] : S \in SUBSET Nat}
      BY <2>1
    <2> QED BY <2>2 DEF Rounds
  <1>2. r \in Rounds(n, p)
    BY <1>1, SaturatedKeeps, Zenon
  <1>3. r.throws = FALSE /\ r.query \in Queries(n, p)
    BY <1>2, Zenon DEF Rounds
  <1>4. pp = Eliminated(q, r, FALSE, CollectFixedValues(r))
    BY <1>3, Zenon DEF PreprocessWhole, EliminatedFrom
  <1>5. pp.infeasible = FALSE /\ pp.tightened = r.query
    <2>1. \A x, f, g : AfterElimination(x, FALSE, f, g).throws = FALSE
      BY DEF AfterElimination
    <2> HIDE DEF r, pp, start
    <2>2. \A c : /\ Eliminated(q, r, FALSE, c).infeasible = FALSE
                 /\ Eliminated(q, r, FALSE, c).tightened = r.query
      BY <2>1, ZenonT(40) DEF Eliminated
    <2> QED BY <1>4, <2>2, Zenon
  <1> QED BY <1>3, <1>5, Zenon

-----------------------------------------------------------------------------
(* Identical variables *)

\* updateVariableIndex keeps the sum, where the two variables are equal.
LEMMA SubstituteKeeps ==
    ASSUME NEW n \in Nat, NEW p \in Point(n), NEW v \in Variables(n), NEW w \in Variables(n), v # w, p[v] = p[w],
           NEW eq \in Satisfied(n, p)
    PROVE  Substitute(eq, v, w) \in Satisfied(n, p)
  <1> DEFINE adds == eq.addends
             m == Len(adds)
             at == {k \in DOMAIN adds : adds[k][2] = v}
             i == CHOOSE j \in at : \A k \in at : j <= k
             twins == {j \in DOMAIN adds \ {i} : adds[j][2] = w}
             j == CHOOSE k \in twins : TRUE
             merged(c) == [k \in DOMAIN adds |-> IF k = i THEN <<adds[i][1] + c, w>> ELSE adds[k]]
             sum(s) == Plus([k \in DOMAIN s |-> s[k][1] * p[s[k][2]]], Len(s))
             Addends == Int \X Variables(n)
  <1>1. adds \in Seq(Addends) /\ m \in Nat /\ DOMAIN adds = 1 .. m /\ eq.type = "EQ" /\ eq.scalar \in Int
        /\ eq = [type |-> "EQ", addends |-> adds, scalar |-> eq.scalar] /\ SumAt(eq, p) = eq.scalar
    BY DEF Satisfied
  <1>2. SumAt(eq, p) = sum(adds) /\ \A s : SumAt([eq EXCEPT !.addends = s], p) = sum(s)
    BY <1>1 DEF SumAt
  <1>3. SUFFICES ASSUME at # {}
                 PROVE  Substitute(eq, v, w) \in Satisfied(n, p)
    BY DEF Substitute
  <1>4. i \in at
    <2>1. at \subseteq Nat
      BY <1>1
    <2>2. \E k \in at : \A l \in at : k <= l
      <3> HIDE DEF at
      <3> QED BY <1>3, <2>1, Sums!LeastNatural, Zenon
    <2> HIDE DEF at
    <2> QED BY <2>2
  <1>5. i \in 1 .. m /\ adds[i][2] = v /\ adds[i][1] \in Int
    <2> HIDE DEF i, adds
    <2>1. i \in 1 .. m /\ adds[i][2] = v
      BY <1>1, <1>4
    <2>2. adds[i] \in Addends
      BY <1>1, <2>1
    <2> QED BY <2>1, <2>2
  <1>6. \A k \in 1 .. m : adds[k] \in Addends /\ adds[k][1] \in Int /\ p[adds[k][2]] \in Int
    <2>1. \A u \in Variables(n) : p[u] \in Int
      BY DEF Point, Variables
    <2>2. \A a \in Addends : a[1] \in Int /\ a[2] \in Variables(n)
      OBVIOUS
    <2> HIDE DEF adds, m, Addends
    <2>3. \A k \in 1 .. m : adds[k] \in Addends
      BY <1>1
    <2> QED BY <2>1, <2>2, <2>3
  <1> DEFINE f == [k \in DOMAIN adds |-> adds[k][1] * p[adds[k][2]]]
  <1>7. Numbers(f, m) /\ sum(adds) = Plus(f, m) /\ p[w] \in Int /\ f[i] = adds[i][1] * p[w]
    <2>1. \A k \in 1 .. m : f[k] \in Int
      BY <1>1, <1>6, TimesType
    <2>2. p[w] \in Int
      BY DEF Point, Variables
    <2> QED BY <1>1, <1>5, <2>1, <2>2, Zenon DEF Numbers
  <1>8. ASSUME NEW s \in Seq(Addends), sum(s) = sum(adds)
        PROVE  [eq EXCEPT !.addends = s] \in Satisfied(n, p)
    <2>1. SumAt([eq EXCEPT !.addends = s], p) = eq.scalar
      BY <1>1, <1>2, <1>8, Zenon
    <2>2. [eq EXCEPT !.addends = s] = [type |-> "EQ", addends |-> s, scalar |-> eq.scalar]
      BY <1>1, SMTT(30)
    <2> HIDE DEF sum
    <2> QED BY <1>1, <2>1, <2>2 DEF Satisfied
  <1>9. \A c \in Int : /\ merged(c) \in Seq(Addends) /\ Len(merged(c)) = m /\ DOMAIN merged(c) = 1 .. m
                       /\ \A k \in 1 .. m : merged(c)[k] = IF k = i THEN <<adds[i][1] + c, w>> ELSE adds[k]
    <2> SUFFICES ASSUME NEW c \in Int
                 PROVE  /\ merged(c) \in Seq(Addends) /\ Len(merged(c)) = m /\ DOMAIN merged(c) = 1 .. m
                        /\ \A k \in 1 .. m : merged(c)[k] = IF k = i THEN <<adds[i][1] + c, w>> ELSE adds[k]
      BY Zenon
    <2> HIDE DEF i, m
    <2>1. <<adds[i][1] + c, w>> \in Addends
      BY <1>5
    <2>2. DOMAIN merged(c) = 1 .. m /\ \A k \in 1 .. m : merged(c)[k] = IF k = i THEN <<adds[i][1] + c, w>> ELSE adds[k]
      BY <1>1
    <2>3. merged(c) = [k \in 1 .. m |-> merged(c)[k]]
      BY <1>1
    <2> HIDE DEF merged, adds, Addends
    <2>4. \A k \in 1 .. m : merged(c)[k] \in Addends
      BY <1>6, <2>1, <2>2
    <2>5. merged(c) \in [1 .. m -> Addends]
      BY <2>3, <2>4
    <2> QED BY <1>1, <2>2, <2>5
  <1>10. CASE twins = {}
    <2> DEFINE s == merged(0)
               h == [k \in DOMAIN s |-> s[k][1] * p[s[k][2]]]
    <2>1. Substitute(eq, v, w) = [eq EXCEPT !.addends = s]
      BY <1>3, <1>10 DEF Substitute
    <2>2. s \in Seq(Addends) /\ Len(s) = m /\ DOMAIN s = 1 .. m
          /\ \A k \in 1 .. m : s[k] = IF k = i THEN <<adds[i][1] + 0, w>> ELSE adds[k]
      <3> HIDE DEF merged, m, i, adds, Addends
      <3> QED BY <1>9
    <2> HIDE DEF s
    <2>3. \A k \in 1 .. m : f[k] = h[k]
      <3> SUFFICES ASSUME NEW k \in 1 .. m PROVE f[k] = h[k]
        BY Zenon
      <3>1. h[k] = s[k][1] * p[s[k][2]] /\ f[k] = adds[k][1] * p[adds[k][2]]
        BY <1>1, <2>2
      <3>2. CASE k # i
        BY <2>2, <3>1, <3>2, Zenon
      <3>3. CASE k = i
        <4>1. s[k] = <<adds[i][1] + 0, w>> /\ adds[i][1] + 0 = adds[i][1]
          <5> HIDE DEF i, m, adds
          <5> QED BY <1>5, <2>2, <3>3
        <4> HIDE DEF i, f, h
        <4> QED BY <1>7, <3>1, <3>3, <4>1
      <3> QED BY <3>2, <3>3
    <2>4. sum(s) = Plus(h, m)
      BY <2>2
    <2> HIDE DEF f, h, m, i
    <2>5. Plus(f, m) = Plus(h, m)
      BY <1>7, <2>3, SumSame
    <2> HIDE DEF sum
    <2> QED BY <1>7, <1>8, <2>1, <2>2, <2>4, <2>5
  <1>11. CASE twins # {}
    <2> DEFINE c == adds[j][1]
               t == merged(c)
               s == Without(t, j)
               g == [k \in DOMAIN t |-> t[k][1] * p[t[k][2]]]
               h == [k \in DOMAIN s |-> s[k][1] * p[s[k][2]]]
    <2>1. Substitute(eq, v, w) = [eq EXCEPT !.addends = s]
      BY <1>3, <1>11 DEF Substitute
    <2>2. j \in twins
      BY <1>11
    <2>3. j \in 1 .. m /\ j # i /\ adds[j][2] = w /\ c \in Int
      BY <1>1, <1>6, <2>2, Zenon
    <2>4. t \in Seq(Addends) /\ Len(t) = m /\ DOMAIN t = 1 .. m
          /\ \A k \in 1 .. m : t[k] = IF k = i THEN <<adds[i][1] + c, w>> ELSE adds[k]
      BY <1>9, <2>3, Zenon
    <2> HIDE DEF t
    <2>5. g[i] = f[i] + f[j] /\ g[j] = f[j] /\ (\A k \in (1 .. m) \ {i} : f[k] = g[k]) /\ Numbers(g, m)
      <3>1. \A k \in 1 .. m : g[k] = t[k][1] * p[t[k][2]] /\ f[k] = adds[k][1] * p[adds[k][2]]
        BY <1>1, <2>4
      <3>2. t[i] = <<adds[i][1] + c, w>>
        BY <1>5, <2>4, Zenon
      <3>3. g[i] = (adds[i][1] + c) * p[w] /\ f[j] = c * p[w]
        <4>1. g[i] = t[i][1] * p[t[i][2]] /\ f[j] = adds[j][1] * p[adds[j][2]]
          <5> HIDE DEF f, g, i, j, m
          <5> QED BY <1>5, <2>3, <3>1
        <4>2. t[i][1] = adds[i][1] + c /\ t[i][2] = w
          <5> HIDE DEF i, adds, c
          <5> QED BY <3>2
        <4> HIDE DEF f, g, i, j
        <4> QED BY <2>3, <4>1, <4>2
      <3>4. (adds[i][1] + c) * p[w] = adds[i][1] * p[w] + c * p[w]
        <4>1. \A x, y, z \in Int : (x + y) * z = x * z + y * z
          BY SMT
        <4> HIDE DEF i, j, adds, c
        <4> QED BY <1>5, <1>7, <2>3, <4>1
      <3>5. \A k \in (1 .. m) \ {i} : f[k] = g[k]
        BY <2>4, <3>1, Zenon
      <3>6. \A k \in 1 .. m : f[k] \in Int
        BY <1>7, Zenon DEF Numbers
      <3> HIDE DEF f, g, m, i, j, c
      <3>7. g[i] = f[i] + f[j] /\ g[j] = f[j]
        BY <1>7, <2>3, <3>3, <3>4, <3>5
      <3>8. \A k \in 1 .. m : g[k] \in Int
        BY <1>5, <2>3, <3>5, <3>6, <3>7
      <3> QED BY <1>1, <3>5, <3>7, <3>8 DEF Numbers
    <2>6. m \in Nat \ {0} /\ s = [k \in 1 .. m - 1 |-> t[IF k < j THEN k ELSE k + 1]]
      BY <1>1, <1>5, <2>4, SMTT(30) DEF Without
    <2>7. s \in Seq(Addends) /\ Len(s) = m - 1 /\ DOMAIN s = 1 .. m - 1
      <3> HIDE DEF m, j, s, Addends
      <3>1. \A k \in 1 .. m - 1 : (IF k < j THEN k ELSE k + 1) \in 1 .. m
        BY <2>3, <2>6
      <3>2. \A k \in 1 .. m - 1 : t[IF k < j THEN k ELSE k + 1] \in Addends
        BY <2>4, <3>1
      <3>3. m - 1 \in Nat
        BY <2>6
      <3> QED BY <2>6, <3>2, <3>3
    <2>8. \A k \in 1 .. m - 1 : h[k] = g[IF k < j THEN k ELSE k + 1]
      <3> SUFFICES ASSUME NEW k \in 1 .. m - 1 PROVE h[k] = g[IF k < j THEN k ELSE k + 1]
        BY Zenon
      <3> DEFINE l == IF k < j THEN k ELSE k + 1
      <3>1. l \in 1 .. m
        <4> HIDE DEF m, j
        <4> QED BY <2>3, <2>6
      <3>2. s[k] = t[l]
        BY <2>6, Zenon
      <3> HIDE DEF s, l, m, j
      <3> QED BY <2>4, <2>7, <3>1, <3>2 DEF l
    <2>9. sum(s) = Plus(h, m - 1)
      BY <2>7, Zenon
    <2> HIDE DEF f, g, h, m, i, j, s
    <2>10. Plus(f, m) - f[i] = Plus(g, m) - g[i]
      BY <1>5, <1>7, <2>5, SumExcept
    <2>11. Plus(h, m - 1) = Plus(g, m) - g[j]
      BY <2>3, <2>5, <2>6, <2>8, SumWithout, ZenonT(30)
    <2>12. Plus(f, m) \in Int /\ Plus(g, m) \in Int /\ f[i] \in Int /\ f[j] \in Int
      BY <1>5, <1>7, <2>3, <2>5, SumTyped, Zenon DEF Numbers
    <2>13. Plus(h, m - 1) = Plus(f, m)
      BY <2>5, <2>10, <2>11, <2>12
    <2> HIDE DEF sum
    <2> QED BY <1>7, <1>8, <2>1, <2>7, <2>9, <2>13, SMTT(30)
  <1> QED BY <1>10, <1>11

\* Renaming a variable to one of the same value leaves a constraint satisfied.
LEMMA UpdateKeeps ==
    ASSUME NEW n \in Nat, NEW p \in Point(n), NEW v \in Variables(n), NEW w \in Variables(n), v # w, p[v] = p[w],
           NEW c \in Fulfilled(n, p), c \notin Disjunctions(n, p), v \in ConVariables(c)
    PROVE  UpdateVariableIndex(c, v, w) \in Fulfilled(n, p)
  <1> DEFINE d == UpdateVariableIndex(c, v, w)
             renamed(x) == IF x = v THEN w ELSE x
  <1>1. None \notin Variables(n)
    BY DEF None, Variables
  <1>2. CASE c \in Relus(n, p)
    <2>1. c.kind = "relu" /\ c.aux # None /\ d = UpdatePair(c, v, w)
      BY <1>1, <1>2 DEF Relus, UpdateVariableIndex
    <2>2. v \in {c.b, c.f, c.aux}
      BY <2>1 DEF ConVariables, Participating
    <2>3. d = IF v = c.b THEN [c EXCEPT !.b = w] ELSE IF v = c.f THEN [c EXCEPT !.f = w] ELSE [c EXCEPT !.aux = w]
      BY <2>1 DEF UpdatePair
    <2> HIDE DEF d
    <2>4. d \in Relus(n, p)
      BY <1>2, <2>2, <2>3 DEF Relus, Relu!Holds, Relu!Linear
    <2> QED BY <2>4 DEF Fulfilled, d
  <1>3. CASE c \in AbsoluteValues(n, p)
    <2>1. c.kind = "abs" /\ c.posAux # None /\ d = UpdatePair(c, v, w)
      BY <1>1, <1>3 DEF AbsoluteValues, UpdateVariableIndex
    <2>2. v \in {c.b, c.f, c.posAux, c.negAux}
      BY <2>1 DEF ConVariables, Participating
    <2>3. d = IF v = c.b THEN [c EXCEPT !.b = w] ELSE IF v = c.f THEN [c EXCEPT !.f = w]
              ELSE IF v = c.posAux THEN [c EXCEPT !.posAux = w] ELSE [c EXCEPT !.negAux = w]
      BY <2>1 DEF UpdatePair
    <2> HIDE DEF d
    <2>4. d \in AbsoluteValues(n, p)
      BY <1>3, <2>2, <2>3 DEF AbsoluteValues, Abs!Holds, Abs!Linear
    <2> QED BY <2>4 DEF Fulfilled, d
  <1>4. CASE c \in Signs(n, p)
    <2>1. c.kind = "sign" /\ d = UpdatePair(c, v, w)
      BY <1>4 DEF Signs, UpdateVariableIndex
    <2>2. v \in {c.b, c.f}
      BY <2>1 DEF ConVariables, Participating
    <2>3. d = IF v = c.b THEN [c EXCEPT !.b = w] ELSE [c EXCEPT !.f = w]
      BY <2>1, <2>2 DEF UpdatePair
    <2> HIDE DEF d
    <2>4. d \in Signs(n, p)
      BY <1>4, <2>2, <2>3 DEF Signs, Sign!Holds
    <2> QED BY <2>4 DEF Fulfilled, d
  <1>5. CASE c \in Roundings(n, p)
    <2>1. c.kind = "round" /\ d = UpdatePair(c, v, w)
      BY <1>5 DEF Roundings, UpdateVariableIndex
    <2>2. v \in {c.b, c.f}
      BY <2>1 DEF ConVariables, Participating
    <2>3. d = IF v = c.b THEN [c EXCEPT !.b = w] ELSE [c EXCEPT !.f = w]
      BY <2>1, <2>2 DEF UpdatePair
    <2> HIDE DEF d
    <2>4. d \in Roundings(n, p)
      BY <1>5, <2>2, <2>3 DEF Roundings
    <2> QED BY <2>4 DEF Fulfilled, d
  <1>6. CASE c \in Maxima(n, p)
    <2>1. c.kind = "max" /\ d = UpdateMax(c, v, w)
      BY <1>6 DEF Maxima, UpdateVariableIndex
    <2>2. /\ c.f \in Variables(n) /\ c.elements \subseteq Variables(n) /\ DOMAIN c.aux = c.elements
          /\ (\A e \in c.elements : c.aux[e] \in Variables(n)) /\ c.state.elements = c.elements
          /\ MaxOf!Holds(c, p) /\ MaxOf!Linear(c, p) /\ MaxKnows(c, c.state, p)
          /\ c.aux \in [c.elements -> Variables(n)]
      <3>1. c.aux \in [DOMAIN c.aux -> Variables(n)]
        BY <1>6 DEF Maxima
      <3> QED BY <1>6, <3>1 DEF Maxima
    <2>3. CASE v = c.f
      <3>1. d = [c EXCEPT !.f = w]
        BY <2>1, <2>3 DEF UpdateMax
      <3> HIDE DEF d
      <3>2. MaxKnows(d, c.state, p) /\ MaxOf!Holds(d, p) /\ MaxOf!Linear(d, p)
        BY <1>6, <2>2, <2>3, <3>1 DEF Maxima, MaxKnows, MaxOf!States, MaxOf!Holds, MaxOf!Linear
      <3>3. d \in Maxima(n, p)
        BY <1>6, <2>2, <3>1, <3>2 DEF Maxima
      <3> QED BY <3>3 DEF Fulfilled, d
    <2>4. CASE v # c.f /\ v \in c.elements
      <3> DEFINE E == (c.elements \ {v}) \cup {w}
                 aux == [e \in E |-> c.aux[IF e = w THEN v ELSE e]]
                 state == [c.state EXCEPT !.elements = E]
      <3>2. d = [c EXCEPT !.elements = E, !.aux = aux, !.state = state]
        <4>1. d = [c EXCEPT !.elements = E, !.state.elements = E, !.aux = aux]
          BY <2>1, <2>2, <2>4 DEF UpdateMax
        <4> HIDE DEF aux, E
        <4> QED BY <1>6, <4>1, Zenon DEF Maxima
      <3> HIDE DEF d
      <3>3. E \subseteq Variables(n) /\ aux \in [E -> Variables(n)] /\ state \in MaxOf!States(d) /\ state.elements = E
        <4>1. E \subseteq Variables(n) /\ aux \in [E -> Variables(n)]
          BY <2>2, <2>4
        <4> HIDE DEF aux, E
        <4>2. c.state \in MaxOf!States(c) /\ d.elements = E
          BY <1>6, <2>2, <3>2 DEF MaxKnows, Maxima
        <4> QED BY <4>1, <4>2 DEF MaxOf!States
      <3>4. \A e \in E : \E g \in c.elements : p[e] = p[g] /\ aux[e] = c.aux[g]
        BY <2>4
      <3>5. \A g \in c.elements : \E e \in E : p[e] = p[g]
        BY <2>4
      <3>6. d.f = c.f /\ d.elements = E /\ d.aux = aux /\ d.state = state /\ d.maxValueOfEliminated = c.maxValueOfEliminated
            /\ state.maxLowerBound = c.state.maxLowerBound /\ state.haveEliminated = c.state.haveEliminated
        <4> HIDE DEF aux, E
        <4> QED BY <1>6, <3>2 DEF Maxima
      <3> HIDE DEF aux, E, state
      <3>7. MaxOf!Holds(d, p) /\ MaxOf!Linear(d, p)
        BY <2>2, <3>4, <3>5, <3>6 DEF MaxOf!Holds, MaxOf!Linear
      <3>8. MaxKnows(d, state, p)
        BY <2>2, <3>3, <3>5, <3>6 DEF MaxKnows
      <3>9. d \in Maxima(n, p)
        <4>1. c.state \in [active : BOOLEAN, elements : SUBSET Variables(n), maxLowerBound : Int, haveEliminated : BOOLEAN]
          BY <1>6 DEF Maxima
        <4>2. state \in [active : BOOLEAN, elements : SUBSET Variables(n), maxLowerBound : Int, haveEliminated : BOOLEAN]
          BY <3>3, <4>1 DEF state
        <4>3. aux \in UNION {[D -> Variables(n)] : D \in SUBSET Variables(n)} /\ DOMAIN aux = E
          BY <3>3
        <4> QED BY <1>6, <3>2, <3>3, <3>6, <3>7, <3>8, <4>2, <4>3, Zenon DEF Maxima
      <3> QED BY <3>9 DEF Fulfilled, d
    <2>5. CASE v # c.f /\ v \notin c.elements
      <3> DEFINE aux == [e \in DOMAIN c.aux |-> IF c.aux[e] = v THEN w ELSE c.aux[e]]
      <3>1. d = [c EXCEPT !.aux = aux]
        BY <1>6, <2>1, <2>5 DEF UpdateMax
      <3>2. aux \in [c.elements -> Variables(n)] /\ \A e \in c.elements : p[aux[e]] = p[c.aux[e]]
        BY <2>2
      <3> HIDE DEF d, aux
      <3>3. MaxOf!Holds(d, p) /\ MaxOf!Linear(d, p) /\ MaxKnows(d, c.state, p)
        <4>1. d.f = c.f /\ d.elements = c.elements /\ d.aux = aux /\ d.maxValueOfEliminated = c.maxValueOfEliminated
          BY <1>6, <3>1 DEF Maxima
        <4> QED BY <2>2, <3>2, <4>1 DEF MaxOf!Holds, MaxOf!Linear, MaxKnows, MaxOf!States
      <3>4. aux \in UNION {[D -> Variables(n)] : D \in SUBSET Variables(n)} /\ DOMAIN aux = c.elements
        BY <2>2, <3>2
      <3>5. d \in Maxima(n, p)
        BY <1>6, <2>2, <3>1, <3>3, <3>4 DEF Maxima
      <3> QED BY <3>5 DEF Fulfilled, d
    <2> QED BY <2>3, <2>4, <2>5
  <1> QED BY <1>2, <1>3, <1>4, <1>5, <1>6 DEF Fulfilled

\* An equation of opposite coefficients makes its two variables equal, unless they are 0.
LEMMA EqualVariables ==
    ASSUME NEW n \in Nat, NEW p \in Point(n), NEW eq \in Satisfied(n, p), Len(eq.addends) = 2,
           eq.addends[1][1] = -eq.addends[2][1], eq.scalar = 0, eq.addends[1][1] # 0
    PROVE  /\ eq.addends[1][2] \in Variables(n) /\ eq.addends[2][2] \in Variables(n)
           /\ p[eq.addends[1][2]] = p[eq.addends[2][2]]
  <1> DEFINE a == eq.addends[2][1]
             v == eq.addends[1][2]
             w == eq.addends[2][2]
             f == [k \in DOMAIN eq.addends |-> eq.addends[k][1] * p[eq.addends[k][2]]]
  <1>1. /\ DOMAIN eq.addends = 1 .. 2 /\ a \in Int /\ v \in Variables(n) /\ w \in Variables(n)
        /\ SumAt(eq, p) = 0
    <2>1. eq.addends \in Seq(Int \X Variables(n)) /\ SumAt(eq, p) = 0
      BY DEF Satisfied
    <2>2. eq.addends[1] \in Int \X Variables(n) /\ eq.addends[2] \in Int \X Variables(n)
      BY <2>1
    <2> QED BY <2>1, <2>2
  <1>2. p[v] \in Int /\ p[w] \in Int
    BY <1>1 DEF Point, Variables
  <1>3. f[1] = (-a) * p[v] /\ f[2] = a * p[w] /\ SumAt(eq, p) = Plus(f, 2)
    BY <1>1 DEF SumAt
  <1> HIDE DEF f, a, v, w
  <1>4. (-a) * p[v] = -(a * p[v]) /\ a * p[v] \in Int /\ a * p[w] \in Int
    BY <1>1, <1>2, TimesType, SMT
  <1>5. Numbers(f, 2)
    BY <1>3, <1>4 DEF Numbers
  <1>6. PICK g : Partial(g, f, 2)
    BY <1>5, SumCourse
  <1>7. Plus(f, 2) = f[1] + f[2]
    <2>1. g[0] = 0 /\ g[1] = g[1 - 1] + f[1] /\ g[2] = g[2 - 1] + f[2] /\ Plus(f, 2) = g[2]
      BY <1>6 DEF Partial
    <2> QED BY <1>3, <1>4, <2>1
  <1>8. a * p[v] = a * p[w]
    BY <1>1, <1>3, <1>4, <1>7
  <1>9. p[v] = p[w]
    <2>1. a # 0
      BY <1>1 DEF a
    <2>2. \A x, y \in Int : x < y => a * x # a * y
      <3> SUFFICES ASSUME NEW x \in Int, NEW y \in Int, x < y PROVE a * x # a * y
        OBVIOUS
      <3>1. x + 1 <= y /\ a * (x + 1) = a * x + a /\ a * x \in Int /\ a * y \in Int
        BY <1>1, TimesType, SMT
      <3>2. (a >= 0 => a * (x + 1) <= a * y) /\ (a <= 0 => a * y <= a * (x + 1))
        BY <1>1, <3>1, TimesOrder
      <3> QED BY <1>1, <2>1, <3>1, <3>2
    <2> QED BY <1>2, <1>8, <2>2
  <1> QED BY <1>1, <1>9 DEF v, w

\* An equation of two variables with opposite coefficients that are not 0 merges the first
\* into the second, in the bounds, the equations and the constraints, and every solution
\* stays one.  With coefficients 0, which a merge of the same pass may leave, it would not:
\* IdenticalMerged of MCPreprocessor.
THEOREM MergingKeepsSolutions ==
    ASSUME NEW n \in Nat, NEW p \in Moderate(n), NEW r \in Rounds(n, p), NEW i \in DOMAIN r.query.eqs,
           LET addends == r.query.eqs[i].addends
           IN  Len(addends) = 2 => addends[1][1] # 0 /\ addends[1][2] # addends[2][2]
    PROVE  ProcessIdentical(r, i) \in Rounds(n, p)
  <1> DEFINE eq == r.query.eqs[i]
             v == eq.addends[1][2]
             w == eq.addends[2][2]
             b == r.query.box
             T == {Least(w, Lb(b, v)), Most(w, Ub(b, v))}
             cut == Tightened(b, T)
             eqs == [j \in DOMAIN r.query.eqs |-> Substitute(r.query.eqs[j], v, w)]
             cons == [j \in DOMAIN r.query.cons |->
                        IF v \in ConVariables(r.query.cons[j]) THEN UpdateVariableIndex(r.query.cons[j], v, w) ELSE r.query.cons[j]]
             query == [r.query EXCEPT !.box = cut]
             q == [query EXCEPT !.eqs = eqs, !.cons = cons]
             merged == [u \in DOMAIN r.merged \cup {v} |-> IF u = v THEN w ELSE r.merged[u]]
             gone == r.gone \cup {i}
             applies == /\ Len(eq.addends) = 2 /\ eq.addends[1][1] = -eq.addends[2][1] /\ eq.scalar = 0
                        /\ {v, w} \cap Uneliminable(r.query) = {}
  <1>1. /\ r.query \in Queries(n, p) /\ b \in BoxOver(n) /\ Inside(p, b)
        /\ r.query.eqs \in Seq(Satisfied(n, p)) /\ r.query.cons \in Seq(Fulfilled(n, p))
        /\ eq \in Satisfied(n, p) /\ i \in Nat
    <2>1. r.query \in Queries(n, p)
      BY DEF Rounds
    <2>2. r.query.eqs \in Seq(Satisfied(n, p)) /\ r.query.cons \in Seq(Fulfilled(n, p))
      BY <2>1 DEF Queries
    <2>3. eq \in Satisfied(n, p) /\ i \in Nat
      BY <2>2
    <2> QED BY <2>1, <2>2, <2>3 DEF Queries
  <1>2. p \in Point(n)
    <2>1. Inf \div 2 \in Int
      BY DEF Inf
    <2> QED BY <2>1 DEF Moderate, Point, Variables
  <1>3. SUFFICES ASSUME applies PROVE ProcessIdentical(r, i) \in Rounds(n, p)
    BY Zenon DEF ProcessIdentical
  <1>4. v \in Variables(n) /\ w \in Variables(n) /\ p[v] = p[w] /\ v # w
    <2> HIDE DEF eq
    <2>1. eq.addends[1][1] # 0 /\ v # w
      BY <1>3, SMTT(30) DEF eq
    <2> QED BY <1>1, <1>2, <1>3, <2>1, EqualVariables, SMTT(30)
  <1>5. v \notin Uneliminable(r.query)
    BY <1>3, SMTT(30)
  <1>6. ProcessIdentical(r, i) =
          [r EXCEPT !.query = MergeIdenticalVariables([@ EXCEPT !.box = cut], v, w),
                    !.tighter = TRUE, !.gone = @ \cup {i}, !.merged = merged]
    BY <1>3 DEF ProcessIdentical
  <1> HIDE DEF eq, v, w, applies
  <1>7. Spared(n, p, T)
    <2>1. Reads(b, p, v) /\ p[w] \in Int
      BY <1>1, <1>2, <1>4, BoxedBounds, Zenon DEF Boxed, Reads, Variables
    <2>2. \A t \in T : t \in Tightenings(n) /\ Respects(p, t)
      BY <1>4, <2>1, LeastSpared, MostSpared DEF Reads, Lb, Ub
    <2> QED BY <2>2 DEF Spared, Meets
  <1> HIDE DEF T
  <1>8. cut \in BoxOver(n) /\ Inside(p, cut)
    BY <1>1, <1>7, SparedBox
  <1> HIDE DEF cut
  <1>9. eqs \in Seq(Satisfied(n, p))
    <2>1. \A j \in DOMAIN r.query.eqs : Substitute(r.query.eqs[j], v, w) \in Satisfied(n, p)
      BY <1>1, <1>2, <1>4, SubstituteKeeps
    <2> QED BY <1>1, <2>1, SMTT(30)
  <1>10. cons \in Seq(Fulfilled(n, p))
    <2>1. ASSUME NEW j \in DOMAIN r.query.cons
          PROVE  (IF v \in ConVariables(r.query.cons[j]) THEN UpdateVariableIndex(r.query.cons[j], v, w)
                  ELSE r.query.cons[j]) \in Fulfilled(n, p)
      <3>1. r.query.cons[j] \in Fulfilled(n, p)
        BY <1>1
      <3>2. r.query.cons[j] \in Disjunctions(n, p) => v \notin ConVariables(r.query.cons[j])
        BY <1>5 DEF Uneliminable, Disjunctions
      <3> QED BY <1>2, <1>4, <3>1, <3>2, UpdateKeeps
    <2> QED BY <1>1, <2>1, SMTT(30)
  <1>11. query \in Queries(n, p) /\ query.eqs = r.query.eqs /\ query.cons = r.query.cons
    BY <1>1, <1>8, Zenon DEF Queries
  <1> HIDE DEF query
  <1>16. MergeIdenticalVariables(query, v, w) = q
    BY <1>11 DEF MergeIdenticalVariables
  <1> HIDE DEF eqs, cons
  <1>12. q \in Queries(n, p)
    BY <1>9, <1>10, <1>11, Zenon DEF Queries
  <1> HIDE DEF q
  <1>13. merged \in UNION {[S -> Nat] : S \in SUBSET Nat}
    <2>1. DOMAIN r.merged \subseteq Nat /\ \A u \in DOMAIN r.merged : r.merged[u] \in Nat
      <3>1. r.merged \in UNION {[S -> Nat] : S \in SUBSET Nat}
        BY DEF Rounds
      <3>2. PICK S \in SUBSET Nat : r.merged \in [S -> Nat]
        BY <3>1
      <3> QED BY <3>2, Zenon
    <2>2. v \in Nat /\ w \in Nat
      BY <1>4 DEF Variables
    <2>3. merged \in [DOMAIN r.merged \cup {v} -> Nat] /\ DOMAIN r.merged \cup {v} \in SUBSET Nat
      BY <2>1, <2>2
    <2> QED BY <2>3, Zenon
  <1> HIDE DEF merged
  <1>14. gone \subseteq Nat
    BY <1>1 DEF Rounds
  <1>15. ProcessIdentical(r, i) = [r EXCEPT !.query = q, !.tighter = TRUE, !.gone = gone, !.merged = merged]
    BY <1>6, <1>16, Zenon DEF query
  <1> HIDE DEF gone
  <1> QED BY <1>12, <1>13, <1>14, <1>15, Zenon DEF Rounds

-----------------------------------------------------------------------------
(* removeRedundantAddends *)

\* The last term of a sum
LEMMA SumLast ==
    ASSUME NEW n \in Nat \ {0}, NEW f, Numbers(f, n)
    PROVE  Plus(f, n) = Plus(f, n - 1) + f[n] /\ Numbers(f, n - 1) /\ Plus(f, n - 1) \in Int /\ f[n] \in Int
  <1>1. n \in 1 .. n /\ \A i \in 1 .. n - 1 : f[i] = f[IF i < n THEN i ELSE i + 1]
    OBVIOUS
  <1>2. Plus(f, n - 1) = Plus(f, n) - f[n]
    BY <1>1, SumWithout
  <1>3. Numbers(f, n - 1) /\ f[n] \in Int
    BY DEF Numbers
  <1>4. Plus(f, n) \in Int /\ Plus(f, n - 1) \in Int
    BY <1>3, SumTyped
  <1> QED BY <1>2, <1>3, <1>4

\* The sum of nothing
LEMMA SumNone ==
    ASSUME NEW f
    PROVE  Plus(f, 0) = 0
  <1>1. Numbers(f, 0)
    BY DEF Numbers
  <1>2. PICK g : Partial(g, f, 0)
    BY <1>1, SumCourse
  <1> QED BY <1>2 DEF Partial

\* A sum of zeros
LEMMA SumZero ==
    ASSUME NEW n \in Nat, NEW f, \A i \in 1 .. n : f[i] = 0
    PROVE  Plus(f, n) = 0
  <1>1. Numbers(f, n)
    BY DEF Numbers
  <1>2. PICK g : Partial(g, f, n)
    BY <1>1, SumCourse
  <1> DEFINE T == {i \in 0 .. n : g[i] = 0}
  <1>3. 0 \in T
    BY <1>2 DEF Partial
  <1>4. ASSUME NEW i \in 1 .. n, i - 1 \in T
        PROVE  i \in T
    <2>1. g[i] = g[i - 1] + f[i] /\ g[i - 1] = 0 /\ f[i] = 0
      BY <1>2, <1>4 DEF Partial
    <2> QED BY <2>1
  <1>5. n \in 0 .. n /\ \A i \in 0 .. n : i \in T
    <2> HIDE DEF T
    <2> QED BY <1>3, <1>4, Sums!Induction
  <1> QED BY <1>2, <1>5 DEF Partial

\* Two members of a finite set of numbers differ in how many are below them.
LEMMA RankUnique ==
    ASSUME NEW S, S \subseteq Nat, IsFiniteSet(S), NEW x \in S, NEW y \in S,
           Cardinality({z \in S : z < x}) = Cardinality({z \in S : z < y})
    PROVE  x = y
  <1>1. ASSUME NEW u \in S, NEW v \in S, u < v
        PROVE  Cardinality({z \in S : z < u}) # Cardinality({z \in S : z < v})
    <2> DEFINE A == {z \in S : z < u}
               B == {z \in S : z < v}
    <2>1. A \in SUBSET B /\ u \in B \ A /\ IsFiniteSet(B)
      <3>1. \A z \in S : (z < u => z < v) /\ ~(u < u) /\ z \in Int
        BY <1>1
      <3>2. A \in SUBSET B /\ u \in B \ A /\ B \in SUBSET S
        BY <1>1, <3>1, Zenon
      <3> HIDE DEF A, B
      <3> QED BY <3>2, FS_Subset, Zenon
    <2> HIDE DEF A, B
    <2>2. A # B
      BY <2>1
    <2>3. Cardinality(A) # Cardinality(B)
      BY <2>1, <2>2, FS_Subset, Zenon
    <2> QED BY <2>3 DEF A, B
  <1>2. x \in Int /\ y \in Int
    OBVIOUS
  <1>3. CASE x < y
    BY <1>1, <1>3
  <1>4. CASE y < x
    BY <1>1, <1>4
  <1> QED BY <1>2, <1>3, <1>4

\* What is left of a set of numbers below m
Under(S, m) == {x \in S : x < m}

\* One more member, the greatest, comes last; k are before it.
Lengthened(S, m) ==
    \A A, B, k : A = Under(S, m) /\ B = Under(S, m + 1) /\ k = Cardinality(A) =>
        /\ k \in Nat /\ IsFiniteSet(B) /\ Cardinality(B) = k + 1
        /\ Ascending(B)[k + 1] = m
        /\ \A i \in 1 .. k : Ascending(B)[i] = Ascending(A)[i] /\ Ascending(A)[i] \in A
\* Adding a number above all others puts it last
LEMMA AscendingLast ==
    ASSUME NEW S, S \subseteq Nat, NEW m \in S, IsFiniteSet(Under(S, m))
    PROVE  Lengthened(S, m)
  <1> SUFFICES ASSUME NEW A, NEW B, NEW k, A = Under(S, m), B = Under(S, m + 1), k = Cardinality(A)
               PROVE  /\ k \in Nat /\ IsFiniteSet(B) /\ Cardinality(B) = k + 1
                      /\ Ascending(B)[k + 1] = m
                      /\ \A i \in 1 .. k : Ascending(B)[i] = Ascending(A)[i] /\ Ascending(A)[i] \in A
    BY DEF Lengthened
  <1> DEFINE Rank(C, x) == Cardinality({y \in C : y < x})
  <1>0. \A x \in S : x \in Int /\ (x < m + 1 <=> x < m \/ x = m) /\ ~(x < x)
    OBVIOUS
  <1>1. B = A \cup {m} /\ m \notin A /\ A \subseteq Nat /\ B \subseteq Nat
    <2>1. \A x : (x \in B <=> x \in A \/ x = m) /\ (x \in A => x \in Nat /\ x # m)
      BY <1>0, Zenon DEF Under
    <2> QED BY <2>1
  <1>2. k \in Nat /\ IsFiniteSet(B) /\ Cardinality(B) = k + 1
    <2> QED BY <1>1, FS_AddElement, FS_CardinalityType
  <1>3. Rank(B, m) = k
    <2>1. {y \in B : y < m} = A
      <3>1. \A y : y \in B /\ y < m <=> y \in A
        BY <1>0, Zenon DEF Under
      <3> QED BY <3>1
    <2> QED BY <2>1
  <1>4. \A x \in A : Rank(B, x) = Rank(A, x)
    <2> SUFFICES ASSUME NEW x \in A PROVE Rank(B, x) = Rank(A, x)
      OBVIOUS
    <2>1. {y \in B : y < x} = {y \in A : y < x}
      <3>1. \A y : y \in B /\ y < x <=> y \in A /\ y < x
        <4>1. x \in Int /\ m \in Int /\ x < m /\ \A y \in S : y \in Int
          BY DEF Under
        <4>2. \A y \in S : y < x => y < m
          BY <4>1
        <4> QED BY <1>0, <4>2, Zenon DEF Under
      <3> QED BY <3>1
    <2> QED BY <2>1
  <1>5. ASSUME NEW i \in 1 .. k + 1, NEW x \in B, Rank(B, x) = i - 1
        PROVE  Ascending(B)[i] = x
    <2> DEFINE C == CHOOSE z \in B : Rank(B, z) = i - 1
    <2>1. C \in B /\ Rank(B, C) = i - 1
      BY <1>5, Zenon
    <2>2. Ascending(B)[i] = C
      BY <1>2, <1>5, Zenon DEF Ascending
    <2> HIDE DEF C
    <2>3. Rank(B, C) = Rank(B, x)
      BY <1>5, <2>1
    <2>4. C = x
      BY <1>1, <1>2, <1>5, <2>1, <2>3, RankUnique
    <2> QED BY <2>2, <2>4
  <1>6. Ascending(B)[k + 1] = m
    <2>1. k + 1 \in 1 .. k + 1 /\ m \in B /\ Rank(B, m) = (k + 1) - 1
      BY <1>1, <1>2, <1>3
    <2> HIDE DEF Rank
    <2> QED BY <1>5, <2>1
  <1>7. ASSUME NEW i \in 1 .. k
        PROVE  Ascending(B)[i] = Ascending(A)[i] /\ Ascending(A)[i] \in A
    <2> DEFINE C == CHOOSE z \in A : Rank(A, z) = i - 1
    <2>1. Ascending(A)[i] = C
      BY <1>7, Zenon DEF Ascending
    <2>2. \E z \in A : Rank(A, z) = i - 1
      BY <1>1, <1>7, RankExists, Zenon
    <2>3. C \in A /\ Rank(A, C) = i - 1
      BY <2>2, Zenon
    <2> HIDE DEF C
    <2>4. i \in 1 .. k + 1 /\ C \in B /\ Rank(B, C) = i - 1
      BY <1>1, <1>2, <1>4, <2>3
    <2> HIDE DEF Rank
    <2>5. Ascending(B)[i] = C
      BY <1>5, <2>4
    <2> QED BY <2>1, <2>3, <2>5
  <1> QED BY <1>2, <1>6, <1>7

\* The values of g on S, in order, and on all variables with 0 outside S
Listed(S, g) == [i \in DOMAIN Ascending(S) |-> g[Ascending(S)[i]]]
Padded(S, g, n) == [i \in 1 .. n |-> IF i - 1 \in S THEN g[i - 1] ELSE 0]

\* Summing over the members of a set in ascending order
LEMMA AscendingSum ==
    ASSUME NEW n \in Nat, NEW S, S \subseteq Variables(n), NEW g, \A v \in S : g[v] \in Int
    PROVE  Plus(Listed(S, g), Cardinality(S)) = Plus(Padded(S, g, n), n)
  <1> DEFINE A(m) == Under(S, m)
             k(m) == Cardinality(A(m))
             h == Padded(S, g, n)
             T == {m \in 0 .. n : IsFiniteSet(A(m)) /\ Plus(Listed(A(m), g), k(m)) = Plus(h, m)}
  <1>1. Numbers(h, n) /\ S \subseteq Nat
    BY DEF Numbers, Padded, Variables
  <1>2. 0 \in T
    <2>1. A(0) = {}
      <3>1. \A x \in S : ~(x < 0)
        BY <1>1
      <3> QED BY <3>1 DEF Under
    <2>2. IsFiniteSet(A(0)) /\ k(0) = 0
      BY <2>1, FS_EmptySet
    <2> HIDE DEF A, k, h
    <2>3. Plus(Listed(A(0), g), k(0)) = Plus(h, 0)
      BY <2>2, SumNone
    <2> QED BY <2>2, <2>3
  <1>3. ASSUME NEW m \in 1 .. n, m - 1 \in T
        PROVE  m \in T
    <2>1. IsFiniteSet(A(m - 1)) /\ Plus(Listed(A(m - 1), g), k(m - 1)) = Plus(h, m - 1)
      BY <1>3
    <2>2. Plus(h, m) = Plus(h, m - 1) + h[m] /\ Plus(h, m - 1) \in Int /\ h[m] \in Int
      <3>1. m \in Nat \ {0} /\ Numbers(h, m)
        BY <1>1 DEF Numbers
      <3> HIDE DEF h
      <3> QED BY <3>1, SumLast
    <2>3. h[m] = IF m - 1 \in S THEN g[m - 1] ELSE 0
      BY DEF Padded
    <2> HIDE DEF h
    <2>4. CASE m - 1 \notin S
      <3>1. A(m) = A(m - 1)
        <4>1. \A x \in S : x < m <=> x < m - 1
          <5> SUFFICES ASSUME NEW x \in S PROVE x < m <=> x < m - 1
            OBVIOUS
          <5>1. x \in Int /\ m \in Int /\ x # m - 1
            BY <1>1, <2>4
          <5> QED BY <5>1
        <4> QED BY <4>1 DEF Under
      <3> HIDE DEF A
      <3>2. Plus(Listed(A(m), g), k(m)) = Plus(h, m)
        BY <2>1, <2>2, <2>3, <2>4, <3>1
      <3> QED BY <2>1, <3>1, <3>2
    <2>5. CASE m - 1 \in S
      <3> DEFINE old == Listed(A(m - 1), g)
                 new == Listed(A(m), g)
                 c == k(m - 1)
      <3>0. A(m - 1) = Under(S, m - 1) /\ A(m) = Under(S, (m - 1) + 1) /\ c = Cardinality(A(m - 1)) /\ k(m) = Cardinality(A(m))
        <4>1. (m - 1) + 1 = m
          OBVIOUS
        <4> QED BY <4>1
      <3> HIDE DEF A, c, k
      <3>1. /\ c \in Nat /\ IsFiniteSet(A(m)) /\ k(m) = c + 1 /\ Ascending(A(m))[c + 1] = m - 1
            /\ \A i \in 1 .. c : Ascending(A(m))[i] = Ascending(A(m - 1))[i] /\ Ascending(A(m - 1))[i] \in A(m - 1)
        <4> DEFINE o == m - 1
                   L == A(o)
                   M == A(m)
        <4>1. S \subseteq Nat /\ o \in S /\ L = Under(S, o) /\ M = Under(S, o + 1) /\ IsFiniteSet(L) /\ c = Cardinality(L)
          BY <1>1, <2>1, <2>5, <3>0
        <4> HIDE DEF o, L, M, T
        <4>2. /\ c \in Nat /\ IsFiniteSet(M) /\ Cardinality(M) = c + 1 /\ Ascending(M)[c + 1] = o
              /\ \A i \in 1 .. c : Ascending(M)[i] = Ascending(L)[i] /\ Ascending(L)[i] \in L
          <5>1. Lengthened(S, o)
            BY <4>1, AscendingLast, Zenon
          <5> QED BY <4>1, <5>1 DEF Lengthened
        <4> QED BY <3>0, <4>2 DEF o, L, M
      <3>2. DOMAIN Ascending(A(m)) = 1 .. c + 1 /\ DOMAIN Ascending(A(m - 1)) = 1 .. c
        BY <3>0, <3>1 DEF Ascending
      <3>3. A(m - 1) \subseteq S
        BY DEF Under, A
      <3>4. new[c + 1] = g[m - 1] /\ \A i \in 1 .. c : new[i] = old[i] /\ old[i] \in Int
        BY <3>1, <3>2, <3>3 DEF Listed
      <3> HIDE DEF new, old
      <3>5. Numbers(new, c + 1) /\ Numbers(old, c) /\ \A i \in 1 .. c : old[i] = new[i]
        <4>1. \A i \in 1 .. c + 1 : i = c + 1 \/ i \in 1 .. c
          BY <3>1
        <4>2. \A i \in 1 .. c + 1 : new[i] \in Int
          BY <2>5, <3>4, <4>1
        <4> QED BY <3>1, <3>4, <4>2 DEF Numbers
      <3>6. Plus(new, c + 1) = Plus(new, (c + 1) - 1) + new[c + 1] /\ (c + 1) - 1 = c
        BY <3>1, <3>5, SumLast
      <3>7. Plus(old, c) = Plus(new, c)
        BY <3>5, SumSame
      <3>8. Plus(new, c + 1) = Plus(h, m)
        BY <2>1, <2>2, <2>3, <2>5, <3>4, <3>6, <3>7 DEF c, old
      <3> QED BY <3>1, <3>8 DEF new
    <2> QED BY <2>4, <2>5
  <1>4. n \in T
    <2>1. \A i \in 0 .. n : i \in T
      <3> HIDE DEF T
      <3> QED BY <1>2, <1>3, Sums!Induction
    <2> HIDE DEF T
    <2> QED BY <2>1
  <1>5. A(n) = S
    <2>1. \A x \in S : x < n
      BY DEF Variables
    <2> QED BY <2>1 DEF Under
  <1> HIDE DEF A
  <1> QED BY <1>4, <1>5

\* The coefficient of v in the first m addends, and what they add up to, variable by variable
Coefficient(adds, v, m) == Plus([i \in DOMAIN adds |-> IF adds[i][2] = v THEN adds[i][1] ELSE 0], m)
Weighted(adds, p, n, m) == [k \in 1 .. n |-> Coefficient(adds, k - 1, m) * p[k - 1]]

\* A coefficient is a number, and the next addend changes that of its variable.
LEMMA CoefficientNext ==
    ASSUME NEW n \in Nat, NEW adds \in Seq(Int \X Variables(n)), NEW v, NEW m \in 0 .. Len(adds)
    PROVE  /\ Coefficient(adds, v, m) \in Int
           /\ m > 0 => Coefficient(adds, v, m) = Coefficient(adds, v, m - 1) + (IF adds[m][2] = v THEN adds[m][1] ELSE 0)
           /\ m = 0 => Coefficient(adds, v, m) = 0
  <1> DEFINE h == [i \in DOMAIN adds |-> IF adds[i][2] = v THEN adds[i][1] ELSE 0]
  <1>1. DOMAIN adds = 1 .. Len(adds) /\ Len(adds) \in Nat /\ \A i \in 1 .. Len(adds) : adds[i] \in Int \X Variables(n)
    OBVIOUS
  <1>2. \A i \in 1 .. Len(adds) : h[i] \in Int /\ h[i] = IF adds[i][2] = v THEN adds[i][1] ELSE 0
    BY <1>1
  <1>3. Coefficient(adds, v, m) = Plus(h, m) /\ Coefficient(adds, v, m - 1) = Plus(h, m - 1)
    BY DEF Coefficient
  <1> HIDE DEF h
  <1>4. Numbers(h, m)
    BY <1>2 DEF Numbers
  <1>5. Plus(h, m) \in Int /\ (m > 0 => Plus(h, m) = Plus(h, m - 1) + h[m]) /\ (m = 0 => Plus(h, m) = 0)
    <2>1. CASE m = 0
      BY <1>4, <2>1, SumNone
    <2>2. CASE m > 0
      BY <1>4, <2>2, SumLast, SumTyped
    <2> QED BY <2>1, <2>2
  <1> QED BY <1>2, <1>3, <1>5

\* Adding up by variables is adding up the addends.
LEMMA WeightedSum ==
    ASSUME NEW n \in Nat, NEW p \in Point(n), NEW adds \in Seq(Int \X Variables(n))
    PROVE  Plus(Weighted(adds, p, n, Len(adds)), n) = Plus([i \in DOMAIN adds |-> adds[i][1] * p[adds[i][2]]], Len(adds))
  <1> DEFINE len == Len(adds)
             f == [i \in DOMAIN adds |-> adds[i][1] * p[adds[i][2]]]
             T == {m \in 0 .. len : Plus(Weighted(adds, p, n, m), n) = Plus(f, m)}
  <1>1. len \in Nat /\ DOMAIN adds = 1 .. len /\ \A i \in 1 .. len : adds[i][1] \in Int /\ adds[i][2] \in Variables(n)
    OBVIOUS
  <1>2. \A v \in Variables(n) : p[v] \in Int
    BY DEF Point, Variables
  <1>3. Numbers(f, len) /\ \A i \in 1 .. len : f[i] = adds[i][1] * p[adds[i][2]]
    BY <1>1, <1>2, TimesType DEF Numbers
  <1> HIDE DEF f
  <1>4. \A m \in 0 .. len : \A k \in 1 .. n : k - 1 \in Variables(n) /\ Coefficient(adds, k - 1, m) \in Int
    BY CoefficientNext DEF Variables
  <1>5. \A m \in 0 .. len : Numbers(Weighted(adds, p, n, m), n)
    BY <1>2, <1>4, TimesType DEF Numbers, Weighted
  <1>6. 0 \in T
    <2>1. \A k \in 1 .. n : Weighted(adds, p, n, 0)[k] = 0
      <3>1. \A k \in 1 .. n : Coefficient(adds, k - 1, 0) = 0 /\ p[k - 1] \in Int
        BY <1>1, <1>2, <1>4, CoefficientNext, SMTT(30)
      <3> QED BY <3>1 DEF Weighted
    <2>2. Plus(Weighted(adds, p, n, 0), n) = 0
      BY <2>1, SumZero
    <2>3. Plus(Weighted(adds, p, n, 0), n) = Plus(f, 0)
      BY <2>2, SumNone
    <2> QED BY <1>1, <2>3
  <1>7. ASSUME NEW m \in 1 .. len, m - 1 \in T
        PROVE  m \in T
    <2> DEFINE W == Weighted(adds, p, n, m)
               U == Weighted(adds, p, n, m - 1)
               k == adds[m][2] + 1
               a == adds[m][1]
    <2>1. Plus(U, n) = Plus(f, m - 1)
      BY <1>7
    <2>2. k \in 1 .. n /\ k - 1 = adds[m][2] /\ a \in Int /\ p[k - 1] \in Int /\ m \in 0 .. len /\ m - 1 \in 0 .. len
      BY <1>1, <1>2, SMTT(30) DEF Variables
    <2>3. Numbers(W, n) /\ Numbers(U, n)
      BY <1>5, <2>2
    <2>4. \A j \in (1 .. n) \ {k} : W[j] = U[j]
      <3> SUFFICES ASSUME NEW j \in (1 .. n) \ {k} PROVE W[j] = U[j]
        OBVIOUS
      <3>1. Coefficient(adds, j - 1, m) = Coefficient(adds, j - 1, m - 1)
        <4>1. adds[m][2] # j - 1
          BY <2>2
        <4>2. Coefficient(adds, j - 1, m - 1) \in Int
          BY <2>2, CoefficientNext, Zenon
        <4> QED BY <2>2, <4>1, <4>2, CoefficientNext, SMTT(30)
      <3> QED BY <3>1 DEF Weighted
    <2>5. W[k] = U[k] + f[m] /\ U[k] \in Int /\ f[m] \in Int
      <3> DEFINE c == Coefficient(adds, k - 1, m - 1)
                 x == p[k - 1]
      <3>1. c \in Int /\ Coefficient(adds, k - 1, m) = c + a
        <4> HIDE DEF k, a
        <4>1. m > 0 /\ adds[m][2] = k - 1 /\ adds[m][1] = a
          BY <2>2 DEF a
        <4> QED BY <2>2, <4>1, CoefficientNext, ZenonT(40)
      <3>2. W[k] = (c + a) * x /\ U[k] = c * x /\ f[m] = a * x
        BY <1>3, <2>2, <3>1, Zenon DEF Weighted
      <3>3. x \in Int
        BY <2>2
      <3> HIDE DEF c, x, W, U, a, k
      <3>4. (c + a) * x = c * x + a * x /\ c * x \in Int /\ a * x \in Int
        BY <2>2, <3>1, <3>3, TimesType, SMT
      <3> QED BY <3>2, <3>4
    <2> HIDE DEF W, U, k, a
    <2>6. Plus(W, n) - W[k] = Plus(U, n) - U[k]
      <3>1. k \in 1 .. n
        BY <2>2
      <3> HIDE DEF len, T
      <3> QED BY <2>3, <2>4, <3>1, SumExcept
    <2>7. Plus(W, n) \in Int /\ Plus(U, n) \in Int
      BY <2>3, SumTyped
    <2>8. Plus(f, m) = Plus(f, m - 1) + f[m]
      <3>1. Numbers(f, m) /\ m \in Nat \ {0}
        BY <1>3 DEF Numbers
      <3> QED BY <3>1, SumLast
    <2>9. Plus(W, n) = Plus(f, m)
      <3>1. PICK x \in Int, y \in Int, v \in Int, z \in Int : x = Plus(W, n) /\ y = Plus(U, n) /\ v = U[k] /\ z = f[m]
        BY <2>5, <2>7
      <3>2. x - (v + z) = y - v
        BY <2>5, <2>6, <3>1, Zenon
      <3>3. x = y + z
        BY <3>2
      <3> QED BY <2>1, <2>8, <3>1, <3>3, Zenon
    <2> QED BY <2>2, <2>9 DEF W
  <1>8. len \in 0 .. len /\ \A m \in 0 .. len : m \in T
    <2>1. len \in 0 .. len
      BY <1>1
    <2> HIDE DEF T, len
    <2> QED BY <1>1, <1>6, <1>7, <2>1, Sums!Induction, Zenon
  <1> QED BY <1>8 DEF f

\* removeRedundantAddends keeps the sum of an equation at every point.
Equalities(n) == [type : {"EQ"}, addends : Seq(Int \X Variables(n)), scalar : Int]
LEMMA ConsolidatedSum ==
    ASSUME NEW n \in Nat, NEW p \in Point(n), NEW eq \in Equalities(n)
    PROVE  /\ Consolidated(eq) \in Equalities(n) /\ Consolidated(eq).scalar = eq.scalar
           /\ SumAt(Consolidated(eq), p) = SumAt(eq, p)
  <1> DEFINE adds == eq.addends
             len == Len(adds)
             of(v) == Coefficient(adds, v, len)
             S == {v \in EqVariables(eq) : of(v) # 0}
             new == [k \in DOMAIN Ascending(S) |-> <<of(Ascending(S)[k]), Ascending(S)[k]>>]
             g == [v \in Variables(n) |-> of(v) * p[v]]
             card == Cardinality(S)
  <1>1. adds \in Seq(Int \X Variables(n)) /\ len \in Nat /\ DOMAIN adds = 1 .. len /\ \A i \in 1 .. len : adds[i] \in Int \X Variables(n)
    BY DEF Equalities
  <1>2. EqVariables(eq) \subseteq Variables(n) /\ S \subseteq Variables(n)
    BY <1>1, Zenon DEF EqVariables
  <1>3. Consolidated(eq) = [eq EXCEPT !.addends = new]
    BY DEF Consolidated, Coefficient
  <1>4. \A v \in Variables(n) : of(v) \in Int /\ p[v] \in Int
    <2>1. len \in 0 .. len
      BY <1>1
    <2> QED BY <1>1, <2>1, CoefficientNext, Zenon DEF Point, Variables
  <1>5. \A v \in Variables(n) : v \notin S => of(v) = 0
    <2> SUFFICES ASSUME NEW v \in Variables(n), v \notin EqVariables(eq) PROVE of(v) = 0
      OBVIOUS
    <2>1. \A i \in 1 .. len : adds[i][2] # v
      BY <1>1 DEF EqVariables
    <2> DEFINE h == [i \in DOMAIN adds |-> IF adds[i][2] = v THEN adds[i][1] ELSE 0]
    <2>2. \A i \in 1 .. len : h[i] = 0
      BY <1>1, <2>1
    <2> HIDE DEF h
    <2>3. Plus(h, len) = 0
      BY <1>1, <2>2, SumZero
    <2> QED BY <2>3 DEF Coefficient, h
  <1> HIDE DEF of
  <1>6. Ascending(S) \in Seq(S) /\ DOMAIN Ascending(S) = 1 .. card /\ card \in Nat
    <2>1. Ascending(S) \in Seq(S)
      BY <1>2, AscendingMember
    <2>2. DOMAIN Ascending(S) = 1 .. card
      BY DEF Ascending
    <2>3. IsFiniteSet(Variables(n)) /\ S \in SUBSET Variables(n)
      BY <1>2, FS_Interval DEF Variables
    <2>4. card \in Nat
      BY <2>3, FS_Subset, FS_CardinalityType
    <2> QED BY <2>1, <2>2, <2>4
  <1>7. \A k \in 1 .. card : Ascending(S)[k] \in S
    <2> HIDE DEF S
    <2>1. Ascending(S) \in [1 .. Len(Ascending(S)) -> S]
      BY <1>6
    <2> QED BY <1>6, <2>1
  <1> HIDE DEF S, card
  <1>8. new \in Seq(Int \X Variables(n)) /\ Len(new) = card /\ DOMAIN new = 1 .. card
    <2>1. \A k \in 1 .. card : new[k] \in Int \X Variables(n)
      BY <1>2, <1>4, <1>6, <1>7
    <2>2. new \in [1 .. card -> Int \X Variables(n)]
      BY <1>6, <2>1
    <2> QED BY <1>6, <2>2
  <1>9. Consolidated(eq) \in Equalities(n) /\ Consolidated(eq).scalar = eq.scalar /\ Consolidated(eq).addends = new
    BY <1>3, <1>8, Zenon DEF Equalities
  <1>10. \A v \in Variables(n) : g[v] \in Int /\ (v \notin S => g[v] = 0)
    BY <1>4, <1>5, TimesType
  <1>11. SumAt(Consolidated(eq), p) = Plus(Listed(S, g), card)
    <2>1. [i \in DOMAIN new |-> new[i][1] * p[new[i][2]]] = Listed(S, g)
      BY <1>2, <1>6, <1>7, <1>8 DEF Listed
    <2> QED BY <1>8, <1>9, <2>1 DEF SumAt
  <1>12. Plus(Listed(S, g), card) = Plus(Padded(S, g, n), n)
    <2> HIDE DEF g
    <2> QED BY <1>2, <1>10, AscendingSum DEF card
  <1>13. Plus(Padded(S, g, n), n) = Plus(Weighted(adds, p, n, len), n)
    <2>1. \A k \in 1 .. n : k - 1 \in Variables(n)
      BY DEF Variables
    <2>2. \A k \in 1 .. n : Padded(S, g, n)[k] = g[k - 1]
      BY <1>10, <2>1 DEF Padded
    <2>3. \A k \in 1 .. n : Weighted(adds, p, n, len)[k] = g[k - 1]
      BY <2>1 DEF Weighted, of
    <2>4. Numbers(Padded(S, g, n), n)
      BY <1>10, <2>1, <2>2 DEF Numbers
    <2> HIDE DEF g
    <2> QED BY <2>2, <2>3, <2>4, SumSame
  <1>14. Plus(Weighted(adds, p, n, len), n) = SumAt(eq, p)
    BY <1>1, WeightedSum, Zenon DEF SumAt
  <1> QED BY <1>9, <1>11, <1>12, <1>13, <1>14

-----------------------------------------------------------------------------
(* New variables *)

\* Point e is p with values for more variables, all finite.
Continues(n, p, m, e) ==
    m \in Nat /\ n <= m /\ e \in Moderate(m) /\ \A v \in Variables(n) : e[v] = p[v]

\* A point of finite values is a point, and those of its variables are variables of e.
LEMMA ContinuesType ==
    ASSUME NEW n \in Nat, NEW p, NEW m, NEW e, Continues(n, p, m, e)
    PROVE  Variables(n) \subseteq Variables(m) /\ e \in Point(m) /\ m \in Nat
  <1>1. Variables(n) \subseteq Variables(m)
    BY DEF Variables, Continues
  <1>2. Inf \div 2 \in Int
    BY DEF Inf
  <1> QED BY <1>1, <1>2 DEF Continues, Moderate, Point, Variables

\* What continues a continuation
LEMMA ContinuesFurther ==
    ASSUME NEW n \in Nat, NEW p, NEW m, NEW e, Continues(n, p, m, e), NEW l, NEW d, Continues(m, e, l, d)
    PROVE  Continues(n, p, l, d)
  <1>1. Variables(n) \subseteq Variables(m)
    BY ContinuesType
  <1>2. m \in Int /\ l \in Int /\ n <= m /\ m <= l
    BY DEF Continues
  <1> QED BY <1>1, <1>2 DEF Continues

Equations(n) == [type : {"EQ", "GE", "LE"}, addends : Seq(Int \X Variables(n)), scalar : Int]

\* Addends keep their sum.
LEMMA SumContinues ==
    ASSUME NEW n \in Nat, NEW p \in Point(n), NEW m, NEW e, Continues(n, p, m, e),
           NEW eq \in Equations(n)
    PROVE  SumAt(eq, e) = SumAt(eq, p) /\ eq \in Equations(m) /\ SumAt(eq, p) \in Int
  <1> DEFINE len == Len(eq.addends)
             f == [i \in DOMAIN eq.addends |-> eq.addends[i][1] * p[eq.addends[i][2]]]
             h == [i \in DOMAIN eq.addends |-> eq.addends[i][1] * e[eq.addends[i][2]]]
  <1>0. eq.addends \in Seq(Int \X Variables(n))
    BY DEF Equations
  <1>1. len \in Nat /\ DOMAIN eq.addends = 1 .. len /\ \A i \in 1 .. len : eq.addends[i][1] \in Int /\ eq.addends[i][2] \in Variables(n)
    BY <1>0
  <1>2. \A v \in Variables(n) : p[v] \in Int /\ e[v] = p[v]
    BY DEF Point, Variables, Continues
  <1>3. Numbers(f, len) /\ \A i \in 1 .. len : f[i] = h[i]
    BY <1>1, <1>2, TimesType, Zenon DEF Numbers
  <1>4. SumAt(eq, p) = Plus(f, len) /\ SumAt(eq, e) = Plus(h, len)
    BY DEF SumAt
  <1> HIDE DEF f, h
  <1>5. Plus(f, len) = Plus(h, len) /\ Plus(f, len) \in Int
    BY <1>3, SumSame, SumTyped
  <1>6. eq \in Equations(m)
    <2>1. Variables(n) \subseteq Variables(m)
      BY ContinuesType
    <2> QED BY <1>0, <2>1 DEF Equations
  <1> QED BY <1>4, <1>5, <1>6

\* A satisfied equation stays satisfied.
LEMMA SatisfiedGrows ==
    ASSUME NEW n \in Nat, NEW p \in Point(n), NEW m, NEW e, Continues(n, p, m, e)
    PROVE  Satisfied(n, p) \subseteq Satisfied(m, e)
  <1> SUFFICES ASSUME NEW eq \in Satisfied(n, p) PROVE eq \in Satisfied(m, e)
    OBVIOUS
  <1>1. eq \in Equations(n) /\ SumAt(eq, p) = eq.scalar
    BY DEF Satisfied, Equations
  <1>2. SumAt(eq, e) = SumAt(eq, p) /\ eq \in Equations(m)
    BY <1>1, SumContinues
  <1> QED BY <1>1, <1>2 DEF Satisfied, Equations

\* A fulfilled constraint stays fulfilled.
LEMMA FulfilledGrows ==
    ASSUME NEW n \in Nat, NEW p \in Point(n), NEW m, NEW e, Continues(n, p, m, e)
    PROVE  Fulfilled(n, p) \subseteq Fulfilled(m, e)
  <1> SUFFICES ASSUME NEW c \in Fulfilled(n, p) PROVE c \in Fulfilled(m, e)
    OBVIOUS
  <1>1. Variables(n) \subseteq Variables(m) /\ \A v \in Variables(n) : e[v] = p[v]
    BY ContinuesType DEF Continues
  <1>2. CASE c \in Relus(n, p)
    <2>1. c \in Relus(m, e)
      BY <1>1, <1>2 DEF Relus, Relu!Holds, Relu!Linear
    <2> QED BY <2>1 DEF Fulfilled
  <1>3. CASE c \in AbsoluteValues(n, p)
    <2>1. c \in AbsoluteValues(m, e)
      BY <1>1, <1>3 DEF AbsoluteValues, Abs!Holds, Abs!Linear
    <2> QED BY <2>1 DEF Fulfilled
  <1>4. CASE c \in Signs(n, p)
    <2>1. c \in Signs(m, e)
      BY <1>1, <1>4 DEF Signs, Sign!Holds
    <2> QED BY <2>1 DEF Fulfilled
  <1>5. CASE c \in Roundings(n, p)
    <2>1. c \in Roundings(m, e)
      BY <1>1, <1>5 DEF Roundings
    <2> QED BY <2>1 DEF Fulfilled
  <1>6. CASE c \in Maxima(n, p)
    <2>1. /\ c.f \in Variables(n) /\ c.elements \subseteq Variables(n) /\ DOMAIN c.aux = c.elements
          /\ c.aux \in [c.elements -> Variables(n)] /\ c.state.elements = c.elements
          /\ MaxOf!Holds(c, p) /\ MaxOf!Linear(c, p) /\ MaxKnows(c, c.state, p)
      <3>1. c.aux \in [DOMAIN c.aux -> Variables(n)]
        BY <1>6 DEF Maxima
      <3> QED BY <1>6, <3>1 DEF Maxima
    <2>2. MaxOf!Holds(c, e) /\ MaxOf!Linear(c, e) /\ MaxKnows(c, c.state, e)
      BY <1>1, <2>1 DEF MaxOf!Holds, MaxOf!Linear, MaxKnows
    <2>3. c.aux \in [c.elements -> Variables(m)] /\ c.elements \in SUBSET Variables(m)
      BY <1>1, <2>1
    <2>4. c.aux \in UNION {[E -> Variables(m)] : E \in SUBSET Variables(m)}
      BY <2>3
    <2>5. c.state \in [active : BOOLEAN, elements : SUBSET Variables(m), maxLowerBound : Int, haveEliminated : BOOLEAN]
      BY <1>1, <1>6 DEF Maxima
    <2>6. c \in Maxima(m, e)
      BY <1>1, <1>6, <2>1, <2>2, <2>3, <2>4, <2>5 DEF Maxima
    <2> QED BY <2>6 DEF Fulfilled
  <1>7. CASE c \in Disjunctions(n, p)
    <2>1. Tightenings(n) \subseteq Tightenings(m)
      BY <1>1 DEF Tightenings
    <2>2. \A t \in Tightenings(n) : Respects(p, t) => Respects(e, t)
      BY <1>1 DEF Tightenings, Respects
    <2>3. Disj!Holds(c, e)
      <3>1. c.disjuncts \in SUBSET SUBSET Tightenings(n) /\ Disj!Holds(c, p)
        BY <1>7 DEF Disjunctions
      <3> QED BY <2>2, <3>1 DEF Disj!Holds, Disj!Meets, Disj!Respects, Meets, Respects
    <2>4. c \in Disjunctions(m, e)
      BY <1>7, <2>1, <2>3 DEF Disjunctions
    <2> QED BY <2>4 DEF Fulfilled
  <1> QED BY <1>2, <1>3, <1>4, <1>5, <1>6, <1>7 DEF Fulfilled

Finite == -(Inf \div 2) .. Inf \div 2

\* p with value w for a new variable
With(n, p, w) == [v \in Variables(n + 1) |-> IF v = n THEN w ELSE p[v]]

\* A point with a new value is inside a box with bounds around it.
LEMMA NewVariableKeeps ==
    ASSUME NEW n \in Nat, NEW p \in Moderate(n), NEW b \in BoxOver(n), Inside(p, b),
           NEW w \in Finite, NEW l \in Int, NEW u \in Int, l <= w, w <= u
    PROVE  /\ Continues(n, p, n + 1, With(n, p, w)) /\ With(n, p, w)[n] = w /\ n \in Variables(n + 1)
           /\ WithBounds(b, n, l, u) \in BoxOver(n + 1)
           /\ Inside(With(n, p, w), WithBounds(b, n, l, u))
  <1> DEFINE e == With(n, p, w)
             box == WithBounds(b, n, l, u)
  <1>1. n \in Variables(n + 1) /\ Variables(n + 1) = Variables(n) \cup {n} /\ n \notin Variables(n)
    BY DEF Variables
  <1>2. e[n] = w /\ \A v \in Variables(n) : e[v] = p[v]
    BY <1>1 DEF With
  <1>3. w \in Int
    <2>1. Inf \div 2 \in Int
      BY DEF Inf
    <2> QED BY <2>1 DEF Finite
  <1>4. e \in Moderate(n + 1)
    BY <1>1 DEF With, Moderate, Finite
  <1>5. Continues(n, p, n + 1, e)
    BY <1>2, <1>4 DEF Continues
  <1>6. DOMAIN b = Variables(n) \X {"LB", "UB"} /\ \A k \in DOMAIN b : b[k] \in Int /\ k[1] \in Variables(n)
    BY DEF BoxOver, Variables
  <1>7. DOMAIN box = Variables(n + 1) \X {"LB", "UB"}
    BY <1>1, <1>6 DEF WithBounds
  <1>8. \A k \in DOMAIN box : \/ k = <<n, "LB">> /\ box[k] = l
                              \/ k = <<n, "UB">> /\ box[k] = u
                              \/ k \in DOMAIN b /\ box[k] = b[k]
    BY <1>1, <1>6 DEF WithBounds
  <1>9. box = [k \in DOMAIN box |-> box[k]]
    BY DEF WithBounds
  <1> HIDE DEF e, box
  <1>10. box \in BoxOver(n + 1)
    <2>1. \A k \in DOMAIN box : box[k] \in Int
      BY <1>6, <1>8
    <2>2. box \in [Variables(n + 1) \X {"LB", "UB"} -> Int]
      BY <1>7, <1>9, <2>1
    <2> QED BY <2>2 DEF BoxOver, Variables
  <1>11. Inside(e, box)
    <2> SUFFICES ASSUME NEW k \in DOMAIN box PROVE Respects(e, [key |-> k, value |-> box[k]])
      BY DEF Inside
    <2>1. CASE k = <<n, "LB">> /\ box[k] = l
      BY <1>2, <1>3, <2>1 DEF Respects
    <2>2. CASE k = <<n, "UB">> /\ box[k] = u
      BY <1>2, <1>3, <2>2 DEF Respects
    <2>3. CASE k \in DOMAIN b /\ box[k] = b[k]
      <3>1. Respects(p, [key |-> k, value |-> b[k]]) /\ k[1] \in Variables(n)
        BY <1>6, <2>3 DEF Inside
      <3> QED BY <1>2, <2>3, <3>1 DEF Respects
    <2> QED BY <1>8, <2>1, <2>2, <2>3
  <1> QED BY <1>1, <1>2, <1>5, <1>10, <1>11 DEF e, box

-----------------------------------------------------------------------------
(* makeAllEquationsEqualities *)

\* An equation or inequality that a point satisfies, with a finite slack
Stated(n, p) == {eq \in Equations(n) : EqHolds(eq, p) /\ eq.scalar - SumAt(eq, p) \in Finite}

\* A query under preparation, with equations of E and constraints of C, whose box has e inside
Part(m, e, E, C) ==
    [n : {m}, eqs : Seq(E), cons : Seq(C), box : {b \in BoxOver(m) : Inside(e, b)}, inputs : Seq(Nat), outputs : Seq(Nat)]

\* A new variable with bounds around its value
LEMMA NewVariablePart ==
    ASSUME NEW m \in Nat, NEW e \in Moderate(m), NEW E, NEW C, NEW x \in Part(m, e, E, C),
           NEW w \in Finite, NEW l \in Int, NEW u \in Int, l <= w, w <= u
    PROVE  /\ Continues(m, e, m + 1, With(m, e, w)) /\ With(m, e, w)[m] = w /\ m \in Variables(m + 1)
           /\ NewVariable(x, l, u) \in Part(m + 1, With(m, e, w), E, C)
           /\ NewVariable(x, l, u).eqs = x.eqs /\ NewVariable(x, l, u).cons = x.cons /\ x.n = m
           /\ NewVariable(x, l, u).n = m + 1 /\ NewVariable(x, l, u).box = WithBounds(x.box, m, l, u)
  <1> DEFINE d == With(m, e, w)
             box == WithBounds(x.box, m, l, u)
             k == m + 1
  <1>1. x.n = m /\ x.box \in BoxOver(m) /\ Inside(e, x.box)
    BY DEF Part
  <1>2. Continues(m, e, k, d) /\ d[m] = w /\ m \in Variables(k) /\ box \in BoxOver(k) /\ Inside(d, box)
    BY <1>1, NewVariableKeeps
  <1>3. NewVariable(x, l, u) = [x EXCEPT !.n = k, !.box = box]
    BY <1>1 DEF NewVariable, Part
  <1> HIDE DEF d, box, k
  <1>4. [x EXCEPT !.n = k, !.box = box] \in Part(k, d, E, C)
    BY <1>2, Zenon DEF Part
  <1>5. /\ [x EXCEPT !.n = k, !.box = box].eqs = x.eqs /\ [x EXCEPT !.n = k, !.box = box].cons = x.cons
        /\ [x EXCEPT !.n = k, !.box = box].n = k /\ [x EXCEPT !.n = k, !.box = box].box = box
    BY DEF Part
  <1> QED BY <1>1, <1>2, <1>3, <1>4, <1>5 DEF d, box, k

\* One more addend
LEMMA SumAppend ==
    ASSUME NEW n \in Nat, NEW p \in Point(n), NEW v \in Variables(n),
           NEW eq \in Equations(n), NEW new, new.addends = Append(eq.addends, <<1, v>>)
    PROVE  SumAt(new, p) = SumAt(eq, p) + p[v]
  <1> DEFINE adds == eq.addends
             len == Len(adds)
             more == Append(adds, <<1, v>>)
             f == [i \in DOMAIN adds |-> adds[i][1] * p[adds[i][2]]]
             h == [i \in DOMAIN more |-> more[i][1] * p[more[i][2]]]
  <1>0. adds \in Seq(Int \X Variables(n))
    BY DEF Equations
  <1>1. len \in Nat /\ DOMAIN adds = 1 .. len /\ \A i \in 1 .. len : adds[i][1] \in Int /\ adds[i][2] \in Variables(n)
    BY <1>0
  <1>2. /\ Len(more) = len + 1 /\ DOMAIN more = 1 .. len + 1 /\ more[len + 1] = <<1, v>>
        /\ \A i \in 1 .. len : more[i] = adds[i]
    BY <1>0, <1>1
  <1>3. \A u \in Variables(n) : p[u] \in Int
    BY DEF Point, Variables
  <1>4. h[len + 1] = p[v] /\ p[v] \in Int
    <2>1. h[len + 1] = 1 * p[v]
      BY <1>1, <1>2
    <2> QED BY <1>3, <2>1
  <1>5. Numbers(f, len) /\ \A i \in 1 .. len : f[i] = h[i]
    BY <1>1, <1>2, <1>3, TimesType, SMTT(30) DEF Numbers
  <1>6. SumAt(eq, p) = Plus(f, len) /\ SumAt(new, p) = Plus(h, len + 1)
    BY <1>2, Zenon DEF SumAt
  <1> HIDE DEF f, h, more
  <1>7. Numbers(h, len + 1)
    <2>1. \A i \in 1 .. len + 1 : i = len + 1 \/ i \in 1 .. len
      BY <1>1
    <2>2. \A i \in 1 .. len + 1 : h[i] \in Int
      BY <1>4, <1>5, <2>1, Zenon DEF Numbers
    <2> QED BY <1>1, <2>2 DEF Numbers
  <1>8. Plus(h, len + 1) = Plus(h, (len + 1) - 1) + h[len + 1] /\ (len + 1) - 1 = len
    BY <1>1, <1>7, SumLast
  <1>9. Plus(f, len) = Plus(h, len)
    BY <1>5, SumSame
  <1> QED BY <1>4, <1>6, <1>8, <1>9

\* The slack of an inequality has the sign its auxiliary variable may have.
LEMMA SlackSigned ==
    ASSUME NEW n \in Nat, NEW p \in Point(n), NEW eq \in Stated(n, p)
    PROVE  /\ SumAt(eq, p) \in Int /\ eq.scalar \in Int /\ eq.type \in {"EQ", "GE", "LE"}
           /\ eq.type = "EQ" => SumAt(eq, p) = eq.scalar
           /\ eq.type = "GE" => eq.scalar - SumAt(eq, p) <= 0
           /\ eq.type = "LE" => eq.scalar - SumAt(eq, p) >= 0
  <1>1. eq \in Equations(n) /\ EqHolds(eq, p)
    BY DEF Stated
  <1>2. eq.scalar \in Int /\ eq.type \in {"EQ", "GE", "LE"}
    BY <1>1 DEF Equations
  <1>3. SumAt(eq, p) \in Int
    <2> DEFINE f == [i \in DOMAIN eq.addends |-> eq.addends[i][1] * p[eq.addends[i][2]]]
    <2>1. eq.addends \in Seq(Int \X Variables(n))
      BY <1>1 DEF Equations
    <2>2. \A v \in Variables(n) : p[v] \in Int
      BY DEF Point, Variables
    <2>3. Numbers(f, Len(eq.addends))
      BY <2>1, <2>2, TimesType DEF Numbers
    <2> HIDE DEF f
    <2>4. Plus(f, Len(eq.addends)) \in Int
      BY <2>3, SumTyped
    <2> QED BY <2>4 DEF f, SumAt
  <1>4. /\ eq.type = "EQ" => SumAt(eq, p) = eq.scalar
        /\ eq.type = "GE" => SumAt(eq, p) >= eq.scalar
        /\ eq.type = "LE" => SumAt(eq, p) <= eq.scalar
    BY <1>1, <1>2, Zenon DEF EqHolds
  <1> QED BY <1>2, <1>3, <1>4

\* The equality made of an inequality, its auxiliary variable the slack
LEMMA EqualityMade ==
    ASSUME NEW n \in Nat, NEW p \in Point(n), NEW m, NEW e, Continues(n, p, m, e), NEW eq \in Stated(n, p),
           NEW w, w = eq.scalar - SumAt(eq, p)
    PROVE  [eq EXCEPT !.type = "EQ", !.addends = Append(@, <<1, m>>)] \in Satisfied(m + 1, With(m, e, w))
  <1> DEFINE d == With(m, e, w)
             k == m + 1
             new == [eq EXCEPT !.type = "EQ", !.addends = Append(@, <<1, m>>)]
  <1>1. m \in Nat /\ e \in Moderate(m) /\ w \in Finite
    BY DEF Continues, Stated
  <1>2. eq \in Equations(n) /\ SumAt(eq, p) \in Int /\ eq.scalar \in Int
    BY SlackSigned DEF Stated
  <1>3. Continues(m, e, k, d) /\ d[m] = w /\ m \in Variables(k)
    <2>1. m \in Variables(k) /\ Variables(k) = Variables(m) \cup {m} /\ m \notin Variables(m) /\ k \in Nat /\ m <= k
      BY <1>1 DEF Variables
    <2>2. d[m] = w /\ \A v \in Variables(m) : d[v] = e[v]
      BY <2>1 DEF With
    <2>3. d \in Moderate(k)
      BY <1>1, <2>1 DEF With, Moderate, Finite
    <2> HIDE DEF d, k
    <2> QED BY <2>1, <2>2, <2>3 DEF Continues
  <1> HIDE DEF d, k
  <1>4. Continues(n, p, k, d)
    BY <1>3, ContinuesFurther
  <1>5. SumAt(eq, d) = SumAt(eq, p) /\ eq \in Equations(k) /\ d \in Point(k) /\ k \in Nat
    BY <1>2, <1>4, SumContinues, ContinuesType
  <1>6. eq.addends \in Seq(Int \X Variables(k)) /\ new.addends = Append(eq.addends, <<1, m>>) /\ new.type = "EQ" /\ new.scalar = eq.scalar
    BY <1>5 DEF Equations
  <1>7. SumAt(new, d) = SumAt(eq, d) + d[m]
    <2> HIDE DEF new
    <2> QED BY <1>3, <1>5, <1>6, SumAppend
  <1>8. SumAt(new, d) = eq.scalar
    BY <1>2, <1>3, <1>5, <1>7
  <1>9. Append(eq.addends, <<1, m>>) \in Seq(Int \X Variables(k))
    BY <1>3, <1>6
  <1>10. new \in [type : {"EQ"}, addends : Seq(Int \X Variables(k)), scalar : Int]
    BY <1>5, <1>9, Zenon DEF Equations
  <1>11. new \in Satisfied(k, d)
    <2> HIDE DEF new
    <2> QED BY <1>6, <1>8, <1>10 DEF Satisfied
  <1> QED BY <1>11 DEF new, d, k

\* Equations up to the i-th are equalities that e satisfies, the others as p satisfies them.
Equated(n, p, C, m, e, i) ==
    {x \in Part(m, e, Satisfied(m, e) \cup Stated(n, p), C) :
        /\ \A j \in DOMAIN x.eqs : j <= i => x.eqs[j] \in Satisfied(m, e)
        /\ \A j \in DOMAIN x.eqs : j > i => x.eqs[j] \in Stated(n, p)}

\* An equation becomes an equality, with a new variable if it was none.
LEMMA AsEqualityKeeps ==
    ASSUME NEW n \in Nat, NEW p \in Moderate(n), NEW C, NEW m, NEW e, Continues(n, p, m, e), NEW i \in Nat \ {0},
           NEW x \in Equated(n, p, C, m, e, i - 1), i \in DOMAIN x.eqs
    PROVE  /\ \E l, d : Continues(n, p, l, d) /\ AsEquality(x, i) \in Equated(n, p, C, l, d, i)
           /\ Len(AsEquality(x, i).eqs) = Len(x.eqs)
  <1> DEFINE eq == x.eqs[i]
             E == Satisfied(m, e) \cup Stated(n, p)
             w == eq.scalar - SumAt(eq, p)
             made == [eq EXCEPT !.type = "EQ", !.addends = Append(@, <<1, m>>)]
  <1>1. x \in Part(m, e, E, C) /\ x.n = m /\ x.eqs \in Seq(E) /\ eq \in Stated(n, p)
    BY DEF Equated, Part
  <1>2. p \in Point(n) /\ m \in Nat /\ e \in Moderate(m)
    <2>1. Continues(n, p, n, p)
      BY DEF Continues
    <2> QED BY <2>1, ContinuesType DEF Continues
  <1>3. /\ SumAt(eq, p) \in Int /\ eq.scalar \in Int /\ eq.type \in {"EQ", "GE", "LE"}
        /\ eq.type = "EQ" => SumAt(eq, p) = eq.scalar
        /\ eq.type = "GE" => w <= 0
        /\ eq.type = "LE" => w >= 0
    <2> HIDE DEF eq
    <2> QED BY <1>1, <1>2, SlackSigned
  <1>4. CASE eq.type = "EQ"
    <2>1. AsEquality(x, i) = x
      BY <1>4 DEF AsEquality
    <2>2. eq \in Satisfied(n, p)
      BY <1>1, <1>3, <1>4 DEF Stated, Equations, Satisfied
    <2>3. eq \in Satisfied(m, e)
      BY <1>2, <2>2, SatisfiedGrows
    <2>4. x \in Equated(n, p, C, m, e, i)
      <3>1. \A j \in DOMAIN x.eqs : j <= i => j = i \/ j <= i - 1
        BY <1>1
      <3>2. \A j \in DOMAIN x.eqs : j > i => j > i - 1
        BY <1>1
      <3> QED BY <1>1, <2>3, <3>1, <3>2 DEF Equated
    <2> QED BY <2>1, <2>4
  <1>5. CASE eq.type # "EQ"
    <2> DEFINE l == IF eq.type = "GE" THEN -Inf ELSE 0
               u == IF eq.type = "GE" THEN 0 ELSE Inf
               y == NewVariable(x, l, u)
               d == With(m, e, w)
               k == m + 1
               eqs == [y.eqs EXCEPT ![i] = made]
               F == Satisfied(k, d) \cup Stated(n, p)
    <2>1. l \in Int /\ u \in Int /\ l <= w /\ w <= u /\ w \in Finite
      <3>1. w \in Finite
        BY <1>1 DEF Stated
      <3>2. w \in Int /\ -Inf <= w /\ w <= Inf /\ Inf \in Int
        <4>1. -(Inf \div 2) \in Int /\ Inf \div 2 \in Int /\ -Inf <= -(Inf \div 2) /\ Inf \div 2 <= Inf /\ Inf \in Int
          BY DEF Inf
        <4> HIDE DEF w
        <4> QED BY <3>1, <4>1 DEF Finite
      <3> QED BY <1>3, <1>5, <3>1, <3>2
    <2>2. AsEquality(x, i) = [y EXCEPT !.eqs[i] = made]
      <3>1. AsEquality(x, i) = [(IF eq.type = "GE" THEN NewVariable(x, -Inf, 0) ELSE NewVariable(x, 0, Inf)) EXCEPT !.eqs[i] = made]
        BY <1>1, <1>5 DEF AsEquality
      <3> QED BY <3>1
    <2> HIDE DEF w, l, u
    <2>3. /\ Continues(m, e, k, d) /\ y \in Part(k, d, E, C) /\ y.eqs = x.eqs
      BY <1>1, <1>2, <2>1, NewVariablePart
    <2>4. made \in Satisfied(k, d)
      <3> HIDE DEF eq
      <3> QED BY <1>1, <1>2, EqualityMade, Zenon DEF w
    <2> HIDE DEF y, d, k, made, eq, E
    <2>5. [y EXCEPT !.eqs[i] = made] = [y EXCEPT !.eqs = eqs]
      BY <2>3 DEF Part
    <2>6. Satisfied(m, e) \subseteq Satisfied(k, d) /\ E \subseteq F
      <3>1. e \in Point(m)
        BY <1>2, ContinuesType
      <3> QED BY <1>2, <2>3, <3>1, SatisfiedGrows DEF E
    <2>7. eqs \in Seq(F) /\ Len(eqs) = Len(x.eqs) /\ DOMAIN eqs = DOMAIN x.eqs /\ eqs[i] = made /\ \A j \in DOMAIN x.eqs \ {i} : eqs[j] = x.eqs[j]
      <3>1. x.eqs \in Seq(F) /\ made \in F
        BY <1>1, <2>4, <2>6
      <3> HIDE DEF F
      <3> QED BY <2>3, <3>1
    <2> HIDE DEF eqs
    <2>8. [y EXCEPT !.eqs = eqs] \in Part(k, d, F, C) /\ [y EXCEPT !.eqs = eqs].eqs = eqs
      <3> HIDE DEF F
      <3> QED BY <2>3, <2>7, Zenon DEF Part
    <2>9. [y EXCEPT !.eqs = eqs] \in Equated(n, p, C, k, d, i)
      <3>1. \A j \in DOMAIN x.eqs : j <= i => j = i \/ j <= i - 1
        BY <1>1
      <3>2. \A j \in DOMAIN x.eqs : j > i => j > i - 1 /\ j # i
        BY <1>1
      <3>3. \A j \in DOMAIN x.eqs : j <= i - 1 => x.eqs[j] \in Satisfied(m, e)
        BY DEF Equated
      <3>4. \A j \in DOMAIN x.eqs : j > i - 1 => x.eqs[j] \in Stated(n, p)
        BY DEF Equated
      <3>5. \A j \in DOMAIN eqs : j <= i => eqs[j] \in Satisfied(k, d)
        BY <2>4, <2>6, <2>7, <3>1, <3>3
      <3>6. \A j \in DOMAIN eqs : j > i => eqs[j] \in Stated(n, p)
        BY <2>7, <3>2, <3>4
      <3> QED BY <2>8, <3>5, <3>6, Zenon DEF Equated
    <2>10. Continues(n, p, k, d)
      BY <2>3, ContinuesFurther
    <2>11. AsEquality(x, i) \in Equated(n, p, C, k, d, i) /\ Len(AsEquality(x, i).eqs) = Len(x.eqs)
      BY <2>2, <2>5, <2>7, <2>8, <2>9, Zenon
    <2> QED BY <2>10, <2>11
  <1> QED BY <1>4, <1>5

EqualityStep(a, x, i) == AsEquality(x, i)
EqualityGood(a, x, i) ==
    Len(x.eqs) = a[4] /\ \E m, e : Continues(a[1], a[2], m, e) /\ x \in Equated(a[1], a[2], a[3], m, e, i)
EqualityLoop == INSTANCE Loops WITH Step <- EqualityStep, Good <- EqualityGood

\* Once all equations are equalities, a continuation of the point satisfies them.
LEMMA EqualitiesKeep ==
    ASSUME NEW n \in Nat, NEW p \in Moderate(n), NEW C, NEW q \in Part(n, p, Stated(n, p), C)
    PROVE  \E m, e : Continues(n, p, m, e) /\ MakeAllEquationsEqualities(q) \in Part(m, e, Satisfied(m, e), C)
  <1> DEFINE len == Len(q.eqs)
             a == <<n, p, C, len>>
             after[i \in 0 .. len] == IF i = 0 THEN q ELSE AsEquality(after[i - 1], i)
  <1>1. q.eqs \in Seq(Stated(n, p)) /\ len \in Nat
    BY DEF Part
  <1>2. PICK h : EqualityLoop!Course(h, a, q, len)
    BY <1>1, EqualityLoop!CourseExists, Zenon
  <1>3. after = [i \in 0 .. len |-> IF i = 0 THEN q ELSE AsEquality(after[i - 1], i)]
    BY <1>2, Zenon DEF EqualityLoop!Course, EqualityStep
  <1>4. MakeAllEquationsEqualities(q) = after[len]
    BY DEF MakeAllEquationsEqualities
  <1> HIDE DEF after
  <1>5. EqualityLoop!Started(a, q, len)
    <2>1. Continues(n, p, n, p)
      BY DEF Continues
    <2>2. q.eqs \in Seq(Satisfied(n, p) \cup Stated(n, p))
      BY <1>1
    <2>3. q \in Part(n, p, Satisfied(n, p) \cup Stated(n, p), C)
      BY <2>2 DEF Part
    <2>4. (\A j \in DOMAIN q.eqs : ~(j <= 0)) /\ \A j \in DOMAIN q.eqs : q.eqs[j] \in Stated(n, p)
      BY <1>1
    <2>5. q \in Equated(n, p, C, n, p, 0)
      BY <2>3, <2>4 DEF Equated
    <2> QED BY <1>1, <2>1, <2>5 DEF EqualityLoop!Started, EqualityGood
  <1>6. EqualityLoop!Kept(a, len)
    <2> SUFFICES ASSUME NEW i \in 1 .. len, NEW x, Len(x.eqs) = len,
                        NEW m, NEW e, Continues(n, p, m, e), x \in Equated(n, p, C, m, e, i - 1)
                 PROVE  /\ Len(AsEquality(x, i).eqs) = len
                        /\ \E l, d : Continues(n, p, l, d) /\ AsEquality(x, i) \in Equated(n, p, C, l, d, i)
      BY DEF EqualityLoop!Kept, EqualityGood, EqualityStep
    <2>1. i \in DOMAIN x.eqs
      <3>1. x.eqs \in Seq(Satisfied(m, e) \cup Stated(n, p))
        BY DEF Equated, Part
      <3> QED BY <3>1
    <2>2. i \in Nat \ {0}
      BY <1>1
    <2> HIDE DEF len
    <2> QED BY <2>1, <2>2, AsEqualityKeeps
  <1>7. EqualityLoop!Course(after, a, q, len)
    BY <1>3, Zenon DEF EqualityLoop!Course, EqualityStep
  <1>8. \A i \in 0 .. len : EqualityGood(a, after[i], i)
    BY <1>5, <1>6, <1>7, EqualityLoop!CourseKeeps
  <1>9. EqualityGood(a, after[len], len)
    BY <1>1, <1>8
  <1> DEFINE x == after[len]
  <1>10. PICK m, e : Len(x.eqs) = len /\ Continues(n, p, m, e) /\ x \in Equated(n, p, C, m, e, len)
    BY <1>9 DEF EqualityGood
  <1>11. x \in Part(m, e, Satisfied(m, e), C)
    <2> HIDE DEF x, len
    <2>1. x \in Part(m, e, Satisfied(m, e) \cup Stated(n, p), C) /\ x.eqs \in Seq(Satisfied(m, e) \cup Stated(n, p))
      BY <1>10 DEF Equated, Part
    <2>2. \A j \in 1 .. len : x.eqs[j] \in Satisfied(m, e)
      BY <1>10, <2>1 DEF Equated
    <2>3. x.eqs \in Seq(Satisfied(m, e))
      BY <1>1, <1>10, <2>1, <2>2
    <2> QED BY <2>1, <2>3 DEF Part
  <1> QED BY <1>4, <1>10, <1>11

\* removeRedundantAddends keeps every equation satisfied.
LEMMA ConsolidationKeeps ==
    ASSUME NEW m \in Nat, NEW e \in Point(m), NEW C, NEW q \in Part(m, e, Satisfied(m, e), C)
    PROVE  RemoveRedundantAddends(q) \in Part(m, e, Satisfied(m, e), C)
  <1> DEFINE eqs == [i \in DOMAIN q.eqs |-> Consolidated(q.eqs[i])]
  <1>1. q.eqs \in Seq(Satisfied(m, e))
    BY DEF Part
  <1>2. \A eq \in Satisfied(m, e) : Consolidated(eq) \in Satisfied(m, e)
    <2> SUFFICES ASSUME NEW eq \in Satisfied(m, e) PROVE Consolidated(eq) \in Satisfied(m, e)
      OBVIOUS
    <2>1. eq \in Equalities(m) /\ SumAt(eq, e) = eq.scalar
      BY DEF Satisfied, Equalities
    <2>2. /\ Consolidated(eq) \in Equalities(m) /\ Consolidated(eq).scalar = eq.scalar
          /\ SumAt(Consolidated(eq), e) = SumAt(eq, e)
      BY <2>1, ConsolidatedSum
    <2> QED BY <2>1, <2>2 DEF Satisfied, Equalities
  <1>3. eqs \in Seq(Satisfied(m, e))
    BY <1>1, <1>2
  <1>4. RemoveRedundantAddends(q) = [q EXCEPT !.eqs = eqs]
    BY DEF RemoveRedundantAddends
  <1> HIDE DEF eqs
  <1> QED BY <1>3, <1>4, Zenon DEF Part

-----------------------------------------------------------------------------
(* transformToUseAuxVariables *)

\* Values a quarter of the infinite bound, whose differences are finite
Small(n) == [Variables(n) -> -(Inf \div 4) .. Inf \div 4]

\* Constraints that a point satisfies, without auxiliary variables; a max that is not its own element
NewRelus(n, p) ==
    {c \in [kind : {"relu"}, b : Variables(n), f : Variables(n), aux : {None}, state : {<<>>}, obsolete : BOOLEAN] :
        Relu!Holds(c, p)}
NewAbsoluteValues(n, p) ==
    {c \in [kind : {"abs"}, b : Variables(n), f : Variables(n), posAux : {None}, negAux : {None}, state : {<<>>}, obsolete : BOOLEAN] :
        Abs!Holds(c, p)}
NewMaxima(n, p) ==
    {c \in [kind : {"max"}, f : Variables(n), elements : SUBSET Variables(n), aux : {<<>>}, maxValueOfEliminated : Int,
            state : [active : BOOLEAN, elements : SUBSET Variables(n), maxLowerBound : Int, haveEliminated : BOOLEAN],
            obsolete : BOOLEAN] :
        c.f \notin c.elements /\ c.state.elements = c.elements /\ MaxOf!Holds(c, p) /\ MaxKnows(c, c.state, p)}
Untold(n, p) ==
    NewRelus(n, p) \cup NewAbsoluteValues(n, p) \cup NewMaxima(n, p)
      \cup Signs(n, p) \cup Roundings(n, p) \cup Disjunctions(n, p)

\* Small values are finite, and so are their sums and differences.
LEMMA SmallType ==
    ASSUME NEW n \in Nat, NEW p \in Small(n)
    PROVE  /\ p \in Moderate(n) /\ p \in Point(n)
           /\ \A v \in Variables(n) : p[v] \in Int
           /\ \A v, w \in Variables(n) : p[v] - p[w] \in Finite /\ p[v] + p[w] \in Finite
  <1>1. /\ Inf \div 4 \in Int /\ Inf \div 2 \in Int /\ -(Inf \div 4) \in Int /\ -(Inf \div 2) \in Int
        /\ (Inf \div 4) + (Inf \div 4) <= Inf \div 2 /\ Inf \div 4 <= Inf \div 2
    BY DEF Inf
  <1> DEFINE s == Inf \div 4
             t == Inf \div 2
  <1>2. s \in Int /\ t \in Int /\ s + s <= t /\ s <= t
    BY <1>1
  <1>3. Small(n) = [Variables(n) -> -s .. s] /\ Moderate(n) = [Variables(n) -> -t .. t] /\ Finite = -t .. t
    BY DEF Small, Moderate, Finite
  <1> HIDE DEF s, t
  <1>4. \A v \in Variables(n) : p[v] \in -s .. s
    BY <1>3
  <1>5. \A v \in Variables(n) : p[v] \in Int /\ p[v] \in -t .. t
    BY <1>2, <1>4
  <1>6. \A v, w \in Variables(n) : p[v] - p[w] \in Finite /\ p[v] + p[w] \in Finite
    BY <1>2, <1>3, <1>4
  <1>7. p \in Moderate(n)
    BY <1>3, <1>5
  <1>8. p \in Point(n)
    BY <1>3, <1>5 DEF Point, Variables
  <1> QED BY <1>5, <1>6, <1>7, <1>8

\* A larger set of equations, or of constraints
LEMMA PartGrows ==
    ASSUME NEW m, NEW e, NEW E, NEW C, NEW F, NEW D, E \subseteq F, C \subseteq D, NEW x \in Part(m, e, E, C)
    PROVE  x \in Part(m, e, F, D)
  <1>1. x.eqs \in Seq(F) /\ x.cons \in Seq(D)
    BY DEF Part
  <1> QED BY <1>1 DEF Part

\* One more equation
LEMMA AddEquationPart ==
    ASSUME NEW m, NEW e, NEW E, NEW C, NEW x \in Part(m, e, E, C), NEW addends, NEW scalar,
           [type |-> "EQ", addends |-> addends, scalar |-> scalar] \in E
    PROVE  /\ AddEquation(x, addends, scalar) \in Part(m, e, E, C)
           /\ AddEquation(x, addends, scalar).cons = x.cons
  <1> DEFINE eqs == Append(x.eqs, [type |-> "EQ", addends |-> addends, scalar |-> scalar])
  <1>1. eqs \in Seq(E)
    BY DEF Part
  <1>2. AddEquation(x, addends, scalar) = [x EXCEPT !.eqs = eqs]
    BY DEF AddEquation
  <1> HIDE DEF eqs
  <1> QED BY <1>1, <1>2, Zenon DEF Part

\* The equations that define auxiliary variables: u + s v - w = 0 with s = 1 or -1
LEMMA DefinitionHolds ==
    ASSUME NEW m \in Nat, NEW e \in Point(m), NEW u \in Variables(m), NEW v \in Variables(m), NEW w \in Variables(m),
           NEW s \in {1, -1}, e[w] = e[u] + s * e[v]
    PROVE  [type |-> "EQ", addends |-> <<<<1, u>>, <<s, v>>, <<-1, w>>>>, scalar |-> 0] \in Satisfied(m, e)
  <1> DEFINE adds == <<<<1, u>>, <<s, v>>, <<-1, w>>>>
             eq == [type |-> "EQ", addends |-> adds, scalar |-> 0]
             f == [i \in DOMAIN adds |-> adds[i][1] * e[adds[i][2]]]
  <1>1. adds \in Seq(Int \X Variables(m)) /\ DOMAIN adds = 1 .. 3 /\ Len(adds) = 3
    OBVIOUS
  <1>2. e[u] \in Int /\ e[v] \in Int /\ e[w] \in Int /\ s * e[v] \in Int
    <2>1. e[u] \in Int /\ e[v] \in Int /\ e[w] \in Int
      BY DEF Point, Variables
    <2> QED BY <2>1
  <1>3. f[1] = 1 * e[u] /\ f[2] = s * e[v] /\ f[3] = (-1) * e[w]
    BY <1>1
  <1>4. f[1] = e[u] /\ f[3] = -e[w]
    BY <1>2, <1>3
  <1>5. SumAt(eq, e) = Plus(f, 3)
    BY <1>1 DEF SumAt
  <1> HIDE DEF f
  <1>6. Numbers(f, 3)
    BY <1>2, <1>3, <1>4 DEF Numbers
  <1>7. PICK g : Partial(g, f, 3)
    BY <1>6, SumCourse
  <1>8. Plus(f, 3) = f[1] + f[2] + f[3]
    <2>1. g[0] = 0 /\ g[1] = g[1 - 1] + f[1] /\ g[2] = g[2 - 1] + f[2] /\ g[3] = g[3 - 1] + f[3] /\ Plus(f, 3) = g[3]
      BY <1>7 DEF Partial
    <2> QED BY <1>2, <1>3, <1>4, <2>1
  <1>9. SumAt(eq, e) = 0
    BY <1>2, <1>3, <1>4, <1>5, <1>8
  <1> QED BY <1>1, <1>9 DEF Satisfied

\* Constraints up to the i-th have their auxiliary variables, the others none.
Declared(n, p, m, e, i) ==
    {x \in Part(m, e, Satisfied(m, e), Fulfilled(m, e) \cup Untold(n, p)) :
        /\ \A j \in DOMAIN x.cons : j <= i => x.cons[j] \in Fulfilled(m, e)
        /\ \A j \in DOMAIN x.cons : j > i => x.cons[j] \in Untold(n, p)}

\* The i-th constraint gets its auxiliary variables, and the query the equations for them.
LEMMA DeclaredNext ==
    ASSUME NEW n \in Nat, NEW p, NEW m \in Nat, NEW e \in Moderate(m), NEW k, NEW d, Continues(m, e, k, d),
           NEW i \in Nat \ {0}, NEW x \in Declared(n, p, m, e, i - 1), i \in DOMAIN x.cons,
           NEW D, NEW y \in Part(k, d, Satisfied(k, d), D), NEW c \in Fulfilled(k, d), y.cons = [x.cons EXCEPT ![i] = c]
    PROVE  y \in Declared(n, p, k, d, i) /\ Len(y.cons) = Len(x.cons)
  <1> DEFINE F == Fulfilled(k, d) \cup Untold(n, p)
  <1>1. x.cons \in Seq(Fulfilled(m, e) \cup Untold(n, p))
    BY DEF Declared, Part
  <1>2. Fulfilled(m, e) \subseteq Fulfilled(k, d)
    <2>1. Continues(m, e, m, e)
      BY DEF Continues
    <2> QED BY <2>1, ContinuesType, FulfilledGrows
  <1>3. x.cons \in Seq(F) /\ c \in F
    BY <1>1, <1>2
  <1>4. /\ \A j \in DOMAIN x.cons : j <= i - 1 => x.cons[j] \in Fulfilled(k, d)
        /\ \A j \in DOMAIN x.cons : j > i - 1 => x.cons[j] \in Untold(n, p)
    BY <1>2 DEF Declared
  <1> HIDE DEF F
  <1>5. /\ y.cons \in Seq(F) /\ Len(y.cons) = Len(x.cons) /\ DOMAIN y.cons = DOMAIN x.cons /\ y.cons[i] = c
        /\ \A j \in DOMAIN x.cons \ {i} : y.cons[j] = x.cons[j]
        /\ \A j \in DOMAIN x.cons : j \in Nat
    BY <1>3
  <1>6. y \in Part(k, d, Satisfied(k, d), F)
    BY <1>5, Zenon DEF Part
  <1>7. \A j \in DOMAIN y.cons : j <= i => y.cons[j] \in Fulfilled(k, d)
    <2>1. \A j \in DOMAIN x.cons : j <= i => j = i \/ j <= i - 1
      BY <1>5
    <2> QED BY <1>4, <1>5, <2>1
  <1>8. \A j \in DOMAIN y.cons : j > i => y.cons[j] \in Untold(n, p)
    <2>1. \A j \in DOMAIN x.cons : j > i => j # i /\ j > i - 1
      BY <1>5
    <2> QED BY <1>4, <1>5, <2>1
  <1> QED BY <1>5, <1>6, <1>7, <1>8, Zenon DEF Declared, F

\* One constraint replaced
LEMMA ConstraintReplaced ==
    ASSUME NEW m, NEW e, NEW E, NEW C, NEW x \in Part(m, e, E, C), NEW i \in DOMAIN x.cons, NEW c,
           NEW D, C \subseteq D, c \in D, NEW cons, cons = [x.cons EXCEPT ![i] = c],
           NEW y, y = [x EXCEPT !.cons = cons]
    PROVE  y \in Part(m, e, E, D) /\ y.cons = cons
  <1>1. x.cons \in Seq(D)
    <2>1. x.cons \in Seq(C)
      BY DEF Part
    <2> QED BY <2>1
  <1>2. cons \in Seq(D)
    BY <1>1
  <1> QED BY <1>2, Zenon DEF Part

\* aux = f - b of a relu: its bounds are those of f - b in the box.
LEMMA WithReluAuxKeeps ==
    ASSUME NEW n \in Nat, NEW p \in Small(n), NEW m, NEW e, Continues(n, p, m, e), NEW i \in Nat \ {0},
           NEW x \in Declared(n, p, m, e, i - 1), i \in DOMAIN x.cons, x.cons[i] \in NewRelus(n, p)
    PROVE  /\ Len(WithReluAux(x, i).cons) = Len(x.cons)
           /\ \E k, d : Continues(n, p, k, d) /\ WithReluAux(x, i) \in Declared(n, p, k, d, i)
  <1> DEFINE c == x.cons[i]
             w == p[c.f] - p[c.b]
             lb == Lb(x.box, c.b)
             u == IF lb > 0 THEN 0 ELSE -lb
             y == NewVariable(x, 0, u)
             addends == <<<<1, c.f>>, <<-1, c.b>>, <<-1, m>>>>
             z == AddEquation(y, addends, 0)
             k == m + 1
             d == With(m, e, w)
             told == [c EXCEPT !.aux = m]
             C == Fulfilled(m, e) \cup Untold(n, p)
             r == [z EXCEPT !.cons = [@ EXCEPT ![i] = told]]
  <1>1. /\ c \in NewRelus(n, p) /\ c.b \in Variables(n) /\ c.f \in Variables(n) /\ Relu!Holds(c, p)
        /\ x \in Part(m, e, Satisfied(m, e), C) /\ x.n = m /\ x.box \in BoxOver(m) /\ Inside(e, x.box)
    BY DEF NewRelus, Declared, Part
  <1>2. /\ m \in Nat /\ e \in Moderate(m) /\ e \in Point(m) /\ Variables(n) \subseteq Variables(m)
        /\ \A v \in Variables(n) : e[v] = p[v] /\ p[v] \in Int
    BY ContinuesType, SmallType DEF Continues
  <1>3. lb \in Int /\ lb <= p[c.b] /\ w \in Finite
    <2>1. lb \in Int /\ lb <= e[c.b]
      BY <1>1, <1>2, BoxedBounds, Zenon DEF Boxed, Lb, Variables
    <2> QED BY <1>1, <1>2, <2>1, SmallType
  <1>4. 0 \in Int /\ u \in Int /\ 0 <= w /\ w <= u
    <2>1. /\ p[c.f] >= 0 /\ (p[c.f] > 0 => p[c.b] = p[c.f]) /\ (p[c.f] = 0 => p[c.b] <= 0)
          /\ p[c.f] \in Int /\ p[c.b] \in Int
      BY <1>1, <1>2 DEF Relu!Holds
    <2> QED BY <1>3, <2>1
  <1> HIDE DEF u
  <1>5. /\ Continues(m, e, k, d) /\ d[m] = w /\ m \in Variables(k)
        /\ y \in Part(k, d, Satisfied(m, e), C) /\ y.cons = x.cons
    <2> HIDE DEF w, C
    <2> QED BY <1>1, <1>2, <1>3, <1>4, NewVariablePart
  <1>6. WithReluAux(x, i) = r
    <2>1. WithReluAux(x, i) = [z EXCEPT !.cons[i].aux = m]
      BY <1>1 DEF WithReluAux, u
    <2>2. z \in Part(k, d, Satisfied(m, e) \cup {[type |-> "EQ", addends |-> addends, scalar |-> 0]}, C) /\ z.cons = x.cons
      <3> DEFINE E == Satisfied(m, e) \cup {[type |-> "EQ", addends |-> addends, scalar |-> 0]}
      <3>1. y \in Part(k, d, E, C)
        BY <1>5, PartGrows
      <3>2. [type |-> "EQ", addends |-> addends, scalar |-> 0] \in E
        OBVIOUS
      <3> HIDE DEF E, y, addends, C, d, k
      <3>3. z \in Part(k, d, E, C) /\ z.cons = y.cons
        BY <3>1, <3>2, AddEquationPart, SMTT(30)
      <3> QED BY <1>5, <3>3 DEF E, C, k, d, addends
    <2> HIDE DEF z
    <2> QED BY <2>1, <2>2 DEF Part
  <1>7. /\ k \in Nat /\ Variables(m) \subseteq Variables(k) /\ d \in Point(k) /\ Continues(n, p, k, d)
        /\ \A v \in Variables(n) : d[v] = p[v] /\ v \in Variables(k)
    BY <1>2, <1>5, ContinuesType, ContinuesFurther, SMTT(30) DEF Continues
  <1> HIDE DEF d, k
  <1>8. [type |-> "EQ", addends |-> addends, scalar |-> 0] \in Satisfied(k, d)
    <2>1. d[m] = d[c.f] + (-1) * d[c.b] /\ -1 \in {1, -1}
      BY <1>1, <1>2, <1>5, <1>7
    <2> HIDE DEF c
    <2> QED BY <1>1, <1>5, <1>7, <2>1, DefinitionHolds, Zenon
  <1>9. z \in Part(k, d, Satisfied(k, d), C) /\ z.cons = x.cons
    <2>1. Satisfied(m, e) \subseteq Satisfied(k, d)
      BY <1>2, <1>5, SatisfiedGrows
    <2>2. y \in Part(k, d, Satisfied(k, d), C)
      BY <1>5, <2>1, PartGrows
    <2> HIDE DEF y, addends, C
    <2> QED BY <1>5, <1>8, <2>2, AddEquationPart
  <1>10. told \in Fulfilled(k, d)
    <2>1. told \in Relus(k, d)
      BY <1>1, <1>2, <1>5, <1>7, Zenon DEF NewRelus, Relus, Relu!Holds, Relu!Linear
    <2> QED BY <2>1 DEF Fulfilled
  <1>11. r \in Part(k, d, Satisfied(k, d), C \cup {told}) /\ r.cons = [x.cons EXCEPT ![i] = told]
    <2> DEFINE D == C \cup {told}
               cons == [x.cons EXCEPT ![i] = told]
    <2>1. /\ i \in DOMAIN z.cons /\ C \subseteq D /\ told \in D /\ cons = [z.cons EXCEPT ![i] = told]
          /\ r = [z EXCEPT !.cons = cons]
      <3> HIDE DEF z, told, C
      <3> QED BY <1>9
    <2> HIDE DEF z, told, C, D, cons, r
    <2>2. r \in Part(k, d, Satisfied(k, d), D) /\ r.cons = cons
      BY <1>9, <2>1, ConstraintReplaced
    <2> QED BY <2>2 DEF D, cons
  <1> HIDE DEF r, told, C
  <1>12. r \in Declared(n, p, k, d, i) /\ Len(r.cons) = Len(x.cons)
    BY <1>2, <1>5, <1>10, <1>11, DeclaredNext
  <1> QED BY <1>6, <1>7, <1>12

\* Taking a large bound for infinite leaves it above a finite value.
LEMMA NormAbove ==
    ASSUME NEW w \in Finite, NEW x \in Int, w <= x
    PROVE  Norm(x) \in Int /\ w <= Norm(x) /\ w \in Int
  <1>1. PICK h \in Nat : h = Inf \div 2 /\ h <= Inf /\ Inf \in Int
    BY DEF Inf
  <1>2. w \in Int /\ -h <= w /\ w <= h
    BY <1>1 DEF Finite
  <1> QED BY <1>1, <1>2 DEF Norm

\* posAux = f - b and negAux = f + b of an absolute value
LEMMA WithAbsAuxKeeps ==
    ASSUME NEW n \in Nat, NEW p \in Small(n), NEW m, NEW e, Continues(n, p, m, e), NEW i \in Nat \ {0},
           NEW x \in Declared(n, p, m, e, i - 1), i \in DOMAIN x.cons, x.cons[i] \in NewAbsoluteValues(n, p)
    PROVE  /\ Len(WithAbsAux(x, i).cons) = Len(x.cons)
           /\ \E k, d : Continues(n, p, k, d) /\ WithAbsAux(x, i) \in Declared(n, p, k, d, i)
  <1> DEFINE c == x.cons[i]
             w1 == p[c.f] - p[c.b]
             w2 == p[c.f] + p[c.b]
             u1 == Norm(Ub(x.box, c.f) - Lb(x.box, c.b))
             u2 == Norm(Ub(x.box, c.f) + Ub(x.box, c.b))
             y1 == NewVariable(x, 0, u1)
             y == NewVariable(y1, 0, u2)
             j == m + 1
             k == j + 1
             d1 == With(m, e, w1)
             d == With(j, d1, w2)
             a1 == <<<<1, c.f>>, <<-1, c.b>>, <<-1, m>>>>
             a2 == <<<<1, c.f>>, <<1, c.b>>, <<-1, j>>>>
             eq1 == [type |-> "EQ", addends |-> a1, scalar |-> 0]
             eq2 == [type |-> "EQ", addends |-> a2, scalar |-> 0]
             z == AddEquation(AddEquation(y, a1, 0), a2, 0)
             told == [c EXCEPT !.posAux = m, !.negAux = j]
             C == Fulfilled(m, e) \cup Untold(n, p)
             D == C \cup {told}
             cons == [x.cons EXCEPT ![i] = told]
             r == [z EXCEPT !.cons = cons]
             S == Satisfied(m, e)
             S2 == S \cup {eq1, eq2}
  <1>1. /\ c \in NewAbsoluteValues(n, p) /\ c.b \in Variables(n) /\ c.f \in Variables(n) /\ Abs!Holds(c, p)
        /\ x \in Part(m, e, S, C) /\ x.n = m /\ x.box \in BoxOver(m) /\ Inside(e, x.box)
    BY DEF NewAbsoluteValues, Declared, Part
  <1>2. /\ m \in Nat /\ e \in Moderate(m) /\ e \in Point(m) /\ Variables(n) \subseteq Variables(m)
        /\ \A v \in Variables(n) : e[v] = p[v] /\ p[v] \in Int
    BY ContinuesType, SmallType DEF Continues
  <1>3. w1 \in Finite /\ w2 \in Finite /\ 0 <= w1 /\ 0 <= w2 /\ w1 \in Int /\ w2 \in Int
    <2>1. p[c.f] >= 0 /\ (p[c.f] = p[c.b] \/ p[c.f] = -p[c.b]) /\ p[c.f] \in Int /\ p[c.b] \in Int
      BY <1>1, <1>2 DEF Abs!Holds
    <2> QED BY <1>1, <2>1, SmallType
  <1>4. u1 \in Int /\ u2 \in Int /\ w1 <= u1 /\ w2 <= u2
    <2>1. \A v \in Variables(n) : Lb(x.box, v) \in Int /\ Ub(x.box, v) \in Int /\ Lb(x.box, v) <= p[v] /\ p[v] <= Ub(x.box, v)
      <3> SUFFICES ASSUME NEW v \in Variables(n)
                   PROVE Lb(x.box, v) \in Int /\ Ub(x.box, v) \in Int /\ Lb(x.box, v) <= p[v] /\ p[v] <= Ub(x.box, v)
        OBVIOUS
      <3>1. Boxed(m, x.box, e) /\ v \in 0 .. m - 1 /\ e[v] = p[v]
        BY <1>1, <1>2 DEF Boxed, Variables
      <3> QED BY <3>1, BoxedBounds DEF Lb, Ub
    <2>2. /\ w1 <= Ub(x.box, c.f) - Lb(x.box, c.b) /\ Ub(x.box, c.f) - Lb(x.box, c.b) \in Int
          /\ w2 <= Ub(x.box, c.f) + Ub(x.box, c.b) /\ Ub(x.box, c.f) + Ub(x.box, c.b) \in Int
      <3> HIDE DEF c
      <3> QED BY <1>1, <1>2, <2>1
    <2> HIDE DEF w1, w2
    <2> QED BY <1>3, <2>2, NormAbove
  <1> HIDE DEF u1, u2
  <1>5. /\ Continues(m, e, j, d1) /\ d1[m] = w1 /\ m \in Variables(j)
        /\ y1 \in Part(j, d1, S, C) /\ y1.cons = x.cons /\ y1.n = j
    <2> HIDE DEF w1, C, S
    <2> QED BY <1>1, <1>2, <1>3, <1>4, NewVariablePart
  <1>6. /\ j \in Nat /\ d1 \in Moderate(j)
        /\ Continues(j, d1, k, d) /\ d[j] = w2 /\ j \in Variables(k)
        /\ y \in Part(k, d, S, C) /\ y.cons = x.cons
    <2>1. j \in Nat /\ d1 \in Moderate(j)
      BY <1>2, <1>5 DEF Continues
    <2> HIDE DEF y1, w2, C, j, d1, S
    <2> QED BY <1>3, <1>4, <1>5, <2>1, NewVariablePart
  <1> HIDE DEF y, S
  <1>7. z \in Part(k, d, S2, C) /\ z.cons = x.cons
    <2>1. y \in Part(k, d, S2, C) /\ eq1 \in S2 /\ eq2 \in S2
      BY <1>6, PartGrows, SMTT(30)
    <2> HIDE DEF S2, a1, a2, C, d, k
    <2>2. AddEquation(y, a1, 0) \in Part(k, d, S2, C) /\ AddEquation(y, a1, 0).cons = y.cons
      BY <2>1, AddEquationPart
    <2> DEFINE y2 == AddEquation(y, a1, 0)
    <2> HIDE DEF y2
    <2>3. AddEquation(y2, a2, 0) \in Part(k, d, S2, C) /\ AddEquation(y2, a2, 0).cons = y2.cons
      BY <2>1, <2>2, AddEquationPart DEF y2
    <2> QED BY <1>6, <2>2, <2>3, SMTT(30) DEF y2
  <1>8. WithAbsAux(x, i) = r
    <2>1. WithAbsAux(x, i) = [z EXCEPT !.cons[i].posAux = m, !.cons[i].negAux = m + 1]
      BY <1>1 DEF WithAbsAux, u1, u2, y
    <2> HIDE DEF z
    <2>2. z.cons[i] = c /\ i \in DOMAIN z.cons /\ z.cons = x.cons
      BY <1>7
    <2>3. [z EXCEPT !.cons[i].posAux = m, !.cons[i].negAux = m + 1] = [z EXCEPT !.cons = [x.cons EXCEPT ![i] = told]]
      BY <1>7, <2>2, Zenon DEF Part
    <2> QED BY <2>1, <2>3
  <1>9. /\ k \in Nat /\ d \in Point(k) /\ Continues(m, e, k, d) /\ Continues(n, p, k, d)
        /\ \A v \in Variables(m) : v \in Variables(k) /\ d[v] = e[v]
        /\ \A v \in Variables(n) : v \in Variables(k) /\ d[v] = p[v]
        /\ m \in Variables(k) /\ d[m] = w1
    <2> HIDE DEF w1, d, d1, k, j
    <2>1. Continues(m, e, k, d) /\ Continues(n, p, k, d)
      BY <1>2, <1>5, <1>6, ContinuesFurther
    <2>2. k \in Nat /\ d \in Point(k) /\ Variables(j) \subseteq Variables(k) /\ Variables(m) \subseteq Variables(k)
      BY <1>2, <1>6, <2>1, ContinuesType
    <2> QED BY <1>2, <1>5, <1>6, <2>1, <2>2, Zenon DEF Continues
  <1> HIDE DEF d, k
  <1>10. eq1 \in Satisfied(k, d) /\ eq2 \in Satisfied(k, d)
    <2>1. d[m] = p[c.f] - p[c.b] /\ d[j] = p[c.f] + p[c.b] /\ d[c.f] = p[c.f] /\ d[c.b] = p[c.b] /\ p[c.f] \in Int /\ p[c.b] \in Int
      <3> HIDE DEF c, j
      <3> QED BY <1>1, <1>2, <1>6, <1>9, Zenon
    <2>2. d[m] = d[c.f] + (-1) * d[c.b] /\ d[j] = d[c.f] + 1 * d[c.b] /\ -1 \in {1, -1} /\ 1 \in {1, -1}
      <3> HIDE DEF c, j
      <3> QED BY <2>1
    <2> HIDE DEF c, j
    <2>3. eq1 \in Satisfied(k, d)
      BY <1>1, <1>9, <2>2, DefinitionHolds, Zenon
    <2>4. eq2 \in Satisfied(k, d)
      BY <1>1, <1>6, <1>9, <2>2, DefinitionHolds, Zenon
    <2> QED BY <2>3, <2>4
  <1>11. z \in Part(k, d, Satisfied(k, d), C)
    <2>1. S \subseteq Satisfied(k, d)
      BY <1>2, <1>9, SatisfiedGrows DEF S
    <2>2. S2 \subseteq Satisfied(k, d)
      BY <1>10, <2>1
    <2> HIDE DEF S2, C, z
    <2> QED BY <1>7, <2>2, PartGrows
  <1>12. told \in Fulfilled(k, d)
    <2>1. told \in AbsoluteValues(k, d)
      BY <1>1, <1>2, <1>6, <1>9, ZenonT(30) DEF NewAbsoluteValues, AbsoluteValues, Abs!Holds, Abs!Linear
    <2> QED BY <2>1 DEF Fulfilled
  <1>13. r \in Part(k, d, Satisfied(k, d), D) /\ r.cons = cons
    <2>1. /\ i \in DOMAIN z.cons /\ C \subseteq D /\ told \in D /\ cons = [z.cons EXCEPT ![i] = told]
          /\ r = [z EXCEPT !.cons = cons]
      <3> HIDE DEF z, told, C
      <3> QED BY <1>7
    <2> HIDE DEF z, told, C, D, cons, r
    <2> QED BY <1>11, <2>1, ConstraintReplaced
  <1>14. r \in Declared(n, p, k, d, i) /\ Len(r.cons) = Len(x.cons)
    <2>1. r.cons = [x.cons EXCEPT ![i] = told]
      BY <1>13 DEF cons
    <2> HIDE DEF r, told, D, cons
    <2> QED BY <1>2, <1>9, <1>12, <1>13, <2>1, DeclaredNext
  <1> QED BY <1>8, <1>9, <1>14

\* The ascending order of a set reaches each of its members.
LEMMA AscendingReaches ==
    ASSUME NEW n \in Nat, NEW S, S \subseteq Variables(n)
    PROVE  /\ Ascending(S) \in Seq(S)
           /\ \A x \in S : \E j \in DOMAIN Ascending(S) : Ascending(S)[j] = x
  <1>1. S \subseteq Nat /\ IsFiniteSet(S) /\ Cardinality(S) \in Nat
    <2>1. IsFiniteSet(Variables(n)) /\ Variables(n) \subseteq Nat
      BY FS_Interval DEF Variables
    <2> QED BY <2>1, FS_Subset, FS_CardinalityType
  <1>2. SUFFICES ASSUME NEW x \in S PROVE \E j \in DOMAIN Ascending(S) : Ascending(S)[j] = x
    BY AscendingMember
  <1> DEFINE B == {y \in S : y < x}
             j == Cardinality(B) + 1
             C == CHOOSE z \in S : Cardinality({y \in S : y < z}) = j - 1
  <1>3. x \notin B /\ B \in SUBSET S /\ x \in Int
    <2>1. x \in Int /\ ~(x < x)
      BY <1>1
    <2> QED BY <2>1
  <1>4. IsFiniteSet(B) /\ Cardinality(B) \in Nat /\ Cardinality(B) < Cardinality(S)
    <2> HIDE DEF B
    <2>1. IsFiniteSet(B) /\ B # S
      BY <1>1, <1>3, FS_Subset, Zenon
    <2>2. Cardinality(B) <= Cardinality(S) /\ (Cardinality(B) = Cardinality(S) => B = S)
      BY <1>1, <1>3, FS_Subset, Zenon
    <2>3. Cardinality(B) \in Nat
      BY <2>1, FS_CardinalityType
    <2> QED BY <1>1, <2>1, <2>2, <2>3
  <1>5. j \in 1 .. Cardinality(S) /\ j - 1 = Cardinality(B)
    <2> HIDE DEF B
    <2> QED BY <1>1, <1>4
  <1>6. C \in S /\ Cardinality({y \in S : y < C}) = Cardinality(B)
    <2>1. \E z \in S : Cardinality({y \in S : y < z}) = j - 1
      BY <1>5, Zenon
    <2>2. C \in S /\ Cardinality({y \in S : y < C}) = j - 1
      BY <2>1, Zenon
    <2> HIDE DEF C
    <2> QED BY <1>5, <2>2
  <1>7. Ascending(S)[j] = C /\ j \in DOMAIN Ascending(S)
    BY <1>5, Zenon DEF Ascending
  <1> HIDE DEF C, j
  <1>8. C = x
    BY <1>1, <1>6, RankUnique, Zenon DEF B
  <1> QED BY <1>7, <1>8

\* Auxiliary variables of a max for the elements in A
Filled(c, m, e, A) ==
    {a \in UNION {[E -> Variables(m)] : E \in SUBSET Nat} : DOMAIN a = A /\ \A v \in A : e[a[v]] = e[c.f] - e[v]}

\* The constraints of x, the i-th with these auxiliary variables
FilledWith(x, i, a) == [x.cons EXCEPT ![i] = [@ EXCEPT !.aux = a]]

\* The query y is x with auxiliary variables for the elements in A of its i-th constraint.
Reaching(x, i, m, e, A, y) ==
    \E l, d, D, a : /\ Continues(m, e, l, d) /\ y \in Part(l, d, Satisfied(l, d), D)
                    /\ a \in Filled(x.cons[i], l, d, A)
                    /\ y.cons = FilledWith(x, i, a)

\* One element of a max gets its auxiliary variable.
LEMMA WithElementAuxKeeps ==
    ASSUME NEW n \in Nat, NEW p \in Small(n), NEW m, NEW e, Continues(n, p, m, e), NEW x, NEW i \in DOMAIN x.cons,
           NEW C, x.cons \in Seq(C),
           x.cons[i] \in NewMaxima(n, p), NEW A, NEW y, Reaching(x, i, m, e, A, y),
           NEW v \in x.cons[i].elements, NEW B, B = A \cup {v}, A \subseteq x.cons[i].elements
    PROVE  Reaching(x, i, m, e, B, WithElementAux(y, i, v))
  <1> DEFINE c == x.cons[i]
  <1>1. PICK l, d, D, a : /\ Continues(m, e, l, d) /\ y \in Part(l, d, Satisfied(l, d), D)
                          /\ a \in Filled(c, l, d, A)
                          /\ y.cons = [x.cons EXCEPT ![i] = [@ EXCEPT !.aux = a]]
    BY Zenon DEF Reaching, FilledWith
  <1> DEFINE w == p[c.f] - p[v]
             k == l + 1
             f == With(l, d, w)
             y1 == NewVariable(y, 0, Inf)
             adds == <<<<1, c.f>>, <<-1, v>>, <<-1, l>>>>
             eq == [type |-> "EQ", addends |-> adds, scalar |-> 0]
             z == AddEquation(y1, adds, 0)
             b == [u \in A \cup {v} |-> IF u = v THEN l ELSE a[u]]
             told == [c EXCEPT !.aux = b]
             cons == [x.cons EXCEPT ![i] = told]
             r == [z EXCEPT !.cons = cons]
             F == D \cup {told}
  <1>2. /\ c.f \in Variables(n) /\ c.elements \subseteq Variables(n) /\ v \in Variables(n) /\ p[c.f] >= p[v]
        /\ \A u \in A : u \in Variables(n)
    BY DEF NewMaxima, MaxOf!Holds
  <1>3. /\ m \in Nat /\ e \in Moderate(m) /\ l \in Nat /\ d \in Moderate(l) /\ d \in Point(l) /\ Continues(n, p, l, d)
        /\ \A u \in Variables(n) : u \in Variables(l) /\ d[u] = p[u] /\ p[u] \in Int
    <2>1. Continues(n, p, l, d)
      BY <1>1, ContinuesFurther
    <2> QED BY <1>1, <2>1, ContinuesType, SmallType DEF Continues
  <1>4. w \in Finite /\ w \in Int /\ 0 <= w /\ w <= Inf /\ Inf \in Int
    <2>1. w \in Finite /\ w \in Int /\ 0 <= w
      BY <1>2, <1>3, SmallType, SMTT(30)
    <2>2. Inf \div 2 \in Int /\ Inf \div 2 <= Inf /\ Inf \in Int
      BY DEF Inf
    <2> HIDE DEF w
    <2> QED BY <2>1, <2>2 DEF Finite
  <1>5. /\ Continues(l, d, k, f) /\ f[l] = w /\ l \in Variables(k)
        /\ y1 \in Part(k, f, Satisfied(l, d), D) /\ y1.cons = y.cons /\ y.n = l
    <2> HIDE DEF w
    <2> QED BY <1>1, <1>3, <1>4, NewVariablePart
  <1> HIDE DEF y1
  <1>6. /\ k \in Nat /\ f \in Point(k) /\ Continues(n, p, k, f) /\ Continues(m, e, k, f)
        /\ \A u \in Variables(l) : u \in Variables(k) /\ f[u] = d[u]
    <2> HIDE DEF f, k
    <2>1. Continues(n, p, k, f) /\ Continues(m, e, k, f)
      BY <1>1, <1>3, <1>5, ContinuesFurther
    <2> QED BY <1>3, <1>5, <2>1, ContinuesType, ZenonT(30) DEF Continues
  <1> HIDE DEF f, k
  <1>7. eq \in Satisfied(k, f)
    <2> HIDE DEF c
    <2>1. \A u \in {c.f, v} : u \in Variables(k) /\ f[u] = p[u] /\ p[u] \in Int
      BY <1>2, <1>3, <1>6, Zenon
    <2>2. f[l] = f[c.f] + (-1) * f[v] /\ -1 \in {1, -1} /\ c.f \in Variables(k) /\ v \in Variables(k)
      <3>1. f[l] = p[c.f] - p[v]
        BY <1>5, Zenon
      <3> HIDE DEF adds, eq, z, y1, told, cons, r, b, F
      <3> QED BY <2>1, <3>1
    <2> QED BY <1>5, <1>6, <2>2, DefinitionHolds, Zenon
  <1>8. z \in Part(k, f, Satisfied(k, f), D) /\ z.cons = y.cons
    <2>1. Satisfied(l, d) \subseteq Satisfied(k, f)
      BY <1>3, <1>5, SatisfiedGrows
    <2>2. y1 \in Part(k, f, Satisfied(k, f), D)
      BY <1>5, <2>1, PartGrows
    <2> HIDE DEF adds
    <2> QED BY <1>5, <1>7, <2>2, AddEquationPart
  <1>9. DOMAIN a = A /\ (\A u \in A : a[u] \in Variables(l)) /\ \A u \in A : d[a[u]] = d[c.f] - d[u]
    <2>1. a \in Filled(c, l, d, A)
      BY <1>1
    <2> HIDE DEF c
    <2>2. DOMAIN a = A /\ (\A u \in A : d[a[u]] = d[c.f] - d[u]) /\ \E E \in SUBSET Nat : a \in [E -> Variables(l)]
      BY <2>1 DEF Filled
    <2>3. \A u \in A : a[u] \in Variables(l)
      BY <2>2
    <2> QED BY <2>2, <2>3
  <1>10. b \in Filled(c, k, f, B)
    <2>1. \A u \in B : b[u] \in Variables(k) /\ f[b[u]] = f[c.f] - f[u]
      <3> SUFFICES ASSUME NEW u \in B PROVE b[u] \in Variables(k) /\ f[b[u]] = f[c.f] - f[u]
        BY Zenon
      <3>1. CASE u = v
        BY <1>2, <1>3, <1>5, <1>6, <3>1, Zenon
      <3>2. CASE u # v
        BY <1>2, <1>3, <1>6, <1>9, <3>2
      <3> QED BY <3>1, <3>2
    <2>2. B \in SUBSET Nat
      BY <1>2 DEF Variables
    <2>3. b \in [B -> Variables(k)]
      BY <2>1, Zenon
    <2> HIDE DEF b
    <2> QED BY <2>1, <2>2, <2>3, Zenon DEF Filled
  <1>11. i \in DOMAIN y.cons /\ y.cons[i] = [c EXCEPT !.aux = a] /\ y.cons[i].f = c.f /\ y.cons[i].aux = a
    BY <1>1 DEF NewMaxima
  <1>12. WithElementAux(y, i, v) = r
    <2>1. WithElementAux(y, i, v)
            = [z EXCEPT !.cons[i].aux = [u \in DOMAIN @ \cup {v} |-> IF u = v THEN l ELSE @[u]]]
      BY <1>5, <1>11 DEF WithElementAux, y1
    <2>2. z.cons[i].aux = a /\ z.cons[i] = [c EXCEPT !.aux = a] /\ i \in DOMAIN z.cons
      BY <1>8, <1>11, Zenon
    <2>3. [u \in DOMAIN z.cons[i].aux \cup {v} |-> IF u = v THEN l ELSE z.cons[i].aux[u]] = b
      BY <1>9, <2>2, Zenon
    <2> HIDE DEF z, b
    <2>4. WithElementAux(y, i, v) = [z EXCEPT !.cons[i].aux = b]
      BY <2>1, <2>3
    <2>5. [z EXCEPT !.cons[i].aux = b] = [z EXCEPT !.cons = [z.cons EXCEPT ![i] = [z.cons[i] EXCEPT !.aux = b]]]
      BY <1>8 DEF Part
    <2>6. [z.cons EXCEPT ![i] = [z.cons[i] EXCEPT !.aux = b]] = cons
      BY <1>1, <1>8, <2>2, ZenonT(30) DEF NewMaxima
    <2> QED BY <2>4, <2>5, <2>6, Zenon
  <1>13. r \in Part(k, f, Satisfied(k, f), F) /\ r.cons = cons
    <2>1. /\ i \in DOMAIN z.cons /\ D \subseteq F /\ told \in F /\ cons = [z.cons EXCEPT ![i] = told]
          /\ r = [z EXCEPT !.cons = cons]
      <3> HIDE DEF z, told
      <3> QED BY <1>1, <1>8, <1>11
    <2> HIDE DEF z, told, F, cons, r
    <2> QED BY <1>8, <2>1, ConstraintReplaced
  <1>14. cons = FilledWith(x, i, b)
    BY DEF FilledWith
  <1> HIDE DEF r, cons, b
  <1> QED BY <1>6, <1>10, <1>12, <1>13, <1>14 DEF Reaching

\* The first members of a sequence
Firsts(s, k) == {s[j] : j \in 1 .. k}

ElementStep(a, y, k) == WithElementAux(y, a[2], a[5][k])
ElementGood(a, y, k) == Reaching(a[1], a[2], a[3], a[4], Firsts(a[5], k), y)
ElementLoop == INSTANCE Loops WITH Step <- ElementStep, Good <- ElementGood

\* f - e of a max for each of its elements e
LEMMA WithMaxAuxKeeps ==
    ASSUME NEW n \in Nat, NEW p \in Small(n), NEW m, NEW e, Continues(n, p, m, e), NEW i \in Nat \ {0},
           NEW x \in Declared(n, p, m, e, i - 1), i \in DOMAIN x.cons, x.cons[i] \in NewMaxima(n, p)
    PROVE  /\ Len(WithMaxAux(x, i).cons) = Len(x.cons)
           /\ \E k, d : Continues(n, p, k, d) /\ WithMaxAux(x, i) \in Declared(n, p, k, d, i)
  <1> DEFINE c == x.cons[i]
             others == Ascending(c.elements)
             len == Len(others)
             a == <<x, i, m, e, others>>
             after[k \in 0 .. len] == IF k = 0 THEN x ELSE WithElementAux(after[k - 1], i, others[k])
             C == Fulfilled(m, e) \cup Untold(n, p)
  <1>1. /\ c \in NewMaxima(n, p) /\ c.f \notin c.elements /\ c.elements \subseteq Variables(n) /\ c.aux = <<>>
        /\ x \in Part(m, e, Satisfied(m, e), C) /\ x.cons \in Seq(C)
    BY DEF NewMaxima, Declared, Part
  <1>2. m \in Nat /\ e \in Moderate(m) /\ e \in Point(m)
    BY ContinuesType DEF Continues
  <1>3. /\ others \in Seq(c.elements) /\ len \in Nat /\ DOMAIN others = 1 .. len
        /\ \A v \in c.elements : \E j \in 1 .. len : others[j] = v
    <2> HIDE DEF c
    <2>1. others \in Seq(c.elements) /\ \A v \in c.elements : \E j \in DOMAIN others : others[j] = v
      BY <1>1, AscendingReaches
    <2> HIDE DEF others
    <2> QED BY <2>1
  <1> HIDE DEF others, C
  <1>4. PICK h : ElementLoop!Course(h, a, x, len)
    BY <1>3, ElementLoop!CourseExists, Zenon
  <1>5. after = [k \in 0 .. len |-> IF k = 0 THEN x ELSE WithElementAux(after[k - 1], i, others[k])]
    BY <1>4, ZenonT(40) DEF ElementLoop!Course, ElementStep
  <1>6. WithMaxAux(x, i) = after[len]
    <2>1. c.elements \ {c.f} = c.elements
      BY <1>1
    <2>2. WithMaxAux(x, i) = LET after1[k \in 0 .. Len(others)] == IF k = 0 THEN x ELSE WithElementAux(after1[k - 1], i, others[k])
                             IN  after1[Len(others)]
      BY <1>1, <2>1, Zenon DEF WithMaxAux, others
    <2> QED BY <2>2
  <1> HIDE DEF after
  <1>7. ElementLoop!Started(a, x, len)
    <2>1. Continues(m, e, m, e)
      BY <1>2 DEF Continues
    <2>2. Firsts(others, 0) = {}
      BY DEF Firsts
    <2>3. <<>> \in Filled(c, m, e, {})
      <3>1. {} \in SUBSET Nat /\ <<>> \in [{} -> Variables(m)] /\ DOMAIN <<>> = {}
        OBVIOUS
      <3> HIDE DEF c
      <3> QED BY <3>1, Zenon DEF Filled
    <2>4. x.cons = FilledWith(x, i, <<>>)
      <3>1. [c EXCEPT !.aux = <<>>] = c
        BY <1>1, Zenon DEF NewMaxima
      <3>2. [x.cons EXCEPT ![i] = c] = x.cons
        BY <1>1
      <3> QED BY <3>1, <3>2 DEF FilledWith
    <2>5. Reaching(x, i, m, e, Firsts(others, 0), x)
      <3> HIDE DEF c
      <3> QED BY <1>1, <2>1, <2>2, <2>3, <2>4, Zenon DEF Reaching, c
    <2> QED BY <1>3, <2>5 DEF ElementLoop!Started, ElementGood
  <1>8. ElementLoop!Kept(a, len)
    <2> SUFFICES ASSUME NEW k \in 1 .. len, NEW y, Reaching(x, i, m, e, Firsts(others, k - 1), y)
                 PROVE  Reaching(x, i, m, e, Firsts(others, k), WithElementAux(y, i, others[k]))
      BY DEF ElementLoop!Kept, ElementGood, ElementStep
    <2> DEFINE A == Firsts(others, k - 1)
               B == Firsts(others, k)
               v == others[k]
    <2>1. v \in c.elements /\ A \subseteq c.elements
      BY <1>3 DEF Firsts
    <2>2. B = A \cup {v}
      <3>1. \A j : j \in 1 .. k <=> j \in 1 .. k - 1 \/ j = k
        OBVIOUS
      <3> QED BY <3>1 DEF Firsts
    <2> HIDE DEF A, B, v
    <2>3. Reaching(x, i, m, e, B, WithElementAux(y, i, v))
      BY <1>1, <2>1, <2>2, WithElementAuxKeeps, Zenon DEF A
    <2> QED BY <2>3 DEF B, v
  <1>9. ElementLoop!Course(after, a, x, len)
    BY <1>5, Zenon DEF ElementLoop!Course, ElementStep
  <1>10. \A k \in 0 .. len : ElementGood(a, after[k], k)
    BY <1>7, <1>8, <1>9, ElementLoop!CourseKeeps
  <1> DEFINE y == after[len]
             S == c.elements
  <1>11. Reaching(x, i, m, e, S, y)
    <2>1. ElementGood(a, after[len], len)
      <3>1. len \in 0 .. len
        BY <1>3
      <3> HIDE DEF a, len
      <3> QED BY <1>10, <3>1
    <2>2. Firsts(others, len) = S
      <3> HIDE DEF c
      <3> QED BY <1>3 DEF Firsts
    <2> HIDE DEF S
    <2> QED BY <2>1, <2>2 DEF ElementGood
  <1> HIDE DEF y
  <1>12. PICK k, d, D, b : /\ Continues(m, e, k, d) /\ y \in Part(k, d, Satisfied(k, d), D)
                           /\ b \in Filled(x.cons[i], k, d, S)
                           /\ y.cons = FilledWith(x, i, b)
    BY <1>11 DEF Reaching
  <1> DEFINE told == [c EXCEPT !.aux = b]
  <1>13. /\ k \in Nat /\ Continues(n, p, k, d)
         /\ \A v \in Variables(n) : v \in Variables(k) /\ d[v] = p[v]
    <2>1. Continues(n, p, k, d)
      BY <1>12, ContinuesFurther
    <2> QED BY <2>1, ContinuesType, Zenon DEF Continues
  <1>14. b \in [S -> Variables(k)] /\ \A v \in S : d[b[v]] = d[c.f] - d[v]
    <2> HIDE DEF S
    <2> QED BY <1>12, Zenon DEF Filled
  <1>15. told \in Fulfilled(k, d)
    <2>1. /\ c.f \in Variables(n) /\ S \subseteq Variables(n) /\ c.state.elements = S
          /\ MaxOf!Holds(c, p) /\ MaxKnows(c, c.state, p)
          /\ c.state \in [active : BOOLEAN, elements : SUBSET Variables(n), maxLowerBound : Int, haveEliminated : BOOLEAN]
          /\ c \in [kind : {"max"}, f : Variables(n), elements : SUBSET Variables(n), aux : {<<>>}, maxValueOfEliminated : Int,
                    state : [active : BOOLEAN, elements : SUBSET Variables(n), maxLowerBound : Int, haveEliminated : BOOLEAN],
                    obsolete : BOOLEAN]
      BY <1>1 DEF NewMaxima
    <2>2. /\ told.f = c.f /\ told.elements = S /\ told.state = c.state /\ told.aux = b
          /\ told.maxValueOfEliminated = c.maxValueOfEliminated
      BY <2>1
    <2>3. MaxOf!Holds(told, d)
      <3> HIDE DEF told, c
      <3> QED BY <1>13, <2>1, <2>2 DEF MaxOf!Holds, S
    <2>4. MaxOf!Linear(told, d)
      <3> HIDE DEF told, c
      <3> QED BY <1>14, <2>2 DEF MaxOf!Linear
    <2>5. MaxKnows(told, told.state, d)
      <3> HIDE DEF told
      <3> QED BY <1>13, <2>1, <2>2 DEF MaxKnows, MaxOf!States
    <2>6. b \in UNION {[E -> Variables(k)] : E \in SUBSET Variables(k)} /\ DOMAIN b = S
      <3>1. S \in SUBSET Variables(k)
        BY <1>13, <2>1
      <3> HIDE DEF S
      <3> QED BY <1>14, <3>1
    <2>7. c.state \in [active : BOOLEAN, elements : SUBSET Variables(k), maxLowerBound : Int, haveEliminated : BOOLEAN]
      BY <1>13, <2>1
    <2>8. told \in Maxima(k, d)
      BY <1>13, <2>1, <2>2, <2>3, <2>4, <2>5, <2>6, <2>7, Zenon DEF Maxima
    <2> QED BY <2>8 DEF Fulfilled
  <1>16. y.cons = [x.cons EXCEPT ![i] = told]
    BY <1>12 DEF FilledWith
  <1> HIDE DEF told
  <1>17. y \in Declared(n, p, k, d, i) /\ Len(y.cons) = Len(x.cons)
    BY <1>2, <1>12, <1>15, <1>16, DeclaredNext
  <1> QED BY <1>6, <1>13, <1>17 DEF y

\* A constraint without auxiliary variables to come stays as it is.
LEMMA UntouchedKeeps ==
    ASSUME NEW n \in Nat, NEW p \in Small(n), NEW m, NEW e, Continues(n, p, m, e), NEW i \in Nat \ {0},
           NEW x \in Declared(n, p, m, e, i - 1), i \in DOMAIN x.cons, x.cons[i] \in Fulfilled(n, p)
    PROVE  x \in Declared(n, p, m, e, i)
  <1>1. x.cons[i] \in Fulfilled(m, e)
    BY SmallType, FulfilledGrows
  <1>2. \A j \in DOMAIN x.cons : j \in Int
    BY DEF Declared, Part
  <1>3. \A j \in DOMAIN x.cons : (j <= i => j = i \/ j <= i - 1) /\ (j > i => j > i - 1)
    BY <1>2
  <1> QED BY <1>1, <1>3 DEF Declared

\* One constraint told to use auxiliary variables
LEMMA WithAuxKeeps ==
    ASSUME NEW n \in Nat, NEW p \in Small(n), NEW m, NEW e, Continues(n, p, m, e), NEW i \in Nat \ {0},
           NEW x \in Declared(n, p, m, e, i - 1), i \in DOMAIN x.cons
    PROVE  /\ Len(WithAux(x, i).cons) = Len(x.cons)
           /\ \E k, d : Continues(n, p, k, d) /\ WithAux(x, i) \in Declared(n, p, k, d, i)
  <1> DEFINE c == x.cons[i]
  <1>1. c \in Untold(n, p)
    <2>1. i > i - 1
      OBVIOUS
    <2> QED BY <2>1 DEF Declared
  <1>2. CASE c \in NewRelus(n, p)
    <2>1. WithAux(x, i) = WithReluAux(x, i)
      <3>1. c.kind = "relu"
        BY <1>2 DEF NewRelus
      <3> QED BY <3>1, Zenon DEF WithAux
    <2> QED BY <1>2, <2>1, WithReluAuxKeeps
  <1>3. CASE c \in NewAbsoluteValues(n, p)
    <2>1. WithAux(x, i) = WithAbsAux(x, i)
      <3>1. c.kind = "abs"
        BY <1>3 DEF NewAbsoluteValues
      <3> QED BY <3>1 DEF WithAux
    <2> QED BY <1>3, <2>1, WithAbsAuxKeeps
  <1>4. CASE c \in NewMaxima(n, p)
    <2>1. WithAux(x, i) = WithMaxAux(x, i)
      <3>1. c.kind = "max"
        BY <1>4 DEF NewMaxima
      <3> QED BY <3>1 DEF WithAux
    <2> QED BY <1>4, <2>1, WithMaxAuxKeeps
  <1>5. CASE c \in Signs(n, p) \cup Roundings(n, p) \cup Disjunctions(n, p)
    <2>1. c \in Fulfilled(n, p) /\ c.kind \in {"sign", "round", "disj"}
      BY <1>5 DEF Fulfilled, Signs, Roundings, Disjunctions
    <2>2. WithAux(x, i) = x
      BY <2>1 DEF WithAux
    <2>3. x \in Declared(n, p, m, e, i)
      BY <2>1, UntouchedKeeps
    <2> QED BY <2>2, <2>3
  <1> QED BY <1>1, <1>2, <1>3, <1>4, <1>5 DEF Untold

AuxStep(a, x, i) == WithAux(x, i)
AuxGood(a, x, i) ==
    Len(x.cons) = a[3] /\ \E m, e : Continues(a[1], a[2], m, e) /\ x \in Declared(a[1], a[2], m, e, i)
AuxLoop == INSTANCE Loops WITH Step <- AuxStep, Good <- AuxGood

\* With all auxiliary variables, the query is one that a continuation of the point solves.
LEMMA TransformationKeeps ==
    ASSUME NEW n \in Nat, NEW p \in Small(n), NEW m, NEW e, Continues(n, p, m, e),
           NEW q \in Part(m, e, Satisfied(m, e), Untold(n, p))
    PROVE  \E k, d : Continues(n, p, k, d) /\ TransformConstraintsIfNeeded(q) \in Queries(k, d)
  <1> DEFINE len == Len(q.cons)
             a == <<n, p, len>>
             after[i \in 0 .. len] == IF i = 0 THEN q ELSE WithAux(after[i - 1], i)
             C == Fulfilled(m, e) \cup Untold(n, p)
  <1>1. q.cons \in Seq(Untold(n, p)) /\ len \in Nat
    BY DEF Part
  <1>2. PICK h : AuxLoop!Course(h, a, q, len)
    BY <1>1, AuxLoop!CourseExists, Zenon
  <1>3. after = [i \in 0 .. len |-> IF i = 0 THEN q ELSE WithAux(after[i - 1], i)]
    BY <1>2, Zenon DEF AuxLoop!Course, AuxStep
  <1>4. TransformConstraintsIfNeeded(q) = after[len]
    BY DEF TransformConstraintsIfNeeded
  <1> HIDE DEF after
  <1>5. AuxLoop!Started(a, q, len)
    <2>1. q \in Part(m, e, Satisfied(m, e), C)
      <3>1. Satisfied(m, e) \subseteq Satisfied(m, e) /\ Untold(n, p) \subseteq C
        OBVIOUS
      <3> HIDE DEF C
      <3> QED BY <3>1, PartGrows
    <2>2. (\A j \in DOMAIN q.cons : ~(j <= 0)) /\ \A j \in DOMAIN q.cons : q.cons[j] \in Untold(n, p)
      BY <1>1
    <2>3. q \in Declared(n, p, m, e, 0)
      BY <2>1, <2>2 DEF Declared
    <2> QED BY <1>1, <2>3 DEF AuxLoop!Started, AuxGood
  <1>6. AuxLoop!Kept(a, len)
    <2> SUFFICES ASSUME NEW i \in 1 .. len, NEW x, Len(x.cons) = len,
                        NEW l, NEW d, Continues(n, p, l, d), x \in Declared(n, p, l, d, i - 1)
                 PROVE  /\ Len(WithAux(x, i).cons) = len
                        /\ \E k, f : Continues(n, p, k, f) /\ WithAux(x, i) \in Declared(n, p, k, f, i)
      BY DEF AuxLoop!Kept, AuxGood, AuxStep
    <2>1. i \in DOMAIN x.cons
      <3>1. x.cons \in Seq(Fulfilled(l, d) \cup Untold(n, p))
        BY DEF Declared, Part
      <3> QED BY <3>1
    <2>2. i \in Nat \ {0}
      BY <1>1
    <2> HIDE DEF len
    <2> QED BY <2>1, <2>2, WithAuxKeeps
  <1>7. AuxLoop!Course(after, a, q, len)
    BY <1>3, Zenon DEF AuxLoop!Course, AuxStep
  <1>8. \A i \in 0 .. len : AuxGood(a, after[i], i)
    BY <1>5, <1>6, <1>7, AuxLoop!CourseKeeps
  <1>9. AuxGood(a, after[len], len)
    <2>1. len \in 0 .. len
      BY <1>1
    <2> HIDE DEF a, len
    <2> QED BY <1>8, <2>1
  <1> DEFINE x == after[len]
  <1>10. PICK k, d : Len(x.cons) = len /\ Continues(n, p, k, d) /\ x \in Declared(n, p, k, d, len)
    BY <1>9 DEF AuxGood
  <1>11. x \in Queries(k, d)
    <2> HIDE DEF x, len
    <2>1. x \in Part(k, d, Satisfied(k, d), Fulfilled(k, d) \cup Untold(n, p)) /\ x.cons \in Seq(Fulfilled(k, d) \cup Untold(n, p))
      BY <1>10 DEF Declared, Part
    <2>2. \A j \in 1 .. len : x.cons[j] \in Fulfilled(k, d)
      BY <1>10, <2>1 DEF Declared
    <2>3. x.cons \in Seq(Fulfilled(k, d))
      BY <1>1, <1>10, <2>1, <2>2
    <2> QED BY <2>1, <2>3 DEF Part, Queries
  <1> QED BY <1>4, <1>10, <1>11

\* Preprocessor::preprocess without variable elimination, on the query as it is given: a
\* solution of it, with values for the variables the preparation adds, solves the query
\* prepared and the query tightened, and no query with a solution is called infeasible.
\* The values are small next to the infinite bound, and no max has its own result as an element.
THEOREM PreprocessingKeepsSolutions ==
    ASSUME NEW n \in Nat, NEW p \in Small(n), NEW q \in Part(n, p, Stated(n, p), Untold(n, p)), NEW rounds \in Nat
    PROVE  \E m, e : /\ Continues(n, p, m, e)
                     /\ Preprocess(q, FALSE, rounds).infeasible = FALSE
                     /\ Preprocess(q, FALSE, rounds).whole \in Queries(m, e)
                     /\ Preprocess(q, FALSE, rounds).tightened \in Queries(m, e)
  <1> DEFINE q1 == MakeAllEquationsEqualities(q)
             q2 == RemoveRedundantAddends(q1)
             q3 == TransformConstraintsIfNeeded(q2)
             r == Saturated([query |-> q3, tighter |-> TRUE, throws |-> FALSE, merged |-> <<>>, gone |-> {}], FALSE, rounds)
             C == Untold(n, p)
             pp == PreprocessWhole(q3, FALSE, rounds)
  <1>1. PICK m, e : Continues(n, p, m, e) /\ q1 \in Part(m, e, Satisfied(m, e), C)
    BY SmallType, EqualitiesKeep
  <1> HIDE DEF q1
  <1>2. q2 \in Part(m, e, Satisfied(m, e), C)
    BY <1>1, ContinuesType, ConsolidationKeeps
  <1> HIDE DEF q2
  <1>3. PICK k, d : Continues(n, p, k, d) /\ q3 \in Queries(k, d)
    BY <1>1, <1>2, TransformationKeeps
  <1> HIDE DEF q3
  <1>4. pp.infeasible = FALSE /\ pp.tightened \in Queries(k, d)
    BY <1>3, TighteningKeepsSolutions, Zenon DEF Continues
  <1>5. pp.whole = q3
    <2>1. pp = IF r.throws THEN [infeasible |-> TRUE, whole |-> q3] ELSE Eliminated(q3, r, FALSE, CollectFixedValues(r))
      BY DEF PreprocessWhole, EliminatedFrom
    <2> HIDE DEF r, pp
    <2>2. \A c : Eliminated(q3, r, FALSE, c).whole = q3
      BY Zenon DEF Eliminated
    <2> QED BY <2>1, <2>2, Zenon
  <1>6. Preprocess(q, FALSE, rounds) = pp
    BY DEF Preprocess, q1, q2, q3
  <1> QED BY <1>3, <1>4, <1>5, <1>6, Zenon

-----------------------------------------------------------------------------
(* The way back: what solves the query tightened solves the query given.    *)
(* Nothing is known of the queries but their shape.                         *)

\* A value for every variable there is or will be
Assignments == [Nat -> Int]

\* The shapes of constraints with their auxiliary variables, of queries, and of the state of
\* the rounds
ReluShapes(n) ==
    [kind : {"relu"}, b : Variables(n), f : Variables(n), aux : Variables(n), state : {<<>>}, obsolete : BOOLEAN]
AbsShapes(n) ==
    [kind : {"abs"}, b : Variables(n), f : Variables(n), posAux : Variables(n), negAux : Variables(n),
     state : {<<>>}, obsolete : BOOLEAN]
SignShapes(n) == [kind : {"sign"}, b : Variables(n), f : Variables(n), state : {<<>>}, obsolete : BOOLEAN]
RoundingShapes(n) ==
    [kind : {"round"}, b : Variables(n), f : Variables(n), whole : Nat \ {0}, state : {<<>>}, obsolete : BOOLEAN]
AuxiliaryMaps(n) == UNION {[E -> Variables(n)] : E \in SUBSET Variables(n)}
MaxStates(n) == [active : BOOLEAN, elements : SUBSET Variables(n), maxLowerBound : Int, haveEliminated : BOOLEAN]
MaxShapes(n) ==
    {c \in [kind : {"max"}, f : Variables(n), elements : SUBSET Variables(n), aux : AuxiliaryMaps(n),
            maxValueOfEliminated : Int, state : MaxStates(n), obsolete : BOOLEAN] : c.state.elements \subseteq c.elements}
DisjStates(n) == [active : BOOLEAN, feasible : SUBSET SUBSET Tightenings(n)]
DisjShapes(n) ==
    [kind : {"disj"}, disjuncts : SUBSET SUBSET Tightenings(n), state : DisjStates(n), obsolete : BOOLEAN]
Shapes(n) ==
    ReluShapes(n) \cup AbsShapes(n) \cup SignShapes(n) \cup RoundingShapes(n) \cup MaxShapes(n) \cup DisjShapes(n)
QueryShapes(n) ==
    [n : {n}, eqs : Seq(Equalities(n)), cons : Seq(Shapes(n)), box : BoxOver(n), inputs : Seq(Nat), outputs : Seq(Nat)]
TurnShapes(n) ==
    [query : QueryShapes(n), tighter : BOOLEAN, throws : BOOLEAN, merged : UNION {[S -> Nat] : S \in SUBSET Nat},
     gone : SUBSET Nat]

\* Tightening by numbers never loosens a bound.
LEMMA TightenedInside ==
    ASSUME NEW n \in Nat, NEW b \in BoxOver(n), NEW T, Numeric(T), NEW e \in Assignments
    PROVE  Tightened(b, T) \in BoxOver(n) /\ (Inside(e, Tightened(b, T)) => Inside(e, b))
  <1> DEFINE box == Tightened(b, T)
  <1>1. DOMAIN b = Variables(n) \X {"LB", "UB"} /\ DOMAIN box = DOMAIN b /\ box = [k \in DOMAIN b |-> box[k]]
    BY DEF BoxOver, Variables, Tightened
  <1>2. ASSUME NEW k \in DOMAIN b
        PROVE  b[k] \in Int /\ box[k] \in Int /\ (box[k] = b[k] \/ Tighter(k, box[k], b[k]))
    <2>1. b[k] \in Int
      BY <1>1, Zenon DEF BoxOver
    <2>2. box[k] = IF Effective(b, T, k) = {} THEN b[k] ELSE (CHOOSE t \in Effective(b, T, k) : TRUE).value
      BY DEF Tightened
    <2>3. CASE Effective(b, T, k) = {}
      BY <2>1, <2>2, <2>3
    <2>4. CASE Effective(b, T, k) # {}
      <3> DEFINE t == CHOOSE u \in Effective(b, T, k) : TRUE
      <3>1. t \in Effective(b, T, k)
        BY <2>4
      <3> HIDE DEF t
      <3>2. t.value \in Int /\ Tighter(k, t.value, b[k])
        BY <3>1 DEF Effective, Numeric
      <3> QED BY <2>1, <2>2, <2>4, <3>2 DEF t
    <2> QED BY <2>3, <2>4
  <1> HIDE DEF box
  <1>3. box \in BoxOver(n)
    <2>1. \A k \in DOMAIN b : box[k] \in Int
      BY <1>2
    <2> QED BY <1>1, <2>1, Zenon DEF BoxOver, Variables
  <1>4. ASSUME Inside(e, box), NEW k \in DOMAIN b
        PROVE  Respects(e, [key |-> k, value |-> b[k]])
    <2>1. e[k[1]] \in Int
      BY <1>1 DEF Variables, Assignments
    <2>2. IF k[2] = "LB" THEN e[k[1]] >= box[k] ELSE e[k[1]] <= box[k]
      BY <1>1, <1>4, Zenon DEF Inside, Respects
    <2>3. IF k[2] = "LB" THEN e[k[1]] >= b[k] ELSE e[k[1]] <= b[k]
      <3> DEFINE x == e[k[1]]
                 y == box[k]
                 z == b[k]
      <3>1. x \in Int /\ y \in Int /\ z \in Int /\ (y = z \/ IF k[2] = "LB" THEN y > z ELSE y < z)
        BY <1>2, <2>1 DEF Tighter
      <3>2. IF k[2] = "LB" THEN x >= y ELSE x <= y
        BY <2>2
      <3> HIDE DEF x, y, z
      <3>3. IF k[2] = "LB" THEN x >= z ELSE x <= z
        BY <3>1, <3>2
      <3> QED BY <3>3 DEF x, z
    <2> QED BY <2>3 DEF Respects
  <1> QED BY <1>3, <1>4 DEF Inside, box

\* A quotient, rounded either way, is a number.
LEMMA QuotientTyped ==
    ASSUME NEW d \in Int \ {0}, NEW n \in Int
    PROVE  Floor(n, d) \in Int /\ Ceiling(n, d) \in Int
  <1>1. ASSUME NEW x \in Int PROVE Floor(x, d) \in Int
    <2>1. ASSUME NEW y \in Int, NEW k \in Int, k > 0 PROVE y \div k \in Int
      BY <2>1, SMT
    <2>2. CASE d > 0
      BY <2>1, <2>2 DEF Floor
    <2>3. CASE ~(d > 0)
      <3>1. -d \in Int /\ -d > 0 /\ -x \in Int
        BY <2>3
      <3>2. (-x) \div (-d) \in Int
        BY <2>1, <3>1
      <3> QED BY <2>3, <3>2 DEF Floor
    <2> QED BY <2>2, <2>3
  <1>2. -n \in Int /\ Floor(-n, d) \in Int /\ Floor(n, d) \in Int
    BY <1>1
  <1> QED BY <1>2 DEF Ceiling

\* The bounds an equation implies are numbers.
LEMMA ImpliedNumeric ==
    ASSUME NEW n \in Nat, NEW b \in BoxOver(n), NEW eq \in Equalities(n), NEW i \in DOMAIN eq.addends
    PROVE  Numeric(Implied(eq, b, i))
  <1> DEFINE m == Len(eq.addends)
             d == eq.addends[i][1]
             v == eq.addends[i][2]
  <1>1. m \in Nat /\ DOMAIN eq.addends = 1 .. m /\ eq.scalar \in Int
        /\ \A j \in 1 .. m : eq.addends[j] \in Int \X Variables(n)
    BY DEF Equalities
  <1>2. d \in Int
    <2>1. eq.addends[i] \in Int \X Variables(n)
      BY <1>1
    <2> QED BY <2>1
  <1>3. ASSUME NEW side \in {"LB", "UB"} PROVE Rest(eq, b, i, side) \in Int
    <2> DEFINE f == [j \in DOMAIN eq.addends |-> IF j = i THEN 0 ELSE eq.addends[j][1] * b[End(eq.addends[j], side)]]
    <2>1. ASSUME NEW j \in 1 .. m PROVE f[j] \in Int
      <3> DEFINE a == eq.addends[j]
                 k == End(a, side)
      <3>1. a \in Int \X Variables(n)
        BY <1>1
      <3> HIDE DEF a
      <3>2. a[1] \in Int /\ k \in Variables(n) \X {"LB", "UB"}
        BY <3>1 DEF End, Opposite
      <3> HIDE DEF k
      <3>3. b[k] \in Int
        BY <3>2 DEF BoxOver, Variables
      <3>4. a[1] * b[k] \in Int
        BY <3>2, <3>3, TimesType
      <3>5. f[j] = IF j = i THEN 0 ELSE a[1] * b[k]
        BY <1>1 DEF a, k
      <3> HIDE DEF f
      <3> QED BY <3>4, <3>5
    <2>2. Rest(eq, b, i, side) = eq.scalar - Plus(f, m)
      BY DEF Rest
    <2> HIDE DEF f, m
    <2>3. Plus(f, m) \in Int
      BY <1>1, <2>1, SumTyped DEF Numbers
    <2> QED BY <1>1, <2>2, <2>3
  <1>4. ASSUME NEW t \in Implied(eq, b, i)
        PROVE  t.value \in Int
    <2>1. /\ d # 0
          /\ \E side \in {"LB", "UB"} :
               \/ t = Least(v, Floor(Rest(eq, b, i, side), d))
               \/ t = Most(v, Ceiling(Rest(eq, b, i, side), d))
      BY DEF Implied, Opposite
    <2>2. PICK side \in {"LB", "UB"} : \/ t = Least(v, Floor(Rest(eq, b, i, side), d))
                                       \/ t = Most(v, Ceiling(Rest(eq, b, i, side), d))
      BY <2>1
    <2> HIDE DEF d, v
    <2>3. Floor(Rest(eq, b, i, side), d) \in Int /\ Ceiling(Rest(eq, b, i, side), d) \in Int
      BY <1>2, <1>3, <2>1, QuotientTyped
    <2> QED BY <2>2, <2>3 DEF Least, Most
  <1> QED BY <1>4 DEF Numeric

\* An assignment satisfies the equations and is within the bounds.
Satisfies(e, eqs) == \A j \in DOMAIN eqs : EqHolds(eqs[j], e)
Fits(e, q) == Satisfies(e, q.eqs) /\ Inside(e, q.box)

\* Constraint c is d, or has lost cases of it.
Thinned(c, d) ==
    /\ c.kind = d.kind
    /\ c.kind = "max" =>
         c.f = d.f /\ c.maxValueOfEliminated = d.maxValueOfEliminated /\ c.elements \subseteq d.elements
    /\ c.kind = "disj" => c.disjuncts = d.disjuncts
    /\ c.kind \notin {"max", "disj"} => c = d
AllThinned(cons, old) == Len(cons) = Len(old) /\ \A j \in 1 .. Len(old) : Thinned(cons[j], old[j])

\* Unless it throws, turn y of the rounds has gained nothing over turn x.
Back(n, e, x, y) ==
    /\ y \in TurnShapes(n) /\ AllThinned(y.query.cons, x.query.cons)
    /\ y.throws = FALSE => x.throws = FALSE
    /\ y.throws = FALSE /\ Fits(e, y.query) => Fits(e, x.query)

\* A turn gains nothing over itself, nor over what the turn before has gained nothing over.
LEMMA BackFurther ==
    ASSUME NEW n, NEW e, NEW x
    PROVE  /\ x \in TurnShapes(n) => Back(n, e, x, x)
           /\ \A y, z : Back(n, e, x, y) /\ Back(n, e, y, z) => Back(n, e, x, z)
  <1>1. \A c : Thinned(c, c)
    BY DEF Thinned
  <1>2. \A b, c, d : Thinned(b, c) /\ Thinned(c, d) => Thinned(b, d)
    BY DEF Thinned
  <1>3. \A r, s, t : AllThinned(t, s) /\ AllThinned(s, r) => AllThinned(t, r)
    BY <1>2 DEF AllThinned
  <1>4. \A s : AllThinned(s, s)
    BY <1>1 DEF AllThinned
  <1> QED BY <1>3, <1>4 DEF Back

\* What an equality says
LEMMA EqualityHolds ==
    ASSUME NEW n, NEW eq \in Equalities(n), NEW e
    PROVE  EqHolds(eq, e) <=> SumAt(eq, e) = eq.scalar
  <1>1. eq.type = "EQ"
    BY DEF Equalities
  <1> QED BY <1>1, Zenon DEF EqHolds

\* An equation of fixed variables that holds of their bounds holds.
LEMMA FixedHolds ==
    ASSUME NEW n \in Nat, NEW b \in BoxOver(n), NEW e \in Assignments, Inside(e, b), NEW eq \in Equalities(n),
           NEW V, V = EqVariables(eq), Fixed(b, V), NEW at, at = [v \in V |-> Lb(b, v)], SumAt(eq, at) = eq.scalar
    PROVE  EqHolds(eq, e)
  <1> DEFINE m == Len(eq.addends)
             f == [i \in DOMAIN eq.addends |-> eq.addends[i][1] * at[eq.addends[i][2]]]
             h == [i \in DOMAIN eq.addends |-> eq.addends[i][1] * e[eq.addends[i][2]]]
  <1>1. m \in Nat /\ DOMAIN eq.addends = 1 .. m
        /\ \A i \in 1 .. m : eq.addends[i][1] \in Int /\ eq.addends[i][2] \in Variables(n) /\ eq.addends[i][2] \in V
    <2>1. m \in Nat /\ DOMAIN eq.addends = 1 .. m /\ \A i \in 1 .. m : eq.addends[i] \in Int \X Variables(n)
      BY DEF Equalities
    <2>2. \A i \in 1 .. m : eq.addends[i][2] \in V
      BY <2>1, Zenon DEF EqVariables
    <2> QED BY <2>1, <2>2
  <1>2. ASSUME NEW v \in Variables(n), v \in V
        PROVE  at[v] = e[v] /\ e[v] \in Int
    <2>1. <<v, "LB">> \in DOMAIN b /\ <<v, "UB">> \in DOMAIN b
      BY DEF BoxOver, Variables
    <2>2. b[<<v, "LB">>] \in Int /\ b[<<v, "UB">>] \in Int /\ e[v] \in Int
      BY DEF BoxOver, Variables, Assignments
    <2>3. b[<<v, "LB">>] <= e[v] /\ e[v] <= b[<<v, "UB">>]
      BY <2>1, <2>2 DEF Inside, Respects
    <2>4. b[<<v, "LB">>] = b[<<v, "UB">>] /\ at[v] = b[<<v, "LB">>]
      BY <1>2 DEF Fixed, Lb, Ub
    <2> QED BY <2>2, <2>3, <2>4
  <1>3. SumAt(eq, at) = Plus(f, m) /\ SumAt(eq, e) = Plus(h, m)
    BY DEF SumAt
  <1>4. Numbers(f, m) /\ \A i \in 1 .. m : f[i] = h[i]
    <2> SUFFICES ASSUME NEW i \in 1 .. m PROVE f[i] \in Int /\ f[i] = h[i]
      BY <1>1, Zenon DEF Numbers
    <2> DEFINE v == eq.addends[i][2]
    <2>1. v \in Variables(n) /\ v \in V /\ eq.addends[i][1] \in Int /\ i \in DOMAIN eq.addends
      BY <1>1
    <2>2. at[v] = e[v] /\ e[v] \in Int
      BY <1>2, <2>1
    <2> QED BY <2>1, <2>2, TimesType
  <1> HIDE DEF f, h, m
  <1>5. SumAt(eq, e) = eq.scalar
    BY <1>3, <1>4, SumSame
  <1> QED BY <1>5, EqualityHolds

\* An equation is dropped if its variables are fixed at values that satisfy it, and its
\* bounds are only tightened.
LEMMA ProcessEquationBack ==
    ASSUME NEW n \in Nat, NEW e \in Assignments, NEW r \in TurnShapes(n), NEW eq \in Equalities(n),
           NEW y, y = ProcessEquation(r, eq)
    PROVE  /\ y \in TurnShapes(n) /\ y.query.cons = r.query.cons
           /\ y.throws = FALSE => r.throws = FALSE
           /\ y.throws = FALSE /\ Fits(e, y.query) => Fits(e, r.query) /\ EqHolds(eq, e)
  <1> DEFINE b == r.query.box
             T == UNION {Implied(eq, b, i) : i \in DOMAIN eq.addends}
             box == Tightened(b, T)
             V == EqVariables(eq)
             done == Fixed(box, V)
             at == [v \in V |-> Lb(box, v)]
             eqs == IF done THEN r.query.eqs ELSE Append(r.query.eqs, eq)
             q == [r.query EXCEPT !.box = box, !.eqs = eqs]
             tighter == r.tighter \/ box /= b
             thrown == Crossed(box, V) \/ (done /\ SumAt(eq, at) /= eq.scalar)
  <1>1. /\ r.query \in QueryShapes(n) /\ b \in BoxOver(n) /\ r.query.eqs \in Seq(Equalities(n)) /\ r.tighter \in BOOLEAN
        /\ r.throws \in BOOLEAN
    BY DEF TurnShapes, QueryShapes
  <1>2. SUFFICES ASSUME ~r.throws
                 PROVE  /\ y \in TurnShapes(n) /\ y.query.cons = r.query.cons
                        /\ y.throws = FALSE /\ Fits(e, y.query) => Fits(e, r.query) /\ EqHolds(eq, e)
    <2>1. r.throws => y = r
      BY DEF ProcessEquation
    <2> QED BY <1>1, <2>1, Zenon
  <1>3. box \in BoxOver(n) /\ (Inside(e, box) => Inside(e, b))
    <2>1. \A i \in DOMAIN eq.addends : Numeric(Implied(eq, b, i))
      BY <1>1, ImpliedNumeric
    <2>2. Numeric(T)
      BY <2>1 DEF Numeric
    <2> HIDE DEF T, b
    <2> QED BY <1>1, <2>2, TightenedInside
  <1>4. y = [r EXCEPT !.query.box = box, !.tighter = @ \/ box /= b, !.throws = thrown,
                      !.query.eqs = IF done THEN @ ELSE Append(@, eq)]
    BY <1>2 DEF ProcessEquation
  <1> HIDE DEF thrown, at
  <1>5. y = [r EXCEPT !.query = q, !.tighter = tighter, !.throws = thrown]
    <2> HIDE DEF box, done, tighter
    <2>1. r = [query |-> r.query, tighter |-> r.tighter, throws |-> r.throws, merged |-> r.merged, gone |-> r.gone]
      BY DEF TurnShapes
    <2>2. r.query = [n |-> r.query.n, eqs |-> r.query.eqs, cons |-> r.query.cons, box |-> r.query.box,
                     inputs |-> r.query.inputs, outputs |-> r.query.outputs]
      BY <1>1 DEF QueryShapes
    <2> QED BY <1>4, <2>1, <2>2, Zenon DEF tighter
  <1>6. eqs \in Seq(Equalities(n)) /\ (Satisfies(e, eqs) => Satisfies(e, r.query.eqs) /\ (done \/ EqHolds(eq, e)))
    <2> HIDE DEF done
    <2> DEFINE s == r.query.eqs
    <2>1. s \in Seq(Equalities(n))
      BY <1>1
    <2> HIDE DEF s
    <2>2. /\ Append(s, eq) \in Seq(Equalities(n)) /\ DOMAIN s = 1 .. Len(s) /\ Len(s) \in Nat
          /\ DOMAIN Append(s, eq) = 1 .. Len(s) + 1 /\ Append(s, eq)[Len(s) + 1] = eq
          /\ \A j \in 1 .. Len(s) : Append(s, eq)[j] = s[j]
      BY <2>1
    <2>3. Satisfies(e, Append(s, eq)) => Satisfies(e, s) /\ EqHolds(eq, e)
      BY <2>2 DEF Satisfies
    <2>4. eqs = IF done THEN s ELSE Append(s, eq)
      BY DEF s
    <2> QED BY <2>1, <2>2, <2>3, <2>4 DEF s
  <1>7. tighter \in BOOLEAN /\ thrown \in BOOLEAN
    BY <1>1 DEF thrown
  <1>8. Inside(e, box) /\ done /\ ~thrown => EqHolds(eq, e)
    <2> SUFFICES ASSUME Inside(e, box), done, ~thrown PROVE EqHolds(eq, e)
      OBVIOUS
    <2>1. SumAt(eq, at) = eq.scalar
      BY DEF thrown
    <2>2. V = EqVariables(eq) /\ Fixed(box, V) /\ at = [v \in V |-> Lb(box, v)]
      BY DEF at
    <2> HIDE DEF box, V
    <2> QED BY <1>3, <2>1, <2>2, FixedHolds
  <1> HIDE DEF box, done, eqs, tighter
  <1>9. q \in QueryShapes(n) /\ q.eqs = eqs /\ q.box = box /\ q.cons = r.query.cons
    BY <1>1, <1>3, <1>6, Zenon DEF QueryShapes
  <1> HIDE DEF q
  <1>10. y \in TurnShapes(n) /\ y.query = q /\ y.throws = thrown
    BY <1>5, <1>7, <1>9, Zenon DEF TurnShapes
  <1> QED BY <1>3, <1>6, <1>8, <1>9, <1>10 DEF Fits

EquationBackGood(a, x, i) ==
    /\ x \in TurnShapes(a[1]) /\ x.query.cons = a[3].query.cons /\ (x.throws = FALSE => a[3].throws = FALSE)
    /\ x.throws = FALSE /\ Fits(a[2], x.query) =>
         Inside(a[2], a[3].query.box) /\ \A j \in 1 .. i : EqHolds(a[3].query.eqs[j], a[2])
EquationBackStep(a, x, i) == ProcessEquation(x, a[3].query.eqs[i])
EquationBackLoop == INSTANCE Loops WITH Step <- EquationBackStep, Good <- EquationBackGood

\* The loop over the equations gains nothing.
LEMMA ProcessEquationsBack ==
    ASSUME NEW n \in Nat, NEW e \in Assignments, NEW r \in TurnShapes(n)
    PROVE  Back(n, e, r, ProcessEquations(r))
  <1> DEFINE eqs == r.query.eqs
             m == Len(eqs)
             start == [r EXCEPT !.query.eqs = <<>>]
             a == <<n, e, r>>
             after[i \in 0 .. m] == IF i = 0 THEN start ELSE ProcessEquation(after[i - 1], eqs[i])
  <1>1. /\ eqs \in Seq(Equalities(n)) /\ m \in Nat /\ DOMAIN eqs = 1 .. m /\ \A i \in 1 .. m : eqs[i] \in Equalities(n)
        /\ start \in TurnShapes(n) /\ start.query.cons = r.query.cons /\ start.throws = r.throws
        /\ start.query.box = r.query.box /\ start.query.eqs = <<>>
    <2>1. r.query \in QueryShapes(n) /\ eqs \in Seq(Equalities(n))
      BY DEF TurnShapes, QueryShapes
    <2>2. <<>> \in Seq(Equalities(n))
      OBVIOUS
    <2> DEFINE q == [r.query EXCEPT !.eqs = <<>>]
    <2>3. q \in QueryShapes(n) /\ q.cons = r.query.cons /\ q.box = r.query.box /\ q.eqs = <<>>
      BY <2>1, <2>2, Zenon DEF QueryShapes
    <2>4. start = [r EXCEPT !.query = q]
      BY DEF TurnShapes
    <2> HIDE DEF q
    <2>5. start \in TurnShapes(n) /\ start.query = q /\ start.throws = r.throws
      BY <2>3, <2>4 DEF TurnShapes
    <2>6. m \in Nat /\ DOMAIN eqs = 1 .. m /\ \A i \in 1 .. m : eqs[i] \in Equalities(n)
      <3> HIDE DEF eqs
      <3> QED BY <2>1
    <2> QED BY <2>1, <2>3, <2>5, <2>6
  <1>2. PICK h : EquationBackLoop!Course(h, a, start, m)
    BY <1>1, EquationBackLoop!CourseExists, Zenon
  <1>3. after = [i \in 0 .. m |-> IF i = 0 THEN start ELSE ProcessEquation(after[i - 1], eqs[i])]
    BY <1>2, ZenonT(30) DEF EquationBackLoop!Course, EquationBackStep
  <1>4. ProcessEquations(r) = after[m]
    BY DEF ProcessEquations
  <1>0. a[1] = n /\ a[2] = e /\ a[3] = r
    OBVIOUS
  <1> HIDE DEF after, start, m, a
  <1>5. EquationBackLoop!Course(after, a, start, m)
    BY <1>0, <1>3, Zenon DEF EquationBackLoop!Course, EquationBackStep
  <1>6. EquationBackLoop!Started(a, start, m)
    <2>1. EquationBackGood(a, start, 0)
      BY <1>0, <1>1 DEF EquationBackGood, Fits
    <2> QED BY <1>1, <2>1 DEF EquationBackLoop!Started
  <1>7. EquationBackLoop!Kept(a, m)
    <2> SUFFICES ASSUME NEW i \in 1 .. m, NEW x, EquationBackGood(a, x, i - 1)
                 PROVE  EquationBackGood(a, ProcessEquation(x, eqs[i]), i)
      BY <1>0 DEF EquationBackLoop!Kept, EquationBackStep
    <2> DEFINE y == ProcessEquation(x, eqs[i])
    <2>1. x \in TurnShapes(n) /\ eqs[i] \in Equalities(n)
      BY <1>0, <1>1 DEF EquationBackGood
    <2> HIDE DEF eqs
    <2>2. /\ y \in TurnShapes(n) /\ y.query.cons = x.query.cons
          /\ y.throws = FALSE => x.throws = FALSE
          /\ y.throws = FALSE /\ Fits(e, y.query) => Fits(e, x.query) /\ EqHolds(eqs[i], e)
      BY <2>1, ProcessEquationBack, Zenon
    <2> HIDE DEF y
    <2>3. \A j \in 1 .. i : j = i \/ j \in 1 .. (i - 1)
      BY <1>1
    <2> QED BY <1>0, <2>2, <2>3 DEF EquationBackGood, eqs, y
  <1>8. \A i \in 0 .. m : EquationBackGood(a, after[i], i)
    BY <1>5, <1>6, <1>7, EquationBackLoop!CourseKeeps
  <1>9. EquationBackGood(a, after[m], m)
    BY <1>1, <1>8
  <1>10. \A s : AllThinned(s, s)
    BY DEF AllThinned, Thinned
  <1> QED BY <1>0, <1>1, <1>4, <1>9, <1>10 DEF EquationBackGood, Back, Fits, Satisfies

-----------------------------------------------------------------------------
(* What constraints are told and entail, by shape *)

LEMMA TighteningTyped ==
    ASSUME NEW n, NEW v \in Variables(n), NEW x \in Int
    PROVE  Least(v, x) \in Tightenings(n) /\ Most(v, x) \in Tightenings(n)
  BY DEF Least, Most, Tightenings

LEMMA BoundTyped ==
    ASSUME NEW n, NEW b \in BoxOver(n), NEW v \in Variables(n)
    PROVE  b[<<v, "LB">>] \in Int /\ b[<<v, "UB">>] \in Int
  BY DEF BoxOver, Variables

LEMMA ReluEntailsTyped ==
    ASSUME NEW n \in Nat, NEW b \in BoxOver(n), NEW c \in ReluShapes(n)
    PROVE  Relu!Entailed(c, <<>>, b) \subseteq Tightenings(n)
  <1>1. c.b \in Variables(n) /\ c.f \in Variables(n) /\ c.aux \in Variables(n)
    BY DEF ReluShapes
  <1> DEFINE bLB == b[<<c.b, "LB">>]
             bUB == b[<<c.b, "UB">>]
             fLB == b[<<c.f, "LB">>]
             fUB == b[<<c.f, "UB">>]
             aLB == b[<<c.aux, "LB">>]
             aUB == b[<<c.aux, "UB">>]
             values == {fLB, bLB, fUB, bUB, 0, -bLB, -bUB, -aLB, -aUB}
             vars == {c.b, c.f, c.aux}
  <1>2. bLB \in Int /\ bUB \in Int /\ fLB \in Int /\ fUB \in Int /\ aLB \in Int /\ aUB \in Int
    BY <1>1, BoundTyped
  <1>3. \A t \in Relu!Entailed(c, <<>>, b) : \E v \in vars : \E x \in values : t = Least(v, x) \/ t = Most(v, x)
    BY DEF Relu!Entailed, Relu!EntailedActive, Relu!EntailedInactive, Relu!EntailedUnknown,
       Relu!Least, Relu!Most, Least, Most
  <1> HIDE DEF bLB, bUB, fLB, fUB, aLB, aUB
  <1>4. values \subseteq Int /\ vars \subseteq Variables(n)
    BY <1>1, <1>2
  <1> HIDE DEF values, vars
  <1> QED BY <1>3, <1>4, TighteningTyped

LEMMA AbsEntailsTyped ==
    ASSUME NEW n \in Nat, NEW b \in BoxOver(n), NEW c \in AbsShapes(n)
    PROVE  Abs!Entailed(c, <<>>, b) \subseteq Tightenings(n)
  <1>1. c.b \in Variables(n) /\ c.f \in Variables(n) /\ c.posAux \in Variables(n) /\ c.negAux \in Variables(n)
    BY DEF AbsShapes
  <1> DEFINE bLB == b[<<c.b, "LB">>]
             bUB == b[<<c.b, "UB">>]
             fUB == b[<<c.f, "UB">>]
             fLB == Abs!Larger(b[<<c.f, "LB">>], 0)
             wide == Abs!Larger(-bLB, bUB)
             values == {fLB, -fLB, bLB, fUB, bUB, 0, -bLB, -bUB, -fUB, wide, fUB - bLB, fUB + bUB}
             vars == {c.b, c.f, c.posAux, c.negAux}
             Fine(t) == \E v \in vars : \E x \in values : t = Least(v, x) \/ t = Most(v, x)
  <1>2. bLB \in Int /\ bUB \in Int /\ fLB \in Int /\ fUB \in Int /\ wide \in Int
    BY <1>1, BoundTyped DEF Abs!Larger
  <1>3. /\ \A t \in Abs!EntailedPositive(c, b, fLB) : Fine(t)
        /\ \A t \in Abs!EntailedNegative(c, b, fLB) : Fine(t)
        /\ \A t \in {Abs!Least(c.f, 0), Abs!Least(c.posAux, 0), Abs!Least(c.negAux, 0)} : Fine(t)
    BY DEF Abs!EntailedPositive, Abs!EntailedNegative, Abs!Least, Abs!Most, Least, Most
  <1>4. \A t \in Abs!EntailedOpen(c, b, fLB) : Fine(t)
    BY DEF Abs!EntailedOpen, Abs!Least, Abs!Most, Least, Most
  <1>5. \A t \in Abs!Entailed(c, <<>>, b) : Fine(t)
    <2> HIDE DEF Fine
    <2> QED BY <1>3, <1>4 DEF Abs!Entailed
  <1> HIDE DEF bLB, bUB, fLB, fUB, wide
  <1>6. values \subseteq Int /\ vars \subseteq Variables(n)
    BY <1>1, <1>2
  <1> HIDE DEF values, vars
  <1> QED BY <1>5, <1>6, TighteningTyped

LEMMA SignEntailsTyped ==
    ASSUME NEW n \in Nat, NEW b, NEW c \in SignShapes(n)
    PROVE  Sign!Entailed(c, <<>>, b) \subseteq Tightenings(n)
  <1>1. c.b \in Variables(n) /\ c.f \in Variables(n)
    BY DEF SignShapes
  <1> QED BY <1>1 DEF Sign!Entailed, Sign!Least, Sign!Most, Tightenings

LEMMA MaxEntailsTyped ==
    ASSUME NEW n \in Nat, NEW b \in BoxOver(n), NEW c \in MaxShapes(n)
    PROVE  MaxOf!Entailed(c, c.state, b) \subseteq Tightenings(n)
  <1> DEFINE s == c.state
             fUB == b[<<c.f, "UB">>]
             above == MaxOf!LargestOf(c, s, b, "UB")
             below == MaxOf!LargestOf(c, s, b, "LB")
  <1>1. c.f \in Variables(n) /\ s.elements \subseteq Variables(n) /\ c.maxValueOfEliminated \in Int
    BY DEF MaxShapes, MaxStates
  <1>2. fUB \in Int /\ above \subseteq Int /\ below \subseteq Int
    BY <1>1, BoundTyped, ZenonT(40) DEF MaxOf!LargestOf
  <1>3. \A t \in MaxOf!Entailed(c, s, b) :
            \/ \E x \in above : t = Most(c.f, x)
            \/ \E e \in s.elements : t = Most(e, fUB)
            \/ \E x \in below : t = Least(c.f, x)
    BY Zenon DEF MaxOf!Entailed, MaxOf!Most, MaxOf!Least, Most, Least
  <1> HIDE DEF above, below, fUB, s
  <1>4. MaxOf!Entailed(c, s, b) \subseteq Tightenings(n)
    BY <1>1, <1>2, <1>3, TighteningTyped, Zenon
  <1> QED BY <1>4 DEF s

LEMMA DisjEntailsTyped ==
    ASSUME NEW n \in Nat, NEW b, NEW c \in DisjShapes(n)
    PROVE  Disj!Entailed(c, c.state, b) \subseteq Tightenings(n)
  <1>1. c.disjuncts \subseteq SUBSET Tightenings(n)
    BY DEF DisjShapes
  <1> QED BY <1>1 DEF Disj!Entailed

\* A bound taken for infinite or not is a bound.
LEMMA NormTyped ==
    ASSUME NEW n, NEW t \in Tightenings(n)
    PROVE  [t EXCEPT !.value = Norm(@)] \in Tightenings(n)
  <1> DEFINE x == t.value
  <1>1. x \in Int /\ t.key \in Variables(n) \X {"LB", "UB"}
    BY DEF Tightenings
  <1> HIDE DEF x
  <1>2. Norm(x) \in Int
    BY <1>1 DEF Norm, Inf
  <1>3. [t EXCEPT !.value = Norm(@)] = [key |-> t.key, value |-> Norm(x)]
    BY DEF Tightenings, x
  <1> QED BY <1>1, <1>2, <1>3 DEF Tightenings

\* What a constraint entails is tightenings of the variables.
LEMMA EntailedTyped ==
    ASSUME NEW n \in Nat, NEW b \in BoxOver(n), NEW c \in Shapes(n)
    PROVE  Entailed(c, b) \subseteq Tightenings(n)
  <1> DEFINE T == CASE c.kind = "relu" -> Relu!Entailed(c, <<>>, b)
                    [] c.kind = "abs" -> Abs!Entailed(c, <<>>, b)
                    [] c.kind = "sign" -> Sign!Entailed(c, <<>>, b)
                    [] c.kind = "max" -> MaxOf!Entailed(c, c.state, b)
                    [] c.kind = "disj" -> Disj!Entailed(c, c.state, b)
                    [] c.kind = "round" -> {}
  <1>1. Entailed(c, b) = {[t EXCEPT !.value = Norm(@)] : t \in T}
    BY DEF Entailed
  <1>2. CASE c \in ReluShapes(n)
    <2>1. c.kind = "relu"
      BY <1>2 DEF ReluShapes
    <2>2. T = Relu!Entailed(c, <<>>, b)
      BY <2>1
    <2> HIDE DEF T
    <2>3. T \subseteq Tightenings(n)
      BY <1>2, <2>2, ReluEntailsTyped
    <2> QED BY <1>1, <2>3, NormTyped
  <1>3. CASE c \in AbsShapes(n)
    <2>1. c.kind = "abs"
      BY <1>3 DEF AbsShapes
    <2>2. T = Abs!Entailed(c, <<>>, b)
      BY <2>1
    <2> HIDE DEF T
    <2>3. T \subseteq Tightenings(n)
      BY <1>3, <2>2, AbsEntailsTyped
    <2> QED BY <1>1, <2>3, NormTyped
  <1>4. CASE c \in SignShapes(n)
    <2>1. c.kind = "sign"
      BY <1>4 DEF SignShapes
    <2>2. T = Sign!Entailed(c, <<>>, b)
      BY <2>1
    <2> HIDE DEF T
    <2>3. T \subseteq Tightenings(n)
      BY <1>4, <2>2, SignEntailsTyped
    <2> QED BY <1>1, <2>3, NormTyped
  <1>5. CASE c \in MaxShapes(n)
    <2>1. c.kind = "max"
      BY <1>5 DEF MaxShapes
    <2>2. T = MaxOf!Entailed(c, c.state, b)
      BY <2>1
    <2> HIDE DEF T
    <2>3. T \subseteq Tightenings(n)
      BY <1>5, <2>2, MaxEntailsTyped
    <2> QED BY <1>1, <2>3, NormTyped
  <1>6. CASE c \in DisjShapes(n)
    <2>1. c.kind = "disj"
      BY <1>6 DEF DisjShapes
    <2>2. T = Disj!Entailed(c, c.state, b)
      BY <2>1
    <2> HIDE DEF T
    <2>3. T \subseteq Tightenings(n)
      BY <1>6, <2>2, DisjEntailsTyped, Zenon
    <2> QED BY <1>1, <2>3, NormTyped
  <1>7. CASE c \in RoundingShapes(n)
    <2>1. c.kind = "round"
      BY <1>7 DEF RoundingShapes
    <2>2. T = {}
      BY <2>1
    <2> HIDE DEF T
    <2> QED BY <1>1, <2>2
  <1> QED BY <1>2, <1>3, <1>4, <1>5, <1>6, <1>7 DEF Shapes

MaxShapeStep(a, s, i) == ToldOf(a[1], s, a[2], Participating(a[1])[i])
MaxShapeGood(a, s, i) == s \in MaxOf!States(a[1])
MaxShapeLoop == INSTANCE Loops WITH Step <- MaxShapeStep, Good <- MaxShapeGood

\* The variables a max is told about
LEMMA ShapeParticipates ==
    ASSUME NEW n \in Nat, NEW c \in MaxShapes(n)
    PROVE  Participating(c) \in Seq(Variables(n))
  <1> DEFINE auxiliary == {c.aux[e] : e \in DOMAIN c.aux}
             others == IF c.f \in c.elements THEN <<>> ELSE <<c.f>>
  <1>1. c.elements \subseteq Variables(n) /\ auxiliary \subseteq Variables(n) /\ c.f \in Variables(n) /\ c.kind = "max"
    BY DEF MaxShapes, AuxiliaryMaps
  <1>2. Participating(c) = Ascending(c.elements) \o Ascending(auxiliary) \o others
    BY <1>1 DEF Participating
  <1> HIDE DEF auxiliary
  <1>3. Ascending(c.elements) \in Seq(Variables(n))
    <2>1. Ascending(c.elements) \in Seq(c.elements)
      BY <1>1, AscendingMember
    <2> QED BY <1>1, <2>1
  <1>4. Ascending(auxiliary) \in Seq(Variables(n))
    <2>1. Ascending(auxiliary) \in Seq(auxiliary)
      BY <1>1, AscendingMember
    <2> QED BY <1>1, <2>1
  <1>5. others \in Seq(Variables(n))
    BY <1>1
  <1> HIDE DEF others
  <1> QED BY <1>2, <1>3, <1>4, <1>5

\* Told of a variable's bounds, what a max knows is a state of it.
LEMMA ToldOfTyped ==
    ASSUME NEW n, NEW b \in BoxOver(n), NEW c, c.maxValueOfEliminated \in Int, NEW v \in Variables(n),
           NEW s \in MaxOf!States(c)
    PROVE  ToldOf(c, s, b, v) \in MaxOf!States(c)
  <1> DEFINE x == Lb(b, v)
             y == Ub(b, v)
             low == MaxOf!AfterLower(c, s, b, v, x)
  <1>1. x \in Int /\ y \in Int
    BY BoundTyped DEF Lb, Ub
  <1> HIDE DEF x, y
  <1>2. low \in MaxOf!States(c)
    <2> DEFINE owners == {e \in s.elements : c.aux[e] = v}
               rest == {e \in s.elements : e = v \/ b[<<e, "UB">>] >= x}
               possible == x <= c.maxValueOfEliminated
    <2>1. /\ s.elements \subseteq c.elements /\ s.elements \ owners \in SUBSET c.elements /\ rest \in SUBSET c.elements
          /\ possible \in BOOLEAN
      BY DEF MaxOf!States
    <2>2. \/ low = [s EXCEPT !.elements = @ \ owners]
          \/ low = [s EXCEPT !.maxLowerBound = x, !.elements = rest, !.haveEliminated = possible]
          \/ low = s
      BY DEF MaxOf!AfterLower, MaxOf!Raised
    <2> HIDE DEF owners, rest, possible, low
    <2> QED BY <1>1, <2>1, <2>2, Zenon DEF MaxOf!States
  <1> HIDE DEF low
  <1>3. MaxOf!AfterUpper(c, low, v, y) \in MaxOf!States(c)
    <2> DEFINE owners == {e \in low.elements : c.aux[e] = v}
               high == MaxOf!AfterUpper(c, low, v, y)
    <2>1. owners \in SUBSET c.elements /\ low.elements \ {v} \in SUBSET c.elements
      BY <1>2 DEF MaxOf!States
    <2>2. \/ high = [low EXCEPT !.elements = owners, !.haveEliminated = FALSE]
          \/ high = [low EXCEPT !.elements = @ \ {v}]
          \/ high = low
      BY DEF MaxOf!AfterUpper
    <2> HIDE DEF owners, high
    <2>3. high \in MaxOf!States(c)
      BY <1>2, <2>1, <2>2, Zenon DEF MaxOf!States
    <2> QED BY <2>3 DEF high
  <1> QED BY <1>3 DEF ToldOf, low, x, y

\* Told all bounds of a box, it is one as well.
LEMMA ToldMaxTyped ==
    ASSUME NEW n \in Nat, NEW b \in BoxOver(n), NEW c \in MaxShapes(n)
    PROVE  ToldMax(c, b) \in MaxOf!States(c)
  <1> DEFINE vs == Participating(c)
             m == Len(vs)
             a == <<c, b>>
             after[i \in 0 .. m] == IF i = 0 THEN c.state ELSE ToldOf(c, after[i - 1], b, vs[i])
  <1>1. vs \in Seq(Variables(n)) /\ m \in Nat /\ \A i \in 1 .. m : vs[i] \in Variables(n)
    <2>1. vs \in Seq(Variables(n))
      BY ShapeParticipates
    <2> HIDE DEF vs
    <2> QED BY <2>1
  <1>2. PICK h : MaxShapeLoop!Course(h, a, c.state, m)
    BY <1>1, MaxShapeLoop!CourseExists, Zenon
  <1>3. after = [i \in 0 .. m |-> IF i = 0 THEN c.state ELSE ToldOf(c, after[i - 1], b, vs[i])]
    BY <1>2, Zenon DEF MaxShapeLoop!Course, MaxShapeStep
  <1>4. ToldMax(c, b) = after[m]
    BY DEF ToldMax
  <1>0. a[1] = c /\ a[2] = b
    OBVIOUS
  <1> HIDE DEF after, m, a
  <1>5. MaxShapeLoop!Course(after, a, c.state, m)
    BY <1>0, <1>3, Zenon DEF MaxShapeLoop!Course, MaxShapeStep
  <1>6. MaxShapeLoop!Started(a, c.state, m)
    <2>1. c.state \in MaxOf!States(c)
      BY DEF MaxShapes, MaxStates, MaxOf!States
    <2> QED BY <1>0, <1>1, <2>1 DEF MaxShapeLoop!Started, MaxShapeGood
  <1>7. MaxShapeLoop!Kept(a, m)
    <2> SUFFICES ASSUME NEW i \in 1 .. m, NEW s \in MaxOf!States(c)
                 PROVE  ToldOf(c, s, b, vs[i]) \in MaxOf!States(c)
      BY <1>0 DEF MaxShapeLoop!Kept, MaxShapeGood, MaxShapeStep
    <2>1. vs[i] \in Variables(n) /\ c.maxValueOfEliminated \in Int
      BY <1>1 DEF MaxShapes
    <2> HIDE DEF vs
    <2> QED BY <2>1, ToldOfTyped
  <1>8. \A i \in 0 .. m : MaxShapeGood(a, after[i], i)
    BY <1>5, <1>6, <1>7, MaxShapeLoop!CourseKeeps
  <1> QED BY <1>0, <1>1, <1>4, <1>8 DEF MaxShapeGood

\* A max that is told its bounds has lost cases.
LEMMA MaxToldShape ==
    ASSUME NEW n \in Nat, NEW b \in BoxOver(n), NEW c \in MaxShapes(n)
    PROVE  Told(c, b) \in MaxShapes(n) /\ Thinned(Told(c, b), c)
  <1> DEFINE after == ToldMax(c, b)
             E == c.elements \ after.elements
             state == [after EXCEPT !.elements = @ \ E]
             left == c.elements \ E
             aux == [e \in DOMAIN c.aux \ E |-> c.aux[e]]
             told == [kind |-> "max", f |-> c.f, elements |-> left, aux |-> aux,
                      maxValueOfEliminated |-> c.maxValueOfEliminated, state |-> state, obsolete |-> c.obsolete]
  <1>2. after \in MaxOf!States(c) /\ after.elements \subseteq c.elements
    <2>1. after \in MaxOf!States(c)
      BY ToldMaxTyped
    <2> HIDE DEF after
    <2> QED BY <2>1 DEF MaxOf!States
  <1> HIDE DEF after
  <1>3. c.elements \subseteq Variables(n) /\ c.f \in Variables(n) /\ c.aux \in AuxiliaryMaps(n) /\ c.kind = "max"
        /\ c.maxValueOfEliminated \in Int /\ c.obsolete \in BOOLEAN
        /\ c = [kind |-> c.kind, f |-> c.f, elements |-> c.elements, aux |-> c.aux,
                maxValueOfEliminated |-> c.maxValueOfEliminated, state |-> c.state, obsolete |-> c.obsolete]
    BY DEF MaxShapes
  <1>4. Told(c, b) = WithoutCases([c EXCEPT !.state = after], E)
    BY <1>3 DEF Told, after
  <1>5. Told(c, b) = told
    <2> DEFINE d == [c EXCEPT !.state = after]
    <2>1. d = [kind |-> "max", f |-> c.f, elements |-> c.elements, aux |-> c.aux,
               maxValueOfEliminated |-> c.maxValueOfEliminated, state |-> after, obsolete |-> c.obsolete]
      BY <1>3
    <2> HIDE DEF d
    <2>2. WithoutCases(d, E) = [d EXCEPT !.elements = left, !.aux = aux, !.state.elements = after.elements \ E]
      BY <2>1 DEF WithoutCases
    <2>3. [d.state EXCEPT !.elements = after.elements \ E] = state
      BY <2>1
    <2> HIDE DEF left, aux, state, E
    <2>4. WithoutCases(d, E) = [d EXCEPT !.elements = left, !.aux = aux, !.state = state]
      BY <2>1, <2>2, <2>3, Zenon
    <2>5. WithoutCases(d, E) = told
      BY <2>1, <2>4, Zenon
    <2> QED BY <1>4, <2>5 DEF d
  <1>6. left = after.elements /\ state \in MaxOf!States(c) /\ state.elements = left /\ left \subseteq c.elements
    BY <1>2 DEF MaxOf!States
  <1>7. state \in MaxStates(n)
    BY <1>3, <1>6 DEF MaxOf!States, MaxStates
  <1>8. aux \in AuxiliaryMaps(n)
    <2> DEFINE D == DOMAIN c.aux \ E
    <2>1. D \in SUBSET Variables(n) /\ \A e \in D : c.aux[e] \in Variables(n)
      BY <1>3 DEF AuxiliaryMaps
    <2>2. aux = [e \in D |-> c.aux[e]]
      OBVIOUS
    <2> HIDE DEF D, aux
    <2>3. aux \in [D -> Variables(n)]
      BY <2>1, <2>2
    <2> QED BY <2>1, <2>3 DEF AuxiliaryMaps
  <1> HIDE DEF state, left, aux
  <1>9. left \in SUBSET Variables(n)
    BY <1>3, <1>6
  <1> QED BY <1>3, <1>5, <1>6, <1>7, <1>8, <1>9 DEF MaxShapes, Thinned

\* So has a disjunction; the others are what they were.
LEMMA ToldShape ==
    ASSUME NEW n \in Nat, NEW b \in BoxOver(n), NEW c \in Shapes(n)
    PROVE  Told(c, b) \in Shapes(n) /\ Thinned(Told(c, b), c)
  <1>1. CASE c \in MaxShapes(n)
    BY <1>1, MaxToldShape DEF Shapes
  <1>2. CASE c \in DisjShapes(n)
    <2> DEFINE left == {d \in c.disjuncts : Disj!CaseSplitIsFeasible(b, d)}
               after == [c.state EXCEPT !.feasible = left]
    <2>1. Told(c, b) = [c EXCEPT !.state = after] /\ c.kind = "disj"
      BY <1>2 DEF Told, DisjShapes, Disj!Notified
    <2>2. c.disjuncts \subseteq SUBSET Tightenings(n) /\ c.state \in DisjStates(n)
      BY <1>2 DEF DisjShapes
    <2>3. left \in SUBSET SUBSET Tightenings(n)
      BY <2>2
    <2> HIDE DEF left
    <2>4. after \in DisjStates(n)
      BY <2>2, <2>3 DEF DisjStates
    <2> HIDE DEF after
    <2> QED BY <1>2, <2>1, <2>4 DEF Shapes, DisjShapes, Thinned
  <1>3. CASE c \in ReluShapes(n) \cup AbsShapes(n) \cup SignShapes(n) \cup RoundingShapes(n)
    <2>1. c.kind \in {"relu", "abs", "sign", "round"}
      BY <1>3 DEF ReluShapes, AbsShapes, SignShapes, RoundingShapes
    <2>2. Told(c, b) = c
      BY <2>1 DEF Told
    <2> QED BY <2>1, <2>2 DEF Thinned
  <1> QED BY <1>1, <1>2, <1>3 DEF Shapes

\* A constraint loses cases at most, and bounds are only tightened.
LEMMA ProcessConstraintBack ==
    ASSUME NEW n \in Nat, NEW e \in Assignments, NEW r \in TurnShapes(n), NEW i \in 1 .. Len(r.query.cons),
           NEW y, y = ProcessConstraint(r, i)
    PROVE  Back(n, e, r, y)
  <1> DEFINE b == r.query.box
             told == Told(r.query.cons[i], b)
             T == Entailed(told, b)
             box == Tightened(b, T)
             tighter == r.tighter \/ box /= b
             crossed == Crossed(box, {t.key[1] : t \in T})
             cons == [r.query.cons EXCEPT ![i] = told]
             q == [r.query EXCEPT !.cons = cons, !.box = box]
  <1>1. /\ r.query \in QueryShapes(n) /\ b \in BoxOver(n) /\ r.query.cons \in Seq(Shapes(n)) /\ r.tighter \in BOOLEAN
        /\ r.throws \in BOOLEAN
    BY DEF TurnShapes, QueryShapes
  <1>2. r.query.cons[i] \in Shapes(n)
    BY <1>1
  <1>3. CASE r.throws
    <2>1. y = r
      BY <1>3 DEF ProcessConstraint
    <2> QED BY <2>1, BackFurther
  <1>4. CASE ~r.throws /\ Throws(told, b)
    <2>1. y = [r EXCEPT !.throws = TRUE]
      BY <1>4 DEF ProcessConstraint
    <2>2. y \in TurnShapes(n) /\ y.query = r.query /\ y.throws = TRUE
      BY <2>1, Zenon DEF TurnShapes
    <2>3. Back(n, e, r, r)
      BY BackFurther
    <2> QED BY <2>2, <2>3 DEF Back
  <1>5. CASE ~r.throws /\ ~Throws(told, b)
    <2>1. y = [r EXCEPT !.query.cons[i] = told, !.query.box = box, !.tighter = tighter, !.throws = crossed]
      BY <1>5 DEF ProcessConstraint
    <2> HIDE DEF told, b
    <2>2. told \in Shapes(n) /\ Thinned(told, r.query.cons[i])
      BY <1>1, <1>2, ToldShape DEF told
    <2>3. T \subseteq Tightenings(n)
      BY <1>1, <2>2, EntailedTyped
    <2> HIDE DEF T
    <2>4. box \in BoxOver(n) /\ (Inside(e, box) => Inside(e, b))
      <3>1. Numeric(T)
        BY <2>3 DEF Numeric, Tightenings
      <3> QED BY <1>1, <3>1, TightenedInside
    <2>5. tighter \in BOOLEAN /\ crossed \in BOOLEAN
      BY <1>1 DEF Crossed
    <2> HIDE DEF box, tighter, crossed
    <2>6. cons \in Seq(Shapes(n)) /\ AllThinned(cons, r.query.cons)
      <3> DEFINE s == r.query.cons
      <3>1. s \in Seq(Shapes(n)) /\ i \in 1 .. Len(s)
        BY <1>1
      <3>2. Thinned(told, s[i])
        BY <2>2
      <3>3. cons = [s EXCEPT ![i] = told]
        OBVIOUS
      <3> HIDE DEF s, cons
      <3>4. cons \in Seq(Shapes(n)) /\ Len(cons) = Len(s) /\ \A j \in 1 .. Len(s) : cons[j] = IF j = i THEN told ELSE s[j]
        BY <2>2, <3>1, <3>3
      <3>5. \A c : Thinned(c, c)
        BY DEF Thinned
      <3>6. AllThinned(cons, s)
        BY <3>2, <3>4, <3>5 DEF AllThinned
      <3> QED BY <3>4, <3>6 DEF s
    <2>7. y = [r EXCEPT !.query = q, !.tighter = tighter, !.throws = crossed]
      <3>1. r = [query |-> r.query, tighter |-> r.tighter, throws |-> r.throws, merged |-> r.merged, gone |-> r.gone]
        BY DEF TurnShapes
      <3>2. r.query = [n |-> r.query.n, eqs |-> r.query.eqs, cons |-> r.query.cons, box |-> r.query.box,
                       inputs |-> r.query.inputs, outputs |-> r.query.outputs]
        BY <1>1 DEF QueryShapes
      <3> QED BY <2>1, <3>1, <3>2, Zenon
    <2> HIDE DEF cons
    <2>8. q \in QueryShapes(n) /\ q.cons = cons /\ q.box = box /\ q.eqs = r.query.eqs
      BY <1>1, <2>4, <2>6, Zenon DEF QueryShapes
    <2> HIDE DEF q
    <2>9. y \in TurnShapes(n) /\ y.query = q
      BY <2>5, <2>7, <2>8, Zenon DEF TurnShapes
    <2>10. Fits(e, q) => Fits(e, r.query)
      BY <2>4, <2>8 DEF Fits, b
    <2> QED BY <1>1, <1>5, <2>6, <2>8, <2>9, <2>10 DEF Back
  <1> QED BY <1>3, <1>4, <1>5

ConstraintBackStep(a, x, i) == ProcessConstraint(x, i)
ConstraintBackGood(a, x, i) == Back(a[1], a[2], a[3], x)
ConstraintBackLoop == INSTANCE Loops WITH Step <- ConstraintBackStep, Good <- ConstraintBackGood

\* The loop over the constraints gains nothing.
LEMMA ProcessConstraintsBack ==
    ASSUME NEW n \in Nat, NEW e \in Assignments, NEW r \in TurnShapes(n)
    PROVE  Back(n, e, r, ProcessConstraints(r))
  <1> DEFINE m == Len(r.query.cons)
             a == <<n, e, r>>
             after[i \in 0 .. m] == IF i = 0 THEN r ELSE ProcessConstraint(after[i - 1], i)
  <1>1. m \in Nat
    <2>1. r.query.cons \in Seq(Shapes(n))
      BY DEF TurnShapes, QueryShapes
    <2> QED BY <2>1
  <1>2. PICK h : ConstraintBackLoop!Course(h, a, r, m)
    BY <1>1, ConstraintBackLoop!CourseExists, Zenon
  <1>3. after = [i \in 0 .. m |-> IF i = 0 THEN r ELSE ProcessConstraint(after[i - 1], i)]
    BY <1>2 DEF ConstraintBackLoop!Course, ConstraintBackStep
  <1>4. ProcessConstraints(r) = after[m]
    BY DEF ProcessConstraints
  <1>0. a[1] = n /\ a[2] = e /\ a[3] = r
    OBVIOUS
  <1> HIDE DEF after, a
  <1>5. ConstraintBackLoop!Started(a, r, m)
    <2>1. Back(n, e, r, r)
      BY BackFurther
    <2> QED BY <1>0, <1>1, <2>1 DEF ConstraintBackLoop!Started, ConstraintBackGood
  <1>6. ConstraintBackLoop!Kept(a, m)
    <2> SUFFICES ASSUME NEW i \in 1 .. m, NEW x, Back(n, e, r, x)
                 PROVE  Back(n, e, r, ProcessConstraint(x, i))
      BY <1>0 DEF ConstraintBackLoop!Kept, ConstraintBackGood, ConstraintBackStep
    <2>1. x \in TurnShapes(n) /\ i \in 1 .. Len(x.query.cons)
      BY DEF Back, AllThinned
    <2>2. Back(n, e, x, ProcessConstraint(x, i))
      BY <2>1, ProcessConstraintBack
    <2> QED BY <2>2, BackFurther, Zenon
  <1>7. ConstraintBackLoop!Course(after, a, r, m)
    BY <1>0, <1>3, Zenon DEF ConstraintBackLoop!Course, ConstraintBackStep
  <1> HIDE DEF m
  <1>8. \A i \in 0 .. m : ConstraintBackGood(a, after[i], i)
    BY <1>5, <1>6, <1>7, ConstraintBackLoop!CourseKeeps
  <1> QED BY <1>0, <1>1, <1>4, <1>8 DEF ConstraintBackGood

RoundBackStep(a, x, i) == Round(x, FALSE)
RoundBackGood(a, x, i) == Back(a[1], a[2], a[3], x)
RoundBackLoop == INSTANCE Loops WITH Step <- RoundBackStep, Good <- RoundBackGood

\* Nor do the rounds.
LEMMA SaturatedBack ==
    ASSUME NEW n \in Nat, NEW e \in Assignments, NEW r \in TurnShapes(n), NEW rounds \in Nat
    PROVE  Back(n, e, r, Saturated(r, FALSE, rounds))
  <1> DEFINE a == <<n, e, r>>
             after[k \in 0 .. rounds] == IF k = 0 THEN r ELSE Round(after[k - 1], FALSE)
  <1>1. PICK h : RoundBackLoop!Course(h, a, r, rounds)
    BY RoundBackLoop!CourseExists
  <1>2. after = [k \in 0 .. rounds |-> IF k = 0 THEN r ELSE Round(after[k - 1], FALSE)]
    BY <1>1, Zenon DEF RoundBackLoop!Course, RoundBackStep
  <1>3. Saturated(r, FALSE, rounds) = after[rounds]
    BY DEF Saturated
  <1>0. a[1] = n /\ a[2] = e /\ a[3] = r
    OBVIOUS
  <1> HIDE DEF after, a
  <1>4. RoundBackLoop!Started(a, r, rounds)
    <2>1. Back(n, e, r, r)
      BY BackFurther
    <2> QED BY <1>0, <2>1 DEF RoundBackLoop!Started, RoundBackGood
  <1>5. RoundBackLoop!Kept(a, rounds)
    <2> SUFFICES ASSUME NEW x, Back(n, e, r, x) PROVE Back(n, e, r, Round(x, FALSE))
      BY <1>0, Zenon DEF RoundBackLoop!Kept, RoundBackGood, RoundBackStep
    <2> DEFINE start == [x EXCEPT !.tighter = FALSE]
               equated == ProcessEquations(start)
    <2>1. x \in TurnShapes(n)
      BY DEF Back
    <2>2. start \in TurnShapes(n) /\ start.query = x.query /\ start.throws = x.throws
      BY <2>1, Zenon DEF TurnShapes
    <2> HIDE DEF start
    <2>3. Back(n, e, x, start)
      <3>1. Back(n, e, x, x)
        BY <2>1, BackFurther
      <3> QED BY <2>2, <3>1 DEF Back
    <2>4. Back(n, e, start, equated)
      BY <2>2, ProcessEquationsBack
    <2> HIDE DEF equated
    <2>5. Back(n, e, equated, ProcessConstraints(equated))
      <3>1. equated \in TurnShapes(n)
        BY <2>4 DEF Back
      <3> QED BY <3>1, ProcessConstraintsBack
    <2>6. Back(n, e, r, ProcessConstraints(equated))
      <3>1. Back(n, e, r, start)
        BY <2>3, BackFurther, Zenon
      <3>2. Back(n, e, r, equated)
        BY <3>1, <2>4, BackFurther, Zenon
      <3> QED BY <3>2, <2>5, BackFurther, Zenon
    <2> QED BY <2>6 DEF Round, MergedIf, TightenedOnce, start, equated
  <1>6. RoundBackLoop!Course(after, a, r, rounds)
    BY <1>0, <1>2, Zenon DEF RoundBackLoop!Course, RoundBackStep
  <1>7. \A k \in 0 .. rounds : RoundBackGood(a, after[k], k)
    BY <1>4, <1>5, <1>6, RoundBackLoop!CourseKeeps
  <1>8. rounds \in 0 .. rounds
    OBVIOUS
  <1> QED BY <1>0, <1>3, <1>7, <1>8, Zenon DEF RoundBackGood

-----------------------------------------------------------------------------
(* The way back through the preparation *)

\* A query under preparation, of which only the shape is known
Draft(m, E, C) ==
    [n : {m}, eqs : Seq(E), cons : Seq(C), box : BoxOver(m), inputs : Seq(Nat), outputs : Seq(Nat)]

\* A larger set of equations, or of constraints
LEMMA DraftGrows ==
    ASSUME NEW m, NEW E, NEW C, NEW F, NEW D, E \subseteq F, C \subseteq D, NEW x \in Draft(m, E, C)
    PROVE  x \in Draft(m, F, D)
  <1>1. x.eqs \in Seq(F) /\ x.cons \in Seq(D)
    BY DEF Draft
  <1> QED BY <1>1 DEF Draft

\* The first values of an assignment are a point, with the same sums.
Cut(e, m) == [v \in Variables(m) |-> e[v]]
LEMMA SumCut ==
    ASSUME NEW m \in Nat, NEW e \in Assignments, NEW eq \in Equations(m)
    PROVE  Cut(e, m) \in Point(m) /\ SumAt(eq, Cut(e, m)) = SumAt(eq, e) /\ SumAt(eq, e) \in Int
  <1> DEFINE p == Cut(e, m)
             len == Len(eq.addends)
             f == [i \in DOMAIN eq.addends |-> eq.addends[i][1] * p[eq.addends[i][2]]]
             h == [i \in DOMAIN eq.addends |-> eq.addends[i][1] * e[eq.addends[i][2]]]
  <1>0. eq.addends \in Seq(Int \X Variables(m))
    BY DEF Equations
  <1>1. len \in Nat /\ DOMAIN eq.addends = 1 .. len /\ \A i \in 1 .. len : eq.addends[i][1] \in Int /\ eq.addends[i][2] \in Variables(m)
    BY <1>0
  <1>2. p \in Point(m) /\ \A v \in Variables(m) : p[v] \in Int /\ e[v] = p[v]
    BY DEF Cut, Point, Variables, Assignments
  <1> HIDE DEF p
  <1>3. Numbers(f, len) /\ \A i \in 1 .. len : f[i] = h[i]
    BY <1>1, <1>2, TimesType, Zenon DEF Numbers
  <1>4. SumAt(eq, p) = Plus(f, len) /\ SumAt(eq, e) = Plus(h, len)
    BY DEF SumAt
  <1> HIDE DEF f, h
  <1>5. Plus(f, len) = Plus(h, len) /\ Plus(f, len) \in Int
    BY <1>3, SumSame, SumTyped
  <1> QED BY <1>2, <1>4, <1>5 DEF p

\* A new variable, and its bounds
LEMMA NewVariableBack ==
    ASSUME NEW m \in Nat, NEW e \in Assignments, NEW E, NEW C, NEW x \in Draft(m, E, C), NEW l \in Int, NEW u \in Int
    PROVE  /\ NewVariable(x, l, u) \in Draft(m + 1, E, C)
           /\ NewVariable(x, l, u).eqs = x.eqs /\ NewVariable(x, l, u).cons = x.cons /\ x.n = m
           /\ Inside(e, NewVariable(x, l, u).box) => Inside(e, x.box) /\ l <= e[m] /\ e[m] <= u
  <1> DEFINE b == x.box
             box == WithBounds(b, m, l, u)
             k == m + 1
             y == NewVariable(x, l, u)
  <1>1. x.n = m /\ b \in BoxOver(m)
    BY DEF Draft
  <1>2. m \in Variables(k) /\ Variables(k) = Variables(m) \cup {m} /\ m \notin Variables(m) /\ k \in Nat
    BY DEF Variables
  <1>3. DOMAIN b = Variables(m) \X {"LB", "UB"} /\ \A j \in DOMAIN b : b[j] \in Int /\ j[1] \in Variables(m)
    BY <1>1 DEF BoxOver, Variables
  <1>4. DOMAIN box = Variables(k) \X {"LB", "UB"}
    BY <1>2, <1>3 DEF WithBounds
  <1>5. /\ \A j \in DOMAIN b : j \in DOMAIN box /\ box[j] = b[j]
        /\ <<m, "LB">> \in DOMAIN box /\ box[<<m, "LB">>] = l
        /\ <<m, "UB">> \in DOMAIN box /\ box[<<m, "UB">>] = u
    BY <1>2, <1>3 DEF WithBounds
  <1>6. box = [j \in DOMAIN box |-> box[j]] /\ \A j \in DOMAIN box : box[j] \in Int
    BY <1>3 DEF WithBounds
  <1>7. y = [x EXCEPT !.n = k, !.box = box]
    BY <1>1 DEF NewVariable, Draft
  <1> HIDE DEF box
  <1>8. box \in BoxOver(k)
    BY <1>4, <1>6 DEF BoxOver, Variables
  <1> HIDE DEF y, k
  <1>9. y \in Draft(k, E, C) /\ y.eqs = x.eqs /\ y.cons = x.cons /\ y.box = box
    BY <1>7, <1>8, Zenon DEF Draft
  <1>10. ASSUME Inside(e, box) PROVE Inside(e, b) /\ l <= e[m] /\ e[m] <= u
    <2>1. Inside(e, b)
      BY <1>5, <1>10 DEF Inside
    <2>2. Respects(e, [key |-> <<m, "LB">>, value |-> l]) /\ Respects(e, [key |-> <<m, "UB">>, value |-> u])
      BY <1>5, <1>10 DEF Inside
    <2>3. e[m] >= l /\ e[m] <= u /\ e[m] \in Int
      BY <2>2 DEF Respects, Assignments
    <2> QED BY <2>1, <2>3
  <1> QED BY <1>1, <1>9, <1>10 DEF y, k

\* An equality of an auxiliary variable of the right sign says what the inequality said.
MadeEqual(eq, m) == [eq EXCEPT !.type = "EQ", !.addends = Append(@, <<1, m>>)]
RightSign(eq, m, e) == (eq.type = "GE" => e[m] <= 0) /\ (eq.type = "LE" => e[m] >= 0)
LEMMA EqualityBack ==
    ASSUME NEW m \in Nat, NEW e \in Assignments, NEW eq \in Equations(m), eq.type # "EQ", RightSign(eq, m, e)
    PROVE  MadeEqual(eq, m) \in Equalities(m + 1) /\ (EqHolds(MadeEqual(eq, m), e) => EqHolds(eq, e))
  <1>0. (eq.type = "GE" => e[m] <= 0) /\ (eq.type = "LE" => e[m] >= 0)
    BY DEF RightSign
  <1>01. PICK made : made = MadeEqual(eq, m)
    OBVIOUS
  <1> DEFINE k == m + 1
             p == Cut(e, k)
  <1>1. m \in Variables(k) /\ Variables(m) \subseteq Variables(k) /\ k \in Nat
    BY DEF Variables
  <1>2. eq.addends \in Seq(Int \X Variables(k)) /\ eq.scalar \in Int /\ eq.type \in {"GE", "LE"}
    BY <1>1 DEF Equations
  <1>3. eq \in Equations(k)
    BY <1>2 DEF Equations
  <1>4. made.addends = Append(eq.addends, <<1, m>>) /\ made.type = "EQ" /\ made.scalar = eq.scalar
    BY <1>01 DEF Equations, MadeEqual
  <1>5. Append(eq.addends, <<1, m>>) \in Seq(Int \X Variables(k))
    BY <1>1, <1>2
  <1>6. made \in Equalities(k)
    BY <1>01, <1>2, <1>5, Zenon DEF Equations, Equalities, MadeEqual
  <1>7. made \in Equations(k)
    BY <1>6 DEF Equalities, Equations
  <1> HIDE DEF k
  <1>8. /\ p \in Point(k) /\ SumAt(eq, p) = SumAt(eq, e) /\ SumAt(made, p) = SumAt(made, e)
        /\ SumAt(eq, e) \in Int /\ p[m] = e[m]
    <2>1. p[m] = e[m]
      BY <1>1 DEF Cut
    <2> HIDE DEF p
    <2> QED BY <1>1, <1>3, <1>7, <2>1, SumCut DEF p
  <1> HIDE DEF p
  <1>9. SumAt(made, e) = SumAt(eq, e) + e[m]
    <2>1. \A new : new.addends = Append(eq.addends, <<1, m>>) => SumAt(new, p) = SumAt(eq, p) + p[m]
      BY <1>1, <1>3, <1>8, SumAppend
    <2>2. SumAt(made, p) = SumAt(eq, p) + p[m]
      BY <1>4, <2>1
    <2> QED BY <1>8, <2>2
  <1>10. e[m] \in Int
    BY DEF Assignments
  <1>11. ASSUME SumAt(made, e) = made.scalar PROVE EqHolds(eq, e)
    <2>1. (eq.type = "GE" => SumAt(eq, e) >= eq.scalar) /\ (eq.type = "LE" => SumAt(eq, e) <= eq.scalar)
      BY <1>0, <1>2, <1>4, <1>8, <1>9, <1>10, <1>11
    <2> QED BY <1>2, <2>1, Zenon DEF EqHolds
  <1>12. EqHolds(made, e) => EqHolds(eq, e)
    BY <1>6, <1>11, EqualityHolds
  <1> QED BY <1>01, <1>6, <1>12 DEF k

\* Equations up to the i-th are equalities, which say no less than those of q.
EquatedBack(n, e, C, q, m, x, i) ==
    /\ m \in Nat /\ n <= m /\ x \in Draft(m, Equations(m), C)
    /\ x.cons = q.cons /\ Len(x.eqs) = Len(q.eqs)
    /\ \A j \in 1 .. Len(q.eqs) : j <= i => x.eqs[j] \in Equalities(m)
    /\ \A j \in 1 .. Len(q.eqs) : j > i => x.eqs[j] = q.eqs[j]
    /\ Inside(e, x.box) =>
         /\ Inside(e, q.box)
         /\ \A j \in 1 .. Len(q.eqs) : j <= i /\ EqHolds(x.eqs[j], e) => EqHolds(q.eqs[j], e)

\* One more of them
LEMMA AsEqualityBack ==
    ASSUME NEW n \in Nat, NEW e \in Assignments, NEW C, NEW q, Len(q.eqs) \in Nat, NEW m, NEW x, NEW i \in 1 .. Len(q.eqs),
           EquatedBack(n, e, C, q, m, x, i - 1)
    PROVE  \E l : EquatedBack(n, e, C, q, l, AsEquality(x, i), i)
  <1> DEFINE eq == x.eqs[i]
             len == Len(q.eqs)
             made == MadeEqual(eq, m)
             k == m + 1
  <1>1. /\ m \in Nat /\ n <= m /\ x \in Draft(m, Equations(m), C) /\ x.n = m /\ x.eqs \in Seq(Equations(m))
        /\ x.cons = q.cons /\ Len(x.eqs) = len /\ DOMAIN x.eqs = 1 .. len /\ i \in 1 .. len /\ len \in Nat
    BY DEF EquatedBack, Draft
  <1>2. /\ \A j \in 1 .. len : j <= i - 1 => x.eqs[j] \in Equalities(m)
        /\ \A j \in 1 .. len : j > i - 1 => x.eqs[j] = q.eqs[j]
        /\ Inside(e, x.box) =>
             /\ Inside(e, q.box)
             /\ \A j \in 1 .. len : j <= i - 1 /\ EqHolds(x.eqs[j], e) => EqHolds(q.eqs[j], e)
    BY DEF EquatedBack
  <1>3. eq \in Equations(m) /\ eq = q.eqs[i]
    <2>1. i > i - 1
      BY <1>1
    <2> QED BY <1>1, <1>2, <2>1
  <1>4. \A j \in 1 .. len : (j <= i => j = i \/ j <= i - 1) /\ (j > i => j > i - 1 /\ j # i)
    BY <1>1
  <1> HIDE DEF len
  <1>5. CASE eq.type = "EQ"
    <2>1. AsEquality(x, i) = x
      BY <1>5 DEF AsEquality
    <2>2. eq \in Equalities(m)
      BY <1>3, <1>5 DEF Equations, Equalities
    <2>3. EquatedBack(n, e, C, q, m, x, i)
      <3> HIDE DEF eq
      <3>1. eq = x.eqs[i]
        BY DEF eq
      <3> QED BY <1>1, <1>2, <1>3, <1>4, <2>2, <3>1 DEF EquatedBack, len
    <2> QED BY <2>1, <2>3
  <1>6. CASE eq.type # "EQ"
    <2> DEFINE l == IF eq.type = "GE" THEN -Inf ELSE 0
               u == IF eq.type = "GE" THEN 0 ELSE Inf
               y == NewVariable(x, l, u)
               eqs == [x.eqs EXCEPT ![i] = made]
               z == [y EXCEPT !.eqs = eqs]
    <2>1. l \in Int /\ u \in Int
      BY DEF Inf
    <2>2. /\ y \in Draft(k, Equations(m), C) /\ y.eqs = x.eqs /\ y.cons = x.cons
          /\ Inside(e, y.box) => Inside(e, x.box) /\ l <= e[m] /\ e[m] <= u
      <3> HIDE DEF l, u
      <3> QED BY <1>1, <2>1, NewVariableBack
    <2>3. AsEquality(x, i) = z
      <3>1. AsEquality(x, i) = [(IF eq.type = "GE" THEN NewVariable(x, -Inf, 0) ELSE NewVariable(x, 0, Inf)) EXCEPT !.eqs[i] = made]
        BY <1>1, <1>6 DEF AsEquality, MadeEqual
      <3>2. AsEquality(x, i) = [y EXCEPT !.eqs[i] = made]
        BY <3>1
      <3> HIDE DEF y, made
      <3> QED BY <2>2, <3>2 DEF Draft
    <2>4. Inside(e, y.box) => RightSign(eq, m, e)
      <3>1. eq.type \in {"GE", "LE"} /\ e[m] \in Int
        BY <1>1, <1>3, <1>6, Zenon DEF Equations, Assignments
      <3> HIDE DEF y
      <3> QED BY <2>2, <3>1 DEF Inf, RightSign
    <2>5. made \in Equalities(k)
      <3>1. \E d \in Assignments : RightSign(eq, m, d)
        <4>1. [v \in Nat |-> 0] \in Assignments
          BY DEF Assignments
        <4> QED BY <1>1, <4>1 DEF RightSign
      <3> HIDE DEF eq
      <3> QED BY <1>1, <1>3, <1>6, <3>1, EqualityBack
    <2>6. Inside(e, y.box) => (EqHolds(made, e) => EqHolds(eq, e))
      <3>1. SUFFICES ASSUME Inside(e, y.box) PROVE EqHolds(made, e) => EqHolds(eq, e)
        OBVIOUS
      <3>2. RightSign(eq, m, e)
        BY <2>4, <3>1
      <3> HIDE DEF eq, y
      <3> QED BY <1>1, <1>3, <1>6, <3>2, EqualityBack
    <2> HIDE DEF y, made, l, u, eq
    <2>7. /\ eqs \in Seq(Equations(k)) /\ Len(eqs) = len /\ eqs[i] = made /\ \A j \in 1 .. len : j # i => eqs[j] = x.eqs[j]
      <3>1. Variables(m) \subseteq Variables(k) /\ m \in Nat
        BY <1>1 DEF Variables
      <3>2. Equations(m) \subseteq Equations(k)
        <4> HIDE DEF k
        <4> QED BY <3>1 DEF Equations
      <3> HIDE DEF k
      <3>3. made \in Equations(k)
        BY <2>5 DEF Equalities, Equations
      <3>4. x.eqs \in Seq(Equations(k))
        BY <1>1, <3>2
      <3> QED BY <1>1, <3>3, <3>4
    <2>8. Equalities(m) \subseteq Equalities(k)
      <3>1. Variables(m) \subseteq Variables(k)
        BY <1>1 DEF Variables
      <3> HIDE DEF k
      <3> QED BY <3>1 DEF Equalities
    <2>9. k \in Nat /\ n <= k
      BY <1>1
    <2> HIDE DEF k, eqs
    <2>10. z \in Draft(k, Equations(k), C) /\ z.eqs = eqs /\ z.cons = x.cons /\ z.box = y.box
      BY <2>2, <2>7, Zenon DEF Draft
    <2> HIDE DEF z
    <2>11. /\ \A j \in 1 .. len : j <= i => z.eqs[j] \in Equalities(k)
           /\ \A j \in 1 .. len : j > i => z.eqs[j] = q.eqs[j]
      BY <1>2, <1>4, <2>5, <2>7, <2>8, <2>10
    <2>12. ASSUME Inside(e, z.box)
           PROVE  /\ Inside(e, q.box)
                  /\ \A j \in 1 .. len : j <= i /\ EqHolds(z.eqs[j], e) => EqHolds(q.eqs[j], e)
      BY <1>2, <1>3, <1>4, <2>2, <2>6, <2>7, <2>10, <2>12
    <2>13. EquatedBack(n, e, C, q, k, z, i)
      BY <1>1, <2>7, <2>9, <2>10, <2>11, <2>12 DEF EquatedBack, len
    <2> QED BY <2>3, <2>13
  <1> QED BY <1>5, <1>6

EqualityBackStep(a, x, i) == AsEquality(x, i)
EqualityBackGood(a, x, i) == \E m : EquatedBack(a[1], a[2], a[3], a[4], m, x, i)
EqualityBackLoop == INSTANCE Loops WITH Step <- EqualityBackStep, Good <- EqualityBackGood

\* Equalities within the new bounds say no less than the equations given.
LEMMA EqualitiesBack ==
    ASSUME NEW n \in Nat, NEW e \in Assignments, NEW C, NEW q \in Draft(n, Equations(n), C)
    PROVE  \E m \in Nat : /\ n <= m /\ MakeAllEquationsEqualities(q) \in Draft(m, Equalities(m), C)
                          /\ MakeAllEquationsEqualities(q).cons = q.cons
                          /\ Fits(e, MakeAllEquationsEqualities(q)) => Fits(e, q)
  <1> DEFINE len == Len(q.eqs)
             a == <<n, e, C, q>>
             after[i \in 0 .. len] == IF i = 0 THEN q ELSE AsEquality(after[i - 1], i)
  <1>1. q.eqs \in Seq(Equations(n)) /\ len \in Nat /\ DOMAIN q.eqs = 1 .. len
    BY DEF Draft
  <1>2. PICK h : EqualityBackLoop!Course(h, a, q, len)
    BY <1>1, EqualityBackLoop!CourseExists, Zenon
  <1>3. after = [i \in 0 .. len |-> IF i = 0 THEN q ELSE AsEquality(after[i - 1], i)]
    BY <1>2, Zenon DEF EqualityBackLoop!Course, EqualityBackStep
  <1>4. MakeAllEquationsEqualities(q) = after[len]
    BY DEF MakeAllEquationsEqualities
  <1>0. a[1] = n /\ a[2] = e /\ a[3] = C /\ a[4] = q
    OBVIOUS
  <1> HIDE DEF after, a
  <1>5. EqualityBackLoop!Started(a, q, len)
    <2>1. \A j \in 1 .. len : ~(j <= 0)
      BY <1>1
    <2>2. EquatedBack(n, e, C, q, n, q, 0)
      BY <1>1, <2>1 DEF EquatedBack
    <2> QED BY <1>0, <1>1, <2>2 DEF EqualityBackLoop!Started, EqualityBackGood
  <1>6. EqualityBackLoop!Kept(a, len)
    <2> SUFFICES ASSUME NEW i \in 1 .. len, NEW x, NEW m, EquatedBack(n, e, C, q, m, x, i - 1)
                 PROVE  \E l : EquatedBack(n, e, C, q, l, AsEquality(x, i), i)
      BY <1>0 DEF EqualityBackLoop!Kept, EqualityBackGood, EqualityBackStep
    <2> QED BY <1>1, AsEqualityBack
  <1>7. EqualityBackLoop!Course(after, a, q, len)
    BY <1>0, <1>3, Zenon DEF EqualityBackLoop!Course, EqualityBackStep
  <1> HIDE DEF len
  <1>8. \A i \in 0 .. len : EqualityBackGood(a, after[i], i)
    BY <1>5, <1>6, <1>7, EqualityBackLoop!CourseKeeps
  <1>9. EqualityBackGood(a, after[len], len)
    BY <1>1, <1>8
  <1> DEFINE x == after[len]
  <1>10. PICK m : EquatedBack(n, e, C, q, m, x, len)
    BY <1>0, <1>9 DEF EqualityBackGood
  <1> HIDE DEF x
  <1>11. /\ m \in Nat /\ n <= m /\ x \in Draft(m, Equations(m), C) /\ x.eqs \in Seq(Equations(m)) /\ Len(x.eqs) = len
         /\ x.cons = q.cons /\ \A j \in 1 .. len : j <= len
    BY <1>1, <1>10 DEF EquatedBack, Draft, len
  <1>12. \A j \in 1 .. len : x.eqs[j] \in Equalities(m)
    BY <1>10, <1>11 DEF EquatedBack, len
  <1>13. x.eqs \in Seq(Equalities(m)) /\ DOMAIN x.eqs = 1 .. len
    BY <1>1, <1>11, <1>12
  <1>14. x \in Draft(m, Equalities(m), C)
    BY <1>11, <1>13 DEF Draft
  <1>15. Fits(e, x) => Fits(e, q)
    BY <1>1, <1>10, <1>11, <1>13 DEF EquatedBack, Fits, Satisfies, len
  <1> QED BY <1>4, <1>11, <1>14, <1>15 DEF x

\* Consolidated equations say what the equations said.
LEMMA ConsolidationBack ==
    ASSUME NEW m \in Nat, NEW e \in Assignments, NEW C, NEW q \in Draft(m, Equalities(m), C)
    PROVE  /\ RemoveRedundantAddends(q) \in Draft(m, Equalities(m), C) /\ RemoveRedundantAddends(q).cons = q.cons
           /\ Fits(e, RemoveRedundantAddends(q)) => Fits(e, q)
  <1> DEFINE eqs == [i \in DOMAIN q.eqs |-> Consolidated(q.eqs[i])]
             r == RemoveRedundantAddends(q)
  <1>1. q.eqs \in Seq(Equalities(m))
    BY DEF Draft
  <1>2. ASSUME NEW eq \in Equalities(m)
        PROVE  Consolidated(eq) \in Equalities(m) /\ (EqHolds(Consolidated(eq), e) => EqHolds(eq, e))
    <2> DEFINE new == Consolidated(eq)
               p == Cut(e, m)
    <2>1. eq \in Equations(m)
      BY DEF Equalities, Equations
    <2>2. p \in Point(m) /\ SumAt(eq, p) = SumAt(eq, e)
      BY <2>1, SumCut
    <2> HIDE DEF p
    <2>3. new \in Equalities(m) /\ new.scalar = eq.scalar /\ SumAt(new, p) = SumAt(eq, p)
      BY <2>2, ConsolidatedSum
    <2> HIDE DEF new
    <2>4. new \in Equations(m)
      BY <2>3 DEF Equalities, Equations
    <2>5. SumAt(new, p) = SumAt(new, e)
      BY <2>4, SumCut DEF p
    <2>6. EqHolds(new, e) => EqHolds(eq, e)
      BY <2>2, <2>3, <2>5, EqualityHolds, Zenon
    <2> QED BY <2>3, <2>6 DEF new
  <1>3. eqs \in Seq(Equalities(m)) /\ DOMAIN eqs = DOMAIN q.eqs /\ \A j \in DOMAIN q.eqs : eqs[j] = Consolidated(q.eqs[j]) /\ q.eqs[j] \in Equalities(m)
    BY <1>1, <1>2
  <1>4. r = [q EXCEPT !.eqs = eqs]
    BY DEF RemoveRedundantAddends
  <1> HIDE DEF eqs, r
  <1>5. r \in Draft(m, Equalities(m), C) /\ r.cons = q.cons /\ r.box = q.box /\ r.eqs = eqs
    BY <1>3, <1>4, Zenon DEF Draft
  <1>6. Fits(e, r) => Fits(e, q)
    BY <1>2, <1>3, <1>5 DEF Fits, Satisfies
  <1> QED BY <1>5, <1>6 DEF r

-----------------------------------------------------------------------------
(* The way back through the auxiliary variables of constraints *)

\* The shapes of constraints as they are given, without auxiliary variables; no max has its
\* own result as an element.
NewReluShapes(n) ==
    [kind : {"relu"}, b : Variables(n), f : Variables(n), aux : {None}, state : {<<>>}, obsolete : BOOLEAN]
NewAbsShapes(n) ==
    [kind : {"abs"}, b : Variables(n), f : Variables(n), posAux : {None}, negAux : {None}, state : {<<>>}, obsolete : BOOLEAN]
NewMaxShapes(n) ==
    {c \in [kind : {"max"}, f : Variables(n), elements : SUBSET Variables(n), aux : {<<>>}, maxValueOfEliminated : Int,
            state : MaxStates(n), obsolete : BOOLEAN] : c.f \notin c.elements /\ c.state.elements \subseteq c.elements}
NewShapes(n) ==
    NewReluShapes(n) \cup NewAbsShapes(n) \cup NewMaxShapes(n) \cup SignShapes(n) \cup RoundingShapes(n) \cup DisjShapes(n)
Given(n) == Draft(n, Equations(n), NewShapes(n))

\* What says something of variables says it of them among more.
LEMMA ShapesGrow ==
    ASSUME NEW m \in Nat, NEW k \in Nat, m <= k
    PROVE  Variables(m) \subseteq Variables(k) /\ Equalities(m) \subseteq Equalities(k) /\ Shapes(m) \subseteq Shapes(k)
  <1>1. Variables(m) \subseteq Variables(k)
    BY DEF Variables
  <1>2. Equalities(m) \subseteq Equalities(k)
    BY <1>1 DEF Equalities
  <1>3. ReluShapes(m) \subseteq ReluShapes(k) /\ AbsShapes(m) \subseteq AbsShapes(k)
    BY <1>1 DEF ReluShapes, AbsShapes
  <1>4. SignShapes(m) \subseteq SignShapes(k) /\ RoundingShapes(m) \subseteq RoundingShapes(k)
    BY <1>1 DEF SignShapes, RoundingShapes
  <1>5. MaxShapes(m) \subseteq MaxShapes(k)
    <2>1. AuxiliaryMaps(m) \subseteq AuxiliaryMaps(k)
      <3> SUFFICES ASSUME NEW E \in SUBSET Variables(m), NEW a \in [E -> Variables(m)] PROVE a \in AuxiliaryMaps(k)
        BY DEF AuxiliaryMaps
      <3>1. E \in SUBSET Variables(k) /\ a \in [E -> Variables(k)]
        BY <1>1
      <3> QED BY <3>1 DEF AuxiliaryMaps
    <2>2. MaxStates(m) \subseteq MaxStates(k)
      BY <1>1 DEF MaxStates
    <2> QED BY <1>1, <2>1, <2>2 DEF MaxShapes
  <1>6. DisjShapes(m) \subseteq DisjShapes(k)
    <2>1. Tightenings(m) \subseteq Tightenings(k)
      BY <1>1 DEF Tightenings
    <2>2. DisjStates(m) \subseteq DisjStates(k)
      BY <2>1 DEF DisjStates
    <2> QED BY <2>1, <2>2 DEF DisjShapes
  <1> QED BY <1>1, <1>2, <1>3, <1>4, <1>5, <1>6 DEF Shapes

\* A new variable of a query of equalities
LEMMA NewVariableFits ==
    ASSUME NEW m \in Nat, NEW e \in Assignments, NEW C, NEW x \in Draft(m, Equalities(m), C), NEW l \in Int, NEW u \in Int
    PROVE  /\ NewVariable(x, l, u) \in Draft(m + 1, Equalities(m + 1), C)
           /\ NewVariable(x, l, u).cons = x.cons /\ x.n = m
           /\ Fits(e, NewVariable(x, l, u)) => Fits(e, x) /\ l <= e[m]
  <1> DEFINE y == NewVariable(x, l, u)
             k == m + 1
  <1>1. /\ y \in Draft(k, Equalities(m), C) /\ y.eqs = x.eqs /\ y.cons = x.cons /\ x.n = m
        /\ Inside(e, y.box) => Inside(e, x.box) /\ l <= e[m] /\ e[m] <= u
    BY NewVariableBack
  <1>2. Equalities(m) \subseteq Equalities(k) /\ k \in Nat
    BY ShapesGrow
  <1> HIDE DEF y, k
  <1>3. C \subseteq C
    OBVIOUS
  <1>4. y \in Draft(k, Equalities(k), C)
    BY <1>1, <1>2, <1>3, DraftGrows
  <1> QED BY <1>1, <1>4 DEF Fits, Satisfies, y, k

\* One more equation
LEMMA AddEquationFits ==
    ASSUME NEW m, NEW e, NEW E, NEW C, NEW x \in Draft(m, E, C), NEW addends, NEW scalar,
           [type |-> "EQ", addends |-> addends, scalar |-> scalar] \in E
    PROVE  /\ AddEquation(x, addends, scalar) \in Draft(m, E, C)
           /\ AddEquation(x, addends, scalar).cons = x.cons
           /\ Fits(e, AddEquation(x, addends, scalar)) =>
                Fits(e, x) /\ EqHolds([type |-> "EQ", addends |-> addends, scalar |-> scalar], e)
  <1> DEFINE eq == [type |-> "EQ", addends |-> addends, scalar |-> scalar]
             eqs == Append(x.eqs, eq)
             y == AddEquation(x, addends, scalar)
  <1>0. eq \in E
    OBVIOUS
  <1>1. y = [x EXCEPT !.eqs = eqs]
    BY DEF AddEquation
  <1> HIDE DEF eq, y
  <1>2. x.eqs \in Seq(E)
    BY DEF Draft
  <1>3. /\ eqs \in Seq(E) /\ \A j \in DOMAIN x.eqs : j \in DOMAIN eqs /\ eqs[j] = x.eqs[j]
        /\ Len(x.eqs) + 1 \in DOMAIN eqs /\ eqs[Len(x.eqs) + 1] = eq
    BY <1>0, <1>2
  <1> HIDE DEF eqs
  <1>4. y \in Draft(m, E, C) /\ y.cons = x.cons /\ y.eqs = eqs /\ y.box = x.box
    BY <1>1, <1>3, Zenon DEF Draft
  <1>5. Fits(e, y) => Fits(e, x) /\ EqHolds(eq, e)
    BY <1>3, <1>4 DEF Fits, Satisfies
  <1> QED BY <1>4, <1>5 DEF y, eq

\* One constraint replaced
LEMMA ReplacedFits ==
    ASSUME NEW m, NEW e, NEW E, NEW C, NEW x \in Draft(m, E, C), NEW i \in DOMAIN x.cons, NEW c,
           NEW D, C \subseteq D, c \in D, NEW cons, cons = [x.cons EXCEPT ![i] = c],
           NEW y, y = [x EXCEPT !.cons = cons]
    PROVE  y \in Draft(m, E, D) /\ y.cons = cons /\ (Fits(e, y) => Fits(e, x))
  <1>1. x.cons \in Seq(D)
    <2>1. x.cons \in Seq(C)
      BY DEF Draft
    <2> QED BY <2>1
  <1>2. cons \in Seq(D)
    BY <1>1
  <1>3. y \in Draft(m, E, D) /\ y.cons = cons /\ y.eqs = x.eqs /\ y.box = x.box
    BY <1>2, Zenon DEF Draft
  <1> QED BY <1>3 DEF Fits

\* The equations that define auxiliary variables: u + s v - w = 0
Defining(u, s, v, w) == <<<<1, u>>, <<s, v>>, <<-1, w>>>>
LEMMA DefiningEquation ==
    ASSUME NEW m \in Nat, NEW e \in Assignments, NEW u \in Variables(m), NEW v \in Variables(m), NEW w \in Variables(m),
           NEW s \in {1, -1}
    PROVE  /\ [type |-> "EQ", addends |-> Defining(u, s, v, w), scalar |-> 0] \in Equalities(m)
           /\ EqHolds([type |-> "EQ", addends |-> Defining(u, s, v, w), scalar |-> 0], e) => e[w] = e[u] + s * e[v]
  <1> DEFINE adds == Defining(u, s, v, w)
             eq == [type |-> "EQ", addends |-> adds, scalar |-> 0]
             f == [i \in DOMAIN adds |-> adds[i][1] * e[adds[i][2]]]
  <1>1. adds \in Seq(Int \X Variables(m)) /\ DOMAIN adds = 1 .. 3 /\ Len(adds) = 3
    BY DEF Defining
  <1>2. e[u] \in Int /\ e[v] \in Int /\ e[w] \in Int /\ s * e[v] \in Int
    <2>1. e[u] \in Int /\ e[v] \in Int /\ e[w] \in Int
      BY DEF Assignments, Variables
    <2> QED BY <2>1
  <1>3. f[1] = 1 * e[u] /\ f[2] = s * e[v] /\ f[3] = (-1) * e[w]
    BY <1>1 DEF Defining
  <1>4. f[1] = e[u] /\ f[3] = -e[w]
    BY <1>2, <1>3
  <1>5. SumAt(eq, e) = Plus(f, 3)
    BY <1>1, Zenon DEF SumAt
  <1>6. eq \in Equalities(m)
    BY <1>1 DEF Equalities
  <1> HIDE DEF f
  <1>7. Numbers(f, 3)
    BY <1>2, <1>3, <1>4 DEF Numbers
  <1>8. PICK g : Partial(g, f, 3)
    BY <1>7, SumCourse
  <1>9. Plus(f, 3) = f[1] + f[2] + f[3]
    <2>1. g[0] = 0 /\ g[1] = g[1 - 1] + f[1] /\ g[2] = g[2 - 1] + f[2] /\ g[3] = g[3 - 1] + f[3] /\ Plus(f, 3) = g[3]
      BY <1>8 DEF Partial
    <2> QED BY <1>2, <1>3, <1>4, <2>1
  <1>10. EqHolds(eq, e) => SumAt(eq, e) = 0
    <2>1. eq.scalar = 0
      OBVIOUS
    <2> HIDE DEF eq
    <2> QED BY <1>6, <2>1, EqualityHolds
  <1> HIDE DEF eq
  <1>11. EqHolds(eq, e) => e[w] = e[u] + s * e[v]
    <2>1. SUFFICES ASSUME EqHolds(eq, e) PROVE e[w] = e[u] + s * e[v]
      OBVIOUS
    <2>2. e[u] + s * e[v] + (-e[w]) = 0
      BY <1>3, <1>4, <1>5, <1>9, <1>10, <2>1
    <2> QED BY <1>2, <2>2
  <1> QED BY <1>6, <1>11 DEF eq

\* Constraint c is d, but for auxiliary variables.
Completed(c, d) ==
    /\ c.kind = d.kind
    /\ c.kind \in {"relu", "abs"} => c.b = d.b /\ c.f = d.f
    /\ c.kind = "max" => c.f = d.f /\ c.elements = d.elements /\ c.maxValueOfEliminated = d.maxValueOfEliminated
    /\ c.kind \notin {"relu", "abs", "max"} => c = d

\* The result of a max is no less than its elements.
Dominates(e, c) == c.kind = "max" => \A v \in c.elements : e[c.f] >= e[v]

\* The shapes of constraints of which some have their auxiliary variables
Mixed(n, m) == Shapes(m) \cup NewShapes(n)

\* Constraints of q up to the i-th have their auxiliary variables, and nothing is gained.
DeclaredBack(n, e, q, m, x, i) ==
    /\ m \in Nat /\ n <= m /\ x \in Draft(m, Equalities(m), Mixed(n, m)) /\ Len(x.cons) = Len(q.cons)
    /\ \A j \in 1 .. Len(q.cons) : j <= i => x.cons[j] \in Shapes(m) /\ Completed(x.cons[j], q.cons[j])
    /\ \A j \in 1 .. Len(q.cons) : j > i => x.cons[j] = q.cons[j]
    /\ Fits(e, x) => Fits(e, q) /\ \A j \in 1 .. Len(q.cons) : j <= i => Dominates(e, q.cons[j])

\* It is the turn of the i-th constraint.
Turn(n, e, q, m, x, i) ==
    n \in Nat /\ Len(q.cons) \in Nat /\ i \in 1 .. Len(q.cons) /\ DeclaredBack(n, e, q, m, x, i - 1)

\* What is known of the query when the turn of its i-th constraint comes
LEMMA DeclaredTurn ==
    ASSUME NEW n, NEW e, NEW q, NEW m, NEW x, NEW i, Turn(n, e, q, m, x, i)
    PROVE  /\ m \in Nat /\ n <= m /\ x \in Draft(m, Equalities(m), Mixed(n, m))
           /\ x.cons \in Seq(Mixed(n, m)) /\ i \in DOMAIN x.cons /\ x.cons[i] = q.cons[i] /\ x.n = m
           /\ x.box \in BoxOver(m) /\ Variables(n) \subseteq Variables(m) /\ n \in Nat
  <1>0. n \in Nat /\ Len(q.cons) \in Nat /\ i \in 1 .. Len(q.cons) /\ DeclaredBack(n, e, q, m, x, i - 1)
    BY DEF Turn
  <1>1. m \in Nat /\ n <= m /\ x \in Draft(m, Equalities(m), Mixed(n, m)) /\ Len(x.cons) = Len(q.cons)
    BY <1>0 DEF DeclaredBack
  <1>2. x.cons \in Seq(Mixed(n, m)) /\ x.n = m /\ x.box \in BoxOver(m)
    BY <1>1 DEF Draft
  <1>3. i \in DOMAIN x.cons /\ i > i - 1
    BY <1>0, <1>1, <1>2
  <1>4. Variables(n) \subseteq Variables(m)
    BY <1>0, <1>1, ShapesGrow
  <1> QED BY <1>0, <1>1, <1>2, <1>3, <1>4 DEF DeclaredBack

\* The i-th constraint gets its auxiliary variables, and the query equations for them.
LEMMA DeclaredFurther ==
    ASSUME NEW n, NEW e, NEW q, NEW m, NEW x, NEW i, Turn(n, e, q, m, x, i),
           NEW k \in Nat, m <= k, NEW D, NEW y \in Draft(k, Equalities(k), D), NEW c \in Shapes(k), Completed(c, q.cons[i]),
           y.cons = [x.cons EXCEPT ![i] = c], Fits(e, y) => Fits(e, x) /\ Dominates(e, q.cons[i])
    PROVE  DeclaredBack(n, e, q, k, y, i)
  <1> DEFINE F == Mixed(n, k)
             len == Len(q.cons)
  <1>1. /\ m \in Nat /\ n <= m /\ x.cons \in Seq(Mixed(n, m)) /\ i \in DOMAIN x.cons /\ x.cons[i] = q.cons[i]
    BY DeclaredTurn
  <1>0. n \in Nat /\ len \in Nat /\ i \in 1 .. len /\ DeclaredBack(n, e, q, m, x, i - 1)
    BY DEF Turn
  <1>2. /\ Len(x.cons) = len
        /\ \A j \in 1 .. len : j <= i - 1 => x.cons[j] \in Shapes(m) /\ Completed(x.cons[j], q.cons[j])
        /\ \A j \in 1 .. len : j > i - 1 => x.cons[j] = q.cons[j]
        /\ Fits(e, x) => Fits(e, q) /\ \A j \in 1 .. len : j <= i - 1 => Dominates(e, q.cons[j])
    BY <1>0 DEF DeclaredBack
  <1>3. Shapes(m) \subseteq Shapes(k) /\ n <= k
    BY <1>0, <1>1, ShapesGrow
  <1>4. x.cons \in Seq(F) /\ c \in F
    <2>1. Mixed(n, m) \subseteq F
      BY <1>3 DEF Mixed
    <2> HIDE DEF F
    <2>2. x.cons \in Seq(F)
      BY <1>1, <2>1
    <2> QED BY <2>2 DEF F, Mixed
  <1> HIDE DEF F
  <1>5. /\ y.cons \in Seq(F) /\ Len(y.cons) = len /\ y.cons[i] = c
        /\ \A j \in 1 .. len : j # i => y.cons[j] = x.cons[j]
    BY <1>1, <1>2, <1>4
  <1>6. y \in Draft(k, Equalities(k), F)
    BY <1>5, Zenon DEF Draft
  <1>7. \A j \in 1 .. len : (j <= i => j = i \/ j <= i - 1) /\ (j > i => j > i - 1 /\ j # i) /\ (j <= i - 1 => j # i)
    BY <1>0
  <1> HIDE DEF len
  <1>8. \A j \in 1 .. len : j <= i => y.cons[j] \in Shapes(k) /\ Completed(y.cons[j], q.cons[j])
    BY <1>2, <1>3, <1>5, <1>7
  <1>9. \A j \in 1 .. len : j > i => y.cons[j] = q.cons[j]
    BY <1>2, <1>5, <1>7
  <1>10. Fits(e, y) => Fits(e, q) /\ \A j \in 1 .. len : j <= i => Dominates(e, q.cons[j])
    BY <1>2, <1>7
  <1> QED BY <1>3, <1>5, <1>6, <1>8, <1>9, <1>10 DEF DeclaredBack, F, len

\* aux = f - b of a relu
LEMMA WithReluAuxBack ==
    ASSUME NEW n, NEW e \in Assignments, NEW q, NEW m, NEW x, NEW i, Turn(n, e, q, m, x, i), q.cons[i] \in NewReluShapes(n)
    PROVE  DeclaredBack(n, e, q, m + 1, WithReluAux(x, i), i)
  <1> DEFINE c == x.cons[i]
             lb == Lb(x.box, c.b)
             u == IF lb > 0 THEN 0 ELSE -lb
             y == NewVariable(x, 0, u)
             adds == Defining(c.f, -1, c.b, m)
             z == AddEquation(y, adds, 0)
             k == m + 1
             C == Mixed(n, m)
             told == [c EXCEPT !.aux = m]
             D == C \cup {told}
             cons == [x.cons EXCEPT ![i] = told]
             r == [z EXCEPT !.cons = cons]
  <1>1. /\ m \in Nat /\ x \in Draft(m, Equalities(m), C) /\ i \in DOMAIN x.cons /\ c = q.cons[i] /\ x.n = m
        /\ x.box \in BoxOver(m) /\ Variables(n) \subseteq Variables(m)
    BY DeclaredTurn
  <1>2. c.b \in Variables(n) /\ c.f \in Variables(n) /\ c \in NewReluShapes(n)
    BY <1>1 DEF NewReluShapes
  <1>3. u \in Int
    <2>1. lb \in Int
      BY <1>1, <1>2 DEF Lb, BoxOver, Variables
    <2> QED BY <2>1
  <1> HIDE DEF u, C
  <1>4. /\ y \in Draft(k, Equalities(k), C) /\ y.cons = x.cons /\ (Fits(e, y) => Fits(e, x))
    <2> HIDE DEF c, adds, told, D, cons
    <2> QED BY <1>1, <1>3, NewVariableFits
  <1>5. k \in Nat /\ m <= k /\ m \in Variables(k) /\ Variables(n) \subseteq Variables(k)
    BY <1>1 DEF Variables
  <1> HIDE DEF y, k
  <1>6. [type |-> "EQ", addends |-> adds, scalar |-> 0] \in Equalities(k)
    <2> HIDE DEF c
    <2> QED BY <1>2, <1>5, DefiningEquation, ZenonT(40)
  <1>7. z \in Draft(k, Equalities(k), C) /\ z.cons = y.cons /\ (Fits(e, z) => Fits(e, y))
    <2> HIDE DEF adds
    <2> QED BY <1>4, <1>6, AddEquationFits
  <1>8. WithReluAux(x, i) = r
    <2>1. WithReluAux(x, i) = [z EXCEPT !.cons[i].aux = m]
      BY <1>1 DEF WithReluAux, u, y, Defining
    <2> HIDE DEF z
    <2> QED BY <1>4, <1>7, <2>1 DEF Draft
  <1>9. told \in Shapes(k) /\ Completed(told, q.cons[i]) /\ Dominates(e, q.cons[i])
    <2>1. told \in ReluShapes(k) /\ told.b = c.b /\ told.f = c.f /\ told.kind = "relu" /\ c.kind = "relu"
      BY <1>2, <1>5 DEF NewReluShapes, ReluShapes
    <2> HIDE DEF told, c
    <2> QED BY <1>1, <2>1 DEF Shapes, Completed, Dominates
  <1>10. r \in Draft(k, Equalities(k), D) /\ r.cons = cons /\ (Fits(e, r) => Fits(e, z))
    <2>1. /\ i \in DOMAIN z.cons /\ C \subseteq D /\ told \in D /\ cons = [z.cons EXCEPT ![i] = told]
          /\ r = [z EXCEPT !.cons = cons]
      <3> HIDE DEF z, told
      <3> QED BY <1>1, <1>4, <1>7
    <2> HIDE DEF z, told, D, cons, r
    <2> QED BY <1>7, <2>1, ReplacedFits
  <1> HIDE DEF r, told, D, z
  <1>11. DeclaredBack(n, e, q, k, r, i)
    BY <1>4, <1>5, <1>7, <1>9, <1>10, DeclaredFurther
  <1> QED BY <1>8, <1>11 DEF k

\* posAux = f - b and negAux = f + b of an absolute value
LEMMA WithAbsAuxBack ==
    ASSUME NEW n, NEW e \in Assignments, NEW q, NEW m, NEW x, NEW i, Turn(n, e, q, m, x, i), q.cons[i] \in NewAbsShapes(n)
    PROVE  DeclaredBack(n, e, q, m + 2, WithAbsAux(x, i), i)
  <1> DEFINE c == x.cons[i]
             u1 == Norm(Ub(x.box, c.f) - Lb(x.box, c.b))
             u2 == Norm(Ub(x.box, c.f) + Ub(x.box, c.b))
             y1 == NewVariable(x, 0, u1)
             y == NewVariable(y1, 0, u2)
             j == m + 1
             k == j + 1
             a1 == Defining(c.f, -1, c.b, m)
             a2 == Defining(c.f, 1, c.b, j)
             z1 == AddEquation(y, a1, 0)
             z == AddEquation(z1, a2, 0)
             C == Mixed(n, m)
             told == [c EXCEPT !.posAux = m, !.negAux = j]
             D == C \cup {told}
             cons == [x.cons EXCEPT ![i] = told]
             r == [z EXCEPT !.cons = cons]
  <1>1. /\ m \in Nat /\ x \in Draft(m, Equalities(m), C) /\ i \in DOMAIN x.cons /\ c = q.cons[i] /\ x.n = m
        /\ x.box \in BoxOver(m) /\ Variables(n) \subseteq Variables(m)
    BY DeclaredTurn
  <1>2. c.b \in Variables(n) /\ c.f \in Variables(n) /\ c \in NewAbsShapes(n)
    BY <1>1 DEF NewAbsShapes
  <1>3. u1 \in Int /\ u2 \in Int
    <2>1. Ub(x.box, c.f) \in Int /\ Ub(x.box, c.b) \in Int /\ Lb(x.box, c.b) \in Int
      BY <1>1, <1>2 DEF Lb, Ub, BoxOver, Variables
    <2>2. Ub(x.box, c.f) - Lb(x.box, c.b) \in Int /\ Ub(x.box, c.f) + Ub(x.box, c.b) \in Int
      BY <2>1
    <2>3. \A v \in Int : Norm(v) \in Int
      BY DEF Norm, Inf
    <2> QED BY <2>2, <2>3
  <1> HIDE DEF u1, u2, C
  <1>4. y1 \in Draft(j, Equalities(j), C) /\ y1.cons = x.cons /\ (Fits(e, y1) => Fits(e, x)) /\ j \in Nat
    BY <1>1, <1>3, NewVariableFits
  <1>5. /\ m <= k /\ k \in Nat /\ m \in Variables(k) /\ j \in Variables(k) /\ Variables(n) \subseteq Variables(k) /\ k = m + 2
    BY <1>1 DEF Variables
  <1> HIDE DEF y1, j
  <1>6. y \in Draft(k, Equalities(k), C) /\ y.cons = y1.cons /\ (Fits(e, y) => Fits(e, y1)) /\ y1.n = j
    BY <1>3, <1>4, NewVariableFits
  <1> HIDE DEF y, k
  <1>7. /\ [type |-> "EQ", addends |-> a1, scalar |-> 0] \in Equalities(k)
        /\ [type |-> "EQ", addends |-> a2, scalar |-> 0] \in Equalities(k)
    <2> HIDE DEF c
    <2> QED BY <1>2, <1>5, DefiningEquation, ZenonT(40)
  <1>8. z1 \in Draft(k, Equalities(k), C) /\ z1.cons = y.cons /\ (Fits(e, z1) => Fits(e, y))
    <2> HIDE DEF a1
    <2> QED BY <1>6, <1>7, AddEquationFits
  <1>9. z \in Draft(k, Equalities(k), C) /\ z.cons = z1.cons /\ (Fits(e, z) => Fits(e, z1))
    <2> HIDE DEF a2, z1
    <2> QED BY <1>7, <1>8, AddEquationFits
  <1>10. WithAbsAux(x, i) = r
    <2>1. WithAbsAux(x, i) = [z EXCEPT !.cons[i].posAux = m, !.cons[i].negAux = m + 1]
      BY <1>1 DEF WithAbsAux, u1, u2, y1, y, Defining, j
    <2> HIDE DEF z
    <2>2. z.cons[i] = c /\ i \in DOMAIN z.cons /\ z.cons = x.cons
      BY <1>1, <1>4, <1>6, <1>8, <1>9
    <2>3. [z EXCEPT !.cons[i].posAux = m, !.cons[i].negAux = m + 1] = [z EXCEPT !.cons = [x.cons EXCEPT ![i] = told]]
      BY <1>9, <2>2, Zenon DEF Draft, j
    <2> QED BY <2>1, <2>3
  <1>11. told \in Shapes(k) /\ Completed(told, q.cons[i]) /\ Dominates(e, q.cons[i])
    <2>1. told \in AbsShapes(k) /\ told.b = c.b /\ told.f = c.f /\ told.kind = "abs" /\ c.kind = "abs"
      BY <1>2, <1>5, Zenon DEF NewAbsShapes, AbsShapes
    <2> HIDE DEF told, c
    <2> QED BY <1>1, <2>1 DEF Shapes, Completed, Dominates
  <1>12. r \in Draft(k, Equalities(k), D) /\ r.cons = cons /\ (Fits(e, r) => Fits(e, z))
    <2>1. /\ i \in DOMAIN z.cons /\ C \subseteq D /\ told \in D /\ cons = [z.cons EXCEPT ![i] = told]
          /\ r = [z EXCEPT !.cons = cons]
      <3> HIDE DEF z, told
      <3> QED BY <1>1, <1>4, <1>6, <1>8, <1>9
    <2> HIDE DEF z, told, D, cons, r
    <2> QED BY <1>9, <2>1, ReplacedFits
  <1> HIDE DEF r, told, D, z, z1
  <1>13. DeclaredBack(n, e, q, k, r, i)
    BY <1>4, <1>5, <1>6, <1>8, <1>9, <1>11, <1>12, DeclaredFurther
  <1> QED BY <1>5, <1>10, <1>13

\* The query y is x with auxiliary variables for the elements in A of its i-th constraint.
ReachingBack(e, x, i, m, A, y) ==
    \E l, a, D : /\ l \in Nat /\ m <= l /\ y \in Draft(l, Equalities(l), D)
                 /\ a \in AuxiliaryMaps(l) /\ DOMAIN a = A /\ y.cons = FilledWith(x, i, a)
                 /\ Fits(e, y) => Fits(e, x) /\ \A v \in A : e[x.cons[i].f] >= e[v]

\* One element of a max gets its auxiliary variable, which cannot be negative.
LEMMA WithElementAuxBack ==
    ASSUME NEW n, NEW e \in Assignments, NEW m \in Nat, Variables(n) \subseteq Variables(m), NEW C, NEW x, x.cons \in Seq(C),
           NEW i \in DOMAIN x.cons, x.cons[i] \in NewMaxShapes(n), NEW A, NEW y, ReachingBack(e, x, i, m, A, y),
           NEW v \in x.cons[i].elements, NEW B, B = A \cup {v}, A \subseteq x.cons[i].elements
    PROVE  ReachingBack(e, x, i, m, B, WithElementAux(y, i, v))
  <1> DEFINE c == x.cons[i]
  <1>1. PICK l, a, D : /\ l \in Nat /\ m <= l /\ y \in Draft(l, Equalities(l), D)
                       /\ a \in AuxiliaryMaps(l) /\ DOMAIN a = A /\ y.cons = [x.cons EXCEPT ![i] = [@ EXCEPT !.aux = a]]
                       /\ Fits(e, y) => Fits(e, x) /\ \A w \in A : e[c.f] >= e[w]
    BY Zenon DEF ReachingBack, FilledWith
  <1> DEFINE k == l + 1
             y1 == NewVariable(y, 0, Inf)
             adds == Defining(c.f, -1, v, l)
             eq == [type |-> "EQ", addends |-> adds, scalar |-> 0]
             z == AddEquation(y1, adds, 0)
             b == [u \in A \cup {v} |-> IF u = v THEN l ELSE a[u]]
             told == [c EXCEPT !.aux = b]
             cons == [x.cons EXCEPT ![i] = told]
             r == [z EXCEPT !.cons = cons]
             F == D \cup {told}
  <1>2. c.f \in Variables(n) /\ c.elements \subseteq Variables(n) /\ v \in Variables(n) /\ \A u \in A : u \in Variables(n)
    BY DEF NewMaxShapes
  <1>3. /\ y1 \in Draft(k, Equalities(k), D) /\ y1.cons = y.cons /\ y.n = l /\ (Fits(e, y1) => Fits(e, y) /\ 0 <= e[l])
    <2>1. 0 \in Int /\ Inf \in Int
      BY DEF Inf
    <2>2. l \in Nat /\ y \in Draft(l, Equalities(l), D)
      BY <1>1
    <2> QED BY <2>1, <2>2, NewVariableFits
  <1>4. /\ k \in Nat /\ m <= k /\ l \in Variables(k) /\ Variables(n) \subseteq Variables(k) /\ Variables(l) \subseteq Variables(k)
    BY <1>1 DEF Variables
  <1> HIDE DEF y1, k
  <1>5. eq \in Equalities(k) /\ (EqHolds(eq, e) => e[l] = e[c.f] + (-1) * e[v])
    <2>1. c.f \in Variables(k) /\ v \in Variables(k) /\ -1 \in {1, -1}
      BY <1>2, <1>4
    <2> HIDE DEF c
    <2> QED BY <1>4, <2>1, DefiningEquation, ZenonT(40)
  <1>6. z \in Draft(k, Equalities(k), D) /\ z.cons = y1.cons /\ (Fits(e, z) => Fits(e, y1) /\ EqHolds(eq, e))
    <2> HIDE DEF adds
    <2> QED BY <1>3, <1>5, AddEquationFits
  <1>7. Fits(e, z) => Fits(e, y) /\ e[c.f] >= e[v]
    <2>1. e[l] \in Int /\ e[c.f] \in Int /\ e[v] \in Int
      BY <1>1, <1>2, SMTT(30) DEF Assignments, Variables
    <2>2. 0 <= e[l] /\ e[l] = e[c.f] + (-1) * e[v] => e[c.f] >= e[v]
      BY <2>1
    <2> HIDE DEF z, eq, c
    <2> QED BY <1>3, <1>5, <1>6, <2>2
  <1>8. DOMAIN a = A /\ \A u \in A : a[u] \in Variables(l)
    <2>1. \E E \in SUBSET Variables(l) : a \in [E -> Variables(l)]
      BY <1>1 DEF AuxiliaryMaps
    <2> QED BY <1>1, <2>1
  <1>9. b \in AuxiliaryMaps(k) /\ DOMAIN b = B
    <2>1. \A u \in B : b[u] \in Variables(k)
      BY <1>4, <1>8
    <2>2. B \in SUBSET Variables(k)
      BY <1>2, <1>4
    <2>3. b \in [B -> Variables(k)]
      BY <2>1, Zenon
    <2> HIDE DEF b
    <2> QED BY <2>2, <2>3, Zenon DEF AuxiliaryMaps
  <1>10. i \in DOMAIN y.cons /\ y.cons[i] = [c EXCEPT !.aux = a] /\ y.cons[i].f = c.f /\ y.cons[i].aux = a
    BY <1>1 DEF NewMaxShapes
  <1>11. WithElementAux(y, i, v) = r
    <2>1. WithElementAux(y, i, v)
            = [z EXCEPT !.cons[i].aux = [u \in DOMAIN @ \cup {v} |-> IF u = v THEN l ELSE @[u]]]
      BY <1>3, <1>10 DEF WithElementAux, y1, Defining
    <2>2. z.cons[i].aux = a /\ z.cons[i] = [c EXCEPT !.aux = a] /\ i \in DOMAIN z.cons
      BY <1>3, <1>6, <1>10, Zenon
    <2>3. [u \in DOMAIN z.cons[i].aux \cup {v} |-> IF u = v THEN l ELSE z.cons[i].aux[u]] = b
      BY <1>8, <2>2
    <2> HIDE DEF z, b
    <2>4. WithElementAux(y, i, v) = [z EXCEPT !.cons[i].aux = b]
      BY <2>1, <2>3
    <2>5. [z EXCEPT !.cons[i].aux = b] = [z EXCEPT !.cons = [z.cons EXCEPT ![i] = [z.cons[i] EXCEPT !.aux = b]]]
      BY <1>6 DEF Draft
    <2>6. [z.cons EXCEPT ![i] = [z.cons[i] EXCEPT !.aux = b]] = cons
      BY <1>1, <1>3, <1>6, <2>2, SMTT(30) DEF NewMaxShapes
    <2> QED BY <2>4, <2>5, <2>6, Zenon
  <1>12. r \in Draft(k, Equalities(k), F) /\ r.cons = cons /\ (Fits(e, r) => Fits(e, z))
    <2>1. /\ i \in DOMAIN z.cons /\ D \subseteq F /\ told \in F /\ cons = [z.cons EXCEPT ![i] = told]
          /\ r = [z EXCEPT !.cons = cons]
      <3> HIDE DEF z, told
      <3> QED BY <1>1, <1>3, <1>6, <1>10
    <2> HIDE DEF z, told, F, cons, r
    <2> QED BY <1>6, <2>1, ReplacedFits
  <1>13. cons = FilledWith(x, i, b)
    BY DEF FilledWith
  <1> HIDE DEF r, cons, b, z
  <1>14. Fits(e, r) => Fits(e, x) /\ \A u \in B : e[c.f] >= e[u]
    BY <1>1, <1>7, <1>12
  <1> QED BY <1>4, <1>9, <1>11, <1>12, <1>13, <1>14 DEF ReachingBack

ElementBackStep(a, y, k) == WithElementAux(y, a[2], a[5][k])
ElementBackGood(a, y, k) == ReachingBack(a[4], a[1], a[2], a[3], Firsts(a[5], k), y)
ElementBackLoop == INSTANCE Loops WITH Step <- ElementBackStep, Good <- ElementBackGood

\* f - e of a max for each of its elements e
LEMMA WithMaxAuxBack ==
    ASSUME NEW n, NEW e \in Assignments, NEW q, NEW m, NEW x, NEW i, Turn(n, e, q, m, x, i), q.cons[i] \in NewMaxShapes(n)
    PROVE  \E k : DeclaredBack(n, e, q, k, WithMaxAux(x, i), i)
  <1> DEFINE c == x.cons[i]
             others == Ascending(c.elements)
             len == Len(others)
             a == <<x, i, m, e, others>>
             after[k \in 0 .. len] == IF k = 0 THEN x ELSE WithElementAux(after[k - 1], i, others[k])
             C == Mixed(n, m)
  <1>1. /\ m \in Nat /\ n \in Nat /\ x \in Draft(m, Equalities(m), C) /\ x.cons \in Seq(C) /\ i \in DOMAIN x.cons
        /\ c = q.cons[i] /\ Variables(n) \subseteq Variables(m) /\ c \in NewMaxShapes(n)
    BY DeclaredTurn
  <1>2. c.f \notin c.elements /\ c.elements \subseteq Variables(n) /\ c.aux = <<>> /\ c.f \in Variables(n) /\ c.kind = "max"
    BY <1>1 DEF NewMaxShapes
  <1>3. /\ others \in Seq(c.elements) /\ len \in Nat /\ DOMAIN others = 1 .. len
        /\ \A v \in c.elements : \E j \in 1 .. len : others[j] = v
    <2> HIDE DEF c
    <2>1. others \in Seq(c.elements) /\ \A v \in c.elements : \E j \in DOMAIN others : others[j] = v
      BY <1>1, <1>2, AscendingReaches
    <2> HIDE DEF others
    <2> QED BY <2>1
  <1> HIDE DEF others, C
  <1>4. PICK h : ElementBackLoop!Course(h, a, x, len)
    BY <1>3, ElementBackLoop!CourseExists, Zenon
  <1>5. after = [k \in 0 .. len |-> IF k = 0 THEN x ELSE WithElementAux(after[k - 1], i, others[k])]
    BY <1>4 DEF ElementBackLoop!Course, ElementBackStep
  <1>6. WithMaxAux(x, i) = after[len]
    <2>1. c.elements \ {c.f} = c.elements
      BY <1>2
    <2>2. WithMaxAux(x, i) = LET after1[k \in 0 .. Len(others)] == IF k = 0 THEN x ELSE WithElementAux(after1[k - 1], i, others[k])
                             IN  after1[Len(others)]
      BY <1>2, <2>1, Zenon DEF WithMaxAux, others
    <2> QED BY <2>2
  <1> HIDE DEF after
  <1>7. ElementBackLoop!Started(a, x, len)
    <2>1. Firsts(others, 0) = {}
      BY DEF Firsts
    <2>2. <<>> \in AuxiliaryMaps(m) /\ DOMAIN <<>> = {}
      <3>1. {} \in SUBSET Variables(m) /\ <<>> \in [{} -> Variables(m)] /\ DOMAIN <<>> = {}
        OBVIOUS
      <3> QED BY <3>1 DEF AuxiliaryMaps
    <2>3. x.cons = FilledWith(x, i, <<>>)
      <3>1. [c EXCEPT !.aux = <<>>] = c
        BY <1>1, <1>2 DEF NewMaxShapes
      <3>2. [x.cons EXCEPT ![i] = c] = x.cons
        BY <1>1
      <3> QED BY <3>1, <3>2 DEF FilledWith
    <2>4. ReachingBack(e, x, i, m, {}, x)
      <3>1. m <= m /\ \A v \in {} : e[x.cons[i].f] >= e[v]
        BY <1>1
      <3> HIDE DEF c
      <3>2. \E b \in AuxiliaryMaps(m) : DOMAIN b = {} /\ x.cons = FilledWith(x, i, b)
        BY <2>2, <2>3
      <3> QED BY <1>1, <3>1, <3>2 DEF ReachingBack
    <2> QED BY <1>3, <2>1, <2>4, Zenon DEF ElementBackLoop!Started, ElementBackGood
  <1>8. ElementBackLoop!Kept(a, len)
    <2> SUFFICES ASSUME NEW k \in 1 .. len, NEW y, ReachingBack(e, x, i, m, Firsts(others, k - 1), y)
                 PROVE  ReachingBack(e, x, i, m, Firsts(others, k), WithElementAux(y, i, others[k]))
      BY DEF ElementBackLoop!Kept, ElementBackGood, ElementBackStep
    <2> DEFINE A == Firsts(others, k - 1)
               B == Firsts(others, k)
               v == others[k]
    <2>1. v \in c.elements /\ A \subseteq c.elements
      BY <1>3 DEF Firsts
    <2>2. B = A \cup {v}
      <3>1. \A j : j \in 1 .. k <=> j \in 1 .. k - 1 \/ j = k
        OBVIOUS
      <3> QED BY <3>1 DEF Firsts
    <2> HIDE DEF A, B, v
    <2>3. ReachingBack(e, x, i, m, B, WithElementAux(y, i, v))
      BY <1>1, <2>1, <2>2, WithElementAuxBack, Zenon DEF A
    <2> QED BY <2>3 DEF B, v
  <1>9. ElementBackLoop!Course(after, a, x, len)
    BY <1>5 DEF ElementBackLoop!Course, ElementBackStep
  <1>10. \A k \in 0 .. len : ElementBackGood(a, after[k], k)
    BY <1>7, <1>8, <1>9, ElementBackLoop!CourseKeeps
  <1> DEFINE y == after[len]
             S == c.elements
  <1>11. ReachingBack(e, x, i, m, S, y)
    <2>1. ElementBackGood(a, after[len], len)
      <3>1. len \in 0 .. len
        BY <1>3
      <3> HIDE DEF a, len
      <3> QED BY <1>10, <3>1
    <2>2. Firsts(others, len) = S
      <3> HIDE DEF c
      <3> QED BY <1>3 DEF Firsts
    <2> HIDE DEF S
    <2> QED BY <2>1, <2>2 DEF ElementBackGood
  <1> HIDE DEF y
  <1>12. PICK k, b, D : /\ k \in Nat /\ m <= k /\ y \in Draft(k, Equalities(k), D)
                        /\ b \in AuxiliaryMaps(k) /\ DOMAIN b = S /\ y.cons = FilledWith(x, i, b)
                        /\ Fits(e, y) => Fits(e, x) /\ \A v \in S : e[c.f] >= e[v]
    BY <1>11 DEF ReachingBack
  <1> DEFINE told == [c EXCEPT !.aux = b]
  <1>13. told \in Shapes(k) /\ Completed(told, q.cons[i])
    <2>1. Variables(n) \subseteq Variables(k) /\ MaxStates(n) \subseteq MaxStates(k)
      <3>1. Variables(n) \subseteq Variables(k)
        BY <1>1, <1>12, ShapesGrow
      <3> QED BY <3>1 DEF MaxStates
    <2>2. told \in MaxShapes(k)
      BY <1>1, <1>12, <2>1, Zenon DEF NewMaxShapes, MaxShapes
    <2>3. /\ told.kind = "max" /\ told.f = c.f /\ told.elements = c.elements /\ told.maxValueOfEliminated = c.maxValueOfEliminated
      BY <1>1 DEF NewMaxShapes
    <2> HIDE DEF told, c
    <2> QED BY <1>1, <1>2, <2>2, <2>3 DEF Shapes, Completed
  <1>14. y.cons = [x.cons EXCEPT ![i] = told]
    BY <1>12 DEF FilledWith
  <1>15. Fits(e, y) => Fits(e, x) /\ Dominates(e, q.cons[i])
    <2> HIDE DEF told, c
    <2> QED BY <1>1, <1>12 DEF Dominates, S
  <1> HIDE DEF told
  <1>16. DeclaredBack(n, e, q, k, y, i)
    BY <1>12, <1>13, <1>14, <1>15, DeclaredFurther
  <1> QED BY <1>6, <1>16 DEF y

\* A constraint without auxiliary variables to come stays as it is.
LEMMA UntouchedBack ==
    ASSUME NEW n, NEW e, NEW q, NEW m, NEW x, NEW i, Turn(n, e, q, m, x, i),
           q.cons[i] \in SignShapes(n) \/ q.cons[i] \in RoundingShapes(n) \/ q.cons[i] \in DisjShapes(n)
    PROVE  DeclaredBack(n, e, q, m, x, i) /\ WithAux(x, i) = x
  <1>1. /\ m \in Nat /\ n \in Nat /\ n <= m /\ x \in Draft(m, Equalities(m), Mixed(n, m)) /\ x.cons[i] = q.cons[i]
        /\ x.cons \in Seq(Mixed(n, m)) /\ i \in DOMAIN x.cons
    BY DeclaredTurn
  <1>2. /\ q.cons[i] \in Shapes(m) /\ q.cons[i].kind \in {"sign", "round", "disj"}
    <2>1. q.cons[i] \in Shapes(n) /\ q.cons[i].kind \in {"sign", "round", "disj"}
      BY DEF Shapes, SignShapes, RoundingShapes, DisjShapes
    <2> QED BY <1>1, <2>1, ShapesGrow
  <1>3. Completed(q.cons[i], q.cons[i]) /\ Dominates(e, q.cons[i])
    BY <1>2 DEF Completed, Dominates
  <1>4. x.cons = [x.cons EXCEPT ![i] = q.cons[i]]
    BY <1>1
  <1>5. m <= m
    BY <1>1
  <1>6. DeclaredBack(n, e, q, m, x, i)
    BY <1>1, <1>2, <1>3, <1>4, <1>5, DeclaredFurther
  <1>7. WithAux(x, i) = x
    BY <1>1, <1>2 DEF WithAux
  <1> QED BY <1>6, <1>7

\* One constraint told to use auxiliary variables
LEMMA WithAuxBack ==
    ASSUME NEW n, NEW e \in Assignments, NEW q, NEW m, NEW x, NEW i, Turn(n, e, q, m, x, i), q.cons[i] \in NewShapes(n)
    PROVE  \E k : DeclaredBack(n, e, q, k, WithAux(x, i), i)
  <1> DEFINE c == x.cons[i]
  <1>1. c = q.cons[i]
    BY DeclaredTurn
  <1>2. CASE c \in NewReluShapes(n)
    <2>1. WithAux(x, i) = WithReluAux(x, i)
      <3>1. c.kind = "relu"
        BY <1>2 DEF NewReluShapes
      <3> QED BY <3>1, Zenon DEF WithAux
    <2> QED BY <1>1, <1>2, <2>1, WithReluAuxBack
  <1>3. CASE c \in NewAbsShapes(n)
    <2>1. WithAux(x, i) = WithAbsAux(x, i)
      <3>1. c.kind = "abs"
        BY <1>3 DEF NewAbsShapes
      <3> QED BY <3>1 DEF WithAux
    <2> QED BY <1>1, <1>3, <2>1, WithAbsAuxBack
  <1>4. CASE c \in NewMaxShapes(n)
    <2>1. WithAux(x, i) = WithMaxAux(x, i)
      <3>1. c.kind = "max"
        BY <1>4 DEF NewMaxShapes
      <3> QED BY <3>1 DEF WithAux
    <2> QED BY <1>1, <1>4, <2>1, WithMaxAuxBack
  <1>5. CASE c \in SignShapes(n) \/ c \in RoundingShapes(n) \/ c \in DisjShapes(n)
    BY <1>1, <1>5, UntouchedBack
  <1> QED BY <1>1, <1>2, <1>3, <1>4, <1>5 DEF NewShapes

AuxBackStep(a, x, i) == WithAux(x, i)
AuxBackGood(a, x, i) == \E m : DeclaredBack(a[1], a[2], a[3], m, x, i)
AuxBackLoop == INSTANCE Loops WITH Step <- AuxBackStep, Good <- AuxBackGood

\* With all auxiliary variables, the constraints say no less.
LEMMA TransformationBack ==
    ASSUME NEW n \in Nat, NEW e \in Assignments, NEW l \in Nat, n <= l, NEW q \in Draft(l, Equalities(l), NewShapes(n))
    PROVE  \E m \in Nat :
             /\ TransformConstraintsIfNeeded(q) \in QueryShapes(m)
             /\ Len(TransformConstraintsIfNeeded(q).cons) = Len(q.cons)
             /\ \A j \in 1 .. Len(q.cons) : Completed(TransformConstraintsIfNeeded(q).cons[j], q.cons[j])
             /\ Fits(e, TransformConstraintsIfNeeded(q)) => Fits(e, q) /\ \A j \in 1 .. Len(q.cons) : Dominates(e, q.cons[j])
  <1> DEFINE len == Len(q.cons)
             a == <<n, e, q>>
             after[i \in 0 .. len] == IF i = 0 THEN q ELSE WithAux(after[i - 1], i)
  <1>1. q.cons \in Seq(NewShapes(n)) /\ len \in Nat /\ DOMAIN q.cons = 1 .. len
    BY DEF Draft
  <1>2. PICK h : AuxBackLoop!Course(h, a, q, len)
    BY <1>1, AuxBackLoop!CourseExists, Zenon
  <1>3. after = [i \in 0 .. len |-> IF i = 0 THEN q ELSE WithAux(after[i - 1], i)]
    BY <1>2, Zenon DEF AuxBackLoop!Course, AuxBackStep
  <1>4. TransformConstraintsIfNeeded(q) = after[len]
    BY DEF TransformConstraintsIfNeeded
  <1>0. a[1] = n /\ a[2] = e /\ a[3] = q
    OBVIOUS
  <1> HIDE DEF after, a
  <1>5. AuxBackLoop!Started(a, q, len)
    <2>1. q \in Draft(l, Equalities(l), Mixed(n, l))
      <3>1. Equalities(l) \subseteq Equalities(l) /\ NewShapes(n) \subseteq Mixed(n, l)
        BY DEF Mixed
      <3> QED BY <3>1, DraftGrows
    <2>2. \A j \in 1 .. len : ~(j <= 0)
      BY <1>1
    <2>3. DeclaredBack(n, e, q, l, q, 0)
      BY <1>1, <2>1, <2>2 DEF DeclaredBack
    <2> QED BY <1>0, <1>1, <2>3 DEF AuxBackLoop!Started, AuxBackGood
  <1>6. AuxBackLoop!Kept(a, len)
    <2> SUFFICES ASSUME NEW i \in 1 .. len, NEW x, NEW m, DeclaredBack(n, e, q, m, x, i - 1)
                 PROVE  \E k : DeclaredBack(n, e, q, k, WithAux(x, i), i)
      BY <1>0 DEF AuxBackLoop!Kept, AuxBackGood, AuxBackStep
    <2>1. Turn(n, e, q, m, x, i) /\ q.cons[i] \in NewShapes(n)
      BY <1>1 DEF Turn
    <2> HIDE DEF len
    <2> QED BY <2>1, WithAuxBack
  <1>7. AuxBackLoop!Course(after, a, q, len)
    BY <1>0, <1>3, Zenon DEF AuxBackLoop!Course, AuxBackStep
  <1> HIDE DEF len
  <1>8. \A i \in 0 .. len : AuxBackGood(a, after[i], i)
    BY <1>5, <1>6, <1>7, AuxBackLoop!CourseKeeps
  <1>9. AuxBackGood(a, after[len], len)
    BY <1>1, <1>8
  <1> DEFINE x == after[len]
  <1>10. PICK m : DeclaredBack(n, e, q, m, x, len)
    BY <1>0, <1>9 DEF AuxBackGood
  <1> HIDE DEF x
  <1>11. /\ m \in Nat /\ x \in Draft(m, Equalities(m), Mixed(n, m)) /\ Len(x.cons) = len
         /\ x.cons \in Seq(Mixed(n, m)) /\ \A j \in 1 .. len : j <= len
    BY <1>1, <1>10 DEF DeclaredBack, Draft, len
  <1>12. /\ \A j \in 1 .. len : x.cons[j] \in Shapes(m) /\ Completed(x.cons[j], q.cons[j])
         /\ Fits(e, x) => Fits(e, q) /\ \A j \in 1 .. len : Dominates(e, q.cons[j])
    BY <1>10, <1>11 DEF DeclaredBack, len
  <1>13. x.cons \in Seq(Shapes(m))
    BY <1>1, <1>11, <1>12
  <1>14. x \in QueryShapes(m)
    BY <1>11, <1>13 DEF Draft, QueryShapes
  <1> QED BY <1>4, <1>11, <1>12, <1>14 DEF x, len

\* A constraint that has got auxiliary variables and lost cases says no less, where its
\* lost elements are no more than the maximum.
LEMMA ConstraintBack ==
    ASSUME NEW n, NEW e, NEW c, NEW d, NEW g \in NewShapes(n), Thinned(c, d), Completed(d, g), Dominates(e, g), ConHolds(c, e)
    PROVE  ConHolds(g, e)
  <1>1. g.kind \in {"relu", "abs", "max", "sign", "round", "disj"}
    BY DEF NewShapes, NewReluShapes, NewAbsShapes, NewMaxShapes, SignShapes, RoundingShapes, DisjShapes
  <1>2. c.kind = g.kind /\ d.kind = g.kind
    BY DEF Thinned, Completed
  <1>3. CASE g.kind = "relu"
    <2>1. c.b = g.b /\ c.f = g.f
      BY <1>2, <1>3 DEF Thinned, Completed
    <2>2. Relu!Holds(c, e)
      BY <1>2, <1>3, Zenon DEF ConHolds
    <2>3. Relu!Holds(g, e)
      BY <2>1, <2>2 DEF Relu!Holds
    <2> QED BY <1>3, <2>3, Zenon DEF ConHolds
  <1>4. CASE g.kind = "abs"
    <2>1. c.b = g.b /\ c.f = g.f
      BY <1>2, <1>4 DEF Thinned, Completed
    <2>2. Abs!Holds(c, e)
      BY <1>2, <1>4 DEF ConHolds
    <2>3. Abs!Holds(g, e)
      BY <2>1, <2>2 DEF Abs!Holds
    <2> QED BY <1>4, <2>3 DEF ConHolds
  <1>5. CASE g.kind = "max"
    <2>1. c.f = g.f /\ c.elements \subseteq g.elements /\ c.maxValueOfEliminated = g.maxValueOfEliminated
      BY <1>2, <1>5 DEF Thinned, Completed
    <2>2. MaxOf!Holds(c, e)
      BY <1>2, <1>5 DEF ConHolds
    <2>3. MaxOf!Holds(g, e)
      BY <1>5, <2>1, <2>2 DEF MaxOf!Holds, Dominates
    <2> QED BY <1>5, <2>3 DEF ConHolds
  <1>6. CASE g.kind = "disj"
    <2>1. c.disjuncts = g.disjuncts
      BY <1>2, <1>6 DEF Thinned, Completed
    <2>2. Disj!Holds(c, e)
      BY <1>2, <1>6 DEF ConHolds
    <2>3. Disj!Holds(g, e)
      BY <2>1, <2>2 DEF Disj!Holds
    <2> QED BY <1>6, <2>3 DEF ConHolds
  <1>7. CASE g.kind \in {"sign", "round"}
    BY <1>2, <1>7 DEF Thinned, Completed
  <1> QED BY <1>1, <1>3, <1>4, <1>5, <1>6, <1>7

\* Preprocessor::preprocess without variable elimination, on the query as it is given: what
\* solves the query tightened solves the query given, so that no solution is gained and
\* any solution the search finds is one of the network verification problem asked.
\* Nothing is supposed of the query but that it has no auxiliary variables and no max has
\* its own result as an element.
THEOREM PreprocessingGainsNothing ==
    ASSUME NEW n \in Nat, NEW q \in Given(n), NEW rounds \in Nat, NEW e \in Assignments,
           Preprocess(q, FALSE, rounds).infeasible = FALSE,
           Fits(e, Preprocess(q, FALSE, rounds).tightened),
           \A j \in DOMAIN Preprocess(q, FALSE, rounds).tightened.cons : ConHolds(Preprocess(q, FALSE, rounds).tightened.cons[j], e)
    PROVE  Fits(e, q) /\ \A j \in DOMAIN q.cons : ConHolds(q.cons[j], e)
  <1> DEFINE q1 == MakeAllEquationsEqualities(q)
             q2 == RemoveRedundantAddends(q1)
             q3 == TransformConstraintsIfNeeded(q2)
             start == [query |-> q3, tighter |-> TRUE, throws |-> FALSE, merged |-> <<>>, gone |-> {}]
             r == Saturated(start, FALSE, rounds)
             pp == PreprocessWhole(q3, FALSE, rounds)
             C == NewShapes(n)
  <1>0. Preprocess(q, FALSE, rounds) = pp
    BY DEF Preprocess
  <1>1. q \in Draft(n, Equations(n), C) /\ q.cons \in Seq(C)
    BY DEF Given, Draft
  <1>2. PICK l \in Nat : n <= l /\ q1 \in Draft(l, Equalities(l), C) /\ q1.cons = q.cons /\ (Fits(e, q1) => Fits(e, q))
    BY <1>1, EqualitiesBack
  <1> HIDE DEF q1, C
  <1>3. q2 \in Draft(l, Equalities(l), C) /\ q2.cons = q.cons /\ (Fits(e, q2) => Fits(e, q))
    BY <1>2, ConsolidationBack
  <1> HIDE DEF q2
  <1>4. PICK m \in Nat : /\ q3 \in QueryShapes(m) /\ Len(q3.cons) = Len(q.cons)
                         /\ \A j \in 1 .. Len(q.cons) : Completed(q3.cons[j], q.cons[j])
                         /\ Fits(e, q3) => Fits(e, q) /\ \A j \in 1 .. Len(q.cons) : Dominates(e, q.cons[j])
    BY <1>2, <1>3, TransformationBack, Zenon DEF C
  <1> HIDE DEF q3
  <1>5. start \in TurnShapes(m)
    <2>1. <<>> \in [{} -> Nat]
      OBVIOUS
    <2>2. <<>> \in UNION {[S -> Nat] : S \in SUBSET Nat}
      BY <2>1, Zenon
    <2> QED BY <1>4, <2>2 DEF TurnShapes
  <1>6. start.query = q3
    OBVIOUS
  <1> HIDE DEF start
  <1>7. Back(m, e, start, r)
    BY <1>5, SaturatedBack, Zenon
  <1> HIDE DEF r
  <1>8. pp = IF r.throws THEN [infeasible |-> TRUE, whole |-> q3] ELSE Eliminated(q3, r, FALSE, CollectFixedValues(r))
    BY DEF PreprocessWhole, EliminatedFrom, r, start
  <1>9. r.throws = FALSE
    <2>1. r.throws \in BOOLEAN
      BY <1>7 DEF Back, TurnShapes
    <2>2. CASE r.throws = TRUE
      <3>1. pp = [infeasible |-> TRUE, whole |-> q3]
        BY <1>8, <2>2, Zenon
      <3> HIDE DEF pp
      <3>2. pp.infeasible = TRUE
        BY <3>1
      <3> QED BY <1>0, <3>2, Zenon
    <2> QED BY <2>1, <2>2, Zenon
  <1>10. pp.tightened = r.query
    <2>1. pp = Eliminated(q3, r, FALSE, CollectFixedValues(r))
      BY <1>8, <1>9, Zenon
    <2> HIDE DEF pp
    <2>2. \A c : Eliminated(q3, r, FALSE, c).tightened = r.query
      BY Zenon DEF Eliminated
    <2> QED BY <2>1, <2>2, Zenon
  <1> HIDE DEF pp
  <1>11. Fits(e, r.query) /\ \A j \in DOMAIN r.query.cons : ConHolds(r.query.cons[j], e)
    BY <1>0, <1>10, Zenon
  <1>12. Fits(e, q3) /\ AllThinned(r.query.cons, q3.cons)
    BY <1>6, <1>7, <1>9, <1>11 DEF Back
  <1>13. /\ r.query.cons \in Seq(Shapes(m)) /\ Len(r.query.cons) = Len(q.cons) /\ DOMAIN q.cons = 1 .. Len(q.cons)
         /\ DOMAIN r.query.cons = 1 .. Len(q.cons)
    <2>1. r.query.cons \in Seq(Shapes(m))
      BY <1>7 DEF Back, TurnShapes, QueryShapes
    <2>2. Len(r.query.cons) = Len(q.cons)
      BY <1>4, <1>12 DEF AllThinned
    <2> QED BY <1>1, <2>1, <2>2
  <1>14. ASSUME NEW j \in 1 .. Len(q.cons) PROVE ConHolds(q.cons[j], e)
    <2>1. Thinned(r.query.cons[j], q3.cons[j])
      BY <1>4, <1>12, Zenon DEF AllThinned
    <2>2. Completed(q3.cons[j], q.cons[j]) /\ Dominates(e, q.cons[j]) /\ q.cons[j] \in NewShapes(n) /\ ConHolds(r.query.cons[j], e)
      BY <1>1, <1>4, <1>11, <1>12, <1>13 DEF C
    <2> QED BY <2>1, <2>2, ConstraintBack
  <1> QED BY <1>4, <1>12, <1>13, <1>14

=============================================================================
