-------------------------- MODULE ConstraintProofs --------------------------
(***************************************************************************)
(* Proofs about ConstraintPropagation: whatever the query, the solution,   *)
(* the bounds deduced and their order, no constraint ever cuts a solution  *)
(* off (SolutionAlwaysKept).  Each kind of constraint has two lemmas, that *)
(* what it knows stays right when it is told of a bound, and that its      *)
(* reaction spares the solution; the invariance proof puts them together.  *)
(* Two more invariants rest on that one: the splits that disabled a        *)
(* constraint decide it (DisabledAlwaysHolds), and a constraint knows all  *)
(* the bounds it has not yet to be told of (NothingIsMissed).  The last    *)
(* parts are about the local search, which reads the same constraints: a   *)
(* cost term measures a violation (CostsMeasureViolation), so the points   *)
(* the search passes over are no solutions (LocalSearchIsRight).           *)
(***************************************************************************)
EXTENDS ConstraintPropagation, TLAPS, WellFoundedInduction, FiniteSetTheorems

Point(n) == [0 .. n - 1 -> Int]
BoxOver(n) == [(0 .. n - 1) \X {"LB", "UB"} -> Int]
Numeric(T) == \A t \in T : t.value \in Int

-----------------------------------------------------------------------------
(* Boxes and tightenings *)

\* A box is within what Tightened makes of it: the values come from the box or
\* from the tightenings.
LEMMA TightenedValue ==
    ASSUME NEW b, NEW T, NEW k \in DOMAIN b
    PROVE  \/ Tightened(b, T)[k] = b[k]
           \/ \E t \in T : t.key = k /\ Tightened(b, T)[k] = t.value
  BY DEF Tightened, Effective

\* Tightening by integers leaves a box of integers.
LEMMA TightenedType ==
    ASSUME NEW n \in Nat, NEW b \in BoxOver(n), NEW T, Numeric(T)
    PROVE  Tightened(b, T) \in BoxOver(n)
  <1>1. DOMAIN b = (0 .. n - 1) \X {"LB", "UB"}
    BY DEF BoxOver
  <1>2. ASSUME NEW k \in DOMAIN b
        PROVE  Tightened(b, T)[k] \in Int
    BY <1>1, <1>2, TightenedValue DEF BoxOver, Numeric
  <1>3. Tightened(b, T) = [k \in DOMAIN b |-> Tightened(b, T)[k]]
    BY DEF Tightened
  <1> QED BY <1>1, <1>2, <1>3 DEF BoxOver

\* A tightening that spares a point keeps it inside.
LEMMA TightenedKeeps ==
    ASSUME NEW p, NEW b, NEW T, Inside(p, b), Meets(p, T)
    PROVE  Inside(p, Tightened(b, T))
  <1>1. DOMAIN Tightened(b, T) = DOMAIN b
    BY DEF Tightened
  <1> SUFFICES ASSUME NEW k \in DOMAIN b
               PROVE  Respects(p, [key |-> k, value |-> Tightened(b, T)[k]])
    BY <1>1 DEF Inside
  <1>2. CASE Tightened(b, T)[k] = b[k]
    BY <1>2 DEF Inside
  <1>3. ASSUME NEW t \in T, t.key = k, Tightened(b, T)[k] = t.value
        PROVE  Respects(p, [key |-> k, value |-> Tightened(b, T)[k]])
    BY <1>3 DEF Meets, Respects
  <1> QED BY <1>2, <1>3, TightenedValue

\* The coordinates of a point inside a box are between its bounds.
LEMMA InsideBounds ==
    ASSUME NEW n \in Nat, NEW b \in BoxOver(n), NEW p \in Point(n), Inside(p, b),
           NEW v \in 0 .. n - 1
    PROVE  /\ p[v] \in Int
           /\ b[<<v, "LB">>] \in Int /\ b[<<v, "UB">>] \in Int
           /\ b[<<v, "LB">>] <= p[v] /\ p[v] <= b[<<v, "UB">>]
  <1>1. <<v, "LB">> \in DOMAIN b /\ <<v, "UB">> \in DOMAIN b
    BY DEF BoxOver
  <1> QED BY <1>1 DEF BoxOver, Point, Inside, Respects

-----------------------------------------------------------------------------
(* Rectified linear units *)

ReluSound(c, s, p) ==
    /\ s \in Relu!States(c)
    /\ s.phase = Relu!Active => Meets(p, Relu!ActiveSplit(c))
    /\ s.phase = Relu!Inactive => Meets(p, Relu!InactiveSplit(c))

\* Told of a bound, a ReLU (checkIfLowerBoundUpdateFixesPhase and its twin) fixes
\* no phase but that of the solution.
LEMMA ReluNotified ==
    ASSUME NEW n \in Nat, NEW b \in BoxOver(n), NEW p \in Point(n), Inside(p, b),
           NEW c, NEW s, NEW k \in (0 .. n - 1) \X {"LB", "UB"},
           Relu!Variables(c) \subseteq 0 .. n - 1, ReluSound(c, s, p),
           Relu!Holds(c, p), Relu!Linear(c, p)
    PROVE  ReluSound(c, Relu!Notified(c, s, b, k), p)
  <1> DEFINE a == Relu!PhaseAfter(c, k, b[k])
  <1>1. /\ c.b \in 0 .. n - 1 /\ c.f \in 0 .. n - 1 /\ c.aux \in 0 .. n - 1
    BY DEF Relu!Variables
  <1>2. /\ p[c.b] \in Int /\ p[c.f] \in Int /\ p[c.aux] \in Int
        /\ b[<<c.b, "LB">>] <= p[c.b] /\ p[c.b] <= b[<<c.b, "UB">>]
        /\ b[<<c.f, "LB">>] <= p[c.f] /\ p[c.f] <= b[<<c.f, "UB">>]
        /\ b[<<c.aux, "LB">>] <= p[c.aux] /\ p[c.aux] <= b[<<c.aux, "UB">>]
        /\ b[<<c.b, "LB">>] \in Int /\ b[<<c.f, "LB">>] \in Int /\ b[<<c.aux, "LB">>] \in Int
        /\ b[<<c.b, "UB">>] \in Int /\ b[<<c.f, "UB">>] \in Int /\ b[<<c.aux, "UB">>] \in Int
    BY <1>1, InsideBounds
  <1>3. a \in {Relu!NotFixed, Relu!Active, Relu!Inactive}
    BY DEF Relu!PhaseAfter
  <1>4. a = Relu!Active => p[c.b] >= 0 /\ p[c.aux] <= 0
    BY <1>2 DEF Relu!PhaseAfter, Relu!Holds, Relu!Linear, Relu!Active, Relu!Inactive, Relu!NotFixed
  <1>5. a = Relu!Inactive => p[c.b] <= 0 /\ p[c.f] <= 0
    BY <1>2 DEF Relu!PhaseAfter, Relu!Holds, Relu!Linear, Relu!Active, Relu!Inactive, Relu!NotFixed
  <1>6. a = Relu!Active => Meets(p, Relu!ActiveSplit(c))
    BY <1>4 DEF Meets, Respects, Relu!ActiveSplit, Relu!Least, Relu!Most
  <1>7. a = Relu!Inactive => Meets(p, Relu!InactiveSplit(c))
    BY <1>5 DEF Meets, Respects, Relu!InactiveSplit, Relu!Most
  <1> HIDE DEF a
  <1>8. CASE Relu!Fixed(c, s)
    BY <1>8 DEF Relu!Notified
  <1>9. CASE ~Relu!Fixed(c, s)
    <2>1. Relu!Notified(c, s, b, k) = [s EXCEPT !.phase = a]
      BY <1>9 DEF Relu!Notified, a
    <2> QED BY <2>1, <1>3, <1>6, <1>7 DEF ReluSound, Relu!States
  <1> QED BY <1>8, <1>9

\* The tightenings a ReLU answers a bound with spare the solution.
LEMMA ReluReaction ==
    ASSUME NEW n \in Nat, NEW b \in BoxOver(n), NEW p \in Point(n), Inside(p, b),
           NEW c, NEW s, NEW k \in (0 .. n - 1) \X {"LB", "UB"},
           Relu!Variables(c) \subseteq 0 .. n - 1,
           Relu!Holds(c, p), Relu!Linear(c, p)
    PROVE  Meets(p, Relu!Reaction(c, s, b, k)) /\ Numeric(Relu!Reaction(c, s, b, k))
  <1>1. /\ c.b \in 0 .. n - 1 /\ c.f \in 0 .. n - 1 /\ c.aux \in 0 .. n - 1
    BY DEF Relu!Variables
  <1>2. /\ p[c.b] \in Int /\ p[c.f] \in Int /\ p[c.aux] \in Int
    BY <1>1, InsideBounds
  <1>3. PICK v \in 0 .. n - 1 : k = <<v, "LB">> \/ k = <<v, "UB">>
    OBVIOUS
  <1>4. CASE k = <<v, "LB">>
    <2> DEFINE x == b[<<v, "LB">>]
    <2>1. x \in Int /\ x <= p[v]
      BY InsideBounds
    <2>2. Relu!Reaction(c, s, b, k) \in {{}, Relu!LowerReaction(c, v, x)}
      BY <1>4 DEF Relu!Reaction
    <2> HIDE DEF x
    <2>3. Meets(p, Relu!LowerReaction(c, v, x)) /\ Numeric(Relu!LowerReaction(c, v, x))
      BY <1>2, <2>1 DEF Relu!LowerReaction, Relu!Partner, Relu!Holds, Relu!Linear, Meets,
         Numeric, Respects, Relu!Least, Relu!Most
    <2> QED BY <2>2, <2>3 DEF Meets, Numeric
  <1>5. CASE k = <<v, "UB">>
    <2> DEFINE x == b[<<v, "UB">>]
    <2>1. x \in Int /\ p[v] <= x
      BY InsideBounds
    <2>2. Relu!Reaction(c, s, b, k) \in {{}, Relu!UpperReaction(c, v, x)}
      BY <1>5 DEF Relu!Reaction
    <2> HIDE DEF x
    <2>3. Meets(p, Relu!UpperReaction(c, v, x)) /\ Numeric(Relu!UpperReaction(c, v, x))
      BY <1>2, <2>1 DEF Relu!UpperReaction, Relu!Holds, Relu!Linear, Meets,
         Numeric, Respects, Relu!Least, Relu!Most
    <2> QED BY <2>2, <2>3 DEF Meets, Numeric
  <1> QED BY <1>3, <1>4, <1>5

-----------------------------------------------------------------------------
(* Leaky rectified linear units *)

\* Multiplication by a positive number keeps the order.
LEMMA TimesOrder ==
    ASSUME NEW k \in Nat \ {0}, NEW x \in Int, NEW y \in Int, x <= y
    PROVE  k * x <= k * y
  <1>1. k * (y - x) >= 0
    BY SMT
  <1>2. k * (y - x) = k * y - k * x
    BY SMT
  <1> QED BY <1>1, <1>2, SMT

\* A product of integers is one.
LEMMA TimesType ==
    ASSUME NEW k \in Int, NEW x \in Int
    PROVE  k * x \in Int
  BY SMT

\* The rounded quotient is below what the divisor takes to the dividend or above.
LEMMA QuotientBelow ==
    ASSUME NEW k \in Nat \ {0}, NEW x \in Int, NEW y \in Int, x <= k * y
    PROVE  x \div k \in Int /\ x \div k <= y
  <1> DEFINE q == x \div k
  <1>1. q \in Int /\ k * q <= x
    BY SMT
  <1> HIDE DEF q
  <1>2. CASE q > y
    <2>1. y + 1 <= q
      BY <1>1, <1>2
    <2>2. k * (y + 1) <= k * q
      BY <1>1, <2>1, TimesOrder
    <2>3. k * (y + 1) = k * y + k
      BY SMT
    <2>4. k * y \in Int /\ k * q \in Int
      BY <1>1, TimesType
    <2> QED BY <1>1, <2>2, <2>3, <2>4, SMT
  <1> QED BY <1>1, <1>2 DEF q

\* b, f and i are the values of b, f and inactiveAux at a point a leaky ReLU accepts
OnGraph(k, b, f, i) ==
    /\ f > 0 => b = f
    /\ f <= 0 => b = k * f
    /\ k * i = k * f - b

\* On the graph of a leaky ReLU the signs of b, of f and of the auxiliary
\* variables tell one phase.  With slope 1 the last but one line fails.
LEMMA LeakyShape ==
    ASSUME NEW k \in Nat \ {0, 1}, NEW b \in Int, NEW f \in Int, NEW i \in Int,
           OnGraph(k, b, f, i)
    PROVE  /\ b >= 0 \/ f >= 0 => b >= 0 /\ f >= 0 /\ b = f
           /\ b < 0 \/ f < 0 => b < 0 /\ f < 0 /\ b = k * f
           /\ b <= 0 \/ f <= 0 => b <= 0 /\ f <= 0 /\ b = k * f /\ i = 0
           /\ i > 0 => f > 0
           /\ f - b <= 0 => f >= 0
           /\ i <= 0 => f <= 0
  <1>0. /\ f > 0 => b = f
        /\ f <= 0 => b = k * f
        /\ k * i = k * f - b
    BY DEF OnGraph
  <1>1. CASE f > 0
    <2>1. b = f /\ (k - 1) * f >= 1 * f
      BY <1>0, <1>1, TimesOrder, SMT
    <2>2. (k - 1) * f = k * f - f
      BY SMT
    <2>3. CASE i <= 0
      <3>1. k * i <= k * 0
        BY <2>3, TimesOrder
      <3> QED BY <1>0, <1>1, <2>1, <2>2, <3>1, SMT
    <2> QED BY <1>1, <2>1, <2>3, SMT
  <1>2. CASE f = 0
    <2>1. k * f = 0 /\ b = 0 /\ k * i = 0
      BY <1>0, <1>2, SMT
    <2>2. i = 0
      BY <2>1, SMT
    <2> QED BY <1>2, <2>1, <2>2, SMT
  <1>3. CASE f < 0
    <2>1. b = k * f /\ k * i = 0
      BY <1>0, <1>3, SMT
    <2>2. i = 0
      BY <2>1, SMT
    <2>3. k * f = f + (k - 1) * f
      BY SMT
    <2>4. (k - 1) * f <= (k - 1) * (-1)
      BY <1>3, TimesOrder, SMT
    <2>5. (k - 1) * (-1) = 1 - k
      BY SMT
    <2> QED BY <1>3, <2>1, <2>2, <2>3, <2>4, <2>5, SMT
  <1> QED BY <1>1, <1>2, <1>3, SMT

LeakySound(c, s, p) ==
    /\ s \in Leaky!States(c)
    /\ s.phase = Leaky!Active => Meets(p, Leaky!ActiveSplit(c))
    /\ s.phase = Leaky!Inactive => Meets(p, Leaky!InactiveSplit(c))

\* Told of a bound, a leaky ReLU (checkIfLowerBoundUpdateFixesPhase and its twin)
\* fixes no phase but that of the solution, even if it fixes it again.
LEMMA LeakyNotified ==
    ASSUME NEW n \in Nat, NEW p \in Point(n),
           NEW c, NEW s, NEW k \in (0 .. n - 1) \X {"LB", "UB"},
           NEW x \in Int, Respects(p, [key |-> k, value |-> x]),
           c.k \in Nat \ {0, 1}, Leaky!Variables(c) \subseteq 0 .. n - 1,
           LeakySound(c, s, p), Leaky!Holds(c, p), Leaky!Linear(c, p)
    PROVE  LeakySound(c, Leaky!Notified(c, s, k, x), p)
  <1> DEFINE a == Leaky!PhaseAfter(c, s, k, x)
             b == p[c.b]
             f == p[c.f]
             i == p[c.inactiveAux]
  <1>1. /\ b \in Int /\ f \in Int /\ p[c.activeAux] \in Int /\ i \in Int
    BY DEF Leaky!Variables, Point
  <1>2. /\ f > 0 => b = f
        /\ f <= 0 => b = c.k * f
        /\ c.k * i = c.k * f - b
        /\ p[c.activeAux] = f - b
        /\ OnGraph(c.k, b, f, i)
    BY DEF Leaky!Holds, Leaky!Linear, OnGraph
  <1> HIDE DEF b, f, i
  <1>3. /\ b >= 0 \/ f >= 0 => b >= 0 /\ f >= 0 /\ b = f
        /\ b <= 0 \/ f <= 0 => b <= 0 /\ f <= 0 /\ i = 0
        /\ i > 0 => f > 0
        /\ f - b <= 0 => f >= 0
        /\ i <= 0 => f <= 0
    BY <1>1, <1>2, LeakyShape, ZenonT(40)
  <1>0. k[1] \in 0 .. n - 1 /\ k[2] \in {"LB", "UB"} /\ k = <<k[1], k[2]>>
    OBVIOUS
  <1>4. /\ k[2] = "LB" => x <= p[k[1]]
        /\ k[2] = "UB" => p[k[1]] <= x
    BY <1>0 DEF Respects
  <1>5. p[k[1]] \in Int
    BY <1>0 DEF Point
  <1>6. \/ a = Leaky!Active /\ f >= 0
        \/ a = Leaky!Inactive /\ f <= 0
        \/ a = s.phase
    <2>1. CASE \/ k[1] \in {c.b, c.f} /\ k[2] = "LB" /\ x >= 0
               \/ k = <<c.inactiveAux, "LB">> /\ x > 0
               \/ k = <<c.activeAux, "UB">> /\ x = 0
      <3>1. a = Leaky!Active
        BY <2>1 DEF Leaky!PhaseAfter
      <3> QED BY <1>0, <1>1, <1>2, <1>3, <1>4, <1>5, <2>1, <3>1 DEF b, f, i
    <2>2. CASE \/ k[1] \in {c.b, c.f} /\ k[2] = "UB" /\ x < 0
               \/ k = <<c.activeAux, "LB">> /\ x > 0
               \/ k = <<c.inactiveAux, "UB">> /\ x = 0
      <3>1. f <= 0
        BY <1>0, <1>1, <1>2, <1>3, <1>4, <1>5, <2>2 DEF b, f, i
      <3>2. CASE ~<2>1!1
        BY <2>2, <3>1, <3>2 DEF Leaky!PhaseAfter
      <3> QED BY <2>1, <3>2
    <2>3. CASE ~<2>1!1 /\ ~<2>2!1
      BY <2>3 DEF Leaky!PhaseAfter
    <2> QED BY <2>1, <2>2, <2>3
  <1>7. f >= 0 => Meets(p, Leaky!ActiveSplit(c))
    BY <1>1, <1>2, <1>3 DEF Meets, Respects, Leaky!ActiveSplit, Leaky!Least, Leaky!Most, b, f
  <1>8. f <= 0 => Meets(p, Leaky!InactiveSplit(c))
    BY <1>1, <1>2, <1>3 DEF Meets, Respects, Leaky!InactiveSplit, Leaky!Most, b, f, i
  <1>9. /\ Leaky!Notified(c, s, k, x) = [s EXCEPT !.phase = a]
        /\ a \in {Leaky!NotFixed, Leaky!Active, Leaky!Inactive}
    BY DEF Leaky!Notified, Leaky!PhaseAfter, LeakySound, Leaky!States
  <1> HIDE DEF a
  <1>10. Leaky!Active # Leaky!Inactive
    BY DEF Leaky!Active, Leaky!Inactive
  <1> QED BY <1>6, <1>7, <1>8, <1>9, <1>10 DEF LeakySound, Leaky!States

\* The tightenings a leaky ReLU answers a bound with spare the solution.
LEMMA LeakyReaction ==
    ASSUME NEW n \in Nat, NEW p \in Point(n),
           NEW c, NEW s, NEW k \in (0 .. n - 1) \X {"LB", "UB"},
           NEW x \in Int, Respects(p, [key |-> k, value |-> x]),
           c.k \in Nat \ {0, 1}, Leaky!Variables(c) \subseteq 0 .. n - 1,
           Leaky!Holds(c, p), Leaky!Linear(c, p)
    PROVE  Meets(p, Leaky!Reaction(c, s, k, x)) /\ Numeric(Leaky!Reaction(c, s, k, x))
  <1> DEFINE b == p[c.b]
             f == p[c.f]
             i == p[c.inactiveAux]
  <1>1. /\ b \in Int /\ f \in Int /\ p[c.activeAux] \in Int /\ i \in Int
    BY DEF Leaky!Variables, Point
  <1>2. /\ f > 0 => b = f
        /\ f <= 0 => b = c.k * f
        /\ c.k * i = c.k * f - b
        /\ p[c.activeAux] = f - b
        /\ OnGraph(c.k, b, f, i)
    BY DEF Leaky!Holds, Leaky!Linear, OnGraph
  <1> HIDE DEF b, f, i
  <1>3. /\ b >= 0 \/ f >= 0 => b >= 0 /\ f >= 0 /\ b = f
        /\ b <= 0 \/ f <= 0 => b <= 0 /\ f <= 0 /\ b = c.k * f /\ i = 0
        /\ i > 0 => f > 0
        /\ i <= 0 => f <= 0
    BY <1>1, <1>2, LeakyShape
  <1>0. k[1] \in 0 .. n - 1 /\ k[2] \in {"LB", "UB"} /\ k = <<k[1], k[2]>>
    OBVIOUS
  <1>4. /\ k[2] = "LB" => x <= p[k[1]]
        /\ k[2] = "UB" => p[k[1]] <= x
    BY <1>0 DEF Respects
  <1>5. /\ Leaky!SlopeBelow(c, x) \in Int
        /\ x < 0 /\ x <= b => Leaky!SlopeBelow(c, x) <= f
    <2>1. x \div c.k \in Int
      BY SMT
    <2>2. CASE b <= 0
      BY <1>1, <1>3, <2>1, <2>2, QuotientBelow DEF Leaky!SlopeBelow
    <2>3. CASE b > 0 /\ x < 0
      <3>1. x <= c.k * 0
        BY <2>3, SMT
      <3>2. x \div c.k <= 0
        BY <3>1, QuotientBelow
      <3> QED BY <1>1, <1>3, <2>1, <2>3, <3>2 DEF Leaky!SlopeBelow
    <2> QED BY <1>1, <2>1, <2>2, <2>3 DEF Leaky!SlopeBelow
  <1>6. /\ Leaky!SlopeAbove(c, x) \in Int
        /\ x < 0 /\ b <= x => f <= Leaky!SlopeAbove(c, x)
    <2>1. (-x) \div c.k \in Int
      BY SMT
    <2>2. CASE x < 0 /\ b <= x
      <3>1. b = c.k * f
        BY <1>1, <1>3, <2>2
      <3>2. c.k * (-f) = -b
        BY <1>1, <3>1, SMT
      <3>3. -x <= c.k * (-f)
        BY <1>1, <2>2, <3>2
      <3>4. (-x) \div c.k <= -f
        BY <1>1, <3>3, QuotientBelow
      <3> QED BY <1>1, <2>1, <3>4 DEF Leaky!SlopeAbove
    <2> QED BY <2>1, <2>2 DEF Leaky!SlopeAbove
  <1>7. /\ c.k * x \in Int
        /\ x < 0 /\ x <= f => c.k * x <= b
        /\ x < 0 /\ f <= x => b <= c.k * x
    <2>1. c.k * x \in Int
      BY TimesType
    <2>2. CASE x < 0 /\ x <= f
      <3>1. CASE f <= 0
        BY <1>1, <1>3, <2>2, <3>1, TimesOrder
      <3>2. CASE f > 0
        <4>1. c.k * x <= c.k * 0
          BY <2>2, TimesOrder
        <4> QED BY <1>1, <1>3, <2>1, <3>2, <4>1, SMT
      <3> QED BY <1>1, <3>1, <3>2
    <2>3. CASE x < 0 /\ f <= x
      BY <1>1, <1>3, <2>3, TimesOrder
    <2> QED BY <2>1, <2>2, <2>3
  <1> DEFINE v == k[1]
  <1>8. p[v] \in Int
    BY <1>0 DEF Point
  <1> HIDE DEF v
  <1>9. ASSUME k[2] = "LB"
        PROVE  Meets(p, Leaky!LowerReaction(c, v, x)) /\ Numeric(Leaky!LowerReaction(c, v, x))
    <2>1. x <= p[v]
      BY <1>4, <1>9 DEF v
    <2> QED BY <1>1, <1>2, <1>3, <1>5, <1>7, <1>8, <2>1 DEF Leaky!LowerReaction, Leaky!Partner,
            Meets, Numeric, Respects, Leaky!Least, Leaky!Most, b, f, i
  <1>10. ASSUME k[2] = "UB"
         PROVE  Meets(p, Leaky!UpperReaction(c, v, x)) /\ Numeric(Leaky!UpperReaction(c, v, x))
    <2>1. p[v] <= x
      BY <1>4, <1>10 DEF v
    <2> QED BY <1>1, <1>2, <1>3, <1>6, <1>7, <1>8, <2>1 DEF Leaky!UpperReaction, Leaky!Partner,
            Meets, Numeric, Respects, Leaky!Least, Leaky!Most, b, f, i
  <1>11. Leaky!Reaction(c, s, k, x) \in
            {{}, IF k[2] = "LB" THEN Leaky!LowerReaction(c, v, x) ELSE Leaky!UpperReaction(c, v, x)}
    BY DEF Leaky!Reaction, v
  <1> QED BY <1>0, <1>9, <1>10, <1>11 DEF Meets, Numeric

-----------------------------------------------------------------------------
(* Absolute values *)

AbsSound(c, s, p) ==
    /\ s \in Abs!States(c)
    /\ s.phase = Abs!Positive => Meets(p, Abs!PositiveSplit(c))
    /\ s.phase = Abs!Negative => Meets(p, Abs!NegativeSplit(c))

\* The coordinates an absolute value constraint reads, and their bounds
AbsReads(c, b, p) ==
    \A v \in {c.b, c.f, c.posAux, c.negAux} :
        /\ p[v] \in Int
        /\ b[<<v, "LB">>] \in Int /\ b[<<v, "UB">>] \in Int
        /\ b[<<v, "LB">>] <= p[v] /\ p[v] <= b[<<v, "UB">>]

\* fixPhaseIfNeeded gives an absolute value no phase but that of the solution.
LEMMA AbsNotified ==
    ASSUME NEW n \in Nat, NEW b \in BoxOver(n), NEW p \in Point(n), Inside(p, b),
           NEW c, NEW s,
           Abs!Variables(c) \subseteq 0 .. n - 1, AbsSound(c, s, p),
           Abs!Holds(c, p), Abs!Linear(c, p)
    PROVE  AbsSound(c, Abs!Notified(c, s, b), p)
  <1> DEFINE a == Abs!PhaseOf(c, b)
  <1>1. AbsReads(c, b, p)
    BY InsideBounds DEF Abs!Variables, AbsReads
  <1>2. a \in {Abs!NotFixed, Abs!Positive, Abs!Negative}
    BY DEF Abs!PhaseOf
  <1>3. a = Abs!Positive => p[c.b] >= 0 /\ p[c.posAux] <= 0
    BY <1>1 DEF AbsReads, Abs!PhaseOf, Abs!Holds, Abs!Linear, Abs!Positive, Abs!Negative,
       Abs!NotFixed
  <1>4. a = Abs!Negative => p[c.b] <= 0 /\ p[c.negAux] <= 0
    BY <1>1 DEF AbsReads, Abs!PhaseOf, Abs!Holds, Abs!Linear, Abs!Positive, Abs!Negative,
       Abs!NotFixed
  <1>5. a = Abs!Positive => Meets(p, Abs!PositiveSplit(c))
    BY <1>3 DEF Meets, Respects, Abs!PositiveSplit, Abs!Least, Abs!Most
  <1>6. a = Abs!Negative => Meets(p, Abs!NegativeSplit(c))
    BY <1>4 DEF Meets, Respects, Abs!NegativeSplit, Abs!Most
  <1> HIDE DEF a
  <1>7. CASE Abs!Fixed(c, s)
    BY <1>7 DEF Abs!Notified
  <1>8. CASE ~Abs!Fixed(c, s)
    <2>1. Abs!Notified(c, s, b) = [s EXCEPT !.phase = a]
      BY <1>8 DEF Abs!Notified, a
    <2> QED BY <2>1, <1>2, <1>5, <1>6 DEF AbsSound, Abs!States
  <1> QED BY <1>7, <1>8

\* The tightenings an absolute value answers a bound with spare the solution,
\* although it is told one value of the bound and reads others off the box.
LEMMA AbsReaction ==
    ASSUME NEW n \in Nat, NEW b \in BoxOver(n), NEW p \in Point(n), Inside(p, b),
           NEW c, NEW s, NEW k \in (0 .. n - 1) \X {"LB", "UB"},
           NEW x \in Int, Respects(p, [key |-> k, value |-> x]),
           Abs!Variables(c) \subseteq 0 .. n - 1,
           Abs!Holds(c, p), Abs!Linear(c, p)
    PROVE  Meets(p, Abs!Reaction(c, s, b, k, x)) /\ Numeric(Abs!Reaction(c, s, b, k, x))
  <1>1. AbsReads(c, b, p)
    BY InsideBounds DEF Abs!Variables, AbsReads
  <1>2. PICK v \in 0 .. n - 1 : k = <<v, "LB">> \/ k = <<v, "UB">>
    OBVIOUS
  <1>3. CASE k = <<v, "LB">>
    <2>1. x \in Int /\ x <= p[v]
      BY <1>3 DEF Respects
    <2>2. Abs!Reaction(c, s, b, k, x) \in {{}, Abs!LowerReaction(c, b, v, x)}
      BY <1>3 DEF Abs!Reaction
    <2> DEFINE fUB == Abs!Larger(-x, b[<<c.b, "UB">>])
    <2>3. Abs!LowerReaction(c, b, v, x) =
            IF v = c.b /\ x < 0 THEN {Abs!Most(c.f, fUB), Abs!Most(c.posAux, fUB - x)}
            ELSE IF v = c.f /\ x < 0 THEN {Abs!Least(c.f, 0)}
            ELSE {}
      BY DEF Abs!LowerReaction
    <2>4. v = c.b => fUB \in Int /\ p[c.f] <= fUB
      BY <1>1, <2>1 DEF AbsReads, Abs!Larger, Abs!Holds
    <2> HIDE DEF fUB
    <2>5. v = c.b => fUB - x \in Int /\ p[c.posAux] <= fUB - x
      BY <1>1, <2>1, <2>4 DEF AbsReads, Abs!Linear
    <2>6. Meets(p, Abs!LowerReaction(c, b, v, x)) /\ Numeric(Abs!LowerReaction(c, b, v, x))
      BY <2>3, <2>4, <2>5 DEF Abs!Holds, Meets, Numeric, Respects, Abs!Least, Abs!Most
    <2> QED BY <2>2, <2>6 DEF Meets, Numeric
  <1>4. CASE k = <<v, "UB">>
    <2> DEFINE T == {Abs!Most(c.b, x), Abs!Least(c.b, -x)}
               cut == Abs!Tightened(b, T)
    <2>1. x \in Int /\ p[v] <= x
      BY <1>4 DEF Respects
    <2>2. Abs!Reaction(c, s, b, k, x) \in {{}, Abs!UpperReaction(c, b, v, x)}
      BY <1>4 DEF Abs!Reaction
    <2>3. ASSUME v = c.f
          PROVE  /\ cut[<<c.b, "LB">>] \in Int /\ cut[<<c.b, "UB">>] \in Int
                 /\ cut[<<c.b, "LB">>] <= p[c.b] /\ p[c.b] <= cut[<<c.b, "UB">>]
      <3>1. Numeric(T)
        BY <2>1 DEF Numeric, Abs!Most, Abs!Least
      <3>2. Meets(p, T)
        BY <1>1, <2>1, <2>3 DEF AbsReads, Abs!Holds, Meets, Respects, Abs!Most, Abs!Least
      <3>3. cut = Tightened(b, T)
        BY DEF Abs!Tightened, Tightened, Abs!Effective, Effective, Abs!Tighter, Tighter
      <3> HIDE DEF T, cut
      <3>4. cut \in BoxOver(n) /\ Inside(p, cut)
        BY <3>1, <3>2, <3>3, TightenedType, TightenedKeeps
      <3>5. c.b \in 0 .. n - 1
        BY DEF Abs!Variables
      <3> QED BY <3>4, <3>5, InsideBounds
    <2>4. CASE v = c.f /\ v # c.b
      <3>1. Abs!UpperReaction(c, b, v, x) =
                {Abs!Most(c.b, x), Abs!Least(c.b, -x),
                 Abs!Most(c.posAux, x - cut[<<c.b, "LB">>]),
                 Abs!Most(c.negAux, x + cut[<<c.b, "UB">>])}
        BY <2>4 DEF Abs!UpperReaction
      <3>2. /\ cut[<<c.b, "LB">>] \in Int /\ cut[<<c.b, "UB">>] \in Int
            /\ cut[<<c.b, "LB">>] <= p[c.b] /\ p[c.b] <= cut[<<c.b, "UB">>]
        BY <2>3, <2>4
      <3> DEFINE lo == cut[<<c.b, "LB">>]
                 hi == cut[<<c.b, "UB">>]
      <3> HIDE DEF cut, lo, hi
      <3>3. /\ lo \in Int /\ hi \in Int /\ lo <= p[c.b] /\ p[c.b] <= hi
        BY <3>2 DEF lo, hi
      <3>4. /\ p[c.b] \in Int /\ p[c.f] \in Int /\ p[c.posAux] \in Int /\ p[c.negAux] \in Int
        BY <1>1 DEF AbsReads
      <3>5. p[c.f] <= x
        BY <2>1, <2>4
      <3>6. /\ p[c.b] <= x /\ p[c.b] >= -x
            /\ p[c.posAux] <= x - lo /\ p[c.negAux] <= x + hi
        BY <2>1, <3>3, <3>4, <3>5 DEF Abs!Holds, Abs!Linear
      <3>7. /\ -x \in Int /\ x - lo \in Int /\ x + hi \in Int
        BY <2>1, <3>3
      <3>8. Meets(p, Abs!UpperReaction(c, b, v, x))
        BY <3>1, <3>6 DEF lo, hi, Meets, Respects, Abs!Least, Abs!Most
      <3>9. Numeric(Abs!UpperReaction(c, b, v, x))
        BY <2>1, <3>1, <3>7 DEF lo, hi, Numeric, Abs!Least, Abs!Most
      <3> QED BY <2>2, <3>8, <3>9 DEF Meets, Numeric
    <2> HIDE DEF T, cut
    <2>5. CASE v = c.b
      <3>1. x > 0 => -b[<<c.b, "LB">>] \in Int /\ p[c.f] <= Abs!Larger(x, -b[<<c.b, "LB">>])
                     /\ Abs!Larger(x, -b[<<c.b, "LB">>]) \in Int
        BY <1>1, <2>1, <2>5 DEF AbsReads, Abs!Larger, Abs!Holds
      <3> DEFINE fUB == Abs!Larger(x, -b[<<c.b, "LB">>])
      <3>2. Abs!UpperReaction(c, b, v, x) =
                IF x <= 0 THEN {} ELSE {Abs!Most(c.f, fUB), Abs!Most(c.negAux, fUB + x)}
        BY <2>5 DEF Abs!UpperReaction
      <3> HIDE DEF fUB
      <3>3. x > 0 => fUB \in Int /\ p[c.f] <= fUB /\ p[c.negAux] <= fUB + x
        BY <1>1, <2>1, <2>5, <3>1 DEF fUB, AbsReads, Abs!Linear
      <3>4. /\ Meets(p, Abs!UpperReaction(c, b, v, x))
            /\ Numeric(Abs!UpperReaction(c, b, v, x))
        BY <2>1, <3>2, <3>3 DEF Meets, Numeric, Respects, Abs!Least, Abs!Most
      <3> QED BY <2>2, <3>4 DEF Meets, Numeric
    <2>6. CASE v # c.b /\ v # c.f
      <3>1. v = c.posAux => p[c.f] <= b[<<c.b, "UB">>] + x /\ p[c.b] >= b[<<c.f, "LB">>] - x
                            /\ b[<<c.b, "UB">>] + x \in Int /\ b[<<c.f, "LB">>] - x \in Int
        BY <1>1, <2>1 DEF AbsReads, Abs!Linear
      <3>2. v = c.negAux => p[c.f] <= x - b[<<c.b, "LB">>] /\ p[c.b] <= x - b[<<c.f, "LB">>]
                            /\ x - b[<<c.b, "LB">>] \in Int /\ x - b[<<c.f, "LB">>] \in Int
        BY <1>1, <2>1 DEF AbsReads, Abs!Linear
      <3>3. /\ Meets(p, Abs!UpperReaction(c, b, v, x))
            /\ Numeric(Abs!UpperReaction(c, b, v, x))
        BY <2>6, <3>1, <3>2 DEF Abs!UpperReaction, Meets, Numeric, Respects,
           Abs!Least, Abs!Most
      <3> QED BY <2>2, <3>3 DEF Meets, Numeric
    <2> QED BY <2>4, <2>5, <2>6
  <1> QED BY <1>2, <1>3, <1>4

-----------------------------------------------------------------------------
(* Signs *)

SignSound(c, s, p) ==
    /\ s \in Sign!States(c)
    /\ s.phase = Sign!Positive => Meets(p, Sign!PositiveSplit(c))
    /\ s.phase = Sign!Negative => Meets(p, Sign!NegativeSplit(c))

\* What a decisive bound says of a point, whichever bound of whichever variable
LEMMA SignDecides ==
    ASSUME NEW n \in Nat, NEW b \in BoxOver(n), NEW p \in Point(n), Inside(p, b),
           NEW c, NEW k \in (0 .. n - 1) \X {"LB", "UB"},
           NEW x \in Int, Respects(p, [key |-> k, value |-> x]),
           Sign!Variables(c) \subseteq 0 .. n - 1, Sign!Holds(c, p)
    PROVE  /\ p[c.b] \in Int /\ p[c.f] \in Int
           /\ Sign!IsPositive(c, k, x) => p[c.b] >= 0 /\ p[c.f] = 1
           /\ Sign!IsNegative(c, k, x) => p[c.b] <= 0 /\ p[c.f] = -1
  <1>1. c.b \in 0 .. n - 1 /\ c.f \in 0 .. n - 1
    BY DEF Sign!Variables
  <1>2. /\ p[c.b] \in Int /\ p[c.f] \in Int
    BY <1>1, InsideBounds
  <1> QED BY <1>2 DEF Respects, Sign!IsPositive, Sign!IsNegative, Sign!Holds

\* Told of a bound, a sign constraint takes no phase but that of the solution.
LEMMA SignNotified ==
    ASSUME NEW n \in Nat, NEW b \in BoxOver(n), NEW p \in Point(n), Inside(p, b),
           NEW c, NEW s, NEW k \in (0 .. n - 1) \X {"LB", "UB"},
           NEW x \in Int, Respects(p, [key |-> k, value |-> x]),
           Sign!Variables(c) \subseteq 0 .. n - 1, SignSound(c, s, p), Sign!Holds(c, p)
    PROVE  SignSound(c, Sign!Notified(c, s, k, x), p)
  <1>1. CASE Sign!IsPositive(c, k, x)
    <2>1. Meets(p, Sign!PositiveSplit(c))
      BY <1>1, SignDecides DEF Meets, Respects, Sign!PositiveSplit, Sign!Least
    <2> QED BY <1>1, <2>1 DEF Sign!Notified, SignSound, Sign!States, Sign!Positive, Sign!Negative
  <1>2. CASE ~Sign!IsPositive(c, k, x) /\ Sign!IsNegative(c, k, x)
    <2>1. Meets(p, Sign!NegativeSplit(c))
      BY <1>2, SignDecides DEF Meets, Respects, Sign!NegativeSplit, Sign!Most
    <2> QED BY <1>2, <2>1 DEF Sign!Notified, SignSound, Sign!States, Sign!Positive, Sign!Negative
  <1>3. CASE ~Sign!IsPositive(c, k, x) /\ ~Sign!IsNegative(c, k, x)
    BY <1>3 DEF Sign!Notified
  <1> QED BY <1>1, <1>2, <1>3

\* The tightenings a sign constraint answers a bound with spare the solution.
LEMMA SignReaction ==
    ASSUME NEW n \in Nat, NEW b \in BoxOver(n), NEW p \in Point(n), Inside(p, b),
           NEW c, NEW k \in (0 .. n - 1) \X {"LB", "UB"},
           NEW x \in Int, Respects(p, [key |-> k, value |-> x]),
           Sign!Variables(c) \subseteq 0 .. n - 1, Sign!Holds(c, p)
    PROVE  Meets(p, Sign!Reaction(c, k, x)) /\ Numeric(Sign!Reaction(c, k, x))
  BY SignDecides DEF Sign!Reaction, Meets, Numeric, Respects, Sign!Least, Sign!Most

-----------------------------------------------------------------------------
(* Maxima *)

MaxSound(c, s, p) ==
    /\ s \in Max!States(c)
    /\ s.maxLowerBound <= p[c.f]
    /\ \/ s.haveEliminated /\ p[c.f] = c.maxValueOfEliminated
       \/ \E e \in s.elements : p[c.f] = p[e]

\* The coordinates a max constraint reads, and their bounds
MaxReads(c, b, p) ==
    /\ c.maxValueOfEliminated \in Int
    /\ \A v \in Max!Variables(c) :
        /\ p[v] \in Int
        /\ b[<<v, "LB">>] \in Int /\ b[<<v, "UB">>] \in Int
        /\ b[<<v, "LB">>] <= p[v] /\ p[v] <= b[<<v, "UB">>]

\* The case of the solution is not among those notifyLowerBound of a max drops.
LEMMA MaxAfterLower ==
    ASSUME NEW b, NEW p, NEW c, NEW s, NEW v \in Int, MaxReads(c, b, p),
           NEW x \in Int, x <= p[v], p[v] \in Int,
           MaxSound(c, s, p), Max!Holds(c, p), Max!Linear(c, p)
    PROVE  MaxSound(c, Max!AfterLower(c, s, b, v, x), p)
  <1> DEFINE owners == {e \in s.elements : c.aux[e] = v}
  <1>1. s.elements \subseteq c.elements
    BY DEF MaxSound, Max!States
  <1>2. \A e \in c.elements : /\ p[e] \in Int /\ b[<<e, "UB">>] \in Int /\ p[e] <= b[<<e, "UB">>]
                            /\ p[e] <= p[c.f] /\ p[c.aux[e]] = p[c.f] - p[e]
    BY DEF MaxReads, Max!Variables, Max!Holds, Max!Linear
  <1>3. p[c.f] \in Int /\ c.maxValueOfEliminated \in Int
    BY DEF MaxReads, Max!Variables
  <1> HIDE DEF owners
  <1>4. CASE owners # {} /\ x > 0
    <2>1. Max!AfterLower(c, s, b, v, x) = [s EXCEPT !.elements = @ \ owners]
      BY <1>4 DEF Max!AfterLower, owners
    <2>2. ASSUME NEW e \in owners
          PROVE  p[c.f] # p[e]
      <3>1. e \in s.elements /\ c.aux[e] = v
        BY DEF owners
      <3>2. p[v] = p[c.f] - p[e] /\ p[e] \in Int
        BY <1>1, <1>2, <3>1
      <3> QED BY <1>3, <1>4, <3>2
    <2> QED BY <2>1, <2>2 DEF MaxSound, Max!States
  <1>5. CASE ~(owners # {} /\ x > 0) /\ v \in {c.f} \cup s.elements /\ x > s.maxLowerBound
    <2>1. Max!AfterLower(c, s, b, v, x) = Max!Raised(c, s, b, v, x)
      BY <1>5 DEF Max!AfterLower, owners
    <2>2. x <= p[c.f]
      <3>1. v = c.f \/ p[v] <= p[c.f]
        BY <1>1, <1>2, <1>5
      <3> QED BY <1>3, <3>1
    <2>3. \A e \in s.elements : p[c.f] = p[e] => b[<<e, "UB">>] >= x
      BY <1>1, <1>2, <1>3, <2>2
    <2>4. p[c.f] = c.maxValueOfEliminated => x <= c.maxValueOfEliminated
      BY <2>2
    <2> DEFINE rest == {e \in s.elements : e = v \/ b[<<e, "UB">>] >= x}
               possible == x <= c.maxValueOfEliminated
    <2>5. Max!Raised(c, s, b, v, x) =
            [s EXCEPT !.maxLowerBound = x, !.elements = rest, !.haveEliminated = possible]
      BY DEF Max!Raised
    <2>6. possible \in BOOLEAN /\ rest \subseteq s.elements
      OBVIOUS
    <2>7. \/ s.haveEliminated /\ possible /\ p[c.f] = c.maxValueOfEliminated
          \/ \E e \in rest : p[c.f] = p[e]
      BY <2>3, <2>4 DEF MaxSound
    <2> DEFINE r == Max!AfterLower(c, s, b, v, x)
    <2> HIDE DEF rest, possible
    <2>8. s \in Max!States(c)
      BY DEF MaxSound
    <2>9. /\ r = [s EXCEPT !.maxLowerBound = x, !.elements = rest, !.haveEliminated = possible]
          /\ rest \in SUBSET c.elements
      BY <1>1, <2>1, <2>5, <2>6
    <2> HIDE DEF r
    <2>10. /\ r \in Max!States(c) /\ r.elements = rest
           /\ r.haveEliminated = possible /\ r.maxLowerBound = x
      BY <2>6, <2>8, <2>9 DEF Max!States
    <2>11. MaxSound(c, r, p)
      BY <2>2, <2>7, <2>10 DEF MaxSound
    <2> QED BY <2>11 DEF r
  <1>6. CASE ~(owners # {} /\ x > 0) /\ ~(v \in {c.f} \cup s.elements /\ x > s.maxLowerBound)
    BY <1>6 DEF Max!AfterLower, owners
  <1> QED BY <1>4, <1>5, <1>6

\* The case of the solution is not among those notifyUpperBound of a max drops.
LEMMA MaxAfterUpper ==
    ASSUME NEW b, NEW p, NEW c, NEW s, NEW v \in Int, MaxReads(c, b, p),
           NEW x \in Int, p[v] <= x, p[v] \in Int,
           MaxSound(c, s, p), Max!Holds(c, p), Max!Linear(c, p)
    PROVE  MaxSound(c, Max!AfterUpper(c, s, v, x), p)
  <1> DEFINE owners == {e \in s.elements : c.aux[e] = v}
  <1>1. s.elements \subseteq c.elements
    BY DEF MaxSound, Max!States
  <1>2. \A e \in c.elements : /\ p[e] \in Int /\ p[e] <= p[c.f]
                            /\ p[c.aux[e]] = p[c.f] - p[e]
    BY DEF MaxReads, Max!Variables, Max!Holds, Max!Linear
  <1>3. p[c.f] \in Int /\ s.maxLowerBound \in Int
    BY DEF MaxReads, Max!Variables, MaxSound, Max!States
  <1>4. CASE owners # {} /\ x = 0
    <2>1. Max!AfterUpper(c, s, v, x) =
            [s EXCEPT !.elements = owners, !.haveEliminated = FALSE]
      BY <1>4 DEF Max!AfterUpper
    <2>2. \A e \in owners : p[c.f] = p[e]
      BY <1>1, <1>2, <1>3, <1>4
    <2>3. owners \subseteq s.elements
      OBVIOUS
    <2> HIDE DEF owners
    <2> QED BY <1>4, <2>1, <2>2, <2>3 DEF MaxSound, Max!States
  <1>5. CASE owners = {} /\ v \in s.elements /\ x < s.maxLowerBound
    <2>1. Max!AfterUpper(c, s, v, x) = [s EXCEPT !.elements = @ \ {v}]
      BY <1>5 DEF Max!AfterUpper
    <2>2. p[c.f] # p[v]
      BY <1>3, <1>5 DEF MaxSound
    <2> QED BY <2>1, <2>2 DEF MaxSound, Max!States
  <1>6. CASE ~(owners # {} /\ x = 0) /\ ~(owners = {} /\ v \in s.elements /\ x < s.maxLowerBound)
    BY <1>6 DEF Max!AfterUpper
  <1> QED BY <1>4, <1>5, <1>6

\* getEntailedTightenings of a max spares the solution, as long as the case of
\* the solution is left.
LEMMA MaxEntailed ==
    ASSUME NEW b, NEW p, NEW c, NEW s, MaxReads(c, b, p), MaxSound(c, s, p), Max!Holds(c, p)
    PROVE  Meets(p, Max!Entailed(c, s, b)) /\ Numeric(Max!Entailed(c, s, b))
  <1> DEFINE fUB == b[<<c.f, "UB">>]
             above == Max!LargestOf(c, s, b, "UB")
             below == Max!LargestOf(c, s, b, "LB")
  <1> HIDE DEF fUB, above, below
  <1>1. s.elements \subseteq c.elements
    BY DEF MaxSound, Max!States
  <1>2. \A e \in c.elements :
            /\ p[e] \in Int /\ b[<<e, "LB">>] \in Int /\ b[<<e, "UB">>] \in Int
            /\ b[<<e, "LB">>] <= p[e] /\ p[e] <= b[<<e, "UB">>] /\ p[e] <= p[c.f]
    BY DEF MaxReads, Max!Variables, Max!Holds
  <1>3. /\ p[c.f] \in Int /\ fUB \in Int /\ p[c.f] <= fUB
        /\ c.maxValueOfEliminated \in Int /\ c.maxValueOfEliminated <= p[c.f]
    BY DEF fUB, MaxReads, Max!Variables, Max!Holds
  <1>4. \A x \in above : x \in Int /\ p[c.f] <= x
    <2>1. \A x \in above : /\ x \in Int /\ x >= c.maxValueOfEliminated
                          /\ \A e \in s.elements : x >= b[<<e, "UB">>]
      BY <1>1, <1>2, <1>3 DEF above, Max!LargestOf
    <2>2. CASE p[c.f] = c.maxValueOfEliminated
      BY <2>1, <2>2
    <2>3. ASSUME NEW e \in s.elements, p[c.f] = p[e]
          PROVE  \A x \in above : x \in Int /\ p[c.f] <= x
      <3>1. b[<<e, "UB">>] \in Int /\ p[c.f] <= b[<<e, "UB">>]
        BY <1>1, <1>2, <2>3
      <3> QED BY <1>3, <2>1, <3>1
    <2> QED BY <2>2, <2>3 DEF MaxSound
  <1>5. \A x \in below : x \in Int /\ x <= p[c.f]
    <2>1. \A x \in below : \/ x = c.maxValueOfEliminated
                          \/ \E e \in c.elements : x = b[<<e, "LB">>]
      BY <1>1 DEF below, Max!LargestOf
    <2>2. ASSUME NEW e \in c.elements
          PROVE  b[<<e, "LB">>] \in Int /\ b[<<e, "LB">>] <= p[c.f]
      <3>1. /\ p[e] \in Int /\ b[<<e, "LB">>] \in Int
            /\ b[<<e, "LB">>] <= p[e] /\ p[e] <= p[c.f]
        BY <1>2
      <3> QED BY <1>3, <3>1
    <2> QED BY <1>3, <2>1, <2>2
  <1>6. \A t \in Max!Entailed(c, s, b) :
            \/ \E x \in above : t = Max!Most(c.f, x)
            \/ \E e \in s.elements : t = Max!Most(e, fUB)
            \/ \E x \in below : t = Max!Least(c.f, x)
    BY DEF fUB, above, below, Max!Entailed
  <1>7. \A x \in above : Respects(p, Max!Most(c.f, x)) /\ Max!Most(c.f, x).value \in Int
    BY <1>4 DEF Respects, Max!Most
  <1>8. \A e \in s.elements : Respects(p, Max!Most(e, fUB)) /\ Max!Most(e, fUB).value \in Int
    <2>1. \A e \in s.elements : p[e] <= fUB
      <3>1. ASSUME NEW e \in s.elements
            PROVE  p[e] <= fUB
        <4>1. p[e] \in Int /\ p[e] <= p[c.f]
          BY <1>1, <1>2
        <4> QED BY <1>3, <4>1
      <3> QED BY <3>1
    <2> QED BY <1>3, <2>1 DEF Respects, Max!Most
  <1>9. \A x \in below : Respects(p, Max!Least(c.f, x)) /\ Max!Least(c.f, x).value \in Int
    BY <1>5, <1>3 DEF Respects, Max!Least
  <1> QED BY <1>6, <1>7, <1>8, <1>9, Zenon DEF Meets, Numeric

\* Told of a bound of whichever of its variables, a max keeps the case of the
\* solution.
LEMMA MaxNotified ==
    ASSUME NEW n \in Nat, NEW b \in BoxOver(n), NEW p \in Point(n), Inside(p, b),
           NEW c, NEW s, NEW k \in (0 .. n - 1) \X {"LB", "UB"},
           NEW x \in Int, Respects(p, [key |-> k, value |-> x]),
           Max!Variables(c) \subseteq 0 .. n - 1, c.maxValueOfEliminated \in Int,
           MaxSound(c, s, p), Max!Holds(c, p), Max!Linear(c, p)
    PROVE  /\ MaxReads(c, b, p)
           /\ MaxSound(c, Max!Notified(c, s, b, k, x), p)
  <1>1. MaxReads(c, b, p)
    BY InsideBounds DEF MaxReads
  <1>2. PICK v \in 0 .. n - 1 : k = <<v, "LB">> \/ k = <<v, "UB">>
    OBVIOUS
  <1>3. v \in Int /\ p[v] \in Int
    BY DEF Point
  <1>4. CASE k = <<v, "LB">>
    <2>1. Max!Notified(c, s, b, k, x) = Max!AfterLower(c, s, b, v, x)
      BY <1>4 DEF Max!Notified
    <2>2. MaxSound(c, Max!AfterLower(c, s, b, v, x), p)
      <3>1. x <= p[v]
        BY <1>4 DEF Respects
      <3> QED BY <1>1, <1>3, <3>1, MaxAfterLower, Zenon
    <2> QED BY <1>1, <2>1, <2>2
  <1>5. CASE k = <<v, "UB">>
    <2>1. Max!Notified(c, s, b, k, x) = Max!AfterUpper(c, s, v, x)
      BY <1>5 DEF Max!Notified
    <2>2. MaxSound(c, Max!AfterUpper(c, s, v, x), p)
      <3>1. p[v] <= x
        BY <1>5 DEF Respects
      <3> QED BY <1>1, <1>3, <3>1, MaxAfterUpper, Zenon
    <2> QED BY <1>1, <2>1, <2>2
  <1> QED BY <1>1, <1>2, <1>4, <1>5

\* When one case of a max is left it is the case of the solution.
LEMMA MaxImplied ==
    ASSUME NEW p, NEW c, NEW s, MaxSound(c, s, p), Max!Linear(c, p), Max!Fixed(c, s),
           c.maxValueOfEliminated \in Int, \A v \in Max!Variables(c) : p[v] \in Int
    PROVE  Meets(p, Max!ImpliedSplit(c, s))
  <1>1. p[c.f] \in Int /\ c.maxValueOfEliminated \in Int
    BY DEF Max!Variables
  <1>2. CASE s.haveEliminated /\ s.elements = {}
    BY <1>1, <1>2 DEF MaxSound, Max!ImpliedSplit, Max!EliminatedSplit, Meets, Respects,
       Max!Least, Max!Most
  <1>3. ASSUME ~s.haveEliminated, NEW e \in s.elements, s.elements = {e}
        PROVE  Meets(p, Max!ImpliedSplit(c, s))
    <2>1. p[c.f] = p[e] /\ e \in c.elements
      BY <1>3 DEF MaxSound, Max!States
    <2>2. p[c.aux[e]] = 0
      BY <1>1, <2>1 DEF Max!Linear
    <2>3. (CHOOSE d \in s.elements : TRUE) = e
      BY <1>3
    <2>4. Max!ImpliedSplit(c, s) = {Max!Most(c.aux[e], 0)}
      BY <1>3, <2>3 DEF Max!ImpliedSplit, Max!ElementSplit
    <2> QED BY <2>2, <2>4 DEF Meets, Respects, Max!Most
  <1> QED BY <1>2, <1>3 DEF Max!Fixed

-----------------------------------------------------------------------------
(* Disjunctions *)

DisjSound(c, s, p) ==
    /\ s \in Disj!States(c)
    /\ \A d \in c.disjuncts : Meets(p, d) => d \in s.feasible

\* A disjunct the solution is in is never refuted, so the constraint never
\* finds itself without one.
LEMMA DisjNotified ==
    ASSUME NEW n \in Nat, NEW b \in BoxOver(n), NEW p \in Point(n), Inside(p, b),
           NEW c, NEW s, Disj!Variables(c) \subseteq 0 .. n - 1,
           \A t \in UNION c.disjuncts : t.key[2] \in {"LB", "UB"} /\ t.value \in Int,
           DisjSound(c, s, p), Disj!Holds(c, p)
    PROVE  /\ DisjSound(c, Disj!Notified(c, s, b), p)
           /\ ~Disj!Throws(c, s, b)
  <1>1. ASSUME NEW d \in c.disjuncts, Meets(p, d)
        PROVE  Disj!CaseSplitIsFeasible(b, d)
    <2> SUFFICES ASSUME NEW t \in d
                 PROVE  IF t.key[2] = "LB" THEN b[<<t.key[1], "UB">>] >= t.value
                        ELSE b[<<t.key[1], "LB">>] <= t.value
      BY DEF Disj!CaseSplitIsFeasible
    <2> DEFINE v == t.key[1]
    <2>1. v \in 0 .. n - 1 /\ t.value \in Int
      BY DEF Disj!Variables
    <2>2. IF t.key[2] = "LB" THEN p[v] >= t.value ELSE p[v] <= t.value
      BY <1>1 DEF Meets, Respects
    <2> HIDE DEF v
    <2>3. /\ p[v] \in Int /\ b[<<v, "LB">>] \in Int /\ b[<<v, "UB">>] \in Int
          /\ b[<<v, "LB">>] <= p[v] /\ p[v] <= b[<<v, "UB">>]
      BY <2>1, InsideBounds
    <2>4. IF t.key[2] = "LB" THEN b[<<v, "UB">>] >= t.value ELSE b[<<v, "LB">>] <= t.value
      BY <2>1, <2>2, <2>3
    <2> QED BY <2>4 DEF v
  <1>2. PICK d \in c.disjuncts : Meets(p, d)
    BY DEF Disj!Holds, Disj!Meets, Meets, Disj!Respects, Respects
  <1> DEFINE feasible == {e \in c.disjuncts : Disj!CaseSplitIsFeasible(b, e)}
  <1>3. Disj!Notified(c, s, b) = [s EXCEPT !.feasible = feasible]
    BY DEF Disj!Notified
  <1>4. \A e \in c.disjuncts : Meets(p, e) => e \in feasible
    BY <1>1
  <1>5. feasible \subseteq c.disjuncts
    OBVIOUS
  <1> HIDE DEF feasible
  <1>6. Disj!Notified(c, s, b).feasible = feasible
    BY <1>3 DEF DisjSound, Disj!States
  <1> QED BY <1>2, <1>3, <1>4, <1>5, <1>6 DEF DisjSound, Disj!States, Disj!Throws

\* When one disjunct is left the solution satisfies it.
LEMMA DisjImplied ==
    ASSUME NEW p, NEW c, NEW s, DisjSound(c, s, p), Disj!Holds(c, p), Disj!Fixed(c, s)
    PROVE  Disj!ImpliedSplit(c, s) \in c.disjuncts /\ Meets(p, Disj!ImpliedSplit(c, s))
  <1>1. PICK d \in c.disjuncts : Meets(p, d)
    BY DEF Disj!Holds, Disj!Meets, Meets, Disj!Respects, Respects
  <1>2. s.feasible = {d}
    BY <1>1 DEF DisjSound, Disj!Fixed
  <1>3. (CHOOSE e \in s.feasible : TRUE) = d
    BY <1>2
  <1> QED BY <1>1, <1>3 DEF Disj!ImpliedSplit

-----------------------------------------------------------------------------
(* A constraint of any kind *)

Sound(c, s, p) ==
    CASE c.kind = "relu" -> ReluSound(c, s, p)
      [] c.kind = "leaky" -> LeakySound(c, s, p)
      [] c.kind = "abs"  -> AbsSound(c, s, p)
      [] c.kind = "sign" -> SignSound(c, s, p)
      [] c.kind = "max"  -> MaxSound(c, s, p)
      [] c.kind = "disj" -> DisjSound(c, s, p)

\* Told of a bound, a constraint stays right about the solution: it keeps it,
\* in what it remembers and in what it tightens.
Keeps(c, s, b, k, x, p) ==
    /\ Sound(c, Notified(c, s, b, k, x), p)
    /\ Meets(p, Reaction(c, s, b, k, x))
    /\ Numeric(Reaction(c, s, b, k, x))
    /\ ~Throws(c, s, b)

\* Every kind of constraint that is told of a bound of the solution stays right
\* about the solution, spares it, and does not throw.
LEMMA ToldOfABound ==
    ASSUME NEW n \in Nat, NEW b \in BoxOver(n), NEW p \in Point(n), Inside(p, b),
           NEW c, NEW s, NEW k \in (0 .. n - 1) \X {"LB", "UB"},
           NEW x \in Int, Respects(p, [key |-> k, value |-> x]),
           WellFormed(c, n), Sound(c, s, p), Holds(c, p), Linear(c, p)
    PROVE  Keeps(c, s, b, k, x, p)
  <1>1. c.kind \in {"relu", "leaky", "abs", "sign", "max", "disj"} /\ Watched(c) \subseteq 0 .. n - 1
    BY DEF WellFormed
  <1>2. CASE c.kind = "relu"
    <2>1. /\ Relu!Variables(c) \subseteq 0 .. n - 1
          /\ ReluSound(c, s, p) /\ Relu!Holds(c, p) /\ Relu!Linear(c, p)
      BY <1>1, <1>2 DEF Watched, Sound, Holds, Linear
    <2>2. /\ Notified(c, s, b, k, x) = Relu!Notified(c, s, b, k)
          /\ Reaction(c, s, b, k, x) = Relu!Reaction(c, s, b, k)
      BY <1>2 DEF Notified, Reaction
    <2>3. ReluSound(c, Relu!Notified(c, s, b, k), p)
      BY <2>1, ReluNotified
    <2>4. Meets(p, Relu!Reaction(c, s, b, k)) /\ Numeric(Relu!Reaction(c, s, b, k))
      BY <2>1, ReluReaction
    <2> QED BY <1>2, <2>2, <2>3, <2>4 DEF Keeps, Sound, Throws
  <1>7. CASE c.kind = "leaky"
    <2>1. /\ Leaky!Variables(c) \subseteq 0 .. n - 1 /\ c.k \in Nat \ {0, 1}
          /\ LeakySound(c, s, p) /\ Leaky!Holds(c, p) /\ Leaky!Linear(c, p)
      BY <1>1, <1>7 DEF Watched, Sound, Holds, Linear, WellFormed
    <2>2. /\ Notified(c, s, b, k, x) = Leaky!Notified(c, s, k, x)
          /\ Reaction(c, s, b, k, x) = Leaky!Reaction(c, s, k, x)
      BY <1>7 DEF Notified, Reaction
    <2>3. LeakySound(c, Leaky!Notified(c, s, k, x), p)
      BY <2>1, LeakyNotified
    <2>4. Meets(p, Leaky!Reaction(c, s, k, x)) /\ Numeric(Leaky!Reaction(c, s, k, x))
      BY <2>1, LeakyReaction
    <2> QED BY <1>7, <2>2, <2>3, <2>4 DEF Keeps, Sound, Throws
  <1>3. CASE c.kind = "abs"
    <2>1. /\ Abs!Variables(c) \subseteq 0 .. n - 1
          /\ AbsSound(c, s, p) /\ Abs!Holds(c, p) /\ Abs!Linear(c, p)
      BY <1>1, <1>3 DEF Watched, Sound, Holds, Linear
    <2>2. /\ Notified(c, s, b, k, x) = Abs!Notified(c, s, b)
          /\ Reaction(c, s, b, k, x) = Abs!Reaction(c, s, b, k, x)
      BY <1>3 DEF Notified, Reaction
    <2>3. AbsSound(c, Abs!Notified(c, s, b), p)
      BY <2>1, AbsNotified
    <2>4. Meets(p, Abs!Reaction(c, s, b, k, x)) /\ Numeric(Abs!Reaction(c, s, b, k, x))
      BY <2>1, AbsReaction
    <2> QED BY <1>3, <2>2, <2>3, <2>4 DEF Keeps, Sound, Throws
  <1>4. CASE c.kind = "sign"
    <2>1. /\ Sign!Variables(c) \subseteq 0 .. n - 1
          /\ SignSound(c, s, p) /\ Sign!Holds(c, p)
      BY <1>1, <1>4 DEF Watched, Sound, Holds, Linear
    <2>2. /\ Notified(c, s, b, k, x) = Sign!Notified(c, s, k, x)
          /\ Reaction(c, s, b, k, x) = Sign!Reaction(c, k, x)
      BY <1>4 DEF Notified, Reaction
    <2>3. SignSound(c, Sign!Notified(c, s, k, x), p)
      BY <2>1, SignNotified
    <2>4. Meets(p, Sign!Reaction(c, k, x)) /\ Numeric(Sign!Reaction(c, k, x))
      BY <2>1, SignReaction
    <2> QED BY <1>4, <2>2, <2>3, <2>4 DEF Keeps, Sound, Throws
  <1>5. CASE c.kind = "max"
    <2>1. /\ Max!Variables(c) \subseteq 0 .. n - 1
          /\ MaxSound(c, s, p) /\ Max!Holds(c, p) /\ Max!Linear(c, p)
      BY <1>1, <1>5 DEF Watched, Sound, Holds, Linear
    <2>2. /\ Notified(c, s, b, k, x) = Max!Notified(c, s, b, k, x)
          /\ Reaction(c, s, b, k, x) = Max!Reaction(c, s, b, k, x)
      BY <1>5 DEF Notified, Reaction
    <2>3. MaxReads(c, b, p) /\ MaxSound(c, Max!Notified(c, s, b, k, x), p)
      <3>1. c.maxValueOfEliminated \in Int
        BY <1>5 DEF WellFormed
      <3> QED BY <2>1, <3>1, MaxNotified
    <2>4. Meets(p, Max!Reaction(c, s, b, k, x)) /\ Numeric(Max!Reaction(c, s, b, k, x))
      <3>1. Max!Reaction(c, s, b, k, x) \in {{}, Max!Entailed(c, Max!Notified(c, s, b, k, x), b)}
        BY DEF Max!Reaction
      <3>2. /\ Meets(p, Max!Entailed(c, Max!Notified(c, s, b, k, x), b))
            /\ Numeric(Max!Entailed(c, Max!Notified(c, s, b, k, x), b))
        BY <2>1, <2>3, MaxEntailed
      <3> QED BY <3>1, <3>2 DEF Meets, Numeric
    <2> QED BY <1>5, <2>2, <2>3, <2>4 DEF Keeps, Sound, Throws
  <1>6. CASE c.kind = "disj"
    <2>1. /\ Disj!Variables(c) \subseteq 0 .. n - 1
          /\ DisjSound(c, s, p) /\ Disj!Holds(c, p)
      BY <1>1, <1>6 DEF Watched, Sound, Holds, Linear
    <2>2. /\ Notified(c, s, b, k, x) = Disj!Notified(c, s, b)
          /\ Reaction(c, s, b, k, x) = {}
      BY <1>6 DEF Notified, Reaction
    <2>3. DisjSound(c, Disj!Notified(c, s, b), p) /\ ~Disj!Throws(c, s, b)
      <3>1. \A t \in UNION c.disjuncts : t.key[2] \in {"LB", "UB"} /\ t.value \in Int
        BY <1>6 DEF WellFormed
      <3> QED BY <2>1, <3>1, DisjNotified
    <2> QED BY <1>6, <2>2, <2>3 DEF Keeps, Sound, Throws, Meets, Numeric
  <1> QED BY <1>1, <1>2, <1>3, <1>4, <1>5, <1>6, <1>7

\* A phase is fixed only when the solution is in it, and the splits read numbers.
LEMMA FixedIsRight ==
    ASSUME NEW n \in Nat, NEW p \in Point(n), NEW c, NEW s,
           WellFormed(c, n), Sound(c, s, p), Holds(c, p), Linear(c, p), Fixed(c, s)
    PROVE  Meets(p, ImpliedSplit(c, s)) /\ Numeric(ImpliedSplit(c, s))
  <1>1. c.kind \in {"relu", "leaky", "abs", "sign", "max", "disj"} /\ Watched(c) \subseteq 0 .. n - 1
    BY DEF WellFormed
  <1>2. CASE c.kind = "relu"
    BY <1>2 DEF Sound, ReluSound, Fixed, ImpliedSplit, Relu!Fixed, Relu!ImpliedSplit,
       Relu!States, Numeric, Relu!ActiveSplit, Relu!InactiveSplit, Relu!Least, Relu!Most
  <1>7. CASE c.kind = "leaky"
    BY <1>7 DEF Sound, LeakySound, Fixed, ImpliedSplit, Leaky!Fixed, Leaky!ImpliedSplit,
       Leaky!States, Numeric, Leaky!ActiveSplit, Leaky!InactiveSplit, Leaky!Least, Leaky!Most
  <1>3. CASE c.kind = "abs"
    BY <1>3 DEF Sound, AbsSound, Fixed, ImpliedSplit, Abs!Fixed, Abs!ImpliedSplit,
       Abs!States, Numeric, Abs!PositiveSplit, Abs!NegativeSplit, Abs!Least, Abs!Most
  <1>4. CASE c.kind = "sign"
    BY <1>4 DEF Sound, SignSound, Fixed, ImpliedSplit, Sign!Fixed, Sign!ImpliedSplit,
       Sign!States, Numeric, Sign!PositiveSplit, Sign!NegativeSplit, Sign!Least, Sign!Most
  <1>5. CASE c.kind = "max"
    <2>1. MaxSound(c, s, p) /\ Max!Linear(c, p) /\ Max!Fixed(c, s)
          /\ ImpliedSplit(c, s) = Max!ImpliedSplit(c, s)
      BY <1>5 DEF Sound, Linear, Fixed, ImpliedSplit
    <2>2. c.maxValueOfEliminated \in Int
      BY <1>5 DEF WellFormed
    <2>3. \A v \in Max!Variables(c) : p[v] \in Int
      BY <1>1, <1>5 DEF Watched, Point
    <2>4. Meets(p, Max!ImpliedSplit(c, s))
      BY <2>1, <2>2, <2>3, MaxImplied
    <2>5. Numeric(Max!ImpliedSplit(c, s))
      BY <2>2 DEF Numeric, Max!ImpliedSplit, Max!ElementSplit, Max!EliminatedSplit,
         Max!Least, Max!Most
    <2> QED BY <2>1, <2>4, <2>5
  <1>6. CASE c.kind = "disj"
    <2>1. DisjSound(c, s, p) /\ Disj!Holds(c, p) /\ Disj!Fixed(c, s)
          /\ ImpliedSplit(c, s) = Disj!ImpliedSplit(c, s)
      BY <1>6 DEF Sound, Holds, Fixed, ImpliedSplit
    <2>2. Disj!ImpliedSplit(c, s) \in c.disjuncts /\ Meets(p, Disj!ImpliedSplit(c, s))
      BY <2>1, DisjImplied
    <2> HIDE DEF Disj!ImpliedSplit
    <2> QED BY <1>6, <2>1, <2>2 DEF WellFormed, Numeric
  <1> QED BY <1>1, <1>2, <1>3, <1>4, <1>5, <1>6, <1>7

\* Case splits tighten by integers.
LEMMA SplitsAreNumeric ==
    ASSUME NEW n, NEW c, NEW s, WellFormed(c, n), NEW split \in CaseSplits(c, s)
    PROVE  Numeric(split)
  <1>1. CASE c.kind = "relu"
    BY <1>1 DEF CaseSplits, Numeric, Relu!CaseSplits, Relu!ActiveSplit, Relu!InactiveSplit,
       Relu!Least, Relu!Most
  <1>6. CASE c.kind = "leaky"
    BY <1>6 DEF CaseSplits, Numeric, Leaky!CaseSplits, Leaky!ActiveSplit, Leaky!InactiveSplit,
       Leaky!Least, Leaky!Most
  <1>2. CASE c.kind = "abs"
    BY <1>2 DEF CaseSplits, Numeric, Abs!CaseSplits, Abs!PositiveSplit, Abs!NegativeSplit,
       Abs!Least, Abs!Most
  <1>3. CASE c.kind = "sign"
    BY <1>3 DEF CaseSplits, Numeric, Sign!CaseSplits, Sign!PositiveSplit, Sign!NegativeSplit,
       Sign!Least, Sign!Most
  <1>4. CASE c.kind = "max"
    BY <1>4 DEF CaseSplits, Numeric, WellFormed, Max!CaseSplits, Max!ElementSplit,
       Max!EliminatedSplit, Max!Least, Max!Most
  <1>5. CASE c.kind = "disj"
    BY <1>5 DEF CaseSplits, Numeric, WellFormed, Disj!CaseSplits
  <1> QED BY <1>1, <1>2, <1>3, <1>4, <1>5, <1>6 DEF WellFormed

\* Disabling a constraint changes nothing it knows.
LEMMA DisabledSound ==
    ASSUME NEW c, NEW s, NEW p, Sound(c, s, p),
           c.kind \in {"relu", "leaky", "abs", "sign", "max", "disj"}
    PROVE  Sound(c, [s EXCEPT !.active = FALSE], p)
  <1>1. CASE c.kind = "relu"
    BY <1>1 DEF Sound, ReluSound, Relu!States
  <1>6. CASE c.kind = "leaky"
    BY <1>6 DEF Sound, LeakySound, Leaky!States
  <1>2. CASE c.kind = "abs"
    BY <1>2 DEF Sound, AbsSound, Abs!States
  <1>3. CASE c.kind = "sign"
    BY <1>3 DEF Sound, SignSound, Sign!States
  <1>4. CASE c.kind = "max"
    BY <1>4 DEF Sound, MaxSound, Max!States
  <1>5. CASE c.kind = "disj"
    BY <1>5 DEF Sound, DisjSound, Disj!States
  <1> QED BY <1>1, <1>2, <1>3, <1>4, <1>5, <1>6

\* The state a constraint starts in is right about every solution in the box.
LEMMA SoundAtFirst ==
    ASSUME NEW n \in Nat, NEW b \in BoxOver(n), NEW p \in Point(n), Inside(p, b),
           NEW c, WellFormed(c, n), Holds(c, p)
    PROVE  Sound(c, Initial(c, b), p)
  <1>1. CASE c.kind = "relu"
    BY <1>1 DEF Sound, ReluSound, Initial, Relu!Initial, Relu!States, Relu!NotFixed,
       Relu!Active, Relu!Inactive
  <1>6. CASE c.kind = "leaky"
    BY <1>6 DEF Sound, LeakySound, Initial, Leaky!Initial, Leaky!States, Leaky!NotFixed,
       Leaky!Active, Leaky!Inactive
  <1>2. CASE c.kind = "abs"
    BY <1>2 DEF Sound, AbsSound, Initial, Abs!Initial, Abs!States, Abs!NotFixed,
       Abs!Positive, Abs!Negative
  <1>3. CASE c.kind = "sign"
    BY <1>3 DEF Sound, SignSound, Initial, Sign!Initial, Sign!States, Sign!NotFixed,
       Sign!Positive, Sign!Negative
  <1>4. CASE c.kind = "max"
    <2> DEFINE lb == b[<<c.f, "LB">>]
               possible == lb <= c.maxValueOfEliminated
    <2>1. c.f \in 0 .. n - 1 /\ c.maxValueOfEliminated \in Int
      BY <1>4 DEF WellFormed, Watched, Max!Variables
    <2>2. lb \in Int /\ lb <= p[c.f]
      BY <2>1, InsideBounds
    <2>3. Initial(c, b) = [active |-> TRUE, elements |-> c.elements, maxLowerBound |-> lb,
                           haveEliminated |-> possible]
      BY <1>4 DEF Initial, Max!Initial
    <2>4. possible \in BOOLEAN
      OBVIOUS
    <2>5. \/ possible /\ p[c.f] = c.maxValueOfEliminated
          \/ \E e \in c.elements : p[c.f] = p[e]
      BY <1>4, <2>2 DEF Holds, Max!Holds
    <2> HIDE DEF lb, possible
    <2>6. MaxSound(c, Initial(c, b), p)
      BY <2>2, <2>3, <2>4, <2>5 DEF MaxSound, Max!States
    <2> QED BY <1>4, <2>6 DEF Sound
  <1>5. CASE c.kind = "disj"
    BY <1>5 DEF Sound, DisjSound, Initial, Disj!Initial, Disj!States
  <1> QED BY <1>1, <1>2, <1>3, <1>4, <1>5, <1>6 DEF WellFormed

-----------------------------------------------------------------------------
(* The propagation *)

\* Tightenings that spare the solution keep it in the box.
LEMMA TightenKeeps ==
    ASSUME NEW n \in Nat, NEW p \in Point(n), box \in BoxOver(n), Inside(p, box),
           flags \subseteq DOMAIN box,
           NEW T, Meets(p, T), Numeric(T), Tighten(T, flags)
    PROVE  box' \in BoxOver(n) /\ Inside(p, box') /\ flags' \subseteq DOMAIN box
  <1>1. box' = Tightened(box, T) /\ flags' \subseteq DOMAIN box
    BY DEF Tighten
  <1>2. Tightened(box, T) \in BoxOver(n)
    BY TightenedType
  <1>3. Inside(p, Tightened(box, T))
    BY TightenedKeeps
  <1> QED BY <1>1, <1>2, <1>3

\* The inductive invariant: the solution is one, it is inside the box, and each
\* constraint is right about it.
Following ==
    /\ query \in Queries
    /\ sol \in Point(query.n)
    /\ \A i \in Constraints : Holds(Constraint(i), sol) /\ Linear(Constraint(i), sol)

Spared ==
    /\ box \in BoxOver(query.n)
    /\ Inside(sol, box)
    /\ refuted = FALSE

Right ==
    /\ DOMAIN state = Constraints
    /\ \A i \in Constraints : Sound(Constraint(i), state[i], sol)

Walking ==
    /\ flags \subseteq Keys(query)
    /\ scan \in 0 .. Idle
    /\ turn \in 1 .. Len(query.constraints) + 1
    /\ dropped \in BOOLEAN

\* The value the constraints are being told was a bound, and still spares the solution
Told ==
    turn # 1 =>
        /\ scan # Idle /\ KeyAt(scan) \in flags
        /\ told \in Int /\ Respects(sol, [key |-> KeyAt(scan), value |-> told])

IInv == Following /\ Spared /\ Right /\ Walking /\ Told

\* What QueriesWellFormed says of the query being solved.
LEMMA QueryFacts ==
    ASSUME query \in Queries
    PROVE  /\ query.n \in Nat
           /\ Keys(query) = (0 .. query.n - 1) \X {"LB", "UB"}
           /\ Len(query.constraints) \in Nat
           /\ Constraints = 1 .. Len(query.constraints)
           /\ \A i \in Constraints : WellFormed(Constraint(i), query.n)
           /\ Idle \in Nat
  <1>1. /\ query.n \in Nat
        /\ Len(query.constraints) \in Nat
        /\ DOMAIN query.constraints = 1 .. Len(query.constraints)
        /\ \A i \in DOMAIN query.constraints : WellFormed(query.constraints[i], query.n)
    BY QueriesWellFormed, Zenon
  <1>2. Idle \in Nat
    BY <1>1 DEF Idle
  <1> QED BY <1>1, <1>2, Zenon DEF Keys, Constraints, Constraint

\* The invariant holds at first.
LEMMA InitIInv == Init => IInv
  <1> SUFFICES ASSUME Init
               PROVE  IInv
    OBVIOUS
  <1>1. /\ query.n \in Nat /\ query.boxes \subseteq BoxOver(query.n)
        /\ query.points \subseteq Point(query.n)
    BY QueriesWellFormed DEF Init, Keys, BoxOver, Point
  <1>2. Following
    BY <1>1 DEF Init, Following
  <1>3. Spared
    BY <1>1 DEF Init, Spared
  <1>4. Right
    <2>1. ASSUME NEW i \in Constraints
          PROVE  Sound(Constraint(i), Initial(Constraint(i), box), sol)
      BY <1>1, <1>2, <1>3, QueryFacts, SoundAtFirst DEF Following, Spared
    <2> QED BY <2>1 DEF Init, Right
  <1>5. Walking
    <2>1. Len(query.constraints) \in Nat /\ Idle \in Nat
      BY <1>2, QueryFacts DEF Following
    <2>2. flags = Keys(query) /\ scan = Idle /\ turn = 1 /\ dropped = FALSE
      BY DEF Init
    <2>3. scan \in 0 .. Idle /\ turn \in 1 .. Len(query.constraints) + 1
      BY <2>1, <2>2
    <2> QED BY <2>2, <2>3 DEF Walking
  <1>6. Told
    BY DEF Init, Told
  <1> QED BY <1>2, <1>3, <1>4, <1>5, <1>6 DEF IInv

\* The query, the solution and what holds of it never change.
LEMMA FollowingKept ==
    ASSUME Following, UNCHANGED <<query, sol>>
    PROVE  Following'
  BY DEF Following, Constraints, Constraint

\* Deductions from outside keep the invariant: they spare the solution.
LEMMA DeduceIInv == IInv /\ Deduce => IInv'
  <1> SUFFICES ASSUME IInv, Deduce
               PROVE  IInv'
    OBVIOUS
  <1>1. PICK k \in Keys(query), x \in Bounds :
            /\ Respects(sol, [key |-> k, value |-> x])
            /\ Tighten({[key |-> k, value |-> x]}, flags)
    BY DEF Deduce
  <1>2. UNCHANGED <<query, sol, state, scan, turn, told, refuted, dropped>>
    BY DEF Deduce
  <1>3. Following'
    BY <1>2, FollowingKept DEF IInv
  <1> DEFINE T == {[key |-> k, value |-> x]}
  <1>4. Meets(sol, T) /\ Numeric(T)
    BY <1>1, BoundsAreNumbers DEF Meets, Numeric
  <1>5. DOMAIN box = Keys(query) /\ flags \subseteq DOMAIN box
    BY QueryFacts DEF IInv, Following, Spared, Walking, BoxOver
  <1> HIDE DEF T
  <1>6. box' \in BoxOver(query.n) /\ Inside(sol, box') /\ flags' \subseteq DOMAIN box
    <2>1. query.n \in Nat
      BY QueryFacts DEF IInv, Following
    <2> QED BY <1>1, <1>4, <1>5, <2>1, TightenKeeps DEF T, IInv, Following, Spared
  <1>7. Spared'
    BY <1>2, <1>6 DEF IInv, Spared
  <1>8. Right'
    BY <1>2 DEF IInv, Right, Constraints, Constraint
  <1>9. Walking'
    BY <1>2, <1>5, <1>6 DEF IInv, Walking, Keys, Idle
  <1>10. Told'
    <2>1. scan = Idle
      BY DEF Deduce
    <2> QED BY <1>2, <2>1 DEF IInv, Told
  <1> QED BY <1>3, <1>7, <1>8, <1>9, <1>10 DEF IInv

\* The steps of propagateTightenings that tell nobody keep the invariant, and so
\* does applyAllBoundTightenings.
LEMMA WalkIInv ==
    ASSUME IInv, StartPropagation \/ Skip \/ Lower \/ ApplyAllBoundTightenings
    PROVE  IInv'
  <1>1. UNCHANGED <<query, sol, box, state, refuted>>
    BY DEF StartPropagation, Skip, Lower, ApplyAllBoundTightenings
  <1>2. Following'
    BY <1>1, FollowingKept DEF IInv
  <1>3. Spared'
    BY <1>1 DEF IInv, Spared
  <1>4. Right'
    BY <1>1 DEF IInv, Right, Constraints, Constraint
  <1>5. Idle \in Nat /\ Len(query.constraints) \in Nat
    BY QueryFacts DEF IInv, Following
  <1>6. Walking'
    <2>1. CASE StartPropagation
      BY <2>1, <1>5 DEF StartPropagation, IInv, Walking, Keys, Idle
    <2>2. CASE Skip
      BY <2>2, <1>5 DEF Skip, IInv, Walking, Keys, Idle
    <2>3. CASE Lower
      BY <2>3, <1>5 DEF Lower, IInv, Walking, Keys, Idle
    <2>4. CASE ApplyAllBoundTightenings
      BY <2>4, <1>5 DEF ApplyAllBoundTightenings, IInv, Walking, Keys, Idle
    <2> QED BY <2>1, <2>2, <2>3, <2>4
  <1>7. turn' = 1
    <2>1. turn \in Nat /\ (turn # 1 => scan # Idle /\ KeyAt(scan) \in flags)
      BY <1>5 DEF IInv, Walking, Told
    <2> QED BY <2>1 DEF StartPropagation, Skip, Lower, ApplyAllBoundTightenings
  <1>8. Told'
    BY <1>7 DEF Told
  <1> QED BY <1>2, <1>3, <1>4, <1>6, <1>8 DEF IInv

\* The facts every step with tightenings starts from
LEMMA StepFacts ==
    ASSUME IInv
    PROVE  /\ query.n \in Nat /\ sol \in Point(query.n)
           /\ box \in BoxOver(query.n) /\ Inside(sol, box)
           /\ DOMAIN box = Keys(query) /\ flags \subseteq DOMAIN box
           /\ \A i \in Constraints :
                /\ WellFormed(Constraint(i), query.n)
                /\ Holds(Constraint(i), sol) /\ Linear(Constraint(i), sol)
                /\ Sound(Constraint(i), state[i], sol)
  BY QueryFacts DEF IInv, Following, Spared, Right, Walking, BoxOver

\* What a constraint is told is a bound that the solution respects, though it may be
\* out of date; so telling it leaves it right.
LEMMA TellKeeps ==
    ASSUME IInv, Tell
    PROVE  /\ Value \in Int /\ Respects(sol, [key |-> KeyAt(scan), value |-> Value])
           /\ KeyAt(scan)[1] \in Watched(Constraint(turn)) =>
                Keeps(Constraint(turn), state[turn], box, KeyAt(scan), Value, sol)
  <1> DEFINE c == Constraint(turn)
             s == state[turn]
             k == KeyAt(scan)
             x == Value
  <1>1. turn \in Constraints /\ k \in flags
    BY DEF Tell
  <1>2. x \in Int /\ Respects(sol, [key |-> k, value |-> x])
    <2>1. CASE turn = 1
      <3>1. k \in DOMAIN box /\ box \in BoxOver(query.n) /\ Inside(sol, box)
        BY <1>1, StepFacts
      <3>2. x = box[k]
        BY <2>1 DEF Value
      <3> QED BY <3>1, <3>2 DEF Inside, BoxOver
    <2>2. CASE turn # 1
      BY <2>2 DEF Value, IInv, Told
    <2> QED BY <2>1, <2>2
  <1>3. k \in (0 .. query.n - 1) \X {"LB", "UB"}
    BY <1>1, StepFacts DEF Keys
  <1>4. /\ WellFormed(c, query.n) /\ Sound(c, s, sol)
        /\ Holds(c, sol) /\ Linear(c, sol)
    BY <1>1, StepFacts
  <1> HIDE DEF c, s, k, x
  <1>5. k[1] \in Watched(c) => Keeps(c, s, box, k, x, sol)
    BY <1>2, <1>3, <1>4, StepFacts, ToldOfABound
  <1> QED BY <1>2, <1>5 DEF c, s, k, x

\* Telling one constraint keeps the invariant: the others know nothing new, and
\* it reacts as ToldOfABound says.
LEMMA TellIInv == IInv /\ Tell => IInv'
  <1> SUFFICES ASSUME IInv, Tell
               PROVE  IInv'
    OBVIOUS
  <1> DEFINE c == Constraint(turn)
             s == state[turn]
             k == KeyAt(scan)
             x == Value
  <1>1. /\ turn \in Constraints /\ k \in flags /\ turn' = turn + 1 /\ told' = x
        /\ scan # Idle /\ UNCHANGED <<query, sol, scan, dropped>>
    BY DEF Tell
  <1>2. Following'
    BY <1>1, FollowingKept DEF IInv
  <1>3. Idle' = Idle /\ Keys(query)' = Keys(query) /\ Constraints' = Constraints
    BY <1>1 DEF Idle, Keys, Constraints
  <1>4. flags \subseteq Keys(query) /\ turn' \in 1 .. Len(query.constraints) + 1
    BY <1>1, QueryFacts DEF IInv, Following, Walking
  <1>7. x \in Int /\ Respects(sol, [key |-> k, value |-> x])
    BY TellKeeps
  <1>8. ASSUME flags \subseteq flags'
        PROVE  Told'
    <2>1. scan' = scan /\ sol' = sol /\ KeyAt(scan)' = KeyAt(scan)
      BY <1>1 DEF KeyAt
    <2> HIDE DEF x
    <2> QED BY <1>1, <1>3, <1>7, <1>8, <2>1 DEF Told
  <1>5. CASE k[1] \notin Watched(c)
    <2>1. UNCHANGED <<box, flags, state, refuted>>
      BY <1>5 DEF Tell
    <2>2. Spared'
      BY <1>1, <2>1 DEF IInv, Spared
    <2>3. Right'
      BY <1>1, <2>1 DEF IInv, Right, Constraints, Constraint
    <2>4. Walking'
      BY <1>1, <1>3, <1>4, <2>1 DEF IInv, Walking
    <2> QED BY <1>2, <1>8, <2>1, <2>2, <2>3, <2>4 DEF IInv
  <1>6. CASE k[1] \in Watched(c)
    <2>1. /\ state' = [state EXCEPT ![turn] = Notified(c, s, box, k, x)]
          /\ Tighten(Reaction(c, s, box, k, x), flags)
          /\ refuted' = (refuted \/ Throws(c, s, box))
      BY <1>6 DEF Tell
    <2>4. Keeps(c, s, box, k, x, sol)
      BY <1>6, TellKeeps
    <2> HIDE DEF c, s, k, x
    <2>5. box' \in BoxOver(query.n) /\ Inside(sol, box') /\ flags' \subseteq DOMAIN box
      BY <2>1, <2>4, StepFacts, TightenKeeps DEF Keeps
    <2>6. refuted' = FALSE
      BY <2>1, <2>4 DEF Keeps, IInv, Spared
    <2>7. Spared'
      BY <1>1, <2>5, <2>6 DEF Spared
    <2>8. Right'
      <3>1. DOMAIN state = Constraints /\ DOMAIN state' = Constraints
        BY <2>1 DEF IInv, Right
      <3>2. ASSUME NEW i \in Constraints
            PROVE  Sound(Constraint(i), state'[i], sol)
        <4>1. CASE i = turn
          <5>1. state'[i] = Notified(c, s, box, k, x)
            BY <2>1, <3>1, <4>1
          <5> QED BY <2>4, <4>1, <5>1 DEF Keeps, c
        <4>2. CASE i # turn
          <5>1. state'[i] = state[i]
            BY <2>1, <3>1, <4>2
          <5> QED BY <5>1, StepFacts
        <4> QED BY <4>1, <4>2
      <3> QED BY <1>1, <1>3, <3>1, <3>2 DEF Right, Constraint
    <2>9. Walking'
      BY <1>1, <1>3, <1>4, <2>5, StepFacts DEF IInv, Walking
    <2>10. flags \subseteq flags'
      BY <2>1 DEF Tighten
    <2> QED BY <1>2, <1>8, <2>7, <2>8, <2>9, <2>10 DEF IInv
  <1> QED BY <1>5, <1>6

\* A constraint is disabled and a split that spares the solution is applied.
LEMMA SplitIInv ==
    ASSUME IInv, NEW i \in Constraints, NEW split, Meets(sol, split), Numeric(split),
           state' = [state EXCEPT ![i].active = FALSE], Tighten(split, flags),
           scan = Idle, UNCHANGED <<query, sol, scan, turn, told, refuted, dropped>>
    PROVE  IInv'
  <1>1. Following'
    BY FollowingKept DEF IInv
  <1>2. Idle' = Idle /\ Keys(query)' = Keys(query) /\ Constraints' = Constraints
    BY DEF Idle, Keys, Constraints
  <1>3. box' \in BoxOver(query.n) /\ Inside(sol, box') /\ flags' \subseteq DOMAIN box
    BY StepFacts, TightenKeeps
  <1>4. Spared'
    BY <1>3 DEF IInv, Spared
  <1>5. Right'
    <2>1. DOMAIN state = Constraints /\ DOMAIN state' = Constraints
      BY DEF IInv, Right
    <2>2. ASSUME NEW j \in Constraints
          PROVE  Sound(Constraint(j), state'[j], sol)
      <3>1. CASE j = i
        <4>1. state'[j] = [state[j] EXCEPT !.active = FALSE]
          BY <2>1, <3>1
        <4>2. /\ Sound(Constraint(j), state[j], sol)
              /\ Constraint(j).kind \in {"relu", "leaky", "abs", "sign", "max", "disj"}
          BY StepFacts DEF WellFormed
        <4> QED BY <4>1, <4>2, DisabledSound
      <3>2. CASE j # i
        <4>1. state'[j] = state[j]
          BY <2>1, <3>2
        <4> QED BY <4>1, StepFacts
      <3> QED BY <3>1, <3>2
    <2> QED BY <1>2, <2>1, <2>2 DEF Right, Constraint
  <1>6. Walking'
    BY <1>2, <1>3, StepFacts DEF IInv, Walking
  <1>7. Told'
    <2>1. turn' = 1
      BY DEF IInv, Told
    <2> QED BY <2>1 DEF Told
  <1> QED BY <1>1, <1>4, <1>5, <1>6, <1>7 DEF IInv

\* The split a fixed phase implies keeps the invariant: the phase is the solution's.
LEMMA ApplyValidSplitIInv == IInv /\ ApplyValidSplit => IInv'
  <1> SUFFICES ASSUME IInv, ApplyValidSplit
               PROVE  IInv'
    OBVIOUS
  <1>1. PICK i \in Constraints :
            /\ Fixed(Constraint(i), state[i])
            /\ state' = [state EXCEPT ![i].active = FALSE]
            /\ Tighten(ImpliedSplit(Constraint(i), state[i]), flags)
    BY DEF ApplyValidSplit
  <1>2. scan = Idle /\ UNCHANGED <<query, sol, scan, turn, told, refuted, dropped>>
    BY DEF ApplyValidSplit
  <1>3. /\ Meets(sol, ImpliedSplit(Constraint(i), state[i]))
        /\ Numeric(ImpliedSplit(Constraint(i), state[i]))
    BY <1>1, StepFacts, FixedIsRight
  <1> QED BY <1>1, <1>2, <1>3, SplitIInv

\* The case split that is followed keeps the invariant.
LEMMA PerformSplitIInv == IInv /\ PerformSplit => IInv'
  <1> SUFFICES ASSUME IInv, PerformSplit
               PROVE  IInv'
    OBVIOUS
  <1>1. PICK i \in Constraints :
            /\ state' = [state EXCEPT ![i].active = FALSE]
            /\ \E split \in CaseSplits(Constraint(i), state[i]) :
                    Meets(sol, split) /\ Tighten(split, flags)
    BY DEF PerformSplit
  <1>2. PICK split \in CaseSplits(Constraint(i), state[i]) :
            Meets(sol, split) /\ Tighten(split, flags)
    BY <1>1
  <1>3. scan = Idle /\ UNCHANGED <<query, sol, scan, turn, told, refuted, dropped>>
    BY DEF PerformSplit
  <1>4. Numeric(split)
    BY StepFacts, SplitsAreNumeric
  <1> QED BY <1>1, <1>2, <1>3, <1>4, SplitIInv

\* Every step keeps the invariant.
LEMMA IInvStep == IInv /\ [Next]_vars => IInv'
  <1> SUFFICES ASSUME IInv, [Next]_vars
               PROVE  IInv'
    OBVIOUS
  <1>1. CASE Deduce
    BY <1>1, DeduceIInv
  <1>2. CASE StartPropagation \/ Skip \/ Lower \/ ApplyAllBoundTightenings
    BY <1>2, WalkIInv
  <1>3. CASE Tell
    BY <1>3, TellIInv
  <1>4. CASE ApplyValidSplit
    BY <1>4, ApplyValidSplitIInv
  <1>5. CASE PerformSplit
    BY <1>5, PerformSplitIInv
  <1>6. CASE UNCHANGED vars
    <2>1. UNCHANGED <<query, sol, box, flags, state, scan, turn, told, refuted, dropped>>
      BY <1>6 DEF vars
    <2> QED BY <2>1 DEF IInv, Following, Spared, Right, Walking, Told, Constraints,
               Constraint, Keys, KeyAt, Idle
  <1> QED BY <1>1, <1>2, <1>3, <1>4, <1>5, <1>6 DEF Next

\* The invariant is one: it holds at first and every step keeps it.
THEOREM IInvInvariant == Spec => []IInv
  BY InitIInv, IInvStep, PTL DEF Spec

\* The walk over the flagged bounds stays on them, and the states of the
\* constraints keep their types, in every query.
THEOREM PropagationTypeOK == Spec => []TypeOK
  <1>1. IInv => TypeOK
    <2> SUFFICES ASSUME IInv
                 PROVE  TypeOK
      OBVIOUS
    <2>1. ASSUME NEW i \in Constraints
          PROVE  state[i] \in States(Constraint(i))
      <3>1. WellFormed(Constraint(i), query.n) /\ Sound(Constraint(i), state[i], sol)
        BY StepFacts
      <3> QED BY <3>1 DEF WellFormed, Sound, States, ReluSound, LeakySound, AbsSound, SignSound, MaxSound,
                 DisjSound
    <2>2. DOMAIN box = Keys(query) /\ refuted \in BOOLEAN
      BY StepFacts DEF IInv, Spared
    <2> QED BY <2>1, <2>2 DEF IInv, Walking, TypeOK
  <1> QED BY <1>1, IInvInvariant, PTL

\* Propagation is sound: whatever the query, the bounds the engine deduces and
\* the order in which the constraints are told, no reaction and no split that is
\* applied cuts a solution off, and no constraint declares it infeasible.
THEOREM SolutionAlwaysKept == Spec => []SolutionKept
  <1>1. IInv => SolutionKept
    BY DEF IInv, Spared, SolutionKept
  <1> QED BY <1>1, IInvInvariant, PTL

\* A phase that is fixed is the phase of every solution in the box: the split
\* that applyValidConstraintCaseSplit makes without branching loses nothing.
THEOREM FixedPhaseAlwaysRight == Spec => []FixedPhaseRight
  <1>1. IInv => FixedPhaseRight
    BY StepFacts, FixedIsRight DEF FixedPhaseRight
  <1> QED BY <1>1, IInvInvariant, PTL

-----------------------------------------------------------------------------
(* Tightenings take effect *)

\* A set of natural numbers has a least element.
LEMMA LeastNatural ==
    ASSUME NEW D \in SUBSET Nat, D # {}
    PROVE  \E d \in D : \A y \in D : d <= y
<1> DEFINE Less == {ss \in Nat \X Nat : ss[1] < ss[2]}
<1>1. IsWellFoundedOn(Less, Nat)
  <2>1. OpToRel(<, Nat) = Less
    BY DEF OpToRel
  <2>. QED
    BY <2>1, NatLessThanWellFounded
<1>2. PICK d \in D : \A y \in D : <<y, d>> \notin Less
  <2> HIDE DEF Less
  <2>. QED
    BY <1>1, WFMin
<1>3. \A y \in D : ~(y < d)
  BY <1>2
<1>. QED
  BY <1>3

\* A set of integers with an upper bound has a largest element.
LEMMA LargestExists ==
    ASSUME NEW S \in SUBSET Int, S # {}, NEW u \in Int, \A x \in S : x <= u
    PROVE  \E x \in S : \A y \in S : y <= x
<1> DEFINE D == {d \in Nat : u - d \in S}
<1>1. D \in SUBSET Nat /\ D # {}
  <2>1. PICK x \in S : TRUE
    OBVIOUS
  <2>2. u - x \in Nat /\ u - (u - x) = x
    BY <2>1
  <2>. QED
    BY <2>1, <2>2
<1>2. PICK d \in D : \A y \in D : d <= y
  <2> HIDE DEF D
  <2>. QED
    BY <1>1, LeastNatural
<1>3. ASSUME NEW y \in S
      PROVE  y <= u - d
  <2>1. u - y \in Nat /\ u - (u - y) = y
    OBVIOUS
  <2>2. d <= u - y
    BY <1>2, <2>1
  <2>. QED
    BY <2>1, <2>2
<1>. QED
  BY <1>2, <1>3

\* The same of a lower bound and a smallest element
LEMMA SmallestExists ==
    ASSUME NEW S \in SUBSET Int, S # {}, NEW l \in Int, \A x \in S : l <= x
    PROVE  \E x \in S : \A y \in S : x <= y
<1> DEFINE D == {d \in Nat : l + d \in S}
<1>1. D \in SUBSET Nat /\ D # {}
  <2>1. PICK x \in S : TRUE
    OBVIOUS
  <2>2. x - l \in Nat /\ l + (x - l) = x
    BY <2>1
  <2>. QED
    BY <2>1, <2>2
<1>2. PICK d \in D : \A y \in D : d <= y
  <2> HIDE DEF D
  <2>. QED
    BY <1>1, LeastNatural
<1>3. ASSUME NEW y \in S
      PROVE  l + d <= y
  <2>1. y - l \in Nat /\ l + (y - l) = y
    OBVIOUS
  <2>2. d <= y - l
    BY <1>2, <2>1
  <2>. QED
    BY <2>1, <2>2
<1>. QED
  BY <1>2, <1>3

\* Nothing leaves a box when it grows: a point inside the tightened box was inside
LEMMA TightenedWithin ==
    ASSUME NEW n \in Nat, NEW b \in BoxOver(n), NEW T, Numeric(T), NEW p \in Point(n),
           Inside(p, Tightened(b, T))
    PROVE  Inside(p, b)
<1>1. DOMAIN Tightened(b, T) = DOMAIN b /\ DOMAIN b = (0 .. n - 1) \X {"LB", "UB"}
  BY DEF Tightened, BoxOver
<1>2. SUFFICES ASSUME NEW k \in DOMAIN b PROVE Respects(p, [key |-> k, value |-> b[k]])
  BY DEF Inside
<1>3. /\ Respects(p, [key |-> k, value |-> Tightened(b, T)[k]])
      /\ b[k] \in Int /\ p[k[1]] \in Int /\ k[2] \in {"LB", "UB"}
  BY <1>1, <1>2 DEF Inside, BoxOver, Point
<1>4. CASE Tightened(b, T)[k] = b[k]
  BY <1>3, <1>4
<1>5. ASSUME NEW t \in T, Tighter(k, t.value, b[k]), Tightened(b, T)[k] = t.value
      PROVE  Respects(p, [key |-> k, value |-> b[k]])
  BY <1>3, <1>5 DEF Respects, Tighter, Numeric
<1>6. \/ Tightened(b, T)[k] = b[k]
      \/ \E t \in T : Tighter(k, t.value, b[k]) /\ Tightened(b, T)[k] = t.value
  BY <1>2 DEF Tightened, Effective
<1>. QED
  BY <1>4, <1>5, <1>6

\* A tightening that spares some point takes effect: its integers are bounded by the
\* point, so that there is a tightest one for every bound
LEMMA TightenedMeets ==
    ASSUME NEW n \in Nat, NEW b \in BoxOver(n), NEW T, Numeric(T), NEW q \in Point(n), Meets(q, T),
           \A t \in T : t.key \in DOMAIN b,
           NEW p \in Point(n), Inside(p, Tightened(b, T))
    PROVE  Meets(p, T)
<1>1. DOMAIN Tightened(b, T) = DOMAIN b /\ DOMAIN b = (0 .. n - 1) \X {"LB", "UB"}
  BY DEF Tightened, BoxOver
<1>2. SUFFICES ASSUME NEW t \in T PROVE Respects(p, t)
  BY DEF Meets
<1> DEFINE k == t.key
           E == Effective(b, T, k)
<1>3. /\ k \in DOMAIN b /\ k[2] \in {"LB", "UB"} /\ b[k] \in Int /\ t.value \in Int
      /\ p[k[1]] \in Int /\ q[k[1]] \in Int
  BY <1>1 DEF Numeric, BoxOver, Point
<1>4. Respects(p, [key |-> k, value |-> Tightened(b, T)[k]])
  BY <1>1, <1>3 DEF Inside
<1>5. Inside(p, b)
  BY TightenedWithin
<1>6. CASE ~Tighter(k, t.value, b[k])
  BY <1>3, <1>5, <1>6 DEF Inside, Respects, Tighter
<1>7. CASE Tighter(k, t.value, b[k])
  <2> DEFINE V == {u.value : u \in {w \in T : w.key = k}}
  <2>1. V \in SUBSET Int /\ V # {}
    BY <1>3 DEF Numeric
  <2>2. \E x \in V : \A y \in V : ~Tighter(k, y, x)
    <3>1. CASE k[2] = "LB"
      <4>1. \A x \in V : x <= q[k[1]]
        BY <3>1 DEF Meets, Respects
      <4> HIDE DEF V
      <4>2. PICK x \in V : \A y \in V : y <= x
        BY <1>3, <2>1, <4>1, LargestExists
      <4>3. \A y \in V : ~(y > x)
        BY <2>1, <4>2
      <4>. QED
        BY <3>1, <4>3 DEF Tighter
    <3>2. CASE k[2] = "UB"
      <4>1. \A x \in V : q[k[1]] <= x
        BY <3>2 DEF Meets, Respects
      <4> HIDE DEF V
      <4>2. PICK x \in V : \A y \in V : x <= y
        BY <1>3, <2>1, <4>1, SmallestExists
      <4>3. \A y \in V : ~(y < x)
        BY <2>1, <4>2
      <4>. QED
        BY <3>2, <4>3 DEF Tighter
    <3>. QED
      BY <1>3, <3>1, <3>2
  <2>3. PICK w \in T : w.key = k /\ \A u \in T : u.key = k => ~Tighter(k, u.value, w.value)
    BY <2>2
  <2>4. ~Tighter(k, t.value, w.value) /\ w.value \in Int
    BY <2>3 DEF Numeric
  <2>5. Tighter(k, w.value, b[k])
    BY <1>3, <1>7, <2>4 DEF Tighter
  <2>6. w \in E
    BY <2>3, <2>5 DEF Effective
  <2>7. PICK e \in E : Tightened(b, T)[k] = e.value
    BY <1>3, <2>6 DEF Tightened
  <2>8. e \in T /\ ~Tighter(k, t.value, e.value) /\ e.value \in Int
    BY <2>7 DEF Effective, Numeric
  <2>. QED
    BY <1>3, <1>4, <2>7, <2>8 DEF Respects, Tighter
<1>. QED
  BY <1>6, <1>7

-----------------------------------------------------------------------------
(* What a disabled constraint demands *)

\* What the preprocessed bounds say of every point, besides the disjuncts
Basic(c, p) ==
    CASE c.kind = "relu" -> p[c.f] >= 0 /\ p[c.aux] >= 0
      [] c.kind = "leaky" -> p[c.activeAux] >= 0 /\ p[c.inactiveAux] >= 0
      [] c.kind = "abs"  -> p[c.f] >= 0 /\ p[c.posAux] >= 0 /\ p[c.negAux] >= 0
      [] c.kind = "sign" -> -1 <= p[c.f] /\ p[c.f] <= 1
      [] c.kind = "max"  -> /\ p[c.f] >= c.maxValueOfEliminated
                            /\ \A e \in c.elements : p[c.aux[e]] >= 0
      [] OTHER -> TRUE

\* The splits a constraint is disabled with
Disabling(c) ==
    CASE c.kind = "relu" -> Relu!CaseSplits(c)
      [] c.kind = "leaky" -> Leaky!CaseSplits(c)
      [] c.kind = "abs"  -> Abs!CaseSplits(c)
      [] c.kind = "sign" -> Sign!CaseSplits(c)
      [] c.kind = "max"  -> {Max!ElementSplit(c, e) : e \in c.elements} \cup {Max!EliminatedSplit(c)}
      [] c.kind = "disj" -> c.disjuncts

\* The largest lower bound of the elements is the preprocessor's lower bound of f
LEMMA MaxFirst ==
    ASSUME NEW n \in Nat, NEW b \in BoxOver(n), NEW q \in Point(n), Inside(q, b),
           NEW c, WellFormed(c, n), c.kind = "max", NEW s, s.elements = c.elements,
           Max!Holds(c, q), \A t \in Max!Entailed(c, s, b) : ~Tighter(t.key, t.value, b[t.key])
    PROVE  b[<<c.f, "LB">>] >= c.maxValueOfEliminated
<1> DEFINE B == {b[<<e, "LB">>] : e \in s.elements} \cup {c.maxValueOfEliminated}
<1>1. c.f \in 0 .. n - 1 /\ c.elements \subseteq 0 .. n - 1 /\ c.maxValueOfEliminated \in Int
  BY DEF WellFormed, Watched, Max!Variables
<1>2. \A e \in c.elements : b[<<e, "LB">>] \in Int /\ b[<<e, "LB">>] <= q[e] /\ q[e] \in Int
  BY <1>1, InsideBounds
<1>3. q[c.f] \in Int /\ b[<<c.f, "LB">>] \in Int
  BY <1>1, InsideBounds
<1>4. B \in SUBSET Int /\ c.maxValueOfEliminated \in B
  BY <1>1, <1>2
<1>5. ASSUME NEW x \in B
      PROVE  x <= q[c.f]
  <2>1. CASE x = c.maxValueOfEliminated
    BY <2>1 DEF Max!Holds
  <2>2. ASSUME NEW e \in c.elements, x = b[<<e, "LB">>]
        PROVE  x <= q[c.f]
    BY <1>2, <1>3, <2>2 DEF Max!Holds
  <2>. QED
    BY <2>1, <2>2
<1>6. PICK y \in B : \A x \in B : x <= y
  <2> HIDE DEF B
  <2>. QED
    BY <1>3, <1>4, <1>5, LargestExists
<1>7. y \in Int /\ y >= c.maxValueOfEliminated
  BY <1>4, <1>6
<1>8. CASE b[<<c.f, "LB">>] < y
  <2>1. y \in Max!LargestOf(c, s, b, "LB")
    BY <1>4, <1>6 DEF Max!LargestOf
  <2>2. Max!Least(c.f, y) \in Max!Entailed(c, s, b)
    BY <1>8, <2>1 DEF Max!Entailed
  <2>3. ~Tighter(<<c.f, "LB">>, y, b[<<c.f, "LB">>])
    BY <2>2 DEF Max!Least
  <2>. QED
    BY <1>3, <1>7, <1>8, <2>3 DEF Tighter
<1>. QED
  BY <1>1, <1>3, <1>7, <1>8

\* A bound the box knows
LEMMA KnownBound ==
    ASSUME NEW n \in Nat, NEW b \in BoxOver(n), NEW p \in Point(n), Inside(p, b),
           NEW v \in 0 .. n - 1, NEW x \in Int
    PROVE  /\ b[<<v, "LB">>] >= x => p[v] >= x
           /\ ~Tighter(<<v, "LB">>, x, b[<<v, "LB">>]) => p[v] >= x
           /\ ~Tighter(<<v, "UB">>, x, b[<<v, "UB">>]) => p[v] <= x
<1>1. /\ p[v] \in Int /\ b[<<v, "LB">>] \in Int /\ b[<<v, "LB">>] <= p[v]
      /\ b[<<v, "UB">>] \in Int /\ p[v] <= b[<<v, "UB">>]
  BY InsideBounds
<1>. QED
  BY <1>1 DEF Tighter

\* The preprocessor has made the bounds as tight as the constraints entail.
LEMMA BasicAtFirst ==
    ASSUME NEW n \in Nat, NEW b \in BoxOver(n), NEW q \in Point(n), Inside(q, b),
           NEW c, WellFormed(c, n), Holds(c, q), NEW s, s = Initial(c, b),
           \A t \in Entailed(c, s, b) : ~Tighter(t.key, t.value, b[t.key]),
           \A v \in Auxiliary(c) : b[<<v, "LB">>] >= 0,
           NEW p \in Point(n), Inside(p, b)
    PROVE  Basic(c, p)
<1>0. 0 \in Int /\ -1 \in Int /\ 1 \in Int
  OBVIOUS
<1>1. ASSUME NEW v \in 0 .. n - 1, b[<<v, "LB">>] >= 0
      PROVE  p[v] >= 0
  BY <1>0, <1>1, KnownBound, Zenon
<1>2. CASE c.kind = "relu"
  <2>1. c.f \in 0 .. n - 1 /\ c.aux \in 0 .. n - 1
    BY <1>2 DEF WellFormed, Watched, Relu!Variables
  <2>2. Relu!Least(c.f, 0) \in Entailed(c, s, b)
    BY <1>2 DEF Entailed, Relu!Entailed, Relu!EntailedActive, Relu!EntailedInactive,
       Relu!EntailedUnknown
  <2>3. p[c.f] >= 0
    <3>1. ~Tighter(<<c.f, "LB">>, 0, b[<<c.f, "LB">>])
      BY <2>2 DEF Relu!Least
    <3>. QED
      BY <1>0, <2>1, <3>1, KnownBound, Zenon
  <2>4. p[c.aux] >= 0
    BY <1>1, <1>2, <2>1 DEF Auxiliary
  <2>. QED
    BY <1>2, <2>3, <2>4 DEF Basic
<1>3. CASE c.kind = "leaky"
  <2>1. c.activeAux \in 0 .. n - 1 /\ c.inactiveAux \in 0 .. n - 1
    BY <1>3 DEF WellFormed, Watched, Leaky!Variables
  <2>. QED
    BY <1>1, <1>3, <2>1 DEF Auxiliary, Basic
<1>4. CASE c.kind = "abs"
  <2>1. c.f \in 0 .. n - 1 /\ c.posAux \in 0 .. n - 1 /\ c.negAux \in 0 .. n - 1
    BY <1>4 DEF WellFormed, Watched, Abs!Variables
  <2>2. Abs!Least(c.f, 0) \in Entailed(c, s, b)
    BY <1>4 DEF Entailed, Abs!Entailed
  <2>3. p[c.f] >= 0
    <3>1. ~Tighter(<<c.f, "LB">>, 0, b[<<c.f, "LB">>])
      BY <2>2 DEF Abs!Least
    <3>. QED
      BY <1>0, <2>1, <3>1, KnownBound, Zenon
  <2>. QED
    BY <1>1, <1>4, <2>1, <2>3 DEF Auxiliary, Basic
<1>5. CASE c.kind = "sign"
  <2>1. c.f \in 0 .. n - 1
    BY <1>5 DEF WellFormed, Watched, Sign!Variables
  <2>2. Sign!Least(c.f, -1) \in Entailed(c, s, b) /\ Sign!Most(c.f, 1) \in Entailed(c, s, b)
    BY <1>5 DEF Entailed, Sign!Entailed
  <2>3. p[c.f] >= -1 /\ p[c.f] <= 1
    <3>1. /\ ~Tighter(<<c.f, "LB">>, -1, b[<<c.f, "LB">>])
          /\ ~Tighter(<<c.f, "UB">>, 1, b[<<c.f, "UB">>])
      BY <2>2 DEF Sign!Least, Sign!Most
    <3>. QED
      BY <1>0, <2>1, <3>1, KnownBound, Zenon
  <2>4. p[c.f] \in Int
    BY <2>1 DEF Point
  <2>. QED
    BY <1>5, <2>3, <2>4 DEF Basic
<1>6. CASE c.kind = "max"
  <2>1. /\ c.f \in 0 .. n - 1 /\ c.maxValueOfEliminated \in Int
        /\ \A e \in c.elements : c.aux[e] \in 0 .. n - 1
    BY <1>6 DEF WellFormed, Watched, Max!Variables
  <2>2. b[<<c.f, "LB">>] >= c.maxValueOfEliminated
    <3>1. s.elements = c.elements /\ Max!Holds(c, q)
      BY <1>6 DEF Initial, Max!Initial, Holds
    <3>2. \A t \in Max!Entailed(c, s, b) : ~Tighter(t.key, t.value, b[t.key])
      BY <1>6 DEF Entailed
    <3>. QED
      BY <1>6, <3>1, <3>2, MaxFirst
  <2>3. p[c.f] >= c.maxValueOfEliminated
    BY <2>1, <2>2, KnownBound, Zenon
  <2>4. \A e \in c.elements : p[c.aux[e]] >= 0
    BY <1>1, <1>6, <2>1 DEF Auxiliary
  <2>. QED
    BY <1>6, <2>3, <2>4 DEF Basic
<1>7. CASE c.kind = "disj"
  BY <1>7 DEF Basic
<1>. QED
  BY <1>2, <1>3, <1>4, <1>5, <1>6, <1>7 DEF WellFormed

\* A split makes the rest of its constraint follow.
LEMMA SplitSuffices ==
    ASSUME NEW n \in Nat, NEW c, WellFormed(c, n), NEW p \in Point(n), Basic(c, p), Linear(c, p),
           NEW split \in Disabling(c), Meets(p, split)
    PROVE  HoldsAt(c, p)
<1>1. CASE c.kind = "relu"
  <2>1. p[c.b] \in Int /\ p[c.f] \in Int /\ p[c.aux] \in Int
    BY <1>1 DEF WellFormed, Watched, Relu!Variables, Point
  <2>2. p[c.f] >= 0 /\ p[c.aux] >= 0 /\ p[c.aux] = p[c.f] - p[c.b]
    BY <1>1 DEF Basic, Linear, Relu!Linear
  <2>3. CASE split = Relu!InactiveSplit(c)
    <3>1. p[c.b] <= 0 /\ p[c.f] <= 0
      BY <2>3 DEF Relu!InactiveSplit, Relu!Most, Meets, Respects
    <3>. QED
      BY <1>1, <2>1, <2>2, <3>1 DEF HoldsAt, Holds, Relu!Holds
  <2>4. CASE split = Relu!ActiveSplit(c)
    <3>1. p[c.b] >= 0 /\ p[c.aux] <= 0
      BY <2>4 DEF Relu!ActiveSplit, Relu!Most, Relu!Least, Meets, Respects
    <3>. QED
      BY <1>1, <2>1, <2>2, <3>1 DEF HoldsAt, Holds, Relu!Holds
  <2>. QED
    BY <1>1, <2>3, <2>4 DEF Disabling, Relu!CaseSplits
<1>2. CASE c.kind = "leaky"
  <2> DEFINE b == p[c.b]
             f == p[c.f]
             i == p[c.inactiveAux]
             g == c.k * f
  <2>1. b \in Int /\ f \in Int /\ p[c.activeAux] \in Int /\ i \in Int /\ c.k \in Nat \ {0, 1}
    BY <1>2 DEF WellFormed, Watched, Leaky!Variables, Point
  <2>2. /\ p[c.activeAux] >= 0 /\ i >= 0 /\ p[c.activeAux] = f - b
        /\ c.k * i = g - b
    BY <1>2 DEF Basic, Linear, Leaky!Linear
  <2>3. g \in Int
    BY <2>1, TimesType
  <2>4. CASE split = Leaky!InactiveSplit(c)
    <3>1. b <= 0 /\ f <= 0 /\ i <= 0
      BY <2>4 DEF Leaky!InactiveSplit, Leaky!Most, Meets, Respects
    <3>2. i = 0
      BY <2>1, <2>2, <3>1
    <3>3. c.k * i = 0
      BY <2>1, <3>2
    <3> HIDE DEF g
    <3>4. b = g
      BY <2>1, <2>2, <2>3, <3>3
    <3>5. ~(f > 0)
      BY <2>1, <3>1
    <3>. QED
      BY <1>2, <3>4, <3>5 DEF HoldsAt, Holds, Leaky!Holds, g
  <2>5. CASE split = Leaky!ActiveSplit(c)
    <3>1. b >= 0 /\ f >= 0 /\ p[c.activeAux] <= 0
      BY <2>5 DEF Leaky!ActiveSplit, Leaky!Most, Leaky!Least, Meets, Respects
    <3> HIDE DEF g
    <3>2. b = f
      BY <2>1, <2>2, <3>1
    <3>3. f <= 0 => f = 0 /\ g = 0
      BY <2>1, <3>1 DEF g
    <3>4. f <= 0 => b = g
      BY <3>2, <3>3
    <3>. QED
      BY <1>2, <3>2, <3>4 DEF HoldsAt, Holds, Leaky!Holds, g
  <2>. QED
    BY <1>2, <2>4, <2>5 DEF Disabling, Leaky!CaseSplits
<1>3. CASE c.kind = "abs"
  <2>1. p[c.b] \in Int /\ p[c.f] \in Int /\ p[c.posAux] \in Int /\ p[c.negAux] \in Int
    BY <1>3 DEF WellFormed, Watched, Abs!Variables, Point
  <2>2. /\ p[c.f] >= 0 /\ p[c.posAux] >= 0 /\ p[c.negAux] >= 0
        /\ p[c.posAux] = p[c.f] - p[c.b] /\ p[c.negAux] = p[c.f] + p[c.b]
    BY <1>3 DEF Basic, Linear, Abs!Linear
  <2>3. CASE split = Abs!NegativeSplit(c)
    <3>1. p[c.negAux] <= 0
      BY <2>3 DEF Abs!NegativeSplit, Abs!Most, Meets, Respects
    <3>2. p[c.f] = -p[c.b]
      BY <2>1, <2>2, <3>1
    <3>. QED
      BY <1>3, <2>2, <3>2 DEF HoldsAt, Holds, Abs!Holds
  <2>4. CASE split = Abs!PositiveSplit(c)
    <3>1. p[c.posAux] <= 0
      BY <2>4 DEF Abs!PositiveSplit, Abs!Most, Abs!Least, Meets, Respects
    <3>2. p[c.f] = p[c.b]
      BY <2>1, <2>2, <3>1
    <3>. QED
      BY <1>3, <2>2, <3>2 DEF HoldsAt, Holds, Abs!Holds
  <2>. QED
    BY <1>3, <2>3, <2>4 DEF Disabling, Abs!CaseSplits
<1>4. CASE c.kind = "sign"
  <2>1. p[c.b] \in Int /\ p[c.f] \in Int
    BY <1>4 DEF WellFormed, Watched, Sign!Variables, Point
  <2>2. p[c.f] >= -1 /\ p[c.f] <= 1
    BY <1>4, <2>1 DEF Basic
  <2>3. CASE split = Sign!NegativeSplit(c)
    <3>1. p[c.b] <= 0 /\ p[c.f] <= -1
      BY <2>3 DEF Sign!NegativeSplit, Sign!Most, Meets, Respects
    <3>2. p[c.f] = -1 /\ (p[c.b] = 0 \/ p[c.b] < 0)
      BY <2>1, <2>2, <3>1
    <3>. QED
      BY <1>4, <3>2 DEF HoldsAt, Sign!HoldsUpToBorder, Sign!Holds
  <2>4. CASE split = Sign!PositiveSplit(c)
    <3>1. p[c.b] >= 0 /\ p[c.f] >= 1
      BY <2>4 DEF Sign!PositiveSplit, Sign!Least, Meets, Respects
    <3>2. p[c.f] = 1 /\ ~(p[c.b] < 0)
      BY <2>1, <2>2, <3>1
    <3>. QED
      BY <1>4, <3>2 DEF HoldsAt, Sign!HoldsUpToBorder, Sign!Holds
  <2>. QED
    BY <1>4, <2>3, <2>4 DEF Disabling, Sign!CaseSplits
<1>5. CASE c.kind = "max"
  <2>1. /\ p[c.f] \in Int /\ c.maxValueOfEliminated \in Int
        /\ \A e \in c.elements : p[e] \in Int /\ p[c.aux[e]] \in Int
    BY <1>5 DEF WellFormed, Watched, Max!Variables, Point
  <2>2. /\ p[c.f] >= c.maxValueOfEliminated
        /\ \A e \in c.elements : p[c.aux[e]] >= 0 /\ p[c.aux[e]] = p[c.f] - p[e]
    BY <1>5 DEF Basic, Linear, Max!Linear
  <2>3. \A e \in c.elements : p[c.f] >= p[e]
    BY <2>1, <2>2
  <2>4. ASSUME NEW e \in c.elements, split = Max!ElementSplit(c, e)
        PROVE  p[c.f] = p[e]
    <3>1. p[c.aux[e]] <= 0
      BY <2>4 DEF Max!ElementSplit, Max!Most, Meets, Respects
    <3>. QED
      BY <2>1, <2>2, <3>1
  <2>5. ASSUME split = Max!EliminatedSplit(c)
        PROVE  p[c.f] = c.maxValueOfEliminated
    <3>1. p[c.f] <= c.maxValueOfEliminated
      BY <2>5 DEF Max!EliminatedSplit, Max!Most, Max!Least, Meets, Respects
    <3>. QED
      BY <2>1, <2>2, <3>1
  <2>6. \/ split = Max!EliminatedSplit(c)
        \/ \E e \in c.elements : split = Max!ElementSplit(c, e)
    BY <1>5 DEF Disabling
  <2>. QED
    BY <1>5, <2>2, <2>3, <2>4, <2>5, <2>6 DEF HoldsAt, Holds, Max!Holds
<1>6. CASE c.kind = "disj"
  BY <1>6 DEF Disabling, HoldsAt, Holds, Disj!Holds, Disj!Meets, Disj!Respects, Meets, Respects
<1>. QED
  BY <1>1, <1>2, <1>3, <1>4, <1>5, <1>6 DEF WellFormed

\* Splits are of variables of the query.
LEMMA DisablingKeys ==
    ASSUME NEW n, NEW c, WellFormed(c, n), NEW split \in Disabling(c), NEW t \in split
    PROVE  t.key \in (0 .. n - 1) \X {"LB", "UB"}
<1>1. CASE c.kind = "relu"
  BY <1>1 DEF WellFormed, Watched, Disabling, Relu!Variables, Relu!CaseSplits, Relu!ActiveSplit,
     Relu!InactiveSplit, Relu!Least, Relu!Most
<1>2. CASE c.kind = "leaky"
  BY <1>2 DEF WellFormed, Watched, Disabling, Leaky!Variables, Leaky!CaseSplits,
     Leaky!ActiveSplit, Leaky!InactiveSplit, Leaky!Least, Leaky!Most
<1>3. CASE c.kind = "abs"
  BY <1>3 DEF WellFormed, Watched, Disabling, Abs!Variables, Abs!CaseSplits, Abs!PositiveSplit,
     Abs!NegativeSplit, Abs!Least, Abs!Most
<1>4. CASE c.kind = "sign"
  BY <1>4 DEF WellFormed, Watched, Disabling, Sign!Variables, Sign!CaseSplits,
     Sign!PositiveSplit, Sign!NegativeSplit, Sign!Least, Sign!Most
<1>5. CASE c.kind = "max"
  BY <1>5 DEF WellFormed, Watched, Disabling, Max!Variables, Max!ElementSplit,
     Max!EliminatedSplit, Max!Least, Max!Most
<1>6. CASE c.kind = "disj"
  BY <1>6 DEF WellFormed, Disabling
<1>. QED
  BY <1>1, <1>2, <1>3, <1>4, <1>5, <1>6 DEF WellFormed

\* The splits that are applied are splits of the constraint.
LEMMA CasesDisable ==
    ASSUME NEW n, NEW c, WellFormed(c, n), NEW s, NEW p, Sound(c, s, p)
    PROVE  CaseSplits(c, s) \subseteq Disabling(c)
<1>1. CASE c.kind \in {"relu", "leaky", "abs", "sign", "disj"}
  BY <1>1 DEF CaseSplits, Disabling, Disj!CaseSplits
<1>2. CASE c.kind = "max"
  BY <1>2 DEF CaseSplits, Disabling, Max!CaseSplits, Sound, MaxSound, Max!States
<1>. QED
  BY <1>1, <1>2 DEF WellFormed

\* So is the split that a fixed phase implies.
LEMMA ImpliedDisables ==
    ASSUME NEW n, NEW c, WellFormed(c, n), NEW s, NEW p, Sound(c, s, p), Holds(c, p), Fixed(c, s)
    PROVE  ImpliedSplit(c, s) \in Disabling(c)
<1>1. CASE c.kind = "relu"
  BY <1>1 DEF ImpliedSplit, Disabling, Relu!ImpliedSplit, Relu!CaseSplits
<1>2. CASE c.kind = "leaky"
  BY <1>2 DEF ImpliedSplit, Disabling, Leaky!ImpliedSplit, Leaky!CaseSplits
<1>3. CASE c.kind = "abs"
  BY <1>3 DEF ImpliedSplit, Disabling, Abs!ImpliedSplit, Abs!CaseSplits
<1>4. CASE c.kind = "sign"
  BY <1>4 DEF ImpliedSplit, Disabling, Sign!ImpliedSplit, Sign!CaseSplits
<1>5. CASE c.kind = "max"
  <2>1. s.elements \subseteq c.elements
    BY <1>5 DEF Sound, MaxSound, Max!States
  <2>2. CASE s.haveEliminated
    BY <1>5, <2>2 DEF ImpliedSplit, Disabling, Max!ImpliedSplit
  <2>3. CASE ~s.haveEliminated
    <3>1. PICK e \in s.elements : s.elements = {e}
      BY <1>5, <2>3 DEF Fixed, Max!Fixed
    <3>2. (CHOOSE d \in s.elements : TRUE) \in c.elements
      BY <2>1, <3>1
    <3>3. ImpliedSplit(c, s) = Max!ElementSplit(c, CHOOSE d \in s.elements : TRUE)
      BY <1>5, <2>3 DEF ImpliedSplit, Max!ImpliedSplit
    <3>. QED
      BY <1>5, <3>2, <3>3 DEF Disabling
  <2>. QED
    BY <2>2, <2>3
<1>6. CASE c.kind = "disj"
  <2>1. DisjSound(c, s, p) /\ Disj!Holds(c, p) /\ Disj!Fixed(c, s)
    BY <1>6 DEF Sound, Holds, Fixed
  <2>2. Disj!ImpliedSplit(c, s) \in c.disjuncts
    BY <2>1, DisjImplied
  <2>. QED
    BY <1>6, <2>2 DEF ImpliedSplit, Disabling
<1>. QED
  BY <1>1, <1>2, <1>3, <1>4, <1>5, <1>6 DEF WellFormed

\* Telling a constraint of a bound does not enable or disable it.
LEMMA NotifiedActive ==
    ASSUME NEW n, NEW c, WellFormed(c, n), NEW s, NEW p, Sound(c, s, p), NEW b, NEW k, NEW x
    PROVE  Notified(c, s, b, k, x).active = s.active
<1>1. CASE c.kind = "relu"
  BY <1>1 DEF Notified, Relu!Notified, Sound, ReluSound, Relu!States
<1>2. CASE c.kind = "leaky"
  BY <1>2 DEF Notified, Leaky!Notified, Sound, LeakySound, Leaky!States
<1>3. CASE c.kind = "abs"
  BY <1>3 DEF Notified, Abs!Notified, Sound, AbsSound, Abs!States
<1>4. CASE c.kind = "sign"
  BY <1>4 DEF Notified, Sign!Notified, Sound, SignSound, Sign!States
<1>5. CASE c.kind = "max"
  BY <1>5 DEF Notified, Max!Notified, Max!AfterLower, Max!AfterUpper, Max!Raised, Sound,
     MaxSound, Max!States
<1>6. CASE c.kind = "disj"
  BY <1>6 DEF Notified, Disj!Notified, Sound, DisjSound, Disj!States
<1>. QED
  BY <1>1, <1>2, <1>3, <1>4, <1>5, <1>6 DEF WellFormed

-----------------------------------------------------------------------------
(* Disabled constraints hold *)

\* The bounds are within a split of every disabled constraint, and within those of the
\* preprocessor
Shut ==
    \A i \in Constraints : ~state[i].active =>
        \E split \in Disabling(Constraint(i)) :
            \A p \in Point(query.n) : Inside(p, box) => Meets(p, split)

Preprocessed ==
    \A i \in Constraints, p \in Point(query.n) : Inside(p, box) => Basic(Constraint(i), p)

DInv == IInv /\ Shut /\ Preprocessed

\* At first every constraint is active, and the preprocessor's bounds are in force.
LEMMA InitDInv == Init => DInv
<1>1. SUFFICES ASSUME Init PROVE DInv
  OBVIOUS
<1>2. IInv
  BY <1>1, InitIInv
<1>3. Shut
  <2>1. ASSUME NEW i \in Constraints
        PROVE  state[i].active
    <3>1. WellFormed(Constraint(i), query.n) /\ state[i] = Initial(Constraint(i), box)
      BY <1>1, <1>2, StepFacts DEF Init
    <3>. QED
      BY <3>1 DEF WellFormed, Initial, Relu!Initial, Leaky!Initial, Abs!Initial, Sign!Initial,
         Max!Initial, Disj!Initial
  <2>. QED
    BY <2>1 DEF Shut
<1>4. Preprocessed
  <2>1. SUFFICES ASSUME NEW i \in Constraints, NEW p \in Point(query.n), Inside(p, box)
                 PROVE  Basic(Constraint(i), p)
    BY DEF Preprocessed
  <2>2. /\ query.n \in Nat /\ box \in BoxOver(query.n) /\ sol \in Point(query.n) /\ Inside(sol, box)
        /\ WellFormed(Constraint(i), query.n) /\ Holds(Constraint(i), sol)
    BY <1>2, StepFacts
  <2>3. /\ state[i] = Initial(Constraint(i), box)
        /\ \A t \in Entailed(Constraint(i), state[i], box) : ~Tighter(t.key, t.value, box[t.key])
    BY <1>1 DEF Init
  <2>4. \A v \in Auxiliary(Constraint(i)) : box[<<v, "LB">>] >= 0
    BY <1>1, QueriesWellFormed DEF Init, Constraints, Constraint
  <2>. QED
    BY <2>1, <2>2, <2>3, <2>4, BasicAtFirst
<1>. QED
  BY <1>2, <1>3, <1>4 DEF DInv

\* Tighter bounds are within what the bounds were within.
LEMMA ShutKept ==
    ASSUME DInv, NEW T, Numeric(T), box' = Tightened(box, T), UNCHANGED query,
           \A i \in Constraints :
               \/ state'[i].active = state[i].active
               \/ \E split \in Disabling(Constraint(i)) : split = T /\ Meets(sol, split)
    PROVE  Shut' /\ Preprocessed'
<1>1. /\ query.n \in Nat /\ box \in BoxOver(query.n) /\ sol \in Point(query.n)
      /\ DOMAIN box = Keys(query) /\ \A i \in Constraints : WellFormed(Constraint(i), query.n)
      /\ Constraints' = Constraints /\ \A i \in Constraints : Constraint(i)' = Constraint(i)
  BY StepFacts DEF DInv, Constraints, Constraint
<1>2. \A p \in Point(query.n) : Inside(p, box') => Inside(p, box)
  BY <1>1, TightenedWithin
<1>3. Preprocessed'
  BY <1>1, <1>2 DEF DInv, Preprocessed
<1>4. Shut'
  <2>1. SUFFICES ASSUME NEW i \in Constraints, ~state'[i].active
                 PROVE  \E split \in Disabling(Constraint(i)) :
                            \A p \in Point(query.n) : Inside(p, box') => Meets(p, split)
    BY <1>1 DEF Shut
  <2>2. CASE state'[i].active = state[i].active
    BY <1>2, <2>1, <2>2 DEF DInv, Shut
  <2>3. ASSUME NEW split \in Disabling(Constraint(i)), split = T, Meets(sol, split)
        PROVE  \A p \in Point(query.n) : Inside(p, box') => Meets(p, split)
    <3>1. \A t \in T : t.key \in DOMAIN box
      BY <1>1, <2>3, DisablingKeys DEF Keys
    <3>. QED
      BY <1>1, <2>3, <3>1, TightenedMeets
  <2>. QED
    BY <2>1, <2>2, <2>3
<1>. QED
  BY <1>3, <1>4

\* Every step keeps the invariant: only splits disable, and bounds only get tighter.
LEMMA StepDInv == DInv /\ [Next]_vars => DInv'
<1>1. SUFFICES ASSUME DInv, [Next]_vars PROVE DInv'
  OBVIOUS
<1>2. IInv'
  BY <1>1, IInvStep DEF DInv
<1>3. ASSUME UNCHANGED <<query, box, state>>
      PROVE  DInv'
  BY <1>1, <1>2, <1>3 DEF DInv, Shut, Preprocessed, Constraints, Constraint
<1>4. CASE Deduce
  <2>1. PICK k \in Keys(query), x \in Bounds : Tighten({[key |-> k, value |-> x]}, flags)
    BY <1>4 DEF Deduce
  <2>2. UNCHANGED <<query, state>>
    BY <1>4 DEF Deduce
  <2>3. Numeric({[key |-> k, value |-> x]})
    BY BoundsAreNumbers DEF Numeric
  <2>. QED
    BY <1>1, <1>2, <2>1, <2>2, <2>3, ShutKept DEF DInv, Tighten
<1>5. CASE StartPropagation \/ Skip \/ Lower \/ ApplyAllBoundTightenings
  BY <1>3, <1>5 DEF StartPropagation, Skip, Lower, ApplyAllBoundTightenings
<1>6. CASE Tell
  <2> DEFINE c == Constraint(turn)
             s == state[turn]
             k == KeyAt(scan)
             x == Value
  <2>1. CASE k[1] \notin Watched(c)
    BY <1>3, <1>6, <2>1 DEF Tell
  <2>2. CASE k[1] \in Watched(c)
    <3>1. /\ turn \in Constraints /\ UNCHANGED query
          /\ state' = [state EXCEPT ![turn] = Notified(c, s, box, k, x)]
          /\ box' = Tightened(box, Reaction(c, s, box, k, x))
      BY <1>6, <2>2 DEF Tell, Tighten
    <3>2. Keeps(c, s, box, k, x, sol)
      BY <1>1, <1>6, <2>2, TellKeeps DEF DInv
    <3>3. DOMAIN state = Constraints
      BY <1>1 DEF DInv, IInv, Right
    <3>4. Notified(c, s, box, k, x).active = s.active
      BY <1>1, <3>1, StepFacts, NotifiedActive DEF DInv
    <3> HIDE DEF c, s, k, x
    <3>5. \A i \in Constraints : state'[i].active = state[i].active
      BY <3>1, <3>3, <3>4 DEF s
    <3>. QED
      BY <1>1, <1>2, <3>1, <3>2, <3>5, ShutKept DEF DInv, Keeps
  <2>. QED
    BY <2>1, <2>2
<1>7. ASSUME NEW i \in Constraints, NEW split \in Disabling(Constraint(i)), Meets(sol, split),
             Numeric(split), state' = [state EXCEPT ![i].active = FALSE], Tighten(split, flags),
             UNCHANGED query
      PROVE  DInv'
  <2>1. DOMAIN state = Constraints
    BY <1>1 DEF DInv, IInv, Right
  <2>2. \A j \in Constraints : j = i \/ state'[j] = state[j]
    BY <1>7, <2>1
  <2>. QED
    BY <1>1, <1>2, <1>7, <2>2, ShutKept DEF DInv, Tighten
<1>8. CASE ApplyValidSplit
  <2>1. PICK i \in Constraints :
            /\ Fixed(Constraint(i), state[i])
            /\ state' = [state EXCEPT ![i].active = FALSE]
            /\ Tighten(ImpliedSplit(Constraint(i), state[i]), flags)
    BY <1>8 DEF ApplyValidSplit
  <2>2. /\ Meets(sol, ImpliedSplit(Constraint(i), state[i]))
        /\ Numeric(ImpliedSplit(Constraint(i), state[i]))
        /\ ImpliedSplit(Constraint(i), state[i]) \in Disabling(Constraint(i))
    BY <1>1, <2>1, StepFacts, FixedIsRight, ImpliedDisables DEF DInv
  <2>. QED
    BY <1>7, <1>8, <2>1, <2>2 DEF ApplyValidSplit
<1>9. CASE PerformSplit
  <2>1. PICK i \in Constraints :
            \E split \in CaseSplits(Constraint(i), state[i]) :
                /\ state' = [state EXCEPT ![i].active = FALSE]
                /\ Meets(sol, split) /\ Tighten(split, flags)
    BY <1>9 DEF PerformSplit
  <2>3. PICK split \in CaseSplits(Constraint(i), state[i]) :
            /\ state' = [state EXCEPT ![i].active = FALSE]
            /\ Meets(sol, split) /\ Tighten(split, flags)
    BY <2>1
  <2>2. Numeric(split) /\ split \in Disabling(Constraint(i))
    BY <1>1, <2>3, StepFacts, SplitsAreNumeric, CasesDisable DEF DInv
  <2>. QED
    BY <1>7, <1>9, <2>3, <2>2 DEF PerformSplit
<1>10. CASE UNCHANGED vars
  BY <1>3, <1>10 DEF vars
<1>. QED
  BY <1>1, <1>4, <1>5, <1>6, <1>8, <1>9, <1>10 DEF Next

\* A constraint that is no longer active holds wherever the box and its equations do,
\* whichever split disabled it and however tight the bounds were then: nobody has to
\* look at it again (Engine.cpp:2163-2186).
THEOREM DisabledAlwaysHolds == Spec => []DisabledHolds
<1>1. DInv => DisabledHolds
  <2>1. SUFFICES ASSUME DInv, NEW i \in Constraints, ~state[i].active, NEW p \in query.points,
                        Inside(p, box), Linear(Constraint(i), p)
                 PROVE  HoldsAt(Constraint(i), p)
    BY DEF DisabledHolds
  <2>2. p \in Point(query.n) /\ query.n \in Nat /\ WellFormed(Constraint(i), query.n)
    BY <2>1, QueriesWellFormed, StepFacts DEF DInv, IInv, Following, Point
  <2>3. PICK split \in Disabling(Constraint(i)) : Meets(p, split)
    BY <2>1, <2>2 DEF DInv, Shut
  <2>4. Basic(Constraint(i), p)
    BY <2>1, <2>2 DEF DInv, Preprocessed
  <2>. QED
    BY <2>1, <2>2, <2>3, <2>4, SplitSuffices
<1>. QED
  BY <1>1, InitDInv, StepDInv, PTL DEF Spec

-----------------------------------------------------------------------------
(* What a constraint has nothing to learn from *)

\* The bound at k, told again, would teach the constraint nothing.
Quiet(c, s, b, k) ==
    \/ c.kind = "leaky" /\ Leaky!Fixed(c, s)
    \/ Notified(c, s, b, k, b[k]) = s

\* The same of a maximum, of what its state says
Owners(c, s, v) == {e \in s.elements : c.aux[e] = v}
MaxCalm(c, s, k, x) ==
    /\ k[2] = "LB" =>
        /\ Owners(c, s, k[1]) # {} => x <= 0
        /\ k[1] \in {c.f} \cup s.elements => x <= s.maxLowerBound
    /\ k[2] = "UB" =>
        /\ Owners(c, s, k[1]) # {} /\ x = 0 => s.elements = Owners(c, s, k[1]) /\ ~s.haveEliminated
        /\ k[1] \in s.elements => x >= s.maxLowerBound

\* The same of every kind
Calm(c, s, b, k) ==
    CASE c.kind = "relu" -> Relu!Fixed(c, s) \/ Relu!PhaseAfter(c, k, b[k]) = Relu!NotFixed
      [] c.kind = "leaky" -> Leaky!Fixed(c, s) \/ Leaky!PhaseAfter(c, s, k, b[k]) = Leaky!NotFixed
      [] c.kind = "abs"  -> Abs!Fixed(c, s) \/ Abs!PhaseOf(c, b) = Abs!NotFixed
      [] c.kind = "sign" -> /\ Sign!IsPositive(c, k, b[k]) => s.phase = Sign!Positive
                            /\ ~Sign!IsPositive(c, k, b[k]) /\ Sign!IsNegative(c, k, b[k]) =>
                                s.phase = Sign!Negative
      [] c.kind = "max"  -> MaxCalm(c, s, k, b[k])
      [] c.kind = "disj" -> s.feasible = {d \in c.disjuncts : Disj!CaseSplitIsFeasible(b, d)}

\* A record keeps its value exactly when the fields assigned do.
LEMMA SamePhase ==
    ASSUME NEW P, NEW s \in [active : BOOLEAN, phase : P], NEW a
    PROVE  [s EXCEPT !.phase = a] = s <=> a = s.phase
<1>1. [s EXCEPT !.phase = a].phase = a
  OBVIOUS
<1>2. a = s.phase => [s EXCEPT !.phase = a] = s
  OBVIOUS
<1>. QED
  BY <1>1, <1>2

\* A maximum learns nothing from a bound exactly when it is calm.
LEMMA MaxQuiet ==
    ASSUME NEW n, NEW c, WellFormed(c, n), c.kind = "max", NEW s \in Max!States(c),
           s.maxLowerBound \in Int, NEW b, NEW k, k[2] \in {"LB", "UB"}, NEW x \in Int
    PROVE  Max!Notified(c, s, b, k, x) = s <=> MaxCalm(c, s, k, x)
<1> DEFINE v == k[1]
           O == Owners(c, s, v)
<1>1. s \in [active : BOOLEAN, elements : SUBSET c.elements, maxLowerBound : Int,
             haveEliminated : BOOLEAN]
  BY DEF Max!States
<1>2. O # {} => v \notin {c.f} \cup s.elements
  BY <1>1 DEF WellFormed, Auxiliary, Arguments, Owners
<1>3. O \subseteq s.elements /\ (O # {} => s.elements \ O # s.elements)
  BY DEF Owners
<1>4. CASE k[2] = "LB"
  <2>1. Max!Notified(c, s, b, k, x) = Max!AfterLower(c, s, b, v, x)
    BY <1>4 DEF Max!Notified
  <2>2. CASE O # {} /\ x > 0
    <3>1. Max!AfterLower(c, s, b, v, x) = [s EXCEPT !.elements = s.elements \ O]
      BY <2>2 DEF Max!AfterLower, Owners
    <3> HIDE DEF O
    <3>2. [s EXCEPT !.elements = s.elements \ O].elements = s.elements \ O
      BY <1>1
    <3>3. Max!Notified(c, s, b, k, x) # s
      BY <1>3, <2>1, <2>2, <3>1, <3>2
    <3>4. ~MaxCalm(c, s, k, x)
      BY <1>4, <2>2 DEF MaxCalm, O
    <3>. QED
      BY <3>3, <3>4
  <2>3. CASE ~(O # {} /\ x > 0) /\ v \in {c.f} \cup s.elements /\ x > s.maxLowerBound
    <3>1. Max!AfterLower(c, s, b, v, x) = Max!Raised(c, s, b, v, x)
      BY <2>3 DEF Max!AfterLower, Owners
    <3>2. Max!Raised(c, s, b, v, x).maxLowerBound = x
      BY <1>1 DEF Max!Raised
    <3>3. Max!Notified(c, s, b, k, x) # s
      BY <2>1, <2>3, <3>1, <3>2
    <3>4. ~MaxCalm(c, s, k, x)
      BY <1>4, <2>3 DEF MaxCalm
    <3>. QED
      BY <3>3, <3>4
  <2>4. CASE ~(O # {} /\ x > 0) /\ ~(v \in {c.f} \cup s.elements /\ x > s.maxLowerBound)
    <3>1. Max!AfterLower(c, s, b, v, x) = s
      BY <2>4 DEF Max!AfterLower, Owners
    <3>2. (O # {} => x <= 0) /\ (v \in {c.f} \cup s.elements => x <= s.maxLowerBound)
      BY <2>4
    <3>3. MaxCalm(c, s, k, x)
      BY <1>4, <3>2 DEF MaxCalm
    <3>. QED
      BY <2>1, <3>1, <3>3
  <2>. QED
    BY <2>2, <2>3, <2>4
<1>5. CASE k[2] = "UB"
  <2>1. Max!Notified(c, s, b, k, x) = Max!AfterUpper(c, s, v, x)
    BY <1>5 DEF Max!Notified
  <2>2. CASE O # {} /\ x = 0
    <3>1. Max!AfterUpper(c, s, v, x) = [s EXCEPT !.elements = O, !.haveEliminated = FALSE]
      BY <2>2 DEF Max!AfterUpper, Owners
    <3> HIDE DEF O
    <3>2. /\ [s EXCEPT !.elements = O, !.haveEliminated = FALSE].elements = O
          /\ [s EXCEPT !.elements = O, !.haveEliminated = FALSE].haveEliminated = FALSE
          /\ s.elements = O /\ s.haveEliminated = FALSE =>
                [s EXCEPT !.elements = O, !.haveEliminated = FALSE] = s
      BY <1>1
    <3>3. MaxCalm(c, s, k, x) <=> s.elements = O /\ ~s.haveEliminated
      BY <1>2, <1>5, <2>2 DEF MaxCalm, O
    <3>4. s.haveEliminated \in BOOLEAN
      BY <1>1
    <3>. QED
      BY <2>1, <3>1, <3>2, <3>3, <3>4
  <2>3. CASE O # {} /\ x # 0
    <3>1. Max!AfterUpper(c, s, v, x) = s
      BY <2>3 DEF Max!AfterUpper, Owners
    <3>2. MaxCalm(c, s, k, x)
      BY <1>2, <1>5, <2>3 DEF MaxCalm
    <3>. QED
      BY <2>1, <3>1, <3>2
  <2>4. CASE O = {} /\ v \in s.elements /\ x < s.maxLowerBound
    <3>1. Max!AfterUpper(c, s, v, x) = [s EXCEPT !.elements = s.elements \ {v}]
      BY <2>4 DEF Max!AfterUpper, Owners
    <3>2. [s EXCEPT !.elements = s.elements \ {v}].elements = s.elements \ {v}
      BY <1>1
    <3>3. Max!Notified(c, s, b, k, x) # s
      BY <2>1, <2>4, <3>1, <3>2
    <3>4. ~MaxCalm(c, s, k, x)
      BY <1>5, <2>4 DEF MaxCalm
    <3>. QED
      BY <3>3, <3>4
  <2>5. CASE O = {} /\ ~(v \in s.elements /\ x < s.maxLowerBound)
    <3>1. Max!AfterUpper(c, s, v, x) = s
      BY <2>5 DEF Max!AfterUpper, Owners
    <3>2. v \in s.elements => x >= s.maxLowerBound
      BY <2>5
    <3>3. MaxCalm(c, s, k, x)
      BY <1>5, <2>5, <3>2 DEF MaxCalm
    <3>. QED
      BY <2>1, <3>1, <3>3
  <2>. QED
    BY <2>2, <2>3, <2>4, <2>5
<1>. QED
  BY <1>4, <1>5

\* So it is of every kind of constraint.
LEMMA QuietIsCalm ==
    ASSUME NEW n \in Nat, NEW b \in BoxOver(n), NEW k \in (0 .. n - 1) \X {"LB", "UB"},
           NEW c, WellFormed(c, n), NEW s, NEW p, Sound(c, s, p)
    PROVE  Quiet(c, s, b, k) <=> Calm(c, s, b, k)
<1>1. CASE c.kind = "relu"
  <2>1. s \in [active : BOOLEAN, phase : {Relu!NotFixed, Relu!Active, Relu!Inactive}]
    BY <1>1 DEF Sound, ReluSound, Relu!States
  <2>2. [s EXCEPT !.phase = Relu!PhaseAfter(c, k, b[k])] = s <=> Relu!PhaseAfter(c, k, b[k]) = s.phase
    BY <2>1, SamePhase
  <2>. QED
    BY <1>1, <2>2 DEF Quiet, Calm, Notified, Relu!Notified, Relu!Fixed
<1>2. CASE c.kind = "leaky"
  <2>1. s \in [active : BOOLEAN, phase : {Leaky!NotFixed, Leaky!Active, Leaky!Inactive}]
    BY <1>2 DEF Sound, LeakySound, Leaky!States
  <2>2. [s EXCEPT !.phase = Leaky!PhaseAfter(c, s, k, b[k])] = s <=>
            Leaky!PhaseAfter(c, s, k, b[k]) = s.phase
    BY <2>1, SamePhase
  <2>. QED
    BY <1>2, <2>2 DEF Quiet, Calm, Notified, Leaky!Notified, Leaky!Fixed
<1>3. CASE c.kind = "abs"
  <2>1. s \in [active : BOOLEAN, phase : {Abs!NotFixed, Abs!Positive, Abs!Negative}]
    BY <1>3 DEF Sound, AbsSound, Abs!States
  <2>2. [s EXCEPT !.phase = Abs!PhaseOf(c, b)] = s <=> Abs!PhaseOf(c, b) = s.phase
    BY <2>1, SamePhase
  <2>. QED
    BY <1>3, <2>2 DEF Quiet, Calm, Notified, Abs!Notified, Abs!Fixed
<1>4. CASE c.kind = "sign"
  <2>1. s \in [active : BOOLEAN, phase : {Sign!NotFixed, Sign!Positive, Sign!Negative}]
    BY <1>4 DEF Sound, SignSound, Sign!States
  <2>2. /\ [s EXCEPT !.phase = Sign!Positive] = s <=> Sign!Positive = s.phase
        /\ [s EXCEPT !.phase = Sign!Negative] = s <=> Sign!Negative = s.phase
    BY <2>1, SamePhase
  <2>. QED
    BY <1>4, <2>2 DEF Quiet, Calm, Notified, Sign!Notified
<1>5. CASE c.kind = "max"
  <2>1. s \in Max!States(c) /\ s.maxLowerBound \in Int
    BY <1>5 DEF Sound, MaxSound, Max!States
  <2>2. k[2] \in {"LB", "UB"} /\ b[k] \in Int
    BY DEF BoxOver
  <2>3. Max!Notified(c, s, b, k, b[k]) = s <=> MaxCalm(c, s, k, b[k])
    BY <1>5, <2>1, <2>2, MaxQuiet
  <2>. QED
    BY <1>5, <2>3 DEF Quiet, Calm, Notified
<1>6. CASE c.kind = "disj"
  <2> DEFINE F == {d \in c.disjuncts : Disj!CaseSplitIsFeasible(b, d)}
  <2>1. s \in [active : BOOLEAN, feasible : SUBSET c.disjuncts]
    BY <1>6 DEF Sound, DisjSound, Disj!States
  <2> HIDE DEF F
  <2>2. /\ [s EXCEPT !.feasible = F].feasible = F
        /\ s.feasible = F => [s EXCEPT !.feasible = F] = s
    BY <2>1
  <2>. QED
    BY <1>6, <2>2 DEF Quiet, Calm, Notified, Disj!Notified, F
<1>. QED
  BY <1>1, <1>2, <1>3, <1>4, <1>5, <1>6 DEF WellFormed

\* Constraints that look at all the bounds whichever they are told of
Wholesale(c) == c.kind \in {"abs", "disj"}

\* Two boxes agree on what a constraint watches, but perhaps on bound h.
AgreeBut(c, n, b, d, h) ==
    \A k \in (0 .. n - 1) \X {"LB", "UB"} : k[1] \in Watched(c) /\ k # h => d[k] = b[k]

\* The others look at the one bound.
LEMMA CalmLocally ==
    ASSUME NEW n, NEW c, WellFormed(c, n), ~Wholesale(c), NEW s, NEW b, NEW d, NEW k,
           d[k] = b[k], Calm(c, s, b, k)
    PROVE  Calm(c, s, d, k)
  BY DEF WellFormed, Wholesale, Calm

\* The former are calm as long as none of the bounds they watch moves.
LEMMA CalmWholesale ==
    ASSUME NEW n, NEW c, WellFormed(c, n), Wholesale(c), NEW s, NEW b, NEW d,
           NEW h, h[1] \notin Watched(c), AgreeBut(c, n, b, d, h), NEW k, NEW g, Calm(c, s, b, k)
    PROVE  Calm(c, s, d, g)
<1>1. \A v \in Watched(c) : d[<<v, "LB">>] = b[<<v, "LB">>] /\ d[<<v, "UB">>] = b[<<v, "UB">>]
  BY DEF AgreeBut, WellFormed
<1>2. CASE c.kind = "abs"
  <2>1. Abs!PhaseOf(c, d) = Abs!PhaseOf(c, b)
    BY <1>1, <1>2 DEF Abs!PhaseOf, Watched, Abs!Variables
  <2>. QED
    BY <1>2, <2>1 DEF Calm
<1>3. CASE c.kind = "disj"
  <2>1. ASSUME NEW e \in c.disjuncts
        PROVE  Disj!CaseSplitIsFeasible(d, e) <=> Disj!CaseSplitIsFeasible(b, e)
    <3>1. \A t \in e : t.key[1] \in Watched(c)
      BY <1>3 DEF Watched, Disj!Variables
    <3>. QED
      BY <1>1, <3>1 DEF Disj!CaseSplitIsFeasible
  <2>2. {e \in c.disjuncts : Disj!CaseSplitIsFeasible(d, e)}
        = {e \in c.disjuncts : Disj!CaseSplitIsFeasible(b, e)}
    BY <2>1
  <2>. QED
    BY <1>3, <2>2 DEF Calm
<1>. QED
  BY <1>2, <1>3 DEF Wholesale

\* Disabling a constraint does not change what it has to learn.
LEMMA CalmDisabled ==
    ASSUME NEW n, NEW c, WellFormed(c, n), NEW s, NEW p, Sound(c, s, p), NEW b, NEW k,
           Calm(c, s, b, k)
    PROVE  Calm(c, [s EXCEPT !.active = FALSE], b, k)
<1> DEFINE r == [s EXCEPT !.active = FALSE]
<1>1. CASE c.kind \in {"relu", "leaky", "abs", "sign"}
  <2>1. s \in [active : BOOLEAN, phase : {s.phase}]
    BY <1>1 DEF Sound, ReluSound, LeakySound, AbsSound, SignSound, Relu!States, Leaky!States,
       Abs!States, Sign!States
  <2>2. r.phase = s.phase
    BY <2>1
  <2> HIDE DEF r
  <2>3. Calm(c, r, b, k)
    BY <1>1, <2>2 DEF Calm, Relu!Fixed, Leaky!Fixed, Abs!Fixed, Leaky!PhaseAfter
  <2>. QED
    BY <2>3 DEF r
<1>2. CASE c.kind = "max"
  <2>1. s \in [active : BOOLEAN, elements : SUBSET c.elements, maxLowerBound : Int,
               haveEliminated : BOOLEAN]
    BY <1>2 DEF Sound, MaxSound, Max!States
  <2>2. /\ r.elements = s.elements /\ r.maxLowerBound = s.maxLowerBound
        /\ r.haveEliminated = s.haveEliminated
    BY <2>1
  <2> HIDE DEF r
  <2>3. Calm(c, r, b, k)
    BY <1>2, <2>2 DEF Calm, MaxCalm, Owners
  <2>. QED
    BY <2>3 DEF r
<1>3. CASE c.kind = "disj"
  <2>1. s \in [active : BOOLEAN, feasible : SUBSET c.disjuncts]
    BY <1>3 DEF Sound, DisjSound, Disj!States
  <2>2. r.feasible = s.feasible
    BY <2>1
  <2> HIDE DEF r
  <2>3. Calm(c, r, b, k)
    BY <1>3, <2>2 DEF Calm
  <2>. QED
    BY <2>3 DEF r
<1>. QED
  BY <1>1, <1>2, <1>3 DEF WellFormed

\* What a maximum was told of remains in its state: the elements left attain the
\* bound it knows, wherever they are.
LEMMA MaxStaysCalm ==
    ASSUME NEW n \in Nat, NEW b \in BoxOver(n), NEW p \in Point(n), Inside(p, b),
           NEW c, WellFormed(c, n), c.kind = "max", NEW s, MaxSound(c, s, p),
           Max!Holds(c, p), Max!Linear(c, p), s.maxLowerBound >= c.maxValueOfEliminated,
           NEW h \in (0 .. n - 1) \X {"LB", "UB"}, NEW x \in Int,
           Respects(p, [key |-> h, value |-> x]),
           NEW k \in (0 .. n - 1) \X {"LB", "UB"}, MaxCalm(c, s, k, b[k])
    PROVE  MaxCalm(c, Max!Notified(c, s, b, h, x), k, b[k])
<1> DEFINE v == h[1]
           O == Owners(c, s, v)
           r == Max!Notified(c, s, b, h, x)
<1>1. s \in [active : BOOLEAN, elements : SUBSET c.elements, maxLowerBound : Int,
             haveEliminated : BOOLEAN]
  BY DEF MaxSound, Max!States
<1>2. b[k] \in Int /\ c.maxValueOfEliminated \in Int /\ s.maxLowerBound \in Int
  BY <1>1 DEF BoxOver, WellFormed
<1>3. ASSUME r.elements \subseteq s.elements, r.maxLowerBound = s.maxLowerBound,
             \/ r.haveEliminated = s.haveEliminated
             \/ r.haveEliminated = FALSE
      PROVE  MaxCalm(c, r, k, b[k])
  <2> HIDE DEF r
  <2>1. Owners(c, r, k[1]) \subseteq Owners(c, s, k[1])
    BY <1>3 DEF Owners
  <2>2. s.elements = Owners(c, s, k[1]) => r.elements = Owners(c, r, k[1])
    BY <1>3 DEF Owners
  <2>. QED
    BY <1>3, <2>1, <2>2 DEF MaxCalm
<1>4. CASE r = s
  BY <1>4
<1>5. CASE h[2] = "LB" /\ O # {} /\ x > 0
  <2>1. r = [s EXCEPT !.elements = s.elements \ O]
    BY <1>5 DEF Max!Notified, Max!AfterLower, Owners
  <2> HIDE DEF r, O
  <2>2. /\ r.elements = s.elements \ O /\ r.maxLowerBound = s.maxLowerBound
        /\ r.haveEliminated = s.haveEliminated
    BY <1>1, <2>1
  <2>. QED
    BY <1>3, <2>2 DEF r
<1>6. CASE /\ h[2] = "LB" /\ ~(O # {} /\ x > 0)
           /\ v \in {c.f} \cup s.elements /\ x > s.maxLowerBound
  <2>1. r = Max!Raised(c, s, b, v, x)
    BY <1>6 DEF Max!Notified, Max!AfterLower, Owners
  <2>2. /\ r.maxLowerBound = x /\ r.haveEliminated = (x <= c.maxValueOfEliminated)
        /\ r.elements = {e \in s.elements : e = v \/ b[<<e, "UB">>] >= x}
    BY <1>1, <2>1 DEF Max!Raised
  <2> HIDE DEF r
  <2>3. r.haveEliminated = FALSE /\ r.elements \subseteq s.elements
    <3>1. (x <= c.maxValueOfEliminated) = FALSE
      BY <1>2, <1>6
    <3>. QED
      BY <2>2, <3>1, Zenon
  <2>4. \A e \in r.elements : b[<<e, "UB">>] \in Int /\ b[<<e, "UB">>] >= x
    <3>1. SUFFICES ASSUME NEW e \in r.elements PROVE b[<<e, "UB">>] \in Int /\ b[<<e, "UB">>] >= x
      OBVIOUS
    <3>2. e \in 0 .. n - 1
      BY <1>1, <2>3 DEF WellFormed, Watched, Max!Variables
    <3>3. p[e] \in Int /\ b[<<e, "UB">>] \in Int /\ p[e] <= b[<<e, "UB">>]
      BY <3>2, InsideBounds
    <3>4. CASE e = v
      <4>1. x <= p[e]
        BY <1>6, <3>4 DEF Respects
      <4>. QED
        BY <3>3, <4>1
    <3>. QED
      BY <2>2, <3>3, <3>4
  <2>5. Owners(c, r, k[1]) \subseteq Owners(c, s, k[1])
    BY <2>3 DEF Owners
  <2>6. s.elements = Owners(c, s, k[1]) => r.elements = Owners(c, r, k[1])
    BY <2>3 DEF Owners
  <2>7. k[2] = "LB" => MaxCalm(c, r, k, b[k])
    BY <1>2, <1>6, <2>2, <2>3, <2>5 DEF MaxCalm
  <2>8. k[2] = "UB" => MaxCalm(c, r, k, b[k])
    <3>1. k[2] = "UB" /\ k[1] \in r.elements => b[k] >= x
      BY <2>4
    <3>. QED
      BY <2>2, <2>3, <2>5, <2>6, <3>1 DEF MaxCalm
  <2>. QED
    BY <2>7, <2>8 DEF r
<1>7. CASE h[2] = "UB" /\ O # {} /\ x = 0
  <2>1. r = [s EXCEPT !.elements = O, !.haveEliminated = FALSE]
    BY <1>7 DEF Max!Notified, Max!AfterUpper, Owners
  <2>2. O \subseteq s.elements
    BY DEF Owners
  <2> HIDE DEF r, O
  <2>3. r.elements = O /\ r.maxLowerBound = s.maxLowerBound /\ r.haveEliminated = FALSE
    BY <1>1, <2>1
  <2>. QED
    BY <1>3, <2>2, <2>3 DEF r
<1>8. CASE h[2] = "UB" /\ O = {} /\ v \in s.elements /\ x < s.maxLowerBound
  <2>1. r = [s EXCEPT !.elements = s.elements \ {v}]
    BY <1>8 DEF Max!Notified, Max!AfterUpper, Owners
  <2> HIDE DEF r
  <2>2. /\ r.elements = s.elements \ {v} /\ r.maxLowerBound = s.maxLowerBound
        /\ r.haveEliminated = s.haveEliminated
    BY <1>1, <2>1
  <2>. QED
    BY <1>3, <2>2 DEF r
<1>9. \/ r = s
      \/ h[2] = "LB" /\ O # {} /\ x > 0
      \/ /\ h[2] = "LB" /\ ~(O # {} /\ x > 0)
         /\ v \in {c.f} \cup s.elements /\ x > s.maxLowerBound
      \/ h[2] = "UB" /\ O # {} /\ x = 0
      \/ h[2] = "UB" /\ O = {} /\ v \in s.elements /\ x < s.maxLowerBound
  BY DEF Max!Notified, Max!AfterLower, Max!AfterUpper, Owners
<1>. QED
  BY <1>4, <1>5, <1>6, <1>7, <1>8, <1>9

\* The sign of a solution is the one sign its bounds tell.
LEMMA SignTells ==
    ASSUME NEW n \in Nat, NEW p \in Point(n), NEW c, WellFormed(c, n), c.kind = "sign", Sign!Holds(c, p),
           NEW k \in (0 .. n - 1) \X {"LB", "UB"}, NEW x \in Int,
           Respects(p, [key |-> k, value |-> x])
    PROVE  /\ Sign!IsPositive(c, k, x) => p[c.f] = 1
           /\ Sign!IsNegative(c, k, x) => p[c.f] = -1
<1>1. p[c.f] \in Int /\ p[c.b] \in Int
  BY DEF WellFormed, Watched, Sign!Variables, Point
<1>2. k[2] = "LB" => p[k[1]] >= x
  BY DEF Respects
<1>3. k[2] = "UB" => p[k[1]] <= x
  BY DEF Respects
<1>4. Sign!IsPositive(c, k, x) => (k[2] = "LB" /\ k[1] = c.f /\ x > -1) \/ (k[2] = "LB" /\ k[1] = c.b /\ x >= 0)
  BY DEF Sign!IsPositive
<1>5. Sign!IsNegative(c, k, x) => (k[2] = "UB" /\ k[1] = c.f /\ x < 1) \/ (k[2] = "UB" /\ k[1] = c.b /\ x < 0)
  BY DEF Sign!IsNegative
<1>. QED
  BY <1>1, <1>2, <1>3, <1>4, <1>5 DEF Sign!Holds

\* Told of one bound, a constraint stays calm about the others.
LEMMA StaysCalm ==
    ASSUME NEW n \in Nat, NEW b \in BoxOver(n), NEW p \in Point(n), Inside(p, b),
           NEW c, WellFormed(c, n), NEW s, Sound(c, s, p), Holds(c, p), Linear(c, p),
           c.kind = "max" => s.maxLowerBound >= c.maxValueOfEliminated,
           NEW h \in (0 .. n - 1) \X {"LB", "UB"}, NEW x \in Int,
           Respects(p, [key |-> h, value |-> x]),
           NEW k \in (0 .. n - 1) \X {"LB", "UB"}, Calm(c, s, b, k)
    PROVE  Calm(c, Notified(c, s, b, h, x), b, k)
<1> DEFINE r == Notified(c, s, b, h, x)
<1>1. CASE c.kind = "relu"
  <2>1. s \in [active : BOOLEAN, phase : {Relu!NotFixed, Relu!Active, Relu!Inactive}]
    BY <1>1 DEF Sound, ReluSound, Relu!States
  <2>2. CASE Relu!Fixed(c, s)
    BY <1>1, <2>2 DEF Notified, Relu!Notified
  <2>3. CASE ~Relu!Fixed(c, s)
    BY <1>1, <2>3 DEF Calm, Relu!Fixed
  <2>. QED
    BY <2>2, <2>3
<1>2. CASE c.kind = "leaky"
  <2>1. s \in [active : BOOLEAN, phase : {Leaky!NotFixed, Leaky!Active, Leaky!Inactive}]
    BY <1>2 DEF Sound, LeakySound, Leaky!States
  <2>2. r = [s EXCEPT !.phase = Leaky!PhaseAfter(c, s, h, x)]
    BY <1>2 DEF Notified, Leaky!Notified
  <2> HIDE DEF r
  <2>3. r.phase = Leaky!PhaseAfter(c, s, h, x)
    BY <2>1, <2>2
  <2>4. r.phase \in {Leaky!Active, Leaky!Inactive, s.phase}
    BY <2>3 DEF Leaky!PhaseAfter
  <2>5. Leaky!Active # Leaky!NotFixed /\ Leaky!Inactive # Leaky!NotFixed
    BY DEF Leaky!Active, Leaky!Inactive, Leaky!NotFixed
  <2>6. CASE r.phase # Leaky!NotFixed
    BY <1>2, <2>6 DEF Calm, Leaky!Fixed, r
  <2>7. CASE r.phase = Leaky!NotFixed
    <3>1. s.phase = Leaky!NotFixed
      BY <2>4, <2>5, <2>7
    <3>2. Leaky!PhaseAfter(c, r, k, b[k]) = Leaky!PhaseAfter(c, s, k, b[k])
      BY <2>7, <3>1 DEF Leaky!PhaseAfter
    <3>3. Leaky!PhaseAfter(c, s, k, b[k]) = Leaky!NotFixed
      BY <1>2, <3>1 DEF Calm, Leaky!Fixed
    <3>. QED
      BY <1>2, <3>2, <3>3 DEF Calm, r
  <2>. QED
    BY <2>6, <2>7
<1>3. CASE c.kind = "abs"
  <2>1. s \in [active : BOOLEAN, phase : {Abs!NotFixed, Abs!Positive, Abs!Negative}]
    BY <1>3 DEF Sound, AbsSound, Abs!States
  <2>2. CASE Abs!Fixed(c, s)
    BY <1>3, <2>2 DEF Notified, Abs!Notified
  <2>3. CASE ~Abs!Fixed(c, s)
    BY <1>3, <2>3 DEF Calm, Abs!Fixed
  <2>. QED
    BY <2>2, <2>3
<1>4. CASE c.kind = "sign"
  <2>1. s \in [active : BOOLEAN, phase : {Sign!NotFixed, Sign!Positive, Sign!Negative}]
    BY <1>4 DEF Sound, SignSound, Sign!States
  <2>2. Sign!Holds(c, p) /\ b[k] \in Int /\ Respects(p, [key |-> k, value |-> b[k]])
    BY <1>4 DEF Holds, Inside, BoxOver
  <2>3. /\ Sign!IsPositive(c, k, b[k]) => p[c.f] = 1
        /\ Sign!IsNegative(c, k, b[k]) => p[c.f] = -1
        /\ Sign!IsPositive(c, h, x) => p[c.f] = 1
        /\ Sign!IsNegative(c, h, x) => p[c.f] = -1
    BY <1>4, <2>2, SignTells
  <2>4. /\ Sign!IsPositive(c, h, x) => r.phase = Sign!Positive
        /\ ~Sign!IsPositive(c, h, x) /\ Sign!IsNegative(c, h, x) => r.phase = Sign!Negative
        /\ ~Sign!IsPositive(c, h, x) /\ ~Sign!IsNegative(c, h, x) => r.phase = s.phase
    BY <1>4, <2>1 DEF Notified, Sign!Notified
  <2>5. /\ Sign!IsPositive(c, k, b[k]) => s.phase = Sign!Positive
        /\ ~Sign!IsPositive(c, k, b[k]) /\ Sign!IsNegative(c, k, b[k]) => s.phase = Sign!Negative
    BY <1>4 DEF Calm
  <2> HIDE DEF r
  <2>6. /\ Sign!IsPositive(c, k, b[k]) => r.phase = Sign!Positive
        /\ ~Sign!IsPositive(c, k, b[k]) /\ Sign!IsNegative(c, k, b[k]) => r.phase = Sign!Negative
    BY <2>3, <2>4, <2>5
  <2>. QED
    BY <1>4, <2>6 DEF Calm, r
<1>5. CASE c.kind = "max"
  <2>1. MaxSound(c, s, p) /\ Max!Holds(c, p) /\ Max!Linear(c, p) /\ MaxCalm(c, s, k, b[k])
    BY <1>5 DEF Sound, Holds, Linear, Calm
  <2>2. MaxCalm(c, Max!Notified(c, s, b, h, x), k, b[k])
    BY <1>5, <2>1, MaxStaysCalm
  <2>. QED
    BY <1>5, <2>2 DEF Notified, Calm
<1>6. CASE c.kind = "disj"
  <2>1. s \in [active : BOOLEAN, feasible : SUBSET c.disjuncts]
    BY <1>6 DEF Sound, DisjSound, Disj!States
  <2>2. s.feasible = {d \in c.disjuncts : Disj!CaseSplitIsFeasible(b, d)}
    BY <1>6 DEF Calm
  <2>3. r = [s EXCEPT !.feasible = {d \in c.disjuncts : Disj!CaseSplitIsFeasible(b, d)}]
    BY <1>6 DEF Notified, Disj!Notified
  <2>4. r = s
    BY <2>1, <2>2, <2>3
  <2>. QED
    BY <2>4
<1>. QED
  BY <1>1, <1>2, <1>3, <1>4, <1>5, <1>6 DEF WellFormed

\* A bound moves only to a tightening that is tighter.
LEMMA TightenedMoves ==
    ASSUME NEW b, NEW T, NEW k \in DOMAIN b
    PROVE  \/ Tightened(b, T)[k] = b[k]
           \/ \E t \in T : /\ t.key = k /\ Tighter(k, t.value, b[k])
                           /\ Tightened(b, T)[k] = t.value
  BY DEF Tightened, Effective

\* What was told of a maximum is known to it.
LEMMA MaxToldCalm ==
    ASSUME NEW n \in Nat, NEW c, WellFormed(c, n), c.kind = "max", NEW s \in Max!States(c),
           NEW b, NEW h \in (0 .. n - 1) \X {"LB", "UB"}, NEW x \in Int
    PROVE  MaxCalm(c, Max!Notified(c, s, b, h, x), h, x)
<1> DEFINE v == h[1]
           O == Owners(c, s, v)
           r == Max!Notified(c, s, b, h, x)
<1>1. s \in [active : BOOLEAN, elements : SUBSET c.elements, maxLowerBound : Int,
             haveEliminated : BOOLEAN]
  BY DEF Max!States
<1>2. O # {} => v \notin {c.f} \cup s.elements
  BY <1>1 DEF WellFormed, Auxiliary, Arguments, Owners
<1>3. CASE h[2] = "LB" /\ O # {} /\ x > 0
  <2>1. r = [s EXCEPT !.elements = s.elements \ O]
    BY <1>3 DEF Max!Notified, Max!AfterLower, Owners
  <2> HIDE DEF r
  <2>2. r.elements = s.elements \ O
    BY <1>1, <2>1
  <2>3. Owners(c, r, v) = {} /\ v \notin {c.f} \cup r.elements
    BY <1>2, <1>3, <2>2 DEF Owners
  <2>. QED
    BY <1>3, <2>3 DEF MaxCalm, r
<1>4. CASE /\ h[2] = "LB" /\ ~(O # {} /\ x > 0)
           /\ v \in {c.f} \cup s.elements /\ x > s.maxLowerBound
  <2>1. r = Max!Raised(c, s, b, v, x)
    BY <1>4 DEF Max!Notified, Max!AfterLower, Owners
  <2>2. r.maxLowerBound = x /\ r.elements \subseteq s.elements
    BY <1>1, <2>1 DEF Max!Raised
  <2> HIDE DEF r
  <2>3. Owners(c, r, v) = {}
    BY <1>2, <1>4, <2>2 DEF Owners
  <2>. QED
    BY <1>4, <2>2, <2>3 DEF MaxCalm, r
<1>5. CASE h[2] = "UB" /\ O # {} /\ x = 0
  <2>1. r = [s EXCEPT !.elements = O, !.haveEliminated = FALSE]
    BY <1>5 DEF Max!Notified, Max!AfterUpper, Owners
  <2>2. O = {e \in O : c.aux[e] = v} /\ O \subseteq s.elements
    BY DEF Owners
  <2> HIDE DEF r, O
  <2>3. r.elements = O /\ r.haveEliminated = FALSE
    BY <1>1, <2>1
  <2>4. r.elements = Owners(c, r, v) /\ v \notin r.elements
    BY <1>2, <1>5, <2>2, <2>3 DEF Owners
  <2>. QED
    BY <1>5, <2>3, <2>4 DEF MaxCalm, r
<1>6. CASE h[2] = "UB" /\ O = {} /\ v \in s.elements /\ x < s.maxLowerBound
  <2>1. r = [s EXCEPT !.elements = s.elements \ {v}]
    BY <1>6 DEF Max!Notified, Max!AfterUpper, Owners
  <2> HIDE DEF r
  <2>2. r.elements = s.elements \ {v}
    BY <1>1, <2>1
  <2>3. Owners(c, r, v) = {} /\ v \notin r.elements
    BY <1>6, <2>2 DEF Owners
  <2>. QED
    BY <1>6, <2>3 DEF MaxCalm, r
<1>7. CASE h[2] = "LB" /\ ~(O # {} /\ x > 0) /\ ~(v \in {c.f} \cup s.elements /\ x > s.maxLowerBound)
  <2>1. r = s
    BY <1>7 DEF Max!Notified, Max!AfterLower, Owners
  <2>2. s.maxLowerBound \in Int
    BY <1>1
  <2>. QED
    BY <1>7, <2>1, <2>2 DEF MaxCalm
<1>8. CASE h[2] = "UB" /\ ~(O # {} /\ x = 0) /\ ~(O = {} /\ v \in s.elements /\ x < s.maxLowerBound)
  <2>1. r = s
    BY <1>8 DEF Max!Notified, Max!AfterUpper, Owners
  <2>2. s.maxLowerBound \in Int
    BY <1>1
  <2>. QED
    BY <1>2, <1>8, <2>1, <2>2 DEF MaxCalm
<1>. QED
  BY <1>3, <1>4, <1>5, <1>6, <1>7, <1>8

\* And stays known when it tightens the bound itself, unless it is the lower bound of
\* its output.
LEMMA MaxReactedCalm ==
    ASSUME NEW n \in Nat, NEW b \in BoxOver(n), NEW p \in Point(n), Inside(p, b),
           NEW c, WellFormed(c, n), c.kind = "max", NEW r, MaxSound(c, r, p), Max!Holds(c, p),
           NEW h \in (0 .. n - 1) \X {"LB", "UB"}, h # <<c.f, "LB">>, MaxCalm(c, r, h, b[h])
    PROVE  MaxCalm(c, r, h, Tightened(b, Max!Entailed(c, r, b))[h])
<1> DEFINE T == Max!Entailed(c, r, b)
           fUB == b[<<c.f, "UB">>]
<1>1. h \in DOMAIN b
  BY DEF BoxOver
<1>2. r.elements \subseteq c.elements /\ r.maxLowerBound \in Int /\ r.maxLowerBound <= p[c.f]
  BY DEF MaxSound, Max!States
<1>3. c.f \in 0 .. n - 1
  BY DEF WellFormed, Watched, Max!Variables
<1>4. fUB \in Int /\ p[c.f] \in Int /\ p[c.f] <= fUB
  BY <1>3, InsideBounds
<1>5. fUB >= r.maxLowerBound
  BY <1>2, <1>4
<1>6. ASSUME NEW t \in T, t.key = h, Tightened(b, T)[h] = t.value
      PROVE  MaxCalm(c, r, h, t.value)
  <2>1. \/ h = <<c.f, "UB">>
        \/ \E e \in r.elements : h = <<e, "UB">> /\ t.value = fUB
    <3>1. \/ \E x : t = Max!Most(c.f, x)
          \/ \E e \in r.elements : t = Max!Most(e, fUB)
          \/ \E x : t = Max!Least(c.f, x)
      BY <1>6, Zenon DEF Max!Entailed
    <3>. QED
      BY <1>6, <3>1 DEF Max!Most, Max!Least
  <2>2. h[2] = "UB" /\ h[1] \in {c.f} \cup r.elements
    BY <2>1
  <2>3. Owners(c, r, h[1]) = {}
    BY <1>2, <2>2 DEF Owners, WellFormed, Auxiliary, Arguments
  <2>4. h[1] \in r.elements => t.value = fUB
    BY <1>2, <2>1 DEF WellFormed
  <2>. QED
    BY <1>5, <2>2, <2>3, <2>4 DEF MaxCalm
<1> HIDE DEF T
<1>7. \/ Tightened(b, T)[h] = b[h]
      \/ \E t \in T : t.key = h /\ Tightened(b, T)[h] = t.value
  BY <1>1, TightenedMoves
<1>8. MaxCalm(c, r, h, Tightened(b, T)[h])
  BY <1>6, <1>7
<1>. QED
  BY <1>8 DEF T

\* A negative bound stays negative when it is divided.
LEMMA QuotientNegative ==
    ASSUME NEW k \in Nat \ {0}, NEW x \in Int, x < 0
    PROVE  x \div k \in Int /\ x \div k < 0
<1> DEFINE q == x \div k
<1>1. q \in Int /\ k * q <= x
  BY SMT
<1> HIDE DEF q
<1>2. CASE q >= 0
  <2>1. k * 0 <= k * q
    BY <1>1, <1>2, TimesOrder
  <2>2. k * 0 = 0 /\ k * q \in Int
    BY <1>1, TimesType
  <2>. QED
    BY <1>1, <2>1, <2>2
<1>. QED
  BY <1>1, <1>2 DEF q

\* What a constraint tightens of the bound it is told of does not concern it: told of
\* a bound, it is calm about it afterwards.
LEMMA ReluToldCalm ==
    ASSUME NEW n \in Nat, NEW b \in BoxOver(n), NEW c, NEW s \in Relu!States(c),
           NEW h \in (0 .. n - 1) \X {"LB", "UB"}, c.aux \notin {c.b, c.f},
           NEW d, d = Tightened(b, Relu!Reaction(c, s, b, h))
    PROVE  LET r == Relu!Notified(c, s, b, h)
           IN  Relu!Fixed(c, r) \/ Relu!PhaseAfter(c, h, d[h]) = Relu!NotFixed
<1> DEFINE r == Relu!Notified(c, s, b, h)
           a == Relu!PhaseAfter(c, h, b[h])
           T == Relu!Reaction(c, s, b, h)
<1>1. SUFFICES ASSUME ~Relu!Fixed(c, r) PROVE Relu!PhaseAfter(c, h, d[h]) = Relu!NotFixed
  OBVIOUS
<1>2. ~Relu!Fixed(c, s) /\ a = Relu!NotFixed
  <2>1. s \in [active : BOOLEAN, phase : {Relu!NotFixed, Relu!Active, Relu!Inactive}]
    BY DEF Relu!States
  <2>2. ~Relu!Fixed(c, s)
    BY <1>1 DEF Relu!Notified
  <2>3. r = [s EXCEPT !.phase = a]
    BY <2>2 DEF Relu!Notified
  <2> HIDE DEF r, a
  <2>4. r.phase = a
    BY <2>1, <2>3
  <2>. QED
    BY <1>1, <2>2, <2>4 DEF Relu!Fixed
<1>3. h \in DOMAIN b /\ b[h] \in Int
  BY DEF BoxOver
<1>4. ASSUME NEW t \in T, t.key = h, Tighter(h, t.value, b[h])
      PROVE  h = <<c.f, "LB">> /\ c.f # c.b /\ t.value = 0
  <2>1. CASE h[2] = "LB"
    <3>1. t \in Relu!LowerReaction(c, h[1], b[h])
      BY <1>4, <2>1 DEF Relu!Reaction
    <3>2. t.key[2] = "LB" /\ t.key[1] = h[1] /\ t.value > b[h]
      BY <1>4, <2>1 DEF Tighter
    <3>. QED
      BY <1>3, <2>1, <3>1, <3>2 DEF Relu!LowerReaction, Relu!Partner, Relu!Least, Relu!Most
  <2>2. CASE h[2] = "UB"
    <3>1. t \in Relu!UpperReaction(c, h[1], b[h])
      BY <1>4, <2>2 DEF Relu!Reaction
    <3>2. t.key[2] = "UB" /\ t.key[1] = h[1] /\ t.value < b[h]
      BY <1>4, <2>2 DEF Tighter
    <3>3. a = Relu!NotFixed
      BY <1>2
    <3>. QED
      BY <1>3, <2>2, <3>1, <3>2, <3>3 DEF Relu!UpperReaction, Relu!Least, Relu!Most
  <2>. QED
    BY <2>1, <2>2
<1>5. CASE d[h] = b[h]
  BY <1>2, <1>5
<1>6. CASE h = <<c.f, "LB">> /\ c.f # c.b /\ d[h] = 0
  BY <1>6 DEF Relu!PhaseAfter
<1> HIDE DEF T
<1>7. \/ d[h] = b[h]
      \/ \E t \in T : t.key = h /\ Tighter(h, t.value, b[h]) /\ d[h] = t.value
  BY <1>3, TightenedMoves DEF T
<1>. QED
  BY <1>4, <1>5, <1>6, <1>7

\* The same of a leaky ReLU.
LEMMA LeakyToldCalm ==
    ASSUME NEW n \in Nat, NEW b \in BoxOver(n), NEW c, NEW s \in Leaky!States(c),
           NEW h \in (0 .. n - 1) \X {"LB", "UB"}, c.k \in Nat \ {0, 1},
           {c.activeAux, c.inactiveAux} \cap {c.b, c.f} = {},
           NEW d, d = Tightened(b, Leaky!Reaction(c, s, h, b[h]))
    PROVE  LET r == Leaky!Notified(c, s, h, b[h])
           IN  Leaky!Fixed(c, r) \/ Leaky!PhaseAfter(c, r, h, d[h]) = Leaky!NotFixed
<1> DEFINE x == b[h]
           a == Leaky!PhaseAfter(c, s, h, x)
           r == Leaky!Notified(c, s, h, x)
           T == Leaky!Reaction(c, s, h, x)
<1>1. SUFFICES ASSUME ~Leaky!Fixed(c, r) PROVE Leaky!PhaseAfter(c, r, h, d[h]) = Leaky!NotFixed
  OBVIOUS
<1>2. ~Leaky!Fixed(c, s) /\ a = Leaky!NotFixed /\ r.phase = Leaky!NotFixed
  <2>1. s \in [active : BOOLEAN, phase : {Leaky!NotFixed, Leaky!Active, Leaky!Inactive}]
    BY DEF Leaky!States
  <2>2. r = [s EXCEPT !.phase = a]
    BY DEF Leaky!Notified
  <2>3. a \in {Leaky!Active, Leaky!Inactive, s.phase}
    BY DEF Leaky!PhaseAfter
  <2> HIDE DEF r, a
  <2>4. r.phase = a
    BY <2>1, <2>2
  <2>. QED
    BY <1>1, <2>3, <2>4 DEF Leaky!Fixed, Leaky!NotFixed, Leaky!Active, Leaky!Inactive
<1>3. h \in DOMAIN b /\ x \in Int
  BY DEF BoxOver
<1>4. ~(/\ h[1] \in {c.b, c.f}
        /\ \/ h[2] = "LB" /\ x >= 0
           \/ h[2] = "UB" /\ x < 0)
  BY <1>2 DEF Leaky!PhaseAfter, Leaky!NotFixed, Leaky!Active, Leaky!Inactive
<1>5. ASSUME NEW t \in T, t.key = h, Tighter(h, t.value, x)
      PROVE  h = <<c.b, "LB">> /\ t.value \in Int /\ t.value < 0
  <2>1. CASE h[2] = "LB"
    <3>1. t \in Leaky!LowerReaction(c, h[1], x)
      BY <1>5, <2>1 DEF Leaky!Reaction
    <3>2. t.key[2] = "LB" /\ t.key[1] = h[1] /\ t.value > x
      BY <1>5, <2>1 DEF Tighter
    <3>3. CASE h[1] = c.b
      <4>1. x < 0
        BY <1>3, <1>4, <2>1, <3>3
      <4>2. t.value = x \div c.k
        BY <1>3, <3>1, <3>2, <3>3, <4>1 DEF Leaky!LowerReaction, Leaky!Least, Leaky!SlopeBelow
      <4>. QED
        BY <1>3, <2>1, <3>3, <4>1, <4>2, QuotientNegative
    <3>4. CASE h[1] # c.b
      BY <1>3, <1>4, <2>1, <3>1, <3>2, <3>4 DEF Leaky!LowerReaction, Leaky!Least, Leaky!Most
    <3>. QED
      BY <3>3, <3>4
  <2>2. CASE h[2] = "UB"
    <3>1. t \in Leaky!UpperReaction(c, h[1], x)
      BY <1>5, <2>2 DEF Leaky!Reaction
    <3>2. t.key[2] = "UB" /\ t.key[1] = h[1] /\ t.value < x
      BY <1>5, <2>2 DEF Tighter
    <3>3. h[1] \in {c.b, c.f} => x >= 0
      BY <1>3, <1>4, <2>2
    <3>. QED
      BY <1>3, <3>1, <3>2, <3>3 DEF Leaky!UpperReaction, Leaky!Most
  <2>. QED
    BY <2>1, <2>2
<1>6. CASE d[h] = x
  <2>1. Leaky!PhaseAfter(c, r, h, x) = Leaky!NotFixed
    BY <1>2 DEF Leaky!PhaseAfter, Leaky!Fixed
  <2>. QED
    BY <1>6, <2>1
<1>7. CASE h = <<c.b, "LB">> /\ d[h] \in Int /\ d[h] < 0
  <2> HIDE DEF r
  <2>. QED
    BY <1>2, <1>7 DEF Leaky!PhaseAfter
<1> HIDE DEF T, x
<1>8. \/ d[h] = x
      \/ \E t \in T : t.key = h /\ Tighter(h, t.value, x) /\ d[h] = t.value
  BY <1>3, TightenedMoves DEF T, x
<1>. QED
  BY <1>5, <1>6, <1>7, <1>8

\* The same of an absolute value: all it may tighten of the bound it is told of is the
\* lower bound of its output, to 0, and that tells it no phase.
LEMMA AbsToldCalm ==
    ASSUME NEW n \in Nat, NEW b \in BoxOver(n), NEW c, WellFormed(c, n), c.kind = "abs",
           NEW s \in Abs!States(c), NEW h \in (0 .. n - 1) \X {"LB", "UB"},
           NEW d, d = Tightened(b, Abs!Reaction(c, s, b, h, b[h])), AgreeBut(c, n, b, d, h)
    PROVE  LET r == Abs!Notified(c, s, b)
           IN  Abs!Fixed(c, r) \/ Abs!PhaseOf(c, d) = Abs!NotFixed
<1> DEFINE r == Abs!Notified(c, s, b)
           a == Abs!PhaseOf(c, b)
           x == b[h]
           T == Abs!Reaction(c, s, b, h, x)
<1>1. SUFFICES ASSUME ~Abs!Fixed(c, r) PROVE Abs!PhaseOf(c, d) = Abs!NotFixed
  OBVIOUS
<1>2. a = Abs!NotFixed
  <2>1. s \in [active : BOOLEAN, phase : {Abs!NotFixed, Abs!Positive, Abs!Negative}]
    BY DEF Abs!States
  <2>2. ~Abs!Fixed(c, s)
    BY <1>1 DEF Abs!Notified
  <2>3. r = [s EXCEPT !.phase = a]
    BY <2>2 DEF Abs!Notified
  <2> HIDE DEF r, a
  <2>4. r.phase = a
    BY <2>1, <2>3
  <2>. QED
    BY <1>1, <2>4 DEF Abs!Fixed
<1>3. h \in DOMAIN b /\ x \in Int
  BY DEF BoxOver
<1>4. /\ c.posAux \notin {c.b, c.f} /\ c.negAux \notin {c.b, c.f}
      /\ {c.b, c.f, c.posAux, c.negAux} \subseteq 0 .. n - 1
  BY DEF WellFormed, Auxiliary, Arguments, Watched, Abs!Variables
<1>5. /\ b[<<c.b, "LB">>] \in Int /\ b[<<c.b, "UB">>] \in Int /\ b[<<c.f, "LB">>] \in Int
  BY <1>4 DEF BoxOver
<1>6. /\ b[<<c.b, "LB">>] < 0 /\ b[<<c.b, "UB">>] > 0
      /\ b[<<c.posAux, "UB">>] # 0 /\ ~(b[<<c.posAux, "LB">>] > 0)
      /\ b[<<c.negAux, "UB">>] # 0 /\ ~(b[<<c.negAux, "LB">>] > 0)
  BY <1>2, <1>5 DEF Abs!PhaseOf, Abs!NotFixed, Abs!Positive, Abs!Negative
<1>7. ASSUME NEW t \in T, t.key = h, Tighter(h, t.value, x)
      PROVE  h = <<c.f, "LB">> /\ c.f # c.b /\ t.value = 0
  <2>1. CASE h[2] = "LB"
    <3>1. t \in Abs!LowerReaction(c, b, h[1], x)
      BY <1>7, <2>1 DEF Abs!Reaction
    <3>2. t.key[2] = "LB" /\ t.key[1] = h[1]
      BY <1>7, <2>1
    <3>. QED
      BY <1>3, <2>1, <3>1, <3>2 DEF Abs!LowerReaction, Abs!Least, Abs!Most
  <2>2. CASE h[2] = "UB"
    <3>1. t \in Abs!UpperReaction(c, b, h[1], x)
      BY <1>7, <2>2 DEF Abs!Reaction
    <3>2. t.key[2] = "UB" /\ t.key[1] = h[1] /\ t.value < x
      BY <1>7, <2>2 DEF Tighter
    <3>3. CASE h[1] = c.b
      <4>1. t.key = <<c.f, "UB">> /\ t.value = Abs!Larger(x, -b[<<c.b, "LB">>])
        BY <1>4, <3>1, <3>2, <3>3 DEF Abs!UpperReaction, Abs!Most
      <4>. QED
        BY <1>3, <1>5, <3>2, <4>1 DEF Abs!Larger
    <3>4. CASE h[1] # c.b /\ h[1] = c.f
      BY <1>4, <3>1, <3>2, <3>4 DEF Abs!UpperReaction, Abs!Most, Abs!Least
    <3>5. CASE h[1] \notin {c.b, c.f}
      BY <1>4, <3>1, <3>2, <3>5 DEF Abs!UpperReaction, Abs!Most, Abs!Least
    <3>. QED
      BY <3>3, <3>4, <3>5
  <2>. QED
    BY <2>1, <2>2
<1>8. \A v \in {c.b, c.f, c.posAux, c.negAux} :
        /\ <<v, "LB">> # h => d[<<v, "LB">>] = b[<<v, "LB">>]
        /\ <<v, "UB">> # h => d[<<v, "UB">>] = b[<<v, "UB">>]
  BY <1>4 DEF AgreeBut, Watched, Abs!Variables
<1>9. CASE d[h] = x
  <2>1. Abs!PhaseOf(c, d) = a
    BY <1>8, <1>9 DEF Abs!PhaseOf
  <2>. QED
    BY <1>2, <2>1
<1>10. CASE h = <<c.f, "LB">> /\ c.f # c.b /\ d[h] = 0
  <2>1. /\ d[<<c.b, "LB">>] = b[<<c.b, "LB">>] /\ d[<<c.b, "UB">>] = b[<<c.b, "UB">>]
        /\ d[<<c.posAux, "LB">>] = b[<<c.posAux, "LB">>] /\ d[<<c.posAux, "UB">>] = b[<<c.posAux, "UB">>]
        /\ d[<<c.negAux, "LB">>] = b[<<c.negAux, "LB">>] /\ d[<<c.negAux, "UB">>] = b[<<c.negAux, "UB">>]
        /\ d[<<c.f, "LB">>] = 0
    BY <1>4, <1>8, <1>10
  <2>. QED
    BY <1>5, <1>6, <2>1 DEF Abs!PhaseOf
<1> HIDE DEF T, x
<1>11. \/ d[h] = x
       \/ \E t \in T : t.key = h /\ Tighter(h, t.value, x) /\ d[h] = t.value
  BY <1>3, TightenedMoves DEF T, x
<1>. QED
  BY <1>7, <1>9, <1>10, <1>11

\* The same of a sign.
LEMMA SignToldCalm ==
    ASSUME NEW n \in Nat, NEW b \in BoxOver(n), NEW c, NEW s \in Sign!States(c),
           NEW h \in (0 .. n - 1) \X {"LB", "UB"},
           NEW d \in BoxOver(n), d = Tightened(b, Sign!Reaction(c, h, b[h]))
    PROVE  LET r == Sign!Notified(c, s, h, b[h])
           IN  /\ Sign!IsPositive(c, h, d[h]) => r.phase = Sign!Positive
               /\ ~Sign!IsPositive(c, h, d[h]) /\ Sign!IsNegative(c, h, d[h]) =>
                    r.phase = Sign!Negative
<1> DEFINE r == Sign!Notified(c, s, h, b[h])
<1>1. s \in [active : BOOLEAN, phase : {Sign!NotFixed, Sign!Positive, Sign!Negative}]
  BY DEF Sign!States
<1>2. /\ Sign!IsPositive(c, h, b[h]) => r.phase = Sign!Positive
      /\ ~Sign!IsPositive(c, h, b[h]) /\ Sign!IsNegative(c, h, b[h]) => r.phase = Sign!Negative
  BY <1>1 DEF Sign!Notified
<1>3. /\ Sign!IsPositive(c, h, b[h]) => h[2] = "LB"
      /\ Sign!IsPositive(c, h, d[h]) => h[2] = "LB"
      /\ Sign!IsNegative(c, h, b[h]) => h[2] = "UB"
      /\ Sign!IsNegative(c, h, d[h]) => h[2] = "UB"
  BY DEF Sign!IsPositive, Sign!IsNegative
<1>4. ~Sign!IsPositive(c, h, b[h]) /\ ~Sign!IsNegative(c, h, b[h]) => d[h] = b[h]
  BY DEF Sign!Reaction, Tightened, Effective, BoxOver
<1> HIDE DEF r
<1>5. /\ Sign!IsPositive(c, h, d[h]) => r.phase = Sign!Positive
      /\ ~Sign!IsPositive(c, h, d[h]) /\ Sign!IsNegative(c, h, d[h]) => r.phase = Sign!Negative
  BY <1>2, <1>3, <1>4
<1>. QED
  BY <1>5 DEF r

\* Told of a bound the box has, a constraint is calm about it in the box it makes.
LEMMA CalmTold ==
    ASSUME NEW n \in Nat, NEW b \in BoxOver(n), NEW p \in Point(n), Inside(p, b),
           NEW c, WellFormed(c, n), NEW s, Sound(c, s, p), Holds(c, p), Linear(c, p),
           NEW h \in (0 .. n - 1) \X {"LB", "UB"}, NEW d \in BoxOver(n),
           ~(c.kind = "max" /\ h = <<c.f, "LB">> /\ d[h] # b[h]), d = Tightened(b, Reaction(c, s, b, h, b[h])),
           Wholesale(c) => AgreeBut(c, n, b, d, h),
           Sound(c, Notified(c, s, b, h, b[h]), p)
    PROVE  Calm(c, Notified(c, s, b, h, b[h]), d, h)
<1>1. CASE c.kind = "relu"
  <2>1. s \in Relu!States(c) /\ c.aux \notin {c.b, c.f}
    BY <1>1 DEF Sound, ReluSound, WellFormed, Auxiliary, Arguments
  <2>2. d = Tightened(b, Relu!Reaction(c, s, b, h))
    BY <1>1 DEF Reaction
  <2>3. LET r == Relu!Notified(c, s, b, h)
        IN  Relu!Fixed(c, r) \/ Relu!PhaseAfter(c, h, d[h]) = Relu!NotFixed
    BY <2>1, <2>2, ReluToldCalm
  <2>. QED
    BY <1>1, <2>3 DEF Calm, Notified
<1>2. CASE c.kind = "leaky"
  <2>1. /\ s \in Leaky!States(c) /\ c.k \in Nat \ {0, 1}
        /\ {c.activeAux, c.inactiveAux} \cap {c.b, c.f} = {}
    BY <1>2 DEF Sound, LeakySound, WellFormed, Auxiliary, Arguments
  <2>2. d = Tightened(b, Leaky!Reaction(c, s, h, b[h]))
    BY <1>2 DEF Reaction
  <2>3. LET r == Leaky!Notified(c, s, h, b[h])
        IN  Leaky!Fixed(c, r) \/ Leaky!PhaseAfter(c, r, h, d[h]) = Leaky!NotFixed
    BY <2>1, <2>2, LeakyToldCalm
  <2>. QED
    BY <1>2, <2>3 DEF Calm, Notified
<1>3. CASE c.kind = "abs"
  <2>1. s \in Abs!States(c)
    BY <1>3 DEF Sound, AbsSound
  <2>2. d = Tightened(b, Abs!Reaction(c, s, b, h, b[h])) /\ AgreeBut(c, n, b, d, h)
    BY <1>3 DEF Reaction, Wholesale
  <2>3. LET r == Abs!Notified(c, s, b)
        IN  Abs!Fixed(c, r) \/ Abs!PhaseOf(c, d) = Abs!NotFixed
    BY <1>3, <2>1, <2>2, AbsToldCalm
  <2>. QED
    BY <1>3, <2>3 DEF Calm, Notified
<1>4. CASE c.kind = "sign"
  <2>1. s \in Sign!States(c)
    BY <1>4 DEF Sound, SignSound
  <2>2. d = Tightened(b, Sign!Reaction(c, h, b[h]))
    BY <1>4 DEF Reaction
  <2>3. LET r == Sign!Notified(c, s, h, b[h])
        IN  /\ Sign!IsPositive(c, h, d[h]) => r.phase = Sign!Positive
            /\ ~Sign!IsPositive(c, h, d[h]) /\ Sign!IsNegative(c, h, d[h]) =>
                r.phase = Sign!Negative
    BY <2>1, <2>2, SignToldCalm
  <2>. QED
    BY <1>4, <2>3 DEF Calm, Notified
<1>5. CASE c.kind = "max"
  <2> DEFINE r == Max!Notified(c, s, b, h, b[h])
  <2>1. s \in Max!States(c) /\ MaxSound(c, r, p) /\ Max!Holds(c, p) /\ b[h] \in Int
    BY <1>5 DEF Sound, MaxSound, Notified, Holds, BoxOver
  <2>2. MaxCalm(c, r, h, b[h])
    BY <1>5, <2>1, MaxToldCalm
  <2>3. h # <<c.f, "LB">> => MaxCalm(c, r, h, Tightened(b, Max!Entailed(c, r, b))[h])
    BY <1>5, <2>1, <2>2, MaxReactedCalm
  <2>4. d = Tightened(b, Max!Entailed(c, r, b)) \/ d = Tightened(b, {})
    BY <1>5 DEF Reaction, Max!Reaction
  <2>5. Tightened(b, {})[h] = b[h]
    BY DEF Tightened, Effective, BoxOver
  <2> HIDE DEF r
  <2>6. MaxCalm(c, r, h, d[h])
    BY <1>5, <2>2, <2>3, <2>4, <2>5
  <2>. QED
    BY <1>5, <2>6 DEF Calm, Notified, r
<1>6. CASE c.kind = "disj"
  <2> DEFINE F == {e \in c.disjuncts : Disj!CaseSplitIsFeasible(b, e)}
  <2>1. s \in [active : BOOLEAN, feasible : SUBSET c.disjuncts]
    BY <1>6 DEF Sound, DisjSound, Disj!States
  <2>2. Notified(c, s, b, h, b[h]) = [s EXCEPT !.feasible = F]
    BY <1>6 DEF Notified, Disj!Notified
  <2>3. d = b
    BY <1>6 DEF Reaction, Tightened, Effective, BoxOver
  <2> HIDE DEF F
  <2>4. Notified(c, s, b, h, b[h]).feasible = F
    BY <2>1, <2>2
  <2>. QED
    BY <1>6, <2>3, <2>4 DEF Calm, F
<1>. QED
  BY <1>1, <1>2, <1>3, <1>4, <1>5, <1>6 DEF WellFormed

\* A maximum's bound is never below what the preprocessor eliminated.
LEMMA MaxFloor ==
    ASSUME NEW n, NEW c, WellFormed(c, n), c.kind = "max", NEW s \in Max!States(c),
           s.maxLowerBound >= c.maxValueOfEliminated, NEW b, NEW h, NEW x \in Int
    PROVE  Max!Notified(c, s, b, h, x).maxLowerBound >= c.maxValueOfEliminated
<1>1. s \in [active : BOOLEAN, elements : SUBSET c.elements, maxLowerBound : Int,
             haveEliminated : BOOLEAN]
  BY DEF Max!States
<1>2. c.maxValueOfEliminated \in Int
  BY DEF WellFormed
<1>3. ASSUME NEW v
      PROVE  Max!AfterLower(c, s, b, v, x).maxLowerBound >= c.maxValueOfEliminated
  <2>1. CASE v \in {c.f} \cup s.elements /\ x > s.maxLowerBound
    <3>1. Max!Raised(c, s, b, v, x).maxLowerBound = x
      BY <1>1 DEF Max!Raised
    <3>2. \A E : [s EXCEPT !.elements = E].maxLowerBound = s.maxLowerBound
      BY <1>1
    <3>3. \/ Max!AfterLower(c, s, b, v, x) = Max!Raised(c, s, b, v, x)
          \/ \E E : Max!AfterLower(c, s, b, v, x) = [s EXCEPT !.elements = E]
      BY <2>1 DEF Max!AfterLower
    <3>. QED
      BY <1>1, <1>2, <2>1, <3>1, <3>2, <3>3
  <2>2. CASE ~(v \in {c.f} \cup s.elements /\ x > s.maxLowerBound)
    BY <1>1, <2>2 DEF Max!AfterLower
  <2>. QED
    BY <2>1, <2>2
<1>4. ASSUME NEW v
      PROVE  Max!AfterUpper(c, s, v, x).maxLowerBound >= c.maxValueOfEliminated
  BY <1>1 DEF Max!AfterUpper
<1>. QED
  BY <1>3, <1>4 DEF Max!Notified

-----------------------------------------------------------------------------
(* What the constraints know *)

\* The constraint knows all the bounds but those it has yet to be told of.  One that
\* looks at all the bounds may have missed any as long as one of them is to come.
KnownOf(c, s, b, P, n) ==
    \A k \in (0 .. n - 1) \X {"LB", "UB"} :
        \/ k \in P
        \/ k[1] \notin Watched(c)
        \/ Calm(c, s, b, k)
        \/ Wholesale(c) /\ \E h \in P : h[1] \in Watched(c)

\* What it is not told of does not move, or is to come.
LEMMA StillKnown ==
    ASSUME NEW n \in Nat, NEW c, WellFormed(c, n), NEW s, NEW p, Sound(c, s, p),
           NEW b, NEW d, NEW P, NEW Q, P \subseteq Q, KnownOf(c, s, b, P, n),
           \A k \in (0 .. n - 1) \X {"LB", "UB"} : k \in Q \/ k[1] \notin Watched(c) \/ d[k] = b[k],
           NEW r, r = s \/ r = [s EXCEPT !.active = FALSE]
    PROVE  KnownOf(c, r, d, Q, n)
<1>1. SUFFICES ASSUME NEW k \in (0 .. n - 1) \X {"LB", "UB"}, k \notin Q, k[1] \in Watched(c),
                      ~(Wholesale(c) /\ \E h \in Q : h[1] \in Watched(c))
               PROVE  Calm(c, r, d, k)
  BY DEF KnownOf
<1>2. Calm(c, s, b, k)
  BY <1>1 DEF KnownOf
<1>3. Calm(c, r, b, k)
  BY <1>2, CalmDisabled
<1>4. CASE ~Wholesale(c)
  BY <1>1, <1>3, <1>4, CalmLocally
<1>5. CASE Wholesale(c)
  <2>1. <<-1, "LB">>[1] \notin Watched(c)
    BY DEF WellFormed
  <2>2. AgreeBut(c, n, b, d, <<-1, "LB">>)
    BY <1>1, <1>5 DEF AgreeBut
  <2>. QED
    BY <1>3, <1>5, <2>1, <2>2, CalmWholesale
<1>. QED
  BY <1>4, <1>5

\* Told of a bound that is in force, it knows that one too.
LEMMA ToldKnown ==
    ASSUME NEW n \in Nat, NEW b \in BoxOver(n), NEW p \in Point(n), Inside(p, b),
           NEW c, WellFormed(c, n), NEW s, Sound(c, s, p), Holds(c, p), Linear(c, p),
           c.kind = "max" => s.maxLowerBound >= c.maxValueOfEliminated,
           NEW h \in (0 .. n - 1) \X {"LB", "UB"},
           NEW d \in BoxOver(n), d = Tightened(b, Reaction(c, s, b, h, b[h])),
           ~(c.kind = "max" /\ h = <<c.f, "LB">> /\ d[h] # b[h]),
           Sound(c, Notified(c, s, b, h, b[h]), p),
           NEW P, KnownOf(c, s, b, P, n), NEW Q, P \ {h} \subseteq Q,
           \A k \in (0 .. n - 1) \X {"LB", "UB"} : k \in Q \/ k = h \/ d[k] = b[k]
    PROVE  KnownOf(c, Notified(c, s, b, h, b[h]), d, Q, n)
<1> DEFINE r == Notified(c, s, b, h, b[h])
<1>1. SUFFICES ASSUME NEW k \in (0 .. n - 1) \X {"LB", "UB"}, k \notin Q, k[1] \in Watched(c),
                      ~(Wholesale(c) /\ \E g \in Q : g[1] \in Watched(c))
               PROVE  Calm(c, r, d, k)
  BY DEF KnownOf
<1>2. b[h] \in Int /\ Respects(p, [key |-> h, value |-> b[h]])
  BY DEF BoxOver, Inside
<1>3. Wholesale(c) => AgreeBut(c, n, b, d, h)
  BY <1>1 DEF AgreeBut
<1>4. Calm(c, r, d, h)
  BY <1>3, CalmTold
<1>5. CASE k = h
  BY <1>4, <1>5
<1>6. CASE Wholesale(c)
  <2>1. <<-1, "LB">>[1] \notin Watched(c)
    BY DEF WellFormed
  <2>2. AgreeBut(c, n, d, d, <<-1, "LB">>)
    BY DEF AgreeBut
  <2> HIDE DEF r
  <2>. QED
    BY <1>4, <1>6, <2>1, <2>2, CalmWholesale
<1>7. CASE k # h /\ ~Wholesale(c)
  <2>1. Calm(c, s, b, k) /\ d[k] = b[k]
    BY <1>1, <1>7 DEF KnownOf
  <2>2. Calm(c, r, b, k)
    BY <1>2, <2>1, StaysCalm
  <2> HIDE DEF r
  <2>. QED
    BY <1>7, <2>1, <2>2, CalmLocally
<1>. QED
  BY <1>5, <1>6, <1>7

-----------------------------------------------------------------------------
(* The walk over the flags *)

\* The bounds constraint i has yet to be told of
Pending(i) == IF i < turn THEN flags \ {KeyAt(scan)} ELSE flags

\* No exception has been made, nor will be when the flag is lowered
Live == ~dropped /\ (turn # 1 => ~Overtaken(KeyAt(scan)))

\* The bound that is being told has only moved if somebody who watches it was told
Moving ==
    turn # 1 =>
        \/ box[KeyAt(scan)] = told
        \/ /\ Tighter(KeyAt(scan), box[KeyAt(scan)], told)
           /\ \E j \in Constraints : j < turn /\ KeyAt(scan)[1] \in Watched(Constraint(j))

\* No maximum knows less of itself than what the preprocessor eliminated
Floor ==
    \A i \in Constraints :
        Constraint(i).kind = "max" => state[i].maxLowerBound >= Constraint(i).maxValueOfEliminated

\* Each constraint knows all the bounds but the pending ones
Informed ==
    Live => \A i \in Constraints : KnownOf(Constraint(i), state[i], box, Pending(i), query.n)

NInv == IInv /\ Floor /\ Moving /\ Informed

\* At first all the bounds are flagged, so that nothing is known of any.
LEMMA InitNInv == Init => NInv
<1>1. SUFFICES ASSUME Init PROVE NInv
  OBVIOUS
<1>2. IInv
  BY <1>1, InitIInv
<1>3. Floor
  <2>1. SUFFICES ASSUME NEW i \in Constraints, Constraint(i).kind = "max"
                 PROVE  state[i].maxLowerBound >= Constraint(i).maxValueOfEliminated
    BY DEF Floor
  <2> DEFINE c == Constraint(i)
  <2>2. /\ state[i] = Initial(c, box)
        /\ \A t \in Entailed(c, state[i], box) : ~Tighter(t.key, t.value, box[t.key])
    BY <1>1 DEF Init
  <2>3. state[i] = Max!Initial(c, box)
    BY <2>1, <2>2 DEF Initial
  <2>4. state[i].elements = c.elements /\ state[i].maxLowerBound = box[<<c.f, "LB">>]
    BY <2>3 DEF Max!Initial
  <2>5. /\ query.n \in Nat /\ box \in BoxOver(query.n) /\ sol \in Point(query.n) /\ Inside(sol, box)
        /\ WellFormed(c, query.n) /\ Max!Holds(c, sol)
    BY <1>2, <2>1, StepFacts DEF Holds
  <2>6. \A t \in Max!Entailed(c, state[i], box) : ~Tighter(t.key, t.value, box[t.key])
    BY <2>1, <2>2 DEF Entailed
  <2> HIDE DEF c
  <2>7. box[<<c.f, "LB">>] >= c.maxValueOfEliminated
    BY <2>1, <2>4, <2>5, <2>6, MaxFirst DEF c
  <2>. QED
    BY <2>4, <2>7 DEF c
<1>4. Moving
  BY <1>1 DEF Init, Moving
<1>5. Informed
  <2>1. \A i \in Constraints : Pending(i) = Keys(query)
    <3>1. Constraints = 1 .. Len(query.constraints) /\ Len(query.constraints) \in Nat
      BY <1>2, QueryFacts DEF IInv, Following
    <3>. QED
      BY <1>1, <3>1 DEF Init, Pending
  <2>2. Keys(query) = (0 .. query.n - 1) \X {"LB", "UB"}
    BY DEF Keys
  <2>. QED
    BY <2>1, <2>2 DEF Informed, KnownOf
<1>. QED
  BY <1>2, <1>3, <1>4, <1>5 DEF NInv

\* When nobody is being told, tighter bounds are flagged, and disabling a constraint
\* leaves it what it knows.
LEMMA FlaggedNInv ==
    ASSUME NInv, IInv', turn = 1, UNCHANGED <<query, scan, turn, dropped>>,
           NEW T, Tighten(T, flags),
           \A i \in Constraints :
               state'[i] = state[i] \/ state'[i] = [state[i] EXCEPT !.active = FALSE]
    PROVE  NInv'
<1>1. /\ Constraints' = Constraints /\ \A i \in Constraints : Constraint(i)' = Constraint(i)
  BY DEF Constraints, Constraint
<1>2. Floor'
  <2>1. SUFFICES ASSUME NEW i \in Constraints, Constraint(i).kind = "max"
                 PROVE  state'[i].maxLowerBound >= Constraint(i).maxValueOfEliminated
    BY <1>1 DEF Floor
  <2>2. Sound(Constraint(i), state[i], sol) /\ state[i].maxLowerBound >= Constraint(i).maxValueOfEliminated
    BY <2>1, StepFacts DEF NInv, Floor
  <2>3. state[i] \in Max!States(Constraint(i))
    BY <2>1, <2>2 DEF Sound, MaxSound
  <2>4. [state[i] EXCEPT !.active = FALSE].maxLowerBound = state[i].maxLowerBound
    BY <2>3 DEF Max!States
  <2>. QED
    BY <2>2, <2>4
<1>3. Moving'
  BY DEF Moving
<1>4. Informed'
  <2>1. SUFFICES ASSUME ~dropped, NEW i \in Constraints
                 PROVE  KnownOf(Constraint(i), state'[i], box', Pending(i)', query.n)
    BY <1>1 DEF Informed, Live
  <2>2. Constraints \subseteq Nat \ {0}
    BY QueryFacts DEF NInv, IInv, Following
  <2>3. Pending(i) = flags /\ Pending(i)' = flags'
    BY <2>2 DEF Pending
  <2>4. KnownOf(Constraint(i), state[i], box, flags, query.n)
    BY <2>1, <2>3 DEF NInv, Informed, Live
  <2>5. /\ query.n \in Nat /\ WellFormed(Constraint(i), query.n)
        /\ Sound(Constraint(i), state[i], sol)
        /\ DOMAIN box = (0 .. query.n - 1) \X {"LB", "UB"}
    BY StepFacts DEF NInv, Keys
  <2>6. /\ flags \subseteq flags'
        /\ \A k \in (0 .. query.n - 1) \X {"LB", "UB"} : k \in flags' \/ box'[k] = box[k]
    BY <2>5 DEF Tighten
  <2>. QED
    BY <2>3, <2>4, <2>5, <2>6, StillKnown, ZenonT(40)
<1>. QED
  BY <1>2, <1>3, <1>4 DEF NInv

\* The walk itself tells nobody anything; when it lowers a flag, everybody has been told.
LEMMA WalkNInv ==
    ASSUME NInv, IInv', StartPropagation \/ Skip \/ Lower \/ ApplyAllBoundTightenings
    PROVE  NInv'
<1>1. UNCHANGED <<query, box, state>> /\ turn' = 1
  <2>1. turn \in Nat /\ (turn # 1 => scan # Idle /\ KeyAt(scan) \in flags)
    BY QueryFacts DEF NInv, IInv, Following, Walking, Told
  <2>. QED
    BY <2>1 DEF StartPropagation, Skip, Lower, ApplyAllBoundTightenings
<1>2. /\ Constraints' = Constraints /\ \A i \in Constraints : Constraint(i)' = Constraint(i)
  BY <1>1 DEF Constraints, Constraint
<1>3. Floor'
  BY <1>1, <1>2 DEF NInv, Floor
<1>4. Moving'
  BY <1>1 DEF Moving
<1>5. Informed'
  <2>1. SUFFICES ASSUME ~dropped', NEW i \in Constraints
                 PROVE  KnownOf(Constraint(i), state[i], box, Pending(i)', query.n)
    BY <1>1, <1>2 DEF Informed, Live
  <2>2. /\ Constraints = 1 .. Len(query.constraints) /\ Len(query.constraints) \in Nat
        /\ turn \in 1 .. Len(query.constraints) + 1 /\ dropped \in BOOLEAN
        /\ turn # 1 => scan # Idle /\ KeyAt(scan) \in flags
    BY QueryFacts DEF NInv, IInv, Following, Walking, Told
  <2>3. Pending(i)' = flags'
    BY <1>1, <2>2 DEF Pending
  <2>4. ASSUME Live, Pending(i) \subseteq flags'
        PROVE  KnownOf(Constraint(i), state[i], box, Pending(i)', query.n)
    <3>1. KnownOf(Constraint(i), state[i], box, Pending(i), query.n)
      BY <2>4 DEF NInv, Informed
    <3> DEFINE P == Pending(i)
               Q == flags'
    <3>2. P \subseteq Q /\ KnownOf(Constraint(i), state[i], box, P, query.n)
      BY <2>4, <3>1
    <3> HIDE DEF P, Q
    <3>3. KnownOf(Constraint(i), state[i], box, Q, query.n)
      BY <3>2 DEF KnownOf
    <3>. QED
      BY <2>3, <3>3 DEF Q
  <2>5. CASE StartPropagation \/ Skip
    <3>1. turn = 1 /\ UNCHANGED <<flags, dropped>>
      BY <2>2, <2>5 DEF StartPropagation, Skip
    <3>. QED
      BY <2>1, <2>2, <2>4, <3>1 DEF Live, Pending
  <2>6. CASE Lower
    <3>1. ~dropped /\ ~Overtaken(KeyAt(scan)) /\ turn \notin Constraints /\ flags' = flags \ {KeyAt(scan)}
      BY <2>1, <2>2, <2>6 DEF Lower
    <3>2. i < turn
      BY <2>2, <3>1
    <3>. QED
      BY <2>4, <3>1, <3>2 DEF Live, Pending
  <2>7. CASE ApplyAllBoundTightenings
    <3>1. ~dropped /\ flags = {} /\ turn = 1
      BY <2>1, <2>2, <2>7 DEF ApplyAllBoundTightenings
    <3>. QED
      BY <2>4, <3>1 DEF Live, Pending
  <2>. QED
    BY <2>5, <2>6, <2>7
<1>. QED
  BY <1>3, <1>4, <1>5 DEF NInv

\* What the first constraint was told stays true of the walk while it is Live: the bound
\* is still the one that is being told, wherever it is watched.
LEMMA StillInForce ==
    ASSUME NInv, Tell, KeyAt(scan)[1] \in Watched(Constraint(turn)), Live
    PROVE  box[KeyAt(scan)] = Value
<1>1. turn \in Constraints /\ Constraints = 1 .. Len(query.constraints) /\ Len(query.constraints) \in Nat
  BY QueryFacts DEF Tell, NInv, IInv, Following
<1>2. CASE turn = 1
  BY <1>2 DEF Value
<1>3. CASE turn # 1
  <2>1. SUFFICES ASSUME box[KeyAt(scan)] # told PROVE FALSE
    BY <1>3 DEF Value
  <2>2. PICK j \in Constraints : j < turn /\ KeyAt(scan)[1] \in Watched(Constraint(j))
    BY <1>3, <2>1 DEF NInv, Moving
  <2>3. j # turn
    BY <1>1, <2>2
  <2>4. Overtaken(KeyAt(scan))
    BY <1>1, <1>3, <2>1, <2>2, <2>3 DEF Overtaken, Value
  <2>. QED
    BY <1>3, <2>4 DEF Live
<1>. QED
  BY <1>2, <1>3

\* A bound only gets tighter, so that one that moved does not move back.
LEMMA TighterYet ==
    ASSUME NEW k, NEW x \in Int, NEW y \in Int, NEW z \in Int, Tighter(k, y, x),
           z = y \/ Tighter(k, z, y)
    PROVE  Tighter(k, z, x) /\ z # x
  BY DEF Tighter

\* Being told moves the bound that is told only to a tighter one.
LEMMA TellMoves ==
    ASSUME NInv, Tell, KeyAt(scan)[1] \in Watched(Constraint(turn))
    PROVE  /\ \A k \in Keys(query) : box[k] \in Int /\ box'[k] \in Int
           /\ box'[KeyAt(scan)] = box[KeyAt(scan)]
              \/ Tighter(KeyAt(scan), box'[KeyAt(scan)], box[KeyAt(scan)])
           /\ box[KeyAt(scan)] = Value \/ Tighter(KeyAt(scan), box[KeyAt(scan)], Value)
<1> DEFINE c == Constraint(turn)
           s == state[turn]
           K == KeyAt(scan)
           R == Reaction(c, s, box, K, Value)
<1>1. K \in Keys(query) /\ Keys(query) = DOMAIN box /\ box \in BoxOver(query.n)
      /\ DOMAIN box = (0 .. query.n - 1) \X {"LB", "UB"} /\ query.n \in Nat
  BY StepFacts DEF Tell, NInv, Keys
<1>2. box' = Tightened(box, R)
  BY DEF Tell, Tighten
<1>3. Numeric(R)
  BY TellKeeps DEF NInv, Keeps
<1> HIDE DEF R
<1>4. box' \in BoxOver(query.n)
  BY <1>1, <1>2, <1>3, TightenedType
<1>5. box'[K] = box[K] \/ Tighter(K, box'[K], box[K])
  BY <1>1, <1>2, TightenedMoves
<1>6. box[K] = Value \/ Tighter(K, box[K], Value)
  BY DEF NInv, Moving, Value
<1>. QED
  BY <1>1, <1>4, <1>5, <1>6 DEF BoxOver

\* Telling one constraint: it knows the bound now; what it tightens is flagged, and the
\* others have no flag taken from them.
LEMMA TellNInv == NInv /\ Tell => NInv'
<1>1. SUFFICES ASSUME NInv, Tell PROVE NInv'
  OBVIOUS
<1> DEFINE c == Constraint(turn)
           s == state[turn]
           K == KeyAt(scan)
<1>2. IInv'
  BY <1>1, TellIInv DEF NInv
<1>3. /\ turn \in Constraints /\ K \in flags /\ turn' = turn + 1 /\ told' = Value
      /\ UNCHANGED <<query, sol, scan, dropped>>
  BY <1>1 DEF Tell
<1>4. /\ Constraints' = Constraints /\ \A i \in Constraints : Constraint(i)' = Constraint(i)
      /\ KeyAt(scan)' = K /\ Keys(query)' = Keys(query)
  BY <1>3 DEF Constraints, Constraint, KeyAt, Keys
<1>5. Constraints = 1 .. Len(query.constraints) /\ Len(query.constraints) \in Nat
  BY <1>1, QueryFacts DEF NInv, IInv, Following
<1>6. turn' # 1 /\ Value' = Value
  BY <1>3, <1>5 DEF Value
<1>7. /\ query.n \in Nat /\ sol \in Point(query.n) /\ box \in BoxOver(query.n) /\ Inside(sol, box)
      /\ Keys(query) = (0 .. query.n - 1) \X {"LB", "UB"} /\ K \in Keys(query)
      /\ DOMAIN box = Keys(query)
      /\ \A i \in Constraints :
            /\ WellFormed(Constraint(i), query.n)
            /\ Holds(Constraint(i), sol) /\ Linear(Constraint(i), sol)
            /\ Sound(Constraint(i), state[i], sol)
  BY <1>1, <1>3, StepFacts DEF NInv, Keys
<1>8. CASE K[1] \notin Watched(c)
  <2>1. UNCHANGED <<box, flags, state>>
    BY <1>1, <1>8 DEF Tell
  <2>2. Floor'
    BY <1>1, <1>3, <1>4, <2>1 DEF NInv, Floor
  <2>3. Moving'
    <3>1. CASE turn = 1
      BY <1>3, <1>4, <2>1, <3>1 DEF Moving, Value
    <3>2. CASE turn # 1
      <4>1. told' = told
        BY <1>3, <3>2 DEF Value
      <4>2. \A j \in Constraints : j < turn => j < turn'
        BY <1>3, <1>5
      <4>. QED
        BY <1>1, <1>4, <2>1, <3>2, <4>1, <4>2 DEF NInv, Moving
    <3>. QED
      BY <3>1, <3>2
  <2>4. Informed'
    <3>1. SUFFICES ASSUME Live', NEW i \in Constraints
                   PROVE  KnownOf(Constraint(i), state[i], box, Pending(i)', query.n)
      BY <1>3, <1>4, <2>1 DEF Informed
    <3>2. Live
      BY <1>3, <1>4, <1>6, <2>1, <3>1 DEF Live, Overtaken
    <3>3. KnownOf(Constraint(i), state[i], box, Pending(i), query.n)
      BY <1>1, <3>2 DEF NInv, Informed
    <3>4. CASE i # turn
      <4>1. i < turn' <=> i < turn
        BY <1>3, <1>5, <3>4
      <4>2. Pending(i)' = Pending(i)
        BY <1>4, <2>1, <4>1 DEF Pending
      <4>. QED
        BY <3>3, <4>2
    <3>5. CASE i = turn
      <4>1. Pending(i) = flags /\ Pending(i)' = flags \ {K}
        BY <1>3, <1>4, <1>5, <2>1, <3>5 DEF Pending
      <4> DEFINE Q == flags \ {K}
      <4>2. \A k : k \in flags => k \in Q \/ k[1] \notin Watched(Constraint(i))
        BY <1>8, <3>5
      <4>3. KnownOf(Constraint(i), state[i], box, flags, query.n)
        BY <3>3, <4>1
      <4> HIDE DEF Q, K
      <4>4. KnownOf(Constraint(i), state[i], box, Q, query.n)
        BY <4>2, <4>3 DEF KnownOf
      <4>. QED
        BY <4>1, <4>4 DEF Q
    <3>. QED
      BY <3>4, <3>5
  <2>. QED
    BY <1>2, <2>2, <2>3, <2>4 DEF NInv
<1>9. CASE K[1] \in Watched(c)
  <2>1. /\ state' = [state EXCEPT ![turn] = Notified(c, s, box, K, Value)]
        /\ box' = Tightened(box, Reaction(c, s, box, K, Value))
        /\ flags' = flags \cup {k \in DOMAIN box : box'[k] # box[k]}
    BY <1>1, <1>9 DEF Tell, Tighten
  <2>2. /\ Value \in Int /\ Sound(c, Notified(c, s, box, K, Value), sol)
        /\ Numeric(Reaction(c, s, box, K, Value))
    BY <1>1, <1>9, TellKeeps DEF NInv, Keeps
  <2>3. DOMAIN state = Constraints
    BY <1>1 DEF NInv, IInv, Right
  <2>4. /\ \A i \in Constraints : i # turn => state'[i] = state[i]
        /\ state'[turn] = Notified(c, s, box, K, Value)
    BY <1>3, <2>1, <2>3
  <2>5. /\ box[K] \in Int /\ box'[K] \in Int
        /\ box'[K] = box[K] \/ Tighter(K, box'[K], box[K])
        /\ box[K] = Value \/ Tighter(K, box[K], Value)
    BY <1>1, <1>7, <1>9, TellMoves
  <2>6. Floor'
    <3>1. SUFFICES ASSUME NEW i \in Constraints, Constraint(i).kind = "max"
                   PROVE  state'[i].maxLowerBound >= Constraint(i).maxValueOfEliminated
      BY <1>4 DEF Floor
    <3>2. state[i].maxLowerBound >= Constraint(i).maxValueOfEliminated
      BY <1>1, <3>1 DEF NInv, Floor
    <3>3. CASE i = turn
      <4>1. s \in Max!States(c) /\ WellFormed(c, query.n)
        BY <1>7, <3>1, <3>3 DEF Sound, MaxSound
      <4>2. Notified(c, s, box, K, Value) = Max!Notified(c, s, box, K, Value)
        BY <3>1, <3>3 DEF Notified
      <4> HIDE DEF c, s, K
      <4>3. Max!Notified(c, s, box, K, Value).maxLowerBound >= c.maxValueOfEliminated
        BY <2>2, <3>1, <3>2, <3>3, <4>1, MaxFloor DEF c, s
      <4>. QED
        BY <2>4, <3>3, <4>2, <4>3 DEF c
    <3>. QED
      BY <2>4, <3>2, <3>3
  <2>7. Moving'
    <3>1. box'[K] = Value \/ Tighter(K, box'[K], Value)
      BY <2>2, <2>5, TighterYet
    <3>2. turn < turn'
      BY <1>3, <1>5
    <3>. QED
      BY <1>3, <1>4, <1>9, <3>1, <3>2 DEF Moving
  <2>8. Informed'
    <3>1. SUFFICES ASSUME Live', NEW i \in Constraints
                   PROVE  KnownOf(Constraint(i), state'[i], box', Pending(i)', query.n)
      BY <1>3, <1>4 DEF Informed
    <3>2. /\ ~dropped
          /\ \A a, b \in Constraints :
                /\ K[1] \in Watched(Constraint(a)) \cap Watched(Constraint(b))
                /\ a = b => Constraint(a).kind = "max" /\ K = <<Constraint(a).f, "LB">>
                => box'[K] = Value
      BY <1>3, <1>4, <1>6, <3>1 DEF Live, Overtaken
    <3>3. Live
      <4>1. box[K] # Value => box'[K] # Value
        BY <2>2, <2>5, TighterYet
      <4>. QED
        BY <3>2, <4>1 DEF Live, Overtaken
    <3>4. box[K] = Value
      BY <1>1, <1>9, <3>3, StillInForce
    <3>5. KnownOf(Constraint(i), state[i], box, Pending(i), query.n)
      BY <1>1, <3>3 DEF NInv, Informed
    <3>6. \A k \in (0 .. query.n - 1) \X {"LB", "UB"} : k \in flags' \/ box'[k] = box[k]
      BY <1>7, <2>1
    <3>7. CASE i # turn
      <4>1. i < turn' <=> i < turn
        BY <1>3, <1>5, <3>7
      <4>2. Pending(i) \subseteq Pending(i)'
        BY <1>4, <2>1, <4>1 DEF Pending
      <4>3. K[1] \in Watched(Constraint(i)) => box'[K] = box[K]
        BY <1>3, <1>9, <3>2, <3>4, <3>7
      <4>4. \A k \in (0 .. query.n - 1) \X {"LB", "UB"} :
                k \in Pending(i)' \/ k[1] \notin Watched(Constraint(i)) \/ box'[k] = box[k]
        BY <1>4, <3>6, <4>3 DEF Pending
      <4>. QED
        BY <1>7, <2>4, <3>5, <3>7, <4>2, <4>4, StillKnown
    <3>8. CASE i = turn
      <4> DEFINE Q == flags' \ {K}
      <4>1. Pending(i) = flags /\ Pending(i)' = Q
        BY <1>3, <1>4, <1>5, <3>8 DEF Pending
      <4>2. flags \ {K} \subseteq Q
        BY <2>1
      <4>3. \A k \in (0 .. query.n - 1) \X {"LB", "UB"} : k \in Q \/ k = K \/ box'[k] = box[k]
        BY <3>6
      <4>4. ~(c.kind = "max" /\ K = <<c.f, "LB">> /\ box'[K] # box[K])
        BY <1>3, <1>9, <3>2, <3>4
      <4>5. box' \in BoxOver(query.n)
        BY <1>7, <2>1, <2>2, TightenedType
      <4>6. c.kind = "max" => s.maxLowerBound >= c.maxValueOfEliminated
        BY <1>1, <1>3 DEF NInv, Floor
      <4>7. /\ WellFormed(c, query.n) /\ Holds(c, sol) /\ Linear(c, sol) /\ Sound(c, s, sol)
            /\ KnownOf(c, s, box, flags, query.n) /\ K \in (0 .. query.n - 1) \X {"LB", "UB"}
        BY <1>3, <1>7, <3>5, <3>8, <4>1
      <4>8. /\ box' = Tightened(box, Reaction(c, s, box, K, box[K]))
            /\ Sound(c, Notified(c, s, box, K, box[K]), sol)
        BY <2>1, <2>2, <3>4
      <4> HIDE DEF c, s, K, Q
      <4>9. KnownOf(c, Notified(c, s, box, K, box[K]), box', Q, query.n)
        BY <1>7, <4>2, <4>3, <4>4, <4>5, <4>6, <4>7, <4>8, ToldKnown
      <4>. QED
        BY <2>4, <3>4, <3>8, <4>1, <4>9 DEF c
    <3>. QED
      BY <3>7, <3>8
  <2>. QED
    BY <1>2, <2>6, <2>7, <2>8 DEF NInv
<1>. QED
  BY <1>8, <1>9

\* Every step keeps the invariant.
LEMMA StepNInv == NInv /\ [Next]_vars => NInv'
<1>1. SUFFICES ASSUME NInv, [Next]_vars PROVE NInv'
  OBVIOUS
<1>2. IInv'
  BY <1>1, IInvStep DEF NInv
<1>3. scan = Idle => turn = 1
  BY <1>1 DEF NInv, IInv, Told
<1>4. CASE Deduce
  <2>1. PICK k \in Keys(query), x \in Bounds : Tighten({[key |-> k, value |-> x]}, flags)
    BY <1>4 DEF Deduce
  <2>2. scan = Idle /\ UNCHANGED <<query, state, scan, turn, dropped>>
    BY <1>4 DEF Deduce
  <2>. QED
    BY <1>1, <1>2, <1>3, <2>1, <2>2, FlaggedNInv
<1>5. CASE StartPropagation \/ Skip \/ Lower \/ ApplyAllBoundTightenings
  BY <1>1, <1>2, <1>5, WalkNInv
<1>6. CASE Tell
  BY <1>1, <1>6, TellNInv
<1>7. ASSUME NEW i \in Constraints, NEW T, Tighten(T, flags), scan = Idle,
             state' = [state EXCEPT ![i].active = FALSE],
             UNCHANGED <<query, scan, turn, dropped>>
      PROVE  NInv'
  <2>1. DOMAIN state = Constraints
    BY <1>1 DEF NInv, IInv, Right
  <2>2. \A j \in Constraints :
            state'[j] = state[j] \/ state'[j] = [state[j] EXCEPT !.active = FALSE]
    BY <1>7, <2>1
  <2>. QED
    BY <1>1, <1>2, <1>3, <1>7, <2>2, FlaggedNInv
<1>8. CASE ApplyValidSplit
  BY <1>7, <1>8 DEF ApplyValidSplit
<1>9. CASE PerformSplit
  <2>1. PICK i \in Constraints :
            /\ state' = [state EXCEPT ![i].active = FALSE]
            /\ \E split \in CaseSplits(Constraint(i), state[i]) : Tighten(split, flags)
    BY <1>9 DEF PerformSplit
  <2>2. scan = Idle /\ UNCHANGED <<query, scan, turn, dropped>>
    BY <1>9 DEF PerformSplit
  <2>. QED
    BY <1>7, <2>1, <2>2
<1>10. CASE UNCHANGED vars
  BY <1>1, <1>2, <1>10 DEF vars, NInv, Floor, Moving, Informed, Live, Pending, Overtaken, Value,
     Constraints, Constraint, KeyAt
<1>. QED
  BY <1>1, <1>4, <1>5, <1>6, <1>8, <1>9, <1>10 DEF Next

\* Propagation leaves nothing out: when no flag is up, each constraint knows all that the
\* bounds tell it, in whatever order the bounds moved and the constraints were told.  The
\* three exceptions are those NothingMissed names (Engine.cpp:2110-2145, BoundManager.cpp:273-283,
\* MaxConstraint.cpp:155-204).
THEOREM NothingIsMissed == Spec => []NothingMissed
<1>1. NInv => NothingMissed
  <2>1. SUFFICES ASSUME NInv, ~dropped, scan = Idle, flags = {}, NEW i \in Constraints,
                        NEW k \in Keys(query)
                 PROVE  Settled(i, k)
    BY DEF NothingMissed
  <2>2. Live /\ Pending(i) = {}
    BY <2>1 DEF NInv, IInv, Told, Live, Pending
  <2>3. KnownOf(Constraint(i), state[i], box, {}, query.n)
    BY <2>1, <2>2 DEF NInv, Informed
  <2>4. /\ query.n \in Nat /\ box \in BoxOver(query.n) /\ WellFormed(Constraint(i), query.n)
        /\ Sound(Constraint(i), state[i], sol) /\ k \in (0 .. query.n - 1) \X {"LB", "UB"}
    BY <2>1, StepFacts DEF NInv, Keys
  <2>5. k[1] \notin Watched(Constraint(i)) \/ Calm(Constraint(i), state[i], box, k)
    BY <2>3, <2>4 DEF KnownOf
  <2>6. Calm(Constraint(i), state[i], box, k) => Quiet(Constraint(i), state[i], box, k)
    BY <2>4, QuietIsCalm
  <2>. QED
    BY <2>5, <2>6 DEF Settled, Quiet, Fixed
<1>. QED
  BY <1>1, InitNInv, StepNInv, PTL DEF Spec

SoI == INSTANCE SoILocalSearch

-----------------------------------------------------------------------------
(* Sums over finite sets, as MapThenSumSet makes them *)

\* g has the sums of the values of f over the subsets of D
Summing(g, f, D) ==
    g = [t \in SUBSET D |-> IF t = {} THEN 0
                            ELSE f[CHOOSE x \in t : TRUE] + g[t \ {CHOOSE x \in t : TRUE}]]

\* What is left of a set when a member is taken out
LEMMA OneLess ==
    ASSUME NEW D, IsFiniteSet(D), NEW t \in SUBSET D, t # {}
    PROVE  /\ (CHOOSE x \in t : TRUE) \in t
           /\ t \ {CHOOSE x \in t : TRUE} \in SUBSET D
           /\ Cardinality(t) \in Nat \ {0}
           /\ Cardinality(t \ {CHOOSE x \in t : TRUE}) = Cardinality(t) - 1
  <1>1. IsFiniteSet(t) /\ Cardinality(t) \in Nat /\ Cardinality(t) # 0
    BY FS_Subset, FS_CardinalityType, FS_EmptySet
  <1>2. (CHOOSE x \in t : TRUE) \in t
    OBVIOUS
  <1> QED BY <1>1, <1>2, FS_RemoveElement

\* There are such sums
LEMMA SummingExists ==
    ASSUME NEW D, IsFiniteSet(D), NEW f
    PROVE  \E g : Summing(g, f, D)
  <1> DEFINE Upto(k) == {t \in SUBSET D : Cardinality(t) <= k}
             Some(t) == CHOOSE x \in t : TRUE
             Sums(g, k) == g = [t \in Upto(k) |-> IF t = {} THEN 0 ELSE f[Some(t)] + g[t \ {Some(t)}]]
             Bad == {k \in Nat : ~ \E g : Sums(g, k)}
  <1>1. \A t \in SUBSET D : IsFiniteSet(t) /\ Cardinality(t) \in Nat /\ (Cardinality(t) = 0 <=> t = {})
    BY FS_Subset, FS_CardinalityType, FS_EmptySet
  <1>2. \A k \in Nat : \A t \in Upto(k) : t # {} =>
            t \ {Some(t)} \in Upto(k) /\ (k # 0 => t \ {Some(t)} \in Upto(k - 1))
    <2>1. SUFFICES ASSUME NEW k \in Nat, NEW t \in SUBSET D, Cardinality(t) <= k, t # {}
                   PROVE  /\ t \ {Some(t)} \in SUBSET D /\ Cardinality(t \ {Some(t)}) <= k
                          /\ k # 0 => Cardinality(t \ {Some(t)}) <= k - 1
      OBVIOUS
    <2> QED BY <2>1, OneLess
  <1>3. ASSUME Bad # {} PROVE FALSE
    <2>1. PICK k \in Bad : \A j \in Bad : k <= j
      <3> HIDE DEF Bad
      <3>1. Bad \subseteq Nat
        BY DEF Bad
      <3> QED BY <1>3, <3>1, LeastNatural
    <2>2. k \in Nat /\ ~ \E g : Sums(g, k)
      BY <2>1
    <2>3. CASE k = 0
      <3> DEFINE g == [t \in Upto(0) |-> 0]
      <3>1. \A t \in Upto(0) : t = {}
        BY <1>1
      <3>2. Sums(g, 0)
        <4> HIDE DEF Upto
        <4> QED BY <3>1
      <3> QED BY <2>2, <2>3, <3>2
    <2>4. CASE k # 0
      <3>1. k - 1 \in Nat /\ k - 1 \notin Bad
        <4> HIDE DEF Bad
        <4>1. k - 1 \in Nat /\ ~(k <= k - 1)
          BY <2>2, <2>4
        <4> QED BY <2>1, <4>1
      <3>2. PICK h : Sums(h, k - 1)
        BY <3>1
      <3> DEFINE g == [t \in Upto(k) |-> IF t = {} THEN 0 ELSE f[Some(t)] + h[t \ {Some(t)}]]
      <3>3. Upto(k - 1) \subseteq Upto(k)
        BY <1>1, <3>1
      <3> HIDE DEF Upto, Some
      <3>4. \A t \in Upto(k - 1) : g[t] = h[t]
        BY <3>2, <3>3
      <3>5. \A t \in Upto(k) : t # {} => g[t \ {Some(t)}] = h[t \ {Some(t)}]
        BY <1>2, <2>2, <2>4, <3>4
      <3>6. g = [t \in Upto(k) |-> IF t = {} THEN 0 ELSE f[Some(t)] + g[t \ {Some(t)}]]
        BY <3>5
      <3> QED BY <2>2, <3>6
    <2> QED BY <2>3, <2>4
  <1>4. Cardinality(D) \in Nat /\ Cardinality(D) \notin Bad
    BY <1>1, <1>3
  <1>5. PICK g : Sums(g, Cardinality(D))
    BY <1>4
  <1>6. Upto(Cardinality(D)) = SUBSET D
    BY FS_Subset
  <1> QED BY <1>5, <1>6 DEF Summing

\* A sum of natural numbers is one, and zero only if all of them are
LEMMA SumFacts ==
    ASSUME NEW D, IsFiniteSet(D), NEW f, \A x \in D : f[x] \in Nat, NEW g, Summing(g, f, D)
    PROVE  g[D] \in Nat /\ (g[D] = 0 <=> \A x \in D : f[x] = 0)
  <1> DEFINE Fine(t) == g[t] \in Nat /\ (g[t] = 0 <=> \A x \in t : f[x] = 0)
             Bad == {t \in SUBSET D : ~Fine(t)}
             Sizes == {Cardinality(t) : t \in Bad}
  <1>1. ASSUME Bad # {} PROVE FALSE
    <2>1. \A t \in Bad : Cardinality(t) \in Nat
      BY FS_Subset, FS_CardinalityType
    <2>2. PICK m \in Sizes : \A k \in Sizes : m <= k
      <3>1. Sizes \subseteq Nat /\ Sizes # {}
        BY <1>1, <2>1
      <3> HIDE DEF Sizes
      <3> QED BY <3>1, LeastNatural
    <2>3. PICK t \in Bad : m = Cardinality(t)
      BY <2>2
    <2> DEFINE x == CHOOSE y \in t : TRUE
    <2>4. CASE t = {}
      <3>1. g[t] = 0
        BY <2>4 DEF Summing
      <3> QED BY <2>3, <2>4, <3>1
    <2>5. CASE t # {}
      <3>1. x \in t /\ t \ {x} \in SUBSET D /\ Cardinality(t) \in Nat /\ Cardinality(t \ {x}) = Cardinality(t) - 1
        <4>1. t \in SUBSET D
          BY <2>3
        <4> HIDE DEF Bad, Sizes, Fine
        <4> QED BY <4>1, <2>5, OneLess
      <3>2. t \ {x} \notin Bad
        BY <2>2, <2>3, <3>1
      <3>3. g[t] = f[x] + g[t \ {x}]
        BY <2>3, <2>5 DEF Summing
      <3> HIDE DEF x
      <3>4. Fine(t \ {x})
        BY <3>1, <3>2
      <3>5. f[x] \in Nat /\ (\A y \in t : f[y] = 0) <=> (f[x] = 0 /\ \A y \in t \ {x} : f[y] = 0)
        BY <2>3, <3>1
      <3>6. f[x] \in Nat
        BY <2>3, <3>1
      <3> QED BY <2>3, <3>3, <3>4, <3>5, <3>6
    <2> QED BY <2>4, <2>5
  <1> QED BY <1>1

\* The cost of a pattern is the sum of its terms
LEMMA CostIsASum ==
    ASSUME NEW q, NEW s, NEW pattern, NEW p, IsFiniteSet(DOMAIN pattern)
    PROVE  LET f == [i \in DOMAIN pattern |-> SoI!CostComponent(q, s, i, pattern[i], p)]
           IN  \E g : Summing(g, f, DOMAIN pattern) /\ SoI!CostAt(q, s, pattern, p) = g[DOMAIN pattern]
  <1> DEFINE D == DOMAIN pattern
             Term(i) == SoI!CostComponent(q, s, i, pattern[i], p)
             f == [i \in D |-> Term(i)]
             Iter(g) == g = [t \in SUBSET D |-> IF t = {} THEN 0
                                ELSE Term(CHOOSE x \in t : TRUE) + g[t \ {CHOOSE x \in t : TRUE}]]
             g == CHOOSE h : Iter(h)
  <1>1. \A t \in SUBSET D : t # {} => f[CHOOSE x \in t : TRUE] = Term(CHOOSE x \in t : TRUE)
    OBVIOUS
  <1>2. PICK h : Summing(h, f, D)
    <2> HIDE DEF f, D
    <2> QED BY SummingExists DEF D
  <1>3. \A h1 : Summing(h1, f, D) <=> Iter(h1)
    BY <1>1 DEF Summing
  <1>4. Iter(g)
    <2> HIDE DEF Iter
    <2> QED BY <1>2, <1>3
  <1>5. SoI!CostAt(q, s, pattern, p) = g[D]
    BY DEF SoI!CostAt, SoI!MapThenSumSet, SoI!MapThenFoldSet
  <1> HIDE DEF g
  <1> QED BY <1>3, <1>4, <1>5

-----------------------------------------------------------------------------
(* What the local search makes of one constraint *)

\* A sign constraint that was split holds up to the border b = 0
HoldsUpToBorder(c, p) == Holds(c, p) \/ (c.kind = "sign" /\ SoI!Sign!HoldsUpToBorder(c, p))

\* The phases whose cost terms may be in a pattern
Phases(c) ==
    CASE c.kind = "relu" -> SoI!Relu!Cases(c)
      [] c.kind = "leaky" -> SoI!Leaky!Cases(c)
      [] c.kind = "abs"  -> SoI!Abs!Cases(c)
      [] c.kind = "sign" -> SoI!Sign!Cases(c)
      [] c.kind = "max"  -> {{e} : e \in c.elements} \cup {{}}

\* The cost term of a phase at a point, and the phase of a point
Term(c, phase, p) ==
    CASE c.kind = "relu" -> SoI!Relu!Cost(c, phase, p)
      [] c.kind = "leaky" -> SoI!Leaky!Cost(c, phase, p)
      [] c.kind = "abs"  -> SoI!Abs!Cost(c, phase, p)
      [] c.kind = "sign" -> SoI!Sign!Cost(c, phase, p)
      [] c.kind = "max"  -> SoI!MaxOf!Cost(c, phase, p)
PhaseOf(c, s, p) ==
    CASE c.kind = "relu" -> SoI!Relu!PhaseAt(c, p)
      [] c.kind = "leaky" -> SoI!Leaky!PhaseAt(c, p)
      [] c.kind = "abs"  -> SoI!Abs!PhaseAt(c, p)
      [] c.kind = "sign" -> SoI!Sign!PhaseAt(c, p)
      [] c.kind = "max"  -> SoI!MaxOf!PhaseAt(c, s, p)

\* A point within the bounds of the preprocessor and on the equations it added; for a
\* sign constraint these depend on the bounds its input had (SignConstraint.cpp:226-275)
Reached(c, p) ==
    /\ Basic(c, p) /\ Linear(c, p)
    /\ c.kind = "sign" =>
        \E lb \in Int, ub \in Int :
            lb < 0 /\ ub >= 0 /\ p[c.b] <= ub /\ SoI!Sign!AuxiliaryEquations(c, lb, ub, p)

\* The cases a max has left: there is one, and if it holds, one that is the case
CaseLeft(c, s, p) ==
    c.kind = "max" => /\ s.elements # {} /\ s.elements \subseteq c.elements
                      /\ Holds(c, p) => Sound(c, s, p)

\* A cost term is never negative, it is zero only where the constraint holds, and where
\* it holds the term of the point's phase is zero
Measures(c, s, p) ==
    /\ \A phase \in Phases(c) : /\ Term(c, phase, p) \in Nat
                                /\ Term(c, phase, p) = 0 => HoldsUpToBorder(c, p)
    /\ Holds(c, p) => Term(c, PhaseOf(c, s, p), p) = 0

LEMMA ReluMeasures ==
    ASSUME NEW n \in Nat, NEW c, WellFormed(c, n), c.kind = "relu", NEW s, NEW p \in Point(n), Reached(c, p)
    PROVE  Measures(c, s, p)
  <1>1. p[c.b] \in Int /\ p[c.f] \in Int /\ p[c.aux] \in Int
    BY DEF WellFormed, Watched, Relu!Variables, Point
  <1>2. p[c.f] >= 0 /\ p[c.aux] >= 0 /\ p[c.aux] = p[c.f] - p[c.b]
    BY DEF Reached, Basic, Linear, Relu!Linear
  <1> QED BY <1>1, <1>2 DEF Measures, Phases, Term, PhaseOf, HoldsUpToBorder, Holds, Relu!Holds,
             SoI!Relu!Cases, SoI!Relu!Cost, SoI!Relu!PhaseAt, SoI!Relu!Active, SoI!Relu!Inactive

LEMMA AbsMeasures ==
    ASSUME NEW n \in Nat, NEW c, WellFormed(c, n), c.kind = "abs", NEW s, NEW p \in Point(n), Reached(c, p)
    PROVE  Measures(c, s, p)
  <1>1. p[c.b] \in Int /\ p[c.f] \in Int
    BY DEF WellFormed, Watched, Abs!Variables, Point
  <1>2. p[c.f] >= 0 /\ p[c.f] - p[c.b] >= 0 /\ p[c.f] + p[c.b] >= 0
    BY DEF Reached, Basic, Linear, Abs!Linear
  <1> QED BY <1>1, <1>2 DEF Measures, Phases, Term, PhaseOf, HoldsUpToBorder, Holds, Abs!Holds,
             SoI!Abs!Cases, SoI!Abs!Cost, SoI!Abs!PhaseAt, SoI!Abs!Positive, SoI!Abs!Negative

\* f = -1 and f = 1 lie beyond the lines through the corners only where b has that sign
LEMMA SignMeasures ==
    ASSUME NEW n \in Nat, NEW c, WellFormed(c, n), c.kind = "sign", NEW s, NEW p \in Point(n), Reached(c, p)
    PROVE  Measures(c, s, p)
  <1>1. p[c.b] \in Int /\ p[c.f] \in Int
    BY DEF WellFormed, Watched, Sign!Variables, Point
  <1>2. -1 <= p[c.f] /\ p[c.f] <= 1
    BY DEF Reached, Basic
  <1>3. PICK lb \in Int, ub \in Int :
            lb < 0 /\ ub >= 0 /\ p[c.b] <= ub /\ SoI!Sign!AuxiliaryEquations(c, lb, ub, p)
    BY DEF Reached
  <1>4. p[c.f] = 1 => p[c.b] >= 0
    <2> SUFFICES ASSUME p[c.f] = 1
                 PROVE  p[c.b] >= 0
      OBVIOUS
    <2>1. lb * 1 + 2 * p[c.b] >= lb
      BY <1>3 DEF SoI!Sign!AuxiliaryEquations
    <2> QED BY <1>1, <2>1
  <1>5. p[c.f] = -1 => p[c.b] <= 0
    <2> SUFFICES ASSUME p[c.f] = -1, ub > 0
                 PROVE  p[c.b] <= 0
      BY <1>1, <1>3
    <2>1. ub * (-1) - 2 * p[c.b] >= -ub
      BY <1>3 DEF SoI!Sign!AuxiliaryEquations
    <2> QED BY <1>1, <2>1
  <1> QED BY <1>1, <1>2, <1>4, <1>5 DEF Measures, Phases, Term, PhaseOf, HoldsUpToBorder, Holds, Sign!Holds,
             SoI!Sign!Holds, SoI!Sign!HoldsUpToBorder, SoI!Sign!Cases, SoI!Sign!Cost, SoI!Sign!PhaseAt,
             SoI!Sign!Positive, SoI!Sign!Negative

\* b is k times an integer, and k is larger than 1: the terms f - b and i = f - b/k
LEMMA LeakyTerms ==
    ASSUME NEW k \in Nat \ {0, 1}, NEW b \in Int, NEW f \in Int, NEW i \in Int,
           f - b >= 0, i >= 0, k * i = k * f - b
    PROVE  /\ f - (b \div k) \in Nat /\ (f - (b \div k) = 0 => OnGraph(k, b, f, i))
           /\ f - b \in Nat /\ (f - b = 0 => OnGraph(k, b, f, i))
           /\ OnGraph(k, b, f, i) => IF b < 0 THEN f - (b \div k) = 0 ELSE f - b = 0
  <1> DEFINE graph == (f > 0 => b = f) /\ (f <= 0 => b = k * f)
  <1>1. b = k * (f - i) /\ b \div k = f - i
    OBVIOUS
  <1>2. i = 0 => graph
    <2> SUFFICES ASSUME i = 0
                 PROVE  ~(f > 0) /\ b = k * f
      OBVIOUS
    <2>1. b = k * f
      OBVIOUS
    <2>2. f > 0 => k * f > f
      OBVIOUS
    <2> QED BY <2>1, <2>2
  <1>3. f - b = 0 => graph
    <2> SUFFICES ASSUME f = b, f <= 0
                 PROVE  b = k * f
      OBVIOUS
    <2>1. k * i = k * f - f /\ k * i >= 0
      OBVIOUS
    <2>2. f < 0 => k * f < f
      OBVIOUS
    <2>3. f = 0
      BY <2>1, <2>2
    <2> QED BY <2>3
  <1>4. graph => IF b < 0 THEN f - (b \div k) = 0 ELSE f - b = 0
    <2> SUFFICES ASSUME graph
                 PROVE  IF b < 0 THEN f - (b \div k) = 0 ELSE f - b = 0
      OBVIOUS
    <2>1. CASE f > 0
      BY <2>1
    <2>2. CASE f <= 0 /\ b < 0
      <3>1. k * i = 0
        BY <2>2
      <3>2. i = 0
        BY <3>1
      <3> QED BY <1>1, <2>2, <3>2
    <2>3. CASE f <= 0 /\ b >= 0
      <3>1. f < 0 => k * f < 0
        OBVIOUS
      <3>2. f = 0 /\ b = 0
        BY <2>3, <3>1
      <3> QED BY <3>2, <2>3
    <2> QED BY <2>1, <2>2, <2>3
  <1>5. OnGraph(k, b, f, i) <=> graph
    BY DEF OnGraph
  <1> HIDE DEF graph
  <1> QED BY <1>1, <1>2, <1>3, <1>4, <1>5

LEMMA LeakyMeasures ==
    ASSUME NEW n \in Nat, NEW c, WellFormed(c, n), c.kind = "leaky", NEW s, NEW p \in Point(n), Reached(c, p)
    PROVE  Measures(c, s, p)
  <1>1. /\ p[c.b] \in Int /\ p[c.f] \in Int /\ p[c.inactiveAux] \in Int /\ c.k \in Nat \ {0, 1}
        /\ p[c.f] - p[c.b] >= 0 /\ p[c.inactiveAux] >= 0 /\ c.k * p[c.inactiveAux] = c.k * p[c.f] - p[c.b]
    BY DEF WellFormed, Watched, Leaky!Variables, Point, Reached, Basic, Linear, Leaky!Linear
  <1>2. /\ p[c.f] - (p[c.b] \div c.k) \in Nat /\ (p[c.f] - (p[c.b] \div c.k) = 0 => Leaky!Holds(c, p))
        /\ p[c.f] - p[c.b] \in Nat /\ (p[c.f] - p[c.b] = 0 => Leaky!Holds(c, p))
        /\ Leaky!Holds(c, p) => IF p[c.b] < 0 THEN p[c.f] - (p[c.b] \div c.k) = 0 ELSE p[c.f] - p[c.b] = 0
    <2>1. Leaky!Holds(c, p) <=> (p[c.f] > 0 => p[c.b] = p[c.f]) /\ (p[c.f] <= 0 => p[c.b] = c.k * p[c.f])
      BY DEF Leaky!Holds
    <2>2. PICK k \in Nat \ {0, 1}, b \in Int, f \in Int, i \in Int :
            /\ k = c.k /\ b = p[c.b] /\ f = p[c.f]
            /\ f - b >= 0 /\ i >= 0 /\ k * i = k * f - b
      BY <1>1
    <2>3. /\ f - (b \div k) \in Nat /\ (f - (b \div k) = 0 => OnGraph(k, b, f, i))
          /\ f - b \in Nat /\ (f - b = 0 => OnGraph(k, b, f, i))
          /\ OnGraph(k, b, f, i) => IF b < 0 THEN f - (b \div k) = 0 ELSE f - b = 0
      BY <2>2, LeakyTerms, Zenon
    <2>4. Leaky!Holds(c, p) <=> OnGraph(k, b, f, i)
      BY <2>1, <2>2 DEF OnGraph
    <2>5. /\ f - (b \div k) \in Nat /\ (f - (b \div k) = 0 => Leaky!Holds(c, p))
          /\ f - b \in Nat /\ (f - b = 0 => Leaky!Holds(c, p))
          /\ Leaky!Holds(c, p) => IF b < 0 THEN f - (b \div k) = 0 ELSE f - b = 0
      BY <2>3, <2>4
    <2>6. b = p[c.b] /\ f = p[c.f] /\ k = c.k
      BY <2>2
    <2> QED BY <2>5, <2>6, Zenon
  <1>3. /\ Phases(c) = {SoI!Leaky!Active, SoI!Leaky!Inactive} /\ SoI!Leaky!Active # SoI!Leaky!Inactive
        /\ \A phase : Term(c, phase, p) = p[c.f] - IF phase = SoI!Leaky!Inactive THEN p[c.b] \div c.k ELSE p[c.b]
        /\ PhaseOf(c, s, p) = IF p[c.b] < 0 THEN SoI!Leaky!Inactive ELSE SoI!Leaky!Active
        /\ Holds(c, p) <=> Leaky!Holds(c, p)
    BY DEF Phases, Term, PhaseOf, Holds, SoI!Leaky!Cases, SoI!Leaky!Cost, SoI!Leaky!SlopeBelow,
       SoI!Leaky!PhaseAt, SoI!Leaky!Active, SoI!Leaky!Inactive
  <1> QED BY <1>2, <1>3 DEF Measures, HoldsUpToBorder

\* An element with the largest value, the least of them if there are several
LEMMA LargestIs ==
    ASSUME NEW n \in Nat, NEW c, NEW s, NEW p \in Point(n), c.f \in 0 .. n - 1,
           s.elements # {}, s.elements \subseteq 0 .. n - 1, \A e \in s.elements : p[e] <= p[c.f]
    PROVE  /\ SoI!MaxOf!Largest(c, s, p) \in s.elements
           /\ \A e \in s.elements : p[e] <= p[SoI!MaxOf!Largest(c, s, p)]
  <1> DEFINE E == s.elements
             values == {p[e] : e \in E}
             Best(e) == \A d \in E : p[d] < p[e] \/ (p[d] = p[e] /\ e <= d)
  <1>1. E \subseteq Nat /\ \A e \in E : p[e] \in Int
    BY DEF Point
  <1>2. p[c.f] \in Int
    BY DEF Point
  <1>3. PICK x \in values : \A y \in values : y <= x
    <2>1. values \in SUBSET Int /\ values # {} /\ \A y \in values : y <= p[c.f]
      BY <1>1
    <2> HIDE DEF values
    <2> QED BY <1>2, <2>1, LargestExists
  <1> DEFINE D == {e \in E : p[e] = x}
  <1>4. PICK e \in D : \A d \in D : e <= d
    <2>1. D \in SUBSET Nat /\ D # {}
      BY <1>1, <1>3
    <2> HIDE DEF D
    <2> QED BY <2>1, LeastNatural
  <1>5. e \in E /\ Best(e)
    <2>1. ASSUME NEW d \in E
          PROVE  p[d] < p[e] \/ (p[d] = p[e] /\ e <= d)
      BY <1>1, <1>3, <1>4
    <2> QED BY <1>4, <2>1
  <1> DEFINE m == CHOOSE y \in E : Best(y)
  <1>6. m \in E /\ Best(m)
    <2> HIDE DEF Best
    <2> QED BY <1>5
  <1>7. SoI!MaxOf!Largest(c, s, p) = m
    BY DEF SoI!MaxOf!Largest
  <1> HIDE DEF m
  <1> QED BY <1>1, <1>6, <1>7

LEMMA MaxMeasures ==
    ASSUME NEW n \in Nat, NEW c, WellFormed(c, n), c.kind = "max", NEW s, NEW p \in Point(n),
           Reached(c, p), CaseLeft(c, s, p)
    PROVE  Measures(c, s, p)
  <1> DEFINE largest == SoI!MaxOf!Largest(c, s, p)
  <1>1. /\ c.f \in 0 .. n - 1 /\ c.elements \subseteq 0 .. n - 1 /\ p[c.f] \in Int
        /\ \A e \in c.elements : p[e] \in Int /\ c.aux[e] \in 0 .. n - 1 /\ p[c.aux[e]] \in Int
        /\ c.maxValueOfEliminated \in Int
    BY DEF WellFormed, Watched, Max!Variables, Point
  <1>2. /\ p[c.f] >= c.maxValueOfEliminated
        /\ \A e \in c.elements : p[c.aux[e]] >= 0 /\ p[c.aux[e]] = p[c.f] - p[e]
    BY DEF Reached, Basic, Linear, Max!Linear
  <1>3. /\ Phases(c) = {{e} : e \in c.elements} \cup {{}}
        /\ \A phase : Term(c, phase, p) = SoI!MaxOf!Cost(c, phase, p)
        /\ PhaseOf(c, s, p) = SoI!MaxOf!PhaseAt(c, s, p)
        /\ Holds(c, p) <=> Max!Holds(c, p)
    BY DEF Phases, Term, PhaseOf, Holds
  <1>4. SoI!MaxOf!Cost(c, {}, p) = p[c.f] - c.maxValueOfEliminated
    BY DEF SoI!MaxOf!Cost
  <1>5. ASSUME NEW e \in c.elements
        PROVE  SoI!MaxOf!Cost(c, {e}, p) = p[c.f] - p[e]
    <2>1. (CHOOSE d \in {e} : TRUE) = e
      OBVIOUS
    <2> QED BY <1>2, <2>1 DEF SoI!MaxOf!Cost
  <1>6. ASSUME NEW phase \in Phases(c)
        PROVE  /\ Term(c, phase, p) \in Nat
               /\ Term(c, phase, p) = 0 => Max!Holds(c, p)
    <2>1. CASE phase = {}
      BY <1>1, <1>2, <1>3, <1>4, <2>1 DEF Max!Holds
    <2>2. ASSUME NEW e \in c.elements, phase = {e}
          PROVE  /\ Term(c, phase, p) \in Nat
                 /\ Term(c, phase, p) = 0 => Max!Holds(c, p)
      <3>1. Term(c, phase, p) = p[c.f] - p[e] /\ p[c.f] - p[e] >= 0
        BY <1>2, <1>3, <1>5, <2>2
      <3> QED BY <1>1, <1>2, <3>1 DEF Max!Holds
    <2> QED BY <1>3, <2>1, <2>2
  <1>7. s.elements # {} /\ s.elements \subseteq c.elements
    BY DEF CaseLeft
  <1>8. largest \in s.elements /\ \A e \in s.elements : p[e] <= p[largest]
    <2>1. \A e \in s.elements : p[e] <= p[c.f]
      BY <1>1, <1>2, <1>7
    <2> QED BY <1>1, <1>7, <2>1, LargestIs
  <1> HIDE DEF largest
  <1>9. ASSUME Max!Holds(c, p)
        PROVE  Term(c, PhaseOf(c, s, p), p) = 0
    <2>1. \/ s.haveEliminated /\ p[c.f] = c.maxValueOfEliminated
          \/ \E e \in s.elements : p[c.f] = p[e]
      BY <1>3, <1>9 DEF CaseLeft, Sound, MaxSound
    <2>2. SoI!MaxOf!PhaseAt(c, s, p) =
            IF s.haveEliminated /\ p[largest] < c.maxValueOfEliminated THEN {} ELSE {largest}
      BY DEF SoI!MaxOf!PhaseAt, largest
    <2>3. largest \in c.elements /\ p[largest] \in Int /\ p[largest] <= p[c.f]
      BY <1>1, <1>2, <1>7, <1>8
    <2>4. CASE s.haveEliminated /\ p[largest] < c.maxValueOfEliminated
      <3>1. ~ \E e \in s.elements : p[c.f] = p[e]
        BY <1>1, <1>2, <1>7, <1>8, <2>3, <2>4
      <3> QED BY <1>1, <1>3, <1>4, <2>1, <2>2, <2>4, <3>1
    <2>5. CASE ~(s.haveEliminated /\ p[largest] < c.maxValueOfEliminated)
      <3>1. p[largest] = p[c.f]
        BY <1>1, <1>2, <1>7, <1>8, <2>1, <2>3, <2>5
      <3>2. Term(c, {largest}, p) = p[c.f] - p[largest]
        BY <1>3, <1>5, <2>3
      <3> QED BY <1>1, <1>3, <2>2, <2>5, <3>1, <3>2
    <2> QED BY <2>4, <2>5
  <1> QED BY <1>3, <1>6, <1>9 DEF Measures, HoldsUpToBorder

\* A cost term measures by how much a point violates a constraint: it is never negative,
\* zero only if the constraint holds, and the one of the point's phase is zero if it holds
\* (getCostFunctionComponent and getPhaseStatusInAssignment of ReluConstraint,
\* LeakyReluConstraint, AbsoluteValueConstraint, SignConstraint and MaxConstraint).
THEOREM CostsMeasureViolation ==
    ASSUME NEW n \in Nat, NEW c, WellFormed(c, n), SoI!SupportSoI(c), NEW s, NEW p \in Point(n),
           Reached(c, p), CaseLeft(c, s, p)
    PROVE  Measures(c, s, p)
  <1>1. c.kind \in {"relu", "leaky", "abs", "sign", "max"}
    BY DEF WellFormed, SoI!SupportSoI
  <1> QED BY <1>1, ReluMeasures, LeakyMeasures, AbsMeasures, SignMeasures, MaxMeasures

-----------------------------------------------------------------------------
(* What it makes of a query *)

\* The constraints that may have a term in the cost
Open(q) ==
    {i \in DOMAIN q.constraints : /\ SoI!SupportSoI(q.constraints[i]) /\ q.states[i].active
                                  /\ ~Fixed(q.constraints[i], q.states[i])}

\* A query as the search has it: the simplex stays within the bounds and on the equations,
\* what the constraints know is right, and the network, if there is one, has an evaluation
\* for the inputs of each point, at which every constraint holds
WellPosed(q, n) ==
    /\ IsFiniteSet(DOMAIN q.constraints)
    /\ q.points \subseteq Point(n) /\ q.graph \subseteq Point(n)
    /\ \A i \in DOMAIN q.constraints : WellFormed(q.constraints[i], n)
    /\ \A i \in Open(q), p \in q.points :
        Reached(q.constraints[i], p) /\ CaseLeft(q.constraints[i], q.states[i], p)
    /\ \A i \in DOMAIN q.constraints, x \in q.graph : Holds(q.constraints[i], x)
    /\ q.graph # {} => \A p \in q.points : \E x \in q.graph : \A v \in q.inputs : x[v] = p[v]

\* A pattern has phases of constraints that may have a term
Pattern(q, f) ==
    /\ DOMAIN f \subseteq Open(q)
    /\ \A i \in DOMAIN f : f[i] \in Phases(q.constraints[i])

LEMMA SameConstraints ==
    ASSUME NEW n \in Nat, NEW q, WellPosed(q, n), NEW i \in DOMAIN q.constraints
    PROVE  /\ \A p : SoI!Satisfied(q.constraints[i], p) <=> Holds(q.constraints[i], p)
           /\ \A s : SoI!PhaseFixed(q, s, i) <=> i \in s.fixed \/ Fixed(q.constraints[i], q.states[i])
  <1> DEFINE c == q.constraints[i]
  <1>1. c.kind \in {"relu", "leaky", "abs", "sign", "max", "disj"}
    BY DEF WellPosed, WellFormed
  <1>2. \A p : SoI!Satisfied(c, p) <=> Holds(c, p)
    <2> HIDE DEF c
    <2> QED BY <1>1 DEF SoI!Satisfied, Holds, SoI!Relu!Holds, Relu!Holds, SoI!Leaky!Holds, Leaky!Holds,
               SoI!Abs!Holds, Abs!Holds, SoI!Sign!Holds, Sign!Holds, SoI!MaxOf!Holds, Max!Holds,
               SoI!Disj!Holds, Disj!Holds, SoI!Disj!Meets, Disj!Meets, SoI!Disj!Respects, Disj!Respects
  <1>3. \A s : SoI!PhaseFixed(q, s, i) <=> i \in s.fixed \/ Fixed(c, q.states[i])
    BY <1>1 DEF SoI!PhaseFixed, Fixed, SoI!Relu!Fixed, Relu!Fixed, SoI!Leaky!Fixed, Leaky!Fixed,
       SoI!Abs!Fixed, Abs!Fixed, SoI!Sign!Fixed, Sign!Fixed, SoI!MaxOf!Fixed, Max!Fixed,
       SoI!Disj!Fixed, Disj!Fixed, SoI!Relu!NotFixed, Relu!NotFixed, SoI!Leaky!NotFixed, Leaky!NotFixed,
       SoI!Abs!NotFixed, Abs!NotFixed, SoI!Sign!NotFixed, Sign!NotFixed
  <1> QED BY <1>2, <1>3

\* The phase of a point, and those a proposal chooses from, are phases
LEMMA PhasesAreOf ==
    ASSUME NEW n \in Nat, NEW q, WellPosed(q, n), NEW i \in Open(q), q.points # {}
    PROVE  /\ \A p \in q.points \cup q.graph :
                /\ SoI!GetPhaseStatusInAssignment(q, i, p) = PhaseOf(q.constraints[i], q.states[i], p)
                /\ PhaseOf(q.constraints[i], q.states[i], p) \in Phases(q.constraints[i])
           /\ SoI!GetAllCases(q, i) \subseteq Phases(q.constraints[i])
  <1> DEFINE c == q.constraints[i]
             s == q.states[i]
  <1>1. c.kind \in {"relu", "leaky", "abs", "sign", "max"} /\ WellFormed(c, n)
    BY DEF WellPosed, WellFormed, Open, SoI!SupportSoI
  <1>2. \A p : SoI!GetPhaseStatusInAssignment(q, i, p) = PhaseOf(c, s, p)
    BY <1>1 DEF SoI!GetPhaseStatusInAssignment, PhaseOf
  <1>3. c.kind = "max" => s.elements # {} /\ s.elements \subseteq c.elements
    BY DEF WellPosed, CaseLeft
  <1>4. \A p \in q.points \cup q.graph : p \in Point(n) /\ (Reached(c, p) \/ Holds(c, p))
    BY DEF WellPosed, Open
  <1>5. SoI!GetAllCases(q, i) \subseteq Phases(c)
    <2>1. SoI!GetAllCases(q, i) = CASE c.kind = "relu" -> SoI!Relu!Cases(c)
                                    [] c.kind = "leaky" -> SoI!Leaky!Cases(c)
                                    [] c.kind = "abs" -> SoI!Abs!Cases(c)
                                    [] c.kind = "sign" -> SoI!Sign!Cases(c)
                                    [] c.kind = "max" -> SoI!MaxOf!Cases(c, s)
      BY DEF SoI!GetAllCases
    <2> HIDE DEF c, s
    <2> QED BY <1>1, <1>3, <2>1 DEF Phases, SoI!MaxOf!Cases
  <1> HIDE DEF c, s
  <1>6. ASSUME NEW p \in q.points \cup q.graph
        PROVE  PhaseOf(c, s, p) \in Phases(c)
    <2>1. CASE c.kind # "max"
      BY <1>1, <2>1 DEF PhaseOf, Phases, SoI!Relu!PhaseAt, SoI!Relu!Cases, SoI!Leaky!PhaseAt, SoI!Leaky!Cases,
         SoI!Abs!PhaseAt, SoI!Abs!Cases, SoI!Sign!PhaseAt, SoI!Sign!Cases
    <2>2. CASE c.kind = "max"
      <3>1. c.f \in 0 .. n - 1 /\ c.elements \subseteq 0 .. n - 1 /\ p \in Point(n)
            /\ \A e \in c.elements : c.aux[e] \in 0 .. n - 1
        BY <1>1, <1>4, <2>2 DEF WellFormed, Watched, Max!Variables
      <3>2. \A e \in c.elements : p[e] <= p[c.f]
        <4>1. \A e \in c.elements : p[e] \in Int /\ p[c.f] \in Int /\ p[c.aux[e]] \in Int
          BY <3>1 DEF Point
        <4>2. CASE Reached(c, p)
          BY <2>2, <4>1, <4>2 DEF Reached, Basic, Linear, Max!Linear
        <4>3. CASE Holds(c, p)
          BY <2>2, <4>1, <4>3 DEF Holds, Max!Holds
        <4> QED BY <1>4, <4>2, <4>3
      <3>3. SoI!MaxOf!Largest(c, s, p) \in c.elements
        BY <1>3, <2>2, <3>1, <3>2, LargestIs
      <3>4. PhaseOf(c, s, p) = SoI!MaxOf!PhaseAt(c, s, p) /\ Phases(c) = {{e} : e \in c.elements} \cup {{}}
        BY <2>2 DEF PhaseOf, Phases
      <3> QED BY <3>3, <3>4 DEF SoI!MaxOf!PhaseAt
    <2> QED BY <2>1, <2>2
  <1> QED BY <1>2, <1>5, <1>6 DEF c, s

\* A term in the cost
LEMMA ComponentFacts ==
    ASSUME NEW n \in Nat, NEW q, WellPosed(q, n), NEW s, NEW i \in Open(q), NEW p \in q.points
    PROVE  /\ \A phase \in Phases(q.constraints[i]) :
                /\ SoI!CostComponent(q, s, i, phase, p) \in Nat
                /\ SoI!CostComponent(q, s, i, phase, p) = 0 /\ i \notin s.fixed
                    => HoldsUpToBorder(q.constraints[i], p)
           /\ Holds(q.constraints[i], p)
                => SoI!CostComponent(q, s, i, SoI!GetPhaseStatusInAssignment(q, i, p), p) = 0
  <1> DEFINE c == q.constraints[i]
  <1>1. i \in DOMAIN q.constraints /\ SoI!SupportSoI(c) /\ q.states[i].active /\ WellFormed(c, n)
        /\ ~Fixed(c, q.states[i])
    BY DEF Open, WellPosed
  <1>2. c.kind \in {"relu", "leaky", "abs", "sign", "max"}
    BY <1>1 DEF WellFormed, SoI!SupportSoI
  <1>3. SoI!PhaseFixed(q, s, i) <=> i \in s.fixed
    BY <1>1, SameConstraints
  <1>4. \A phase : SoI!CostComponent(q, s, i, phase, p) = IF i \in s.fixed THEN 0 ELSE Term(c, phase, p)
    BY <1>1, <1>2, <1>3 DEF SoI!CostComponent, Term
  <1>5. Measures(c, q.states[i], p)
    BY <1>1, CostsMeasureViolation DEF WellPosed
  <1>6. SoI!GetPhaseStatusInAssignment(q, i, p) = PhaseOf(c, q.states[i], p)
    BY PhasesAreOf
  <1> HIDE DEF c
  <1>7. /\ \A phase \in Phases(c) :
            /\ SoI!CostComponent(q, s, i, phase, p) \in Nat
            /\ SoI!CostComponent(q, s, i, phase, p) = 0 /\ i \notin s.fixed => HoldsUpToBorder(c, p)
        /\ Holds(c, p) => SoI!CostComponent(q, s, i, PhaseOf(c, q.states[i], p), p) = 0
    BY <1>4, <1>5 DEF Measures
  <1> QED BY <1>6, <1>7 DEF c

\* The cost of a pattern
LEMMA CostFacts ==
    ASSUME NEW n \in Nat, NEW q, WellPosed(q, n), NEW s, NEW f, Pattern(q, f), NEW p \in q.points
    PROVE  /\ SoI!CostAt(q, s, f, p) \in Nat
           /\ SoI!CostAt(q, s, f, p) = 0 <=> \A i \in DOMAIN f : SoI!CostComponent(q, s, i, f[i], p) = 0
  <1> DEFINE D == DOMAIN f
             t == [i \in D |-> SoI!CostComponent(q, s, i, f[i], p)]
  <1>1. IsFiniteSet(D)
    <2>1. D \subseteq DOMAIN q.constraints
      BY DEF Pattern, Open
    <2> HIDE DEF D
    <2> QED BY <2>1, FS_Subset DEF WellPosed
  <1>2. \A i \in D : t[i] \in Nat
    BY ComponentFacts DEF Pattern
  <1>3. PICK g : Summing(g, t, D) /\ SoI!CostAt(q, s, f, p) = g[D]
    BY <1>1, CostIsASum
  <1>4. g[D] \in Nat /\ (g[D] = 0 <=> \A i \in D : t[i] = 0)
    <2> HIDE DEF D, t
    <2> QED BY <1>1, <1>2, <1>3, SumFacts
  <1> QED BY <1>3, <1>4

-----------------------------------------------------------------------------
(* The steps of the local search *)

\* The manager's state and a search are records
IsState(s) == s = [x \in {"point", "fixed", "current", "accepted", "updated"} |-> s[x]]
IsSearch(l) ==
    /\ l = [x \in {"q", "pc", "rejections", "cost", "costProposed", "lastAccepted", "proposed", "s"} |-> l[x]]
    /\ IsState(l.s)

\* No satisfied constraint has a term that is not zero
SatisfiedAreFree(q, s) ==
    \A i \in DOMAIN s.current :
        Holds(q.constraints[i], s.point) => SoI!CostComponent(q, s, i, s.current[i], s.point) = 0

\* A minimum is a point the simplex reaches, and the satisfied constraints get its phases
LEMMA Minimized ==
    ASSUME NEW n \in Nat, NEW q, WellPosed(q, n), NEW s, IsState(s), Pattern(q, s.current),
           NEW m \in SoI!MinimizeHeuristicCost(q, s)
    PROVE  LET u == SoI!UpdateForSatisfied(q, m)
           IN  /\ IsState(u) /\ u.point \in q.points /\ Pattern(q, u.current)
               /\ u.accepted = s.accepted /\ SatisfiedAreFree(q, u)
  <1> DEFINE u == SoI!UpdateForSatisfied(q, m)
             At(i) == SoI!GetPhaseStatusInAssignment(q, i, m.point)
  <1>1. PICK noticed \in {{}, q.unnoticed}, p \in q.points :
            m = [[s EXCEPT !.fixed = @ \cup noticed] EXCEPT !.point = p]
    <2> DEFINE Best == LET cost == [y \in q.points |-> SoI!CostAt(q, s, s.current, y)]
                       IN  {y \in q.points : \A z \in q.points : cost[y] <= cost[z]}
               Minima(x) == {[[s EXCEPT !.fixed = @ \cup x] EXCEPT !.point = y] : y \in Best}
    <2>1. SoI!MinimizeHeuristicCost(q, s) = UNION {Minima(x) : x \in {{}, q.unnoticed}}
      BY DEF SoI!MinimizeHeuristicCost
    <2>2. PICK x \in {{}, q.unnoticed} : m \in Minima(x)
      <3> HIDE DEF Minima
      <3> QED BY <2>1
    <2>3. Best \subseteq q.points
      OBVIOUS
    <2> HIDE DEF Best
    <2>4. PICK p \in q.points : m = [[s EXCEPT !.fixed = @ \cup x] EXCEPT !.point = p]
      BY <2>2, <2>3
    <2> QED BY <2>4
  <1>2. IsState(m) /\ m.point \in q.points /\ m.current = s.current /\ m.accepted = s.accepted
    BY <1>1 DEF IsState
  <1>3. u = [m EXCEPT !.current = [i \in DOMAIN m.current |->
                IF SoI!Satisfied(q.constraints[i], m.point) THEN At(i) ELSE m.current[i]]]
    BY DEF SoI!UpdateForSatisfied
  <1>4. /\ IsState(u) /\ u.point = m.point /\ u.accepted = s.accepted
        /\ u.current = [i \in DOMAIN s.current |->
                IF SoI!Satisfied(q.constraints[i], m.point) THEN At(i) ELSE s.current[i]]
    <2> HIDE DEF u, At
    <2> QED BY <1>2, <1>3 DEF IsState
  <1> HIDE DEF u
  <1>5. \A i \in DOMAIN s.current : i \in Open(q) /\ i \in DOMAIN q.constraints
    BY DEF Pattern, Open
  <1>6. \A i \in Open(q) : At(i) \in Phases(q.constraints[i])
    BY <1>2, PhasesAreOf
  <1>7. Pattern(q, u.current)
    <2> HIDE DEF At
    <2> QED BY <1>4, <1>5, <1>6 DEF Pattern
  <1>8. ASSUME NEW i \in DOMAIN u.current, Holds(q.constraints[i], u.point)
        PROVE  SoI!CostComponent(q, u, i, u.current[i], u.point) = 0
    <2>1. i \in DOMAIN s.current /\ SoI!Satisfied(q.constraints[i], m.point)
      BY <1>4, <1>5, <1>8, SameConstraints
    <2>2. u.current[i] = SoI!GetPhaseStatusInAssignment(q, i, u.point)
      BY <1>4, <2>1
    <2>3. i \in Open(q) /\ u.point \in q.points
      BY <1>2, <1>4, <1>5, <2>1
    <2>4. SoI!CostComponent(q, u, i, SoI!GetPhaseStatusInAssignment(q, i, u.point), u.point) = 0
      BY <1>8, <2>3, ComponentFacts
    <2> QED BY <2>2, <2>4
  <1>9. SatisfiedAreFree(q, u)
    BY <1>8 DEF SatisfiedAreFree
  <1> QED BY <1>2, <1>4, <1>7, <1>9 DEF u

\* A proposal changes the phase of one constraint, or there is nothing left to change
LEMMA Proposed ==
    ASSUME NEW n \in Nat, NEW q, WellPosed(q, n), NEW s, IsState(s), s.point \in q.points,
           Pattern(q, s.accepted), NEW r \in SoI!ProposePhasePatternUpdate(q, s)
    PROVE  IsState(r) /\ r.point = s.point /\ Pattern(q, r.current) /\ Pattern(q, r.accepted)
  <1> DEFINE fixed == {i \in DOMAIN s.accepted : SoI!PhaseFixed(q, s, i)}
             open == DOMAIN s.accepted \ fixed
             Without(gone) == SoI!Restrict(s.accepted, DOMAIN s.accepted \ gone)
  <1>1. \A i \in DOMAIN s.accepted : \A phase \in SoI!Alternatives(q, s.accepted, i) :
            phase \in Phases(q.constraints[i])
    BY PhasesAreOf DEF Pattern, SoI!Alternatives
  <1>2. ASSUME r \in SoI!ProposeRandomly(q, s)
        PROVE  IsState(r) /\ r.point = s.point /\ Pattern(q, r.current) /\ Pattern(q, r.accepted)
    <2>1. CASE open = {}
      <3>1. r = [s EXCEPT !.current = <<>>, !.accepted = <<>>, !.updated = {}]
        BY <1>2, <2>1 DEF SoI!ProposeRandomly
      <3>2. IsState(r) /\ r.point = s.point /\ r.current = <<>> /\ r.accepted = <<>>
        BY <3>1 DEF IsState
      <3> QED BY <3>2 DEF Pattern
    <2>2. CASE open # {}
      <3> DEFINE One(i, gone) == {[s EXCEPT !.current = [Without(gone) EXCEPT ![i] = phase],
                                            !.accepted = Without(gone),
                                            !.updated = {i}] : phase \in SoI!Alternatives(q, s.accepted, i)}
                 Some(gone) == UNION {One(i, gone) : i \in open}
      <3>1. PICK gone \in SUBSET fixed, i \in open : r \in One(i, gone)
        <4>1. SoI!ProposeRandomly(q, s) = UNION {Some(gone) : gone \in SUBSET fixed}
          BY <2>2 DEF SoI!ProposeRandomly
        <4>2. PICK gone \in SUBSET fixed : r \in Some(gone)
          <5> HIDE DEF Some, fixed
          <5> QED BY <1>2, <4>1
        <4>3. PICK i \in open : r \in One(i, gone)
          <5> HIDE DEF One, open
          <5> QED BY <4>2
        <4> QED BY <4>2, <4>3
      <3>2. Without(gone) = [x \in DOMAIN s.accepted \ gone |-> s.accepted[x]]
        BY DEF SoI!Restrict
      <3>3. i \in DOMAIN s.accepted /\ i \notin gone
        BY <3>1
      <3>4. PICK phase \in SoI!Alternatives(q, s.accepted, i) :
                r = [s EXCEPT !.current = [Without(gone) EXCEPT ![i] = phase],
                              !.accepted = Without(gone),
                              !.updated = {i}]
        BY <3>1
      <3> DEFINE W == Without(gone)
      <3>5. Pattern(q, W)
        BY <3>2 DEF Pattern
      <3>6. phase \in Phases(q.constraints[i])
        BY <1>1, <3>3, <3>4
      <3>7. r = [s EXCEPT !.current = [W EXCEPT ![i] = phase], !.accepted = W, !.updated = {i}]
        BY <3>4
      <3> HIDE DEF W
      <3>8. Pattern(q, [W EXCEPT ![i] = phase])
        BY <3>5, <3>6 DEF Pattern
      <3>9. IsState(r) /\ r.point = s.point /\ r.current = [W EXCEPT ![i] = phase] /\ r.accepted = W
        BY <3>7 DEF IsState
      <3> QED BY <3>5, <3>8, <3>9
    <2> QED BY <2>1, <2>2
  <1>3. ASSUME r \in SoI!ProposeWalksat(q, s), r \notin SoI!ProposeRandomly(q, s)
        PROVE  IsState(r) /\ r.point = s.point /\ Pattern(q, r.current) /\ Pattern(q, r.accepted)
    <2>0. PICK i \in DOMAIN s.accepted : \E phase \in SoI!LeastReducing(q, s, i) :
              r = [s EXCEPT !.current = [s.accepted EXCEPT ![i] = phase], !.updated = {i}]
      BY <1>3 DEF SoI!ProposeWalksat
    <2>1. PICK phase \in SoI!LeastReducing(q, s, i) :
              r = [s EXCEPT !.current = [s.accepted EXCEPT ![i] = phase], !.updated = {i}]
      BY <2>0
    <2>2. phase \in Phases(q.constraints[i])
      BY <1>1, <2>1 DEF SoI!LeastReducing
    <2>3. Pattern(q, [s.accepted EXCEPT ![i] = phase])
      BY <2>2 DEF Pattern
    <2>4. /\ IsState(r) /\ r.point = s.point
          /\ r.current = [s.accepted EXCEPT ![i] = phase] /\ r.accepted = s.accepted
      BY <2>1 DEF IsState
    <2> QED BY <2>3, <2>4
  <1> QED BY <1>2, <1>3 DEF SoI!ProposePhasePatternUpdate

\* The first pattern has the phases of the evaluation of the network, or of the point
LEMMA FirstPattern ==
    ASSUME NEW n \in Nat, NEW q, WellPosed(q, n), NEW s, IsState(s), s.point \in q.points
    PROVE  LET r == SoI!InitializePhasePattern(q, s)
           IN  IsState(r) /\ r.point = s.point /\ Pattern(q, r.current) /\ Pattern(q, r.accepted)
  <1> DEFINE a == SoI!InitialAssignment(q, s.point)
             f == [i \in SoI!Participants(q, s) |-> SoI!GetPhaseStatusInAssignment(q, i, a)]
             r == SoI!InitializePhasePattern(q, s)
  <1>1. a \in q.points \cup q.graph
    <2>1. CASE q.graph = {}
      BY <2>1 DEF SoI!InitialAssignment
    <2>2. CASE q.graph # {}
      <3> DEFINE Same(x) == \A v \in q.inputs : x[v] = s.point[v]
      <3>1. \E x \in q.graph : Same(x)
        BY <2>2 DEF WellPosed
      <3>2. a = CHOOSE x \in q.graph : Same(x)
        BY <2>2 DEF SoI!InitialAssignment
      <3> HIDE DEF Same, a
      <3>3. (CHOOSE x \in q.graph : Same(x)) \in q.graph
        BY <3>1
      <3> QED BY <3>2, <3>3
    <2> QED BY <2>1, <2>2
  <1>2. SoI!Participants(q, s) \subseteq Open(q)
    <2>1. ASSUME NEW i \in SoI!Participants(q, s)
          PROVE  i \in Open(q)
      <3>1. /\ i \in DOMAIN q.constraints /\ SoI!SupportSoI(q.constraints[i]) /\ q.states[i].active
            /\ ~SoI!PhaseFixed(q, s, i)
        BY DEF SoI!Participants
      <3> QED BY <3>1, SameConstraints DEF Open
    <2> QED BY <2>1
  <1>3. Pattern(q, f)
    <2> HIDE DEF a
    <2>1. \A i \in Open(q) : SoI!GetPhaseStatusInAssignment(q, i, a) \in Phases(q.constraints[i])
      BY <1>1, PhasesAreOf
    <2> QED BY <1>2, <2>1 DEF Pattern
  <1>4. r = [s EXCEPT !.current = f, !.accepted = f, !.updated = {}]
    BY DEF SoI!InitializePhasePattern
  <1> HIDE DEF f, r
  <1>5. IsState(r) /\ r.point = s.point /\ r.current = f /\ r.accepted = f
    BY <1>4 DEF IsState
  <1> QED BY <1>3, <1>5 DEF r

-----------------------------------------------------------------------------
(* The local search *)

\* Only what a restoration fixed matters for the terms
Free(q, s, f) == \A i \in DOMAIN f : SoI!CostComponent(q, s, i, f[i], s.point) = 0

LEMMA SameTerms ==
    ASSUME NEW q, NEW s, NEW r, r.fixed = s.fixed
    PROVE  \A i, phase, p : SoI!CostComponent(q, r, i, phase, p) = SoI!CostComponent(q, s, i, phase, p)
  <1>1. \A i : SoI!PhaseFixed(q, r, i) <=> SoI!PhaseFixed(q, s, i)
    BY DEF SoI!PhaseFixed
  <1>2. \A x, i, phase, p :
            SoI!CostComponent(q, x, i, phase, p) =
                IF ~q.states[i].active \/ SoI!PhaseFixed(q, x, i) THEN 0 ELSE Term(q.constraints[i], phase, p)
    BY Zenon DEF SoI!CostComponent, Term
  <1> QED BY <1>1, <1>2

\* The next searches: performDeepSoILocalSearch, and nothing once it returned
After(l) ==
    CASE l.pc = "begin"   -> SoI!BeginSearch(l)
      [] l.pc = "judge"   -> SoI!JudgePoint(l)
      [] l.pc = "propose" -> SoI!MinimizeProposal(l)
      [] l.pc = "decide"  -> SoI!Decide(l)
      [] OTHER            -> {l}

\* Its call at a point
Called(q, p) ==
    [q |-> q, pc |-> "begin", rejections |-> 0, cost |-> 0, costProposed |-> 0,
     lastAccepted |-> TRUE, proposed |-> <<>>,
     s |-> [point |-> p, fixed |-> {}, current |-> <<>>, accepted |-> <<>>, updated |-> {}]]

\* The cost is that of the accepted pattern at its point, and no proposal is made, nor was one
\* rejected, unless it is positive
Violated(l) == SoI!ViolatedPlConstraints(l.q, l.s.point)
SearchInv(q, l) ==
    /\ IsSearch(l) /\ l.q = q /\ l.s.point \in q.points /\ l.lastAccepted \in BOOLEAN
    /\ l.pc = "begin" => l.lastAccepted
    /\ l.pc \in {"judge", "propose", "decide"} =>
        Pattern(q, l.s.current) /\ Pattern(q, l.s.accepted) /\ l.cost \in Nat
    /\ l.pc = "judge" /\ l.lastAccepted => (l.cost = 0 <=> Free(q, l.s, l.s.accepted))
    /\ l.pc = "judge" /\ ~l.lastAccepted => l.cost # 0 /\ Violated(l) # {}
    /\ l.pc \in {"propose", "decide"} => l.cost # 0
    /\ l.pc = "decide" => /\ l.costProposed \in Nat
                          /\ l.costProposed = 0 <=> Free(q, l.s, l.s.current)
                          /\ SatisfiedAreFree(q, l.s)
    /\ l.pc = "solved" => Violated(l) = {}

\* The point of a rejected proposal is no solution; where the cost is zero, every constraint of
\* the pattern that is not fixed holds; and a solution is one
SearchRight(l) ==
    /\ l.pc = "judge" /\ ~l.lastAccepted => Violated(l) # {}
    /\ l.pc = "judge" /\ l.lastAccepted /\ l.cost = 0 =>
        \A i \in DOMAIN l.s.accepted \ l.s.fixed : HoldsUpToBorder(l.q.constraints[i], l.s.point)
    /\ l.pc = "solved" => \A i \in DOMAIN l.q.constraints :
        l.q.states[i].active => Holds(l.q.constraints[i], l.s.point)

\* What minimizing leaves: a point, a pattern, and its cost
LEMMA CostOfMinimum ==
    ASSUME NEW n \in Nat, NEW q, WellPosed(q, n), NEW u, u.point \in q.points, Pattern(q, u.current)
    PROVE  /\ SoI!ComputeHeuristicCost(q, u) \in Nat
           /\ SoI!ComputeHeuristicCost(q, u) = 0 <=> Free(q, u, u.current)
  BY CostFacts DEF SoI!ComputeHeuristicCost, Free

LEMMA AcceptFacts ==
    ASSUME NEW q, NEW s, IsState(s)
    PROVE  LET a == SoI!AcceptCurrentPhasePattern(s)
           IN  /\ IsState(a) /\ a.point = s.point /\ a.current = s.current /\ a.accepted = s.current
               /\ Free(q, a, a.accepted) <=> Free(q, s, s.current)
  <1> DEFINE a == SoI!AcceptCurrentPhasePattern(s)
  <1>1. a = [s EXCEPT !.accepted = s.current, !.updated = {}]
    BY DEF SoI!AcceptCurrentPhasePattern
  <1> HIDE DEF a
  <1>2. /\ IsState(a) /\ a.point = s.point /\ a.current = s.current /\ a.accepted = s.current
        /\ a.fixed = s.fixed
    BY <1>1 DEF IsState
  <1>3. Free(q, a, a.accepted) <=> Free(q, s, s.current)
    BY <1>2, SameTerms DEF Free
  <1> QED BY <1>2, <1>3 DEF a

LEMMA Leaving ==
    ASSUME NEW q, NEW l, SearchInv(q, l), NEW k \in SoI!Leave(l)
    PROVE  SearchInv(q, k)
  <1>1. PICK pc \in {"split", "left"} : k = [l EXCEPT !.pc = pc]
    BY DEF SoI!Leave
  <1>2. IsSearch(k) /\ k.pc = pc /\ k.q = l.q /\ k.s = l.s /\ k.lastAccepted = l.lastAccepted
    BY <1>1 DEF IsSearch, SearchInv
  <1> QED BY <1>2 DEF SearchInv

LEMMA Beginning ==
    ASSUME NEW n \in Nat, NEW q, WellPosed(q, n), NEW l, SearchInv(q, l), l.pc = "begin",
           NEW k \in SoI!BeginSearch(l)
    PROVE  SearchInv(q, k)
  <1> DEFINE initial == SoI!InitializePhasePattern(q, l.s)
  <1>1. l.q = q /\ IsState(l.s) /\ l.s.point \in q.points
    BY DEF SearchInv, IsSearch
  <1>2. CASE initial.current = <<>>
    BY <1>1, <1>2, Leaving DEF SoI!BeginSearch
  <1>3. CASE initial.current # <<>>
    <2>1. PICK m \in SoI!MinimizeHeuristicCost(q, initial) :
              k = LET u == SoI!UpdateForSatisfied(q, m)
                  IN  [l EXCEPT !.pc = "judge", !.s = SoI!AcceptCurrentPhasePattern(u),
                                !.cost = SoI!ComputeHeuristicCost(q, u)]
      BY <1>1, <1>3 DEF SoI!BeginSearch
    <2> DEFINE u == SoI!UpdateForSatisfied(q, m)
               a == SoI!AcceptCurrentPhasePattern(u)
               cost == SoI!ComputeHeuristicCost(q, u)
    <2>2. k = [l EXCEPT !.pc = "judge", !.s = a, !.cost = cost]
      BY <2>1
    <2>3. IsState(initial) /\ Pattern(q, initial.current)
      BY <1>1, FirstPattern
    <2>4. IsState(u) /\ u.point \in q.points /\ Pattern(q, u.current)
      BY <2>1, <2>3, Minimized
    <2>5. cost \in Nat /\ (cost = 0 <=> Free(q, u, u.current))
      BY <2>4, CostOfMinimum
    <2>6. /\ IsState(a) /\ a.point = u.point /\ a.current = u.current /\ a.accepted = u.current
          /\ Free(q, a, a.accepted) <=> Free(q, u, u.current)
      BY <2>4, AcceptFacts
    <2> HIDE DEF a, cost, u, initial
    <2>7. /\ IsSearch(k) /\ k.pc = "judge" /\ k.q = q /\ k.s = a /\ k.cost = cost
          /\ k.lastAccepted = TRUE
      BY <1>1, <2>2, <2>6 DEF IsSearch, SearchInv
    <2> QED BY <2>4, <2>5, <2>6, <2>7 DEF SearchInv
  <1> QED BY <1>2, <1>3

LEMMA Judging ==
    ASSUME NEW n \in Nat, NEW q, WellPosed(q, n), NEW l, SearchInv(q, l), l.pc = "judge",
           NEW k \in SoI!JudgePoint(l)
    PROVE  SearchInv(q, k)
  <1>1. CASE k \in SoI!Leave(l)
    BY <1>1, Leaving
  <1>2. CASE k = [l EXCEPT !.pc = "split"]
    <2>1. IsSearch(k) /\ k.pc = "split" /\ k.q = l.q /\ k.s = l.s /\ k.lastAccepted = l.lastAccepted
      BY <1>2 DEF IsSearch, SearchInv
    <2> QED BY <2>1 DEF SearchInv
  <1>3. CASE Violated(l) = {} /\ k = [l EXCEPT !.pc = "solved"]
    <2>1. IsSearch(k) /\ k.pc = "solved" /\ k.q = l.q /\ k.s = l.s /\ k.lastAccepted = l.lastAccepted
      BY <1>3 DEF IsSearch, SearchInv
    <2>2. Violated(k) = {}
      BY <1>3, <2>1 DEF Violated
    <2> QED BY <2>1, <2>2 DEF SearchInv
  <1>4. CASE ~(l.lastAccepted /\ l.cost = 0) /\ k = [l EXCEPT !.pc = "propose"]
    <2>1. /\ IsSearch(k) /\ k.pc = "propose" /\ k.q = l.q /\ k.s = l.s /\ k.lastAccepted = l.lastAccepted
          /\ k.cost = l.cost
      BY <1>4 DEF IsSearch, SearchInv
    <2>2. l.cost # 0
      BY <1>4 DEF SearchInv
    <2> QED BY <2>1, <2>2 DEF SearchInv
  <1> QED BY <1>1, <1>2, <1>3, <1>4 DEF SoI!JudgePoint, Violated

LEMMA Proposing ==
    ASSUME NEW n \in Nat, NEW q, WellPosed(q, n), NEW l, SearchInv(q, l), l.pc = "propose",
           NEW k \in SoI!MinimizeProposal(l)
    PROVE  SearchInv(q, k)
  <1>1. l.q = q /\ IsSearch(l) /\ IsState(l.s) /\ l.s.point \in q.points /\ Pattern(q, l.s.accepted)
    BY DEF SearchInv, IsSearch
  <1>2. CASE SoI!ProposalThrows(q, l.s)
    <2>1. k = [l EXCEPT !.pc = "error"]
      BY <1>1, <1>2 DEF SoI!MinimizeProposal
    <2>2. IsSearch(k) /\ k.pc = "error" /\ k.q = l.q /\ k.s = l.s /\ k.lastAccepted = l.lastAccepted
      BY <2>1 DEF IsSearch, SearchInv
    <2> QED BY <2>2 DEF SearchInv
  <1>3. CASE ~SoI!ProposalThrows(q, l.s)
    <2> DEFINE Priced(r, m) == LET u == SoI!UpdateForSatisfied(l.q, m)
                               IN  [l EXCEPT !.pc = "decide", !.s = u, !.proposed = r.current,
                                             !.costProposed = SoI!ComputeHeuristicCost(l.q, u)]
               From(r) == {Priced(r, m) : m \in SoI!MinimizeHeuristicCost(l.q, r)}
    <2>1. SoI!MinimizeProposal(l) = UNION {From(r) : r \in SoI!ProposePhasePatternUpdate(l.q, l.s)}
      BY <1>1, <1>3, Zenon DEF SoI!MinimizeProposal
    <2>2. PICK r \in SoI!ProposePhasePatternUpdate(q, l.s) : k \in From(r)
      <3> HIDE DEF From
      <3> QED BY <1>1, <2>1
    <2>3. PICK m \in SoI!MinimizeHeuristicCost(q, r) : k = Priced(r, m)
      <3> HIDE DEF Priced
      <3> QED BY <1>1, <2>2
    <2> DEFINE u == SoI!UpdateForSatisfied(q, m)
               cost == SoI!ComputeHeuristicCost(q, u)
    <2>4. k = [l EXCEPT !.pc = "decide", !.s = u, !.proposed = r.current, !.costProposed = cost]
      BY <1>1, <2>3
    <2> HIDE DEF Priced, From
    <2>5. IsState(r) /\ r.point = l.s.point /\ Pattern(q, r.current) /\ Pattern(q, r.accepted)
      BY <1>1, <2>2, Proposed
    <2>6. /\ IsState(u) /\ u.point \in q.points /\ Pattern(q, u.current)
          /\ u.accepted = r.accepted /\ SatisfiedAreFree(q, u)
      BY <2>3, <2>5, Minimized
    <2>7. cost \in Nat /\ (cost = 0 <=> Free(q, u, u.current))
      BY <2>6, CostOfMinimum
    <2> HIDE DEF u, cost
    <2>8. /\ IsSearch(k) /\ k.pc = "decide" /\ k.q = q /\ k.s = u /\ k.costProposed = cost
          /\ k.lastAccepted = l.lastAccepted /\ k.cost = l.cost
      BY <1>1, <2>4, <2>6 DEF IsSearch
    <2> QED BY <2>5, <2>6, <2>7, <2>8 DEF SearchInv
  <1> QED BY <1>2, <1>3

\* A proposal that is rejected costs at least as much as what was accepted, which is more than
\* nothing; the terms of the satisfied constraints are zero, so one is violated
LEMMA Deciding ==
    ASSUME NEW n \in Nat, NEW q, WellPosed(q, n), NEW l, SearchInv(q, l), l.pc = "decide",
           NEW k \in SoI!Decide(l)
    PROVE  SearchInv(q, k)
  <1>1. /\ l.q = q /\ IsSearch(l) /\ IsState(l.s) /\ l.s.point \in q.points
        /\ Pattern(q, l.s.current) /\ Pattern(q, l.s.accepted)
        /\ l.cost \in Nat /\ l.cost # 0 /\ l.costProposed \in Nat
        /\ l.costProposed = 0 <=> Free(q, l.s, l.s.current)
        /\ SatisfiedAreFree(q, l.s)
    BY DEF SearchInv, IsSearch
  <1> DEFINE a == SoI!AcceptCurrentPhasePattern(l.s)
  <1>2. PICK accept \in SoI!MayAccept(l.cost, l.costProposed) :
            k = IF accept
                THEN [l EXCEPT !.pc = "judge", !.lastAccepted = TRUE, !.s = a, !.cost = l.costProposed]
                ELSE [l EXCEPT !.pc = "judge", !.lastAccepted = FALSE, !.rejections = @ + 1]
    BY DEF SoI!Decide
  <1>3. CASE accept
    <2>1. /\ IsState(a) /\ a.point = l.s.point /\ a.current = l.s.current /\ a.accepted = l.s.current
          /\ Free(q, a, a.accepted) <=> Free(q, l.s, l.s.current)
      BY <1>1, AcceptFacts
    <2> HIDE DEF a
    <2>2. /\ IsSearch(k) /\ k.pc = "judge" /\ k.q = q /\ k.s = a /\ k.cost = l.costProposed
          /\ k.lastAccepted = TRUE
      BY <1>1, <1>2, <1>3, <2>1 DEF IsSearch
    <2> QED BY <1>1, <2>1, <2>2 DEF SearchInv
  <1>4. CASE ~accept
    <2>1. ~(l.costProposed < l.cost)
      BY <1>2, <1>4 DEF SoI!MayAccept
    <2>2. l.costProposed # 0
      BY <1>1, <2>1
    <2>3. PICK i \in DOMAIN l.s.current : SoI!CostComponent(q, l.s, i, l.s.current[i], l.s.point) # 0
      BY <1>1, <2>2 DEF Free
    <2>4. ~Holds(q.constraints[i], l.s.point)
      BY <1>1, <2>3 DEF SatisfiedAreFree
    <2>5. i \in DOMAIN q.constraints /\ q.states[i].active
      BY <1>1 DEF Pattern, Open
    <2>6. i \in SoI!ViolatedPlConstraints(q, l.s.point)
      BY <2>4, <2>5, SameConstraints DEF SoI!ViolatedPlConstraints
    <2>7. /\ IsSearch(k) /\ k.pc = "judge" /\ k.q = q /\ k.s = l.s /\ k.cost = l.cost
          /\ k.lastAccepted = FALSE
      BY <1>1, <1>2, <1>4 DEF IsSearch
    <2>8. Violated(k) # {}
      BY <2>6, <2>7 DEF Violated
    <2> QED BY <1>1, <2>7, <2>8 DEF SearchInv
  <1> QED BY <1>3, <1>4

LEMMA InvIsRight ==
    ASSUME NEW n \in Nat, NEW q, WellPosed(q, n), NEW l, SearchInv(q, l)
    PROVE  SearchRight(l)
  <1>1. l.q = q /\ l.s.point \in q.points
    BY DEF SearchInv
  <1>2. ASSUME l.pc = "judge", l.lastAccepted, l.cost = 0, NEW i \in DOMAIN l.s.accepted \ l.s.fixed
        PROVE  HoldsUpToBorder(q.constraints[i], l.s.point)
    <2>1. Pattern(q, l.s.accepted) /\ Free(q, l.s, l.s.accepted)
      BY <1>2 DEF SearchInv
    <2>2. i \in Open(q) /\ l.s.accepted[i] \in Phases(q.constraints[i])
      BY <1>2, <2>1 DEF Pattern
    <2>3. SoI!CostComponent(q, l.s, i, l.s.accepted[i], l.s.point) = 0 /\ i \notin l.s.fixed
      BY <1>2, <2>1 DEF Free
    <2> QED BY <1>1, <2>2, <2>3, ComponentFacts
  <1>3. ASSUME l.pc = "solved", NEW i \in DOMAIN q.constraints, q.states[i].active
        PROVE  Holds(q.constraints[i], l.s.point)
    <2>1. SoI!ViolatedPlConstraints(q, l.s.point) = {}
      BY <1>1, <1>3 DEF SearchInv, Violated
    <2>2. SoI!Satisfied(q.constraints[i], l.s.point)
      BY <1>3, <2>1 DEF SoI!ViolatedPlConstraints
    <2> QED BY <2>2, SameConstraints
  <1>4. l.pc = "judge" /\ ~l.lastAccepted => Violated(l) # {}
    BY DEF SearchInv
  <1> QED BY <1>1, <1>2, <1>3, <1>4 DEF SearchRight

\* For every query, and whatever is proposed and accepted: the point of a rejected proposal is
\* no solution, as the comment in performDeepSoILocalSearch (Engine.cpp:3101-3120) says; where
\* the cost is zero every constraint of the pattern that is not fixed holds, a sign constraint up
\* to its border; and what the search returns as a solution is one.  SearchInv holds in every
\* step: there is no first step without it.
THEOREM LocalSearchIsRight ==
    ASSUME NEW n \in Nat, NEW q, WellPosed(q, n), NEW p \in q.points,
           NEW run, run[0] = Called(q, p), \A t \in Nat : run[t + 1] \in After(run[t])
    PROVE  \A t \in Nat : SearchRight(run[t])
  <1> DEFINE Good(t) == SearchInv(q, run[t])
             Bad == {t \in Nat : ~Good(t)}
  <1>1. Good(0)
    <2> DEFINE l == run[0]
    <2>1. l = Called(q, p)
      OBVIOUS
    <2> HIDE DEF l
    <2>2. IsState(l.s)
      BY <2>1 DEF Called, IsState
    <2>3. IsSearch(l)
      BY <2>1, <2>2 DEF Called, IsSearch
    <2>4. l.pc = "begin" /\ l.q = q /\ l.lastAccepted = TRUE /\ l.s.point = p
      BY <2>1 DEF Called
    <2>5. SearchInv(q, l)
      BY <2>3, <2>4 DEF SearchInv
    <2> QED BY <2>5 DEF l
  <1>2. ASSUME NEW t \in Nat, Good(t)
        PROVE  Good(t + 1)
    <2> DEFINE l == run[t]
               k == run[t + 1]
    <2>1. SearchInv(q, l) /\ k \in After(l)
      BY <1>2
    <2> HIDE DEF l, k
    <2>2. CASE l.pc = "begin"
      BY <2>1, <2>2, Beginning DEF After, k
    <2>3. CASE l.pc = "judge"
      BY <2>1, <2>3, Judging DEF After, k
    <2>4. CASE l.pc = "propose"
      BY <2>1, <2>4, Proposing DEF After, k
    <2>5. CASE l.pc = "decide"
      BY <2>1, <2>5, Deciding DEF After, k
    <2>6. CASE l.pc \notin {"begin", "judge", "propose", "decide"}
      BY <2>1, <2>6 DEF After, k
    <2> QED BY <2>2, <2>3, <2>4, <2>5, <2>6
  <1>3. Bad = {}
    <2>1. SUFFICES ASSUME Bad # {} PROVE FALSE
      OBVIOUS
    <2>2. PICK t \in Bad : \A r \in Bad : t <= r
      <3> HIDE DEF Good
      <3>1. Bad \subseteq Nat
        OBVIOUS
      <3> HIDE DEF Bad
      <3> QED BY <2>1, <3>1, LeastNatural
    <2> HIDE DEF Good
    <2>3. t \in Nat /\ t # 0 /\ ~Good(t)
      BY <1>1, <2>2
    <2>4. t - 1 \in Nat /\ t - 1 \notin Bad /\ (t - 1) + 1 = t
      <3>1. t - 1 \in Nat /\ ~(t <= t - 1) /\ (t - 1) + 1 = t
        BY <2>3
      <3> HIDE DEF Bad
      <3> QED BY <2>2, <3>1
    <2>5. Good(t - 1)
      BY <2>4
    <2>6. Good((t - 1) + 1)
      BY <1>2, <2>4, <2>5
    <2> QED BY <2>3, <2>4, <2>6
  <1>4. \A t \in Nat : SearchInv(q, run[t])
    BY <1>3
  <1> QED BY <1>4, InvIsRight
=============================================================================
