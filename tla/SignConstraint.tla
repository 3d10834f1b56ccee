--------------------------- MODULE SignConstraint ---------------------------
(***************************************************************************)
(* f = 1 if b >= 0 and f = -1 if b < 0.  A constraint is a record with the *)
(* fields b and f.  Unlike the other constraints it reacts whatever its    *)
(* phase, and when it is not active.                                       *)
(***************************************************************************)
EXTENDS Box

NotFixed == "PHASE_NOT_FIXED"
Positive == "SIGN_PHASE_POSITIVE"
Negative == "SIGN_PHASE_NEGATIVE"

Variables(c) == {c.b, c.f}
Initial(c, box) == [active |-> TRUE, phase |-> NotFixed]
States(c) == [active : BOOLEAN, phase : {NotFixed, Positive, Negative}]

\* What the constraint demands of a point.  The negative split includes its
\* border b = 0, since a tightening cannot exclude it: a constraint that was
\* split holds only up to that.
Holds(c, p) == p[c.f] = IF p[c.b] < 0 THEN -1 ELSE 1
HoldsUpToBorder(c, p) == Holds(c, p) \/ (p[c.b] = 0 /\ p[c.f] = -1)

NegativeSplit(c) == {Most(c.b, 0), Most(c.f, -1)}
PositiveSplit(c) == {Least(c.b, 0), Least(c.f, 1)}
CaseSplits(c) == {NegativeSplit(c), PositiveSplit(c)}

Fixed(c, s) == s.phase # NotFixed
ImpliedSplit(c, s) == IF s.phase = Positive THEN PositiveSplit(c) ELSE NegativeSplit(c)

\* What bound x at k decides: notifyLowerBound and notifyUpperBound
IsPositive(c, k, x) ==
    \/ k = <<c.f, "LB">> /\ x > -1
    \/ k = <<c.b, "LB">> /\ x >= 0

IsNegative(c, k, x) ==
    \/ k = <<c.f, "UB">> /\ x < 1
    \/ k = <<c.b, "UB">> /\ x < 0

\* notifyLowerBound and notifyUpperBound, told that the bound at k is x: the
\* state after, and what is tightened
Notified(c, s, k, x) ==
    IF IsPositive(c, k, x) THEN [s EXCEPT !.phase = Positive]
    ELSE IF IsNegative(c, k, x) THEN [s EXCEPT !.phase = Negative]
    ELSE s
Reaction(c, k, x) ==
    IF IsPositive(c, k, x)
    THEN {Least(c.f, 1)} \cup (IF k[1] = c.f THEN {Least(c.b, 0)} ELSE {})
    ELSE IF IsNegative(c, k, x)
    THEN {Most(c.f, -1)} \cup (IF k[1] = c.f THEN {Most(c.b, 0)} ELSE {})
    ELSE {}

\* The bounds getEntailedTightenings reports
Entailed(c, s, box) ==
    {Least(c.f, -1), Most(c.f, 1)}
    \cup (IF box[<<c.b, "LB">>] >= 0 \/ box[<<c.f, "LB">>] > -1
          THEN {Least(c.b, 0), Least(c.f, 1)}
          ELSE IF box[<<c.b, "UB">>] < 0 \/ box[<<c.f, "UB">>] < 1
          THEN {Most(c.b, 0), Most(c.f, -1)}
          ELSE {})

\* For the local search: the phases, the phase of a point, the cost term of a phase
\* at a point, and the inequalities f <= 1 - 2b/lb and f >= 2b/ub - 1 which the
\* preprocessor adds for it, where lb and ub are the bounds b has then
Cases(c) == {Negative, Positive}
PhaseAt(c, p) == IF p[c.b] < 0 THEN Negative ELSE Positive
Cost(c, phase, p) == IF phase = Negative THEN 1 + p[c.f] ELSE 1 - p[c.f]
AuxiliaryEquations(c, lb, ub, p) ==
    /\ lb * p[c.f] + 2 * p[c.b] >= lb
    /\ ub > 0 => ub * p[c.f] - 2 * p[c.b] >= -ub
=============================================================================
