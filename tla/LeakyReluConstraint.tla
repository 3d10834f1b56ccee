------------------------ MODULE LeakyReluConstraint ------------------------
(***************************************************************************)
(* f = b if b >= 0 and f = b / k if b < 0, with the two auxiliary          *)
(* variables the preprocessor adds: activeAux = f - b >= 0 and inactiveAux *)
(* = f - b / k >= 0.  A constraint is a record with the fields b, f,       *)
(* activeAux, inactiveAux and k, the inverse of _slope: bounds are         *)
(* integers, and a bound of b that k does not divide is passed to f        *)
(* rounded outward.  Unlike the ReLU it uses the bound it is told.         *)
(***************************************************************************)
EXTENDS Box

NotFixed == "PHASE_NOT_FIXED"
Active == "RELU_PHASE_ACTIVE"
Inactive == "RELU_PHASE_INACTIVE"

Variables(c) == {c.b, c.f, c.activeAux, c.inactiveAux}
Initial(c, box) == [active |-> TRUE, phase |-> NotFixed]
States(c) == [active : BOOLEAN, phase : {NotFixed, Active, Inactive}]

\* What the constraint demands of a point, and the equations that come with it
Holds(c, p) ==
    /\ p[c.f] > 0 => p[c.b] = p[c.f]
    /\ p[c.f] <= 0 => p[c.b] = c.k * p[c.f]
Linear(c, p) ==
    /\ p[c.activeAux] = p[c.f] - p[c.b]
    /\ c.k * p[c.inactiveAux] = c.k * p[c.f] - p[c.b]

InactiveSplit(c) == {Most(c.b, 0), Most(c.f, 0), Most(c.inactiveAux, 0)}
ActiveSplit(c) == {Least(c.b, 0), Least(c.f, 0), Most(c.activeAux, 0)}
CaseSplits(c) == {InactiveSplit(c), ActiveSplit(c)}

Fixed(c, s) == s.phase # NotFixed
ImpliedSplit(c, s) == IF s.phase = Active THEN ActiveSplit(c) ELSE InactiveSplit(c)

\* _slope * x, as a lower and as an upper bound of f
SlopeBelow(c, x) == x \div c.k
SlopeAbove(c, x) == -((-x) \div c.k)

\* checkIfLowerBoundUpdateFixesPhase and checkIfUpperBoundUpdateFixesPhase; a
\* phase that is fixed may be fixed again, to the other one
PhaseAfter(c, s, k, x) ==
    IF \/ k[1] \in {c.b, c.f} /\ k[2] = "LB" /\ x >= 0
       \/ k = <<c.inactiveAux, "LB">> /\ x > 0
       \/ k = <<c.activeAux, "UB">> /\ x = 0
    THEN Active
    ELSE IF \/ k[1] \in {c.b, c.f} /\ k[2] = "UB" /\ x < 0
            \/ k = <<c.activeAux, "LB">> /\ x > 0
            \/ k = <<c.inactiveAux, "UB">> /\ x = 0
    THEN Inactive
    ELSE s.phase

Partner(c, v) == IF v = c.f THEN c.b ELSE c.f

\* The tightenings of notifyLowerBound, told that v is at least x
LowerReaction(c, v, x) ==
    IF v \in {c.f, c.b} /\ x >= 0 THEN {Most(c.activeAux, 0), Least(Partner(c, v), x)}
    ELSE IF v = c.b THEN {Least(c.f, SlopeBelow(c, x))}
    ELSE IF v = c.f THEN {Least(c.b, c.k * x)}
    ELSE IF v = c.activeAux /\ x > 0 THEN {Most(c.inactiveAux, 0)}
    ELSE IF v = c.inactiveAux /\ x > 0 THEN {Most(c.activeAux, 0)}
    ELSE {}

\* The tightenings of notifyUpperBound, told that v is at most x
UpperReaction(c, v, x) ==
    IF v \in {c.f, c.b} /\ x >= 0 THEN {Most(Partner(c, v), x)}
    ELSE IF v = c.b THEN {Most(c.f, SlopeAbove(c, x))}
    ELSE IF v = c.f THEN {Most(c.b, c.k * x)}
    ELSE {}

\* notifyLowerBound and notifyUpperBound, told that the bound at k is x: the
\* state after, and what is tightened before it
Notified(c, s, k, x) == [s EXCEPT !.phase = PhaseAfter(c, s, k, x)]
Reaction(c, s, k, x) ==
    IF Fixed(c, s) \/ ~s.active THEN {}
    ELSE IF k[2] = "LB" THEN LowerReaction(c, k[1], x)
    ELSE UpperReaction(c, k[1], x)

\* The bounds getEntailedTightenings reports
EntailedActive(c, box) ==
    {t \in {Least(c.b, box[<<c.f, "LB">>]), Least(c.f, box[<<c.b, "LB">>])} : t.value > 0}
    \cup {Most(c.b, box[<<c.f, "UB">>]), Most(c.f, box[<<c.b, "UB">>]),
          Least(c.activeAux, 0), Most(c.activeAux, 0), Least(c.b, 0), Least(c.f, 0)}
EntailedLower(c, box) ==
    {Least(c.b, c.k * box[<<c.f, "LB">>]), Least(c.f, SlopeBelow(c, box[<<c.b, "LB">>]))}
EntailedInactive(c, box) ==
    {t \in {Most(c.b, c.k * box[<<c.f, "UB">>]), Most(c.f, SlopeAbove(c, box[<<c.b, "UB">>]))} :
        t.value <= 0}
    \cup EntailedLower(c, box)
    \cup {Least(c.inactiveAux, 0), Most(c.inactiveAux, 0), Most(c.b, 0), Most(c.f, 0)}
EntailedUnknown(c, box) ==
    {Most(c.b, box[<<c.f, "UB">>]), Most(c.f, box[<<c.b, "UB">>])} \cup EntailedLower(c, box)
Entailed(c, s, box) ==
    IF \/ box[<<c.b, "LB">>] > 0
       \/ box[<<c.f, "LB">>] > 0
       \/ box[<<c.activeAux, "UB">>] = 0
       \/ box[<<c.inactiveAux, "LB">>] > 0
    THEN EntailedActive(c, box)
    ELSE IF \/ box[<<c.b, "UB">>] <= 0
            \/ box[<<c.f, "UB">>] <= 0
            \/ box[<<c.inactiveAux, "UB">>] = 0
            \/ box[<<c.activeAux, "LB">>] > 0
    THEN EntailedInactive(c, box)
    ELSE EntailedUnknown(c, box)

\* For the local search: the phases, the phase of a point, and the cost term of a
\* phase at a point at which inactiveAux is an integer, so that k divides b
Cases(c) == {Inactive, Active}
PhaseAt(c, p) == IF p[c.b] < 0 THEN Inactive ELSE Active
Cost(c, phase, p) == p[c.f] - IF phase = Inactive THEN SlopeBelow(c, p[c.b]) ELSE p[c.b]
=============================================================================
