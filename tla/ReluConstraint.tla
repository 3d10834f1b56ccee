--------------------------- MODULE ReluConstraint ---------------------------
(***************************************************************************)
(* f = max(b, 0), with the auxiliary variable aux = f - b >= 0 the         *)
(* preprocessor adds.  A constraint is a record with the fields b, f, aux; *)
(* its state tells whether it is active, and its phase.                    *)
(***************************************************************************)
EXTENDS Box

NotFixed == "PHASE_NOT_FIXED"
Active == "RELU_PHASE_ACTIVE"
Inactive == "RELU_PHASE_INACTIVE"

Variables(c) == {c.b, c.f, c.aux}
Initial(c, box) == [active |-> TRUE, phase |-> NotFixed]
States(c) == [active : BOOLEAN, phase : {NotFixed, Active, Inactive}]

\* What the constraint demands of a point, and the equation that comes with it
Holds(c, p) ==
    /\ p[c.f] >= 0
    /\ p[c.f] > 0 => p[c.b] = p[c.f]
    /\ p[c.f] = 0 => p[c.b] <= 0
Linear(c, p) == p[c.aux] = p[c.f] - p[c.b]

InactiveSplit(c) == {Most(c.b, 0), Most(c.f, 0)}

\* Mutant of ActiveSplit: aux is left free
ActiveSplitBoundOnly(c) == {Least(c.b, 0)}

ActiveSplit(c) == {Least(c.b, 0), Most(c.aux, 0)}
CaseSplits(c) == {InactiveSplit(c), ActiveSplit(c)}

Fixed(c, s) == s.phase # NotFixed
ImpliedSplit(c, s) == IF s.phase = Active THEN ActiveSplit(c) ELSE InactiveSplit(c)

\* Mutant of PhaseAfter: aux = 0 is taken for the inactive phase
PhaseAfterSwapped(c, k, x) ==
    IF k \in {<<c.f, "LB">>, <<c.b, "LB">>} /\ x > 0 THEN Active
    ELSE IF k = <<c.aux, "UB">> /\ x = 0 THEN Inactive
    ELSE NotFixed

\* checkIfLowerBoundUpdateFixesPhase and checkIfUpperBoundUpdateFixesPhase
PhaseAfter(c, k, x) ==
    IF \/ k = <<c.f, "LB">> /\ x > 0
       \/ k = <<c.b, "LB">> /\ x >= 0
       \/ k = <<c.aux, "UB">> /\ x = 0
    THEN Active
    ELSE IF \/ k = <<c.aux, "LB">> /\ x > 0
            \/ k = <<c.f, "UB">> /\ x <= 0
            \/ k = <<c.b, "UB">> /\ x <= 0
    THEN Inactive
    ELSE NotFixed

Partner(c, v) == IF v = c.f THEN c.b ELSE c.f

\* The tightenings of notifyLowerBound, told that v is at least x
LowerReaction(c, v, x) ==
    IF v \in {c.f, c.b} /\ x > 0 THEN {Most(c.aux, 0), Least(Partner(c, v), x)}
    ELSE IF v = c.b /\ x = 0 THEN {Most(c.aux, 0)}
    ELSE IF v = c.aux /\ x > 0 THEN {Most(c.f, 0), Most(c.b, -x)}
    ELSE IF v = c.b THEN {Most(c.aux, -x)}
    ELSE IF v = c.f /\ x < 0 THEN {Least(c.f, 0)}
    ELSE {}

\* Mutant of UpperReaction: b is taken to be at least the bound of aux
UpperReactionUnsigned(c, v, x) ==
    IF v = c.f THEN {Most(c.b, x)}
    ELSE IF v = c.b /\ x <= 0 THEN {Most(c.f, 0), Least(c.aux, -x)}
    ELSE IF v = c.b THEN {Most(c.f, x)}
    ELSE IF v = c.aux THEN {Least(c.b, x)}
    ELSE {}

\* The tightenings of notifyUpperBound, told that v is at most x
UpperReaction(c, v, x) ==
    IF v = c.f THEN {Most(c.b, x)}
    ELSE IF v = c.b /\ x <= 0 THEN {Most(c.f, 0), Least(c.aux, -x)}
    ELSE IF v = c.b THEN {Most(c.f, x)}
    ELSE IF v = c.aux THEN {Least(c.b, -x)}
    ELSE {}

\* notifyLowerBound and notifyUpperBound: the state after, and what is tightened.
\* They look the bound up and ignore the value they are told.
Notified(c, s, box, k) ==
    IF Fixed(c, s) THEN s ELSE [s EXCEPT !.phase = PhaseAfter(c, k, box[k])]
Reaction(c, s, box, k) ==
    IF Fixed(c, s) \/ ~s.active THEN {}
    ELSE IF k[2] = "LB" THEN LowerReaction(c, k[1], box[k])
    ELSE UpperReaction(c, k[1], box[k])

\* The bounds getEntailedTightenings reports
EntailedActive(c, box) ==
    {Least(c.b, box[<<c.f, "LB">>]), Least(c.f, box[<<c.b, "LB">>]),
     Most(c.b, box[<<c.f, "UB">>]), Most(c.f, box[<<c.b, "UB">>]),
     Least(c.aux, 0), Most(c.aux, 0), Least(c.b, 0), Least(c.f, 0)}
EntailedInactive(c, box) ==
    {Least(c.f, 0), Most(c.f, 0), Most(c.b, 0), Least(c.aux, 0),
     Most(c.aux, -box[<<c.b, "LB">>]), Least(c.aux, -box[<<c.b, "UB">>]),
     Most(c.b, -box[<<c.aux, "LB">>]), Least(c.b, -box[<<c.aux, "UB">>])}
EntailedUnknown(c, box) ==
    {Most(c.b, box[<<c.f, "UB">>]), Most(c.f, box[<<c.b, "UB">>]),
     Least(c.b, -box[<<c.aux, "UB">>]), Most(c.aux, -box[<<c.b, "LB">>]),
     Least(c.f, 0), Least(c.aux, 0)}
Entailed(c, s, box) ==
    IF \/ box[<<c.b, "LB">>] >= 0
       \/ box[<<c.f, "LB">>] > 0
       \/ box[<<c.aux, "UB">>] = 0
    THEN EntailedActive(c, box)
    ELSE IF \/ box[<<c.b, "UB">>] < 0
            \/ box[<<c.f, "UB">>] = 0
            \/ box[<<c.aux, "LB">>] > 0
    THEN EntailedInactive(c, box)
    ELSE EntailedUnknown(c, box)

\* For the local search: the phases, the phase of a point, and the cost term of a
\* phase at a point, zero iff the phase's equation holds, if aux >= 0 holds
Cases(c) == {Inactive, Active}
PhaseAt(c, p) == IF p[c.b] < 0 THEN Inactive ELSE Active
Cost(c, phase, p) == IF phase = Inactive THEN p[c.f] ELSE p[c.f] - p[c.b]
=============================================================================
