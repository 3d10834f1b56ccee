---------------------- MODULE AbsoluteValueConstraint ----------------------
(***************************************************************************)
(* f = |b|, with the auxiliary variables posAux = f - b >= 0 and           *)
(* negAux = f + b >= 0 the preprocessor adds.  A constraint is a record    *)
(* with the fields b, f, posAux, negAux.                                   *)
(***************************************************************************)
EXTENDS Box

NotFixed == "PHASE_NOT_FIXED"
Positive == "ABS_PHASE_POSITIVE"
Negative == "ABS_PHASE_NEGATIVE"

Variables(c) == {c.b, c.f, c.posAux, c.negAux}
Initial(c, box) == [active |-> TRUE, phase |-> NotFixed]
States(c) == [active : BOOLEAN, phase : {NotFixed, Positive, Negative}]

Larger(x, y) == IF x >= y THEN x ELSE y

\* What the constraint demands of a point, and the equations that come with it
Holds(c, p) == p[c.f] >= 0 /\ (p[c.f] = p[c.b] \/ p[c.f] = -p[c.b])
Linear(c, p) == p[c.posAux] = p[c.f] - p[c.b] /\ p[c.negAux] = p[c.f] + p[c.b]

NegativeSplit(c) == {Most(c.b, 0), Most(c.negAux, 0)}
PositiveSplit(c) == {Least(c.b, 0), Most(c.posAux, 0)}
CaseSplits(c) == {NegativeSplit(c), PositiveSplit(c)}

Fixed(c, s) == s.phase # NotFixed
ImpliedSplit(c, s) == IF s.phase = Positive THEN PositiveSplit(c) ELSE NegativeSplit(c)

\* The phase fixPhaseIfNeeded gives an open constraint: its eight options
PhaseOf(c, box) ==
    LET bLB == box[<<c.b, "LB">>]
        bUB == box[<<c.b, "UB">>]
        fLB == box[<<c.f, "LB">>]
    IN  IF bLB >= 0 THEN Positive
        ELSE IF bUB <= 0 \/ fLB > bUB THEN Negative
        ELSE IF fLB > -bLB \/ box[<<c.posAux, "UB">>] = 0 THEN Positive
        ELSE IF box[<<c.posAux, "LB">>] > 0 \/ box[<<c.negAux, "UB">>] = 0 THEN Negative
        ELSE IF box[<<c.negAux, "LB">>] > 0 THEN Positive
        ELSE NotFixed

\* The tightenings of notifyLowerBound, told that v is at least x
LowerReaction(c, box, v, x) ==
    IF v = c.b /\ x < 0
    THEN LET fUB == Larger(-x, box[<<c.b, "UB">>])
         IN {Most(c.f, fUB), Most(c.posAux, fUB - x)}
    ELSE IF v = c.f /\ x < 0 THEN {Least(c.f, 0)}
    ELSE {}

\* The tightenings of notifyUpperBound, told that v is at most x; told of f,
\* it reads the bounds of b after it has tightened them
UpperReaction(c, box, v, x) ==
    IF v = c.b
    THEN IF x <= 0 THEN {}
         ELSE LET fUB == Larger(x, -box[<<c.b, "LB">>])
              IN {Most(c.f, fUB), Most(c.negAux, fUB + x)}
    ELSE IF v = c.f
    THEN LET cut == Tightened(box, {Most(c.b, x), Least(c.b, -x)})
         IN {Most(c.b, x), Least(c.b, -x),
             Most(c.posAux, x - cut[<<c.b, "LB">>]),
             Most(c.negAux, x + cut[<<c.b, "UB">>])}
    ELSE IF v = c.posAux
    THEN {Most(c.f, box[<<c.b, "UB">>] + x), Least(c.b, box[<<c.f, "LB">>] - x)}
    ELSE IF v = c.negAux
    THEN {Most(c.f, x - box[<<c.b, "LB">>]), Most(c.b, x - box[<<c.f, "LB">>])}
    ELSE {}

\* notifyLowerBound and notifyUpperBound, told that the bound at k is x: the
\* state after, and what is tightened
Notified(c, s, box) ==
    IF Fixed(c, s) THEN s ELSE [s EXCEPT !.phase = PhaseOf(c, box)]
Reaction(c, s, box, k, x) ==
    IF ~s.active THEN {}
    ELSE IF k[2] = "LB" THEN LowerReaction(c, box, k[1], x)
    ELSE UpperReaction(c, box, k[1], x)

\* The bounds getEntailedTightenings reports, once f is known not negative
EntailedPositive(c, box, fLB) ==
    {Least(c.f, box[<<c.b, "LB">>]), Least(c.b, fLB),
     Most(c.f, box[<<c.b, "UB">>]), Most(c.b, box[<<c.f, "UB">>]), Most(c.posAux, 0)}
EntailedNegative(c, box, fLB) ==
    {Least(c.f, -box[<<c.b, "UB">>]), Least(c.b, -box[<<c.f, "UB">>]),
     Most(c.f, -box[<<c.b, "LB">>]), Most(c.b, -fLB), Most(c.negAux, 0)}
EntailedOpen(c, box, fLB) ==
    LET bLB == box[<<c.b, "LB">>]
        bUB == box[<<c.b, "UB">>]
        fUB == box[<<c.f, "UB">>]
    IN  {Least(c.b, -fUB), Most(c.b, fUB), Most(c.f, Larger(-bLB, bUB)),
         Most(c.posAux, fUB - bLB), Most(c.negAux, fUB + bUB)}
        \cup (IF fLB > 0 /\ fLB > -bLB THEN {Least(c.b, fLB), Most(c.posAux, 0)} ELSE {})
        \cup (IF fLB > 0 /\ fLB > bUB THEN {Most(c.b, -fLB), Most(c.negAux, 0)} ELSE {})
Entailed(c, s, box) ==
    LET fLB == Larger(box[<<c.f, "LB">>], 0)
    IN  {Least(c.f, 0), Least(c.posAux, 0), Least(c.negAux, 0)}
        \cup (IF box[<<c.b, "LB">>] >= 0 THEN EntailedPositive(c, box, fLB)
              ELSE IF box[<<c.b, "UB">>] <= 0 THEN EntailedNegative(c, box, fLB)
              ELSE EntailedOpen(c, box, fLB))

\* For the local search: the phases, the phase of a point, and the cost term of a
\* phase at a point
Cases(c) == {Negative, Positive}
PhaseAt(c, p) == IF p[c.b] < 0 THEN Negative ELSE Positive
Cost(c, phase, p) == IF phase = Negative THEN p[c.f] + p[c.b] ELSE p[c.f] - p[c.b]
=============================================================================
