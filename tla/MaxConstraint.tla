--------------------------- MODULE MaxConstraint ---------------------------
(***************************************************************************)
(* f is the largest of its elements and of the values the preprocessor     *)
(* eliminated.  A constraint is a record with the fields f, elements (a    *)
(* set of variables), aux (the auxiliary variable f - e >= 0 of each       *)
(* element e) and maxValueOfEliminated, which is below every bound when    *)
(* nothing was eliminated.  A case is the element that attains the         *)
(* maximum; the state keeps those not refuted yet.                         *)
(***************************************************************************)
EXTENDS Box

Variables(c) == {c.f} \cup c.elements \cup {c.aux[e] : e \in c.elements}

\* After the constraint was told the bounds of a preprocessed box
Initial(c, box) ==
    [active |-> TRUE, elements |-> c.elements,
     maxLowerBound |-> box[<<c.f, "LB">>],
     haveEliminated |-> box[<<c.f, "LB">>] <= c.maxValueOfEliminated]
States(c) == [active : BOOLEAN, elements : SUBSET c.elements,
              maxLowerBound : Int, haveEliminated : BOOLEAN]

\* What the constraint demands of a point, and the equations that come with it
Holds(c, p) ==
    /\ \A e \in c.elements : p[c.f] >= p[e]
    /\ p[c.f] >= c.maxValueOfEliminated
    /\ p[c.f] = c.maxValueOfEliminated \/ \E e \in c.elements : p[c.f] = p[e]
Linear(c, p) == \A e \in c.elements : p[c.aux[e]] = p[c.f] - p[e]

ElementSplit(c, e) == {Most(c.aux[e], 0)}
EliminatedSplit(c) ==
    {Least(c.f, c.maxValueOfEliminated), Most(c.f, c.maxValueOfEliminated)}
CaseSplits(c, s) ==
    {ElementSplit(c, e) : e \in s.elements}
    \cup (IF s.haveEliminated THEN {EliminatedSplit(c)} ELSE {})

Fixed(c, s) ==
    \/ ~s.haveEliminated /\ \E e \in s.elements : s.elements = {e}
    \/ s.haveEliminated /\ s.elements = {}
ImpliedSplit(c, s) ==
    IF s.haveEliminated THEN EliminatedSplit(c)
    ELSE ElementSplit(c, CHOOSE e \in s.elements : TRUE)

\* f or element v is at least x, which is more than was known of the maximum
Raised(c, s, box, v, x) ==
    [s EXCEPT !.maxLowerBound = x,
              !.elements = {e \in s.elements : e = v \/ box[<<e, "UB">>] >= x},
              !.haveEliminated = x <= c.maxValueOfEliminated]

\* The cases notifyLowerBound refutes, told that v is at least x
AfterLower(c, s, box, v, x) ==
    LET owners == {e \in s.elements : c.aux[e] = v}
    IN  IF owners # {} /\ x > 0
        THEN [s EXCEPT !.elements = @ \ owners]
        ELSE IF v \in {c.f} \cup s.elements /\ x > s.maxLowerBound
        THEN Raised(c, s, box, v, x)
        ELSE s

\* The cases notifyUpperBound refutes, told that v is at most x
AfterUpper(c, s, v, x) ==
    LET owners == {e \in s.elements : c.aux[e] = v}
    IN  IF owners # {}
        THEN IF x = 0 THEN [s EXCEPT !.elements = owners, !.haveEliminated = FALSE]
             ELSE s
        ELSE IF v \in s.elements /\ x < s.maxLowerBound
        THEN [s EXCEPT !.elements = @ \ {v}]
        ELSE s

\* The largest bound of the remaining elements, as a set with one member
LargestOf(c, s, box, type) ==
    LET bounds == {box[<<e, type>>] : e \in s.elements} \cup {c.maxValueOfEliminated}
    IN  {x \in bounds : \A y \in bounds : x >= y}

\* The bounds getEntailedTightenings reports
Entailed(c, s, box) ==
    LET fUB == box[<<c.f, "UB">>]
    IN  {Most(c.f, x) : x \in {y \in LargestOf(c, s, box, "UB") : fUB > y}}
        \cup {Most(e, fUB) : e \in {d \in s.elements : box[<<d, "UB">>] > fUB}}
        \cup {Least(c.f, x) :
                x \in {y \in LargestOf(c, s, box, "LB") : box[<<c.f, "LB">>] < y}}

\* notifyLowerBound and notifyUpperBound, told that the bound at k is x: the
\* state after, and what is tightened
Notified(c, s, box, k, x) ==
    IF k[2] = "LB" THEN AfterLower(c, s, box, k[1], x) ELSE AfterUpper(c, s, k[1], x)
Reaction(c, s, box, k, x) ==
    IF s.active THEN Entailed(c, Notified(c, s, box, k, x), box) ELSE {}

\* For the local search: the phases (that of element e is {e}, that of the values
\* eliminated is {}), the phase of a point, and the cost term of a phase at a point
Cases(c, s) == {{e} : e \in s.elements} \cup (IF s.haveEliminated THEN {{}} ELSE {})
Largest(c, s, p) == CHOOSE e \in s.elements : \A d \in s.elements : p[d] < p[e] \/ (p[d] = p[e] /\ e <= d)
PhaseAt(c, s, p) ==
    IF s.haveEliminated /\ p[Largest(c, s, p)] < c.maxValueOfEliminated
    THEN {}
    ELSE {Largest(c, s, p)}
Cost(c, phase, p) ==
    IF phase = {} THEN p[c.f] - c.maxValueOfEliminated ELSE p[c.aux[CHOOSE e \in phase : TRUE]]
=============================================================================
