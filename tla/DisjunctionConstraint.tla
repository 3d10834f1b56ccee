----------------------- MODULE DisjunctionConstraint -----------------------
(***************************************************************************)
(* One of several sets of bounds holds.  A constraint is a record with the *)
(* field disjuncts, a set of case splits; the state keeps those the box    *)
(* does not refute.  When none is left the constraint throws               *)
(* InfeasibleQueryException.                                               *)
(***************************************************************************)
EXTENDS Box

Variables(c) == {t.key[1] : t \in UNION c.disjuncts}
Initial(c, box) == [active |-> TRUE, feasible |-> c.disjuncts]
States(c) == [active : BOOLEAN, feasible : SUBSET c.disjuncts]

Holds(c, p) == \E d \in c.disjuncts : Meets(p, d)

CaseSplits(c) == c.disjuncts
Fixed(c, s) == \E d \in s.feasible : s.feasible = {d}
ImpliedSplit(c, s) == CHOOSE d \in s.feasible : TRUE

\* caseSplitIsFeasible
CaseSplitIsFeasible(box, d) ==
    \A t \in d : IF t.key[2] = "LB" THEN box[<<t.key[1], "UB">>] >= t.value
                 ELSE box[<<t.key[1], "LB">>] <= t.value

\* notifyLowerBound and notifyUpperBound: updateFeasibleDisjuncts, no tightening
Notified(c, s, box) ==
    [s EXCEPT !.feasible = {d \in c.disjuncts : CaseSplitIsFeasible(box, d)}]
Throws(c, s, box) == Notified(c, s, box).feasible = {}

\* getEntailedTightenings: what every disjunct asks of a variable, at its loosest
Entailed(c, s, box) ==
    {t \in UNION c.disjuncts :
        /\ \A d \in c.disjuncts : \E u \in d : u.key = t.key
        /\ \A u \in UNION c.disjuncts : u.key = t.key => ~Tighter(t.key, t.value, u.value)}
=============================================================================
