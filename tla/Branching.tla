------------------------------ MODULE Branching ------------------------------
(****************************************************************************)
(* What to split on: the constraint or the input a branching heuristic      *)
(* picks, the scores it goes by, and the parts the query dividers of DnC    *)
(* make, with what dividing leaves behind in the constraints.               *)
(*   A constraint is a relu or a sign (kind) with the bounds lb, ub it knows *)
(* of its input b, its phase, and active.  A box is a function from         *)
(* variables to [lb, ub]; variable i of a divider's engine is the input of  *)
(* constraint i, a relu.  A split is a sequence of tightenings              *)
(* [var, side, value].                                                      *)
(****************************************************************************)
EXTENDS Integers, Sequences, SequencesExt, FiniteSets, Rationals

NotFixed == "not fixed"
-----------------------------------------------------------------------------
(* Polarity: how far zero is from the middle of the bounds of b *)

Polarity(c) ==
    IF c.lb >= 0 THEN One
    ELSE IF c.ub < 0 \/ (c.ub = 0 /\ c.kind = "relu") THEN Neg(One)
    ELSE Frac(c.ub + c.lb, c.ub - c.lb)

\* The phase that is tried first
Direction(c) ==
    CASE c.kind = "relu" -> IF Zero \prec Polarity(c) THEN "active" ELSE "inactive"
      [] c.kind = "sign" -> IF Polarity(c) \prec Zero THEN "negative" ELSE "positive"

PolarityScore(c) == AbsRat(Polarity(c))

\* At the values b, f the tableau has of its variables
BaBsrScore(c, at, bias) ==
    LET scaler == Frac(c.ub, c.ub - c.lb)
        term1 == Smaller(scaler ** Rat(at.b * bias), (scaler -- One) ** Rat(at.b * bias))
    IN AbsRat(term1 -- (scaler ** Rat(c.lb * at.f)))

\* Active constraints that are not fixed, in topological order
Open(cs) == SelectSeq([k \in DOMAIN cs |-> k], LAMBDA k : cs[k].active /\ cs[k].phase = NotFixed)
OpenRelus(cs) == SelectSeq(Open(cs), LAMBDA k : cs[k].kind = "relu")

\* scoreToConstraint: an equal score replaces the constraint, and nobody looks
\* further once there are threshold scores
ScoreMap(order, score, threshold) ==
    FoldLeft(LAMBDA map, k :
                IF Cardinality({e.score : e \in map}) >= threshold THEN map
                ELSE {e \in map : e.score # score[k]} \cup {[score |-> score[k], picked |-> k]},
             {}, order)

\* The first entry of the map: the smallest score; none: NULL
FirstOf(map) ==
    IF map = {} THEN 0
    ELSE (CHOOSE e \in map : \A other \in map : e.score \preceq other.score).picked

PickByPolarity(cs, threshold) ==
    FirstOf(ScoreMap(Open(cs), [k \in DOMAIN cs |-> PolarityScore(cs[k])], threshold))

\* The raw scores, brought to the interval from 0 to 1
Normalized(raw) ==
    LET all == {raw[k] : k \in DOMAIN raw}
        range == LargestOf(all) -- SmallestOf(all)
    IN [k \in DOMAIN raw |-> IF Zero \prec range THEN (raw[k] -- SmallestOf(all)) // range ELSE Zero]

PickByBaBsr(cs, values, bias, threshold) ==
    LET relus == OpenRelus(cs)
        raw == [k \in ToSet(relus) |-> BaBsrScore(cs[k], values[k], bias[k])]
    IN IF relus = <<>> THEN 0 ELSE FirstOf(ScoreMap(relus, Normalized(raw), threshold))

PickByTopology(cs) == IF Open(cs) = <<>> THEN 0 ELSE Head(Open(cs))

Width(box, v) == box[v].ub -- box[v].lb
Middle(box, v) == (box[v].lb ++ box[v].ub) // Rat(2)

\* The first variable, of those above the width least, with the largest interval
Widest(box, order, least) ==
    FoldLeft(LAMBDA best, v : IF best.width \prec Width(box, v)
                              THEN [var |-> v, width |-> Width(box, v)] ELSE best,
             [var |-> 0, width |-> least], order)

\* The two cases of the disjunction on the widest input, if any is open
PickByIntervalWidth(box, inputs) ==
    LET best == Widest(box, inputs, Zero)
        mid == Middle(box, best.var)
    IN IF best.var = 0 THEN <<>>
       ELSE <<[var |-> best.var, side |-> "ub", value |-> mid],
              [var |-> best.var, side |-> "lb", value |-> mid]>>
-----------------------------------------------------------------------------
(* Scores that follow the search: PLConstraintScoreTracker, PseudoImpactTracker.  A     *)
(* tracker has the ordered set of entries and the score of every constraint            *)

InitialTracker(n) ==
    [entries |-> {[of |-> k, score |-> Zero] : k \in 1 .. n}, score |-> [k \in 1 .. n |-> Zero]]

SetScore(t, k, new) ==
    [entries |-> (t.entries \ {[of |-> k, score |-> t.score[k]]}) \cup {[of |-> k, score |-> new]},
     score |-> [t.score EXCEPT ![k] = new]]

\* The exponential moving average, alpha = 1/2
UpdateScore(t, k, impact) == SetScore(t, k, (Half ** t.score[k]) ++ (Half ** impact))

\* What a proposal is worth to the constraints it changed
UpdatePseudoImpact(t, updated, accepted, proposed) ==
    LET impact == AbsRat(accepted -- proposed) // Rat(Cardinality(updated))
    IN FoldLeft(LAMBDA u, k : UpdateScore(u, k, impact), t, SetToSeq(updated))

\* bumpUpPseudoImpactOfPLConstraintsNotInSoI
BumpUp(t, others) == FoldLeft(LAMBDA u, k : UpdateScore(u, k, Rat(5)), t, SetToSeq(others))

\* The order of the set: larger scores first, of equal ones the later constraint
Before(e, f) == f.score \prec e.score \/ (e.score = f.score /\ e.of > f.of)

TopUnfixed(t, cs) ==
    LET open == {e \in t.entries : cs[e.of].active /\ cs[e.of].phase = NotFixed}
    IN IF open = {} THEN 0 ELSE (CHOOSE e \in open : \A f \in open \ {e} : Before(e, f)).of
-----------------------------------------------------------------------------
(* Dividing a query: LargestIntervalDivider and PolarityBasedDivider.  An engine has its *)
(* box and its constraints, which know nothing of the context                            *)

ApplySplit(box, split) ==
    FoldLeft(LAMBDA b, t :
                [b EXCEPT ![t.var] = IF t.side = "lb" THEN [@ EXCEPT !.lb = Larger(@, t.value)]
                                     ELSE [@ EXCEPT !.ub = Smaller(@, t.value)]],
             box, split)

\* notifyLowerBound, notifyUpperBound without a bound manager: a bound that is not tighter
\* than the constraint's own is not looked at
Notified(c, range) ==
    LET low == IF Rat(c.lb) \prec range.lb
               THEN [c EXCEPT !.lb = range.lb[1],
                              !.phase = IF range.lb[1] >= 0 THEN "active" ELSE c.phase] ELSE c
    IN IF range.ub \prec Rat(low.ub)
       THEN [low EXCEPT !.ub = range.ub[1],
                        !.phase = IF range.ub[1] <= 0 THEN "inactive" ELSE low.phase] ELSE low

\* applySnCSplit on an engine that has not solved yet: the bounds, then the constraints
ApplySnCSplit(e, split) ==
    LET box == ApplySplit(e.box, split)
    IN [box |-> box, cs |-> [k \in DOMAIN e.cs |-> Notified(e.cs[k], box[k])]]

\* The context is popped: the bounds are back, the constraints stay as they are
AfterPop(e, inner) == [box |-> e.box, cs |-> inner.cs]

\* getCaseSplits of a relu that has no direction yet; only the tightenings are kept
CaseSplits(k) ==
    <<<<[var |-> k, side |-> "ub", value |-> Zero]>>, <<[var |-> k, side |-> "lb", value |-> Zero]>>>>

\* One constraint of one part is split, if there is a candidate.  d is the engine and the
\* parts made so far
DividePart(d, split, threshold) ==
    LET inner == ApplySnCSplit(d.engine, split)
        k == PickByPolarity(inner.cs, threshold)
        made == IF k = 0 THEN <<split>>
                ELSE [n \in 1 .. 2 |-> split \o CaseSplits(k)[n]]
    IN [engine |-> AfterPop(d.engine, inner), parts |-> d.parts \o made]

RECURSIVE DivideByPolarity(_, _, _)
DivideByPolarity(d, bisects, threshold) ==
    IF bisects = 0 THEN d
    ELSE DivideByPolarity(FoldLeft(LAMBDA e, split : DividePart(e, split, threshold),
                                   [engine |-> d.engine, parts |-> <<>>], d.parts),
                          bisects - 1, threshold)

\* bisectInputRegion
Bisect(box, v) ==
    LET mid == Middle(box, v) IN <<[box EXCEPT ![v].ub = mid], [box EXCEPT ![v].lb = mid]>>

\* The regions of LargestIntervalDivider
RECURSIVE DivideByInterval(_, _, _)
DivideByInterval(regions, inputs, bisects) ==
    IF bisects = 0 THEN regions
    ELSE DivideByInterval(
            FlattenSeq([n \in DOMAIN regions |->
                            Bisect(regions[n], Widest(regions[n], inputs, Rat(-1)).var)]),
            inputs, bisects - 1)

\* What a worker searches of a part: its engine starts from the constraints as the division
\* left them (_initialState), applies the part, and then what their phases imply
Searched(e, split) ==
    LET start == ApplySnCSplit(e, split)
    IN [k \in DOMAIN start.cs |->
            CASE start.cs[k].phase = "active" -> [start.box[k] EXCEPT !.lb = Larger(@, Zero)]
              [] start.cs[k].phase = "inactive" -> [start.box[k] EXCEPT !.ub = Smaller(@, Zero)]
              [] OTHER -> start.box[k]]
==============================================================================
