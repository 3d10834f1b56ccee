--------------------------- MODULE UnsatCertificate ---------------------------
(****************************************************************************)
(* Proofs of unsatisfiability (proofs/, and the part of engine/Engine,      *)
(* BoundManager, SmtCore and ReluConstraint that produces them).            *)
(*                                                                          *)
(* A query q has variables 1..q.n, of which the last are the auxiliary ones *)
(* of the rows (equations "sum = 0", q.rows[r][v] the coefficient, -1 for   *)
(* the row's own variable), bounds q.box[<<v, "LB" or "UB">>] and           *)
(* constraints q.cons: records [type, vars] with the variables in the order *)
(* of getParticipatingVariables, slope for a leaky ReLU; a max constraint   *)
(* has f, elements, aux (of each element), eliminated and maxOfEliminated;  *)
(* a disjunction has disjuncts.                                             *)
(*                                                                          *)
(* The explanation of a bound is a vector with a coefficient for each row,  *)
(* the zero vector for a ground bound: one that the query, a split or a     *)
(* lemma gives.  A tightening is <<variable, side, value>>, a split a       *)
(* sequence of tightenings.  Numbers are exact; the tolerances of           *)
(* FloatUtils are zero, those of the checker's lemmas are Epsilon.          *)
(****************************************************************************)
EXTENDS Rationals, Integers, Sequences, FiniteSets, SequencesExt

Sides == {"LB", "UB"}
Other(side) == IF side = "LB" THEN "UB" ELSE "LB"
Tighter(side, x, y) == IF side = "UB" THEN x \prec y ELSE y \prec x

SlackOf(q, r) == q.n - Len(q.rows) + r
Trivial(q) == [r \in DOMAIN q.rows |-> Zero]

\* The bound of a variable that a coefficient reads on the way to a bound.
Toward(side, coefficient) == IF (Zero \prec coefficient) = (side = "UB") THEN "UB" ELSE "LB"
Extreme(row, side, box) == RatSum([v \in DOMAIN row |-> row[v] ** box[<<v, Toward(side, row[v])>>]])

RowCombination(q, explanation) ==
  [v \in 1..q.n |-> RatSum([r \in DOMAIN q.rows |-> explanation[r] ** q.rows[r][v]])]

\* computeBound: the bound of v that its explanation yields from ground bounds.
ComputeBound(q, v, side, explanation, ground) ==
  IF explanation = Trivial(q) THEN ground[<<v, side>>]
    ELSE Extreme([RowCombination(q, explanation) EXCEPT ![v] = @ ++ One], side, ground)

\* computeCombinationUpperBound: of a sum of rows, which is 0 in every solution.
CombinationUpperBound(q, explanation, ground) == Extreme(RowCombination(q, explanation), "UB", ground)

----------------------------------------------------------------------------
(* The engine's side: s.bound, s.ground and s.expl by <<variable, side>>;   *)
(* s.phase of every constraint; the lemmas of the node; the bounds not yet  *)
(* announced to the constraints; the first variable whose bounds crossed.   *)

\* The row solved for v: the coefficients of the other variables.
Solved(row, v) == [u \in DOMAIN row |-> IF u = v THEN Zero ELSE Neg(row[u] // row[v])]

\* Mutant: the explanations of the bounds used are forgotten.
UpdatedFlat(q, s, row, v, side) ==
  [r \in DOMAIN q.rows |-> row[SlackOf(q, r)] // row[v]]

\* updateBoundExplanation, updateBoundExplanationSparse: the explanations of the bounds
\* used, by the coefficients, and those of the rows the row was made of.
UpdatedExplanation(q, s, row, v, side) ==
  [r \in DOMAIN q.rows |->
     (row[SlackOf(q, r)] // row[v])
       ++ RatSum([u \in DOMAIN row |-> LET c == Solved(row, v)[u] IN c ** s.expl[<<u, Toward(side, c)>>][r]])]

SetBound(s, v, side, x) ==
  [s EXCEPT !.bound[<<v, side>>] = x, !.pending = Append(@, <<v, side>>),
            !.inconsistent = IF @ = 0 /\ Tighter(side, x, s.bound[<<v, Other(side)>>]) THEN v ELSE @]

\* BoundManager::tightenLowerBound, tightenUpperBound with the row that yields the bound.
TightenTo(q, s, row, v, side, x) ==
  IF Tighter(side, x, s.bound[<<v, side>>])
    THEN [SetBound(s, v, side, x) EXCEPT !.expl[<<v, side>>] = UpdatedExplanation(q, s, row, v, side)]
    ELSE s
TightenByRow(q, s, row, v, side) == TightenTo(q, s, row, v, side, Extreme(Solved(row, v), side, s.bound))

\* updateGroundUpperBound, updateGroundLowerBound and resetExplanation.
Grounded(q, s, v, side, x) ==
  [s EXCEPT !.ground[<<v, side>>] = IF Tighter(side, x, @) THEN x ELSE @, !.expl[<<v, side>>] = Trivial(q)]

\* The explanations a lemma keeps: those of its causing bounds.
CausesExplained(s, l) ==
  CASE l.type = "max" -> [k \in DOMAIN l.causing |-> s.expl[<<l.causing[k], "UB">>]]
    [] l.type = "abs" /\ Len(l.causing) = 2 -> <<s.expl[<<l.causing[1], l.causingSide>>], s.expl[<<l.causing[2], "LB">>]>>
    [] OTHER -> <<s.expl[<<l.causing[1], l.causingSide>>]>>

\* addLemmaExplanationAndTightenBound
AddLemma(q, s, l) ==
  IF Tighter(l.side, l.bound, s.bound[<<l.affected, l.side>>])
    THEN Grounded(q, [SetBound(s, l.affected, l.side, l.bound) EXCEPT
                        !.lemmas = Append(@, [l EXCEPT !.expl = CausesExplained(s, l)])],
                  l.affected, l.side, l.bound)
    ELSE s

\* Engine::applySplit: the bounds of a split that are news are ground bounds.
ApplySplit(q, s, split) ==
  FoldLeft(LAMBDA t, b : IF Tighter(b[2], b[3], t.bound[<<b[1], b[2]>>])
                           THEN Grounded(q, SetBound(t, b[1], b[2], b[3]), b[1], b[2], b[3])
                           ELSE t,
           s, split)

\* checkIfLowerBoundUpdateFixesPhase, checkIfUpperBoundUpdateFixesPhase of a ReLU.
ReluPhase(con, v, side, x) ==
  LET b == con.vars[1]
      f == con.vars[2]
      aux == con.vars[3]
  IN  CASE side = "LB" /\ ((v = f /\ Zero \prec x) \/ (v = b /\ Zero \preceq x)) -> "active"
        [] side = "LB" /\ v = aux /\ Zero \prec x -> "inactive"
        [] side = "UB" /\ v \in {b, f} /\ x \preceq Zero -> "inactive"
        [] side = "UB" /\ v = aux /\ x = Zero -> "active"
        [] OTHER -> "none"

\* What notifyLowerBound and notifyUpperBound do of a ReLU whose phase was open, when
\* proofs are produced, phase being the one the bound leads to: lemmas, and bounds by
\* the row f = b + aux.
ReluEffects(con, phase, v, side, x) ==
  LET b == con.vars[1]
      f == con.vars[2]
      aux == con.vars[3]
      Lemma(w, t, y) == [by |-> "lemma", var |-> w, side |-> t, x |-> y]
      Row(w, t, y) == [by |-> "row", var |-> w, side |-> t, x |-> y]
      fail == [by |-> "fail", var |-> v, side |-> side, x |-> x]
  IN  CASE side = "LB" /\ v \in {f, b} /\ Zero \prec x -> <<Lemma(aux, "UB", Zero), Row(IF v = f THEN b ELSE f, "LB", x)>>
        [] side = "LB" /\ v = b /\ x = Zero -> <<Lemma(aux, "UB", Zero)>>
        [] side = "LB" /\ v = aux /\ Zero \prec x -> <<Lemma(f, "UB", Zero), Row(b, "UB", Neg(x))>>
        [] side = "LB" /\ v = b /\ x \prec Zero ->
             IF phase = "inactive" THEN <<Row(aux, "UB", Neg(x))>> ELSE <<Lemma(aux, "UB", Neg(x))>>
        [] side = "LB" /\ v = f /\ x \prec Zero -> <<Lemma(f, "LB", Zero)>>
        [] side = "UB" /\ v = f ->
             IF phase /= "inactive" THEN <<Row(b, "UB", x)>> ELSE IF x = Zero THEN <<Lemma(b, "UB", Zero)>> ELSE <<fail>>
        [] side = "UB" /\ v = b /\ x \preceq Zero -> <<Lemma(f, "UB", Zero), Row(aux, "LB", Neg(x))>>
        [] side = "UB" /\ v = b /\ Zero \prec x ->
             IF phase = "active" THEN <<Row(f, "UB", x)>> ELSE <<Lemma(f, "UB", x)>>
        [] side = "UB" /\ v = aux ->
             IF phase /= "active" THEN <<Row(b, "LB", Neg(x))>> ELSE IF x = Zero THEN <<Lemma(b, "LB", Zero)>> ELSE <<fail>>
        [] OTHER -> <<>>

\* createTighteningRow: 0 = -f + b + aux + the auxiliary variable of the ReLU's row.
TighteningRow(q, con) ==
  LET terms == <<con.vars[1], con.vars[3], SlackOf(q, con.row)>>
  IN  [v \in 1..q.n |-> IF v = con.vars[2] THEN Rat(-1) ELSE IF Contains(terms, v) THEN One ELSE Zero]

AfterEffect(q, s, con, v, side, e) ==
  CASE e.by = "fail" -> [s EXCEPT !.failed = TRUE]
    [] e.by = "row" -> TightenTo(q, s, TighteningRow(q, con), e.var, e.side, e.x)
    [] OTHER -> AddLemma(q, s, [type |-> con.type, causing |-> <<v>>, causingSide |-> side,
                                affected |-> e.var, side |-> e.side, bound |-> e.x, expl |-> <<>>])

\* notifyLowerBound, notifyUpperBound of constraint k: nothing once its phase is fixed; a
\* disabled constraint, whose case the search has split on, only notes its phase.
Notified(q, s, k, v, side) ==
  IF s.phase[k] /= "none" \/ ~Contains(q.cons[k].vars, v) THEN s
    ELSE LET x == s.bound[<<v, side>>]
             phase == ReluPhase(q.cons[k], v, side, x)
             effects == IF s.active[k] THEN ReluEffects(q.cons[k], phase, v, side, x) ELSE <<>>
         IN  FoldLeft(LAMBDA t, e : IF t.failed THEN t ELSE AfterEffect(q, t, q.cons[k], v, side, e),
                      [s EXCEPT !.phase[k] = phase], effects)

ReluSplit(con, phase) ==
  IF phase = "active" THEN <<<<con.vars[1], "LB", Zero>>, <<con.vars[3], "UB", Zero>>>>
                      ELSE <<<<con.vars[1], "UB", Zero>>, <<con.vars[2], "UB", Zero>>>>

\* BoundManager::propagateTightenings until nothing is announced any more, and the
\* implied splits of the constraints fixed on the way (applyAllValidConstraintCaseSplits).
RECURSIVE Propagated(_, _)
Propagated(q, s) ==
  IF s.failed THEN s
  ELSE IF s.pending /= <<>>
    THEN LET told == Head(s.pending)
         IN  Propagated(q, FoldLeft(LAMBDA t, k : IF t.failed THEN t ELSE Notified(q, t, k, told[1], told[2]),
                                    [s EXCEPT !.pending = Tail(@)], [k \in DOMAIN q.cons |-> k]))
  ELSE LET fixed == {k \in DOMAIN q.cons : s.active[k] /\ s.phase[k] /= "none"}
       IN  IF fixed = {} THEN s
             ELSE LET k == CHOOSE i \in fixed : \A j \in fixed : i <= j
                  IN  Propagated(q, ApplySplit(q, [s EXCEPT !.active[k] = FALSE], ReluSplit(q.cons[k], s.phase[k])))

----------------------------------------------------------------------------
(* Failure of a node: the contradiction and its place in the tree.          *)

Contradiction(q, s, v) == [r \in DOMAIN q.rows |-> s.expl[<<v, "UB">>][r] -- s.expl[<<v, "LB">>][r]]

\* certifyInfeasibility: the contradiction refutes the ground bounds.
Certified(q, s, v) ==
  IF Contradiction(q, s, v) = Trivial(q) THEN s.ground[<<v, "UB">>] \prec s.ground[<<v, "LB">>]
    ELSE CombinationUpperBound(q, Contradiction(q, s, v), s.ground) \prec Zero

\* explainFailureWithTableau, explainFailureWithCostFunction: a row of the tableau or the
\* row of the costs puts a variable beyond its other bound; its explanation is replaced
\* by the row's, and restored if that does not certify (explainAndCheckContradiction).
\* The rows, those of every basis and cost function, are combinations of the query's.
CertifiedByRow(q, s, rows) ==
  {f \in {[var |-> v, expl |-> [s.expl EXCEPT ![<<v, side>>] = UpdatedExplanation(q, s, row, v, side)]] :
            <<row, v, side>> \in {x \in rows \X (1..q.n) \X Sides :
              /\ x[1][x[2]] /= Zero
              /\ Tighter(x[3], Extreme(Solved(x[1], x[2]), x[3], s.bound), s.bound[<<x[2], Other(x[3])>>])}} :
     Certified(q, [s EXCEPT !.expl = f.expl], f.var)}

\* explainSimplexFailure: the ways it may end, none when the leaf has to be delegated.
Explanations(q, s, rows) ==
  IF s.inconsistent /= 0 /\ Certified(q, s, s.inconsistent)
    THEN {[var |-> s.inconsistent, expl |-> s.expl]}
    ELSE CertifiedByRow(q, s, rows)

\* A node of the certificate; its path is the sequence of the children's numbers.
NewNode(split) == [split |-> split, lemmas |-> <<>>, contradiction |-> <<>>, children |-> 0,
                   visited |-> FALSE, delegated |-> FALSE, sat |-> FALSE]

\* computeContradiction, writeContradictionToCertificate, makeLeaf.
WithContradiction(q, node, s, v) ==
  [node EXCEPT !.lemmas = s.lemmas, !.children = 0,
               !.contradiction = <<[var |-> v, explanation |-> Contradiction(q, s, v)]>>]

\* markLeafToDelegate: the lemmas are dropped.
Delegated(node) == [node EXCEPT !.delegated = TRUE, !.lemmas = <<>>, !.children = 0]

\* SmtCore::performSplit: a child for every case.
WithChildren(tree, path, s, splits) ==
  [p \in DOMAIN tree \cup {Append(path, i) : i \in DOMAIN splits} |->
     IF p = path THEN [tree[p] EXCEPT !.lemmas = s.lemmas, !.children = Len(splits)]
     ELSE IF p \in DOMAIN tree THEN tree[p] ELSE NewNode(splits[Last(p)])]

\* The engine entering a child: popSplit restores the parent's state, the split is
\* applied to it and what follows from it is propagated.
Entered(q, parent, split) ==
  Propagated(q, ApplySplit(q, [parent EXCEPT !.lemmas = <<>>, !.pending = <<>>], split))

\* initializeTableau, initializeBoundExplainer: every bound is ground and not yet announced.
InitialState(q) ==
  [bound |-> q.box, ground |-> q.box, expl |-> [x \in (1..q.n) \X Sides |-> Trivial(q)],
   phase |-> [k \in DOMAIN q.cons |-> "none"], active |-> [k \in DOMAIN q.cons |-> TRUE], lemmas |-> <<>>,
   pending |-> [i \in 1..2 * q.n |-> <<(i + 1) \div 2, IF i % 2 = 1 THEN "LB" ELSE "UB">>], inconsistent |-> 0, failed |-> FALSE]

----------------------------------------------------------------------------
(* The checker's splits (proofs/Checker)                                    *)

SideOf(split) == split[1][2]
Has(split, v, side, x) == Contains(split, <<v, side, x>>)

\* checkSingleVarSplits: the two halves of one variable's range.
SingleVarSplits(splits) ==
  /\ Len(splits) = 2 /\ Len(splits[1]) = 1 /\ Len(splits[2]) = 1
  /\ splits[1][1][1] = splits[2][1][1] /\ splits[1][1][3] = splits[2][1][3]
  /\ splits[1][1][2] /= splits[2][1][2]

\* The split that begins with a lower bound, and the other one.
Upper(splits) == IF SideOf(splits[1]) = "LB" THEN splits[1] ELSE splits[2]
Lower(splits) == IF SideOf(splits[1]) = "LB" THEN splits[2] ELSE splits[1]

ReluSplits(con, splits) ==
  LET b == con.vars[1]
      f == con.vars[2]
      aux == con.vars[3]
  IN  /\ Len(splits) = 2 /\ Len(Upper(splits)) \in {1, 2} /\ Len(Lower(splits)) = 2
      /\ Has(Lower(splits), b, "UB", Zero) /\ Has(Lower(splits), f, "UB", Zero) /\ Has(Upper(splits), b, "LB", Zero)
      /\ Len(Upper(splits)) = 1 \/ Has(Upper(splits), aux, "UB", Zero)

\* The names b and f are swapped in the code (:417-418), consistently.  The variables of
\* the negative split are not looked at.
SignSplits(con, splits) ==
  /\ Len(splits) = 2 /\ Len(Upper(splits)) = 2 /\ Len(Lower(splits)) = 2
  /\ Upper(splits) = <<<<con.vars[1], "LB", Zero>>, <<con.vars[2], "LB", One>>>>
  /\ Lower(splits)[1][2] = "UB" /\ Lower(splits)[1][3] = Zero
  /\ Lower(splits)[2][2] = "UB" /\ Lower(splits)[2][3] = Rat(-1)

\* The negative split's first variable is not looked at.
AbsSplits(con, splits) ==
  /\ Len(splits) = 2 /\ Len(Upper(splits)) = 2 /\ Len(Lower(splits)) = 2
  /\ Upper(splits)[1] = <<con.vars[1], "LB", Zero>> /\ Upper(splits)[2] \in {<<v, "UB", Zero>> : v \in ToSet(con.vars)}
  /\ Lower(splits)[1][2] = "UB" /\ Lower(splits)[1][3] = Zero /\ Lower(splits)[2] = <<con.vars[4], "UB", Zero>>

MaxCases(con) ==
  {<<<<con.aux[e], "UB", Zero>>>> : e \in con.elements}
    \cup {<<<<e, "UB", Zero>>>> : e \in con.eliminated}
    \cup (IF con.maxOfEliminated = Neg(Infinity) THEN {}
          ELSE {<<<<con.f, "LB", con.maxOfEliminated>>, <<con.f, "UB", con.maxOfEliminated>>>>})

\* Cases of the constraint, not necessarily all, or two bounds of f on different sides.
MaxSplits(con, splits) ==
  \/ ToSet(splits) \subseteq MaxCases(con)
  \/ /\ Len(splits) = 2 /\ Len(splits[1]) = 1 /\ Len(splits[2]) = 1
     /\ splits[1][1][1] = con.f /\ splits[2][1][1] = con.f /\ splits[1][1][2] /= splits[2][1][2]

LeakySplits(con, splits) ==
  LET b == con.vars[1]
      f == con.vars[2]
  IN  /\ Len(splits) = 2 /\ Len(splits[1]) = Len(splits[2]) /\ Len(splits[1]) \in {2, 3}
      /\ \A v \in {b, f} : Has(Lower(splits), v, "UB", Zero) /\ Has(Upper(splits), v, "LB", Zero)
      /\ Len(splits[1]) = 2 \/ (Has(Lower(splits), con.vars[4], "UB", Zero) /\ Has(Upper(splits), con.vars[3], "UB", Zero))

\* The order in which getCorrespondingConstraint tries the types.
TypeOrder == <<"relu", "sign", "abs", "max", "disjunction", "leaky relu">>
SplitsOf(con, splits) ==
  CASE con.type = "relu"        -> ReluSplits(con, splits)
    [] con.type = "sign"        -> SignSplits(con, splits)
    [] con.type = "abs"         -> AbsSplits(con, splits)
    [] con.type = "max"         -> MaxSplits(con, splits)
    [] con.type = "disjunction" -> ToSet(con.disjuncts) = ToSet(splits)
    [] con.type = "leaky relu"  -> LeakySplits(con, splits)

Rank(con) == CHOOSE i \in DOMAIN TypeOrder : TypeOrder[i] = con.type
\* getCorrespondingConstraint: 0 when there is none.
CorrespondingConstraint(q, splits) ==
  LET found == {k \in DOMAIN q.cons : SplitsOf(q.cons[k], splits)}
  IN  IF found = {} THEN 0
        ELSE CHOOSE k \in found : \A j \in found :
               Rank(q.cons[k]) < Rank(q.cons[j]) \/ (Rank(q.cons[k]) = Rank(q.cons[j]) /\ k <= j)

\* fixChildSplitPhase, as far as a delegated leaf writes it down: the child's case.
PhaseOfChild(con, split) ==
  CASE con.type = "relu" -> IF split[1][2] = "LB" \/ Last(split)[2] = "LB" THEN "active" ELSE "inactive"
    [] con.type \in {"sign", "abs"} -> IF split[1][2] = "LB" THEN "active" ELSE "inactive"
    [] con.type = "leaky relu" -> IF split[1][2] = "LB" /\ Last(split)[2] = "LB" THEN "active" ELSE "inactive"
    [] con.type = "max" -> IF Len(split) = 2 THEN "eliminated" ELSE Last(split)
    [] con.type = "disjunction" -> split

----------------------------------------------------------------------------
(* The checker's lemmas.  x is the bound of the causing variable that the   *)
(* lemma's explanation yields; each gives the bound of the affected one, or *)
(* an infinite bound, which changes nothing.                                *)

Epsilon == <<1, 10>>
NoBound(side) == IF side = "UB" THEN Infinity ELSE Neg(Infinity)

\* The value of the first case whose condition holds.
FirstCase(cases, default) ==
  LET holding == {i \in DOMAIN cases : cases[i][1]}
  IN  IF holding = {} THEN default ELSE cases[CHOOSE i \in holding : \A j \in holding : i <= j][2]

\* The lemma leads from this bound of the causing variable to that of the affected one.
From(l, v, side, w, other) == l.causing[1] = v /\ l.causingSide = side /\ l.affected = w /\ l.side = other

ReluLemma(con, l, x) ==
  LET b == con.vars[1]
      f == con.vars[2]
      aux == con.vars[3]
  IN  FirstCase(<<
        <<From(l, b, "LB", aux, "UB") /\ Zero \preceq (x ++ Epsilon), Zero>>,
        <<From(l, f, "LB", aux, "UB") /\ Zero \prec (x ++ Epsilon), Zero>>,
        <<From(l, b, "LB", aux, "UB") /\ (x -- Epsilon) \prec Zero, Neg(x)>>,
        <<From(l, aux, "LB", f, "UB") /\ Zero \prec (x ++ Epsilon), Zero>>,
        <<From(l, f, "LB", f, "LB") /\ (x -- Epsilon) \prec Zero, Zero>>,
        <<From(l, f, "UB", b, "UB"), x>>,
        <<From(l, b, "UB", f, "UB") /\ (x -- Epsilon) \preceq Zero, Zero>>,
        <<From(l, b, "UB", aux, "LB") /\ (x -- Epsilon) \preceq Zero, Neg(x)>>,
        <<From(l, b, "UB", f, "UB") /\ Zero \prec (x ++ Epsilon), x>>,
        <<From(l, aux, "UB", b, "LB"), Neg(x)>>>>, NoBound(l.side))

\* A lower bound of f that only just reaches -1, or an upper one that reaches 1, is enough.
SignLemma(con, l, x) ==
  LET b == con.vars[1]
      f == con.vars[2]
  IN  FirstCase(<<
        <<From(l, f, "LB", f, "LB") /\ l.bound = One /\ Rat(-1) \preceq (x ++ Epsilon), One>>,
        <<From(l, f, "LB", b, "LB") /\ l.bound = Zero /\ Rat(-1) \preceq (x ++ Epsilon), Zero>>,
        <<From(l, b, "LB", f, "LB") /\ l.bound = One /\ Zero \preceq (x ++ Epsilon), One>>,
        <<From(l, f, "UB", f, "UB") /\ l.bound = Rat(-1) /\ (x -- Epsilon) \preceq One, Rat(-1)>>,
        <<From(l, f, "UB", b, "UB") /\ l.bound = Zero /\ (x -- Epsilon) \preceq One, Zero>>,
        <<From(l, b, "UB", f, "UB") /\ l.bound = Rat(-1) /\ (x -- Epsilon) \prec Zero, Rat(-1)>>>>, NoBound(l.side))

\* With two causing bounds, y is the lower bound of the second.
AbsLemma(con, l, x, y) ==
  LET b == con.vars[1]
      f == con.vars[2]
      pos == con.vars[3]
      neg == con.vars[4]
      To(v, side, w) == l.causing[1] = v /\ l.causingSide = side /\ l.affected = w /\ l.bound = Zero
  IN  IF Len(l.causing) = 2
        THEN FirstCase(<<
          <<l.causing = <<b, b>> /\ l.affected = f /\ l.side = "UB" /\ Zero \prec l.bound, Larger(x, Neg(y))>>,
          <<l.causing = <<b, f>> /\ l.affected = neg /\ l.causingSide = "UB" /\ (x -- Epsilon) \prec y /\ l.bound = Zero, Zero>>,
          <<l.causing = <<b, f>> /\ l.affected = pos /\ l.causingSide = "LB" /\ (Neg(x) -- Epsilon) \prec y /\ l.bound = Zero, Zero>>>>,
          NoBound(l.side))
        ELSE FirstCase(<<
          <<To(b, "LB", pos) /\ Zero \preceq (x ++ Epsilon), Zero>>,
          <<To(b, "UB", neg) /\ (x -- Epsilon) \preceq Zero, Zero>>,
          <<To(pos, "LB", neg) /\ Zero \prec (x ++ Epsilon), Zero>>,
          <<To(neg, "LB", pos) /\ Zero \prec (x ++ Epsilon), Zero>>>>, NoBound(l.side))

\* The largest of the upper bounds xs of the causing elements, which need not be all.
MaxLemma(con, l, xs) ==
  IF /\ ToSet(l.causing) \subseteq con.elements
     /\ l.causingSide = "UB" /\ l.affected = con.f /\ l.side = "UB"
    THEN LargestOf({con.maxOfEliminated} \cup {xs[k] : k \in DOMAIN xs})
    ELSE NoBound(l.side)

LeakyLemma(con, l, x) ==
  LET b == con.vars[1]
      f == con.vars[2]
      active == con.vars[3]
      inactive == con.vars[4]
  IN  FirstCase(<<
        <<(\E v \in {b, f} : From(l, v, "LB", active, "UB")) /\ Zero \prec (x ++ Epsilon), Zero>>,
        <<From(l, f, "LB", b, "LB") /\ l.bound \prec Zero /\ (l.bound ** con.slope) \preceq (x ++ Epsilon), x // con.slope>>,
        <<From(l, active, "LB", inactive, "UB") /\ Zero \prec (x ++ Epsilon), Zero>>,
        <<From(l, inactive, "LB", active, "UB") /\ Zero \prec (x ++ Epsilon), Zero>>,
        <<From(l, f, "UB", b, "UB") /\ Zero \prec l.bound /\ (x -- Epsilon) \preceq l.bound, x>>,
        <<From(l, b, "UB", f, "UB") /\ Zero \prec l.bound /\ (x -- Epsilon) \preceq l.bound, x>>,
        <<(\E v \in {b, f} : From(l, v, "UB", inactive, "UB")) /\ (x -- Epsilon) \prec Zero, Zero>>>>, NoBound(l.side))

\* The variables of a constraint, those of eliminated elements among them.
ConVars(con) ==
  IF con.type = "max" THEN {con.f} \cup con.elements \cup con.eliminated \cup {con.aux[e] : e \in DOMAIN con.aux}
                      ELSE ToSet(con.vars)

\* The bound a causing variable k of the lemma has by its explanation.
CauseBound(q, l, k, ground) ==
  ComputeBound(q, l.causing[k],
               CASE l.type = "max" \/ (l.type = "abs" /\ Len(l.causing) = 2 /\ k = 1 /\ l.causing[1] = l.causing[2]) -> "UB"
                 [] l.type = "abs" /\ k = 2 -> "LB"
                 [] OTHER -> l.causingSide,
               l.expl[k], ground)

LemmaBound(con, l, xs) ==
  CASE con.type = "relu"       -> ReluLemma(con, l, xs[1])
    [] con.type = "sign"       -> SignLemma(con, l, xs[1])
    [] con.type = "abs"        -> AbsLemma(con, l, xs[1], xs[Len(xs)])
    [] con.type = "max"        -> MaxLemma(con, l, xs)
    [] con.type = "leaky relu" -> LeakyLemma(con, l, xs[1])

\* The last constraint of the lemma's type with the affected variable; 0 if there is none.
MatchedConstraint(q, l) ==
  LET matching == {k \in DOMAIN q.cons : q.cons[k].type = l.type /\ l.affected \in ConVars(q.cons[k])}
  IN  IF matching = {} THEN 0 ELSE CHOOSE k \in matching : \A j \in matching : j <= k

----------------------------------------------------------------------------
(* The checker's walk: c.ground; c.changed, a stack of the bounds changed   *)
(* at each node entered; c.phase of each constraint; c.files, the ground    *)
(* bounds and phases of the leaves delegated to another solver.             *)

Changed(c, v, side, x) ==
  [c EXCEPT !.ground[<<v, side>>] = x, !.changed[Len(c.changed)] = @ \cup {<<v, side>>}]

\* checkAllPLCExplanations, one lemma.
AfterLemma(q, c, l) ==
  LET k == MatchedConstraint(q, l)
  IN  IF k = 0 \/ ~c.ok THEN [c EXCEPT !.ok = FALSE]
        ELSE LET x == LemmaBound(q.cons[k], l, [i \in DOMAIN l.expl |-> CauseBound(q, l, i, c.ground)])
             IN  IF Tighter(l.side, x, c.ground[<<l.affected, l.side>>]) THEN Changed(c, l.affected, l.side, x) ELSE c

\* checkNode up to the lemmas: the split's bounds become ground bounds, tighter or not.
WithNode(q, node, c) ==
  FoldLeft(LAMBDA d, l : AfterLemma(q, d, l),
           FoldLeft(LAMBDA d, b : Changed(d, b[1], b[2], b[3]), [c EXCEPT !.changed = Append(@, {})], node.split),
           node.lemmas)

\* checkContradiction: by the combination of rows, or by the variable's ground bounds.
Contradicts(q, contradiction, ground) ==
  IF contradiction.explanation = Trivial(q)
    THEN ground[<<contradiction.var, "UB">>] \prec ground[<<contradiction.var, "LB">>]
    ELSE CombinationUpperBound(q, contradiction.explanation, ground) \prec Zero

\* The end of checkNode: the bounds changed here last are as they were.
LeftNode(backup, c) ==
  [c EXCEPT !.ground = [x \in DOMAIN @ |-> IF x \in Last(c.changed) THEN backup[x] ELSE @[x]],
            !.changed = Front(@)]

\* checkNode.  The early returns, those of the leaves, leave their bounds in force, and
\* their changes on top of the stack.
RECURSIVE CheckNode(_, _, _, _)
CheckNode(q, tree, path, before) ==
  LET node == tree[path]
      children(c, k) ==
        FoldLeft(LAMBDA d, i :
                   LET child == Append(path, i)
                       phased == IF k = 0 THEN d ELSE [d EXCEPT !.phase[k] = PhaseOfChild(q.cons[k], tree[child].split)]
                       after == CheckNode(q, tree, child, phased)
                   IN  [after EXCEPT !.ok = @ /\ d.ok],
                 c, [i \in 1..node.children |-> i])
      split(c) ==
        LET splits == [i \in 1..node.children |-> tree[Append(path, i)].split]
            k == CorrespondingConstraint(q, splits)
        IN  IF ~SingleVarSplits(splits) /\ k = 0 THEN [c EXCEPT !.ok = FALSE]
              ELSE LeftNode(before.ground, LET d == children(c, k) IN IF k = 0 THEN d ELSE [d EXCEPT !.phase[k] = "none"])
      entered(c) ==
        CASE ~c.ok -> c
          [] c.ok /\ node.delegated -> [c EXCEPT !.files = Append(@, [ground |-> c.ground, phase |-> c.phase])]
          [] c.ok /\ node.sat /\ ~node.delegated -> c
          [] OTHER -> IF node.contradiction /= <<>> /\ node.children = 0
                        THEN [c EXCEPT !.ok = Contradicts(q, node.contradiction[1], c.ground)]
                      ELSE IF node.children = 0 THEN [c EXCEPT !.ok = ~node.visited /\ node.contradiction = <<>>]
                      ELSE IF node.contradiction /= <<>> THEN [c EXCEPT !.ok = FALSE]
                      ELSE split(c)
  IN  entered(WithNode(q, node, [before EXCEPT !.ok = TRUE]))

\* certifyUNSATCertificate: from the query's bounds.
Check(q, tree) ==
  CheckNode(q, tree, <<>>, [ground |-> q.box, changed |-> <<>>, ok |-> TRUE, files |-> <<>>,
                            phase |-> [k \in DOMAIN q.cons |-> "none"]])
==============================================================================
