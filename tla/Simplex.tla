------------------------------- MODULE Simplex -------------------------------
(****************************************************************************)
(* What the engine does with the tableau: the simplex step with its rules   *)
(* for the entering variable, the fixing of a violated constraint, merging, *)
(* splits.  A state s is [t, rule, pse, heuristic]: the tableau, the entry  *)
(* strategy with the weights of the steepest edge rule, _heuristicCost.     *)
(****************************************************************************)
LOCAL INSTANCE Integers
LOCAL INSTANCE Sequences
LOCAL INSTANCE SequencesExt
LOCAL INSTANCE TLC
LOCAL INSTANCE Rationals
LOCAL INSTANCE Tableau

LOCAL Known(f) == f @@ <<>>
LOCAL Indices(s) == [i \in DOMAIN s |-> i]
LOCAL Counts(b) == IF b THEN One ELSE Zero
PSE_ITERATIONS_BEFORE_RESET == 4        \* 1000 in the code
LOCAL PSE_GAMMA_ERROR_THRESHOLD == <<1, 1000>>
LOCAL MAX_SIMPLEX_PIVOT_SEARCH_ITERATIONS == 5

(****************************************************************************)
(* RowBoundTightener: bounds from the rows of the tableau and from the rows *)
(* of the constraint matrix.  Every new bound moves the tableau at once.  A *)
(* result is [t, learned, infeasible]; the rounding constant is zero.       *)
(****************************************************************************)

LOCAL MINIMAL_COEFFICIENT_FOR_TIGHTENING == <<1, 100>>
ROW_BOUND_TIGHTENER_SATURATION_ITERATIONS == 20

\* registerTighterLowerBound, registerTighterUpperBound; crossed bounds end it.
WithTableau(r, t, v, news) == [t |-> t, learned |-> r.learned + Len(news), infeasible |-> t.upper[v] \prec t.lower[v]]
Register(r, v, lb, ub) ==
  IF r.infeasible THEN r
  ELSE WithTableau(r, TightenUpperBound(TightenLowerBound(r.t, v, lb), v, ub), v,
                   SelectSeq(<<r.t.lower[v] \prec lb, ub \prec r.t.upper[v]>>, LAMBDA new : new))

\* The least and greatest value of every term, computed once per row.
Terms(t, variables, coefficients) ==
  LET Times(i, x, y) == IF coefficients[i] = Zero THEN Zero ELSE coefficients[i] ** (IF Zero \prec coefficients[i] THEN x ELSE y)
  IN  [v |-> variables, c |-> coefficients,
       low |-> Known([i \in DOMAIN variables |-> Times(i, t.lower[variables[i]], t.upper[variables[i]])]),
       high |-> Known([i \in DOMAIN variables |-> Times(i, t.upper[variables[i]], t.lower[variables[i]])])]
\* The terms sum to something between rest.low and rest.high: what that leaves each variable.
\* Not dividing by the sign of the coefficient.
TightenTermsUnswapped(r, terms, low, high) ==
  LET auxLb == low -- RatSum(terms.high)
      auxUb == high -- RatSum(terms.low)
      ByTerm(s, i) == IF AbsRat(terms.c[i]) \prec MINIMAL_COEFFICIENT_FOR_TIGHTENING THEN s
                      ELSE Register(s, terms.v[i], (auxLb ++ terms.high[i]) // AbsRat(terms.c[i]), (auxUb ++ terms.low[i]) // AbsRat(terms.c[i]))
  IN  FoldLeft(ByTerm, r, Indices(terms.v))
TightenTerms(r, terms, low, high) ==
  LET auxLb == low -- RatSum(terms.high)
      auxUb == high -- RatSum(terms.low)
      ByTerm(s, i) ==
        LET lb == (auxLb ++ terms.high[i]) // terms.c[i]
            ub == (auxUb ++ terms.low[i]) // terms.c[i]
            swap == terms.c[i] \prec Zero
        IN  IF AbsRat(terms.c[i]) \prec MINIMAL_COEFFICIENT_FOR_TIGHTENING THEN s
            ELSE Register(s, terms.v[i], IF swap THEN ub ELSE lb, IF swap THEN lb ELSE ub)
  IN  FoldLeft(ByTerm, r, Indices(terms.v))

\* y = scalar + terms: first y, then every term.
TightenRightSide(r, row, terms) ==
  IF r.infeasible THEN r ELSE TightenTerms(r, terms, r.t.lower[row.lhs] -- row.scalar, r.t.upper[row.lhs] -- row.scalar)
TightenOnSingleInvertedBasisRow(r, row) ==
  LET terms == Terms(r.t, r.t.nonbasic, row.coefficients)
  IN  TightenRightSide(Register(r, row.lhs, row.scalar ++ RatSum(terms.low), row.scalar ++ RatSum(terms.high)), row, terms)
TightenOnSingleConstraintRow(r, row) ==
  TightenTerms(r, Terms(r.t, Indices(r.t.A[row]), r.t.A[row]), r.t.b[row], r.t.b[row])

LOCAL Start(t) == [t |-> t, learned |-> 0, infeasible |-> FALSE]
OnePassOverInvertedBasisRows(t, rows) == FoldLeft(TightenOnSingleInvertedBasisRow, Start(t), rows)
OnePassOverConstraintMatrix(t) == FoldLeft(TightenOnSingleConstraintRow, Start(t), Indices(t.A))

\* Until a pass learns nothing.
ExamineConstraintMatrix(t) ==
  FoldLeft(LAMBDA r, k : IF r.infeasible \/ (k > 1 /\ r.learned = 0) THEN r ELSE OnePassOverConstraintMatrix(r.t),
           Start(t), [k \in 1..ROW_BOUND_TIGHTENER_SATURATION_ITERATIONS |-> k])
\* The rows are computed once, from the inverse of the basis or by solving with it.
ExamineInvertedBasisMatrix(t) ==
  OnePassOverInvertedBasisRows(t, Known([i \in DOMAIN t.basic |->
    [lhs |-> t.basic[i], scalar |-> Dot(t.inv[i], t.b),
     coefficients |-> Known([j \in DOMAIN t.nonbasic |-> Neg(Dot(t.inv[i], AColumn(t, t.nonbasic[j])))])]]))
ExamineImplicitInvertedBasisMatrix(t) ==
  LET z == ForwardTransformation(t, t.b)
      columns == Known([j \in DOMAIN t.nonbasic |-> ForwardTransformation(t, AColumn(t, t.nonbasic[j]))])
  IN  OnePassOverInvertedBasisRows(t, Known([i \in DOMAIN t.basic |->
        [lhs |-> t.basic[i], scalar |-> z[i], coefficients |-> Known([j \in DOMAIN t.nonbasic |-> Neg(columns[j][i])])]]))
ExaminePivotRow(t) == TightenOnSingleInvertedBasisRow(Start(t), t.row)

(****************************************************************************)
(* The rules for the entering variable; 0 if no candidate is left.          *)
(****************************************************************************)
LOCAL First(candidates, Better(_, _)) ==
  FoldLeft(LAMBDA best, j : IF Better(j, best) THEN j ELSE best, Head(candidates), candidates)
ResetReferenceSpace(t) ==
  [gamma |-> [j \in DOMAIN t.nonbasic |-> One], reference |-> {t.nonbasic[j] : j \in DOMAIN t.nonbasic}, left |-> PSE_ITERATIONS_BEFORE_RESET, error |-> Zero]
SteepestEdgeSelect(s, candidates) ==
  LET Value(j) == IF s.pse.gamma[j] \preceq Zero THEN Zero ELSE (s.t.cost[j] ** s.t.cost[j]) // s.pse.gamma[j]
  IN  First(candidates, LAMBDA j, best : Value(best) \prec Value(j))
DantzigSelect(s, candidates) == First(candidates, LAMBDA j, best : AbsRat(s.t.cost[best]) \prec AbsRat(s.t.cost[j]))
BlandSelect(s, candidates) == First(candidates, LAMBDA j, best : s.t.nonbasic[j] < s.t.nonbasic[best])
Select(s, candidates, excluded) ==
  LET remaining == SelectSeq(candidates, LAMBDA j : j \notin excluded)
  IN  CASE remaining = <<>> -> 0
        [] remaining /= <<>> /\ s.rule = "pse" -> SteepestEdgeSelect(s, remaining)
        [] remaining /= <<>> /\ s.rule = "dantzig" -> DantzigSelect(s, remaining)
        [] OTHER -> BlandSelect(s, remaining)

\* The weight of the entering variable from its change column.
AccurateGamma(s) ==
  LET t == s.t
  IN  Counts(t.nonbasic[t.entering] \in s.pse.reference)
      ++ RatSum([i \in DOMAIN t.basic |-> IF t.basic[i] \in s.pse.reference THEN t.change[i] ** t.change[i] ELSE Zero])
UpdatedGamma(s) ==
  LET t == s.t
      accurate == AccurateGamma(s)
      pivot == t.change[t.leaving]
      work == BackwardTransformation(t, Known([i \in DOMAIN t.basic |-> IF t.basic[i] \in s.pse.reference THEN Neg(t.change[i]) ELSE Zero]))
      Updated(j) ==
        LET r == t.row.coefficients[j] // Neg(pivot)
            inner == Dot(work, AColumn(t, t.nonbasic[j]))
        IN  IF r = Zero THEN s.pse.gamma[j]
            ELSE Larger(s.pse.gamma[j] ++ r ** (r ** accurate ++ inner ++ inner),
                        Counts(t.nonbasic[j] \in s.pse.reference) ++ Counts(t.nonbasic[t.entering] \in s.pse.reference) ** r ** r)
  IN  Known([j \in DOMAIN t.nonbasic |-> IF j = t.entering THEN accurate // (pivot ** pivot) ELSE Updated(j)])
PrePivotHook(s) ==
  LET accurate == AccurateGamma(s)
  IN  IF s.rule /= "pse" \/ s.t.leaving = 0 THEN s
      ELSE [s EXCEPT !.pse.gamma = UpdatedGamma(s), !.pse.error = AbsRat(accurate -- s.pse.gamma[s.t.entering]) // (One ++ accurate)]
PostPivotHook(s) ==
  IF s.rule /= "pse" \/ s.t.leaving = 0 THEN s
  ELSE IF s.pse.left = 1 \/ PSE_GAMMA_ERROR_THRESHOLD \prec s.pse.error THEN [s EXCEPT !.pse = ResetReferenceSpace(s.t)]
  ELSE [s EXCEPT !.pse.left = @ - 1]
ResizeHook(s) == [s EXCEPT !.pse = ResetReferenceSpace(s.t)]
PerformDegenerate(s, entering, leaving) ==
  LET picked == ComputePivotRow(ComputeChangeColumn([s.t EXCEPT !.entering = entering, !.leaving = leaving]))
      hooked == PrePivotHook([s EXCEPT !.t = picked])
  IN  PostPivotHook([hooked EXCEPT !.t = PerformDegeneratePivot(picked)])

(****************************************************************************)
(* performSimplexStep.                                                      *)
(****************************************************************************)
CostFunctionForStep(s) ==
  LET given == IF s.t.optimizing THEN ComputeGivenCostFunction(s.t, s.heuristic) ELSE s.t
  IN  IF given.costStatus = "invalid" THEN ComputeCoreCostFunction(given) ELSE AdjustBasicCostAccuracy(given)

\* Up to so many entering variables are tried until the pivot element is acceptable.  What is kept
\* of the best is its indices, change column and ratio; the direction is that of the last one tried.
Weighed(p, t, acceptable) ==
  LET pivot == IF t.leaving = 0 THEN Infinity ELSE AbsRat(t.change[t.leaving])
  IN  [t |-> t, best |-> IF p.pivot \prec pivot THEN t ELSE p.best, pivot |-> Larger(p.pivot, pivot),
       excluded |-> p.excluded \cup {t.entering}, done |-> acceptable \preceq Larger(p.pivot, pivot)]
TryEntering(p, entering, acceptable) ==
  IF entering = 0 THEN [p EXCEPT !.done = TRUE]
  ELSE Weighed(p, PickLeavingVariable(ComputeChangeColumn([p.t EXCEPT !.entering = entering])), acceptable)
BestTried(last) ==
  [have |-> last.excluded /= {}, pivot |-> last.pivot, best |-> last.best,
   t |-> [last.t EXCEPT !.entering = last.best.entering, !.leaving = last.best.leaving, !.change = last.best.change, !.distance = last.best.distance]]
PickPivot(s, acceptable) ==
  LET candidates == EntryCandidates(s.t)
      Try(p, k) == TryEntering(p, IF p.done THEN 0 ELSE Select([s EXCEPT !.t = p.t], candidates, p.excluded), acceptable)
  IN  BestTried(FoldLeft(Try, [t |-> s.t, best |-> s.t, pivot |-> Zero, excluded |-> {}, done |-> FALSE], [k \in 1..MAX_SIMPLEX_PIVOT_SEARCH_ITERATIONS |-> k]))

\* No candidate: with a fresh assignment and cost function the step decides.
NoCandidate(s) ==
  CASE s.t.assignment /= "computed" -> [s |-> [s EXCEPT !.t = ComputeAssignment(s.t)], outcome |-> "again"]
    [] s.t.assignment = "computed" /\ s.t.costStatus /= "computed" -> [s |-> [s EXCEPT !.t = InvalidateCostFunction(s.t)], outcome |-> "again"]
    [] OTHER -> [s |-> s, outcome |-> IF s.t.optimizing THEN "optimal" ELSE "infeasible"]
\* The pivot row is computed, its bounds are learned, and then the pivot is made.
WithoutCosts(s) == [s EXCEPT !.t = InvalidateCostFunction(s.t)]
PivotedFrom(hooked) ==
  IF PivotIsMalformed(hooked.t) THEN [s |-> hooked, outcome |-> "malformed", before |-> hooked.t]
  ELSE [s |-> WithoutCosts(PostPivotHook([hooked EXCEPT !.t = PerformPivot(hooked.t)])), outcome |-> "again", before |-> hooked.t]
AfterExamination(s, r) ==
  IF r.infeasible THEN [s |-> [s EXCEPT !.t = r.t], outcome |-> "infeasible", before |-> r.t] ELSE PivotedFrom(PrePivotHook([s EXCEPT !.t = r.t]))
ApplyPivot(s) ==
  AfterExamination(s, IF s.t.leaving = 0 THEN [t |-> s.t, learned |-> 0, infeasible |-> FALSE] ELSE ExaminePivotRow(ComputePivotRow(s.t)))
StepWith(costed, picked, acceptable) ==
  IF ~picked.have THEN NoCandidate(costed) @@ [picked |-> <<>>]
  ELSE IF picked.pivot \prec acceptable /\ ~picked.t.fresh
    THEN [s |-> [costed EXCEPT !.t = RefreshBasisFactorization(picked.t)], outcome |-> "again", picked |-> <<>>]
  ELSE ApplyPivot([costed EXCEPT !.t = picked.t]) @@ [picked |-> picked.best]
StepFrom(costed, acceptable) == StepWith(costed, PickPivot(costed, acceptable), acceptable)
PerformSimplexStep(s, acceptable) == StepFrom([s EXCEPT !.t = CostFunctionForStep(s)], acceptable)

(****************************************************************************)
(* fixViolatedPlConstraintIfPossible: fixes is a sequence of [v, value].  A *)
(* constraint is [kind, b, f, slope, direction], its preferred direction.   *)
(****************************************************************************)
SetTo(v, value) == [v |-> v, value |-> value]
LOCAL InOrder(swapped, first, second) == IF swapped THEN <<second, first>> ELSE <<first, second>>
ReluFixes(t, c) ==
  LET b == GetValue(t, c.b)
      f == GetValue(t, c.f)
      fFirst == IF Zero \prec f THEN b \preceq Zero /\ c.direction = "inactive" ELSE c.direction = "active"
  IN  InOrder(fFirst, SetTo(c.b, Larger(f, Zero)), SetTo(c.f, Larger(b, Zero)))
LeakyFixes(t, c) ==
  LET b == GetValue(t, c.b)
      f == GetValue(t, c.f)
      fFirst == IF Zero \prec f THEN b \preceq Zero /\ c.direction = "inactive" ELSE b \preceq Zero \/ c.direction = "active"
  IN  InOrder(fFirst, SetTo(c.b, IF Zero \prec f THEN f ELSE f // c.slope), SetTo(c.f, IF Zero \prec b THEN b ELSE c.slope ** b))
AbsFixes(t, c) ==
  LET f == GetValue(t, c.f) IN <<SetTo(c.b, f), SetTo(c.b, Neg(f)), SetTo(c.f, AbsRat(GetValue(t, c.b)))>>
SignFixes(t, c) == <<SetTo(c.f, IF GetValue(t, c.b) \prec Zero THEN Rat(-1) ELSE One)>>
GetPossibleFixes(t, c) ==
  CASE c.kind = "relu" -> ReluFixes(t, c) [] c.kind = "leaky" -> LeakyFixes(t, c) [] c.kind = "abs" -> AbsFixes(t, c) [] OTHER -> SignFixes(t, c)
\* Where one of b and f moves with the other, the other is moved to where they agree, or to where f is zero.
GetSmartFixes(t, c) ==
  LET rates == LinearDependence(t, c.b, c.f)
      b == GetValue(t, c.b)
      f == GetValue(t, c.f)
      \* x is the one that is moved, y = f or b the other one, which moves at this rate
      Agreeing(v, x, y, rate) == IF rate = One THEN <<>> ELSE <<SetTo(v, x ++ ((x -- y) // (rate -- One)))>>
      Inactive(v, value, newB) == IF newB \preceq Zero THEN <<SetTo(v, value)>> ELSE <<>>
      newB == b -- (f // rates[1])
  IN  IF c.kind /= "relu" \/ rates = <<>> THEN GetPossibleFixes(t, c)
      ELSE IF IsBasic(t, c.b) THEN Agreeing(c.f, f, b, rates[2]) \o Inactive(c.f, Zero, b -- (rates[2] ** f))
      ELSE Agreeing(c.b, b, f, rates[1]) \o Inactive(c.b, newB, newB)
LOCAL LargestEntry(t, row, excluded) ==
  FoldLeft(LAMBDA best, j : IF t.nonbasic[j] /= excluded /\ (IF best = 0 THEN Zero ELSE AbsRat(row.coefficients[best])) \prec AbsRat(row.coefficients[j]) THEN j ELSE best,
           0, Indices(t.nonbasic))
FixViolatedPlConstraintIfPossible(s, fixes) ==
  LET t == s.t
      Possible(f) == CheckValueWithinBounds(t, f.v, f.value)
      direct == SelectSeq(fixes, LAMBDA f : ~IsBasic(t, f.v) /\ Possible(f))
      basics == SelectSeq(fixes, LAMBDA f : IsBasic(t, f.v) /\ Possible(f))
      fix == Head(basics)
      i == VariableToIndex(t, fix.v)
      j == LargestEntry(t, TableauRow(t, i), 0)
      pivoted == PerformDegenerate(s, j, i)
  IN  IF direct /= <<>> THEN [s EXCEPT !.t = SetNonBasicAssignment(t, Head(direct).v, Head(direct).value)]
      ELSE IF basics = <<>> \/ (basics /= <<>> /\ j = 0) THEN s
      ELSE [pivoted EXCEPT !.t = SetNonBasicAssignment(pivoted.t, fix.v, fix.value)]

(****************************************************************************)
(* applySplit and attemptToMergeVariables.  An equation is [coefficients,   *)
(* scalar, type].                                                           *)
(****************************************************************************)
\* x leaves the basis for a variable other than y; 0: it cannot.
LOCAL Leaving(s, x, y) == IF IsBasic(s.t, x) THEN LargestEntry(s.t, TableauRow(s.t, VariableToIndex(s.t, x)), y) ELSE -1
MakeNonBasic(s, x, y) == IF IsBasic(s.t, x) THEN PerformDegenerate(s, Leaving(s, x, y), VariableToIndex(s.t, x)) ELSE s
MergedColumns(s, x1, x2) == [s |-> ResizeHook([s EXCEPT !.t = MergeColumns(s.t, x1, x2)]), merged |-> TRUE]
MergeWithFirst(s, x1, x2) ==
  IF Leaving(s, x2, x1) = 0 THEN [s |-> s, merged |-> FALSE] ELSE MergedColumns(MakeNonBasic(s, x2, x1), x1, x2)
AttemptToMergeVariables(s, x1, x2) ==
  IF Leaving(s, x1, x2) = 0 THEN [s |-> s, merged |-> FALSE] ELSE MergeWithFirst(MakeNonBasic(s, x1, x2), x1, x2)

\* The equation in terms of the variables that are left.
AfterMerging(t, equation) ==
  [equation EXCEPT !.coefficients =
     Known([v \in DOMAIN t.A[1] |-> RatSum([w \in {x \in DOMAIN equation.coefficients : VariableAfterMerging(t, x) = v} |-> equation.coefficients[w]])])]
\* x1 = x2, both of them where they may be exchanged.
MergesVariables(t, equation) ==
  LET S == {v \in DOMAIN equation.coefficients : equation.coefficients[v] /= Zero}
  IN  IF equation.type = "EQ" /\ equation.scalar = Zero /\ \E x, y \in S : x < y /\ S = {x, y} /\ equation.coefficients[x] = Neg(equation.coefficients[y])
      THEN {<<x, y>> \in S \X S : x < y /\ \A v \in S : IsBasic(t, v) => t.status[VariableToIndex(t, v)] = 0}
      ELSE {}
BoundAux(s, type) ==
  LET aux == Len(s.t.A[1])
      lower == IF type \in {"EQ", "LE"} THEN TightenLowerBound(s.t, aux, Zero) ELSE s.t
  IN  [s EXCEPT !.t = IF type \in {"EQ", "GE"} THEN TightenUpperBound(lower, aux, Zero) ELSE lower]
AddUnlessMerged(attempt, equation) ==
  IF attempt.merged THEN attempt.s
  ELSE BoundAux(ResizeHook([attempt.s EXCEPT !.t = AddEquation(attempt.s.t, equation)]), equation.type)
ApplyEquation(s, equation0, merging) ==
  LET equation == AfterMerging(s.t, equation0)
      pairs == IF merging THEN MergesVariables(s.t, equation) ELSE {}
      p == CHOOSE q \in pairs : TRUE
  IN  AddUnlessMerged(IF pairs = {} THEN [s |-> s, merged |-> FALSE] ELSE AttemptToMergeVariables(s, p[1], p[2]), equation)
ApplyBound(s, v0, isLower, value) ==
  LET v == VariableAfterMerging(s.t, v0)
  IN  [s EXCEPT !.t = IF isLower THEN TightenLowerBound(s.t, v, value) ELSE TightenUpperBound(s.t, v, value)]

\* Tableau state stored and restored by the engine, which resets the strategy and the costs.
RestoreEngineState(s, state) == LET t == RestoreState(s.t, state) IN ResizeHook([s EXCEPT !.t = InitializeCostFunction(t)])
================================================================================
