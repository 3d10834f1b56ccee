------------------------------- MODULE Tableau -------------------------------
(****************************************************************************)
(* The simplex tableau and its cost function (Tableau, CostFunctionManager):*)
(* A x = b, the basic and non-basic variables with their assignments, the   *)
(* status of every basic variable, and the reduced costs.  Numbers are      *)
(* exact; tol is the tolerance of bounds and costs and harris that of the   *)
(* ratio test.  The factorization is the inverse of the basis, inv.         *)
(* An operation takes the tableau t and returns the next one.               *)
(****************************************************************************)
LOCAL INSTANCE Integers
LOCAL INSTANCE Sequences
LOCAL INSTANCE SequencesExt
LOCAL INSTANCE FiniteSets
LOCAL INSTANCE TLC
LOCAL INSTANCE Rationals

LOCAL Known(f) == f @@ <<>>
LOCAL Indices(s) == [i \in DOMAIN s |-> i]
Dot(a, b) == RatSum([i \in DOMAIN a |-> a[i] ** b[i]])

(****************************************************************************)
(* Indices, values and the factorization.                                   *)
(****************************************************************************)
Variables(t) == 1..Len(t.A[1])
IsBasic(t, v) == \E i \in DOMAIN t.basic : t.basic[i] = v
VariableToIndex(t, v) == LET s == IF IsBasic(t, v) THEN t.basic ELSE t.nonbasic IN CHOOSE i \in DOMAIN s : s[i] = v
AColumn(t, v) == [r \in DOMAIN t.A |-> t.A[r][v]]
\* A merged variable has the value of the variable it was merged into: one step only.
GetValue(t, variable) ==
  LET v == IF variable \in DOMAIN t.merged THEN t.merged[variable] ELSE variable
  IN  IF IsBasic(t, v) THEN t.xB[VariableToIndex(t, v)] ELSE t.xN[VariableToIndex(t, v)]
VariableAfterMerging(t, variable) ==
  LET Next(v) == IF v \in DOMAIN t.merged THEN t.merged[v] ELSE v
  IN  FoldLeft(LAMBDA v, k : Next(v), variable, Indices(t.A[1]))

\* The inverse of a matrix by row operations; <<>> if there is none.
InverseMatrix(B) ==
  LET m == Len(B)
      Pivot(W, k) ==
        LET candidates == {i \in k..m : W /= <<>> /\ W[i][k] /= Zero}
        IN  IF candidates = {} THEN <<>>
            ELSE LET i == CHOOSE c \in candidates : TRUE
                     S == [W EXCEPT ![i] = W[k], ![k] = W[i]]
                     row == Known([j \in 1..2 * m |-> S[k][j] // S[k][k]])
                 IN  Known([r \in 1..m |-> IF r = k THEN row ELSE Known([j \in 1..2 * m |-> S[r][j] -- S[r][k] ** row[j]])])
      W == FoldLeft(Pivot, [i \in 1..m |-> [j \in 1..2 * m |-> IF j <= m THEN B[i][j] ELSE IF j = i + m THEN One ELSE Zero]], Indices(B))
  IN  IF W = <<>> THEN <<>> ELSE Known([i \in 1..m |-> Known([j \in 1..m |-> W[i][j + m]])])
RefreshBasisFactorization(t) ==
  [t EXCEPT !.inv = InverseMatrix([r \in DOMAIN t.A |-> [j \in DOMAIN t.A |-> t.A[r][t.basic[j]]]]), !.fresh = TRUE]
ForwardTransformation(t, y) == Known([i \in DOMAIN y |-> Dot(t.inv[i], y)])
BackwardTransformation(t, c) == Known([j \in DOMAIN c |-> RatSum([i \in DOMAIN c |-> c[i] ** t.inv[i][j]])])
\* The basis with column p replaced, from the change column.
UpdateToAdjacentBasis(t, p, change) ==
  LET row == Known([j \in DOMAIN change |-> t.inv[p][j] // change[p]])
  IN  [t EXCEPT !.fresh = FALSE,
                !.inv = Known([i \in DOMAIN change |-> IF i = p THEN row ELSE Known([j \in DOMAIN change |-> t.inv[i][j] -- change[i] ** row[j]])])]

(****************************************************************************)
(* The assignment and the statuses: -1 below the lower bound, 1 above the   *)
(* upper bound.                                                             *)
(****************************************************************************)
CheckValueWithinBounds(t, v, value) == t.lower[v] \preceq value /\ value \preceq t.upper[v]
Status(t, v, value) == IF t.upper[v] ++ t.tol \prec value THEN 1 ELSE IF value \prec t.lower[v] -- t.tol THEN -1 ELSE 0
ComputeBasicStatus(t, i) == [t EXCEPT !.status[i] = Status(t, t.basic[i], t.xB[i])]
ComputeAllStatuses(t) == [t EXCEPT !.status = Known([i \in DOMAIN t.basic |-> Status(t, t.basic[i], t.xB[i])])]
ExistsBasicOutOfBounds(t) == \E i \in DOMAIN t.status : t.status[i] /= 0

ComputeAssignment(t) ==
  LET y == [r \in DOMAIN t.b |-> t.b[r] -- RatSum([j \in DOMAIN t.nonbasic |-> t.A[r][t.nonbasic[j]] ** t.xN[j]])]
  IN  ComputeAllStatuses([t EXCEPT !.xB = ForwardTransformation(t, y), !.assignment = "computed"])

InvalidateCostFunction(t) == [t EXCEPT !.costStatus = "invalid"]
\* A non-basic variable moves, the basic variables with it.
SetNonBasicAssignment(t, v, value) ==
  LET j == VariableToIndex(t, v)
      change == ForwardTransformation(t, AColumn(t, v))
      delta == value -- t.xN[j]
      moved == ComputeAllStatuses([t EXCEPT !.xN[j] = value, !.entering = j, !.change = change, !.assignment = "updated",
                                            !.xB = Known([i \in DOMAIN t.xB |-> t.xB[i] -- change[i] ** delta])])
  IN  IF moved.status = t.status THEN moved ELSE InvalidateCostFunction(moved)

\* What a new bound of v does to the assignment.
StatusAlone(t, v) == ComputeBasicStatus(t, VariableToIndex(t, v))
WithStatusOf(t, v) ==
  LET i == VariableToIndex(t, v)
      next == ComputeBasicStatus(t, i)
  IN  IF next.status = t.status THEN next ELSE InvalidateCostFunction(next)
ComplyWithLowerBound(t, v, value) ==
  IF IsBasic(t, v) THEN WithStatusOf(t, v)
  ELSE IF t.xN[VariableToIndex(t, v)] \prec value THEN SetNonBasicAssignment(t, v, value) ELSE t
ComplyWithUpperBound(t, v, value) ==
  IF IsBasic(t, v) THEN WithStatusOf(t, v)
  ELSE IF value \prec t.xN[VariableToIndex(t, v)] THEN SetNonBasicAssignment(t, v, value) ELSE t
\* tightenLowerBound of the tableau and of the bound manager.
TightenLowerBound(t, v, value) ==
  IF t.lower[v] \prec value THEN ComplyWithLowerBound([t EXCEPT !.lower[v] = value], v, value) ELSE t
TightenUpperBound(t, v, value) ==
  IF value \prec t.upper[v] THEN ComplyWithUpperBound([t EXCEPT !.upper[v] = value], v, value) ELSE t
UpdateVariablesToComplyWithBounds(t) ==
  LET Comply(s, j) == LET v == s.nonbasic[j] IN ComplyWithUpperBound(ComplyWithLowerBound(s, v, s.lower[v]), v, s.upper[v])
  IN  ComputeAllStatuses(FoldLeft(Comply, t, Indices(t.nonbasic)))

(****************************************************************************)
(* CostFunctionManager: the cost of every basic variable and the reduced    *)
(* costs of the non-basic ones.                                             *)
(****************************************************************************)
\* The arrays are allocated and not filled: the basic costs are what the memory held.
InitializeCostFunction(t) ==
  [t EXCEPT !.cost = [j \in DOMAIN t.nonbasic |-> Zero], !.basicCost = [i \in DOMAIN t.basic |-> t.garbage], !.costStatus = "invalid"]
BasicOOBCosts(t) ==
  Known([i \in DOMAIN t.basic |-> LET v == t.basic[i] IN
           IF t.xB[i] \prec t.lower[v] -- t.tol THEN Rat(-1) ELSE IF t.upper[v] ++ t.tol \prec t.xB[i] THEN One ELSE Zero])
\* computeMultipliers and computeReducedCosts, which subtract from what the costs are.
AddReducedCosts(t) ==
  LET multipliers == BackwardTransformation(t, t.basicCost)
  IN  [t EXCEPT !.cost = Known([j \in DOMAIN t.nonbasic |-> t.cost[j] -- Dot(multipliers, AColumn(t, t.nonbasic[j]))]), !.costStatus = "computed"]
ComputeCoreCostFunction(t) ==
  AddReducedCosts([t EXCEPT !.cost = [j \in DOMAIN t.nonbasic |-> Zero], !.basicCost = BasicOOBCosts(t)])
\* heuristic: the cost of every variable.  The basic costs are added to, not set.
ComputeGivenCostFunction(t, heuristic) ==
  AddReducedCosts([t EXCEPT !.cost = [j \in DOMAIN t.nonbasic |-> heuristic[t.nonbasic[j]]],
                            !.basicCost = Known([i \in DOMAIN t.basic |-> t.basicCost[i] ++ heuristic[t.basic[i]]])])
AdjustBasicCostAccuracy(t) ==
  LET Within(i) == \/ t.basicCost[i] \prec Zero /\ t.lower[t.basic[i]] -- t.tol \preceq t.xB[i]
                   \/ Zero \prec t.basicCost[i] /\ t.xB[i] \preceq t.upper[t.basic[i]] ++ t.tol
      costs == Known([i \in DOMAIN t.basic |-> IF Within(i) THEN Zero ELSE t.basicCost[i]])
  IN  IF costs = t.basicCost THEN t ELSE AddReducedCosts([t EXCEPT !.basicCost = costs])
\* The leaving variable is about to lie on a bound: it costs nothing any more.
CostForPivot(t) ==
  LET p == t.leaving
      e == t.entering
      accurate == Neg(Dot(t.basicCost, t.change))
      entering == accurate // Neg(t.change[p])
      next == [t EXCEPT !.cost = Known([j \in DOMAIN t.cost |-> IF j = e THEN entering -- t.basicCost[p] ELSE t.cost[j] -- t.row.coefficients[j] ** entering]),
                        !.basicCost[p] = Zero, !.costStatus = "updated"]
  IN  IF accurate = t.cost[e] THEN next ELSE InvalidateCostFunction(next)

(****************************************************************************)
(* Pivots.  entering and leaving are indices; leaving = 0 is a fake pivot,  *)
(* in which the entering variable hops to its other bound.                  *)
(****************************************************************************)
EligibleForEntry(t, j) ==
  LET v == t.nonbasic[j]
  IN  \/ t.cost[j] \prec Zero /\ t.xN[j] \prec t.upper[v] -- t.tol
      \/ Zero \prec t.cost[j] /\ t.lower[v] ++ t.tol \prec t.xN[j]
EntryCandidates(t) == SelectSeq(Indices(t.nonbasic), LAMBDA j : EligibleForEntry(t, j))
ComputeChangeColumn(t) == [t EXCEPT !.change = ForwardTransformation(t, AColumn(t, t.nonbasic[t.entering]))]
Decreases(t) == Zero \prec t.cost[t.entering]

\* Does basic i rise, and where does it stop?  An infinite limit: nowhere.
Rises(t, i) == IF Decreases(t) THEN Zero \prec t.change[i] ELSE t.change[i] \prec Zero
Limit(t, i) ==
  LET v == t.basic[i]
  IN  CASE Rises(t, i) /\ ~t.optimizing /\ Zero \prec t.basicCost[i] -> Infinity
        [] Rises(t, i) /\ ~t.optimizing /\ t.basicCost[i] \prec Zero -> t.lower[v]
        [] Rises(t, i) /\ (t.optimizing \/ t.basicCost[i] = Zero) -> t.upper[v]
        [] ~Rises(t, i) /\ ~t.optimizing /\ t.basicCost[i] \prec Zero -> Neg(Infinity)
        [] ~Rises(t, i) /\ ~t.optimizing /\ Zero \prec t.basicCost[i] -> t.upper[v]
        [] OTHER -> t.lower[v]
Beyond(t, i) == IF Rises(t, i) THEN Limit(t, i) \prec t.xB[i] ELSE t.xB[i] \prec Limit(t, i)
\* How far the entering variable may go, without its sign.
RatioConstraint(t, i, slack) ==
  (IF Beyond(t, i) THEN slack ELSE AbsRat(Limit(t, i) -- t.xB[i]) ++ slack) // AbsRat(t.change[i])
OwnDistance(t) ==
  LET v == t.nonbasic[t.entering]
  IN  IF Decreases(t) THEN t.xN[t.entering] -- t.lower[v] ELSE t.upper[v] -- t.xN[t.entering]
Restricting(t) == SelectSeq(Indices(t.basic), LAMBDA i : t.change[i] /= Zero)
LOCAL Leaves(t, i, distance) == [t EXCEPT !.leaving = i, !.distance = distance, !.increases = i /= 0 /\ Rises(t, i)]

\* The smallest ratio; among equals the largest pivot, the variable's own bound last.
StandardRatioTest(t) ==
  LET Consider(s, i) ==
        LET ratio == RatioConstraint(t, i, Zero)
            pivot == AbsRat(t.change[i])
        IN  IF ratio \prec s.ratio \/ (ratio = s.ratio /\ s.pivot \prec pivot) THEN [ratio |-> ratio, i |-> i, pivot |-> pivot] ELSE s
      best == FoldLeft(Consider, [ratio |-> OwnDistance(t), i |-> 0, pivot |-> Zero], Restricting(t))
  IN  Leaves(t, best.i, best.ratio)
\* Two passes: the smallest of the relaxed ratios; then the largest pivot whose ratio is no larger.
HarrisCandidates(t) == SelectSeq(Restricting(t), LAMBDA i : Limit(t, i)[2] /= 0)
HarrisOptimalRatio(t) == FoldLeft(LAMBDA r, i : Smaller(r, RatioConstraint(t, i, t.harris)), Infinity, HarrisCandidates(t))
HarrisLeaving(t, optimal) ==
  LET Consider(s, i) == IF RatioConstraint(t, i, Zero) \preceq optimal /\ (s = 0 \/ AbsRat(t.change[s]) \prec AbsRat(t.change[i])) THEN i ELSE s
      best == FoldLeft(Consider, 0, HarrisCandidates(t))
  IN  Leaves(t, best, RatioConstraint(t, best, Zero))
HarrisRatioTest(t) ==
  LET optimal == HarrisOptimalRatio(t)
  IN  IF OwnDistance(t) \preceq optimal THEN Leaves(t, 0, OwnDistance(t)) ELSE HarrisLeaving(t, optimal)
PickLeavingVariable(t) == IF t.useHarris THEN HarrisRatioTest(t) ELSE StandardRatioTest(t)

\* Row i of the tableau: basic[i] = scalar + the non-basic terms.
TableauRow(t, i) ==
  LET multipliers == BackwardTransformation(t, [k \in DOMAIN t.basic |-> IF k = i THEN One ELSE Zero])
  IN  [lhs |-> t.basic[i], scalar |-> IF t.rhsIsAllZeros THEN Zero ELSE ForwardTransformation(t, t.b)[i],
       coefficients |-> Known([j \in DOMAIN t.nonbasic |-> Neg(Dot(multipliers, AColumn(t, t.nonbasic[j])))])]
ComputePivotRow(t) == [t EXCEPT !.row = TableauRow(t, t.leaving)]

\* The bound a leaving variable goes to depends on where it comes from.
GoesToUpperBound(t) == IF t.increases THEN t.status[t.leaving] /= -1 ELSE t.status[t.leaving] = 1
UpdateAssignmentForPivot(t) ==
  LET p == t.leaving
      e == t.entering
      bound(v, up) == IF up THEN t.upper[v] ELSE t.lower[v]
      target == IF p = 0 THEN bound(t.nonbasic[e], ~Decreases(t)) ELSE bound(t.basic[p], GoesToUpperBound(t))
      delta == IF p = 0 THEN target -- t.xN[e] ELSE (target -- t.xB[p]) // Neg(t.change[p])
      moved == [t EXCEPT !.assignment = "updated", !.xN[e] = target,
                         !.xB = Known([i \in DOMAIN t.xB |-> IF i = p THEN t.xN[e] ++ delta ELSE t.xB[i] -- t.change[i] ** delta])]
  IN  [moved EXCEPT !.status = Known([i \in DOMAIN t.status |-> IF i = p THEN t.status[i] ELSE Status(t, t.basic[i], moved.xB[i])])]
Exchanged(t) == [t EXCEPT !.basic[t.leaving] = t.nonbasic[t.entering], !.nonbasic[t.entering] = t.basic[t.leaving]]
\* Row and column of the pivot element must agree.
PivotIsMalformed(t) == t.leaving /= 0 /\ t.row.coefficients[t.entering] /= Neg(t.change[t.leaving])
PerformPivot(t) ==
  IF t.leaving = 0 THEN UpdateAssignmentForPivot(t)
  ELSE UpdateToAdjacentBasis(ComputeBasicStatus(Exchanged(CostForPivot(UpdateAssignmentForPivot(t))), t.leaving), t.leaving, t.change)
\* The two variables keep their values.
PerformDegeneratePivot(t) ==
  LET p == t.leaving
      s == UpdateToAdjacentBasis(Exchanged(CostForPivot(t)), p, t.change)
  IN  ComputeBasicStatus([s EXCEPT !.xB[p] = t.xN[t.entering], !.xN[t.entering] = t.xB[p]], p)

(****************************************************************************)
(* The tableau set up, extended by an equation, its columns merged, stored  *)
(* and restored.                                                            *)
(****************************************************************************)
InitializeTableau(t, basics) ==
  LET nonbasic == SelectSeq(Indices(t.A[1]), LAMBDA v : ~Contains(basics, v))
      s == RefreshBasisFactorization([t EXCEPT !.basic = basics, !.nonbasic = nonbasic, !.xN = [j \in DOMAIN nonbasic |-> t.lower[nonbasic[j]]],
                                               !.xB = [i \in DOMAIN basics |-> Zero], !.status = [i \in DOMAIN basics |-> 0]])
  IN  InitializeCostFunction(ComputeAssignment(s))
NewTableau(A, b, lower, upper) ==
  [A |-> A, b |-> b, lower |-> lower, upper |-> upper, basic |-> <<>>, nonbasic |-> <<>>, xB |-> <<>>, xN |-> <<>>, status |-> <<>>, inv |-> <<>>, fresh |-> TRUE,
   cost |-> <<>>, basicCost |-> <<>>, costStatus |-> "invalid", assignment |-> "computed", merged |-> <<>>, entering |-> 0, leaving |-> 0, change |-> <<>>,
   distance |-> Zero, increases |-> FALSE, row |-> <<>>, rhsIsAllZeros |-> \A r \in DOMAIN b : b[r] = Zero, garbage |-> Zero, optimizing |-> FALSE, useHarris |-> TRUE, tol |-> Zero, harris |-> Zero]

\* equation: a coefficient per variable, and the scalar.  The bounds of the
\* auxiliary variable are what the equation leaves it.
AddRow(t, equation) ==
  LET m == Len(t.A) + 1
      A == Append([r \in DOMAIN t.A |-> Append(t.A[r], Zero)], Append(equation.coefficients, One))
  IN  InitializeCostFunction([t EXCEPT !.A = A, !.b = Append(t.b, equation.scalar), !.rhsIsAllZeros = @ /\ equation.scalar = Zero,
                                       !.lower = Append(t.lower, Neg(Infinity)), !.upper = Append(t.upper, Infinity)])
AddEquation(t, equation) ==
  LET aux == Len(t.A[1]) + 1
      c == equation.coefficients
      Least(v, x, y) == IF Zero \prec c[v] THEN c[v] ** x ELSE c[v] ** y
      lb == equation.scalar -- RatSum([v \in DOMAIN c |-> IF c[v] = Zero THEN Zero ELSE Least(v, t.upper[v], t.lower[v])])
      ub == equation.scalar -- RatSum([v \in DOMAIN c |-> IF c[v] = Zero THEN Zero ELSE Least(v, t.lower[v], t.upper[v])])
      value == equation.scalar -- RatSum([v \in DOMAIN c |-> IF c[v] = Zero THEN Zero ELSE c[v] ** GetValue(t, v)])
      row == AddRow(t, equation)
      s == RefreshBasisFactorization([row EXCEPT !.lower[aux] = lb, !.upper[aux] = ub, !.basic = Append(t.basic, aux)])
  IN  ComputeCoreCostFunction([s EXCEPT !.xB = Append(t.xB, value), !.status = Append(t.status, Status(s, aux, value)), !.basicCost = [i \in DOMAIN s.basic |-> Zero]])

MergeColumns(t, x1, x2) ==
  LET s == TightenLowerBound(TightenUpperBound(t, x1, t.upper[x2]), x1, t.lower[x2])
      A == Known([r \in DOMAIN t.A |-> [t.A[r] EXCEPT ![x1] = t.A[r][x1] ++ t.A[r][x2], ![x2] = Zero]])
  IN  ComputeCoreCostFunction(ComputeAssignment([s EXCEPT !.A = A, !.merged = (x2 :> x1) @@ t.merged]))

\* Everything but the bounds, which the context keeps.
StoreState(t) ==
  [A |-> t.A, b |-> t.b, basic |-> t.basic, nonbasic |-> t.nonbasic, xB |-> t.xB, xN |-> t.xN, assignment |-> t.assignment, inv |-> t.inv, merged |-> t.merged]
RestoreState(t, state) ==
  ComputeCoreCostFunction(InitializeCostFunction(ComputeAssignment(
    [t EXCEPT !.A = state.A, !.b = state.b, !.basic = state.basic, !.nonbasic = state.nonbasic, !.xB = state.xB, !.xN = state.xN,
              !.assignment = state.assignment, !.inv = state.inv, !.merged = state.merged, !.status = [i \in DOMAIN state.basic |-> 0]])))

\* One of the two is basic: the coefficient of x1 in what x2 is; none if it is zero.
LinearDependence(t, x1, x2) ==
  LET basic == IF IsBasic(t, x1) THEN x1 ELSE x2
      nonbasic == IF IsBasic(t, x1) THEN x2 ELSE x1
      c == Neg(ForwardTransformation(t, AColumn(t, nonbasic))[VariableToIndex(t, basic)])
  IN  IF IsBasic(t, x1) = IsBasic(t, x2) \/ c = Zero THEN <<>> ELSE IF basic = x2 THEN <<c, One // c>> ELSE <<One // c, c>>

SumOfInfeasibilities(t) ==
  RatSum([i \in DOMAIN t.basic |-> CASE t.status[i] = -1 -> t.lower[t.basic[i]] -- t.xB[i] [] t.status[i] = 1 -> t.xB[i] -- t.upper[t.basic[i]] [] OTHER -> Zero])
===============================================================================
