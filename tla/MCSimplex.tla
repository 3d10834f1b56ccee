------------------------------ MODULE MCSimplex ------------------------------
(****************************************************************************)
(* Simplex steps from several bases of small queries, by the three entry    *)
(* rules and both ratio tests, with what the engine does in between: bounds *)
(* tightened, equations added or merged, rows examined, constraints fixed,  *)
(* the initial state restored, a cost minimized; the equations a basis is   *)
(* chosen for; and the local search over costs that are minimized.          *)
(****************************************************************************)
EXTENDS MCNetwork    \* for its variable
LOCAL INSTANCE Integers
LOCAL INSTANCE Sequences
LOCAL INSTANCE SequencesExt
LOCAL INSTANCE FiniteSets
LOCAL INSTANCE FiniteSetsExt
LOCAL INSTANCE TLC
LOCAL INSTANCE Rationals
LOCAL INSTANCE Tableau
LOCAL INSTANCE Simplex
LOCAL INSTANCE ConstraintMatrix
LOCAL SoI == INSTANCE SoILocalSearch
LOCAL Br == INSTANCE Branching

LOCAL Known(f) == f @@ <<>>
LOCAL RatVector(s) == [i \in DOMAIN s |-> Rat(s[i])]
\* Three variables and an auxiliary one per equation, fixed to its scalar.
LOCAL Query(rows, scalars, lower, upper) ==
  [A |-> [r \in 1..2 |-> RatVector(rows[r] \o IF r = 1 THEN <<-1, 0>> ELSE <<0, -1>>)], b |-> <<Zero, Zero>>,
   lower |-> RatVector(lower \o scalars), upper |-> RatVector(upper \o scalars)]
LOCAL Queries ==
  {Query(<<<<1, -1, 1>>, <<2, 1, 0>>>>, <<1, 2>>, <<0, -1, -2>>, <<3, 2, 2>>),
   Query(<<<<1, 2, -1>>, <<0, 1, 1>>>>, <<3, 1>>, <<-1, 0, -1>>, <<2, 1, 1>>),
   Query(<<<<1, 1, 1>>, <<1, -1, 2>>>>, <<2, 6>>, <<0, 0, 0>>, <<1, 2, 1>>)}
\* Where x2 depends on x1 by a half or by 2, by 1 and by -1; the auxiliary variables may move.
LOCAL FixQueries ==
  {[Query(<<row, <<1, 1, 1>>>>, <<0, 0>>, <<-2, 0, -9>>, <<2, 2, 9>>) EXCEPT !.lower[4] = Rat(-9), !.upper[4] = Rat(9)] :
     row \in {<<1, -2, 0>>, <<1, -1, 0>>, <<1, 1, 0>>}}
LOCAL Heuristic(n) == [v \in 1..n |-> Rat(CASE v = 1 -> 1 [] v = 2 -> -2 [] OTHER -> 0)]
LOCAL Bases == {<<4, 5>>, <<3, 2>>}
LOCAL Settings ==
  {[rule |-> "pse", harris |-> TRUE, slack |-> Zero, acceptable |-> One, garbage |-> Zero],
   [rule |-> "pse", harris |-> FALSE, slack |-> Zero, acceptable |-> <<1, 4>>, garbage |-> One],
   [rule |-> "dantzig", harris |-> FALSE, slack |-> Zero, acceptable |-> Rat(2), garbage |-> Zero],
   [rule |-> "bland", harris |-> TRUE, slack |-> <<1, 4>>, acceptable |-> <<1, 4>>, garbage |-> Zero]}

(****************************************************************************)
(* The vertices of a problem: what the code has to find is among them.      *)
(****************************************************************************)
LOCAL VerticesWith(p, B) ==
  LET m == Len(p.A)
      S == CHOOSE s \in [1..m -> B] : {s[i] : i \in 1..m} = B
      inv == InverseMatrix([r \in 1..m |-> [j \in 1..m |-> p.A[r][S[j]]]])
      N == (1..Len(p.lower)) \ B
      Finite(v) == {x \in {p.lower[v], p.upper[v]} : x[2] /= 0}
      Sides == {x \in [N -> UNION {Finite(v) : v \in N}] : \A v \in N : x[v] \in Finite(v)}
      Point(x) == LET y == Known([r \in 1..m |-> p.b[r] -- RatSum([v \in N |-> p.A[r][v] ** x[v]])])
                  IN  Known([v \in 1..Len(p.lower) |-> IF v \in N THEN x[v] ELSE Dot(inv[CHOOSE i \in 1..m : S[i] = v], y)])
  IN  IF inv = <<>> THEN {} ELSE {z \in {Point(x) : x \in Sides} : \A v \in 1..Len(p.lower) : p.lower[v] \preceq z[v] /\ z[v] \preceq p.upper[v]}
LOCAL Vertices(p) == UNION {VerticesWith(p, B) : B \in kSubset(Len(p.A), 1..Len(p.lower))}
LOCAL Posed(j, p) == IF j.problem = p THEN j ELSE [j EXCEPT !.problem = p, !.vertices = Vertices(p)]

SimplexStarts == {[kind |-> "simplex", group |-> TRUE, basis |-> basis, setting |-> setting] : basis \in Bases, setting \in Settings}
LOCAL Started(p, s, acceptable, vertices) ==
  [kind |-> "simplex", group |-> FALSE, s |-> s, before |-> s, picked |-> <<>>, at |-> <<>>, acceptable |-> acceptable, problem |-> p, vertices |-> vertices,
   outcome |-> "again", op |-> "start", ops |-> 0, initial |-> [t |-> s.t, problem |-> p, vertices |-> vertices]]
LOCAL EngineOn(t, rule) == [t |-> t, rule |-> rule, pse |-> ResetReferenceSpace(t), heuristic |-> Heuristic(6)]
LOCAL Start(p, basis, x) ==
  Started(p, EngineOn(InitializeTableau([NewTableau(p.A, p.b, p.lower, p.upper) EXCEPT !.useHarris = x.harris, !.harris = x.slack, !.garbage = x.garbage], basis), x.rule),
          x.acceptable, Vertices(p))

\* The non-basic variable of the first two, and the auxiliary one, have these values.
LOCAL Placed(p, basis, x, aux) ==
  LET start == Start(p, basis, job.setting)
      v == IF basis = <<1, 3>> THEN 2 ELSE 1
  IN  /\ CheckValueWithinBounds(start.s.t, v, Rat(x))
      /\ job' = [start EXCEPT !.s.t = SetNonBasicAssignment(SetNonBasicAssignment(@, v, Rat(x)), 4, Rat(aux)), !.op = "placed", !.ops = 1]

----------------------------------------------------------------------------
\* The engine steps while something is out of bounds, or to minimize a cost.
Step ==
  /\ job.outcome = "again" /\ (job.s.t.optimizing \/ ExistsBasicOutOfBounds(job.s.t))
  /\ \E r \in {PerformSimplexStep(job.s, job.acceptable)} :
         job' = [job EXCEPT !.s = r.s, !.before = job.s, !.picked = r.picked, !.at = IF r.picked = <<>> THEN <<>> ELSE r.before, !.outcome = r.outcome, !.op = "step"]
\* minimizeHeuristicCost.
Minimize ==
  /\ job.outcome = "again" /\ ~job.s.t.optimizing /\ ~ExistsBasicOutOfBounds(job.s.t)
  /\ job' = [job EXCEPT !.s.t.optimizing = TRUE, !.op = "minimize", !.picked = <<>>]

LOCAL Operation(op, s, p) ==
  job' = Posed([job EXCEPT !.s = s, !.before = job.s, !.picked = <<>>, !.op = op, !.ops = @ + 1], p)
Between(max) == job.ops < max /\ job.outcome = "again" /\ ~job.s.t.optimizing
Tighten(v, isLower, value) ==
  /\ Between(1) /\ job.problem.lower[v] \prec value /\ value \prec job.problem.upper[v]
  /\ Operation("tighten", ApplyBound(job.s, v, isLower, value),
               IF isLower THEN [job.problem EXCEPT !.lower[v] = Larger(value, @)] ELSE [job.problem EXCEPT !.upper[v] = Smaller(value, @)])
Equation(coefficients, scalar, type, merging) ==
  /\ Between(1)
  /\ Operation("equation", ApplyEquation(job.s, [coefficients |-> coefficients, scalar |-> scalar, type |-> type], merging),
               [A |-> Append([r \in DOMAIN job.problem.A |-> Append(job.problem.A[r], Zero)], Append(coefficients, One)), b |-> Append(job.problem.b, scalar),
                lower |-> Append(job.problem.lower, IF type \in {"EQ", "LE"} THEN Zero ELSE Neg(Infinity)),
                upper |-> Append(job.problem.upper, IF type \in {"EQ", "GE"} THEN Zero ELSE Infinity)])
Examine(r) ==
  /\ Between(1)
  /\ job' = [job EXCEPT !.s.t = r.t, !.before = job.s, !.picked = <<>>, !.op = "examine", !.ops = @ + 1, !.outcome = IF r.infeasible THEN "infeasible" ELSE "again"]
\* A constraint that is violated, with f in its range.
LOCAL FConstraint(kind, b, f, direction) == [kind |-> kind, b |-> b, f |-> f, slope |-> <<1, 2>>, direction |-> direction]
LOCAL HoldsAt(c, b, f) ==
  f = CASE c.kind = "relu" -> Larger(b, Zero) [] c.kind = "leaky" -> Larger(b, b ** c.slope) [] c.kind = "abs" -> AbsRat(b) [] OTHER -> IF b \prec Zero THEN Rat(-1) ELSE One
LOCAL InRange(c) ==
  CASE c.kind = "leaky" -> TRUE [] c.kind = "sign" -> Rat(-1) \preceq job.problem.lower[c.f] /\ job.problem.upper[c.f] \preceq One [] OTHER -> Zero \preceq job.problem.lower[c.f]
LOCAL Fixes(tableau, c, smart) == IF smart THEN GetSmartFixes(tableau, c) ELSE GetPossibleFixes(tableau, c)
Fix(c, smart) ==
  /\ Between(IF job.op = "placed" THEN 2 ELSE 1) /\ ~ExistsBasicOutOfBounds(job.s.t)
  /\ (c.kind \in {"abs", "sign"} => c.direction = "active") /\ c.b /= c.f /\ InRange(c) /\ ~HoldsAt(c, GetValue(job.s.t, c.b), GetValue(job.s.t, c.f))
  /\ \E s \in {FixViolatedPlConstraintIfPossible(job.s, Fixes(job.s.t, c, smart))} :
       s /= job.s /\ job' = [job EXCEPT !.s = s, !.before = job.s, !.picked = <<>>, !.at = [c |-> c, smart |-> smart], !.op = "fix", !.ops = @ + 1]
LOCAL FixedConstraints ==
  {FConstraint(kind, b, f, direction) : kind \in {"relu", "leaky", "abs", "sign"}, b \in {1, 4}, f \in 1..2, direction \in {"active", "inactive"}}
\* Back to the initial state: the whole tableau, or the bounds alone if it has no new rows.
Restore(whole) ==
  /\ job.ops < 2 /\ ~job.s.t.optimizing /\ (whole \/ Len(job.problem.A) = 2)
  /\ LET bounds == UpdateVariablesToComplyWithBounds([job.s.t EXCEPT !.lower = job.initial.t.lower, !.upper = job.initial.t.upper])
         fresh == [job.s EXCEPT !.t = IF whole THEN [job.s.t EXCEPT !.lower = job.initial.t.lower, !.upper = job.initial.t.upper] ELSE bounds]
     IN  \E s \in {IF whole THEN RestoreEngineState(fresh, StoreState(job.initial.t)) ELSE ResizeHook([fresh EXCEPT !.t = InitializeCostFunction(fresh.t)])} :
         job' = [job EXCEPT !.s = s, !.before = job.s, !.picked = <<>>, !.op = "restore", !.ops = 2, !.outcome = "again",
                            !.problem = job.initial.problem, !.vertices = job.initial.vertices]

SimplexJob ==
  /\ job.kind = "simplex"
  /\ \/ job.group /\ \E p \in Queries : job' = Start(p, job.basis, job.setting)
     \/ job.group /\ job.setting.rule = "bland" /\ \E p \in FixQueries, x \in -2..2, aux \in -2..2 : Placed(p, IF job.basis = <<4, 5>> THEN <<1, 3>> ELSE <<3, 2>>, x, aux)
     \/ /\ ~job.group
        /\ \/ Step \/ Minimize
           \/ \E v \in 1..2, isLower \in BOOLEAN, value \in {Zero, One} : Tighten(v, isLower, value)
           \/ \E e \in {<<<<1, 0, -1, 0, 0>>, Zero, "EQ", TRUE>>, <<<<1, 1, -1, 0, 0>>, One, "LE", FALSE>>} :
                Equation(RatVector(e[1]), e[2], e[3], e[4])
           \/ \E r \in {ExamineConstraintMatrix(job.s.t), ExamineInvertedBasisMatrix(job.s.t), ExamineImplicitInvertedBasisMatrix(job.s.t)} : Examine(r)
           \/ \E c \in FixedConstraints, smart \in BOOLEAN : Fix(c, smart)
           \/ \E whole \in BOOLEAN : Restore(whole)

----------------------------------------------------------------------------
LOCAL Running == job.kind = "simplex" /\ ~job.group
LOCAL t == job.s.t
LOCAL Stepped == Running /\ job.op = "step" /\ job.picked /= <<>>
LOCAL Value(v) == GetValue(t, v)

\* The assignment satisfies the equations of the query and the rows of the tableau, whatever was
\* pivoted, moved, merged or restored (Tableau::verifyInvariants, updateAssignmentForPivot).
TableauHolds ==
  Running /\ job.outcome /= "malformed" =>
    /\ \A r \in 1..2 : RatSum([v \in 1..5 |-> job.initial.problem.A[r][v] ** Value(v)]) = Zero
    /\ \A r \in DOMAIN t.A : RatSum([v \in Variables(t) |-> IF t.A[r][v] = Zero THEN Zero ELSE t.A[r][v] ** Value(v)]) = t.b[r]

\* The factorization is that of the columns of the basic variables, which with the non-basic ones
\* are all the variables; so rows by the backward and columns by the forward transformation agree.
FactorizationCurrent ==
  Running =>
    /\ {t.basic[i] : i \in DOMAIN t.basic} \cup {t.nonbasic[j] : j \in DOMAIN t.nonbasic} = Variables(t)
    /\ Len(t.basic) + Len(t.nonbasic) = Len(t.A[1])
    /\ \A i \in DOMAIN t.basic : ForwardTransformation(t, AColumn(t, t.basic[i])) = [k \in DOMAIN t.basic |-> IF k = i THEN One ELSE Zero]
    /\ \A i \in DOMAIN t.basic : LET row == TableauRow(t, i) IN
         /\ t.xB[i] = row.scalar ++ Dot(row.coefficients, t.xN)
         /\ \A j \in DOMAIN t.nonbasic : row.coefficients[j] /= Zero => LinearDependence(t, t.nonbasic[j], t.basic[i])[1] = row.coefficients[j]

\* Outside a pivot, non-basic variables are within their bounds and the status of every basic one
\* is right (verifyInvariants): as long as the bounds themselves do not cross.
StatusesCurrent ==
  Running /\ (\A v \in Variables(t) : t.lower[v] \preceq t.upper[v]) =>
    /\ \A j \in DOMAIN t.nonbasic : t.nonbasic[j] \in DOMAIN t.merged \/ CheckValueWithinBounds(t, t.nonbasic[j], t.xN[j])
    /\ \A i \in DOMAIN t.basic : t.status[i] = Status(t, t.basic[i], t.xB[i])

\* minimizeHeuristicCost adds to the basic costs the last cost function left: the first step is exempt.
LOCAL LeftoverCosts == job.before.t.optimizing /\ \E i \in DOMAIN job.before.t.basicCost : job.before.t.basicCost[i] /= Zero
\* The costs by which an entering variable is picked are the derivative of the sum of
\* infeasibilities, or of the cost to minimize (computeCoreCostFunction, computeGivenCostFunction).
CostFunctionCurrent ==
  Stepped /\ ~LeftoverCosts =>
    LET p == job.picked
        own(v) == IF p.optimizing THEN job.s.heuristic[v] ELSE Zero
        weight(i) == IF p.optimizing THEN job.s.heuristic[p.basic[i]] ELSE Rat(p.status[i])
        rows == Known([i \in DOMAIN p.basic |-> TableauRow(p, i).coefficients])
    IN  \A j \in DOMAIN p.nonbasic : p.cost[j] = own(p.nonbasic[j]) ++ RatSum([i \in DOMAIN p.basic |-> weight(i) ** rows[i][j]])

\* The bounds learned from the pivot row move no variable but the entering one, so the pivot made
\* is the pivot picked (performSimplexStep, examinePivotRow, setNonBasicAssignment).
PivotAsPicked ==
  Stepped =>
    /\ job.at.entering = job.picked.entering /\ job.at.leaving = job.picked.leaving
    /\ \A j \in DOMAIN job.at.xN : j /= job.at.entering => job.at.xN[j] = job.picked.xN[j]

\* A pivot in the direction it was picked with, which is lost if several candidates were tried
\* (Engine.cpp:783-786), and with the bounds it was picked with.
LOCAL AsPicked ==
  /\ job.at.entering = job.picked.entering /\ job.at.increases = job.picked.increases
  /\ job.at.lower = job.picked.lower /\ job.at.upper = job.picked.upper /\ job.at.xB = job.picked.xB
\* A pivot made as it was picked increases no sum of infeasibilities and takes no variable out of
\* its bounds but by the tolerance of the Harris test (standardRatioTest, harrisRatioTest).
StepNeverWorsens ==
  Stepped /\ AsPicked /\ ~LeftoverCosts =>
    LET p == job.picked
        slack == p.harris ++ p.harris
    IN  /\ SumOfInfeasibilities(t) \preceq SumOfInfeasibilities(p) ++ slack
        /\ \A v \in Variables(p) : CheckValueWithinBounds(p, v, GetValue(p, v)) =>
             t.lower[v] -- p.harris \preceq Value(v) /\ Value(v) \preceq t.upper[v] ++ p.harris

\* A fix that needs no pivot repairs its constraint: if b and f depend on each other a smart one
\* does, up to an f below its lower bound, and otherwise every one does (getSmartFixes,
\* getPossibleFixes, fixViolatedPlConstraintIfPossible).
FixRepairs ==
  Running /\ job.op = "fix" =>
    LET c == job.at.c
        before == job.before.t
        direct == {x \in ToSet(Fixes(before, c, job.at.smart)) : ~IsBasic(before, x.v) /\ CheckValueWithinBounds(before, x.v, x.value)}
    IN  direct /= {} /\ (LinearDependence(before, c.b, c.f) = <<>> \/ (job.at.smart /\ c.kind = "relu")) =>
          HoldsAt(c, Value(c.b), Value(c.f)) \/ (c.kind = "relu" /\ Value(c.b) = Value(c.f) /\ Value(c.f) \prec t.lower[c.f])

\* Infeasible is answered only if the query has no solution, and a minimum is one
\* (performSimplexStep, minimizeHeuristicCost).
VerdictRight ==
  Running =>
    /\ job.outcome = "infeasible" => job.vertices = {}
    /\ job.outcome = "optimal" /\ ~LeftoverCosts /\ t.harris = Zero =>
         LET Cost(x) == RatSum([v \in 1..5 |-> job.s.heuristic[v] ** x[v]]) IN \A x \in job.vertices : Cost([v \in 1..5 |-> Value(v)]) \preceq Cost(x)

\* No learned bound cuts off a solution (RowBoundTightener).
TighteningsSound ==
  Running => \A x \in job.vertices, v \in Variables(t) : v \in DOMAIN x => t.lower[v] \preceq x[v] /\ x[v] \preceq t.upper[v]

\* The weights updated pivot by pivot are the lengths they stand for
\* (ProjectedSteepestEdge.cpp:180-256).
GammaExact ==
  Running /\ job.s.rule = "pse" /\ job.op \in {"step", "fix"} /\ job.outcome = "again" =>
    \A j \in DOMAIN t.nonbasic :
      LET column == ForwardTransformation(t, AColumn(t, t.nonbasic[j]))
          In(v) == IF v \in job.s.pse.reference THEN One ELSE Zero
      IN  job.s.pse.gamma[j] = In(t.nonbasic[j]) ++ RatSum([i \in DOMAIN t.basic |-> In(t.basic[i]) ** (column[i] ** column[i])])

(****************************************************************************)
(* Three equations over four variables, each of a few; the elimination goes *)
(* one pivot at a time by every choice among equals.                        *)
(****************************************************************************)

LOCAL n == 4
LOCAL Rows == {<<1, 1, 0, 0>>, <<1, 1, -1, 0>>, <<0, 0, 1, -1>>, <<1, 1, 0, -1>>, <<2, 0, 0, 20>>, <<0, 3, 1, 0>>, <<0, -1, 0, 0>>}
LOCAL EquationOf(row, scalar) ==
  [addends |-> SelectSeq([v \in 1..n |-> <<Rat(row[v]), v>>], LAMBDA a : a[1] /= Zero), scalar |-> Rat(scalar), type |-> "EQ"]
MatrixStarts == {[kind |-> "matrix", phase |-> "group", first |-> row] : row \in Rows}
MatrixJob ==
  /\ job.kind = "matrix"
  /\ \/ /\ job.phase = "group"
        /\ \E r2, r3 \in Rows, scalar \in {0, 1} :
             LET equations == <<EquationOf(job.first, 1), EquationOf(r2, 1), EquationOf(r3, scalar)>>
             IN  job' = [kind |-> "matrix", phase |-> "analyzing", equations |-> equations, a |-> StartAnalysis(CreateConstraintMatrix(equations, n))]
     \/ /\ job.phase = "analyzing"
        /\ LET pivots == IF job.a.step > Height(job.a) THEN {} ELSE ChooseAnalysisPivot(job.a)
               kept == RemoveEquationsByIndex(job.equations, GetRedundantRows(job.a))
               selection == SelectInitialVariablesForBasis(CreateConstraintMatrix(kept, n))
               aux == AddAuxiliaryVariables(kept, n)
           IN  \/ \E p \in pivots : job' = [job EXCEPT !.a = EliminateBelow(PermuteAnalysis(job.a, p))]
               \/ /\ pivots = {}
                  /\ job' = job @@ [kept |-> kept, aux |-> aux, A |-> CreateConstraintMatrix(aux.equations, n + Len(kept)),
                                    basis |-> AugmentInitialBasisIfNeeded(selection, Len(kept), n)]
                  
----------------------------------------------------------------------------
LOCAL Analyzing == job.kind = "matrix" /\ job.phase = "analyzing"
LOCAL Analyzed == Analyzing /\ "kept" \in DOMAIN job
\* The rank of a sequence of rows, from its minors.
LOCAL Minor(A, R, C) ==
  LET r == SetToSortSeq(R, <)
      c == SetToSortSeq(C, <)
  IN  InverseMatrix([i \in DOMAIN r |-> [j \in DOMAIN c |-> A[r[i]][c[j]]]]) /= <<>>
LOCAL Rank(A) ==
  Max({0} \cup {k \in 1..Len(A) : \E R \in kSubset(k, DOMAIN A), C \in kSubset(k, DOMAIN A[1]) : Minor(A, R, C)})
LOCAL WithScalars(equations) ==
  LET A == CreateConstraintMatrix(equations, n) IN [i \in DOMAIN equations |-> Append(A[i], equations[i].scalar)]

\* The counters by which pivots are chosen count the nonzero elements of the active part
\* (ConstraintMatrixAnalyzer.cpp:365-452).
CountersExact ==
  Analyzing =>
    /\ \A i \in ActiveRows(job.a) : job.a.rows[i] = Cardinality({j \in ActiveColumns(job.a) : Element(job.a, i, j) /= Zero})
    /\ \A j \in ActiveColumns(job.a) : job.a.columns[j] = Cardinality({i \in ActiveRows(job.a) : Element(job.a, i, j) /= Zero})

\* The columns found are as many as the rank, and independent; the rows not found redundant
\* have that rank too; and if the equations have a solution, those that are kept have no others.
RedundantRowsDependent ==
  Analyzed =>
    LET A == CreateConstraintMatrix(job.equations, n)
        columns == GetIndependentColumns(job.a)
        consistent == Rank(WithScalars(job.equations)) = Rank(A)
    IN  /\ Len(job.kept) = Rank(A) /\ Len(columns) = Rank(A) /\ Rank(CreateConstraintMatrix(job.kept, n)) = Rank(A)
        /\ \E R \in kSubset(Rank(A), DOMAIN A) : Minor(A, R, Range(columns))
        /\ consistent => Rank(WithScalars(job.kept)) = Rank(WithScalars(job.equations))

\* What selectInitialVariablesForBasis and the auxiliary variables make is a basis, and the
\* equations with them are the equations without.
InitialBasisRight ==
  Analyzed =>
    /\ Len(job.basis) = Len(job.kept)
    /\ Minor(job.A, DOMAIN job.kept, Range(job.basis)) /\ Cardinality(Range(job.basis)) = Len(job.basis)
    /\ \A i \in DOMAIN job.kept : job.A[i] = CreateConstraintMatrix(job.kept, n)[i] \o [k \in DOMAIN job.kept |-> IF k = i THEN Rat(-1) ELSE Zero]
                                  /\ job.aux.bounds[i] = job.kept[i].scalar

\* An equation that is removed follows from those that remain (removeRedundantEquations).
RemovedEquationsFollow == Analyzed => Rank(WithScalars(job.kept)) = Rank(WithScalars(job.equations))
\* The counters of the elimination are exact, the rows it calls redundant depend on
\* the others, and the basis chosen from it is one (ConstraintMatrixAnalyzer.cpp,
\* Engine.cpp:1056-1323).
InitialBasisSound ==
  /\ CountersExact
  /\ RedundantRowsDependent
  /\ InitialBasisRight

(****************************************************************************)
(* Small queries in which costs have integral optima, from every point.     *)
(****************************************************************************)

LOCAL Open == [active |-> TRUE, phase |-> "PHASE_NOT_FIXED"]
LOCAL TheRelu(b, f, aux) == [kind |-> "relu", b |-> b, f |-> f, aux |-> aux]
LOCAL TheSign == [kind |-> "sign", b |-> 1, f |-> 2]
LOCAL TheLeaky == [kind |-> "leaky", b |-> 3, f |-> 4, activeAux |-> 5, inactiveAux |-> 6, k |-> 2]
LOCAL TheAbs == [kind |-> "abs", b |-> 1, f |-> 2, posAux |-> 3, negAux |-> 4]
LOCAL TheMax == [kind |-> "max", f |-> 6, elements |-> {2, 5}, aux |-> (2 :> 7) @@ (5 :> 8), maxValueOfEliminated |-> 1]
LOCAL Disjunction == [kind |-> "disj", disjuncts |-> {{[key |-> <<2, "UB">>, value |-> 0]}, {[key |-> <<2, "LB">>, value |-> 2]}}]
LOCAL Within(p, lower, upper) == \A v \in DOMAIN p : lower[v] <= p[v] /\ p[v] <= upper[v]
\* The network is evaluated at the inputs unless graph is empty.
LOCAL SoIQuery(constraints, states, all, lower, upper, network) ==
  LET points == {p \in all : Within(p, lower, upper)}
  IN  [constraints |-> constraints, states |-> states, points |-> points, inputs |-> {1}, unnoticed |-> {},
       graph |-> IF network THEN {p \in all : \A i \in DOMAIN constraints : SoI!Satisfied(constraints[i], p)} ELSE {}]

LOCAL TwoRelus(least) ==
  SoIQuery(<<TheRelu(1, 2, 3), TheRelu(4, 5, 6)>>, <<Open, Open>>,
           {<<b, f, f - b, f - 1, g, g - (f - 1)>> : b \in -2..2, f \in 0..2, g \in 0..1},
           <<-2, 0, 0, -1, least, 0>>, <<IF least = 1 THEN 0 ELSE 2, 2, 2, 1, 1, 1>>, least = 0)
\* f1 + f2 is at least this; the sign constraint may not have noticed that its f is 1.
LOCAL HiddenSolution(least) ==
  [SoIQuery(<<TheRelu(1, 2, 3), TheRelu(4, 5, 6), [kind |-> "sign", b |-> 8, f |-> 9]>>, <<Open, Open, IF least = 3 THEN Open ELSE [Open EXCEPT !.phase = "SIGN_PHASE_POSITIVE"]>>,
            {<<b, f, f - b, 1 - f, g, g - (1 - f), f + g, 1, 1>> : b \in -2..2, f \in 0..2, g \in 0..2},
            <<-2, 0, 0, -1, 0, 0, least, 0, 1>>, <<2, 2, 2, 1, 2, 2, 4, 2, 1>>, FALSE) EXCEPT !.unnoticed = IF least = 3 THEN {3} ELSE {}]
LOCAL AbsMax(network) ==
  SoIQuery(<<TheAbs, TheMax>>, <<Open, [active |-> TRUE, elements |-> {2, 5}, maxLowerBound |-> 1, haveEliminated |-> TRUE]>>,
           {<<x, f, f - x, f + x, 2 - f, m, m - f, m - (2 - f)>> : x \in -2..2, f \in 0..2, m \in 0..2},
           <<-2, 0, 0, 0, 0, 1, 0, 0>>, <<2, 2, 4, 4, 2, 2, 2, 2>>, network)
LOCAL SignLeaky ==
  SoIQuery(<<TheSign, TheLeaky>>, <<Open, Open>>,
           {p \in {<<b, s, 2 * s, f, f - 2 * s, f - s>> : b \in -2..2, s \in -1..1, f \in -1..2} : SoI!Sign!AuxiliaryEquations(TheSign, -2, 2, p)},
           <<-2, -1, -2, -1, 0, 0>>, <<2, 1, 2, 2, 4, 3>>, FALSE)
LOCAL ReluDisjunction(state, feasible) ==
  SoIQuery(<<TheRelu(1, 2, 3), Disjunction>>, <<state, [active |-> TRUE, feasible |-> feasible]>>,
           {<<b, f, f - b>> : b \in -2..2, f \in 0..2}, <<-2, 0, 0>>, <<2, 2, 2>>, FALSE)
LOCAL SearchQueries ==
  {TwoRelus(0), TwoRelus(1), HiddenSolution(2), HiddenSolution(3), AbsMax(TRUE), AbsMax(FALSE), SignLeaky,
   ReluDisjunction(Open, Disjunction.disjuncts)}
  \cup {ReluDisjunction([Open EXCEPT !.phase = "RELU_PHASE_ACTIVE"], x) : x \in {Disjunction.disjuncts, {{[key |-> <<2, "LB">>, value |-> 2]}}}}

LocalSearchStarts == {[kind |-> "search", group |-> TRUE, strategy |-> strategy] : strategy \in {"mcmc", "walksat"}}
LOCAL Begin(query, p) ==
  job' = [kind |-> "search", group |-> FALSE,
          l |-> [q |-> query @@ [strategy |-> job.strategy, threshold |-> 2], pc |-> "begin", rejections |-> 0, cost |-> 0, costProposed |-> 0,
                 lastAccepted |-> TRUE, proposed |-> <<>>,
                 s |-> [point |-> p, fixed |-> {}, current |-> <<>>, accepted |-> <<>>, updated |-> {}]]]
LOCAL Continue(next) == \E l \in next : job' = [job EXCEPT !.l = l]
LocalSearchJob ==
  /\ job.kind = "search"
  /\ \/ job.group /\ \E query \in SearchQueries : \E p \in query.points : Begin(query, p)
     \/ /\ ~job.group
        /\ \/ job.l.pc = "begin" /\ Continue(SoI!BeginSearch(job.l))
           \/ job.l.pc = "judge" /\ Continue(SoI!JudgePoint(job.l))
           \/ job.l.pc = "propose" /\ Continue(SoI!MinimizeProposal(job.l))
           \/ job.l.pc = "decide" /\ Continue(SoI!Decide(job.l))

LOCAL SearchAt(pc) == job.kind = "search" /\ ~job.group /\ job.l.pc = pc
\* The sign constraint's cost is zero at b = 0, f = -1, which violates it.
LOCAL SatisfiedUpToBorder(c, p) == SoI!Satisfied(c, p) \/ (c.kind = "sign" /\ SoI!Sign!HoldsUpToBorder(c, p))

\* A cost term is never negative, zero only where its constraint holds, and where the constraint
\* holds it is zero in the phase of the point (getCostFunctionComponent, getPhaseStatusInAssignment).
CostsMeasureViolation ==
  SearchAt("begin") =>
    \A i \in SoI!Participants(job.l.q, job.l.s) : \A p \in job.l.q.points :
      LET c == job.l.q.constraints[i] IN
      /\ \A phase \in SoI!GetAllCases(job.l.q, i) : LET cost == SoI!CostComponent(job.l.q, job.l.s, i, phase, p) IN
           cost >= 0 /\ (cost = 0 => SatisfiedUpToBorder(c, p))
      /\ SoI!Satisfied(c, p) => SoI!CostComponent(job.l.q, job.l.s, i, SoI!GetPhaseStatusInAssignment(job.l.q, i, p), p) = 0

\* A point is not looked at after its proposal was rejected, because it is no solution; and if the
\* cost is zero, what is violated is not in the sum (Engine.cpp:3101-3142).  A proposal is another
\* pattern, of at least one constraint (proposePhasePatternUpdate, updatePseudoImpactWithSoICosts).
LocalSearchRight ==
  /\ SearchAt("judge") /\ ~job.l.lastAccepted => SoI!ViolatedPlConstraints(job.l.q, job.l.s.point) /= {}
  /\ SearchAt("judge") /\ job.l.lastAccepted /\ job.l.cost = 0 =>
       \A i \in SoI!ViolatedPlConstraints(job.l.q, job.l.s.point) :
         i \in DOMAIN job.l.s.accepted => SatisfiedUpToBorder(job.l.q.constraints[i], job.l.s.point)
  /\ SearchAt("decide") => job.l.proposed /= job.l.s.accepted /\ job.l.s.updated /= {}

(****************************************************************************)
\* Constraints after propagation: what is open has zero inside its bounds.
LOCAL Constraint(kind, lb, ub) == [kind |-> kind, lb |-> lb, ub |-> ub, phase |-> Br!NotFixed, active |-> TRUE]
LOCAL Relus == {Constraint("relu", lb, ub) : lb \in -2..-1, ub \in 1..2}
LOCAL FixedRelu == [Constraint("relu", 0, 2) EXCEPT !.phase = "active"]
LOCAL Pickable == Relus \cup {Constraint("sign", -1, ub) : ub \in 0..2}
                  \cup {FixedRelu, [Constraint("relu", -2, 2) EXCEPT !.active = FALSE]}
LOCAL BoxOf(cs) == [k \in DOMAIN cs |-> [lb |-> Rat(cs[k].lb), ub |-> Rat(cs[k].ub)]]
LOCAL Intervals == {[lb |-> Rat(l), ub |-> Rat(u)] : l \in -1..1, u \in 1..2}
LOCAL InputOrder == <<2, 1>>

BranchingStarts == {[kind |-> "branch", group |-> TRUE, of |-> of] : of \in {"pick", "divide", "bisect", "scores"}}
LOCAL Branch(what) == job' = [kind |-> "branch", group |-> FALSE, of |-> job.of] @@ what
LOCAL DivideRelus(cs, bisects) ==
  [box |-> BoxOf(cs), bisects |-> bisects,
   d |-> Br!DivideByPolarity([engine |-> [box |-> BoxOf(cs), cs |-> cs], parts |-> <<<<>>>>], bisects, 5)]
LOCAL NextScores(tracker) ==
  \E some \in (SUBSET DOMAIN tracker.score) \ {{}} :
    \/ \E proposed \in {0, 1, 4} : Branch([steps |-> job.steps + 1, t |-> Br!UpdatePseudoImpact(tracker, some, One, Rat(proposed))])
    \/ Branch([steps |-> job.steps + 1, t |-> Br!BumpUp(tracker, some)])
BranchingJob ==
  /\ job.kind = "branch"
  /\ \/ /\ job.group /\ job.of = "pick"
        /\ \E cs \in [1..3 -> Pickable], threshold \in {2, 5} : Branch([cs |-> cs, threshold |-> threshold])
     \/ /\ job.group /\ job.of = "divide"
        /\ \E cs \in [1..2 -> Relus \cup {FixedRelu}], bisects \in 0..2 : Branch(DivideRelus(cs, bisects))
     \/ /\ job.group /\ job.of = "bisect"
        /\ \E box \in [1..2 -> Intervals], bisects \in 0..2 :
             Branch([box |-> box, bisects |-> bisects, parts |-> Br!DivideByInterval(<<box>>, InputOrder, bisects)])
     \/ job.group /\ job.of = "scores" /\ Branch([steps |-> 0, t |-> Br!InitialTracker(3)])
     \/ ~job.group /\ job.of = "scores" /\ job.steps < 2 /\ NextScores(job.t)

LOCAL BranchAt(of) == job.kind = "branch" /\ ~job.group /\ job.of = of
LOCAL IsIn(p, box) == \A v \in DOMAIN box : box[v].lb \preceq p[v] /\ p[v] \preceq box[v].ub
LOCAL At(box, eighths) == [v \in DOMAIN box |-> box[v].lb ++ (Br!Width(box, v) ** <<eighths[v], 8>>)]
LOCAL Samples(box) == {At(box, eighths) : eighths \in [DOMAIN box -> 0..8]}
LOCAL WidestOf(box) == LargestOf({Br!Width(box, v) : v \in DOMAIN box})

\* A heuristic finds a constraint to split on if there is one, and it is open; among those it
\* looks at none has a smaller polarity score, and of equal ones it is the last (Engine.cpp:2706-2822).
PicksAreOpen ==
  BranchAt("pick") =>
    LET open == ToSet(Br!Open(job.cs))
        relus == ToSet(Br!OpenRelus(job.cs))
        polarity == Br!PickByPolarity(job.cs, job.threshold)
        OneOf(pick, candidates) == IF candidates = {} THEN pick = 0 ELSE pick \in candidates
    IN  /\ OneOf(polarity, open) /\ OneOf(Br!PickByTopology(job.cs), open)
        /\ \A b \in {-1, 1}, f \in 0..1 :
             OneOf(Br!PickByBaBsr(job.cs, [k \in 1..3 |-> [b |-> b * k, f |-> f * k]], <<1, -1, 2>>, job.threshold), relus)
        /\ \A k \in open : (job.threshold > 3 \/ k < polarity) =>
             LET mine == Br!PolarityScore(job.cs[k]) best == Br!PolarityScore(job.cs[polarity]) IN
             best \preceq mine /\ (best = mine => k <= polarity)
        /\ \A k \in relus : (Br!Direction(job.cs[k]) = "active") <=> (job.cs[k].ub > -job.cs[k].lb)

\* The parts of a region cover it and lie in it; there are not more than asked for, and bisecting
\* as often as there are inputs leaves no interval as wide as the widest was
\* (LargestIntervalDivider.cpp, Engine.cpp:2824-2866).
BisectionsCover ==
  BranchAt("bisect") =>
    LET parts == ToSet(job.parts)
        halves == Br!PickByIntervalWidth(job.box, InputOrder) IN
    /\ Len(job.parts) = 2 ^ job.bisects
    /\ \A p \in Samples(job.box) : \E part \in parts : IsIn(p, part)
    /\ \A part \in parts : \A p \in Samples(part) : IsIn(p, job.box)
    /\ job.bisects = 2 /\ Zero \prec WidestOf(job.box) => \A part \in parts : WidestOf(part) \prec WidestOf(job.box)
    /\ IF halves = <<>> THEN WidestOf(job.box) = Zero
       ELSE \A p \in Samples(job.box) : \E i \in 1..2 : IsIn(p, Br!ApplySplit(job.box, <<halves[i]>>))

\* The splits a division by polarity makes cover the region, and are not more than asked for
\* (PolarityBasedDivider.cpp).
DivisionsCover ==
  BranchAt("divide") =>
    /\ Len(job.d.parts) <= 2 ^ job.bisects
    /\ \A p \in Samples(job.box) : \E split \in ToSet(job.d.parts) : IsIn(p, Br!ApplySplit(job.box, split))

\* A worker searches a part in full: what the division left in the constraints, the initial
\* state of every worker (DnCWorker.cpp:57-61), cuts nothing off.
LOCAL SearchedInFull ==
  \A split \in ToSet(job.d.parts) : \A p \in Samples(job.box) :
    IsIn(p, Br!ApplySplit(job.box, split)) => IsIn(p, Br!Searched(job.d.engine, split))
PartsSearchedInFull == BranchAt("divide") => SearchedInFull
\* With more than one bisection it does not hold.
OncePartsSearchedInFull == BranchAt("divide") /\ job.bisects <= 1 => SearchedInFull

\* Every constraint has one entry in the ordered set, with its score, and the one on top of the
\* open ones has the largest score of them (PLConstraintScoreTracker.cpp, PseudoImpactTracker.cpp).
ScoresOrdered ==
  BranchAt("scores") =>
    /\ job.t.entries = {[of |-> k, score |-> job.t.score[k]] : k \in 1..3}
    /\ \A open \in SUBSET (1..3) :
         LET top == Br!TopUnfixed(job.t, [k \in 1..3 |-> [FixedRelu EXCEPT !.phase = IF k \in open THEN Br!NotFixed ELSE @]]) IN
         IF open = {} THEN top = 0 ELSE top \in open /\ \A k \in open : job.t.score[k] \preceq job.t.score[top]

BranchingSound ==
  /\ PicksAreOpen
  /\ BisectionsCover
  /\ DivisionsCover
  /\ OncePartsSearchedInFull
  /\ ScoresOrdered

\* Assignment, factorization, statuses, cost function and weights are those of the
\* current basis and bounds after every operation on the tableau (Tableau.cpp,
\* CostFunctionManager.cpp, ProjectedSteepestEdge.cpp).
TableauCurrent ==
  /\ TableauHolds
  /\ FactorizationCurrent
  /\ StatusesCurrent
  /\ CostFunctionCurrent
  /\ GammaExact
  /\ InitialBasisSound

\* No simplex step leaves the infeasibility greater, the pivot performed is the one
\* picked, and what the simplex concludes, a verdict or a bound, is true of every
\* solution; and the local search looks where the cost shows a solution to be
\* (Engine.cpp:628-870, 3064-3265, RowBoundTightener.cpp).
StepsAndVerdictsRight ==
  /\ PivotAsPicked
  /\ StepNeverWorsens
  /\ FixRepairs
  /\ VerdictRight
  /\ TighteningsSound
  /\ CostsMeasureViolation
  /\ LocalSearchRight
  /\ BranchingSound
==============================================================================
