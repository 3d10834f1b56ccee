--------------------------- MODULE ConstraintMatrix ---------------------------
(****************************************************************************)
(* From the equations of the preprocessed query to the first tableau: the   *)
(* constraint matrix, the Gaussian elimination that finds dependent rows    *)
(* (ConstraintMatrixAnalyzer), the triangular part that starts the basis,   *)
(* auxiliary variables (Engine::processInputQuery).  The rows and the       *)
(* columns the analyzer stores twice are one matrix here.                   *)
(****************************************************************************)
LOCAL INSTANCE Integers
LOCAL INSTANCE Sequences
LOCAL INSTANCE SequencesExt
LOCAL INSTANCE FiniteSets
LOCAL INSTANCE FiniteSetsExt
LOCAL INSTANCE TLC
LOCAL INSTANCE Rationals

LOCAL Known(f) == f @@ <<>>
LOCAL Indices(n) == [i \in 1..n |-> i]
LOCAL Swapped(s, i, j) == [s EXCEPT ![i] = s[j], ![j] = s[i]]
LOCAL GAUSSIAN_ELIMINATION_PIVOT_SCALE_THRESHOLD == <<1, 10>>

\* An equation is [addends, scalar, type], an addend <<coefficient, variable>>; the last
\* addend of a variable counts.  <<>>: an inequality is left, an error.
CreateConstraintMatrix(equations, n) ==
  LET Coefficient(e, v) == FoldLeft(LAMBDA c, a : IF a[2] = v THEN a[1] ELSE c, Zero, e.addends)
  IN  IF \E i \in DOMAIN equations : equations[i].type /= "EQ" THEN <<>>
      ELSE Known([i \in DOMAIN equations |-> Known([v \in 1..n |-> Coefficient(equations[i], v)])])

(****************************************************************************)
(* ConstraintMatrixAnalyzer: row i and column j of the permuted matrix are  *)
(* stored as row[i] and col[j]; rows and columns count their nonzero        *)
(* elements in the active part.                                             *)
(****************************************************************************)
Element(a, i, j) == a.A[a.row[i]][a.col[j]]
Height(a) == Len(a.row)
Width(a) == Len(a.col)
StartAnalysis(A) ==
  LET n == Len(A[1])
  IN  [A |-> A, row |-> Indices(Len(A)), col |-> Indices(n), step |-> 1,
       rows |-> [i \in DOMAIN A |-> Cardinality({j \in 1..n : A[i][j] /= Zero})],
       columns |-> [j \in 1..n |-> Cardinality({i \in DOMAIN A : A[i][j] /= Zero})]]
\* A row with one element, a column with one, or the least fill-in by the Markowitz
\* rule among the elements not too small for their column.  {}: nothing is left.
ActiveRows(a) == a.step..Height(a)
ActiveColumns(a) == a.step..Width(a)
SingletonRows(a) == {i \in ActiveRows(a) : a.rows[i] = 1}
SingletonColumns(a) == {j \in ActiveColumns(a) : a.columns[j] = 1}
MarkowitzPivots(a) ==
  LET Largest(j) == LargestOf({AbsRat(Element(a, i, j)) : i \in ActiveRows(a)})
      candidates == {<<i, j>> \in ActiveRows(a) \X ActiveColumns(a) :
                       Largest(j) ** GAUSSIAN_ELIMINATION_PIVOT_SCALE_THRESHOLD \prec AbsRat(Element(a, i, j))}
      Cost(p) == (a.rows[p[1]] - 1) * (a.columns[p[2]] - 1)
      cheapest == {p \in candidates : \A q \in candidates : Cost(p) <= Cost(q)}
  IN  {p \in cheapest : \A q \in cheapest : AbsRat(Element(a, q[1], q[2])) \preceq AbsRat(Element(a, p[1], p[2]))}
ChooseAnalysisPivot(a) ==
  LET i == Min(SingletonRows(a))
      j == Min(SingletonColumns(a))
  IN  CASE SingletonRows(a) /= {} -> {<<i, k>> : k \in {c \in ActiveColumns(a) : Element(a, i, c) /= Zero}}
        [] SingletonRows(a) = {} /\ SingletonColumns(a) /= {} -> {<<k, j>> : k \in {r \in ActiveRows(a) : Element(a, r, j) /= Zero}}
        [] OTHER -> MarkowitzPivots(a)
PermuteAnalysis(a, p) ==
  [a EXCEPT !.row = Swapped(@, a.step, p[1]), !.col = Swapped(@, a.step, p[2]), !.rows = Swapped(@, a.step, p[1]), !.columns = Swapped(@, a.step, p[2])]
Appeared(old, new) == IF old = Zero /\ new /= Zero THEN 1 ELSE IF old /= Zero /\ new = Zero THEN -1 ELSE 0
EliminateBelow(a) ==
  LET k == a.step
      below == {i \in k + 1..Height(a) : Element(a, i, k) /= Zero}
      New(i, j) == IF j = k THEN Zero ELSE Element(a, i, j) -- (Element(a, i, k) // Element(a, k, k)) ** Element(a, k, j)
      Change(i, j) == Appeared(Element(a, i, j), New(i, j))
      At(r) == CHOOSE i \in 1..Height(a) : a.row[i] = r
      Place(c) == CHOOSE j \in 1..Width(a) : a.col[j] = c
      SumOf(f) == FoldFunction(+, 0, f)
  IN  [a EXCEPT !.step = k + 1,
                !.A = Known([r \in DOMAIN a.A |-> IF At(r) \notin below THEN a.A[r]
                                                  ELSE Known([c \in DOMAIN a.col |-> IF Place(c) < k THEN a.A[r][c] ELSE New(At(r), Place(c))])]),
                !.rows = Known([i \in DOMAIN a.rows |-> IF i = k THEN 0 ELSE a.rows[i] + (IF i \in below THEN SumOf([j \in k..Width(a) |-> Change(i, j)]) ELSE 0)]),
                !.columns = Known([j \in DOMAIN a.columns |-> a.columns[j] - (IF j >= k /\ Element(a, k, j) /= Zero THEN 1 ELSE 0)
                                                              + (IF j >= k THEN SumOf([i \in below |-> Change(i, j)]) ELSE 0)])]
GetIndependentColumns(a) == [i \in 1..a.step - 1 |-> a.col[i]]
GetRedundantRows(a) == {a.row[i] : i \in a.step..Height(a)}
RemoveEquationsByIndex(equations, rows) ==
  LET kept == SetToSortSeq(DOMAIN equations \ rows, <) IN [i \in DOMAIN kept |-> equations[kept[i]]]

(****************************************************************************)
(* The initial basis.                                                       *)
(****************************************************************************)
\* A row with one element joins the triangle with its column; without one, the densest
\* column is excluded, and the one at the end of those considered takes its place.
JoinTriangle(A, o, i) ==
  LET k == o.triangular + 1
      row == Swapped(o.row, i, k)
      nnzRow == Swapped(o.nnzRow, i, k)
      j == Min({c \in k..Len(o.col) - o.excluded : A[row[k]][o.col[c]] /= Zero})
      col == Swapped(o.col, j, k)
  IN  [o EXCEPT !.triangular = k, !.row = row, !.col = col, !.nnzColumn = Swapped(@, j, k),
                !.nnzRow = Known([r \in DOMAIN nnzRow |-> nnzRow[r] - IF r > k /\ A[row[r]][col[k]] /= Zero THEN 1 ELSE 0])]
ExcludeColumn(A, o) ==
  LET considered == o.triangular + 1..Len(o.col) - o.excluded
      j == Min({c \in considered : \A d \in considered : o.nnzColumn[d] <= o.nnzColumn[c]})
      last == Len(o.col) - o.excluded
  IN  [o EXCEPT !.excluded = @ + 1, !.col[j] = o.col[last], !.nnzColumn[j] = o.nnzColumn[last],
                !.nnzRow = Known([r \in DOMAIN o.row |-> o.nnzRow[r] - IF r > o.triangular /\ A[o.row[r]][o.col[j]] /= Zero THEN 1 ELSE 0])]
SelectionStep(A, o) ==
  LET singletons == {i \in o.triangular + 1..Len(o.row) : o.nnzRow[i] = 1}
  IN  IF singletons /= {} THEN JoinTriangle(A, o, Min(singletons)) ELSE ExcludeColumn(A, o)
SelectInitialVariablesForBasis(A) ==
  LET m == Len(A)
      n == Len(A[1])
      start == [row |-> Indices(m), col |-> Indices(n), triangular |-> 0, excluded |-> 0,
                nnzRow |-> Known([i \in 1..m |-> Cardinality({j \in 1..n : A[i][j] /= Zero})]),
                nnzColumn |-> Known([j \in 1..n |-> Cardinality({i \in 1..m : A[i][j] /= Zero})])]
      o == FoldLeft(LAMBDA s, k : SelectionStep(A, s), start, Indices(n))
  IN  [initialBasis |-> SubSeq(o.col, 1, o.triangular), basicRows |-> SubSeq(o.row, o.triangular + 1, m)]
\* Every equation gets a variable with coefficient -1, fixed to what its scalar was.
AddAuxiliaryVariables(equations, originalN) ==
  [equations |-> Known([i \in DOMAIN equations |-> [equations[i] EXCEPT !.addends = Append(@, <<Rat(-1), originalN + i>>), !.scalar = Zero]]),
   bounds |-> Known([i \in DOMAIN equations |-> equations[i].scalar])]
AugmentInitialBasisIfNeeded(selection, m, originalN) ==
  IF Len(selection.initialBasis) = m THEN selection.initialBasis
  ELSE selection.initialBasis \o [i \in DOMAIN selection.basicRows |-> selection.basicRows[i] + originalN]
===============================================================================
