-------------------------------- MODULE MCBasis --------------------------------
(****************************************************************************)
(* The four factorizations of a basis of three out of six columns: factor-  *)
(* ized, changed one column at a time, refreshed, stored and restored, by   *)
(* every choice of pivots.                                                  *)
(****************************************************************************)
EXTENDS MCNetwork    \* for its variable
LOCAL INSTANCE Integers
LOCAL INSTANCE Sequences
LOCAL INSTANCE SequencesExt
LOCAL INSTANCE FiniteSets
LOCAL INSTANCE Rationals
LOCAL INSTANCE BasisFactorization

\* 100 in the code: etas, or elementary operations in the dense Forrest-Tomlin form.
LOCAL REFACTORIZATION_THRESHOLD(type) == IF type = "FT" THEN 3 ELSE 1
LOCAL DiagonalTolerance == <<1, 4>>
LOCAL MaxSteps == 3
LOCAL m == 3
LOCAL Table == <<<<1, 1, 2, 1, 0, 0>>, <<2, 0, 2, 0, 1, 0>>, <<0, 3, 3, 0, 1, 1>>>>
LOCAL Column(c) == [i \in 1..m |-> Rat(Table[i][c])]
LOCAL BasisOf(basis) == [i \in 1..m |-> [j \in 1..m |-> Rat(Table[i][basis[j]])]]
LOCAL Sparse(type) == type \in {"SparseLU", "SparseFT"}
LOCAL Det(B) ==
  LET Minor(j, k) == B[2][j] ** B[3][k] -- B[2][k] ** B[3][j]
  IN  B[1][1] ** Minor(2, 3) -- B[1][2] ** Minor(1, 3) ++ B[1][3] ** Minor(1, 2)

\* A factorization begins: elimination takes a step per pivot.
ObtainFreshBasis(j, basis) ==
  LET B == BasisOf(basis)
      z == CASE j.type = "LU" -> LUObtainFreshBasis(B) [] j.type = "FT" -> InitialLUFactorization(B) [] OTHER -> SparseObtainFreshBasis(B)
  IN  [j EXCEPT !.basis = basis, !.z = z,
                !.phase = IF j.type /= "FT" THEN "eliminating" ELSE IF z = <<>> THEN "malformed" ELSE "ready"]

BasisStarts ==
  {ObtainFreshBasis([kind |-> "basis", type |-> type, basis |-> <<>>, phase |-> "ready", z |-> <<>>, stored |-> <<>>, storing |-> FALSE, steps |-> 0], basis)
   : type \in {"LU", "SparseLU", "SparseFT", "FT"}, basis \in {<<4, 5, 6>>, <<1, 2, 4>>, <<3, 1, 6>>, <<2, 5, 1>>, <<3, 1, 5>>, <<1, 2, 3>>, <<6, 3, 2>>}}

LOCAL Forward(j, y) ==
  CASE j.type = "LU" -> LUForward(j.z, y) [] j.type = "SparseLU" -> SparseLUForward(j.z, y)
    [] j.type = "SparseFT" -> SparseFTForward(j.z, y) [] j.type = "FT" -> FTForward(j.z, y)
LOCAL Backward(j, y) ==
  CASE j.type = "LU" -> LUBackward(j.z, y) [] j.type = "SparseLU" -> SparseLUBackward(j.z, y)
    [] j.type = "SparseFT" -> SparseFTBackward(j.z, y) [] j.type = "FT" -> FTBackward(j.z, y)
LOCAL ExplicitBasisAvailable(j) ==
  CASE j.type = "FT" -> j.z.explicit [] j.type = "SparseFT" -> SparseFTExplicitBasisAvailable(j.z) [] OTHER -> LUExplicitBasisAvailable(j.z)
LOCAL InverseBy(j) ==
  CASE j.type = "FT" -> InvertFT(j.z) [] j.type = "LU" -> InvertBasis(j.z.f) [] OTHER -> SparseInvertBasis(j.z.f)

EliminationStep ==
  /\ job.phase = "eliminating" /\ job.z.f.step <= m
  /\ LET pivots == IF Sparse(job.type) THEN SparseChoosePivot(job.z.f) ELSE ChoosePivot(job.z.f)
     IN  \/ pivots = {} /\ job' = [job EXCEPT !.phase = "malformed"]
         \/ \E p \in pivots :
              LET f == Permute(job.z.f, p) IN job' = [job EXCEPT !.z.f = IF Sparse(job.type) THEN SparseEliminate(f) ELSE Eliminate(f)]
Factorized ==
  /\ job.phase = "eliminating" /\ job.z.f.step > m
  /\ job' = [job EXCEPT !.phase = "ready", !.storing = FALSE,
                        !.stored = IF job.storing THEN [basis |-> job.basis, z |-> job.z] ELSE @]

\* Column p of the basis becomes column c; the pivot is not zero.
UpdateToAdjacentBasis(p, c) ==
  LET next == [job EXCEPT !.basis[p] = c, !.steps = @ + 1]
      Count(u) == IF job.type = "FT" THEN Len(u.z.A) ELSE IF job.type = "SparseFT" THEN Len(job.z.etas) ELSE Len(u.z.etas)
  IN  \E change \in {Forward(job, Column(c))} :
        /\ change[p] /= Zero
        /\ \E u \in {CASE job.type = "LU" -> [z |-> LUUpdateToAdjacentBasis(job.z, p, change), fresh |-> FALSE]
                       [] job.type = "SparseLU" -> [z |-> SparseLUUpdateToAdjacentBasis(job.z, p, change), fresh |-> FALSE]
                       [] job.type = "FT" -> [z |-> UpdateFT(job.z, p, change), fresh |-> FALSE]
                       [] job.type = "SparseFT" -> UpdateSparseFT(job.z, p, Column(c), DiagonalTolerance)} :
             job' = IF u.fresh \/ Count(u) > REFACTORIZATION_THRESHOLD(job.type) THEN ObtainFreshBasis(next, next.basis) ELSE [next EXCEPT !.z = u.z]

\* All but the dense Forrest-Tomlin form are refreshed before they are stored.
StoreDirectly == job.type = "FT" /\ job' = [job EXCEPT !.stored = [basis |-> job.basis, z |-> job.z], !.steps = @ + 1]
StoreFresh == job.type /= "FT" /\ job' = ObtainFreshBasis([job EXCEPT !.storing = TRUE, !.steps = @ + 1], job.basis)
RestoreFactorization ==
  job.stored /= <<>> /\ job' = [job EXCEPT !.basis = job.stored.basis, !.z = job.stored.z, !.steps = @ + 1]

BasisJob ==
  /\ job.kind = "basis"
  /\ \/ EliminationStep \/ Factorized
     \/ /\ job.phase = "ready" /\ job.steps < MaxSteps
        /\ \/ \E p \in 1..m, c \in (1..6) \ {job.basis[i] : i \in 1..m} : UpdateToAdjacentBasis(p, c)
           \/ StoreDirectly \/ StoreFresh \/ RestoreFactorization

----------------------------------------------------------------------------
LOCAL Ready == job.kind = "basis" /\ job.phase = "ready"
LOCAL Times(B, x) == [i \in 1..m |-> RatSum([k \in 1..m |-> B[i][k] ** x[k]])]
LOCAL TimesMatrix(B, C) == [i \in 1..m |-> [j \in 1..m |-> RatSum([k \in 1..m |-> B[i][k] ** C[k][j]])]]

\* Whatever the pivots and after any updates, refreshes and restores, the two transformations
\* solve with the basis the tableau has (forwardTransformation, backwardTransformation).
Solves ==
  Ready =>
    LET B == BasisOf(job.basis)
    IN  \A i \in 1..m :
          /\ Times(B, Forward(job, Unit(m, i))) = Unit(m, i)
          /\ LET x == Backward(job, Unit(m, i)) IN [j \in 1..m |-> RatSum([k \in 1..m |-> x[k] ** B[k][j]])] = Unit(m, i)

\* F times V is the basis at every step of the elimination; what is eliminated is triangular;
\* the counters by which the pivot is chosen count the active part; the sparse form holds both
\* matrices twice, and the diagonal (GaussianEliminator.cpp, SparseGaussianEliminator.cpp).
EliminationInvariant ==
  job.kind = "basis" /\ job.phase = "eliminating" =>
    LET f == job.z.f
        B == BasisOf(job.basis)
    IN  /\ TimesMatrix(f.F, f.V) = B
        /\ \A i, j \in 1..m : j < f.step /\ i > j => U(f, i, j) = Zero
        /\ \A u \in Active(f) : /\ f.rows[u] = Cardinality({j \in Active(f) : U(f, u, j) /= Zero})
                                /\ f.columns[u] = Cardinality({i \in Active(f) : U(f, i, u) /= Zero})
        /\ Sparse(job.type) => /\ f.Vt = Transposed(f.V) /\ f.Ft = Transposed(f.F)
                               /\ \A i \in 1..f.step - 1 : f.diagonal[f.P.col[i]] = U(f, i, i)

\* The rows and the columns of V, and its diagonal, still agree after Forrest-Tomlin updates
\* (SparseFTFactorization.cpp:104-313).
SparseFormsAgree ==
  Ready /\ Sparse(job.type) =>
    LET f == job.z.f
    IN  /\ f.Vt = Transposed(f.V)
        /\ \A i, j \in 1..m : IF i = j THEN U(f, i, i) = f.diagonal[f.P.col[i]] ELSE i > j => U(f, i, j) = Zero
        /\ \A i \in 1..m : f.P.row[f.P.col[i]] = i /\ f.Q.row[f.Q.col[i]] = i

\* A basis is found malformed exactly if it is singular, by each of the eliminations.
MalformedIffSingular ==
  job.kind = "basis" => (job.phase = "malformed" <=> Det(BasisOf(job.basis)) = Zero /\ job.phase /= "eliminating")

\* When a factorization says that its basis is explicit, its inverse is the inverse of the basis
\* (explicitBasisAvailable, invertBasis).
InverseIsExact ==
  Ready /\ ExplicitBasisAvailable(job) => TimesMatrix(BasisOf(job.basis), InverseBy(job)) = IdentityMatrix(m)

(****************************************************************************)
(* One matrix kept densely, as compressed rows, as rows of arrays and as    *)
(* rows of lists, through up to MaxSteps operations in any order.           *)
(****************************************************************************)

LOCAL MaxChanges == 2
LOCAL Rows3 == {<<0, 0, 0>>, <<0, 2, 0>>, <<1, -1, 2>>, <<-2, 1, 2>>, <<3, 0, -3>>, <<0, 1, 1>>}
LOCAL Vectors(n) == {[j \in 1..n |-> 0], [j \in 1..n |-> j % 3], [j \in 1..n |-> IF j = n THEN -1 ELSE 0]}

LOCAL Width(D) == Len(D[1])
LOCAL Kept(D, csr, arrays, lists, steps) ==
  [kind |-> "structure", D |-> D, csr |-> csr, arrays |-> arrays, lists |-> lists, steps |-> steps]

LOCAL Merged(D, x1, x2) ==
  [i \in DOMAIN D |-> [j \in DOMAIN D[i] |-> IF j = x1 THEN D[i][x1] + D[i][x2] ELSE IF j = x2 THEN 0 ELSE D[i][j]]]
LOCAL Cancels(D, x1, x2) == \E i \in DOMAIN D : D[i][x1] /= 0 /\ D[i][x1] + D[i][x2] = 0
LOCAL TargetLast(rows, x1) == \E i \in DOMAIN rows : rows[i].entries /= <<>> /\ Index(Last(rows[i].entries)) = x1

SparseStarts == {[kind |-> "structure", D |-> <<r, s>>, csr |-> CSROf(<<r, s>>, 3), arrays |-> ArraysOf(<<r, s>>), lists |-> ListsOf(<<r, s>>), steps |-> 0]
                 : r \in Rows3, s \in Rows3}

LOCAL SetCells(D, changes) ==
  LET SetAll(rows, Set(_, _, _)) == FoldLeft(LAMBDA R, x : [R EXCEPT ![x[1]] = Set(@, x[2], x[3])], rows, changes)
      w == FoldLeft(LAMBDA u, x : CommitChange(job.csr, u, x[1], x[2], x[3]), NothingCommitted, changes)
  IN  Kept(SetAll(D, LAMBDA row, j, v : [row EXCEPT ![j] = v]), ExecuteChanges(job.csr, w),
           SetAll(job.arrays, ArraySet), SetAll(job.lists, ListSet), job.steps + 1)

LOCAL SetSome == Width(job.D) >= 3 /\ \E c \in {<<<<1, 1, 0>>, <<2, 2, 5>>>>, <<<<2, 1, 5>>, <<2, 2, 0>>, <<1, 3, -1>>>>, <<<<2, 3, 4>>, <<2, 1, 3>>, <<1, 2, 0>>, <<1, 1, 1>>>>} : job' = SetCells(job.D, c)
LOCAL AddRow == \E v \in Vectors(Width(job.D)) :
  job' = Kept(Append(job.D, v), CSRAddLastRow(job.csr, v), ArraysAddLastRow(job.arrays, v), ListsAddLastRow(job.lists, v), job.steps + 1)
\* A row without entries before one that gets the new column: the sweep of CSRMatrix overwrites a cell.
LOCAL AddColumn == \E v \in Vectors(Len(job.D)) :
  /\ \A i \in DOMAIN v : v[i] /= 0 => job.csr.IA[i + 1] > 0 \/ job.csr.cells = <<>>
  /\ job' = Kept([i \in DOMAIN v |-> Append(job.D[i], v[i])], CSRAddLastColumn(job.csr, v), ArraysAddLastColumn(job.arrays, v),
                 ListsAddLastColumn(job.lists, v), job.steps + 1)
LOCAL AddEmpty ==
  job' = Kept([i \in DOMAIN job.D |-> Append(job.D[i], 0)], CSRAddEmptyColumn(job.csr), ArraysAddEmptyColumn(job.arrays),
              ListsAddEmptyColumn(job.lists), job.steps + 1)
LOCAL Merge == \E x1, x2 \in 1..Width(job.D) :
  /\ x1 /= x2 /\ (Cancels(job.D, x1, x2) => x1 < x2 /\ ~TargetLast(job.arrays, x1))
  /\ job' = Kept(Merged(job.D, x1, x2), CSRMergeColumns(job.csr, x1, x2), [i \in DOMAIN job.D |-> ArrayMerge(job.arrays[i], x2, x1)],
                 [i \in DOMAIN job.D |-> ListMerge(job.lists[i], x2, x1)], job.steps + 1)
LOCAL Transpose ==
  LET n == Width(job.D)
  IN  job' = Kept([j \in 1..n |-> [i \in DOMAIN job.D |-> job.D[i][j]]], CSRTranspose(job.csr), ArraysTranspose(job.arrays, n),
                  ListsTranspose(job.lists, n), job.steps + 1)
LOCAL MergeAny == \E x1, x2 \in 1..Width(job.D) :
  x1 /= x2 /\ job' = [kind |-> "merged", expected |-> Merged(job.D, x1, x2), csr |-> CSRMergeColumns(job.csr, x1, x2)]

SparseJob ==
  /\ job.kind = "structure" /\ job.steps < MaxChanges
  /\ SetSome \/ AddRow \/ AddColumn \/ AddEmpty \/ Merge \/ Transpose \/ (job.steps = 0 /\ MergeAny)

----------------------------------------------------------------------------
LOCAL Kept3 == job.kind = "structure"

\* After any operations the three sparse forms hold the same matrix, one entry per nonzero
\* value, and the rows of the compressed form stay sorted
\* (CSRMatrix.cpp, SparseUnsortedArray*.cpp, SparseUnsortedList*.cpp).
StructuresAgree ==
  Kept3 =>
    /\ CSRToDense(job.csr) = job.D /\ CSRWellFormed(job.csr)
    /\ ArraysToDense(job.arrays) = job.D /\ ListsToDense(job.lists) = job.D
    /\ Last(job.csr.IA) = Len(job.csr.cells)
\* The counts by row and column, kept up by the eliminators, are those of the matrix, and a
\* column read from the rows is the column (countElements, getColumn).
CountsAgree ==
  Kept3 =>
    LET n == Width(job.D)
        counts == [row |-> [i \in DOMAIN job.D |-> Cardinality({j \in 1..n : job.D[i][j] /= 0})],
                   column |-> [j \in 1..n |-> Cardinality({i \in DOMAIN job.D : job.D[i][j] /= 0})]]
    IN  /\ CSRCount(job.csr) = counts /\ ArraysCount(job.arrays, n) = counts
        /\ \A j \in 1..n : LET column == [i \in DOMAIN job.D |-> job.D[i][j]]
                           IN  ArrayToDense(ArraysColumn(job.arrays, j)) = column /\ ListToDense(CSRColumn(job.csr, j)) = column

\* SparseMatrix.h:87: "Merge column x2 into column x1, and zero x2 out", for any two columns.
MergeColumnsMerges == job.kind = "merged" => CSRToDense(job.csr) = job.expected
\* The sparse matrices are the dense one they stand for, through every operation on
\* them, and the factorizations built on them solve systems with the current basis
\* (basis_factorization/).
FactorizationExact ==
  /\ StructuresAgree
  /\ CountsAgree
  /\ Solves
  /\ EliminationInvariant
  /\ SparseFormsAgree
  /\ MalformedIffSingular
  /\ InverseIsExact
=============================================================================
