-------------------------- MODULE BasisFactorization --------------------------
(****************************************************************************)
(* The factorizations of a basis: Gaussian elimination into F * V with the  *)
(* permutations P and Q (dense and sparse), the product form of LUFactor-   *)
(* ization and SparseLUFactorization, and the two Forrest-Tomlin forms.     *)
(* Numbers are exact, indices start at 1.                                   *)
(****************************************************************************)
LOCAL INSTANCE Integers
LOCAL INSTANCE Sequences
LOCAL INSTANCE FiniteSets
LOCAL INSTANCE SequencesExt
LOCAL INSTANCE FiniteSetsExt
LOCAL INSTANCE TLC
LOCAL INSTANCE Rationals

(****************************************************************************)
(* The sparse vectors and matrices of the factorizations and of the         *)
(* constraint matrix: unsorted vectors in an array or in a list, matrices   *)
(* that are rows of such vectors, and the compressed rows of CSRMatrix.     *)
(* Values are integers, zero is zero.                                       *)
(****************************************************************************)
Index(e) == e[1]
Value(e) == e[2]
Places(entries, i) == {p \in DOMAIN entries : Index(entries[p]) = i}
NonZeros(V) == SelectSeq([i \in DOMAIN V |-> <<i, V[i]>>], LAMBDA e : Value(e) /= 0)

(****************************************************************************)
(* SparseUnsortedArray: the entries are where they fell; removing one moves *)
(* the last entry to its place.                                             *)
(****************************************************************************)
ArrayOf(V) == [size |-> Len(V), entries |-> NonZeros(V)]
ArrayGet(s, i) == IF Places(s.entries, i) = {} THEN 0 ELSE Value(s.entries[Min(Places(s.entries, i))])
ArrayToDense(s) == [i \in 1..s.size |-> IF Places(s.entries, i) = {} THEN 0 ELSE Value(s.entries[Max(Places(s.entries, i))])]
ArrayAppend(s, i, v) == [s EXCEPT !.entries = Append(@, <<i, v>>)]
LastOver(entries, p) == Front([entries EXCEPT ![p] = Last(entries)])
ArrayErase(s, p) == [s EXCEPT !.entries = LastOver(@, p)]
ArraySet(s, i, v) ==
  LET at == Places(s.entries, i)
  IN  IF at = {} THEN (IF v = 0 THEN s ELSE ArrayAppend(s, i, v))
      ELSE IF v = 0 THEN ArrayErase(s, Min(at)) ELSE [s EXCEPT !.entries[Min(at)] = <<i, v>>]
ArrayAddLast(s, v) == LET t == IF v = 0 THEN s ELSE ArrayAppend(s, s.size + 1, v) IN [t EXCEPT !.size = @ + 1]

\* After the first removal the memory behind the array still holds its old last entry.
ArrayMerge(s, source, target) ==
  LET n == Len(s.entries)
      from == Places(s.entries, source)
      to == Places(s.entries, target)
  IN  IF from = {} THEN s
      ELSE LET p == Min(from)
           IN  IF to = {} THEN [s EXCEPT !.entries[p] = <<target, Value(@)>>]
               ELSE LET t == Min(to)
                        added == [s.entries EXCEPT ![t] = <<target, Value(@) + Value(s.entries[p])>>]
                        memory == [added EXCEPT ![p] = added[n]]
                    IN  [s EXCEPT !.entries = IF Value(memory[t]) = 0
                                                THEN SubSeq([memory EXCEPT ![t] = memory[n - 1]], 1, n - 2)
                                                ELSE SubSeq(memory, 1, n - 1)]

(****************************************************************************)
(* SparseUnsortedList: a linked list of the same entries.                   *)
(****************************************************************************)
ListOf(V) == [size |-> Len(V), entries |-> NonZeros(V)]
ListGet(s, i) == ArrayGet(s, i)
ListToDense(s) == ArrayToDense(s)
ListSet(s, i, v) ==
  LET at == Places(s.entries, i)
  IN  IF at = {} THEN (IF v = 0 THEN s ELSE [s EXCEPT !.entries = Append(@, <<i, v>>)])
      ELSE [s EXCEPT !.entries = IF v = 0 THEN RemoveAt(@, Min(at)) ELSE [@ EXCEPT ![Min(at)] = <<i, v>>]]
ListAddLast(s, v) == [size |-> s.size + 1, entries |-> IF v = 0 THEN s.entries ELSE Append(s.entries, <<s.size + 1, v>>)]
ListMerge(s, source, target) ==
  LET from == Places(s.entries, source)
      to == Places(s.entries, target)
  IN  IF from = {} THEN s
      ELSE LET p == Min(from)
           IN  IF to = {} THEN [s EXCEPT !.entries[p] = <<target, Value(@)>>]
               ELSE LET sum == Value(s.entries[Min(to)]) + Value(s.entries[p])
                    IN  [s EXCEPT !.entries = SelectSeq([@ EXCEPT ![Min(to)] = <<target, sum>>],
                                                        LAMBDA e : Index(e) /= source /\ (Index(e) = target => sum /= 0))]

(****************************************************************************)
(* SparseUnsortedArrays and SparseUnsortedLists: one vector per row.        *)
(****************************************************************************)
ArraysOf(M) == [i \in DOMAIN M |-> ArrayOf(M[i])]
ArraysToDense(rows) == [i \in DOMAIN rows |-> ArrayToDense(rows[i])]
ArraysAddLastRow(rows, row) == Append(rows, ArrayOf(row))
ArraysAddLastColumn(rows, column) == [i \in DOMAIN rows |-> ArrayAddLast(rows[i], column[i])]
ArraysAddEmptyColumn(rows) == [i \in DOMAIN rows |-> [rows[i] EXCEPT !.size = @ + 1]]
ArraysColumn(rows, j) == FoldLeft(LAMBDA s, i : ArraySet(s, i, ArrayGet(rows[i], j)), [size |-> Len(rows), entries |-> <<>>], [i \in DOMAIN rows |-> i])
ArraysTranspose(rows, n) ==
  [j \in 1..n |-> FoldLeft(LAMBDA s, i : FoldLeft(LAMBDA t, e : IF Index(e) = j THEN ArrayAppend(t, i, Value(e)) ELSE t, s, rows[i].entries),
                           [size |-> Len(rows), entries |-> <<>>], [i \in DOMAIN rows |-> i])]
ArraysCount(rows, n) ==
  [row |-> [i \in DOMAIN rows |-> Len(rows[i].entries)],
   column |-> [j \in 1..n |-> Cardinality({i \in DOMAIN rows : Places(rows[i].entries, j) /= {}})]]

ListsOf(M) == [i \in DOMAIN M |-> ListOf(M[i])]
ListsToDense(rows) == [i \in DOMAIN rows |-> ListToDense(rows[i])]
ListsAddLastRow(rows, row) == Append(rows, ListOf(row))
ListsAddLastColumn(rows, column) == [i \in DOMAIN rows |-> ListAddLast(rows[i], column[i])]
ListsAddEmptyColumn(rows) == [i \in DOMAIN rows |-> [rows[i] EXCEPT !.size = @ + 1]]
ListsTranspose(rows, n) ==
  [j \in 1..n |-> FoldLeft(LAMBDA s, i : FoldLeft(LAMBDA t, e : IF Index(e) = j THEN [t EXCEPT !.entries = Append(@, <<i, Value(e)>>)] ELSE t, s, rows[i].entries),
                           [size |-> Len(rows), entries |-> <<>>], [i \in DOMAIN rows |-> i])]

(****************************************************************************)
(* CSRMatrix: the cells <<column, value>> of all rows in one sequence (_JA  *)
(* and _A), row i between IA[i] and IA[i + 1].                              *)
(****************************************************************************)
UINT == 2 ^ 30    \* stands for 2^32, which TLC cannot write
Unsigned(k) == k % UINT

CSREmpty(m, n) == [m |-> m, n |-> n, cells |-> <<>>, IA |-> [i \in 1..m + 1 |-> 0]]
FromRows(n, rows) ==
  [m |-> Len(rows), n |-> n, cells |-> FlattenSeq(rows),
   IA |-> FoldLeft(LAMBDA s, r : Append(s, Last(s) + Len(r)), <<0>>, rows)]
CSROf(M, n) == FromRows(n, [i \in DOMAIN M |-> NonZeros(M[i])])
InRow(c, i) == c.IA[i] + 1..c.IA[i + 1]
CellsOf(c, i) == SubSeq(c.cells, c.IA[i] + 1, c.IA[i + 1])

\* The place of an entry, or 0.
FindArrayIndexForEntry(c, i, j) ==
  LET at == {p \in InRow(c, i) : p \in DOMAIN c.cells /\ Index(c.cells[p]) = j} IN IF at = {} THEN 0 ELSE Min(at)
CSRGet(c, i, j) == LET p == FindArrayIndexForEntry(c, i, j) IN IF p = 0 THEN 0 ELSE Value(c.cells[p])
CSRToDense(c) == [i \in 1..c.m |-> [j \in 1..c.n |-> CSRGet(c, i, j)]]
CSRColumn(c, j) == FoldLeft(LAMBDA s, i : ListSet(s, i, CSRGet(c, i, j)), [size |-> c.m, entries |-> <<>>], [i \in 1..c.m |-> i])
CSRAddLastRow(c, row) ==
  [c EXCEPT !.m = @ + 1, !.cells = @ \o NonZeros(row), !.IA = Append(@, Last(@) + Len(NonZeros(row)))]
CSRAddEmptyColumn(c) == [c EXCEPT !.n = @ + 1]

\* One sweep from right to left; the comparison is between unsigned numbers.
CSRAddLastColumn(c, column) ==
  LET Added(k) == Cardinality({i \in 1..k : column[i] /= 0})
      Place(s, i) ==
        IF column[i] = 0 THEN s
        ELSE LET stop == IF Unsigned(s.last - 1) > Unsigned(c.IA[i + 1] - 1) THEN c.IA[i + 1] ELSE s.last
             IN  [last |-> stop, offset |-> s.offset - 1,
                  cells |-> [q \in DOMAIN s.cells |-> IF q = stop + s.offset THEN <<c.n + 1, column[i]>>
                                                     ELSE IF q - s.offset \in stop + 1..s.last THEN s.cells[q - s.offset]
                                                     ELSE s.cells[q]]]
      grown == c.cells \o [k \in 1..Added(c.m) |-> <<1, 0>>]
      swept == FoldLeft(Place, [last |-> Len(c.cells), offset |-> Added(c.m), cells |-> grown], Reverse([i \in 1..c.m |-> i]))
  IN  [c EXCEPT !.n = @ + 1, !.cells = swept.cells, !.IA = [i \in DOMAIN @ |-> @[i] + Added(i - 1)]]

\* The places to delete are visited in the order of the list.
DeleteElements(c, deletions) ==
  LET Before(i) == Cardinality({k \in DOMAIN deletions : \A l \in 1..k : deletions[l] <= c.IA[i]})
      kept == FoldLeft(LAMBDA s, p : IF s.next <= Len(deletions) /\ deletions[s.next] = p
                                       THEN [s EXCEPT !.next = @ + 1] ELSE [s EXCEPT !.cells = Append(@, c.cells[p])],
                       [next |-> 1, cells |-> <<>>], [p \in DOMAIN c.cells |-> p]).cells
  IN  [c EXCEPT !.IA = [i \in DOMAIN @ |-> @[i] - Before(i)], !.cells = SubSeq(kept, 1, Len(c.cells) - Len(deletions))]

\* Merging x2 into x1: its entry is added and marked, or renamed and moved within the row.
MergeRow(s, i, x1, x2) ==
  LET p1 == FindArrayIndexForEntry(s.c, i, x1)
      p2 == FindArrayIndexForEntry(s.c, i, x2)
      renamed == SortSeq([CellsOf(s.c, i) EXCEPT ![p2 - s.c.IA[i]] = <<x1, Value(@)>>], LAMBDA a, b : Index(a) < Index(b))
      sum == CSRGet(s.c, i, x1) + CSRGet(s.c, i, x2)
  IN  IF p2 = 0 THEN s
      ELSE IF p1 = 0 THEN [s EXCEPT !.c.cells = SubSeq(@, 1, s.c.IA[i]) \o renamed \o SubSeq(@, s.c.IA[i + 1] + 1, Len(@))]
      ELSE [c |-> [s.c EXCEPT !.cells[p1] = <<x1, sum>>], marked |-> s.marked \o (IF sum = 0 THEN <<p1>> ELSE <<>>) \o <<p2>>]
CSRMergeColumns(c, x1, x2) ==
  LET s == FoldLeft(LAMBDA t, i : MergeRow(t, i, x1, x2), [c |-> c, marked |-> <<>>], [i \in 1..c.m |-> i])
  IN  IF s.marked = <<>> THEN s.c ELSE DeleteElements(s.c, s.marked)

\* Committed changes: new cells (the first for a place is kept), new values, deletions.
NothingCommitted == [insertions |-> <<>>, changes |-> <<>>, deletions |-> {}]
CommitChange(c, w, i, j, v) ==
  LET p == FindArrayIndexForEntry(c, i, j)
  IN  IF p = 0 THEN (IF v = 0 \/ \E k \in DOMAIN w.insertions : w.insertions[k][1] = i /\ w.insertions[k][2] = j
                       THEN w ELSE [w EXCEPT !.insertions = Append(@, <<i, j, v>>)])
      ELSE IF v = 0 THEN [w EXCEPT !.deletions = @ \cup {p}]
      ELSE IF v /= Value(c.cells[p]) THEN [w EXCEPT !.changes = Append(@, <<p, j, v>>)] ELSE w
InsertElements(c, insertions) ==
  FromRows(c.n, [i \in 1..c.m |-> LET new == SelectSeq(insertions, LAMBDA x : x[1] = i)
                                 IN  SortSeq(CellsOf(c, i) \o [k \in DOMAIN new |-> <<new[k][2], new[k][3]>>], LAMBDA a, b : Index(a) < Index(b))])
ExecuteChanges(c, w) ==
  LET changed == FoldLeft(LAMBDA d, x : [d EXCEPT !.cells[x[1]] = <<x[2], x[3]>>], c, w.changes)
  IN  InsertElements(DeleteElements(changed, SetToSortSeq(w.deletions, <)), w.insertions)
RowOfPlace(c, p) == CHOOSE i \in 1..c.m : p \in InRow(c, i)
CSRTranspose(c) ==
  LET other == CSREmpty(c.n, c.m)
  IN  ExecuteChanges(other, FoldLeft(LAMBDA w, p : CommitChange(other, w, Index(c.cells[p]), RowOfPlace(c, p), Value(c.cells[p])),
                                     NothingCommitted, [p \in DOMAIN c.cells |-> p]))
CSRCount(c) == [row |-> [i \in 1..c.m |-> c.IA[i + 1] - c.IA[i]], column |-> [j \in 1..c.n |-> Cardinality({p \in DOMAIN c.cells : Index(c.cells[p]) = j})]]

\* Internal order: every column within range, increasing in every row.
CSRWellFormed(c) ==
  /\ \A p \in DOMAIN c.cells : Index(c.cells[p]) \in 1..c.n
  /\ \A i \in 1..c.m : \A p \in InRow(c, i) : p + 1 \in InRow(c, i) => Index(c.cells[p]) < Index(c.cells[p + 1])

\* The same function; TLC computes its values once.
LOCAL Known(f) == f @@ <<>>
LOCAL Matrix(m, E(_, _)) == Known([i \in 1..m |-> Known([j \in 1..m |-> E(i, j)])])
LOCAL UpTo(m) == [i \in 1..m |-> i]
Unit(m, i) == Known([j \in 1..m |-> IF j = i THEN One ELSE Zero])
IdentityMatrix(m) == Known([i \in 1..m |-> Unit(m, i)])
Transposed(M) == Matrix(Len(M), LAMBDA i, j : M[j][i])
Swap(s, a, b) == [s EXCEPT ![a] = s[b], ![b] = s[a]]

(****************************************************************************)
(* PermutationMatrix: row i has its one in column row[i], column j in row   *)
(* col[j].                                                                  *)
(****************************************************************************)
IdentityPermutation(m) == [row |-> UpTo(m), col |-> UpTo(m)]
SwapRows(p, a, b) == [row |-> Swap(p.row, a, b), col |-> [p.col EXCEPT ![p.row[b]] = a, ![p.row[a]] = b]]
SwapColumns(p, a, b) == [col |-> Swap(p.col, a, b), row |-> [p.row EXCEPT ![p.col[b]] = a, ![p.col[a]] = b]]
Inverted(ordering) == Known([x \in DOMAIN ordering |-> CHOOSE i \in DOMAIN ordering : ordering[i] = x])

(****************************************************************************)
(* Gaussian elimination, one pivot at a time: B = F * V, where P' F P is    *)
(* lower and P' V Q' upper triangular.  rows and columns count the nonzero  *)
(* elements of the active part of U.                                        *)
(****************************************************************************)
U(f, i, j) == f.V[f.P.col[i]][f.Q.row[j]]
Active(f) == f.step..Len(f.V)

InitializeFactorization(B) ==
  LET m == Len(B)
  IN  [V |-> B, F |-> IdentityMatrix(m), P |-> IdentityPermutation(m), Q |-> IdentityPermutation(m), step |-> 1,
       rows |-> Known([i \in 1..m |-> Cardinality({j \in 1..m : B[i][j] /= Zero})]),
       columns |-> Known([j \in 1..m |-> Cardinality({i \in 1..m : B[i][j] /= Zero})])]
SparseInitializeFactorization(B) ==
  InitializeFactorization(B) @@
  [Vt |-> Transposed(B), Ft |-> IdentityMatrix(Len(B)), diagonal |-> [i \in DOMAIN B |-> Zero],
   usePForF |-> FALSE, PForF |-> IdentityPermutation(Len(B))]

SingletonRows(f) == {i \in Active(f) : f.rows[i] = 1}
SingletonColumns(f) == {j \in Active(f) : f.columns[j] = 1}
ZeroColumns(f) == {j \in Active(f) : \A i \in Active(f) : U(f, i, j) = Zero}

\* Markowitz: of the large elements of the columns, the cheapest, and of these the largest.
Cost(f, p) == (f.rows[p[1]] - 1) * (f.columns[p[2]] - 1)
Candidates(f) ==
  LET Size(i, j) == AbsRat(U(f, i, j))
  IN  {p \in Active(f) \X Active(f) :
         \E i \in Active(f) : (\A k \in Active(f) : Size(k, p[2]) \preceq Size(i, p[2])) /\ Size(i, p[2]) ** <<1, 10>> \prec Size(p[1], p[2])}
Markowitz(f) ==
  LET C == Candidates(f)
  IN  {p \in C : \A q \in C : Cost(f, p) < Cost(f, q) \/ (Cost(f, p) = Cost(f, q) /\ AbsRat(U(f, q[1], q[2])) \preceq AbsRat(U(f, p[1], p[2])))}

\* The pivots that may be chosen, <<row, column>> of U; none: the basis is malformed.
ChoosePivotAmong(f, candidates) ==
  CASE SingletonRows(f) /= {} -> {Min(SingletonRows(f))} \X {j \in Active(f) : U(f, Min(SingletonRows(f)), j) /= Zero}
    [] SingletonRows(f) = {} /\ SingletonColumns(f) /= {} ->
         {i \in Active(f) : U(f, i, Min(SingletonColumns(f))) /= Zero} \X {Min(SingletonColumns(f))}
    [] OTHER -> candidates
\* The dense search only minds a zero column as long as it has found nothing.
ChoosePivot(f) == ChoosePivotAmong(f, IF f.step \in ZeroColumns(f) THEN {} ELSE Markowitz(f))
SparseChoosePivot(f) == ChoosePivotAmong(f, IF ZeroColumns(f) /= {} THEN {} ELSE Markowitz(f))

Permute(f, p) ==
  [f EXCEPT !.P = SwapColumns(f.P, p[1], f.step), !.Q = SwapRows(f.Q, p[2], f.step),
            !.rows = Swap(f.rows, p[1], f.step), !.columns = Swap(f.columns, p[2], f.step)]

\* The row of V after its multiple of the pivot row is subtracted, as it was in columns already eliminated.
Subtracted(f, row, multiplier) ==
  LET pivotRow == f.V[f.P.col[f.step]]
      pivotColumn == f.Q.row[f.step]
  IN  Known([c \in DOMAIN row |-> IF multiplier = Zero \/ f.Q.col[c] < f.step THEN row[c]
                                  ELSE IF c = pivotColumn THEN Zero ELSE row[c] -- multiplier ** pivotRow[c]])
\* Elements that appear less elements that vanish in a pair of rows, in the columns of S.
FillIn(old, new, S) == Cardinality({c \in S : old[c] = Zero /\ new[c] /= Zero}) - Cardinality({c \in S : old[c] /= Zero /\ new[c] = Zero})
\* The counters after the step; the pivot row leaves the active part.
CountersAfter(f, V) ==
  LET m == Len(V)
      pivotRow == f.V[f.P.col[f.step]]
      below == {r \in 1..m : f.P.row[r] > f.step}
      right == {c \in 1..m : f.Q.col[c] >= f.step}
  IN  [rows |-> Known([u \in 1..m |-> IF u = f.step THEN 0 ELSE IF u < f.step THEN f.rows[u]
                                        ELSE f.rows[u] + FillIn(f.V[f.P.col[u]], V[f.P.col[u]], right)]),
       columns |-> Known([u \in 1..m |-> LET c == f.Q.row[u]
                            IN  IF u < f.step THEN f.columns[u]
                                ELSE f.columns[u] - (IF pivotRow[c] /= Zero THEN 1 ELSE 0)
                                     + FillIn([r \in 1..m |-> f.V[r][c]], [r \in 1..m |-> V[r][c]], below)])]
WithStep(f, V, F) == [f EXCEPT !.V = V, !.F = F, !.step = @ + 1, !.rows = CountersAfter(f, V).rows, !.columns = CountersAfter(f, V).columns]

Eliminate(f) ==
  LET m == Len(f.V)
      vp == f.P.col[f.step]
      vq == f.Q.row[f.step]
      multiplier == Known([r \in 1..m |-> IF f.P.row[r] > f.step THEN f.V[r][vq] // f.V[vp][vq] ELSE Zero])
  IN  WithStep(f, Known([r \in 1..m |-> Subtracted(f, f.V[r], multiplier[r])]),
               Matrix(m, LAMBDA r, c : IF c = vp /\ multiplier[r] /= Zero THEN multiplier[r] ELSE f.F[r][c]))
\* The sparse form reads the column from Vt and keeps Vt, Ft and the diagonal in step.
SparseEliminate(f) ==
  LET m == Len(f.V)
      vp == f.P.col[f.step]
      vq == f.Q.row[f.step]
      multiplier == Known([r \in 1..m |-> IF f.P.row[r] > f.step THEN f.Vt[vq][r] // f.V[vp][vq] ELSE Zero])
      V == Known([r \in 1..m |-> Subtracted(f, f.V[r], multiplier[r])])
  IN  [WithStep(f, V, Matrix(m, LAMBDA r, c : IF c = vp /\ multiplier[r] /= Zero THEN multiplier[r] ELSE f.F[r][c])) EXCEPT
         !.Vt = Matrix(m, LAMBDA c, r : IF multiplier[r] = Zero THEN f.Vt[c][r] ELSE IF c = vq THEN Zero
                                        ELSE IF f.Q.col[c] > f.step /\ f.V[vp][c] /= Zero THEN V[r][c] ELSE f.Vt[c][r]),
         !.Ft = Matrix(m, LAMBDA c, r : IF c = vp /\ multiplier[r] /= Zero THEN multiplier[r] ELSE f.Ft[c][r]),
         !.diagonal[vp] = f.V[vp][vq]]

(****************************************************************************)
(* Solving with the factors.                                                *)
(****************************************************************************)
FForward(f, y) ==
  FoldLeft(LAMBDA x, l : LET c == f.P.col[l] IN Known([r \in DOMAIN x |-> IF f.P.row[r] > l THEN x[r] -- f.F[r][c] ** x[c] ELSE x[r]]), y, UpTo(Len(y)))
FBackward(f, y) ==
  FoldLeft(LAMBDA x, l : LET r == f.P.col[l] IN Known([c \in DOMAIN x |-> IF f.P.row[c] < l THEN x[c] -- f.F[r][c] ** x[r] ELSE x[c]]), y, Reverse(UpTo(Len(y))))
VForward(f, y) ==
  LET m == Len(y)
      Solve(x, u) == LET r == f.P.col[u]
                         rest == RatSum([w \in u + 1..m |-> f.V[r][f.Q.row[w]] ** x[f.Q.row[w]]])
                     IN  [x EXCEPT ![f.Q.row[u]] = (y[r] -- rest) // f.V[r][f.Q.row[u]]]
  IN  FoldLeft(Solve, y, Reverse(UpTo(m)))
VBackward(f, y) ==
  LET Solve(x, u) == LET c == f.Q.row[u]
                         rest == RatSum([w \in 1..u - 1 |-> f.V[f.P.col[w]][c] ** x[f.P.col[w]]])
                     IN  [x EXCEPT ![f.P.col[u]] = (y[c] -- rest) // f.V[f.P.col[u]][c]]
  IN  FoldLeft(Solve, y, UpTo(Len(y)))

\* The sparse loops: each solved entry is subtracted, times its column or row, from the rest.
LOCAL Scattered(work, entries, by) == Known([i \in DOMAIN work |-> work[i] -- by ** entries[i]])
PermutationOfF(f) == IF f.usePForF THEN f.PForF ELSE f.P
SparseFForward(f, y) ==
  FoldLeft(LAMBDA x, l : LET c == PermutationOfF(f).col[l] IN Scattered(x, [f.Ft[c] EXCEPT ![c] = Zero], x[c]), y, UpTo(Len(y)))
SparseFBackward(f, y) ==
  FoldLeft(LAMBDA x, l : LET c == PermutationOfF(f).col[l] IN Scattered(x, [f.F[c] EXCEPT ![c] = Zero], x[c]), y, Reverse(UpTo(Len(y))))
SparseVForward(f, y) ==
  LET Solve(s, u) == LET r == f.P.col[u]
                         c == f.Q.row[u]
                         v == s.work[r] // f.diagonal[r]
                     IN  [work |-> Scattered(s.work, f.Vt[c], v), x |-> [s.x EXCEPT ![c] = v]]
  IN  FoldLeft(Solve, [work |-> y, x |-> y], Reverse(UpTo(Len(y)))).x
SparseVBackward(f, y) ==
  LET Solve(s, u) == LET r == f.P.col[u]
                         c == f.Q.row[u]
                         v == s.work[c] // f.diagonal[r]
                     IN  [work |-> Scattered(s.work, f.V[r], v), x |-> [s.x EXCEPT ![r] = v]]
  IN  FoldLeft(Solve, [work |-> y, x |-> y], UpTo(Len(y))).x

\* Row operations on the identity: those of L, then those of U, then the permutations back.
InverseOf(F, V, P, Q) ==
  LET m == Len(F)
      ByL(W, l) == Matrix(m, LAMBDA r, i : IF r > l /\ i <= l THEN W[r][i] -- F[P.col[r]][P.col[l]] ** W[l][i] ELSE W[r][i])
      ByU(W, u) == LET pivot == V[P.col[u]][Q.row[u]]
                   IN  Matrix(m, LAMBDA r, i : IF r < u THEN W[r][i] -- (V[P.col[r]][Q.row[u]] // pivot) ** W[u][i]
                                               ELSE IF r = u THEN W[u][i] // pivot ELSE W[r][i])
      W == FoldLeft(ByU, FoldLeft(ByL, IdentityMatrix(m), UpTo(m - 1)), Reverse(UpTo(m)))
  IN  Matrix(m, LAMBDA i, j : W[Q.col[i]][P.row[j]])
InvertBasis(f) == InverseOf(f.F, f.V, f.P, f.Q)
SparseInvertBasis(f) == InverseOf(Transposed(f.Ft), Transposed(f.Vt), f.P, f.Q)

(****************************************************************************)
(* The product form: B = B0 * E1 * ... * En.                                *)
(****************************************************************************)
EtaForward(etas, y) ==
  FoldLeft(LAMBDA x, e : LET factor == x[e.index] // e.column[e.index]
                         IN  Known([i \in DOMAIN x |-> IF i = e.index THEN factor ELSE x[i] -- factor ** e.column[i]]), y, etas)
EtaBackward(etas, y) ==
  FoldLeft(LAMBDA z, e : [z EXCEPT ![e.index] = (z[e.index] -- RatSum([i \in DOMAIN z \ {e.index} |-> z[i] ** e.column[i]])) // e.column[e.index]],
           y, Reverse(etas))
EtaMatrix(p, change) == [index |-> p, column |-> change]

(****************************************************************************)
(* LUFactorization and SparseLUFactorization: z = [f |-> the factors of B0, *)
(* etas |-> E1, ..., En].  A fresh factorization starts from the basis of   *)
(* the tableau, without etas.                                               *)
(****************************************************************************)
LUObtainFreshBasis(B) == [f |-> InitializeFactorization(B), etas |-> <<>>]
LUUpdateToAdjacentBasis(z, p, change) == [z EXCEPT !.etas = Append(@, EtaMatrix(p, change))]
LUForward(z, y) == EtaForward(z.etas, VForward(z.f, FForward(z.f, y)))
LUBackward(z, y) == FBackward(z.f, VBackward(z.f, EtaBackward(z.etas, y)))
LUExplicitBasisAvailable(z) == z.etas = <<>>

SparseObtainFreshBasis(B) == [f |-> SparseInitializeFactorization(B), etas |-> <<>>]
SparseLUUpdateToAdjacentBasis(z, p, change) == [z EXCEPT !.etas = Append(@, EtaMatrix(p, change))]
SparseLUForward(z, y) == EtaForward(z.etas, SparseVForward(z.f, SparseFForward(z.f, y)))
SparseLUBackward(z, y) == SparseFBackward(z.f, SparseVBackward(z.f, EtaBackward(z.etas, y)))

(****************************************************************************)
(* The two Forrest-Tomlin factorizations, which change U itself when a      *)
(* column of the basis is replaced: SparseFTFactorization (the default),    *)
(* B = F * H * V, and ForrestTomlinFactorization,                           *)
(* Ak...A1 * Ls Ps...L1 P1 * B = Q * Um...U1 * inv(Q).                      *)
(****************************************************************************)

(****************************************************************************)
(* SparseFTFactorization: z = [f |-> the factors, etas |-> H].              *)
(****************************************************************************)
HForward(etas, y) ==
  FoldLeft(LAMBDA x, e : FoldLeft(LAMBDA w, a : [w EXCEPT ![e.index] = @ -- a[2] ** w[a[1]]], x, e.entries), y, etas)
HBackward(etas, y) ==
  FoldLeft(LAMBDA x, e : FoldLeft(LAMBDA w, a : [w EXCEPT ![a[1]] = @ -- a[2] ** x[e.index]], x, e.entries), y, Reverse(etas))
SparseFTForward(z, y) == SparseVForward(z.f, HForward(z.etas, SparseFForward(z.f, y)))
SparseFTBackward(z, y) == SparseFBackward(z.f, HBackward(z.etas, SparseVBackward(z.f, y)))

SparseFTExplicitBasisAvailable(z) == z.etas = <<>> /\ ~z.f.usePForF

\* F solved with the permutation of V.
FixPForLNever(f) == f
\* F keeps the permutation it was computed with.
FixPForL(f) == IF f.usePForF THEN f ELSE [f EXCEPT !.usePForF = TRUE, !.PForF = f.P]

\* Column p of V becomes z4.
ReplaceColumn(f, p, z4) ==
  [f EXCEPT !.V = Known([i \in DOMAIN z4 |-> [f.V[i] EXCEPT ![p] = z4[i]]]), !.Vt[p] = z4]
\* The spike of U, a column, becomes a row: u goes behind last, in both permutations.
Behind(ordering, u, last) ==
  Known([i \in DOMAIN ordering |-> IF i \in u..last - 1 THEN ordering[i + 1] ELSE IF i = last THEN ordering[u] ELSE ordering[i]])
PermuteSpike(f, u, last) ==
  LET pcol == Behind(f.P.col, u, last)
      qrow == Behind(f.Q.row, u, last)
  IN  [f EXCEPT !.P = [col |-> pcol, row |-> Inverted(pcol)], !.Q = [row |-> qrow, col |-> Inverted(qrow)]]
\* The row d of V is eliminated by the rows u to last - 1 of U.
EliminateSpike(f, d, u, last) ==
  LET Step(s, i) ==
        LET r == f.P.col[i]
            c == f.Q.row[i]
            multiplier == s.row[c] // f.V[r][c]
        IN  IF s.row[c] = Zero THEN s
            ELSE [row |-> Known([k \in DOMAIN s.row |-> IF k = c THEN Zero ELSE s.row[k] -- multiplier ** f.V[r][k]]),
                  entries |-> Append(s.entries, <<r, multiplier>>)]
  IN  FoldLeft(Step, [row |-> f.V[d], entries |-> <<>>], [k \in 1..last - u |-> u + k - 1])
\* The elimination is recorded in H, and the eliminated row written back to V and Vt.
RecordSpike(z, f, d, p, s) ==
  [z EXCEPT !.etas = Append(@, [index |-> d, entries |-> s.entries]),
            !.f = [f EXCEPT !.V[d] = s.row, !.diagonal[d] = s.row[p],
                            !.Vt = Known([c \in DOMAIN s.row |-> [f.Vt[c] EXCEPT ![d] = s.row[c]]])]]
\* The result is refreshed when the new diagonal element is within the tolerance.
UpdateSparseFT(z, p, newColumn, tolerance) ==
  LET fixed == FixPForL(z.f)
      u == fixed.Q.col[p]
      d == fixed.P.col[u]
      z4 == HForward(z.etas, SparseFForward(fixed, newColumn))
      last == Max({1} \cup {fixed.P.row[i] : i \in {k \in DOMAIN z4 : z4[k] /= Zero}})
      replaced == ReplaceColumn(fixed, p, z4)
      moved == PermuteSpike(replaced, u, last)
      haveSpike == \E c \in DOMAIN z4 : moved.V[d][c] /= Zero /\ moved.Q.col[c] < last
      s == EliminateSpike(moved, d, u, last)
  IN  IF last <= u THEN [fresh |-> FALSE, z |-> [z EXCEPT !.f = [replaced EXCEPT !.diagonal[d] = z4[d]]]]
      ELSE IF ~haveSpike THEN [fresh |-> FALSE, z |-> [z EXCEPT !.f = [moved EXCEPT !.diagonal[d] = z4[d]]]]
      ELSE IF AbsRat(s.row[p]) \prec tolerance THEN [fresh |-> TRUE, z |-> [z EXCEPT !.f = moved]]
      ELSE [fresh |-> FALSE, z |-> RecordSpike(z, moved, d, p, s)]

(****************************************************************************)
(* ForrestTomlinFactorization: U[i] is column i of U; Q and invQ are row    *)
(* orderings; LP lists row swaps and etas, A elementary row operations, in  *)
(* the order they are applied.                                              *)
(****************************************************************************)
ClearFT(m) == [U |-> IdentityMatrix(m), Q |-> UpTo(m), invQ |-> UpTo(m), LP |-> <<>>, A |-> <<>>, explicit |-> TRUE]
SwapEntries(w, pair) == Swap(w, pair[1], pair[2])
BestRow(W, i) == CHOOSE j \in i..Len(W) : /\ \A k \in i..Len(W) : AbsRat(W[k][i]) \preceq AbsRat(W[j][i])
                                         /\ \A k \in i..j - 1 : AbsRat(W[k][i]) \prec AbsRat(W[j][i])
\* Column i is eliminated by the row with the largest element; <<>> if there is none.
InitialLUStep(s, i) ==
  LET best == BestRow(s.W, i)
      W == Swap(s.W, i, best)
      m == Len(W)
      eta == Known([j \in 1..m |-> IF j < i THEN Zero ELSE IF j = i THEN One // W[i][i] ELSE Neg(W[j][i]) // W[i][i]])
      Below(j) == Known([c \in 1..m |-> IF c < i THEN W[j][c] ELSE IF c = i THEN Zero ELSE W[j][c] ++ eta[j] ** W[i][c]])
  IN  IF s = <<>> \/ s.W[best][i] = Zero THEN <<>>
      ELSE [W |-> Known([j \in 1..m |-> IF j < i THEN W[j] ELSE IF j > i THEN Below(j)
                                        ELSE Known([c \in 1..m |-> IF c < i THEN W[i][c] ELSE W[i][c] ** eta[i]])]),
            LP |-> s.LP \o (IF best = i THEN <<>> ELSE <<[pair |-> <<i, best>>]>>) \o <<[index |-> i, column |-> eta, pair |-> <<>>]>>]
InitialLUFactorization(B) ==
  LET s == FoldLeft(InitialLUStep, [W |-> B, LP |-> <<>>], UpTo(Len(B)))
  IN  IF s = <<>> THEN <<>>
      ELSE [ClearFT(Len(B)) EXCEPT !.LP = s.LP,
                                   !.U = Known([i \in DOMAIN B |-> Known([j \in DOMAIN B |-> IF j <= i THEN s.W[j][i] ELSE Zero])])]

ApplyLP(w, lp) ==
  IF lp.pair /= <<>> THEN SwapEntries(w, lp.pair)
  ELSE Known([i \in DOMAIN w |-> IF i < lp.index THEN w[i] ELSE IF i = lp.index THEN w[i] ** lp.column[i] ELSE w[i] ++ w[lp.index] ** lp.column[i]])
ApplyA(w, a) == IF a.column = a.row THEN [w EXCEPT ![a.row] = @ ** a.value] ELSE [w EXCEPT ![a.row] = @ ++ a.value ** w[a.column]]
SolveU(z, y) ==
  FoldLeft(LAMBDA w, i : Known([j \in DOMAIN w |-> IF j < i THEN w[j] -- z.U[i][j] ** w[i] ELSE w[j]]), y, Reverse(UpTo(Len(y))))
FTForward(z, y) ==
  LET w == FoldLeft(ApplyA, FoldLeft(ApplyLP, y, z.LP), z.A)
      x == SolveU(z, Known([i \in DOMAIN y |-> w[z.invQ[i]]]))
  IN  Known([i \in DOMAIN y |-> x[z.Q[i]]])

ApplyLPLeft(x, lp) ==
  IF lp.pair /= <<>> THEN SwapEntries(x, lp.pair) ELSE [x EXCEPT ![lp.index] = RatSum([i \in DOMAIN x |-> lp.column[i] ** x[i]])]
ApplyALeft(x, a) == IF a.column = a.row THEN [x EXCEPT ![a.row] = @ ** a.value] ELSE [x EXCEPT ![a.column] = @ ++ a.value ** x[a.row]]
SolveULeft(z, y) ==
  FoldLeft(LAMBDA v, i : [v EXCEPT ![i] = @ -- RatSum([j \in DOMAIN v \ {i} |-> z.U[i][j] ** v[j]])], y, UpTo(Len(y)))
FTBackward(z, y) ==
  LET v == SolveULeft(z, Known([i \in DOMAIN y |-> y[z.invQ[i]]]))
  IN  FoldLeft(ApplyLPLeft, FoldLeft(ApplyALeft, Known([i \in DOMAIN y |-> v[z.Q[i]]]), Reverse(z.A)), Reverse(z.LP))

\* The changed column of U, and the operations that make the permuted V upper triangular.
ChangedColumn(z, change) ==
  FoldLeft(LAMBDA w, i : Known([j \in DOMAIN w |-> IF j < i THEN w[j] ++ w[i] ** z.U[i][j] ELSE w[j]]),
           Known([i \in DOMAIN change |-> change[z.invQ[i]]]), UpTo(Len(change)))
WorkQ(m, index) == Known([i \in 1..m |-> IF i < index THEN i ELSE IF i < m THEN i + 1 ELSE index])
NewAs(V, workQ, index) ==
  LET m == Len(V)
      Add(As, i) ==
        LET Element(k) == V[workQ[i]][workQ[k]]
            bump == Element(m) ++ RatSum([k \in DOMAIN As |-> As[k].value ** Element(As[k].column)])
        IN  IF bump = (IF i < m THEN Zero ELSE One) THEN As
            ELSE Append(As, [row |-> m, column |-> i, value |-> IF i < m THEN Neg(bump) // Element(i) ELSE One // bump])
  IN  FoldLeft(Add, <<>>, [k \in 1..m - index + 1 |-> index + k - 1])
\* The columns behind the changed one move left and up; the changed one becomes the last.
ShiftedU(V, index) ==
  LET m == Len(V)
      Up(column, top, diagonal) ==
        Known([j \in 1..m |-> IF j < index \/ j > top THEN column[j] ELSE IF j < top THEN column[j + 1] ELSE diagonal])
  IN  Known([i \in 1..m |-> IF i < index THEN V[i] ELSE IF i < m THEN Up(V[i + 1], i + 1, Zero) ELSE Up(V[index], m, One)])
UpdateFT(z, p, change) ==
  LET m == Len(change)
      index == CHOOSE i \in 1..m : z.invQ[i] = p
      V == [z.U EXCEPT ![index] = ChangedColumn(z, change)]
      workQ == WorkQ(m, index)
      Q == Known([i \in 1..m |-> Inverted(workQ)[z.Q[i]]])
      As == NewAs(V, workQ, index)
      invQ == Inverted(Q)
  IN  [z EXCEPT !.U = ShiftedU(V, index), !.Q = Q, !.invQ = invQ, !.explicit = FALSE,
                !.A = @ \o [k \in DOMAIN As |-> [As[k] EXCEPT !.row = invQ[As[k].row], !.column = invQ[As[k].column]]]]

InvertFT(z) ==
  LET m == Len(z.U)
      Lower(R, lp) ==
        IF lp.pair /= <<>> THEN Swap(R, lp.pair[1], lp.pair[2])
        ELSE Known([r \in 1..m |-> Known([c \in 1..m |-> IF r < lp.index THEN R[r][c] ELSE IF r = lp.index THEN R[r][c] ** lp.column[r]
                                                         ELSE R[r][c] ++ lp.column[r] ** R[lp.index][c]])])
      Upper(R, u) == Known([r \in 1..m |-> Known([c \in 1..m |-> IF r < u THEN R[r][c] -- z.U[u][r] ** R[u][c] ELSE R[r][c]])])
  IN  FoldLeft(Upper, FoldLeft(Lower, IdentityMatrix(m), z.LP), Reverse(UpTo(m)))
===============================================================================
