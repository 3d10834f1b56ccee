-------------------------- MODULE MCUnsatCertificate --------------------------
(****************************************************************************)
(* Certificates of small queries, written by the engine's side one          *)
(* tightening at a time in every order, and read by the checker, for the    *)
(* query itself and for weaker ones; the checker's lemmas and splits on     *)
(* their own, over bounds and tightenings around the constraints' corners.  *)
(****************************************************************************)
EXTENDS MCNetwork    \* for its variable
LOCAL INSTANCE UnsatCertificate
LOCAL INSTANCE TLC

LOCAL Box(lbs, ubs) == [x \in (1..Len(lbs)) \X Sides |-> IF x[2] = "LB" THEN lbs[x[1]] ELSE ubs[x[1]]]
LOCAL Ints(s) == [k \in DOMAIN s |-> Rat(s[k])]
LOCAL Relu(b, f, aux, row) == [type |-> "relu", vars |-> <<b, f, aux>>, row |-> row]
LOCAL Op(row, v, side) == [row |-> row, v |-> v, side |-> side]

\* One ReLU and f + aux = t: with |b| <= 1 and t = 2 neither phase allows it, t = 1 both.
LOCAL OneRelu(t, v) ==
  [n |-> 5, rows |-> <<Ints(<<-1, 1, -1, -1, 0>>), Ints(<<0, 1, 1, 0, -1>>)>>,
   box |-> Box(Ints(<<-1, 0, 0, 0, t>>), Ints(<<1, 3, 3, 0, t>>)), cons |-> <<Relu(1, 2, 3, 1)>>,
   ops |-> <<Op(1, 1, "LB"), Op(2, v, "LB"), Op(1, 2, "UB")>>]

\* 2f - b = y <= -1: the rows alone refute it.
LOCAL Linear ==
  [n |-> 6, rows |-> <<Ints(<<-1, 1, -1, 0, -1, 0>>), Ints(<<1, -2, 0, 1, 0, -1>>)>>,
   box |-> Box(Ints(<<-1, 0, 0, -3, 0, 0>>), Ints(<<1, 2, 2, -1, 0, 0>>)), cons |-> <<Relu(1, 2, 3, 1)>>,
   ops |-> <<Op(2, 1, "UB"), Op(2, 2, "LB"), Op(1, 3, "UB")>>]

\* Two ReLUs of x and -x, |x| <= 2, whose sum is 3.
LOCAL TwoRelus(coupled) ==
  [n |-> 10, rows |-> <<Ints(<<-1, 0, 1, 0, -1, 0, -1, 0, 0, 0>>), Ints(<<0, -1, 0, 1, 0, -1, 0, -1, 0, 0>>),
                        Ints(<<1, 1, 0, 0, 0, 0, 0, 0, -1, 0>>), Ints(<<0, 0, 1, 1, 0, 0, 0, 0, 0, -1>>)>>,
   box |-> Box(Ints(<<-2, -2, 0, 0, 0, 0, 0, 0, 0, 3>>), Ints(<<2, 2, 4, 4, 4, 4, 0, 0, 0, 3>>)),
   cons |-> <<Relu(1, 3, 5, 1), Relu(2, 4, 6, 2)>>,
   ops |-> IF coupled THEN <<Op(3, 2, "UB"), Op(3, 2, "LB"), Op(4, 3, "LB")>>
                          ELSE <<Op(3, 9, "LB"), Op(1, 3, "UB"), Op(4, 3, "UB")>>]

LOCAL ProofQueries == {OneRelu(2, 3), OneRelu(2, 5), OneRelu(1, 3), Linear, TwoRelus(TRUE), TwoRelus(FALSE)}

\* What the rows of tableaus and of cost functions are: the rows and their sums.
LOCAL Rows(q) ==
  LET Add(x, y, k) == [v \in DOMAIN x |-> x[v] ++ (k ** y[v])]
  IN  ToSet(q.rows) \cup {Add(q.rows[i], q.rows[j], k) : <<i, j, k>> \in {x \in (1..Len(q.rows)) \X (1..Len(q.rows)) \X {One, Rat(-1)} : x[1] < x[2]}}

LOCAL Arrangements == {o \in [1..3 -> 1..3] : Cardinality({o[i] : i \in 1..3}) = 3}

\* The bounds of the query with one of them out by 3.
LOCAL Weaker(q) ==
  {q.box} \cup {[q.box EXCEPT ![<<v, side>>] = @ ++ Rat(IF side = "UB" THEN 3 ELSE -3)] :
                  <<v, side>> \in {1, q.n} \X Sides}

\* The points where every constraint holds and every row, by its own variable, too.
LOCAL Halves == {<<k, 2>> : k \in {-7, -5, -3, -1, 1, 3, 5, 7}} \cup {Rat(k) : k \in -4..4}
LOCAL ReluPoint(q, b, fixed) ==
  LET base == IF Len(q.cons) = 1
                THEN (1 :> b) @@ (2 :> Larger(b, Zero)) @@ (3 :> Larger(Neg(b), Zero)) @@ fixed
                ELSE (1 :> b) @@ (2 :> Neg(b)) @@ (3 :> Larger(b, Zero)) @@ (4 :> Larger(Neg(b), Zero))
                       @@ (5 :> Larger(Neg(b), Zero)) @@ (6 :> Larger(b, Zero)) @@ fixed
      first == q.n - Len(q.rows)
  IN  [v \in 1..q.n |-> IF v <= first THEN base[v]
                        ELSE RatSum([u \in 1..first |-> q.rows[v - first][u] ** base[u]])]
LOCAL Solutions(q, box) ==
  {p \in {ReluPoint(q, b, 4 :> (Rat(2) ** Larger(b, Zero)) -- b) : b \in Halves} :
     \A v \in 1..q.n : box[<<v, "LB">>] \preceq p[v] /\ p[v] \preceq box[<<v, "UB">>]}

ProofBegin ==
  /\ job.kind = "proofs"
  /\ \E order \in Arrangements, first \in {"active", "inactive"} :
       job' = [kind |-> "proof", q |-> job.q, order |-> order, first |-> first, path |-> <<>>, at |-> 1,
               tree |-> <<>> :> [NewNode(<<>>) EXCEPT !.visited = TRUE], todo |-> <<>>, s |-> Propagated(job.q, InitialState(job.q)),
               done |-> FALSE]

LOCAL Conflict(s) == s.inconsistent /= 0 \/ s.failed
LOCAL OpenRelus(j) == {k \in DOMAIN j.q.cons : j.s.active[k]}

\* A bound is tightened by a row.
ProofTighten ==
  /\ job.kind = "proof" /\ ~job.done
  /\ ~Conflict(job.s) /\ job.at <= Len(job.order)
  /\ LET op == job.q.ops[job.order[job.at]]
     IN  job' = [job EXCEPT !.at = @ + 1, !.s = Propagated(job.q, TightenByRow(job.q, job.s, job.q.rows[op.row], op.v, op.side))]

\* The next node to do, or none.
LOCAL Onward(j) ==
  IF j.todo = <<>> THEN [j EXCEPT !.done = TRUE]
    ELSE LET next == Head(j.todo)
         IN  [j EXCEPT !.todo = Tail(@), !.path = next.path, !.at = 1, !.tree[next.path].visited = TRUE,
                       !.s = Entered(j.q, next.parent, j.tree[next.path].split)]

\* A conflict, of bounds or of a row of the tableau: the leaf is certified, or delegated
\* if nothing explains its crossed bounds.
ProofFail ==
  /\ job.kind = "proof" /\ ~job.done
  /\ Conflict(job.s) \/ job.at > Len(job.order)
  /\ \E found \in {Explanations(job.q, job.s, Rows(job.q))} :
       \E node \in {WithContradiction(job.q, job.tree[job.path], [job.s EXCEPT !.expl = e.expl], e.var) : e \in found}
                     \cup (IF found = {} /\ Conflict(job.s) THEN {Delegated(job.tree[job.path])} ELSE {}) :
         job' = Onward([job EXCEPT !.tree[job.path] = node])

LOCAL NoExplanation == Explanations(job.q, job.s, Rows(job.q)) = {}

ProofSplit ==
  /\ job.kind = "proof" /\ ~job.done
  /\ ~Conflict(job.s) /\ job.at > Len(job.order) /\ OpenRelus(job) /= {} /\ NoExplanation
  /\ LET k == CHOOSE i \in OpenRelus(job) : \A l \in OpenRelus(job) : i <= l
         other == IF job.first = "active" THEN "inactive" ELSE "active"
         splits == <<ReluSplit(job.q.cons[k], job.first), ReluSplit(job.q.cons[k], other)>>
         parent == [job.s EXCEPT !.active[k] = FALSE]
     IN  job' = Onward([job EXCEPT !.tree = WithChildren(@, job.path, job.s, splits),
                                   !.todo = [i \in 1..2 |-> [path |-> Append(job.path, i), parent |-> parent]] \o @])

\* Every phase is fixed and nothing conflicts: a solution, and the search is over.
ProofSat ==
  /\ job.kind = "proof" /\ ~job.done
  /\ ~Conflict(job.s) /\ job.at > Len(job.order) /\ OpenRelus(job) = {} /\ NoExplanation
  /\ job' = [job EXCEPT !.tree[job.path].sat = TRUE, !.done = TRUE]

ProofCheck ==
  /\ job.kind = "proof" /\ job.done
  /\ job' = [kind |-> "checked", q |-> job.q, tree |-> job.tree,
             verdicts |-> {[box |-> box, check |-> Check([job.q EXCEPT !.box = box], job.tree),
                            solutions |-> Solutions(job.q, box)] : box \in Weaker(job.q)}]

----------------------------------------------------------------------------
(* Lemmas and splits on their own                                           *)

LOCAL SampleCons ==
  {[type |-> "relu", vars |-> <<1, 2, 3>>], [type |-> "sign", vars |-> <<1, 2>>], [type |-> "abs", vars |-> <<1, 2, 3, 4>>],
   [type |-> "leaky relu", vars |-> <<1, 2, 3, 4>>, slope |-> Half],
   [type |-> "max", f |-> 2, elements |-> {1, 3}, aux |-> (1 :> 4) @@ (3 :> 5), eliminated |-> {}, maxOfEliminated |-> Neg(Infinity)],
   [type |-> "max", f |-> 2, elements |-> {1}, aux |-> (1 :> 4), eliminated |-> {6}, maxOfEliminated |-> One],
   [type |-> "disjunction", vars |-> <<1, 2>>,
    disjuncts |-> <<<<<<1, "LB", One>>>>, <<<<1, "UB", Zero>>, <<2, "LB", Zero>>>>, <<<<1, "UB", Zero>>, <<2, "UB", Zero>>>>>>]}

\* The points of a constraint, the variables its equations define included.
LOCAL PointsOf(con) ==
  CASE con.type = "relu"  -> {<<b, Larger(b, Zero), Larger(Neg(b), Zero)>> : b \in Halves}
    [] con.type = "sign"  -> {<<b, IF b \prec Zero THEN Rat(-1) ELSE One>> : b \in Halves}
    [] con.type = "abs"   -> {<<b, AbsRat(b), AbsRat(b) -- b, AbsRat(b) ++ b>> : b \in Halves}
    [] con.type = "leaky relu" -> {LET f == Larger(b, Half ** b) IN <<b, f, f -- b, f -- (Half ** b)>> : b \in Halves}
    [] con.type = "max" -> {LET f == LargestOf({con.maxOfEliminated} \cup {IF e = 1 THEN x ELSE y : e \in con.elements})
                            IN  <<x, f, y, f -- x, f -- y, Zero>> : x \in {Rat(k) : k \in -3..3}, y \in {Rat(k) : k \in -3..3}}
    [] con.type = "disjunction" -> {<<x, y>> : x \in {Rat(k) : k \in -2..3} \cup {Half}, y \in {Rat(k) : k \in -2..2}}
LOCAL Meets(p, t) == IF t[2] = "UB" THEN p[t[1]] \preceq t[3] ELSE t[3] \preceq p[t[1]]
LOCAL Of(con) == {p \in PointsOf(con) : con.type /= "disjunction" \/
                                        \E i \in DOMAIN con.disjuncts : \A t \in ToSet(con.disjuncts[i]) : Meets(p, t)}

LOCAL Width(con) == Len(CHOOSE p \in PointsOf(con) : TRUE)
LOCAL Tightenings(con, values) == (1..Width(con)) \X Sides \X values
LOCAL Corners == {Rat(k) : k \in -2..2}

\* Where the strict cases begin; Epsilon takes them in.
LOCAL Borderline(con, l, x, y) ==
  \/ x = Zero \/ (con.type = "sign" /\ x \in {One, Rat(-1)})
  \/ (con.type = "abs" /\ Len(l.causing) = 2 /\ (x = y \/ Neg(x) = y))

\* Lemmas that are accepted though they do not follow, or for a bound that does not.
LOCAL Loose(con, l, x) ==
  \/ con.type = "max" /\ ToSet(l.causing) /= con.elements
  \/ con.type = "leaky relu" /\ Len(l.causing) = 1 /\
       ((From(l, 2, "LB", 1, "LB") /\ Zero \prec x) \/ (From(l, 1, "UB", 2, "UB") /\ x \prec Zero))

LOCAL LemmaCauses(con) ==
  {<<v>> : v \in 1..Width(con)} \cup (IF con.type = "abs" THEN {<<1, 1>>, <<1, 2>>} ELSE {})
    \cup (IF con.type = "max" THEN {<<1, 3>>, <<1>>, <<3>>} ELSE {})

\* The first cause's bound is x on the lemma's side (both sides for two causes), y bounds
\* the second one from below.
LOCAL LemmaVerdict(con, l, x, y) ==
  LET bound == LemmaBound(con, l, [k \in DOMAIN l.causing |-> IF con.type = "abs" /\ k = 2 THEN y ELSE x])
      causes == CASE con.type = "max" -> {<<v, "UB", x>> : v \in ToSet(l.causing)}
                  [] con.type = "abs" /\ l.causing = <<1, 1>> -> {<<1, "UB", x>>, <<1, "LB", y>>}
                  [] con.type = "abs" /\ l.causing = <<1, 2>> -> {<<1, l.causingSide, x>>, <<2, "LB", y>>}
                  [] OTHER -> {<<l.causing[1], l.causingSide, x>>}
  IN  [l |-> l, x |-> x, y |-> y, bound |-> bound,
       sound |-> \A p \in Of(con) : (\A t \in causes : Meets(p, t)) => Meets(p, <<l.affected, l.side, bound>>)]

LOCAL SplitPool(con) ==
  LET single == Tightenings(con, IF con.type = "sign" THEN {Zero, One, Rat(-1)} ELSE IF con.type = "disjunction" THEN {Zero, One} ELSE {Zero})
      own == IF con.type = "disjunction" THEN ToSet(con.disjuncts) ELSE IF con.type = "max" THEN MaxCases(con) ELSE {}
  IN  {<<t>> : t \in single} \cup {<<t, u>> : t \in single, u \in single} \cup own

ProofStarts ==
  {[kind |-> "proofs", q |-> q] : q \in ProofQueries}
    \cup {[kind |-> "lemmas", con |-> con] : con \in {c \in SampleCons : c.type /= "disjunction"}}
    \cup {[kind |-> "splits", con |-> con] : con \in SampleCons}

LemmaJob ==
  /\ job.kind = "lemmas"
  /\ \E causing \in LemmaCauses(job.con), side \in Sides, x \in Corners, y \in Corners :
       /\ Len(causing) = 1 => y = Zero
       /\ job' = [kind |-> "lemma", con |-> job.con,
                  verdicts |-> {LemmaVerdict(job.con, [type |-> job.con.type, causing |-> causing, causingSide |-> side,
                                                       affected |-> t[1], side |-> t[2], bound |-> t[3]], x, y) :
                                  t \in Tightenings(job.con, {Rat(-1), Zero, One})}]

SplitJob ==
  /\ job.kind = "splits"
  /\ \E first \in SplitPool(job.con) :
       LET pairs == {<<first, second>> : second \in SplitPool(job.con)}
           triples == IF job.con.type = "disjunction" THEN {<<first>> \o SubSeq(job.con.disjuncts, 2, 3)} ELSE {}
       IN  job' = [kind |-> "split", con |-> job.con,
                   accepted |-> {s \in pairs \cup triples :
                                   SingleVarSplits(s) \/ CorrespondingConstraint([cons |-> <<job.con>>], s) /= 0}]

ProofJob == ProofBegin \/ ProofTighten \/ ProofFail \/ ProofSplit \/ ProofSat \/ ProofCheck \/ LemmaJob \/ SplitJob

----------------------------------------------------------------------------
LOCAL IsProof == job.kind = "proof"

\* At any time the explanation of a bound yields, from the ground bounds, at least that
\* bound, and the ground bounds are no tighter than the bounds
\* (validateAllBounds and checkGroundBounds, Engine.cpp:3485-3548).
ExplanationsHold ==
  IsProof => \A x \in (1..job.q.n) \X Sides :
    /\ ~Tighter(x[2], job.s.bound[x], ComputeBound(job.q, x[1], x[2], job.s.expl[x], job.s.ground))
    /\ ~Tighter(x[2], job.s.ground[x], job.s.bound[x])

\* A conflict always has its certificate: in exact numbers no leaf is delegated
\* (explainSimplexFailure, Engine.cpp:3396-3432).
ConflictsCertified == IsProof => \A p \in DOMAIN job.tree : ~job.tree[p].delegated

\* The checker accepts what the engine wrote for its query (certifyUNSATCertificate).
EngineAccepted == job.kind = "checked" => \A v \in job.verdicts : v.box = job.q.box => v.check.ok

LOCAL OnlyContradictions(tree) ==
  \A p \in DOMAIN tree : tree[p].children = 0 => tree[p].contradiction /= <<>> /\ ~tree[p].delegated /\ ~tree[p].sat

\* Every leaf's contradiction holds by the splits and lemmas of its own path.
LOCAL RefutedOnPath(q, tree) ==
  \A p \in {l \in DOMAIN tree : tree[l].children = 0} :
    Contradicts(q, tree[p].contradiction[1],
                FoldLeft(LAMBDA c, k : WithNode(q, tree[SubSeq(p, 1, k - 1)], c),
                         [ground |-> q.box, changed |-> <<>>, ok |-> TRUE, files |-> <<>>, phase |-> <<>>],
                         [k \in 1..Len(p) + 1 |-> k]).ground)

\* A query whose certificate is accepted has no solution ("Checks if the tree is indeed a
\* correct proof of unsatisfiability", Checker.h:41), if every leaf is a contradiction,
\* and one of its own: checkNode returns from a leaf without restoring the bounds
\* (Checker.cpp:63-82), so that a leaf may be accepted by the bounds of the one before it.
AcceptedMeansNone ==
  job.kind = "checked" =>
    \A v \in job.verdicts :
      /\ v.check.ok
      /\ OnlyContradictions(job.tree)
      /\ RefutedOnPath([job.q EXCEPT !.box = v.box], job.tree)
      => v.solutions = {}

\* A lemma the checker accepts holds wherever the constraint and the bounds that cause it
\* do, beyond the tolerance (check...Lemma, Checker.cpp:615-1103).
LemmasSound ==
  job.kind = "lemma" => \A v \in job.verdicts :
    v.sound \/ Borderline(job.con, v.l, v.x, v.y) \/ Loose(job.con, v.l, v.x)

\* The variables of the splits are the ones the constraint's own splits bound.
LOCAL OwnSplits(con, s) ==
  CASE con.type = "sign" -> \A i \in 1..2 : s[i][1][1] = 1 /\ s[i][2][1] = 2
    [] con.type = "abs" -> Lower(s)[1][1] = 1 /\ Upper(s)[2][1] = 3
    [] con.type = "max" -> Cardinality(ToSet(s)) = Cardinality(MaxCases(con)) /\ ToSet(s) \subseteq MaxCases(con)
    [] OTHER -> TRUE

\* The children of a node the checker accepts cover every point of the constraint
\* (getCorresponding...Constraint, checkSingleVarSplits, Checker.cpp:326-613).
SplitsCover ==
  job.kind = "split" => \A s \in job.accepted :
    SingleVarSplits(s) \/ OwnSplits(job.con, s) =>
      \A p \in Of(job.con) : \E i \in DOMAIN s : \A t \in ToSet(s[i]) : Meets(p, t)

\* What the engine writes when it produces proofs is a proof, and what the checker takes
\* for one, beyond its tolerances and exceptions, too (Engine.cpp:3396-3815, Checker.cpp).
CertificatesRight ==
  /\ ExplanationsHold
  /\ ConflictsCertified
  /\ EngineAccepted
  /\ AcceptedMeansNone
  /\ LemmasSound
  /\ SplitsCover
==============================================================================
