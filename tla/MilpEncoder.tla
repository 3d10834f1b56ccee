------------------------------ MODULE MilpEncoder ------------------------------
(****************************************************************************)
(* The query as a mixed-integer program (engine/MILPEncoder), the equations *)
(* that the constraints add to the query, on which the program relies       *)
(* (transformToUseAuxVariables, addAuxiliaryEquationsAfterPreprocessing of  *)
(* the constraints), and the incremental linearization of its sigmoids.     *)
(*                                                                          *)
(* A query q has variables 1..q.n, bounds q.box[v] = [lb, ub], rows, each   *)
(* terms (a function from variables to coefficients) related to a scalar,   *)
(* and constraints [type, b, f, ...], active unless a split disabled them,  *)
(* fixed once their phase is.  Numbers are exact.                           *)
(*                                                                          *)
(* The program m: its columns, those of the query and the new ones, with    *)
(* bounds and kind; rows; rows under an indicator; what Gurobi is given as  *)
(* a curve or a product; and the numbers of the next new columns.           *)
(****************************************************************************)
EXTENDS Rationals, Integers, Sequences, SequencesExt, TLC

Row(terms, rel, scalar) == [terms |-> terms, rel |-> rel, scalar |-> scalar]
Value(terms, p) == RatSum([v \in DOMAIN terms |-> terms[v] ** p[v]])
RowHolds(row, p) ==
  LET x == Value(row.terms, p)
  IN  CASE row.rel = "EQ" -> x = row.scalar
        [] row.rel = "LE" -> x \preceq row.scalar
        [] row.rel = "GE" -> row.scalar \preceq x

Interval(lb, ub) == [lb |-> lb, ub |-> ub]
MinusOne == Rat(-1)

----------------------------------------------------------------------------
(* The equations of a constraint                                            *)

\* A new variable with these bounds: 0 = terms - variable - scalar.
WithAux(q, terms, scalar, bounds) ==
  [q EXCEPT !.n = @ + 1, !.box = @ @@ (q.n + 1 :> bounds),
            !.rows = Append(@, Row(terms @@ (q.n + 1 :> MinusOne), "EQ", scalar))]

ReluAux(q, con) ==
  WithAux(q, (con.f :> One) @@ (con.b :> MinusOne), Zero, Interval(Zero, Larger(Zero, Neg(q.box[con.b].lb))))
AbsAux(q, con) ==
  WithAux(WithAux(q, (con.f :> One) @@ (con.b :> MinusOne), Zero, Interval(Zero, Infinity)),
          (con.f :> One) @@ (con.b :> One), Zero, Interval(Zero, Infinity))
LeakyAux(q, con) ==
  WithAux(WithAux(q, (con.f :> One) @@ (con.b :> MinusOne), Zero, Interval(Zero, Infinity)),
          (con.f :> One) @@ (con.b :> Neg(con.slope)), Zero, Interval(Zero, Infinity))
MaxAux(q, con) ==
  FoldLeft(LAMBDA p, e : WithAux(p, (con.f :> One) @@ (e :> MinusOne), Zero, Interval(Zero, Infinity)), q, con.elements)

\* f <= 1 - (2 / lb) b, and f >= (2 / ub) b - 1 if b may be positive; only while the phase
\* is open, by the bounds the preprocessed query has.
SignAux(q, con) ==
  LET lb == q.box[con.b].lb
      ub == q.box[con.b].ub
      upper == WithAux(q, (con.f :> MinusOne) @@ (con.b :> Neg(Rat(2) // lb)), MinusOne,
                       Interval(Zero, Rat(2) -- ((Rat(2) ** ub) // lb)))
  IN  IF con.fixed THEN q
      ELSE IF Zero \prec ub
        THEN WithAux(upper, (con.f :> MinusOne) @@ (con.b :> (Rat(2) // ub)), One,
                     Interval(((Rat(2) ** lb) // ub) -- Rat(2), Zero))
        ELSE upper

RoundAux(q, con) == WithAux(q, (con.f :> One) @@ (con.b :> MinusOne), Zero, Interval(Neg(Half), Half))

----------------------------------------------------------------------------
(* The program                                                              *)

Column(kind) == [lb |-> Zero, ub |-> One, kind |-> kind]
Binary(relax) == IF relax THEN Column("continuous") ELSE Column("binary")
WithRows(m, rows) == [m EXCEPT !.rows = @ \o rows]
WithColumn(m, name, column) == [m EXCEPT !.columns = @ @@ (name :> column)]

\* The binary columns of one constraint, a_k, or a_k_i for each of its cases, and the
\* integer columns i_k: the new columns have numbers below zero.
Name(m) == -100 * (m.bin + 1)
CaseName(m, i) == Name(m) - i
IntegerName(m) == -(m.int + 1)
Numbered(m) == [m EXCEPT !.bin = @ + 1]

\* f - b <= (1 - a)(-lb) and f <= a ub.
EncodeRelu(m, box, con, relax) ==
  LET lb == box[con.b].lb
      ub == box[con.f].ub
  IN  IF ~con.active \/ con.fixed THEN m
        ELSE Numbered(WithRows(WithColumn(m, Name(m), Binary(relax)),
               <<Row((con.f :> One) @@ (con.b :> MinusOne) @@ (Name(m) :> Neg(lb)), "LE", Neg(lb)),
                 Row((con.f :> One) @@ (Name(m) :> Neg(ub)), "LE", Zero)>>))

\* A line where the bounds fix the phase; otherwise the upper side of the triangle, or a
\* curve through the two ends and the origin.
EncodeLeaky(m, box, con, relax) ==
  LET lb == box[con.b].lb
      ub == box[con.b].ub
      lambda == (ub -- (con.slope ** lb)) // (ub -- lb)
      Line(k) == Row((con.f :> One) @@ (con.b :> Neg(k)), "EQ", Zero)
  IN  IF ~con.active \/ con.fixed THEN m
      ELSE IF Zero \preceq lb THEN WithRows(m, <<Line(One)>>)
      ELSE IF ub \preceq Zero THEN WithRows(m, <<Line(con.slope)>>)
      ELSE IF relax
        THEN WithRows(m, <<Row((con.b :> lambda) @@ (con.f :> MinusOne), "GE", (lambda -- One) ** ub)>>)
        ELSE [m EXCEPT !.curves = Append(@, [b |-> con.b, f |-> con.f,
                                             at |-> <<<<lb, con.slope ** lb>>, <<Zero, Zero>>, <<ub, ub>>>>])]

\* One case is chosen: that of an element by its aux, that of the eliminated ones by f.
EncodeMax(m, box, con, relax) ==
  LET cases == [i \in DOMAIN con.elements |-> [var |-> con.aux[i], value |-> Zero]]
                 \o (IF con.eliminated = Neg(Infinity) THEN <<>> ELSE <<[var |-> con.f, value |-> con.eliminated]>>)
      chosen(i) == LET c == cases[i]
                       ub == box[c.var].ub
                   IN  Row((c.var :> One) @@ (CaseName(m, i) :> (ub -- c.value)), "LE", ub)
      columns == FoldLeft(LAMBDA p, i : WithColumn(p, CaseName(m, i), Binary(relax)), m, [i \in DOMAIN cases |-> i])
      names == {CaseName(m, i) : i \in DOMAIN cases}
  IN  IF ~con.active THEN m
        ELSE Numbered(WithRows(columns, <<Row([a \in names |-> One], "EQ", One)>> \o [i \in DOMAIN cases |-> chosen(i)]))

\* f - b <= (1 - a)(ub_f - lb_b) and f + b <= a (ub_f + ub_b).
EncodeAbs(m, box, con, relax) ==
  LET up == box[con.f].ub -- box[con.b].lb
      down == box[con.f].ub ++ box[con.b].ub
  IN  IF ~con.active \/ con.fixed THEN m
        ELSE Numbered(WithRows(WithColumn(m, Name(m), Binary(relax)),
               <<Row((con.f :> One) @@ (con.b :> MinusOne) @@ (Name(m) :> up), "LE", up),
                 Row((con.f :> One) @@ (con.b :> One) @@ (Name(m) :> Neg(down)), "LE", Zero)>>))

\* At least one disjunct, whose bounds <<variable, "LE" or "GE", value>> its binary imposes.
EncodeDisjunction(m, con, relax) ==
  LET names == {CaseName(m, i) : i \in DOMAIN con.disjuncts}
      columns == FoldLeft(LAMBDA p, i : WithColumn(p, CaseName(m, i), Binary(relax)), m, [i \in DOMAIN con.disjuncts |-> i])
      imposed(i) == [k \in DOMAIN con.disjuncts[i] |->
                       LET t == con.disjuncts[i][k] IN [bin |-> CaseName(m, i), on |-> One, row |-> Row(t[1] :> One, t[2], t[3])]]
  IN  IF ~con.active THEN m
        ELSE Numbered([WithRows(columns, <<Row([a \in names |-> One], "GE", One)>>) EXCEPT
                         !.indicators = @ \o FlattenSeq([i \in DOMAIN con.disjuncts |-> imposed(i)])])

\* f = 2a - 1.
EncodeSign(m, con, relax) ==
  IF ~con.active \/ con.fixed THEN m
    ELSE Numbered(WithRows(WithColumn(m, Name(m), Binary(relax)), <<Row((con.f :> One) @@ (Name(m) :> Rat(-2)), "EQ", MinusOne)>>))

\* f lies on one side (rel) of the tangent at x, or of the secant between x and y.
Tangent(con, rel, x) ==
  LET k == SigmoidDerivative(x) IN Row((con.f :> One) @@ (con.b :> Neg(k)), rel, Sigmoid(x) -- (k ** x))
Secant(con, rel, x, y) ==
  LET k == (Sigmoid(y) -- Sigmoid(x)) // (y -- x) IN Row((con.f :> One) @@ (con.b :> Neg(k)), rel, Sigmoid(x) -- (k ** x))

\* Over a range that crosses zero a binary, never relaxed, tells the concave side (1) from
\* the convex one (0); each is held between a tangent at its middle and its secant.
EncodeSigmoid(m, box, con) ==
  LET lb == box[con.b].lb
      ub == box[con.b].ub
      middle == (lb ++ ub) ** Half
      Side(bin, rel, other, x, y) ==
        [k \in 1..4 |-> [bin |-> Name(m), on |-> bin,
                         row |-> <<Tangent(con, rel, (x ++ y) ** Half), Secant(con, other, x, y),
                                   Row(con.b :> One, other, Zero), Row(con.f :> One, other, Sigmoid(Zero))>>[k]]]
  IN  IF lb = ub THEN m
      ELSE IF lb \prec Zero /\ Zero \prec ub
        THEN Numbered([WithColumn(m, Name(m), Binary(FALSE)) EXCEPT
                         !.indicators = @ \o Side(One, "LE", "GE", Zero, ub) \o Side(Zero, "GE", "LE", lb, Zero)])
      ELSE LET rel == IF Zero \preceq lb THEN "LE" ELSE "GE"
               other == IF Zero \preceq lb THEN "GE" ELSE "LE"
           IN  WithRows(m, <<Tangent(con, rel, middle), Secant(con, other, lb, ub)>>)

\* Two sides of the McCormick envelope of f = b c, or the product itself.
EncodeBilinear(m, box, con, relax) ==
  LET lb == box[con.b].lb
      lower == box[con.c].lb
      upper == box[con.c].ub
      Plane(rel, y) == Row((con.f :> One) @@ (con.b :> Neg(y)) @@ (con.c :> Neg(lb)), rel, Neg(lb ** y))
  IN  IF relax THEN WithRows(m, <<Plane("GE", lower), Plane("LE", upper)>>)
               ELSE [m EXCEPT !.products = Append(@, con)]

\* An integer column equal to f; nothing when relaxed.
EncodeRound(m, box, con, relax) ==
  IF relax THEN m
    ELSE [WithRows(WithColumn(m, IntegerName(m), [lb |-> box[con.f].lb, ub |-> box[con.f].ub, kind |-> "integer"]),
                           <<Row((con.f :> One) @@ (IntegerName(m) :> MinusOne), "EQ", Zero)>>) EXCEPT !.int = @ + 1]

EncodeConstraint(m, box, con, relax) ==
  CASE con.type = "relu"        -> EncodeRelu(m, box, con, relax)
    [] con.type = "leaky relu"  -> EncodeLeaky(m, box, con, relax)
    [] con.type = "max"         -> EncodeMax(m, box, con, relax)
    [] con.type = "sign"        -> EncodeSign(m, con, relax)
    [] con.type = "abs"         -> EncodeAbs(m, box, con, relax)
    [] con.type = "disjunction" -> EncodeDisjunction(m, con, relax)
    [] con.type = "sigmoid"     -> EncodeSigmoid(m, box, con)
    [] con.type = "bilinear"    -> EncodeBilinear(m, box, con, relax)
    [] con.type = "round"       -> EncodeRound(m, box, con, relax)

\* The columns with the bounds the tableau has, the equations, and the constraints.
EncodeQuery(q, box, relax) ==
  FoldLeft(LAMBDA m, con : EncodeConstraint(m, box, con, relax),
           [columns |-> [v \in 1..q.n |-> [lb |-> box[v].lb, ub |-> box[v].ub, kind |-> "continuous"]], rows |-> q.rows,
            indicators |-> <<>>, curves |-> <<>>, products |-> <<>>, bin |-> 0, int |-> 0], q.cons)

----------------------------------------------------------------------------
(* The loop that answers UNKNOWN leads to (cegar/IncrementalLinearization): *)
(* the solver's candidate breaks some sigmoid, whose constraint adds a cut  *)
(* that excludes it (SigmoidConstraint::attemptToRefine), and the query is  *)
(* solved again.                                                            *)
(*                                                                          *)
(* The state s of the loop: box, the bounds of the b of each sigmoid; cuts, *)
(* for each the cuts so far; candidate, for each the values [b, f] the      *)
(* engine returned; limit, the number of constraints to refine in a round;  *)
(* timeout, the time left; exit, the engine's answer.                       *)
Cutoff == Rat(20)
Scaling == 2

Crosses(box) == box.lb \prec Zero /\ Zero \prec box.ub
Chord(x, y) == (Sigmoid(x) -- Sigmoid(y)) // (x -- y)
Flattest(box) == Smaller(SigmoidDerivative(box.lb), SigmoidDerivative(box.ub))

\* From (0, the tangent at an end of the box) to (x, Sigmoid(x)).
FromTangent(x, end) == (Sigmoid(end) -- (SigmoidDerivative(end) ** end) -- Sigmoid(x)) // Neg(x)

\* The slopes left and right of x of two lines below the curve that meet it at x.
SlopesBelow(box, x) ==
  LET Pair(left, right) == [left |-> left, right |-> right]
      ToUpper(left) == Pair(left, IF x = box.ub THEN left ELSE Chord(x, box.ub))
  IN  IF Crosses(box)
        THEN IF x \prec Zero THEN Pair(IF x = box.lb THEN Flattest(box) ELSE SigmoidDerivative(x), Flattest(box))
             ELSE IF x = Zero THEN Pair(SigmoidDerivative(x), Chord(x, box.ub))
             ELSE ToUpper(FromTangent(x, box.lb))
        ELSE IF Zero \prec x THEN ToUpper(Chord(x, box.lb))
             ELSE Pair(SigmoidDerivative(x), SigmoidDerivative(x))

SlopesAbove(box, x) ==
  LET Pair(left, right) == [left |-> left, right |-> right]
      ToLower(right) == Pair(IF x = box.lb THEN right ELSE Chord(x, box.lb), right)
  IN  IF Crosses(box)
        THEN IF x \prec Zero THEN ToLower(FromTangent(x, box.ub))
             ELSE IF x = Zero THEN Pair(Chord(x, box.lb), SigmoidDerivative(x))
             ELSE Pair(Flattest(box), IF x = box.ub THEN Flattest(box) ELSE SigmoidDerivative(x))
        ELSE IF Zero \prec x THEN Pair(SigmoidDerivative(x), SigmoidDerivative(x))
             ELSE ToLower(Chord(x, box.ub))

\* A leaky ReLU of b - at, or of at - b when the left line is the steeper one, whose
\* slope is below one, scaled; when the lines are one no ReLU is needed.
CutOfSlopes(rel, at, k) ==
  IF k.right \prec k.left
    THEN [rel |-> rel, at |-> at, mirrored |-> TRUE, scale |-> Neg(k.left), slope |-> k.right // k.left]
    ELSE [rel |-> rel, at |-> at, mirrored |-> FALSE, scale |-> k.right, slope |-> k.left // k.right]

Cut(box, p) ==
  IF Sigmoid(p.b) \prec p.f THEN CutOfSlopes("LE", p.b, SlopesAbove(box, p.b))
                            ELSE CutOfSlopes("GE", p.b, SlopesBelow(box, p.b))

CutHolds(cut, p) ==
  LET aux1 == IF cut.mirrored THEN cut.at -- p.b ELSE p.b -- cut.at
      aux2 == IF aux1 \prec Zero THEN cut.slope ** aux1 ELSE aux1
      bound == Sigmoid(cut.at) ++ (cut.scale ** aux2)
  IN  IF cut.rel = "LE" THEN p.f \preceq bound ELSE bound \preceq p.f

Violated(p) == p.f /= Sigmoid(p.b) /\ AbsRat(p.b) \prec Cutoff

\* refine: the first violated constraints, as many as the limit allows.
Refined(s) ==
  LET broken == {i \in DOMAIN s.box : Violated(s.candidate[i])}
  IN  {i \in broken : Cardinality({k \in broken : k < i}) < s.limit}

WithCuts(s) ==
  [s EXCEPT !.cuts = [i \in DOMAIN @ |-> IF i \in Refined(s) THEN Append(@[i], Cut(s.box[i], s.candidate[i])) ELSE @[i]]]

\* The engine allows a value of a sigmoid: by its encoding and the cuts.
WithinProgram(m, p) ==
  /\ \A k \in DOMAIN m.rows : RowHolds(m.rows[k], <<p.b, p.f>>)
  /\ \E a \in {Zero, One} : \A k \in DOMAIN m.indicators :
       m.indicators[k].on = a => RowHolds(m.indicators[k].row, <<p.b, p.f>>)
Encoded(box, p) ==
  /\ box.lb \preceq p.b /\ p.b \preceq box.ub
  /\ WithinProgram(EncodeSigmoid([columns |-> <<>>, rows |-> <<>>, indicators |-> <<>>, bin |-> 0], <<box>>, [b |-> 1, f |-> 2]), p)
Allowed(s, i, p) == Encoded(s.box[i], p) /\ \A k \in DOMAIN s.cuts[i] : CutHolds(s.cuts[i][k], p)

\* The next engine's answer.  The clock is read twice, for the comparison and for the
\* subtraction, which may leave no time (no timeout then) or less, a huge unsigned number.
Answered(s, exit, candidate, spent, again) ==
  IF exit /= "UNKNOWN" THEN [s EXCEPT !.exit = exit]
  ELSE [s EXCEPT !.exit = exit, !.candidate = candidate,
                 !.timeout = IF spent >= @ THEN 1 ELSE @ - again,
                 !.limit = IF @ * Scaling < Len(s.box) THEN @ * Scaling ELSE Len(s.box)]
==============================================================================
