---------------------------- MODULE Preprocessor ----------------------------
(****************************************************************************)
(* Preprocessor::preprocess and the parts of Query it works on: equations   *)
(* made equalities, auxiliary variables, bounds tightened to a fixpoint,    *)
(* identical variables merged, fixed ones eliminated, the rest renumbered;  *)
(* and the way back from a solution.  Numbers are integers of a fixed unit, *)
(* a quotient is rounded away from the interval it bounds; Inf stands for   *)
(* the infinite bounds.  The network, which follows the same steps, is in   *)
(* Network and NetworkConstruction.                                         *)
(*                                                                          *)
(* A query is [n, eqs, cons, box, inputs, outputs]; an equation [type,      *)
(* addends, scalar], an addend <<coefficient, variable>>; a constraint      *)
(* [kind, state, obsolete] with the fields of its own module, aux variables *)
(* None at first; round is [b, f, whole], whole the units that make one.    *)
(****************************************************************************)
EXTENDS Box, FiniteSets, Sequences, SequencesExt, TLC

Relu == INSTANCE ReluConstraint
Abs == INSTANCE AbsoluteValueConstraint
Sign == INSTANCE SignConstraint
MaxOf == INSTANCE MaxConstraint
Disj == INSTANCE DisjunctionConstraint

Inf == 100000
None == -1
Norm(x) == IF x > Inf \div 2 THEN Inf ELSE IF x < -(Inf \div 2) THEN -Inf ELSE x
IsFinite(x) == -Inf < x /\ x < Inf

\* f[1] + ... + f[n], and the members of a finite set of numbers in their order.
Plus(f, n) == LET sum[i \in 0 .. n] == IF i = 0 THEN 0 ELSE sum[i - 1] + f[i] IN sum[n]
Ascending(S) == [i \in 1 .. Cardinality(S) |-> CHOOSE x \in S : Cardinality({y \in S : y < x}) = i - 1]

Lb(box, v) == box[<<v, "LB">>]
Ub(box, v) == box[<<v, "UB">>]
EqVariables(eq) == {eq.addends[i][2] : i \in DOMAIN eq.addends}
SumAt(eq, p) == Plus([i \in DOMAIN eq.addends |-> eq.addends[i][1] * p[eq.addends[i][2]]], Len(eq.addends))
EqHolds(eq, p) == CASE eq.type = "EQ" -> SumAt(eq, p) = eq.scalar
                    [] eq.type = "GE" -> SumAt(eq, p) >= eq.scalar
                    [] eq.type = "LE" -> SumAt(eq, p) <= eq.scalar

----------------------------------------------------------------------------
(* The constraints, told of the bounds by the preprocessor                  *)

\* getParticipatingVariables, in the order of its list.
Participating(c) ==
  CASE c.kind = "relu" -> IF c.aux = None THEN <<c.b, c.f>> ELSE <<c.b, c.f, c.aux>>
    [] c.kind = "abs" -> IF c.posAux = None THEN <<c.b, c.f>> ELSE <<c.b, c.f, c.posAux, c.negAux>>
    [] c.kind \in {"sign", "round"} -> <<c.b, c.f>>
    [] c.kind = "max" -> Ascending(c.elements) \o Ascending({c.aux[e] : e \in DOMAIN c.aux})
                           \o (IF c.f \in c.elements THEN <<>> ELSE <<c.f>>)
    [] c.kind = "disj" -> Ascending(Disj!Variables(c))
ConVariables(c) == {Participating(c)[i] : i \in DOMAIN Participating(c)}

\* FloatUtils::round: to the nearest whole, halves to the even one.
RoundTo(x, whole) ==
  LET f == x \div whole
      up == 2 * (x - whole * f)
  IN  whole * (IF up > whole \/ (up = whole /\ f % 2 = 1) THEN f + 1 ELSE f)

ConHolds(c, p) ==
  CASE c.kind = "relu" -> Relu!Holds(c, p)
    [] c.kind = "abs" -> Abs!Holds(c, p)
    [] c.kind = "sign" -> Sign!Holds(c, p)
    [] c.kind = "max" -> MaxOf!Holds(c, p)
    [] c.kind = "disj" -> Disj!Holds(c, p)
    [] c.kind = "round" -> p[c.f] = RoundTo(p[c.b], c.whole)

\* eliminateCase: the element goes with its auxiliary variable.
WithoutCases(c, E) ==
  [c EXCEPT !.elements = @ \ E, !.aux = [e \in DOMAIN @ \ E |-> @[e]], !.state.elements = @ \ E]

\* notifyLowerBound and notifyUpperBound for each variable: what a max or a disjunction
\* leaves out of its cases from then on; the others look at the bounds only.
ToldOf(c, s, box, v) == MaxOf!AfterUpper(c, MaxOf!AfterLower(c, s, box, v, Lb(box, v)), v, Ub(box, v))
ToldMax(c, box) ==
  LET after[i \in 0 .. Len(Participating(c))] == IF i = 0 THEN c.state ELSE ToldOf(c, after[i - 1], box, Participating(c)[i])
  IN  after[Len(Participating(c))]
Told(c, box) ==
  CASE c.kind = "max" ->
         LET after == ToldMax(c, box) IN WithoutCases([c EXCEPT !.state = after], c.elements \ after.elements)
    [] c.kind = "disj" -> [c EXCEPT !.state = Disj!Notified(c, @, box)]
    [] OTHER -> c
Throws(c, box) == c.kind = "disj" /\ Disj!Throws(c, c.state, box)

\* getEntailedTightenings; a round constraint reports the bounds it has.
Entailed(c, box) ==
  LET T == CASE c.kind = "relu" -> Relu!Entailed(c, <<>>, box)
             [] c.kind = "abs" -> Abs!Entailed(c, <<>>, box)
             [] c.kind = "sign" -> Sign!Entailed(c, <<>>, box)
             [] c.kind = "max" -> MaxOf!Entailed(c, c.state, box)
             [] c.kind = "disj" -> Disj!Entailed(c, c.state, box)
             [] c.kind = "round" -> {}
  IN  {[t EXCEPT !.value = Norm(@)] : t \in T}

----------------------------------------------------------------------------
(* Building and transforming a query                                        *)

AddEquation(q, addends, scalar) ==
  [q EXCEPT !.eqs = Append(@, [type |-> "EQ", addends |-> addends, scalar |-> scalar])]
WithBounds(box, v, l, u) ==
  [k \in DOMAIN box \cup {<<v, "LB">>, <<v, "UB">>} |-> IF k = <<v, "LB">> THEN l ELSE IF k = <<v, "UB">> THEN u ELSE box[k]]
NewVariable(q, l, u) == [q EXCEPT !.n = @ + 1, !.box = WithBounds(@, q.n, l, u)]

\* Query::addClipConstraint: f = ceiling - relu(ceiling - (relu(b - floor) + floor)), with
\* the new variables k to k + 3.
ClipEquations(k, b, f, floor, ceiling) ==
  <<<<<<<<1, b>>, <<-1, k>>>>, floor>>, <<<<<<-1, k + 1>>, <<-1, k + 2>>>>, floor - ceiling>>, <<<<<<-1, k + 3>>, <<-1, f>>>>, -ceiling>>>>
AddClipConstraint(q, b, f, floor, ceiling) ==
  LET relu(x, y) == [kind |-> "relu", b |-> x, f |-> y, aux |-> None, state |-> <<>>, obsolete |-> FALSE]
      sized == FoldLeft(LAMBDA r, i : NewVariable(r, -Inf, Inf), q, <<1, 2, 3, 4>>)
      full == FoldLeft(LAMBDA r, e : AddEquation(r, e[1], e[2]), sized, ClipEquations(q.n, b, f, floor, ceiling))
  IN  [full EXCEPT !.cons = @ \o <<relu(q.n, q.n + 1), relu(q.n + 2, q.n + 3)>>]

\* makeAllEquationsEqualities: sum + aux = scalar with aux <= 0 for GE, aux >= 0 for LE.
AsEquality(q, i) ==
  LET eq == q.eqs[i]
      aux == IF eq.type = "GE" THEN NewVariable(q, -Inf, 0) ELSE NewVariable(q, 0, Inf)
  IN  IF eq.type = "EQ" THEN q
      ELSE [aux EXCEPT !.eqs[i] = [eq EXCEPT !.type = "EQ", !.addends = Append(@, <<1, q.n>>)]]
MakeAllEquationsEqualities(q) ==
  LET after[i \in 0 .. Len(q.eqs)] == IF i = 0 THEN q ELSE AsEquality(after[i - 1], i)
  IN  after[Len(q.eqs)]

\* removeRedundantAddends: one addend for each variable, in their order, and none of 0.
Consolidated(eq) ==
  LET of(v) == Plus([i \in DOMAIN eq.addends |-> IF eq.addends[i][2] = v THEN eq.addends[i][1] ELSE 0], Len(eq.addends))
      left == Ascending({v \in EqVariables(eq) : of(v) /= 0})
  IN  [eq EXCEPT !.addends = [k \in DOMAIN left |-> <<of(left[k]), left[k]>>]]
RemoveRedundantAddends(q) == [q EXCEPT !.eqs = [i \in DOMAIN @ |-> Consolidated(@[i])]]

\* transformToUseAuxVariables of constraint i: the equations that define its auxiliary
\* variables, which are new.
WithReluAux(q, i) ==
  LET c == q.cons[i]
      r == NewVariable(q, 0, IF Lb(q.box, c.b) > 0 THEN 0 ELSE -Lb(q.box, c.b))
  IN  [AddEquation(r, <<<<1, c.f>>, <<-1, c.b>>, <<-1, q.n>>>>, 0) EXCEPT !.cons[i].aux = q.n]
WithAbsAux(q, i) ==
  LET c == q.cons[i]
      r == NewVariable(NewVariable(q, 0, Norm(Ub(q.box, c.f) - Lb(q.box, c.b))), 0, Norm(Ub(q.box, c.f) + Ub(q.box, c.b)))
      pos == AddEquation(r, <<<<1, c.f>>, <<-1, c.b>>, <<-1, q.n>>>>, 0)
  IN  [AddEquation(pos, <<<<1, c.f>>, <<1, c.b>>, <<-1, q.n + 1>>>>, 0)
         EXCEPT !.cons[i].posAux = q.n, !.cons[i].negAux = q.n + 1]
WithElementAux(q, i, e) ==
  [AddEquation(NewVariable(q, 0, Inf), <<<<1, q.cons[i].f>>, <<-1, e>>, <<-1, q.n>>>>, 0)
     EXCEPT !.cons[i].aux = [d \in DOMAIN @ \cup {e} |-> IF d = e THEN q.n ELSE @[d]]]
WithMaxAux(q, i) ==
  LET c == q.cons[i]
      others == Ascending(c.elements \ {c.f})
      after[k \in 0 .. Len(others)] == IF k = 0 THEN q ELSE WithElementAux(after[k - 1], i, others[k])
      all == after[Len(others)]
  IN  IF c.f \in c.elements
        THEN [all EXCEPT !.cons[i] = [WithoutCases(@, c.elements \ {c.f}) EXCEPT !.obsolete = TRUE]]
        ELSE all
WithAux(q, i) ==
  CASE q.cons[i].kind = "relu" -> WithReluAux(q, i)
    [] q.cons[i].kind = "abs" -> WithAbsAux(q, i)
    [] q.cons[i].kind = "max" -> WithMaxAux(q, i)
    [] OTHER -> q
TransformConstraintsIfNeeded(q) ==
  LET after[i \in 0 .. Len(q.cons)] == IF i = 0 THEN q ELSE WithAux(after[i - 1], i)
  IN  after[Len(q.cons)]

Uneliminable(q) ==
  {q.inputs[i] : i \in DOMAIN q.inputs} \cup {q.outputs[i] : i \in DOMAIN q.outputs}
    \cup UNION {ConVariables(q.cons[i]) : i \in {j \in DOMAIN q.cons : q.cons[j].kind = "disj"}}

----------------------------------------------------------------------------
(* One round of tightening.  A round works on r = [query, tighter, throws,  *)
(* merged], merged mapping a variable to the one it was merged into.        *)

\* The end of an addend's interval that counts in the sum's lower ("LB") or upper bound.
Opposite(side) == IF side = "LB" THEN "UB" ELSE "LB"
End(a, side) == <<a[2], IF a[1] > 0 THEN side ELSE Opposite(side)>>
Floor(n, d) == IF d > 0 THEN n \div d ELSE (-n) \div (-d)
Ceiling(n, d) == -Floor(-n, d)

\* What the other addends, at those ends, leave for addend i; known if the ends are finite.
Known(eq, box, i, side) ==
  \A j \in DOMAIN eq.addends \ {i} : eq.addends[j][1] = 0 \/ IsFinite(box[End(eq.addends[j], side)])
Rest(eq, box, i, side) ==
  eq.scalar - Plus([j \in DOMAIN eq.addends |-> IF j = i THEN 0 ELSE eq.addends[j][1] * box[End(eq.addends[j], side)]],
                   Len(eq.addends))

\* The bounds an equation entails for an addend's variable.
Implied(eq, box, i) ==
  LET a == eq.addends[i]
      side == IF a[1] > 0 THEN "LB" ELSE "UB"
  IN  IF a[1] = 0 THEN {}
      ELSE {Least(a[2], Floor(Rest(eq, box, i, t), a[1])) : t \in {u \in {Opposite(side)} : Known(eq, box, i, u)}}
             \cup {Most(a[2], Ceiling(Rest(eq, box, i, t), a[1])) : t \in {u \in {side} : Known(eq, box, i, u)}}

Crossed(box, V) == \E v \in V : Lb(box, v) > Ub(box, v)
Fixed(box, V) == \A v \in V : Lb(box, v) = Ub(box, v)

\* processEquations: tighten with each equation in turn; one whose variables are all
\* fixed goes, if it holds.
ProcessEquation(r, eq) ==
  LET T == UNION {Implied(eq, r.query.box, i) : i \in DOMAIN eq.addends}
      box == Tightened(r.query.box, T)
      V == EqVariables(eq)
      done == Fixed(box, V)
      at == [v \in V |-> Lb(box, v)]
  IN  IF r.throws THEN r
      ELSE [r EXCEPT !.query.box = box, !.tighter = @ \/ box /= r.query.box,
                     !.throws = Crossed(box, V) \/ (done /\ SumAt(eq, at) /= eq.scalar),
                     !.query.eqs = IF done THEN @ ELSE Append(@, eq)]
ProcessEquations(r) ==
  LET after[i \in 0 .. Len(r.query.eqs)] ==
        IF i = 0 THEN [r EXCEPT !.query.eqs = <<>>] ELSE ProcessEquation(after[i - 1], r.query.eqs[i])
  IN  after[Len(r.query.eqs)]

\* processConstraints: tell each constraint all its bounds, take what it entails.
ProcessConstraint(r, i) ==
  LET told == Told(r.query.cons[i], r.query.box)
      T == Entailed(told, r.query.box)
      box == Tightened(r.query.box, T)
  IN  IF r.throws THEN r
      ELSE IF Throws(told, r.query.box) THEN [r EXCEPT !.throws = TRUE]
      ELSE [r EXCEPT !.query.cons[i] = told, !.query.box = box, !.tighter = @ \/ box /= r.query.box,
                     !.throws = Crossed(box, {t.key[1] : t \in T})]
ProcessConstraints(r) ==
  LET after[i \in 0 .. Len(r.query.cons)] == IF i = 0 THEN r ELSE ProcessConstraint(after[i - 1], i)
  IN  after[Len(r.query.cons)]

Without(seq, j) == [k \in 1 .. Len(seq) - 1 |-> seq[IF k < j THEN k ELSE k + 1]]
\* Equation::updateVariableIndex: two addends of the new variable become one.
Substitute(eq, v, w) ==
  LET at == {i \in DOMAIN eq.addends : eq.addends[i][2] = v}
      i == CHOOSE j \in at : \A k \in at : j <= k
      twins == {j \in DOMAIN eq.addends \ {i} : eq.addends[j][2] = w}
      j == CHOOSE k \in twins : TRUE
      merged(c) == [k \in DOMAIN eq.addends |-> IF k = i THEN <<eq.addends[i][1] + c, w>> ELSE eq.addends[k]]
  IN  IF at = {} THEN eq
      ELSE IF twins = {} THEN [eq EXCEPT !.addends = merged(0)]
      ELSE [eq EXCEPT !.addends = Without(merged(eq.addends[j][1]), j)]

\* updateVariableIndex of the constraints: the fields are tried in this order.  Elements of a max
\* that become one keep one of their auxiliary variables, which are equal.
UpdatePair(c, v, w) ==
  IF v = c.b THEN [c EXCEPT !.b = w] ELSE IF v = c.f THEN [c EXCEPT !.f = w]
  ELSE IF c.kind = "relu" THEN [c EXCEPT !.aux = w]
  ELSE IF c.kind = "abs" THEN (IF v = c.posAux THEN [c EXCEPT !.posAux = w] ELSE [c EXCEPT !.negAux = w])
  ELSE c
UpdateMax(c, v, w) ==
  LET renamed(S) == (S \ {v}) \cup {w}
  IN  IF v = c.f THEN [c EXCEPT !.f = w]
      ELSE IF v \in c.elements
        THEN [c EXCEPT !.elements = renamed(@), !.state.elements = renamed(@),
                       !.aux = [e \in renamed(DOMAIN @) |-> @[IF e = w THEN v ELSE e]]]
      ELSE [c EXCEPT !.aux = [e \in DOMAIN @ |-> IF @[e] = v THEN w ELSE @[e]]]
UpdateDisjunction(c, v, w) ==
  LET renamed(D) == {{[t EXCEPT !.key[1] = IF @ = v THEN w ELSE @] : t \in d} : d \in D}
  IN  [c EXCEPT !.disjuncts = renamed(@), !.state.feasible = renamed(@)]
UpdateVariableIndex(c, v, w) ==
  CASE c.kind = "max" -> UpdateMax(c, v, w)
    [] c.kind = "disj" -> UpdateDisjunction(c, v, w)
    [] OTHER -> UpdatePair(c, v, w)

\* Query::mergeIdenticalVariables.
MergeIdenticalVariables(q, v, w) ==
  [q EXCEPT !.eqs = [j \in DOMAIN @ |-> Substitute(@[j], v, w)],
            !.cons = [j \in DOMAIN @ |-> IF v \in ConVariables(@[j]) THEN UpdateVariableIndex(@[j], v, w) ELSE @[j]]]

\* processIdenticalVariables: x - y = 0 merges x into y, in everything that comes after too.
ProcessIdentical(r, i) ==
  LET eq == r.query.eqs[i]
      v == eq.addends[1][2]
      w == eq.addends[2][2]
      cut == Tightened(r.query.box, {Least(w, Lb(r.query.box, v)), Most(w, Ub(r.query.box, v))})
      applies == /\ Len(eq.addends) = 2 /\ eq.addends[1][1] = -eq.addends[2][1] /\ eq.scalar = 0
                 /\ {v, w} \cap Uneliminable(r.query) = {}
  IN  IF ~applies THEN r
      ELSE [r EXCEPT !.query = MergeIdenticalVariables([@ EXCEPT !.box = cut], v, w),
                     !.tighter = TRUE, !.gone = @ \cup {i},
                     !.merged = [u \in DOMAIN @ \cup {v} |-> IF u = v THEN w ELSE @[u]]]
WithoutGone(r) ==
  LET left == Ascending(DOMAIN r.query.eqs \ r.gone)
  IN  [r EXCEPT !.query.eqs = [k \in DOMAIN left |-> r.query.eqs[left[k]]], !.gone = {}]
ProcessIdenticalVariables(r) ==
  LET after[i \in 0 .. Len(r.query.eqs)] == IF i = 0 THEN r ELSE ProcessIdentical(after[i - 1], i)
  IN  WithoutGone(after[Len(r.query.eqs)])

\* The rounds, until one changes nothing or PREPROCESSSING_MAX_TIGHTEING_ROUND of them.
TightenedOnce(r) == ProcessConstraints(ProcessEquations([r EXCEPT !.tighter = FALSE]))
MergedIf(attempt, r) == IF attempt /\ ~r.throws THEN ProcessIdenticalVariables(r) ELSE r
Round(r, attempt) == IF r.throws \/ ~r.tighter THEN r ELSE MergedIf(attempt, TightenedOnce(r))
Saturated(r, attempt, rounds) ==
  LET after[k \in 0 .. rounds] == IF k = 0 THEN r ELSE Round(after[k - 1], attempt)
  IN  after[rounds]

----------------------------------------------------------------------------
(* Elimination                                                              *)

\* collectFixedValues: a variable with one value left, or one that nothing reads and nothing
\* was merged from, at its lower bound, else its upper one, else 0.
Used(r) == UNION {EqVariables(r.query.eqs[i]) : i \in DOMAIN r.query.eqs}
             \cup UNION {ConVariables(r.query.cons[i]) : i \in DOMAIN r.query.cons} \cup DOMAIN r.merged
AnyValue(box, v) == IF IsFinite(Lb(box, v)) THEN Lb(box, v) ELSE IF IsFinite(Ub(box, v)) THEN Ub(box, v) ELSE 0
CollectFixedValues(r) ==
  LET box == r.query.box
      unused == {v \in 0 .. r.query.n - 1 : Lb(box, v) /= Ub(box, v) /\ v \notin Used(r)}
  IN  [v \in unused |-> AnyValue(box, v)] @@ [v \in {w \in 0 .. r.query.n - 1 : Lb(box, w) = Ub(box, w)} |-> Lb(box, v)]

\* Where the chain of merges from v ends.
MergeStep(v, merged) == IF v \in DOMAIN merged THEN merged[v] ELSE v
MergeTarget(v, merged) ==
  LET after[k \in 0 .. Cardinality(DOMAIN merged)] == IF k = 0 THEN v ELSE MergeStep(after[k - 1], merged)
  IN  after[Cardinality(DOMAIN merged)]

\* separateMergedAndFixed: what was merged into a variable that is fixed is fixed as well.
NoLongerMerged(merged, fixed) == {v \in DOMAIN merged : MergeTarget(v, merged) \in DOMAIN fixed}

\* eliminateVariable: a relu, absolute value, sign or round constraint is discarded, and so
\* is a max that loses f, an attained element (aux = 0) or its last element.
EliminateFromMax(c, v, value) ==
  IF v = c.f THEN [c EXCEPT !.obsolete = TRUE]
  ELSE LET e == IF v \in c.elements THEN v ELSE CHOOSE d \in DOMAIN c.aux : c.aux[d] = v
           raised == IF v \in c.elements
                       THEN [c EXCEPT !.state.maxLowerBound = IF value > @ THEN value ELSE @,
                                      !.maxValueOfEliminated = IF value > @ THEN value ELSE @]
                       ELSE c
           left == IF v \notin c.elements /\ value = 0 THEN c ELSE WithoutCases(raised, {e})
       IN  [left EXCEPT !.obsolete = @ \/ left.elements = {} \/ (v \notin c.elements /\ value = 0),
                        !.state.haveEliminated =
                           IF v \in c.elements THEN left.maxValueOfEliminated >= left.state.maxLowerBound ELSE @]
EliminateVariable(c, v, value) ==
  IF c.kind = "max" THEN (IF v \in ConVariables(c) THEN EliminateFromMax(c, v, value) ELSE c)
                    ELSE [c EXCEPT !.obsolete = TRUE]
EliminateFrom(c, fixed, keep) ==
  FoldLeft(LAMBDA d, v : IF v \in DOMAIN fixed \ keep THEN EliminateVariable(d, v, fixed[v]) ELSE d, c, Participating(c))

\* The new indices: those of the eliminated variables are closed up.
NewIndices(n, eliminated) ==
  [v \in 0 .. n - 1 \ eliminated |-> v - Cardinality({w \in eliminated : w < v})]

\* Every fixed variable leaves the equations, eliminable or not.
SubstituteFixed(eq, fixed, new) ==
  LET left == SelectSeq(eq.addends, LAMBDA a : a[2] \notin DOMAIN fixed)
      gone == SelectSeq(eq.addends, LAMBDA a : a[2] \in DOMAIN fixed)
  IN  [eq EXCEPT !.addends = [i \in DOMAIN left |-> <<left[i][1], new[left[i][2]]>>],
                 !.scalar = @ - Plus([i \in DOMAIN gone |-> gone[i][1] * fixed[gone[i][2]]], Len(gone))]

\* The variables of a constraint are renumbered one after the other; a new index may be
\* the old one of a variable whose turn is still to come.
Renumbered(c, new) ==
  FoldLeft(LAMBDA d, v : IF new[v] = v THEN d ELSE UpdateVariableIndex(d, v, new[v]), c, Participating(c))
Collides(c, new) ==
  \E i, j \in DOMAIN Participating(c) : i < j /\ new[Participating(c)[i]] = Participating(c)[j]

\* Query::adjustInputOutputMapping: the inputs and outputs are never eliminated.
AdjustInputOutputMapping(q, new) ==
  [q EXCEPT !.inputs = [i \in DOMAIN @ |-> new[@[i]]], !.outputs = [i \in DOMAIN @ |-> new[@[i]]]]

EliminateVariables(q, fixed, merged) ==
  LET keep == Uneliminable(q)
      new == NewIndices(q.n, (DOMAIN fixed \cup DOMAIN merged) \ keep)
      eqs == [i \in DOMAIN q.eqs |-> SubstituteFixed(q.eqs[i], fixed, new)]
      cons == [i \in DOMAIN q.cons |-> EliminateFrom(q.cons[i], fixed, keep)]
      kept == SelectSeq(cons, LAMBDA c : ~c.obsolete)
  IN  [throws |-> \E i \in DOMAIN eqs : eqs[i].addends = <<>> /\ eqs[i].scalar /= 0,
       new |-> new, collides |-> \E i \in DOMAIN kept : Collides(kept[i], new),
       query |-> [AdjustInputOutputMapping(q, new) EXCEPT !.n = Cardinality(DOMAIN new),
                  !.eqs = SelectSeq(eqs, LAMBDA e : e.addends /= <<>>),
                  !.cons = [i \in DOMAIN kept |-> Renumbered(kept[i], new)],
                  !.box = [k \in (0 .. Cardinality(DOMAIN new) - 1) \X {"LB", "UB"} |->
                             q.box[<<CHOOSE v \in DOMAIN new : new[v] = k[1], k[2]>>]]]]

\* Nothing fixed or merged: only the obsolete constraints go, the indices stay.
DropObsolete(q) ==
  [throws |-> FALSE, new |-> [v \in 0 .. q.n - 1 |-> v], collides |-> FALSE,
   query |-> [q EXCEPT !.cons = SelectSeq(@, LAMBDA c : ~c.obsolete)]]

\* preprocess, for a query without missing bounds.  unused are the variables whose value
\* was chosen; the variables from the query's n on are auxiliary.
AfterElimination(q, attempt, fixed, merged) ==
  IF ~attempt THEN [throws |-> FALSE, query |-> q, new |-> [v \in 0 .. q.n - 1 |-> v], collides |-> FALSE]
  ELSE IF DOMAIN fixed \cup DOMAIN merged = {} THEN DropObsolete(q)
  ELSE EliminateVariables(q, fixed, merged)
\* separateMergedAndFixed, setFixedVariablesInQuery and eliminateVariables.
Eliminated(whole, r, attempt, collected) ==
  LET separated == NoLongerMerged(r.merged, collected)
      fixed == [v \in separated |-> collected[MergeTarget(v, r.merged)]] @@ collected
      merged == [v \in DOMAIN r.merged \ separated |-> r.merged[v]]
      box == [k \in DOMAIN r.query.box |-> IF k[1] \in DOMAIN collected THEN collected[k[1]] ELSE r.query.box[k]]
      Outcome(after) == [infeasible |-> after.throws, whole |-> whole, query |-> after.query, new |-> after.new, collides |-> after.collides,
                         fixed |-> fixed, merged |-> merged, tightened |-> r.query,
                         unused |-> {v \in DOMAIN fixed : Lb(r.query.box, v) /= Ub(r.query.box, v)}]
  IN  Outcome(AfterElimination([r.query EXCEPT !.box = box], attempt, fixed, merged))
EliminatedFrom(whole, r, attempt) ==
  IF r.throws THEN [infeasible |-> TRUE, whole |-> whole] ELSE Eliminated(whole, r, attempt, CollectFixedValues(r))
PreprocessWhole(whole, attempt, rounds) ==
  EliminatedFrom(whole, Saturated([query |-> whole, tighter |-> TRUE, throws |-> FALSE, merged |-> <<>>, gone |-> {}], attempt, rounds), attempt)
Preprocess(q, attempt, rounds) == 
  PreprocessWhole(TransformConstraintsIfNeeded(RemoveRedundantAddends(MakeAllEquationsEqualities(q))), attempt, rounds)

\* Mutant: a merged variable is looked up under its own old index.
ExtractSolutionUnmerged(pp, p, v) ==
  LET w == IF v \in DOMAIN pp.new THEN pp.new[v] ELSE v
  IN  IF v \in DOMAIN pp.fixed THEN pp.fixed[v] ELSE IF w \in DOMAIN p THEN p[w] ELSE 0

\* Engine::extractSolution: the value of variable v of the original query.
ExtractSolution(pp, p, v) ==
  LET w == MergeTarget(v, pp.merged)
  IN  IF w \in DOMAIN pp.fixed THEN pp.fixed[w] ELSE p[pp.new[w]]

\* setSolutionValuesOfEliminatedNeurons: the removed variables' expressions are evaluated
\* in passes, in the order of the variables, until a pass evaluates none; then all must be.
EvaluatePass(at, p) ==
  FoldLeft(LAMBDA a, v : IF {at[v].addends[i][2] : i \in DOMAIN at[v].addends} \subseteq DOMAIN a
                           THEN (v :> at[v].constant + SumAt(at[v], a)) @@ a ELSE a,
           p, Ascending(DOMAIN at \ DOMAIN p))
SetSolutionValues(expressions, p) ==
  LET after[k \in 0 .. Cardinality(DOMAIN expressions)] == IF k = 0 THEN p ELSE EvaluatePass(expressions, after[k - 1])
  IN  after[Cardinality(DOMAIN expressions)]
=============================================================================
