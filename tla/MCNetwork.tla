------------------------------ MODULE MCNetwork ------------------------------
(****************************************************************************)
(* Small networks, input boxes and sample points, and what the passes over  *)
(* a network return for them: the bounds of the three propagations, the     *)
(* linear relaxation, the merged network and the generated query.           *)
(****************************************************************************)
LOCAL INSTANCE SymbolicBounds
LOCAL INSTANCE Network
LOCAL DP == INSTANCE DeepPoly
LOCAL LP == INSTANCE LPRelaxation
LOCAL INSTANCE NetworkConstruction
LOCAL MILP == INSTANCE MilpEncoder

\* The one variable of the runs over algorithms: a group of inputs, then one
\* input with what the algorithms under test return for it.
VARIABLE job

LOCAL None == [size |-> 1, weight |-> <<>>, bias |-> <<>>, inputs |-> <<>>, alpha |-> Zero, gone |-> <<>>, var |-> <<>>]
LOCAL InputLayer == [type |-> "input", size |-> 2] @@ None
\* rows: for each source layer the rows of integer weights, one row per source neuron.
LOCAL SumLayer(rows, bias) ==
  [type |-> "weighted sum", size |-> Len(bias), bias |-> [j \in DOMAIN bias |-> Rat(bias[j])],
   weight |-> [l \in DOMAIN rows |-> [i \in DOMAIN rows[l] |-> [j \in DOMAIN bias |-> Rat(rows[l][i][j])]]]] @@ None
LOCAL ActLayer(type, inputs) ==
  [type |-> type, size |-> Len(inputs), inputs |-> inputs, alpha |-> Half] @@ None

LOCAL OneInput == {"relu", "leaky relu", "abs", "sign", "round", "sigmoid"}
LOCAL Types == OneInput \cup {"max", "bilinear"}

LOCAL Straight(l) == <<<<<<l, 1>>>>, <<<<l, 2>>>>>>
LOCAL Crossed(l) == <<<<<<l, 2>>>>, <<<<l, 1>>>>>>
LOCAL Both(l) == <<<<<<l, 1>>, <<l, 2>>>>>>

LOCAL Matrices == {<<<<1, 1>>, <<1, -1>>>>, <<<<2, -1>>, <<0, 1>>>>, <<<<1, -1>>, <<-1, 1>>>>}
LOCAL Biases == {<<0, 0>>, <<1, -1>>}

LOCAL Act(type, l, inputs) == IF type \in OneInput THEN ActLayer(type, inputs) ELSE ActLayer(type, Both(l))
LOCAL Column(n) == IF n = 2 THEN <<<<1>>, <<-2>>>> ELSE <<<<2>>>>

\* input, weighted sum, activation, weighted sum.
LOCAL Plain(type, m, b, inputs) ==
  LET act == Act(type, 2, inputs)
  IN  <<InputLayer, SumLayer(1 :> m, b), act, SumLayer(3 :> Column(act.size), <<1>>)>>

\* The last sum also reads the input and the first sum.
LOCAL Residual(type, m, b, inputs) ==
  LET act == Act(type, 2, inputs)
  IN  <<InputLayer, SumLayer(1 :> m, b), act,
        SumLayer((1 :> <<<<1>>, <<1>>>>) @@ (2 :> <<<<-1>>, <<1>>>>) @@ (3 :> Column(act.size)), <<0>>)>>

\* Two activation layers; the second sum reads two layers.
LOCAL Deep(type, other, m, b) ==
  <<InputLayer, SumLayer(1 :> m, b), Act(type, 2, Straight(2)),
    SumLayer((2 :> <<<<1, 0>>, <<0, -1>>>>) @@ (3 :> IF type \in OneInput THEN <<<<1, 1>>, <<-1, 1>>>> ELSE <<<<1, -1>>>>), <<0, 1>>),
    Act(other, 4, Straight(4)),
    SumLayer(5 :> Column(IF other \in OneInput THEN 2 ELSE 1), <<0>>)>>

\* Two sums in a row, and a third that reads the second and, when skip is set, the input.
LOCAL Sums(type, m, b, skip) ==
  <<InputLayer, SumLayer(1 :> m, b),
    SumLayer(IF skip THEN (1 :> <<<<1, 0>>, <<0, 1>>>>) @@ (2 :> <<<<1, 0>>, <<2, -1>>>>)
                     ELSE (2 :> <<<<1, 0>>, <<2, -1>>>>), <<1, 0>>),
    SumLayer(3 :> <<<<1, 1>>, <<-1, 0>>>>, <<2, 0>>),
    Act(type, 4, Straight(4)),
    SumLayer(5 :> Column(IF type \in OneInput THEN 2 ELSE 1), <<0>>)>>

LOCAL Interval(l, u) == [lb |-> Rat(l), ub |-> Rat(u)]
LOCAL Boxes == {<<Interval(-1, 1), Interval(-1, 1)>>, <<Interval(0, 2), Interval(-1, 0)>>, <<Interval(1, 2), Interval(-2, 1)>>}
LOCAL Wide == [lb |-> Rat(-40), ub |-> Rat(40)]
\* The bounds the search has left on the first activation neuron.
LOCAL Narrow == {Wide, [lb |-> Zero, ub |-> One], [lb |-> Rat(-2), ub |-> Zero], [lb |-> One, ub |-> Rat(3)]}

LOCAL StartBounds(net, box, narrow) ==
  [l \in DOMAIN net |-> [j \in Neurons(net[l]) |->
     IF l = 1 THEN box[j] ELSE IF net[l].type \in Types /\ j = 1 /\ l <= 3 THEN narrow ELSE Wide]]

LOCAL Grid(b) == {b.lb, b.ub, (b.lb ++ b.ub) ** Half, ((b.lb ** Rat(3)) ++ b.ub) ** <<1, 4>>}
LOCAL Points(box) == {<<x, y>> : x \in Grid(box[1]), y \in Grid(box[2])}
LOCAL Values(net, box) == {[x |-> x, v |-> Evaluate(net, x)] : x \in Points(box)}

\* The second input neuron eliminated, at a value of its interval.
LOCAL Pinned(net, v) == [net EXCEPT ![1].gone = 2 :> v]
LOCAL PinnedBox(box, v) == [box EXCEPT ![2] = [lb |-> v, ub |-> v]]

\* A sigmoid's bounds are those the preprocessor leaves; the rest is left to the passes.
LOCAL HasSigmoid(net) == \E l \in DOMAIN net : net[l].type = "sigmoid"

LOCAL Bounded(net, box, narrow) ==
  LET wide == StartBounds(net, box, narrow)
      start == IF HasSigmoid(net) THEN IntervalArithmeticPropagation(net, wide) ELSE wide
  IN  [kind |-> "network", net |-> net, start |-> start,
       runs |-> {r \in Values(net, box) : Within(start, r.v)},
       ia |-> IntervalArithmeticPropagation(net, start),
       sy |-> SymbolicBoundPropagation(net, start),
       dp |-> DP!DeepPolyPropagation(net, start),
       lp |-> LP!CreateLPRelaxation(net, start, Len(net)),
       after |-> LP!CreateLPRelaxationAfter(net, start, 3)]

\* before: the network whose sums are merged; its variables of the second layer may have bounds.
LOCAL Merged(net, box, bounded) ==
  LET before == ReindexNeurons(net)
      after  == MergeConsecutiveWSLayers(before, bounded, {})
  IN  [kind |-> "merging", net |-> before, merged |-> after.net, removed |-> after.removed,
       runs |-> {[x |-> r.x, v |-> r.v, merged |-> Evaluate(after.net, r.x),
                  simulated |-> Simulate(after.net, r.x)] : r \in Values(before, box)}]

\* The query of a network, and the network after preprocessing eliminated variable 1 and
\* merged variable 2 into 0 or nothing; the variables are numbered from the last one down.
LOCAL Queried(net, box) ==
  LET numbered == ReindexNeurons(net)
      start == StartBounds(net, box, Wide)
      query == GenerateQuery(numbered, start)
      total == Cardinality(query.variables)
      kept  == query.variables \ {1}
      renumbered == UpdateVariableIndices(EliminateVariable(numbered, 1, box[2].lb),
                                          [v \in kept |-> total - 1 - v], <<>>)
  IN  [kind |-> "query", net |-> numbered, query |-> query, total |-> total, renumbered |-> renumbered,
       low |-> box[2].lb, runs |-> Values(numbered, box)]

----------------------------------------------------------------------------
NetworkStarts ==
  {[kind |-> "networks", type |-> t, matrix |-> m] : t \in Types, m \in Matrices}

LOCAL Others(type) == IF type = "sigmoid" THEN {} ELSE IF type = "abs" THEN Types ELSE Types \ {"sigmoid"}
LOCAL Nets(type, matrix, b, box) ==
  {[net |-> Plain(type, matrix, b, inputs), box |-> box, narrow |-> narrow] : inputs \in {Straight(2), Crossed(2)}, narrow \in Narrow}
  \cup {[net |-> Residual(type, matrix, b, Crossed(2)), box |-> box, narrow |-> narrow] : narrow \in Narrow}
  \cup {[net |-> Deep(type, other, matrix, b), box |-> box, narrow |-> narrow] : other \in (IF b = <<0, 0>> THEN Others(type) ELSE {}), narrow \in {Wide, [lb |-> Zero, ub |-> One]}}
  \cup {[net |-> Pinned(Residual(type, matrix, b, Straight(2)), v), box |-> PinnedBox(box, v), narrow |-> Wide] : v \in {box[2].lb, box[2].ub}}

NetworkJob ==
  /\ job.kind = "networks"
  /\ \E b \in Biases, box \in Boxes :
       \/ \E n \in Nets(job.type, job.matrix, b, box) : job' = Bounded(n.net, n.box, n.narrow)
       \/ \E skip, bounded \in BOOLEAN :
            job' = Merged(Sums(job.type, job.matrix, b, skip), box, IF bounded THEN {3} ELSE {})
       \/ /\ job.type \in Generatable
          /\ job' = Queried(Residual(job.type, job.matrix, b, Straight(2)), box)

----------------------------------------------------------------------------
LOCAL IsNetwork == job.kind = "network"

\* The neurons whose bounds a pass gets wrong, by the defects the README names.
LOCAL NegativeSource(type, bounds) ==
  \E n \in NeuronsOf(job.net) :
    /\ job.net[n[1]].type = type
    /\ LET x == job.net[n[1]].inputs[n[2]][1] IN bounds[x[1]][x[2]].ub \prec Zero

\* A sigmoid whose chord is drawn with bounds wider than those of its input allow.
LOCAL StaleChord ==
  \E n \in NeuronsOf(job.net) :
    /\ job.net[n[1]].type = "sigmoid"
    /\ LET x == job.net[n[1]].inputs[n[2]][1]
           in == job.sy.bounds[x[1]][x[2]]
           own == job.start[n[1]][n[2]]
       IN  (Sigmoid(in.ub) -- Sigmoid(in.lb)) \prec (own.ub -- own.lb)

\* Every run of the network whose neurons lie within the bounds a pass of interval
\* arithmetic starts from lies within the bounds it leaves (Layer::computeIntervalArithmeticBounds,
\* :706-1332), unless a ReLU reads a neuron whose upper bound is negative (:845).
IntervalBoundsSound ==
  IsNetwork => \/ NegativeSource("relu", job.ia)
               \/ \A r \in job.runs : Within(job.ia, r.v)

\* Both symbolic functions of every neuron bound it at every input of the box, and the
\* concrete bounds derived from them hold (Layer::computeSymbolicBounds, :1334-3398), for
\* every type but bilinear and round and unless a leaky ReLU reads a neuron whose upper
\* bound is negative or a sigmoid's own bounds lag behind those of its input (:2291).
SymbolicBoundsHold ==
  IsNetwork /\ (\A l \in DOMAIN job.net : job.net[l].type \notin {"bilinear", "round"})
    => \/ NegativeSource("leaky relu", job.sy.bounds)
       \/ StaleChord
       \/ \A r \in job.runs : Within(job.sy.bounds, r.v) /\ Encloses(job.sy.sym, r.x, r.v)

\* Every run lies within the bounds DeepPoly leaves, whatever the sources of its weighted
\* sums (DeepPolyAnalysis::run and the elements' back substitution).
DeepPolyBoundsSound ==
  IsNetwork => \A r \in job.runs : Within(job.dp.bounds, r.v)

\* No run within the bounds is cut off by the linear relaxation of the whole network or of
\* the layers after a layer (LPFormulator::createLPRelaxation, createLPRelaxationAfter).
RelaxationKeepsRuns ==
  IsNetwork => \A r \in job.runs : LP!Feasible(job.lp, r.v) /\ LP!Feasible(job.after, r.v)

\* With the binary variables of MILPFormulator the relaxation has no solution but the runs:
\* a point that differs from a run in the value of one ReLU, and satisfies the relaxation
\* of that ReLU, is refused by its binary rows (MILPFormulator::addReluLayerToMILPFormulation).
BinaryRowsExact ==
  IsNetwork /\ LP!MILPSupported(job.net) =>
    \A r \in job.runs :
      /\ LP!BinaryFeasible(job.net, job.start, r.v)
      /\ \A n \in {m \in NeuronsOf(job.net) : job.net[m[1]].type = "relu"}, d \in {Half, Neg(Half), One} :
           LET moved == [r.v EXCEPT ![n[1]][n[2]] = @ ++ d]
               own   == [job.lp EXCEPT !.rows = {row \in @ : n \in DOMAIN row.c /\ \A m \in DOMAIN row.c : m[1] <= n[1]},
                                       !.box = (n :> @[n])]
           IN  ~(LP!Feasible(own, moved) /\ LP!BinaryFeasible(job.net, job.start, moved))

\* Merging keeps the output of the network and what the layers that stay compute
\* (NetworkLevelReasoner::mergeConsecutiveWSLayers), unless a merged layer with several
\* sources has a bias, which is then added once for each of them (:773-795).
MergingKeepsOutput ==
  job.kind = "merging" =>
    \/ \E l \in DOMAIN job.net :
         /\ job.net[l].type = "weighted sum" /\ Cardinality(DOMAIN job.net[l].weight) > 1
         /\ \E j \in Neurons(job.net[l]) : job.net[l].bias[j] /= Zero
    \/ \A r \in job.runs : Last(r.merged) = Last(r.v)

\* The neurons merging removed are given back by the expressions it leaves
\* (generateLinearExpressionForWeightedSumLayer), in terms of variables that are
\* given back in turn.
RemovedNeuronsExpressed ==
  job.kind = "merging" =>
    \A r \in job.runs, n \in NeuronsOf(job.net) :
      LET v == VariableOf(job.net, n)
          Value(u) == LET m == CHOOSE k \in NeuronsOf(job.net) : VariableOf(job.net, k) = u IN r.v[m[1]][m[2]]
      IN  v \in DOMAIN job.removed =>
            LET e == job.removed[v]
            IN  Value(v) = e.constant ++ RatSum([u \in DOMAIN e.addends |-> e.addends[u] ** Value(u)])

\* Simulation, which has code of its own, agrees with evaluation
\* (Layer::computeSimulations, computeAssignment) in a network whose sums have one source
\* and whose sign and round layers read the neuron of their own index.
SimulationAgrees ==
  job.kind = "merging" /\ (\A l \in DOMAIN job.merged : Cardinality(DOMAIN job.merged[l].weight) <= 1)
    => \A r \in job.runs : r.simulated = r.merged

\* The query generated from a network has the runs of the network for solutions, and no
\* other near them: one neuron out of place breaks an equation or a constraint
\* (NetworkLevelReasoner::generateQuery).
GeneratedQueryExact ==
  job.kind = "query" =>
    \A r \in job.runs :
      LET value == [v \in job.query.variables |->
                      LET n == CHOOSE m \in NeuronsOf(job.net) : VariableOf(job.net, m) = v IN r.v[n[1]][n[2]]]
      IN  /\ Solves(job.query, value)
          /\ \A v \in job.query.variables \ job.query.inputs : ~Solves(job.query, [value EXCEPT ![v] = @ ++ Half])

\* After preprocessing has eliminated a variable and renumbered the others, an input point
\* of the new query is completed to the run of the network it stands for, under the new
\* numbers (Layer::eliminateVariable, updateVariableIndices, concretizeInputAssignment).
CompletionFollowsRenumbering ==
  job.kind = "query" =>
    \A r \in {q \in job.runs : q.x[2] = job.low} :
      LET done == ConcretizeInputAssignment(job.renumbered, (job.total - 1) :> r.x[1])
      IN  \A n \in NeuronsOf(job.net) : n /= <<1, 2>> =>
            done[job.total - 1 - VariableOf(job.net, n)] = r.v[n[1]][n[2]]
\* The bounds and relaxations computed from a network hold of every run of it from
\* the box, whichever of the analyses computes them (NetworkLevelReasoner.cpp:276-330,
\* LPFormulator.cpp, MILPFormulator.cpp).
NetworkBoundsSound ==
  /\ IntervalBoundsSound
  /\ SymbolicBoundsHold
  /\ DeepPolyBoundsSound
  /\ RelaxationKeepsRuns
  /\ BinaryRowsExact

\* Merging layers, simulating, generating a query and renumbering change the form of
\* a network and not what it computes (NetworkLevelReasoner.cpp:355-790).
TransformationsExact ==
  /\ MergingKeepsOutput
  /\ RemovedNeuronsExpressed
  /\ SimulationAgrees
  /\ GeneratedQueryExact
  /\ CompletionFollowsRenumbering

------------------------------------------------------------------------------
(* Queries written down from small programs (each variable defined once by  *)
(* a sum or an activation of variables before it), their equations scaled   *)
(* and in either order, and the network constructed from them.  Queries of  *)
(* one or two constraints as the engine hands them to the MILP solver, and  *)
(* the mixed-integer program that encodes them.                             *)

LOCAL OneSource == {"relu", "leaky relu", "abs", "sign", "round"}

\* A definition: out = the sum of coefficients (variable -> integer) + constant.
LOCAL Sum(out, addends, constant) == [out |-> <<out>>, type |-> "sum", addends |-> addends, constant |-> constant]
LOCAL Activated(type, in, out, slope) == [out |-> <<out>>, type |-> type, in |-> in, slope |-> slope]
LOCAL Softmax(in, out) == [out |-> out, type |-> "softmax", in |-> in, slope |-> Zero]

\* The equation of a sum with the new variable's coefficient equal to scale.
LOCAL EquationOf(d, scale) ==
  LET k == Neg(scale)
  IN  [type |-> "EQ", scalar |-> Neg(k ** Rat(d.constant)),
       addends |-> (d.out[1] :> scale) @@ [v \in DOMAIN d.addends |-> k ** Rat(d.addends[v])]]

LOCAL InOrder(s, reversed) == IF reversed THEN Reverse(s) ELSE s

LOCAL QueryOf(program, scale, reversed, extra, lb, sameLayer) ==
  LET sums == SelectSeq(program, LAMBDA d : d.type = "sum")
      acts == SelectSeq(program, LAMBDA d : d.type /= "sum")
  IN  [eqs |-> InOrder([k \in DOMAIN sums |-> EquationOf(sums[k], scale)], reversed) \o extra,
       cons |-> InOrder([k \in DOMAIN acts |-> [type |-> acts[k].type, in |-> acts[k].in, out |-> acts[k].out, slope |-> acts[k].slope]], reversed),
       lb |-> lb, ub |-> <<>>, inputs |-> <<0, 1>>, sameLayer |-> sameLayer]

\* What the program assigns to every variable.
LOCAL Run(program, point) ==
  FoldLeft(LAMBDA a, d :
             IF d.type = "sum"
               THEN (d.out[1] :> (Rat(d.constant) ++ RatSum([v \in DOMAIN d.addends |-> Rat(d.addends[v]) ** a[v]]))) @@ a
               ELSE (d.out[1] :> Activation([type |-> d.type, alpha |-> d.slope], [k \in DOMAIN d.in |-> a[d.in[k]]])) @@ a,
           (0 :> point[1]) @@ (1 :> point[2]), program)

LOCAL ProgramPoints == {<<Rat(x), Rat(y)>> : x \in {-2, 1, 3}, y \in {-1, 0, 2}}

\* Two activations on sums, one on another layer, a sum of them all.
LOCAL Mixed(t1, t2) ==
  <<Sum(2, (0 :> 1) @@ (1 :> 2), 1), Sum(3, (0 :> -1) @@ (1 :> 1), -2), Activated(t1, <<2>>, 4, Half), Activated(t2, <<3>>, 5, <<1, 4>>),
    Activated(t2, <<0>>, 6, <<1, 4>>), Activated("max", <<4, 5>>, 7, Zero), Activated("bilinear", <<7, 6>>, 8, Zero), Sum(9, (5 :> 1) @@ (8 :> -1) @@ (0 :> 2), 3)>>

\* Sums of sums: two layers that can be merged, activations on the second, a last pair of sums.
LOCAL Tower(t1, t2) ==
  <<Sum(2, (0 :> 1) @@ (1 :> -1), 2), Sum(3, (1 :> 3), -1), Sum(4, (2 :> 2) @@ (3 :> 1), 0), Sum(5, (3 :> -1), 1),
    Activated(t1, <<4>>, 6, Half), Activated(t2, <<5>>, 7, Half), Sum(8, (6 :> 1) @@ (7 :> 1), 0), Sum(9, (8 :> -2), 1)>>

\* Constraints that cannot be evaluated here.
LOCAL Structure ==
  <<Sum(2, (0 :> 1) @@ (1 :> 2), 1), Sum(3, (0 :> -1), -2), Softmax(<<3, 2>>, <<4, 5>>), Activated("sigmoid", <<3>>, 6, Zero),
    Activated("sigmoid", <<2>>, 7, Zero), Softmax(<<6, 7>>, <<8, 9>>)>>

\* More equations: between computed variables, or with two unknown ones.
LOCAL Extras == {<<>>, <<[type |-> "GE", addends |-> (3 :> One) @@ (4 :> One), scalar |-> Rat(-50)]>>,
                 <<[type |-> "EQ", addends |-> (20 :> One) @@ (21 :> One) @@ (2 :> One), scalar |-> Zero]>>}

LOCAL Constructed(program, q, c) ==
  LET evaluated == \A k \in DOMAIN program : program[k].type \notin {"softmax", "sigmoid"}
  IN  [kind |-> "construction", query |-> q, c |-> c, program |-> program,
       merged |-> MergeConsecutiveWeightedSumLayers(q, c),
       runs |-> IF evaluated THEN {[a |-> Run(program, p), v |-> Evaluate(c.state.net, p)] : p \in ProgramPoints} ELSE {}]

----------------------------------------------------------------------------
(* Queries with one constraint, or two on the same variable, and their      *)
(* programs.  b = 1 and f = 2; 3 is the second input, or the second output. *)

LOCAL Ticks == {<<k, 2>> : k \in {-3, -1, 1, 3}} \cup {Rat(k) : k \in -2..2}
LOCAL Whole == {Rat(k) : k \in -2..2}
LOCAL Ends == {<<Rat(-2), Rat(1)>>, <<Rat(-1), Rat(2)>>, <<Rat(-2), Zero>>, <<Zero, Rat(2)>>, <<Rat(1), Rat(2)>>, <<Rat(-2), Rat(-1)>>}

LOCAL ConOf(type) ==
  CASE type = "max" -> [type |-> type, f |-> 2, elements |-> <<1, 3>>, aux |-> <<4, 5>>, eliminated |-> Neg(Infinity), active |-> TRUE, fixed |-> FALSE]
    [] type = "max of constant" -> [type |-> "max", f |-> 2, elements |-> <<1, 3>>, aux |-> <<4, 5>>, eliminated |-> Half, active |-> TRUE, fixed |-> FALSE]
    [] type = "disjunction" -> [type |-> type, active |-> TRUE, fixed |-> FALSE,
                                disjuncts |-> <<<<<<1, "LE", Rat(-1)>>, <<2, "GE", One>>>>, <<<<1, "GE", Zero>>>>, <<<<2, "LE", Rat(-1)>>>>>>]
    [] type = "bilinear" -> [type |-> type, b |-> 1, c |-> 3, f |-> 2]
    [] OTHER -> [type |-> type, b |-> 1, f |-> 2, slope |-> Half, active |-> TRUE, fixed |-> FALSE]

LOCAL MeetsCon(con, p) ==
  CASE con.type = "max" -> p[2] = LargestOf({p[1], p[3], con.eliminated})
    [] con.type = "disjunction" -> \E i \in 1..3 : \A t \in ToSet(con.disjuncts[i]) : IF t[2] = "LE" THEN p[t[1]] \preceq t[3] ELSE t[3] \preceq p[t[1]]
    [] con.type = "bilinear" -> p[2] = p[1] ** p[3]
    [] con.type = "relu" -> p[con.f] = Larger(p[1], Zero)
    [] con.type = "abs" -> p[con.f] = AbsRat(p[1])
    [] con.type = "leaky relu" -> p[con.f] = Larger(p[1], Half ** p[1])
    [] con.type = "sign" -> p[con.f] = IF p[1] \prec Zero THEN Rat(-1) ELSE One
    [] con.type = "round" -> p[con.f] = Round(p[1])
    [] con.type = "sigmoid" -> p[con.f] = MILP!Sigmoid(p[1])

\* Where a constraint in floating point may go either way: its equations allow both.
LOCAL OnBorder(con, p) ==
  \/ con.type = "sign" /\ p[1] = Zero /\ AbsRat(p[con.f]) = One
  \/ con.type = "round" /\ p[con.f][2] = 1 /\ AbsRat(p[con.f] -- p[1]) = Half

LOCAL WithAuxOf(q, con) ==
  CASE con.type = "relu" -> MILP!ReluAux(q, con)
    [] con.type = "abs" -> MILP!AbsAux(q, con)
    [] con.type = "leaky relu" -> MILP!LeakyAux(q, con)
    [] con.type = "max" -> MILP!MaxAux(q, con)
    [] con.type = "sign" -> MILP!SignAux(q, con)
    [] con.type = "round" -> MILP!RoundAux(q, con)
    [] OTHER -> q

\* A point of the base variables with the values the equations give the new ones.
LOCAL Completed(q, base) ==
  FoldLeft(LAMBDA p, row : LET v == CHOOSE u \in DOMAIN row.terms : \A w \in DOMAIN row.terms : w <= u
                           IN  p @@ (v :> (RatSum([u \in DOMAIN row.terms \ {v} |-> row.terms[u] ** p[u]]) -- row.scalar)),
           base, q.rows)
LOCAL InBox(box, p) == \A v \in DOMAIN p : box[v].lb \preceq p[v] /\ p[v] \preceq box[v].ub

\* The program allows the point: for some values of its other columns.
LOCAL Ranges(m, name) ==
  CASE m.columns[name].kind = "binary" -> {Zero, One}
    [] m.columns[name].kind = "integer" -> Whole
    [] OTHER -> {Zero, Half, One}
LOCAL OnCurve(c, p) ==
  LET x == p[c.b]
      k == IF x \prec c.at[2][1] THEN 1 ELSE 2
      slope == (c.at[k + 1][2] -- c.at[k][2]) // (c.at[k + 1][1] -- c.at[k][1])
  IN  p[c.f] = c.at[k][2] ++ (slope ** (x -- c.at[k][1]))
LOCAL Allows(m, names, p) ==
  \E a \in [names -> UNION {Ranges(m, name) : name \in names}] :
    LET x == p @@ a
    IN  /\ \A name \in names : a[name] \in Ranges(m, name)
        /\ \A k \in DOMAIN m.rows : MILP!RowHolds(m.rows[k], x)
        /\ \A k \in DOMAIN m.indicators :
             LET i == m.indicators[k] IN x[i.bin] = i.on => MILP!RowHolds(i.row, x)
        /\ \A k \in DOMAIN m.curves : OnCurve(m.curves[k], x)
        /\ \A k \in DOMAIN m.products : x[m.products[k].f] = x[m.products[k].b] ** x[m.products[k].c]
        /\ \A name \in names : InBox(m.columns, name :> x[name])

\* The bounds that the case split of a fixed phase has left.
LOCAL FixedBox(con, box, positive) ==
  LET f == IF con.type = "sign" THEN One ELSE Zero
      aux == IF con.type = "relu" \/ positive THEN 3 ELSE 4
      split == IF positive THEN [box EXCEPT ![1].lb = Larger(@, Zero), ![2].lb = Larger(@, f)]
                           ELSE [box EXCEPT ![1].ub = Smaller(@, Zero), ![2].ub = Smaller(@, IF con.type = "abs" THEN @ ELSE Neg(f))]
  IN  IF con.type = "sign" \/ (con.type = "relu" /\ ~positive) THEN split ELSE [split EXCEPT ![aux].ub = Zero]

LOCAL Phased == {"relu", "abs", "sign", "leaky relu"}
LOCAL EncodedTypes == Phased \cup {"round", "max", "max of constant", "disjunction", "sigmoid", "bilinear"}
LOCAL Pairs == {<<"relu", "abs">>, <<"sign", "leaky relu">>, <<"relu", "round">>, <<"abs", "abs">>}

LOCAL StartBox(n, ends, f) ==
  [v \in 1..n |-> IF v = 1 THEN [lb |-> ends[1], ub |-> ends[2]] ELSE IF v = 2 THEN f ELSE [lb |-> Rat(-2), ub |-> Rat(2)]]
LOCAL WideRange == [lb |-> Rat(-2), ub |-> Rat(2)]

\* The values of the variables the constraints are about.
LOCAL Bases(cons, n) ==
  IF n = 2 THEN {<<b, f>> : b \in Ticks, f \in Ticks \cup {MILP!Sigmoid(x) : x \in IF cons[1].type = "sigmoid" THEN Ticks ELSE {}}}
  ELSE Whole \X Whole \X Whole

LOCAL Encoding(q, box, relax) ==
  LET m == MILP!EncodeQuery(q, box, relax)
      names == (DOMAIN m.columns) \ (1..q.n)
      points == {p \in {Completed(q, base) : base \in Bases(q.cons, q.base)} : InBox(box, p)}
  IN  [kind |-> "encoding", cons |-> q.cons, relax |-> relax, box |-> box,
       verdicts |-> {[p |-> p, solves |-> \A k \in DOMAIN q.cons : MeetsCon(q.cons[k], p),
                      border |-> \E k \in DOMAIN q.cons : OnBorder(q.cons[k], p), allowed |-> Allows(m, names, p)] : p \in points}]

\* The constraint's query and bounds that may be tighter by now, as propagation leaves
\* them: a relu's and an absolute value's f is not negative and a sign is between -1 and 1,
\* a maximum reaches its constant, the encodings rely on it; a max constraint's auxiliary
\* variables are bounded.
LOCAL RangeOf(con, interval) ==
  CASE con.type \in {"relu", "abs"} -> [interval EXCEPT !.lb = Larger(@, Zero)]
    [] con.type = "sign" -> [lb |-> Larger(interval.lb, Rat(-1)), ub |-> Smaller(interval.ub, One)]
    [] con.type = "max" -> [interval EXCEPT !.lb = Larger(@, con.eliminated)]
    [] OTHER -> interval
LOCAL QueryOfCons(cons, n, ends, f) ==
  LET start == FoldLeft(LAMBDA box, con : IF con.type = "disjunction" THEN box ELSE [box EXCEPT ![con.f] = RangeOf(con, @)],
                        StartBox(n, ends, f), cons)
      q == FoldLeft(LAMBDA p, con : WithAuxOf(p, con), [n |-> n, base |-> n, box |-> start, rows |-> <<>>, cons |-> cons], cons)
  IN  [q EXCEPT !.box = [v \in DOMAIN @ |-> IF @[v].ub = Infinity THEN [@[v] EXCEPT !.ub = Rat(4)] ELSE @[v]]]

\* The phase of a constraint may be open or fixed, the bound of b tighter than at the start.
LOCAL Applies(con, ends, f, fixed) ==
  /\ fixed /= "open" => con.type \in Phased
  /\ con.type \in {"relu", "abs"} /\ fixed = "open" => ends[1] \prec Zero /\ Zero \prec ends[2]
  /\ con.type = "sign" => ends[1] \prec Zero /\ Zero \preceq ends[2] /\ (fixed = "open" => f = WideRange)
LOCAL Narrowed(q, tighter) == IF tighter THEN [q EXCEPT !.box[1].ub = Smaller(@, One)] ELSE q
LOCAL PhaseOf(q, fixed) ==
  IF fixed = "open" THEN q
  ELSE [q EXCEPT !.cons[1].fixed = TRUE, !.box = FixedBox(q.cons[1], @, fixed = "positive")]

LOCAL Single(type) ==
  {PhaseOf(Narrowed(QueryOfCons(<<ConOf(type)>>, IF type \in {"max", "max of constant", "bilinear"} THEN 3 ELSE 2, x[1], x[2]), x[4]), x[3]) :
     x \in {y \in Ends \X {WideRange, [lb |-> Zero, ub |-> One]} \X {"open", "positive", "negative"} \X BOOLEAN : Applies(ConOf(type), y[1], y[2], y[3])}}
LOCAL Pair(types) ==
  {QueryOfCons(<<ConOf(types[1]), [ConOf(types[2]) EXCEPT !.f = 3]>>, 3, ends, WideRange) : ends \in {<<Rat(-2), One>>, <<Rat(-1), Rat(2)>>}}

EncodeStarts == {[kind |-> "encodings", types |-> types, relax |-> relax] : types \in {<<t>> : t \in EncodedTypes} \cup Pairs, relax \in BOOLEAN}
EncodeJob ==
  /\ job.kind = "encodings"
  /\ \E q \in IF Len(job.types) = 1 THEN Single(job.types[1]) ELSE Pair(job.types) : job' = Encoding(q, q.box, job.relax)

----------------------------------------------------------------------------
(* Refinement rounds: one sigmoid over each box, or two.                    *)

LOCAL SigmoidBoxes == {[lb |-> l, ub |-> u] : l \in {Rat(-2), <<-1, 4>>, Zero}, u \in {<<1, 4>>, Rat(2), Zero}} \ {[lb |-> Zero, ub |-> Zero]}
LOCAL At(box) == {x \in {box.lb, box.ub, (box.lb ++ box.ub) ** Half, Zero, box.lb ** Half, box.ub ** Half} : InBox(<<box>>, <<x>>)}
LOCAL Candidates(s, i, steps) ==
  {p \in {[b |-> x, f |-> Sigmoid(x) ++ d] : x \in At(s.box[i]), d \in steps} : MILP!Allowed(s, i, p)}
LOCAL Near == {Zero, <<1, 16>>, <<-1, 16>>}
LOCAL Fine(box) == At(box) \cup {(box.lb ++ (box.ub ** Rat(k))) // Rat(k + 1) : k \in {3, 7}} \cup {((box.lb ** Rat(k)) ++ box.ub) // Rat(k + 1) : k \in {3, 7}}
LOCAL Curve(x) == [b |-> x, f |-> Sigmoid(x)]

LOCAL Linearizing(box) ==
  [kind |-> "linearization", box |-> box, cuts |-> [i \in DOMAIN box |-> <<>>], candidate |-> <<>>, limit |-> 1,
   timeout |-> 3, exit |-> "UNKNOWN", before |-> <<>>, refined |-> {}, late |-> FALSE]
LinearizationStarts == {[kind |-> "sigmoids", box |-> box] : box \in {<<b>> : b \in SigmoidBoxes} \cup {<<[lb |-> <<-1, 4>>, ub |-> Rat(2)], [lb |-> Rat(-2), ub |-> Zero]>>}}

\* The first engine's candidate; then the rounds, to two cuts for a constraint.
LOCAL OnePerSigmoid(sets) == {c \in [DOMAIN sets -> UNION {sets[i] : i \in DOMAIN sets}] : \A i \in DOMAIN sets : c[i] \in sets[i]}
LOCAL FirstRound(s, steps) ==
  \E c \in OnePerSigmoid([i \in DOMAIN s.box |-> Candidates(s, i, steps)]) : job' = [s EXCEPT !.candidate = c]
LOCAL FirstCandidate ==
  /\ job.kind = "sigmoids"
  /\ FirstRound(Linearizing(job.box), IF Len(job.box) = 1 THEN Near \cup {<<1, 64>>, <<-1, 64>>} ELSE Near)

LOCAL Solvable(s) == \A i \in DOMAIN s.box : \E x \in At(s.box[i]) : MILP!Allowed(s, i, Curve(x))
LOCAL NextEngine(s) ==
  IF s.refined = {} THEN job' = [s EXCEPT !.exit = "given up"]
  ELSE \/ job' = MILP!Answered(s, IF Solvable(s) THEN "SAT" ELSE "UNSAT", <<>>, 0, 0)
       \/ /\ Len(s.box) = 1
          /\ \E p \in Candidates(s, 1, Near \ {Zero}), spent \in 1..3, again \in {0, 1} :
               job' = [MILP!Answered(s, "UNKNOWN", <<p>>, spent, spent + again) EXCEPT !.late = @ \/ again = 1]
       \/ /\ Len(s.box) = 2
          /\ job' = MILP!Answered(s, "UNKNOWN", [i \in 1..2 |-> IF i \in s.refined THEN Curve(Zero) ELSE job.candidate[i]], 1, 1)

LOCAL LinearizationRound ==
  /\ job.kind = "linearization" /\ job.exit = "UNKNOWN" /\ \A i \in DOMAIN job.box : Len(job.cuts[i]) < 2
  /\ NextEngine([MILP!WithCuts(job) EXCEPT !.before = job.candidate, !.refined = MILP!Refined(job)])

LinearizationJob == FirstCandidate \/ LinearizationRound

ConstructionStarts == {[kind |-> "queries", t1 |-> t1, t2 |-> t2] : t1 \in OneSource, t2 \in OneSource}

ConstructionJob ==
  /\ job.kind = "queries"
  /\ \E program \in {Mixed(job.t1, job.t2), Tower(job.t1, job.t2)} \cup (IF job.t1 = job.t2 THEN {Structure} ELSE {}),
        reversed, same \in BOOLEAN, extra \in Extras, lb \in {<<>>, 2 :> Rat(-9)} :
       /\ program = Structure => extra = <<>>
       /\ LET q == QueryOf(program, IF reversed THEN Rat(2) ELSE Rat(-1), reversed, extra, lb, same)
          IN  job' = Constructed(program, q, ConstructNetworkLevelReasoner(q))

----------------------------------------------------------------------------
LOCAL IsConstruction == job.kind = "construction"
LOCAL Net == job.c.state.net
LOCAL Holds(eq, a) ==
  LET s == RatSum([v \in DOMAIN eq.addends |-> eq.addends[v] ** a[v]])
  IN  /\ DOMAIN eq.addends \subseteq DOMAIN a
      /\ IF eq.type = "EQ" THEN s = eq.scalar ELSE eq.scalar \preceq s

\* Every solution of the query is a run of the network constructed from it
\* (Query::constructNetworkLevelReasoner, :819-2048): each neuron has the value of its
\* variable, whatever the order and the scale of the equations.
NetworkRunsSolveQuery ==
  IsConstruction => \A r \in job.runs : \A n \in NeuronsOf(Net) : r.v[n[1]][n[2]] = r.a[Net[n[1]].var[n[2]]]

\* No constraint is lost or altered: each is an activation of the network with its type,
\* its slope and its inputs in order, or its variables are reported as unhandled; the
\* constraints are listed after those they read from.
ConstraintsMirrored ==
  IsConstruction =>
    /\ \A c \in DOMAIN job.query.cons \ job.c.state.cons : ConVariables(job.query.cons[c]) \subseteq job.c.variables
    /\ \A c \in job.c.state.cons : \A k \in DOMAIN job.query.cons[c].out :
         LET con == job.query.cons[c]
         IN  \E n \in NeuronsOf(Net) :
               LET layer == Net[n[1]]
                   inputs == layer.inputs[n[2]]
               IN  /\ layer.type = con.type /\ layer.var[n[2]] = con.out[k]
                   /\ con.type = "leaky relu" => layer.alpha = con.slope
                   /\ [i \in DOMAIN inputs |-> Net[inputs[i][1]].var[inputs[i][2]]] = con.in
    /\ \A i, j \in DOMAIN job.c.state.order : i < j =>
         LET before == job.query.cons[job.c.state.order[j]].out[1]
         IN  before \notin {job.query.cons[job.c.state.order[i]].in[k] : k \in DOMAIN job.query.cons[job.c.state.order[i]].in}

\* With DeepPoly every activation layer but the max and bilinear ones reads a single layer.
SingleSource ==
  IsConstruction /\ job.query.sameLayer =>
    \A l \in DOMAIN Net : Net[l].type \notin {"input", "weighted sum", "max", "bilinear"} =>
                            Cardinality(SourceLayers(Net[l])) = 1

\* The variables that merging removed are given back by their expressions.
LOCAL Kept(a) == [v \in DOMAIN a \ DOMAIN job.merged.removed |-> a[v]]
LOCAL GivenBack(a) ==
  [v \in DOMAIN job.merged.removed |->
     LET e == job.merged.removed[v] IN e.constant ++ RatSum([u \in DOMAIN e.addends |-> e.addends[u] ** a[u]])] @@ a

\* After merging, the query has the same solutions: the equations of the removed layers may
\* be dropped because their variables occur nowhere else
\* (mergeConsecutiveWeightedSumLayers, :939-962).  Assignments next to a solution stand for
\* those that are none.
MergedQueryEquivalent ==
  IsConstruction => \A r \in job.runs :
    LET inner == [v \in DOMAIN r.a \cup {20, 21} |-> IF v \in DOMAIN r.a THEN r.a[v] ELSE IF v = 20 THEN Neg(r.a[2]) ELSE Zero]
        solves(eqs, a) == \A k \in DOMAIN eqs : Holds(eqs[k], a)
    IN  /\ solves(job.query.eqs, inner) => solves(job.merged.query.eqs, Kept(inner))
        /\ \A v \in DOMAIN Kept(inner) :
             LET other == [Kept(inner) EXCEPT ![v] = @ ++ One]
             IN  solves(job.merged.query.eqs, other) => solves(job.query.eqs, GivenBack(other))

\* The mixed-integer program has the solutions of the query within the tableau's bounds,
\* its relaxation has at least those (MILPEncoder::encodeQuery, MILPEncoder.cpp:28-124).
EncodingExact ==
  job.kind = "encoding" => \A v \in job.verdicts :
    /\ v.solves => v.allowed
    /\ v.allowed /\ ~job.relax => v.solves \/ v.border \/ \E k \in DOMAIN job.cons : job.cons[k].type = "sigmoid"

\* A cut with a line across the inflection point that leaves the curve: its slope on the
\* far side is below that of the tangent at the end of the box.
LOCAL FarSlope(cut, left) ==
  IF cut.mirrored THEN Neg(cut.scale) ** (IF left THEN One ELSE cut.slope)
                  ELSE cut.scale ** (IF left THEN cut.slope ELSE One)
LOCAL LeavesCurve(cut, box) ==
  \/ box.lb \prec Zero /\ Zero \prec cut.at /\ cut.rel = "GE" /\ FarSlope(cut, TRUE) \prec SigmoidDerivative(box.lb)
  \/ Zero \prec box.ub /\ cut.at \prec Zero /\ cut.rel = "LE" /\ FarSlope(cut, FALSE) \prec SigmoidDerivative(box.ub)
  \/ box.lb = Zero /\ cut.at = Zero /\ cut.rel = "LE"

\* A round excludes the candidates it refines, and no value the sigmoid takes, so that the
\* next engine may trust its UNSAT (IncrementalLinearization::solve, attemptToRefine), but
\* for the two cuts the README names (SigmoidConstraint.cpp:329, 361 and 398); and the
\* time left does not become none, unless the clock moves between its two readings (:88-94).
LinearizationSound ==
  job.kind = "linearization" =>
    /\ \A i \in DOMAIN job.box : \A x \in Fine(job.box[i]) : \A k \in DOMAIN job.cuts[i] :
         MILP!CutHolds(job.cuts[i][k], Curve(x)) \/ LeavesCurve(job.cuts[i][k], job.box[i])
    /\ \A i \in job.refined : ~MILP!Allowed(job, i, job.before[i])
    /\ job.exit = "given up" => \A i \in DOMAIN job.box : ~MILP!Violated(job.candidate[i])
    /\ job.exit = "UNSAT" => \E i \in DOMAIN job.box : \E k \in DOMAIN job.cuts[i] : LeavesCurve(job.cuts[i][k], job.box[i])
    /\ (job.timeout > 0 \/ job.late) /\ job.limit \in 1..Len(job.box)

\* The network built from a query, the query written back after merging and the program
\* that encodes a query have the solutions of the query (Query::constructNetworkLevelReasoner, Query.cpp:863-1014).
ConstructionExact ==
  /\ NetworkRunsSolveQuery
  /\ ConstraintsMirrored
  /\ SingleSource
  /\ MergedQueryEquivalent
  /\ EncodingExact
  /\ LinearizationSound
==============================================================================
