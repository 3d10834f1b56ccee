------------------------------- MODULE Network -------------------------------
(****************************************************************************)
(* The layers the network-level reasoner keeps (nlr/Layer,                  *)
(* nlr/NetworkLevelReasoner) and the operations that read or rebuild them:  *)
(* evaluation, simulation, the merging of consecutive weighted sums, the    *)
(* intervals of the neurons, and the variables the query has for them.      *)
(*                                                                          *)
(* A network is a sequence of layers, layer 1 being the input layer (index  *)
(* 0 of the code).  A layer is a record: its type; its size; weight, for    *)
(* each source layer of a weighted sum a matrix [source neuron -> [neuron   *)
(* -> Rational]]; bias; inputs, for each neuron of an activation layer the  *)
(* sequence of neurons <<layer, neuron>> it reads; alpha, the slope of a    *)
(* leaky ReLU; gone, the values of the eliminated neurons; var, the         *)
(* variables of the neurons that have one.  Softmax layers are left out.    *)
(****************************************************************************)
EXTENDS Rationals, Integers, Sequences, FiniteSets, SequencesExt, TLC

Neurons(layer) == 1..layer.size

NeuronsOf(net) == UNION {{<<l, i>> : i \in Neurons(net[l])} : l \in 1..Len(net)}

SourceLayers(layer) ==
  IF layer.type = "weighted sum"
    THEN DOMAIN layer.weight
    ELSE UNION {{layer.inputs[j][k][1] : k \in DOMAIN layer.inputs[j]} : j \in DOMAIN layer.inputs}

----------------------------------------------------------------------------
(* Evaluation *)

\* The value of an activation function on its inputs.
Activation(layer, in) ==
  CASE layer.type = "relu"       -> Larger(in[1], Zero)
    [] layer.type = "leaky relu" -> Larger(in[1], layer.alpha ** in[1])
    [] layer.type = "abs"        -> AbsRat(in[1])
    [] layer.type = "sign"       -> IF in[1] \prec Zero THEN Rat(-1) ELSE One
    [] layer.type = "round"      -> Round(in[1])
    [] layer.type = "sigmoid"    -> Sigmoid(in[1])
    [] layer.type = "max"        -> LargestOf({in[k] : k \in DOMAIN in})
    [] layer.type = "bilinear"   -> RatProduct(in)

\* bias + the weighted values of every source layer; value[l][i] is neuron i of layer l.
WeightedValue(layer, j, value) ==
  layer.bias[j] ++
    RatSum([l \in DOMAIN layer.weight |->
              RatSum([i \in DOMAIN layer.weight[l] |-> value[l][i] ** layer.weight[l][i][j]])])

\* Layer::computeAssignment: eliminated neurons supersede whatever was computed.
Assignment(layer, value) ==
  [j \in Neurons(layer) |->
     IF j \in DOMAIN layer.gone THEN layer.gone[j]
     ELSE IF layer.type = "weighted sum" THEN WeightedValue(layer, j, value)
     ELSE Activation(layer, [k \in DOMAIN layer.inputs[j] |->
                               value[layer.inputs[j][k][1]][layer.inputs[j][k][2]]])]

\* NetworkLevelReasoner::evaluate: the values of all layers on an input point.
Evaluate(net, point) ==
  FoldLeft(LAMBDA value, layer : Append(value, Assignment(layer, value)), <<point>>, Tail(net))

Output(net, point) == Last(Evaluate(net, point))

----------------------------------------------------------------------------
(* Simulation: many points at once, computed by code of its own *)

\* The neuron a one-input activation reads: sign, round and sigmoid take the neuron of
\* their own index in the source layer, not the one that feeds them.
SimulatedSource(layer, j) ==
  IF layer.type \in {"sign", "round", "sigmoid"}
    THEN <<layer.inputs[j][1][1], j>>
    ELSE layer.inputs[j][1]

LastSource(layer) == CHOOSE l \in DOMAIN layer.weight : \A m \in DOMAIN layer.weight : m <= l

\* A weighted sum starts again from its bias at each source layer, so that the
\* last source layer alone counts.
SimulatedSum(layer, j, value) ==
  LET last == LastSource(layer)
  IN  layer.bias[j] ++
        RatSum([i \in DOMAIN layer.weight[last] |-> value[last][i] ** layer.weight[last][i][j]])

\* Layer::computeSimulations, for one of the points.
Simulation(layer, value) ==
  [j \in Neurons(layer) |->
     IF j \in DOMAIN layer.gone THEN layer.gone[j]
     ELSE IF layer.type = "weighted sum" THEN SimulatedSum(layer, j, value)
     ELSE LET read == IF layer.type \in {"max", "bilinear"} THEN layer.inputs[j]
                                                            ELSE <<SimulatedSource(layer, j)>>
          IN  Activation(layer, [k \in DOMAIN read |-> value[read[k][1]][read[k][2]]])]

Simulate(net, point) ==
  FoldLeft(LAMBDA value, layer : Append(value, Simulation(layer, value)), <<point>>, Tail(net))

----------------------------------------------------------------------------
(* Merging consecutive weighted sums.  bounded: variables with a finite     *)
(* bound; unhandled: variables of constraints the network does not hold.    *)

\* NetworkLevelReasoner::suitableForMerging.
SuitableForMerging(net, second, bounded, unhandled) ==
  /\ net[second].type = "weighted sum"
  /\ \E first \in 1..Len(net) :
       /\ SourceLayers(net[second]) = {first}
       /\ net[first].type = "weighted sum"
       /\ \A k \in 1..Len(net) : first \in SourceLayers(net[k]) => k = second
       /\ \A i \in Neurons(net[first]) : net[first].var[i] \notin bounded \cup unhandled

\* multiplyWeights: the weights of the second layer in terms of a source of the first.
MergedWeights(one, two, l) ==
  [i \in DOMAIN one.weight[l] |->
     [j \in Neurons(two) |->
        RatSum([k \in Neurons(one) |-> one.weight[l][i][k] ** two.weight[LastSource(two)][k][j]])]]

\* The biases of the first layer are carried over once for each of its source
\* layers: the loop over the sources encloses the update of the bias.
MergedBias(one, two) ==
  [j \in Neurons(two) |->
     LET carried == RatSum([k \in Neurons(one) |-> one.bias[k] ** two.weight[LastSource(two)][k][j]])
     IN  two.bias[j] ++ (Rat(Cardinality(DOMAIN one.weight)) ** carried)]

\* Layer::reduceIndexFromAllMaps: the sources from index start on move down by one.
Lowered(l, start) == IF l >= start THEN l - 1 ELSE l

Reindexed(layer, start) ==
  [layer EXCEPT
     !.weight = [l \in {Lowered(k, start) : k \in DOMAIN @} |->
                   @[CHOOSE k \in DOMAIN @ : Lowered(k, start) = l]],
     !.inputs = [j \in DOMAIN @ |->
                   [k \in DOMAIN @[j] |-> <<Lowered(@[j][k][1], start), @[j][k][2]>>]]]

\* NetworkLevelReasoner::mergeWSLayers: the first layer leaves, the layers from the
\* second on move down by one index.
MergeWSLayers(net, second) ==
  LET first  == LastSource(net[second])
      one    == net[first]
      merged == [net[second] EXCEPT !.weight = [l \in DOMAIN one.weight |-> MergedWeights(one, net[second], l)],
                                    !.bias = MergedBias(one, net[second])]
  IN  [k \in {Lowered(l, second) : l \in DOMAIN net \ {first}} |->
         IF k + 1 < second THEN net[k]
         ELSE Reindexed(IF k + 1 = second THEN merged ELSE net[k + 1], second)]

\* Mutant: the expression has no constant.
ExpressionsNoConstant(net, first) ==
  [v \in {net[first].var[j] : j \in Neurons(net[first])} |-> [constant |-> Zero, addends |-> <<>>]]

\* generateLinearExpressionForWeightedSumLayer: what a removed neuron stood for.
Expressions(net, first) ==
  [v \in {net[first].var[j] : j \in Neurons(net[first])} |->
     LET j == CHOOSE i \in Neurons(net[first]) : net[first].var[i] = v
     IN  [constant |-> net[first].bias[j],
          addends |-> [u \in UNION {{net[l].var[i] : i \in Neurons(net[l])} : l \in DOMAIN net[first].weight} |->
                         RatSum([n \in {<<l, i>> \in NeuronsOf(net) : l \in DOMAIN net[first].weight
                                                                     /\ net[l].var[i] = u} |->
                                   net[first].weight[n[1]][n[2]][j]])]]]

\* mergeConsecutiveWSLayers: the network left, and the expressions of the removed neurons.
RECURSIVE MergeFrom(_, _, _, _, _)
MergeFrom(net, k, bounded, unhandled, removed) ==
  IF k > Cardinality(DOMAIN net) THEN [net |-> net, removed |-> removed]
  ELSE IF SuitableForMerging(net, k, bounded, unhandled)
         THEN MergeFrom(MergeWSLayers(net, k), k, bounded, unhandled, Expressions(net, k - 1) @@ removed)
         ELSE MergeFrom(net, k + 1, bounded, unhandled, removed)

MergeConsecutiveWSLayers(net, bounded, unhandled) == MergeFrom(net, 2, bounded, unhandled, <<>>)

(****************************************************************************)
(* The bounds every layer keeps for its neurons (Layer::_lb, _ub) and their *)
(* tightening by interval arithmetic (nlr/Layer.cpp).  bounds[l][j] is a    *)
(* record [lb, ub]; a pass goes over the layers in order and every layer    *)
(* reads the bounds the pass left in the layers before it.                  *)
(****************************************************************************)

\* Layer::getLb, getUb: an eliminated neuron has its value for both bounds.
BoundsOf(net, bounds, l, i) ==
  IF i \in DOMAIN net[l].gone THEN [lb |-> net[l].gone[i], ub |-> net[l].gone[i]] ELSE bounds[l][i]

\* The better of two intervals, bound by bound.
Tightened(old, new) == [lb |-> IF old.lb \prec new.lb THEN new.lb ELSE old.lb,
                        ub |-> IF new.ub \prec old.ub THEN new.ub ELSE old.ub]

\* The bounds of the neurons a neuron reads; max and bilinear look them all up in
\* the layer of the first one.
InputBounds(net, bounds, layer, j) ==
  [k \in DOMAIN layer.inputs[j] |->
     BoundsOf(net, bounds, layer.inputs[j][1][1], layer.inputs[j][k][2])]

SumBounds(net, bounds, layer, j) ==
  LET Term(l, i, upper) ==
        LET w == layer.weight[l][i][j]
            b == BoundsOf(net, bounds, l, i)
        IN  w ** (IF (Zero \prec w) = upper THEN b.ub ELSE b.lb)
      Total(upper) ==
        layer.bias[j] ++ RatSum([l \in DOMAIN layer.weight |->
                                   RatSum([i \in DOMAIN layer.weight[l] |-> Term(l, i, upper)])])
  IN  [lb |-> Total(FALSE), ub |-> Total(TRUE)]

\* An inactive ReLU takes the negative upper bound of its input.
ReluBounds(in) == [lb |-> Larger(in[1].lb, Zero), ub |-> in[1].ub]

AbsBounds(in) ==
  IF Zero \prec in[1].lb THEN in[1]
  ELSE IF in[1].ub \prec Zero THEN [lb |-> Neg(in[1].ub), ub |-> Neg(in[1].lb)]
  ELSE [lb |-> Zero, ub |-> Larger(in[1].ub, Neg(in[1].lb))]

SignBounds(in) == [lb |-> IF in[1].lb \prec Zero THEN Rat(-1) ELSE One,
                   ub |-> IF in[1].ub \prec Zero THEN Rat(-1) ELSE One]

LeakyReluBounds(alpha, in) ==
  IF Zero \prec in[1].lb THEN in[1]
  ELSE [lb |-> alpha ** in[1].lb,
        ub |-> IF in[1].ub \prec Zero THEN alpha ** in[1].ub ELSE in[1].ub]

RoundBounds(in) == [lb |-> Round(in[1].lb), ub |-> Round(in[1].ub)]

SigmoidBounds(in) == [lb |-> Sigmoid(in[1].lb), ub |-> Sigmoid(in[1].ub)]

\* The first input with the largest lower bound; the max is fixed to it when no
\* other input can be larger.
LargestLower(in) ==
  CHOOSE k \in DOMAIN in : /\ \A m \in DOMAIN in : in[m].lb \preceq in[k].lb
                           /\ \A m \in 1..(k - 1) : in[m].lb \prec in[k].lb
FixedMax(in) == \A m \in DOMAIN in \ {LargestLower(in)} : in[m].ub \preceq in[LargestLower(in)].lb

MaxBounds(in) ==
  [lb |-> in[LargestLower(in)].lb,
   ub |-> IF FixedMax(in) THEN in[LargestLower(in)].ub ELSE LargestOf({in[k].ub : k \in DOMAIN in})]

Corners(in) == {x ** y : x \in {in[1].lb, in[1].ub}, y \in {in[2].lb, in[2].ub}}
BilinearBounds(in) == [lb |-> SmallestOf(Corners(in)), ub |-> LargestOf(Corners(in))]

\* Layer::computeIntervalArithmeticBounds, for one neuron.
IntervalOf(net, bounds, layer, j) ==
  LET in == InputBounds(net, bounds, layer, j)
  IN  CASE layer.type = "weighted sum" -> SumBounds(net, bounds, layer, j)
        [] layer.type = "relu"         -> ReluBounds(in)
        [] layer.type = "abs"          -> AbsBounds(in)
        [] layer.type = "sign"         -> SignBounds(in)
        [] layer.type = "leaky relu"   -> LeakyReluBounds(layer.alpha, in)
        [] layer.type = "round"        -> RoundBounds(in)
        [] layer.type = "sigmoid"      -> SigmoidBounds(in)
        [] layer.type = "max"          -> MaxBounds(in)
        [] layer.type = "bilinear"     -> BilinearBounds(in)

\* NetworkLevelReasoner::intervalArithmeticBoundPropagation.
IntervalArithmeticPropagation(net, bounds) ==
  FoldLeftDomain(LAMBDA b, l :
    IF l = 1 THEN b
    ELSE [b EXCEPT ![l] = [j \in DOMAIN @ |->
            IF j \in DOMAIN net[l].gone THEN @[j] ELSE Tightened(@[j], IntervalOf(net, b, net[l], j))]],
    bounds, net)

----------------------------------------------------------------------------
\* The values of a run of the network lie within the bounds.
Within(bounds, value) ==
  \A l \in DOMAIN bounds : \A j \in DOMAIN bounds[l] :
    ~(value[l][j] \prec bounds[l][j].lb) /\ ~(bounds[l][j].ub \prec value[l][j])

----------------------------------------------------------------------------
(* The query a network belongs to: the neurons' variables, the query that   *)
(* is generated from a network and the completion of an input point.        *)

VariableOf(net, n) == net[n[1]].var[n[2]]
HasVariable(net, n) == n[2] \in DOMAIN net[n[1]].var
Without(f, S) == [x \in DOMAIN f \ S |-> f[x]]

----------------------------------------------------------------------------
(* Preprocessing *)

\* Layer::eliminateVariable: the neuron keeps the value and loses the variable.
EliminateVariable(net, v, value) ==
  [l \in DOMAIN net |->
     LET here == {j \in DOMAIN net[l].var : net[l].var[j] = v}
     IN  [net[l] EXCEPT !.gone = [j \in here |-> value] @@ @, !.var = Without(@, here)]]

\* Follow a variable through the merged ones to the one that is left.
RECURSIVE Representative(_, _)
Representative(v, merged) == IF v \in DOMAIN merged THEN Representative(merged[v], merged) ELSE v

\* Layer::updateVariableIndices: merged variables first, then the new numbers; a neuron
\* whose variable has no new number loses it.
UpdateVariableIndices(net, new, merged) ==
  [l \in DOMAIN net |->
     [net[l] EXCEPT !.var =
        LET followed == [j \in DOMAIN @ |-> Representative(@[j], merged)]
        IN  [j \in {i \in DOMAIN followed : followed[i] \in DOMAIN new} |-> new[followed[j]]]]]

\* Layer::obtainCurrentBounds: a neuron has the bounds of its variable or its value.
ObtainCurrentBounds(net, box) ==
  [l \in DOMAIN net |->
     [j \in Neurons(net[l]) |->
        IF j \in DOMAIN net[l].var THEN box[net[l].var[j]]
                                   ELSE [lb |-> net[l].gone[j], ub |-> net[l].gone[j]]]]

\* reindexNeurons: the variables are numbered layer by layer from 0.
ReindexNeurons(net) ==
  LET before(l) == FoldLeft(LAMBDA s, layer : s + layer.size, 0, SubSeq(net, 1, l - 1))
  IN  [l \in DOMAIN net |-> [net[l] EXCEPT !.var = [j \in Neurons(net[l]) |-> before(l) + j - 1]]]

----------------------------------------------------------------------------
(* The query generated from a network: an equation for each neuron of a     *)
(* weighted sum, a constraint [type, in, out] for each activation.          *)

\* generateQueryForLayer throws on the other layer types.
Generatable == {"input", "weighted sum", "relu", "sigmoid", "sign", "abs", "max"}

\* generateQueryForWeightedSumLayer: -y + sum of w * x = -bias, zero weights left out.
EquationFor(net, n) ==
  LET layer == net[n[1]]
      W(m) == layer.weight[m[1]][m[2]][n[2]]
      reads == {m \in UNION {{<<l, i>> : i \in DOMAIN layer.weight[l]} : l \in DOMAIN layer.weight} : W(m) /= Zero}
  IN  [addends |-> (VariableOf(net, n) :> Rat(-1)) @@
                     [v \in {VariableOf(net, m) : m \in reads} |->
                        W(CHOOSE m \in reads : VariableOf(net, m) = v)],
       scalar |-> Neg(layer.bias[n[2]])]

ConstraintFor(net, n) ==
  LET xs == net[n[1]].inputs[n[2]]
  IN  [type |-> net[n[1]].type, out |-> VariableOf(net, n),
       in |-> IF net[n[1]].type = "max" THEN {VariableOf(net, xs[k]) : k \in DOMAIN xs}
                                        ELSE {VariableOf(net, xs[1])}]

\* NetworkLevelReasoner::generateQuery, of layers that are Generatable: a sigmoid is a
\* nonlinear constraint of the query, the others are piecewise linear.
GenerateQuery(net, bounds) ==
  [variables |-> {VariableOf(net, n) : n \in NeuronsOf(net)},
   equations |-> {EquationFor(net, n) : n \in {m \in NeuronsOf(net) : net[m[1]].type = "weighted sum"}},
   constraints |-> {ConstraintFor(net, n) : n \in {m \in NeuronsOf(net) : net[m[1]].type \notin {"weighted sum", "input"}}},
   inputs |-> {VariableOf(net, n) : n \in {m \in NeuronsOf(net) : m[1] = 1}},
   outputs |-> {VariableOf(net, n) : n \in {m \in NeuronsOf(net) : m[1] = Len(net)}},
   box |-> [v \in {VariableOf(net, n) : n \in NeuronsOf(net)} |->
              LET n == CHOOSE m \in NeuronsOf(net) : VariableOf(net, m) = v IN bounds[n[1]][n[2]]]]

\* concretizeInputAssignment: the network's values supersede those of the tableau.
ConcretizeInputAssignment(net, assignment) ==
  LET point == [j \in Neurons(net[1]) |->
                  IF j \in DOMAIN net[1].var THEN assignment[net[1].var[j]] ELSE net[1].gone[j]]
      value == Evaluate(net, point)
      named == {n \in NeuronsOf(net) : HasVariable(net, n)}
  IN  [v \in {VariableOf(net, n) : n \in named} |->
         LET n == CHOOSE m \in named : VariableOf(net, m) = v IN value[n[1]][n[2]]] @@ assignment

\* initializePreviousBiasMap: the ReLUs of the layers in order, each with the bias of the
\* neuron of its own index in the first source layer, whichever neuron it reads.
ReluLayers(net) == SelectSeq([l \in 1..Len(net) |-> l], LAMBDA l : net[l].type = "relu")
PreviousBiases(net) ==
  FoldLeft(LAMBDA s, l : s \o [j \in 1..net[l].size |->
                                 net[CHOOSE k \in SourceLayers(net[l]) : \A m \in SourceLayers(net[l]) : k <= m].bias[j]],
           <<>>, ReluLayers(net))

----------------------------------------------------------------------------
\* An assignment solves a query but for its bounds.
Solves(query, value) ==
  /\ \A e \in query.equations : RatSum([v \in DOMAIN e.addends |-> e.addends[v] ** value[v]]) = e.scalar
  /\ \A c \in query.constraints :
       value[c.out] = IF c.type = "max" THEN LargestOf({value[v] : v \in c.in})
                      ELSE Activation([type |-> c.type], <<value[CHOOSE v \in c.in : TRUE]>>)
==============================================================================
