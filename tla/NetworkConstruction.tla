-------------------------- MODULE NetworkConstruction --------------------------
(****************************************************************************)
(* How a query becomes a network (engine/Query,                             *)
(* constructNetworkLevelReasoner): layers are added as long as some kind of *)
(* layer can be built from what the layers so far compute, weighted sums    *)
(* first; then consecutive weighted sums are merged and the equations that  *)
(* were handled are written anew.                                           *)
(*                                                                          *)
(* A query is a record: eqs, a sequence of [type, addends (variable ->      *)
(* coefficient), scalar]; cons, a sequence of [type, in (the variables      *)
(* read), out (the variables written: several for softmax only), slope];    *)
(* lb and ub, the bounds that were set; inputs, in order; sameLayer, set    *)
(* when bounds are tightened by DeepPoly.                                   *)
(****************************************************************************)
EXTENDS Network

NoNeuronYet == [size |-> 0, weight |-> <<>>, bias |-> <<>>, inputs |-> <<>>, alpha |-> Zero, gone |-> <<>>, var |-> <<>>]

BoundOf(q, v) == [lb |-> IF v \in DOMAIN q.lb THEN q.lb[v] ELSE Neg(Infinity),
                  ub |-> IF v \in DOMAIN q.ub THEN q.ub[v] ELSE Infinity]

(* The state of the construction: the layers with their bounds, the layer   *)
(* that computes each variable, what was handled, and the piecewise-linear  *)
(* constraints in the order they were.                                      *)

\* The input layer.
InputState(q) ==
  [net |-> <<[type |-> "input", size |-> Len(q.inputs), var |-> q.inputs] @@ NoNeuronYet>>,
   bounds |-> <<[j \in DOMAIN q.inputs |-> BoundOf(q, q.inputs[j])]>>,
   layerOf |-> [v \in {q.inputs[j] : j \in DOMAIN q.inputs} |-> 1],
   eqs |-> {}, cons |-> {}, order |-> <<>>]

\* The neuron of a variable; of two with the same one the later.
NeuronOf(s, v) ==
  LET here == {j \in 1..s.net[s.layerOf[v]].size : s.net[s.layerOf[v]].var[j] = v}
  IN  <<s.layerOf[v], CHOOSE j \in here : \A i \in here : i <= j>>

\* A layer whose neurons have these variables is added.
WithLayer(q, s, layer, vars) ==
  [s EXCEPT !.net = Append(@, [size |-> Len(vars), var |-> vars] @@ layer @@ NoNeuronYet),
            !.bounds = Append(@, [j \in DOMAIN vars |-> BoundOf(q, vars[j])]),
            !.layerOf = [v \in {vars[j] : j \in DOMAIN vars} |-> Len(s.net) + 1] @@ @]

----------------------------------------------------------------------------
(* Weighted sums *)

UnknownOf(s, eq) == {v \in DOMAIN eq.addends : v \notin DOMAIN s.layerOf}

\* The equations with one variable that no layer computes yet.
SumEquations(q, s) ==
  SelectSeq([e \in DOMAIN q.eqs |-> e],
            LAMBDA e : e \notin s.eqs /\ q.eqs[e].type = "EQ" /\ Cardinality(UnknownOf(s, q.eqs[e])) = 1)

\* The equation is multiplied so that the new variable has the coefficient -1.
Factor(eq, new) == Rat(-1) // eq.addends[new]

\* constructWeighedSumLayer.
WeightedSumLayer(q, s) ==
  LET es     == SumEquations(q, s)
      new    == [j \in DOMAIN es |-> CHOOSE v \in UnknownOf(s, q.eqs[es[j]]) : TRUE]
      factor == [j \in DOMAIN es |-> Factor(q.eqs[es[j]], new[j])]
      read   == [j \in DOMAIN es |-> DOMAIN q.eqs[es[j]].addends \ {new[j]}]
      W(l, i, j) == LET v == s.net[l].var[i]
                    IN  IF v \in read[j] /\ NeuronOf(s, v) = <<l, i>>
                          THEN factor[j] ** q.eqs[es[j]].addends[v] ELSE Zero
      layer  == [type |-> "weighted sum",
                 bias |-> [j \in DOMAIN es |-> factor[j] ** Neg(q.eqs[es[j]].scalar)],
                 weight |-> [l \in {s.layerOf[v] : v \in UNION {read[j] : j \in DOMAIN es}} |->
                               [i \in 1..s.net[l].size |-> [j \in DOMAIN es |-> W(l, i, j)]]]]
  IN  IF es = <<>> THEN s
      ELSE [WithLayer(q, s, layer, new) EXCEPT !.eqs = @ \cup {es[j] : j \in DOMAIN es}]

----------------------------------------------------------------------------
(* Activations.  The constraints of a type are looked at in order; those    *)
(* accepted before matter for the source layer and for the slope.           *)

LayersRead(s, c) == {s.layerOf[v] : v \in {c.in[k] : k \in DOMAIN c.in}}
Computable(s, c) == \A k \in DOMAIN c.in : c.in[k] \in DOMAIN s.layerOf
Pending(q, s, c, type) ==
  /\ c \notin s.cons /\ q.cons[c].type = type
  /\ Computable(s, q.cons[c])
  /\ \A k \in DOMAIN q.cons[c].out : q.cons[c].out[k] \notin DOMAIN s.layerOf

\* The layer of the first input of the first constraint accepted.
SourceOf(q, s, accepted) == s.layerOf[q.cons[accepted[1]].in[1]]

\* All inputs are read from the layer the constraints accepted before read: the first
\* constraint itself is not compared with anything.
SameSource(q, s, accepted, c) ==
  q.sameLayer /\ accepted /= <<>> => LayersRead(s, q.cons[c]) = {SourceOf(q, s, accepted)}

SameSlope(q, accepted, c) == accepted /= <<>> => q.cons[c].slope = q.cons[accepted[1]].slope

\* Those of the type that are accepted, in order.  A leaky ReLU layer has one slope; the
\* source layers of bilinear constraints are never compared.
Accepted(q, s, type) ==
  LET Fits(acc, c) == /\ type /= "bilinear" => SameSource(q, s, acc, c)
                      /\ type = "leaky relu" => SameSlope(q, acc, c)
  IN  FoldLeft(LAMBDA acc, c : IF Pending(q, s, c, type) /\ Fits(acc, c) THEN Append(acc, c) ELSE acc,
               <<>>, [c \in DOMAIN q.cons |-> c])

\* The layer of the accepted constraints: a neuron for each, reading its inputs.
ActivationLayer(q, s, type, accepted, alpha) ==
  IF accepted = <<>> THEN s
  ELSE [WithLayer(q, s, [type |-> type, alpha |-> alpha,
                         inputs |-> [j \in DOMAIN accepted |->
                                       [k \in DOMAIN q.cons[accepted[j]].in |-> NeuronOf(s, q.cons[accepted[j]].in[k])]]],
                  [j \in DOMAIN accepted |-> q.cons[accepted[j]].out[1]])
         EXCEPT !.cons = @ \cup {accepted[j] : j \in DOMAIN accepted},
                !.order = IF type \in {"relu", "leaky relu", "abs", "sign", "max"} THEN @ \o accepted ELSE @]

OneInputLayer(q, s, type) ==
  ActivationLayer(q, s, type, Accepted(q, s, type), Zero)

ReluLayer(q, s) == OneInputLayer(q, s, "relu")
RoundLayer(q, s) == OneInputLayer(q, s, "round")
AbsoluteValueLayer(q, s) == OneInputLayer(q, s, "abs")
SignLayer(q, s) == OneInputLayer(q, s, "sign")
SigmoidLayer(q, s) == OneInputLayer(q, s, "sigmoid")

LeakyReluLayer(q, s) ==
  LET accepted == Accepted(q, s, "leaky relu")
  IN  ActivationLayer(q, s, "leaky relu", accepted, IF accepted = <<>> THEN Zero ELSE q.cons[accepted[1]].slope)

MaxLayer(q, s) ==
  ActivationLayer(q, s, "max", Accepted(q, s, "max"), Zero)

BilinearLayer(q, s) ==
  ActivationLayer(q, s, "bilinear", Accepted(q, s, "bilinear"), Zero)

\* The outputs of a softmax in the order of the neurons its inputs are, in the layer of
\* the first input, which has to hold them all.
SoftmaxOutputs(q, s, c) ==
  LET con  == q.cons[c]
      rank == [k \in DOMAIN con.in |-> NeuronOf(s, con.in[k])[2]]
      byNeuron == SortSeq([k \in DOMAIN con.in |-> k], LAMBDA a, b : rank[a] < rank[b])
  IN  [k \in DOMAIN byNeuron |-> con.out[byNeuron[k]]]

\* A neuron for each output; each reads all inputs of its constraint.
SoftmaxLayer(q, s) ==
  LET accepted == Accepted(q, s, "softmax")
      each(c)  == [k \in DOMAIN q.cons[c].in |-> NeuronOf(s, q.cons[c].in[k])]
      outputs  == FlattenSeq([j \in DOMAIN accepted |-> SoftmaxOutputs(q, s, accepted[j])])
      inputs   == FlattenSeq([j \in DOMAIN accepted |-> [k \in DOMAIN q.cons[accepted[j]].out |-> each(accepted[j])]])
  IN  IF accepted = <<>> THEN s
      ELSE [WithLayer(q, s, [type |-> "softmax", inputs |-> inputs], outputs)
             EXCEPT !.cons = @ \cup {accepted[j] : j \in DOMAIN accepted}]

----------------------------------------------------------------------------
\* The kinds of layer in the order they are tried; the first that can be built is.
Tried(q, s) ==
  <<WeightedSumLayer(q, s), ReluLayer(q, s), RoundLayer(q, s), LeakyReluLayer(q, s), AbsoluteValueLayer(q, s),
    SignLayer(q, s), SigmoidLayer(q, s), MaxLayer(q, s), BilinearLayer(q, s), SoftmaxLayer(q, s)>>

FirstBuilt(s, tried) ==
  LET built == {k \in DOMAIN tried : tried[k] /= s}
  IN  IF built = {} THEN s ELSE tried[CHOOSE k \in built : \A i \in built : k <= i]
NextLayer(q, s) == FirstBuilt(s, Tried(q, s))

RECURSIVE Layered(_, _, _)
Layered(q, s, next) == IF next = s THEN s ELSE Layered(q, next, NextLayer(q, next))

ConVariables(c) == {c.in[k] : k \in DOMAIN c.in} \cup {c.out[k] : k \in DOMAIN c.out}

\* Mutant: the variables of unhandled equations are not reported.
ReportConstraints(q, s) ==
  UNION {ConVariables(q.cons[c]) : c \in DOMAIN q.cons \ s.cons}

\* The variables of the equations and constraints the network does not hold.
VarsInUnhandledConstraints(q, s) ==
  UNION {DOMAIN q.eqs[e].addends : e \in DOMAIN q.eqs \ s.eqs}
    \cup UNION {ConVariables(q.cons[c]) : c \in DOMAIN q.cons \ s.cons}

UnhandledEquations(q, s) ==
  LET left == SelectSeq([e \in DOMAIN q.eqs |-> e], LAMBDA e : e \notin s.eqs)
  IN  [k \in DOMAIN left |-> q.eqs[left[k]]]

\* constructNetworkLevelReasoner: fails without an input variable or a second layer.
Built(q, s) ==
  [ok |-> Len(s.net) > 1, state |-> s,
   unhandled |-> UnhandledEquations(q, s), variables |-> VarsInUnhandledConstraints(q, s)]
ConstructNetworkLevelReasoner(q) ==
  LET s == InputState(q)
  IN  Built(q, IF q.inputs = <<>> THEN s ELSE Layered(q, s, NextLayer(q, s)))

\* encodeAffineLayers: the equations of all weighted sums of a network.
EncodeAffineLayers(net) ==
  FlattenSeq([l \in 1..Len(net) |->
                IF net[l].type = "weighted sum"
                  THEN [j \in Neurons(net[l]) |-> [type |-> "EQ"] @@ EquationFor(net, <<l, j>>)] ELSE <<>>])

\* mergeConsecutiveWeightedSumLayers: the equations are rewritten if something was merged.
MergeConsecutiveWeightedSumLayers(q, constructed) ==
  LET finite == {v \in DOMAIN q.lb : q.lb[v] /= Neg(Infinity)} \cup {v \in DOMAIN q.ub : q.ub[v] /= Infinity}
      merged == MergeConsecutiveWSLayers(constructed.state.net, finite, constructed.variables)
      net    == [k \in 1..Cardinality(DOMAIN merged.net) |-> merged.net[k]]
  IN  [net |-> net, removed |-> merged.removed,
       query |-> IF DOMAIN merged.removed = {} THEN q
                 ELSE [q EXCEPT !.eqs = constructed.unhandled \o EncodeAffineLayers(net)]]
==============================================================================
