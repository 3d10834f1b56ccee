----------------------------- MODULE LPRelaxation -----------------------------
(****************************************************************************)
(* The linear relaxation of a network that is handed to the LP solver       *)
(* (nlr/LPFormulator) and the binary variables that make it exact for       *)
(* ReLUs (nlr/MILPFormulator).  A model is a record: box, the interval of   *)
(* every neuron that has a variable, and rows, the linear constraints       *)
(* [c |-> coefficients of neurons, rel, b].  The softmax relaxation is left   *)
(* out, as that layer is.                                                   *)
(****************************************************************************)
EXTENDS Network

Row(c, rel, b) == [c |-> c, rel |-> rel, b |-> b]
Minus(y, k, x) == (y :> One) @@ (x :> Neg(k))

\* y - k * x rel b
Line(y, k, x, rel, b) == {Row(Minus(y, k, x), rel, b)}
Level(y, rel, b) == {Row(y :> One, rel, b)}
Fixed(v) == [box |-> [lb |-> v, ub |-> v], rows |-> {}]
Within1(lb, ub, rows) == [box |-> [lb |-> lb, ub |-> ub], rows |-> rows]

\* The triangle between the activation, the input and the chord.
ReluRelaxation(y, x, l, u, own) ==
  Within1(Zero, own.ub,
    IF ~(l \prec Zero) THEN Line(y, One, x, "=", Zero)
    ELSE IF ~(Zero \prec u) THEN Level(y, "=", Zero)
    ELSE Level(y, ">=", Zero) \cup Line(y, One, x, ">=", Zero)
           \cup Line(y, u // (u -- l), x, "<=", (Neg(u) ** l) // (u -- l)))

LeakyReluRelaxation(y, x, l, u, own, slope) ==
  Within1(own.lb, own.ub,
    IF ~(l \prec Zero) THEN Line(y, One, x, "=", Zero)
    ELSE IF ~(Zero \prec u) THEN Line(y, slope, x, "=", Zero)
    ELSE Line(y, slope, x, ">=", Zero) \cup Line(y, One, x, ">=", Zero)
           \cup Line(y, (u -- (slope ** l)) // (u -- l), x, "<=", (((slope -- One) ** u) ** l) // (u -- l)))

RoundRelaxation(y, x, l, u, own) ==
  LET lb == Larger(Round(l), own.lb)
      ub == Smaller(Round(u), own.ub)
  IN  Within1(lb, ub, IF l = u THEN Level(y, "=", ub)
                      ELSE Line(y, One, x, "<=", Half) \cup Line(y, One, x, ">=", Neg(Half)))

AbsRelaxation(y, x, l, u, own) ==
  LET Met(lb, ub) == [lb |-> Larger(lb, own.lb), ub |-> Smaller(ub, own.ub)]
      top == Met(Zero, Larger(Neg(l), u))
  IN  IF ~(l \prec Zero) THEN [box |-> Met(l, u), rows |-> Line(y, One, x, "=", Zero)]
      ELSE IF ~(Zero \prec u) THEN [box |-> Met(Neg(u), Neg(l)), rows |-> Line(y, Rat(-1), x, "=", Zero)]
      ELSE [box |-> top, rows |-> Level(y, ">=", Zero) \cup Level(y, "<=", top.ub)]

\* The parallelogram through (l, -1), (0, 1) and (0, -1), (u, 1).
SignRelaxation(y, x, l, u) ==
  IF ~(l \prec Zero) THEN Fixed(One)
  ELSE IF u \prec Zero THEN Fixed(Rat(-1))
  ELSE Within1(Rat(-1), One, Line(y, Rat(-2) // l, x, "<=", One) \cup Line(y, Rat(2) // u, x, ">=", Rat(-1)))

SigmoidRelaxation(y, x, l, u, own) ==
  LET lb    == Larger(Sigmoid(l), own.lb)
      ub    == Smaller(Sigmoid(u), own.ub)
      chord == (ub -- lb) // (u -- l)
      flat  == Smaller(SigmoidDerivative(l), SigmoidDerivative(u))
      Through(slope, rel, a) == Line(y, slope, x, rel, Sigmoid(a) -- (slope ** a))
  IN  Within1(lb, ub, IF l = u THEN Level(y, "=", ub)
                      ELSE Through(IF Zero \prec l THEN chord ELSE flat, ">=", l)
                             \cup Through(IF Zero \prec u THEN flat ELSE chord, "<=", u))

\* gone: the values of the eliminated inputs; open: the bounds of the others.
MaxRelaxation(y, open, gone, own) ==
  LET top == IF DOMAIN open = {} THEN Neg(Infinity) ELSE LargestOf({open[x].ub : x \in DOMAIN open})
      best == LargestOf({gone[x] : x \in DOMAIN gone})
  IN  Within1(own.lb, own.ub,
        UNION {Line(y, One, x, ">=", Zero) : x \in DOMAIN open}
          \cup (IF gone /= <<>> /\ top \prec best THEN Level(y, "=", best)
                ELSE (IF gone /= <<>> THEN Level(y, ">=", best) ELSE {}) \cup Level(y, "<=", top)))

\* The McCormick planes through the lower bound of the first input.
BilinearRelaxation(y, xs, ins) ==
  LET corner == BilinearBounds(ins)
      Plane(slope, rel) == {Row(Minus(y, slope, xs[1]) @@ (xs[2] :> Neg(ins[1].lb)), rel, Neg(ins[1].lb ** slope))}
  IN  Within1(corner.lb, corner.ub, Plane(ins[2].lb, ">=") \cup Plane(ins[2].ub, "<="))

SumRelaxation(net, y, layer, j, own) ==
  LET reads == UNION {{<<l, i>> : i \in DOMAIN layer.weight[l]} : l \in DOMAIN layer.weight}
      dead  == {n \in reads : n[2] \in DOMAIN net[n[1]].gone}
      W(n)  == layer.weight[n[1]][n[2]][j]
  IN  Within1(own.lb, own.ub,
        {Row((y :> Rat(-1)) @@ [n \in reads \ dead |-> W(n)], "=",
             Neg(layer.bias[j]) -- RatSum([n \in dead |-> W(n) ** net[n[1]].gone[n[2]]]))})

\* The value an activation gets when the neuron it reads is eliminated: a leaky ReLU
\* is treated as a ReLU.
EliminatedSource(layer, v) ==
  IF layer.type = "leaky relu" THEN Larger(v, Zero) ELSE Activation(layer, <<v>>)

\* LPFormulator::addLayerToModel, for neuron j of layer l.
Relaxed(net, bounds, l, j) ==
  LET layer == net[l]
      y     == <<l, j>>
      own   == BoundsOf(net, bounds, l, j)
      xs    == layer.inputs[j]
      ins   == [k \in DOMAIN xs |-> BoundsOf(net, bounds, xs[k][1], xs[k][2])]
      Dead(x) == x[2] \in DOMAIN net[x[1]].gone
      dead  == {k \in DOMAIN xs : Dead(xs[k])}
      Value(x) == net[x[1]].gone[x[2]]
  IN  CASE layer.type = "input" -> Within1(own.lb, own.ub, {})
        [] layer.type = "weighted sum" -> SumRelaxation(net, y, layer, j, own)
        [] layer.type = "max" -> MaxRelaxation(y, [x \in {xs[k] : k \in DOMAIN xs \ dead} |-> BoundsOf(net, bounds, x[1], x[2])],
                                                  [x \in {xs[k] : k \in dead} |-> Value(x)], own)
        [] layer.type = "bilinear" -> IF dead = DOMAIN xs THEN Fixed(Value(xs[1]) ** Value(xs[2]))
                                                          ELSE BilinearRelaxation(y, xs, ins)
        [] layer.type \in {"relu", "leaky relu", "round", "abs", "sign", "sigmoid"} ->
             IF dead /= {} THEN Fixed(EliminatedSource(layer, Value(xs[1])))
             ELSE CASE layer.type = "relu"       -> ReluRelaxation(y, xs[1], ins[1].lb, ins[1].ub, own)
                    [] layer.type = "leaky relu" -> LeakyReluRelaxation(y, xs[1], ins[1].lb, ins[1].ub, own, layer.alpha)
                    [] layer.type = "round"      -> RoundRelaxation(y, xs[1], ins[1].lb, ins[1].ub, own)
                    [] layer.type = "abs"        -> AbsRelaxation(y, xs[1], ins[1].lb, ins[1].ub, own)
                    [] layer.type = "sigmoid"    -> SigmoidRelaxation(y, xs[1], ins[1].lb, ins[1].ub, own)
                    [] layer.type = "sign"       -> SignRelaxation(y, xs[1], ins[1].lb, ins[1].ub)

LiveNeurons(net, layers) == {n \in NeuronsOf(net) : n[1] \in layers /\ n[2] \notin DOMAIN net[n[1]].gone}

\* The neurons of the source layers get their variables first when createVariables is set.
ReadBy(net, layers) ==
  LiveNeurons(net, UNION {SourceLayers(net[l]) : l \in layers})

Collected(net, bounds, layers, relaxed) ==
  [box |-> [n \in DOMAIN relaxed \cup ReadBy(net, layers) |->
              IF n \in DOMAIN relaxed THEN relaxed[n].box ELSE BoundsOf(net, bounds, n[1], n[2])],
   rows |-> UNION {relaxed[n].rows : n \in DOMAIN relaxed}]
RelaxationOf(net, bounds, layers) ==
  Collected(net, bounds, layers, [n \in LiveNeurons(net, layers) |-> Relaxed(net, bounds, n[1], n[2])])

\* createLPRelaxation: the layers up to the last one.
CreateLPRelaxation(net, bounds, last) == RelaxationOf(net, bounds, 1..last)

\* createLPRelaxationAfter: the layers at most BACKWARD_BOUND_PROPAGATION_DEPTH steps
\* after the first one, by the shortest path the queue discovers.
Depth == 3
SuccessorLayers(net, l) == {k \in DOMAIN net : l \in SourceLayers(net[k])}

RECURSIVE LayersAfter(_, _, _)
LayersAfter(net, queue, depth) ==
  IF queue = {} THEN {}
  ELSE LET l == CHOOSE k \in queue : \A m \in queue : k <= m
           new == {k \in SuccessorLayers(net, l) : k \notin DOMAIN depth}
       IN  IF depth[l] > Depth THEN LayersAfter(net, queue \ {l}, depth)
           ELSE {l} \cup LayersAfter(net, (queue \ {l}) \cup new, [k \in new |-> depth[l] + 1] @@ depth)

CreateLPRelaxationAfter(net, bounds, first) ==
  RelaxationOf(net, bounds, LayersAfter(net, {first}, first :> 0))

----------------------------------------------------------------------------
(* The binary variable of an open ReLU: y <= x - l (1 - a) and y <= u a.    *)

BinaryRows(y, x, l, u, a) ==
  IF ~(l \prec Zero) \/ ~(Zero \prec u) THEN {}
  ELSE Line(y, One, x, "<=", IF a = 0 THEN Neg(l) ELSE Zero) \cup Level(y, "<=", IF a = 0 THEN Zero ELSE u)

\* addLayerToModel of the MILP encoding supports ReLU layers alone.
MILPSupported(net) == \A l \in DOMAIN net : net[l].type \in {"input", "weighted sum", "relu"}

BinaryRowsOf(net, bounds, n, a) ==
  LET x == net[n[1]].inputs[n[2]][1]
      in == BoundsOf(net, bounds, x[1], x[2])
  IN  BinaryRows(n, x, in.lb, in.ub, a)

----------------------------------------------------------------------------
\* A point satisfies a row, a model.
RowHolds(row, value) ==
  LET total == RatSum([n \in DOMAIN row.c |-> row.c[n] ** value[n[1]][n[2]]])
  IN  CASE row.rel = "="  -> total = row.b
        [] row.rel = "<=" -> total \preceq row.b
        [] row.rel = ">=" -> row.b \preceq total

Feasible(model, value) ==
  /\ \A n \in DOMAIN model.box : /\ model.box[n].lb \preceq value[n[1]][n[2]]
                                 /\ value[n[1]][n[2]] \preceq model.box[n].ub
  /\ \A row \in model.rows : RowHolds(row, value)

\* Every open ReLU has a value of its binary variable the point satisfies.
BinaryFeasible(net, bounds, value) ==
  \A n \in {m \in NeuronsOf(net) : net[m[1]].type = "relu"} :
    \E a \in {0, 1} : \A row \in BinaryRowsOf(net, bounds, n, a) : RowHolds(row, value)
==============================================================================
