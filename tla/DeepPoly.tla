------------------------------- MODULE DeepPoly -------------------------------
(****************************************************************************)
(* The DeepPoly analysis (nlr/DeepPolyAnalysis and the DeepPoly elements):  *)
(* every neuron of an activation layer is bounded by a linear function of   *)
(* the neurons of its source layer, and the neurons of a weighted sum are   *)
(* bounded by substituting those functions backwards, layer by layer, down  *)
(* to the input.  A weighted sum with several sources keeps the terms of    *)
(* all but the last one aside, as residuals, until the substitution of      *)
(* another term reaches their layer.                                        *)
(*                                                                          *)
(* An element is a record: lb and ub, its own concrete bounds (not those of *)
(* the layer), and low and up, for each neuron a function [c |-> the        *)
(* coefficients of source neurons <<layer, neuron>>, b |-> bias].           *)
(****************************************************************************)
EXTENDS Network

Fn(source, k, b) == [c |-> (source :> k), b |-> b]
Just(b) == [c |-> <<>>, b |-> b]
Form(lb, ub, low, up) == [lb |-> lb, ub |-> ub, low |-> low, up |-> up]
Same(source, k, lb, ub) == Form(lb, ub, Fn(source, k, Zero), Fn(source, k, Zero))

\* Mutant: the chord goes through the origin.
ReluFormThroughZero(x, l, u) ==
  LET coeff == u // (u -- l)
  IN  IF ~(l \prec Zero) THEN Same(x, One, l, u)
      ELSE IF ~(Zero \prec u) THEN Same(x, Zero, Zero, Zero)
      ELSE Form(Zero, u, Fn(x, Zero, Zero), Fn(x, coeff, Zero))

ReluForm(x, l, u) ==
  LET coeff == u // (u -- l)
      steep == Neg(l) \prec u
  IN  IF ~(l \prec Zero) THEN Same(x, One, l, u)
      ELSE IF ~(Zero \prec u) THEN Same(x, Zero, Zero, Zero)
      ELSE Form(IF steep THEN l ELSE Zero, u,
                Fn(x, IF steep THEN One ELSE Zero, Zero), Fn(x, coeff, Neg(l) ** coeff))

AbsForm(x, l, u) ==
  IF ~(l \prec Zero) THEN Same(x, One, l, u)
  ELSE IF ~(Zero \prec u) THEN Same(x, Rat(-1), Neg(u), Neg(l))
  ELSE LET top == Larger(Neg(l), u) IN Form(Zero, top, Fn(x, Zero, Zero), Fn(x, Zero, top))

SignForm(x, l, u) ==
  LET Fixed(v) == Form(v, v, Fn(x, Zero, v), Fn(x, Zero, v))
  IN  IF ~(l \prec Zero) THEN Fixed(One)
      ELSE IF u \prec Zero THEN Fixed(Rat(-1))
      ELSE Form(Rat(-1), One, Fn(x, Rat(2) // u, Rat(-1)), Fn(x, Rat(-2) // l, One))

\* The slope is at most one; the lower bound is the input itself whenever u > l.
LeakyReluForm(x, l, u, slope) ==
  IF ~(l \prec Zero) THEN Same(x, One, l, u)
  ELSE IF ~(Zero \prec u) THEN Same(x, slope, slope ** l, slope ** u)
  ELSE LET width == u -- l
           up == Fn(x, (u -- (slope ** l)) // width, (((slope -- One) ** u) ** l) // width)
       IN  IF l \prec u THEN Form(l, u, Fn(x, One, Zero), up)
                        ELSE Form(slope ** l, u, Fn(x, slope, Zero), up)

RoundForm(x, l, u) ==
  LET low  == Round(l)
      high == Round(u)
  IN  IF low = high THEN Form(low, high, Fn(x, Zero, low), Fn(x, Zero, high))
      ELSE Form(low, high, Fn(x, One, Neg(Half)), Fn(x, One, Half))

SigmoidForm(x, l, u) ==
  LET low   == Sigmoid(l)
      high  == Sigmoid(u)
      chord == (high -- low) // (u -- l)
      flat  == Smaller(SigmoidDerivative(l), SigmoidDerivative(u))
      Through(slope, a, b) == Fn(x, slope, b -- (slope ** a))
  IN  IF l = u THEN Form(low, high, Fn(x, Zero, low), Fn(x, Zero, high))
      ELSE Form(low, high, Through(IF Zero \prec l THEN chord ELSE flat, l, low),
                           Through(IF Zero \prec u THEN flat ELSE chord, u, high))

\* ins: the intervals of the inputs xs.  That the phase is fixed is never recorded
\* (_phaseFixed stays empty), so the upper function is the constant in both phases.
MaxForm(xs, ins) ==
  LET b == MaxBounds(ins) IN Form(b.lb, b.ub, Fn(xs[LargestLower(ins)], One, Zero), Just(b.ub))

\* out >= lb_y * x + lb_x * y - lb_x * lb_y, out <= ub_y * x + lb_x * y - lb_x * ub_y;
\* the bounds are met with those of the layer.
BilinearForm(xs, ins, own) ==
  LET b == BilinearBounds(ins)
      F(slope) == [c |-> IF xs[1] = xs[2] THEN (xs[1] :> (slope ++ ins[1].lb))
                                          ELSE (xs[1] :> slope) @@ (xs[2] :> ins[1].lb),
                   b |-> Neg(ins[1].lb ** slope)]
  IN  Form(Larger(b.lb, own.lb), Smaller(b.ub, own.ub), F(ins[2].lb), F(ins[2].ub))

\* Execution of the element of an activation layer, for neuron j.
ActivationForm(net, bounds, elements, l, j) ==
  LET xs == net[l].inputs[j]
      ins == [k \in DOMAIN xs |-> LET e == elements[xs[k][1]][xs[k][2]] IN [lb |-> e.lb, ub |-> e.ub]]
      low == ins[1].lb
      high == ins[1].ub
  IN  CASE net[l].type = "relu"       -> ReluForm(xs[1], low, high)
        [] net[l].type = "abs"        -> AbsForm(xs[1], low, high)
        [] net[l].type = "sign"       -> SignForm(xs[1], low, high)
        [] net[l].type = "leaky relu" -> LeakyReluForm(xs[1], low, high, net[l].alpha)
        [] net[l].type = "round"      -> RoundForm(xs[1], low, high)
        [] net[l].type = "sigmoid"    -> SigmoidForm(xs[1], low, high)
        [] net[l].type = "max"        -> MaxForm(xs, ins)
        [] net[l].type = "bilinear"   -> BilinearForm(xs, ins, BoundsOf(net, bounds, l, j))

\* The row of a weighted sum as a function of all its sources.
SumFn(layer, j) ==
  [c |-> [n \in UNION {{<<l, i>> : i \in DOMAIN layer.weight[l]} : l \in DOMAIN layer.weight} |->
            layer.weight[n[1]][n[2]][j]],
   b |-> layer.bias[j]]

----------------------------------------------------------------------------
(* Back substitution for one neuron.  The state: low and up, functions      *)
(* [c, b] over the neurons of the current layer and of the residual layers; *)
(* at, the current layer; rest, the residual layers; lb and ub so far.      *)

Coefficient(f, n) == IF n \in DOMAIN f.c THEN f.c[n] ELSE Zero

\* concretizeSymbolicBound: the value of the two functions over the layers' bounds.
Concrete(net, bounds, f, lower) ==
  f.b ++ RatSum([n \in DOMAIN f.c |->
                   LET b == BoundsOf(net, bounds, n[1], n[2])
                   IN  f.c[n] ** (IF (Zero \preceq f.c[n]) = lower THEN b.lb ELSE b.ub)])

Improved(net, bounds, s) ==
  LET new == Tightened([lb |-> s.lb, ub |-> s.ub],
                       [lb |-> Concrete(net, bounds, s.low, TRUE), ub |-> Concrete(net, bounds, s.up, FALSE)])
  IN  [s EXCEPT !.lb = new.lb, !.ub = new.ub]

\* symbolicBoundInTermsOfPredecessor: every neuron of layer l is replaced by its lower
\* or its upper function, as the sign of its coefficient asks.
Substituted(f, l, low, up, lower) ==
  LET here == {n \in DOMAIN f.c : n[1] = l}
      kept == DOMAIN f.c \ here
      Chosen(n) == IF (Zero \preceq f.c[n]) = lower THEN low[n[2]] ELSE up[n[2]]
      new == UNION {DOMAIN Chosen(n).c : n \in here}
  IN  [c |-> [m \in kept \cup new |->
                Coefficient([c |-> [n \in kept |-> f.c[n]]], m)
                  ++ RatSum([n \in here |-> f.c[n] ** Coefficient(Chosen(n), m)])],
       b |-> f.b ++ RatSum([n \in here |-> f.c[n] ** Chosen(n).b])]

LastOf(S) == CHOOSE x \in S : \A y \in S : y <= x
FirstOf(S) == CHOOSE x \in S : \A y \in S : x <= y

\* One iteration: the current layer is replaced by its last source, the other sources
\* become residuals; at a layer without sources the first residual layer takes its turn.
SubstitutionStep(net, bounds, elements, s) ==
  LET from == SourceLayers(net[s.at])
      Exact == net[s.at].type = "weighted sum"
      low == [i \in 1..net[s.at].size |-> IF Exact THEN SumFn(net[s.at], i) ELSE elements[s.at][i].low]
      up  == [i \in 1..net[s.at].size |-> IF Exact THEN SumFn(net[s.at], i) ELSE elements[s.at][i].up]
  IN  IF from /= {}
        THEN Improved(net, bounds,
               [s EXCEPT !.low = Substituted(s.low, s.at, low, up, TRUE),
                         !.up = Substituted(s.up, s.at, low, up, FALSE),
                         !.at = LastOf(from),
                         !.rest = (@ \cup from) \ {LastOf(from)}])
        ELSE [s EXCEPT !.at = FirstOf(s.rest), !.rest = (@ \cup {s.at}) \ {FirstOf(s.rest)}]

RECURSIVE BackSubstitution(_, _, _, _)
BackSubstitution(net, bounds, elements, s) ==
  IF SourceLayers(net[s.at]) = {} /\ s.rest = {} THEN s
  ELSE BackSubstitution(net, bounds, elements, SubstitutionStep(net, bounds, elements, s))

\* computeBoundWithBackSubstitution, for neuron j of the weighted sum l.
SumForm(net, bounds, elements, l, j) ==
  LET own  == BoundsOf(net, bounds, l, j)
      from == SourceLayers(net[l])
      Ends(s) == [lb |-> s.lb, ub |-> s.ub]
  IN  Ends(BackSubstitution(net, bounds, elements,
                Improved(net, bounds,
                  [low |-> SumFn(net[l], j), up |-> SumFn(net[l], j), at |-> LastOf(from),
                   rest |-> from \ {LastOf(from)}, lb |-> own.lb, ub |-> own.ub])))

\* DeepPolyElement::execute of layer l, for neuron j.
Element(net, bounds, elements, l, j) ==
  IF net[l].type = "input" THEN BoundsOf(net, bounds, l, j)
  ELSE IF net[l].type = "weighted sum" THEN SumForm(net, bounds, elements, l, j)
  ELSE ActivationForm(net, bounds, elements, l, j)

\* DeepPolyAnalysis::run: the bounds and the elements it leaves.
AfterElements(net, state, l, element) ==
  [elements |-> Append(state.elements, element),
   bounds |-> [state.bounds EXCEPT ![l] = [j \in DOMAIN @ |->
                 IF j \in DOMAIN net[l].gone THEN @[j]
                 ELSE Tightened(@[j], [lb |-> element[j].lb, ub |-> element[j].ub])]]]
DeepPolyPropagation(net, bounds) ==
  FoldLeftDomain(LAMBDA state, l :
    AfterElements(net, state, l, [j \in Neurons(net[l]) |-> Element(net, state.bounds, state.elements, l, j)]),
    [bounds |-> bounds, elements |-> <<>>], net)
==============================================================================
