---------------------------- MODULE SymbolicBounds ----------------------------
(****************************************************************************)
(* Symbolic bound propagation (Layer::computeSymbolicBounds): every neuron  *)
(* is bounded from below and above by a linear function of the inputs, and  *)
(* each of the two functions by an interval over the input box:             *)
(*   lo, up   the functions [c |-> coefficient of each input, b |-> bias]   *)
(*   ll, ul   the interval of lo (symbolicLbOfLb, symbolicUbOfLb)           *)
(*   lu, uu   the interval of up (symbolicLbOfUb, symbolicUbOfUb)           *)
(* A pass starts from the bounds of the neurons and tightens them.          *)
(****************************************************************************)
EXTENDS Network

ConstantFn(n, v) == [c |-> [i \in 1..n |-> Zero], b |-> v]
Scaled(f, k) == [c |-> [i \in DOMAIN f.c |-> f.c[i] ** k], b |-> f.b ** k]
Shifted(f, v) == [f EXCEPT !.b = @ ++ v]
Plus(f, g) == [c |-> [i \in DOMAIN f.c |-> f.c[i] ++ g.c[i]], b |-> f.b ++ g.b]
ValueAt(f, x) == f.b ++ RatSum([i \in DOMAIN f.c |-> f.c[i] ** x[i]])

\* The least and the greatest value of a function over the input box.
LeastOf(f, box) ==
  f.b ++ RatSum([i \in DOMAIN f.c |-> f.c[i] ** (IF Zero \preceq f.c[i] THEN box[i].lb ELSE box[i].ub)])
GreatestOf(f, box) ==
  f.b ++ RatSum([i \in DOMAIN f.c |-> f.c[i] ** (IF Zero \preceq f.c[i] THEN box[i].ub ELSE box[i].lb)])

Concretized(lo, up, box) ==
  [lo |-> lo, up |-> up, ll |-> LeastOf(lo, box), ul |-> GreatestOf(lo, box),
                         lu |-> LeastOf(up, box), uu |-> GreatestOf(up, box)]

\* Both functions are the same constant.
Constant(n, v) == [lo |-> ConstantFn(n, v), up |-> ConstantFn(n, v), ll |-> v, ul |-> v, lu |-> v, uu |-> v]

InputSymbolic(n, j, b) ==
  LET f == [c |-> [i \in 1..n |-> IF i = j THEN One ELSE Zero], b |-> Zero]
  IN  [lo |-> f, up |-> f, ll |-> b.lb, ul |-> b.ub, lu |-> b.lb, uu |-> b.ub]

----------------------------------------------------------------------------
(* One operator per activation: s is the symbolic bound of the input, in    *)
(* its interval, own the interval of the neuron itself, n the input size.   *)

\* The phase of a ReLU: its own bounds decide, unless those of its input do.
ReluPhase(own, in) ==
  IF ~(in.lb \prec Zero) THEN "active"
  ELSE IF ~(Zero \prec in.ub) THEN "inactive"
  ELSE IF Zero \prec own.lb THEN "active"
  ELSE IF own.ub = Zero THEN "inactive"
  ELSE "open"

\* The line through (least, 0) and (greatest, greatest), as a map of the function f.
ReluUpper(f, least, greatest) ==
  LET slope == greatest // (greatest -- least) IN Shifted(Scaled(f, slope), Neg(least ** slope))

ReluSymbolic(s, own, in, n) ==
  LET phase == ReluPhase(own, in)
      open  == [s EXCEPT !.up = IF s.lu \preceq Zero THEN ReluUpper(@, s.lu, s.uu) ELSE @,
                         !.lo = IF s.ul \preceq Zero THEN ConstantFn(n, Zero)
                                ELSE Scaled(@, s.ul // (s.ul -- s.ll)),
                         !.ll = Zero]
      chosen == IF phase = "open" THEN open ELSE IF phase = "active" THEN s ELSE Constant(n, Zero)
  IN  [chosen EXCEPT !.lu = Larger(@, Zero)]

SignPhase(own, in) ==
  IF ~(in.lb \prec Zero) THEN "positive"
  ELSE IF in.ub \prec Zero THEN "negative"
  ELSE IF ~(own.lb \prec Zero) THEN "positive"
  ELSE IF own.ub \prec Zero THEN "negative"
  ELSE "open"

\* Open: one side of a parallelogram, unless the function has one sign already.
SignSymbolic(s, own, in, n) ==
  LET phase == SignPhase(own, in)
      above == ~(s.lu \prec Zero)
      below == s.ul \prec Zero
  IN  IF phase /= "open" THEN Constant(n, IF phase = "positive" THEN One ELSE Rat(-1))
      ELSE [up |-> IF above THEN ConstantFn(n, One) ELSE Shifted(Scaled(s.up, Rat(-2) // s.ll), One),
            lo |-> IF below THEN ConstantFn(n, Rat(-1)) ELSE Shifted(Scaled(s.lo, Rat(2) // s.uu), Rat(-1)),
            uu |-> One, lu |-> IF above THEN One ELSE Rat(-1),
            ll |-> Rat(-1), ul |-> IF below THEN Rat(-1) ELSE One]

Negated(s) == [lo |-> Scaled(s.up, Rat(-1)), up |-> Scaled(s.lo, Rat(-1)),
               ll |-> Neg(s.uu), uu |-> Neg(s.ll), ul |-> Neg(s.lu), lu |-> Neg(s.ul)]

AbsSymbolic(s, in, n) ==
  LET top  == Larger(Neg(in.lb), in.ub)
      open == [lo |-> ConstantFn(n, Zero), up |-> ConstantFn(n, top), ll |-> Zero, ul |-> top, lu |-> Zero, uu |-> top]
      chosen == IF Zero \preceq in.lb THEN s ELSE IF in.ub \preceq Zero THEN Negated(s) ELSE open
  IN  [chosen EXCEPT !.ll = Larger(@, Zero)]

ScaledAll(s, k) == [lo |-> Scaled(s.lo, k), up |-> Scaled(s.up, k),
                    ll |-> s.ll ** k, ul |-> s.ul ** k, lu |-> s.lu ** k, uu |-> s.uu ** k]

\* The line through (l, alpha * l) and (u, u) above, the input itself below.
LeakyReluOpen(s, in, alpha, box) ==
  LET width == in.ub -- in.lb
  IN  Concretized(IF in.lb \prec in.ub THEN s.lo ELSE Scaled(s.lo, alpha),
                  Shifted(Scaled(s.up, (in.ub -- (alpha ** in.lb)) // width),
                          (((alpha -- One) ** in.ub) ** in.lb) // width),
                  box)

\* The slope is less than one (asserted); the interval is capped by that of the input.
LeakyReluSymbolic(s, own, in, alpha, box) ==
  LET phase  == ReluPhase(own, in)
      Capped(f) == [f EXCEPT !.uu = Smaller(@, in.ub), !.ll = Larger(@, alpha ** in.lb)]
  IN  Capped(IF phase = "open" THEN LeakyReluOpen(s, in, alpha, box)
             ELSE IF phase = "active" THEN s ELSE ScaledAll(s, alpha))

\* A fixed round keeps the coefficients it inherited, all but that of the first input:
\* the code clears entry j of the array, not the entries of neuron j.
RoundSymbolic(s, in) ==
  LET low   == Round(in.lb)
      high  == Round(in.ub)
      Cleared(f) == [c |-> [i \in DOMAIN f.c |-> IF i = 1 THEN Zero ELSE f.c[i]], b |-> f.b]
      fixed == low = high
  IN  [lo |-> IF fixed THEN [Cleared(s.lo) EXCEPT !.b = low] ELSE Shifted(s.lo, Neg(Half)),
       up |-> IF fixed THEN [Cleared(s.up) EXCEPT !.b = high] ELSE Shifted(s.up, Half),
       ll |-> low, ul |-> low, lu |-> high, uu |-> high]

\* The chord on the side that bulges away from it, elsewhere the flatter of the two end
\* tangents' slopes through the end; the chord's slope is taken from the neuron's own bounds.
SigmoidSymbolic(s, own, in, n, box) ==
  LET low    == Sigmoid(in.lb)
      high   == Sigmoid(in.ub)
      chord  == (own.ub -- own.lb) // (in.ub -- in.lb)
      flat   == Smaller(SigmoidDerivative(in.lb), SigmoidDerivative(in.ub))
      Through(f, slope, x, y) == Shifted(Scaled(f, slope), y -- (slope ** x))
      lines  == Concretized(Through(s.lo, IF Zero \prec in.lb THEN chord ELSE flat, in.lb, low),
                            Through(s.up, IF Zero \prec in.ub THEN flat ELSE chord, in.ub, high), box)
  IN  IF Round(in.lb) = Round(in.ub)
        THEN [lo |-> ConstantFn(n, low), up |-> ConstantFn(n, high), ll |-> low, ul |-> low, lu |-> high, uu |-> high]
        ELSE [lines EXCEPT !.ll = Larger(@, Rat(-1)), !.uu = Smaller(@, One)]

\* ins: the intervals of the inputs; ss: their symbolic bounds.
MaxSymbolic(ss, ins, n) ==
  LET k == LargestLower(ins)
      b == MaxBounds(ins)
  IN  [lo |-> ss[k].lo, up |-> IF FixedMax(ins) THEN ss[k].up ELSE ConstantFn(n, b.ub),
       ll |-> b.lb, ul |-> b.lb, lu |-> b.ub, uu |-> b.ub]

\* The product of a and b: out >= lb_b * a + lb_a * b - lb_a * lb_b and
\* out <= ub_b * a + lb_a * b - lb_a * ub_b.  When ub_b is negative its term goes to
\* the lower function; the biases of the inputs' functions are left out.
BilinearSymbolic(ss, ins, box) ==
  LET NoBias(f) == [f EXCEPT !.b = Zero]
      Low(k, w)  == Scaled(NoBias(IF Zero \preceq w THEN ss[k].lo ELSE ss[k].up), w)
      High(k, w) == Scaled(NoBias(IF Zero \preceq w THEN ss[k].up ELSE ss[k].lo), w)
      none == ConstantFn(Len(box), Zero)
      ubB  == ins[2].ub
      lo   == Plus(Plus(Low(1, ins[2].lb), Low(2, ins[1].lb)),
                   IF Zero \preceq ubB THEN none ELSE High(1, ubB))
      up   == Plus(IF Zero \preceq ubB THEN High(1, ubB) ELSE none, High(2, ins[1].lb))
  IN  Concretized(Shifted(lo, Neg(ins[1].lb ** ins[2].lb)), Shifted(up, Neg(ins[1].lb ** ubB)), box)

ConstantInputs(net, layer, j) ==
  \A k \in DOMAIN layer.inputs[j] : layer.inputs[j][k][2] \in DOMAIN net[layer.inputs[j][1][1]].gone

\* Both inputs eliminated: the intervals are left as allocated.
ConstantProduct(v, n) == [Constant(n, v) EXCEPT !.ll = Zero, !.ul = Zero, !.lu = Zero, !.uu = Zero]

\* newUb = oldUb * positive weights + oldLb * negative weights, and newLb the other way round.
SumSymbolic(layer, j, sym, box) ==
  LET Side(l, i, upper) ==
        LET w == layer.weight[l][i][j]
        IN  Scaled(IF (Zero \prec w) = upper THEN sym[l][i].up ELSE sym[l][i].lo, w)
      Total(upper) ==
        LET terms == [n \in UNION {{<<l, i>> : i \in DOMAIN layer.weight[l]} : l \in DOMAIN layer.weight} |->
                        Side(n[1], n[2], upper)]
        IN  [c |-> [x \in DOMAIN box |-> RatSum([n \in DOMAIN terms |-> terms[n].c[x]])],
             b |-> layer.bias[j] ++ RatSum([n \in DOMAIN terms |-> terms[n].b])]
  IN  Concretized(Total(FALSE), Total(TRUE), box)

\* Layer::computeSymbolicBounds, for neuron j of layer l.
SymbolicOf(net, bounds, sym, l, j) ==
  LET layer == net[l]
      box   == [i \in Neurons(net[1]) |-> BoundsOf(net, bounds, 1, i)]
      n     == net[1].size
      own   == bounds[l][j]
      in    == InputBounds(net, bounds, layer, j)
      s     == [k \in DOMAIN layer.inputs[j] |-> sym[layer.inputs[j][1][1]][layer.inputs[j][k][2]]]
  IN  CASE layer.type = "input" -> InputSymbolic(n, j, box[j])
        [] layer.type /= "input" /\ j \in DOMAIN layer.gone -> Constant(n, layer.gone[j])
        [] layer.type /= "input" /\ j \notin DOMAIN layer.gone ->
             CASE layer.type = "weighted sum" -> SumSymbolic(layer, j, sym, box)
               [] layer.type = "relu"         -> ReluSymbolic(s[1], own, in[1], n)
               [] layer.type = "sign"         -> SignSymbolic(s[1], own, in[1], n)
               [] layer.type = "abs"          -> AbsSymbolic(s[1], in[1], n)
               [] layer.type = "leaky relu"   -> LeakyReluSymbolic(s[1], own, in[1], layer.alpha, box)
               [] layer.type = "round"        -> RoundSymbolic(s[1], in[1])
               [] layer.type = "sigmoid"      -> SigmoidSymbolic(s[1], own, in[1], n, box)
               [] layer.type = "max"          -> MaxSymbolic(s, in, n)
               [] layer.type = "bilinear"     -> IF ConstantInputs(net, layer, j)
                                                   THEN ConstantProduct(in[1].lb ** in[2].lb, n)
                                                   ELSE BilinearSymbolic(s, in, box)

\* The neurons whose bounds a pass leaves alone.
Untouched(net, l, j) ==
  \/ l = 1
  \/ j \in DOMAIN net[l].gone
  \/ net[l].type = "bilinear" /\ ConstantInputs(net, net[l], j)

\* NetworkLevelReasoner::symbolicBoundPropagation, the bounds and the symbolic bounds it leaves.
AfterLayer(net, state, l, sym) ==
  [sym |-> Append(state.sym, sym),
   bounds |-> [state.bounds EXCEPT ![l] = [j \in DOMAIN @ |->
                 IF Untouched(net, l, j) THEN @[j]
                 ELSE Tightened(@[j], [lb |-> sym[j].ll, ub |-> sym[j].uu])]]]
SymbolicBoundPropagation(net, bounds) ==
  FoldLeftDomain(LAMBDA state, l :
    AfterLayer(net, state, l, [j \in Neurons(net[l]) |-> SymbolicOf(net, state.bounds, state.sym, l, j)]),
    [bounds |-> bounds, sym |-> <<>>], net)

----------------------------------------------------------------------------
\* The symbolic bounds hold for a run of the network from input x.
Encloses(sym, x, value) ==
  \A l \in DOMAIN sym : \A j \in DOMAIN sym[l] :
    ~(value[l][j] \prec ValueAt(sym[l][j].lo, x)) /\ ~(ValueAt(sym[l][j].up, x) \prec value[l][j])
==============================================================================
