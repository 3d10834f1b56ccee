--------------------------- MODULE SoILocalSearch ---------------------------
(***************************************************************************)
(* The local search on the sum of infeasibilities: every open constraint   *)
(* that supports it has a phase in the pattern, the cost is the sum of the *)
(* phases' cost terms, the simplex minimizes it, and proposals change one  *)
(* phase.  Between case splits nothing changes the points the simplex can  *)
(* reach.  A query q has                                                   *)
(*   constraints, states   the constraints and their states, by number     *)
(*   points                the points within the linear constraints and    *)
(*                         bounds, the optima of every cost among them     *)
(*   graph, inputs         the evaluations of the network, the variables   *)
(*                         of its inputs; no graph: no network             *)
(*   unnoticed             constraints whose bounds fix their phase, but   *)
(*                         were not told: a precision restoration tells    *)
(*                         them (none of them a max)                       *)
(*   strategy, threshold   the search strategy, and the rejections after   *)
(*                         which the search asks for a split               *)
(* and the manager's state s has the current point, the constraints a      *)
(* restoration fixed, the patterns, and what the last proposal updated.    *)
(* Scores are left out: any candidate may be split on next.                *)
(***************************************************************************)
EXTENDS Integers, FiniteSets, FiniteSetsExt, Functions

Relu == INSTANCE ReluConstraint
Leaky == INSTANCE LeakyReluConstraint
Abs == INSTANCE AbsoluteValueConstraint
Sign == INSTANCE SignConstraint
MaxOf == INSTANCE MaxConstraint
Disj == INSTANCE DisjunctionConstraint

-----------------------------------------------------------------------------
(* The virtual methods of a piecewise-linear constraint *)

SupportSoI(c) == c.kind # "disj"

Satisfied(c, p) ==
    CASE c.kind = "relu" -> Relu!Holds(c, p)
      [] c.kind = "leaky" -> Leaky!Holds(c, p)
      [] c.kind = "abs" -> Abs!Holds(c, p)
      [] c.kind = "sign" -> Sign!Holds(c, p)
      [] c.kind = "max" -> MaxOf!Holds(c, p)
      [] c.kind = "disj" -> Disj!Holds(c, p)

PhaseFixed(q, s, i) ==
    LET c == q.constraints[i]
        state == q.states[i]
    IN  \/ i \in s.fixed
        \/ CASE c.kind = "relu" -> Relu!Fixed(c, state)
             [] c.kind = "leaky" -> Leaky!Fixed(c, state)
             [] c.kind = "abs" -> Abs!Fixed(c, state)
             [] c.kind = "sign" -> Sign!Fixed(c, state)
             [] c.kind = "max" -> MaxOf!Fixed(c, state)
             [] c.kind = "disj" -> Disj!Fixed(c, state)

GetAllCases(q, i) ==
    LET c == q.constraints[i]
    IN  CASE c.kind = "relu" -> Relu!Cases(c)
          [] c.kind = "leaky" -> Leaky!Cases(c)
          [] c.kind = "abs" -> Abs!Cases(c)
          [] c.kind = "sign" -> Sign!Cases(c)
          [] c.kind = "max" -> MaxOf!Cases(c, q.states[i])

GetPhaseStatusInAssignment(q, i, p) ==
    LET c == q.constraints[i]
    IN  CASE c.kind = "relu" -> Relu!PhaseAt(c, p)
          [] c.kind = "leaky" -> Leaky!PhaseAt(c, p)
          [] c.kind = "abs" -> Abs!PhaseAt(c, p)
          [] c.kind = "sign" -> Sign!PhaseAt(c, p)
          [] c.kind = "max" -> MaxOf!PhaseAt(c, q.states[i], p)

\* A constraint that is disabled or fixed contributes nothing
CostComponent(q, s, i, phase, p) ==
    LET c == q.constraints[i]
    IN  IF ~q.states[i].active \/ PhaseFixed(q, s, i) THEN 0
        ELSE CASE c.kind = "relu" -> Relu!Cost(c, phase, p)
               [] c.kind = "leaky" -> Leaky!Cost(c, phase, p)
               [] c.kind = "abs" -> Abs!Cost(c, phase, p)
               [] c.kind = "sign" -> Sign!Cost(c, phase, p)
               [] c.kind = "max" -> MaxOf!Cost(c, phase, p)

-----------------------------------------------------------------------------
(* The engine's view of the constraints *)

ViolatedPlConstraints(q, p) ==
    {i \in DOMAIN q.constraints : q.states[i].active /\ ~Satisfied(q.constraints[i], p)}
HasBranchingCandidate(q, s) ==
    \E i \in DOMAIN q.constraints : q.states[i].active /\ ~PhaseFixed(q, s, i)

-----------------------------------------------------------------------------
(* The phase pattern *)

CostAt(q, s, pattern, p) ==
    MapThenSumSet(LAMBDA i : CostComponent(q, s, i, pattern[i], p), DOMAIN pattern)
ComputeHeuristicCost(q, s) == CostAt(q, s, s.current, s.point)

Participants(q, s) ==
    {i \in DOMAIN q.constraints :
        SupportSoI(q.constraints[i]) /\ q.states[i].active /\ ~PhaseFixed(q, s, i)}

\* concretizeInputAssignment: the network evaluated at the inputs of the point;
\* without a network that knows all the constraints, the point itself
InitialAssignment(q, p) ==
    IF q.graph = {} THEN p
    ELSE CHOOSE x \in q.graph : \A v \in q.inputs : x[v] = p[v]

InitializePhasePattern(q, s) ==
    LET assignment == InitialAssignment(q, s.point)
        pattern == [i \in Participants(q, s) |-> GetPhaseStatusInAssignment(q, i, assignment)]
    IN  [s EXCEPT !.current = pattern, !.accepted = pattern, !.updated = {}]

\* A minimum of the current cost, any of them; on the way, a restoration may fix
\* constraints that had not noticed that they are
MinimizeHeuristicCost(q, s) ==
    UNION {LET after == [s EXCEPT !.fixed = @ \cup told]
               cost == [p \in q.points |-> CostAt(q, s, s.current, p)]
           IN  {[after EXCEPT !.point = p] : p \in {x \in q.points : \A y \in q.points : cost[x] <= cost[y]}}
           : told \in {{}, q.unnoticed}}

\* A satisfied constraint costs nothing in the phase it has at the point
UpdateForSatisfied(q, s) ==
    [s EXCEPT !.current =
        [i \in DOMAIN s.current |->
            IF Satisfied(q.constraints[i], s.point)
            THEN GetPhaseStatusInAssignment(q, i, s.point)
            ELSE s.current[i]]]

AcceptCurrentPhasePattern(s) == [s EXCEPT !.accepted = s.current, !.updated = {}]

\* Lower costs are always accepted, others with a probability
MayAccept(costAccepted, costProposed) == {TRUE} \cup (IF costProposed < costAccepted THEN {} ELSE {FALSE})

-----------------------------------------------------------------------------
(* Proposals: the searches that may result *)

Alternatives(q, pattern, i) == GetAllCases(q, i) \ {pattern[i]}

\* Any constraint that is not fixed gets another phase; the fixed ones it was
\* looked for among are dropped from both patterns; if all are, nothing changes
ProposeRandomly(q, s) ==
    LET fixed == {i \in DOMAIN s.accepted : PhaseFixed(q, s, i)}
        open == DOMAIN s.accepted \ fixed
        Without(dropped) == Restrict(s.accepted, DOMAIN s.accepted \ dropped)
    IN  IF open = {} THEN {[s EXCEPT !.current = <<>>, !.accepted = <<>>, !.updated = {}]}
        ELSE UNION {UNION {{[s EXCEPT !.current = [Without(dropped) EXCEPT ![i] = phase],
                                      !.accepted = Without(dropped),
                                      !.updated = {i}]
                            : phase \in Alternatives(q, s.accepted, i)} : i \in open} : dropped \in SUBSET fixed}

\* getCostReduction: by how much the current cost term exceeds that of the
\* alternative that reduces it least
Reduction(q, s, i, phase) ==
    CostComponent(q, s, i, s.accepted[i], s.point) - CostComponent(q, s, i, phase, s.point)
LeastReducing(q, s, i) ==
    {phase \in Alternatives(q, s.accepted, i) :
        \A other \in Alternatives(q, s.accepted, i) : Reduction(q, s, i, phase) <= Reduction(q, s, i, other)}
CostReduction(q, s, i) == Reduction(q, s, i, CHOOSE phase \in LeastReducing(q, s, i) : TRUE)

\* The constraint whose cost term can be reduced most, if one can
ProposeWalksat(q, s) ==
    LET reducible == {i \in DOMAIN s.accepted : CostReduction(q, s, i) > 0}
        best == {i \in reducible : \A j \in reducible : CostReduction(q, s, j) <= CostReduction(q, s, i)}
    IN  IF reducible = {} THEN ProposeRandomly(q, s)
        ELSE UNION {{[s EXCEPT !.current = [s.accepted EXCEPT ![i] = phase], !.updated = {i}]
                        : phase \in LeastReducing(q, s, i)} : i \in best}

\* getAllCases of a sign constraint throws if it is fixed
ProposalThrows(q, s) ==
    /\ q.strategy = "walksat"
    /\ \E i \in DOMAIN s.accepted : q.constraints[i].kind = "sign" /\ PhaseFixed(q, s, i)
ProposePhasePatternUpdate(q, s) ==
    IF q.strategy = "mcmc" THEN ProposeRandomly(q, s) ELSE ProposeWalksat(q, s)
-----------------------------------------------------------------------------
(* performDeepSoILocalSearch: a search l has the query, the manager's state, the *)
(* costs, the rejections so far, and where it is; each operator returns the      *)
(* searches that may be next                                                     *)

\* No more is to be gained from the cost: a split, if there is something to split
Leave(l) == {[l EXCEPT !.pc = IF HasBranchingCandidate(l.q, l.s) THEN "split" ELSE "left"]}

\* Up to the loop: the first pattern is always accepted
BeginSearch(l) ==
    LET initial == InitializePhasePattern(l.q, l.s)
    IN  IF initial.current = <<>> THEN Leave(l)
        ELSE {LET u == UpdateForSatisfied(l.q, m)
              IN  [l EXCEPT !.pc = "judge", !.s = AcceptCurrentPhasePattern(u), !.cost = ComputeHeuristicCost(l.q, u)]
              : m \in MinimizeHeuristicCost(l.q, initial)}

\* Only the point of an accepted pattern is looked at
JudgePoint(l) ==
    IF l.rejections = l.q.threshold THEN {[l EXCEPT !.pc = "split"]}
    ELSE IF l.lastAccepted /\ ViolatedPlConstraints(l.q, l.s.point) = {} THEN {[l EXCEPT !.pc = "solved"]}
    ELSE IF l.lastAccepted /\ l.cost = 0 THEN Leave(l)
    ELSE {[l EXCEPT !.pc = "propose"]}

MinimizeProposal(l) ==
    IF ProposalThrows(l.q, l.s) THEN {[l EXCEPT !.pc = "error"]}
    ELSE UNION {{LET u == UpdateForSatisfied(l.q, m)
                 IN  [l EXCEPT !.pc = "decide", !.s = u, !.proposed = p.current, !.costProposed = ComputeHeuristicCost(l.q, u)]
                 : m \in MinimizeHeuristicCost(l.q, p)} : p \in ProposePhasePatternUpdate(l.q, l.s)}

Decide(l) ==
    {IF accept
     THEN [l EXCEPT !.pc = "judge", !.lastAccepted = TRUE, !.s = AcceptCurrentPhasePattern(l.s), !.cost = l.costProposed]
     ELSE [l EXCEPT !.pc = "judge", !.lastAccepted = FALSE, !.rejections = @ + 1]
     : accept \in MayAccept(l.cost, l.costProposed)}
=============================================================================
