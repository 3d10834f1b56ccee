----------------------- MODULE ConstraintPropagation -----------------------
(***************************************************************************)
(* How the piecewise-linear constraints learn of new bounds, fix their     *)
(* phase, tighten further bounds and are disabled.  A tightening raises a  *)
(* flag in the BoundManager; propagateTightenings walks over the           *)
(* variables, tells the constraints that watch a flagged bound, one after  *)
(* the other, and lowers the flag.  A constraint that is told may tighten  *)
(* bounds behind the walk, ahead of it, or the very bound it is told of.   *)
(*                                                                         *)
(* One solution of the query is followed: what the rest of the engine      *)
(* deduces, and the branch a case split takes, are those that keep it.     *)
(***************************************************************************)
EXTENDS Box, Sequences

CONSTANTS
    Queries,        \* the queries: the number of variables, the constraints in
                    \* the order in which they watch, the boxes to start from,
                    \* and the points to look for solutions among
    Bounds,         \* the bounds the rest of the engine may deduce
    MaxDeductions   \* how many of them it deduces (bounds the runs only)

ASSUME BoundsAreNumbers == Bounds \subseteq Int

Relu == INSTANCE ReluConstraint
Leaky == INSTANCE LeakyReluConstraint
Abs == INSTANCE AbsoluteValueConstraint
Sign == INSTANCE SignConstraint
Max == INSTANCE MaxConstraint
Disj == INSTANCE DisjunctionConstraint

VARIABLES
    query,      \* the query being solved
    sol,        \* the solution that is followed
    box,        \* _lowerBounds and _upperBounds of the BoundManager
    flags,      \* _tightenedLower and _tightenedUpper: the flagged bounds
    state,      \* the state of each constraint
    scan,       \* propagateTightenings: the next position, or Idle
    turn,       \* the next constraint to tell of the bound at that position
    told,       \* the value they are told, read once, before the first
    refuted,    \* a constraint threw InfeasibleQueryException
    dropped,    \* a flag was lowered, and a constraint may not know the bound
    deductions  \* how often the rest of the engine has tightened a bound

vars == <<query, sol, box, flags, state, scan, turn, told, refuted, dropped, deductions>>

Keys(q) == (0 .. q.n - 1) \X {"LB", "UB"}
Constraints == DOMAIN query.constraints
Constraint(i) == query.constraints[i]

\* Position 2i is the lower bound of variable i, position 2i+1 its upper bound
Idle == 2 * query.n
KeyAt(p) == <<p \div 2, IF p % 2 = 0 THEN "LB" ELSE "UB">>

-----------------------------------------------------------------------------
(* The virtual methods of a piecewise-linear constraint *)

Watched(c) ==
    CASE c.kind = "relu" -> Relu!Variables(c)
      [] c.kind = "leaky" -> Leaky!Variables(c)
      [] c.kind = "abs"  -> Abs!Variables(c)
      [] c.kind = "sign" -> Sign!Variables(c)
      [] c.kind = "max"  -> Max!Variables(c)
      [] c.kind = "disj" -> Disj!Variables(c)

States(c) ==
    CASE c.kind = "relu" -> Relu!States(c)
      [] c.kind = "leaky" -> Leaky!States(c)
      [] c.kind = "abs"  -> Abs!States(c)
      [] c.kind = "sign" -> Sign!States(c)
      [] c.kind = "max"  -> Max!States(c)
      [] c.kind = "disj" -> Disj!States(c)

Initial(c, b) ==
    CASE c.kind = "relu" -> Relu!Initial(c, b)
      [] c.kind = "leaky" -> Leaky!Initial(c, b)
      [] c.kind = "abs"  -> Abs!Initial(c, b)
      [] c.kind = "sign" -> Sign!Initial(c, b)
      [] c.kind = "max"  -> Max!Initial(c, b)
      [] c.kind = "disj" -> Disj!Initial(c, b)

Entailed(c, s, b) ==
    CASE c.kind = "relu" -> Relu!Entailed(c, s, b)
      [] c.kind = "leaky" -> Leaky!Entailed(c, s, b)
      [] c.kind = "abs"  -> Abs!Entailed(c, s, b)
      [] c.kind = "sign" -> Sign!Entailed(c, s, b)
      [] c.kind = "max"  -> Max!Entailed(c, s, b)
      [] c.kind = "disj" -> Disj!Entailed(c, s, b)

\* Told that the bound at k is x, while the box may already know better
Notified(c, s, b, k, x) ==
    CASE c.kind = "relu" -> Relu!Notified(c, s, b, k)
      [] c.kind = "leaky" -> Leaky!Notified(c, s, k, x)
      [] c.kind = "abs"  -> Abs!Notified(c, s, b)
      [] c.kind = "sign" -> Sign!Notified(c, s, k, x)
      [] c.kind = "max"  -> Max!Notified(c, s, b, k, x)
      [] c.kind = "disj" -> Disj!Notified(c, s, b)

Reaction(c, s, b, k, x) ==
    CASE c.kind = "relu" -> Relu!Reaction(c, s, b, k)
      [] c.kind = "leaky" -> Leaky!Reaction(c, s, k, x)
      [] c.kind = "abs"  -> Abs!Reaction(c, s, b, k, x)
      [] c.kind = "sign" -> Sign!Reaction(c, k, x)
      [] c.kind = "max"  -> Max!Reaction(c, s, b, k, x)
      [] c.kind = "disj" -> {}

Throws(c, s, b) == c.kind = "disj" /\ Disj!Throws(c, s, b)

Fixed(c, s) ==
    CASE c.kind = "relu" -> Relu!Fixed(c, s)
      [] c.kind = "leaky" -> Leaky!Fixed(c, s)
      [] c.kind = "abs"  -> Abs!Fixed(c, s)
      [] c.kind = "sign" -> Sign!Fixed(c, s)
      [] c.kind = "max"  -> Max!Fixed(c, s)
      [] c.kind = "disj" -> Disj!Fixed(c, s)

ImpliedSplit(c, s) ==
    CASE c.kind = "relu" -> Relu!ImpliedSplit(c, s)
      [] c.kind = "leaky" -> Leaky!ImpliedSplit(c, s)
      [] c.kind = "abs"  -> Abs!ImpliedSplit(c, s)
      [] c.kind = "sign" -> Sign!ImpliedSplit(c, s)
      [] c.kind = "max"  -> Max!ImpliedSplit(c, s)
      [] c.kind = "disj" -> Disj!ImpliedSplit(c, s)

CaseSplits(c, s) ==
    CASE c.kind = "relu" -> Relu!CaseSplits(c)
      [] c.kind = "leaky" -> Leaky!CaseSplits(c)
      [] c.kind = "abs"  -> Abs!CaseSplits(c)
      [] c.kind = "sign" -> Sign!CaseSplits(c)
      [] c.kind = "max"  -> Max!CaseSplits(c, s)
      [] c.kind = "disj" -> Disj!CaseSplits(c)

\* What a constraint demands of a point, and its equations
Holds(c, p) ==
    CASE c.kind = "relu" -> Relu!Holds(c, p)
      [] c.kind = "leaky" -> Leaky!Holds(c, p)
      [] c.kind = "abs"  -> Abs!Holds(c, p)
      [] c.kind = "sign" -> Sign!Holds(c, p)
      [] c.kind = "max"  -> Max!Holds(c, p)
      [] c.kind = "disj" -> Disj!Holds(c, p)

Linear(c, p) ==
    CASE c.kind = "relu" -> Relu!Linear(c, p)
      [] c.kind = "leaky" -> Leaky!Linear(c, p)
      [] c.kind = "abs"  -> Abs!Linear(c, p)
      [] c.kind = "max"  -> Max!Linear(c, p)
      [] OTHER -> TRUE

\* The differences transformToUseAuxVariables adds; it gives them the lower bound 0
Auxiliary(c) ==
    CASE c.kind = "relu" -> {c.aux}
      [] c.kind = "leaky" -> {c.activeAux, c.inactiveAux}
      [] c.kind = "abs"  -> {c.posAux, c.negAux}
      [] c.kind = "max"  -> {c.aux[e] : e \in c.elements}
      [] OTHER -> {}

\* The variables it is made with, none of which is one of those, which are new
Arguments(c) ==
    CASE c.kind \in {"relu", "leaky", "abs", "sign"} -> {c.b, c.f}
      [] c.kind = "max"  -> {c.f} \cup c.elements
      [] c.kind = "disj" -> Disj!Variables(c)

\* A query reads numbers, and its constraints read its variables
WellFormed(c, n) ==
    /\ c.kind \in {"relu", "leaky", "abs", "sign", "max", "disj"}
    /\ Watched(c) \subseteq 0 .. n - 1
    /\ Auxiliary(c) \cap Arguments(c) = {}
    /\ c.kind = "leaky" => c.k \in Nat \ {0, 1}
    /\ c.kind = "max" => c.maxValueOfEliminated \in Int /\ c.f \notin c.elements
    /\ c.kind = "disj" =>
        \A t \in UNION c.disjuncts : t.key \in (0 .. n - 1) \X {"LB", "UB"} /\ t.value \in Int

ASSUME QueriesWellFormed ==
    \A q \in Queries :
        /\ q.n \in Nat
        /\ q.boxes \subseteq [Keys(q) -> Int]
        /\ q.points \subseteq [0 .. q.n - 1 -> Int]
        /\ Len(q.constraints) \in Nat
        /\ DOMAIN q.constraints = 1 .. Len(q.constraints)
        /\ \A i \in DOMAIN q.constraints : WellFormed(q.constraints[i], q.n)
        /\ \A i \in DOMAIN q.constraints, b \in q.boxes :
            \A v \in Auxiliary(q.constraints[i]) : b[<<v, "LB">>] >= 0

-----------------------------------------------------------------------------
\* Telling constraint i of bound k teaches it nothing.  A leaky ReLU whose phase
\* is fixed fixes it again, to the other phase at b = f = 0.
Settled(i, k) ==
    \/ k[1] \notin Watched(Constraint(i))
    \/ Constraint(i).kind = "leaky" /\ Fixed(Constraint(i), state[i])
    \/ Notified(Constraint(i), state[i], box, k, box[k]) = state[i]

\* The preprocessor has applied all the entailed tightenings.  The engine sets
\* the bounds one by one and tells the constraints, which leaves all the flags
\* up; the queries followed are those in which this decides nothing yet.
Init ==
    /\ query \in Queries
    /\ box \in query.boxes
    /\ sol \in query.points
    /\ Inside(sol, box)
    /\ \A i \in Constraints : Holds(Constraint(i), sol) /\ Linear(Constraint(i), sol)
    /\ state = [i \in Constraints |-> Initial(Constraint(i), box)]
    /\ \A i \in Constraints :
        \A t \in Entailed(Constraint(i), state[i], box) :
            ~Tighter(t.key, t.value, box[t.key])
    /\ \A i \in Constraints, k \in Keys(query) : Settled(i, k)
    /\ flags = Keys(query)
    /\ scan = Idle
    /\ turn = 1
    /\ told = 0
    /\ refuted = FALSE
    /\ dropped = FALSE
    /\ deductions = 0

\* Tightenings are made: the bounds that change are flagged
Tighten(T, raised) ==
    /\ box' = Tightened(box, T)
    /\ flags' = raised \cup {k \in DOMAIN box : box'[k] # box[k]}

\* Simplex, row bounds or network reasoning tighten a bound
Deduce ==
    /\ scan = Idle
    /\ deductions < MaxDeductions
    /\ \E k \in Keys(query), x \in Bounds :
        /\ Tighter(k, x, box[k])
        /\ Respects(sol, [key |-> k, value |-> x])
        /\ Tighten({[key |-> k, value |-> x]}, flags)
    /\ deductions' = deductions + 1
    /\ UNCHANGED <<query, sol, state, scan, turn, told, refuted, dropped>>

StartPropagation ==
    /\ scan = Idle
    /\ scan' = 0
    /\ UNCHANGED <<query, sol, box, flags, state, turn, told, refuted, dropped, deductions>>

\* The walk passes over the bounds that are not flagged, to the next that is
Skip ==
    /\ scan # Idle
    /\ KeyAt(scan) \notin flags
    /\ scan' \in scan + 1 .. Idle
    /\ \A p \in scan .. scan' - 1 : KeyAt(p) \notin flags
    /\ scan' # Idle => KeyAt(scan') \in flags
    /\ UNCHANGED <<query, sol, box, flags, state, turn, told, refuted, dropped, deductions>>

\* The value of the flagged bound, as Tableau::notifyLowerBound was given it
Value == IF turn = 1 THEN box[KeyAt(scan)] ELSE told

\* The next constraint is told of a flagged bound, and reacts
Tell ==
    /\ scan # Idle
    /\ KeyAt(scan) \in flags
    /\ turn \in Constraints
    /\ turn' = turn + 1
    /\ told' = Value
    /\ LET c == Constraint(turn)
           s == state[turn]
           k == KeyAt(scan)
       IN  IF k[1] \notin Watched(c)
           THEN UNCHANGED <<box, flags, state, refuted>>
           ELSE
            /\ state' = [state EXCEPT ![turn] = Notified(c, s, box, k, Value)]
            /\ Tighten(Reaction(c, s, box, k, Value), flags)
            /\ refuted' = (refuted \/ Throws(c, s, box))
    /\ UNCHANGED <<query, sol, scan, dropped, deductions>>

\* While the constraints that watch bound k were told of it, one of them
\* tightened it: the others were told, or read, a value that is out of date.  A
\* maximum that tightens the lower bound of its own output is one of the others.
Overtaken(k) ==
    /\ box[k] # Value
    /\ \E i, j \in Constraints :
        /\ k[1] \in Watched(Constraint(i)) \cap Watched(Constraint(j))
        /\ i = j => Constraint(i).kind = "max" /\ k = <<Constraint(i).f, "LB">>

\* Mutant of Lower: both flags of the variable are lowered
LowerBoth ==
    /\ scan # Idle
    /\ KeyAt(scan) \in flags
    /\ turn \notin Constraints
    /\ turn' = 1
    /\ scan' = scan + 1
    /\ told' = 0
    /\ flags' = {k \in flags : k[1] # KeyAt(scan)[1]}
    /\ dropped' = (dropped \/ Overtaken(KeyAt(scan)))
    /\ UNCHANGED <<query, sol, box, state, refuted, deductions>>

\* Mutant of Lower: the walk steps over a position
LowerAndSkip ==
    /\ scan # Idle
    /\ KeyAt(scan) \in flags
    /\ turn \notin Constraints
    /\ turn' = 1
    /\ scan' = scan + 2
    /\ told' = 0
    /\ flags' = flags \ {KeyAt(scan)}
    /\ dropped' = (dropped \/ Overtaken(KeyAt(scan)))
    /\ UNCHANGED <<query, sol, box, state, refuted, deductions>>

\* All have been told: the flag is lowered, also when the bound moved meanwhile
Lower ==
    /\ scan # Idle
    /\ KeyAt(scan) \in flags
    /\ turn \notin Constraints
    /\ turn' = 1
    /\ scan' = scan + 1
    /\ told' = 0
    /\ flags' = flags \ {KeyAt(scan)}
    /\ dropped' = (dropped \/ Overtaken(KeyAt(scan)))
    /\ UNCHANGED <<query, sol, box, state, refuted, deductions>>

\* Engine::applyAllBoundTightenings takes the flagged bounds off the manager
\* and hands them to the tableau, which finds them no tighter than the bounds
\* it reads from the same manager and returns without telling anybody
ApplyAllBoundTightenings ==
    /\ scan = Idle
    /\ flags' = {}
    /\ dropped' = (dropped \/ flags # {})
    /\ UNCHANGED <<query, sol, box, state, scan, turn, told, refuted, deductions>>

\* applyValidConstraintCaseSplit, of a constraint whose phase is fixed
ApplyValidSplit ==
    /\ scan = Idle
    /\ \E i \in Constraints :
        /\ state[i].active
        /\ Fixed(Constraint(i), state[i])
        /\ state' = [state EXCEPT ![i].active = FALSE]
        /\ Tighten(ImpliedSplit(Constraint(i), state[i]), flags)
    /\ UNCHANGED <<query, sol, scan, turn, told, refuted, dropped, deductions>>

\* SmtCore::performSplit on an active constraint, in a case of the solution;
\* leaky ReLU and sign refuse, with an error, when their phase is fixed
PerformSplit ==
    /\ scan = Idle
    /\ \E i \in Constraints :
        /\ state[i].active
        /\ Constraint(i).kind \in {"leaky", "sign"} => ~Fixed(Constraint(i), state[i])
        /\ state' = [state EXCEPT ![i].active = FALSE]
        /\ \E split \in CaseSplits(Constraint(i), state[i]) :
            /\ Meets(sol, split)
            /\ Tighten(split, flags)
    /\ UNCHANGED <<query, sol, scan, turn, told, refuted, dropped, deductions>>

Next ==
    \/ Deduce
    \/ StartPropagation
    \/ Skip
    \/ Tell
    \/ Lower
    \/ ApplyAllBoundTightenings
    \/ ApplyValidSplit
    \/ PerformSplit

Spec == Init /\ [][Next]_vars
-----------------------------------------------------------------------------
\* The walk's position and turn, and every constraint's state, have their types.
TypeOK ==
    /\ DOMAIN box = Keys(query)
    /\ flags \subseteq Keys(query)
    /\ scan \in 0 .. Idle
    /\ turn \in 1 .. Len(query.constraints) + 1
    /\ \A i \in Constraints : state[i] \in States(Constraint(i))
    /\ refuted \in BOOLEAN /\ dropped \in BOOLEAN

\* Whatever the order in which the constraints are told, and whatever bounds
\* they read while they react, no tightening cuts the solution off and no
\* constraint refutes it.
SolutionKept == ~refuted /\ Inside(sol, box)

\* A phase is fixed only when the solution is in it, so that the case split the
\* engine applies without branching loses nothing.
FixedPhaseRight ==
    \A i \in Constraints :
        Fixed(Constraint(i), state[i]) => Meets(sol, ImpliedSplit(Constraint(i), state[i]))

\* The constraint holds at a point; a sign constraint up to the border of its
\* negative split
HoldsAt(c, p) == IF c.kind = "sign" THEN Sign!HoldsUpToBorder(c, p) ELSE Holds(c, p)

\* A constraint that was disabled, by a fixed phase or by a case split, needs no
\* more checking: it holds wherever the box and its equations do.
DisabledHolds ==
    \A i \in Constraints :
        ~state[i].active =>
            \A p \in query.points :
                Inside(p, box) /\ Linear(Constraint(i), p) => HoldsAt(Constraint(i), p)

\* When no bound is flagged the constraints know all there is to know: telling
\* one of any bound again would neither fix its phase nor refute a case.  There
\* are three exceptions only: the flags applyAllBoundTightenings takes down, a
\* bound that moved while several constraints were told of it, and the lower bound
\* of the output of a maximum that raised it when it was told of it.
NothingMissed ==
    ~dropped /\ scan = Idle /\ flags = {} =>
        \A i \in Constraints, k \in Keys(query) : Settled(i, k)
=============================================================================
