-------------------------- MODULE ParallelTightening --------------------------
(****************************************************************************)
(* Bound tightening with an LP or a MILP solver (nlr/LPFormulator,          *)
(* MILPFormulator, IterativePropagator over ParallelSolver).  A main thread *)
(* walks over the neurons and hands each to a worker with a free solver;    *)
(* the worker optimizes the neuron from below and above, stores what it     *)
(* finds under a lock and gives the solver back.  The workers share the     *)
(* bounds and a flag that some solver found its model infeasible.           *)
(*                                                                          *)
(* A solver is external: for a feasible problem it returns any bound that   *)
(* holds in every solution (its relaxation may be weak or run into the time *)
(* limit), for an infeasible one any value or that it is infeasible.        *)
(* Interrupting a worker has no effect: it meets no interruption point.     *)
(****************************************************************************)
EXTENDS Integers, Sequences, FiniteSets, SequencesExt

CONSTANTS
  Solvers,     \* one per worker thread
  Layers,      \* the neurons, layer by layer: a sequence of sequences of numbers 1, 2, ...
  Values,      \* the integers a bound may take
  Infinity,    \* larger than all of them: what an infeasible model returns
  Problems,    \* what may be given: [mode, feasible, timeouts, truth, start, gone, relus, points, target]
  None

Modes == {"lp", "backward", "one layer", "milp", "one layer milp", "iterative", "incremental lp", "incremental milp"}
Neurons == 1..Len(FlattenSeq(Layers))
NoNeuron == Len(FlattenSeq(Layers)) + 1       \* NeuronIndex(last layer + 1, 0)

\* The neurons in the order they are visited.
LPVisits == FlattenSeq(Layers)
BackwardVisits == FlattenSeq(Reverse(Tail(Layers)))
OneLayerVisits(target) == Layers[target]
MilpVisits == FlattenSeq(Layers)
OneLayerMilpVisits(target) == Layers[target]
IterativeVisits == FlattenSeq(Tail(Layers))        \* not the inputs

\* The layers number the neurons: every walk meets neurons, each of them once.
IsWalk(order) == order \in Seq(Neurons) /\ \A i, j \in DOMAIN order : order[i] = order[j] => i = j

ASSUME LayersNumberNeurons ==
  /\ \A order \in {LPVisits, BackwardVisits, MilpVisits, IterativeVisits} : IsWalk(order)
  /\ \A target \in DOMAIN Layers : IsWalk(Layers[target])

ASSUME ValuesAreNumbers == Values \subseteq Int /\ Infinity \in Int /\ \A v \in Values : v < Infinity

\* The solutions of a feasible problem lie within the bounds it starts from.
ASSUME ProblemsWellFormed ==
  \A p \in Problems :
    /\ p.mode \in Modes /\ p.feasible \in BOOLEAN /\ p.target \in DOMAIN Layers
    /\ p.start \in [Neurons -> [lb : Values, ub : Values]]
    /\ p.truth \in [Neurons -> [lb : Int, ub : Int]]
    /\ p.feasible => \A n \in Neurons : p.start[n].lb <= p.truth[n].lb /\ p.truth[n].ub <= p.start[n].ub

Jobs == [neuron : Neurons, lb : Values \cup {Infinity}, ub : Values, rest : Seq({"lb", "ub"}) \ {<<>>}]
ASSUME NoneNotAJob == None \notin Jobs

VARIABLES
  problem,     \* one of Problems
  bounds,      \* neuron -> [lb, ub]
  at,          \* the position of the main thread among the neurons to visit
  main,        \* "visit", "wait" for a solver, "join" the threads, "done"
  work,        \* solver -> the job of its thread, or None
  infeasible,  \* the shared flag
  fixed,       \* the neuron whose sign was fixed last in this pass (iterative only)
  before,      \* the same for the pass before
  outcome      \* "running", "returned" or "infeasible"
vars == <<problem, bounds, at, main, work, infeasible, fixed, before, outcome>>

Cutoff == 0
Iterative == problem.mode = "iterative"
Incremental == problem.mode \in {"incremental lp", "incremental milp"}

Visits ==
  CASE problem.mode \in {"lp", "incremental lp"}     -> LPVisits
    [] problem.mode = "backward"                     -> BackwardVisits
    [] problem.mode = "one layer"                    -> OneLayerVisits(problem.target)
    [] problem.mode \in {"milp", "incremental milp"} -> MilpVisits
    [] problem.mode = "one layer milp"               -> OneLayerMilpVisits(problem.target)
    [] problem.mode = "iterative"                    -> IterativeVisits

Neuron == Visits[at]

Idle == \A s \in Solvers : work[s] = None

\* The incremental versions have a single thread, and with a single worker the job is run
\* by the main thread itself, except by the iterative propagation.
MainFree == Incremental \/ (Cardinality(Solvers) = 1 /\ ~Iterative) => Idle

----------------------------------------------------------------------------
(* The decisions *)

\* A bound already on the right side of the cutoff.
CutOff(b) == IF Iterative THEN b.lb > Cutoff \/ b.ub < Cutoff ELSE b.lb >= Cutoff \/ b.ub <= Cutoff

\* Simulated values on both sides of the cutoff show that neither bound can reach it.
Skipped(n) ==
  IF Incremental \/ Iterative THEN {}
  ELSE {"ub" : v \in {x \in problem.points[n] : Cutoff < x}} \cup {"lb" : v \in {x \in problem.points[n] : x < Cutoff}}

Wanted(phase, n) == IF phase \in Skipped(n) THEN <<>> ELSE <<phase>>

\* The optimizations of a neuron in order: those of the MILP come after those of the LP.
LPPhases(n) == Wanted("ub", n) \o Wanted("lb", n)
IncrementalLPPhases == <<"ub", "lb">>
MilpPhases(n) == Wanted("lb", n) \o Wanted("ub", n) \o Wanted("lb", n) \o Wanted("ub", n)
IncrementalMilpPhases(n) == IF n \in problem.relus THEN <<"ub", "lb", "ub", "lb">> ELSE <<"ub", "lb">>
IterativePhases(b) == IF -b.lb < b.ub THEN <<"lb", "ub">> ELSE <<"ub", "lb">>

Phases(n, b) ==
  CASE problem.mode \in {"lp", "backward", "one layer"}  -> LPPhases(n)
    [] problem.mode = "incremental lp"                   -> IncrementalLPPhases
    [] problem.mode \in {"milp", "one layer milp"}       -> MilpPhases(n)
    [] problem.mode = "incremental milp"                 -> IncrementalMilpPhases(n)
    [] problem.mode = "iterative"                        -> IterativePhases(b)

\* A new bound that decides the sign makes the rest unnecessary.
Crosses(phase, v) ==
  IF problem.mode = "incremental milp"
    THEN IF phase = "ub" THEN v <= Cutoff ELSE v >= Cutoff
    ELSE IF phase = "ub" THEN v < Cutoff ELSE v > Cutoff

SignFixed(phase, old, v) == IF phase = "ub" THEN old > 0 /\ v <= 0 ELSE old < 0 /\ v >= 0
\* Mutant: whatever the solver returns replaces the bound.
BetterAlways(phase, old, v) == v /= old
Better(phase, old, v) == IF phase = "ub" THEN v < old ELSE v > old

\* Mutant: the solver is asked for the other end.
BoundsSwapped(n, phase) ==
  {v \in Values : IF phase = "lb" THEN v >= problem.truth[n].ub ELSE v <= problem.truth[n].lb}

\* The bounds that hold in every solution for one end of neuron n.
Bounds(n, phase) ==
  {v \in Values : IF phase = "ub" THEN v >= problem.truth[n].ub ELSE v <= problem.truth[n].lb}

\* The incremental MILP reads the best solution found so far for the upper bound, whether
\* the solver has finished or run into the time limit.
Incumbents(n, phase) ==
  IF problem.mode = "incremental milp" /\ phase = "ub" /\ problem.timeouts
    THEN {v \in Values : problem.truth[n].lb <= v /\ v <= problem.truth[n].ub}
    ELSE {}

\* What the solver may return.
Returns(n, phase) == IF problem.feasible THEN Bounds(n, phase) \cup Incumbents(n, phase) ELSE Values

----------------------------------------------------------------------------
Init ==
  /\ problem \in Problems
  /\ bounds = problem.start
  /\ at = 1 /\ main = "visit"
  /\ work = [s \in Solvers |-> None]
  /\ infeasible = FALSE
  /\ fixed = NoNeuron /\ before = NoNeuron
  /\ outcome = "running"

\* No sign was fixed in this pass and the walk is past the one fixed in the pass before.
NoProgress == Iterative /\ fixed = NoNeuron /\ before < Neuron

NeedsNothing == ~NoProgress /\ (CutOff(bounds[Neuron]) \/ Phases(Neuron, bounds[Neuron]) = <<>>)

\* Mutant: a neuron that needs nothing takes the next one with it.
SkipPastEnd ==
  /\ main = "visit" /\ at <= Len(Visits) /\ MainFree
  /\ Neuron \in problem.gone \/ NeedsNothing
  /\ at' = at + 2
  /\ UNCHANGED <<problem, bounds, main, work, infeasible, fixed, before, outcome>>

Skip ==
  /\ main = "visit" /\ at <= Len(Visits) /\ MainFree
  /\ Neuron \in problem.gone \/ NeedsNothing
  /\ at' = at + 1
  /\ UNCHANGED <<problem, bounds, main, work, infeasible, fixed, before, outcome>>

\* Some solver has found its model infeasible: no more neurons are handed out.
Abort ==
  /\ main = "visit" /\ at <= Len(Visits) /\ MainFree
  /\ Neuron \notin problem.gone /\ ~NoProgress /\ ~NeedsNothing
  /\ infeasible
  /\ main' = "join"
  /\ UNCHANGED <<problem, bounds, at, work, infeasible, fixed, before, outcome>>

Visit ==
  /\ main = "visit" /\ at <= Len(Visits) /\ MainFree
  /\ Neuron \notin problem.gone /\ ~NoProgress /\ ~NeedsNothing
  /\ ~infeasible
  /\ main' = "wait"
  /\ UNCHANGED <<problem, bounds, at, work, infeasible, fixed, before, outcome>>

\* The thread gets the bounds of the neuron as they were when it was visited.
Dispatch(s) ==
  /\ main = "wait" /\ work[s] = None
  /\ work' = [work EXCEPT ![s] = [neuron |-> Neuron, lb |-> bounds[Neuron].lb, ub |-> bounds[Neuron].ub,
                                  rest |-> Phases(Neuron, bounds[Neuron])]]
  /\ main' = "visit" /\ at' = at + 1
  /\ UNCHANGED <<problem, bounds, infeasible, fixed, before, outcome>>

\* The job after its first phase gave v: over, or the phases left.  The incremental MILP
\* goes on from the bound it has just stored, the others from those they were given; the
\* iterative propagation goes on only after a bound that crossed the cutoff.
Continued(job, v) ==
  LET phase  == Head(job.rest)
      stored == Better(phase, job[phase], v)
      crossed == stored /\ Crosses(phase, v)
  IN  IF Tail(job.rest) = <<>> \/ (crossed /= Iterative) THEN None
      ELSE [job EXCEPT !.rest = Tail(@),
                       ![phase] = IF stored /\ problem.mode = "incremental milp" THEN v ELSE @]

\* One optimization: v replaces the bound if it is better than the one the thread was given.
Optimize(s, v) ==
  LET job == work[s]
      n == job.neuron
      phase == Head(job.rest)
      stored == Better(phase, job[phase], v)
  IN  /\ bounds' = IF stored THEN [bounds EXCEPT ![n][phase] = v] ELSE bounds
      /\ fixed' = IF Iterative /\ stored /\ SignFixed(phase, job[phase], v) THEN n ELSE fixed
      /\ work' = [work EXCEPT ![s] = Continued(job, v)]

Solve(s) ==
  /\ work[s] /= None
  /\ \E v \in Returns(work[s].neuron, Head(work[s].rest)) : Optimize(s, v)
  /\ UNCHANGED <<problem, at, main, infeasible, before, outcome>>

\* The infinity an infeasible model returns is stored where it is better: as a lower bound.
FindInfeasible(s) ==
  /\ work[s] /= None /\ ~problem.feasible /\ ~Incremental
  /\ infeasible' = TRUE
  /\ Optimize(s, Infinity)
  /\ UNCHANGED <<problem, at, main, before, outcome>>

\* The incremental versions have no threads: the exception leaves them at once.
ThrowInfeasible(s) ==
  /\ work[s] /= None /\ ~problem.feasible /\ Incremental
  /\ infeasible' = TRUE /\ outcome' = "infeasible" /\ main' = "done"
  /\ work' = [work EXCEPT ![s] = None]
  /\ UNCHANGED <<problem, bounds, at, fixed, before>>

NoNeuronLeft ==
  /\ main = "visit" /\ MainFree
  /\ at <= Len(Visits) => Neuron \notin problem.gone /\ NoProgress
  /\ main' = "join"
  /\ UNCHANGED <<problem, bounds, at, work, infeasible, fixed, before, outcome>>

\* Mutant: the neuron fixed last is not forgotten.
NextPassKeeps ==
  /\ main = "join" /\ Idle /\ Iterative /\ at > Len(Visits)
  /\ before' = fixed
  /\ at' = 1 /\ main' = "visit"
  /\ UNCHANGED <<problem, bounds, work, infeasible, fixed, outcome>>

\* The next pass of the iterative propagation, unless this one quit or was aborted.
NextPass ==
  /\ main = "join" /\ Idle /\ Iterative /\ at > Len(Visits)
  /\ before' = fixed /\ fixed' = NoNeuron
  /\ at' = 1 /\ main' = "visit"
  /\ UNCHANGED <<problem, bounds, work, infeasible, outcome>>

\* Mutant: the flag is read before the threads are joined.
FinishEarly ==
  /\ main = "join" /\ (Iterative => at <= Len(Visits))
  /\ outcome' = IF infeasible THEN "infeasible" ELSE "returned"
  /\ main' = "done"
  /\ UNCHANGED <<problem, bounds, at, work, infeasible, fixed, before>>

\* All threads are joined before the flag is read for the last time.
Finish ==
  /\ main = "join" /\ Idle /\ (Iterative => at <= Len(Visits))
  /\ outcome' = IF infeasible THEN "infeasible" ELSE "returned"
  /\ main' = "done"
  /\ UNCHANGED <<problem, bounds, at, work, infeasible, fixed, before>>

Main == Skip \/ Abort \/ Visit \/ (\E s \in Solvers : Dispatch(s)) \/ NoNeuronLeft \/ NextPass \/ Finish
Worker(s) == Solve(s) \/ FindInfeasible(s) \/ ThrowInfeasible(s)
Next == Main \/ \E s \in Solvers : Worker(s)

\* The operating system runs every thread, and every optimization ends.
Fairness == WF_vars(Main) /\ \A s \in Solvers : WF_vars(Worker(s))
Spec == Init /\ [][Next]_vars /\ Fairness
----------------------------------------------------------------------------
TypeOK ==
  /\ \A n \in Neurons : bounds[n].lb \in Values \cup {Infinity} /\ bounds[n].ub \in Values
  /\ at \in 1..(Len(Visits) + 1)
  /\ main \in {"visit", "wait", "join", "done"}
  /\ work \in [Solvers -> Jobs \cup {None}]
  /\ infeasible \in BOOLEAN
  /\ {fixed, before} \subseteq Neurons \cup {NoNeuron}
  /\ outcome \in {"running", "returned", "infeasible"}

\* A problem with a solution is never called infeasible, and the bounds keep every
\* solution although the workers go by bounds that are out of date
\* (LPFormulator.cpp:557-646, MILPFormulator.cpp:413-590).  The incremental MILP with a
\* time limit is left out: it takes the best solution found for a bound (:816-818).
SolutionsKept ==
  problem.feasible /\ ~(problem.mode = "incremental milp" /\ problem.timeouts) =>
    /\ outcome /= "infeasible"
    /\ \A n \in Neurons : bounds[n].lb <= problem.truth[n].lb /\ problem.truth[n].ub <= bounds[n].ub

\* The call returns normally only if no worker has found its model infeasible, not even
\* the last ones, whose answer comes after the walk (LPFormulator.cpp:308-336): the bounds
\* may be crossed or infinite by then.
InfeasibleIsReported ==
  outcome = "returned" => ~infeasible /\ \A n \in Neurons : bounds[n].lb /= Infinity

\* When the call is over, normally or not, no thread is at work with a solver, which is
\* deleted, or will write to the bounds (clearSolverQueue, :327, :505).
NoThreadOutlives == outcome /= "running" => Idle

\* An infeasible model is reported, and nobody goes on after the report
\* (LPFormulator.cpp:308-336, :494-512).
InfeasibilityHandled == InfeasibleIsReported /\ NoThreadOutlives

\* No bound is ever replaced by a weaker one, although each worker compares with the
\* bounds its neuron had when it was visited.  The MILP encoding, of all layers or of one,
\* is the exception: its second optimization compares with that bound again, not with
\* what the first one stored, so that a solver that runs into the time limit may weaken it.
BoundsOnlyTighten ==
  [][problem.mode \notin {"milp", "one layer milp"} =>
       \A n \in Neurons : bounds[n].lb <= bounds'[n].lb /\ bounds'[n].ub <= bounds[n].ub]_vars

\* Every mode ends, but for one case: the iterative propagation when a pass fixes no sign;
\* the pass after it has nothing to compare its progress with (IterativePropagator.cpp:101-136).
EndsIfSignsAreFixed ==
  <>(outcome /= "running") \/ <>[](Iterative /\ (main = "join" => fixed = NoNeuron))

------------------------------------------------------------------------------
(* An instance: an eliminated input neuron and two layers; every mode, with  *)
(* problems whose solutions lie on one side of the cutoff, on both, or that  *)
(* have none.                                                                *)

SmallLayers == <<<<1>>, <<2, 3>>, <<4>>>>
SmallValues == -1..2
Between(l, u) == [lb |-> l, ub |-> u]
Truths == {<<Between(0, 0), a, Between(-1, -1), Between(0, 1)>> : a \in {Between(-1, 1), Between(0, 1), Between(1, 2)}}
Start == <<Between(0, 0), Between(-1, 2), Between(-1, 1), Between(-1, 1)>>
\* points: simulated values on one side of the cutoff, or on both.
Problem(mode, feasible, truth) ==
  {[mode |-> mode, feasible |-> feasible, timeouts |-> b, truth |-> truth, start |-> Start, gone |-> {1}, relus |-> {2},
    points |-> <<{0}, {truth[2].lb, truth[2].ub}, {-1}, {0}>>, target |-> 2] : b \in IF mode = "incremental milp" THEN BOOLEAN ELSE {FALSE}}
SmallProblems == UNION {Problem(m, TRUE, t) : m \in Modes, t \in Truths}
                \cup UNION {Problem(m, FALSE, CHOOSE t \in Truths : t[2] = Between(0, 1)) : m \in Modes}
==============================================================================
