# Marabou: models, checks and proofs

Marabou decides whether a neural network, given as linear equations, bounds and
piecewise-linear constraints (ReLU, leaky ReLU, max, absolute value, sign,
disjunctions), has an assignment that satisfies a property. Its engine is a
simplex-based search that splits cases; around it sit a backtrackable memory taken
from CVC4, a divide-and-conquer mode with one thread per engine, and many sources of
bounds.

This directory holds TLA+ modules of two sorts. The first are state machines, for the
parts whose correctness is a matter of *state and order*: what is saved and restored
when the search backtracks, who is told of a new bound, which subqueries are open while
several threads divide and count them, which worker writes which bound. The second are
the algorithms that compute a result from an input (bound propagation, simplex,
factorization, preprocessing, encodings, certificates): operators over exact numbers,
run on bounded sets of inputs and compared with what the result is for.

To run a check: `tlc -config Search.cfg Search.tla`; to check a proof:
`tlapm ContextProofs.tla`. The runs, the mapping from definitions to source
lines, the hazards and the theorems are listed in `PROJECT.json`. Source paths below are
relative to `src/src` unless they begin with `deps`.

## 1. Inventory

| Part (source) | State it keeps | Operations | Talks to |
|---|---|---|---|
| Context (`deps/CVC4/context`) | scopes, per object a chain of saved copies | push, pop, construct, write, destroy | everything that declares a `CDO` or `CDList` |
| BoundManager (`engine/BoundManager`) | local bound arrays, their backtrackable copies, tightened flags, consistency flag, first inconsistent tightening | set, tighten, store, restore, propagate | Context; tableau and constraints as watchers |
| PL constraints (`engine/*Constraint`) | active flag, phase, cases left, tightened bounds | notified of bounds, splits, phases | BoundManager, SmtCore, Engine |
| SmtCore | stack of splits, implied splits, split conditions, target | report, split, pop, record, replay | Engine, Context |
| Engine | exit code, quit flag, mode, the components above | `solve`, apply splits, store/restore, reset | all of them |
| Score tracker | ordered set of scores | update, `topUnfixed` | SmtCore, local search |
| Tableau, cost functions, entry rules | matrix, basis, assignment, statuses, costs, weights | pivots, moves, growth, merging, store/restore | Engine, BoundManager |
| Basis factorization | factors, permutations, etas | factorize, update, solve, refresh, store | Tableau |
| Row bound tightener, constraint matrix analyzer | rows examined; a matrix under elimination | learn bounds; find redundant rows | Engine, BoundManager |
| Precision restoration, degradation check | strong/weak choice, basis stored | restore | Engine, Tableau, constraints |
| SoI manager | current phase pattern, accepted one, last proposal | propose, accept, cost | Engine, score tracker |
| DnCManager, DnCWorker | shared queue, counter, stop flag, one engine per thread | divide, pop, solve, push, join | QueryDivider, Engine |
| Query dividers | none of their own; the base engine's constraints | divide a region | Engine, pseudo-impact |
| SignalHandler | list of engines | register, signal | Engine |
| Preprocessor, Query | containers, eliminated and merged variables, removed neurons | once, before the search; the way back of a solution | constraints, network |
| Network level reasoner | layers, bounds; a pool of solver threads | build, merge, simulate, bound analyses | Query, Engine, BoundManager |
| UNSAT proofs | a tree of certificate nodes, explanations | one node per split; the checker | SmtCore, Engine |
| MILP encoder | columns and rows | encode, relax | Gurobi |
| Incremental linearization | query, refinements | refine until SAT or UNSAT | MILP solver |
| CDSmtCore | trail of decisions and implications | decide, backtrack | Context; unused by the engine |
| Parsers, loader, options, bindings, utilities | none that matters | I/O | - |

What is hard:

- **One search, five undo mechanisms.** On a pop, the context restores its
  objects; the bound arrays are copied back by a hook; the constraints come back
  from clones kept with the split; the tableau from a `TableauState` or not at all;
  the split conditions are reset. `popSplit` calls them one by one, and does not call
  all of them when an entry is exhausted. Precision restoration, `reset` between
  subqueries and the replay of a stored stack each use another subset.
- **Callbacks inside a walk.** A constraint told of a bound tightens others while the
  walk over the flags goes on; a bound tightened during a simplex step moves the tableau
  between the choice of the pivot and the pivot.
- **Decisions and their use are apart.** A target is chosen in one place and split on
  in another, after valid splits may have made it inactive.
- **Derived state.** Costs, weights, statuses, counters of nonzeros, permutations,
  column copies of a row matrix, two numberings of one variable: each is updated
  step by step and must stay what it would be if computed anew.
- **Threads.** Workers push, count and refute subqueries in steps that interleave, the
  manager polls, signals arrive; the verdict is computed from what is left. A second
  pool optimizes neurons while the bounds it reads change.
- **Termination.** The main loop continues from a dozen places; workers and the
  manager poll.

What makes each part correct, and the hazards with the line where each one bites,
is in `PROJECT.json` (`hazards`); the properties below are named after them. Eight
hazards have no property. Six do go wrong in the code: the null target of SmtCore.cpp:140
(the model has the step, `SplitOnNull`), and five that the property of their part names as an
exception, without which TLC refutes it: SignConstraint.cpp:203 (`HoldsUpToBorder`),
Preprocessor.cpp:922 (`collides`), MaxConstraint.cpp:504 (`DiscardedOpen`), Engine.cpp:783
(`AsPicked`), Checker.cpp:63 (`RefutedOnPath`). The unlocked list of SignalHandler.cpp:35
is a data race on a container; and putting back an explanation that certifies nothing
(Engine.cpp:3639) has no counterpart in the model, which tries it on a copy.

## 2. The modules

    SnapshotStack  <-- implements --  Context            ContextProofs
    BoundsStack    <-- implements --  BoundManager       BoundManagerProofs
    Box  <-- ReluConstraint, LeakyReluConstraint, AbsoluteValueConstraint,
             SignConstraint, MaxConstraint, DisjunctionConstraint
               <-- composed by --  ConstraintPropagation  ConstraintProofs
                                      Search  SearchProofs  <-- extends --  SearchRestore
                                      DnC                   DnCProofs
                                      ParallelTightening    ParallelProofs
    Rationals
      Network  <-- SymbolicBounds, DeepPoly, LPRelaxation, NetworkConstruction
      BasisFactorization;  Tableau <-- Simplex;  ConstraintMatrix
      MilpEncoder (with the loop of the incremental linearization)
      UnsatCertificate;  Branching;  SoILocalSearch (with the constraints' modules)
      Preprocessor (with Box and the constraints' modules)   PreprocessorProofs (with Loops)
    MCConstraintPropagation: a TLC instance of a state machine
    MCNetwork, MCPreprocessor, MCBasis, MCSimplex, MCUnsatCertificate:
      inputs and properties of the algorithms, composed by MCAlgorithms

`Search` uses the others by what they promise: its `box` and `ctx` are the current
box and the stack of boxes of `BoundsStack`; its `Tighten` and `FixPhase` are the sound
steps of `ConstraintPropagation` and of every bound analysis. `DnC` uses `Search` in
turn: an engine answers SAT or UNSAT soundly for its region. What the algorithms return
is shown to be such a sound step: `NetworkBoundsSound`, `StepsAndVerdictsRight`,
`PreprocessingExact` and `ConstructionExact` say that no solution is lost, which is all
that `Search` assumes of them.

### Context and SnapshotStack

`SnapshotStack` is the promise: `Push` remembers the value of every object, `Pop`
brings all of them back; an object created inside a scope has the default value
below it. `Context` is the code: `level` is `getLevel()`, `scope[o]` is `d_pScope`,
`restore[o]` the list reached by `d_pContextObjRestore`, `chain[l]` the objects with
a node in the intrusive list of scope `l`. `Write` is `makeCurrent()`, `update()` and
the assignment (CDO::set and CDList::push_back); `Pop` is the destructor of the top
scope, `restoreAndContinue()` on each of its nodes; `Destroy` is
`ContextObj::destroy()`. A CDList saves its size only; `RestoredFrom` truncates. The
order of nodes within one scope's list is left out: `restoreAndContinue` treats them
independently. The memory manager of CVC4 (regions freed with the scope) and
notification objects, of which Marabou uses none, are left out.

### BoundManager and BoundsStack

The two local arrays are one function `bound` on keys `<<variable, "LB" | "UB">>`;
`stored` is the context-dependent copy and `saved` what the context will bring back
(the promise of `SnapshotStack`, used here); `consistent` and `first` are
`_consistentBounds` and `_firstInconsistentTightening`. The actions are the engine's
uses, each the whole sequence of calls: `PerformSplit` is `preContextPushHook` and
push; `PopSplit(s)` pop, `postContextPopHook`, `preContextPushHook`, push;
`PopSplitFails` pops with no hook, after which the local arrays belong to no scope
(`synced`) until the engine is reset; `StartSubQuery` is `Engine::reset` and
`applySnCSplit`; `RestorePrecision` runs the hook without a pop and tightens to the
backup. Bounds are integers with a `Tolerance` for FloatUtils. The growth of the
arrays is not modelled; explanations are in `UnsatCertificate`.

`BoundsStack` is the promise: within a scope the box narrows, going back to a scope
brings back the box of its opening.

### The constraints and ConstraintPropagation

`Box` has the bounds, the tightenings and how they take effect. One pure module per kind
of constraint has its `satisfied` (`Holds`), its equations with the auxiliary variables
(`Linear`), its `notifyLowerBound` and `notifyUpperBound` (`Notified`: what it knows
afterwards; `Reaction`: what it tightens), `phaseFixed`, `getImpliedCaseSplit`,
`getCaseSplits` and `getEntailedTightenings`. What a constraint knows (`States`) is its
activity and its phase; for max and disjunction it is the cases left, and for max
the largest lower bound seen. A leaky ReLU has the inverse `k` of its slope, so that
bounds stay integers: what `k` does not divide is rounded outward.

`ConstraintPropagation` composes them with the walk of `propagateTightenings`. A step
(`Tell`) tells one constraint of one flagged bound, in the order in which the constraints
registered. `told` is the value all of them are given, read once before the first: sign,
max, leaky ReLU and absolute value use it, ReLU and disjunction look the bound up. So a
constraint may hear an old value and read new ones, and the model has all such mixtures.
Around the walk are the deductions of the rest of the engine,
`applyAllBoundTightenings`, `applyValidConstraintCaseSplit` and `performSplit`.

One solution of the query (`sol`) is followed: deductions spare it and splits take its
case. As it is arbitrary, what holds of it holds of every solution in the branch being
searched. `dropped` is a history variable: a flag was lowered although a constraint may not
know the bound, either by `ApplyAllBoundTightenings` or because the bound moved while
several constraints were told of it (`Overtaken`). A max is overtaken by itself when it is told of the lower bound of its own
output and raises it.

Assumed or left out: bounds are integers and compared exactly, where the code has a
tolerance; the preprocessor has added the auxiliary variables and applied the entailed
tightenings, so that auxiliary variables are new to their constraint and at least 0
(`QueriesWellFormed`); backtracking, which `BoundManager` and `Search` have; a case split of a sign
or leaky ReLU constraint with a fixed phase, which throws (SignConstraint.cpp:126,
LeakyReluConstraint.cpp:406); a leaky ReLU of slope 1 (see the observations).

### Search and SearchRestore

The engine's main loop and SmtCore over a finite set of points, the assignments
that satisfy the equations. Bounds are a set of points (`box`), a case of a constraint
is a set of points (`problem.piece`), `problem.smooth` are the points that satisfy
the nonlinear constraints, which are never split. Every query over those points is an
initial state. Sound deductions (`Tighten`, `FixPhase`) are open; so are the
target (`Picked`, `TopUnfixed`) and the assignment that simplex returns.

| Code | Model |
|---|---|
| `_stack` entries | `stack`: active split, alternatives, implied valid splits, copy of the constraints' state |
| context levels, `storeLocalBounds` | `ctx` |
| `Engine::solve` at the top of its loop | `pc = "solve"`; after `InfeasibleQueryException`: `"backtrack"` |
| `performDeepSoILocalSearch` | `pc = "search"` with a phase pattern just accepted, whose optimum is looked at (`JudgeOptimum`, `LeaveSearch`); `"propose"` when another is proposed (`RejectProposal`, `AcceptProposal`); `AbandonSearch` |
| `costOfLastAcceptedPhasePattern` | `cost`: 0, or its rank up to `MaxCost` among the costs that patterns can have |
| `performSplit` | `PerformSplit`, `ForgetTarget`, `SplitOnNull` |
| `popSplit`, one round | `PopExhausted`, `PopNothing`, `TryAlternative` |
| `applyAllValidConstraintCaseSplits` | `ApplyAllValidSplits` |
| `reportViolatedConstraint`, `reportRejectedPhasePatternProposal` | `ReportViolated`, `LastRejection` |
| the branch that has a satisfying assignment | `JudgeSatisfying` |
| precision restoration | `RestorePrecision` |
| timeout, quit request, error | `Interrupted` |
| `checkSkewFromDebuggingSolution`, `splitAllowsStoredSolution` | `StackFaithful`, for every solution at once |

An accepted proposal may have any cost, as in `decideToAcceptCurrentProposal`: less than the
last, as much, or at random more; if its optimum is no solution and its cost is not 0, another
is proposed, and only a rejection is counted. Before SAT the code may compute the
assignment again (Engine.cpp:503-516, 3110-3128); in exact numbers it is the same one, and
judging it is one step.

`SearchRestore` adds the option `restoreTreeStates`: after a TIMEOUT the part of a
divided subquery is solved from a replayed stack (`Resume`, `ReplayEntry`,
`Propagate`, `ReplayInfeasible`); `PopBelowZero` is the pop of a context at level 0.

### DnC

One action per access to shared state of `DnCWorker::popOneSubQueryAndSolve`,
`DnCManager::dncSolve` and `DnCManager::solve`: the queue, the counter, the stop flag
and the quit flags. A subquery is a set of points; `Divisions` is what a divider may
return: parts that cover the region. The lock-free queue of boost is a set, since nothing
depends on the order. `dropped` is a history variable: the subqueries deleted without
having been solved. The mode that gives all workers the same whole query
(`parallelDeepSoI`) is left out.

### ParallelTightening

The pool of `ParallelSolver` under LPFormulator, MILPFormulator and IterativePropagator:
a main thread visits the neurons, takes a free solver from the queue and hands the neuron
to a worker with the bounds it has at that moment (`Visit`, `Dispatch`); a worker
optimizes from below and above, compares with the bounds it was given and stores under
the lock (`Solve`); one that finds its model infeasible can only set a flag
(`FindInfeasible`); the main thread joins all of them, then looks (`Finish`). Eight modes
differ in the order of the optimizations, in whether they have threads, and in what stops
them. The solver is external: any bound that holds in every solution. Assumed: the
solutions of a feasible problem lie within the bounds it starts from
(`ProblemsWellFormed`).

### Networks: Network, SymbolicBounds, DeepPoly, LPRelaxation, NetworkConstruction

`Network` has the layers (`nlr/Layer`, `NetworkLevelReasoner`) with evaluation,
simulation, interval arithmetic, merging of weighted sums, elimination and renumbering of
variables and the query generated from a network (of the layer types `Generatable`, sigmoids
included; the code throws on the others); `SymbolicBounds` and `DeepPoly` are the
two symbolic analyses, `LPRelaxation` the rows handed to Gurobi, with the binary ones of
the MILP. `NetworkConstruction` is `Query::constructNetworkLevelReasoner`: layers are
added as long as some kind of layer can be computed from those there are.

Every layer type but softmax. The sigmoid is the curve of a table of rationals with its
derivatives, for what the code's formulas need: monotone, S-shaped, tangent on the right
side. Sources are arbitrary, also several for one weighted sum, which is where DeepPoly
keeps residuals. Where the code is known to be wrong, the properties say so by name
(their guards): see "Further observations".

### Preprocessor

The loop of `Preprocessor::preprocess` to its fixpoint, with the constraints of the
modules above: equations to equalities, auxiliary variables, bounds from equations and
constraints, merging of identical variables, elimination of fixed ones, renumbering; and
`setSolutionValuesOfEliminatedNeurons` and the engine's way back. Numbers are integers of
a small unit, with one symbol `Inf`, and a quotient is rounded away from the interval it
bounds. What the code gets wrong is named in the properties and exempted: a renumbering
that collides (`ConstraintsRenumbered`), a constraint discarded with open inputs
(`DiscardedOpen`), a sign at its border. Variables that are merged without being equal have
a query and a run of their own (`identical_variables`).

### BasisFactorization, Tableau, Simplex, ConstraintMatrix

`BasisFactorization` has the four factorizations (LU and Forrest-Tomlin, dense and
sparse), both eliminators and the three sparse forms: arrays, lists and compressed rows.
Numbers are exact, every choice among pivots that tie is allowed, the refactorization
threshold is 3 for Forrest-Tomlin and 1 otherwise, instead of 100, and the diagonal tolerance 1/4, so that refreshes and rejected pivots happen in
matrices of three. The unit diagonal that sparse F keeps implicitly is implicit here too.

`Tableau` is an operator per operation: assignments, statuses, cost function, entry rules
(Bland, Dantzig, steepest edge), both ratio tests, degenerate and fake pivots, equations
and merged columns, store and restore. The factorization is the inverse of the basis
(`BasisFactorization` shows that it solves like one). Tolerances are fields; the weights
of the steepest edge rule are reset after 4 pivots instead of 1000; memory that is not
initialized holds garbage that the operators carry. `Simplex` is the engine on top:
`performSimplexStep` with its candidate loop, the bound learning between pick and pivot,
`RowBoundTightener`, violated constraints fixed by moving a non-basic variable (with
`USE_SMART_FIX`, which is off by default, and without), heuristic costs, restoration of
the initial state. `ConstraintMatrix` goes from the equations to the first basis:
`ConstraintMatrixAnalyzer`, redundant equations, the triangular start.

### MilpEncoder

The program given to Gurobi as columns, rows, rows under indicators, curves and products,
with the auxiliary equations of `transformToUseAuxVariables` and
`addAuxiliaryEquationsAfterPreprocessing`, on which it relies. A point of the program is
a point of the query with its new columns completed. The sigmoid is an S-shaped stand-in
with rational values, `1/2 + x / (2 (1 + |x|))`. The second half of the module is
`IncrementalLinearization`: candidates are any points that the encoding and the cuts so far
allow, and a candidate off the curve adds cuts or splits.

### UnsatCertificate

Explanations (`proofs/BoundExplainer`), the choice among them in
`explainSimplexFailure`, lemmas of the ReLU, the tree of `SmtCore` with proof production,
and the whole `Checker` with the lemmas and splits of six constraints. A conflict arises
on a row or a sum of two rows in place of a tableau or cost row (any linear combination is
one of those); three tightenings at a node. A constraint the search has split on is disabled:
told of a bound it notes its phase and tightens nothing. The zero vector is the trivial explanation.
`Epsilon` (1/10) is the checker's tolerance.

### SoILocalSearch, Branching

The local search over a finite set of points among which every cost has an optimum;
`MinimizeHeuristicCost` and `MinimizeProposal` take any point where the cost is smallest. Phases change in the
middle of a search only by a precision restoration (`unnoticed` constraints), since
nothing else runs there. The threshold of rejections is 2, the default of the option. `Branching` has
the polarity, BaBSR and interval heuristics, scores, and the two dividers, with what
dividing does to the constraints of the base engine. A relu stands by its `b`; midpoints
are exact; where no direction is preferred the inactive case comes first.

## 3. What is checked

Passing runs, with two workers; distinct states in brackets. All but `algorithms` (three
minutes) and the two of more than 700 000 states (one minute) take less than half a minute.

- `context` (2 526): one value and one list, two scopes, lists of three. Two scopes give
  copies in a bottom, a middle and a top scope; three entries let a list be truncated and
  regrow differently. `ChainsWellFormed`, `SavedSizesOrdered`, `ImplementsSnapshots`.
- `bounds` (2 349): two variables, bounds 0 and 1 (enough to cross), the SnC level and two
  splits above it. `FlagExact`, `BlamedVariableCrosses`, `ScopesNested`,
  `RestorationKeepsBounds`, `ImplementsBoundsStack`.
- `search` (409 595): every query on two points with one constraint of two cases, searched as a
  DnC subquery by the local search, with one bisection of an input. `StackFaithful` (every check
  SmtCore makes of its debugging solution, for every solution at once, and a context level
  per entry), `InactiveHold`, `AnswerRight`, `Termination`, and `StepsForward`, which says why:
  each step leaves less of the search to be done, in an order that has no endless descent. Three
  kinds of steps are excused, see "Fairness". Costs are 0, 1 or 2 (`MaxCost`), so that a proposal
  can be accepted at a lower, an equal or a higher cost than one that is not 0. Two points tell a solution kept from one lost; the
  bisection above or below the constraint gives stacks of two entries, with valid splits implied
  at the root and by an entry. For more of each there are the theorems.
- `search_restore` (1 878 413): a timeout, then the replay of the stack for a part, with
  violation counts instead of the local search (hence `MaxCost` is 0). `UnsatMeansNone`.
- `dnc` (222 512): two workers, one subquery that is divided once or twice, a timeout, a
  signal, an engine error. `CounterExact`, `SolutionsCovered`, `AnswerSound`,
  `EndsUnlessMissed`. `DepthThreshold` 2 lets the parts of the first division run without a
  limit, so that a behaviour has bounded depth as the code intends.
- `propagation` (711 698): seven queries with ReLU, leaky ReLU, absolute value, sign, max and
  disjunction, some of them with two constraints over the same variables; two deductions from
  outside. `SolutionKept`, `FixedPhaseRight`, `DisabledHolds`, `NothingMissed`. Two
  deductions are enough for the second to arrive when phases are fixed, or flags left up, by
  the first; shared variables give reactions behind the walk, ahead of it, and on the bound
  being told.
- `parallel` (113 666): three layers, one of them of eliminated inputs, two solvers, all eight
  modes, values from -1 to 2. `SolutionsKept`, `InfeasibilityHandled`, `BoundsOnlyTighten`,
  `EndsIfSignsAreFixed`. Two solvers make a worker store a bound while the other optimizes
  with the one before.
- `algorithms` (60 525): one state per input or step of an algorithm. `PROJECT.json` says how
  many inputs of which shape; each property is the conjunction of the properties of one
  family, which its MC module names and comments:

| Property | What it says |
|---|---|
| `NetworkBoundsSound` | interval, symbolic and DeepPoly bounds, the linear relaxation and its binary rows hold every run of the network |
| `TransformationsExact` | merging, eliminating and renumbering variables, simulation and the generated query mean the same as the network |
| `ConstructionExact` | the network built from a query, the query left after merging, the mixed-integer program and every cut of the linearization have the same solutions |
| `PreprocessingExact` | no solution is lost or won, constraints are renumbered right, every removed variable gets its value back |
| `FactorizationExact` | the four factorizations solve for the basis they were given, through updates, stores and restores, and refuse singular ones only; sparse forms agree with dense ones |
| `TableauCurrent` | assignment, statuses, costs, weights and factorization are what they would be if computed anew, and so is the first basis |
| `StepsAndVerdictsRight` | steps keep the equations and never worsen the cost, learnt bounds are sound, verdicts right; the local search, the heuristics and the divisions as well |
| `CertificatesRight` | explanations explain, the checker accepts what the engine writes, what it accepts has no solution; its lemmas and splits are sound |

Networks have up to four layers of one or two neurons, matrices three rows, queries three
to five variables: enough for a source shared by two neurons, a residual, a basis that
becomes singular, a variable that is merged and fixed; sums and chains of more terms repeat
what two or three do.

`CHECK_DEADLOCK FALSE` is set where the system really stops: an engine or a manager that is
done, an algorithm that has its result, and `bounds`, whose scopes and bounds are exhausted.

Four runs must find a violation; each checks what a comment of the code says:

- `dnc_hang` (`Ends`): parts are solved before the worker that divided them decrements the
  counter for the whole; that decrement reaches zero unread, and all poll for ever.
- `inconsistent_equations` (`RemovedEquationsFollow`): `removeRedundantEquations` looks at
  the coefficients and not at the scalars, so an equation that contradicts the others
  is removed like one that follows from them.
- `polarity_division` (`PartsSearchedInFull`): to choose the constraint for the next
  division, the divider applies a part to the base engine and pops it; constraints without a
  bound manager keep the bounds and the phase of the part, and workers start from these. With
  two initial divisions by polarity the verdict may be UNSAT although there is a solution.
- `identical_variables` (`IdenticalMerged`): merging leaves coefficients that have become 0 in
  the equations, and `0 b + 0 d = 0` is taken for `b - d = 0` in the same walk: `b` is merged into
  `d`, and solutions are lost. Found by attempting to prove that a merge keeps every solution.

### Fairness

- `Search`: `WF_vars(Next)`. One thread runs the loop; it always takes another step. Nothing
  is assumed of the choice among steps, so `Termination` and `StepsForward` excuse by name
  (`Excused`) the three that may repeat for ever: precision restorations and abandoned local
  searches, which depend on rounding, and proposals accepted although they cost no less than the
  last (`AcceptNoBetter`). The code gives no reason why these should end: one of equal cost is
  accepted with probability 1 (SumOfInfeasibilitiesManager.cpp:272-285), nothing counts it,
  and the loop of Engine.cpp:3094-3176 tests neither the clock nor the quit flag. Without
  the excuse TLC refutes both properties with such a loop.
- `DnC`: weak fairness of each worker thread, of the manager's final step and of its request
  to each engine: the operating system runs every thread. No fairness of `TimeUp` (the time
  limit need not be reached), of signals, or of `Answers`.
- `ParallelTightening`: weak fairness of the main thread and of each worker, for the same
  reason. `EndsIfSignsAreFixed` excepts the iterative mode when a pass fixes no sign.

### Further observations

Found while modelling, without a run of their own. Where a property would be false for one
of these, its definition names the exception.

Search and threads:

- The last rejected proposal sets `_needToSplit`, applies all valid splits and may find nothing
  left to split on; `performSplit` follows a null pointer (SmtCore.cpp:125-140;
  PLConstraintScoreTracker.cpp:58). The model has the step, `SplitOnNull`.
- Replayed entries do not push the context; the first pop leaves the SnC split and the root
  splits behind while their constraints stay inactive, and the answer SAT may come with an
  assignment that violates one. UNSAT stays right, which is proved. A replayed stack may also be
  popped below context level 0 (`PopBelowZero`). `restoreSmtState` catches
  `InfeasibleQueryException` only (Engine.cpp:2967).
- A part refuted between its push and its count makes the counter zero for a moment: everybody
  stops, and the verdict is the branch that "should never happen".
- An engine that answers UNKNOWN reaches the "should not happen" branch of
  DnCWorker.cpp:197-203; `DnC` takes it as one of `Failures`. A signal asks engines to
  quit without telling the manager, which may wait for ever (`QuitUnasked`).
- `handleMalformedBasisException` (Engine.cpp:585-595): the comment "Do a weak restoration" and
  the test next to it point in opposite directions; `PrecisionRestorer` collects
  `targetSplits` and never applies them. `performAdditionalBackwardAnalysisIfNeeded`
  (Engine.cpp:1650) compares with a maximal number of rounds that it never counts.
- The second phase of the whole-MILP and one-layer modes compares with a snapshot taken before
  the first, so a bound may become weaker (`BoundsOnlyTighten` exempts these modes); an
  incumbent overwrites the bound after a timeout (MILPFormulator.cpp:816-818). The iterative
  mode does not quit when a pass fixes no sign (IterativePropagator.cpp:92-136).

Constraints:

- `applyAllBoundTightenings`, called before SAT is judged "to make sure there are no valid case
  splits that we do not know of", lowers the flags and tells nobody (Engine.cpp:2110-2145). A
  flag is lowered after the constraints were told, also when one of them tightened that bound
  meanwhile (BoundManager.cpp:273-283). A max told of the lower bound of its own output may
  raise it, and is not told again (MaxConstraint.cpp:155-204). The three cost splits, not
  soundness; they are the exceptions of `NothingMissed`, the third found by its proof.
- At b = 0 the negative split of a sign, `b <= 0` and `f <= -1`, admits a point that violates
  the constraint (`HoldsUpToBorder`); so do the MILP encoding and the cost of the local search.
- A leaky ReLU accepts a slope of 1 or more, and its split is then wrong
  (LeakyReluConstraint.cpp:46, 69, 161); its fixed phase is overwritten at b = f = 0; case
  splits of a fixed leaky ReLU or sign throw (LeakyReluConstraint.cpp:406,
  SignConstraint.cpp:126, 169).
- A cut of the sigmoid through the neighbours of a candidate may cut off the curve
  (SigmoidConstraint.cpp:329, 361, 398; `LeavesCurve`).

Networks, preprocessor, encodings:

- SBT takes the slope of a sigmoid's chord from stale bounds (Layer.cpp:2291), caps the
  symbolic upper bound of a leaky ReLU by the bound of its input (2187-2190), drops biases of
  the sources of a bilinear neuron and gives one with two eliminated sources the interval 0
  (3081-3131); a fixed round neuron clears one entry (2480-2486). `computeSimulations` reads
  the source at its own index for sign, round and sigmoid, and adds biases once per source layer.
- `mergeWSLayers` assumes adjacent layers and adds a bias once per source (783-795); of two
  equations that define one new variable merging drops one (Query.cpp:939-962). The inputs of
  a first softmax, the elements of a first max and bilinear inputs are never compared with the
  layer they come from (Query.cpp:1735-1999).
- A renumbering may swap the fields of a constraint when two variables collide; a constraint
  whose output is fixed is dropped although its inputs are open (absolute value, max, round,
  sigmoid).
- `optimizeWithGurobi` returns +infinity for an infeasible model also when it minimizes; a
  leaky ReLU with an eliminated source is given `max(v, 0)` (LPFormulator.cpp:1631-1636).

Simplex and proofs:

- `_leavingVariableIncreases` is stale after a fake pivot (Engine.cpp:783-786);
  `computeGivenCostFunction` adds to what is left in `_basicCosts`; equations added in a split
  stay after the pop with their auxiliary bounds at [0, 0]; Tableau.h:350 says that
  `storeState` stores bounds, which it does not.
- `CSRMatrix::mergeColumns` and `SparseUnsortedArray::mergeEntries` lose entries in some orders
  (CSRMatrix.cpp:308-377); the dense eliminator overlooks a zero column when it has a
  candidate; `Tableau::getValue` follows one merge only (495-498).
- `getCostReduction` picks the smallest reduction where its comment says the largest
  (SumOfInfeasibilitiesManager.cpp:384-407), BaBSR the smallest score where its comment says
  the highest; a local search may loop on a plateau of equal
  costs for ever, timeout or not (`AcceptNoBetter`, see "Fairness").
- The checker returns early without restoring its ground bounds (Checker.cpp:63-82), accepts an
  unvisited node without contradiction (77), and does not check that the causes of a max lemma
  cover all elements (948-997); an all-zero contradiction leaves its variable uninitialized.

## 4. What is proved

TLAPS checks 41 theorems, and the lemmas under them, for every value of the constants, from
the named `ASSUME`s of the modules, which TLC evaluates in each run:

| Module | Assumed |
|---|---|
| Context | bounds are naturals; cells and lists differ; the default is a value, absence is not |
| BoundManager | bounds and the tolerance are numbers; the maximal level is positive; `SnC` is a flag |
| ConstraintPropagation | bounds are numbers; queries are as the preprocessor leaves them (`QueriesWellFormed`: distinct participating variables, auxiliary variables new and at least 0, slopes `1/k` with k at least 2, a max whose output is not among its elements) |
| Search | finitely many constraints and cases, at least one case; thresholds and the largest cost are numbers |
| DnC | finitely many workers, a positive number of parts |
| ParallelTightening | each neuron is in one place of one layer; values are numbers below `Infinity`; a feasible problem's solutions lie within its first bounds; `None` is not a job |

Every safety invariant and action property of the state machines' runs is the statement of a
theorem. The argument is the same each time: an inductive invariant stronger than the
property, a lemma per action that says that it is kept, and a theorem per property.

- **Context** (`ContextProofs`). `Inv` = types, `ChainsWellFormed`, `SavedSizesOrdered` is
  inductive. The proof goes by object (`InvByObject`): an action changes one object, except
  `Push` and `Pop`, and a lemma says what a write, a restoration and a relocation do to one
  chain of nodes. `Refinement`: `Spec => ImplementsSnapshots`. A write leaves what
  every lower level would restore (`WriteKeepsOldValues`), and truncating a list twice is
  truncating it to the smaller size (`RestoreTwice`), for which `SavedSizesOrdered` is needed.
- **BoundManager** (`BoundManagerProofs`). `TypeCorrect`, `FlagIsExact`, `BlameIsRight`,
  `ScopesAreNested`, `RestorationIsNeutral`, `Refinement` to `BoundsStack`. The invariant adds
  `Blame`: the blamed variable crosses in the current box whenever that is
  inconsistent, also when the local arrays belong to no scope, and in every saved box that is
  inconsistent; and `Untouched`: an SnC engine that has had no subquery has bounds equal to
  the stored ones.
- **Constraints** (`ConstraintProofs`). `PropagationTypeOK`, `SolutionAlwaysKept`,
  `FixedPhaseAlwaysRight`: the solution is inside the box, each constraint is right about it
  (its fixed phase is the solution's; the solution's case is among those left), and the
  value being told spares it. Each kind has two lemmas, that `Notified` stays right and that
  `Reaction` spares the solution; they assume of the box only that the solution is inside,
  so the order of notifications and the age of the value told do not matter.
  `DisabledAlwaysHolds` adds `Shut` (the box is within a split of every disabled constraint,
  which tightening cannot undo) and `Preprocessed` (it is within the bounds the preprocessor
  has entailed). `NothingIsMissed` needs the most: `Floor` (a max knows at least what the
  preprocessor eliminated of it), `Moving` (the bound being told has moved, and inwards, if
  anybody who watches it has been told) and `Informed` (while none of the exceptions has
  occurred, each constraint knows every bound but those pending, its own reactions
  included). The lemmas say for each kind that knowing a bound survives any reaction of any
  other.
  The same module proves what the local search (`SoILocalSearch`) rests on.
  `CostsMeasureViolation`: at a point within the bounds and on the equations of the
  preprocessor, cost terms are not negative and measure the violation. `LocalSearchIsRight`,
  for a sequence of any length of the search's steps: the point of a rejected proposal, which
  is not looked at, is no solution (the comment at Engine.cpp:3101-3120), and what is returned
  as one is. Its invariant is that the cost is that of the accepted pattern and positive
  while there are proposals, and that no satisfied constraint has a term above zero, which is why
  the pattern is updated before the cost is computed. The hypothesis `WellPosed` is what the
  simplex and the preprocessor leave: integral points on the equations and within the
  bounds, a max with a case left that is the case if it holds, and a network
  whose evaluation satisfies the constraints. The queries of the run `algorithms` satisfy it,
  their variables counted from 0.
- **Search** (`SearchProofs`). `TypeCorrect`, `StackIsFaithful`, `InactiveConstraintsHold`,
  `AnswerIsRight`. The invariant adds `Within` and `Kept` (a solution is in the box and allowed
  by all splits, or the first entry that excludes it has it in an alternative and in the
  bounds of its level), `PhaseRight` (a phase found fixed is right within the
  bounds), and for each entry that the flags and phases it will bring back are right for the
  bounds it will bring back (`InactiveHoldLater`, `NoneKnownLater`).
  `RestoredAnswerIsRight` is about `SearchRestore`, where that invariant is false: an entry may
  have no level, and an inactive constraint may be violated. UNSAT is right all the same,
  by `KeptOrPromised`: a solution that is not in the box is in an alternative of an
  entry that has a level, or in an entry still to be replayed; a pop without a level ends in
  an exception and never in an answer.
  `SearchMovesForward` is `Spec => StepsForward`: every step but the three excused lowers
  `Remaining` in the first component in which it changes. Its components are the
  alternatives ahead at each level, the active constraints, the open phases, the bounds, the
  stage of the round, the rejections and reports left, and the optima left to look at
  (`LooksLeft`: a proposal accepted at a lower cost leaves fewer). It needs `Bounded`: each level
  took a constraint out of the search or had leave to bisect, so there are no more levels
  than constraints plus `IntervalDepth`, and a local search begins with an active
  constraint and no request to split. `NoEndlessSearch`: for finitely many assignments
  each step that is not excused goes from one sequence of finite sets to a lower one of the
  same length, in one order (`Falling`), and that order is well-founded. So a search that takes
  steps for ever restores the precision, abandons local searches or accepts proposals that
  cost no less for ever: all of `Termination` but its last, temporal step.
- **DnC** (`DnCProofs`). `Invariance`, `TypeCorrect`, `CounterIsExact`, `NoSolutionIsLost`,
  `AnswerIsSound`. The invariant adds `Places` (every subquery, known by the identity of
  its allocation, is in one place only: queued, held by one worker, about to be pushed by one
  worker, or dropped), `SatKept` and `UnsatRight`. A counter at zero with all workers gone
  means an empty queue and nothing dropped.
  `NobodyWaitsForNothing` is `Spec => []IdleExcused`: if all workers poll an empty queue and
  nobody has told them to quit, either the counter is 0 and some worker's last answer was a
  timeout (a division into subqueries that others had finished, after which nobody looks at the
  counter), or a subquery was dropped because of a signal. The invariant adds `Paths` (what each
  label says of the worker's result, its parts and the signal) and `ZeroSeen` (a counter at 0
  with nobody told to quit has a worker that is about to look at it, or one that timed out).
  These are the excuses of `EndsUnlessMissed`, and no others are needed.
  `ThreadsMoveForward` is `Spec => StepsForward`: every step lowers `Remaining` in the first
  component in which it changes, except that of a worker that finds nothing to do, and that
  changes none. Its components are, depth by depth, the undecided subqueries that may be divided
  again, then who and what is at each place in the order in which it gets there: parts to push,
  the queue, the labels, the workers not gone, those not asked to quit, and what the manager
  has yet to notice. It needs `Timely`: no subquery with a time limit is deeper than
  `DepthThreshold` allows, only such a one times out, and the manager's timeout stops
  everybody. `NoEndlessWork`: `Remaining` is always a sequence of finite sets of one length, on
  which that order is well-founded. So whatever the order of the threads, from some point on they
  only poll; if they are polling because there is nothing else to do, `IdleExcused` says for
  what. What is left of `EndsUnlessMissed` is its temporal step: a fair scheduler takes a step
  that is not a poll as long as there is one.
- **ParallelTightening** (`ParallelProofs`). `TypesAreKept`, `EverySolutionKept`,
  `EveryInfeasibilityHandled`, `NoBoundWeakens`. The invariant: the stored bounds hold every
  solution of a feasible problem (`Kept`); the threads work on neurons the main thread has
  passed, each on its own (`EachItsOwn`), so a thread's copy of a bound it has still to
  optimize is the present one (`JobsCurrent`); the flag is up only if there is no solution,
  and always when a bound is infinite (`FlagRight`); when the call is over every thread has
  been joined (`OverWhenJoined`); the incremental modes have one thread (`OneThread`), and the
  main thread waits only with a neuron that needs a solver (`WaitsForNeuron`).

- **Preprocessor** (`PreprocessorProofs`, with `Loops`). An algorithm in place of a state
  machine: its loops over rounds, equations, addends, constraints and the variables of a
  constraint are recursive functions. `Loops` takes the step of a loop and what it keeps as
  constant operators and proves once, by a least counterexample, that the function is the
  course of the loop and that what each step keeps holds at its end (`CourseExists`,
  `CourseKeeps`); each loop is an instance of it, and so is the sum of an equation's addends.
  `TighteningKeepsSolutions`: take a point and a query it solves (`Queries(n, p)`: it is in
  the bounds, and each equation and constraint holds of it, auxiliary variables included).
  After any number of rounds the query is one of `Queries(n, p)` again, and nothing has
  called it infeasible. A bound implied by an equation is right because the sum of the other
  addends' extremes bounds what they add up to (`SumGrows`, `SumExcept`), rounded outward; the
  cases a max drops are not that of the point (`MaxKnows`). Values are at most half of `Inf`
  (`Moderate`), because a bound above that is taken for infinite.
  `PreprocessingKeepsSolutions` begins with the query as it is given (`Stated`, `Untold`:
  inequalities, repeated variables in an equation, constraints without auxiliary variables)
  and covers the preparation too. Each inequality and each constraint gets new variables,
  and the solution gets values for them one after the other (`Continues`); what is already
  prepared holds of the longer point (`SumContinues`), and the new bounds contain
  its values. The sum of an equation whose repeated variables are collected is the same
  (`ConsolidatedSum`, by exchanging two sums). The result: some continuation of the
  solution solves the query prepared and the query tightened. Values are at most a quarter
  of `Inf` there, because an auxiliary variable is a difference of two of them, and a max is not
  among its own elements. Variables are not eliminated in it (`attempt` is FALSE).
  `PreprocessingGainsNothing` is the way back, again without elimination: a point in the
  bounds of the query tightened, of which its constraints hold, solves the query given. It is
  proved from the last step to the first. A round only tightens bounds, takes cases from a
  max, and drops equations all of whose variables are fixed, at values that satisfy them
  (`Back`, `SaturatedBack`, `Thinned`). The auxiliary variables and equations of the
  preparation only restrict the query, and they are why a max from which the rounds took an
  element is still not below that element: the difference is an auxiliary variable, and
  that is not negative (`TransformationBack`, `Dominates`). The slack of an
  inequality has the sign it was given (`EqualityBack`), and addends collected add up as
  before (`ConsolidationBack`). Nothing is supposed of the size of the values, nor that the query
  has a solution. The two theorems together: preprocessing without elimination is exact.
  `MergingKeepsSolutions`: neither does a merge of identical variables lose the point,
  if the coefficients of the equation are not 0 and its two variables differ. Without these
  hypotheses it is false: that is the finding `identical_variables`. The attempt also found the model of
  `MaxConstraint::updateVariableIndex` wrong when two elements become one; it has been
  corrected to the code, where the auxiliary variable written last stays.

Only model-checked:

- **Liveness** (`Termination`, `EndsUnlessMissed`, `EndsIfSignsAreFixed`): fairness and
  `ENABLED` are out of this prover's reach. For the search and for the
  threads the proofs stop just before that.
- **The eight properties of `algorithms`.** Most of their modules declare recursive operators
  or sum rationals in lowest terms, which no installed prover can reason about. Of
  `PreprocessingExact` it is proved, as above, that the preparation and the tightening neither
  lose nor gain a solution and that the merging loses none; what comes after (elimination of
  fixed and merged variables, renumbering, the values they get back) is only checked.
  Of `StepsAndVerdictsRight` the cost terms and the local search are proved, but not that a
  proposal differs from the accepted pattern, nor its other algorithms.
  What one constraint does in isolation is proved in `ConstraintProofs`, which uses the
  constraints' modules directly.

## 5. Not modelled

- Floating point. Numbers are exact in every module; a tolerance is there where the code
  compares with one (BoundManager, Simplex, checker). If rounding breaks what a
  deduction or an assignment promises, the models say nothing.
- Precision restoration: what it does to bounds, flags and stack is in `BoundManager` and
  `Search`; the choice between strong and weak, the tableau part and the measure of degradation
  are not.
- Softmax; disjuncts with equations; a max whose output is among its elements.
- CDSmtCore: written to replace SmtCore, and used by nothing.
- `parallelDeepSoI`, `solveWithMILPEncoding`, the orchestration of bound analyses before and
  during the search; `registerNewVariable`; the list of SignalHandler.
- Parsers, query loader, options, Python bindings, simulator, statistics, entry points: I/O and
  configuration.

`map` in `PROJECT.json` lists the definitions that model code. A helper whose lines lie within
those of the definition that uses it is not listed separately.

## 6. Plan

Done: the modules and theorems above. What is left:

1. Lemmas of the checker and of the splits it accepts, for all rationals; `Rationals` would need
   fractions that are compared without being put in lowest terms.
2. The rest of the preprocessor with `Loops`: the elimination and renumbering where no index
   collides, and the way back.
3. The control of precision restoration (Engine.cpp:543-603, 2263-2310), composed with
   `BoundManager` and `Search`.
4. Disjuncts with equations, in `DisjunctionConstraint` and `MilpEncoder`.
5. CDSmtCore, against an abstract stack of decisions, composed with Context.
