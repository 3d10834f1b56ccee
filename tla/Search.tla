------------------------------- MODULE Search -------------------------------
(***************************************************************************)
(* The case-splitting search of an engine: the stack of splits of SmtCore, *)
(* the context underneath it, the active flags and phases of the           *)
(* piecewise-linear constraints, and the main loop of Engine::solve.       *)
(*                                                                         *)
(* The arithmetic is abstracted to a finite set of points, the assignments *)
(* that satisfy the equations.  The bounds are the set of points they      *)
(* allow (box); a case split is the set of points it allows; a deduction   *)
(* (bound tightening, a phase found fixed, an LP found infeasible) is any  *)
(* step that is sound for the constraints of the query.  Which deductions  *)
(* are made, which constraint is picked and which assignment the simplex   *)
(* returns are left open, so everything below is about the bookkeeping.    *)
(***************************************************************************)
EXTENDS Integers, Sequences, FiniteSets, TLC

CONSTANTS
    Points,             \* the assignments that satisfy the equations
    Constraints,        \* the piecewise-linear constraints
    Phases,             \* the phases, or cases, of a constraint
    NotFixed,           \* PHASE_NOT_FIXED
    None,               \* a null pointer
    Interval,           \* the disjunction made to bisect an input variable
    DeepSoI,            \* GlobalConfiguration::USE_DEEPSOI_LOCAL_SEARCH
    SnC,                \* _sncMode: the search is that of a DnC subquery
    Threshold,          \* violations, or rejected proposals, before a split
    IntervalDepth,      \* stack depth below which inputs may be bisected
    MaxCost             \* the costs phase patterns can have, ranked; zero cost is 0

ASSUME ConstraintsAreFinite == IsFiniteSet(Constraints) /\ IsFiniteSet(Phases)
ASSUME ConstraintsHaveCases == Phases # {}
ASSUME ThresholdIsPositive == Threshold \in Nat \ {0}
ASSUME DepthIsANumber == IntervalDepth \in Nat
ASSUME CostsAreNumbers == MaxCost \in Nat
ASSUME NamesAreDistinct ==
    NotFixed \notin Phases /\ None \notin Constraints \cup {Interval}
    /\ Interval \notin Constraints

Regions == SUBSET Points

VARIABLES
    problem,        \* the query: the cases of every constraint, the smooth part
    region,         \* the part of the input the search is about
    box,            \* the points the current bounds allow
    ctx,            \* the bounds the context brings back, one box per level
    active, phase,  \* per constraint: isActive(), getPhaseStatus()
    stack,          \* SmtCore::_stack
    rootImplied,    \* _impliedValidSplitsAtRoot
    needToSplit,    \* _needToSplit
    target,         \* _constraintForSplitting
    rejected,       \* _numRejectedPhasePatternProposal
    cost,           \* costOfLastAcceptedPhasePattern
    violations,     \* _constraintToViolationCount
    pc,             \* where the engine is
    exitCode,       \* _exitCode
    witness         \* the assignment reported with SAT

query == <<problem, region>>
plState == <<active, phase>>
splitState == <<needToSplit, target, rejected, violations>>
outcome == <<exitCode, witness>>
vars == <<query, box, ctx, plState, stack, rootImplied, splitState, cost, pc, outcome>>

\* The points where c holds, those of its cases
Holds(c) == UNION {problem.piece[c][ph] : ph \in Phases}

Solutions ==
    {p \in region : p \in problem.smooth /\ \A c \in Constraints : p \in Holds(c)}

PLState == [active |-> active, phase |-> phase]

Last(s) == s[Len(s)]
Front(s) == SubSeq(s, 1, Len(s) - 1)

Active == {c \in Constraints : active[c]}
Candidates == {c \in Active : phase[c] = NotFixed}  \* hasBranchingCandidate

\* The valid splits of the constraints whose phase is known, all at once
PendingValid == Active \ Candidates
ValidRegions == {problem.piece[c][phase[c]] : c \in PendingValid}

AllowedBy(regions) == {p \in Points : \A r \in regions : p \in r}
-----------------------------------------------------------------------------
\* A search starts with nothing split, at the level of the SnC split if any
Init ==
    /\ problem \in [piece : [Constraints -> [Phases -> Regions]], smooth : Regions]
    /\ region \in IF SnC THEN Regions ELSE {Points}
    /\ box = region
    /\ ctx = IF SnC THEN <<Points>> ELSE <<>>
    /\ active = [c \in Constraints |-> TRUE]
    /\ phase = [c \in Constraints |-> NotFixed]
    /\ stack = <<>>
    /\ rootImplied = {}
    /\ needToSplit = FALSE
    /\ target = None
    /\ rejected = 0
    /\ violations = [c \in Constraints |-> 0]
    /\ cost = 0
    /\ pc = "solve"
    /\ exitCode = "NOT_DONE"
    /\ witness = None

\* The constraints stop being active, their phase's case is applied
ApplyValid(applied) ==
    /\ active' = [c \in Constraints |-> active[c] /\ c \notin PendingValid]
    /\ box' = box \cap AllowedBy(applied)

\* Mutant of RecordImplied: every implied split goes to the root
RecordAtRoot(applied) ==
    /\ rootImplied' = rootImplied \cup applied
    /\ UNCHANGED stack

\* recordImpliedValidSplit: with the split they follow from, or at the root
RecordImplied(applied) ==
    IF stack = <<>>
    THEN /\ rootImplied' = rootImplied \cup applied
         /\ UNCHANGED stack
    ELSE /\ stack' = [stack EXCEPT ![Len(stack)].implied = @ \cup applied]
         /\ UNCHANGED rootImplied

\* Mutant of ApplyAllValidSplits: the cases are recorded but not applied
DisableAllValid ==
    /\ active' = [c \in Constraints |-> active[c] /\ c \notin PendingValid]
    /\ RecordImplied(ValidRegions)
    /\ UNCHANGED box

\* applyAllValidConstraintCaseSplits
ApplyAllValidSplits ==
    /\ ApplyValid(ValidRegions)
    /\ RecordImplied(ValidRegions)

ApplyValidSplits ==
    /\ pc = "solve"
    /\ PendingValid # {}
    /\ ApplyAllValidSplits
    /\ UNCHANGED <<query, ctx, phase, splitState, cost, pc, outcome>>

\* Tighter bounds, by any sound deduction: no solution leaves the box
Tighten ==
    /\ pc \in {"solve", "search", "propose"}
    /\ \E b \in SUBSET box :
        /\ b # box
        /\ box \cap Solutions \subseteq b
        /\ box' = b
    /\ UNCHANGED <<query, ctx, plState, stack, rootImplied, splitState, cost, pc,
                   outcome>>

\* A constraint told of a bound finds that only one of its cases is left
FixPhase ==
    /\ pc \in {"solve", "search", "propose"}
    /\ \E c \in Candidates, ph \in Phases :
        /\ box \cap Holds(c) \subseteq problem.piece[c][ph]
        /\ phase' = [phase EXCEPT ![c] = ph]
    /\ UNCHANGED <<query, box, ctx, active, stack, rootImplied, splitState, cost, pc,
                   outcome>>

\* What pickSplitPLConstraint can come up with; it may also find nothing
Picked == Candidates \cup IF Len(stack) < IntervalDepth THEN {Interval} ELSE {}

\* PLConstraintScoreTracker::topUnfixed, when the branching heuristic finds
\* nothing; there is no score tracker without the local search
TopUnfixed == IF DeepSoI /\ Candidates # {} THEN Candidates ELSE {None}

\* The proposal that reaches the threshold: apply what is known, then pick
LastRejection ==
    /\ rejected' = Threshold
    /\ needToSplit' = TRUE
    /\ ApplyAllValidSplits
    /\ target' \in Picked \cup TopUnfixed

\* reportViolatedConstraint
ReportViolated(c) ==
    /\ violations' = [violations EXCEPT ![c] = IF @ < Threshold THEN @ + 1 ELSE @]
    /\ IF violations'[c] >= Threshold
       THEN /\ needToSplit' = TRUE
            /\ target' \in Picked \cup {c}
       ELSE UNCHANGED <<needToSplit, target>>
    /\ UNCHANGED rejected

Finish(code, p) ==
    /\ pc' = "done"
    /\ exitCode' = code
    /\ witness' = p

Satisfied(p) == \A c \in Active : p \in Holds(c)

\* The assignment p satisfies every active constraint: the rest of the round
JudgeSatisfying(p) ==
    \/ /\ p \in problem.smooth
       /\ Finish("SAT", p)
       /\ UNCHANGED <<box, active, stack, rootImplied, splitState>>
    \/ /\ p \notin problem.smooth
       /\ Candidates = {}
       /\ Finish("UNKNOWN", None)
       /\ UNCHANGED <<box, active, stack, rootImplied, splitState>>
    \/ /\ p \notin problem.smooth
       /\ Candidates # {}
       /\ LastRejection
       /\ pc' = "solve"
       /\ UNCHANGED <<violations, outcome>>

\* The simplex has found p within the bounds, and all valid splits are applied
CheckAssignment ==
    /\ pc = "solve"
    /\ ~needToSplit
    /\ PendingValid = {}
    /\ \E p \in box :
        \/ /\ Satisfied(p)
           /\ JudgeSatisfying(p)
           /\ UNCHANGED cost
        \/ /\ ~Satisfied(p) /\ DeepSoI
           /\ pc' = "search"
           /\ cost' \in 0 .. MaxCost
           /\ UNCHANGED <<box, active, stack, rootImplied, splitState, outcome>>
        \/ /\ ~DeepSoI
           /\ \E c \in Active : p \notin Holds(c) /\ ReportViolated(c)
           /\ UNCHANGED <<box, active, stack, rootImplied, cost, pc, outcome>>
    /\ UNCHANGED <<query, ctx, phase>>

\* performDeepSoILocalSearch, with a phase pattern just accepted: its optimum is looked
\* at.  It satisfies every active constraint, or another pattern is to be proposed
JudgeOptimum ==
    /\ pc = "search"
    /\ \E p \in box :
        \/ Satisfied(p) /\ JudgeSatisfying(p)
        \/ /\ ~Satisfied(p)
           /\ cost # 0
           /\ pc' = "propose"
           /\ UNCHANGED <<box, active, stack, rootImplied, splitState, outcome>>
    /\ UNCHANGED <<query, ctx, phase, cost>>

\* ... or its cost is zero, and the search has nothing left to minimize
LeaveSearch ==
    /\ pc = "search"
    /\ cost = 0
    /\ \E p \in box : ~Satisfied(p)
    /\ \/ /\ Candidates # {}
          /\ LastRejection
          /\ UNCHANGED violations
       \/ /\ Candidates = {}
          /\ UNCHANGED <<box, active, stack, rootImplied, splitState>>
    /\ pc' = "solve"
    /\ UNCHANGED <<query, ctx, phase, cost, outcome>>

\* Mutant of RejectProposal: the threshold is not looked at
RejectForever ==
    /\ pc = "propose"
    /\ rejected' = rejected + 1
    /\ UNCHANGED <<query, box, ctx, plState, stack, rootImplied, needToSplit, target,
                   cost, pc, violations, outcome>>

\* The optimum of the next proposal is computed: it is rejected
RejectProposal ==
    /\ pc = "propose"
    /\ IF rejected + 1 >= Threshold
       THEN /\ LastRejection
            /\ pc' = "solve"
       ELSE /\ rejected' = rejected + 1
            /\ UNCHANGED <<box, active, stack, rootImplied, needToSplit, target, pc>>
    /\ UNCHANGED <<query, ctx, phase, violations, cost, outcome>>

\* ... or accepted: it may cost less than the last, as much, or, at random, more.
\* Neither _numRejectedPhasePatternProposal nor anything else counts this
AcceptProposal ==
    /\ pc = "propose"
    /\ cost' \in 0 .. MaxCost
    /\ pc' = "search"
    /\ UNCHANGED <<query, box, ctx, plState, stack, rootImplied, splitState, outcome>>

\* ... or VariableOutOfBoundDuringOptimizationException ends the search
AbandonSearch ==
    /\ pc \in {"search", "propose"}
    /\ pc' = "solve"
    /\ UNCHANGED <<query, box, ctx, plState, stack, rootImplied, splitState, cost,
                   outcome>>

\* The case splits of the target, in the order the constraint gives them
CaseSplits ==
    IF target = Interval
    THEN {halves \in (Regions \ {Points}) \X (Regions \ {Points}) : halves[1] \cup halves[2] = Points}
    ELSE {[i \in 1 .. Cardinality(Phases) |-> problem.piece[target][order[i]]] :
            order \in {f \in [1 .. Cardinality(Phases) -> Phases] :
                         \A i, j \in DOMAIN f : i # j => f[i] # f[j]}}

\* Mutant of ForgetTarget: the counters are reset, the request to split is not
ForgetCounters ==
    /\ pc = "solve"
    /\ needToSplit
    /\ target \in Constraints \ Active
    /\ rejected' = 0
    /\ violations' = [violations EXCEPT ![target] = 0]
    /\ UNCHANGED <<query, box, ctx, plState, stack, rootImplied, needToSplit, target,
                   cost, pc, outcome>>

\* performSplit, when the target is no longer active: it is forgotten
ForgetTarget ==
    /\ pc = "solve"
    /\ needToSplit
    /\ target \in Constraints \ Active
    /\ needToSplit' = FALSE
    /\ target' = None
    /\ rejected' = 0
    /\ violations' = [violations EXCEPT ![target] = 0]
    /\ UNCHANGED <<query, box, ctx, plState, stack, rootImplied, cost, pc, outcome>>

\* performSplit without a target: a null pointer is followed
SplitOnNull ==
    /\ pc = "solve"
    /\ needToSplit
    /\ target = None
    /\ pc' = "crash"
    /\ UNCHANGED <<query, box, ctx, plState, stack, rootImplied, splitState, cost,
                   outcome>>

\* performSplit.  The target is disabled before the state is stored, so that it
\* stays disabled in every alternative; then the bounds are stored, the context
\* is pushed and the first case applied
PerformSplit ==
    /\ pc = "solve"
    /\ needToSplit
    /\ PendingValid = {}
    /\ target \in Active \cup {Interval}
    /\ active' = [c \in Constraints |-> active[c] /\ c # target]
    /\ ctx' = Append(ctx, box)
    /\ \E splits \in CaseSplits :
        /\ box' = box \cap splits[1]
        /\ stack' = Append(stack, [current |-> splits[1], alts |-> Tail(splits),
                                   implied |-> {}, pl |-> [active |-> active', phase |-> phase]])
    /\ needToSplit' = FALSE
    /\ target' = None
    /\ rejected' = 0
    /\ UNCHANGED <<query, phase, rootImplied, violations, cost, pc, outcome>>

\* InfeasibleQueryException: the simplex, or crossing bounds, refute the box
Infeasible ==
    /\ pc \in {"solve", "search", "propose"}
    /\ box = {}
    /\ pc' = "backtrack"
    /\ UNCHANGED <<query, box, ctx, plState, stack, rootImplied, splitState, cost,
                   outcome>>

\* popSplit, with an entry that has no alternatives left on top: the context
\* is popped, but neither the bounds nor the constraints are restored
PopExhausted ==
    /\ pc = "backtrack"
    /\ stack # <<>>
    /\ Last(stack).alts = <<>>
    /\ ctx' = Front(ctx)
    /\ stack' = Front(stack)
    /\ UNCHANGED <<query, box, plState, rootImplied, splitState, cost, pc, outcome>>

\* popSplit, with nothing left on the stack
PopNothing ==
    /\ pc = "backtrack"
    /\ stack = <<>>
    /\ Finish("UNSAT", None)
    /\ UNCHANGED <<query, box, ctx, plState, stack, rootImplied, splitState, cost>>

\* Mutant of TryAlternative: the active flags are not restored
TryWithActive ==
    /\ pc = "backtrack"
    /\ stack # <<>>
    /\ LET entry == Last(stack) IN
        /\ entry.alts # <<>>
        /\ active' = active
        /\ phase' = entry.pl.phase
        /\ box' = Last(ctx) \cap Head(entry.alts)
        /\ stack' = [stack EXCEPT ![Len(stack)] =
                        [@ EXCEPT !.current = Head(entry.alts), !.alts = Tail(entry.alts),
                                  !.implied = {}]]
    /\ needToSplit' = FALSE
    /\ rejected' = 0
    /\ violations' = [c \in Constraints |-> 0]
    /\ pc' \in IF box' = {} THEN {"solve", "backtrack"} ELSE {"solve"}
    /\ UNCHANGED <<query, ctx, rootImplied, target, cost, outcome>>

\* Mutant of TryAlternative: the alternative stays on the stack
TryAgain ==
    /\ pc = "backtrack"
    /\ stack # <<>>
    /\ LET entry == Last(stack) IN
        /\ entry.alts # <<>>
        /\ active' = entry.pl.active
        /\ phase' = entry.pl.phase
        /\ box' = Last(ctx) \cap Head(entry.alts)
        /\ stack' = [stack EXCEPT ![Len(stack)] =
                        [@ EXCEPT !.current = Head(entry.alts),
                                  !.implied = {}]]
    /\ needToSplit' = FALSE
    /\ rejected' = 0
    /\ violations' = [c \in Constraints |-> 0]
    /\ pc' \in IF box' = {} THEN {"solve", "backtrack"} ELSE {"solve"}
    /\ UNCHANGED <<query, ctx, rootImplied, target, cost, outcome>>

\* popSplit, with an alternative: pop, bounds and constraints restored, split
\* conditions reset, push, next alternative applied.  If its bounds cross the
\* loop of popSplit goes on
TryAlternative ==
    /\ pc = "backtrack"
    /\ stack # <<>>
    /\ LET entry == Last(stack) IN
        /\ entry.alts # <<>>
        /\ active' = entry.pl.active
        /\ phase' = entry.pl.phase
        /\ box' = Last(ctx) \cap Head(entry.alts)
        /\ stack' = [stack EXCEPT ![Len(stack)] =
                        [@ EXCEPT !.current = Head(entry.alts), !.alts = Tail(entry.alts),
                                  !.implied = {}]]
    /\ needToSplit' = FALSE
    /\ rejected' = 0
    /\ violations' = [c \in Constraints |-> 0]
    /\ pc' \in IF box' = {} THEN {"solve", "backtrack"} ELSE {"solve"}
    /\ UNCHANGED <<query, ctx, rootImplied, target, cost, outcome>>

\* Precision restoration: the bounds and the active flags end as they were, the
\* split conditions are reset, inactive constraints lose their phase
RestorePrecision ==
    /\ pc \in {"solve", "search", "propose"}
    /\ phase' = [c \in Constraints |-> IF active[c] THEN phase[c] ELSE NotFixed]
    /\ needToSplit' = FALSE
    /\ rejected' = 0
    /\ violations' = [c \in Constraints |-> 0]
    /\ UNCHANGED <<query, box, ctx, active, stack, rootImplied, target, cost, pc,
                   outcome>>

\* The timeout, a quit request or an error at the top of the main loop, or an error
\* in the local search, which looks at neither the clock nor the request
Interrupted ==
    /\ \/ pc = "solve" /\ \E code \in {"TIMEOUT", "QUIT_REQUESTED", "ERROR"} : Finish(code, None)
       \/ pc \in {"search", "propose"} /\ Finish("ERROR", None)
    /\ UNCHANGED <<query, box, ctx, plState, stack, rootImplied, splitState, cost>>

Next ==
    \/ ApplyValidSplits \/ Tighten \/ FixPhase
    \/ CheckAssignment
    \/ JudgeOptimum \/ LeaveSearch \/ RejectProposal \/ AcceptProposal \/ AbandonSearch
    \/ ForgetTarget \/ SplitOnNull \/ PerformSplit
    \/ Infeasible \/ PopExhausted \/ PopNothing \/ TryAlternative
    \/ RestorePrecision \/ Interrupted

\* The thread that searches always takes another step
Spec == Init /\ [][Next]_vars /\ WF_vars(Next)
-----------------------------------------------------------------------------
\* splitAllowsStoredSolution: no bound of the split excludes a value of the solution
Allows(split, p) == p \in split

\* The debugging solution p, checked by SmtCore whenever the stack changes.  The
\* splits implied at the root and by the entries up to n allow it
ImpliedAllow(p, n) ==
    /\ \A r \in rootImplied : Allows(r, p)
    /\ \A j \in 1 .. n : \A r \in stack[j].implied : Allows(r, p)

\* Entry i is the first whose split excludes it, which is fine: there are alternatives
Skewed(p, i) ==
    /\ ~Allows(stack[i].current, p)
    /\ stack[i].alts # <<>>
    /\ ImpliedAllow(p, i - 1)
    /\ \A j \in 1 .. i - 1 : Allows(stack[j].current, p)

\* checkSkewFromDebuggingSolution
CheckSkew(p) ==
    IF \E i \in DOMAIN stack : Skewed(p, i) THEN "skewed"
    ELSE IF ImpliedAllow(p, Len(stack)) /\ \A j \in DOMAIN stack : Allows(stack[j].current, p)
    THEN "compliant"
    ELSE "error"

\* popSplit: pops should not occur from a compliant stack
PopAllowed(p) == CheckSkew(p) # "compliant"

\* checkBoundCompliancyWithDebugSolution: nor should the bounds exclude what it allows
BoundsComply(p) == CheckSkew(p) = "compliant" => p \in box
-----------------------------------------------------------------------------
TypeOK ==
    /\ box \in Regions
    /\ ctx \in Seq(Regions)
    /\ active \in [Constraints -> BOOLEAN]
    /\ phase \in [Constraints -> Phases \cup {NotFixed}]
    /\ stack \in Seq([current : Regions, alts : Seq(Regions), implied : SUBSET Regions,
                      pl : [active : [Constraints -> BOOLEAN],
                            phase : [Constraints -> Phases \cup {NotFixed}]]])
    /\ rootImplied \subseteq Regions
    /\ needToSplit \in BOOLEAN
    /\ target \in Constraints \cup {Interval, None}
    /\ rejected \in 0 .. Threshold
    /\ violations \in [Constraints -> 0 .. Threshold]
    /\ cost \in 0 .. MaxCost
    /\ pc \in {"solve", "search", "propose", "backtrack", "done", "crash"}

\* The debugging checks, for every solution at once: none of them ever reports an
\* error, and the alternatives of the entry that excludes a solution, applied to the
\* bounds the context kept for it, bring the solution back (SmtCore.cpp:150-480).
StackKeepsSolutions ==
    \A p \in Solutions :
        /\ CheckSkew(p) # "error"
        /\ BoundsComply(p)
        /\ pc = "backtrack" \/ exitCode = "UNSAT" => PopAllowed(p)
        /\ \A i \in DOMAIN stack : Skewed(p, i) =>
               /\ \E a \in DOMAIN stack[i].alts : p \in stack[i].alts[a]
               /\ p \in ctx[i + Len(ctx) - Len(stack)]

\* A constraint the engine no longer looks at holds wherever the bounds allow:
\* its case was applied in this branch, and not only in one that was left.
InactiveHold ==
    \A c \in Constraints \ Active : box \subseteq Holds(c)

\* The number of scopes is the number of splits, counting the SnC split: the
\* context, which knows nothing of the stack, is popped in step with it.
LevelsMatch == Len(ctx) = Len(stack) + IF SnC THEN 1 ELSE 0

\* SAT is reported with an assignment that satisfies every constraint of the
\* query, the inactive ones included, which nobody evaluates any more.
SatIsSolution == exitCode = "SAT" => witness \in Solutions

\* UNSAT is reported only if the query, or the subquery, has no solution.
UnsatMeansNone == exitCode = "UNSAT" => Solutions = {}

\* The stack stands for what is left of the search, and the context for the stack
\* (SmtCore.cpp:150-330).
StackFaithful == StackKeepsSolutions /\ LevelsMatch

\* The answer is right, whichever it is (Engine.cpp:231-420).
AnswerRight == SatIsSolution /\ UnsatMeansNone

\* The stack is no deeper than this, and a split has at most so many cases
Depth == IntervalDepth + Cardinality(Constraints)
MostCases == IF Cardinality(Phases) < 2 THEN 2 ELSE Cardinality(Phases)

\* The alternatives not yet tried at level i; below the stack, all of them while
\* the engine goes down and none while it goes back
Ahead(i) ==
    IF i <= Len(stack) THEN Len(stack[i].alts) + 1
    ELSE IF pc \in {"solve", "search", "propose"} THEN MostCases + 1 ELSE 0

\* How far the engine is from leaving the node it is at: a target to be forgotten,
\* an assignment to be checked, a local search, a split to be made, the way back
Stage ==
    CASE pc \in {"done", "crash"} -> 0
      [] pc = "backtrack" -> 1
      [] pc \in {"search", "propose"} -> 3
      [] pc = "solve" /\ needToSplit -> IF target \in Constraints \ Active THEN 5 ELSE 2
      [] pc = "solve" /\ ~needToSplit -> IF PendingValid = {} THEN 4 ELSE 2

RejectionsLeft == {n \in 1 .. Threshold : rejected < n}
ReportsLeft == {r \in Constraints \X (1 .. Threshold) : violations[r[1]] < r[2]}

\* For each cost a pattern is proposed and its optimum looked at, the dearest first
LooksLeft == IF pc = "search" THEN 2 * cost + 1 ELSE 2 * cost

\* What is left of the search: level by level, then at the node
Levels == [i \in 1 .. Depth |-> 1 .. Ahead(i)]
Node ==
    <<Active, Candidates, box, 1 .. Stage, RejectionsLeft, ReportsLeft, 1 .. LooksLeft>>
Remaining == Levels \o Node

\* Sequences of sets, ordered by the first in which they differ
Below(v, w) ==
    \E i \in DOMAIN w :
        /\ v[i] \subseteq w[i] /\ v[i] # w[i]
        /\ \A j \in 1 .. i - 1 : v[j] = w[j]

\* A proposal that is accepted although it costs no less than the last one: of equal
\* cost it always is (SumOfInfeasibilitiesManager.cpp:272-285)
AcceptNoBetter == AcceptProposal /\ cost' >= cost

\* The steps that can be taken for ever
Excused == RestorePrecision \/ AbandonSearch \/ AcceptNoBetter

\* No step but a restored precision, a local search cut short, or a proposal accepted
\* that costs no less, leaves as much of the search to be done as there was: no cycle
\* of splits, alternatives, rejections, cheaper proposals, reports and forgotten
\* targets comes back to where it began (Engine.cpp:231-420, 3055-3180,
\* SmtCore.cpp:97-330).
StepsForward == [][~Excused => Below(Remaining', Remaining)]_vars

\* The search ends, unless the precision has to be restored, local searches are cut
\* short, or proposals that cost no less are accepted, for ever.
Termination == <>[][~Excused]_vars => <>(pc \in {"done", "crash"})
=============================================================================
